-------------------------------- MODULE Cpu --------------------------------
(***************************************************************************)
(* The CPU process: the thread of the dispatch port, the thread of the     *)
(* interrupt port and the two threads of the process in execution          *)
(* (empezar_a_ejecutar_proceso, esperar_su_desalojo).  After every         *)
(* instruction the CPU sends FIN_INSTRUCCION and waits for the kernel to   *)
(* say whether it goes on; when it does not, it waits for the interruption *)
(* packet and obeys it only if it names the process in execution.          *)
(***************************************************************************)
EXTENDS Canales

VARIABLES
    cpuFase,     \* what the executing thread is waiting for
    cpuPid,      \* pcb_proceso->pid, 0 when there is none (proceso_vacio)
    cpuPC,       \* pcb_proceso->registros.PC
    cpuInt,      \* the pid in lista_interrupt, the last packet received
    cpuPrimera,  \* es_primera_interrupcion_recibida
    cpuLlego,    \* sem_llego_paquete_interrupt
    ejecutadas   \* history: the instructions each process has executed

cpuVars == <<cpuFase, cpuPid, cpuPC, cpuInt, cpuPrimera, cpuLlego, ejecutadas>>

Fases == {"libre", "ejecuta", "responde", "interrumpe"}

CpuTypeOK ==
    /\ cpuFase \in Fases
    /\ cpuPid \in Pids \cup {0}
    /\ cpuPC \in Nat
    /\ cpuInt \in Pids \cup {0}
    /\ cpuPrimera \in BOOLEAN
    /\ cpuLlego \in Nat
    /\ ejecutadas \in [Pids -> Nat]
    /\ cpuFase # "libre" => cpuPid \in Pids

CpuInit ==
    /\ cpuFase = "libre"
    /\ cpuPid = 0
    /\ cpuPC = 0
    /\ cpuInt = 0
    /\ cpuPrimera = TRUE
    /\ cpuLlego = 0
    /\ ejecutadas = [p \in Pids |-> 0]

\* The dispatch thread waits for sem_iniciar_nuevo_proceso before it loads
\* the pcb, so the packet stays in the connection until the CPU is free.
CpuRecibePcb ==
    /\ cpuFase = "libre"
    /\ chDispatch # <<>>
    /\ Head(chDispatch).tipo = "PCB"
    /\ cpuPid' = Head(chDispatch).pid
    /\ cpuPC' = Head(chDispatch).pc
    /\ cpuFase' = "ejecuta"
    /\ chDispatch' = Tail(chDispatch)
    /\ UNCHANGED <<cpuInt, cpuPrimera, cpuLlego, ejecutadas,
                   script, chInterrupt, chCpu, ioPedidos, ioFin>>

\* The packets an instruction sends to the kernel before FIN_INSTRUCCION.
\* The I/O instructions ignore that the translation of the address failed:
\* after DENIED_ACCESS they send their own request as well.
Avisos(ins, p, c) ==
    LET aviso(m) == [motivo |-> m, pid |-> p, pc |-> c, arg |-> ins.arg]
    IN  CASE ins.op = "COMPUTO"     -> <<>>
          [] ins.op = "FALLA"       -> <<aviso("ERROR")>>
          [] ins.op = "IO_DENEGADA" -> <<aviso("ERROR"), aviso("IO")>>
          [] OTHER                  -> <<aviso(ins.op)>>

FinInstruccion(p, c) == [motivo |-> "FIN", pid |-> p, pc |-> c, arg |-> Nada]

\* Fetch, PC++, execution and FIN_INSTRUCCION.
CpuInstruccion ==
    /\ cpuFase = "ejecuta"
    /\ cpuPC < Len(script[cpuPid])
    /\ cpuPC' = cpuPC + 1
    /\ chCpu' = chCpu \o Avisos(script[cpuPid][cpuPC + 1], cpuPid, cpuPC + 1)
                      \o <<FinInstruccion(cpuPid, cpuPC + 1)>>
    /\ ejecutadas' = [ejecutadas EXCEPT ![cpuPid] = @ + 1]
    /\ cpuFase' = "responde"
    /\ UNCHANGED <<cpuPid, cpuInt, cpuPrimera, cpuLlego,
                   script, chDispatch, chInterrupt, ioPedidos, ioFin>>

CpuContinua ==
    /\ cpuFase = "responde"
    /\ chDispatch # <<>>
    /\ Head(chDispatch).tipo = "CONTINUA"
    /\ chDispatch' = Tail(chDispatch)
    /\ cpuFase' = "ejecuta"
    /\ UNCHANGED <<cpuPid, cpuPC, cpuInt, cpuPrimera, cpuLlego, ejecutadas,
                   script, chInterrupt, chCpu, ioPedidos, ioFin>>

CpuNoContinua ==
    /\ cpuFase = "responde"
    /\ chInterrupt # <<>>
    /\ Head(chInterrupt).tipo = "NO_CONTINUA"
    /\ chInterrupt' = Tail(chInterrupt)
    /\ cpuFase' = "interrumpe"
    /\ UNCHANGED <<cpuPid, cpuPC, cpuInt, cpuPrimera, cpuLlego, ejecutadas,
                   script, chDispatch, chCpu, ioPedidos, ioFin>>

\* The interrupt thread keeps the last packet; only the first one since the
\* last interruption was attended to posts the semaphore.
CpuRecibeInterrupcion ==
    /\ chInterrupt # <<>>
    /\ Head(chInterrupt).tipo = "INTERRUPCION"
    /\ cpuInt' = Head(chInterrupt).pid
    /\ cpuLlego' = IF cpuPrimera THEN cpuLlego + 1 ELSE cpuLlego
    /\ cpuPrimera' = FALSE
    /\ chInterrupt' = Tail(chInterrupt)
    /\ UNCHANGED <<cpuFase, cpuPid, cpuPC, ejecutadas,
                   script, chDispatch, chCpu, ioPedidos, ioFin>>

\* Mutant of InterrupcionValida: the comparison inverted.
InterrupcionAjena == cpuInt # cpuPid

InterrupcionValida == cpuInt = cpuPid

\* Mutant of CpuAtiendeInterrupcion: the packet's arrival is not consumed.
CpuAtiendeSinConsumir ==
    /\ cpuFase = "interrumpe"
    /\ cpuLlego > 0
    /\ cpuPrimera' = TRUE
    /\ IF InterrupcionValida
         THEN cpuFase' = "libre" /\ cpuPid' = 0
         ELSE cpuFase' = "ejecuta" /\ cpuPid' = cpuPid
    /\ UNCHANGED <<cpuPC, cpuInt, cpuLlego, ejecutadas>>
    /\ UNCHANGED canales

\* manejar_pedido_interrupcion and esperar_su_desalojo.
CpuAtiendeInterrupcion ==
    /\ cpuFase = "interrumpe"
    /\ cpuLlego > 0
    /\ cpuLlego' = cpuLlego - 1
    /\ cpuPrimera' = TRUE
    /\ IF InterrupcionValida
         THEN cpuFase' = "libre" /\ cpuPid' = 0
         ELSE cpuFase' = "ejecuta" /\ cpuPid' = cpuPid
    /\ UNCHANGED <<cpuPC, cpuInt, ejecutadas>>
    /\ UNCHANGED canales

CpuNext ==
    \/ CpuRecibePcb
    \/ CpuInstruccion
    \/ CpuContinua
    \/ CpuNoContinua
    \/ CpuRecibeInterrupcion
    \/ CpuAtiendeInterrupcion
=============================================================================
