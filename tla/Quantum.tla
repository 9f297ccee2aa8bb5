------------------------------ MODULE Quantum ------------------------------
(***************************************************************************)
(* RR and VRR: the dialogue between the thread that attends to the CPU     *)
(* (escucha, recibir_respuesta_cpu), the one that dispatches (despacho,    *)
(* planificacion_de_procesos) and the two it creates for every dispatch:   *)
(* the timer (q, habilitacion_quantum) and the one that stops the          *)
(* stopwatch at each request (p, habilitacion_instruccion).  Nobody        *)
(* measures time: a quantum may end at any moment.                         *)
(***************************************************************************)
EXTENDS Integers, Sequences, SequencesExt, FiniteSets

CONSTANTS
    MaxPid,       \* bound: the processes, all of them admitted at the start
    Algoritmo,    \* ALGORITMO_PLANIFICACION of kernel.config
    Operaciones,  \* the instructions of the scripts, by their effect on the kernel
    ConIO,        \* the processes whose script does I/O
    MaxCuenta     \* bound: the value of a semaphore

ASSUME QuantumAssumption ==
    /\ MaxPid \in Nat \ {0} /\ MaxCuenta \in Nat \ {0} /\ MaxPid - 1 <= MaxCuenta
    /\ Algoritmo \in {"RR", "VRR"}
    /\ Operaciones \subseteq {"COMPUTO", "IO", "WAIT", "SIGNAL", "EXIT"}

VARIABLES
    sem,          \* the semaphores
    pc,           \* where each thread is
    fin,          \* fin_por_quantum
    esperar,      \* esperar_fin_instruccion
    desaloja,     \* desaloja_por_instruccion
    replanifico,  \* the local of the dispatch that p tells q with
    deQ,          \* pcb_aux->pid of the dispatch
    pedido,       \* the request escucha is attending
    ready,        \* cola_ready
    readyM,       \* cola_ready_m, READY+
    exec,         \* cola_exec
    bloqueados,   \* the processes in the queue of an interface
    duenio,       \* the process that holds the only resource, 0 for none
    colaRec,      \* the queue of that resource
    terminados,   \* cola_exit
    cpu,          \* the CPU: what it waits for and the process it executes
    interrupcion, \* the packet in lista_interrupt, none once attended to
    chCpu,        \* cpu -> kernel
    chDispatch,   \* kernel -> cpu, dispatch port
    chInterrupt,  \* kernel -> cpu, interrupt port
    perdida,      \* history: the CPU lost an interruption to one of another process
    cruce         \* history: a quantum and an instruction both took the process out

banderas == <<fin, esperar, desaloja, replanifico, deQ, pedido>>
colas == <<ready, readyM, exec, bloqueados, duenio, colaRec, terminados>>
conexiones == <<chCpu, chDispatch, chInterrupt>>
deCpu == <<cpu, interrupcion>>

historia == <<perdida, cruce>>

vars == <<sem, pc, banderas, colas, deCpu, conexiones, historia>>

Pids == 1..MaxPid

Semaforos ==
    {"sem_ejecutar", "sem_planificacion", "sem_procesos_en_ready",
     "sem_procesos_en_ready_m", "termino_la_instruccion", "sem_pausa_conteo_quantum",
     "sem_esperar_instruccion", "sem_desalojo_planificacion", "sem_desalojo_quantum",
     "sem_verificar_desalojo_quantum", "sem_replanificacion_quantum"}

Paquete(m, p) == [motivo |-> m, pid |-> p]

\* Once attended to, lista_interrupt is not read again before the next packet.
SinInterrupcion == Paquete("NADA", 0)
Llego == interrupcion # SinInterrupcion

\* sem_wait and sem_post.
Baja(s) == sem[s] > 0 /\ sem' = [sem EXCEPT ![s] = @ - 1]
Sube(s) == sem[s] < MaxCuenta /\ sem' = [sem EXCEPT ![s] = @ + 1]
Suben(S) == /\ \A s \in S : sem[s] < MaxCuenta
            /\ sem' = [s \in Semaforos |-> IF s \in S THEN sem[s] + 1 ELSE sem[s]]

Va(t, l) == pc' = [pc EXCEPT ![t] = l]

\* The first process was chosen when it was admitted, the others are in READY.
Init ==
    /\ sem = [s \in Semaforos |->
                CASE s \in {"sem_ejecutar", "sem_planificacion"} -> 1
                  [] s = "sem_procesos_en_ready" -> MaxPid - 1
                  [] OTHER -> 0]
    /\ pc = [escucha |-> "recibe", despacho |-> "ejecutar", q |-> "fin", p |-> "fin"]
    /\ fin = FALSE /\ esperar = FALSE /\ desaloja = FALSE /\ replanifico = FALSE
    /\ deQ = 0 /\ pedido = Paquete("FIN", 0)
    /\ ready = [i \in 1..(MaxPid - 1) |-> i + 1] /\ readyM = <<>> /\ exec = <<1>>
    /\ bloqueados = {} /\ duenio = 0 /\ colaRec = <<>> /\ terminados = {}
    /\ cpu = [fase |-> "libre", pid |-> 0]
    /\ interrupcion = SinInterrupcion
    /\ chCpu = <<>> /\ chDispatch = <<>> /\ chInterrupt = <<>> /\ perdida = FALSE /\ cruce = FALSE

----------------------------------------------------------------------------
(* The CPU.                                                                *)

CpuRecibePcb ==
    /\ cpu.fase = "libre" /\ chDispatch # <<>> /\ Head(chDispatch).motivo = "PCB"
    /\ cpu' = [fase |-> "ejecuta", pid |-> Head(chDispatch).pid]
    /\ chDispatch' = Tail(chDispatch)
    /\ UNCHANGED <<sem, pc, banderas, colas, interrupcion, chCpu, chInterrupt, historia>>

\* A script signals what its process holds and does not wait for it twice.
Puede(o, p) ==
    /\ o = "SIGNAL" => duenio = p
    /\ o = "WAIT" => duenio # p
    /\ o = "IO" => p \in ConIO

CpuInstruccion(o) ==
    /\ cpu.fase = "ejecuta" /\ Puede(o, cpu.pid)
    /\ cpu' = [cpu EXCEPT !.fase = "responde"]
    /\ chCpu' = chCpu \o (IF o = "COMPUTO" THEN <<>> ELSE <<Paquete(o, cpu.pid)>>)
                      \o <<Paquete("FIN", cpu.pid)>>
    /\ UNCHANGED <<sem, pc, banderas, colas, interrupcion, chDispatch, chInterrupt, historia>>

CpuContinua ==
    /\ cpu.fase = "responde" /\ chDispatch # <<>> /\ Head(chDispatch).motivo = "CONTINUA"
    /\ cpu' = [cpu EXCEPT !.fase = "ejecuta"]
    /\ chDispatch' = Tail(chDispatch)
    /\ UNCHANGED <<sem, pc, banderas, colas, interrupcion, chCpu, chInterrupt, historia>>

CpuNoContinua ==
    /\ cpu.fase = "responde" /\ chInterrupt # <<>> /\ Head(chInterrupt).motivo = "NO_CONTINUA"
    /\ cpu' = [cpu EXCEPT !.fase = "interrumpe"]
    /\ chInterrupt' = Tail(chInterrupt)
    /\ UNCHANGED <<sem, pc, banderas, colas, interrupcion, chCpu, chDispatch, historia>>

\* The last packet stays: one of a quantum that replaces another belongs to a process
\* the CPU has not taken over, and the one it waited for is lost.
CpuRecibeInterrupcion ==
    /\ chInterrupt # <<>> /\ Head(chInterrupt).motivo # "NO_CONTINUA"
    /\ interrupcion' = Head(chInterrupt)
    /\ chInterrupt' = Tail(chInterrupt)
    /\ perdida' = (perdida \/ (Llego /\ Head(chInterrupt).motivo = "QUANTUM"))
    /\ UNCHANGED <<sem, pc, banderas, colas, cpu, chCpu, chDispatch, cruce>>

\* Mutant of CpuAtiendeInterrupcion: the CPU is freed and goes on with its pcb.
CpuNoLimpia ==
    /\ cpu.fase = "interrumpe" /\ Llego
    /\ interrupcion' = SinInterrupcion
    /\ IF interrupcion.pid = cpu.pid
         THEN /\ cpu' = [cpu EXCEPT !.fase = "libre"]
              /\ chCpu' = IF interrupcion.motivo = "QUANTUM"
                            THEN Append(chCpu, Paquete("QUANTUM", cpu.pid)) ELSE chCpu
         ELSE cpu' = [cpu EXCEPT !.fase = "ejecuta"] /\ chCpu' = chCpu
    /\ UNCHANGED <<sem, pc, banderas, colas, chDispatch, chInterrupt, historia>>

\* Only at the end of a quantum does the context go back from here.
CpuAtiendeInterrupcion ==
    /\ cpu.fase = "interrumpe" /\ Llego
    /\ interrupcion' = SinInterrupcion
    /\ IF interrupcion.pid = cpu.pid
         THEN /\ cpu' = [fase |-> "libre", pid |-> 0]
              /\ chCpu' = IF interrupcion.motivo = "QUANTUM"
                            THEN Append(chCpu, Paquete("QUANTUM", cpu.pid)) ELSE chCpu
         ELSE cpu' = [cpu EXCEPT !.fase = "ejecuta"] /\ chCpu' = chCpu
    /\ UNCHANGED <<sem, pc, banderas, colas, chDispatch, chInterrupt, historia>>

----------------------------------------------------------------------------
(* recibir_respuesta_cpu and atender_solicitud_cpu.                        *)

Llega(M) == pc.escucha = "recibe" /\ chCpu # <<>> /\ Head(chCpu).motivo \in M

Instrucciones == {"IO", "WAIT", "SIGNAL", "EXIT"}

\* The packet's context goes to the head of cola_exec.
PideInstruccion ==
    /\ Llega(Instrucciones)
    /\ pedido' = Head(chCpu) /\ exec' = <<Head(chCpu).pid>>
    /\ chCpu' = Tail(chCpu)
    /\ IF fin THEN Va("escucha", "atiende") /\ sem' = sem
              ELSE Va("escucha", "avisa") /\ Sube("termino_la_instruccion")
    /\ UNCHANGED <<fin, esperar, desaloja, replanifico, deQ, ready, readyM, bloqueados,
                   duenio, colaRec, terminados, deCpu, chDispatch, chInterrupt, historia>>

AvisaEspera ==
    /\ pc.escucha = "avisa"
    /\ esperar' = TRUE
    /\ Va("escucha", "pausa")
    /\ UNCHANGED <<sem, fin, desaloja, replanifico, deQ, pedido, colas, deCpu, conexiones, historia>>

\* cola_exec is emptied and takes the process of the packet again.
TerminaPausa ==
    /\ pc.escucha = "pausa"
    /\ Baja("sem_pausa_conteo_quantum")
    /\ esperar' = FALSE /\ exec' = <<pedido.pid>>
    /\ Va("escucha", "atiende")
    /\ UNCHANGED <<fin, desaloja, replanifico, deQ, pedido, ready, readyM, bloqueados, duenio,
                   colaRec, terminados, deCpu, conexiones, historia>>

\* atender_solicitud_cpu returns: motivo outlives the packet, its pcb does not.
Atendido ==
    /\ pedido' = [pedido EXCEPT !.pid = 0]
    /\ Va("escucha", "recibe")

\* The instance is there: the process goes on.
AtiendeWait ==
    /\ pc.escucha = "atiende" /\ pedido.motivo = "WAIT" /\ duenio = 0
    /\ duenio' = pedido.pid
    /\ IF fin THEN sem' = sem ELSE Sube("sem_esperar_instruccion")
    /\ Atendido
    /\ UNCHANGED <<fin, esperar, desaloja, replanifico, deQ, ready, readyM, exec, bloqueados, colaRec, terminados, deCpu,
                   conexiones, historia>>

\* iniciar: under VRR what was blocked goes to READY+.
Inicia(p) ==
    IF Algoritmo = "VRR" THEN readyM' = Append(readyM, p) /\ ready' = ready
                         ELSE ready' = Append(ready, p) /\ readyM' = readyM

DeReady == IF Algoritmo = "VRR" THEN "sem_procesos_en_ready_m" ELSE "sem_procesos_en_ready"

\* signal: p is told to go on only when a process is woken.
SueltaRecurso ==
    IF colaRec = <<>>
      THEN duenio' = 0 /\ UNCHANGED <<sem, ready, readyM, colaRec>>
      ELSE /\ duenio' = Head(colaRec) /\ colaRec' = Tail(colaRec)
           /\ Inicia(Head(colaRec))
           /\ Suben({DeReady} \cup (IF fin THEN {} ELSE {"sem_esperar_instruccion"}))

AtiendeSignal ==
    /\ pc.escucha = "atiende" /\ pedido.motivo = "SIGNAL"
    /\ SueltaRecurso
    /\ Atendido
    /\ UNCHANGED <<fin, esperar, desaloja, replanifico, deQ, exec, bloqueados, terminados, deCpu, conexiones, historia>>

\* Mutant of AtiendeDesalojo: the flag is not raised.
AtiendeSinAvisar ==
    /\ pc.escucha = "atiende"
    /\ pedido.motivo \in {"IO", "EXIT"} \/ (pedido.motivo = "WAIT" /\ duenio # 0)
    /\ Va("escucha", "cede")
    /\ UNCHANGED <<sem, banderas, colas, deCpu, conexiones, historia>>

\* The process leaves the CPU: I/O, EXIT, WAIT with no instance.
AtiendeDesalojo ==
    /\ pc.escucha = "atiende"
    /\ pedido.motivo \in {"IO", "EXIT"} \/ (pedido.motivo = "WAIT" /\ duenio # 0)
    /\ desaloja' = TRUE
    /\ Va("escucha", "cede")
    /\ UNCHANGED <<sem, fin, esperar, replanifico, deQ, pedido, colas, deCpu, conexiones, historia>>

Cede ==
    /\ pc.escucha = "cede"
    /\ IF fin THEN Sube("sem_desalojo_quantum") /\ Va("escucha", "verifica")
              ELSE Sube("sem_esperar_instruccion") /\ Va("escucha", "pausa2")
    /\ UNCHANGED <<banderas, colas, deCpu, conexiones, historia>>

Cedio ==
    /\ \/ pc.escucha = "verifica" /\ Baja("sem_verificar_desalojo_quantum")
       \/ pc.escucha = "pausa2" /\ Baja("sem_pausa_conteo_quantum")
    /\ Va("escucha", "bloquea")
    /\ UNCHANGED <<banderas, colas, deCpu, conexiones, historia>>

Interrumpe(m, p) == chInterrupt' = Append(chInterrupt, Paquete(m, p))

BloqueaIO ==
    /\ pc.escucha = "bloquea" /\ pedido.motivo = "IO"
    /\ bloqueados' = bloqueados \cup {pedido.pid}
    /\ Va("escucha", "esperaPlani")
    /\ UNCHANGED <<sem, banderas, ready, readyM, exec, duenio, colaRec, terminados, deCpu,
                   conexiones, historia>>

\* The token of sem_planificacion is taken and returned, the request is sent.
EnviaIO ==
    /\ pc.escucha = "esperaPlani" /\ sem["sem_planificacion"] > 0
    /\ Interrumpe("IO", pedido.pid)
    /\ Atendido
    /\ UNCHANGED <<sem, fin, esperar, desaloja, replanifico, deQ, colas, deCpu, chCpu, chDispatch, historia>>

BloqueaWait ==
    /\ pc.escucha = "bloquea" /\ pedido.motivo = "WAIT"
    /\ colaRec' = Append(colaRec, pedido.pid)
    /\ Interrumpe("WAIT", pedido.pid)
    /\ Atendido
    /\ UNCHANGED <<sem, fin, esperar, desaloja, replanifico, deQ, ready, readyM, exec, bloqueados, duenio, terminados, deCpu,
                   chCpu, chDispatch, historia>>

\* exit_prima, its resource signalled first.
Sale ==
    /\ pc.escucha = "bloquea" /\ pedido.motivo = "EXIT"
    /\ IF duenio = pedido.pid
         THEN SueltaRecurso
         ELSE UNCHANGED <<sem, ready, readyM, duenio, colaRec>>
    /\ terminados' = terminados \cup {pedido.pid}
    /\ Interrumpe("EXIT", pedido.pid)
    /\ Atendido
    /\ UNCHANGED <<fin, esperar, desaloja, replanifico, deQ, exec, bloqueados, deCpu, chCpu, chDispatch, historia>>

FinPorQuantum ==
    /\ Llega({"FIN"}) /\ fin /\ ~desaloja
    /\ chCpu' = Tail(chCpu)
    /\ chInterrupt' = Append(chInterrupt, Paquete("NO_CONTINUA", 0))
    /\ Sube("sem_desalojo_quantum")
    /\ UNCHANGED <<pc, banderas, colas, deCpu, chDispatch, historia>>

\* Mutant of FinDesaloja: the CPU is not told to stop.
FinSinParar ==
    /\ Llega({"FIN"}) /\ desaloja
    /\ chCpu' = Tail(chCpu)
    /\ Va("escucha", "replanifica")
    /\ UNCHANGED <<sem, banderas, colas, deCpu, chDispatch, chInterrupt, historia>>

FinDesaloja ==
    /\ Llega({"FIN"}) /\ desaloja
    /\ chCpu' = Tail(chCpu)
    /\ chInterrupt' = Append(chInterrupt, Paquete("NO_CONTINUA", 0))
    /\ Va("escucha", "replanifica")
    /\ UNCHANGED <<sem, banderas, colas, deCpu, chDispatch, historia>>

FinContinua ==
    /\ Llega({"FIN"}) /\ ~fin /\ ~desaloja
    /\ chCpu' = Tail(chCpu)
    /\ chDispatch' = Append(chDispatch, Paquete("CONTINUA", 0))
    /\ UNCHANGED <<sem, pc, banderas, colas, deCpu, chInterrupt, historia>>

\* The context of a process whose quantum ended: iniciar, to READY.
LlegaContexto ==
    /\ Llega({"QUANTUM"})
    /\ chCpu' = Tail(chCpu)
    /\ ready' = Append(ready, Head(chCpu).pid) /\ exec' = <<Head(chCpu).pid>>
    /\ Suben({"sem_replanificacion_quantum", "sem_procesos_en_ready"})
    /\ UNCHANGED <<pc, banderas, readyM, bloqueados, duenio, colaRec, terminados, deCpu,
                   chDispatch, chInterrupt, historia>>

----------------------------------------------------------------------------
(* replanificar, by escucha or by the timer.                               *)

Motivo(t) == IF t = "q" THEN "QUANTUM" ELSE pedido.motivo

\* Mutant of Replanifica: the timer does not wait for the context.
ReplanificaYa(t) ==
    /\ pc[t] = "replanifica"
    /\ Baja("sem_planificacion")
    /\ Va(t, "mira")
    /\ UNCHANGED <<banderas, colas, deCpu, conexiones, historia>>

Replanifica(t) ==
    /\ pc[t] = "replanifica"
    /\ Baja("sem_planificacion")
    /\ Va(t, IF t = "q" THEN "contexto" ELSE "mira")
    /\ UNCHANGED <<banderas, colas, deCpu, conexiones, historia>>

EsperaContexto ==
    /\ pc.q = "contexto"
    /\ Baja("sem_replanificacion_quantum")
    /\ Va("q", "mira")
    /\ UNCHANGED <<banderas, colas, deCpu, conexiones, historia>>

\* Under VRR, which of the two queues to wait for is decided before waiting.
Mira(t) ==
    /\ pc[t] = "mira"
    /\ Va(t, IF Algoritmo = "VRR"
                /\ (readyM # <<>> \/ (ready = <<>> /\ Motivo(t) \in {"IO", "WAIT"}))
               THEN "eligeM" ELSE "elige")
    /\ UNCHANGED <<sem, banderas, colas, deCpu, conexiones, historia>>

Elegido(t, p, s) ==
    /\ sem[s] > 0 /\ sem["sem_ejecutar"] < MaxCuenta /\ sem["sem_planificacion"] < MaxCuenta
    /\ sem' = [sem EXCEPT ![s] = @ - 1, !["sem_ejecutar"] = @ + 1,
                          !["sem_planificacion"] = @ + 1]
    /\ exec' = <<p>>
    /\ Va(t, IF t = "q" THEN "cierra" ELSE "recibe")
    /\ UNCHANGED <<banderas, bloqueados, duenio, colaRec, terminados, deCpu, conexiones, historia>>

Elige(t) ==
    /\ pc[t] = "elige" /\ ready # <<>>
    /\ Elegido(t, Head(ready), "sem_procesos_en_ready")
    /\ ready' = Tail(ready) /\ readyM' = readyM

EligeM(t) ==
    /\ pc[t] = "eligeM" /\ readyM # <<>>
    /\ Elegido(t, Head(readyM), "sem_procesos_en_ready_m")
    /\ readyM' = Tail(readyM) /\ ready' = ready

----------------------------------------------------------------------------
(* planificacion_de_procesos and its two threads.                          *)

\* The two threads of the dispatch before have ended.
Despacha ==
    /\ pc.despacho = "ejecutar" /\ pc.q = "fin" /\ pc.p = "fin"
    /\ Baja("sem_ejecutar")
    /\ desaloja' = FALSE /\ replanifico' = FALSE /\ deQ' = Head(exec)
    /\ chDispatch' = Append(chDispatch, Paquete("PCB", Head(exec)))
    /\ pc' = [pc EXCEPT !.despacho = "desalojo", !.q = "duerme", !.p = "espera"]
    /\ UNCHANGED <<fin, esperar, pedido, colas, deCpu, chCpu, chInterrupt, historia>>

TerminaDespacho ==
    /\ pc.despacho = "desalojo"
    /\ Baja("sem_desalojo_planificacion")
    /\ Va("despacho", "ejecutar")
    /\ UNCHANGED <<banderas, colas, deCpu, conexiones, historia>>

\* usleep ends, p is cancelled: it dies where it waits, elsewhere it goes on.
Despierta ==
    /\ pc.q = "duerme"
    /\ pc' = [pc EXCEPT !.q = "decide", !.p = IF @ \in {"espera", "reanuda"} THEN "fin" ELSE @]
    /\ UNCHANGED <<sem, banderas, colas, deCpu, conexiones, historia>>

Decide ==
    /\ pc.q = "decide"
    /\ Va("q", IF replanifico \/ desaloja THEN "fin" ELSE "enciende")
    /\ UNCHANGED <<sem, banderas, colas, deCpu, conexiones, historia>>

\* An instruction may have raised desaloja since it was read: they cross.
EnciendeFin ==
    /\ pc.q = "enciende"
    /\ fin' = TRUE
    /\ Va("q", "avisa")
    /\ cruce' = (cruce \/ desaloja)
    /\ UNCHANGED <<sem, esperar, desaloja, replanifico, deQ, pedido, colas, deCpu, conexiones,
                   perdida>>

\* The thread that waits for the stopwatch is let go and the CPU is interrupted, by a
\* timer that p has not cancelled: a cancelled one dies at the send.
PideDesalojo ==
    /\ pc.q = "avisa"
    /\ IF esperar THEN Sube("sem_pausa_conteo_quantum") ELSE sem' = sem
    /\ IF replanifico THEN Va("q", "fin") /\ chInterrupt' = chInterrupt
                       ELSE Va("q", "desalojo") /\ Interrumpe("QUANTUM", deQ)
    /\ UNCHANGED <<banderas, colas, deCpu, chCpu, chDispatch, historia>>

\* Mutant of EsperaDesalojo: the timer always chooses another process.
EsperaYReplanifica ==
    /\ pc.q = "desalojo" /\ sem["sem_desalojo_quantum"] > 0
    /\ sem["sem_verificar_desalojo_quantum"] < MaxCuenta
    /\ sem' = [sem EXCEPT !["sem_desalojo_quantum"] = @ - 1,
                          !["sem_verificar_desalojo_quantum"] = IF desaloja THEN @ + 1 ELSE @]
    /\ Va("q", "replanifica")
    /\ UNCHANGED <<banderas, colas, deCpu, conexiones, historia>>

EsperaDesalojo ==
    /\ pc.q = "desalojo" /\ sem["sem_desalojo_quantum"] > 0
    /\ sem["sem_verificar_desalojo_quantum"] < MaxCuenta
    /\ sem' = [sem EXCEPT !["sem_desalojo_quantum"] = @ - 1,
                          !["sem_verificar_desalojo_quantum"] = IF desaloja THEN @ + 1 ELSE @]
    /\ Va("q", IF desaloja THEN "cierra" ELSE "replanifica")
    /\ UNCHANGED <<banderas, colas, deCpu, conexiones, historia>>

CierraQuantum ==
    /\ pc.q = "cierra"
    /\ fin' = FALSE
    /\ Sube("sem_desalojo_planificacion")
    /\ Va("q", "fin")
    /\ UNCHANGED <<esperar, desaloja, replanifico, deQ, pedido, colas, deCpu, conexiones, historia>>

\* Set by the timer when it wakes, next to the cancellation of p.
termino_sleep == pc.q # "duerme"

\* p goes on, or ends: at a test of termino_sleep, or cancelled at a wait.
Espera(l) == Va("p", IF termino_sleep THEN "fin" ELSE l)

TerminoInstruccion ==
    /\ pc.p = "espera"
    /\ Baja("termino_la_instruccion")
    /\ Va("p", "paro")
    /\ UNCHANGED <<banderas, colas, deCpu, conexiones, historia>>

MiraSleep ==
    /\ pc.p = "sigue"
    /\ Espera("compara")
    /\ UNCHANGED <<sem, banderas, colas, deCpu, conexiones, historia>>

PausaCronometro ==
    /\ pc.p = "paro"
    /\ Espera("reanuda")
    /\ IF termino_sleep THEN sem' = sem ELSE Sube("sem_pausa_conteo_quantum")
    /\ UNCHANGED <<banderas, colas, deCpu, conexiones, historia>>

Reanuda ==
    /\ pc.p = "reanuda"
    /\ Baja("sem_esperar_instruccion")
    /\ Va("p", "sigue")
    /\ UNCHANGED <<banderas, colas, deCpu, conexiones, historia>>

OtraVuelta ==
    /\ pc.p = "compara" /\ ~desaloja
    /\ Espera("espera")
    /\ UNCHANGED <<sem, banderas, colas, deCpu, conexiones, historia>>

\* The timer is cancelled: it dies where it waits, elsewhere it goes on.  If it has
\* raised fin, they cross.
Corta ==
    /\ pc.p = "compara" /\ desaloja
    /\ replanifico' = TRUE
    /\ cruce' = (cruce \/ fin)
    /\ Suben({"sem_pausa_conteo_quantum", "sem_desalojo_planificacion"})
    /\ pc' = [pc EXCEPT !.p = "fin",
                        !.q = IF @ \in {"decide", "enciende", "avisa", "cierra"} THEN @ ELSE "fin"]
    /\ UNCHANGED <<fin, esperar, desaloja, deQ, pedido, colas, deCpu, conexiones, perdida>>

\* END_OF_IO_*.
FinIO(p) ==
    /\ p \in bloqueados
    /\ bloqueados' = bloqueados \ {p}
    /\ Inicia(p)
    /\ Sube(DeReady)
    /\ UNCHANGED <<pc, banderas, exec, duenio, colaRec, terminados, deCpu, conexiones, historia>>

Cpu ==
    \/ CpuRecibePcb \/ \E o \in Operaciones : CpuInstruccion(o)
    \/ CpuContinua \/ CpuNoContinua \/ CpuRecibeInterrupcion \/ CpuAtiendeInterrupcion

Escucha ==
    \/ PideInstruccion \/ AvisaEspera \/ TerminaPausa
    \/ AtiendeWait \/ AtiendeSignal \/ AtiendeDesalojo \/ Cede \/ Cedio
    \/ BloqueaIO \/ EnviaIO \/ BloqueaWait \/ Sale
    \/ FinPorQuantum \/ FinDesaloja \/ FinContinua \/ LlegaContexto
    \/ Replanifica("escucha") \/ Mira("escucha") \/ Elige("escucha") \/ EligeM("escucha")

Temporizador ==
    \/ Despierta \/ Decide \/ EnciendeFin \/ PideDesalojo \/ EsperaDesalojo \/ CierraQuantum
    \/ Replanifica("q") \/ EsperaContexto \/ Mira("q") \/ Elige("q") \/ EligeM("q")

Cronometro ==
    TerminoInstruccion \/ MiraSleep \/ PausaCronometro \/ Reanuda \/ OtraVuelta \/ Corta

Next ==
    \/ Cpu \/ Escucha \/ Despacha \/ TerminaDespacho \/ Temporizador \/ Cronometro
    \/ \E p \in Pids : FinIO(p)

Spec == Init /\ [][Next]_vars
----------------------------------------------------------------------------
(* Properties.                                                             *)

Puntos ==
    [escucha : {"recibe", "avisa", "pausa", "atiende", "cede", "verifica", "pausa2", "bloquea",
                "esperaPlani", "replanifica", "mira", "elige", "eligeM"},
     despacho : {"ejecutar", "desalojo"},
     q : {"fin", "duerme", "decide", "enciende", "avisa", "desalojo", "replanifica", "contexto", "mira",
          "elige", "eligeM", "cierra"},
     p : {"fin", "espera", "paro", "reanuda", "sigue", "compara"}]

TypeOK ==
    /\ sem \in [Semaforos -> 0..MaxCuenta] /\ pc \in Puntos
    /\ deQ \in Pids \cup {0} /\ pedido.pid \in Pids \cup {0}
    /\ ready \in Seq(Pids) /\ readyM \in Seq(Pids) /\ colaRec \in Seq(Pids)
    /\ exec \in Seq(Pids) /\ Len(exec) = 1
    /\ bloqueados \subseteq Pids /\ terminados \subseteq Pids /\ duenio \in Pids \cup {0}
    /\ cpu.pid \in Pids \cup {0} /\ (cpu.fase = "libre" <=> cpu.pid = 0)

Veces(s, p) == Cardinality({i \in DOMAIN s : s[i] = p})

\* Neither crossing has happened: the CPU lost no interruption (perdida) and no end
\* of a quantum and instruction both found the other undecided (cruce).  After one
\* the CPU may be given twice or a thread wait for ever.
SinCruces == ~perdida /\ ~cruce

\* Until a crossing (SinCruces), queue_push and queue_pop by escucha, by the timer and by
\* the interfaces leave a process in one queue, or it is the one in cola_exec, whatever
\* the moment a quantum ends.
UnLugar ==
    SinCruces =>
      \A p \in Pids :
        LET k == Veces(ready \o readyM \o colaRec, p)
                   + Cardinality({p} \cap bloqueados) + Cardinality({p} \cap terminados)
        IN  k <= 1 /\ (k = 0 => exec = <<p>>)

Hay(ch, m) == \E i \in DOMAIN ch : ch[i].motivo = m

\* The CPU was told to go on with its process, or has not asked.
CpuOcupada ==
    cpu.fase \in {"ejecuta", "responde"} /\ ~Hay(chInterrupt, "NO_CONTINUA")

\* The end of a quantum and the instruction that leaves the CPU may both ask for
\* another process (replanificar, 1069 and 951): until a crossing (SinCruces) one of
\* them gets it.
UnDespacho ==
    SinCruces =>
      sem["sem_ejecutar"] + Cardinality({i \in DOMAIN chDispatch : chDispatch[i].motivo = "PCB"})
        + (IF CpuOcupada THEN 1 ELSE 0) <= 1

\* recibir_respuesta_cpu loads every packet into the head of cola_exec (393): until a
\* crossing (SinCruces) it is the process that sent it, also when its quantum ended
\* in the meantime.
PaqueteDelEjecutado ==
    SinCruces /\ chCpu # <<>> /\ Head(chCpu).motivo # "FIN" => exec = <<Head(chCpu).pid>>

\* An instruction that leaves the CPU after the quantum ended waits for the timer
\* (sem_verificar_desalojo_quantum, 1152): until a crossing (SinCruces) the timer has
\* answered it, or will.
VerificaRespondida ==
    SinCruces /\ pc.escucha = "verifica" =>
      \/ sem["sem_verificar_desalojo_quantum"] > 0
      \/ pc.q \in {"avisa", "desalojo"} /\ sem["sem_desalojo_quantum"] > 0 /\ desaloja

\* The timer holds sem_planificacion while it waits for the context of the process
\* it evicts (970): until a crossing (SinCruces) the CPU has sent it or was told to,
\* with the interruption that names that process the last one it gets.
ContextoViene ==
    SinCruces /\ pc.q = "contexto" =>
      \/ sem["sem_replanificacion_quantum"] > 0 \/ Hay(chCpu, "QUANTUM")
      \/ /\ cpu.pid = deQ
         /\ cpu.fase = "interrumpe" \/ Hay(chInterrupt, "NO_CONTINUA")
         /\ IF Hay(chInterrupt, "QUANTUM")
              THEN Last(chInterrupt) \in {Paquete("QUANTUM", deQ), Paquete("NO_CONTINUA", 0)}
              ELSE interrupcion = Paquete("QUANTUM", deQ)

=============================================================================
