------------------------------ MODULE Sistema ------------------------------
(***************************************************************************)
(* The kernel, the CPU and the I/O interfaces together, each step one step *)
(* of one of them.  When the kernel falls the CPU ends too (its dispatch   *)
(* and interrupt threads call exit), so nothing happens after that.        *)
(***************************************************************************)
EXTENDS Kernel, Cpu

vars == <<kernelVars, cpuVars, canales>>

Init == CanalesInit /\ KernelInit /\ CpuInit

Interfaz(i) == AtiendeInterfaz(i) /\ UNCHANGED <<kernelVars, cpuVars>>

Caido == caido /\ UNCHANGED vars

Next ==
    \/ ~caido /\ KernelNext /\ UNCHANGED cpuVars
    \/ ~caido /\ CpuNext /\ UNCHANGED kernelVars
    \/ ~caido /\ \E i \in Interfaces : Interfaz(i)
    \/ Caido

Spec == Init /\ [][Next]_vars
----------------------------------------------------------------------------
(* Where the processes are.                                                *)

TypeOK == CanalesTypeOK /\ KernelTypeOK /\ CpuTypeOK

Procesos == {p \in Pids : p < contador}

Veces(q, p) == Cardinality({j \in 1..Len(q) : q[j] = p})

\* The places of p in the queues other than cola_exec, whose content is only
\* replaced when the next process is chosen.
Lugares(p) ==
    {<<"NEW", Nada, j>> : j \in {k \in 1..Len(colaNew) : colaNew[k] = p}}
    \cup {<<"READY", Nada, j>> : j \in {k \in 1..Len(colaReady) : colaReady[k] = p}}
    \cup {<<"EXIT", Nada, j>> : j \in {k \in 1..Len(colaExit) : colaExit[k] = p}}
    \cup (UNION {{<<"IO", i, j>> : j \in {k \in 1..Len(colaIO[i]) : colaIO[i][k] = p}} : i \in Interfaces})
    \cup (UNION {{<<"REC", r, j>> : j \in {k \in 1..Len(colaRec[r]) : colaRec[r][k] = p}} : r \in Recursos})

\* No process is lost or duplicated by the threads that move pcbs between
\* queues: each one that was created is in exactly one queue, or it is the one
\* in cola_exec (queue_push and queue_pop of all of kernel.c).
EnUnSoloLugar ==
    \A p \in Procesos :
        /\ Cardinality(Lugares(p)) <= 1
        /\ Lugares(p) = {} => colaExec = <<p>>

Activos == {p \in Procesos : estado[p].tipo \notin {"NADA", "NEW", "EXIT"}}

\* The degree of multiprogramming: the slots in sem_multiprogramacion and the
\* processes that hold one always add up to the configured degree, so no
\* admission, block, wake-up or exit loses or creates a slot.
GradoConservado == semMulti + Cardinality(Activos) = Grado + ajusteGrado

\* A pop guarded by a semaphore never finds its queue empty: the semaphores
\* count cola_ready and cola_new (administrar_procesos_new, replanificar).
SemaforosCuentan ==
    /\ semReady = Len(colaReady)
    /\ semNew + (IF pc["nuevos"] = "esperaMulti" THEN 1 ELSE 0) = Len(colaNew)

\* sem_planificacion is a mutex with memory: its tokens are the INICIAR_ minus
\* the DETENER_PLANIFICACION completed, less the ones replanificar holds.
TokensPlanificacion ==
    semPlanificacion + Cardinality({t \in Hilos : pc[t] = "elige"}) = saldoPlani

\* One process at a time is given to the CPU, and it is the one in cola_exec.
PcbsEnCamino == {j \in 1..Len(chDispatch) : chDispatch[j].tipo = "PCB"}

UnSoloDespacho ==
    /\ semEjecutar + Cardinality(PcbsEnCamino) <= 1
    /\ \A j \in PcbsEnCamino : colaExec = <<chDispatch[j].pid>>

\* What the CPU asks for is charged to the process that asked: recibir_
\* respuesta_cpu loads every packet into the head of cola_exec, which must be
\* the process that sent it (kernel.c:393).
PaqueteDelEjecutado ==
    \A j \in 1..Len(chCpu) : colaExec = <<chCpu[j].pid>>

\* When the CPU is told not to go on, the packet it has to attend to is there
\* and names the process it executes: none is discarded, none is left over
\* for the next process, none meant for one evicts another (cpu.c:244).
InterrupcionDelEjecutado ==
    cpuFase = "interrumpe" => cpuLlego = 1 /\ cpuInt = cpuPid

\* The context survives: a process goes back to the CPU at the instruction
\* after the last one it executed.
ContextoConservado ==
    \A j \in PcbsEnCamino : chDispatch[j].pc = ejecutadas[chDispatch[j].pid]

\* The requests an interface has been sent, answered or not, are those of the
\* processes in its queue, in the same order: END_OF_IO_*, which names no one,
\* always wakes the process it is about (kernel.c:222).
IOEnOrden ==
    \A i \in Interfaces :
        colaIO[i] = ioFin[i] \o ioPedidos[i]
                    \o (IF pc["escucha"] = "esperaPlani" /\ argDe["escucha"] = i
                         THEN <<pidDe["escucha"]>> ELSE <<>>)

\* No thread dereferences a null pointer.
NoCae == ~caido

----------------------------------------------------------------------------
(* Resources.                                                              *)

Retenciones(r) == {x \in retenidos : x.rec = r}

En(t, l, r) == IF pc[t] = l /\ argDe[t] = r THEN 1 ELSE 0

\* Instances are neither lost nor created: those left plus those recorded in
\* lista_recursos_retenidos are the configured ones, counting the thread that
\* has changed the number and not yet the list.
ConservaInstancias ==
    \A r \in Recursos :
        instancias[r] + Cardinality(Retenciones(r))
        = Instancias[r] - En("escucha", "waitEvalua", r)
                        + En("escucha", "signalEvalua", r)
                        + En("escucha", "liberaEvalua", r)
                        + En("consola", "liberaEvalua", r)

\* The number of instances once the thread that has changed it, if there is one,
\* has changed the queue too.
Saldadas(r) ==
    instancias[r] + En("escucha", "waitEvalua", r)
                  - En("escucha", "signalEvalua", r)
                  - En("escucha", "liberaEvalua", r)
                  - En("consola", "liberaEvalua", r)

\* A negative number of instances is the number of processes in the queue.
NegativasEnCola ==
    \A r \in Recursos :
        Len(colaRec[r]) = IF Saldadas(r) < 0 THEN -Saldadas(r) ELSE 0

\* A process is in lista_recursos_retenidos while it waits, so that the signal
\* that wakes it up gives it the instance without recording it (kernel.c:1490).
EsperaAnotada ==
    \A r \in Recursos : \A j \in 1..Len(colaRec[r]) : DePar(colaRec[r][j], r) # {}

----------------------------------------------------------------------------
(* Steps.                                                                  *)

\* The last instruction p executed was an I/O on an address not mapped.
Denegado(p) == ejecutadas[p] > 0 /\ script[p][ejecutadas[p]].op = "IO_DENEGADA"

\* EXIT is final: no thread brings a finished process back, save the one whose
\* I/O was denied, for which the CPU sends a second request (cpu.c:653-672 and
\* its callers, which send theirs whatever the translation returned).
ExitFinal ==
    [][\A p \in Pids :
         estado[p].tipo = "EXIT" /\ ~Denegado(p) => estado'[p].tipo = "EXIT"]_vars

\* With planning stopped no process enters EXEC.
DetenidaNoElige ==
    [][saldoPlani <= 0 =>
         \A p \in Pids : estado'[p].tipo = "EXEC" => estado[p].tipo = "EXEC"]_vars

\* A finished process holds nothing.
ExitSinRecursos ==
    \A p \in Procesos : estado[p].tipo = "EXIT" => DeProceso(p) = {}

----------------------------------------------------------------------------
(* What comments of kernel.c say and FINALIZAR_PROCESO or an early answer  *)
(* of an interface contradict.                                             *)

\* kernel.c:591: the degree of multiprogramming varies with the processes in
\* READY, READY+ and EXEC, and taking one of them out frees its slot: between
\* two commands there are never more slots than the degree leaves.
GradoSegunColas ==
    pc["consola"] = "lee" => semMulti + Cardinality(Activos) <= Grado + ajusteGrado

\* kernel.c:590: no list is asked for an element when it is empty.
NoSacaDeColaVacia ==
    /\ ~(pc["nuevos"] = "esperaMulti" /\ semMulti > 0 /\ colaNew = <<>>)
    /\ \A t \in Hilos : ~(pc[t] = "elige" /\ semReady > 0 /\ colaReady = <<>>)

\* kernel.c:539: the process in the CPU is evicted once its instruction ended;
\* until then what it asks for finds its pcb in cola_exec.
InstruccionAtendida ==
    pc["consola"] \in {"pideDesalojo", "esperaUsuario"} /\ Llega(Motivos \ {"FIN"})
        => colaExec = <<Head(chCpu).pid>>

\* kernel.c:1194: the process whose state names an interface is blocked.
BloqueadoEnCola ==
    \A p \in Procesos :
        estado[p].tipo = "BLOCK - IO" => Esta(colaIO[estado[p].nombre], p)

----------------------------------------------------------------------------
(* Progress.  The threads are POSIX threads that nothing suspends but      *)
(* their semaphores and connections, so each step a thread, the CPU or an  *)
(* interface can take for ever is taken; the console's user owes nothing,  *)
(* but a command once read runs on.                                        *)

PasoNuevos    == ~caido /\ Nuevos /\ UNCHANGED cpuVars
PasoEscucha   == ~caido /\ Escucha /\ UNCHANGED cpuVars
PasoDespacha  == ~caido /\ Despacha /\ UNCHANGED cpuVars
PasoConsola   == ~caido /\ (Detiene \/ RestaGrado) /\ UNCHANGED cpuVars
PasoHilo(t)   == ~caido /\ Hilo(t) /\ UNCHANGED cpuVars
PasoFinIO(i)  == ~caido /\ FinIO(i) /\ UNCHANGED cpuVars
PasoInterfaz(i) == ~caido /\ Interfaz(i)
PasoCpu       == ~caido /\ CpuNext /\ UNCHANGED kernelVars

Justicia ==
    /\ WF_vars(PasoNuevos) /\ WF_vars(PasoEscucha) /\ WF_vars(PasoDespacha)
    /\ WF_vars(PasoConsola) /\ WF_vars(PasoCpu)
    /\ \A t \in Hilos \ {"consola"} : WF_vars(PasoHilo(t))
    /\ \A i \in Interfaces : WF_vars(PasoFinIO(i)) /\ WF_vars(PasoInterfaz(i))

SpecJusta == Spec /\ Justicia

\* Every process that is created ends while planning stays started, whatever the
\* order in which the threads run: no wake-up is lost (signal, END_OF_IO_*,
\* iniciar and the answers to FIN_INSTRUCCION, all of kernel.c).
TodosTerminan ==
    \A p \in Pids : (Existe(p) /\ saldoPlani > 0) ~> (estado[p].tipo = "EXIT" \/ saldoPlani <= 0)

\* DETENER_PLANIFICACION comes back, unless planning was not started or the
\* scheduler waits for ever, token in hand, for a process to become ready.
EsperaListo == \E t \in Hilos : pc[t] = "elige" /\ semReady = 0

DetenerResponde ==
    (pc["consola"] = "detiene") ~> (pc["consola"] = "lee" \/ saldoPlani <= 0 \/ []EsperaListo)
=============================================================================
