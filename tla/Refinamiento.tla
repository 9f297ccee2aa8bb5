---------------------------- MODULE Refinamiento ----------------------------
(***************************************************************************)
(* The system seen as a Planificador: what of an instruction counts as     *)
(* done while its packets are on their way, and who has the processor      *)
(* while the kernel and the CPU hand it over.                              *)
(***************************************************************************)
EXTENDS Sistema

\* The process in cola_exec has the processor from the moment it is chosen until escucha
\* attends to what takes it away, exit_prima included; its pcb stays there afterwards.
EnCpu ==
    {p \in Pids : /\ colaExec = <<p>>
                  /\ pc["escucha"] \notin {"replanifica", "elige"}
                  /\ \/ semEjecutar = 1 \/ ~desaloja
                     \/ pc["escucha"] \in {"libera", "liberaEvalua"}}

Saliendo == {p \in Pids : pc["escucha"] \in {"libera", "liberaEvalua"} /\ pidDe["escucha"] = p}

\* The last instruction is executed when the kernel has attended to its packet, wait and
\* signal up to their end.
PorAtender == Len(chCpu) = 2 \/ pc["escucha"] \in {"waitEvalua", "signalEvalua"}

\* The instructions of p that the kernel has attended to.
Atendidas(p) == IF p = cpuPid /\ PorAtender THEN ejecutadas[p] - 1 ELSE ejecutadas[p]

Avance == [p \in Pids |-> Atendidas(p)]

\* instancias_recurso changes at the start of wait and signal, and goes below zero.
Libres == [r \in Recursos |-> IF Saldadas(r) < 0 THEN 0 ELSE Saldadas(r)]

\* A process is recorded as a holder of what it waits for.
Tenencias ==
    [p \in Pids |-> [r \in Recursos |->
        Cardinality(DePar(p, r)) - IF Esta(colaRec[r], p) THEN 1 ELSE 0]]

Ideal == INSTANCE Planificador WITH
        Programas <- Scripts, programa <- script, creados <- contador - 1,
        nuevos <- colaNew, dentro <- Activos, grado <- Grado + ajusteGrado,
        listos <- colaReady, enCpu <- EnCpu, saliendo <- Saliendo,
        enIO <- colaIO, enRec <- colaRec, terminados <- colaExit,
        avance <- Avance, libres <- Libres, tiene <- Tenencias

\* Every step of a thread of the kernel, of the CPU or of an interface is one step of the
\* abstract scheduler or none: threads, semaphores and packets add nothing to what can
\* happen to a process, and nothing happens in an order in which the queues would not.
Implementa == Ideal!Spec
=============================================================================
