---------------------------- MODULE Planificador ----------------------------
(***************************************************************************)
(* What the simulator promises under FIFO, with no threads, semaphores or  *)
(* connections: one processor, a queue of processes in each place, and     *)
(* instructions that take effect at once, in the order of the program.     *)
(***************************************************************************)
EXTENDS Integers, Sequences, FiniteSets

CONSTANTS
    Pids,        \* the processes, 1..n
    Recursos,    \* the resources
    Interfaces,  \* the I/O interfaces
    Programas,   \* the sequences of instructions a process may have
    Instancias,  \* the instances of each resource
    Grado        \* the degree of multiprogramming at the start

VARIABLES
    programa,    \* the instructions of each process
    creados,     \* how many processes there are
    nuevos,      \* those that wait to be admitted
    dentro,      \* those that were admitted and have not ended
    grado,       \* how many of them there may be
    listos,      \* those that wait for the processor
    enCpu,       \* the one that has it, if any
    saliendo,    \* the same one, while it returns what it holds to end
    enIO,        \* those that wait for each interface
    enRec,       \* those that wait for each resource
    terminados,  \* those that ended
    avance,      \* the instructions each process has executed
    libres,      \* the instances nobody holds
    tiene        \* how many of each resource each process holds

vars == <<programa, creados, nuevos, dentro, grado, listos, enCpu, saliendo, enIO, enRec,
          terminados, avance, libres, tiene>>

Init ==
    /\ programa = [p \in Pids |-> <<>>] /\ creados = 0
    /\ nuevos = <<>> /\ dentro = {} /\ grado = Grado /\ listos = <<>>
    /\ enCpu = {} /\ saliendo = {}
    /\ enIO = [i \in Interfaces |-> <<>>]
    /\ enRec = [r \in Recursos |-> <<>>]
    /\ terminados = <<>>
    /\ avance = [p \in Pids |-> 0]
    /\ libres = Instancias
    /\ tiene = [p \in Pids |-> [r \in Recursos |-> 0]]

----------------------------------------------------------------------------
(* The schedulers.                                                         *)

Crear(s) ==
    /\ creados + 1 \in Pids
    /\ creados' = creados + 1
    /\ programa' = [programa EXCEPT ![creados + 1] = s]
    /\ nuevos' = Append(nuevos, creados + 1)
    /\ UNCHANGED <<dentro, grado, listos, enCpu, saliendo, enIO, enRec, terminados, avance,
                   libres, tiene>>

Admitir ==
    /\ nuevos # <<>> /\ Cardinality(dentro) < grado
    /\ nuevos' = Tail(nuevos)
    /\ listos' = Append(listos, Head(nuevos))
    /\ dentro' = dentro \cup {Head(nuevos)}
    /\ UNCHANGED <<programa, creados, grado, enCpu, saliendo, enIO, enRec, terminados,
                   avance, libres, tiene>>

\* Never below the processes that are in.
CambiarGrado ==
    /\ grado' \in Nat /\ Cardinality(dentro) <= grado'
    /\ UNCHANGED <<programa, creados, nuevos, dentro, listos, enCpu, saliendo, enIO, enRec,
                   terminados, avance, libres, tiene>>

Elegir ==
    /\ enCpu = {} /\ listos # <<>>
    /\ listos' = Tail(listos) /\ enCpu' = {Head(listos)}
    /\ UNCHANGED <<programa, creados, nuevos, dentro, grado, saliendo, enIO, enRec,
                   terminados, avance, libres, tiene>>

\* The interface i is done with the first process that waits for it.
Despertar(i) ==
    /\ enIO[i] # <<>>
    /\ enIO' = [enIO EXCEPT ![i] = Tail(@)]
    /\ listos' = Append(listos, Head(enIO[i]))
    /\ UNCHANGED <<programa, creados, nuevos, dentro, grado, enCpu, saliendo, enRec,
                   terminados, avance, libres, tiene>>

----------------------------------------------------------------------------
(* Instructions.                                                           *)

\* The one p executes next.
Toca(p) == programa[p][avance[p] + 1]

\* p has the processor, and an instruction to execute with it.
Ejecuta(p) ==
    /\ p \in enCpu /\ saliendo = {}
    /\ avance[p] < Len(programa[p])
    /\ avance' = [avance EXCEPT ![p] = @ + 1]
    /\ UNCHANGED <<programa, creados, nuevos, dentro, grado, terminados>>

Computar(p) ==
    /\ Ejecuta(p) /\ Toca(p).op = "COMPUTO"
    /\ UNCHANGED <<listos, enCpu, saliendo, enIO, enRec, libres, tiene>>

PedirIO(p) ==
    /\ Ejecuta(p) /\ Toca(p).op = "IO" /\ Toca(p).arg \in Interfaces
    /\ enIO' = [enIO EXCEPT ![Toca(p).arg] = Append(@, p)]
    /\ enCpu' = {}
    /\ UNCHANGED <<listos, saliendo, enRec, libres, tiene>>

Obtener(p, r) ==
    /\ Ejecuta(p) /\ Toca(p).op = "WAIT" /\ Toca(p).arg = r
    /\ libres[r] > 0
    /\ libres' = [libres EXCEPT ![r] = @ - 1]
    /\ tiene' = [tiene EXCEPT ![p][r] = @ + 1]
    /\ UNCHANGED <<listos, enCpu, saliendo, enIO, enRec>>

Esperar(p, r) ==
    /\ Ejecuta(p) /\ Toca(p).op = "WAIT" /\ Toca(p).arg = r
    /\ libres[r] = 0
    /\ enRec' = [enRec EXCEPT ![r] = Append(@, p)]
    /\ enCpu' = {}
    /\ UNCHANGED <<listos, saliendo, enIO, libres, tiene>>

\* The instance goes to the first process that waits for it.
Suelta(p, r) ==
    /\ tiene[p][r] > 0
    /\ IF enRec[r] = <<>>
         THEN /\ libres' = [libres EXCEPT ![r] = @ + 1]
              /\ tiene' = [tiene EXCEPT ![p][r] = @ - 1]
              /\ UNCHANGED <<enRec, listos>>
         ELSE /\ tiene' = [tiene EXCEPT ![p][r] = @ - 1, ![Head(enRec[r])][r] = @ + 1]
              /\ enRec' = [enRec EXCEPT ![r] = Tail(@)]
              /\ listos' = Append(listos, Head(enRec[r]))
              /\ UNCHANGED libres
    /\ UNCHANGED <<enCpu, enIO>>

Soltar(p, r) ==
    /\ Ejecuta(p) /\ Toca(p).op = "SIGNAL" /\ Toca(p).arg = r
    /\ Suelta(p, r)
    /\ UNCHANGED saliendo

\* What ends a process: its last instruction, one that fails, a request for what does
\* not exist.
Ultima(ins) ==
    \/ ins.op \in {"EXIT", "FALLA"}
    \/ ins.op = "IO" /\ ins.arg \notin Interfaces
    \/ ins.op \in {"WAIT", "SIGNAL"} /\ ins.arg \notin Recursos

Acabar(p) ==
    /\ Ejecuta(p) /\ Ultima(Toca(p))
    /\ saliendo' = {p}
    /\ UNCHANGED <<listos, enCpu, enIO, enRec, libres, tiene>>

Devolver(p, r) ==
    /\ p \in saliendo /\ Suelta(p, r)
    /\ UNCHANGED <<programa, creados, nuevos, dentro, grado, saliendo, terminados, avance>>

Terminar(p) ==
    /\ p \in saliendo /\ \A r \in Recursos : tiene[p][r] = 0
    /\ terminados' = Append(terminados, p)
    /\ dentro' = dentro \ {p}
    /\ enCpu' = {} /\ saliendo' = {}
    /\ UNCHANGED <<programa, creados, nuevos, grado, listos, enIO, enRec, avance, libres,
                   tiene>>

Proceso(p) ==
    \/ Computar(p) \/ PedirIO(p) \/ Acabar(p) \/ Terminar(p)
    \/ \E r \in Recursos : Obtener(p, r) \/ Esperar(p, r) \/ Soltar(p, r) \/ Devolver(p, r)

Next ==
    \/ \E s \in Programas : Crear(s)
    \/ Admitir \/ CambiarGrado \/ Elegir
    \/ \E i \in Interfaces : Despertar(i)
    \/ \E p \in Pids : Proceso(p)

Spec == Init /\ [][Next]_vars
=============================================================================
