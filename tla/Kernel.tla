------------------------------- MODULE Kernel -------------------------------
(***************************************************************************)
(* The kernel process under FIFO: the long-term scheduler, the short-term  *)
(* scheduler, the processes blocked on interfaces and on resources, and    *)
(* the console.  Its threads are                                           *)
(*    consola   comenzar_consola_interactiva and the handlers it calls     *)
(*    nuevos    administrar_procesos_new                                   *)
(*    escucha   recibir_respuesta_cpu and the handlers it calls            *)
(* and, each iteration of which is one action, planificacion_de_procesos   *)
(* (Despacha) and one atender_interfaz per interface (FinIO).  A thread    *)
(* stops between two actions where it waits for a semaphore and where      *)
(* another thread can act on what it has just read, sent or written.       *)
(***************************************************************************)
EXTENDS Canales

CONSTANTS
    Instancias,     \* INSTANCIAS_RECURSOS of kernel.config
    Grado,          \* GRADO_MULTIPROGRAMACION of kernel.config
    Grados,         \* the arguments MULTIPROGRAMACION may be given
    Comandos,       \* the console commands in use
    MaxComandos,    \* bound: commands other than INICIAR_PROCESO
    MaxRetenidos    \* bound: length of lista_recursos_retenidos

ASSUME InstanciasAssumption == Instancias \in [Recursos -> Nat]
ASSUME GradoAssumption == Grado \in Nat /\ Grados \subseteq Nat
ASSUME BoundsAssumption == MaxComandos \in Nat /\ MaxRetenidos \in Nat

VARIABLES
    pc, pidDe, argDe,   \* where each thread is, the pid and the resource or
                        \* interface its local variables hold
    pendiente,          \* consola: an integer local of the handler
    semPlanificacion,   \* sem_planificacion
    semEjecutar,        \* sem_ejecutar
    semReady,           \* sem_procesos_en_ready
    semNew,             \* sem_hay_procesos_en_new
    semMulti,           \* sem_multiprogramacion
    semUsuario,         \* sem_caso_exit_usuario
    colaNew, colaReady, colaExec, colaExit,
    colaIO,             \* colaIO[i]: cola of interface i in colas_block_io
    colaRec,            \* colaRec[r]: cola of resource r
    instancias,         \* instancias_recurso
    retenidos,          \* lista_recursos_retenidos, see Anota
    estado,             \* lista_estados
    pcbPC,              \* program counter of each pcb
    contador,           \* contador_pid
    desaloja,           \* desaloja_por_instruccion
    desalojaUsuario,    \* desaloja_por_usuario
    esPrimer,           \* es_primer_proceso
    caido,              \* the kernel dereferenced a null or wild pointer
    usados,             \* commands accepted, for the bound
    saldoPlani,         \* history: INICIAR_ minus DETENER_PLANIFICACION
    ajusteGrado         \* history: slots MULTIPROGRAMACION added

hilosVars == <<pc, pidDe, argDe, pendiente>>
colasVars == <<colaNew, colaReady, colaExec, colaExit, colaIO, colaRec>>
recVars   == <<instancias, retenidos>>
planVars  == <<semPlanificacion, semEjecutar, semReady>>
admVars   == <<semNew, semMulti, esPrimer>>
usrVars   == <<semUsuario, desalojaUsuario, usados, saldoPlani, ajusteGrado>>
procVars  == <<estado, pcbPC, contador>>

kernelVars == <<hilosVars, colasVars, recVars, planVars, admVars, usrVars,
                procVars, desaloja, caido>>

Hilos == {"consola", "nuevos", "escucha"}

\* Where each thread waits for its next request.
Inicio(t) == CASE t = "consola" -> "lee"
               [] t = "nuevos"  -> "esperaNew"
               [] t = "escucha" -> "recibe"

Puntos == {"lee", "detiene", "resta", "colgada", "pideDesalojo",
           "esperaUsuario", "suma",
           "esperaNew", "esperaMulti",
           "recibe", "esperaPlani", "marcaBlock", "waitEvalua", "signalEvalua",
           "libera", "liberaEvalua", "replanifica", "elige"}

Tipos == {"NADA", "NEW", "READY", "EXEC", "BLOCK", "BLOCK - IO", "BLOCK - RECURSO", "EXIT"}

Estado(t, n) == [tipo |-> t, nombre |-> n]

Estados ==
    [tipo : Tipos \ {"BLOCK - IO", "BLOCK - RECURSO"}, nombre : {Nada}]
    \cup [tipo : {"BLOCK - IO"}, nombre : Interfaces]
    \cup [tipo : {"BLOCK - RECURSO"}, nombre : Recursos]

Existe(p) == p \in Pids /\ p < contador

----------------------------------------------------------------------------
(* Queues and the list of retained resources.                              *)

\* pcb_en_cola when the pcb is there.
Sin(q, p) ==
    LET k == CHOOSE j \in 1..Len(q) : q[j] = p
    IN  SubSeq(q, 1, k - 1) \o SubSeq(q, k + 1, Len(q))

Esta(q, p) == \E j \in 1..Len(q) : q[j] = p

Retencion == [n : 1..MaxRetenidos, pid : Pids, rec : Recursos]

\* Mutant of Anota: only a process that gets the instance is recorded.
AnotaSiObtiene(p, r) ==
    IF instancias[r] < 0
      THEN retenidos' = retenidos
      ELSE \E n \in 1..MaxRetenidos :
             /\ \A x \in retenidos : x.n < n
             /\ n = 1 \/ \E x \in retenidos : x.n = n - 1
             /\ retenidos' = retenidos \cup {[n |-> n, pid |-> p, rec |-> r]}

\* list_add: an element added later has a greater n.
Anota(p, r) ==
    \E n \in 1..MaxRetenidos :
        /\ \A x \in retenidos : x.n < n
        /\ n = 1 \/ \E x \in retenidos : x.n = n - 1
        /\ retenidos' = retenidos \cup {[n |-> n, pid |-> p, rec |-> r]}

\* list_find, list_remove_by_condition: the first element that matches.
EsPrimero(x, S) == x \in S /\ \A y \in S : x.n <= y.n

DeProceso(p)    == {x \in retenidos : x.pid = p}
DePar(p, r)     == {x \in retenidos : x.pid = p /\ x.rec = r}

\* quitar_de_lista_recursos_retenidos, when there is something to remove.
Quita(p, r) == \E x \in DePar(p, r) : EsPrimero(x, DePar(p, r)) /\ retenidos' = retenidos \ {x}

\* Mutants: the two comparisons off by one.
VaABloqueadoAntes(r) == instancias[r] <= 0
SeDesbloqueaTarde(r) == instancias[r] < 0

\* What wait_recurso and signal_recurso return.
VaABloqueado(r)   == instancias[r] < 0
SeDesbloquea(r)   == instancias[r] <= 0

\* Mutant of Iniciar: sem_procesos_en_ready is not posted.
IniciarSinAvisar(p) ==
    /\ colaReady' = Append(colaReady, p)
    /\ estado' = [estado EXCEPT ![p] = Estado("READY", Nada)]
    /\ semReady' = semReady

\* iniciar under FIFO: to the end of cola_ready, which sem_procesos_en_ready counts.
Iniciar(p) ==
    /\ colaReady' = Append(colaReady, p)
    /\ estado' = [estado EXCEPT ![p] = Estado("READY", Nada)]
    /\ semReady' = semReady + 1

\* The kernel dies: what it was doing is lost and it does nothing else.
Cae ==
    /\ caido' = TRUE
    /\ UNCHANGED <<hilosVars, colasVars, recVars, planVars, admVars, usrVars,
                   procVars, desaloja>>
    /\ UNCHANGED canales

\* Where a thread's locals hold a process, a resource, an interface.
ConRecurso  == {"waitEvalua", "signalEvalua", "liberaEvalua"}
ConInterfaz == {"esperaPlani", "marcaBlock"}
ConPid      == ConRecurso \cup ConInterfaz
                 \cup {"libera", "pideDesalojo", "esperaUsuario", "suma"}

LocalesOK ==
    \A t \in Hilos :
        /\ pc[t] \in ConPid => pidDe[t] \in Pids
        /\ pc[t] \in ConRecurso => argDe[t] \in Recursos
        /\ pc[t] \in ConInterfaz => argDe[t] \in Interfaces

HilosOK ==
    /\ pc \in [Hilos -> Puntos]
    /\ pidDe \in [Hilos -> Pids \cup {0}]
    /\ argDe \in [Hilos -> Argumentos]
    /\ pendiente \in Int
    /\ LocalesOK

SemaforosOK ==
    /\ semPlanificacion \in Nat /\ semEjecutar \in Nat /\ semReady \in Nat
    /\ semNew \in Nat /\ semMulti \in Nat /\ semUsuario \in Nat

ColasOK ==
    /\ colaNew \in Seq(Pids) /\ colaReady \in Seq(Pids)
    /\ colaExec \in Seq(Pids) /\ colaExit \in Seq(Pids)
    /\ colaIO \in [Interfaces -> Seq(Pids)]
    /\ colaRec \in [Recursos -> Seq(Pids)]

RecursosOK ==
    /\ instancias \in [Recursos -> Int]
    /\ retenidos \subseteq Retencion

ProcesosOK ==
    /\ estado \in [Pids -> Estados]
    /\ pcbPC \in [Pids -> Nat]
    /\ contador \in 1..(MaxPid + 1)

BanderasOK ==
    /\ desaloja \in BOOLEAN /\ desalojaUsuario \in BOOLEAN
    /\ esPrimer \in BOOLEAN /\ caido \in BOOLEAN
    /\ usados \in Nat /\ saldoPlani \in Int /\ ajusteGrado \in Int

KernelTypeOK ==
    HilosOK /\ SemaforosOK /\ ColasOK /\ RecursosOK /\ ProcesosOK /\ BanderasOK

KernelInit ==
    /\ pc = [t \in Hilos |-> Inicio(t)]
    /\ pidDe = [t \in Hilos |-> 0]
    /\ argDe = [t \in Hilos |-> Nada]
    /\ pendiente = 0
    /\ semPlanificacion = 0 /\ semEjecutar = 0 /\ semReady = 0
    /\ semNew = 0 /\ semMulti = Grado /\ semUsuario = 0
    /\ colaNew = <<>> /\ colaReady = <<>> /\ colaExec = <<>> /\ colaExit = <<>>
    /\ colaIO = [i \in Interfaces |-> <<>>]
    /\ colaRec = [r \in Recursos |-> <<>>]
    /\ instancias = Instancias
    /\ retenidos = {}
    /\ estado = [p \in Pids |-> Estado("NADA", Nada)]
    /\ pcbPC = [p \in Pids |-> 0]
    /\ contador = 1
    /\ desaloja = FALSE /\ desalojaUsuario = FALSE
    /\ esPrimer = TRUE /\ caido = FALSE
    /\ usados = 0 /\ saldoPlani = 0 /\ ajusteGrado = 0

\* Thread t goes on at l with the locals p and a.
Sigue(t, l, p, a) ==
    /\ pc' = [pc EXCEPT ![t] = l]
    /\ pidDe' = [pidDe EXCEPT ![t] = p]
    /\ argDe' = [argDe EXCEPT ![t] = a]
    /\ pendiente' = pendiente

Vuelve(t) == Sigue(t, Inicio(t), 0, Nada)

----------------------------------------------------------------------------
(* The long-term scheduler: administrar_procesos_new.                      *)

EsperaNew ==
    /\ pc["nuevos"] = "esperaNew"
    /\ semNew > 0
    /\ semNew' = semNew - 1
    /\ Sigue("nuevos", "esperaMulti", 0, Nada)
    /\ UNCHANGED <<colasVars, recVars, planVars, semMulti, esPrimer, usrVars,
                   procVars, desaloja, caido, canales>>

\* From NEW to READY once there is a slot; the first process ever admitted is
\* also scheduled from here.
Admite ==
    /\ pc["nuevos"] = "esperaMulti"
    /\ semMulti > 0
    /\ IF colaNew = <<>>
         THEN Cae
         ELSE /\ semMulti' = semMulti - 1
              /\ colaNew' = Tail(colaNew)
              /\ Iniciar(Head(colaNew))
              /\ IF esPrimer THEN Sigue("nuevos", "replanifica", 0, Nada) ELSE Vuelve("nuevos")
              /\ UNCHANGED <<colaExec, colaExit, colaIO, colaRec, recVars,
                             semPlanificacion, semEjecutar, semNew, esPrimer,
                             usrVars, pcbPC, contador, desaloja, caido, canales>>

----------------------------------------------------------------------------
(* The short-term scheduler: replanificar and planificacion_de_procesos.   *)

\* Mutant of Replanifica: sem_planificacion is not waited for.
ReplanificaSinEsperar(t) ==
    /\ pc[t] = "replanifica"
    /\ Sigue(t, "elige", 0, Nada)
    /\ UNCHANGED <<colasVars, recVars, planVars, admVars, usrVars, procVars, desaloja,
                   caido, canales>>

Replanifica(t) ==
    /\ pc[t] = "replanifica"
    /\ semPlanificacion > 0
    /\ semPlanificacion' = semPlanificacion - 1
    /\ Sigue(t, "elige", 0, Nada)
    /\ UNCHANGED <<colasVars, recVars, semEjecutar, semReady, admVars, usrVars,
                   procVars, desaloja, caido, canales>>

\* Mutant of SiguePrimero: es_primer_proceso is never cleared.
SiguePrimeroSiempre(t) == esPrimer

\* administrar_procesos_new clears es_primer_proceso after its only replanificar.
SiguePrimero(t) == IF t = "nuevos" THEN FALSE ELSE esPrimer

\* The head of cola_ready replaces whatever is in cola_exec, and the token
\* taken by Replanifica goes back.
Elige(t) ==
    /\ pc[t] = "elige"
    /\ semReady > 0
    /\ IF colaReady = <<>>
         THEN Cae
         ELSE /\ semReady' = semReady - 1
              /\ colaReady' = Tail(colaReady)
              /\ colaExec' = <<Head(colaReady)>>
              /\ estado' = [estado EXCEPT ![Head(colaReady)] = Estado("EXEC", Nada)]
              /\ semEjecutar' = semEjecutar + 1
              /\ semPlanificacion' = semPlanificacion + 1
              /\ esPrimer' = SiguePrimero(t)
              /\ Vuelve(t)
              /\ UNCHANGED <<colaNew, colaExit, colaIO, colaRec, recVars, semNew,
                             semMulti, usrVars, pcbPC, contador, desaloja, caido,
                             canales>>

\* One iteration of planificacion_de_procesos.
Despacha ==
    /\ semEjecutar > 0
    /\ IF colaExec = <<>>
         THEN Cae
         ELSE /\ semEjecutar' = semEjecutar - 1
              /\ desaloja' = FALSE
              /\ chDispatch' = Append(chDispatch, Pcb(Head(colaExec), pcbPC[Head(colaExec)]))
              /\ UNCHANGED <<hilosVars, colasVars, recVars, semPlanificacion, semReady,
                             admVars, usrVars, procVars, caido, script, chInterrupt,
                             chCpu, ioPedidos, ioFin>>

----------------------------------------------------------------------------
(* recibir_respuesta_cpu: FIN_INSTRUCCION.                                 *)

Llega(motivos) ==
    /\ pc["escucha"] = "recibe"
    /\ chCpu # <<>>
    /\ Head(chCpu).motivo \in motivos

FinDesaloja ==
    /\ Llega({"FIN"})
    /\ desaloja
    /\ chCpu' = Tail(chCpu)
    /\ chInterrupt' = Append(chInterrupt, NoContinua)
    /\ Sigue("escucha", "replanifica", 0, Nada)
    /\ UNCHANGED <<colasVars, recVars, planVars, admVars, usrVars, procVars,
                   desaloja, caido, script, chDispatch, ioPedidos, ioFin>>

FinDesalojaUsuario ==
    /\ Llega({"FIN"})
    /\ ~desaloja /\ desalojaUsuario
    /\ chCpu' = Tail(chCpu)
    /\ chInterrupt' = Append(chInterrupt, NoContinua)
    /\ semUsuario' = semUsuario + 1
    /\ desalojaUsuario' = FALSE
    /\ UNCHANGED <<hilosVars, colasVars, recVars, planVars, admVars, usados,
                   saldoPlani, ajusteGrado, procVars, desaloja, caido, script,
                   chDispatch, ioPedidos, ioFin>>

FinContinua ==
    /\ Llega({"FIN"})
    /\ ~desaloja /\ ~desalojaUsuario
    /\ chCpu' = Tail(chCpu)
    /\ chDispatch' = Append(chDispatch, Continua)
    /\ UNCHANGED <<hilosVars, colasVars, recVars, planVars, admVars, usrVars,
                   procVars, desaloja, caido, script, chInterrupt, ioPedidos, ioFin>>

----------------------------------------------------------------------------
(* recibir_respuesta_cpu and atender_solicitud_cpu: a packet.              *)

\* queue_peek finds nothing to load the context into.
PaqueteSinExec ==
    /\ Llega(Motivos \ {"FIN"})
    /\ colaExec = <<>>
    /\ Cae

\* Mutant of CargaPcb: the registers of the packet are not stored.
CargaPcbSinContexto(m) ==
    /\ colaExec # <<>>
    /\ colaExec' = <<m.pid>>
    /\ pcbPC' = pcbPC
    /\ chCpu' = Tail(chCpu)

\* cargar_pcb writes the packet over the pcb at the head of cola_exec, and
\* atender_solicitud_cpu leaves that pcb alone in the queue.
CargaPcb(m) ==
    /\ colaExec # <<>>
    /\ colaExec' = <<m.pid>>
    /\ pcbPC' = [pcbPC EXCEPT ![m.pid] = m.pc]
    /\ chCpu' = Tail(chCpu)

CumpleInterfaz(i) == i \in Interfaces

\* IO_*: bloquear_i puts the process in the interface's queue at once.
PideIO ==
    /\ Llega({"IO"})
    /\ LET m == Head(chCpu) IN
         /\ CumpleInterfaz(m.arg)
         /\ CargaPcb(m)
         /\ colaIO' = [colaIO EXCEPT ![m.arg] = Append(@, m.pid)]
         /\ estado' = [estado EXCEPT ![m.pid] = Estado("BLOCK", Nada)]
         /\ Sigue("escucha", "esperaPlani", m.pid, m.arg)
    /\ desaloja' = TRUE
    /\ UNCHANGED <<colaNew, colaReady, colaExit, colaRec, recVars, planVars, admVars,
                   usrVars, contador, caido, script, chDispatch, chInterrupt,
                   ioPedidos, ioFin>>

\* Mutant of EnviaIO: sem_planificacion is not posted back.
EnviaIOSinDevolver ==
    /\ pc["escucha"] = "esperaPlani"
    /\ semPlanificacion > 0
    /\ semPlanificacion' = semPlanificacion - 1
    /\ ioPedidos' = [ioPedidos EXCEPT ![argDe["escucha"]] = Append(@, pidDe["escucha"])]
    /\ Sigue("escucha", "marcaBlock", pidDe["escucha"], argDe["escucha"])
    /\ UNCHANGED <<colasVars, recVars, semEjecutar, semReady, admVars, usrVars, procVars,
                   desaloja, caido, script, chDispatch, chInterrupt, chCpu, ioFin>>

\* With the scheduler running (the token is taken and returned) the request
\* goes to the interface.
EnviaIO ==
    /\ pc["escucha"] = "esperaPlani"
    /\ semPlanificacion > 0
    /\ ioPedidos' = [ioPedidos EXCEPT ![argDe["escucha"]] = Append(@, pidDe["escucha"])]
    /\ Sigue("escucha", "marcaBlock", pidDe["escucha"], argDe["escucha"])
    /\ UNCHANGED <<colasVars, recVars, planVars, admVars, usrVars, procVars, desaloja,
                   caido, script, chDispatch, chInterrupt, chCpu, ioFin>>

\* Only then its state names the interface, and the interruption is sent.
MarcaBlock ==
    /\ pc["escucha"] = "marcaBlock"
    /\ estado' = [estado EXCEPT ![pidDe["escucha"]] = Estado("BLOCK - IO", argDe["escucha"])]
    /\ chInterrupt' = Append(chInterrupt, Interrupcion(pidDe["escucha"]))
    /\ Vuelve("escucha")
    /\ UNCHANGED <<colasVars, recVars, planVars, admVars, usrVars, pcbPC, contador,
                   desaloja, caido, script, chDispatch, chCpu, ioPedidos, ioFin>>

\* wait_recurso up to the unlock.
PideWait ==
    /\ Llega({"WAIT"})
    /\ LET m == Head(chCpu) IN
         /\ m.arg \in Recursos
         /\ CargaPcb(m)
         /\ instancias' = [instancias EXCEPT ![m.arg] = @ - 1]
         /\ Sigue("escucha", "waitEvalua", m.pid, m.arg)
    /\ UNCHANGED <<colaNew, colaReady, colaExit, colaIO, colaRec, retenidos, planVars,
                   admVars, usrVars, estado, contador, desaloja, caido, script,
                   chDispatch, chInterrupt, ioPedidos, ioFin>>

\* The rest of wait: instancias_recurso is read again, without the mutex.  A
\* process that blocks is recorded as a holder too.
EvaluaWait ==
    /\ pc["escucha"] = "waitEvalua"
    /\ LET p == pidDe["escucha"]
           r == argDe["escucha"]
       IN  /\ Anota(p, r)
           /\ IF VaABloqueado(r)
                THEN /\ desaloja' = TRUE
                     /\ colaRec' = [colaRec EXCEPT ![r] = Append(@, p)]
                     /\ chInterrupt' = Append(chInterrupt, Interrupcion(p))
                     /\ estado' = [estado EXCEPT ![p] = Estado("BLOCK - RECURSO", r)]
                ELSE UNCHANGED <<desaloja, colaRec, chInterrupt, estado>>
    /\ Vuelve("escucha")
    /\ UNCHANGED <<colaNew, colaReady, colaExec, colaExit, colaIO, instancias, planVars,
                   admVars, usrVars, pcbPC, contador, caido, script, chDispatch,
                   chCpu, ioPedidos, ioFin>>

\* signal_recurso up to the unlock.
PideSignal ==
    /\ Llega({"SIGNAL"})
    /\ LET m == Head(chCpu) IN
         /\ m.arg \in Recursos
         /\ CargaPcb(m)
         /\ instancias' = [instancias EXCEPT ![m.arg] = @ + 1]
         /\ Sigue("escucha", "signalEvalua", m.pid, m.arg)
    /\ UNCHANGED <<colaNew, colaReady, colaExit, colaIO, colaRec, retenidos, planVars,
                   admVars, usrVars, estado, contador, desaloja, caido, script,
                   chDispatch, chInterrupt, ioPedidos, ioFin>>

\* The rest of signal on behalf of p: it wakes up the first process waiting
\* for r, and p no longer holds that instance.
EvaluaSignal(p, r) ==
    /\ IF SeDesbloquea(r)
         THEN /\ Iniciar(Head(colaRec[r]))
              /\ colaRec' = [colaRec EXCEPT ![r] = Tail(@)]
         ELSE UNCHANGED <<colaReady, estado, semReady, colaRec>>
    /\ Quita(p, r)
    /\ UNCHANGED <<colaNew, colaExec, colaExit, colaIO, instancias, semPlanificacion,
                   semEjecutar, admVars, usrVars, pcbPC, contador, desaloja, caido,
                   canales>>

\* Both the pop of an empty queue and the removal of what is not in the list
\* give a null pointer that is dereferenced.
SignalNula(p, r) == DePar(p, r) = {} \/ (SeDesbloquea(r) /\ colaRec[r] = <<>>)

Signal ==
    /\ pc["escucha"] = "signalEvalua"
    /\ IF SignalNula(pidDe["escucha"], argDe["escucha"])
         THEN Cae
         ELSE EvaluaSignal(pidDe["escucha"], argDe["escucha"]) /\ Vuelve("escucha")

\* EXIT, OUT_OF_MEMORY and DENIED_ACCESS go to exit_prima.
PideExit ==
    /\ Llega({"EXIT", "ERROR"})
    /\ CargaPcb(Head(chCpu))
    /\ desaloja' = TRUE
    /\ Sigue("escucha", "libera", Head(chCpu).pid, Nada)
    /\ UNCHANGED <<colaNew, colaReady, colaExit, colaIO, colaRec, recVars, planVars,
                   admVars, usrVars, estado, contador, caido, script, chDispatch,
                   chInterrupt, ioPedidos, ioFin>>

Desconocido(m) ==
    \/ m.motivo = "IO" /\ ~CumpleInterfaz(m.arg)
    \/ m.motivo \in {"WAIT", "SIGNAL"} /\ m.arg \notin Recursos

\* INVALID_INTERFACE and INVALID_RESOURCE go to exit_prima as well, but the
\* string motivo is freed more than once (1218, 1243, 1249, 1500, and 367 when
\* FIN_INSTRUCCION comes): the allocator aborts, or the kernel goes on.
PideDesconocido ==
    /\ Llega({"IO", "WAIT", "SIGNAL"})
    /\ Desconocido(Head(chCpu))
    /\ \/ Cae
       \/ /\ CargaPcb(Head(chCpu))
          /\ desaloja' = TRUE
          /\ Sigue("escucha", "libera", Head(chCpu).pid, Nada)
          /\ UNCHANGED <<colaNew, colaReady, colaExit, colaIO, colaRec, recVars,
                         planVars, admVars, usrVars, estado, contador, caido, script,
                         chDispatch, chInterrupt, ioPedidos, ioFin>>

----------------------------------------------------------------------------
(* exit_prima, from escucha or from the console.                           *)

\* liberar_recursos: the signal of one retained instance, up to the unlock.
Libera(t) ==
    /\ pc[t] = "libera"
    /\ \E x \in DeProceso(pidDe[t]) :
         /\ EsPrimero(x, DeProceso(pidDe[t]))
         /\ instancias' = [instancias EXCEPT ![x.rec] = @ + 1]
         /\ Sigue(t, "liberaEvalua", pidDe[t], x.rec)
    /\ UNCHANGED <<colasVars, retenidos, planVars, admVars, usrVars, procVars, desaloja,
                   caido, canales>>

\* ... and the rest of it.
LiberaEvalua(t) ==
    /\ pc[t] = "liberaEvalua"
    /\ IF SignalNula(pidDe[t], argDe[t])
         THEN Cae
         ELSE EvaluaSignal(pidDe[t], argDe[t]) /\ Sigue(t, "libera", pidDe[t], Nada)

\* Mutants of Sale: it leaves with what it holds, without a place in cola_exit,
\* or without returning its slot.
SaleSinLiberar(p) ==
    /\ colaExit' = Append(colaExit, p)
    /\ semMulti' = semMulti + 1
    /\ estado' = [estado EXCEPT ![p] = Estado("EXIT", Nada)]
    /\ UNCHANGED <<colaNew, colaReady, colaExec, colaIO, colaRec, recVars, planVars,
                   semNew, esPrimer, usrVars, pcbPC, contador, desaloja, caido,
                   script, chDispatch, chCpu, ioPedidos, ioFin>>

SaleSinCola(p) ==
    /\ DeProceso(p) = {}
    /\ semMulti' = semMulti + 1
    /\ estado' = [estado EXCEPT ![p] = Estado("EXIT", Nada)]
    /\ UNCHANGED <<colasVars, recVars, planVars, semNew, esPrimer, usrVars, pcbPC,
                   contador, desaloja, caido, script, chDispatch, chCpu, ioPedidos,
                   ioFin>>

SaleSinCupo(p) ==
    /\ DeProceso(p) = {}
    /\ colaExit' = Append(colaExit, p)
    /\ estado' = [estado EXCEPT ![p] = Estado("EXIT", Nada)]
    /\ UNCHANGED <<colaNew, colaReady, colaExec, colaIO, colaRec, recVars, planVars,
                   admVars, usrVars, pcbPC, contador, desaloja, caido, script,
                   chDispatch, chCpu, ioPedidos, ioFin>>

\* Nothing left to release: cola_exit, one slot, EXIT.
Sale(p) ==
    /\ DeProceso(p) = {}
    /\ colaExit' = Append(colaExit, p)
    /\ semMulti' = semMulti + 1
    /\ estado' = [estado EXCEPT ![p] = Estado("EXIT", Nada)]
    /\ UNCHANGED <<colaNew, colaReady, colaExec, colaIO, colaRec, recVars, planVars,
                   semNew, esPrimer, usrVars, pcbPC, contador, desaloja, caido,
                   script, chDispatch, chCpu, ioPedidos, ioFin>>

SaleEscucha ==
    /\ pc["escucha"] = "libera"
    /\ Sale(pidDe["escucha"])
    /\ chInterrupt' = Append(chInterrupt, Interrupcion(pidDe["escucha"]))
    /\ Vuelve("escucha")

\* The string compared with EXEC was freed by cambiar_estado: the outcome of
\* the comparison is whatever that memory holds.
SaleConsola ==
    /\ pc["consola"] = "libera"
    /\ Sale(pidDe["consola"])
    /\ chInterrupt' = chInterrupt
    /\ \/ Vuelve("consola")
       \/ Sigue("consola", "replanifica", 0, Nada)

----------------------------------------------------------------------------
(* atender_interfaz: END_OF_IO_* releases the head of the interface's      *)
(* queue, whoever it is: the message names no process.                     *)

FinIO(i) ==
    /\ ioFin[i] # <<>>
    /\ IF colaIO[i] = <<>>
         THEN Cae
         ELSE /\ Iniciar(Head(colaIO[i]))
              /\ colaIO' = [colaIO EXCEPT ![i] = Tail(@)]
              /\ ioFin' = [ioFin EXCEPT ![i] = Tail(@)]
              /\ UNCHANGED <<hilosVars, colaNew, colaExec, colaExit, colaRec, recVars,
                             semPlanificacion, semEjecutar, admVars, usrVars, pcbPC,
                             contador, desaloja, caido, script, chDispatch, chInterrupt,
                             chCpu, ioPedidos>>

----------------------------------------------------------------------------
(* The console: recibir_info.                                              *)

Lee(c) == pc["consola"] = "lee" /\ c \in Comandos

Acepta(c) ==
    /\ Lee(c)
    /\ usados < MaxComandos
    /\ usados' = usados + 1

IniciarProceso(s) ==
    /\ Lee("INICIAR_PROCESO")
    /\ contador <= MaxPid
    /\ colaNew' = Append(colaNew, contador)
    /\ estado' = [estado EXCEPT ![contador] = Estado("NEW", Nada)]
    /\ script' = [script EXCEPT ![contador] = s]
    /\ contador' = contador + 1
    /\ semNew' = semNew + 1
    /\ UNCHANGED <<hilosVars, colaReady, colaExec, colaExit, colaIO, colaRec, recVars,
                   planVars, semMulti, esPrimer, usrVars, pcbPC, desaloja, caido,
                   chDispatch, chInterrupt, chCpu, ioPedidos, ioFin>>

IniciarPlanificacion ==
    /\ Acepta("INICIAR_PLANIFICACION")
    /\ semPlanificacion' = semPlanificacion + 1
    /\ saldoPlani' = saldoPlani + 1
    /\ UNCHANGED <<hilosVars, colasVars, recVars, semEjecutar, semReady, admVars,
                   semUsuario, desalojaUsuario, ajusteGrado, procVars, desaloja, caido,
                   canales>>

\* DETENER_PLANIFICACION takes the token as soon as no one is choosing.
DetenerPlanificacion ==
    /\ Acepta("DETENER_PLANIFICACION")
    /\ Sigue("consola", "detiene", 0, Nada)
    /\ UNCHANGED <<colasVars, recVars, planVars, admVars, semUsuario, desalojaUsuario,
                   saldoPlani, ajusteGrado, procVars, desaloja, caido, canales>>

Detiene ==
    /\ pc["consola"] = "detiene"
    /\ semPlanificacion > 0
    /\ semPlanificacion' = semPlanificacion - 1
    /\ saldoPlani' = saldoPlani - 1
    /\ Vuelve("consola")
    /\ UNCHANGED <<colasVars, recVars, semEjecutar, semReady, admVars, semUsuario,
                   desalojaUsuario, usados, ajusteGrado, procVars, desaloja, caido,
                   canales>>

\* MULTIPROGRAMACION compares with the degree of kernel.config every time:
\* grado_multiprogramacion is not assigned here.
SubeGrado(n) ==
    /\ Acepta("MULTIPROGRAMACION")
    /\ n >= Grado
    /\ semMulti' = semMulti + (n - Grado)
    /\ ajusteGrado' = ajusteGrado + (n - Grado)
    /\ UNCHANGED <<hilosVars, colasVars, recVars, planVars, semNew, esPrimer, semUsuario,
                   desalojaUsuario, saldoPlani, procVars, desaloja, caido, canales>>

BajaGrado(n) ==
    /\ Acepta("MULTIPROGRAMACION")
    /\ n < Grado
    /\ pc' = [pc EXCEPT !["consola"] = "resta"]
    /\ pendiente' = Grado - n
    /\ UNCHANGED <<pidDe, argDe, colasVars, recVars, planVars, admVars, semUsuario,
                   desalojaUsuario, saldoPlani, ajusteGrado, procVars, desaloja, caido,
                   canales>>

\* Mutant of RestaGrado: the slot is withdrawn without waiting for it.
RestaGradoSinEsperar ==
    /\ pc["consola"] = "resta"
    /\ semMulti' = semMulti - 1
    /\ ajusteGrado' = ajusteGrado - 1
    /\ pendiente' = pendiente - 1
    /\ pc' = [pc EXCEPT !["consola"] = IF pendiente = 1 THEN "lee" ELSE "resta"]
    /\ UNCHANGED <<pidDe, argDe, colasVars, recVars, planVars, semNew, esPrimer,
                   semUsuario, desalojaUsuario, usados, saldoPlani, procVars, desaloja,
                   caido, canales>>

\* The console waits for each slot it withdraws.
RestaGrado ==
    /\ pc["consola"] = "resta"
    /\ semMulti > 0
    /\ semMulti' = semMulti - 1
    /\ ajusteGrado' = ajusteGrado - 1
    /\ pendiente' = pendiente - 1
    /\ pc' = [pc EXCEPT !["consola"] = IF pendiente = 1 THEN "lee" ELSE "resta"]
    /\ UNCHANGED <<pidDe, argDe, colasVars, recVars, planVars, semNew, esPrimer,
                   semUsuario, desalojaUsuario, usados, saldoPlani, procVars, desaloja,
                   caido, canales>>

\* PROCESO_ESTADO only reads.
ProcesoEstado == Lee("PROCESO_ESTADO") /\ UNCHANGED <<kernelVars, canales>>

----------------------------------------------------------------------------
(* FINALIZAR_PROCESO: encontrar_pcb looks the state up and takes the pcb   *)
(* out of the queue that state names.                                      *)

Finaliza(p, tipos) ==
    /\ Acepta("FINALIZAR_PROCESO")
    /\ Existe(p)
    /\ estado[p].tipo \in tipos

\* The pcb is in q: the rest of the handler is exit_prima.
FinalizaNew(p) ==
    /\ Finaliza(p, {"NEW"}) /\ Esta(colaNew, p)
    /\ colaNew' = Sin(colaNew, p)
    /\ Sigue("consola", "libera", p, Nada)
    /\ UNCHANGED <<colaReady, colaExec, colaExit, colaIO, colaRec, recVars, planVars,
                   admVars, semUsuario, desalojaUsuario, saldoPlani, ajusteGrado,
                   procVars, desaloja, caido, canales>>

\* A slot is posted here, and again by exit_prima.
FinalizaReady(p) ==
    /\ Finaliza(p, {"READY"}) /\ Esta(colaReady, p)
    /\ colaReady' = Sin(colaReady, p)
    /\ semMulti' = semMulti + 1
    /\ Sigue("consola", "libera", p, Nada)
    /\ UNCHANGED <<colaNew, colaExec, colaExit, colaIO, colaRec, recVars, planVars,
                   semNew, esPrimer, semUsuario, desalojaUsuario, saldoPlani,
                   ajusteGrado, procVars, desaloja, caido, canales>>

FinalizaExec(p) ==
    /\ Finaliza(p, {"EXEC"}) /\ Esta(colaExec, p)
    /\ colaExec' = Sin(colaExec, p)
    /\ semMulti' = semMulti + 1
    /\ Sigue("consola", "pideDesalojo", p, Nada)
    /\ UNCHANGED <<colaNew, colaReady, colaExit, colaIO, colaRec, recVars, planVars,
                   semNew, esPrimer, semUsuario, desalojaUsuario, saldoPlani,
                   ajusteGrado, procVars, desaloja, caido, canales>>

\* It is in the CPU: the console waits until escucha answers FIN_INSTRUCCION
\* with NO_CONTINUA_EJECUTANDO, ...
PideDesalojo ==
    /\ pc["consola"] = "pideDesalojo"
    /\ desalojaUsuario' = TRUE
    /\ Sigue("consola", "esperaUsuario", pidDe["consola"], Nada)
    /\ UNCHANGED <<colasVars, recVars, planVars, admVars, semUsuario, usados, saldoPlani,
                   ajusteGrado, procVars, desaloja, caido, canales>>

\* ... and sends the interruption itself.
EsperaUsuario ==
    /\ pc["consola"] = "esperaUsuario"
    /\ semUsuario > 0
    /\ semUsuario' = semUsuario - 1
    /\ chInterrupt' = Append(chInterrupt, Interrupcion(pidDe["consola"]))
    /\ Sigue("consola", "libera", pidDe["consola"], Nada)
    /\ UNCHANGED <<colasVars, recVars, planVars, admVars, desalojaUsuario, usados,
                   saldoPlani, ajusteGrado, procVars, desaloja, caido, script, chDispatch,
                   chCpu, ioPedidos, ioFin>>

\* sem_hay_proceso of the interface is never posted: the console stays here.
FinalizaIO(p) ==
    /\ Finaliza(p, {"BLOCK - IO"})
    /\ Sigue("consola", "colgada", p, estado[p].nombre)
    /\ UNCHANGED <<colasVars, recVars, planVars, admVars, semUsuario, desalojaUsuario,
                   saldoPlani, ajusteGrado, procVars, desaloja, caido, canales>>

\* instancias_recurso++ is outside the mutex: load, ...
FinalizaRecurso(p) ==
    /\ Finaliza(p, {"BLOCK - RECURSO"})
    /\ LET r == estado[p].nombre IN
         /\ Esta(colaRec[r], p)
         /\ colaRec' = [colaRec EXCEPT ![r] = Sin(@, p)]
         /\ pc' = [pc EXCEPT !["consola"] = "suma"]
         /\ pidDe' = [pidDe EXCEPT !["consola"] = p]
         /\ argDe' = [argDe EXCEPT !["consola"] = r]
         /\ pendiente' = instancias[r]
    /\ UNCHANGED <<colaNew, colaReady, colaExec, colaExit, colaIO, recVars, planVars,
                   admVars, semUsuario, desalojaUsuario, saldoPlani, ajusteGrado,
                   procVars, desaloja, caido, canales>>

\* ... and store.
SumaInstancia ==
    /\ pc["consola"] = "suma"
    /\ LET p == pidDe["consola"]
           r == argDe["consola"]
       IN  IF DePar(p, r) = {}
             THEN Cae
             ELSE /\ instancias' = [instancias EXCEPT ![r] = pendiente + 1]
                  /\ Quita(p, r)
                  /\ Sigue("consola", "libera", p, Nada)
                  /\ UNCHANGED <<colasVars, planVars, admVars, usrVars, procVars,
                                 desaloja, caido, canales>>

\* EXIT and the bare BLOCK name no queue (encontrar_cola_recurso gives NULL),
\* and a pcb that is not where its state says leaves pcb_buscado unset.
NoEncontrable(p) ==
    \/ estado[p].tipo \in {"EXIT", "BLOCK"}
    \/ estado[p].tipo = "NEW" /\ ~Esta(colaNew, p)
    \/ estado[p].tipo = "READY" /\ ~Esta(colaReady, p)
    \/ estado[p].tipo = "EXEC" /\ ~Esta(colaExec, p)
    \/ estado[p].tipo = "BLOCK - RECURSO" /\ ~Esta(colaRec[estado[p].nombre], p)

FinalizaPerdido(p) ==
    /\ Lee("FINALIZAR_PROCESO") /\ usados < MaxComandos
    /\ Existe(p)
    /\ NoEncontrable(p)
    /\ Cae

----------------------------------------------------------------------------
Nuevos == EsperaNew \/ Admite

Escucha ==
    \/ FinDesaloja \/ FinDesalojaUsuario \/ FinContinua
    \/ PaqueteSinExec \/ PideDesconocido
    \/ PideIO \/ EnviaIO \/ MarcaBlock
    \/ PideWait \/ EvaluaWait
    \/ PideSignal \/ Signal
    \/ PideExit \/ SaleEscucha

Consola ==
    \/ \E s \in Scripts : IniciarProceso(s)
    \/ IniciarPlanificacion \/ DetenerPlanificacion \/ Detiene
    \/ \E n \in Grados : SubeGrado(n) \/ BajaGrado(n)
    \/ RestaGrado
    \/ ProcesoEstado
    \/ \E p \in Pids :
          \/ FinalizaNew(p) \/ FinalizaReady(p) \/ FinalizaExec(p)
          \/ FinalizaIO(p) \/ FinalizaRecurso(p) \/ FinalizaPerdido(p)
    \/ PideDesalojo \/ EsperaUsuario \/ SumaInstancia \/ SaleConsola

Hilo(t) == Replanifica(t) \/ Elige(t) \/ Libera(t) \/ LiberaEvalua(t)

KernelNext ==
    \/ Nuevos
    \/ Escucha
    \/ Consola
    \/ Despacha
    \/ \E t \in Hilos : Hilo(t)
    \/ \E i \in Interfaces : FinIO(i)
=============================================================================
