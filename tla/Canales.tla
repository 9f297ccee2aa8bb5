------------------------------ MODULE Canales ------------------------------
(***************************************************************************)
(* The connections between the kernel, the CPU and the I/O interfaces.     *)
(* Every connection is one TCP stream: messages are never lost, copied or  *)
(* reordered within it, and nothing orders two different streams.  The     *)
(* modules Kernel and Cpu both extend this one, Sistema composes them.     *)
(***************************************************************************)
EXTENDS Integers, Sequences, FiniteSets

CONSTANTS
    MaxPid,      \* bound: INICIAR_PROCESO is accepted MaxPid times
    Recursos,    \* RECURSOS of kernel.config
    Interfaces,  \* the I/O interfaces that introduced themselves
    Nada,        \* a value that is neither a resource nor an interface
    Scripts      \* the pseudo-code files INICIAR_PROCESO may be given

ASSUME MaxPidAssumption == MaxPid \in Nat \ {0}

ASSUME NadaAssumption == Nada \notin Recursos \cup Interfaces

Pids == 1..MaxPid

Argumentos == Recursos \cup Interfaces \cup {Nada}

\* What an instruction is for the kernel.  COMPUTO stands for every one the
\* CPU resolves without the kernel (SET, SUM, SUB, JNZ, and MOV_IN, MOV_OUT,
\* RESIZE, COPY_STRING that succeed), FALLA for the ones that end in
\* OUT_OF_MEMORY or DENIED_ACCESS.  IO_DENEGADA is an IO_STDOUT_WRITE,
\* IO_STDIN_READ, IO_FS_WRITE or IO_FS_READ on an address that is not mapped.
\* A script is the sequence of instructions one process executes, its jumps
\* unrolled; a resource or interface the kernel does not know is Nada.
Operaciones == {"COMPUTO", "IO", "WAIT", "SIGNAL", "FALLA", "IO_DENEGADA", "EXIT"}

Instrucciones == [op : Operaciones, arg : Argumentos]

ASSUME ScriptsAssumption == Scripts \subseteq Seq(Instrucciones)

VARIABLES
    script,      \* script[p]: the instructions memoria keeps for process p
    chDispatch,  \* kernel -> cpu, dispatch port
    chInterrupt, \* kernel -> cpu, interrupt port
    chCpu,       \* cpu -> kernel, the same dispatch connection
    ioPedidos,   \* ioPedidos[i]: kernel -> interface i, the pid of each request
    ioFin        \* ioFin[i]: interface i -> kernel, END_OF_IO_*; the message
                 \* carries no pid, the one kept here is the request's and only
                 \* the properties look at it

canales == <<script, chDispatch, chInterrupt, chCpu, ioPedidos, ioFin>>

\* The answers to FIN_INSTRUCCION and the packets of the two ports.
Continua        == [tipo |-> "CONTINUA", pid |-> 0, pc |-> 0]
NoContinua      == [tipo |-> "NO_CONTINUA", pid |-> 0]
Pcb(p, c)       == [tipo |-> "PCB", pid |-> p, pc |-> c]
Interrupcion(p) == [tipo |-> "INTERRUPCION", pid |-> p]

MensajesDispatch  == [tipo : {"PCB"}, pid : Pids, pc : Nat] \cup {Continua}
MensajesInterrupt == [tipo : {"INTERRUPCION"}, pid : Pids] \cup {NoContinua}
Motivos           == {"IO", "WAIT", "SIGNAL", "EXIT", "ERROR", "FIN"}
MensajesCpu       == [motivo : Motivos, pid : Pids, pc : Nat, arg : Argumentos]

CanalesTypeOK ==
    /\ script \in [Pids -> Scripts \cup {<<>>}]
    /\ chDispatch \in Seq(MensajesDispatch)
    /\ chInterrupt \in Seq(MensajesInterrupt)
    /\ chCpu \in Seq(MensajesCpu)
    /\ ioPedidos \in [Interfaces -> Seq(Pids)]
    /\ ioFin \in [Interfaces -> Seq(Pids)]

CanalesInit ==
    /\ script = [p \in Pids |-> <<>>]
    /\ chDispatch = <<>>
    /\ chInterrupt = <<>>
    /\ chCpu = <<>>
    /\ ioPedidos = [i \in Interfaces |-> <<>>]
    /\ ioFin = [i \in Interfaces |-> <<>>]

\* Mutant of AtiendeInterfaz: a request is answered again.
AtiendeInterfazDosVeces(i) ==
    /\ ioPedidos[i] # <<>>
    /\ \/ ioPedidos' = [ioPedidos EXCEPT ![i] = Tail(@)]
       \/ ioPedidos' = ioPedidos /\ Len(ioFin[i]) < 2
    /\ ioFin' = [ioFin EXCEPT ![i] = Append(@, Head(ioPedidos[i]))]
    /\ UNCHANGED <<script, chDispatch, chInterrupt, chCpu>>

(***************************************************************************)
(* An interface serves the requests of its connection one at a time, in    *)
(* the order they came, and answers each one.                              *)
(***************************************************************************)
AtiendeInterfaz(i) ==
    /\ ioPedidos[i] # <<>>
    /\ ioPedidos' = [ioPedidos EXCEPT ![i] = Tail(@)]
    /\ ioFin' = [ioFin EXCEPT ![i] = Append(@, Head(ioPedidos[i]))]
    /\ UNCHANGED <<script, chDispatch, chInterrupt, chCpu>>
=============================================================================
