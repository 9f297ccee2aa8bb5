--------------------------- MODULE QuantumProofs ---------------------------
(***************************************************************************)
(* The safety of the quantum protocol until the end of a quantum crosses   *)
(* an instruction or the hand-over of the CPU (SinCruces), for any number  *)
(* of processes, both algorithms and any scripts.  The invariant says      *)
(* whose turn it is: the dispatch, the pcb on its way, the process that    *)
(* executes, escucha choosing another one, or the timer evicting it, and   *)
(* in each turn what the CPU, its interruption and the three connections   *)
(* hold.  Tiempo and Acuerdo say which points of the threads and which     *)
(* values of their flags and semaphores go together.  On top of it,        *)
(* Lugares counts the queues a process is in.                              *)
(***************************************************************************)
EXTENDS Quantum, FunctionTheorems, SequenceTheorems, FiniteSetTheorems, TLAPS

(* What the proofs look at: where each thread is, the semaphores of the    *)
(* dispatch, the CPU and the interruption it keeps.                        *)

Esc == pc.escucha
Tem == pc.q

SEj == sem["sem_ejecutar"]
SDq == sem["sem_desalojo_quantum"]
SVq == sem["sem_verificar_desalojo_quantum"]
SRq == sem["sem_replanificacion_quantum"]

Fase == cpu.fase
Pid == cpu.pid

IntM == interrupcion.motivo
IntP == interrupcion.pid

Para == Paquete("NO_CONTINUA", 0)
Fin(p) == Paquete("FIN", p)
Qu(p) == Paquete("QUANTUM", p)

Motivos == {"NADA", "FIN", "CONTINUA", "NO_CONTINUA", "PCB", "QUANTUM",
            "COMPUTO", "IO", "WAIT", "SIGNAL", "EXIT"}
Salidas == {"IO", "WAIT", "EXIT"}
Antes == {"avisa", "pausa", "atiende"}
Despues == {"cede", "verifica", "pausa2", "bloquea", "esperaPlani"}
Rep == {"replanifica", "mira", "elige", "eligeM"}
RepQ == Rep \cup {"contexto"}
EnFin == {"avisa", "desalojo", "cierra"} \cup RepQ

Tipos ==
    /\ sem \in [Semaforos -> 0..MaxCuenta] /\ pc \in Puntos
    /\ fin \in BOOLEAN /\ esperar \in BOOLEAN /\ desaloja \in BOOLEAN /\ replanifico \in BOOLEAN
    /\ deQ \in Pids \cup {0} /\ pedido \in [motivo : Motivos, pid : Pids \cup {0}]
    /\ ready \in Seq(Pids) /\ readyM \in Seq(Pids) /\ colaRec \in Seq(Pids)
    /\ \E p \in Pids : exec = <<p>>
    /\ bloqueados \subseteq Pids /\ terminados \subseteq Pids /\ duenio \in Pids \cup {0}
    /\ cpu \in [fase : {"libre", "ejecuta", "responde", "interrumpe"}, pid : Pids \cup {0}]
    /\ Fase = "libre" <=> Pid = 0
    /\ interrupcion \in [motivo : Motivos, pid : Pids \cup {0}]

\* The timer, the stopwatch and the dispatch they belong to.
Tiempo ==
    /\ fin <=> Tem \in EnFin
    /\ replanifico => desaloja /\ Tem \notin EnFin

\* The instruction that leaves the CPU and the timer.
Acuerdo ==
    /\ SDq \in {0, 1} /\ SVq \in {0, 1}
    /\ SDq = 1 => Tem \in {"avisa", "desalojo"}
    /\ Esc = "verifica" =>
         \/ SVq = 1 /\ SDq = 0 /\ Tem \notin {"avisa", "desalojo"}
         \/ SVq = 0 /\ SDq = 1 /\ Tem \in {"avisa", "desalojo"}
    /\ Esc # "verifica" => SVq = 0 /\ (SDq = 1 => ~ desaloja)
    /\ desaloja /\ Esc \notin {"cede", "verifica"} => Tem \notin {"avisa", "desalojo"}
    /\ Esc = "cede" => Tem # "cierra"
    /\ Esc \in Antes => ~ desaloja
    /\ Esc \in Despues \cup Rep => desaloja

\* The CPU with nothing to execute.
CpuLibre ==
    Fase = "libre" /\ chCpu = <<>> /\ chInterrupt = <<>> /\ ~ Llego

IntDe(m, p) == Llego /\ IntM = m /\ IntP = p

\* The CPU was told to stop, and its process leaves it.
CpuSale ==
    /\ chCpu = <<>>
    /\ \E m \in Salidas :
         \/ /\ Fase = "responde"
            /\ \/ chInterrupt = <<Paquete(m, Pid), Para>>
               \/ chInterrupt = <<Qu(Pid), Paquete(m, Pid), Para>>
               \/ chInterrupt = <<Para>> /\ IntDe(m, Pid)
         \/ Fase = "interrumpe" /\ chInterrupt = <<>> /\ IntDe(m, Pid)

\* The turn of the dispatch: sem_ejecutar was posted.
PorDespachar ==
    /\ SEj = 1 /\ Esc = "recibe" /\ chDispatch = <<>> /\ (CpuSale \/ CpuLibre)
    /\ ~ desaloja => Tem \in {"cierra", "fin"}

\* The timer of the dispatch has evicted its process before the CPU took it over.
QuantumAntes ==
    /\ chCpu = <<>>
    /\ \/ /\ Fase = "libre"
          /\ \/ chInterrupt = <<Qu(deQ)>> /\ ~ Llego
             \/ chInterrupt = <<>> /\ IntDe("QUANTUM", deQ)
       \/ \E m \in Salidas :
            \/ /\ Fase = "responde"
               /\ \/ chInterrupt = <<Paquete(m, Pid), Para, Qu(deQ)>>
                  \/ chInterrupt = <<Qu(Pid), Paquete(m, Pid), Para, Qu(deQ)>>
                  \/ chInterrupt = <<Para, Qu(deQ)>> /\ IntDe(m, Pid)
            \/ Fase = "interrumpe" /\ chInterrupt = <<Qu(deQ)>> /\ IntDe(m, Pid)

\* The pcb is on its way to the CPU.
EnCamino ==
    /\ SEj = 0 /\ Esc = "recibe" /\ chDispatch = <<Paquete("PCB", deQ)>> /\ exec = <<deQ>>
    /\ ~ desaloja /\ SDq = 0
    /\ \/ Tem \in {"duerme", "decide", "enciende", "avisa"} /\ (CpuSale \/ CpuLibre)
       \/ Tem = "desalojo" /\ QuantumAntes

\* The interruptions of a process that executes: that of its quantum, and that of
\* the instruction it leaves the CPU with.
SinPedir ==
    /\ \/ chInterrupt = <<>> /\ (Llego => IntM = "QUANTUM" /\ IntP = deQ)
       \/ chInterrupt = <<Qu(deQ)>> /\ ~ Llego
    /\ Tem \in {"duerme", "decide", "enciende", "avisa"} => chInterrupt = <<>> /\ ~ Llego
    /\ Tem = "desalojo" => chInterrupt # <<>> \/ Llego

Pedida ==
    \E m \in Salidas :
      \/ chInterrupt = <<Paquete(m, deQ)>>
      \/ chInterrupt = <<Qu(deQ), Paquete(m, deQ)>>
      \/ chInterrupt = <<>> /\ IntDe(m, deQ)

\* The process of the dispatch executes.
Ocupa ==
    /\ SEj = 0 /\ exec = <<deQ>> /\ Pid = deQ
    /\ Esc \in {"recibe"} \cup Antes \cup Despues
    /\ ~ desaloja => Tem \in {"duerme", "decide", "enciende", "avisa", "desalojo"} /\ SDq = 0
    /\ Esc # "recibe" => pedido.pid = deQ
    /\ \/ /\ Fase = "ejecuta" /\ chCpu = <<>> /\ chDispatch = <<>>
          /\ Esc = "recibe" /\ ~ desaloja
       \/ Fase = "responde" /\ chCpu = <<Fin(deQ)>> /\ chDispatch = <<>>
       \/ /\ Fase = "responde" /\ chDispatch = <<>> /\ Esc = "recibe" /\ ~ desaloja
          /\ \E m \in Instrucciones : chCpu = <<Paquete(m, deQ), Fin(deQ)>>
       \/ /\ Fase = "responde" /\ chCpu = <<>> /\ chDispatch = <<Paquete("CONTINUA", 0)>>
          /\ Esc = "recibe" /\ ~ desaloja
    /\ IF desaloja /\ Esc = "recibe" THEN Pedida ELSE SinPedir

\* escucha chooses another process.
Escoge ==
    /\ SEj = 0 /\ Esc \in Rep /\ chDispatch = <<>> /\ (CpuSale \/ CpuLibre)

\* The CPU was told to stop at the end of a quantum: without the interruption of
\* the timer, with it, and with the context on its way back.
Detenida ==
    /\ chCpu = <<>> /\ Pid = deQ /\ ~ Llego
    /\ \/ Fase = "responde" /\ chInterrupt = <<Para>>
       \/ Fase = "interrumpe" /\ chInterrupt = <<>>

Evicta ==
    /\ chCpu = <<>> /\ Pid = deQ
    /\ \/ Fase = "responde" /\ chInterrupt = <<Para>> /\ IntDe("QUANTUM", deQ)
       \/ Fase = "responde" /\ chInterrupt = <<Qu(deQ), Para>> /\ ~ Llego
       \/ Fase = "responde" /\ chInterrupt = <<Para, Qu(deQ)>> /\ ~ Llego
       \/ Fase = "interrumpe" /\ chInterrupt = <<>> /\ IntDe("QUANTUM", deQ)
       \/ Fase = "interrumpe" /\ chInterrupt = <<Qu(deQ)>> /\ ~ Llego

Devuelve ==
    Fase = "libre" /\ chCpu = <<Qu(deQ)>> /\ chInterrupt = <<>> /\ ~ Llego

\* The timer evicts the process of the dispatch.
PorQuantum ==
    /\ SEj = 0 /\ Esc = "recibe" /\ ~ desaloja /\ chDispatch = <<>> /\ exec = <<deQ>>
    /\ Tem \in {"avisa", "desalojo"} => SDq = 1
    /\ \/ Tem = "avisa" /\ SRq = 0 /\ Detenida
       \/ /\ Tem \in {"desalojo", "replanifica", "contexto"}
          /\ \/ SRq = 0 /\ (Evicta \/ Devuelve)
             \/ SRq = 1 /\ CpuLibre
       \/ Tem \in {"mira", "elige", "eligeM"} /\ SRq = 0 /\ CpuLibre

Turno ==
    /\ ~ PorQuantum => SRq = 0 /\ Tem \notin RepQ
    /\ PorDespachar \/ EnCamino \/ Ocupa \/ Escoge \/ PorQuantum

Inv == Tipos /\ Tiempo /\ Acuerdo /\ Turno

\* The process of cola_exec is in no other queue, unless it was put in one or the
\* next one has not been chosen yet.
EnMano ==
    /\ Esc \notin {"esperaPlani"} \cup Rep
    /\ ~ (Esc = "recibe" /\ desaloja /\ SEj = 0)
    /\ Tem \notin {"mira", "elige", "eligeM"}
    /\ SRq = 0

\* How many queues a process is in, cola_exec aside.
Uno(S, p) == IF p \in S THEN 1 ELSE 0

Cuenta(p) ==
    Veces(ready, p) + Veces(readyM, p) + Veces(colaRec, p)
      + Uno(bloqueados, p) + Uno(terminados, p)

Lugares == \A p \in Pids : Cuenta(p) = IF EnMano /\ exec = <<p>> THEN 0 ELSE 1


----------------------------------------------------------------------------
(* Short sequences.                                                        *)

LEMMA UnoSolo ==
  ASSUME NEW a
  PROVE  /\ Head(<<a>>) = a /\ Tail(<<a>>) = <<>> /\ Append(<<>>, a) = <<a>>
         /\ <<a>> # <<>> /\ Len(<<a>>) = 1 /\ <<a>>[1] = a /\ DOMAIN <<a>> = {1}
OBVIOUS

LEMMA Dos ==
  ASSUME NEW a, NEW b
  PROVE  /\ Head(<<a, b>>) = a /\ Tail(<<a, b>>) = <<b>> /\ Append(<<a>>, b) = <<a, b>>
         /\ <<a>> \o <<b>> = <<a, b>>
         /\ <<a, b>> # <<>> /\ Len(<<a, b>>) = 2 /\ <<a, b>>[1] = a /\ <<a, b>>[2] = b
         /\ DOMAIN <<a, b>> = {1, 2}
<1> DEFINE S == {a, b}
<1>1. <<a>> \in Seq(S) /\ b \in S /\ Len(<<a>>) = 1
  OBVIOUS
<1>2. Append(<<a>>, b) \in Seq(S) /\ Len(Append(<<a>>, b)) = 2
  BY <1>1
<1>3. Append(<<a>>, b)[1] = a /\ Append(<<a>>, b)[2] = b
  BY <1>1
<1>4. <<a, b>> \in Seq(S) /\ Len(<<a, b>>) = 2 /\ <<a, b>>[1] = a /\ <<a, b>>[2] = b
  OBVIOUS
<1>5. \A i \in 1..2 : Append(<<a>>, b)[i] = <<a, b>>[i]
  BY <1>3, <1>4
<1>6. Append(<<a>>, b) = <<a, b>>
  BY <1>2, <1>4, <1>5, SeqEqual
<1>7. <<a>> \o <<b>> = <<a, b>>
  BY <1>1, <1>6, AppendIsConcat
<1>8. Head(<<a, b>>) = a /\ Tail(<<a, b>>) = <<b>> /\ <<a, b>> # <<>> /\ DOMAIN <<a, b>> = {1, 2}
  OBVIOUS
<1> QED BY <1>4, <1>6, <1>7, <1>8

LEMMA Tercero ==
  ASSUME NEW a, NEW b, NEW c
  PROVE  Append(<<a, b>>, c) = <<a, b, c>>
<1> DEFINE S == {a, b, c}
<1>1. <<a, b>> \in Seq(S) /\ c \in S /\ Len(<<a, b>>) = 2
  OBVIOUS
<1>2. Append(<<a, b>>, c) \in Seq(S) /\ Len(Append(<<a, b>>, c)) = 3
  BY <1>1
<1>3. Append(<<a, b>>, c)[1] = a /\ Append(<<a, b>>, c)[2] = b /\ Append(<<a, b>>, c)[3] = c
  BY <1>1
<1>4. /\ <<a, b, c>> \in Seq(S) /\ <<a, b, c>> # <<>> /\ Len(<<a, b, c>>) = 3
      /\ <<a, b, c>>[1] = a /\ <<a, b, c>>[2] = b /\ <<a, b, c>>[3] = c
  OBVIOUS
<1>5. \A i \in 1..3 : Append(<<a, b>>, c)[i] = <<a, b, c>>[i]
  BY <1>3, <1>4
<1> QED BY <1>2, <1>4, <1>5, SeqEqual

LEMMA Tres ==
  ASSUME NEW a, NEW b, NEW c
  PROVE  /\ Head(<<a, b, c>>) = a /\ Tail(<<a, b, c>>) = <<b, c>> /\ <<a, b, c>> # <<>>
         /\ Len(<<a, b, c>>) = 3
         /\ <<a, b, c>>[1] = a /\ <<a, b, c>>[2] = b /\ <<a, b, c>>[3] = c
         /\ DOMAIN <<a, b, c>> = {1, 2, 3}
<1> DEFINE S == {a, b, c}
<1> DEFINE T == Tail(<<a, b, c>>)
<1>1. /\ <<a, b, c>> \in Seq(S) /\ <<a, b, c>> # <<>> /\ Len(<<a, b, c>>) = 3
      /\ <<a, b, c>>[1] = a /\ <<a, b, c>>[2] = b /\ <<a, b, c>>[3] = c
  OBVIOUS
<1>2. T \in Seq(S) /\ Len(T) = 2 /\ T[1] = b /\ T[2] = c
  BY <1>1
<1>3. <<b, c>> \in Seq(S) /\ Len(<<b, c>>) = 2 /\ <<b, c>>[1] = b /\ <<b, c>>[2] = c
  OBVIOUS
<1>4. T = <<b, c>>
  BY <1>2, <1>3
<1>5. Head(<<a, b, c>>) = a /\ DOMAIN <<a, b, c>> = {1, 2, 3}
  OBVIOUS
<1> QED BY <1>1, <1>4, <1>5

LEMMA Cuatro ==
  ASSUME NEW a, NEW b, NEW c, NEW d
  PROVE  /\ Head(<<a, b, c, d>>) = a /\ Tail(<<a, b, c, d>>) = <<b, c, d>>
         /\ <<a, b, c, d>> # <<>> /\ Len(<<a, b, c, d>>) = 4
<1> DEFINE S == {a, b, c, d}
<1> DEFINE T == Tail(<<a, b, c, d>>)
<1>1. /\ <<a, b, c, d>> \in Seq(S) /\ <<a, b, c, d>> # <<>> /\ Len(<<a, b, c, d>>) = 4
      /\ <<a, b, c, d>>[1] = a /\ <<a, b, c, d>>[2] = b /\ <<a, b, c, d>>[3] = c
      /\ <<a, b, c, d>>[4] = d
  OBVIOUS
<1>2. T \in Seq(S) /\ Len(T) = 3 /\ T[1] = b /\ T[2] = c /\ T[3] = d
  BY <1>1
<1>3. /\ <<b, c, d>> \in Seq(S) /\ Len(<<b, c, d>>) = 3
      /\ <<b, c, d>>[1] = b /\ <<b, c, d>>[2] = c /\ <<b, c, d>>[3] = d
  OBVIOUS
<1>4. T = <<b, c, d>>
  <2> HIDE DEF T
  <2>1. \A i \in 1..3 : T[i] = <<b, c, d>>[i]
    BY <1>2, <1>3
  <2> QED BY <1>2, <1>3, <2>1, SeqEqual
<1>5. Head(<<a, b, c, d>>) = a
  OBVIOUS
<1> QED BY <1>1, <1>4, <1>5

LEMMA TerceroDeCuatro ==
  ASSUME NEW a, NEW b, NEW c, NEW d
  PROVE  3 \in DOMAIN <<a, b, c, d>> /\ <<a, b, c, d>>[3] = c
OBVIOUS

LEMMA CuartoAlFinal ==
  ASSUME NEW a, NEW b, NEW c, NEW d
  PROVE  Append(<<a, b, c>>, d) = <<a, b, c, d>>
<1> DEFINE S == {a, b, c, d}
<1> DEFINE U == Append(<<a, b, c>>, d)
<1>1. /\ <<a, b, c, d>> \in Seq(S) /\ Len(<<a, b, c, d>>) = 4
      /\ <<a, b, c, d>>[1] = a /\ <<a, b, c, d>>[2] = b /\ <<a, b, c, d>>[3] = c
      /\ <<a, b, c, d>>[4] = d
  OBVIOUS
<1>2. <<a, b, c>> \in Seq(S) /\ Len(<<a, b, c>>) = 3
      /\ <<a, b, c>>[1] = a /\ <<a, b, c>>[2] = b /\ <<a, b, c>>[3] = c /\ d \in S
  OBVIOUS
<1>3. U \in Seq(S) /\ Len(U) = 4 /\ U[1] = a /\ U[2] = b /\ U[3] = c /\ U[4] = d
  BY <1>2
<1> HIDE DEF U
<1>4. \A i \in 1..4 : U[i] = <<a, b, c, d>>[i]
  BY <1>1, <1>3
<1>5. U = <<a, b, c, d>>
  BY <1>1, <1>3, <1>4, SeqEqual
<1> QED BY <1>5 DEF U

LEMMA DePaquete ==
  ASSUME NEW m, NEW p
  PROVE  Paquete(m, p).motivo = m /\ Paquete(m, p).pid = p
BY DEF Paquete

----------------------------------------------------------------------------
(* The semaphores.                                                         *)

LEMMA Bajado ==
  ASSUME sem \in [Semaforos -> 0..MaxCuenta], NEW s \in Semaforos, Baja(s)
  PROVE  /\ sem[s] > 0 /\ sem'[s] = sem[s] - 1 /\ sem' \in [Semaforos -> 0..MaxCuenta]
         /\ \A r \in Semaforos : r # s => sem'[r] = sem[r]
BY QuantumAssumption DEF Baja

LEMMA Subido ==
  ASSUME sem \in [Semaforos -> 0..MaxCuenta], NEW s \in Semaforos, Sube(s)
  PROVE  /\ sem'[s] = sem[s] + 1 /\ sem' \in [Semaforos -> 0..MaxCuenta]
         /\ \A r \in Semaforos : r # s => sem'[r] = sem[r]
BY QuantumAssumption DEF Sube

LEMMA Subidos ==
  ASSUME sem \in [Semaforos -> 0..MaxCuenta], NEW S \in SUBSET Semaforos, Suben(S)
  PROVE  /\ sem' \in [Semaforos -> 0..MaxCuenta]
         /\ \A r \in Semaforos : sem'[r] = IF r \in S THEN sem[r] + 1 ELSE sem[r]
BY QuantumAssumption DEF Suben

----------------------------------------------------------------------------
(* What a step leaves as it was.                                           *)

LEMMA TiempoIgual ==
  ASSUME Tiempo, Tem' = Tem, fin' = fin, desaloja' = desaloja,
         replanifico' = replanifico
  PROVE  Tiempo'
BY DEF Tiempo

LEMMA AcuerdoIgual ==
  ASSUME Acuerdo, Tem' = Tem, Esc' = Esc, desaloja' = desaloja, SVq' = SVq, SDq' = SDq
  PROVE  Acuerdo'
BY DEF Acuerdo

LEMMA CambioIgual ==
  ASSUME CpuSale \/ CpuLibre, cpu' = cpu, interrupcion' = interrupcion, chCpu' = chCpu,
         chInterrupt' = chInterrupt
  PROVE  (CpuSale \/ CpuLibre)'
BY DEF CpuSale, CpuLibre, Fase, Pid, Llego, IntM, IntP, IntDe
----------------------------------------------------------------------------
(* The CPU.                                                                *)

LEMMA KernelIgual ==
  ASSUME Inv, UNCHANGED <<sem, pc, banderas, colas>>
  PROVE  /\ Tiempo' /\ Acuerdo'
         /\ Esc' = Esc /\ Tem' = Tem /\ SEj' = SEj /\ SDq' = SDq /\ SRq' = SRq
         /\ exec' = exec /\ deQ' = deQ /\ pedido' = pedido /\ desaloja' = desaloja
<1>1. /\ Esc' = Esc /\ Tem' = Tem /\ SEj' = SEj
      /\ SDq' = SDq /\ SVq' = SVq /\ SRq' = SRq
      /\ fin' = fin /\ exec' = exec /\ deQ' = deQ /\ pedido' = pedido /\ desaloja' = desaloja
      /\ replanifico' = replanifico
  BY DEF banderas, colas, Esc, Tem, SEj, SDq, SVq, SRq
<1>2. Tiempo' /\ Acuerdo'
  BY <1>1, TiempoIgual, AcuerdoIgual DEF Inv
<1> QED BY <1>1, <1>2

LEMMA TiposDeCpu ==
  ASSUME Tipos, UNCHANGED <<sem, pc, banderas, colas>>,
         cpu' \in [fase : {"libre", "ejecuta", "responde", "interrumpe"}, pid : Pids \cup {0}],
         Fase' = "libre" <=> Pid' = 0,
         interrupcion' \in [motivo : Motivos, pid : Pids \cup {0}]
  PROVE  Tipos'
BY DEF Tipos, banderas, colas, Fase, Pid

LEMMA EnPids == ASSUME NEW p \in Pids PROVE p # 0
BY DEF Pids

LEMMA DeQEnPids ==
  ASSUME Tipos, exec = <<deQ>>
  PROVE  deQ \in Pids
<1>1. PICK p \in Pids : exec = <<p>>
  BY DEF Tipos
<1> QED BY <1>1, UnoSolo

LEMMA RecibePcbInv ==
  ASSUME Inv, CpuRecibePcb
  PROVE  Inv'
<1>1. /\ cpu.fase = "libre" /\ chDispatch # <<>> /\ Head(chDispatch).motivo = "PCB"
      /\ cpu' = [fase |-> "ejecuta", pid |-> Head(chDispatch).pid]
      /\ chDispatch' = Tail(chDispatch)
      /\ UNCHANGED <<sem, pc, banderas, colas>>
      /\ interrupcion' = interrupcion /\ chCpu' = chCpu /\ chInterrupt' = chInterrupt
  BY DEF CpuRecibePcb
<1>2. Fase = "libre"
  BY <1>1 DEF Fase
<1>3. EnCamino
  BY <1>1, <1>2 DEF Inv, Turno, PorDespachar, Ocupa, Escoge, PorQuantum
<1>4. deQ \in Pids /\ deQ # 0
  BY <1>3, DeQEnPids, EnPids DEF EnCamino, Inv
<1>5. cpu' = [fase |-> "ejecuta", pid |-> deQ] /\ chDispatch' = <<>>
  BY <1>1, <1>3, UnoSolo, DePaquete DEF EnCamino
<1>6. Fase' = "ejecuta" /\ Pid' = deQ /\ Llego' = Llego /\ IntM' = IntM /\ IntP' = IntP
  BY <1>1, <1>5 DEF Fase, Pid, Llego, IntM, IntP
<1>7. Tipos'
  BY <1>1, <1>4, <1>5, <1>6, TiposDeCpu DEF Inv, Tipos
<1>8. /\ chCpu = <<>> /\ SinPedir
      /\ Tem \in {"duerme", "decide", "enciende", "avisa", "desalojo"}
  <2>1. ASSUME CpuSale \/ CpuLibre, Tem \in {"duerme", "decide", "enciende", "avisa"}
        PROVE  chCpu = <<>> /\ SinPedir
    BY <1>2, <2>1 DEF CpuSale, CpuLibre, SinPedir
  <2>2. ASSUME QuantumAntes, Tem = "desalojo"
        PROVE  chCpu = <<>> /\ SinPedir
    BY <1>2, <2>2, UnoSolo DEF QuantumAntes, SinPedir, IntDe
  <2> QED BY <1>3, <2>1, <2>2 DEF EnCamino
<1>9. SinPedir'
  BY <1>1, <1>6, <1>8, KernelIgual DEF SinPedir
<1>10. Ocupa'
  BY <1>1, <1>3, <1>5, <1>6, <1>8, <1>9, KernelIgual DEF EnCamino, Ocupa
<1> QED BY <1>1, <1>3, <1>7, <1>10, KernelIgual DEF Inv, Turno, EnCamino, PorQuantum

LEMMA InstruccionInv ==
  ASSUME Inv, NEW o \in Operaciones, CpuInstruccion(o)
  PROVE  Inv'
<1>1. /\ cpu.fase = "ejecuta" /\ cpu' = [cpu EXCEPT !.fase = "responde"]
      /\ chCpu' = chCpu \o (IF o = "COMPUTO" THEN <<>> ELSE <<Paquete(o, cpu.pid)>>)
                        \o <<Paquete("FIN", cpu.pid)>>
      /\ UNCHANGED <<sem, pc, banderas, colas>>
      /\ interrupcion' = interrupcion /\ chDispatch' = chDispatch /\ chInterrupt' = chInterrupt
  BY DEF CpuInstruccion
<1>2. Fase = "ejecuta" /\ Pid = cpu.pid
  BY <1>1 DEF Fase, Pid
<1>3. Ocupa /\ Esc = "recibe" /\ ~ desaloja /\ chCpu = <<>> /\ chDispatch = <<>> /\ cpu.pid = deQ
  BY <1>2
    DEF Inv, Turno, PorDespachar, EnCamino, Ocupa, Escoge, PorQuantum, CpuSale, CpuLibre,
        Detenida, Evicta, Devuelve, QuantumAntes
<1>4. Fase' = "responde" /\ Pid' = Pid /\ Llego' = Llego /\ IntM' = IntM /\ IntP' = IntP
  BY <1>1 DEF Fase, Pid, Llego, IntM, IntP, Inv, Tipos
<1>5. chCpu' = <<Fin(deQ)>> \/ \E m \in Instrucciones : chCpu' = <<Paquete(m, deQ), Fin(deQ)>>
  <2>1. CASE o = "COMPUTO"
    <3>1. <<>> \o <<>> \o <<Paquete("FIN", deQ)>> = <<Paquete("FIN", deQ)>>
      OBVIOUS
    <3> QED BY <1>1, <1>3, <2>1, <3>1 DEF Fin
  <2>2. CASE o # "COMPUTO"
    <3>1. o \in Instrucciones
      BY <2>2, QuantumAssumption DEF Instrucciones
    <3>2. <<>> \o <<Paquete(o, deQ)>> = <<Paquete(o, deQ)>>
      OBVIOUS
    <3>3. chCpu' = <<Paquete(o, deQ)>> \o <<Fin(deQ)>>
      BY <1>1, <1>3, <2>2, <3>2 DEF Fin
    <3> QED BY <3>1, <3>3, Dos
  <2> QED BY <2>1, <2>2
<1>6. Tipos'
  BY <1>1, <1>2, <1>4, TiposDeCpu DEF Inv, Tipos
<1>7. Ocupa'
  BY <1>1, <1>3, <1>4, <1>5, KernelIgual DEF Ocupa, SinPedir
<1> QED BY <1>1, <1>3, <1>6, <1>7, KernelIgual DEF Inv, Turno, PorQuantum, Ocupa

LEMMA ContinuaInv ==
  ASSUME Inv, CpuContinua
  PROVE  Inv'
<1>1. /\ cpu.fase = "responde" /\ chDispatch # <<>> /\ Head(chDispatch).motivo = "CONTINUA"
      /\ cpu' = [cpu EXCEPT !.fase = "ejecuta"] /\ chDispatch' = Tail(chDispatch)
      /\ UNCHANGED <<sem, pc, banderas, colas>>
      /\ interrupcion' = interrupcion /\ chCpu' = chCpu /\ chInterrupt' = chInterrupt
  BY DEF CpuContinua
<1>2. ~ EnCamino
  BY <1>1, UnoSolo, DePaquete DEF EnCamino
<1>3. /\ Ocupa /\ chDispatch = <<Paquete("CONTINUA", 0)>> /\ chCpu = <<>>
      /\ Esc = "recibe" /\ ~ desaloja
  BY <1>1, <1>2 DEF Inv, Turno, PorDespachar, Ocupa, Escoge, PorQuantum
<1>4. /\ Fase' = "ejecuta" /\ Fase = "responde" /\ Pid' = Pid /\ Llego' = Llego
      /\ IntM' = IntM /\ IntP' = IntP /\ chDispatch' = <<>>
  BY <1>1, <1>3, UnoSolo DEF Fase, Pid, Llego, IntM, IntP, Inv, Tipos
<1>5. Tipos'
  BY <1>1, <1>4, TiposDeCpu DEF Inv, Tipos
<1>6. Ocupa'
  BY <1>1, <1>3, <1>4, KernelIgual DEF Ocupa, SinPedir
<1> QED BY <1>1, <1>3, <1>5, <1>6, KernelIgual DEF Inv, Turno, PorQuantum, Ocupa

LEMMA NoContinuaInv ==
  ASSUME Inv, CpuNoContinua
  PROVE  Inv'
<1>1. /\ cpu.fase = "responde" /\ chInterrupt # <<>> /\ Head(chInterrupt).motivo = "NO_CONTINUA"
      /\ cpu' = [cpu EXCEPT !.fase = "interrumpe"] /\ chInterrupt' = Tail(chInterrupt)
      /\ UNCHANGED <<sem, pc, banderas, colas>>
      /\ interrupcion' = interrupcion /\ chCpu' = chCpu /\ chDispatch' = chDispatch
  BY DEF CpuNoContinua
<1>2. /\ Fase' = "interrumpe" /\ Fase = "responde" /\ Pid' = Pid /\ Llego' = Llego
      /\ IntM' = IntM /\ IntP' = IntP
  BY <1>1 DEF Fase, Pid, Llego, IntM, IntP, Inv, Tipos
<1>3. ~ Ocupa
  BY <1>1, UnoSolo, Dos, DePaquete DEF Ocupa, Pedida, SinPedir, Qu, Salidas
<1>4. ASSUME CpuSale \/ CpuLibre PROVE Turno'
  <2>1. CpuSale
    BY <1>2, <1>4 DEF CpuLibre
  <2>2. PICK m \in Salidas : chInterrupt = <<Para>> /\ IntDe(m, Pid)
    BY <1>1, <1>2, <2>1, UnoSolo, Dos, Tres, DePaquete DEF CpuSale, Qu, Salidas
  <2>3. (CpuSale \/ CpuLibre)'
    BY <1>1, <1>2, <2>1, <2>2, UnoSolo DEF CpuSale, IntDe
  <2>4. ~ PorQuantum
    BY <1>2, <2>2, UnoSolo, Dos DEF PorQuantum, Detenida, Evicta, Devuelve, CpuLibre, IntDe, Salidas
  <2>5. ~ PorQuantum' => SRq' = 0 /\ Tem' \notin RepQ
    BY <1>1, <2>4, KernelIgual DEF Inv, Turno
  <2>6. ~ QuantumAntes
    BY <1>2, <2>2, UnoSolo, Dos, Tres, Cuatro DEF QuantumAntes
  <2>7. PorDespachar' \/ EnCamino' \/ Escoge'
    BY <1>1, <1>3, <2>3, <2>4, <2>6, KernelIgual DEF Inv, Turno, PorDespachar, EnCamino, Escoge
  <2> QED BY <2>5, <2>7 DEF Turno
<1>5. ASSUME PorQuantum PROVE Turno'
  <2>1. Detenida => Detenida'
    BY <1>1, <1>2, UnoSolo, KernelIgual DEF Detenida
  <2>2. Evicta => Evicta'
    <3>1. ASSUME chInterrupt = <<Para>> PROVE chInterrupt' = <<>>
      BY <1>1, <3>1, UnoSolo
    <3>2. ASSUME chInterrupt = <<Para, Qu(deQ)>> PROVE chInterrupt' = <<Qu(deQ)>>
      BY <1>1, <3>2, Dos
    <3>3. chInterrupt # <<Qu(deQ), Para>>
      BY <1>1, Dos, DePaquete DEF Qu
    <3> QED BY <1>1, <1>2, <3>1, <3>2, <3>3, KernelIgual DEF Evicta, IntDe
  <2>3. ~ Devuelve /\ ~ CpuLibre
    BY <1>2 DEF Devuelve, CpuLibre
  <2>4. PorQuantum'
    BY <1>1, <1>5, <2>1, <2>2, <2>3, KernelIgual DEF PorQuantum
  <2> QED BY <2>4 DEF Turno
<1>6. ASSUME EnCamino, QuantumAntes, Tem = "desalojo" PROVE Turno'
  <2>1. PICK m \in Salidas : chInterrupt = <<Para, Qu(deQ)>> /\ IntDe(m, Pid)
    BY <1>1, <1>2, <1>6, UnoSolo, Tres, Cuatro, DePaquete DEF QuantumAntes, Qu, Salidas
  <2>2. QuantumAntes'
    BY <1>1, <1>2, <1>6, <2>1, Dos, KernelIgual DEF QuantumAntes, IntDe
  <2>3. ~ PorQuantum
    BY <1>6 DEF EnCamino, PorQuantum
  <2> QED BY <1>1, <1>6, <2>2, <2>3, KernelIgual DEF Inv, Turno, EnCamino
<1>7. Turno'
  BY <1>3, <1>4, <1>5, <1>6 DEF Inv, Turno, PorDespachar, EnCamino, Escoge
<1>8. Tipos'
  BY <1>1, <1>2, TiposDeCpu DEF Inv, Tipos
<1> QED BY <1>1, <1>7, <1>8, KernelIgual DEF Inv

LEMMA RecibeInterrupcionInv ==
  ASSUME Inv, CpuRecibeInterrupcion, SinCruces'
  PROVE  Inv'
<1> DEFINE Recto == interrupcion' = Paquete(IntM', IntP')
<1>1. /\ chInterrupt # <<>> /\ Head(chInterrupt).motivo # "NO_CONTINUA"
      /\ interrupcion' = Head(chInterrupt)
      /\ ~ (Llego /\ Head(chInterrupt).motivo = "QUANTUM")
      /\ chInterrupt' = Tail(chInterrupt)
      /\ UNCHANGED <<sem, pc, banderas, colas>>
      /\ cpu' = cpu /\ chCpu' = chCpu /\ chDispatch' = chDispatch
  BY DEF CpuRecibeInterrupcion, SinCruces
<1>2. /\ Fase' = Fase /\ Pid' = Pid
      /\ IntM' = Head(chInterrupt).motivo /\ IntP' = Head(chInterrupt).pid
      /\ IntM' # "NADA" => Llego'
  BY <1>1, DePaquete DEF Fase, Pid, Llego, IntM, IntP, SinInterrupcion
<1>3. ASSUME NEW m, NEW p, m # "NADA", chInterrupt = <<Paquete(m, p)>>
      PROVE  Llego' /\ Recto /\ IntM' = m /\ IntP' = p /\ chInterrupt' = <<>>
  BY <1>1, <1>2, <1>3, UnoSolo, DePaquete
<1>4. ASSUME NEW m, NEW p, NEW b, m # "NADA", chInterrupt = <<Paquete(m, p), b>>
      PROVE  Llego' /\ Recto /\ IntM' = m /\ IntP' = p /\ chInterrupt' = <<b>>
  BY <1>1, <1>2, <1>4, Dos, DePaquete
<1>5. ASSUME NEW m, NEW p, NEW b, NEW c, m # "NADA", chInterrupt = <<Paquete(m, p), b, c>>
      PROVE  Llego' /\ Recto /\ IntM' = m /\ IntP' = p /\ chInterrupt' = <<b, c>>
  BY <1>1, <1>2, <1>5, Tres, DePaquete
<1>20. /\ \A p : Qu(p) = Paquete("QUANTUM", p)
       /\ \A m \in Salidas : m # "NADA" /\ m # "QUANTUM" /\ m \in Motivos
  BY DEF Qu, Salidas, Motivos
<1>6. chInterrupt # <<Para>> /\ chInterrupt # <<Para, Qu(deQ)>>
  BY <1>1, UnoSolo, Dos, DePaquete DEF Para
<1>7. CpuSale => CpuSale' /\ Recto /\ IntM' \in Motivos /\ IntP' = Pid
  <2>1. SUFFICES ASSUME CpuSale PROVE CpuSale' /\ Recto /\ IntM' \in Motivos /\ IntP' = Pid
    OBVIOUS
  <2>2. PICK m \in Salidas : \/ chInterrupt = <<Paquete(m, Pid), Para>>
                           \/ chInterrupt = <<Qu(Pid), Paquete(m, Pid), Para>>
    BY <1>1, <1>6, <2>1 DEF CpuSale
  <2>3. CASE chInterrupt = <<Paquete(m, Pid), Para>>
    <3>1. Llego' /\ Recto /\ IntM' = m /\ IntP' = Pid /\ chInterrupt' = <<Para>>
      BY <1>4, <1>20, <2>3
    <3>2. Fase = "responde"
      BY <2>1, <2>3, Dos DEF CpuSale
    <3> QED BY <1>1, <1>2, <2>1, <3>1, <3>2 DEF CpuSale, IntDe, Salidas, Motivos
  <2>4. CASE chInterrupt = <<Qu(Pid), Paquete(m, Pid), Para>>
    <3>1. Llego' /\ Recto /\ IntM' = "QUANTUM" /\ IntP' = Pid /\ chInterrupt' = <<Paquete(m, Pid), Para>>
      BY <1>5, <1>20, <2>4 DEF Qu
    <3>2. Fase = "responde"
      BY <2>1, <2>4, Tres DEF CpuSale
    <3> QED BY <1>1, <1>2, <2>1, <3>1, <3>2 DEF CpuSale, Motivos
  <2> QED BY <2>2, <2>3, <2>4
<1>8. ~ CpuLibre /\ ~ Detenida /\ ~ Devuelve
  BY <1>1, <1>6 DEF CpuLibre, Detenida, Devuelve
<1>9. Evicta => Evicta' /\ Recto /\ IntM' \in Motivos /\ IntP' = deQ
  <2>1. SUFFICES ASSUME Evicta PROVE Evicta' /\ Recto /\ IntM' \in Motivos /\ IntP' = deQ
    OBVIOUS
  <2>2. CASE chInterrupt = <<Qu(deQ), Para>>
    <3>1. Llego' /\ Recto /\ IntM' = "QUANTUM" /\ IntP' = deQ /\ chInterrupt' = <<Para>>
      BY <1>4, <1>20, <2>2 DEF Qu
    <3>2. Fase = "responde"
      BY <2>1, <2>2, UnoSolo, Dos DEF Evicta
    <3> QED BY <1>1, <1>2, <2>1, <3>1, <3>2, KernelIgual DEF Evicta, IntDe, Motivos
  <2>3. CASE chInterrupt = <<Qu(deQ)>>
    <3>1. Llego' /\ Recto /\ IntM' = "QUANTUM" /\ IntP' = deQ /\ chInterrupt' = <<>>
      BY <1>3, <1>20, <2>3 DEF Qu
    <3>2. Fase = "interrumpe"
      BY <1>6, <2>1, <2>3, UnoSolo, Dos DEF Evicta
    <3> QED BY <1>1, <1>2, <2>1, <3>1, <3>2, KernelIgual DEF Evicta, IntDe, Motivos
  <2> QED BY <1>1, <1>6, <2>1, <2>2, <2>3 DEF Evicta
<1>10. Ocupa => Ocupa' /\ Recto /\ IntM' \in Motivos /\ IntP' = deQ
  <2>1. SUFFICES ASSUME Ocupa PROVE Ocupa' /\ Recto /\ IntM' \in Motivos /\ IntP' = deQ
    OBVIOUS
  <2>2. CASE desaloja /\ Esc = "recibe"
    <3>1. PICK m \in Salidas : \/ chInterrupt = <<Paquete(m, deQ)>>
                             \/ chInterrupt = <<Qu(deQ), Paquete(m, deQ)>>
      BY <1>1, <2>1, <2>2 DEF Ocupa, Pedida
    <3>2. Pedida' /\ Recto /\ IntM' \in Motivos /\ IntP' = deQ
      <4>1. CASE chInterrupt = <<Paquete(m, deQ)>>
        BY <1>2, <1>3, <1>20, <4>1, <1>1, KernelIgual DEF Pedida, IntDe, Salidas, Motivos
      <4>2. CASE chInterrupt = <<Qu(deQ), Paquete(m, deQ)>>
        <5>1. Llego' /\ Recto /\ IntM' = "QUANTUM" /\ IntP' = deQ /\ chInterrupt' = <<Paquete(m, deQ)>>
          BY <1>4, <1>20, <4>2 DEF Qu
        <5> QED BY <1>1, <5>1, KernelIgual DEF Pedida, Motivos
      <4> QED BY <3>1, <4>1, <4>2
    <3> QED BY <1>1, <1>2, <2>1, <2>2, <3>2, KernelIgual DEF Ocupa
  <2>3. CASE ~ (desaloja /\ Esc = "recibe")
    <3>1. SinPedir /\ chInterrupt = <<Qu(deQ)>>
      BY <1>1, <2>1, <2>3 DEF Ocupa, SinPedir
    <3>2. Llego' /\ Recto /\ IntM' = "QUANTUM" /\ IntP' = deQ /\ chInterrupt' = <<>>
      BY <1>3, <1>20, <3>1 DEF Qu
    <3>3. SinPedir'
      BY <1>1, <1>2, <3>1, <3>2, KernelIgual DEF SinPedir
    <3> QED BY <1>1, <1>2, <2>1, <2>3, <3>2, <3>3, KernelIgual DEF Ocupa, Motivos
  <2> QED BY <2>2, <2>3
<1>11. PorQuantum => PorQuantum' /\ Recto /\ IntM' \in Motivos /\ IntP' = deQ
  BY <1>1, <1>8, <1>9, KernelIgual DEF PorQuantum
<1>19. QuantumAntes => QuantumAntes' /\ Recto /\ IntM' \in Motivos /\ IntP' \in {deQ, Pid}
  <2>1. SUFFICES ASSUME QuantumAntes
                 PROVE  QuantumAntes' /\ Recto /\ IntM' \in Motivos /\ IntP' \in {deQ, Pid}
    OBVIOUS
  <2>2. CASE Fase = "libre"
    <3>1. chInterrupt = <<Qu(deQ)>>
      BY <1>1, <2>1, <2>2 DEF QuantumAntes
    <3>2. Llego' /\ Recto /\ IntM' = "QUANTUM" /\ IntP' = deQ /\ chInterrupt' = <<>>
      BY <1>3, <1>20, <3>1
    <3> QED BY <1>1, <1>2, <2>1, <2>2, <3>2, KernelIgual DEF QuantumAntes, IntDe, Motivos
  <2>3. CASE Fase # "libre"
    <3>1. PICK m \in Salidas : \/ chInterrupt = <<Paquete(m, Pid), Para, Qu(deQ)>>
                             \/ chInterrupt = <<Qu(Pid), Paquete(m, Pid), Para, Qu(deQ)>>
      <4>1. ASSUME chInterrupt = <<Qu(deQ)>>, Llego PROVE FALSE
        BY <1>1, <4>1, UnoSolo, DePaquete DEF Qu
      <4> QED BY <1>6, <2>1, <2>3, <4>1 DEF QuantumAntes, IntDe
    <3>2. Fase = "responde"
      BY <2>1, <2>3, <3>1, UnoSolo, Tres, Cuatro DEF QuantumAntes
    <3>3. CASE chInterrupt = <<Paquete(m, Pid), Para, Qu(deQ)>>
      <4>1. Llego' /\ Recto /\ IntM' = m /\ IntP' = Pid /\ chInterrupt' = <<Para, Qu(deQ)>>
        BY <1>5, <1>20, <3>3
      <4> QED BY <1>1, <1>2, <1>20, <2>1, <3>2, <4>1, KernelIgual DEF QuantumAntes, IntDe
    <3>4. CASE chInterrupt = <<Qu(Pid), Paquete(m, Pid), Para, Qu(deQ)>>
      <4>1. Recto /\ IntM' = "QUANTUM" /\ IntP' = Pid
        BY <1>1, <1>2, <1>20, <3>4, Cuatro, DePaquete
      <4>2. chInterrupt' = <<Paquete(m, Pid), Para, Qu(deQ)>>
        BY <1>1, <3>4, Cuatro
      <4> QED BY <1>1, <1>2, <2>1, <3>2, <4>1, <4>2, KernelIgual DEF QuantumAntes, Motivos
    <3> QED BY <3>1, <3>3, <3>4
  <2> QED BY <2>2, <2>3
<1>12. /\ PorDespachar => PorDespachar' /\ Recto /\ IntM' \in Motivos /\ IntP' = Pid
       /\ EnCamino => EnCamino' /\ Recto /\ IntM' \in Motivos /\ IntP' \in {deQ, Pid}
       /\ Escoge => Escoge' /\ Recto /\ IntM' \in Motivos /\ IntP' = Pid
  BY <1>1, <1>7, <1>8, <1>19, KernelIgual DEF PorDespachar, EnCamino, Escoge
<1>13. ~ PorQuantum => SRq' = 0 /\ Tem' \notin RepQ
  BY <1>1, KernelIgual DEF Inv, Turno
<1>14. Turno' /\ Recto /\ IntM' \in Motivos /\ IntP' \in {deQ, Pid}
  BY <1>10, <1>11, <1>12, <1>13 DEF Inv, Turno
<1>15. interrupcion' \in [motivo : Motivos, pid : Pids \cup {0}]
  BY <1>14 DEF Inv, Tipos, Pid, Paquete
<1>16. Tipos'
  BY <1>1, <1>2, <1>15, TiposDeCpu DEF Inv, Tipos
<1> QED BY <1>1, <1>14, <1>16, KernelIgual DEF Inv

LEMMA AtiendeInterrupcionInv ==
  ASSUME Inv, CpuAtiendeInterrupcion
  PROVE  Inv'
<1>1. /\ cpu.fase = "interrumpe" /\ Llego
      /\ interrupcion' = SinInterrupcion
      /\ IF interrupcion.pid = cpu.pid
           THEN /\ cpu' = [fase |-> "libre", pid |-> 0]
                /\ chCpu' = IF interrupcion.motivo = "QUANTUM"
                              THEN Append(chCpu, Paquete("QUANTUM", cpu.pid)) ELSE chCpu
           ELSE cpu' = [cpu EXCEPT !.fase = "ejecuta"] /\ chCpu' = chCpu
      /\ UNCHANGED <<sem, pc, banderas, colas>>
      /\ chDispatch' = chDispatch /\ chInterrupt' = chInterrupt
  BY DEF CpuAtiendeInterrupcion
<1>2. Fase = "interrumpe" /\ Llego /\ Pid = cpu.pid /\ IntP = interrupcion.pid
  BY <1>1 DEF Fase, Pid, IntP
<1>3. ~ Ocupa /\ ~ CpuLibre /\ ~ Devuelve /\ ~ Detenida
  BY <1>2 DEF Ocupa, CpuLibre, Devuelve, Detenida
<1>4. CpuSale => IntP = Pid /\ IntM # "QUANTUM" /\ chInterrupt = <<>> /\ chCpu = <<>>
  BY <1>2, UnoSolo, Dos DEF CpuSale, IntDe, Salidas
<1>5. Evicta => IntP = Pid /\ IntM = "QUANTUM" /\ chInterrupt = <<>> /\ chCpu = <<>> /\ Pid = deQ
  BY <1>2, UnoSolo, Dos DEF Evicta, IntDe
<1>15. QuantumAntes =>
          IntP = Pid /\ IntM # "QUANTUM" /\ chInterrupt = <<Qu(deQ)>> /\ chCpu = <<>>
  BY <1>2, UnoSolo, Dos DEF QuantumAntes, IntDe, Salidas
<1>6. CpuSale \/ Evicta \/ QuantumAntes
  BY <1>3 DEF Inv, Turno, PorDespachar, EnCamino, Escoge, PorQuantum
<1>7. cpu' = [fase |-> "libre", pid |-> 0] /\ Fase' = "libre" /\ Pid' = 0 /\ ~ Llego'
  BY <1>1, <1>2, <1>4, <1>5, <1>6, <1>15 DEF Fase, Pid, Llego, Inv, Tipos
<1>8. CpuSale => CpuLibre'
  BY <1>1, <1>2, <1>4, <1>7 DEF CpuLibre, IntM
<1>16. QuantumAntes => QuantumAntes'
  BY <1>1, <1>2, <1>7, <1>15, KernelIgual DEF QuantumAntes, IntM
<1>9. Evicta => Devuelve'
  BY <1>1, <1>2, <1>5, <1>7, UnoSolo, KernelIgual DEF Devuelve, IntM, Qu
<1>10. ~ PorQuantum => SRq' = 0 /\ Tem' \notin RepQ
  BY <1>1, KernelIgual DEF Inv, Turno
<1>11. /\ PorQuantum => PorQuantum'
       /\ PorDespachar => PorDespachar'
       /\ EnCamino => EnCamino'
       /\ Escoge => Escoge'
  BY <1>1, <1>3, <1>8, <1>9, <1>16, KernelIgual DEF PorDespachar, EnCamino, Escoge, PorQuantum
<1>12. Turno'
  BY <1>3, <1>10, <1>11 DEF Inv, Turno
<1>13. interrupcion' \in [motivo : Motivos, pid : Pids \cup {0}]
  BY <1>1 DEF SinInterrupcion, Paquete, Motivos
<1>14. Tipos'
  BY <1>1, <1>7, <1>13, TiposDeCpu DEF Inv, Tipos
<1> QED BY <1>1, <1>12, <1>14, KernelIgual DEF Inv

----------------------------------------------------------------------------
(* What the actions of the kernel have in common.                          *)

LEMMA CpuIgual ==
  ASSUME cpu' = cpu, interrupcion' = interrupcion
  PROVE  Fase' = Fase /\ Pid' = Pid /\ Llego' = Llego /\ IntM' = IntM /\ IntP' = IntP
BY DEF Fase, Pid, Llego, IntM, IntP

LEMMA VaEscucha ==
  ASSUME pc \in Puntos, NEW l, Va("escucha", l),
         l \in {"recibe"} \cup Antes \cup Despues \cup Rep
  PROVE  pc' \in Puntos /\ Esc' = l /\ Tem' = Tem
BY DEF Va, Puntos, Esc, Tem, Antes, Despues, Rep

LEMMA VaTemporizador ==
  ASSUME pc \in Puntos, NEW l, Va("q", l), l \in {"fin", "duerme", "decide", "enciende"} \cup EnFin
  PROVE  pc' \in Puntos /\ Tem' = l /\ Esc' = Esc
BY DEF Va, Puntos, Esc, Tem, EnFin, RepQ, Rep

LEMMA VaCronometro ==
  ASSUME pc \in Puntos, NEW l, Va("p", l), l \in {"fin", "espera", "paro", "reanuda", "sigue", "compara"}
  PROVE  pc' \in Puntos /\ Esc' = Esc /\ Tem' = Tem
BY DEF Va, Puntos, Esc, Tem

LEMMA VaDespacho ==
  ASSUME pc \in Puntos, NEW l, Va("despacho", l), l \in {"ejecutar", "desalojo"}
  PROVE  pc' \in Puntos /\ Esc' = Esc /\ Tem' = Tem
BY DEF Va, Puntos, Esc, Tem

LEMMA PcIgual ==
  ASSUME pc' = pc
  PROVE  Esc' = Esc /\ Tem' = Tem
BY DEF Esc, Tem

\* The semaphores that say nothing of whose turn it is.
Ajenos == {"sem_planificacion", "sem_procesos_en_ready", "sem_procesos_en_ready_m",
           "termino_la_instruccion", "sem_pausa_conteo_quantum", "sem_esperar_instruccion"}

SemIgual == SEj' = SEj /\ SDq' = SDq /\ SVq' = SVq /\ SRq' = SRq

LEMMA SubeAjeno ==
  ASSUME sem \in [Semaforos -> 0..MaxCuenta], NEW s \in Ajenos, Sube(s) \/ Baja(s)
  PROVE  sem' \in [Semaforos -> 0..MaxCuenta] /\ SemIgual
<1>1. s \in Semaforos
  BY DEF Ajenos, Semaforos
<1>2. /\ sem' \in [Semaforos -> 0..MaxCuenta]
      /\ \A r \in Semaforos : r # s => sem'[r] = sem[r]
  BY <1>1, Subido, Bajado
<1> QED BY <1>2 DEF SemIgual, Ajenos, Semaforos, SEj, SDq, SVq, SRq

LEMMA SubenAjenos ==
  ASSUME sem \in [Semaforos -> 0..MaxCuenta], NEW S \in SUBSET Ajenos, Suben(S)
  PROVE  sem' \in [Semaforos -> 0..MaxCuenta] /\ SemIgual
<1>1. S \in SUBSET Semaforos
  BY DEF Ajenos, Semaforos
<1>2. /\ sem' \in [Semaforos -> 0..MaxCuenta]
      /\ \A r \in Semaforos : sem'[r] = IF r \in S THEN sem[r] + 1 ELSE sem[r]
  BY <1>1, Subidos
<1> QED BY <1>2 DEF SemIgual, Ajenos, Semaforos, SEj, SDq, SVq, SRq

LEMMA MismoSem ==
  ASSUME sem' = sem
  PROVE  SemIgual
BY DEF SemIgual, SEj, SDq, SVq, SRq

\* While escucha attends to a request, the process of the dispatch waits in the CPU.
LEMMA EnAtencion ==
  ASSUME Inv, Esc \in Antes \cup Despues
  PROVE  /\ Ocupa /\ SinPedir /\ ~ PorQuantum /\ deQ \in Pids /\ exec = <<deQ>>
         /\ pedido.pid = deQ /\ Fase = "responde" /\ chCpu = <<Fin(deQ)>> /\ chDispatch = <<>>
         /\ SRq = 0 /\ SEj = 0 /\ Tem \notin RepQ
<1>1. Ocupa /\ Esc # "recibe"
  BY DEF Inv, Turno, PorDespachar, EnCamino, Escoge, PorQuantum, Antes, Despues, Rep
<1>2. ~ PorQuantum
  BY <1>1 DEF PorQuantum
<1> QED BY <1>1, <1>2, DeQEnPids DEF Inv, Ocupa, Turno

LEMMA SigueAtencion ==
  ASSUME Inv, Esc \in Antes \cup Despues, SEj' = SEj, SRq' = SRq, Tem' = Tem,
         UNCHANGED <<deCpu, conexiones, deQ>>, Esc' # "recibe" => pedido' = pedido, exec' = <<deQ>>,
         desaloja' = desaloja \/ desaloja', ~ desaloja' => SDq' = SDq,
         \/ Esc' \in Antes \cup Despues
         \/ Esc' = "recibe" /\ ~ desaloja'
  PROVE  Turno'
<1>1. /\ cpu' = cpu /\ interrupcion' = interrupcion /\ chCpu' = chCpu
      /\ chDispatch' = chDispatch /\ chInterrupt' = chInterrupt /\ deQ' = deQ
  BY DEF deCpu, conexiones
<1>2. SinPedir'
  BY <1>1, EnAtencion, CpuIgual DEF SinPedir
<1>3. Ocupa'
  BY <1>1, <1>2, EnAtencion, CpuIgual DEF Ocupa, Fin, Antes, Despues
<1> QED BY <1>3, EnAtencion DEF Turno

----------------------------------------------------------------------------
(* escucha.                                                                *)

LEMMA PideInstruccionInv ==
  ASSUME Inv, PideInstruccion
  PROVE  Inv'
<1>1. /\ pc.escucha = "recibe" /\ chCpu # <<>> /\ Head(chCpu).motivo \in Instrucciones
      /\ pedido' = Head(chCpu) /\ exec' = <<Head(chCpu).pid>> /\ chCpu' = Tail(chCpu)
      /\ IF fin THEN Va("escucha", "atiende") /\ sem' = sem
                ELSE Va("escucha", "avisa") /\ Sube("termino_la_instruccion")
      /\ fin' = fin /\ desaloja' = desaloja /\ deQ' = deQ /\ esperar' = esperar
      /\ replanifico' = replanifico
      /\ ready' = ready /\ readyM' = readyM /\ bloqueados' = bloqueados /\ duenio' = duenio
      /\ colaRec' = colaRec /\ terminados' = terminados
      /\ cpu' = cpu /\ interrupcion' = interrupcion /\ chDispatch' = chDispatch
      /\ chInterrupt' = chInterrupt
  BY DEF PideInstruccion, Llega, deCpu
<1>2. pc' \in Puntos /\ Esc' \in {"atiende", "avisa"} /\ Tem' = Tem
  BY <1>1, VaEscucha DEF Inv, Tipos, Antes
<1>3. sem' \in [Semaforos -> 0..MaxCuenta] /\ SemIgual
  BY <1>1, SubeAjeno, MismoSem DEF Inv, Tipos, Ajenos
<1>4. Esc = "recibe"
  BY <1>1 DEF Esc
<1>5. chCpu # <<Fin(deQ)>> /\ chCpu # <<Qu(deQ)>>
  BY <1>1, UnoSolo, DePaquete DEF Fin, Qu, Instrucciones
<1>6. Ocupa /\ ~ desaloja /\ ~ PorQuantum
  <2>1. ~ PorQuantum
    BY <1>1, <1>5 DEF PorQuantum, Detenida, Evicta, Devuelve, CpuLibre
  <2>2. Ocupa
    BY <1>1, <1>4, <2>1 DEF Inv, Turno, PorDespachar, EnCamino, Escoge, CpuSale, CpuLibre, QuantumAntes
  <2> QED BY <1>1, <1>5, <2>1, <2>2 DEF Ocupa
<1>7. PICK m \in Instrucciones : chCpu = <<Paquete(m, deQ), Fin(deQ)>>
  BY <1>1, <1>5, <1>6 DEF Ocupa
<1>8. pedido' = Paquete(m, deQ) /\ exec' = <<deQ>> /\ chCpu' = <<Fin(deQ)>>
  BY <1>1, <1>7, Dos, DePaquete
<1>9. deQ \in Pids /\ exec = <<deQ>> /\ pedido'.pid = deQ
  BY <1>6, <1>8, DeQEnPids, DePaquete DEF Inv, Ocupa
<1>10. Tipos'
  BY <1>1, <1>2, <1>3, <1>8, <1>9, CpuIgual
     DEF Inv, Tipos, Paquete, Motivos, Instrucciones
<1>11. Tiempo'
  BY <1>1, <1>2, <1>3, TiempoIgual DEF Inv, SemIgual
<1>12. Acuerdo'
  BY <1>1, <1>2, <1>3, <1>4, <1>6 DEF Inv, Acuerdo, SemIgual, Antes, Despues, Rep
<1>13. SinPedir /\ SinPedir'
  BY <1>1, <1>2, <1>6, CpuIgual DEF Ocupa, SinPedir
<1>14. Ocupa'
  <2>1. Fase = "responde" /\ chDispatch = <<>>
    BY <1>6, <1>7, UnoSolo, Dos DEF Ocupa
  <2>2. /\ SEj' = 0 /\ exec' = <<deQ'>> /\ Pid' = deQ' /\ Esc' \in Antes /\ pedido'.pid = deQ'
        /\ Tem' \in {"duerme", "decide", "enciende", "avisa", "desalojo"} /\ SDq' = 0
    BY <1>1, <1>2, <1>3, <1>6, <1>8, <1>9, CpuIgual DEF Ocupa, SemIgual, Antes
  <2>3. Fase' = "responde" /\ chCpu' = <<Fin(deQ)>>' /\ chDispatch' = <<>>
    BY <1>1, <1>8, <2>1, CpuIgual DEF Fin
  <2> QED BY <1>2, <1>13, <2>2, <2>3 DEF Ocupa
<1> QED BY <1>3, <1>6, <1>10, <1>11, <1>12, <1>14, <1>2 DEF Inv, Turno, SemIgual, PorQuantum

LEMMA AvisaEsperaInv ==
  ASSUME Inv, AvisaEspera
  PROVE  Inv'
<1>1. /\ Esc = "avisa" /\ Va("escucha", "pausa") /\ esperar' = TRUE /\ sem' = sem
      /\ fin' = fin /\ desaloja' = desaloja /\ replanifico' = replanifico /\ deQ' = deQ
      /\ pedido' = pedido /\ UNCHANGED <<colas, deCpu, conexiones>>
  BY DEF AvisaEspera, Esc
<1>2. pc' \in Puntos /\ Esc' = "pausa" /\ Tem' = Tem /\ SemIgual
  BY <1>1, VaEscucha, MismoSem DEF Inv, Tipos, Antes
<1>3. Tipos'
  BY <1>1, <1>2, CpuIgual DEF Inv, Tipos, colas, deCpu
<1>4. Tiempo'
  BY <1>1, <1>2, TiempoIgual DEF Inv, SemIgual
<1>5. Acuerdo'
  BY <1>1, <1>2 DEF Inv, Acuerdo, SemIgual, Antes, Despues, Rep
<1>6. Turno'
  BY <1>1, <1>2, EnAtencion, SigueAtencion DEF SemIgual, Antes, colas
<1> QED BY <1>3, <1>4, <1>5, <1>6 DEF Inv

LEMMA TerminaPausaInv ==
  ASSUME Inv, TerminaPausa
  PROVE  Inv'
<1>1. /\ Esc = "pausa" /\ Baja("sem_pausa_conteo_quantum") /\ Va("escucha", "atiende")
      /\ esperar' = FALSE /\ exec' = <<pedido.pid>>
      /\ fin' = fin /\ desaloja' = desaloja /\ replanifico' = replanifico /\ deQ' = deQ
      /\ pedido' = pedido /\ ready' = ready /\ readyM' = readyM /\ bloqueados' = bloqueados
      /\ duenio' = duenio /\ colaRec' = colaRec /\ terminados' = terminados
      /\ UNCHANGED <<deCpu, conexiones>>
  BY DEF TerminaPausa, Esc
<1>2. pc' \in Puntos /\ Esc' = "atiende" /\ Tem' = Tem
  BY <1>1, VaEscucha DEF Inv, Tipos, Antes
<1>3. sem' \in [Semaforos -> 0..MaxCuenta] /\ SemIgual
  BY <1>1, SubeAjeno DEF Inv, Tipos, Ajenos
<1>4. exec' = <<deQ>> /\ deQ \in Pids
  BY <1>1, EnAtencion DEF Antes
<1>5. Tipos'
  BY <1>1, <1>2, <1>3, <1>4, CpuIgual DEF Inv, Tipos, deCpu
<1>6. Tiempo'
  BY <1>1, <1>2, <1>3, TiempoIgual DEF Inv, SemIgual
<1>7. Acuerdo'
  BY <1>1, <1>2, <1>3 DEF Inv, Acuerdo, SemIgual, Antes, Despues, Rep
<1>8. Turno'
  BY <1>1, <1>2, <1>3, <1>4, SigueAtencion DEF SemIgual, Antes
<1> QED BY <1>5, <1>6, <1>7, <1>8 DEF Inv

LEMMA AtiendeWaitInv ==
  ASSUME Inv, AtiendeWait
  PROVE  Inv'
<1>1. /\ Esc = "atiende" /\ Va("escucha", "recibe") /\ pedido' = [pedido EXCEPT !.pid = 0]
      /\ duenio' = pedido.pid
      /\ IF fin THEN sem' = sem ELSE Sube("sem_esperar_instruccion")
      /\ UNCHANGED <<fin, esperar, desaloja, replanifico, deQ, deCpu, conexiones>>
      /\ ready' = ready /\ readyM' = readyM /\ exec' = exec /\ bloqueados' = bloqueados
      /\ colaRec' = colaRec /\ terminados' = terminados
  BY DEF AtiendeWait, Esc, Atendido
<1>2. /\ fin' = fin /\ esperar' = esperar /\ desaloja' = desaloja /\ replanifico' = replanifico
      /\ deQ' = deQ /\ pedido' \in [motivo : Motivos, pid : Pids \cup {0}]
  BY <1>1 DEF Inv, Tipos
<1>3. pc' \in Puntos /\ Esc' = "recibe" /\ Tem' = Tem
  BY <1>1, VaEscucha DEF Inv, Tipos
<1>4. sem' \in [Semaforos -> 0..MaxCuenta] /\ SemIgual
  BY <1>1, SubeAjeno, MismoSem DEF Inv, Tipos, Ajenos
<1>5. Tipos'
  BY <1>1, <1>2, <1>3, <1>4, CpuIgual DEF Inv, Tipos, deCpu
<1>6. Tiempo'
  BY <1>2, <1>3, <1>4, TiempoIgual DEF Inv, SemIgual
<1>7. Acuerdo'
  BY <1>1, <1>2, <1>3, <1>4 DEF Inv, Acuerdo, SemIgual, Antes, Despues, Rep
<1>8. ~ desaloja /\ exec = <<deQ>>
  BY <1>1, EnAtencion DEF Inv, Acuerdo, Antes
<1>9. Turno'
  BY <1>1, <1>2, <1>3, <1>4, <1>8, SigueAtencion DEF SemIgual, Antes
<1> QED BY <1>5, <1>6, <1>7, <1>9 DEF Inv

LEMMA Iniciado ==
  ASSUME ready \in Seq(Pids), readyM \in Seq(Pids), NEW p \in Pids, Inicia(p)
  PROVE  ready' \in Seq(Pids) /\ readyM' \in Seq(Pids)
<1>1. Append(ready, p) \in Seq(Pids) /\ Append(readyM, p) \in Seq(Pids)
  OBVIOUS
<1> QED BY <1>1 DEF Inicia

\* Waking up a process that waits for the resource.
LEMMA Soltado ==
  ASSUME Tipos, SueltaRecurso
  PROVE  /\ sem' \in [Semaforos -> 0..MaxCuenta] /\ SemIgual /\ duenio' \in Pids \cup {0}
         /\ ready' \in Seq(Pids) /\ readyM' \in Seq(Pids) /\ colaRec' \in Seq(Pids)
<1>1. CASE colaRec = <<>>
  BY <1>1, MismoSem DEF SueltaRecurso, Tipos
<1>2. CASE colaRec # <<>>
  <2>1. Head(colaRec) \in Pids /\ Tail(colaRec) \in Seq(Pids)
    BY <1>2 DEF Tipos
  <2>2. /\ duenio' = Head(colaRec) /\ colaRec' = Tail(colaRec) /\ Inicia(Head(colaRec))
        /\ Suben({DeReady} \cup (IF fin THEN {} ELSE {"sem_esperar_instruccion"}))
    BY <1>2 DEF SueltaRecurso
  <2>3. ready' \in Seq(Pids) /\ readyM' \in Seq(Pids)
    BY <2>1, <2>2, Iniciado DEF Tipos
  <2>4. {DeReady} \cup (IF fin THEN {} ELSE {"sem_esperar_instruccion"}) \in SUBSET Ajenos
    BY DEF DeReady, Ajenos
  <2>5. sem' \in [Semaforos -> 0..MaxCuenta] /\ SemIgual
    BY <2>2, <2>4, SubenAjenos DEF Tipos
  <2> QED BY <2>1, <2>2, <2>3, <2>5
<1> QED BY <1>1, <1>2

LEMMA AtiendeSignalInv ==
  ASSUME Inv, AtiendeSignal
  PROVE  Inv'
<1>1. /\ Esc = "atiende" /\ Va("escucha", "recibe") /\ pedido' = [pedido EXCEPT !.pid = 0]
      /\ SueltaRecurso
      /\ UNCHANGED <<fin, esperar, desaloja, replanifico, deQ, deCpu, conexiones>>
      /\ exec' = exec /\ bloqueados' = bloqueados /\ terminados' = terminados
  BY DEF AtiendeSignal, Esc, Atendido
<1>2. /\ fin' = fin /\ esperar' = esperar /\ desaloja' = desaloja /\ replanifico' = replanifico
      /\ deQ' = deQ /\ pedido' \in [motivo : Motivos, pid : Pids \cup {0}]
  BY <1>1 DEF Inv, Tipos
<1>3. pc' \in Puntos /\ Esc' = "recibe" /\ Tem' = Tem
  BY <1>1, VaEscucha DEF Inv, Tipos
<1>4. /\ sem' \in [Semaforos -> 0..MaxCuenta] /\ SemIgual /\ duenio' \in Pids \cup {0}
      /\ ready' \in Seq(Pids) /\ readyM' \in Seq(Pids) /\ colaRec' \in Seq(Pids)
  BY <1>1, Soltado DEF Inv
<1>5. Tipos'
  BY <1>1, <1>2, <1>3, <1>4, CpuIgual DEF Inv, Tipos, deCpu
<1>6. Tiempo'
  BY <1>2, <1>3, <1>4, TiempoIgual DEF Inv, SemIgual
<1>7. Acuerdo'
  BY <1>1, <1>2, <1>3, <1>4 DEF Inv, Acuerdo, SemIgual, Antes, Despues, Rep
<1>8. ~ desaloja /\ exec = <<deQ>>
  BY <1>1, EnAtencion DEF Inv, Acuerdo, Antes
<1>9. Turno'
  BY <1>1, <1>2, <1>3, <1>4, <1>8, SigueAtencion DEF SemIgual, Antes
<1> QED BY <1>5, <1>6, <1>7, <1>9 DEF Inv

LEMMA AtiendeDesalojoInv ==
  ASSUME Inv, AtiendeDesalojo
  PROVE  Inv'
<1>1. /\ Esc = "atiende" /\ Va("escucha", "cede") /\ desaloja' = TRUE /\ sem' = sem
      /\ fin' = fin /\ esperar' = esperar /\ replanifico' = replanifico /\ deQ' = deQ
      /\ pedido' = pedido /\ UNCHANGED <<colas, deCpu, conexiones>>
  BY DEF AtiendeDesalojo, Esc
<1>2. pc' \in Puntos /\ Esc' = "cede" /\ Tem' = Tem /\ SemIgual
  BY <1>1, VaEscucha, MismoSem DEF Inv, Tipos, Despues
<1>3. /\ Ocupa /\ exec = <<deQ>> /\ SEj = 0 /\ ~ desaloja /\ Tem \notin RepQ
      /\ Tem \in {"duerme", "decide", "enciende", "avisa", "desalojo"} /\ SDq = 0
  BY <1>1, EnAtencion DEF Inv, Acuerdo, Antes, Ocupa
<1>4. Tipos'
  BY <1>1, <1>2, CpuIgual DEF Inv, Tipos, colas, deCpu
<1>5. Tiempo'
  BY <1>1, <1>2 DEF Inv, Tiempo
<1>7. Acuerdo'
  BY <1>1, <1>2, <1>3 DEF Inv, Acuerdo, SemIgual, Antes, Despues, Rep
<1>8. Turno'
  BY <1>1, <1>2, <1>3, SigueAtencion DEF SemIgual, Antes, Despues, colas
<1> QED BY <1>4, <1>5, <1>7, <1>8 DEF Inv

\* The semaphores of the agreement.
LEMMA SubeDq ==
  ASSUME sem \in [Semaforos -> 0..MaxCuenta], Sube("sem_desalojo_quantum")
  PROVE  /\ sem' \in [Semaforos -> 0..MaxCuenta]
         /\ SDq' = SDq + 1 /\ SEj' = SEj /\ SVq' = SVq /\ SRq' = SRq
<1>1. "sem_desalojo_quantum" \in Semaforos
  BY DEF Semaforos
<1> QED BY <1>1, Subido DEF Semaforos, SEj, SDq, SVq, SRq

LEMMA BajaVq ==
  ASSUME sem \in [Semaforos -> 0..MaxCuenta], Baja("sem_verificar_desalojo_quantum")
  PROVE  /\ sem' \in [Semaforos -> 0..MaxCuenta] /\ SVq > 0
         /\ SVq' = SVq - 1 /\ SEj' = SEj /\ SDq' = SDq /\ SRq' = SRq
<1>1. "sem_verificar_desalojo_quantum" \in Semaforos
  BY DEF Semaforos
<1> QED BY <1>1, Bajado DEF Semaforos, SEj, SDq, SVq, SRq

LEMMA CedeInv ==
  ASSUME Inv, Cede
  PROVE  Inv'
<1>1. /\ Esc = "cede" /\ UNCHANGED <<banderas, colas, deCpu, conexiones>>
      /\ IF fin THEN Sube("sem_desalojo_quantum") /\ Va("escucha", "verifica")
                ELSE Sube("sem_esperar_instruccion") /\ Va("escucha", "pausa2")
  BY DEF Cede, Esc
<1>2. /\ fin' = fin /\ esperar' = esperar /\ desaloja' = desaloja /\ replanifico' = replanifico
      /\ deQ' = deQ /\ pedido' = pedido
  BY <1>1 DEF banderas
<1>3. /\ pc' \in Puntos /\ Tem' = Tem
      /\ Esc' = IF fin THEN "verifica" ELSE "pausa2"
  BY <1>1, VaEscucha DEF Inv, Tipos, Despues
<1>4. /\ sem' \in [Semaforos -> 0..MaxCuenta] /\ SEj' = SEj /\ SVq' = SVq
      /\ SRq' = SRq /\ SDq' = IF fin THEN SDq + 1 ELSE SDq
  BY <1>1, SubeAjeno, SubeDq DEF Inv, Tipos, Ajenos, SemIgual
<1>5. /\ exec = <<deQ>> /\ desaloja /\ SDq = 0 /\ SVq = 0 /\ Tem # "cierra" /\ Tem \notin RepQ
  BY <1>1, EnAtencion DEF Inv, Acuerdo, Despues
<1>6. fin <=> Tem \in {"avisa", "desalojo"}
  BY <1>5 DEF Inv, Tiempo, EnFin
<1>7. Tipos'
  BY <1>1, <1>2, <1>3, <1>4, CpuIgual DEF Inv, Tipos, colas, deCpu
<1>8. Tiempo'
  BY <1>2, <1>3, TiempoIgual DEF Inv
<1>10. Acuerdo'
  BY <1>2, <1>3, <1>4, <1>5, <1>6 DEF Acuerdo, Antes, Despues, Rep
<1>11. Turno'
  BY <1>1, <1>2, <1>3, <1>4, <1>5, SigueAtencion DEF Despues, colas
<1> QED BY <1>7, <1>8, <1>10, <1>11 DEF Inv

LEMMA CedioInv ==
  ASSUME Inv, Cedio
  PROVE  Inv'
<1>1. /\ Esc \in {"verifica", "pausa2"} /\ UNCHANGED <<banderas, colas, deCpu, conexiones>>
      /\ Va("escucha", "bloquea")
      /\ \/ Esc = "verifica" /\ Baja("sem_verificar_desalojo_quantum")
         \/ Esc = "pausa2" /\ Baja("sem_pausa_conteo_quantum")
  BY DEF Cedio, Esc
<1>2. /\ fin' = fin /\ esperar' = esperar /\ desaloja' = desaloja /\ replanifico' = replanifico
      /\ deQ' = deQ /\ pedido' = pedido
  BY <1>1 DEF banderas
<1>3. pc' \in Puntos /\ Tem' = Tem /\ Esc' = "bloquea"
  BY <1>1, VaEscucha DEF Inv, Tipos, Despues
<1>4. /\ sem' \in [Semaforos -> 0..MaxCuenta] /\ SEj' = SEj /\ SDq' = SDq
      /\ SRq' = SRq
      /\ IF Esc = "verifica" THEN SVq > 0 /\ SVq' = SVq - 1 ELSE SVq' = SVq
  BY <1>1, SubeAjeno, BajaVq DEF Inv, Tipos, Ajenos, SemIgual
<1>5. exec = <<deQ>> /\ desaloja
  BY <1>1, EnAtencion DEF Inv, Acuerdo, Despues
<1>6. Tipos'
  BY <1>1, <1>2, <1>3, <1>4, CpuIgual DEF Inv, Tipos, colas, deCpu
<1>7. Tiempo'
  BY <1>2, <1>3, <1>4, TiempoIgual DEF Inv
<1>8. Acuerdo'
  BY <1>1, <1>2, <1>3, <1>4, <1>5 DEF Inv, Acuerdo, Antes, Despues, Rep
<1>9. Turno'
  BY <1>1, <1>2, <1>3, <1>4, <1>5, SigueAtencion DEF Despues, colas
<1> QED BY <1>6, <1>7, <1>8, <1>9 DEF Inv

LEMMA BloqueaIOInv ==
  ASSUME Inv, BloqueaIO
  PROVE  Inv'
<1>1. /\ Esc = "bloquea" /\ Va("escucha", "esperaPlani") /\ sem' = sem
      /\ bloqueados' = bloqueados \cup {pedido.pid}
      /\ UNCHANGED <<banderas, deCpu, conexiones>>
      /\ ready' = ready /\ readyM' = readyM /\ exec' = exec /\ duenio' = duenio
      /\ colaRec' = colaRec /\ terminados' = terminados
  BY DEF BloqueaIO, Esc
<1>2. /\ fin' = fin /\ esperar' = esperar /\ desaloja' = desaloja /\ replanifico' = replanifico
      /\ deQ' = deQ /\ pedido' = pedido
  BY <1>1 DEF banderas
<1>3. /\ pc' \in Puntos /\ Tem' = Tem /\ Esc' = "esperaPlani"
      /\ SemIgual
  BY <1>1, VaEscucha, MismoSem DEF Inv, Tipos, Despues
<1>4. exec = <<deQ>> /\ desaloja /\ pedido.pid \in Pids
  BY <1>1, EnAtencion DEF Inv, Acuerdo, Despues
<1>5. Tipos'
  BY <1>1, <1>2, <1>3, <1>4, CpuIgual DEF Inv, Tipos, deCpu
<1>6. Tiempo'
  BY <1>2, <1>3, TiempoIgual DEF Inv, SemIgual
<1>7. Acuerdo'
  BY <1>1, <1>2, <1>3, <1>4 DEF Inv, Acuerdo, Antes, Despues, Rep, SemIgual
<1>8. Turno'
  BY <1>1, <1>2, <1>3, <1>4, SigueAtencion DEF Despues, SemIgual
<1> QED BY <1>5, <1>6, <1>7, <1>8 DEF Inv

\* The request is sent to the CPU, escucha listens to it again.
LEMMA PideSalida ==
  ASSUME Inv, Esc \in Despues, NEW m \in Salidas,
         chInterrupt' = Append(chInterrupt, Paquete(m, pedido.pid)), Esc' = "recibe",
         SEj' = SEj, SRq' = SRq, SDq' = SDq, Tem' = Tem, UNCHANGED <<desaloja, deQ, deCpu, exec>>,
         chCpu' = chCpu, chDispatch' = chDispatch
  PROVE  Turno'
<1>1. deQ' = deQ /\ desaloja' = desaloja /\ cpu' = cpu /\ interrupcion' = interrupcion
  BY DEF deCpu
<1>2. desaloja
  BY DEF Inv, Acuerdo
<1>3. /\ Ocupa /\ SinPedir /\ pedido.pid = deQ /\ Fase = "responde" /\ chCpu = <<Fin(deQ)>>
      /\ chDispatch = <<>> /\ SRq = 0 /\ Tem \notin RepQ
  BY EnAtencion
<1>4. Pedida'
  <2>1. CASE chInterrupt = <<>>
    <3>1. chInterrupt' = <<Paquete(m, deQ)>>
      BY <1>3, <2>1, UnoSolo
    <3> QED BY <1>1, <3>1 DEF Pedida
  <2>2. CASE chInterrupt = <<Qu(deQ)>>
    <3>1. chInterrupt' = <<Qu(deQ), Paquete(m, deQ)>>
      BY <1>3, <2>2, Dos
    <3> QED BY <1>1, <3>1 DEF Pedida, Qu
  <2> QED BY <1>3, <2>1, <2>2 DEF SinPedir
<1>5. Ocupa'
  BY <1>1, <1>2, <1>3, <1>4, CpuIgual DEF Ocupa, Fin
<1> QED BY <1>3, <1>5 DEF Turno

LEMMA AcuerdoSalida ==
  ASSUME Acuerdo, Esc \in {"bloquea", "esperaPlani"}, Esc' = "recibe", SVq' = SVq, SDq' = SDq,
         Tem' = Tem, desaloja' = desaloja
  PROVE  Acuerdo'
BY DEF Acuerdo, Antes, Despues, Rep

LEMMA EnviaIOInv ==
  ASSUME Inv, EnviaIO
  PROVE  Inv'
<1>1. /\ Esc = "esperaPlani" /\ Va("escucha", "recibe") /\ pedido' = [pedido EXCEPT !.pid = 0]
      /\ sem' = sem
      /\ chInterrupt' = Append(chInterrupt, Paquete("IO", pedido.pid))
      /\ UNCHANGED <<fin, esperar, desaloja, replanifico, deQ, colas, deCpu>> /\ chCpu' = chCpu /\ chDispatch' = chDispatch
  BY DEF EnviaIO, Interrumpe, Esc, Atendido
<1>2. /\ fin' = fin /\ esperar' = esperar /\ desaloja' = desaloja /\ replanifico' = replanifico
      /\ deQ' = deQ /\ pedido' \in [motivo : Motivos, pid : Pids \cup {0}]
  BY <1>1 DEF Inv, Tipos
<1>3. /\ pc' \in Puntos /\ Tem' = Tem /\ Esc' = "recibe"
      /\ SemIgual
  BY <1>1, VaEscucha, MismoSem DEF Inv, Tipos
<1>4. Tipos'
  BY <1>1, <1>2, <1>3, CpuIgual DEF Inv, Tipos, deCpu, colas
<1>5. Tiempo' /\ Acuerdo'
  BY <1>1, <1>2, <1>3, TiempoIgual, AcuerdoSalida DEF Inv, SemIgual
<1>6. Turno'
  BY <1>1, <1>3, PideSalida DEF Despues, Salidas, SemIgual, colas
<1> QED BY <1>4, <1>5, <1>6 DEF Inv

LEMMA BloqueaWaitInv ==
  ASSUME Inv, BloqueaWait
  PROVE  Inv'
<1>1. /\ Esc = "bloquea" /\ Va("escucha", "recibe") /\ pedido' = [pedido EXCEPT !.pid = 0]
      /\ sem' = sem
      /\ colaRec' = Append(colaRec, pedido.pid)
      /\ chInterrupt' = Append(chInterrupt, Paquete("WAIT", pedido.pid))
      /\ UNCHANGED <<fin, esperar, desaloja, replanifico, deQ, deCpu>> /\ chCpu' = chCpu /\ chDispatch' = chDispatch
      /\ ready' = ready /\ readyM' = readyM /\ exec' = exec /\ bloqueados' = bloqueados
      /\ duenio' = duenio /\ terminados' = terminados
  BY DEF BloqueaWait, Interrumpe, Esc, Atendido
<1>2. /\ fin' = fin /\ esperar' = esperar /\ desaloja' = desaloja /\ replanifico' = replanifico
      /\ deQ' = deQ /\ pedido' \in [motivo : Motivos, pid : Pids \cup {0}]
  BY <1>1 DEF Inv, Tipos
<1>3. /\ pc' \in Puntos /\ Tem' = Tem /\ Esc' = "recibe"
      /\ SemIgual
  BY <1>1, VaEscucha, MismoSem DEF Inv, Tipos
<1>4. pedido.pid \in Pids
  BY <1>1, EnAtencion DEF Despues
<1>5. colaRec' \in Seq(Pids)
  BY <1>1, <1>4 DEF Inv, Tipos
<1>6. Tipos'
  BY <1>1, <1>2, <1>3, <1>5, CpuIgual DEF Inv, Tipos, deCpu
<1>7. Tiempo' /\ Acuerdo'
  BY <1>1, <1>2, <1>3, TiempoIgual, AcuerdoSalida DEF Inv, SemIgual
<1>8. Turno'
  BY <1>1, <1>3, PideSalida DEF Despues, Salidas, SemIgual
<1> QED BY <1>6, <1>7, <1>8 DEF Inv

LEMMA SaleInv ==
  ASSUME Inv, Sale
  PROVE  Inv'
<1>1. /\ Esc = "bloquea" /\ Va("escucha", "recibe") /\ pedido' = [pedido EXCEPT !.pid = 0]
     
      /\ IF duenio = pedido.pid
           THEN SueltaRecurso
           ELSE UNCHANGED <<sem, ready, readyM, duenio, colaRec>>
      /\ terminados' = terminados \cup {pedido.pid}
      /\ chInterrupt' = Append(chInterrupt, Paquete("EXIT", pedido.pid))
      /\ UNCHANGED <<fin, esperar, desaloja, replanifico, deQ, deCpu>> /\ chCpu' = chCpu /\ chDispatch' = chDispatch
      /\ exec' = exec /\ bloqueados' = bloqueados
  BY DEF Sale, Interrumpe, Esc, Atendido
<1>2. /\ fin' = fin /\ esperar' = esperar /\ desaloja' = desaloja /\ replanifico' = replanifico
      /\ deQ' = deQ /\ pedido' \in [motivo : Motivos, pid : Pids \cup {0}]
  BY <1>1 DEF Inv, Tipos
<1>3. pc' \in Puntos /\ Tem' = Tem /\ Esc' = "recibe"
  BY <1>1, VaEscucha DEF Inv, Tipos
<1>4. /\ sem' \in [Semaforos -> 0..MaxCuenta] /\ SemIgual /\ duenio' \in Pids \cup {0}
      /\ ready' \in Seq(Pids) /\ readyM' \in Seq(Pids) /\ colaRec' \in Seq(Pids)
  BY <1>1, Soltado, MismoSem DEF Inv, Tipos
<1>5. pedido.pid \in Pids
  BY <1>1, EnAtencion DEF Despues
<1>6. Tipos'
  BY <1>1, <1>2, <1>3, <1>4, <1>5, CpuIgual DEF Inv, Tipos, deCpu
<1>7. Tiempo' /\ Acuerdo'
  BY <1>1, <1>2, <1>3, <1>4, TiempoIgual, AcuerdoSalida DEF Inv, SemIgual
<1>8. Turno'
  BY <1>1, <1>3, <1>4, PideSalida DEF Despues, Salidas, SemIgual
<1> QED BY <1>6, <1>7, <1>8 DEF Inv

\* The end of an instruction.
LEMMA TerminaInstruccion ==
  ASSUME Inv, Llega({"FIN"})
  PROVE  /\ Ocupa /\ Esc = "recibe" /\ chCpu = <<Fin(deQ)>> /\ chDispatch = <<>>
         /\ Fase = "responde" /\ ~ PorQuantum /\ SRq = 0 /\ Tem \notin RepQ
<1>1. Esc = "recibe" /\ chCpu # <<>> /\ Head(chCpu).motivo = "FIN"
  BY DEF Llega, Esc
<1>2. ~ PorQuantum
  BY <1>1, UnoSolo, DePaquete DEF PorQuantum, Detenida, Evicta, Devuelve, CpuLibre, Qu
<1>3. Ocupa
  BY <1>1, <1>2 DEF Inv, Turno, PorDespachar, EnCamino, Escoge, CpuSale, CpuLibre,
                    QuantumAntes
<1>4. \A m \in Instrucciones : chCpu # <<Paquete(m, deQ), Fin(deQ)>>
  BY <1>1, Dos, DePaquete DEF Instrucciones
<1> QED BY <1>1, <1>2, <1>3, <1>4 DEF Ocupa, Inv, Turno

LEMMA FinPorQuantumInv ==
  ASSUME Inv, FinPorQuantum
  PROVE  Inv'
<1>1. /\ Llega({"FIN"}) /\ fin /\ ~ desaloja /\ chCpu' = Tail(chCpu)
      /\ chInterrupt' = Append(chInterrupt, Para) /\ Sube("sem_desalojo_quantum")
      /\ UNCHANGED <<pc, banderas, colas, deCpu>> /\ chDispatch' = chDispatch
  BY DEF FinPorQuantum, Para
<1>2. /\ fin' = fin /\ esperar' = esperar /\ desaloja' = desaloja /\ replanifico' = replanifico
      /\ deQ' = deQ /\ pedido' = pedido /\ exec' = exec /\ pc' = pc /\ cpu' = cpu
      /\ interrupcion' = interrupcion
  BY <1>1 DEF banderas, colas, deCpu
<1>3. Tem' = Tem /\ Esc' = Esc
  BY <1>2, PcIgual
<1>4. /\ sem' \in [Semaforos -> 0..MaxCuenta]
      /\ SDq' = SDq + 1 /\ SEj' = SEj /\ SVq' = SVq /\ SRq' = SRq
  BY <1>1, SubeDq DEF Inv, Tipos
<1>5. /\ Ocupa /\ Esc = "recibe" /\ chCpu = <<Fin(deQ)>> /\ chDispatch = <<>>
      /\ Fase = "responde" /\ SRq = 0 /\ SDq = 0 /\ SEj = 0 /\ SinPedir
  BY <1>1, TerminaInstruccion DEF Ocupa
<1>6. Tem \in {"avisa", "desalojo"}
  BY <1>1, <1>5 DEF Inv, Tiempo, EnFin, RepQ, Rep, Ocupa
<1>7. Tipos'
  BY <1>1, <1>2, <1>4, CpuIgual DEF Inv, Tipos, colas
<1>8. Tiempo'
  BY <1>2, <1>3, TiempoIgual DEF Inv
<1>10. Acuerdo'
  BY <1>1, <1>2, <1>3, <1>4, <1>5, <1>6 DEF Inv, Acuerdo, Antes, Despues, Rep
<1>11. chCpu' = <<>>
  BY <1>1, <1>5, UnoSolo
<1>12. Pid = deQ /\ exec = <<deQ>>
  BY <1>5 DEF Ocupa
<1>13. Tem = "avisa" => Detenida'
  <2>1. Tem = "avisa" => chInterrupt = <<>> /\ ~ Llego
    BY <1>5 DEF SinPedir
  <2>2. chInterrupt = <<>> => chInterrupt' = <<Para>>
    BY <1>1, UnoSolo
  <2> QED BY <1>2, <1>5, <1>11, <1>12, <2>1, <2>2, CpuIgual DEF Detenida, Para
<1>14. Tem = "desalojo" => Evicta'
  <2>1. CASE chInterrupt = <<>>
    <3>1. chInterrupt' = <<Para>>
      BY <1>1, <2>1, UnoSolo
    <3>2. Tem = "desalojo" => IntDe("QUANTUM", deQ)
      BY <1>5, <2>1, UnoSolo DEF SinPedir, IntDe
    <3> QED BY <1>2, <1>5, <1>11, <1>12, <3>1, <3>2, CpuIgual DEF Evicta, IntDe, Para
  <2>2. CASE chInterrupt = <<Qu(deQ)>>
    <3>1. chInterrupt' = <<Qu(deQ), Para>>
      BY <1>1, <2>2, Dos
    <3>2. ~ Llego
      BY <1>5, <2>2, UnoSolo DEF SinPedir
    <3> QED BY <1>2, <1>5, <1>11, <1>12, <3>1, <3>2, CpuIgual DEF Evicta, Para, Qu
  <2> QED BY <1>5, <2>1, <2>2 DEF SinPedir
<1>15. PorQuantum'
  BY <1>1, <1>2, <1>3, <1>4, <1>5, <1>6, <1>12, <1>13, <1>14 DEF PorQuantum
<1> QED BY <1>7, <1>8, <1>10, <1>15 DEF Inv, Turno

LEMMA FinDesalojaInv ==
  ASSUME Inv, FinDesaloja
  PROVE  Inv'
<1>1. /\ Llega({"FIN"}) /\ desaloja /\ chCpu' = Tail(chCpu)
      /\ chInterrupt' = Append(chInterrupt, Para) /\ Va("escucha", "replanifica")
      /\ sem' = sem /\ UNCHANGED <<banderas, colas, deCpu>> /\ chDispatch' = chDispatch
  BY DEF FinDesaloja, Para
<1>2. /\ fin' = fin /\ esperar' = esperar /\ desaloja' = desaloja /\ replanifico' = replanifico
      /\ deQ' = deQ /\ pedido' = pedido /\ cpu' = cpu /\ interrupcion' = interrupcion
  BY <1>1 DEF banderas, deCpu
<1>3. /\ pc' \in Puntos /\ Tem' = Tem /\ Esc' = "replanifica"
      /\ SemIgual
  BY <1>1, VaEscucha, MismoSem DEF Inv, Tipos, Rep
<1>4. /\ Ocupa /\ Esc = "recibe" /\ chCpu = <<Fin(deQ)>> /\ chDispatch = <<>>
      /\ Fase = "responde" /\ SRq = 0 /\ Tem \notin RepQ /\ Pedida /\ Pid = deQ /\ SEj = 0
  BY <1>1, TerminaInstruccion DEF Ocupa
<1>5. Tipos'
  BY <1>1, <1>2, <1>3, CpuIgual DEF Inv, Tipos, colas
<1>6. Tiempo'
  BY <1>2, <1>3, TiempoIgual DEF Inv, SemIgual
<1>7. Acuerdo'
  BY <1>1, <1>2, <1>3, <1>4 DEF Inv, Acuerdo, Antes, Despues, Rep, SemIgual
<1>8. chCpu' = <<>>
  BY <1>1, <1>4, UnoSolo
<1>9. CpuSale'
  <2>1. PICK m \in Salidas : \/ chInterrupt = <<Paquete(m, Pid)>>
                          \/ chInterrupt = <<Qu(Pid), Paquete(m, Pid)>>
                          \/ (chInterrupt = <<>> /\ IntDe(m, Pid))
    BY <1>4 DEF Pedida
  <2>2. CASE chInterrupt = <<Paquete(m, Pid)>>
    <3>1. chInterrupt' = <<Paquete(m, Pid), Para>>
      BY <1>1, <2>2, Dos
    <3> QED BY <1>2, <1>4, <1>8, <3>1, CpuIgual DEF CpuSale, Para
  <2>3. CASE chInterrupt = <<Qu(Pid), Paquete(m, Pid)>>
    <3>1. Append(<<Qu(Pid), Paquete(m, Pid)>>, Para) = <<Qu(Pid), Paquete(m, Pid), Para>>
      BY Tercero
    <3>2. chInterrupt' = <<Qu(Pid), Paquete(m, Pid), Para>>
      BY <1>1, <2>3, <3>1
    <3> QED BY <1>2, <1>4, <1>8, <3>2, CpuIgual DEF CpuSale, Para, Qu
  <2>4. CASE chInterrupt = <<>> /\ IntDe(m, Pid)
    <3>1. chInterrupt' = <<Para>>
      BY <1>1, <2>4, UnoSolo
    <3> QED BY <1>2, <1>4, <1>8, <2>4, <3>1, CpuIgual DEF CpuSale, Para, IntDe
  <2> QED BY <2>1, <2>2, <2>3, <2>4
<1>10. Turno'
  BY <1>1, <1>3, <1>4, <1>9 DEF Turno, Escoge, Rep, SemIgual
<1> QED BY <1>5, <1>6, <1>7, <1>10 DEF Inv

LEMMA FinContinuaInv ==
  ASSUME Inv, FinContinua
  PROVE  Inv'
<1>1. /\ Llega({"FIN"}) /\ ~ fin /\ ~ desaloja /\ chCpu' = Tail(chCpu)
      /\ chDispatch' = Append(chDispatch, Paquete("CONTINUA", 0))
      /\ sem' = sem /\ UNCHANGED <<pc, banderas, colas, deCpu>> /\ chInterrupt' = chInterrupt
  BY DEF FinContinua
<1>2. /\ Ocupa /\ Esc = "recibe" /\ chCpu = <<Fin(deQ)>> /\ chDispatch = <<>>
      /\ Fase = "responde" /\ SRq = 0 /\ Tem \notin RepQ /\ SinPedir
  BY <1>1, TerminaInstruccion DEF Ocupa
<1>3. cpu' = cpu /\ interrupcion' = interrupcion
  BY <1>1 DEF deCpu
<1>4. chCpu' = <<>> /\ chDispatch' = <<Paquete("CONTINUA", 0)>>
  BY <1>1, <1>2, UnoSolo
<1>5. Tipos'
  BY <1>1, <1>3, TiposDeCpu, CpuIgual DEF Inv, Tipos
<1>6. SinPedir'
  BY <1>1, <1>2, <1>3, CpuIgual, KernelIgual DEF SinPedir
<1>7. Ocupa'
  BY <1>1, <1>2, <1>3, <1>4, <1>6, CpuIgual, KernelIgual DEF Ocupa
<1> QED BY <1>1, <1>2, <1>5, <1>7, KernelIgual DEF Inv, Turno

LEMMA ContextoDevuelto ==
  ASSUME Inv, Llega({"QUANTUM"})
  PROVE  /\ Esc = "recibe" /\ PorQuantum /\ Devuelve /\ SRq = 0
         /\ Tem \in {"desalojo", "replanifica", "contexto"} /\ ~ desaloja
         /\ exec = <<deQ>> /\ deQ \in Pids /\ Head(chCpu).pid = deQ /\ Tail(chCpu) = <<>>
<1>1. Esc = "recibe" /\ chCpu # <<>> /\ Head(chCpu).motivo = "QUANTUM"
  BY DEF Llega, Esc
<1>2. chCpu # <<Fin(deQ)>> /\ \A m \in Instrucciones : chCpu # <<Paquete(m, deQ), Fin(deQ)>>
  BY <1>1, UnoSolo, Dos, DePaquete DEF Instrucciones, Fin
<1>3. /\ PorQuantum /\ Devuelve /\ SRq = 0 /\ Tem \in {"desalojo", "replanifica", "contexto"}
  BY <1>1, <1>2 DEF Inv, Turno, PorDespachar, EnCamino, Escoge, Ocupa, CpuSale, CpuLibre,
                    PorQuantum, Detenida, Evicta, QuantumAntes
<1>4. exec = <<deQ>> /\ ~ desaloja /\ chCpu = <<Qu(deQ)>>
  BY <1>3 DEF PorQuantum, Devuelve
<1> QED BY <1>1, <1>3, <1>4, DeQEnPids, UnoSolo, DePaquete DEF Qu, Inv

LEMMA LlegaContextoInv ==
  ASSUME Inv, LlegaContexto
  PROVE  Inv'
<1>1. /\ Esc = "recibe" /\ chCpu # <<>> /\ Head(chCpu).motivo = "QUANTUM"
      /\ chCpu' = Tail(chCpu)
      /\ ready' = Append(ready, Head(chCpu).pid) /\ exec' = <<Head(chCpu).pid>>
      /\ Suben({"sem_replanificacion_quantum", "sem_procesos_en_ready"})
      /\ pc' = pc /\ UNCHANGED banderas /\ readyM' = readyM /\ bloqueados' = bloqueados
      /\ duenio' = duenio /\ colaRec' = colaRec /\ terminados' = terminados
      /\ cpu' = cpu /\ interrupcion' = interrupcion /\ chDispatch' = chDispatch
      /\ chInterrupt' = chInterrupt
  BY DEF LlegaContexto, Llega, Esc, deCpu
<1>2. /\ fin' = fin /\ esperar' = esperar /\ desaloja' = desaloja /\ replanifico' = replanifico
      /\ deQ' = deQ /\ pedido' = pedido
  BY <1>1 DEF banderas
<1>3. Tem' = Tem /\ Esc' = Esc
  BY <1>1, PcIgual
<1>4. /\ sem' \in [Semaforos -> 0..MaxCuenta]
      /\ SRq' = SRq + 1 /\ SEj' = SEj /\ SDq' = SDq /\ SVq' = SVq
  <2>1. {"sem_replanificacion_quantum", "sem_procesos_en_ready"} \in SUBSET Semaforos
    BY DEF Semaforos
  <2> QED BY <1>1, <2>1, Subidos DEF Inv, Tipos, Semaforos, SEj, SDq, SVq, SRq
<1>5. Llega({"QUANTUM"})
  BY DEF LlegaContexto
<1>6. /\ PorQuantum /\ Devuelve /\ SRq = 0 /\ Tem \in {"desalojo", "replanifica", "contexto"}
  BY <1>5, ContextoDevuelto
<1>7. exec = <<deQ>> /\ deQ \in Pids /\ exec' = <<deQ>> /\ chCpu' = <<>>
      /\ ready' = Append(ready, deQ)
  BY <1>1, <1>5, ContextoDevuelto
<1>8. ready' \in Seq(Pids)
  BY <1>7 DEF Inv, Tipos
<1>9. Tipos'
  BY <1>1, <1>2, <1>4, <1>7, <1>8, CpuIgual DEF Inv, Tipos
<1>10. Tiempo' /\ Acuerdo'
  BY <1>2, <1>3, <1>4, TiempoIgual, AcuerdoIgual DEF Inv
<1>11. CpuLibre'
  BY <1>1, <1>6, <1>7, CpuIgual DEF Devuelve, CpuLibre
<1>12. PorQuantum'
  BY <1>1, <1>2, <1>3, <1>4, <1>6, <1>7, <1>11 DEF PorQuantum
<1> QED BY <1>9, <1>10, <1>12 DEF Inv, Turno

----------------------------------------------------------------------------
(* replanificar.                                                           *)

LEMMA TurnoIgual ==
  ASSUME Turno, SEj' = SEj, SRq' = SRq, SDq' = SDq, Esc' = Esc, Tem' = Tem,
         desaloja' = desaloja, deQ' = deQ, exec' = exec, pedido' = pedido,
         UNCHANGED <<deCpu, conexiones>>
  PROVE  Turno'
<1>1. /\ cpu' = cpu /\ interrupcion' = interrupcion /\ chCpu' = chCpu
      /\ chDispatch' = chDispatch /\ chInterrupt' = chInterrupt
  BY DEF deCpu, conexiones
<1>2. /\ CpuSale' <=> CpuSale
      /\ CpuLibre' <=> CpuLibre
      /\ SinPedir' <=> SinPedir
      /\ Pedida' <=> Pedida
      /\ Detenida' <=> Detenida
      /\ Evicta' <=> Evicta
      /\ Devuelve' <=> Devuelve
      /\ QuantumAntes' <=> QuantumAntes
  BY <1>1, CpuIgual DEF CpuSale, CpuLibre, SinPedir, Pedida, Detenida, Evicta, Devuelve,
                        QuantumAntes, IntDe, Para, Qu
<1>3. /\ PorDespachar' <=> PorDespachar
      /\ EnCamino' <=> EnCamino
      /\ Escoge' <=> Escoge
      /\ PorQuantum' <=> PorQuantum
  BY <1>1, <1>2 DEF PorDespachar, EnCamino, Escoge, PorQuantum
<1>4. Ocupa => Ocupa'
  BY <1>1, <1>2, CpuIgual DEF Ocupa, Fin
<1> QED BY <1>3, <1>4 DEF Turno

LEMMA EnEleccion ==
  ASSUME Inv, Esc \in Rep
  PROVE  /\ Escoge /\ ~ PorQuantum /\ SRq = 0 /\ Tem \notin RepQ /\ desaloja
         /\ Tem \notin {"avisa", "desalojo"}
<1>1. Escoge
  BY DEF Inv, Turno, PorDespachar, EnCamino, Ocupa, PorQuantum, Antes, Despues, Rep
<1>2. ~ PorQuantum
  BY DEF PorQuantum, Rep
<1> QED BY <1>1, <1>2 DEF Inv, Turno, Acuerdo, Rep

LEMMA EnRelevo ==
  ASSUME Inv, Tem \in RepQ
  PROVE  PorQuantum /\ SDq = 0 /\ fin
BY DEF Inv, Turno, Acuerdo, Tiempo, EnFin, RepQ, Rep

\* Steps of replanificar before a process is chosen.
LEMMA SigueEleccion ==
  ASSUME Inv, Esc \in Rep, Esc' \in Rep, pc' \in Puntos, Tem' = Tem,
         sem' \in [Semaforos -> 0..MaxCuenta], SemIgual,
         UNCHANGED <<banderas, colas, deCpu, conexiones>>
  PROVE  Inv'
<1>1. /\ fin' = fin /\ esperar' = esperar /\ desaloja' = desaloja /\ replanifico' = replanifico
      /\ deQ' = deQ /\ pedido' = pedido /\ cpu' = cpu /\ interrupcion' = interrupcion
      /\ chCpu' = chCpu /\ chDispatch' = chDispatch /\ chInterrupt' = chInterrupt
  BY DEF banderas, deCpu, conexiones
<1>2. Tipos'
  BY <1>1, CpuIgual DEF Inv, Tipos, colas
<1>3. Tiempo'
  BY <1>1, TiempoIgual DEF Inv, SemIgual
<1>4. Acuerdo'
  BY <1>1, EnEleccion DEF Inv, Acuerdo, Antes, Despues, Rep, SemIgual
<1>5. Escoge'
  BY <1>1, EnEleccion, CambioIgual DEF Escoge, SemIgual
<1> QED BY <1>2, <1>3, <1>4, <1>5, EnEleccion DEF Inv, Turno, SemIgual

LEMMA SigueRelevo ==
  ASSUME Inv, Tem \in RepQ, Tem' \in RepQ, pc' \in Puntos, Esc' = Esc,
         sem' \in [Semaforos -> 0..MaxCuenta],
         SEj' = SEj, SDq' = SDq, SVq' = SVq,
         \/ SRq' = SRq /\ Tem \in {"replanifica", "contexto"}
                       /\ Tem' \in {"replanifica", "contexto"}
         \/ SRq' = 0 /\ CpuLibre /\ Tem' \in {"mira", "elige", "eligeM"},
         UNCHANGED <<banderas, colas, deCpu, conexiones>>
  PROVE  Inv'
<1>1. /\ fin' = fin /\ esperar' = esperar /\ desaloja' = desaloja /\ replanifico' = replanifico
      /\ deQ' = deQ /\ pedido' = pedido /\ cpu' = cpu /\ interrupcion' = interrupcion
      /\ chCpu' = chCpu /\ chDispatch' = chDispatch /\ chInterrupt' = chInterrupt
      /\ exec' = exec
  BY DEF banderas, deCpu, conexiones, colas
<1>2. Tipos'
  BY <1>1, CpuIgual DEF Inv, Tipos, colas
<1>3. Tem \in EnFin /\ Tem' \in EnFin
  BY DEF EnFin
<1>4. Tiempo'
  BY <1>1, <1>3 DEF Inv, Tiempo, EnFin, RepQ, Rep
<1>6. Acuerdo'
  BY <1>1, EnRelevo DEF Inv, Acuerdo, Antes, Despues, RepQ, Rep, PorQuantum
<1>7. /\ CpuLibre => CpuLibre'
      /\ Evicta => Evicta'
      /\ Devuelve => Devuelve'
  BY <1>1, CpuIgual DEF CpuLibre, Evicta, Devuelve, IntDe, Para, Qu
<1>8. PorQuantum'
  BY <1>1, <1>7, EnRelevo DEF PorQuantum
<1> QED BY <1>2, <1>4, <1>6, <1>8 DEF Inv, Turno

LEMMA ReplanificaEscuchaInv ==
  ASSUME Inv, Replanifica("escucha")
  PROVE  Inv'
<1>1. /\ Esc = "replanifica" /\ Baja("sem_planificacion") /\ Va("escucha", "mira")
      /\ UNCHANGED <<banderas, colas, deCpu, conexiones>>
  BY DEF Replanifica, Esc
<1>2. pc' \in Puntos /\ Tem' = Tem /\ Esc' = "mira"
  BY <1>1, VaEscucha DEF Inv, Tipos, Rep
<1>3. sem' \in [Semaforos -> 0..MaxCuenta] /\ SemIgual
  BY <1>1, SubeAjeno DEF Inv, Tipos, Ajenos
<1> QED BY <1>1, <1>2, <1>3, SigueEleccion DEF Rep

LEMMA ReplanificaTemporizadorInv ==
  ASSUME Inv, Replanifica("q")
  PROVE  Inv'
<1>1. /\ Tem = "replanifica" /\ Baja("sem_planificacion") /\ Va("q", "contexto")
      /\ UNCHANGED <<banderas, colas, deCpu, conexiones>>
  BY DEF Replanifica, Tem
<1>2. pc' \in Puntos /\ Tem' = "contexto" /\ Esc' = Esc
  BY <1>1, VaTemporizador DEF Inv, Tipos, EnFin, RepQ
<1>3. sem' \in [Semaforos -> 0..MaxCuenta] /\ SemIgual
  BY <1>1, SubeAjeno DEF Inv, Tipos, Ajenos
<1> QED BY <1>1, <1>2, <1>3, SigueRelevo DEF Rep, RepQ, SemIgual

LEMMA EsperaContextoInv ==
  ASSUME Inv, EsperaContexto
  PROVE  Inv'
<1>1. /\ Tem = "contexto" /\ Baja("sem_replanificacion_quantum") /\ Va("q", "mira")
      /\ UNCHANGED <<banderas, colas, deCpu, conexiones>>
  BY DEF EsperaContexto, Tem
<1>2. pc' \in Puntos /\ Tem' = "mira" /\ Esc' = Esc
  BY <1>1, VaTemporizador DEF Inv, Tipos, EnFin, RepQ, Rep
<1>3. /\ sem' \in [Semaforos -> 0..MaxCuenta] /\ SRq > 0 /\ SRq' = SRq - 1
      /\ SEj' = SEj /\ SDq' = SDq /\ SVq' = SVq
  <2>1. "sem_replanificacion_quantum" \in Semaforos
    BY DEF Semaforos
  <2> QED BY <1>1, <2>1, Bajado DEF Inv, Tipos, Semaforos, SEj, SDq, SVq, SRq
<1>4. CpuLibre /\ SRq = 1
  BY <1>1, <1>3, EnRelevo DEF PorQuantum, RepQ
<1> QED BY <1>1, <1>2, <1>3, <1>4, SigueRelevo DEF Rep, RepQ

LEMMA MiraEscuchaInv ==
  ASSUME Inv, Mira("escucha")
  PROVE  Inv'
<1>1. /\ Esc = "mira" /\ sem' = sem /\ UNCHANGED <<banderas, colas, deCpu, conexiones>>
      /\ \E l \in {"elige", "eligeM"} : Va("escucha", l)
  BY DEF Mira, Esc
<1>2. pc' \in Puntos /\ Tem' = Tem /\ Esc' \in Rep
  BY <1>1, VaEscucha DEF Inv, Tipos, Rep
<1> QED BY <1>1, <1>2, MismoSem, SigueEleccion DEF Rep, Inv, Tipos

LEMMA MiraTemporizadorInv ==
  ASSUME Inv, Mira("q")
  PROVE  Inv'
<1>1. /\ Tem = "mira" /\ sem' = sem /\ UNCHANGED <<banderas, colas, deCpu, conexiones>>
      /\ \E l \in {"elige", "eligeM"} : Va("q", l)
  BY DEF Mira, Tem
<1>2. /\ pc' \in Puntos /\ Esc' = Esc
      /\ Tem' \in {"elige", "eligeM"}
  BY <1>1, VaTemporizador DEF Inv, Tipos, Rep, RepQ, EnFin
<1>3. CpuLibre /\ SRq = 0
  BY <1>1, EnRelevo DEF PorQuantum, RepQ, Rep
<1>4. SemIgual /\ sem' \in [Semaforos -> 0..MaxCuenta]
  BY <1>1, MismoSem DEF Inv, Tipos
<1> QED BY <1>1, <1>2, <1>3, <1>4, SigueRelevo DEF Rep, RepQ, SemIgual

LEMMA Eleccion ==
  ASSUME Tipos, NEW t \in {"escucha", "q"}, NEW p \in Pids,
         NEW s \in {"sem_procesos_en_ready", "sem_procesos_en_ready_m"}, Elegido(t, p, s)
  PROVE  /\ sem' \in [Semaforos -> 0..MaxCuenta] /\ SEj' = SEj + 1
         /\ SDq' = SDq /\ SVq' = SVq /\ SRq' = SRq
         /\ exec' = <<p>> /\ Va(t, IF t = "q" THEN "cierra" ELSE "recibe")
         /\ UNCHANGED <<banderas, deCpu, conexiones>> /\ bloqueados' = bloqueados
         /\ duenio' = duenio /\ colaRec' = colaRec /\ terminados' = terminados
<1>1. /\ sem[s] > 0 /\ sem["sem_ejecutar"] < MaxCuenta /\ sem["sem_planificacion"] < MaxCuenta
      /\ sem' = [sem EXCEPT ![s] = @ - 1, !["sem_ejecutar"] = @ + 1,
                            !["sem_planificacion"] = @ + 1]
  BY DEF Elegido
<1>2. /\ s \in Semaforos /\ "sem_ejecutar" \in Semaforos /\ "sem_planificacion" \in Semaforos
      /\ s # "sem_ejecutar" /\ s # "sem_planificacion"
  BY DEF Semaforos
<1>3. sem \in [Semaforos -> 0..MaxCuenta] /\ MaxCuenta \in Nat
  BY QuantumAssumption DEF Tipos
<1>4. \A r \in Semaforos :
        sem'[r] = CASE r = s -> sem[r] - 1
                    [] r \in {"sem_ejecutar", "sem_planificacion"} -> sem[r] + 1
                    [] OTHER -> sem[r]
  BY <1>1, <1>2, <1>3
<1>5. sem' \in [Semaforos -> 0..MaxCuenta]
  BY <1>1, <1>2, <1>3
<1>6. SEj' = SEj + 1 /\ SDq' = SDq /\ SVq' = SVq /\ SRq' = SRq
  BY <1>2, <1>4 DEF SEj, SDq, SVq, SRq, Semaforos
<1> QED BY <1>5, <1>6 DEF Elegido

LEMMA DeLaCola ==
  ASSUME Tipos, NEW t \in {"escucha", "q"}, Elige(t) \/ EligeM(t)
  PROVE  /\ ready' \in Seq(Pids) /\ readyM' \in Seq(Pids)
         /\ pc[t] \in {"elige", "eligeM"}
         /\ \E p \in Pids, s \in {"sem_procesos_en_ready", "sem_procesos_en_ready_m"} :
              Elegido(t, p, s)
<1>1. CASE Elige(t)
  <2>1. /\ Head(ready) \in Pids /\ Tail(ready) \in Seq(Pids) /\ ready' = Tail(ready)
        /\ readyM' = readyM /\ Elegido(t, Head(ready), "sem_procesos_en_ready")
        /\ pc[t] = "elige"
    BY <1>1 DEF Elige, Tipos
  <2> QED BY <2>1 DEF Tipos
<1>2. CASE EligeM(t)
  <2>1. /\ Head(readyM) \in Pids /\ Tail(readyM) \in Seq(Pids) /\ readyM' = Tail(readyM)
        /\ ready' = ready /\ Elegido(t, Head(readyM), "sem_procesos_en_ready_m")
        /\ pc[t] = "eligeM"
    BY <1>2 DEF EligeM, Tipos
  <2> QED BY <2>1 DEF Tipos
<1> QED BY <1>1, <1>2

LEMMA EligeEscuchaInv ==
  ASSUME Inv, Elige("escucha") \/ EligeM("escucha")
  PROVE  Inv'
<1>1. PICK p \in Pids, s \in {"sem_procesos_en_ready", "sem_procesos_en_ready_m"} :
        Elegido("escucha", p, s)
  BY DeLaCola DEF Inv
<1>2. Esc \in Rep /\ ready' \in Seq(Pids) /\ readyM' \in Seq(Pids)
  BY DeLaCola DEF Inv, Esc, Rep
<1>3. /\ sem' \in [Semaforos -> 0..MaxCuenta] /\ SEj' = SEj + 1
      /\ SDq' = SDq /\ SVq' = SVq /\ SRq' = SRq
      /\ exec' = <<p>> /\ Va("escucha", "recibe")
      /\ UNCHANGED <<banderas, deCpu, conexiones>> /\ bloqueados' = bloqueados
      /\ duenio' = duenio /\ colaRec' = colaRec /\ terminados' = terminados
  BY <1>1, Eleccion DEF Inv
<1>4. pc' \in Puntos /\ Tem' = Tem /\ Esc' = "recibe"
  BY <1>3, VaEscucha DEF Inv, Tipos
<1>5. /\ fin' = fin /\ esperar' = esperar /\ desaloja' = desaloja /\ replanifico' = replanifico
      /\ deQ' = deQ /\ pedido' = pedido /\ cpu' = cpu /\ interrupcion' = interrupcion
      /\ chCpu' = chCpu /\ chDispatch' = chDispatch /\ chInterrupt' = chInterrupt
  BY <1>3 DEF banderas, deCpu, conexiones
<1>6. Tipos'
  BY <1>2, <1>3, <1>4, <1>5, CpuIgual DEF Inv, Tipos
<1>7. Tiempo'
  BY <1>4, <1>5, TiempoIgual DEF Inv
<1>8. desaloja /\ SEj = 0
  BY <1>2, EnEleccion DEF Escoge
<1>10. Acuerdo'
  BY <1>2, <1>3, <1>4, <1>5, EnEleccion DEF Inv, Acuerdo, Antes, Despues, Rep
<1>11. PorDespachar'
  BY <1>2, <1>3, <1>4, <1>5, <1>8, EnEleccion, CambioIgual DEF Escoge, PorDespachar
<1> QED BY <1>2, <1>3, <1>4, <1>6, <1>7, <1>10, <1>11, EnEleccion DEF Inv, Turno

LEMMA EligeTemporizadorInv ==
  ASSUME Inv, Elige("q") \/ EligeM("q")
  PROVE  Inv'
<1>1. PICK p \in Pids, s \in {"sem_procesos_en_ready", "sem_procesos_en_ready_m"} :
        Elegido("q", p, s)
  BY DeLaCola DEF Inv
<1>2. Tem \in {"elige", "eligeM"} /\ ready' \in Seq(Pids) /\ readyM' \in Seq(Pids)
  BY DeLaCola DEF Inv, Tem
<1>3. /\ sem' \in [Semaforos -> 0..MaxCuenta] /\ SEj' = SEj + 1
      /\ SDq' = SDq /\ SVq' = SVq /\ SRq' = SRq
      /\ exec' = <<p>> /\ Va("q", "cierra")
      /\ UNCHANGED <<banderas, deCpu, conexiones>> /\ bloqueados' = bloqueados
      /\ duenio' = duenio /\ colaRec' = colaRec /\ terminados' = terminados
  BY <1>1, Eleccion DEF Inv
<1>4. pc' \in Puntos /\ Tem' = "cierra" /\ Esc' = Esc
  BY <1>3, VaTemporizador DEF Inv, Tipos, EnFin
<1>5. /\ fin' = fin /\ esperar' = esperar /\ desaloja' = desaloja /\ replanifico' = replanifico
      /\ deQ' = deQ /\ pedido' = pedido /\ cpu' = cpu /\ interrupcion' = interrupcion
      /\ chCpu' = chCpu /\ chDispatch' = chDispatch /\ chInterrupt' = chInterrupt
  BY <1>3 DEF banderas, deCpu, conexiones
<1>6. Tipos'
  BY <1>2, <1>3, <1>4, <1>5, CpuIgual DEF Inv, Tipos
<1>7. PorQuantum /\ SDq = 0 /\ fin
  BY <1>2, EnRelevo DEF RepQ, Rep
<1>8. CpuLibre /\ SRq = 0 /\ SEj = 0 /\ Esc = "recibe" /\ chDispatch = <<>> /\ ~ desaloja
  BY <1>2, <1>7 DEF PorQuantum
<1>9. Tiempo'
  BY <1>4, <1>5, <1>7, <1>8 DEF Inv, Tiempo, EnFin
<1>11. Acuerdo'
  BY <1>3, <1>4, <1>5, <1>7, <1>8 DEF Inv, Acuerdo, Antes, Despues, Rep
<1>12. PorDespachar'
  BY <1>3, <1>4, <1>5, <1>8, CambioIgual DEF PorDespachar
<1> QED BY <1>3, <1>4, <1>6, <1>8, <1>9, <1>11, <1>12 DEF Inv, Turno, RepQ, Rep

----------------------------------------------------------------------------
(* The dispatch, its timer and its stopwatch.                              *)

LEMMA DespachaInv ==
  ASSUME Inv, Despacha
  PROVE  Inv'
<1>1. /\ Tem = "fin" /\ Baja("sem_ejecutar")
      /\ desaloja' = FALSE /\ replanifico' = FALSE /\ deQ' = Head(exec)
      /\ chDispatch' = Append(chDispatch, Paquete("PCB", Head(exec)))
      /\ pc' = [pc EXCEPT !.despacho = "desalojo", !.q = "duerme", !.p = "espera"]
      /\ fin' = fin /\ esperar' = esperar /\ pedido' = pedido /\ UNCHANGED <<colas, deCpu>>
      /\ chCpu' = chCpu /\ chInterrupt' = chInterrupt
  BY DEF Despacha, Tem
<1>2. /\ pc' \in Puntos /\ Esc' = Esc /\ Tem' = "duerme"
  BY <1>1 DEF Inv, Tipos, Puntos, Esc, Tem
<1>3. /\ sem' \in [Semaforos -> 0..MaxCuenta] /\ SEj > 0 /\ SEj' = SEj - 1
      /\ SDq' = SDq /\ SVq' = SVq /\ SRq' = SRq
  <2>1. "sem_ejecutar" \in Semaforos
    BY DEF Semaforos
  <2> QED BY <1>1, <2>1, Bajado DEF Inv, Tipos, Semaforos, SEj, SDq, SVq, SRq
<1>4. PorDespachar /\ ~ PorQuantum
  BY <1>3 DEF Inv, Turno, EnCamino, Ocupa, Escoge, PorQuantum
<1>5. PICK p \in Pids : exec = <<p>>
  BY DEF Inv, Tipos
<1>6. /\ deQ' = p /\ exec' = <<p>> /\ chDispatch' = <<Paquete("PCB", p)>>
      /\ cpu' = cpu /\ interrupcion' = interrupcion
  BY <1>1, <1>4, <1>5, UnoSolo DEF PorDespachar, colas, deCpu
<1>7. Tipos'
  BY <1>1, <1>2, <1>3, <1>6, CpuIgual DEF Inv, Tipos, colas
<1>8. SDq = 0
  BY <1>1 DEF Inv, Acuerdo
<1>9. Tiempo'
  BY <1>1, <1>2, <1>8 DEF Inv, Tiempo, EnFin, RepQ, Rep
<1>11. Acuerdo'
  BY <1>1, <1>2, <1>3, <1>4, <1>8 DEF Inv, Acuerdo, PorDespachar, Antes, Despues, Rep
<1>12. EnCamino'
  BY <1>1, <1>2, <1>3, <1>4, <1>6, <1>8, CambioIgual DEF PorDespachar, EnCamino
<1> QED BY <1>2, <1>3, <1>4, <1>7, <1>9, <1>11, <1>12 DEF Inv, Turno, RepQ, Rep

\* Steps that say nothing of whose turn it is.
LEMMA SigueTurno ==
  ASSUME Inv, pc' \in Puntos, Esc' = Esc, Tem' = Tem,
         sem' \in [Semaforos -> 0..MaxCuenta], SemIgual,
         UNCHANGED <<banderas, colas, deCpu, conexiones>>
  PROVE  Inv'
<1>1. /\ fin' = fin /\ esperar' = esperar /\ desaloja' = desaloja /\ replanifico' = replanifico
      /\ deQ' = deQ /\ pedido' = pedido /\ exec' = exec /\ cpu' = cpu
      /\ interrupcion' = interrupcion
  BY DEF banderas, colas, deCpu
<1>2. UNCHANGED colas /\ UNCHANGED <<deCpu, conexiones>>
  OBVIOUS
<1>3. Tipos'
  BY <1>1, <1>2, CpuIgual DEF Inv, Tipos, colas
<1>4. Tiempo' /\ Acuerdo'
  BY <1>1, TiempoIgual, AcuerdoIgual DEF Inv, SemIgual
<1>5. Turno'
  BY <1>1, <1>2, TurnoIgual DEF Inv, SemIgual
<1> QED BY <1>3, <1>4, <1>5 DEF Inv

LEMMA TerminaDespachoInv ==
  ASSUME Inv, TerminaDespacho
  PROVE  Inv'
<1>1. /\ Baja("sem_desalojo_planificacion") /\ Va("despacho", "ejecutar")
      /\ UNCHANGED <<banderas, colas, deCpu, conexiones>>
  BY DEF TerminaDespacho
<1>2. pc' \in Puntos /\ Esc' = Esc /\ Tem' = Tem
  BY <1>1, VaDespacho DEF Inv, Tipos
<1>3. sem' \in [Semaforos -> 0..MaxCuenta] /\ SemIgual
  <2>1. "sem_desalojo_planificacion" \in Semaforos
    BY DEF Semaforos
  <2> QED BY <1>1, <2>1, Bajado DEF Inv, Tipos, SemIgual, Semaforos, SEj, SDq, SVq, SRq
<1> QED BY <1>1, <1>2, <1>3, SigueTurno

\* The timer of the dispatch, before it evicts the process and after it.
LEMMA SigueTiempo ==
  ASSUME Inv, pc' \in Puntos, Esc' = Esc, SemIgual, desaloja' = desaloja, deQ' = deQ,
         pedido' = pedido, UNCHANGED <<colas, deCpu, conexiones>>,
         \/ /\ Tem \in {"duerme", "decide", "enciende"}
            /\ Tem' \in {"decide", "enciende"} \/ (Tem' = "avisa" /\ ~ desaloja)
         \/ desaloja /\ Tem' \in {Tem, "fin"} /\ Tem \notin EnFin
         \/ Tem = "cierra" /\ Tem' = "fin"
  PROVE  Acuerdo' /\ Turno'
<1>1. /\ exec' = exec /\ cpu' = cpu /\ interrupcion' = interrupcion /\ chCpu' = chCpu
      /\ chDispatch' = chDispatch /\ chInterrupt' = chInterrupt
  BY DEF colas, deCpu, conexiones
<1>2. /\ Tem \notin {"avisa", "desalojo"} /\ Tem' # "desalojo"
      /\ Tem \notin RepQ /\ Tem' \notin RepQ
      /\ Tem' = "avisa" => ~ desaloja
      /\ Tem' # "cierra"
  BY DEF EnFin, RepQ, Rep
<1>3. SDq = 0
  BY <1>2 DEF Inv, Acuerdo
<1>4. Acuerdo'
  BY <1>2, <1>3 DEF Inv, Acuerdo, SemIgual, Despues
<1>5. ~ PorQuantum /\ SRq = 0
  BY <1>2 DEF Inv, Turno, PorQuantum, RepQ, Rep
<1>6. ~ desaloja /\ Tem \in {"duerme", "decide", "enciende", "avisa", "desalojo"}
        => Tem' \in {"duerme", "decide", "enciende", "avisa"}
  BY <1>2
<1>7. Tem' \in {"duerme", "decide", "enciende", "avisa"}
        => Tem \in {"duerme", "decide", "enciende", "avisa"}
  BY DEF EnFin
<1>8. PorDespachar => PorDespachar'
  BY <1>1, <1>2, CambioIgual DEF PorDespachar, SemIgual
<1>9. EnCamino => EnCamino'
  <2>1. Tem # "desalojo"
    BY <1>2
  <2> QED BY <1>1, <1>6, <2>1, CambioIgual DEF EnCamino, SemIgual
<1>10. Ocupa => Ocupa'
  <2>1. SinPedir => SinPedir'
    BY <1>1, <1>2, <1>7, CpuIgual DEF SinPedir, Qu
  <2>2. Pedida => Pedida'
    BY <1>1, CpuIgual DEF Pedida, IntDe, Qu
  <2> QED BY <1>1, <1>3, <1>6, <2>1, <2>2, CpuIgual DEF Ocupa, Fin, SemIgual
<1>11. Escoge => Escoge'
  BY <1>1, CambioIgual DEF Escoge, SemIgual
<1>12. Turno'
  BY <1>2, <1>5, <1>8, <1>9, <1>10, <1>11 DEF Inv, Turno, SemIgual
<1> QED BY <1>4, <1>12

LEMMA DespiertaInv ==
  ASSUME Inv, Despierta
  PROVE  Inv'
<1>1. /\ Tem = "duerme" /\ sem' = sem
      /\ pc' = [pc EXCEPT !.q = "decide", !.p = IF @ \in {"espera", "reanuda"} THEN "fin" ELSE @]
      /\ UNCHANGED <<banderas, colas, deCpu, conexiones>>
  BY DEF Despierta, Tem
<1>2. pc' \in Puntos /\ Esc' = Esc /\ Tem' = "decide"
  BY <1>1 DEF Inv, Tipos, Puntos, Esc, Tem
<1>3. /\ fin' = fin /\ esperar' = esperar /\ desaloja' = desaloja /\ replanifico' = replanifico
      /\ deQ' = deQ /\ pedido' = pedido /\ exec' = exec /\ cpu' = cpu
      /\ interrupcion' = interrupcion
  BY <1>1 DEF banderas, colas, deCpu
<1>4. UNCHANGED colas /\ UNCHANGED <<colas, deCpu, conexiones>>
  BY <1>1
<1>5. Tipos'
  BY <1>1, <1>2, <1>3, <1>4, CpuIgual DEF Inv, Tipos, colas
<1>6. Tiempo'
  BY <1>1, <1>2, <1>3 DEF Inv, Tiempo, EnFin, RepQ, Rep
<1>7. Acuerdo' /\ Turno'
  BY <1>1, <1>2, <1>3, <1>4, MismoSem, SigueTiempo
<1> QED BY <1>5, <1>6, <1>7 DEF Inv

LEMMA DecideInv ==
  ASSUME Inv, Decide
  PROVE  Inv'
<1>1. /\ Tem = "decide" /\ sem' = sem
      /\ Va("q", IF replanifico \/ desaloja THEN "fin" ELSE "enciende")
      /\ UNCHANGED <<banderas, colas, deCpu, conexiones>>
  BY DEF Decide, Tem
<1>2. /\ pc' \in Puntos /\ Esc' = Esc
      /\ Tem' = IF desaloja THEN "fin" ELSE "enciende"
  BY <1>1, VaTemporizador DEF Inv, Tipos, Tiempo
<1>3. /\ fin' = fin /\ esperar' = esperar /\ desaloja' = desaloja /\ replanifico' = replanifico
      /\ deQ' = deQ /\ pedido' = pedido /\ exec' = exec /\ cpu' = cpu
      /\ interrupcion' = interrupcion
  BY <1>1 DEF banderas, colas, deCpu
<1>4. UNCHANGED colas /\ UNCHANGED <<colas, deCpu, conexiones>>
  BY <1>1
<1>5. Tipos'
  BY <1>1, <1>2, <1>3, <1>4, CpuIgual DEF Inv, Tipos, colas
<1>6. Tiempo'
  BY <1>1, <1>2, <1>3 DEF Inv, Tiempo, EnFin, RepQ, Rep
<1>7. Tem \notin EnFin
  BY <1>1 DEF EnFin, RepQ, Rep
<1>8. Acuerdo' /\ Turno'
  BY <1>1, <1>2, <1>3, <1>4, <1>7, MismoSem, SigueTiempo
<1> QED BY <1>5, <1>6, <1>8 DEF Inv

\* No instruction has raised desaloja since the timer read it: they do not cross.
LEMMA EnciendeFinInv ==
  ASSUME Inv, EnciendeFin, SinCruces'
  PROVE  Inv'
<1>1. /\ Tem = "enciende" /\ sem' = sem /\ fin' = TRUE /\ Va("q", "avisa")
      /\ esperar' = esperar /\ desaloja' = desaloja /\ replanifico' = replanifico
      /\ deQ' = deQ /\ pedido' = pedido /\ UNCHANGED <<colas, deCpu, conexiones>>
  BY DEF EnciendeFin, Tem
<1>2. ~ desaloja /\ ~ replanifico
  BY DEF EnciendeFin, SinCruces, Inv, Tiempo
<1>3. pc' \in Puntos /\ Esc' = Esc /\ Tem' = "avisa"
  BY <1>1, VaTemporizador DEF Inv, Tipos, EnFin
<1>4. UNCHANGED colas /\ cpu' = cpu /\ interrupcion' = interrupcion
  BY <1>1 DEF deCpu
<1>5. Tipos'
  BY <1>1, <1>3, <1>4, CpuIgual DEF Inv, Tipos, colas
<1>6. Tiempo'
  BY <1>1, <1>2, <1>3 DEF Tiempo, EnFin
<1>7. Acuerdo' /\ Turno'
  BY <1>1, <1>2, <1>3, MismoSem, SigueTiempo
<1> QED BY <1>5, <1>6, <1>7 DEF Inv

LEMMA PideDesalojoInv ==
  ASSUME Inv, PideDesalojo
  PROVE  Inv'
<1>1. /\ Tem = "avisa"
      /\ IF esperar THEN Sube("sem_pausa_conteo_quantum") ELSE sem' = sem
      /\ IF replanifico THEN Va("q", "fin") /\ chInterrupt' = chInterrupt
                         ELSE Va("q", "desalojo") /\ chInterrupt' = Append(chInterrupt, Qu(deQ))
      /\ UNCHANGED <<banderas, colas, deCpu>> /\ chCpu' = chCpu /\ chDispatch' = chDispatch
  BY DEF PideDesalojo, Interrumpe, Tem, Qu
<1>2. ~ replanifico
  BY <1>1 DEF Inv, Tiempo, EnFin
<1>3. pc' \in Puntos /\ Esc' = Esc /\ Tem' = "desalojo"
  BY <1>1, <1>2, VaTemporizador DEF Inv, Tipos, EnFin
<1>4. sem' \in [Semaforos -> 0..MaxCuenta] /\ SemIgual
  BY <1>1, SubeAjeno, MismoSem DEF Inv, Tipos, Ajenos
<1>5. /\ fin' = fin /\ esperar' = esperar /\ desaloja' = desaloja /\ replanifico' = replanifico
      /\ deQ' = deQ /\ pedido' = pedido /\ exec' = exec /\ cpu' = cpu
      /\ interrupcion' = interrupcion
  BY <1>1 DEF banderas, colas, deCpu
<1>6. Tipos'
  BY <1>1, <1>3, <1>4, <1>5, CpuIgual DEF Inv, Tipos, colas
<1>7. Tiempo'
  BY <1>1, <1>2, <1>3, <1>5 DEF Inv, Tiempo, EnFin
<1>8. Acuerdo'
  BY <1>1, <1>3, <1>4, <1>5 DEF Inv, Acuerdo, RepQ, Rep, SemIgual
<1>9. Ocupa \/ PorQuantum \/ EnCamino
  BY <1>1 DEF Inv, Turno, PorDespachar, Escoge, Acuerdo, Rep
<1>10. /\ chInterrupt = <<>> => chInterrupt' = <<Qu(deQ)>>
       /\ chInterrupt = <<Para>> => chInterrupt' = <<Para, Qu(deQ)>>
       /\ \A a, b : chInterrupt = <<a, b>> => chInterrupt' = <<a, b, Qu(deQ)>>
       /\ \A a, b, c : chInterrupt = <<a, b, c>> => chInterrupt' = <<a, b, c, Qu(deQ)>>
  <2>1. /\ Append(<<>>, Qu(deQ)) = <<Qu(deQ)>> /\ Append(<<Para>>, Qu(deQ)) = <<Para, Qu(deQ)>>
        /\ \A a, b : Append(<<a, b>>, Qu(deQ)) = <<a, b, Qu(deQ)>>
        /\ \A a, b, c : Append(<<a, b, c>>, Qu(deQ)) = <<a, b, c, Qu(deQ)>>
    <3>1. Append(<<>>, Qu(deQ)) = <<Qu(deQ)>> /\ Append(<<Para>>, Qu(deQ)) = <<Para, Qu(deQ)>>
      BY UnoSolo, Dos
    <3>2. ASSUME NEW a, NEW b PROVE Append(<<a, b>>, Qu(deQ)) = <<a, b, Qu(deQ)>>
      BY Tercero
    <3>3. ASSUME NEW a, NEW b, NEW c
          PROVE  Append(<<a, b, c>>, Qu(deQ)) = <<a, b, c, Qu(deQ)>>
      BY CuartoAlFinal
    <3> QED BY <3>1, <3>2, <3>3
  <2> QED BY <1>1, <1>2, <2>1
<1>11. CASE Ocupa
  <2>1. SinPedir /\ ~ (desaloja /\ Esc = "recibe") /\ chInterrupt = <<>> /\ ~ Llego
    BY <1>1, <1>11 DEF Inv, Acuerdo, Ocupa, SinPedir
  <2>2. chInterrupt' = <<Qu(deQ)>> /\ <<Qu(deQ)>> # <<>>
    BY <1>10, <2>1, UnoSolo
  <2>3. SinPedir'
    BY <1>3, <1>5, <2>1, <2>2, CpuIgual DEF SinPedir, Qu
  <2>4. Ocupa'
    BY <1>1, <1>3, <1>4, <1>5, <1>11, <2>1, <2>3, CpuIgual DEF Ocupa, Fin, SemIgual
  <2>5. ~ PorQuantum' => SRq' = 0 /\ Tem' \notin RepQ
    <3>1. ~ PorQuantum \/ SRq = 0
      BY <1>1 DEF PorQuantum
    <3> QED BY <1>3, <1>4, <3>1 DEF Inv, Turno, SemIgual, RepQ, Rep
  <2> QED BY <1>6, <1>7, <1>8, <2>4, <2>5 DEF Inv, Turno
<1>12. CASE PorQuantum
  <2>1. Detenida /\ SRq = 0
    BY <1>1, <1>12 DEF PorQuantum
  <2>2. Evicta'
    BY <1>1, <1>5, <1>10, <2>1, CpuIgual DEF Detenida, Evicta, Para, Qu
  <2>3. PorQuantum'
    BY <1>1, <1>3, <1>4, <1>5, <1>12, <2>1, <2>2 DEF PorQuantum, SemIgual
  <2> QED BY <1>6, <1>7, <1>8, <2>3 DEF Inv, Turno
<1>13. CASE EnCamino
  <2>1. CpuSale \/ CpuLibre
    BY <1>1, <1>13 DEF EnCamino
  <2>2. CpuLibre => QuantumAntes'
    BY <1>1, <1>5, <1>10, CpuIgual DEF CpuLibre, QuantumAntes, Qu
  <2>3. ASSUME CpuSale PROVE QuantumAntes'
    <3>1. PICK m \in Salidas :
            \/ /\ Fase = "responde"
               /\ \/ chInterrupt = <<Paquete(m, Pid), Para>>
                  \/ chInterrupt = <<Qu(Pid), Paquete(m, Pid), Para>>
                  \/ chInterrupt = <<Para>> /\ IntDe(m, Pid)
            \/ Fase = "interrumpe" /\ chInterrupt = <<>> /\ IntDe(m, Pid)
      BY <2>3 DEF CpuSale
    <3>2. chCpu' = <<>>
      BY <1>1, <2>3 DEF CpuSale
    <3> QED BY <1>5, <1>10, <3>1, <3>2, CpuIgual DEF QuantumAntes, IntDe, Qu, Para
  <2>4. EnCamino'
    BY <1>1, <1>3, <1>4, <1>5, <1>13, <2>1, <2>2, <2>3 DEF EnCamino, SemIgual
  <2>5. ~ PorQuantum /\ SRq' = 0
    BY <1>4, <1>13, UnoSolo DEF EnCamino, PorQuantum, Inv, Turno, SemIgual
  <2> QED BY <1>3, <1>6, <1>7, <1>8, <2>4, <2>5 DEF Inv, Turno, RepQ, Rep
<1> QED BY <1>9, <1>11, <1>12, <1>13

LEMMA EsperaDesalojoInv ==
  ASSUME Inv, EsperaDesalojo
  PROVE  Inv'
<1>1. /\ Tem = "desalojo" /\ sem["sem_desalojo_quantum"] > 0
      /\ sem["sem_verificar_desalojo_quantum"] < MaxCuenta
      /\ sem' = [sem EXCEPT !["sem_desalojo_quantum"] = @ - 1,
                            !["sem_verificar_desalojo_quantum"] = IF desaloja THEN @ + 1 ELSE @]
      /\ Va("q", IF desaloja THEN "cierra" ELSE "replanifica")
      /\ UNCHANGED <<banderas, colas, deCpu, conexiones>>
  BY DEF EsperaDesalojo, Tem
<1>2. /\ pc' \in Puntos /\ Esc' = Esc
      /\ Tem' = IF desaloja THEN "cierra" ELSE "replanifica"
  BY <1>1, VaTemporizador DEF Inv, Tipos, EnFin, RepQ, Rep
<1>3. /\ sem' \in [Semaforos -> 0..MaxCuenta] /\ SDq > 0 /\ SDq' = SDq - 1
      /\ SVq' = (IF desaloja THEN SVq + 1 ELSE SVq)
      /\ SEj' = SEj /\ SRq' = SRq
  <2>1. sem \in [Semaforos -> 0..MaxCuenta] /\ MaxCuenta \in Nat
    BY QuantumAssumption DEF Inv, Tipos
  <2>2. "sem_desalojo_quantum" \in Semaforos /\ "sem_verificar_desalojo_quantum" \in Semaforos
    BY DEF Semaforos
  <2>3. sem' \in [Semaforos -> 0..MaxCuenta]
    BY <1>1, <2>1, <2>2
  <2> QED BY <1>1, <2>1, <2>2, <2>3 DEF SDq, SVq, SEj, SRq, Semaforos
<1>4. /\ fin' = fin /\ esperar' = esperar /\ desaloja' = desaloja /\ replanifico' = replanifico
      /\ deQ' = deQ /\ pedido' = pedido /\ exec' = exec /\ cpu' = cpu
      /\ interrupcion' = interrupcion /\ chCpu' = chCpu /\ chDispatch' = chDispatch
      /\ chInterrupt' = chInterrupt
  BY <1>1 DEF banderas, colas, deCpu, conexiones
<1>5. Tipos'
  <2>1. UNCHANGED colas
    BY <1>1
  <2> QED BY <1>2, <1>3, <1>4, <2>1, CpuIgual DEF Inv, Tipos, colas
<1>6. Tiempo'
  BY <1>1, <1>2, <1>4 DEF Inv, Tiempo, EnFin, RepQ, Rep
<1>8. CASE desaloja
  <2>1. Esc = "verifica" /\ SDq = 1 /\ SVq = 0
    BY <1>1, <1>3, <1>8 DEF Inv, Acuerdo
  <2>2. Acuerdo'
    BY <1>2, <1>3, <1>4, <1>8, <2>1 DEF Acuerdo, Antes, Despues, Rep
  <2>3. Ocupa /\ SinPedir /\ ~ PorQuantum /\ SRq = 0
    BY <2>1, EnAtencion DEF Despues
  <2>4. SinPedir'
    BY <1>2, <1>4, <1>8, <2>3, CpuIgual DEF SinPedir, Qu
  <2>5. Ocupa'
    BY <1>2, <1>3, <1>4, <1>8, <2>1, <2>3, <2>4, CpuIgual DEF Ocupa, Fin
  <2> QED BY <1>2, <1>3, <1>5, <1>6, <1>8, <2>2, <2>3, <2>5 DEF Inv, Turno, RepQ, Rep
<1>9. CASE ~ desaloja
  <2>1. PorQuantum /\ SDq = 1
    BY <1>1, <1>3, <1>9
       DEF Inv, Turno, PorDespachar, EnCamino, Ocupa, Escoge, Acuerdo
  <2>2. /\ Evicta => Evicta'
        /\ Devuelve => Devuelve'
        /\ CpuLibre => CpuLibre'
    BY <1>4, CpuIgual DEF Evicta, Devuelve, CpuLibre, IntDe, Para, Qu
  <2>3. PorQuantum'
    BY <1>1, <1>2, <1>3, <1>4, <1>9, <2>1, <2>2 DEF PorQuantum
  <2>4. Acuerdo'
    BY <1>2, <1>3, <1>4, <1>9, <2>1 DEF Inv, Acuerdo, PorQuantum, Antes, Despues, Rep
  <2> QED BY <1>5, <1>6, <2>3, <2>4 DEF Inv, Turno
<1> QED BY <1>8, <1>9

LEMMA CierraQuantumInv ==
  ASSUME Inv, CierraQuantum
  PROVE  Inv'
<1>1. /\ Tem = "cierra" /\ fin' = FALSE /\ Sube("sem_desalojo_planificacion") /\ Va("q", "fin")
      /\ esperar' = esperar /\ desaloja' = desaloja /\ replanifico' = replanifico
      /\ deQ' = deQ /\ pedido' = pedido /\ UNCHANGED <<colas, deCpu, conexiones>>
  BY DEF CierraQuantum, Tem
<1>2. pc' \in Puntos /\ Esc' = Esc /\ Tem' = "fin"
  BY <1>1, VaTemporizador DEF Inv, Tipos
<1>3. sem' \in [Semaforos -> 0..MaxCuenta] /\ SemIgual
  <2>1. "sem_desalojo_planificacion" \in Semaforos
    BY DEF Semaforos
  <2> QED BY <1>1, <2>1, Subido DEF Inv, Tipos, SemIgual, Semaforos, SEj, SDq, SVq, SRq
<1>4. UNCHANGED colas /\ cpu' = cpu /\ interrupcion' = interrupcion
  BY <1>1 DEF deCpu
<1>5. Tipos'
  BY <1>1, <1>2, <1>3, <1>4, CpuIgual DEF Inv, Tipos, colas
<1>6. Tiempo'
  BY <1>1, <1>2 DEF Inv, Tiempo, EnFin, RepQ, Rep
<1>7. Acuerdo' /\ Turno'
  BY <1>1, <1>2, <1>3, SigueTiempo
<1> QED BY <1>5, <1>6, <1>7 DEF Inv

LEMMA CronometroInv ==
  ASSUME Inv,
         \/ TerminoInstruccion \/ MiraSleep \/ PausaCronometro \/ Reanuda \/ OtraVuelta
  PROVE  Inv'
<1>1. UNCHANGED <<banderas, colas, deCpu, conexiones>>
  BY DEF TerminoInstruccion, MiraSleep, PausaCronometro, Reanuda, OtraVuelta
<1>2. PICK l \in {"fin", "espera", "paro", "reanuda", "sigue", "compara"} : Va("p", l)
  BY DEF TerminoInstruccion, MiraSleep, PausaCronometro, Reanuda, OtraVuelta, Espera
<1>3. pc' \in Puntos /\ Esc' = Esc /\ Tem' = Tem
  BY <1>2, VaCronometro DEF Inv, Tipos
<1>4. \/ sem' = sem
      \/ \E s \in Ajenos : Sube(s) \/ Baja(s)
  BY DEF TerminoInstruccion, MiraSleep, PausaCronometro, Reanuda, OtraVuelta, Ajenos
<1>5. sem' \in [Semaforos -> 0..MaxCuenta] /\ SemIgual
  BY <1>4, SubeAjeno, MismoSem DEF Inv, Tipos
<1> QED BY <1>1, <1>3, <1>5, SigueTurno

\* The timer has not raised fin: they do not cross.
LEMMA CortaInv ==
  ASSUME Inv, Corta, SinCruces'
  PROVE  Inv'
<1>1. /\ desaloja /\ replanifico' = TRUE
      /\ Suben({"sem_pausa_conteo_quantum", "sem_desalojo_planificacion"})
      /\ pc' = [pc EXCEPT !.p = "fin",
                          !.q = IF @ \in {"decide", "enciende", "avisa", "cierra"} THEN @ ELSE "fin"]
      /\ fin' = fin /\ esperar' = esperar /\ desaloja' = desaloja
      /\ deQ' = deQ /\ pedido' = pedido /\ UNCHANGED <<colas, deCpu, conexiones>>
      /\ ~ fin
  BY DEF Corta, SinCruces
<1>2. Tem \notin EnFin
  BY <1>1 DEF Inv, Tiempo
<1>3. pc' \in Puntos /\ Esc' = Esc /\ Tem' \in {Tem, "fin"}
  BY <1>1 DEF Inv, Tipos, Puntos, Esc, Tem
<1>4. sem' \in [Semaforos -> 0..MaxCuenta] /\ SemIgual
  <2>1. {"sem_pausa_conteo_quantum", "sem_desalojo_planificacion"} \in SUBSET Semaforos
    BY DEF Semaforos
  <2> QED BY <1>1, <2>1, Subidos DEF Inv, Tipos, SemIgual, Semaforos, SEj, SDq, SVq, SRq
<1>5. UNCHANGED colas /\ cpu' = cpu /\ interrupcion' = interrupcion
  BY <1>1 DEF deCpu
<1>6. Tipos'
  BY <1>1, <1>3, <1>4, <1>5, CpuIgual DEF Inv, Tipos, colas
<1>7. "fin" \notin EnFin
  BY DEF EnFin, RepQ, Rep
<1>8. Tiempo'
  BY <1>1, <1>2, <1>3, <1>7 DEF Tiempo, EnFin
<1>9. Acuerdo' /\ Turno'
  BY <1>1, <1>2, <1>3, <1>4, SigueTiempo
<1> QED BY <1>6, <1>8, <1>9 DEF Inv

LEMMA FinIOInv ==
  ASSUME Inv, NEW p \in Pids, FinIO(p)
  PROVE  Inv'
<1>1. /\ bloqueados' = bloqueados \ {p} /\ Inicia(p) /\ Sube(DeReady) /\ pc' = pc
      /\ UNCHANGED <<banderas, deCpu, conexiones>> /\ exec' = exec /\ duenio' = duenio
      /\ colaRec' = colaRec /\ terminados' = terminados
  BY DEF FinIO
<1>2. Tem' = Tem /\ Esc' = Esc
  BY <1>1, PcIgual
<1>3. /\ fin' = fin /\ esperar' = esperar /\ desaloja' = desaloja /\ replanifico' = replanifico
      /\ deQ' = deQ /\ pedido' = pedido /\ cpu' = cpu /\ interrupcion' = interrupcion
  BY <1>1 DEF banderas, deCpu
<1>4. sem' \in [Semaforos -> 0..MaxCuenta] /\ SemIgual
  BY <1>1, SubeAjeno DEF Inv, Tipos, Ajenos, DeReady
<1>5. ready' \in Seq(Pids) /\ readyM' \in Seq(Pids)
  BY <1>1, Iniciado DEF Inv, Tipos
<1>6. Tipos'
  BY <1>1, <1>2, <1>3, <1>4, <1>5, CpuIgual DEF Inv, Tipos
<1>7. Tiempo' /\ Acuerdo'
  BY <1>2, <1>3, <1>4, TiempoIgual, AcuerdoIgual DEF Inv, SemIgual
<1>8. Turno'
  BY <1>1, <1>2, <1>3, <1>4, TurnoIgual DEF Inv, SemIgual
<1> QED BY <1>6, <1>7, <1>8 DEF Inv

----------------------------------------------------------------------------
(* The invariant.                                                          *)

LEMMA QuietoInv ==
  ASSUME Inv, UNCHANGED vars
  PROVE  Inv'
<1>1. /\ UNCHANGED <<sem, pc, banderas, colas>> /\ UNCHANGED <<deCpu, conexiones>>
      /\ cpu' = cpu /\ interrupcion' = interrupcion
  BY DEF vars, deCpu
<1>2. Tipos'
  BY <1>1, TiposDeCpu, CpuIgual DEF Inv, Tipos
<1> QED BY <1>1, <1>2, KernelIgual, TurnoIgual DEF Inv

LEMMA InitInv ==
  ASSUME Init
  PROVE  Inv
<1>1. /\ SEj = 1 /\ SDq = 0 /\ SVq = 0 /\ SRq = 0
      /\ sem \in [Semaforos -> 0..MaxCuenta]
  BY QuantumAssumption DEF Init, SEj, SDq, SVq, SRq, Semaforos
<1>2. pc \in Puntos /\ Esc = "recibe" /\ Tem = "fin"
  BY DEF Init, Puntos, Esc, Tem
<1>3. ready \in Seq(Pids)
  <2>1. MaxPid - 1 \in Nat /\ \A i \in 1..(MaxPid - 1) : i + 1 \in Pids
    BY QuantumAssumption DEF Pids
  <2> DEFINE f == [i \in 1..(MaxPid - 1) |-> i + 1]
  <2>2. f \in [1..(MaxPid - 1) -> Pids]
    BY <2>1
  <2>3. f \in Seq(Pids)
    BY <2>1, <2>2
  <2> QED BY <2>3 DEF Init
<1>4. 1 \in Pids
  BY QuantumAssumption DEF Pids
<1>5. Tipos
  <2>1. /\ deQ \in Pids \cup {0} /\ duenio \in Pids \cup {0}
        /\ fin \in BOOLEAN /\ esperar \in BOOLEAN /\ desaloja \in BOOLEAN
        /\ replanifico \in BOOLEAN /\ bloqueados \subseteq Pids /\ terminados \subseteq Pids
    BY DEF Init
  <2>2. pedido \in [motivo : Motivos, pid : Pids \cup {0}]
    BY DEF Init, Paquete, Motivos
  <2>3. readyM \in Seq(Pids) /\ colaRec \in Seq(Pids)
    BY DEF Init
  <2>4. \E p \in Pids : exec = <<p>>
    BY <1>4 DEF Init
  <2>5. cpu \in [fase : {"libre", "ejecuta", "responde", "interrumpe"}, pid : Pids \cup {0}]
    BY DEF Init
  <2>6. interrupcion \in [motivo : Motivos, pid : Pids \cup {0}]
    BY DEF Init, SinInterrupcion, Paquete, Motivos
  <2>7. Fase = "libre" /\ Pid = 0
    BY DEF Init, Fase, Pid
  <2> QED BY <1>1, <1>2, <1>3, <2>1, <2>2, <2>3, <2>4, <2>5, <2>6, <2>7 DEF Tipos
<1>6. Tiempo /\ Acuerdo
  BY <1>1, <1>2 DEF Init, Tiempo, Acuerdo, EnFin, RepQ, Rep, Antes, Despues
<1>7. CpuLibre
  BY DEF Init, CpuLibre, Fase, Llego
<1>8. PorDespachar
  BY <1>1, <1>2, <1>7 DEF Init, PorDespachar
<1> QED BY <1>1, <1>2, <1>5, <1>6, <1>8 DEF Inv, Turno, RepQ, Rep

LEMMA NextInv ==
  ASSUME Inv, Next, SinCruces'
  PROVE  Inv'
<1>1. CASE Cpu
  BY <1>1, RecibePcbInv, InstruccionInv, ContinuaInv, NoContinuaInv, RecibeInterrupcionInv,
     AtiendeInterrupcionInv DEF Cpu
<1>2. CASE Escucha
  BY <1>2, PideInstruccionInv, AvisaEsperaInv, TerminaPausaInv, AtiendeWaitInv,
     AtiendeSignalInv, AtiendeDesalojoInv, CedeInv, CedioInv, BloqueaIOInv, EnviaIOInv,
     BloqueaWaitInv, SaleInv, FinPorQuantumInv, FinDesalojaInv, FinContinuaInv,
     LlegaContextoInv, ReplanificaEscuchaInv, MiraEscuchaInv, EligeEscuchaInv DEF Escucha
<1>3. CASE Temporizador
  BY <1>3, DespiertaInv, DecideInv, EnciendeFinInv, PideDesalojoInv, EsperaDesalojoInv,
     CierraQuantumInv, ReplanificaTemporizadorInv, EsperaContextoInv, MiraTemporizadorInv,
     EligeTemporizadorInv
  DEF Temporizador
<1>4. CASE Cronometro
  BY <1>4, CronometroInv, CortaInv DEF Cronometro
<1> QED BY <1>1, <1>2, <1>3, <1>4, DespachaInv, TerminaDespachoInv, FinIOInv DEF Next

\* The crossings are history: there is no way back from one.
LEMMA CrucesQuedan ==
  ASSUME [Next]_vars, SinCruces'
  PROVE  SinCruces
<1>1. CASE Cpu
  <2>1. CASE CpuRecibeInterrupcion
    <3>1. perdida' = (perdida \/ (Llego /\ Head(chInterrupt).motivo = "QUANTUM")) /\ cruce' = cruce
      BY <2>1 DEF CpuRecibeInterrupcion
    <3> QED BY <3>1, Zenon DEF SinCruces
  <2>2. CASE ~ CpuRecibeInterrupcion
    <3>1. UNCHANGED historia
      BY <1>1, <2>2 DEF Cpu, CpuRecibePcb, CpuInstruccion, CpuContinua, CpuNoContinua,
                        CpuAtiendeInterrupcion
    <3> QED BY <3>1 DEF historia, SinCruces
  <2> QED BY <2>1, <2>2
<1>2. CASE Escucha
  <2>1. UNCHANGED historia
    BY <1>2 DEF Escucha, PideInstruccion, AvisaEspera, TerminaPausa, AtiendeWait, AtiendeSignal,
                AtiendeDesalojo, Cede, Cedio, BloqueaIO, EnviaIO, BloqueaWait, Sale,
                FinPorQuantum, FinDesaloja, FinContinua, LlegaContexto, Replanifica, Mira,
                Elige, EligeM, Elegido
  <2> QED BY <2>1 DEF historia, SinCruces
<1>3. CASE Temporizador
  <2>1. CASE EnciendeFin
    <3>1. cruce' = (cruce \/ desaloja) /\ perdida' = perdida
      BY <2>1 DEF EnciendeFin
    <3> QED BY <3>1, Zenon DEF SinCruces
  <2>2. CASE ~ EnciendeFin
    <3>1. UNCHANGED historia
      BY <1>3, <2>2 DEF Temporizador, Despierta, Decide, PideDesalojo, EsperaDesalojo,
                        CierraQuantum, Replanifica, EsperaContexto, Mira, Elige, EligeM, Elegido
    <3> QED BY <3>1 DEF historia, SinCruces
  <2> QED BY <2>1, <2>2
<1>4. CASE Cronometro
  <2>1. CASE Corta
    <3>1. cruce' = (cruce \/ fin) /\ perdida' = perdida
      BY <2>1 DEF Corta
    <3> QED BY <3>1, Zenon DEF SinCruces
  <2>2. CASE ~ Corta
    <3>1. UNCHANGED historia
      BY <1>4, <2>2 DEF Cronometro, TerminoInstruccion, MiraSleep, PausaCronometro, Reanuda,
                        OtraVuelta
    <3> QED BY <3>1 DEF historia, SinCruces
  <2> QED BY <2>1, <2>2
<1>5. CASE Despacha \/ TerminaDespacho \/ \E p \in Pids : FinIO(p)
  BY <1>5 DEF Despacha, TerminaDespacho, FinIO, historia, SinCruces
<1>6. CASE UNCHANGED vars
  BY <1>6 DEF vars, historia, SinCruces
<1> QED BY <1>1, <1>2, <1>3, <1>4, <1>5, <1>6 DEF Next

\* Whose turn it is, until a crossing: the points of the four threads, the flags and
\* semaphores they share and what travels on the three connections agree
\* (recibir_respuesta_cpu, planificacion_de_procesos, habilitacion_quantum,
\* habilitacion_instruccion).
THEOREM InvSiempre == Spec => [](SinCruces => Inv)
<1>1. Init => (SinCruces => Inv)
  BY InitInv
<1>2. (SinCruces => Inv) /\ [Next]_vars => (SinCruces => Inv)'
  <2> SUFFICES ASSUME SinCruces => Inv, [Next]_vars, SinCruces'
               PROVE  Inv'
    OBVIOUS
  <2>1. Inv
    BY CrucesQuedan
  <2> QED BY <2>1, NextInv, QuietoInv
<1> QED BY <1>1, <1>2, PTL DEF Spec

----------------------------------------------------------------------------
(* What the invariant says of the properties.                              *)

LEMMA NoOcupada ==
  ASSUME CpuSale \/ CpuLibre
  PROVE  ~ CpuOcupada
<1>1. CASE CpuLibre
  BY <1>1 DEF CpuLibre, CpuOcupada, Fase
<1>2. CASE CpuSale
  <2>1. PICK m \in Salidas :
          \/ /\ Fase = "responde"
             /\ \/ chInterrupt = <<Paquete(m, Pid), Para>>
                \/ chInterrupt = <<Qu(Pid), Paquete(m, Pid), Para>>
                \/ chInterrupt = <<Para>> /\ IntDe(m, Pid)
          \/ Fase = "interrumpe" /\ chInterrupt = <<>> /\ IntDe(m, Pid)
    BY <1>2 DEF CpuSale
  <2>2. Para.motivo = "NO_CONTINUA"
    BY DePaquete DEF Para
  <2>3. CASE Fase = "interrumpe"
    BY <2>3 DEF CpuOcupada, Fase
  <2>4. CASE chInterrupt = <<Paquete(m, Pid), Para>>
    <3>1. 2 \in DOMAIN chInterrupt /\ chInterrupt[2] = Para
      BY <2>4, Dos
    <3> QED BY <2>2, <3>1 DEF CpuOcupada, Hay
  <2>5. CASE chInterrupt = <<Qu(Pid), Paquete(m, Pid), Para>>
    <3>1. 3 \in DOMAIN chInterrupt /\ chInterrupt[3] = Para
      BY <2>5, Tres
    <3> QED BY <2>2, <3>1 DEF CpuOcupada, Hay
  <2>6. CASE chInterrupt = <<Para>>
    <3>1. 1 \in DOMAIN chInterrupt /\ chInterrupt[1] = Para
      BY <2>6, UnoSolo
    <3> QED BY <2>2, <3>1 DEF CpuOcupada, Hay
  <2> QED BY <2>1, <2>3, <2>4, <2>5, <2>6
<1> QED BY <1>1, <1>2

LEMMA NoOcupadaAntes ==
  ASSUME QuantumAntes
  PROVE  ~ CpuOcupada
<1>1. PICK m \in Salidas :
        \/ Fase \in {"libre", "interrumpe"}
        \/ chInterrupt = <<Paquete(m, Pid), Para, Qu(deQ)>>
        \/ chInterrupt = <<Qu(Pid), Paquete(m, Pid), Para, Qu(deQ)>>
        \/ chInterrupt = <<Para, Qu(deQ)>>
  BY DEF QuantumAntes, Salidas
<1>2. Para.motivo = "NO_CONTINUA"
  BY DePaquete DEF Para
<1>3. CASE Fase \in {"libre", "interrumpe"}
  BY <1>3 DEF CpuOcupada, Fase
<1>4. CASE chInterrupt = <<Paquete(m, Pid), Para, Qu(deQ)>>
  <2>1. 2 \in DOMAIN chInterrupt /\ chInterrupt[2] = Para
    BY <1>4, Tres
  <2> QED BY <1>2, <2>1 DEF CpuOcupada, Hay
<1>5. CASE chInterrupt = <<Qu(Pid), Paquete(m, Pid), Para, Qu(deQ)>>
  <2>1. 3 \in DOMAIN chInterrupt /\ chInterrupt[3] = Para
    BY <1>5, TerceroDeCuatro
  <2> QED BY <1>2, <2>1 DEF CpuOcupada, Hay
<1>6. CASE chInterrupt = <<Para, Qu(deQ)>>
  <2>1. 1 \in DOMAIN chInterrupt /\ chInterrupt[1] = Para
    BY <1>6, Dos
  <2> QED BY <1>2, <2>1 DEF CpuOcupada, Hay
<1> QED BY <1>1, <1>3, <1>4, <1>5, <1>6

LEMMA NingunPcb ==
  ASSUME chDispatch = <<>> \/ chDispatch = <<Paquete("CONTINUA", 0)>>
  PROVE  Cardinality({i \in DOMAIN chDispatch : chDispatch[i].motivo = "PCB"}) = 0
<1>1. \A i \in DOMAIN chDispatch : chDispatch[i].motivo # "PCB"
  BY UnoSolo, DePaquete
<1>2. {i \in DOMAIN chDispatch : chDispatch[i].motivo = "PCB"} = {}
  BY <1>1
<1> QED BY <1>2, FS_EmptySet

LEMMA InvUnDespacho ==
  ASSUME Inv
  PROVE  UnDespacho
<1> DEFINE K == Cardinality({i \in DOMAIN chDispatch : chDispatch[i].motivo = "PCB"})
<1>1. CASE PorDespachar
  <2>1. SEj = 1 /\ K = 0 /\ ~ CpuOcupada
    BY <1>1, NingunPcb, NoOcupada DEF PorDespachar
  <2> QED BY <2>1 DEF UnDespacho, SEj
<1>2. CASE EnCamino
  <2>1. SEj = 0 /\ ~ CpuOcupada /\ chDispatch = <<Paquete("PCB", deQ)>>
    BY <1>2, NoOcupada, NoOcupadaAntes DEF EnCamino
  <2>2. DOMAIN chDispatch = {1} /\ chDispatch[1].motivo = "PCB"
    BY <2>1, UnoSolo, DePaquete
  <2>3. {i \in DOMAIN chDispatch : chDispatch[i].motivo = "PCB"} = {1}
    BY <2>2
  <2>4. K = 1
    BY <2>3, FS_Singleton
  <2> QED BY <2>1, <2>4 DEF UnDespacho, SEj
<1>3. CASE Ocupa \/ Escoge \/ PorQuantum
  <2>1. SEj = 0 /\ (chDispatch = <<>> \/ chDispatch = <<Paquete("CONTINUA", 0)>>)
    BY <1>3 DEF Ocupa, Escoge, PorQuantum
  <2>2. K = 0
    BY <2>1, NingunPcb
  <2> QED BY <2>1, <2>2 DEF UnDespacho, SEj
<1> QED BY <1>1, <1>2, <1>3 DEF Inv, Turno

LEMMA InvPaqueteDelEjecutado ==
  ASSUME Inv, chCpu # <<>>, Head(chCpu).motivo # "FIN"
  PROVE  exec = <<Head(chCpu).pid>>
<1>1. ~ CpuSale /\ ~ CpuLibre /\ ~ QuantumAntes
  BY DEF CpuSale, CpuLibre, QuantumAntes
<1>2. CASE Ocupa
  <2>1. chCpu # <<Fin(deQ)>>
    BY UnoSolo, DePaquete DEF Fin
  <2>2. PICK m \in Instrucciones : chCpu = <<Paquete(m, deQ), Fin(deQ)>>
    BY <1>2, <2>1 DEF Ocupa
  <2>3. Head(chCpu) = Paquete(m, deQ)
    BY <2>2, Dos
  <2>4. Head(chCpu).pid = deQ
    BY <2>3, DePaquete
  <2> QED BY <1>2, <2>4 DEF Ocupa
<1>3. CASE PorQuantum
  <2>1. chCpu = <<Qu(deQ)>>
    BY <1>1, <1>3 DEF PorQuantum, Detenida, Evicta, Devuelve
  <2>2. Head(chCpu).pid = deQ
    BY <2>1, UnoSolo, DePaquete DEF Qu
  <2> QED BY <1>3, <2>2 DEF PorQuantum
<1> QED BY <1>1, <1>2, <1>3 DEF Inv, Turno, PorDespachar, EnCamino, Escoge

LEMMA InvVerificaRespondida ==
  ASSUME Inv
  PROVE  VerificaRespondida
BY DEF Inv, Acuerdo, VerificaRespondida, Esc, Tem, SVq, SDq, Despues

\* The interruption of the quantum is the last one of the process it names.
LEMMA InvEvicta ==
  ASSUME Inv, Evicta
  PROVE  /\ cpu.pid = deQ
         /\ cpu.fase = "interrumpe" \/ Hay(chInterrupt, "NO_CONTINUA")
         /\ IF Hay(chInterrupt, "QUANTUM")
              THEN Last(chInterrupt) \in {Paquete("QUANTUM", deQ), Paquete("NO_CONTINUA", 0)}
              ELSE interrupcion = Paquete("QUANTUM", deQ)
<1>1. cpu.pid = deQ
  BY DEF Evicta, Pid
<1>2. /\ Para.motivo = "NO_CONTINUA" /\ Qu(deQ).motivo = "QUANTUM"
      /\ Para = Paquete("NO_CONTINUA", 0) /\ Qu(deQ) = Paquete("QUANTUM", deQ)
  BY DePaquete DEF Para, Qu
<1>3. IntDe("QUANTUM", deQ)
        => interrupcion = Paquete("QUANTUM", deQ)
  BY DEF Inv, Tipos, IntDe, IntM, IntP, Paquete
<1>4. CASE chInterrupt = <<Para>> /\ IntDe("QUANTUM", deQ)
  <2>1. DOMAIN chInterrupt = {1} /\ chInterrupt[1] = Para
    BY <1>4, UnoSolo
  <2>2. Hay(chInterrupt, "NO_CONTINUA") /\ ~ Hay(chInterrupt, "QUANTUM")
    BY <1>2, <2>1 DEF Hay
  <2> QED BY <1>1, <1>3, <1>4, <2>2
<1>5. CASE chInterrupt = <<Qu(deQ), Para>>
  <2>1. DOMAIN chInterrupt = {1, 2} /\ Len(chInterrupt) = 2
        /\ chInterrupt[1] = Qu(deQ) /\ chInterrupt[2] = Para
    BY <1>5, Dos
  <2>2. Hay(chInterrupt, "NO_CONTINUA") /\ Hay(chInterrupt, "QUANTUM")
    BY <1>2, <2>1 DEF Hay
  <2>3. Last(chInterrupt) = Para
    BY <2>1 DEF Last
  <2> QED BY <1>1, <1>2, <2>2, <2>3
<1>6. CASE chInterrupt = <<Para, Qu(deQ)>>
  <2>1. DOMAIN chInterrupt = {1, 2} /\ Len(chInterrupt) = 2
        /\ chInterrupt[1] = Para /\ chInterrupt[2] = Qu(deQ)
    BY <1>6, Dos
  <2>2. Hay(chInterrupt, "NO_CONTINUA") /\ Hay(chInterrupt, "QUANTUM")
    BY <1>2, <2>1 DEF Hay
  <2>3. Last(chInterrupt) = Qu(deQ)
    BY <2>1 DEF Last
  <2> QED BY <1>1, <1>2, <2>2, <2>3
<1>7. CASE Fase = "interrumpe" /\ chInterrupt = <<>> /\ IntDe("QUANTUM", deQ)
  <2>1. ~ Hay(chInterrupt, "QUANTUM")
    BY <1>7 DEF Hay
  <2> QED BY <1>1, <1>3, <1>7, <2>1 DEF Fase
<1>8. CASE Fase = "interrumpe" /\ chInterrupt = <<Qu(deQ)>>
  <2>1. DOMAIN chInterrupt = {1} /\ Len(chInterrupt) = 1 /\ chInterrupt[1] = Qu(deQ)
    BY <1>8, UnoSolo
  <2>2. Hay(chInterrupt, "QUANTUM")
    BY <1>2, <2>1 DEF Hay
  <2>3. Last(chInterrupt) = Qu(deQ)
    BY <2>1 DEF Last
  <2> QED BY <1>1, <1>2, <1>8, <2>2, <2>3 DEF Fase
<1> QED BY <1>4, <1>5, <1>6, <1>7, <1>8 DEF Evicta

LEMMA InvContextoViene ==
  ASSUME Inv
  PROVE  ContextoViene
<1> SUFFICES ASSUME Tem = "contexto"
             PROVE  \/ SRq > 0 \/ Hay(chCpu, "QUANTUM")
                    \/ Evicta
  BY InvEvicta DEF ContextoViene, Tem, SRq
<1>1. PorQuantum
  BY DEF Inv, Turno, RepQ
<1>2. CASE SRq = 1
  BY <1>2
<1>3. CASE Devuelve
  <2>1. 1 \in DOMAIN chCpu /\ chCpu[1].motivo = "QUANTUM"
    BY <1>3, UnoSolo, DePaquete DEF Devuelve, Qu
  <2> QED BY <2>1 DEF Hay
<1> QED BY <1>1, <1>2, <1>3 DEF PorQuantum

LEMMA InvTypeOK ==
  ASSUME Inv
  PROVE  TypeOK
<1>1. PICK p \in Pids : exec = <<p>>
  BY DEF Inv, Tipos
<1>2. exec \in Seq(Pids) /\ Len(exec) = 1
  BY <1>1
<1> QED BY <1>2 DEF Inv, Tipos, TypeOK, Fase, Pid

\* Until a crossing every semaphore keeps its bound, every thread is at one of its points
\* and the head of cola_exec is the only process in it (planificacion_de_procesos,
\* replanificar).
THEOREM TypeOKSiempre == Spec => [](SinCruces => TypeOK)
<1>1. (SinCruces => Inv) => (SinCruces => TypeOK)
  BY InvTypeOK
<1> QED BY <1>1, InvSiempre, PTL

\* Until a crossing, of the end of a quantum and the instruction that leaves the CPU only
\* one gets another process dispatched (replanificar, 1069 and 951): there is never a
\* post of sem_ejecutar while a pcb is on its way or the CPU goes on with one.
THEOREM UnDespachoSiempre == Spec => []UnDespacho
<1>1. (SinCruces => Inv) => UnDespacho
  BY InvUnDespacho DEF UnDespacho
<1> QED BY <1>1, InvSiempre, PTL

\* Until a crossing, the packet recibir_respuesta_cpu loads into the head of cola_exec
\* (393) comes from the process that is there.
THEOREM PaqueteDelEjecutadoSiempre == Spec => []PaqueteDelEjecutado
<1>1. (SinCruces => Inv) => PaqueteDelEjecutado
  BY InvPaqueteDelEjecutado DEF PaqueteDelEjecutado
<1> QED BY <1>1, InvSiempre, PTL

\* Until a crossing, an instruction that leaves the CPU after its quantum ended (1152)
\* does not wait for a timer that is gone.
THEOREM VerificaRespondidaSiempre == Spec => []VerificaRespondida
<1>1. (SinCruces => Inv) => VerificaRespondida
  BY InvVerificaRespondida DEF VerificaRespondida
<1> QED BY <1>1, InvSiempre, PTL

\* Until a crossing, the timer that waits for the context of the process it evicts (970),
\* with sem_planificacion taken, gets it: the CPU has sent it or was told to.
THEOREM ContextoVieneSiempre == Spec => []ContextoViene
<1>1. (SinCruces => Inv) => ContextoViene
  BY InvContextoViene DEF ContextoViene
<1> QED BY <1>1, InvSiempre, PTL

----------------------------------------------------------------------------
(* How many times a process is in a queue.                                 *)

LEMMA EnTramo ==
  ASSUME NEW s \in Seq(Pids), NEW p
  PROVE  /\ IsFiniteSet({i \in DOMAIN s : s[i] = p}) /\ Veces(s, p) \in Nat
         /\ {i \in DOMAIN s : s[i] = p} \subseteq 1..Len(s)
<1>1. DOMAIN s = 1..Len(s) /\ Len(s) \in Nat
  OBVIOUS
<1>2. IsFiniteSet(1..Len(s))
  BY <1>1, FS_Interval
<1>3. {i \in DOMAIN s : s[i] = p} \in SUBSET (1..Len(s))
  BY <1>1
<1>4. IsFiniteSet({i \in DOMAIN s : s[i] = p})
  BY <1>2, <1>3, FS_Subset
<1> QED BY <1>3, <1>4, FS_CardinalityType DEF Veces

LEMMA VecesUnidas ==
  ASSUME NEW s \in Seq(Pids), NEW t \in Seq(Pids), NEW p
  PROVE  Veces(s \o t, p) = Veces(s, p) + Veces(t, p)
<1> DEFINE A == {i \in DOMAIN s : s[i] = p}
<1> DEFINE B == {i \in DOMAIN t : t[i] = p}
<1> DEFINE C == {i \in DOMAIN (s \o t) : (s \o t)[i] = p}
<1> DEFINE D == {i \in C : i > Len(s)}
<1> DEFINE f == [i \in B |-> i + Len(s)]
<1>1. /\ Len(s) \in Nat /\ Len(t) \in Nat /\ DOMAIN s = 1..Len(s) /\ DOMAIN t = 1..Len(t)
      /\ s \o t \in Seq(Pids) /\ Len(s \o t) = Len(s) + Len(t)
      /\ DOMAIN (s \o t) = 1..(Len(s) + Len(t))
  OBVIOUS
<1>2. \A i \in 1..(Len(s) + Len(t)) :
        (s \o t)[i] = IF i <= Len(s) THEN s[i] ELSE t[i - Len(s)]
  BY ConcatProperties
<1>3. IsFiniteSet(A) /\ IsFiniteSet(B) /\ IsFiniteSet(C)
  BY <1>1, EnTramo
<1>4. D \in SUBSET C
  OBVIOUS
<1>5. IsFiniteSet(D)
  BY <1>3, <1>4, FS_Subset
<1>6. C = A \cup D /\ A \cap D = {}
  BY <1>1, <1>2
<1>7. f \in [B -> D]
  BY <1>1, <1>2
<1>8. \A i, j \in B : f[i] = f[j] => i = j
  BY <1>1
<1>9. \A k \in D : \E i \in B : f[i] = k
  <2> SUFFICES ASSUME NEW k \in D
               PROVE  \E i \in B : f[i] = k
    OBVIOUS
  <2>1. k - Len(s) \in B
    BY <1>1, <1>2
  <2> QED BY <1>1, <2>1
<1>10. f \in Bijection(B, D)
  <2> HIDE DEF A, B, C, D, f
  <2> QED BY <1>7, <1>8, <1>9, Fun_IsBij
<1>11. ExistsBijection(B, D)
  BY <1>10, Fun_ExistsBij
<1>12. Cardinality(D) = Cardinality(B)
  <2> HIDE DEF A, B, C, D, f
  <2> QED BY <1>3, <1>11, FS_Bijection
<1>13. Cardinality(C) = Cardinality(A) + Cardinality(D)
  <2> HIDE DEF A, B, C, D, f
  <2>1. Cardinality(C) = Cardinality(A) + Cardinality(D) - Cardinality({})
    BY <1>3, <1>5, <1>6, FS_Union
  <2>2. Cardinality({}) = 0 /\ Cardinality(A) \in Nat /\ Cardinality(D) \in Nat
    BY <1>3, <1>5, FS_EmptySet, FS_CardinalityType
  <2> QED BY <2>1, <2>2
<1> QED BY <1>12, <1>13 DEF Veces

LEMMA VecesUno ==
  ASSUME NEW a, NEW p
  PROVE  Veces(<<a>>, p) = IF a = p THEN 1 ELSE 0
<1>1. {i \in DOMAIN <<a>> : <<a>>[i] = p} = IF a = p THEN {1} ELSE {}
  BY UnoSolo
<1> QED BY <1>1, FS_Singleton, FS_EmptySet DEF Veces

LEMMA VecesAlFinal ==
  ASSUME NEW s \in Seq(Pids), NEW a \in Pids, NEW p
  PROVE  Veces(Append(s, a), p) = Veces(s, p) + (IF a = p THEN 1 ELSE 0)
<1>1. Append(s, a) = s \o <<a>> /\ <<a>> \in Seq(Pids)
  BY AppendIsConcat
<1>2. Veces(s \o <<a>>, p) = Veces(s, p) + Veces(<<a>>, p)
  BY <1>1, VecesUnidas
<1>3. Veces(<<a>>, p) = IF a = p THEN 1 ELSE 0
  BY VecesUno
<1> QED BY <1>1, <1>2, <1>3

LEMMA VecesSinCabeza ==
  ASSUME NEW s \in Seq(Pids), s # <<>>, NEW p
  PROVE  Veces(s, p) = Veces(Tail(s), p) + (IF Head(s) = p THEN 1 ELSE 0)
<1>1. Head(s) \in Pids /\ Tail(s) \in Seq(Pids) /\ <<Head(s)>> \in Seq(Pids)
  OBVIOUS
<1>2. s = <<Head(s)>> \o Tail(s)
  <2>1. Len(<<Head(s)>> \o Tail(s)) = Len(s) /\ <<Head(s)>> \o Tail(s) \in Seq(Pids)
    BY <1>1
  <2>2. \A i \in 1..Len(s) : (<<Head(s)>> \o Tail(s))[i] = s[i]
    BY <1>1
  <2> QED BY <2>1, <2>2, SeqEqual
<1>3. Veces(<<Head(s)>> \o Tail(s), p) = Veces(<<Head(s)>>, p) + Veces(Tail(s), p)
  BY <1>1, VecesUnidas
<1>4. Veces(<<Head(s)>>, p) = IF Head(s) = p THEN 1 ELSE 0
  BY VecesUno
<1>5. Veces(Tail(s), p) \in Nat
  BY <1>1, EnTramo
<1>6. Veces(s, p) = Veces(<<Head(s)>> \o Tail(s), p)
  BY <1>2, Zenon
<1> QED BY <1>3, <1>4, <1>5, <1>6

LEMMA Sumandos ==
  ASSUME Tipos, NEW p
  PROVE  /\ Veces(ready, p) \in Nat /\ Veces(readyM, p) \in Nat /\ Veces(colaRec, p) \in Nat
         /\ Uno(bloqueados, p) \in {0, 1} /\ Uno(terminados, p) \in {0, 1}
         /\ Cuenta(p) \in Nat
<1>1. /\ Veces(ready, p) \in Nat /\ Veces(readyM, p) \in Nat /\ Veces(colaRec, p) \in Nat
  BY EnTramo DEF Tipos
<1>2. Uno(bloqueados, p) \in {0, 1} /\ Uno(terminados, p) \in {0, 1}
  BY DEF Uno
<1> QED BY <1>1, <1>2 DEF Cuenta

\* iniciar puts a process in one of the two queues.
LEMMA CuentaIniciado ==
  ASSUME Tipos, NEW p \in Pids, Inicia(p), NEW q
  PROVE  /\ Veces(ready', q) \in Nat /\ Veces(readyM', q) \in Nat
         /\ Veces(ready', q) + Veces(readyM', q)
              = Veces(ready, q) + Veces(readyM, q) + (IF p = q THEN 1 ELSE 0)
<1>1. /\ ready \in Seq(Pids) /\ readyM \in Seq(Pids)
      /\ Veces(ready, q) \in Nat /\ Veces(readyM, q) \in Nat
  BY Sumandos DEF Tipos
<1>2. CASE Algoritmo = "VRR"
  <2>1. ready' = ready /\ readyM' = Append(readyM, p)
    BY <1>2 DEF Inicia
  <2>2. Veces(readyM', q) = Veces(readyM, q) + (IF p = q THEN 1 ELSE 0)
    BY <1>1, <2>1, VecesAlFinal
  <2> QED BY <1>1, <2>1, <2>2
<1>3. CASE Algoritmo # "VRR"
  <2>1. readyM' = readyM /\ ready' = Append(ready, p)
    BY <1>3 DEF Inicia
  <2>2. Veces(ready', q) = Veces(ready, q) + (IF p = q THEN 1 ELSE 0)
    BY <1>1, <2>1, VecesAlFinal
  <2> QED BY <1>1, <2>1, <2>2
<1> QED BY <1>2, <1>3

\* signal takes a process from the queue of the resource to one of them.
LEMMA CuentaSoltado ==
  ASSUME Tipos, SueltaRecurso, NEW q
  PROVE  Veces(ready', q) + Veces(readyM', q) + Veces(colaRec', q)
           = Veces(ready, q) + Veces(readyM, q) + Veces(colaRec, q)
<1>1. CASE colaRec = <<>>
  BY <1>1 DEF SueltaRecurso
<1>2. CASE colaRec # <<>>
  <2>1. Inicia(Head(colaRec)) /\ colaRec' = Tail(colaRec)
    BY <1>2 DEF SueltaRecurso
  <2>2. Head(colaRec) \in Pids /\ Tail(colaRec) \in Seq(Pids) /\ colaRec \in Seq(Pids)
    BY <1>2 DEF Tipos
  <2>3. Veces(colaRec, q) = Veces(colaRec', q) + (IF Head(colaRec) = q THEN 1 ELSE 0)
    BY <1>2, <2>1, <2>2, VecesSinCabeza
  <2>4. /\ Veces(ready', q) \in Nat /\ Veces(readyM', q) \in Nat
        /\ Veces(ready', q) + Veces(readyM', q)
             = Veces(ready, q) + Veces(readyM, q) + (IF Head(colaRec) = q THEN 1 ELSE 0)
    BY <2>1, <2>2, CuentaIniciado
  <2>5. Veces(colaRec', q) \in Nat
    BY <2>1, <2>2, EnTramo
  <2> QED BY <2>3, <2>4, <2>5, Sumandos
<1> QED BY <1>1, <1>2

----------------------------------------------------------------------------
(* A process is in one queue, or it is the one in cola_exec.               *)

LEMMA ManoIgual ==
  ASSUME Esc' = Esc, Tem' = Tem, desaloja' = desaloja, SEj' = SEj, SRq' = SRq
  PROVE  EnMano' <=> EnMano
BY DEF EnMano

LEMMA CuentaIgual ==
  ASSUME NEW p, ready' = ready, readyM' = readyM, colaRec' = colaRec,
         bloqueados' = bloqueados, terminados' = terminados
  PROVE  Cuenta(p)' = Cuenta(p)
BY DEF Cuenta, Veces, Uno

\* The queues as they were, or with a process moved from one to another.
LEMMA LugaresIgual ==
  ASSUME Lugares, EnMano' <=> EnMano, EnMano => exec' = exec,
         \A p \in Pids : Cuenta(p)' = Cuenta(p)
  PROVE  Lugares'
BY DEF Lugares

\* The process of cola_exec put in a queue.
LEMMA LugaresEntra ==
  ASSUME Lugares, NEW p \in Pids, exec = <<p>>, EnMano, ~ EnMano',
         \A q \in Pids : Cuenta(q)' = Cuenta(q) + (IF q = p THEN 1 ELSE 0)
  PROVE  Lugares'
<1> SUFFICES ASSUME NEW q \in Pids
             PROVE  Cuenta(q)' = 1
  BY DEF Lugares
<1>1. Cuenta(q) = IF exec = <<q>> THEN 0 ELSE 1
  BY DEF Lugares
<1>2. exec = <<q>> <=> q = p
  BY UnoSolo
<1> QED BY <1>1, <1>2

\* A process taken from a queue to cola_exec.
LEMMA LugaresSale ==
  ASSUME Lugares, NEW p \in Pids, exec' = <<p>>, ~ EnMano, EnMano',
         \A q \in Pids : Cuenta(q)' \in Int /\ Cuenta(q) = Cuenta(q)' + (IF q = p THEN 1 ELSE 0)
  PROVE  Lugares'
<1> SUFFICES ASSUME NEW q \in Pids
             PROVE  Cuenta(q)' = IF exec' = <<q>> THEN 0 ELSE 1
  BY DEF Lugares
<1>1. Cuenta(q) = 1
  BY DEF Lugares
<1>2. exec' = <<q>> <=> q = p
  BY UnoSolo
<1> QED BY <1>1, <1>2

\* The steps that touch no queue and leave the threads where the process is as it was.
LEMMA LugaresQuietos ==
  ASSUME Lugares, EnMano' <=> EnMano, UNCHANGED colas
  PROVE  Lugares'
BY CuentaIgual, LugaresIgual DEF colas

\* While escucha attends to a request, its process is the one in cola_exec.
LEMMA EnManoAtiende ==
  ASSUME Inv, Esc \in Antes \cup Despues, Esc # "esperaPlani"
  PROVE  /\ EnMano /\ deQ \in Pids /\ exec = <<deQ>> /\ pedido.pid = deQ
         /\ SEj = 0 /\ SRq = 0 /\ Tem \notin RepQ
<1>1. /\ deQ \in Pids /\ exec = <<deQ>> /\ pedido.pid = deQ
      /\ SEj = 0 /\ SRq = 0 /\ Tem \notin RepQ
  BY EnAtencion
<1> QED BY <1>1 DEF EnMano, Antes, Despues, RepQ, Rep

LEMMA CpuLugares ==
  ASSUME Inv, Lugares, Cpu
  PROVE  Lugares'
<1>1. UNCHANGED <<sem, pc, banderas, colas>>
  BY DEF Cpu, CpuRecibePcb, CpuInstruccion, CpuContinua, CpuNoContinua,
     CpuRecibeInterrupcion, CpuAtiendeInterrupcion
<1>2. EnMano' <=> EnMano
  BY <1>1, KernelIgual, ManoIgual
<1> QED BY <1>1, <1>2, LugaresQuietos

LEMMA PideInstruccionLugares ==
  ASSUME Inv, Inv', Lugares, PideInstruccion
  PROVE  Lugares'
<1>1. /\ Esc = "recibe" /\ Esc' \in {"avisa", "atiende"} /\ Tem' = Tem
      /\ SEj' = SEj /\ SRq' = SRq
  <2>1. CASE fin
    <3>1. Va("escucha", "atiende") /\ sem' = sem
      BY <2>1 DEF PideInstruccion
    <3>2. Esc' = "atiende" /\ Tem' = Tem
      BY <3>1, VaEscucha DEF Inv, Tipos, Antes
    <3> QED BY <3>1, <3>2, MismoSem DEF SemIgual, PideInstruccion, Llega, Esc
  <2>2. CASE ~ fin
    <3>1. Va("escucha", "avisa") /\ Sube("termino_la_instruccion")
      BY <2>2 DEF PideInstruccion
    <3>2. Esc' = "avisa" /\ Tem' = Tem
      BY <3>1, VaEscucha DEF Inv, Tipos, Antes
    <3>3. SemIgual
      BY <3>1, SubeAjeno DEF Inv, Tipos, Ajenos
    <3> QED BY <3>2, <3>3 DEF SemIgual, PideInstruccion, Llega, Esc
  <2> QED BY <2>1, <2>2
<1>2. desaloja' = desaloja /\ ~ desaloja'
  BY <1>1 DEF PideInstruccion, Inv, Acuerdo, Antes
<1>3. EnMano' <=> EnMano
  BY <1>1, <1>2 DEF EnMano, Rep
<1>4. chCpu # <<>> /\ Head(chCpu).motivo # "FIN" /\ exec' = <<Head(chCpu).pid>>
  BY DEF PideInstruccion, Llega, Instrucciones
<1>5. exec' = exec
  BY <1>4, InvPaqueteDelEjecutado
<1>6. \A p \in Pids : Cuenta(p)' = Cuenta(p)
  BY CuentaIgual DEF PideInstruccion
<1> QED BY <1>3, <1>5, <1>6, LugaresIgual

LEMMA AvisaEsperaLugares ==
  ASSUME Inv, Lugares, AvisaEspera
  PROVE  Lugares'
<1>1. Esc = "avisa" /\ Va("escucha", "pausa") /\ sem' = sem /\ desaloja' = desaloja
      /\ UNCHANGED colas
  BY DEF AvisaEspera, Esc
<1>2. Esc' = "pausa" /\ Tem' = Tem
  BY <1>1, VaEscucha DEF Inv, Tipos, Antes
<1>3. EnMano' <=> EnMano
  BY <1>1, <1>2, MismoSem DEF SemIgual, EnMano, Rep
<1> QED BY <1>1, <1>3, LugaresQuietos

LEMMA TerminaPausaLugares ==
  ASSUME Inv, Lugares, TerminaPausa
  PROVE  Lugares'
<1>1. /\ Esc = "pausa" /\ Va("escucha", "atiende") /\ Baja("sem_pausa_conteo_quantum")
      /\ desaloja' = desaloja /\ exec' = <<pedido.pid>>
  BY DEF TerminaPausa, Esc
<1>2. Esc' = "atiende" /\ Tem' = Tem
  BY <1>1, VaEscucha DEF Inv, Tipos, Antes
<1>3. SemIgual
  BY <1>1, SubeAjeno DEF Inv, Tipos, Ajenos
<1>4. EnMano' <=> EnMano
  BY <1>1, <1>2, <1>3 DEF SemIgual, EnMano, Rep
<1>5. exec' = exec
  BY <1>1, EnManoAtiende DEF Antes
<1>6. \A p \in Pids : Cuenta(p)' = Cuenta(p)
  BY CuentaIgual DEF TerminaPausa
<1> QED BY <1>4, <1>5, <1>6, LugaresIgual

\* escucha goes on with the process, which stays in the CPU.
LEMMA SigueEnMano ==
  ASSUME Inv, Esc = "atiende", Esc' = "recibe", Tem' = Tem, desaloja' = desaloja, SemIgual
  PROVE  EnMano' <=> EnMano
<1>1. ~ desaloja
  BY DEF Inv, Acuerdo, Antes
<1> QED BY <1>1 DEF SemIgual, EnMano, Rep

LEMMA AtiendeWaitLugares ==
  ASSUME Inv, Lugares, AtiendeWait
  PROVE  Lugares'
<1>1. /\ Esc = "atiende" /\ Va("escucha", "recibe") /\ desaloja' = desaloja
      /\ (IF fin THEN sem' = sem ELSE Sube("sem_esperar_instruccion")) /\ exec' = exec
  BY DEF AtiendeWait, Atendido, Esc, banderas
<1>2. Esc' = "recibe" /\ Tem' = Tem
  BY <1>1, VaEscucha DEF Inv, Tipos
<1>3. SemIgual
  BY <1>1, SubeAjeno, MismoSem DEF Inv, Tipos, Ajenos
<1>4. EnMano' <=> EnMano
  BY <1>1, <1>2, <1>3, SigueEnMano
<1>5. \A p \in Pids : Cuenta(p)' = Cuenta(p)
  BY CuentaIgual DEF AtiendeWait
<1> QED BY <1>1, <1>4, <1>5, LugaresIgual

LEMMA AtiendeSignalLugares ==
  ASSUME Inv, Lugares, AtiendeSignal
  PROVE  Lugares'
<1>1. /\ Esc = "atiende" /\ Va("escucha", "recibe") /\ desaloja' = desaloja
      /\ SueltaRecurso /\ exec' = exec /\ bloqueados' = bloqueados /\ terminados' = terminados
  BY DEF AtiendeSignal, Atendido, Esc, banderas
<1>2. Esc' = "recibe" /\ Tem' = Tem
  BY <1>1, VaEscucha DEF Inv, Tipos
<1>3. SemIgual
  BY <1>1, Soltado DEF Inv
<1>4. EnMano' <=> EnMano
  BY <1>1, <1>2, <1>3, SigueEnMano
<1>5. ASSUME NEW p \in Pids
      PROVE  Cuenta(p)' = Cuenta(p)
  <2>1. Veces(ready', p) + Veces(readyM', p) + Veces(colaRec', p)
          = Veces(ready, p) + Veces(readyM, p) + Veces(colaRec, p)
    BY <1>1, CuentaSoltado DEF Inv
  <2>2. Cuenta(p)' = Veces(ready', p) + Veces(readyM', p) + Veces(colaRec', p)
                       + Uno(bloqueados, p) + Uno(terminados, p)
    BY <1>1 DEF Cuenta, Veces, Uno
  <2> QED BY <2>1, <2>2 DEF Cuenta
<1> QED BY <1>1, <1>4, <1>5, LugaresIgual

LEMMA AtiendeDesalojoLugares ==
  ASSUME Inv, Lugares, AtiendeDesalojo
  PROVE  Lugares'
<1>1. Esc = "atiende" /\ Va("escucha", "cede") /\ sem' = sem /\ UNCHANGED colas
  BY DEF AtiendeDesalojo, Esc
<1>2. Esc' = "cede" /\ Tem' = Tem
  BY <1>1, VaEscucha DEF Inv, Tipos, Despues
<1>3. EnMano' <=> EnMano
  BY <1>1, <1>2, MismoSem DEF SemIgual, EnMano, Rep
<1> QED BY <1>1, <1>3, LugaresQuietos

LEMMA CedeLugares ==
  ASSUME Inv, Lugares, Cede
  PROVE  Lugares'
<1>1. Esc = "cede" /\ desaloja' = desaloja /\ UNCHANGED colas
  BY DEF Cede, Esc, banderas
<1>2. /\ Esc' \in {"verifica", "pausa2"} /\ Tem' = Tem /\ SEj' = SEj /\ SRq' = SRq
  <2>1. CASE fin
    <3>1. Va("escucha", "verifica") /\ Sube("sem_desalojo_quantum")
      BY <2>1 DEF Cede
    <3>2. Esc' = "verifica" /\ Tem' = Tem
      BY <3>1, VaEscucha DEF Inv, Tipos, Despues
    <3> QED BY <3>1, <3>2, SubeDq DEF Inv, Tipos
  <2>2. CASE ~ fin
    <3>1. Va("escucha", "pausa2") /\ Sube("sem_esperar_instruccion")
      BY <2>2 DEF Cede
    <3>2. Esc' = "pausa2" /\ Tem' = Tem
      BY <3>1, VaEscucha DEF Inv, Tipos, Despues
    <3>3. SemIgual
      BY <3>1, SubeAjeno DEF Inv, Tipos, Ajenos
    <3> QED BY <3>2, <3>3 DEF SemIgual
  <2> QED BY <2>1, <2>2
<1>3. EnMano' <=> EnMano
  BY <1>1, <1>2 DEF EnMano, Rep
<1> QED BY <1>1, <1>3, LugaresQuietos

LEMMA CedioLugares ==
  ASSUME Inv, Lugares, Cedio
  PROVE  Lugares'
<1>1. /\ Esc \in {"verifica", "pausa2"} /\ Va("escucha", "bloquea") /\ desaloja' = desaloja
      /\ Baja("sem_verificar_desalojo_quantum") \/ Baja("sem_pausa_conteo_quantum")
      /\ UNCHANGED colas
  BY DEF Cedio, Esc, banderas
<1>2. Esc' = "bloquea" /\ Tem' = Tem
  BY <1>1, VaEscucha DEF Inv, Tipos, Despues
<1>3. SEj' = SEj /\ SRq' = SRq
  <2>1. CASE Baja("sem_verificar_desalojo_quantum")
    BY <2>1, BajaVq DEF Inv, Tipos
  <2>2. CASE Baja("sem_pausa_conteo_quantum")
    <3>1. SemIgual
      BY <2>2, SubeAjeno DEF Inv, Tipos, Ajenos
    <3> QED BY <3>1 DEF SemIgual
  <2> QED BY <1>1, <2>1, <2>2
<1>4. EnMano' <=> EnMano
  BY <1>1, <1>2, <1>3 DEF EnMano, Rep
<1> QED BY <1>1, <1>4, LugaresQuietos

LEMMA NoEsta ==
  ASSUME Tipos, Lugares, EnMano, NEW p \in Pids, exec = <<p>>
  PROVE  Uno(bloqueados, p) = 0 /\ Uno(terminados, p) = 0
<1>1. Cuenta(p) = 0
  BY DEF Lugares
<1> QED BY <1>1, Sumandos DEF Cuenta

LEMMA UnoMas ==
  ASSUME NEW S, NEW p, Uno(S, p) = 0, NEW q
  PROVE  Uno(S \cup {p}, q) = Uno(S, q) + (IF q = p THEN 1 ELSE 0)
BY DEF Uno

LEMMA BloqueaIOLugares ==
  ASSUME Inv, Lugares, BloqueaIO
  PROVE  Lugares'
<1>1. /\ Esc = "bloquea" /\ Va("escucha", "esperaPlani")
      /\ bloqueados' = bloqueados \cup {pedido.pid}
      /\ ready' = ready /\ readyM' = readyM /\ colaRec' = colaRec /\ terminados' = terminados
  BY DEF BloqueaIO, Esc
<1>2. EnMano /\ deQ \in Pids /\ exec = <<deQ>> /\ pedido.pid = deQ
  BY <1>1, EnManoAtiende DEF Despues
<1>3. ~ EnMano'
  BY <1>1, VaEscucha DEF Inv, Tipos, Despues, EnMano
<1>4. ASSUME NEW q \in Pids
      PROVE  Cuenta(q)' = Cuenta(q) + (IF q = deQ THEN 1 ELSE 0)
  <2>1. Uno(bloqueados', q) = Uno(bloqueados, q) + (IF q = deQ THEN 1 ELSE 0)
    BY <1>1, <1>2, NoEsta, UnoMas DEF Inv
  <2>2. Cuenta(q)' = Veces(ready, q) + Veces(readyM, q) + Veces(colaRec, q)
                       + Uno(bloqueados', q) + Uno(terminados, q)
    BY <1>1 DEF Cuenta, Veces, Uno
  <2> QED BY <2>1, <2>2, Sumandos DEF Inv, Cuenta
<1> QED BY <1>2, <1>3, <1>4, LugaresEntra

LEMMA EnviaIOLugares ==
  ASSUME Inv, Lugares, EnviaIO
  PROVE  Lugares'
<1>1. /\ Esc = "esperaPlani" /\ Va("escucha", "recibe") /\ sem' = sem /\ desaloja' = desaloja
      /\ UNCHANGED colas
  BY DEF EnviaIO, Atendido, Esc, banderas
<1>2. Esc' = "recibe" /\ Tem' = Tem /\ SEj' = SEj
  BY <1>1, VaEscucha, MismoSem DEF Inv, Tipos, SemIgual
<1>3. desaloja /\ SEj = 0
  BY <1>1, EnAtencion DEF Inv, Acuerdo, Despues
<1>4. ~ EnMano /\ ~ EnMano'
  BY <1>1, <1>2, <1>3 DEF EnMano
<1> QED BY <1>1, <1>4, LugaresQuietos

LEMMA BloqueaWaitLugares ==
  ASSUME Inv, Lugares, BloqueaWait
  PROVE  Lugares'
<1>1. /\ Esc = "bloquea" /\ Va("escucha", "recibe") /\ sem' = sem /\ desaloja' = desaloja
      /\ colaRec' = Append(colaRec, pedido.pid) /\ ready' = ready /\ readyM' = readyM
      /\ bloqueados' = bloqueados /\ terminados' = terminados
  BY DEF BloqueaWait, Atendido, Esc, banderas
<1>2. EnMano /\ deQ \in Pids /\ exec = <<deQ>> /\ pedido.pid = deQ /\ SEj = 0
  BY <1>1, EnManoAtiende DEF Despues
<1>3. Esc' = "recibe" /\ SEj' = SEj
  BY <1>1, VaEscucha, MismoSem DEF Inv, Tipos, SemIgual
<1>4. ~ EnMano'
  BY <1>1, <1>2, <1>3 DEF EnMano, Inv, Acuerdo, Despues
<1>5. ASSUME NEW q \in Pids
      PROVE  Cuenta(q)' = Cuenta(q) + (IF q = deQ THEN 1 ELSE 0)
  <2>1. colaRec \in Seq(Pids) /\ colaRec' = Append(colaRec, deQ)
    BY <1>1, <1>2 DEF Inv, Tipos
  <2>2. Veces(colaRec', q) = Veces(colaRec, q) + (IF deQ = q THEN 1 ELSE 0)
    BY <1>2, <2>1, VecesAlFinal
  <2>3. Cuenta(q)' = Veces(ready, q) + Veces(readyM, q) + Veces(colaRec', q)
                       + Uno(bloqueados, q) + Uno(terminados, q)
    BY <1>1 DEF Cuenta, Veces, Uno
  <2> QED BY <2>2, <2>3, Sumandos DEF Inv, Cuenta
<1> QED BY <1>2, <1>4, <1>5, LugaresEntra

LEMMA SaleLugares ==
  ASSUME Inv, Lugares, Sale
  PROVE  Lugares'
<1>1. /\ Esc = "bloquea" /\ Va("escucha", "recibe") /\ desaloja' = desaloja
      /\ IF duenio = pedido.pid THEN SueltaRecurso
                                ELSE UNCHANGED <<sem, ready, readyM, duenio, colaRec>>
      /\ terminados' = terminados \cup {pedido.pid} /\ bloqueados' = bloqueados
  BY DEF Sale, Atendido, Esc, banderas
<1>2. EnMano /\ deQ \in Pids /\ exec = <<deQ>> /\ pedido.pid = deQ /\ SEj = 0
  BY <1>1, EnManoAtiende DEF Despues
<1>3. SemIgual
  BY <1>1, Soltado, MismoSem DEF Inv
<1>4. Esc' = "recibe" /\ SEj' = SEj
  BY <1>1, <1>3, VaEscucha DEF Inv, Tipos, SemIgual
<1>5. ~ EnMano'
  BY <1>1, <1>2, <1>4 DEF EnMano, Inv, Acuerdo, Despues
<1>6. ASSUME NEW q \in Pids
      PROVE  Cuenta(q)' = Cuenta(q) + (IF q = deQ THEN 1 ELSE 0)
  <2>1. Uno(terminados', q) = Uno(terminados, q) + (IF q = deQ THEN 1 ELSE 0)
    BY <1>1, <1>2, NoEsta, UnoMas DEF Inv
  <2>2. Veces(ready', q) + Veces(readyM', q) + Veces(colaRec', q)
          = Veces(ready, q) + Veces(readyM, q) + Veces(colaRec, q)
    <3>1. CASE duenio = pedido.pid
      BY <1>1, <3>1, CuentaSoltado DEF Inv
    <3>2. CASE duenio # pedido.pid
      BY <1>1, <3>2
    <3> QED BY <3>1, <3>2
  <2>3. Cuenta(q)' = Veces(ready', q) + Veces(readyM', q) + Veces(colaRec', q)
                       + Uno(bloqueados, q) + Uno(terminados', q)
    BY <1>1 DEF Cuenta, Veces, Uno
  <2> QED BY <2>1, <2>2, <2>3, Sumandos DEF Inv, Cuenta
<1> QED BY <1>2, <1>5, <1>6, LugaresEntra

LEMMA FinPorQuantumLugares ==
  ASSUME Inv, Lugares, FinPorQuantum
  PROVE  Lugares'
<1>1. pc' = pc /\ desaloja' = desaloja /\ Sube("sem_desalojo_quantum") /\ UNCHANGED colas
  BY DEF FinPorQuantum, banderas
<1>2. SEj' = SEj /\ SRq' = SRq
  BY <1>1, SubeDq DEF Inv, Tipos
<1>3. EnMano' <=> EnMano
  BY <1>1, <1>2, PcIgual, ManoIgual
<1> QED BY <1>1, <1>3, LugaresQuietos

LEMMA FinDesalojaLugares ==
  ASSUME Inv, Lugares, FinDesaloja
  PROVE  Lugares'
<1>1. /\ Llega({"FIN"}) /\ desaloja /\ Va("escucha", "replanifica") /\ UNCHANGED colas
  BY DEF FinDesaloja
<1>2. Esc' = "replanifica"
  BY <1>1, VaEscucha DEF Inv, Tipos, Rep
<1>3. Esc = "recibe" /\ SEj = 0
  BY <1>1, TerminaInstruccion DEF Ocupa
<1>4. ~ EnMano /\ ~ EnMano'
  BY <1>1, <1>2, <1>3 DEF EnMano, Rep
<1> QED BY <1>1, <1>4, LugaresQuietos

LEMMA FinContinuaLugares ==
  ASSUME Inv, Lugares, FinContinua
  PROVE  Lugares'
<1>1. pc' = pc /\ desaloja' = desaloja /\ sem' = sem /\ UNCHANGED colas
  BY DEF FinContinua, banderas
<1>2. EnMano' <=> EnMano
  BY <1>1, PcIgual, MismoSem, ManoIgual DEF SemIgual
<1> QED BY <1>1, <1>2, LugaresQuietos

LEMMA LlegaContextoLugares ==
  ASSUME Inv, Lugares, LlegaContexto
  PROVE  Lugares'
<1>1. /\ Llega({"QUANTUM"}) /\ ready' = Append(ready, Head(chCpu).pid)
      /\ Suben({"sem_replanificacion_quantum", "sem_procesos_en_ready"})
      /\ readyM' = readyM /\ colaRec' = colaRec /\ bloqueados' = bloqueados
      /\ terminados' = terminados
  BY DEF LlegaContexto
<1>2. /\ Esc = "recibe" /\ SRq = 0 /\ Tem \in {"desalojo", "replanifica", "contexto"}
      /\ ~ desaloja /\ exec = <<deQ>> /\ deQ \in Pids /\ Head(chCpu).pid = deQ
  BY <1>1, ContextoDevuelto
<1>3. EnMano
  BY <1>2 DEF EnMano, Rep
<1>4. SRq' = SRq + 1
  <2>1. {"sem_replanificacion_quantum", "sem_procesos_en_ready"} \in SUBSET Semaforos
    BY DEF Semaforos
  <2> QED BY <1>1, <2>1, Subidos DEF Inv, Tipos, Semaforos, SRq
<1>5. ~ EnMano'
  BY <1>2, <1>4 DEF EnMano
<1>6. ASSUME NEW q \in Pids
      PROVE  Cuenta(q)' = Cuenta(q) + (IF q = deQ THEN 1 ELSE 0)
  <2>1. ready \in Seq(Pids) /\ ready' = Append(ready, deQ)
    BY <1>1, <1>2 DEF Inv, Tipos
  <2>2. Veces(ready', q) = Veces(ready, q) + (IF deQ = q THEN 1 ELSE 0)
    BY <1>2, <2>1, VecesAlFinal
  <2>3. Cuenta(q)' = Veces(ready', q) + Veces(readyM, q) + Veces(colaRec, q)
                       + Uno(bloqueados, q) + Uno(terminados, q)
    BY <1>1 DEF Cuenta, Veces, Uno
  <2> QED BY <2>2, <2>3, Sumandos DEF Inv, Cuenta
<1> QED BY <1>2, <1>3, <1>5, <1>6, LugaresEntra

LEMMA ReplanificaLugares ==
  ASSUME Inv, Lugares, NEW t \in {"escucha", "q"}, Replanifica(t) \/ Mira(t)
  PROVE  Lugares'
<1>1. UNCHANGED colas /\ desaloja' = desaloja
  BY DEF Replanifica, Mira, banderas
<1>2. SEj' = SEj /\ SRq' = SRq
  <2>1. Baja("sem_planificacion") \/ sem' = sem
    BY DEF Replanifica, Mira
  <2>2. SemIgual
    BY <2>1, SubeAjeno, MismoSem DEF Inv, Tipos, Ajenos
  <2> QED BY <2>2 DEF SemIgual
<1>3. CASE t = "escucha"
  <2>1. /\ Esc \in {"replanifica", "mira"}
        /\ \E l \in {"mira", "elige", "eligeM"} : Va("escucha", l)
    BY <1>3 DEF Replanifica, Mira, Esc
  <2>2. Esc \in Rep /\ Esc' \in Rep
    BY <2>1, VaEscucha DEF Inv, Tipos, Rep
  <2>3. ~ EnMano /\ ~ EnMano'
    BY <2>2 DEF EnMano
  <2> QED BY <1>1, <2>3, LugaresQuietos
<1>4. CASE t = "q" /\ Replanifica(t)
  <2>1. Tem = "replanifica" /\ Va("q", "contexto")
    BY <1>4 DEF Replanifica, Tem
  <2>2. Tem' = "contexto" /\ Esc' = Esc
    BY <2>1, VaTemporizador DEF Inv, Tipos, EnFin, RepQ
  <2>3. EnMano' <=> EnMano
    BY <1>1, <1>2, <2>1, <2>2 DEF EnMano
  <2> QED BY <1>1, <2>3, LugaresQuietos
<1>5. CASE t = "q" /\ Mira(t)
  <2>1. Tem = "mira" /\ \E l \in {"elige", "eligeM"} : Va("q", l)
    BY <1>5 DEF Mira, Tem
  <2>2. Tem' \in {"elige", "eligeM"}
    BY <2>1, VaTemporizador DEF Inv, Tipos, EnFin, RepQ, Rep
  <2>3. ~ EnMano /\ ~ EnMano'
    BY <2>1, <2>2 DEF EnMano
  <2> QED BY <1>1, <2>3, LugaresQuietos
<1> QED BY <1>3, <1>4, <1>5

LEMMA EsperaContextoLugares ==
  ASSUME Inv, Lugares, EsperaContexto
  PROVE  Lugares'
<1>1. Baja("sem_replanificacion_quantum") /\ Va("q", "mira") /\ UNCHANGED colas
  BY DEF EsperaContexto
<1>2. Tem' = "mira"
  BY <1>1, VaTemporizador DEF Inv, Tipos, EnFin, RepQ, Rep
<1>3. SRq > 0
  BY <1>1 DEF Baja, SRq
<1>4. ~ EnMano /\ ~ EnMano'
  BY <1>2, <1>3 DEF EnMano
<1> QED BY <1>1, <1>4, LugaresQuietos

\* The head of a queue goes to cola_exec.
LEMMA Sacado ==
  ASSUME Inv, Lugares, NEW t \in {"escucha", "q"}, Elige(t) \/ EligeM(t), ~ EnMano, EnMano'
  PROVE  Lugares'
<1>1. ready \in Seq(Pids) /\ readyM \in Seq(Pids)
  BY DEF Inv, Tipos
<1>2. CASE Elige(t)
  <2> DEFINE p == Head(ready)
  <2>1. /\ ready # <<>> /\ ready' = Tail(ready) /\ readyM' = readyM /\ exec' = <<p>>
        /\ colaRec' = colaRec /\ bloqueados' = bloqueados /\ terminados' = terminados
    BY <1>2 DEF Elige, Elegido
  <2>2. p \in Pids /\ ready' \in Seq(Pids)
    BY <1>1, <2>1
  <2>3. ASSUME NEW q \in Pids
        PROVE  Cuenta(q)' \in Int /\ Cuenta(q) = Cuenta(q)' + (IF q = p THEN 1 ELSE 0)
    <3>1. Veces(ready, q) = Veces(ready', q) + (IF p = q THEN 1 ELSE 0)
      BY <1>1, <2>1, VecesSinCabeza
    <3>2. Cuenta(q)' = Veces(ready', q) + Veces(readyM, q) + Veces(colaRec, q)
                         + Uno(bloqueados, q) + Uno(terminados, q)
      BY <2>1 DEF Cuenta, Veces, Uno
    <3>3. Veces(ready', q) \in Nat
      BY <2>2, EnTramo
    <3> HIDE DEF p
    <3> QED BY <3>1, <3>2, <3>3, Sumandos DEF Inv, Cuenta
  <2> HIDE DEF p
  <2> QED BY <2>1, <2>2, <2>3, LugaresSale
<1>3. CASE EligeM(t)
  <2> DEFINE p == Head(readyM)
  <2>1. /\ readyM # <<>> /\ readyM' = Tail(readyM) /\ ready' = ready /\ exec' = <<p>>
        /\ colaRec' = colaRec /\ bloqueados' = bloqueados /\ terminados' = terminados
    BY <1>3 DEF EligeM, Elegido
  <2>2. p \in Pids /\ readyM' \in Seq(Pids)
    BY <1>1, <2>1
  <2>3. ASSUME NEW q \in Pids
        PROVE  Cuenta(q)' \in Int /\ Cuenta(q) = Cuenta(q)' + (IF q = p THEN 1 ELSE 0)
    <3>1. Veces(readyM, q) = Veces(readyM', q) + (IF p = q THEN 1 ELSE 0)
      BY <1>1, <2>1, VecesSinCabeza
    <3>2. Cuenta(q)' = Veces(ready, q) + Veces(readyM', q) + Veces(colaRec, q)
                         + Uno(bloqueados, q) + Uno(terminados, q)
      BY <2>1 DEF Cuenta, Veces, Uno
    <3>3. Veces(readyM', q) \in Nat
      BY <2>2, EnTramo
    <3> HIDE DEF p
    <3> QED BY <3>1, <3>2, <3>3, Sumandos DEF Inv, Cuenta
  <2> HIDE DEF p
  <2> QED BY <2>1, <2>2, <2>3, LugaresSale
<1> QED BY <1>2, <1>3

LEMMA EligeEscuchaLugares ==
  ASSUME Inv, Lugares, Elige("escucha") \/ EligeM("escucha")
  PROVE  Lugares'
<1>1. PICK p \in Pids, s \in {"sem_procesos_en_ready", "sem_procesos_en_ready_m"} :
        Elegido("escucha", p, s)
  BY DeLaCola DEF Inv
<1>2. Esc \in Rep
  BY DeLaCola DEF Inv, Esc, Rep
<1>3. SEj' = SEj + 1 /\ SRq' = SRq /\ Va("escucha", "recibe")
  BY <1>1, Eleccion DEF Inv
<1>4. Tem' = Tem /\ Esc' = "recibe"
  BY <1>3, VaEscucha DEF Inv, Tipos
<1>5. SRq = 0 /\ Tem \notin RepQ /\ SEj = 0
  BY <1>2, EnEleccion DEF Escoge
<1>6. ~ EnMano /\ EnMano'
  BY <1>2, <1>3, <1>4, <1>5 DEF EnMano, RepQ, Rep
<1> QED BY <1>6, Sacado

LEMMA EligeTemporizadorLugares ==
  ASSUME Inv, Lugares, Elige("q") \/ EligeM("q")
  PROVE  Lugares'
<1>1. PICK p \in Pids, s \in {"sem_procesos_en_ready", "sem_procesos_en_ready_m"} :
        Elegido("q", p, s)
  BY DeLaCola DEF Inv
<1>2. Tem \in {"elige", "eligeM"}
  BY DeLaCola DEF Inv, Tem
<1>3. SEj' = SEj + 1 /\ SRq' = SRq /\ Va("q", "cierra")
  BY <1>1, Eleccion DEF Inv
<1>4. Tem' = "cierra" /\ Esc' = Esc
  BY <1>3, VaTemporizador DEF Inv, Tipos, EnFin
<1>5. SRq = 0 /\ SEj = 0 /\ Esc = "recibe"
  BY <1>2, EnRelevo DEF PorQuantum, RepQ, Rep
<1>6. ~ EnMano /\ EnMano'
  BY <1>2, <1>3, <1>4, <1>5 DEF EnMano, Rep
<1> QED BY <1>6, Sacado

LEMMA DespachaLugares ==
  ASSUME Inv, Lugares, Despacha
  PROVE  Lugares'
<1>1. /\ Baja("sem_ejecutar") /\ desaloja' = FALSE /\ UNCHANGED colas
      /\ pc' = [pc EXCEPT !.despacho = "desalojo", !.q = "duerme", !.p = "espera"]
  BY DEF Despacha
<1>2. Esc' = Esc /\ Tem' = "duerme"
  BY <1>1 DEF Inv, Tipos, Puntos, Esc, Tem
<1>3. SEj > 0 /\ SRq' = SRq
  <2>1. "sem_ejecutar" \in Semaforos
    BY DEF Semaforos
  <2> QED BY <1>1, <2>1, Bajado DEF Inv, Tipos, Semaforos, SEj, SRq
<1>4. PorDespachar /\ ~ PorQuantum
  BY <1>3 DEF Inv, Turno, EnCamino, Ocupa, Escoge, PorQuantum
<1>5. Esc = "recibe" /\ SEj = 1 /\ SRq = 0 /\ Tem \notin RepQ
  BY <1>4 DEF PorDespachar, Inv, Turno
<1>6. EnMano /\ EnMano'
  BY <1>1, <1>2, <1>3, <1>5 DEF EnMano, RepQ, Rep
<1> QED BY <1>1, <1>6, LugaresQuietos

LEMMA TerminaDespachoLugares ==
  ASSUME Inv, Lugares, TerminaDespacho
  PROVE  Lugares'
<1>1. /\ Baja("sem_desalojo_planificacion") /\ Va("despacho", "ejecutar")
      /\ desaloja' = desaloja /\ UNCHANGED colas
  BY DEF TerminaDespacho, banderas
<1>2. Esc' = Esc /\ Tem' = Tem
  BY <1>1, VaDespacho DEF Inv, Tipos
<1>3. SEj' = SEj /\ SRq' = SRq
  <2>1. "sem_desalojo_planificacion" \in Semaforos
    BY DEF Semaforos
  <2> QED BY <1>1, <2>1, Bajado DEF Inv, Tipos, Semaforos, SEj, SRq
<1>4. EnMano' <=> EnMano
  BY <1>1, <1>2, <1>3, ManoIgual
<1> QED BY <1>1, <1>4, LugaresQuietos

\* The timer goes on without choosing a process.
LEMMA SigueTemporizador ==
  ASSUME Esc' = Esc, desaloja' = desaloja, SEj' = SEj, SRq' = SRq, Lugares, UNCHANGED colas,
         Tem \notin {"mira", "elige", "eligeM"}, Tem' \notin {"mira", "elige", "eligeM"}
  PROVE  Lugares'
<1>1. EnMano' <=> EnMano
  BY DEF EnMano
<1> QED BY <1>1, LugaresQuietos

LEMMA DespiertaLugares ==
  ASSUME Inv, Lugares, Despierta
  PROVE  Lugares'
<1>1. /\ Tem = "duerme" /\ sem' = sem /\ desaloja' = desaloja /\ UNCHANGED colas
      /\ pc' = [pc EXCEPT !.q = "decide", !.p = IF @ \in {"espera", "reanuda"} THEN "fin" ELSE @]
  BY DEF Despierta, banderas, Tem
<1>2. Esc' = Esc /\ Tem' = "decide"
  BY <1>1 DEF Inv, Tipos, Puntos, Esc, Tem
<1> QED BY <1>1, <1>2, MismoSem, SigueTemporizador DEF SemIgual

LEMMA DecideLugares ==
  ASSUME Inv, Lugares, Decide
  PROVE  Lugares'
<1>1. /\ Tem = "decide" /\ sem' = sem /\ desaloja' = desaloja /\ UNCHANGED colas
      /\ \E l \in {"fin", "enciende"} : Va("q", l)
  BY DEF Decide, banderas, Tem
<1>2. Esc' = Esc /\ Tem' \in {"fin", "enciende"}
  BY <1>1, VaTemporizador DEF Inv, Tipos
<1> QED BY <1>1, <1>2, MismoSem, SigueTemporizador DEF SemIgual

LEMMA EnciendeFinLugares ==
  ASSUME Inv, Lugares, EnciendeFin
  PROVE  Lugares'
<1>1. /\ Tem = "enciende" /\ sem' = sem /\ desaloja' = desaloja /\ UNCHANGED colas
      /\ Va("q", "avisa")
  BY DEF EnciendeFin, Tem
<1>2. Esc' = Esc /\ Tem' = "avisa"
  BY <1>1, VaTemporizador DEF Inv, Tipos, EnFin
<1> QED BY <1>1, <1>2, MismoSem, SigueTemporizador DEF SemIgual

LEMMA PideDesalojoLugares ==
  ASSUME Inv, Lugares, PideDesalojo
  PROVE  Lugares'
<1>1. /\ Tem = "avisa" /\ desaloja' = desaloja /\ UNCHANGED colas
      /\ \E l \in {"fin", "desalojo"} : Va("q", l)
      /\ Sube("sem_pausa_conteo_quantum") \/ sem' = sem
  BY DEF PideDesalojo, banderas, Tem
<1>2. Esc' = Esc /\ Tem' \in {"fin", "desalojo"}
  BY <1>1, VaTemporizador DEF Inv, Tipos, EnFin
<1>3. SemIgual
  BY <1>1, SubeAjeno, MismoSem DEF Inv, Tipos, Ajenos
<1> QED BY <1>1, <1>2, <1>3, SigueTemporizador DEF SemIgual

LEMMA EsperaDesalojoLugares ==
  ASSUME Inv, Lugares, EsperaDesalojo
  PROVE  Lugares'
<1>1. /\ Tem = "desalojo" /\ desaloja' = desaloja /\ UNCHANGED colas
      /\ \E l \in {"cierra", "replanifica"} : Va("q", l)
      /\ sem' = [sem EXCEPT !["sem_desalojo_quantum"] = @ - 1,
                            !["sem_verificar_desalojo_quantum"] = IF desaloja THEN @ + 1 ELSE @]
  BY DEF EsperaDesalojo, banderas, Tem
<1>2. Esc' = Esc /\ Tem' \in {"cierra", "replanifica"}
  BY <1>1, VaTemporizador DEF Inv, Tipos, EnFin, RepQ, Rep
<1>3. SEj' = SEj /\ SRq' = SRq
  BY <1>1 DEF Inv, Tipos, Semaforos, SEj, SRq
<1> QED BY <1>1, <1>2, <1>3, SigueTemporizador

LEMMA CierraQuantumLugares ==
  ASSUME Inv, Lugares, CierraQuantum
  PROVE  Lugares'
<1>1. /\ Tem = "cierra" /\ Va("q", "fin") /\ desaloja' = desaloja /\ UNCHANGED colas
      /\ Sube("sem_desalojo_planificacion")
  BY DEF CierraQuantum, Tem
<1>2. Esc' = Esc /\ Tem' = "fin"
  BY <1>1, VaTemporizador DEF Inv, Tipos
<1>3. SEj' = SEj /\ SRq' = SRq
  <2>1. "sem_desalojo_planificacion" \in Semaforos
    BY DEF Semaforos
  <2> QED BY <1>1, <2>1, Subido DEF Inv, Tipos, Semaforos, SEj, SRq
<1> QED BY <1>1, <1>2, <1>3, SigueTemporizador

LEMMA CronometroLugares ==
  ASSUME Inv, Lugares,
         \/ TerminoInstruccion \/ MiraSleep \/ PausaCronometro \/ Reanuda \/ OtraVuelta
  PROVE  Lugares'
<1>1. desaloja' = desaloja /\ UNCHANGED colas
  BY DEF TerminoInstruccion, MiraSleep, PausaCronometro, Reanuda, OtraVuelta, banderas
<1>2. PICK l \in {"fin", "espera", "paro", "reanuda", "sigue", "compara"} : Va("p", l)
  BY DEF TerminoInstruccion, MiraSleep, PausaCronometro, Reanuda, OtraVuelta, Espera
<1>3. Esc' = Esc /\ Tem' = Tem
  BY <1>2, VaCronometro DEF Inv, Tipos
<1>4. \/ sem' = sem
      \/ \E s \in Ajenos : Sube(s) \/ Baja(s)
  BY DEF TerminoInstruccion, MiraSleep, PausaCronometro, Reanuda, OtraVuelta, Ajenos
<1>5. SemIgual
  BY <1>4, SubeAjeno, MismoSem DEF Inv, Tipos
<1>6. EnMano' <=> EnMano
  BY <1>1, <1>3, <1>5, ManoIgual DEF SemIgual
<1> QED BY <1>1, <1>6, LugaresQuietos

LEMMA CortaLugares ==
  ASSUME Inv, Lugares, Corta, SinCruces'
  PROVE  Lugares'
<1>1. /\ ~ fin /\ desaloja' = desaloja /\ UNCHANGED colas
      /\ Suben({"sem_pausa_conteo_quantum", "sem_desalojo_planificacion"})
      /\ pc' = [pc EXCEPT !.p = "fin",
                          !.q = IF @ \in {"decide", "enciende", "avisa", "cierra"} THEN @ ELSE "fin"]
  BY DEF Corta, SinCruces
<1>2. Esc' = Esc /\ Tem' \in {Tem, "fin"}
  BY <1>1 DEF Inv, Tipos, Puntos, Esc, Tem
<1>3. Tem \notin {"mira", "elige", "eligeM"} /\ Tem' \notin {"mira", "elige", "eligeM"}
  BY <1>1, <1>2 DEF Inv, Tiempo, EnFin, RepQ, Rep
<1>4. SEj' = SEj /\ SRq' = SRq
  <2>1. {"sem_pausa_conteo_quantum", "sem_desalojo_planificacion"} \in SUBSET Semaforos
    BY DEF Semaforos
  <2> QED BY <1>1, <2>1, Subidos DEF Inv, Tipos, Semaforos, SEj, SRq
<1> QED BY <1>1, <1>2, <1>3, <1>4, SigueTemporizador

LEMMA FinIOLugares ==
  ASSUME Inv, Lugares, NEW p \in Pids, FinIO(p)
  PROVE  Lugares'
<1>1. /\ p \in bloqueados /\ bloqueados' = bloqueados \ {p} /\ Inicia(p) /\ Sube(DeReady)
      /\ pc' = pc /\ desaloja' = desaloja /\ exec' = exec /\ colaRec' = colaRec
      /\ terminados' = terminados
  BY DEF FinIO, banderas
<1>2. SemIgual
  BY <1>1, SubeAjeno DEF Inv, Tipos, Ajenos, DeReady
<1>3. EnMano' <=> EnMano
  BY <1>1, <1>2, PcIgual, ManoIgual DEF SemIgual
<1>4. ASSUME NEW q \in Pids
      PROVE  Cuenta(q)' = Cuenta(q)
  <2>1. /\ Veces(ready', q) \in Nat /\ Veces(readyM', q) \in Nat
        /\ Veces(ready', q) + Veces(readyM', q)
             = Veces(ready, q) + Veces(readyM, q) + (IF p = q THEN 1 ELSE 0)
    BY <1>1, CuentaIniciado DEF Inv
  <2>2. Uno(bloqueados, q) = Uno(bloqueados', q) + (IF p = q THEN 1 ELSE 0)
    BY <1>1 DEF Uno
  <2>3. Uno(bloqueados', q) \in {0, 1}
    BY DEF Uno
  <2>4. Cuenta(q)' = Veces(ready', q) + Veces(readyM', q) + Veces(colaRec, q)
                       + Uno(bloqueados', q) + Uno(terminados, q)
    BY <1>1 DEF Cuenta, Veces, Uno
  <2> QED BY <2>1, <2>2, <2>3, <2>4, Sumandos DEF Inv, Cuenta
<1> QED BY <1>1, <1>3, <1>4, LugaresIgual

LEMMA InitLugares ==
  ASSUME Init
  PROVE  Lugares
<1>1. /\ ready = [i \in 1..(MaxPid - 1) |-> i + 1] /\ readyM = <<>> /\ colaRec = <<>>
      /\ bloqueados = {} /\ terminados = {} /\ exec = <<1>>
  BY DEF Init
<1>2. EnMano
  BY DEF Init, EnMano, Esc, Tem, SRq, Rep, Semaforos
<1>3. ASSUME NEW p
      PROVE  Cuenta(p) = Veces(ready, p)
  <2>1. Veces(<<>>, p) = 0
    <3>1. {i \in DOMAIN <<>> : <<>>[i] = p} = {}
      OBVIOUS
    <3> QED BY <3>1, FS_EmptySet DEF Veces
  <2>2. Veces(ready, p) \in Nat
    BY InitInv, Sumandos DEF Inv
  <2>3. Uno(bloqueados, p) = 0 /\ Uno(terminados, p) = 0
    BY <1>1 DEF Uno
  <2> QED BY <1>1, <2>1, <2>2, <2>3 DEF Cuenta
<1>4. ASSUME NEW p \in Pids
      PROVE  Veces(ready, p) = IF p = 1 THEN 0 ELSE 1
  <2> DEFINE A == {i \in DOMAIN ready : ready[i] = p}
  <2>1. DOMAIN ready = 1..(MaxPid - 1) /\ \A i \in 1..(MaxPid - 1) : ready[i] = i + 1
    BY <1>1
  <2>2. MaxPid \in Nat /\ p \in 1..MaxPid
    BY QuantumAssumption DEF Pids
  <2>3. A = IF p = 1 THEN {} ELSE {p - 1}
    BY <2>1, <2>2
  <2> QED BY <2>3, FS_EmptySet, FS_Singleton DEF Veces
<1>5. ASSUME NEW p
      PROVE  exec = <<p>> <=> p = 1
  BY <1>1, UnoSolo
<1> QED BY <1>2, <1>3, <1>4, <1>5 DEF Lugares

LEMMA NextLugares ==
  ASSUME Inv, Lugares, Next, SinCruces'
  PROVE  Lugares'
<1>1. Inv'
  BY NextInv
<1>2. CASE Escucha
  BY <1>1, <1>2, PideInstruccionLugares, AvisaEsperaLugares, TerminaPausaLugares,
     AtiendeWaitLugares, AtiendeSignalLugares, AtiendeDesalojoLugares, CedeLugares,
     CedioLugares, BloqueaIOLugares, EnviaIOLugares, BloqueaWaitLugares, SaleLugares,
     FinPorQuantumLugares, FinDesalojaLugares, FinContinuaLugares, LlegaContextoLugares,
     ReplanificaLugares, EligeEscuchaLugares DEF Escucha
<1>3. CASE Temporizador
  BY <1>3, DespiertaLugares, DecideLugares, EnciendeFinLugares, PideDesalojoLugares,
     EsperaDesalojoLugares, CierraQuantumLugares, ReplanificaLugares, EsperaContextoLugares,
     EligeTemporizadorLugares DEF Temporizador
<1>4. CASE Cronometro
  BY <1>4, CronometroLugares, CortaLugares DEF Cronometro
<1> QED BY <1>2, <1>3, <1>4, CpuLugares, DespachaLugares, TerminaDespachoLugares,
           FinIOLugares DEF Next

LEMMA QuietosLugares ==
  ASSUME Lugares, UNCHANGED vars
  PROVE  Lugares'
<1>1. sem' = sem /\ pc' = pc /\ desaloja' = desaloja /\ UNCHANGED colas
  BY DEF vars, banderas
<1>2. EnMano' <=> EnMano
  BY <1>1, PcIgual, MismoSem, ManoIgual DEF SemIgual
<1> QED BY <1>1, <1>2, LugaresQuietos

LEMMA InvUnLugar ==
  ASSUME Inv, Lugares
  PROVE  UnLugar
<1> SUFFICES ASSUME NEW p \in Pids
             PROVE  LET k == Veces(ready \o readyM \o colaRec, p)
                               + Cardinality({p} \cap bloqueados)
                               + Cardinality({p} \cap terminados)
                    IN  k <= 1 /\ (k = 0 => exec = <<p>>)
  BY DEF UnLugar
<1>1. ready \in Seq(Pids) /\ readyM \in Seq(Pids) /\ colaRec \in Seq(Pids)
  BY DEF Inv, Tipos
<1>2. Veces(ready \o readyM, p) = Veces(ready, p) + Veces(readyM, p)
  BY <1>1, VecesUnidas
<1>3. ready \o readyM \in Seq(Pids)
  BY <1>1
<1>4. Veces(ready \o readyM \o colaRec, p) = Veces(ready \o readyM, p) + Veces(colaRec, p)
  BY <1>1, <1>3, VecesUnidas
<1>5. ASSUME NEW S
      PROVE  Cardinality({p} \cap S) = Uno(S, p)
  <2>1. {p} \cap S = IF p \in S THEN {p} ELSE {}
    OBVIOUS
  <2> QED BY <2>1, FS_Singleton, FS_EmptySet DEF Uno
<1>6. Veces(ready \o readyM \o colaRec, p) + Cardinality({p} \cap bloqueados)
        + Cardinality({p} \cap terminados) = Cuenta(p)
  BY <1>2, <1>4, <1>5 DEF Cuenta
<1>7. Cuenta(p) = IF EnMano /\ exec = <<p>> THEN 0 ELSE 1
  BY DEF Lugares
<1> QED BY <1>6, <1>7

\* Until a crossing, a process is in READY, in READY+, in the queue of the resource or of
\* an interface or in EXIT, once, or it is the one in cola_exec: no push and pop of the
\* two threads loses or repeats it (iniciar, signal, exit_prima, replanificar).
THEOREM UnLugarSiempre == Spec => []UnLugar
<1>1. Init => (SinCruces => Inv /\ Lugares)
  BY InitInv, InitLugares
<1>2. (SinCruces => Inv /\ Lugares) /\ [Next]_vars => (SinCruces => Inv /\ Lugares)'
  <2> SUFFICES ASSUME SinCruces => Inv /\ Lugares, [Next]_vars, SinCruces'
               PROVE  Inv' /\ Lugares'
    OBVIOUS
  <2>1. Inv /\ Lugares
    BY CrucesQuedan
  <2> QED BY <2>1, NextInv, QuietoInv, NextLugares, QuietosLugares
<1>3. (SinCruces => Inv /\ Lugares) => UnLugar
  BY InvUnLugar DEF UnLugar
<1> QED BY <1>1, <1>2, <1>3, PTL DEF Spec

====
