--------------------------- MODULE SistemaProofs ---------------------------
(***************************************************************************)
(* The type of Sistema and what the kernel counts.                         *)
(*                                                                         *)
(* TypeOK is inductive because LocalesOK is part of it: the locals of a    *)
(* thread hold a process, a resource or an interface at the places of its  *)
(* handlers that use them.  One lemma per action, one step per part of the *)
(* invariant.  Then come the tokens of sem_planificacion, the queues of    *)
(* the interfaces and their connections, and, without FINALIZAR_PROCESO,   *)
(* the instances of the resources and the semaphores.                      *)
(***************************************************************************)
EXTENDS Sistema, SequenceTheorems, FiniteSetTheorems, TLAPS

\* What a step of the kernel has to preserve.
TipoSig == KernelTypeOK' /\ CanalesTypeOK'

\* A thread that goes on at l keeps the invariant of the locals.
LEMMA SigueOK ==
  ASSUME HilosOK, NEW t \in Hilos, NEW l \in Puntos, NEW p \in Pids \cup {0},
         NEW a \in Argumentos, Sigue(t, l, p, a),
         l \in ConPid => p \in Pids,
         l \in ConRecurso => a \in Recursos,
         l \in ConInterfaz => a \in Interfaces
  PROVE  HilosOK'
<1>1. /\ pc' \in [Hilos -> Puntos] /\ pidDe' \in [Hilos -> Pids \cup {0}]
      /\ argDe' \in [Hilos -> Argumentos] /\ pendiente' \in Int
  BY DEF Sigue, HilosOK
<1>2. LocalesOK'
  BY DEF Sigue, HilosOK, LocalesOK
<1> QED BY <1>1, <1>2 DEF HilosOK

\* Back to where the thread waits, its locals hold nothing.
LEMMA VuelveOK ==
  ASSUME HilosOK, NEW t \in Hilos, Vuelve(t)
  PROVE  HilosOK'
<1>1. Inicio(t) \in {"lee", "esperaNew", "recibe"}
  BY DEF Inicio, Hilos
<1> QED BY <1>1, SigueOK
   DEF Vuelve, Puntos, Argumentos, Pids, ConPid, ConRecurso, ConInterfaz

\* iniciar puts a process at the end of cola_ready.
LEMMA IniciarOK ==
  ASSUME TypeOK, NEW p \in Pids, Iniciar(p)
  PROVE  colaReady' \in Seq(Pids) /\ estado' \in [Pids -> Estados] /\ semReady' \in Nat
<1>1. Estado("READY", Nada) \in Estados
  BY DEF Estado, Estados, Tipos, Argumentos
<1> QED BY <1>1 DEF Iniciar, TypeOK, KernelTypeOK, ColasOK, ProcesosOK, SemaforosOK

\* A queue without its k-th element is a queue.
LEMMA PedazosOK ==
  ASSUME NEW q \in Seq(Pids), NEW k \in 1..Len(q)
  PROVE  SubSeq(q, 1, k - 1) \o SubSeq(q, k + 1, Len(q)) \in Seq(Pids)
<1>1. /\ \A j \in 1..(k - 1) : q[j] \in Pids
      /\ \A j \in (k + 1)..Len(q) : q[j] \in Pids
  OBVIOUS
<1>2. /\ SubSeq(q, 1, k - 1) \in Seq(Pids)
      /\ SubSeq(q, k + 1, Len(q)) \in Seq(Pids)
  BY <1>1, SubSeqProperties
<1> QED BY <1>2, ConcatProperties

\* pcb_en_cola leaves a queue of processes.
LEMMA SinOK ==
  ASSUME NEW q \in Seq(Pids), NEW p \in Pids, Esta(q, p)
  PROVE  Sin(q, p) \in Seq(Pids)
<1>1. (CHOOSE j \in 1..Len(q) : q[j] = p) \in 1..Len(q)
  BY DEF Esta
<1> QED BY <1>1, PedazosOK DEF Sin

\* list_add keeps the type of lista_recursos_retenidos ...
LEMMA AnotaOK ==
  ASSUME TypeOK, NEW p \in Pids, NEW r \in Recursos, Anota(p, r)
  PROVE  retenidos' \subseteq Retencion
BY DEF Anota, Retencion, TypeOK, KernelTypeOK, RecursosOK

\* ... and so does its removal.
LEMMA QuitaOK ==
  ASSUME TypeOK, NEW p, NEW r, Quita(p, r)
  PROVE  retenidos' \subseteq Retencion
BY DEF Quita, TypeOK, KernelTypeOK, RecursosOK

\* The fall of the kernel changes nothing else.
LEMMA CaeOK ==
  ASSUME TypeOK, Cae
  PROVE  TipoSig
<1>1. HilosOK' /\ SemaforosOK'
  BY DEF Cae, hilosVars, planVars, admVars, usrVars, TypeOK, KernelTypeOK, HilosOK,
         LocalesOK, SemaforosOK
<1>2. ColasOK' /\ RecursosOK' /\ ProcesosOK'
  BY DEF Cae, colasVars, recVars, procVars, TypeOK, KernelTypeOK, ColasOK, RecursosOK,
         ProcesosOK
<1>3. BanderasOK'
  BY DEF Cae, admVars, usrVars, TypeOK, KernelTypeOK, BanderasOK
<1>4. CanalesTypeOK'
  BY DEF Cae, canales, TypeOK, CanalesTypeOK
<1> QED BY <1>1, <1>2, <1>3, <1>4 DEF TipoSig, KernelTypeOK

\* EsperaNew keeps the types.
LEMMA TipoEsperaNew ==
  ASSUME TypeOK, EsperaNew
  PROVE  TipoSig
<1>1. HilosOK'
  BY SigueOK
     DEF EsperaNew, TypeOK, KernelTypeOK, Hilos, Puntos, Argumentos, ConPid, ConRecurso,
         ConInterfaz
<1>2. SemaforosOK'
  BY DEF EsperaNew, planVars, usrVars, TypeOK, KernelTypeOK, SemaforosOK
<1>3. ColasOK'
  BY DEF EsperaNew, colasVars, TypeOK, KernelTypeOK, ColasOK
<1>4. RecursosOK' /\ ProcesosOK'
  BY DEF EsperaNew, recVars, procVars, TypeOK, KernelTypeOK, RecursosOK, ProcesosOK
<1>5. BanderasOK'
  BY DEF EsperaNew, usrVars, TypeOK, KernelTypeOK, BanderasOK
<1>6. CanalesTypeOK'
  BY DEF EsperaNew, canales, TypeOK, CanalesTypeOK
<1> QED BY <1>1, <1>2, <1>3, <1>4, <1>5, <1>6 DEF TipoSig, KernelTypeOK

\* Admite keeps the types.
LEMMA TipoAdmite ==
  ASSUME TypeOK, Admite
  PROVE  TipoSig
<1>1. CASE colaNew = <<>>
  BY <1>1, CaeOK DEF Admite
<1>2. CASE colaNew # <<>>
  <2>1. Head(colaNew) \in Pids /\ Tail(colaNew) \in Seq(Pids)
    BY <1>2 DEF TypeOK, KernelTypeOK, ColasOK
  <2>2. HilosOK'
    BY <1>2, SigueOK, VuelveOK
       DEF Admite, TypeOK, KernelTypeOK, Hilos, Puntos, Argumentos, ConPid, ConRecurso,
           ConInterfaz
  <2>3. SemaforosOK'
    BY <1>2, <2>1, IniciarOK DEF Admite, usrVars, TypeOK, KernelTypeOK, SemaforosOK
  <2>4. ColasOK'
    BY <1>2, <2>1, IniciarOK DEF Admite, TypeOK, KernelTypeOK, ColasOK
  <2>5. RecursosOK' /\ ProcesosOK'
    BY <1>2, <2>1, IniciarOK
       DEF Admite, recVars, TypeOK, KernelTypeOK, RecursosOK, ProcesosOK
  <2>6. BanderasOK'
    BY <1>2 DEF Admite, usrVars, TypeOK, KernelTypeOK, BanderasOK
  <2>7. CanalesTypeOK'
    BY <1>2 DEF Admite, canales, TypeOK, CanalesTypeOK
  <2> QED BY <2>2, <2>3, <2>4, <2>5, <2>6, <2>7 DEF TipoSig, KernelTypeOK
<1> QED BY <1>1, <1>2

\* Replanifica keeps the types.
LEMMA TipoReplanifica ==
  ASSUME TypeOK, NEW t \in Hilos, Replanifica(t)
  PROVE  TipoSig
<1>1. HilosOK'
  BY SigueOK
     DEF Replanifica, TypeOK, KernelTypeOK, Hilos, Puntos, Argumentos, ConPid,
         ConRecurso, ConInterfaz
<1>2. SemaforosOK'
  BY DEF Replanifica, admVars, usrVars, TypeOK, KernelTypeOK, SemaforosOK
<1>3. ColasOK'
  BY DEF Replanifica, colasVars, TypeOK, KernelTypeOK, ColasOK
<1>4. RecursosOK' /\ ProcesosOK'
  BY DEF Replanifica, recVars, procVars, TypeOK, KernelTypeOK, RecursosOK, ProcesosOK
<1>5. BanderasOK'
  BY DEF Replanifica, admVars, usrVars, TypeOK, KernelTypeOK, BanderasOK
<1>6. CanalesTypeOK'
  BY DEF Replanifica, canales, TypeOK, CanalesTypeOK
<1> QED BY <1>1, <1>2, <1>3, <1>4, <1>5, <1>6 DEF TipoSig, KernelTypeOK

\* Elige keeps the types.
LEMMA TipoElige ==
  ASSUME TypeOK, NEW t \in Hilos, Elige(t)
  PROVE  TipoSig
<1>1. CASE colaReady = <<>>
  BY <1>1, CaeOK DEF Elige
<1>2. CASE colaReady # <<>>
  <2>1. Head(colaReady) \in Pids /\ Tail(colaReady) \in Seq(Pids)
    BY <1>2 DEF TypeOK, KernelTypeOK, ColasOK
  <2>2. <<Head(colaReady)>> \in Seq(Pids)
    BY <2>1
  <2>3. Estado("EXEC", Nada) \in Estados
    BY DEF Estado, Estados, Tipos, Argumentos
  <2>4. HilosOK'
    BY <1>2, VuelveOK
       DEF Elige, TypeOK, KernelTypeOK, Hilos, Puntos, Argumentos, ConPid, ConRecurso,
           ConInterfaz
  <2>5. SemaforosOK'
    BY <1>2 DEF Elige, usrVars, TypeOK, KernelTypeOK, SemaforosOK
  <2>6. ColasOK'
    BY <1>2, <2>1, <2>2 DEF Elige, TypeOK, KernelTypeOK, ColasOK
  <2>7. RecursosOK' /\ ProcesosOK'
    BY <1>2, <2>1, <2>3 DEF Elige, recVars, TypeOK, KernelTypeOK, RecursosOK, ProcesosOK
  <2>8. BanderasOK'
    BY <1>2 DEF Elige, SiguePrimero, usrVars, TypeOK, KernelTypeOK, BanderasOK
  <2>9. CanalesTypeOK'
    BY <1>2 DEF Elige, canales, TypeOK, CanalesTypeOK
  <2> QED BY <2>4, <2>5, <2>6, <2>7, <2>8, <2>9 DEF TipoSig, KernelTypeOK
<1> QED BY <1>1, <1>2

\* Despacha keeps the types.
LEMMA TipoDespacha ==
  ASSUME TypeOK, Despacha
  PROVE  TipoSig
<1>1. CASE colaExec = <<>>
  BY <1>1, CaeOK DEF Despacha
<1>2. CASE colaExec # <<>>
  <2>1. Head(colaExec) \in Pids /\ pcbPC[Head(colaExec)] \in Nat
    BY <1>2 DEF TypeOK, KernelTypeOK, ColasOK, ProcesosOK
  <2>2. Pcb(Head(colaExec), pcbPC[Head(colaExec)]) \in MensajesDispatch
    BY <2>1 DEF Pcb, MensajesDispatch
  <2>3. Append(chDispatch, Pcb(Head(colaExec), pcbPC[Head(colaExec)]))
           \in Seq(MensajesDispatch)
    BY <2>2, AppendProperties DEF TypeOK, CanalesTypeOK
  <2>4. HilosOK'
    BY <1>2
       DEF Despacha, hilosVars, TypeOK, KernelTypeOK, HilosOK, LocalesOK, ConPid,
           ConRecurso, ConInterfaz
  <2>5. SemaforosOK'
    BY <1>2 DEF Despacha, admVars, usrVars, TypeOK, KernelTypeOK, SemaforosOK
  <2>6. ColasOK'
    BY <1>2 DEF Despacha, colasVars, TypeOK, KernelTypeOK, ColasOK
  <2>7. RecursosOK' /\ ProcesosOK'
    BY <1>2 DEF Despacha, recVars, procVars, TypeOK, KernelTypeOK, RecursosOK, ProcesosOK
  <2>8. BanderasOK'
    BY <1>2 DEF Despacha, admVars, usrVars, TypeOK, KernelTypeOK, BanderasOK
  <2>9. CanalesTypeOK'
    BY <1>2, <2>3 DEF Despacha, TypeOK, CanalesTypeOK
  <2> QED BY <2>4, <2>5, <2>6, <2>7, <2>8, <2>9 DEF TipoSig, KernelTypeOK
<1> QED BY <1>1, <1>2

\* FinDesaloja keeps the types.
LEMMA TipoFinDesaloja ==
  ASSUME TypeOK, FinDesaloja
  PROVE  TipoSig
<1>1. Tail(chCpu) \in Seq(MensajesCpu)
  BY DEF FinDesaloja, Llega, TypeOK, CanalesTypeOK
<1>2. Append(chInterrupt, NoContinua) \in Seq(MensajesInterrupt)
  BY AppendProperties DEF MensajesInterrupt, TypeOK, CanalesTypeOK
<1>3. HilosOK'
  BY SigueOK
     DEF FinDesaloja, TypeOK, KernelTypeOK, Hilos, Puntos, Argumentos, ConPid,
         ConRecurso, ConInterfaz
<1>4. SemaforosOK'
  BY DEF FinDesaloja, planVars, admVars, usrVars, TypeOK, KernelTypeOK, SemaforosOK
<1>5. ColasOK'
  BY DEF FinDesaloja, colasVars, TypeOK, KernelTypeOK, ColasOK
<1>6. RecursosOK' /\ ProcesosOK'
  BY DEF FinDesaloja, recVars, procVars, TypeOK, KernelTypeOK, RecursosOK, ProcesosOK
<1>7. BanderasOK'
  BY DEF FinDesaloja, admVars, usrVars, TypeOK, KernelTypeOK, BanderasOK
<1>8. CanalesTypeOK'
  BY <1>1, <1>2 DEF FinDesaloja, TypeOK, CanalesTypeOK
<1> QED BY <1>3, <1>4, <1>5, <1>6, <1>7, <1>8 DEF TipoSig, KernelTypeOK

\* FinDesalojaUsuario keeps the types.
LEMMA TipoFinDesalojaUsuario ==
  ASSUME TypeOK, FinDesalojaUsuario
  PROVE  TipoSig
<1>1. Tail(chCpu) \in Seq(MensajesCpu)
  BY DEF FinDesalojaUsuario, Llega, TypeOK, CanalesTypeOK
<1>2. Append(chInterrupt, NoContinua) \in Seq(MensajesInterrupt)
  BY AppendProperties DEF MensajesInterrupt, TypeOK, CanalesTypeOK
<1>3. HilosOK'
  BY DEF FinDesalojaUsuario, hilosVars, TypeOK, KernelTypeOK, HilosOK, LocalesOK,
         ConPid, ConRecurso, ConInterfaz
<1>4. SemaforosOK'
  BY DEF FinDesalojaUsuario, planVars, admVars, TypeOK, KernelTypeOK, SemaforosOK
<1>5. ColasOK'
  BY DEF FinDesalojaUsuario, colasVars, TypeOK, KernelTypeOK, ColasOK
<1>6. RecursosOK' /\ ProcesosOK'
  BY DEF FinDesalojaUsuario, recVars, procVars, TypeOK, KernelTypeOK, RecursosOK,
         ProcesosOK
<1>7. BanderasOK'
  BY DEF FinDesalojaUsuario, admVars, TypeOK, KernelTypeOK, BanderasOK
<1>8. CanalesTypeOK'
  BY <1>1, <1>2 DEF FinDesalojaUsuario, TypeOK, CanalesTypeOK
<1> QED BY <1>3, <1>4, <1>5, <1>6, <1>7, <1>8 DEF TipoSig, KernelTypeOK

\* FinContinua keeps the types.
LEMMA TipoFinContinua ==
  ASSUME TypeOK, FinContinua
  PROVE  TipoSig
<1>1. Tail(chCpu) \in Seq(MensajesCpu)
  BY DEF FinContinua, Llega, TypeOK, CanalesTypeOK
<1>2. Append(chDispatch, Continua) \in Seq(MensajesDispatch)
  BY AppendProperties DEF MensajesDispatch, TypeOK, CanalesTypeOK
<1>3. HilosOK'
  BY DEF FinContinua, hilosVars, TypeOK, KernelTypeOK, HilosOK, LocalesOK, ConPid,
         ConRecurso, ConInterfaz
<1>4. SemaforosOK'
  BY DEF FinContinua, planVars, admVars, usrVars, TypeOK, KernelTypeOK, SemaforosOK
<1>5. ColasOK'
  BY DEF FinContinua, colasVars, TypeOK, KernelTypeOK, ColasOK
<1>6. RecursosOK' /\ ProcesosOK'
  BY DEF FinContinua, recVars, procVars, TypeOK, KernelTypeOK, RecursosOK, ProcesosOK
<1>7. BanderasOK'
  BY DEF FinContinua, admVars, usrVars, TypeOK, KernelTypeOK, BanderasOK
<1>8. CanalesTypeOK'
  BY <1>1, <1>2 DEF FinContinua, TypeOK, CanalesTypeOK
<1> QED BY <1>3, <1>4, <1>5, <1>6, <1>7, <1>8 DEF TipoSig, KernelTypeOK

\* PideIO keeps the types.
LEMMA TipoPideIO ==
  ASSUME TypeOK, PideIO
  PROVE  TipoSig
<1>1. Head(chCpu) \in MensajesCpu /\ Tail(chCpu) \in Seq(MensajesCpu)
  BY DEF PideIO, Llega, TypeOK, CanalesTypeOK
<1>2. Head(chCpu).pid \in Pids /\ Head(chCpu).pc \in Nat /\ Head(chCpu).arg \in Argumentos
  BY <1>1 DEF MensajesCpu
<1>3. Estado("BLOCK", Nada) \in Estados
  BY DEF Estado, Estados, Tipos, Argumentos
<1>4. HilosOK'
  BY <1>2, SigueOK
     DEF PideIO, CumpleInterfaz, TypeOK, KernelTypeOK, Hilos, Puntos, Argumentos,
         ConPid, ConRecurso, ConInterfaz
<1>5. SemaforosOK'
  BY DEF PideIO, planVars, admVars, usrVars, TypeOK, KernelTypeOK, SemaforosOK
<1>6. ColasOK'
  BY <1>2 DEF PideIO, CargaPcb, CumpleInterfaz, TypeOK, KernelTypeOK, ColasOK
<1>7. RecursosOK' /\ ProcesosOK'
  BY <1>2, <1>3
     DEF PideIO, CargaPcb, recVars, TypeOK, KernelTypeOK, RecursosOK, ProcesosOK
<1>8. BanderasOK'
  BY DEF PideIO, admVars, usrVars, TypeOK, KernelTypeOK, BanderasOK
<1>9. CanalesTypeOK'
  BY <1>1 DEF PideIO, CargaPcb, TypeOK, CanalesTypeOK
<1> QED BY <1>4, <1>5, <1>6, <1>7, <1>8, <1>9 DEF TipoSig, KernelTypeOK

\* EnviaIO keeps the types.
LEMMA TipoEnviaIO ==
  ASSUME TypeOK, EnviaIO
  PROVE  TipoSig
<1>1. pidDe["escucha"] \in Pids /\ argDe["escucha"] \in Interfaces
  BY DEF EnviaIO, TypeOK, KernelTypeOK, HilosOK, LocalesOK, Hilos, ConPid, ConRecurso,
         ConInterfaz
<1>2. HilosOK'
  BY <1>1, SigueOK
     DEF EnviaIO, TypeOK, KernelTypeOK, Hilos, Puntos, Argumentos, ConPid, ConRecurso,
         ConInterfaz
<1>3. SemaforosOK'
  BY DEF EnviaIO, planVars, admVars, usrVars, TypeOK, KernelTypeOK, SemaforosOK
<1>4. ColasOK'
  BY DEF EnviaIO, colasVars, TypeOK, KernelTypeOK, ColasOK
<1>5. RecursosOK' /\ ProcesosOK'
  BY DEF EnviaIO, recVars, procVars, TypeOK, KernelTypeOK, RecursosOK, ProcesosOK
<1>6. BanderasOK'
  BY DEF EnviaIO, admVars, usrVars, TypeOK, KernelTypeOK, BanderasOK
<1>7. CanalesTypeOK'
  BY <1>1 DEF EnviaIO, TypeOK, CanalesTypeOK
<1> QED BY <1>2, <1>3, <1>4, <1>5, <1>6, <1>7 DEF TipoSig, KernelTypeOK

\* MarcaBlock keeps the types.
LEMMA TipoMarcaBlock ==
  ASSUME TypeOK, MarcaBlock
  PROVE  TipoSig
<1>1. pidDe["escucha"] \in Pids /\ argDe["escucha"] \in Interfaces
  BY DEF MarcaBlock, TypeOK, KernelTypeOK, HilosOK, LocalesOK, Hilos, ConPid,
         ConRecurso, ConInterfaz
<1>2. Interrupcion(pidDe["escucha"]) \in MensajesInterrupt
  BY <1>1 DEF Interrupcion, MensajesInterrupt
<1>3. Append(chInterrupt, Interrupcion(pidDe["escucha"])) \in Seq(MensajesInterrupt)
  BY <1>2, AppendProperties DEF TypeOK, CanalesTypeOK
<1>4. Estado("BLOCK - IO", argDe["escucha"]) \in Estados
  BY <1>1 DEF Estado, Estados, Tipos, Argumentos
<1>5. HilosOK'
  BY VuelveOK
     DEF MarcaBlock, Hilos, TypeOK, KernelTypeOK, Hilos, Puntos, Argumentos, ConPid,
         ConRecurso, ConInterfaz
<1>6. SemaforosOK'
  BY DEF MarcaBlock, planVars, admVars, usrVars, TypeOK, KernelTypeOK, SemaforosOK
<1>7. ColasOK'
  BY DEF MarcaBlock, colasVars, TypeOK, KernelTypeOK, ColasOK
<1>8. RecursosOK' /\ ProcesosOK'
  BY <1>1, <1>4 DEF MarcaBlock, recVars, TypeOK, KernelTypeOK, RecursosOK, ProcesosOK
<1>9. BanderasOK'
  BY DEF MarcaBlock, admVars, usrVars, TypeOK, KernelTypeOK, BanderasOK
<1>10. CanalesTypeOK'
  BY <1>3 DEF MarcaBlock, TypeOK, CanalesTypeOK
<1> QED BY <1>5, <1>6, <1>7, <1>8, <1>9, <1>10 DEF TipoSig, KernelTypeOK

\* PideWait keeps the types.
LEMMA TipoPideWait ==
  ASSUME TypeOK, PideWait
  PROVE  TipoSig
<1>1. Head(chCpu) \in MensajesCpu /\ Tail(chCpu) \in Seq(MensajesCpu)
  BY DEF PideWait, Llega, TypeOK, CanalesTypeOK
<1>2. Head(chCpu).pid \in Pids /\ Head(chCpu).pc \in Nat /\ Head(chCpu).arg \in Argumentos
  BY <1>1 DEF MensajesCpu
<1>3. HilosOK'
  BY <1>2, SigueOK
     DEF PideWait, TypeOK, KernelTypeOK, Hilos, Puntos, Argumentos, ConPid, ConRecurso,
         ConInterfaz
<1>4. SemaforosOK'
  BY DEF PideWait, planVars, admVars, usrVars, TypeOK, KernelTypeOK, SemaforosOK
<1>5. ColasOK'
  BY <1>2 DEF PideWait, CargaPcb, TypeOK, KernelTypeOK, ColasOK
<1>6. RecursosOK' /\ ProcesosOK'
  BY <1>2 DEF PideWait, CargaPcb, TypeOK, KernelTypeOK, RecursosOK, ProcesosOK
<1>7. BanderasOK'
  BY DEF PideWait, admVars, usrVars, TypeOK, KernelTypeOK, BanderasOK
<1>8. CanalesTypeOK'
  BY <1>1 DEF PideWait, CargaPcb, TypeOK, CanalesTypeOK
<1> QED BY <1>3, <1>4, <1>5, <1>6, <1>7, <1>8 DEF TipoSig, KernelTypeOK

\* EvaluaWait keeps the types.
LEMMA TipoEvaluaWait ==
  ASSUME TypeOK, EvaluaWait
  PROVE  TipoSig
<1>1. pidDe["escucha"] \in Pids /\ argDe["escucha"] \in Recursos
  BY DEF EvaluaWait, TypeOK, KernelTypeOK, HilosOK, LocalesOK, Hilos, ConPid,
         ConRecurso, ConInterfaz
<1>2. Interrupcion(pidDe["escucha"]) \in MensajesInterrupt
  BY <1>1 DEF Interrupcion, MensajesInterrupt
<1>3. Append(chInterrupt, Interrupcion(pidDe["escucha"])) \in Seq(MensajesInterrupt)
  BY <1>2, AppendProperties DEF TypeOK, CanalesTypeOK
<1>4. Estado("BLOCK - RECURSO", argDe["escucha"]) \in Estados
  BY <1>1 DEF Estado, Estados, Tipos, Argumentos
<1>5. Append(colaRec[argDe["escucha"]], pidDe["escucha"]) \in Seq(Pids)
  BY <1>1, AppendProperties DEF TypeOK, KernelTypeOK, ColasOK
<1>6. HilosOK'
  BY VuelveOK
     DEF EvaluaWait, Hilos, TypeOK, KernelTypeOK, Hilos, Puntos, Argumentos, ConPid,
         ConRecurso, ConInterfaz
<1>7. SemaforosOK'
  BY DEF EvaluaWait, planVars, admVars, usrVars, TypeOK, KernelTypeOK, SemaforosOK
<1>8. ColasOK'
  BY <1>1, <1>5 DEF EvaluaWait, TypeOK, KernelTypeOK, ColasOK
<1>9. RecursosOK' /\ ProcesosOK'
  BY <1>1, <1>4, AnotaOK DEF EvaluaWait, TypeOK, KernelTypeOK, RecursosOK, ProcesosOK
<1>10. BanderasOK'
  BY DEF EvaluaWait, admVars, usrVars, TypeOK, KernelTypeOK, BanderasOK
<1>11. CanalesTypeOK'
  BY <1>3 DEF EvaluaWait, TypeOK, CanalesTypeOK
<1> QED BY <1>6, <1>7, <1>8, <1>9, <1>10, <1>11 DEF TipoSig, KernelTypeOK

\* PideSignal keeps the types.
LEMMA TipoPideSignal ==
  ASSUME TypeOK, PideSignal
  PROVE  TipoSig
<1>1. Head(chCpu) \in MensajesCpu /\ Tail(chCpu) \in Seq(MensajesCpu)
  BY DEF PideSignal, Llega, TypeOK, CanalesTypeOK
<1>2. Head(chCpu).pid \in Pids /\ Head(chCpu).pc \in Nat /\ Head(chCpu).arg \in Argumentos
  BY <1>1 DEF MensajesCpu
<1>3. HilosOK'
  BY <1>2, SigueOK
     DEF PideSignal, TypeOK, KernelTypeOK, Hilos, Puntos, Argumentos, ConPid,
         ConRecurso, ConInterfaz
<1>4. SemaforosOK'
  BY DEF PideSignal, planVars, admVars, usrVars, TypeOK, KernelTypeOK, SemaforosOK
<1>5. ColasOK'
  BY <1>2 DEF PideSignal, CargaPcb, TypeOK, KernelTypeOK, ColasOK
<1>6. RecursosOK' /\ ProcesosOK'
  BY <1>2 DEF PideSignal, CargaPcb, TypeOK, KernelTypeOK, RecursosOK, ProcesosOK
<1>7. BanderasOK'
  BY DEF PideSignal, admVars, usrVars, TypeOK, KernelTypeOK, BanderasOK
<1>8. CanalesTypeOK'
  BY <1>1 DEF PideSignal, CargaPcb, TypeOK, CanalesTypeOK
<1> QED BY <1>3, <1>4, <1>5, <1>6, <1>7, <1>8 DEF TipoSig, KernelTypeOK

\* PideExit keeps the types.
LEMMA TipoPideExit ==
  ASSUME TypeOK, PideExit
  PROVE  TipoSig
<1>1. Head(chCpu) \in MensajesCpu /\ Tail(chCpu) \in Seq(MensajesCpu)
  BY DEF PideExit, Llega, TypeOK, CanalesTypeOK
<1>2. Head(chCpu).pid \in Pids /\ Head(chCpu).pc \in Nat /\ Head(chCpu).arg \in Argumentos
  BY <1>1 DEF MensajesCpu
<1>3. HilosOK'
  BY <1>2, SigueOK
     DEF PideExit, TypeOK, KernelTypeOK, Hilos, Puntos, Argumentos, ConPid, ConRecurso,
         ConInterfaz
<1>4. SemaforosOK'
  BY DEF PideExit, planVars, admVars, usrVars, TypeOK, KernelTypeOK, SemaforosOK
<1>5. ColasOK'
  BY <1>2 DEF PideExit, CargaPcb, TypeOK, KernelTypeOK, ColasOK
<1>6. RecursosOK' /\ ProcesosOK'
  BY <1>2 DEF PideExit, CargaPcb, recVars, TypeOK, KernelTypeOK, RecursosOK, ProcesosOK
<1>7. BanderasOK'
  BY DEF PideExit, admVars, usrVars, TypeOK, KernelTypeOK, BanderasOK
<1>8. CanalesTypeOK'
  BY <1>1 DEF PideExit, CargaPcb, TypeOK, CanalesTypeOK
<1> QED BY <1>3, <1>4, <1>5, <1>6, <1>7, <1>8 DEF TipoSig, KernelTypeOK

\* Libera keeps the types.
LEMMA TipoLibera ==
  ASSUME TypeOK, NEW t \in Hilos, Libera(t)
  PROVE  TipoSig
<1>1. PICK x \in DeProceso(pidDe[t]) :
          /\ instancias' = [instancias EXCEPT ![x.rec] = @ + 1]
          /\ Sigue(t, "liberaEvalua", pidDe[t], x.rec)
  BY DEF Libera
<1>2. x.rec \in Recursos
  BY DEF DeProceso, Retencion, TypeOK, KernelTypeOK, RecursosOK
<1>3. pidDe[t] \in Pids
  BY DEF Libera, TypeOK, KernelTypeOK, HilosOK, LocalesOK, ConPid
<1>4. HilosOK'
  BY <1>1, <1>2, <1>3, SigueOK
     DEF Libera, TypeOK, KernelTypeOK, Hilos, Puntos, Argumentos, ConPid, ConRecurso,
         ConInterfaz
<1>5. SemaforosOK'
  BY DEF Libera, planVars, admVars, usrVars, TypeOK, KernelTypeOK, SemaforosOK
<1>6. ColasOK'
  BY DEF Libera, colasVars, TypeOK, KernelTypeOK, ColasOK
<1>7. RecursosOK' /\ ProcesosOK'
  BY <1>1, <1>2 DEF Libera, procVars, TypeOK, KernelTypeOK, RecursosOK, ProcesosOK
<1>8. BanderasOK'
  BY DEF Libera, admVars, usrVars, TypeOK, KernelTypeOK, BanderasOK
<1>9. CanalesTypeOK'
  BY DEF Libera, canales, TypeOK, CanalesTypeOK
<1> QED BY <1>4, <1>5, <1>6, <1>7, <1>8, <1>9 DEF TipoSig, KernelTypeOK

\* FinIO keeps the types.
LEMMA TipoFinIO ==
  ASSUME TypeOK, NEW i \in Interfaces, FinIO(i)
  PROVE  TipoSig
<1>1. CASE colaIO[i] = <<>>
  BY <1>1, CaeOK DEF FinIO
<1>2. CASE colaIO[i] # <<>>
  <2>1. Head(colaIO[i]) \in Pids /\ Tail(colaIO[i]) \in Seq(Pids)
    BY <1>2 DEF TypeOK, KernelTypeOK, ColasOK
  <2>2. Tail(ioFin[i]) \in Seq(Pids)
    BY <1>2 DEF FinIO, TypeOK, CanalesTypeOK
  <2>3. HilosOK'
    BY <1>2
       DEF FinIO, hilosVars, TypeOK, KernelTypeOK, HilosOK, LocalesOK, ConPid,
           ConRecurso, ConInterfaz
  <2>4. SemaforosOK'
    BY <1>2, <2>1, IniciarOK
       DEF FinIO, admVars, usrVars, TypeOK, KernelTypeOK, SemaforosOK
  <2>5. ColasOK'
    BY <1>2, <2>1, IniciarOK DEF FinIO, TypeOK, KernelTypeOK, ColasOK
  <2>6. RecursosOK' /\ ProcesosOK'
    BY <1>2, <2>1, IniciarOK
       DEF FinIO, recVars, TypeOK, KernelTypeOK, RecursosOK, ProcesosOK
  <2>7. BanderasOK'
    BY <1>2 DEF FinIO, admVars, usrVars, TypeOK, KernelTypeOK, BanderasOK
  <2>8. CanalesTypeOK'
    BY <1>2, <2>2 DEF FinIO, TypeOK, CanalesTypeOK
  <2> QED BY <2>3, <2>4, <2>5, <2>6, <2>7, <2>8 DEF TipoSig, KernelTypeOK
<1> QED BY <1>1, <1>2

\* IniciarProceso keeps the types.
LEMMA TipoIniciarProceso ==
  ASSUME TypeOK, NEW s \in Scripts, IniciarProceso(s)
  PROVE  TipoSig
<1>1. contador \in Pids
  BY DEF IniciarProceso, TypeOK, KernelTypeOK, ProcesosOK, Pids
<1>2. Estado("NEW", Nada) \in Estados
  BY DEF Estado, Estados, Tipos, Argumentos
<1>3. HilosOK'
  BY DEF IniciarProceso, hilosVars, TypeOK, KernelTypeOK, HilosOK, LocalesOK, ConPid,
         ConRecurso, ConInterfaz
<1>4. SemaforosOK'
  BY DEF IniciarProceso, planVars, usrVars, TypeOK, KernelTypeOK, SemaforosOK
<1>5. ColasOK'
  BY <1>1 DEF IniciarProceso, TypeOK, KernelTypeOK, ColasOK
<1>6. RecursosOK' /\ ProcesosOK'
  BY <1>2, MaxPidAssumption
     DEF IniciarProceso, Pids, recVars, TypeOK, KernelTypeOK, RecursosOK, ProcesosOK
<1>7. BanderasOK'
  BY DEF IniciarProceso, usrVars, TypeOK, KernelTypeOK, BanderasOK
<1>8. CanalesTypeOK'
  BY <1>1 DEF IniciarProceso, TypeOK, CanalesTypeOK
<1> QED BY <1>3, <1>4, <1>5, <1>6, <1>7, <1>8 DEF TipoSig, KernelTypeOK

\* IniciarPlanificacion keeps the types.
LEMMA TipoIniciarPlanificacion ==
  ASSUME TypeOK, IniciarPlanificacion
  PROVE  TipoSig
<1>1. HilosOK'
  BY DEF IniciarPlanificacion, hilosVars, TypeOK, KernelTypeOK, HilosOK, LocalesOK,
         ConPid, ConRecurso, ConInterfaz
<1>2. SemaforosOK'
  BY DEF IniciarPlanificacion, admVars, TypeOK, KernelTypeOK, SemaforosOK
<1>3. ColasOK'
  BY DEF IniciarPlanificacion, colasVars, TypeOK, KernelTypeOK, ColasOK
<1>4. RecursosOK' /\ ProcesosOK'
  BY DEF IniciarPlanificacion, recVars, procVars, TypeOK, KernelTypeOK, RecursosOK,
         ProcesosOK
<1>5. BanderasOK'
  BY DEF IniciarPlanificacion, Acepta, admVars, TypeOK, KernelTypeOK, BanderasOK
<1>6. CanalesTypeOK'
  BY DEF IniciarPlanificacion, canales, TypeOK, CanalesTypeOK
<1> QED BY <1>1, <1>2, <1>3, <1>4, <1>5, <1>6 DEF TipoSig, KernelTypeOK

\* DetenerPlanificacion keeps the types.
LEMMA TipoDetenerPlanificacion ==
  ASSUME TypeOK, DetenerPlanificacion
  PROVE  TipoSig
<1>1. HilosOK'
  BY SigueOK
     DEF DetenerPlanificacion, TypeOK, KernelTypeOK, Hilos, Puntos, Argumentos, ConPid,
         ConRecurso, ConInterfaz
<1>2. SemaforosOK'
  BY DEF DetenerPlanificacion, planVars, admVars, TypeOK, KernelTypeOK, SemaforosOK
<1>3. ColasOK'
  BY DEF DetenerPlanificacion, colasVars, TypeOK, KernelTypeOK, ColasOK
<1>4. RecursosOK' /\ ProcesosOK'
  BY DEF DetenerPlanificacion, recVars, procVars, TypeOK, KernelTypeOK, RecursosOK,
         ProcesosOK
<1>5. BanderasOK'
  BY DEF DetenerPlanificacion, Acepta, admVars, TypeOK, KernelTypeOK, BanderasOK
<1>6. CanalesTypeOK'
  BY DEF DetenerPlanificacion, canales, TypeOK, CanalesTypeOK
<1> QED BY <1>1, <1>2, <1>3, <1>4, <1>5, <1>6 DEF TipoSig, KernelTypeOK

\* Detiene keeps the types.
LEMMA TipoDetiene ==
  ASSUME TypeOK, Detiene
  PROVE  TipoSig
<1>1. HilosOK'
  BY VuelveOK
     DEF Detiene, Hilos, TypeOK, KernelTypeOK, Hilos, Puntos, Argumentos, ConPid,
         ConRecurso, ConInterfaz
<1>2. SemaforosOK'
  BY DEF Detiene, admVars, TypeOK, KernelTypeOK, SemaforosOK
<1>3. ColasOK'
  BY DEF Detiene, colasVars, TypeOK, KernelTypeOK, ColasOK
<1>4. RecursosOK' /\ ProcesosOK'
  BY DEF Detiene, recVars, procVars, TypeOK, KernelTypeOK, RecursosOK, ProcesosOK
<1>5. BanderasOK'
  BY DEF Detiene, admVars, TypeOK, KernelTypeOK, BanderasOK
<1>6. CanalesTypeOK'
  BY DEF Detiene, canales, TypeOK, CanalesTypeOK
<1> QED BY <1>1, <1>2, <1>3, <1>4, <1>5, <1>6 DEF TipoSig, KernelTypeOK

\* SubeGrado keeps the types.
LEMMA TipoSubeGrado ==
  ASSUME TypeOK, NEW n \in Grados, SubeGrado(n)
  PROVE  TipoSig
<1>1. n \in Nat /\ Grado \in Nat
  BY GradoAssumption
<1>2. HilosOK'
  BY DEF SubeGrado, hilosVars, TypeOK, KernelTypeOK, HilosOK, LocalesOK, ConPid,
         ConRecurso, ConInterfaz
<1>3. SemaforosOK'
  BY <1>1 DEF SubeGrado, planVars, TypeOK, KernelTypeOK, SemaforosOK
<1>4. ColasOK'
  BY DEF SubeGrado, colasVars, TypeOK, KernelTypeOK, ColasOK
<1>5. RecursosOK' /\ ProcesosOK'
  BY DEF SubeGrado, recVars, procVars, TypeOK, KernelTypeOK, RecursosOK, ProcesosOK
<1>6. BanderasOK'
  BY <1>1 DEF SubeGrado, Acepta, TypeOK, KernelTypeOK, BanderasOK
<1>7. CanalesTypeOK'
  BY DEF SubeGrado, canales, TypeOK, CanalesTypeOK
<1> QED BY <1>2, <1>3, <1>4, <1>5, <1>6, <1>7 DEF TipoSig, KernelTypeOK

\* BajaGrado keeps the types.
LEMMA TipoBajaGrado ==
  ASSUME TypeOK, NEW n \in Grados, BajaGrado(n)
  PROVE  TipoSig
<1>1. n \in Nat /\ Grado \in Nat
  BY GradoAssumption
<1>2. HilosOK'
  BY <1>1
     DEF BajaGrado, Puntos, Hilos, TypeOK, KernelTypeOK, HilosOK, LocalesOK, ConPid,
         ConRecurso, ConInterfaz
<1>3. SemaforosOK'
  BY DEF BajaGrado, planVars, admVars, TypeOK, KernelTypeOK, SemaforosOK
<1>4. ColasOK'
  BY DEF BajaGrado, colasVars, TypeOK, KernelTypeOK, ColasOK
<1>5. RecursosOK' /\ ProcesosOK'
  BY DEF BajaGrado, recVars, procVars, TypeOK, KernelTypeOK, RecursosOK, ProcesosOK
<1>6. BanderasOK'
  BY DEF BajaGrado, Acepta, admVars, TypeOK, KernelTypeOK, BanderasOK
<1>7. CanalesTypeOK'
  BY DEF BajaGrado, canales, TypeOK, CanalesTypeOK
<1> QED BY <1>2, <1>3, <1>4, <1>5, <1>6, <1>7 DEF TipoSig, KernelTypeOK

\* RestaGrado keeps the types.
LEMMA TipoRestaGrado ==
  ASSUME TypeOK, RestaGrado
  PROVE  TipoSig
<1>1. HilosOK'
  BY DEF RestaGrado, Puntos, Hilos, TypeOK, KernelTypeOK, HilosOK, LocalesOK, ConPid,
         ConRecurso, ConInterfaz
<1>2. SemaforosOK'
  BY DEF RestaGrado, planVars, TypeOK, KernelTypeOK, SemaforosOK
<1>3. ColasOK'
  BY DEF RestaGrado, colasVars, TypeOK, KernelTypeOK, ColasOK
<1>4. RecursosOK' /\ ProcesosOK'
  BY DEF RestaGrado, recVars, procVars, TypeOK, KernelTypeOK, RecursosOK, ProcesosOK
<1>5. BanderasOK'
  BY DEF RestaGrado, TypeOK, KernelTypeOK, BanderasOK
<1>6. CanalesTypeOK'
  BY DEF RestaGrado, canales, TypeOK, CanalesTypeOK
<1> QED BY <1>1, <1>2, <1>3, <1>4, <1>5, <1>6 DEF TipoSig, KernelTypeOK

\* ProcesoEstado keeps the types.
LEMMA TipoProcesoEstado ==
  ASSUME TypeOK, ProcesoEstado
  PROVE  TipoSig
<1>1. HilosOK'
  BY DEF ProcesoEstado, kernelVars, hilosVars, TypeOK, KernelTypeOK, HilosOK, LocalesOK,
         ConPid, ConRecurso, ConInterfaz
<1>2. SemaforosOK'
  BY DEF ProcesoEstado, kernelVars, planVars, admVars, usrVars, TypeOK, KernelTypeOK,
         SemaforosOK
<1>3. ColasOK'
  BY DEF ProcesoEstado, kernelVars, colasVars, TypeOK, KernelTypeOK, ColasOK
<1>4. RecursosOK' /\ ProcesosOK'
  BY DEF ProcesoEstado, kernelVars, recVars, procVars, TypeOK, KernelTypeOK, RecursosOK,
         ProcesosOK
<1>5. BanderasOK'
  BY DEF ProcesoEstado, kernelVars, admVars, usrVars, TypeOK, KernelTypeOK, BanderasOK
<1>6. CanalesTypeOK'
  BY DEF ProcesoEstado, canales, kernelVars, TypeOK, CanalesTypeOK
<1> QED BY <1>1, <1>2, <1>3, <1>4, <1>5, <1>6 DEF TipoSig, KernelTypeOK

\* FinalizaNew keeps the types.
LEMMA TipoFinalizaNew ==
  ASSUME TypeOK, NEW p \in Pids, FinalizaNew(p)
  PROVE  TipoSig
<1>1. Sin(colaNew, p) \in Seq(Pids)
  BY SinOK DEF FinalizaNew, TypeOK, KernelTypeOK, ColasOK
<1>2. HilosOK'
  BY SigueOK
     DEF FinalizaNew, TypeOK, KernelTypeOK, Hilos, Puntos, Argumentos, ConPid,
         ConRecurso, ConInterfaz
<1>3. SemaforosOK'
  BY DEF FinalizaNew, planVars, admVars, TypeOK, KernelTypeOK, SemaforosOK
<1>4. ColasOK'
  BY <1>1 DEF FinalizaNew, TypeOK, KernelTypeOK, ColasOK
<1>5. RecursosOK' /\ ProcesosOK'
  BY DEF FinalizaNew, recVars, procVars, TypeOK, KernelTypeOK, RecursosOK, ProcesosOK
<1>6. BanderasOK'
  BY DEF FinalizaNew, Finaliza, Acepta, admVars, TypeOK, KernelTypeOK, BanderasOK
<1>7. CanalesTypeOK'
  BY DEF FinalizaNew, canales, TypeOK, CanalesTypeOK
<1> QED BY <1>2, <1>3, <1>4, <1>5, <1>6, <1>7 DEF TipoSig, KernelTypeOK

\* FinalizaReady keeps the types.
LEMMA TipoFinalizaReady ==
  ASSUME TypeOK, NEW p \in Pids, FinalizaReady(p)
  PROVE  TipoSig
<1>1. Sin(colaReady, p) \in Seq(Pids)
  BY SinOK DEF FinalizaReady, TypeOK, KernelTypeOK, ColasOK
<1>2. HilosOK'
  BY SigueOK
     DEF FinalizaReady, TypeOK, KernelTypeOK, Hilos, Puntos, Argumentos, ConPid,
         ConRecurso, ConInterfaz
<1>3. SemaforosOK'
  BY DEF FinalizaReady, planVars, TypeOK, KernelTypeOK, SemaforosOK
<1>4. ColasOK'
  BY <1>1 DEF FinalizaReady, TypeOK, KernelTypeOK, ColasOK
<1>5. RecursosOK' /\ ProcesosOK'
  BY DEF FinalizaReady, recVars, procVars, TypeOK, KernelTypeOK, RecursosOK, ProcesosOK
<1>6. BanderasOK'
  BY DEF FinalizaReady, Finaliza, Acepta, TypeOK, KernelTypeOK, BanderasOK
<1>7. CanalesTypeOK'
  BY DEF FinalizaReady, canales, TypeOK, CanalesTypeOK
<1> QED BY <1>2, <1>3, <1>4, <1>5, <1>6, <1>7 DEF TipoSig, KernelTypeOK

\* FinalizaExec keeps the types.
LEMMA TipoFinalizaExec ==
  ASSUME TypeOK, NEW p \in Pids, FinalizaExec(p)
  PROVE  TipoSig
<1>1. Sin(colaExec, p) \in Seq(Pids)
  BY SinOK DEF FinalizaExec, TypeOK, KernelTypeOK, ColasOK
<1>2. HilosOK'
  BY SigueOK
     DEF FinalizaExec, TypeOK, KernelTypeOK, Hilos, Puntos, Argumentos, ConPid,
         ConRecurso, ConInterfaz
<1>3. SemaforosOK'
  BY DEF FinalizaExec, planVars, TypeOK, KernelTypeOK, SemaforosOK
<1>4. ColasOK'
  BY <1>1 DEF FinalizaExec, TypeOK, KernelTypeOK, ColasOK
<1>5. RecursosOK' /\ ProcesosOK'
  BY DEF FinalizaExec, recVars, procVars, TypeOK, KernelTypeOK, RecursosOK, ProcesosOK
<1>6. BanderasOK'
  BY DEF FinalizaExec, Finaliza, Acepta, TypeOK, KernelTypeOK, BanderasOK
<1>7. CanalesTypeOK'
  BY DEF FinalizaExec, canales, TypeOK, CanalesTypeOK
<1> QED BY <1>2, <1>3, <1>4, <1>5, <1>6, <1>7 DEF TipoSig, KernelTypeOK

\* PideDesalojo keeps the types.
LEMMA TipoPideDesalojo ==
  ASSUME TypeOK, PideDesalojo
  PROVE  TipoSig
<1>1. pidDe["consola"] \in Pids
  BY DEF PideDesalojo, TypeOK, KernelTypeOK, HilosOK, LocalesOK, Hilos, ConPid,
         ConRecurso, ConInterfaz
<1>2. HilosOK'
  BY <1>1, SigueOK
     DEF PideDesalojo, TypeOK, KernelTypeOK, Hilos, Puntos, Argumentos, ConPid,
         ConRecurso, ConInterfaz
<1>3. SemaforosOK'
  BY DEF PideDesalojo, planVars, admVars, TypeOK, KernelTypeOK, SemaforosOK
<1>4. ColasOK'
  BY DEF PideDesalojo, colasVars, TypeOK, KernelTypeOK, ColasOK
<1>5. RecursosOK' /\ ProcesosOK'
  BY DEF PideDesalojo, recVars, procVars, TypeOK, KernelTypeOK, RecursosOK, ProcesosOK
<1>6. BanderasOK'
  BY DEF PideDesalojo, admVars, TypeOK, KernelTypeOK, BanderasOK
<1>7. CanalesTypeOK'
  BY DEF PideDesalojo, canales, TypeOK, CanalesTypeOK
<1> QED BY <1>2, <1>3, <1>4, <1>5, <1>6, <1>7 DEF TipoSig, KernelTypeOK

\* EsperaUsuario keeps the types.
LEMMA TipoEsperaUsuario ==
  ASSUME TypeOK, EsperaUsuario
  PROVE  TipoSig
<1>1. pidDe["consola"] \in Pids
  BY DEF EsperaUsuario, TypeOK, KernelTypeOK, HilosOK, LocalesOK, Hilos, ConPid,
         ConRecurso, ConInterfaz
<1>2. Interrupcion(pidDe["consola"]) \in MensajesInterrupt
  BY <1>1 DEF Interrupcion, MensajesInterrupt
<1>3. Append(chInterrupt, Interrupcion(pidDe["consola"])) \in Seq(MensajesInterrupt)
  BY <1>2, AppendProperties DEF TypeOK, CanalesTypeOK
<1>4. HilosOK'
  BY <1>1, SigueOK
     DEF EsperaUsuario, TypeOK, KernelTypeOK, Hilos, Puntos, Argumentos, ConPid,
         ConRecurso, ConInterfaz
<1>5. SemaforosOK'
  BY DEF EsperaUsuario, planVars, admVars, TypeOK, KernelTypeOK, SemaforosOK
<1>6. ColasOK'
  BY DEF EsperaUsuario, colasVars, TypeOK, KernelTypeOK, ColasOK
<1>7. RecursosOK' /\ ProcesosOK'
  BY DEF EsperaUsuario, recVars, procVars, TypeOK, KernelTypeOK, RecursosOK, ProcesosOK
<1>8. BanderasOK'
  BY DEF EsperaUsuario, admVars, TypeOK, KernelTypeOK, BanderasOK
<1>9. CanalesTypeOK'
  BY <1>3 DEF EsperaUsuario, TypeOK, CanalesTypeOK
<1> QED BY <1>4, <1>5, <1>6, <1>7, <1>8, <1>9 DEF TipoSig, KernelTypeOK

\* FinalizaIO keeps the types.
LEMMA TipoFinalizaIO ==
  ASSUME TypeOK, NEW p \in Pids, FinalizaIO(p)
  PROVE  TipoSig
<1>1. /\ usados' = usados + 1
      /\ UNCHANGED <<desalojaUsuario, saldoPlani, ajusteGrado, esPrimer, desaloja, caido>>
  BY Zenon DEF FinalizaIO, Finaliza, Acepta, admVars
<1>2. estado[p].nombre \in Interfaces
  BY DEF FinalizaIO, Finaliza, Estados, TypeOK, KernelTypeOK, ProcesosOK
<1>3. HilosOK'
  BY <1>2, SigueOK
     DEF FinalizaIO, TypeOK, KernelTypeOK, Hilos, Puntos, Argumentos, ConPid,
         ConRecurso, ConInterfaz
<1>4. SemaforosOK'
  BY DEF FinalizaIO, planVars, admVars, TypeOK, KernelTypeOK, SemaforosOK
<1>5. ColasOK'
  BY DEF FinalizaIO, colasVars, TypeOK, KernelTypeOK, ColasOK
<1>6. RecursosOK' /\ ProcesosOK'
  BY DEF FinalizaIO, recVars, procVars, TypeOK, KernelTypeOK, RecursosOK, ProcesosOK
<1>7. BanderasOK'
  BY <1>1 DEF TypeOK, KernelTypeOK, BanderasOK
<1>8. CanalesTypeOK'
  BY DEF FinalizaIO, canales, TypeOK, CanalesTypeOK
<1> QED BY <1>3, <1>4, <1>5, <1>6, <1>7, <1>8 DEF TipoSig, KernelTypeOK

\* FinalizaRecurso keeps the types.
LEMMA TipoFinalizaRecurso ==
  ASSUME TypeOK, NEW p \in Pids, FinalizaRecurso(p)
  PROVE  TipoSig
<1>1. /\ usados' = usados + 1
      /\ UNCHANGED <<desalojaUsuario, saldoPlani, ajusteGrado, esPrimer, desaloja, caido>>
  BY Zenon DEF FinalizaRecurso, Finaliza, Acepta, admVars
<1>2. estado[p].nombre \in Recursos
  BY DEF FinalizaRecurso, Finaliza, Estados, TypeOK, KernelTypeOK, ProcesosOK
<1>3. Sin(colaRec[estado[p].nombre], p) \in Seq(Pids)
  BY <1>2, SinOK DEF FinalizaRecurso, TypeOK, KernelTypeOK, ColasOK
<1>4. instancias[estado[p].nombre] \in Int
  BY <1>2 DEF TypeOK, KernelTypeOK, RecursosOK
<1>5. HilosOK'
  BY <1>2, <1>4
     DEF FinalizaRecurso, Puntos, Hilos, Argumentos, TypeOK, KernelTypeOK, HilosOK,
         LocalesOK, ConPid, ConRecurso, ConInterfaz
<1>6. SemaforosOK'
  BY DEF FinalizaRecurso, planVars, admVars, TypeOK, KernelTypeOK, SemaforosOK
<1>7. ColasOK'
  BY <1>2, <1>3 DEF FinalizaRecurso, TypeOK, KernelTypeOK, ColasOK
<1>8. RecursosOK' /\ ProcesosOK'
  BY DEF FinalizaRecurso, recVars, procVars, TypeOK, KernelTypeOK, RecursosOK, ProcesosOK
<1>9. BanderasOK'
  BY <1>1 DEF TypeOK, KernelTypeOK, BanderasOK
<1>10. CanalesTypeOK'
  BY DEF FinalizaRecurso, canales, TypeOK, CanalesTypeOK
<1> QED BY <1>5, <1>6, <1>7, <1>8, <1>9, <1>10 DEF TipoSig, KernelTypeOK

\* SumaInstancia keeps the types.
LEMMA TipoSumaInstancia ==
  ASSUME TypeOK, SumaInstancia
  PROVE  TipoSig
<1>1. CASE DePar(pidDe["consola"], argDe["consola"]) = {}
  BY <1>1, CaeOK DEF SumaInstancia
<1>2. CASE DePar(pidDe["consola"], argDe["consola"]) # {}
  <2>1. pidDe["consola"] \in Pids
    BY DEF SumaInstancia, TypeOK, KernelTypeOK, HilosOK, LocalesOK, Hilos, ConPid,
           ConRecurso, ConInterfaz
  <2>2. HilosOK'
    BY <1>2, <2>1, SigueOK
       DEF SumaInstancia, TypeOK, KernelTypeOK, Hilos, Puntos, Argumentos, ConPid,
           ConRecurso, ConInterfaz
  <2>3. SemaforosOK'
    BY <1>2
       DEF SumaInstancia, planVars, admVars, usrVars, TypeOK, KernelTypeOK, SemaforosOK
  <2>4. ColasOK'
    BY <1>2 DEF SumaInstancia, colasVars, TypeOK, KernelTypeOK, ColasOK
  <2>5. RecursosOK' /\ ProcesosOK'
    BY <1>2, QuitaOK
       DEF SumaInstancia, HilosOK, procVars, TypeOK, KernelTypeOK, RecursosOK,
           ProcesosOK
  <2>6. BanderasOK'
    BY <1>2 DEF SumaInstancia, admVars, usrVars, TypeOK, KernelTypeOK, BanderasOK
  <2>7. CanalesTypeOK'
    BY <1>2 DEF SumaInstancia, canales, TypeOK, CanalesTypeOK
  <2> QED BY <2>2, <2>3, <2>4, <2>5, <2>6, <2>7 DEF TipoSig, KernelTypeOK
<1> QED BY <1>1, <1>2

\* PideDesconocido keeps the types.
LEMMA TipoPideDesconocido ==
  ASSUME TypeOK, PideDesconocido
  PROVE  TipoSig
<1>1. CASE Cae
  BY <1>1, CaeOK
<1>2. CASE ~Cae
  <2>1. Head(chCpu) \in MensajesCpu /\ Tail(chCpu) \in Seq(MensajesCpu)
    BY DEF PideDesconocido, Llega, TypeOK, CanalesTypeOK
  <2>2. Head(chCpu).pid \in Pids /\ Head(chCpu).pc \in Nat
    BY <2>1 DEF MensajesCpu
  <2>3. HilosOK'
    BY <1>2, <2>2, SigueOK
       DEF PideDesconocido, TypeOK, KernelTypeOK, Hilos, Puntos, Argumentos, ConPid,
           ConRecurso, ConInterfaz
  <2>4. SemaforosOK'
    BY <1>2 DEF PideDesconocido, planVars, admVars, usrVars, TypeOK, KernelTypeOK,
                SemaforosOK
  <2>5. ColasOK'
    <3>1. CargaPcb(Head(chCpu))
      BY <1>2 DEF PideDesconocido
    <3>2. colaExec' \in Seq(Pids)
      BY <2>2, <3>1 DEF CargaPcb
    <3> QED BY <1>2, <3>2 DEF PideDesconocido, TypeOK, KernelTypeOK, ColasOK
  <2>6. RecursosOK' /\ ProcesosOK'
    BY <1>2, <2>2 DEF PideDesconocido, CargaPcb, recVars, TypeOK, KernelTypeOK,
                      RecursosOK, ProcesosOK
  <2>7. BanderasOK'
    BY <1>2 DEF PideDesconocido, admVars, usrVars, TypeOK, KernelTypeOK, BanderasOK
  <2>8. CanalesTypeOK'
    BY <1>2, <2>1 DEF PideDesconocido, CargaPcb, TypeOK, CanalesTypeOK
  <2> QED BY <2>3, <2>4, <2>5, <2>6, <2>7, <2>8 DEF TipoSig, KernelTypeOK
<1> QED BY <1>1, <1>2

\* The second half of signal, whoever does it.
LEMMA EvaluaSignalOK ==
  ASSUME TypeOK, NEW p \in Pids, NEW r \in Recursos, ~SignalNula(p, r), EvaluaSignal(p, r)
  PROVE  /\ SemaforosOK' /\ ColasOK' /\ RecursosOK' /\ ProcesosOK' /\ BanderasOK'
         /\ CanalesTypeOK'
<1>1. RecursosOK'
  BY QuitaOK DEF EvaluaSignal, TypeOK, KernelTypeOK, RecursosOK
<1>2. BanderasOK' /\ CanalesTypeOK'
  BY DEF EvaluaSignal, admVars, usrVars, canales, TypeOK, KernelTypeOK, BanderasOK,
         CanalesTypeOK
<1>3. colaRec \in [Recursos -> Seq(Pids)]
  BY DEF TypeOK, KernelTypeOK, ColasOK
<1>4. CASE SeDesbloquea(r)
  <2>1. Head(colaRec[r]) \in Pids /\ Tail(colaRec[r]) \in Seq(Pids)
    BY <1>3, <1>4 DEF SignalNula
  <2>2. colaReady' \in Seq(Pids) /\ estado' \in [Pids -> Estados] /\ semReady' \in Nat
    BY <1>4, <2>1, IniciarOK DEF EvaluaSignal
  <2>3. colaRec' \in [Recursos -> Seq(Pids)]
    BY <1>3, <1>4, <2>1 DEF EvaluaSignal
  <2>4. SemaforosOK'
    BY <2>2 DEF EvaluaSignal, admVars, usrVars, TypeOK, KernelTypeOK, SemaforosOK
  <2>5. ColasOK' /\ ProcesosOK'
    BY <2>2, <2>3 DEF EvaluaSignal, TypeOK, KernelTypeOK, ColasOK, ProcesosOK
  <2> QED BY <1>1, <1>2, <2>4, <2>5
<1>5. CASE ~SeDesbloquea(r)
  <2>1. SemaforosOK'
    BY <1>5 DEF EvaluaSignal, admVars, usrVars, TypeOK, KernelTypeOK, SemaforosOK
  <2>2. ColasOK' /\ ProcesosOK'
    BY <1>5 DEF EvaluaSignal, TypeOK, KernelTypeOK, ColasOK, ProcesosOK
  <2> QED BY <1>1, <1>2, <2>1, <2>2
<1> QED BY <1>4, <1>5

\* Signal keeps the types.
LEMMA TipoSignal ==
  ASSUME TypeOK, Signal
  PROVE  TipoSig
<1> DEFINE p == pidDe["escucha"]
           r == argDe["escucha"]
<1>1. p \in Pids /\ r \in Recursos
  BY DEF Signal, TypeOK, KernelTypeOK, HilosOK, LocalesOK, Hilos, ConPid, ConRecurso
<1>2. CASE SignalNula(p, r)
  BY <1>2, CaeOK DEF Signal
<1>3. CASE ~SignalNula(p, r)
  <2>1. EvaluaSignal(p, r) /\ Vuelve("escucha")
    BY <1>3 DEF Signal
  <2>2. HilosOK'
    BY <2>1, VuelveOK DEF TypeOK, KernelTypeOK, Hilos
  <2> QED BY <1>1, <1>3, <2>1, <2>2, EvaluaSignalOK DEF TipoSig, KernelTypeOK
<1> QED BY <1>2, <1>3

\* LiberaEvalua keeps the types.
LEMMA TipoLiberaEvalua ==
  ASSUME TypeOK, NEW t \in Hilos, LiberaEvalua(t)
  PROVE  TipoSig
<1>1. pidDe[t] \in Pids /\ argDe[t] \in Recursos
  BY DEF LiberaEvalua, TypeOK, KernelTypeOK, HilosOK, LocalesOK, ConPid, ConRecurso
<1>2. CASE SignalNula(pidDe[t], argDe[t])
  BY <1>2, CaeOK DEF LiberaEvalua
<1>3. CASE ~SignalNula(pidDe[t], argDe[t])
  <2>1. EvaluaSignal(pidDe[t], argDe[t]) /\ Sigue(t, "libera", pidDe[t], Nada)
    BY <1>3 DEF LiberaEvalua
  <2>2. HilosOK'
    BY <1>1, <2>1, SigueOK DEF TypeOK, KernelTypeOK, Puntos, Argumentos, ConPid,
                               ConRecurso, ConInterfaz
  <2> QED BY <1>1, <1>3, <2>1, <2>2, EvaluaSignalOK DEF TipoSig, KernelTypeOK
<1> QED BY <1>2, <1>3

\* The end of exit_prima, whoever does it.
LEMMA SaleOK ==
  ASSUME TypeOK, NEW p \in Pids, Sale(p), chInterrupt' \in Seq(MensajesInterrupt)
  PROVE  /\ SemaforosOK' /\ ColasOK' /\ RecursosOK' /\ ProcesosOK' /\ BanderasOK'
         /\ CanalesTypeOK'
<1>1. Estado("EXIT", Nada) \in Estados
  BY DEF Estado, Estados, Tipos
<1>2. SemaforosOK' /\ BanderasOK'
  BY DEF Sale, planVars, usrVars, TypeOK, KernelTypeOK, SemaforosOK, BanderasOK
<1>3. ColasOK'
  BY DEF Sale, TypeOK, KernelTypeOK, ColasOK
<1>4. RecursosOK' /\ ProcesosOK'
  BY <1>1 DEF Sale, recVars, TypeOK, KernelTypeOK, RecursosOK, ProcesosOK
<1>5. CanalesTypeOK'
  BY DEF Sale, TypeOK, CanalesTypeOK
<1> QED BY <1>2, <1>3, <1>4, <1>5

\* SaleEscucha keeps the types.
LEMMA TipoSaleEscucha ==
  ASSUME TypeOK, SaleEscucha
  PROVE  TipoSig
<1>1. pidDe["escucha"] \in Pids
  BY DEF SaleEscucha, TypeOK, KernelTypeOK, HilosOK, LocalesOK, Hilos, ConPid
<1>2. Interrupcion(pidDe["escucha"]) \in MensajesInterrupt
  BY <1>1 DEF Interrupcion, MensajesInterrupt
<1>3. chInterrupt' \in Seq(MensajesInterrupt)
  BY <1>2 DEF SaleEscucha, TypeOK, CanalesTypeOK
<1>4. HilosOK'
  BY VuelveOK DEF SaleEscucha, TypeOK, KernelTypeOK, Hilos
<1> QED BY <1>1, <1>3, <1>4, SaleOK DEF SaleEscucha, TipoSig, KernelTypeOK

\* SaleConsola keeps the types.
LEMMA TipoSaleConsola ==
  ASSUME TypeOK, SaleConsola
  PROVE  TipoSig
<1>1. pidDe["consola"] \in Pids
  BY DEF SaleConsola, TypeOK, KernelTypeOK, HilosOK, LocalesOK, Hilos, ConPid
<1>2. chInterrupt' \in Seq(MensajesInterrupt)
  BY DEF SaleConsola, TypeOK, CanalesTypeOK
<1>3. HilosOK'
  BY VuelveOK, SigueOK
     DEF SaleConsola, TypeOK, KernelTypeOK, Hilos, Puntos, Argumentos, ConPid,
         ConRecurso, ConInterfaz
<1> QED BY <1>1, <1>2, <1>3, SaleOK DEF SaleConsola, TipoSig, KernelTypeOK

----------------------------------------------------------------------------
(* The steps, by who takes them.                                           *)

\* Every step of the kernel keeps the types.
LEMMA TipoKernel ==
  ASSUME TypeOK, KernelNext
  PROVE  TipoSig
<1>1. CASE Nuevos
  BY <1>1, TipoEsperaNew, TipoAdmite DEF Nuevos
<1>2. CASE Escucha
  <2>1. CASE FinDesaloja \/ FinDesalojaUsuario \/ FinContinua \/ PaqueteSinExec
    BY <2>1, TipoFinDesaloja, TipoFinDesalojaUsuario, TipoFinContinua, CaeOK
       DEF PaqueteSinExec
  <2>2. CASE PideDesconocido \/ PideIO \/ EnviaIO \/ MarcaBlock \/ PideWait \/ EvaluaWait
    BY <2>2, TipoPideDesconocido, TipoPideIO, TipoEnviaIO, TipoMarcaBlock, TipoPideWait,
       TipoEvaluaWait
  <2>3. CASE PideSignal \/ Signal \/ PideExit \/ SaleEscucha
    BY <2>3, TipoPideSignal, TipoSignal, TipoPideExit, TipoSaleEscucha
  <2> QED BY <1>2, <2>1, <2>2, <2>3 DEF Escucha
<1>3. CASE Consola
  <2>1. CASE \E s \in Scripts : IniciarProceso(s)
    BY <2>1, TipoIniciarProceso
  <2>2. CASE \E n \in Grados : SubeGrado(n) \/ BajaGrado(n)
    BY <2>2, TipoSubeGrado, TipoBajaGrado
  <2>3. CASE \E p \in Pids :
                \/ FinalizaNew(p) \/ FinalizaReady(p) \/ FinalizaExec(p)
                \/ FinalizaIO(p) \/ FinalizaRecurso(p) \/ FinalizaPerdido(p)
    BY <2>3, TipoFinalizaNew, TipoFinalizaReady, TipoFinalizaExec, TipoFinalizaIO,
       TipoFinalizaRecurso, CaeOK DEF FinalizaPerdido
  <2>4. CASE \/ IniciarPlanificacion \/ DetenerPlanificacion \/ Detiene \/ RestaGrado
             \/ ProcesoEstado
    BY <2>4, TipoIniciarPlanificacion, TipoDetenerPlanificacion, TipoDetiene,
       TipoRestaGrado, TipoProcesoEstado
  <2>5. CASE PideDesalojo \/ EsperaUsuario \/ SumaInstancia \/ SaleConsola
    BY <2>5, TipoPideDesalojo, TipoEsperaUsuario, TipoSumaInstancia, TipoSaleConsola
  <2> QED BY <1>3, <2>1, <2>2, <2>3, <2>4, <2>5 DEF Consola
<1>4. CASE Despacha
  BY <1>4, TipoDespacha
<1>5. CASE \E t \in Hilos : Hilo(t)
  BY <1>5, TipoReplanifica, TipoElige, TipoLibera, TipoLiberaEvalua DEF Hilo
<1>6. CASE \E i \in Interfaces : FinIO(i)
  BY <1>6, TipoFinIO
<1> QED BY <1>1, <1>2, <1>3, <1>4, <1>5, <1>6 DEF KernelNext

\* The other components leave the kernel as it was, ...
LEMMA KernelIgual ==
  ASSUME TypeOK, UNCHANGED kernelVars
  PROVE  KernelTypeOK'
<1>1. HilosOK' /\ SemaforosOK'
  BY DEF kernelVars, hilosVars, planVars, admVars, usrVars, TypeOK, KernelTypeOK, HilosOK,
         LocalesOK, SemaforosOK
<1>2. ColasOK' /\ RecursosOK' /\ ProcesosOK'
  BY DEF kernelVars, colasVars, recVars, procVars, TypeOK, KernelTypeOK, ColasOK,
         RecursosOK, ProcesosOK
<1>3. BanderasOK'
  BY DEF kernelVars, admVars, usrVars, TypeOK, KernelTypeOK, BanderasOK
<1> QED BY <1>1, <1>2, <1>3 DEF KernelTypeOK

\* ... and the kernel leaves the CPU as it was.
LEMMA CpuIgual ==
  ASSUME TypeOK, UNCHANGED cpuVars
  PROVE  CpuTypeOK'
BY DEF cpuVars, TypeOK, CpuTypeOK

\* The packets of an instruction are messages of the CPU.
LEMMA AvisosOK ==
  ASSUME NEW ins \in Instrucciones, NEW p \in Pids, NEW c \in Nat
  PROVE  Avisos(ins, p, c) \in Seq(MensajesCpu)
<1> DEFINE aviso(m) == [motivo |-> m, pid |-> p, pc |-> c, arg |-> ins.arg]
<1>1. \A m \in Motivos : aviso(m) \in MensajesCpu
  BY DEF MensajesCpu, Instrucciones
<1>2. ins.op \in {"COMPUTO", "IO", "WAIT", "SIGNAL", "FALLA", "IO_DENEGADA", "EXIT"}
  BY DEF Instrucciones, Operaciones
<1>3. CASE ins.op = "COMPUTO"
  BY <1>3 DEF Avisos
<1>4. CASE ins.op = "FALLA"
  BY <1>1, <1>4 DEF Avisos, Motivos
<1>5. CASE ins.op = "IO_DENEGADA"
  BY <1>1, <1>5 DEF Avisos, Motivos
<1>6. CASE ins.op \in {"IO", "WAIT", "SIGNAL", "EXIT"}
  <2>1. Avisos(ins, p, c) = <<aviso(ins.op)>>
    BY <1>6 DEF Avisos
  <2> QED BY <1>1, <1>6, <2>1 DEF Motivos
<1> QED BY <1>2, <1>3, <1>4, <1>5, <1>6

\* Every step of the CPU keeps the types.
LEMMA TipoCpu ==
  ASSUME TypeOK, CpuNext
  PROVE  CpuTypeOK' /\ CanalesTypeOK'
<1>1. CASE CpuRecibePcb
  <2>1. Head(chDispatch) \in MensajesDispatch /\ Tail(chDispatch) \in Seq(MensajesDispatch)
    BY <1>1 DEF CpuRecibePcb, TypeOK, CanalesTypeOK
  <2>2. Head(chDispatch).pid \in Pids /\ Head(chDispatch).pc \in Nat
    BY <1>1, <2>1 DEF CpuRecibePcb, MensajesDispatch, Continua
  <2>3. CpuTypeOK'
    BY <1>1, <2>2 DEF CpuRecibePcb, TypeOK, CpuTypeOK, Fases
  <2>4. CanalesTypeOK'
    BY <1>1, <2>1 DEF CpuRecibePcb, TypeOK, CanalesTypeOK
  <2> QED BY <2>3, <2>4
<1>2. CASE CpuInstruccion
  <2>1. cpuPid \in Pids /\ cpuPC \in Nat
    BY <1>2 DEF CpuInstruccion, TypeOK, CpuTypeOK
  <2>2. script[cpuPid] \in Seq(Instrucciones)
    <3>1. script[cpuPid] \in Scripts \cup {<<>>}
      BY <2>1 DEF TypeOK, CanalesTypeOK
    <3>2. <<>> \in Seq(Instrucciones)
      BY EmptySeq
    <3> QED BY <3>1, <3>2, ScriptsAssumption
  <2>3. script[cpuPid][cpuPC + 1] \in Instrucciones
    BY <1>2, <2>1, <2>2 DEF CpuInstruccion
  <2>4. Avisos(script[cpuPid][cpuPC + 1], cpuPid, cpuPC + 1) \in Seq(MensajesCpu)
    BY <2>1, <2>3, AvisosOK
  <2>5. FinInstruccion(cpuPid, cpuPC + 1) \in MensajesCpu
    BY <2>1 DEF FinInstruccion, MensajesCpu, Motivos, Argumentos
  <2>6. chCpu' \in Seq(MensajesCpu)
    BY <1>2, <2>4, <2>5 DEF CpuInstruccion, TypeOK, CanalesTypeOK
  <2> QED BY <1>2, <2>1, <2>6 DEF CpuInstruccion, TypeOK, CpuTypeOK, CanalesTypeOK, Fases
<1>3. CASE CpuContinua
  BY <1>3 DEF CpuContinua, TypeOK, CpuTypeOK, CanalesTypeOK, Fases
<1>4. CASE CpuNoContinua
  BY <1>4 DEF CpuNoContinua, TypeOK, CpuTypeOK, CanalesTypeOK, Fases
<1>5. CASE CpuRecibeInterrupcion
  <2>1. /\ Head(chInterrupt) \in MensajesInterrupt
        /\ Tail(chInterrupt) \in Seq(MensajesInterrupt)
    BY <1>5 DEF CpuRecibeInterrupcion, TypeOK, CanalesTypeOK
  <2>2. Head(chInterrupt).pid \in Pids
    BY <1>5, <2>1 DEF CpuRecibeInterrupcion, MensajesInterrupt, NoContinua
  <2>3. CpuTypeOK'
    <3>1. cpuLlego' \in Nat /\ cpuInt' \in Pids
      BY <1>5, <2>2 DEF CpuRecibeInterrupcion, TypeOK, CpuTypeOK
    <3>2. cpuPrimera' = FALSE /\ UNCHANGED <<cpuFase, cpuPid, cpuPC, ejecutadas>>
      BY <1>5 DEF CpuRecibeInterrupcion
    <3> QED BY <3>1, <3>2 DEF TypeOK, CpuTypeOK
  <2>4. CanalesTypeOK'
    BY <1>5, <2>1 DEF CpuRecibeInterrupcion, TypeOK, CanalesTypeOK
  <2> QED BY <2>3, <2>4
<1>6. CASE CpuAtiendeInterrupcion
  BY <1>6 DEF CpuAtiendeInterrupcion, canales, TypeOK, CpuTypeOK, CanalesTypeOK, Fases
<1> QED BY <1>1, <1>2, <1>3, <1>4, <1>5, <1>6 DEF CpuNext

\* So does every step of an interface.
LEMMA TipoInterfaz ==
  ASSUME TypeOK, NEW i \in Interfaces, AtiendeInterfaz(i)
  PROVE  CanalesTypeOK'
<1>1. Head(ioPedidos[i]) \in Pids /\ Tail(ioPedidos[i]) \in Seq(Pids)
  BY DEF AtiendeInterfaz, TypeOK, CanalesTypeOK
<1> QED BY <1>1 DEF AtiendeInterfaz, TypeOK, CanalesTypeOK

\* The initial state is typed.
LEMMA TipoInit == Init => TypeOK
<1> SUFFICES ASSUME Init PROVE TypeOK
  OBVIOUS
<1>1. 0 \notin Pids /\ 1 \in Pids
  BY MaxPidAssumption DEF Pids
<1>2. CanalesTypeOK
  BY DEF Init, CanalesInit, CanalesTypeOK
<1>3. CpuTypeOK
  BY DEF Init, CpuInit, CpuTypeOK, Fases
<1>4. HilosOK
  BY DEF Init, KernelInit, HilosOK, LocalesOK, Inicio, Hilos, Puntos, Argumentos, ConPid,
         ConRecurso, ConInterfaz
<1>5. SemaforosOK /\ ColasOK
  BY GradoAssumption DEF Init, KernelInit, SemaforosOK, ColasOK
<1>6. Estado("NADA", Nada) \in Estados
  BY DEF Estado, Estados, Tipos
<1>7. RecursosOK /\ ProcesosOK
  BY <1>6, InstanciasAssumption, MaxPidAssumption
     DEF Init, KernelInit, RecursosOK, ProcesosOK
<1>8. BanderasOK
  <2>1. /\ desaloja \in BOOLEAN /\ desalojaUsuario \in BOOLEAN
        /\ esPrimer \in BOOLEAN /\ caido \in BOOLEAN
    BY Zenon DEF Init, KernelInit
  <2>2. usados \in Nat /\ saldoPlani \in Int /\ ajusteGrado \in Int
    BY DEF Init, KernelInit
  <2> QED BY <2>1, <2>2 DEF BanderasOK
<1> QED BY <1>2, <1>3, <1>4, <1>5, <1>7, <1>8 DEF TypeOK, KernelTypeOK

\* Every step keeps the types.
LEMMA TipoNext == TypeOK /\ [Next]_vars => TypeOK'
<1> SUFFICES ASSUME TypeOK, [Next]_vars PROVE TypeOK'
  OBVIOUS
<1>1. CASE KernelNext /\ UNCHANGED cpuVars
  BY <1>1, TipoKernel, CpuIgual DEF TipoSig, TypeOK
<1>2. CASE CpuNext /\ UNCHANGED kernelVars
  BY <1>2, TipoCpu, KernelIgual DEF TypeOK
<1>3. CASE \E i \in Interfaces : Interfaz(i)
  BY <1>3, TipoInterfaz, KernelIgual, CpuIgual DEF Interfaz, TypeOK
<1>4. CASE UNCHANGED vars
  <2>1. CanalesTypeOK'
    BY <1>4 DEF vars, canales, TypeOK, CanalesTypeOK
  <2> QED BY <1>4, <2>1, KernelIgual, CpuIgual DEF vars, TypeOK
<1> QED BY <1>1, <1>2, <1>3, <1>4 DEF Next, Caido

\* Type correctness: no thread of the kernel, nor the CPU nor an interface,
\* ever leaves a queue with something that is not a process, a semaphore below
\* zero, or a local variable with no process where its handler uses one.
THEOREM TipoCorrecto == Spec => []TypeOK
<1>1. Init => TypeOK
  BY TipoInit
<1>2. TypeOK /\ [Next]_vars => TypeOK'
  BY TipoNext
<1> QED BY <1>1, <1>2, PTL DEF Spec

----------------------------------------------------------------------------
(***************************************************************************)
(* What the kernel counts.  The tokens of sem_planificacion are conserved, *)
(* and the queue of an interface is in step with its connection, whatever  *)
(* the commands.  The instances of the resources are conserved, the        *)
(* semaphores count cola_new and cola_ready, and the negative instances    *)
(* count the processes that wait for a resource, as long as the console is *)
(* not given FINALIZAR_PROCESO: its increment of instancias_recurso is not *)
(* atomic (kernel.c:637), and it takes pcbs out of queues without touching *)
(* their semaphores.                                                       *)
(***************************************************************************)

----------------------------------------------------------------------------
(* The instances of the resources.                                         *)

\* A thread between its change of instancias_recurso and its change of
\* lista_recursos_retenidos.
Medio == {"waitEvalua", "signalEvalua", "liberaEvalua"}

\* The console never gets to the increment, the long-term scheduler never
\* releases anything.
Sitios ==
    /\ pc["consola"] # "suma"
    /\ pc["nuevos"] \notin {"libera", "liberaEvalua"}

InvRecursos ==
    TypeOK /\ Sitios /\ IsFiniteSet(retenidos) /\ ConservaInstancias

\* A step that leaves the resources alone and moves no thread in or out of Medio.
Quieto ==
    /\ UNCHANGED recVars
    /\ \A t \in {"escucha", "consola"} :
          \/ pc'[t] = pc[t] /\ argDe'[t] = argDe[t]
          \/ pc[t] \notin Medio /\ pc'[t] \notin Medio
    /\ Sitios'

\* What a step has to preserve besides the types.
RecursosSig == Sitios' /\ IsFiniteSet(retenidos') /\ ConservaInstancias'

\* A quiet step keeps the account.
LEMMA QuietoConserva ==
  ASSUME InvRecursos, Quieto
  PROVE  RecursosSig
<1>1. \A r : Retenciones(r)' = Retenciones(r)
  BY DEF Quieto, recVars, Retenciones
<1>2. \A r : /\ En("escucha", "waitEvalua", r)' = En("escucha", "waitEvalua", r)
             /\ En("escucha", "signalEvalua", r)' = En("escucha", "signalEvalua", r)
             /\ En("escucha", "liberaEvalua", r)' = En("escucha", "liberaEvalua", r)
             /\ En("consola", "liberaEvalua", r)' = En("consola", "liberaEvalua", r)
  BY DEF Quieto, Medio, En
<1>3. ConservaInstancias'
  BY <1>1, <1>2, Zenon DEF InvRecursos, ConservaInstancias, Quieto, recVars
<1> QED BY <1>3 DEF RecursosSig, InvRecursos, Quieto, recVars

\* Taking one retained instance of r off the list lowers the account of r by one.
LEMMA QuitaUna ==
  ASSUME IsFiniteSet(retenidos), NEW p, NEW r, Quita(p, r)
  PROVE  /\ IsFiniteSet(retenidos')
         /\ Cardinality(Retenciones(r)) \in Nat
         /\ Cardinality(Retenciones(r)') = Cardinality(Retenciones(r)) - 1
         /\ \A s : s # r => Retenciones(s)' = Retenciones(s)
<1>1. PICK x \in DePar(p, r) : retenidos' = retenidos \ {x}
  BY DEF Quita
<1>2. x \in retenidos /\ x.rec = r
  BY DEF DePar
<1>3. Retenciones(r)' = Retenciones(r) \ {x} /\ x \in Retenciones(r)
  BY <1>1, <1>2 DEF Retenciones
<1>4. \A s : s # r => Retenciones(s)' = Retenciones(s)
  BY <1>1, <1>2 DEF Retenciones
<1>5. IsFiniteSet(Retenciones(r)) /\ IsFiniteSet(retenidos')
  BY <1>1, FS_Subset, Retenciones(r) \subseteq retenidos, retenidos' \subseteq retenidos
     DEF Retenciones
<1> QED BY <1>3, <1>4, <1>5, FS_RemoveElement, FS_CardinalityType

\* Recording a retention raises it by one: its number is new.
LEMMA AnotaUna ==
  ASSUME IsFiniteSet(retenidos), retenidos \subseteq Retencion, NEW p, NEW r, Anota(p, r)
  PROVE  /\ IsFiniteSet(retenidos')
         /\ Cardinality(Retenciones(r)) \in Nat
         /\ Cardinality(Retenciones(r)') = Cardinality(Retenciones(r)) + 1
         /\ \A s : s # r => Retenciones(s)' = Retenciones(s)
<1>1. PICK n \in 1..MaxRetenidos :
         /\ \A x \in retenidos : x.n < n
         /\ retenidos' = retenidos \cup {[n |-> n, pid |-> p, rec |-> r]}
  BY DEF Anota
<1> DEFINE y == [n |-> n, pid |-> p, rec |-> r]
<1>2. y \notin retenidos
  <2>1. y \in retenidos => n < n
    BY <1>1
  <2> QED BY <2>1
<1>3. Retenciones(r)' = Retenciones(r) \cup {y} /\ y \notin Retenciones(r)
  BY <1>1, <1>2 DEF Retenciones
<1>4. \A s : s # r => Retenciones(s)' = Retenciones(s)
  BY <1>1 DEF Retenciones
<1>5. IsFiniteSet(Retenciones(r)) /\ IsFiniteSet(retenidos')
  <2>1. Retenciones(r) \subseteq retenidos
    BY DEF Retenciones
  <2> QED BY <1>1, <2>1, FS_Subset, FS_AddElement
<1> QED BY <1>3, <1>4, <1>5, FS_AddElement, FS_CardinalityType

\* The ledger of one resource, and that of the rest: how the six steps that are
\* not quiet balance it.
LEMMA CuentaOK ==
  ASSUME InvRecursos
  PROVE  \A r \in Recursos :
           /\ instancias[r] \in Int /\ Instancias[r] \in Int
           /\ Cardinality(Retenciones(r)) \in Nat
<1>1. \A r : IsFiniteSet(Retenciones(r))
  BY FS_Subset DEF InvRecursos, Retenciones
<1> QED BY <1>1, FS_CardinalityType, InstanciasAssumption
        DEF InvRecursos, TypeOK, KernelTypeOK, RecursosOK

\* wait_recurso: one instance less, the thread owes one retention.
LEMMA PideWaitConserva ==
  ASSUME InvRecursos, PideWait
  PROVE  RecursosSig
<1> DEFINE a == Head(chCpu).arg
<1>1. /\ a \in Recursos /\ pc["escucha"] = "recibe" /\ retenidos' = retenidos
      /\ instancias' = [instancias EXCEPT ![a] = @ - 1]
      /\ Sigue("escucha", "waitEvalua", Head(chCpu).pid, a)
  BY DEF PideWait, Llega
<1>2. /\ pc'["escucha"] = "waitEvalua" /\ argDe'["escucha"] = a
      /\ \A t \in {"consola", "nuevos"} : pc'[t] = pc[t] /\ argDe'[t] = argDe[t]
  BY <1>1 DEF Sigue, InvRecursos, TypeOK, KernelTypeOK, HilosOK, Hilos
<1>3. \A r : Retenciones(r)' = Retenciones(r)
  BY <1>1 DEF Retenciones
<1>4. ConservaInstancias'
  <2> SUFFICES ASSUME NEW r \in Recursos
               PROVE instancias'[r] + Cardinality(Retenciones(r)')
                     = Instancias[r] - En("escucha", "waitEvalua", r)'
                                     + En("escucha", "signalEvalua", r)'
                                     + En("escucha", "liberaEvalua", r)'
                                     + En("consola", "liberaEvalua", r)'
    BY DEF ConservaInstancias
  <2>1. /\ instancias[r] \in Int /\ Instancias[r] \in Int
        /\ Cardinality(Retenciones(r)) \in Nat
    BY CuentaOK
  <2>2. instancias[r] + Cardinality(Retenciones(r))
          = Instancias[r] + En("consola", "liberaEvalua", r)
    BY <1>1, <2>1 DEF InvRecursos, ConservaInstancias, En
  <2>3. instancias'[r] = IF r = a THEN instancias[r] - 1 ELSE instancias[r]
    BY <1>1 DEF InvRecursos, TypeOK, KernelTypeOK, RecursosOK
  <2> QED BY <1>2, <1>3, <2>1, <2>2, <2>3 DEF En
<1> QED BY <1>1, <1>2, <1>4 DEF RecursosSig, InvRecursos, Sitios

\* The rest of wait: the retention it owed is recorded.
LEMMA EvaluaWaitConserva ==
  ASSUME InvRecursos, EvaluaWait
  PROVE  RecursosSig
<1>0. PICK p, a : p = pidDe["escucha"] /\ a = argDe["escucha"]
  OBVIOUS
<1>1. /\ pc["escucha"] = "waitEvalua" /\ Anota(p, a) /\ instancias' = instancias
      /\ Vuelve("escucha")
  BY <1>0 DEF EvaluaWait
<1>2. /\ pc'["escucha"] = "recibe"
      /\ \A t \in {"consola", "nuevos"} : pc'[t] = pc[t] /\ argDe'[t] = argDe[t]
  BY <1>1 DEF Vuelve, Inicio, Sigue, InvRecursos, TypeOK, KernelTypeOK, HilosOK, Hilos
<1>3. /\ IsFiniteSet(retenidos')
      /\ Cardinality(Retenciones(a)') = Cardinality(Retenciones(a)) + 1
      /\ \A s : s # a => Retenciones(s)' = Retenciones(s)
  BY <1>1, AnotaUna DEF InvRecursos, TypeOK, KernelTypeOK, RecursosOK
<1>4. ConservaInstancias'
  <2> SUFFICES ASSUME NEW r \in Recursos
               PROVE instancias[r] + Cardinality(Retenciones(r)')
                     = Instancias[r] - En("escucha", "waitEvalua", r)'
                                     + En("escucha", "signalEvalua", r)'
                                     + En("escucha", "liberaEvalua", r)'
                                     + En("consola", "liberaEvalua", r)'
    BY <1>1 DEF ConservaInstancias
  <2>1. /\ instancias[r] \in Int /\ Instancias[r] \in Int
        /\ Cardinality(Retenciones(r)) \in Nat
    BY CuentaOK
  <2>2. instancias[r] + Cardinality(Retenciones(r))
          = Instancias[r] - (IF a = r THEN 1 ELSE 0) + En("consola", "liberaEvalua", r)
    BY <1>0, <1>1, <2>1 DEF InvRecursos, ConservaInstancias, En
  <2>3. Cardinality(Retenciones(r)')
          = Cardinality(Retenciones(r)) + (IF a = r THEN 1 ELSE 0)
    BY <1>3, <2>1
  <2>4. En("consola", "liberaEvalua", r) \in {0, 1}
    BY DEF En
  <2>5. /\ En("escucha", "waitEvalua", r)' = 0 /\ En("escucha", "signalEvalua", r)' = 0
        /\ En("escucha", "liberaEvalua", r)' = 0
        /\ En("consola", "liberaEvalua", r)' = En("consola", "liberaEvalua", r)
    BY <1>2 DEF En
  <2> QED BY <2>1, <2>2, <2>3, <2>4, <2>5
<1> QED BY <1>2, <1>3, <1>4 DEF RecursosSig, InvRecursos, Sitios

\* signal_recurso: one instance more, the thread owes a removal.
LEMMA PideSignalConserva ==
  ASSUME InvRecursos, PideSignal
  PROVE  RecursosSig
<1> DEFINE a == Head(chCpu).arg
<1>1. /\ a \in Recursos /\ pc["escucha"] = "recibe" /\ retenidos' = retenidos
      /\ instancias' = [instancias EXCEPT ![a] = @ + 1]
      /\ Sigue("escucha", "signalEvalua", Head(chCpu).pid, a)
  BY DEF PideSignal, Llega
<1>2. /\ pc'["escucha"] = "signalEvalua" /\ argDe'["escucha"] = a
      /\ \A t \in {"consola", "nuevos"} : pc'[t] = pc[t] /\ argDe'[t] = argDe[t]
  BY <1>1 DEF Sigue, InvRecursos, TypeOK, KernelTypeOK, HilosOK, Hilos
<1>3. \A r : Retenciones(r)' = Retenciones(r)
  BY <1>1 DEF Retenciones
<1>4. ConservaInstancias'
  <2> SUFFICES ASSUME NEW r \in Recursos
               PROVE instancias'[r] + Cardinality(Retenciones(r)')
                     = Instancias[r] - En("escucha", "waitEvalua", r)'
                                     + En("escucha", "signalEvalua", r)'
                                     + En("escucha", "liberaEvalua", r)'
                                     + En("consola", "liberaEvalua", r)'
    BY DEF ConservaInstancias
  <2>1. /\ instancias[r] \in Int /\ Instancias[r] \in Int
        /\ Cardinality(Retenciones(r)) \in Nat
    BY CuentaOK
  <2>2. instancias[r] + Cardinality(Retenciones(r))
          = Instancias[r] + En("consola", "liberaEvalua", r)
    BY <1>1, <2>1 DEF InvRecursos, ConservaInstancias, En
  <2>3. instancias'[r] = IF r = a THEN instancias[r] + 1 ELSE instancias[r]
    BY <1>1 DEF InvRecursos, TypeOK, KernelTypeOK, RecursosOK
  <2> QED BY <1>2, <1>3, <2>1, <2>2, <2>3 DEF En
<1> QED BY <1>1, <1>2, <1>4 DEF RecursosSig, InvRecursos, Sitios

\* The rest of signal by escucha: the removal it owed.
LEMMA SignalConserva ==
  ASSUME InvRecursos, pc["escucha"] \in {"signalEvalua", "liberaEvalua"},
         EvaluaSignal(pidDe["escucha"], argDe["escucha"]),
         NEW l \in {"recibe", "libera"}, NEW n, NEW b, Sigue("escucha", l, n, b)
  PROVE  RecursosSig
<1>0. PICK p, a : p = pidDe["escucha"] /\ a = argDe["escucha"]
  OBVIOUS
<1>1. Quita(p, a) /\ instancias' = instancias
  BY <1>0 DEF EvaluaSignal
<1>2. /\ pc'["escucha"] = l
      /\ \A t \in {"consola", "nuevos"} : pc'[t] = pc[t] /\ argDe'[t] = argDe[t]
  BY DEF Sigue, InvRecursos, TypeOK, KernelTypeOK, HilosOK, Hilos
<1>3. /\ IsFiniteSet(retenidos')
      /\ Cardinality(Retenciones(a)') = Cardinality(Retenciones(a)) - 1
      /\ \A s : s # a => Retenciones(s)' = Retenciones(s)
  BY <1>1, QuitaUna DEF InvRecursos
<1>4. ConservaInstancias'
  <2> SUFFICES ASSUME NEW r \in Recursos
               PROVE instancias[r] + Cardinality(Retenciones(r)')
                     = Instancias[r] - En("escucha", "waitEvalua", r)'
                                     + En("escucha", "signalEvalua", r)'
                                     + En("escucha", "liberaEvalua", r)'
                                     + En("consola", "liberaEvalua", r)'
    BY <1>1 DEF ConservaInstancias
  <2>1. /\ instancias[r] \in Int /\ Instancias[r] \in Int
        /\ Cardinality(Retenciones(r)) \in Nat
    BY CuentaOK
  <2>2. instancias[r] + Cardinality(Retenciones(r))
          = Instancias[r] + (IF a = r THEN 1 ELSE 0) + En("consola", "liberaEvalua", r)
    BY <1>0, <2>1 DEF InvRecursos, ConservaInstancias, En
  <2>3. Cardinality(Retenciones(r)')
          = Cardinality(Retenciones(r)) - (IF a = r THEN 1 ELSE 0)
    BY <1>3, <2>1
  <2>4. En("consola", "liberaEvalua", r) \in {0, 1}
    BY DEF En
  <2>5. /\ En("escucha", "waitEvalua", r)' = 0 /\ En("escucha", "signalEvalua", r)' = 0
        /\ En("escucha", "liberaEvalua", r)' = 0
        /\ En("consola", "liberaEvalua", r)' = En("consola", "liberaEvalua", r)
    BY <1>2 DEF En
  <2> QED BY <2>1, <2>2, <2>3, <2>4, <2>5
<1> QED BY <1>2, <1>3, <1>4 DEF RecursosSig, InvRecursos, Sitios

\* The same by the console, releasing what a process that it ends holds.
LEMMA LiberaConsolaConserva ==
  ASSUME InvRecursos, pc["consola"] = "liberaEvalua",
         EvaluaSignal(pidDe["consola"], argDe["consola"]),
         NEW n, NEW b, Sigue("consola", "libera", n, b)
  PROVE  RecursosSig
<1>0. PICK p, a : p = pidDe["consola"] /\ a = argDe["consola"]
  OBVIOUS
<1>1. Quita(p, a) /\ instancias' = instancias
  BY <1>0 DEF EvaluaSignal
<1>2. /\ pc'["consola"] = "libera"
      /\ \A t \in {"escucha", "nuevos"} : pc'[t] = pc[t] /\ argDe'[t] = argDe[t]
  BY DEF Sigue, InvRecursos, TypeOK, KernelTypeOK, HilosOK, Hilos
<1>3. /\ IsFiniteSet(retenidos')
      /\ Cardinality(Retenciones(a)') = Cardinality(Retenciones(a)) - 1
      /\ \A s : s # a => Retenciones(s)' = Retenciones(s)
  BY <1>1, QuitaUna DEF InvRecursos
<1>4. ConservaInstancias'
  <2> SUFFICES ASSUME NEW r \in Recursos
               PROVE instancias[r] + Cardinality(Retenciones(r)')
                     = Instancias[r] - En("escucha", "waitEvalua", r)'
                                     + En("escucha", "signalEvalua", r)'
                                     + En("escucha", "liberaEvalua", r)'
                                     + En("consola", "liberaEvalua", r)'
    BY <1>1 DEF ConservaInstancias
  <2> DEFINE e == En("escucha", "signalEvalua", r) + En("escucha", "liberaEvalua", r)
                  - En("escucha", "waitEvalua", r)
  <2>1. /\ instancias[r] \in Int /\ Instancias[r] \in Int
        /\ Cardinality(Retenciones(r)) \in Nat
    BY CuentaOK
  <2>2. /\ instancias[r] + Cardinality(Retenciones(r))
             = Instancias[r] + e + (IF a = r THEN 1 ELSE 0)
        /\ e \in Int
    BY <1>0, <2>1 DEF InvRecursos, ConservaInstancias, En
  <2>3. Cardinality(Retenciones(r)')
          = Cardinality(Retenciones(r)) - (IF a = r THEN 1 ELSE 0)
    BY <1>3, <2>1
  <2>4. /\ En("escucha", "waitEvalua", r)' = En("escucha", "waitEvalua", r)
        /\ En("escucha", "signalEvalua", r)' = En("escucha", "signalEvalua", r)
        /\ En("escucha", "liberaEvalua", r)' = En("escucha", "liberaEvalua", r)
        /\ En("consola", "liberaEvalua", r)' = 0
    BY <1>2 DEF En
  <2>5. /\ En("escucha", "waitEvalua", r) \in {0, 1}
        /\ En("escucha", "signalEvalua", r) \in {0, 1}
        /\ En("escucha", "liberaEvalua", r) \in {0, 1}
    BY DEF En
  <2> QED BY <2>1, <2>2, <2>3, <2>4, <2>5
<1> QED BY <1>2, <1>3, <1>4 DEF RecursosSig, InvRecursos, Sitios

\* liberar_recursos, first half: one instance more, one removal owed.
LEMMA LiberaConserva ==
  ASSUME InvRecursos, NEW t \in Hilos, Libera(t)
  PROVE  RecursosSig
<1>1. PICK x \in DeProceso(pidDe[t]) :
        /\ instancias' = [instancias EXCEPT ![x.rec] = @ + 1]
        /\ Sigue(t, "liberaEvalua", pidDe[t], x.rec)
  BY DEF Libera
<1> DEFINE a == x.rec
<1>2. a \in Recursos /\ retenidos' = retenidos /\ pc[t] = "libera"
  BY DEF Libera, DeProceso, Retencion, InvRecursos, TypeOK, KernelTypeOK, RecursosOK
<1>3. t \in {"escucha", "consola"}
  BY <1>2 DEF InvRecursos, Sitios, Hilos
<1>4. /\ pc'[t] = "liberaEvalua" /\ argDe'[t] = a
      /\ \A u \in Hilos \ {t} : pc'[u] = pc[u] /\ argDe'[u] = argDe[u]
  BY <1>1 DEF Sigue, InvRecursos, TypeOK, KernelTypeOK, HilosOK
<1>5. \A r : Retenciones(r)' = Retenciones(r)
  BY <1>2 DEF Retenciones
<1>6. ConservaInstancias'
  <2> SUFFICES ASSUME NEW r \in Recursos
               PROVE instancias'[r] + Cardinality(Retenciones(r)')
                     = Instancias[r] - En("escucha", "waitEvalua", r)'
                                     + En("escucha", "signalEvalua", r)'
                                     + En("escucha", "liberaEvalua", r)'
                                     + En("consola", "liberaEvalua", r)'
    BY DEF ConservaInstancias
  <2>1. /\ instancias[r] \in Int /\ Instancias[r] \in Int
        /\ Cardinality(Retenciones(r)) \in Nat
    BY CuentaOK
  <2>2. instancias[r] + Cardinality(Retenciones(r))
          = Instancias[r] - En("escucha", "waitEvalua", r) + En("escucha", "signalEvalua", r)
            + En("escucha", "liberaEvalua", r) + En("consola", "liberaEvalua", r)
    BY DEF InvRecursos, ConservaInstancias
  <2>3. instancias'[r] = IF r = a THEN instancias[r] + 1 ELSE instancias[r]
    BY <1>1, <1>2 DEF InvRecursos, TypeOK, KernelTypeOK, RecursosOK
  <2>4. CASE t = "escucha"
    BY <1>2, <1>4, <1>5, <2>1, <2>2, <2>3, <2>4 DEF En, Hilos
  <2>5. CASE t = "consola"
    BY <1>2, <1>4, <1>5, <2>1, <2>2, <2>3, <2>5 DEF En, Hilos
  <2> QED BY <1>3, <2>4, <2>5
<1> QED BY <1>2, <1>3, <1>4, <1>6 DEF RecursosSig, InvRecursos, Sitios, Hilos

----------------------------------------------------------------------------
(* The steps that are quiet.                                               *)

\* The fall of the kernel keeps the account.
LEMMA CaeConserva ==
  ASSUME InvRecursos, Cae
  PROVE  RecursosSig
<1>1. Quieto
  BY DEF Cae, hilosVars, Quieto, InvRecursos, Sitios
<1> QED BY <1>1, QuietoConserva

\* The long-term scheduler.
LEMMA NuevosQuieto ==
  ASSUME InvRecursos, Nuevos
  PROVE  Quieto
<1>1. CASE EsperaNew
  BY <1>1 DEF EsperaNew, Sigue, recVars, Quieto, InvRecursos, Sitios, TypeOK,
     KernelTypeOK, HilosOK, Hilos, Medio
<1>2. CASE Admite
  BY <1>2 DEF Admite, Vuelve, Inicio, Cae, hilosVars, Sigue, recVars, Quieto,
     InvRecursos, Sitios, TypeOK, KernelTypeOK, HilosOK, Hilos, Medio
<1> QED BY <1>1, <1>2 DEF Nuevos

\* The end of an instruction, and a packet that finds cola_exec empty.
LEMMA FinQuieto ==
  ASSUME InvRecursos, FinDesaloja \/ FinDesalojaUsuario \/ FinContinua \/ PaqueteSinExec
  PROVE  Quieto
<1>1. CASE FinDesaloja
  BY <1>1 DEF FinDesaloja, Llega, Sigue, recVars, Quieto, InvRecursos, Sitios, TypeOK,
     KernelTypeOK, HilosOK, Hilos, Medio
<1>2. CASE FinDesalojaUsuario
  BY <1>2 DEF FinDesalojaUsuario, hilosVars, Sigue, recVars, Quieto, InvRecursos,
     Sitios, TypeOK, KernelTypeOK, HilosOK, Hilos, Medio
<1>3. CASE FinContinua
  BY <1>3 DEF FinContinua, hilosVars, Sigue, recVars, Quieto, InvRecursos, Sitios,
     TypeOK, KernelTypeOK, HilosOK, Hilos, Medio
<1>4. CASE PaqueteSinExec
  BY <1>4 DEF PaqueteSinExec, Cae, hilosVars, Sigue, recVars, Quieto, InvRecursos,
     Sitios, TypeOK, KernelTypeOK, HilosOK, Hilos, Medio
<1> QED BY <1>1, <1>2, <1>3, <1>4

\* The requests that are not WAIT or SIGNAL.
LEMMA PedidoQuieto ==
  ASSUME InvRecursos,
         PideDesconocido \/ PideIO \/ EnviaIO \/ MarcaBlock \/ PideExit \/ SaleEscucha
  PROVE  Quieto
<1>1. CASE PideDesconocido
  BY <1>1 DEF PideDesconocido, Llega, Cae, hilosVars, Sigue, recVars, Quieto,
     InvRecursos, Sitios, TypeOK, KernelTypeOK, HilosOK, Hilos, Medio
<1>2. CASE PideIO
  BY <1>2 DEF PideIO, Llega, Sigue, recVars, Quieto, InvRecursos, Sitios, TypeOK,
     KernelTypeOK, HilosOK, Hilos, Medio
<1>3. CASE EnviaIO
  BY <1>3 DEF EnviaIO, Sigue, recVars, Quieto, InvRecursos, Sitios, TypeOK,
     KernelTypeOK, HilosOK, Hilos, Medio
<1>4. CASE MarcaBlock
  BY <1>4 DEF MarcaBlock, Vuelve, Inicio, Sigue, recVars, Quieto, InvRecursos, Sitios,
     TypeOK, KernelTypeOK, HilosOK, Hilos, Medio
<1>5. CASE PideExit
  BY <1>5 DEF PideExit, Llega, Sigue, recVars, Quieto, InvRecursos, Sitios, TypeOK,
     KernelTypeOK, HilosOK, Hilos, Medio
<1>6. CASE SaleEscucha
  BY <1>6 DEF SaleEscucha, Sale, Vuelve, Inicio, Sigue, recVars, Quieto, InvRecursos,
     Sitios, TypeOK, KernelTypeOK, HilosOK, Hilos, Medio
<1> QED BY <1>1, <1>2, <1>3, <1>4, <1>5, <1>6

\* The console, which does not accept FINALIZAR_PROCESO.
LEMMA ConsolaQuieto ==
  ASSUME "FINALIZAR_PROCESO" \notin Comandos, InvRecursos, Consola
  PROVE  Quieto
<1>1. CASE \E s \in Scripts : IniciarProceso(s)
  BY <1>1 DEF IniciarProceso, hilosVars, Sigue, recVars, Quieto, InvRecursos, Sitios,
     TypeOK, KernelTypeOK, HilosOK, Hilos, Medio
<1>2. CASE IniciarPlanificacion
  BY <1>2 DEF IniciarPlanificacion, hilosVars, Sigue, recVars, Quieto, InvRecursos,
     Sitios, TypeOK, KernelTypeOK, HilosOK, Hilos, Medio
<1>3. CASE DetenerPlanificacion
  BY <1>3 DEF DetenerPlanificacion, Acepta, Lee, Sigue, recVars, Quieto, InvRecursos,
     Sitios, TypeOK, KernelTypeOK, HilosOK, Hilos, Medio
<1>4. CASE Detiene
  BY <1>4 DEF Detiene, Vuelve, Inicio, Sigue, recVars, Quieto, InvRecursos, Sitios,
     TypeOK, KernelTypeOK, HilosOK, Hilos, Medio
<1>5. CASE \E n \in Grados : SubeGrado(n)
  BY <1>5 DEF SubeGrado, hilosVars, Sigue, recVars, Quieto, InvRecursos, Sitios, TypeOK,
     KernelTypeOK, HilosOK, Hilos, Medio
<1>6. CASE \E n \in Grados : BajaGrado(n)
  BY <1>6 DEF BajaGrado, Acepta, Lee, Sigue, recVars, Quieto, InvRecursos, Sitios,
     TypeOK, KernelTypeOK, HilosOK, Hilos, Medio
<1>7. CASE RestaGrado
  BY <1>7 DEF RestaGrado, Sigue, recVars, Quieto, InvRecursos, Sitios, TypeOK,
     KernelTypeOK, HilosOK, Hilos, Medio
<1>8. CASE ProcesoEstado
  BY <1>8 DEF ProcesoEstado, kernelVars, hilosVars, Sigue, recVars, Quieto, InvRecursos,
     Sitios, TypeOK, KernelTypeOK, HilosOK, Hilos, Medio
<1>9. CASE PideDesalojo
  BY <1>9 DEF PideDesalojo, Sigue, recVars, Quieto, InvRecursos, Sitios, TypeOK,
     KernelTypeOK, HilosOK, Hilos, Medio
<1>10. CASE EsperaUsuario
  BY <1>10 DEF EsperaUsuario, Sigue, recVars, Quieto, InvRecursos, Sitios, TypeOK,
     KernelTypeOK, HilosOK, Hilos, Medio
<1>11. CASE SumaInstancia
  BY <1>11 DEF SumaInstancia, Sigue, recVars, Quieto, InvRecursos, Sitios, TypeOK,
     KernelTypeOK, HilosOK, Hilos, Medio
<1>12. CASE SaleConsola
  BY <1>12 DEF SaleConsola, Sale, Vuelve, Inicio, Sigue, recVars, Quieto, InvRecursos,
     Sitios, TypeOK, KernelTypeOK, HilosOK, Hilos, Medio
<1>13. ASSUME NEW p \in Pids
       PROVE  /\ ~FinalizaNew(p) /\ ~FinalizaReady(p) /\ ~FinalizaExec(p)
              /\ ~FinalizaIO(p) /\ ~FinalizaRecurso(p) /\ ~FinalizaPerdido(p)
  BY DEF FinalizaNew, FinalizaReady, FinalizaExec, FinalizaIO, FinalizaRecurso,
         FinalizaPerdido, Finaliza, Acepta, Lee
<1> QED BY <1>1, <1>2, <1>3, <1>4, <1>5, <1>6, <1>7, <1>8, <1>9, <1>10, <1>11, <1>12,
   <1>13
   DEF Consola

\* The short-term scheduler.
LEMMA HiloQuieto ==
  ASSUME InvRecursos, Despacha \/ \E t \in Hilos : Replanifica(t) \/ Elige(t)
  PROVE  Quieto
<1>1. CASE Despacha
  BY <1>1 DEF Despacha, hilosVars, Cae, Sigue, recVars, Quieto, InvRecursos, Sitios,
     TypeOK, KernelTypeOK, HilosOK, Hilos, Medio
<1>2. CASE \E t \in Hilos : Replanifica(t)
  BY <1>2 DEF Replanifica, Sigue, recVars, Quieto, InvRecursos, Sitios, TypeOK,
     KernelTypeOK, HilosOK, Hilos, Medio
<1>3. CASE \E t \in Hilos : Elige(t)
  BY <1>3 DEF Elige, Vuelve, Inicio, Cae, hilosVars, Sigue, recVars, Quieto,
     InvRecursos, Sitios, TypeOK, KernelTypeOK, HilosOK, Hilos, Medio
<1> QED BY <1>1, <1>2, <1>3

\* The end of an I/O.
LEMMA FinIOQuieto ==
  ASSUME InvRecursos, NEW i \in Interfaces, FinIO(i)
  PROVE  Quieto
<1>1. CASE colaIO[i] = <<>>
  BY <1>1 DEF FinIO, Cae, hilosVars, Sigue, recVars, Quieto, InvRecursos, Sitios,
     TypeOK, KernelTypeOK, HilosOK, Hilos, Medio
<1>2. CASE colaIO[i] # <<>>
  BY <1>2 DEF FinIO, hilosVars, Sigue, recVars, Quieto, InvRecursos, Sitios, TypeOK,
     KernelTypeOK, HilosOK, Hilos, Medio
<1> QED BY <1>1, <1>2

\* Every step of the kernel keeps the account.
LEMMA KernelConserva ==
  ASSUME "FINALIZAR_PROCESO" \notin Comandos, InvRecursos, KernelNext
  PROVE  RecursosSig
<1>1. CASE Nuevos
  BY <1>1, NuevosQuieto, QuietoConserva
<1>2. CASE Escucha
  <2>1. CASE FinDesaloja \/ FinDesalojaUsuario \/ FinContinua \/ PaqueteSinExec
    BY <2>1, FinQuieto, QuietoConserva
  <2>2. CASE PideDesconocido \/ PideIO \/ EnviaIO \/ MarcaBlock \/ PideExit \/ SaleEscucha
    BY <2>2, PedidoQuieto, QuietoConserva
  <2>3. CASE PideWait \/ EvaluaWait \/ PideSignal
    BY <2>3, PideWaitConserva, EvaluaWaitConserva, PideSignalConserva
  <2>4. CASE Signal
    <3>1. CASE Cae
      BY <3>1, CaeConserva
    <3>2. CASE ~Cae
      <4>1. /\ pc["escucha"] = "signalEvalua" /\ Vuelve("escucha")
            /\ EvaluaSignal(pidDe["escucha"], argDe["escucha"])
        BY <2>4, <3>2 DEF Signal
      <4>2. Sigue("escucha", "recibe", 0, Nada)
        BY <4>1 DEF Vuelve, Inicio
      <4> QED BY <4>1, <4>2, SignalConserva
    <3> QED BY <3>1, <3>2
  <2> QED BY <1>2, <2>1, <2>2, <2>3, <2>4 DEF Escucha
<1>3. CASE Consola
  BY <1>3, ConsolaQuieto, QuietoConserva
<1>4. CASE Despacha \/ \E t \in Hilos : Replanifica(t) \/ Elige(t)
  BY <1>4, HiloQuieto, QuietoConserva
<1>5. ASSUME NEW t \in Hilos, LiberaEvalua(t)
      PROVE  RecursosSig
  <2>1. CASE Cae
    BY <2>1, CaeConserva
  <2>2. CASE ~Cae
    <3>1. /\ pc[t] = "liberaEvalua" /\ EvaluaSignal(pidDe[t], argDe[t])
          /\ Sigue(t, "libera", pidDe[t], Nada)
      BY <1>5, <2>2 DEF LiberaEvalua
    <3>2. CASE t = "escucha"
      BY <3>1, <3>2, SignalConserva
    <3>3. CASE t = "consola"
      BY <3>1, <3>3, LiberaConsolaConserva
    <3>4. t # "nuevos"
      BY <3>1 DEF InvRecursos, Sitios
    <3> QED BY <3>2, <3>3, <3>4 DEF Hilos
  <2> QED BY <2>1, <2>2
<1>6. CASE \E i \in Interfaces : FinIO(i)
  BY <1>6, FinIOQuieto, QuietoConserva
<1> QED BY <1>1, <1>2, <1>3, <1>4, <1>5, <1>6, LiberaConserva DEF KernelNext, Hilo

\* At the start nothing is retained.
LEMMA RecursosInit == Init => InvRecursos
<1> SUFFICES ASSUME Init PROVE InvRecursos
  OBVIOUS
<1>1. /\ pc = [t \in Hilos |-> Inicio(t)] /\ retenidos = {} /\ instancias = Instancias
  BY DEF Init, KernelInit
<1>2. Sitios /\ pc["escucha"] = "recibe" /\ pc["consola"] = "lee"
  BY <1>1 DEF Sitios, Inicio, Hilos
<1>3. \A r : Retenciones(r) = {}
  BY <1>1 DEF Retenciones
<1>4. ConservaInstancias
  BY <1>1, <1>2, <1>3, FS_EmptySet, InstanciasAssumption DEF ConservaInstancias, En
<1> QED BY <1>1, <1>2, <1>4, TipoInit, FS_EmptySet DEF InvRecursos

\* Every step keeps the invariant.
LEMMA RecursosNext ==
  ASSUME "FINALIZAR_PROCESO" \notin Comandos
  PROVE  InvRecursos /\ [Next]_vars => InvRecursos'
<1> SUFFICES ASSUME InvRecursos, [Next]_vars PROVE InvRecursos'
  OBVIOUS
<1>1. TypeOK'
  BY TipoNext DEF InvRecursos
<1>2. CASE KernelNext
  BY <1>1, <1>2, KernelConserva DEF RecursosSig, InvRecursos
<1>3. CASE UNCHANGED kernelVars
  <2>1. Quieto
    BY <1>3 DEF kernelVars, hilosVars, Quieto, InvRecursos, Sitios
  <2> QED BY <1>1, <2>1, QuietoConserva DEF RecursosSig, InvRecursos
<1> QED BY <1>2, <1>3 DEF Next, Interfaz, Caido, vars

\* Instances are conserved: whatever the number of processes, resources and
\* instances, and however WAIT, SIGNAL, EXIT and the errors interleave, no
\* instance is lost or made up, as long as FINALIZAR_PROCESO is not used.
THEOREM InstanciasConservadas ==
  ASSUME "FINALIZAR_PROCESO" \notin Comandos
  PROVE  Spec => []ConservaInstancias
<1>1. Init => InvRecursos
  BY RecursosInit
<1>2. InvRecursos /\ [Next]_vars => InvRecursos'
  BY RecursosNext
<1>3. InvRecursos => ConservaInstancias
  BY DEF InvRecursos
<1> QED BY <1>1, <1>2, <1>3, PTL DEF Spec

-----------------------------------------------------------------------------
(***************************************************************************)
(* What INICIAR_PLANIFICACION and DETENER_PLANIFICACION promise: the tokens *)
(* of sem_planificacion are never lost or made up, whatever the commands    *)
(* (FINALIZAR_PROCESO among them), and no process is chosen without one.    *)
(***************************************************************************)

\* The threads that hold a token.
ConToken == {t \in Hilos : pc[t] = "elige"}

InvTokens == TypeOK /\ TokensPlanificacion

NadieEntra == \A p \in Pids : estado'[p].tipo = "EXEC" => estado[p].tipo = "EXEC"

\* A step that takes and returns no token and puts no process in EXEC.
Ajeno ==
    /\ semPlanificacion' = semPlanificacion /\ saldoPlani' = saldoPlani
    /\ \A t \in Hilos : pc'[t] = "elige" <=> pc[t] = "elige"
    /\ NadieEntra

\* There are finitely many threads.
LEMMA ConTokenFinito == IsFiniteSet(ConToken) /\ Cardinality(ConToken) \in Nat
<1>1. IsFiniteSet(Hilos)
  <2>1. IsFiniteSet({"consola"})
    BY FS_Singleton
  <2>2. IsFiniteSet({"consola"} \cup {"nuevos"})
    BY <2>1, FS_AddElement
  <2>3. IsFiniteSet(({"consola"} \cup {"nuevos"}) \cup {"escucha"})
    BY <2>2, FS_AddElement
  <2>4. Hilos = ({"consola"} \cup {"nuevos"}) \cup {"escucha"}
    BY DEF Hilos
  <2> QED BY <2>3, <2>4
<1> QED BY <1>1, FS_Subset, FS_CardinalityType DEF ConToken

\* Such a step keeps the count of tokens.
LEMMA AjenoTokens ==
  ASSUME InvTokens, Ajeno
  PROVE  TokensPlanificacion'
<1>1. {t \in Hilos : pc'[t] = "elige"} = {t \in Hilos : pc[t] = "elige"}
  BY DEF Ajeno
<1> QED BY <1>1 DEF Ajeno, InvTokens, TokensPlanificacion

\* The fall of the kernel moves no token.
LEMMA CaeAjeno == TypeOK /\ Cae => Ajeno
BY DEF Cae, Ajeno, NadieEntra, hilosVars, planVars, usrVars, procVars

\* iniciar puts a process in READY, not in EXEC.
LEMMA IniciarNadie ==
  ASSUME TypeOK, NEW p, Iniciar(p)
  PROVE  NadieEntra
BY DEF Iniciar, NadieEntra, Estado, TypeOK, KernelTypeOK, ProcesosOK

\* Neither does the second half of signal, which moves no token.
LEMMA EvaluaSignalNadie ==
  ASSUME TypeOK, NEW p, NEW r, EvaluaSignal(p, r)
  PROVE  NadieEntra /\ UNCHANGED <<semPlanificacion, saldoPlani>>
<1>1. UNCHANGED <<semPlanificacion, saldoPlani>>
  BY DEF EvaluaSignal, usrVars
<1>2. CASE SeDesbloquea(r)
  BY <1>1, <1>2, IniciarNadie DEF EvaluaSignal
<1>3. CASE ~SeDesbloquea(r)
  BY <1>1, <1>3 DEF EvaluaSignal, NadieEntra
<1> QED BY <1>2, <1>3

\* The long-term scheduler.
LEMMA NuevosAjeno ==
  ASSUME TypeOK, Nuevos
  PROVE  Ajeno
<1>1. CASE EsperaNew
  BY <1>1 DEF EsperaNew, planVars, usrVars, procVars, Sigue, Ajeno, NadieEntra, TypeOK,
     KernelTypeOK, HilosOK, Hilos, ProcesosOK, Estado
<1>2. CASE Admite
  <2>1. CASE Cae
    BY <2>1, CaeAjeno
  <2>2. CASE ~Cae
    <3>1. NadieEntra
      BY <1>2, <2>2, IniciarNadie DEF Admite
    <3> QED BY <1>2, <2>2, <3>1 DEF Admite, usrVars, Sigue, Vuelve, Inicio, Ajeno, TypeOK,
                                  KernelTypeOK, HilosOK, Hilos
  <2> QED BY <2>1, <2>2
<1> QED BY <1>1, <1>2 DEF Nuevos

\* The end of an instruction, and a packet that finds cola_exec empty.
LEMMA FinAjeno ==
  ASSUME TypeOK, FinDesaloja \/ FinDesalojaUsuario \/ FinContinua \/ PaqueteSinExec
  PROVE  Ajeno
<1>1. CASE FinDesaloja
  BY <1>1 DEF FinDesaloja, Llega, planVars, usrVars, procVars, Sigue, Ajeno, NadieEntra,
     TypeOK, KernelTypeOK, HilosOK, Hilos, ProcesosOK, Estado
<1>2. CASE FinDesalojaUsuario
  BY <1>2 DEF FinDesalojaUsuario, Llega, hilosVars, planVars, procVars, Ajeno,
     NadieEntra, TypeOK, KernelTypeOK, HilosOK, Hilos, ProcesosOK, Estado
<1>3. CASE FinContinua
  BY <1>3 DEF FinContinua, Llega, hilosVars, planVars, usrVars, procVars, Ajeno,
     NadieEntra, TypeOK, KernelTypeOK, HilosOK, Hilos, ProcesosOK, Estado
<1>4. CASE PaqueteSinExec
  BY <1>4 DEF PaqueteSinExec, Llega, Cae, hilosVars, planVars, usrVars, procVars, Ajeno,
     NadieEntra, TypeOK, KernelTypeOK, HilosOK, Hilos, ProcesosOK, Estado
<1> QED BY <1>1, <1>2, <1>3, <1>4

\* The requests of the process in execution.
LEMMA PedidoAjeno ==
  ASSUME TypeOK, Escucha
  PROVE  Ajeno
<1>1. CASE FinDesaloja \/ FinDesalojaUsuario \/ FinContinua \/ PaqueteSinExec
  BY <1>1, FinAjeno
<1>2. CASE PideDesconocido
  BY <1>2 DEF PideDesconocido, Llega, Cae, planVars, usrVars, Sigue, CargaPcb,
     hilosVars, procVars, Ajeno, NadieEntra, TypeOK, KernelTypeOK, HilosOK, Hilos,
     ProcesosOK, Estado
<1>3. CASE PideIO
  BY <1>3 DEF PideIO, Llega, planVars, usrVars, Sigue, CargaPcb, Ajeno, NadieEntra,
     TypeOK, KernelTypeOK, HilosOK, Hilos, ProcesosOK, Estado
<1>4. CASE EnviaIO
  BY <1>4 DEF EnviaIO, Llega, planVars, usrVars, procVars, Sigue, Ajeno, NadieEntra,
     TypeOK, KernelTypeOK, HilosOK, Hilos, ProcesosOK, Estado
<1>5. CASE MarcaBlock
  BY <1>5 DEF MarcaBlock, Llega, planVars, usrVars, Vuelve, Sigue, Inicio, Ajeno,
     NadieEntra, TypeOK, KernelTypeOK, HilosOK, Hilos, ProcesosOK, Estado
<1>6. CASE PideWait
  BY <1>6 DEF PideWait, Llega, planVars, usrVars, Sigue, CargaPcb, Ajeno, NadieEntra,
     TypeOK, KernelTypeOK, HilosOK, Hilos, ProcesosOK, Estado
<1>7. CASE EvaluaWait
  <2>1. NadieEntra
    <3>1. CASE VaABloqueado(argDe["escucha"])
      <4>1. estado' = [estado EXCEPT ![pidDe["escucha"]]
                         = Estado("BLOCK - RECURSO", argDe["escucha"])]
        BY <1>7, <3>1, Zenon DEF EvaluaWait
      <4> QED BY <4>1 DEF NadieEntra, Estado, TypeOK, KernelTypeOK, ProcesosOK
    <3>2. CASE ~VaABloqueado(argDe["escucha"])
      BY <1>7, <3>2 DEF EvaluaWait, NadieEntra
    <3> QED BY <3>1, <3>2
  <2> QED BY <1>7, <2>1 DEF EvaluaWait, planVars, usrVars, Sigue, Vuelve, Inicio, Ajeno,
                          TypeOK, KernelTypeOK, HilosOK, Hilos
<1>8. CASE PideSignal
  BY <1>8 DEF PideSignal, Llega, planVars, usrVars, Sigue, CargaPcb, Ajeno, NadieEntra,
     TypeOK, KernelTypeOK, HilosOK, Hilos, ProcesosOK, Estado
<1>9. CASE Signal
  <2>1. CASE Cae
    BY <2>1, CaeAjeno
  <2>2. CASE ~Cae
    <3>1. /\ pc["escucha"] = "signalEvalua" /\ Vuelve("escucha")
          /\ EvaluaSignal(pidDe["escucha"], argDe["escucha"])
      BY <1>9, <2>2 DEF Signal
    <3> QED BY <3>1, EvaluaSignalNadie DEF Sigue, Vuelve, Inicio, Ajeno, TypeOK,
                                           KernelTypeOK, HilosOK, Hilos
  <2> QED BY <2>1, <2>2
<1>10. CASE PideExit
  BY <1>10 DEF PideExit, Llega, planVars, usrVars, Sigue, CargaPcb, Ajeno, NadieEntra,
     TypeOK, KernelTypeOK, HilosOK, Hilos, ProcesosOK, Estado
<1>11. CASE SaleEscucha
  BY <1>11 DEF SaleEscucha, Sale, Vuelve, planVars, usrVars, Sigue, Inicio, Ajeno,
     NadieEntra, TypeOK, KernelTypeOK, HilosOK, Hilos, ProcesosOK, Estado
<1> QED BY <1>1, <1>2, <1>3, <1>4, <1>5, <1>6, <1>7, <1>8, <1>9, <1>10, <1>11 DEF Escucha

\* FINALIZAR_PROCESO.
LEMMA FinalizaAjeno ==
  ASSUME TypeOK, NEW p \in Pids,
         \/ FinalizaNew(p) \/ FinalizaReady(p) \/ FinalizaExec(p)
         \/ FinalizaIO(p) \/ FinalizaRecurso(p) \/ FinalizaPerdido(p)
  PROVE  Ajeno
<1>1. CASE FinalizaNew(p)
  BY <1>1 DEF FinalizaNew, planVars, procVars, Sigue, Finaliza, Acepta, Lee, Ajeno,
     NadieEntra, TypeOK, KernelTypeOK, HilosOK, Hilos, ProcesosOK, Estado
<1>2. CASE FinalizaReady(p)
  BY <1>2 DEF FinalizaReady, planVars, procVars, Sigue, Finaliza, Acepta, Lee, Ajeno,
     NadieEntra, TypeOK, KernelTypeOK, HilosOK, Hilos, ProcesosOK, Estado
<1>3. CASE FinalizaExec(p)
  BY <1>3 DEF FinalizaExec, planVars, procVars, Sigue, Finaliza, Acepta, Lee, Ajeno,
     NadieEntra, TypeOK, KernelTypeOK, HilosOK, Hilos, ProcesosOK, Estado
<1>4. CASE FinalizaIO(p)
  BY <1>4 DEF FinalizaIO, planVars, procVars, Sigue, Finaliza, Acepta, Lee, Ajeno,
     NadieEntra, TypeOK, KernelTypeOK, HilosOK, Hilos, ProcesosOK, Estado
<1>5. CASE FinalizaRecurso(p)
  BY <1>5 DEF FinalizaRecurso, planVars, procVars, Finaliza, Acepta, Lee, Ajeno,
     NadieEntra, TypeOK, KernelTypeOK, HilosOK, Hilos, ProcesosOK, Estado
<1>6. CASE FinalizaPerdido(p)
  BY <1>6 DEF FinalizaPerdido, Cae, Lee, hilosVars, planVars, usrVars, procVars, Ajeno,
     NadieEntra, TypeOK, KernelTypeOK, HilosOK, Hilos, ProcesosOK, Estado
<1> QED BY <1>1, <1>2, <1>3, <1>4, <1>5, <1>6

\* The other commands, without INICIAR_ and DETENER_PLANIFICACION.
LEMMA ConsolaAjeno ==
  ASSUME TypeOK, Consola, ~IniciarPlanificacion, ~Detiene
  PROVE  Ajeno
<1>1. CASE \E s \in Scripts : IniciarProceso(s)
  BY <1>1 DEF IniciarProceso, hilosVars, planVars, usrVars, Lee, Ajeno, NadieEntra,
     TypeOK, KernelTypeOK, HilosOK, Hilos, ProcesosOK, Estado
<1>2. CASE DetenerPlanificacion
  BY <1>2 DEF DetenerPlanificacion, planVars, procVars, Sigue, Acepta, Lee, Ajeno,
     NadieEntra, TypeOK, KernelTypeOK, HilosOK, Hilos, ProcesosOK, Estado
<1>3. CASE \E n \in Grados : SubeGrado(n)
  BY <1>3 DEF SubeGrado, hilosVars, planVars, procVars, Acepta, Lee, Ajeno, NadieEntra,
     TypeOK, KernelTypeOK, HilosOK, Hilos, ProcesosOK, Estado
<1>4. CASE \E n \in Grados : BajaGrado(n)
  BY <1>4 DEF BajaGrado, planVars, procVars, Acepta, Lee, Ajeno, NadieEntra, TypeOK,
     KernelTypeOK, HilosOK, Hilos, ProcesosOK, Estado
<1>5. CASE RestaGrado
  BY <1>5 DEF RestaGrado, planVars, procVars, Ajeno, NadieEntra, TypeOK, KernelTypeOK,
     HilosOK, Hilos, ProcesosOK, Estado
<1>6. CASE ProcesoEstado
  BY <1>6 DEF ProcesoEstado, kernelVars, Lee, hilosVars, planVars, usrVars, procVars,
     Ajeno, NadieEntra, TypeOK, KernelTypeOK, HilosOK, Hilos, ProcesosOK, Estado
<1>7. CASE PideDesalojo
  BY <1>7 DEF PideDesalojo, planVars, procVars, Sigue, Ajeno, NadieEntra, TypeOK,
     KernelTypeOK, HilosOK, Hilos, ProcesosOK, Estado
<1>8. CASE EsperaUsuario
  BY <1>8 DEF EsperaUsuario, planVars, procVars, Sigue, Ajeno, NadieEntra, TypeOK,
     KernelTypeOK, HilosOK, Hilos, ProcesosOK, Estado
<1>9. CASE SumaInstancia
  BY <1>9 DEF SumaInstancia, Cae, planVars, usrVars, procVars, Sigue, hilosVars, Ajeno,
     NadieEntra, TypeOK, KernelTypeOK, HilosOK, Hilos, ProcesosOK, Estado
<1>10. CASE SaleConsola
  BY <1>10 DEF SaleConsola, Sale, Vuelve, Sigue, planVars, usrVars, Inicio, Ajeno,
     NadieEntra, TypeOK, KernelTypeOK, HilosOK, Hilos, ProcesosOK, Estado
<1> QED BY FinalizaAjeno, <1>1, <1>2, <1>3, <1>4, <1>5, <1>6, <1>7, <1>8, <1>9, <1>10
   DEF Consola

\* exit_prima, the dispatch and the end of an I/O.
LEMMA HiloAjeno ==
  ASSUME TypeOK,
         \/ Despacha \/ (\E t \in Hilos : Libera(t) \/ LiberaEvalua(t))
         \/ \E i \in Interfaces : FinIO(i)
  PROVE  Ajeno
<1>1. CASE Despacha
  BY <1>1 DEF Despacha, Cae, hilosVars, usrVars, procVars, planVars, Ajeno, NadieEntra,
     TypeOK, KernelTypeOK, HilosOK, Hilos, ProcesosOK, Estado
<1>2. CASE \E t \in Hilos : Libera(t)
  BY <1>2 DEF Libera, planVars, usrVars, procVars, Sigue, Ajeno, NadieEntra, TypeOK,
     KernelTypeOK, HilosOK, Hilos, ProcesosOK, Estado
<1>3. CASE \E t \in Hilos : LiberaEvalua(t)
  <2>1. CASE Cae
    BY <2>1, CaeAjeno
  <2>2. CASE ~Cae
    <3>1. PICK t \in Hilos : /\ pc[t] = "liberaEvalua"
                            /\ EvaluaSignal(pidDe[t], argDe[t])
                            /\ Sigue(t, "libera", pidDe[t], Nada)
      BY <1>3, <2>2 DEF LiberaEvalua
    <3> QED BY <3>1, EvaluaSignalNadie
       DEF Sigue, Ajeno, TypeOK, KernelTypeOK, HilosOK, Hilos
  <2> QED BY <2>1, <2>2
<1>4. CASE \E i \in Interfaces : FinIO(i)
  <2>1. CASE Cae
    BY <2>1, CaeAjeno
  <2>2. CASE ~Cae
    <3>1. NadieEntra
      BY <1>4, <2>2, IniciarNadie DEF FinIO
    <3> QED BY <1>4, <2>2, <3>1 DEF FinIO, hilosVars, usrVars, Ajeno
  <2> QED BY <2>1, <2>2
<1> QED BY <1>1, <1>2, <1>3, <1>4

----------------------------------------------------------------------------
(* The steps that move a token.                                            *)

\* replanificar takes one, ...
LEMMA ReplanificaTokens ==
  ASSUME InvTokens, NEW t \in Hilos, Replanifica(t)
  PROVE  TokensPlanificacion' /\ NadieEntra
<1>1. ConToken' = ConToken \cup {t} /\ t \notin ConToken
  BY DEF Replanifica, Sigue, ConToken, InvTokens, TypeOK, KernelTypeOK, HilosOK
<1>2. Cardinality(ConToken') = Cardinality(ConToken) + 1
  BY <1>1, ConTokenFinito, FS_AddElement
<1>3. semPlanificacion' = semPlanificacion - 1 /\ saldoPlani' = saldoPlani
  BY DEF Replanifica, usrVars
<1>4. TokensPlanificacion'
  BY <1>2, <1>3, ConTokenFinito
     DEF InvTokens, TypeOK, KernelTypeOK, SemaforosOK, TokensPlanificacion, ConToken
<1> QED BY <1>4 DEF NadieEntra, Replanifica, procVars

\* ... and gives it back with a process in EXEC.
LEMMA EligeTokens ==
  ASSUME InvTokens, NEW t \in Hilos, Elige(t), ~Cae
  PROVE  TokensPlanificacion' /\ saldoPlani > 0
<1>1. t \in ConToken /\ Vuelve(t) /\ semPlanificacion' = semPlanificacion + 1
  BY DEF Elige, ConToken
<1>2. ConToken' = ConToken \ {t}
  BY <1>1
     DEF Vuelve, Inicio, Sigue, ConToken, InvTokens, TypeOK, KernelTypeOK, HilosOK, Hilos
<1>3. Cardinality(ConToken') = Cardinality(ConToken) - 1 /\ Cardinality(ConToken) > 0
  <2>1. Cardinality(ConToken') = Cardinality(ConToken) - 1
    BY <1>1, <1>2, ConTokenFinito, FS_RemoveElement
  <2>2. Cardinality(ConToken) # 0
    BY <1>1, ConTokenFinito, FS_EmptySet
  <2> QED BY <2>1, <2>2, ConTokenFinito
<1>4. saldoPlani' = saldoPlani
  BY DEF Elige, usrVars
<1> QED BY <1>1, <1>3, <1>4, ConTokenFinito
        DEF InvTokens, TypeOK, KernelTypeOK, SemaforosOK, TokensPlanificacion, ConToken

\* INICIAR_PLANIFICACION makes one and DETENER_PLANIFICACION withdraws one.
LEMMA ComandosTokens ==
  ASSUME InvTokens, IniciarPlanificacion \/ Detiene
  PROVE  TokensPlanificacion' /\ NadieEntra
<1>1. {t \in Hilos : pc'[t] = "elige"} = {t \in Hilos : pc[t] = "elige"}
  BY DEF IniciarPlanificacion, Detiene, hilosVars, Vuelve, Inicio, Sigue, InvTokens,
         TypeOK,
         KernelTypeOK, HilosOK, Hilos
<1>2. semPlanificacion' - semPlanificacion = saldoPlani' - saldoPlani
  BY DEF IniciarPlanificacion, Detiene, InvTokens, TypeOK, KernelTypeOK, SemaforosOK,
         BanderasOK
<1>3. semPlanificacion' \in Int /\ saldoPlani' \in Int
  BY DEF IniciarPlanificacion, Detiene, InvTokens, TypeOK, KernelTypeOK, SemaforosOK,
         BanderasOK
<1>4. TokensPlanificacion'
  <2>1. ConToken' = ConToken
    BY <1>1 DEF ConToken
  <2>2. semPlanificacion \in Int /\ saldoPlani \in Int
    BY DEF InvTokens, TypeOK, KernelTypeOK, SemaforosOK, BanderasOK
  <2>3. semPlanificacion + Cardinality(ConToken) = saldoPlani
    BY DEF InvTokens, TokensPlanificacion, ConToken
  <2>4. semPlanificacion' + Cardinality(ConToken') = saldoPlani'
    BY <1>2, <1>3, <2>1, <2>2, <2>3, ConTokenFinito
  <2> QED BY <2>4 DEF TokensPlanificacion, ConToken
<1> QED BY <1>4 DEF NadieEntra, IniciarPlanificacion, Detiene, procVars

----------------------------------------------------------------------------
(* All the steps.                                                          *)

\* What every step does: it keeps the count and, without tokens, chooses no one.
PasoBueno == TokensPlanificacion' /\ (saldoPlani <= 0 => NadieEntra)

\* Every step of the kernel.
LEMMA KernelTokens ==
  ASSUME InvTokens, KernelNext
  PROVE  PasoBueno
<1>1. CASE Nuevos
  BY <1>1, NuevosAjeno, AjenoTokens DEF InvTokens, Ajeno, PasoBueno
<1>2. CASE Escucha
  BY <1>2, PedidoAjeno, AjenoTokens DEF InvTokens, Ajeno, PasoBueno
<1>3. CASE Consola
  <2>1. CASE IniciarPlanificacion \/ Detiene
    BY <2>1, ComandosTokens DEF PasoBueno
  <2>2. CASE ~IniciarPlanificacion /\ ~Detiene
    BY <1>3, <2>2, ConsolaAjeno, AjenoTokens DEF InvTokens, Ajeno, PasoBueno
  <2> QED BY <2>1, <2>2
<1>4. CASE \/ Despacha \/ (\E t \in Hilos : Libera(t) \/ LiberaEvalua(t))
           \/ \E i \in Interfaces : FinIO(i)
  BY <1>4, HiloAjeno, AjenoTokens DEF InvTokens, Ajeno, PasoBueno
<1>5. ASSUME NEW t \in Hilos, Replanifica(t)
      PROVE  PasoBueno
  BY <1>5, ReplanificaTokens DEF PasoBueno
<1>6. ASSUME NEW t \in Hilos, Elige(t)
      PROVE  PasoBueno
  <2>1. CASE Cae
    BY <2>1, CaeAjeno, AjenoTokens DEF InvTokens, Ajeno, PasoBueno
  <2>2. CASE ~Cae
    <3>1. TokensPlanificacion' /\ saldoPlani > 0
      BY <1>6, <2>2, EligeTokens
    <3>2. saldoPlani \in Int
      BY DEF InvTokens, TypeOK, KernelTypeOK, BanderasOK
    <3> QED BY <3>1, <3>2 DEF PasoBueno
  <2> QED BY <2>1, <2>2
<1> QED BY <1>1, <1>2, <1>3, <1>4, <1>5, <1>6 DEF KernelNext, Hilo

\* Every step.
LEMMA TokensNext ==
  ASSUME InvTokens, [Next]_vars
  PROVE  InvTokens' /\ PasoBueno
<1>1. TypeOK'
  BY TipoNext DEF InvTokens
<1>2. CASE KernelNext
  BY <1>1, <1>2, KernelTokens DEF PasoBueno, InvTokens
<1>3. CASE UNCHANGED kernelVars
  <2>1. Ajeno
    BY <1>3 DEF kernelVars, Ajeno, NadieEntra, hilosVars, planVars, usrVars, procVars
  <2> QED BY <1>1, <2>1, AjenoTokens DEF Ajeno, PasoBueno, InvTokens
<1> QED BY <1>2, <1>3 DEF Next, Interfaz, Caido, vars

\* At the start there are no tokens.
LEMMA TokensInit == Init => InvTokens
<1> SUFFICES ASSUME Init PROVE InvTokens
  OBVIOUS
<1>1. ConToken = {}
  BY DEF Init, KernelInit, Inicio, ConToken, Hilos
<1>2. semPlanificacion = 0 /\ saldoPlani = 0
  BY DEF Init, KernelInit
<1> QED BY <1>1, <1>2, TipoInit, FS_EmptySet DEF InvTokens, TokensPlanificacion, ConToken

\* No token of sem_planificacion is lost or made up: those left and those that
\* replanificar holds are the INICIAR_ less the DETENER_PLANIFICACION completed.
THEOREM TokensConservados == Spec => []TokensPlanificacion
<1>1. Init => InvTokens
  BY TokensInit
<1>2. InvTokens /\ [Next]_vars => InvTokens'
  BY TokensNext
<1>3. InvTokens => TokensPlanificacion
  BY DEF InvTokens
<1> QED BY <1>1, <1>2, <1>3, PTL DEF Spec

\* While planning is stopped no process enters EXEC, whatever the threads had
\* read before DETENER_PLANIFICACION came back.
THEOREM DetenidaNadieEntra == Spec => DetenidaNoElige
<1>1. Init => InvTokens
  BY TokensInit
<1>2. InvTokens /\ [Next]_vars => InvTokens'
  BY TokensNext
<1>3. InvTokens /\ [Next]_vars
        => [saldoPlani <= 0 =>
              \A p \in Pids : estado'[p].tipo = "EXEC" => estado[p].tipo = "EXEC"]_vars
  BY TokensNext DEF PasoBueno, NadieEntra
<1> QED BY <1>1, <1>2, <1>3, PTL DEF Spec, DetenidaNoElige

----------------------------------------------------------------------------
(* What the proofs use of sequences.                                       *)

\* A request put at the end of the queue of an interface.
LEMMA AgregaAlFinal ==
  \A f, q \in Seq(Pids), p \in Pids :
      /\ Append(f \o q \o <<>>, p) = f \o q \o <<p>>
      /\ f \o q \o <<p>> = f \o Append(q, p) \o <<>>
<1> TAKE f, q \in Seq(Pids), p \in Pids
<1>1. f \o q \in Seq(Pids) /\ <<p>> \in Seq(Pids) /\ Append(q, p) \in Seq(Pids)
  BY ConcatProperties, AppendProperties
<1>2. f \o q \o <<>> = f \o q
  BY <1>1, ConcatEmptySeq
<1>3. Append(f \o q, p) = f \o q \o <<p>>
  BY <1>1, AppendIsConcat
<1>4. Append(q, p) = q \o <<p>>
  BY AppendIsConcat
<1>5. f \o Append(q, p) = f \o q \o <<p>>
  BY <1>1, <1>4, ConcatAssociative
<1>6. f \o Append(q, p) \in Seq(Pids)
  BY <1>1, ConcatProperties
<1>7. f \o Append(q, p) \o <<>> = f \o Append(q, p)
  BY <1>6, ConcatEmptySeq
<1> QED BY <1>2, <1>3, <1>5, <1>7

\* A sequence that is not empty, from its head.
LEMMA CabezaYResto ==
  ASSUME NEW S, NEW s \in Seq(S), s # <<>>
  PROVE  s = <<Head(s)>> \o Tail(s) /\ <<Head(s)>> \in Seq(S) /\ Tail(s) \in Seq(S)
<1>1. Head(s) \in S /\ Tail(s) \in Seq(S) /\ Len(Tail(s)) = Len(s) - 1
      /\ \A i \in 1..Len(Tail(s)) : Tail(s)[i] = s[i + 1]
  BY HeadTailProperties
<1>2. <<Head(s)>> \in Seq(S) /\ Len(s) \in Nat /\ Len(<<Head(s)>>) = 1
  BY <1>1, LenProperties
<1> DEFINE t == <<Head(s)>> \o Tail(s)
<1>3. /\ t \in Seq(S) /\ Len(t) = Len(s)
      /\ \A i \in 1..Len(s) : t[i] = IF i <= 1 THEN <<Head(s)>>[i] ELSE Tail(s)[i - 1]
  BY <1>1, <1>2, ConcatProperties
<1>4. Head(s) = s[1]
  OBVIOUS
<1>5. \A i \in 1..Len(s) : s[i] = t[i]
  BY <1>1, <1>2, <1>3, <1>4
<1>6. s = t
  BY <1>3, <1>5, SeqEqual
<1> QED BY <1>1, <1>2, <1>6

\* The head of the first of two sequences, taken out of both together.
LEMMA SacaDelPrimero ==
  \A f, x \in Seq(Pids) : f # <<>> => Tail(f \o x) = Tail(f) \o x
<1> TAKE f, x \in Seq(Pids)
<1> HAVE f # <<>>
<1>1. f = <<Head(f)>> \o Tail(f) /\ <<Head(f)>> \in Seq(Pids) /\ Tail(f) \in Seq(Pids)
  BY CabezaYResto
<1>2. f \o x = <<Head(f)>> \o (Tail(f) \o x) /\ Tail(f) \o x \in Seq(Pids)
  BY <1>1, ConcatAssociative, ConcatProperties
<1>3. ASSUME NEW h \in Pids, NEW y \in Seq(Pids)
      PROVE  Tail(<<h>> \o y) = y
  <2> DEFINE t == <<h>> \o y
  <2>1. <<h>> \in Seq(Pids) /\ Len(<<h>>) = 1 /\ Len(y) \in Nat
    BY LenProperties
  <2>2. /\ t \in Seq(Pids) /\ Len(t) = 1 + Len(y)
        /\ \A i \in 1..(1 + Len(y)) : t[i] = IF i <= 1 THEN <<h>>[i] ELSE y[i - 1]
    BY <2>1, ConcatProperties
  <2>3. t # <<>>
    BY <2>1, <2>2
  <2>4. /\ Tail(t) \in Seq(Pids) /\ Len(Tail(t)) = Len(t) - 1
        /\ \A i \in 1..Len(Tail(t)) : Tail(t)[i] = t[i + 1]
    BY <2>2, <2>3, HeadTailProperties
  <2>5. \A i \in 1..Len(y) : Tail(t)[i] = y[i]
    BY <2>1, <2>2, <2>4
  <2> QED BY <2>1, <2>2, <2>4, <2>5, SeqEqual
<1>4. Head(f) \in Pids
  BY HeadTailProperties
<1> QED BY <1>2, <1>3, <1>4

\* An element moved from the head of the second to the end of the first.
LEMMA PasaDelSegundo ==
  \A f, q \in Seq(Pids) : q # <<>> => Append(f, Head(q)) \o Tail(q) = f \o q
<1> TAKE f, q \in Seq(Pids)
<1> HAVE q # <<>>
<1>1. /\ q = <<Head(q)>> \o Tail(q) /\ <<Head(q)>> \in Seq(Pids) /\ Tail(q) \in Seq(Pids)
      /\ Head(q) \in Pids
  BY CabezaYResto, HeadTailProperties
<1>2. Append(f, Head(q)) = f \o <<Head(q)>>
  BY <1>1, AppendIsConcat
<1>3. (f \o <<Head(q)>>) \o Tail(q) = f \o (<<Head(q)>> \o Tail(q))
  BY <1>1, ConcatAssociative
<1> QED BY <1>1, <1>2, <1>3

\* The order in which requests are put together does not matter.
LEMMA JuntaDeTres ==
  \A f, q, x \in Seq(Pids) : f \o q \o x = f \o (q \o x)
BY ConcatAssociative

----------------------------------------------------------------------------
(* The queue of an interface and its connection.                           *)

\* The request that escucha has in hand, put in the queue and not yet sent.
EnMano(i) ==
    IF pc["escucha"] = "esperaPlani" /\ argDe["escucha"] = i
      THEN <<pidDe["escucha"]>> ELSE <<>>

InvIO == TypeOK /\ IOEnOrden

\* A step that leaves the queues and connections of the interfaces alone, and
\* takes escucha neither in nor out of the place between the two.
QuietoIO ==
    /\ UNCHANGED <<colaIO, ioPedidos, ioFin>>
    /\ \/ UNCHANGED <<pc, pidDe, argDe>>
       \/ pc'["escucha"] = pc["escucha"] /\ pidDe'["escucha"] = pidDe["escucha"]
            /\ argDe'["escucha"] = argDe["escucha"]
       \/ pc["escucha"] # "esperaPlani" /\ pc'["escucha"] # "esperaPlani"

\* Such a step keeps the order.
LEMMA QuietoOrden ==
  ASSUME InvIO, QuietoIO
  PROVE  IOEnOrden'
BY DEF InvIO, QuietoIO, IOEnOrden

\* The fall of the kernel.
LEMMA CaeIO == Cae => QuietoIO
BY DEF Cae, QuietoIO, hilosVars, colasVars, canales

\* bloquear_i: the end of the queue, and in hand.
LEMMA PideIOOrden ==
  ASSUME InvIO, PideIO
  PROVE  IOEnOrden'
<1> DEFINE m == Head(chCpu)
<1>1. /\ m.arg \in Interfaces /\ pc["escucha"] = "recibe"
      /\ colaIO' = [colaIO EXCEPT ![m.arg] = Append(@, m.pid)]
      /\ Sigue("escucha", "esperaPlani", m.pid, m.arg)
      /\ ioPedidos' = ioPedidos /\ ioFin' = ioFin
  BY DEF PideIO, Llega, CumpleInterfaz
<1>2. m.pid \in Pids
  <2>1. chCpu # <<>> /\ chCpu \in Seq(MensajesCpu)
    BY DEF PideIO, Llega, InvIO, TypeOK, CanalesTypeOK
  <2>2. m \in MensajesCpu
    BY <2>1
  <2> QED BY <2>2 DEF MensajesCpu
<1>3. /\ pc'["escucha"] = "esperaPlani" /\ argDe'["escucha"] = m.arg
      /\ pidDe'["escucha"] = m.pid
  BY <1>1 DEF Sigue, InvIO, TypeOK, KernelTypeOK, HilosOK, Hilos
<1> SUFFICES ASSUME NEW i \in Interfaces
             PROVE colaIO'[i] = ioFin[i] \o ioPedidos[i]
                     \o (IF pc'["escucha"] = "esperaPlani" /\ argDe'["escucha"] = i
                           THEN <<pidDe'["escucha"]>> ELSE <<>>)
  BY <1>1 DEF IOEnOrden
<1>4. ioFin[i] \in Seq(Pids) /\ ioPedidos[i] \in Seq(Pids)
      /\ colaIO \in [Interfaces -> Seq(Pids)]
  BY DEF InvIO, TypeOK, CanalesTypeOK, KernelTypeOK, ColasOK
<1>5. colaIO[i] = ioFin[i] \o ioPedidos[i] \o <<>>
  BY <1>1 DEF InvIO, IOEnOrden
<1>6. CASE i = m.arg
  <2>1. colaIO'[i] = Append(ioFin[i] \o ioPedidos[i] \o <<>>, m.pid)
    BY <1>1, <1>4, <1>5, <1>6
  <2>2. Append(ioFin[i] \o ioPedidos[i] \o <<>>, m.pid) = ioFin[i] \o ioPedidos[i] \o <<m.pid>>
    BY <1>2, <1>4, AgregaAlFinal
  <2> QED BY <1>3, <1>6, <2>1, <2>2
<1>7. CASE i # m.arg
  BY <1>1, <1>3, <1>4, <1>5, <1>7
<1> QED BY <1>6, <1>7

\* The request goes from the hand of escucha to the connection.
LEMMA EnviaIOOrden ==
  ASSUME InvIO, EnviaIO
  PROVE  IOEnOrden'
<1> DEFINE a == argDe["escucha"]
           p == pidDe["escucha"]
<1>1. /\ pc["escucha"] = "esperaPlani"
      /\ ioPedidos' = [ioPedidos EXCEPT ![a] = Append(@, p)]
      /\ colaIO' = colaIO /\ ioFin' = ioFin
      /\ Sigue("escucha", "marcaBlock", p, a)
  BY DEF EnviaIO, colasVars
<1>2. pc'["escucha"] = "marcaBlock" /\ p \in Pids
  BY <1>1 DEF Sigue, InvIO, TypeOK, KernelTypeOK, HilosOK, LocalesOK, Hilos, ConPid,
              ConInterfaz
<1> SUFFICES ASSUME NEW i \in Interfaces
             PROVE colaIO[i] = ioFin[i] \o ioPedidos'[i] \o <<>>
  BY <1>1, <1>2 DEF IOEnOrden
<1>4. ioFin[i] \in Seq(Pids) /\ ioPedidos[i] \in Seq(Pids)
      /\ ioPedidos \in [Interfaces -> Seq(Pids)]
  BY DEF InvIO, TypeOK, CanalesTypeOK
<1>5. colaIO[i] = ioFin[i] \o ioPedidos[i] \o (IF a = i THEN <<p>> ELSE <<>>)
  BY <1>1 DEF InvIO, IOEnOrden
<1>6. CASE i = a
  <2>1. ioPedidos'[i] = Append(ioPedidos[i], p)
    BY <1>1, <1>4, <1>6
  <2>2. ioFin[i] \o ioPedidos[i] \o <<p>> = ioFin[i] \o Append(ioPedidos[i], p) \o <<>>
    BY <1>2, <1>4, AgregaAlFinal
  <2> QED BY <1>5, <1>6, <2>1, <2>2
<1>7. CASE i # a
  BY <1>1, <1>4, <1>5, <1>7
<1> QED BY <1>6, <1>7

\* The end of an I/O takes the head of the queue and the oldest answer, which
\* is its own.
LEMMA FinIOOrden ==
  ASSUME InvIO, NEW k \in Interfaces, FinIO(k)
  PROVE  IOEnOrden'
<1>1. CASE Cae
  BY <1>1, CaeIO, QuietoOrden
<1>2. CASE ~Cae
  <2>1. /\ ioFin[k] # <<>> /\ UNCHANGED <<pc, pidDe, argDe, ioPedidos>>
        /\ colaIO' = [colaIO EXCEPT ![k] = Tail(@)]
        /\ ioFin' = [ioFin EXCEPT ![k] = Tail(@)]
    BY <1>2 DEF FinIO, hilosVars
  <2> SUFFICES ASSUME NEW i \in Interfaces
               PROVE colaIO'[i] = ioFin'[i] \o ioPedidos[i] \o EnMano(i)
    BY <2>1 DEF IOEnOrden, EnMano
  <2>2. /\ ioFin[i] \in Seq(Pids) /\ ioPedidos[i] \in Seq(Pids)
        /\ colaIO \in [Interfaces -> Seq(Pids)] /\ ioFin \in [Interfaces -> Seq(Pids)]
    BY DEF InvIO, TypeOK, CanalesTypeOK, KernelTypeOK, ColasOK
  <2>3. colaIO[i] = ioFin[i] \o ioPedidos[i] \o EnMano(i)
    BY DEF InvIO, IOEnOrden, EnMano
  <2>4. EnMano(i) \in Seq(Pids)
    <3>1. pc["escucha"] = "esperaPlani" => pidDe["escucha"] \in Pids
      BY DEF InvIO, TypeOK, KernelTypeOK, HilosOK, LocalesOK, Hilos, ConPid, ConInterfaz
    <3> QED BY <3>1 DEF EnMano
  <2>5. CASE i = k
    <3>0. Tail(ioFin[i]) \in Seq(Pids)
      BY <2>1, <2>2, <2>5, HeadTailProperties
    <3>1. /\ ioFin[i] \o ioPedidos[i] \o EnMano(i)
               = ioFin[i] \o (ioPedidos[i] \o EnMano(i))
          /\ Tail(ioFin[i]) \o ioPedidos[i] \o EnMano(i)
               = Tail(ioFin[i]) \o (ioPedidos[i] \o EnMano(i))
      BY <2>2, <2>4, <3>0, JuntaDeTres
    <3>4. ioPedidos[i] \o EnMano(i) \in Seq(Pids)
      BY <2>2, <2>4, ConcatProperties
    <3>2. Tail(ioFin[i] \o (ioPedidos[i] \o EnMano(i)))
            = Tail(ioFin[i]) \o (ioPedidos[i] \o EnMano(i))
      BY <2>1, <2>2, <2>5, <3>4, SacaDelPrimero
    <3>3. colaIO'[i] = Tail(colaIO[i]) /\ ioFin'[i] = Tail(ioFin[i])
      BY <2>1, <2>2, <2>5
    <3> QED BY <2>3, <3>1, <3>2, <3>3
  <2>6. CASE i # k
    BY <2>1, <2>2, <2>3, <2>6
  <2> QED BY <2>5, <2>6
<1> QED BY <1>1, <1>2

\* The interface moves the oldest request to the answers.
LEMMA InterfazOrden ==
  ASSUME InvIO, NEW k \in Interfaces, Interfaz(k)
  PROVE  IOEnOrden'
<1>1. /\ ioPedidos[k] # <<>> /\ UNCHANGED <<pc, pidDe, argDe, colaIO>>
      /\ ioPedidos' = [ioPedidos EXCEPT ![k] = Tail(@)]
      /\ ioFin' = [ioFin EXCEPT ![k] = Append(@, Head(ioPedidos[k]))]
  BY DEF Interfaz, AtiendeInterfaz, kernelVars, hilosVars, colasVars
<1> SUFFICES ASSUME NEW i \in Interfaces
             PROVE colaIO[i] = ioFin'[i] \o ioPedidos'[i] \o EnMano(i)
  BY <1>1 DEF IOEnOrden, EnMano
<1>2. /\ ioFin \in [Interfaces -> Seq(Pids)] /\ ioPedidos \in [Interfaces -> Seq(Pids)]
      /\ ioFin[i] \in Seq(Pids) /\ ioPedidos[i] \in Seq(Pids)
  BY DEF InvIO, TypeOK, CanalesTypeOK
<1>3. colaIO[i] = ioFin[i] \o ioPedidos[i] \o EnMano(i)
  BY DEF InvIO, IOEnOrden, EnMano
<1>4. CASE i = k
  <2>1. ioFin'[i] = Append(ioFin[i], Head(ioPedidos[i])) /\ ioPedidos'[i] = Tail(ioPedidos[i])
    BY <1>1, <1>2, <1>4
  <2>2. ioFin'[i] \o ioPedidos'[i] = ioFin[i] \o ioPedidos[i]
    BY <1>1, <1>2, <1>4, <2>1, PasaDelSegundo
  <2> QED BY <1>3, <2>2
<1>5. CASE i # k
  BY <1>1, <1>2, <1>3, <1>5
<1> QED BY <1>4, <1>5

\* Every other step of the kernel is quiet: the threads other than escucha ...
LEMMA OtrosIO ==
  ASSUME TypeOK, Nuevos \/ Despacha
  PROVE  QuietoIO
<1> USE DEF QuietoIO, Sigue, Vuelve, hilosVars, colasVars, canales, TypeOK, KernelTypeOK,
            HilosOK, Hilos
<1>1. CASE EsperaNew
  BY <1>1 DEF EsperaNew
<1>2. CASE Admite
  BY <1>2, CaeIO DEF Admite, Iniciar
<1>3. CASE Despacha
  BY <1>3, CaeIO DEF Despacha
<1> QED BY <1>1, <1>2, <1>3 DEF Nuevos

\* ... escucha, save bloquear_i and the sending of the request ...
LEMMA EscuchaIO ==
  ASSUME TypeOK, Escucha, ~PideIO, ~EnviaIO
  PROVE  QuietoIO
<1> USE DEF QuietoIO, Llega, Sigue, Vuelve, Inicio, hilosVars, colasVars, canales,
            CargaPcb, TypeOK, KernelTypeOK, HilosOK, Hilos
<1>1. CASE FinDesaloja \/ FinDesalojaUsuario \/ FinContinua
  BY <1>1 DEF FinDesaloja, FinDesalojaUsuario, FinContinua
<1>2. CASE PaqueteSinExec
  BY <1>2, CaeIO DEF PaqueteSinExec
<1>3. CASE PideDesconocido
  BY <1>3, CaeIO DEF PideDesconocido
<1>4. CASE MarcaBlock
  BY <1>4 DEF MarcaBlock
<1>5. CASE PideWait
  BY <1>5 DEF PideWait
<1>6. CASE EvaluaWait
  BY <1>6 DEF EvaluaWait
<1>7. CASE PideSignal
  BY <1>7 DEF PideSignal
<1>8. CASE Signal
  BY <1>8, CaeIO DEF Signal, EvaluaSignal
<1>9. CASE PideExit
  BY <1>9 DEF PideExit
<1>10. CASE SaleEscucha
  BY <1>10 DEF SaleEscucha, Sale
<1> QED BY <1>1, <1>2, <1>3, <1>4, <1>5, <1>6, <1>7, <1>8, <1>9, <1>10 DEF Escucha

\* ... what any thread does ...
LEMMA HiloIO ==
  ASSUME TypeOK, NEW t \in Hilos, Hilo(t)
  PROVE  QuietoIO
<1> USE DEF QuietoIO, Sigue, Vuelve, Inicio, hilosVars, colasVars, canales, TypeOK,
            KernelTypeOK, HilosOK, Hilos
<1>1. CASE Replanifica(t)
  BY <1>1 DEF Replanifica
<1>2. CASE Elige(t)
  BY <1>2, CaeIO DEF Elige
<1>3. CASE Libera(t)
  BY <1>3 DEF Libera
<1>4. CASE LiberaEvalua(t)
  BY <1>4, CaeIO DEF LiberaEvalua, EvaluaSignal
<1> QED BY <1>1, <1>2, <1>3, <1>4 DEF Hilo

\* ... and the commands, FINALIZAR_PROCESO among them: it takes no pcb out of the
\* queue of an interface.
LEMMA ConsolaIO ==
  ASSUME TypeOK, Consola
  PROVE  QuietoIO
<1> USE DEF QuietoIO, Sigue, Vuelve, hilosVars, colasVars, canales, TypeOK, KernelTypeOK,
            HilosOK, Hilos
<1>1. CASE \E s \in Scripts : IniciarProceso(s)
  BY <1>1 DEF IniciarProceso
<1>2. CASE IniciarPlanificacion \/ DetenerPlanificacion \/ Detiene
  BY <1>2 DEF IniciarPlanificacion, DetenerPlanificacion, Detiene
<1>3. CASE \E n \in Grados : SubeGrado(n) \/ BajaGrado(n)
  BY <1>3 DEF SubeGrado, BajaGrado
<1>4. CASE RestaGrado
  BY <1>4 DEF RestaGrado
<1>5. CASE ProcesoEstado
  BY <1>5 DEF ProcesoEstado, kernelVars
<1>6. ASSUME NEW p \in Pids, FinalizaNew(p) \/ FinalizaReady(p) \/ FinalizaExec(p)
      PROVE  QuietoIO
  BY <1>6 DEF FinalizaNew, FinalizaReady, FinalizaExec
<1>7. ASSUME NEW p \in Pids, FinalizaIO(p) \/ FinalizaRecurso(p)
      PROVE  QuietoIO
  BY <1>7 DEF FinalizaIO, FinalizaRecurso
<1>8. ASSUME NEW p \in Pids, FinalizaPerdido(p)
      PROVE  QuietoIO
  BY <1>8, CaeIO DEF FinalizaPerdido
<1>9. CASE PideDesalojo \/ EsperaUsuario
  BY <1>9 DEF PideDesalojo, EsperaUsuario
<1>10. CASE SumaInstancia
  BY <1>10, CaeIO DEF SumaInstancia
<1>11. CASE SaleConsola
  BY <1>11 DEF SaleConsola, Sale
<1> QED BY <1>1, <1>2, <1>3, <1>4, <1>5, <1>6, <1>7, <1>8, <1>9, <1>10, <1>11 DEF Consola

\* Every step keeps the order.
LEMMA OrdenNext == InvIO /\ [Next]_vars => InvIO'
<1> SUFFICES ASSUME InvIO, [Next]_vars PROVE InvIO'
  OBVIOUS
<1>1. TypeOK'
  BY TipoNext DEF InvIO
<1>2. CASE KernelNext
  <2>1. CASE Nuevos \/ Despacha
    BY <1>1, <2>1, OtrosIO, QuietoOrden DEF InvIO
  <2>2. CASE Escucha
    BY <1>1, <2>2, EscuchaIO, QuietoOrden, PideIOOrden, EnviaIOOrden DEF InvIO
  <2>3. CASE Consola
    BY <1>1, <2>3, ConsolaIO, QuietoOrden DEF InvIO
  <2>4. CASE \E t \in Hilos : Hilo(t)
    BY <1>1, <2>4, HiloIO, QuietoOrden DEF InvIO
  <2>5. CASE \E i \in Interfaces : FinIO(i)
    BY <1>1, <2>5, FinIOOrden DEF InvIO
  <2> QED BY <1>2, <2>1, <2>2, <2>3, <2>4, <2>5 DEF KernelNext
<1>3. CASE CpuNext /\ UNCHANGED kernelVars
  <2>1. UNCHANGED <<ioPedidos, ioFin>>
    BY <1>3 DEF CpuNext, CpuRecibePcb, CpuInstruccion, CpuContinua, CpuNoContinua,
                CpuRecibeInterrupcion, CpuAtiendeInterrupcion, canales
  <2>2. QuietoIO
    BY <1>3, <2>1 DEF QuietoIO, kernelVars, hilosVars, colasVars
  <2> QED BY <1>1, <2>2, QuietoOrden DEF InvIO
<1>4. CASE \E i \in Interfaces : Interfaz(i)
  BY <1>1, <1>4, InterfazOrden DEF InvIO
<1>5. CASE UNCHANGED vars
  <2>1. QuietoIO
    BY <1>5 DEF vars, QuietoIO, kernelVars, hilosVars, colasVars, canales
  <2> QED BY <1>1, <2>1, QuietoOrden DEF InvIO
<1> QED BY <1>2, <1>3, <1>4, <1>5 DEF Next, Caido

\* END_OF_IO_*, which names no process, always wakes up the one it is about: the
\* queue of an interface and the requests of its connection, answered or not, are
\* the same processes in the same order, FINALIZAR_PROCESO or not.
THEOREM IOEnOrdenSiempre == Spec => []IOEnOrden
<1>1. Init => InvIO
  <2> SUFFICES ASSUME Init PROVE InvIO
    OBVIOUS
  <2>1. /\ colaIO = [i \in Interfaces |-> <<>>] /\ ioFin = [i \in Interfaces |-> <<>>]
        /\ ioPedidos = [i \in Interfaces |-> <<>>] /\ pc["escucha"] = "recibe"
    BY DEF Init, KernelInit, CanalesInit, Inicio, Hilos
  <2>2. <<>> \in Seq(Pids) /\ <<>> \o <<>> = <<>>
    BY EmptySeq, ConcatEmptySeq
  <2>3. IOEnOrden
    BY <2>1, <2>2 DEF IOEnOrden
  <2> QED BY <2>3, TipoInit DEF InvIO
<1>2. InvIO /\ [Next]_vars => InvIO'
  BY OrdenNext
<1>3. InvIO => IOEnOrden
  BY DEF InvIO
<1> QED BY <1>1, <1>2, <1>3, PTL DEF Spec

----------------------------------------------------------------------------
(* The semaphores that count queues, and the instances that count waiters. *)

\* Without FINALIZAR_PROCESO the console leaves its reading loop only for the
\* commands about planning and the degree, and nuevos releases nothing.
SinFinalizar ==
    /\ pc["consola"] \in {"lee", "detiene", "resta"}
    /\ pc["nuevos"] \in {"esperaNew", "esperaMulti", "replanifica", "elige"}

\* sem_hay_procesos_en_new counts cola_new, less the process nuevos has taken
\* a post for and not yet the pcb.
InvSemaforos == TypeOK /\ SinFinalizar /\ SemaforosCuentan

SemaforosSig == SinFinalizar' /\ SemaforosCuentan'

\* A step that leaves the counted queues alone.
QuietoSem ==
    /\ UNCHANGED <<semReady, colaReady, semNew, colaNew>>
    /\ \A t \in {"consola", "nuevos"} : pc'[t] = pc[t]

LEMMA QuietoCuenta ==
  ASSUME InvSemaforos, QuietoSem
  PROVE  SemaforosSig
BY DEF InvSemaforos, QuietoSem, SemaforosSig, SinFinalizar, SemaforosCuentan

\* The fall of the kernel.
LEMMA CaeCuenta == Cae => QuietoSem
BY DEF Cae, QuietoSem, hilosVars, colasVars, planVars, admVars

\* iniciar: one process more and one post more.
LEMMA IniciarCuenta ==
  ASSUME InvSemaforos, NEW p \in Pids, Iniciar(p)
  PROVE  semReady' = Len(colaReady')
<1>1. colaReady \in Seq(Pids) /\ semReady = Len(colaReady)
  BY DEF InvSemaforos, TypeOK, KernelTypeOK, ColasOK, SemaforosCuentan
<1>2. Len(Append(colaReady, p)) = Len(colaReady) + 1
  BY <1>1, AppendProperties
<1> QED BY <1>1, <1>2 DEF Iniciar

\* A process that waits for r, when there is one.
LEMMA PrimeroEspera ==
  ASSUME TypeOK, NEW r \in Recursos, colaRec[r] # <<>>
  PROVE  Head(colaRec[r]) \in Pids
BY DEF TypeOK, KernelTypeOK, ColasOK

\* A signal that wakes up posts once; one that does not posts nothing.
LEMMA SignalCuenta ==
  ASSUME InvSemaforos, NEW p, NEW r \in Recursos, EvaluaSignal(p, r), ~SignalNula(p, r)
  PROVE  semReady' = Len(colaReady') /\ UNCHANGED <<semNew, colaNew>>
<1>1. UNCHANGED <<semNew, colaNew>>
  BY DEF EvaluaSignal, admVars
<1>2. CASE SeDesbloquea(r)
  <2>1. Head(colaRec[r]) \in Pids
    BY <1>2, PrimeroEspera DEF SignalNula, InvSemaforos
  <2> QED BY <1>1, <1>2, <2>1, IniciarCuenta DEF EvaluaSignal
<1>3. CASE ~SeDesbloquea(r)
  BY <1>1, <1>3 DEF EvaluaSignal, InvSemaforos, SemaforosCuentan
<1> QED BY <1>2, <1>3

\* administrar_procesos_new: the post, then the process.
LEMMA NuevosCuenta ==
  ASSUME InvSemaforos, Nuevos
  PROVE  SemaforosSig
<1> USE DEF InvSemaforos, SemaforosSig, SinFinalizar, SemaforosCuentan, Sigue, Vuelve,
            Inicio, TypeOK, KernelTypeOK, HilosOK, ColasOK, SemaforosOK, Hilos
<1>1. CASE EsperaNew
  BY <1>1 DEF EsperaNew, planVars, colasVars
<1>2. CASE Admite
  <2>1. CASE Cae
    BY <2>1, CaeCuenta, QuietoCuenta
  <2>2. CASE ~Cae
    <3>1. /\ colaNew # <<>> /\ Iniciar(Head(colaNew)) /\ pc["nuevos"] = "esperaMulti"
          /\ colaNew' = Tail(colaNew) /\ semNew' = semNew
          /\ pc' = [pc EXCEPT !["nuevos"] = "replanifica"]
               \/ pc' = [pc EXCEPT !["nuevos"] = "esperaNew"]
      BY <1>2, <2>2 DEF Admite
    <3>2. Head(colaNew) \in Pids /\ Len(Tail(colaNew)) = Len(colaNew) - 1
      BY <3>1, HeadTailProperties
    <3>3. semReady' = Len(colaReady')
      BY <3>1, <3>2, IniciarCuenta
    <3> QED BY <3>1, <3>2, <3>3
  <2> QED BY <2>1, <2>2
<1> QED BY <1>1, <1>2 DEF Nuevos

\* escucha touches cola_ready only when a signal wakes someone up.
LEMMA EscuchaCuenta ==
  ASSUME InvSemaforos, Escucha
  PROVE  SemaforosSig
<1> USE DEF QuietoSem, Llega, Sigue, Vuelve, hilosVars, colasVars, planVars, admVars,
            CargaPcb, TypeOK, KernelTypeOK, HilosOK, Hilos
<1>1. CASE FinDesaloja \/ FinDesalojaUsuario \/ FinContinua
  BY <1>1, QuietoCuenta DEF FinDesaloja, FinDesalojaUsuario, FinContinua, InvSemaforos
<1>2. CASE PaqueteSinExec
  BY <1>2, CaeCuenta, QuietoCuenta DEF PaqueteSinExec
<1>3. CASE PideDesconocido
  BY <1>3, CaeCuenta, QuietoCuenta DEF PideDesconocido, InvSemaforos
<1>4. CASE PideIO \/ EnviaIO \/ MarcaBlock
  BY <1>4, QuietoCuenta DEF PideIO, EnviaIO, MarcaBlock, InvSemaforos
<1>5. CASE PideWait \/ EvaluaWait \/ PideSignal
  BY <1>5, QuietoCuenta DEF PideWait, EvaluaWait, PideSignal, InvSemaforos
<1>6. CASE Signal
  <2>1. CASE Cae
    BY <2>1, CaeCuenta, QuietoCuenta
  <2>2. CASE ~Cae
    <3> DEFINE r == argDe["escucha"]
    <3>1. /\ EvaluaSignal(pidDe["escucha"], r) /\ ~SignalNula(pidDe["escucha"], r)
          /\ pc["escucha"] = "signalEvalua" /\ pc' = [pc EXCEPT !["escucha"] = Inicio("escucha")]
      BY <1>6, <2>2 DEF Signal
    <3>2. r \in Recursos
      BY <3>1 DEF InvSemaforos, LocalesOK, ConRecurso
    <3>3. semReady' = Len(colaReady') /\ UNCHANGED <<semNew, colaNew>>
      BY <3>1, <3>2, SignalCuenta
    <3> QED BY <3>1, <3>3 DEF SemaforosSig, InvSemaforos, SemaforosCuentan, SinFinalizar
  <2> QED BY <2>1, <2>2
<1>7. CASE PideExit
  BY <1>7, QuietoCuenta DEF PideExit, InvSemaforos
<1>8. CASE SaleEscucha
  BY <1>8, QuietoCuenta DEF SaleEscucha, Sale, InvSemaforos
<1> QED BY <1>1, <1>2, <1>3, <1>4, <1>5, <1>6, <1>7, <1>8 DEF Escucha

\* replanificar takes a post and a process; exit_prima releases by signals.
LEMMA HiloCuenta ==
  ASSUME InvSemaforos, NEW t \in Hilos, Hilo(t)
  PROVE  SemaforosSig
<1> USE DEF SemaforosSig, SinFinalizar, Sigue, Vuelve, Inicio, hilosVars, colasVars,
            planVars, admVars, TypeOK, KernelTypeOK, HilosOK, ColasOK, Hilos
<1>1. CASE Replanifica(t)
  BY <1>1 DEF Replanifica, InvSemaforos, SemaforosCuentan
<1>2. CASE Elige(t)
  <2>1. CASE Cae
    BY <2>1, CaeCuenta, QuietoCuenta
  <2>2. CASE ~Cae
    <3>1. /\ colaReady # <<>> /\ pc[t] = "elige" /\ UNCHANGED <<semNew, colaNew>>
          /\ semReady' = semReady - 1 /\ colaReady' = Tail(colaReady)
          /\ pc' = [pc EXCEPT ![t] = Inicio(t)]
      BY <1>2, <2>2 DEF Elige
    <3>2. Len(Tail(colaReady)) = Len(colaReady) - 1
      BY <3>1, HeadTailProperties DEF InvSemaforos
    <3> QED BY <3>1, <3>2 DEF InvSemaforos, SemaforosCuentan
  <2> QED BY <2>1, <2>2
<1>3. CASE Libera(t)
  BY <1>3 DEF Libera, InvSemaforos, SemaforosCuentan
<1>4. CASE LiberaEvalua(t)
  <2>1. CASE Cae
    BY <2>1, CaeCuenta, QuietoCuenta
  <2>2. CASE ~Cae
    <3> DEFINE r == argDe[t]
    <3>1. /\ EvaluaSignal(pidDe[t], r) /\ ~SignalNula(pidDe[t], r)
          /\ pc[t] = "liberaEvalua" /\ pc' = [pc EXCEPT ![t] = "libera"]
      BY <1>4, <2>2 DEF LiberaEvalua
    <3>2. r \in Recursos /\ t = "escucha"
      BY <3>1 DEF InvSemaforos, LocalesOK, ConRecurso
    <3>3. semReady' = Len(colaReady') /\ UNCHANGED <<semNew, colaNew>>
      BY <3>1, <3>2, SignalCuenta
    <3> QED BY <3>1, <3>2, <3>3 DEF InvSemaforos, SemaforosCuentan
  <2> QED BY <2>1, <2>2
<1> QED BY <1>1, <1>2, <1>3, <1>4 DEF Hilo

\* The commands other than FINALIZAR_PROCESO.
LEMMA ConsolaCuenta ==
  ASSUME "FINALIZAR_PROCESO" \notin Comandos, InvSemaforos, Consola
  PROVE  SemaforosSig
<1> USE DEF SemaforosSig, SinFinalizar, SemaforosCuentan, Sigue, Vuelve, Inicio,
            hilosVars, colasVars, planVars, admVars, InvSemaforos, TypeOK, KernelTypeOK,
            HilosOK, ColasOK, Hilos
<1>1. CASE \E s \in Scripts : IniciarProceso(s)
  <2>1. PICK s \in Scripts : IniciarProceso(s)
    BY <1>1
  <2>2. /\ colaNew' = Append(colaNew, contador) /\ semNew' = semNew + 1
        /\ UNCHANGED <<pc, colaReady, semReady>>
    BY <2>1 DEF IniciarProceso
  <2>3. contador \in Pids
    BY <2>1, MaxPidAssumption DEF IniciarProceso, ProcesosOK, Pids
  <2>4. Len(Append(colaNew, contador)) = Len(colaNew) + 1
    BY <2>3, AppendProperties
  <2> QED BY <2>2, <2>4 DEF SemaforosOK
<1>2. CASE IniciarPlanificacion
  BY <1>2 DEF IniciarPlanificacion
<1>3. CASE DetenerPlanificacion
  BY <1>3 DEF DetenerPlanificacion
<1>4. CASE Detiene
  BY <1>4 DEF Detiene
<1>5. CASE \E n \in Grados : SubeGrado(n)
  BY <1>5 DEF SubeGrado
<1>6. CASE \E n \in Grados : BajaGrado(n)
  BY <1>6 DEF BajaGrado
<1>7. CASE RestaGrado
  BY <1>7 DEF RestaGrado
<1>8. CASE ProcesoEstado
  BY <1>8 DEF ProcesoEstado, kernelVars
<1>9. ~PideDesalojo /\ ~EsperaUsuario /\ ~SumaInstancia /\ ~SaleConsola
  BY DEF PideDesalojo, EsperaUsuario, SumaInstancia, SaleConsola
<1>10. ASSUME NEW p \in Pids
       PROVE  /\ ~FinalizaNew(p) /\ ~FinalizaReady(p) /\ ~FinalizaExec(p)
              /\ ~FinalizaIO(p) /\ ~FinalizaRecurso(p) /\ ~FinalizaPerdido(p)
  BY DEF FinalizaNew, FinalizaReady, FinalizaExec, FinalizaIO, FinalizaRecurso,
         FinalizaPerdido, Finaliza, Acepta, Lee
<1> QED BY <1>1, <1>2, <1>3, <1>4, <1>5, <1>6, <1>7, <1>8, <1>9, <1>10 DEF Consola

\* The dispatch, and the end of an I/O.
LEMMA RestoCuenta ==
  ASSUME InvSemaforos, Despacha \/ \E i \in Interfaces : FinIO(i)
  PROVE  SemaforosSig
<1>1. CASE Despacha
  <2>1. QuietoSem
    BY <1>1, CaeCuenta DEF Despacha, QuietoSem, hilosVars, colasVars, admVars
  <2> QED BY <2>1, QuietoCuenta
<1>2. ASSUME NEW i \in Interfaces, FinIO(i)
      PROVE  SemaforosSig
  <2>1. CASE Cae
    BY <2>1, CaeCuenta, QuietoCuenta
  <2>2. CASE ~Cae
    <3>1. /\ colaIO[i] # <<>> /\ Iniciar(Head(colaIO[i]))
          /\ UNCHANGED <<pc, semNew, colaNew>>
      BY <1>2, <2>2 DEF FinIO, hilosVars, admVars
    <3>2. Head(colaIO[i]) \in Pids
      BY <3>1 DEF InvSemaforos, TypeOK, KernelTypeOK, ColasOK
    <3>3. semReady' = Len(colaReady')
      BY <3>1, <3>2, IniciarCuenta
    <3> QED BY <3>1, <3>3 DEF SemaforosSig, InvSemaforos, SemaforosCuentan, SinFinalizar
  <2> QED BY <2>1, <2>2
<1> QED BY <1>1, <1>2

LEMMA SemaforosInit == Init => InvSemaforos
<1> SUFFICES ASSUME Init PROVE InvSemaforos
  OBVIOUS
<1>1. /\ pc = [t \in Hilos |-> Inicio(t)] /\ semReady = 0 /\ colaReady = <<>>
      /\ semNew = 0 /\ colaNew = <<>>
  BY DEF Init, KernelInit
<1>2. pc["consola"] = "lee" /\ pc["nuevos"] = "esperaNew"
  BY <1>1 DEF Inicio, Hilos
<1> QED BY <1>1, <1>2, TipoInit DEF InvSemaforos, SinFinalizar, SemaforosCuentan

LEMMA SemaforosNext ==
  ASSUME "FINALIZAR_PROCESO" \notin Comandos
  PROVE  InvSemaforos /\ [Next]_vars => InvSemaforos'
<1> SUFFICES ASSUME InvSemaforos, [Next]_vars PROVE InvSemaforos'
  OBVIOUS
<1>1. TypeOK'
  BY TipoNext DEF InvSemaforos
<1>2. CASE KernelNext
  <2>1. SemaforosSig
    BY <1>2, NuevosCuenta, EscuchaCuenta, ConsolaCuenta, HiloCuenta, RestoCuenta
       DEF KernelNext
  <2> QED BY <1>1, <2>1 DEF InvSemaforos, SemaforosSig
<1>3. CASE UNCHANGED kernelVars
  <2>1. QuietoSem
    BY <1>3 DEF kernelVars, QuietoSem, hilosVars, colasVars, planVars, admVars
  <2> QED BY <1>1, <2>1, QuietoCuenta DEF InvSemaforos, SemaforosSig
<1> QED BY <1>2, <1>3 DEF Next, Interfaz, Caido, vars

\* A pop that waited for its semaphore never finds the queue empty: the posts of
\* sem_procesos_en_ready and sem_hay_procesos_en_new are the processes in cola_ready
\* and cola_new, however the threads that push and pop interleave.
THEOREM SemaforosCuentanSiempre ==
  ASSUME "FINALIZAR_PROCESO" \notin Comandos
  PROVE  Spec => []SemaforosCuentan
<1>1. Init => InvSemaforos
  BY SemaforosInit
<1>2. InvSemaforos /\ [Next]_vars => InvSemaforos'
  BY SemaforosNext
<1>3. InvSemaforos => SemaforosCuentan
  BY DEF InvSemaforos
<1> QED BY <1>1, <1>2, <1>3, PTL DEF Spec

\* kernel.c:590 says that no list is asked for an element when it is empty; the
\* run cola_vacia shows that FINALIZAR_PROCESO breaks it, and nothing else does.
THEOREM ColaVaciaNunca ==
  ASSUME "FINALIZAR_PROCESO" \notin Comandos
  PROVE  Spec => []NoSacaDeColaVacia
<1>1. Init => InvSemaforos
  BY SemaforosInit
<1>2. InvSemaforos /\ [Next]_vars => InvSemaforos'
  BY SemaforosNext
<1>3. InvSemaforos => NoSacaDeColaVacia
  <2> SUFFICES ASSUME InvSemaforos PROVE NoSacaDeColaVacia
    OBVIOUS
  <2>1. semReady \in Nat /\ semNew \in Nat
    BY DEF InvSemaforos, TypeOK, KernelTypeOK, SemaforosOK
  <2>2. Len(<<>>) = 0
    OBVIOUS
  <2>3. colaReady = <<>> => semReady = 0
    BY <2>2 DEF InvSemaforos, SemaforosCuentan
  <2>4. pc["nuevos"] = "esperaMulti" => colaNew # <<>>
    BY <2>1, <2>2 DEF InvSemaforos, SemaforosCuentan
  <2> QED BY <2>1, <2>3, <2>4 DEF NoSacaDeColaVacia
<1> QED BY <1>1, <1>2, <1>3, PTL DEF Spec

----------------------------------------------------------------------------
(* The processes that wait for a resource.                                 *)

InvNegativas == InvRecursos /\ SinFinalizar /\ NegativasEnCola

\* A step that leaves the resources alone and moves no thread in or out of Medio.
LEMMA QuietoSaldadas ==
  ASSUME instancias' = instancias,
         \A t \in {"escucha", "consola"} :
            \/ pc'[t] = pc[t] /\ argDe'[t] = argDe[t]
            \/ pc[t] \notin Medio /\ pc'[t] \notin Medio
  PROVE  \A r : Saldadas(r)' = Saldadas(r)
<1>1. \A r : /\ En("escucha", "waitEvalua", r)' = En("escucha", "waitEvalua", r)
             /\ En("escucha", "signalEvalua", r)' = En("escucha", "signalEvalua", r)
             /\ En("escucha", "liberaEvalua", r)' = En("escucha", "liberaEvalua", r)
             /\ En("consola", "liberaEvalua", r)' = En("consola", "liberaEvalua", r)
  BY DEF Medio, En
<1> QED BY <1>1, Zenon DEF Saldadas

\* A quiet step that leaves the queues of the resources alone keeps the account.
LEMMA QuietoEspera ==
  ASSUME InvNegativas, Quieto, colaRec' = colaRec
  PROVE  NegativasEnCola'
BY QuietoSaldadas DEF InvNegativas, NegativasEnCola, Quieto, recVars

\* At its places console owes no release.
LEMMA ConsolaNoDebe ==
  ASSUME SinFinalizar, NEW r
  PROVE  En("consola", "liberaEvalua", r) = 0
BY DEF SinFinalizar, En

\* The queue of one resource, as a number.
LEMMA LargoDeCola ==
  ASSUME InvNegativas, NEW r \in Recursos
  PROVE  /\ instancias[r] \in Int /\ colaRec[r] \in Seq(Pids)
         /\ Len(colaRec[r]) = IF Saldadas(r) < 0 THEN -Saldadas(r) ELSE 0
BY DEF InvNegativas, InvRecursos, TypeOK, KernelTypeOK, RecursosOK, ColasOK,
       NegativasEnCola, Saldadas

\* wait_recurso takes an instance, and escucha owes a place in the queue.
LEMMA PideWaitSaldadas ==
  ASSUME InvNegativas, PideWait
  PROVE  \A r \in Recursos : Saldadas(r)' = Saldadas(r)
<1> DEFINE a == Head(chCpu).arg
<1>1. /\ a \in Recursos /\ pc["escucha"] = "recibe" /\ colaRec' = colaRec
      /\ instancias' = [instancias EXCEPT ![a] = @ - 1]
      /\ Sigue("escucha", "waitEvalua", Head(chCpu).pid, a)
  BY DEF PideWait, Llega
<1>2. /\ pc'["escucha"] = "waitEvalua" /\ argDe'["escucha"] = a
      /\ pc'["consola"] = pc["consola"]
  BY <1>1 DEF Sigue, InvNegativas, InvRecursos, TypeOK, KernelTypeOK, HilosOK, Hilos
<1>3. ASSUME NEW r \in Recursos
      PROVE  Saldadas(r)' = Saldadas(r)
  <2>1. instancias'[r] = IF r = a THEN instancias[r] - 1 ELSE instancias[r]
    BY <1>1 DEF InvNegativas, InvRecursos, TypeOK, KernelTypeOK, RecursosOK
  <2>2. instancias[r] \in Int
    BY LargoDeCola
  <2>3. En("consola", "liberaEvalua", r)' = 0 /\ En("consola", "liberaEvalua", r) = 0
    BY <1>2, ConsolaNoDebe DEF InvNegativas, SinFinalizar, En
  <2> QED BY <1>1, <1>2, <2>1, <2>2, <2>3 DEF Saldadas, En
<1> QED BY <1>3

LEMMA PideWaitEspera ==
  ASSUME InvNegativas, PideWait
  PROVE  NegativasEnCola'
<1>1. colaRec' = colaRec
  BY DEF PideWait
<1> QED BY <1>1, PideWaitSaldadas DEF InvNegativas, NegativasEnCola

\* The rest of wait: the place in the queue exactly when the number is negative.
LEMMA EvaluaWaitEspera ==
  ASSUME InvNegativas, EvaluaWait
  PROVE  NegativasEnCola'
<1>0. PICK p, a : p = pidDe["escucha"] /\ a = argDe["escucha"]
  OBVIOUS
<1>1. /\ pc["escucha"] = "waitEvalua" /\ instancias' = instancias
      /\ colaRec' = IF instancias[a] < 0 THEN [colaRec EXCEPT ![a] = Append(@, p)]
                                         ELSE colaRec
      /\ Vuelve("escucha")
  BY <1>0 DEF EvaluaWait, VaABloqueado
<1>2. pc'["escucha"] = "recibe" /\ pc'["consola"] = pc["consola"]
  BY <1>1 DEF Vuelve, Inicio, Sigue, InvNegativas, InvRecursos, TypeOK, KernelTypeOK,
              HilosOK, Hilos
<1>3. p \in Pids /\ a \in Recursos
  BY <1>0, <1>1 DEF InvNegativas, InvRecursos, TypeOK, KernelTypeOK, HilosOK, LocalesOK,
                    Hilos, ConPid, ConRecurso
<1> SUFFICES ASSUME NEW r \in Recursos
             PROVE Len(colaRec'[r]) = IF Saldadas(r)' < 0 THEN -Saldadas(r)' ELSE 0
  BY DEF NegativasEnCola, Saldadas
<1>4. /\ instancias[r] \in Int /\ colaRec[r] \in Seq(Pids)
      /\ Len(colaRec[r]) = IF Saldadas(r) < 0 THEN -Saldadas(r) ELSE 0
  BY LargoDeCola
<1>5. Saldadas(r)' = instancias[r]
  BY <1>1, <1>2, <1>4, ConsolaNoDebe DEF Saldadas, En, InvNegativas, SinFinalizar
<1>6. Saldadas(r) = instancias[r] + (IF a = r THEN 1 ELSE 0)
  BY <1>0, <1>1, <1>4, ConsolaNoDebe DEF Saldadas, En, InvNegativas
<1>7. Len(Append(colaRec[r], p)) = Len(colaRec[r]) + 1
  BY <1>3, <1>4, AppendProperties
<1>8. Len(colaRec'[r]) = Len(colaRec[r]) + (IF a = r /\ instancias[a] < 0 THEN 1 ELSE 0)
  BY <1>1, <1>3, <1>4, <1>7 DEF InvNegativas, InvRecursos, TypeOK, KernelTypeOK, ColasOK
<1> QED BY <1>4, <1>5, <1>6, <1>8

\* signal_recurso gives an instance back, and escucha owes a wake-up.
LEMMA SumaSaldadas ==
  ASSUME InvNegativas, NEW a \in Recursos, NEW l \in {"signalEvalua", "liberaEvalua"},
         pc["escucha"] \notin Medio, NEW p,
         instancias' = [instancias EXCEPT ![a] = @ + 1], Sigue("escucha", l, p, a)
  PROVE  \A r \in Recursos : Saldadas(r)' = Saldadas(r)
<1>1. /\ pc'["escucha"] = l /\ argDe'["escucha"] = a
      /\ pc'["consola"] = pc["consola"]
  BY DEF Sigue, InvNegativas, InvRecursos, TypeOK, KernelTypeOK, HilosOK, Hilos
<1>2. ASSUME NEW r \in Recursos
      PROVE  Saldadas(r)' = Saldadas(r)
  <2>1. instancias'[r] = IF r = a THEN instancias[r] + 1 ELSE instancias[r]
    BY DEF InvNegativas, InvRecursos, TypeOK, KernelTypeOK, RecursosOK
  <2>2. instancias[r] \in Int
    BY LargoDeCola
  <2>3. En("consola", "liberaEvalua", r)' = 0 /\ En("consola", "liberaEvalua", r) = 0
    BY <1>1, ConsolaNoDebe DEF InvNegativas, SinFinalizar, En
  <2> QED BY <1>1, <2>1, <2>2, <2>3 DEF Saldadas, En, Medio
<1> QED BY <1>2

LEMMA SumaEspera ==
  ASSUME InvNegativas, NEW a \in Recursos, NEW l \in {"signalEvalua", "liberaEvalua"},
         pc["escucha"] \notin Medio, colaRec' = colaRec, NEW p,
         instancias' = [instancias EXCEPT ![a] = @ + 1], Sigue("escucha", l, p, a)
  PROVE  NegativasEnCola'
BY SumaSaldadas DEF InvNegativas, NegativasEnCola

\* The rest of signal: someone leaves the queue exactly when there was someone.
LEMMA SignalEspera ==
  ASSUME InvNegativas, pc["escucha"] \in {"signalEvalua", "liberaEvalua"},
         EvaluaSignal(pidDe["escucha"], argDe["escucha"]),
         NEW l \in {"recibe", "libera"}, NEW n, NEW b, Sigue("escucha", l, n, b)
  PROVE  NegativasEnCola'
<1>0. PICK a : a = argDe["escucha"]
  OBVIOUS
<1>1. /\ instancias' = instancias
      /\ colaRec' = IF instancias[a] <= 0 THEN [colaRec EXCEPT ![a] = Tail(@)]
                                          ELSE colaRec
  BY <1>0 DEF EvaluaSignal, SeDesbloquea
<1>2. pc'["escucha"] = l /\ pc'["consola"] = pc["consola"]
  BY DEF Sigue, InvNegativas, InvRecursos, TypeOK, KernelTypeOK, HilosOK, Hilos
<1>3. a \in Recursos
  BY <1>0 DEF InvNegativas, InvRecursos, TypeOK, KernelTypeOK, HilosOK, LocalesOK, Hilos,
              ConRecurso
<1> SUFFICES ASSUME NEW r \in Recursos
             PROVE Len(colaRec'[r]) = IF Saldadas(r)' < 0 THEN -Saldadas(r)' ELSE 0
  BY DEF NegativasEnCola, Saldadas
<1>4. /\ instancias[r] \in Int /\ colaRec[r] \in Seq(Pids)
      /\ Len(colaRec[r]) = IF Saldadas(r) < 0 THEN -Saldadas(r) ELSE 0
  BY LargoDeCola
<1>5. Saldadas(r)' = instancias[r]
  BY <1>1, <1>2, <1>4, ConsolaNoDebe DEF Saldadas, En, InvNegativas, SinFinalizar
<1>6. Saldadas(r) = instancias[r] - (IF a = r THEN 1 ELSE 0)
  BY <1>0, <1>4, ConsolaNoDebe DEF Saldadas, En, InvNegativas
<1>7. colaRec[r] # <<>> => Len(Tail(colaRec[r])) = Len(colaRec[r]) - 1
  BY <1>4, HeadTailProperties
<1>8. Len(colaRec[r]) > 0 => colaRec[r] # <<>>
  OBVIOUS
<1>9. CASE a = r /\ instancias[a] <= 0
  <2>1. Len(colaRec[r]) = 1 - instancias[r]
    BY <1>4, <1>6, <1>9
  <2>2. Len(colaRec'[r]) = Len(colaRec[r]) - 1
    BY <1>1, <1>3, <1>4, <1>7, <1>8, <1>9, <2>1
       DEF InvNegativas, InvRecursos, TypeOK, KernelTypeOK, ColasOK
  <2> QED BY <1>4, <1>5, <1>9, <2>1, <2>2
<1>10. CASE ~(a = r /\ instancias[a] <= 0)
  <2>1. colaRec'[r] = colaRec[r]
    BY <1>1, <1>3, <1>10 DEF InvNegativas, InvRecursos, TypeOK, KernelTypeOK, ColasOK
  <2> QED BY <1>3, <1>4, <1>5, <1>6, <1>10, <2>1
<1> QED BY <1>9, <1>10

\* No other step moves a process in the queue of a resource.
LEMMA ColaRecIgual ==
  ASSUME "FINALIZAR_PROCESO" \notin Comandos, SinFinalizar,
         \/ Nuevos \/ Consola \/ Despacha
         \/ FinDesaloja \/ FinDesalojaUsuario \/ FinContinua \/ PaqueteSinExec
         \/ PideDesconocido \/ PideIO \/ EnviaIO \/ MarcaBlock \/ PideExit \/ SaleEscucha
         \/ \E t \in Hilos : Replanifica(t) \/ Elige(t)
         \/ \E i \in Interfaces : FinIO(i)
  PROVE  colaRec' = colaRec
<1> USE DEF colasVars, Cae
<1>1. CASE Nuevos \/ Despacha
  BY <1>1 DEF Nuevos, EsperaNew, Admite, Despacha
<1>2. CASE Consola
  <2>1. ASSUME NEW p \in Pids
        PROVE  /\ ~FinalizaNew(p) /\ ~FinalizaReady(p) /\ ~FinalizaExec(p)
               /\ ~FinalizaIO(p) /\ ~FinalizaRecurso(p) /\ ~FinalizaPerdido(p)
    BY DEF FinalizaNew, FinalizaReady, FinalizaExec, FinalizaIO, FinalizaRecurso,
           FinalizaPerdido, Finaliza, Acepta, Lee
  <2>2. ~PideDesalojo /\ ~EsperaUsuario /\ ~SumaInstancia /\ ~SaleConsola
    BY DEF PideDesalojo, EsperaUsuario, SumaInstancia, SaleConsola, SinFinalizar
  <2> QED BY <1>2, <2>1, <2>2
          DEF Consola, IniciarProceso, IniciarPlanificacion, DetenerPlanificacion,
              Detiene, SubeGrado, BajaGrado, RestaGrado, ProcesoEstado, kernelVars
<1>3. CASE FinDesaloja \/ FinDesalojaUsuario \/ FinContinua \/ PaqueteSinExec
  BY <1>3 DEF FinDesaloja, FinDesalojaUsuario, FinContinua, PaqueteSinExec
<1>4. CASE PideDesconocido \/ PideIO \/ EnviaIO \/ MarcaBlock \/ PideExit \/ SaleEscucha
  BY <1>4 DEF PideDesconocido, PideIO, EnviaIO, MarcaBlock, PideExit, SaleEscucha, Sale
<1>5. CASE \E t \in Hilos : Replanifica(t) \/ Elige(t)
  BY <1>5 DEF Replanifica, Elige
<1>6. CASE \E i \in Interfaces : FinIO(i)
  BY <1>6 DEF FinIO
<1> QED BY <1>1, <1>2, <1>3, <1>4, <1>5, <1>6

\* Every step of the kernel keeps the account of the waiters.
LEMMA KernelEspera ==
  ASSUME "FINALIZAR_PROCESO" \notin Comandos, InvNegativas, KernelNext
  PROVE  NegativasEnCola'
<1> USE DEF InvNegativas
<1>1. CASE Nuevos
  BY <1>1, NuevosQuieto, ColaRecIgual, QuietoEspera
<1>2. CASE Consola
  BY <1>2, ConsolaQuieto, ColaRecIgual, QuietoEspera
<1>3. CASE Despacha \/ \E t \in Hilos : Replanifica(t) \/ Elige(t)
  BY <1>3, HiloQuieto, ColaRecIgual, QuietoEspera
<1>4. CASE \E i \in Interfaces : FinIO(i)
  BY <1>4, FinIOQuieto, ColaRecIgual, QuietoEspera
<1>5. CASE Cae
  <2>1. Quieto /\ colaRec' = colaRec
    BY <1>5 DEF Cae, hilosVars, colasVars, Quieto, InvRecursos, Sitios
  <2> QED BY <2>1, QuietoEspera
<1>6. CASE Escucha
  <2>1. CASE FinDesaloja \/ FinDesalojaUsuario \/ FinContinua \/ PaqueteSinExec
    BY <2>1, FinQuieto, ColaRecIgual, QuietoEspera
  <2>2. CASE PideDesconocido \/ PideIO \/ EnviaIO \/ MarcaBlock \/ PideExit \/ SaleEscucha
    BY <2>2, PedidoQuieto, ColaRecIgual, QuietoEspera
  <2>3. CASE PideWait \/ EvaluaWait
    BY <2>3, PideWaitEspera, EvaluaWaitEspera
  <2>4. CASE PideSignal
    <3>1. /\ Head(chCpu).arg \in Recursos /\ pc["escucha"] = "recibe" /\ colaRec' = colaRec
          /\ instancias' = [instancias EXCEPT ![Head(chCpu).arg] = @ + 1]
          /\ Sigue("escucha", "signalEvalua", Head(chCpu).pid, Head(chCpu).arg)
      BY <2>4 DEF PideSignal, Llega
    <3> QED BY <3>1, SumaEspera DEF Medio
  <2>5. CASE Signal
    <3>1. CASE ~Cae
      <4>1. /\ pc["escucha"] = "signalEvalua" /\ Vuelve("escucha")
            /\ EvaluaSignal(pidDe["escucha"], argDe["escucha"])
        BY <2>5, <3>1 DEF Signal
      <4>2. Sigue("escucha", "recibe", 0, Nada)
        BY <4>1 DEF Vuelve, Inicio
      <4> QED BY <4>1, <4>2, SignalEspera
    <3> QED BY <1>5, <3>1
  <2> QED BY <1>6, <2>1, <2>2, <2>3, <2>4, <2>5 DEF Escucha
<1>7. ASSUME NEW t \in Hilos, Libera(t)
      PROVE  NegativasEnCola'
  <2>1. PICK x \in DeProceso(pidDe[t]) :
          /\ instancias' = [instancias EXCEPT ![x.rec] = @ + 1]
          /\ Sigue(t, "liberaEvalua", pidDe[t], x.rec)
    BY <1>7 DEF Libera
  <2>2. x.rec \in Recursos
    BY DEF DeProceso, Retencion, InvRecursos, TypeOK, KernelTypeOK, RecursosOK
  <2>3. pc[t] = "libera" /\ colaRec' = colaRec
    BY <1>7 DEF Libera, colasVars
  <2>4. t = "escucha"
    BY <2>3 DEF SinFinalizar, Hilos
  <2> QED BY <2>1, <2>2, <2>3, <2>4, SumaEspera DEF Medio
<1>8. ASSUME NEW t \in Hilos, LiberaEvalua(t)
      PROVE  NegativasEnCola'
  <2>1. CASE ~Cae
    <3>1. /\ pc[t] = "liberaEvalua" /\ EvaluaSignal(pidDe[t], argDe[t])
          /\ Sigue(t, "libera", pidDe[t], Nada)
      BY <1>8, <2>1 DEF LiberaEvalua
    <3>2. t = "escucha"
      BY <3>1 DEF SinFinalizar, Hilos
    <3> QED BY <3>1, <3>2, SignalEspera
  <2> QED BY <1>5, <2>1
<1> QED BY <1>1, <1>2, <1>3, <1>4, <1>6, <1>7, <1>8 DEF KernelNext, Hilo

LEMMA EsperaInit == Init => InvNegativas
<1> SUFFICES ASSUME Init PROVE InvNegativas
  OBVIOUS
<1>1. InvRecursos /\ SinFinalizar
  BY RecursosInit, SemaforosInit DEF InvSemaforos
<1>2. /\ instancias = Instancias /\ pc["escucha"] = "recibe" /\ pc["consola"] = "lee"
      /\ colaRec = [r \in Recursos |-> <<>>]
  BY DEF Init, KernelInit, Inicio, Hilos
<1>3. ASSUME NEW r \in Recursos
      PROVE  Len(colaRec[r]) = 0 /\ instancias[r] >= 0
  BY <1>2, InstanciasAssumption
<1> QED BY <1>1, <1>2, <1>3, InstanciasAssumption DEF InvNegativas, NegativasEnCola, Saldadas, En

\* The whole account of the kernel: every part of it is inductive with the others.
InvColas == InvNegativas /\ InvSemaforos

LEMMA ColasNext ==
  ASSUME "FINALIZAR_PROCESO" \notin Comandos
  PROVE  InvColas /\ [Next]_vars => InvColas'
<1> SUFFICES ASSUME InvColas, [Next]_vars PROVE InvColas'
  OBVIOUS
<1>1. InvRecursos' /\ InvSemaforos'
  BY RecursosNext, SemaforosNext DEF InvColas, InvNegativas
<1>2. CASE KernelNext
  BY <1>1, <1>2, KernelEspera DEF InvColas, InvNegativas, InvSemaforos
<1>3. CASE UNCHANGED kernelVars
  <2>1. Quieto /\ colaRec' = colaRec
    BY <1>3 DEF kernelVars, hilosVars, colasVars, Quieto, InvColas, InvNegativas,
                InvRecursos, Sitios
  <2> QED BY <1>1, <2>1, QuietoEspera DEF InvColas, InvNegativas, InvSemaforos
<1> QED BY <1>2, <1>3 DEF Next, Interfaz, Caido, vars

\* A negative number of instances is the number of processes in the queue of the
\* resource, so that wait blocks and signal wakes up as they should, although both
\* read instancias_recurso again after the mutex was released.
THEOREM NegativasEnColaSiempre ==
  ASSUME "FINALIZAR_PROCESO" \notin Comandos
  PROVE  Spec => []NegativasEnCola
<1>1. Init => InvColas
  BY EsperaInit, SemaforosInit DEF InvColas
<1>2. InvColas /\ [Next]_vars => InvColas'
  BY ColasNext
<1>3. InvColas => NegativasEnCola
  BY DEF InvColas, InvNegativas
<1> QED BY <1>1, <1>2, <1>3, PTL DEF Spec
=============================================================================
