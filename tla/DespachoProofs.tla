--------------------------- MODULE DespachoProofs ---------------------------
(***************************************************************************)
(* The protocol of dispatch, FIN_INSTRUCCION and interruption between the  *)
(* kernel and the CPU under FIFO.  At any moment exactly one party has the *)
(* turn: a thread that chooses, the dispatcher, the connection, the CPU or *)
(* escucha, and what the others hold is determined by whose turn it is,    *)
(* save that the CPU may still be on its way out of the process it         *)
(* executed when the next one is already chosen and sent.  The invariant   *)
(* is that disjunction of turns.  FINALIZAR_PROCESO breaks the protocol    *)
(* (it empties cola_exec under the CPU), so the console is not given it;   *)
(* no script is excluded, errors and denied accesses included.             *)
(***************************************************************************)
EXTENDS SistemaProofs

\* A thread is choosing the next process.
Eligiendo(t) == pc[t] \in {"replanifica", "elige"}

\* escucha is attending to a packet.
Atiende == {"esperaPlani", "marcaBlock", "waitEvalua", "signalEvalua", "libera",
            "liberaEvalua"}

\* What the interrupt thread of the CPU has of the packets sent: nothing, or one
\* arrival, of the process it executes.
RecibidasOK ==
    \/ cpuPrimera /\ cpuLlego = 0
    \/ ~cpuPrimera /\ cpuLlego = 1 /\ cpuInt = cpuPid

SinInterrupcion == chInterrupt = <<>> /\ cpuPrimera /\ cpuLlego = 0

\* The CPU is on its way out of the process it executed, or free.
CpuSale ==
    \/ cpuFase = "libre" /\ SinInterrupcion
    \/ /\ cpuFase = "responde" /\ RecibidasOK
       /\ chInterrupt # <<>>
       /\ \A j \in 1..Len(chInterrupt) :
             IF j = Len(chInterrupt) THEN chInterrupt[j] = NoContinua
                                     ELSE chInterrupt[j] = Interrupcion(cpuPid)
       /\ cpuPrimera => Len(chInterrupt) > 1
    \/ /\ cpuFase = "interrumpe" /\ RecibidasOK /\ ~cpuPrimera
       /\ chInterrupt = <<>>

\* The pcbs have the context of the processes, that of e excepted.
ContextoMenos(e) == \A q \in Pids \ {e} : pcbPC[q] = ejecutadas[q]

\* The turns of the protocol.  No process has been chosen yet ...
Inicial ==
    /\ esPrimer /\ semEjecutar = 0 /\ chDispatch = <<>> /\ chCpu = <<>>
    /\ pc["escucha"] = "recibe"
    /\ cpuFase = "libre" /\ SinInterrupcion /\ ContextoMenos(0)

\* ... escucha is choosing the next one ...
Elegir ==
    /\ ~esPrimer /\ semEjecutar = 0 /\ chDispatch = <<>> /\ chCpu = <<>>
    /\ Eligiendo("escucha") /\ CpuSale /\ ContextoMenos(0)

\* ... it is chosen, to be dispatched ...
Elegido ==
    /\ ~esPrimer /\ semEjecutar = 1 /\ chDispatch = <<>> /\ chCpu = <<>>
    /\ \E p \in Pids : colaExec = <<p>>
    /\ pc["escucha"] = "recibe" /\ CpuSale /\ ContextoMenos(0)

\* ... dispatched, to be received ...
EnCamino ==
    /\ ~esPrimer /\ semEjecutar = 0 /\ chCpu = <<>> /\ ~desaloja
    /\ \E p \in Pids : colaExec = <<p>> /\ chDispatch = <<Pcb(p, pcbPC[p])>>
    /\ pc["escucha"] = "recibe" /\ CpuSale /\ ContextoMenos(0)

\* ... executing an instruction ...
Ejecutando ==
    /\ ~esPrimer /\ semEjecutar = 0 /\ chDispatch = <<>> /\ chCpu = <<>> /\ ~desaloja
    /\ pc["escucha"] = "recibe" /\ colaExec = <<cpuPid>>
    /\ cpuFase = "ejecuta" /\ SinInterrupcion
    /\ cpuPC = ejecutadas[cpuPid] /\ ContextoMenos(cpuPid)

\* ... its packets being attended to, FIN_INSTRUCCION the last ...
Respondiendo ==
    /\ ~esPrimer /\ semEjecutar = 0 /\ chDispatch = <<>> /\ chCpu # <<>>
    /\ colaExec = <<cpuPid>>
    /\ cpuFase = "responde" /\ RecibidasOK
    /\ cpuPC = ejecutadas[cpuPid] /\ ContextoMenos(cpuPid)
    /\ \A j \in 1..Len(chCpu) :
          /\ chCpu[j].pid = cpuPid /\ chCpu[j].pc = cpuPC
          /\ chCpu[j].motivo = "FIN" <=> j = Len(chCpu)
    /\ pc["escucha"] \in {"recibe"} \cup Atiende
    /\ pc["escucha"] # "recibe" => pidDe["escucha"] = cpuPid
    /\ pc["escucha"] # "recibe" \/ desaloja => pcbPC[cpuPid] = ejecutadas[cpuPid]
    /\ \A j \in 1..Len(chInterrupt) : chInterrupt[j] = Interrupcion(cpuPid)
    /\ ~desaloja => cpuPrimera /\ chInterrupt = <<>>
    /\ pc["escucha"] \in {"esperaPlani", "marcaBlock", "libera", "liberaEvalua"} => desaloja
    /\ desaloja /\ pc["escucha"] \in {"recibe", "waitEvalua", "signalEvalua"}
         => ~cpuPrimera \/ chInterrupt # <<>>

\* ... told to go on.
Siguiendo ==
    /\ ~esPrimer /\ semEjecutar = 0 /\ chDispatch = <<Continua>> /\ chCpu = <<>>
    /\ ~desaloja /\ pc["escucha"] = "recibe" /\ colaExec = <<cpuPid>>
    /\ cpuFase = "responde" /\ SinInterrupcion
    /\ cpuPC = ejecutadas[cpuPid] /\ ContextoMenos(cpuPid)

Turnos ==
    \/ Inicial \/ Elegir \/ Elegido \/ EnCamino \/ Ejecutando \/ Respondiendo \/ Siguiendo

\* Only nuevos, and only the first time, chooses besides escucha.
SoloUnaVez == ~desalojaUsuario /\ (Eligiendo("nuevos") => esPrimer)

InvDespacho == InvSemaforos /\ SoloUnaVez /\ Turnos

\* What a step has to preserve besides what the queues and semaphores need.
DespachoSig == SoloUnaVez' /\ Turnos'

----------------------------------------------------------------------------
(* Steps that are not of the protocol.                                     *)

\* What the turns are about, the places of the threads apart.
turnoVars == <<semEjecutar, chDispatch, chInterrupt, chCpu, cpuVars, colaExec, pcbPC,
               desaloja, esPrimer>>

QuietoDespacho ==
    /\ UNCHANGED turnoVars
    /\ pc'["escucha"] = pc["escucha"] /\ pidDe'["escucha"] = pidDe["escucha"]
    /\ SoloUnaVez'

\* Such a step leaves the turn where it was.
LEMMA QuietoTurno ==
  ASSUME InvDespacho, QuietoDespacho
  PROVE  DespachoSig
<1> USE DEF QuietoDespacho, turnoVars, cpuVars
<1>1. CpuSale' = CpuSale
  BY DEF CpuSale, RecibidasOK, SinInterrupcion
<1>2. \A e : ContextoMenos(e)' = ContextoMenos(e)
  BY DEF ContextoMenos
<1>3. SinInterrupcion' = SinInterrupcion /\ RecibidasOK' = RecibidasOK
  BY DEF SinInterrupcion, RecibidasOK
<1>4. Eligiendo("escucha")' = Eligiendo("escucha")
  BY DEF Eligiendo
<1>5. Inicial => Inicial'
  BY <1>2, <1>3 DEF Inicial
<1>6. (Elegir => Elegir') /\ (Elegido => Elegido')
  BY <1>1, <1>2, <1>4 DEF Elegir, Elegido
<1>7. EnCamino => EnCamino'
  BY <1>1, <1>2 DEF EnCamino
<1>8. Ejecutando => Ejecutando'
  BY <1>2, <1>3 DEF Ejecutando
<1>9. Respondiendo => Respondiendo'
  BY <1>2, <1>3 DEF Respondiendo
<1>10. Siguiendo => Siguiendo'
  BY <1>2, <1>3 DEF Siguiendo
<1> QED BY <1>5, <1>6, <1>7, <1>8, <1>9, <1>10 DEF InvDespacho, Turnos, DespachoSig

\* The fall of the kernel.
LEMMA CaeTurno ==
  ASSUME InvDespacho, Cae, UNCHANGED cpuVars
  PROVE  DespachoSig
<1>1. QuietoDespacho
  BY DEF Cae, QuietoDespacho, turnoVars, SoloUnaVez, Eligiendo, InvDespacho, hilosVars,
         colasVars, planVars, admVars, usrVars, procVars, canales
<1> QED BY <1>1, QuietoTurno

\* Whose turn it is, from what can be seen of it.
LEMMA DeQuienEsElTurno ==
  ASSUME InvDespacho
  PROVE  /\ chCpu # <<>> => Respondiendo
         /\ pc["escucha"] \in Atiende => Respondiendo
         /\ Eligiendo("escucha") => Elegir
         /\ Eligiendo("nuevos") => Inicial
         /\ semEjecutar > 0 => Elegido
         /\ cpuFase = "ejecuta" => Ejecutando
<1> USE DEF InvDespacho, Turnos
<1>1. chCpu # <<>> => Respondiendo
  BY DEF Inicial, Elegir, Elegido, EnCamino, Ejecutando, Siguiendo
<1>2. pc["escucha"] \in Atiende => Respondiendo
  BY DEF Inicial, Elegir, Elegido, EnCamino, Ejecutando, Siguiendo, Atiende, Eligiendo
<1>3. Eligiendo("escucha") => Elegir
  BY DEF Inicial, Respondiendo, Elegido, EnCamino, Ejecutando, Siguiendo, Atiende,
         Eligiendo
<1>4. Eligiendo("nuevos") => Inicial
  BY DEF SoloUnaVez, Elegir, Respondiendo, Elegido, EnCamino, Ejecutando, Siguiendo
<1>5. semEjecutar > 0 => Elegido
  BY DEF Inicial, Elegir, Respondiendo, EnCamino, Ejecutando, Siguiendo
<1>6. cpuFase = "ejecuta" => Ejecutando
  BY DEF Inicial, Elegir, Elegido, Respondiendo, EnCamino, Siguiendo, CpuSale
<1> QED BY <1>1, <1>2, <1>3, <1>4, <1>5, <1>6

----------------------------------------------------------------------------
(* The steps of escucha.                                                   *)

\* The types the proofs of the protocol keep using.
LEMMA TiposDespacho ==
  ASSUME InvDespacho
  PROVE  /\ pc \in [Hilos -> Puntos] /\ pidDe \in [Hilos -> Pids \cup {0}]
         /\ chInterrupt \in Seq(MensajesInterrupt) /\ chCpu \in Seq(MensajesCpu)
         /\ chDispatch \in Seq(MensajesDispatch)
         /\ colaExec \in Seq(Pids) /\ colaReady \in Seq(Pids)
         /\ pcbPC \in [Pids -> Nat] /\ ejecutadas \in [Pids -> Nat]
         /\ cpuFase # "libre" => cpuPid \in Pids
         /\ cpuLlego \in Nat /\ cpuPC \in Nat /\ semEjecutar \in Nat
         /\ cpuPid \in Pids \cup {0}
BY DEF InvDespacho, InvSemaforos, TypeOK, KernelTypeOK, CanalesTypeOK, CpuTypeOK, HilosOK,
       ColasOK, ProcesosOK, SemaforosOK

\* The head of a message sequence, and what is left.
LEMMA PrimerPaquete ==
  ASSUME InvDespacho, chCpu # <<>>
  PROVE  /\ Respondiendo
         /\ Head(chCpu) \in MensajesCpu /\ Head(chCpu) = chCpu[1]
         /\ Head(chCpu).pid = cpuPid /\ Head(chCpu).pc = cpuPC /\ cpuPid \in Pids
         /\ Head(chCpu).motivo = "FIN" <=> Len(chCpu) = 1
         /\ Len(Tail(chCpu)) = Len(chCpu) - 1
         /\ \A j \in 1..Len(Tail(chCpu)) : Tail(chCpu)[j] = chCpu[j + 1]
         /\ Len(chCpu) \in Nat \ {0}
         /\ Len(chCpu) = 1 \/ Tail(chCpu) # <<>>
<1>1. Respondiendo
  BY DeQuienEsElTurno
<1>2. chCpu \in Seq(MensajesCpu) /\ cpuPid \in Pids
  BY <1>1, TiposDespacho DEF Respondiendo
<1>3. /\ Head(chCpu) \in MensajesCpu /\ Head(chCpu) = chCpu[1]
      /\ Len(Tail(chCpu)) = Len(chCpu) - 1
      /\ \A j \in 1..Len(Tail(chCpu)) : Tail(chCpu)[j] = chCpu[j + 1]
      /\ Len(chCpu) \in Nat \ {0}
  BY <1>2, HeadTailProperties, EmptySeq
<1>4. 1 \in 1..Len(chCpu)
  BY <1>3
<1>5. /\ chCpu[1].pid = cpuPid /\ chCpu[1].pc = cpuPC
      /\ chCpu[1].motivo = "FIN" <=> 1 = Len(chCpu)
  BY <1>1, <1>4 DEF Respondiendo
<1>6. ASSUME Tail(chCpu) = <<>> PROVE Len(chCpu) = 1
  <2>1. Len(Tail(chCpu)) = 0
    BY <1>6, EmptySeq
  <2>2. Len(Tail(chCpu)) = Len(chCpu) - 1 /\ Len(chCpu) \in Nat
    BY <1>3
  <2> QED BY <2>1, <2>2
<1> QED BY <1>1, <1>2, <1>3, <1>5, <1>6

\* A packet that is not FIN_INSTRUCCION is loaded: the turn stays with escucha.
LEMMA CargaTurno ==
  ASSUME InvDespacho, Llega(Motivos \ {"FIN"}), CargaPcb(Head(chCpu)),
         NEW l \in Atiende, NEW a, Sigue("escucha", l, Head(chCpu).pid, a),
         desaloja' \in BOOLEAN, desaloja => desaloja',
         desaloja' # desaloja => l \in {"esperaPlani", "libera"},
         l \in {"esperaPlani", "marcaBlock", "libera", "liberaEvalua"} => desaloja',
         UNCHANGED <<semEjecutar, chDispatch, chInterrupt, cpuVars, esPrimer,
                     desalojaUsuario>>
  PROVE  DespachoSig
<1>1. chCpu # <<>> /\ Head(chCpu).motivo # "FIN" /\ pc["escucha"] = "recibe"
  BY DEF Llega
<1> DEFINE r == Tail(chCpu)
<1>2. /\ Respondiendo /\ cpuPid \in Pids /\ Head(chCpu).pid = cpuPid
      /\ Head(chCpu).pc = cpuPC /\ Len(chCpu) \in Nat \ {0, 1}
      /\ Len(r) = Len(chCpu) - 1
      /\ \A j \in 1..Len(r) : r[j] = chCpu[j + 1]
  BY <1>1, PrimerPaquete
<1>3. /\ colaExec' = <<cpuPid>> /\ chCpu' = r
      /\ pcbPC' = [pcbPC EXCEPT ![cpuPid] = cpuPC]
  BY <1>2 DEF CargaPcb
<1>4. /\ pc'["escucha"] = l /\ pidDe'["escucha"] = cpuPid
      /\ pc'["nuevos"] = pc["nuevos"] /\ l # "recibe"
  BY <1>2, TiposDespacho DEF Sigue, Hilos, Atiende
<1>5. r # <<>>
  BY <1>1, <1>2, PrimerPaquete
<1>6. ASSUME NEW j \in 1..Len(r)
      PROVE  /\ r[j].pid = cpuPid /\ r[j].pc = cpuPC
             /\ r[j].motivo = "FIN" <=> j = Len(r)
  <2>1. j + 1 \in 1..Len(chCpu) /\ r[j] = chCpu[j + 1]
    BY <1>2
  <2>2. /\ chCpu[j + 1].pid = cpuPid /\ chCpu[j + 1].pc = cpuPC
        /\ chCpu[j + 1].motivo = "FIN" <=> j + 1 = Len(chCpu)
    BY <1>2, <2>1 DEF Respondiendo
  <2>3. j + 1 = Len(chCpu) <=> j = Len(r)
    BY <1>2
  <2> QED BY <2>1, <2>2, <2>3
<1>7. ContextoMenos(cpuPid)' /\ pcbPC'[cpuPid] = ejecutadas[cpuPid]
  BY <1>2, <1>3, TiposDespacho DEF Respondiendo, ContextoMenos, cpuVars
<1>8. RecibidasOK'
  BY <1>2 DEF Respondiendo, RecibidasOK, cpuVars
<1>9. Respondiendo'
  <2>1. /\ l \in {"recibe"} \cup Atiende
        /\ l \in {"esperaPlani", "marcaBlock", "libera", "liberaEvalua"} => desaloja'
        /\ desaloja' /\ l \in {"recibe", "waitEvalua", "signalEvalua"}
             => ~cpuPrimera \/ chInterrupt # <<>>
    BY <1>1, <1>2, <1>4 DEF Respondiendo
  <2>2. /\ \A j \in 1..Len(chInterrupt) : chInterrupt[j] = Interrupcion(cpuPid)
        /\ ~desaloja' => cpuPrimera /\ chInterrupt = <<>>
    BY <1>2 DEF Respondiendo
  <2> QED BY <1>2, <1>3, <1>4, <1>5, <1>6, <1>7, <1>8, <2>1, <2>2
            DEF Respondiendo, cpuVars
<1>10. SoloUnaVez'
  BY <1>4 DEF InvDespacho, SoloUnaVez, Eligiendo
<1> QED BY <1>9, <1>10 DEF DespachoSig, Turnos

\* The last packet: escucha sends the CPU away and chooses the next process ...
LEMMA FinDesalojaTurno ==
  ASSUME InvDespacho, FinDesaloja, UNCHANGED cpuVars
  PROVE  DespachoSig
<1>1. /\ chCpu # <<>> /\ Head(chCpu).motivo = "FIN" /\ pc["escucha"] = "recibe"
      /\ desaloja /\ chCpu' = Tail(chCpu)
      /\ chInterrupt' = Append(chInterrupt, NoContinua)
      /\ Sigue("escucha", "replanifica", 0, Nada)
      /\ UNCHANGED <<semEjecutar, esPrimer, desalojaUsuario, colaExec, pcbPC, desaloja,
                     chDispatch>>
  BY DEF FinDesaloja, Llega, colasVars, planVars, admVars, usrVars, procVars
<1>2. /\ Respondiendo /\ cpuPid \in Pids /\ Len(chCpu) = 1 /\ Len(Tail(chCpu)) = 0
  BY <1>1, PrimerPaquete
<1>3. chCpu' = <<>>
  BY <1>1, <1>2, TiposDespacho, HeadTailProperties, EmptySeq
<1>4. Eligiendo("escucha")' /\ pc'["nuevos"] = pc["nuevos"]
  BY <1>1, TiposDespacho DEF Sigue, Hilos, Eligiendo
<1>5. ContextoMenos(0)'
  BY <1>1, <1>2 DEF Respondiendo, ContextoMenos, cpuVars
<1>6. CpuSale'
  <2>1. NoContinua \in MensajesInterrupt /\ chInterrupt \in Seq(MensajesInterrupt)
    BY TiposDespacho DEF MensajesInterrupt
  <2>2. /\ Len(chInterrupt') = Len(chInterrupt) + 1 /\ chInterrupt' # <<>>
        /\ \A j \in 1..Len(chInterrupt) : chInterrupt'[j] = chInterrupt[j]
        /\ chInterrupt'[Len(chInterrupt) + 1] = NoContinua
        /\ Len(chInterrupt) \in Nat
    BY <1>1, <2>1, AppendProperties, LenProperties
  <2>3. \A j \in 1..Len(chInterrupt') :
           IF j = Len(chInterrupt') THEN chInterrupt'[j] = NoContinua
                                    ELSE chInterrupt'[j] = Interrupcion(cpuPid)
    BY <1>2, <2>2 DEF Respondiendo
  <2>4. cpuPrimera => Len(chInterrupt) > 0
    BY <1>1, <1>2, <2>1, EmptySeq DEF Respondiendo
  <2>5. cpuFase' = "responde" /\ RecibidasOK'
    BY <1>2 DEF Respondiendo, RecibidasOK, cpuVars
  <2>6. cpuPrimera' => Len(chInterrupt') > 1
    BY <2>2, <2>4 DEF cpuVars
  <2> QED BY <2>2, <2>3, <2>5, <2>6 DEF CpuSale, cpuVars
<1>7. Elegir'
  BY <1>1, <1>2, <1>3, <1>4, <1>5, <1>6 DEF Elegir, Respondiendo
<1>8. SoloUnaVez'
  BY <1>1, <1>4 DEF InvDespacho, SoloUnaVez, Eligiendo
<1> QED BY <1>7, <1>8 DEF DespachoSig, Turnos

\* ... or tells it to go on.
LEMMA FinContinuaTurno ==
  ASSUME InvDespacho, FinContinua, UNCHANGED cpuVars
  PROVE  DespachoSig
<1>1. /\ chCpu # <<>> /\ Head(chCpu).motivo = "FIN" /\ pc["escucha"] = "recibe"
      /\ ~desaloja /\ chCpu' = Tail(chCpu)
      /\ chDispatch' = Append(chDispatch, Continua)
      /\ UNCHANGED <<pc, semEjecutar, esPrimer, desalojaUsuario, colaExec, pcbPC, desaloja,
                     chInterrupt>>
  BY DEF FinContinua, Llega, hilosVars, colasVars, planVars, admVars, usrVars, procVars
<1>2. /\ Respondiendo /\ cpuPid \in Pids /\ Len(chCpu) = 1 /\ Len(Tail(chCpu)) = 0
  BY <1>1, PrimerPaquete
<1>3. chCpu' = <<>>
  BY <1>1, <1>2, TiposDespacho, HeadTailProperties, EmptySeq
<1>4. chDispatch' = <<Continua>>
  BY <1>1, <1>2 DEF Respondiendo
<1>5. ContextoMenos(cpuPid)'
  BY <1>1, <1>2 DEF Respondiendo, ContextoMenos, cpuVars
<1>6. SinInterrupcion'
  BY <1>1, <1>2 DEF Respondiendo, RecibidasOK, SinInterrupcion, cpuVars
<1>7. Siguiendo'
  BY <1>1, <1>2, <1>3, <1>4, <1>5, <1>6 DEF Siguiendo, Respondiendo, cpuVars
<1>8. SoloUnaVez'
  BY <1>1 DEF InvDespacho, SoloUnaVez, Eligiendo
<1> QED BY <1>7, <1>8 DEF DespachoSig, Turnos

\* escucha goes on with a packet: nothing the CPU sees changes.
LEMMA AtiendeTurno ==
  ASSUME InvDespacho, pc["escucha"] \in Atiende, UNCHANGED turnoVars,
         NEW l \in {"recibe"} \cup Atiende, pc'["escucha"] = l,
         l # "recibe" => pidDe'["escucha"] = pidDe["escucha"],
         l = "recibe" => pc["escucha"] \in {"waitEvalua", "signalEvalua"},
         l \in {"waitEvalua", "signalEvalua"} => pc["escucha"] = l,
         l \in {"esperaPlani", "marcaBlock", "libera", "liberaEvalua"}
           => pc["escucha"] \in {"esperaPlani", "marcaBlock", "libera", "liberaEvalua"},
         SoloUnaVez'
  PROVE  DespachoSig
<1>1. Respondiendo /\ pc["escucha"] # "recibe"
  BY DeQuienEsElTurno DEF Atiende
<1>2. ContextoMenos(cpuPid)' /\ RecibidasOK'
  BY <1>1 DEF Respondiendo, ContextoMenos, RecibidasOK, turnoVars, cpuVars
<1>3. Respondiendo'
  BY <1>1, <1>2 DEF Respondiendo, turnoVars, cpuVars
<1> QED BY <1>3 DEF DespachoSig, Turnos

\* escucha sends the interruption and has done with the packet.
LEMMA InterrumpeTurno ==
  ASSUME InvDespacho, pc["escucha"] \in Atiende, desaloja',
         chInterrupt' = Append(chInterrupt, Interrupcion(pidDe["escucha"])),
         pc'["escucha"] = "recibe", SoloUnaVez',
         UNCHANGED <<semEjecutar, chDispatch, chCpu, cpuVars, colaExec, pcbPC, esPrimer>>
  PROVE  DespachoSig
<1>1. Respondiendo /\ pidDe["escucha"] = cpuPid /\ cpuPid \in Pids
      /\ pcbPC[cpuPid] = ejecutadas[cpuPid]
  <2>1. Respondiendo /\ pc["escucha"] # "recibe"
    BY DeQuienEsElTurno DEF Atiende
  <2> QED BY <2>1, TiposDespacho DEF Respondiendo
<1>2. Interrupcion(cpuPid) \in MensajesInterrupt /\ chInterrupt \in Seq(MensajesInterrupt)
  BY <1>1, TiposDespacho DEF MensajesInterrupt, Interrupcion
<1>3. /\ Len(chInterrupt') = Len(chInterrupt) + 1 /\ chInterrupt' # <<>>
      /\ \A j \in 1..Len(chInterrupt) : chInterrupt'[j] = chInterrupt[j]
      /\ chInterrupt'[Len(chInterrupt) + 1] = Interrupcion(cpuPid)
      /\ Len(chInterrupt) \in Nat
  BY <1>1, <1>2, AppendProperties, LenProperties
<1>4. \A j \in 1..Len(chInterrupt') : chInterrupt'[j] = Interrupcion(cpuPid)
  BY <1>1, <1>3 DEF Respondiendo
<1>5. ContextoMenos(cpuPid)' /\ RecibidasOK'
  BY <1>1 DEF Respondiendo, ContextoMenos, RecibidasOK, cpuVars
<1>6. Respondiendo'
  BY <1>1, <1>3, <1>4, <1>5 DEF Respondiendo, cpuVars
<1> QED BY <1>6 DEF DespachoSig, Turnos

----------------------------------------------------------------------------
(* The steps that choose and dispatch.                                     *)

\* Only escucha and, once, nuevos choose.
LEMMA Eligen ==
  ASSUME InvDespacho, NEW t \in Hilos, Eligiendo(t)
  PROVE  \/ t = "escucha" /\ Elegir /\ ~Eligiendo("nuevos")
         \/ t = "nuevos" /\ Inicial
<1>1. t # "consola"
  BY DEF InvDespacho, InvSemaforos, SinFinalizar, Eligiendo
<1>2. t = "escucha" \/ t = "nuevos"
  BY <1>1 DEF Hilos
<1>3. CASE t = "escucha"
  BY <1>3, DeQuienEsElTurno DEF Elegir, Inicial
<1>4. CASE t = "nuevos"
  BY <1>4, DeQuienEsElTurno
<1> QED BY <1>2, <1>3, <1>4

\* A thread takes the token of the scheduler.
LEMMA ReplanificaTurno ==
  ASSUME InvDespacho, NEW t \in Hilos, Replanifica(t), UNCHANGED cpuVars
  PROVE  DespachoSig
<1>1. /\ pc[t] = "replanifica" /\ pc' = [pc EXCEPT ![t] = "elige"]
      /\ pidDe' = [pidDe EXCEPT ![t] = 0] /\ UNCHANGED turnoVars
      /\ UNCHANGED desalojaUsuario
  BY DEF Replanifica, Sigue, turnoVars, colasVars, admVars, usrVars, procVars, canales
<1>2. Eligiendo(t)
  BY <1>1 DEF Eligiendo
<1>3. CASE t = "escucha"
  <2>1. Elegir /\ ~Eligiendo("nuevos")
    BY <1>2, <1>3, Eligen
  <2>2. Eligiendo("escucha")' /\ ~Eligiendo("nuevos")'
    BY <1>1, <1>3, <2>1, TiposDespacho DEF Eligiendo, Hilos
  <2>3. CpuSale' /\ ContextoMenos(0)'
    BY <1>1, <2>1 DEF Elegir, CpuSale, RecibidasOK, SinInterrupcion, ContextoMenos,
                      turnoVars, cpuVars
  <2>4. Elegir' /\ SoloUnaVez'
    BY <1>1, <2>1, <2>2, <2>3 DEF Elegir, SoloUnaVez, InvDespacho, turnoVars
  <2> QED BY <2>4 DEF DespachoSig, Turnos
<1>4. CASE t = "nuevos"
  <2>1. QuietoDespacho
    BY <1>1, <1>2, <1>4, TiposDespacho
       DEF QuietoDespacho, InvDespacho, SoloUnaVez, Eligiendo, turnoVars, Hilos
  <2> QED BY <2>1, QuietoTurno
<1> QED BY <1>2, <1>3, <1>4, Eligen

\* The next process is chosen.
LEMMA EligeTurno ==
  ASSUME InvDespacho, NEW t \in Hilos, Elige(t), UNCHANGED cpuVars
  PROVE  DespachoSig
<1>1. CASE Cae
  BY <1>1, CaeTurno
<1>2. CASE ~Cae
  <2>1. /\ colaReady # <<>> /\ colaExec' = <<Head(colaReady)>>
        /\ semEjecutar' = semEjecutar + 1 /\ esPrimer' = SiguePrimero(t)
        /\ pc' = [pc EXCEPT ![t] = Inicio(t)]
        /\ UNCHANGED <<chDispatch, chInterrupt, chCpu, pcbPC, desalojaUsuario>>
    BY <1>2 DEF Elige, Vuelve, Sigue, usrVars, canales
  <2>2. Eligiendo(t)
    BY DEF Elige, Eligiendo
  <2>3. Head(colaReady) \in Pids
    BY <2>1, TiposDespacho, HeadTailProperties
  <2>4. /\ semEjecutar = 0 /\ chDispatch = <<>> /\ chCpu = <<>>
        /\ CpuSale /\ ContextoMenos(0)
    BY <2>2, Eligen DEF Elegir, Inicial, CpuSale
  <2>5. ~esPrimer' /\ pc'["escucha"] = "recibe"
    BY <2>1, <2>2, Eligen, TiposDespacho DEF Elegir, Inicial, SiguePrimero, Inicio, Hilos
  <2>6. ~Eligiendo("nuevos")'
    BY <2>1, <2>2, Eligen, TiposDespacho DEF Eligiendo, Inicio, Hilos
  <2>7. CpuSale' /\ ContextoMenos(0)'
    BY <2>1, <2>4 DEF CpuSale, RecibidasOK, SinInterrupcion, ContextoMenos, cpuVars
  <2>8. Elegido'
    BY <2>1, <2>3, <2>4, <2>5, <2>7 DEF Elegido
  <2>9. SoloUnaVez'
    BY <2>1, <2>6 DEF SoloUnaVez, InvDespacho
  <2> QED BY <2>8, <2>9 DEF DespachoSig, Turnos
<1> QED BY <1>1, <1>2

\* The pcb goes to the CPU.
LEMMA DespachaTurno ==
  ASSUME InvDespacho, Despacha, UNCHANGED cpuVars
  PROVE  DespachoSig
<1>1. CASE Cae
  BY <1>1, CaeTurno
<1>2. CASE ~Cae
  <2>1. /\ semEjecutar > 0 /\ semEjecutar' = semEjecutar - 1 /\ desaloja' = FALSE
        /\ chDispatch' = Append(chDispatch, Pcb(Head(colaExec), pcbPC[Head(colaExec)]))
        /\ UNCHANGED <<pc, colaExec, esPrimer, pcbPC, chInterrupt, chCpu,
                       desalojaUsuario>>
    BY <1>2 DEF Despacha, hilosVars, colasVars, admVars, usrVars, procVars
  <2>2. Elegido
    BY <2>1, DeQuienEsElTurno
  <2>3. PICK p \in Pids : colaExec = <<p>>
    BY <2>2 DEF Elegido
  <2>4. colaExec' = <<p>> /\ chDispatch' = <<Pcb(p, pcbPC'[p])>>
    BY <2>1, <2>2, <2>3 DEF Elegido
  <2>5. CpuSale' /\ ContextoMenos(0)'
    BY <2>1, <2>2 DEF Elegido, CpuSale, RecibidasOK, SinInterrupcion, ContextoMenos, cpuVars
  <2>6. EnCamino'
    BY <2>1, <2>2, <2>4, <2>5 DEF Elegido, EnCamino
  <2>7. SoloUnaVez'
    BY <2>1 DEF SoloUnaVez, InvDespacho, Eligiendo
  <2> QED BY <2>6, <2>7 DEF DespachoSig, Turnos
<1> QED BY <1>1, <1>2

----------------------------------------------------------------------------
(* The packets.                                                            *)

\* IO_*, and EXIT, OUT_OF_MEMORY and DENIED_ACCESS, evict the process ...
LEMMA PideDesalojaTurno ==
  ASSUME InvDespacho, PideIO \/ PideExit \/ PideDesconocido, UNCHANGED cpuVars
  PROVE  DespachoSig
<1>1. CASE PideIO
  <2>1. /\ Llega(Motivos \ {"FIN"}) /\ CargaPcb(Head(chCpu)) /\ desaloja'
        /\ Sigue("escucha", "esperaPlani", Head(chCpu).pid, Head(chCpu).arg)
        /\ UNCHANGED <<semEjecutar, chDispatch, chInterrupt, esPrimer, desalojaUsuario>>
    BY <1>1 DEF PideIO, Llega, Motivos, planVars, admVars, usrVars
  <2>2. desaloja' \in BOOLEAN /\ "esperaPlani" \in Atiende
    BY <1>1 DEF PideIO, Atiende
  <2> QED BY <2>1, <2>2, CargaTurno
<1>2. CASE PideExit \/ (PideDesconocido /\ ~Cae)
  <2>1. /\ Llega(Motivos \ {"FIN"}) /\ CargaPcb(Head(chCpu)) /\ desaloja'
        /\ Sigue("escucha", "libera", Head(chCpu).pid, Nada)
        /\ UNCHANGED <<semEjecutar, chDispatch, chInterrupt, esPrimer, desalojaUsuario>>
    BY <1>2 DEF PideExit, PideDesconocido, Llega, Motivos, planVars, admVars, usrVars
  <2>2. desaloja' \in BOOLEAN /\ "libera" \in Atiende
    BY <1>2 DEF PideExit, PideDesconocido, Atiende
  <2> QED BY <2>1, <2>2, CargaTurno
<1>3. CASE Cae
  BY <1>3, CaeTurno
<1> QED BY <1>1, <1>2, <1>3

\* ... WAIT and SIGNAL not yet.
LEMMA PideRecursoTurno ==
  ASSUME InvDespacho, PideWait \/ PideSignal, UNCHANGED cpuVars
  PROVE  DespachoSig
<1>1. CASE PideWait
  <2>1. /\ Llega(Motivos \ {"FIN"}) /\ CargaPcb(Head(chCpu)) /\ desaloja' = desaloja
        /\ Sigue("escucha", "waitEvalua", Head(chCpu).pid, Head(chCpu).arg)
        /\ UNCHANGED <<semEjecutar, chDispatch, chInterrupt, esPrimer, desalojaUsuario>>
    BY <1>1 DEF PideWait, Llega, Motivos, planVars, admVars, usrVars
  <2>2. desaloja' \in BOOLEAN /\ "waitEvalua" \in Atiende
    BY <2>1 DEF Atiende, InvDespacho, InvSemaforos, TypeOK, KernelTypeOK, BanderasOK
  <2> QED BY <2>1, <2>2, CargaTurno
<1>2. CASE PideSignal
  <2>1. /\ Llega(Motivos \ {"FIN"}) /\ CargaPcb(Head(chCpu)) /\ desaloja' = desaloja
        /\ Sigue("escucha", "signalEvalua", Head(chCpu).pid, Head(chCpu).arg)
        /\ UNCHANGED <<semEjecutar, chDispatch, chInterrupt, esPrimer, desalojaUsuario>>
    BY <1>2 DEF PideSignal, Llega, Motivos, planVars, admVars, usrVars
  <2>2. desaloja' \in BOOLEAN /\ "signalEvalua" \in Atiende
    BY <2>1 DEF Atiende, InvDespacho, InvSemaforos, TypeOK, KernelTypeOK, BanderasOK
  <2> QED BY <2>1, <2>2, CargaTurno
<1> QED BY <1>1, <1>2

\* The request goes to the interface, and then the interruption to the CPU.
LEMMA BloqueaIOTurno ==
  ASSUME InvDespacho, EnviaIO \/ MarcaBlock, UNCHANGED cpuVars
  PROVE  DespachoSig
<1> USE DEF Sigue, Vuelve, Inicio, colasVars, planVars, admVars, usrVars, procVars, Hilos
<1>1. CASE EnviaIO
  <2>1. /\ pc["escucha"] = "esperaPlani" /\ pc'["escucha"] = "marcaBlock"
        /\ pidDe'["escucha"] = pidDe["escucha"] /\ pc'["nuevos"] = pc["nuevos"]
        /\ UNCHANGED turnoVars /\ UNCHANGED desalojaUsuario
    BY <1>1, TiposDespacho DEF EnviaIO, turnoVars
  <2>2. SoloUnaVez'
    BY <2>1 DEF InvDespacho, SoloUnaVez, Eligiendo, turnoVars
  <2> QED BY <2>1, <2>2, AtiendeTurno DEF Atiende
<1>2. CASE MarcaBlock
  <2>1. /\ pc["escucha"] = "marcaBlock" /\ pc'["escucha"] = "recibe"
        /\ pc'["nuevos"] = pc["nuevos"]
        /\ chInterrupt' = Append(chInterrupt, Interrupcion(pidDe["escucha"]))
        /\ UNCHANGED <<semEjecutar, chDispatch, chCpu, colaExec, pcbPC, esPrimer,
                       desaloja, desalojaUsuario>>
    BY <1>2, TiposDespacho DEF MarcaBlock
  <2>2. SoloUnaVez'
    BY <2>1 DEF InvDespacho, SoloUnaVez, Eligiendo
  <2>3. desaloja'
    BY <2>1, DeQuienEsElTurno DEF Respondiendo, Atiende
  <2> QED BY <2>1, <2>2, <2>3, InterrumpeTurno DEF Atiende
<1> QED BY <1>1, <1>2

\* The rest of wait: the process blocks, or goes on.
LEMMA EvaluaWaitTurno ==
  ASSUME InvDespacho, EvaluaWait, UNCHANGED cpuVars
  PROVE  DespachoSig
<1>1. /\ pc["escucha"] = "waitEvalua" /\ pc'["escucha"] = "recibe"
      /\ pc'["nuevos"] = pc["nuevos"]
      /\ UNCHANGED <<semEjecutar, chDispatch, chCpu, colaExec, pcbPC, esPrimer,
                     desalojaUsuario>>
  BY TiposDespacho DEF EvaluaWait, Vuelve, Sigue, Inicio, planVars, admVars, usrVars, Hilos
<1>2. SoloUnaVez'
  BY <1>1 DEF InvDespacho, SoloUnaVez, Eligiendo
<1>3. CASE /\ desaloja' = TRUE
           /\ chInterrupt' = Append(chInterrupt, Interrupcion(pidDe["escucha"]))
  BY <1>1, <1>2, <1>3, InterrumpeTurno DEF Atiende
<1>4. CASE UNCHANGED <<desaloja, chInterrupt>>
  <2>1. UNCHANGED turnoVars
    BY <1>1, <1>4 DEF turnoVars
  <2> QED BY <1>1, <1>2, <2>1, AtiendeTurno DEF Atiende
<1> QED BY <1>3, <1>4 DEF EvaluaWait

\* The rest of signal, and the signals of exit_prima.
LEMMA SignalTurno ==
  ASSUME InvDespacho, Signal \/ Libera("escucha") \/ LiberaEvalua("escucha"),
         UNCHANGED cpuVars
  PROVE  DespachoSig
<1> USE DEF Sigue, Vuelve, Inicio, colasVars, planVars, admVars, usrVars, procVars, Hilos,
            canales
<1>1. CASE Cae
  BY <1>1, CaeTurno
<1>2. CASE Signal /\ ~Cae
  <2>1. /\ pc["escucha"] = "signalEvalua" /\ pc'["escucha"] = "recibe"
        /\ pc'["nuevos"] = pc["nuevos"]
        /\ UNCHANGED turnoVars /\ UNCHANGED desalojaUsuario
    BY <1>2, TiposDespacho DEF Signal, EvaluaSignal, turnoVars
  <2>2. SoloUnaVez'
    BY <2>1 DEF InvDespacho, SoloUnaVez, Eligiendo, turnoVars
  <2> QED BY <2>1, <2>2, AtiendeTurno DEF Atiende
<1>3. CASE Libera("escucha")
  <2>1. /\ pc["escucha"] = "libera" /\ pc'["escucha"] = "liberaEvalua"
        /\ pidDe'["escucha"] = pidDe["escucha"] /\ pc'["nuevos"] = pc["nuevos"]
        /\ UNCHANGED turnoVars /\ UNCHANGED desalojaUsuario
    BY <1>3, TiposDespacho DEF Libera, turnoVars
  <2>2. SoloUnaVez'
    BY <2>1 DEF InvDespacho, SoloUnaVez, Eligiendo, turnoVars
  <2> QED BY <2>1, <2>2, AtiendeTurno DEF Atiende
<1>4. CASE LiberaEvalua("escucha") /\ ~Cae
  <2>1. /\ pc["escucha"] = "liberaEvalua" /\ pc'["escucha"] = "libera"
        /\ pidDe'["escucha"] = pidDe["escucha"] /\ pc'["nuevos"] = pc["nuevos"]
        /\ UNCHANGED turnoVars /\ UNCHANGED desalojaUsuario
    BY <1>4, TiposDespacho DEF LiberaEvalua, EvaluaSignal, turnoVars
  <2>2. SoloUnaVez'
    BY <2>1 DEF InvDespacho, SoloUnaVez, Eligiendo, turnoVars
  <2> QED BY <2>1, <2>2, AtiendeTurno DEF Atiende
<1> QED BY <1>1, <1>2, <1>3, <1>4

\* The process has left: its interruption is sent.
LEMMA SaleTurno ==
  ASSUME InvDespacho, SaleEscucha, UNCHANGED cpuVars
  PROVE  DespachoSig
<1>1. /\ pc["escucha"] = "libera" /\ pc'["escucha"] = "recibe"
      /\ pc'["nuevos"] = pc["nuevos"]
      /\ chInterrupt' = Append(chInterrupt, Interrupcion(pidDe["escucha"]))
      /\ UNCHANGED <<semEjecutar, chDispatch, chCpu, colaExec, pcbPC, esPrimer,
                     desaloja, desalojaUsuario>>
  BY TiposDespacho DEF SaleEscucha, Sale, Vuelve, Sigue, Inicio, planVars, usrVars, Hilos
<1>2. SoloUnaVez'
  BY <1>1 DEF InvDespacho, SoloUnaVez, Eligiendo
<1>3. desaloja'
  BY <1>1, DeQuienEsElTurno DEF Respondiendo, Atiende
<1> QED BY <1>1, <1>2, <1>3, InterrumpeTurno DEF Atiende

\* Every step of escucha.  No one asks for the eviction on behalf of the user.
LEMMA EscuchaTurno ==
  ASSUME InvDespacho, Escucha, UNCHANGED cpuVars
  PROVE  DespachoSig
<1>1. ~FinDesalojaUsuario
  BY DEF FinDesalojaUsuario, InvDespacho, SoloUnaVez
<1>2. PaqueteSinExec => Cae
  BY DEF PaqueteSinExec
<1> QED BY <1>1, <1>2, CaeTurno, FinDesalojaTurno, FinContinuaTurno, PideDesalojaTurno,
           PideRecursoTurno, BloqueaIOTurno, EvaluaWaitTurno, SignalTurno, SaleTurno
        DEF Escucha

----------------------------------------------------------------------------
(* The other threads of the kernel.                                        *)

\* The long-term scheduler.
LEMMA NuevosTurno ==
  ASSUME InvDespacho, Nuevos, UNCHANGED cpuVars
  PROVE  DespachoSig
<1> USE DEF Sigue, Vuelve, Inicio, colasVars, planVars, admVars, usrVars, procVars, Hilos,
            canales, turnoVars, SoloUnaVez, Eligiendo, QuietoDespacho
<1>1. CASE Cae
  BY <1>1, CaeTurno
<1>2. CASE EsperaNew
  <2>1. QuietoDespacho
    BY <1>2, TiposDespacho DEF EsperaNew, InvDespacho
  <2> QED BY <2>1, QuietoTurno
<1>3. CASE Admite /\ ~Cae
  <2>1. /\ pc'["escucha"] = pc["escucha"] /\ pidDe'["escucha"] = pidDe["escucha"]
        /\ pc'["nuevos"] \in {"esperaNew"} \/ esPrimer
        /\ UNCHANGED turnoVars /\ UNCHANGED desalojaUsuario
    BY <1>3, TiposDespacho DEF Admite
  <2>2. QuietoDespacho
    BY <2>1 DEF InvDespacho
  <2> QED BY <2>2, QuietoTurno
<1> QED BY <1>1, <1>2, <1>3 DEF Nuevos

\* The console, which is not given FINALIZAR_PROCESO.
LEMMA ConsolaTurno ==
  ASSUME "FINALIZAR_PROCESO" \notin Comandos, InvDespacho, Consola, UNCHANGED cpuVars
  PROVE  DespachoSig
<1> USE DEF Sigue, Vuelve, Inicio, hilosVars, colasVars, planVars, admVars, usrVars,
            procVars, Hilos, canales, turnoVars, SoloUnaVez, Eligiendo, QuietoDespacho,
            InvDespacho
<1> SUFFICES QuietoDespacho
  BY QuietoTurno
<1>1. CASE \E s \in Scripts : IniciarProceso(s)
  BY <1>1 DEF IniciarProceso
<1>2. CASE IniciarPlanificacion
  BY <1>2 DEF IniciarPlanificacion
<1>3. CASE DetenerPlanificacion
  BY <1>3, TiposDespacho DEF DetenerPlanificacion
<1>4. CASE Detiene
  BY <1>4, TiposDespacho DEF Detiene
<1>5. CASE \E n \in Grados : SubeGrado(n)
  BY <1>5 DEF SubeGrado
<1>6. CASE \E n \in Grados : BajaGrado(n)
  BY <1>6, TiposDespacho DEF BajaGrado
<1>7. CASE RestaGrado
  BY <1>7, TiposDespacho DEF RestaGrado
<1>8. CASE ProcesoEstado
  BY <1>8 DEF ProcesoEstado, kernelVars
<1>9. ~PideDesalojo /\ ~EsperaUsuario /\ ~SumaInstancia /\ ~SaleConsola
  BY DEF PideDesalojo, EsperaUsuario, SumaInstancia, SaleConsola, InvSemaforos,
         SinFinalizar
<1>10. ASSUME NEW p \in Pids
       PROVE  /\ ~FinalizaNew(p) /\ ~FinalizaReady(p) /\ ~FinalizaExec(p)
              /\ ~FinalizaIO(p) /\ ~FinalizaRecurso(p) /\ ~FinalizaPerdido(p)
  BY DEF FinalizaNew, FinalizaReady, FinalizaExec, FinalizaIO, FinalizaRecurso,
         FinalizaPerdido, Finaliza, Acepta, Lee
<1> QED BY <1>1, <1>2, <1>3, <1>4, <1>5, <1>6, <1>7, <1>8, <1>9, <1>10 DEF Consola

\* The scheduling and the releases, from whichever thread.
LEMMA HiloTurno ==
  ASSUME InvDespacho, NEW t \in Hilos, Hilo(t), UNCHANGED cpuVars
  PROVE  DespachoSig
<1>1. CASE Replanifica(t) \/ Elige(t)
  BY <1>1, ReplanificaTurno, EligeTurno
<1>2. CASE Libera(t) \/ LiberaEvalua(t)
  <2>1. t = "escucha"
    BY <1>2 DEF Libera, LiberaEvalua, Hilos, InvDespacho, InvSemaforos, SinFinalizar
  <2> QED BY <1>2, <2>1, SignalTurno
<1> QED BY <1>1, <1>2 DEF Hilo

\* The end of an I/O.
LEMMA FinIOTurno ==
  ASSUME InvDespacho, NEW i \in Interfaces, FinIO(i), UNCHANGED cpuVars
  PROVE  DespachoSig
<1>1. CASE Cae
  BY <1>1, CaeTurno
<1>2. CASE ~Cae
  <2>1. QuietoDespacho
    BY <1>2 DEF FinIO, QuietoDespacho, turnoVars, SoloUnaVez, Eligiendo, InvDespacho,
                hilosVars, admVars, usrVars
  <2> QED BY <2>1, QuietoTurno
<1> QED BY <1>1, <1>2

\* Every step of the kernel.
LEMMA KernelTurno ==
  ASSUME "FINALIZAR_PROCESO" \notin Comandos, InvDespacho, KernelNext, UNCHANGED cpuVars
  PROVE  DespachoSig
BY NuevosTurno, EscuchaTurno, ConsolaTurno, DespachaTurno, HiloTurno, FinIOTurno
   DEF KernelNext

----------------------------------------------------------------------------
(* The steps of the CPU.                                                   *)

\* The pcb that arrives is that of the process in cola_exec, at its instruction.
LEMMA RecibePcbTurno ==
  ASSUME InvDespacho, CpuRecibePcb, UNCHANGED kernelVars
  PROVE  Turnos'
<1>1. /\ cpuFase = "libre" /\ chDispatch # <<>>
      /\ cpuPid' = Head(chDispatch).pid /\ cpuPC' = Head(chDispatch).pc
      /\ cpuFase' = "ejecuta" /\ chDispatch' = Tail(chDispatch)
      /\ UNCHANGED <<cpuPrimera, cpuLlego, ejecutadas, chInterrupt, chCpu>>
      /\ UNCHANGED <<pc, colaExec, pcbPC, semEjecutar, desaloja, esPrimer>>
  BY DEF CpuRecibePcb, kernelVars, hilosVars, colasVars, planVars, procVars, admVars
<1>2. EnCamino
  BY <1>1 DEF InvDespacho, Turnos, Inicial, Elegir, Elegido, Ejecutando, Respondiendo,
              Siguiendo
<1>3. PICK p \in Pids : colaExec = <<p>> /\ chDispatch = <<Pcb(p, pcbPC[p])>>
  BY <1>2 DEF EnCamino
<1>4. cpuPid' = p /\ cpuPC' = pcbPC[p] /\ chDispatch' = <<>>
  BY <1>1, <1>3 DEF Pcb
<1>5. pcbPC[p] = ejecutadas[p] /\ ContextoMenos(p)'
  BY <1>1, <1>2 DEF EnCamino, ContextoMenos, Pids
<1>6. SinInterrupcion'
  BY <1>1, <1>2 DEF EnCamino, CpuSale, SinInterrupcion
<1>7. Ejecutando'
  BY <1>1, <1>2, <1>3, <1>4, <1>5, <1>6 DEF EnCamino, Ejecutando
<1> QED BY <1>7 DEF Turnos

\* The packets before FIN_INSTRUCCION: of the process, at the next instruction.
LEMMA AvisosDelProceso ==
  ASSUME NEW ins \in Instrucciones, NEW p \in Pids, NEW c \in Nat
  PROVE  \A j \in 1..Len(Avisos(ins, p, c)) :
            LET m == Avisos(ins, p, c)[j]
            IN  m.pid = p /\ m.pc = c /\ m.motivo # "FIN"
<1> DEFINE aviso(m) == [motivo |-> m, pid |-> p, pc |-> c, arg |-> ins.arg]
<1>1. \A m : aviso(m).pid = p /\ aviso(m).pc = c /\ aviso(m).motivo = m
  OBVIOUS
<1>2. ins.op \in {"COMPUTO", "IO", "WAIT", "SIGNAL", "FALLA", "IO_DENEGADA", "EXIT"}
  BY DEF Instrucciones, Operaciones
<1>3. CASE ins.op = "COMPUTO"
  BY <1>3 DEF Avisos
<1>4. CASE ins.op = "FALLA"
  <2>1. Avisos(ins, p, c) = <<aviso("ERROR")>>
    BY <1>4 DEF Avisos
  <2> HIDE DEF aviso
  <2> QED BY <1>1, <2>1
<1>5. CASE ins.op = "IO_DENEGADA"
  <2>1. Avisos(ins, p, c) = <<aviso("ERROR"), aviso("IO")>>
    BY <1>5 DEF Avisos
  <2> HIDE DEF aviso
  <2> QED BY <1>1, <2>1
<1>6. CASE ins.op \in {"IO", "WAIT", "SIGNAL", "EXIT"}
  <2>1. Avisos(ins, p, c) = <<aviso(ins.op)>>
    BY <1>6 DEF Avisos
  <2> HIDE DEF aviso
  <2> QED BY <1>1, <1>6, <2>1
<1> QED BY <1>2, <1>3, <1>4, <1>5, <1>6

\* What an instruction sends: those, and FIN_INSTRUCCION the last.
LEMMA PaquetesDeInstruccion ==
  ASSUME NEW ins \in Instrucciones, NEW p \in Pids, NEW c \in Nat
  PROVE  LET s == Avisos(ins, p, c) \o <<FinInstruccion(p, c)>>
         IN  /\ s # <<>>
             /\ \A j \in 1..Len(s) :
                   /\ s[j].pid = p /\ s[j].pc = c
                   /\ s[j].motivo = "FIN" <=> j = Len(s)
<1> DEFINE a == Avisos(ins, p, c)
           fin == FinInstruccion(p, c)
           s == a \o <<fin>>
<1>1. fin.pid = p /\ fin.pc = c /\ fin.motivo = "FIN" /\ fin \in MensajesCpu
  BY DEF FinInstruccion, MensajesCpu, Motivos, Argumentos
<1>2. a \in Seq(MensajesCpu)
  BY AvisosOK
<1>3. \A j \in 1..Len(a) : a[j].pid = p /\ a[j].pc = c /\ a[j].motivo # "FIN"
  BY AvisosDelProceso
<1> HIDE DEF a, fin
<1>4. s = Append(a, fin)
  BY <1>1, <1>2, AppendIsConcat
<1>5. /\ s # <<>> /\ Len(s) = Len(a) + 1 /\ s[Len(a) + 1] = fin /\ Len(a) \in Nat
      /\ \A j \in 1..Len(a) : s[j] = a[j]
  BY <1>1, <1>2, <1>4, AppendProperties
<1> HIDE DEF s
<1>6. ASSUME NEW j \in 1..Len(s)
      PROVE  /\ s[j].pid = p /\ s[j].pc = c
             /\ s[j].motivo = "FIN" <=> j = Len(s)
  <2>1. CASE j = Len(s)
    BY <1>1, <1>5, <2>1
  <2>2. CASE j # Len(s)
    <3>1. j \in 1..Len(a)
      BY <1>5, <2>2
    <3> QED BY <1>3, <1>5, <2>2, <3>1
  <2> QED BY <2>1, <2>2
<1> QED BY <1>5, <1>6 DEF s, a, fin

\* The instruction is executed and its packets sent.
LEMMA InstruccionTurno ==
  ASSUME InvDespacho, CpuInstruccion, UNCHANGED kernelVars
  PROVE  Turnos'
<1> DEFINE s == Avisos(script[cpuPid][cpuPC + 1], cpuPid, cpuPC + 1)
                \o <<FinInstruccion(cpuPid, cpuPC + 1)>>
<1>1. /\ cpuFase = "ejecuta" /\ cpuPC < Len(script[cpuPid]) /\ cpuPC' = cpuPC + 1
      /\ ejecutadas' = [ejecutadas EXCEPT ![cpuPid] = @ + 1] /\ cpuFase' = "responde"
      /\ UNCHANGED <<cpuPid, cpuPrimera, cpuLlego, cpuInt, chDispatch, chInterrupt>>
      /\ UNCHANGED <<pc, colaExec, pcbPC, semEjecutar, desaloja, esPrimer>>
  BY DEF CpuInstruccion, kernelVars, hilosVars, colasVars, planVars, procVars, admVars
<1>2. Ejecutando /\ cpuPid \in Pids /\ cpuPC \in Nat
  BY <1>1, DeQuienEsElTurno, TiposDespacho
<1>3. script[cpuPid][cpuPC + 1] \in Instrucciones
  <2>1. script[cpuPid] \in Seq(Instrucciones)
    <3>1. script[cpuPid] \in Scripts \cup {<<>>}
      BY <1>2 DEF InvDespacho, InvSemaforos, TypeOK, CanalesTypeOK
    <3> QED BY <3>1, ScriptsAssumption, EmptySeq
  <2>2. cpuPC + 1 \in 1..Len(script[cpuPid])
    BY <1>1, <1>2, <2>1
  <2> QED BY <2>1, <2>2
<1>4. s # <<>> /\ \A j \in 1..Len(s) :
                    /\ s[j].pid = cpuPid /\ s[j].pc = cpuPC + 1
                    /\ s[j].motivo = "FIN" <=> j = Len(s)
  BY <1>2, <1>3, PaquetesDeInstruccion
<1>5. chCpu' = s
  <2>1. Avisos(script[cpuPid][cpuPC + 1], cpuPid, cpuPC + 1) \in Seq(MensajesCpu)
    BY <1>2, <1>3, AvisosOK
  <2> QED BY <1>2, <2>1, ConcatEmptySeq DEF CpuInstruccion, Ejecutando
<1> HIDE DEF s
<1>6. cpuPC' = ejecutadas'[cpuPid] /\ ContextoMenos(cpuPid)'
  BY <1>1, <1>2, TiposDespacho DEF Ejecutando, ContextoMenos
<1>7. RecibidasOK'
  BY <1>1, <1>2 DEF Ejecutando, SinInterrupcion, RecibidasOK
<1>8. Respondiendo'
  <2>1. \A j \in 1..Len(chCpu') : /\ chCpu'[j].pid = cpuPid' /\ chCpu'[j].pc = cpuPC'
                                  /\ chCpu'[j].motivo = "FIN" <=> j = Len(chCpu')
    BY <1>1, <1>4, <1>5
  <2>2. chInterrupt' = <<>> /\ cpuPrimera' /\ pc'["escucha"] = "recibe" /\ ~desaloja'
    BY <1>1, <1>2 DEF Ejecutando, SinInterrupcion
  <2>3. chCpu' # <<>>
    BY <1>4, <1>5
  <2> QED BY <1>1, <1>2, <1>6, <1>7, <2>1, <2>2, <2>3, EmptySeq
          DEF Respondiendo, Ejecutando, Atiende
<1> QED BY <1>8 DEF Turnos

\* The CPU is told to go on.
LEMMA ContinuaTurno ==
  ASSUME InvDespacho, CpuContinua, UNCHANGED kernelVars
  PROVE  Turnos'
<1>1. /\ cpuFase = "responde" /\ chDispatch # <<>> /\ Head(chDispatch).tipo = "CONTINUA"
      /\ cpuFase' = "ejecuta" /\ chDispatch' = Tail(chDispatch)
      /\ UNCHANGED <<cpuPid, cpuPC, cpuPrimera, cpuLlego, ejecutadas, chInterrupt, chCpu>>
      /\ UNCHANGED <<pc, colaExec, pcbPC, semEjecutar, desaloja, esPrimer>>
  BY DEF CpuContinua, kernelVars, hilosVars, colasVars, planVars, procVars, admVars
<1>2. ~EnCamino
  BY <1>1 DEF EnCamino, Pcb
<1>3. Siguiendo
  BY <1>1, <1>2 DEF InvDespacho, Turnos, Inicial, Elegir, Elegido, Ejecutando, Respondiendo
<1>4. chDispatch' = <<>>
  BY <1>1, <1>3 DEF Siguiendo
<1>5. ContextoMenos(cpuPid)' /\ SinInterrupcion'
  BY <1>1, <1>3 DEF Siguiendo, ContextoMenos, SinInterrupcion
<1>6. Ejecutando'
  BY <1>1, <1>3, <1>4, <1>5 DEF Siguiendo, Ejecutando
<1> QED BY <1>6 DEF Turnos

\* While the CPU is on its way out, the turn is with those who choose and send
\* the next process, and its steps leave it there.
LEMMA SaliendoTurno ==
  ASSUME Elegir \/ Elegido \/ EnCamino, CpuSale',
         UNCHANGED <<chDispatch, chCpu, ejecutadas>>, UNCHANGED kernelVars
  PROVE  Turnos'
<1>1. UNCHANGED <<pc, colaExec, pcbPC, semEjecutar, desaloja, esPrimer>>
  BY DEF kernelVars, hilosVars, colasVars, planVars, procVars, admVars
<1>2. ContextoMenos(0)'
  BY <1>1 DEF Elegir, Elegido, EnCamino, ContextoMenos
<1>3. Elegir => Elegir'
  BY <1>1, <1>2 DEF Elegir, Eligiendo
<1>4. Elegido => Elegido'
  BY <1>1, <1>2 DEF Elegido
<1>5. EnCamino => EnCamino'
  BY <1>1, <1>2 DEF EnCamino
<1> QED BY <1>3, <1>4, <1>5 DEF Turnos

\* The head of the packets of the interrupt port.
LEMMA PrimeraInterrupcion ==
  ASSUME InvDespacho, chInterrupt # <<>>
  PROVE  /\ Head(chInterrupt) = chInterrupt[1] /\ Len(chInterrupt) \in Nat \ {0}
         /\ Len(Tail(chInterrupt)) = Len(chInterrupt) - 1
         /\ \A j \in 1..Len(Tail(chInterrupt)) : Tail(chInterrupt)[j] = chInterrupt[j + 1]
         /\ Len(chInterrupt) = 1 => Tail(chInterrupt) = <<>>
         /\ Len(chInterrupt) > 1 => Tail(chInterrupt) # <<>>
         /\ \/ (Elegir \/ Elegido \/ EnCamino) /\ cpuFase = "responde" /\ CpuSale
            \/ Respondiendo
<1>1. chInterrupt \in Seq(MensajesInterrupt)
  BY TiposDespacho
<1>2. /\ Head(chInterrupt) = chInterrupt[1] /\ Len(chInterrupt) \in Nat \ {0}
      /\ Len(Tail(chInterrupt)) = Len(chInterrupt) - 1
      /\ \A j \in 1..Len(Tail(chInterrupt)) : Tail(chInterrupt)[j] = chInterrupt[j + 1]
      /\ Tail(chInterrupt) \in Seq(MensajesInterrupt)
  BY <1>1, HeadTailProperties, EmptySeq
<1>3. ASSUME Len(chInterrupt) = 1 PROVE Tail(chInterrupt) = <<>>
  <2>1. Tail(chInterrupt) # <<>> => Len(Tail(chInterrupt)) \in Nat \ {0}
    BY <1>2, EmptySeq
  <2>2. Len(Tail(chInterrupt)) = Len(chInterrupt) - 1
    BY <1>2
  <2> QED BY <1>3, <2>1, <2>2
<1>4. ASSUME Tail(chInterrupt) = <<>> PROVE Len(chInterrupt) = 1
  <2>1. Len(Tail(chInterrupt)) = 0
    BY <1>4, EmptySeq
  <2>2. Len(Tail(chInterrupt)) = Len(chInterrupt) - 1 /\ Len(chInterrupt) \in Nat
    BY <1>2
  <2> QED BY <2>1, <2>2
<1>5. \/ (Elegir \/ Elegido \/ EnCamino) /\ cpuFase = "responde" /\ CpuSale
      \/ Respondiendo
  BY DEF InvDespacho, Turnos, Inicial, Elegir, Elegido, EnCamino, Ejecutando, Siguiendo,
         CpuSale, SinInterrupcion
<1> QED BY <1>2, <1>3, <1>4, <1>5

\* The CPU is told not to go on: the last packet it is sent.
LEMMA NoContinuaTurno ==
  ASSUME InvDespacho, CpuNoContinua, UNCHANGED kernelVars
  PROVE  Turnos'
<1>1. /\ chInterrupt # <<>> /\ Head(chInterrupt).tipo = "NO_CONTINUA"
      /\ cpuFase' = "interrumpe" /\ chInterrupt' = Tail(chInterrupt)
      /\ UNCHANGED <<cpuPid, cpuInt, cpuPrimera, cpuLlego, ejecutadas, chDispatch, chCpu>>
  BY DEF CpuNoContinua
<1>2. chInterrupt[1] # Interrupcion(cpuPid) /\ 1 \in 1..Len(chInterrupt)
  BY <1>1, PrimeraInterrupcion DEF Interrupcion
<1>3. ~Respondiendo
  BY <1>2 DEF Respondiendo
<1>4. (Elegir \/ Elegido \/ EnCamino) /\ cpuFase = "responde" /\ CpuSale
  BY <1>1, <1>3, PrimeraInterrupcion
<1>5. /\ RecibidasOK /\ (cpuPrimera => Len(chInterrupt) > 1)
      /\ \A j \in 1..Len(chInterrupt) :
            IF j = Len(chInterrupt) THEN chInterrupt[j] = NoContinua
                                    ELSE chInterrupt[j] = Interrupcion(cpuPid)
  BY <1>4 DEF CpuSale
<1>6. Len(chInterrupt) = 1 /\ ~cpuPrimera
  BY <1>2, <1>5
<1>7. Tail(chInterrupt) = <<>>
  BY <1>1, <1>6, PrimeraInterrupcion
<1>8. CpuSale'
  BY <1>1, <1>5, <1>6, <1>7 DEF CpuSale, RecibidasOK
<1> QED BY <1>1, <1>4, <1>8, SaliendoTurno

\* The interrupt thread receives a packet: it names the process in execution.
LEMMA RecibeInterrupcionTurno ==
  ASSUME InvDespacho, CpuRecibeInterrupcion, UNCHANGED kernelVars
  PROVE  Turnos'
<1> DEFINE r == Tail(chInterrupt)
<1>1. /\ chInterrupt # <<>> /\ Head(chInterrupt).tipo = "INTERRUPCION"
      /\ cpuInt' = Head(chInterrupt).pid /\ cpuPrimera' = FALSE /\ chInterrupt' = r
      /\ cpuLlego' = IF cpuPrimera THEN cpuLlego + 1 ELSE cpuLlego
      /\ UNCHANGED <<cpuFase, cpuPid, cpuPC, ejecutadas, chDispatch, chCpu>>
  BY DEF CpuRecibeInterrupcion
<1>2. chInterrupt[1] # NoContinua /\ 1 \in 1..Len(chInterrupt)
  BY <1>1, PrimeraInterrupcion DEF NoContinua
<1>3. /\ Len(chInterrupt) \in Nat \ {0} /\ Len(r) = Len(chInterrupt) - 1
      /\ \A j \in 1..Len(r) : r[j] = chInterrupt[j + 1]
  BY <1>1, PrimeraInterrupcion
<1>4. CASE (Elegir \/ Elegido \/ EnCamino) /\ cpuFase = "responde" /\ CpuSale
  <2>1. /\ RecibidasOK
        /\ \A j \in 1..Len(chInterrupt) :
              IF j = Len(chInterrupt) THEN chInterrupt[j] = NoContinua
                                      ELSE chInterrupt[j] = Interrupcion(cpuPid)
    BY <1>4 DEF CpuSale
  <2>2. Len(chInterrupt) > 1 /\ chInterrupt[1] = Interrupcion(cpuPid)
    <3>1. 1 # Len(chInterrupt) /\ chInterrupt[1] = Interrupcion(cpuPid)
      BY <1>2, <2>1
    <3> QED BY <1>3, <3>1
  <2>3. r # <<>>
    BY <1>1, <2>2, PrimeraInterrupcion
  <2>4. cpuLlego' = 1 /\ cpuInt' = cpuPid'
    <3>1. Head(chInterrupt).pid = cpuPid
      BY <1>1, <2>2, PrimeraInterrupcion DEF Interrupcion
    <3> QED BY <1>1, <2>1, <3>1 DEF RecibidasOK
  <2>5. ASSUME NEW j \in 1..Len(r)
        PROVE  IF j = Len(r) THEN r[j] = NoContinua ELSE r[j] = Interrupcion(cpuPid)
    <3>1. j + 1 \in 1..Len(chInterrupt) /\ (j = Len(r) <=> j + 1 = Len(chInterrupt))
      BY <1>3
    <3> QED BY <1>3, <2>1, <3>1
  <2>6. CpuSale'
    BY <1>1, <1>4, <2>3, <2>4, <2>5 DEF CpuSale, RecibidasOK
  <2> QED BY <1>1, <1>4, <2>6, SaliendoTurno
<1>5. CASE Respondiendo
  <2>1. /\ RecibidasOK /\ desaloja
        /\ \A j \in 1..Len(chInterrupt) : chInterrupt[j] = Interrupcion(cpuPid)
    BY <1>1, <1>5 DEF Respondiendo
  <2>2. cpuLlego' = 1 /\ cpuInt' = cpuPid'
    BY <1>1, <1>2, <2>1, PrimeraInterrupcion DEF RecibidasOK, Interrupcion
  <2>3. ASSUME NEW j \in 1..Len(r)
        PROVE  r[j] = Interrupcion(cpuPid)
    <3>1. j + 1 \in 1..Len(chInterrupt)
      BY <1>3
    <3> QED BY <1>3, <2>1, <3>1
  <2>4. UNCHANGED <<pc, pidDe, colaExec, pcbPC, semEjecutar, desaloja, esPrimer>>
    BY DEF kernelVars, hilosVars, colasVars, planVars, procVars, admVars
  <2>5. ContextoMenos(cpuPid)' /\ RecibidasOK'
    BY <1>1, <1>5, <2>2, <2>4 DEF Respondiendo, ContextoMenos, RecibidasOK
  <2>6. Respondiendo'
    BY <1>1, <1>5, <2>1, <2>3, <2>4, <2>5 DEF Respondiendo
  <2> QED BY <2>6 DEF Turnos
<1> QED BY <1>1, <1>4, <1>5, PrimeraInterrupcion

\* The interruption is attended to: it is valid, and the CPU is free.
LEMMA AtiendeInterrupcionTurno ==
  ASSUME InvDespacho, CpuAtiendeInterrupcion, UNCHANGED kernelVars
  PROVE  Turnos'
<1>1. cpuFase = "interrumpe"
  BY DEF CpuAtiendeInterrupcion
<1>2. (Elegir \/ Elegido \/ EnCamino) /\ CpuSale
  BY <1>1 DEF InvDespacho, Turnos, Inicial, Elegir, Elegido, EnCamino, Ejecutando,
              Respondiendo, Siguiendo
<1>3. RecibidasOK /\ ~cpuPrimera /\ chInterrupt = <<>>
  BY <1>1, <1>2 DEF CpuSale
<1>4. CpuSale'
  BY <1>3 DEF CpuAtiendeInterrupcion, InterrupcionValida, RecibidasOK, CpuSale,
              SinInterrupcion, canales
<1> QED BY <1>2, <1>4, SaliendoTurno DEF CpuAtiendeInterrupcion, canales

----------------------------------------------------------------------------
(* The inductive invariant.                                                *)

LEMMA DespachoInit == Init => InvDespacho
<1> SUFFICES ASSUME Init PROVE InvDespacho
  OBVIOUS
<1>1. /\ pc = [t \in Hilos |-> Inicio(t)] /\ esPrimer = TRUE /\ desalojaUsuario = FALSE
      /\ semEjecutar = 0 /\ chDispatch = <<>> /\ chCpu = <<>> /\ chInterrupt = <<>>
      /\ cpuFase = "libre" /\ cpuPrimera = TRUE /\ cpuLlego = 0
      /\ pcbPC = [p \in Pids |-> 0] /\ ejecutadas = [p \in Pids |-> 0]
  BY DEF Init, KernelInit, CanalesInit, CpuInit
<1>2. pc["escucha"] = "recibe" /\ pc["nuevos"] = "esperaNew"
  BY <1>1 DEF Inicio, Hilos
<1>3. Inicial
  BY <1>1, <1>2 DEF Inicial, SinInterrupcion, ContextoMenos
<1>4. SoloUnaVez
  BY <1>1, <1>2 DEF SoloUnaVez, Eligiendo
<1> QED BY <1>3, <1>4, SemaforosInit DEF InvDespacho, Turnos

LEMMA DespachoNext ==
  ASSUME "FINALIZAR_PROCESO" \notin Comandos
  PROVE  InvDespacho /\ [Next]_vars => InvDespacho'
<1> SUFFICES ASSUME InvDespacho, [Next]_vars PROVE InvDespacho'
  OBVIOUS
<1>1. InvSemaforos'
  BY SemaforosNext DEF InvDespacho
<1> SUFFICES DespachoSig
  BY <1>1 DEF InvDespacho, DespachoSig
<1>2. CASE KernelNext /\ UNCHANGED cpuVars
  BY <1>2, KernelTurno
<1>3. CASE CpuNext /\ UNCHANGED kernelVars
  <2>1. Turnos'
    BY <1>3, RecibePcbTurno, InstruccionTurno, ContinuaTurno, NoContinuaTurno,
       RecibeInterrupcionTurno, AtiendeInterrupcionTurno DEF CpuNext
  <2>2. SoloUnaVez'
    BY <1>3 DEF InvDespacho, SoloUnaVez, Eligiendo, kernelVars, hilosVars, usrVars, admVars
  <2> QED BY <2>1, <2>2 DEF DespachoSig
<1>4. CASE (\E i \in Interfaces : Interfaz(i)) \/ UNCHANGED vars
  <2>1. QuietoDespacho
    BY <1>4 DEF QuietoDespacho, turnoVars, SoloUnaVez, Eligiendo, InvDespacho, Interfaz,
       AtiendeInterfaz, vars, kernelVars, hilosVars, colasVars, planVars, admVars, usrVars,
       procVars, canales
  <2> QED BY <2>1, QuietoTurno
<1> QED BY <1>2, <1>3, <1>4 DEF Next, Caido

\* What is in the dispatch connection, in each turn.
LEMMA DespachoEnCamino ==
  ASSUME InvDespacho
  PROVE  \/ PcbsEnCamino = {} /\ semEjecutar \in {0, 1}
         \/ EnCamino /\ PcbsEnCamino = {1}
<1>1. chDispatch = <<>> => PcbsEnCamino = {}
  BY DEF PcbsEnCamino
<1>2. Siguiendo => PcbsEnCamino = {}
  <2> SUFFICES ASSUME Siguiendo PROVE PcbsEnCamino = {}
    OBVIOUS
  <2>1. Len(chDispatch) = 1 /\ chDispatch[1].tipo = "CONTINUA"
    BY DEF Siguiendo, Continua
  <2> QED BY <2>1 DEF PcbsEnCamino
<1>3. EnCamino => PcbsEnCamino = {1}
  <2> SUFFICES ASSUME EnCamino PROVE PcbsEnCamino = {1}
    OBVIOUS
  <2>1. Len(chDispatch) = 1 /\ chDispatch[1].tipo = "PCB"
    BY DEF EnCamino, Pcb
  <2> QED BY <2>1 DEF PcbsEnCamino
<1>4. CASE Inicial \/ Elegir \/ Elegido \/ Ejecutando \/ Respondiendo
  BY <1>1, <1>4 DEF Inicial, Elegir, Elegido, Ejecutando, Respondiendo
<1>5. CASE Siguiendo
  BY <1>2, <1>5 DEF Siguiendo
<1> QED BY <1>3, <1>4, <1>5 DEF InvDespacho, Turnos

\* One process at a time is given to the CPU, and it is the one in cola_exec:
\* administrar_procesos_new and recibir_respuesta_cpu, which both replan, never do it
\* for the same CPU at once.
THEOREM UnSoloDespachoSiempre ==
  ASSUME "FINALIZAR_PROCESO" \notin Comandos
  PROVE  Spec => []UnSoloDespacho
<1>1. Init => InvDespacho
  BY DespachoInit
<1>2. InvDespacho /\ [Next]_vars => InvDespacho'
  BY DespachoNext
<1>3. InvDespacho => UnSoloDespacho
  <2> SUFFICES ASSUME InvDespacho PROVE UnSoloDespacho
    OBVIOUS
  <2>1. CASE PcbsEnCamino = {} /\ semEjecutar \in {0, 1}
    BY <2>1, FS_EmptySet DEF UnSoloDespacho
  <2>2. CASE EnCamino /\ PcbsEnCamino = {1}
    <3>1. semEjecutar = 0 /\ Cardinality(PcbsEnCamino) = 1
      BY <2>2, FS_Singleton DEF EnCamino
    <3>2. colaExec = <<chDispatch[1].pid>>
      BY <2>2 DEF EnCamino, Pcb
    <3> QED BY <2>2, <3>1, <3>2 DEF UnSoloDespacho
  <2> QED BY <2>1, <2>2, DespachoEnCamino
<1> QED BY <1>1, <1>2, <1>3, PTL DEF Spec

\* What the CPU asks for is charged to the process that asked: the pcb at the head of
\* cola_exec, which kernel.c:393 overwrites, is always that of the packet.
THEOREM PaqueteDelEjecutadoSiempre ==
  ASSUME "FINALIZAR_PROCESO" \notin Comandos
  PROVE  Spec => []PaqueteDelEjecutado
<1>1. Init => InvDespacho
  BY DespachoInit
<1>2. InvDespacho /\ [Next]_vars => InvDespacho'
  BY DespachoNext
<1>3. InvDespacho => PaqueteDelEjecutado
  <2> SUFFICES ASSUME InvDespacho, NEW j \in 1..Len(chCpu)
               PROVE  colaExec = <<chCpu[j].pid>>
    BY DEF PaqueteDelEjecutado
  <2>1. chCpu # <<>>
    BY EmptySeq
  <2>2. Respondiendo
    BY <2>1, DeQuienEsElTurno
  <2> QED BY <2>2 DEF Respondiendo
<1> QED BY <1>1, <1>2, <1>3, PTL DEF Spec

\* No interruption is discarded, none is left over for the next process and none meant
\* for one evicts another: when the CPU waits for it, the only one that has arrived
\* names the process it executes (cpu.c:244).
THEOREM InterrupcionDelEjecutadoSiempre ==
  ASSUME "FINALIZAR_PROCESO" \notin Comandos
  PROVE  Spec => []InterrupcionDelEjecutado
<1>1. Init => InvDespacho
  BY DespachoInit
<1>2. InvDespacho /\ [Next]_vars => InvDespacho'
  BY DespachoNext
<1>3. InvDespacho => InterrupcionDelEjecutado
  BY DEF InvDespacho, Turnos, Inicial, Elegir, Elegido, EnCamino, Ejecutando, Respondiendo,
         Siguiendo, CpuSale, RecibidasOK, InterrupcionDelEjecutado
<1> QED BY <1>1, <1>2, <1>3, PTL DEF Spec

\* The context survives the eviction: the pcb on its way to the CPU has the program
\* counter of the instruction after the last one its process executed.
THEOREM ContextoConservadoSiempre ==
  ASSUME "FINALIZAR_PROCESO" \notin Comandos
  PROVE  Spec => []ContextoConservado
<1>1. Init => InvDespacho
  BY DespachoInit
<1>2. InvDespacho /\ [Next]_vars => InvDespacho'
  BY DespachoNext
<1>3. InvDespacho => ContextoConservado
  <2> SUFFICES ASSUME InvDespacho, NEW j \in PcbsEnCamino
               PROVE  chDispatch[j].pc = ejecutadas[chDispatch[j].pid]
    BY DEF ContextoConservado
  <2>1. EnCamino /\ j = 1
    BY DespachoEnCamino
  <2>2. PICK p \in Pids : chDispatch = <<Pcb(p, pcbPC[p])>>
    BY <2>1 DEF EnCamino
  <2>3. chDispatch[1].pc = pcbPC[p] /\ chDispatch[1].pid = p
    BY <2>2 DEF Pcb
  <2>4. pcbPC[p] = ejecutadas[p]
    BY <2>1 DEF EnCamino, ContextoMenos, Pids
  <2> QED BY <2>1, <2>3, <2>4
<1> QED BY <1>1, <1>2, <1>3, PTL DEF Spec
=============================================================================
