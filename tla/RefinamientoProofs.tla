------------------------- MODULE RefinamientoProofs -------------------------
(***************************************************************************)
(* Sistema implements Planificador, without FINALIZAR_PROCESO and denied   *)
(* I/O: every step of a thread, of the CPU or of an interface is a step of *)
(* the abstract system or none.  Besides the invariants of the other       *)
(* modules, what the kernel attends to must be the instruction the CPU     *)
(* executed last.                                                          *)
(*                                                                         *)
(* From the same invariants, with scripts that are sound, no thread of the *)
(* kernel dereferences a null pointer.                                     *)
(***************************************************************************)
EXTENDS LugaresProofs, Refinamiento

\* The instruction p executed last.
Ultima(p) == script[p][ejecutadas[p]]

Concuerda(m, ins) ==
    m.arg = ins.arg /\ m.motivo = IF ins.op = "FALLA" THEN "ERROR" ELSE ins.op

\* What the kernel attends to is what the CPU executed last.
PaqueteFiel ==
    /\ PorAtender => ejecutadas[cpuPid] > 0
    /\ Len(chCpu) = 2 => Concuerda(chCpu[1], Ultima(cpuPid))
    /\ pc["escucha"] = "waitEvalua" =>
          Ultima(cpuPid).op = "WAIT" /\ Ultima(cpuPid).arg = argDe["escucha"]
    /\ pc["escucha"] = "signalEvalua" =>
          Ultima(cpuPid).op = "SIGNAL" /\ Ultima(cpuPid).arg = argDe["escucha"]

InvFiel == InvGrado /\ PaqueteFiel

LEMMA TiposFiel ==
  ASSUME InvFiel
  PROVE  /\ pc \in [Hilos -> Puntos] /\ pidDe \in [Hilos -> Pids \cup {0}]
         /\ argDe \in [Hilos -> Argumentos] /\ LocalesOK
         /\ estado \in [Pids -> Estados] /\ script \in [Pids -> Scripts \cup {<<>>}]
         /\ ejecutadas \in [Pids -> Nat]
         /\ retenidos \subseteq Retencion /\ IsFiniteSet(retenidos)
         /\ InvLugares /\ InvDespacho /\ InvNegativas /\ InvSemaforos
         /\ SinFinalizar /\ Ejecutado /\ Saliente
<1>1. InvLugares /\ InvDespacho /\ InvNegativas /\ InvSemaforos /\ TypeOK /\ InvRecursos
  BY DEF InvFiel, InvGrado, InvLugares, InvColas, InvNegativas, InvSemaforos
<1>2. estado \in [Pids -> Estados] /\ script \in [Pids -> Scripts \cup {<<>>}]
  BY <1>1, TiposGrado
<1>3. pc \in [Hilos -> Puntos] /\ pidDe \in [Hilos -> Pids \cup {0}] /\ ejecutadas \in [Pids -> Nat]
  BY <1>1, TiposDespacho
<1>4. argDe \in [Hilos -> Argumentos] /\ LocalesOK /\ retenidos \subseteq Retencion
  BY <1>1 DEF TypeOK, KernelTypeOK, HilosOK, RecursosOK
<1> QED BY <1>1, <1>2, <1>3, <1>4 DEF InvRecursos, InvSemaforos, InvFiel, InvGrado

----------------------------------------------------------------------------
(* The process that has the CPU.                                           *)

\* While its packet is pending.
LEMMA QuienAtiende ==
  ASSUME InvFiel, SinDenegar, PorAtender
  PROVE  /\ Respondiendo /\ cpuPid \in Pids /\ ~desaloja /\ estado[cpuPid].tipo = "EXEC"
         /\ pc["escucha"] \notin {"libera", "liberaEvalua"} /\ ~Eligiendo("escucha")
         /\ colaExec = <<cpuPid>>
         /\ Len(chCpu) = 2 => pc["escucha"] = "recibe"
         /\ pc["escucha"] \in {"waitEvalua", "signalEvalua"} => pidDe["escucha"] = cpuPid
         /\ script[cpuPid] \in Scripts /\ Len(script[cpuPid]) \in Nat
         /\ ejecutadas[cpuPid] \in 1..Len(script[cpuPid])
         /\ ejecutadas[cpuPid] - 1 \in Nat
<1>1. InvLugares /\ InvDespacho /\ Ejecutado
  BY TiposFiel
<1>2. Respondiendo
  <2>1. CASE Len(chCpu) = 2
    <3>1. chCpu # <<>>
      BY <2>1, EmptySeq
    <3> QED BY <1>1, <3>1, DeQuienEsElTurno
  <2>2. CASE pc["escucha"] \in {"waitEvalua", "signalEvalua"}
    BY <1>1, <2>2, DeQuienEsElTurno DEF Atiende
  <2> QED BY <2>1, <2>2 DEF PorAtender
<1>3. cpuPid \in Pids /\ ~Eligiendo("escucha") /\ colaExec = <<cpuPid>>
  BY <1>1, <1>2, TiposDespacho DEF Respondiendo, Eligiendo, Atiende
<1>4. ~Denegado(cpuPid)
  BY <1>1, <1>3, NadieDenegado
<1>5. ~desaloja
  BY <1>1, <1>4 DEF InvLugares, Mensajes, PorAtender
<1>6. estado[cpuPid].tipo = "EXEC"
  BY <1>1, <1>3, <1>5 DEF InvLugares, Ubicados, EnExec
<1>7. /\ pc["escucha"] \notin {"libera", "liberaEvalua"}
      /\ Len(chCpu) = 2 => pc["escucha"] = "recibe"
      /\ pc["escucha"] \in {"waitEvalua", "signalEvalua"} => pidDe["escucha"] = cpuPid
  BY <1>1, <1>2, <1>5 DEF InvLugares, Mensajes, PorAtender, Respondiendo
<1>8. /\ script[cpuPid] \in Scripts /\ Len(script[cpuPid]) \in Nat
      /\ ejecutadas[cpuPid] \in 1..Len(script[cpuPid])
  <2>1. ejecutadas[cpuPid] \in Nat /\ ejecutadas[cpuPid] > 0
        /\ ejecutadas[cpuPid] <= Len(script[cpuPid])
    BY <1>1, <1>3, TiposFiel DEF InvFiel, PaqueteFiel, Ejecutado
  <2>2. script[cpuPid] # <<>>
    BY <2>1, EmptySeq
  <2>3. script[cpuPid] \in Scripts
    BY <1>3, <2>2, TiposFiel
  <2>4. Len(script[cpuPid]) \in Nat
    BY <2>3, ScriptsAssumption, LenProperties
  <2> QED BY <2>1, <2>3, <2>4
<1>9. ejecutadas[cpuPid] - 1 \in Nat
  BY <1>8
<1> QED BY <1>2, <1>3, <1>5, <1>6, <1>7, <1>8, <1>9

\* A packet is the one before FIN_INSTRUCCION, or FIN_INSTRUCCION.
LEMMA PaqueteUnico ==
  ASSUME InvFiel, SinDenegar, chCpu # <<>>, pc["escucha"] = "recibe"
  PROVE  /\ Head(chCpu).motivo # "FIN" => Len(chCpu) = 2
         /\ Head(chCpu).motivo = "FIN" => Len(chCpu) = 1
         /\ Head(chCpu) = chCpu[1] /\ Len(Tail(chCpu)) = Len(chCpu) - 1
         /\ Head(chCpu).pid = cpuPid /\ cpuPid \in Pids /\ colaExec = <<cpuPid>>
         /\ semEjecutar = 0
<1>1. InvLugares
  BY TiposFiel
<1>2. /\ Head(chCpu).pid = cpuPid /\ cpuPid \in Pids
      /\ Len(chCpu) \in 1..3 /\ (Head(chCpu).motivo = "FIN" <=> Len(chCpu) = 1)
      /\ Head(chCpu) = chCpu[1] /\ colaExec = <<cpuPid>>
      /\ Len(Tail(chCpu)) = Len(chCpu) - 1 /\ semEjecutar = 0
  BY <1>1, LlegaMarcha
<1>3. Len(chCpu) # 3
  <2>1. ~Denegado(cpuPid)
    BY <1>2, NadieDenegado, TiposFiel
  <2> QED BY <1>1, <2>1 DEF InvLugares, Mensajes
<1>4. Len(chCpu) = 1 \/ Len(chCpu) = 2
  BY <1>2, <1>3
<1> QED BY <1>2, <1>4

\* A packet other than FIN_INSTRUCCION is taken.
LEMMA LlegaPaquete ==
  ASSUME InvFiel, SinDenegar, NEW motivos, Llega(motivos), "FIN" \notin motivos,
         CargaPcb(Head(chCpu))
  PROVE  /\ PorAtender /\ Len(chCpu') = 1 /\ Head(chCpu).pid = cpuPid
         /\ Concuerda(Head(chCpu), Ultima(cpuPid)) /\ Head(chCpu).motivo \in motivos
         /\ pc["escucha"] = "recibe" /\ colaExec' = colaExec
<1>1. /\ chCpu # <<>> /\ pc["escucha"] = "recibe" /\ Head(chCpu).motivo \in motivos
      /\ chCpu' = Tail(chCpu) /\ Head(chCpu).motivo # "FIN"
      /\ colaExec' = <<Head(chCpu).pid>>
  BY DEF Llega, CargaPcb
<1>2. Len(chCpu) = 2 /\ Len(Tail(chCpu)) = 1
  BY <1>1, PaqueteUnico
<1> QED BY <1>1, <1>2, PaqueteUnico DEF PorAtender, InvFiel, PaqueteFiel

----------------------------------------------------------------------------
(* What the kernel attends to.                                             *)

\* A step that brings nothing to attend to.
QuietoFiel ==
    /\ UNCHANGED <<script, ejecutadas>>
    /\ Len(chCpu') = 2 => chCpu' = chCpu
    /\ pc'["escucha"] \in {"waitEvalua", "signalEvalua"} =>
          pc'["escucha"] = pc["escucha"] /\ argDe'["escucha"] = argDe["escucha"]
    /\ PorAtender => cpuPid' = cpuPid

LEMMA QuietoAtiende ==
  ASSUME InvFiel, QuietoFiel
  PROVE  PaqueteFiel'
<1> USE DEF QuietoFiel
<1>1. PorAtender' => PorAtender
  BY DEF PorAtender
<1>2. \A p : Ultima(p)' = Ultima(p)
  BY DEF Ultima
<1>3. PorAtender' => ejecutadas'[cpuPid'] > 0
  BY <1>1 DEF InvFiel, PaqueteFiel
<1>4. Len(chCpu') = 2 => chCpu' = chCpu /\ cpuPid' = cpuPid
  BY DEF PorAtender
<1>5. \A l \in {"waitEvalua", "signalEvalua"} :
         pc'["escucha"] = l => /\ pc["escucha"] = l /\ cpuPid' = cpuPid
                               /\ argDe'["escucha"] = argDe["escucha"]
  BY DEF PorAtender
<1> QED BY <1>2, <1>3, <1>4, <1>5 DEF InvFiel, PaqueteFiel

\* The first half of a wait or of a signal.
LEMMA PideRecursoFiel ==
  ASSUME InvFiel, SinDenegar, PideWait \/ PideSignal, UNCHANGED cpuVars
  PROVE  PaqueteFiel'
<1>1. \E m \in {"WAIT", "SIGNAL"} :
         /\ Llega({m}) /\ CargaPcb(Head(chCpu))
         /\ argDe'["escucha"] = Head(chCpu).arg
         /\ pc'["escucha"] = IF m = "WAIT" THEN "waitEvalua" ELSE "signalEvalua"
  BY TiposFiel DEF PideWait, PideSignal, Sigue, Hilos
<1>2. script' = script /\ UNCHANGED <<ejecutadas, cpuPid>>
  BY DEF PideWait, PideSignal, cpuVars
<1>3. PICK m \in {"WAIT", "SIGNAL"} :
         /\ Llega({m}) /\ CargaPcb(Head(chCpu)) /\ "FIN" \notin {m}
         /\ argDe'["escucha"] = Head(chCpu).arg
         /\ pc'["escucha"] = IF m = "WAIT" THEN "waitEvalua" ELSE "signalEvalua"
  BY <1>1
<1>4. /\ PorAtender /\ Len(chCpu') = 1 /\ Concuerda(Head(chCpu), Ultima(cpuPid))
      /\ Head(chCpu).motivo = m
  BY <1>3, LlegaPaquete
<1>5. Ultima(cpuPid).op = m /\ Ultima(cpuPid).arg = argDe'["escucha"]
  BY <1>3, <1>4 DEF Concuerda
<1> QED BY <1>2, <1>3, <1>4, <1>5 DEF PaqueteFiel, InvFiel, Ultima

\* A process that begins has executed nothing.
LEMMA IniciarProcesoFiel ==
  ASSUME InvFiel, SinDenegar, NEW s \in Scripts, IniciarProceso(s), UNCHANGED cpuVars
  PROVE  PaqueteFiel'
<1>1. /\ script' = [script EXCEPT ![contador] = s] /\ chCpu' = chCpu
      /\ UNCHANGED <<pc, argDe>> /\ UNCHANGED <<ejecutadas, cpuPid>>
      /\ contador <= MaxPid
  BY DEF IniciarProceso, hilosVars, cpuVars
<1>2. contador \in Pids
  <2>1. contador \in 1..(MaxPid + 1)
    BY TiposFiel DEF InvSemaforos, TypeOK, KernelTypeOK, ProcesosOK
  <2> QED BY <1>1, <2>1, MaxPidAssumption DEF Pids
<1>3. ejecutadas[contador] = 0
  <2>1. script[contador] = <<>> /\ ejecutadas[contador] <= Len(script[contador])
    BY <1>2, TiposFiel DEF Ejecutado, Pids
  <2> QED BY <1>2, <2>1, TiposFiel, EmptySeq
<1>4. PorAtender' <=> PorAtender
  BY <1>1 DEF PorAtender
<1>5. PorAtender => cpuPid # contador /\ cpuPid \in Pids
  BY <1>3, QuienAtiende DEF InvFiel, PaqueteFiel
<1>6. PorAtender => Ultima(cpuPid)' = Ultima(cpuPid)
  BY <1>1, <1>2, <1>5, TiposFiel DEF Ultima
<1> QED BY <1>1, <1>4, <1>6 DEF PorAtender, PaqueteFiel, InvFiel

\* The packet of an instruction is the one it asks for; COMPUTO has none.
LEMMA AvisoFiel ==
  ASSUME NEW ins \in Instrucciones, NEW p \in Pids, NEW c \in Nat, ins.op # "IO_DENEGADA"
  PROVE  LET s == Avisos(ins, p, c) \o <<FinInstruccion(p, c)>>
         IN  \/ Len(s) = 1 /\ ins.op = "COMPUTO"
             \/ Len(s) = 2 /\ ins.op # "COMPUTO" /\ Concuerda(s[1], ins)
<1> DEFINE aviso(m) == [motivo |-> m, pid |-> p, pc |-> c, arg |-> ins.arg]
           fin == FinInstruccion(p, c)
<1>1. \A m : aviso(m).motivo = m /\ aviso(m).arg = ins.arg
  OBVIOUS
<1>2. ins.op \in {"COMPUTO", "IO", "WAIT", "SIGNAL", "FALLA", "IO_DENEGADA", "EXIT"}
  BY DEF Instrucciones, Operaciones
<1> HIDE DEF fin
<1>3. ASSUME NEW a, NEW f
      PROVE  /\ Len(<<>> \o <<f>>) = 1 /\ Len(<<a>> \o <<f>>) = 2
             /\ (<<a>> \o <<f>>)[1] = a
  OBVIOUS
<1>4. CASE ins.op = "COMPUTO"
  <2>1. Avisos(ins, p, c) = <<>>
    BY <1>4 DEF Avisos
  <2> QED BY <1>3, <1>4, <2>1 DEF fin
<1>5. CASE ins.op # "COMPUTO"
  <2>1. Avisos(ins, p, c) = <<aviso(IF ins.op = "FALLA" THEN "ERROR" ELSE ins.op)>>
    BY <1>2, <1>5 DEF Avisos
  <2> HIDE DEF aviso
  <2>2. PICK a : Avisos(ins, p, c) = <<a>> /\ Concuerda(a, ins)
    BY <1>1, <2>1 DEF Concuerda
  <2> QED BY <1>3, <1>5, <2>2 DEF fin
<1> QED BY <1>4, <1>5

\* What the CPU sends for an instruction.
LEMMA InstruccionEnvia ==
  ASSUME InvFiel, SinDenegar, CpuInstruccion
  PROVE  /\ Ejecutando /\ cpuPid \in Pids /\ cpuPid' = cpuPid /\ script' = script
         /\ ejecutadas' = [ejecutadas EXCEPT ![cpuPid] = @ + 1]
         /\ ejecutadas[cpuPid] \in Nat /\ ejecutadas[cpuPid] < Len(script[cpuPid])
         /\ chCpu = <<>> /\ pc["escucha"] = "recibe"
         /\ \/ /\ Len(chCpu') = 1
               /\ script[cpuPid][ejecutadas[cpuPid] + 1].op = "COMPUTO"
            \/ /\ Len(chCpu') = 2
               /\ script[cpuPid][ejecutadas[cpuPid] + 1].op # "COMPUTO"
               /\ Concuerda(chCpu'[1], script[cpuPid][ejecutadas[cpuPid] + 1])
<1> DEFINE ins == script[cpuPid][cpuPC + 1]
           s == Avisos(ins, cpuPid, cpuPC + 1) \o <<FinInstruccion(cpuPid, cpuPC + 1)>>
<1>1. /\ cpuFase = "ejecuta" /\ cpuPC < Len(script[cpuPid])
      /\ ejecutadas' = [ejecutadas EXCEPT ![cpuPid] = @ + 1]
      /\ UNCHANGED <<cpuPid, script>>
  BY DEF CpuInstruccion
<1>2. /\ Ejecutando /\ cpuPid \in Pids /\ cpuPC \in Nat /\ cpuPC + 1 \in Nat
      /\ cpuPC = ejecutadas[cpuPid] /\ chCpu = <<>> /\ pc["escucha"] = "recibe"
  BY <1>1, DeQuienEsElTurno, TiposDespacho, TiposFiel DEF Ejecutando
<1>3. ins \in Instrucciones /\ ins.op # "IO_DENEGADA"
  <2>1. script[cpuPid] \in Scripts \cup {<<>>}
    BY <1>2, TiposFiel
  <2>2. script[cpuPid] # <<>>
    BY <1>1, <1>2, EmptySeq
  <2>3. script[cpuPid] \in Scripts /\ script[cpuPid] \in Seq(Instrucciones)
    BY <2>1, <2>2, ScriptsAssumption
  <2>4. Len(script[cpuPid]) \in Nat
    BY <2>3, LenProperties
  <2>5. cpuPC + 1 \in 1..Len(script[cpuPid])
    BY <1>1, <1>2, <2>4
  <2> QED BY <2>3, <2>5 DEF SinDenegar
<1>4. \/ Len(s) = 1 /\ ins.op = "COMPUTO"
      \/ Len(s) = 2 /\ ins.op # "COMPUTO" /\ Concuerda(s[1], ins)
  BY <1>2, <1>3, AvisoFiel
<1>5. chCpu' = s
  <2>1. Avisos(ins, cpuPid, cpuPC + 1) \in Seq(MensajesCpu)
    BY <1>2, <1>3, AvisosOK
  <2> QED BY <1>2, <2>1, ConcatEmptySeq DEF CpuInstruccion
<1> HIDE DEF s
<1> QED BY <1>1, <1>2, <1>4, <1>5

\* An instruction executed is an instruction to attend to, or one nobody has to.
LEMMA InstruccionFiel ==
  ASSUME InvFiel, SinDenegar, CpuInstruccion, UNCHANGED kernelVars
  PROVE  PaqueteFiel'
<1>1. pc' = pc /\ pc["escucha"] = "recibe"
  BY InstruccionEnvia DEF kernelVars, hilosVars
<1>2. Ultima(cpuPid)' = script[cpuPid][ejecutadas[cpuPid] + 1] /\ ejecutadas'[cpuPid] > 0
  <2>1. ejecutadas'[cpuPid] = ejecutadas[cpuPid] + 1
    BY InstruccionEnvia, TiposFiel
  <2> QED BY <2>1, InstruccionEnvia DEF Ultima
<1>3. cpuPid' = cpuPid
  BY InstruccionEnvia
<1>4. Len(chCpu') = 2 => Concuerda(chCpu'[1], Ultima(cpuPid)')
  BY <1>2, InstruccionEnvia
<1> QED BY <1>1, <1>2, <1>3, <1>4 DEF PaqueteFiel, Ultima

\* The other packets.
LEMMA PaqueteAtendido ==
  ASSUME InvFiel, SinDenegar, PideIO \/ PideExit \/ (PideDesconocido /\ ~Cae)
  PROVE  /\ PorAtender /\ Len(chCpu') = 1 /\ Concuerda(Head(chCpu), Ultima(cpuPid))
         /\ Head(chCpu).pid = cpuPid /\ pc["escucha"] = "recibe" /\ colaExec' = colaExec
<1>1. /\ Llega(Motivos \ {"FIN"}) /\ "FIN" \notin Motivos \ {"FIN"}
      /\ CargaPcb(Head(chCpu))
  BY DEF PideIO, PideExit, PideDesconocido, Llega, Motivos
<1> QED BY <1>1, LlegaPaquete

LEMMA PaqueteAtendidoFiel ==
  ASSUME InvFiel, SinDenegar, PideIO \/ PideExit \/ (PideDesconocido /\ ~Cae),
         UNCHANGED cpuVars
  PROVE  PaqueteFiel'
<1>1. pc'["escucha"] \in {"esperaPlani", "libera"} /\ script' = script
  BY TiposFiel DEF PideIO, PideExit, PideDesconocido, Sigue, Hilos
<1>2. QuietoFiel
  BY <1>1, PaqueteAtendido DEF QuietoFiel, cpuVars
<1> QED BY <1>2, QuietoAtiende

\* The steps of escucha.
LEMMA EscuchaFiel ==
  ASSUME "FINALIZAR_PROCESO" \notin Comandos, InvFiel, SinDenegar, Escucha, UNCHANGED cpuVars
  PROVE  PaqueteFiel'
<1>0. /\ pc \in [Hilos -> Puntos] /\ argDe \in [Hilos -> Argumentos] /\ SinFinalizar
  BY TiposFiel
<1> USE DEF QuietoFiel, canales, cpuVars, hilosVars, Sigue, Vuelve, Inicio, Hilos
<1>1. CASE FinDesaloja \/ FinContinua
  <2>1. chCpu # <<>> /\ Head(chCpu).motivo = "FIN" /\ pc["escucha"] = "recibe"
    BY <1>1 DEF FinDesaloja, FinContinua, Llega
  <2>2. Len(Tail(chCpu)) = 0
    BY <2>1, PaqueteUnico
  <2>3. chCpu' = Tail(chCpu) /\ script' = script
    BY <1>1 DEF FinDesaloja, FinContinua
  <2>4. pc'["escucha"] \in {"recibe", "replanifica"}
    BY <1>0, <1>1, <2>1 DEF FinDesaloja, FinContinua
  <2>5. QuietoFiel
    BY <2>2, <2>3, <2>4
  <2> QED BY <2>5, QuietoAtiende
<1>2. ~FinDesalojaUsuario /\ ~PaqueteSinExec
  <2>1. ~desalojaUsuario
    BY TiposFiel DEF InvDespacho, SoloUnaVez
  <2>2. chCpu # <<>> /\ pc["escucha"] = "recibe" => colaExec # <<>>
    <3>1. <<cpuPid>> # <<>>
      OBVIOUS
    <3> QED BY <3>1, PaqueteUnico
  <2> QED BY <2>1, <2>2 DEF FinDesalojaUsuario, PaqueteSinExec, Llega
<1>3. CASE EnviaIO \/ MarcaBlock
  BY <1>0, <1>3, QuietoAtiende DEF EnviaIO, MarcaBlock
<1>4. CASE EvaluaWait
  BY <1>0, <1>4, QuietoAtiende DEF EvaluaWait
<1>5. CASE Cae
  BY <1>5, QuietoAtiende DEF Cae
<1>6. CASE Signal /\ ~Cae
  BY <1>0, <1>6, QuietoAtiende DEF Signal, EvaluaSignal
<1>7. CASE SaleEscucha
  BY <1>0, <1>7, QuietoAtiende DEF SaleEscucha, Sale
<1>8. CASE PideIO \/ PideExit \/ (PideDesconocido /\ ~Cae)
  BY <1>8, PaqueteAtendidoFiel
<1>9. CASE PideWait \/ PideSignal
  BY <1>9, PideRecursoFiel
<1> QED BY <1>1, <1>2, <1>3, <1>4, <1>5, <1>6, <1>7, <1>8, <1>9 DEF Escucha

\* The steps of the kernel.
LEMMA KernelFiel ==
  ASSUME "FINALIZAR_PROCESO" \notin Comandos, InvFiel, SinDenegar, KernelNext,
         UNCHANGED cpuVars
  PROVE  PaqueteFiel'
<1>0. /\ pc \in [Hilos -> Puntos] /\ argDe \in [Hilos -> Argumentos] /\ SinFinalizar
  BY TiposFiel
<1>1. CASE Escucha
  BY <1>1, EscuchaFiel
<1> USE DEF QuietoFiel, canales, cpuVars, hilosVars, Sigue, Vuelve, Inicio, Hilos
<1>2. CASE Cae
  BY <1>2, QuietoAtiende DEF Cae
<1>3. CASE Nuevos /\ ~Cae
  <2>1. pc'["escucha"] = pc["escucha"] /\ argDe'["escucha"] = argDe["escucha"]
    BY <1>0, <1>3 DEF Nuevos, EsperaNew, Admite
  <2>2. script' = script /\ chCpu' = chCpu
    BY <1>3 DEF Nuevos, EsperaNew, Admite
  <2> QED BY <2>1, <2>2, QuietoAtiende
<1>4. CASE Consola
  <2>1. CASE IniciarPlanificacion \/ DetenerPlanificacion \/ Detiene
    <3>1. pc'["escucha"] = pc["escucha"] /\ argDe'["escucha"] = argDe["escucha"]
      BY <1>0, <2>1 DEF IniciarPlanificacion, DetenerPlanificacion, Detiene
    <3>2. script' = script /\ chCpu' = chCpu
      BY <2>1 DEF IniciarPlanificacion, DetenerPlanificacion, Detiene
    <3> QED BY <3>1, <3>2, QuietoAtiende
  <2>2. CASE (\E n \in Grados : SubeGrado(n) \/ BajaGrado(n)) \/ RestaGrado \/ ProcesoEstado
    BY <1>0, <2>2, QuietoAtiende
       DEF SubeGrado, BajaGrado, RestaGrado, ProcesoEstado, kernelVars
  <2>3. ~PideDesalojo /\ ~EsperaUsuario /\ ~SumaInstancia /\ ~SaleConsola
    BY <1>0 DEF PideDesalojo, EsperaUsuario, SumaInstancia, SaleConsola, SinFinalizar
  <2>4. ASSUME NEW p \in Pids
        PROVE  /\ ~FinalizaNew(p) /\ ~FinalizaReady(p) /\ ~FinalizaExec(p)
               /\ ~FinalizaIO(p) /\ ~FinalizaRecurso(p) /\ ~FinalizaPerdido(p)
    BY DEF FinalizaNew, FinalizaReady, FinalizaExec, FinalizaIO, FinalizaRecurso,
           FinalizaPerdido, Finaliza, Acepta, Lee
  <2> QED BY <1>4, <2>1, <2>2, <2>3, <2>4, IniciarProcesoFiel DEF Consola
<1>5. CASE Despacha /\ ~Cae
  BY <1>0, <1>5, QuietoAtiende DEF Despacha
<1>6. ASSUME NEW t \in Hilos, Replanifica(t) \/ (Elige(t) /\ ~Cae) \/ Libera(t)
      PROVE  PaqueteFiel'
  <2>1. \/ pc'["escucha"] = pc["escucha"] /\ argDe'["escucha"] = argDe["escucha"]
        \/ pc'["escucha"] \in {"elige", "recibe", "liberaEvalua"}
    BY <1>0, <1>6 DEF Replanifica, Elige, Libera
  <2>2. script' = script /\ chCpu' = chCpu
    BY <1>6 DEF Replanifica, Elige, Libera
  <2> QED BY <2>1, <2>2, QuietoAtiende
<1>7. ASSUME NEW t \in Hilos, LiberaEvalua(t), ~Cae
      PROVE  PaqueteFiel'
  <2>1. \/ pc'["escucha"] = pc["escucha"] /\ argDe'["escucha"] = argDe["escucha"]
        \/ pc'["escucha"] = "libera"
    BY <1>0, <1>7 DEF LiberaEvalua
  <2>2. script' = script /\ chCpu' = chCpu
    BY <1>7 DEF LiberaEvalua, EvaluaSignal
  <2> QED BY <2>1, <2>2, QuietoAtiende
<1>8. ASSUME NEW i \in Interfaces, FinIO(i), ~Cae
      PROVE  PaqueteFiel'
  BY <1>0, <1>8, QuietoAtiende DEF FinIO
<1> QED BY <1>1, <1>2, <1>3, <1>4, <1>5, <1>6, <1>7, <1>8 DEF KernelNext, Hilo

\* The other steps of the CPU, and those of the interfaces.
LEMMA RestoFiel ==
  ASSUME InvFiel, SinDenegar,
         \/ CpuNext /\ ~CpuInstruccion /\ UNCHANGED kernelVars
         \/ \E i \in Interfaces : Interfaz(i)
         \/ UNCHANGED vars
  PROVE  PaqueteFiel' /\ (PorAtender => cpuPid' = cpuPid)
<1> USE DEF kernelVars, hilosVars, QuietoFiel
<1>1. PorAtender => chDispatch = <<>> /\ cpuFase = "responde"
  BY QuienAtiende DEF Respondiendo
<1>2. CASE UNCHANGED kernelVars /\ (CpuRecibePcb \/ CpuAtiendeInterrupcion)
  <2>1. ~PorAtender
    BY <1>1, <1>2 DEF CpuRecibePcb, CpuAtiendeInterrupcion
  <2> QED BY <1>2, <2>1, QuietoAtiende DEF CpuRecibePcb, CpuAtiendeInterrupcion, canales
<1>3. CASE UNCHANGED kernelVars /\ (CpuContinua \/ CpuNoContinua \/ CpuRecibeInterrupcion)
  BY <1>3, QuietoAtiende DEF CpuContinua, CpuNoContinua, CpuRecibeInterrupcion
<1>4. CASE \E i \in Interfaces : Interfaz(i)
  BY <1>4, QuietoAtiende DEF Interfaz, AtiendeInterfaz, cpuVars
<1>5. CASE UNCHANGED vars
  BY <1>5, QuietoAtiende DEF vars, cpuVars, canales
<1> QED BY <1>2, <1>3, <1>4, <1>5 DEF CpuNext

LEMMA FielInit == Init => InvFiel
<1> SUFFICES ASSUME Init PROVE InvFiel
  OBVIOUS
<1>1. pc = [t \in Hilos |-> Inicio(t)] /\ chCpu = <<>>
  BY DEF Init, CanalesInit, KernelInit
<1>2. pc["escucha"] = "recibe" /\ Len(chCpu) = 0
  BY <1>1, EmptySeq DEF Inicio, Hilos
<1> QED BY <1>2, GradoInit DEF InvFiel, PaqueteFiel, PorAtender

LEMMA InvFielNext ==
  ASSUME "FINALIZAR_PROCESO" \notin Comandos, SinDenegar
  PROVE  InvFiel /\ [Next]_vars => InvFiel'
<1> SUFFICES ASSUME InvFiel, [Next]_vars PROVE InvFiel'
  OBVIOUS
<1>1. InvGrado'
  BY InvGradoNext DEF InvFiel
<1>2. CASE KernelNext /\ UNCHANGED cpuVars
  BY <1>1, <1>2, KernelFiel DEF InvFiel
<1>3. CASE CpuInstruccion /\ UNCHANGED kernelVars
  BY <1>1, <1>3, InstruccionFiel DEF InvFiel
<1>4. CASE \/ (CpuNext /\ ~CpuInstruccion /\ UNCHANGED kernelVars)
           \/ (\E i \in Interfaces : Interfaz(i))
           \/ UNCHANGED vars
  BY <1>1, <1>4, RestoFiel DEF InvFiel
<1> QED BY <1>2, <1>3, <1>4 DEF Next, Caido

----------------------------------------------------------------------------
(* What a step leaves as it is in the abstract state.                      *)

LEMMA ActivosQuietos ==
  ASSUME UNCHANGED <<estado, contador>>
  PROVE  Activos' = Activos
BY DEF Activos, Procesos

\* A process that changes its state and keeps its slot.
LEMMA ActivosIguales ==
  ASSUME InvLugares, InvLugares', Movimiento, UNCHANGED <<contador, semMulti, ajusteGrado>>
  PROVE  Activos' = Activos
<1>1. /\ semMulti \in Int /\ ajusteGrado \in Int /\ contador \in Int
      /\ estado \in [Pids -> Estados]
  BY TiposGrado
<1>2. Activos = Vivas(estado) /\ Activos' = Vivas(estado')
  BY ActivosVivas, ActivosVivasSig
<1>3. ~Entra /\ ~Termina /\ ~Crea
  BY <1>1 DEF Entra, Termina, Crea, Devuelve
<1>4. CASE NoMueve
  BY <1>2, <1>4 DEF NoMueve
<1>5. CASE Mueve
  <2>1. PICK x \in Pids, v \in Estados : Viva(estado[x]) /\ Viva(v) /\ Pasa(x, v)
    BY <1>5 DEF Mueve
  <2> QED BY <1>1, <1>2, <2>1, VivasPasa DEF Pasa
<1> QED BY <1>3, <1>4, <1>5 DEF Movimiento

\* Who has the processor.
MismoTurno ==
    /\ UNCHANGED <<colaExec, semEjecutar, desaloja>>
    /\ \/ pc'["escucha"] = pc["escucha"] /\ pidDe'["escucha"] = pidDe["escucha"]
       \/ /\ pc["escucha"] \notin Terminando /\ ~Eligiendo("escucha")
          /\ pc'["escucha"] \notin Terminando /\ ~Eligiendo("escucha")'
       \/ Eligiendo("escucha") /\ Eligiendo("escucha")'
       \/ /\ pc["escucha"] \in Terminando /\ pc'["escucha"] \in Terminando
          /\ pidDe'["escucha"] = pidDe["escucha"]

LEMMA TurnoIgual ==
  ASSUME MismoTurno
  PROVE  EnCpu' = EnCpu /\ Saliendo' = Saliendo
BY DEF MismoTurno, EnCpu, Saliendo, Terminando, Eligiendo

LEMMA AvanceIgual ==
  ASSUME ejecutadas' = ejecutadas, PorAtender' <=> PorAtender, PorAtender => cpuPid' = cpuPid
  PROVE  Avance' = Avance
BY DEF Avance, Atendidas

LEMMA LibresIguales ==
  ASSUME \A r \in Recursos : Saldadas(r)' = Saldadas(r)
  PROVE  Libres' = Libres
BY DEF Libres

LEMMA TenenciasIguales ==
  ASSUME UNCHANGED <<retenidos, colaRec>>
  PROVE  Tenencias' = Tenencias
BY DEF Tenencias, DePar, Esta

\* A step nobody sees.
Invisible ==
    /\ UNCHANGED <<script, contador, colaNew, colaReady, colaIO, colaRec, colaExit, ajusteGrado>>
    /\ Activos' = Activos /\ EnCpu' = EnCpu /\ Saliendo' = Saliendo
    /\ Avance' = Avance /\ Libres' = Libres /\ Tenencias' = Tenencias

PasoIdeal == Ideal!Next \/ UNCHANGED Ideal!vars

LEMMA Tartamudea ==
  ASSUME Invisible
  PROVE  PasoIdeal
BY DEF Invisible, PasoIdeal, Ideal!vars

\* One that moves no process and attends to nothing.
QuietoPlan ==
    /\ UNCHANGED <<script, contador, colaNew, colaReady, colaIO, colaRec, colaExit, semMulti,
                   ajusteGrado>>
    /\ UNCHANGED <<colaExec, semEjecutar, desaloja, retenidos, instancias, ejecutadas>>
    /\ chCpu' = chCpu \/ (Len(chCpu) # 2 /\ Len(chCpu') # 2)
    /\ PorAtender => cpuPid' = cpuPid
    /\ \/ /\ pc'["escucha"] = pc["escucha"] /\ pidDe'["escucha"] = pidDe["escucha"]
          /\ argDe'["escucha"] = argDe["escucha"]
       \/ /\ pc["escucha"] \notin Medio \cup Terminando /\ ~Eligiendo("escucha")
          /\ pc'["escucha"] \notin Medio \cup Terminando /\ ~Eligiendo("escucha")'
       \/ Eligiendo("escucha") /\ Eligiendo("escucha")'

LEMMA QuietoInvisible ==
  ASSUME InvFiel, InvFiel', Movimiento, QuietoPlan
  PROVE  PasoIdeal
<1> USE DEF QuietoPlan
<1>1. InvLugares /\ InvLugares' /\ SinFinalizar /\ SinFinalizar'
  BY DEF InvFiel, InvGrado, InvLugares, InvColas, InvNegativas
<1>2. Activos' = Activos
  BY <1>1, ActivosIguales
<1>3. EnCpu' = EnCpu /\ Saliendo' = Saliendo
  BY TurnoIgual DEF MismoTurno, Medio, Terminando
<1>4. PorAtender' <=> PorAtender
  BY DEF PorAtender, Medio, Eligiendo
<1>5. Avance' = Avance
  BY <1>4, AvanceIgual
<1>6. Libres' = Libres
  <2>1. pc["consola"] \notin Medio /\ pc'["consola"] \notin Medio
    BY <1>1 DEF SinFinalizar, Medio
  <2>2. \A t \in {"escucha", "consola"} :
           \/ pc'[t] = pc[t] /\ argDe'[t] = argDe[t]
           \/ pc[t] \notin Medio /\ pc'[t] \notin Medio
    BY <2>1 DEF Medio, Eligiendo
  <2>3. \A r : Saldadas(r)' = Saldadas(r)
    BY <2>2, QuietoSaldadas
  <2> QED BY <2>3, LibresIguales
<1>7. Tenencias' = Tenencias
  BY TenenciasIguales
<1> QED BY <1>2, <1>3, <1>5, <1>6, <1>7, Tartamudea DEF Invisible

----------------------------------------------------------------------------
(* The steps the abstract system does not see.                             *)

\* Waits and hand-overs between threads, commands that change no degree.
LEMMA KernelInvisible ==
  ASSUME InvFiel, InvFiel', SinDenegar, Movimiento, UNCHANGED cpuVars,
         \/ EsperaNew \/ Cae \/ FinContinua \/ EnviaIO \/ MarcaBlock
         \/ IniciarPlanificacion \/ DetenerPlanificacion \/ Detiene
         \/ \E n \in Grados : BajaGrado(n)
         \/ ProcesoEstado
         \/ \E t \in Hilos : Replanifica(t)
  PROVE  PasoIdeal
<1>0. /\ pc \in [Hilos -> Puntos] /\ argDe \in [Hilos -> Argumentos]
      /\ pidDe \in [Hilos -> Pids \cup {0}]
  BY TiposFiel
<1> USE DEF QuietoPlan, canales, colasVars, recVars, planVars, admVars, usrVars, procVars,
            cpuVars, hilosVars, Sigue, Vuelve, Inicio, Hilos, Medio, Terminando, Eligiendo
<1>1. CASE Cae
  <2>1. QuietoPlan
    BY <1>1 DEF Cae
  <2> QED BY <2>1, QuietoInvisible
<1>2. CASE FinContinua
  <2>1. chCpu # <<>> /\ Head(chCpu).motivo = "FIN" /\ pc["escucha"] = "recibe"
        /\ chCpu' = Tail(chCpu) /\ UNCHANGED <<pc, pidDe, argDe>>
    BY <1>2 DEF FinContinua, Llega
  <2>2. Len(chCpu) = 1 /\ Len(chCpu') = 0
    BY <2>1, PaqueteUnico
  <2>3. /\ UNCHANGED <<script, contador, colaNew, colaReady, colaIO, colaRec, colaExit,
                       semMulti, ajusteGrado>>
        /\ UNCHANGED <<colaExec, semEjecutar, desaloja, retenidos, instancias, ejecutadas>>
    BY <1>2 DEF FinContinua
  <2>4. QuietoPlan
    BY <2>1, <2>2, <2>3
  <2> QED BY <2>4, QuietoInvisible
<1>3. CASE EnviaIO \/ MarcaBlock
  <2>1. /\ pc["escucha"] \in {"esperaPlani", "marcaBlock"}
        /\ pc'["escucha"] \in {"marcaBlock", "recibe"}
    BY <1>0, <1>3 DEF EnviaIO, MarcaBlock
  <2>2. QuietoPlan
    BY <1>3, <2>1 DEF EnviaIO, MarcaBlock
  <2> QED BY <2>2, QuietoInvisible
<1>4. CASE \/ EsperaNew \/ IniciarPlanificacion \/ DetenerPlanificacion \/ Detiene
           \/ (\E n \in Grados : BajaGrado(n)) \/ ProcesoEstado
  <2>1. /\ pc'["escucha"] = pc["escucha"] /\ pidDe'["escucha"] = pidDe["escucha"]
        /\ argDe'["escucha"] = argDe["escucha"]
    BY <1>0, <1>4 DEF EsperaNew, IniciarPlanificacion, DetenerPlanificacion, Detiene,
                      BajaGrado, ProcesoEstado, kernelVars
  <2>2. QuietoPlan
    BY <1>4, <2>1 DEF EsperaNew, IniciarPlanificacion, DetenerPlanificacion, Detiene,
                      BajaGrado, ProcesoEstado, kernelVars
  <2> QED BY <2>2, QuietoInvisible
<1>5. ASSUME NEW t \in Hilos, Replanifica(t)
      PROVE  PasoIdeal
  <2>1. \/ /\ pc'["escucha"] = pc["escucha"] /\ pidDe'["escucha"] = pidDe["escucha"]
           /\ argDe'["escucha"] = argDe["escucha"]
        \/ pc["escucha"] = "replanifica" /\ pc'["escucha"] = "elige"
    BY <1>0, <1>5 DEF Replanifica
  <2>2. QuietoPlan
    BY <1>5, <2>1 DEF Replanifica
  <2> QED BY <2>2, QuietoInvisible
<1> QED BY <1>1, <1>2, <1>3, <1>4, <1>5

\* The CPU and the interfaces, but for the execution of an instruction.
LEMMA RestoInvisible ==
  ASSUME InvFiel, InvFiel', SinDenegar, Movimiento,
         \/ CpuNext /\ ~CpuInstruccion /\ UNCHANGED kernelVars
         \/ \E i \in Interfaces : Interfaz(i)
         \/ UNCHANGED vars
  PROVE  PasoIdeal
<1>1. PorAtender => cpuPid' = cpuPid
  BY RestoFiel
<1>2. UNCHANGED kernelVars
  BY DEF vars, Interfaz
<1>3. /\ UNCHANGED <<contador, colaNew, colaReady, colaIO, colaRec, colaExit, semMulti,
                     ajusteGrado>>
      /\ UNCHANGED <<colaExec, semEjecutar, desaloja, retenidos, instancias>>
      /\ UNCHANGED <<pc, pidDe, argDe>>
  BY <1>2 DEF kernelVars, colasVars, recVars, planVars, admVars, usrVars, procVars, hilosVars
<1>4. UNCHANGED <<script, chCpu, ejecutadas>>
  BY DEF CpuNext, CpuRecibePcb, CpuContinua, CpuNoContinua, CpuRecibeInterrupcion,
         CpuAtiendeInterrupcion, Interfaz, AtiendeInterfaz, vars, canales, cpuVars
<1> QED BY <1>1, <1>3, <1>4, QuietoInvisible DEF QuietoPlan

\* The process chosen is sent to the CPU: it has had the processor since it was chosen.
LEMMA DespachaInvisible ==
  ASSUME InvFiel, InvFiel', Movimiento, Despacha, ~Cae, UNCHANGED cpuVars
  PROVE  PasoIdeal
<1>1. InvLugares /\ InvLugares' /\ InvDespacho
  BY DEF InvFiel, InvGrado, InvLugares
<1>2. /\ UNCHANGED <<script, contador, colaNew, colaReady, colaIO, colaRec, colaExit,
                     semMulti, ajusteGrado>>
      /\ UNCHANGED <<colaExec, retenidos, instancias, chCpu>> /\ UNCHANGED <<pc, pidDe, argDe>>
      /\ desaloja' = FALSE /\ semEjecutar > 0
  BY DEF Despacha, colasVars, recVars, admVars, usrVars, procVars, hilosVars
<1>3. UNCHANGED <<cpuPid, ejecutadas>>
  BY DEF cpuVars
<1>4. semEjecutar = 1
  BY <1>1, <1>2, DeQuienEsElTurno DEF Elegido
<1>5. EnCpu' = EnCpu /\ Saliendo' = Saliendo
  BY <1>2, <1>4 DEF EnCpu, Saliendo
<1>6. Activos' = Activos
  BY <1>1, <1>2, ActivosIguales
<1>7. Avance' = Avance
  BY <1>2, <1>3, AvanceIgual DEF PorAtender
<1>8. Libres' = Libres
  BY <1>2, QuietoSaldadas, LibresIguales
<1>9. Tenencias' = Tenencias
  BY <1>2, TenenciasIguales
<1> QED BY <1>2, <1>5, <1>6, <1>7, <1>8, <1>9, Tartamudea DEF Invisible

\* FIN_INSTRUCCION of a process that was taken out of the processor before.
LEMMA FinDesalojaInvisible ==
  ASSUME InvFiel, InvFiel', SinDenegar, Movimiento, FinDesaloja, UNCHANGED cpuVars
  PROVE  PasoIdeal
<1>1. InvLugares /\ InvLugares' /\ pc \in [Hilos -> Puntos]
      /\ argDe \in [Hilos -> Argumentos] /\ pidDe \in [Hilos -> Pids \cup {0}]
  BY TiposFiel DEF InvFiel, InvGrado
<1>2. /\ UNCHANGED <<script, contador, colaNew, colaReady, colaIO, colaRec, colaExit,
                     semMulti, ajusteGrado>>
      /\ UNCHANGED <<colaExec, retenidos, instancias, desaloja>>
      /\ chCpu # <<>> /\ Head(chCpu).motivo = "FIN" /\ pc["escucha"] = "recibe"
      /\ chCpu' = Tail(chCpu) /\ desaloja
  BY DEF FinDesaloja, Llega, colasVars, recVars, admVars, usrVars, procVars
<1>3. UNCHANGED <<cpuPid, ejecutadas>>
  BY DEF cpuVars
<1>4. pc'["escucha"] = "replanifica" /\ pc'["consola"] = pc["consola"]
      /\ argDe'["consola"] = argDe["consola"]
  BY <1>1 DEF FinDesaloja, Sigue, Hilos
<1>5. Len(chCpu) = 1 /\ Len(chCpu') = 0 /\ semEjecutar = 0
  BY <1>2, PaqueteUnico
<1>6. EnCpu' = EnCpu /\ Saliendo' = Saliendo
  BY <1>2, <1>4, <1>5 DEF EnCpu, Saliendo
<1>7. Activos' = Activos
  BY <1>1, <1>2, ActivosIguales
<1>8. Avance' = Avance
  BY <1>2, <1>3, <1>4, <1>5, AvanceIgual DEF PorAtender
<1>9. Libres' = Libres
  BY <1>2, <1>4, QuietoSaldadas, LibresIguales DEF Medio
<1>10. Tenencias' = Tenencias
  BY <1>2, TenenciasIguales
<1> QED BY <1>2, <1>6, <1>7, <1>8, <1>9, <1>10, Tartamudea DEF Invisible

\* The number of instances changes before wait and signal take effect.
LEMMA PideRecursoInvisible ==
  ASSUME InvFiel, InvFiel', SinDenegar, PideWait \/ PideSignal, UNCHANGED cpuVars
  PROVE  PasoIdeal
<1>1. InvLugares /\ InvNegativas /\ pc \in [Hilos -> Puntos]
  BY TiposFiel
<1>2. \E m \in {"WAIT", "SIGNAL"} : Llega({m}) /\ CargaPcb(Head(chCpu))
  BY DEF PideWait, PideSignal
<1>3. PICK m \in {"WAIT", "SIGNAL"} :
         Llega({m}) /\ CargaPcb(Head(chCpu)) /\ "FIN" \notin {m}
  BY <1>2
<1>4. PorAtender /\ pc["escucha"] = "recibe" /\ colaExec' = colaExec
  BY <1>3, LlegaPaquete
<1>5. /\ UNCHANGED <<script, contador, colaNew, colaReady, colaIO, colaRec, colaExit,
                     estado, ajusteGrado>>
      /\ UNCHANGED <<retenidos, semEjecutar, desaloja>>
  BY DEF PideWait, PideSignal, planVars, admVars, usrVars
<1>6. UNCHANGED <<cpuPid, ejecutadas>>
  BY DEF cpuVars
<1>7. pc'["escucha"] \in {"waitEvalua", "signalEvalua"}
  BY <1>1 DEF PideWait, PideSignal, Sigue, Hilos
<1>8. EnCpu' = EnCpu /\ Saliendo' = Saliendo
  BY <1>4, <1>5, <1>7, TurnoIgual DEF MismoTurno, Eligiendo, Terminando
<1>9. Avance' = Avance
  BY <1>4, <1>6, <1>7, AvanceIgual DEF PorAtender
<1>10. Libres' = Libres
  <2>1. CASE PideWait
    BY <1>1, <2>1, PideWaitSaldadas, LibresIguales
  <2>2. CASE PideSignal
    <3>1. /\ Head(chCpu).arg \in Recursos
          /\ instancias' = [instancias EXCEPT ![Head(chCpu).arg] = @ + 1]
          /\ Sigue("escucha", "signalEvalua", Head(chCpu).pid, Head(chCpu).arg)
      BY <2>2 DEF PideSignal
    <3>2. pc["escucha"] \notin Medio
      BY <1>4 DEF Medio
    <3> QED BY <1>1, <3>1, <3>2, SumaSaldadas, LibresIguales
  <2> QED BY <2>1, <2>2
<1>11. Activos' = Activos
  BY <1>5, ActivosQuietos
<1>12. Tenencias' = Tenencias
  BY <1>5, TenenciasIguales
<1> QED BY <1>5, <1>8, <1>9, <1>10, <1>11, <1>12, Tartamudea DEF Invisible

LEMMA LiberaInvisible ==
  ASSUME InvFiel, InvFiel', NEW t \in Hilos, Libera(t), UNCHANGED cpuVars
  PROVE  PasoIdeal
<1>1. /\ InvNegativas /\ pc \in [Hilos -> Puntos] /\ pidDe \in [Hilos -> Pids \cup {0}]
      /\ SinFinalizar /\ retenidos \subseteq Retencion
  BY TiposFiel
<1>2. pc["escucha"] = "libera" /\ t = "escucha"
  BY <1>1 DEF Libera, Hilos, SinFinalizar
<1>3. PICK x \in DeProceso(pidDe["escucha"]) :
         /\ instancias' = [instancias EXCEPT ![x.rec] = @ + 1]
         /\ Sigue("escucha", "liberaEvalua", pidDe["escucha"], x.rec)
  BY <1>2 DEF Libera
<1>4. x.rec \in Recursos
  BY <1>1 DEF DeProceso, Retencion
<1>5. /\ UNCHANGED <<script, contador, colaNew, colaReady, colaIO, colaRec, colaExit,
                     estado, ajusteGrado>>
      /\ UNCHANGED <<colaExec, retenidos, semEjecutar, desaloja, chCpu>>
  BY DEF Libera, colasVars, planVars, admVars, usrVars, procVars, canales
<1>6. UNCHANGED <<cpuPid, ejecutadas>>
  BY DEF cpuVars
<1>7. pc'["escucha"] = "liberaEvalua" /\ pidDe'["escucha"] = pidDe["escucha"]
  BY <1>1, <1>3 DEF Sigue, Hilos
<1>8. EnCpu' = EnCpu /\ Saliendo' = Saliendo
  BY <1>2, <1>5, <1>7, TurnoIgual DEF MismoTurno, Terminando
<1>9. Avance' = Avance
  BY <1>2, <1>5, <1>6, <1>7, AvanceIgual DEF PorAtender
<1>10. Libres' = Libres
  BY <1>1, <1>2, <1>3, <1>4, SumaSaldadas, LibresIguales DEF Medio
<1>11. Activos' = Activos
  BY <1>5, ActivosQuietos
<1>12. Tenencias' = Tenencias
  BY <1>5, TenenciasIguales
<1> QED BY <1>5, <1>8, <1>9, <1>10, <1>11, <1>12, Tartamudea DEF Invisible

----------------------------------------------------------------------------
(* Instructions.                                                           *)

\* The CPU executes what it resolves by itself, and sends the rest to the kernel.
LEMMA InstruccionIdeal ==
  ASSUME InvFiel, InvFiel', SinDenegar, CpuInstruccion, UNCHANGED kernelVars
  PROVE  PasoIdeal
<1> DEFINE p == cpuPid
           e == ejecutadas[cpuPid]
<1>1. /\ Ejecutando /\ p \in Pids /\ cpuPid' = p /\ script' = script
      /\ ejecutadas' = [ejecutadas EXCEPT ![p] = @ + 1]
      /\ e \in Nat /\ e < Len(script[p]) /\ chCpu = <<>> /\ pc["escucha"] = "recibe"
      /\ \/ Len(chCpu') = 1 /\ script[p][e + 1].op = "COMPUTO"
         \/ Len(chCpu') = 2
  BY InstruccionEnvia
<1>2. /\ UNCHANGED <<contador, colaNew, colaReady, colaIO, colaRec, colaExit, estado,
                     ajusteGrado>>
      /\ UNCHANGED <<colaExec, retenidos, instancias, semEjecutar, desaloja>>
      /\ UNCHANGED <<pc, pidDe, argDe>>
  BY DEF kernelVars, colasVars, recVars, planVars, admVars, usrVars, procVars, hilosVars
<1>3. EnCpu = {p} /\ Saliendo = {}
  BY <1>1 DEF Ejecutando, EnCpu, Saliendo
<1>4. EnCpu' = EnCpu /\ Saliendo' = Saliendo
  BY <1>2, TurnoIgual DEF MismoTurno
<1>5. Activos' = Activos
  BY <1>2, ActivosQuietos
<1>6. Libres' = Libres
  BY <1>2, QuietoSaldadas, LibresIguales
<1>7. Tenencias' = Tenencias
  BY <1>2, TenenciasIguales
<1>8. ~PorAtender
  BY <1>1, EmptySeq DEF PorAtender
<1>9. ejecutadas \in [Pids -> Nat]
  BY TiposFiel
<1>10. CASE Len(chCpu') = 1 /\ script[p][e + 1].op = "COMPUTO"
  <2>1. ~PorAtender'
    BY <1>1, <1>2, <1>10 DEF PorAtender
  <2>2. Avance = ejecutadas /\ Avance' = ejecutadas'
    BY <1>1, <1>8, <1>9, <2>1 DEF Avance, Atendidas
  <2>3. Ideal!Ejecuta(p)
    BY <1>1, <1>2, <1>3, <1>5, <2>2 DEF Ideal!Ejecuta
  <2>4. Ideal!Computar(p)
    BY <1>2, <1>4, <1>6, <1>7, <1>10, <2>2, <2>3 DEF Ideal!Computar, Ideal!Toca
  <2> QED BY <1>1, <2>4 DEF PasoIdeal, Ideal!Next, Ideal!Proceso
<1>11. CASE Len(chCpu') = 2
  <2>1. PorAtender'
    BY <1>11 DEF PorAtender
  <2>2. ASSUME NEW q \in Pids
        PROVE  Atendidas(q)' = Atendidas(q)
    <3>1. CASE q = p
      BY <1>1, <1>8, <1>9, <2>1, <3>1 DEF Atendidas
    <3>2. CASE q # p
      BY <1>1, <1>8, <1>9, <2>1, <3>2 DEF Atendidas
    <3> QED BY <3>1, <3>2
  <2>3. Avance' = Avance
    BY <2>2 DEF Avance
  <2> QED BY <1>1, <1>2, <1>4, <1>5, <1>6, <1>7, <2>3, Tartamudea DEF Invisible
<1> QED BY <1>1, <1>10, <1>11

\* The instruction the kernel attended to is the next one of its process.
LEMMA EjecutaAtendida ==
  ASSUME InvFiel, InvFiel', SinDenegar, Movimiento, PorAtender, ~PorAtender',
         UNCHANGED <<script, contador, colaNew, colaExit, semMulti, ajusteGrado>>,
         UNCHANGED cpuVars
  PROVE  /\ Ideal!Ejecuta(cpuPid) /\ Ideal!Toca(cpuPid) = Ultima(cpuPid)
         /\ cpuPid \in Pids /\ EnCpu = {cpuPid} /\ Saliendo = {} /\ Activos' = Activos
<1> DEFINE p == cpuPid
           e == ejecutadas[cpuPid]
<1>1. /\ p \in Pids /\ ~desaloja /\ colaExec = <<p>>
      /\ pc["escucha"] \notin {"libera", "liberaEvalua"} /\ ~Eligiendo("escucha")
      /\ Len(script[p]) \in Nat /\ e \in 1..Len(script[p])
  BY QuienAtiende
<1>2. InvLugares /\ InvLugares' /\ ejecutadas \in [Pids -> Nat]
  BY TiposFiel DEF InvFiel, InvGrado
<1>3. EnCpu = {p} /\ Saliendo = {}
  BY <1>1 DEF EnCpu, Saliendo, Eligiendo
<1>4. Activos' = Activos
  BY <1>2, ActivosIguales
<1>5. UNCHANGED <<cpuPid, ejecutadas>>
  BY DEF cpuVars
<1>6. Avance[p] = e - 1 /\ Avance[p] + 1 = e
  BY <1>1 DEF Avance, Atendidas
<1>7. Avance' = ejecutadas
  BY <1>2, <1>5 DEF Avance, Atendidas
<1>8. ejecutadas = [Avance EXCEPT ![p] = @ + 1]
  <2>1. \A q \in Pids : q # p => Avance[q] = ejecutadas[q]
    BY DEF Avance, Atendidas
  <2>2. Avance = [q \in Pids |-> Avance[q]]
    BY DEF Avance
  <2> QED BY <1>1, <1>2, <1>6, <2>1, <2>2
<1>9. Avance[p] < Len(script[p])
  BY <1>1, <1>6
<1>10. Ideal!Ejecuta(p)
  BY <1>3, <1>4, <1>7, <1>8, <1>9 DEF Ideal!Ejecuta
<1>11. Ideal!Toca(p) = Ultima(p)
  BY <1>6 DEF Ideal!Toca, Ultima
<1> QED BY <1>1, <1>3, <1>4, <1>10, <1>11

\* A process enters the queue of the interface it asks for.
LEMMA PideIOIdeal ==
  ASSUME InvFiel, InvFiel', SinDenegar, Movimiento, PideIO, UNCHANGED cpuVars
  PROVE  PasoIdeal
<1> DEFINE p == cpuPid
           i == Head(chCpu).arg
<1>1. /\ PorAtender /\ Len(chCpu') = 1 /\ Concuerda(Head(chCpu), Ultima(p))
      /\ Head(chCpu).pid = p /\ pc["escucha"] = "recibe" /\ colaExec' = colaExec
  BY PaqueteAtendido
<1>2. /\ Head(chCpu).motivo = "IO" /\ i \in Interfaces
      /\ colaIO' = [colaIO EXCEPT ![i] = Append(@, p)] /\ desaloja' = TRUE
      /\ Sigue("escucha", "esperaPlani", p, i)
  BY <1>1 DEF PideIO, Llega, CumpleInterfaz
<1>3. /\ UNCHANGED <<script, contador, colaNew, colaReady, colaRec, colaExit, semMulti,
                     ajusteGrado>>
      /\ UNCHANGED <<retenidos, instancias, semEjecutar>>
  BY DEF PideIO, recVars, planVars, admVars, usrVars
<1>4. pc \in [Hilos -> Puntos] /\ argDe \in [Hilos -> Argumentos]
  BY TiposFiel
<1>5. pc'["escucha"] = "esperaPlani" /\ pc'["consola"] = pc["consola"]
      /\ argDe'["consola"] = argDe["consola"]
  BY <1>2, <1>4 DEF Sigue, Hilos
<1>6. ~PorAtender'
  BY <1>1, <1>5 DEF PorAtender
<1>7. /\ Ideal!Ejecuta(p) /\ Ideal!Toca(p) = Ultima(p) /\ p \in Pids
      /\ EnCpu = {p} /\ Saliendo = {}
  BY <1>1, <1>3, <1>6, EjecutaAtendida
<1>8. Ultima(p).op = "IO" /\ Ultima(p).arg = i
  BY <1>1, <1>2 DEF Concuerda
<1>9. semEjecutar = 0
  BY <1>1, QuienAtiende DEF Respondiendo
<1>10. EnCpu' = {} /\ Saliendo' = {}
  BY <1>2, <1>3, <1>5, <1>9 DEF EnCpu, Saliendo
<1>11. Libres' = Libres
  BY <1>1, <1>3, <1>5, QuietoSaldadas, LibresIguales DEF Medio
<1>12. Tenencias' = Tenencias
  BY <1>3, TenenciasIguales
<1>13. Ideal!PedirIO(p)
  BY <1>2, <1>3, <1>7, <1>8, <1>10, <1>11, <1>12 DEF Ideal!PedirIO
<1> QED BY <1>7, <1>13 DEF PasoIdeal, Ideal!Next, Ideal!Proceso

\* EXIT, what failed and what does not exist.
LEMMA AcabaIdeal ==
  ASSUME InvFiel, InvFiel', SinDenegar, Movimiento, PideExit \/ (PideDesconocido /\ ~Cae),
         UNCHANGED cpuVars
  PROVE  PasoIdeal
<1> DEFINE p == cpuPid
           m == Head(chCpu)
<1>1. /\ PorAtender /\ Len(chCpu') = 1 /\ Concuerda(m, Ultima(p))
      /\ m.pid = p /\ pc["escucha"] = "recibe" /\ colaExec' = colaExec
  BY PaqueteAtendido
<1>2. /\ m.motivo \in {"EXIT", "ERROR"} \/ Desconocido(m)
      /\ desaloja' = TRUE /\ Sigue("escucha", "libera", p, Nada)
  BY <1>1 DEF PideExit, PideDesconocido, Llega
<1>3. /\ UNCHANGED <<script, contador, colaNew, colaReady, colaIO, colaRec, colaExit, semMulti,
                     ajusteGrado>>
      /\ UNCHANGED <<retenidos, instancias, semEjecutar>>
  BY DEF PideExit, PideDesconocido, recVars, planVars, admVars, usrVars
<1>4. /\ pc \in [Hilos -> Puntos] /\ argDe \in [Hilos -> Argumentos]
      /\ pidDe \in [Hilos -> Pids \cup {0}]
  BY TiposFiel
<1>5. /\ pc'["escucha"] = "libera" /\ pc'["consola"] = pc["consola"]
      /\ pidDe'["escucha"] = p /\ argDe'["consola"] = argDe["consola"]
  BY <1>2, <1>4 DEF Sigue, Hilos
<1>6. ~PorAtender'
  BY <1>1, <1>5 DEF PorAtender
<1>7. /\ Ideal!Ejecuta(p) /\ Ideal!Toca(p) = Ultima(p) /\ p \in Pids
      /\ EnCpu = {p} /\ Saliendo = {}
  BY <1>1, <1>3, <1>6, EjecutaAtendida
<1>8. colaExec = <<p>>
  BY <1>1, QuienAtiende
<1>9. Ideal!Ultima(Ultima(p))
  <2>1. /\ Ultima(p).arg = m.arg
        /\ \/ Ultima(p).op = "FALLA" /\ m.motivo = "ERROR"
           \/ Ultima(p).op = m.motivo
    BY <1>1 DEF Concuerda
  <2>2. CASE m.motivo \in {"EXIT", "ERROR"}
    <3>1. Ultima(p).op # "ERROR"
      <4>1. Ultima(p) \in Instrucciones
        BY <1>1, QuienAtiende, ScriptsAssumption DEF Ultima
      <4> QED BY <4>1 DEF Instrucciones, Operaciones
    <3> QED BY <2>1, <2>2, <3>1 DEF Ideal!Ultima
  <2>3. CASE Desconocido(m)
    BY <2>1, <2>3 DEF Desconocido, CumpleInterfaz, Ideal!Ultima
  <2> QED BY <1>2, <2>2, <2>3
<1>10. EnCpu' = EnCpu /\ Saliendo' = {p}
  BY <1>1, <1>5, <1>7, <1>8 DEF EnCpu, Saliendo
<1>11. Libres' = Libres
  BY <1>1, <1>3, <1>5, QuietoSaldadas, LibresIguales DEF Medio
<1>12. Tenencias' = Tenencias
  BY <1>3, TenenciasIguales
<1>13. Ideal!Acabar(p)
  BY <1>3, <1>7, <1>9, <1>10, <1>11, <1>12 DEF Ideal!Acabar
<1> QED BY <1>7, <1>13 DEF PasoIdeal, Ideal!Next, Ideal!Proceso

----------------------------------------------------------------------------
(* Resources: what changes of who holds what.                              *)

\* Among what p holds of r, the one added or the one removed.
LEMMA ParAnota ==
  ASSUME IsFiniteSet(retenidos), NEW p, NEW r, Anota(p, r)
  PROVE  /\ Cardinality(DePar(p, r)) \in Nat
         /\ Cardinality(DePar(p, r)') = Cardinality(DePar(p, r)) + 1
         /\ \A q, s : q # p \/ s # r => DePar(q, s)' = DePar(q, s)
<1>1. PICK n \in 1..MaxRetenidos :
         /\ \A x \in retenidos : x.n < n
         /\ retenidos' = retenidos \cup {[n |-> n, pid |-> p, rec |-> r]}
  BY DEF Anota
<1> DEFINE y == [n |-> n, pid |-> p, rec |-> r]
<1>2. y \notin retenidos
  <2>1. y \in retenidos => n < n
    BY <1>1
  <2> QED BY <2>1
<1>3. DePar(p, r)' = DePar(p, r) \cup {y} /\ y \notin DePar(p, r)
  BY <1>1, <1>2 DEF DePar
<1>4. \A q, s : q # p \/ s # r => DePar(q, s)' = DePar(q, s)
  BY <1>1 DEF DePar
<1>5. IsFiniteSet(DePar(p, r))
  <2>1. DePar(p, r) \subseteq retenidos
    BY DEF DePar
  <2> QED BY <2>1, FS_Subset
<1> QED BY <1>3, <1>4, <1>5, FS_AddElement, FS_CardinalityType

LEMMA ParQuita ==
  ASSUME IsFiniteSet(retenidos), NEW p, NEW r, Quita(p, r)
  PROVE  /\ Cardinality(DePar(p, r)) \in Nat \ {0}
         /\ Cardinality(DePar(p, r)') = Cardinality(DePar(p, r)) - 1
         /\ \A q, s : q # p \/ s # r => DePar(q, s)' = DePar(q, s)
<1>1. PICK x \in DePar(p, r) : retenidos' = retenidos \ {x}
  BY DEF Quita
<1>2. DePar(p, r)' = DePar(p, r) \ {x}
  BY <1>1 DEF DePar
<1>3. \A q, s : q # p \/ s # r => DePar(q, s)' = DePar(q, s)
  BY <1>1 DEF DePar
<1>4. IsFiniteSet(DePar(p, r)) /\ DePar(p, r) # {}
  <2>1. DePar(p, r) \subseteq retenidos
    BY DEF DePar
  <2> QED BY <1>1, <2>1, FS_Subset
<1> QED BY <1>1, <1>2, <1>3, <1>4, FS_RemoveElement, FS_CardinalityType, FS_EmptySet

LEMMA TenenciasOK ==
  ASSUME IsFiniteSet(retenidos)
  PROVE  /\ Tenencias \in [Pids -> [Recursos -> Int]]
         /\ \A q \in Pids : \A s \in Recursos :
              Tenencias[q][s] = Cardinality(DePar(q, s)) - IF Esta(colaRec[s], q) THEN 1 ELSE 0
<1>1. ASSUME NEW q \in Pids, NEW s \in Recursos
      PROVE  Cardinality(DePar(q, s)) - (IF Esta(colaRec[s], q) THEN 1 ELSE 0) \in Int
  <2>1. DePar(q, s) \subseteq retenidos
    BY DEF DePar
  <2>2. Cardinality(DePar(q, s)) \in Nat
    BY <2>1, FS_Subset, FS_CardinalityType
  <2> QED BY <2>2
<1> QED BY <1>1 DEF Tenencias

LEMMA TenenciasSig ==
  ASSUME InvFiel'
  PROVE  /\ Tenencias' \in [Pids -> [Recursos -> Int]]
         /\ \A q \in Pids : \A s \in Recursos :
              Tenencias'[q][s] = Cardinality(DePar(q, s)') - IF Esta(colaRec'[s], q) THEN 1 ELSE 0
<1>1. IsFiniteSet(retenidos')
  BY DEF InvFiel, InvGrado, InvLugares, InvColas, InvNegativas, InvRecursos
<1>2. ASSUME NEW q \in Pids, NEW s \in Recursos
      PROVE  Cardinality(DePar(q, s)') - (IF Esta(colaRec'[s], q) THEN 1 ELSE 0) \in Int
  <2>1. DePar(q, s)' \subseteq retenidos'
    BY DEF DePar
  <2>2. Cardinality(DePar(q, s)') \in Nat
    BY <1>1, <2>1, FS_Subset, FS_CardinalityType
  <2> QED BY <2>2
<1> QED BY <1>2 DEF Tenencias, Esta

LEMMA LibresValen ==
  /\ Libres = [s \in Recursos |-> Libres[s]] /\ Libres' = [s \in Recursos |-> Libres'[s]]
  /\ \A s \in Recursos :
        /\ Libres[s] = IF Saldadas(s) < 0 THEN 0 ELSE Saldadas(s)
        /\ Libres'[s] = IF Saldadas(s)' < 0 THEN 0 ELSE Saldadas(s)'
BY DEF Libres

\* An entry of a table of tables, and two of them.
LEMMA CambiaUna ==
  ASSUME NEW F \in [Pids -> [Recursos -> Int]], NEW G \in [Pids -> [Recursos -> Int]],
         NEW p \in Pids, NEW r \in Recursos, NEW d \in Int, G[p][r] = F[p][r] + d,
         \A q \in Pids : \A s \in Recursos : q # p \/ s # r => G[q][s] = F[q][s]
  PROVE  G = [F EXCEPT ![p][r] = @ + d]
<1>1. G[p] = [F[p] EXCEPT ![r] = @ + d]
  OBVIOUS
<1>2. \A q \in Pids : q # p => G[q] = F[q]
  OBVIOUS
<1>3. [F EXCEPT ![p][r] = @ + d] = [F EXCEPT ![p] = [F[p] EXCEPT ![r] = @ + d]]
  OBVIOUS
<1> QED BY <1>1, <1>2, <1>3

LEMMA CambianDos ==
  ASSUME NEW F \in [Pids -> [Recursos -> Int]], NEW G \in [Pids -> [Recursos -> Int]],
         NEW p \in Pids, NEW h \in Pids, NEW r \in Recursos, p # h,
         G[p][r] = F[p][r] - 1, G[h][r] = F[h][r] + 1,
         \A q \in Pids : \A s \in Recursos : (q # p /\ q # h) \/ s # r => G[q][s] = F[q][s]
  PROVE  G = [F EXCEPT ![p][r] = @ - 1, ![h][r] = @ + 1]
<1>1. /\ G[p] = [F[p] EXCEPT ![r] = @ - 1]
      /\ G[h] = [F[h] EXCEPT ![r] = @ + 1]
  OBVIOUS
<1>2. \A q \in Pids : q # p /\ q # h => G[q] = F[q]
  OBVIOUS
<1>3. [F EXCEPT ![p][r] = @ - 1, ![h][r] = @ + 1]
      = [F EXCEPT ![p] = [F[p] EXCEPT ![r] = @ - 1], ![h] = [F[h] EXCEPT ![r] = @ + 1]]
  OBVIOUS
<1> QED BY <1>1, <1>2, <1>3

\* The end of wait or signal: the number of instances is what it was, and it now counts.
LEMMA SaldaAlEvaluar ==
  ASSUME InvFiel, InvFiel', pc["escucha"] \in Medio, pc'["escucha"] \notin Medio,
         instancias' = instancias
  PROVE  \A s \in Recursos :
           /\ instancias[s] \in Int /\ colaRec[s] \in Seq(Pids)
           /\ Saldadas(s)' = instancias[s]
           /\ Saldadas(s) = IF argDe["escucha"] # s THEN instancias[s]
                            ELSE IF pc["escucha"] = "waitEvalua" THEN instancias[s] + 1
                            ELSE instancias[s] - 1
           /\ Len(colaRec[s]) = IF Saldadas(s) < 0 THEN -Saldadas(s) ELSE 0
<1>1. InvNegativas /\ SinFinalizar
  BY TiposFiel
<1>2. SinFinalizar'
  BY DEF InvFiel, InvGrado, InvLugares, InvColas, InvNegativas
<1> SUFFICES ASSUME NEW s \in Recursos
             PROVE  /\ instancias[s] \in Int /\ colaRec[s] \in Seq(Pids)
                    /\ Saldadas(s)' = instancias[s]
                    /\ Saldadas(s) = IF argDe["escucha"] # s THEN instancias[s]
                                     ELSE IF pc["escucha"] = "waitEvalua" THEN instancias[s] + 1
                                     ELSE instancias[s] - 1
                    /\ Len(colaRec[s]) = IF Saldadas(s) < 0 THEN -Saldadas(s) ELSE 0
  OBVIOUS
<1>3. /\ instancias[s] \in Int /\ colaRec[s] \in Seq(Pids)
      /\ Len(colaRec[s]) = IF Saldadas(s) < 0 THEN -Saldadas(s) ELSE 0
  BY <1>1, LargoDeCola
<1>4. En("consola", "liberaEvalua", s) = 0
  BY <1>1, ConsolaNoDebe
<1>5. Saldadas(s)' = instancias[s]
  BY <1>2, <1>3 DEF Saldadas, En, SinFinalizar, Medio
<1>6. Saldadas(s) = IF argDe["escucha"] # s THEN instancias[s]
                    ELSE IF pc["escucha"] = "waitEvalua" THEN instancias[s] + 1
                    ELSE instancias[s] - 1
  BY <1>3, <1>4 DEF Saldadas, En, Medio
<1> QED BY <1>3, <1>5, <1>6

\* WAIT: the process gets an instance, or waits for one in the queue.
LEMMA EvaluaWaitIdeal ==
  ASSUME InvFiel, InvFiel', SinDenegar, Movimiento, EvaluaWait, UNCHANGED cpuVars
  PROVE  PasoIdeal
<1>1. PICK p, r : p = pidDe["escucha"] /\ r = argDe["escucha"]
  OBVIOUS
<1>2. /\ pc \in [Hilos -> Puntos] /\ InvLugares /\ InvNegativas
      /\ colaRec \in [Recursos -> Seq(Pids)] /\ IsFiniteSet(retenidos)
  BY TiposFiel, TiposLugares
<1>3. /\ pc["escucha"] = "waitEvalua" /\ Anota(p, r)
      /\ IF instancias[r] < 0
           THEN desaloja' = TRUE /\ colaRec' = [colaRec EXCEPT ![r] = Append(@, p)]
           ELSE UNCHANGED <<desaloja, colaRec>>
      /\ UNCHANGED <<script, contador, colaNew, colaReady, colaExec, colaIO, colaExit,
                     semMulti, ajusteGrado, semEjecutar, instancias, chCpu>>
  BY <1>1 DEF EvaluaWait, VaABloqueado, planVars, admVars, usrVars
<1>4. pc'["escucha"] = "recibe"
  BY <1>2 DEF EvaluaWait, Vuelve, Sigue, Inicio, Hilos
<1>5. PorAtender /\ ~PorAtender'
  BY <1>2, <1>3, <1>4, LargoMensajes DEF PorAtender
<1>6. /\ p = cpuPid /\ p \in Pids /\ colaExec = <<p>> /\ semEjecutar = 0 /\ ~desaloja
      /\ Ultima(p).op = "WAIT" /\ Ultima(p).arg = r /\ r \in Recursos
  BY <1>1, <1>2, <1>3, <1>5, QuienAtiende, TiposLugares
     DEF InvFiel, PaqueteFiel, Respondiendo, ConRecurso
<1>7. /\ Ideal!Ejecuta(p) /\ Ideal!Toca(p) = Ultima(p) /\ EnCpu = {p} /\ Saliendo = {}
  BY <1>3, <1>5, <1>6, EjecutaAtendida
<1>8. \A s \in Recursos :
         /\ instancias[s] \in Int /\ Saldadas(s)' = instancias[s]
         /\ Saldadas(s) = IF s # r THEN instancias[s] ELSE instancias[s] + 1
  BY <1>1, <1>3, <1>4, SaldaAlEvaluar DEF Medio
<1>9. ~Esta(colaRec[r], p)
  <2>1. p \in Marchan
    BY <1>3, <1>2, <1>6, AtendidoMarcha
  <2>2. ~Aparece(Colas, p)
    BY <1>2, <2>1 DEF InvLugares, Ubicados, Ubica
  <2>3. Colas[EnRec(r)] = colaRec[r] /\ EnRec(r) \in Esperas
    BY <1>6, ColasNombres
  <2>4. DOMAIN Colas = Esperas
    BY DEF Colas, ColasDe
  <2> QED BY <2>2, <2>3, <2>4 DEF Aparece
<1>10. /\ Cardinality(DePar(p, r)) \in Nat
       /\ Cardinality(DePar(p, r)') = Cardinality(DePar(p, r)) + 1
       /\ \A q, s : q # p \/ s # r => DePar(q, s)' = DePar(q, s)
  BY <1>2, <1>3, ParAnota
<1>11. /\ Tenencias \in [Pids -> [Recursos -> Int]]
       /\ \A q \in Pids : \A s \in Recursos :
            Tenencias[q][s] = Cardinality(DePar(q, s)) - IF Esta(colaRec[s], q) THEN 1 ELSE 0
  BY <1>2, TenenciasOK
<1>12. /\ Tenencias' \in [Pids -> [Recursos -> Int]]
       /\ \A q \in Pids : \A s \in Recursos :
            Tenencias'[q][s] = Cardinality(DePar(q, s)') - IF Esta(colaRec'[s], q) THEN 1 ELSE 0
  BY TenenciasSig
<1>13. CASE instancias[r] < 0
  <2>1. colaRec'[r] = Append(colaRec[r], p) /\ \A s \in Recursos : s # r => colaRec'[s] = colaRec[s]
    BY <1>2, <1>3, <1>6, <1>13
  <2>2. \A q : Esta(colaRec'[r], q) <=> Esta(colaRec[r], q) \/ q = p
    BY <1>2, <1>6, <2>1, AgregaEsta
  <2>3. Tenencias' = Tenencias
    <3>1. ASSUME NEW q \in Pids, NEW s \in Recursos
          PROVE  Tenencias'[q][s] = Tenencias[q][s]
      <4>1. CASE q = p /\ s = r
        BY <1>6, <1>9, <1>10, <1>11, <1>12, <2>2, <4>1
      <4>2. CASE ~(q = p /\ s = r)
        <5>1. Esta(colaRec'[s], q) <=> Esta(colaRec[s], q)
          BY <2>1, <2>2, <4>2
        <5> QED BY <1>10, <1>11, <1>12, <4>2, <5>1
      <4> QED BY <4>1, <4>2
    <3> QED BY <1>11, <1>12, <3>1
  <2>4. Libres[r] = 0
    BY <1>6, <1>8, <1>13 DEF Libres
  <2>5. Libres' = Libres
    BY <1>6, <1>8, <1>13 DEF Libres
  <2>6. EnCpu' = {} /\ Saliendo' = {}
    BY <1>3, <1>4, <1>6, <1>13 DEF EnCpu, Saliendo
  <2>7. Ideal!Esperar(p, r)
    BY <1>3, <1>6, <1>7, <1>13, <2>3, <2>4, <2>5, <2>6 DEF Ideal!Esperar
  <2> QED BY <1>6, <2>7 DEF PasoIdeal, Ideal!Next, Ideal!Proceso
<1>14. CASE ~(instancias[r] < 0)
  <2>1. UNCHANGED <<desaloja, colaRec>>
    BY <1>3, <1>14
  <2>2. Tenencias' = [Tenencias EXCEPT ![p][r] = @ + 1]
    <3>1. Tenencias'[p][r] = Tenencias[p][r] + 1
      BY <1>6, <1>9, <1>10, <1>11, <1>12, <2>1
    <3>2. \A q \in Pids : \A s \in Recursos :
             q # p \/ s # r => Tenencias'[q][s] = Tenencias[q][s]
      BY <1>10, <1>11, <1>12, <2>1
    <3> QED BY <1>6, <1>11, <1>12, <3>1, <3>2, CambiaUna
  <2>3. Libres[r] > 0 /\ Libres' = [Libres EXCEPT ![r] = @ - 1]
    <3>1. Libres[r] = instancias[r] + 1 /\ Libres'[r] = instancias[r]
      BY <1>6, <1>8, <1>14, LibresValen
    <3>2. \A s \in Recursos : s # r => Libres'[s] = Libres[s]
      BY <1>8, LibresValen
    <3> QED BY <1>6, <1>8, <1>14, <3>1, <3>2, LibresValen
  <2>4. EnCpu' = EnCpu /\ Saliendo' = Saliendo
    BY <1>3, <1>4, <1>6, <2>1, TurnoIgual DEF MismoTurno, Terminando, Eligiendo
  <2>5. Ideal!Obtener(p, r)
    BY <1>3, <1>6, <1>7, <2>1, <2>2, <2>3, <2>4 DEF Ideal!Obtener
  <2> QED BY <1>6, <2>5 DEF PasoIdeal, Ideal!Next, Ideal!Proceso
<1> QED BY <1>13, <1>14

\* The rest of signal: the instance is free, or of the first process that waits for it.
LEMMA SueltaIdeal ==
  ASSUME InvFiel, InvFiel', pc["escucha"] \in {"signalEvalua", "liberaEvalua"},
         NEW p, NEW r, p = pidDe["escucha"], r = argDe["escucha"],
         ~SignalNula(p, r), EvaluaSignal(p, r), pc'["escucha"] \in {"recibe", "libera"}
  PROVE  /\ p = cpuPid /\ p \in Pids /\ r \in Recursos /\ colaExec = <<p>>
         /\ EnCpu' = EnCpu => Ideal!Suelta(p, r)
<1>1. /\ InvLugares /\ colaRec \in [Recursos -> Seq(Pids)] /\ IsFiniteSet(retenidos)
  BY TiposFiel, TiposLugares
<1>2. p = cpuPid /\ p \in Pids /\ r \in Recursos /\ colaExec = <<p>> /\ Marchan = {p}
  BY <1>1, AtendidoMarcha, TiposLugares DEF ConRecurso
<1>3. /\ instancias' = instancias /\ colaIO' = colaIO /\ Quita(p, r)
      /\ IF instancias[r] <= 0
           THEN /\ colaReady' = Append(colaReady, Head(colaRec[r]))
                /\ colaRec' = [colaRec EXCEPT ![r] = Tail(@)]
           ELSE UNCHANGED <<colaReady, colaRec>>
      /\ instancias[r] <= 0 => colaRec[r] # <<>>
  BY DEF EvaluaSignal, SeDesbloquea, Iniciar, SignalNula
<1>4. \A s \in Recursos :
         /\ instancias[s] \in Int /\ Saldadas(s)' = instancias[s]
         /\ Saldadas(s) = IF s # r THEN instancias[s] ELSE instancias[s] - 1
         /\ Len(colaRec[s]) = IF Saldadas(s) < 0 THEN -Saldadas(s) ELSE 0
  BY <1>3, SaldaAlEvaluar DEF Medio
<1>5. Unico(Colas) /\ ~Aparece(Colas, p)
  BY <1>1, <1>2 DEF InvLugares, Ubicados, Ubica
<1>6. ~Esta(colaRec[r], p) /\ SinRepetidos(colaRec[r])
  <2>1. Colas[EnRec(r)] = colaRec[r] /\ EnRec(r) \in Esperas
    BY <1>2, ColasNombres
  <2>2. DOMAIN Colas = Esperas
    BY DEF Colas, ColasDe
  <2> QED BY <1>5, <2>1, <2>2 DEF Aparece, Unico
<1>7. /\ Cardinality(DePar(p, r)) \in Nat \ {0}
      /\ Cardinality(DePar(p, r)') = Cardinality(DePar(p, r)) - 1
      /\ \A q, s : q # p \/ s # r => DePar(q, s)' = DePar(q, s)
  BY <1>1, <1>3, ParQuita
<1>8. /\ Tenencias \in [Pids -> [Recursos -> Int]]
      /\ \A q \in Pids : \A s \in Recursos :
           Tenencias[q][s] = Cardinality(DePar(q, s)) - IF Esta(colaRec[s], q) THEN 1 ELSE 0
  BY <1>1, TenenciasOK
<1>9. /\ Tenencias' \in [Pids -> [Recursos -> Int]]
      /\ \A q \in Pids : \A s \in Recursos :
           Tenencias'[q][s] = Cardinality(DePar(q, s)') - IF Esta(colaRec'[s], q) THEN 1 ELSE 0
  BY TenenciasSig
<1>10. Tenencias[p][r] > 0
  BY <1>2, <1>6, <1>7, <1>8
<1>11. CASE instancias[r] <= 0
  <2>0. PICK h : h = Head(colaRec[r])
    OBVIOUS
  <2>1. colaRec[r] # <<>> /\ colaReady' = Append(colaReady, h)
        /\ colaRec' = [colaRec EXCEPT ![r] = Tail(@)]
    BY <1>3, <1>11, <2>0
  <2>2. colaRec'[r] = Tail(colaRec[r]) /\ \A s \in Recursos : s # r => colaRec'[s] = colaRec[s]
    BY <1>1, <1>2, <2>1
  <2>3. /\ h \in Pids /\ Esta(colaRec[r], h)
        /\ \A q : Esta(colaRec'[r], q) <=> Esta(colaRec[r], q) /\ q # h
    BY <1>1, <1>2, <1>6, <2>0, <2>1, <2>2, CabezaEsta
  <2>4. p # h
    BY <1>6, <2>3
  <2>5. Tenencias'[p][r] = Tenencias[p][r] - 1
    BY <1>2, <1>6, <1>7, <1>8, <1>9, <2>3
  <2>6. Tenencias'[h][r] = Tenencias[h][r] + 1
    <3>1. DePar(h, r)' = DePar(h, r)
      BY <1>7, <2>4
    <3>2. Tenencias[h][r] = Cardinality(DePar(h, r)) - 1
      BY <1>2, <1>8, <2>3
    <3>3. Tenencias'[h][r] = Cardinality(DePar(h, r))
      <4>1. Cardinality(DePar(h, r)) \in Nat
        <5>1. DePar(h, r) \subseteq retenidos
          BY DEF DePar
        <5> QED BY <1>1, <5>1, FS_Subset, FS_CardinalityType
      <4>2. Tenencias'[h][r] = Cardinality(DePar(h, r)') - IF Esta(colaRec'[r], h) THEN 1 ELSE 0
        BY <1>2, <1>9, <2>3
      <4> QED BY <2>3, <3>1, <4>1, <4>2
    <3>4. Tenencias[h][r] \in Int
      BY <1>2, <1>8, <2>3
    <3>5. Cardinality(DePar(h, r)) \in Nat
      <4>1. DePar(h, r) \subseteq retenidos
        BY DEF DePar
      <4> QED BY <1>1, <4>1, FS_Subset, FS_CardinalityType
    <3> QED BY <3>2, <3>3, <3>4, <3>5
  <2>7. \A q \in Pids : \A s \in Recursos :
           (q # p /\ q # h) \/ s # r => Tenencias'[q][s] = Tenencias[q][s]
    BY <1>7, <1>8, <1>9, <2>2, <2>3
  <2>8. Tenencias' = [Tenencias EXCEPT ![p][r] = @ - 1, ![h][r] = @ + 1]
    BY <1>2, <1>8, <1>9, <2>3, <2>4, <2>5, <2>6, <2>7, CambianDos
  <2>9. Libres' = Libres
    <3>1. \A s \in Recursos : Libres'[s] = Libres[s]
      BY <1>2, <1>4, <1>11, LibresValen
    <3> QED BY <3>1, LibresValen
  <2> QED BY <1>2, <1>3, <1>10, <2>0, <2>1, <2>8, <2>9 DEF Ideal!Suelta
<1>12. CASE ~(instancias[r] <= 0)
  <2>1. UNCHANGED <<colaReady, colaRec>>
    BY <1>3, <1>12
  <2>2. colaRec[r] = <<>>
    <3>1. Len(colaRec[r]) = 0
      BY <1>2, <1>4, <1>12
    <3> QED BY <1>1, <1>2, <3>1, EmptySeq
  <2>3. Tenencias' = [Tenencias EXCEPT ![p][r] = @ - 1]
    <3>1. Tenencias'[p][r] = Tenencias[p][r] + (0 - 1)
      BY <1>2, <1>6, <1>7, <1>8, <1>9, <2>1
    <3>2. \A q \in Pids : \A s \in Recursos :
             q # p \/ s # r => Tenencias'[q][s] = Tenencias[q][s]
      BY <1>7, <1>8, <1>9, <2>1
    <3>3. Tenencias' = [Tenencias EXCEPT ![p][r] = @ + (0 - 1)]
      BY <1>2, <1>8, <1>9, <3>1, <3>2, CambiaUna
    <3>4. Tenencias[p][r] \in Int
      BY <1>2, <1>8
    <3>5. Tenencias[p][r] + (0 - 1) = Tenencias[p][r] - 1
      BY <3>4
    <3> QED BY <3>3, <3>5
  <2>4. Libres' = [Libres EXCEPT ![r] = @ + 1]
    <3>1. Libres[r] = instancias[r] - 1 /\ Libres'[r] = instancias[r]
      BY <1>2, <1>4, <1>12, LibresValen
    <3>2. \A s \in Recursos : s # r => Libres'[s] = Libres[s]
      BY <1>4, LibresValen
    <3> QED BY <1>2, <1>4, <3>1, <3>2, LibresValen
  <2> QED BY <1>2, <1>3, <1>10, <2>1, <2>2, <2>3, <2>4 DEF Ideal!Suelta
<1> QED BY <1>2, <1>11, <1>12

\* SIGNAL, of a process that holds an instance.
LEMMA SignalIdeal ==
  ASSUME InvFiel, InvFiel', SinDenegar, Movimiento, Signal, ~Cae, UNCHANGED cpuVars
  PROVE  PasoIdeal
<1>1. PICK p, r : p = pidDe["escucha"] /\ r = argDe["escucha"]
  OBVIOUS
<1>2. pc \in [Hilos -> Puntos] /\ InvLugares
  BY TiposFiel
<1>3. /\ pc["escucha"] = "signalEvalua" /\ ~SignalNula(p, r) /\ EvaluaSignal(p, r)
      /\ Vuelve("escucha")
  BY <1>1 DEF Signal
<1>4. pc'["escucha"] = "recibe"
  BY <1>2, <1>3 DEF Vuelve, Sigue, Inicio, Hilos
<1>5. /\ UNCHANGED <<script, contador, colaNew, colaExec, colaIO, colaExit, semMulti,
                     ajusteGrado, semEjecutar, desaloja, chCpu>>
  BY <1>3 DEF EvaluaSignal, admVars, usrVars, canales
<1>6. PorAtender /\ ~PorAtender'
  BY <1>2, <1>3, <1>4, <1>5, LargoMensajes DEF PorAtender
<1>7. EnCpu' = EnCpu /\ Saliendo' = Saliendo
  BY <1>3, <1>4, <1>5, TurnoIgual DEF MismoTurno, Terminando, Eligiendo
<1>8. p = cpuPid /\ p \in Pids /\ r \in Recursos /\ Ideal!Suelta(p, r)
  BY <1>1, <1>3, <1>4, <1>7, SueltaIdeal
<1>9. Ultima(p).op = "SIGNAL" /\ Ultima(p).arg = r
  BY <1>1, <1>3, <1>8 DEF InvFiel, PaqueteFiel
<1>10. Ideal!Ejecuta(p) /\ Ideal!Toca(p) = Ultima(p)
  BY <1>5, <1>6, <1>8, EjecutaAtendida
<1>11. Ideal!Soltar(p, r)
  BY <1>7, <1>8, <1>9, <1>10 DEF Ideal!Soltar
<1> QED BY <1>8, <1>11 DEF PasoIdeal, Ideal!Next, Ideal!Proceso

\* An instance that exit_prima returns.
LEMMA LiberaEvaluaIdeal ==
  ASSUME InvFiel, InvFiel', SinDenegar, Movimiento, NEW t \in Hilos, LiberaEvalua(t), ~Cae,
         UNCHANGED cpuVars
  PROVE  PasoIdeal
<1>1. PICK p, r : p = pidDe["escucha"] /\ r = argDe["escucha"]
  OBVIOUS
<1>2. /\ pc \in [Hilos -> Puntos] /\ pidDe \in [Hilos -> Pids \cup {0}] /\ SinFinalizar
      /\ InvLugares /\ InvLugares'
  BY TiposFiel DEF InvFiel, InvGrado
<1>3. t = "escucha"
  BY <1>2 DEF LiberaEvalua, Hilos, SinFinalizar
<1>4. /\ pc["escucha"] = "liberaEvalua" /\ ~SignalNula(p, r) /\ EvaluaSignal(p, r)
      /\ Sigue("escucha", "libera", p, Nada)
  BY <1>1, <1>3 DEF LiberaEvalua
<1>5. pc'["escucha"] = "libera" /\ pidDe'["escucha"] = p
  BY <1>2, <1>4 DEF Sigue, Hilos
<1>6. /\ UNCHANGED <<script, contador, colaNew, colaExec, colaIO, colaExit, semMulti,
                     ajusteGrado, semEjecutar, desaloja, chCpu>>
  BY <1>4 DEF EvaluaSignal, admVars, usrVars, canales
<1>7. EnCpu' = EnCpu /\ Saliendo' = Saliendo
  BY <1>1, <1>4, <1>5, <1>6, TurnoIgual DEF MismoTurno, Terminando
<1>8. p \in Pids /\ r \in Recursos /\ Ideal!Suelta(p, r)
  BY <1>1, <1>4, <1>5, <1>7, SueltaIdeal
<1>9. p \in Saliendo
  BY <1>1, <1>4, <1>8 DEF Saliendo
<1>10. Activos' = Activos
  BY <1>2, <1>6, ActivosIguales
<1>11. Avance' = Avance
  BY <1>4, <1>5, <1>6, AvanceIgual DEF PorAtender, cpuVars
<1>12. Ideal!Devolver(p, r)
  BY <1>6, <1>7, <1>8, <1>9, <1>10, <1>11 DEF Ideal!Devolver
<1> QED BY <1>8, <1>12 DEF PasoIdeal, Ideal!Next, Ideal!Proceso

----------------------------------------------------------------------------
(* The schedulers.                                                         *)

LEMMA VivasCambia ==
  ASSUME NEW est \in [Pids -> Estados], NEW x \in Pids, NEW v
  PROVE  /\ Viva(v) => Vivas([est EXCEPT ![x] = v]) = Vivas(est) \cup {x}
         /\ ~Viva(v) => Vivas([est EXCEPT ![x] = v]) = Vivas(est) \ {x}
BY DEF Vivas

\* What a step that touches no resource and no turn of a process leaves alone.
SinRecursos ==
    /\ UNCHANGED <<instancias, retenidos, colaRec, ejecutadas, cpuPid, chCpu>>
    /\ \/ pc'["escucha"] = pc["escucha"] /\ argDe'["escucha"] = argDe["escucha"]
       \/ pc["escucha"] \notin Medio /\ pc'["escucha"] \notin Medio

LEMMA SinRecursosIgual ==
  ASSUME InvFiel, InvFiel', SinRecursos
  PROVE  Avance' = Avance /\ Libres' = Libres /\ Tenencias' = Tenencias
<1>1. PorAtender' <=> PorAtender
  BY DEF SinRecursos, PorAtender, Medio
<1>2. Avance' = Avance
  BY <1>1, AvanceIgual DEF SinRecursos
<1>3. pc["consola"] \notin Medio /\ pc'["consola"] \notin Medio
  BY DEF InvFiel, InvGrado, InvLugares, InvColas, InvNegativas, SinFinalizar, Medio
<1>4. \A r : Saldadas(r)' = Saldadas(r)
  BY <1>3, QuietoSaldadas DEF SinRecursos
<1> QED BY <1>2, <1>4, LibresIguales, TenenciasIguales DEF SinRecursos

\* exit_prima has returned all the process held.
LEMMA SaleIdeal ==
  ASSUME InvFiel, InvFiel', SinDenegar, SaleEscucha, UNCHANGED cpuVars
  PROVE  PasoIdeal
<1>1. PICK p : p = pidDe["escucha"]
  OBVIOUS
<1>2. /\ pc \in [Hilos -> Puntos] /\ pidDe \in [Hilos -> Pids \cup {0}] /\ InvLugares
      /\ InvLugares' /\ estado \in [Pids -> Estados] /\ IsFiniteSet(retenidos) /\ InvDespacho
  BY TiposFiel DEF InvFiel, InvGrado
<1>3. /\ pc["escucha"] = "libera" /\ DeProceso(p) = {} /\ colaExit' = Append(colaExit, p)
      /\ estado' = [estado EXCEPT ![p] = Estado("EXIT", Nada)]
      /\ UNCHANGED <<script, contador, colaNew, colaReady, colaExec, colaIO, colaRec,
                     retenidos, instancias, ajusteGrado, semEjecutar, desaloja, chCpu>>
      /\ Vuelve("escucha")
  BY <1>1 DEF SaleEscucha, Sale, recVars, planVars, usrVars
<1>4. pc'["escucha"] = "recibe"
  BY <1>2, <1>3 DEF Vuelve, Sigue, Inicio, Hilos
<1>5. Respondiendo /\ p = cpuPid /\ p \in Pids /\ Marchan = {p} /\ colaExec = <<p>>
  BY <1>1, <1>2, <1>3, AtendidoMarcha
<1>6. desaloja /\ semEjecutar = 0
  BY <1>3, <1>5 DEF Respondiendo
<1>7. p \in Saliendo
  BY <1>1, <1>3, <1>5 DEF Saliendo
<1>8. EnCpu' = {} /\ Saliendo' = {}
  BY <1>3, <1>4, <1>6 DEF EnCpu, Saliendo
<1>9. Avance' = Avance /\ Libres' = Libres /\ Tenencias' = Tenencias
  BY <1>3, <1>4, SinRecursosIgual DEF SinRecursos, Medio, cpuVars
<1>10. Activos' = Activos \ {p}
  BY <1>2, <1>3, <1>5, ActivosVivas, ActivosVivasSig, VivasCambia DEF Viva, Estado
<1>11. ASSUME NEW r \in Recursos
       PROVE  Tenencias[p][r] = 0
  <2>1. DePar(p, r) = {}
    BY <1>3 DEF DePar, DeProceso
  <2>2. ~Aparece(Colas, p)
    BY <1>2, <1>5 DEF InvLugares, Ubicados, Ubica
  <2>3. Colas[EnRec(r)] = colaRec[r] /\ EnRec(r) \in Esperas /\ DOMAIN Colas = Esperas
    BY ColasNombres DEF Colas, ColasDe
  <2>4. ~Esta(colaRec[r], p)
    BY <2>2, <2>3 DEF Aparece
  <2>5. Cardinality(DePar(p, r)) = 0
    BY <2>1, FS_EmptySet
  <2>6. \A q \in Pids : \A s \in Recursos :
           Tenencias[q][s] = Cardinality(DePar(q, s)) - IF Esta(colaRec[s], q) THEN 1 ELSE 0
    BY <1>2, TenenciasOK
  <2> QED BY <1>5, <2>4, <2>5, <2>6
<1>12. Ideal!Terminar(p)
  BY <1>3, <1>7, <1>8, <1>9, <1>10, <1>11 DEF Ideal!Terminar
<1> QED BY <1>5, <1>12 DEF PasoIdeal, Ideal!Next, Ideal!Proceso

\* The abstract module counts as this one does.
LEMMA CuentaIgual == \A S : Ideal!Cardinality(S) = Cardinality(S)
  BY DEF Ideal!Cardinality, Cardinality

\* A slot is free, so the processes that are in are fewer than the degree.
LEMMA AdmiteIdeal ==
  ASSUME InvFiel, InvFiel', Admite, ~Cae, UNCHANGED cpuVars
  PROVE  PasoIdeal
<1>1. PICK p : p = Head(colaNew)
  OBVIOUS
<1>2. /\ pc \in [Hilos -> Puntos] /\ pidDe \in [Hilos -> Pids \cup {0}] /\ InvLugares
      /\ argDe \in [Hilos -> Argumentos] /\ InvLugares' /\ estado \in [Pids -> Estados]
  BY TiposFiel DEF InvFiel, InvGrado
<1>3. /\ semMulti > 0 /\ colaNew # <<>> /\ colaNew' = Tail(colaNew)
      /\ colaReady' = Append(colaReady, p)
      /\ estado' = [estado EXCEPT ![p] = Estado("READY", Nada)]
      /\ Vuelve("nuevos") \/ Sigue("nuevos", "replanifica", 0, Nada)
      /\ UNCHANGED <<script, contador, colaExec, colaExit, colaIO, colaRec,
                     retenidos, instancias, ajusteGrado, semEjecutar, desaloja, chCpu>>
  BY <1>1 DEF Admite, Iniciar, recVars, usrVars, canales
<1>4. /\ pc'["escucha"] = pc["escucha"] /\ pidDe'["escucha"] = pidDe["escucha"]
      /\ argDe'["escucha"] = argDe["escucha"]
  BY <1>2, <1>3 DEF Vuelve, Sigue, Hilos
<1>5. EnCpu' = EnCpu /\ Saliendo' = Saliendo
  BY <1>3, <1>4, TurnoIgual DEF MismoTurno
<1>6. Avance' = Avance /\ Libres' = Libres /\ Tenencias' = Tenencias
  BY <1>3, <1>4, SinRecursosIgual DEF SinRecursos, cpuVars
<1>7. p \in Pids
  BY <1>1, <1>2, <1>3, TiposLugares, HeadTailProperties
<1>8. Activos' = Activos \cup {p}
  BY <1>2, <1>3, <1>7, ActivosVivas, ActivosVivasSig, VivasCambia DEF Viva, Estado
<1>9. Cardinality(Activos) < Grado + ajusteGrado
  <2>1. semMulti + Cardinality(Activos) = Grado + ajusteGrado
    BY DEF InvFiel, InvGrado, GradoConservado
  <2>2. semMulti \in Nat /\ Cardinality(Activos) \in Nat
    BY <1>2, TiposGrado, ActivosVivas, VivasFinitas
  <2>3. Grado + ajusteGrado \in Int
    BY <1>2, TiposGrado, GradoAssumption
  <2> QED BY <1>3, <2>1, <2>2, <2>3
<1>10. Ideal!Admitir
  BY <1>1, <1>3, <1>5, <1>6, <1>8, <1>9, CuentaIgual DEF Ideal!Admitir
<1> QED BY <1>10 DEF PasoIdeal, Ideal!Next

\* The processor is free when a thread chooses: nobody was chosen yet, or escucha attended
\* to what took the last one out.
LEMMA EligeIdeal ==
  ASSUME InvFiel, InvFiel', Movimiento, NEW t \in Hilos, Elige(t), ~Cae, UNCHANGED cpuVars
  PROVE  PasoIdeal
<1>1. PICK p : p = Head(colaReady)
  OBVIOUS
<1>2. /\ pc \in [Hilos -> Puntos] /\ pidDe \in [Hilos -> Pids \cup {0}] /\ InvLugares
      /\ argDe \in [Hilos -> Argumentos] /\ InvLugares' /\ InvDespacho
  BY TiposFiel DEF InvFiel, InvGrado
<1>3. /\ pc[t] = "elige" /\ colaReady # <<>> /\ colaReady' = Tail(colaReady)
      /\ colaExec' = <<p>> /\ semEjecutar' = semEjecutar + 1 /\ Vuelve(t)
      /\ UNCHANGED <<script, contador, colaNew, colaExit, colaIO, colaRec, semMulti,
                     retenidos, instancias, ajusteGrado, desaloja, chCpu>>
  BY <1>1 DEF Elige, recVars, usrVars, canales
<1>4. \/ t = "escucha" /\ Elegir
      \/ t = "nuevos" /\ Inicial
  BY <1>2, <1>3, Eligen DEF Eligiendo
<1>5. semEjecutar' = 1 /\ pc'["escucha"] = "recibe"
  <2>1. pc["escucha"] = "recibe" \/ t = "escucha"
    BY <1>4 DEF Inicial
  <2>2. semEjecutar = 0
    BY <1>4 DEF Elegir, Inicial
  <2> QED BY <1>2, <1>3, <2>1, <2>2 DEF Vuelve, Sigue, Inicio, Hilos
<1>6. EnCpu = {} /\ Saliendo = {}
  <2>1. CASE t = "escucha"
    BY <1>3, <2>1 DEF EnCpu, Saliendo
  <2>2. CASE t = "nuevos" /\ Inicial
    <3>1. colaExec = <<>> /\ pc["escucha"] = "recibe"
      BY <1>2, <2>2 DEF Inicial, InvLugares, Ubicados
    <3> QED BY <3>1 DEF EnCpu, Saliendo
  <2> QED BY <1>4, <2>1, <2>2
<1>7. p \in Pids
  BY <1>1, <1>2, <1>3, TiposLugares, HeadTailProperties
<1>8. EnCpu' = {p} /\ Saliendo' = {}
  BY <1>3, <1>5, <1>7 DEF EnCpu, Saliendo
<1>9. Activos' = Activos
  BY <1>2, <1>3, ActivosIguales
<1>10. Avance' = Avance /\ Libres' = Libres /\ Tenencias' = Tenencias
  <2>1. pc["escucha"] \notin Medio
    BY <1>3, <1>4 DEF Inicial, Medio
  <2> QED BY <1>3, <1>5, <2>1, SinRecursosIgual DEF SinRecursos, Medio, cpuVars
<1>11. Ideal!Elegir
  BY <1>1, <1>3, <1>6, <1>8, <1>9, <1>10 DEF Ideal!Elegir
<1> QED BY <1>11 DEF PasoIdeal, Ideal!Next

\* END_OF_IO_*: the first of the queue.
LEMMA FinIOIdeal ==
  ASSUME InvFiel, InvFiel', Movimiento, NEW i \in Interfaces, FinIO(i), ~Cae, UNCHANGED cpuVars
  PROVE  PasoIdeal
<1>1. InvLugares /\ InvLugares'
  BY DEF InvFiel, InvGrado
<1>2. /\ colaIO[i] # <<>> /\ colaIO' = [colaIO EXCEPT ![i] = Tail(@)]
      /\ colaReady' = Append(colaReady, Head(colaIO[i]))
      /\ UNCHANGED <<script, contador, colaNew, colaExec, colaExit, colaRec, semMulti,
                     semEjecutar, retenidos, instancias, ajusteGrado, desaloja, chCpu>>
      /\ UNCHANGED <<pc, pidDe, argDe>>
  BY DEF FinIO, Iniciar, recVars, usrVars, admVars, hilosVars
<1>3. EnCpu' = EnCpu /\ Saliendo' = Saliendo
  BY <1>2, TurnoIgual DEF MismoTurno
<1>4. Avance' = Avance /\ Libres' = Libres /\ Tenencias' = Tenencias
  BY <1>2, SinRecursosIgual DEF SinRecursos, cpuVars
<1>5. Activos' = Activos
  BY <1>1, <1>2, ActivosIguales
<1>6. Ideal!Despertar(i)
  BY <1>2, <1>3, <1>4, <1>5 DEF Ideal!Despertar
<1> QED BY <1>6 DEF PasoIdeal, Ideal!Next

\* INICIAR_PROCESO.
LEMMA IniciarProcesoIdeal ==
  ASSUME InvFiel, InvFiel', NEW s \in Scripts, IniciarProceso(s), UNCHANGED cpuVars
  PROVE  PasoIdeal
<1>1. PICK n : n = contador
  OBVIOUS
<1>2. /\ InvLugares /\ InvLugares' /\ estado \in [Pids -> Estados] /\ n \in Int /\ n >= 1
  BY <1>1, TiposFiel, TiposLugares DEF InvFiel, InvGrado
<1>3. /\ n <= MaxPid /\ contador' = n + 1 /\ script' = [script EXCEPT ![n] = s]
      /\ colaNew' = Append(colaNew, n)
      /\ estado' = [estado EXCEPT ![n] = Estado("NEW", Nada)]
      /\ UNCHANGED <<colaReady, colaExec, colaExit, colaIO, colaRec, semMulti,
                     semEjecutar, retenidos, instancias, ajusteGrado, desaloja, chCpu>>
      /\ UNCHANGED <<pc, pidDe, argDe>>
  BY <1>1 DEF IniciarProceso, recVars, planVars, usrVars, hilosVars
<1>4. n \in Pids /\ (contador - 1) + 1 = n /\ contador' - 1 = n
  BY <1>1, <1>2, <1>3, MaxPidAssumption DEF Pids
<1>5. EnCpu' = EnCpu /\ Saliendo' = Saliendo
  BY <1>3, TurnoIgual DEF MismoTurno
<1>6. Avance' = Avance /\ Libres' = Libres /\ Tenencias' = Tenencias
  BY <1>3, SinRecursosIgual DEF SinRecursos, cpuVars
<1>7. Activos' = Activos
  <2>1. Ubica(Colas, estado, contador, Marchan, PorMarcar)
    BY <1>2 DEF InvLugares, Ubicados
  <2>2. estado[n].tipo = "NADA"
    BY <1>1, <1>2, <1>4, <2>1 DEF Ubica
  <2>3. n \notin Vivas(estado)
    BY <2>2 DEF Vivas, Viva
  <2>4. Vivas(estado') = Vivas(estado) \ {n}
    BY <1>2, <1>3, <1>4, VivasCambia DEF Viva, Estado
  <2> QED BY <1>2, <2>3, <2>4, ActivosVivas, ActivosVivasSig
<1>8. Ideal!Crear(s)
  BY <1>3, <1>4, <1>5, <1>6, <1>7 DEF Ideal!Crear
<1> QED BY <1>8 DEF PasoIdeal, Ideal!Next

\* MULTIPROGRAMACION: a slot is withdrawn only when it is free.
LEMMA GradoIdeal ==
  ASSUME InvFiel, InvFiel', UNCHANGED cpuVars,
         RestaGrado \/ \E n \in Grados : SubeGrado(n)
  PROVE  PasoIdeal
<1>1. InvLugares /\ InvLugares' /\ pc \in [Hilos -> Puntos]
  BY TiposFiel DEF InvFiel, InvGrado
<1>2. /\ UNCHANGED <<script, contador, estado, colaNew, colaReady, colaExec, colaExit, colaIO,
                     colaRec, semEjecutar, retenidos, instancias, desaloja, chCpu>>
      /\ UNCHANGED <<pidDe, argDe>> /\ pc'["escucha"] = pc["escucha"]
  BY <1>1 DEF RestaGrado, SubeGrado, colasVars, recVars, planVars, procVars, canales, hilosVars,
              Hilos
<1>3. EnCpu' = EnCpu /\ Saliendo' = Saliendo
  BY <1>2, TurnoIgual DEF MismoTurno
<1>4. Avance' = Avance /\ Libres' = Libres /\ Tenencias' = Tenencias
  BY <1>2, SinRecursosIgual DEF SinRecursos, cpuVars
<1>5. Activos' = Activos
  BY <1>2, ActivosQuietos
<1>6. Grado + ajusteGrado' \in Nat /\ Cardinality(Activos) <= Grado + ajusteGrado'
  <2>1. semMulti' + Cardinality(Activos)  = Grado + ajusteGrado'
    <3>1. GradoConservado'
      BY DEF InvFiel, InvGrado
    <3> QED BY <1>5, <3>1 DEF GradoConservado
  <2>2. semMulti' \in Nat
    BY <1>1 DEF InvLugares, InvColas, InvNegativas, InvRecursos, TypeOK, KernelTypeOK,
                SemaforosOK
  <2>3. Cardinality(Activos) \in Nat
    BY <1>1, ActivosVivas, VivasFinitas
  <2> QED BY <2>1, <2>2, <2>3
<1>7. Ideal!CambiarGrado
  BY <1>2, <1>3, <1>4, <1>5, <1>6, CuentaIgual DEF Ideal!CambiarGrado
<1> QED BY <1>7 DEF PasoIdeal, Ideal!Next

----------------------------------------------------------------------------
(* Every step is one of the abstract system, or none.                      *)

LEMMA EscuchaIdeal ==
  ASSUME InvFiel, InvFiel', SinDenegar, Movimiento, Escucha, UNCHANGED cpuVars
  PROVE  PasoIdeal
<1>1. CASE Cae \/ FinContinua \/ EnviaIO \/ MarcaBlock
  BY <1>1, KernelInvisible
<1>2. ~FinDesalojaUsuario /\ ~PaqueteSinExec
  <2>1. ~desalojaUsuario
    BY TiposFiel DEF InvDespacho, SoloUnaVez
  <2>2. chCpu # <<>> /\ pc["escucha"] = "recibe" => colaExec # <<>>
    <3>1. <<cpuPid>> # <<>>
      OBVIOUS
    <3> QED BY <3>1, PaqueteUnico
  <2> QED BY <2>1, <2>2 DEF FinDesalojaUsuario, PaqueteSinExec, Llega
<1>3. CASE FinDesaloja
  BY <1>3, FinDesalojaInvisible
<1>4. CASE PideIO
  BY <1>4, PideIOIdeal
<1>5. CASE PideWait \/ PideSignal
  BY <1>5, PideRecursoInvisible
<1>6. CASE EvaluaWait
  BY <1>6, EvaluaWaitIdeal
<1>7. CASE Signal /\ ~Cae
  BY <1>7, SignalIdeal
<1>8. CASE PideExit \/ (PideDesconocido /\ ~Cae)
  BY <1>8, AcabaIdeal
<1>9. CASE SaleEscucha
  BY <1>9, SaleIdeal
<1> QED BY <1>1, <1>2, <1>3, <1>4, <1>5, <1>6, <1>7, <1>8, <1>9 DEF Escucha

LEMMA ConsolaIdeal ==
  ASSUME "FINALIZAR_PROCESO" \notin Comandos, InvFiel, InvFiel', SinDenegar, Movimiento,
         Consola, UNCHANGED cpuVars
  PROVE  PasoIdeal
<1>1. CASE IniciarPlanificacion \/ DetenerPlanificacion \/ Detiene \/ ProcesoEstado
  BY <1>1, KernelInvisible
<1>2. CASE RestaGrado \/ \E n \in Grados : SubeGrado(n)
  BY <1>2, GradoIdeal
<1>3. CASE \E n \in Grados : BajaGrado(n)
  BY <1>3, KernelInvisible
<1>4. CASE \E s \in Scripts : IniciarProceso(s)
  BY <1>4, IniciarProcesoIdeal
<1>5. ~PideDesalojo /\ ~EsperaUsuario /\ ~SumaInstancia /\ ~SaleConsola
  BY TiposFiel DEF PideDesalojo, EsperaUsuario, SumaInstancia, SaleConsola, SinFinalizar
<1>6. ASSUME NEW p \in Pids
      PROVE  /\ ~FinalizaNew(p) /\ ~FinalizaReady(p) /\ ~FinalizaExec(p)
             /\ ~FinalizaIO(p) /\ ~FinalizaRecurso(p) /\ ~FinalizaPerdido(p)
  BY DEF FinalizaNew, FinalizaReady, FinalizaExec, FinalizaIO, FinalizaRecurso,
         FinalizaPerdido, Finaliza, Acepta, Lee
<1> QED BY <1>1, <1>2, <1>3, <1>4, <1>5, <1>6 DEF Consola

LEMMA KernelIdeal ==
  ASSUME "FINALIZAR_PROCESO" \notin Comandos, InvFiel, InvFiel', SinDenegar, Movimiento,
         KernelNext, UNCHANGED cpuVars
  PROVE  PasoIdeal
<1>1. CASE Cae
  BY <1>1, KernelInvisible
<1>2. CASE Nuevos /\ ~Cae
  BY <1>2, KernelInvisible, AdmiteIdeal DEF Nuevos
<1>3. CASE Escucha
  BY <1>3, EscuchaIdeal
<1>4. CASE Consola
  BY <1>4, ConsolaIdeal
<1>5. CASE Despacha /\ ~Cae
  BY <1>5, DespachaInvisible
<1>6. ASSUME NEW t \in Hilos, Hilo(t), ~Cae
      PROVE  PasoIdeal
  <2>1. CASE Replanifica(t)
    BY <2>1, KernelInvisible
  <2>2. CASE Elige(t)
    BY <1>6, <2>2, EligeIdeal
  <2>3. CASE Libera(t)
    BY <2>3, LiberaInvisible
  <2>4. CASE LiberaEvalua(t)
    BY <1>6, <2>4, LiberaEvaluaIdeal
  <2> QED BY <1>6, <2>1, <2>2, <2>3, <2>4 DEF Hilo
<1>7. ASSUME NEW i \in Interfaces, FinIO(i), ~Cae
      PROVE  PasoIdeal
  BY <1>7, FinIOIdeal
<1> QED BY <1>1, <1>2, <1>3, <1>4, <1>5, <1>6, <1>7 DEF KernelNext

LEMMA IdealNext ==
  ASSUME "FINALIZAR_PROCESO" \notin Comandos, SinDenegar
  PROVE  InvFiel /\ InvFiel' /\ [Next]_vars => PasoIdeal
<1> SUFFICES ASSUME InvFiel, InvFiel', [Next]_vars PROVE PasoIdeal
  OBVIOUS
<1>1. Movimiento
  BY TiposFiel, TodoMueve
<1>2. CASE KernelNext /\ UNCHANGED cpuVars
  BY <1>1, <1>2, KernelIdeal
<1>3. CASE CpuInstruccion /\ UNCHANGED kernelVars
  BY <1>3, InstruccionIdeal
<1>4. CASE \/ (CpuNext /\ ~CpuInstruccion /\ UNCHANGED kernelVars)
           \/ (\E i \in Interfaces : Interfaz(i))
           \/ UNCHANGED vars
  BY <1>1, <1>4, RestoInvisible
<1> QED BY <1>2, <1>3, <1>4 DEF Next, Caido

LEMMA IdealInit == Init => Ideal!Init
<1> SUFFICES ASSUME Init PROVE Ideal!Init
  OBVIOUS
<1>1. /\ pc = [t \in Hilos |-> Inicio(t)] /\ chCpu = <<>> /\ contador = 1
      /\ script = [p \in Pids |-> <<>>] /\ ajusteGrado = 0
      /\ colaNew = <<>> /\ colaReady = <<>> /\ colaExec = <<>> /\ colaExit = <<>>
      /\ colaIO = [i \in Interfaces |-> <<>>]
      /\ colaRec = [r \in Recursos |-> <<>>]
      /\ instancias = Instancias /\ retenidos = {}
      /\ ejecutadas = [p \in Pids |-> 0]
  BY DEF Init, CanalesInit, KernelInit, CpuInit
<1>2. pc["escucha"] = "recibe" /\ pc["consola"] = "lee" /\ Len(chCpu) = 0
  BY <1>1, EmptySeq DEF Inicio, Hilos
<1>3. EnCpu = {} /\ Saliendo = {}
  BY <1>1, <1>2 DEF EnCpu, Saliendo
<1>4. Activos = {}
  BY <1>1 DEF Activos, Procesos, Pids
<1>5. Avance = [p \in Pids |-> 0]
  BY <1>1, <1>2 DEF Avance, Atendidas, PorAtender
<1>6. Libres = Instancias
  <2>1. ASSUME NEW r \in Recursos
        PROVE  Saldadas(r) = Instancias[r] /\ Instancias[r] >= 0
    BY <1>1, <1>2, InstanciasAssumption DEF Saldadas, En
  <2>2. \A r \in Recursos : Libres[r] = Instancias[r]
    BY <2>1, InstanciasAssumption, LibresValen
  <2> QED BY <2>2, InstanciasAssumption, LibresValen
<1>7. Tenencias = [p \in Pids |-> [r \in Recursos |-> 0]]
  <2>1. ASSUME NEW p \in Pids, NEW r \in Recursos
        PROVE  Cardinality(DePar(p, r)) - (IF Esta(colaRec[r], p) THEN 1 ELSE 0) = 0
    <3>1. DePar(p, r) = {}
      BY <1>1 DEF DePar
    <3>2. ~Esta(colaRec[r], p)
      BY <1>1 DEF Esta
    <3> QED BY <3>1, <3>2, FS_EmptySet
  <2> QED BY <2>1 DEF Tenencias
<1>8. Grado + ajusteGrado = Grado /\ contador - 1 = 0
  BY <1>1, GradoAssumption
<1> QED BY <1>1, <1>3, <1>4, <1>5, <1>6, <1>7, <1>8 DEF Ideal!Init

----------------------------------------------------------------------------

\* With threads, semaphores, messages and interruptions the simulator does what a FIFO
\* scheduler on one processor does: whatever the order in which recibir_respuesta_cpu,
\* replanificar, administrar_procesos_new, the interfaces, the console and the CPU run,
\* each process executes its instructions in order and each takes effect once, resources
\* are granted and handed over first come first served, and no more processes are in than
\* the degree allows (kernel.c, cpu.c).
THEOREM ImplementaSiempre ==
  ASSUME "FINALIZAR_PROCESO" \notin Comandos, SinDenegar
  PROVE  Spec => Implementa
<1>1. InvFiel /\ InvFiel' /\ [Next]_vars => [Ideal!Next]_Ideal!vars
  BY IdealNext DEF PasoIdeal
<1>2. Spec => []InvFiel
  BY FielInit, InvFielNext, PTL DEF Spec
<1> QED BY <1>1, <1>2, IdealInit, PTL DEF Spec, Implementa, Ideal!Spec

----------------------------------------------------------------------------
(* No thread of the kernel dereferences a null pointer, whatever the order *)
(* of the steps, when FINALIZAR_PROCESO is not used and the scripts are    *)
(* sound: they ask for known interfaces and resources, no I/O is denied    *)
(* and a process signals a resource at most as often as it waited for it.  *)
(* Each pop and each removal is excluded by an invariant of its own; what  *)
(* was left to say is the account between the instructions a process has   *)
(* had attended to and the instances it holds.                             *)

\* The positions up to n at which s has operation o on r.
Pide(s, o, r, n) == {j \in 1..n : s[j].op = o /\ s[j].arg = r}

ScriptsSanos ==
    \A s \in Scripts : \A k \in 1..Len(s) :
        /\ s[k].op # "IO_DENEGADA"
        /\ s[k].op = "IO" => s[k].arg \in Interfaces
        /\ s[k].op \in {"WAIT", "SIGNAL"} => s[k].arg \in Recursos
        /\ s[k].op = "SIGNAL" => Cardinality(Pide(s, "SIGNAL", s[k].arg, k))
                                 <= Cardinality(Pide(s, "WAIT", s[k].arg, k))

\* With S retained, p holds of each resource what the first n instructions of s left it.
Tiene(S, p, r) == {x \in S : x.pid = p /\ x.rec = r}

Cuadra(S, p, s, n) ==
    \A r \in Recursos : Cardinality(Tiene(S, p, r)) + Cardinality(Pide(s, "SIGNAL", r, n))
                        = Cardinality(Pide(s, "WAIT", r, n))

\* A process that has not begun to end.
Vale(p) ==
    /\ estado[p].tipo # "EXIT"
    /\ ~(pc["escucha"] \in Terminando /\ pidDe["escucha"] = p)

Saldo == \A p \in Pids : Vale(p) => Cuadra(retenidos, p, script[p], Atendidas(p))

\* The retention whose instance exit_prima has returned is still in the list.
Liberando ==
    pc["escucha"] = "liberaEvalua"
        => Tiene(retenidos, pidDe["escucha"], argDe["escucha"]) # {}

InvCaida == InvFiel /\ InvIO /\ Saldo /\ Liberando

----------------------------------------------------------------------------
(* The account of one process.                                             *)

\* One instruction more.
LEMMA PideMas ==
  ASSUME NEW s, NEW o, NEW r, NEW n \in Nat
  PROVE  /\ Cardinality(Pide(s, o, r, n)) \in Nat
         /\ s[n + 1].op = o /\ s[n + 1].arg = r
              => Cardinality(Pide(s, o, r, n + 1)) = Cardinality(Pide(s, o, r, n)) + 1
         /\ ~(s[n + 1].op = o /\ s[n + 1].arg = r)
              => Pide(s, o, r, n + 1) = Pide(s, o, r, n)
<1>1. IsFiniteSet(Pide(s, o, r, n))
  <2>1. Pide(s, o, r, n) \subseteq 1..n /\ IsFiniteSet(1..n)
    BY FS_Interval DEF Pide
  <2> QED BY <2>1, FS_Subset
<1>2. 1..(n + 1) = 1..n \cup {n + 1} /\ n + 1 \notin 1..n
  OBVIOUS
<1>3. ASSUME s[n + 1].op = o, s[n + 1].arg = r
      PROVE  Cardinality(Pide(s, o, r, n + 1)) = Cardinality(Pide(s, o, r, n)) + 1
  <2>1. Pide(s, o, r, n + 1) = Pide(s, o, r, n) \cup {n + 1} /\ n + 1 \notin Pide(s, o, r, n)
    BY <1>2, <1>3 DEF Pide
  <2> QED BY <1>1, <2>1, FS_AddElement
<1>4. ASSUME ~(s[n + 1].op = o /\ s[n + 1].arg = r)
      PROVE  Pide(s, o, r, n + 1) = Pide(s, o, r, n)
  BY <1>2, <1>4 DEF Pide
<1> QED BY <1>1, <1>3, <1>4, FS_CardinalityType

\* One that neither waits nor signals.
LEMMA CuadraAvanza ==
  ASSUME NEW S, NEW p, NEW s, NEW n \in Nat, Cuadra(S, p, s, n),
         s[n + 1].op \notin {"WAIT", "SIGNAL"}
  PROVE  Cuadra(S, p, s, n + 1)
<1>1. \A r : /\ Pide(s, "SIGNAL", r, n + 1) = Pide(s, "SIGNAL", r, n)
             /\ Pide(s, "WAIT", r, n + 1) = Pide(s, "WAIT", r, n)
  BY PideMas
<1> QED BY <1>1 DEF Cuadra

LEMMA CuadraWait ==
  ASSUME NEW S, IsFiniteSet(S), NEW p, NEW s, NEW n \in Nat, Cuadra(S, p, s, n),
         s[n + 1].op = "WAIT", NEW y, y \notin S, y.pid = p, y.rec = s[n + 1].arg
  PROVE  Cuadra(S \cup {y}, p, s, n + 1)
<1> SUFFICES ASSUME NEW r \in Recursos
             PROVE  Cardinality(Tiene(S \cup {y}, p, r))
                      + Cardinality(Pide(s, "SIGNAL", r, n + 1))
                    = Cardinality(Pide(s, "WAIT", r, n + 1))
  BY DEF Cuadra
<1>1. /\ Pide(s, "SIGNAL", r, n + 1) = Pide(s, "SIGNAL", r, n)
      /\ Cardinality(Pide(s, "SIGNAL", r, n)) \in Nat
      /\ Cardinality(Pide(s, "WAIT", r, n)) \in Nat
  BY PideMas
<1>2. Cardinality(Tiene(S, p, r)) + Cardinality(Pide(s, "SIGNAL", r, n))
      = Cardinality(Pide(s, "WAIT", r, n))
  BY DEF Cuadra
<1>3. IsFiniteSet(Tiene(S, p, r)) /\ Cardinality(Tiene(S, p, r)) \in Nat
  <2>1. Tiene(S, p, r) \subseteq S
    BY DEF Tiene
  <2> QED BY <2>1, FS_Subset, FS_CardinalityType
<1>4. CASE y.rec = r
  <2>1. Tiene(S \cup {y}, p, r) = Tiene(S, p, r) \cup {y} /\ y \notin Tiene(S, p, r)
    BY <1>4 DEF Tiene
  <2>2. Cardinality(Tiene(S \cup {y}, p, r)) = Cardinality(Tiene(S, p, r)) + 1
    BY <1>3, <2>1, FS_AddElement
  <2>3. Cardinality(Pide(s, "WAIT", r, n + 1)) = Cardinality(Pide(s, "WAIT", r, n)) + 1
    BY <1>4, PideMas
  <2> QED BY <1>1, <1>2, <1>3, <2>2, <2>3
<1>5. CASE y.rec # r
  <2>1. Tiene(S \cup {y}, p, r) = Tiene(S, p, r)
    BY <1>5 DEF Tiene
  <2>2. Pide(s, "WAIT", r, n + 1) = Pide(s, "WAIT", r, n)
    BY <1>5, PideMas
  <2> QED BY <1>1, <1>2, <2>1, <2>2
<1> QED BY <1>4, <1>5

LEMMA CuadraSignal ==
  ASSUME NEW S, IsFiniteSet(S), NEW p, NEW s, NEW n \in Nat, Cuadra(S, p, s, n),
         s[n + 1].op = "SIGNAL", NEW y \in S, y.pid = p, y.rec = s[n + 1].arg
  PROVE  Cuadra(S \ {y}, p, s, n + 1)
<1> SUFFICES ASSUME NEW r \in Recursos
             PROVE  Cardinality(Tiene(S \ {y}, p, r))
                      + Cardinality(Pide(s, "SIGNAL", r, n + 1))
                    = Cardinality(Pide(s, "WAIT", r, n + 1))
  BY DEF Cuadra
<1>1. /\ Pide(s, "WAIT", r, n + 1) = Pide(s, "WAIT", r, n)
      /\ Cardinality(Pide(s, "SIGNAL", r, n)) \in Nat
      /\ Cardinality(Pide(s, "WAIT", r, n)) \in Nat
  BY PideMas
<1>2. Cardinality(Tiene(S, p, r)) + Cardinality(Pide(s, "SIGNAL", r, n))
      = Cardinality(Pide(s, "WAIT", r, n))
  BY DEF Cuadra
<1>3. IsFiniteSet(Tiene(S, p, r)) /\ Cardinality(Tiene(S, p, r)) \in Nat
  <2>1. Tiene(S, p, r) \subseteq S
    BY DEF Tiene
  <2> QED BY <2>1, FS_Subset, FS_CardinalityType
<1>4. CASE y.rec = r
  <2>1. Tiene(S \ {y}, p, r) = Tiene(S, p, r) \ {y} /\ y \in Tiene(S, p, r)
    BY <1>4 DEF Tiene
  <2>2. Cardinality(Tiene(S \ {y}, p, r)) = Cardinality(Tiene(S, p, r)) - 1
    BY <1>3, <2>1, FS_RemoveElement
  <2>3. Cardinality(Pide(s, "SIGNAL", r, n + 1)) = Cardinality(Pide(s, "SIGNAL", r, n)) + 1
    BY <1>4, PideMas
  <2> QED BY <1>1, <1>2, <1>3, <2>2, <2>3
<1>5. CASE y.rec # r
  <2>1. Tiene(S \ {y}, p, r) = Tiene(S, p, r)
    BY <1>5 DEF Tiene
  <2>2. Pide(s, "SIGNAL", r, n + 1) = Pide(s, "SIGNAL", r, n)
    BY <1>5, PideMas
  <2> QED BY <1>1, <1>2, <2>1, <2>2
<1> QED BY <1>4, <1>5

\* What others hold is none of its business.
LEMMA CuadraAjena ==
  ASSUME NEW S, NEW q, NEW s, NEW n, Cuadra(S, q, s, n), NEW y, y.pid # q
  PROVE  Cuadra(S \cup {y}, q, s, n) /\ Cuadra(S \ {y}, q, s, n)
<1>1. \A r : Tiene(S \cup {y}, q, r) = Tiene(S, q, r) /\ Tiene(S \ {y}, q, r) = Tiene(S, q, r)
  BY DEF Tiene
<1> QED BY <1>1 DEF Cuadra

\* Nothing has been attended to yet.
LEMMA CuadraCero ==
  ASSUME NEW S, NEW p, NEW s, NEW t, Cuadra(S, p, s, 0)
  PROVE  Cuadra(S, p, t, 0)
<1>1. \A o, r : Pide(s, o, r, 0) = {} /\ Pide(t, o, r, 0) = {}
  BY DEF Pide
<1> QED BY <1>1 DEF Cuadra

----------------------------------------------------------------------------
(* The process that has the CPU.                                           *)

LEMMA SanosSinDenegar == ScriptsSanos => SinDenegar
BY DEF ScriptsSanos, SinDenegar

LEMMA TiposCaida ==
  ASSUME InvCaida
  PROVE  /\ pc \in [Hilos -> Puntos] /\ pidDe \in [Hilos -> Pids \cup {0}]
         /\ argDe \in [Hilos -> Argumentos] /\ LocalesOK
         /\ estado \in [Pids -> Estados] /\ script \in [Pids -> Scripts \cup {<<>>}]
         /\ ejecutadas \in [Pids -> Nat]
         /\ retenidos \subseteq Retencion /\ IsFiniteSet(retenidos)
         /\ InvLugares /\ InvDespacho /\ InvNegativas /\ InvSemaforos
         /\ SinFinalizar /\ Ejecutado /\ Saliente
BY TiposFiel DEF InvCaida

\* While its packet is pending.
LEMMA QuienPide ==
  ASSUME InvCaida, ScriptsSanos, PorAtender
  PROVE  /\ Respondiendo /\ cpuPid \in Pids /\ ~desaloja
         /\ Vale(cpuPid) /\ estado[cpuPid].tipo = "EXEC"
         /\ Len(chCpu) = 2 => pc["escucha"] = "recibe"
         /\ pc["escucha"] \in {"waitEvalua", "signalEvalua"} => pidDe["escucha"] = cpuPid
         /\ script[cpuPid] \in Scripts /\ Len(script[cpuPid]) \in Nat
         /\ ejecutadas[cpuPid] \in 1..Len(script[cpuPid])
         /\ Cuadra(retenidos, cpuPid, script[cpuPid], ejecutadas[cpuPid] - 1)
         /\ ejecutadas[cpuPid] - 1 \in Nat
<1>1. /\ Respondiendo /\ cpuPid \in Pids /\ ~desaloja /\ estado[cpuPid].tipo = "EXEC"
      /\ pc["escucha"] \notin {"libera", "liberaEvalua"} /\ ejecutadas[cpuPid] - 1 \in Nat
      /\ Len(chCpu) = 2 => pc["escucha"] = "recibe"
      /\ pc["escucha"] \in {"waitEvalua", "signalEvalua"} => pidDe["escucha"] = cpuPid
      /\ script[cpuPid] \in Scripts /\ Len(script[cpuPid]) \in Nat
      /\ ejecutadas[cpuPid] \in 1..Len(script[cpuPid])
  BY SanosSinDenegar, QuienAtiende DEF InvCaida
<1>2. Vale(cpuPid)
  BY <1>1 DEF Vale, Terminando
<1>3. Cuadra(retenidos, cpuPid, script[cpuPid], ejecutadas[cpuPid] - 1)
  <2>1. Atendidas(cpuPid) = ejecutadas[cpuPid] - 1
    BY DEF Atendidas
  <2> QED BY <1>1, <1>2, <2>1 DEF InvCaida, Saldo
<1> QED BY <1>1, <1>2, <1>3

----------------------------------------------------------------------------
(* No thread dereferences a null pointer.                                  *)

\* A signal finds the retention it removes,
LEMMA SignalTiene ==
  ASSUME InvCaida, ScriptsSanos, pc["escucha"] = "signalEvalua"
  PROVE  Tiene(retenidos, pidDe["escucha"], argDe["escucha"]) # {}
<1> DEFINE p == cpuPid
           s == script[cpuPid]
           k == ejecutadas[cpuPid]
           r == argDe["escucha"]
<1>1. /\ pidDe["escucha"] = p /\ s \in Scripts /\ k \in 1..Len(s) /\ k - 1 \in Nat
      /\ Cuadra(retenidos, p, s, k - 1) /\ Len(s) \in Nat
  BY QuienPide DEF PorAtender
<1>2. s[k].op = "SIGNAL" /\ s[k].arg = r
  BY DEF InvCaida, InvFiel, PaqueteFiel, Ultima
<1>3. r \in Recursos /\ Cardinality(Pide(s, "SIGNAL", r, k)) <= Cardinality(Pide(s, "WAIT", r, k))
  BY <1>1, <1>2 DEF ScriptsSanos
<1> HIDE DEF p, s, k, r
<1> DEFINE n == k - 1
<1>4. n \in Nat /\ n + 1 = k /\ Cuadra(retenidos, p, s, n)
  BY <1>1
<1> HIDE DEF n
<1>5. /\ Cardinality(Pide(s, "SIGNAL", r, k)) = Cardinality(Pide(s, "SIGNAL", r, n)) + 1
      /\ Pide(s, "WAIT", r, k) = Pide(s, "WAIT", r, n)
      /\ Cardinality(Pide(s, "SIGNAL", r, n)) \in Nat
  <2>1. s[n + 1].op = "SIGNAL" /\ s[n + 1].arg = r
    BY <1>2, <1>4
  <2> QED BY <1>4, <2>1, PideMas
<1>6. Cardinality(Tiene(retenidos, p, r)) + Cardinality(Pide(s, "SIGNAL", r, n))
      = Cardinality(Pide(s, "WAIT", r, n))
  BY <1>3, <1>4 DEF Cuadra
<1>7. ASSUME Tiene(retenidos, p, r) = {} PROVE FALSE
  <2>1. Cardinality(Tiene(retenidos, p, r)) = 0
    BY <1>7, FS_EmptySet
  <2> QED BY <1>3, <1>5, <1>6, <2>1
<1> QED BY <1>1, <1>7 DEF r, p

\* and the process it has to wake up.
LEMMA SignalPuede ==
  ASSUME InvCaida, ScriptsSanos, pc["escucha"] \in {"signalEvalua", "liberaEvalua"}
  PROVE  ~SignalNula(pidDe["escucha"], argDe["escucha"])
<1>1. DePar(pidDe["escucha"], argDe["escucha"]) # {}
  <2>1. Tiene(retenidos, pidDe["escucha"], argDe["escucha"]) # {}
    BY SignalTiene DEF InvCaida, Liberando
  <2> QED BY <2>1 DEF Tiene, DePar
<1>0. PICK a : a = argDe["escucha"]
  OBVIOUS
<1>2. a \in Recursos
  BY <1>0, TiposCaida DEF LocalesOK, Hilos, ConRecurso
<1>3. /\ instancias[a] \in Int /\ colaRec[a] \in Seq(Pids)
      /\ Len(colaRec[a]) = IF Saldadas(a) < 0 THEN -Saldadas(a) ELSE 0
      /\ InvNegativas /\ SinFinalizar
  BY <1>2, LargoDeCola, TiposCaida
<1>4. Saldadas(a) = instancias[a] - 1
  BY <1>0, <1>3, ConsolaNoDebe DEF Saldadas, En
<1>5. ASSUME SeDesbloquea(a) PROVE colaRec[a] # <<>>
  <2>1. Len(colaRec[a]) = 1 - instancias[a] /\ instancias[a] <= 0
    BY <1>3, <1>4, <1>5 DEF SeDesbloquea
  <2>2. Len(colaRec[a]) # 0
    BY <1>3, <2>1
  <2> QED BY <2>2, EmptySeq
<1> QED BY <1>0, <1>1, <1>5 DEF SignalNula

\* A packet names what the kernel knows.
LEMMA PaqueteConocido ==
  ASSUME InvCaida, ScriptsSanos, chCpu # <<>>, pc["escucha"] = "recibe"
  PROVE  /\ Head(chCpu).motivo # "FIN" => Len(chCpu) = 2
         /\ Head(chCpu).motivo = "FIN" => Len(chCpu) = 1
         /\ Head(chCpu) = chCpu[1] /\ Len(Tail(chCpu)) = Len(chCpu) - 1
         /\ Head(chCpu).pid = cpuPid /\ colaExec # <<>>
         /\ ~Desconocido(Head(chCpu))
<1>1. /\ Head(chCpu).motivo # "FIN" => Len(chCpu) = 2
      /\ Head(chCpu).motivo = "FIN" => Len(chCpu) = 1
      /\ Head(chCpu) = chCpu[1] /\ Len(Tail(chCpu)) = Len(chCpu) - 1
      /\ Head(chCpu).pid = cpuPid /\ colaExec # <<>>
  BY SanosSinDenegar, PaqueteUnico, EmptySeq DEF InvCaida
<1>2. CASE Head(chCpu).motivo = "FIN"
  BY <1>1, <1>2 DEF Desconocido
<1>3. CASE Head(chCpu).motivo # "FIN"
  <2>1. /\ script[cpuPid] \in Scripts /\ ejecutadas[cpuPid] \in 1..Len(script[cpuPid])
    BY <1>1, <1>3, QuienPide DEF PorAtender
  <2>2. Concuerda(chCpu[1], script[cpuPid][ejecutadas[cpuPid]])
    BY <1>1, <1>3 DEF InvCaida, InvFiel, PaqueteFiel, Ultima
  <2>3. ~Desconocido(chCpu[1])
    BY <2>1, <2>2 DEF ScriptsSanos, Desconocido, Concuerda, CumpleInterfaz
  <2> QED BY <1>1, <2>3
<1> QED BY <1>2, <1>3

\* Every pop finds its process: what a thread does, the fall is none of it.
LEMMA NadieCae ==
  ASSUME "FINALIZAR_PROCESO" \notin Comandos, InvCaida, ScriptsSanos, KernelNext
  PROVE  caido' = caido
<1>0. /\ InvLugares /\ InvDespacho /\ InvSemaforos /\ SinFinalizar
      /\ InvIO
  BY TiposCaida DEF InvCaida
<1>1. CASE Nuevos
  <2>1. pc["nuevos"] = "esperaMulti" => colaNew # <<>>
    <3>1. semNew \in Nat
      BY <1>0 DEF InvSemaforos, TypeOK, KernelTypeOK, SemaforosOK
    <3>2. colaNew = <<>> => Len(colaNew) = 0
      BY EmptySeq
    <3> QED BY <1>0, <3>1, <3>2 DEF InvSemaforos, SemaforosCuentan
  <2> QED BY <1>1, <2>1 DEF Nuevos, EsperaNew, Admite
<1>2. CASE Escucha
  <2>1. CASE FinDesaloja \/ FinDesalojaUsuario \/ FinContinua
    BY <2>1 DEF FinDesaloja, FinDesalojaUsuario, FinContinua
  <2>2. ~PaqueteSinExec
    BY PaqueteConocido DEF PaqueteSinExec, Llega
  <2>3. ~PideDesconocido
    BY PaqueteConocido DEF PideDesconocido, Llega
  <2>4. CASE PideIO \/ EnviaIO \/ MarcaBlock
    BY <2>4 DEF PideIO, EnviaIO, MarcaBlock
  <2>5. CASE PideWait \/ EvaluaWait \/ PideSignal
    BY <2>5 DEF PideWait, EvaluaWait, PideSignal
  <2>6. CASE Signal
    <3>1. ~SignalNula(pidDe["escucha"], argDe["escucha"])
      BY <2>6, SignalPuede DEF Signal
    <3> QED BY <2>6, <3>1 DEF Signal, EvaluaSignal
  <2>7. CASE PideExit \/ SaleEscucha
    BY <2>7 DEF PideExit, SaleEscucha, Sale
  <2> QED BY <1>2, <2>1, <2>2, <2>3, <2>4, <2>5, <2>6, <2>7 DEF Escucha
<1>3. CASE Consola
  <2>1. CASE \E s \in Scripts : IniciarProceso(s)
    BY <2>1 DEF IniciarProceso
  <2>2. CASE IniciarPlanificacion \/ DetenerPlanificacion \/ Detiene
    BY <2>2 DEF IniciarPlanificacion, DetenerPlanificacion, Detiene
  <2>3. CASE (\E n \in Grados : SubeGrado(n) \/ BajaGrado(n)) \/ RestaGrado \/ ProcesoEstado
    BY <2>3 DEF SubeGrado, BajaGrado, RestaGrado, ProcesoEstado, kernelVars
  <2>4. ~PideDesalojo /\ ~EsperaUsuario /\ ~SumaInstancia /\ ~SaleConsola
    BY <1>0 DEF PideDesalojo, EsperaUsuario, SumaInstancia, SaleConsola, SinFinalizar
  <2>5. ASSUME NEW p \in Pids
        PROVE  /\ ~FinalizaNew(p) /\ ~FinalizaReady(p) /\ ~FinalizaExec(p)
               /\ ~FinalizaIO(p) /\ ~FinalizaRecurso(p) /\ ~FinalizaPerdido(p)
    BY DEF FinalizaNew, FinalizaReady, FinalizaExec, FinalizaIO, FinalizaRecurso,
           FinalizaPerdido, Finaliza, Acepta, Lee
  <2> QED BY <1>3, <2>1, <2>2, <2>3, <2>4, <2>5 DEF Consola
<1>4. CASE Despacha
  <2>1. semEjecutar > 0 => colaExec # <<>>
    BY <1>0, DeQuienEsElTurno DEF Elegido
  <2> QED BY <1>4, <2>1 DEF Despacha
<1>5. ASSUME NEW t \in Hilos, Hilo(t)
      PROVE  caido' = caido
  <2>1. CASE Replanifica(t) \/ Libera(t)
    BY <2>1 DEF Replanifica, Libera
  <2>2. CASE Elige(t)
    <3>1. colaReady # <<>>
      <4>1. colaReady = <<>> => Len(colaReady) = 0
        BY EmptySeq
      <4> QED BY <1>0, <2>2, <4>1 DEF Elige, InvSemaforos, SemaforosCuentan
    <3> QED BY <2>2, <3>1 DEF Elige
  <2>3. CASE LiberaEvalua(t)
    <3>1. t = "escucha" /\ pc[t] = "liberaEvalua"
      BY <1>0, <2>3 DEF LiberaEvalua, Hilos, SinFinalizar
    <3>2. ~SignalNula(pidDe[t], argDe[t])
      BY <3>1, SignalPuede
    <3> QED BY <2>3, <3>2 DEF LiberaEvalua, EvaluaSignal
  <2> QED BY <1>5, <2>1, <2>2, <2>3 DEF Hilo
<1>6. ASSUME NEW i \in Interfaces, FinIO(i)
      PROVE  caido' = caido
  <2>1. /\ ioFin[i] \in Seq(Pids) /\ ioPedidos[i] \in Seq(Pids) /\ colaIO[i] \in Seq(Pids)
        /\ colaIO[i] = ioFin[i] \o ioPedidos[i] \o EnMano(i)
    BY <1>0 DEF InvIO, TypeOK, CanalesTypeOK, KernelTypeOK, ColasOK, IOEnOrden, EnMano
  <2>2. EnMano(i) \in Seq(Pids)
    <3>1. pc["escucha"] = "esperaPlani" => pidDe["escucha"] \in Pids
      BY TiposCaida DEF LocalesOK, Hilos, ConPid, ConInterfaz
    <3> QED BY <3>1 DEF EnMano
  <2>3. Len(colaIO[i]) = Len(ioFin[i]) + Len(ioPedidos[i]) + Len(EnMano(i))
    BY <2>1, <2>2, ConcatProperties
  <2>4. ioFin[i] # <<>> => Len(ioFin[i]) > 0
    BY <2>1, EmptySeq
  <2>5. Len(colaIO[i]) > 0
    <3>1. Len(ioFin[i]) > 0
      BY <1>6, <2>4 DEF FinIO
    <3>2. Len(ioPedidos[i]) \in Nat /\ Len(EnMano(i)) \in Nat /\ Len(ioFin[i]) \in Nat
      BY <2>1, <2>2, LenProperties
    <3>3. \A a, b, c \in Nat : a > 0 => a + b + c > 0
      OBVIOUS
    <3> QED BY <2>3, <3>1, <3>2, <3>3
  <2>6. colaIO[i] # <<>>
    BY <2>5, EmptySeq
  <2> QED BY <1>6, <2>6 DEF FinIO
<1> QED BY <1>1, <1>2, <1>3, <1>4, <1>5, <1>6 DEF KernelNext

----------------------------------------------------------------------------
(* The account of every process.                                           *)

\* What a step has to preserve, besides what RefinamientoProofs shows.
CaidaSig == Saldo' /\ Liberando'

\* No process comes back once it has ended.
Finales == \A p \in Pids : estado[p].tipo = "EXIT" => estado'[p].tipo = "EXIT"

LEMMA FinalesNext ==
  ASSUME "FINALIZAR_PROCESO" \notin Comandos, InvCaida, ScriptsSanos, [Next]_vars
  PROVE  Finales
<1>1. ExitPaso /\ \A p \in Pids : ~Denegado(p)
  BY TiposCaida, SanosSinDenegar, NadieDenegado, LugaresSiguiente
<1> QED BY <1>1 DEF ExitPaso, Finales

\* Where escucha has a packet or a process in hand.
Ocupada == Medio \cup {"libera"}

\* A step that attends to nothing and executes nothing.
QuietoLibro ==
    /\ UNCHANGED <<script, retenidos, ejecutadas>>
    /\ chCpu' = chCpu \/ (Len(chCpu) # 2 /\ Len(chCpu') # 2)
    /\ \/ /\ pc'["escucha"] = pc["escucha"] /\ pidDe'["escucha"] = pidDe["escucha"]
          /\ argDe'["escucha"] = argDe["escucha"]
       \/ pc["escucha"] \notin Ocupada /\ pc'["escucha"] \notin Ocupada
    /\ cpuPid' = cpuPid \/ ~PorAtender

LEMMA QuietoCuadra ==
  ASSUME InvCaida, Finales, QuietoLibro
  PROVE  CaidaSig
<1> USE DEF QuietoLibro, Ocupada, Medio
<1>1. PorAtender' <=> PorAtender
  BY DEF PorAtender
<1>2. ASSUME NEW p \in Pids, Vale(p)'
      PROVE  Cuadra(retenidos', p, script'[p], Atendidas(p)')
  <2>1. Vale(p)
    BY <1>2 DEF Vale, Finales, Terminando
  <2>2. Atendidas(p)' = Atendidas(p)
    BY <1>1 DEF Atendidas
  <2> QED BY <2>1, <2>2 DEF InvCaida, Saldo
<1>3. Saldo'
  BY <1>2 DEF Saldo
<1>4. Liberando'
  BY DEF InvCaida, Liberando
<1> QED BY <1>3, <1>4 DEF CaidaSig

\* A step of escucha about the process of the CPU: the accounts of the others are
\* left alone.
LEMMA CuadraUno ==
  ASSUME InvCaida, Finales, UNCHANGED <<script, ejecutadas, cpuPid>>,
         \A q \in Pids \ {cpuPid} :
            Cuadra(retenidos, q, script[q], ejecutadas[q])
              => Cuadra(retenidos', q, script[q], ejecutadas[q]),
         Vale(cpuPid)' => Cuadra(retenidos', cpuPid, script[cpuPid], Atendidas(cpuPid)')
  PROVE  Saldo'
<1> SUFFICES ASSUME NEW q \in Pids, Vale(q)'
             PROVE  Cuadra(retenidos', q, script'[q], Atendidas(q)')
  BY DEF Saldo
<1>1. CASE q = cpuPid
  BY <1>1
<1>2. CASE q # cpuPid
  <2>1. Atendidas(q)' = ejecutadas[q] /\ Atendidas(q) = ejecutadas[q]
    BY <1>2 DEF Atendidas
  <2>2. pc["escucha"] \in Terminando => pidDe["escucha"] = cpuPid
    BY TiposCaida, AtendidoMarcha DEF Terminando
  <2>3. Vale(q)
    BY <1>2, <2>2 DEF Vale, Finales
  <2> QED BY <1>2, <2>1, <2>3 DEF InvCaida, Saldo
<1> QED BY <1>1, <1>2

\* A packet other than FIN_INSTRUCCION is taken.
LEMMA LlegaCaida ==
  ASSUME InvCaida, ScriptsSanos, NEW motivos, Llega(motivos), "FIN" \notin motivos,
         CargaPcb(Head(chCpu))
  PROVE  /\ PorAtender /\ Len(chCpu') = 1 /\ Head(chCpu).pid = cpuPid
         /\ Concuerda(Head(chCpu), Ultima(cpuPid)) /\ Head(chCpu).motivo \in motivos
         /\ pc["escucha"] = "recibe"
BY SanosSinDenegar, LlegaPaquete DEF InvCaida

\* IO_* neither takes nor gives an instance.
LEMMA PideIOCaida ==
  ASSUME InvCaida, ScriptsSanos, Finales, PideIO, UNCHANGED cpuVars
  PROVE  CaidaSig
<1>1. /\ Llega({"IO"}) /\ "FIN" \notin {"IO"} /\ CargaPcb(Head(chCpu))
      /\ UNCHANGED <<script, retenidos>> /\ UNCHANGED <<ejecutadas, cpuPid>>
      /\ pc'["escucha"] = "esperaPlani"
  BY TiposCaida DEF PideIO, Sigue, Hilos, recVars, cpuVars
<1>2. /\ PorAtender /\ Len(chCpu') = 1 /\ Concuerda(Head(chCpu), Ultima(cpuPid))
      /\ Head(chCpu).motivo = "IO"
  BY <1>1, LlegaCaida
<1>3. ~PorAtender'
  BY <1>1, <1>2 DEF PorAtender
<1>4. Ultima(cpuPid).op = "IO"
  BY <1>2 DEF Concuerda
<1>5. Cuadra(retenidos, cpuPid, script[cpuPid], ejecutadas[cpuPid])
  <2> DEFINE n == ejecutadas[cpuPid] - 1
  <2>1. /\ n \in Nat /\ n + 1 = ejecutadas[cpuPid] /\ Cuadra(retenidos, cpuPid, script[cpuPid], n)
    BY <1>2, QuienPide
  <2> HIDE DEF n
  <2>2. script[cpuPid][n + 1].op \notin {"WAIT", "SIGNAL"}
    BY <1>4, <2>1 DEF Ultima
  <2>3. Cuadra(retenidos, cpuPid, script[cpuPid], n + 1)
    BY <2>1, <2>2, CuadraAvanza
  <2> QED BY <2>1, <2>3
<1>6. Atendidas(cpuPid)' = ejecutadas[cpuPid]
  BY <1>1, <1>3 DEF Atendidas
<1>7. Saldo'
  BY <1>1, <1>5, <1>6, CuadraUno
<1> QED BY <1>1, <1>3, <1>7 DEF CaidaSig, Liberando

\* The first half of a wait or of a signal.
LEMMA PideRecursoCaida ==
  ASSUME InvCaida, ScriptsSanos, Finales, PideWait \/ PideSignal, UNCHANGED cpuVars
  PROVE  CaidaSig
<1>1. \E m \in {"WAIT", "SIGNAL"} :
         /\ Llega({m}) /\ CargaPcb(Head(chCpu))
         /\ argDe'["escucha"] = Head(chCpu).arg
         /\ pc'["escucha"] = IF m = "WAIT" THEN "waitEvalua" ELSE "signalEvalua"
  BY TiposCaida DEF PideWait, PideSignal, Sigue, Hilos
<1>2. UNCHANGED <<script, retenidos>> /\ UNCHANGED <<ejecutadas, cpuPid>>
  BY DEF PideWait, PideSignal, cpuVars
<1>3. PICK m \in {"WAIT", "SIGNAL"} :
         /\ Llega({m}) /\ CargaPcb(Head(chCpu)) /\ "FIN" \notin {m}
         /\ argDe'["escucha"] = Head(chCpu).arg
         /\ pc'["escucha"] = IF m = "WAIT" THEN "waitEvalua" ELSE "signalEvalua"
  BY <1>1
<1>4. /\ PorAtender /\ Len(chCpu') = 1 /\ Concuerda(Head(chCpu), Ultima(cpuPid))
      /\ Head(chCpu).motivo = m
  BY <1>3, LlegaCaida
<1>5. PorAtender'
  BY <1>3 DEF PorAtender
<1>6. Cuadra(retenidos, cpuPid, script[cpuPid], Atendidas(cpuPid)')
  <2>1. Atendidas(cpuPid)' = ejecutadas[cpuPid] - 1
    BY <1>2, <1>5 DEF Atendidas
  <2> QED BY <1>4, <2>1, QuienPide
<1>7. Saldo'
  BY <1>2, <1>6, CuadraUno
<1>8. Liberando'
  BY <1>3 DEF Liberando
<1> QED BY <1>7, <1>8 DEF CaidaSig

\* The second half of a wait: it is recorded.
LEMMA EvaluaWaitCaida ==
  ASSUME InvCaida, ScriptsSanos, Finales, EvaluaWait, UNCHANGED cpuVars
  PROVE  CaidaSig
<1>1. /\ pc["escucha"] = "waitEvalua" /\ pc'["escucha"] = "recibe"
      /\ Anota(pidDe["escucha"], argDe["escucha"])
      /\ UNCHANGED <<script, chCpu>> /\ UNCHANGED <<ejecutadas, cpuPid>>
  BY TiposCaida DEF EvaluaWait, Vuelve, Sigue, Inicio, Hilos, cpuVars
<1>2. PorAtender /\ ~PorAtender'
  <2>1. Len(chCpu) # 2
    BY <1>1, LargoMensajes, TiposCaida
  <2> QED BY <1>1, <2>1 DEF PorAtender
<1>3. PICK k \in 1..MaxRetenidos :
         /\ \A x \in retenidos : x.n < k
         /\ retenidos' = retenidos
              \cup {[n |-> k, pid |-> pidDe["escucha"], rec |-> argDe["escucha"]]}
  BY <1>1 DEF Anota
<1> DEFINE y == [n |-> k, pid |-> pidDe["escucha"], rec |-> argDe["escucha"]]
           n == ejecutadas[cpuPid] - 1
<1>4. y \notin retenidos
  <2>1. y \in retenidos => k < k
    BY <1>3
  <2> QED BY <2>1
<1>5. /\ n \in Nat /\ n + 1 = ejecutadas[cpuPid] /\ Cuadra(retenidos, cpuPid, script[cpuPid], n)
      /\ pidDe["escucha"] = cpuPid
  BY <1>1, <1>2, QuienPide
<1>6. Ultima(cpuPid).op = "WAIT" /\ Ultima(cpuPid).arg = argDe["escucha"]
  BY <1>1 DEF InvCaida, InvFiel, PaqueteFiel
<1>7. y.pid = cpuPid /\ y.rec = argDe["escucha"] /\ retenidos' = retenidos \cup {y}
  BY <1>3, <1>5
<1> HIDE DEF y, n
<1>8. script[cpuPid][n + 1].op = "WAIT" /\ y.rec = script[cpuPid][n + 1].arg
  BY <1>5, <1>6, <1>7 DEF Ultima
<1>9. Cuadra(retenidos \cup {y}, cpuPid, script[cpuPid], n + 1)
  BY <1>4, <1>5, <1>7, <1>8, CuadraWait, TiposCaida
<1>10. Atendidas(cpuPid)' = n + 1
  BY <1>1, <1>2, <1>5 DEF Atendidas
<1>11. \A q \in Pids \ {cpuPid} : Cuadra(retenidos, q, script[q], ejecutadas[q])
                                    => Cuadra(retenidos', q, script[q], ejecutadas[q])
  BY <1>7, CuadraAjena
<1>12. Saldo'
  BY <1>1, <1>7, <1>9, <1>10, <1>11, CuadraUno
<1> QED BY <1>1, <1>2, <1>12 DEF CaidaSig, Liberando

\* The second half of a signal: the retention leaves the list.
LEMMA SignalCaida ==
  ASSUME InvCaida, ScriptsSanos, Finales, Signal, UNCHANGED cpuVars
  PROVE  CaidaSig
<1>1. /\ pc["escucha"] = "signalEvalua" /\ pc'["escucha"] = "recibe"
      /\ Quita(pidDe["escucha"], argDe["escucha"])
      /\ UNCHANGED <<script, chCpu>> /\ UNCHANGED <<ejecutadas, cpuPid>>
  <2>1. pc["escucha"] = "signalEvalua" /\ UNCHANGED <<ejecutadas, cpuPid>>
    BY DEF Signal, cpuVars
  <2>2. ~SignalNula(pidDe["escucha"], argDe["escucha"])
    BY <2>1, SignalPuede
  <2>3. EvaluaSignal(pidDe["escucha"], argDe["escucha"]) /\ Vuelve("escucha")
    BY <2>2 DEF Signal
  <2> QED BY <2>1, <2>3, TiposCaida DEF EvaluaSignal, canales, Vuelve, Sigue, Inicio, Hilos
<1>2. PorAtender /\ ~PorAtender'
  <2>1. Len(chCpu) # 2
    BY <1>1, LargoMensajes, TiposCaida
  <2> QED BY <1>1, <2>1 DEF PorAtender
<1>3. PICK y \in DePar(pidDe["escucha"], argDe["escucha"]) : retenidos' = retenidos \ {y}
  BY <1>1 DEF Quita
<1> DEFINE n == ejecutadas[cpuPid] - 1
<1>4. /\ n \in Nat /\ n + 1 = ejecutadas[cpuPid] /\ Cuadra(retenidos, cpuPid, script[cpuPid], n)
      /\ pidDe["escucha"] = cpuPid
  BY <1>1, <1>2, QuienPide
<1>5. Ultima(cpuPid).op = "SIGNAL" /\ Ultima(cpuPid).arg = argDe["escucha"]
  BY <1>1 DEF InvCaida, InvFiel, PaqueteFiel
<1>6. y \in retenidos /\ y.pid = cpuPid /\ y.rec = argDe["escucha"]
  BY <1>3, <1>4 DEF DePar
<1> HIDE DEF n
<1>7. script[cpuPid][n + 1].op = "SIGNAL" /\ y.rec = script[cpuPid][n + 1].arg
  BY <1>4, <1>5, <1>6 DEF Ultima
<1>8. Cuadra(retenidos \ {y}, cpuPid, script[cpuPid], n + 1)
  BY <1>4, <1>6, <1>7, CuadraSignal, TiposCaida
<1>9. Atendidas(cpuPid)' = n + 1
  BY <1>1, <1>2, <1>4 DEF Atendidas
<1>10. \A q \in Pids \ {cpuPid} : Cuadra(retenidos, q, script[q], ejecutadas[q])
                                    => Cuadra(retenidos', q, script[q], ejecutadas[q])
  BY <1>3, <1>6, CuadraAjena
<1>11. Saldo'
  BY <1>1, <1>3, <1>8, <1>9, <1>10, CuadraUno
<1> QED BY <1>1, <1>2, <1>11 DEF CaidaSig, Liberando

\* exit_prima begins,
LEMMA PideExitCaida ==
  ASSUME InvCaida, ScriptsSanos, Finales, PideExit, UNCHANGED cpuVars
  PROVE  CaidaSig
<1>1. /\ Llega({"EXIT", "ERROR"}) /\ "FIN" \notin {"EXIT", "ERROR"} /\ CargaPcb(Head(chCpu))
      /\ UNCHANGED <<script, retenidos>> /\ UNCHANGED <<ejecutadas, cpuPid>>
      /\ pc'["escucha"] = "libera" /\ pidDe'["escucha"] = Head(chCpu).pid
  BY TiposCaida DEF PideExit, Sigue, Hilos, recVars, cpuVars
<1>2. Len(chCpu') = 1 /\ Head(chCpu).pid = cpuPid
  BY <1>1, LlegaCaida
<1>3. ~PorAtender' /\ ~Vale(cpuPid)'
  BY <1>1, <1>2 DEF PorAtender, Vale, Terminando
<1>4. Saldo'
  BY <1>1, <1>3, CuadraUno
<1> QED BY <1>1, <1>3, <1>4 DEF CaidaSig, Liberando

\* goes on ...
LEMMA TerminandoCaida ==
  ASSUME InvCaida, ScriptsSanos, pc["escucha"] \in Terminando
  PROVE  /\ pidDe["escucha"] = cpuPid /\ cpuPid \in Pids /\ ~PorAtender
<1>1. pidDe["escucha"] = cpuPid /\ cpuPid \in Pids
  BY TiposCaida, AtendidoMarcha DEF Terminando
<1>2. Len(chCpu) # 2
  BY QuienPide DEF PorAtender, Terminando
<1> QED BY <1>1, <1>2 DEF PorAtender, Terminando

LEMMA LiberaCaida ==
  ASSUME InvCaida, ScriptsSanos, Finales, NEW t \in Hilos, Libera(t), UNCHANGED cpuVars
  PROVE  CaidaSig
<1>1. t = "escucha" /\ pc["escucha"] = "libera"
  BY TiposCaida DEF Libera, Hilos, SinFinalizar
<1>2. PICK x \in DeProceso(pidDe["escucha"]) :
         Sigue("escucha", "liberaEvalua", pidDe["escucha"], x.rec)
  BY <1>1 DEF Libera
<1>3. /\ UNCHANGED <<script, retenidos, chCpu>> /\ UNCHANGED <<ejecutadas, cpuPid>>
      /\ pc'["escucha"] = "liberaEvalua" /\ pidDe'["escucha"] = pidDe["escucha"]
      /\ argDe'["escucha"] = x.rec
  BY <1>2, TiposCaida DEF Libera, Sigue, Hilos, canales, cpuVars
<1>4. pidDe["escucha"] = cpuPid /\ ~PorAtender
  BY <1>1, TerminandoCaida DEF Terminando
<1>5. ~PorAtender' /\ ~Vale(cpuPid)'
  BY <1>3, <1>4 DEF PorAtender, Vale, Terminando
<1>6. Saldo'
  BY <1>3, <1>5, CuadraUno
<1>7. Liberando'
  <2>1. x \in Tiene(retenidos, pidDe["escucha"], x.rec)
    BY DEF DeProceso, Tiene
  <2> QED BY <1>3, <2>1 DEF Liberando
<1> QED BY <1>6, <1>7 DEF CaidaSig

LEMMA LiberaEvaluaCaida ==
  ASSUME InvCaida, ScriptsSanos, Finales, NEW t \in Hilos, LiberaEvalua(t), UNCHANGED cpuVars
  PROVE  CaidaSig
<1>1. t = "escucha" /\ pc["escucha"] = "liberaEvalua"
  BY TiposCaida DEF LiberaEvalua, Hilos, SinFinalizar
<1>2. /\ EvaluaSignal(pidDe["escucha"], argDe["escucha"])
      /\ Sigue("escucha", "libera", pidDe["escucha"], Nada)
  BY <1>1, SignalPuede DEF LiberaEvalua
<1>3. /\ UNCHANGED <<script, chCpu>> /\ UNCHANGED <<ejecutadas, cpuPid>>
      /\ pc'["escucha"] = "libera" /\ pidDe'["escucha"] = pidDe["escucha"]
      /\ Quita(pidDe["escucha"], argDe["escucha"])
  BY <1>2, TiposCaida DEF EvaluaSignal, Sigue, Hilos, canales, cpuVars
<1>4. pidDe["escucha"] = cpuPid /\ ~PorAtender
  BY <1>1, TerminandoCaida DEF Terminando
<1>5. ~PorAtender' /\ ~Vale(cpuPid)'
  BY <1>3, <1>4 DEF PorAtender, Vale, Terminando
<1>6. PICK y \in DePar(pidDe["escucha"], argDe["escucha"]) : retenidos' = retenidos \ {y}
  BY <1>3 DEF Quita
<1>7. y.pid = cpuPid
  BY <1>4, <1>6 DEF DePar
<1>8. \A q \in Pids \ {cpuPid} : Cuadra(retenidos, q, script[q], ejecutadas[q])
                                    => Cuadra(retenidos', q, script[q], ejecutadas[q])
  BY <1>6, <1>7, CuadraAjena
<1>9. Saldo'
  BY <1>3, <1>5, <1>8, CuadraUno
<1> QED BY <1>3, <1>5, <1>9 DEF CaidaSig, Liberando

\* ... and ends.
LEMMA SaleCaida ==
  ASSUME InvCaida, ScriptsSanos, Finales, SaleEscucha, UNCHANGED cpuVars
  PROVE  CaidaSig
<1>1. /\ UNCHANGED <<script, retenidos, chCpu>> /\ UNCHANGED <<ejecutadas, cpuPid>>
      /\ pc["escucha"] = "libera" /\ pc'["escucha"] = "recibe"
      /\ estado' = [estado EXCEPT ![pidDe["escucha"]] = Estado("EXIT", Nada)]
  BY TiposCaida DEF SaleEscucha, Sale, Vuelve, Sigue, Inicio, Hilos, recVars, cpuVars
<1>2. pidDe["escucha"] = cpuPid /\ cpuPid \in Pids /\ ~PorAtender
  BY <1>1, TerminandoCaida DEF Terminando
<1>3. ~PorAtender' /\ ~Vale(cpuPid)'
  <2>1. estado'[cpuPid].tipo = "EXIT"
    BY <1>1, <1>2, TiposCaida DEF Estado
  <2> QED BY <1>1, <1>2, <2>1 DEF PorAtender, Vale
<1>4. Saldo'
  BY <1>1, <1>3, CuadraUno
<1> QED BY <1>1, <1>3, <1>4 DEF CaidaSig, Liberando

\* A process that begins has nothing and has asked for nothing.
LEMMA IniciarProcesoCaida ==
  ASSUME InvCaida, ScriptsSanos, Finales, NEW s \in Scripts, IniciarProceso(s),
         UNCHANGED cpuVars
  PROVE  CaidaSig
<1>1. /\ script' = [script EXCEPT ![contador] = s] /\ UNCHANGED <<retenidos, chCpu>>
      /\ UNCHANGED <<pc, pidDe, argDe>> /\ UNCHANGED <<ejecutadas, cpuPid>>
      /\ contador <= MaxPid
  BY DEF IniciarProceso, hilosVars, recVars, cpuVars
<1>2. contador \in Pids
  <2>1. contador \in 1..(MaxPid + 1)
    BY TiposCaida DEF InvSemaforos, TypeOK, KernelTypeOK, ProcesosOK
  <2> QED BY <1>1, <2>1, MaxPidAssumption DEF Pids
<1>3. ejecutadas[contador] = 0
  <2>1. script[contador] = <<>> /\ ejecutadas[contador] <= Len(script[contador])
    BY <1>2, TiposCaida DEF Ejecutado, Pids
  <2> QED BY <1>2, <2>1, TiposCaida, EmptySeq
<1>4. PorAtender' <=> PorAtender
  BY <1>1 DEF PorAtender
<1>5. PorAtender => cpuPid # contador /\ cpuPid \in Pids
  BY <1>3, QuienPide DEF InvCaida, InvFiel, PaqueteFiel
<1>6. Saldo'
  <2> SUFFICES ASSUME NEW q \in Pids, Vale(q)'
               PROVE  Cuadra(retenidos', q, script'[q], Atendidas(q)')
    BY DEF Saldo
  <2>1. Vale(q)
    BY <1>1 DEF Vale, Finales
  <2>2. Atendidas(q)' = Atendidas(q)
    BY <1>1, <1>4 DEF Atendidas
  <2>3. Cuadra(retenidos, q, script[q], Atendidas(q))
    BY <2>1 DEF InvCaida, Saldo
  <2>4. CASE q = contador
    <3>1. Atendidas(q) = 0
      BY <1>3, <1>5, <2>4 DEF Atendidas
    <3> QED BY <1>1, <2>2, <2>3, <3>1, CuadraCero
  <2>5. CASE q # contador
    BY <1>1, <1>2, <2>2, <2>3, <2>5, TiposCaida
  <2> QED BY <2>4, <2>5
<1>7. Liberando'
  BY <1>1 DEF InvCaida, Liberando
<1> QED BY <1>6, <1>7 DEF CaidaSig

\* The steps of the kernel that move no packet and no instance.
LEMMA KernelCaida ==
  ASSUME "FINALIZAR_PROCESO" \notin Comandos, InvCaida, ScriptsSanos, Finales, ~caido,
         KernelNext, UNCHANGED cpuVars
  PROVE  CaidaSig
<1>0. /\ pc \in [Hilos -> Puntos] /\ pidDe \in [Hilos -> Pids \cup {0}]
      /\ argDe \in [Hilos -> Argumentos] /\ SinFinalizar
  BY TiposCaida
<1>1. ~Cae
  <2>1. caido' = caido
    BY NadieCae
  <2> QED BY <2>1 DEF Cae
<1> USE DEF QuietoLibro, Ocupada, Medio, recVars, canales, hilosVars, cpuVars, Sigue, Vuelve,
            Inicio, Hilos
<1>2. CASE Nuevos
  BY <1>0, <1>1, <1>2, QuietoCuadra DEF Nuevos, EsperaNew, Admite
<1>3. CASE Escucha
  <2>1. CASE FinDesaloja \/ FinContinua
    <3>1. chCpu # <<>> /\ Head(chCpu).motivo = "FIN" /\ pc["escucha"] = "recibe"
      BY <2>1 DEF FinDesaloja, FinContinua, Llega
    <3>2. Len(chCpu) = 1 /\ Len(Tail(chCpu)) = 0
      BY <3>1, PaqueteConocido
    <3>3. chCpu' = Tail(chCpu) /\ UNCHANGED <<script, retenidos>>
      BY <2>1 DEF FinDesaloja, FinContinua
    <3>4. pc'["escucha"] \in {"recibe", "replanifica"}
      BY <1>0, <2>1, <3>1 DEF FinDesaloja, FinContinua
    <3>5. QuietoLibro
      BY <3>1, <3>2, <3>3, <3>4
    <3> QED BY <3>5, QuietoCuadra
  <2>2. ~FinDesalojaUsuario
    BY TiposCaida DEF FinDesalojaUsuario, InvDespacho, SoloUnaVez
  <2>3. ~PaqueteSinExec /\ ~PideDesconocido
    BY PaqueteConocido DEF PaqueteSinExec, PideDesconocido, Llega
  <2>4. CASE EnviaIO
    BY <1>0, <2>4, QuietoCuadra DEF EnviaIO
  <2>5. CASE MarcaBlock
    BY <1>0, <2>5, QuietoCuadra DEF MarcaBlock
  <2> QED BY <1>3, <2>1, <2>2, <2>3, <2>4, <2>5, PideIOCaida, PideRecursoCaida,
             EvaluaWaitCaida, SignalCaida, PideExitCaida, SaleCaida DEF Escucha
<1>4. CASE Consola
  <2>1. CASE IniciarPlanificacion \/ DetenerPlanificacion \/ Detiene
    BY <1>0, <2>1, QuietoCuadra DEF IniciarPlanificacion, DetenerPlanificacion, Detiene
  <2>2. CASE (\E n \in Grados : SubeGrado(n) \/ BajaGrado(n)) \/ RestaGrado \/ ProcesoEstado
    BY <1>0, <2>2, QuietoCuadra
       DEF SubeGrado, BajaGrado, RestaGrado, ProcesoEstado, kernelVars
  <2>3. ~PideDesalojo /\ ~EsperaUsuario /\ ~SumaInstancia /\ ~SaleConsola
    BY <1>0 DEF PideDesalojo, EsperaUsuario, SumaInstancia, SaleConsola, SinFinalizar
  <2>4. ASSUME NEW p \in Pids
        PROVE  /\ ~FinalizaNew(p) /\ ~FinalizaReady(p) /\ ~FinalizaExec(p)
               /\ ~FinalizaIO(p) /\ ~FinalizaRecurso(p) /\ ~FinalizaPerdido(p)
    BY DEF FinalizaNew, FinalizaReady, FinalizaExec, FinalizaIO, FinalizaRecurso,
           FinalizaPerdido, Finaliza, Acepta, Lee
  <2> QED BY <1>4, <2>1, <2>2, <2>3, <2>4, IniciarProcesoCaida DEF Consola
<1>5. CASE Despacha
  BY <1>0, <1>1, <1>5, QuietoCuadra DEF Despacha
<1>6. ASSUME NEW t \in Hilos, Replanifica(t) \/ Elige(t)
      PROVE  CaidaSig
  BY <1>0, <1>1, <1>6, QuietoCuadra DEF Replanifica, Elige
<1>7. ASSUME NEW i \in Interfaces, FinIO(i)
      PROVE  CaidaSig
  BY <1>0, <1>1, <1>7, QuietoCuadra DEF FinIO
<1> QED BY <1>2, <1>3, <1>4, <1>5, <1>6, <1>7, LiberaCaida, LiberaEvaluaCaida
        DEF KernelNext, Hilo

----------------------------------------------------------------------------
(* The steps of the CPU.                                                   *)

\* An instruction executed is an instruction to attend to, or one nobody has to.
LEMMA InstruccionCaida ==
  ASSUME InvCaida, ScriptsSanos, Finales, CpuInstruccion, UNCHANGED kernelVars
  PROVE  CaidaSig
<1> DEFINE n == ejecutadas[cpuPid]
<1>1. /\ UNCHANGED <<cpuPid, script>> /\ UNCHANGED <<pc, pidDe, argDe, estado, retenidos>>
      /\ ejecutadas' = [ejecutadas EXCEPT ![cpuPid] = @ + 1]
      /\ cpuPid \in Pids /\ n \in Nat /\ chCpu = <<>> /\ pc["escucha"] = "recibe"
      /\ \/ Len(chCpu') = 1 /\ script[cpuPid][n + 1].op = "COMPUTO"
         \/ Len(chCpu') = 2
  BY SanosSinDenegar, InstruccionEnvia DEF InvCaida, kernelVars, hilosVars, recVars, procVars
<1>2. ejecutadas'[cpuPid] = n + 1 /\ (PorAtender' <=> Len(chCpu') = 2)
  BY <1>1, TiposCaida DEF PorAtender
<1>3. ~PorAtender
  <2>1. Len(chCpu) = 0
    BY <1>1, EmptySeq
  <2> QED BY <1>1, <2>1 DEF PorAtender
<1>4. Saldo'
  <2> SUFFICES ASSUME NEW q \in Pids, Vale(q)'
               PROVE  Cuadra(retenidos', q, script'[q], Atendidas(q)')
    BY DEF Saldo
  <2>1. Vale(q)
    BY <1>1 DEF Vale
  <2>2. Cuadra(retenidos, q, script[q], ejecutadas[q])
    BY <1>3, <2>1 DEF InvCaida, Saldo, Atendidas
  <2>3. CASE q # cpuPid
    BY <1>1, <2>2, <2>3, TiposCaida DEF Atendidas
  <2>4. CASE q = cpuPid /\ Len(chCpu') = 2
    <3>1. Atendidas(q)' = n
      BY <1>1, <1>2, <2>4 DEF Atendidas
    <3> QED BY <1>1, <2>2, <2>4, <3>1
  <2>5. CASE q = cpuPid /\ Len(chCpu') # 2
    <3>1. Atendidas(q)' = n + 1
      BY <1>1, <1>2, <2>5 DEF Atendidas
    <3>2. script[q][n + 1].op \notin {"WAIT", "SIGNAL"}
      BY <1>1, <2>5
    <3>3. Cuadra(retenidos, q, script[q], n + 1)
      BY <1>1, <2>2, <2>5, <3>2, CuadraAvanza
    <3> QED BY <1>1, <3>1, <3>3
  <2> QED BY <2>3, <2>4, <2>5
<1>5. Liberando'
  BY <1>1 DEF InvCaida, Liberando
<1> QED BY <1>4, <1>5 DEF CaidaSig

\* The other steps of the CPU, and those of the interfaces.
LEMMA RestoCaida ==
  ASSUME InvCaida, ScriptsSanos, Finales,
         \/ CpuNext /\ ~CpuInstruccion /\ UNCHANGED kernelVars
         \/ \E i \in Interfaces : Interfaz(i)
         \/ UNCHANGED vars
  PROVE  CaidaSig
<1> USE DEF kernelVars, hilosVars, recVars, QuietoLibro
<1>1. PorAtender => chDispatch = <<>> /\ cpuFase = "responde"
  BY QuienPide DEF Respondiendo
<1>2. CASE UNCHANGED kernelVars /\ (CpuRecibePcb \/ CpuAtiendeInterrupcion)
  <2>1. ~PorAtender
    BY <1>1, <1>2 DEF CpuRecibePcb, CpuAtiendeInterrupcion
  <2> QED BY <1>2, <2>1, QuietoCuadra DEF CpuRecibePcb, CpuAtiendeInterrupcion, canales
<1>3. CASE UNCHANGED kernelVars /\ (CpuContinua \/ CpuNoContinua \/ CpuRecibeInterrupcion)
  BY <1>3, QuietoCuadra DEF CpuContinua, CpuNoContinua, CpuRecibeInterrupcion
<1>4. CASE \E i \in Interfaces : Interfaz(i)
  BY <1>4, QuietoCuadra DEF Interfaz, AtiendeInterfaz, cpuVars
<1>5. CASE UNCHANGED vars
  BY <1>5, QuietoCuadra DEF vars, cpuVars, canales
<1> QED BY <1>2, <1>3, <1>4, <1>5 DEF CpuNext

----------------------------------------------------------------------------
(* The inductive invariant.                                                *)

LEMMA CaidaInit == Init => InvCaida /\ NoCae
<1> SUFFICES ASSUME Init PROVE InvCaida /\ NoCae
  OBVIOUS
<1>1. /\ pc = [t \in Hilos |-> Inicio(t)] /\ chCpu = <<>> /\ caido = FALSE
      /\ retenidos = {} /\ ejecutadas = [p \in Pids |-> 0]
  BY DEF Init, CanalesInit, KernelInit, CpuInit
<1>2. pc["escucha"] = "recibe" /\ Len(chCpu) = 0
  BY <1>1, EmptySeq DEF Inicio, Hilos
<1>3. ~PorAtender
  BY <1>2 DEF PorAtender
<1>4. Liberando
  BY <1>2 DEF Liberando
<1>5. Saldo
  <2> SUFFICES ASSUME NEW p \in Pids, NEW r \in Recursos
               PROVE  Cardinality(Tiene(retenidos, p, r))
                        + Cardinality(Pide(script[p], "SIGNAL", r, Atendidas(p)))
                      = Cardinality(Pide(script[p], "WAIT", r, Atendidas(p)))
    BY DEF Saldo, Cuadra
  <2>1. Atendidas(p) = 0 /\ Tiene(retenidos, p, r) = {}
    BY <1>1, <1>3 DEF Atendidas, Tiene
  <2>2. \A o : Pide(script[p], o, r, 0) = {}
    BY DEF Pide
  <2>3. Cardinality({}) = 0
    BY FS_EmptySet
  <2> QED BY <2>1, <2>2, <2>3
<1>6. InvIO
  <2>1. /\ colaIO = [i \in Interfaces |-> <<>>] /\ ioFin = [i \in Interfaces |-> <<>>]
        /\ ioPedidos = [i \in Interfaces |-> <<>>]
    BY DEF Init, KernelInit, CanalesInit
  <2>2. <<>> \in Seq(Pids) /\ <<>> \o <<>> = <<>>
    BY EmptySeq, ConcatEmptySeq
  <2>3. IOEnOrden
    BY <1>2, <2>1, <2>2 DEF IOEnOrden
  <2> QED BY <2>3, TipoInit DEF InvIO
<1> QED BY <1>1, <1>4, <1>5, <1>6, FielInit DEF InvCaida, NoCae

LEMMA CaidaNext ==
  ASSUME "FINALIZAR_PROCESO" \notin Comandos, ScriptsSanos
  PROVE  InvCaida /\ NoCae /\ [Next]_vars => InvCaida' /\ NoCae'
<1> SUFFICES ASSUME InvCaida, NoCae, [Next]_vars
             PROVE  InvCaida' /\ NoCae'
  OBVIOUS
<1>1. InvFiel' /\ InvIO' /\ Finales
  BY InvFielNext, OrdenNext, SanosSinDenegar, FinalesNext DEF InvCaida
<1>2. ~caido
  BY DEF NoCae
<1>3. CaidaSig
  <2>1. CASE KernelNext /\ UNCHANGED cpuVars
    BY <1>1, <1>2, <2>1, KernelCaida
  <2>2. CASE CpuInstruccion /\ UNCHANGED kernelVars
    BY <1>1, <2>2, InstruccionCaida
  <2>3. CASE \/ (CpuNext /\ ~CpuInstruccion /\ UNCHANGED kernelVars)
             \/ (\E i \in Interfaces : Interfaz(i))
             \/ UNCHANGED vars
    BY <1>1, <2>3, RestoCaida
  <2> QED BY <2>1, <2>2, <2>3 DEF Next, Caido
<1>4. caido' = caido
  <2>1. CASE KernelNext
    BY <2>1, NadieCae
  <2>2. CASE UNCHANGED kernelVars
    BY <2>2 DEF kernelVars
  <2> QED BY <2>1, <2>2 DEF Next, Interfaz, Caido, vars
<1> QED BY <1>1, <1>2, <1>3, <1>4 DEF InvCaida, CaidaSig, NoCae

----------------------------------------------------------------------------

\* No thread of the kernel dereferences a null pointer: every pop (queue_pop of the queues
\* that semaphores, answers of interfaces or instances announce) finds a process, cola_exec
\* has one whenever it is dispatched or answered for, and every removal from
\* lista_recursos_retenidos finds what it removes.
THEOREM NoCaeNunca ==
  ASSUME "FINALIZAR_PROCESO" \notin Comandos, ScriptsSanos
  PROVE  Spec => []NoCae
BY CaidaInit, CaidaNext, PTL DEF Spec
=============================================================================
