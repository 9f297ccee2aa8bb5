--------------------------- MODULE MemoriaProofs ---------------------------
(***************************************************************************)
(* The memory process and the MMU: the types, the pages and frames, and    *)
(* the TLB.  Part of the invariant is what each thread of memoria is in    *)
(* the middle of: which pages of the process it resizes it has already     *)
(* obtained or taken out, and what it loaded of the bitmap; part is what   *)
(* the clients owe: a process that has ended, or was told OUT_OF_MEMORY,   *)
(* asks for nothing more.                                                  *)
(***************************************************************************)
EXTENDS Mmu, SequenceTheorems, WellFoundedInduction, NaturalsInduction, TLAPS

FasesCpu    == {"espera", "amplia", "carga", "marca", "reduce", "desmarca", "ajusta"}
FasesKernel == {"espera", "tabla", "libera", "desmarca"}

\* The locals of a thread whose phases are fs.
Locales(fs) ==
    [fase : fs, pid : Pids \cup {0}, i : Nat, n : Nat, j : Nat, byte : SUBSET Marcos,
     total : Nat]

Redimensionando == hc.fase \in {"amplia", "carga", "marca", "reduce", "desmarca"}

\* What the types leave out.
Formas ==
    /\ hc \in Locales(FasesCpu) /\ hc.total \in Tamanios \cup {0}
    /\ hk \in Locales(FasesKernel)
    /\ hc.fase = "espera" => hc = Espera
    /\ DOMAIN tabla = Pids

\* The clients: what may still be asked, and by whom.
Clientes ==
    /\ pedido.op = "NADA" => pedido = SinPedido
    /\ pedido.op # "NADA" =>
         pedido.pid \in Pids /\ pedido.pid \notin finalizados \cup sinMemoria /\ listo = 0
    /\ listo \notin finalizados \cup sinMemoria
    /\ \A j \in 1..Len(pedidosKernel) :
          pedidosKernel[j].op = "FINALIZAR" => pedidosKernel[j].pid \in finalizados
    /\ hk.fase \in {"libera", "desmarca"} => hk.pid \in finalizados

\* The process that is being resized has not ended, has a table and waits for the
\* answer; when it has been answered it may end, but the table is there until then.
EnCurso ==
    /\ Redimensionando =>
         /\ pedido.op = "RESIZE" /\ pedido.pid = hc.pid
         /\ hc.i <= hc.n
         /\ hc.fase \in {"carga", "marca", "desmarca"} => hc.i < hc.n
         /\ hc.fase \in {"amplia", "carga", "marca"} => hc.total = cant[hc.pid] + hc.n
         /\ hc.fase \in {"reduce", "desmarca"} => cant[hc.pid] = hc.total + hc.n
    /\ ~caida /\ hc.fase # "espera" /\ hc.pid \in Vivos => hc.pid \in registro

\* The pages the process being resized is known to have.
Obtenidas ==
    IF hc.fase \in {"amplia", "carga", "marca"} THEN cant[hc.pid] + hc.i ELSE hc.total

PaginasEnCurso ==
    hc.fase # "espera" /\ hc.pid \in Vivos \ sinMemoria
      => 0..(Obtenidas - 1) \subseteq DOMAIN tabla[hc.pid]

\* A page whose frame the thread of the kernel has freed: the table is still there.
Devuelta(p, g) == hk.fase \in {"libera", "desmarca"} /\ hk.pid = p /\ g < hk.i

\* No page that was not given back has the frame f.
SinTabla(f) == \A p \in Pids : \A g \in DOMAIN tabla[p] : Devuelta(p, g) \/ tabla[p][g] # f

\* The frame in the hands of each thread: the one of the CPU takes a free one, or gives
\* back one that is in no table, the one of the kernel gives back one of the table.
MarcoEnMano ==
    /\ ~pisado =>
         /\ hc.fase \in {"carga", "marca"} => hc.j \notin ocupados
         /\ hc.fase = "desmarca" => SinTabla(hc.j)
    /\ hk.fase = "desmarca" => hk.i \in DOMAIN tabla[hk.pid] /\ hk.j = tabla[hk.pid][hk.i]

\* The frames are apart and marked, those of the processes that have ended included,
\* until they are given back one by one.
Apartados ==
    ~pisado =>
        \A p, q \in Pids : \A g \in DOMAIN tabla[p], h \in DOMAIN tabla[q] :
          \/ Devuelta(p, g) \/ Devuelta(q, h)
          \/ tabla[p][g] = tabla[q][h] => p = q /\ g = h

Marcados ==
    ~pisado =>
        \A p \in Pids : \A g \in DOMAIN tabla[p] : Devuelta(p, g) \/ tabla[p][g] \in ocupados

\* The control of the threads, the pages, and the frames.
Control == TypeOK /\ Formas /\ Clientes /\ EnCurso
Hojas   == PaginasEnCurso /\ PaginasCompletas
Reparto == MarcoEnMano /\ Apartados /\ Marcados

InvMemoria == Control /\ Hojas /\ Reparto

\* The processes whose pages nothing takes out.
Estables == Vivos \ achicados

\* How many pages p may have.
Limite(p) == IF hc.pid = p THEN Obtenidas ELSE cant[p]

\* They have no page beyond the last one.
SinPaginasDeMas ==
    \A p \in Estables \ sinMemoria : DOMAIN tabla[p] \subseteq 0..(Limite(p) - 1)

\* What the TLB holds: a frame, never the -1 of a page that is not there.
Celda == [pid : Pids \cup {0}, pagina : Paginas \cup {0}, marco : Marcos]

Accesos == [pid : Pids \cup {0}, marco : Marcos, pagina : Int, faltan : Int,
            escribe : BOOLEAN, cpu : BOOLEAN]

FormasMmu ==
    /\ tlb \in Seq(Celda)
    /\ io \in [Pids -> [marco : Marcos \cup {-1}, pagina : Int, faltan : Int]]
    /\ acceso \in Accesos
    /\ DOMAIN contenido = Marcos
    /\ hc.fase \in {"reduce", "desmarca"} => hc.pid \in achicados

\* Who may be in the middle of an access: a process that ends there was denied one.
Accediendo ==
    /\ acceso # SinAcceso => acceso.pid \in Pids /\ acceso.pid \in Vivos \cup negados
    /\ copia # 0 => copia \in Pids /\ copia \in Vivos \cup negados
    /\ \A p \in Pids : io[p] # SinIO => p \in Vivos \cup negados

\* The entries of t name the frames of the tables.
Vigente(t) ==
    \A i \in 1..Len(t) :
      t[i].pid \in Estables => obtener_marco(t[i].pid, t[i].pagina) = t[i].marco

\* So does the frame an interface was given, and the one an access has got to, of a
\* process that named an address it has.
Fieles == Estables \ negados

IoVigente ==
    \A p \in Fieles :
      io[p] # SinIO => /\ io[p].marco = obtener_marco(p, io[p].pagina)
                       /\ io[p].marco # -1

AccesoVigente ==
    ~pisado /\ acceso # SinAcceso /\ acceso.pid \in Fieles =>
        acceso.marco = obtener_marco(acceso.pid, acceso.pagina) /\ acceso.marco # -1

InvMmu ==
    /\ InvMemoria /\ FormasMmu /\ Accediendo
    /\ SinPaginasDeMas /\ Vigente(tlb) /\ IoVigente /\ AccesoVigente

----------------------------------------------------------------------------
(* Frames: what the pages and the frames depend on.                        *)

LEMMA ConstantesOK ==
  /\ MaxPid \in Nat \ {0} /\ NMarcos \in Nat \ {0} /\ Tamanios \subseteq Nat
  /\ Terminan \subseteq Pids /\ \A n \in Tamanios \cup {0} : n \in Nat
BY MemoriaAssumption DEF Pids

\* The pages depend on the tables and on who may still use them.
LEMMA QuietoHojas ==
  ASSUME Hojas, UNCHANGED <<hc, cant, tabla>>, finalizados \subseteq finalizados',
         sinMemoria \subseteq sinMemoria'
  PROVE  Hojas'
BY DEF Hojas, PaginasEnCurso, PaginasCompletas, Obtenidas, Vivos

\* The frames depend on the tables, the bitmap and what the threads are at.
LEMMA QuietoReparto ==
  ASSUME Reparto, UNCHANGED <<tabla, ocupados, pisado>>,
         hc' = hc \/ hc'.fase \notin {"carga", "marca", "desmarca"},
         \/ hk' = hk
         \/ hk.fase \in {"espera", "tabla"} /\ hk'.fase \in {"espera", "tabla"}
  PROVE  Reparto'
<1>1. \A p, g : Devuelta(p, g)' <=> Devuelta(p, g)
  BY DEF Devuelta
<1>2. hk'.fase = "desmarca" => hk' = hk
  OBVIOUS
<1>3. MarcoEnMano'
  BY <1>1, <1>2 DEF Reparto, MarcoEnMano, SinTabla
<1>4. Apartados' /\ Marcados'
  BY <1>1 DEF Reparto, Apartados, Marcados
<1> QED BY <1>3, <1>4 DEF Reparto

\* A process whose frames are given back has ended.
LEMMA VivoNoDevuelve ==
  ASSUME Control, NEW p \in Vivos, NEW g
  PROVE  ~Devuelta(p, g)
BY DEF Control, Clientes, Devuelta, Vivos

\* What the clients see of it.
LEMMA RepartoEs == InvMemoria => SinMarcoCompartido /\ MarcadosOcupados
<1> SUFFICES ASSUME InvMemoria PROVE SinMarcoCompartido /\ MarcadosOcupados
  OBVIOUS
<1>1. \A p \in Vivos : p \in Pids /\ \A g : ~Devuelta(p, g)
  BY VivoNoDevuelve DEF InvMemoria, Vivos
<1>2. SinMarcoCompartido
  BY <1>1 DEF InvMemoria, Reparto, Apartados, SinMarcoCompartido
<1>3. MarcadosOcupados
  BY <1>1 DEF InvMemoria, Reparto, Marcados, MarcadosOcupados
<1> QED BY <1>2, <1>3

\* A store that overwrites nothing changes one bit.
LEMMA GuardaUno ==
  ASSUME NEW h, h.j \in Marcos, ocupados \subseteq Marcos, pisado \in BOOLEAN,
         NEW b, Guarda(h, b), b \subseteq Marcos
  PROVE  /\ ocupados' \subseteq Marcos /\ pisado' \in BOOLEAN
         /\ ~pisado' => /\ ~pisado
                        /\ b = h.byte \cup {h.j} => ocupados' = ocupados \cup {h.j}
                        /\ b = h.byte \ {h.j} => ocupados' = ocupados \ {h.j}
<1>1. h.j \in Byte(h.j)
  BY DEF Byte
<1>2. ~pisado' => ~pisado /\ h.byte = ocupados \cap Byte(h.j)
  BY DEF Guarda
<1>3. ocupados' = (ocupados \ Byte(h.j)) \cup b
  BY DEF Guarda
<1> QED BY <1>1, <1>2, <1>3 DEF Guarda

\* The thread of the CPU at work, and what it works on.
LEMMA Trabajando ==
  ASSUME InvMemoria
  PROVE  /\ hc \in Locales(FasesCpu) /\ hc.total \in Nat
         /\ hc.fase # "espera" => hc.pid \in Pids
         /\ hc.fase \in {"carga", "marca", "desmarca"} => hc.j \in Marcos
         /\ \A p \in Pids : cant[p] \in Nat
         /\ Redimensionando => /\ hc.pid \in Vivos /\ listo = 0
                               /\ hc.fase \in {"amplia", "carga", "marca"} => hc.total = cant[hc.pid] + hc.n
                               /\ hc.fase \in {"reduce", "desmarca"} => cant[hc.pid] = hc.total + hc.n
<1>1. hc \in Locales(FasesCpu) /\ hc.total \in Nat
  BY ConstantesOK DEF InvMemoria, Control, Formas
<1>2. /\ hc.fase # "espera" => hc.pid \in Pids
      /\ hc.fase \in {"carga", "marca", "desmarca"} => hc.j \in Marcos
      /\ \A p \in Pids : cant[p] \in Nat
  <2>1. \A p \in Pids : cant[p] \in Tamanios \cup {0}
    BY DEF InvMemoria, Control, TypeOK
  <2>2. \A p \in Pids : cant[p] \in Nat
    BY <2>1, ConstantesOK
  <2>3. \A h \in {hc, hk} : /\ h.fase # "espera" => h.pid \in Pids
                            /\ h.fase \in {"carga", "marca", "desmarca"} => h.j \in Marcos
    <3>1. TypeOK
      BY DEF InvMemoria, Control
    <3> QED BY <3>1 DEF TypeOK
  <2> QED BY <2>2, <2>3
<1>3. ASSUME Redimensionando
      PROVE  /\ hc.pid \in Vivos /\ listo = 0
             /\ hc.fase \in {"amplia", "carga", "marca"} => hc.total = cant[hc.pid] + hc.n
             /\ hc.fase \in {"reduce", "desmarca"} => cant[hc.pid] = hc.total + hc.n
  <2>1. pedido.op = "RESIZE" /\ pedido.pid = hc.pid
    BY <1>3 DEF InvMemoria, Control, EnCurso
  <2>2. hc.pid \in Vivos /\ listo = 0
    BY <2>1 DEF InvMemoria, Control, Clientes, Vivos
  <2> QED BY <1>3, <2>2 DEF InvMemoria, Control, EnCurso
<1> QED BY <1>1, <1>2, <1>3

----------------------------------------------------------------------------
(* The clients.                                                            *)

\* INICIAR_PROCESO is sent.
LEMMA IniciarInv ==
  ASSUME InvMemoria, IniciarProceso
  PROVE  InvMemoria'
<1> USE DEF IniciarProceso, paginas, bitmap
<1>1. Control'
  <2> USE DEF InvMemoria, Control
  <2>1. [op |-> "INICIAR", pid |-> creados + 1] \in [op : {"INICIAR", "FINALIZAR"}, pid : Pids]
    BY MemoriaAssumption DEF TypeOK, Pids
  <2>2. TypeOK'
    BY <2>1, MemoriaAssumption DEF TypeOK
  <2>3. Formas' /\ EnCurso'
    BY DEF Formas, EnCurso, Locales, Redimensionando, Vivos
  <2>4. Clientes'
    BY <2>1, AppendProperties DEF TypeOK, Clientes
  <2> QED BY <2>2, <2>3, <2>4
<1>2. Hojas' /\ Reparto'
  BY QuietoHojas, QuietoReparto DEF InvMemoria
<1> QED BY <1>1, <1>2 DEF InvMemoria

\* FINALIZAR_PROCESO is sent, of a process that waits for no answer.
LEMMA FinalizarInv ==
  ASSUME InvMemoria, NEW p \in Terminan, FinalizarProceso(p)
  PROVE  InvMemoria'
<1> USE DEF FinalizarProceso, paginas, bitmap
<1>1. Control'
  <2> USE DEF InvMemoria, Control
  <2>0. p \in Pids
    BY MemoriaAssumption DEF Pids
  <2>1. [op |-> "FINALIZAR", pid |-> p] \in [op : {"INICIAR", "FINALIZAR"}, pid : Pids]
    BY <2>0
  <2>2. TypeOK'
    BY <2>0, <2>1, MemoriaAssumption DEF TypeOK
  <2>3. Formas' /\ EnCurso'
    BY DEF Formas, EnCurso, Locales, Redimensionando, Vivos
  <2>4. Clientes'
    <3>1. \A j \in 1..Len(pedidosKernel') :
            pedidosKernel'[j].op = "FINALIZAR" => pedidosKernel'[j].pid \in finalizados'
      BY <2>1, AppendProperties DEF TypeOK, Clientes
    <3>2. listo' \notin finalizados' \cup sinMemoria'
      BY <2>0 DEF Clientes, TypeOK, Pids
    <3> QED BY <3>1, <3>2 DEF Clientes
  <2> QED BY <2>2, <2>3, <2>4
<1>2. Hojas' /\ Reparto'
  BY QuietoHojas, QuietoReparto DEF InvMemoria
<1> QED BY <1>1, <1>2 DEF InvMemoria

\* The CPU asks, and is answered or not.
LEMMA CpuInv ==
  ASSUME InvMemoria,
         \/ \E p \in Pids : PideInstruccion(p)
         \/ \E n \in Tamanios : PideResize(n)
         \/ Instruccion
  PROVE  InvMemoria'
<1> USE DEF paginas, bitmap, SinPedido, Pide
<1>1. Control'
  <2> USE DEF InvMemoria, Control
  <2>1. ASSUME NEW p \in Pids, PideInstruccion(p) PROVE Control'
    <3>1. TypeOK'
      BY <2>1 DEF PideInstruccion, TypeOK
    <3>2. Formas' /\ EnCurso'
      BY <2>1 DEF PideInstruccion, Formas, EnCurso, Locales, Redimensionando, Vivos
    <3>3. Clientes'
      BY <2>1, MemoriaAssumption DEF PideInstruccion, Clientes, TypeOK, Pids
    <3> QED BY <3>1, <3>2, <3>3
  <2>2. ASSUME NEW n \in Tamanios, PideResize(n) PROVE Control'
    <3>1. TypeOK'
      BY <2>2, MemoriaAssumption DEF PideResize, TypeOK
    <3>2. Formas' /\ EnCurso'
      BY <2>2 DEF PideResize, Formas, EnCurso, Locales, Redimensionando, Vivos
    <3>3. Clientes'
      BY <2>2, MemoriaAssumption DEF PideResize, Clientes, TypeOK, Pids
    <3> QED BY <3>1, <3>2, <3>3
  <2>3. ASSUME Instruccion PROVE Control'
    <3>1. TypeOK'
      <4>1. CASE pedido.pid \in instrucciones
        <5>1. /\ pedido' = SinPedido /\ listo' = pedido.pid
              /\ UNCHANGED <<pedidosKernel, creados, finalizados, sinMemoria, resizes,
                             instrucciones, registro, cant, tabla, ocupados, pisado, hc, hk, caida>>
          BY <2>3, <4>1 DEF Instruccion
        <5>2. listo' \in Pids \cup {0}
          BY <5>1 DEF TypeOK
        <5> QED BY <5>1, <5>2 DEF TypeOK
      <4>2. CASE pedido.pid \notin instrucciones
        <5>1. /\ pedido' = [pedido EXCEPT !.callado = TRUE] /\ listo' = listo
              /\ UNCHANGED <<pedidosKernel, creados, finalizados, sinMemoria, resizes,
                             instrucciones, registro, cant, tabla, ocupados, pisado, hc, hk, caida>>
          BY <2>3, <4>2 DEF Instruccion
        <5>2. pedido' \in [op : {"NADA", "INSTRUCCION", "RESIZE"}, pid : Pids \cup {0},
                           n : Tamanios \cup {0}, callado : BOOLEAN]
          BY <5>1 DEF TypeOK
        <5> QED BY <5>1, <5>2 DEF TypeOK
      <4> QED BY <4>1, <4>2
    <3>2. Formas' /\ EnCurso'
      BY <2>3 DEF Instruccion, Llega, Formas, EnCurso, Locales, Redimensionando, Vivos
    <3>3. Clientes'
      BY <2>3 DEF Instruccion, Llega, Clientes, TypeOK
    <3> QED BY <3>1, <3>2, <3>3
  <2> QED BY <2>1, <2>2, <2>3
<1>2. Hojas' /\ Reparto'
  BY QuietoHojas, QuietoReparto
     DEF PideInstruccion, PideResize, Instruccion, InvMemoria
<1> QED BY <1>1, <1>2 DEF InvMemoria

----------------------------------------------------------------------------
(* The thread of the CPU: RESIZE begins.                                   *)

LEMMA RedimensionaInv ==
  ASSUME InvMemoria, Redimensiona, ~caida
  PROVE  InvMemoria'
<1> DEFINE p == pedido.pid
           n == pedido.n
           c == cant[p]
           empieza(f, k) ==
               /\ hc' \in Locales(FasesCpu) /\ hc'.fase = f /\ hc'.pid = p
               /\ hc'.n = k /\ k \in Nat /\ hc'.total = n /\ hc'.i = 0
<1>1. /\ hc.fase = "espera" /\ hc = Espera /\ pedido.op = "RESIZE" /\ p \in Pids
      /\ n \in Tamanios \cup {0} /\ p \notin finalizados
  BY DEF Redimensiona, Llega, InvMemoria, Control, TypeOK, Formas, Clientes
<1>2. n \in Nat /\ c \in Nat
  BY <1>1, ConstantesOK, Trabajando
<1>3. /\ caida' = (p \notin registro)
      /\ pedido' = [pedido EXCEPT !.callado = (n = c)]
      /\ UNCHANGED <<pedidosKernel, creados, finalizados, listo, sinMemoria, resizes,
                     instrucciones, registro, cant, tabla, ocupados, pisado, hk>>
  BY DEF Redimensiona, paginas, bitmap
<1>4. \/ n > c /\ empieza("amplia", n - c)
      \/ n < c /\ empieza("reduce", c - n)
      \/ n = c /\ hc' = hc
  <2>1. CASE n > c
    <3>1. hc' = [Espera EXCEPT !.fase = "amplia", !.pid = p, !.n = n - c, !.total = n]
      BY <1>2, <2>1 DEF Redimensiona
    <3>2. n - c \in Nat
      BY <1>2, <2>1
    <3> HIDE DEF p, n, c
    <3>3. empieza("amplia", n - c)
      BY <1>1, <1>2, <3>1, <3>2 DEF Espera, Locales, FasesCpu
    <3> QED BY <2>1, <3>3
  <2>2. CASE n < c
    <3>1. hc' = [Espera EXCEPT !.fase = "reduce", !.pid = p, !.n = c - n, !.total = n]
      BY <1>2, <2>2 DEF Redimensiona
    <3>2. c - n \in Nat
      BY <1>2, <2>2
    <3> HIDE DEF p, n, c
    <3>3. empieza("reduce", c - n)
      BY <1>1, <1>2, <3>1, <3>2 DEF Espera, Locales, FasesCpu
    <3> QED BY <2>2, <3>3
  <2>3. CASE n = c
    BY <1>2, <2>3 DEF Redimensiona
  <2> QED BY <1>2, <2>1, <2>2, <2>3
<1>5. /\ pedido'.op = "RESIZE" /\ pedido'.pid = p
      /\ pedido' \in [op : {"NADA", "INSTRUCCION", "RESIZE"}, pid : Pids \cup {0},
                      n : Tamanios \cup {0}, callado : BOOLEAN]
  BY <1>1, <1>3 DEF InvMemoria, Control, TypeOK
<1> HIDE DEF p, n, c
<1>6. Control'
  <2>1. TypeOK'
    BY <1>1, <1>3, <1>4, <1>5 DEF InvMemoria, Control, TypeOK
  <2>2. Formas' /\ Clientes'
    BY <1>1, <1>3, <1>4, <1>5 DEF InvMemoria, Control, Formas, Clientes, p
  <2>3. EnCurso'
    <3>1. hc'.fase # "espera" => hc'.pid = p
      BY <1>1, <1>4
    <3>2. Redimensionando' =>
            /\ hc'.i <= hc'.n
            /\ hc'.fase \notin {"carga", "marca", "desmarca"}
            /\ hc'.fase = "amplia" => hc'.total = cant'[p] + hc'.n
            /\ hc'.fase = "reduce" => cant'[p] = hc'.total + hc'.n
      BY <1>1, <1>2, <1>3, <1>4 DEF Redimensionando, c
    <3> QED BY <1>3, <1>5, <3>1, <3>2 DEF EnCurso, Redimensionando
  <2> QED BY <2>1, <2>2, <2>3 DEF Control
<1>7. Hojas'
  <2>1. \A q \in Vivos \ sinMemoria : 0..(cant[q] - 1) \subseteq DOMAIN tabla[q]
    BY <1>1 DEF InvMemoria, Hojas, PaginasCompletas, Espera, Vivos, Pids
  <2>2. PaginasCompletas'
    BY <1>3, <2>1 DEF PaginasCompletas, Vivos
  <2>3. hc'.fase # "espera" => hc'.pid = p /\ Obtenidas' <= c /\ Obtenidas' \in Nat
    BY <1>1, <1>2, <1>3, <1>4 DEF Obtenidas, c
  <2>4. hc'.fase # "espera" => 0..(Obtenidas' - 1) \subseteq 0..(c - 1)
    BY <1>2, <2>3
  <2>5. PaginasEnCurso'
    BY <1>3, <2>1, <2>3, <2>4 DEF PaginasEnCurso, Vivos, c
  <2> QED BY <2>2, <2>5 DEF Hojas
<1>8. Reparto'
  BY <1>3, <1>4, QuietoReparto DEF InvMemoria
<1> QED BY <1>6, <1>7, <1>8 DEF InvMemoria

\* The frames are gone through one after another, and the byte of a free one is loaded.
LEMMA AmpliaBuscaInv ==
  ASSUME InvMemoria, AmpliaBusca \/ AmpliaCarga
  PROVE  InvMemoria'
<1>1. /\ \/ /\ hc.fase = "amplia" /\ hc.i < hc.n /\ hc.j < NMarcos
            /\ \/ hc' = [hc EXCEPT !.j = @ + 1]
               \/ hc.j \notin ocupados /\ hc' = [hc EXCEPT !.fase = "carga"]
         \/ /\ hc.fase = "carga"
            /\ hc' = [hc EXCEPT !.fase = "marca", !.byte = ocupados \cap Byte(hc.j)]
      /\ UNCHANGED <<pedidosKernel, creados, finalizados, pedido, listo, sinMemoria, resizes,
                     instrucciones, registro, cant, tabla, ocupados, pisado, hk, caida>>
  BY DEF AmpliaBusca, AmpliaCarga, clientes, paginas, bitmap
<1>2. hc \in Locales(FasesCpu) /\ hc.j \in Marcos /\ hc.i < hc.n
  BY <1>1, Trabajando, MemoriaAssumption
     DEF Locales, Marcos, InvMemoria, Control, EnCurso, Redimensionando
<1>3. /\ hc' \in Locales(FasesCpu) /\ hc'.pid = hc.pid /\ hc'.i = hc.i /\ hc'.n = hc.n
      /\ hc'.total = hc.total /\ hc'.fase \in {"amplia", "carga", "marca"}
      /\ hc'.fase = "carga" => hc'.j = hc.j /\ hc.j \notin ocupados
      /\ hc'.fase = "marca" => hc'.j = hc.j /\ hc.fase = "carga"
  <2>1. CASE hc' = [hc EXCEPT !.j = @ + 1] /\ hc.fase = "amplia"
    BY <1>1, <1>2, <2>1 DEF Locales, FasesCpu
  <2>2. CASE hc' = [hc EXCEPT !.fase = "carga"] /\ hc.j \notin ocupados
    BY <1>1, <1>2, <2>2 DEF Locales, FasesCpu
  <2>3. CASE /\ hc.fase = "carga"
             /\ hc' = [hc EXCEPT !.fase = "marca", !.byte = ocupados \cap Byte(hc.j)]
    <3>1. ocupados \cap Byte(hc.j) \in SUBSET Marcos
      BY DEF Byte
    <3> QED BY <1>1, <1>2, <2>3, <3>1 DEF Locales, FasesCpu
  <2> QED BY <1>1, <2>1, <2>2, <2>3
<1>4. Control'
  <2>1. TypeOK'
    BY <1>1, <1>2, <1>3 DEF InvMemoria, Control, TypeOK
  <2>2. Formas' /\ Clientes'
    BY <1>1, <1>3 DEF InvMemoria, Control, Formas, Clientes
  <2>3. EnCurso'
    BY <1>1, <1>2, <1>3 DEF InvMemoria, Control, EnCurso, Redimensionando, Vivos
  <2> QED BY <2>1, <2>2, <2>3 DEF Control
<1>5. Hojas'
  BY <1>1, <1>3 DEF InvMemoria, Hojas, PaginasEnCurso, PaginasCompletas, Obtenidas, Vivos
<1>6. Reparto'
  <2>1. \A p, g : Devuelta(p, g)' <=> Devuelta(p, g)
    BY <1>1 DEF Devuelta
  <2>2. MarcoEnMano'
    BY <1>1, <1>3 DEF InvMemoria, Reparto, MarcoEnMano
  <2>3. Apartados' /\ Marcados'
    BY <1>1, <2>1 DEF InvMemoria, Reparto, Apartados, Marcados
  <2> QED BY <2>2, <2>3 DEF Reparto
<1> QED BY <1>4, <1>5, <1>6 DEF InvMemoria

\* A frame is taken and its page is in the table.
LEMMA AmpliaMarcaInv ==
  ASSUME InvMemoria, AmpliaMarca
  PROVE  InvMemoria'
<1> DEFINE p == hc.pid
           g == cant[p] + hc.i
<1>1. /\ hc.fase = "marca" /\ Guarda(hc, hc.byte \cup {hc.j})
      /\ tabla' = [tabla EXCEPT ![p] = [x \in DOMAIN @ \cup {g} |-> IF x = g THEN hc.j ELSE @[x]]]
      /\ hc' = [hc EXCEPT !.fase = "amplia", !.i = @ + 1, !.j = 0]
      /\ UNCHANGED <<pedidosKernel, creados, finalizados, pedido, listo, sinMemoria, resizes,
                     instrucciones, registro, cant, hk, caida>>
  BY DEF AmpliaMarca, clientes
<1>2. /\ hc \in Locales(FasesCpu) /\ p \in Pids /\ hc.j \in Marcos /\ cant[p] \in Nat
      /\ DOMAIN tabla = Pids
  BY <1>1, Trabajando DEF InvMemoria, Control, Formas
<1>3. hc.i \in Nat /\ hc.n \in Nat /\ hc.i < hc.n /\ g \in Nat /\ hc.byte \subseteq Marcos
  BY <1>1, <1>2 DEF Locales, InvMemoria, Control, EnCurso, Redimensionando
<1>4. /\ hc' \in Locales(FasesCpu) /\ hc'.fase = "amplia" /\ hc'.pid = p
      /\ hc'.i = hc.i + 1 /\ hc'.n = hc.n /\ hc'.total = hc.total
  <2>1. hc.i + 1 \in Nat
    BY <1>3
  <2> QED BY <1>1, <1>2, <2>1 DEF Locales, FasesCpu
<1>5. \A q \in Pids :
        /\ DOMAIN tabla[q] \subseteq DOMAIN tabla'[q]
        /\ \A x \in DOMAIN tabla'[q] : \/ q = p /\ x = g /\ tabla'[q][x] = hc.j
                                       \/ x \in DOMAIN tabla[q] /\ tabla'[q][x] = tabla[q][x]
  BY <1>1, <1>2
<1>6. DOMAIN tabla' = Pids /\ g \in DOMAIN tabla'[p]
  BY <1>1, <1>2
<1> HIDE DEF p, g
<1>7. Control'
  <2>1. ocupados' \subseteq Marcos /\ pisado' \in BOOLEAN
    BY <1>1, <1>2, <1>3, GuardaUno DEF InvMemoria, Control, TypeOK
  <2>2. \A q \in Pids : \A x \in DOMAIN tabla'[q] : x \in Nat /\ tabla'[q][x] \in Marcos
    BY <1>2, <1>3, <1>5 DEF InvMemoria, Control, TypeOK
  <2>3. TypeOK'
    BY <1>1, <1>2, <1>4, <2>1, <2>2 DEF InvMemoria, Control, TypeOK
  <2>4. Formas' /\ Clientes'
    BY <1>1, <1>4, <1>6 DEF InvMemoria, Control, Formas, Clientes
  <2>5. EnCurso'
    BY <1>1, <1>3, <1>4 DEF InvMemoria, Control, EnCurso, Redimensionando, Vivos, p
  <2> QED BY <2>3, <2>4, <2>5 DEF Control
<1>8. Hojas'
  <2>1. PaginasCompletas'
    BY <1>1, <1>4, <1>5 DEF InvMemoria, Hojas, PaginasCompletas, Vivos, p
  <2>2. Obtenidas = g /\ Obtenidas' = g + 1
    BY <1>1, <1>2, <1>3, <1>4 DEF Obtenidas, g, p
  <2>3. 0..((g + 1) - 1) = (0..(g - 1)) \cup {g}
    BY <1>3
  <2>4. PaginasEnCurso'
    BY <1>1, <1>2, <1>4, <1>5, <1>6, <2>2, <2>3
       DEF InvMemoria, Hojas, PaginasEnCurso, Vivos, p
  <2> QED BY <2>1, <2>4 DEF Hojas
<1>9. Reparto'
  <2>1. ~pisado' => ~pisado /\ ocupados' = ocupados \cup {hc.j} /\ hc.j \notin ocupados
    BY <1>1, <1>2, <1>3, GuardaUno DEF InvMemoria, Control, TypeOK, Reparto, MarcoEnMano
  <2>2. \A q, x : Devuelta(q, x)' <=> Devuelta(q, x)
    BY <1>1 DEF Devuelta
  <2>3. p \in Vivos /\ \A x : ~Devuelta(p, x)
    BY <1>1, Trabajando, VivoNoDevuelve DEF InvMemoria, Redimensionando, p
  <2>4. Apartados'
    <3> SUFFICES ASSUME ~pisado', NEW q1 \in Pids, NEW q2 \in Pids,
                        NEW x \in DOMAIN tabla'[q1], NEW y \in DOMAIN tabla'[q2],
                        ~Devuelta(q1, x), ~Devuelta(q2, y), tabla'[q1][x] = tabla'[q2][y]
                 PROVE  q1 = q2 /\ x = y
      BY <2>2 DEF Apartados
    <3>1. \A q \in Pids : \A z \in DOMAIN tabla[q] : Devuelta(q, z) \/ tabla[q][z] # hc.j
      BY <2>1 DEF InvMemoria, Reparto, Marcados
    <3> QED BY <1>5, <2>1, <3>1 DEF InvMemoria, Reparto, Apartados
  <2>5. Marcados'
    BY <1>5, <2>1, <2>2 DEF InvMemoria, Reparto, Marcados
  <2>6. MarcoEnMano'
    <3>1. hk.fase = "desmarca" => hk.pid # p /\ hk.pid \in Pids
      BY <2>3 DEF InvMemoria, Control, Clientes, TypeOK, Vivos
    <3>2. hk.fase = "desmarca" => tabla'[hk.pid] = tabla[hk.pid]
      BY <1>1, <1>2, <3>1 DEF p
    <3> QED BY <1>1, <1>4, <3>2 DEF InvMemoria, Reparto, MarcoEnMano
  <2> QED BY <2>4, <2>5, <2>6 DEF Reparto
<1> QED BY <1>7, <1>8, <1>9 DEF InvMemoria

\* The answer, when the loop has ended or no frame is left.
LEMMA RespondeInv ==
  ASSUME InvMemoria, AmpliaSinMarco \/ AmpliaFin \/ ReduceFin
  PROVE  InvMemoria'
<1>1. /\ hc.fase \in {"amplia", "reduce"}
      /\ pedido' = SinPedido /\ hc' = [hc EXCEPT !.fase = "ajusta"]
      /\ UNCHANGED <<pedidosKernel, creados, finalizados, listo, resizes, instrucciones,
                     registro, cant, tabla, ocupados, pisado, hk, caida>>
      /\ \/ hc.i = hc.n /\ sinMemoria' = sinMemoria
         \/ sinMemoria' = sinMemoria \cup {hc.pid}
  BY DEF AmpliaSinMarco, AmpliaFin, ReduceFin, Responde, paginas, bitmap
<1>2. hc \in Locales(FasesCpu) /\ hc.pid \in Pids /\ listo = 0 /\ cant[hc.pid] \in Nat
  BY <1>1, Trabajando DEF Redimensionando
<1>3. /\ hc' \in Locales(FasesCpu) /\ hc'.fase = "ajusta" /\ hc'.pid = hc.pid
      /\ hc'.i = hc.i /\ hc'.n = hc.n /\ hc'.total = hc.total
  BY <1>1, <1>2 DEF Locales, FasesCpu
<1>4. Control'
  <2>1. SinPedido \in [op : {"NADA", "INSTRUCCION", "RESIZE"}, pid : Pids \cup {0},
                       n : Tamanios \cup {0}, callado : BOOLEAN]
    BY DEF SinPedido
  <2>2. sinMemoria' \subseteq Pids
    BY <1>1, <1>2 DEF InvMemoria, Control, TypeOK
  <2>3. TypeOK'
    BY <1>1, <1>2, <1>3, <2>1, <2>2 DEF InvMemoria, Control, TypeOK
  <2>4. Formas'
    BY <1>1, <1>3 DEF InvMemoria, Control, Formas
  <2>5. listo \notin sinMemoria'
    BY <1>2, <2>2 DEF Pids
  <2>6. Clientes'
    BY <1>1, <2>5 DEF InvMemoria, Control, Clientes, SinPedido
  <2>7. EnCurso'
    BY <1>1, <1>3 DEF InvMemoria, Control, EnCurso, Redimensionando, Vivos
  <2> QED BY <2>3, <2>4, <2>6, <2>7 DEF Control
<1>5. Hojas'
  <2>1. PaginasCompletas'
    BY <1>1, <1>3 DEF InvMemoria, Hojas, PaginasCompletas, Vivos
  <2>2. hc.i = hc.n => Obtenidas' = Obtenidas
    BY <1>1, <1>2, <1>3 DEF InvMemoria, Control, EnCurso, Redimensionando, Obtenidas
  <2>3. PaginasEnCurso'
    BY <1>1, <1>3, <2>2 DEF InvMemoria, Hojas, PaginasEnCurso, Vivos
  <2> QED BY <2>1, <2>3 DEF Hojas
<1>6. Reparto'
  BY <1>1, <1>3, QuietoReparto DEF InvMemoria
<1> QED BY <1>4, <1>5, <1>6 DEF InvMemoria

\* A page is taken out, when the process has it.
LEMMA ReduceQuitaInv ==
  ASSUME InvMemoria, ReduceQuita
  PROVE  InvMemoria'
<1> DEFINE p == hc.pid
           g == PaginaQuitada(p, hc.i)
           t == tabla[p]
<1>1. /\ hc.fase = "reduce" /\ hc.i < hc.n
      /\ \/ /\ g \in DOMAIN t
            /\ tabla' = [tabla EXCEPT ![p] = [x \in DOMAIN t \ {g} |-> t[x]]]
            /\ hc' = [hc EXCEPT !.fase = "desmarca", !.j = t[g], !.byte = ocupados \cap Byte(t[g])]
         \/ tabla' = tabla /\ hc' = [hc EXCEPT !.i = @ + 1]
      /\ UNCHANGED <<pedidosKernel, creados, finalizados, pedido, listo, sinMemoria, resizes,
                     instrucciones, registro, cant, ocupados, pisado, hk, caida>>
  BY DEF ReduceQuita, clientes, bitmap
<1>2. /\ hc \in Locales(FasesCpu) /\ p \in Pids /\ cant[p] \in Nat /\ hc.total \in Nat
      /\ DOMAIN tabla = Pids /\ cant[p] = hc.total + hc.n /\ hc.i \in Nat /\ hc.n \in Nat
  BY <1>1, Trabajando DEF InvMemoria, Control, Formas, Redimensionando, Locales
<1>3. hc.i + 1 \in Nat /\ hc.i + 1 <= hc.n /\ g \notin 0..(hc.total - 1)
  BY <1>1, <1>2 DEF PaginaQuitada
<1>4. \A q \in Pids : \A x \in DOMAIN tabla[q] : x \in Nat /\ tabla[q][x] \in Marcos
  BY DEF InvMemoria, Control, TypeOK
<1>5. /\ DOMAIN tabla' = Pids
      /\ \A q \in Pids : /\ DOMAIN tabla'[q] \subseteq DOMAIN tabla[q]
                         /\ DOMAIN tabla[q] \ (IF q = p THEN {g} ELSE {}) \subseteq DOMAIN tabla'[q]
                         /\ \A x \in DOMAIN tabla'[q] : tabla'[q][x] = tabla[q][x]
  <2>1. CASE tabla' = tabla
    BY <1>2, <2>1
  <2>2. CASE tabla' = [tabla EXCEPT ![p] = [x \in DOMAIN t \ {g} |-> t[x]]]
    BY <1>2, <2>2
  <2> QED BY <1>1, <2>1, <2>2
<1>6. /\ hc' \in Locales(FasesCpu) /\ hc'.pid = p /\ hc'.n = hc.n /\ hc'.total = hc.total
      /\ \/ /\ hc'.fase = "reduce" /\ hc'.i = hc.i + 1
         \/ /\ hc'.fase = "desmarca" /\ hc'.i = hc.i /\ g \in DOMAIN t /\ g \notin DOMAIN tabla'[p]
            /\ hc'.j = t[g] /\ hc'.byte = ocupados \cap Byte(t[g]) /\ hc'.j \in Marcos
  <2>1. CASE tabla' = tabla /\ hc' = [hc EXCEPT !.i = @ + 1]
    BY <1>1, <1>2, <1>3, <2>1 DEF Locales, FasesCpu
  <2>2. CASE /\ g \in DOMAIN t
             /\ tabla' = [tabla EXCEPT ![p] = [x \in DOMAIN t \ {g} |-> t[x]]]
             /\ hc' = [hc EXCEPT !.fase = "desmarca", !.j = t[g],
                                 !.byte = ocupados \cap Byte(t[g])]
    <3>1. t[g] \in Marcos /\ t[g] \in Nat
      BY <1>2, <1>4, <2>2 DEF Marcos
    <3>2. ocupados \cap Byte(t[g]) \in SUBSET Marcos
      BY DEF Byte
    <3>3. g \notin DOMAIN tabla'[p]
      BY <1>2, <2>2
    <3> HIDE DEF g, t
    <3>4. /\ hc' \in Locales(FasesCpu) /\ hc'.pid = p /\ hc'.n = hc.n /\ hc'.total = hc.total
          /\ hc'.fase = "desmarca" /\ hc'.i = hc.i
          /\ hc'.j = t[g] /\ hc'.byte = ocupados \cap Byte(t[g])
      BY <1>2, <2>2, <3>1, <3>2 DEF Locales, FasesCpu
    <3> QED BY <2>2, <3>1, <3>3, <3>4
  <2> QED BY <1>1, <2>1, <2>2
<1> HIDE DEF p, g, t
<1>7. Control'
  <2>1. \A q \in Pids : \A x \in DOMAIN tabla'[q] : x \in Nat /\ tabla'[q][x] \in Marcos
    BY <1>4, <1>5
  <2>2. TypeOK'
    BY <1>1, <1>2, <1>6, <2>1 DEF InvMemoria, Control, TypeOK
  <2>3. Formas' /\ Clientes'
    BY <1>1, <1>5, <1>6 DEF InvMemoria, Control, Formas, Clientes
  <2>4. EnCurso'
    BY <1>1, <1>2, <1>3, <1>6 DEF InvMemoria, Control, EnCurso, Redimensionando, Vivos, p
  <2> QED BY <2>2, <2>3, <2>4 DEF Control
<1>8. Hojas'
  <2>1. PaginasCompletas'
    BY <1>1, <1>5, <1>6 DEF InvMemoria, Hojas, PaginasCompletas, Vivos, p
  <2>2. Obtenidas = hc.total /\ Obtenidas' = hc.total
    BY <1>1, <1>6 DEF Obtenidas
  <2>3. p \in Vivos' \ sinMemoria' => 0..(hc.total - 1) \subseteq DOMAIN tabla[p]
    BY <1>1, <2>2 DEF InvMemoria, Hojas, PaginasEnCurso, Vivos, p
  <2>4. PaginasEnCurso'
    BY <1>2, <1>3, <1>5, <1>6, <2>2, <2>3 DEF PaginasEnCurso
  <2> QED BY <2>1, <2>4 DEF Hojas
<1>9. Reparto'
  <2>1. \A q, x : Devuelta(q, x)' <=> Devuelta(q, x)
    BY <1>1 DEF Devuelta
  <2>2. p \in Vivos /\ \A x : ~Devuelta(p, x)
    BY <1>1, Trabajando, VivoNoDevuelve DEF InvMemoria, Redimensionando, p
  <2>3. Apartados' /\ Marcados'
    BY <1>1, <1>5, <2>1 DEF InvMemoria, Reparto, Apartados, Marcados
  <2>4. ASSUME hc'.fase = "desmarca", ~pisado PROVE SinTabla(hc.j)'
    <3>1. hc'.j = tabla[p][g] /\ g \in DOMAIN tabla[p] /\ g \notin DOMAIN tabla'[p]
      BY <1>6, <2>4 DEF t
    <3> QED BY <1>2, <1>5, <2>1, <2>2, <2>4, <3>1
            DEF InvMemoria, Reparto, Apartados, SinTabla
  <2>5. hk.fase = "desmarca" => hk.i \in DOMAIN tabla'[hk.pid] /\ hk.j = tabla'[hk.pid][hk.i]
    <3>1. hk.fase = "desmarca" => hk.pid # p /\ hk.pid \in Pids
      BY <2>2 DEF InvMemoria, Control, Clientes, TypeOK, Vivos
    <3> QED BY <1>5, <3>1 DEF InvMemoria, Reparto, MarcoEnMano
  <2>6. MarcoEnMano'
    BY <1>1, <1>6, <2>4, <2>5 DEF MarcoEnMano
  <2> QED BY <2>3, <2>6 DEF Reparto
<1> QED BY <1>7, <1>8, <1>9 DEF InvMemoria

\* Its frame is free again.
LEMMA ReduceDesmarcaInv ==
  ASSUME InvMemoria, ReduceDesmarca
  PROVE  InvMemoria'
<1>1. /\ hc.fase = "desmarca" /\ Guarda(hc, hc.byte \ {hc.j})
      /\ hc' = [hc EXCEPT !.fase = "reduce", !.i = @ + 1]
      /\ UNCHANGED <<pedidosKernel, creados, finalizados, pedido, listo, sinMemoria, resizes,
                     instrucciones, registro, cant, tabla, hk, caida>>
  BY DEF ReduceDesmarca, clientes, paginas
<1>2. /\ hc \in Locales(FasesCpu) /\ hc.pid \in Pids /\ hc.j \in Marcos
      /\ hc.i \in Nat /\ hc.n \in Nat /\ hc.i < hc.n /\ hc.byte \subseteq Marcos
  BY <1>1, Trabajando DEF Locales, InvMemoria, Control, EnCurso, Redimensionando
<1>3. /\ hc' \in Locales(FasesCpu) /\ hc'.fase = "reduce" /\ hc'.pid = hc.pid
      /\ hc'.i = hc.i + 1 /\ hc'.n = hc.n /\ hc'.total = hc.total
  <2>1. hc.i + 1 \in Nat
    BY <1>2
  <2> QED BY <1>1, <1>2, <2>1 DEF Locales, FasesCpu
<1>4. Control'
  <2>1. ocupados' \subseteq Marcos /\ pisado' \in BOOLEAN
    BY <1>1, <1>2, GuardaUno DEF InvMemoria, Control, TypeOK
  <2>2. TypeOK'
    BY <1>1, <1>2, <1>3, <2>1 DEF InvMemoria, Control, TypeOK
  <2>3. Formas' /\ Clientes'
    BY <1>1, <1>3 DEF InvMemoria, Control, Formas, Clientes
  <2>4. EnCurso'
    BY <1>1, <1>2, <1>3 DEF InvMemoria, Control, EnCurso, Redimensionando, Vivos
  <2> QED BY <2>2, <2>3, <2>4 DEF Control
<1>5. Hojas'
  BY <1>1, <1>3 DEF InvMemoria, Hojas, PaginasEnCurso, PaginasCompletas, Obtenidas, Vivos
<1>6. Reparto'
  <2>1. ~pisado' => ~pisado /\ ocupados' = ocupados \ {hc.j} /\ SinTabla(hc.j)
    BY <1>1, <1>2, GuardaUno DEF InvMemoria, Control, TypeOK, Reparto, MarcoEnMano
  <2>2. \A q, x : Devuelta(q, x)' <=> Devuelta(q, x)
    BY <1>1 DEF Devuelta
  <2>3. MarcoEnMano' /\ Apartados'
    BY <1>1, <1>3, <2>1, <2>2 DEF InvMemoria, Reparto, MarcoEnMano, Apartados
  <2>4. Marcados'
    BY <1>1, <2>1, <2>2 DEF InvMemoria, Reparto, Marcados, SinTabla
  <2> QED BY <2>3, <2>4 DEF Reparto
<1> QED BY <1>4, <1>5, <1>6 DEF InvMemoria

\* cant_paginas takes its new value: the process, if it lives, has all those pages.
LEMMA AjustaInv ==
  ASSUME InvMemoria, Ajusta, ~caida
  PROVE  InvMemoria'
<1>1. /\ hc.fase = "ajusta" /\ hc' = Espera /\ registro' = registro \cup {hc.pid}
      /\ caida' \in BOOLEAN
      /\ cant' = IF hc.pid \in registro THEN [cant EXCEPT ![hc.pid] = hc.total] ELSE cant
      /\ UNCHANGED <<pedidosKernel, creados, finalizados, pedido, listo, sinMemoria, resizes,
                     instrucciones, tabla, ocupados, pisado, hk>>
  <2>1. caida \in BOOLEAN
    BY DEF InvMemoria, Control, TypeOK
  <2>2. CASE hc.pid \in registro
    BY <2>1, <2>2 DEF Ajusta, clientes, bitmap
  <2>3. CASE hc.pid \notin registro
    BY <2>3 DEF Ajusta, clientes, bitmap
  <2> QED BY <2>2, <2>3
<1>2. /\ hc.pid \in Pids /\ hc.total \in Tamanios \cup {0} /\ hc.total \in Nat
      /\ cant \in [Pids -> Tamanios \cup {0}]
  BY <1>1, Trabajando DEF InvMemoria, Control, Formas, TypeOK
<1>3. /\ Espera \in Locales(FasesCpu) /\ Espera.fase = "espera" /\ Espera.pid = 0
      /\ Espera.total = 0
  BY DEF Espera, Locales, FasesCpu
<1>4. Control'
  <2>1. cant' \in [Pids -> Tamanios \cup {0}]
    BY <1>1, <1>2
  <2>2. registro' \subseteq Pids
    BY <1>1, <1>2 DEF InvMemoria, Control, TypeOK
  <2>3. TypeOK'
    BY <1>1, <1>3, <2>1, <2>2 DEF InvMemoria, Control, TypeOK
  <2>4. Formas' /\ Clientes' /\ EnCurso'
    BY <1>1, <1>3 DEF InvMemoria, Control, Formas, Clientes, EnCurso, Redimensionando
  <2> QED BY <2>3, <2>4 DEF Control
<1>5. Hojas'
  <2>1. ASSUME NEW q \in Vivos \ sinMemoria PROVE 0..(cant'[q] - 1) \subseteq DOMAIN tabla[q]
    <3>1. CASE q = hc.pid
      <4>1. q \in registro /\ Obtenidas = hc.total
        BY <1>1, <3>1 DEF InvMemoria, Control, EnCurso, Obtenidas
      <4>2. cant'[q] = hc.total
        BY <1>1, <1>2, <3>1, <4>1
      <4> QED BY <1>1, <3>1, <4>1, <4>2 DEF InvMemoria, Hojas, PaginasEnCurso
    <3>2. CASE q # hc.pid
      <4>1. cant'[q] = cant[q]
        BY <1>1, <1>2, <3>2
      <4> QED BY <3>2, <4>1 DEF InvMemoria, Hojas, PaginasCompletas
    <3> QED BY <3>1, <3>2
  <2>2. PaginasCompletas'
    BY <1>1, <2>1 DEF PaginasCompletas, Vivos
  <2> QED BY <1>1, <1>3, <2>2 DEF Hojas, PaginasEnCurso
<1>6. Reparto'
  BY <1>1, <1>3, QuietoReparto DEF InvMemoria
<1> QED BY <1>4, <1>5, <1>6 DEF InvMemoria

----------------------------------------------------------------------------
(* The thread of the kernel.                                               *)

\* It takes the first request.
LEMMA RecibeUno ==
  ASSUME InvMemoria, pedidosKernel # <<>>
  PROVE  /\ Head(pedidosKernel).pid \in Pids
         /\ Head(pedidosKernel).op = "FINALIZAR" => Head(pedidosKernel).pid \in finalizados
         /\ Tail(pedidosKernel) \in Seq([op : {"INICIAR", "FINALIZAR"}, pid : Pids])
         /\ \A j \in 1..Len(Tail(pedidosKernel)) :
              Tail(pedidosKernel)[j].op = "FINALIZAR"
                => Tail(pedidosKernel)[j].pid \in finalizados
<1> DEFINE s == pedidosKernel
           S == [op : {"INICIAR", "FINALIZAR"}, pid : Pids]
<1>1. s \in Seq(S) /\ s # <<>>
  BY DEF InvMemoria, Control, TypeOK
<1>2. \A j \in 1..Len(s) : s[j].op = "FINALIZAR" => s[j].pid \in finalizados
  BY DEF InvMemoria, Control, Clientes
<1> HIDE DEF s, S
<1>3. /\ Head(s) \in S /\ Head(s) = s[1] /\ Tail(s) \in Seq(S) /\ Len(s) \in Nat
      /\ Len(s) >= 1 /\ Len(Tail(s)) = Len(s) - 1
      /\ \A j \in 1..Len(Tail(s)) : Tail(s)[j] = s[j + 1]
  <2>1. /\ Head(s) \in S /\ Tail(s) \in Seq(S) /\ Len(Tail(s)) = Len(s) - 1
        /\ \A j \in 1..Len(Tail(s)) : Tail(s)[j] = s[j + 1]
    BY <1>1, HeadTailProperties
  <2>2. Len(s) \in Nat \ {0}
    BY <1>1, EmptySeq
  <2>3. Head(s) = s[1]
    BY <1>1
  <2> QED BY <2>1, <2>2, <2>3
<1>4. \A j \in 1..Len(Tail(s)) : j + 1 \in 1..Len(s)
  BY <1>3
<1>5. /\ Head(s).pid \in Pids
      /\ Head(s).op = "FINALIZAR" => Head(s).pid \in finalizados
      /\ \A j \in 1..Len(Tail(s)) : Tail(s)[j].op = "FINALIZAR"
                                      => Tail(s)[j].pid \in finalizados
  BY <1>2, <1>3, <1>4 DEF S
<1> QED BY <1>3, <1>5 DEF s, S

\* INICIAR_PROCESO: the script, then the table.
LEMMA IniciaInv ==
  ASSUME InvMemoria, EjecutarScript \/ GuardarProceso, ~caida
  PROVE  InvMemoria'
<1>1. /\ UNCHANGED <<creados, finalizados, pedido, listo, sinMemoria, resizes, cant, tabla,
                     ocupados, pisado, hc>>
      /\ registro \subseteq registro' /\ registro' \subseteq Pids
      /\ instrucciones' \subseteq Pids
      /\ hk' \in Locales(FasesKernel) /\ hk'.fase \in {"espera", "tabla"}
      /\ hk.fase \in {"espera", "tabla"}
      /\ hk'.fase = "tabla" => hk'.pid \in Pids
      /\ caida' \in BOOLEAN
      /\ pedidosKernel' \in Seq([op : {"INICIAR", "FINALIZAR"}, pid : Pids])
      /\ \A j \in 1..Len(pedidosKernel') :
            pedidosKernel'[j].op = "FINALIZAR" => pedidosKernel'[j].pid \in finalizados
  <2>1. CASE EjecutarScript
    <3>1. pedidosKernel # <<>> /\ pedidosKernel' = Tail(pedidosKernel)
      BY <2>1 DEF EjecutarScript, Recibe
    <3>2. Head(pedidosKernel).pid \in Pids
      BY <3>1, RecibeUno
    <3>3. hk' = [Espera EXCEPT !.fase = "tabla", !.pid = Head(pedidosKernel).pid]
      BY <2>1 DEF EjecutarScript
    <3>4. /\ hk' \in Locales(FasesKernel) /\ hk'.fase = "tabla"
          /\ hk'.pid = Head(pedidosKernel).pid
      BY <3>2, <3>3 DEF Espera, Locales, FasesKernel
    <3>5. instrucciones' \subseteq Pids /\ registro \subseteq Pids
      BY <2>1, <3>2 DEF EjecutarScript, InvMemoria, Control, TypeOK
    <3>6. UNCHANGED <<creados, finalizados, pedido, listo, sinMemoria, resizes, registro,
                      cant, tabla, ocupados, pisado, hc>> /\ caida' \in BOOLEAN
      BY <2>1 DEF EjecutarScript, paginas, bitmap
    <3>7. hk.fase = "espera"
      BY <2>1 DEF EjecutarScript, Recibe
    <3> QED BY <3>1, <3>2, <3>4, <3>5, <3>6, <3>7, RecibeUno
  <2>2. CASE GuardarProceso
    <3>1. hk.fase = "tabla" /\ hk' = Espera /\ registro' = registro \cup {hk.pid}
          /\ UNCHANGED <<pedidosKernel, creados, finalizados, pedido, listo, sinMemoria,
                         resizes, instrucciones, cant, tabla, ocupados, pisado, hc, caida>>
      BY <2>2 DEF GuardarProceso, clientes, bitmap
    <3>2. Espera \in Locales(FasesKernel) /\ Espera.fase = "espera"
      BY DEF Espera, Locales, FasesKernel
    <3>3. hk.pid \in Pids
      BY <3>1 DEF InvMemoria, Control, TypeOK
    <3>4. /\ instrucciones \subseteq Pids /\ registro \subseteq Pids /\ caida \in BOOLEAN
          /\ pedidosKernel \in Seq([op : {"INICIAR", "FINALIZAR"}, pid : Pids])
          /\ \A j \in 1..Len(pedidosKernel) :
                pedidosKernel[j].op = "FINALIZAR" => pedidosKernel[j].pid \in finalizados
      BY DEF InvMemoria, Control, TypeOK, Clientes
    <3> QED BY <3>1, <3>2, <3>3, <3>4
  <2> QED BY <2>1, <2>2
<1>2. Control'
  <2>1. TypeOK'
    BY <1>1 DEF InvMemoria, Control, TypeOK
  <2>2. Formas' /\ Clientes'
    BY <1>1 DEF InvMemoria, Control, Formas, Clientes
  <2>3. EnCurso'
    BY <1>1 DEF InvMemoria, Control, EnCurso, Redimensionando, Vivos
  <2> QED BY <2>1, <2>2, <2>3 DEF Control
<1>3. Hojas' /\ Reparto'
  BY <1>1, QuietoHojas, QuietoReparto DEF InvMemoria
<1> QED BY <1>2, <1>3 DEF InvMemoria

\* FINALIZAR_PROCESO, up to the last frame.
LEMMA LiberaInv ==
  ASSUME InvMemoria, LiberarProceso \/ LiberaPagina \/ LiberaMarco
  PROVE  InvMemoria'
<1>1. \A p \in Pids : \A g \in DOMAIN tabla[p] : g \in Nat /\ tabla[p][g] \in Marcos
  BY DEF InvMemoria, Control, TypeOK
<1>2. /\ hk \in Locales(FasesKernel) /\ instrucciones \subseteq Pids
      /\ ocupados \subseteq Marcos /\ pisado \in BOOLEAN
      /\ hk.fase \in {"libera", "desmarca"} => hk.pid \in finalizados /\ hk.pid \in Pids
      /\ hk.fase = "desmarca" => hk.j \in Marcos
      /\ pedidosKernel \in Seq([op : {"INICIAR", "FINALIZAR"}, pid : Pids])
      /\ \A j \in 1..Len(pedidosKernel) :
            pedidosKernel[j].op = "FINALIZAR" => pedidosKernel[j].pid \in finalizados
  <2>1. TypeOK
    BY DEF InvMemoria, Control
  <2>2. \A h \in {hc, hk} : /\ h.fase # "espera" => h.pid \in Pids
                            /\ h.fase \in {"carga", "marca", "desmarca"} => h.j \in Marcos
    BY <2>1 DEF TypeOK
  <2> QED BY <2>1, <2>2 DEF InvMemoria, Control, TypeOK, Formas, Clientes
<1>3. /\ UNCHANGED <<creados, finalizados, pedido, listo, sinMemoria, resizes, registro, cant,
                     tabla, hc, caida>>
      /\ instrucciones' \subseteq Pids /\ ocupados' \subseteq Marcos /\ pisado' \in BOOLEAN
      /\ pedidosKernel' \in Seq([op : {"INICIAR", "FINALIZAR"}, pid : Pids])
      /\ \A j \in 1..Len(pedidosKernel') :
            pedidosKernel'[j].op = "FINALIZAR" => pedidosKernel'[j].pid \in finalizados
      /\ \/ hk' = hk
         \/ /\ hk' \in Locales(FasesKernel) /\ hk'.fase \in {"libera", "desmarca"}
            /\ hk'.pid \in finalizados /\ hk'.pid \in Pids
            /\ hk'.fase = "desmarca" => hk'.j \in Marcos
      /\ \/ /\ UNCHANGED <<ocupados, pisado>>
            /\ \A q \in Pids : \A x \in DOMAIN tabla[q] : Devuelta(q, x)' <=> Devuelta(q, x)
            /\ hk'.fase = "desmarca" =>
                 hk'.i \in DOMAIN tabla[hk'.pid] /\ hk'.j = tabla[hk'.pid][hk'.i]
         \/ /\ hk.fase = "desmarca" /\ hk'.fase = "libera"
            /\ ~pisado' => ~pisado /\ ocupados' = ocupados \ {hk.j}
            /\ \A q \in Pids : \A x \in DOMAIN tabla[q] :
                 Devuelta(q, x)' <=> Devuelta(q, x) \/ (q = hk.pid /\ x = hk.i)
  <2>1. CASE LiberarProceso
    <3> DEFINE p == Head(pedidosKernel).pid
    <3>1. /\ pedidosKernel # <<>> /\ pedidosKernel' = Tail(pedidosKernel)
          /\ Head(pedidosKernel).op = "FINALIZAR"
          /\ UNCHANGED <<creados, finalizados, pedido, listo, sinMemoria, resizes, registro,
                         cant, tabla, ocupados, pisado, hc, caida>>
          /\ hk' = IF p \in registro THEN [Espera EXCEPT !.fase = "libera", !.pid = p] ELSE hk
          /\ instrucciones' = instrucciones \ {p}
      BY <2>1 DEF LiberarProceso, Recibe, paginas, bitmap
    <3>2. p \in Pids /\ p \in finalizados
      BY <3>1, RecibeUno
    <3>3. \/ hk' = hk
          \/ hk' \in Locales(FasesKernel) /\ hk'.fase = "libera" /\ hk'.pid = p /\ hk'.i = 0
      <4> HIDE DEF p
      <4>1. CASE p \in registro
        <5>1. hk' = [Espera EXCEPT !.fase = "libera", !.pid = p]
          BY <3>1, <4>1
        <5> QED BY <3>2, <5>1 DEF Espera, Locales, FasesKernel
      <4> QED BY <3>1, <4>1
    <3>4. hk.fase = "espera"
      BY <2>1 DEF LiberarProceso, Recibe
    <3> HIDE DEF p
    <3>5. \A q \in Pids : \A x \in DOMAIN tabla[q] : Devuelta(q, x)' <=> Devuelta(q, x)
      BY <1>1, <3>3, <3>4 DEF Devuelta
    <3>6. hk'.fase # "desmarca"
      BY <3>3, <3>4
    <3> QED BY <1>2, <3>1, <3>2, <3>3, <3>5, <3>6, RecibeUno
  <2>2. CASE LiberaPagina
    <3> DEFINE t == tabla[hk.pid]
    <3>1. /\ hk.fase = "libera"
          /\ UNCHANGED <<pedidosKernel, creados, finalizados, pedido, listo, sinMemoria,
                         resizes, instrucciones, registro, cant, tabla, ocupados, pisado, hc, caida>>
          /\ \/ /\ hk.i \in DOMAIN t
                /\ hk' = [hk EXCEPT !.fase = "desmarca", !.j = t[hk.i],
                                    !.byte = ocupados \cap Byte(t[hk.i])]
             \/ hk.i \notin DOMAIN t /\ hk' = [hk EXCEPT !.i = @ + 1]
      BY <2>2 DEF LiberaPagina, clientes, paginas, bitmap
    <3>2. hk.pid \in finalizados /\ hk.pid \in Pids
      BY <1>2, <3>1
    <3>3. /\ hk' \in Locales(FasesKernel) /\ hk'.fase \in {"libera", "desmarca"}
          /\ hk'.pid = hk.pid
          /\ hk'.fase = "desmarca" => /\ hk'.j \in Marcos /\ hk'.i = hk.i
                                      /\ hk.i \in DOMAIN t /\ hk'.j = t[hk.i]
          /\ hk'.fase = "libera" => hk'.i = hk.i + 1 /\ hk.i \notin DOMAIN t
      <4>1. CASE hk.i \notin DOMAIN t /\ hk' = [hk EXCEPT !.i = @ + 1]
        <5>1. hk.i + 1 \in Nat
          BY <1>2 DEF Locales
        <5> QED BY <1>2, <3>1, <4>1, <5>1 DEF Locales, FasesKernel
      <4>2. CASE /\ hk.i \in DOMAIN t
                 /\ hk' = [hk EXCEPT !.fase = "desmarca", !.j = t[hk.i],
                                     !.byte = ocupados \cap Byte(t[hk.i])]
        <5>1. t[hk.i] \in Marcos /\ t[hk.i] \in Nat
          BY <1>1, <3>2, <4>2 DEF Marcos
        <5>2. ocupados \cap Byte(t[hk.i]) \in SUBSET Marcos
          BY DEF Byte
        <5> HIDE DEF t
        <5> QED BY <1>2, <4>2, <5>1, <5>2 DEF Locales, FasesKernel
      <4> QED BY <3>1, <4>1, <4>2
    <3>4. hk.i \in Nat
      BY <1>2 DEF Locales
    <3>5. \A q \in Pids : \A x \in DOMAIN tabla[q] : Devuelta(q, x)' <=> Devuelta(q, x)
      BY <1>1, <3>1, <3>3, <3>4 DEF Devuelta
    <3>6. hk'.fase = "desmarca" =>
            hk'.i \in DOMAIN tabla[hk'.pid] /\ hk'.j = tabla[hk'.pid][hk'.i]
      BY <3>3
    <3> HIDE DEF t
    <3> QED BY <1>2, <3>1, <3>2, <3>3, <3>5, <3>6
  <2>3. CASE LiberaMarco
    <3>1. /\ hk.fase = "desmarca" /\ hk' = [hk EXCEPT !.fase = "libera", !.i = @ + 1]
          /\ Guarda(hk, hk.byte \ {hk.j})
          /\ UNCHANGED <<pedidosKernel, creados, finalizados, pedido, listo, sinMemoria,
                         resizes, instrucciones, registro, cant, tabla, hc, caida>>
      BY <2>3 DEF LiberaMarco, clientes, paginas
    <3>2. hk.i \in Nat /\ hk.i + 1 \in Nat /\ hk.byte \subseteq Marcos
      BY <1>2 DEF Locales
    <3>3. /\ hk' \in Locales(FasesKernel) /\ hk'.fase = "libera" /\ hk'.pid = hk.pid
          /\ hk'.i = hk.i + 1
      BY <1>2, <3>1, <3>2 DEF Locales, FasesKernel
    <3>4. /\ ocupados' \subseteq Marcos /\ pisado' \in BOOLEAN
          /\ ~pisado' => ~pisado /\ ocupados' = ocupados \ {hk.j}
      BY <1>2, <3>1, <3>2, GuardaUno
    <3>5. \A q \in Pids : \A x \in DOMAIN tabla[q] :
            Devuelta(q, x)' <=> Devuelta(q, x) \/ (q = hk.pid /\ x = hk.i)
      BY <1>1, <3>1, <3>2, <3>3 DEF Devuelta
    <3> QED BY <1>2, <3>1, <3>3, <3>4, <3>5
  <2> QED BY <2>1, <2>2, <2>3
<1>4. Control'
  <2>1. TypeOK'
    BY <1>3 DEF InvMemoria, Control, TypeOK
  <2>2. Formas' /\ Clientes'
    BY <1>3 DEF InvMemoria, Control, Formas, Clientes
  <2>3. EnCurso'
    BY <1>3 DEF InvMemoria, Control, EnCurso, Redimensionando, Vivos
  <2> QED BY <2>1, <2>2, <2>3 DEF Control
<1>5. Hojas'
  BY <1>3, QuietoHojas DEF InvMemoria
<1>6. Reparto'
  <2>1. CASE /\ UNCHANGED <<ocupados, pisado>>
             /\ \A q \in Pids : \A x \in DOMAIN tabla[q] : Devuelta(q, x)' <=> Devuelta(q, x)
             /\ hk'.fase = "desmarca" =>
                  hk'.i \in DOMAIN tabla[hk'.pid] /\ hk'.j = tabla[hk'.pid][hk'.i]
    <3>1. MarcoEnMano'
      BY <1>3, <2>1 DEF InvMemoria, Reparto, MarcoEnMano, SinTabla
    <3>2. Apartados' /\ Marcados'
      BY <1>3, <2>1 DEF InvMemoria, Reparto, Apartados, Marcados
    <3> QED BY <3>1, <3>2 DEF Reparto
  <2>2. CASE /\ hk.fase = "desmarca" /\ hk'.fase = "libera"
             /\ ~pisado' => ~pisado /\ ocupados' = ocupados \ {hk.j}
             /\ \A q \in Pids : \A x \in DOMAIN tabla[q] :
                  Devuelta(q, x)' <=> Devuelta(q, x) \/ (q = hk.pid /\ x = hk.i)
    <3>1. /\ hk.i \in DOMAIN tabla[hk.pid] /\ hk.j = tabla[hk.pid][hk.i]
          /\ hk.pid \in Pids /\ ~Devuelta(hk.pid, hk.i)
      BY <1>1, <1>2, <2>2 DEF InvMemoria, Reparto, MarcoEnMano, Devuelta
    <3>2. MarcoEnMano'
      BY <1>3, <2>2 DEF InvMemoria, Reparto, MarcoEnMano, SinTabla
    <3>3. Apartados'
      BY <1>3, <2>2 DEF InvMemoria, Reparto, Apartados
    <3>4. Marcados'
      BY <1>3, <2>2, <3>1 DEF InvMemoria, Reparto, Apartados, Marcados
    <3> QED BY <3>2, <3>3, <3>4 DEF Reparto
  <2> QED BY <1>3, <2>1, <2>2
<1> QED BY <1>4, <1>5, <1>6 DEF InvMemoria

\* The table is destroyed: it is not the one the other thread works on for a process
\* that lives.
LEMMA LiberaTablaInv ==
  ASSUME InvMemoria, LiberaTabla
  PROVE  InvMemoria'
<1>1. /\ hk.fase = "libera" /\ hk' = Espera /\ registro' = registro \ {hk.pid}
      /\ tabla' = [tabla EXCEPT ![hk.pid] = SinPaginas]
      /\ cant' = [cant EXCEPT ![hk.pid] = 0]
      /\ UNCHANGED <<pedidosKernel, creados, finalizados, pedido, listo, sinMemoria, resizes,
                     instrucciones, ocupados, pisado, hc, caida>>
  BY DEF LiberaTabla, clientes, bitmap
<1>2. /\ hk.pid \in finalizados /\ finalizados \subseteq Pids
      /\ cant \in [Pids -> Tamanios \cup {0}] /\ DOMAIN tabla = Pids
  BY <1>1 DEF InvMemoria, Control, TypeOK, Formas, Clientes
<1>3. \A q \in Pids : q # hk.pid => tabla'[q] = tabla[q] /\ cant'[q] = cant[q]
  BY <1>1, <1>2
<1>4. Espera \in Locales(FasesKernel) /\ Espera.fase = "espera"
  BY DEF Espera, Locales, FasesKernel
<1>5. Control'
  <2>1. DOMAIN tabla' = Pids /\ cant' \in [Pids -> Tamanios \cup {0}]
    BY <1>1, <1>2
  <2>2. \A q \in Pids : \A x \in DOMAIN tabla'[q] : x \in Nat /\ tabla'[q][x] \in Marcos
    <3>1. tabla'[hk.pid] = SinPaginas /\ DOMAIN SinPaginas = {}
      BY <1>1, <1>2 DEF SinPaginas
    <3> QED BY <1>3, <3>1 DEF InvMemoria, Control, TypeOK
  <2>3. TypeOK'
    BY <1>1, <1>4, <2>1, <2>2 DEF InvMemoria, Control, TypeOK
  <2>4. Formas' /\ Clientes'
    BY <1>1, <1>4, <2>1 DEF InvMemoria, Control, Formas, Clientes
  <2>5. Redimensionando => hc.pid \in Pids /\ hc.pid # hk.pid
    BY <1>2, Trabajando DEF InvMemoria, Vivos
  <2>6. EnCurso'
    <3>1. Redimensionando' => Redimensionando /\ cant'[hc.pid] = cant[hc.pid]
      BY <1>1, <1>3, <2>5 DEF Redimensionando
    <3>2. ~caida' /\ hc'.fase # "espera" /\ hc'.pid \in Vivos' => hc.pid \in registro'
      BY <1>1, <1>2 DEF InvMemoria, Control, EnCurso, Vivos
    <3> QED BY <1>1, <3>1, <3>2 DEF InvMemoria, Control, EnCurso
  <2> QED BY <2>3, <2>4, <2>6 DEF Control
<1>6. Hojas'
  <2>1. \A q \in Vivos : q \in Pids /\ q # hk.pid
    BY <1>2 DEF Vivos
  <2>2. hc.pid \in Vivos => Obtenidas' = Obtenidas
    BY <1>1, <1>3, <2>1 DEF Obtenidas
  <2> QED BY <1>1, <1>3, <2>1, <2>2
          DEF InvMemoria, Hojas, PaginasEnCurso, PaginasCompletas, Vivos
<1>7. Reparto'
  <2>1. \A q \in Pids : \A x \in DOMAIN tabla'[q] :
          q # hk.pid /\ x \in DOMAIN tabla[q] /\ tabla'[q][x] = tabla[q][x]
    <3>1. DOMAIN tabla'[hk.pid] = {}
      BY <1>1, <1>2 DEF SinPaginas
    <3> QED BY <1>3, <3>1
  <2>2. \A q, x : Devuelta(q, x) => q = hk.pid
    BY DEF Devuelta
  <2>3. MarcoEnMano'
    BY <1>1, <1>4, <2>1, <2>2 DEF InvMemoria, Reparto, MarcoEnMano, SinTabla
  <2>4. Apartados' /\ Marcados'
    BY <1>1, <2>1, <2>2 DEF InvMemoria, Reparto, Apartados, Marcados
  <2> QED BY <2>3, <2>4 DEF Reparto
<1> QED BY <1>5, <1>6, <1>7 DEF InvMemoria

----------------------------------------------------------------------------

\* The empty memory.
LEMMA MemoriaInit == Init => InvMemoria
<1> SUFFICES ASSUME Init PROVE InvMemoria
  OBVIOUS
<1>1. /\ Espera \in Locales(FasesCpu) /\ Espera \in Locales(FasesKernel)
      /\ Espera.fase = "espera" /\ Espera.pid = 0 /\ Espera.total = 0
  BY DEF Espera, Locales, FasesCpu, FasesKernel
<1>2. DOMAIN SinPaginas = {}
  BY DEF SinPaginas
<1>3. TypeOK
  <2>1. SinPedido \in [op : {"NADA", "INSTRUCCION", "RESIZE"}, pid : Pids \cup {0},
                       n : Tamanios \cup {0}, callado : BOOLEAN]
    BY DEF SinPedido
  <2>2. \A p \in Pids : DOMAIN tabla[p] = {}
    BY <1>2 DEF Init
  <2>3. <<>> \in Seq([op : {"INICIAR", "FINALIZAR"}, pid : Pids])
    BY EmptySeq
  <2>4. cant \in [Pids -> Tamanios \cup {0}]
    BY DEF Init
  <2>5. 0 \in 0..MaxPid /\ 0 \in 0..MaxResize
    BY MemoriaAssumption
  <2>6. \A h \in {hc, hk} : h.fase = "espera"
    BY <1>1 DEF Init
  <2> QED BY <2>1, <2>2, <2>3, <2>4, <2>5, <2>6 DEF Init, TypeOK
<1>4. Formas
  BY <1>1 DEF Init, Formas
<1>5. Clientes /\ EnCurso
  <2>1. Len(pedidosKernel) = 0
    BY DEF Init
  <2> QED BY <1>1, <2>1 DEF Init, Clientes, EnCurso, Redimensionando, SinPedido, Pids
<1>6. Hojas
  <2>1. \A p \in Pids : 0..(cant[p] - 1) = {}
    BY DEF Init
  <2> QED BY <1>1, <2>1 DEF Init, Hojas, PaginasEnCurso, PaginasCompletas, Vivos
<1>7. Reparto
  <2>1. \A p \in Pids : DOMAIN tabla[p] = {}
    BY <1>2 DEF Init
  <2> QED BY <1>1, <2>1 DEF Init, Reparto, MarcoEnMano, Apartados, Marcados
<1> QED BY <1>3, <1>4, <1>5, <1>6, <1>7 DEF InvMemoria, Control

LEMMA MemoriaNext == InvMemoria /\ [Next]_vars => InvMemoria'
<1> SUFFICES ASSUME InvMemoria, [Next]_vars PROVE InvMemoria'
  OBVIOUS
<1>1. CASE UNCHANGED vars
  <2>1. UNCHANGED <<pedidosKernel, creados, finalizados, pedido, listo, sinMemoria, resizes,
                    instrucciones, registro, cant, tabla, ocupados, pisado, hc, hk, caida>>
    BY <1>1 DEF vars, clientes, paginas, bitmap
  <2>2. Control'
    BY <2>1 DEF InvMemoria, Control, TypeOK, Formas, Clientes, EnCurso, Redimensionando, Vivos
  <2> QED BY <2>1, <2>2, QuietoHojas, QuietoReparto DEF InvMemoria
<1>2. CASE Next
  <2>1. CASE HiloCpu
    BY <1>2, <2>1, CpuInv, RedimensionaInv, AmpliaBuscaInv, AmpliaMarcaInv, RespondeInv,
       ReduceQuitaInv, ReduceDesmarcaInv, AjustaInv DEF HiloCpu, Next
  <2>2. CASE HiloKernel
    BY <1>2, <2>2, IniciaInv, LiberaInv, LiberaTablaInv DEF HiloKernel, Next
  <2> QED BY <1>2, <2>1, <2>2, IniciarInv, FinalizarInv, CpuInv DEF Next
<1> QED BY <1>1, <1>2

LEMMA MemoriaInvariante == Spec => []InvMemoria
BY MemoriaInit, MemoriaNext, PTL DEF Spec

\* The memory process only ever holds values of the shape its code has: the requests
\* in its sockets, the pages and frames of each table, the bitmap, and what each of
\* its two threads is doing.
THEOREM MemoriaTipoCorrecto == Spec => []TypeOK
<1>1. InvMemoria => TypeOK
  BY DEF InvMemoria, Control
<1> QED BY <1>1, MemoriaInvariante, PTL

\* ampliar_proceso gives every page its frame, however FINALIZAR_PROCESO of other
\* processes interleaves with RESIZE: a process that lives and was never told
\* OUT_OF_MEMORY has a frame for each page below cant_paginas.
THEOREM PaginasCompletasSiempre == Spec => []PaginasCompletas
<1>1. InvMemoria => PaginasCompletas
  BY DEF InvMemoria, Hojas
<1> QED BY <1>1, MemoriaInvariante, PTL

\* ampliar_proceso, reducir_proceso and liberar_proceso_de_memoria keep the tables of the
\* processes that have not ended apart, whatever the two threads interleave and however
\* many processes grow, shrink and end: a frame is of one page of one process, unless
\* one thread has stored over a bit the other changed since it loaded their byte.
THEOREM SinMarcoCompartidoSiempre == Spec => []SinMarcoCompartido
<1>1. InvMemoria => SinMarcoCompartido
  BY RepartoEs
<1> QED BY <1>1, MemoriaInvariante, PTL

\* On the same condition frames_libres knows it: the frame of a page of a process that
\* has not ended is never free.
THEOREM MarcadosOcupadosSiempre == Spec => []MarcadosOcupados
<1>1. InvMemoria => MarcadosOcupados
  BY RepartoEs
<1> QED BY <1>1, MemoriaInvariante, PTL

----------------------------------------------------------------------------
(* The MMU over it.                                                        *)

\* An access changes nothing of the memory process but whether it fell.
LEMMA AccedeQuieto ==
  ASSUME InvMemoria, Accede
  PROVE  /\ UNCHANGED deMemoria /\ caida' \in BOOLEAN /\ listo' \in {0, listo}
         /\ achicados' = achicados /\ negados \subseteq negados'
<1>0. caida \in BOOLEAN
  BY DEF InvMemoria, Control, TypeOK
<1>1. ASSUME NEW g \in Paginas, NEW n \in Tramos, MovIn(g, n) \/ MovOut(g, n) \/ CopiaLee(g, n)
      PROVE  /\ UNCHANGED <<deMemoria, caida, achicados>> /\ listo' \in {0, listo}
             /\ negados \subseteq negados'
  BY <1>1, Zenon DEF MovIn, MovOut, CopiaLee, Niega
<1>2. ASSUME NEW g \in Paginas, NEW n \in Tramos, PideIO(g, n)
      PROVE  /\ UNCHANGED <<deMemoria, caida, achicados>> /\ listo' \in {0, listo}
             /\ negados \subseteq negados'
  BY <1>2, Zenon DEF PideIO
<1>3. ASSUME NEW g \in Paginas, NEW n \in Tramos \cup {0}, CopiaEscribe(g, n)
      PROVE  /\ UNCHANGED <<deMemoria, caida, achicados>> /\ listo' \in {0, listo}
             /\ negados \subseteq negados'
  BY <1>3, Zenon DEF CopiaEscribe, Niega
<1>4. ASSUME NEW p \in Pids, IOEscribe(p)
      PROVE  UNCHANGED <<deMemoria, caida, listo, achicados, negados>>
  BY <1>4, Zenon DEF IOEscribe
<1>5. ASSUME AccedePagina
      PROVE  UNCHANGED <<deMemoria, listo, achicados, negados>> /\ caida' \in BOOLEAN
  <2>1. UNCHANGED <<deMemoria, listo, achicados, negados>>
    BY <1>5, Zenon DEF AccedePagina
  <2>2. caida' \in BOOLEAN
    BY <1>5, Zenon DEF AccedePagina
  <2> QED BY <2>1, <2>2
<1> QED BY <1>0, <1>1, <1>2, <1>3, <1>4, <1>5 DEF Accede

LEMMA AccedeInv ==
  ASSUME InvMemoria, ~caida, Accede
  PROVE  InvMemoria'
<1>1. /\ UNCHANGED <<pedidosKernel, creados, finalizados, pedido, sinMemoria, resizes,
                     instrucciones, registro, cant, tabla, ocupados, pisado, hc, hk>>
      /\ caida' \in BOOLEAN /\ listo' \in {0, listo}
  BY AccedeQuieto DEF deMemoria, paginas, bitmap
<1>2. Control'
  <2>1. TypeOK'
    BY <1>1 DEF InvMemoria, Control, TypeOK
  <2>2. Formas'
    BY <1>1 DEF InvMemoria, Control, Formas
  <2>3. 0 \notin finalizados \cup sinMemoria
    BY DEF InvMemoria, Control, TypeOK, Pids
  <2>4. Clientes'
    BY <1>1, <2>3 DEF InvMemoria, Control, Clientes
  <2>5. EnCurso'
    BY <1>1 DEF InvMemoria, Control, EnCurso, Redimensionando, Vivos
  <2> QED BY <2>1, <2>2, <2>4, <2>5 DEF Control
<1>3. Hojas' /\ Reparto'
  BY <1>1, QuietoHojas, QuietoReparto DEF InvMemoria
<1> QED BY <1>2, <1>3 DEF InvMemoria

LEMMA MinimoNatural ==
  ASSUME NEW S, S \subseteq Nat, S # {}
  PROVE  Min(S) \in S
<1>1. \E x \in S : \A y \in S : ~ (<<y, x>> \in OpToRel(<, Nat))
  BY NatLessThanWellFounded, WFMin
<1>2. PICK x \in S : \A y \in S : ~ (<<y, x>> \in OpToRel(<, Nat))
  BY <1>1
<1>3. ASSUME NEW y \in S PROVE x <= y
  <2>1. x \in Nat /\ y \in Nat
    OBVIOUS
  <2>2. ~ (y < x)
    BY <1>2, <2>1 DEF OpToRel
  <2> QED BY <2>1, <2>2
<1> QED BY <1>3 DEF Min

\* A hit is an entry of that process and page.
LEMMA EntradaEs ==
  ASSUME NEW t \in Seq(Celda), NEW p, NEW g, Entrada(t, p, g) # 0
  PROVE  /\ Entrada(t, p, g) \in 1..Len(t)
         /\ t[Entrada(t, p, g)].pid = p /\ t[Entrada(t, p, g)].pagina = g
<1> DEFINE I == {i \in 1..Len(t) : t[i].pid = p /\ t[i].pagina = g}
<1>1. Entrada(t, p, g) = IF I # {} THEN Min(I) ELSE 0
  BY DEF Entrada, SelectInSeq
<1>2. I \subseteq Nat
  BY LenProperties
<1>3. Min(I) \in I
  <2> HIDE DEF I
  <2> QED BY <1>1, <1>2, MinimoNatural
<1> QED BY <1>1, <1>3

\* The frame of a translation, whether the TLB has it or MARCO is asked.
LEMMA TraduceEs ==
  ASSUME TypeOK, NEW t \in Seq(Celda), NEW p \in Pids, NEW g
  PROVE  /\ Traduce(t, p, g) # -1 => Traduce(t, p, g) \in Marcos
         /\ Vigente(t) /\ p \in Estables => Traduce(t, p, g) = obtener_marco(p, g)
<1>1. CASE Entrada(t, p, g) = 0
  <2>1. Traduce(t, p, g) = obtener_marco(p, g)
    BY <1>1 DEF Traduce
  <2> QED BY <2>1 DEF obtener_marco, TypeOK
<1>2. CASE Entrada(t, p, g) # 0
  <2> DEFINE i == Entrada(t, p, g)
  <2>1. i \in 1..Len(t) /\ t[i].pid = p /\ t[i].pagina = g
    BY <1>2, EntradaEs
  <2>2. t[i].marco \in Marcos
    <3>1. t[i] \in Celda
      BY <2>1, ElementOfSeq
    <3> QED BY <3>1 DEF Celda
  <2>3. Traduce(t, p, g) = t[i].marco
    BY <1>2 DEF Traduce
  <2> HIDE DEF i
  <2> QED BY <2>1, <2>2, <2>3 DEF Vigente
<1> QED BY <1>1, <1>2

\* The TLB after an access: entries it had, and the page that missed.
LEMMA ReemplazaEs ==
  ASSUME TypeOK, NEW t \in Seq(Celda), NEW p \in Pids, NEW g \in Paginas
  PROVE  LET r == reemplazar_en_tlb(t, p, g)
         IN  /\ r \in Seq(Celda)
             /\ \A i \in 1..Len(r) :
                  \/ \E k \in 1..Len(t) : r[i] = t[k]
                  \/ r[i] = [pid |-> p, pagina |-> g, marco |-> obtener_marco(p, g)]
<1> DEFINE r == reemplazar_en_tlb(t, p, g)
           i == Entrada(t, p, g)
           f == Traduce(t, p, g)
           e == [pid |-> p, pagina |-> g, marco |-> f]
<1>1. CASE r = t
  BY <1>1
<1>2. CASE f # -1 /\ t # <<>> /\ i = 0 /\ r = Append(Tail(t), e)
  <2>1. f = obtener_marco(p, g) /\ f \in Marcos
    BY <1>2, TraduceEs DEF Traduce
  <2>2. e \in Celda
    BY <2>1 DEF Celda
  <2>3. /\ Tail(t) \in Seq(Celda) /\ Len(Tail(t)) = Len(t) - 1 /\ Len(t) \in Nat
        /\ \A k \in 1..Len(Tail(t)) : Tail(t)[k] = t[k + 1]
    BY <1>2, HeadTailProperties, LenProperties
  <2> HIDE DEF r, i, f, e
  <2>4. /\ r \in Seq(Celda) /\ Len(r) = Len(t)
        /\ \A k \in 1..(Len(t) - 1) : r[k] = t[k + 1]
        /\ r[Len(t)] = e
    <3>1. /\ r \in Seq(Celda) /\ Len(r) = Len(Tail(t)) + 1
          /\ \A k \in 1..Len(Tail(t)) : r[k] = Tail(t)[k]
          /\ r[Len(Tail(t)) + 1] = e
      BY <1>2, <2>2, <2>3, AppendProperties
    <3>2. Len(Tail(t)) + 1 = Len(t)
      BY <2>3
    <3> QED BY <2>3, <3>1, <3>2
  <2>5. ASSUME NEW k \in 1..Len(r)
        PROVE  (\E j \in 1..Len(t) : r[k] = t[j]) \/ r[k] = e
    <3>1. CASE k = Len(t)
      BY <2>4, <3>1
    <3>2. CASE k # Len(t)
      <4>1. Len(t) \in Nat /\ k \in 1..Len(t)
        BY <2>3, <2>4
      <4>2. k \in 1..(Len(t) - 1) /\ k + 1 \in 1..Len(t)
        BY <3>2, <4>1
      <4> QED BY <2>4, <4>2
    <3> QED BY <3>1, <3>2
  <2> QED BY <2>1, <2>4, <2>5 DEF r, e
<1>3. CASE i # 0 /\ r = Append(RemoveAt(t, i), t[i])
  <2> DEFINE a == SubSeq(t, 1, i - 1)
             b == SubSeq(t, i + 1, Len(t))
  <2>1. i \in 1..Len(t) /\ Len(t) \in Nat /\ i \in Int
    BY <1>3, EntradaEs, LenProperties
  <2>2. t[i] \in Celda /\ \A k \in 1..Len(t) : t[k] \in Celda
    BY <2>1, ElementOfSeq
  <2> HIDE DEF r, i, f, e
  <2>3. /\ a \in Seq(Celda) /\ Len(a) = i - 1
        /\ \A k \in 1..(i - 1) : a[k] = t[k]
    <3>1. 1 \in Int /\ i - 1 \in Int /\ \A k \in 1..(i - 1) : t[k] \in Celda
      BY <2>1, <2>2
    <3>2. /\ a \in Seq(Celda) /\ Len(a) = IF 1 <= i - 1 THEN (i - 1) - 1 + 1 ELSE 0
          /\ \A k \in 1..((i - 1) - 1 + 1) : a[k] = t[1 + k - 1]
      BY <3>1, SubSeqProperties
    <3>3. \A k \in 1..(i - 1) : k \in 1..((i - 1) - 1 + 1) /\ 1 + k - 1 = k
      BY <2>1
    <3>4. Len(a) = i - 1
      BY <2>1, <3>2
    <3> HIDE DEF a
    <3> QED BY <3>2, <3>3, <3>4
  <2>4. /\ b \in Seq(Celda) /\ Len(b) = Len(t) - i
        /\ \A k \in 1..(Len(t) - i) : b[k] = t[i + k]
    <3>1. i + 1 \in Int /\ Len(t) \in Int /\ \A k \in (i + 1)..Len(t) : t[k] \in Celda
      BY <2>1, <2>2
    <3>2. /\ b \in Seq(Celda) /\ Len(b) = IF i + 1 <= Len(t) THEN Len(t) - (i + 1) + 1 ELSE 0
          /\ \A k \in 1..(Len(t) - (i + 1) + 1) : b[k] = t[(i + 1) + k - 1]
      BY <3>1, SubSeqProperties
    <3>3. \A k \in 1..(Len(t) - i) : k \in 1..(Len(t) - (i + 1) + 1) /\ (i + 1) + k - 1 = i + k
      BY <2>1
    <3>4. Len(b) = Len(t) - i
      BY <2>1, <3>2
    <3> HIDE DEF b
    <3> QED BY <3>2, <3>3, <3>4
  <2>5. RemoveAt(t, i) = a \o b
    BY DEF RemoveAt
  <2> HIDE DEF a, b
  <2>6. /\ RemoveAt(t, i) \in Seq(Celda) /\ Len(RemoveAt(t, i)) = Len(t) - 1
        /\ \A k \in 1..(Len(t) - 1) : \E j \in 1..Len(t) : RemoveAt(t, i)[k] = t[j]
    <3>1. /\ a \o b \in Seq(Celda) /\ Len(a \o b) = Len(a) + Len(b)
          /\ \A k \in 1..(Len(a) + Len(b)) :
               (a \o b)[k] = IF k <= Len(a) THEN a[k] ELSE b[k - Len(a)]
      BY <2>3, <2>4, ConcatProperties
    <3>2. Len(a) + Len(b) = Len(t) - 1
      BY <2>1, <2>3, <2>4
    <3>3. ASSUME NEW k \in 1..(Len(t) - 1)
          PROVE  \E j \in 1..Len(t) : (a \o b)[k] = t[j]
      <4>1. CASE k <= i - 1
        <5>1. k \in 1..(i - 1) /\ k \in 1..Len(t)
          BY <2>1, <4>1
        <5>2. (a \o b)[k] = a[k]
          BY <2>3, <3>1, <3>2, <4>1
        <5> QED BY <2>3, <5>1, <5>2
      <4>2. CASE ~ (k <= i - 1)
        <5>1. k - (i - 1) \in 1..(Len(t) - i) /\ i + (k - (i - 1)) \in 1..Len(t)
          BY <2>1, <4>2
        <5>2. (a \o b)[k] = b[k - (i - 1)]
          BY <2>3, <3>1, <3>2, <4>2
        <5> QED BY <2>4, <5>1, <5>2
      <4> QED BY <4>1, <4>2
    <3> QED BY <2>5, <3>1, <3>2, <3>3
  <2>7. /\ r \in Seq(Celda) /\ Len(r) = Len(t)
        /\ \A k \in 1..(Len(t) - 1) : r[k] = RemoveAt(t, i)[k]
        /\ r[Len(t)] = t[i]
    <3>1. /\ r \in Seq(Celda) /\ Len(r) = Len(RemoveAt(t, i)) + 1
          /\ \A k \in 1..Len(RemoveAt(t, i)) : r[k] = RemoveAt(t, i)[k]
          /\ r[Len(RemoveAt(t, i)) + 1] = t[i]
      BY <1>3, <2>2, <2>6, AppendProperties
    <3>2. Len(RemoveAt(t, i)) + 1 = Len(t)
      BY <2>1, <2>6
    <3> QED BY <2>6, <3>1, <3>2
  <2>8. ASSUME NEW k \in 1..Len(r)
        PROVE  \E j \in 1..Len(t) : r[k] = t[j]
    <3>1. CASE k = Len(t)
      BY <2>1, <2>7, <3>1
    <3>2. CASE k # Len(t)
      <4>1. k \in 1..(Len(t) - 1)
        BY <2>1, <2>7, <3>2
      <4> QED BY <2>6, <2>7, <4>1
    <3> QED BY <3>1, <3>2
  <2> QED BY <2>7, <2>8 DEF r
<1>4. \/ r = t
      \/ f # -1 /\ t # <<>> /\ i = 0 /\ r = Append(Tail(t), e)
      \/ i # 0 /\ r = Append(RemoveAt(t, i), t[i])
  BY DEF reemplazar_en_tlb
<1> QED BY <1>1, <1>2, <1>3, <1>4

\* While a process neither ends nor gives up pages, its table only gets the page after
\* the last one.
LEMMA PasoEstable ==
  ASSUME InvMemoria, hc.fase \in {"reduce", "desmarca"} => hc.pid \in achicados, Next,
         NEW p \in Pids, p \notin finalizados', p \notin achicados,
         ~ (hc'.fase = "reduce" /\ hc'.pid = p)
  PROVE  \/ tabla'[p] = tabla[p] /\ (p \notin sinMemoria' => Limite(p)' = Limite(p))
         \/ /\ p \notin sinMemoria /\ Limite(p) \in Nat /\ Limite(p)' = Limite(p) + 1
            /\ tabla'[p] = [x \in DOMAIN tabla[p] \cup {Limite(p)} |->
                              IF x = Limite(p) THEN hc.j ELSE tabla[p][x]]
<1>1. /\ hc \in Locales(FasesCpu) /\ hc.total \in Nat /\ cant[p] \in Nat /\ hc.i \in Nat
      /\ DOMAIN tabla = Pids /\ cant \in [Pids -> Tamanios \cup {0}]
  BY Trabajando DEF InvMemoria, Control, Formas, Locales, TypeOK
<1>2. CASE UNCHANGED <<tabla, cant, hc>>
  BY <1>2 DEF Limite, Obtenidas
<1>3. CASE Redimensiona
  <2>1. /\ UNCHANGED <<tabla, cant>> /\ hc.fase = "espera" /\ hc.pid = 0 /\ p # hc.pid
    BY <1>3 DEF Redimensiona, Llega, paginas, InvMemoria, Control, Formas, Espera, Pids
  <2>2. pedido.n \in Nat /\ cant[pedido.pid] \in Nat
    <3>1. pedido.n \in Tamanios \cup {0} /\ pedido.pid \in Pids
      BY <1>3 DEF Redimensiona, Llega, InvMemoria, Control, TypeOK, Clientes
    <3> QED BY <3>1, ConstantesOK, Trabajando
  <2>3. \/ hc' = hc
        \/ hc'.fase = "amplia" /\ hc'.i = 0
        \/ hc'.fase = "reduce"
    <3>1. CASE pedido.n > cant[pedido.pid]
      <4>1. hc' = [Espera EXCEPT !.fase = "amplia", !.pid = pedido.pid,
                                 !.n = pedido.n - cant[pedido.pid], !.total = pedido.n]
        BY <1>3, <2>2, <3>1 DEF Redimensiona
      <4> QED BY <4>1 DEF Espera
    <3>2. CASE pedido.n < cant[pedido.pid]
      <4>1. hc' = [Espera EXCEPT !.fase = "reduce", !.pid = pedido.pid,
                                 !.n = cant[pedido.pid] - pedido.n, !.total = pedido.n]
        BY <1>3, <2>2, <3>2 DEF Redimensiona
      <4> QED BY <4>1 DEF Espera
    <3>3. CASE pedido.n = cant[pedido.pid]
      BY <1>3, <2>2, <3>3 DEF Redimensiona
    <3> QED BY <2>2, <3>1, <3>2, <3>3
  <2>4. Limite(p)' = Limite(p)
    BY <1>1, <2>1, <2>3 DEF Limite, Obtenidas
  <2> QED BY <2>1, <2>4
<1>4. CASE AmpliaBusca \/ AmpliaCarga
  <2>1. /\ UNCHANGED <<tabla, cant>> /\ hc.fase \in {"amplia", "carga"}
        /\ hc'.fase \in {"amplia", "carga", "marca"} /\ hc'.pid = hc.pid /\ hc'.i = hc.i
    BY <1>1, <1>4 DEF AmpliaBusca, AmpliaCarga, paginas, Locales
  <2> QED BY <2>1 DEF Limite, Obtenidas
<1>5. CASE AmpliaMarca
  <2>1. /\ hc.fase = "marca" /\ cant' = cant
        /\ tabla' = [tabla EXCEPT ![hc.pid] = [x \in DOMAIN @ \cup {cant[hc.pid] + hc.i} |->
                                     IF x = cant[hc.pid] + hc.i THEN hc.j ELSE @[x]]]
        /\ hc'.fase = "amplia" /\ hc'.pid = hc.pid /\ hc'.i = hc.i + 1
    BY <1>1, <1>5 DEF AmpliaMarca, Locales
  <2>2. CASE p = hc.pid
    <3>1. p \notin sinMemoria
      BY <2>1, <2>2 DEF InvMemoria, Control, Clientes, EnCurso, Redimensionando
    <3>2. Limite(p) = cant[hc.pid] + hc.i /\ Limite(p)' = (cant[hc.pid] + (hc.i + 1))
      BY <2>1, <2>2 DEF Limite, Obtenidas
    <3>3. tabla'[p] = [x \in DOMAIN tabla[p] \cup {Limite(p)} |->
                         IF x = Limite(p) THEN hc.j ELSE tabla[p][x]]
      BY <1>1, <2>1, <2>2, <3>2
    <3> QED BY <1>1, <2>2, <3>1, <3>2, <3>3
  <2>3. CASE p # hc.pid
    BY <1>1, <2>1, <2>3 DEF Limite
  <2> QED BY <2>2, <2>3
<1>6. CASE AmpliaSinMarco \/ AmpliaFin \/ ReduceFin
  <2>1. /\ UNCHANGED <<tabla, cant>> /\ hc.fase \in {"amplia", "reduce"}
        /\ hc'.fase = "ajusta" /\ hc'.pid = hc.pid /\ hc'.total = hc.total
        /\ hc.i = hc.n \/ hc.pid \in sinMemoria'
    BY <1>1, <1>6 DEF AmpliaSinMarco, AmpliaFin, ReduceFin, Responde, paginas, Locales
  <2>2. hc.fase = "amplia" => hc.total = cant[hc.pid] + hc.n
    BY DEF InvMemoria, Control, EnCurso, Redimensionando
  <2> QED BY <2>1, <2>2 DEF Limite, Obtenidas
<1>7. CASE ReduceQuita \/ ReduceDesmarca
  <2>1. /\ hc.fase \in {"reduce", "desmarca"} /\ cant' = cant /\ hc'.pid = hc.pid
        /\ \/ tabla' = tabla
           \/ \E t : tabla' = [tabla EXCEPT ![hc.pid] = t]
    BY <1>1, <1>7 DEF ReduceQuita, ReduceDesmarca, paginas, Locales
  <2>2. p # hc.pid
    BY <2>1
  <2> QED BY <1>1, <2>1, <2>2 DEF Limite
<1>8. CASE Ajusta
  <2>1. /\ hc.fase = "ajusta" /\ hc'.pid = 0 /\ tabla' = tabla
        /\ IF hc.pid \in registro THEN cant' = [cant EXCEPT ![hc.pid] = hc.total]
                                  ELSE cant' = cant
    BY <1>8 DEF Ajusta, Espera
  <2>2. p = hc.pid => hc.pid \in registro
    <3>1. ~caida /\ (p = hc.pid => hc.pid \in Vivos)
      BY <1>8 DEF Next, Ajusta, clientes, Vivos
    <3> QED BY <2>1, <3>1 DEF InvMemoria, Control, EnCurso
  <2>3. Limite(p)' = cant'[p]
    BY <2>1 DEF Limite, Pids
  <2>4. CASE p = hc.pid
    BY <1>1, <2>1, <2>2, <2>3, <2>4 DEF Limite, Obtenidas
  <2>5. CASE p # hc.pid
    BY <1>1, <2>1, <2>3, <2>5 DEF Limite, Obtenidas
  <2> QED BY <2>4, <2>5
<1>9. CASE LiberaTabla
  <2>1. /\ UNCHANGED <<hc, finalizados>>
        /\ tabla' = [tabla EXCEPT ![hk.pid] = SinPaginas] /\ cant' = [cant EXCEPT ![hk.pid] = 0]
        /\ hk.pid \in finalizados
    BY <1>9 DEF LiberaTabla, clientes, InvMemoria, Control, Clientes
  <2>2. tabla'[p] = tabla[p] /\ cant'[p] = cant[p]
    BY <1>1, <2>1
  <2>3. Limite(p)' = Limite(p)
    BY <2>1, <2>2 DEF Limite, Obtenidas
  <2> QED BY <2>2, <2>3
<1>10. \/ UNCHANGED <<tabla, cant, hc>>
       \/ Redimensiona \/ AmpliaBusca \/ AmpliaCarga \/ AmpliaMarca
       \/ AmpliaSinMarco \/ AmpliaFin
       \/ ReduceQuita \/ ReduceDesmarca \/ ReduceFin \/ Ajusta \/ LiberaTabla
  BY DEF Next, HiloCpu, HiloKernel, IniciarProceso, FinalizarProceso, PideInstruccion,
         PideResize, Instruccion, EjecutarScript, GuardarProceso, LiberarProceso,
         LiberaPagina, LiberaMarco, paginas
<1> QED BY <1>2, <1>3, <1>4, <1>5, <1>6, <1>7, <1>8, <1>9, <1>10

\* Who has ended and who was told OUT_OF_MEMORY is never taken back, and pages are taken
\* out only by a loop that began as such.
LEMMA Crecen ==
  ASSUME Next, hc \in Locales(FasesCpu)
  PROVE  /\ finalizados \subseteq finalizados' /\ sinMemoria \subseteq sinMemoria'
         /\ hc'.fase = "desmarca" => hc.fase \in {"reduce", "desmarca"} /\ hc'.pid = hc.pid
<1>1. CASE finalizados \subseteq finalizados' /\ sinMemoria' = sinMemoria /\ hc' = hc
  BY <1>1
<1>2. CASE Redimensiona
  <2>1. UNCHANGED <<finalizados, sinMemoria>> /\ hc.fase = "espera"
    BY <1>2 DEF Redimensiona, Llega
  <2>2. \/ hc' = [Espera EXCEPT !.fase = "amplia", !.pid = pedido.pid,
                                !.n = pedido.n - cant[pedido.pid], !.total = pedido.n]
        \/ hc' = [Espera EXCEPT !.fase = "reduce", !.pid = pedido.pid,
                                !.n = cant[pedido.pid] - pedido.n, !.total = pedido.n]
        \/ hc' = hc
        \/ ~ (pedido.n > cant[pedido.pid] \/ pedido.n < cant[pedido.pid])
    BY <1>2 DEF Redimensiona
  <2>3. hc'.fase # "desmarca"
    <3>1. CASE pedido.n > cant[pedido.pid] \/ pedido.n < cant[pedido.pid]
      BY <2>1, <2>2, <3>1 DEF Espera
    <3>2. CASE ~ (pedido.n > cant[pedido.pid] \/ pedido.n < cant[pedido.pid])
      BY <1>2, <2>1, <3>2 DEF Redimensiona
    <3> QED BY <3>1, <3>2
  <2> QED BY <2>1, <2>3
<1>3. CASE AmpliaBusca \/ AmpliaCarga \/ AmpliaMarca \/ ReduceQuita \/ ReduceDesmarca
  <2>1. UNCHANGED <<finalizados, sinMemoria>>
    BY <1>3 DEF AmpliaBusca, AmpliaCarga, AmpliaMarca, ReduceQuita, ReduceDesmarca, clientes
  <2>2. hc'.fase = "desmarca" => hc.fase \in {"reduce", "desmarca"} /\ hc'.pid = hc.pid
    BY <1>3 DEF AmpliaBusca, AmpliaCarga, AmpliaMarca, ReduceQuita, ReduceDesmarca, Locales
  <2> QED BY <2>1, <2>2
<1>4. CASE AmpliaSinMarco \/ AmpliaFin \/ ReduceFin
  BY <1>4 DEF AmpliaSinMarco, AmpliaFin, ReduceFin, Responde, Locales
<1>5. CASE Ajusta
  BY <1>5 DEF Ajusta, Espera, clientes
<1>6. \/ finalizados \subseteq finalizados' /\ sinMemoria' = sinMemoria /\ hc' = hc
      \/ Redimensiona \/ AmpliaBusca \/ AmpliaCarga \/ AmpliaMarca
      \/ AmpliaSinMarco \/ AmpliaFin
      \/ ReduceQuita \/ ReduceDesmarca \/ ReduceFin \/ Ajusta
  BY DEF Next, HiloCpu, HiloKernel, IniciarProceso, FinalizarProceso, PideInstruccion,
         PideResize, Instruccion, EjecutarScript, GuardarProceso, LiberarProceso,
         LiberaPagina, LiberaMarco, LiberaTabla, clientes, bitmap
<1> QED BY <1>1, <1>2, <1>3, <1>4, <1>5, <1>6

\* A store that undid the other thread's is not forgotten.
LEMMA Pisado ==
  ASSUME Next, ~pisado'
  PROVE  ~pisado
BY DEF Next, HiloCpu, HiloKernel, IniciarProceso, FinalizarProceso, PideInstruccion,
       PideResize, Instruccion, Redimensiona, AmpliaBusca, AmpliaCarga, AmpliaMarca,
       AmpliaSinMarco, AmpliaFin, Responde, ReduceQuita, ReduceDesmarca, ReduceFin, Ajusta,
       EjecutarScript, GuardarProceso, LiberarProceso, LiberaPagina, LiberaMarco,
       LiberaTabla, Guarda, bitmap

\* What the memory process does to the table of a process that goes on and gives up
\* nothing: the pages it had keep their frames, and none is beyond the last.
LEMMA MarcoEstable ==
  ASSUME InvMmu, Memoriza, NEW p \in Pids, p \notin finalizados', p \notin achicados'
  PROVE  /\ p \in Estables
         /\ \A g : obtener_marco(p, g) # -1 => obtener_marco(p, g)' = obtener_marco(p, g)
         /\ \A g \in DOMAIN tabla[p] : g \in DOMAIN tabla'[p] /\ tabla'[p][g] = tabla[p][g]
         /\ p \notin sinMemoria' => DOMAIN tabla'[p] \subseteq 0..(Limite(p)' - 1)
<1>1. /\ Next /\ hc \in Locales(FasesCpu) /\ InvMemoria
      /\ p \notin achicados /\ ~ (hc'.fase = "reduce" /\ hc'.pid = p)
  BY DEF InvMmu, Memoriza, InvMemoria, Control, Formas
<1>2. p \notin finalizados /\ sinMemoria \subseteq sinMemoria' /\ p \in Estables
  BY <1>1, Crecen DEF Estables, Vivos
<1>3. p \notin sinMemoria => DOMAIN tabla[p] \subseteq 0..(Limite(p) - 1)
  BY <1>2 DEF InvMmu, SinPaginasDeMas
<1>4. CASE tabla'[p] = tabla[p] /\ (p \notin sinMemoria' => Limite(p)' = Limite(p))
  BY <1>2, <1>3, <1>4 DEF obtener_marco
<1>5. CASE /\ p \notin sinMemoria /\ Limite(p) \in Nat /\ Limite(p)' = Limite(p) + 1
           /\ tabla'[p] = [x \in DOMAIN tabla[p] \cup {Limite(p)} |->
                             IF x = Limite(p) THEN hc.j ELSE tabla[p][x]]
  <2> DEFINE l == Limite(p)
  <2>1. l \in Nat /\ DOMAIN tabla[p] \subseteq 0..(l - 1)
    BY <1>3, <1>5
  <2>2. l \notin 0..(l - 1) /\ 0..(l - 1) \subseteq 0..l /\ l \in 0..l /\ (l + 1) - 1 = l
    BY <2>1
  <2>3. Limite(p)' - 1 = l
    BY <1>5, <2>1
  <2>4. l \notin DOMAIN tabla[p] /\ DOMAIN tabla'[p] = DOMAIN tabla[p] \cup {l}
    BY <1>5, <2>1, <2>2
  <2>5. \A g \in DOMAIN tabla[p] : g \in DOMAIN tabla'[p] /\ tabla'[p][g] = tabla[p][g]
    BY <1>5, <2>4
  <2>6. DOMAIN tabla'[p] \subseteq 0..(Limite(p)' - 1)
    BY <2>1, <2>2, <2>3, <2>4
  <2> QED BY <1>2, <2>5, <2>6 DEF obtener_marco
<1> QED BY <1>1, <1>2, <1>4, <1>5, PasoEstable DEF InvMmu, FormasMmu

----------------------------------------------------------------------------

LEMMA MmuInit == InitMmu => InvMmu
<1> SUFFICES ASSUME InitMmu PROVE InvMmu
  OBVIOUS
<1>1. InvMemoria
  BY MemoriaInit DEF InitMmu
<1>2. tlb \in Seq(Celda)
  <2>1. [pid |-> 0, pagina |-> 0, marco |-> 0] \in Celda
    BY MemoriaAssumption DEF Celda, Marcos
  <2>2. tlb \in [1..Entradas -> Celda]
    BY <2>1 DEF InitMmu
  <2> QED BY <2>2, MmuAssumption
<1>3. FormasMmu
  <2>1. SinAcceso \in Accesos
    BY MemoriaAssumption DEF SinAcceso, Accesos, Marcos
  <2> QED BY <1>2, <2>1 DEF InitMmu, Init, FormasMmu, Espera, SinIO
<1>4. SinPaginasDeMas
  BY DEF InitMmu, Init, SinPaginas, SinPaginasDeMas, Estables, Vivos
<1>5. Vigente(tlb)
  <2>1. \A i \in 1..Len(tlb) : tlb[i].pid = 0
    BY MmuAssumption DEF InitMmu
  <2> QED BY <2>1 DEF Vigente, Estables, Vivos, Pids
<1>6. IoVigente /\ AccesoVigente /\ Accediendo
  BY DEF InitMmu, IoVigente, AccesoVigente, Accediendo, Fieles, Estables, Vivos
<1> QED BY <1>1, <1>3, <1>4, <1>5, <1>6 DEF InvMmu

\* The memory process goes on.
LEMMA MemorizaMmu ==
  ASSUME InvMmu, Memoriza
  PROVE  InvMmu'
<1>1. InvMemoria'
  BY MemoriaNext DEF InvMmu, Memoriza
<1>2. UNCHANGED <<tlb, io, acceso, copia, contenido, negados>>
  BY DEF Memoriza
<1>3. \A p \in Estables' : p \in Pids /\ p \notin finalizados' /\ p \notin achicados'
  BY DEF Estables, Vivos
<1>4. FormasMmu'
  <2>1. hc'.fase = "reduce" => hc'.pid \in achicados'
    BY DEF Memoriza
  <2>2. hc'.fase = "desmarca" => hc'.pid \in achicados'
    BY Crecen DEF Memoriza, InvMmu, FormasMmu, InvMemoria, Control, Formas
  <2> QED BY <1>2, <2>1, <2>2 DEF InvMmu, FormasMmu
<1>5. SinPaginasDeMas'
  BY <1>3, MarcoEstable DEF SinPaginasDeMas
<1>6. Vigente(tlb)'
  <2>1. ASSUME NEW i \in 1..Len(tlb), tlb[i].pid \in Estables'
        PROVE  obtener_marco(tlb[i].pid, tlb[i].pagina)' = tlb[i].marco
    <3>1. tlb[i].pid \in Estables
      BY <1>3, <2>1, MarcoEstable
    <3>2. obtener_marco(tlb[i].pid, tlb[i].pagina) = tlb[i].marco
      BY <2>1, <3>1 DEF InvMmu, Vigente
    <3>3. tlb[i].marco # -1
      <4>1. tlb[i] \in Celda
        BY <2>1, ElementOfSeq DEF InvMmu, FormasMmu
      <4> QED BY <4>1, MemoriaAssumption DEF Celda, Marcos
    <3> QED BY <1>2, <1>3, <2>1, <3>2, <3>3, MarcoEstable
  <2> QED BY <1>2, <2>1 DEF Vigente
<1>7. Fieles' \subseteq Fieles /\ Fieles' \subseteq Estables'
  BY <1>2, <1>3, MarcoEstable DEF Fieles
<1>8. IoVigente'
  BY <1>2, <1>3, <1>7, MarcoEstable DEF InvMmu, IoVigente
<1>9. AccesoVigente'
  <2>1. ~pisado' => ~pisado
    BY Pisado DEF Memoriza
  <2> QED BY <1>2, <1>3, <1>7, <2>1, MarcoEstable DEF InvMmu, AccesoVigente
<1>10. Accediendo'
  <2>1. \A p \in Ocupados : p \in Vivos \cup negados => p \in Vivos' \cup negados'
    BY <1>2 DEF Memoriza, Vivos
  <2>2. SinAcceso.pid = 0 /\ 0 \notin Pids
    BY DEF SinAcceso, Pids
  <2> QED BY <1>2, <2>1, <2>2 DEF InvMmu, Accediendo, Ocupados
<1> QED BY <1>1, <1>4, <1>5, <1>6, <1>8, <1>9, <1>10 DEF InvMmu

\* An access of p leaves the TLB as good as it was.
LEMMA VigenteReemplaza ==
  ASSUME TypeOK, NEW t \in Seq(Celda), Vigente(t), NEW p \in Pids, NEW g \in Paginas
  PROVE  reemplazar_en_tlb(t, p, g) \in Seq(Celda) /\ Vigente(reemplazar_en_tlb(t, p, g))
<1> DEFINE r == reemplazar_en_tlb(t, p, g)
           e == [pid |-> p, pagina |-> g, marco |-> obtener_marco(p, g)]
<1>1. /\ r \in Seq(Celda)
      /\ \A i \in 1..Len(r) : (\E k \in 1..Len(t) : r[i] = t[k]) \/ r[i] = e
  BY ReemplazaEs
<1>2. e.pid = p /\ e.pagina = g /\ e.marco = obtener_marco(p, g)
  OBVIOUS
<1> HIDE DEF r, e
<1>3. ASSUME NEW i \in 1..Len(r), r[i].pid \in Estables
      PROVE  obtener_marco(r[i].pid, r[i].pagina) = r[i].marco
  <2>1. CASE r[i] = e
    BY <1>2, <2>1
  <2>2. CASE \E k \in 1..Len(t) : r[i] = t[k]
    BY <1>3, <2>2 DEF Vigente
  <2> QED BY <1>1, <2>1, <2>2
<1>4. Vigente(r)
  BY <1>3 DEF Vigente
<1> QED BY <1>1, <1>4 DEF r

\* An access that begins with what the TLB or memoria answered.
LEMMA TraduceBien ==
  ASSUME InvMmu, NEW p \in Pids, NEW g, Traduce(tlb, p, g) = -1 => p \in negados'
  PROVE  /\ MarcoDe(Traduce(tlb, p, g)) \in Marcos
         /\ p \in Estables \ negados' => /\ MarcoDe(Traduce(tlb, p, g)) = obtener_marco(p, g)
                                         /\ MarcoDe(Traduce(tlb, p, g)) # -1
<1> DEFINE f == Traduce(tlb, p, g)
<1>1. /\ f # -1 => f \in Marcos
      /\ p \in Estables => f = obtener_marco(p, g)
  BY TraduceEs DEF InvMmu, FormasMmu, InvMemoria, Control
<1>2. 0 \in Marcos
  BY MemoriaAssumption DEF Marcos
<1> HIDE DEF f
<1>3. MarcoDe(f) \in Marcos /\ (f # -1 => MarcoDe(f) = f)
  BY <1>1, <1>2 DEF MarcoDe
<1> QED BY <1>1, <1>3 DEF f

\* What an access may leave: its process p, which lives or was denied one, and the
\* frame f of page g.
Bien(p, g, f) ==
    /\ p \in Pids /\ p \in Vivos \cup negados'
    /\ p \in Estables \ negados' => f = obtener_marco(p, g) /\ f # -1

\* How an access changes what is in course.
AccesoEs ==
    \/ acceso' = acceso
    \/ acceso # SinAcceso /\ acceso' = Sigue(acceso) /\ negados' = negados
    \/ acceso' \in Accesos /\ Bien(acceso'.pid, acceso'.pagina, acceso'.marco)

IoEs ==
    \/ io' = io
    \/ \E p \in Pids : io' = [io EXCEPT ![p] = SinIO]
    \/ \E p \in Pids, m \in Marcos, g \in Int, n \in Int :
         io' = [io EXCEPT ![p] = [marco |-> m, pagina |-> g, faltan |-> n]] /\ Bien(p, g, m)

ContenidoEs ==
    \/ contenido' = contenido
    \/ /\ acceso # SinAcceso
       /\ contenido' = [contenido EXCEPT ![acceso.marco] = <<acceso.pid, acceso.pagina>>]

TlbEs == tlb' \in Seq(Celda) /\ Vigente(tlb')

CopiaEs == copia' \in {0, copia} \cup Vivos

\* The access of an instruction.
LEMMA EmpiezaBien ==
  ASSUME InvMmu, NEW p \in Pids, p \in Vivos \cup negados', NEW g \in Paginas,
         NEW n \in Int, NEW e \in BOOLEAN, NEW c \in BOOLEAN,
         Traduce(tlb, p, g) = -1 => p \in negados',
         Empieza(p, Traduce(tlb, p, g), g, n, e, c)
  PROVE  acceso' \in Accesos /\ Bien(acceso'.pid, acceso'.pagina, acceso'.marco)
<1> DEFINE f == MarcoDe(Traduce(tlb, p, g))
<1>1. acceso' = [pid |-> p, marco |-> f, pagina |-> g, faltan |-> n, escribe |-> e, cpu |-> c]
  BY DEF Empieza
<1>2. /\ f \in Marcos
      /\ p \in Estables \ negados' => f = obtener_marco(p, g) /\ f # -1
  BY TraduceBien
<1>3. g \in Int
  BY DEF Paginas
<1> HIDE DEF f
<1> QED BY <1>1, <1>2, <1>3 DEF Accesos, Bien

LEMMA AccedeForma ==
  ASSUME InvMmu, Accede
  PROVE  TlbEs /\ AccesoEs /\ IoEs /\ ContenidoEs /\ CopiaEs
<1>1. /\ TypeOK /\ tlb \in Seq(Celda) /\ Vigente(tlb)
      /\ Ejecuta => listo \in Pids /\ listo \in Vivos
      /\ copia # 0 => copia \in Pids /\ copia \in Vivos \cup negados
  BY DEF InvMmu, FormasMmu, Accediendo, InvMemoria, Control, TypeOK, Clientes, Ejecuta, Vivos
<1>2. \A n \in Tramos \cup {0} : n \in Int
  BY DEF Tramos
<1>3. negados \subseteq negados'
  BY AccedeQuieto DEF InvMmu
<1>4. ASSUME NEW g \in Paginas, NEW n \in Tramos, MovIn(g, n) \/ MovOut(g, n)
      PROVE  TlbEs /\ AccesoEs /\ IoEs /\ ContenidoEs /\ CopiaEs
  <2>1. /\ listo \in Pids /\ listo \in Vivos /\ tlb' = reemplazar_en_tlb(tlb, listo, g)
        /\ UNCHANGED <<contenido, io, copia>> /\ Niega(tlb, listo, g)
    BY <1>1, <1>4 DEF MovIn, MovOut
  <2>2. Traduce(tlb, listo, g) = -1 => listo \in negados'
    BY <2>1 DEF Niega
  <2>3. \/ acceso' = acceso
        \/ Empieza(listo, Traduce(tlb, listo, g), g, n, FALSE, TRUE)
        \/ Empieza(listo, Traduce(tlb, listo, g), g, n, TRUE, TRUE)
    BY <1>4 DEF MovIn, MovOut
  <2>4. AccesoEs
    BY <1>2, <2>1, <2>2, <2>3, EmpiezaBien DEF AccesoEs
  <2>5. TlbEs
    BY <1>1, <2>1, VigenteReemplaza DEF TlbEs
  <2> QED BY <2>1, <2>4, <2>5 DEF IoEs, ContenidoEs, CopiaEs
<1>5. ASSUME NEW g \in Paginas, NEW n \in Tramos, CopiaLee(g, n)
      PROVE  TlbEs /\ AccesoEs /\ IoEs /\ ContenidoEs /\ CopiaEs
  <2>1. /\ listo \in Pids /\ listo \in Vivos /\ tlb' = reemplazar_en_tlb(tlb, listo, g)
        /\ UNCHANGED <<contenido, io>> /\ copia' = listo /\ Niega(tlb, listo, g)
        /\ Empieza(listo, Traduce(tlb, listo, g), g, n, FALSE, TRUE)
    BY <1>1, <1>5 DEF CopiaLee
  <2>2. Traduce(tlb, listo, g) = -1 => listo \in negados'
    BY <2>1 DEF Niega
  <2>3. AccesoEs
    BY <1>2, <2>1, <2>2, EmpiezaBien DEF AccesoEs
  <2>4. TlbEs
    BY <1>1, <2>1, VigenteReemplaza DEF TlbEs
  <2> QED BY <2>1, <2>3, <2>4 DEF IoEs, ContenidoEs, CopiaEs
<1>6. ASSUME NEW g \in Paginas, NEW n \in Tramos \cup {0}, CopiaEscribe(g, n)
      PROVE  TlbEs /\ AccesoEs /\ IoEs /\ ContenidoEs /\ CopiaEs
  <2>1. /\ copia \in Pids /\ copia \in Vivos \cup negados'
        /\ tlb' = reemplazar_en_tlb(tlb, copia, g)
        /\ UNCHANGED <<contenido, io>> /\ copia' = 0 /\ Niega(tlb, copia, g)
        /\ \/ acceso' = acceso
           \/ Empieza(copia, Traduce(tlb, copia, g), g, n, TRUE, TRUE)
    BY <1>1, <1>3, <1>6 DEF CopiaEscribe
  <2>2. Traduce(tlb, copia, g) = -1 => copia \in negados'
    BY <2>1 DEF Niega
  <2>3. AccesoEs
    BY <1>2, <2>1, <2>2, EmpiezaBien DEF AccesoEs
  <2>4. TlbEs
    BY <1>1, <2>1, VigenteReemplaza DEF TlbEs
  <2> QED BY <2>1, <2>3, <2>4 DEF IoEs, ContenidoEs, CopiaEs
<1>7. ASSUME NEW g \in Paginas, NEW n \in Tramos, PideIO(g, n)
      PROVE  TlbEs /\ AccesoEs /\ IoEs /\ ContenidoEs /\ CopiaEs
  <2> DEFINE f == MarcoDe(Traduce(tlb, listo, g))
  <2>1. /\ listo \in Pids /\ listo \in Vivos /\ tlb' = reemplazar_en_tlb(tlb, listo, g)
        /\ UNCHANGED <<contenido, acceso, copia>>
        /\ io' = [io EXCEPT ![listo] = [marco |-> f, pagina |-> g, faltan |-> n]]
        /\ Traduce(tlb, listo, g) = -1 => listo \in negados'
    BY <1>1, <1>7 DEF PideIO
  <2>2. /\ f \in Marcos
        /\ listo \in Estables \ negados' => f = obtener_marco(listo, g) /\ f # -1
    BY <2>1, TraduceBien
  <2>3. TlbEs
    BY <1>1, <2>1, VigenteReemplaza DEF TlbEs
  <2>4. g \in Int /\ n \in Int
    BY <1>2 DEF Paginas
  <2> HIDE DEF f
  <2>5. IoEs
    <3>1. Bien(listo, g, f)
      BY <2>1, <2>2 DEF Bien
    <3> QED BY <2>1, <2>2, <2>4, <3>1 DEF IoEs
  <2> QED BY <2>1, <2>3, <2>5 DEF AccesoEs, ContenidoEs, CopiaEs
<1>8. ASSUME NEW p \in Pids, IOEscribe(p)
      PROVE  TlbEs /\ AccesoEs /\ IoEs /\ ContenidoEs /\ CopiaEs
  <2> DEFINE f == MarcoDe(io[p].marco)
  <2>1. /\ io[p] # SinIO /\ UNCHANGED <<contenido, tlb, copia, negados>>
        /\ io' = [io EXCEPT ![p] = SinIO]
        /\ acceso' = [pid |-> p, marco |-> f, pagina |-> io[p].pagina,
                      faltan |-> io[p].faltan, escribe |-> TRUE, cpu |-> FALSE]
    BY <1>8 DEF IOEscribe, Empieza
  <2>2. /\ io[p].marco \in Marcos \cup {-1} /\ io[p].pagina \in Int /\ io[p].faltan \in Int
        /\ p \in Vivos \cup negados
        /\ p \in Fieles => io[p].marco = obtener_marco(p, io[p].pagina) /\ io[p].marco # -1
    BY <2>1 DEF InvMmu, FormasMmu, Accediendo, IoVigente
  <2>3. f \in Marcos /\ (io[p].marco # -1 => f = io[p].marco)
    BY <2>2, MemoriaAssumption DEF MarcoDe, Marcos
  <2> HIDE DEF f
  <2>4. acceso' \in Accesos
    BY <2>1, <2>2, <2>3 DEF Accesos
  <2>5. Bien(p, io[p].pagina, f)
    BY <2>1, <2>2, <2>3 DEF Bien, Fieles
  <2>6. AccesoEs
    BY <2>1, <2>4, <2>5 DEF AccesoEs
  <2> QED BY <1>1, <2>1, <2>6 DEF TlbEs, IoEs, ContenidoEs, CopiaEs
<1>9. ASSUME AccedePagina
      PROVE  TlbEs /\ AccesoEs /\ IoEs /\ ContenidoEs /\ CopiaEs
  <2>1. /\ acceso # SinAcceso /\ acceso' = Sigue(acceso)
        /\ UNCHANGED <<tlb, io, copia, negados>>
    BY <1>9 DEF AccedePagina
  <2>2. ContenidoEs
    BY <1>9 DEF AccedePagina, ContenidoEs
  <2> QED BY <1>1, <2>1, <2>2 DEF TlbEs, AccesoEs, IoEs, CopiaEs
<1> QED BY <1>4, <1>5, <1>6, <1>7, <1>8, <1>9 DEF Accede

\* The page an access goes on to is the next one of the same process.
LEMMA SiguienteEs ==
  ASSUME TypeOK, SinMarcoCompartido, ~pisado,
         NEW q \in Vivos, NEW h \in DOMAIN tabla[q], NEW s,
         s = obtener_siguiente_marco(q, tabla[q][h]), s # -1
  PROVE  h + 1 \in DOMAIN tabla[q] /\ s = tabla[q][h + 1]
<1> DEFINE f == tabla[q][h]
           S == {g \in 0..(cant[q] - 1) : obtener_marco(q, g) = f}
           m == PaginaDelMarco(q, f)
<1>1. m = IF S = {} THEN -2 ELSE Min(S)
  BY DEF PaginaDelMarco
<1>2. m + 1 \in DOMAIN tabla[q] /\ s = tabla[q][m + 1]
  BY DEF obtener_siguiente_marco, obtener_marco
<1>3. m + 1 \in Nat /\ f \in Marcos
  BY <1>2 DEF TypeOK, Vivos
<1>4. m = h
  <2>1. S # {}
    BY <1>1, <1>3
  <2>2. m \in S
    <3>1. S \subseteq Nat
      OBVIOUS
    <3> HIDE DEF S, m
    <3> QED BY <1>1, <2>1, <3>1, MinimoNatural
  <2>3. m \in DOMAIN tabla[q] /\ tabla[q][m] = f
    <3>1. obtener_marco(q, m) = f /\ f # -1
      BY <1>3, <2>2, MemoriaAssumption DEF Marcos
    <3> HIDE DEF m, f
    <3> QED BY <3>1 DEF obtener_marco
  <2> QED BY <2>3 DEF SinMarcoCompartido
<1> QED BY <1>2, <1>4

\* The access that goes on.
LEMMA SigueBien ==
  ASSUME InvMmu, acceso # SinAcceso, Sigue(acceso) # SinAcceso
  PROVE  /\ Sigue(acceso) \in Accesos /\ Sigue(acceso).pid = acceso.pid
         /\ ~pisado /\ acceso.pid \in Fieles =>
              /\ Sigue(acceso).marco = obtener_marco(acceso.pid, Sigue(acceso).pagina)
              /\ Sigue(acceso).marco # -1
<1> DEFINE q == acceso.pid
           s == obtener_siguiente_marco(q, acceso.marco)
<1>1. /\ acceso \in Accesos /\ q \in Pids /\ s # -1
      /\ Sigue(acceso) = [acceso EXCEPT !.marco = s, !.pagina = @ + 1, !.faltan = @ - 1]
  BY DEF Sigue, InvMmu, FormasMmu, Accediendo
<1>2. s \in Marcos
  BY <1>1 DEF obtener_siguiente_marco, obtener_marco, InvMmu, InvMemoria, Control, TypeOK
<1> HIDE DEF s
<1>3. /\ Sigue(acceso) \in Accesos /\ Sigue(acceso).pid = q
      /\ Sigue(acceso).pagina = acceso.pagina + 1 /\ Sigue(acceso).marco = s
  <2>1. acceso.pagina + 1 \in Int /\ acceso.faltan - 1 \in Int
    BY <1>1 DEF Accesos
  <2> DEFINE g == acceso.pagina + 1
             n == acceso.faltan - 1
  <2>2. Sigue(acceso) = [acceso EXCEPT !.marco = s, !.pagina = g, !.faltan = n]
    BY <1>1
  <2> HIDE DEF g, n
  <2>3. /\ Sigue(acceso) \in Accesos /\ Sigue(acceso).pid = q
        /\ Sigue(acceso).pagina = g /\ Sigue(acceso).marco = s
    BY <1>1, <1>2, <2>1, <2>2 DEF Accesos, g, n
  <2> QED BY <2>3 DEF g
<1>4. ASSUME ~pisado, q \in Fieles
      PROVE  s = obtener_marco(q, acceso.pagina + 1)
  <2>1. acceso.marco = obtener_marco(q, acceso.pagina) /\ acceso.marco # -1
    BY <1>4 DEF InvMmu, AccesoVigente
  <2>2. acceso.pagina \in DOMAIN tabla[q] /\ acceso.marco = tabla[q][acceso.pagina]
    BY <2>1 DEF obtener_marco
  <2>3. TypeOK /\ SinMarcoCompartido /\ q \in Vivos
    BY <1>4, RepartoEs DEF InvMmu, InvMemoria, Control, Fieles, Estables
  <2>4. acceso.pagina + 1 \in DOMAIN tabla[q] /\ s = tabla[q][acceso.pagina + 1]
    BY <1>1, <1>4, <2>2, <2>3, SiguienteEs DEF s
  <2> QED BY <2>4 DEF obtener_marco
<1> QED BY <1>1, <1>3, <1>4

LEMMA AccedeMmu ==
  ASSUME InvMmu, ~caida, Accede
  PROVE  InvMmu'
<1>1. InvMemoria'
  BY AccedeInv DEF InvMmu
<1>2. /\ UNCHANGED <<finalizados, sinMemoria, cant, tabla, hc, pisado, achicados>>
      /\ negados \subseteq negados'
  BY AccedeQuieto DEF InvMmu, deMemoria, paginas, bitmap
<1>3. Estables' = Estables /\ Vivos' = Vivos /\ Fieles' = Estables \ negados'
  BY <1>2 DEF Fieles, Estables, Vivos
<1>4. /\ TlbEs /\ AccesoEs /\ IoEs /\ ContenidoEs /\ CopiaEs
      /\ acceso \in Accesos /\ Vivos \subseteq Pids /\ SinAcceso \in Accesos
  BY AccedeForma, MemoriaAssumption DEF InvMmu, FormasMmu, Vivos, SinAcceso, Accesos, Marcos
<1>5. /\ acceso' \in Accesos
      /\ acceso' # SinAcceso => acceso'.pid \in Pids /\ acceso'.pid \in Vivos \cup negados'
      /\ ~pisado /\ acceso' # SinAcceso /\ acceso'.pid \in Estables \ negados' =>
           acceso'.marco = obtener_marco(acceso'.pid, acceso'.pagina) /\ acceso'.marco # -1
  <2>1. CASE acceso' = acceso
    BY <1>2, <1>4, <2>1 DEF InvMmu, Accediendo, AccesoVigente, Fieles
  <2>2. CASE acceso # SinAcceso /\ acceso' = Sigue(acceso) /\ negados' = negados
    <3>1. CASE Sigue(acceso) = SinAcceso
      BY <1>4, <2>2, <3>1
    <3>2. CASE Sigue(acceso) # SinAcceso
      BY <2>2, <3>2, SigueBien DEF InvMmu, Accediendo, Fieles
    <3> QED BY <3>1, <3>2
  <2>3. CASE acceso' \in Accesos /\ Bien(acceso'.pid, acceso'.pagina, acceso'.marco)
    BY <2>3 DEF Bien
  <2> QED BY <1>4, <2>1, <2>2, <2>3 DEF AccesoEs
<1> DEFINE IoBien ==
             /\ io' \in [Pids -> [marco : Marcos \cup {-1}, pagina : Int, faltan : Int]]
             /\ \A q \in Pids : io'[q] # SinIO =>
                  /\ q \in Vivos \cup negados'
                  /\ q \in Estables \ negados' => /\ io'[q].marco = obtener_marco(q, io'[q].pagina)
                                                  /\ io'[q].marco # -1
<1>6. IoBien
  <2>1. /\ io \in [Pids -> [marco : Marcos \cup {-1}, pagina : Int, faltan : Int]]
        /\ \A q \in Pids : io[q] # SinIO =>
             /\ q \in Vivos \cup negados'
             /\ q \in Estables \ negados' => /\ io[q].marco = obtener_marco(q, io[q].pagina)
                                             /\ io[q].marco # -1
    BY <1>2 DEF InvMmu, FormasMmu, Accediendo, IoVigente, Fieles
  <2>2. CASE io' = io
    BY <2>1, <2>2
  <2>3. ASSUME NEW p \in Pids, io' = [io EXCEPT ![p] = SinIO]
        PROVE  IoBien
    <3>1. SinIO \in [marco : Marcos \cup {-1}, pagina : Int, faltan : Int]
      BY DEF SinIO
    <3>2. \A q \in Pids : io'[q] = IF q = p THEN SinIO ELSE io[q]
      BY <2>1, <2>3
    <3> QED BY <2>1, <2>3, <3>1, <3>2
  <2>4. ASSUME NEW p \in Pids, NEW m \in Marcos, NEW g \in Int, NEW n \in Int,
               io' = [io EXCEPT ![p] = [marco |-> m, pagina |-> g, faltan |-> n]],
               Bien(p, g, m)
        PROVE  IoBien
    <3> DEFINE e == [marco |-> m, pagina |-> g, faltan |-> n]
    <3>1. /\ e \in [marco : Marcos \cup {-1}, pagina : Int, faltan : Int]
          /\ e.marco = m /\ e.pagina = g
      OBVIOUS
    <3>2. \A q \in Pids : io'[q] = IF q = p THEN e ELSE io[q]
      BY <2>1, <2>4
    <3>3. io' = [io EXCEPT ![p] = e]
      BY <2>4
    <3> HIDE DEF e
    <3> QED BY <2>1, <2>4, <3>1, <3>2, <3>3 DEF Bien
  <2> QED BY <1>4, <2>2, <2>3, <2>4 DEF IoEs
<1>7. FormasMmu'
  <2>1. DOMAIN contenido' = Marcos
    BY <1>4 DEF ContenidoEs, InvMmu, FormasMmu
  <2> QED BY <1>2, <1>4, <1>5, <1>6, <2>1 DEF InvMmu, FormasMmu, TlbEs
<1>8. SinPaginasDeMas'
  BY <1>2, <1>3 DEF InvMmu, SinPaginasDeMas, Limite, Obtenidas
<1>9. Vigente(tlb)'
  BY <1>2, <1>3, <1>4 DEF TlbEs, Vigente, obtener_marco
<1>10. IoVigente' /\ AccesoVigente'
  BY <1>2, <1>3, <1>5, <1>6 DEF IoVigente, AccesoVigente, obtener_marco, Estables, Vivos
<1>11. Accediendo'
  BY <1>2, <1>3, <1>4, <1>5, <1>6 DEF Accediendo, CopiaEs, InvMmu
<1> QED BY <1>1, <1>7, <1>8, <1>9, <1>10, <1>11 DEF InvMmu

LEMMA MmuNext == InvMmu /\ [NextMmu]_<<vars, deMmu>> => InvMmu'
<1> SUFFICES ASSUME InvMmu, [NextMmu]_<<vars, deMmu>> PROVE InvMmu'
  OBVIOUS
<1>1. CASE UNCHANGED <<vars, deMmu>>
  <2>1. InvMemoria'
    BY <1>1, MemoriaNext DEF InvMmu
  <2>2. UNCHANGED <<finalizados, sinMemoria, cant, tabla, hc, pisado, achicados, tlb, io,
                    acceso, copia, contenido, negados>>
    BY <1>1 DEF vars, clientes, paginas, bitmap, deMmu
  <2>3. Estables' = Estables /\ Vivos' = Vivos /\ Fieles' = Fieles
    BY <2>2 DEF Fieles, Estables, Vivos
  <2>4. FormasMmu' /\ SinPaginasDeMas'
    BY <2>2, <2>3 DEF InvMmu, FormasMmu, SinPaginasDeMas, Limite, Obtenidas
  <2>5. Vigente(tlb)' /\ IoVigente' /\ AccesoVigente' /\ Accediendo'
    BY <2>2, <2>3 DEF InvMmu, Vigente, IoVigente, AccesoVigente, Accediendo, obtener_marco
  <2> QED BY <2>1, <2>4, <2>5 DEF InvMmu
<1>2. CASE NextMmu
  BY <1>2, AccedeMmu, MemorizaMmu DEF NextMmu
<1> QED BY <1>1, <1>2

LEMMA MmuInvariante == SpecMmu => []InvMmu
BY MmuInit, MmuNext, PTL DEF SpecMmu

\* obtener_direccion_fisica may trust the TLB, of any size and with either algorithm:
\* nothing ever removes an entry, and still, until a process gives up a page, its
\* entries are those of its table in memoria.
THEOREM TlbVigenteSiempre == SpecMmu => []TlbVigente
<1>1. InvMmu => TlbVigente
  <2> SUFFICES ASSUME InvMmu PROVE TlbVigente
    OBVIOUS
  <2>1. DOMAIN tlb = 1..Len(tlb)
    BY LenProperties DEF InvMmu, FormasMmu
  <2> QED BY <2>1 DEF InvMmu, TlbVigente, Vigente, Estables
<1> QED BY <1>1, MmuInvariante, PTL

\* What is proved of the memory process on its own holds of it under the MMU.
THEOREM MemoriaBajoMmu ==
  SpecMmu => [](TypeOK /\ PaginasCompletas /\ SinMarcoCompartido /\ MarcadosOcupados)
<1>1. InvMmu => TypeOK /\ PaginasCompletas /\ SinMarcoCompartido /\ MarcadosOcupados
  BY RepartoEs DEF InvMmu, InvMemoria, Control, Hojas
<1> QED BY <1>1, MmuInvariante, PTL

----------------------------------------------------------------------------
(* What is written in the pages.                                           *)

LEMMA SoloSuyoPaso ==
  ASSUME InvMmu, [NextMmu]_<<vars, deMmu>>, ~pisado, NEW p \in Vivos, NEW g \in DOMAIN tabla[p]
  PROVE  \/ contenido'[tabla[p][g]] \in {contenido[tabla[p][g]], <<p, g>>}
         \/ contenido'[tabla[p][g]][1] \in achicados \cup negados
<1> DEFINE k == tabla[p][g]
           q == acceso.pid
<1>1. /\ TypeOK /\ SinMarcoCompartido /\ DOMAIN contenido = Marcos
      /\ k \in Marcos
  BY RepartoEs DEF InvMmu, FormasMmu, InvMemoria, Control, TypeOK, Vivos
<1>2. ContenidoEs
  <2>1. CASE UNCHANGED <<vars, deMmu>>
    BY <2>1 DEF deMmu, ContenidoEs
  <2>2. CASE Accede
    BY <2>2, AccedeForma
  <2>3. CASE Memoriza
    BY <2>3 DEF Memoriza, ContenidoEs
  <2> QED BY <2>1, <2>2, <2>3 DEF NextMmu
<1>3. ASSUME acceso # SinAcceso, k = acceso.marco, q \notin achicados \cup negados
      PROVE  p = q /\ g = acceso.pagina
  <2>1. q \in Fieles /\ q \in Vivos
    BY <1>3 DEF InvMmu, Accediendo, Fieles, Estables
  <2>2. acceso.marco = obtener_marco(q, acceso.pagina) /\ acceso.marco # -1
    BY <1>3, <2>1 DEF InvMmu, AccesoVigente
  <2>3. acceso.pagina \in DOMAIN tabla[q] /\ k = tabla[q][acceso.pagina]
    BY <1>3, <2>2 DEF obtener_marco
  <2> QED BY <1>1, <2>1, <2>3 DEF SinMarcoCompartido
<1> HIDE DEF k
<1>4. CASE contenido' = contenido
  BY <1>4 DEF k
<1>5. CASE /\ acceso # SinAcceso
           /\ contenido' = [contenido EXCEPT ![acceso.marco] = <<q, acceso.pagina>>]
  <2>1. contenido'[k] = IF k = acceso.marco THEN <<q, acceso.pagina>> ELSE contenido[k]
    BY <1>1, <1>5
  <2>2. CASE k # acceso.marco
    BY <2>1, <2>2 DEF k
  <2>3. CASE k = acceso.marco /\ q \in achicados \cup negados
    <3>1. <<q, acceso.pagina>>[1] = q
      OBVIOUS
    <3> QED BY <2>1, <2>3, <3>1 DEF k
  <2>4. CASE k = acceso.marco /\ q \notin achicados \cup negados
    BY <1>3, <1>5, <2>1, <2>4 DEF k
  <2> QED BY <2>2, <2>3, <2>4
<1> QED BY <1>2, <1>4, <1>5 DEF ContenidoEs

\* Memory isolation, for any number of processes, frames, entries of the TLB and pages
\* of one access: a write in a page of a process that has not ended is its own, or of a
\* process that gave up pages or named an address it does not have, whatever grows,
\* shrinks and ends meanwhile, as long as no thread of memoria has stored over a bit
\* the other changed.
THEOREM SoloSusEscriturasSiempre == SpecMmu => SoloSusEscrituras
<1>1. InvMmu /\ [NextMmu]_<<vars, deMmu>> =>
        [~pisado =>
           \A p \in Vivos : \A g \in DOMAIN tabla[p] :
             LET f == tabla[p][g] IN
               \/ contenido'[f] \in {contenido[f], <<p, g>>}
               \/ contenido'[f][1] \in achicados \cup negados]_<<vars, deMmu>>
  BY SoloSuyoPaso
<1> QED BY <1>1, MmuInvariante, PTL DEF SpecMmu, SoloSusEscrituras
=============================================================================
