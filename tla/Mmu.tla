-------------------------------- MODULE Mmu --------------------------------
(***************************************************************************)
(* The MMU of the CPU, with its TLB, over the memory process: MARCO, LEER  *)
(* and ESCRIBIR, from the CPU and from the interfaces.  What a frame       *)
(* contains is the page it was last written for.                           *)
(***************************************************************************)
EXTENDS Memoria, SequencesExt

CONSTANTS
    Entradas,         \* CANTIDAD_ENTRADAS_TLB
    AlgoritmoTlb,     \* ALGORITMO_TLB
    MaxTramo          \* bound: the pages one access goes over

ASSUME MmuAssumption ==
    /\ Entradas \in Nat /\ AlgoritmoTlb \in {"FIFO", "LRU"} /\ MaxTramo \in Nat \ {0}

VARIABLES
    tlb,        \* tablas_tlb, the oldest entry first
    contenido,  \* espacio_memoria: for each frame the page last written there
    negados,    \* the processes told DENIED_ACCESS
    io,         \* the request of each process to an interface: frame, page, how many
    acceso,     \* the access that holds sem_mutex_memoria: its next frame and page
    copia,      \* the process in the middle of COPY_STRING, 0 if none
    cpuPerdida, \* the CPU was killed, or takes one answer for another
    achicados   \* auxiliary: the processes that gave up pages

deMmu == <<tlb, contenido, negados, io, acceso, copia, cpuPerdida, achicados>>

Ninguna == <<0, 0>>

SinIO == [marco |-> -1, pagina |-> 0, faltan |-> 0]

SinAcceso ==
    [pid |-> 0, marco |-> 0, pagina |-> 0, faltan |-> 0, escribe |-> FALSE, cpu |-> FALSE]

\* The pages the scripts name: those a process may have and one more.
Paginas == 0..Max(Tamanios)

Tramos == 1..MaxTramo

InitMmu ==
    /\ Init
    /\ tlb = [i \in 1..Entradas |-> [pid |-> 0, pagina |-> 0, marco |-> 0]]
    /\ contenido = [f \in Marcos |-> Ninguna]
    /\ negados = {} /\ achicados = {}
    /\ io = [p \in Pids |-> SinIO]
    /\ acceso = SinAcceso /\ copia = 0 /\ cpuPerdida = FALSE

----------------------------------------------------------------------------
\* Mutant of Entrada: the page is enough.
EntradaDeCualquiera(t, p, g) == SelectInSeq(t, LAMBDA e : e.pagina = g)

\* cumple_la_entrada: where the TLB t has page g of p, 0 when it does not.
Entrada(t, p, g) == SelectInSeq(t, LAMBDA e : e.pid = p /\ e.pagina = g)

\* obtener_marco.
obtener_marco(p, g) == IF g \in DOMAIN tabla[p] THEN tabla[p][g] ELSE -1

\* obtener_direccion_fisica: the TLB first, MARCO when it misses.
Traduce(t, p, g) ==
    IF Entrada(t, p, g) # 0 THEN t[Entrada(t, p, g)].marco ELSE obtener_marco(p, g)

\* reemplazar_en_tlb: a new entry takes the place of the first, LRU moves one that
\* was hit to the end.
reemplazar_en_tlb(t, p, g) ==
    LET i == Entrada(t, p, g)
        f == Traduce(t, p, g)
    IN  IF f = -1 \/ t = <<>> \/ (i # 0 /\ AlgoritmoTlb = "FIFO")
          THEN t
          ELSE IF i = 0 THEN Append(Tail(t), [pid |-> p, pagina |-> g, marco |-> f])
                        ELSE Append(RemoveAt(t, i), t[i])

\* buscar_pagina_marco goes through the pages in order and dereferences each, and
\* the table itself.
PaginaDelMarco(p, f) ==
    LET s == {g \in 0..(cant[p] - 1) : obtener_marco(p, g) = f}
    IN  IF s = {} THEN -2 ELSE Min(s)

Desreferencia(p, f) ==
    \/ p \notin registro
    \/ \E g \in 0..(cant[p] - 1) \ DOMAIN tabla[p] :
          PaginaDelMarco(p, f) = -2 \/ g < PaginaDelMarco(p, f)

obtener_siguiente_marco(p, f) == obtener_marco(p, PaginaDelMarco(p, f) + 1)

----------------------------------------------------------------------------
(* leer_memoria and escribir_memoria, one step for each page.               *)

deMemoria == <<pedidosKernel, creados, finalizados, pedido, sinMemoria, resizes,
               instrucciones, paginas, bitmap, hc, hk>>

\* The address -1 is in frame 0 (it is its division by the size of a page).
MarcoDe(f) == IF f = -1 THEN 0 ELSE f

\* verificar_limite_memoria answers OUT_OF_MEMORY and the access goes on to answer again:
\* the CPU takes every later answer for another.
Empieza(p, f, g, n, escribe, deCpu) ==
    /\ acceso = SinAcceso
    /\ acceso' = [pid |-> p, marco |-> MarcoDe(f), pagina |-> g, faltan |-> n,
                  escribe |-> escribe, cpu |-> deCpu]
    /\ cpuPerdida' = (cpuPerdida \/ (deCpu /\ MarcoDe(f) + n > NMarcos))

\* The loop goes on with the page after the first one that has this frame.
Sigue(a) ==
    LET s == obtener_siguiente_marco(a.pid, a.marco)
    IN  IF a.faltan = 1 \/ s = -1
          THEN SinAcceso
          ELSE [a EXCEPT !.marco = s, !.pagina = @ + 1, !.faltan = @ - 1]

\* The error that answers a read past the last page is parsed as data and kills the
\* CPU; the answer to ESCRIBIR is not looked at.
AccedePagina ==
    /\ acceso # SinAcceso
    /\ contenido' = IF acceso.escribe
                      THEN [contenido EXCEPT ![acceso.marco] = <<acceso.pid, acceso.pagina>>]
                      ELSE contenido
    /\ acceso' = Sigue(acceso)
    /\ caida' = (acceso.faltan > 1 /\ Desreferencia(acceso.pid, acceso.marco))
    /\ cpuPerdida' = (\/ cpuPerdida
                      \/ /\ acceso.cpu /\ ~acceso.escribe
                         /\ acceso.faltan > 1 /\ Sigue(acceso) = SinAcceso)
    /\ UNCHANGED <<deMemoria, listo, tlb, negados, io, copia, achicados>>

----------------------------------------------------------------------------
(* The instructions of the process in the CPU that name an address.        *)

CpuLibre == ~cpuPerdida /\ copia = 0 /\ ~acceso.cpu

Ejecuta == CpuLibre /\ hc.fase = "espera" /\ pedido = SinPedido /\ listo # 0

\* DENIED_ACCESS, when page g of p is not there: the kernel takes the process out.
Niega(t, p, g) ==
    IF Traduce(t, p, g) = -1
      THEN negados' = negados \cup {p} /\ listo' = 0
      ELSE UNCHANGED <<negados, listo>>

\* When the access is denied the CPU frees a literal, and is killed.
MovIn(g, n) ==
    /\ Ejecuta
    /\ tlb' = reemplazar_en_tlb(tlb, listo, g)
    /\ Niega(tlb, listo, g)
    /\ IF Traduce(tlb, listo, g) = -1
         THEN cpuPerdida' = TRUE /\ acceso' = acceso
         ELSE Empieza(listo, Traduce(tlb, listo, g), g, n, FALSE, TRUE)
    /\ UNCHANGED <<deMemoria, caida, contenido, io, copia, achicados>>

MovOut(g, n) ==
    /\ Ejecuta
    /\ tlb' = reemplazar_en_tlb(tlb, listo, g)
    /\ Niega(tlb, listo, g)
    /\ IF Traduce(tlb, listo, g) = -1
         THEN UNCHANGED <<cpuPerdida, acceso>>
         ELSE Empieza(listo, Traduce(tlb, listo, g), g, n, TRUE, TRUE)
    /\ UNCHANGED <<deMemoria, caida, contenido, io, copia, achicados>>

\* COPY_STRING goes on when it is denied, with the address -1.
CopiaLee(g, n) ==
    /\ Ejecuta
    /\ copia' = listo
    /\ tlb' = reemplazar_en_tlb(tlb, listo, g)
    /\ Niega(tlb, listo, g)
    /\ Empieza(listo, Traduce(tlb, listo, g), g, n, FALSE, TRUE)
    /\ UNCHANGED <<deMemoria, caida, contenido, io, achicados>>

\* What was read may be the empty string.
CopiaEscribe(h, n) ==
    /\ copia # 0 /\ ~acceso.cpu /\ ~cpuPerdida
    /\ copia' = 0
    /\ tlb' = reemplazar_en_tlb(tlb, copia, h)
    /\ Niega(tlb, copia, h)
    /\ IF n = 0
         THEN UNCHANGED <<cpuPerdida, acceso>>
         ELSE Empieza(copia, Traduce(tlb, copia, h), h, n, TRUE, TRUE)
    /\ UNCHANGED <<deMemoria, caida, contenido, io, achicados>>

\* IO_STDIN_READ and IO_FS_READ: the address goes with the request, denied or not.
PideIO(g, n) ==
    /\ Ejecuta
    /\ tlb' = reemplazar_en_tlb(tlb, listo, g)
    /\ negados' = negados \cup (IF Traduce(tlb, listo, g) = -1 THEN {listo} ELSE {})
    /\ io' = [io EXCEPT ![listo] =
                 [marco |-> MarcoDe(Traduce(tlb, listo, g)), pagina |-> g, faltan |-> n]]
    /\ listo' = 0
    /\ UNCHANGED <<deMemoria, caida, contenido, acceso, copia, cpuPerdida, achicados>>

\* ESCRIBIR from the interface, any time later.
IOEscribe(p) ==
    /\ io[p] # SinIO
    /\ Empieza(p, io[p].marco, io[p].pagina, io[p].faltan, TRUE, FALSE)
    /\ io' = [io EXCEPT ![p] = SinIO]
    /\ UNCHANGED <<deMemoria, caida, listo, tlb, contenido, negados, copia, achicados>>

Accede ==
    \/ \E g \in Paginas, n \in Tramos : MovIn(g, n) \/ MovOut(g, n) \/ CopiaLee(g, n) \/ PideIO(g, n)
    \/ \E g \in Paginas, n \in Tramos \cup {0} : CopiaEscribe(g, n)
    \/ \E p \in Pids : IOEscribe(p)
    \/ AccedePagina

\* The processes that are in the queue of an interface or in the middle of an access.
Ocupados == {p \in Pids : io[p] # SinIO \/ acceso.pid = p \/ copia = p}

\* The memory process goes on as before, the CPU asks it for something else when its
\* instruction ended.  A process that is in the queue of an interface goes on when it
\* was attended to, and the console cannot end it before; one that was denied an
\* access does not go on, and ends at any moment.
Memoriza ==
    /\ Next
    /\ pedido = SinPedido /\ pedido' # SinPedido =>
         CpuLibre /\ pedido'.pid \notin negados \cup Ocupados
    /\ (finalizados' \ finalizados) \cap Ocupados \subseteq negados
    /\ achicados' = achicados \cup (IF hc'.fase = "reduce" THEN {hc'.pid} ELSE {})
    /\ UNCHANGED <<tlb, contenido, negados, io, acceso, copia, cpuPerdida>>

NextMmu == ~caida /\ (Accede \/ Memoriza)

SpecMmu == InitMmu /\ [][NextMmu]_<<vars, deMmu>>

----------------------------------------------------------------------------
(* Properties.                                                             *)

\* Nothing invalidates the TLB.  As long as a process gave up no page, its entries
\* name the frames of its table, whatever was assigned or freed in between.
TlbVigente ==
    \A i \in DOMAIN tlb :
      LET e == tlb[i] IN
        e.pid \in Vivos \ achicados => obtener_marco(e.pid, e.pagina) = e.marco

\* What a page of a process that has not ended holds changes only when that process
\* writes that page, or when a process writes that gave up pages (its entries of the
\* TLB outlive them) or that named an address it does not have (COPY_STRING and the I/O
\* instructions go on with frame 0): not through the TLB, not at the end of an access
\* over several pages (obtener_siguiente_marco looks for the page by its frame), not
\* through a frame an interface was given before, whoever grows, shrinks or ends
\* meanwhile.  On the condition of SinMarcoCompartido.
SoloSusEscrituras ==
    [][~pisado =>
         \A p \in Vivos : \A g \in DOMAIN tabla[p] :
           LET f == tabla[p][g] IN
             \/ contenido'[f] \in {contenido[f], <<p, g>>}
             \/ contenido'[f][1] \in achicados \cup negados]_<<vars, deMmu>>

=============================================================================
