------------------------------ MODULE Memoria ------------------------------
(***************************************************************************)
(* The memory process: the scripts, the page tables and the bitmap of      *)
(* frames, served by one thread per connection.  The thread of the CPU     *)
(* attends INSTRUCCION and RESIZE, the thread of the kernel                *)
(* INICIAR_PROCESO and FINALIZAR_PROCESO; nothing but their connections    *)
(* orders them, and the bits of a byte of frames_libres are changed by     *)
(* loading and storing the whole byte.                                     *)
(***************************************************************************)
EXTENDS Integers, Sequences, FiniteSets

CONSTANTS
    MaxPid,      \* bound: processes created
    NMarcos,     \* TAM_MEMORIA / TAM_PAGINA
    Tamanios,    \* the sizes RESIZE is given, in pages (rounded up)
    Achican,     \* whether the scripts ever shrink a process
    Terminan,    \* bound: the processes that end
    MaxResize    \* bound: RESIZE instructions executed

ASSUME MemoriaAssumption ==
    /\ MaxPid \in Nat \ {0} /\ NMarcos \in Nat \ {0} /\ MaxResize \in Nat
    /\ Tamanios \subseteq Nat /\ Achican \in BOOLEAN /\ Terminan \subseteq 1..MaxPid

VARIABLES
    pedidosKernel,  \* kernel -> memoria, the requests not yet attended
    creados,        \* INICIAR_PROCESO was sent for the pids 1..creados
    finalizados,    \* the pids for which FINALIZAR_PROCESO was sent
    pedido,         \* the request the CPU waits for the answer of; callado when none will come
    listo,          \* the process whose instruction the CPU has, 0 if none
    sinMemoria,     \* the processes told OUT_OF_MEMORY
    instrucciones,  \* the keys of diccionario_instrucciones
    registro,       \* the keys of registro_tabla_de_paginas
    cant,           \* cant_paginas of each table
    tabla,          \* frame_segun_pagina of each table
    ocupados,       \* the bits that are 1 in frames_libres
    hc,             \* the thread of the CPU
    hk,             \* the thread of the kernel
    resizes,        \* RESIZE executed, for the bound
    caida,          \* memoria dereferenced a null or freed pointer and was killed
    pisado          \* auxiliary: a store undid what the other thread had changed in its byte

clientes == <<pedidosKernel, creados, finalizados, pedido, listo, sinMemoria, resizes>>

paginas == <<registro, cant, tabla>>

bitmap == <<ocupados, pisado>>

vars == <<clientes, instrucciones, paginas, bitmap, hc, hk, caida>>

Pids == 1..MaxPid
Marcos == 0..(NMarcos - 1)

\* The frames whose bits share a byte with the bit of j.
Byte(j) == {k \in Marcos : k \div 8 = j \div 8}

\* The bit of j is given the value that makes its byte b, in what h loaded of it.
Guarda(h, b) ==
    /\ ocupados' = (ocupados \ Byte(h.j)) \cup b
    /\ pisado' = (pisado \/ h.byte # ocupados \cap Byte(h.j))

SinPedido == [op |-> "NADA", pid |-> 0, n |-> 0, callado |-> FALSE]

Pide(o, p, k) == [op |-> o, pid |-> p, n |-> k, callado |-> FALSE]

\* i is the loop's index, j the frame it tries or works on, byte what it loaded.
Espera == [fase |-> "espera", pid |-> 0, i |-> 0, n |-> 0, j |-> 0, byte |-> {}, total |-> 0]

SinPaginas == [g \in {} |-> 0]

\* The pages of p and their frames are what the code's structures can hold.
TypeOK ==
    /\ pedidosKernel \in Seq([op : {"INICIAR", "FINALIZAR"}, pid : Pids])
    /\ creados \in 0..MaxPid /\ finalizados \subseteq Pids
    /\ pedido \in [op : {"NADA", "INSTRUCCION", "RESIZE"}, pid : Pids \cup {0},
                   n : Tamanios \cup {0}, callado : BOOLEAN]
    /\ listo \in Pids \cup {0} /\ sinMemoria \subseteq Pids
    /\ instrucciones \subseteq Pids /\ registro \subseteq Pids
    /\ cant \in [Pids -> Tamanios \cup {0}]
    /\ \A p \in Pids : \A g \in DOMAIN tabla[p] : g \in Nat /\ tabla[p][g] \in Marcos
    /\ ocupados \subseteq Marcos /\ pisado \in BOOLEAN
    /\ hc.fase \in {"espera", "amplia", "carga", "marca", "reduce", "desmarca", "ajusta"}
    /\ hk.fase \in {"espera", "tabla", "libera", "desmarca"}
    /\ \A h \in {hc, hk} : /\ h.fase # "espera" => h.pid \in Pids
                           /\ h.fase \in {"carga", "marca", "desmarca"} => h.j \in Marcos
    /\ resizes \in 0..MaxResize /\ caida \in BOOLEAN

Init ==
    /\ pedidosKernel = <<>>
    /\ creados = 0 /\ finalizados = {}
    /\ pedido = SinPedido
    /\ listo = 0 /\ sinMemoria = {}
    /\ instrucciones = {} /\ registro = {}
    /\ cant = [p \in Pids |-> 0]
    /\ tabla = [p \in Pids |-> SinPaginas]
    /\ ocupados = {}
    /\ hc = Espera /\ hk = Espera
    /\ resizes = 0
    /\ caida = FALSE /\ pisado = FALSE

----------------------------------------------------------------------------
(* The clients: the kernel does not wait for memoria, the CPU does.        *)

IniciarProceso ==
    /\ creados < MaxPid
    /\ creados' = creados + 1
    /\ pedidosKernel' = Append(pedidosKernel, [op |-> "INICIAR", pid |-> creados + 1])
    /\ UNCHANGED <<finalizados, pedido, listo, sinMemoria, resizes, instrucciones, paginas,
                   bitmap, hc, hk, caida>>

\* exit_prima of a process that is between two instructions: EXIT, an error or
\* the console.
FinalizarProceso(p) ==
    /\ p <= creados /\ p \notin finalizados /\ pedido.pid # p
    /\ finalizados' = finalizados \cup {p}
    /\ listo' = IF listo = p THEN 0 ELSE listo
    /\ pedidosKernel' = Append(pedidosKernel, [op |-> "FINALIZAR", pid |-> p])
    /\ UNCHANGED <<creados, pedido, sinMemoria, resizes, instrucciones, paginas, bitmap,
                   hc, hk, caida>>

\* The CPU goes on with any process that has not ended.
PideInstruccion(p) ==
    /\ pedido = SinPedido
    /\ p <= creados /\ p \notin finalizados \cup sinMemoria
    /\ pedido' = Pide("INSTRUCCION", p, 0)
    /\ listo' = 0
    /\ UNCHANGED <<pedidosKernel, creados, finalizados, sinMemoria, resizes, instrucciones,
                   paginas, bitmap, hc, hk, caida>>

PideResize(n) ==
    /\ pedido = SinPedido /\ listo # 0
    /\ resizes < MaxResize
    /\ Achican \/ n >= cant[listo]
    /\ resizes' = resizes + 1
    /\ pedido' = Pide("RESIZE", listo, n)
    /\ listo' = 0
    /\ UNCHANGED <<pedidosKernel, creados, finalizados, sinMemoria, instrucciones, paginas,
                   bitmap, hc, hk, caida>>

----------------------------------------------------------------------------
(* The thread of the CPU.                                                  *)

Llega(o) == hc.fase = "espera" /\ pedido.op = o /\ ~pedido.callado

\* It spins while there is no script at all; when there is one but not this
\* process's, it answers nothing.
Instruccion ==
    /\ Llega("INSTRUCCION")
    /\ instrucciones # {}
    /\ IF pedido.pid \in instrucciones
         THEN pedido' = SinPedido /\ listo' = pedido.pid
         ELSE pedido' = [pedido EXCEPT !.callado = TRUE] /\ listo' = listo
    /\ UNCHANGED <<pedidosKernel, creados, finalizados, sinMemoria, resizes, instrucciones,
                   paginas, bitmap, hc, hk, caida>>

\* redimensionar_proceso: which loop, over how many pages, from which state.
Redimensiona ==
    /\ Llega("RESIZE")
    /\ LET p == pedido.pid
           n == pedido.n
           c == cant[p]
           con(f, k) == [Espera EXCEPT !.fase = f, !.pid = p, !.n = k, !.total = n]
       IN  /\ caida' = (p \notin registro)
           /\ hc' = CASE n > c -> con("amplia", n - c)
                      [] n < c -> con("reduce", c - n)
                      [] OTHER -> hc
           /\ pedido' = [pedido EXCEPT !.callado = (n = c)]
    /\ UNCHANGED <<pedidosKernel, creados, finalizados, listo, sinMemoria, resizes,
                   instrucciones, paginas, bitmap, hk>>

\* The answer goes out before cant_paginas is changed.
Responde(sin) ==
    /\ pedido' = SinPedido
    /\ sinMemoria' = sin
    /\ hc' = [hc EXCEPT !.fase = "ajusta"]
    /\ UNCHANGED <<pedidosKernel, creados, finalizados, listo, resizes, instrucciones,
                   paginas, bitmap, hk, caida>>

\* Mutant of AmpliaBusca: any frame will do.
AmpliaSinMirar ==
    /\ hc.fase = "amplia" /\ hc.i < hc.n /\ hc.j < NMarcos
    /\ hc' = [hc EXCEPT !.fase = "carga"]
    /\ UNCHANGED <<clientes, instrucciones, paginas, bitmap, hk, caida>>

\* ampliar_proceso: the bits in order ...
AmpliaBusca ==
    /\ hc.fase = "amplia" /\ hc.i < hc.n /\ hc.j < NMarcos
    /\ hc' = IF hc.j \in ocupados THEN [hc EXCEPT !.j = @ + 1] ELSE [hc EXCEPT !.fase = "carga"]
    /\ UNCHANGED <<clientes, instrucciones, paginas, bitmap, hk, caida>>

\* ... when one is 0 the load of its byte ...
AmpliaCarga ==
    /\ hc.fase = "carga"
    /\ hc' = [hc EXCEPT !.fase = "marca", !.byte = ocupados \cap Byte(hc.j)]
    /\ UNCHANGED <<clientes, instrucciones, paginas, bitmap, hk, caida>>

\* Mutant of AmpliaMarca: the bit is left at 0.
AmpliaSinMarcar ==
    /\ hc.fase = "marca"
    /\ Guarda(hc, hc.byte)
    /\ LET g == cant[hc.pid] + hc.i IN
         tabla' = [tabla EXCEPT ![hc.pid] =
                     [x \in DOMAIN @ \cup {g} |-> IF x = g THEN hc.j ELSE @[x]]]
    /\ hc' = [hc EXCEPT !.fase = "amplia", !.i = @ + 1, !.j = 0]
    /\ UNCHANGED <<clientes, instrucciones, registro, cant, hk, caida>>

\* ... its store, and the frame in the table.
AmpliaMarca ==
    /\ hc.fase = "marca"
    /\ Guarda(hc, hc.byte \cup {hc.j})
    /\ LET g == cant[hc.pid] + hc.i IN
         tabla' = [tabla EXCEPT ![hc.pid] =
                     [x \in DOMAIN @ \cup {g} |-> IF x = g THEN hc.j ELSE @[x]]]
    /\ hc' = [hc EXCEPT !.fase = "amplia", !.i = @ + 1, !.j = 0]
    /\ UNCHANGED <<clientes, instrucciones, registro, cant, hk, caida>>

AmpliaSinMarco ==
    /\ hc.fase = "amplia" /\ hc.i < hc.n /\ hc.j = NMarcos
    /\ Responde(sinMemoria \cup {hc.pid})

AmpliaFin ==
    /\ hc.fase = "amplia" /\ hc.i = hc.n
    /\ Responde(sinMemoria)

\* Mutant of PaginaQuitada: one page too low.
PaginaQuitadaAntes(p, i) == cant[p] - i - 2

\* reducir_proceso takes out the pages cant_paginas, cant_paginas - 1, ...
PaginaQuitada(p, i) == cant[p] - i

ReduceQuita ==
    /\ hc.fase = "reduce" /\ hc.i < hc.n
    /\ LET g == PaginaQuitada(hc.pid, hc.i)
           t == tabla[hc.pid]
       IN  IF g \in DOMAIN t
             THEN /\ tabla' = [tabla EXCEPT ![hc.pid] = [x \in DOMAIN t \ {g} |-> t[x]]]
                  /\ hc' = [hc EXCEPT !.fase = "desmarca", !.j = t[g],
                                      !.byte = ocupados \cap Byte(t[g])]
             ELSE tabla' = tabla /\ hc' = [hc EXCEPT !.i = @ + 1]
    /\ UNCHANGED <<clientes, instrucciones, registro, cant, bitmap, hk, caida>>

ReduceDesmarca ==
    /\ hc.fase = "desmarca"
    /\ Guarda(hc, hc.byte \ {hc.j})
    /\ hc' = [hc EXCEPT !.fase = "reduce", !.i = @ + 1]
    /\ UNCHANGED <<clientes, instrucciones, paginas, hk, caida>>

ReduceFin ==
    /\ hc.fase = "reduce" /\ hc.i = hc.n
    /\ Responde(sinMemoria)

\* Mutant of Ajusta: cant_paginas stays as it was.
SinAjustar ==
    /\ hc.fase = "ajusta"
    /\ hc' = Espera
    /\ UNCHANGED <<clientes, instrucciones, paginas, bitmap, hk, caida>>

\* Mutant of Ajusta: all the pages are added, not the new ones.
AjustaDeMas ==
    /\ hc.fase = "ajusta"
    /\ hc' = Espera
    /\ cant' = [cant EXCEPT ![hc.pid] = @ + hc.total]
    /\ UNCHANGED <<clientes, instrucciones, registro, tabla, bitmap, hk, caida>>

\* cant_paginas takes its new value whether or not every page was obtained.
\* When the thread of the kernel has destroyed the table, the write goes to freed
\* memory, which kills memoria or is not seen, and the table is registered again.
Ajusta ==
    /\ hc.fase = "ajusta"
    /\ hc' = Espera
    /\ IF hc.pid \in registro
         THEN cant' = [cant EXCEPT ![hc.pid] = hc.total] /\ caida' = caida
         ELSE cant' = cant /\ caida' \in BOOLEAN
    /\ registro' = registro \cup {hc.pid}
    /\ UNCHANGED <<clientes, instrucciones, tabla, bitmap, hk>>

----------------------------------------------------------------------------
(* The thread of the kernel.                                               *)

Recibe(o) ==
    /\ hk.fase = "espera"
    /\ pedidosKernel # <<>> /\ Head(pedidosKernel).op = o
    /\ pedidosKernel' = Tail(pedidosKernel)

\* INICIAR_PROCESO: the script first, whose file may not exist: it is read all the same ...
EjecutarScript ==
    /\ Recibe("INICIAR")
    /\ caida' \in BOOLEAN
    /\ LET p == Head(pedidosKernel).pid IN
         /\ instrucciones' = instrucciones \cup {p}
         /\ hk' = [Espera EXCEPT !.fase = "tabla", !.pid = p]
    /\ UNCHANGED <<creados, finalizados, pedido, listo, sinMemoria, resizes, paginas,
                   bitmap, hc>>

\* ... then the table of pages.
GuardarProceso ==
    /\ hk.fase = "tabla"
    /\ registro' = registro \cup {hk.pid}
    /\ hk' = Espera
    /\ UNCHANGED <<clientes, instrucciones, cant, tabla, bitmap, hc, caida>>

LiberarProceso ==
    /\ Recibe("FINALIZAR")
    /\ LET p == Head(pedidosKernel).pid IN
         /\ instrucciones' = instrucciones \ {p}
         /\ hk' = IF p \in registro THEN [Espera EXCEPT !.fase = "libera", !.pid = p] ELSE hk
    /\ UNCHANGED <<creados, finalizados, pedido, listo, sinMemoria, resizes, paginas,
                   bitmap, hc, caida>>

\* The next page below cant_paginas, and the load of the byte of its frame.
LiberaPagina ==
    /\ hk.fase = "libera" /\ hk.i < cant[hk.pid]
    /\ LET t == tabla[hk.pid] IN
         hk' = IF hk.i \in DOMAIN t
                 THEN [hk EXCEPT !.fase = "desmarca", !.j = t[hk.i],
                                 !.byte = ocupados \cap Byte(t[hk.i])]
                 ELSE [hk EXCEPT !.i = @ + 1]
    /\ UNCHANGED <<clientes, instrucciones, paginas, bitmap, hc, caida>>

LiberaMarco ==
    /\ hk.fase = "desmarca"
    /\ Guarda(hk, hk.byte \ {hk.j})
    /\ hk' = [hk EXCEPT !.fase = "libera", !.i = @ + 1]
    /\ UNCHANGED <<clientes, instrucciones, paginas, hc, caida>>

LiberaTabla ==
    /\ hk.fase = "libera" /\ hk.i >= cant[hk.pid]
    /\ registro' = registro \ {hk.pid}
    /\ tabla' = [tabla EXCEPT ![hk.pid] = SinPaginas]
    /\ cant' = [cant EXCEPT ![hk.pid] = 0]
    /\ hk' = Espera
    /\ UNCHANGED <<clientes, instrucciones, bitmap, hc, caida>>

HiloCpu ==
    \/ Instruccion \/ Redimensiona
    \/ AmpliaBusca \/ AmpliaCarga \/ AmpliaMarca \/ AmpliaSinMarco \/ AmpliaFin
    \/ ReduceQuita \/ ReduceDesmarca \/ ReduceFin
    \/ Ajusta

HiloKernel ==
    \/ EjecutarScript \/ GuardarProceso
    \/ LiberarProceso \/ LiberaPagina \/ LiberaMarco \/ LiberaTabla

Next ==
    /\ ~caida
    /\ \/ IniciarProceso
       \/ \E p \in Terminan : FinalizarProceso(p)
       \/ \E p \in Pids : PideInstruccion(p)
       \/ \E n \in Tamanios : PideResize(n)
       \/ HiloCpu
       \/ HiloKernel

Spec == Init /\ [][Next]_vars

----------------------------------------------------------------------------

Vivos == Pids \ finalizados

\* No frame belongs to two pages of processes that have not ended, of one or of two
\* (ampliar_proceso, reducir_proceso and liberar_proceso_de_memoria keep tables and
\* bitmap in step by hand), whatever the two threads interleave, until one of them
\* stores over what the other changed in the byte since it was loaded.
SinMarcoCompartido ==
    ~pisado =>
        \A p, q \in Vivos : \A g \in DOMAIN tabla[p], h \in DOMAIN tabla[q] :
            tabla[p][g] = tabla[q][h] => p = q /\ g = h

\* The frame of every page of a process that has not ended is marked as occupied in
\* frames_libres, on the same condition: the end of another process frees its own
\* (memoria.c:415) and no other.
MarcadosOcupados ==
    ~pisado => \A p \in Vivos : \A g \in DOMAIN tabla[p] : tabla[p][g] \in ocupados

\* A process that was never told OUT_OF_MEMORY has a frame for each of its pages,
\* whatever the two threads do (ampliar_proceso answers OK only then).
PaginasCompletas ==
    \A p \in Vivos \ sinMemoria : hc.pid = p \/ 0..(cant[p] - 1) \subseteq DOMAIN tabla[p]
=============================================================================
