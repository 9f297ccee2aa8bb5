------------------------------- MODULE Dialfs -------------------------------
(***************************************************************************)
(* A DIALFS interface: one thread that attends one request at a time over  *)
(* blocks, a bitmap and one metadata file per file, all three on disk.     *)
(* The process may be killed and started again, between two steps or while *)
(* a metadata file is being written; a step is what it does between two    *)
(* writes to different files on disk.                                      *)
(***************************************************************************)
EXTENDS Integers, Sequences, SequencesExt, FiniteSets, FiniteSetsExt

CONSTANTS
    Nombres,       \* the names the processes use
    BlockCount,    \* BLOCK_COUNT
    BlockSize,     \* BLOCK_SIZE
    Tamanios,      \* the sizes given to IO_FS_TRUNCATE
    Largos,        \* the sizes given to IO_FS_WRITE and IO_FS_READ
    Punteros,      \* the values of their file pointer
    Valores,       \* the bytes IO_FS_WRITE copies: memoria's answer and what follows it
    Ausentes,      \* the operations asked for names that do not exist
    LeeFuera,      \* whether the scripts read past the end of a file
    SinCorte,      \* the steps at which a killed process is not started again
    MaxReinicios,  \* bound: restarts
    Nadie,         \* no name
    Basura         \* the bytes of the heap past a buffer with no zero in it

ASSUME DialfsAssumption ==
    /\ BlockCount \in Nat /\ BlockSize \in Nat \ {0} /\ MaxReinicios \in Nat
    /\ Tamanios \cup Largos \cup Punteros \subseteq Nat
    /\ Nadie \notin Nombres /\ LeeFuera \in BOOLEAN
    /\ Ausentes \subseteq {"DELETE", "TRUNCATE", "WRITE", "READ"}

VARIABLES
    meta,     \* the metadata files on disk, by name: BLOQUE_INICIAL, TAMANIO_ARCHIVO
    lista,    \* lista_archivos
    bitmap,   \* the blocks whose bit is 1
    datos,    \* the file of blocks, byte by byte
    op,       \* the request in progress
    paso,     \* how far it went
    copia,    \* datos_archivo_truncado
    libre,    \* primer_bloque_libre, or the block of a new file
    movido,   \* the file compactar_file_system is moving
    leido,    \* what the last IO_FS_READ sent to memoria
    reinicios

disco == <<meta, bitmap, datos>>

locales == <<copia, libre, movido>>

vars == <<disco, lista, op, paso, locales, leido, reinicios>>

\* The bits of the bitmap: whole bytes of it.
MaxBit == 8 * (BlockCount \div 8)

Bloques == 0..(MaxBit - 1)
Bytes == 0..(BlockCount * BlockSize - 1)

Nada == [tipo |-> "NADA", nombre |-> Nadie, t |-> 0, p |-> 0]

bytes_a_bloques(b) == IF b = 0 THEN 1 ELSE (b + BlockSize - 1) \div BlockSize

Tramo(b, n) == b..(b + n - 1)

Libres == Bloques \ bitmap

posicion_bloque_libre == IF Libres = {} THEN -1 ELSE Min(Libres)

bloque_ocupado_desde(d) ==
    LET s == {b \in bitmap : b >= d} IN IF s = {} THEN -1 ELSE Min(s)

\* The element of lista_archivos that fits, the last one when none does.
Halla(Es(_)) ==
    LET s == {i \in DOMAIN lista : Es(lista[i])}
    IN  lista[IF s = {} THEN Len(lista) ELSE Min(s)]

obtener_archivo_por_nombre(n) == Halla(LAMBDA m : m = n)

obtener_archivo_por_bloque_inicial(b) == Halla(LAMBDA m : meta[m].ini = b)

\* The blocks of the file n.
BloquesDe(n) == Tramo(meta[n].ini, bytes_a_bloques(meta[n].tam))

\* limpiar_n_bytes_bloques and memcpy over the contents d of the file of blocks.
Limpio(d, b, n) == [x \in Bytes |-> IF x \in Tramo(b, n) THEN 0 ELSE d[x]]

Copiado(d, b, s) == [x \in Bytes |-> IF x \in Tramo(b, Len(s)) THEN s[x - b + 1] ELSE d[x]]

Leidos(b, n) == [i \in 1..n |-> IF b + i - 1 \in Bytes THEN datos[b + i - 1] ELSE Basura]

\* The file of the request, once there is one.
A == obtener_archivo_por_nombre(op.nombre)
Inicial == meta[A].ini
Actual == meta[A].tam
ByteInicial == Inicial * BlockSize

SinLocales == copia' = <<>> /\ libre' = 0 /\ movido' = Nadie

\* END_OF_IO_FS_*: the interface waits for the next request.
Termina == op' = Nada /\ paso' = "espera" /\ SinLocales

Sigue(s) == paso' = s /\ UNCHANGED op

Init ==
    /\ meta = [n \in {} |-> [ini |-> 0, tam |-> 0]] /\ lista = <<>>
    /\ bitmap = {} /\ datos = [x \in Bytes |-> 0]
    /\ op = Nada /\ paso = "espera"
    /\ copia = <<>> /\ libre = 0 /\ movido = Nadie
    /\ leido = <<>> /\ reinicios = 0

----------------------------------------------------------------------------
\* The kernel sends a request once the previous one was answered.  With no file
\* at all the lookup returns an uninitialised pointer.
Pide(tipo, n, t, p) ==
    /\ paso = "espera"
    /\ tipo = "CREATE" \/ n \in ToSet(lista) \/ tipo \in Ausentes
    /\ (tipo = "READ" /\ ~LeeFuera /\ n \in ToSet(lista)) => p + t <= meta[n].tam
    /\ op' = [tipo |-> tipo, nombre |-> n, t |-> t, p |-> p]
    /\ paso' = IF tipo # "CREATE" /\ lista = <<>> THEN "caida" ELSE tipo
    /\ leido' = <<>>
    /\ UNCHANGED <<disco, lista, locales, reinicios>>

Pedir(n) ==
    \/ \E tipo \in {"CREATE", "DELETE"} : Pide(tipo, n, 0, 0)
    \/ \E t \in Tamanios : Pide("TRUNCATE", n, t, 0)
    \/ \E tipo \in {"WRITE", "READ"}, t \in Largos, p \in Punteros : Pide(tipo, n, t, p)

----------------------------------------------------------------------------
(* io_fs_create                                                            *)

\* With no free block nothing is done and nothing is answered.
CreaSinLugar ==
    /\ paso = "CREATE" /\ Libres = {}
    /\ Sigue("mudo")
    /\ UNCHANGED <<disco, lista, locales, leido, reinicios>>

CreaExistente ==
    /\ paso = "CREATE" /\ Libres # {} /\ op.nombre \in DOMAIN meta
    /\ Termina
    /\ UNCHANGED <<disco, lista, leido, reinicios>>

Crea ==
    /\ paso = "CREATE" /\ Libres # {} /\ op.nombre \notin DOMAIN meta
    /\ libre' = posicion_bloque_libre
    /\ meta' = [n \in DOMAIN meta \cup {op.nombre} |->
                  IF n = op.nombre THEN [ini |-> libre', tam |-> 0] ELSE meta[n]]
    /\ lista' = Append(lista, op.nombre)
    /\ Sigue("marcar")
    /\ UNCHANGED <<bitmap, datos, copia, movido, leido, reinicios>>

CreaMarca ==
    /\ paso = "marcar"
    /\ bitmap' = bitmap \cup {libre}
    /\ Termina
    /\ UNCHANGED <<meta, datos, lista, leido, reinicios>>

----------------------------------------------------------------------------
(* io_fs_delete                                                            *)

BorraDatos ==
    /\ paso = "DELETE"
    /\ datos' = Limpio(datos, ByteInicial, Actual)
    /\ Sigue("borrar")
    /\ UNCHANGED <<meta, bitmap, lista, locales, leido, reinicios>>

BorraBits ==
    /\ paso = "borrar"
    /\ bitmap' = bitmap \ BloquesDe(A)
    /\ Sigue("quitar")
    /\ UNCHANGED <<meta, datos, lista, locales, leido, reinicios>>

\* What leaves the list is the file found, what is removed is the name asked for.
Quita ==
    /\ paso = "quitar"
    /\ lista' = RemoveFirst(lista, A)
    /\ meta' = [n \in DOMAIN meta \ {op.nombre} |-> meta[n]]
    /\ Termina
    /\ UNCHANGED <<bitmap, datos, leido, reinicios>>

----------------------------------------------------------------------------
(* io_fs_truncate                                                          *)

BloquesActuales == bytes_a_bloques(Actual)
BloquesNuevos == bytes_a_bloques(op.t)
BloqueFinal == Inicial + BloquesActuales

Amplia == paso = "TRUNCATE" /\ Actual < op.t

HayLugar == BloquesNuevos <= Cardinality(Libres) + BloquesActuales

\* Mutants of LibresContiguos: one block more at the end of the disk, and a file in
\* the way that is not seen.
LibresContiguosDeMas ==
    LET b == bloque_ocupado_desde(BloqueFinal)
    IN  (IF b = -1 THEN MaxBit + 1 ELSE b) - BloqueFinal

LibresHastaElFinal == MaxBit - BloqueFinal

\* The free blocks that follow the file.
LibresContiguos ==
    LET b == bloque_ocupado_desde(BloqueFinal)
    IN  (IF b = -1 THEN MaxBit ELSE b) - BloqueFinal

Contiguo == BloquesNuevos <= LibresContiguos + BloquesActuales

AmpliaSinLugar ==
    /\ Amplia /\ ~HayLugar
    /\ Termina
    /\ UNCHANGED <<disco, lista, leido, reinicios>>

AmpliaBits ==
    /\ Amplia /\ HayLugar /\ Contiguo
    /\ bitmap' = bitmap \cup Tramo(BloqueFinal, BloquesNuevos - BloquesActuales)
    /\ Sigue("ampliar")
    /\ UNCHANGED <<meta, datos, lista, locales, leido, reinicios>>

\* Mutant of AchicaDatos: one byte fewer is cleared.
AchicaDatosDeMenos ==
    /\ paso = "TRUNCATE" /\ ~(Actual < op.t)
    /\ datos' = Limpio(datos, ByteInicial + op.t, Actual - op.t - 1)
    /\ Sigue("soltar")
    /\ UNCHANGED <<meta, bitmap, lista, locales, leido, reinicios>>

AchicaDatos ==
    /\ paso = "TRUNCATE" /\ ~(Actual < op.t)
    /\ datos' = Limpio(datos, ByteInicial + op.t, Actual - op.t)
    /\ Sigue("soltar")
    /\ UNCHANGED <<meta, bitmap, lista, locales, leido, reinicios>>

\* Mutant of AchicaBits: counted from the blocks the file had.
AchicaBitsDelFinal ==
    /\ paso = "soltar"
    /\ bitmap' = bitmap \ Tramo(BloqueFinal, BloquesActuales - BloquesNuevos)
    /\ Sigue("achicar")
    /\ UNCHANGED <<meta, datos, lista, locales, leido, reinicios>>

AchicaBits ==
    /\ paso = "soltar"
    /\ bitmap' = bitmap \ Tramo(Inicial + BloquesNuevos, BloquesActuales - BloquesNuevos)
    /\ Sigue("achicar")
    /\ UNCHANGED <<meta, datos, lista, locales, leido, reinicios>>

GuardaTamanio ==
    /\ paso \in {"ampliar", "achicar"}
    /\ meta' = [meta EXCEPT ![A].tam = op.t]
    /\ Termina
    /\ UNCHANGED <<bitmap, datos, lista, leido, reinicios>>

----------------------------------------------------------------------------
(* compactar_file_system                                                   *)

CompactaCopia ==
    /\ Amplia /\ HayLugar /\ ~Contiguo
    /\ copia' = Leidos(ByteInicial, Actual)
    /\ datos' = Limpio(datos, ByteInicial, Actual)
    /\ Sigue("retirar")
    /\ UNCHANGED <<meta, bitmap, lista, libre, movido, leido, reinicios>>

CompactaRetira ==
    /\ paso = "retirar"
    /\ bitmap' = bitmap \ BloquesDe(A)
    /\ Sigue("compactar")
    /\ UNCHANGED <<meta, datos, lista, locales, leido, reinicios>>

\* Mutant of BloqueAMover: the first occupied block of all.
PrimeroOcupado == IF Libres = {} THEN -1 ELSE bloque_ocupado_desde(0)

\* The first occupied block after the first free one, -1 when there is none.
BloqueAMover ==
    IF Libres = {} THEN -1 ELSE bloque_ocupado_desde(posicion_bloque_libre)

\* Mutant of CompactaDatos: the old place is cleared after the copy.
CompactaDatosAlReves ==
    /\ paso = "compactar" /\ BloqueAMover # -1
    /\ LET m == obtener_archivo_por_bloque_inicial(BloqueAMover)
           b == BloqueAMover * BlockSize
       IN  /\ movido' = m
           /\ datos' = Limpio(Copiado(datos, posicion_bloque_libre * BlockSize,
                                      Leidos(b, meta[m].tam)),
                              b, meta[m].tam)
    /\ libre' = posicion_bloque_libre
    /\ Sigue("mover")
    /\ UNCHANGED <<meta, bitmap, lista, copia, leido, reinicios>>

CompactaDatos ==
    /\ paso = "compactar" /\ BloqueAMover # -1
    /\ LET m == obtener_archivo_por_bloque_inicial(BloqueAMover)
           b == BloqueAMover * BlockSize
       IN  /\ movido' = m
           /\ datos' = Copiado(Limpio(datos, b, meta[m].tam),
                               posicion_bloque_libre * BlockSize, Leidos(b, meta[m].tam))
    /\ libre' = posicion_bloque_libre
    /\ Sigue("mover")
    /\ UNCHANGED <<meta, bitmap, lista, copia, leido, reinicios>>

CompactaBits ==
    /\ paso = "mover"
    /\ LET k == bytes_a_bloques(meta[movido].tam)
       IN  bitmap' = (bitmap \ Tramo(BloqueAMover, k)) \cup Tramo(libre, k)
    /\ Sigue("guardar")
    /\ UNCHANGED <<meta, datos, lista, locales, leido, reinicios>>

CompactaMeta ==
    /\ paso = "guardar"
    /\ meta' = [meta EXCEPT ![movido].ini = libre]
    /\ movido' = Nadie
    /\ Sigue("compactar")
    /\ UNCHANGED <<bitmap, datos, lista, copia, libre, leido, reinicios>>

PegaDatos ==
    /\ paso = "compactar" /\ BloqueAMover = -1
    /\ libre' = posicion_bloque_libre
    /\ datos' = Copiado(datos, libre' * BlockSize, copia)
    /\ Sigue("pegar")
    /\ UNCHANGED <<meta, bitmap, lista, copia, movido, leido, reinicios>>

PegaBits ==
    /\ paso = "pegar"
    /\ bitmap' = bitmap \cup Tramo(libre, BloquesNuevos)
    /\ Sigue("reubicar")
    /\ UNCHANGED <<meta, datos, lista, locales, leido, reinicios>>

PegaMeta ==
    /\ paso = "reubicar"
    /\ meta' = [meta EXCEPT ![A] = [ini |-> libre, tam |-> op.t]]
    /\ Termina
    /\ UNCHANGED <<bitmap, datos, lista, leido, reinicios>>

----------------------------------------------------------------------------
(* io_fs_write, io_fs_read                                                 *)

EscribeSinLugar ==
    /\ paso = "WRITE" /\ op.p + op.t > Actual
    /\ Termina
    /\ UNCHANGED <<disco, lista, leido, reinicios>>

Escribe ==
    /\ paso = "WRITE" /\ op.p + op.t <= Actual
    /\ \E s \in [1..op.t -> Valores] : datos' = Copiado(datos, ByteInicial + op.p, s)
    /\ Termina
    /\ UNCHANGED <<meta, bitmap, lista, leido, reinicios>>

\* memoria answers with a message: the list of the answer is an uninitialised pointer.
EscribeSinRespuesta ==
    /\ paso = "WRITE" /\ op.p + op.t <= Actual
    /\ Sigue("caida")
    /\ UNCHANGED <<disco, lista, locales, leido, reinicios>>

\* The buffer is sent as a string: up to its first zero, or past its end.
Lee ==
    /\ paso = "READ"
    /\ LET s == Leidos(ByteInicial + op.p, op.t)
           ceros == {i \in DOMAIN s : s[i] = 0}
       IN  IF ceros # {} THEN leido' = SubSeq(s, 1, Min(ceros) - 1)
                         ELSE leido' \in {s, Append(s, Basura)}
    /\ Termina
    /\ UNCHANGED <<disco, lista, reinicios>>

----------------------------------------------------------------------------
\* The process is killed and iniciar_file_system reads what it left on disk.
Reinicia ==
    /\ reinicios < MaxReinicios /\ paso \notin SinCorte \cup {"inservible"}
    /\ reinicios' = reinicios + 1
    /\ lista' \in SetToSeqs(DOMAIN meta)
    /\ bitmap' = bitmap \cup UNION {BloquesDe(n) : n \in DOMAIN meta}
    /\ Termina /\ leido' = <<>>
    /\ UNCHANGED <<meta, datos>>

\* The steps that write a metadata file: fopen empties it, config_save fills it.
GuardaMeta ==
    \/ paso = "CREATE" /\ Libres # {} /\ op.nombre \notin DOMAIN meta
    \/ paso \in {"ampliar", "achicar", "guardar", "reubicar"}

\* Killed in between: every later start looks for a key the file does not have, and
\* dereferences null.  The rest of the disk is as it was, and nobody reads it.
QuedaVacio ==
    /\ reinicios < MaxReinicios /\ GuardaMeta
    /\ reinicios' = reinicios + 1
    /\ op' = Nada /\ paso' = "inservible" /\ SinLocales /\ leido' = <<>>
    /\ UNCHANGED <<disco, lista>>

Atiende ==
    \/ CreaSinLugar \/ CreaExistente \/ Crea \/ CreaMarca
    \/ BorraDatos \/ BorraBits \/ Quita
    \/ AmpliaSinLugar \/ AmpliaBits \/ AchicaDatos \/ AchicaBits \/ GuardaTamanio
    \/ CompactaCopia \/ CompactaRetira \/ CompactaDatos \/ CompactaBits \/ CompactaMeta
    \/ PegaDatos \/ PegaBits \/ PegaMeta
    \/ EscribeSinLugar \/ Escribe \/ EscribeSinRespuesta \/ Lee

Next == Atiende \/ Reinicia \/ QuedaVacio \/ \E n \in Nombres : Pedir(n)

Spec == Init /\ [][Next]_vars

----------------------------------------------------------------------------
Compactando == {"retirar", "compactar", "mover", "guardar", "pegar", "reubicar"}

Pasos == {"espera", "mudo", "caida", "inservible", "CREATE", "marcar", "DELETE", "borrar", "quitar",
          "TRUNCATE", "ampliar", "soltar", "achicar", "WRITE", "READ"} \cup Compactando

TypeOK ==
    /\ DOMAIN meta \subseteq Nombres
    /\ \A n \in DOMAIN meta : meta[n].ini \in Bloques /\ meta[n].tam \in Nat
    /\ lista \in Seq(DOMAIN meta)
    /\ bitmap \subseteq Bloques
    /\ datos \in [Bytes -> Valores \cup {0}]
    /\ op \in [tipo : {"CREATE", "DELETE", "TRUNCATE", "WRITE", "READ", "NADA"},
               nombre : Nombres \cup {Nadie}, t : Nat, p : Nat]
    /\ paso \in Pasos
    /\ copia \in Seq(Valores \cup {0}) /\ libre \in Bloques \cup {0} /\ movido \in Nombres \cup {Nadie}
    /\ leido \in Seq(Valores \cup {0, Basura})
    /\ reinicios \in 0..MaxReinicios

\* posicion_bloque_libre and bytes_a_bloques: no block belongs to two files, whatever
\* was created, truncated, moved or recovered at a restart, but for a restart after a
\* kill in one of the steps of SinCorte.
SinSolapamiento ==
    paso = "espera" =>
      \A m, n \in DOMAIN meta : m # n => BloquesDe(m) \cap BloquesDe(n) = {}

\* Between two requests the bitmap says exactly which blocks the files hold: none is
\* lost for ever and none can be given twice, but for what a kill in one of the steps
\* of SinCorte leaves (between 828 and 834, or in compactar_file_system).
BitmapExacto == paso = "espera" => bitmap = UNION {BloquesDe(n) : n \in DOMAIN meta}

\* limpiar_n_bytes_bloques: what no file holds is zero, so a file that is created
\* or enlarged does not show what another one had there.
LibresEnCero ==
    paso = "espera" =>
      \A x \in Bytes : datos[x] # 0 =>
        \E n \in DOMAIN meta : x \in Tramo(meta[n].ini * BlockSize, meta[n].tam)

\* The loop of compactar_file_system ends: each turn lowers the first block of a
\* file other than the one that is enlarged, and raises none.
CompactaHaciaAbajo ==
    [][paso = "guardar" /\ op' = op =>
         /\ movido # A /\ meta'[movido].ini < meta[movido].ini
         /\ \A n \in DOMAIN meta \ {movido} : meta'[n] = meta[n]]_vars

----------------------------------------------------------------------------
(* The files as the processes see them: a file that is shrunk or deleted   *)
(* is so from the first write, one that is enlarged from the last one; one *)
(* that is moved is where its data is.                                     *)

TamanioVisto(n) == IF n = A /\ paso \in {"soltar", "achicar"} THEN op.t ELSE meta[n].tam

InicialVisto(n) == IF n = movido /\ paso \in {"mover", "guardar"} THEN libre ELSE meta[n].ini

Visto(n) ==
    IF n = A /\ paso \in Compactando
      THEN copia
      ELSE Leidos(InicialVisto(n) * BlockSize, TamanioVisto(n))

ArchivosVistos ==
    [n \in {m \in ToSet(lista) : /\ paso # "inservible"
                                 /\ ~(m = A /\ paso \in {"borrar", "quitar"})} |-> Visto(n)]

\* The change can be seen and the answer has not been sent.
Hecho == paso \in {"marcar", "borrar", "quitar", "soltar", "achicar"}

Promesa == INSTANCE Archivos WITH archivos <- ArchivosVistos, pedido <- op, hecho <- Hecho,
                                  sirve <- (paso # "inservible")

\* Blocks, bitmap and metadata files implement files by name: the operation a request
\* asks for, with its size, pointer and length, takes effect once and before its answer,
\* on its file and on no other, and a restart after a kill at any step out of SinCorte
\* changes nothing but the file of the request in progress.
Implementa == Promesa!Spec

\* inout.c:61: the file a request works on is the one with the name it was given: no
\* step of a request changes or loses another one, nor a restart that can be made.
SoloElPedido ==
    [][paso' # "inservible" =>
       \A n \in DOMAIN ArchivosVistos \ {op.nombre} :
         /\ n \in DOMAIN ArchivosVistos'
         /\ ArchivosVistos'[n] = ArchivosVistos[n]]_vars

=============================================================================
