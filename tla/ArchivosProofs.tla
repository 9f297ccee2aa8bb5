-------------------------- MODULE ArchivosProofs --------------------------
(***************************************************************************)
(* The interface DIALFS implements a table of files by name: every step of *)
(* every request is one step of Archivos or is not seen there, for every   *)
(* disk, every set of files and every request that names one of them.      *)
(*                                                                         *)
(* The mapping of Dialfs looks a file up in the list and finds its bytes   *)
(* where the step in progress has them: at its first block, at the block   *)
(* it is moved to, or in the copy in memory.  With the invariant of        *)
(* DialfsProofs the lookup goes away (VistosDe, VistoDe), and what is left *)
(* of each action is which bytes it writes: those of one file, by          *)
(* TramosAparte, or free ones, by Ceros.                                   *)
(*                                                                         *)
(* Two facts more are needed, and are inductive with it: what a request    *)
(* asks for (Pedida), and that the file that grows is already written when *)
(* the mapping stops looking at its copy (Pegado).                         *)
(***************************************************************************)
EXTENDS DialfsProofs

\* What a request asks for: its steps are those of its operation.
Pedida ==
    /\ paso \in {"CREATE", "marcar", "mudo"} => op.tipo = "CREATE"
    /\ paso \in {"DELETE", "borrar", "quitar"} => op.tipo = "DELETE"
    /\ paso \in {"TRUNCATE", "ampliar", "soltar", "achicar"} \cup Compactando
         => op.tipo = "TRUNCATE"
    /\ paso \in {"WRITE", "caida"} => op.tipo = "WRITE"
    /\ paso = "READ" => op.tipo = "READ" /\ op.p + op.t <= meta[Archivo].tam

\* The file that is enlarged is already in its new place.
Pegado ==
    paso \in {"pegar", "reubicar"} =>
      /\ Len(copia) = meta[Archivo].tam
      /\ \A i \in 1..Len(copia) : datos[libre * BlockSize + i - 1] = copia[i]

InvArchivos == (Inv /\ Pedida /\ Pegado) \/ Inservible

----------------------------------------------------------------------------

Tamanio(n) == IF n = Archivo /\ paso \in {"soltar", "achicar"} THEN op.t ELSE meta[n].tam

EnCopia(n) == n = Archivo /\ paso \in Compactando

Vista == {n \in DOMAIN meta : ~ (n = Archivo /\ paso \in {"borrar", "quitar"})}

\* The file of the request is found by its name wherever the mapping asks for it.
LEMMA EsElPedido ==
  ASSUME Inv, NEW n \in DOMAIN meta, NEW S, S \subseteq ConArchivo
  PROVE  n = A /\ paso \in S <=> n = Archivo /\ paso \in S
<1>1. CASE paso \in ConArchivo
  BY <1>1, Hallado DEF Inv, Pedido, Archivo
<1>2. CASE paso \notin ConArchivo
  BY <1>2
<1> QED BY <1>1, <1>2

\* Under the invariant the interface can start.
LEMMA Sirve == Inv => paso # "inservible"
BY DEF Inv, Pedido, Pasos, Compactando

LEMMA SirveDespues == Inv' => paso' # "inservible"
BY DEF Inv, Pedido, Pasos, Compactando

\* How the mapping sees one file...
LEMMA VistoDe ==
  ASSUME Inv, NEW n \in DOMAIN meta
  PROVE  Visto(n) = IF EnCopia(n) THEN copia ELSE Leidos(DatosDesde(n) * BlockSize, Tamanio(n))
<1>1. n = A /\ paso \in Compactando <=> EnCopia(n)
  BY EsElPedido DEF EnCopia, ConArchivo
<1>2. TamanioVisto(n) = Tamanio(n)
  <2>1. n = A /\ paso \in {"soltar", "achicar"} <=> n = Archivo /\ paso \in {"soltar", "achicar"}
    BY EsElPedido DEF ConArchivo
  <2> QED BY <2>1 DEF TamanioVisto, Tamanio
<1>3. ~ EnCopia(n) => InicialVisto(n) = DatosDesde(n)
  BY DEF InicialVisto, DatosDesde, EnCopia, Compactando
<1> QED BY <1>1, <1>2, <1>3 DEF Visto

\* ...and all of them.
LEMMA VistosDe ==
  ASSUME Inv
  PROVE  ArchivosVistos = [n \in Vista |-> Visto(n)]
<1>1. {m \in ToSet(lista) : /\ paso # "inservible"
                            /\ ~(m = A /\ paso \in {"borrar", "quitar"})} = Vista
  <2>1. \A n \in DOMAIN meta : n = A /\ paso \in {"borrar", "quitar"}
                                 <=> n = Archivo /\ paso \in {"borrar", "quitar"}
    BY EsElPedido DEF ConArchivo
  <2> QED BY <2>1, Sirve DEF Inv, Listados, Vista
<1> QED BY <1>1 DEF ArchivosVistos

\* How the mapping sees the files, before a step and after it.
VistaFiel ==
    /\ ArchivosVistos = [n \in Vista |-> Visto(n)]
    /\ \A n \in DOMAIN meta :
         Visto(n) = IF EnCopia(n) THEN copia ELSE Leidos(DatosDesde(n) * BlockSize, Tamanio(n))

LEMMA VistaAntes == Inv => VistaFiel
BY VistosDe, VistoDe DEF VistaFiel

LEMMA VistaDespues == Inv' => VistaFiel'
BY VistaAntes, PTL

\* The files are seen alike when each one is.
LEMMA VistosIguales ==
  ASSUME Inv, Inv', Vista' = Vista, \A n \in Vista : Visto(n)' = Visto(n)
  PROVE  ArchivosVistos' = ArchivosVistos
<1>1. ArchivosVistos = [n \in Vista |-> Visto(n)]
  BY VistosDe
<1>2. ArchivosVistos' = [n \in Vista' |-> Visto(n)']
  BY VistaDespues DEF VistaFiel
<1> QED BY <1>1, <1>2

\* What is read depends on no other byte.
LEMMA LeidosIguales ==
  ASSUME NEW q \in Nat, NEW t \in Nat, \A x \in Bytes : x \in Tramo(q, t) => datos'[x] = datos[x]
  PROVE  Leidos(q, t)' = Leidos(q, t)
<1>1. \A i \in 1..t : q + i - 1 \in Tramo(q, t)
  BY DEF Tramo
<1> QED BY <1>1 DEF Leidos

\* A file whose place, size and bytes do not change.
LEMMA VistoIgual ==
  ASSUME Inv, Inv', NEW n \in DOMAIN meta, n \in DOMAIN meta',
         ~ EnCopia(n), ~ EnCopia(n)',
         DatosDesde(n)' = DatosDesde(n), Tamanio(n)' = Tamanio(n),
         \A x \in Bytes : x \in Tramo(DatosDesde(n) * BlockSize, Tamanio(n))
                            => datos'[x] = datos[x]
  PROVE  Visto(n)' = Visto(n)
<1>1. PICK q : q = DatosDesde(n) * BlockSize
  OBVIOUS
<1>2. PICK t : t = Tamanio(n)
  OBVIOUS
<1>3. meta[n].ini \in Nat /\ meta[n].tam \in Nat /\ op.t \in Nat /\ (libre \in Nat)
  BY Medidas, Bits DEF Inv, Restos
<1>4. DatosDesde(n) \in Nat /\ t \in Nat
  BY <1>2, <1>3 DEF DatosDesde, Tamanio
<1>5. q \in Nat
  BY <1>1, <1>4, Producto
<1>6. Visto(n) = Leidos(q, t)
  BY <1>1, <1>2, VistoDe
<1>7. Visto(n)' = Leidos(q, t)'
  <2>1. Visto(n)' = Leidos(DatosDesde(n) * BlockSize, Tamanio(n))'
    BY VistaDespues DEF VistaFiel
  <2>2. DatosDesde(n)' * BlockSize = q /\ Tamanio(n)' = t
    BY <1>1, <1>2
  <2> QED BY <2>1, <2>2 DEF Leidos
<1>8. Leidos(q, t)' = Leidos(q, t)
  BY <1>1, <1>2, <1>4, <1>5, LeidosIguales
<1> QED BY <1>6, <1>7, <1>8

\* A file seen in the copy, which does not change.
LEMMA CopiaIgual ==
  ASSUME Inv, Inv', NEW n \in DOMAIN meta, n \in DOMAIN meta', EnCopia(n), EnCopia(n)',
         copia' = copia
  PROVE  Visto(n)' = Visto(n)
BY VistoDe, VistaDespues DEF VistaFiel

\* A step that leaves the file of blocks alone and moves no file.
LEMMA NadaSeVe ==
  ASSUME Inv, Inv', datos' = datos, Vista' = Vista,
         \A n \in Vista :
           /\ EnCopia(n)' <=> EnCopia(n)
           /\ IF EnCopia(n)
                THEN copia' = copia
                ELSE DatosDesde(n)' = DatosDesde(n) /\ Tamanio(n)' = Tamanio(n)
  PROVE  ArchivosVistos' = ArchivosVistos
<1>1. Vista \subseteq DOMAIN meta /\ Vista' \subseteq DOMAIN meta'
  BY DEF Vista
<1>2. ASSUME NEW n \in Vista PROVE Visto(n)' = Visto(n)
  <2>1. n \in DOMAIN meta /\ n \in DOMAIN meta'
    BY <1>1
  <2>2. CASE EnCopia(n)
    BY <2>1, <2>2, CopiaIgual
  <2>3. CASE ~ EnCopia(n)
    BY <2>1, <2>3, VistoIgual
  <2> QED BY <2>2, <2>3
<1> QED BY <1>2, VistosIguales

\* The files after a step that changes one of them.
LEMMA ConVisto ==
  ASSUME Inv, Inv', NEW nm, Vista' = Vista \cup {nm},
         \A n \in Vista \ {nm} : Visto(n)' = Visto(n)
  PROVE  ArchivosVistos' = Promesa!Con(ArchivosVistos, nm, Visto(nm)')
<1>1. ArchivosVistos = [n \in Vista |-> Visto(n)]
  BY VistosDe
<1>2. ArchivosVistos' = [n \in Vista' |-> Visto(n)']
  BY VistaDespues DEF VistaFiel
<1> QED BY <1>1, <1>2 DEF Promesa!Con

\* But for the file of the request, the files are seen alike.
LEMMA SinVisto ==
  ASSUME Inv, Inv', NEW nm, Vista' \ {nm} = Vista \ {nm},
         \A n \in Vista \ {nm} : Visto(n)' = Visto(n)
  PROVE  Promesa!Sin(ArchivosVistos', nm) = Promesa!Sin(ArchivosVistos, nm)
<1>1. ArchivosVistos = [n \in Vista |-> Visto(n)]
  BY VistosDe
<1>2. ArchivosVistos' = [n \in Vista' |-> Visto(n)']
  BY VistaDespues DEF VistaFiel
<1> QED BY <1>1, <1>2 DEF Promesa!Sin

\* Files with their blocks apart have their bytes apart.
LEMMA BytesAparte ==
  ASSUME NEW i \in Nat, NEW k \in Nat, NEW j \in Nat, NEW l \in Nat, Aparte(i, k, j, l),
         NEW t \in Nat, NEW u \in Nat, t <= k * BlockSize, u <= l * BlockSize
  PROVE  \A x : ~ (x \in Tramo(i * BlockSize, t) /\ x \in Tramo(j * BlockSize, u))
<1>1. PICK a \in Nat, b \in Nat, c \in Nat, d \in Nat :
        a = i * BlockSize /\ b = j * BlockSize /\ c = k * BlockSize /\ d = l * BlockSize
  BY Producto
<1>2. CASE i + k <= j
  <2>0. i + k \in Nat
    OBVIOUS
  <2>1. (i + k) * BlockSize <= j * BlockSize
    BY <1>2, <2>0, Producto
  <2>3. (i + k) * BlockSize = a + c
    BY <1>1, Producto
  <2>2. a + t <= b
    BY <1>1, <2>1, <2>3
  <2> QED BY <1>1, <2>2, TramoMiembro
<1>3. CASE j + l <= i
  <2>0. j + l \in Nat
    OBVIOUS
  <2>1. (j + l) * BlockSize <= i * BlockSize
    BY <1>3, <2>0, Producto
  <2>3. (j + l) * BlockSize = b + d
    BY <1>1, Producto
  <2>2. b + u <= a
    BY <1>1, <2>1, <2>3
  <2> QED BY <1>1, <2>2, TramoMiembro
<1> QED BY <1>2, <1>3 DEF Aparte

\* Out of a compaction, two files have no byte in common.
LEMMA OtrosBytes ==
  ASSUME Inv, paso \notin Fuera, NEW m \in DOMAIN meta, NEW n \in DOMAIN meta, m # n
  PROVE  \A x : ~ (/\ x \in Tramo(meta[m].ini * BlockSize, meta[m].tam)
                   /\ x \in Tramo(meta[n].ini * BlockSize, meta[n].tam))
<1>1. Aparte(meta[m].ini, Cuantos(m), meta[n].ini, Cuantos(n))
  BY DEF Inv, Separados
<1> QED BY <1>1, Medidas, BytesAparte

----------------------------------------------------------------------------
(* Each action does what Archivos says of it, or changes nothing of it.    *)

PasoVisto == [Promesa!Next]_(Promesa!vars)

\* A step that is not seen...
LEMMA Callado ==
  ASSUME Inv, Inv', ArchivosVistos' = ArchivosVistos, op' = op, Hecho' <=> Hecho, leido' = leido,
         reinicios' = reinicios
  PROVE  PasoVisto
<1>1. (paso' # "inservible") = (paso # "inservible")
  BY Sirve, SirveDespues
<1>2. Hecho' = Hecho
  BY DEF Hecho
<1> QED BY <1>1, <1>2 DEF PasoVisto, Promesa!vars

\* ...one that is only the answer...
LEMMA Respondido ==
  ASSUME Inv, Inv', paso \in {"marcar", "quitar", "achicar"}, paso' = "espera", op' = Nada,
         ArchivosVistos' = ArchivosVistos, leido' = leido, reinicios' = reinicios
  PROVE  PasoVisto
<1>1. Hecho /\ Hecho' = FALSE
  BY DEF Hecho
<1>2. (paso' # "inservible") = (paso # "inservible")
  BY Sirve, SirveDespues
<1> QED BY <1>1, <1>2 DEF PasoVisto, Promesa!Next, Promesa!Responder, Nada, Promesa!Nada

\* ...and the answer of a request that does nothing.
LEMMA Rechazado ==
  ASSUME Inv, Inv', paso \in {"CREATE", "TRUNCATE", "WRITE"}, paso' = "espera", op' = Nada,
         ArchivosVistos' = ArchivosVistos, leido' = leido, reinicios' = reinicios,
         NEW nm \in DOMAIN ArchivosVistos, nm = op.nombre,
         \/ op.tipo = "CREATE"
         \/ op.tipo = "TRUNCATE" /\ op.t > Len(ArchivosVistos[nm])
         \/ op.tipo = "WRITE" /\ op.p + op.t > Len(ArchivosVistos[nm])
  PROVE  PasoVisto
<1>1. ~ Hecho /\ Hecho' = FALSE
  BY DEF Hecho
<1>2. (paso' # "inservible") = (paso # "inservible")
  BY Sirve, SirveDespues
<1>3. Promesa!Existe /\ Promesa!Contenido = ArchivosVistos[nm]
  BY DEF Promesa!Existe, Promesa!Contenido
<1> QED BY <1>1, <1>2, <1>3 DEF PasoVisto, Promesa!Next, Promesa!Rechazar, Nada, Promesa!Nada

\* Bits and metadata of a request in progress are not seen.
LEMMA BitsCallados ==
  ASSUME Inv, Inv', CreaSinLugar \/ BorraBits \/ AmpliaBits \/ AchicaBits \/ CompactaRetira
                      \/ CompactaBits \/ PegaBits \/ EscribeSinRespuesta
  PROVE  PasoVisto
<1>1. /\ op' = op /\ meta' = meta /\ datos' = datos /\ copia' = copia /\ libre' = libre
      /\ movido' = movido /\ leido' = leido /\ reinicios' = reinicios
      /\ <<paso, paso'>> \in {<<"CREATE", "mudo">>, <<"borrar", "quitar">>,
                              <<"TRUNCATE", "ampliar">>, <<"soltar", "achicar">>,
                              <<"retirar", "compactar">>, <<"mover", "guardar">>,
                              <<"pegar", "reubicar">>, <<"WRITE", "caida">>}
  <2>1. CASE CreaSinLugar
    BY <2>1 DEF CreaSinLugar, Sigue, disco, locales
  <2>2. CASE BorraBits
    BY <2>2 DEF BorraBits, Sigue, locales
  <2>3. CASE AmpliaBits
    BY <2>3 DEF AmpliaBits, Amplia, Sigue, locales
  <2>4. CASE AchicaBits
    BY <2>4 DEF AchicaBits, Sigue, locales
  <2>5. CASE CompactaRetira
    BY <2>5 DEF CompactaRetira, Sigue, locales
  <2>6. CASE CompactaBits
    BY <2>6 DEF CompactaBits, Sigue, locales
  <2>7. CASE PegaBits
    BY <2>7 DEF PegaBits, Sigue, locales
  <2>8. CASE EscribeSinRespuesta
    BY <2>8 DEF EscribeSinRespuesta, Sigue, disco, locales
  <2> QED BY <2>1, <2>2, <2>3, <2>4, <2>5, <2>6, <2>7, <2>8
<1>2. Vista' = Vista
  BY <1>1 DEF Vista, Archivo
<1>3. ASSUME NEW n \in DOMAIN meta
      PROVE  /\ EnCopia(n)' <=> EnCopia(n)
             /\ Tamanio(n)' = Tamanio(n) /\ DatosDesde(n)' = DatosDesde(n)
  <2>1. EnCopia(n)' <=> EnCopia(n)
    BY <1>1 DEF EnCopia, Archivo, Compactando
  <2>3. Tamanio(n)' = Tamanio(n)
    BY <1>1 DEF Tamanio, Archivo
  <2>2. DatosDesde(n)' = DatosDesde(n)
    BY <1>1 DEF DatosDesde, Archivo
  <2> QED BY <2>1, <2>2, <2>3
<1>4. ArchivosVistos' = ArchivosVistos
  BY <1>1, <1>2, <1>3, NadaSeVe DEF Vista
<1>5. Hecho' <=> Hecho
  BY <1>1 DEF Hecho
<1> QED BY <1>1, <1>4, <1>5, Callado

\* compactar_file_system: a file is seen where its bytes are, so its metadata change nothing.
LEMMA CompactaMetaVisto ==
  ASSUME Inv, Inv', CompactaMeta
  PROVE  PasoVisto
<1>1. PICK nm : nm = op.nombre
  OBVIOUS
<1>2. /\ paso = "guardar" /\ paso' = "compactar" /\ op' = op /\ datos' = datos /\ copia' = copia
      /\ meta' = [meta EXCEPT ![movido].ini = libre] /\ movido' = Nadie /\ libre' = libre
      /\ leido' = leido /\ reinicios' = reinicios
      /\ movido \in DOMAIN meta \ {nm}
  BY <1>1 DEF CompactaMeta, Sigue, Inv, Pedido, Archivo
<1>3. /\ DOMAIN meta' = DOMAIN meta
      /\ \A n \in DOMAIN meta : /\ meta'[n].ini = IF n = movido THEN libre ELSE meta[n].ini
                                /\ meta'[n].tam = meta[n].tam
  BY <1>2 DEF Inv, Restos
<1>4. Vista' = Vista
  BY <1>2, <1>3 DEF Vista, Archivo
<1>5. ASSUME NEW n \in DOMAIN meta
      PROVE  /\ EnCopia(n)' <=> EnCopia(n)
             /\ Tamanio(n)' = Tamanio(n) /\ DatosDesde(n)' = DatosDesde(n)
  <2>1. EnCopia(n)' <=> EnCopia(n)
    BY <1>2 DEF EnCopia, Archivo, Compactando
  <2>2. Tamanio(n)' = Tamanio(n)
    BY <1>2, <1>3 DEF Tamanio
  <2>3. DatosDesde(n)' = DatosDesde(n)
    BY <1>2, <1>3 DEF DatosDesde, Archivo
  <2> QED BY <2>1, <2>2, <2>3
<1>6. ArchivosVistos' = ArchivosVistos
  BY <1>2, <1>4, <1>5, NadaSeVe DEF Vista
<1>7. Hecho' <=> Hecho
  BY <1>2 DEF Hecho
<1> QED BY <1>2, <1>6, <1>7, Callado

\* An answer that writes neither metadata nor bytes.
LEMMA RespuestaCallada ==
  ASSUME Inv, Inv', Termina, meta' = meta, datos' = datos,
         paso \in {"CREATE", "marcar", "TRUNCATE", "WRITE"}
  PROVE  ArchivosVistos' = ArchivosVistos
<1>1. paso' = "espera" /\ op' = Nada
  BY DEF Termina
<1>2. Vista = DOMAIN meta /\ Vista' = DOMAIN meta
  BY <1>1 DEF Vista
<1>3. ASSUME NEW n \in DOMAIN meta
      PROVE  /\ ~ EnCopia(n) /\ ~ EnCopia(n)' /\ Tamanio(n)' = Tamanio(n)
             /\ DatosDesde(n)' = DatosDesde(n)
  BY <1>1 DEF EnCopia, Compactando, Tamanio, DatosDesde
<1>4. /\ Vista' = Vista
      /\ \A n \in Vista : /\ EnCopia(n)' <=> EnCopia(n)
                         /\ IF EnCopia(n)
                              THEN copia' = copia
                              ELSE DatosDesde(n)' = DatosDesde(n) /\ Tamanio(n)' = Tamanio(n)
  BY <1>2, <1>3
<1> QED BY <1>4, NadaSeVe

LEMMA CreaMarcaVisto ==
  ASSUME Inv, Inv', CreaMarca
  PROVE  PasoVisto
<1>1. /\ Termina /\ paso = "marcar" /\ paso' = "espera" /\ op' = Nada /\ meta' = meta
      /\ datos' = datos /\ leido' = leido /\ reinicios' = reinicios
  BY DEF CreaMarca, Termina
<1>2. ArchivosVistos' = ArchivosVistos
  BY <1>1, RespuestaCallada
<1> QED BY <1>1, <1>2, Respondido

\* io_fs_delete: the file was not seen any more.
LEMMA QuitaVisto ==
  ASSUME Inv, Inv', Quita
  PROVE  PasoVisto
<1>1. /\ paso = "quitar" /\ paso' = "espera" /\ op' = Nada /\ datos' = datos
      /\ meta' = [n \in DOMAIN meta \ {op.nombre} |-> meta[n]]
      /\ leido' = leido /\ reinicios' = reinicios
  BY DEF Quita, Termina
<1>2. Vista = DOMAIN meta \ {op.nombre} /\ Vista' = DOMAIN meta \ {op.nombre}
  BY <1>1 DEF Vista, Archivo
<1>3. ASSUME NEW n \in Vista
      PROVE  /\ ~ EnCopia(n) /\ ~ EnCopia(n)' /\ Tamanio(n)' = Tamanio(n)
             /\ DatosDesde(n)' = DatosDesde(n)
  BY <1>1, <1>2 DEF EnCopia, Compactando, Tamanio, DatosDesde
<1>4. ArchivosVistos' = ArchivosVistos
  <2>1. /\ Vista' = Vista
        /\ \A n \in Vista : /\ EnCopia(n)' <=> EnCopia(n)
                           /\ IF EnCopia(n)
                                THEN copia' = copia
                                ELSE DatosDesde(n)' = DatosDesde(n) /\ Tamanio(n)' = Tamanio(n)
    BY <1>2, <1>3
  <2> QED BY <1>1, <2>1, NadaSeVe
<1> QED BY <1>1, <1>4, Respondido

\* The arrival of a request.
LEMMA PedirVisto ==
  ASSUME Inv, Inv', NEW n \in Nombres, Pedir(n)
  PROVE  PasoVisto
<1>1. PICK tipo, t, p :
        /\ tipo \in {"CREATE", "DELETE", "TRUNCATE", "WRITE", "READ"} /\ Pide(tipo, n, t, p)
        /\ \/ tipo \in {"CREATE", "DELETE"} /\ t = 0 /\ p = 0
           \/ tipo = "TRUNCATE" /\ t \in Tamanios /\ p = 0
           \/ tipo \in {"WRITE", "READ"} /\ t \in Largos /\ p \in Punteros
  BY DEF Pedir
<1>2. /\ paso = "espera" /\ op' = [tipo |-> tipo, nombre |-> n, t |-> t, p |-> p]
      /\ leido' = <<>> /\ meta' = meta /\ datos' = datos /\ reinicios' = reinicios
      /\ paso' \in {"caida", tipo} /\ tipo \in {"CREATE", "DELETE", "TRUNCATE", "WRITE", "READ"}
  BY <1>1 DEF Pide, disco
<1>3. Vista = DOMAIN meta /\ Vista' = DOMAIN meta
  BY <1>2 DEF Vista
<1>4. ASSUME NEW m \in DOMAIN meta
      PROVE  /\ ~ EnCopia(m) /\ ~ EnCopia(m)' /\ Tamanio(m)' = Tamanio(m)
             /\ DatosDesde(m)' = DatosDesde(m)
  BY <1>2 DEF EnCopia, Compactando, Tamanio, DatosDesde
<1>5. ArchivosVistos' = ArchivosVistos
  <2>1. /\ Vista' = Vista
        /\ \A m \in Vista : /\ EnCopia(m)' <=> EnCopia(m)
                           /\ IF EnCopia(m)
                                THEN copia' = copia
                                ELSE DatosDesde(m)' = DatosDesde(m) /\ Tamanio(m)' = Tamanio(m)
    BY <1>3, <1>4
  <2> QED BY <1>2, <2>1, NadaSeVe
<1>6. op = Promesa!Nada /\ op' \in Promesa!Pedidos
  BY <1>1, <1>2 DEF Inv, Pedido, Nada, Promesa!Nada, Promesa!Pedidos
<1>7. Hecho' = Hecho /\ paso # "inservible" /\ paso' # "inservible"
  BY <1>2 DEF Hecho
<1> QED BY <1>2, <1>5, <1>6, <1>7 DEF PasoVisto, Promesa!Next, Promesa!Pedir

\* iniciar_file_system: the files are those of the metadata.
LEMMA ReiniciaVisto ==
  ASSUME Compactando \cup {"ampliar"} \subseteq SinCorte, Inv, Inv', Pedida, Reinicia
  PROVE  PasoVisto
<1>1. PICK nm : nm = op.nombre
  OBVIOUS
<1>2. /\ paso \notin Compactando /\ paso' = "espera" /\ op' = Nada /\ datos' = datos
      /\ meta' = meta /\ leido' = <<>> /\ reinicios' = reinicios + 1
  BY DEF Reinicia, Termina
<1>3. Vista \ {nm} = DOMAIN meta \ {nm} /\ Vista' = DOMAIN meta
  BY <1>1, <1>2 DEF Vista, Archivo
<1>4. ASSUME NEW n \in DOMAIN meta, n # nm \/ paso \in {"espera", "READ"}
      PROVE  Visto(n)' = Visto(n)
  <2>1. /\ ~ EnCopia(n) /\ ~ EnCopia(n)' /\ Tamanio(n)' = Tamanio(n)
        /\ DatosDesde(n)' = DatosDesde(n)
    BY <1>1, <1>2, <1>4 DEF EnCopia, Compactando, Tamanio, DatosDesde, Archivo
  <2> QED BY <1>2, <2>1, VistoIgual
<1>5. Hecho' = FALSE /\ (paso' # "inservible") = (paso # "inservible") /\ paso # "inservible"
  BY <1>2, Sirve DEF Hecho
<1>6. CASE paso \in {"espera", "READ"}
  <2>1. Vista = DOMAIN meta /\ op.tipo \in {"NADA", "READ"}
    <3>1. Vista = DOMAIN meta
      BY <1>6 DEF Vista
    <3>2. op.tipo \in {"NADA", "READ"}
      BY <1>6 DEF Inv, Pedido, Pedida, Nada
    <3> QED BY <3>1, <3>2
  <2>2. ArchivosVistos' = ArchivosVistos
    BY <1>3, <1>4, <1>6, <2>1, VistosIguales
  <2> QED BY <1>2, <1>5, <2>1, <2>2 DEF PasoVisto, Promesa!Next, Promesa!Reiniciar, Nada,
             Promesa!Nada
<1>7. CASE paso \notin {"espera", "READ"}
  <2>1. op.tipo \notin {"NADA", "READ"}
    BY <1>2, <1>5, <1>7 DEF Inv, Pedido, Pedida, Pasos
  <2>2. Promesa!Sin(ArchivosVistos', nm) = Promesa!Sin(ArchivosVistos, nm)
    BY <1>3, <1>4, SinVisto
  <2> QED BY <1>1, <1>2, <1>5, <2>1, <2>2 DEF PasoVisto, Promesa!Next, Promesa!Reiniciar, Nada,
             Promesa!Nada
<1> QED BY <1>6, <1>7

\* Killed while a metadata file is empty: the interface is lost, and its files with it.
LEMMA QuedaVacioVisto ==
  ASSUME Inv, Pedida, QuedaVacio
  PROVE  PasoVisto
<1>1. /\ op' = Nada /\ paso' = "inservible" /\ leido' = <<>> /\ reinicios' = reinicios + 1
  BY DEF QuedaVacio
<1>2. op.tipo \in {"CREATE", "TRUNCATE"} /\ paso # "inservible"
  BY DEF QuedaVacio, GuardaMeta, Pedida, Compactando
<1>3. ArchivosVistos' = [n \in {} |-> <<>>]
  BY <1>1 DEF ArchivosVistos
<1>4. Hecho' = FALSE /\ (paso' # "inservible") = FALSE
  BY <1>1 DEF Hecho
<1> QED BY <1>1, <1>2, <1>3, <1>4 DEF PasoVisto, Promesa!Next, Promesa!Perder, Nada, Promesa!Nada

\* The files after a step that takes one of them away.
LEMMA SinMas ==
  ASSUME Inv, Inv', NEW nm, Vista' = Vista \ {nm}, \A n \in Vista \ {nm} : Visto(n)' = Visto(n)
  PROVE  ArchivosVistos' = Promesa!Sin(ArchivosVistos, nm)
<1>1. ArchivosVistos = [n \in Vista |-> Visto(n)]
  BY VistosDe
<1>2. ArchivosVistos' = [n \in Vista' |-> Visto(n)']
  BY VistaDespues DEF VistaFiel
<1> QED BY <1>1, <1>2 DEF Promesa!Sin

\* A request in progress takes effect, before its answer or with it.
LEMMA Efectua ==
  ASSUME Inv, Inv', NEW tipo, op.tipo = tipo, ~ Hecho, reinicios' = reinicios,
         (Hecho' /\ op' = op) \/ (~ Hecho' /\ op' = Nada)
  PROVE  Promesa!Efecto(tipo)
<1>1. (paso' # "inservible") = (paso # "inservible")
  BY Sirve, SirveDespues
<1>2. Hecho' \in BOOLEAN
  BY DEF Hecho
<1> QED BY <1>1, <1>2 DEF Nada, Promesa!Nada, Promesa!Efecto

\* The request cuts its file or fills it with zeros.
LEMMA Truncado ==
  ASSUME Inv, Inv', op.tipo = "TRUNCATE", ~ Hecho,
         (Hecho' /\ op' = op) \/ (~ Hecho' /\ op' = Nada), reinicios' = reinicios, leido' = leido,
         NEW nm \in Vista, nm = op.nombre, Vista' = Vista,
         \A n \in Vista \ {nm} : Visto(n)' = Visto(n),
         Visto(nm)' = Promesa!Ajustado(Visto(nm), op.t)
  PROVE  PasoVisto
<1>1. Promesa!Efecto("TRUNCATE")
  BY Efectua
<1>2. ArchivosVistos = [n \in Vista |-> Visto(n)]
  BY VistosDe
<1>3. ArchivosVistos' = Promesa!Con(ArchivosVistos, nm, Visto(nm)')
  <2>1. Vista' = Vista \cup {nm}
    OBVIOUS
  <2> QED BY <2>1, ConVisto
<1>4. Promesa!Existe /\ Promesa!Contenido = Visto(nm)
  BY <1>2 DEF Promesa!Existe, Promesa!Contenido
<1>5. ArchivosVistos' =
        Promesa!Con(ArchivosVistos, op.nombre, Promesa!Ajustado(Promesa!Contenido, op.t))
  BY <1>3, <1>4
<1> QED BY <1>1, <1>4, <1>5 DEF PasoVisto, Promesa!Next, Promesa!Truncar

\* What Visto says of a file that is in the file of blocks.
LEMMA VistoEnDisco ==
  ASSUME Inv, NEW n \in DOMAIN meta, ~ EnCopia(n), NEW q \in Nat, q = DatosDesde(n) * BlockSize,
         NEW t \in Nat, t = Tamanio(n), q + t <= BlockCount * BlockSize
  PROVE  /\ Visto(n) = [i \in 1..t |-> datos[q + i - 1]]
         /\ Visto(n) \in Seq(Valores \cup {0}) /\ Len(Visto(n)) = t
<1>1. Visto(n) = Leidos(q, t)
  BY VistoDe
<1>2. BlockCount * BlockSize \in Nat
  BY DialfsAssumption
<1>3. \A i \in 1..t : q + i - 1 \in Bytes
  BY <1>2 DEF Bytes
<1>4. Leidos(q, t) = [i \in 1..t |-> datos[q + i - 1]]
  BY <1>3 DEF Leidos
<1>5. Leidos(q, t) \in Seq(Valores \cup {0}) /\ Len(Leidos(q, t)) = t
  BY LeidosTipo DEF Inv, Restos
<1> QED BY <1>1, <1>4, <1>5

VistaEnDisco ==
    \A n \in DOMAIN meta : ~ EnCopia(n) =>
      \A q \in Nat : \A t \in Nat :
        q = DatosDesde(n) * BlockSize /\ t = Tamanio(n) /\ q + t <= BlockCount * BlockSize
          => /\ Visto(n) = [i \in 1..t |-> datos[q + i - 1]]
             /\ Visto(n) \in Seq(Valores \cup {0}) /\ Len(Visto(n)) = t

\* A file seen in the file of blocks, byte by byte.
LEMMA EnDiscoAntes == Inv => VistaEnDisco
BY VistoEnDisco DEF VistaEnDisco

LEMMA EnDiscoDespues == Inv' => VistaEnDisco'
BY EnDiscoAntes, PTL

\* Where the bytes of a file are while the request has not moved it.
LEMMA SuLugar ==
  ASSUME Inv, NEW n \in DOMAIN meta
  PROVE  /\ meta[n].ini * BlockSize \in Nat /\ meta[n].tam \in Nat
         /\ meta[n].ini * BlockSize + meta[n].tam <= BlockCount * BlockSize
BY Medidas, EnElDisco

\* A file that is there, that has no room to grow, or that is shorter than what is written.
LEMMA RechazoVisto ==
  ASSUME Inv, Inv', Pedida, CreaExistente \/ AmpliaSinLugar \/ EscribeSinLugar
  PROVE  PasoVisto
<1>1. PICK nm : nm = op.nombre
  OBVIOUS
<1>2. /\ Termina /\ paso \in {"CREATE", "TRUNCATE", "WRITE"} /\ paso' = "espera" /\ op' = Nada
      /\ meta' = meta /\ datos' = datos /\ leido' = leido /\ reinicios' = reinicios
  BY DEF CreaExistente, AmpliaSinLugar, Amplia, EscribeSinLugar, Termina, disco
<1>3. ArchivosVistos' = ArchivosVistos
  BY <1>2, RespuestaCallada
<1>4. nm \in DOMAIN meta /\ Vista = DOMAIN meta
  BY <1>1, <1>2 DEF CreaExistente, AmpliaSinLugar, Amplia, EscribeSinLugar, Inv, Pedido,
     ConArchivo, Archivo, Vista
<1>5. nm \in DOMAIN ArchivosVistos /\ ArchivosVistos[nm] = Visto(nm)
  BY <1>4, VistosDe
<1>6. Len(Visto(nm)) = meta[nm].tam
  <2>1. PICK q \in Nat, t \in Nat :
          q = meta[nm].ini * BlockSize /\ t = meta[nm].tam /\ q + t <= BlockCount * BlockSize
    BY <1>4, SuLugar
  <2>2. q = DatosDesde(nm) * BlockSize /\ t = Tamanio(nm) /\ ~ EnCopia(nm)
    BY <1>2, <2>1 DEF EnCopia, Compactando, DatosDesde, Tamanio
  <2> QED BY <1>4, <2>1, <2>2, VistoEnDisco
<1>7. CASE paso = "CREATE"
  <2>1. op.tipo = "CREATE"
    BY <1>7 DEF Pedida
  <2> QED BY <1>1, <1>2, <1>3, <1>5, <2>1, Rechazado
<1>8. CASE paso # "CREATE"
  <2>1. A = nm
    <3>1. Listados /\ Archivo \in DOMAIN meta
      BY <1>1, <1>4 DEF Archivo, Inv
    <3> QED BY <1>1, <3>1, Hallado
  <2>2. meta[nm].tam \in Nat /\ op.t \in Nat /\ op.p \in Nat
    BY <1>4, Medidas DEF Inv, Pedido
  <2>3. \/ op.tipo = "TRUNCATE" /\ op.t > meta[nm].tam
        \/ op.tipo = "WRITE" /\ op.p + op.t > meta[nm].tam
    BY <1>8, <2>1, <2>2 DEF CreaExistente, AmpliaSinLugar, Amplia, EscribeSinLugar, Pedida, Actual
  <2> QED BY <1>1, <1>2, <1>3, <1>5, <1>6, <2>3, Rechazado
<1> QED BY <1>7, <1>8

\* io_fs_create: the new file is empty and no other changes.
LEMMA CreaVisto ==
  ASSUME Inv, Inv', Pedida, Crea
  PROVE  PasoVisto
<1>1. PICK nm : nm = op.nombre /\ nm # Nadie
  BY DEF Inv, Pedido, Crea
<1>2. /\ paso = "CREATE" /\ paso' = "marcar" /\ op' = op /\ datos' = datos
      /\ nm \notin DOMAIN meta /\ leido' = leido /\ reinicios' = reinicios
      /\ meta' = [n \in DOMAIN meta \cup {nm} |->
                    IF n = nm THEN [ini |-> libre', tam |-> 0] ELSE meta[n]]
  BY <1>1 DEF Crea, Sigue
<1>3. Vista = DOMAIN meta /\ Vista' = DOMAIN meta \cup {nm}
  BY <1>2 DEF Vista
<1>4. ASSUME NEW n \in Vista PROVE Visto(n)' = Visto(n)
  <2>1. /\ n \in DOMAIN meta /\ n \in DOMAIN meta' /\ n # nm /\ meta'[n] = meta[n]
    BY <1>2, <1>3, <1>4
  <2>2. /\ ~ EnCopia(n) /\ ~ EnCopia(n)' /\ Tamanio(n)' = Tamanio(n)
        /\ DatosDesde(n)' = DatosDesde(n)
    BY <1>2, <2>1 DEF EnCopia, Compactando, Tamanio, DatosDesde
  <2> QED BY <1>2, <2>1, <2>2, VistoIgual
<1>5. Visto(nm)' = <<>>
  <2>1. nm \in DOMAIN meta' /\ ~ EnCopia(nm)' /\ Tamanio(nm)' = 0
    BY <1>2 DEF EnCopia, Compactando, Tamanio
  <2>2. Visto(nm)' = Leidos(DatosDesde(nm) * BlockSize, Tamanio(nm))'
    BY <2>1, VistaDespues DEF VistaFiel
  <2>3. DOMAIN Visto(nm)' = 1..0
    BY <2>1, <2>2 DEF Leidos
  <2>4. Visto(nm)' = [i \in 1..0 |-> Visto(nm)'[i]]
    BY <2>1, <2>2 DEF Leidos
  <2> QED BY <2>4
<1>6. ArchivosVistos' = Promesa!Con(ArchivosVistos, nm, <<>>)
  BY <1>3, <1>4, <1>5, ConVisto
<1>7. nm \notin DOMAIN ArchivosVistos
  BY <1>2, <1>3, VistosDe
<1>8. Promesa!Efecto("CREATE")
  BY <1>2, Efectua DEF Hecho, Pedida
<1> QED BY <1>1, <1>2, <1>6, <1>7, <1>8 DEF PasoVisto, Promesa!Next, Promesa!Crear, Promesa!Existe

\* A step that writes only on the bytes of the file of the request, none of them moved.
LEMMA OtrosIguales ==
  ASSUME Inv, Inv', paso \notin Compactando, DOMAIN meta' = DOMAIN meta, NEW nm, nm = op.nombre,
         nm \in DOMAIN meta, paso \notin {"soltar", "achicar"}, op' \in {op, Nada},
         paso' \in {"borrar", "soltar", "retirar", "espera"},
         \A x \in Bytes : x \notin Tramo(meta[nm].ini * BlockSize, meta[nm].tam)
                            => datos'[x] = datos[x],
         \A n \in DOMAIN meta \ {nm} : meta'[n] = meta[n]
  PROVE  \A n \in DOMAIN meta \ {nm} : Visto(n)' = Visto(n)
<1> SUFFICES ASSUME NEW n \in DOMAIN meta \ {nm} PROVE Visto(n)' = Visto(n)
  OBVIOUS
<1>1. /\ ~ EnCopia(n) /\ ~ EnCopia(n)' /\ Tamanio(n)' = Tamanio(n) /\ Tamanio(n) = meta[n].tam
      /\ DatosDesde(n)' = DatosDesde(n) /\ DatosDesde(n) = meta[n].ini
  <2>1. n # Nadie
    BY DialfsAssumption DEF Inv, Restos
  <2>2. n # op'.nombre /\ n # op.nombre
    BY <2>1 DEF Nada
  <2>3. ~ EnCopia(n) /\ ~ EnCopia(n)'
    BY <2>2 DEF EnCopia, Archivo
  <2>4. Tamanio(n)' = Tamanio(n) /\ Tamanio(n) = meta[n].tam
    BY <2>2 DEF Tamanio, Archivo
  <2>5. DatosDesde(n)' = DatosDesde(n) /\ DatosDesde(n) = meta[n].ini
    BY <2>2 DEF DatosDesde, Archivo, Compactando
  <2> QED BY <2>3, <2>4, <2>5
<1>2. paso \notin Fuera
  BY DEF Fuera, Compactando
<1>3. \A x \in Bytes : x \in Tramo(DatosDesde(n) * BlockSize, Tamanio(n)) => datos'[x] = datos[x]
  BY <1>1, <1>2, OtrosBytes
<1> QED BY <1>1, <1>3, VistoIgual

\* io_fs_delete: the file stops being seen and no other changes.
LEMMA BorraDatosVisto ==
  ASSUME Inv, Inv', Pedida, BorraDatos
  PROVE  PasoVisto
<1>1. PICK nm : nm = op.nombre /\ nm \in DOMAIN meta /\ A = nm
  BY Hallado DEF Inv, Pedido, ConArchivo, Archivo, BorraDatos
<1>2. /\ paso = "DELETE" /\ paso' = "borrar" /\ op' = op /\ meta' = meta
      /\ leido' = leido /\ reinicios' = reinicios
      /\ datos' = Limpio(datos, meta[nm].ini * BlockSize, meta[nm].tam)
  BY <1>1 DEF BorraDatos, Sigue, ByteInicial, Inicial, Actual
<1>3. Vista = DOMAIN meta /\ Vista' = DOMAIN meta \ {nm}
  BY <1>1, <1>2 DEF Vista, Archivo
<1>4. \A x \in Bytes : x \notin Tramo(meta[nm].ini * BlockSize, meta[nm].tam)
                         => datos'[x] = datos[x]
  BY <1>2, LimpioTipo DEF Inv, Restos
<1>5. \A n \in DOMAIN meta \ {nm} : Visto(n)' = Visto(n)
  BY <1>1, <1>2, <1>4, OtrosIguales DEF Compactando
<1>6. ArchivosVistos' = Promesa!Sin(ArchivosVistos, nm)
  BY <1>3, <1>5, SinMas
<1>7. nm \in DOMAIN ArchivosVistos
  BY <1>1, <1>3, VistosDe
<1>8. Promesa!Efecto("DELETE")
  BY <1>2, Efectua DEF Hecho, Pedida
<1> QED BY <1>1, <1>2, <1>6, <1>7, <1>8 DEF PasoVisto, Promesa!Next, Promesa!Borrar, Promesa!Existe

\* io_fs_truncate: the file keeps its first bytes.
LEMMA AchicaDatosVisto ==
  ASSUME Inv, Inv', Pedida, AchicaDatos
  PROVE  PasoVisto
<1>1. PICK nm : nm = op.nombre /\ nm \in DOMAIN meta /\ A = nm
  BY Hallado DEF Inv, Pedido, ConArchivo, Archivo, AchicaDatos
<1>2. /\ paso = "TRUNCATE" /\ paso' = "soltar" /\ op' = op /\ meta' = meta
      /\ leido' = leido /\ reinicios' = reinicios /\ ~ (meta[nm].tam < op.t)
      /\ datos' = Limpio(datos, meta[nm].ini * BlockSize + op.t, meta[nm].tam - op.t)
  BY <1>1 DEF AchicaDatos, Sigue, ByteInicial, Inicial, Actual
<1>3. PICK q \in Nat, t \in Nat, u \in Nat :
        /\ q = meta[nm].ini * BlockSize /\ t = meta[nm].tam /\ u = op.t
        /\ q + t <= BlockCount * BlockSize
  BY <1>1, Medidas, SuLugar
<1>4. u <= t /\ q + u \in Nat /\ t - u \in Nat /\ q + u <= BlockCount * BlockSize
  <2>1. BlockCount * BlockSize \in Nat
    BY DialfsAssumption
  <2> QED BY <1>2, <1>3, <2>1
<1>5. \A x \in Bytes : x \notin Tramo(q + u, t - u) => datos'[x] = datos[x]
  <2>1. datos' = Limpio(datos, q + u, t - u)
    BY <1>2, <1>3
  <2> QED BY <2>1, LimpioTipo DEF Inv, Restos
<1>6. Vista = DOMAIN meta /\ Vista' = DOMAIN meta
  BY <1>2 DEF Vista
<1>7. \A n \in DOMAIN meta \ {nm} : Visto(n)' = Visto(n)
  <2>1. \A x \in Bytes : x \notin Tramo(q, t) => datos'[x] = datos[x]
    BY <1>4, <1>5 DEF Tramo
  <2> QED BY <1>1, <1>2, <1>3, <2>1, OtrosIguales DEF Compactando
<1>8. Visto(nm)' = Promesa!Ajustado(Visto(nm), op.t)
  <2>1. /\ ~ EnCopia(nm) /\ DatosDesde(nm) = meta[nm].ini /\ Tamanio(nm) = t
        /\ ~ EnCopia(nm)' /\ DatosDesde(nm)' = meta[nm].ini /\ Tamanio(nm)' = u
    BY <1>1, <1>2, <1>3 DEF EnCopia, Compactando, DatosDesde, Tamanio, Archivo
  <2>2. Visto(nm) = [i \in 1..t |-> datos[q + i - 1]] /\ Len(Visto(nm)) = t
    BY <1>1, <1>3, <2>1, VistoEnDisco
  <2>3. Visto(nm)' = [i \in 1..u |-> datos'[q + i - 1]]
    <3>1. nm \in DOMAIN meta' /\ q = DatosDesde(nm)' * BlockSize
      BY <1>1, <1>2, <1>3, <2>1
    <3> QED BY <1>4, <2>1, <3>1, EnDiscoDespues DEF VistaEnDisco
  <2>4. ASSUME NEW i \in 1..u PROVE i <= t /\ datos'[q + i - 1] = Visto(nm)[i]
    <3>1. BlockCount * BlockSize \in Nat
      BY DialfsAssumption
    <3>2. i \in 1..t /\ q + i - 1 \in Bytes /\ q + i - 1 \notin Tramo(q + u, t - u)
      BY <1>3, <1>4, <3>1 DEF Bytes, Tramo
    <3> QED BY <1>5, <2>2, <3>2
  <2> QED BY <1>3, <2>2, <2>3, <2>4 DEF Promesa!Ajustado
<1>9. op.tipo = "TRUNCATE" /\ ~ Hecho /\ Hecho'
  BY <1>2 DEF Pedida, Hecho
<1> QED BY <1>1, <1>2, <1>6, <1>7, <1>8, <1>9, Truncado

\* compactar_file_system: the file is seen in its copy.
LEMMA CompactaCopiaVisto ==
  ASSUME Inv, Inv', CompactaCopia
  PROVE  PasoVisto
<1>1. PICK nm : nm = op.nombre /\ nm \in DOMAIN meta /\ A = nm
  BY Hallado DEF Inv, Pedido, ConArchivo, Archivo, CompactaCopia, Amplia
<1>2. /\ paso = "TRUNCATE" /\ paso' = "retirar" /\ op' = op /\ meta' = meta
      /\ leido' = leido /\ reinicios' = reinicios
      /\ copia' = Leidos(meta[nm].ini * BlockSize, meta[nm].tam)
      /\ datos' = Limpio(datos, meta[nm].ini * BlockSize, meta[nm].tam)
  BY <1>1 DEF CompactaCopia, Amplia, Sigue, ByteInicial, Inicial, Actual
<1>3. Vista = DOMAIN meta /\ Vista' = DOMAIN meta
  BY <1>2 DEF Vista
<1>4. \A x \in Bytes : x \notin Tramo(meta[nm].ini * BlockSize, meta[nm].tam)
                         => datos'[x] = datos[x]
  BY <1>2, LimpioTipo DEF Inv, Restos
<1>5. \A n \in DOMAIN meta \ {nm} : Visto(n)' = Visto(n)
  BY <1>1, <1>2, <1>4, OtrosIguales DEF Compactando
<1>6. Visto(nm)' = Visto(nm)
  <2>1. /\ ~ EnCopia(nm) /\ DatosDesde(nm) = meta[nm].ini /\ Tamanio(nm) = meta[nm].tam
        /\ EnCopia(nm)' /\ nm \in DOMAIN meta'
    BY <1>1, <1>2 DEF EnCopia, Compactando, DatosDesde, Tamanio, Archivo
  <2>2. Visto(nm)' = copia'
    BY <2>1, VistaDespues DEF VistaFiel
  <2>3. Visto(nm) = Leidos(meta[nm].ini * BlockSize, meta[nm].tam)
    BY <1>1, <2>1, VistoDe
  <2> QED BY <1>2, <2>2, <2>3
<1>7. ArchivosVistos' = ArchivosVistos
  BY <1>3, <1>5, <1>6, VistosIguales
<1>8. Hecho' <=> Hecho
  BY <1>2 DEF Hecho
<1> QED BY <1>2, <1>7, <1>8, Callado

\* The bytes a file gains are of its blocks and zero.
LEMMA CerosDeMas ==
  ASSUME Inv, paso \in {"ampliar", "reubicar"}, NEW nm, nm = op.nombre,
         NEW q \in Nat, q = DatosDesde(nm) * BlockSize
  PROVE  /\ nm \in DOMAIN meta /\ q + op.t <= BlockCount * BlockSize
         /\ \A x \in Bytes : x >= q + meta[nm].tam /\ x < q + op.t => datos[x] = 0
<1>1. nm \in DOMAIN meta /\ meta[nm].tam < op.t
  BY DEF Inv, Pedido, ConArchivo, Compactando, Archivo
<1>2. \A n \in DOMAIN meta :
        /\ DatosDesde(n) = Desde(n)
        /\ Marcados(n) = IF n = nm THEN BloquesNuevos ELSE Cuantos(n)
        /\ ConDatos(n) = meta[n].tam
  BY DEF DatosDesde, Desde, Marcados, ConDatos, Archivo
<1>3. \A n \in DOMAIN meta : Desde(n) \in Nat
  <2>1. libre \in Nat /\ \A n \in DOMAIN meta : meta[n].ini \in Nat
    BY Medidas, Bits DEF Inv, Restos
  <2> QED BY <2>1 DEF Desde
<1>4. op.t <= BloquesNuevos * BlockSize /\ op.t \in Nat /\ BloquesNuevos \in Nat
  BY Medidas, BloquesDeBytes DEF BloquesNuevos
<1>5. q + op.t <= BlockCount * BlockSize
  <2>1. Desde(nm) + BloquesNuevos <= MaxBit
    BY <1>1, <1>2 DEF Inv, Geometria
  <2> QED BY <1>1, <1>2, <1>3, <1>4, <2>1, EnElDisco
<1>6. ASSUME NEW x \in Bytes, x >= q + meta[nm].tam, x < q + op.t, datos[x] # 0 PROVE FALSE
  <2>1. PICK n \in DOMAIN meta : x \in Tramo(DatosDesde(n) * BlockSize, meta[n].tam)
    BY <1>2, <1>6 DEF Inv, Ceros
  <2>2. PICK t \in Nat : t = meta[nm].tam
    BY <1>1, Medidas
  <2>3. x \in Nat
    BY DialfsAssumption DEF Bytes
  <2>4. x \notin Tramo(q, t)
    BY <1>6, <2>2, <2>3, TramoMiembro
  <2>5. n # nm
    BY <2>1, <2>2, <2>4
  <2>6. Marcados(nm) >= 1 /\ Marcados(n) >= 1 /\ Marcados(n) \in Nat
    BY <1>1, <1>2, <2>5, Medidas
  <2>7. Aparte(Desde(nm), BloquesNuevos, Desde(n), Cuantos(n))
    BY <1>1, <1>2, <2>5, <2>6, Medidas DEF Inv, Apartados, Fuera
  <2>8. x \in Tramo(q, op.t)
    <3>1. q <= x
      BY <1>6, <2>2, <2>3
    <3> QED BY <1>4, <1>6, <2>3, <3>1, TramoMiembro
  <2>9. meta[n].tam \in Nat /\ Cuantos(n) \in Nat /\ meta[n].tam <= Cuantos(n) * BlockSize
    BY Medidas
  <2> QED BY <1>1, <1>2, <1>3, <1>4, <2>1, <2>7, <2>8, <2>9, BytesAparte
<1> QED BY <1>1, <1>5, <1>6

\* The t bytes of c are in d from q on, and zeros follow them up to the byte u.
ConCeros(c, t, u, q, d) ==
    /\ q + u <= BlockCount * BlockSize
    /\ \A i \in 1..t : c[i] = d[q + i - 1]
    /\ \A x \in Bytes : x >= q + t /\ x < q + u => d[x] = 0

\* What was there, and zeros after it.
LEMMA Rellenado ==
  ASSUME NEW c, NEW t \in Nat, NEW u \in Nat, NEW q \in Nat, NEW d, ConCeros(c, t, u, q, d)
  PROVE  \A i \in 1..u : d[q + i - 1] = IF i <= t THEN c[i] ELSE 0
<1> SUFFICES ASSUME NEW i \in 1..u PROVE d[q + i - 1] = IF i <= t THEN c[i] ELSE 0
  OBVIOUS
<1>1. CASE i <= t
  <2>1. i \in 1..t
    BY <1>1
  <2> QED BY <1>1, <2>1 DEF ConCeros
<1>2. CASE ~ (i <= t)
  <2>1. BlockCount * BlockSize \in Nat
    BY DialfsAssumption
  <2>2. q + i - 1 \in Bytes /\ q + i - 1 >= q + t /\ q + i - 1 < q + u
    BY <1>2, <2>1 DEF Bytes, ConCeros
  <2> QED BY <1>2, <2>2 DEF ConCeros
<1> QED BY <1>1, <1>2

\* io_fs_truncate: the bytes that the file gains are zeros.
LEMMA GuardaTamanioVisto ==
  ASSUME Inv, Inv', Pedida, GuardaTamanio
  PROVE  PasoVisto
<1>1. PICK nm : nm = op.nombre /\ nm \in DOMAIN meta /\ A = nm
  BY Hallado DEF Inv, Pedido, ConArchivo, Archivo, GuardaTamanio
<1>2. /\ paso \in {"ampliar", "achicar"} /\ paso' = "espera" /\ op' = Nada /\ datos' = datos
      /\ leido' = leido /\ reinicios' = reinicios /\ meta' = [meta EXCEPT ![nm].tam = op.t]
  BY <1>1 DEF GuardaTamanio, Termina
<1>3. /\ DOMAIN meta' = DOMAIN meta
      /\ \A n \in DOMAIN meta : /\ meta'[n].ini = meta[n].ini
                                /\ meta'[n].tam = IF n = nm THEN op.t ELSE meta[n].tam
  BY <1>2 DEF Inv, Restos
<1>4. Vista = DOMAIN meta /\ Vista' = DOMAIN meta
  BY <1>2, <1>3 DEF Vista
<1>5. \A n \in DOMAIN meta :
        /\ ~ EnCopia(n) /\ ~ EnCopia(n)'
        /\ DatosDesde(n) = meta[n].ini /\ DatosDesde(n)' = meta[n].ini
        /\ Tamanio(n)' = IF n = nm THEN op.t ELSE meta[n].tam
        /\ Tamanio(n) = IF n = nm /\ paso = "achicar" THEN op.t ELSE meta[n].tam
  BY <1>1, <1>2, <1>3 DEF EnCopia, Compactando, DatosDesde, Tamanio, Archivo
<1>6. ASSUME NEW n \in DOMAIN meta, n # nm \/ paso = "achicar" PROVE Visto(n)' = Visto(n)
  BY <1>2, <1>3, <1>5, <1>6, VistoIgual
<1>7. CASE paso = "achicar"
  <2>1. ArchivosVistos' = ArchivosVistos
    BY <1>4, <1>6, <1>7, VistosIguales
  <2> QED BY <1>2, <1>7, <2>1, Respondido
<1>8. CASE paso = "ampliar"
  <2>1. PICK q \in Nat, t \in Nat, u \in Nat :
          q = meta[nm].ini * BlockSize /\ t = meta[nm].tam /\ u = op.t
          /\ q + t <= BlockCount * BlockSize
    BY <1>1, Medidas, SuLugar
  <2>2. t <= u
    BY <1>1, <1>8, <2>1 DEF Inv, Pedido, Archivo
  <2>3. /\ q + u <= BlockCount * BlockSize
        /\ \A x \in Bytes : x >= q + t /\ x < q + u => datos[x] = 0
    BY <1>1, <1>5, <1>8, <2>1, CerosDeMas
  <2>4. Visto(nm) = [i \in 1..t |-> datos[q + i - 1]] /\ Len(Visto(nm)) = t
    <3>1. q = DatosDesde(nm) * BlockSize /\ t = Tamanio(nm) /\ ~ EnCopia(nm)
      BY <1>1, <1>5, <1>8, <2>1
    <3> QED BY <1>1, <2>1, <3>1, VistoEnDisco
  <2>5. Visto(nm)' = [i \in 1..u |-> datos[q + i - 1]]
    <3>1. /\ nm \in DOMAIN meta' /\ ~ EnCopia(nm)'
          /\ q = DatosDesde(nm)' * BlockSize /\ u = Tamanio(nm)'
      BY <1>1, <1>3, <1>5, <2>1
    <3> QED BY <1>2, <2>3, <3>1, EnDiscoDespues DEF VistaEnDisco
  <2>6. Visto(nm)' = Promesa!Ajustado(Visto(nm), op.t)
    <3>1. ConCeros(Visto(nm), t, u, q, datos)
      BY <2>3, <2>4 DEF ConCeros
    <3>2. \A i \in 1..u : datos[q + i - 1] = IF i <= t THEN Visto(nm)[i] ELSE 0
      BY <3>1, Rellenado
    <3>3. Len(Visto(nm)) = t
      BY <2>4
    <3> QED BY <2>1, <2>5, <3>2, <3>3 DEF Promesa!Ajustado
  <2>7. op.tipo = "TRUNCATE" /\ ~ Hecho /\ ~ Hecho'
    BY <1>2, <1>8 DEF Pedida, Hecho
  <2> QED BY <1>1, <1>2, <1>4, <1>6, <2>6, <2>7, Truncado
<1> QED BY <1>2, <1>7, <1>8

\* Nothing of a file with bits is at the blocks f, ..., f + k - 1 when it has none from f on,
\* or has none between f and b and none of b, ..., b + k - 1.
LEMMA AparteDelHueco ==
  ASSUME NEW f \in Nat, NEW b \in Nat, f < b, NEW k \in Nat,
         NEW j \in Nat, NEW l \in Nat, l >= 1, Aparte(b, k, j, l),
         \A x \in Nat : j <= x /\ x < j + l => ~ (f <= x /\ x < b)
  PROVE  Aparte(f, k, j, l)
<1>1. CASE b + k <= j
  BY <1>1 DEF Aparte
<1>2. CASE j + l <= b
  <2> SUFFICES ASSUME j + l > f PROVE FALSE
    BY DEF Aparte
  <2>1. /\ j + l - 1 \in Nat /\ j <= j + l - 1 /\ j + l - 1 < j + l
        /\ f <= j + l - 1 /\ j + l - 1 < b
    BY <1>2
  <2> QED BY <2>1
<1> QED BY <1>1, <1>2 DEF Aparte

\* compactar_file_system: the file that moves keeps its bytes, and writes over no other.
LEMMA CompactaDatosVisto ==
  ASSUME Inv, Inv', CompactaDatos
  PROVE  PasoVisto
<1>1. PICK nm : nm = op.nombre
  OBVIOUS
<1>2. PICK f \in Nat, b \in Nat : \E n \in DOMAIN meta \ {nm} : Muda(f, b, n)
  BY <1>1, Mudado
<1>3. PICK m \in DOMAIN meta \ {nm} : Muda(f, b, m)
  BY <1>2
<1>4. /\ paso = "compactar" /\ paso' = "mover" /\ op' = op /\ meta' = meta
      /\ movido = Nadie /\ copia' = copia /\ nm \in DOMAIN meta
      /\ libre' = f /\ movido' = m /\ meta[m].ini = b /\ b > f
      /\ \A x \in bitmap : x >= f => b <= x
      /\ datos' = Copiado(Limpio(datos, b * BlockSize, meta[m].tam), f * BlockSize,
                          Leidos(b * BlockSize, meta[m].tam))
      /\ Leidos(b * BlockSize, meta[m].tam) \in Seq(Valores \cup {0})
      /\ Len(Leidos(b * BlockSize, meta[m].tam)) = meta[m].tam
      /\ \A x \in Bytes :
           x \notin Tramo(f * BlockSize, meta[m].tam) =>
             datos'[x] = IF x \in Tramo(b * BlockSize, meta[m].tam) THEN 0 ELSE datos[x]
  BY <1>1, <1>3 DEF Muda
<1>5. leido' = leido /\ reinicios' = reinicios
  BY DEF CompactaDatos
<1>6. Vista = DOMAIN meta /\ Vista' = DOMAIN meta
  BY <1>4 DEF Vista
<1>7. \A n \in DOMAIN meta :
        /\ EnCopia(n) <=> n = nm
        /\ EnCopia(n)' <=> n = nm
        /\ DatosDesde(n) = meta[n].ini
        /\ DatosDesde(n)' = IF n = m THEN f ELSE meta[n].ini
        /\ Tamanio(n) = meta[n].tam /\ Tamanio(n)' = meta[n].tam
  BY <1>1, <1>4 DEF EnCopia, Compactando, DatosDesde, Tamanio, Archivo
<1>8. PICK t \in Nat, k \in Nat : /\ t = meta[m].tam /\ k = Cuantos(m) /\ t <= k * BlockSize
                                  /\ b + k <= MaxBit /\ k >= 1
  BY <1>4, Medidas
<1>9. Visto(nm)' = Visto(nm)
  BY <1>4, <1>7, CopiaIgual
<1>10. ASSUME NEW n \in DOMAIN meta \ {nm, m} PROVE Visto(n)' = Visto(n)
  <2>1. PICK j \in Nat, l \in Nat, u \in Nat :
          /\ j = meta[n].ini /\ l = Cuantos(n) /\ u = meta[n].tam /\ l >= 1
          /\ u <= l * BlockSize
    BY Medidas
  <2>2. /\ Desde(n) = j /\ Marcados(n) = l /\ Desde(m) = b /\ Marcados(m) = k
    BY <1>1, <1>4, <1>8, <1>10, <2>1 DEF Desde, Marcados, Archivo
  <2>3. Aparte(b, k, j, l)
    BY <1>4, <1>8, <1>10, <2>1, <2>2 DEF Inv, Apartados, Fuera
  <2>4. \A x \in Nat : j <= x /\ x < j + l => x \in bitmap
    BY <2>1, <2>2, SusBits
  <2>5. \A x \in Nat : j <= x /\ x < j + l => ~ (f <= x /\ x < b)
    <3>1. \A x \in bitmap : x >= f => b <= x
      BY <1>4
    <3> QED BY <2>4, <3>1
  <2>6. Aparte(f, k, j, l)
    BY <1>4, <2>1, <2>3, <2>5, AparteDelHueco
  <2>7. \A x \in Bytes : x \in Tramo(j * BlockSize, u) => datos'[x] = datos[x]
    <3>1. \A x : /\ ~ (x \in Tramo(b * BlockSize, t) /\ x \in Tramo(j * BlockSize, u))
                 /\ ~ (x \in Tramo(f * BlockSize, t) /\ x \in Tramo(j * BlockSize, u))
      BY <1>8, <2>1, <2>3, <2>6, BytesAparte
    <3> QED BY <1>4, <1>8, <3>1
  <2> QED BY <1>4, <1>7, <1>10, <2>1, <2>7, VistoIgual
<1>11. Visto(m)' = Visto(m)
  <2>1. PICK p \in Nat, q \in Nat : /\ p = b * BlockSize /\ q = f * BlockSize
                                    /\ p + t <= BlockCount * BlockSize
                                    /\ q + t <= BlockCount * BlockSize
    <3>1. f + k <= MaxBit
      <4>1. MaxBit \in Nat
        BY BitsEnteros
      <4> QED BY <1>4, <1>8, <4>1
    <3> QED BY <1>8, <3>1, EnElDisco
  <2>2. /\ Visto(m) = [i \in 1..t |-> datos[p + i - 1]]
        /\ Visto(m) = Leidos(p, t) /\ Len(Visto(m)) = t
    <3>1. p = DatosDesde(m) * BlockSize /\ t = Tamanio(m) /\ ~ EnCopia(m)
      BY <1>4, <1>7, <1>8, <2>1
    <3> QED BY <2>1, <3>1, VistoEnDisco, VistoDe
  <2>3. Visto(m)' = [i \in 1..t |-> datos'[q + i - 1]]
    <3>1. /\ m \in DOMAIN meta' /\ ~ EnCopia(m)' /\ q = DatosDesde(m)' * BlockSize
          /\ t = Tamanio(m)'
      BY <1>4, <1>7, <1>8, <2>1
    <3> QED BY <2>1, <3>1, EnDiscoDespues DEF VistaEnDisco
  <2>4. Limpio(datos, p, t) \in [Bytes -> Valores \cup {0}]
    BY LimpioTipo DEF Inv, Restos
  <2>5. \A x \in Bytes : x \in Tramo(q, t) => datos'[x] = Visto(m)[x - q + 1]
    <3>1. /\ datos' = Copiado(Limpio(datos, p, t), q, Visto(m))
          /\ Visto(m) \in Seq(Valores \cup {0})
      BY <1>4, <1>8, <2>1, <2>2
    <3> QED BY <2>1, <2>2, <2>4, <3>1, CopiadoTipo
  <2>6. ASSUME NEW i \in 1..t PROVE datos'[q + i - 1] = Visto(m)[i]
    <3>1. BlockCount * BlockSize \in Nat
      BY DialfsAssumption
    <3>2. q + i - 1 \in Bytes /\ q + i - 1 \in Tramo(q, t) /\ q + i - 1 - q + 1 = i
      BY <2>1, <3>1 DEF Bytes, Tramo
    <3> QED BY <2>5, <3>2
  <2> QED BY <2>2, <2>3, <2>6
<1>12. ArchivosVistos' = ArchivosVistos
  BY <1>6, <1>9, <1>10, <1>11, VistosIguales
<1>13. Hecho' <=> Hecho
  BY <1>4 DEF Hecho
<1> QED BY <1>4, <1>5, <1>12, <1>13, Callado

\* compactar_file_system: the copy is in the file of blocks, after every other file.
LEMMA PegaDatosVisto ==
  ASSUME Inv, Inv', PegaDatos
  PROVE  PasoVisto /\ Pegado'
<1>1. PICK nm : nm = op.nombre
  OBVIOUS
<1>2. PICK f \in Nat : Pega(f)
  BY Pegada
<1>3. /\ paso = "compactar" /\ paso' = "pegar" /\ op' = op /\ meta' = meta
      /\ nm \in DOMAIN meta /\ movido = Nadie /\ copia' = copia /\ libre' = f
      /\ f + BloquesNuevos <= MaxBit
      /\ datos' = Copiado(datos, f * BlockSize, copia) /\ copia \in Seq(Valores \cup {0})
      /\ Len(copia) = meta[nm].tam /\ \A x \in bitmap : x < f
      /\ \A x \in Bytes : x \notin Tramo(f * BlockSize, meta[nm].tam) => datos'[x] = datos[x]
  BY <1>1, <1>2 DEF Pega
<1>4. leido' = leido /\ reinicios' = reinicios
  BY DEF PegaDatos
<1>5. Vista = DOMAIN meta /\ Vista' = DOMAIN meta
  BY <1>3 DEF Vista
<1>6. \A n \in DOMAIN meta :
        /\ EnCopia(n) <=> n = nm
        /\ EnCopia(n)' <=> n = nm
        /\ n # nm => DatosDesde(n) = meta[n].ini /\ DatosDesde(n)' = meta[n].ini
        /\ Tamanio(n) = meta[n].tam /\ Tamanio(n)' = meta[n].tam
  BY <1>1, <1>3 DEF EnCopia, Compactando, DatosDesde, Tamanio, Archivo
<1>7. PICK t \in Nat, k \in Nat : /\ t = meta[nm].tam /\ k = BloquesNuevos /\ t <= k * BlockSize
                                  /\ f + k <= MaxBit
  <2>1. meta[nm].tam <= op.t /\ op.t \in Nat /\ op.t <= BloquesNuevos * BlockSize
        /\ BloquesNuevos \in Nat /\ meta[nm].tam \in Nat
    <3>1. meta[nm].tam < op.t
      BY <1>1, <1>3 DEF Inv, Pedido, Compactando, Archivo
    <3> QED BY <1>3, <3>1, Medidas, BloquesDeBytes DEF BloquesNuevos
  <2>2. BloquesNuevos * BlockSize \in Nat
    BY <2>1, Producto
  <2> QED BY <1>3, <2>1, <2>2
<1>8. Visto(nm)' = Visto(nm)
  BY <1>3, <1>6, CopiaIgual
<1>9. ASSUME NEW n \in DOMAIN meta \ {nm} PROVE Visto(n)' = Visto(n)
  <2>1. PICK j \in Nat, l \in Nat, u \in Nat :
          /\ j = meta[n].ini /\ l = Cuantos(n) /\ u = meta[n].tam /\ l >= 1
          /\ u <= l * BlockSize
    BY Medidas
  <2>2. Desde(n) = j /\ Marcados(n) = l
    BY <1>1, <1>3, <1>9, <2>1 DEF Desde, Marcados, Archivo
  <2>3. \A x \in Nat : j <= x /\ x < j + l => x \in bitmap
    BY <2>1, <2>2, SusBits
  <2>4. j + l <= f
    <3>1. j + l - 1 \in Nat /\ j <= j + l - 1 /\ j + l - 1 < j + l
      BY <2>1
    <3>2. j + l - 1 < f
      BY <1>3, <2>3, <3>1
    <3> QED BY <2>1, <3>2
  <2>5. \A x \in Bytes : x \in Tramo(j * BlockSize, u) => datos'[x] = datos[x]
    <3>1. \A x : ~ (x \in Tramo(f * BlockSize, t) /\ x \in Tramo(j * BlockSize, u))
      BY <1>7, <2>1, <2>4, BytesAparte DEF Aparte
    <3> QED BY <1>3, <1>7, <3>1
  <2> QED BY <1>3, <1>6, <1>9, <2>1, <2>5, VistoIgual
<1>10. ArchivosVistos' = ArchivosVistos
  BY <1>5, <1>8, <1>9, VistosIguales
<1>11. Pegado'
  <2>1. PICK q \in Nat : q = f * BlockSize /\ q + t <= BlockCount * BlockSize
    BY <1>7, EnElDisco
  <2>2. \A x \in Bytes : x \in Tramo(q, t) => datos'[x] = copia[x - q + 1]
    <3>1. datos' = Copiado(datos, q, copia) /\ copia \in Seq(Valores \cup {0}) /\ Len(copia) = t
      BY <1>3, <1>7, <2>1
    <3> QED BY <2>1, <3>1, CopiadoTipo DEF Inv, Restos
  <2>3. ASSUME NEW i \in 1..t PROVE datos'[q + i - 1] = copia[i]
    <3>1. BlockCount * BlockSize \in Nat
      BY DialfsAssumption
    <3>2. q + i - 1 \in Bytes /\ q + i - 1 \in Tramo(q, t) /\ q + i - 1 - q + 1 = i
      BY <2>1, <3>1 DEF Bytes, Tramo
    <3> QED BY <2>2, <3>2
  <2> QED BY <1>1, <1>3, <1>7, <2>1, <2>3 DEF Pegado, Archivo
<1>12. Hecho' <=> Hecho
  BY <1>3 DEF Hecho
<1> QED BY <1>3, <1>4, <1>10, <1>11, <1>12, Callado

\* compactar_file_system: the file that grew is seen in its new place.
LEMMA PegaMetaVisto ==
  ASSUME Inv, Inv', Pedida, Pegado, PegaMeta
  PROVE  PasoVisto
<1>1. PICK nm : nm = op.nombre /\ nm \in DOMAIN meta /\ A = nm
  BY Hallado DEF Inv, Pedido, ConArchivo, Compactando, Archivo, PegaMeta
<1>2. /\ paso = "reubicar" /\ paso' = "espera" /\ op' = Nada /\ datos' = datos
      /\ leido' = leido /\ reinicios' = reinicios
      /\ meta' = [meta EXCEPT ![nm] = [ini |-> libre, tam |-> op.t]]
  BY <1>1 DEF PegaMeta, Termina
<1>3. /\ DOMAIN meta' = DOMAIN meta
      /\ \A n \in DOMAIN meta :
           meta'[n] = IF n = nm THEN [ini |-> libre, tam |-> op.t] ELSE meta[n]
  BY <1>2 DEF Inv, Restos
<1>4. Vista = DOMAIN meta /\ Vista' = DOMAIN meta
  BY <1>2, <1>3 DEF Vista
<1>5. \A n \in DOMAIN meta :
        /\ EnCopia(n) <=> n = nm
        /\ ~ EnCopia(n)'
        /\ DatosDesde(n) = IF n = nm THEN libre ELSE meta[n].ini
        /\ DatosDesde(n)' = IF n = nm THEN libre ELSE meta[n].ini
        /\ n # nm => Tamanio(n) = meta[n].tam
        /\ Tamanio(n)' = IF n = nm THEN op.t ELSE meta[n].tam
  BY <1>1, <1>2, <1>3 DEF EnCopia, Compactando, DatosDesde, Tamanio, Archivo
<1>6. ASSUME NEW n \in DOMAIN meta \ {nm} PROVE Visto(n)' = Visto(n)
  BY <1>2, <1>3, <1>5, <1>6, VistoIgual
<1>7. Visto(nm) = copia
  BY <1>1, <1>5, VistoDe
<1>8. PICK q \in Nat, t \in Nat, u \in Nat :
        q = libre * BlockSize /\ t = meta[nm].tam /\ u = op.t
  <2>1. libre \in Nat
    BY Bits DEF Inv, Restos
  <2> QED BY <1>1, <2>1, Medidas, Producto
<1>9. /\ q + u <= BlockCount * BlockSize
      /\ \A x \in Bytes : x >= q + t /\ x < q + u => datos[x] = 0
  BY <1>1, <1>2, <1>5, <1>8, CerosDeMas
<1>10. Len(copia) = t /\ \A i \in 1..t : copia[i] = datos[q + i - 1]
  BY <1>1, <1>2, <1>8 DEF Pegado, Archivo
<1>11. Visto(nm)' = [i \in 1..u |-> datos[q + i - 1]]
  <2>1. /\ nm \in DOMAIN meta' /\ ~ EnCopia(nm)'
        /\ q = DatosDesde(nm)' * BlockSize /\ u = Tamanio(nm)'
    BY <1>1, <1>3, <1>5, <1>8
  <2> QED BY <1>2, <1>9, <2>1, EnDiscoDespues DEF VistaEnDisco
<1>12. Visto(nm)' = Promesa!Ajustado(Visto(nm), op.t)
  <2>1. \A i \in 1..u : datos[q + i - 1] = IF i <= t THEN copia[i] ELSE 0
    <3>1. ConCeros(copia, t, u, q, datos)
      BY <1>9, <1>10 DEF ConCeros
    <3> QED BY <3>1, Rellenado
  <2> QED BY <1>7, <1>8, <1>10, <1>11, <2>1 DEF Promesa!Ajustado
<1>13. op.tipo = "TRUNCATE" /\ ~ Hecho /\ ~ Hecho'
  BY <1>2 DEF Pedida, Compactando, Hecho
<1> QED BY <1>1, <1>2, <1>4, <1>6, <1>12, <1>13, Truncado

\* io_fs_write: the bytes go to the file of the request, from the pointer on.
LEMMA EscribeVisto ==
  ASSUME Inv, Inv', Pedida, Escribe
  PROVE  PasoVisto
<1>1. PICK nm : nm = op.nombre /\ nm \in DOMAIN meta /\ A = nm
  BY Hallado DEF Inv, Pedido, ConArchivo, Archivo, Escribe
<1>2. PICK q \in Nat, t \in Nat, p \in Nat, k \in Nat :
        /\ q = meta[nm].ini * BlockSize /\ t = meta[nm].tam /\ p = op.p /\ k = op.t
        /\ q + t <= BlockCount * BlockSize
  <2>1. op.p \in Nat /\ op.t \in Nat
    BY DEF Inv, Pedido
  <2> QED BY <1>1, <2>1, SuLugar
<1>3. /\ paso = "WRITE" /\ paso' = "espera" /\ op' = Nada /\ meta' = meta /\ p + k <= t
      /\ leido' = leido /\ reinicios' = reinicios
  BY <1>1, <1>2 DEF Escribe, Termina, Actual
<1>4. PICK s \in [1..k -> Valores] : datos' = Copiado(datos, q + p, s)
  BY <1>1, <1>2 DEF Escribe, ByteInicial, Inicial
<1>5. /\ s \in Seq(Valores \cup {0}) /\ Len(s) = k
      /\ \A x \in Bytes :
           datos'[x] = IF x \in Tramo(q + p, k) THEN s[x - (q + p) + 1] ELSE datos[x]
  <2>1. s \in Seq(Valores \cup {0}) /\ Len(s) = k
    OBVIOUS
  <2>2. q + p \in Nat
    OBVIOUS
  <2>3. datos \in [Bytes -> Valores \cup {0}]
    BY DEF Inv, Restos
  <2>4. \A x \in Bytes : Copiado(datos, q + p, s)[x]
                          = IF x \in Tramo(q + p, Len(s)) THEN s[x - (q + p) + 1] ELSE datos[x]
    BY <2>1, <2>2, <2>3, CopiadoTipo
  <2> QED BY <1>4, <2>1, <2>4
<1>6. Vista = DOMAIN meta /\ Vista' = DOMAIN meta
  BY <1>3 DEF Vista
<1>7. \A n \in DOMAIN meta \ {nm} : Visto(n)' = Visto(n)
  <2>1. \A x \in Bytes : x \notin Tramo(q, t) => datos'[x] = datos[x]
    <3>1. \A x : x \in Tramo(q + p, k) => x \in Tramo(q, t)
      BY <1>3 DEF Tramo
    <3> QED BY <1>5, <3>1
  <2> QED BY <1>1, <1>2, <1>3, <2>1, OtrosIguales DEF Compactando
<1>8. Visto(nm) = [i \in 1..t |-> datos[q + i - 1]] /\ Len(Visto(nm)) = t
  <2>1. q = DatosDesde(nm) * BlockSize /\ t = Tamanio(nm) /\ ~ EnCopia(nm)
    BY <1>1, <1>2, <1>3 DEF EnCopia, Compactando, DatosDesde, Tamanio, Archivo
  <2> QED BY <1>1, <1>2, <2>1, VistoEnDisco
<1>9. Visto(nm)' = [i \in 1..t |-> datos'[q + i - 1]]
  <2>1. /\ nm \in DOMAIN meta' /\ q = DatosDesde(nm)' * BlockSize /\ t = Tamanio(nm)'
        /\ ~ EnCopia(nm)'
    BY <1>1, <1>2, <1>3 DEF EnCopia, Compactando, DatosDesde, Tamanio, Archivo
  <2> QED BY <1>2, <2>1, EnDiscoDespues DEF VistaEnDisco
<1>10. Visto(nm)' = Promesa!Escrito(Visto(nm), p, s)
  <2>1. ASSUME NEW i \in 1..t
        PROVE  datos'[q + i - 1] = IF i \in (p + 1)..(p + k) THEN s[i - p] ELSE Visto(nm)[i]
    <3>1. PICK d \in Nat : d = BlockCount * BlockSize /\ q + t <= d
      BY <1>2, DialfsAssumption
    <3>2. q + i - 1 \in 0..(d - 1)
      BY <3>1
    <3>5. q + i - 1 - (q + p) + 1 = i - p
      OBVIOUS
    <3>3. q + i - 1 \in Tramo(q + p, k) <=> i \in (p + 1)..(p + k)
      BY DEF Tramo
    <3>4. Visto(nm)[i] = datos[q + i - 1]
      BY <1>8
    <3> QED BY <1>5, <3>1, <3>2, <3>3, <3>4, <3>5 DEF Bytes
  <2> QED BY <1>5, <1>8, <1>9, <2>1 DEF Promesa!Escrito
<1>11. Promesa!Escribir
  <2>1. Promesa!Efecto("WRITE")
    BY <1>3, Efectua DEF Hecho, Pedida
  <2>2. Promesa!Existe /\ Promesa!Contenido = Visto(nm)
    BY <1>1, <1>6, VistosDe DEF Promesa!Existe, Promesa!Contenido
  <2>3. ArchivosVistos' = Promesa!Con(ArchivosVistos, nm, Visto(nm)')
    <3>1. Vista' = Vista \cup {nm}
      BY <1>1, <1>6
    <3> QED BY <1>6, <1>7, <3>1, ConVisto
  <2>4. op.p + op.t <= Len(Promesa!Contenido)
    BY <1>2, <1>3, <1>8, <2>2
  <2>5. ArchivosVistos' =
          Promesa!Con(ArchivosVistos, op.nombre, Promesa!Escrito(Promesa!Contenido, op.p, s))
    BY <1>1, <1>2, <1>10, <2>2, <2>3
  <2>6. s \in [1..op.t -> Valores]
    BY <1>2
  <2> QED BY <1>3, <2>1, <2>2, <2>4, <2>5, <2>6 DEF Promesa!Escribir
<1> QED BY <1>11 DEF PasoVisto, Promesa!Next

\* io_fs_read: what is answered are the bytes of the file, up to the first zero.
LEMMA LeeVisto ==
  ASSUME Inv, Inv', Pedida, Lee
  PROVE  PasoVisto
<1>1. PICK nm : nm = op.nombre /\ nm \in DOMAIN meta /\ A = nm
  BY Hallado DEF Inv, Pedido, ConArchivo, Archivo, Lee
<1>2. PICK q \in Nat, t \in Nat, p \in Nat, k \in Nat :
        /\ q = meta[nm].ini * BlockSize /\ t = meta[nm].tam /\ p = op.p /\ k = op.t
        /\ q + t <= BlockCount * BlockSize
  <2>1. op.p \in Nat /\ op.t \in Nat
    BY DEF Inv, Pedido
  <2> QED BY <1>1, <2>1, SuLugar
<1>3. /\ paso = "READ" /\ paso' = "espera" /\ op' = Nada /\ meta' = meta /\ datos' = datos
      /\ reinicios' = reinicios
  BY DEF Lee, Termina, disco
<1>4. p + k <= t
  BY <1>1, <1>2, <1>3 DEF Pedida, Archivo
<1>5. Vista = DOMAIN meta /\ Vista' = DOMAIN meta
  BY <1>3 DEF Vista
<1>6. ArchivosVistos' = ArchivosVistos
  <2>1. \A n \in DOMAIN meta :
          /\ ~ EnCopia(n) /\ ~ EnCopia(n)' /\ Tamanio(n)' = Tamanio(n)
          /\ DatosDesde(n)' = DatosDesde(n)
    BY <1>3 DEF EnCopia, Compactando, Tamanio, DatosDesde
  <2>2. /\ Vista' = Vista
        /\ \A n \in Vista : /\ EnCopia(n)' <=> EnCopia(n)
                            /\ IF EnCopia(n)
                                 THEN copia' = copia
                                 ELSE DatosDesde(n)' = DatosDesde(n) /\ Tamanio(n)' = Tamanio(n)
    BY <1>5, <2>1
  <2> QED BY <1>3, <2>2, NadaSeVe
<1>7. /\ Visto(nm) = [i \in 1..t |-> datos[q + i - 1]] /\ Len(Visto(nm)) = t
      /\ Visto(nm) \in Seq(Valores \cup {0})
  <2>1. q = DatosDesde(nm) * BlockSize /\ t = Tamanio(nm) /\ ~ EnCopia(nm)
    BY <1>1, <1>2, <1>3 DEF EnCopia, Compactando, DatosDesde, Tamanio, Archivo
  <2> QED BY <1>1, <1>2, <2>1, VistoEnDisco
<1>8. PICK s : s = Leidos(q + p, k)
  OBVIOUS
<1>9. s = [i \in 1..k |-> Visto(nm)[p + i]]
  <2>1. ASSUME NEW i \in 1..k
        PROVE  (IF q + p + i - 1 \in Bytes THEN datos[q + p + i - 1] ELSE Basura)
                 = Visto(nm)[p + i]
    <3>1. BlockCount * BlockSize \in Nat
      BY DialfsAssumption
    <3>2. q + p + i - 1 \in Bytes /\ p + i \in 1..t /\ q + p + i - 1 = q + (p + i) - 1
      BY <1>2, <1>4, <3>1 DEF Bytes
    <3> QED BY <1>7, <3>2
  <2> QED BY <1>8, <2>1 DEF Leidos
<1>10. Promesa!Existe /\ Promesa!Contenido = Visto(nm)
  BY <1>1, <1>5, VistosDe DEF Promesa!Existe, Promesa!Contenido
<1>11. s = [i \in 1..op.t |-> Promesa!Contenido[op.p + i]]
  BY <1>2, <1>9, <1>10
<1>12. \/ \E i \in 1..op.t : /\ s[i] = 0 /\ \A h \in 1..(i - 1) : s[h] # 0
                           /\ leido' = SubSeq(s, 1, i - 1)
       \/ (\A i \in 1..op.t : s[i] # 0) /\ leido' \in {s, Append(s, Basura)}
  <2> DEFINE ceros == {i \in DOMAIN s : s[i] = 0}
  <2>1. IF ceros # {} THEN leido' = SubSeq(s, 1, Min(ceros) - 1)
                      ELSE leido' \in {s, Append(s, Basura)}
    BY <1>1, <1>2, <1>8 DEF Lee, ByteInicial, Inicial
  <2>2. DOMAIN s = 1..k /\ op.t = k
    BY <1>2, <1>9
  <2>3. CASE ceros # {}
    <3>1. \A x \in ceros : x \in Nat /\ 1 <= x /\ x <= k /\ s[x] = 0
      BY <2>2
    <3>2. \A x \in 1..k : s[x] = 0 => x \in ceros
      BY <2>2
    <3> HIDE DEF ceros
    <3>3. Min(ceros) \in ceros /\ \A x \in ceros : Min(ceros) <= x
      BY <2>3, <3>1, MinimoNatural
    <3>4. PICK x \in 1..k : x = Min(ceros) /\ s[x] = 0
      BY <3>1, <3>3
    <3>5. \A h \in 1..(x - 1) : s[h] # 0
      <4> SUFFICES ASSUME NEW h \in 1..(x - 1), s[h] = 0 PROVE FALSE
        OBVIOUS
      <4>1. h \in 1..k /\ h < x
        OBVIOUS
      <4>2. h \in ceros
        BY <3>2, <4>1
      <4> QED BY <3>3, <3>4, <4>1, <4>2
    <3> QED BY <2>1, <2>2, <2>3, <3>4, <3>5
  <2>4. CASE ceros = {}
    <3>1. \A i \in 1..k : s[i] # 0
      BY <2>2, <2>4
    <3> HIDE DEF ceros
    <3> QED BY <2>1, <2>2, <2>4, <3>1
  <2> QED BY <2>3, <2>4
<1>13. Promesa!Efecto("READ")
  BY <1>3, Efectua DEF Hecho, Pedida
<1>14. op.p + op.t <= Len(Promesa!Contenido)
  BY <1>2, <1>4, <1>7, <1>10
<1>15. Promesa!Leer
  BY <1>6, <1>10, <1>11, <1>12, <1>13, <1>14 DEF Promesa!Leer
<1> QED BY <1>15 DEF PasoVisto, Promesa!Next

----------------------------------------------------------------------------

\* What each step does to the request.
LEMMA PasosDeAtiende ==
  ASSUME Atiende
  PROVE  \/ paso' = "espera"
         \/ /\ op' = op /\ paso' # "READ"
            /\ paso' \in {"CREATE", "marcar", "mudo"} => paso = "CREATE"
            /\ paso' \in {"DELETE", "borrar", "quitar"} => paso \in {"DELETE", "borrar"}
            /\ paso' \in {"TRUNCATE", "ampliar", "soltar", "achicar"} \cup Compactando
                 => paso \in {"TRUNCATE", "soltar"} \cup Compactando
            /\ paso' \in {"WRITE", "caida"} => paso = "WRITE"
            /\ paso' \in {"pegar", "reubicar"} => PegaDatos \/ PegaBits
<1>1. CASE CreaSinLugar \/ CreaExistente \/ Crea \/ CreaMarca
  BY <1>1 DEF CreaSinLugar, CreaExistente, Crea, CreaMarca, Sigue, Termina, Compactando
<1>2. CASE BorraDatos \/ BorraBits \/ Quita
  BY <1>2 DEF BorraDatos, BorraBits, Quita, Sigue, Termina, Compactando
<1>3. CASE AmpliaSinLugar \/ AmpliaBits
  BY <1>3 DEF AmpliaSinLugar, AmpliaBits, Amplia, Sigue, Termina, Compactando
<1>4. CASE AchicaDatos \/ AchicaBits \/ GuardaTamanio
  BY <1>4 DEF AchicaDatos, AchicaBits, GuardaTamanio, Sigue, Termina, Compactando
<1>5. CASE CompactaCopia \/ CompactaRetira
  BY <1>5 DEF CompactaCopia, CompactaRetira, Amplia, Sigue, Compactando
<1>6. CASE CompactaDatos \/ CompactaBits \/ CompactaMeta
  BY <1>6 DEF CompactaDatos, CompactaBits, CompactaMeta, Sigue, Compactando
<1>7. CASE PegaDatos \/ PegaBits \/ PegaMeta
  BY <1>7 DEF PegaDatos, PegaBits, PegaMeta, Sigue, Termina, Compactando
<1>8. CASE EscribeSinLugar \/ Escribe \/ EscribeSinRespuesta \/ Lee
  BY <1>8 DEF EscribeSinLugar, Escribe, EscribeSinRespuesta, Lee, Sigue, Termina, Compactando
<1> QED BY <1>1, <1>2, <1>3, <1>4, <1>5, <1>6, <1>7, <1>8 DEF Atiende

\* The two facts that the refinement adds to the invariant.
LEMMA PedidaSigue ==
  ASSUME Ausentes = {}, ~ LeeFuera, Inv, Pedida, [Next]_vars, ~ QuedaVacio
  PROVE  Pedida'
<1>1. CASE Atiende
  <2>1. CASE paso' = "espera"
    BY <2>1 DEF Pedida, Compactando
  <2>2. CASE paso' # "espera"
    BY <1>1, <2>2, PasosDeAtiende DEF Pedida
  <2> QED BY <2>1, <2>2
<1>2. CASE Reinicia
  BY <1>2 DEF Reinicia, Termina, Pedida, Compactando
<1>3. ASSUME NEW n \in Nombres, Pedir(n) PROVE Pedida'
  <2>1. PICK tipo, t, p :
          tipo \in {"CREATE", "DELETE", "TRUNCATE", "WRITE", "READ"} /\ Pide(tipo, n, t, p)
    BY <1>3 DEF Pedir
  <2>2. tipo = "CREATE" \/ (n \in ToSet(lista) /\ lista # <<>>)
    <3>1. lista = <<>> => ToSet(lista) = {}
      BY DEF ToSet
    <3> QED BY <2>1, <3>1 DEF Pide
  <2>3. /\ op' = [tipo |-> tipo, nombre |-> n, t |-> t, p |-> p] /\ meta' = meta
        /\ paso' = tipo
        /\ tipo = "READ" => p + t <= meta[n].tam
    BY <2>1, <2>2 DEF Pide, disco
  <2> QED BY <2>1, <2>3 DEF Pedida, Compactando, Archivo
<1>4. CASE UNCHANGED vars
  BY <1>4 DEF Pedida, vars, disco, Archivo
<1> QED BY <1>1, <1>2, <1>3, <1>4 DEF Next

LEMMA PegadoSigue ==
  ASSUME Inv, Inv', Pegado, [Next]_vars, ~ QuedaVacio
  PROVE  Pegado'
<1>1. CASE Atiende
  <2>1. CASE PegaDatos
    BY <2>1, PegaDatosVisto
  <2>2. CASE PegaBits
    BY <2>2 DEF PegaBits, Sigue, locales, Pegado, Archivo
  <2>3. CASE ~ (PegaDatos \/ PegaBits)
    BY <1>1, <2>3, PasosDeAtiende DEF Pegado
  <2> QED BY <2>1, <2>2, <2>3
<1>2. CASE Reinicia
  BY <1>2 DEF Reinicia, Termina, Pegado
<1>3. ASSUME NEW n \in Nombres, Pedir(n) PROVE Pegado'
  BY <1>3 DEF Pedir, Pide, Pegado
<1>4. CASE UNCHANGED vars
  BY <1>4 DEF Pegado, vars, disco, locales, Archivo
<1> QED BY <1>1, <1>2, <1>3, <1>4 DEF Next

\* Initial states map to initial states.
LEMMA VistoInicia ==
  ASSUME Init
  PROVE  InvArchivos /\ Promesa!Init
<1>1. Inv
  BY IniciaInv
<1>2. Pedida /\ Pegado
  BY DEF Init, Pedida, Pegado, Compactando
<1>3. Vista = {}
  BY DEF Init, Vista
<1>4. ArchivosVistos = [n \in {} |-> <<>>]
  BY <1>1, <1>3, VistosDe
<1>5. Hecho = FALSE /\ (paso # "inservible") = TRUE
  BY DEF Init, Hecho
<1> QED BY <1>1, <1>2, <1>4, <1>5 DEF InvArchivos, Promesa!Init, Promesa!Nada, Init, Nada

\* Every step maps to a step or to none, while the interface can start...
LEMMA VistoSigue ==
  ASSUME Ausentes = {}, ~ LeeFuera, Compactando \cup {"ampliar"} \subseteq SinCorte,
         Inv, Pedida, Pegado, [Next]_vars, ~ QuedaVacio
  PROVE  InvArchivos' /\ PasoVisto
<1>1. Inv'
  BY SigueInv
<1>2. Pedida' /\ Pegado'
  BY <1>1, PedidaSigue, PegadoSigue
<1>3. PasoVisto
  <2>1. CASE CreaSinLugar \/ BorraBits \/ AmpliaBits \/ AchicaBits \/ CompactaRetira
               \/ CompactaBits \/ PegaBits \/ EscribeSinRespuesta
    BY <1>1, <2>1, BitsCallados
  <2>2. CASE CreaExistente \/ AmpliaSinLugar \/ EscribeSinLugar
    BY <1>1, <2>2, RechazoVisto
  <2>3. CASE Crea \/ CreaMarca \/ BorraDatos \/ Quita
    BY <1>1, <2>3, CreaVisto, CreaMarcaVisto, BorraDatosVisto, QuitaVisto
  <2>4. CASE AchicaDatos \/ GuardaTamanio
    BY <1>1, <2>4, AchicaDatosVisto, GuardaTamanioVisto
  <2>5. CASE CompactaCopia \/ CompactaDatos \/ CompactaMeta \/ PegaDatos \/ PegaMeta
    BY <1>1, <2>5, CompactaCopiaVisto, CompactaDatosVisto, CompactaMetaVisto, PegaDatosVisto,
       PegaMetaVisto
  <2>6. CASE Escribe \/ Lee
    BY <1>1, <2>6, EscribeVisto, LeeVisto
  <2>7. CASE Reinicia
    BY <1>1, <2>7, ReiniciaVisto
  <2>8. ASSUME NEW n \in Nombres, Pedir(n) PROVE PasoVisto
    BY <1>1, <2>8, PedirVisto
  <2>9. CASE UNCHANGED vars
    <3>1. /\ Vista' = Vista /\ datos' = datos
          /\ \A n \in Vista : /\ EnCopia(n)' <=> EnCopia(n)
                              /\ IF EnCopia(n)
                                   THEN copia' = copia
                                   ELSE /\ DatosDesde(n)' = DatosDesde(n)
                                        /\ Tamanio(n)' = Tamanio(n)
      BY <2>9 DEF vars, disco, locales, Vista, EnCopia, DatosDesde, Tamanio, Archivo
    <3>2. ArchivosVistos' = ArchivosVistos
      BY <1>1, <3>1, NadaSeVe
    <3>3. Hecho' <=> Hecho
      BY <2>9 DEF vars, Hecho
    <3> QED BY <1>1, <2>9, <3>2, <3>3, Callado DEF vars
  <2> QED BY <2>1, <2>2, <2>3, <2>4, <2>5, <2>6, <2>7, <2>8, <2>9 DEF Next, Atiende
<1> QED BY <1>1, <1>2, <1>3 DEF InvArchivos

\* ...when it stops being able to, and after that.
LEMMA TodoSigue ==
  ASSUME Ausentes = {}, ~ LeeFuera, Compactando \cup {"ampliar"} \subseteq SinCorte,
         InvArchivos, [Next]_vars
  PROVE  InvArchivos' /\ PasoVisto
<1>1. CASE Inservible
  <2>1. Inservible' /\ UNCHANGED vars
    BY <1>1, InservibleSigue
  <2>2. /\ op' = op /\ leido' = leido /\ reinicios' = reinicios
        /\ paso = "inservible" /\ paso' = "inservible"
    BY <1>1, <2>1 DEF vars, Inservible
  <2>3. ArchivosVistos' = [n \in {} |-> Visto(n)] /\ ArchivosVistos = [n \in {} |-> Visto(n)]
    BY <2>2 DEF ArchivosVistos
  <2>4. Hecho' = Hecho /\ (paso' # "inservible") = (paso # "inservible")
    BY <2>2 DEF Hecho
  <2> QED BY <2>1, <2>2, <2>3, <2>4 DEF InvArchivos, PasoVisto, Promesa!vars
<1>2. CASE Inv /\ Pedida /\ Pegado /\ QuedaVacio
  BY <1>2, QuedaVacioInservible, QuedaVacioVisto DEF InvArchivos
<1>3. CASE Inv /\ Pedida /\ Pegado /\ ~ QuedaVacio
  BY <1>3, VistoSigue
<1> QED BY <1>1, <1>2, <1>3 DEF InvArchivos

----------------------------------------------------------------------------

\* Blocks, bitmap and metadata files, with the copies of compactar_file_system, do what a
\* table of files by name does: the operation a request asks for, with its size, pointer and
\* length, takes effect once and before its answer, on its file and on no other (inout.c,
\* io_fs_create to io_fs_read and iniciar_file_system).  The requests name files that exist
\* and read inside them; the process may be killed and started again, but not in a compaction
\* nor between the bits and the metadata of an enlargement.
THEOREM ImplementaSiempre ==
  ASSUME Ausentes = {}, ~ LeeFuera, Compactando \cup {"ampliar"} \subseteq SinCorte
  PROVE  Spec => Implementa
<1>1. InvArchivos /\ InvArchivos' /\ [Next]_vars => [Promesa!Next]_(Promesa!vars)
  BY TodoSigue DEF PasoVisto
<1>2. Spec => []InvArchivos
  BY VistoInicia, TodoSigue, PTL DEF Spec
<1> QED BY <1>1, <1>2, VistoInicia, PTL DEF Spec, Implementa, Promesa!Spec

\* No step of a request, nor a restart, changes or loses the file of another name
\* (inout.c:61), as long as no request names a file that does not exist or reads past the end
\* of one, and there is no restart after a kill in a compaction, where the file that moves is
\* lost (307-318), nor between the bits and the metadata of an enlargement.
THEOREM SoloElPedidoSiempre ==
  ASSUME Ausentes = {}, ~ LeeFuera, Compactando \cup {"ampliar"} \subseteq SinCorte
  PROVE  Spec => SoloElPedido
<1>1. ASSUME PasoVisto, paso' # "inservible", NEW n \in DOMAIN ArchivosVistos \ {op.nombre}
      PROVE  n \in DOMAIN ArchivosVistos' /\ ArchivosVistos'[n] = ArchivosVistos[n]
  <2>1. CASE ArchivosVistos' = ArchivosVistos
    BY <1>1, <2>1
  <2>2. ASSUME NEW c, ArchivosVistos' = Promesa!Con(ArchivosVistos, op.nombre, c)
        PROVE  n \in DOMAIN ArchivosVistos' /\ ArchivosVistos'[n] = ArchivosVistos[n]
    BY <1>1, <2>2 DEF Promesa!Con
  <2>3. CASE ArchivosVistos' = Promesa!Sin(ArchivosVistos, op.nombre)
    BY <1>1, <2>3 DEF Promesa!Sin
  <2>4. CASE Promesa!Sin(ArchivosVistos', op.nombre) = Promesa!Sin(ArchivosVistos, op.nombre)
    <3>1. /\ n \in DOMAIN Promesa!Sin(ArchivosVistos, op.nombre)
          /\ Promesa!Sin(ArchivosVistos, op.nombre)[n] = ArchivosVistos[n]
      BY <1>1 DEF Promesa!Sin
    <3>2. /\ n \in DOMAIN Promesa!Sin(ArchivosVistos', op.nombre)
          /\ Promesa!Sin(ArchivosVistos', op.nombre)[n] = ArchivosVistos[n]
      BY <2>4, <3>1
    <3> QED BY <3>2 DEF Promesa!Sin
  <2> QED BY <1>1, <2>1, <2>2, <2>3, <2>4 DEF PasoVisto, Promesa!Next, Promesa!vars,
             Promesa!Pedir, Promesa!Responder, Promesa!Rechazar, Promesa!Crear, Promesa!Borrar,
             Promesa!Truncar, Promesa!Escribir, Promesa!Leer, Promesa!Reiniciar, Promesa!Perder
<1>2. InvArchivos /\ [Next]_vars
        => [paso' # "inservible" =>
             \A n \in DOMAIN ArchivosVistos \ {op.nombre} :
               /\ n \in DOMAIN ArchivosVistos'
               /\ ArchivosVistos'[n] = ArchivosVistos[n]]_vars
  BY <1>1, TodoSigue
<1>3. Spec => []InvArchivos
  BY VistoInicia, TodoSigue, PTL DEF Spec
<1> QED BY <1>2, <1>3, PTL DEF Spec, SoloElPedido

===========================================================================
