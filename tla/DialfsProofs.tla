--------------------------- MODULE DialfsProofs ---------------------------
(***************************************************************************)
(* The interface DIALFS, proved for every disk, every set of files and     *)
(* every request: the type of its state, that no block is of two files,    *)
(* that the bitmap is exact, that what no file holds is zero and that each *)
(* turn of compactar_file_system moves a file down.                        *)
(*                                                                         *)
(* None of these is inductive: they say how things are between two         *)
(* requests, and each request breaks them for some steps.  Inv says how    *)
(* they are at every step: which blocks the bitmap has of each file (Desde *)
(* and Marcados) and which bytes of the file of blocks are its own         *)
(* (DatosDesde and ConDatos), which lag behind its metadata or go ahead of *)
(* it as the step says.                                                    *)
(*                                                                         *)
(* The theorems take that a request names a file the interface has, and    *)
(* that there is no restart after a kill that cuts a compaction or an      *)
(* enlargement short: the code keeps no journal, and a file in transit is  *)
(* lost there.  A kill while a metadata file is being written, which the   *)
(* theorems do count, leaves an interface that does not start (Inservible).*)
(***************************************************************************)
EXTENDS Dialfs, FiniteSetTheorems, SequenceTheorems, WellFoundedInduction,
        NaturalsInduction, TLAPS

\* The steps at which the request has a file.
ConArchivo ==
    {"marcar", "DELETE", "borrar", "quitar", "TRUNCATE", "ampliar", "soltar", "achicar",
     "WRITE", "READ"} \cup Compactando

\* How many blocks the metadata give to the file n, and the file of the request.
Cuantos(n) == bytes_a_bloques(meta[n].tam)
Archivo == op.nombre

\* lista_archivos has each file once.
Listados ==
    /\ lista \in Seq(Nombres) /\ ToSet(lista) = DOMAIN meta
    /\ \A i, j \in DOMAIN lista : lista[i] = lista[j] => i = j

\* What each step of a request may count on: there is a file of its name, the size asked
\* for is more or less than the one it has, and movido is another file of the directory.
Pedido ==
    /\ paso \in Pasos \ {"inservible"}
    /\ op \in [tipo : {"CREATE", "DELETE", "TRUNCATE", "WRITE", "READ", "NADA"},
               nombre : Nombres \cup {Nadie}, t : Nat, p : Nat]
    /\ op.nombre = Nadie <=> paso = "espera"
    /\ paso = "espera" => op = Nada /\ copia = <<>> /\ libre = 0 /\ movido = Nadie
    /\ paso \in ConArchivo => Archivo \in DOMAIN meta
    /\ paso \in {"ampliar"} \cup Compactando => meta[Archivo].tam < op.t
    /\ paso \in {"soltar", "achicar"} => op.t <= meta[Archivo].tam
    /\ paso = "marcar" => meta[Archivo] = [ini |-> libre, tam |-> 0]
    /\ IF paso \in {"mover", "guardar"} THEN movido \in DOMAIN meta \ {Archivo}
                                        ELSE movido = Nadie

\* The types of the rest.
Restos ==
    /\ meta \in [DOMAIN meta -> [ini : Nat, tam : Nat]] /\ DOMAIN meta \subseteq Nombres
    /\ datos \in [Bytes -> Valores \cup {0}]
    /\ leido \in Seq(Valores \cup {0, Basura})
    /\ reinicios \in 0..MaxReinicios
    /\ copia \in Seq(Valores \cup {0}) /\ libre \in Bloques \cup {0}
    /\ paso \in {"retirar", "compactar", "mover", "guardar", "pegar"}
         => Len(copia) = meta[Archivo].tam

\* From which block on, and how many, the bitmap has the file n.
Desde(n) ==
    IF (paso = "guardar" /\ n = movido) \/ (paso = "reubicar" /\ n = Archivo)
      THEN libre ELSE meta[n].ini

Marcados(n) ==
    IF n = Archivo /\ paso \in {"marcar", "quitar", "compactar", "mover", "guardar", "pegar"}
      THEN 0
      ELSE IF n = Archivo /\ paso \in {"achicar", "ampliar", "reubicar"}
             THEN BloquesNuevos
             ELSE Cuantos(n)

\* No file, nor the bits it has, goes past the end of the bitmap.
Geometria ==
    \A n \in DOMAIN meta :
      /\ meta[n].ini \in Nat /\ meta[n].tam \in Nat
      /\ meta[n].ini + Cuantos(n) <= MaxBit
      /\ Desde(n) + Marcados(n) <= MaxBit

\* A bit is set when a file has it, and only then.
Bitmap ==
    /\ bitmap \subseteq Bloques
    /\ \A x \in Bloques :
         x \in bitmap <=> \E n \in DOMAIN meta : x \in Tramo(Desde(n), Marcados(n))

\* k blocks from i on and l blocks from j on have none in common.
Aparte(i, k, j, l) == i + k <= j \/ j + l <= i

\* The steps at which the metadata of the file of the request are not true: it is out of
\* the disk.
Fuera == {"compactar", "mover", "guardar", "pegar", "reubicar"}

\* The blocks that the metadata give to two files are apart, but in a compaction...
Separados ==
    paso \notin Fuera =>
      \A m, n \in DOMAIN meta :
        m # n => Aparte(meta[m].ini, Cuantos(m), meta[n].ini, Cuantos(n))

\* ...where the blocks that the bitmap has of each are.
Apartados ==
    paso \in Fuera \cup {"ampliar"} =>
      \A m, n \in DOMAIN meta :
        m # n /\ Marcados(m) > 0 /\ Marcados(n) > 0
          => Aparte(Desde(m), Marcados(m), Desde(n), Marcados(n))

\* There is no free block before b.
Ocupados(b) == \A x \in Bloques : x < b => x \in bitmap

\* A file moved to where the one taken out was is not moved again.
Asentados ==
    \A n \in DOMAIN meta \ {Archivo} :
      n # movido /\ meta[n].ini = meta[Archivo].ini => Ocupados(meta[n].ini + 1)

\* What a compaction needs to end with the file in its new place: there is room for it, the
\* file that moves goes down to the first free block, and the copy goes after all the others.
Compactacion ==
    /\ paso = "marcar" => libre \in Libres
    /\ paso = "retirar" => BloquesNuevos <= Cardinality(Libres) + Cuantos(Archivo)
    /\ paso \in {"compactar", "mover", "guardar"} =>
         BloquesNuevos <= Cardinality(Libres) /\ Asentados
    /\ paso \in {"mover", "guardar"} =>
         /\ libre \in Nat /\ libre < meta[movido].ini /\ Ocupados(libre)
    /\ paso = "mover" => Tramo(libre, meta[movido].ini - libre) \cap bitmap = {}
    /\ paso = "pegar" =>
         /\ libre + BloquesNuevos <= MaxBit
         /\ \A x \in bitmap : x < libre

\* From which block on, and how many, the file of blocks has the bytes of the file n.
DatosDesde(n) ==
    IF \/ paso \in {"mover", "guardar"} /\ n = movido
       \/ paso \in {"pegar", "reubicar"} /\ n = Archivo
      THEN libre ELSE meta[n].ini

ConDatos(n) ==
    IF n = Archivo /\ paso \in {"borrar", "quitar", "retirar", "compactar", "mover", "guardar"}
      THEN 0
      ELSE IF n = Archivo /\ paso \in {"soltar", "achicar"} THEN op.t ELSE meta[n].tam

\* A byte that is not zero belongs to a file.
Ceros ==
    \A x \in Bytes : datos[x] # 0 =>
      \E n \in DOMAIN meta : x \in Tramo(DatosDesde(n) * BlockSize, ConDatos(n))

Inv ==
    /\ Listados /\ Pedido /\ Restos /\ Geometria /\ Bitmap
    /\ Separados /\ Apartados /\ Compactacion /\ Ceros

\* The interface that cannot start any more: nothing happens.
Inservible == paso = "inservible" /\ TypeOK

----------------------------------------------------------------------------
(* Numbers, minima and lists.                                              *)

\* The division in blocks.
LEMMA Division ==
  ASSUME NEW b \in Nat
  PROVE  /\ b \div BlockSize \in Nat
         /\ (b \div BlockSize) * BlockSize <= b
         /\ b < (b \div BlockSize + 1) * BlockSize
BY DialfsAssumption

\* The multiplication by the size of a block.
LEMMA Producto ==
  ASSUME NEW i \in Nat, NEW j \in Nat
  PROVE  /\ i * BlockSize \in Nat
         /\ i <= j => i * BlockSize <= j * BlockSize
         /\ i * BlockSize < j * BlockSize => i < j
         /\ (i + j) * BlockSize = i * BlockSize + j * BlockSize
BY DialfsAssumption

\* The bitmap has no more bits than the disk has blocks.
LEMMA BitsEnteros == MaxBit \in Nat /\ MaxBit <= BlockCount
BY DialfsAssumption DEF MaxBit

LEMMA Bits == \A x : x \in Bloques <=> x \in Nat /\ x < MaxBit
BY BitsEnteros DEF Bloques

\* A run of blocks, or of bytes, member by member.
LEMMA TramoMiembro ==
  ASSUME NEW b \in Nat, NEW k \in Nat
  PROVE  \A x : x \in Tramo(b, k) <=> x \in Nat /\ b <= x /\ x < b + k
BY DEF Tramo

\* A file has at least one block, its bytes fit in its blocks, and more bytes take no
\* fewer blocks.
LEMMA BloquesDeBytes ==
  ASSUME NEW b \in Nat
  PROVE  /\ bytes_a_bloques(b) \in Nat /\ bytes_a_bloques(b) >= 1
         /\ b <= bytes_a_bloques(b) * BlockSize
<1>1. BlockSize \in Nat /\ BlockSize > 0
  BY DialfsAssumption
<1>2. CASE b = 0
  BY <1>1, <1>2 DEF bytes_a_bloques
<1>3. CASE b > 0
  <2> DEFINE c == b + BlockSize - 1
             d == c \div BlockSize
  <2>1. c \in Nat /\ bytes_a_bloques(b) = d
    BY <1>1, <1>3 DEF bytes_a_bloques
  <2>2. d \in Nat /\ c < (d + 1) * BlockSize
    BY <2>1, Division
  <2> HIDE DEF d
  <2>3. (d + 1) * BlockSize = d * BlockSize + BlockSize
    BY <1>1, <2>2
  <2>4. b <= d * BlockSize
    BY <1>1, <2>2, <2>3
  <2>5. d # 0
    BY <1>1, <1>3, <2>4
  <2> QED BY <2>1, <2>2, <2>4, <2>5
<1> QED BY <1>2, <1>3

LEMMA BloquesCrecen ==
  ASSUME NEW b \in Nat, NEW c \in Nat, b <= c
  PROVE  bytes_a_bloques(b) <= bytes_a_bloques(c)
<1>1. BlockSize \in Nat /\ BlockSize > 0
  BY DialfsAssumption
<1>2. CASE b = 0
  <2>1. bytes_a_bloques(b) = 1
    BY <1>2 DEF bytes_a_bloques
  <2> QED BY <2>1, BloquesDeBytes
<1>3. CASE b > 0
  <2> DEFINE x == b + BlockSize - 1
             y == c + BlockSize - 1
             d == x \div BlockSize
             e == y \div BlockSize
  <2>1. x \in Nat /\ y \in Nat /\ x <= y
    BY <1>1, <1>3
  <2>2. bytes_a_bloques(b) = d /\ bytes_a_bloques(c) = e
    BY <1>1, <1>3 DEF bytes_a_bloques
  <2>3. d \in Nat /\ e \in Nat /\ d * BlockSize <= x /\ y < (e + 1) * BlockSize
    BY <2>1, Division
  <2> HIDE DEF d, e
  <2>4. d * BlockSize \in Nat /\ (e + 1) * BlockSize \in Nat
    BY <1>1, <2>3
  <2>5. d * BlockSize < (e + 1) * BlockSize
    BY <2>1, <2>3, <2>4
  <2>6. d < e + 1
    BY <2>3, <2>5, Producto
  <2> QED BY <2>2, <2>3, <2>6
<1> QED BY <1>2, <1>3

\* A set of naturals has a least one.
LEMMA MinimoNatural ==
  ASSUME NEW S, S \subseteq Nat, S # {}
  PROVE  Min(S) \in S /\ \A y \in S : Min(S) <= y
<1>1. \E x \in S : \A y \in S : ~ (<<y, x>> \in OpToRel(<, Nat))
  BY NatLessThanWellFounded, WFMin
<1>2. PICK x \in S : \A y \in S : ~ (<<y, x>> \in OpToRel(<, Nat))
  BY <1>1
<1>3. ASSUME NEW y \in S PROVE x <= y
  <2>1. x \in Nat /\ y \in Nat
    OBVIOUS
  <2>2. ~ (y < x)
    BY <1>2, <2>1 DEF OpToRel
  <2> QED BY <2>1, <2>2
<1> QED BY <1>3 DEF Min

\* obtener_archivo_por_nombre finds the file of a name that is in the list...
LEMMA PorNombre ==
  ASSUME Listados, NEW n \in DOMAIN meta
  PROVE  obtener_archivo_por_nombre(n) = n
<1> DEFINE S == {i \in DOMAIN lista : lista[i] = n}
<1>1. obtener_archivo_por_nombre(n) = lista[IF S = {} THEN Len(lista) ELSE Min(S)]
  BY DEF obtener_archivo_por_nombre, Halla
<1>2. S \subseteq Nat /\ S # {}
  BY LenProperties DEF Listados, ToSet
<1> QED BY <1>1, <1>2, MinimoNatural

\* ...and obtener_archivo_por_bloque_inicial a file that begins at the block.
LEMMA PorBloque ==
  ASSUME Listados, NEW b, NEW m \in DOMAIN meta, meta[m].ini = b
  PROVE  /\ obtener_archivo_por_bloque_inicial(b) \in DOMAIN meta
         /\ meta[obtener_archivo_por_bloque_inicial(b)].ini = b
<1> DEFINE S == {i \in DOMAIN lista : meta[lista[i]].ini = b}
<1>1. obtener_archivo_por_bloque_inicial(b) = lista[IF S = {} THEN Len(lista) ELSE Min(S)]
  BY DEF obtener_archivo_por_bloque_inicial, Halla
<1>2. S \subseteq Nat /\ S # {}
  BY LenProperties DEF Listados, ToSet
<1>3. Min(S) \in S
  BY <1>2, MinimoNatural
<1> QED BY <1>1, <1>2, <1>3 DEF Listados, ToSet

\* A list without one of its elements...
LEMMA SinUno ==
  ASSUME NEW T, NEW q \in Seq(T), NEW k \in 1..Len(q)
  PROVE  /\ RemoveAt(q, k) \in Seq(T)
         /\ Len(RemoveAt(q, k)) = Len(q) - 1
         /\ \A i \in 1..(Len(q) - 1) : RemoveAt(q, k)[i] = IF i < k THEN q[i] ELSE q[i + 1]
<1> DEFINE u == SubSeq(q, 1, k - 1)
           v == SubSeq(q, k + 1, Len(q))
<1>1. Len(q) \in Nat /\ \A i \in 1..Len(q) : q[i] \in T
  BY LenProperties, ElementOfSeq
<1>2. u \in Seq(T) /\ Len(u) = k - 1 /\ \A i \in 1..(k - 1) : u[i] = q[i]
  BY <1>1, SubSeqProperties
<1>3. v \in Seq(T) /\ Len(v) = Len(q) - k /\ \A i \in 1..(Len(q) - k) : v[i] = q[i + k]
  <2>1. \A i \in (k + 1)..Len(q) : q[i] \in T
    BY <1>1
  <2>2. k + 1 \in Int /\ Len(q) \in Int
    BY <1>1
  <2>3. /\ v \in Seq(T)
        /\ Len(v) = IF k + 1 <= Len(q) THEN Len(q) - (k + 1) + 1 ELSE 0
        /\ \A i \in 1..(Len(q) - (k + 1) + 1) : v[i] = q[(k + 1) + i - 1]
    BY <2>1, <2>2, SubSeqProperties
  <2> HIDE DEF v
  <2>4. Len(v) = Len(q) - k
    BY <1>1, <2>3
  <2>5. ASSUME NEW i \in 1..(Len(q) - k) PROVE v[i] = q[i + k]
    <3>1. i \in 1..(Len(q) - (k + 1) + 1) /\ (k + 1) + i - 1 = i + k
      BY <1>1
    <3> QED BY <2>3, <3>1
  <2> QED BY <2>3, <2>4, <2>5
<1> HIDE DEF u, v
<1>4. /\ u \o v \in Seq(T) /\ Len(u \o v) = Len(u) + Len(v)
      /\ \A i \in 1..(Len(u) + Len(v)) :
           (u \o v)[i] = IF i <= Len(u) THEN u[i] ELSE v[i - Len(u)]
  BY <1>2, <1>3, ConcatProperties
<1>5. RemoveAt(q, k) = u \o v
  BY DEF RemoveAt, u, v
<1>6. ASSUME NEW i \in 1..(Len(q) - 1)
      PROVE  (u \o v)[i] = IF i < k THEN q[i] ELSE q[i + 1]
  <2>1. (u \o v)[i] = IF i <= k - 1 THEN u[i] ELSE v[i - (k - 1)]
    BY <1>1, <1>2, <1>3, <1>4
  <2>2. CASE i < k
    BY <1>1, <1>2, <2>1, <2>2
  <2>3. CASE i >= k
    <3>1. i - (k - 1) \in 1..(Len(q) - k) /\ i - (k - 1) + k = i + 1
      BY <1>1, <2>3
    <3> QED BY <1>1, <1>3, <2>1, <2>3, <3>1
  <2>4. i < k \/ i >= k
    BY <1>1
  <2> QED BY <2>2, <2>3, <2>4
<1>7. u \o v \in Seq(T) /\ Len(u \o v) = Len(q) - 1
  BY <1>1, <1>2, <1>3, <1>4
<1> QED BY <1>5, <1>6, <1>7

\* ...and lista_archivos without a file.
LEMMA Quitado ==
  ASSUME Listados, NEW n \in DOMAIN meta
  PROVE  LET s == RemoveFirst(lista, n) IN
         /\ s \in Seq(Nombres) /\ ToSet(s) = DOMAIN meta \ {n}
         /\ \A i, j \in DOMAIN s : s[i] = s[j] => i = j
<1> DEFINE S == {i \in 1..Len(lista) : lista[i] = n}
           k == Min(S)
<1>0. DOMAIN lista = 1..Len(lista) /\ Len(lista) \in Nat
  BY LenProperties DEF Listados
<1>1. S \subseteq Nat /\ S # {}
  BY <1>0 DEF Listados, ToSet
<1>2. k \in 1..Len(lista) /\ lista[k] = n
  BY <1>1, MinimoNatural
<1>3. RemoveFirst(lista, n) = RemoveAt(lista, k)
  BY <1>1 DEF RemoveFirst, SelectInSeq
<1> HIDE DEF S, k
<1> DEFINE s == RemoveAt(lista, k)
<1>5. /\ s \in Seq(Nombres) /\ Len(s) = Len(lista) - 1
      /\ \A i \in 1..(Len(lista) - 1) : s[i] = IF i < k THEN lista[i] ELSE lista[i + 1]
  BY <1>2, SinUno DEF Listados
<1>6. DOMAIN s = 1..(Len(lista) - 1)
  BY <1>5, LenProperties
<1> HIDE DEF s
<1>7. /\ \A i, j \in 1..Len(lista) : lista[i] = lista[j] => i = j
      /\ DOMAIN meta = {lista[i] : i \in 1..Len(lista)}
  BY <1>0 DEF Listados, ToSet
<1>8. ASSUME NEW i \in DOMAIN s, NEW j \in DOMAIN s, s[i] = s[j] PROVE i = j
  <2>1. i \in 1..(Len(lista) - 1) /\ j \in 1..(Len(lista) - 1)
    BY <1>6
  <2>2. /\ s[i] = IF i < k THEN lista[i] ELSE lista[i + 1]
        /\ s[j] = IF j < k THEN lista[j] ELSE lista[j + 1]
    BY <1>5, <2>1
  <2>3. /\ i \in 1..Len(lista) /\ i + 1 \in 1..Len(lista)
        /\ j \in 1..Len(lista) /\ j + 1 \in 1..Len(lista)
    BY <1>0, <2>1
  <2> DEFINE e(x) == IF x < k THEN x ELSE x + 1
  <2>4. /\ e(i) \in 1..Len(lista) /\ e(j) \in 1..Len(lista)
        /\ s[i] = lista[e(i)] /\ s[j] = lista[e(j)]
    BY <2>2, <2>3
  <2>5. e(i) = e(j)
    BY <1>7, <1>8, <2>4
  <2> QED BY <1>0, <1>2, <2>1, <2>5
<1>9. ToSet(s) = DOMAIN meta \ {n}
  <2>1. ASSUME NEW i \in DOMAIN s PROVE s[i] \in DOMAIN meta \ {n}
    <3>1. i \in 1..(Len(lista) - 1) /\ s[i] = IF i < k THEN lista[i] ELSE lista[i + 1]
      BY <1>5, <1>6
    <3>2. i \in 1..Len(lista) /\ i + 1 \in 1..Len(lista)
      BY <1>0, <3>1
    <3> QED BY <1>2, <1>7, <3>1, <3>2
  <2>2. ASSUME NEW m \in DOMAIN meta \ {n} PROVE \E i \in DOMAIN s : s[i] = m
    <3>1. PICK j \in 1..Len(lista) : lista[j] = m
      BY <1>7
    <3>2. j # k
      BY <1>2, <3>1
    <3>3. CASE j < k
      <4>1. j \in DOMAIN s /\ s[j] = m
        BY <1>0, <1>2, <1>5, <1>6, <3>1, <3>3
      <4> QED BY <4>1
    <3>4. CASE j > k
      <4>1. j - 1 \in 1..(Len(lista) - 1) /\ ~ (j - 1 < k) /\ j - 1 + 1 = j
        BY <1>0, <1>2, <3>1, <3>4
      <4>2. s[j - 1] = m
        BY <1>5, <3>1, <4>1
      <4> QED BY <1>6, <4>1, <4>2
    <3> QED BY <1>0, <1>2, <3>2, <3>3, <3>4
  <2> QED BY <2>1, <2>2 DEF ToSet
<1> QED BY <1>3, <1>5, <1>8, <1>9 DEF s

\* The list that iniciar_file_system makes has each file once, in any order.
LEMMA Reordenado ==
  ASSUME Listados, NEW s \in SetToSeqs(DOMAIN meta)
  PROVE  /\ s \in Seq(Nombres) /\ ToSet(s) = DOMAIN meta
         /\ \A i, j \in DOMAIN s : s[i] = s[j] => i = j
<1> DEFINE D == DOMAIN meta
           n == Cardinality(D)
<1>1. DOMAIN lista = 1..Len(lista) /\ Len(lista) \in Nat
  BY LenProperties DEF Listados
<1>2. lista \in Surjection(1..Len(lista), D)
  BY <1>1 DEF Listados, ToSet, Surjection
<1>3. IsFiniteSet(D)
  BY <1>1, <1>2, FS_Surjection, FS_Interval
<1>4. n \in Nat
  BY <1>3, FS_CardinalityType
<1>5. s \in [1..n -> D] /\ \A i, j \in 1..n : i # j => s[i] # s[j]
  BY DEF SetToSeqs
<1>6. s \in Injection(1..n, D)
  BY <1>5 DEF Injection, IsInjective
<1>7. Cardinality(1..n) = n
  BY <1>4, FS_Interval
<1>8. s \in Surjection(1..n, D)
  BY <1>3, <1>6, <1>7, FS_Injection
<1>9. D \subseteq Nombres
  BY DEF Listados, ToSet
<1>10. s \in Seq(Nombres) /\ DOMAIN s = 1..n
  BY <1>4, <1>5, <1>9
<1>11. \A m \in D : \E i \in 1..n : s[i] = m
  BY <1>8 DEF Surjection
<1> HIDE DEF n, D
<1>12. ToSet(s) = D
  BY <1>5, <1>10, <1>11 DEF ToSet
<1> QED BY <1>5, <1>10, <1>12 DEF D
\* The request works on the file it names.
LEMMA Hallado ==
  ASSUME Listados, Archivo \in DOMAIN meta
  PROVE  A = op.nombre
BY PorNombre DEF A, Archivo

\* What Inv says of every number in a request.
LEMMA Medidas ==
  ASSUME Inv
  PROVE  /\ \A n \in DOMAIN meta :
              /\ meta[n].ini \in Nat /\ meta[n].tam \in Nat
              /\ Cuantos(n) \in Nat /\ Cuantos(n) >= 1
              /\ meta[n].tam <= Cuantos(n) * BlockSize
              /\ meta[n].ini + Cuantos(n) <= MaxBit
              /\ BloquesDe(n) = Tramo(meta[n].ini, Cuantos(n))
         /\ op.t \in Nat /\ BloquesNuevos \in Nat /\ BloquesNuevos >= 1
         /\ MaxBit \in Nat /\ Bloques = 0..(MaxBit - 1) /\ bitmap \subseteq Bloques
<1>1. \A n \in DOMAIN meta : meta[n].ini \in Nat /\ meta[n].tam \in Nat /\ op.t \in Nat
  BY DEF Inv, Geometria, Pedido
<1>2. op.t \in Nat
  BY DEF Inv, Pedido
<1> QED BY <1>1, <1>2, BloquesDeBytes, BitsEnteros DEF Inv, Geometria, Bitmap, Cuantos,
           BloquesDe, BloquesNuevos, Bloques

\* posicion_bloque_libre is the first free block...
LEMMA PrimeroLibre ==
  ASSUME Libres # {}
  PROVE  posicion_bloque_libre \in Libres /\ \A x \in Libres : posicion_bloque_libre <= x
<1>1. Libres \subseteq Nat
  BY BitsEnteros DEF Libres, Bloques
<1> QED BY <1>1, MinimoNatural DEF posicion_bloque_libre

\* ...and bloque_ocupado_desde the first block in use from one on, or none.
LEMMA PrimeroMarcado ==
  ASSUME bitmap \subseteq Bloques, NEW d \in Nat
  PROVE  LET b == bloque_ocupado_desde(d) IN
         \/ b = -1 /\ \A x \in bitmap : x < d
         \/ b \in bitmap /\ b >= d /\ \A x \in bitmap : x >= d => b <= x
<1> DEFINE S == {x \in bitmap : x >= d}
<1>0. Bloques \subseteq Nat
  BY BitsEnteros DEF Bloques
<1>1. S \subseteq Nat /\ bitmap \subseteq Nat
  BY <1>0
<1>2. bloque_ocupado_desde(d) = IF S = {} THEN -1 ELSE Min(S)
  BY DEF bloque_ocupado_desde
<1>3. CASE S = {}
  BY <1>1, <1>2, <1>3
<1>4. CASE S # {}
  <2>1. Min(S) \in S /\ \A y \in S : Min(S) <= y
    BY <1>1, <1>4, MinimoNatural
  <2> QED BY <1>2, <1>4, <2>1
<1> QED BY <1>3, <1>4

\* limpiar_n_bytes_bloques and memcpy leave a file of blocks.
LEMMA LimpioTipo ==
  ASSUME NEW d \in [Bytes -> Valores \cup {0}], NEW b, NEW k
  PROVE  /\ Limpio(d, b, k) \in [Bytes -> Valores \cup {0}]
         /\ \A x \in Bytes : Limpio(d, b, k)[x] = IF x \in Tramo(b, k) THEN 0 ELSE d[x]
BY DEF Limpio

\* What is in the file of blocks after bytes are written.
LEMMA CopiadoTipo ==
  ASSUME NEW d \in [Bytes -> Valores \cup {0}], NEW b \in Nat, NEW s \in Seq(Valores \cup {0})
  PROVE  /\ Copiado(d, b, s) \in [Bytes -> Valores \cup {0}]
         /\ \A x \in Bytes :
              Copiado(d, b, s)[x] = IF x \in Tramo(b, Len(s)) THEN s[x - b + 1] ELSE d[x]
<1>1. Len(s) \in Nat /\ \A i \in 1..Len(s) : s[i] \in Valores \cup {0}
  BY LenProperties, ElementOfSeq
<1>2. ASSUME NEW x \in Bytes, x \in Tramo(b, Len(s)) PROVE s[x - b + 1] \in Valores \cup {0}
  <2>1. x - b + 1 \in 1..Len(s)
    BY <1>1, <1>2 DEF Tramo
  <2> QED BY <1>1, <2>1
<1> QED BY <1>2 DEF Copiado

\* What is read of the file of blocks.
LEMMA LeidosTipo ==
  ASSUME datos \in [Bytes -> Valores \cup {0}], NEW b \in Nat, NEW k \in Nat
  PROVE  /\ Leidos(b, k) \in Seq(Valores \cup {0, Basura})
         /\ Len(Leidos(b, k)) = k
         /\ b + k <= BlockCount * BlockSize => Leidos(b, k) \in Seq(Valores \cup {0})
<1>1. /\ Leidos(b, k) = [i \in 1..k |-> IF b + i - 1 \in Bytes THEN datos[b + i - 1] ELSE Basura]
      /\ \A i \in 1..k : Leidos(b, k)[i] \in Valores \cup {0, Basura}
  BY DEF Leidos
<1>2. Leidos(b, k) \in [1..k -> Valores \cup {0, Basura}]
  BY <1>1
<1>3. Leidos(b, k) \in Seq(Valores \cup {0, Basura}) /\ Len(Leidos(b, k)) = k
  BY <1>2
<1>4. ASSUME b + k <= BlockCount * BlockSize PROVE Leidos(b, k) \in Seq(Valores \cup {0})
  <2>1. BlockCount * BlockSize \in Nat
    BY DialfsAssumption
  <2>2. \A i \in 1..k : b + i - 1 \in Bytes
    BY <1>4, <2>1 DEF Bytes
  <2>3. Leidos(b, k) \in [1..k -> Valores \cup {0}]
    BY <1>1, <2>2
  <2> QED BY <2>3
<1> QED BY <1>3, <1>4

\* What fits in the blocks of a file is within the file of blocks.
LEMMA EnElDisco ==
  ASSUME NEW i \in Nat, NEW k \in Nat, i + k <= MaxBit, NEW t \in Nat, t <= k * BlockSize
  PROVE  /\ i * BlockSize \in Nat
         /\ i * BlockSize + t <= BlockCount * BlockSize
<1>1. i + k \in Nat /\ BlockCount \in Nat /\ i + k <= BlockCount
  BY DialfsAssumption, BitsEnteros
<1>2. (i + k) * BlockSize <= BlockCount * BlockSize
  BY <1>1, Producto
<1>3. (i + k) * BlockSize = i * BlockSize + k * BlockSize
  BY Producto
<1>4. i * BlockSize \in Nat /\ k * BlockSize \in Nat /\ BlockCount * BlockSize \in Nat
  BY <1>1, Producto
<1> QED BY <1>2, <1>3, <1>4

\* Runs that are apart have no block in common.
LEMMA TramosAparte ==
  ASSUME NEW i \in Nat, NEW k \in Nat, NEW j \in Nat, NEW l \in Nat, Aparte(i, k, j, l)
  PROVE  \A x : ~ (x \in Tramo(i, k) /\ x \in Tramo(j, l))
BY DEF Aparte, Tramo

\* The bitmap after a step that changes the bits of one file.
LEMMA BitmapIgual ==
  ASSUME Bitmap, bitmap' = bitmap, DOMAIN meta' = DOMAIN meta,
         \A n \in DOMAIN meta : Desde(n)' = Desde(n) /\ Marcados(n)' = Marcados(n)
  PROVE  Bitmap'
BY DEF Bitmap

LEMMA BitmapQuita ==
  ASSUME Bitmap, NEW nm \in DOMAIN meta, NEW T, bitmap' = bitmap \ T,
         DOMAIN meta' = DOMAIN meta,
         \A n \in DOMAIN meta \ {nm} :
           /\ Desde(n)' = Desde(n) /\ Marcados(n)' = Marcados(n)
           /\ \A x : ~ (x \in T /\ x \in Tramo(Desde(n), Marcados(n))),
         \A x \in Bloques : x \in Tramo(Desde(nm)', Marcados(nm)')
                              <=> x \in Tramo(Desde(nm), Marcados(nm)) /\ x \notin T
  PROVE  Bitmap'
<1>1. bitmap' \subseteq Bloques
  BY DEF Bitmap
<1>2. ASSUME NEW x \in Bloques
      PROVE  x \in bitmap' <=> \E n \in DOMAIN meta' : x \in Tramo(Desde(n)', Marcados(n)')
  <2>1. x \in bitmap <=> \E n \in DOMAIN meta : x \in Tramo(Desde(n), Marcados(n))
    BY DEF Bitmap
  <2> QED BY <2>1
<1> QED BY <1>1, <1>2 DEF Bitmap

LEMMA BitmapPone ==
  ASSUME Bitmap, NEW nm \in DOMAIN meta, NEW T \in SUBSET Bloques, bitmap' = bitmap \cup T,
         DOMAIN meta' = DOMAIN meta,
         \A n \in DOMAIN meta \ {nm} : Desde(n)' = Desde(n) /\ Marcados(n)' = Marcados(n),
         \A x \in Bloques : x \in Tramo(Desde(nm)', Marcados(nm)')
                              <=> x \in Tramo(Desde(nm), Marcados(nm)) \/ x \in T
  PROVE  Bitmap'
<1>1. bitmap' \subseteq Bloques
  BY DEF Bitmap
<1>2. ASSUME NEW x \in Bloques
      PROVE  x \in bitmap' <=> \E n \in DOMAIN meta' : x \in Tramo(Desde(n)', Marcados(n)')
  <2>1. x \in bitmap <=> \E n \in DOMAIN meta : x \in Tramo(Desde(n), Marcados(n))
    BY DEF Bitmap
  <2> QED BY <2>1
<1> QED BY <1>1, <1>2 DEF Bitmap

\* Ceros after a step that writes no byte.
LEMMA CerosIgual ==
  ASSUME Ceros, datos' = datos, DOMAIN meta' = DOMAIN meta,
         \A n \in DOMAIN meta : DatosDesde(n)' = DatosDesde(n) /\ ConDatos(n)' = ConDatos(n)
  PROVE  Ceros'
BY DEF Ceros

\* An answer that leaves the disk as it is.
LEMMA SinCambios ==
  ASSUME Inv, Termina, UNCHANGED <<disco, lista, reinicios>>,
         paso \in {"CREATE", "TRUNCATE", "WRITE", "READ"},
         leido' \in Seq(Valores \cup {0, Basura})
  PROVE  Inv'
<1>1. /\ paso' = "espera" /\ op' = Nada /\ copia' = <<>> /\ libre' = 0 /\ movido' = Nadie
      /\ meta' = meta /\ lista' = lista /\ bitmap' = bitmap /\ datos' = datos
      /\ reinicios' = reinicios
  BY DEF Termina, SinLocales, disco
<1>2. \A n \in DOMAIN meta :
        /\ Desde(n) = meta[n].ini /\ Marcados(n) = Cuantos(n)
        /\ DatosDesde(n) = meta[n].ini /\ ConDatos(n) = meta[n].tam
  BY DEF Desde, Marcados, DatosDesde, ConDatos
<1>3. \A n \in DOMAIN meta :
        /\ Desde(n)' = meta[n].ini /\ Marcados(n)' = Cuantos(n) /\ Cuantos(n)' = Cuantos(n)
        /\ DatosDesde(n)' = meta[n].ini /\ ConDatos(n)' = meta[n].tam
  BY <1>1 DEF Desde, Marcados, DatosDesde, ConDatos, Cuantos
<1>4. Listados'
  BY <1>1 DEF Inv, Listados
<1>5. Pedido'
  BY <1>1, DialfsAssumption DEF Pedido, Nada, Pasos, Compactando, ConArchivo
<1>6. Restos'
  <2>1. <<>> \in Seq(Valores \cup {0})
    OBVIOUS
  <2> QED BY <1>1, <2>1 DEF Inv, Restos
<1>7. Geometria'
  BY <1>1, <1>3 DEF Inv, Geometria
<1>8. Bitmap'
  BY <1>1, <1>2, <1>3, BitmapIgual DEF Inv
<1>9. Separados'
  BY <1>1, <1>3 DEF Inv, Separados, Fuera
<1>10. Apartados' /\ Compactacion'
  BY <1>1 DEF Apartados, Fuera, Compactacion
<1>11. Ceros'
  BY <1>1, <1>2, <1>3, CerosIgual DEF Inv
<1> QED BY <1>4, <1>5, <1>6, <1>7, <1>8, <1>9, <1>10, <1>11 DEF Inv

\* The bits of a file are 1.
LEMMA SusBits ==
  ASSUME Inv, NEW n \in DOMAIN meta, NEW b \in Nat, NEW k \in Nat,
         Desde(n) = b, Marcados(n) = k
  PROVE  b + k <= MaxBit /\ \A x \in Nat : b <= x /\ x < b + k => x \in bitmap
<1>1. b + k <= MaxBit
  BY DEF Inv, Geometria
<1>2. ASSUME NEW x \in Nat, b <= x, x < b + k PROVE x \in bitmap
  <2>1. x < MaxBit
    BY <1>1, <1>2, BitsEnteros
  <2>2. x \in Bloques /\ x \in Tramo(b, k)
    BY <1>2, <2>1, Bits, TramoMiembro
  <2> QED BY <2>2 DEF Inv, Bitmap
<1> QED BY <1>1, <1>2

\* A run of blocks.
LEMMA TramoFinito ==
  ASSUME NEW b \in Nat, NEW k \in Nat
  PROVE  IsFiniteSet(Tramo(b, k)) /\ Cardinality(Tramo(b, k)) = k
<1>1. b + k - 1 \in Int /\ b \in Int /\ (b > b + k - 1 <=> k = 0) /\ (b + k - 1) - b + 1 = k
  OBVIOUS
<1>2. IsFiniteSet(b..(b + k - 1)) /\ Cardinality(b..(b + k - 1)) = k
  BY <1>1, FS_Interval
<1> QED BY <1>2 DEF Tramo

\* Sets of blocks are finite.
LEMMA BloquesFinitos == IsFiniteSet(Bloques) /\ \A S \in SUBSET Bloques : IsFiniteSet(S)
<1>1. IsFiniteSet(0..(MaxBit - 1))
  BY BitsEnteros, FS_Interval
<1>2. IsFiniteSet(Bloques)
  BY <1>1 DEF Bloques
<1> QED BY <1>2, FS_Subset

\* Cardinality of a disjoint union.
LEMMA Disjuntos ==
  ASSUME NEW S, NEW T, IsFiniteSet(S), IsFiniteSet(T), S \cap T = {}
  PROVE  Cardinality(S \cup T) = Cardinality(S) + Cardinality(T)
<1>1. Cardinality(S \cup T) = Cardinality(S) + Cardinality(T) - Cardinality(S \cap T)
  BY FS_Union
<1>2. Cardinality(S) \in Nat /\ Cardinality(T) \in Nat /\ Cardinality(S \cap T) = 0
  BY FS_CardinalityType, FS_EmptySet
<1> QED BY <1>1, <1>2

\* A file moved within the bitmap leaves as many free blocks as there were.
LEMMA Intercambio ==
  ASSUME bitmap \subseteq Bloques, NEW b \in Nat, NEW f \in Nat, NEW k \in Nat,
         Tramo(b, k) \subseteq bitmap, Tramo(f, k) \subseteq Bloques,
         Tramo(f, k) \cap (bitmap \ Tramo(b, k)) = {}
  PROVE  Cardinality(Bloques \ ((bitmap \ Tramo(b, k)) \cup Tramo(f, k)))
           = Cardinality(Bloques \ bitmap)
<1> DEFINE R == Bloques \ ((bitmap \ Tramo(b, k)) \cup Tramo(f, k))
           L == Bloques \ bitmap
           T == Tramo(b, k)
           S == Tramo(f, k)
<1>1. IsFiniteSet(S) /\ Cardinality(S) = k /\ IsFiniteSet(T) /\ Cardinality(T) = k
  BY TramoFinito
<1>2. IsFiniteSet(R) /\ IsFiniteSet(L)
  BY BloquesFinitos
<1>3. R \cup S = L \cup T /\ R \cap S = {} /\ L \cap T = {}
  OBVIOUS
<1> HIDE DEF R, L, S, T
<1>4. Cardinality(R) \in Nat /\ Cardinality(L) \in Nat
  BY <1>2, FS_CardinalityType
<1>5. Cardinality(R \cup S) = Cardinality(R) + k
  BY <1>1, <1>2, <1>3, Disjuntos
<1>6. Cardinality(L \cup T) = Cardinality(L) + k
  BY <1>1, <1>2, <1>3, Disjuntos
<1>7. Cardinality(R) = Cardinality(L)
  <2>1. Cardinality(R) + k = Cardinality(L) + k
    BY <1>3, <1>5, <1>6
  <2> QED BY <1>4, <2>1
<1> QED BY <1>7 DEF R, L

----------------------------------------------------------------------------
(* What the two steps that move bytes do.                                   *)

\* The bytes of the file m go from the block b to the block f, the first free one.
Muda(f, b, m) ==
    /\ paso = "compactar" /\ paso' = "mover" /\ op' = op /\ meta' = meta
    /\ movido = Nadie /\ bitmap' = bitmap /\ copia' = copia /\ lista' = lista
    /\ op.nombre \in DOMAIN meta /\ libre' = f /\ movido' = m /\ meta[m].ini = b
    /\ f \in Bloques /\ f \notin bitmap /\ \A x \in Bloques : x < f => x \in bitmap
    /\ b \in bitmap /\ b > f /\ \A x \in bitmap : x >= f => b <= x
    /\ datos' = Copiado(Limpio(datos, b * BlockSize, meta[m].tam), f * BlockSize,
                        Leidos(b * BlockSize, meta[m].tam))
    /\ Leidos(b * BlockSize, meta[m].tam) \in Seq(Valores \cup {0})
    /\ Len(Leidos(b * BlockSize, meta[m].tam)) = meta[m].tam
    /\ datos' \in [Bytes -> Valores \cup {0}]
    /\ \A x \in Bytes :
         x \notin Tramo(f * BlockSize, meta[m].tam) =>
           datos'[x] = IF x \in Tramo(b * BlockSize, meta[m].tam) THEN 0 ELSE datos[x]

\* The copy is written from the block f on, which is after every bit.
Pega(f) ==
    /\ paso = "compactar" /\ paso' = "pegar" /\ op' = op /\ meta' = meta
    /\ op.nombre \in DOMAIN meta /\ movido = Nadie /\ movido' = Nadie /\ copia' = copia
    /\ bitmap' = bitmap /\ libre' = f /\ f \in Libres /\ f + BloquesNuevos <= MaxBit
    /\ datos' = Copiado(datos, f * BlockSize, copia) /\ copia \in Seq(Valores \cup {0})
    /\ Len(copia) = meta[op.nombre].tam
    /\ datos' \in [Bytes -> Valores \cup {0}]
    /\ \A x \in bitmap : x < f
    /\ \A x \in Bytes :
         x \notin Tramo(f * BlockSize, meta[op.nombre].tam) => datos'[x] = datos[x]

----------------------------------------------------------------------------
(* One lemma per action: it keeps the invariant.                            *)

\* io_fs_create with no free block changes nothing.
LEMMA CreaSinLugarInv ==
  ASSUME Inv, CreaSinLugar
  PROVE  Inv'
<1>1. Listados'
  BY DEF Inv, Listados, CreaSinLugar, disco
<1>2. Pedido'
  BY DEF Inv, Pedido, Pasos, Compactando, ConArchivo, CreaSinLugar, Sigue, locales
<1>3. Restos'
  BY DEF Inv, Restos, CreaSinLugar, Sigue, disco, locales
<1>4. Geometria'
  BY DEF Inv, Geometria, Desde, Marcados, Cuantos, CreaSinLugar, Sigue, disco
<1>5. Bitmap'
  BY DEF Inv, Bitmap, Desde, Marcados, Cuantos, CreaSinLugar, Sigue, disco
<1>6. Separados'
  BY DEF Inv, Separados, Cuantos, Fuera, CreaSinLugar, disco
<1>7. Apartados'
  BY DEF Apartados, Fuera, CreaSinLugar, Sigue
<1>8. Compactacion'
  BY DEF Compactacion, CreaSinLugar, Sigue
<1>9. Ceros'
  BY DEF Inv, Ceros, DatosDesde, ConDatos, CreaSinLugar, Sigue, disco
<1> QED BY <1>1, <1>2, <1>3, <1>4, <1>5, <1>6, <1>7, <1>8, <1>9 DEF Inv

\* io_fs_create of a file that exists writes its metadata anew.
LEMMA CreaExistenteInv ==
  ASSUME Inv, CreaExistente
  PROVE  Inv'
<1>1. Termina /\ UNCHANGED <<disco, lista, reinicios>> /\ leido' = leido
      /\ paso \in {"CREATE", "TRUNCATE", "WRITE", "READ"}
  BY DEF CreaExistente, Amplia
<1>2. leido \in Seq(Valores \cup {0, Basura})
  BY DEF Inv, Restos
<1> QED BY <1>1, <1>2, SinCambios

\* io_fs_create: the new file has one block, which was free.
LEMMA CreaInv ==
  ASSUME Inv, Crea
  PROVE  Inv'
<1>1. PICK nm : nm = op.nombre
  OBVIOUS
<1>2. /\ Libres # {} /\ nm \notin DOMAIN meta /\ nm \in Nombres /\ nm # Nadie
      /\ paso = "CREATE" /\ paso' = "marcar" /\ op' = op /\ movido = Nadie /\ movido' = Nadie
      /\ bitmap' = bitmap /\ lista' = Append(lista, nm)
  BY <1>1, DialfsAssumption DEF Inv, Crea, Sigue, Pedido
<1>3. libre' \in Libres
  BY PrimeroLibre DEF Crea
<1>4. /\ DOMAIN meta' = DOMAIN meta \cup {nm}
      /\ \A n \in DOMAIN meta : n # nm /\ meta'[n] = meta[n]
      /\ meta'[nm] = [ini |-> libre', tam |-> 0]
  BY <1>1, <1>2 DEF Crea
<1>5. libre' \in Nat /\ libre' + 1 <= MaxBit /\ libre' \notin bitmap
  BY <1>3, BitsEnteros, Bits DEF Libres
<1>6. bytes_a_bloques(0) = 1
  BY DEF bytes_a_bloques
<1>7. /\ \A n \in {nm} : Desde(n)' = libre' /\ Marcados(n)' = 0 /\ Cuantos(n)' = 1
      /\ \A n \in DOMAIN meta :
           /\ Desde(n)' = meta[n].ini /\ Marcados(n)' = Cuantos(n) /\ Cuantos(n)' = Cuantos(n)
           /\ Desde(n) = meta[n].ini /\ Marcados(n) = Cuantos(n)
  BY <1>1, <1>2, <1>4, <1>6 DEF Desde, Marcados, Cuantos, Archivo
<1>8. \A n \in DOMAIN meta : libre' \notin Tramo(meta[n].ini, Cuantos(n))
  BY <1>3, <1>5, <1>7 DEF Inv, Bitmap, Libres
<1>9. Listados'
  <2>0. DOMAIN lista = 1..Len(lista) /\ Len(lista) \in Nat /\ lista \in Seq(Nombres)
    BY LenProperties DEF Inv, Listados
  <2>1. /\ lista' \in Seq(Nombres) /\ DOMAIN lista' = 1..(Len(lista) + 1)
        /\ \A i \in 1..Len(lista) : lista'[i] = lista[i]
        /\ lista'[Len(lista) + 1] = nm
    BY <1>2, <2>0
  <2>2. \A i \in 1..Len(lista) : lista[i] \in DOMAIN meta
    BY <2>0 DEF Inv, Listados, ToSet
  <2>3. \A m \in DOMAIN meta : \E i \in 1..Len(lista) : lista[i] = m
    BY <2>0 DEF Inv, Listados, ToSet
  <2>4. \A i \in 1..(Len(lista) + 1) : i \in 1..Len(lista) \/ i = Len(lista) + 1
    BY <2>0
  <2>5. ToSet(lista') = DOMAIN meta'
    <3>1. \A i \in DOMAIN lista' : lista'[i] \in DOMAIN meta'
      BY <1>4, <2>1, <2>2, <2>4
    <3>2. \A m \in DOMAIN meta' : \E i \in DOMAIN lista' : lista'[i] = m
      BY <1>4, <2>0, <2>1, <2>3
    <3> QED BY <3>1, <3>2 DEF ToSet
  <2>6. \A i, j \in 1..Len(lista) : lista[i] = lista[j] => i = j
    BY <2>0 DEF Inv, Listados
  <2>7. \A i, j \in DOMAIN lista' : lista'[i] = lista'[j] => i = j
    BY <1>2, <2>1, <2>2, <2>4, <2>6
  <2> QED BY <2>1, <2>5, <2>7 DEF Listados
<1>10. Pedido'
  BY DEF Inv, Pedido, Pasos, Compactando, Archivo, Crea, Sigue
<1>11. Restos'
  <2>1. meta' \in [DOMAIN meta' -> [ini : Nat, tam : Nat]]
    <3>1. /\ meta \in [DOMAIN meta -> [ini : Nat, tam : Nat]]
          /\ meta' = [n \in DOMAIN meta \cup {nm} |->
                        IF n = nm THEN [ini |-> libre', tam |-> 0] ELSE meta[n]]
      BY <1>1 DEF Inv, Restos, Crea
    <3>2. [ini |-> libre', tam |-> 0] \in [ini : Nat, tam : Nat]
      BY <1>5
    <3> QED BY <3>1, <3>2
  <2> QED BY <1>2, <1>3, <1>4, <2>1 DEF Inv, Restos, Crea, Libres
<1>12. Geometria'
  <2>1. \A n \in DOMAIN meta :
          /\ meta[n].ini \in Nat /\ meta[n].tam \in Nat /\ meta[n].ini + Cuantos(n) <= MaxBit
    BY Medidas
  <2>2. ASSUME NEW n \in DOMAIN meta'
        PROVE  /\ meta'[n].ini \in Nat /\ meta'[n].tam \in Nat
               /\ meta'[n].ini + Cuantos(n)' <= MaxBit
               /\ Desde(n)' + Marcados(n)' <= MaxBit
    <3>1. CASE n \in DOMAIN meta
      BY <1>4, <1>7, <2>1, <3>1
    <3>2. CASE n = nm
      <4>1. /\ meta'[n].ini = libre' /\ meta'[n].tam = 0 /\ Cuantos(n)' = 1
            /\ Desde(n)' = libre' /\ Marcados(n)' = 0
        BY <1>4, <1>7, <3>2
      <4>2. \A l \in Nat : l + 1 <= MaxBit => l + 0 <= MaxBit
        BY BitsEnteros
      <4>3. libre' + 0 <= MaxBit
        BY <1>5, <4>2
      <4> QED BY <1>5, <4>1, <4>3
    <3> QED BY <1>4, <3>1, <3>2
  <2> QED BY <2>2 DEF Geometria
<1>13. Bitmap'
  BY <1>2, <1>4, <1>5, <1>7 DEF Inv, Bitmap, Tramo
<1>14. Separados'
  <2>1. \A n \in DOMAIN meta : Aparte(libre', 1, meta[n].ini, Cuantos(n))
                               /\ Aparte(meta[n].ini, Cuantos(n), libre', 1)
    BY <1>5, <1>8, Medidas DEF Aparte, Tramo
  <2> QED BY <1>2, <1>4, <1>7, <2>1 DEF Inv, Separados, Fuera
<1>15. Apartados'
  BY DEF Apartados, Fuera, Crea, Sigue
<1>16. Compactacion'
  BY <1>2, <1>3 DEF Compactacion, Libres
<1>17. Ceros'
  <2>1. /\ datos' = datos
        /\ \A n \in DOMAIN meta :
             DatosDesde(n)' = DatosDesde(n) /\ ConDatos(n)' = ConDatos(n)
    BY <1>1, <1>2, <1>4 DEF Crea, DatosDesde, ConDatos, Archivo
  <2> QED BY <1>4, <2>1 DEF Inv, Ceros
<1> QED BY <1>9, <1>10, <1>11, <1>12, <1>13, <1>14, <1>15, <1>16, <1>17 DEF Inv

\* io_fs_create: the bit of the new file.
LEMMA CreaMarcaInv ==
  ASSUME Inv, CreaMarca
  PROVE  Inv'
<1>1. A = op.nombre /\ op.nombre \in DOMAIN meta
  BY Hallado DEF Inv, Pedido, ConArchivo, Compactando, Archivo, CreaMarca, Amplia
<1>2. PICK nm : nm = op.nombre
  OBVIOUS
<1>3. /\ paso = "marcar" /\ paso' = "espera" /\ meta' = meta /\ bitmap' = bitmap \cup {libre}
      /\ movido = Nadie /\ movido' = Nadie /\ meta[nm] = [ini |-> libre, tam |-> 0]
      /\ libre \in Bloques
  BY <1>1, <1>2 DEF Inv, Pedido, Compactacion, CreaMarca, Termina, SinLocales, Archivo,
     Libres
<1>4. bytes_a_bloques(0) = 1
  BY DEF bytes_a_bloques
<1>5. /\ Desde(nm)' = libre /\ Marcados(nm)' = 1 /\ Marcados(nm) = 0
      /\ \A n \in DOMAIN meta : Desde(n)' = Desde(n) /\ Cuantos(n)' = Cuantos(n)
      /\ \A n \in DOMAIN meta \ {nm} : Marcados(n)' = Marcados(n)
  <2>1. op'.nombre = Nadie /\ nm # Nadie
    BY <1>2, <1>3 DEF Inv, Pedido, CreaMarca, Termina, Nada
  <2>2. paso # "guardar" /\ paso # "reubicar" /\ nm # op'.nombre
    BY <1>2, <1>3, <2>1
  <2>3. \A n \in DOMAIN meta : n # Nadie
    BY <1>2, DialfsAssumption DEF Inv, Restos
  <2>4. \A n \in DOMAIN meta : Desde(n)' = meta[n].ini /\ Desde(n) = meta[n].ini
    BY <1>2, <1>3, <2>2 DEF Desde
  <2>5. \A n \in DOMAIN meta : Cuantos(n)' = Cuantos(n) /\ Marcados(n)' = Cuantos(n)
    BY <1>2, <1>3, <2>1, <2>3 DEF Marcados, Cuantos, Archivo
  <2>6. \A n \in DOMAIN meta : Marcados(n) = IF n = nm THEN 0 ELSE Cuantos(n)
    BY <1>2, <1>3 DEF Marcados, Archivo
  <2>7. Cuantos(nm) = 1 /\ meta[nm].ini = libre
    BY <1>2, <1>3, <1>4 DEF Cuantos
  <2> QED BY <1>1, <1>2, <2>4, <2>5, <2>6, <2>7
<1>6. Listados'
  BY DEF Inv, Listados, CreaMarca
<1>7. Pedido'
  BY DEF Pedido, Pasos, Compactando, ConArchivo, CreaMarca, Termina, SinLocales, Nada
<1>8. Restos'
  <2>1. <<>> \in Seq(Valores \cup {0})
    OBVIOUS
  <2> QED BY <1>1, <2>1 DEF Inv, Pedido, Restos, CreaMarca, Amplia, Termina, SinLocales,
             disco
<1>9. Geometria'
  BY DEF Inv, Geometria, Desde, Marcados, Cuantos, CreaMarca, Termina
<1>10. Bitmap'
  <2>1. libre \in Nat
    BY <1>2, <1>3, Bits
  <2>2. \A x : (x \in Tramo(libre, 1) <=> x = libre) /\ x \notin Tramo(libre, 0)
    BY <1>2, <2>1, TramoMiembro
  <2>3. bitmap' \subseteq Bloques
    BY <1>2, <1>3 DEF Inv, Bitmap
  <2>4. ASSUME NEW x \in Bloques
        PROVE  x \in bitmap' <=> \E n \in DOMAIN meta' : x \in Tramo(Desde(n)', Marcados(n)')
    <3>1. x \in bitmap <=> \E n \in DOMAIN meta : x \in Tramo(Desde(n), Marcados(n))
      BY <1>2 DEF Inv, Bitmap
    <3>2. x \notin Tramo(Desde(nm), Marcados(nm))
      BY <1>1, <1>2, <1>5, <2>2
    <3>3. x \in bitmap' <=> x \in bitmap \/ x \in Tramo(libre, 1)
      BY <1>2, <1>3, <2>2
    <3> QED BY <1>1, <1>2, <1>3, <1>5, <3>1, <3>2, <3>3
  <2> QED BY <1>2, <2>3, <2>4 DEF Bitmap
<1>11. Separados'
  BY DEF Inv, Separados, Cuantos, Fuera, CreaMarca
<1>12. Apartados'
  BY DEF Apartados, Fuera, CreaMarca, Termina
<1>13. Compactacion'
  BY DEF Compactacion, CreaMarca, Termina
<1>14. Ceros'
  BY DEF Inv, Ceros, DatosDesde, ConDatos, CreaMarca, Termina
<1> QED BY <1>6, <1>7, <1>8, <1>9, <1>10, <1>11, <1>12, <1>13, <1>14 DEF Inv

\* io_fs_delete: the bytes of the file become zeros.
LEMMA BorraDatosInv ==
  ASSUME Inv, BorraDatos
  PROVE  Inv'
<1>1. A = op.nombre /\ op.nombre \in DOMAIN meta
  BY Hallado DEF Inv, Pedido, ConArchivo, Compactando, Archivo, BorraDatos, Amplia
<1>2. PICK nm : nm = op.nombre
  OBVIOUS
<1>3. /\ datos \in [Bytes -> Valores \cup {0}]
      /\ datos' = Limpio(datos, meta[nm].ini * BlockSize, meta[nm].tam)
      /\ paso = "DELETE" /\ paso' = "borrar" /\ op' = op /\ meta' = meta
      /\ movido = Nadie /\ movido' = movido /\ nm \in DOMAIN meta
  BY <1>1, <1>2 DEF Inv, Restos, Pedido, BorraDatos, ByteInicial, Inicial, Actual, Sigue,
     locales
<1>4. /\ datos' \in [Bytes -> Valores \cup {0}]
      /\ \A x \in Bytes : datos'[x] = IF x \in Tramo(meta[nm].ini * BlockSize, meta[nm].tam)
                                        THEN 0 ELSE datos[x]
  BY <1>3, LimpioTipo
<1>5. Listados'
  BY DEF Inv, Listados, BorraDatos
<1>6. Pedido'
  BY DEF Inv, Pedido, Pasos, Compactando, ConArchivo, Archivo, BorraDatos, Sigue, locales
<1>7. Restos'
  BY <1>3, <1>4 DEF Inv, Restos, BorraDatos, locales
<1>8. Geometria'
  BY DEF Inv, Geometria, Desde, Marcados, Cuantos, BorraDatos, Sigue
<1>9. Bitmap'
  BY DEF Inv, Bitmap, Desde, Marcados, Cuantos, BorraDatos, Sigue
<1>10. Separados'
  BY DEF Inv, Separados, Cuantos, Fuera, BorraDatos
<1>11. Apartados'
  BY DEF Apartados, Fuera, BorraDatos, Sigue
<1>12. Compactacion'
  BY DEF Compactacion, BorraDatos, Sigue
<1>13. Ceros'
  <2>1. \A n \in DOMAIN meta : DatosDesde(n)' = meta[n].ini /\ DatosDesde(n) = meta[n].ini
    BY <1>3 DEF DatosDesde
  <2>2. \A n \in DOMAIN meta :
          /\ ConDatos(n) = meta[n].tam
          /\ n # nm => ConDatos(n)' = meta[n].tam
    BY <1>2, <1>3 DEF ConDatos, Archivo
  <2>3. ASSUME NEW x \in Bytes, datos'[x] # 0
        PROVE  \E n \in DOMAIN meta' : x \in Tramo(DatosDesde(n)' * BlockSize, ConDatos(n)')
    <3>1. datos[x] # 0 /\ x \notin Tramo(meta[nm].ini * BlockSize, meta[nm].tam)
      BY <1>4, <2>3
    <3>2. PICK n \in DOMAIN meta : x \in Tramo(meta[n].ini * BlockSize, meta[n].tam)
      BY <2>1, <2>2, <3>1 DEF Inv, Ceros
    <3>3. n # nm
      BY <3>1, <3>2
    <3> QED BY <1>3, <2>1, <2>2, <3>2, <3>3
  <2> QED BY <2>3 DEF Ceros
<1> QED BY <1>5, <1>6, <1>7, <1>8, <1>9, <1>10, <1>11, <1>12, <1>13 DEF Inv

\* io_fs_delete: its bits are cleared.
LEMMA BorraBitsInv ==
  ASSUME Inv, BorraBits
  PROVE  Inv'
<1>1. A = op.nombre /\ op.nombre \in DOMAIN meta
  BY Hallado DEF Inv, Pedido, ConArchivo, Compactando, Archivo, BorraBits, Amplia
<1>2. PICK nm : nm = op.nombre
  OBVIOUS
<1>3. /\ paso = "borrar" /\ paso' = "quitar" /\ op' = op /\ meta' = meta /\ nm \in DOMAIN meta
      /\ movido' = movido /\ bitmap' = bitmap \ Tramo(meta[nm].ini, Cuantos(nm))
  BY <1>1, <1>2 DEF BorraBits, Sigue, BloquesDe, Cuantos, locales
<1>4. \A n \in DOMAIN meta :
        /\ Desde(n) = meta[n].ini /\ Marcados(n) = Cuantos(n)
        /\ Desde(n)' = meta[n].ini /\ Cuantos(n)' = Cuantos(n)
        /\ Marcados(n)' = IF n = nm THEN 0 ELSE Cuantos(n)
  BY <1>2, <1>3 DEF Desde, Marcados, Cuantos, Archivo
<1>5. Listados'
  BY DEF Inv, Listados, BorraBits
<1>6. Pedido'
  BY DEF Inv, Pedido, Pasos, Compactando, ConArchivo, Archivo, BorraBits, Sigue, locales
<1>7. Restos'
  BY DEF Inv, Restos, BorraBits, Sigue, locales
<1>8. Geometria'
  BY <1>3, <1>4, Medidas DEF Geometria
<1>9. Bitmap'
  <2>1. \A n \in DOMAIN meta \ {nm} :
          \A x : ~ /\ x \in Tramo(meta[nm].ini, Cuantos(nm))
                   /\ x \in Tramo(meta[n].ini, Cuantos(n))
    BY <1>3, Medidas, TramosAparte DEF Inv, Separados, Fuera
  <2>2. \A x \in Bloques : x \notin Tramo(meta[nm].ini, 0)
    BY <1>3, Medidas, TramoMiembro
  <2> QED BY <1>3, <1>4, <2>1, <2>2, BitmapQuita DEF Inv
<1>10. Separados'
  BY DEF Inv, Separados, Cuantos, Fuera, BorraBits
<1>11. Apartados'
  BY DEF Apartados, Fuera, BorraBits, Sigue
<1>12. Compactacion'
  BY DEF Compactacion, BorraBits, Sigue
<1>13. Ceros'
  BY DEF Inv, Ceros, DatosDesde, ConDatos, Archivo, BorraBits, Sigue
<1> QED BY <1>5, <1>6, <1>7, <1>8, <1>9, <1>10, <1>11, <1>12, <1>13 DEF Inv

\* io_fs_delete: the file leaves the list and the directory.
LEMMA QuitaInv ==
  ASSUME Inv, Quita
  PROVE  Inv'
<1>1. A = op.nombre /\ op.nombre \in DOMAIN meta
  BY Hallado DEF Inv, Pedido, ConArchivo, Compactando, Archivo, Quita, Amplia
<1>2. PICK nm : nm = op.nombre
  OBVIOUS
<1>3. /\ paso = "quitar" /\ paso' = "espera" /\ op' = Nada /\ movido = Nadie /\ movido' = Nadie
      /\ copia' = <<>> /\ libre' = 0 /\ bitmap' = bitmap /\ datos' = datos /\ leido' = leido
      /\ nm \in DOMAIN meta /\ DOMAIN meta' = DOMAIN meta \ {nm}
      /\ \A n \in DOMAIN meta \ {nm} : meta'[n] = meta[n]
      /\ reinicios' = reinicios /\ lista' = RemoveFirst(lista, nm)
  BY <1>1, <1>2 DEF Inv, Pedido, Quita, Termina, SinLocales
<1>4. \A n \in DOMAIN meta \ {nm} :
        /\ Desde(n) = meta[n].ini /\ Marcados(n) = Cuantos(n) /\ ConDatos(n) = meta[n].tam
        /\ DatosDesde(n) = meta[n].ini
        /\ Desde(n)' = meta[n].ini /\ Cuantos(n)' = Cuantos(n)
        /\ Marcados(n)' = Cuantos(n) /\ ConDatos(n)' = meta[n].tam
        /\ DatosDesde(n)' = meta[n].ini
  BY <1>2, <1>3 DEF Desde, Marcados, Cuantos, Archivo, ConDatos, DatosDesde
<1>5. /\ Marcados(nm) = 0 /\ Desde(nm) = meta[nm].ini
      /\ ConDatos(nm) = 0 /\ DatosDesde(nm) = meta[nm].ini
  BY <1>2, <1>3 DEF Desde, Marcados, Archivo, ConDatos, DatosDesde
<1>6. Listados'
  BY <1>3, Quitado DEF Inv, Listados
<1>7. Pedido'
  BY DEF Pedido, Pasos, Compactando, ConArchivo, Quita, Termina, SinLocales, Nada
<1>8. Restos'
  <2>1. <<>> \in Seq(Valores \cup {0})
    OBVIOUS
  <2>2. meta' \in [DOMAIN meta' -> [ini : Nat, tam : Nat]]
    <3>1. /\ meta \in [DOMAIN meta -> [ini : Nat, tam : Nat]]
          /\ meta' = [n \in DOMAIN meta \ {nm} |-> meta[n]]
      BY <1>2 DEF Inv, Restos, Quita
    <3> QED BY <3>1
  <2> QED BY <1>3, <2>1, <2>2 DEF Inv, Restos
<1>9. Geometria'
  BY DEF Inv, Geometria, Desde, Marcados, Cuantos, Quita, Termina
<1>10. Bitmap'
  <2>1. \A x : x \notin Tramo(Desde(nm), Marcados(nm))
    BY <1>3, <1>5, Medidas, TramoMiembro
  <2> QED BY <1>3, <1>4, <2>1 DEF Inv, Bitmap
<1>11. Separados'
  BY DEF Inv, Separados, Cuantos, Fuera, Quita
<1>12. Apartados'
  BY DEF Apartados, Fuera, Quita, Termina
<1>13. Compactacion'
  BY DEF Compactacion, Quita, Termina
<1>14. Ceros'
  <2>1. meta[nm].ini * BlockSize \in Nat
    BY <1>3, Medidas, Producto
  <2>2. \A x : x \notin Tramo(DatosDesde(nm) * BlockSize, ConDatos(nm))
    BY <1>5, <2>1, TramoMiembro
  <2> QED BY <1>3, <1>4, <2>2 DEF Inv, Ceros
<1> QED BY <1>6, <1>7, <1>8, <1>9, <1>10, <1>11, <1>12, <1>13, <1>14 DEF Inv

\* io_fs_truncate with too few free blocks changes nothing.
LEMMA AmpliaSinLugarInv ==
  ASSUME Inv, AmpliaSinLugar
  PROVE  Inv'
<1>1. Termina /\ UNCHANGED <<disco, lista, reinicios>> /\ leido' = leido
      /\ paso \in {"CREATE", "TRUNCATE", "WRITE", "READ"}
  BY DEF AmpliaSinLugar, Amplia
<1>2. leido \in Seq(Valores \cup {0, Basura})
  BY DEF Inv, Restos
<1> QED BY <1>1, <1>2, SinCambios

\* io_fs_truncate: the blocks after the file are free and become its own.
LEMMA AmpliaBitsInv ==
  ASSUME Inv, AmpliaBits
  PROVE  Inv'
<1>1. A = op.nombre /\ op.nombre \in DOMAIN meta
  BY Hallado DEF Inv, Pedido, ConArchivo, Compactando, Archivo, AmpliaBits, Amplia
<1>2. PICK nm : nm = op.nombre
  OBVIOUS
<1>3. /\ paso = "TRUNCATE" /\ paso' = "ampliar" /\ op' = op /\ meta' = meta /\ datos' = datos
      /\ movido = Nadie /\ movido' = Nadie /\ nm \in DOMAIN meta /\ meta[nm].tam < op.t
      /\ bitmap' = bitmap \cup Tramo(meta[nm].ini + Cuantos(nm), BloquesNuevos - Cuantos(nm))
      /\ BloqueFinal = meta[nm].ini + Cuantos(nm)
      /\ BloquesNuevos <= LibresContiguos + Cuantos(nm)
  BY <1>1, <1>2 DEF Inv, Pedido, AmpliaBits, Amplia, Actual, Sigue, locales, BloqueFinal,
     Inicial, BloquesActuales, Cuantos, Contiguo
<1>4. \A n \in DOMAIN meta :
        /\ Desde(n) = meta[n].ini /\ Marcados(n) = Cuantos(n) /\ Desde(n)' = meta[n].ini
        /\ Cuantos(n)' = Cuantos(n)
        /\ Marcados(n)' = IF n = nm THEN BloquesNuevos ELSE Cuantos(n)
  BY <1>2, <1>3 DEF Desde, Marcados, Cuantos, Archivo, BloquesNuevos
<1>5. PICK i \in Nat, k \in Nat, N \in Nat, M \in Nat :
        /\ i = meta[nm].ini /\ k = Cuantos(nm) /\ N = BloquesNuevos /\ M = MaxBit
        /\ k >= 1 /\ i + k <= M
  BY <1>3, Medidas
<1>6. k <= N
  BY <1>3, <1>5, Medidas, BloquesCrecen DEF Cuantos, BloquesNuevos
<1>7. i + N <= M /\ \A x \in bitmap : x \in Nat /\ (x >= i + k => x >= i + N)
  <2>1. bitmap \subseteq Bloques /\ \A x \in bitmap : x \in Nat /\ x < M
    BY <1>5, Medidas, Bits
  <2>2. PICK b : b = bloque_ocupado_desde(i + k)
    OBVIOUS
  <2>3. \/ b = -1 /\ \A x \in bitmap : x < i + k
        \/ b \in bitmap /\ b >= i + k /\ \A x \in bitmap : x >= i + k => b <= x
    BY <1>5, <2>1, <2>2, PrimeroMarcado
  <2>4. N <= (IF b = -1 THEN M ELSE b) - (i + k) + k
    BY <1>3, <1>5, <2>2 DEF LibresContiguos
  <2>5. CASE b = -1
    <3>1. i + N <= M
      BY <1>5, <2>4, <2>5
    <3> QED BY <2>1, <2>3, <2>5, <3>1
  <2>6. CASE b # -1
    <3>1. b \in Nat /\ b < M /\ i + N <= b
      BY <1>5, <2>1, <2>3, <2>4, <2>6
    <3> QED BY <1>5, <2>1, <2>3, <2>6, <3>1
  <2> QED BY <2>5, <2>6
<1>8. \A n \in DOMAIN meta \ {nm} : Aparte(i, N, meta[n].ini, Cuantos(n))
  <2> SUFFICES ASSUME NEW n \in DOMAIN meta \ {nm}
               PROVE  Aparte(i, N, meta[n].ini, Cuantos(n))
    OBVIOUS
  <2>1. PICK j \in Nat, l \in Nat : j = meta[n].ini /\ l = Cuantos(n) /\ l >= 1 /\ j + l <= M
    BY <1>5, Medidas
  <2>2. Aparte(i, k, j, l)
    BY <1>3, <1>5, <2>1 DEF Inv, Separados, Fuera
  <2>a. j < M /\ j < j + l
    BY <1>5, <2>1
  <2>3. j \in Bloques /\ j \in Tramo(j, l)
    BY <1>5, <2>1, <2>a, Bits, TramoMiembro
  <2>4. j \in bitmap
    BY <1>4, <2>1, <2>3 DEF Inv, Bitmap
  <2> QED BY <1>5, <1>7, <2>1, <2>2, <2>4 DEF Aparte
<1>9. Listados'
  BY DEF Inv, Listados, AmpliaBits
<1>10. Pedido'
  BY <1>1 DEF Inv, Pedido, Pasos, Archivo, Amplia, Actual, AmpliaBits, Sigue, locales
<1>11. Restos'
  BY DEF Inv, Restos, AmpliaBits, Sigue, locales
<1>12. Geometria'
  <2>1. \A n \in DOMAIN meta : meta[n].ini \in Nat /\ meta[n].tam \in Nat
                               /\ meta[n].ini + Cuantos(n) <= MaxBit
    BY Medidas
  <2>2. meta[nm].ini + BloquesNuevos <= MaxBit
    BY <1>5, <1>7
  <2> QED BY <1>3, <1>4, <2>1, <2>2 DEF Geometria
<1>13. Bitmap'
  <2>1. Tramo(i + k, N - k) \subseteq Bloques
    BY <1>5, <1>6, <1>7, Bits, TramoMiembro
  <2>2. bitmap' = bitmap \cup Tramo(i + k, N - k)
    BY <1>3, <1>5
  <2>3. \A x : x \in Tramo(i, N) <=> x \in Tramo(i, k) \/ x \in Tramo(i + k, N - k)
    BY <1>5, <1>6, TramoMiembro
  <2> QED BY <1>3, <1>4, <1>5, <2>1, <2>2, <2>3, BitmapPone DEF Inv
<1>14. Separados'
  BY <1>3, <1>4 DEF Inv, Separados, Fuera
<1>15. Apartados'
  <2>1. \A m, n \in DOMAIN meta :
          m # n => Aparte(meta[m].ini, Cuantos(m), meta[n].ini, Cuantos(n))
    BY <1>3 DEF Inv, Separados, Fuera
  <2>2. ASSUME NEW m \in DOMAIN meta, NEW n \in DOMAIN meta, m # n
        PROVE  Aparte(Desde(m)', Marcados(m)', Desde(n)', Marcados(n)')
    <3>1. CASE m = nm
      BY <1>4, <1>5, <1>8, <2>2, <3>1
    <3>2. CASE n = nm
      BY <1>4, <1>5, <1>8, <2>2, <3>2 DEF Aparte
    <3>3. CASE m # nm /\ n # nm
      BY <1>4, <2>1, <2>2, <3>3
    <3> QED BY <3>1, <3>2, <3>3
  <2> QED BY <1>3, <2>2 DEF Apartados
<1>16. Compactacion'
  BY DEF Compactacion, AmpliaBits, Sigue
<1>17. Ceros'
  <2>1. \A n \in DOMAIN meta : DatosDesde(n)' = DatosDesde(n) /\ ConDatos(n)' = ConDatos(n)
    BY <1>2, <1>3 DEF DatosDesde, ConDatos, Archivo
  <2> QED BY <1>3, <2>1, CerosIgual DEF Inv
<1> QED BY <1>9, <1>10, <1>11, <1>12, <1>13, <1>14, <1>15, <1>16, <1>17 DEF Inv

\* io_fs_truncate: the bytes the file gives up become zeros.
LEMMA AchicaDatosInv ==
  ASSUME Inv, AchicaDatos
  PROVE  Inv'
<1>1. A = op.nombre /\ op.nombre \in DOMAIN meta
  BY Hallado DEF Inv, Pedido, ConArchivo, Compactando, Archivo, AchicaDatos, Amplia
<1>2. PICK nm : nm = op.nombre
  OBVIOUS
<1>3. /\ datos \in [Bytes -> Valores \cup {0}] /\ paso = "TRUNCATE" /\ paso' = "soltar"
      /\ datos' = Limpio(datos, meta[nm].ini * BlockSize + op.t, meta[nm].tam - op.t)
      /\ op' = op /\ meta' = meta /\ movido = Nadie /\ movido' = Nadie
      /\ copia' = copia /\ libre' = libre /\ nm \in DOMAIN meta
      /\ meta[nm].tam \in Nat /\ op.t \in Nat /\ op.t <= meta[nm].tam
  BY <1>1, <1>2, Medidas DEF Inv, Restos, Pedido, AchicaDatos, ByteInicial, Inicial, Actual,
     Sigue, locales
<1>4. /\ datos' \in [Bytes -> Valores \cup {0}]
      /\ \A x \in Bytes :
           datos'[x] = IF x \in Tramo(meta[nm].ini * BlockSize + op.t, meta[nm].tam - op.t)
                         THEN 0 ELSE datos[x]
  BY <1>3, LimpioTipo
<1>5. Listados'
  BY DEF Inv, Listados, AchicaDatos
<1>6. Pedido'
  BY <1>2, <1>3 DEF Inv, Pedido, Pasos, Compactando, ConArchivo, Archivo
<1>7. Restos'
  BY <1>3, <1>4 DEF Inv, Restos, AchicaDatos
<1>8. Geometria'
  BY DEF Inv, Geometria, Desde, Marcados, Cuantos, AchicaDatos, Sigue
<1>9. Bitmap'
  BY DEF Inv, Bitmap, Desde, Marcados, Cuantos, AchicaDatos, Sigue
<1>10. Separados'
  BY DEF Inv, Separados, Cuantos, Fuera, AchicaDatos
<1>11. Apartados'
  BY DEF Apartados, Fuera, AchicaDatos, Sigue
<1>12. Compactacion'
  BY DEF Compactacion, AchicaDatos, Sigue
<1>13. Ceros'
  <2>a. meta[nm].ini * BlockSize \in Nat
    BY <1>3, Medidas, Producto
  <2>b. meta[nm].tam - op.t \in Nat /\ op.t + (meta[nm].tam - op.t) = meta[nm].tam
    BY <1>3
  <2>0. PICK b \in Nat, t \in Nat, u \in Nat :
          b = meta[nm].ini * BlockSize /\ t = op.t /\ u = meta[nm].tam - op.t
          /\ t + u = meta[nm].tam
    BY <1>3, <2>a, <2>b
  <2>1. \A n \in DOMAIN meta : DatosDesde(n)' = meta[n].ini /\ DatosDesde(n) = meta[n].ini
    BY <1>3 DEF DatosDesde
  <2>2. \A n \in DOMAIN meta :
          /\ ConDatos(n) = meta[n].tam
          /\ ConDatos(n)' = IF n = nm THEN op.t ELSE meta[n].tam
    BY <1>2, <1>3 DEF ConDatos, Archivo
  <2>3. \A x : x \in Tramo(b, t + u) => x \in Tramo(b, t) \/ x \in Tramo(b + t, u)
    BY TramoMiembro
  <2>4. ASSUME NEW x \in Bytes, datos'[x] # 0
        PROVE  \E n \in DOMAIN meta' : x \in Tramo(DatosDesde(n)' * BlockSize, ConDatos(n)')
    <3>1. datos[x] # 0 /\ x \notin Tramo(b + t, u)
      BY <1>4, <2>0, <2>4
    <3>2. PICK n \in DOMAIN meta : x \in Tramo(meta[n].ini * BlockSize, meta[n].tam)
      BY <2>1, <2>2, <3>1 DEF Inv, Ceros
    <3> QED BY <1>3, <2>0, <2>1, <2>2, <2>3, <3>1, <3>2
  <2> QED BY <2>4 DEF Ceros
<1> QED BY <1>5, <1>6, <1>7, <1>8, <1>9, <1>10, <1>11, <1>12, <1>13 DEF Inv

\* io_fs_truncate: the blocks the file gives up are freed.
LEMMA AchicaBitsInv ==
  ASSUME Inv, AchicaBits
  PROVE  Inv'
<1>1. A = op.nombre /\ op.nombre \in DOMAIN meta
  BY Hallado DEF Inv, Pedido, ConArchivo, Compactando, Archivo, AchicaBits, Amplia
<1>2. PICK nm : nm = op.nombre
  OBVIOUS
<1>3. /\ paso = "soltar" /\ paso' = "achicar" /\ op' = op /\ meta' = meta /\ nm \in DOMAIN meta
      /\ movido = Nadie /\ movido' = movido /\ op.t <= meta[nm].tam
      /\ bitmap' = bitmap \ Tramo(meta[nm].ini + BloquesNuevos, Cuantos(nm) - BloquesNuevos)
  BY <1>1, <1>2 DEF Inv, Pedido, AchicaBits, Sigue, Cuantos, BloquesActuales, Inicial,
     Actual, locales, Archivo
<1>4. \A n \in DOMAIN meta :
        /\ Desde(n) = meta[n].ini /\ Marcados(n) = Cuantos(n) /\ Desde(n)' = meta[n].ini
        /\ Cuantos(n)' = Cuantos(n)
        /\ Marcados(n)' = IF n = nm THEN BloquesNuevos ELSE Cuantos(n)
  BY <1>2, <1>3 DEF Desde, Marcados, Cuantos, Archivo, BloquesNuevos
<1>5. PICK i \in Nat, k \in Nat, N \in Nat, M \in Nat :
        /\ i = meta[nm].ini /\ k = Cuantos(nm) /\ N = BloquesNuevos /\ M = MaxBit
        /\ k >= 1 /\ i + k <= M
  BY <1>3, Medidas
<1>6. N <= k
  BY <1>3, <1>5, Medidas, BloquesCrecen DEF Cuantos, BloquesNuevos
<1>7. Listados'
  BY DEF Inv, Listados, AchicaBits
<1>8. Pedido'
  BY DEF Inv, Pedido, Pasos, Compactando, ConArchivo, Archivo, AchicaBits, Sigue, locales
<1>9. Restos'
  BY DEF Inv, Restos, AchicaBits, Sigue, locales
<1>10. Geometria'
  <2>1. \A n \in DOMAIN meta : meta[n].ini \in Nat /\ meta[n].tam \in Nat
                               /\ meta[n].ini + Cuantos(n) <= MaxBit
    BY Medidas
  <2>2. meta[nm].ini + BloquesNuevos <= MaxBit
    BY <1>5, <1>6
  <2> QED BY <1>3, <1>4, <2>1, <2>2 DEF Geometria
<1>11. Bitmap'
  <2>1. bitmap' = bitmap \ Tramo(i + N, k - N)
    BY <1>3, <1>5
  <2>2. \A x : x \in Tramo(i, N) <=> x \in Tramo(i, k) /\ x \notin Tramo(i + N, k - N)
    BY <1>5, <1>6, TramoMiembro
  <2>3. \A n \in DOMAIN meta \ {nm} :
          \A x : ~ (x \in Tramo(i, k) /\ x \in Tramo(meta[n].ini, Cuantos(n)))
    BY <1>3, <1>5, Medidas, TramosAparte DEF Inv, Separados, Fuera
  <2>4. \A x : x \in Tramo(i + N, k - N) => x \in Tramo(i, k)
    BY <1>5, <1>6, TramoMiembro
  <2>5. \A n \in DOMAIN meta \ {nm} :
          /\ Desde(n)' = Desde(n) /\ Marcados(n)' = Marcados(n)
          /\ \A x : ~ (x \in Tramo(i + N, k - N) /\ x \in Tramo(Desde(n), Marcados(n)))
    BY <1>4, <2>3, <2>4
  <2>6. \A x \in Bloques : x \in Tramo(Desde(nm)', Marcados(nm)')
                             <=> /\ x \in Tramo(Desde(nm), Marcados(nm))
                                 /\ x \notin Tramo(i + N, k - N)
    BY <1>3, <1>4, <1>5, <2>2
  <2>7. Bitmap /\ DOMAIN meta' = DOMAIN meta /\ nm \in DOMAIN meta
    BY <1>3 DEF Inv
  <2> QED BY <2>1, <2>5, <2>6, <2>7, BitmapQuita
<1>12. Separados'
  BY DEF Inv, Separados, Cuantos, Fuera, AchicaBits
<1>13. Apartados'
  BY DEF Apartados, Fuera, AchicaBits, Sigue
<1>14. Compactacion'
  BY DEF Compactacion, AchicaBits, Sigue
<1>15. Ceros'
  BY DEF Inv, Ceros, DatosDesde, ConDatos, Archivo, AchicaBits, Sigue
<1> QED BY <1>7, <1>8, <1>9, <1>10, <1>11, <1>12, <1>13, <1>14, <1>15 DEF Inv

\* io_fs_truncate: the new size is saved.
LEMMA GuardaTamanioInv ==
  ASSUME Inv, GuardaTamanio
  PROVE  Inv'
<1>1. A = op.nombre /\ op.nombre \in DOMAIN meta
  BY Hallado DEF Inv, Pedido, ConArchivo, Compactando, Archivo, GuardaTamanio, Amplia
<1>2. PICK nm : nm = op.nombre
  OBVIOUS
<1>3. /\ paso \in {"ampliar", "achicar"} /\ paso' = "espera" /\ op' = Nada /\ op'.nombre = Nadie
      /\ movido = Nadie /\ movido' = Nadie /\ nm \in DOMAIN meta /\ nm # Nadie
      /\ bitmap' = bitmap /\ datos' = datos
      /\ paso = "ampliar" => meta[nm].tam < op.t
      /\ paso = "achicar" => op.t <= meta[nm].tam
  BY <1>1, <1>2 DEF Inv, Pedido, GuardaTamanio, Termina, SinLocales, Nada, Archivo,
     Compactando
<1>4. /\ DOMAIN meta' = DOMAIN meta
      /\ \A n \in DOMAIN meta : meta'[n].ini = meta[n].ini
      /\ \A n \in DOMAIN meta : meta'[n].tam = IF n = nm THEN op.t ELSE meta[n].tam
  BY <1>1, <1>2 DEF GuardaTamanio, Inv, Restos
<1>5. \A n \in DOMAIN meta : n # Nadie
  BY DialfsAssumption DEF Inv, Restos
<1>6. /\ \A n \in DOMAIN meta :
           /\ Desde(n) = meta[n].ini /\ Desde(n)' = meta[n].ini
           /\ Marcados(n) = IF n = nm THEN BloquesNuevos ELSE Cuantos(n)
           /\ Marcados(n)' = Cuantos(n)'
           /\ Cuantos(n)' = IF n = nm THEN BloquesNuevos ELSE Cuantos(n)
  BY <1>2, <1>3, <1>4, <1>5 DEF Desde, Marcados, Cuantos, Archivo, BloquesNuevos
<1>7. Listados'
  BY DEF Inv, Listados, GuardaTamanio
<1>8. Pedido'
  BY DEF Pedido, Pasos, Compactando, ConArchivo, GuardaTamanio, Termina, SinLocales, Nada
<1>9. Restos'
  BY <1>1 DEF Inv, Pedido, Restos, Geometria, GuardaTamanio, Termina, SinLocales
<1>10. Geometria'
  <2>1. \A n \in DOMAIN meta : meta[n].ini \in Nat /\ meta[n].tam \in Nat /\ op.t \in Nat
                               /\ Desde(n) + Marcados(n) <= MaxBit
    BY Medidas DEF Inv, Geometria
  <2> QED BY <1>4, <1>6, <2>1 DEF Geometria
<1>11. Bitmap'
  BY <1>3, <1>4, <1>6, BitmapIgual DEF Inv
<1>12. Separados'
  <2>1. CASE paso = "ampliar"
    <3>1. \A n \in DOMAIN meta : Marcados(n) > 0
      BY <1>6, Medidas
    <3>2. \A m, n \in DOMAIN meta :
            m # n => Aparte(Desde(m), Marcados(m), Desde(n), Marcados(n))
      BY <2>1, <3>1 DEF Inv, Apartados
    <3> QED BY <1>3, <1>4, <1>6, <3>2 DEF Separados, Fuera
  <2>2. CASE paso = "achicar"
    <3>1. \A m, n \in DOMAIN meta :
            m # n => Aparte(meta[m].ini, Cuantos(m), meta[n].ini, Cuantos(n))
      BY <2>2 DEF Inv, Separados, Fuera
    <3>2. BloquesNuevos <= Cuantos(nm)
      BY <1>3, <2>2, Medidas, BloquesCrecen DEF Cuantos, BloquesNuevos
    <3>3. \A n \in DOMAIN meta : Cuantos(n)' <= Cuantos(n) /\ Cuantos(n)' \in Nat
                                 /\ Cuantos(n) \in Nat /\ meta[n].ini \in Nat
      BY <1>6, <3>2, Medidas
    <3>4. \A m, n \in DOMAIN meta :
            m # n => Aparte(meta[m].ini, Cuantos(m)', meta[n].ini, Cuantos(n)')
      BY <3>1, <3>3 DEF Aparte
    <3> QED BY <1>3, <1>4, <3>4 DEF Separados
  <2> QED BY <1>3, <2>1, <2>2
<1>13. Apartados'
  BY DEF Apartados, Fuera, GuardaTamanio, Termina
<1>14. Compactacion'
  BY DEF Compactacion, GuardaTamanio, Termina
<1>15. Ceros'
  <2>1. /\ \A n \in DOMAIN meta :
             /\ DatosDesde(n) = meta[n].ini /\ DatosDesde(n)' = meta[n].ini
             /\ ConDatos(n)' = meta'[n].tam
             /\ n # nm => ConDatos(n) = meta[n].tam
        /\ ConDatos(nm) = IF paso = "achicar" THEN op.t ELSE meta[nm].tam
    BY <1>2, <1>3, <1>4, <1>5 DEF DatosDesde, ConDatos, Archivo
  <2>2. \A n \in DOMAIN meta : ConDatos(n) \in Nat /\ ConDatos(n)' \in Nat
                               /\ ConDatos(n) <= ConDatos(n)'
    BY <1>3, <1>4, <2>1, Medidas
  <2>3. \A n \in DOMAIN meta : meta[n].ini * BlockSize \in Nat
    BY Medidas, Producto
  <2>4. \A n \in DOMAIN meta : \A x : x \in Tramo(meta[n].ini * BlockSize, ConDatos(n))
                                        => x \in Tramo(meta[n].ini * BlockSize, ConDatos(n)')
    BY <2>2, <2>3 DEF Tramo
  <2> QED BY <1>3, <1>4, <2>1, <2>4 DEF Inv, Ceros
<1> QED BY <1>7, <1>8, <1>9, <1>10, <1>11, <1>12, <1>13, <1>14, <1>15 DEF Inv

\* compactar_file_system: the file that grows is copied and erased.
LEMMA CompactaCopiaInv ==
  ASSUME Inv, CompactaCopia
  PROVE  Inv'
<1>1. A = op.nombre /\ op.nombre \in DOMAIN meta
  BY Hallado DEF Inv, Pedido, ConArchivo, Compactando, Archivo, CompactaCopia, Amplia
<1>2. PICK nm : nm = op.nombre
  OBVIOUS
<1>3. /\ datos \in [Bytes -> Valores \cup {0}] /\ paso = "TRUNCATE" /\ paso' = "retirar"
      /\ datos' = Limpio(datos, meta[nm].ini * BlockSize, meta[nm].tam)
      /\ copia' = Leidos(meta[nm].ini * BlockSize, meta[nm].tam)
      /\ op' = op /\ meta' = meta /\ movido = Nadie /\ movido' = Nadie /\ bitmap' = bitmap
      /\ libre' = libre /\ nm \in DOMAIN meta
      /\ BloquesNuevos <= Cardinality(Libres) + Cuantos(nm)
  BY <1>1, <1>2 DEF Inv, Restos, Pedido, CompactaCopia, ByteInicial, Inicial, Actual, Sigue,
     HayLugar, BloquesActuales, Cuantos, Amplia
<1>4. /\ datos' \in [Bytes -> Valores \cup {0}]
      /\ \A x \in Bytes : datos'[x] = IF x \in Tramo(meta[nm].ini * BlockSize, meta[nm].tam)
                                        THEN 0 ELSE datos[x]
  BY <1>3, LimpioTipo
<1>5. \A n \in DOMAIN meta :
        /\ Desde(n) = meta[n].ini /\ Marcados(n) = Cuantos(n) /\ Desde(n)' = meta[n].ini
        /\ Cuantos(n)' = Cuantos(n) /\ Marcados(n)' = Cuantos(n)
  BY <1>2, <1>3 DEF Desde, Marcados, Cuantos
<1>6. Listados'
  BY DEF Inv, Listados, CompactaCopia
<1>7. Pedido'
  BY <1>1 DEF Inv, Pedido, Pasos, Compactando, Archivo, Amplia, Actual, CompactaCopia, Sigue
<1>8. Restos'
  <2>1. copia' \in Seq(Valores \cup {0}) /\ Len(copia') = meta[nm].tam
    BY <1>3, Medidas, EnElDisco, LeidosTipo
  <2> QED BY <1>2, <1>3, <1>4, <2>1 DEF Inv, Restos, CompactaCopia, Archivo
<1>9. Geometria'
  BY DEF Inv, Geometria, Desde, Marcados, Cuantos, CompactaCopia, Sigue
<1>10. Bitmap'
  BY <1>3, <1>5, BitmapIgual DEF Inv
<1>11. Separados'
  BY <1>3, <1>5 DEF Inv, Separados, Fuera
<1>12. Apartados'
  BY DEF Apartados, Fuera, CompactaCopia, Sigue
<1>13. Compactacion'
  <2>1. /\ BloquesNuevos' = BloquesNuevos /\ Libres' = Libres
        /\ Cuantos(Archivo)' = Cuantos(nm)
    BY <1>2, <1>3 DEF BloquesNuevos, Libres, Cuantos, Archivo
  <2> QED BY <1>3, <2>1 DEF Compactacion
<1>14. Ceros'
  <2>1. \A n \in DOMAIN meta : DatosDesde(n)' = meta[n].ini /\ DatosDesde(n) = meta[n].ini
    BY <1>3 DEF DatosDesde
  <2>2. \A n \in DOMAIN meta :
          /\ ConDatos(n) = meta[n].tam
          /\ n # nm => ConDatos(n)' = meta[n].tam
    BY <1>2, <1>3 DEF ConDatos, Archivo
  <2>3. ASSUME NEW x \in Bytes, datos'[x] # 0
        PROVE  \E n \in DOMAIN meta' : x \in Tramo(DatosDesde(n)' * BlockSize, ConDatos(n)')
    <3>1. datos[x] # 0 /\ x \notin Tramo(meta[nm].ini * BlockSize, meta[nm].tam)
      BY <1>4, <2>3
    <3>2. PICK n \in DOMAIN meta : x \in Tramo(meta[n].ini * BlockSize, meta[n].tam)
      BY <2>1, <2>2, <3>1 DEF Inv, Ceros
    <3>3. n # nm
      BY <3>1, <3>2
    <3> QED BY <1>3, <2>1, <2>2, <3>2, <3>3
  <2> QED BY <2>3 DEF Ceros
<1> QED BY <1>6, <1>7, <1>8, <1>9, <1>10, <1>11, <1>12, <1>13, <1>14 DEF Inv

\* compactar_file_system: its blocks are freed, which leaves room for it.
LEMMA CompactaRetiraInv ==
  ASSUME Inv, CompactaRetira
  PROVE  Inv'
<1>1. A = op.nombre /\ op.nombre \in DOMAIN meta
  BY Hallado DEF Inv, Pedido, ConArchivo, Compactando, Archivo, CompactaRetira, Amplia
<1>2. PICK nm : nm = op.nombre
  OBVIOUS
<1>3. /\ paso = "retirar" /\ paso' = "compactar" /\ op' = op
      /\ meta' = meta /\ nm \in DOMAIN meta
      /\ movido = Nadie /\ movido' = Nadie /\ datos' = datos /\ copia' = copia
      /\ bitmap' = bitmap \ Tramo(meta[nm].ini, Cuantos(nm))
      /\ BloquesNuevos <= Cardinality(Libres) + Cuantos(nm)
  BY <1>1, <1>2 DEF Inv, Pedido, Compactacion, CompactaRetira, Sigue, BloquesDe, Cuantos,
     locales, Archivo
<1>4. \A n \in DOMAIN meta :
        /\ Desde(n) = meta[n].ini /\ Marcados(n) = Cuantos(n)
        /\ Desde(n)' = meta[n].ini /\ Cuantos(n)' = Cuantos(n)
        /\ Marcados(n)' = IF n = nm THEN 0 ELSE Cuantos(n)
  BY <1>2, <1>3 DEF Desde, Marcados, Cuantos, Archivo
<1>5. PICK i \in Nat, k \in Nat : i = meta[nm].ini /\ k = Cuantos(nm) /\ k >= 1
  BY <1>3, Medidas
<1>6. Listados'
  BY DEF Inv, Listados, CompactaRetira
<1>7. Pedido'
  BY DEF Inv, Pedido, Pasos, Compactando, ConArchivo, Archivo, CompactaRetira, Sigue,
     locales
<1>8. Restos'
  BY <1>3 DEF Inv, Restos, CompactaRetira, locales, Archivo
<1>9. Geometria'
  BY <1>3, <1>4, Medidas DEF Geometria
<1>10. Bitmap'
  <2>1. \A n \in DOMAIN meta \ {nm} :
          \A x : ~ /\ x \in Tramo(meta[nm].ini, Cuantos(nm))
                   /\ x \in Tramo(meta[n].ini, Cuantos(n))
    BY <1>3, Medidas, TramosAparte DEF Inv, Separados, Fuera
  <2>2. \A x \in Bloques : x \notin Tramo(meta[nm].ini, 0)
    BY <1>3, Medidas, TramoMiembro
  <2> QED BY <1>3, <1>4, <2>1, <2>2, BitmapQuita DEF Inv
<1>11. Separados'
  BY DEF Inv, Separados, Cuantos, Fuera, CompactaRetira
<1>12. Apartados'
  BY DEF Inv, Apartados, Separados, Desde, Marcados, Cuantos, CompactaRetira, Sigue
<1>13. Compactacion'
  <2>1. BloquesNuevos <= Cardinality(Libres')
    <3>1. /\ i + k <= MaxBit /\ \A x \in Nat : i <= x /\ x < i + k => x \in bitmap
      BY <1>3, <1>4, <1>5, SusBits
    <3>2. Tramo(i, k) \subseteq bitmap
      BY <1>5, <3>1, TramoMiembro
    <3>3. bitmap \subseteq Bloques /\ bitmap' = bitmap \ Tramo(i, k)
      BY <1>3, <1>5 DEF Inv, Bitmap
    <3>4. Libres' = Libres \cup Tramo(i, k) /\ Libres \cap Tramo(i, k) = {}
      BY <3>2, <3>3 DEF Libres
    <3>5. IsFiniteSet(Libres) /\ IsFiniteSet(Tramo(i, k)) /\ Cardinality(Tramo(i, k)) = k
      <4>1. IsFiniteSet(Bloques)
        BY BitsEnteros, FS_Interval DEF Bloques
      <4>2. IsFiniteSet(Libres)
        BY <4>1, FS_Difference DEF Libres
      <4>3. IsFiniteSet(i..(i + k - 1)) /\ Cardinality(i..(i + k - 1)) = k
        <5>1. i + k - 1 \in Int /\ i \in Int /\ ~ (i > i + k - 1) /\ (i + k - 1) - i + 1 = k
          BY <1>5
        <5> QED BY <5>1, FS_Interval
      <4> QED BY <4>2, <4>3 DEF Tramo
    <3>6. Cardinality(Libres') = Cardinality(Libres) + k - 0
      BY <3>4, <3>5, FS_Union, FS_EmptySet
    <3>7. Cardinality(Libres) \in Nat
      BY <3>5, FS_CardinalityType
    <3> QED BY <1>3, <1>5, <3>6, <3>7
  <2>2. Asentados'
    <3>1. ASSUME NEW n \in DOMAIN meta \ {nm} PROVE meta[n].ini # meta[nm].ini
      <4>1. PICK j \in Nat, l \in Nat : j = meta[n].ini /\ l = Cuantos(n) /\ l >= 1
        BY Medidas
      <4>2. Aparte(i, k, j, l)
        BY <1>3, <1>5, <3>1, <4>1 DEF Inv, Separados, Fuera
      <4> QED BY <1>5, <4>1, <4>2 DEF Aparte
    <3> QED BY <1>2, <1>3, <3>1 DEF Asentados, Archivo
  <2> QED BY <1>3, <2>1, <2>2 DEF Compactacion, BloquesNuevos
<1>14. Ceros'
  BY DEF Inv, Ceros, DatosDesde, ConDatos, Archivo, CompactaRetira, Sigue
<1> QED BY <1>6, <1>7, <1>8, <1>9, <1>10, <1>11, <1>12, <1>13, <1>14 DEF Inv

\* The file that compactar_file_system moves begins where the first bits after the first
\* free block are.
LEMMA Mudado ==
  ASSUME Inv, CompactaDatos
  PROVE  \E f \in Nat, b \in Nat : \E m \in DOMAIN meta \ {op.nombre} : Muda(f, b, m)
<1>1. A = op.nombre /\ op.nombre \in DOMAIN meta
  BY Hallado DEF Inv, Pedido, ConArchivo, Compactando, Archivo, CompactaDatos, Amplia
<1>2. PICK nm : nm = op.nombre
  OBVIOUS
<1>3. /\ paso = "compactar" /\ paso' = "mover" /\ op' = op /\ meta' = meta /\ nm \in DOMAIN meta
      /\ movido = Nadie /\ bitmap' = bitmap /\ copia' = copia /\ libre' = posicion_bloque_libre
      /\ movido' = obtener_archivo_por_bloque_inicial(BloqueAMover)
      /\ datos' = Copiado(Limpio(datos, BloqueAMover * BlockSize, meta[movido'].tam),
                          libre' * BlockSize,
                          Leidos(BloqueAMover * BlockSize, meta[movido'].tam))
      /\ BloqueAMover # -1 /\ op.nombre # Nadie /\ lista' = lista
  BY <1>1, <1>2, DialfsAssumption DEF Inv, Pedido, CompactaDatos, Sigue
<1>4. \A n \in DOMAIN meta :
        /\ Desde(n) = meta[n].ini
        /\ Marcados(n) = IF n = nm THEN 0 ELSE Cuantos(n)
  BY <1>2, <1>3 DEF Desde, Marcados, Archivo
<1>5. Libres # {} /\ BloqueAMover = bloque_ocupado_desde(libre')
  BY <1>3 DEF BloqueAMover
<1>6. PICK f \in Nat : /\ f = libre' /\ f \in Bloques /\ f \notin bitmap
                       /\ \A x \in Bloques : x < f => x \in bitmap
  <2>1. libre' \in Libres /\ \A x \in Libres : libre' <= x
    BY <1>3, <1>5, PrimeroLibre
  <2>2. libre' \in Nat /\ libre' \in Bloques /\ libre' \notin bitmap
    BY <2>1, Bits DEF Libres
  <2>3. ASSUME NEW x \in Bloques, x < libre' PROVE x \in bitmap
    <3>1. x \in Nat
      BY Bits
    <3> QED BY <2>1, <2>2, <2>3, <3>1 DEF Libres
  <2> QED BY <2>2, <2>3
<1>7. PICK b \in Nat : /\ b = BloqueAMover /\ b \in bitmap /\ b > f
                       /\ \A x \in bitmap : x >= f => b <= x
  <2>1. bitmap \subseteq Bloques /\ bitmap \subseteq Nat
    BY Medidas, Bits
  <2>2. BloqueAMover = bloque_ocupado_desde(f)
    BY <1>5, <1>6
  <2>3. /\ BloqueAMover \in bitmap /\ BloqueAMover >= f
        /\ \A x \in bitmap : x >= f => BloqueAMover <= x
    BY <1>3, <2>1, <2>2, PrimeroMarcado
  <2>4. BloqueAMover # f /\ BloqueAMover \in Nat
    BY <1>6, <2>1, <2>3
  <2> QED BY <2>3, <2>4
<1>8. \E n \in DOMAIN meta \ {nm} : meta[n].ini = b
  <2>1. PICK n \in DOMAIN meta : b \in Tramo(Desde(n), Marcados(n))
    BY <1>7, Medidas DEF Inv, Bitmap
  <2>2. PICK j \in Nat, l \in Nat : j = Desde(n) /\ l = Marcados(n) /\ j = meta[n].ini
    BY <1>4, Medidas
  <2>3. j <= b /\ b < j + l
    BY <2>1, <2>2, TramoMiembro
  <2>4. n # nm
    BY <1>4, <2>2, <2>3
  <2>5. \A x \in Nat : j <= x /\ x < j + l => x \in bitmap
    BY <2>2, SusBits
  <2>6. ~ (j < b)
    <3> SUFFICES ASSUME j < b PROVE FALSE
      OBVIOUS
    <3>1. b - 1 \in Nat /\ j <= b - 1 /\ b - 1 < j + l
      BY <2>2, <2>3
    <3>2. b - 1 \in bitmap
      BY <2>5, <3>1
    <3>3. b - 1 >= f
      BY <1>6, <1>7
    <3> QED BY <1>7, <3>1, <3>2, <3>3
  <2>7. j = b
    BY <2>2, <2>3, <2>6
  <2> QED BY <2>2, <2>4, <2>7
<1>9. movido' \in DOMAIN meta \ {nm} /\ meta[movido'].ini = b
  <2>1. PICK n \in DOMAIN meta \ {nm} : meta[n].ini = b
    BY <1>8
  <2>2. movido' \in DOMAIN meta /\ meta[movido'].ini = b
    BY <1>3, <1>7, <2>1, PorBloque DEF Inv
  <2>3. movido' # nm
    <3> SUFFICES ASSUME movido' = nm PROVE FALSE
      OBVIOUS
    <3>1. n # Nadie
      BY DialfsAssumption DEF Inv, Restos
    <3>2. Asentados
      BY <1>3 DEF Inv, Compactacion
    <3>3. meta[n].ini = meta[nm].ini
      BY <2>1, <2>2
    <3>4. Ocupados(b + 1)
      BY <1>2, <1>3, <2>1, <3>1, <3>2, <3>3 DEF Asentados, Archivo
    <3> QED BY <1>6, <1>7, <3>4 DEF Ocupados
  <2> QED BY <2>2, <2>3
<1>10. PICK m \in DOMAIN meta \ {nm} : m = movido' /\ meta[m].ini = b
  BY <1>9
<1>11. datos' = Copiado(Limpio(datos, b * BlockSize, meta[m].tam), f * BlockSize,
                       Leidos(b * BlockSize, meta[m].tam))
  BY <1>3, <1>6, <1>7, <1>10
<1>12. /\ Limpio(datos, b * BlockSize, meta[m].tam) \in [Bytes -> Valores \cup {0}]
      /\ \A x \in Bytes : Limpio(datos, b * BlockSize, meta[m].tam)[x] =
                            IF x \in Tramo(b * BlockSize, meta[m].tam) THEN 0 ELSE datos[x]
  BY LimpioTipo DEF Inv, Restos
<1>13. /\ Leidos(b * BlockSize, meta[m].tam) \in Seq(Valores \cup {0})
      /\ Len(Leidos(b * BlockSize, meta[m].tam)) = meta[m].tam
  BY <1>10, Medidas, EnElDisco, LeidosTipo DEF Inv, Restos
<1>14. f * BlockSize \in Nat
  BY <1>6, Producto
<1>15. /\ datos' \in [Bytes -> Valores \cup {0}]
      /\ \A x \in Bytes :
           x \notin Tramo(f * BlockSize, meta[m].tam) =>
             datos'[x] = IF x \in Tramo(b * BlockSize, meta[m].tam) THEN 0 ELSE datos[x]
  BY <1>11, <1>12, <1>13, <1>14, CopiadoTipo
<1>16. m \in DOMAIN meta \ {op.nombre}
  BY <1>2, <1>10
<1> WITNESS f \in Nat, b \in Nat
<1> WITNESS m \in DOMAIN meta \ {op.nombre}
<1> QED BY <1>2, <1>3, <1>6, <1>7, <1>9, <1>10, <1>11, <1>13, <1>15 DEF Muda

\* compactar_file_system: the bytes of a file move down to the first free block.
LEMMA CompactaDatosInv ==
  ASSUME Inv, CompactaDatos
  PROVE  Inv'
<1>1. PICK nm : nm = op.nombre
  OBVIOUS
<1>2. PICK f \in Nat, b \in Nat : \E n \in DOMAIN meta \ {nm} : Muda(f, b, n)
  BY <1>1, Mudado
<1>3. PICK m \in DOMAIN meta \ {nm} : Muda(f, b, m)
  BY <1>2
<1>4. /\ paso = "compactar" /\ paso' = "mover" /\ op' = op /\ meta' = meta /\ nm \in DOMAIN meta
      /\ movido = Nadie /\ bitmap' = bitmap /\ copia' = copia /\ lista' = lista
      /\ libre' = f /\ movido' = m /\ meta[m].ini = b
  BY <1>1, <1>3 DEF Muda
<1>5. f \in Bloques /\ f \notin bitmap /\ \A x \in Bloques : x < f => x \in bitmap
  BY <1>3 DEF Muda
<1>6. b \in bitmap /\ b > f /\ \A x \in bitmap : x >= f => b <= x
  BY <1>3 DEF Muda
<1>7. /\ datos' \in [Bytes -> Valores \cup {0}]
      /\ \A x \in Bytes :
           x \notin Tramo(f * BlockSize, meta[m].tam) =>
             datos'[x] = IF x \in Tramo(b * BlockSize, meta[m].tam) THEN 0 ELSE datos[x]
  BY <1>3 DEF Muda
<1>8. Listados'
  BY DEF Inv, Listados, CompactaDatos
<1>9. Pedido'
  BY <1>1, <1>3, <1>4 DEF Inv, Pedido, Pasos, Compactando, ConArchivo, Archivo
<1>10. Restos'
  BY <1>4, <1>5, <1>7 DEF Inv, Restos, CompactaDatos, Archivo
<1>11. Geometria'
  BY DEF Inv, Geometria, Desde, Marcados, Cuantos, Archivo, CompactaDatos, Sigue
<1>12. Bitmap'
  BY DEF Inv, Bitmap, Desde, Marcados, Cuantos, Archivo, CompactaDatos, Sigue
<1>13. Separados'
  BY DEF Separados, Fuera, CompactaDatos, Sigue
<1>14. Apartados'
  BY DEF Inv, Apartados, Desde, Marcados, Cuantos, Fuera, Archivo, CompactaDatos, Sigue
<1>15. Compactacion'
  <2>1. /\ Libres' = Libres /\ BloquesNuevos' = BloquesNuevos
        /\ BloquesNuevos <= Cardinality(Libres)
    BY <1>4 DEF Libres, BloquesNuevos, Inv, Compactacion
  <2>2. Asentados'
    <3>1. \A n \in DOMAIN meta \ {nm} : n # Nadie
      BY DialfsAssumption DEF Inv, Restos
    <3>2. Asentados
      BY <1>4 DEF Inv, Compactacion
    <3> QED BY <1>1, <1>4, <3>1, <3>2 DEF Asentados, Ocupados, Archivo
  <2>3. libre' \in Nat /\ libre' < meta'[movido'].ini /\ Ocupados(libre)'
    <3>1. f \in Nat /\ f < b
      BY <1>5, <1>6
    <3>2. \A x \in Bloques : x < libre' => x \in bitmap'
      BY <1>4, <1>5
    <3> QED BY <1>3, <1>4, <1>5, <3>1, <3>2 DEF Ocupados
  <2>4. Tramo(libre', meta[movido'].ini - libre') \cap bitmap = {}
    <3>1. b - f \in Nat /\ f + (b - f) = b
      <4>1. f \in Nat /\ b \in Nat /\ b > f
        BY <1>5, <1>6
      <4> QED BY <4>1
    <3>2. Tramo(f, b - f) \cap bitmap = {}
      <4> SUFFICES ASSUME NEW x \in bitmap, x \in Tramo(f, b - f) PROVE FALSE
        OBVIOUS
      <4>1. x \in Nat /\ f <= x /\ x < b
        BY <1>5, <3>1, TramoMiembro
      <4> QED BY <1>6, <4>1
    <3> QED BY <1>4, <1>5, <3>2
  <2>5. paso' = "mover" /\ bitmap' = bitmap /\ meta' = meta
    BY <1>4
  <2> QED BY <2>1, <2>2, <2>3, <2>4, <2>5 DEF Compactacion
<1>16. Ceros'
  <2>1. \A n \in DOMAIN meta :
          /\ DatosDesde(n) = meta[n].ini
          /\ DatosDesde(n)' = IF n = m THEN f ELSE meta[n].ini
    BY <1>3, <1>4, <1>5 DEF DatosDesde
  <2>2. \A n \in DOMAIN meta :
          /\ n # nm => ConDatos(n) = meta[n].tam /\ ConDatos(n)' = meta[n].tam
          /\ n = nm => ConDatos(n) = 0
    BY <1>1, <1>4 DEF ConDatos, Archivo
  <2>3. \A x : x \notin Tramo(meta[nm].ini * BlockSize, 0)
    <3>1. meta[nm].ini * BlockSize \in Nat
      BY <1>4, Medidas, Producto
    <3> QED BY <3>1, TramoMiembro
  <2>4. ASSUME NEW x \in Bytes, datos'[x] # 0
        PROVE  \E n \in DOMAIN meta : x \in Tramo(DatosDesde(n)' * BlockSize, ConDatos(n)')
    <3>1. CASE x \in Tramo(f * BlockSize, meta[m].tam)
      BY <1>3, <2>1, <2>2, <3>1
    <3>2. CASE x \notin Tramo(f * BlockSize, meta[m].tam)
      <4>1. datos[x] # 0 /\ x \notin Tramo(b * BlockSize, meta[m].tam)
        BY <1>7, <2>4, <3>2
      <4>2. PICK n \in DOMAIN meta : x \in Tramo(DatosDesde(n) * BlockSize, ConDatos(n))
        BY <4>1 DEF Inv, Ceros
      <4>3. n # nm
        BY <2>1, <2>2, <2>3, <4>2
      <4>4. n # m
        BY <1>4, <2>1, <2>2, <4>1, <4>2
      <4> QED BY <2>1, <2>2, <4>2, <4>3, <4>4
    <3> QED BY <3>1, <3>2
  <2> QED BY <1>4, <2>4 DEF Ceros
<1> QED BY <1>8, <1>9, <1>10, <1>11, <1>12, <1>13, <1>14, <1>15, <1>16 DEF Inv

\* compactar_file_system: the bits of that file follow its bytes.
LEMMA CompactaBitsInv ==
  ASSUME Inv, CompactaBits
  PROVE  Inv'
<1>1. A = op.nombre /\ op.nombre \in DOMAIN meta
  BY Hallado DEF Inv, Pedido, ConArchivo, Compactando, Archivo, CompactaBits, Amplia
<1>2. PICK nm : nm = op.nombre
  OBVIOUS
<1>3. /\ paso = "mover" /\ paso' = "guardar" /\ op' = op /\ meta' = meta /\ nm \in DOMAIN meta
      /\ movido' = movido /\ copia' = copia /\ libre' = libre /\ datos' = datos
      /\ bitmap' = (bitmap \ Tramo(BloqueAMover, Cuantos(movido)))
                     \cup Tramo(libre, Cuantos(movido))
  BY <1>1, <1>2 DEF CompactaBits, Sigue, locales, Cuantos
<1>4. PICK m \in DOMAIN meta \ {nm} : m = movido
  BY <1>2, <1>3 DEF Inv, Pedido, Archivo
<1>5. PICK f \in Nat, b \in Nat, k \in Nat, M \in Nat :
        /\ f = libre /\ b = meta[m].ini /\ k = Cuantos(m) /\ M = MaxBit
        /\ f < b /\ k >= 1 /\ b + k <= M
  BY <1>3, <1>4, Medidas DEF Inv, Compactacion
<1>6. /\ \A n \in DOMAIN meta :
           /\ Desde(n) = meta[n].ini /\ Desde(n)' = IF n = m THEN f ELSE meta[n].ini
           /\ Marcados(n) = IF n = nm THEN 0 ELSE Cuantos(n)
           /\ Marcados(n)' = Marcados(n) /\ Cuantos(n)' = Cuantos(n)
  BY <1>2, <1>3, <1>4, <1>5 DEF Desde, Marcados, Cuantos, Archivo
<1>7. \A x \in Nat : f <= x /\ x < b => x \notin bitmap
  <2>1. Tramo(f, b - f) \cap bitmap = {}
    BY <1>3, <1>4, <1>5 DEF Inv, Compactacion
  <2>2. b - f \in Nat /\ f + (b - f) = b
    BY <1>5
  <2> QED BY <1>5, <2>1, <2>2, TramoMiembro
<1>8. \A x \in Nat : b <= x /\ x < b + k => x \in bitmap
  BY <1>4, <1>5, <1>6, SusBits
<1>9. \A x \in Bloques : x < f => x \in bitmap
  BY <1>3, <1>5 DEF Inv, Compactacion, Ocupados
<1>10. bitmap \subseteq Bloques /\ \A x \in Bloques : x \in Nat /\ x < M
  BY <1>5, Medidas, Bits
<1>11. BloqueAMover = b
  <2>1. f \in Libres
    <3>1. f < M /\ f \notin bitmap
      BY <1>5, <1>7
    <3> QED BY <1>5, <3>1, Bits DEF Libres
  <2>2. posicion_bloque_libre \in Libres /\ posicion_bloque_libre <= f
    BY <2>1, PrimeroLibre
  <2>3. posicion_bloque_libre = f
    <3>1. /\ posicion_bloque_libre \in Bloques /\ posicion_bloque_libre \in Nat
          /\ posicion_bloque_libre \notin bitmap
      BY <1>10, <2>2 DEF Libres
    <3>2. ~ (posicion_bloque_libre < f)
      BY <1>9, <3>1
    <3> QED BY <1>5, <2>2, <3>1, <3>2
  <2>4. PICK v : v = bloque_ocupado_desde(f)
    OBVIOUS
  <2>5. b \in bitmap
    BY <1>5, <1>8
  <2>6. v \in bitmap /\ v >= f /\ v <= b
    BY <1>5, <1>10, <2>4, <2>5, PrimeroMarcado
  <2>7. v = b
    BY <1>5, <1>7, <1>10, <2>6
  <2> QED BY <2>1, <2>3, <2>4, <2>7 DEF BloqueAMover
<1>12. bitmap' = (bitmap \ Tramo(b, k)) \cup Tramo(f, k)
  BY <1>3, <1>4, <1>5, <1>11
<1>13. /\ Tramo(b, k) \subseteq bitmap /\ Tramo(f, k) \subseteq Bloques
      /\ Tramo(f, k) \cap (bitmap \ Tramo(b, k)) = {}
  <2>1. Tramo(b, k) \subseteq bitmap
    BY <1>5, <1>8, TramoMiembro
  <2>2. \A x : x \in Tramo(f, k) => x \in Nat /\ f <= x /\ x < f + k
    BY <1>5, TramoMiembro
  <2>3. Tramo(f, k) \subseteq Bloques
    <3> SUFFICES ASSUME NEW x \in Tramo(f, k) PROVE x \in Bloques
      OBVIOUS
    <3>1. x \in Nat /\ x < M
      BY <1>5, <2>2
    <3> QED BY <1>5, <3>1, Bits
  <2>4. ASSUME NEW x \in Tramo(f, k), x \in bitmap, x \notin Tramo(b, k) PROVE FALSE
    <3>1. x \in Nat /\ f <= x /\ x < f + k
      BY <2>2, <2>4
    <3>2. ~ (b <= x /\ x < b + k)
      BY <1>5, <2>4, <3>1, TramoMiembro
    <3>3. x < b
      BY <1>5, <3>1, <3>2
    <3> QED BY <1>7, <2>4, <3>1, <3>3
  <2> QED BY <2>1, <2>3, <2>4
<1>14. \A n \in DOMAIN meta \ {m} :
        /\ \A x : ~ (x \in Tramo(b, k) /\ x \in Tramo(Desde(n), Marcados(n)))
        /\ Marcados(n) > 0 => /\ Aparte(f, k, Desde(n), Marcados(n))
                              /\ Aparte(Desde(n), Marcados(n), f, k)
  <2> SUFFICES ASSUME NEW n \in DOMAIN meta \ {m}
               PROVE  /\ \A x : ~ (x \in Tramo(b, k) /\ x \in Tramo(Desde(n), Marcados(n)))
                      /\ Marcados(n) > 0 => /\ Aparte(f, k, Desde(n), Marcados(n))
                                            /\ Aparte(Desde(n), Marcados(n), f, k)
    OBVIOUS
  <2>1. PICK j \in Nat, l \in Nat : j = Desde(n) /\ l = Marcados(n)
    BY <1>6, Medidas
  <2>2. CASE l = 0
    BY <2>1, <2>2, TramoMiembro
  <2>3. CASE l > 0
    <3>1. Aparte(b, k, j, l)
      BY <1>3, <1>4, <1>5, <1>6, <2>1, <2>3 DEF Inv, Apartados, Fuera
    <3>2. b + k <= j \/ j + l <= b
      BY <3>1 DEF Aparte
    <3>3. j + l <= b => j + l <= f
      <4> SUFFICES ASSUME j + l <= b, f < j + l PROVE FALSE
        BY <1>5, <2>1
      <4>1. j + l - 1 \in Nat /\ j <= j + l - 1 /\ j + l - 1 < j + l
            /\ f <= j + l - 1 /\ j + l - 1 < b
        BY <1>5, <2>1, <2>3
      <4>2. j + l - 1 \in bitmap
        BY <2>1, <4>1, SusBits
      <4> QED BY <1>7, <4>1, <4>2
    <3>4. Aparte(f, k, j, l) /\ Aparte(j, l, f, k)
      BY <1>5, <3>2, <3>3 DEF Aparte
    <3> QED BY <1>5, <2>1, <3>1, <3>4, TramosAparte
  <2> QED BY <2>1, <2>2, <2>3
<1>15. Listados'
  BY DEF Inv, Listados, CompactaBits
<1>16. Pedido'
  BY DEF Inv, Pedido, Pasos, Compactando, ConArchivo, Archivo, CompactaBits, Sigue, locales
<1>17. Restos'
  BY DEF Inv, Restos, Archivo, CompactaBits, Sigue, locales
<1>18. Geometria'
  <2>1. f + k <= MaxBit /\ f + 0 <= MaxBit
    BY <1>5
  <2>2. \A n \in DOMAIN meta :
          /\ meta[n].ini \in Nat /\ meta[n].tam \in Nat /\ meta[n].ini + Cuantos(n) <= MaxBit
          /\ Desde(n) + Marcados(n) <= MaxBit
    BY Medidas DEF Inv, Geometria
  <2>3. \A n \in DOMAIN meta : Desde(n)' + Marcados(n)' <= MaxBit
    BY <1>4, <1>5, <1>6, <2>1, <2>2
  <2> QED BY <1>3, <1>6, <2>2, <2>3 DEF Geometria
<1>19. Bitmap'
  <2>1. bitmap' \subseteq Bloques
    BY <1>10, <1>12, <1>13
  <2>2. ASSUME NEW x \in Bloques
        PROVE  x \in bitmap' <=> \E n \in DOMAIN meta' : x \in Tramo(Desde(n)', Marcados(n)')
    <3>1. x \in bitmap <=> \E n \in DOMAIN meta : x \in Tramo(Desde(n), Marcados(n))
      BY DEF Inv, Bitmap
    <3>2. /\ Tramo(Desde(m), Marcados(m)) = Tramo(b, k)
          /\ Tramo(Desde(m)', Marcados(m)') = Tramo(f, k)
          /\ \A n \in DOMAIN meta \ {m} :
               Tramo(Desde(n)', Marcados(n)') = Tramo(Desde(n), Marcados(n))
      BY <1>4, <1>5, <1>6
    <3> QED BY <1>3, <1>12, <1>14, <3>1, <3>2
  <2> QED BY <2>1, <2>2 DEF Bitmap
<1>20. Separados'
  BY DEF Separados, Fuera, CompactaBits, Sigue
<1>21. Apartados'
  <2>1. \A n \in DOMAIN meta \ {m} : Desde(n)' = Desde(n) /\ Marcados(n)' = Marcados(n)
    BY <1>6
  <2>2. Desde(m)' = f /\ Marcados(m)' = k
    BY <1>4, <1>5, <1>6
  <2>3. \A i, j \in DOMAIN meta :
          i # j /\ Marcados(i) > 0 /\ Marcados(j) > 0
            => Aparte(Desde(i), Marcados(i), Desde(j), Marcados(j))
    BY <1>3 DEF Inv, Apartados, Fuera
  <2>4. ASSUME NEW i \in DOMAIN meta, NEW j \in DOMAIN meta,
               i # j, Marcados(i)' > 0, Marcados(j)' > 0
        PROVE  Aparte(Desde(i)', Marcados(i)', Desde(j)', Marcados(j)')
    <3>1. CASE i = m
      BY <1>14, <2>1, <2>2, <2>4, <3>1
    <3>2. CASE j = m
      BY <1>14, <2>1, <2>2, <2>4, <3>2
    <3>3. CASE i # m /\ j # m
      BY <2>1, <2>3, <2>4, <3>3
    <3> QED BY <3>1, <3>2, <3>3
  <2> QED BY <1>3, <2>4 DEF Apartados, Aparte
<1>22. Compactacion'
  <2>1. BloquesNuevos <= Cardinality(Libres')
    <3>1. BloquesNuevos <= Cardinality(Libres)
      BY <1>3 DEF Inv, Compactacion
    <3>2. Cardinality(Bloques \ ((bitmap \ Tramo(b, k)) \cup Tramo(f, k)))
            = Cardinality(Bloques \ bitmap)
      BY <1>10, <1>13, Intercambio
    <3>4. Libres' = Bloques \ ((bitmap \ Tramo(b, k)) \cup Tramo(f, k))
      BY <1>12 DEF Libres
    <3>5. Libres = Bloques \ bitmap
      BY DEF Libres
    <3> QED BY <3>1, <3>2, <3>4, <3>5
  <2>2. \A x \in Bloques : x < f => x \in bitmap'
    <3> SUFFICES ASSUME NEW x \in Bloques, x < f PROVE x \in bitmap'
      OBVIOUS
    <3>1. x \in bitmap /\ x \in Nat /\ x < b
      BY <1>5, <1>9, <1>10
    <3>2. x \notin Tramo(b, k)
      BY <1>5, <3>1, TramoMiembro
    <3> QED BY <1>12, <3>1, <3>2
  <2>3. Asentados'
    <3>1. Asentados
      BY <1>3 DEF Inv, Compactacion
    <3>2. ASSUME NEW n \in DOMAIN meta \ {nm}, n # m, meta[n].ini = meta[nm].ini
          PROVE  \A x \in Bloques : x < meta[n].ini + 1 => x \in bitmap'
      <4>1. PICK j \in Nat : j = meta[n].ini
        BY Medidas
      <4>2. \A x \in Bloques : x < j + 1 => x \in bitmap
        BY <1>2, <1>4, <3>1, <3>2, <4>1 DEF Asentados, Ocupados, Archivo
      <4>3. j < f
        <5>1. f \in Bloques /\ f \notin bitmap
          <6>1. f < M
            BY <1>5
          <6> QED BY <1>5, <1>7, <6>1, Bits
        <5>2. ~ (f < j + 1)
          BY <4>2, <5>1
        <5> QED BY <1>5, <4>1, <5>2
      <4>4. \A x \in Bloques : x < j + 1 => x < f
        BY <1>5, <1>10, <4>1, <4>3
      <4> QED BY <2>2, <4>1, <4>4
    <3> QED BY <1>2, <1>3, <1>4, <3>2 DEF Asentados, Ocupados, Archivo
  <2>4. libre' \in Nat /\ libre' < meta'[movido'].ini /\ Ocupados(libre)'
    BY <1>3, <1>4, <1>5, <2>2 DEF Ocupados
  <2>5. paso' = "guardar" /\ BloquesNuevos' = BloquesNuevos
    BY <1>3 DEF BloquesNuevos
  <2> QED BY <2>1, <2>3, <2>4, <2>5 DEF Compactacion
<1>23. Ceros'
  BY DEF Inv, Ceros, DatosDesde, ConDatos, Archivo, CompactaBits, Sigue, locales
<1> QED BY <1>15, <1>16, <1>17, <1>18, <1>19, <1>20, <1>21, <1>22, <1>23 DEF Inv

\* compactar_file_system: the metadata of that file follow its bits.
LEMMA CompactaMetaInv ==
  ASSUME Inv, CompactaMeta
  PROVE  Inv'
<1>1. A = op.nombre /\ op.nombre \in DOMAIN meta
  BY Hallado DEF Inv, Pedido, ConArchivo, Compactando, Archivo, CompactaMeta, Amplia
<1>2. PICK nm : nm = op.nombre
  OBVIOUS
<1>3. /\ paso = "guardar" /\ paso' = "compactar" /\ op' = op /\ nm \in DOMAIN meta
      /\ meta' = [meta EXCEPT ![movido].ini = libre]
      /\ movido' = Nadie /\ copia' = copia /\ libre' = libre /\ datos' = datos
      /\ bitmap' = bitmap
  BY <1>1, <1>2 DEF CompactaMeta, Sigue
<1>4. PICK m \in DOMAIN meta \ {nm} : m = movido
  BY <1>2, <1>3 DEF Inv, Pedido, Archivo
<1>5. PICK f \in Nat : f = libre /\ \A x \in Bloques : x < f => x \in bitmap
  BY <1>3 DEF Inv, Compactacion, Ocupados
<1>6. /\ DOMAIN meta' = DOMAIN meta
      /\ \A n \in DOMAIN meta : /\ meta'[n].ini = IF n = m THEN f ELSE meta[n].ini
                                /\ meta'[n].tam = meta[n].tam
  BY <1>3, <1>4, <1>5 DEF Inv, Restos
<1>7. \A n \in DOMAIN meta :
        /\ Cuantos(n)' = Cuantos(n)
        /\ Desde(n) = IF n = m THEN f ELSE meta[n].ini
        /\ Desde(n)' = IF n = m THEN f ELSE meta[n].ini
        /\ Marcados(n)' = Marcados(n)
        /\ n # nm => Marcados(n) = Cuantos(n)
  BY <1>2, <1>3, <1>4, <1>5, <1>6, DialfsAssumption DEF Desde, Marcados, Cuantos, Archivo
<1>8. Listados'
  BY DEF Inv, Listados, CompactaMeta
<1>9. Pedido'
  BY DEF Inv, Pedido, Pasos, Compactando, ConArchivo, Archivo, CompactaMeta, Sigue
<1>10. Restos'
  <2>1. meta' \in [DOMAIN meta' -> [ini : Nat, tam : Nat]]
    <3>1. meta \in [DOMAIN meta -> [ini : Nat, tam : Nat]]
      BY DEF Inv, Restos
    <3> QED BY <1>3, <1>4, <1>5, <3>1
  <2> QED BY <1>2, <1>3, <1>4, <1>6, <2>1 DEF Inv, Restos, CompactaMeta, Archivo
<1>11. Geometria'
  <2>1. \A n \in DOMAIN meta :
          /\ meta[n].ini \in Nat /\ meta[n].tam \in Nat /\ meta[n].ini + Cuantos(n) <= MaxBit
          /\ Desde(n) + Marcados(n) <= MaxBit
    BY Medidas DEF Inv, Geometria
  <2>2. f + Cuantos(m) <= MaxBit
    BY <1>4, <1>7, <2>1
  <2>3. \A n \in DOMAIN meta : meta'[n].ini + Cuantos(n)' <= MaxBit
    BY <1>4, <1>6, <1>7, <2>1, <2>2
  <2>4. \A n \in DOMAIN meta : Desde(n)' + Marcados(n)' <= MaxBit
    BY <1>6, <1>7, <2>1
  <2>5. \A n \in DOMAIN meta : meta'[n].ini \in Nat /\ meta'[n].tam \in Nat
    BY <1>5, <1>6, <2>1
  <2> QED BY <1>6, <2>3, <2>4, <2>5 DEF Geometria
<1>12. Bitmap'
  BY <1>3, <1>6, <1>7, BitmapIgual DEF Inv
<1>13. Separados'
  BY <1>3 DEF Separados, Fuera
<1>14. Apartados'
  <2>1. \A i, j \in DOMAIN meta :
          i # j /\ Marcados(i) > 0 /\ Marcados(j) > 0
            => Aparte(Desde(i), Marcados(i), Desde(j), Marcados(j))
    BY <1>3 DEF Inv, Apartados, Fuera
  <2> QED BY <1>3, <1>6, <1>7, <2>1 DEF Apartados, Aparte
<1>15. Compactacion'
  <2>1. BloquesNuevos' = BloquesNuevos /\ Libres' = Libres
    BY <1>3 DEF BloquesNuevos, Libres
  <2>2. BloquesNuevos <= Cardinality(Libres) /\ Asentados
    BY <1>3 DEF Inv, Compactacion
  <2>3. f \in bitmap
    <3>1. PICK k \in Nat : k = Cuantos(m) /\ k >= 1
      BY <1>4, Medidas
    <3>2. f <= f /\ f < f + k
      BY <3>1
    <3>3. Desde(m) = f /\ Marcados(m) = k
      BY <1>4, <1>7, <3>1
    <3> QED BY <1>4, <3>1, <3>2, <3>3, SusBits
  <2>4. \A x \in Bloques : x < f + 1 => x \in bitmap
    BY <1>5, <2>3, Bits
  <2>5. Asentados'
    <3>1. ASSUME NEW n \in DOMAIN meta \ {nm}, meta'[n].ini = meta'[nm].ini
          PROVE  \A x \in Bloques : x < meta'[n].ini + 1 => x \in bitmap
      <4>1. CASE n = m
        BY <1>4, <1>6, <2>4, <4>1
      <4>2. CASE n # m
        <5>1. meta'[n].ini = meta[n].ini /\ meta'[nm].ini = meta[nm].ini
          BY <1>3, <1>4, <1>6, <4>2
        <5> QED BY <1>2, <1>4, <2>2, <3>1, <4>2, <5>1 DEF Asentados, Ocupados, Archivo
      <4> QED BY <4>1, <4>2
    <3> QED BY <1>2, <1>3, <1>6, <3>1 DEF Asentados, Ocupados, Archivo
  <2>6. paso' = "compactar"
    BY <1>3
  <2> QED BY <2>1, <2>2, <2>5, <2>6 DEF Compactacion
<1>16. Ceros'
  <2>1. \A n \in DOMAIN meta :
          DatosDesde(n)' = DatosDesde(n) /\ ConDatos(n)' = ConDatos(n)
    BY <1>2, <1>3, <1>4, <1>5, <1>6 DEF DatosDesde, ConDatos, Archivo
  <2> QED BY <1>3, <1>6, <2>1, CerosIgual DEF Inv
<1> QED BY <1>8, <1>9, <1>10, <1>11, <1>12, <1>13, <1>14, <1>15, <1>16 DEF Inv

\* The file that was taken out goes after the bits of all the others.
LEMMA Pegada ==
  ASSUME Inv, PegaDatos
  PROVE  \E f \in Nat : Pega(f)
<1>1. A = op.nombre /\ op.nombre \in DOMAIN meta
  BY Hallado DEF Inv, Pedido, ConArchivo, Compactando, Archivo, PegaDatos, Amplia
<1>2. PICK nm : nm = op.nombre
  OBVIOUS
<1>3. /\ paso = "compactar" /\ paso' = "pegar" /\ op' = op /\ meta' = meta /\ nm \in DOMAIN meta
      /\ movido = Nadie /\ movido' = Nadie /\ copia' = copia /\ bitmap' = bitmap
      /\ libre' = posicion_bloque_libre /\ BloqueAMover = -1
      /\ datos' = Copiado(datos, libre' * BlockSize, copia)
      /\ copia \in Seq(Valores \cup {0}) /\ Len(copia) = meta[nm].tam
      /\ datos \in [Bytes -> Valores \cup {0}]
      /\ BloquesNuevos <= Cardinality(Libres)
  BY <1>1, <1>2 DEF Inv, Pedido, Restos, Compactacion, PegaDatos, Sigue, Archivo
<1>4. PICK N \in Nat, M \in Nat : N = BloquesNuevos /\ M = MaxBit /\ N >= 1
  BY Medidas
<1>5. /\ bitmap \subseteq Bloques /\ \A x \in Bloques : x \in Nat /\ x < M
      /\ IsFiniteSet(Libres) /\ Cardinality(Libres) \in Nat
  BY <1>4, Medidas, Bits, BloquesFinitos, FS_CardinalityType DEF Libres
<1>6. Libres # {}
  <2> SUFFICES ASSUME Libres = {} PROVE FALSE
    OBVIOUS
  <2>1. Cardinality(Libres) = 0
    BY FS_EmptySet
  <2> QED BY <1>3, <1>4, <2>1
<1>7. PICK f \in Nat : f = libre' /\ f \in Libres /\ f < M /\ \A x \in Libres : f <= x
  BY <1>3, <1>5, <1>6, PrimeroLibre DEF Libres
<1>8. \A x \in bitmap : x < f
  <2>1. bloque_ocupado_desde(f) = -1
    BY <1>3, <1>6, <1>7 DEF BloqueAMover
  <2>2. -1 \notin bitmap
    BY <1>5
  <2> QED BY <1>5, <1>7, <2>1, <2>2, PrimeroMarcado
<1>9. f + N <= M
  <2>1. M - f \in Nat /\ f + (M - f) = M
    <3>1. f \in Nat /\ M \in Nat /\ f < M
      BY <1>7
    <3> QED BY <3>1
  <2>2. Libres \subseteq Tramo(f, M - f)
    <3> SUFFICES ASSUME NEW x \in Libres PROVE x \in Tramo(f, M - f)
      OBVIOUS
    <3>1. x \in Nat /\ f <= x /\ x < f + (M - f)
      BY <1>5, <1>7, <2>1 DEF Libres
    <3> QED BY <1>7, <2>1, <3>1, TramoMiembro
  <2>3. Cardinality(Libres) <= M - f
    BY <2>1, <2>2, TramoFinito, FS_Subset
  <2> QED BY <1>3, <1>4, <1>5, <1>7, <2>3
<1>10. /\ datos' \in [Bytes -> Valores \cup {0}]
      /\ \A x \in Bytes : x \notin Tramo(f * BlockSize, meta[nm].tam) => datos'[x] = datos[x]
  <2>1. f * BlockSize \in Nat
    BY <1>7, Producto
  <2> QED BY <1>3, <1>7, <2>1, CopiadoTipo
<1> QED BY <1>2, <1>3, <1>4, <1>7, <1>8, <1>9, <1>10 DEF Pega

\* compactar_file_system: the copy is written after the last file.
LEMMA PegaDatosInv ==
  ASSUME Inv, PegaDatos
  PROVE  Inv'
<1>1. PICK nm : nm = op.nombre
  OBVIOUS
<1>2. PICK f \in Nat : Pega(f)
  BY Pegada
<1>3. /\ paso = "compactar" /\ paso' = "pegar" /\ op' = op /\ meta' = meta /\ nm \in DOMAIN meta
      /\ movido = Nadie /\ movido' = Nadie /\ copia' = copia /\ bitmap' = bitmap
      /\ copia \in Seq(Valores \cup {0}) /\ Len(copia) = meta[nm].tam
  BY <1>1, <1>2 DEF Pega
<1>4. libre' = f /\ f \in Libres /\ f \in Bloques
  BY <1>2 DEF Pega, Libres
<1>5. \A x \in bitmap : x < f
  BY <1>2 DEF Pega
<1>6. f + BloquesNuevos <= MaxBit
  BY <1>2 DEF Pega
<1>7. /\ datos' \in [Bytes -> Valores \cup {0}]
      /\ \A x \in Bytes : x \notin Tramo(f * BlockSize, meta[nm].tam) => datos'[x] = datos[x]
  BY <1>1, <1>2 DEF Pega
<1>8. Listados'
  BY DEF Inv, Listados, PegaDatos
<1>9. Pedido'
  BY DEF Inv, Pedido, Pasos, Compactando, ConArchivo, Archivo, PegaDatos, Sigue
<1>10. Restos'
  BY <1>1, <1>3, <1>4, <1>7 DEF Inv, Restos, PegaDatos, Libres, Archivo
<1>11. Geometria'
  BY DEF Inv, Geometria, Desde, Marcados, Cuantos, Archivo, PegaDatos, Sigue
<1>12. Bitmap'
  BY DEF Inv, Bitmap, Desde, Marcados, Cuantos, Archivo, PegaDatos, Sigue
<1>13. Separados'
  BY DEF Separados, Fuera, PegaDatos, Sigue
<1>14. Apartados'
  BY DEF Inv, Apartados, Desde, Marcados, Cuantos, Fuera, Archivo, PegaDatos, Sigue
<1>15. Compactacion'
  <2>1. BloquesNuevos' = BloquesNuevos
    BY <1>3 DEF BloquesNuevos
  <2>2. libre' + BloquesNuevos' <= MaxBit
    BY <1>4, <1>6, <2>1
  <2> QED BY <1>3, <1>4, <1>5, <2>2 DEF Compactacion
<1>16. Ceros'
  <2>1. \A n \in DOMAIN meta :
          /\ DatosDesde(n) = meta[n].ini
          /\ DatosDesde(n)' = IF n = nm THEN f ELSE meta[n].ini
    BY <1>1, <1>3, <1>4 DEF DatosDesde, Archivo
  <2>2. /\ ConDatos(nm) = 0 /\ ConDatos(nm)' = meta[nm].tam
        /\ \A n \in DOMAIN meta \ {nm} : ConDatos(n) = meta[n].tam /\ ConDatos(n)' = meta[n].tam
    BY <1>1, <1>3 DEF ConDatos, Archivo
  <2>3. \A x : x \notin Tramo(meta[nm].ini * BlockSize, 0)
    <3>1. meta[nm].ini * BlockSize \in Nat
      BY <1>3, Medidas, Producto
    <3> QED BY <3>1, TramoMiembro
  <2>4. ASSUME NEW x \in Bytes, datos'[x] # 0
        PROVE  \E n \in DOMAIN meta : x \in Tramo(DatosDesde(n)' * BlockSize, ConDatos(n)')
    <3>1. CASE x \in Tramo(f * BlockSize, meta[nm].tam)
      BY <1>3, <2>1, <2>2, <3>1
    <3>2. CASE x \notin Tramo(f * BlockSize, meta[nm].tam)
      <4>1. datos[x] # 0
        BY <1>7, <2>4, <3>2
      <4>2. PICK n \in DOMAIN meta : x \in Tramo(DatosDesde(n) * BlockSize, ConDatos(n))
        BY <4>1 DEF Inv, Ceros
      <4>3. n # nm
        BY <2>1, <2>2, <2>3, <4>2
      <4> QED BY <2>1, <2>2, <4>2, <4>3
    <3> QED BY <3>1, <3>2
  <2> QED BY <1>3, <2>4 DEF Ceros
<1> QED BY <1>8, <1>9, <1>10, <1>11, <1>12, <1>13, <1>14, <1>15, <1>16 DEF Inv

\* compactar_file_system: the bits of the file that grew.
LEMMA PegaBitsInv ==
  ASSUME Inv, PegaBits
  PROVE  Inv'
<1>1. A = op.nombre /\ op.nombre \in DOMAIN meta
  BY Hallado DEF Inv, Pedido, ConArchivo, Compactando, Archivo, PegaBits, Amplia
<1>2. PICK nm : nm = op.nombre
  OBVIOUS
<1>3. /\ paso = "pegar" /\ paso' = "reubicar" /\ op' = op /\ meta' = meta /\ nm \in DOMAIN meta
      /\ movido = Nadie /\ movido' = Nadie /\ copia' = copia /\ libre' = libre /\ datos' = datos
      /\ bitmap' = bitmap \cup Tramo(libre, BloquesNuevos)
      /\ libre + BloquesNuevos <= MaxBit /\ \A x \in bitmap : x < libre
  BY <1>1, <1>2 DEF Inv, Pedido, Compactacion, PegaBits, Sigue, locales
<1>4. PICK f \in Nat, N \in Nat, M \in Nat :
        f = libre /\ N = BloquesNuevos /\ M = MaxBit /\ N >= 1 /\ f + N <= M
  BY <1>3, Medidas, Bits DEF Inv, Restos
<1>5. \A n \in DOMAIN meta :
        /\ Desde(n) = meta[n].ini /\ Desde(n)' = IF n = nm THEN f ELSE meta[n].ini
        /\ Marcados(n) = IF n = nm THEN 0 ELSE Cuantos(n)
        /\ Marcados(n)' = IF n = nm THEN N ELSE Cuantos(n)
        /\ Cuantos(n)' = Cuantos(n)
  BY <1>2, <1>3, <1>4 DEF Desde, Marcados, Cuantos, Archivo, BloquesNuevos
<1>6. \A n \in DOMAIN meta \ {nm} : /\ Aparte(f, N, meta[n].ini, Cuantos(n))
                                    /\ Aparte(meta[n].ini, Cuantos(n), f, N)
  <2> SUFFICES ASSUME NEW n \in DOMAIN meta \ {nm}
               PROVE  /\ Aparte(f, N, meta[n].ini, Cuantos(n))
                      /\ Aparte(meta[n].ini, Cuantos(n), f, N)
    OBVIOUS
  <2>1. PICK j \in Nat, l \in Nat : j = meta[n].ini /\ l = Cuantos(n) /\ l >= 1
    BY Medidas
  <2>2. Desde(n) = j /\ Marcados(n) = l
    BY <1>5, <2>1
  <2>3. j + l - 1 \in Nat /\ j <= j + l - 1 /\ j + l - 1 < j + l
    BY <2>1
  <2>4. j + l - 1 \in bitmap
    BY <2>2, <2>3, SusBits
  <2>5. j + l <= f
    BY <1>3, <1>4, <2>1, <2>4
  <2> QED BY <2>1, <2>5 DEF Aparte
<1>7. Listados'
  BY DEF Inv, Listados, PegaBits
<1>8. Pedido'
  BY DEF Inv, Pedido, Pasos, Compactando, ConArchivo, Archivo, PegaBits, Sigue, locales
<1>9. Restos'
  BY DEF Inv, Restos, PegaBits, Sigue, locales
<1>10. Geometria'
  <2>1. \A n \in DOMAIN meta :
          /\ meta[n].ini \in Nat /\ meta[n].tam \in Nat /\ meta[n].ini + Cuantos(n) <= MaxBit
    BY Medidas
  <2>2. \A n \in DOMAIN meta : Desde(n)' + Marcados(n)' <= MaxBit
    BY <1>4, <1>5, <2>1
  <2> QED BY <1>3, <1>5, <2>1, <2>2 DEF Geometria
<1>11. Bitmap'
  <2>1. Tramo(f, N) \subseteq Bloques
    <3> SUFFICES ASSUME NEW x \in Tramo(f, N) PROVE x \in Bloques
      OBVIOUS
    <3>1. x \in Nat /\ x < f + N
      BY <1>4, TramoMiembro
    <3>2. x < M
      BY <1>4, <3>1
    <3> QED BY <1>4, <3>1, <3>2, Bits
  <2>2. bitmap' = bitmap \cup Tramo(f, N)
    BY <1>3, <1>4
  <2>3. \A x \in Bloques : x \in Tramo(Desde(nm)', Marcados(nm)')
                             <=> x \in Tramo(Desde(nm), Marcados(nm)) \/ x \in Tramo(f, N)
    <3>1. PICK j \in Nat : j = meta[nm].ini
      BY <1>3, Medidas
    <3>2. \A x : x \notin Tramo(j, 0)
      BY TramoMiembro
    <3> QED BY <1>3, <1>5, <3>1, <3>2
  <2> QED BY <1>3, <1>5, <2>1, <2>2, <2>3, BitmapPone DEF Inv
<1>12. Separados'
  BY DEF Separados, Fuera, PegaBits, Sigue
<1>13. Apartados'
  <2>1. \A i, j \in DOMAIN meta :
          i # j /\ Marcados(i) > 0 /\ Marcados(j) > 0
            => Aparte(Desde(i), Marcados(i), Desde(j), Marcados(j))
    BY <1>3 DEF Inv, Apartados, Fuera
  <2>2. ASSUME NEW i \in DOMAIN meta, NEW j \in DOMAIN meta,
               i # j, Marcados(i)' > 0, Marcados(j)' > 0
        PROVE  Aparte(Desde(i)', Marcados(i)', Desde(j)', Marcados(j)')
    <3>1. CASE i = nm
      BY <1>5, <1>6, <2>2, <3>1
    <3>2. CASE j = nm
      BY <1>5, <1>6, <2>2, <3>2
    <3>3. CASE i # nm /\ j # nm
      BY <1>5, <2>1, <2>2, <3>3
    <3> QED BY <3>1, <3>2, <3>3
  <2> QED BY <1>3, <2>2 DEF Apartados, Aparte
<1>14. Compactacion'
  BY DEF Compactacion, PegaBits, Sigue
<1>15. Ceros'
  BY DEF Inv, Ceros, DatosDesde, ConDatos, Archivo, PegaBits, Sigue, locales
<1> QED BY <1>7, <1>8, <1>9, <1>10, <1>11, <1>12, <1>13, <1>14, <1>15 DEF Inv

\* compactar_file_system: its first block and its new size are saved.
LEMMA PegaMetaInv ==
  ASSUME Inv, PegaMeta
  PROVE  Inv'
<1>1. A = op.nombre /\ op.nombre \in DOMAIN meta
  BY Hallado DEF Inv, Pedido, ConArchivo, Compactando, Archivo, PegaMeta, Amplia
<1>2. PICK nm : nm = op.nombre
  OBVIOUS
<1>3. /\ paso = "reubicar" /\ paso' = "espera" /\ op' = Nada /\ op'.nombre = Nadie
      /\ movido = Nadie /\ movido' = Nadie /\ copia' = <<>> /\ libre' = 0
      /\ bitmap' = bitmap /\ datos' = datos /\ lista' = lista /\ leido' = leido
      /\ reinicios' = reinicios /\ nm \in DOMAIN meta /\ nm # Nadie
      /\ meta' = [meta EXCEPT ![nm] = [ini |-> libre, tam |-> op.t]]
      /\ meta[nm].tam < op.t
  BY <1>1, <1>2 DEF Inv, Pedido, PegaMeta, Termina, SinLocales, Nada, Archivo, Compactando
<1>4. PICK f \in Nat, N \in Nat, t \in Nat :
        f = libre /\ N = BloquesNuevos /\ t = op.t /\ N >= 1 /\ bytes_a_bloques(t) = N
  BY Medidas, Bits DEF Inv, Restos, BloquesNuevos
<1>5. /\ DOMAIN meta' = DOMAIN meta
      /\ meta'[nm].ini = f /\ meta'[nm].tam = t
      /\ \A n \in DOMAIN meta \ {nm} : meta'[n] = meta[n]
  BY <1>3, <1>4
<1>6. \A n \in DOMAIN meta : n # Nadie
  BY DialfsAssumption DEF Inv, Restos
<1>7. \A n \in DOMAIN meta :
        /\ Desde(n) = IF n = nm THEN f ELSE meta[n].ini
        /\ Marcados(n) = IF n = nm THEN N ELSE Cuantos(n)
        /\ Desde(n)' = Desde(n) /\ Marcados(n)' = Marcados(n)
        /\ Desde(n)' = meta'[n].ini /\ Marcados(n)' = Cuantos(n)'
  BY <1>2, <1>3, <1>4, <1>5, <1>6 DEF Desde, Marcados, Cuantos, Archivo
<1>8. Listados'
  BY DEF Inv, Listados, PegaMeta
<1>9. Pedido'
  BY DEF Pedido, Pasos, Compactando, ConArchivo, PegaMeta, Termina, SinLocales, Nada
<1>10. Restos'
  <2>1. <<>> \in Seq(Valores \cup {0})
    OBVIOUS
  <2>2. meta' \in [DOMAIN meta' -> [ini : Nat, tam : Nat]]
    <3>1. meta \in [DOMAIN meta -> [ini : Nat, tam : Nat]]
      BY DEF Inv, Restos
    <3> QED BY <1>3, <1>4, <3>1
  <2> QED BY <1>3, <1>5, <2>1, <2>2 DEF Inv, Restos
<1>11. Geometria'
  <2>1. \A n \in DOMAIN meta :
          /\ meta[n].ini \in Nat /\ meta[n].tam \in Nat
          /\ Desde(n) + Marcados(n) <= MaxBit
    BY Medidas DEF Inv, Geometria
  <2>2. \A n \in DOMAIN meta : meta'[n].ini \in Nat /\ meta'[n].tam \in Nat
    BY <1>4, <1>5, <2>1
  <2> QED BY <1>5, <1>7, <2>1, <2>2 DEF Geometria
<1>12. Bitmap'
  BY <1>3, <1>5, <1>7, BitmapIgual DEF Inv
<1>13. Separados'
  <2>1. \A n \in DOMAIN meta : Marcados(n) > 0
    BY <1>4, <1>7, Medidas
  <2>2. \A m, n \in DOMAIN meta :
          m # n => Aparte(Desde(m), Marcados(m), Desde(n), Marcados(n))
    BY <1>3, <2>1 DEF Inv, Apartados, Fuera
  <2> QED BY <1>5, <1>7, <2>2 DEF Separados
<1>14. Apartados'
  BY DEF Apartados, Fuera, PegaMeta, Termina
<1>15. Compactacion'
  BY DEF Compactacion, PegaMeta, Termina
<1>16. Ceros'
  <2>1. \A n \in DOMAIN meta :
          /\ DatosDesde(n) = IF n = nm THEN f ELSE meta[n].ini
          /\ DatosDesde(n)' = IF n = nm THEN f ELSE meta[n].ini
          /\ ConDatos(n) = meta[n].tam
          /\ ConDatos(n)' = IF n = nm THEN t ELSE meta[n].tam
    BY <1>2, <1>3, <1>4, <1>5, <1>6 DEF DatosDesde, ConDatos, Archivo
  <2>2. \A x : x \in Tramo(f * BlockSize, meta[nm].tam) => x \in Tramo(f * BlockSize, t)
    <3>1. f * BlockSize \in Nat /\ meta[nm].tam \in Nat /\ meta[nm].tam < t
      BY <1>3, <1>4, Medidas, Producto
    <3>2. PICK q \in Nat, u \in Nat : q = f * BlockSize /\ u = meta[nm].tam /\ u < t
      BY <3>1
    <3>3. \A x \in Nat : x < q + u => x < q + t
      BY <1>4, <3>2
    <3> QED BY <1>4, <3>2, <3>3, TramoMiembro
  <2>3. ASSUME NEW x \in Bytes, datos'[x] # 0
        PROVE  \E n \in DOMAIN meta : x \in Tramo(DatosDesde(n)' * BlockSize, ConDatos(n)')
    <3>1. PICK n \in DOMAIN meta : x \in Tramo(DatosDesde(n) * BlockSize, ConDatos(n))
      BY <1>3, <2>3 DEF Inv, Ceros
    <3>2. CASE n = nm
      BY <2>1, <2>2, <3>1, <3>2
    <3>3. CASE n # nm
      BY <2>1, <3>1, <3>3
    <3> QED BY <3>2, <3>3
  <2> QED BY <1>5, <2>3 DEF Ceros
<1> QED BY <1>8, <1>9, <1>10, <1>11, <1>12, <1>13, <1>14, <1>15, <1>16 DEF Inv

\* io_fs_write past the end of the file changes nothing.
LEMMA EscribeSinLugarInv ==
  ASSUME Inv, EscribeSinLugar
  PROVE  Inv'
<1>1. Termina /\ UNCHANGED <<disco, lista, reinicios>> /\ leido' = leido
      /\ paso \in {"CREATE", "TRUNCATE", "WRITE", "READ"}
  BY DEF EscribeSinLugar, Amplia
<1>2. leido \in Seq(Valores \cup {0, Basura})
  BY DEF Inv, Restos
<1> QED BY <1>1, <1>2, SinCambios

\* io_fs_write stays within the bytes of the file.
LEMMA EscribeInv ==
  ASSUME Inv, Escribe
  PROVE  Inv'
<1>1. A = op.nombre /\ op.nombre \in DOMAIN meta
  BY Hallado DEF Inv, Pedido, ConArchivo, Compactando, Archivo, Escribe, Amplia
<1>2. PICK nm : nm = op.nombre
  OBVIOUS
<1>3. /\ paso = "WRITE" /\ paso' = "espera" /\ op' = Nada /\ op'.nombre = Nadie /\ meta' = meta
      /\ movido = Nadie /\ movido' = Nadie /\ copia' = <<>> /\ libre' = 0 /\ bitmap' = bitmap
      /\ lista' = lista /\ leido' = leido /\ reinicios' = reinicios /\ nm \in DOMAIN meta
      /\ op.p + op.t <= meta[nm].tam
      /\ datos \in [Bytes -> Valores \cup {0}]
  BY <1>1, <1>2 DEF Inv, Pedido, Restos, Escribe, Actual, Termina, SinLocales, Nada
<1>4. PICK s \in [1..op.t -> Valores] :
        datos' = Copiado(datos, meta[nm].ini * BlockSize + op.p, s)
  BY <1>1, <1>2 DEF Escribe, ByteInicial, Inicial
<1>5. PICK q \in Nat, p \in Nat, t \in Nat, z \in Nat :
        /\ q = meta[nm].ini * BlockSize /\ p = op.p /\ t = op.t /\ z = meta[nm].tam
        /\ p + t <= z
  BY <1>3, Medidas, Producto DEF Inv, Pedido
<1>6. s \in Seq(Valores \cup {0}) /\ Len(s) = t
  BY <1>4, <1>5
<1>7. /\ datos' \in [Bytes -> Valores \cup {0}]
      /\ \A x \in Bytes : x \notin Tramo(q + p, t) => datos'[x] = datos[x]
  <2>1. q + p \in Nat
    BY <1>5
  <2> QED BY <1>3, <1>4, <1>5, <1>6, <2>1, CopiadoTipo
<1>8. Listados'
  BY DEF Inv, Listados, Escribe
<1>9. Pedido'
  BY DEF Pedido, Pasos, Compactando, ConArchivo, Escribe, Termina, SinLocales, Nada
<1>10. Restos'
  <2>1. <<>> \in Seq(Valores \cup {0})
    OBVIOUS
  <2> QED BY <1>3, <1>7, <2>1 DEF Inv, Restos
<1>11. Geometria'
  BY DEF Inv, Geometria, Desde, Marcados, Cuantos, Escribe, Termina
<1>12. Bitmap'
  BY DEF Inv, Bitmap, Desde, Marcados, Cuantos, Escribe, Termina
<1>13. Separados'
  BY DEF Inv, Separados, Cuantos, Fuera, Escribe
<1>14. Apartados'
  BY DEF Apartados, Fuera, Escribe, Termina
<1>15. Compactacion'
  BY DEF Compactacion, Escribe, Termina
<1>16. Ceros'
  <2>1. \A n \in DOMAIN meta :
          /\ DatosDesde(n) = meta[n].ini /\ DatosDesde(n)' = meta[n].ini
          /\ ConDatos(n) = meta[n].tam /\ ConDatos(n)' = meta[n].tam
    BY <1>3 DEF DatosDesde, ConDatos
  <2>2. \A x : x \in Tramo(q + p, t) => x \in Tramo(q, z)
    <3>1. q + p \in Nat /\ \A x \in Nat : q + p <= x /\ x < q + p + t => q <= x /\ x < q + z
      <4>1. q \in Nat /\ p \in Nat /\ t \in Nat /\ z \in Nat /\ p + t <= z
        BY <1>5
      <4> QED BY <4>1
    <3> QED BY <1>5, <3>1, TramoMiembro
  <2>3. ASSUME NEW x \in Bytes, datos'[x] # 0
        PROVE  \E n \in DOMAIN meta : x \in Tramo(DatosDesde(n)' * BlockSize, ConDatos(n)')
    <3>1. CASE x \in Tramo(q + p, t)
      BY <1>3, <1>5, <2>1, <2>2, <3>1
    <3>2. CASE x \notin Tramo(q + p, t)
      BY <1>7, <2>1, <2>3, <3>2 DEF Inv, Ceros
    <3> QED BY <3>1, <3>2
  <2> QED BY <1>3, <2>3 DEF Ceros
<1> QED BY <1>8, <1>9, <1>10, <1>11, <1>12, <1>13, <1>14, <1>15, <1>16 DEF Inv

\* io_fs_write that does not survive the answer changes nothing.
LEMMA EscribeSinRespuestaInv ==
  ASSUME Inv, EscribeSinRespuesta
  PROVE  Inv'
<1>1. Listados'
  BY DEF Inv, Listados, EscribeSinRespuesta, disco
<1>2. Pedido'
  BY DEF Inv, Pedido, Pasos, Compactando, ConArchivo, EscribeSinRespuesta, Sigue, locales
<1>3. Restos'
  BY DEF Inv, Restos, EscribeSinRespuesta, Sigue, disco, locales
<1>4. Geometria'
  BY DEF Inv, Geometria, Desde, Marcados, Cuantos, EscribeSinRespuesta, Sigue, disco
<1>5. Bitmap'
  BY DEF Inv, Bitmap, Desde, Marcados, Cuantos, EscribeSinRespuesta, Sigue, disco
<1>6. Separados'
  BY DEF Inv, Separados, Cuantos, Fuera, EscribeSinRespuesta, disco
<1>7. Apartados'
  BY DEF Apartados, Fuera, EscribeSinRespuesta, Sigue
<1>8. Compactacion'
  BY DEF Compactacion, EscribeSinRespuesta, Sigue
<1>9. Ceros'
  BY DEF Inv, Ceros, DatosDesde, ConDatos, EscribeSinRespuesta, Sigue, disco
<1> QED BY <1>1, <1>2, <1>3, <1>4, <1>5, <1>6, <1>7, <1>8, <1>9 DEF Inv

\* io_fs_read changes nothing of the disk, and answers bytes.
LEMMA LeeInv ==
  ASSUME Inv, Lee
  PROVE  Inv'
<1>1. A = op.nombre /\ op.nombre \in DOMAIN meta
  BY Hallado DEF Inv, Pedido, ConArchivo, Compactando, Archivo, Lee
<1>2. Inicial \in Nat /\ BlockSize \in Nat /\ op.t \in Nat /\ op.p \in Nat
  BY <1>1, DialfsAssumption DEF Inv, Geometria, Inicial, Pedido
<1>3. ByteInicial + op.p \in Nat
  BY <1>2, Producto DEF ByteInicial
<1> DEFINE s == Leidos(ByteInicial + op.p, op.t)
           ceros == {i \in DOMAIN s : s[i] = 0}
           V == Valores \cup {0, Basura}
<1>4. s \in Seq(V)
  BY <1>2, <1>3, LeidosTipo DEF Inv, Restos
<1>5. /\ Termina /\ UNCHANGED <<disco, lista, reinicios>> /\ paso = "READ"
      /\ IF ceros # {} THEN leido' = SubSeq(s, 1, Min(ceros) - 1)
                       ELSE leido' \in {s, Append(s, Basura)}
  BY DEF Lee
<1> HIDE DEF s
<1>6. DOMAIN s = 1..Len(s) /\ Len(s) \in Nat /\ \A i \in 1..Len(s) : s[i] \in V
  BY <1>4, LenProperties, ElementOfSeq
<1>7. leido' \in Seq(V)
  <2>1. CASE ceros # {}
    <3>0. ceros \subseteq Nat
      BY <1>6
    <3>1. Min(ceros) \in ceros
      BY <2>1, <3>0, MinimoNatural
    <3>2. Min(ceros) \in 1..Len(s)
      BY <1>6, <3>1
    <3>3. \A i \in 1..(Min(ceros) - 1) : s[i] \in V
      BY <1>6, <3>2
    <3>4. Min(ceros) - 1 \in Int
      BY <3>2
    <3>5. SubSeq(s, 1, Min(ceros) - 1) \in Seq(V)
      BY <3>3, <3>4, SubSeqProperties
    <3> QED BY <1>5, <2>1, <3>5
  <2>2. CASE ceros = {}
    BY <1>4, <1>5, <2>2
  <2> QED BY <2>1, <2>2
<1> QED BY <1>5, <1>7, SinCambios

----------------------------------------------------------------------------

\* The disk starts empty.
LEMMA IniciaInv ==
  ASSUME Init
  PROVE  Inv
<1>1. /\ DOMAIN meta = {} /\ lista = <<>> /\ bitmap = {} /\ datos = [x \in Bytes |-> 0]
      /\ op = Nada /\ paso = "espera" /\ copia = <<>> /\ libre = 0 /\ movido = Nadie
      /\ leido = <<>> /\ reinicios = 0
  BY DEF Init
<1>2. Listados
  <2>1. lista \in Seq(Nombres) /\ DOMAIN lista = {}
    BY <1>1
  <2> QED BY <1>1, <2>1 DEF Listados, ToSet
<1>3. Pedido
  BY <1>1, DialfsAssumption DEF Pedido, Nada, Pasos, Compactando, ConArchivo
<1>4. Restos
  <2>1. /\ <<>> \in Seq(Valores \cup {0}) /\ <<>> \in Seq(Valores \cup {0, Basura})
        /\ 0 \in 0..MaxReinicios
    BY DialfsAssumption
  <2>2. meta \in [DOMAIN meta -> [ini : Nat, tam : Nat]]
    BY DEF Init
  <2> QED BY <1>1, <2>1, <2>2 DEF Restos
<1>5. Geometria /\ Bitmap /\ Separados /\ Apartados
  BY <1>1 DEF Geometria, Bitmap, Separados, Apartados, Fuera
<1>6. Compactacion /\ Ceros
  BY <1>1 DEF Compactacion, Ceros
<1> QED BY <1>2, <1>3, <1>4, <1>5, <1>6 DEF Inv

\* A request arrives between two others.
LEMMA PideInv ==
  ASSUME Ausentes = {}, Inv, NEW n \in Nombres, Pedir(n)
  PROVE  Inv'
<1>1. PICK tipo \in {"CREATE", "DELETE", "TRUNCATE", "WRITE", "READ"}, t \in Nat, p \in Nat :
        Pide(tipo, n, t, p)
  <2>1. Tamanios \subseteq Nat /\ Largos \subseteq Nat /\ Punteros \subseteq Nat
    BY DialfsAssumption
  <2> QED BY <2>1 DEF Pedir
<1>2. /\ paso = "espera" /\ op' = [tipo |-> tipo, nombre |-> n, t |-> t, p |-> p]
      /\ tipo = "CREATE" \/ n \in DOMAIN meta
      /\ leido' = <<>> /\ meta' = meta /\ bitmap' = bitmap /\ datos' = datos /\ lista' = lista
      /\ copia' = copia /\ libre' = libre /\ movido' = movido /\ reinicios' = reinicios
  BY <1>1 DEF Pide, Inv, Listados, disco, locales
<1>3. n # Nadie
  BY DialfsAssumption
<1>4. paso' = tipo
  <2>1. CASE tipo = "CREATE"
    BY <1>1, <2>1 DEF Pide
  <2>2. CASE tipo # "CREATE"
    <3>1. lista # <<>>
      BY <1>2, <2>2 DEF Inv, Listados, ToSet
    <3> QED BY <1>1, <3>1 DEF Pide
  <2> QED BY <2>1, <2>2
<1>5. copia = <<>> /\ libre = 0 /\ movido = Nadie
  BY <1>2 DEF Inv, Pedido
<1>6. \A m \in DOMAIN meta :
        /\ Desde(m) = meta[m].ini /\ Marcados(m) = Cuantos(m)
        /\ DatosDesde(m) = meta[m].ini /\ ConDatos(m) = meta[m].tam
  BY <1>2 DEF Desde, Marcados, DatosDesde, ConDatos
<1>7. \A m \in DOMAIN meta :
        /\ Desde(m)' = meta[m].ini /\ Marcados(m)' = Cuantos(m) /\ Cuantos(m)' = Cuantos(m)
        /\ DatosDesde(m)' = meta[m].ini /\ ConDatos(m)' = meta[m].tam
  BY <1>2, <1>4 DEF Desde, Marcados, DatosDesde, ConDatos, Cuantos
<1>8. Listados'
  BY <1>2 DEF Inv, Listados
<1>9. Pedido'
  BY <1>2, <1>3, <1>4, <1>5 DEF Pedido, Pasos, Compactando, ConArchivo, Archivo
<1>10. Restos'
  <2>1. <<>> \in Seq(Valores \cup {0, Basura})
    OBVIOUS
  <2> QED BY <1>2, <1>4, <2>1 DEF Inv, Restos
<1>11. Geometria'
  BY <1>2, <1>6, <1>7 DEF Inv, Geometria
<1>12. Bitmap'
  BY <1>2, <1>6, <1>7, BitmapIgual DEF Inv
<1>13. Separados'
  BY <1>2, <1>7 DEF Inv, Separados, Fuera
<1>14. Apartados' /\ Compactacion'
  BY <1>4 DEF Apartados, Fuera, Compactacion
<1>15. Ceros'
  BY <1>2, <1>6, <1>7, CerosIgual DEF Inv
<1> QED BY <1>8, <1>9, <1>10, <1>11, <1>12, <1>13, <1>14, <1>15 DEF Inv

\* iniciar_file_system: what it reads from the metadata files is a consistent file system,
\* whatever the request in progress had written.
LEMMA ReiniciaInv ==
  ASSUME Compactando \cup {"ampliar"} \subseteq SinCorte, Inv, Reinicia
  PROVE  Inv'
<1>0. PICK nm : nm = op.nombre
  OBVIOUS
<1>1. /\ paso' = "espera" /\ op' = Nada /\ copia' = <<>> /\ libre' = 0 /\ movido' = Nadie
      /\ meta' = meta /\ datos' = datos /\ leido' = <<>>
      /\ reinicios < MaxReinicios /\ reinicios' = reinicios + 1
      /\ lista' \in SetToSeqs(DOMAIN meta)
      /\ bitmap' = bitmap \cup UNION {BloquesDe(n) : n \in DOMAIN meta}
      /\ paso \notin Compactando \cup {"ampliar"}
  BY DEF Reinicia, Termina, SinLocales
<1>2. /\ \A n \in DOMAIN meta :
           /\ meta[n].ini \in Nat /\ meta[n].tam \in Nat /\ Cuantos(n) \in Nat /\ Cuantos(n) >= 1
           /\ meta[n].ini + Cuantos(n) <= MaxBit
           /\ BloquesDe(n) = Tramo(meta[n].ini, Cuantos(n))
           /\ meta[n].ini * BlockSize \in Nat
      /\ op.t \in Nat /\ BloquesNuevos \in Nat
  BY Medidas, Producto
<1>3. \A n \in DOMAIN meta :
        /\ Desde(n)' = meta[n].ini /\ Marcados(n)' = Cuantos(n) /\ Cuantos(n)' = Cuantos(n)
        /\ DatosDesde(n)' = meta[n].ini /\ ConDatos(n)' = meta[n].tam
  BY <1>1 DEF Desde, Marcados, DatosDesde, ConDatos, Cuantos
<1>4. \A n \in DOMAIN meta :
        /\ Desde(n) = meta[n].ini /\ DatosDesde(n) = meta[n].ini
        /\ Marcados(n) \in Nat /\ Marcados(n) <= Cuantos(n)
        /\ ConDatos(n) \in Nat /\ ConDatos(n) <= meta[n].tam
  <2> SUFFICES ASSUME NEW n \in DOMAIN meta
               PROVE  /\ Desde(n) = meta[n].ini /\ DatosDesde(n) = meta[n].ini
                      /\ Marcados(n) \in Nat /\ Marcados(n) <= Cuantos(n)
                      /\ ConDatos(n) \in Nat /\ ConDatos(n) <= meta[n].tam
    OBVIOUS
  <2>1. Desde(n) = meta[n].ini /\ DatosDesde(n) = meta[n].ini
    BY <1>1 DEF Desde, DatosDesde, Compactando
  <2>2. paso \in {"soltar", "achicar"} => op.t <= meta[nm].tam /\ nm \in DOMAIN meta
    BY <1>0 DEF Inv, Pedido, Archivo, ConArchivo
  <2>3. CASE n = nm /\ paso \in {"soltar", "achicar"}
    <3>1. BloquesNuevos <= Cuantos(n)
      BY <1>2, <2>2, <2>3, BloquesCrecen DEF BloquesNuevos, Cuantos
    <3>2. Marcados(n) \in {BloquesNuevos, Cuantos(n)} /\ ConDatos(n) = op.t
      BY <1>0, <2>3 DEF Marcados, ConDatos, Archivo
    <3> QED BY <1>2, <2>1, <2>2, <2>3, <3>1, <3>2
  <2>4. CASE ~ (n = nm /\ paso \in {"soltar", "achicar"})
    <3>1. Marcados(n) \in {0, Cuantos(n)} /\ ConDatos(n) \in {0, meta[n].tam}
      BY <1>0, <1>1, <2>4 DEF Marcados, ConDatos, Archivo, Compactando
    <3> QED BY <1>2, <2>1, <3>1
  <2> QED BY <2>3, <2>4
<1>5. Listados'
  BY <1>1, Reordenado DEF Inv, Listados
<1>6. Pedido'
  BY <1>1, DialfsAssumption DEF Pedido, Nada, Pasos, Compactando, ConArchivo
<1>7. Restos'
  <2>1. /\ <<>> \in Seq(Valores \cup {0}) /\ <<>> \in Seq(Valores \cup {0, Basura})
        /\ reinicios' \in 0..MaxReinicios
    BY <1>1, DialfsAssumption DEF Inv, Restos
  <2> QED BY <1>1, <2>1 DEF Inv, Restos
<1>8. Geometria'
  BY <1>1, <1>2, <1>3 DEF Geometria
<1>9. Bitmap'
  <2>1. \A n \in DOMAIN meta : BloquesDe(n) \subseteq Bloques
    <3> SUFFICES ASSUME NEW n \in DOMAIN meta, NEW x \in BloquesDe(n) PROVE x \in Bloques
      OBVIOUS
    <3>1. PICK i \in Nat, k \in Nat : i = meta[n].ini /\ k = Cuantos(n) /\ i + k <= MaxBit
      BY <1>2
    <3>2. x \in Nat /\ x < i + k
      BY <1>2, <3>1, TramoMiembro
    <3>3. x < MaxBit
      BY <3>1, <3>2, BitsEnteros
    <3> QED BY <3>2, <3>3, Bits
  <2>2. bitmap \subseteq Bloques /\ bitmap' \subseteq Bloques
    BY <1>1, <2>1 DEF Inv, Bitmap
  <2>3. \A n \in DOMAIN meta : \A x : x \in Tramo(Desde(n), Marcados(n)) => x \in BloquesDe(n)
    <3> SUFFICES ASSUME NEW n \in DOMAIN meta
                 PROVE  \A x : x \in Tramo(Desde(n), Marcados(n)) => x \in BloquesDe(n)
      OBVIOUS
    <3>1. PICK i \in Nat, k \in Nat, l \in Nat :
            i = meta[n].ini /\ k = Cuantos(n) /\ l = Marcados(n) /\ l <= k
      BY <1>2, <1>4
    <3>2. Tramo(Desde(n), Marcados(n)) = Tramo(i, l) /\ BloquesDe(n) = Tramo(i, k)
      BY <1>2, <1>4, <3>1
    <3>3. \A x \in Nat : x < i + l => x < i + k
      BY <3>1
    <3> QED BY <3>2, <3>3, TramoMiembro
  <2>4. ASSUME NEW x \in Bloques
        PROVE  x \in bitmap' <=> \E n \in DOMAIN meta' : x \in Tramo(Desde(n)', Marcados(n)')
    <3>1. x \in bitmap => \E n \in DOMAIN meta : x \in BloquesDe(n)
      BY <2>3 DEF Inv, Bitmap
    <3>2. \A n \in DOMAIN meta : Tramo(Desde(n)', Marcados(n)') = BloquesDe(n)
      BY <1>2, <1>3
    <3> QED BY <1>1, <3>1, <3>2
  <2> QED BY <2>2, <2>4 DEF Bitmap
<1>10. Separados'
  <2>1. paso \notin Fuera
    BY <1>1 DEF Fuera, Compactando
  <2> QED BY <1>1, <1>3, <2>1 DEF Inv, Separados
<1>11. Apartados' /\ Compactacion'
  BY <1>1 DEF Apartados, Fuera, Compactacion
<1>12. Ceros'
  <2>1. ASSUME NEW x \in Bytes, datos'[x] # 0
        PROVE  \E n \in DOMAIN meta : x \in Tramo(DatosDesde(n)' * BlockSize, ConDatos(n)')
    <3>1. PICK n \in DOMAIN meta : x \in Tramo(DatosDesde(n) * BlockSize, ConDatos(n))
      BY <1>1, <2>1 DEF Inv, Ceros
    <3>2. PICK q \in Nat, k \in Nat, l \in Nat :
            q = meta[n].ini * BlockSize /\ k = meta[n].tam /\ l = ConDatos(n) /\ l <= k
      BY <1>2, <1>4
    <3>3. \A y \in Nat : y < q + l => y < q + k
      BY <3>2
    <3>4. x \in Tramo(q, l)
      BY <1>4, <3>1, <3>2
    <3>5. x \in Tramo(q, k)
      BY <3>2, <3>3, <3>4, TramoMiembro
    <3> QED BY <1>3, <3>2, <3>5
  <2> QED BY <1>1, <2>1 DEF Ceros
<1> QED BY <1>5, <1>6, <1>7, <1>8, <1>9, <1>10, <1>11, <1>12 DEF Inv

\* The type of the state, which the interface that cannot start keeps too.
LEMMA TipoDeInv ==
  ASSUME Inv
  PROVE  TypeOK
<1>1. \A n \in DOMAIN meta : meta[n].ini \in Bloques /\ meta[n].tam \in Nat
  <2> SUFFICES ASSUME NEW n \in DOMAIN meta
               PROVE  meta[n].ini \in Bloques /\ meta[n].tam \in Nat
    OBVIOUS
  <2>1. PICK i \in Nat, k \in Nat :
          i = meta[n].ini /\ k = Cuantos(n) /\ k >= 1 /\ i + k <= MaxBit /\ meta[n].tam \in Nat
    BY Medidas
  <2>2. i < MaxBit
    BY <2>1, BitsEnteros
  <2> QED BY <2>1, <2>2, Bits
<1>2. lista \in Seq(DOMAIN meta)
  <2>1. /\ Len(lista) \in Nat /\ DOMAIN lista = 1..Len(lista)
        /\ lista \in [1..Len(lista) -> Nombres]
    BY LenProperties DEF Inv, Listados
  <2>2. lista \in [1..Len(lista) -> DOMAIN meta]
    BY <2>1 DEF Inv, Listados, ToSet
  <2> QED BY <2>1, <2>2
<1>3. movido \in Nombres \cup {Nadie}
  BY DEF Inv, Pedido, Restos
<1> QED BY <1>1, <1>2, <1>3 DEF Inv, Pedido, Restos, Bitmap, TypeOK

\* Killed while a metadata file is empty.
LEMMA QuedaVacioInservible ==
  ASSUME Inv, QuedaVacio
  PROVE  Inservible'
<1>1. /\ meta' = meta /\ lista' = lista /\ bitmap' = bitmap /\ datos' = datos
      /\ op' = Nada /\ paso' = "inservible" /\ copia' = <<>> /\ libre' = 0 /\ movido' = Nadie
      /\ leido' = <<>> /\ reinicios < MaxReinicios /\ reinicios' = reinicios + 1
  BY DEF QuedaVacio, SinLocales, disco
<1>2. TypeOK
  BY TipoDeInv
<1>3. /\ <<>> \in Seq(Valores \cup {0}) /\ <<>> \in Seq(Valores \cup {0, Basura})
      /\ reinicios' \in 0..MaxReinicios
  BY <1>1, <1>2, DialfsAssumption DEF TypeOK
<1> QED BY <1>1, <1>2, <1>3 DEF Inservible, TypeOK, Nada, Pasos

LEMMA InservibleSigue ==
  ASSUME Inservible, [Next]_vars
  PROVE  Inservible' /\ UNCHANGED vars
<1>1. ~ Atiende
  BY DEF Inservible, Atiende, CreaSinLugar, CreaExistente, Crea, CreaMarca, BorraDatos, BorraBits,
     Quita, Amplia, AmpliaSinLugar, AmpliaBits, AchicaDatos, AchicaBits, GuardaTamanio,
     CompactaCopia, CompactaRetira, CompactaDatos, CompactaBits, CompactaMeta, PegaDatos,
     PegaBits, PegaMeta, EscribeSinLugar, Escribe, EscribeSinRespuesta, Lee
<1>2. ~ Reinicia /\ ~ QuedaVacio
  BY DEF Inservible, Reinicia, QuedaVacio, GuardaMeta
<1>3. \A n \in Nombres : ~ Pedir(n)
  BY DEF Inservible, Pedir, Pide
<1>4. UNCHANGED vars
  BY <1>1, <1>2, <1>3 DEF Next
<1> QED BY <1>4 DEF Inservible, TypeOK, vars, disco, locales

\* Every step keeps the invariant.
LEMMA SigueInv ==
  ASSUME Ausentes = {}, Compactando \cup {"ampliar"} \subseteq SinCorte, Inv, [Next]_vars,
         ~ QuedaVacio
  PROVE  Inv'
<1>1. CASE Atiende
  BY <1>1, CreaSinLugarInv, CreaExistenteInv, CreaInv, CreaMarcaInv, BorraDatosInv,
     BorraBitsInv, QuitaInv, AmpliaSinLugarInv, AmpliaBitsInv, AchicaDatosInv,
     AchicaBitsInv, GuardaTamanioInv, CompactaCopiaInv, CompactaRetiraInv, CompactaDatosInv,
     CompactaBitsInv, CompactaMetaInv, PegaDatosInv, PegaBitsInv, PegaMetaInv,
     EscribeSinLugarInv, EscribeInv, EscribeSinRespuestaInv, LeeInv DEF Atiende
<1>2. CASE Reinicia
  BY <1>2, ReiniciaInv
<1>3. ASSUME NEW n \in Nombres, Pedir(n) PROVE Inv'
  BY <1>3, PideInv
<1>4. CASE UNCHANGED vars
  <2>1. /\ meta' = meta /\ lista' = lista /\ bitmap' = bitmap /\ datos' = datos /\ op' = op
        /\ paso' = paso /\ copia' = copia /\ libre' = libre /\ movido' = movido
        /\ leido' = leido /\ reinicios' = reinicios
    BY <1>4 DEF vars, disco, locales
  <2>2. Listados' /\ Pedido' /\ Restos'
    BY <2>1 DEF Inv, Listados, Pedido, Restos, Archivo
  <2>3. Geometria' /\ Bitmap' /\ Separados' /\ Apartados' /\ Ceros'
    BY <2>1 DEF Inv, Geometria, Bitmap, Separados, Apartados, Ceros, Desde, Marcados,
       Cuantos, Archivo, BloquesNuevos, DatosDesde, ConDatos
  <2>4. Compactacion'
    BY <2>1 DEF Inv, Compactacion, Libres, BloquesNuevos, Cuantos, Archivo, Asentados,
       Ocupados
  <2> QED BY <2>2, <2>3, <2>4 DEF Inv
<1> QED BY <1>1, <1>2, <1>3, <1>4 DEF Next

----------------------------------------------------------------------------

\* Lists, bitmap, metadata and contents agree at every step of every request, or the
\* interface cannot start any more: the inductive invariant of the interface.
THEOREM InvSiempre ==
  ASSUME Ausentes = {}, Compactando \cup {"ampliar"} \subseteq SinCorte
  PROVE  Spec => [](Inv \/ Inservible)
<1>1. (Inv \/ Inservible) /\ [Next]_vars => (Inv \/ Inservible)'
  BY SigueInv, QuedaVacioInservible, InservibleSigue
<1> QED BY <1>1, IniciaInv, PTL DEF Spec

\* Every variable keeps its type; the blocks of the files and the bits are of the bitmap.
THEOREM TypeOKSiempre ==
  ASSUME Ausentes = {}, Compactando \cup {"ampliar"} \subseteq SinCorte
  PROVE  Spec => []TypeOK
BY TipoDeInv, InvSiempre, PTL DEF Inservible

\* No block belongs to two files, whatever was created, truncated, moved or recovered at a
\* restart (io_fs_create, io_fs_truncate, compactar_file_system, iniciar_file_system).
THEOREM SinSolapamientoSiempre ==
  ASSUME Ausentes = {}, Compactando \cup {"ampliar"} \subseteq SinCorte
  PROVE  Spec => []SinSolapamiento
<1>1. ASSUME Inv PROVE SinSolapamiento
  <2> SUFFICES ASSUME paso = "espera", NEW m \in DOMAIN meta, NEW n \in DOMAIN meta, m # n
               PROVE  BloquesDe(m) \cap BloquesDe(n) = {}
    BY DEF SinSolapamiento
  <2>1. Aparte(meta[m].ini, Cuantos(m), meta[n].ini, Cuantos(n))
    BY <1>1 DEF Inv, Separados, Fuera
  <2> QED BY <1>1, <2>1, Medidas, TramosAparte
<1>2. ASSUME Inservible PROVE SinSolapamiento
  BY <1>2 DEF Inservible, SinSolapamiento
<1> QED BY <1>1, <1>2, InvSiempre, PTL

\* Between two requests the bitmap has the bits of the files and no other: no block is
\* lost for ever and none is free while a file holds it (bitarray_set_bit and
\* bitarray_clean_bit in every io_fs_*).
THEOREM BitmapExactoSiempre ==
  ASSUME Ausentes = {}, Compactando \cup {"ampliar"} \subseteq SinCorte
  PROVE  Spec => []BitmapExacto
<1>1. ASSUME Inv PROVE BitmapExacto
  <2> SUFFICES ASSUME paso = "espera"
               PROVE  bitmap = UNION {BloquesDe(n) : n \in DOMAIN meta}
    BY DEF BitmapExacto
  <2>1. \A n \in DOMAIN meta : Tramo(Desde(n), Marcados(n)) = BloquesDe(n)
    BY <1>1, Medidas DEF Desde, Marcados
  <2>2. \A n \in DOMAIN meta : BloquesDe(n) \subseteq Bloques
    <3> SUFFICES ASSUME NEW n \in DOMAIN meta, NEW x \in BloquesDe(n) PROVE x \in Bloques
      OBVIOUS
    <3>1. PICK i \in Nat, k \in Nat : /\ i = meta[n].ini /\ k = Cuantos(n) /\ i + k <= MaxBit
                                      /\ BloquesDe(n) = Tramo(i, k)
      BY <1>1, Medidas
    <3>2. x \in Nat /\ x < i + k
      BY <3>1, TramoMiembro
    <3>3. x < MaxBit
      BY <3>1, <3>2, BitsEnteros
    <3> QED BY <3>2, <3>3, Bits
  <2>3. /\ bitmap \subseteq Bloques
        /\ \A x \in Bloques : x \in bitmap <=> \E n \in DOMAIN meta : x \in BloquesDe(n)
    BY <1>1, <2>1 DEF Inv, Bitmap
  <2> QED BY <2>2, <2>3
<1>2. ASSUME Inservible PROVE BitmapExacto
  BY <1>2 DEF Inservible, BitmapExacto
<1> QED BY <1>1, <1>2, InvSiempre, PTL

\* What no file holds is zero: a file that is created or enlarged does not show what
\* another one had there (limpiar_n_bytes_bloques).
THEOREM LibresEnCeroSiempre ==
  ASSUME Ausentes = {}, Compactando \cup {"ampliar"} \subseteq SinCorte
  PROVE  Spec => []LibresEnCero
<1>1. ASSUME Inv PROVE LibresEnCero
  <2> SUFFICES ASSUME paso = "espera"
               PROVE  \A x \in Bytes : datos[x] # 0 =>
                        \E n \in DOMAIN meta : x \in Tramo(meta[n].ini * BlockSize, meta[n].tam)
    BY DEF LibresEnCero
  <2>1. \A n \in DOMAIN meta : DatosDesde(n) = meta[n].ini /\ ConDatos(n) = meta[n].tam
    BY DEF DatosDesde, ConDatos
  <2> QED BY <1>1, <2>1 DEF Inv, Ceros
<1>2. ASSUME Inservible PROVE LibresEnCero
  BY <1>2 DEF Inservible, LibresEnCero
<1> QED BY <1>1, <1>2, InvSiempre, PTL

\* compactar_file_system ends: each turn of its loop lowers the first block of one file,
\* not the one that is enlarged, and moves no other.
THEOREM CompactaHaciaAbajoSiempre ==
  ASSUME Ausentes = {}, Compactando \cup {"ampliar"} \subseteq SinCorte
  PROVE  Spec => CompactaHaciaAbajo
<1>1. ASSUME Inv, [Next]_vars
      PROVE  [paso = "guardar" /\ op' = op =>
                /\ movido # A /\ meta'[movido].ini < meta[movido].ini
                /\ \A n \in DOMAIN meta \ {movido} : meta'[n] = meta[n]]_vars
  <2> SUFFICES ASSUME paso = "guardar", op' = op, Next
               PROVE  /\ movido # A /\ meta'[movido].ini < meta[movido].ini
                      /\ \A n \in DOMAIN meta \ {movido} : meta'[n] = meta[n]
    BY <1>1
  <2>1. CompactaMeta
    <3>1. ~ Reinicia
      BY DEF Reinicia, Compactando
    <3>4. ~ QuedaVacio
      <4>1. op # Nada
        BY <1>1, DialfsAssumption DEF Inv, Pedido, Nada
      <4> QED BY <4>1 DEF QuedaVacio
    <3>2. \A n \in Nombres : ~ Pedir(n)
      BY DEF Pedir, Pide
    <3>3. Atiende
      BY <3>1, <3>2, <3>4 DEF Next
    <3> QED BY <3>3 DEF Atiende, CreaSinLugar, CreaExistente, Crea, CreaMarca, BorraDatos,
               BorraBits, Quita, Amplia, AmpliaSinLugar, AmpliaBits, AchicaDatos,
               AchicaBits, GuardaTamanio, CompactaCopia, CompactaRetira, CompactaDatos,
               CompactaBits, PegaDatos, PegaBits, PegaMeta, EscribeSinLugar, Escribe,
               EscribeSinRespuesta, Lee
  <2>2. A = op.nombre
    BY <1>1, Hallado DEF Inv, Pedido, ConArchivo, Compactando
  <2>3. movido \in DOMAIN meta \ {op.nombre} /\ libre < meta[movido].ini
    BY <1>1 DEF Inv, Pedido, Compactacion, Archivo
  <2>4. /\ meta \in [DOMAIN meta -> [ini : Nat, tam : Nat]]
        /\ meta' = [meta EXCEPT ![movido].ini = libre]
    BY <1>1, <2>1 DEF Inv, Restos, CompactaMeta
  <2> QED BY <2>2, <2>3, <2>4
<1>2. Inservible /\ [Next]_vars
        => [paso = "guardar" /\ op' = op =>
              /\ movido # A /\ meta'[movido].ini < meta[movido].ini
              /\ \A n \in DOMAIN meta \ {movido} : meta'[n] = meta[n]]_vars
  BY DEF Inservible
<1> QED BY <1>1, <1>2, InvSiempre, PTL DEF Spec, CompactaHaciaAbajo

===========================================================================
