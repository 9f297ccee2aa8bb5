------------------------------ MODULE Archivos ------------------------------
(***************************************************************************)
(* What a DIALFS interface promises: files by name, each a sequence of     *)
(* bytes.  One request is in progress at a time; the operation it asks     *)
(* for, on the file and with the numbers it gives, takes effect once, not  *)
(* after its answer.  The interface may be restarted: every file comes     *)
(* back as it was, but for the one whose request was cut; a cut in a       *)
(* request that writes metadata may also leave it unable to start again.   *)
(***************************************************************************)
EXTENDS Naturals, Sequences

CONSTANTS
    Nombres,   \* the names of files
    Valores,   \* the bytes written
    Tamanios,  \* the sizes given to a TRUNCATE
    Largos,    \* the lengths given to a WRITE or a READ
    Punteros,  \* the file pointers given to them
    Basura,    \* what may follow a string that was read
    Nadie      \* no name

VARIABLES
    archivos,  \* from the names that exist to their contents
    pedido,    \* the request in progress
    hecho,     \* whether it has taken effect
    leido,     \* what the last IO_FS_READ sent to memoria
    reinicios, \* restarts so far
    sirve      \* whether the interface can still start

vars == <<archivos, pedido, hecho, leido, reinicios, sirve>>

Nada == [tipo |-> "NADA", nombre |-> Nadie, t |-> 0, p |-> 0]

Pedidos ==
    [tipo : {"CREATE", "DELETE"}, nombre : Nombres, t : {0}, p : {0}]
      \cup [tipo : {"TRUNCATE"}, nombre : Nombres, t : Tamanios, p : {0}]
      \cup [tipo : {"WRITE", "READ"}, nombre : Nombres, t : Largos, p : Punteros]

Init ==
    /\ archivos = [n \in {} |-> <<>>]
    /\ pedido = Nada /\ hecho = FALSE /\ leido = <<>> /\ reinicios = 0 /\ sirve = TRUE

\* f with the contents c for the name n.
Con(f, n, c) == [m \in DOMAIN f \cup {n} |-> IF m = n THEN c ELSE f[m]]

Sin(f, n) == [m \in DOMAIN f \ {n} |-> f[m]]

\* The contents c cut or filled with zeros to t bytes.
Ajustado(c, t) == [i \in 1..t |-> IF i <= Len(c) THEN c[i] ELSE 0]

\* The contents c with the bytes s from the position p on.
Escrito(c, p, s) == [i \in 1..Len(c) |-> IF i \in (p + 1)..(p + Len(s)) THEN s[i - p] ELSE c[i]]

Existe == pedido.nombre \in DOMAIN archivos

Contenido == archivos[pedido.nombre]

Pedir ==
    /\ sirve /\ pedido = Nada /\ pedido' \in Pedidos
    /\ leido' = <<>>
    /\ UNCHANGED <<archivos, hecho, reinicios, sirve>>

\* The request takes effect, together with its answer or before it.
Efecto(tipo) ==
    /\ pedido.tipo = tipo /\ ~hecho
    /\ \/ hecho' = TRUE /\ pedido' = pedido
       \/ hecho' = FALSE /\ pedido' = Nada
    /\ UNCHANGED <<reinicios, sirve>>

Responder ==
    /\ hecho
    /\ hecho' = FALSE /\ pedido' = Nada
    /\ UNCHANGED <<archivos, leido, reinicios, sirve>>

\* The answer of a request that has nothing to do, or no room to do it.
Rechazar ==
    /\ ~hecho /\ Existe
    /\ \/ pedido.tipo = "CREATE"
       \/ pedido.tipo = "TRUNCATE" /\ pedido.t > Len(Contenido)
       \/ pedido.tipo = "WRITE" /\ pedido.p + pedido.t > Len(Contenido)
    /\ hecho' = FALSE /\ pedido' = Nada
    /\ UNCHANGED <<archivos, leido, reinicios, sirve>>

Crear ==
    /\ Efecto("CREATE") /\ ~Existe
    /\ archivos' = Con(archivos, pedido.nombre, <<>>)
    /\ UNCHANGED leido

Borrar ==
    /\ Efecto("DELETE") /\ Existe
    /\ archivos' = Sin(archivos, pedido.nombre)
    /\ UNCHANGED leido

Truncar ==
    /\ Efecto("TRUNCATE") /\ Existe
    /\ archivos' = Con(archivos, pedido.nombre, Ajustado(Contenido, pedido.t))
    /\ UNCHANGED leido

Escribir ==
    /\ Efecto("WRITE") /\ Existe
    /\ pedido.p + pedido.t <= Len(Contenido)
    /\ \E s \in [1..pedido.t -> Valores] :
         archivos' = Con(archivos, pedido.nombre, Escrito(Contenido, pedido.p, s))
    /\ UNCHANGED leido

\* The bytes asked for, up to the first zero; with no zero, more may follow.
Leer ==
    /\ Efecto("READ") /\ Existe
    /\ pedido.p + pedido.t <= Len(Contenido)
    /\ LET s == [i \in 1..pedido.t |-> Contenido[pedido.p + i]]
       IN  \/ \E k \in 1..pedido.t :
                /\ s[k] = 0 /\ \A i \in 1..(k - 1) : s[i] # 0
                /\ leido' = SubSeq(s, 1, k - 1)
           \/ (\A i \in 1..pedido.t : s[i] # 0) /\ leido' \in {s, Append(s, Basura)}
    /\ UNCHANGED archivos

Reiniciar ==
    /\ sirve
    /\ reinicios' = reinicios + 1
    /\ pedido' = Nada /\ hecho' = FALSE /\ leido' = <<>>
    /\ IF pedido.tipo \in {"NADA", "READ"}
         THEN archivos' = archivos
         ELSE Sin(archivos', pedido.nombre) = Sin(archivos, pedido.nombre)
    /\ UNCHANGED sirve

\* The interface never starts again.
Perder ==
    /\ sirve /\ pedido.tipo \in {"CREATE", "TRUNCATE"}
    /\ sirve' = FALSE /\ archivos' = [n \in {} |-> <<>>]
    /\ reinicios' = reinicios + 1
    /\ pedido' = Nada /\ hecho' = FALSE /\ leido' = <<>>

Next ==
    \/ Pedir \/ Responder \/ Rechazar
    \/ Crear \/ Borrar \/ Truncar \/ Escribir \/ Leer
    \/ Reiniciar \/ Perder

Spec == Init /\ [][Next]_vars
=============================================================================
