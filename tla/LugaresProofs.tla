---------------------------- MODULE LugaresProofs ----------------------------
(***************************************************************************)
(* Where each process is.  A process created is in one of the queues of    *)
(* the kernel, or it is the one the CPU runs or escucha attends to, or it  *)
(* ended; lista_estados says which.  From this follow that a process that  *)
(* ended holds nothing, that EXIT is final, and that one that waits for a  *)
(* resource is recorded as a holder of it.  The last part counts them: how *)
(* many hold a slot of the degree of multiprogramming.                     *)
(***************************************************************************)
EXTENDS DespachoProofs

----------------------------------------------------------------------------
(* A family of queues.                                                     *)

\* p is in one of them.
Aparece(Q, p) == \E s \in DOMAIN Q : Esta(Q[s], p)

SinRepetidos(q) == \A j, k \in 1..Len(q) : q[j] = q[k] => j = k

\* No process is in two of them, nor twice in one.
Unico(Q) ==
    /\ \A s, t \in DOMAIN Q : \A p : Esta(Q[s], p) /\ Esta(Q[t], p) => s = t
    /\ \A s \in DOMAIN Q : SinRepetidos(Q[s])

\* queue_push of p on s, and queue_pop of s, of a family.
Pone(Q, s, p) == [Q EXCEPT ![s] = Append(@, p)]
Saca(Q, s)    == [Q EXCEPT ![s] = Tail(@)]

\* What queue_push does to a queue.
LEMMA AgregaEsta ==
  ASSUME NEW q \in Seq(Pids), NEW x \in Pids
  PROVE  /\ \A p : Esta(Append(q, x), p) <=> Esta(q, p) \/ p = x
         /\ SinRepetidos(q) /\ ~Esta(q, x) => SinRepetidos(Append(q, x))
<1> DEFINE a == Append(q, x)
<1>1. /\ Len(a) = Len(q) + 1 /\ Len(q) \in Nat
      /\ \A j \in 1..Len(q) : a[j] = q[j]
      /\ a[Len(q) + 1] = x
  BY AppendProperties, LenProperties
<1> HIDE DEF a
<1>2. ASSUME NEW p
      PROVE  Esta(a, p) <=> Esta(q, p) \/ p = x
  <2>1. ASSUME NEW j \in 1..Len(a), a[j] = p
        PROVE  Esta(q, p) \/ p = x
    <3>1. j \in 1..Len(q) \/ j = Len(q) + 1
      BY <1>1, <2>1
    <3> QED BY <1>1, <2>1, <3>1 DEF Esta
  <2>2. ASSUME NEW j \in 1..Len(q), q[j] = p
        PROVE  Esta(a, p)
    <3>1. j \in 1..Len(a) /\ a[j] = p
      BY <1>1, <2>2
    <3> QED BY <3>1 DEF Esta
  <2>3. Esta(a, x)
    <3>1. Len(q) + 1 \in 1..Len(a)
      BY <1>1
    <3> QED BY <1>1, <3>1 DEF Esta
  <2> QED BY <2>1, <2>2, <2>3 DEF Esta
<1>3. ASSUME SinRepetidos(q), ~Esta(q, x)
      PROVE  SinRepetidos(a)
  <2> SUFFICES ASSUME NEW j \in 1..Len(a), NEW k \in 1..Len(a), a[j] = a[k]
               PROVE  j = k
    BY DEF SinRepetidos
  <2>1. CASE j \in 1..Len(q) /\ k \in 1..Len(q)
    BY <1>1, <1>3, <2>1 DEF SinRepetidos
  <2>2. CASE j \in 1..Len(q) /\ k = Len(q) + 1
    BY <1>1, <1>3, <2>2 DEF Esta
  <2>3. CASE j = Len(q) + 1 /\ k \in 1..Len(q)
    BY <1>1, <1>3, <2>3 DEF Esta
  <2> QED BY <1>1, <2>1, <2>2, <2>3
<1> QED BY <1>2, <1>3 DEF a

\* What queue_pop does to a queue.
LEMMA CabezaEsta ==
  ASSUME NEW q \in Seq(Pids), q # <<>>
  PROVE  /\ Head(q) \in Pids /\ Esta(q, Head(q)) /\ Tail(q) \in Seq(Pids)
         /\ SinRepetidos(q) =>
              /\ SinRepetidos(Tail(q))
              /\ \A p : Esta(Tail(q), p) <=> Esta(q, p) /\ p # Head(q)
<1> DEFINE r == Tail(q)
<1>1. /\ Head(q) \in Pids /\ r \in Seq(Pids) /\ Head(q) = q[1]
      /\ Len(q) \in Nat \ {0} /\ Len(r) = Len(q) - 1
      /\ \A j \in 1..Len(r) : r[j] = q[j + 1]
  BY HeadTailProperties, EmptySeq
<1> HIDE DEF r
<1>2. 1 \in 1..Len(q)
  BY <1>1
<1>3. ASSUME SinRepetidos(q)
      PROVE  SinRepetidos(r)
  <2> SUFFICES ASSUME NEW j \in 1..Len(r), NEW k \in 1..Len(r), r[j] = r[k]
               PROVE  j = k
    BY DEF SinRepetidos
  <2>1. j + 1 \in 1..Len(q) /\ k + 1 \in 1..Len(q) /\ q[j + 1] = q[k + 1]
    BY <1>1
  <2> QED BY <1>3, <2>1 DEF SinRepetidos
<1>4. ASSUME SinRepetidos(q), NEW p
      PROVE  Esta(r, p) <=> Esta(q, p) /\ p # Head(q)
  <2>1. ASSUME NEW j \in 1..Len(r), r[j] = p
        PROVE  Esta(q, p) /\ p # Head(q)
    <3>1. j + 1 \in 1..Len(q) /\ q[j + 1] = p /\ j + 1 # 1
      BY <1>1, <2>1
    <3> QED BY <1>1, <1>2, <1>4, <3>1 DEF SinRepetidos, Esta
  <2>2. ASSUME NEW j \in 1..Len(q), q[j] = p, p # Head(q)
        PROVE  Esta(r, p)
    <3>1. j # 1
      BY <1>1, <2>2
    <3>2. j - 1 \in 1..Len(r) /\ r[j - 1] = q[(j - 1) + 1] /\ (j - 1) + 1 = j
      BY <1>1, <3>1
    <3> QED BY <2>2, <3>2 DEF Esta
  <2> QED BY <2>1, <2>2 DEF Esta
<1> QED BY <1>1, <1>2, <1>3, <1>4 DEF Esta, r

\* What queue_push does to a family.
LEMMA PoneUnico ==
  ASSUME NEW C, NEW Q \in [C -> Seq(Pids)], NEW s \in C, NEW x \in Pids,
         Unico(Q), ~Aparece(Q, x)
  PROVE  /\ Pone(Q, s, x) \in [C -> Seq(Pids)] /\ Unico(Pone(Q, s, x))
         /\ \A t \in C : \A p : Esta(Pone(Q, s, x)[t], p)
                                  <=> Esta(Q[t], p) \/ (t = s /\ p = x)
<1> DEFINE R == Pone(Q, s, x)
<1>1. /\ R \in [C -> Seq(Pids)] /\ R[s] = Append(Q[s], x)
      /\ \A t \in C : t # s => R[t] = Q[t]
  <2>1. Append(Q[s], x) \in Seq(Pids)
    BY AppendProperties
  <2> QED BY <2>1 DEF Pone
<1> HIDE DEF R
<1>2. \A t \in C : ~Esta(Q[t], x)
  BY DEF Aparece
<1>3. /\ \A p : Esta(R[s], p) <=> Esta(Q[s], p) \/ p = x
      /\ SinRepetidos(R[s])
  BY <1>1, <1>2, AgregaEsta DEF Unico
<1>4. \A t \in C : \A p : Esta(R[t], p) <=> Esta(Q[t], p) \/ (t = s /\ p = x)
  BY <1>1, <1>3
<1>5. \A t \in C : SinRepetidos(R[t])
  BY <1>1, <1>3 DEF Unico
<1>6. \A t, u \in C : \A p : Esta(R[t], p) /\ Esta(R[u], p) => t = u
  <2>1. \A t, u \in C : \A p : Esta(Q[t], p) /\ Esta(Q[u], p) => t = u
    BY DEF Unico
  <2> SUFFICES ASSUME NEW t \in C, NEW u \in C, NEW p, Esta(R[t], p), Esta(R[u], p)
               PROVE  t = u
    OBVIOUS
  <2>2. Esta(Q[t], p) \/ (t = s /\ p = x)
    BY <1>4
  <2>3. Esta(Q[u], p) \/ (u = s /\ p = x)
    BY <1>4
  <2> QED BY <1>2, <2>1, <2>2, <2>3
<1>7. DOMAIN R = C
  BY <1>1
<1>8. Unico(R)
  BY <1>5, <1>6, <1>7 DEF Unico
<1> QED BY <1>1, <1>4, <1>8 DEF R

\* What queue_pop does to a family.
LEMMA SacaUnico ==
  ASSUME NEW C, NEW Q \in [C -> Seq(Pids)], NEW s \in C, Q[s] # <<>>, Unico(Q)
  PROVE  /\ Saca(Q, s) \in [C -> Seq(Pids)] /\ Unico(Saca(Q, s))
         /\ Head(Q[s]) \in Pids /\ Esta(Q[s], Head(Q[s]))
         /\ ~Aparece(Saca(Q, s), Head(Q[s]))
         /\ \A t \in C : \A p : Esta(Saca(Q, s)[t], p)
                                  <=> Esta(Q[t], p) /\ p # Head(Q[s])
<1> DEFINE R == Saca(Q, s)
           h == Head(Q[s])
<1>1. /\ h \in Pids /\ Esta(Q[s], h) /\ Tail(Q[s]) \in Seq(Pids)
      /\ SinRepetidos(Tail(Q[s]))
      /\ \A p : Esta(Tail(Q[s]), p) <=> Esta(Q[s], p) /\ p # h
  BY CabezaEsta DEF Unico
<1>2. /\ R \in [C -> Seq(Pids)] /\ R[s] = Tail(Q[s])
      /\ \A t \in C : t # s => R[t] = Q[t]
  BY <1>1 DEF Saca
<1> HIDE DEF R, h
<1>3. \A t \in C : Esta(Q[t], h) => t = s
  BY <1>1 DEF Unico
<1>4. \A t \in C : \A p : Esta(R[t], p) <=> Esta(Q[t], p) /\ p # h
  BY <1>1, <1>2, <1>3
<1>5. \A t \in C : SinRepetidos(R[t])
  BY <1>1, <1>2 DEF Unico
<1>6. \A t, u \in C : \A p : Esta(R[t], p) /\ Esta(R[u], p) => t = u
  BY <1>4 DEF Unico
<1>7. DOMAIN R = C
  BY <1>2
<1>8. Unico(R) /\ ~Aparece(R, h)
  BY <1>4, <1>5, <1>6, <1>7 DEF Unico, Aparece
<1> QED BY <1>1, <1>2, <1>4, <1>8 DEF R, h

----------------------------------------------------------------------------
(* The queues a process waits in, and what its state says of it.           *)

EnNew    == <<"NEW", Nada>>
EnReady  == <<"READY", Nada>>
EnIO(i)  == <<"IO", i>>
EnRec(r) == <<"REC", r>>

Esperas == {EnNew, EnReady} \cup {EnIO(i) : i \in Interfaces} \cup {EnRec(r) : r \in Recursos}

\* The queues but cola_exec and cola_exit, as a family.
ColasDe(new, ready, io, rec) ==
    [s \in Esperas |-> CASE s[1] = "NEW"   -> new
                         [] s[1] = "READY" -> ready
                         [] s[1] = "IO"    -> io[s[2]]
                         [] s[1] = "REC"   -> rec[s[2]]]

\* In a family Q of queues with states est and n - 1 processes created, where those
\* of M run or are attended to, and those of H are about to be marked BLOCK - IO.
Ubica(Q, est, n, M, H) ==
    /\ Unico(Q)
    /\ \A s \in Esperas : \A p : Esta(Q[s], p) =>
          /\ p < n /\ est[p].tipo \notin {"EXIT", "NADA"}
          /\ est[p].tipo = "NEW" <=> s = EnNew
    /\ \A p \in M : ~Aparece(Q, p) /\ p < n /\ est[p].tipo \notin {"NEW", "NADA"}
    /\ \A p \in H : p < n /\ est[p].tipo \notin {"NEW", "EXIT", "NADA"}
    /\ \A p \in Pids : p < n => Aparece(Q, p) \/ est[p].tipo = "EXIT" \/ p \in M
    /\ \A p \in Pids : p >= n => est[p].tipo = "NADA"

Familias == [Esperas -> Seq(Pids)]

\* INICIAR_PROCESO: a process more, in cola_new.
LEMMA UbicaCrea ==
  ASSUME NEW Q \in Familias, NEW est \in [Pids -> Estados], NEW n \in Pids,
         NEW M \in SUBSET Pids, NEW H \in SUBSET Pids, Ubica(Q, est, n, M, H)
  PROVE  Ubica(Pone(Q, EnNew, n), [est EXCEPT ![n] = Estado("NEW", Nada)], n + 1, M, H)
<1> DEFINE R == Pone(Q, EnNew, n)
           e == [est EXCEPT ![n] = Estado("NEW", Nada)]
<1>1. EnNew \in Esperas /\ n \in Int
  BY MaxPidAssumption DEF Esperas, Pids
<1>2. ~Aparece(Q, n)
  <2>1. \A s \in Esperas : ~Esta(Q[s], n)
    BY <1>1 DEF Ubica
  <2> QED BY <2>1 DEF Aparece, Familias
<1>3. /\ Unico(R) /\ R \in Familias
      /\ \A t \in Esperas : \A p : Esta(R[t], p) <=> Esta(Q[t], p) \/ (t = EnNew /\ p = n)
  BY <1>1, <1>2, PoneUnico DEF Ubica, Familias
<1>4. /\ e[n].tipo = "NEW" /\ \A p \in Pids : p # n => e[p] = est[p]
  BY DEF Estado
<1>5. \A p : Aparece(R, p) <=> Aparece(Q, p) \/ p = n
  BY <1>1, <1>3 DEF Aparece, Familias
<1>6. \A s \in Esperas : \A p : Esta(Q[s], p) => p \in Pids /\ p < n
  BY DEF Ubica, Esta, Familias
<1>7. \A p \in Pids : p < n + 1 <=> p < n \/ p = n
  BY DEF Pids
<1> HIDE DEF R, e
<1>8. \A s \in Esperas : \A p : Esta(R[s], p) =>
          /\ p < n + 1 /\ e[p].tipo \notin {"EXIT", "NADA"}
          /\ e[p].tipo = "NEW" <=> s = EnNew
  <2> SUFFICES ASSUME NEW s \in Esperas, NEW p, Esta(R[s], p)
               PROVE  /\ p < n + 1 /\ e[p].tipo \notin {"EXIT", "NADA"}
                      /\ e[p].tipo = "NEW" <=> s = EnNew
    OBVIOUS
  <2>1. CASE Esta(Q[s], p)
    <3>1. p \in Pids /\ p < n /\ p # n
      BY <1>1, <1>6, <2>1
    <3>2. e[p] = est[p] /\ p < n + 1
      BY <1>4, <1>7, <3>1
    <3> QED BY <2>1, <3>2 DEF Ubica
  <2>2. CASE s = EnNew /\ p = n
    BY <1>1, <1>4, <1>7, <2>2
  <2> QED BY <1>3, <2>1, <2>2
<1>9. \A p \in M : ~Aparece(R, p) /\ p < n + 1 /\ e[p].tipo \notin {"NEW", "NADA"}
  <2> SUFFICES ASSUME NEW p \in M
               PROVE  ~Aparece(R, p) /\ p < n + 1 /\ e[p].tipo \notin {"NEW", "NADA"}
    OBVIOUS
  <2>1. ~Aparece(Q, p) /\ p < n /\ est[p].tipo \notin {"NEW", "NADA"}
    BY DEF Ubica
  <2>2. p # n
    BY <1>1, <2>1
  <2> QED BY <1>4, <1>5, <1>7, <2>1, <2>2
<1>10. \A p \in H : p < n + 1 /\ e[p].tipo \notin {"NEW", "EXIT", "NADA"}
  <2> SUFFICES ASSUME NEW p \in H
               PROVE  p < n + 1 /\ e[p].tipo \notin {"NEW", "EXIT", "NADA"}
    OBVIOUS
  <2>1. p < n /\ est[p].tipo \notin {"NEW", "EXIT", "NADA"}
    BY DEF Ubica
  <2>2. p # n
    BY <1>1, <2>1
  <2> QED BY <1>4, <1>7, <2>1, <2>2
<1>11. \A p \in Pids : p < n + 1 => Aparece(R, p) \/ e[p].tipo = "EXIT" \/ p \in M
  BY <1>4, <1>5, <1>7 DEF Ubica
<1>12. \A p \in Pids : p >= n + 1 => e[p].tipo = "NADA"
  <2>1. \A p \in Pids : p >= n + 1 => p >= n /\ p # n
    BY DEF Pids
  <2> QED BY <1>4, <2>1 DEF Ubica
<1>13. Ubica(R, e, n + 1, M, H)
  BY <1>3, <1>8, <1>9, <1>10, <1>11, <1>12 DEF Ubica
<1> QED BY <1>13 DEF R, e

\* A process goes from the head of a queue to the end of cola_ready (iniciar).
LEMMA UbicaDespierta ==
  ASSUME NEW Q \in Familias, NEW est \in [Pids -> Estados], NEW n \in Int,
         NEW M \in SUBSET Pids, NEW H \in SUBSET Pids, Ubica(Q, est, n, M, H),
         NEW s \in Esperas \ {EnReady}, Q[s] # <<>>
  PROVE  /\ Head(Q[s]) \in Pids /\ Head(Q[s]) < n
         /\ est[Head(Q[s])].tipo \notin {"EXIT", "NADA"}
         /\ est[Head(Q[s])].tipo = "NEW" <=> s = EnNew
         /\ Head(Q[s]) \notin M
         /\ Ubica(Pone(Saca(Q, s), EnReady, Head(Q[s])),
                  [est EXCEPT ![Head(Q[s])] = Estado("READY", Nada)], n, M, H)
<1> DEFINE h == Head(Q[s])
           P == Saca(Q, s)
           R == Pone(P, EnReady, h)
           e == [est EXCEPT ![h] = Estado("READY", Nada)]
<1>1. EnReady \in Esperas /\ EnReady # EnNew
  BY DEF Esperas, EnReady, EnNew
<1>2. /\ P \in Familias /\ Unico(P) /\ h \in Pids /\ Esta(Q[s], h) /\ ~Aparece(P, h)
      /\ \A t \in Esperas : \A p : Esta(P[t], p) <=> Esta(Q[t], p) /\ p # h
  BY SacaUnico DEF Ubica, Familias
<1> HIDE DEF P, h
<1>3. /\ R \in Familias /\ Unico(R)
      /\ \A t \in Esperas : \A p : Esta(R[t], p) <=> Esta(P[t], p) \/ (t = EnReady /\ p = h)
  BY <1>1, <1>2, PoneUnico DEF Familias
<1>4. /\ h < n /\ est[h].tipo \notin {"EXIT", "NADA"} /\ h \notin M
      /\ est[h].tipo = "NEW" <=> s = EnNew
  <2>1. Aparece(Q, h)
    BY <1>2 DEF Aparece, Familias
  <2> QED BY <1>2, <2>1 DEF Ubica
<1>5. e[h].tipo = "READY" /\ \A p \in Pids : p # h => e[p] = est[p]
  BY <1>2 DEF Estado
<1> HIDE DEF R, e
<1>6. \A p : Aparece(R, p) <=> Aparece(Q, p)
  <2>1. \A p : Aparece(R, p) => Aparece(Q, p)
    BY <1>2, <1>3 DEF Aparece, Familias
  <2>2. \A p : Aparece(Q, p) => Aparece(R, p)
    BY <1>1, <1>2, <1>3 DEF Aparece, Familias
  <2> QED BY <2>1, <2>2
<1>7. \A t \in Esperas : \A p : Esta(R[t], p) =>
          /\ p < n /\ e[p].tipo \notin {"EXIT", "NADA"}
          /\ e[p].tipo = "NEW" <=> t = EnNew
  <2> SUFFICES ASSUME NEW t \in Esperas, NEW p, Esta(R[t], p)
               PROVE  /\ p < n /\ e[p].tipo \notin {"EXIT", "NADA"}
                      /\ e[p].tipo = "NEW" <=> t = EnNew
    OBVIOUS
  <2>1. CASE Esta(Q[t], p) /\ p # h
    <3>1. p \in Pids
      BY <2>1 DEF Esta, Familias
    <3> QED BY <1>5, <2>1, <3>1 DEF Ubica
  <2>2. CASE t = EnReady /\ p = h
    BY <1>1, <1>4, <1>5, <2>2
  <2> QED BY <1>2, <1>3, <2>1, <2>2
<1>8. \A p \in M : ~Aparece(R, p) /\ p < n /\ e[p].tipo \notin {"NEW", "NADA"}
  BY <1>4, <1>5, <1>6 DEF Ubica
<1>9. \A p \in H : p < n /\ e[p].tipo \notin {"NEW", "EXIT", "NADA"}
  BY <1>5 DEF Ubica
<1>10. \A p \in Pids : p < n => Aparece(R, p) \/ e[p].tipo = "EXIT" \/ p \in M
  <2>1. Aparece(R, h)
    BY <1>1, <1>3 DEF Aparece, Familias
  <2> QED BY <1>5, <1>6, <2>1 DEF Ubica
<1>11. \A p \in Pids : p >= n => e[p].tipo = "NADA"
  BY <1>2, <1>4, <1>5 DEF Ubica, Pids
<1>12. Ubica(R, e, n, M, H)
  BY <1>3, <1>7, <1>8, <1>9, <1>10, <1>11 DEF Ubica
<1> QED BY <1>2, <1>4, <1>12 DEF R, e, P, h

\* The head of cola_ready is given the CPU, when no one has it (replanificar).
LEMMA UbicaElige ==
  ASSUME NEW Q \in Familias, NEW est \in [Pids -> Estados], NEW n \in Int,
         Ubica(Q, est, n, {}, {}), Q[EnReady] # <<>>
  PROVE  /\ Head(Q[EnReady]) \in Pids /\ est[Head(Q[EnReady])].tipo \notin {"NEW", "EXIT", "NADA"}
         /\ Ubica(Saca(Q, EnReady),
                  [est EXCEPT ![Head(Q[EnReady])] = Estado("EXEC", Nada)], n,
                  {Head(Q[EnReady])}, {})
<1> DEFINE h == Head(Q[EnReady])
           P == Saca(Q, EnReady)
           e == [est EXCEPT ![h] = Estado("EXEC", Nada)]
<1>1. EnReady \in Esperas /\ EnReady # EnNew
  BY DEF Esperas, EnReady, EnNew
<1>2. /\ P \in Familias /\ Unico(P) /\ h \in Pids /\ Esta(Q[EnReady], h) /\ ~Aparece(P, h)
      /\ \A t \in Esperas : \A p : Esta(P[t], p) <=> Esta(Q[t], p) /\ p # h
  BY <1>1, SacaUnico DEF Ubica, Familias
<1> HIDE DEF P, h
<1>3. h < n /\ est[h].tipo \notin {"NEW", "EXIT", "NADA"}
  BY <1>1, <1>2 DEF Ubica
<1>4. e[h].tipo = "EXEC" /\ \A p \in Pids : p # h => e[p] = est[p]
  BY <1>2 DEF Estado
<1> HIDE DEF e
<1>5. \A p : Aparece(P, p) <=> Aparece(Q, p) /\ p # h
  BY <1>2 DEF Aparece, Familias
<1>6. \A t \in Esperas : \A p : Esta(P[t], p) =>
          /\ p < n /\ e[p].tipo \notin {"EXIT", "NADA"}
          /\ e[p].tipo = "NEW" <=> t = EnNew
  <2> SUFFICES ASSUME NEW t \in Esperas, NEW p, Esta(P[t], p)
               PROVE  /\ p < n /\ e[p].tipo \notin {"EXIT", "NADA"}
                      /\ e[p].tipo = "NEW" <=> t = EnNew
    OBVIOUS
  <2>1. Esta(Q[t], p) /\ p # h
    BY <1>2
  <2>2. p \in Pids
    BY <2>1 DEF Esta, Familias
  <2> QED BY <1>4, <2>1, <2>2 DEF Ubica
<1>7. ~Aparece(P, h) /\ h < n /\ e[h].tipo \notin {"NEW", "NADA"}
  BY <1>2, <1>3, <1>4
<1>8. \A p \in Pids : p < n => Aparece(P, p) \/ e[p].tipo = "EXIT" \/ p \in {h}
  BY <1>4, <1>5 DEF Ubica
<1>9. \A p \in Pids : p >= n => e[p].tipo = "NADA"
  BY <1>2, <1>3, <1>4 DEF Ubica, Pids
<1>10. Ubica(P, e, n, {h}, {})
  BY <1>2, <1>6, <1>7, <1>8, <1>9 DEF Ubica
<1> QED BY <1>2, <1>3, <1>10 DEF P, e, h

\* The process that escucha attends to enters a queue, of an interface or of a
\* resource; it may still have to be marked.
LEMMA UbicaBloquea ==
  ASSUME NEW Q \in Familias, NEW est \in [Pids -> Estados], NEW n \in Int,
         NEW M \in SUBSET Pids, NEW H \in SUBSET Pids, Ubica(Q, est, n, M, H),
         NEW s \in Esperas \ {EnNew}, NEW x \in M, NEW K \in SUBSET {x},
         NEW v \in Estados, v.tipo \notin {"NEW", "EXIT", "NADA"}
  PROVE  Ubica(Pone(Q, s, x), [est EXCEPT ![x] = v], n, M \ {x}, K)
<1> DEFINE R == Pone(Q, s, x)
           e == [est EXCEPT ![x] = v]
<1>1. x \in Pids /\ ~Aparece(Q, x) /\ x < n
  BY DEF Ubica
<1>2. /\ R \in Familias /\ Unico(R)
      /\ \A t \in Esperas : \A p : Esta(R[t], p) <=> Esta(Q[t], p) \/ (t = s /\ p = x)
  BY <1>1, PoneUnico DEF Ubica, Familias
<1>3. e[x] = v /\ \A p \in Pids : p # x => e[p] = est[p]
  BY <1>1
<1> HIDE DEF R, e
<1>4. \A p : Aparece(R, p) <=> Aparece(Q, p) \/ p = x
  BY <1>2 DEF Aparece, Familias
<1>5. \A t \in Esperas : \A p : Esta(R[t], p) =>
          /\ p < n /\ e[p].tipo \notin {"EXIT", "NADA"}
          /\ e[p].tipo = "NEW" <=> t = EnNew
  <2> SUFFICES ASSUME NEW t \in Esperas, NEW p, Esta(R[t], p)
               PROVE  /\ p < n /\ e[p].tipo \notin {"EXIT", "NADA"}
                      /\ e[p].tipo = "NEW" <=> t = EnNew
    OBVIOUS
  <2>1. CASE Esta(Q[t], p)
    <3>1. p \in Pids /\ p # x
      BY <1>1, <2>1 DEF Esta, Aparece, Familias
    <3> QED BY <1>3, <2>1, <3>1 DEF Ubica
  <2>2. CASE t = s /\ p = x
    BY <1>1, <1>3, <2>2
  <2> QED BY <1>2, <2>1, <2>2
<1>6. \A p \in M \ {x} : ~Aparece(R, p) /\ p < n /\ e[p].tipo \notin {"NEW", "NADA"}
  BY <1>3, <1>4 DEF Ubica
<1>7. \A p \in K : p < n /\ e[p].tipo \notin {"NEW", "EXIT", "NADA"}
  BY <1>1, <1>3
<1>8. \A p \in Pids : p < n => Aparece(R, p) \/ e[p].tipo = "EXIT" \/ p \in M \ {x}
  BY <1>3, <1>4 DEF Ubica
<1>9. \A p \in Pids : p >= n => e[p].tipo = "NADA"
  BY <1>1, <1>3 DEF Ubica, Pids
<1>10. Ubica(R, e, n, M \ {x}, K)
  BY <1>2, <1>5, <1>6, <1>7, <1>8, <1>9 DEF Ubica
<1> QED BY <1>10 DEF R, e

\* The process that escucha attends to ends (exit_prima); escucha may have another
\* packet of it.
LEMMA UbicaSale ==
  ASSUME NEW Q \in Familias, NEW est \in [Pids -> Estados], NEW n \in Int,
         NEW M \in SUBSET Pids, NEW H \in SUBSET Pids, Ubica(Q, est, n, M, H),
         NEW x \in M, NEW N \in SUBSET M, M \ {x} \subseteq N
  PROVE  Ubica(Q, [est EXCEPT ![x] = Estado("EXIT", Nada)], n, N, {})
<1> DEFINE e == [est EXCEPT ![x] = Estado("EXIT", Nada)]
<1>1. x \in Pids /\ ~Aparece(Q, x) /\ x < n
  BY DEF Ubica
<1>2. e[x].tipo = "EXIT" /\ \A p \in Pids : p # x => e[p] = est[p]
  BY <1>1 DEF Estado
<1> HIDE DEF e
<1>3. \A t \in Esperas : \A p : Esta(Q[t], p) =>
          /\ p < n /\ e[p].tipo \notin {"EXIT", "NADA"}
          /\ e[p].tipo = "NEW" <=> t = EnNew
  <2> SUFFICES ASSUME NEW t \in Esperas, NEW p, Esta(Q[t], p)
               PROVE  /\ p < n /\ e[p].tipo \notin {"EXIT", "NADA"}
                      /\ e[p].tipo = "NEW" <=> t = EnNew
    OBVIOUS
  <2>1. p \in Pids /\ p # x
    BY <1>1 DEF Esta, Aparece, Familias
  <2> QED BY <1>2, <2>1 DEF Ubica
<1>4. \A p \in N : ~Aparece(Q, p) /\ p < n /\ e[p].tipo \notin {"NEW", "NADA"}
  BY <1>2 DEF Ubica
<1>5. \A p \in Pids : p < n => Aparece(Q, p) \/ e[p].tipo = "EXIT" \/ p \in N
  BY <1>2 DEF Ubica
<1>6. \A p \in Pids : p >= n => e[p].tipo = "NADA"
  BY <1>1, <1>2 DEF Ubica, Pids
<1>7. Ubica(Q, e, n, N, {})
  BY <1>3, <1>4, <1>5, <1>6 DEF Ubica
<1> QED BY <1>7 DEF e

\* The process whose request was sent is marked, wherever it is by then.
LEMMA UbicaMarca ==
  ASSUME NEW Q \in Familias, NEW est \in [Pids -> Estados], NEW n \in Int,
         NEW M \in SUBSET Pids, NEW H \in SUBSET Pids, Ubica(Q, est, n, M, H),
         NEW x \in H, NEW v \in Estados, v.tipo \notin {"NEW", "EXIT", "NADA"}
  PROVE  Ubica(Q, [est EXCEPT ![x] = v], n, M, {})
<1> DEFINE e == [est EXCEPT ![x] = v]
<1>1. x \in Pids /\ x < n /\ est[x].tipo \notin {"NEW", "EXIT", "NADA"}
  BY DEF Ubica
<1>2. e[x] = v /\ \A p \in Pids : p # x => e[p] = est[p]
  BY <1>1
<1> HIDE DEF e
<1>3. \A t \in Esperas : \A p : Esta(Q[t], p) =>
          /\ p < n /\ e[p].tipo \notin {"EXIT", "NADA"}
          /\ e[p].tipo = "NEW" <=> t = EnNew
  <2> SUFFICES ASSUME NEW t \in Esperas, NEW p, Esta(Q[t], p)
               PROVE  /\ p < n /\ e[p].tipo \notin {"EXIT", "NADA"}
                      /\ e[p].tipo = "NEW" <=> t = EnNew
    OBVIOUS
  <2>1. p \in Pids
    BY DEF Esta, Familias
  <2> QED BY <1>1, <1>2, <2>1 DEF Ubica
<1>4. \A p \in M : ~Aparece(Q, p) /\ p < n /\ e[p].tipo \notin {"NEW", "NADA"}
  BY <1>2 DEF Ubica
<1>5. \A p \in Pids : p < n => Aparece(Q, p) \/ e[p].tipo = "EXIT" \/ p \in M
  BY <1>1, <1>2 DEF Ubica
<1>6. \A p \in Pids : p >= n => e[p].tipo = "NADA"
  BY <1>1, <1>2 DEF Ubica, Pids
<1>7. Ubica(Q, e, n, M, {})
  BY <1>3, <1>4, <1>5, <1>6 DEF Ubica
<1> QED BY <1>7 DEF e

----------------------------------------------------------------------------
(* The processes of the system.                                            *)

Colas == ColasDe(colaNew, colaReady, colaIO, colaRec)

\* The process in cola_exec is in no other queue: it was chosen, it runs, or escucha
\* has something of it to attend to.  Afterwards its pcb stays in cola_exec until the
\* next one is chosen.
Ocupa ==
    /\ ~Eligiendo("escucha")
    /\ \/ semEjecutar = 1
       \/ ~desaloja
       \/ Len(chCpu) > 1
       \/ pc["escucha"] \in {"libera", "liberaEvalua"}

Marchan == IF Ocupa THEN {p \in Pids : colaExec = <<p>>} ELSE {}

\* The process whose request escucha sends, already in the queue of the interface.
PorMarcar ==
    IF pc["escucha"] \in {"esperaPlani", "marcaBlock"} THEN {pidDe["escucha"]} ELSE {}

\* What one instruction sends: FIN_INSTRUCCION, one packet before it, or two when the
\* address of an I/O is denied.  The second one finds its process finished.
Mensajes ==
    /\ Len(chCpu) <= 3
    /\ Len(chCpu) = 3 =>
          /\ ~desaloja /\ pc["escucha"] = "recibe" /\ Denegado(cpuPid)
          /\ chCpu[1].motivo = "ERROR" /\ chCpu[2].motivo = "IO"
    /\ Len(chCpu) = 2 =>
          /\ pc["escucha"] \in {"recibe", "libera", "liberaEvalua"}
          /\ desaloja => chCpu[1].motivo = "IO" /\ Denegado(cpuPid)
    /\ pc["escucha"] \in {"waitEvalua", "signalEvalua"} => ~desaloja

\* The process chosen is in EXEC until something takes the CPU from it.
EnExec ==
    \A p \in Pids :
        /\ colaExec = <<p>> /\ ~Eligiendo("escucha")
        /\ semEjecutar = 1 \/ ~desaloja
        => estado[p].tipo = "EXEC"

Ubicados ==
    /\ Ubica(Colas, estado, contador, Marchan, PorMarcar)
    /\ EnExec
    /\ esPrimer => colaExec = <<>>

InvLugares ==
    InvDespacho /\ InvColas /\ Mensajes /\ Ubicados /\ EsperaAnotada /\ ExitSinRecursos

\* What ExitFinal says of one step.
ExitPaso ==
    \A p \in Pids : estado[p].tipo = "EXIT" /\ ~Denegado(p) => estado'[p].tipo = "EXIT"

\* What a step has to preserve besides queues, semaphores and turns.
LugarSig == Mensajes' /\ Ubicados' /\ EsperaAnotada' /\ ExitSinRecursos' /\ ExitPaso

\* A queue of the family, and what replacing one does to it.
LEMMA ColasValores ==
  ASSUME NEW new, NEW ready, NEW io, NEW rec
  PROVE  LET Q == ColasDe(new, ready, io, rec) IN
         /\ Q[EnNew] = new /\ Q[EnReady] = ready
         /\ \A i \in Interfaces : EnIO(i) \in Esperas \ {EnNew, EnReady} /\ Q[EnIO(i)] = io[i]
         /\ \A r \in Recursos : EnRec(r) \in Esperas \ {EnNew, EnReady} /\ Q[EnRec(r)] = rec[r]
         /\ EnNew \in Esperas \ {EnReady} /\ EnReady \in Esperas \ {EnNew}
<1> USE DEF EnNew, EnReady, EnIO, EnRec
<1>1. EnNew \in Esperas \ {EnReady} /\ EnReady \in Esperas \ {EnNew}
  BY DEF Esperas
<1>2. \A i \in Interfaces : EnIO(i) \in Esperas \ {EnNew, EnReady}
  BY DEF Esperas
<1>3. \A r \in Recursos : EnRec(r) \in Esperas \ {EnNew, EnReady}
  BY DEF Esperas
<1>4. /\ EnNew[1] = "NEW" /\ EnReady[1] = "READY"
      /\ \A i : EnIO(i)[1] = "IO" /\ EnIO(i)[2] = i
      /\ \A r : EnRec(r)[1] = "REC" /\ EnRec(r)[2] = r
  OBVIOUS
<1> DEFINE Q == ColasDe(new, ready, io, rec)
<1>5. \A s \in Esperas : /\ s[1] = "NEW" => Q[s] = new
                         /\ s[1] = "READY" => Q[s] = ready
                         /\ s[1] = "IO" => Q[s] = io[s[2]]
                         /\ s[1] = "REC" => Q[s] = rec[s[2]]
  BY DEF ColasDe
<1> HIDE DEF Q, EnNew, EnReady, EnIO, EnRec
<1>6. Q[EnNew] = new /\ Q[EnReady] = ready
  BY <1>1, <1>4, <1>5
<1>7. \A i \in Interfaces : Q[EnIO(i)] = io[i]
  BY <1>2, <1>4, <1>5
<1>8. \A r \in Recursos : Q[EnRec(r)] = rec[r]
  BY <1>3, <1>4, <1>5
<1> QED BY <1>1, <1>2, <1>3, <1>6, <1>7, <1>8 DEF Q

\* ... which is a family of queues of processes.
LEMMA ColasTipo ==
  ASSUME NEW new \in Seq(Pids), NEW ready \in Seq(Pids),
         NEW io \in [Interfaces -> Seq(Pids)], NEW rec \in [Recursos -> Seq(Pids)]
  PROVE  ColasDe(new, ready, io, rec) \in Familias
<1>1. \A s \in Esperas : \/ s[1] = "NEW" \/ s[1] = "READY"
                         \/ s[1] = "IO" /\ s[2] \in Interfaces
                         \/ s[1] = "REC" /\ s[2] \in Recursos
  BY DEF Esperas, EnNew, EnReady, EnIO, EnRec
<1> QED BY <1>1 DEF ColasDe, Familias

\* A queue of it that a step leaves as it was.
LEMMA ColasIguales ==
  ASSUME NEW t \in Esperas,
         t = EnNew => colaNew' = colaNew,
         t = EnReady => colaReady' = colaReady,
         \A i \in Interfaces : t = EnIO(i) => colaIO'[i] = colaIO[i],
         \A r \in Recursos : t = EnRec(r) => colaRec'[r] = colaRec[r]
  PROVE  Colas'[t] = Colas[t]
<1>1. \/ t = EnNew \/ t = EnReady
      \/ \E i \in Interfaces : t = EnIO(i)
      \/ \E r \in Recursos : t = EnRec(r)
  BY DEF Esperas
<1>2. /\ Colas[EnNew] = colaNew /\ Colas[EnReady] = colaReady
      /\ \A i \in Interfaces : Colas[EnIO(i)] = colaIO[i]
      /\ \A r \in Recursos : Colas[EnRec(r)] = colaRec[r]
  BY ColasValores DEF Colas
<1>3. /\ Colas'[EnNew] = colaNew' /\ Colas'[EnReady] = colaReady'
      /\ \A i \in Interfaces : Colas'[EnIO(i)] = colaIO'[i]
      /\ \A r \in Recursos : Colas'[EnRec(r)] = colaRec'[r]
  BY ColasValores DEF Colas
<1>4. CASE t = EnNew \/ t = EnReady
  BY <1>2, <1>3, <1>4
<1>5. ASSUME NEW i \in Interfaces, t = EnIO(i) PROVE Colas'[t] = Colas[t]
  BY <1>2, <1>3, <1>5
<1>6. ASSUME NEW r \in Recursos, t = EnRec(r) PROVE Colas'[t] = Colas[t]
  BY <1>2, <1>3, <1>6
<1> QED BY <1>1, <1>4, <1>5, <1>6

\* The queues of the kernel, by name.
LEMMA ColasNombres ==
  /\ Colas[EnNew] = colaNew /\ Colas[EnReady] = colaReady
  /\ \A i \in Interfaces : Colas[EnIO(i)] = colaIO[i] /\ Colas'[EnIO(i)] = colaIO'[i]
  /\ \A r \in Recursos : Colas[EnRec(r)] = colaRec[r] /\ Colas'[EnRec(r)] = colaRec'[r]
  /\ Colas'[EnNew] = colaNew' /\ Colas'[EnReady] = colaReady'
  /\ EnNew \in Esperas \ {EnReady} /\ EnReady \in Esperas \ {EnNew}
  /\ \A i \in Interfaces : EnIO(i) \in Esperas \ {EnNew, EnReady}
  /\ \A r \in Recursos : EnRec(r) \in Esperas \ {EnNew, EnReady}
BY ColasValores DEF Colas

\* Which is which.
LEMMA ColasDistintas ==
  /\ EnNew # EnReady
  /\ \A i, j : EnIO(i) = EnIO(j) => i = j
  /\ \A r, s : EnRec(r) = EnRec(s) => r = s
  /\ \A i, r : EnIO(i) # EnRec(r)
  /\ \A i : EnIO(i) # EnNew /\ EnIO(i) # EnReady
  /\ \A r : EnRec(r) # EnNew /\ EnRec(r) # EnReady
BY DEF EnNew, EnReady, EnIO, EnRec

\* Which family that is, when s was pushed to or popped.
LEMMA FamiliaIgual ==
  ASSUME NEW Q \in Familias, NEW R \in Familias, NEW s \in Esperas,
         \A t \in Esperas : t # s => R[t] = Q[t]
  PROVE  /\ \A x \in Pids : R[s] = Append(Q[s], x) => R = Pone(Q, s, x)
         /\ Q[s] # <<>> /\ R[s] = Tail(Q[s]) => R = Saca(Q, s)
<1>1. ASSUME NEW x \in Pids, R[s] = Append(Q[s], x)
      PROVE  R = Pone(Q, s, x)
  <2>1. Append(Q[s], x) \in Seq(Pids)
    BY AppendProperties DEF Familias
  <2>2. Pone(Q, s, x) \in Familias
    BY <2>1 DEF Pone, Familias
  <2>3. \A t \in Esperas : R[t] = Pone(Q, s, x)[t]
    BY <1>1 DEF Pone, Familias
  <2> QED BY <2>2, <2>3 DEF Familias
<1>2. ASSUME Q[s] # <<>>, R[s] = Tail(Q[s])
      PROVE  R = Saca(Q, s)
  <2>1. Tail(Q[s]) \in Seq(Pids)
    BY <1>2, HeadTailProperties DEF Familias
  <2>2. Saca(Q, s) \in Familias
    BY <2>1 DEF Saca, Familias
  <2>3. \A t \in Esperas : R[t] = Saca(Q, s)[t]
    BY <1>2 DEF Saca, Familias
  <2> QED BY <2>2, <2>3 DEF Familias
<1> QED BY <1>1, <1>2

\* Types.
LEMMA TiposLugares ==
  ASSUME InvLugares
  PROVE  /\ Colas \in Familias /\ estado \in [Pids -> Estados]
         /\ contador \in Int /\ contador >= 1 /\ contador <= MaxPid + 1
         /\ Marchan \in SUBSET Pids /\ PorMarcar \in SUBSET Pids
         /\ colaNew \in Seq(Pids) /\ colaReady \in Seq(Pids)
         /\ colaIO \in [Interfaces -> Seq(Pids)] /\ colaRec \in [Recursos -> Seq(Pids)]
         /\ pc \in [Hilos -> Puntos] /\ pidDe \in [Hilos -> Pids \cup {0}]
         /\ retenidos \subseteq Retencion /\ desaloja \in BOOLEAN
         /\ pc["escucha"] \in ConPid => pidDe["escucha"] \in Pids
         /\ pc["escucha"] \in ConRecurso => argDe["escucha"] \in Recursos
         /\ pc["escucha"] \in ConInterfaz => argDe["escucha"] \in Interfaces
<1>1. KernelTypeOK
  BY DEF InvLugares, InvDespacho, InvSemaforos, TypeOK
<1>2. /\ estado \in [Pids -> Estados] /\ contador \in 1..(MaxPid + 1)
      /\ colaNew \in Seq(Pids) /\ colaReady \in Seq(Pids)
      /\ colaIO \in [Interfaces -> Seq(Pids)] /\ colaRec \in [Recursos -> Seq(Pids)]
      /\ pc \in [Hilos -> Puntos] /\ pidDe \in [Hilos -> Pids \cup {0}]
      /\ retenidos \subseteq Retencion /\ desaloja \in BOOLEAN
  BY <1>1 DEF KernelTypeOK, HilosOK, ColasOK, ProcesosOK, RecursosOK, BanderasOK
<1>3. "escucha" \in Hilos /\ LocalesOK
  BY <1>1 DEF KernelTypeOK, HilosOK, Hilos
<1>4. contador \in Int /\ contador >= 1 /\ contador <= MaxPid + 1
  BY <1>2, MaxPidAssumption
<1>5. Marchan \in SUBSET Pids
  BY DEF Marchan
<1>6. PorMarcar \in SUBSET Pids
  BY <1>3 DEF PorMarcar, LocalesOK, ConPid, ConInterfaz
<1>7. Colas \in Familias
  BY <1>2, ColasTipo DEF Colas
<1> QED BY <1>2, <1>3, <1>4, <1>5, <1>6, <1>7 DEF LocalesOK
----------------------------------------------------------------------------
(* Steps that move no process.                                             *)

sitioVars == <<colaNew, colaReady, colaExec, colaIO, colaRec, estado, contador, esPrimer>>

lugarVars == <<sitioVars, retenidos>>

LEMMA QuietoUbica ==
  ASSUME InvLugares, UNCHANGED sitioVars, retenidos' \subseteq retenidos,
         Marchan' = Marchan, PorMarcar' \subseteq PorMarcar, EnExec'
  PROVE  Ubicados' /\ ExitSinRecursos' /\ ExitPaso
<1> USE DEF InvLugares, sitioVars
<1>1. Colas' = Colas
  BY DEF Colas
<1>2. Ubica(Colas, estado, contador, Marchan, PorMarcar)'
  <2>1. Ubica(Colas', estado', contador', Marchan', PorMarcar')
    BY <1>1 DEF Ubicados, Ubica
  <2> QED BY <2>1 DEF Ubica
<1>3. Ubicados'
  BY <1>2 DEF Ubicados
<1>4. ExitSinRecursos'
  <2>1. \A p \in Pids : DeProceso(p)' \subseteq DeProceso(p)
    BY DEF DeProceso
  <2> QED BY <2>1 DEF ExitSinRecursos, Procesos
<1>5. ExitPaso
  BY DEF ExitPaso
<1> QED BY <1>3, <1>4, <1>5

LEMMA QuietoLugar ==
  ASSUME InvLugares, UNCHANGED lugarVars, Marchan' = Marchan, PorMarcar' = PorMarcar,
         EnExec', Mensajes'
  PROVE  LugarSig
<1>1. Ubicados' /\ ExitSinRecursos' /\ ExitPaso
  BY QuietoUbica DEF lugarVars
<1>2. EsperaAnotada'
  BY DEF InvLugares, EsperaAnotada, DePar, lugarVars, sitioVars
<1> QED BY <1>1, <1>2 DEF LugarSig

\* The packets stay as they were, while escucha goes on with the one it attends to.
LEMMA QuietoMensajes ==
  ASSUME InvLugares, UNCHANGED <<chCpu, desaloja>>,
         Len(chCpu) > 1 /\ Denegado(cpuPid) => Denegado(cpuPid)',
         \/ pc'["escucha"] = pc["escucha"]
         \/ /\ pc["escucha"] # "recibe"
            /\ pc'["escucha"] \notin {"waitEvalua", "signalEvalua"}
            /\ Len(chCpu) = 2 => pc'["escucha"] \in {"recibe", "libera", "liberaEvalua"}
  PROVE  Mensajes'
<1>1. Len(chCpu) \in Nat
  BY TiposDespacho, LenProperties DEF InvLugares
<1> QED BY <1>1 DEF InvLugares, Mensajes

\* escucha stays where it was and the rest of the protocol too.
LEMMA QuietoTodo ==
  ASSUME InvLugares, UNCHANGED lugarVars,
         UNCHANGED <<chCpu, desaloja, semEjecutar, script, ejecutadas>>,
         Len(chCpu) > 1 => cpuPid' = cpuPid,
         pc'["escucha"] = pc["escucha"], pidDe'["escucha"] = pidDe["escucha"]
  PROVE  LugarSig
<1>1. Mensajes'
  BY QuietoMensajes DEF Denegado
<1>2. Marchan' = Marchan /\ PorMarcar' = PorMarcar
  BY DEF Marchan, Ocupa, PorMarcar, Eligiendo, lugarVars, sitioVars
<1>3. EnExec'
  BY DEF InvLugares, Ubicados, EnExec, Eligiendo, lugarVars, sitioVars
<1> QED BY <1>1, <1>2, <1>3, QuietoLugar

\* The fall of the kernel.
LEMMA CaeLugar ==
  ASSUME InvLugares, Cae, UNCHANGED cpuVars
  PROVE  LugarSig
<1>1. /\ UNCHANGED lugarVars
      /\ UNCHANGED <<chCpu, desaloja, semEjecutar, script, ejecutadas>>
      /\ cpuPid' = cpuPid
      /\ pc'["escucha"] = pc["escucha"] /\ pidDe'["escucha"] = pidDe["escucha"]
  BY DEF Cae, lugarVars, sitioVars, hilosVars, colasVars, recVars, planVars, admVars, procVars,
         canales, cpuVars
<1> QED BY <1>1, QuietoTodo

\* The steps of the CPU but the one that executes, and those of the interfaces.
LEMMA RestoLugar ==
  ASSUME InvLugares,
         \/ (CpuNext /\ ~CpuInstruccion /\ UNCHANGED kernelVars)
         \/ (\E i \in Interfaces : Interfaz(i))
         \/ UNCHANGED vars
  PROVE  LugarSig
<1>1. UNCHANGED kernelVars /\ UNCHANGED <<chCpu, script, ejecutadas>>
  BY DEF CpuNext, CpuRecibePcb, CpuContinua, CpuNoContinua, CpuRecibeInterrupcion,
         CpuAtiendeInterrupcion, Interfaz, AtiendeInterfaz, canales, vars, cpuVars
<1>2. Len(chCpu) > 1 => cpuPid' = cpuPid
  <2> SUFFICES ASSUME Len(chCpu) > 1 PROVE cpuPid' = cpuPid
    OBVIOUS
  <2>1. chCpu # <<>>
    BY EmptySeq
  <2>2. cpuFase = "responde"
    BY <2>1, DeQuienEsElTurno DEF InvLugares, Respondiendo
  <2> QED BY <2>2 DEF CpuNext, CpuRecibePcb, CpuContinua, CpuNoContinua,
        CpuRecibeInterrupcion, CpuAtiendeInterrupcion, Interfaz, vars, cpuVars
<1>3. /\ UNCHANGED lugarVars /\ UNCHANGED <<desaloja, semEjecutar>>
      /\ pc'["escucha"] = pc["escucha"] /\ pidDe'["escucha"] = pidDe["escucha"]
  BY <1>1 DEF kernelVars, lugarVars, sitioVars, hilosVars, colasVars, recVars, planVars, admVars,
              procVars
<1> QED BY <1>1, <1>2, <1>3, QuietoTodo

----------------------------------------------------------------------------
(* Steps that move processes.                                              *)

LEMMA FamiliaSiguiente ==
  ASSUME TypeOK'
  PROVE  Colas' \in Familias
<1>1. /\ colaNew' \in Seq(Pids) /\ colaReady' \in Seq(Pids)
      /\ colaIO' \in [Interfaces -> Seq(Pids)] /\ colaRec' \in [Recursos -> Seq(Pids)]
  BY DEF TypeOK, KernelTypeOK, ColasOK
<1> QED BY <1>1, ColasTipo DEF Colas

\* The head of a queue goes to the end of cola_ready.
LEMMA DespiertaLugar ==
  ASSUME InvLugares, TypeOK', NEW s \in Esperas \ {EnReady}, Colas[s] # <<>>,
         Colas'[s] = Tail(Colas[s]), Iniciar(Head(Colas[s])),
         \A t \in Esperas \ {s, EnReady} : Colas'[t] = Colas[t],
         UNCHANGED <<colaExec, contador, esPrimer, semEjecutar, desaloja>>,
         retenidos' \subseteq retenidos,
         Marchan' = Marchan, PorMarcar' = PorMarcar,
         Eligiendo("escucha")' = Eligiendo("escucha")
  PROVE  /\ Ubicados' /\ ExitSinRecursos' /\ ExitPaso
         /\ Head(Colas[s]) \in Pids /\ Head(Colas[s]) \notin Marchan
<1> DEFINE h == Head(Colas[s])
           P == Saca(Colas, s)
<1>1. /\ Colas \in Familias /\ estado \in [Pids -> Estados] /\ contador \in Int
      /\ Marchan \in SUBSET Pids /\ PorMarcar \in SUBSET Pids
      /\ Ubica(Colas, estado, contador, Marchan, PorMarcar)
  BY TiposLugares DEF InvLugares, Ubicados
<1>2. /\ h \in Pids /\ h < contador /\ estado[h].tipo \notin {"EXIT", "NADA"}
      /\ h \notin Marchan
      /\ Ubica(Pone(P, EnReady, h), [estado EXCEPT ![h] = Estado("READY", Nada)], contador,
               Marchan, PorMarcar)
  BY <1>1, UbicaDespierta
<1>3. Colas' = Pone(P, EnReady, h)
  <2>1. P \in Familias /\ P[s] = Tail(Colas[s]) /\ \A t \in Esperas : t # s => P[t] = Colas[t]
    <3>1. Tail(Colas[s]) \in Seq(Pids)
      BY <1>1, HeadTailProperties DEF Familias
    <3> QED BY <1>1, <3>1 DEF Saca, Familias
  <2>2. EnReady \in Esperas /\ Colas[EnReady] = colaReady /\ Colas'[EnReady] = colaReady'
    BY ColasNombres
  <2>3. colaReady' = Append(colaReady, h)
    BY DEF Iniciar
  <2> HIDE DEF P, h
  <2>4. \A t \in Esperas : t # EnReady => Colas'[t] = P[t]
    BY <2>1
  <2>5. Colas'[EnReady] = Append(P[EnReady], h)
    BY <2>1, <2>2, <2>3
  <2> QED BY <1>2, <2>1, <2>2, <2>4, <2>5, FamiliaSiguiente, FamiliaIgual
<1>4. estado' = [estado EXCEPT ![h] = Estado("READY", Nada)]
  BY DEF Iniciar
<1> HIDE DEF h, P
<1>5. /\ estado'[h].tipo = "READY"
      /\ \A p \in Pids : p # h => estado'[p] = estado[p]
  BY <1>1, <1>2, <1>4 DEF Estado
<1>6. Ubica(Colas, estado, contador, Marchan, PorMarcar)'
  <2>1. Ubica(Colas', estado', contador', Marchan', PorMarcar')
    BY <1>2, <1>3, <1>4
  <2> QED BY <2>1 DEF Ubica
<1>7. EnExec'
  <2> SUFFICES ASSUME NEW p \in Pids, colaExec' = <<p>>, ~Eligiendo("escucha")',
                      semEjecutar' = 1 \/ ~desaloja'
               PROVE  estado'[p].tipo = "EXEC"
    BY DEF EnExec
  <2>1. colaExec = <<p>> /\ ~Eligiendo("escucha") /\ (semEjecutar = 1 \/ ~desaloja)
    OBVIOUS
  <2>2. estado[p].tipo = "EXEC" /\ p \in Marchan
    BY <2>1 DEF InvLugares, Ubicados, EnExec, Marchan, Ocupa
  <2> QED BY <1>2, <1>5, <2>2
<1>8. Ubicados'
  BY <1>6, <1>7 DEF Ubicados, InvLugares
<1>9. \A p \in Pids : estado'[p].tipo = "EXIT" <=> estado[p].tipo = "EXIT"
  BY <1>2, <1>5
<1>10. ExitSinRecursos' /\ ExitPaso
  <2>1. ExitPaso
    BY <1>9 DEF ExitPaso
  <2>2. \A p \in Pids : p < contador /\ estado[p].tipo = "EXIT" => DeProceso(p) = {}
    BY DEF InvLugares, ExitSinRecursos, Procesos
  <2>3. \A p \in Pids : DeProceso(p)' \subseteq DeProceso(p)
    BY DEF DeProceso
  <2>4. ExitSinRecursos'
    BY <1>9, <2>2, <2>3 DEF ExitSinRecursos, Procesos
  <2> QED BY <2>1, <2>4
<1> QED BY <1>2, <1>8, <1>10 DEF h

\* The long-term scheduler: a process is admitted.
LEMMA AdmiteLugar ==
  ASSUME InvLugares, TypeOK', Admite, UNCHANGED cpuVars
  PROVE  LugarSig
<1>1. CASE Cae
  BY <1>1, CaeLugar
<1>2. CASE ~Cae
  <2>1. /\ colaNew # <<>> /\ colaNew' = Tail(colaNew) /\ Iniciar(Head(colaNew))
        /\ UNCHANGED <<colaExec, contador, esPrimer, semEjecutar, desaloja, colaIO, colaRec,
                       retenidos, chCpu, script, ejecutadas, cpuPid>>
    BY <1>2 DEF Admite, recVars, canales, cpuVars
  <2>2. pc'["escucha"] = pc["escucha"] /\ pidDe'["escucha"] = pidDe["escucha"]
    BY <1>2, TiposLugares DEF Admite, Sigue, Vuelve, Hilos
  <2>3. /\ Colas[EnNew] = colaNew /\ Colas'[EnNew] = colaNew' /\ EnNew \in Esperas \ {EnReady}
    BY ColasNombres
  <2>4. \A t \in Esperas \ {EnNew, EnReady} : Colas'[t] = Colas[t]
    BY <2>1, ColasIguales
  <2>5. /\ Marchan' = Marchan /\ PorMarcar' = PorMarcar
        /\ Eligiendo("escucha")' = Eligiendo("escucha")
    BY <2>1, <2>2 DEF Marchan, Ocupa, PorMarcar, Eligiendo
  <2>6. Ubicados' /\ ExitSinRecursos' /\ ExitPaso
    BY <2>1, <2>3, <2>4, <2>5, DespiertaLugar
  <2>7. Mensajes'
    BY <2>1, <2>2, QuietoMensajes DEF Denegado
  <2>8. EsperaAnotada'
    BY <2>1 DEF InvLugares, EsperaAnotada, DePar
  <2> QED BY <2>6, <2>7, <2>8 DEF LugarSig
<1> QED BY <1>1, <1>2

\* The end of an I/O.
LEMMA FinIOLugar ==
  ASSUME InvLugares, TypeOK', NEW i \in Interfaces, FinIO(i), UNCHANGED cpuVars
  PROVE  LugarSig
<1>1. CASE Cae
  BY <1>1, CaeLugar
<1>2. CASE ~Cae
  <2>1. /\ colaIO[i] # <<>> /\ colaIO' = [colaIO EXCEPT ![i] = Tail(@)]
        /\ Iniciar(Head(colaIO[i]))
        /\ UNCHANGED <<colaExec, contador, esPrimer, semEjecutar, desaloja, colaNew, colaRec,
                       retenidos, chCpu, script, ejecutadas, cpuPid, pc, pidDe>>
    BY <1>2 DEF FinIO, hilosVars, recVars, admVars, cpuVars
  <2>2. /\ Colas[EnIO(i)] = colaIO[i] /\ Colas'[EnIO(i)] = Tail(colaIO[i])
        /\ EnIO(i) \in Esperas \ {EnReady}
    BY <2>1, ColasNombres, TiposLugares
  <2>3. ASSUME NEW t \in Esperas \ {EnIO(i), EnReady}
        PROVE  Colas'[t] = Colas[t]
    <3>1. \A j \in Interfaces : t = EnIO(j) => colaIO'[j] = colaIO[j]
      BY <2>1, <2>3, TiposLugares
    <3> QED BY <2>1, <3>1, ColasIguales
  <2>4. /\ Marchan' = Marchan /\ PorMarcar' = PorMarcar
        /\ Eligiendo("escucha")' = Eligiendo("escucha")
    BY <2>1 DEF Marchan, Ocupa, PorMarcar, Eligiendo
  <2>5. Ubicados' /\ ExitSinRecursos' /\ ExitPaso
    BY <2>1, <2>2, <2>3, <2>4, DespiertaLugar
  <2>6. Mensajes'
    BY <2>1, QuietoMensajes DEF Denegado
  <2>7. EsperaAnotada'
    BY <2>1 DEF InvLugares, EsperaAnotada, DePar
  <2> QED BY <2>5, <2>6, <2>7 DEF LugarSig
<1> QED BY <1>1, <1>2

\* Removing an instance of a process that waits for nothing.
LEMMA QuitaAnotada ==
  ASSUME InvLugares, NEW r \in Recursos, NEW p \in Marchan, Quita(p, r),
         \A s \in Recursos : \A q : Esta(colaRec'[s], q) => Esta(colaRec[s], q)
  PROVE  EsperaAnotada'
<1>1. PICK x \in DePar(p, r) : retenidos' = retenidos \ {x}
  BY DEF Quita
<1>2. x.pid = p
  BY DEF DePar
<1> SUFFICES ASSUME NEW s \in Recursos, NEW j \in 1..Len(colaRec'[s])
             PROVE  \E y \in retenidos' : y.pid = colaRec'[s][j] /\ y.rec = s
  BY DEF EsperaAnotada, DePar
<1>3. PICK q : q = colaRec'[s][j]
  OBVIOUS
<1>4. Esta(colaRec'[s], q)
  BY <1>3 DEF Esta
<1>5. Esta(colaRec[s], q)
  BY <1>4
<1>6. DePar(q, s) # {}
  BY <1>5 DEF Esta, EsperaAnotada, InvLugares
<1>7. q # p
  <2>1. EnRec(s) \in Esperas /\ Esta(Colas[EnRec(s)], q)
    BY <1>5, ColasNombres
  <2>2. Aparece(Colas, q)
    BY <2>1, TiposLugares DEF Aparece, Familias
  <2> QED BY <2>2 DEF InvLugares, Ubicados, Ubica
<1>8. \E y \in retenidos' : y.pid = q /\ y.rec = s
  BY <1>1, <1>2, <1>6, <1>7 DEF DePar
<1> QED BY <1>3, <1>8

\* The process whose packet escucha is half way through is still the one in the CPU.
LEMMA AtendidoMarcha ==
  ASSUME InvLugares,
         pc["escucha"] \in {"waitEvalua", "signalEvalua", "libera", "liberaEvalua"}
  PROVE  /\ Respondiendo /\ Ocupa /\ Marchan = {cpuPid} /\ PorMarcar = {}
         /\ pidDe["escucha"] = cpuPid /\ cpuPid \in Pids /\ colaExec = <<cpuPid>>
         /\ ~Eligiendo("escucha")
<1>1. /\ Respondiendo /\ pidDe["escucha"] = cpuPid /\ cpuPid \in Pids
      /\ colaExec = <<cpuPid>> /\ ~Eligiendo("escucha")
  <2>1. Respondiendo
    BY DeQuienEsElTurno DEF Atiende, InvLugares
  <2>2. cpuPid \in Pids
    BY <2>1, TiposDespacho DEF Respondiendo, InvLugares
  <2> QED BY <2>1, <2>2 DEF Respondiendo, Eligiendo
<1>2. Ocupa
  BY <1>1 DEF Ocupa, InvLugares, Mensajes
<1>3. Marchan = {cpuPid}
  BY <1>1, <1>2 DEF Marchan
<1> QED BY <1>1, <1>2, <1>3 DEF PorMarcar

\* The release of an instance, on behalf of the process attended to, and the wake-up.
LEMMA EvaluaSignalLugar ==
  ASSUME InvLugares, TypeOK', UNCHANGED cpuVars,
         pc["escucha"] \in {"signalEvalua", "liberaEvalua"},
         ~SignalNula(pidDe["escucha"], argDe["escucha"]),
         EvaluaSignal(pidDe["escucha"], argDe["escucha"]),
         pc'["escucha"] = IF pc["escucha"] = "signalEvalua" THEN "recibe" ELSE "libera"
  PROVE  LugarSig
<1> DEFINE p == pidDe["escucha"]
           r == argDe["escucha"]
<1>1. /\ r \in Recursos /\ p \in Marchan /\ Respondiendo /\ Ocupa /\ ~Eligiendo("escucha")
      /\ PorMarcar = {}
  BY AtendidoMarcha, TiposLugares DEF ConRecurso, ConPid
<1>2. /\ UNCHANGED <<colaNew, colaExec, colaIO, contador, esPrimer, semEjecutar, desaloja,
                     chCpu, script, ejecutadas, cpuPid>>
      /\ Quita(p, r)
  BY DEF EvaluaSignal, admVars, canales, cpuVars
<1>3. /\ Ocupa' /\ Marchan' = Marchan /\ PorMarcar' = PorMarcar
      /\ Eligiendo("escucha")' = Eligiendo("escucha")
  <2>1. pc["escucha"] = "signalEvalua" => ~desaloja
    BY DEF InvLugares, Mensajes
  <2>2. Ocupa' /\ ~Eligiendo("escucha")'
    BY <1>2, <2>1 DEF Ocupa, Eligiendo
  <2>3. Eligiendo("escucha")' = Eligiendo("escucha")
    BY <1>1 DEF Eligiendo
  <2> QED BY <1>1, <1>2, <2>2, <2>3 DEF Marchan, PorMarcar
<1>4. Mensajes'
  <2>1. pc'["escucha"] \in {"recibe", "libera"}
    OBVIOUS
  <2>2. pc["escucha"] # "recibe" /\ pc'["escucha"] \notin {"waitEvalua", "signalEvalua"}
    BY <2>1
  <2> QED BY <1>2, <2>1, <2>2, QuietoMensajes DEF Denegado
<1>5. retenidos' \subseteq retenidos
  BY <1>2 DEF Quita
<1>6. CASE SeDesbloquea(r)
  <2>1. /\ colaRec[r] # <<>> /\ Iniciar(Head(colaRec[r]))
        /\ colaRec' = [colaRec EXCEPT ![r] = Tail(@)]
    BY <1>6 DEF EvaluaSignal, SignalNula
  <2>2. /\ Colas[EnRec(r)] = colaRec[r] /\ Colas'[EnRec(r)] = Tail(colaRec[r])
        /\ EnRec(r) \in Esperas \ {EnReady}
    BY <1>1, <2>1, ColasNombres, TiposLugares
  <2>3. ASSUME NEW t \in Esperas \ {EnRec(r), EnReady}
        PROVE  Colas'[t] = Colas[t]
    <3>1. \A j \in Recursos : t = EnRec(j) => colaRec'[j] = colaRec[j]
      BY <2>1, <2>3, TiposLugares
    <3> QED BY <1>2, <3>1, ColasIguales
  <2>4. Ubicados' /\ ExitSinRecursos' /\ ExitPaso
    BY <1>1, <1>2, <1>3, <1>5, <2>1, <2>2, <2>3, DespiertaLugar
  <2>5. ASSUME NEW s \in Recursos, NEW q, Esta(colaRec'[s], q)
        PROVE  Esta(colaRec[s], q)
    <3>1. CASE s = r
      <4>1. colaRec'[r] = Tail(colaRec[r]) /\ colaRec[r] \in Seq(Pids)
        BY <1>1, <2>1, TiposLugares
      <4>2. /\ Len(Tail(colaRec[r])) = Len(colaRec[r]) - 1 /\ Len(colaRec[r]) \in Nat
            /\ \A j \in 1..Len(Tail(colaRec[r])) : Tail(colaRec[r])[j] = colaRec[r][j + 1]
        BY <2>1, <4>1, HeadTailProperties, LenProperties
      <4>3. PICK j \in 1..Len(colaRec'[s]) : colaRec'[s][j] = q
        BY <2>5 DEF Esta
      <4>4. j + 1 \in 1..Len(colaRec[s]) /\ colaRec[s][j + 1] = q
        BY <3>1, <4>1, <4>2, <4>3
      <4> QED BY <4>4 DEF Esta
    <3>2. CASE s # r
      <4>1. colaRec'[s] = colaRec[s]
        BY <2>1, <3>2, TiposLugares
      <4> QED BY <2>5, <4>1
    <3> QED BY <3>1, <3>2
  <2>6. EsperaAnotada'
    BY <1>1, <1>2, <2>5, QuitaAnotada
  <2> QED BY <1>4, <2>4, <2>6 DEF LugarSig
<1>7. CASE ~SeDesbloquea(r)
  <2>1. UNCHANGED sitioVars
    BY <1>2, <1>7 DEF EvaluaSignal, sitioVars
  <2>2. EnExec'
    BY <1>1, <1>2, <1>3, <2>1 DEF InvLugares, Ubicados, EnExec, sitioVars
  <2>3. Ubicados' /\ ExitSinRecursos' /\ ExitPaso
    BY <1>3, <1>5, <2>1, <2>2, QuietoUbica
  <2>4. EsperaAnotada'
    BY <1>1, <1>2, <2>1, QuitaAnotada DEF sitioVars
  <2> QED BY <1>4, <2>3, <2>4 DEF LugarSig
<1> QED BY <1>6, <1>7

\* signal, and the signals of exit_prima.
LEMMA SignalLugar ==
  ASSUME InvLugares, TypeOK', Signal \/ Libera("escucha") \/ LiberaEvalua("escucha"),
         UNCHANGED cpuVars
  PROVE  LugarSig
<1> USE DEF Sigue, Vuelve, Inicio, Hilos
<1>1. CASE Cae
  BY <1>1, CaeLugar
<1>2. CASE Signal /\ ~Cae
  <2>1. /\ pc["escucha"] = "signalEvalua" /\ pc'["escucha"] = "recibe"
        /\ ~SignalNula(pidDe["escucha"], argDe["escucha"])
        /\ EvaluaSignal(pidDe["escucha"], argDe["escucha"])
    BY <1>2, TiposLugares DEF Signal
  <2> QED BY <2>1, EvaluaSignalLugar
<1>3. CASE LiberaEvalua("escucha") /\ ~Cae
  <2>1. /\ pc["escucha"] = "liberaEvalua" /\ pc'["escucha"] = "libera"
        /\ ~SignalNula(pidDe["escucha"], argDe["escucha"])
        /\ EvaluaSignal(pidDe["escucha"], argDe["escucha"])
    BY <1>3, TiposLugares DEF LiberaEvalua
  <2> QED BY <2>1, EvaluaSignalLugar
<1>4. CASE Libera("escucha")
  <2>1. /\ pc["escucha"] = "libera" /\ pc'["escucha"] = "liberaEvalua"
        /\ UNCHANGED lugarVars
        /\ UNCHANGED <<chCpu, desaloja, semEjecutar, script, ejecutadas, cpuPid>>
    BY <1>4, TiposLugares DEF Libera, lugarVars, sitioVars, colasVars, admVars, procVars,
                              planVars, canales, cpuVars
  <2>2. Mensajes'
    BY <2>1, QuietoMensajes DEF Denegado
  <2>3. Marchan' = Marchan /\ PorMarcar' = PorMarcar
    BY <2>1 DEF Marchan, Ocupa, PorMarcar, Eligiendo, lugarVars, sitioVars
  <2>4. EnExec'
    BY <2>1 DEF InvLugares, Ubicados, EnExec, Eligiendo, lugarVars, sitioVars
  <2> QED BY <2>1, <2>2, <2>3, <2>4, QuietoLugar
<1> QED BY <1>1, <1>2, <1>3, <1>4

----------------------------------------------------------------------------
(* The packets.                                                            *)

\* The process whose packet escucha is about to take.
LEMMA LlegaMarcha ==
  ASSUME InvLugares, chCpu # <<>>, pc["escucha"] = "recibe"
  PROVE  /\ Respondiendo /\ PorMarcar = {} /\ ~Eligiendo("escucha")
         /\ Head(chCpu).pid = cpuPid /\ cpuPid \in Pids /\ colaExec = <<cpuPid>>
         /\ semEjecutar = 0 /\ Head(chCpu) = chCpu[1] /\ Head(chCpu) \in MensajesCpu
         /\ Len(chCpu) \in 1..3 /\ Len(Tail(chCpu)) = Len(chCpu) - 1
         /\ \A j \in 1..Len(Tail(chCpu)) : Tail(chCpu)[j] = chCpu[j + 1]
         /\ Head(chCpu).motivo = "FIN" <=> Len(chCpu) = 1
         /\ Len(chCpu) > 1 => Ocupa /\ Marchan = {cpuPid}
<1>1. InvDespacho
  BY DEF InvLugares
<1>2. /\ Respondiendo /\ Head(chCpu) = chCpu[1] /\ Head(chCpu) \in MensajesCpu
      /\ Head(chCpu).pid = cpuPid /\ cpuPid \in Pids
      /\ Head(chCpu).motivo = "FIN" <=> Len(chCpu) = 1
      /\ Len(Tail(chCpu)) = Len(chCpu) - 1
      /\ \A j \in 1..Len(Tail(chCpu)) : Tail(chCpu)[j] = chCpu[j + 1]
      /\ Len(chCpu) \in Nat \ {0}
  BY <1>1, PrimerPaquete
<1>3. Len(chCpu) \in 1..3
  BY <1>2 DEF InvLugares, Mensajes
<1>4. colaExec = <<cpuPid>> /\ semEjecutar = 0 /\ ~Eligiendo("escucha") /\ PorMarcar = {}
  BY <1>2 DEF Respondiendo, Eligiendo, PorMarcar
<1>5. ASSUME Len(chCpu) > 1 PROVE Ocupa /\ Marchan = {cpuPid}
  <2>1. Ocupa
    BY <1>4, <1>5 DEF Ocupa
  <2> QED BY <1>2, <1>4, <2>1 DEF Marchan
<1> QED BY <1>2, <1>3, <1>4, <1>5

\* FIN_INSTRUCCION answered.
LEMMA FinLugar ==
  ASSUME InvLugares, FinDesaloja \/ FinContinua, UNCHANGED cpuVars
  PROVE  LugarSig
<1>1. /\ chCpu # <<>> /\ Head(chCpu).motivo = "FIN" /\ pc["escucha"] = "recibe"
      /\ chCpu' = Tail(chCpu) /\ UNCHANGED lugarVars
      /\ UNCHANGED <<desaloja, semEjecutar>>
  BY DEF FinDesaloja, FinContinua, Llega, lugarVars, sitioVars, colasVars, recVars, planVars,
         admVars, procVars
<1>2. /\ Len(chCpu) = 1 /\ Len(Tail(chCpu)) = Len(chCpu) - 1 /\ semEjecutar = 0
      /\ PorMarcar = {} /\ ~Eligiendo("escucha")
  BY <1>1, LlegaMarcha
<1>3. Len(chCpu') = 0
  BY <1>1, <1>2
<1>4. \/ desaloja /\ pc'["escucha"] = "replanifica"
      \/ ~desaloja /\ pc'["escucha"] = "recibe"
  BY <1>1, TiposLugares DEF FinDesaloja, FinContinua, Sigue, hilosVars, Hilos
<1>5. Mensajes'
  BY <1>3, <1>4 DEF Mensajes
<1>6. PorMarcar' = PorMarcar
  BY <1>2, <1>4 DEF PorMarcar
<1>7. Marchan' = Marchan /\ EnExec'
  <2>1. CASE desaloja /\ pc'["escucha"] = "replanifica"
    <3>1. ~Ocupa
      BY <1>1, <1>2, <2>1 DEF Ocupa
    <3>2. ~Ocupa' /\ Eligiendo("escucha")'
      BY <2>1 DEF Ocupa, Eligiendo
    <3> QED BY <3>1, <3>2 DEF Marchan, EnExec
  <2>2. CASE ~desaloja /\ pc'["escucha"] = "recibe"
    <3>1. Ocupa /\ Ocupa'
      BY <1>1, <1>2, <2>2 DEF Ocupa, Eligiendo
    <3>2. Marchan' = Marchan
      BY <1>1, <3>1 DEF Marchan, lugarVars, sitioVars
    <3>3. EnExec'
      BY <1>1, <1>2, <2>2 DEF InvLugares, Ubicados, EnExec, lugarVars, sitioVars
    <3> QED BY <3>2, <3>3
  <2> QED BY <1>4, <2>1, <2>2
<1> QED BY <1>1, <1>5, <1>6, <1>7, QuietoLugar

\* A process changes state, to one that is not EXIT.
LEMMA ExitQuieto ==
  ASSUME InvLugares, NEW x \in Pids, estado'[x].tipo # "EXIT",
         \A p \in Pids : p # x => /\ estado'[p] = estado[p]
                                  /\ p < contador' <=> p < contador,
         estado[x].tipo = "EXIT" => Denegado(x),
         \A y \in retenidos' : y \in retenidos \/ y.pid = x
  PROVE  ExitSinRecursos' /\ ExitPaso
<1>1. ExitPaso
  BY DEF ExitPaso
<1>2. ASSUME NEW p \in Pids, p < contador', estado'[p].tipo = "EXIT"
      PROVE  {y \in retenidos' : y.pid = p} = {}
  <2>1. p # x /\ p < contador /\ estado[p].tipo = "EXIT"
    BY <1>2
  <2>2. DeProceso(p) = {}
    BY <2>1 DEF InvLugares, ExitSinRecursos, Procesos
  <2> QED BY <2>1, <2>2 DEF DeProceso
<1>3. ExitSinRecursos'
  BY <1>2 DEF ExitSinRecursos, Procesos, DeProceso
<1> QED BY <1>1, <1>3

\* A packet that is loaded: what escucha knows of its process.
LEMMA CargaLugar ==
  ASSUME InvLugares, NEW motivos, Llega(motivos), "FIN" \notin motivos, CargaPcb(Head(chCpu))
  PROVE  /\ chCpu # <<>> /\ pc["escucha"] = "recibe" /\ Head(chCpu).motivo \in motivos
         /\ colaExec' = colaExec /\ colaExec = <<cpuPid>> /\ cpuPid \in Pids
         /\ Head(chCpu).pid = cpuPid /\ Marchan = {cpuPid} /\ PorMarcar = {}
         /\ semEjecutar = 0 /\ ~Eligiendo("escucha")
         /\ Len(chCpu) \in 2..3 /\ Len(chCpu') = Len(chCpu) - 1
         /\ Len(chCpu) = 3 => /\ ~desaloja /\ Denegado(cpuPid) /\ Head(chCpu).motivo = "ERROR"
                              /\ chCpu'[1].motivo = "IO"
         /\ Len(chCpu) = 2 /\ desaloja => Head(chCpu).motivo = "IO" /\ Denegado(cpuPid)
         /\ ~desaloja => estado[cpuPid].tipo = "EXEC"
<1>1. chCpu # <<>> /\ pc["escucha"] = "recibe" /\ Head(chCpu).motivo \in motivos
  BY DEF Llega
<1>2. /\ PorMarcar = {} /\ ~Eligiendo("escucha")
      /\ Head(chCpu).pid = cpuPid /\ cpuPid \in Pids /\ colaExec = <<cpuPid>>
      /\ semEjecutar = 0 /\ Head(chCpu) = chCpu[1]
      /\ Len(chCpu) \in 1..3 /\ Len(Tail(chCpu)) = Len(chCpu) - 1
      /\ \A j \in 1..Len(Tail(chCpu)) : Tail(chCpu)[j] = chCpu[j + 1]
      /\ Head(chCpu).motivo = "FIN" <=> Len(chCpu) = 1
      /\ Len(chCpu) > 1 => Ocupa /\ Marchan = {cpuPid}
  BY <1>1, LlegaMarcha
<1>3. Len(chCpu) # 1
  BY <1>1, <1>2
<1>4. Len(chCpu) \in 2..3 /\ Len(chCpu) > 1
  BY <1>2, <1>3
<1>5. colaExec' = <<cpuPid>> /\ chCpu' = Tail(chCpu)
  BY <1>2 DEF CargaPcb
<1>6. ASSUME Len(chCpu) = 3
      PROVE  chCpu'[1] = chCpu[2]
  <2>1. Len(Tail(chCpu)) = 2
    BY <1>2, <1>6
  <2>2. 1 \in 1..Len(Tail(chCpu)) /\ 1 + 1 = 2
    BY <2>1
  <2>3. Tail(chCpu)[1] = chCpu[1 + 1]
    BY <1>2, <2>2
  <2> QED BY <1>5, <2>2, <2>3
<1>7. ~desaloja => estado[cpuPid].tipo = "EXEC"
  BY <1>2 DEF InvLugares, Ubicados, EnExec
<1>8. /\ Len(chCpu) = 3 => /\ ~desaloja /\ Denegado(cpuPid)
                           /\ chCpu[1].motivo = "ERROR" /\ chCpu[2].motivo = "IO"
      /\ Len(chCpu) = 2 /\ desaloja => chCpu[1].motivo = "IO" /\ Denegado(cpuPid)
  BY DEF InvLugares, Mensajes
<1> QED BY <1>1, <1>2, <1>4, <1>5, <1>6, <1>7, <1>8

\* While escucha blocks a process only FIN_INSTRUCCION is left.
LEMMA LargoMensajes ==
  ASSUME InvLugares
  PROVE  /\ Len(chCpu) \in Nat
         /\ pc["escucha"] \in {"esperaPlani", "marcaBlock", "waitEvalua", "signalEvalua"}
              => Len(chCpu) <= 1 /\ Len(chCpu) # 2
<1>1. Len(chCpu) \in Nat
  BY TiposDespacho, LenProperties DEF InvLugares
<1>2. ASSUME pc["escucha"] \in {"esperaPlani", "marcaBlock", "waitEvalua", "signalEvalua"}
      PROVE  Len(chCpu) <= 3 /\ Len(chCpu) # 3 /\ Len(chCpu) # 2
  <2>1. pc["escucha"] \notin {"recibe", "libera", "liberaEvalua"}
    BY <1>2
  <2> QED BY <2>1 DEF InvLugares, Mensajes
<1>3. ASSUME NEW n \in Nat, n <= 3, n # 3, n # 2
      PROVE  n <= 1
  BY <1>3
<1> QED BY <1>1, <1>2, <1>3

\* IO_*: the process enters the queue of the interface.
LEMMA PideIOLugar ==
  ASSUME InvLugares, TypeOK', PideIO, UNCHANGED cpuVars
  PROVE  LugarSig
<1> DEFINE i == Head(chCpu).arg
           x == cpuPid
<1>1. /\ Llega({"IO"}) /\ "FIN" \notin {"IO"} /\ CargaPcb(Head(chCpu)) /\ i \in Interfaces
  BY DEF PideIO, CumpleInterfaz
<1>2. /\ chCpu # <<>> /\ pc["escucha"] = "recibe" /\ Head(chCpu).motivo = "IO"
      /\ colaExec' = colaExec /\ colaExec = <<x>> /\ x \in Pids
      /\ Head(chCpu).pid = x /\ Marchan = {x} /\ PorMarcar = {}
      /\ semEjecutar = 0
      /\ Len(chCpu) \in 2..3 /\ Len(chCpu') = Len(chCpu) - 1
      /\ Len(chCpu) = 3 => Head(chCpu).motivo = "ERROR"
      /\ Len(chCpu) = 2 /\ desaloja => Denegado(x)
      /\ ~desaloja => estado[x].tipo = "EXEC"
  BY <1>1, CargaLugar
<1>3. Len(chCpu) = 2 /\ Len(chCpu') = 1
  BY <1>2
<1>4. /\ colaIO' = [colaIO EXCEPT ![i] = Append(@, x)]
      /\ estado' = [estado EXCEPT ![x] = Estado("BLOCK", Nada)]
      /\ desaloja' = TRUE /\ pc'["escucha"] = "esperaPlani" /\ pidDe'["escucha"] = x
      /\ UNCHANGED <<colaNew, colaReady, colaRec, retenidos, semEjecutar, contador, esPrimer>>
  BY <1>2, TiposLugares DEF PideIO, Sigue, Hilos, recVars, planVars, admVars
<1>5. Mensajes'
  BY <1>3, <1>4 DEF Mensajes
<1>6. ~Ocupa' /\ Marchan' = {} /\ PorMarcar' = {x} /\ EnExec'
  <2>1. ~Ocupa'
    BY <1>2, <1>3, <1>4 DEF Ocupa
  <2> QED BY <1>2, <1>4, <2>1 DEF Marchan, PorMarcar, EnExec
<1>7. estado'[x].tipo = "BLOCK" /\ \A p \in Pids : p # x => estado'[p] = estado[p]
  BY <1>2, <1>4, TiposLugares DEF Estado
<1>8. ExitSinRecursos' /\ ExitPaso
  BY <1>2, <1>3, <1>4, <1>7, ExitQuieto
<1>9. EsperaAnotada'
  BY <1>4 DEF InvLugares, EsperaAnotada, DePar
<1>10. Colas' = Pone(Colas, EnIO(i), x)
  <2>1. /\ Colas[EnIO(i)] = colaIO[i] /\ Colas'[EnIO(i)] = colaIO'[i]
        /\ EnIO(i) \in Esperas /\ EnIO(i) # EnReady
    BY <1>1, ColasNombres
  <2>2. colaIO'[i] = Append(colaIO[i], x)
    BY <1>1, <1>4, TiposLugares
  <2>3. ASSUME NEW t \in Esperas, t # EnIO(i)
        PROVE  Colas'[t] = Colas[t]
    <3>1. \A j \in Interfaces : t = EnIO(j) => colaIO'[j] = colaIO[j]
      BY <1>4, <2>3, TiposLugares
    <3> QED BY <1>4, <3>1, ColasIguales
  <2> HIDE DEF i, x
  <2> QED BY <1>2, <2>1, <2>2, <2>3, TiposLugares, FamiliaSiguiente, FamiliaIgual
<1>11. Ubicados'
  <2> DEFINE v == Estado("BLOCK", Nada)
  <2>1. v \in Estados /\ v.tipo \notin {"NEW", "EXIT", "NADA"}
    BY DEF Estado, Estados, Tipos
  <2>2. EnIO(i) \in Esperas \ {EnNew} /\ x \in Marchan /\ {x} \in SUBSET {x}
    BY <1>1, <1>2, ColasNombres
  <2>3. Ubica(Colas, estado, contador, Marchan, PorMarcar)
    BY DEF InvLugares, Ubicados
  <2> HIDE DEF v, x, i
  <2>4. Ubica(Pone(Colas, EnIO(i), x), [estado EXCEPT ![x] = v], contador, Marchan \ {x}, {x})
    BY <2>1, <2>2, <2>3, TiposLugares, UbicaBloquea
  <2>5. Ubica(Colas', estado', contador', Marchan', PorMarcar')
    BY <1>2, <1>4, <1>6, <1>10, <2>4 DEF v
  <2>6. Ubica(Colas, estado, contador, Marchan, PorMarcar)'
    BY <2>5 DEF Ubica
  <2>7. esPrimer' => colaExec' = <<>>
    BY <1>2, <1>4 DEF InvLugares, Ubicados
  <2> QED BY <1>6, <2>6, <2>7 DEF Ubicados
<1> QED BY <1>5, <1>8, <1>9, <1>11 DEF LugarSig

\* The request goes to the interface ...
LEMMA EnviaIOLugar ==
  ASSUME InvLugares, EnviaIO, UNCHANGED cpuVars
  PROVE  LugarSig
<1>1. /\ pc["escucha"] = "esperaPlani" /\ pc'["escucha"] = "marcaBlock"
      /\ pidDe'["escucha"] = pidDe["escucha"] /\ UNCHANGED lugarVars
      /\ UNCHANGED <<chCpu, desaloja, semEjecutar, script, ejecutadas, cpuPid>>
  BY TiposLugares DEF EnviaIO, Sigue, Hilos, lugarVars, sitioVars, colasVars, recVars,
                      planVars, admVars, procVars, cpuVars
<1>2. PorMarcar' = PorMarcar
  BY <1>1 DEF PorMarcar
<1>3. desaloja /\ semEjecutar = 0
  BY <1>1, DeQuienEsElTurno DEF InvLugares, Respondiendo, Atiende
<1>4. Len(chCpu) <= 1 /\ Len(chCpu) # 2 /\ Len(chCpu) \in Nat
  BY <1>1, LargoMensajes
<1>5. Marchan' = Marchan
  BY <1>1, <1>3, <1>4 DEF Marchan, Ocupa
<1>6. EnExec'
  BY <1>1, <1>3 DEF EnExec
<1>7. Mensajes'
  BY <1>1, <1>4, QuietoMensajes DEF Denegado
<1> QED BY <1>1, <1>2, <1>5, <1>6, <1>7, QuietoLugar

\* ... and then its process is marked, wherever it is by then.
LEMMA MarcaBlockLugar ==
  ASSUME InvLugares, MarcaBlock, UNCHANGED cpuVars
  PROVE  LugarSig
<1> DEFINE x == pidDe["escucha"]
           i == argDe["escucha"]
           v == Estado("BLOCK - IO", i)
<1>1. /\ pc["escucha"] = "marcaBlock" /\ pc'["escucha"] = "recibe"
      /\ estado' = [estado EXCEPT ![x] = v]
      /\ UNCHANGED <<colaNew, colaReady, colaExec, colaIO, colaRec, retenidos, contador,
                     esPrimer>>
      /\ UNCHANGED <<chCpu, desaloja, semEjecutar, script, ejecutadas, cpuPid>>
  BY TiposLugares DEF MarcaBlock, Vuelve, Sigue, Inicio, Hilos, colasVars, recVars,
                      planVars, admVars, procVars, cpuVars
<1>2. PorMarcar' = {} /\ PorMarcar = {x} /\ x \in Pids /\ i \in Interfaces
  BY <1>1, TiposLugares DEF PorMarcar, ConPid, ConInterfaz
<1> HIDE DEF v, x, i
<1>3. desaloja /\ semEjecutar = 0
  BY <1>1, DeQuienEsElTurno DEF InvLugares, Respondiendo, Atiende
<1>4. Len(chCpu) <= 1 /\ Len(chCpu) # 2 /\ Len(chCpu) \in Nat
  BY <1>1, LargoMensajes
<1>5. Marchan' = Marchan
  BY <1>1, <1>3, <1>4 DEF Marchan, Ocupa
<1>6. EnExec'
  BY <1>1, <1>3 DEF EnExec
<1>7. Mensajes'
  BY <1>1, <1>4, QuietoMensajes DEF Denegado
<1>8. Ubica(Colas, estado, contador, Marchan, PorMarcar)
  BY DEF InvLugares, Ubicados
<1>9. /\ v \in Estados /\ v.tipo \notin {"NEW", "EXIT", "NADA"}
      /\ estado'[x].tipo # "EXIT" /\ estado[x].tipo # "EXIT"
      /\ \A p \in Pids : p # x => estado'[p] = estado[p]
  <2>1. v \in Estados /\ v.tipo = "BLOCK - IO"
    BY <1>2 DEF Estado, Estados, v
  <2>2. estado'[x] = v
    BY <1>1, <1>2, TiposLugares
  <2> QED BY <1>1, <1>2, <1>8, <2>1, <2>2, TiposLugares DEF Ubica
<1>10. Ubicados'
  <2>1. Ubica(Colas, [estado EXCEPT ![x] = v], contador, Marchan, {})
    BY <1>2, <1>8, <1>9, TiposLugares, UbicaMarca
  <2>2. Colas' = Colas
    BY <1>1 DEF Colas
  <2>3. Ubica(Colas', estado', contador', Marchan', PorMarcar')
    BY <1>1, <1>2, <1>5, <2>1, <2>2
  <2>4. Ubica(Colas, estado, contador, Marchan, PorMarcar)'
    BY <2>3 DEF Ubica
  <2>5. esPrimer' => colaExec' = <<>>
    BY <1>1 DEF InvLugares, Ubicados
  <2> QED BY <1>6, <2>4, <2>5 DEF Ubicados
<1>11. ExitSinRecursos' /\ ExitPaso
  BY <1>1, <1>2, <1>9, ExitQuieto
<1>12. EsperaAnotada'
  BY <1>1 DEF InvLugares, EsperaAnotada, DePar
<1> QED BY <1>7, <1>10, <1>11, <1>12 DEF LugarSig

\* WAIT and SIGNAL, up to the unlock.
LEMMA PideRecursoLugar ==
  ASSUME InvLugares, PideWait \/ PideSignal, UNCHANGED cpuVars
  PROVE  LugarSig
<1>1. /\ Llega({"WAIT", "SIGNAL"}) /\ "FIN" \notin {"WAIT", "SIGNAL"}
      /\ CargaPcb(Head(chCpu))
  BY DEF PideWait, PideSignal, Llega
<1>2. /\ chCpu # <<>> /\ pc["escucha"] = "recibe" /\ Head(chCpu).motivo \in {"WAIT", "SIGNAL"}
      /\ colaExec' = colaExec /\ colaExec = <<cpuPid>> /\ cpuPid \in Pids
      /\ Marchan = {cpuPid} /\ PorMarcar = {} /\ ~Eligiendo("escucha")
      /\ Len(chCpu) \in 2..3 /\ Len(chCpu') = Len(chCpu) - 1
      /\ Len(chCpu) = 3 => Head(chCpu).motivo = "ERROR"
      /\ Len(chCpu) = 2 /\ desaloja => Head(chCpu).motivo = "IO"
  BY <1>1, CargaLugar
<1>3. Len(chCpu') = 1 /\ ~desaloja
  BY <1>2
<1>4. /\ pc'["escucha"] \in {"waitEvalua", "signalEvalua"}
      /\ UNCHANGED <<colaNew, colaReady, colaIO, colaRec, retenidos, semEjecutar, contador,
                     esPrimer, estado, desaloja>>
  BY TiposLugares DEF PideWait, PideSignal, Sigue, Hilos, planVars, admVars
<1>5. Mensajes'
  BY <1>3, <1>4 DEF Mensajes
<1>6. Marchan' = Marchan /\ PorMarcar' = PorMarcar
  <2>1. Ocupa'
    BY <1>3, <1>4 DEF Ocupa, Eligiendo
  <2> QED BY <1>2, <1>4, <2>1 DEF Marchan, PorMarcar
<1>7. EnExec'
  BY <1>2, <1>3, <1>4 DEF InvLugares, Ubicados, EnExec
<1>8. UNCHANGED lugarVars
  BY <1>2, <1>4 DEF lugarVars, sitioVars
<1> QED BY <1>5, <1>6, <1>7, <1>8, QuietoLugar

\* EXIT and what ends like it, up to the first release.
LEMMA PideExitLugar ==
  ASSUME InvLugares, PideExit \/ (PideDesconocido /\ ~Cae), UNCHANGED cpuVars
  PROVE  LugarSig
<1>1. /\ Llega(Motivos \ {"FIN"}) /\ "FIN" \notin Motivos \ {"FIN"}
      /\ CargaPcb(Head(chCpu))
  BY DEF PideExit, PideDesconocido, Llega, Motivos
<1>2. /\ chCpu # <<>> /\ pc["escucha"] = "recibe"
      /\ colaExec' = colaExec /\ colaExec = <<cpuPid>> /\ cpuPid \in Pids
      /\ Marchan = {cpuPid} /\ PorMarcar = {} /\ semEjecutar = 0
      /\ Len(chCpu) \in 2..3 /\ Len(chCpu') = Len(chCpu) - 1
      /\ Len(chCpu) = 3 => Denegado(cpuPid) /\ chCpu'[1].motivo = "IO"
  BY <1>1, CargaLugar
<1>3. /\ pc'["escucha"] = "libera" /\ desaloja' = TRUE
      /\ UNCHANGED <<colaNew, colaReady, colaIO, colaRec, retenidos, semEjecutar, contador,
                     esPrimer, estado, script, ejecutadas, cpuPid>>
  BY TiposLugares DEF PideExit, PideDesconocido, Sigue, Hilos, planVars, admVars, recVars,
                      cpuVars
<1>4. Mensajes'
  <2>1. Len(chCpu') \in 1..2
    BY <1>2
  <2>2. Denegado(cpuPid) => Denegado(cpuPid)'
    BY <1>3 DEF Denegado
  <2>3. ASSUME Len(chCpu') = 2
        PROVE  chCpu'[1].motivo = "IO" /\ Denegado(cpuPid)'
    <3>1. Len(chCpu) = 3
      BY <1>2, <2>3
    <3> QED BY <1>2, <2>2, <3>1
  <2> QED BY <1>3, <2>1, <2>3 DEF Mensajes
<1>5. Marchan' = Marchan /\ PorMarcar' = PorMarcar
  <2>1. Ocupa'
    BY <1>3 DEF Ocupa, Eligiendo
  <2> QED BY <1>2, <1>3, <2>1 DEF Marchan, PorMarcar
<1>6. EnExec'
  BY <1>2, <1>3 DEF EnExec
<1>7. UNCHANGED lugarVars
  BY <1>2, <1>3 DEF lugarVars, sitioVars
<1> QED BY <1>4, <1>5, <1>6, <1>7, QuietoLugar

\* The rest of wait: the process enters the queue of the resource, or goes on.
LEMMA EvaluaWaitLugar ==
  ASSUME InvLugares, TypeOK', EvaluaWait, UNCHANGED cpuVars
  PROVE  LugarSig
<1> DEFINE x == pidDe["escucha"]
           r == argDe["escucha"]
           v == Estado("BLOCK - RECURSO", r)
<1>1. /\ pc["escucha"] = "waitEvalua" /\ pc'["escucha"] = "recibe"
      /\ UNCHANGED <<colaNew, colaReady, colaExec, colaIO, contador, esPrimer,
                     chCpu, semEjecutar, script, ejecutadas, cpuPid>>
      /\ Anota(x, r)
  BY TiposLugares DEF EvaluaWait, Vuelve, Sigue, Inicio, Hilos, planVars, admVars, cpuVars
<1>2. /\ Respondiendo /\ Ocupa /\ Marchan = {x} /\ PorMarcar = {} /\ x \in Pids
      /\ colaExec = <<x>> /\ ~Eligiendo("escucha") /\ r \in Recursos /\ semEjecutar = 0
  BY <1>1, AtendidoMarcha, TiposLugares DEF ConRecurso, ConPid, Respondiendo
<1>3. Len(chCpu') <= 1 /\ Len(chCpu') # 2 /\ Len(chCpu') \in Nat
  BY <1>1, LargoMensajes
<1>4. ~desaloja
  BY <1>1 DEF InvLugares, Mensajes
<1>5. \/ /\ desaloja' = TRUE /\ colaRec' = [colaRec EXCEPT ![r] = Append(@, x)]
         /\ estado' = [estado EXCEPT ![x] = v]
      \/ UNCHANGED <<desaloja, colaRec, estado>>
  BY DEF EvaluaWait
<1> HIDE DEF x, r
<1>6. estado[x].tipo = "EXEC"
  BY <1>2, <1>4 DEF InvLugares, Ubicados, EnExec
<1>7. v \in Estados /\ v.tipo = "BLOCK - RECURSO"
  BY <1>2 DEF Estado, Estados
<1> HIDE DEF v
<1>8. /\ estado'[x].tipo # "EXIT"
      /\ \A p \in Pids : p # x => estado'[p] = estado[p]
  BY <1>2, <1>5, <1>6, <1>7, TiposLugares
<1>9. PICK e : e.pid = x /\ e.rec = r /\ retenidos' = retenidos \cup {e}
  <2>1. PICK n : retenidos' = retenidos \cup {[n |-> n, pid |-> x, rec |-> r]}
    BY <1>1 DEF Anota
  <2> QED BY <2>1
<1>10. ExitSinRecursos' /\ ExitPaso
  <2>1. \A y \in retenidos' : y \in retenidos \/ y.pid = x
    BY <1>9
  <2> QED BY <1>1, <1>2, <1>6, <1>8, <2>1, ExitQuieto
<1>11. Mensajes'
  BY <1>1, <1>3 DEF Mensajes
<1>12. PorMarcar' = {} /\ (esPrimer' => colaExec' = <<>>)
  BY <1>1 DEF PorMarcar, InvLugares, Ubicados
<1>13. Ubica(Colas, estado, contador, Marchan, PorMarcar)
  BY DEF InvLugares, Ubicados
<1>14. CASE UNCHANGED <<desaloja, colaRec, estado>>
  <2>1. Marchan' = Marchan
    <3>1. Ocupa'
      BY <1>1, <1>4, <1>14 DEF Ocupa, Eligiendo
    <3> QED BY <1>1, <1>2, <3>1 DEF Marchan
  <2>2. Colas' = Colas
    BY <1>1, <1>14 DEF Colas
  <2>3. Ubica(Colas', estado', contador', Marchan', PorMarcar')
    BY <1>1, <1>2, <1>12, <1>13, <1>14, <2>1, <2>2
  <2>4. Ubica(Colas, estado, contador, Marchan, PorMarcar)'
    BY <2>3 DEF Ubica
  <2>5. EnExec'
    BY <1>1, <1>2, <1>4, <1>14 DEF InvLugares, Ubicados, EnExec
  <2>6. EsperaAnotada'
    <3> SUFFICES ASSUME NEW s \in Recursos, NEW j \in 1..Len(colaRec[s])
                 PROVE  \E y \in retenidos' : y.pid = colaRec[s][j] /\ y.rec = s
      BY <1>14 DEF EsperaAnotada, DePar
    <3>1. \E y \in retenidos : y.pid = colaRec[s][j] /\ y.rec = s
      BY DEF InvLugares, EsperaAnotada, DePar
    <3> QED BY <1>9, <3>1
  <2> QED BY <1>10, <1>11, <1>12, <2>4, <2>5, <2>6 DEF LugarSig, Ubicados
<1>15. CASE /\ desaloja' = TRUE /\ colaRec' = [colaRec EXCEPT ![r] = Append(@, x)]
            /\ estado' = [estado EXCEPT ![x] = v]
  <2>1. ~Ocupa' /\ Marchan' = {} /\ EnExec'
    <3>1. ~Ocupa'
      BY <1>1, <1>2, <1>3, <1>15 DEF Ocupa
    <3> QED BY <1>1, <1>2, <1>15, <3>1 DEF Marchan, EnExec
  <2>2. colaRec'[r] = Append(colaRec[r], x) /\ \A s \in Recursos : s # r => colaRec'[s] = colaRec[s]
    BY <1>2, <1>15, TiposLugares
  <2>3. Colas' = Pone(Colas, EnRec(r), x)
    <3>1. /\ Colas[EnRec(r)] = colaRec[r] /\ Colas'[EnRec(r)] = colaRec'[r]
          /\ EnRec(r) \in Esperas /\ EnRec(r) # EnReady
      BY <1>2, ColasNombres
    <3>2. ASSUME NEW t \in Esperas, t # EnRec(r)
          PROVE  Colas'[t] = Colas[t]
      <4>1. \A s \in Recursos : t = EnRec(s) => colaRec'[s] = colaRec[s]
        BY <2>2, <3>2
      <4> QED BY <1>1, <4>1, ColasIguales
    <3>3. Colas'[EnRec(r)] = Append(Colas[EnRec(r)], x)
      BY <2>2, <3>1
    <3>4. Colas \in Familias /\ Colas' \in Familias
      BY TiposLugares, FamiliaSiguiente
    <3> QED BY <1>2, <3>1, <3>2, <3>3, <3>4, FamiliaIgual
  <2>4. Ubica(Pone(Colas, EnRec(r), x), [estado EXCEPT ![x] = v], contador, Marchan \ {x}, {})
    <3>1. EnRec(r) \in Esperas \ {EnNew} /\ x \in Marchan /\ {} \in SUBSET {x}
      BY <1>2, ColasNombres
    <3> QED BY <1>7, <1>13, <3>1, TiposLugares, UbicaBloquea
  <2>5. Ubica(Colas', estado', contador', Marchan', PorMarcar')
    BY <1>1, <1>2, <1>12, <1>15, <2>1, <2>3, <2>4
  <2>6. Ubica(Colas, estado, contador, Marchan, PorMarcar)'
    BY <2>5 DEF Ubica
  <2>7. EsperaAnotada'
    <3> SUFFICES ASSUME NEW s \in Recursos, NEW j \in 1..Len(colaRec'[s])
                 PROVE  \E y \in retenidos' : y.pid = colaRec'[s][j] /\ y.rec = s
      BY DEF EsperaAnotada, DePar
    <3>1. PICK q : q = colaRec'[s][j]
      OBVIOUS
    <3>2. Esta(colaRec'[s], q)
      BY <3>1 DEF Esta
    <3>3. Esta(colaRec[s], q) \/ (s = r /\ q = x)
      <4>1. \A p : Esta(Append(colaRec[r], x), p) <=> Esta(colaRec[r], p) \/ p = x
        BY <1>2, TiposLugares, AgregaEsta
      <4> QED BY <2>2, <3>2, <4>1
    <3>4. CASE Esta(colaRec[s], q)
      <4>1. \E y \in retenidos : y.pid = q /\ y.rec = s
        BY <3>4 DEF InvLugares, EsperaAnotada, DePar, Esta
      <4> QED BY <1>9, <3>1, <4>1
    <3>5. CASE s = r /\ q = x
      BY <1>9, <3>1, <3>5
    <3> QED BY <3>3, <3>4, <3>5
  <2> QED BY <1>10, <1>11, <1>12, <2>1, <2>6, <2>7 DEF LugarSig, Ubicados
<1> QED BY <1>5, <1>14, <1>15

\* exit_prima ends; another packet of the process may be left.
LEMMA SaleLugar ==
  ASSUME InvLugares, SaleEscucha, UNCHANGED cpuVars
  PROVE  LugarSig
<1> DEFINE x == pidDe["escucha"]
<1>1. /\ pc["escucha"] = "libera" /\ pc'["escucha"] = "recibe"
      /\ DeProceso(x) = {} /\ estado' = [estado EXCEPT ![x] = Estado("EXIT", Nada)]
      /\ UNCHANGED <<colaNew, colaReady, colaExec, colaIO, colaRec, retenidos, contador,
                     esPrimer, desaloja, chCpu, semEjecutar, script, ejecutadas, cpuPid>>
  BY TiposLugares DEF SaleEscucha, Sale, Vuelve, Sigue, Inicio, Hilos, recVars, planVars,
                      cpuVars
<1>2. /\ Marchan = {x} /\ PorMarcar = {} /\ x \in Pids /\ desaloja /\ semEjecutar = 0
      /\ colaExec = <<x>>
  BY <1>1, AtendidoMarcha DEF Respondiendo
<1> HIDE DEF x
<1>3. \/ Marchan' = {} \/ Marchan' = {x}
  BY <1>1, <1>2 DEF Marchan
<1>4. PorMarcar' = {} /\ EnExec' /\ (esPrimer' => colaExec' = <<>>)
  BY <1>1, <1>2 DEF PorMarcar, EnExec, InvLugares, Ubicados
<1>5. Mensajes'
  BY <1>1, QuietoMensajes DEF Denegado
<1>6. Ubica(Colas, estado, contador, Marchan, PorMarcar)'
  <2>1. Marchan' \in SUBSET Marchan /\ Marchan \ {x} \subseteq Marchan' /\ x \in Marchan
    BY <1>2, <1>3
  <2>2. Ubica(Colas, estado, contador, Marchan, PorMarcar)
    BY DEF InvLugares, Ubicados
  <2>3. Ubica(Colas, [estado EXCEPT ![x] = Estado("EXIT", Nada)], contador, Marchan', {})
    BY <2>1, <2>2, TiposLugares, UbicaSale
  <2>4. Colas' = Colas
    BY <1>1 DEF Colas
  <2>5. Ubica(Colas', estado', contador', Marchan', PorMarcar')
    BY <1>1, <1>4, <2>3, <2>4
  <2> QED BY <2>5 DEF Ubica
<1>7. estado'[x].tipo = "EXIT" /\ \A p \in Pids : p # x => estado'[p] = estado[p]
  BY <1>1, <1>2, TiposLugares DEF Estado
<1>8. ExitSinRecursos' /\ ExitPaso
  <2>1. ExitPaso
    BY <1>7 DEF ExitPaso
  <2>2. ASSUME NEW p \in Pids, p < contador', estado'[p].tipo = "EXIT"
        PROVE  DeProceso(p)' = {}
    <3>1. p = x \/ estado[p].tipo = "EXIT"
      BY <1>7, <2>2
    <3>2. DeProceso(p) = {}
      BY <1>1, <2>2, <3>1 DEF InvLugares, ExitSinRecursos, Procesos
    <3> QED BY <1>1, <3>2 DEF DeProceso
  <2> QED BY <2>1, <2>2 DEF ExitSinRecursos, Procesos
<1>9. EsperaAnotada'
  BY <1>1 DEF InvLugares, EsperaAnotada, DePar
<1> QED BY <1>4, <1>5, <1>6, <1>8, <1>9 DEF LugarSig, Ubicados

\* Every step of escucha.
LEMMA EscuchaLugar ==
  ASSUME InvLugares, TypeOK', Escucha, UNCHANGED cpuVars
  PROVE  LugarSig
<1>1. ~FinDesalojaUsuario
  BY DEF FinDesalojaUsuario, InvLugares, InvDespacho, SoloUnaVez
<1>2. PaqueteSinExec => Cae
  BY DEF PaqueteSinExec
<1> QED BY <1>1, <1>2, CaeLugar, FinLugar, PideExitLugar, PideIOLugar, EnviaIOLugar,
           MarcaBlockLugar, PideRecursoLugar, EvaluaWaitLugar, SignalLugar, SaleLugar
        DEF Escucha

----------------------------------------------------------------------------
(* The other threads of the kernel, and the CPU.                           *)

\* The token of the scheduler is taken.
LEMMA ReplanificaLugar ==
  ASSUME InvLugares, NEW t \in Hilos, Replanifica(t), UNCHANGED cpuVars
  PROVE  LugarSig
<1>1. /\ pc[t] = "replanifica" /\ pc' = [pc EXCEPT ![t] = "elige"]
      /\ pidDe' = [pidDe EXCEPT ![t] = 0] /\ UNCHANGED lugarVars
      /\ UNCHANGED <<chCpu, desaloja, semEjecutar, script, ejecutadas, cpuPid>>
  BY DEF Replanifica, Sigue, lugarVars, sitioVars, colasVars, recVars, admVars, procVars,
         canales, cpuVars
<1>2. Eligiendo(t)
  BY <1>1 DEF Eligiendo
<1>3. CASE t = "escucha"
  <2>1. Elegir
    BY <1>2, <1>3, DeQuienEsElTurno DEF InvLugares
  <2>2. Len(chCpu) = 0
    BY <2>1, EmptySeq DEF Elegir
  <2>3. pc["escucha"] = "replanifica" /\ pc'["escucha"] = "elige"
    BY <1>1, <1>3, TiposLugares
  <2>4. Mensajes'
    BY <1>1, <2>2, <2>3, QuietoMensajes
  <2>5. Marchan' = Marchan /\ PorMarcar' = PorMarcar /\ EnExec'
    BY <2>3 DEF Marchan, Ocupa, PorMarcar, EnExec, Eligiendo
  <2> QED BY <1>1, <2>4, <2>5, QuietoLugar
<1>4. CASE t # "escucha"
  <2>1. pc'["escucha"] = pc["escucha"] /\ pidDe'["escucha"] = pidDe["escucha"]
    BY <1>1, <1>4, TiposLugares DEF Hilos
  <2> QED BY <1>1, <2>1, QuietoTodo
<1> QED BY <1>3, <1>4

\* The next process is chosen.
LEMMA EligeLugar ==
  ASSUME InvLugares, TypeOK', NEW t \in Hilos, Elige(t), UNCHANGED cpuVars
  PROVE  LugarSig
<1>1. CASE Cae
  BY <1>1, CaeLugar
<1>2. CASE ~Cae
  <2> DEFINE h == Head(colaReady)
  <2>1. /\ colaReady # <<>> /\ colaReady' = Tail(colaReady) /\ colaExec' = <<h>>
        /\ estado' = [estado EXCEPT ![h] = Estado("EXEC", Nada)]
        /\ semEjecutar' = semEjecutar + 1 /\ esPrimer' = SiguePrimero(t)
        /\ pc' = [pc EXCEPT ![t] = Inicio(t)]
        /\ UNCHANGED <<colaNew, colaIO, colaRec, retenidos, contador, desaloja, chCpu,
                       script, ejecutadas, cpuPid>>
    BY <1>2 DEF Elige, Vuelve, Sigue, recVars, canales, cpuVars
  <2>2. Eligiendo(t) /\ pc[t] = "elige"
    BY DEF Elige, Eligiendo
  <2>3. \/ t = "escucha" /\ Elegir /\ ~Eligiendo("nuevos")
        \/ t = "nuevos" /\ Inicial
    BY <2>2, Eligen DEF InvLugares
  <2>4. /\ semEjecutar = 0 /\ chCpu = <<>> /\ PorMarcar = {}
        /\ pc["escucha"] \in {"recibe", "replanifica", "elige"}
        /\ pc'["escucha"] = "recibe" /\ ~esPrimer'
    BY <2>1, <2>3, TiposLugares
       DEF Elegir, Inicial, Eligiendo, PorMarcar, SiguePrimero, Inicio, Hilos
  <2>5. Marchan = {}
    <3>1. CASE Elegir
      BY <3>1 DEF Elegir, Marchan, Ocupa
    <3>2. CASE Inicial
      <4>1. colaExec = <<>>
        BY <3>2 DEF Inicial, InvLugares, Ubicados
      <4> QED BY <4>1 DEF Marchan
    <3> QED BY <2>3, <3>1, <3>2
  <2>6. Colas[EnReady] = colaReady /\ Colas'[EnReady] = colaReady' /\ EnReady \in Esperas
    BY ColasNombres
  <2>7. Ubica(Colas, estado, contador, {}, {})
    BY <2>4, <2>5 DEF InvLugares, Ubicados
  <2>8. /\ h \in Pids /\ estado[h].tipo \notin {"NEW", "EXIT", "NADA"}
        /\ Ubica(Saca(Colas, EnReady), [estado EXCEPT ![h] = Estado("EXEC", Nada)], contador,
                 {h}, {})
    BY <2>1, <2>6, <2>7, TiposLugares, UbicaElige
  <2>9. Colas' = Saca(Colas, EnReady)
    <3>1. \A s \in Esperas : s # EnReady => Colas'[s] = Colas[s]
      BY <2>1, ColasIguales
    <3>2. Colas'[EnReady] = Tail(Colas[EnReady]) /\ Colas[EnReady] # <<>>
      BY <2>1, <2>6
    <3>3. Colas \in Familias /\ Colas' \in Familias
      BY TiposLugares, FamiliaSiguiente
    <3> QED BY <2>6, <3>1, <3>2, <3>3, FamiliaIgual
  <2> HIDE DEF h
  <2>10. Marchan' = {h} /\ PorMarcar' = {}
    <3>1. Ocupa'
      BY <2>1, <2>4 DEF Ocupa, Eligiendo
    <3> QED BY <2>1, <2>4, <2>8, <3>1 DEF Marchan, PorMarcar
  <2>11. estado'[h].tipo = "EXEC" /\ \A p \in Pids : p # h => estado'[p] = estado[p]
    BY <2>1, <2>8, TiposLugares DEF Estado
  <2>12. EnExec' /\ (esPrimer' => colaExec' = <<>>)
    BY <2>1, <2>4, <2>11 DEF EnExec
  <2>13. Ubica(Colas, estado, contador, Marchan, PorMarcar)'
    <3>1. Ubica(Colas', estado', contador', Marchan', PorMarcar')
      BY <2>1, <2>8, <2>9, <2>10
    <3> QED BY <3>1 DEF Ubica
  <2>14. ExitSinRecursos' /\ ExitPaso
    BY <2>1, <2>8, <2>11, ExitQuieto
  <2>15. EsperaAnotada'
    BY <2>1 DEF InvLugares, EsperaAnotada, DePar
  <2>16. Mensajes'
    <3>1. Len(chCpu') = 0
      BY <2>1, <2>4, EmptySeq
    <3> QED BY <2>4, <3>1 DEF Mensajes
  <2> QED BY <2>12, <2>13, <2>14, <2>15, <2>16 DEF LugarSig, Ubicados
<1> QED BY <1>1, <1>2

\* The pcb goes to the CPU.
LEMMA DespachaLugar ==
  ASSUME InvLugares, Despacha, UNCHANGED cpuVars
  PROVE  LugarSig
<1>1. CASE Cae
  BY <1>1, CaeLugar
<1>2. CASE ~Cae
  <2>1. /\ semEjecutar > 0 /\ desaloja' = FALSE
        /\ UNCHANGED lugarVars /\ UNCHANGED <<pc, pidDe, chCpu>>
    BY <1>2 DEF Despacha, lugarVars, sitioVars, hilosVars, colasVars, recVars, admVars, procVars
  <2>2. semEjecutar = 1 /\ chCpu = <<>> /\ pc["escucha"] = "recibe"
    BY <2>1, DeQuienEsElTurno DEF InvLugares, Elegido
  <2>3. Ocupa /\ Ocupa'
    BY <2>1, <2>2 DEF Ocupa, Eligiendo
  <2>4. Marchan' = Marchan /\ PorMarcar' = PorMarcar
    BY <2>1, <2>3 DEF Marchan, PorMarcar, lugarVars, sitioVars
  <2>5. EnExec'
    BY <2>1, <2>2 DEF InvLugares, Ubicados, EnExec, Eligiendo, lugarVars, sitioVars
  <2>6. Mensajes'
    <3>1. Len(chCpu') = 0
      BY <2>1, <2>2, EmptySeq
    <3> QED BY <2>1, <2>2, <3>1 DEF Mensajes
  <2> QED BY <2>1, <2>4, <2>5, <2>6, QuietoLugar
<1> QED BY <1>1, <1>2

\* INICIAR_PROCESO: a process more.
LEMMA IniciarProcesoLugar ==
  ASSUME InvLugares, TypeOK', NEW g \in Scripts, IniciarProceso(g), UNCHANGED cpuVars
  PROVE  LugarSig
<1> DEFINE n == contador
<1>1. /\ n <= MaxPid /\ colaNew' = Append(colaNew, n)
      /\ estado' = [estado EXCEPT ![n] = Estado("NEW", Nada)]
      /\ script' = [script EXCEPT ![n] = g] /\ contador' = n + 1
      /\ UNCHANGED <<pc, pidDe, colaReady, colaExec, colaIO, colaRec, retenidos, semEjecutar,
                     esPrimer, desaloja, chCpu, ejecutadas, cpuPid>>
  BY DEF IniciarProceso, hilosVars, recVars, planVars, cpuVars
<1>2. n \in Pids
  <2>1. n \in Int /\ n >= 1 /\ n <= MaxPid
    BY <1>1, TiposLugares
  <2> QED BY <2>1, MaxPidAssumption DEF Pids
<1> HIDE DEF n
<1>3. Marchan' = Marchan /\ PorMarcar' = PorMarcar
  BY <1>1 DEF Marchan, Ocupa, PorMarcar, Eligiendo
<1>4. Ubica(Colas, estado, n, Marchan, PorMarcar)
  BY DEF InvLugares, Ubicados, n
<1>5. /\ n \in Int /\ n >= n
      /\ \A p \in Pids : p # n => p < n + 1 <=> p < n
  BY <1>2 DEF Pids
<1>6. estado[n].tipo = "NADA" /\ n \notin Marchan
  BY <1>2, <1>4, <1>5 DEF Ubica
<1>7. estado'[n].tipo = "NEW" /\ \A p \in Pids : p # n => estado'[p] = estado[p]
  BY <1>1, <1>2, TiposLugares DEF Estado
<1>8. ExitSinRecursos' /\ ExitPaso
  <2>1. \A p \in Pids : p # n => /\ estado'[p] = estado[p]
                                 /\ p < contador' <=> p < contador
    BY <1>1, <1>5, <1>7 DEF n
  <2>2. estado'[n].tipo # "EXIT" /\ estado[n].tipo # "EXIT"
    BY <1>6, <1>7
  <2> QED BY <1>1, <1>2, <2>1, <2>2, ExitQuieto
<1>9. Colas' = Pone(Colas, EnNew, n)
  <2>1. /\ Colas[EnNew] = colaNew /\ Colas'[EnNew] = colaNew' /\ EnNew \in Esperas
    BY ColasNombres
  <2>2. \A t \in Esperas : t # EnNew => Colas'[t] = Colas[t]
    BY <1>1, ColasIguales
  <2>3. Colas'[EnNew] = Append(Colas[EnNew], n)
    BY <1>1, <2>1
  <2>4. Colas \in Familias /\ Colas' \in Familias
    BY TiposLugares, FamiliaSiguiente
  <2> QED BY <1>2, <2>1, <2>2, <2>3, <2>4, FamiliaIgual
<1>10. Ubica(Colas, estado, contador, Marchan, PorMarcar)'
  <2>1. Ubica(Pone(Colas, EnNew, n), [estado EXCEPT ![n] = Estado("NEW", Nada)], n + 1,
              Marchan, PorMarcar)
    BY <1>2, <1>4, TiposLugares, UbicaCrea
  <2>2. Ubica(Colas', estado', contador', Marchan', PorMarcar')
    BY <1>1, <1>3, <1>9, <2>1
  <2> QED BY <2>2 DEF Ubica
<1>11. EnExec'
  <2> SUFFICES ASSUME NEW p \in Pids, colaExec' = <<p>>, ~Eligiendo("escucha")',
                      semEjecutar' = 1 \/ ~desaloja'
               PROVE  estado'[p].tipo = "EXEC"
    BY DEF EnExec
  <2>1. colaExec = <<p>> /\ ~Eligiendo("escucha") /\ (semEjecutar = 1 \/ ~desaloja)
    BY <1>1 DEF Eligiendo
  <2>2. estado[p].tipo = "EXEC" /\ p \in Marchan
    BY <2>1 DEF InvLugares, Ubicados, EnExec, Marchan, Ocupa
  <2> QED BY <1>6, <1>7, <2>2
<1>12. Mensajes'
  <2>1. ASSUME Len(chCpu) > 1, Denegado(cpuPid)
        PROVE  Denegado(cpuPid)'
    <3>1. chCpu # <<>>
      BY <2>1, EmptySeq
    <3>2. Respondiendo
      BY <3>1, DeQuienEsElTurno DEF InvLugares
    <3>3. ~Eligiendo("escucha") /\ cpuPid \in Pids /\ colaExec = <<cpuPid>>
      BY <3>2, TiposDespacho DEF InvLugares, Respondiendo, Eligiendo, Atiende
    <3>4. cpuPid \in Marchan
      BY <2>1, <3>3 DEF Marchan, Ocupa
    <3>5. script'[cpuPid] = script[cpuPid]
      <4>1. script \in [Pids -> Scripts \cup {<<>>}]
        BY DEF InvLugares, InvDespacho, InvSemaforos, TypeOK, CanalesTypeOK
      <4> QED BY <1>1, <1>6, <3>3, <3>4, <4>1
    <3> QED BY <1>1, <2>1, <3>5 DEF Denegado
  <2> QED BY <1>1, <2>1, QuietoMensajes
<1>13. EsperaAnotada' /\ (esPrimer' => colaExec' = <<>>)
  BY <1>1 DEF InvLugares, Ubicados, EsperaAnotada, DePar
<1> QED BY <1>8, <1>10, <1>11, <1>12, <1>13 DEF LugarSig, Ubicados

\* The console, which is not given FINALIZAR_PROCESO.
LEMMA ConsolaLugar ==
  ASSUME "FINALIZAR_PROCESO" \notin Comandos, InvLugares, TypeOK', Consola, UNCHANGED cpuVars
  PROVE  LugarSig
<1> DEFINE Quieta == /\ UNCHANGED lugarVars
                     /\ UNCHANGED <<chCpu, desaloja, semEjecutar, script, ejecutadas, cpuPid>>
                     /\ pc'["escucha"] = pc["escucha"] /\ pidDe'["escucha"] = pidDe["escucha"]
<1>1. Quieta => LugarSig
  BY QuietoTodo
<1> USE DEF Sigue, Vuelve, Inicio, hilosVars, colasVars, recVars, planVars, admVars, procVars,
            Hilos, canales, cpuVars, lugarVars, sitioVars
<1>2. CASE IniciarPlanificacion
  BY <1>1, <1>2 DEF IniciarPlanificacion
<1>3. CASE DetenerPlanificacion
  BY <1>1, <1>3, TiposLugares DEF DetenerPlanificacion
<1>4. CASE Detiene
  BY <1>1, <1>4, TiposLugares DEF Detiene
<1>5. CASE \E n \in Grados : SubeGrado(n)
  BY <1>1, <1>5 DEF SubeGrado
<1>6. CASE \E n \in Grados : BajaGrado(n)
  BY <1>1, <1>6, TiposLugares DEF BajaGrado
<1>7. CASE RestaGrado
  BY <1>1, <1>7, TiposLugares DEF RestaGrado
<1>8. CASE ProcesoEstado
  BY <1>1, <1>8 DEF ProcesoEstado, kernelVars
<1>9. ~PideDesalojo /\ ~EsperaUsuario /\ ~SumaInstancia /\ ~SaleConsola
  BY DEF PideDesalojo, EsperaUsuario, SumaInstancia, SaleConsola, InvLugares, InvDespacho,
         InvSemaforos, SinFinalizar
<1>10. ASSUME NEW p \in Pids
       PROVE  /\ ~FinalizaNew(p) /\ ~FinalizaReady(p) /\ ~FinalizaExec(p)
              /\ ~FinalizaIO(p) /\ ~FinalizaRecurso(p) /\ ~FinalizaPerdido(p)
  BY DEF FinalizaNew, FinalizaReady, FinalizaExec, FinalizaIO, FinalizaRecurso,
         FinalizaPerdido, Finaliza, Acepta, Lee
<1> QED BY <1>2, <1>3, <1>4, <1>5, <1>6, <1>7, <1>8, <1>9, <1>10, IniciarProcesoLugar DEF Consola

\* Every step of the kernel.
LEMMA KernelLugar ==
  ASSUME "FINALIZAR_PROCESO" \notin Comandos, InvLugares, TypeOK', KernelNext, UNCHANGED cpuVars
  PROVE  LugarSig
<1>1. CASE EsperaNew
  <2>1. /\ UNCHANGED lugarVars
        /\ UNCHANGED <<chCpu, desaloja, semEjecutar, script, ejecutadas, cpuPid>>
        /\ pc'["escucha"] = pc["escucha"] /\ pidDe'["escucha"] = pidDe["escucha"]
    BY <1>1, TiposLugares DEF EsperaNew, Sigue, lugarVars, sitioVars, colasVars, recVars,
       planVars, procVars, canales, cpuVars, Hilos
  <2> QED BY <2>1, QuietoTodo
<1>2. CASE Admite \/ Despacha \/ Escucha \/ Consola
  BY <1>2, AdmiteLugar, DespachaLugar, EscuchaLugar, ConsolaLugar
<1>3. ASSUME NEW t \in Hilos, Hilo(t)
      PROVE  LugarSig
  <2>1. CASE Replanifica(t) \/ Elige(t)
    BY <2>1, ReplanificaLugar, EligeLugar
  <2>2. CASE Libera(t) \/ LiberaEvalua(t)
    <3>1. t = "escucha"
      BY <2>2 DEF Libera, LiberaEvalua, Hilos, InvLugares, InvDespacho, InvSemaforos,
                  SinFinalizar
    <3> QED BY <2>2, <3>1, SignalLugar
  <2> QED BY <1>3, <2>1, <2>2 DEF Hilo
<1> QED BY <1>1, <1>2, <1>3, FinIOLugar DEF KernelNext, Nuevos

\* How many packets an instruction sends before FIN_INSTRUCCION.
LEMMA LargoAvisos ==
  ASSUME NEW ins \in Instrucciones, NEW p \in Pids, NEW c \in Nat
  PROVE  LET s == Avisos(ins, p, c) \o <<FinInstruccion(p, c)>>
         IN  /\ Len(s) \in 1..3
             /\ Len(s) = 3 => /\ ins.op = "IO_DENEGADA"
                              /\ s[1].motivo = "ERROR" /\ s[2].motivo = "IO"
<1> DEFINE aviso(m) == [motivo |-> m, pid |-> p, pc |-> c, arg |-> ins.arg]
           fin == FinInstruccion(p, c)
<1>1. \A m : aviso(m).motivo = m
  OBVIOUS
<1>2. ins.op \in {"COMPUTO", "IO", "WAIT", "SIGNAL", "FALLA", "IO_DENEGADA", "EXIT"}
  BY DEF Instrucciones, Operaciones
<1> HIDE DEF fin
<1>3. ASSUME NEW a, NEW b, NEW f
      PROVE  /\ Len(<<>> \o <<f>>) = 1 /\ Len(<<a>> \o <<f>>) = 2
             /\ Len(<<a, b>> \o <<f>>) = 3
             /\ (<<a, b>> \o <<f>>)[1] = a /\ (<<a, b>> \o <<f>>)[2] = b
  OBVIOUS
<1>4. CASE ins.op = "COMPUTO"
  <2>1. Avisos(ins, p, c) = <<>>
    BY <1>4 DEF Avisos
  <2> QED BY <1>3, <2>1 DEF fin
<1>5. CASE ins.op = "IO_DENEGADA"
  <2>1. Avisos(ins, p, c) = <<aviso("ERROR"), aviso("IO")>>
    BY <1>5 DEF Avisos
  <2> HIDE DEF aviso
  <2>2. PICK a, b : Avisos(ins, p, c) = <<a, b>> /\ a.motivo = "ERROR" /\ b.motivo = "IO"
    BY <1>1, <2>1
  <2> QED BY <1>3, <1>5, <2>2 DEF fin
<1>6. CASE ins.op \in {"FALLA", "IO", "WAIT", "SIGNAL", "EXIT"}
  <2>1. \E m : Avisos(ins, p, c) = <<aviso(m)>>
    BY <1>6 DEF Avisos
  <2> HIDE DEF aviso
  <2>2. PICK a : Avisos(ins, p, c) = <<a>>
    BY <2>1
  <2> QED BY <1>3, <2>2 DEF fin
<1> QED BY <1>2, <1>4, <1>5, <1>6

\* An instruction is executed.
LEMMA InstruccionLugar ==
  ASSUME InvLugares, CpuInstruccion, UNCHANGED kernelVars
  PROVE  LugarSig
<1> DEFINE ins == script[cpuPid][cpuPC + 1]
           s == Avisos(ins, cpuPid, cpuPC + 1) \o <<FinInstruccion(cpuPid, cpuPC + 1)>>
<1>1. /\ cpuFase = "ejecuta" /\ cpuPC < Len(script[cpuPid]) /\ cpuPC' = cpuPC + 1
      /\ ejecutadas' = [ejecutadas EXCEPT ![cpuPid] = @ + 1]
      /\ UNCHANGED <<cpuPid, script>>
      /\ UNCHANGED lugarVars /\ UNCHANGED <<pc, pidDe, semEjecutar, desaloja>>
  BY DEF CpuInstruccion, kernelVars, hilosVars, colasVars, recVars, planVars, procVars,
         admVars, lugarVars, sitioVars
<1>2. Ejecutando /\ cpuPid \in Pids /\ cpuPC \in Nat /\ cpuPC + 1 \in Nat
  BY <1>1, DeQuienEsElTurno, TiposDespacho DEF InvLugares
<1>3. ins \in Instrucciones
  <2>1. script[cpuPid] \in Seq(Instrucciones)
    <3>1. script[cpuPid] \in Scripts \cup {<<>>}
      BY <1>2 DEF InvLugares, InvDespacho, InvSemaforos, TypeOK, CanalesTypeOK
    <3> QED BY <3>1, ScriptsAssumption, EmptySeq
  <2>2. cpuPC + 1 \in 1..Len(script[cpuPid])
    BY <1>1, <1>2, <2>1
  <2> QED BY <2>1, <2>2
<1>4. /\ Len(s) \in 1..3
      /\ Len(s) = 3 => ins.op = "IO_DENEGADA" /\ s[1].motivo = "ERROR" /\ s[2].motivo = "IO"
  BY <1>2, <1>3, LargoAvisos
<1>5. chCpu' = s
  <2>1. Avisos(ins, cpuPid, cpuPC + 1) \in Seq(MensajesCpu)
    BY <1>2, <1>3, AvisosOK
  <2> QED BY <1>2, <2>1, ConcatEmptySeq DEF CpuInstruccion, Ejecutando
<1>6. ins.op = "IO_DENEGADA" => Denegado(cpuPid)'
  <2>1. ejecutadas'[cpuPid] = cpuPC + 1
    BY <1>1, <1>2, TiposDespacho DEF Ejecutando, InvLugares
  <2> QED BY <1>1, <1>2, <2>1 DEF Denegado
<1> HIDE DEF s, ins
<1>7. ~desaloja /\ pc["escucha"] = "recibe"
  BY <1>2 DEF Ejecutando
<1>8. Mensajes'
  <2>1. Len(chCpu') \in 1..3
    BY <1>4, <1>5
  <2>2. \A n \in 1..3 : n <= 3
    OBVIOUS
  <2>3. Len(chCpu') <= 3
    BY <2>1, <2>2
  <2> QED BY <1>1, <1>4, <1>5, <1>6, <1>7, <2>3 DEF Mensajes
<1>9. Marchan' = Marchan /\ PorMarcar' = PorMarcar
  <2>1. Ocupa /\ Ocupa'
    BY <1>1, <1>7 DEF Ocupa, Eligiendo
  <2> QED BY <1>1, <2>1 DEF Marchan, PorMarcar, lugarVars, sitioVars
<1>10. EnExec'
  BY <1>1, <1>7 DEF InvLugares, Ubicados, EnExec, Eligiendo, lugarVars, sitioVars
<1> QED BY <1>1, <1>8, <1>9, <1>10, QuietoLugar

----------------------------------------------------------------------------
(* The inductive invariant.                                                *)

LEMMA LugaresInit == Init => InvLugares
<1> SUFFICES ASSUME Init PROVE InvLugares
  OBVIOUS
<1>1. /\ pc = [t \in Hilos |-> Inicio(t)] /\ colaExec = <<>> /\ chCpu = <<>>
      /\ colaNew = <<>> /\ colaReady = <<>>
      /\ colaIO = [i \in Interfaces |-> <<>>] /\ colaRec = [r \in Recursos |-> <<>>]
      /\ estado = [p \in Pids |-> Estado("NADA", Nada)] /\ contador = 1 /\ retenidos = {}
  BY DEF Init, KernelInit, CanalesInit
<1>2. pc["escucha"] = "recibe"
  BY <1>1 DEF Inicio, Hilos
<1>3. Marchan = {} /\ PorMarcar = {}
  BY <1>1, <1>2 DEF Marchan, PorMarcar
<1>4. \A t \in Esperas : Colas[t] = <<>>
  <2>1. \A i \in Interfaces : colaIO[i] = <<>>
    BY <1>1
  <2>2. \A r \in Recursos : colaRec[r] = <<>>
    BY <1>1
  <2> QED BY <1>1, <2>1, <2>2, ColasNombres DEF Esperas
<1>5. DOMAIN Colas = Esperas
  BY DEF Colas, ColasDe
<1>6. /\ \A t \in Esperas : \A p : ~Esta(Colas[t], p)
      /\ \A t \in Esperas : SinRepetidos(Colas[t])
  BY <1>4 DEF Esta, SinRepetidos
<1>7. Unico(Colas)
  BY <1>5, <1>6 DEF Unico
<1>8. \A p \in Pids : ~(p < 1) /\ estado[p].tipo = "NADA"
  BY <1>1 DEF Pids, Estado
<1>9. Ubica(Colas, estado, contador, {}, {})
  BY <1>1, <1>6, <1>7, <1>8 DEF Ubica
<1>10. Ubicados
  BY <1>1, <1>3, <1>9 DEF Ubicados, EnExec
<1>11. Mensajes
  BY <1>1, <1>2 DEF Mensajes
<1>12. EsperaAnotada /\ ExitSinRecursos
  BY <1>1 DEF EsperaAnotada, ExitSinRecursos, DeProceso
<1>13. InvDespacho /\ InvColas
  BY DespachoInit, EsperaInit, SemaforosInit DEF InvColas
<1> QED BY <1>10, <1>11, <1>12, <1>13 DEF InvLugares

LEMMA LugaresSiguiente ==
  ASSUME "FINALIZAR_PROCESO" \notin Comandos, InvLugares, [Next]_vars
  PROVE  InvLugares' /\ ExitPaso
<1>1. InvDespacho' /\ InvColas'
  BY DespachoNext, ColasNext DEF InvLugares
<1>2. TypeOK'
  BY <1>1 DEF InvDespacho, InvSemaforos
<1>3. LugarSig
  <2>1. CASE KernelNext /\ UNCHANGED cpuVars
    BY <1>2, <2>1, KernelLugar
  <2>2. CASE CpuInstruccion /\ UNCHANGED kernelVars
    BY <2>2, InstruccionLugar
  <2>3. CASE \/ (CpuNext /\ ~CpuInstruccion /\ UNCHANGED kernelVars)
             \/ (\E i \in Interfaces : Interfaz(i))
             \/ UNCHANGED vars
    BY <2>3, RestoLugar
  <2> QED BY <2>1, <2>2, <2>3 DEF Next, Caido
<1> QED BY <1>1, <1>3 DEF LugarSig, InvLugares

LEMMA LugaresNext ==
  ASSUME "FINALIZAR_PROCESO" \notin Comandos
  PROVE  InvLugares /\ [Next]_vars => InvLugares'
BY LugaresSiguiente

----------------------------------------------------------------------------

\* A process is in lista_recursos_retenidos while it waits for a resource, so that the
\* signal that wakes it up gives it the instance without recording it (kernel.c:1490).
THEOREM EsperaAnotadaSiempre ==
  ASSUME "FINALIZAR_PROCESO" \notin Comandos
  PROVE  Spec => []EsperaAnotada
<1>1. InvLugares => EsperaAnotada
  BY DEF InvLugares
<1> QED BY <1>1, LugaresInit, LugaresNext, PTL DEF Spec

\* A finished process holds nothing, not even one whose second packet, after a denied
\* I/O, is still to be attended to: exit_prima released all and nothing recorded more.
THEOREM ExitSinRecursosSiempre ==
  ASSUME "FINALIZAR_PROCESO" \notin Comandos
  PROVE  Spec => []ExitSinRecursos
<1>1. InvLugares => ExitSinRecursos
  BY DEF InvLugares
<1> QED BY <1>1, LugaresInit, LugaresNext, PTL DEF Spec

\* EXIT is final: no thread, whatever it has read of a process before, brings it back
\* once finished, save the second request of a denied I/O (cpu.c:653-672).
THEOREM ExitFinalSiempre ==
  ASSUME "FINALIZAR_PROCESO" \notin Comandos
  PROVE  Spec => ExitFinal
<1>1. InvLugares /\ [Next]_vars
        => [\A p \in Pids : estado[p].tipo = "EXIT" /\ ~Denegado(p)
                              => estado'[p].tipo = "EXIT"]_vars
  BY LugaresSiguiente DEF ExitPaso
<1> QED BY <1>1, LugaresInit, LugaresNext, PTL DEF Spec, ExitFinal
----------------------------------------------------------------------------
(***************************************************************************)
(* The degree of multiprogramming.  No script asks for an I/O on an        *)
(* address that is not mapped: after one the CPU sends two packets about   *)
(* the same process, which is first ended and then blocked, so that it     *)
(* gives back its slot twice.  A step then changes the state of at most    *)
(* one process, and takes or gives a slot only when that process enters    *)
(* or leaves; each process that was created is in one place.               *)
(***************************************************************************)

\* A process in this state holds a slot of the degree.
Viva(e) == e.tipo \notin {"NADA", "NEW", "EXIT"}

Vivas(est) == {p \in Pids : Viva(est[p])}

\* No I/O is denied.
SinDenegar == \A s \in Scripts : \A k \in 1..Len(s) : s[k].op # "IO_DENEGADA"

\* No process has executed what is not in its script.
Ejecutado ==
    \A p \in Pids :
        /\ ejecutadas[p] <= Len(script[p])
        /\ p >= contador => script[p] = <<>>

\* The process that escucha is ending has not ended.
Saliente ==
    pc["escucha"] \in {"libera", "liberaEvalua"} => estado[pidDe["escucha"]].tipo # "EXIT"

\* cola_exit has the processes that ended, each of them once.
ExitOK ==
    /\ SinRepetidos(colaExit)
    /\ \A p \in Pids : Esta(colaExit, p) <=> estado[p].tipo = "EXIT"

InvGrado == InvLugares /\ Ejecutado /\ Saliente /\ ExitOK /\ GradoConservado

----------------------------------------------------------------------------
(* What a step does to the states of the processes.                        *)

\* d slots are given back.
Devuelve(d) == semMulti' + ajusteGrado = semMulti + ajusteGrado' + d

Pasa(x, v) == estado' = [estado EXCEPT ![x] = v]

NoMueve == UNCHANGED <<estado, contador, colaExit>> /\ Devuelve(0)

\* A process that has a slot keeps it,
Mueve ==
    /\ UNCHANGED <<contador, colaExit>> /\ Devuelve(0)
    /\ \E x \in Pids : \E v \in Estados : Viva(estado[x]) /\ Viva(v) /\ Pasa(x, v)

\* one is admitted,
Entra ==
    /\ UNCHANGED <<contador, colaExit>> /\ Devuelve(-1)
    /\ \E x \in Pids : estado[x].tipo = "NEW" /\ Pasa(x, Estado("READY", Nada))

\* one ends,
Termina ==
    /\ UNCHANGED contador /\ Devuelve(1)
    /\ pc'["escucha"] = "recibe"
    /\ \E x \in Pids : /\ Viva(estado[x]) /\ Pasa(x, Estado("EXIT", Nada))
                       /\ colaExit' = Append(colaExit, x)

\* or one is created.
Crea ==
    /\ UNCHANGED colaExit /\ Devuelve(0)
    /\ contador \in Pids /\ contador' = contador + 1
    /\ estado[contador].tipo = "NADA" /\ Pasa(contador, Estado("NEW", Nada))

Movimiento == NoMueve \/ Mueve \/ Entra \/ Termina \/ Crea

LEMMA TiposGrado ==
  ASSUME InvLugares
  PROVE  /\ semMulti \in Nat /\ ajusteGrado \in Int
         /\ estado \in [Pids -> Estados] /\ contador \in Int
         /\ colaExit \in Seq(Pids) /\ script \in [Pids -> Scripts \cup {<<>>}]
<1>1. KernelTypeOK /\ CanalesTypeOK
  BY DEF InvLugares, InvDespacho, InvSemaforos, TypeOK
<1> QED BY <1>1, TiposLugares DEF KernelTypeOK, SemaforosOK, BanderasOK, ColasOK, CanalesTypeOK

LEMMA QuietoMueve ==
  ASSUME InvLugares, UNCHANGED <<estado, contador, colaExit, semMulti, ajusteGrado>>
  PROVE  Movimiento
BY TiposGrado DEF Movimiento, NoMueve, Devuelve

LEMMA VivaMueve ==
  ASSUME InvLugares, UNCHANGED <<contador, colaExit, semMulti, ajusteGrado>>,
         NEW x \in Pids, NEW v \in Estados, Viva(estado[x]), Viva(v), Pasa(x, v)
  PROVE  Movimiento
BY TiposGrado DEF Movimiento, Mueve, Devuelve

\* A process that waits in a queue of the family has a slot, unless it is new.
LEMMA CabezaViva ==
  ASSUME InvLugares, NEW s \in Esperas, Colas[s] # <<>>
  PROVE  /\ Head(Colas[s]) \in Pids
         /\ s # EnNew => Viva(estado[Head(Colas[s])])
         /\ s = EnNew => estado[Head(Colas[s])].tipo = "NEW"
<1>1. Colas \in Familias /\ Ubica(Colas, estado, contador, Marchan, PorMarcar)
  BY TiposLugares DEF InvLugares, Ubicados
<1>2. Colas[s] \in Seq(Pids)
  BY <1>1 DEF Familias
<1>3. Head(Colas[s]) \in Pids /\ Esta(Colas[s], Head(Colas[s]))
  BY <1>2, CabezaEsta
<1> QED BY <1>1, <1>3 DEF Ubica, Viva

\* iniciar of the head of a queue.
LEMMA IniciarMueve ==
  ASSUME InvLugares, UNCHANGED <<contador, colaExit, semMulti, ajusteGrado>>,
         NEW s \in Esperas \ {EnNew}, Colas[s] # <<>>, Iniciar(Head(Colas[s]))
  PROVE  Movimiento
<1>1. Estado("READY", Nada) \in Estados /\ Viva(Estado("READY", Nada))
  BY DEF Estado, Estados, Tipos, Viva
<1>2. Head(Colas[s]) \in Pids /\ Viva(estado[Head(Colas[s])])
  BY CabezaViva
<1> QED BY <1>1, <1>2, VivaMueve DEF Iniciar, Pasa

----------------------------------------------------------------------------
(* The steps of the kernel.                                                *)

LEMMA NadieDenegado ==
  ASSUME SinDenegar, InvLugares, Ejecutado
  PROVE  \A p \in Pids : ~Denegado(p)
<1> SUFFICES ASSUME NEW p \in Pids, ejecutadas[p] > 0
             PROVE  script[p][ejecutadas[p]].op # "IO_DENEGADA"
  BY DEF Denegado
<1>1. ejecutadas[p] \in Nat /\ ejecutadas[p] <= Len(script[p])
  BY TiposDespacho DEF InvLugares, Ejecutado
<1>2. script[p] \in Scripts \cup {<<>>}
  BY TiposGrado
<1>3. script[p] # <<>>
  BY <1>1, EmptySeq
<1>4. script[p] \in Scripts /\ Len(script[p]) \in Nat
  BY <1>2, <1>3, ScriptsAssumption, LenProperties
<1>5. ejecutadas[p] \in 1..Len(script[p])
  BY <1>1, <1>4
<1> QED BY <1>4, <1>5 DEF SinDenegar

\* A packet comes from a process that has the CPU and its slot.
LEMMA CargaViva ==
  ASSUME SinDenegar, InvLugares, Ejecutado,
         NEW motivos, Llega(motivos), "FIN" \notin motivos, CargaPcb(Head(chCpu))
  PROVE  /\ Head(chCpu).pid = cpuPid /\ cpuPid \in Pids /\ estado[cpuPid].tipo = "EXEC"
         /\ Viva(estado[cpuPid]) /\ ~desaloja /\ Len(chCpu) = 2
<1>1. /\ Head(chCpu).pid = cpuPid /\ cpuPid \in Pids /\ Len(chCpu) \in 2..3
      /\ Len(chCpu) = 3 => Denegado(cpuPid)
      /\ Len(chCpu) = 2 /\ desaloja => Denegado(cpuPid)
      /\ ~desaloja => estado[cpuPid].tipo = "EXEC"
  BY CargaLugar
<1>2. ~Denegado(cpuPid)
  BY <1>1, NadieDenegado
<1>3. Len(chCpu) = 2 /\ ~desaloja
  BY <1>1, <1>2
<1> QED BY <1>1, <1>3 DEF Viva

LEMMA PideIOMueve ==
  ASSUME SinDenegar, InvLugares, Ejecutado, PideIO
  PROVE  Movimiento
<1>1. /\ Llega({"IO"}) /\ "FIN" \notin {"IO"} /\ CargaPcb(Head(chCpu))
      /\ UNCHANGED <<contador, colaExit, semMulti, ajusteGrado>>
  BY DEF PideIO, admVars, usrVars
<1>2. Head(chCpu).pid = cpuPid /\ cpuPid \in Pids /\ Viva(estado[cpuPid])
  BY <1>1, CargaViva
<1>3. Estado("BLOCK", Nada) \in Estados /\ Viva(Estado("BLOCK", Nada))
  BY DEF Estado, Estados, Tipos, Viva
<1>4. Pasa(cpuPid, Estado("BLOCK", Nada))
  BY <1>2 DEF PideIO, Pasa
<1> QED BY <1>1, <1>2, <1>3, <1>4, VivaMueve

LEMMA MarcaBlockMueve ==
  ASSUME InvLugares, MarcaBlock
  PROVE  Movimiento
<1> DEFINE x == pidDe["escucha"]
           v == Estado("BLOCK - IO", argDe["escucha"])
<1>1. pc["escucha"] = "marcaBlock" /\ UNCHANGED <<contador, colaExit, semMulti, ajusteGrado>>
  BY DEF MarcaBlock, colasVars, admVars, usrVars
<1>2. argDe["escucha"] \in Interfaces /\ x \in PorMarcar
  BY <1>1, TiposLugares DEF ConPid, ConInterfaz, PorMarcar
<1>3. x \in Pids /\ Viva(estado[x])
  BY <1>2, TiposLugares DEF InvLugares, Ubicados, Ubica, Viva
<1>4. v \in Estados /\ Viva(v)
  BY <1>2 DEF Estado, Estados, Viva
<1>5. Pasa(x, v)
  BY DEF MarcaBlock, Pasa
<1> QED BY <1>1, <1>3, <1>4, <1>5, VivaMueve

LEMMA EvaluaWaitMueve ==
  ASSUME InvLugares, EvaluaWait
  PROVE  Movimiento
<1> DEFINE x == pidDe["escucha"]
           v == Estado("BLOCK - RECURSO", argDe["escucha"])
<1>1. pc["escucha"] = "waitEvalua" /\ UNCHANGED <<contador, colaExit, semMulti, ajusteGrado>>
  BY DEF EvaluaWait, admVars, usrVars
<1>2. x \in Pids /\ colaExec = <<x>> /\ ~Eligiendo("escucha") /\ argDe["escucha"] \in Recursos
  BY <1>1, AtendidoMarcha, TiposLugares DEF ConPid, ConRecurso
<1>3. ~desaloja
  BY <1>1 DEF InvLugares, Mensajes
<1>4. Viva(estado[x])
  BY <1>2, <1>3 DEF InvLugares, Ubicados, EnExec, Viva
<1>5. v \in Estados /\ Viva(v)
  BY <1>2 DEF Estado, Estados, Viva
<1>6. Pasa(x, v) \/ estado' = estado
  BY DEF EvaluaWait, Pasa
<1> QED BY <1>1, <1>2, <1>4, <1>5, <1>6, VivaMueve, QuietoMueve

LEMMA SignalMueve ==
  ASSUME InvLugares, NEW p, NEW r \in Recursos, EvaluaSignal(p, r), ~SignalNula(p, r)
  PROVE  Movimiento
<1>1. UNCHANGED <<contador, colaExit, semMulti, ajusteGrado>>
  BY DEF EvaluaSignal, admVars, usrVars
<1>2. CASE SeDesbloquea(r)
  <2>1. colaRec[r] # <<>> /\ Iniciar(Head(colaRec[r]))
    BY <1>2 DEF EvaluaSignal, SignalNula
  <2>2. Colas[EnRec(r)] = colaRec[r] /\ EnRec(r) \in Esperas \ {EnNew}
    BY ColasNombres
  <2> QED BY <1>1, <2>1, <2>2, IniciarMueve
<1>3. CASE ~SeDesbloquea(r)
  BY <1>1, <1>3, QuietoMueve DEF EvaluaSignal
<1> QED BY <1>2, <1>3

LEMMA CaeMueve ==
  ASSUME InvLugares, Cae
  PROVE  Movimiento
BY QuietoMueve DEF Cae, colasVars, admVars, usrVars, procVars

LEMMA SaleMueve ==
  ASSUME InvLugares, Saliente, SaleEscucha
  PROVE  Movimiento
<1> DEFINE x == pidDe["escucha"]
<1>1. /\ pc["escucha"] = "libera" /\ pc'["escucha"] = "recibe"
      /\ UNCHANGED <<contador, ajusteGrado>> /\ semMulti' = semMulti + 1
      /\ colaExit' = Append(colaExit, x) /\ Pasa(x, Estado("EXIT", Nada))
  BY TiposLugares DEF SaleEscucha, Sale, Vuelve, Sigue, Inicio, Hilos, usrVars, Pasa
<1>2. x \in Marchan
  BY <1>1, AtendidoMarcha
<1>3. x \in Pids /\ estado[x].tipo \notin {"NEW", "NADA"}
  BY <1>2, TiposLugares DEF InvLugares, Ubicados, Ubica
<1>4. Viva(estado[x])
  BY <1>1, <1>3 DEF Saliente, Viva
<1>5. Devuelve(1)
  BY <1>1, TiposGrado DEF Devuelve
<1> QED BY <1>1, <1>3, <1>4, <1>5 DEF Movimiento, Termina

LEMMA EscuchaMueve ==
  ASSUME SinDenegar, "FINALIZAR_PROCESO" \notin Comandos, InvLugares, Ejecutado, Saliente, Escucha
  PROVE  Movimiento
<1> USE DEF colasVars, admVars, usrVars, procVars
<1>1. CASE FinDesaloja \/ FinContinua
  BY <1>1, QuietoMueve DEF FinDesaloja, FinContinua
<1>2. ~FinDesalojaUsuario
  BY DEF FinDesalojaUsuario, InvLugares, InvDespacho, SoloUnaVez
<1>3. CASE Cae
  BY <1>3, CaeMueve
<1>4. CASE PideDesconocido /\ ~Cae
  BY <1>4, QuietoMueve DEF PideDesconocido
<1>5. CASE EnviaIO \/ PideWait \/ PideSignal \/ PideExit
  BY <1>5, QuietoMueve DEF EnviaIO, PideWait, PideSignal, PideExit
<1>6. CASE Signal /\ ~Cae
  <2>1. /\ EvaluaSignal(pidDe["escucha"], argDe["escucha"])
        /\ ~SignalNula(pidDe["escucha"], argDe["escucha"])
        /\ pc["escucha"] = "signalEvalua"
    BY <1>6 DEF Signal
  <2>2. argDe["escucha"] \in Recursos
    BY <2>1, TiposLugares DEF ConPid, ConRecurso
  <2> QED BY <2>1, <2>2, SignalMueve
<1>7. PaqueteSinExec => Cae
  BY DEF PaqueteSinExec
<1> QED BY <1>1, <1>2, <1>3, <1>4, <1>5, <1>6, <1>7, PideIOMueve, MarcaBlockMueve,
           EvaluaWaitMueve, SaleMueve DEF Escucha

\* replanificar, and the releases of exit_prima.
LEMMA HiloMueve ==
  ASSUME InvLugares, NEW t \in Hilos, Hilo(t)
  PROVE  Movimiento
<1> USE DEF colasVars, admVars, usrVars, procVars
<1>1. CASE Replanifica(t) \/ Libera(t)
  BY <1>1, QuietoMueve DEF Replanifica, Libera
<1>2. CASE Cae
  BY <1>2, CaeMueve
<1>3. CASE Elige(t) /\ ~Cae
  <2>1. /\ colaReady # <<>> /\ Pasa(Head(colaReady), Estado("EXEC", Nada))
        /\ UNCHANGED <<contador, colaExit, semMulti, ajusteGrado>>
    BY <1>3 DEF Elige, Pasa
  <2>2. Colas[EnReady] = colaReady /\ EnReady \in Esperas /\ EnReady # EnNew
    BY ColasNombres DEF EnReady, EnNew
  <2>3. Head(colaReady) \in Pids /\ Viva(estado[Head(colaReady)])
    BY <2>1, <2>2, CabezaViva
  <2>4. Estado("EXEC", Nada) \in Estados /\ Viva(Estado("EXEC", Nada))
    BY DEF Estado, Estados, Tipos, Viva
  <2> QED BY <2>1, <2>3, <2>4, VivaMueve
<1>4. CASE LiberaEvalua(t) /\ ~Cae
  <2>1. /\ EvaluaSignal(pidDe[t], argDe[t]) /\ ~SignalNula(pidDe[t], argDe[t])
        /\ pc[t] = "liberaEvalua"
    BY <1>4 DEF LiberaEvalua
  <2>2. t = "escucha"
    BY <2>1 DEF Hilos, InvLugares, InvDespacho, InvSemaforos, SinFinalizar
  <2>3. argDe[t] \in Recursos
    BY <2>1, <2>2, TiposLugares DEF ConPid, ConRecurso
  <2> QED BY <2>1, <2>3, SignalMueve
<1> QED BY <1>1, <1>2, <1>3, <1>4 DEF Hilo

LEMMA AdmiteMueve ==
  ASSUME InvLugares, Admite
  PROVE  Movimiento
<1>1. CASE Cae
  BY <1>1, CaeMueve
<1>2. CASE ~Cae
  <2>1. /\ colaNew # <<>> /\ semMulti' = semMulti - 1
        /\ Pasa(Head(colaNew), Estado("READY", Nada))
        /\ UNCHANGED <<contador, colaExit, ajusteGrado>>
    BY <1>2 DEF Admite, Iniciar, usrVars, Pasa
  <2>2. Colas[EnNew] = colaNew /\ EnNew \in Esperas
    BY ColasNombres
  <2>3. Head(colaNew) \in Pids /\ estado[Head(colaNew)].tipo = "NEW"
    BY <2>1, <2>2, CabezaViva
  <2>4. Devuelve(-1)
    BY <2>1, TiposGrado DEF Devuelve
  <2> QED BY <2>1, <2>3, <2>4 DEF Movimiento, Entra
<1> QED BY <1>1, <1>2

LEMMA FinIOMueve ==
  ASSUME InvLugares, NEW i \in Interfaces, FinIO(i)
  PROVE  Movimiento
<1>1. CASE Cae
  BY <1>1, CaeMueve
<1>2. CASE ~Cae
  <2>1. /\ colaIO[i] # <<>> /\ Iniciar(Head(colaIO[i]))
        /\ UNCHANGED <<contador, colaExit, semMulti, ajusteGrado>>
    BY <1>2 DEF FinIO, admVars, usrVars
  <2>2. Colas[EnIO(i)] = colaIO[i] /\ EnIO(i) \in Esperas \ {EnNew}
    BY ColasNombres
  <2> QED BY <2>1, <2>2, IniciarMueve
<1> QED BY <1>1, <1>2

LEMMA ConsolaMueve ==
  ASSUME "FINALIZAR_PROCESO" \notin Comandos, InvLugares, Consola
  PROVE  Movimiento
<1> USE DEF colasVars, admVars, usrVars, procVars
<1>1. CASE IniciarPlanificacion \/ DetenerPlanificacion \/ Detiene
  BY <1>1, QuietoMueve DEF IniciarPlanificacion, DetenerPlanificacion, Detiene
<1>2. CASE \E n \in Grados : SubeGrado(n)
  <2>1. PICK n \in Grados : SubeGrado(n)
    BY <1>2
  <2>2. /\ semMulti' = semMulti + (n - Grado) /\ ajusteGrado' = ajusteGrado + (n - Grado)
        /\ UNCHANGED <<estado, contador, colaExit>>
    BY <2>1 DEF SubeGrado
  <2>3. n \in Int /\ Grado \in Int
    BY GradoAssumption
  <2>4. Devuelve(0)
    BY <2>2, <2>3, TiposGrado DEF Devuelve
  <2> QED BY <2>2, <2>4 DEF Movimiento, NoMueve
<1>3. CASE \E n \in Grados : BajaGrado(n)
  BY <1>3, QuietoMueve DEF BajaGrado
<1>4. CASE RestaGrado
  <2>1. /\ semMulti' = semMulti - 1 /\ ajusteGrado' = ajusteGrado - 1
        /\ UNCHANGED <<estado, contador, colaExit>>
    BY <1>4 DEF RestaGrado
  <2>2. Devuelve(0)
    BY <2>1, TiposGrado DEF Devuelve
  <2> QED BY <2>1, <2>2 DEF Movimiento, NoMueve
<1>5. CASE ProcesoEstado
  BY <1>5, QuietoMueve DEF ProcesoEstado, kernelVars
<1>6. ASSUME NEW s \in Scripts, IniciarProceso(s)
      PROVE  Movimiento
  <2>1. /\ contador <= MaxPid /\ contador' = contador + 1 /\ Pasa(contador, Estado("NEW", Nada))
        /\ UNCHANGED <<colaExit, semMulti, ajusteGrado>>
    BY <1>6 DEF IniciarProceso, Pasa
  <2>2. contador \in Pids /\ estado[contador].tipo = "NADA"
    BY <2>1, TiposLugares, MaxPidAssumption DEF Pids, InvLugares, Ubicados, Ubica
  <2>3. Devuelve(0)
    BY <2>1, TiposGrado DEF Devuelve
  <2> QED BY <2>1, <2>2, <2>3 DEF Movimiento, Crea
<1>7. ~PideDesalojo /\ ~EsperaUsuario /\ ~SumaInstancia /\ ~SaleConsola
  BY DEF PideDesalojo, EsperaUsuario, SumaInstancia, SaleConsola, InvLugares, InvDespacho,
         InvSemaforos, SinFinalizar
<1>8. ASSUME NEW p \in Pids
       PROVE  /\ ~FinalizaNew(p) /\ ~FinalizaReady(p) /\ ~FinalizaExec(p)
              /\ ~FinalizaIO(p) /\ ~FinalizaRecurso(p) /\ ~FinalizaPerdido(p)
  BY DEF FinalizaNew, FinalizaReady, FinalizaExec, FinalizaIO, FinalizaRecurso,
         FinalizaPerdido, Finaliza, Acepta, Lee
<1> QED BY <1>1, <1>2, <1>3, <1>4, <1>5, <1>6, <1>7, <1>8 DEF Consola

LEMMA TodoMueve ==
  ASSUME SinDenegar, "FINALIZAR_PROCESO" \notin Comandos, InvLugares, Ejecutado, Saliente,
         [Next]_vars
  PROVE  Movimiento
<1> USE DEF colasVars, admVars, usrVars, procVars
<1>1. CASE KernelNext
  <2>1. CASE EsperaNew
    BY <2>1, QuietoMueve DEF EsperaNew
  <2>2. CASE Despacha
    <3>1. CASE Cae
      BY <3>1, CaeMueve
    <3>2. CASE ~Cae
      BY <2>2, <3>2, QuietoMueve DEF Despacha
    <3> QED BY <3>1, <3>2
  <2> QED BY <1>1, <2>1, <2>2, AdmiteMueve, EscuchaMueve, ConsolaMueve, HiloMueve, FinIOMueve
          DEF KernelNext, Nuevos
<1>2. CASE UNCHANGED kernelVars
  BY <1>2, QuietoMueve DEF kernelVars
<1> QED BY <1>1, <1>2 DEF Next, Interfaz, Caido, vars

----------------------------------------------------------------------------
(* The degree.                                                             *)

LEMMA ActivosVivas ==
  ASSUME InvLugares
  PROVE  Activos = Vivas(estado)
<1>1. \A p \in Pids : p >= contador => estado[p].tipo = "NADA"
  BY DEF InvLugares, Ubicados, Ubica
<1>2. \A p \in Pids : p < contador \/ p >= contador
  BY TiposGrado, MaxPidAssumption DEF Pids
<1> QED BY <1>1, <1>2 DEF Activos, Vivas, Viva, Procesos

LEMMA ActivosVivasSig ==
  ASSUME InvLugares'
  PROVE  Activos' = Vivas(estado')
<1>1. \A p \in Pids : p >= contador' => estado'[p].tipo = "NADA"
  BY DEF InvLugares, Ubicados, Ubica
<1>2. contador' \in Int
  BY MaxPidAssumption
     DEF InvLugares, InvDespacho, InvSemaforos, TypeOK, KernelTypeOK, ProcesosOK
<1>3. \A p \in Pids : p < contador' \/ p >= contador'
  BY <1>2, MaxPidAssumption DEF Pids
<1> QED BY <1>1, <1>3 DEF Activos, Vivas, Viva, Procesos

LEMMA VivasFinitas ==
  ASSUME NEW est
  PROVE  IsFiniteSet(Vivas(est)) /\ Cardinality(Vivas(est)) \in Nat
<1>1. IsFiniteSet(1..MaxPid)
  BY FS_Interval, MaxPidAssumption
<1>2. Vivas(est) \subseteq 1..MaxPid
  BY DEF Vivas, Pids
<1> QED BY <1>1, <1>2, FS_Subset, FS_CardinalityType

\* A process gets a slot, keeps the one it has, or gives it back.
LEMMA VivasPasa ==
  ASSUME NEW est \in [Pids -> Estados], NEW x \in Pids, NEW v
  PROVE  LET e == [est EXCEPT ![x] = v]
         IN  /\ (Viva(est[x]) <=> Viva(v)) => Vivas(e) = Vivas(est)
             /\ ~Viva(est[x]) /\ Viva(v)
                  => Cardinality(Vivas(e)) = Cardinality(Vivas(est)) + 1
             /\ Viva(est[x]) /\ ~Viva(v)
                  => Cardinality(Vivas(e)) = Cardinality(Vivas(est)) - 1
<1> DEFINE e == [est EXCEPT ![x] = v]
<1>1. e[x] = v /\ \A p \in Pids : p # x => e[p] = est[p]
  OBVIOUS
<1> HIDE DEF e
<1>2. ASSUME Viva(est[x]) <=> Viva(v) PROVE Vivas(e) = Vivas(est)
  <2>1. \A p \in Pids : Viva(e[p]) <=> Viva(est[p])
    BY <1>1, <1>2
  <2> QED BY <2>1 DEF Vivas
<1>3. ASSUME ~Viva(est[x]), Viva(v)
      PROVE  Cardinality(Vivas(e)) = Cardinality(Vivas(est)) + 1
  <2>1. Vivas(e) = Vivas(est) \cup {x} /\ x \notin Vivas(est)
    BY <1>1, <1>3 DEF Vivas
  <2> QED BY <2>1, VivasFinitas, FS_AddElement
<1>4. ASSUME Viva(est[x]), ~Viva(v)
      PROVE  Cardinality(Vivas(e)) = Cardinality(Vivas(est)) - 1
  <2>1. Vivas(e) = Vivas(est) \ {x} /\ x \in Vivas(est)
    BY <1>1, <1>4 DEF Vivas
  <2> QED BY <2>1, VivasFinitas, FS_RemoveElement
<1> QED BY <1>2, <1>3, <1>4 DEF e

LEMMA GradoNext ==
  ASSUME InvLugares, InvLugares', GradoConservado, Movimiento
  PROVE  GradoConservado'
<1> DEFINE n == Cardinality(Vivas(estado))
           m == Cardinality(Vivas(estado'))
<1>1. semMulti + n = Grado + ajusteGrado
  BY ActivosVivas DEF GradoConservado
<1>2. Activos' = Vivas(estado')
  BY ActivosVivasSig
<1>3. /\ semMulti \in Nat /\ ajusteGrado \in Int /\ n \in Nat /\ m \in Nat /\ Grado \in Nat
      /\ estado \in [Pids -> Estados]
  BY TiposGrado, VivasFinitas, GradoAssumption
<1>4. semMulti' \in Nat /\ ajusteGrado' \in Int
  BY DEF InvLugares, InvDespacho, InvSemaforos, TypeOK, KernelTypeOK, SemaforosOK, BanderasOK
<1>5. \A v : v \in {"READY", "EXIT", "NEW"} => Estado(v, Nada).tipo = v
  BY DEF Estado
<1>6. \/ m = n /\ Devuelve(0)
      \/ m = n + 1 /\ Devuelve(-1)
      \/ m = n - 1 /\ Devuelve(1)
  <2>1. CASE NoMueve
    BY <2>1 DEF NoMueve
  <2>2. CASE Mueve
    <3>1. PICK x \in Pids, v \in Estados : Viva(estado[x]) /\ Viva(v) /\ Pasa(x, v)
      BY <2>2 DEF Mueve
    <3>2. Vivas([estado EXCEPT ![x] = v]) = Vivas(estado)
      BY <1>3, <3>1, VivasPasa
    <3> QED BY <2>2, <3>1, <3>2 DEF Mueve, Pasa
  <2>3. CASE Entra
    <3>1. PICK x \in Pids : estado[x].tipo = "NEW" /\ Pasa(x, Estado("READY", Nada))
      BY <2>3 DEF Entra
    <3>2. ~Viva(estado[x]) /\ Viva(Estado("READY", Nada))
      BY <1>5, <3>1 DEF Viva
    <3>3. Cardinality(Vivas([estado EXCEPT ![x] = Estado("READY", Nada)])) = n + 1
      BY <1>3, <3>2, VivasPasa
    <3> QED BY <2>3, <3>1, <3>3 DEF Entra, Pasa
  <2>4. CASE Termina
    <3>1. PICK x \in Pids : Viva(estado[x]) /\ Pasa(x, Estado("EXIT", Nada))
      BY <2>4 DEF Termina
    <3>2. ~Viva(Estado("EXIT", Nada))
      BY <1>5 DEF Viva
    <3>3. Cardinality(Vivas([estado EXCEPT ![x] = Estado("EXIT", Nada)])) = n - 1
      BY <1>3, <3>1, <3>2, VivasPasa
    <3> QED BY <2>4, <3>1, <3>3 DEF Termina, Pasa
  <2>5. CASE Crea
    <3>1. contador \in Pids /\ ~Viva(estado[contador]) /\ ~Viva(Estado("NEW", Nada))
      BY <1>5, <2>5 DEF Crea, Viva
    <3>2. Vivas([estado EXCEPT ![contador] = Estado("NEW", Nada)]) = Vivas(estado)
      BY <1>3, <3>1, VivasPasa
    <3> QED BY <2>5, <3>2 DEF Crea, Pasa
  <2> QED BY <2>1, <2>2, <2>3, <2>4, <2>5 DEF Movimiento
<1> HIDE DEF n, m
<1>7. \E k \in {-1, 0, 1} : Devuelve(k) /\ m = n - k
  BY <1>3, <1>6
<1>8. PICK k \in Int : semMulti' + ajusteGrado = semMulti + ajusteGrado' + k /\ m = n - k
  BY <1>7 DEF Devuelve
<1>9. semMulti' + m = Grado + ajusteGrado'
  BY <1>1, <1>3, <1>4, <1>8
<1> QED BY <1>2, <1>9 DEF GradoConservado, m

LEMMA ExitNext ==
  ASSUME InvLugares, ExitOK, Movimiento
  PROVE  ExitOK'
<1> USE DEF ExitOK
<1>1. estado \in [Pids -> Estados] /\ colaExit \in Seq(Pids)
  BY TiposGrado
<1>2. \A v : v \in {"READY", "EXIT", "NEW"} => Estado(v, Nada).tipo = v
  BY DEF Estado
<1>3. ASSUME NEW x \in Pids, NEW v, Pasa(x, v), colaExit' = colaExit,
             estado[x].tipo # "EXIT", v.tipo # "EXIT"
      PROVE  ExitOK'
  <2>1. \A p \in Pids : estado'[p].tipo = "EXIT" <=> estado[p].tipo = "EXIT"
    BY <1>1, <1>3 DEF Pasa
  <2> QED BY <1>3, <2>1
<1>4. CASE NoMueve
  BY <1>4 DEF NoMueve
<1>5. CASE Mueve
  BY <1>3, <1>5 DEF Mueve, Viva
<1>6. CASE Entra
  <2>1. PICK x \in Pids : estado[x].tipo = "NEW" /\ Pasa(x, Estado("READY", Nada))
    BY <1>6 DEF Entra
  <2> QED BY <1>2, <1>3, <1>6, <2>1 DEF Entra
<1>7. CASE Termina
  <2>1. PICK x \in Pids : /\ Viva(estado[x]) /\ Pasa(x, Estado("EXIT", Nada))
                          /\ colaExit' = Append(colaExit, x)
    BY <1>7 DEF Termina
  <2>2. ~Esta(colaExit, x)
    BY <2>1 DEF Viva
  <2>3. /\ \A p : Esta(Append(colaExit, x), p) <=> Esta(colaExit, p) \/ p = x
        /\ SinRepetidos(Append(colaExit, x))
    BY <1>1, <2>2, AgregaEsta
  <2>4. \A p \in Pids : estado'[p].tipo = "EXIT" <=> estado[p].tipo = "EXIT" \/ p = x
    BY <1>1, <1>2, <2>1 DEF Pasa
  <2> QED BY <2>1, <2>3, <2>4
<1>8. CASE Crea
  <2>1. /\ contador \in Pids /\ estado[contador].tipo = "NADA" /\ colaExit' = colaExit
        /\ Pasa(contador, Estado("NEW", Nada))
    BY <1>8 DEF Crea
  <2> QED BY <1>2, <1>3, <2>1
<1> QED BY <1>4, <1>5, <1>6, <1>7, <1>8 DEF Movimiento

----------------------------------------------------------------------------
(* The rest of the invariant.                                              *)

Terminando == {"libera", "liberaEvalua"}

\* How escucha comes to end a process, and what else it does meanwhile.
LEMMA SueltaSigue ==
  ASSUME "FINALIZAR_PROCESO" \notin Comandos, InvLugares, [Next]_vars,
         pc'["escucha"] \in Terminando
  PROVE  \/ pc["escucha"] \in Terminando /\ pidDe'["escucha"] = pidDe["escucha"]
         \/ PideExit \/ (PideDesconocido /\ ~Cae)
<1> USE DEF Terminando, Sigue, Vuelve, Inicio, hilosVars, Hilos
<1>1. pc \in [Hilos -> Puntos] /\ pidDe \in [Hilos -> Pids \cup {0}]
  BY TiposLugares
<1>2. CASE UNCHANGED <<pc, pidDe>>
  BY <1>2
<1>3. Cae => UNCHANGED <<pc, pidDe>>
  BY DEF Cae
<1>4. CASE Nuevos
  BY <1>1, <1>2, <1>3, <1>4 DEF Nuevos, EsperaNew, Admite
<1>5. CASE Despacha \/ \E i \in Interfaces : FinIO(i)
  BY <1>2, <1>3, <1>5 DEF Despacha, FinIO
<1>6. CASE Escucha
  <2>1. CASE FinDesaloja \/ FinDesalojaUsuario \/ FinContinua \/ PaqueteSinExec
    BY <1>1, <1>2, <1>3, <2>1 DEF FinDesaloja, FinDesalojaUsuario, FinContinua, PaqueteSinExec
  <2>2. CASE PideIO \/ EnviaIO \/ MarcaBlock
    BY <1>1, <2>2 DEF PideIO, EnviaIO, MarcaBlock
  <2>3. CASE PideWait \/ EvaluaWait \/ PideSignal
    BY <1>1, <2>3 DEF PideWait, EvaluaWait, PideSignal
  <2>4. CASE Signal \/ SaleEscucha
    BY <1>1, <1>2, <1>3, <2>4 DEF Signal, SaleEscucha
  <2> QED BY <1>2, <1>3, <1>6, <2>1, <2>2, <2>3, <2>4 DEF Escucha
<1>7. CASE Consola
  <2>1. pc'["escucha"] = pc["escucha"] /\ pidDe'["escucha"] = pidDe["escucha"]
    <3>1. CASE \E s \in Scripts : IniciarProceso(s)
      BY <3>1 DEF IniciarProceso
    <3>2. CASE IniciarPlanificacion \/ DetenerPlanificacion \/ Detiene
      BY <1>1, <3>2 DEF IniciarPlanificacion, DetenerPlanificacion, Detiene
    <3>3. CASE (\E n \in Grados : SubeGrado(n) \/ BajaGrado(n)) \/ RestaGrado \/ ProcesoEstado
      BY <1>1, <3>3 DEF SubeGrado, BajaGrado, RestaGrado, ProcesoEstado, kernelVars
    <3>4. ~PideDesalojo /\ ~EsperaUsuario /\ ~SumaInstancia /\ ~SaleConsola
      BY DEF PideDesalojo, EsperaUsuario, SumaInstancia, SaleConsola, InvLugares, InvDespacho,
             InvSemaforos, SinFinalizar
    <3>5. ASSUME NEW p \in Pids
          PROVE  /\ ~FinalizaNew(p) /\ ~FinalizaReady(p) /\ ~FinalizaExec(p)
                 /\ ~FinalizaIO(p) /\ ~FinalizaRecurso(p) /\ ~FinalizaPerdido(p)
      BY DEF FinalizaNew, FinalizaReady, FinalizaExec, FinalizaIO, FinalizaRecurso,
             FinalizaPerdido, Finaliza, Acepta, Lee
    <3> QED BY <1>7, <3>1, <3>2, <3>3, <3>4, <3>5 DEF Consola
  <2> QED BY <2>1
<1>8. ASSUME NEW t \in Hilos, Hilo(t)
      PROVE  pc["escucha"] \in Terminando /\ pidDe'["escucha"] = pidDe["escucha"]
  BY <1>1, <1>3, <1>8 DEF Hilo, Replanifica, Elige, Libera, LiberaEvalua
<1>9. CASE UNCHANGED kernelVars
  BY <1>2, <1>9 DEF kernelVars
<1> QED BY <1>4, <1>5, <1>6, <1>7, <1>8, <1>9 DEF Next, KernelNext, Interfaz, Caido, vars

LEMMA SalienteNext ==
  ASSUME "FINALIZAR_PROCESO" \notin Comandos, SinDenegar, InvGrado, [Next]_vars
  PROVE  Saliente'
<1> SUFFICES ASSUME pc'["escucha"] \in Terminando
             PROVE  estado'[pidDe'["escucha"]].tipo # "EXIT"
  BY DEF Saliente, Terminando
<1> USE DEF InvGrado
<1>1. estado \in [Pids -> Estados]
  BY TiposGrado
<1>2. CASE pc["escucha"] \in Terminando /\ pidDe'["escucha"] = pidDe["escucha"]
  <2>1. pidDe["escucha"] \in Pids /\ estado[pidDe["escucha"]].tipo # "EXIT"
    BY <1>2, TiposLugares DEF Terminando, ConPid, ConRecurso, Saliente
  <2>2. \A v : v \in {"READY", "NEW"} => Estado(v, Nada).tipo # "EXIT"
    BY DEF Estado
  <2>3. ASSUME NEW x \in Pids, NEW v, Pasa(x, v), v.tipo # "EXIT"
        PROVE  estado'[pidDe["escucha"]].tipo # "EXIT"
    BY <1>1, <2>1, <2>3 DEF Pasa
  <2>4. CASE NoMueve
    BY <1>2, <2>1, <2>4 DEF NoMueve
  <2>5. CASE Mueve
    BY <1>2, <2>3, <2>5 DEF Mueve, Viva
  <2>6. CASE Entra
    BY <1>2, <2>2, <2>3, <2>6 DEF Entra
  <2>7. ~Termina
    BY DEF Termina, Terminando
  <2>8. CASE Crea
    BY <1>2, <2>2, <2>3, <2>8 DEF Crea
  <2> QED BY <1>2, <2>4, <2>5, <2>6, <2>7, <2>8, TodoMueve DEF Movimiento
<1>3. CASE PideExit \/ (PideDesconocido /\ ~Cae)
  <2>1. /\ Llega(Motivos \ {"FIN"}) /\ "FIN" \notin Motivos \ {"FIN"}
        /\ CargaPcb(Head(chCpu))
    BY <1>3 DEF PideExit, PideDesconocido, Llega, Motivos
  <2>2. Head(chCpu).pid = cpuPid /\ cpuPid \in Pids /\ estado[cpuPid].tipo = "EXEC"
    BY <2>1, CargaViva
  <2>3. estado' = estado /\ pidDe'["escucha"] = cpuPid
    BY <1>3, <2>2, TiposLugares DEF PideExit, PideDesconocido, Sigue, Hilos
  <2> QED BY <2>2, <2>3
<1> QED BY <1>2, <1>3, SueltaSigue

\* Scripts are only given by INICIAR_PROCESO, and instructions only executed by the CPU.
LEMMA ScriptSigue ==
  ASSUME "FINALIZAR_PROCESO" \notin Comandos, InvLugares, [Next]_vars
  PROVE  \/ UNCHANGED <<script, ejecutadas, contador>>
         \/ /\ \E s \in Scripts : IniciarProceso(s)
            /\ ejecutadas' = ejecutadas
         \/ CpuInstruccion /\ UNCHANGED <<script, contador>>
<1> USE DEF canales, procVars, kernelVars, cpuVars
<1>1. CASE KernelNext /\ UNCHANGED cpuVars
  <2>1. Cae => UNCHANGED <<script, contador>>
    BY DEF Cae
  <2>2. CASE Nuevos
    BY <1>1, <2>1, <2>2 DEF Nuevos, EsperaNew, Admite
  <2>3. CASE Despacha \/ \E i \in Interfaces : FinIO(i)
    BY <1>1, <2>1, <2>3 DEF Despacha, FinIO
  <2>4. CASE Escucha
    <3>1. CASE FinDesaloja \/ FinDesalojaUsuario \/ FinContinua \/ PaqueteSinExec
      BY <1>1, <2>1, <3>1 DEF FinDesaloja, FinDesalojaUsuario, FinContinua, PaqueteSinExec
    <3>2. CASE PideIO \/ EnviaIO \/ MarcaBlock
      BY <1>1, <3>2 DEF PideIO, EnviaIO, MarcaBlock
    <3>3. CASE PideWait \/ EvaluaWait \/ PideSignal
      BY <1>1, <3>3 DEF PideWait, EvaluaWait, PideSignal
    <3>4. CASE Signal \/ SaleEscucha
      BY <1>1, <2>1, <3>4 DEF Signal, EvaluaSignal, SaleEscucha, Sale
    <3>5. CASE PideExit \/ PideDesconocido
      BY <1>1, <2>1, <3>5 DEF PideExit, PideDesconocido
    <3> QED BY <2>4, <3>1, <3>2, <3>3, <3>4, <3>5 DEF Escucha
  <2>5. CASE Consola
    <3>1. CASE \E s \in Scripts : IniciarProceso(s)
      BY <1>1, <3>1
    <3>2. CASE IniciarPlanificacion \/ DetenerPlanificacion \/ Detiene
      BY <1>1, <3>2 DEF IniciarPlanificacion, DetenerPlanificacion, Detiene
    <3>3. CASE (\E n \in Grados : SubeGrado(n) \/ BajaGrado(n)) \/ RestaGrado \/ ProcesoEstado
      BY <1>1, <3>3 DEF SubeGrado, BajaGrado, RestaGrado, ProcesoEstado
    <3>4. ~PideDesalojo /\ ~EsperaUsuario /\ ~SumaInstancia /\ ~SaleConsola
      BY DEF PideDesalojo, EsperaUsuario, SumaInstancia, SaleConsola, InvLugares, InvDespacho,
             InvSemaforos, SinFinalizar
    <3>5. ASSUME NEW p \in Pids
          PROVE  /\ ~FinalizaNew(p) /\ ~FinalizaReady(p) /\ ~FinalizaExec(p)
                 /\ ~FinalizaIO(p) /\ ~FinalizaRecurso(p) /\ ~FinalizaPerdido(p)
      BY DEF FinalizaNew, FinalizaReady, FinalizaExec, FinalizaIO, FinalizaRecurso,
             FinalizaPerdido, Finaliza, Acepta, Lee
    <3> QED BY <2>5, <3>1, <3>2, <3>3, <3>4, <3>5 DEF Consola
  <2>6. ASSUME NEW t \in Hilos, Hilo(t)
        PROVE  UNCHANGED <<script, contador>>
    BY <2>1, <2>6 DEF Hilo, Replanifica, Elige, Libera, LiberaEvalua, EvaluaSignal
  <2> QED BY <1>1, <2>2, <2>3, <2>4, <2>5, <2>6 DEF KernelNext
<1>2. CASE CpuNext /\ UNCHANGED kernelVars
  BY <1>2 DEF CpuNext, CpuRecibePcb, CpuInstruccion, CpuContinua, CpuNoContinua,
              CpuRecibeInterrupcion, CpuAtiendeInterrupcion
<1>3. CASE (\E i \in Interfaces : Interfaz(i)) \/ UNCHANGED vars
  BY <1>3 DEF Interfaz, AtiendeInterfaz, vars
<1> QED BY <1>1, <1>2, <1>3 DEF Next, Caido

LEMMA EjecutadoNext ==
  ASSUME "FINALIZAR_PROCESO" \notin Comandos, InvLugares, Ejecutado, [Next]_vars
  PROVE  Ejecutado'
<1>1. /\ script \in [Pids -> Scripts \cup {<<>>}] /\ contador \in Int
      /\ ejecutadas \in [Pids -> Nat]
  BY TiposGrado, TiposDespacho DEF InvLugares
<1>2. CASE UNCHANGED <<script, ejecutadas, contador>>
  BY <1>2 DEF Ejecutado
<1>3. ASSUME NEW s \in Scripts, IniciarProceso(s), ejecutadas' = ejecutadas
      PROVE  Ejecutado'
  <2>1. contador' = contador + 1 /\ script' = [script EXCEPT ![contador] = s]
    BY <1>3 DEF IniciarProceso
  <2>2. Len(s) \in Nat /\ Len(<<>>) = 0
    BY ScriptsAssumption, LenProperties
  <2> SUFFICES ASSUME NEW p \in Pids
               PROVE  /\ ejecutadas'[p] <= Len(script'[p])
                      /\ p >= contador' => script'[p] = <<>>
    BY DEF Ejecutado
  <2>3. CASE p = contador
    <3>1. script[p] = <<>> /\ ejecutadas[p] <= 0 /\ ejecutadas[p] \in Nat
      BY <1>1, <2>2, <2>3 DEF Ejecutado
    <3>2. script'[p] = s /\ ~(p >= contador')
      BY <1>1, <2>1, <2>3
    <3> QED BY <1>3, <2>2, <3>1, <3>2
  <2>4. CASE p # contador
    <3>1. script'[p] = script[p] /\ (p >= contador' => p >= contador)
      BY <1>1, <2>1, <2>4, MaxPidAssumption DEF Pids
    <3> QED BY <1>3, <3>1 DEF Ejecutado
  <2> QED BY <2>3, <2>4
<1>4. CASE CpuInstruccion /\ UNCHANGED <<script, contador>>
  <2>1. /\ cpuFase = "ejecuta" /\ cpuPC < Len(script[cpuPid])
        /\ ejecutadas' = [ejecutadas EXCEPT ![cpuPid] = @ + 1]
    BY <1>4 DEF CpuInstruccion
  <2>2. cpuPid \in Pids /\ cpuPC = ejecutadas[cpuPid] /\ cpuPC \in Nat
    BY <2>1, DeQuienEsElTurno, TiposDespacho DEF InvLugares, Ejecutando
  <2>3. Len(script[cpuPid]) \in Nat
    BY <1>1, <2>2, ScriptsAssumption, LenProperties, EmptySeq
  <2>4. ejecutadas'[cpuPid] <= Len(script[cpuPid])
    BY <1>1, <2>1, <2>2, <2>3
  <2> SUFFICES ASSUME NEW p \in Pids
               PROVE  /\ ejecutadas'[p] <= Len(script'[p])
                      /\ p >= contador' => script'[p] = <<>>
    BY DEF Ejecutado
  <2> QED BY <1>1, <1>4, <2>1, <2>4 DEF Ejecutado
<1> QED BY <1>2, <1>3, <1>4, ScriptSigue

LEMMA GradoInit == Init => InvGrado
<1> SUFFICES ASSUME Init PROVE InvGrado
  OBVIOUS
<1>1. /\ script = [p \in Pids |-> <<>>] /\ ejecutadas = [p \in Pids |-> 0]
      /\ pc = [t \in Hilos |-> Inicio(t)] /\ colaExit = <<>>
      /\ estado = [p \in Pids |-> Estado("NADA", Nada)] /\ contador = 1
      /\ semMulti = Grado /\ ajusteGrado = 0
  BY DEF Init, CanalesInit, KernelInit, CpuInit
<1>2. InvLugares
  BY LugaresInit
<1>3. Ejecutado
  BY <1>1 DEF Ejecutado
<1>4. Saliente
  <2>1. pc["escucha"] = "recibe"
    BY <1>1 DEF Inicio, Hilos
  <2> QED BY <2>1 DEF Saliente
<1>5. \A p \in Pids : estado[p].tipo = "NADA"
  BY <1>1 DEF Estado
<1>6. ExitOK
  BY <1>1, <1>5 DEF ExitOK, SinRepetidos, Esta
<1>7. GradoConservado
  <2>1. Activos = {}
    BY <1>5 DEF Activos, Procesos
  <2>2. Cardinality(Activos) = 0
    BY <2>1, FS_EmptySet
  <2> QED BY <1>1, <2>2, GradoAssumption DEF GradoConservado
<1> QED BY <1>2, <1>3, <1>4, <1>6, <1>7 DEF InvGrado

LEMMA InvGradoNext ==
  ASSUME "FINALIZAR_PROCESO" \notin Comandos, SinDenegar
  PROVE  InvGrado /\ [Next]_vars => InvGrado'
<1> SUFFICES ASSUME InvGrado, [Next]_vars PROVE InvGrado'
  OBVIOUS
<1>1. InvLugares' /\ Movimiento
  BY LugaresNext, TodoMueve DEF InvGrado
<1>2. GradoConservado' /\ ExitOK'
  BY <1>1, GradoNext, ExitNext DEF InvGrado
<1>3. Saliente' /\ Ejecutado'
  BY SalienteNext, EjecutadoNext DEF InvGrado
<1> QED BY <1>1, <1>2, <1>3 DEF InvGrado

----------------------------------------------------------------------------
(* In one place.                                                           *)

\* The places of a process in terms of the family of queues.
LEMMA LugaresDeColas ==
  ASSUME InvLugares, NEW p
  PROVE  /\ \A a \in Lugares(p) :
              \/ \E s \in Esperas : \E j \in 1..Len(Colas[s]) :
                    Colas[s][j] = p /\ a = <<s[1], s[2], j>>
              \/ \E j \in 1..Len(colaExit) : colaExit[j] = p /\ a = <<"EXIT", Nada, j>>
         /\ \A s \in Esperas : Esta(Colas[s], p) => Lugares(p) # {}
         /\ Esta(colaExit, p) => Lugares(p) # {}
<1> DEFINE DeIO(i) == {<<"IO", i, j>> : j \in {k \in 1..Len(colaIO[i]) : colaIO[i][k] = p}}
           DeRec(r) == {<<"REC", r, j>> : j \in {k \in 1..Len(colaRec[r]) : colaRec[r][k] = p}}
           EnPropias == {<<"NEW", Nada, j>> : j \in {k \in 1..Len(colaNew) : colaNew[k] = p}}
                        \cup {<<"READY", Nada, j>> : j \in {k \in 1..Len(colaReady) : colaReady[k] = p}}
                        \cup {<<"EXIT", Nada, j>> : j \in {k \in 1..Len(colaExit) : colaExit[k] = p}}
<1>0. /\ EnPropias \subseteq Lugares(p)
      /\ \A i \in Interfaces : DeIO(i) \subseteq Lugares(p)
      /\ \A r \in Recursos : DeRec(r) \subseteq Lugares(p)
      /\ \A a \in Lugares(p) : \/ a \in EnPropias
                               \/ \E i \in Interfaces : a \in DeIO(i)
                               \/ \E r \in Recursos : a \in DeRec(r)
  <2> DEFINE TodasIO == {DeIO(i) : i \in Interfaces}
             TodasRec == {DeRec(r) : r \in Recursos}
  <2>1. Lugares(p) = EnPropias \cup (UNION TodasIO) \cup (UNION TodasRec)
    BY DEF Lugares
  <2>2. /\ \A i \in Interfaces : DeIO(i) \in TodasIO
        /\ \A S \in TodasIO : \E i \in Interfaces : S = DeIO(i)
    OBVIOUS
  <2>3. /\ \A r \in Recursos : DeRec(r) \in TodasRec
        /\ \A S \in TodasRec : \E r \in Recursos : S = DeRec(r)
    OBVIOUS
  <2> HIDE DEF EnPropias, DeIO, DeRec, TodasIO, TodasRec
  <2>4. /\ EnPropias \subseteq Lugares(p)
        /\ \A S \in TodasIO : S \subseteq Lugares(p)
        /\ \A S \in TodasRec : S \subseteq Lugares(p)
    BY <2>1
  <2>5. ASSUME NEW a \in Lugares(p)
        PROVE  \/ a \in EnPropias
               \/ \E S \in TodasIO : a \in S
               \/ \E S \in TodasRec : a \in S
    BY <2>1, <2>5
  <2>6. ASSUME NEW a \in Lugares(p)
        PROVE  \/ a \in EnPropias
               \/ \E i \in Interfaces : a \in DeIO(i)
               \/ \E r \in Recursos : a \in DeRec(r)
    BY <2>5, <2>2, <2>3
  <2>7. /\ \A i \in Interfaces : DeIO(i) \subseteq Lugares(p)
        /\ \A r \in Recursos : DeRec(r) \subseteq Lugares(p)
    BY <2>2, <2>3, <2>4
  <2> QED BY <2>4, <2>6, <2>7
<1>1. /\ Colas[EnNew] = colaNew /\ Colas[EnReady] = colaReady
      /\ EnNew \in Esperas /\ EnReady \in Esperas
      /\ \A i \in Interfaces : Colas[EnIO(i)] = colaIO[i] /\ EnIO(i) \in Esperas
      /\ \A r \in Recursos : Colas[EnRec(r)] = colaRec[r] /\ EnRec(r) \in Esperas
  BY ColasNombres
<1>2. /\ EnNew[1] = "NEW" /\ EnNew[2] = Nada /\ EnReady[1] = "READY" /\ EnReady[2] = Nada
      /\ \A i : EnIO(i)[1] = "IO" /\ EnIO(i)[2] = i
      /\ \A r : EnRec(r)[1] = "REC" /\ EnRec(r)[2] = r
  BY DEF EnNew, EnReady, EnIO, EnRec
<1>3. ASSUME NEW a \in Lugares(p)
      PROVE  \/ \E s \in Esperas : \E j \in 1..Len(Colas[s]) :
                    Colas[s][j] = p /\ a = <<s[1], s[2], j>>
             \/ \E j \in 1..Len(colaExit) : colaExit[j] = p /\ a = <<"EXIT", Nada, j>>
  <2>1. \/ \E j \in 1..Len(colaNew) : colaNew[j] = p /\ a = <<"NEW", Nada, j>>
        \/ \E j \in 1..Len(colaReady) : colaReady[j] = p /\ a = <<"READY", Nada, j>>
        \/ \E j \in 1..Len(colaExit) : colaExit[j] = p /\ a = <<"EXIT", Nada, j>>
        \/ \E i \in Interfaces : \E j \in 1..Len(colaIO[i]) :
              colaIO[i][j] = p /\ a = <<"IO", i, j>>
        \/ \E r \in Recursos : \E j \in 1..Len(colaRec[r]) :
              colaRec[r][j] = p /\ a = <<"REC", r, j>>
    BY <1>0, <1>3
  <2> QED BY <1>1, <1>2, <2>1
<1>4. ASSUME NEW s \in Esperas, Esta(Colas[s], p)
      PROVE  Lugares(p) # {}
  <2>1. \/ s = EnNew \/ s = EnReady
        \/ \E i \in Interfaces : s = EnIO(i)
        \/ \E r \in Recursos : s = EnRec(r)
    BY DEF Esperas
  <2>2. PICK j \in 1..Len(Colas[s]) : Colas[s][j] = p
    BY <1>4 DEF Esta
  <2>3. CASE s = EnNew
    <3>1. <<"NEW", Nada, j>> \in Lugares(p)
      <4>1. <<"NEW", Nada, j>> \in EnPropias
        BY <1>1, <2>2, <2>3
      <4> HIDE DEF EnPropias
      <4> QED BY <1>0, <4>1
    <3> QED BY <3>1
  <2>4. CASE s = EnReady
    <3>1. <<"READY", Nada, j>> \in Lugares(p)
      <4>1. <<"READY", Nada, j>> \in EnPropias
        BY <1>1, <2>2, <2>4
      <4> HIDE DEF EnPropias
      <4> QED BY <1>0, <4>1
    <3> QED BY <3>1
  <2>5. ASSUME NEW i \in Interfaces, s = EnIO(i)
        PROVE  Lugares(p) # {}
    <3>1. <<"IO", i, j>> \in Lugares(p)
      <4>1. j \in 1..Len(colaIO[i]) /\ colaIO[i][j] = p
        BY <1>1, <2>2, <2>5
      <4>2. <<"IO", i, j>> \in DeIO(i)
        BY <4>1
      <4> HIDE DEF DeIO
      <4> QED BY <1>0, <4>2
    <3> QED BY <3>1
  <2>6. ASSUME NEW r \in Recursos, s = EnRec(r)
        PROVE  Lugares(p) # {}
    <3>1. <<"REC", r, j>> \in Lugares(p)
      <4>1. j \in 1..Len(colaRec[r]) /\ colaRec[r][j] = p
        BY <1>1, <2>2, <2>6
      <4>2. <<"REC", r, j>> \in DeRec(r)
        BY <4>1
      <4> HIDE DEF DeRec
      <4> QED BY <1>0, <4>2
    <3> QED BY <3>1
  <2> QED BY <2>1, <2>3, <2>4, <2>5, <2>6
<1>5. ASSUME Esta(colaExit, p)
      PROVE  Lugares(p) # {}
  <2>1. PICK j \in 1..Len(colaExit) : colaExit[j] = p
    BY <1>5 DEF Esta
  <2>2. <<"EXIT", Nada, j>> \in Lugares(p)
    BY <1>0, <2>1
  <2> QED BY <2>2
<1> HIDE DEF EnPropias, DeIO, DeRec
<1> QED BY <1>3, <1>4, <1>5

LEMMA UnSoloLugar ==
  ASSUME InvLugares, ExitOK
  PROVE  EnUnSoloLugar
<1> SUFFICES ASSUME NEW p \in Procesos
             PROVE  /\ Cardinality(Lugares(p)) <= 1
                    /\ Lugares(p) = {} => colaExec = <<p>>
  BY DEF EnUnSoloLugar
<1>1. /\ p \in Pids /\ p < contador /\ Colas \in Familias
      /\ Ubica(Colas, estado, contador, Marchan, PorMarcar)
  BY TiposLugares DEF Procesos, InvLugares, Ubicados
<1>2. \A s \in Esperas : Esta(Colas[s], p) => ~Esta(colaExit, p)
  BY <1>1 DEF Ubica, ExitOK
<1>3. \A s, t \in Esperas : Esta(Colas[s], p) /\ Esta(Colas[t], p) => s = t
  BY <1>1 DEF Ubica, Unico, Familias
<1>4. SinRepetidos(colaExit) /\ \A s \in Esperas : SinRepetidos(Colas[s])
  BY <1>1 DEF Ubica, Unico, Familias, ExitOK
<1>5. ASSUME NEW a \in Lugares(p), NEW b \in Lugares(p)
      PROVE  a = b
  <2>1. \/ \E s \in Esperas : \E j \in 1..Len(Colas[s]) :
              Colas[s][j] = p /\ a = <<s[1], s[2], j>>
        \/ \E j \in 1..Len(colaExit) : colaExit[j] = p /\ a = <<"EXIT", Nada, j>>
    BY LugaresDeColas
  <2>2. \/ \E s \in Esperas : \E j \in 1..Len(Colas[s]) :
              Colas[s][j] = p /\ b = <<s[1], s[2], j>>
        \/ \E j \in 1..Len(colaExit) : colaExit[j] = p /\ b = <<"EXIT", Nada, j>>
    BY LugaresDeColas
  <2>3. ASSUME NEW s \in Esperas, NEW j \in 1..Len(Colas[s]), Colas[s][j] = p,
               a = <<s[1], s[2], j>>,
               NEW t \in Esperas, NEW k \in 1..Len(Colas[t]), Colas[t][k] = p,
               b = <<t[1], t[2], k>>
        PROVE  a = b
    <3>1. s = t
      BY <1>3, <2>3 DEF Esta
    <3>2. j = k
      BY <1>4, <2>3, <3>1 DEF SinRepetidos
    <3> QED BY <2>3, <3>1, <3>2
  <2>4. ASSUME NEW j \in 1..Len(colaExit), colaExit[j] = p, a = <<"EXIT", Nada, j>>,
               NEW k \in 1..Len(colaExit), colaExit[k] = p, b = <<"EXIT", Nada, k>>
        PROVE  a = b
    BY <1>4, <2>4 DEF SinRepetidos
  <2>5. ASSUME NEW s \in Esperas, NEW j \in 1..Len(Colas[s]), Colas[s][j] = p,
               NEW k \in 1..Len(colaExit), colaExit[k] = p
        PROVE  FALSE
    BY <1>2, <2>5 DEF Esta
  <2> QED BY <2>1, <2>2, <2>3, <2>4, <2>5
<1>6. Cardinality(Lugares(p)) <= 1
  <2>1. CASE Lugares(p) = {}
    <3>1. Cardinality(Lugares(p)) = 0
      BY <2>1, FS_EmptySet
    <3> QED BY <3>1
  <2>2. CASE Lugares(p) # {}
    <3>1. PICK a : a \in Lugares(p)
      BY <2>2
    <3>2. Lugares(p) = {a}
      BY <1>5, <3>1
    <3>3. Cardinality(Lugares(p)) = 1
      BY <3>2, FS_Singleton
    <3> QED BY <3>3
  <2> QED BY <2>1, <2>2
<1>7. ASSUME Lugares(p) = {}
      PROVE  colaExec = <<p>>
  <2>1. ~Aparece(Colas, p) /\ estado[p].tipo # "EXIT"
    BY <1>1, <1>7, LugaresDeColas DEF Aparece, ExitOK, Familias
  <2>2. p \in Marchan
    BY <1>1, <2>1 DEF Ubica
  <2> QED BY <2>2 DEF Marchan
<1> QED BY <1>6, <1>7

----------------------------------------------------------------------------

\* No thread that moves a pcb between queues loses it or leaves it in two of them: each
\* process created is in exactly one queue, or it is the one in cola_exec (queue_push
\* and queue_pop of all of kernel.c).
THEOREM EnUnSoloLugarSiempre ==
  ASSUME "FINALIZAR_PROCESO" \notin Comandos, SinDenegar
  PROVE  Spec => []EnUnSoloLugar
<1>1. InvGrado => EnUnSoloLugar
  BY UnSoloLugar DEF InvGrado
<1> QED BY <1>1, GradoInit, InvGradoNext, PTL DEF Spec

\* sem_multiprogramacion and the processes that hold a slot always add up to the degree
\* configured, MULTIPROGRAMACION included: no admission, block, wake-up or exit loses
\* or creates a slot.
THEOREM GradoConservadoSiempre ==
  ASSUME "FINALIZAR_PROCESO" \notin Comandos, SinDenegar
  PROVE  Spec => []GradoConservado
<1>1. InvGrado => GradoConservado
  BY DEF InvGrado
<1> QED BY <1>1, GradoInit, InvGradoNext, PTL DEF Spec
=============================================================================
