---------------------------- MODULE AnvilPoolProofs ----------------------------
(***************************************************************************)
(* What the transaction pool of anvil holds, and hands out, was put into   *)
(* it, and what executing a block makes of its transactions, for any set   *)
(* of transactions.  It needs that every independent transaction is ready  *)
(* and that arrival knows it.                                              *)
(***************************************************************************)
EXTENDS AnvilPool, FoldTheorems, SequenceTheorems

-----------------------------------------------------------------------------
(* Sequences *)

\* in_order keeps exactly the elements that are asked for.
LEMMA InOrder ==
  ASSUME NEW X, NEW s \in Seq(X), NEW H
  PROVE  in_order(s, H) \in Seq(X) /\ ToSet(in_order(s, H)) = ToSet(s) \cap H
<1> DEFINE n == Len(s)
           Y == Seq(X)
           h == [p \in (1 .. n) \X Y |-> IF s[p[1]] \in H THEN Append(p[2], s[p[1]]) ELSE p[2]]
           it == CHOOSE g : g = [q \in SUBSET (1 .. n) |->
                                   IF q = {} THEN <<>>
                                   ELSE IF s[Max(q)] \in H THEN Append(g[q \ {Max(q)}], s[Max(q)])
                                                           ELSE g[q \ {Max(q)}]]
<1>1. n \in Nat /\ DOMAIN s = 1 .. n /\ \A i \in 1 .. n : s[i] \in X OBVIOUS
<1>2. in_order(s, H) = it[1 .. n] BY <1>1 DEF in_order, FoldLeft, MapThenFoldSet
<1>3. h \in Steps(1 .. n, Y) BY <1>1 DEF Steps
<1>4. \A i \in 1 .. n, t \in Y : h[<<i, t>>] = IF s[i] \in H THEN Append(t, s[i]) ELSE t OBVIOUS
<1>5. <<>> \in Y OBVIOUS
<1> HIDE DEF Y, h, n
<1>6. \E g : g = [q \in SUBSET (1 .. n) |->
                    IF q = {} THEN <<>>
                    ELSE IF s[Max(q)] \in H THEN Append(g[q \ {Max(q)}], s[Max(q)])
                                            ELSE g[q \ {Max(q)}]]
  <2>0. PICK g \in LeftFolds(n, Y, <<>>, h) : TRUE BY <1>1, <1>3, <1>5, FoldLeftExists
  <2>1. /\ g \in [SUBSET (1 .. n) -> Y]
        /\ \A q \in SUBSET (1 .. n) : g[q] = IF q = {} THEN <<>> ELSE h[<<Max(q), g[q \ {Max(q)}]>>]
    BY Zenon DEF LeftFolds
  <2>2. ASSUME NEW q \in SUBSET (1 .. n), q # {}
        PROVE  g[q] = IF s[Max(q)] \in H THEN Append(g[q \ {Max(q)}], s[Max(q)]) ELSE g[q \ {Max(q)}]
    <3>1. Max(q) \in 1 .. n BY <1>1, <2>2, MaxIndex, Zenon
    <3>2. g[q \ {Max(q)}] \in Y BY <2>1, Zenon
    <3> QED BY <1>4, <2>1, <2>2, <3>1, <3>2, Zenon
  <2>3. g = [q \in SUBSET (1 .. n) |->
               IF q = {} THEN <<>>
               ELSE IF s[Max(q)] \in H THEN Append(g[q \ {Max(q)}], s[Max(q)]) ELSE g[q \ {Max(q)}]]
    BY <2>1, <2>2, Zenon
  <2> QED BY <2>3, Zenon
<1>7. it = [q \in SUBSET (1 .. n) |->
              IF q = {} THEN <<>>
              ELSE IF s[Max(q)] \in H THEN Append(it[q \ {Max(q)}], s[Max(q)]) ELSE it[q \ {Max(q)}]]
  BY <1>6, Zenon
<1> HIDE DEF it
<1>8. ASSUME NEW q \in SUBSET (1 .. n), q # {}, it[q \ {Max(q)}] \in Y
      PROVE  it[q] = h[<<Max(q), it[q \ {Max(q)}]>>]
  <2>1. Max(q) \in 1 .. n BY <1>1, <1>8, MaxIndex, Zenon
  <2>2. it[q] = IF s[Max(q)] \in H THEN Append(it[q \ {Max(q)}], s[Max(q)]) ELSE it[q \ {Max(q)}]
    BY <1>7, <1>8, Zenon
  <2> QED BY <1>4, <1>8, <2>1, <2>2, Zenon
<1>9. FoldsLeft(n, Y, <<>>, h, it) BY <1>7, <1>8, Zenon DEF FoldsLeft
<1>10. PICK r \in LeftRuns(n, Y, <<>>, h) : r[n] = it[1 .. n]
  BY <1>1, <1>3, <1>5, <1>9, FoldLeftRun
<1>11. r \in [0 .. n -> Y] /\ r[0] = <<>> BY DEF LeftRuns
<1> DEFINE Kept(k) == ToSet(r[k]) = {s[i] : i \in 1 .. k} \cap H
           G == {k \in 0 .. n : Kept(k)}
<1>12. 0 \in G
  <2>1. {s[i] : i \in 1 .. 0} = {} OBVIOUS
  <2>2. ToSet(<<>>) = {} BY DEF ToSet
  <2> QED BY <1>1, <1>11, <2>1, <2>2
<1>13. ASSUME NEW k \in 1 .. n, k - 1 \in G PROVE k \in G
  <2>1. k - 1 \in 0 .. n /\ k \in 0 .. n BY <1>1
  <2> DEFINE t == r[k - 1]
  <2>2. t \in Seq(X) BY <1>11, <2>1 DEF Y
  <2>3. r[k] = h[<<k, t>>] BY DEF LeftRuns
  <2>4. r[k] = IF s[k] \in H THEN Append(t, s[k]) ELSE t BY <1>4, <2>2, <2>3 DEF Y
  <2>5. ToSet(t) = {s[i] : i \in 1 .. k - 1} \cap H BY <1>13
  <2>6. {s[i] : i \in 1 .. k} = {s[i] : i \in 1 .. k - 1} \cup {s[k]}
    <3>1. \A i : i \in 1 .. k <=> i \in 1 .. k - 1 \/ i = k BY <1>1
    <3> QED BY <3>1
  <2> HIDE DEF t
  <2>7. ToSet(Append(t, s[k])) = ToSet(t) \cup {s[k]}
    <3>1. s[k] \in X BY <1>1
    <3>2. /\ Len(Append(t, s[k])) = Len(t) + 1 /\ Append(t, s[k])[Len(t) + 1] = s[k] /\ Len(t) \in Nat
          /\ \A i \in 1 .. Len(t) : Append(t, s[k])[i] = t[i]
          /\ DOMAIN t = 1 .. Len(t) /\ DOMAIN Append(t, s[k]) = 1 .. Len(t) + 1
      BY <2>2, <3>1
    <3>3. \A i : i \in 1 .. Len(t) + 1 <=> i \in 1 .. Len(t) \/ i = Len(t) + 1 BY <3>2
    <3> QED BY <3>2, <3>3 DEF ToSet
  <2>8. Kept(k) BY <2>4, <2>5, <2>6, <2>7, Zenon
  <2> QED BY <2>1, <2>8
<1>14. n \in G
  <2> HIDE DEF G
  <2>1. \A k \in 0 .. n : k \in G BY <1>1, <1>12, <1>13, UpTo, Zenon
  <2> QED BY <1>1, <2>1
<1>15. Kept(n) /\ n \in 0 .. n BY <1>1, <1>14
<1>16. ToSet(s) = {s[i] : i \in 1 .. n} BY <1>1 DEF ToSet
<1> QED BY <1>2, <1>10, <1>11, <1>15, <1>16 DEF Y

\* What of a sequence is in A is a sequence over A.
LEMMA SequenceOver ==
  ASSUME NEW X, NEW s \in Seq(X), NEW A, ToSet(s) \subseteq A
  PROVE  s \in Seq(A)
<1>1. \A i \in 1 .. Len(s) : s[i] \in A BY DEF ToSet
<1>2. s \in [1 .. Len(s) -> A] /\ Len(s) \in Nat BY <1>1
<1> QED BY <1>2

-----------------------------------------------------------------------------
(* The iterator over the ready transactions *)

\* A finite set of transactions has one of the highest priority.
LEMMA TopPriority ==
  ASSUME NEW S \in SUBSET Txs, S # {}
  PROVE  \E h \in S : \A g \in S : priority(h) >= priority(g)
<1> DEFINE G == {s \in SUBSET S : s = {} \/ \E h \in s : \A g \in s : priority(h) >= priority(g)}
<1>1. IsFiniteSet(S) BY TransactionsAssumption, FS_Subset
<1>2. \A h \in S : priority(h) \in Nat BY TransactionsAssumption DEF priority
<1>3. {} \in G OBVIOUS
<1>4. ASSUME NEW s \in SUBSET S, s # {}, s \ {CHOOSE x \in s : TRUE} \in G PROVE s \in G
  <2> DEFINE c == CHOOSE x \in s : TRUE
  <2>1. c \in s BY <1>4
  <2> HIDE DEF c
  <2>2. CASE s \ {c} = {} BY <1>2, <2>1, <2>2
  <2>3. CASE s \ {c} # {}
    <3>1. PICK h \in s \ {c} : \A g \in s \ {c} : priority(h) >= priority(g) BY <1>4, <2>3 DEF c
    <3>2. CASE priority(h) >= priority(c) BY <3>1, <3>2
    <3>3. CASE ~ priority(h) >= priority(c)
      <4>1. \A g \in s : priority(c) >= priority(g) BY <1>2, <2>1, <3>1, <3>3
      <4> QED BY <2>1, <4>1
    <3> QED BY <3>2, <3>3
  <2> QED BY <2>2, <2>3
<1>5. S \in G
  <2> HIDE DEF G
  <2> QED BY <1>1, <1>3, <1>4, SubsetInduction
<1> QED BY <1>5

\* The iterator's choice exists: equal priorities are told apart by arrival.
LEMMA BestIsOne ==
  ASSUME NEW p, p.arrival \in Seq(Txs), NEW S \in SUBSET Txs, S # {}, S \subseteq ToSet(p.arrival)
  PROVE  Best(p, S) \in S
<1>1. PICK t \in S : \A g \in S : priority(t) >= priority(g) BY TopPriority
<1>2. \A h \in S : priority(h) \in Nat BY TransactionsAssumption DEF priority
<1> DEFINE Top == {h \in S : priority(h) = priority(t)}
           Places == {Position(p, h) : h \in Top}
<1>3. \A h \in S : Position(p, h) \in Nat /\ p.arrival[Position(p, h)] = h
  <2> SUFFICES ASSUME NEW h \in S PROVE Position(p, h) \in Nat /\ p.arrival[Position(p, h)] = h
    OBVIOUS
  <2>1. \E i \in DOMAIN p.arrival : p.arrival[i] = h BY DEF ToSet
  <2>2. Position(p, h) \in DOMAIN p.arrival /\ p.arrival[Position(p, h)] = h BY <2>1 DEF Position
  <2>3. DOMAIN p.arrival \subseteq Nat OBVIOUS
  <2> QED BY <2>2, <2>3
<1>4. Places \in SUBSET Nat /\ Places # {} BY <1>1, <1>3
<1>5. PICK m \in Places : \A y \in Places : m <= y
  <2> HIDE DEF Places
  <2> QED BY <1>4, SmallestElement
<1>6. PICK h \in Top : Position(p, h) = m BY <1>5
<1>7. ASSUME NEW g \in S \ {h}
      PROVE  priority(h) > priority(g) \/ (priority(h) = priority(g) /\ Position(p, h) < Position(p, g))
  <2>1. CASE g \in Top
    <3>1. m <= Position(p, g) BY <1>5, <2>1
    <3>2. Position(p, h) # Position(p, g) BY <1>3
    <3>3. priority(h) = priority(g) BY <2>1
    <3>4. Position(p, h) \in Nat /\ Position(p, g) \in Nat BY <1>3
    <3> QED BY <1>6, <3>1, <3>2, <3>3, <3>4
  <2>2. CASE g \notin Top BY <1>1, <1>2, <2>2
  <2> QED BY <2>1, <2>2
<1>8. \E x \in S : \A g \in S \ {x} : \/ priority(x) > priority(g)
                                     \/ (priority(x) = priority(g) /\ Position(p, x) < Position(p, g))
  <2>1. h \in S OBVIOUS
  <2> QED BY <1>7, <2>1
<1> QED BY <1>8 DEF Best

\* A pool that holds only hashes of A and knows when its ready ones arrived.
PoolHolds(p, A) ==
  /\ p = [ready |-> p.ready, provided |-> p.provided, independent |-> p.independent,
          arrival |-> p.arrival, waiting |-> p.waiting, required |-> p.required,
          waiting_markers |-> p.waiting_markers]
  /\ DOMAIN p.ready \subseteq A /\ DOMAIN p.waiting \subseteq A
  /\ p.independent \subseteq DOMAIN p.ready
  /\ p.arrival \in Seq(Txs) /\ DOMAIN p.ready \subseteq ToSet(p.arrival)

\* The pool has finitely many transactions.
LEMMA FinitePool ==
  ASSUME NEW p, PoolHolds(p, Txs)
  PROVE  Cardinality(DOMAIN p.ready) \in Nat /\ Cardinality(DOMAIN p.waiting) \in Nat
<1>1. DOMAIN p.ready \in SUBSET Txs /\ DOMAIN p.waiting \in SUBSET Txs BY DEF PoolHolds
<1>2. IsFiniteSet(DOMAIN p.ready) /\ IsFiniteSet(DOMAIN p.waiting) BY <1>1, TransactionsAssumption, FS_Subset
<1> QED BY <1>2, FS_CardinalityType

\* The iterator yields ready transactions only.
LEMMA ReadyAreReady ==
  ASSUME NEW A \in SUBSET Txs, NEW p, PoolHolds(p, A)
  PROVE  ready_transactions(p) \in Seq(DOMAIN p.ready)
<1> DEFINE D == DOMAIN p.ready
           n == Cardinality(SUBSET D)
           base == [independent |-> p.independent, yielded |-> <<>>]
           Eq(f, k) == \A i \in 0 .. k : f[i] = IF i = 0 THEN base ELSE iterator_next(p, f[i - 1])
           it == CHOOSE f : f = [i \in 0 .. n |-> IF i = 0 THEN base ELSE iterator_next(p, f[i - 1])]
<1>1. D \in SUBSET Txs /\ p.independent \subseteq D BY DEF PoolHolds
<1>2. n \in Nat
  <2>1. IsFiniteSet(D) BY <1>1, TransactionsAssumption, FS_Subset
  <2>2. IsFiniteSet(SUBSET D) BY <2>1, FS_SUBSET
  <2> QED BY <2>2, FS_CardinalityType
<1>3. ready_transactions(p) = it[n].yielded BY DEF ready_transactions
<1> HIDE DEF n, D, base
<1>4. \E f : f = [i \in 0 .. n |-> IF i = 0 THEN base ELSE iterator_next(p, f[i - 1])]
  <2> DEFINE G == {k \in 0 .. n : \E f : f = [i \in 0 .. n |-> f[i]] /\ Eq(f, k)}
  <2>1. 0 \in G
    <3> DEFINE f == [i \in 0 .. n |-> base]
    <3>1. f = [i \in 0 .. n |-> f[i]] /\ Eq(f, 0) BY <1>2
    <3> HIDE DEF f, Eq
    <3> QED BY <1>2, <3>1
  <2>2. ASSUME NEW k \in 1 .. n, k - 1 \in G PROVE k \in G
    <3>1. PICK f : f = [i \in 0 .. n |-> f[i]] /\ Eq(f, k - 1) BY <2>2
    <3> DEFINE g == [i \in 0 .. n |-> IF i = k THEN iterator_next(p, f[k - 1]) ELSE f[i]]
    <3>2. ASSUME NEW i \in 0 .. k PROVE g[i] = IF i = 0 THEN base ELSE iterator_next(p, g[i - 1])
      <4>1. CASE i = k BY <1>2, <4>1
      <4>2. CASE i # k BY <1>2, <3>1, <4>2
      <4> QED BY <4>1, <4>2
    <3>3. g = [i \in 0 .. n |-> g[i]] OBVIOUS
    <3> HIDE DEF g
    <3>4. k \in 0 .. n BY <1>2
    <3> QED BY <3>2, <3>3, <3>4, Zenon
  <2>3. n \in G
    <3> HIDE DEF G
    <3>1. \A k \in 0 .. n : k \in G BY <1>2, <2>1, <2>2, UpTo
    <3> QED BY <1>2, <3>1
  <2>4. PICK f : f = [i \in 0 .. n |-> f[i]] /\ Eq(f, n) BY <2>3
  <2>5. f = [i \in 0 .. n |-> IF i = 0 THEN base ELSE iterator_next(p, f[i - 1])] BY <2>4
  <2> QED BY <2>5, Zenon
<1>5. it = [i \in 0 .. n |-> IF i = 0 THEN base ELSE iterator_next(p, it[i - 1])] BY <1>4, Zenon
<1>6. Eq(it, n) BY <1>5, Zenon
<1> HIDE DEF it, Eq
<1> DEFINE Fine(x) == /\ x = [independent |-> x.independent, yielded |-> x.yielded]
                      /\ x.independent \subseteq D /\ x.yielded \in Seq(D)
           G == {k \in 0 .. n : Fine(it[k])}
<1>7. 0 \in G
  <2>1. it[0] = base BY <1>2, <1>6 DEF Eq
  <2>2. Fine(base) BY <1>1 DEF base
  <2> QED BY <1>2, <2>1, <2>2
<1>8. ASSUME NEW k \in 1 .. n, k - 1 \in G PROVE k \in G
  <2> DEFINE x == it[k - 1]
  <2>1. Fine(x) BY <1>8
  <2>2. it[k] = iterator_next(p, x) BY <1>2, <1>6 DEF Eq
  <2> HIDE DEF x
  <2>3. CASE x.independent = {} BY <1>2, <2>1, <2>2, <2>3 DEF iterator_next
  <2>4. CASE x.independent # {}
    <3> DEFINE h == Best(p, x.independent)
    <3>1. h \in x.independent
      <4>1. x.independent \in SUBSET Txs /\ x.independent \subseteq ToSet(p.arrival) /\ p.arrival \in Seq(Txs)
        BY <1>1, <2>1 DEF PoolHolds, D
      <4> QED BY <2>4, <4>1, BestIsOne
    <3> HIDE DEF h
    <3>2. it[k] = [independent |-> (x.independent \ {h}) \cup (BagToSet(p.ready[h].unlocks) \cap D),
                   yielded |-> Append(x.yielded, h)]
      BY <2>2, <2>4 DEF iterator_next, h, D
    <3>3. Append(x.yielded, h) \in Seq(D) BY <2>1, <3>1
    <3>4. (x.independent \ {h}) \cup (BagToSet(p.ready[h].unlocks) \cap D) \subseteq D BY <2>1
    <3>5. Fine(it[k]) BY <3>2, <3>3, <3>4
    <3> QED BY <1>2, <3>5
  <2> QED BY <2>3, <2>4
<1>9. n \in G
  <2> HIDE DEF G
  <2>1. \A k \in 0 .. n : k \in G BY <1>2, <1>7, <1>8, UpTo
  <2> QED BY <1>2, <2>1
<1> QED BY <1>3, <1>9 DEF D

-----------------------------------------------------------------------------
(* The operations of the pool *)

\* The fields of a pool after DropReady.
LEMMA DropReadyHolds ==
  ASSUME NEW A \in SUBSET Txs, NEW p, PoolHolds(p, A), NEW gone
  PROVE  /\ PoolHolds(DropReady(p, gone), A)
         /\ DOMAIN DropReady(p, gone).ready = DOMAIN p.ready \ gone
         /\ DropReady(p, gone).waiting = p.waiting
<1> DEFINE D == DOMAIN p.ready \ gone
           a == in_order(p.arrival, D)
           R == Restrict(p.ready, D)
           I == p.independent \ gone
           q == DropReady(p, gone)
<1>0. q = [p EXCEPT !.ready = R, !.independent = I, !.arrival = a] BY DEF DropReady
<1>1. q = [ready |-> R, provided |-> p.provided, independent |-> I,
           arrival |-> a, waiting |-> p.waiting, required |-> p.required,
           waiting_markers |-> p.waiting_markers]
  <2> HIDE DEF R, I, a, q
  <2> QED BY <1>0, Zenon DEF PoolHolds
<1>2. a \in Seq(Txs) /\ ToSet(a) = ToSet(p.arrival) \cap D
  <2> HIDE DEF D
  <2> QED BY InOrder DEF PoolHolds
<1>3. DOMAIN Restrict(p.ready, D) = D BY DEF Restrict
<1> HIDE DEF q, a
<1>4. /\ q.ready = Restrict(p.ready, D) /\ q.independent = p.independent \ gone /\ q.arrival = a
      /\ q.waiting = p.waiting
      /\ q = [ready |-> q.ready, provided |-> q.provided, independent |-> q.independent,
              arrival |-> q.arrival, waiting |-> q.waiting, required |-> q.required,
              waiting_markers |-> q.waiting_markers]
  BY <1>1
<1>5. PoolHolds(q, A) BY <1>2, <1>3, <1>4, Zenon DEF PoolHolds
<1> QED BY <1>3, <1>4, <1>5 DEF q

\* remove_with_markers only takes away.
LEMMA RemoveHolds ==
  ASSUME NEW A \in SUBSET Txs, NEW p, PoolHolds(p, A), NEW hashes
  PROVE  /\ PoolHolds(remove_with_markers(p, hashes), A)
         /\ DOMAIN remove_with_markers(p, hashes).ready \subseteq DOMAIN p.ready
         /\ remove_with_markers(p, hashes).waiting = p.waiting
<1> DEFINE gone == Dependents(p.ready, hashes)
           r == DropReady(p, gone)
           q == remove_with_markers(p, hashes)
<1>1. PoolHolds(r, A) /\ DOMAIN r.ready = DOMAIN p.ready \ gone /\ r.waiting = p.waiting
  <2> HIDE DEF gone
  <2> QED BY DropReadyHolds, Zenon
<1> DEFINE v == Restrict(r.provided, DOMAIN r.provided \ {to_marker(h) : h \in gone})
<1>2. q = [r EXCEPT !.provided = v] BY DEF remove_with_markers
<1> HIDE DEF r, v, q, gone
<1>3. /\ q.ready = r.ready /\ q.independent = r.independent /\ q.arrival = r.arrival /\ q.waiting = r.waiting
      /\ q = [ready |-> q.ready, provided |-> q.provided, independent |-> q.independent,
              arrival |-> q.arrival, waiting |-> q.waiting, required |-> q.required,
              waiting_markers |-> q.waiting_markers]
  BY <1>1, <1>2 DEF PoolHolds
<1>4. PoolHolds(q, A) BY <1>1, <1>3 DEF PoolHolds
<1> QED BY <1>1, <1>3, <1>4 DEF q

\* pending_remove only takes away.
LEMMA PendingRemoveHolds ==
  ASSUME NEW A \in SUBSET Txs, NEW p, PoolHolds(p, A), NEW hashes
  PROVE  PoolHolds(pending_remove(p, hashes), A)
<1> DEFINE gone == hashes \cap DOMAIN p.waiting
           q == pending_remove(p, hashes)
<1>1. \E w, m, r : q = [p EXCEPT !.waiting = Restrict(w, DOMAIN w \ gone), !.waiting_markers = m, !.required = r]
                   /\ w = p.waiting
  BY Zenon DEF pending_remove
<1>2. PICK m, r : q = [p EXCEPT !.waiting = Restrict(p.waiting, DOMAIN p.waiting \ gone),
                                !.waiting_markers = m, !.required = r]
  BY <1>1, Zenon
<1>3. DOMAIN Restrict(p.waiting, DOMAIN p.waiting \ gone) \subseteq DOMAIN p.waiting BY DEF Restrict
<1> HIDE DEF q, gone
<1>4. /\ q.ready = p.ready /\ q.independent = p.independent /\ q.arrival = p.arrival
      /\ DOMAIN q.waiting \subseteq DOMAIN p.waiting
      /\ q = [ready |-> q.ready, provided |-> q.provided, independent |-> q.independent,
              arrival |-> q.arrival, waiting |-> q.waiting, required |-> q.required,
              waiting_markers |-> q.waiting_markers]
  BY <1>2, <1>3, Zenon DEF PoolHolds
<1>5. PoolHolds(q, A) BY <1>4 DEF PoolHolds
<1> QED BY <1>5 DEF q

\* pending_add adds its transaction, or nothing.
LEMMA PendingAddHolds ==
  ASSUME NEW A \in SUBSET Txs, NEW p, PoolHolds(p, A), NEW tx, tx.hash \in Txs, NEW missing
  PROVE  /\ PoolHolds(pending_add(p, tx, missing).pool, A \cup {tx.hash})
         /\ ~ pending_add(p, tx, missing).ok => PoolHolds(pending_add(p, tx, missing).pool, A)
<1> DEFINE o == pending_add(p, tx, missing)
           h == tx.hash
<1>1. PoolHolds(p, A \cup {h}) BY DEF PoolHolds
<1>2. \/ o.pool = p
      \/ o.ok = TRUE /\ \E r, m, t : o.pool = [p EXCEPT !.required = r, !.waiting_markers = m,
                                                      !.waiting = Insert(p.waiting, h, t)]
  BY Zenon DEF pending_add
<1> HIDE DEF o
<1>3. CASE o.pool = p BY <1>1, <1>3 DEF o
<1>4. CASE o.ok = TRUE /\ \E r, m, t : o.pool = [p EXCEPT !.required = r, !.waiting_markers = m,
                                                       !.waiting = Insert(p.waiting, h, t)]
  <2>1. PICK r, m, t : o.pool = [p EXCEPT !.required = r, !.waiting_markers = m,
                                          !.waiting = Insert(p.waiting, h, t)]
    BY <1>4, Zenon
  <2> DEFINE q == o.pool
             w == Insert(p.waiting, h, t)
  <2>2. DOMAIN w = {h} \cup DOMAIN p.waiting BY DEF Insert
  <2>3. q = [p EXCEPT !.required = r, !.waiting_markers = m, !.waiting = w] BY <2>1
  <2> HIDE DEF q, w
  <2>4. /\ q.ready = p.ready /\ q.independent = p.independent /\ q.arrival = p.arrival /\ q.waiting = w
        /\ q = [ready |-> q.ready, provided |-> q.provided, independent |-> q.independent,
                arrival |-> q.arrival, waiting |-> q.waiting, required |-> q.required,
                waiting_markers |-> q.waiting_markers]
    BY <2>3, Zenon DEF PoolHolds
  <2>5. PoolHolds(q, A \cup {h}) BY <1>1, <2>2, <2>4 DEF PoolHolds
  <2> QED BY <1>4, <2>5 DEF q, o
<1> QED BY <1>2, <1>3, <1>4, Zenon

\* What ready_add leaves of a pool p: its transaction h is in the place of those
\* it replaces, or nothing changes.
ReadyAdded(o, p, h, A) ==
  /\ PoolHolds(o.pool, A \cup {h}) /\ o.ok \in BOOLEAN
  /\ ~ o.ok => o.pool = p
  /\ o.replaced \subseteq DOMAIN p.ready
  /\ DOMAIN o.pool.ready \subseteq (DOMAIN p.ready \ o.replaced) \cup {h}
  /\ o.pool.waiting = p.waiting

\* ready_add puts its transaction in the place of those it replaces, or fails.
LEMMA ReadyAddHolds ==
  ASSUME NEW A \in SUBSET Txs, NEW p, PoolHolds(p, A), NEW tx, tx.hash \in Txs
  PROVE  ReadyAdded(ready_add(p, tx), p, tx.hash, A)
<1> DEFINE h == tx.hash
           m == to_marker(h)
           replaced == {x \in DOMAIN p.ready : m \in DOMAIN p.provided /\ p.provided[m] = x}
           providers == {p.provided[r] : r \in tx.requires \cap DOMAIN p.provided}
           rest == DropReady(p, replaced)
           linked == [x \in DOMAIN rest.ready |->
                        IF x \in providers THEN [rest.ready[x] EXCEPT !.unlocks = @ (+) SetToBag({h})]
                                           ELSE rest.ready[x]]
           entry == [requires |-> tx.requires, unlocks |-> inherited_unlocks(p, replaced),
                     offset |-> Cardinality(tx.requires \ DOMAIN p.provided)]
           q == [rest EXCEPT !.ready = Insert(linked, h, entry), !.provided = Insert(@, m, h),
                             !.independent = IF providers = {} THEN @ \cup {h} ELSE @,
                             !.arrival = Append(@, h)]
           o == ready_add(p, tx)
<1>1. \/ o = [ok |-> FALSE, pool |-> p, replaced |-> {}]
      \/ o = [ok |-> TRUE, replaced |-> replaced, pool |-> q]
  BY Zenon DEF ready_add
<1>2. PoolHolds(p, A \cup {h}) BY DEF PoolHolds
<1>3. PoolHolds(rest, A) /\ DOMAIN rest.ready = DOMAIN p.ready \ replaced /\ rest.waiting = p.waiting
  BY DropReadyHolds
<1>4. DOMAIN Insert(linked, h, entry) = DOMAIN rest.ready \cup {h} BY DEF Insert
<1> DEFINE R == Insert(linked, h, entry)
           V == Insert(rest.provided, m, h)
           I == IF providers = {} THEN rest.independent \cup {h} ELSE rest.independent
           a == Append(rest.arrival, h)
<1>5. q = [rest EXCEPT !.ready = R, !.provided = V, !.independent = I, !.arrival = a] OBVIOUS
<1>6. I \subseteq rest.independent \cup {h} OBVIOUS
<1>7. a \in Seq(Txs) /\ ToSet(a) = ToSet(rest.arrival) \cup {h}
  <2> DEFINE t == rest.arrival
  <2>1. t \in Seq(Txs) BY <1>3 DEF PoolHolds
  <2> HIDE DEF t
  <2>2. /\ Len(Append(t, h)) = Len(t) + 1 /\ Append(t, h)[Len(t) + 1] = h /\ Len(t) \in Nat
        /\ \A i \in 1 .. Len(t) : Append(t, h)[i] = t[i]
        /\ DOMAIN t = 1 .. Len(t) /\ DOMAIN Append(t, h) = 1 .. Len(t) + 1
        /\ Append(t, h) \in Seq(Txs)
    BY <2>1
  <2>3. \A i : i \in 1 .. Len(t) + 1 <=> i \in 1 .. Len(t) \/ i = Len(t) + 1 BY <2>2
  <2>4. ToSet(Append(t, h)) = ToSet(t) \cup {h} BY <2>2, <2>3 DEF ToSet
  <2> QED BY <2>2, <2>4, Zenon DEF t
<1>8. replaced \subseteq DOMAIN p.ready OBVIOUS
<1> HIDE DEF q, R, V, I, a, rest, linked, entry, replaced, providers, o, h
<1>9. /\ q.ready = R /\ q.independent = I /\ q.arrival = a /\ q.waiting = rest.waiting
      /\ q = [ready |-> q.ready, provided |-> q.provided, independent |-> q.independent,
              arrival |-> q.arrival, waiting |-> q.waiting, required |-> q.required,
              waiting_markers |-> q.waiting_markers]
  BY <1>3, <1>5, Zenon DEF PoolHolds
<1>10. DOMAIN R = DOMAIN rest.ready \cup {h} BY <1>4 DEF R
<1>11. PoolHolds(q, A \cup {h}) BY <1>3, <1>6, <1>7, <1>9, <1>10 DEF PoolHolds
<1>12. CASE o = [ok |-> FALSE, pool |-> p, replaced |-> {}]
  <2>1. o.ok = FALSE /\ o.pool = p /\ o.replaced = {} BY <1>12
  <2> QED BY <1>2, <2>1, Zenon DEF o, h, ReadyAdded
<1>13. CASE o = [ok |-> TRUE, replaced |-> replaced, pool |-> q]
  <2>1. o.ok = TRUE /\ o.pool = q /\ o.replaced = replaced BY <1>13
  <2>2. DOMAIN q.ready = (DOMAIN p.ready \ replaced) \cup {h} BY <1>3, <1>9, <1>10
  <2> QED BY <1>3, <1>8, <1>9, <1>11, <2>1, <2>2, Zenon DEF o, h, ReadyAdded
<1> QED BY <1>1, <1>12, <1>13

\* mark_and_unlock leaves the ready queue alone and only takes from the waiting one.
LEMMA MarkHolds ==
  ASSUME NEW A \in SUBSET Txs, NEW p, PoolHolds(p, A), NEW m
  PROVE  /\ PoolHolds(mark_and_unlock(p, m).pool, A)
         /\ DOMAIN mark_and_unlock(p, m).pool.waiting \subseteq DOMAIN p.waiting
         /\ mark_and_unlock(p, m).pool.ready = p.ready
<1> DEFINE q == mark_and_unlock(p, m).pool
           hashes == IF m \in DOMAIN p.required THEN p.required[m] ELSE {}
           u == {h \in hashes : p.waiting[h].missing \subseteq {m}}
           r == Restrict(p.required, DOMAIN p.required \ {m})
           w == [h \in DOMAIN p.waiting \ u |->
                   IF h \in hashes THEN [p.waiting[h] EXCEPT !.missing = @ \ {m}] ELSE p.waiting[h]]
           k == Restrict(p.waiting_markers, DOMAIN p.waiting_markers \ {to_marker(h) : h \in u})
<1>1. q = [p EXCEPT !.required = r, !.waiting = w, !.waiting_markers = k] BY DEF mark_and_unlock
<1>2. DOMAIN w = DOMAIN p.waiting \ u OBVIOUS
<1> HIDE DEF hashes, u, r, w, k
<1> HIDE DEF q
<1>3. /\ q.ready = p.ready /\ q.independent = p.independent /\ q.arrival = p.arrival /\ q.waiting = w
      /\ q = [ready |-> q.ready, provided |-> q.provided, independent |-> q.independent,
              arrival |-> q.arrival, waiting |-> q.waiting, required |-> q.required,
              waiting_markers |-> q.waiting_markers]
  BY <1>1, Zenon DEF PoolHolds
<1>4. PoolHolds(q, A) BY <1>2, <1>3 DEF PoolHolds
<1> QED BY <1>2, <1>3, <1>4 DEF q

\* A round of prune_tags keeps what it does not remove.
LEMMA PruneRoundHolds ==
  ASSUME NEW A \in SUBSET Txs, NEW st, PoolHolds(st.pool, A)
  PROVE  PoolHolds(prune_round(st).pool, A)
<1> DEFINE p == st.pool
           m == Last(st.remove)
           found == {h \in DOMAIN p.ready : m \in DOMAIN p.provided /\ p.provided[m] = h}
           provided == Restrict(p.provided, DOMAIN p.provided \ {m})
           h == CHOOSE x \in found : TRUE
           rest == DropReady(p, {h})
           o == prune_round(st)
<1>1. \/ o.pool = p
      \/ o.pool = [p EXCEPT !.provided = provided]
      \/ \E r : DOMAIN r = DOMAIN rest.ready
                /\ o.pool = [rest EXCEPT !.ready = r, !.provided = provided,
                                         !.independent = @ \cup freed(rest.ready, r)]
  BY Zenon DEF prune_round
<1>2. PoolHolds(rest, A) BY DropReadyHolds, Zenon
<1> HIDE DEF p, m, found, provided, h, rest, o
<1>3. CASE o.pool = p BY <1>3 DEF p, o
<1>4. CASE o.pool = [p EXCEPT !.provided = provided]
  <2> DEFINE q == o.pool
  <2>1. q = [p EXCEPT !.provided = provided] BY <1>4
  <2> HIDE DEF q
  <2>2. /\ q.ready = p.ready /\ q.independent = p.independent /\ q.arrival = p.arrival /\ q.waiting = p.waiting
        /\ q = [ready |-> q.ready, provided |-> q.provided, independent |-> q.independent,
                arrival |-> q.arrival, waiting |-> q.waiting, required |-> q.required,
                waiting_markers |-> q.waiting_markers]
    BY <2>1 DEF PoolHolds, p
  <2>3. PoolHolds(q, A) BY <2>2 DEF PoolHolds, p
  <2> QED BY <2>3 DEF q, o
<1>5. CASE \E r : DOMAIN r = DOMAIN rest.ready
                  /\ o.pool = [rest EXCEPT !.ready = r, !.provided = provided,
                                           !.independent = @ \cup freed(rest.ready, r)]
  <2>1. PICK r : DOMAIN r = DOMAIN rest.ready
                 /\ o.pool = [rest EXCEPT !.ready = r, !.provided = provided,
                                          !.independent = @ \cup freed(rest.ready, r)]
    BY <1>5, Zenon
  <2> DEFINE q == o.pool
             F == freed(rest.ready, r)
             I == rest.independent \cup F
  <2>2. F \subseteq DOMAIN rest.ready BY <2>1 DEF freed
  <2>3. q = [rest EXCEPT !.ready = r, !.provided = provided, !.independent = I] BY <2>1
  <2>4. I \subseteq DOMAIN rest.ready BY <1>2, <2>2 DEF PoolHolds
  <2> HIDE DEF q, I, F
  <2>5. /\ q.ready = r /\ q.independent = I /\ q.arrival = rest.arrival /\ q.waiting = rest.waiting
        /\ q = [ready |-> q.ready, provided |-> q.provided, independent |-> q.independent,
                arrival |-> q.arrival, waiting |-> q.waiting, required |-> q.required,
                waiting_markers |-> q.waiting_markers]
    BY <1>2, <2>3, Zenon DEF PoolHolds
  <2>6. PoolHolds(q, A) BY <1>2, <2>1, <2>4, <2>5 DEF PoolHolds
  <2> QED BY <2>6 DEF q, o
<1> QED BY <1>1, <1>3, <1>4, <1>5, Zenon

\* The rounds of prune_tags' loop.
PruneRun(it, n, p, marker) ==
  /\ n \in Nat \ {0}
  /\ it[0] = [pool |-> p, remove |-> <<marker>>]
  /\ \A k \in 1 .. n : it[k] = prune_round(it[k - 1])
  /\ prune_tags(p, marker) = it[n].pool

\* The loop of prune_tags is its rounds, and has at least one.
LEMMA PruneTagsRun ==
  ASSUME NEW p, Cardinality(DOMAIN p.ready) \in Nat, NEW marker
  PROVE  \E it, n : PruneRun(it, n, p, marker)
<1> DEFINE n == Cardinality(DOMAIN p.ready) + 1
           base == [pool |-> p, remove |-> <<marker>>]
           Eq(f, k) == \A i \in 0 .. k : f[i] = IF i = 0 THEN base ELSE prune_round(f[i - 1])
           it == CHOOSE f : f = [i \in 0 .. n |-> IF i = 0 THEN base ELSE prune_round(f[i - 1])]
<1>0. n \in Nat \ {0} OBVIOUS
<1>1. prune_tags(p, marker) = it[n].pool BY DEF prune_tags
<1> HIDE DEF n, base
<1>3. \E f : f = [i \in 0 .. n |-> IF i = 0 THEN base ELSE prune_round(f[i - 1])]
  <2> DEFINE G == {k \in 0 .. n : \E f : f = [i \in 0 .. n |-> f[i]] /\ Eq(f, k)}
  <2>1. 0 \in G
    <3> DEFINE f == [i \in 0 .. n |-> base]
    <3>1. f = [i \in 0 .. n |-> f[i]] /\ Eq(f, 0) BY <1>0
    <3> HIDE DEF f, Eq
    <3> QED BY <1>0, <3>1
  <2>2. ASSUME NEW k \in 1 .. n, k - 1 \in G PROVE k \in G
    <3>1. PICK f : f = [i \in 0 .. n |-> f[i]] /\ Eq(f, k - 1) BY <2>2
    <3> DEFINE g == [i \in 0 .. n |-> IF i = k THEN prune_round(f[k - 1]) ELSE f[i]]
    <3>2. ASSUME NEW i \in 0 .. k PROVE g[i] = IF i = 0 THEN base ELSE prune_round(g[i - 1])
      <4>1. CASE i = k BY <1>0, <4>1
      <4>2. CASE i # k
        <5>0. i \in 0 .. k - 1 BY <1>0, <4>2
        <5>1. f[i] = IF i = 0 THEN base ELSE prune_round(f[i - 1]) BY <3>1, <5>0, Zenon
        <5>2. g[i] = f[i] /\ (i # 0 => g[i - 1] = f[i - 1]) BY <1>0, <4>2
        <5> QED BY <5>1, <5>2
      <4> QED BY <4>1, <4>2
    <3>3. g = [i \in 0 .. n |-> g[i]] OBVIOUS
    <3> HIDE DEF g
    <3>4. k \in 0 .. n BY <1>0
    <3> QED BY <3>2, <3>3, <3>4, Zenon
  <2>3. n \in G
    <3> HIDE DEF G
    <3>1. \A k \in 0 .. n : k \in G BY <1>0, <2>1, <2>2, UpTo
    <3> QED BY <1>0, <3>1
  <2>4. PICK f : f = [i \in 0 .. n |-> f[i]] /\ Eq(f, n) BY <2>3
  <2>5. f = [i \in 0 .. n |-> IF i = 0 THEN base ELSE prune_round(f[i - 1])] BY <2>4
  <2> QED BY <2>5, Zenon
<1>4. it = [i \in 0 .. n |-> IF i = 0 THEN base ELSE prune_round(it[i - 1])] BY <1>3, Zenon
<1>5. Eq(it, n) BY <1>4, Zenon
<1> HIDE DEF it, Eq
<1>6. it[0] = base BY <1>0, <1>5 DEF Eq
<1>7. \A k \in 1 .. n : it[k] = prune_round(it[k - 1]) BY <1>0, <1>5 DEF Eq
<1>8. PruneRun(it, n, p, marker) BY <1>0, <1>1, <1>6, <1>7 DEF PruneRun, base
<1> QED BY <1>8

\* prune_tags keeps what it does not remove.
LEMMA PruneTagsHolds ==
  ASSUME NEW A \in SUBSET Txs, NEW p, PoolHolds(p, A), NEW marker
  PROVE  PoolHolds(prune_tags(p, marker), A)
<1>1. PoolHolds(p, Txs) BY DEF PoolHolds
<1>2. PICK it, n : PruneRun(it, n, p, marker) BY <1>1, FinitePool, PruneTagsRun, Zenon
<1>3. /\ n \in Nat \ {0} /\ it[0] = [pool |-> p, remove |-> <<marker>>] /\ prune_tags(p, marker) = it[n].pool
      /\ \A k \in 1 .. n : it[k] = prune_round(it[k - 1])
  BY <1>2 DEF PruneRun
<1> DEFINE G == {k \in 0 .. n : PoolHolds(it[k].pool, A)}
<1>4. 0 \in G BY <1>3
<1>5. ASSUME NEW k \in 1 .. n, k - 1 \in G PROVE k \in G
  <2>1. PoolHolds(it[k - 1].pool, A) BY <1>5
  <2>2. PoolHolds(it[k].pool, A) BY <1>3, <2>1, PruneRoundHolds
  <2> QED BY <1>3, <2>2
<1>6. n \in G
  <2> HIDE DEF G
  <2>1. \A k \in 0 .. n : k \in G BY <1>3, <1>4, <1>5, UpTo
  <2> QED BY <1>3, <2>1
<1> QED BY <1>3, <1>6

\* The state of add_ready_transaction's loop over what h unlocks: until its first
\* round only h is queued, later only hashes of A; unless h is among the ready
\* ones to stay, the pool holds only hashes of A.
Queued(queue, A) == \E U : queue \in Seq(U) /\ \A x \in U : x.hash \in A

Importing(st, A, h) ==
  /\ PoolHolds(st.pool, A \cup {h}) /\ DOMAIN st.pool.waiting \subseteq A
  /\ st.is_new_tx \in BOOLEAN
  /\ IF st.is_new_tx THEN /\ st.queue # <<>> /\ Head(st.queue).hash = h /\ Tail(st.queue) = <<>>
                          /\ ~st.failed /\ st.removed = {} /\ PoolHolds(st.pool, A)
                     ELSE Queued(st.queue, A)
  /\ st.failed \/ h \in st.removed => PoolHolds(st.pool, A)

\* The hashes that are unlocked are queued behind the others.
LEMMA QueueUp ==
  ASSUME NEW A, NEW q, Queued(q, A), NEW s \in Seq(A), NEW w
  PROVE  Queued(q \o [i \in DOMAIN s |-> [hash |-> s[i], requires |-> w[s[i]].requires]], A)
<1> DEFINE r == [i \in DOMAIN s |-> [hash |-> s[i], requires |-> w[s[i]].requires]]
           V == {[hash |-> a, requires |-> w[a].requires] : a \in A}
<1>1. PICK U : q \in Seq(U) /\ \A x \in U : x.hash \in A BY DEF Queued
<1>2. r \in Seq(V)
  <2>1. DOMAIN s = 1 .. Len(s) /\ Len(s) \in Nat /\ \A i \in 1 .. Len(s) : s[i] \in A OBVIOUS
  <2>2. \A i \in 1 .. Len(s) : r[i] \in V BY <2>1
  <2>3. r = [i \in 1 .. Len(s) |-> r[i]] BY <2>1
  <2> HIDE DEF r, V
  <2>4. r \in [1 .. Len(s) -> V] BY <2>2, <2>3
  <2> QED BY <2>1, <2>4
<1>3. \A x \in V : x.hash \in A OBVIOUS
<1> HIDE DEF r, V
<1>4. q \in Seq(U \cup V) /\ r \in Seq(U \cup V) BY <1>1, <1>2
<1>5. q \o r \in Seq(U \cup V) BY <1>4
<1>6. \A x \in U \cup V : x.hash \in A BY <1>1, <1>3
<1> QED BY <1>5, <1>6, Zenon DEF Queued, r

\* The empty queue holds nothing else.
LEMMA NothingQueued == \A A : Queued(<<>>, A)
<1> TAKE A
<1> DEFINE Empty == {x \in {} : TRUE}
<1>1. <<>> \in Seq(Empty) OBVIOUS
<1>2. \A x \in Empty : x.hash \in A OBVIOUS
<1> HIDE DEF Empty
<1> QED BY <1>1, <1>2 DEF Queued

\* A round of the loop keeps its state as it should be.
LEMMA ImportRoundHolds ==
  ASSUME NEW A \in SUBSET Txs, NEW h \in Txs, NEW order \in Seq(A), NEW st, Importing(st, A, h)
  PROVE  Importing(import_round(st, order), A, h)
<1> DEFINE B == A \cup {h}
           tx == Head(st.queue)
           marked == mark_and_unlock(st.pool, to_marker(tx.hash))
           added == ready_add(marked.pool, tx)
           unlocked == in_order(order, marked.unlocked)
           more == [i \in DOMAIN unlocked |->
                      [hash |-> unlocked[i], requires |-> st.pool.waiting[unlocked[i]].requires]]
           o == import_round(st, order)
<1>1. CASE st.queue = <<>> \/ st.failed BY <1>1, Zenon DEF import_round
<1>2. CASE ~(st.queue = <<>> \/ st.failed)
  <2>1. /\ o.pool = added.pool /\ o.queue = Tail(st.queue) \o more /\ o.failed = (st.is_new_tx /\ ~added.ok)
        /\ o.is_new_tx = FALSE /\ o.removed = st.removed \cup added.replaced
    BY <1>2, Zenon DEF import_round
  <2>2. unlocked \in Seq(A) BY InOrder
  <2>3. Queued(Tail(st.queue), A) /\ tx.hash \in (IF st.is_new_tx THEN {h} ELSE A)
    <3>1. CASE st.is_new_tx
      <4>1. Tail(st.queue) = <<>> /\ tx.hash = h BY <3>1 DEF Importing
      <4> QED BY <3>1, <4>1, NothingQueued, Zenon
    <3>2. CASE ~ st.is_new_tx
      <4>1. PICK U : st.queue \in Seq(U) /\ \A x \in U : x.hash \in A BY <3>2 DEF Importing, Queued
      <4>2. Tail(st.queue) \in Seq(U) /\ tx \in U BY <1>2, <4>1
      <4>3. Queued(Tail(st.queue), A) /\ tx.hash \in A
        <5> HIDE DEF tx
        <5> QED BY <4>1, <4>2 DEF Queued
      <4> QED BY <3>2, <4>3
    <3> QED BY <3>1, <3>2
  <2>4. Queued(o.queue, A)
    <3> HIDE DEF unlocked
    <3>1. Queued(Tail(st.queue) \o more, A) BY <2>2, <2>3, QueueUp, Zenon
    <3> QED BY <2>1, <3>1, Zenon
  <2> HIDE DEF more, unlocked, tx, added, marked, o, B
  <2>5. B \in SUBSET Txs /\ A \subseteq B /\ h \in B /\ tx.hash \in B /\ tx.hash \in Txs BY <2>3 DEF B
  <2>6. /\ PoolHolds(marked.pool, B) /\ marked.pool.ready = st.pool.ready
        /\ DOMAIN marked.pool.waiting \subseteq DOMAIN st.pool.waiting
    <3>1. PoolHolds(st.pool, B) BY DEF Importing, B
    <3> QED BY <2>5, <3>1, MarkHolds, Zenon DEF marked
  <2>7. PoolHolds(st.pool, A) => PoolHolds(marked.pool, A) BY MarkHolds DEF marked
  <2>8. /\ PoolHolds(added.pool, B \cup {tx.hash}) /\ added.ok \in BOOLEAN
        /\ ~ added.ok => added.pool = marked.pool
        /\ added.replaced \subseteq DOMAIN marked.pool.ready
        /\ DOMAIN added.pool.ready \subseteq (DOMAIN marked.pool.ready \ added.replaced) \cup {tx.hash}
        /\ added.pool.waiting = marked.pool.waiting
    <3> DEFINE q == marked.pool
    <3>1. PoolHolds(q, B) BY <2>6
    <3>2. added = ready_add(q, tx) BY DEF added
    <3> HIDE DEF q
    <3>3. ReadyAdded(ready_add(q, tx), q, tx.hash, B) BY <2>5, <3>1, ReadyAddHolds
    <3> QED BY <3>2, <3>3 DEF q, ReadyAdded
  <2>9. PoolHolds(added.pool, B)
    <3>1. B \cup {tx.hash} = B BY <2>5
    <3> QED BY <2>8, <3>1, Zenon
  <2>10. DOMAIN added.pool.waiting \subseteq A BY <2>6, <2>8 DEF Importing
  <2>11. DOMAIN added.pool.ready \subseteq A => PoolHolds(added.pool, A) BY <2>9, <2>10 DEF PoolHolds
  <2>12. ASSUME o.failed PROVE PoolHolds(o.pool, A)
    <3>1. st.is_new_tx /\ ~ added.ok BY <2>1, <2>12, Zenon
    <3>2. PoolHolds(st.pool, A) BY <3>1 DEF Importing
    <3> QED BY <2>1, <2>7, <2>8, <3>1, <3>2
  <2>13. ASSUME h \in o.removed PROVE PoolHolds(o.pool, A)
    <3>1. CASE h \in A
      <4>1. B = A BY <3>1 DEF B
      <4> QED BY <2>1, <2>9, <4>1
    <3>2. CASE h \notin A /\ h \in st.removed
      <4>1. ~ st.is_new_tx /\ PoolHolds(st.pool, A) BY <3>2 DEF Importing
      <4>2. tx.hash \in A BY <2>3, <4>1
      <4>3. DOMAIN marked.pool.ready \subseteq A BY <2>7, <4>1 DEF PoolHolds
      <4>4. DOMAIN added.pool.ready \subseteq A BY <2>8, <4>2, <4>3
      <4> QED BY <2>1, <2>11, <4>4
    <3>3. CASE h \notin A /\ h \in added.replaced
      <4>1. h \in DOMAIN st.pool.ready BY <2>6, <2>8, <3>3
      <4>2. ~ st.is_new_tx BY <3>3, <4>1 DEF Importing, PoolHolds
      <4>3. tx.hash \in A BY <2>3, <4>2
      <4>4. DOMAIN marked.pool.ready \subseteq B BY <2>6 DEF PoolHolds
      <4>5. DOMAIN added.pool.ready \subseteq A BY <2>8, <3>3, <4>3, <4>4 DEF B
      <4> QED BY <2>1, <2>11, <4>5
    <3> QED BY <2>1, <2>13, <3>1, <3>2, <3>3
  <2>14. Importing(o, A, h) BY <2>1, <2>4, <2>9, <2>10, <2>12, <2>13, Zenon DEF Importing, B
  <2> QED BY <2>14 DEF o
<1> QED BY <1>1, <1>2

\* The rounds of add_ready_transaction's loop, and what it makes of the last.
ImportRun(it, n, p, tx, order) ==
  /\ n \in Nat
  /\ it[0] = [pool |-> p, queue |-> <<tx>>, failed |-> FALSE, is_new_tx |-> TRUE,
              promoted |-> <<>>, removed |-> {}]
  /\ \A k \in 1 .. n : it[k] = import_round(it[k - 1], order)
  /\ add_ready_transaction(p, tx, order)
       = IF it[n].failed THEN [ok |-> FALSE, pool |-> it[n].pool, ready |-> <<>>]
         ELSE IF tx.hash \in it[n].removed
         THEN [ok |-> FALSE, pool |-> remove_with_markers(it[n].pool, ToSet(it[n].promoted)), ready |-> <<>>]
         ELSE [ok |-> TRUE, pool |-> it[n].pool, ready |-> <<tx.hash>> \o it[n].promoted]

\* The loop of add_ready_transaction is its rounds.
LEMMA AddReadyRun ==
  ASSUME NEW p, Cardinality(DOMAIN p.waiting) \in Nat, NEW tx, NEW order
  PROVE  \E it, n : ImportRun(it, n, p, tx, order)
<1> DEFINE n == Cardinality(DOMAIN p.waiting) + 1
           base == [pool |-> p, queue |-> <<tx>>, failed |-> FALSE, is_new_tx |-> TRUE,
                    promoted |-> <<>>, removed |-> {}]
           Eq(f, k) == \A i \in 0 .. k : f[i] = IF i = 0 THEN base ELSE import_round(f[i - 1], order)
           it == CHOOSE f : f = [i \in 0 .. n |-> IF i = 0 THEN base ELSE import_round(f[i - 1], order)]
           o == add_ready_transaction(p, tx, order)
<1>0. n \in Nat OBVIOUS
<1>1. o = IF it[n].failed THEN [ok |-> FALSE, pool |-> it[n].pool, ready |-> <<>>]
          ELSE IF tx.hash \in it[n].removed
          THEN [ok |-> FALSE, pool |-> remove_with_markers(it[n].pool, ToSet(it[n].promoted)), ready |-> <<>>]
          ELSE [ok |-> TRUE, pool |-> it[n].pool, ready |-> <<tx.hash>> \o it[n].promoted]
  BY DEF add_ready_transaction
<1> HIDE DEF n, base, o
<1>3. \E f : f = [i \in 0 .. n |-> IF i = 0 THEN base ELSE import_round(f[i - 1], order)]
  <2> DEFINE G == {k \in 0 .. n : \E f : f = [i \in 0 .. n |-> f[i]] /\ Eq(f, k)}
  <2>1. 0 \in G
    <3> DEFINE f == [i \in 0 .. n |-> base]
    <3>1. f = [i \in 0 .. n |-> f[i]] /\ Eq(f, 0) BY <1>0
    <3> HIDE DEF f, Eq
    <3> QED BY <1>0, <3>1
  <2>2. ASSUME NEW k \in 1 .. n, k - 1 \in G PROVE k \in G
    <3>1. PICK f : f = [i \in 0 .. n |-> f[i]] /\ Eq(f, k - 1) BY <2>2
    <3> DEFINE g == [i \in 0 .. n |-> IF i = k THEN import_round(f[k - 1], order) ELSE f[i]]
    <3>2. ASSUME NEW i \in 0 .. k PROVE g[i] = IF i = 0 THEN base ELSE import_round(g[i - 1], order)
      <4>1. CASE i = k BY <1>0, <4>1
      <4>2. CASE i # k
        <5>0. i \in 0 .. k - 1 BY <1>0, <4>2
        <5>1. f[i] = IF i = 0 THEN base ELSE import_round(f[i - 1], order) BY <3>1, <5>0, Zenon
        <5>2. g[i] = f[i] /\ (i # 0 => g[i - 1] = f[i - 1]) BY <1>0, <4>2
        <5> QED BY <5>1, <5>2
      <4> QED BY <4>1, <4>2
    <3>3. g = [i \in 0 .. n |-> g[i]] OBVIOUS
    <3> HIDE DEF g
    <3>4. k \in 0 .. n BY <1>0
    <3> QED BY <3>2, <3>3, <3>4, Zenon
  <2>3. n \in G
    <3> HIDE DEF G
    <3>1. \A k \in 0 .. n : k \in G BY <1>0, <2>1, <2>2, UpTo
    <3> QED BY <1>0, <3>1
  <2>4. PICK f : f = [i \in 0 .. n |-> f[i]] /\ Eq(f, n) BY <2>3
  <2>5. f = [i \in 0 .. n |-> IF i = 0 THEN base ELSE import_round(f[i - 1], order)] BY <2>4
  <2> QED BY <2>5, Zenon
<1>4. it = [i \in 0 .. n |-> IF i = 0 THEN base ELSE import_round(it[i - 1], order)] BY <1>3, Zenon
<1>5. Eq(it, n) BY <1>4, Zenon
<1> HIDE DEF it, Eq
<1>6. it[0] = base BY <1>0, <1>5 DEF Eq
<1>7. \A k \in 1 .. n : it[k] = import_round(it[k - 1], order) BY <1>0, <1>5 DEF Eq
<1>8. ImportRun(it, n, p, tx, order) BY <1>0, <1>1, <1>6, <1>7 DEF ImportRun, base, o
<1> QED BY <1>8

\* add_ready_transaction adds its transaction to the pool, or nothing.
LEMMA AddReadyHolds ==
  ASSUME NEW A \in SUBSET Txs, NEW p, PoolHolds(p, A), NEW tx, tx.hash \in Txs, NEW order \in Seq(A)
  PROVE  /\ PoolHolds(add_ready_transaction(p, tx, order).pool, A \cup {tx.hash})
         /\ ~ add_ready_transaction(p, tx, order).ok => PoolHolds(add_ready_transaction(p, tx, order).pool, A)
<1> DEFINE h == tx.hash
           o == add_ready_transaction(p, tx, order)
<1>1. PoolHolds(p, Txs) BY DEF PoolHolds
<1>2. PICK it, n : ImportRun(it, n, p, tx, order) BY <1>1, FinitePool, AddReadyRun, Zenon
<1>3. n \in Nat BY <1>2 DEF ImportRun
<1> DEFINE G == {k \in 0 .. n : Importing(it[k], A, h)}
<1>4. 0 \in G
  <2>1. it[0] = [pool |-> p, queue |-> <<tx>>, failed |-> FALSE, is_new_tx |-> TRUE,
                 promoted |-> <<>>, removed |-> {}]
    BY <1>2 DEF ImportRun
  <2>2. PoolHolds(p, A \cup {h}) /\ DOMAIN p.waiting \subseteq A BY DEF PoolHolds
  <2>3. <<tx>> # <<>> /\ Head(<<tx>>) = tx /\ Tail(<<tx>>) = <<>> OBVIOUS
  <2>4. Importing(it[0], A, h) BY <2>1, <2>2, <2>3 DEF Importing
  <2> QED BY <1>3, <2>4
<1>5. ASSUME NEW k \in 1 .. n, k - 1 \in G PROVE k \in G
  <2>1. it[k] = import_round(it[k - 1], order) BY <1>2 DEF ImportRun
  <2>2. Importing(it[k - 1], A, h) BY <1>5
  <2>3. Importing(it[k], A, h) BY <2>1, <2>2, ImportRoundHolds
  <2> QED BY <1>3, <2>3
<1>6. n \in G
  <2> HIDE DEF G
  <2>1. \A k \in 0 .. n : k \in G BY <1>3, <1>4, <1>5, UpTo
  <2> QED BY <1>3, <2>1
<1> DEFINE run == it[n]
<1>7. Importing(run, A, h) BY <1>6
<1>8. o = IF run.failed THEN [ok |-> FALSE, pool |-> run.pool, ready |-> <<>>]
          ELSE IF h \in run.removed
          THEN [ok |-> FALSE, pool |-> remove_with_markers(run.pool, ToSet(run.promoted)), ready |-> <<>>]
          ELSE [ok |-> TRUE, pool |-> run.pool, ready |-> <<h>> \o run.promoted]
  BY <1>2 DEF ImportRun
<1> HIDE DEF run, h, o
<1>9. PoolHolds(run.pool, A \cup {h}) /\ (run.failed \/ h \in run.removed => PoolHolds(run.pool, A))
  BY <1>7 DEF Importing
<1>10. CASE run.failed
  <2>1. o.ok = FALSE /\ o.pool = run.pool BY <1>8, <1>10
  <2> QED BY <1>9, <1>10, <2>1 DEF o, h
<1>11. CASE ~ run.failed /\ h \in run.removed
  <2>1. o.ok = FALSE /\ o.pool = remove_with_markers(run.pool, ToSet(run.promoted)) BY <1>8, <1>11
  <2>2. PoolHolds(o.pool, A) BY <1>9, <1>11, <2>1, RemoveHolds
  <2>3. PoolHolds(o.pool, A \cup {h}) BY <2>2 DEF PoolHolds
  <2> QED BY <2>2, <2>3 DEF o, h
<1>12. CASE ~ run.failed /\ h \notin run.removed
  <2>1. o.ok = TRUE /\ o.pool = run.pool BY <1>8, <1>12
  <2> QED BY <1>9, <2>1 DEF o, h
<1> QED BY <1>10, <1>11, <1>12

\* add_transaction adds its transaction to the pool, or nothing.
LEMMA AddHolds ==
  ASSUME NEW A \in SUBSET Txs, NEW p, PoolHolds(p, A), NEW tx, tx.hash \in Txs, NEW order \in Seq(A)
  PROVE  /\ PoolHolds(add_transaction(p, tx, order).pool, A \cup {tx.hash})
         /\ ~ add_transaction(p, tx, order).ok => PoolHolds(add_transaction(p, tx, order).pool, A)
<1> DEFINE missing == tx.requires \ DOMAIN p.provided
           w == pending_add(p, tx, missing)
           r == add_ready_transaction(p, tx, order)
           o == add_transaction(p, tx, order)
           h == tx.hash
<1>1. \/ o.pool = p
      \/ o.pool = w.pool /\ o.ok = w.ok
      \/ o = r
  BY Zenon DEF add_transaction
<1>2. PoolHolds(p, A \cup {h}) BY DEF PoolHolds
<1>3. PoolHolds(w.pool, A \cup {h}) /\ (~ w.ok => PoolHolds(w.pool, A)) BY PendingAddHolds, Zenon
<1>4. PoolHolds(r.pool, A \cup {h}) /\ (~ r.ok => PoolHolds(r.pool, A)) BY AddReadyHolds, Zenon
<1> HIDE DEF w, r, o, h, missing
<1>5. PoolHolds(o.pool, A \cup {h}) /\ (~ o.ok => PoolHolds(o.pool, A)) BY <1>1, <1>2, <1>3, <1>4
<1> QED BY <1>5 DEF o, h

\* One marker of a mined block.
LEMMA PruneMarkerHolds ==
  ASSUME NEW A \in SUBSET Txs, NEW st, PoolHolds(st.pool, A), Queued(st.imports, A),
         NEW m, NEW waiting, NEW order \in Seq(A)
  PROVE  /\ PoolHolds(prune_marker(st, m, waiting, order).pool, A)
         /\ Queued(prune_marker(st, m, waiting, order).imports, A)
<1> DEFINE marked == mark_and_unlock(st.pool, m)
           unlocked == in_order(order, marked.unlocked)
           o == prune_marker(st, m, waiting, order)
<1>1. /\ o.pool = prune_tags(marked.pool, m)
      /\ o.imports = st.imports \o
           [i \in DOMAIN unlocked |-> [hash |-> unlocked[i], requires |-> waiting[unlocked[i]].requires]]
  BY Zenon DEF prune_marker
<1>2. PoolHolds(marked.pool, A) BY MarkHolds
<1>3. unlocked \in Seq(A) BY InOrder
<1> HIDE DEF marked, unlocked, o
<1>4. PoolHolds(o.pool, A) BY <1>1, <1>2, PruneTagsHolds
<1>5. Queued(o.imports, A) BY <1>1, <1>3, QueueUp
<1> QED BY <1>4, <1>5 DEF o

\* The markers of a mined block, one by one.
PrunedState(p, markers, order) ==
  LET st[i \in 0 .. Len(markers)] ==
        IF i = 0 THEN [pool |-> p, imports |-> <<>>] ELSE prune_marker(st[i - 1], markers[i], p.waiting, order)
  IN st[Len(markers)]

\* The steps of that pruning.
MarkerRun(it, p, markers, order) ==
  /\ it[0] = [pool |-> p, imports |-> <<>>]
  /\ \A k \in 1 .. Len(markers) : it[k] = prune_marker(it[k - 1], markers[k], p.waiting, order)
  /\ PrunedState(p, markers, order) = it[Len(markers)]

\* The pruning of a block's markers goes from one to the next.
LEMMA PrunedRun ==
  ASSUME NEW p, NEW markers, Len(markers) \in Nat, NEW order
  PROVE  \E it : MarkerRun(it, p, markers, order)
<1> DEFINE n == Len(markers)
           base == [pool |-> p, imports |-> <<>>]
           Eq(f, k) == \A i \in 0 .. k :
                         f[i] = IF i = 0 THEN base ELSE prune_marker(f[i - 1], markers[i], p.waiting, order)
           it == CHOOSE f : f = [i \in 0 .. n |->
                   IF i = 0 THEN base ELSE prune_marker(f[i - 1], markers[i], p.waiting, order)]
<1>0. n \in Nat OBVIOUS
<1>1. PrunedState(p, markers, order) = it[n] BY DEF PrunedState
<1> HIDE DEF n, base
<1>3. \E f : f = [i \in 0 .. n |-> IF i = 0 THEN base ELSE prune_marker(f[i - 1], markers[i], p.waiting, order)]
  <2> DEFINE G == {k \in 0 .. n : \E f : f = [i \in 0 .. n |-> f[i]] /\ Eq(f, k)}
  <2>1. 0 \in G
    <3> DEFINE f == [i \in 0 .. n |-> base]
    <3>1. f = [i \in 0 .. n |-> f[i]] /\ Eq(f, 0) BY <1>0
    <3> HIDE DEF f, Eq
    <3> QED BY <1>0, <3>1
  <2>2. ASSUME NEW k \in 1 .. n, k - 1 \in G PROVE k \in G
    <3>1. PICK f : f = [i \in 0 .. n |-> f[i]] /\ Eq(f, k - 1) BY <2>2
    <3> DEFINE g == [i \in 0 .. n |-> IF i = k THEN prune_marker(f[k - 1], markers[k], p.waiting, order) ELSE f[i]]
    <3>2. ASSUME NEW i \in 0 .. k PROVE g[i] = IF i = 0 THEN base ELSE prune_marker(g[i - 1], markers[i], p.waiting, order)
      <4>1. CASE i = k BY <1>0, <4>1
      <4>2. CASE i # k
        <5>0. i \in 0 .. k - 1 BY <1>0, <4>2
        <5>1. f[i] = IF i = 0 THEN base ELSE prune_marker(f[i - 1], markers[i], p.waiting, order) BY <3>1, <5>0, Zenon
        <5>2. g[i] = f[i] /\ (i # 0 => g[i - 1] = f[i - 1]) BY <1>0, <4>2
        <5> QED BY <5>1, <5>2
      <4> QED BY <4>1, <4>2
    <3>3. g = [i \in 0 .. n |-> g[i]] OBVIOUS
    <3> HIDE DEF g
    <3>4. k \in 0 .. n BY <1>0
    <3> QED BY <3>2, <3>3, <3>4, Zenon
  <2>3. n \in G
    <3> HIDE DEF G
    <3>1. \A k \in 0 .. n : k \in G BY <1>0, <2>1, <2>2, UpTo
    <3> QED BY <1>0, <3>1
  <2>4. PICK f : f = [i \in 0 .. n |-> f[i]] /\ Eq(f, n) BY <2>3
  <2>5. f = [i \in 0 .. n |-> IF i = 0 THEN base ELSE prune_marker(f[i - 1], markers[i], p.waiting, order)] BY <2>4
  <2> QED BY <2>5, Zenon
<1>4. it = [i \in 0 .. n |-> IF i = 0 THEN base ELSE prune_marker(it[i - 1], markers[i], p.waiting, order)] BY <1>3, Zenon
<1>5. Eq(it, n) BY <1>4, Zenon
<1> HIDE DEF it, Eq
<1>6. it[0] = base BY <1>0, <1>5 DEF Eq
<1>7. \A k \in 1 .. n : it[k] = prune_marker(it[k - 1], markers[k], p.waiting, order) BY <1>0, <1>5 DEF Eq
<1>8. MarkerRun(it, p, markers, order) BY <1>1, <1>6, <1>7 DEF MarkerRun, base, n
<1> QED BY <1>8

\* Pruning keeps what it does not remove, and imports what the pool held.
LEMMA PruningHolds ==
  ASSUME NEW A \in SUBSET Txs, NEW p, PoolHolds(p, A), NEW markers, Len(markers) \in Nat, NEW order \in Seq(A)
  PROVE  /\ PoolHolds(PrunedState(p, markers, order).pool, A)
         /\ Queued(PrunedState(p, markers, order).imports, A)
<1> DEFINE n == Len(markers)
<1>1. PICK it : MarkerRun(it, p, markers, order) BY PrunedRun, Zenon
<1>2. it[0] = [pool |-> p, imports |-> <<>>] /\ PrunedState(p, markers, order) = it[n] BY <1>1 DEF MarkerRun
<1> DEFINE G == {k \in 0 .. n : PoolHolds(it[k].pool, A) /\ Queued(it[k].imports, A)}
<1>3. 0 \in G BY <1>2, NothingQueued
<1>4. ASSUME NEW k \in 1 .. n, k - 1 \in G PROVE k \in G
  <2> DEFINE x == it[k - 1]
             m == markers[k]
             w == p.waiting
  <2>1. it[k] = prune_marker(x, m, w, order) BY <1>1 DEF MarkerRun
  <2>2. PoolHolds(x.pool, A) /\ Queued(x.imports, A) BY <1>4
  <2> HIDE DEF x, m, w
  <2>3. PoolHolds(it[k].pool, A) /\ Queued(it[k].imports, A) BY <2>1, <2>2, PruneMarkerHolds
  <2> QED BY <2>3
<1>5. n \in G
  <2> HIDE DEF G
  <2>1. \A k \in 0 .. n : k \in G BY <1>3, <1>4, UpTo, Zenon
  <2> QED BY <2>1
<1> QED BY <1>2, <1>5

\* What the pruned markers unlock is imported.
LEMMA PruneMarkersHolds ==
  ASSUME NEW A \in SUBSET Txs, NEW p, PoolHolds(p, A), NEW markers, Len(markers) \in Nat, NEW order \in Seq(A)
  PROVE  PoolHolds(prune_markers(p, markers, order), A)
<1> DEFINE pruned == PrunedState(p, markers, order)
           imports == pruned.imports
           base == pruned.pool
           n == Len(imports)
           Eq(f, k) == \A i \in 0 .. k :
                         f[i] = IF i = 0 THEN base ELSE add_ready_transaction(f[i - 1], imports[i], order).pool
           it == CHOOSE f : f = [i \in 0 .. n |->
                   IF i = 0 THEN base ELSE add_ready_transaction(f[i - 1], imports[i], order).pool]
<1>1. prune_markers(p, markers, order) = it[n] BY DEF prune_markers, PrunedState
<1>2. PoolHolds(base, A) /\ Queued(imports, A) BY PruningHolds
<1> HIDE DEF pruned, imports, base
<1>9. PICK U : imports \in Seq(U) /\ \A x \in U : x.hash \in A BY <1>2 DEF Queued
<1>0. n \in Nat BY <1>9
<1>10. \A i \in 1 .. n : imports[i].hash \in A BY <1>9
<1> HIDE DEF n
<1>3. \E f : f = [i \in 0 .. n |-> IF i = 0 THEN base ELSE add_ready_transaction(f[i - 1], imports[i], order).pool]
  <2> DEFINE G == {k \in 0 .. n : \E f : f = [i \in 0 .. n |-> f[i]] /\ Eq(f, k)}
  <2>1. 0 \in G
    <3> DEFINE f == [i \in 0 .. n |-> base]
    <3>1. f = [i \in 0 .. n |-> f[i]] /\ Eq(f, 0) BY <1>0
    <3> HIDE DEF f, Eq
    <3> QED BY <1>0, <3>1
  <2>2. ASSUME NEW k \in 1 .. n, k - 1 \in G PROVE k \in G
    <3>1. PICK f : f = [i \in 0 .. n |-> f[i]] /\ Eq(f, k - 1) BY <2>2
    <3> DEFINE g == [i \in 0 .. n |-> IF i = k THEN add_ready_transaction(f[k - 1], imports[k], order).pool ELSE f[i]]
    <3>2. ASSUME NEW i \in 0 .. k PROVE g[i] = IF i = 0 THEN base ELSE add_ready_transaction(g[i - 1], imports[i], order).pool
      <4>1. CASE i = k BY <1>0, <4>1
      <4>2. CASE i # k
        <5>0. i \in 0 .. k - 1 BY <1>0, <4>2
        <5>1. f[i] = IF i = 0 THEN base ELSE add_ready_transaction(f[i - 1], imports[i], order).pool BY <3>1, <5>0, Zenon
        <5>2. g[i] = f[i] /\ (i # 0 => g[i - 1] = f[i - 1]) BY <1>0, <4>2
        <5> QED BY <5>1, <5>2
      <4> QED BY <4>1, <4>2
    <3>3. g = [i \in 0 .. n |-> g[i]] OBVIOUS
    <3> HIDE DEF g
    <3>4. k \in 0 .. n BY <1>0
    <3> QED BY <3>2, <3>3, <3>4, Zenon
  <2>3. n \in G
    <3> HIDE DEF G
    <3>1. \A k \in 0 .. n : k \in G BY <1>0, <2>1, <2>2, UpTo
    <3> QED BY <1>0, <3>1
  <2>4. PICK f : f = [i \in 0 .. n |-> f[i]] /\ Eq(f, n) BY <2>3
  <2>5. f = [i \in 0 .. n |-> IF i = 0 THEN base ELSE add_ready_transaction(f[i - 1], imports[i], order).pool] BY <2>4, Zenon
  <2> QED BY <2>5, Zenon
<1>4. it = [i \in 0 .. n |-> IF i = 0 THEN base ELSE add_ready_transaction(it[i - 1], imports[i], order).pool] BY <1>3, Zenon
<1>5. Eq(it, n) BY <1>4, Zenon
<1> HIDE DEF it, Eq
<1> DEFINE G == {k \in 0 .. n : PoolHolds(it[k], A)}
<1>6. 0 \in G
  <2>1. it[0] = base BY <1>0, <1>5 DEF Eq
  <2> QED BY <1>0, <1>2, <2>1
<1>7. ASSUME NEW k \in 1 .. n, k - 1 \in G PROVE k \in G
  <2> DEFINE x == it[k - 1]
             tx == imports[k]
  <2>1. it[k] = add_ready_transaction(x, tx, order).pool BY <1>0, <1>5 DEF Eq
  <2>2. PoolHolds(x, A) BY <1>7
  <2>3. tx.hash \in A /\ tx.hash \in Txs BY <1>10
  <2> HIDE DEF x, tx
  <2>4. PoolHolds(it[k], A \cup {tx.hash}) BY <2>1, <2>2, <2>3, AddReadyHolds, Zenon
  <2>5. A \cup {tx.hash} = A BY <2>3
  <2>6. PoolHolds(it[k], A) BY <2>4, <2>5, Zenon
  <2>7. k \in 0 .. n BY <1>0
  <2> QED BY <2>6, <2>7
<1>8. n \in G
  <2> HIDE DEF G
  <2>1. \A k \in 0 .. n : k \in G BY <1>0, <1>6, <1>7, UpTo
  <2> QED BY <1>0, <2>1
<1> QED BY <1>1, <1>8

\* remove_invalid only takes away.
LEMMA RemoveInvalidHolds ==
  ASSUME NEW A \in SUBSET Txs, NEW p, PoolHolds(p, A), NEW hashes
  PROVE  PoolHolds(remove_invalid(p, hashes), A)
<1> DEFINE r == remove_with_markers(p, hashes)
<1>1. remove_invalid(p, hashes) = p \/ remove_invalid(p, hashes) = pending_remove(r, hashes)
  BY DEF remove_invalid
<1>2. PoolHolds(r, A) BY RemoveHolds
<1> HIDE DEF r
<1>3. PoolHolds(pending_remove(r, hashes), A) BY <1>2, PendingRemoveHolds
<1> QED BY <1>1, <1>3

\* A hash set is iterated in an order of its elements.
LEMMA OrdersAreSequences ==
  ASSUME NEW A \in SUBSET Txs, PoolHolds(pool, A), NEW order \in Orders
  PROVE  order \in Seq(A)
<1> DEFINE W == DOMAIN pool.waiting
           n == Cardinality(W)
<1>1. W \in SUBSET A /\ W \in SUBSET Txs BY DEF PoolHolds
<1>2. IsFiniteSet(W) BY <1>1, TransactionsAssumption, FS_Subset
<1>3. n \in Nat BY <1>2, FS_CardinalityType
<1>4. order \in [1 .. n -> W] BY DEF Orders, SetToSeqs
<1> HIDE DEF W, n
<1>5. order \in [1 .. n -> A] BY <1>1, <1>4
<1> QED BY <1>3, <1>5

-----------------------------------------------------------------------------
(* The execution of a block *)

\* What the execution of transactions of T may have come to.
Outcomes(T) ==
  [nonces : [Senders -> Nat], included : Seq(T), invalid : SUBSET T, gas_used : Int]

\* One transaction h after the outcome st: it is skipped, invalid, or the next of
\* its sender.
NextOutcome(o, st, h, T) ==
  /\ o \in Outcomes(T)
  /\ \/ o.nonces = st.nonces /\ o.included = st.included
     \/ /\ nonce[h] = st.nonces[sender[h]]
        /\ o.included = Append(st.included, h)
        /\ o.nonces = [st.nonces EXCEPT ![sender[h]] = st.nonces[sender[h]] + 1]

\* execute_next does one of the three.
LEMMA ExecuteNextOutcome ==
  ASSUME NEW T \in SUBSET Txs, NEW st \in Outcomes(T), NEW h \in T
  PROVE  NextOutcome(execute_next(st, h), st, h, T)
<1> DEFINE o == execute_next(st, h)
           s == sender[h]
           ns == [st.nonces EXCEPT ![s] = st.nonces[s] + 1]
           q == Append(st.included, h)
           u == st.gas_used + gas_limit[h]
           v == st.invalid \cup {h}
<1>1. /\ st.nonces \in [Senders -> Nat] /\ st.included \in Seq(T) /\ st.invalid \in SUBSET T /\ st.gas_used \in Int
      /\ st = [nonces |-> st.nonces, included |-> st.included, invalid |-> st.invalid, gas_used |-> st.gas_used]
  BY DEF Outcomes
<1>2. s \in Senders /\ gas_limit[h] \in Int BY TransactionsAssumption DEF Senders
<1>3. ns \in [Senders -> Nat] /\ q \in Seq(T) /\ u \in Int /\ v \in SUBSET T BY <1>1, <1>2
<1>4. \/ o = st
      \/ o = [st EXCEPT !.invalid = v]
      \/ nonce[h] = st.nonces[s] /\ o = [st EXCEPT !.included = q, !.gas_used = u, !.nonces = ns]
  <2>1. CASE u > block_gas_limit BY <2>1 DEF execute_next
  <2>2. CASE ~(u > block_gas_limit) /\ nonce[h] # st.nonces[s] BY <2>2 DEF execute_next
  <2>3. CASE ~(u > block_gas_limit) /\ nonce[h] = st.nonces[s]
    <3>1. o = [st EXCEPT !.included = Append(@, h), !.gas_used = @ + gas_limit[h], !.nonces[sender[h]] = @ + 1]
      BY <2>3 DEF execute_next
    <3> QED BY <1>1, <2>3, <3>1
  <2> QED BY <2>1, <2>2, <2>3
<1>5. CASE o = st BY <1>5 DEF NextOutcome
<1>6. CASE o = [st EXCEPT !.invalid = v]
  <2> HIDE DEF o, v
  <2>1. o = [nonces |-> st.nonces, included |-> st.included, invalid |-> v, gas_used |-> st.gas_used]
    BY <1>1, <1>6
  <2>2. o \in Outcomes(T) /\ o.included = st.included /\ o.nonces = st.nonces BY <1>1, <1>3, <2>1 DEF Outcomes
  <2> QED BY <2>2 DEF o, NextOutcome
<1>7. CASE nonce[h] = st.nonces[s] /\ o = [st EXCEPT !.included = q, !.gas_used = u, !.nonces = ns]
  <2> HIDE DEF o, q, u, ns
  <2>1. o = [nonces |-> ns, included |-> q, invalid |-> st.invalid, gas_used |-> u]
    BY <1>1, <1>7, Zenon
  <2>2. o \in Outcomes(T) /\ o.included = q /\ o.nonces = ns BY <1>1, <1>3, <2>1 DEF Outcomes
  <2> QED BY <1>7, <2>2 DEF o, q, ns, s, NextOutcome
<1> QED BY <1>4, <1>5, <1>6, <1>7

\* The execution of a block, transaction by transaction.
Execution(r, T, s, ns) ==
  /\ r \in [0 .. Len(s) -> Outcomes(T)]
  /\ r[0].nonces = ns /\ r[0].included = <<>>
  /\ \A k \in 1 .. Len(s) : NextOutcome(r[k], r[k - 1], s[k], T)
  /\ execute(s, ns) = r[Len(s)]

\* execute runs execute_next over the transactions.
LEMMA ExecuteRun ==
  ASSUME NEW T \in SUBSET Txs, NEW s \in Seq(T), NEW ns \in [Senders -> Nat]
  PROVE  \E r : Execution(r, T, s, ns)
<1> DEFINE n == Len(s)
           X == Outcomes(T)
           base == [nonces |-> ns, included |-> <<>>, invalid |-> {}, gas_used |-> 0]
           h == [p \in (1 .. n) \X X |-> execute_next(p[2], s[p[1]])]
           it == CHOOSE g : g = [q \in SUBSET (1 .. n) |->
                                   IF q = {} THEN base ELSE execute_next(g[q \ {Max(q)}], s[Max(q)])]
<1>1. n \in Nat /\ DOMAIN s = 1 .. n /\ \A i \in 1 .. n : s[i] \in T OBVIOUS
<1>2. execute(s, ns) = it[1 .. n] BY <1>1 DEF execute, FoldLeft, MapThenFoldSet
<1>3. \A i \in 1 .. n, x \in X : NextOutcome(execute_next(x, s[i]), x, s[i], T) BY <1>1, ExecuteNextOutcome
<1>4. base \in X /\ base.included = <<>> /\ base.nonces = ns BY DEF Outcomes
<1>5. \A i \in 1 .. n, x \in X : execute_next(x, s[i]) \in X BY <1>3, Zenon DEF NextOutcome
<1> HIDE DEF X, base, n
<1>6. h \in Steps(1 .. n, X) BY <1>5 DEF Steps
<1>7. \A i \in 1 .. n, x \in X : h[<<i, x>>] = execute_next(x, s[i]) OBVIOUS
<1> HIDE DEF h
<1>8. \E g : g = [q \in SUBSET (1 .. n) |->
                    IF q = {} THEN base ELSE execute_next(g[q \ {Max(q)}], s[Max(q)])]
  <2>0. PICK g \in LeftFolds(n, X, base, h) : TRUE BY <1>1, <1>4, <1>6, FoldLeftExists
  <2>1. /\ g \in [SUBSET (1 .. n) -> X]
        /\ \A q \in SUBSET (1 .. n) : g[q] = IF q = {} THEN base ELSE h[<<Max(q), g[q \ {Max(q)}]>>]
    BY Zenon DEF LeftFolds
  <2>2. ASSUME NEW q \in SUBSET (1 .. n), q # {}
        PROVE  g[q] = execute_next(g[q \ {Max(q)}], s[Max(q)])
    <3>1. Max(q) \in 1 .. n BY <1>1, <2>2, MaxIndex, Zenon
    <3>2. g[q \ {Max(q)}] \in X BY <2>1, Zenon
    <3> QED BY <1>7, <2>1, <2>2, <3>1, <3>2, Zenon
  <2>3. g = [q \in SUBSET (1 .. n) |-> IF q = {} THEN base ELSE execute_next(g[q \ {Max(q)}], s[Max(q)])]
    BY <2>1, <2>2, Zenon
  <2> QED BY <2>3, Zenon
<1>9. it = [q \in SUBSET (1 .. n) |-> IF q = {} THEN base ELSE execute_next(it[q \ {Max(q)}], s[Max(q)])]
  BY <1>8, Zenon
<1> HIDE DEF it
<1>10. ASSUME NEW q \in SUBSET (1 .. n), q # {}, it[q \ {Max(q)}] \in X
       PROVE  it[q] = h[<<Max(q), it[q \ {Max(q)}]>>]
  <2>1. Max(q) \in 1 .. n BY <1>1, <1>10, MaxIndex, Zenon
  <2>2. it[q] = execute_next(it[q \ {Max(q)}], s[Max(q)]) BY <1>9, <1>10, Zenon
  <2> QED BY <1>7, <1>10, <2>1, <2>2, Zenon
<1>11. FoldsLeft(n, X, base, h, it) BY <1>9, <1>10, Zenon DEF FoldsLeft
<1>12. PICK r \in LeftRuns(n, X, base, h) : r[n] = it[1 .. n]
  BY <1>1, <1>4, <1>6, <1>11, FoldLeftRun
<1>13. r \in [0 .. n -> X] /\ r[0] = base BY DEF LeftRuns
<1>14. ASSUME NEW k \in 1 .. n PROVE NextOutcome(r[k], r[k - 1], s[k], T)
  <2>1. k - 1 \in 0 .. n BY <1>1
  <2>2. r[k - 1] \in X BY <1>13, <2>1
  <2>3. r[k] = h[<<k, r[k - 1]>>] BY DEF LeftRuns
  <2>4. r[k] = execute_next(r[k - 1], s[k]) BY <1>7, <2>2, <2>3
  <2> QED BY <1>3, <2>2, <2>4
<1>15. Execution(r, T, s, ns) BY <1>2, <1>4, <1>12, <1>13, <1>14 DEF Execution, n, X
<1> QED BY <1>15
================================================================================
