--------------------------- MODULE AnvilIndexProofs ---------------------------
(***************************************************************************)
(* The transaction pool of anvil, for any set of transactions: its indices *)
(* agree, what it rejects leaves no trace, and it keeps up with the blocks *)
(* that are mined.                                                         *)
(*                                                                         *)
(* All three need that nobody waits for a marker that is provided: what    *)
(* rejects a transaction is then not waited for, and neither is what a     *)
(* block includes.                                                         *)
(***************************************************************************)
EXTENDS AnvilPoolProofs

-----------------------------------------------------------------------------
(* The indices of the pool *)

\* The marker a transaction may have to wait for: that of its sender's
\* transaction before it.
Before(h) == <<nonce[h] - 1, sender[h]>>

\* provided_hashes has exactly the markers of the ready transactions.
ReadyIndexed(ready, provided) ==
  /\ DOMAIN provided = {to_marker(h) : h \in DOMAIN ready}
  /\ \A h \in DOMAIN ready : provided[to_marker(h)] = h

\* A waiting transaction misses the marker before its own, and required_markers
\* lists who waits for which.
WaitingIndexed(waiting, required) ==
  /\ waiting = [h \in DOMAIN waiting |-> waiting[h]] /\ required = [m \in DOMAIN required |-> required[m]]
  /\ \A h \in DOMAIN waiting : waiting[h].missing = {Before(h)}
  /\ DOMAIN required = {Before(h) : h \in DOMAIN waiting}
  /\ \A m \in DOMAIN required : required[m] = {h \in DOMAIN waiting : Before(h) = m}

\* The indices agree, and nobody waits for a marker that is provided.
Indexed(p) ==
  /\ ReadyIndexed(p.ready, p.provided)
  /\ WaitingIndexed(p.waiting, p.required)
  /\ p.waiting_markers = [m \in DOMAIN p.waiting_markers |-> p.waiting_markers[m]]
  /\ DOMAIN p.provided \cap DOMAIN p.required = {}

\* A pool that holds no more, and for whom nobody waits for more.
Shrinks(p, q) ==
  /\ DOMAIN q.ready \subseteq DOMAIN p.ready
  /\ DOMAIN q.waiting \subseteq DOMAIN p.waiting
  /\ DOMAIN q.required \subseteq DOMAIN p.required

\* The ready transactions of G are gone from r, and their markers from v.
Dropped(r, v, G, s, w) ==
  /\ G \subseteq DOMAIN r /\ DOMAIN s = DOMAIN r \ G
  /\ DOMAIN w = DOMAIN v \ {to_marker(h) : h \in G}
  /\ \A m \in DOMAIN w : w[m] = v[m]

\* Two ready transactions have different markers, so taking some away leaves the
\* markers of the others.
LEMMA ReadyIndexedDrop ==
  ASSUME NEW r, NEW v, ReadyIndexed(r, v), NEW G, NEW s, NEW w, Dropped(r, v, G, s, w)
  PROVE  ReadyIndexed(s, w)
<1>0. /\ G \subseteq DOMAIN r /\ DOMAIN s = DOMAIN r \ G
      /\ DOMAIN w = DOMAIN v \ {to_marker(h) : h \in G}
      /\ \A m \in DOMAIN w : w[m] = v[m]
  BY DEF Dropped
<1>1. \A h \in DOMAIN r, g \in G : to_marker(h) = to_marker(g) => h = g BY <1>0 DEF ReadyIndexed
<1>2. \A h \in DOMAIN s : to_marker(h) \in DOMAIN w
  <2> HIDE DEF to_marker
  <2> QED BY <1>0, <1>1 DEF ReadyIndexed
<1>3. \A m \in DOMAIN w : \E h \in DOMAIN s : m = to_marker(h) BY <1>0 DEF ReadyIndexed
<1>4. \A h \in DOMAIN s : w[to_marker(h)] = h BY <1>0, <1>2 DEF ReadyIndexed
<1>5. DOMAIN w = {to_marker(h) : h \in DOMAIN s} BY <1>2, <1>3
<1> QED BY <1>4, <1>5 DEF ReadyIndexed

\* The fields that DropReady writes.
LEMMA DropReadyFields ==
  ASSUME NEW p, PoolHolds(p, Txs), NEW gone
  PROVE  /\ DropReady(p, gone).ready = Restrict(p.ready, DOMAIN p.ready \ gone)
         /\ DropReady(p, gone).provided = p.provided
         /\ DropReady(p, gone).waiting = p.waiting
         /\ DropReady(p, gone).required = p.required
         /\ DropReady(p, gone).waiting_markers = p.waiting_markers
<1> DEFINE a == in_order(p.arrival, DOMAIN p.ready \ gone)
           R == Restrict(p.ready, DOMAIN p.ready \ gone)
           I == p.independent \ gone
           q == DropReady(p, gone)
<1>1. q = [p EXCEPT !.ready = R, !.independent = I, !.arrival = a] BY DEF DropReady
<1> HIDE DEF q, R, I, a
<1>2. /\ q.ready = R /\ q.provided = p.provided /\ q.waiting = p.waiting
      /\ q.required = p.required /\ q.waiting_markers = p.waiting_markers
  BY <1>1 DEF PoolHolds
<1> QED BY <1>2 DEF q, R

\* remove_with_markers pops ready transactions only.
LEMMA DependentsAreReady ==
  ASSUME NEW ready, Cardinality(DOMAIN ready) \in Nat, NEW hashes
  PROVE  Dependents(ready, hashes) \subseteq DOMAIN ready
<1> DEFINE n == Cardinality(DOMAIN ready)
           s == [i \in 1 .. n |-> i]
           Y == SUBSET DOMAIN ready
           More(gone) == gone \cup {h \in DOMAIN ready : \E g \in gone : BagIn(h, ready[g].unlocks)}
           base == hashes \cap DOMAIN ready
           h == [p \in (1 .. n) \X Y |-> More(p[2])]
           it == CHOOSE g : g = [q \in SUBSET (1 .. n) |-> IF q = {} THEN base ELSE More(g[q \ {Max(q)}])]
<1>1. n \in Nat /\ DOMAIN s = 1 .. n OBVIOUS
<1>2. Dependents(ready, hashes) = it[1 .. n] BY <1>1 DEF Dependents, FoldLeft, MapThenFoldSet
<1>3. h \in Steps(1 .. n, Y) BY DEF Steps
<1>4. \A i \in 1 .. n, t \in Y : h[<<i, t>>] = More(t) OBVIOUS
<1>5. base \in Y OBVIOUS
<1> HIDE DEF Y, h, n, base, More, s
<1>6. \E g : g = [q \in SUBSET (1 .. n) |-> IF q = {} THEN base ELSE More(g[q \ {Max(q)}])]
  <2>0. PICK g \in LeftFolds(n, Y, base, h) : TRUE BY <1>1, <1>3, <1>5, FoldLeftExists
  <2>1. /\ g \in [SUBSET (1 .. n) -> Y]
        /\ \A q \in SUBSET (1 .. n) : g[q] = IF q = {} THEN base ELSE h[<<Max(q), g[q \ {Max(q)}]>>]
    BY DEF LeftFolds
  <2>2. ASSUME NEW q \in SUBSET (1 .. n), q # {} PROVE g[q] = More(g[q \ {Max(q)}])
    <3>1. Max(q) \in 1 .. n BY <1>1, <2>2, MaxIndex, Zenon
    <3>2. g[q \ {Max(q)}] \in Y BY <2>1, Zenon
    <3> QED BY <1>4, <2>1, <2>2, <3>1, <3>2, Zenon
  <2>3. g = [q \in SUBSET (1 .. n) |-> IF q = {} THEN base ELSE More(g[q \ {Max(q)}])] BY <2>1, <2>2, Zenon
  <2> QED BY <2>3, Zenon
<1>7. it = [q \in SUBSET (1 .. n) |-> IF q = {} THEN base ELSE More(it[q \ {Max(q)}])] BY <1>6, Zenon
<1> HIDE DEF it
<1>8. ASSUME NEW q \in SUBSET (1 .. n), q # {}, it[q \ {Max(q)}] \in Y
      PROVE  it[q] = h[<<Max(q), it[q \ {Max(q)}]>>]
  <2>1. Max(q) \in 1 .. n BY <1>1, <1>8, MaxIndex, Zenon
  <2>2. it[q] = More(it[q \ {Max(q)}]) BY <1>7, <1>8, Zenon
  <2> QED BY <1>4, <1>8, <2>1, <2>2
<1>9. FoldsLeft(n, Y, base, h, it) BY <1>7, <1>8, Zenon DEF FoldsLeft
<1>10. PICK r \in LeftRuns(n, Y, base, h) : r[n] = it[1 .. n] BY <1>1, <1>3, <1>5, <1>9, FoldLeftRun
<1>11. r[n] \in Y BY <1>1 DEF LeftRuns
<1> QED BY <1>2, <1>10, <1>11 DEF Y

\* remove_with_markers takes the markers along.
LEMMA RemoveIndexed ==
  ASSUME NEW p, PoolHolds(p, Txs), Indexed(p), NEW hashes
  PROVE  /\ Indexed(remove_with_markers(p, hashes))
         /\ Shrinks(p, remove_with_markers(p, hashes))
<1> DEFINE gone == Dependents(p.ready, hashes)
           r == DropReady(p, gone)
           q == remove_with_markers(p, hashes)
           v == Restrict(r.provided, DOMAIN r.provided \ {to_marker(h) : h \in gone})
<1>1. gone \in SUBSET DOMAIN p.ready BY FinitePool, DependentsAreReady
<1>2. PoolHolds(r, Txs) BY DropReadyHolds, Zenon
<1>3. /\ r.ready = Restrict(p.ready, DOMAIN p.ready \ gone) /\ r.provided = p.provided
      /\ r.waiting = p.waiting /\ r.required = p.required /\ r.waiting_markers = p.waiting_markers
  BY DropReadyFields
<1>4. q = [r EXCEPT !.provided = v] BY DEF remove_with_markers
<1>5. /\ DOMAIN v = DOMAIN p.provided \ {to_marker(h) : h \in gone}
      /\ \A m \in DOMAIN v : v[m] = p.provided[m]
  <2> HIDE DEF r, gone
  <2> QED BY <1>3 DEF Restrict
<1>6. DOMAIN r.ready = DOMAIN p.ready \ gone
  <2> HIDE DEF r, gone
  <2> QED BY <1>3 DEF Restrict
<1> HIDE DEF r, v, q, gone
<1>7. /\ q.ready = r.ready /\ q.provided = v /\ q.waiting = p.waiting /\ q.required = p.required
      /\ q.waiting_markers = p.waiting_markers
  BY <1>2, <1>3, <1>4 DEF PoolHolds
<1>8. ReadyIndexed(q.ready, q.provided)
  <2>1. Dropped(p.ready, p.provided, gone, q.ready, q.provided) BY <1>1, <1>5, <1>6, <1>7 DEF Dropped
  <2>2. ReadyIndexed(p.ready, p.provided) BY DEF Indexed
  <2> QED BY <2>1, <2>2, ReadyIndexedDrop
<1>9. Indexed(q) BY <1>5, <1>7, <1>8 DEF Indexed
<1>10. Shrinks(p, q) BY <1>6, <1>7 DEF Shrinks
<1> QED BY <1>9, <1>10 DEF q

\* pending_remove takes the required markers along that nobody else waits for.
LEMMA PendingRemoveIndexed ==
  ASSUME NEW p, PoolHolds(p, Txs), Indexed(p), NEW hashes
  PROVE  /\ Indexed(pending_remove(p, hashes))
         /\ Shrinks(p, pending_remove(p, hashes))
<1> DEFINE gone == hashes \cap DOMAIN p.waiting
           left == [m \in DOMAIN p.required |-> p.required[m] \ {h \in gone : m \in p.waiting[h].missing}]
           W == Restrict(p.waiting, DOMAIN p.waiting \ gone)
           K == Restrict(p.waiting_markers, DOMAIN p.waiting_markers \ {to_marker(h) : h \in gone})
           R == Restrict(left, {m \in DOMAIN left : left[m] # {}})
           q == pending_remove(p, hashes)
<1>1. q = [p EXCEPT !.waiting = W, !.waiting_markers = K, !.required = R] BY DEF pending_remove
<1>2. /\ W = [h \in DOMAIN W |-> W[h]] /\ K = [m \in DOMAIN K |-> K[m]] /\ R = [m \in DOMAIN R |-> R[m]]
      /\ DOMAIN W = DOMAIN p.waiting \ gone /\ \A h \in DOMAIN W : W[h] = p.waiting[h]
      /\ DOMAIN R \subseteq DOMAIN p.required
      /\ \A m \in DOMAIN p.required : m \in DOMAIN R <=> left[m] # {}
      /\ \A m \in DOMAIN R : R[m] = left[m]
  BY Zenon DEF Restrict
<1>3. WaitingIndexed(p.waiting, p.required) BY DEF Indexed
<1>4. ASSUME NEW m \in DOMAIN p.required PROVE left[m] = {h \in DOMAIN W : Before(h) = m}
  <2>1. left[m] = p.required[m] \ {h \in gone : m \in p.waiting[h].missing} OBVIOUS
  <2>2. p.required[m] = {h \in DOMAIN p.waiting : Before(h) = m} BY <1>3 DEF WaitingIndexed
  <2>3. \A h \in gone : m \in p.waiting[h].missing <=> Before(h) = m BY <1>3 DEF WaitingIndexed
  <2> HIDE DEF left, W, gone, Before
  <2> QED BY <1>2, <2>1, <2>2, <2>3
<1> HIDE DEF q, W, K, R, left, gone
<1>5. /\ q.ready = p.ready /\ q.provided = p.provided
      /\ q.waiting = W /\ q.waiting_markers = K /\ q.required = R
  BY <1>1 DEF PoolHolds
<1>6. DOMAIN R = {Before(h) : h \in DOMAIN W}
  <2> HIDE DEF Before
  <2>1. \A h \in DOMAIN W : Before(h) \in DOMAIN p.required BY <1>2, <1>3 DEF WaitingIndexed
  <2>2. \A h \in DOMAIN W : Before(h) \in DOMAIN R BY <1>2, <1>4, <2>1
  <2>3. \A m \in DOMAIN R : \E h \in DOMAIN W : m = Before(h) BY <1>2, <1>4
  <2> QED BY <2>2, <2>3
<1>7. WaitingIndexed(W, R)
  <2> HIDE DEF Before
  <2>1. \A h \in DOMAIN W : W[h].missing = {Before(h)} BY <1>2, <1>3 DEF WaitingIndexed
  <2>2. \A m \in DOMAIN R : R[m] = {h \in DOMAIN W : Before(h) = m} BY <1>2, <1>4
  <2> QED BY <1>2, <1>6, <2>1, <2>2 DEF WaitingIndexed
<1>8. Indexed(q) BY <1>2, <1>5, <1>7 DEF Indexed
<1>9. Shrinks(p, q) BY <1>2, <1>5 DEF Shrinks
<1> QED BY <1>8, <1>9 DEF q

\* What pending_add makes of a pool p when its transaction waits.
Waits(o, p, h) ==
  /\ Indexed(o.pool) /\ (~ o.ok => o.pool = p)
  /\ o.pool.ready = p.ready /\ DOMAIN o.pool.waiting \subseteq DOMAIN p.waiting \cup {h}

\* pending_add lists its transaction under the marker it misses.
LEMMA PendingAddIndexed ==
  ASSUME NEW p, PoolHolds(p, Txs), Indexed(p), NEW tx, tx.hash \notin DOMAIN p.waiting,
         Before(tx.hash) \notin DOMAIN p.provided
  PROVE  Waits(pending_add(p, tx, {Before(tx.hash)}), p, tx.hash)
<1> DEFINE h == tx.hash
           b == Before(h)
           R == [r \in DOMAIN p.required \cup {b} |->
                   (IF r \in DOMAIN p.required THEN p.required[r] ELSE {}) \cup (IF r \in {b} THEN {h} ELSE {})]
           K == Insert(p.waiting_markers, to_marker(h), h)
           W == Insert(p.waiting, h, [requires |-> tx.requires, missing |-> {b}])
           o == pending_add(p, tx, {b})
           q == [p EXCEPT !.required = R, !.waiting_markers = K, !.waiting = W]
<1>1. o = [ok |-> FALSE, pool |-> p] \/ o = [ok |-> TRUE, pool |-> q] BY DEF pending_add
<1>2. /\ W = [x \in DOMAIN W |-> W[x]] /\ K = [m \in DOMAIN K |-> K[m]] /\ R = [m \in DOMAIN R |-> R[m]]
      /\ DOMAIN W = DOMAIN p.waiting \cup {h} /\ DOMAIN R = DOMAIN p.required \cup {b}
      /\ W[h] = [requires |-> tx.requires, missing |-> {b}]
      /\ \A x \in DOMAIN p.waiting : x # h => W[x] = p.waiting[x]
      /\ \A m \in DOMAIN p.required : m # b => R[m] = p.required[m]
      /\ R[b] = (IF b \in DOMAIN p.required THEN p.required[b] ELSE {}) \cup {h}
  BY DEF Insert
<1>3. WaitingIndexed(p.waiting, p.required) BY DEF Indexed
<1>4. h \notin DOMAIN p.waiting /\ b \notin DOMAIN p.provided /\ b = Before(h) OBVIOUS
<1> HIDE DEF R, K, W, b, h, o, q
<1>5. /\ q.ready = p.ready /\ q.provided = p.provided
      /\ q.waiting = W /\ q.waiting_markers = K /\ q.required = R
  BY DEF PoolHolds, q
<1>6. WaitingIndexed(W, R)
  <2> HIDE DEF Before
  <2>1. \A x \in DOMAIN W : W[x].missing = {Before(x)} BY <1>2, <1>3, <1>4 DEF WaitingIndexed
  <2>2. DOMAIN R = {Before(x) : x \in DOMAIN W} BY <1>2, <1>3, <1>4 DEF WaitingIndexed
  <2>3. ASSUME NEW m \in DOMAIN R PROVE R[m] = {x \in DOMAIN W : Before(x) = m}
    <3>1. CASE m # b BY <1>2, <1>3, <1>4, <3>1 DEF WaitingIndexed
    <3>2. CASE m = b /\ b \in DOMAIN p.required BY <1>2, <1>3, <1>4, <3>2 DEF WaitingIndexed
    <3>3. CASE m = b /\ b \notin DOMAIN p.required
      <4>1. R[b] = {h} BY <1>2, <3>3
      <4>2. \A x \in DOMAIN p.waiting : Before(x) # b BY <1>3, <3>3 DEF WaitingIndexed
      <4> QED BY <1>2, <1>4, <3>3, <4>1, <4>2
    <3> QED BY <3>1, <3>2, <3>3
  <2> QED BY <1>2, <2>1, <2>2, <2>3 DEF WaitingIndexed
<1>7. Indexed(q) BY <1>2, <1>4, <1>5, <1>6 DEF Indexed
<1>8. CASE o = [ok |-> FALSE, pool |-> p]
  <2>1. o.ok = FALSE /\ o.pool = p BY <1>8
  <2> QED BY <2>1 DEF Waits, o, b, h
<1>9. CASE o = [ok |-> TRUE, pool |-> q]
  <2>1. o.ok = TRUE /\ o.pool = q BY <1>9
  <2> QED BY <1>2, <1>5, <1>7, <2>1 DEF Waits, o, b, h
<1> QED BY <1>1, <1>8, <1>9

\* What mark_and_unlock makes of a pool p: those that wait for the marker m no
\* longer do, and if nobody does nothing changes.
Marked(o, p, m) ==
  /\ Indexed(o.pool)
  /\ m \notin DOMAIN o.pool.required /\ Shrinks(p, o.pool)
  /\ o.pool.ready = p.ready /\ o.pool.provided = p.provided
  /\ o.unlocked = {h \in DOMAIN p.waiting : Before(h) = m}
  /\ m \notin DOMAIN p.required => o.pool = p

\* mark_and_unlock takes what waits for its marker from both indices.
LEMMA MarkIndexed ==
  ASSUME NEW p, PoolHolds(p, Txs), Indexed(p), NEW m
  PROVE  Marked(mark_and_unlock(p, m), p, m)
<1> DEFINE o == mark_and_unlock(p, m)
           hashes == IF m \in DOMAIN p.required THEN p.required[m] ELSE {}
           u == {h \in hashes : p.waiting[h].missing \subseteq {m}}
           R == Restrict(p.required, DOMAIN p.required \ {m})
           W == [h \in DOMAIN p.waiting \ u |->
                   IF h \in hashes THEN [p.waiting[h] EXCEPT !.missing = @ \ {m}] ELSE p.waiting[h]]
           K == Restrict(p.waiting_markers, DOMAIN p.waiting_markers \ {to_marker(h) : h \in u})
           q == [p EXCEPT !.required = R, !.waiting = W, !.waiting_markers = K]
<1>1. o = [unlocked |-> u, pool |-> q] BY DEF mark_and_unlock
<1>2. WaitingIndexed(p.waiting, p.required) BY DEF Indexed
<1>3. hashes = {h \in DOMAIN p.waiting : Before(h) = m}
  <2> HIDE DEF Before
  <2> QED BY <1>2 DEF WaitingIndexed
<1>4. u = hashes
  <2>1. \A h \in hashes : p.waiting[h].missing = {m}
    <3> HIDE DEF hashes, Before
    <3> QED BY <1>2, <1>3 DEF WaitingIndexed
  <2> HIDE DEF hashes
  <2> QED BY <2>1
<1>5. /\ R = [x \in DOMAIN R |-> R[x]] /\ DOMAIN R = DOMAIN p.required \ {m}
      /\ \A x \in DOMAIN R : R[x] = p.required[x]
  BY DEF Restrict
<1>6. W = [h \in DOMAIN W |-> W[h]] /\ DOMAIN W = DOMAIN p.waiting \ u OBVIOUS
<1>7. \A h \in DOMAIN W : W[h] = p.waiting[h]
  <2> HIDE DEF hashes, u
  <2> QED BY <1>4
<1>8. K = [x \in DOMAIN K |-> K[x]] BY DEF Restrict
<1>9. u = {} => K = p.waiting_markers
  <2> HIDE DEF u
  <2> QED BY DEF Restrict, Indexed
<1> HIDE DEF o, hashes, u, R, W, K, q
<1>10. /\ q.ready = p.ready /\ q.provided = p.provided
       /\ q.waiting = W /\ q.waiting_markers = K /\ q.required = R
  BY DEF PoolHolds, q
<1>11. WaitingIndexed(W, R)
  <2> HIDE DEF Before
  <2>1. \A h \in DOMAIN W : W[h].missing = {Before(h)} BY <1>2, <1>6, <1>7 DEF WaitingIndexed
  <2>2. DOMAIN R = {Before(h) : h \in DOMAIN W} BY <1>2, <1>3, <1>4, <1>5, <1>6 DEF WaitingIndexed
  <2>3. \A x \in DOMAIN R : R[x] = {h \in DOMAIN W : Before(h) = x}
    BY <1>2, <1>3, <1>4, <1>5, <1>6 DEF WaitingIndexed
  <2> QED BY <1>5, <1>6, <2>1, <2>2, <2>3 DEF WaitingIndexed
<1>12. Indexed(q) BY <1>5, <1>8, <1>10, <1>11 DEF Indexed
<1>13. Shrinks(p, q) BY <1>5, <1>6, <1>10 DEF Shrinks
<1>14. ASSUME m \notin DOMAIN p.required PROVE q = p
  <2>1. u = {} BY <1>4, <1>14 DEF hashes
  <2>2. R = p.required BY <1>2, <1>5, <1>14 DEF WaitingIndexed
  <2>3. W = p.waiting BY <1>2, <1>6, <1>7, <2>1 DEF WaitingIndexed
  <2>4. K = p.waiting_markers BY <1>9, <2>1
  <2> QED BY <2>2, <2>3, <2>4, Zenon DEF q, PoolHolds
<1>15. o.unlocked = u /\ o.pool = q BY <1>1
<1>16. u = {h \in DOMAIN p.waiting : Before(h) = m} BY <1>3, <1>4
<1> QED BY <1>5, <1>10, <1>12, <1>13, <1>14, <1>15, <1>16 DEF Marked, o

\* What ready_add makes of a pool p: who is replaced had the marker of h, and
\* whoever is rejected as well.
Replaces(o, p, h) ==
  /\ Indexed(o.pool) /\ o.pool.required = p.required
  /\ ~ o.ok => to_marker(h) \in DOMAIN p.provided
  /\ \A x \in o.replaced : to_marker(x) = to_marker(h)

\* ready_add keeps one provider of each marker.
LEMMA ReadyAddIndexed ==
  ASSUME NEW p, PoolHolds(p, Txs), Indexed(p), NEW tx, to_marker(tx.hash) \notin DOMAIN p.required
  PROVE  Replaces(ready_add(p, tx), p, tx.hash)
<1> DEFINE h == tx.hash
           m == to_marker(h)
           replaced == {x \in DOMAIN p.ready : m \in DOMAIN p.provided /\ p.provided[m] = x}
           providers == {p.provided[r] : r \in tx.requires \cap DOMAIN p.provided}
           rest == DropReady(p, replaced)
           linked == [x \in DOMAIN rest.ready |->
                        IF x \in providers THEN [rest.ready[x] EXCEPT !.unlocks = @ (+) SetToBag({h})]
                                           ELSE rest.ready[x]]
           entry == [requires |-> tx.requires, unlocks |-> inherited_unlocks(p, replaced),
                     offset |-> Cardinality(tx.requires \ DOMAIN p.provided)]
           R == Insert(linked, h, entry)
           V == Insert(rest.provided, m, h)
           I == IF providers = {} THEN rest.independent \cup {h} ELSE rest.independent
           a == Append(rest.arrival, h)
           q == [rest EXCEPT !.ready = R, !.provided = V, !.independent = I, !.arrival = a]
           o == ready_add(p, tx)
<1>1. \/ o = [ok |-> FALSE, pool |-> p, replaced |-> {}] /\ replaced # {}
      \/ o = [ok |-> TRUE, replaced |-> replaced, pool |-> q]
  BY Zenon DEF ready_add
<1>2. PoolHolds(rest, Txs) BY DropReadyHolds, Zenon
<1>3. /\ rest.ready = Restrict(p.ready, DOMAIN p.ready \ replaced) /\ rest.provided = p.provided
      /\ rest.waiting = p.waiting /\ rest.required = p.required /\ rest.waiting_markers = p.waiting_markers
  BY DropReadyFields
<1>4. DOMAIN R = DOMAIN rest.ready \cup {h} BY DEF Insert
<1>5. DOMAIN V = DOMAIN rest.provided \cup {m} /\ V[m] = h /\ \A x \in DOMAIN rest.provided : x # m => V[x] = rest.provided[x]
  BY DEF Insert
<1>6. \A x : x \in replaced <=> x \in DOMAIN p.ready /\ m \in DOMAIN p.provided /\ p.provided[m] = x OBVIOUS
<1>7. m = to_marker(h) /\ m \notin DOMAIN p.required OBVIOUS
<1> HIDE DEF m, replaced, providers, rest, linked, entry, R, V, I, a, q, o, h
<1>8. DOMAIN rest.ready = DOMAIN p.ready \ replaced BY <1>3 DEF Restrict
<1>9. /\ q.ready = R /\ q.provided = V /\ q.waiting = p.waiting /\ q.required = p.required
      /\ q.waiting_markers = p.waiting_markers
  BY <1>2, <1>3 DEF PoolHolds, q
<1>10. ReadyIndexed(p.ready, p.provided) BY DEF Indexed
<1>11. \A x \in replaced : to_marker(x) = m
  <2> HIDE DEF to_marker
  <2> QED BY <1>6, <1>10 DEF ReadyIndexed
<1>12. \A x \in DOMAIN p.ready : to_marker(x) = m => x \in replaced
  <2> HIDE DEF to_marker
  <2> QED BY <1>6, <1>10 DEF ReadyIndexed
<1>13. ReadyIndexed(R, V)
  <2> HIDE DEF to_marker
  <2>1. \A x \in DOMAIN R : to_marker(x) \in DOMAIN V /\ V[to_marker(x)] = x
    BY <1>3, <1>4, <1>5, <1>7, <1>8, <1>10, <1>12 DEF ReadyIndexed
  <2>2. ASSUME NEW k \in DOMAIN V PROVE \E x \in DOMAIN R : k = to_marker(x)
    <3>1. CASE k = m BY <1>4, <1>7, <3>1
    <3>2. CASE k # m
      <4>1. PICK x \in DOMAIN p.ready : k = to_marker(x) BY <1>3, <1>5, <1>10, <3>2 DEF ReadyIndexed
      <4>2. x \notin replaced BY <1>11, <3>2, <4>1
      <4> QED BY <1>4, <1>8, <4>1, <4>2
    <3> QED BY <3>1, <3>2
  <2>3. DOMAIN V = {to_marker(x) : x \in DOMAIN R} BY <2>1, <2>2
  <2> QED BY <2>1, <2>3 DEF ReadyIndexed
<1>14. Indexed(q)
  <2>1. DOMAIN V \cap DOMAIN p.required = {} BY <1>3, <1>5, <1>7 DEF Indexed
  <2> QED BY <1>9, <1>13, <2>1 DEF Indexed
<1>15. CASE o = [ok |-> FALSE, pool |-> p, replaced |-> {}] /\ replaced # {}
  <2>1. o.ok = FALSE /\ o.pool = p /\ o.replaced = {} BY <1>15
  <2>2. m \in DOMAIN p.provided BY <1>6, <1>15
  <2> QED BY <1>7, <2>1, <2>2 DEF Replaces, o, h
<1>16. CASE o = [ok |-> TRUE, replaced |-> replaced, pool |-> q]
  <2>1. o.ok = TRUE /\ o.pool = q /\ o.replaced = replaced BY <1>16
  <2> QED BY <1>7, <1>9, <1>11, <1>14, <2>1 DEF Replaces, o, h
<1> QED BY <1>1, <1>15, <1>16

\* The transactions of h's sender after h: what importing h may unlock.
Later(h) == {x \in Txs : sender[x] = sender[h] /\ nonce[x] > nonce[h]}

\* The state of add_ready_transaction's loop when h is imported into p: it has
\* not moved anything when it fails, and never discards h itself.
Promoting(st, p, h) ==
  /\ PoolHolds(st.pool, Txs) /\ Indexed(st.pool)
  /\ DOMAIN st.pool.waiting \subseteq DOMAIN p.waiting
  /\ st.is_new_tx \in BOOLEAN
  /\ IF st.is_new_tx THEN /\ st.queue # <<>> /\ Head(st.queue).hash = h /\ Tail(st.queue) = <<>>
                          /\ st.pool = p
                     ELSE Queued(st.queue, Later(h))
  /\ st.failed => st.pool = p
  /\ h \in st.removed => h \in DOMAIN p.ready

\* A round of the loop keeps its state so.
LEMMA PromotingRound ==
  ASSUME NEW p, NEW h \in Txs, NEW order \in Seq(Txs), NEW st, Promoting(st, p, h)
  PROVE  Promoting(import_round(st, order), p, h)
<1> DEFINE t == Head(st.queue)
           g == t.hash
           m == to_marker(g)
           marked == mark_and_unlock(st.pool, m)
           added == ready_add(marked.pool, t)
           unlocked == in_order(order, marked.unlocked)
           more == [i \in DOMAIN unlocked |->
                      [hash |-> unlocked[i], requires |-> st.pool.waiting[unlocked[i]].requires]]
           o == import_round(st, order)
<1>1. CASE st.queue = <<>> \/ st.failed BY <1>1, Zenon DEF import_round
<1>2. CASE ~(st.queue = <<>> \/ st.failed)
  <2>1. /\ o.pool = added.pool /\ o.queue = Tail(st.queue) \o more /\ o.failed = (st.is_new_tx /\ ~added.ok)
        /\ o.is_new_tx = FALSE /\ o.removed = st.removed \cup added.replaced
    BY <1>2, Zenon DEF import_round
  <2>2. Queued(Tail(st.queue), Later(h)) /\ g \in (IF st.is_new_tx THEN {h} ELSE Later(h))
    <3>1. CASE st.is_new_tx
      <4>1. Tail(st.queue) = <<>> /\ g = h BY <3>1 DEF Promoting
      <4> QED BY <3>1, <4>1, NothingQueued, Zenon
    <3>2. CASE ~ st.is_new_tx
      <4> DEFINE A == Later(h)
      <4>1. PICK U : st.queue \in Seq(U) /\ \A x \in U : x.hash \in A BY <3>2 DEF Promoting, Queued
      <4>2. Tail(st.queue) \in Seq(U) /\ t \in U BY <1>2, <4>1
      <4>3. Queued(Tail(st.queue), A) /\ g \in A
        <5> HIDE DEF t, A
        <5> QED BY <4>1, <4>2 DEF Queued
      <4> QED BY <3>2, <4>3
    <3> QED BY <3>1, <3>2
  <2>3. g \in Txs /\ nonce[g] \in Nat /\ nonce[h] \in Nat /\ nonce[g] >= nonce[h] /\ sender[g] = sender[h]
        /\ (~ st.is_new_tx => nonce[g] > nonce[h])
    <3> HIDE DEF t, g
    <3>1. CASE st.is_new_tx BY <2>2, <3>1, TransactionsAssumption
    <3>2. CASE ~ st.is_new_tx BY <2>2, <3>2, TransactionsAssumption DEF Later
    <3> QED BY <3>1, <3>2
  <2> HIDE DEF more, unlocked, added, marked, o, m, t
  <2>4. Marked(marked, st.pool, m) /\ PoolHolds(marked.pool, Txs)
    BY MarkIndexed, MarkHolds DEF marked, Promoting
  <2>5. m \notin DOMAIN marked.pool.required /\ Indexed(marked.pool) BY <2>4 DEF Marked
  <2> DEFINE q == marked.pool
  <2>6. Replaces(added, q, g) /\ ReadyAdded(added, q, g, Txs)
    <3>1. PoolHolds(q, Txs) /\ Indexed(q) /\ to_marker(t.hash) \notin DOMAIN q.required /\ added = ready_add(q, t)
      BY <2>4, <2>5 DEF m, added
    <3> HIDE DEF q
    <3>2. Replaces(ready_add(q, t), q, t.hash) BY <3>1, ReadyAddIndexed
    <3>3. ReadyAdded(ready_add(q, t), q, t.hash, Txs) BY <2>3, <3>1, ReadyAddHolds
    <3> QED BY <3>1, <3>2, <3>3
  <2> HIDE DEF q
  <2>7. PoolHolds(o.pool, Txs) /\ Indexed(o.pool)
    <3>1. Txs \cup {g} = Txs BY <2>3
    <3> QED BY <2>1, <2>6, <3>1, Zenon DEF Replaces, ReadyAdded
  <2>8. DOMAIN o.pool.waiting \subseteq DOMAIN p.waiting
    <3>1. o.pool.waiting = q.waiting BY <2>1, <2>6 DEF ReadyAdded
    <3>2. DOMAIN q.waiting \subseteq DOMAIN st.pool.waiting BY <2>4 DEF Marked, Shrinks, q
    <3> QED BY <3>1, <3>2 DEF Promoting
  <2>9. Queued(o.queue, Later(h))
    <3>1. marked.unlocked \subseteq Later(h)
      <4>1. marked.unlocked = {x \in DOMAIN st.pool.waiting : Before(x) = m} BY <2>4 DEF Marked
      <4>2. DOMAIN st.pool.waiting \subseteq Txs BY DEF Promoting, PoolHolds
      <4>3. \A x \in Txs : Before(x) = m => nonce[x] - 1 = nonce[g] /\ sender[x] = sender[g]
        BY DEF Before, m, to_marker
      <4>4. \A x \in Txs : nonce[x] \in Nat BY TransactionsAssumption
      <4> HIDE DEF g
      <4> QED BY <2>3, <4>1, <4>2, <4>3, <4>4 DEF Later
    <3>2. unlocked \in Seq(Txs) /\ ToSet(unlocked) = ToSet(order) \cap marked.unlocked BY InOrder DEF unlocked
    <3>3. unlocked \in Seq(Later(h))
      <4>1. ToSet(unlocked) \subseteq Later(h) BY <3>1, <3>2
      <4> QED BY <3>2, <4>1, SequenceOver
    <3> DEFINE A == Later(h)
    <3>4. Queued(Tail(st.queue), A) /\ unlocked \in Seq(A) BY <2>2, <3>3
    <3> HIDE DEF A
    <3>5. Queued(Tail(st.queue) \o more, A) BY <3>4, QueueUp, Zenon DEF more
    <3> QED BY <2>1, <3>5 DEF A
  <2>10. ASSUME o.failed PROVE o.pool = p
    <3>1. st.is_new_tx /\ ~ added.ok BY <2>1, <2>10, Zenon
    <3>2. st.pool = p BY <3>1 DEF Promoting
    <3>3. m \in DOMAIN q.provided BY <2>6, <3>1 DEF Replaces, m
    <3>4. m \in DOMAIN p.provided BY <2>4, <3>2, <3>3 DEF Marked, q
    <3>5. m \notin DOMAIN p.required BY <3>2, <3>4 DEF Promoting, Indexed
    <3>6. q = p BY <2>4, <3>2, <3>5 DEF Marked, q
    <3> QED BY <2>1, <2>6, <3>1, <3>6 DEF ReadyAdded
  <2>11. ASSUME h \in o.removed PROVE h \in DOMAIN p.ready
    <3>1. CASE h \in st.removed BY <3>1 DEF Promoting
    <3>2. CASE h \in added.replaced
      <4>1. to_marker(h) = to_marker(g) BY <2>6, <3>2 DEF Replaces
      <4>2. nonce[h] = nonce[g] BY <4>1 DEF to_marker
      <4>3. st.is_new_tx BY <2>3, <4>2
      <4>4. h \in DOMAIN q.ready BY <2>6, <3>2 DEF ReadyAdded
      <4>5. st.pool = p BY <4>3 DEF Promoting
      <4> QED BY <2>4, <4>4, <4>5 DEF Marked, q
    <3> QED BY <2>1, <2>11, <3>1, <3>2
  <2>12. Promoting(o, p, h) BY <2>1, <2>7, <2>8, <2>9, <2>10, <2>11, Zenon DEF Promoting
  <2> QED BY <2>12 DEF o
<1> QED BY <1>1, <1>2

\* What importing h makes of a pool p: if it fails nothing has changed, unless h
\* was ready before.
Imported(o, p, h) ==
  /\ Indexed(o.pool)
  /\ DOMAIN o.pool.waiting \subseteq DOMAIN p.waiting
  /\ ~ o.ok /\ h \notin DOMAIN p.ready => o.pool = p

\* add_ready_transaction keeps the indices, and fails before it changes anything.
LEMMA AddReadyIndexed ==
  ASSUME NEW p, PoolHolds(p, Txs), Indexed(p), NEW tx, tx.hash \in Txs, NEW order \in Seq(Txs)
  PROVE  Imported(add_ready_transaction(p, tx, order), p, tx.hash)
<1> DEFINE h == tx.hash
           o == add_ready_transaction(p, tx, order)
<1>1. PICK it, n : ImportRun(it, n, p, tx, order) BY FinitePool, AddReadyRun, Zenon
<1>2. n \in Nat BY <1>1 DEF ImportRun
<1> DEFINE G == {k \in 0 .. n : Promoting(it[k], p, h)}
<1>3. 0 \in G
  <2>1. it[0] = [pool |-> p, queue |-> <<tx>>, failed |-> FALSE, is_new_tx |-> TRUE,
                 promoted |-> <<>>, removed |-> {}]
    BY <1>1 DEF ImportRun
  <2>2. <<tx>> # <<>> /\ Head(<<tx>>) = tx /\ Tail(<<tx>>) = <<>> OBVIOUS
  <2>3. Promoting(it[0], p, h) BY <2>1, <2>2 DEF Promoting
  <2> QED BY <1>2, <2>3
<1>4. ASSUME NEW k \in 1 .. n, k - 1 \in G PROVE k \in G
  <2>1. it[k] = import_round(it[k - 1], order) BY <1>1 DEF ImportRun
  <2>2. Promoting(it[k - 1], p, h) BY <1>4
  <2>3. Promoting(it[k], p, h) BY <2>1, <2>2, PromotingRound
  <2> QED BY <1>2, <2>3
<1>5. n \in G
  <2> HIDE DEF G
  <2>1. \A k \in 0 .. n : k \in G BY <1>2, <1>3, <1>4, UpTo
  <2> QED BY <1>2, <2>1
<1> DEFINE run == it[n]
<1>6. Promoting(run, p, h) BY <1>5
<1>7. o = IF run.failed THEN [ok |-> FALSE, pool |-> run.pool, ready |-> <<>>]
          ELSE IF h \in run.removed
          THEN [ok |-> FALSE, pool |-> remove_with_markers(run.pool, ToSet(run.promoted)), ready |-> <<>>]
          ELSE [ok |-> TRUE, pool |-> run.pool, ready |-> <<h>> \o run.promoted]
  BY <1>1 DEF ImportRun
<1> HIDE DEF run, h, o
<1>8. CASE run.failed
  <2>1. o.pool = run.pool BY <1>7, <1>8
  <2> QED BY <1>6, <1>8, <2>1 DEF Promoting, Imported, o, h
<1>9. CASE ~ run.failed /\ h \in run.removed
  <2>1. o.pool = remove_with_markers(run.pool, ToSet(run.promoted)) BY <1>7, <1>9
  <2>2. PoolHolds(run.pool, Txs) /\ Indexed(run.pool) BY <1>6 DEF Promoting
  <2> DEFINE q == run.pool
             P == ToSet(run.promoted)
  <2>3. Indexed(o.pool) /\ Shrinks(q, o.pool)
    <3>1. PoolHolds(q, Txs) /\ Indexed(q) /\ o.pool = remove_with_markers(q, P) BY <2>1, <2>2
    <3> HIDE DEF q, P
    <3> QED BY <3>1, RemoveIndexed
  <2>4. h \in DOMAIN p.ready /\ DOMAIN q.waiting \subseteq DOMAIN p.waiting BY <1>6, <1>9 DEF Promoting
  <2> QED BY <2>3, <2>4 DEF Imported, Shrinks, o, h
<1>10. CASE ~ run.failed /\ h \notin run.removed
  <2>1. o.ok = TRUE /\ o.pool = run.pool BY <1>7, <1>10
  <2> QED BY <1>6, <2>1 DEF Promoting, Imported, o, h
<1> QED BY <1>8, <1>9, <1>10

\* What add_transaction makes of a pool p.
Added(o, p, tx) ==
  /\ Indexed(o.pool)
  /\ DOMAIN o.pool.waiting \subseteq DOMAIN p.waiting \cup (IF tx.requires = {} THEN {} ELSE {tx.hash})
  /\ ~ o.ok => o.pool = p

\* add_transaction keeps the indices, and changes nothing when it fails.
LEMMA AddIndexed ==
  ASSUME NEW p, PoolHolds(p, Txs), Indexed(p), NEW tx, tx.hash \in Txs,
         tx.requires \subseteq {Before(tx.hash)}, NEW order \in Seq(Txs)
  PROVE  Added(add_transaction(p, tx, order), p, tx)
<1> DEFINE h == tx.hash
           missing == tx.requires \ DOMAIN p.provided
           w == pending_add(p, tx, missing)
           r == add_ready_transaction(p, tx, order)
           o == add_transaction(p, tx, order)
<1>1. CASE contains(p, h)
  <2>1. o = [ok |-> FALSE, pool |-> p, ready |-> <<>>] BY <1>1 DEF add_transaction
  <2>2. o.pool = p BY <2>1
  <2> QED BY <2>2 DEF Added
<1>2. CASE ~ contains(p, h) /\ missing # {}
  <2>1. o = [ok |-> w.ok, pool |-> w.pool, ready |-> <<>>] BY <1>2 DEF add_transaction
  <2>2. missing = {Before(h)} /\ tx.requires # {} /\ Before(h) \notin DOMAIN p.provided
    <3> HIDE DEF Before
    <3> QED BY <1>2
  <2>3. h \notin DOMAIN p.waiting BY <1>2 DEF contains
  <2>4. Waits(w, p, h) BY <2>2, <2>3, PendingAddIndexed
  <2> HIDE DEF w, o, missing
  <2>5. o.ok = w.ok /\ o.pool = w.pool BY <2>1
  <2> QED BY <2>2, <2>4, <2>5 DEF Waits, Added, o
<1>3. CASE ~ contains(p, h) /\ missing = {}
  <2>1. o = r BY <1>3 DEF add_transaction
  <2>2. h \notin DOMAIN p.ready BY <1>3 DEF contains
  <2>3. Imported(r, p, h) BY AddReadyIndexed
  <2> HIDE DEF r, o
  <2> QED BY <2>1, <2>2, <2>3 DEF Imported, Added, o
<1> QED BY <1>1, <1>2, <1>3

\* A round of prune_tags takes a transaction and its marker, or a marker that
\* nobody provides.
LEMMA PruneRoundIndexed ==
  ASSUME NEW st, PoolHolds(st.pool, Txs), Indexed(st.pool)
  PROVE  /\ Indexed(prune_round(st).pool) /\ Shrinks(st.pool, prune_round(st).pool)
         /\ st.remove # <<>> => Last(st.remove) \notin DOMAIN prune_round(st).pool.provided
<1> DEFINE p == st.pool
           m == Last(st.remove)
           found == {h \in DOMAIN p.ready : m \in DOMAIN p.provided /\ p.provided[m] = h}
           provided == Restrict(p.provided, DOMAIN p.provided \ {m})
           h == CHOOSE x \in found : TRUE
           rest == DropReady(p, {h})
           o == prune_round(st)
<1>1. \/ st.remove = <<>> /\ o.pool = p
      \/ found = {} /\ o.pool = [p EXCEPT !.provided = provided]
      \/ /\ found # {}
         /\ \E r, I : DOMAIN r = DOMAIN rest.ready
                      /\ o.pool = [rest EXCEPT !.ready = r, !.provided = provided, !.independent = I]
  BY Zenon DEF prune_round
<1>2. PoolHolds(rest, Txs) /\ DOMAIN rest.ready = DOMAIN p.ready \ {h} BY DropReadyHolds
<1>3. /\ rest.waiting = p.waiting /\ rest.required = p.required /\ rest.waiting_markers = p.waiting_markers
  BY DropReadyFields, Zenon
<1>4. DOMAIN provided = DOMAIN p.provided \ {m} /\ \A x \in DOMAIN provided : provided[x] = p.provided[x]
  BY DEF Restrict
<1>5. ReadyIndexed(p.ready, p.provided) BY DEF Indexed
<1>6. found = {} => m \notin DOMAIN p.provided
  <2> HIDE DEF m, p, to_marker
  <2> QED BY <1>5 DEF ReadyIndexed
<1>7. found # {} => h \in DOMAIN p.ready /\ m \in DOMAIN p.provided /\ p.provided[m] = h
  <2>1. found # {} => h \in found OBVIOUS
  <2> HIDE DEF h, m, p
  <2> QED BY <2>1
<1>8. found # {} => to_marker(h) = m
  <2> HIDE DEF h, m, p, found, to_marker
  <2> QED BY <1>5, <1>7 DEF ReadyIndexed
<1>9. PoolHolds(p, Txs) /\ Indexed(p) OBVIOUS
<1>10. Shrinks(p, p) BY DEF Shrinks
<1> HIDE DEF p, m, found, provided, h, rest, o
<1>11. CASE st.remove = <<>> /\ o.pool = p BY <1>9, <1>10, <1>11 DEF p, o
<1>12. CASE found = {} /\ o.pool = [p EXCEPT !.provided = provided]
  <2> DEFINE q == o.pool
  <2>1. q = [p EXCEPT !.provided = provided] BY <1>12
  <2> HIDE DEF q
  <2>2. /\ q.ready = p.ready /\ q.provided = provided /\ q.waiting = p.waiting /\ q.required = p.required
        /\ q.waiting_markers = p.waiting_markers
    BY <1>9, <2>1 DEF PoolHolds
  <2>3. ReadyIndexed(p.ready, provided)
    <3>1. Dropped(p.ready, p.provided, {}, p.ready, provided) BY <1>4, <1>6, <1>12 DEF Dropped
    <3> QED BY <1>5, <3>1, ReadyIndexedDrop
  <2>4. Indexed(q) BY <1>4, <1>9, <2>2, <2>3 DEF Indexed
  <2>5. Shrinks(p, q) BY <2>2 DEF Shrinks
  <2> QED BY <1>4, <2>2, <2>4, <2>5 DEF q, o, p, m
<1>13. CASE /\ found # {}
            /\ \E r, I : DOMAIN r = DOMAIN rest.ready
                         /\ o.pool = [rest EXCEPT !.ready = r, !.provided = provided, !.independent = I]
  <2>1. PICK r, I : DOMAIN r = DOMAIN rest.ready
                    /\ o.pool = [rest EXCEPT !.ready = r, !.provided = provided, !.independent = I]
    BY <1>13, Zenon
  <2> DEFINE q == o.pool
  <2>2. q = [rest EXCEPT !.ready = r, !.provided = provided, !.independent = I] BY <2>1
  <2> HIDE DEF q
  <2>3. /\ q.ready = r /\ q.provided = provided /\ q.waiting = p.waiting /\ q.required = p.required
        /\ q.waiting_markers = p.waiting_markers
    BY <1>2, <1>3, <2>2 DEF PoolHolds
  <2>4. ReadyIndexed(r, provided)
    <3>1. {to_marker(x) : x \in {h}} = {m} BY <1>8, <1>13
    <3>2. Dropped(p.ready, p.provided, {h}, r, provided) BY <1>2, <1>4, <1>7, <1>13, <2>1, <3>1 DEF Dropped
    <3> QED BY <1>5, <3>2, ReadyIndexedDrop
  <2>5. Indexed(q) BY <1>4, <1>9, <2>3, <2>4 DEF Indexed
  <2>6. Shrinks(p, q) BY <1>2, <2>1, <2>3 DEF Shrinks
  <2> QED BY <1>4, <2>3, <2>5, <2>6 DEF q, o, p, m
<1> QED BY <1>1, <1>11, <1>12, <1>13, Zenon

\* q is what is left of p, and nobody provides m any more.
Unprovided(q, p, m) ==
  PoolHolds(q, Txs) /\ Indexed(q) /\ Shrinks(p, q) /\ m \notin DOMAIN q.provided

\* What is left of a pool provides no more markers.
LEMMA ProvidesNoMore ==
  ASSUME NEW p, Indexed(p), NEW q, Indexed(q), Shrinks(p, q)
  PROVE  DOMAIN q.provided \subseteq DOMAIN p.provided
<1> HIDE DEF to_marker
<1> QED BY DEF Indexed, Shrinks, ReadyIndexed

\* What is left of what is left of a pool is left of the pool.
LEMMA ShrinksOn ==
  ASSUME NEW p, NEW q, NEW r, Shrinks(p, q), Shrinks(q, r)
  PROVE  Shrinks(p, r)
BY DEF Shrinks

\* prune_tags leaves nobody that provides its marker.
LEMMA PruneTagsIndexed ==
  ASSUME NEW p, PoolHolds(p, Txs), Indexed(p), NEW marker
  PROVE  Unprovided(prune_tags(p, marker), p, marker)
<1>1. PICK it, n : PruneRun(it, n, p, marker) BY FinitePool, PruneTagsRun, Zenon
<1>2. n \in Nat \ {0} /\ it[0] = [pool |-> p, remove |-> <<marker>>] /\ prune_tags(p, marker) = it[n].pool
  BY <1>1 DEF PruneRun
<1>3. \A k \in 1 .. n : it[k] = prune_round(it[k - 1]) BY <1>1 DEF PruneRun
<1> DEFINE Fine(k) == /\ PoolHolds(it[k].pool, Txs) /\ Indexed(it[k].pool) /\ Shrinks(p, it[k].pool)
                      /\ k # 0 => marker \notin DOMAIN it[k].pool.provided
           G == {k \in 0 .. n : Fine(k)}
<1>4. 0 \in G
  <2>1. it[0].pool = p BY <1>2
  <2>2. Shrinks(p, p) BY DEF Shrinks
  <2> QED BY <1>2, <2>1, <2>2
<1>5. ASSUME NEW k \in 1 .. n, k - 1 \in G PROVE k \in G
  <2> DEFINE x == it[k - 1]
             y == it[k]
  <2>1. Fine(k - 1) /\ y = prune_round(x) BY <1>3, <1>5
  <2>2. /\ PoolHolds(x.pool, Txs) /\ Indexed(x.pool) /\ Shrinks(p, x.pool)
        /\ k - 1 # 0 => marker \notin DOMAIN x.pool.provided
    BY <2>1
  <2>3. k = 1 => x.remove # <<>> /\ Last(x.remove) = marker
    <3>1. Len(<<marker>>) = 1 /\ <<marker>>[1] = marker /\ <<marker>> # <<>> OBVIOUS
    <3>2. k = 1 => x.remove = <<marker>> BY <1>2
    <3> QED BY <3>1, <3>2 DEF Last
  <2> HIDE DEF x, y
  <2>4. /\ PoolHolds(y.pool, Txs) /\ Indexed(y.pool) /\ Shrinks(x.pool, y.pool)
        /\ x.remove # <<>> => Last(x.remove) \notin DOMAIN y.pool.provided
    <3>1. PoolHolds(prune_round(x).pool, Txs) BY <2>2, PruneRoundHolds
    <3>2. /\ Indexed(prune_round(x).pool) /\ Shrinks(x.pool, prune_round(x).pool)
          /\ x.remove # <<>> => Last(x.remove) \notin DOMAIN prune_round(x).pool.provided
      BY <2>2, PruneRoundIndexed
    <3> QED BY <2>1, <3>1, <3>2
  <2>5. Shrinks(p, y.pool) BY <2>2, <2>4, ShrinksOn
  <2>6. DOMAIN y.pool.provided \subseteq DOMAIN x.pool.provided BY <2>2, <2>4, ProvidesNoMore
  <2>7. marker \notin DOMAIN y.pool.provided
    <3>1. CASE k = 1 BY <2>3, <2>4, <3>1
    <3>2. CASE k # 1
      <4>1. k - 1 # 0 BY <1>2, <3>2
      <4> QED BY <2>2, <2>6, <4>1
    <3> QED BY <3>1, <3>2
  <2>8. Fine(k) BY <2>4, <2>5, <2>7 DEF y
  <2>9. k \in 0 .. n BY <1>2
  <2> QED BY <2>8, <2>9
<1>6. n \in G
  <2> HIDE DEF G
  <2>1. \A k \in 0 .. n : k \in G BY <1>2, <1>4, <1>5, UpTo
  <2> QED BY <1>2, <2>1
<1>7. Fine(n) /\ n # 0 BY <1>2, <1>6
<1> QED BY <1>2, <1>7 DEF Unprovided

\* One marker of a mined block that nobody waits for: what provides it goes, and
\* there is nothing to import.
LEMMA PruneMarkerIndexed ==
  ASSUME NEW st, PoolHolds(st.pool, Txs), Indexed(st.pool), st.imports = <<>>,
         NEW m, m \notin DOMAIN st.pool.required, NEW waiting, NEW order \in Seq(Txs)
  PROVE  /\ Unprovided(prune_marker(st, m, waiting, order).pool, st.pool, m)
         /\ prune_marker(st, m, waiting, order).imports = <<>>
<1> DEFINE p == st.pool
           marked == mark_and_unlock(p, m)
           unlocked == in_order(order, marked.unlocked)
           more == [i \in DOMAIN unlocked |-> [hash |-> unlocked[i], requires |-> waiting[unlocked[i]].requires]]
           o == prune_marker(st, m, waiting, order)
<1>1. o.pool = prune_tags(marked.pool, m) /\ o.imports = st.imports \o more BY DEF prune_marker
<1>2. Marked(marked, p, m) BY MarkIndexed
<1>3. PoolHolds(p, Txs) /\ Indexed(p) /\ m \notin DOMAIN p.required OBVIOUS
<1> HIDE DEF marked, p
<1>4. marked.pool = p BY <1>2, <1>3 DEF Marked
<1>5. marked.unlocked = {}
  <2> HIDE DEF Before
  <2> QED BY <1>2, <1>3 DEF Marked, Indexed, WaitingIndexed
<1>6. unlocked \in Seq(Txs) /\ ToSet(unlocked) = {}
  <2>1. unlocked \in Seq(Txs) /\ ToSet(unlocked) = ToSet(order) \cap marked.unlocked BY InOrder
  <2> QED BY <1>5, <2>1
<1> HIDE DEF unlocked
<1>7. DOMAIN unlocked = {}
  <2>1. \A i \in DOMAIN unlocked : unlocked[i] \in ToSet(unlocked) BY DEF ToSet
  <2> QED BY <1>6, <2>1, Zenon
<1>8. more = <<>> BY <1>7
<1> HIDE DEF more, o
<1>9. o.imports = <<>> BY <1>1, <1>8
<1>10. Unprovided(o.pool, p, m) BY <1>1, <1>3, <1>4, PruneTagsIndexed
<1> QED BY <1>9, <1>10 DEF o, p

\* What is left of p when the markers of a block are pruned.
MarkersPruned(q, p, markers) ==
  /\ PoolHolds(q, Txs) /\ Indexed(q) /\ Shrinks(p, q)
  /\ \A i \in 1 .. Len(markers) : markers[i] \notin DOMAIN q.provided

\* The markers of a block that nobody waits for: all that provides one goes.
LEMMA PruneMarkersIndexed ==
  ASSUME NEW p, PoolHolds(p, Txs), Indexed(p), NEW markers, Len(markers) \in Nat,
         \A i \in 1 .. Len(markers) : markers[i] \notin DOMAIN p.required, NEW order \in Seq(Txs)
  PROVE  MarkersPruned(prune_markers(p, markers, order), p, markers)
<1> DEFINE n == Len(markers)
<1>1. PICK it : MarkerRun(it, p, markers, order) BY PrunedRun, Zenon
<1> DEFINE Fine(k) == /\ PoolHolds(it[k].pool, Txs) /\ Indexed(it[k].pool) /\ Shrinks(p, it[k].pool)
                      /\ \A i \in 1 .. k : markers[i] \notin DOMAIN it[k].pool.provided
                      /\ it[k].imports = <<>>
           G == {k \in 0 .. n : Fine(k)}
<1>2. 0 \in G
  <2>1. it[0] = [pool |-> p, imports |-> <<>>] BY <1>1 DEF MarkerRun
  <2>2. Shrinks(p, p) BY DEF Shrinks
  <2>3. Fine(0) BY <2>1, <2>2
  <2> QED BY <2>3
<1>3. ASSUME NEW k \in 1 .. n, k - 1 \in G PROVE k \in G
  <2> DEFINE x == it[k - 1]
             y == it[k]
             m == markers[k]
             w == p.waiting
  <2>1. y = prune_marker(x, m, w, order) BY <1>1 DEF MarkerRun
  <2>2. /\ PoolHolds(x.pool, Txs) /\ Indexed(x.pool) /\ Shrinks(p, x.pool) /\ x.imports = <<>>
        /\ \A i \in 1 .. k - 1 : markers[i] \notin DOMAIN x.pool.provided
    BY <1>3
  <2>3. m \notin DOMAIN x.pool.required BY <2>2 DEF Shrinks
  <2> HIDE DEF x, y, m, w
  <2>4. Unprovided(y.pool, x.pool, m) /\ y.imports = <<>> BY <2>1, <2>2, <2>3, PruneMarkerIndexed
  <2>5. PoolHolds(y.pool, Txs) /\ Indexed(y.pool) /\ Shrinks(x.pool, y.pool) /\ m \notin DOMAIN y.pool.provided
    BY <2>4 DEF Unprovided
  <2>6. Shrinks(p, y.pool) BY <2>2, <2>5, ShrinksOn
  <2>7. DOMAIN y.pool.provided \subseteq DOMAIN x.pool.provided BY <2>2, <2>5, ProvidesNoMore
  <2>8. ASSUME NEW i \in 1 .. k PROVE markers[i] \notin DOMAIN y.pool.provided
    <3>1. CASE i = k BY <2>5, <3>1 DEF m
    <3>2. CASE i # k
      <4>1. i \in 1 .. k - 1 BY <3>2
      <4> QED BY <2>2, <2>7, <4>1
    <3> QED BY <3>1, <3>2
  <2>9. Fine(k) BY <2>4, <2>5, <2>6, <2>8 DEF y
  <2>10. k \in 0 .. n OBVIOUS
  <2> QED BY <2>9, <2>10
<1>4. n \in G
  <2> HIDE DEF G
  <2>1. \A k \in 0 .. n : k \in G BY <1>2, <1>3, UpTo, Zenon
  <2> QED BY <2>1
<1> DEFINE pruned == PrunedState(p, markers, order)
<1>5. pruned = it[n] BY <1>1 DEF MarkerRun
<1>6. Fine(n) BY <1>4
<1> DEFINE imports == pruned.imports
           base == pruned.pool
           q == CHOOSE f : f = [i \in 0 .. Len(imports) |->
                   IF i = 0 THEN base ELSE add_ready_transaction(f[i - 1], imports[i], order).pool]
<1>7. prune_markers(p, markers, order) = q[Len(imports)] BY DEF prune_markers, PrunedState
<1>8. imports = <<>> /\ base = it[n].pool BY <1>5, <1>6
<1> HIDE DEF imports, base, pruned
<1>9. Len(imports) = 0 BY <1>8
<1>10. q = [i \in 0 .. Len(imports) |->
              IF i = 0 THEN base ELSE add_ready_transaction(q[i - 1], imports[i], order).pool]
  <2> DEFINE f == [i \in 0 .. Len(imports) |-> base]
  <2>1. f = [i \in 0 .. Len(imports) |->
               IF i = 0 THEN base ELSE add_ready_transaction(f[i - 1], imports[i], order).pool]
    <3>1. \A i \in 0 .. Len(imports) : i = 0 BY <1>9
    <3> QED BY <3>1
  <2> HIDE DEF f
  <2> QED BY <2>1, Zenon
<1> HIDE DEF q
<1>11. q[Len(imports)] = base
  <2>1. 0 \in 0 .. Len(imports) BY <1>9
  <2>2. q[0] = base BY <1>10, <2>1
  <2> QED BY <1>9, <2>2
<1>12. prune_markers(p, markers, order) = it[n].pool BY <1>7, <1>8, <1>11
<1> QED BY <1>6, <1>12 DEF MarkersPruned

-----------------------------------------------------------------------------
(* What a block includes *)

\* The nonces a block has passed are those of transactions it included.
Covers(included, before, after) ==
  \A a \in Senders :
    /\ before[a] <= after[a]
    /\ \A k \in Nat : before[a] <= k /\ k < after[a] => \E i \in DOMAIN included : to_marker(included[i]) = <<k, a>>

\* One more transaction covers the nonce it passes.
LEMMA CoversNext ==
  ASSUME NEW T \in SUBSET Txs, NEW st \in Outcomes(T), NEW h \in T, NEW o, NextOutcome(o, st, h, T),
         NEW ns \in [Senders -> Nat], Covers(st.included, ns, st.nonces)
  PROVE  Covers(o.included, ns, o.nonces)
<1>1. st.nonces \in [Senders -> Nat] /\ st.included \in Seq(T) BY DEF Outcomes
<1>2. CASE o.nonces = st.nonces /\ o.included = st.included BY <1>2
<1>3. CASE /\ nonce[h] = st.nonces[sender[h]]
           /\ o.included = Append(st.included, h)
           /\ o.nonces = [st.nonces EXCEPT ![sender[h]] = st.nonces[sender[h]] + 1]
  <2> DEFINE inc == st.included
             out == o.included
             l == Len(inc)
  <2>1. /\ l \in Nat /\ DOMAIN inc = 1 .. l /\ DOMAIN out = 1 .. l + 1 /\ out[l + 1] = h
        /\ \A i \in 1 .. l : out[i] = inc[i]
    BY <1>1, <1>3
  <2> HIDE DEF inc, out, l
  <2>2. SUFFICES ASSUME NEW a \in Senders
                 PROVE  /\ ns[a] <= o.nonces[a]
                        /\ \A k \in Nat : ns[a] <= k /\ k < o.nonces[a] => \E i \in DOMAIN out : to_marker(out[i]) = <<k, a>>
    BY DEF Covers, out
  <2>3. ns[a] \in Nat /\ st.nonces[a] \in Nat /\ ns[a] <= st.nonces[a] BY <1>1 DEF Covers
  <2>4. o.nonces[a] = IF a = sender[h] THEN st.nonces[a] + 1 ELSE st.nonces[a] BY <1>1, <1>3
  <2>5. ns[a] <= o.nonces[a] BY <2>3, <2>4
  <2>6. ASSUME NEW k \in Nat, ns[a] <= k, k < o.nonces[a] PROVE \E i \in DOMAIN out : to_marker(out[i]) = <<k, a>>
    <3>1. CASE k < st.nonces[a]
      <4>1. PICK i \in DOMAIN inc : to_marker(inc[i]) = <<k, a>> BY <2>6, <3>1 DEF Covers, inc
      <4>2. i \in DOMAIN out /\ out[i] = inc[i] BY <2>1, <4>1
      <4> QED BY <4>1, <4>2
    <3>2. CASE ~(k < st.nonces[a])
      <4>1. a = sender[h] /\ k = st.nonces[a] BY <2>3, <2>4, <2>6, <3>2
      <4>2. to_marker(h) = <<k, a>> BY <1>3, <4>1 DEF to_marker
      <4>3. l + 1 \in DOMAIN out BY <2>1
      <4> QED BY <2>1, <4>2, <4>3
    <3> QED BY <3>1, <3>2
  <2> QED BY <2>5, <2>6
<1> QED BY <1>2, <1>3 DEF NextOutcome

\* A block covers the nonces it passes.
LEMMA ExecuteCovers ==
  ASSUME NEW T \in SUBSET Txs, NEW s \in Seq(T), NEW ns \in [Senders -> Nat]
  PROVE  execute(s, ns) \in Outcomes(T) /\ Covers(execute(s, ns).included, ns, execute(s, ns).nonces)
<1> DEFINE n == Len(s)
<1>1. PICK r : Execution(r, T, s, ns) BY ExecuteRun
<1>2. n \in Nat /\ \A i \in 1 .. n : s[i] \in T OBVIOUS
<1>3. /\ r \in [0 .. n -> Outcomes(T)] /\ r[0].nonces = ns /\ r[0].included = <<>>
      /\ \A k \in 1 .. n : NextOutcome(r[k], r[k - 1], s[k], T)
      /\ execute(s, ns) = r[n]
  BY <1>1 DEF Execution
<1> DEFINE Fine(k) == Covers(r[k].included, ns, r[k].nonces)
           G == {k \in 0 .. n : Fine(k)}
<1> HIDE DEF n
<1>4. 0 \in G
  <2>1. Covers(<<>>, ns, ns)
    <3>1. \A a \in Senders : ns[a] \in Nat OBVIOUS
    <3>2. \A a \in Senders : ns[a] <= ns[a] /\ \A k \in Nat : ~(ns[a] <= k /\ k < ns[a]) BY <3>1
    <3> QED BY <3>2 DEF Covers
  <2> QED BY <1>2, <1>3, <2>1
<1>5. ASSUME NEW k \in 1 .. n, k - 1 \in G PROVE k \in G
  <2>1. k - 1 \in 0 .. n /\ k \in 0 .. n BY <1>2
  <2> DEFINE x == r[k - 1]
             y == r[k]
             h == s[k]
  <2>2. x \in Outcomes(T) /\ NextOutcome(y, x, h, T) /\ h \in T /\ Covers(x.included, ns, x.nonces)
    BY <1>2, <1>3, <1>5, <2>1
  <2> HIDE DEF x, y, h
  <2>3. Covers(y.included, ns, y.nonces) BY <2>2, CoversNext
  <2>4. Fine(k) BY <2>3 DEF y
  <2> QED BY <2>1, <2>4
<1>6. n \in G
  <2> HIDE DEF G
  <2>1. \A k \in 0 .. n : k \in G BY <1>2, <1>4, <1>5, UpTo, Zenon
  <2> QED BY <1>2, <2>1
<1>7. Fine(n) /\ r[n] \in Outcomes(T) BY <1>2, <1>3, <1>6
<1> QED BY <1>3, <1>7

-----------------------------------------------------------------------------
(* The steps of the pool *)

\* The transactions of the pool are to come: a ready one may be the next of its
\* sender, a waiting one comes after that.
Follows(p, ns) ==
  /\ \A h \in DOMAIN p.ready : nonce[h] >= ns[sender[h]]
  /\ \A h \in DOMAIN p.waiting : nonce[h] > ns[sender[h]]

PoolIInv ==
  /\ PoolHolds(pool, Txs) /\ Indexed(pool)
  /\ nonces \in [Senders -> Nat] /\ Follows(pool, nonces)

\* The empty pool agrees with everything.
LEMMA EmptyPoolHolds ==
  ASSUME NEW ns
  PROVE  PoolHolds(EmptyPool, Txs) /\ Indexed(EmptyPool) /\ Follows(EmptyPool, ns)
<1> DEFINE p == EmptyPool
<1>1. /\ p.ready = <<>> /\ p.provided = <<>> /\ p.independent = {} /\ p.arrival = <<>>
      /\ p.waiting = <<>> /\ p.required = <<>> /\ p.waiting_markers = <<>>
      /\ p = [ready |-> p.ready, provided |-> p.provided, independent |-> p.independent,
              arrival |-> p.arrival, waiting |-> p.waiting, required |-> p.required,
              waiting_markers |-> p.waiting_markers]
  BY DEF EmptyPool
<1>2. DOMAIN <<>> = {} /\ <<>> = [x \in DOMAIN <<>> |-> <<>>[x]] OBVIOUS
<1> HIDE DEF p
<1>3. PoolHolds(p, Txs)
  <2>1. <<>> \in Seq(Txs) OBVIOUS
  <2> QED BY <1>1, <1>2, <2>1 DEF PoolHolds
<1>4. ReadyIndexed(<<>>, <<>>) BY <1>2 DEF ReadyIndexed
<1>5. WaitingIndexed(<<>>, <<>>) BY <1>2 DEF WaitingIndexed
<1>6. Indexed(p) BY <1>1, <1>2, <1>4, <1>5 DEF Indexed
<1>7. Follows(p, ns) BY <1>1, <1>2 DEF Follows
<1> QED BY <1>3, <1>6, <1>7 DEF p

\* What is left of a pool is to come as well.
LEMMA FollowsLess ==
  ASSUME NEW p, NEW q, Shrinks(p, q), NEW ns, Follows(p, ns)
  PROVE  Follows(q, ns)
BY DEF Follows, Shrinks

\* Taking transactions from the pool leaves a pool.
LEMMA TakenOut ==
  ASSUME NEW p, PoolHolds(p, Txs), Indexed(p), NEW hashes
  PROVE  /\ PoolHolds(remove_with_markers(p, hashes), Txs) /\ Indexed(remove_with_markers(p, hashes))
         /\ Shrinks(p, remove_with_markers(p, hashes))
         /\ PoolHolds(pending_remove(remove_with_markers(p, hashes), hashes), Txs)
         /\ Indexed(pending_remove(remove_with_markers(p, hashes), hashes))
         /\ Shrinks(p, pending_remove(remove_with_markers(p, hashes), hashes))
<1> DEFINE r == remove_with_markers(p, hashes)
           q == pending_remove(r, hashes)
<1>1. PoolHolds(r, Txs) BY RemoveHolds
<1>2. Indexed(r) /\ Shrinks(p, r) BY RemoveIndexed
<1> HIDE DEF r
<1>3. PoolHolds(q, Txs) BY <1>1, PendingRemoveHolds
<1>4. Indexed(q) /\ Shrinks(r, q) BY <1>1, <1>2, PendingRemoveIndexed
<1> HIDE DEF q
<1>5. Shrinks(p, q) BY <1>2, <1>4, ShrinksOn
<1> QED BY <1>1, <1>2, <1>3, <1>4, <1>5 DEF q, r

\* What required_marker asks for is the marker before the transaction's own.
LEMMA RequiresBefore ==
  ASSUME NEW h \in Txs, NEW base
  PROVE  /\ required_marker(nonce[h], base, sender[h]) \subseteq {Before(h)}
         /\ required_marker(nonce[h], base, sender[h]) # {} => nonce[h] > base
BY DEF required_marker, Before

\* A transaction that is sent is to come, and waits only if it is not the next.
LEMMA SendFollows ==
  ASSUME NEW p, PoolHolds(p, Txs), Indexed(p), NEW ns \in [Senders -> Nat], Follows(p, ns),
         NEW h \in Txs, nonce[h] >= ns[sender[h]], NEW base \in Nat, base >= ns[sender[h]],
         NEW order \in Seq(DOMAIN p.waiting),
         NEW q, q = add_transaction(p, [hash |-> h, requires |-> required_marker(nonce[h], base, sender[h])], order).pool
  PROVE  PoolHolds(q, Txs) /\ Indexed(q) /\ Follows(q, ns)
<1> DEFINE A == DOMAIN p.ready \cup DOMAIN p.waiting
           r == required_marker(nonce[h], base, sender[h])
           tx == [hash |-> h, requires |-> r]
           o == add_transaction(p, tx, order)
<1>1. r \subseteq {Before(h)} /\ (r # {} => nonce[h] > base) BY RequiresBefore, Zenon
<1>2. q = o.pool OBVIOUS
<1>3. A \in SUBSET Txs /\ PoolHolds(p, A) BY DEF PoolHolds
<1>4. order \in Seq(A) /\ order \in Seq(Txs)
  <2>1. DOMAIN p.waiting \subseteq A /\ DOMAIN p.waiting \subseteq Txs BY <1>3
  <2> HIDE DEF A
  <2> QED BY <2>1
<1> HIDE DEF A, r
<1>5. tx.hash = h /\ tx.requires = r OBVIOUS
<1> HIDE DEF tx, o
<1>6. PoolHolds(o.pool, A \cup {h}) BY <1>3, <1>4, <1>5, AddHolds, Zenon DEF o
<1>7. Added(o, p, tx) BY <1>1, <1>4, <1>5, AddIndexed DEF o
<1>8. DOMAIN q.ready \subseteq A \cup {h} BY <1>2, <1>6 DEF PoolHolds
<1>9. DOMAIN q.waiting \subseteq DOMAIN p.waiting \cup (IF r = {} THEN {} ELSE {h}) BY <1>2, <1>5, <1>7 DEF Added
<1>10. PoolHolds(q, Txs)
  <2>1. A \cup {h} \subseteq Txs BY <1>3
  <2> QED BY <1>2, <1>6, <2>1 DEF PoolHolds
<1>11. \A x \in Txs : nonce[x] \in Nat /\ ns[sender[x]] \in Nat BY TransactionsAssumption DEF Senders
<1>12. \A x \in A : nonce[x] >= ns[sender[x]]
  <2>1. \A x \in DOMAIN p.waiting : nonce[x] >= ns[sender[x]]
    <3>1. \A x \in DOMAIN p.waiting : x \in Txs /\ nonce[x] > ns[sender[x]] BY DEF PoolHolds, Follows
    <3> QED BY <1>11, <3>1
  <2> QED BY <2>1 DEF A, Follows
<1>13. r # {} => nonce[h] > ns[sender[h]] BY <1>1, <1>11
<1>14. Follows(q, ns) BY <1>8, <1>9, <1>12, <1>13 DEF Follows
<1> QED BY <1>2, <1>7, <1>10, <1>14 DEF Added

\* The nonce at the pending block is not below that of the state.
LEMMA PendingNonceFollows ==
  ASSUME NEW p, PoolHolds(p, Txs), NEW ns \in [Senders -> Nat], Follows(p, ns), NEW from \in Senders
  PROVE  pending_nonce(p, ns, from) \in Nat /\ pending_nonce(p, ns, from) >= ns[from]
<1> DEFINE S == {x \in ToSet(ready_transactions(p)) : sender[x] = from}
           ready == {nonce[h] : h \in S}
<1>1. pending_nonce(p, ns, from) = IF ready = {} THEN ns[from] ELSE 1 + CHOOSE n \in ready : \A k \in ready : n >= k
  BY DEF pending_nonce
<1>2. ready_transactions(p) \in Seq(DOMAIN p.ready) BY ReadyAreReady
<1>3. S \subseteq DOMAIN p.ready /\ \A x \in S : sender[x] = from
  <2> DEFINE t == ready_transactions(p)
  <2>1. t \in Seq(DOMAIN p.ready) BY <1>2
  <2> HIDE DEF t
  <2>2. ToSet(t) \subseteq DOMAIN p.ready BY <2>1 DEF ToSet
  <2> QED BY <2>2 DEF t
<1>4. S \in SUBSET Txs BY <1>3 DEF PoolHolds
<1>5. \A x \in S : nonce[x] \in Nat /\ nonce[x] >= ns[from] BY <1>3, <1>4, TransactionsAssumption DEF Follows
<1>6. ns[from] \in Nat OBVIOUS
<1> HIDE DEF S
<1>7. ready # {} => \E n \in ready : \A k \in ready : n >= k
  <2> DEFINE G == {s \in SUBSET S : s = {} \/ \E h \in s : \A g \in s : nonce[h] >= nonce[g]}
  <2>1. IsFiniteSet(S) BY <1>4, TransactionsAssumption, FS_Subset
  <2>2. {} \in G OBVIOUS
  <2>3. ASSUME NEW s \in SUBSET S, s # {}, s \ {CHOOSE x \in s : TRUE} \in G PROVE s \in G
    <3> DEFINE c == CHOOSE x \in s : TRUE
    <3>1. c \in s BY <2>3
    <3> HIDE DEF c
    <3>2. CASE s \ {c} = {} BY <1>5, <3>1, <3>2
    <3>3. CASE s \ {c} # {}
      <4>1. PICK h \in s \ {c} : \A g \in s \ {c} : nonce[h] >= nonce[g] BY <2>3, <3>3 DEF c
      <4>2. CASE nonce[h] >= nonce[c] BY <4>1, <4>2
      <4>3. CASE ~ nonce[h] >= nonce[c]
        <5>1. \A g \in s : nonce[c] >= nonce[g] BY <1>5, <3>1, <4>1, <4>3
        <5> QED BY <3>1, <5>1
      <4> QED BY <4>2, <4>3
    <3> QED BY <3>2, <3>3
  <2>4. S \in G
    <3> HIDE DEF G
    <3> QED BY <2>1, <2>2, <2>3, SubsetInduction
  <2> QED BY <2>4
<1>8. \A n \in ready : n \in Nat /\ n >= ns[from] BY <1>5
<1> HIDE DEF ready
<1>9. CASE ready = {} BY <1>1, <1>6, <1>9
<1>10. CASE ready # {}
  <2> DEFINE c == CHOOSE n \in ready : \A k \in ready : n >= k
  <2>1. c \in ready BY <1>7, <1>10
  <2> HIDE DEF c
  <2>2. c \in Nat /\ c >= ns[from] BY <1>8, <2>1
  <2>3. pending_nonce(p, ns, from) = 1 + c BY <1>1, <1>10 DEF c
  <2> QED BY <1>6, <2>2, <2>3
<1> QED BY <1>9, <1>10

\* A block: the pool forgets what it included, and nobody waited for that.
LEMMA MinedFollows ==
  ASSUME NEW p, PoolHolds(p, Txs), Indexed(p), NEW ns \in [Senders -> Nat], Follows(p, ns),
         NEW outcome \in Outcomes(DOMAIN p.ready), Covers(outcome.included, ns, outcome.nonces),
         NEW order \in Seq(Txs), NEW q, q = on_mined_block(p, outcome, order)
  PROVE  PoolHolds(q, Txs) /\ Indexed(q) /\ Follows(q, outcome.nonces)
<1> DEFINE inc == outcome.included
           out == outcome.nonces
           markers == [i \in DOMAIN inc |-> to_marker(inc[i])]
           r == remove_invalid(p, outcome.invalid)
<1>1. q = prune_markers(r, markers, order) BY DEF on_mined_block
<1>2. inc \in Seq(DOMAIN p.ready) /\ out \in [Senders -> Nat] BY DEF Outcomes
<1>3. PoolHolds(r, Txs) /\ Indexed(r) /\ Shrinks(p, r)
  <2> DEFINE invalid == outcome.invalid
  <2>1. r = p \/ r = pending_remove(remove_with_markers(p, invalid), invalid) BY DEF remove_invalid
  <2>2. Shrinks(p, p) BY DEF Shrinks
  <2> HIDE DEF r, invalid
  <2> QED BY <2>1, <2>2, TakenOut
<1> HIDE DEF inc, r, out
<1>4. /\ Len(inc) \in Nat /\ DOMAIN inc = 1 .. Len(inc) /\ Len(markers) = Len(inc)
      /\ \A i \in 1 .. Len(inc) : inc[i] \in DOMAIN p.ready /\ markers[i] = to_marker(inc[i])
  <2>1. Len(inc) \in Nat /\ DOMAIN inc = 1 .. Len(inc) /\ \A i \in 1 .. Len(inc) : inc[i] \in DOMAIN p.ready
    BY <1>2
  <2>2. DOMAIN markers = 1 .. Len(inc) BY <2>1
  <2>3. markers \in Seq({markers[i] : i \in 1 .. Len(inc)}) BY <2>1, <2>2
  <2>4. Len(markers) = Len(inc) BY <2>1, <2>2, <2>3
  <2> QED BY <2>1, <2>4
<1> HIDE DEF markers
<1>5. \A i \in 1 .. Len(inc) : markers[i] \in DOMAIN p.provided
  <2> HIDE DEF to_marker
  <2> QED BY <1>4 DEF Indexed, ReadyIndexed
<1>6. \A i \in 1 .. Len(inc) : markers[i] \notin DOMAIN p.required BY <1>5 DEF Indexed
<1>7. \A i \in 1 .. Len(markers) : markers[i] \notin DOMAIN r.required BY <1>3, <1>4, <1>6 DEF Shrinks
<1>8. MarkersPruned(q, r, markers) BY <1>1, <1>3, <1>4, <1>7, PruneMarkersIndexed
<1>9. PoolHolds(q, Txs) /\ Indexed(q) /\ Shrinks(r, q) BY <1>8 DEF MarkersPruned
<1>10. Shrinks(p, q) BY <1>3, <1>9, ShrinksOn
<1>11. \A x \in Txs : sender[x] \in Senders /\ nonce[x] \in Nat /\ ns[sender[x]] \in Nat /\ out[sender[x]] \in Nat
  BY <1>2, TransactionsAssumption DEF Senders
<1>12. ASSUME NEW k \in Nat, NEW a \in Senders, ns[a] <= k, k < out[a]
       PROVE  <<k, a>> \notin DOMAIN q.provided /\ <<k, a>> \notin DOMAIN q.required
  <2>1. PICK i \in DOMAIN inc : to_marker(inc[i]) = <<k, a>> BY <1>12 DEF Covers, inc, out
  <2>2. i \in 1 .. Len(inc) /\ markers[i] = <<k, a>> BY <1>4, <2>1
  <2>3. <<k, a>> \notin DOMAIN q.provided BY <1>4, <1>8, <2>2, Zenon DEF MarkersPruned
  <2>4. <<k, a>> \notin DOMAIN q.required BY <1>6, <1>10, <2>2, Zenon DEF Shrinks
  <2> QED BY <2>3, <2>4
<1>13. Follows(q, ns) BY <1>10, FollowsLess
<1>14. ASSUME NEW h \in DOMAIN q.ready PROVE nonce[h] >= out[sender[h]]
  <2>1. h \in Txs /\ nonce[h] >= ns[sender[h]] BY <1>9, <1>13 DEF PoolHolds, Follows
  <2>2. <<nonce[h], sender[h]>> \in DOMAIN q.provided BY <1>9 DEF Indexed, ReadyIndexed, to_marker
  <2>3. ~(nonce[h] < out[sender[h]]) BY <1>11, <1>12, <2>1, <2>2
  <2> QED BY <1>11, <2>1, <2>3
<1>15. ASSUME NEW h \in DOMAIN q.waiting PROVE nonce[h] > out[sender[h]]
  <2>1. h \in Txs /\ nonce[h] > ns[sender[h]] BY <1>9, <1>13 DEF PoolHolds, Follows
  <2> DEFINE k == nonce[h] - 1
             a == sender[h]
  <2>2. <<k, a>> \in DOMAIN q.required BY <1>9 DEF Indexed, WaitingIndexed, Before
  <2>3. k \in Nat /\ a \in Senders /\ ns[a] <= k /\ out[a] \in Nat BY <1>11, <2>1
  <2> HIDE DEF k, a
  <2>4. ~(k < out[a]) BY <1>12, <2>2, <2>3
  <2>5. nonce[h] = k + 1 BY <1>11, <2>1 DEF k
  <2>6. nonce[h] > out[a] BY <2>3, <2>4, <2>5
  <2> QED BY <2>6 DEF a
<1>16. Follows(q, out) BY <1>14, <1>15 DEF Follows
<1> QED BY <1>9, <1>16 DEF out

\* Every step of the pool keeps its indices in agreement and its transactions
\* to come.
LEMMA PoolStep == PoolIInv /\ [PoolNext]_pool_vars => PoolIInv'
<1> SUFFICES ASSUME PoolIInv, [PoolNext]_pool_vars PROVE PoolIInv' OBVIOUS
<1>0. /\ PoolHolds(pool, Txs) /\ Indexed(pool) /\ nonces \in [Senders -> Nat] /\ Follows(pool, nonces)
  BY DEF PoolIInv
<1>1. \A order \in Orders : order \in Seq(Txs) /\ order \in Seq(DOMAIN pool.waiting)
  <2> SUFFICES ASSUME NEW order \in Orders PROVE order \in Seq(Txs) /\ order \in Seq(DOMAIN pool.waiting)
    OBVIOUS
  <2> DEFINE W == DOMAIN pool.waiting
             n == Cardinality(W)
  <2>1. W \in SUBSET Txs BY <1>0 DEF PoolHolds
  <2>2. n \in Nat BY <1>0, FinitePool
  <2>3. order \in [1 .. n -> W] BY DEF Orders, SetToSeqs
  <2>4. order \in [1 .. n -> Txs] BY <2>1, <2>3
  <2> HIDE DEF W, n
  <2> QED BY <2>2, <2>3, <2>4 DEF W
<1>2. \A h \in Txs : sender[h] \in Senders BY DEF Senders
<1>3. ASSUME NEW h \in Txs, send_raw_transaction(h) PROVE PoolIInv'
  <2> DEFINE base == nonces[sender[h]]
  <2>1. /\ nonce[h] >= base /\ UNCHANGED nonces
        /\ \E order \in Orders :
             pool' = add_transaction(pool, [hash |-> h, requires |-> required_marker(nonce[h], base, sender[h])], order).pool
    BY <1>3 DEF send_raw_transaction
  <2>2. PICK order \in Orders :
          pool' = add_transaction(pool, [hash |-> h, requires |-> required_marker(nonce[h], base, sender[h])], order).pool
    BY <2>1
  <2>3. base \in Nat /\ base >= nonces[sender[h]] BY <1>0, <1>2
  <2> HIDE DEF base
  <2>4. nonce[h] >= nonces[sender[h]] BY <2>1 DEF base
  <2>5. PoolHolds(pool', Txs) /\ Indexed(pool') /\ Follows(pool', nonces)
    BY <1>0, <1>1, <2>2, <2>3, <2>4, SendFollows
  <2> QED BY <1>0, <2>1, <2>5 DEF PoolIInv
<1>4. ASSUME NEW h \in Txs, send_transaction(h) PROVE PoolIInv'
  <2> DEFINE base == pending_nonce(pool, nonces, sender[h])
  <2>1. /\ nonce[h] >= nonces[sender[h]] /\ UNCHANGED nonces
        /\ \E order \in Orders :
             pool' = add_transaction(pool, [hash |-> h, requires |-> required_marker(nonce[h], base, sender[h])], order).pool
    BY <1>4 DEF send_transaction
  <2>2. PICK order \in Orders :
          pool' = add_transaction(pool, [hash |-> h, requires |-> required_marker(nonce[h], base, sender[h])], order).pool
    BY <2>1
  <2>3. base \in Nat /\ base >= nonces[sender[h]] BY <1>0, <1>2, PendingNonceFollows
  <2> HIDE DEF base
  <2>4. PoolHolds(pool', Txs) /\ Indexed(pool') /\ Follows(pool', nonces)
    BY <1>0, <1>1, <2>1, <2>2, <2>3, SendFollows
  <2> QED BY <1>0, <2>1, <2>4 DEF PoolIInv
<1>5. ASSUME NEW h \in Txs, drop_transaction(h) PROVE PoolIInv'
  <2>1. pool' = remove_with_markers(pool, {h}) /\ UNCHANGED nonces BY <1>5 DEF drop_transaction
  <2>2. PoolHolds(pool', Txs) /\ Indexed(pool') /\ Shrinks(pool, pool') BY <1>0, <2>1, TakenOut
  <2>3. Follows(pool', nonces) BY <1>0, <2>2, FollowsLess
  <2> QED BY <1>0, <2>1, <2>2, <2>3 DEF PoolIInv
<1>6. ASSUME NEW n \in 1 .. Cardinality(Txs), mine_one(n) PROVE PoolIInv'
  <2> DEFINE ready == ready_transactions(pool)
             transactions == SubSeq(ready, 1, n)
             outcome == execute(transactions, nonces)
  <2>1. PICK order \in Orders : /\ n <= Len(ready)
                                /\ pool' = on_mined_block(pool, outcome, order)
                                /\ nonces' = outcome.nonces
    BY <1>6 DEF mine_one
  <2>2. DOMAIN pool.ready \in SUBSET Txs BY <1>0 DEF PoolHolds
  <2>3. ready \in Seq(DOMAIN pool.ready) BY <1>0, ReadyAreReady
  <2>4. transactions \in Seq(DOMAIN pool.ready)
    <3> HIDE DEF ready
    <3>1. n \in Int /\ 1 \in Int BY <2>1, <2>3
    <3>2. \A i \in 1 .. n : ready[i] \in DOMAIN pool.ready BY <2>1, <2>3, <3>1
    <3> QED BY <3>1, <3>2, SubSeqProperties, Zenon
  <2> HIDE DEF transactions
  <2>5. outcome \in Outcomes(DOMAIN pool.ready) /\ Covers(outcome.included, nonces, outcome.nonces)
    BY <1>0, <2>2, <2>4, ExecuteCovers
  <2> HIDE DEF outcome
  <2>6. PoolHolds(pool', Txs) /\ Indexed(pool') /\ Follows(pool', outcome.nonces)
    BY <1>0, <1>1, <2>1, <2>5, MinedFollows
  <2>7. nonces' \in [Senders -> Nat] BY <2>1, <2>5 DEF Outcomes
  <2> QED BY <2>1, <2>6, <2>7 DEF PoolIInv
<1>7. ASSUME NEW from \in Senders, drop_by_address(from) PROVE PoolIInv'
  <2>1. UNCHANGED nonces /\ \E hashes : pool' = pending_remove(remove_with_markers(pool, hashes), hashes)
    BY <1>7 DEF drop_by_address, remove_transactions_by_address
  <2>2. PICK hashes : pool' = pending_remove(remove_with_markers(pool, hashes), hashes) BY <2>1
  <2>3. PoolHolds(pool', Txs) /\ Indexed(pool') /\ Shrinks(pool, pool') BY <1>0, <2>2, TakenOut
  <2>4. Follows(pool', nonces) BY <1>0, <2>3, FollowsLess
  <2> QED BY <1>0, <2>1, <2>3, <2>4 DEF PoolIInv
<1>8. ASSUME drop_all PROVE PoolIInv'
  <2>1. pool' = EmptyPool /\ UNCHANGED nonces BY <1>8 DEF drop_all
  <2>2. PoolHolds(pool', Txs) /\ Indexed(pool') /\ Follows(pool', nonces) BY <2>1, EmptyPoolHolds
  <2> QED BY <1>0, <2>1, <2>2 DEF PoolIInv
<1>9. CASE UNCHANGED pool_vars BY <1>9 DEF PoolIInv, pool_vars
<1> QED BY <1>3, <1>4, <1>5, <1>6, <1>7, <1>8, <1>9 DEF PoolNext

\* The invariant of the pool, for any transactions, prices and blocks.
LEMMA PoolKeepsIInv == PoolSpec => []PoolIInv
<1>1. ASSUME PoolInit PROVE PoolIInv
  <2>1. pool = EmptyPool /\ nonces = [a \in Senders |-> 0] BY <1>1 DEF PoolInit
  <2>2. PoolHolds(pool, Txs) /\ Indexed(pool) /\ Follows(pool, nonces) BY <2>1, EmptyPoolHolds
  <2>3. nonces \in [Senders -> Nat] BY <2>1
  <2> QED BY <2>2, <2>3 DEF PoolIInv
<1> QED BY <1>1, PoolStep, PTL DEF PoolSpec

\* Whatever the pool rejects, as already imported or underpriced, leaves it as
\* it was, in every state the pool can be in.
THEOREM RejectionsLeaveNoTrace == PoolSpec => []RejectedLeavesNoTrace
<1>1. ASSUME PoolIInv PROVE RejectedLeavesNoTrace
  <2> SUFFICES ASSUME NEW h \in Txs, NEW base \in Nonces, NEW order \in Orders
               PROVE  LET tx == [hash |-> h, requires |-> required_marker(nonce[h], base, sender[h])]
                          result == add_transaction(pool, tx, order)
                      IN ~result.ok => result.pool = pool
    BY DEF RejectedLeavesNoTrace
  <2> DEFINE r == required_marker(nonce[h], base, sender[h])
             tx == [hash |-> h, requires |-> r]
  <2>1. PoolHolds(pool, Txs) /\ Indexed(pool) BY <1>1 DEF PoolIInv
  <2>2. order \in Seq(Txs) BY <2>1, OrdersAreSequences
  <2>3. r \subseteq {Before(h)} BY RequiresBefore
  <2> HIDE DEF r
  <2>4. tx.hash = h /\ tx.requires = r OBVIOUS
  <2> HIDE DEF tx
  <2>5. Added(add_transaction(pool, tx, order), pool, tx) BY <2>1, <2>2, <2>3, <2>4, AddIndexed
  <2> QED BY <2>5 DEF Added, tx, r
<1> QED BY <1>1, PoolKeepsIInv, PTL

\* The pool keeps up with the blocks, whatever they include: nothing ready has
\* been mined, and nothing waits for what has been.
THEOREM PoolKeepsUp == PoolSpec => []PoolFollowsState
<1>1. ASSUME PoolIInv PROVE PoolFollowsState
  <2>1. PoolHolds(pool, Txs) /\ Indexed(pool) /\ nonces \in [Senders -> Nat] /\ Follows(pool, nonces)
    BY <1>1 DEF PoolIInv
  <2>2. ASSUME NEW h \in DOMAIN pool.waiting, NEW m \in pool.waiting[h].missing PROVE m[1] >= nonces[m[2]]
    <3>1. h \in Txs /\ nonce[h] > nonces[sender[h]] BY <2>1 DEF PoolHolds, Follows
    <3>2. nonce[h] \in Nat /\ nonces[sender[h]] \in Nat BY <2>1, <3>1, TransactionsAssumption DEF Senders
    <3>3. m = Before(h) BY <2>1, <2>2 DEF Indexed, WaitingIndexed
    <3>4. m[1] = nonce[h] - 1 /\ m[2] = sender[h] BY <3>3 DEF Before
    <3> QED BY <3>1, <3>2, <3>4
  <2> QED BY <2>1, <2>2 DEF PoolFollowsState, Follows
<1> QED BY <1>1, PoolKeepsIInv, PTL

\* The markers provided are those of the ready transactions, the markers required
\* those the waiting ones miss, and none is both.
THEOREM MarkersAgree == PoolSpec => [](ProvidedByReady /\ RequiredByWaiting)
<1>1. ASSUME PoolIInv PROVE ProvidedByReady /\ RequiredByWaiting
  <2>1. Indexed(pool) BY <1>1 DEF PoolIInv
  <2>2. ProvidedByReady BY <2>1 DEF Indexed, ReadyIndexed, ProvidedByReady
  <2>3. WaitingIndexed(pool.waiting, pool.required) BY <2>1 DEF Indexed
  <2> HIDE DEF Before
  <2>4. \A h \in DOMAIN pool.waiting : pool.waiting[h].missing # {} BY <2>3 DEF WaitingIndexed
  <2>5. ASSUME NEW m \in Markers
        PROVE  {h \in DOMAIN pool.waiting : m \in pool.waiting[h].missing}
                 = IF m \in DOMAIN pool.required THEN pool.required[m] ELSE {}
    <3>1. {h \in DOMAIN pool.waiting : m \in pool.waiting[h].missing} = {h \in DOMAIN pool.waiting : Before(h) = m}
      BY <2>3 DEF WaitingIndexed
    <3>2. m \notin DOMAIN pool.required => {h \in DOMAIN pool.waiting : Before(h) = m} = {}
      BY <2>3 DEF WaitingIndexed
    <3> QED BY <2>3, <3>1, <3>2 DEF WaitingIndexed
  <2> QED BY <2>2, <2>4, <2>5 DEF RequiredByWaiting
<1> QED BY <1>1, PoolKeepsIInv, PTL
===============================================================================
