-------------------------- MODULE AnvilBackendProofs --------------------------
(***************************************************************************)
(* Proofs about parts of anvil's backend, for every value of the constants. *)
(***************************************************************************)
EXTENDS AnvilTime, AnvilListeners, FoldTheorems

-----------------------------------------------------------------------------
(* The clock *)

\* What the order of the timestamps rests on: the clock remembers a timestamp
\* that is not below the last block's, unless evm_setTime took it back since,
\* and an exact timestamp that waits for the next block is not below that.
TimeIInv ==
  /\ TimestampsKeepTheirOrder
  /\ offset \in Int
  /\ timestamps \in Seq(Nat) /\ timestamps # <<>>
  /\ jumps \subseteq 1 .. Len(timestamps)
  /\ Len(timestamps) \notin jumps => timestamps[Len(timestamps)] <= last_timestamp
  /\ next_exact_timestamp # Unset => last_timestamp <= next_exact_timestamp

\* A new TimeManager has the timestamp of the genesis block.
LEMMA TimeInitIInv == TimeInit => TimeIInv
BY TimeAssumption DEF TimeInit, TimeIInv, TimestampsKeepTheirOrder, TimeTypeOK, NeverBackInTime, Unset

\* compute_next_timestamp never goes back, and takes an exact timestamp that
\* does not lie in the past as it is.
LEMMA NextTimestamp ==
  ASSUME NEW last \in Nat, NEW exact \in Nat \cup {Unset}, NEW every \in Nat \cup {Unset},
         NEW natural \in Nat
  PROVE  LET next == compute_next_timestamp(last, exact, every, natural)
         IN /\ next \in Nat /\ last <= next
            /\ exact # Unset /\ last <= exact => next = exact
BY DEF compute_next_timestamp, Unset

\* A block that takes the next timestamp, at whatever time the clock shows.
LEMMA MineIInv ==
  ASSUME TimeIInv, NEW shown \in Nat,
         LET next == compute_next_timestamp(last_timestamp, next_exact_timestamp, interval, shown)
         IN /\ last_timestamp' = next
            /\ offset' = IF next_exact_timestamp # Unset THEN next - current ELSE shown - current
            /\ timestamps' = Append(timestamps, next),
         next_exact_timestamp' = Unset,
         UNCHANGED <<current, interval, jumps>>
  PROVE  TimeIInv'
<1> DEFINE next == compute_next_timestamp(last_timestamp, next_exact_timestamp, interval, shown)
           L == Len(timestamps)
<1>1. /\ current \in Nat /\ last_timestamp \in Nat /\ offset \in Int
      /\ next_exact_timestamp \in Nat \cup {Unset} /\ interval \in Nat \cup {Unset}
  BY DEF TimeIInv, TimestampsKeepTheirOrder, TimeTypeOK
<1>2. next \in Nat /\ last_timestamp <= next BY <1>1, NextTimestamp, Zenon
<1> HIDE DEF next
<1>3. last_timestamp' = next /\ timestamps' = Append(timestamps, next)
      /\ offset' = IF next_exact_timestamp # Unset THEN next - current ELSE shown - current
  BY DEF next
<1>4. /\ L \in Nat \ {0} /\ timestamps' \in Seq(Nat) /\ Len(timestamps') = L + 1
      /\ timestamps'[L + 1] = next
      /\ \A i \in 1 .. L : timestamps'[i] = timestamps[i]
  BY <1>2, <1>3 DEF TimeIInv
<1>5. TimeTypeOK' /\ offset' \in Int
  BY <1>1, <1>2, <1>3 DEF TimeTypeOK
<1>6. NeverBackInTime'
  <2> SUFFICES ASSUME NEW i \in 1 .. L, i \notin jumps
               PROVE  timestamps'[i] <= timestamps'[i + 1]
    BY <1>4 DEF NeverBackInTime
  <2>1. CASE i = L
    BY <1>1, <1>2, <1>4, <2>1 DEF TimeIInv
  <2>2. CASE i # L
    BY <1>4, <2>2 DEF TimeIInv, TimestampsKeepTheirOrder, NeverBackInTime
  <2> QED BY <2>1, <2>2
<1> QED
  BY <1>1, <1>2, <1>3, <1>4, <1>5, <1>6 DEF TimeIInv, TimestampsKeepTheirOrder

\* Setting the clock to any time, which forgets an exact timestamp.
LEMMA SetTimeIInv ==
  ASSUME TimeIInv, NEW t \in Nat, evm_set_time(t)
  PROVE  TimeIInv'
<1>1. TimeTypeOK' /\ offset' \in Int /\ next_exact_timestamp' = Unset
  BY DEF TimeIInv, TimestampsKeepTheirOrder, TimeTypeOK, evm_set_time, reset, Unset
<1>2. NeverBackInTime'
  BY DEF TimeIInv, TimestampsKeepTheirOrder, NeverBackInTime, evm_set_time
<1>3. /\ Len(timestamps) \in Nat \ {0} /\ timestamps[Len(timestamps)] \in Nat
      /\ last_timestamp \in Nat
  BY DEF TimeIInv, TimestampsKeepTheirOrder, TimeTypeOK
<1>4. jumps' \subseteq 1 .. Len(timestamps)
  <2>1. Len(timestamps) \in 1 .. Len(timestamps) BY <1>3
  <2>2. jumps' \subseteq jumps \cup {Len(timestamps)} BY DEF evm_set_time
  <2>3. jumps \subseteq 1 .. Len(timestamps) BY DEF TimeIInv
  <2> QED BY <2>1, <2>2, <2>3
<1>5. Len(timestamps) \notin jumps' => timestamps[Len(timestamps)] <= last_timestamp'
  BY <1>3 DEF TimeIInv, evm_set_time, reset
<1> QED
  BY <1>1, <1>2, <1>4, <1>5 DEF TimeIInv, TimestampsKeepTheirOrder, evm_set_time

\* A revert or rollback takes blocks away and sets the clock to the last one
\* left.
LEMMA RewindIInv ==
  ASSUME TimeIInv, NEW n \in Nat \ {0}, rewind(n)
  PROVE  TimeIInv'
<1>1. /\ timestamps' \in Seq(Nat) /\ Len(timestamps') = n
      /\ \A i \in 1 .. n : timestamps'[i] = timestamps[i]
      /\ timestamps[n] \in Nat
  BY DEF TimeIInv, rewind
<1>2. TimeTypeOK' /\ offset' \in Int
  BY <1>1 DEF TimeIInv, TimestampsKeepTheirOrder, TimeTypeOK, rewind, reset, Unset
<1>3. NeverBackInTime'
  BY <1>1 DEF TimeIInv, TimestampsKeepTheirOrder, NeverBackInTime, rewind
<1>4. jumps' \subseteq 1 .. n /\ next_exact_timestamp' = Unset /\ last_timestamp' = timestamps[n]
  <2>1. \A i \in jumps : i \in Nat /\ i > 0 BY DEF TimeIInv
  <2>2. \A i \in jumps' : i \in jumps /\ i < n BY DEF rewind
  <2>3. jumps' \subseteq 1 .. n BY <2>1, <2>2
  <2> QED BY <2>3 DEF rewind, reset
<1> QED
  BY <1>1, <1>2, <1>3, <1>4 DEF TimeIInv, TimestampsKeepTheirOrder

\* Every request and every block keeps it.
LEMMA TimeNextIInv == TimeIInv /\ [TimeNext]_time_vars => TimeIInv'
<1> SUFFICES ASSUME TimeIInv, [TimeNext]_time_vars PROVE TimeIInv' OBVIOUS
<1> USE TimeAssumption
<1>0. /\ current + offset \in Nat /\ current \in Nat /\ last_timestamp \in Nat /\ offset \in Int
      /\ interval \in Nat \cup {Unset} /\ next_exact_timestamp \in Nat \cup {Unset}
  BY DEF TimeIInv, TimestampsKeepTheirOrder, TimeTypeOK
<1>1. CASE Tick
  <2>1. current_call_timestamp' = next_exact_timestamp \/ next_exact_timestamp = Unset
    BY <1>0, <1>1 DEF TimeIInv, Tick, current_call_timestamp, compute_next_timestamp, Unset
  <2> QED BY <1>0, <1>1, <2>1 DEF TimeIInv, TimestampsKeepTheirOrder, TimeTypeOK, NeverBackInTime, Tick
<1>2. CASE next_timestamp
  <2>1. (current + offset) - current = offset BY <1>0
  <2> QED
    BY <1>0, <1>2, <2>1, MineIInv DEF next_timestamp, current_call_timestamp, next_offset
<1>3. CASE evm_remove_block_timestamp_interval
  BY <1>0, <1>3 DEF TimeIInv, TimestampsKeepTheirOrder, TimeTypeOK, NeverBackInTime,
     evm_remove_block_timestamp_interval, current_call_timestamp, compute_next_timestamp, Unset
<1>4. ASSUME NEW s \in Amounts, evm_increase_time(s) PROVE TimeIInv'
  BY <1>0, <1>4 DEF TimeIInv, TimestampsKeepTheirOrder, TimeTypeOK, NeverBackInTime,
     evm_increase_time, current_call_timestamp, compute_next_timestamp, Unset
<1>5. ASSUME NEW s \in Amounts, anvil_mine(s) PROVE TimeIInv'
  <2>1. current + offset + s \in Nat /\ (current + offset + s) - current = offset + s BY <1>0
  <2> QED BY <1>5, <2>1, MineIInv DEF anvil_mine
<1>6. ASSUME NEW s \in Amounts, evm_set_block_timestamp_interval(s) PROVE TimeIInv'
  BY <1>0, <1>6 DEF TimeIInv, TimestampsKeepTheirOrder, TimeTypeOK, NeverBackInTime,
     evm_set_block_timestamp_interval, current_call_timestamp, compute_next_timestamp, Unset
<1>7. ASSUME NEW t \in Timestamps, evm_set_next_block_timestamp(t) PROVE TimeIInv'
  BY <1>0, <1>7 DEF TimeIInv, TimestampsKeepTheirOrder, TimeTypeOK, NeverBackInTime,
     evm_set_next_block_timestamp, current_call_timestamp, compute_next_timestamp, Unset
<1>8. ASSUME NEW t \in Timestamps, evm_set_time(t) PROVE TimeIInv'
  BY <1>8, SetTimeIInv
<1>9. ASSUME NEW n \in 1 .. MaxBlocks, rewind(n) PROVE TimeIInv'
  BY <1>9, RewindIInv
<1>10. CASE UNCHANGED time_vars
  BY <1>10 DEF TimeIInv, TimestampsKeepTheirOrder, TimeTypeOK, NeverBackInTime, time_vars,
     current_call_timestamp
<1> QED
  BY <1>1, <1>2, <1>3, <1>4, <1>5, <1>6, <1>7, <1>8, <1>9, <1>10 DEF TimeNext

\* However clients turn anvil's clock, no block is older than its parent unless
\* evm_setTime went back in between, the clock never wraps, and an accepted
\* exact timestamp is the next block's.
THEOREM TimestampOrder == TimeSpec => []TimestampsKeepTheirOrder
<1>1. TimeIInv => TimestampsKeepTheirOrder BY DEF TimeIInv
<1> QED BY <1>1, TimeInitIInv, TimeNextIInv, PTL DEF TimeSpec


-----------------------------------------------------------------------------
(* The loops of the listeners *)

Increasing(s) == \A i, j \in 1 .. Len(s) : i < j => s[i] < s[j]

\* One turn of the loops that push what they find.
Push(S, found, x) == IF x \in S THEN Append(found, x) ELSE found

\* What they find after the first k elements of s.
FoundUpTo(k, s, S, found) ==
  /\ \A j \in 1 .. Len(found) : \E i \in 1 .. k : found[j] = s[i] /\ s[i] \in S
  /\ \A i \in 1 .. k : s[i] \in S => \E j \in 1 .. Len(found) : found[j] = s[i]
  /\ Increasing(s) => Increasing(found)
  /\ (\A i \in 1 .. k : s[i] \in S) => Len(found) = k /\ \A i \in 1 .. k : found[i] = s[i]

\* One more turn.
LEMMA PushFinds ==
  ASSUME NEW s \in Seq(Nat), NEW S, NEW k \in 1 .. Len(s), NEW found \in Seq(Nat),
         FoundUpTo(k - 1, s, S, found)
  PROVE  Push(S, found, s[k]) \in Seq(Nat) /\ FoundUpTo(k, s, S, Push(S, found, s[k]))
<1> DEFINE x == s[k]
           r == Append(found, x)
<1>0. k \in Nat /\ k >= 1 /\ k <= Len(s) /\ k \in 1 .. Len(s) /\ x \in Nat /\ Len(s) \in Nat /\ Len(found) \in Nat
  OBVIOUS
<1>1. CASE x \notin S
  <2>1. Push(S, found, x) = found BY <1>1 DEF Push
  <2>2. \A i \in 1 .. k : i \in 1 .. k - 1 \/ i = k BY <1>0
  <2>3. \A i \in 1 .. k - 1 : i \in 1 .. k BY <1>0
  <2>4. k \in 1 .. k BY <1>0
  <2> HIDE DEF x
  <2> QED BY <1>1, <2>1, <2>2, <2>3, <2>4 DEF FoundUpTo, x
<1>2. CASE x \in S
  <2>1. Push(S, found, x) = r BY <1>2 DEF Push
  <2>2. /\ r \in Seq(Nat) /\ Len(r) = Len(found) + 1 /\ r[Len(found) + 1] = x
        /\ \A j \in 1 .. Len(found) : r[j] = found[j]
    BY <1>0
  <2> HIDE DEF x, r
  <2>3. ASSUME NEW j \in 1 .. Len(r) PROVE \E i \in 1 .. k : r[j] = s[i] /\ s[i] \in S
    <3>1. CASE j = Len(found) + 1
      <4>1. k \in 1 .. k BY <1>0
      <4> QED BY <1>2, <2>2, <3>1, <4>1 DEF x
    <3>2. CASE j # Len(found) + 1
      <4>1. j \in 1 .. Len(found) BY <1>0, <2>2, <3>2
      <4>2. PICK i \in 1 .. k - 1 : found[j] = s[i] /\ s[i] \in S BY <4>1 DEF FoundUpTo
      <4>3. i \in 1 .. k BY <1>0
      <4> QED BY <2>2, <4>1, <4>2, <4>3
    <3> QED BY <3>1, <3>2
  <2>4. ASSUME NEW i \in 1 .. k, s[i] \in S PROVE \E j \in 1 .. Len(r) : r[j] = s[i]
    <3>1. CASE i = k
      <4>1. Len(found) + 1 \in 1 .. Len(r) BY <1>0, <2>2
      <4> QED BY <2>2, <3>1, <4>1, Zenon DEF x
    <3>2. CASE i # k
      <4>1. i \in 1 .. k - 1 BY <1>0, <3>2
      <4>2. PICK j \in 1 .. Len(found) : found[j] = s[i] BY <2>4, <4>1 DEF FoundUpTo
      <4>3. j \in 1 .. Len(r) BY <1>0, <2>2
      <4> QED BY <2>2, <4>2, <4>3
    <3> QED BY <3>1, <3>2
  <2>5. ASSUME Increasing(s), NEW i \in 1 .. Len(r), NEW j \in 1 .. Len(r), i < j PROVE r[i] < r[j]
    <3>1. i \in 1 .. Len(found) BY <1>0, <2>2, <2>5
    <3>2. CASE j = Len(found) + 1
      <4>1. PICK m \in 1 .. k - 1 : found[i] = s[m] BY <3>1 DEF FoundUpTo
      <4>2. m \in 1 .. Len(s) /\ m < k BY <1>0
      <4>3. s[m] < s[k] BY <1>0, <2>5, <4>2 DEF Increasing
      <4> QED BY <2>2, <3>1, <3>2, <4>1, <4>3 DEF x
    <3>3. CASE j # Len(found) + 1
      <4>1. j \in 1 .. Len(found) BY <1>0, <2>2, <3>3
      <4>2. found[i] < found[j] BY <2>5, <3>1, <4>1, Zenon DEF FoundUpTo, Increasing
      <4> QED BY <2>2, <3>1, <4>1, <4>2
    <3> QED BY <3>2, <3>3
  <2>6. ASSUME \A i \in 1 .. k : s[i] \in S PROVE Len(r) = k /\ \A i \in 1 .. k : r[i] = s[i]
    <3>1. \A i \in 1 .. k - 1 : i \in 1 .. k BY <1>0
    <3>2. Len(found) = k - 1 /\ \A i \in 1 .. k - 1 : found[i] = s[i] BY <2>6, <3>1 DEF FoundUpTo
    <3>3. \A i \in 1 .. k : i = k \/ i \in 1 .. k - 1 BY <1>0
    <3> QED BY <1>0, <2>2, <3>2, <3>3 DEF x
  <2>7. FoundUpTo(k, s, S, r) BY <2>3, <2>4, <2>5, <2>6 DEF FoundUpTo, Increasing
  <2> QED BY <2>1, <2>2, <2>7 DEF x
<1> QED BY <1>1, <1>2

\* A loop over s that pushes what is in S finds the members of s in S, in their
\* order.
LEMMA FoundIsRight ==
  ASSUME NEW s \in Seq(Nat), NEW S
  PROVE  Found(s, S) \in Seq(Nat) /\ FoundUpTo(Len(s), s, S, Found(s, S))
<1> DEFINE n == Len(s)
           X == Seq(Nat)
           base == <<>>
           h == [p \in (1 .. n) \X X |-> Push(S, p[2], s[p[1]])]
           it == CHOOSE g : g = [q \in SUBSET (1 .. n) |->
                                   IF q = {} THEN base ELSE Push(S, g[q \ {Max(q)}], s[Max(q)])]
<1>1. n \in Nat /\ DOMAIN s = 1 .. n /\ \A i \in 1 .. n : s[i] \in Nat OBVIOUS
<1>2. Found(s, S) = it[1 .. n] BY <1>1 DEF Found, FoldLeft, MapThenFoldSet, Push
<1>3. \A i \in 1 .. n, x \in X : Push(S, x, s[i]) \in X BY <1>1 DEF Push
<1>4. base \in X /\ Len(base) = 0 OBVIOUS
<1> HIDE DEF X, base, n
<1>5. h \in Steps(1 .. n, X) BY <1>3 DEF Steps
<1>6. \A i \in 1 .. n, x \in X : h[<<i, x>>] = Push(S, x, s[i]) OBVIOUS
<1> HIDE DEF h
<1>7. \E g : g = [q \in SUBSET (1 .. n) |-> IF q = {} THEN base ELSE Push(S, g[q \ {Max(q)}], s[Max(q)])]
  <2>0. PICK g \in LeftFolds(n, X, base, h) : TRUE BY <1>1, <1>4, <1>5, FoldLeftExists
  <2>1. /\ g \in [SUBSET (1 .. n) -> X]
        /\ \A q \in SUBSET (1 .. n) : g[q] = IF q = {} THEN base ELSE h[<<Max(q), g[q \ {Max(q)}]>>]
    BY Zenon DEF LeftFolds
  <2>2. ASSUME NEW q \in SUBSET (1 .. n), q # {} PROVE g[q] = Push(S, g[q \ {Max(q)}], s[Max(q)])
    <3>1. Max(q) \in 1 .. n BY <1>1, <2>2, MaxIndex, Zenon
    <3>2. g[q \ {Max(q)}] \in X BY <2>1, Zenon
    <3> QED BY <1>6, <2>1, <2>2, <3>1, <3>2, Zenon
  <2>3. g = [q \in SUBSET (1 .. n) |-> IF q = {} THEN base ELSE Push(S, g[q \ {Max(q)}], s[Max(q)])]
    BY <2>1, <2>2, Zenon
  <2> QED BY <2>3, Zenon
<1>8. it = [q \in SUBSET (1 .. n) |-> IF q = {} THEN base ELSE Push(S, it[q \ {Max(q)}], s[Max(q)])]
  BY <1>7, Zenon
<1> HIDE DEF it
<1>9. ASSUME NEW q \in SUBSET (1 .. n), q # {}, it[q \ {Max(q)}] \in X
      PROVE  it[q] = h[<<Max(q), it[q \ {Max(q)}]>>]
  <2>1. Max(q) \in 1 .. n BY <1>1, <1>9, MaxIndex, Zenon
  <2>2. it[q] = Push(S, it[q \ {Max(q)}], s[Max(q)]) BY <1>8, <1>9, Zenon
  <2> QED BY <1>6, <1>9, <2>1, <2>2, Zenon
<1>10. FoldsLeft(n, X, base, h, it) BY <1>8, <1>9, Zenon DEF FoldsLeft
<1>11. PICK r \in LeftRuns(n, X, base, h) : r[n] = it[1 .. n]
  BY <1>1, <1>4, <1>5, <1>10, FoldLeftRun
<1>12. r \in [0 .. n -> X] /\ r[0] = base BY DEF LeftRuns
<1> DEFINE Fine(k) == FoundUpTo(k, s, S, r[k])
           G == {k \in 0 .. n : Fine(k)}
<1>13. 0 \in G
  <2>1. FoundUpTo(0, s, S, base) BY <1>4 DEF FoundUpTo, Increasing
  <2> QED BY <1>1, <1>12, <2>1
<1>14. ASSUME NEW k \in 1 .. n, k - 1 \in G PROVE k \in G
  <2>1. k - 1 \in 0 .. n /\ k \in 0 .. n BY <1>1
  <2> DEFINE x == r[k - 1]
  <2>2. x \in X BY <1>12, <2>1
  <2>3. r[k] = h[<<k, x>>] BY DEF LeftRuns
  <2>4. r[k] = Push(S, x, s[k]) BY <1>6, <2>2, <2>3
  <2>5. FoundUpTo(k - 1, s, S, x) BY <1>14
  <2> HIDE DEF x
  <2>6. FoundUpTo(k, s, S, Push(S, x, s[k])) BY <2>2, <2>5, PushFinds DEF X, n
  <2> QED BY <2>1, <2>4, <2>6
<1>15. \A k \in 0 .. n : k \in G
  <2> HIDE DEF G
  <2> QED BY <1>1, <1>13, <1>14, UpTo, Zenon
<1>16. n \in 0 .. n BY <1>1
<1>17. r[n] \in X /\ FoundUpTo(n, s, S, r[n]) BY <1>12, <1>15, <1>16
<1> QED BY <1>2, <1>11, <1>17 DEF X, n


\* What the loop over the hashes of blocks finds.
LEMMA LogsFound ==
  ASSUME NEW hashes \in Seq(Nat)
  PROVE  /\ LogsOf(hashes) \in Seq(Nat)
         /\ ToSet(LogsOf(hashes)) = {h \in ToSet(hashes) : h \in DOMAIN blocks /\ blocks[h].transactions # <<>>}
         /\ Increasing(hashes) => Increasing(LogsOf(hashes))
<1> DEFINE S == {h \in DOMAIN blocks : blocks[h].transactions # <<>>}
           found == LogsOf(hashes)
<1>1. found = Found(hashes, S) BY DEF LogsOf
<1> HIDE DEF S, found
<1>2. found \in Seq(Nat) /\ FoundUpTo(Len(hashes), hashes, S, found) BY <1>1, FoundIsRight
<1>3. DOMAIN found = 1 .. Len(found) /\ DOMAIN hashes = 1 .. Len(hashes) BY <1>2
<1>4. ToSet(found) = {h \in ToSet(hashes) : h \in S}
  <2>1. ASSUME NEW h \in ToSet(found) PROVE h \in ToSet(hashes) /\ h \in S
    <3>1. PICK j \in 1 .. Len(found) : h = found[j] BY <1>3 DEF ToSet
    <3>2. PICK i \in 1 .. Len(hashes) : found[j] = hashes[i] /\ hashes[i] \in S BY <1>2 DEF FoundUpTo
    <3> QED BY <1>3, <3>1, <3>2 DEF ToSet
  <2>2. ASSUME NEW h \in ToSet(hashes), h \in S PROVE h \in ToSet(found)
    <3>1. PICK i \in 1 .. Len(hashes) : h = hashes[i] BY <1>3 DEF ToSet
    <3>2. PICK j \in 1 .. Len(found) : found[j] = hashes[i] BY <1>2, <2>2, <3>1 DEF FoundUpTo
    <3> QED BY <1>3, <3>1, <3>2 DEF ToSet
  <2> QED BY <2>1, <2>2
<1> QED BY <1>2, <1>4 DEF FoundUpTo, S, found

\* Two sequences in order, one after the other.
LEMMA ConcatIncreasing ==
  ASSUME NEW s \in Seq(Nat), NEW t \in Seq(Nat)
  PROVE  /\ s \o t \in Seq(Nat) /\ ToSet(s \o t) = ToSet(s) \cup ToSet(t)
         /\ Increasing(s) /\ Increasing(t) /\ (\A x \in ToSet(s), y \in ToSet(t) : x < y) => Increasing(s \o t)
<1> DEFINE m == Len(s)
           u == s \o t
<1>1. /\ u \in Seq(Nat) /\ Len(u) = m + Len(t) /\ DOMAIN u = 1 .. Len(u)
      /\ DOMAIN s = 1 .. m /\ DOMAIN t = 1 .. Len(t) /\ m \in Nat /\ Len(t) \in Nat
  OBVIOUS
<1>2. \A i \in 1 .. m : u[i] = s[i] OBVIOUS
<1>3. \A i \in 1 .. Len(t) : u[m + i] = t[i] OBVIOUS
<1>4. ASSUME NEW i \in 1 .. Len(u) PROVE i \in 1 .. m \/ (i - m \in 1 .. Len(t) /\ u[i] = t[i - m])
  <2>1. CASE i <= m BY <1>1, <2>1
  <2>2. CASE i > m
    <3>1. i - m \in 1 .. Len(t) BY <1>1, <2>2
    <3>2. u[m + (i - m)] = t[i - m] BY <1>3, <3>1
    <3>3. m + (i - m) = i BY <1>1
    <3> QED BY <3>1, <3>2, <3>3
  <2> QED BY <1>1, <2>1, <2>2
<1> HIDE DEF u, m
<1>5. ToSet(u) = ToSet(s) \cup ToSet(t)
  <2>1. \A x \in ToSet(u) : x \in ToSet(s) \cup ToSet(t) BY <1>1, <1>2, <1>4, Zenon DEF ToSet
  <2>2. \A x \in ToSet(s) : x \in ToSet(u)
    <3>1. \A i \in 1 .. m : i \in 1 .. Len(u) BY <1>1
    <3> QED BY <1>1, <1>2, <3>1 DEF ToSet
  <2>3. \A x \in ToSet(t) : x \in ToSet(u)
    <3>1. \A i \in 1 .. Len(t) : m + i \in 1 .. Len(u) BY <1>1
    <3> QED BY <1>1, <1>3, <3>1, Zenon DEF ToSet
  <2> QED BY <2>1, <2>2, <2>3
<1>6. ASSUME Increasing(s), Increasing(t), \A x \in ToSet(s), y \in ToSet(t) : x < y,
             NEW i \in 1 .. Len(u), NEW j \in 1 .. Len(u), i < j
      PROVE  u[i] < u[j]
  <2>1. CASE i \in 1 .. m /\ j \in 1 .. m
    <3>1. s[i] < s[j] BY <1>6, <2>1 DEF Increasing, m
    <3> QED BY <1>2, <2>1, <3>1
  <2>2. CASE i \in 1 .. m /\ j \notin 1 .. m
    <3>1. s[i] \in ToSet(s) BY <1>1, <2>2, Zenon DEF ToSet
    <3>2. j - m \in 1 .. Len(t) /\ u[j] = t[j - m] BY <1>4, <2>2
    <3>3. t[j - m] \in ToSet(t) BY <1>1, <3>2, Zenon DEF ToSet
    <3> QED BY <1>2, <1>6, <2>2, <3>1, <3>2, <3>3
  <2>3. CASE i \notin 1 .. m
    <3>1. j \notin 1 .. m BY <1>1, <1>6, <2>3
    <3>2. /\ i - m \in 1 .. Len(t) /\ u[i] = t[i - m]
          /\ j - m \in 1 .. Len(t) /\ u[j] = t[j - m]
      BY <1>4, <2>3, <3>1
    <3>3. i - m < j - m BY <1>1, <1>6
    <3> QED BY <1>6, <3>2, <3>3 DEF Increasing
  <2> QED BY <2>1, <2>2, <2>3
<1> QED BY <1>1, <1>5, <1>6 DEF Increasing, u

\* The same for one more element.
LEMMA AppendIncreasing ==
  ASSUME NEW s \in Seq(Nat), NEW x \in Nat
  PROVE  /\ Append(s, x) \in Seq(Nat) /\ ToSet(Append(s, x)) = ToSet(s) \cup {x}
         /\ Increasing(s) /\ (\A y \in ToSet(s) : y < x) => Increasing(Append(s, x))
<1> DEFINE t == <<x>>
<1>1. t \in Seq(Nat) /\ ToSet(t) = {x} /\ Increasing(t) BY DEF ToSet, Increasing
<1>2. Append(s, x) = s \o t OBVIOUS
<1> HIDE DEF t
<1> QED BY <1>1, <1>2, ConcatIncreasing


-----------------------------------------------------------------------------
(* Blocks and the filters that hear of them *)

\* The blocks: hashes in the order of the chain, the one in the making above
\* all others, and the one that is stored but not announced the last.
BlocksIInv ==
  /\ made \in Nat /\ made <= MaxMade
  /\ making = Idle \/ making \in [phase : {"executing", "stored"}, transactions : Bodies, base_fee : Nat]
  /\ chain \in Seq(Nat) /\ Len(chain) >= 1 /\ Increasing(chain)
  /\ ToSet(chain) = DOMAIN blocks
  /\ \A i \in 1 .. Len(chain) : blocks[chain[i]].number = i - 1
  /\ \A h \in ToSet(chain) : h <= made
  /\ making.phase = "executing" => \A h \in ToSet(chain) : h < made
  /\ making.phase = "stored" => chain[Len(chain)] = made
  /\ base_fee \in Nat

\* The logs a filter has told of or will tell of.
Told == ToSet(delivered) \cup ToSet(filter.historic) \cup ToSet(filter.blocks)

\* What a filter delivered, the logs it read and the blocks it heard of follow
\* each other, below the block in the making, and only a block that is not yet
\* announced is missing.
InSequence ==
  /\ Increasing(delivered) /\ Increasing(filter.historic) /\ Increasing(filter.blocks)
  /\ \A x \in ToSet(delivered), y \in ToSet(filter.historic) \cup ToSet(filter.blocks) : x < y
  /\ \A x \in ToSet(filter.historic), y \in ToSet(filter.blocks) : x < y
  /\ \A h \in Told : h <= made /\ (making # Idle => h < made)
  /\ \A h \in ToSet(chain) :
       blocks[h].transactions # <<>> => h \in Told \/ (making.phase = "stored" /\ h = made)

FilterIInv ==
  /\ filter \in [phase : {"none", "reading", "active", "evicted"}, historic : Seq(Nat),
                 blocks : Seq(Nat), deadline : Nat]
  /\ history \in [reverted : BOOLEAN, overlapped : BOOLEAN]
  /\ delivered \in Seq(Nat) /\ clock \in Nat /\ polled \in Nat
  /\ filter.phase = "active" => filter.deadline = polled + keepalive
  /\ filter.phase = "none" => filter = NoFilter
  /\ filter.phase # "active" => delivered = <<>> /\ filter.blocks = <<>>
  /\ filter.phase = "reading" /\ ~history.overlapped => making = Idle
  /\ filter.phase \in {"reading", "active"} /\ ~history.overlapped => InSequence

\* The genesis block, and no filter.
LEMMA ListenersStart == ListenersInit => BlocksIInv /\ FilterIInv
<1> SUFFICES ASSUME ListenersInit PROVE BlocksIInv /\ FilterIInv OBVIOUS
<1>1. /\ chain = <<0>> /\ DOMAIN blocks = {0} /\ blocks[0].number = 0
      /\ base_fee = initial_base_fee /\ making = Idle /\ filter = NoFilter
      /\ delivered = <<>> /\ polled = 0 /\ clock = 0 /\ made = 0
      /\ history = [reverted |-> FALSE, overlapped |-> FALSE]
  BY DEF ListenersInit
<1>2. /\ chain \in Seq(Nat) /\ Len(chain) = 1 /\ chain[1] = 0 /\ ToSet(chain) = {0} BY <1>1 DEF ToSet
<1>3. Increasing(chain) BY <1>2 DEF Increasing
<1>4. BlocksIInv
  <2>1. \A i \in 1 .. Len(chain) : i = 1 BY <1>2
  <2>2. base_fee \in Nat /\ MaxMade \in Nat BY <1>1, ListenersAssumption
  <2>3. making.phase = "idle" BY <1>1 DEF Idle
  <2> QED BY <1>1, <1>2, <1>3, <2>1, <2>2, <2>3 DEF BlocksIInv
<1>5. FilterIInv
  <2>1. <<>> \in Seq(Nat) OBVIOUS
  <2>2. filter \in [phase : {"none", "reading", "active", "evicted"}, historic : Seq(Nat),
                    blocks : Seq(Nat), deadline : Nat] /\ filter.phase = "none" /\ filter.blocks = <<>>
    BY <1>1, <2>1 DEF NoFilter
  <2> QED BY <1>1, <2>1, <2>2 DEF FilterIInv
<1> QED BY <1>4, <1>5

\* The gas of a block's transactions is a number.
LEMMA GasUsedType == ASSUME NEW txs \in Bodies PROVE gas_used(txs) \in Nat
<1> DEFINE n == Len(txs)
           X == Nat
           base == 0
           h == [p \in (1 .. n) \X X |-> AddGas(p[2], txs[p[1]])]
           it == CHOOSE g : g = [q \in SUBSET (1 .. n) |->
                                   IF q = {} THEN base ELSE AddGas(g[q \ {Max(q)}], txs[Max(q)])]
<1>0. txs \in Seq([gas : Nat \ {0}]) BY ListenersAssumption
<1>1. n \in Nat /\ DOMAIN txs = 1 .. n /\ \A i \in 1 .. n : txs[i] \in [gas : Nat \ {0}]
  <2> DEFINE T == [gas : Nat \ {0}]
  <2>1. txs \in Seq(T) BY <1>0
  <2> HIDE DEF T
  <2>2. n \in Nat /\ DOMAIN txs = 1 .. n /\ \A i \in 1 .. n : txs[i] \in T BY <2>1
  <2> QED BY <2>2 DEF T
<1>2. gas_used(txs) = it[1 .. n] BY <1>1 DEF gas_used, FoldLeft, MapThenFoldSet
<1>3. \A i \in 1 .. n, x \in X : AddGas(x, txs[i]) \in X BY <1>1 DEF AddGas
<1>4. base \in X OBVIOUS
<1> HIDE DEF n, X, base
<1>5. h \in Steps(1 .. n, X) BY <1>3 DEF Steps
<1>6. \A i \in 1 .. n, x \in X : h[<<i, x>>] = AddGas(x, txs[i]) OBVIOUS
<1> HIDE DEF h
<1>7. \E g : g = [q \in SUBSET (1 .. n) |-> IF q = {} THEN base ELSE AddGas(g[q \ {Max(q)}], txs[Max(q)])]
  <2>0. PICK g \in LeftFolds(n, X, base, h) : TRUE BY <1>1, <1>4, <1>5, FoldLeftExists
  <2>1. /\ g \in [SUBSET (1 .. n) -> X]
        /\ \A q \in SUBSET (1 .. n) : g[q] = IF q = {} THEN base ELSE h[<<Max(q), g[q \ {Max(q)}]>>]
    BY DEF LeftFolds
  <2>2. ASSUME NEW q \in SUBSET (1 .. n), q # {} PROVE g[q] = AddGas(g[q \ {Max(q)}], txs[Max(q)])
    <3>1. Max(q) \in 1 .. n BY <1>1, <2>2, MaxIndex, Zenon
    <3>2. g[q \ {Max(q)}] \in X BY <2>1, Zenon
    <3> QED BY <1>6, <2>1, <2>2, <3>1, <3>2, Zenon
  <2>3. g = [q \in SUBSET (1 .. n) |-> IF q = {} THEN base ELSE AddGas(g[q \ {Max(q)}], txs[Max(q)])]
    BY <2>1, <2>2, Zenon
  <2> QED BY <2>3, Zenon
<1>8. it = [q \in SUBSET (1 .. n) |-> IF q = {} THEN base ELSE AddGas(it[q \ {Max(q)}], txs[Max(q)])]
  BY <1>7, Zenon
<1> HIDE DEF it
<1>9. ASSUME NEW q \in SUBSET (1 .. n), q # {}, it[q \ {Max(q)}] \in X
      PROVE  it[q] = h[<<Max(q), it[q \ {Max(q)}]>>]
  <2>1. Max(q) \in 1 .. n BY <1>1, <1>9, MaxIndex, Zenon
  <2>2. it[q] = AddGas(it[q \ {Max(q)}], txs[Max(q)]) BY <1>8, <1>9, Zenon
  <2> QED BY <1>6, <1>9, <2>1, <2>2
<1>10. FoldsLeft(n, X, base, h, it) BY <1>8, <1>9, Zenon DEF FoldsLeft
<1>11. PICK r \in LeftRuns(n, X, base, h) : r[n] = it[1 .. n] BY <1>1, <1>4, <1>5, <1>10, FoldLeftRun
<1>12. n \in 0 .. n /\ r \in [0 .. n -> X] BY <1>1 DEF LeftRuns
<1>13. r[n] \in X BY <1>12
<1> QED BY <1>2, <1>11, <1>13 DEF X


\* Division rounds down, and a positive factor can be cancelled.
LEMMA DivBound ==
  ASSUME NEW x \in Nat, NEW y \in Nat \ {0}, NEW z \in Nat, x <= y * z
  PROVE  x \div y \in Nat /\ x \div y <= z
<1>1. x \div y \in Nat /\ y * (x \div y) <= x OBVIOUS
<1> DEFINE q == x \div y
<1>2. q \in Nat /\ y * q <= y * z
  <2>1. y * q \in Int /\ y * z \in Int BY <1>1
  <2> QED BY <1>1, <2>1
<1> HIDE DEF q
<1>3. q <= z BY <1>2
<1> QED BY <1>1, <1>3 DEF q

\* The fee of the next block never falls below zero.
LEMMA NextFeeType ==
  ASSUME NEW used \in Nat, NEW fee \in Nat
  PROVE  get_next_block_base_fee_per_gas(used, fee) \in Nat
<1> DEFINE target == block_gas \div 2
<1>1. target \in Nat \ {0} BY ListenersAssumption
<1> HIDE DEF target
<1>2. ASSUME used > target PROVE fee + Max({1, ((fee * (used - target)) \div target) \div 8}) \in Nat
  <2> DEFINE x == fee * (used - target)
             z == (x \div target) \div 8
  <2>1. used - target \in Nat BY <1>1, <1>2
  <2>2. x \in Nat BY <2>1
  <2> HIDE DEF x
  <2>3. x \div target \in Nat BY <1>1, <2>2
  <2>4. z \in Nat BY <2>3
  <2> HIDE DEF z
  <2>5. Max({1, z}) \in Nat
    <3>1. \E m \in {1, z} : \A y \in {1, z} : m >= y BY <2>4
    <3>2. Max({1, z}) \in {1, z} BY <3>1 DEF Max
    <3> QED BY <2>4, <3>2
  <2> QED BY <2>5 DEF x, z
<1>3. ASSUME used <= target PROVE fee - (((fee * (target - used)) \div target) \div 8) \in Nat
  <2> DEFINE d == target - used
             x == fee * d
             q == x \div target
             z == q \div 8
  <2>1. d \in Nat /\ d <= target BY <1>1, <1>3
  <2>2. x \in Nat /\ x <= target * fee
    <3> HIDE DEF d
    <3> QED BY <1>1, <2>1
  <2> HIDE DEF x, d
  <2>3. q \in Nat /\ q <= fee BY <1>1, <2>2, DivBound
  <2> HIDE DEF q
  <2>4. z \in Nat /\ z <= fee BY <2>3
  <2> HIDE DEF z
  <2>5. fee - z \in Nat BY <2>4
  <2> QED BY <2>5 DEF x, d, q, z
<1> QED BY <1>1, <1>2, <1>3 DEF get_next_block_base_fee_per_gas, calc_next_block_base_fee, target

\* Making a block, storing it and telling of it.
LEMMA BlocksGrow ==
  ASSUME BlocksIInv, (\E txs \in Bodies : begins_block(txs)) \/ stores_block \/ notify_on_new_block
  PROVE  BlocksIInv'
<1>0. /\ made \in Nat /\ made <= MaxMade /\ MaxMade \in Nat /\ base_fee \in Nat
      /\ chain \in Seq(Nat) /\ Len(chain) >= 1 /\ Increasing(chain) /\ ToSet(chain) = DOMAIN blocks
      /\ Idle.phase = "idle"
  BY ListenersAssumption DEF BlocksIInv, Idle
<1>1. ASSUME NEW txs \in Bodies, begins_block(txs) PROVE BlocksIInv'
  <2>1. /\ making' = [phase |-> "executing", transactions |-> txs, base_fee |-> base_fee]
        /\ made' = made + 1 /\ made < MaxMade /\ UNCHANGED <<chain, blocks, base_fee>>
    BY <1>1 DEF begins_block
  <2>2. making' \in [phase : {"executing", "stored"}, transactions : Bodies, base_fee : Nat]
        /\ making'.phase = "executing"
    BY <1>0, <2>1
  <2>3. \A h \in ToSet(chain) : h \in Nat /\ h <= made BY <1>0 DEF BlocksIInv, ToSet
  <2>4. made' \in Nat /\ made' <= MaxMade /\ \A h \in ToSet(chain) : h <= made' /\ h < made'
    BY <1>0, <2>1, <2>3
  <2> QED BY <1>0, <2>1, <2>2, <2>4 DEF BlocksIInv
<1>2. ASSUME stores_block PROVE BlocksIInv'
  <2> DEFINE b == [number |-> Len(chain), base_fee |-> making.base_fee, transactions |-> making.transactions]
  <2>1. /\ making.phase = "executing" /\ making' = [making EXCEPT !.phase = "stored"]
        /\ chain' = Append(chain, made) /\ blocks' = Insert(blocks, made, b)
        /\ UNCHANGED <<base_fee, made>>
    BY <1>2 DEF stores_block
  <2>2. b.number = Len(chain) OBVIOUS
  <2> HIDE DEF b
  <2>3. making \in [phase : {"executing", "stored"}, transactions : Bodies, base_fee : Nat]
    BY <1>0, <2>1 DEF BlocksIInv
  <2>4. making' \in [phase : {"executing", "stored"}, transactions : Bodies, base_fee : Nat]
        /\ making'.phase = "stored"
    BY <2>1, <2>3
  <2>5. \A h \in ToSet(chain) : h < made BY <2>1 DEF BlocksIInv
  <2>6. chain' \in Seq(Nat) /\ Increasing(chain') /\ ToSet(chain') = ToSet(chain) \cup {made}
    BY <1>0, <2>1, <2>5, AppendIncreasing
  <2>7. /\ Len(chain') = Len(chain) + 1 /\ chain'[Len(chain')] = made /\ Len(chain) \in Nat
        /\ \A i \in 1 .. Len(chain) : chain'[i] = chain[i] /\ chain[i] \in ToSet(chain)
    BY <1>0, <2>1 DEF ToSet
  <2>8. DOMAIN blocks' = DOMAIN blocks \cup {made} /\ blocks'[made] = b
        /\ \A h \in DOMAIN blocks : h # made => blocks'[h] = blocks[h]
    BY <2>1 DEF Insert
  <2>9. ASSUME NEW i \in 1 .. Len(chain') PROVE blocks'[chain'[i]].number = i - 1
    <3>1. CASE i = Len(chain') BY <2>2, <2>7, <2>8, <3>1
    <3>2. CASE i # Len(chain')
      <4>1. i \in 1 .. Len(chain) BY <2>7, <3>2
      <4>2. chain[i] # made /\ chain[i] \in DOMAIN blocks BY <1>0, <2>5, <2>7, <4>1
      <4> QED BY <2>7, <2>8, <4>1, <4>2 DEF BlocksIInv
    <3> QED BY <3>1, <3>2
  <2>10. \A h \in ToSet(chain') : h <= made BY <1>0, <2>6 DEF BlocksIInv
  <2> QED BY <1>0, <2>1, <2>4, <2>6, <2>7, <2>8, <2>9, <2>10 DEF BlocksIInv
<1>3. ASSUME notify_on_new_block PROVE BlocksIInv'
  <2>1. /\ making.phase = "stored" /\ making' = Idle /\ UNCHANGED <<chain, blocks, made>>
        /\ base_fee' = get_next_block_base_fee_per_gas(gas_used(making.transactions), making.base_fee)
    BY <1>3 DEF notify_on_new_block
  <2>2. making.transactions \in Bodies /\ making.base_fee \in Nat BY <1>0, <2>1 DEF BlocksIInv
  <2>3. base_fee' \in Nat BY <2>1, <2>2, GasUsedType, NextFeeType, Zenon
  <2> QED BY <1>0, <2>1, <2>3 DEF BlocksIInv
<1> QED BY <1>1, <1>2, <1>3

\* A revert cuts the chain; all else leaves the blocks alone.
LEMMA BlocksKept ==
  ASSUME BlocksIInv,
         \/ \E n \in 1 .. MaxMade : revert(n)
         \/ \E fee \in Fees : anvil_set_next_block_base_fee_per_gas(fee)
         \/ UNCHANGED <<chain, blocks, making, made, base_fee>>
  PROVE  BlocksIInv'
<1>1. ASSUME NEW n \in 1 .. MaxMade, revert(n) PROVE BlocksIInv'
  <2>1. /\ making = Idle /\ n < Len(chain) /\ chain' = SubSeq(chain, 1, n)
        /\ blocks' = Restrict(blocks, ToSet(chain')) /\ UNCHANGED <<base_fee, making, made>>
    BY <1>1 DEF revert
  <2>2. /\ chain \in Seq(Nat) /\ Len(chain) \in Nat /\ n \in Nat /\ n >= 1 /\ Increasing(chain)
        /\ DOMAIN chain = 1 .. Len(chain)
    BY ListenersAssumption DEF BlocksIInv
  <2>3. \A i \in 1 .. n : i \in 1 .. Len(chain)
    <3>1. n < Len(chain) BY <2>1
    <3>2. n \in Nat /\ Len(chain) \in Nat BY <2>2
    <3> QED BY <3>1, <3>2
  <2>4. chain' \in Seq(Nat) /\ Len(chain') = n /\ DOMAIN chain' = 1 .. n /\ \A i \in 1 .. n : chain'[i] = chain[i]
    <3> DEFINE c == SubSeq(chain, 1, n)
    <3>1. n <= Len(chain) BY <2>2, <2>3
    <3>2. c \in Seq(Nat) /\ Len(c) = n /\ \A i \in 1 .. n : c[i] = chain[i] BY <2>2, <3>1
    <3>3. DOMAIN c = 1 .. n BY <3>2
    <3> QED BY <2>1, <3>2, <3>3
  <2>5. Increasing(chain') BY <2>2, <2>4, <2>3 DEF Increasing
  <2>6. ToSet(chain') \subseteq ToSet(chain) BY <2>2, <2>4, <2>3 DEF ToSet
  <2>7. DOMAIN blocks' = ToSet(chain') /\ \A h \in ToSet(chain') : blocks'[h] = blocks[h] BY <2>1 DEF Restrict
  <2>8. \A i \in 1 .. n : chain'[i] \in ToSet(chain') BY <2>4, Zenon DEF ToSet
  <2>9. \A i \in 1 .. Len(chain') : blocks'[chain'[i]].number = i - 1 BY <2>4, <2>3, <2>7, <2>8, Zenon DEF BlocksIInv
  <2>10. making'.phase = "idle" BY <2>1 DEF Idle
  <2> QED BY <2>1, <2>2, <2>4, <2>5, <2>6, <2>7, <2>9, <2>10, Zenon DEF BlocksIInv
<1>2. ASSUME NEW fee \in Fees, anvil_set_next_block_base_fee_per_gas(fee) PROVE BlocksIInv'
  <2>1. base_fee' \in Nat /\ UNCHANGED <<chain, blocks, making, made>>
    BY <1>2, ListenersAssumption DEF anvil_set_next_block_base_fee_per_gas
  <2> QED BY <2>1 DEF BlocksIInv
<1>3. CASE UNCHANGED <<chain, blocks, making, made, base_fee>> BY <1>3 DEF BlocksIInv
<1> QED BY <1>1, <1>2, <1>3


\* A filter while blocks are made, stored, announced and reverted.
LEMMA FilterHears ==
  ASSUME BlocksIInv, FilterIInv,
         \/ \E txs \in Bodies : begins_block(txs)
         \/ stores_block \/ notify_on_new_block
         \/ \E n \in 1 .. MaxMade : revert(n)
  PROVE  FilterIInv'
<1>0. /\ made \in Nat /\ chain \in Seq(Nat) /\ ToSet(chain) = DOMAIN blocks
      /\ Idle.phase = "idle"
      /\ delivered \in Seq(Nat) /\ filter.historic \in Seq(Nat) /\ filter.blocks \in Seq(Nat)
  BY DEF BlocksIInv, FilterIInv, Idle
<1>a. \A h \in Told : h \in Nat BY <1>0 DEF Told, ToSet
<1>b. DOMAIN history = {"reverted", "overlapped"} /\ history.reverted \in BOOLEAN /\ history.overlapped \in BOOLEAN
  BY DEF FilterIInv
<1>1. ASSUME NEW txs \in Bodies, begins_block(txs) PROVE FilterIInv'
  <2> DEFINE o == history.overlapped \/ filter.phase = "reading"
  <2>1. /\ making = Idle /\ made' = made + 1 /\ making'.phase = "executing"
        /\ history' = [history EXCEPT !.overlapped = o]
        /\ UNCHANGED <<chain, blocks, filter, delivered, polled, clock>>
    BY <1>1 DEF begins_block
  <2>2. o \in BOOLEAN BY <1>b
  <2>3. (o <=> history.overlapped \/ filter.phase = "reading") OBVIOUS
  <2> HIDE DEF o
  <2>4. history' \in [reverted : BOOLEAN, overlapped : BOOLEAN] /\ history'.overlapped = o
    BY <2>1, <2>2 DEF FilterIInv
  <2>5. ASSUME ~o, filter.phase \in {"reading", "active"} PROVE InSequence'
    <3>1. InSequence BY <1>b, <2>3, <2>5 DEF FilterIInv
    <3>2. \A h \in Told : h <= made' /\ h < made' BY <1>0, <1>a, <2>1, <3>1 DEF InSequence
    <3>3. Told' = Told BY <2>1 DEF Told
    <3>4. making.phase # "stored" BY <1>0, <2>1
    <3> QED BY <2>1, <3>1, <3>2, <3>3, <3>4 DEF InSequence
  <2>6. filter'.phase = "reading" => history'.overlapped BY <2>1, <2>3, <2>4
  <2> QED BY <2>1, <2>4, <2>5, <2>6 DEF FilterIInv
<1>2. ASSUME stores_block PROVE FilterIInv'
  <2> DEFINE b == [number |-> Len(chain), base_fee |-> making.base_fee, transactions |-> making.transactions]
  <2>1. /\ making.phase = "executing" /\ making' = [making EXCEPT !.phase = "stored"]
        /\ chain' = Append(chain, made) /\ blocks' = Insert(blocks, made, b)
        /\ UNCHANGED <<made, filter, delivered, polled, clock, history>>
    BY <1>2 DEF stores_block
  <2> HIDE DEF b
  <2>2. making # Idle /\ making'.phase = "stored" BY <1>0, <2>1 DEF BlocksIInv
  <2>3. making' # Idle BY <1>0, <2>2
  <2>4. ASSUME InSequence PROVE InSequence'
    <3>1. ToSet(chain') = ToSet(chain) \cup {made} BY <1>0, <2>1, AppendIncreasing
    <3>2. \A h \in ToSet(chain) : h # made => blocks'[h] = blocks[h] BY <1>0, <2>1 DEF Insert
    <3>3. Told' = Told BY <2>1 DEF Told
    <3>4. ASSUME NEW h \in ToSet(chain'), blocks'[h].transactions # <<>>
          PROVE  h \in Told \/ (making'.phase = "stored" /\ h = made)
      <4>1. CASE h = made BY <2>2, <4>1
      <4>2. CASE h # made
        <5>1. h \in ToSet(chain) /\ blocks[h].transactions # <<>> BY <3>1, <3>2, <3>4, <4>2
        <5> QED BY <2>1, <2>4, <5>1 DEF InSequence
      <4> QED BY <4>1, <4>2
    <3> QED BY <2>1, <2>2, <2>4, <3>3, <3>4 DEF InSequence
  <2> QED BY <2>1, <2>2, <2>4 DEF FilterIInv
<1>3. ASSUME notify_on_new_block PROVE FilterIInv'
  <2>1. /\ making.phase = "stored" /\ making' = Idle
        /\ filter' = IF filter.phase = "active" THEN [filter EXCEPT !.blocks = Append(@, made)] ELSE filter
        /\ UNCHANGED <<chain, blocks, made, delivered, polled, clock, history>>
    BY <1>3 DEF notify_on_new_block
  <2>2. making # Idle BY <1>0, <2>1
  <2>3. CASE filter.phase # "active"
    <3>1. filter' = filter BY <2>1, <2>3
    <3>2. ~(filter.phase = "reading" /\ ~history.overlapped) BY <2>2 DEF FilterIInv
    <3> QED BY <2>1, <2>3, <3>1, <3>2 DEF FilterIInv
  <2>4. CASE filter.phase = "active"
    <3> DEFINE heardOf == Append(filter.blocks, made)
    <3>1. filter' = [filter EXCEPT !.blocks = heardOf] BY <2>1, <2>4
    <3>2. heardOf \in Seq(Nat) /\ ToSet(heardOf) = ToSet(filter.blocks) \cup {made} BY <1>0, AppendIncreasing
    <3>3. ASSUME InSequence PROVE InSequence'
      <4>1. \A h \in Told : h < made BY <2>2, <3>3 DEF InSequence
      <4>2. Increasing(heardOf)
        <5>1. Increasing(filter.blocks) /\ \A y \in ToSet(filter.blocks) : y < made
          BY <3>3, <4>1 DEF InSequence, Told
        <5> QED BY <1>0, <5>1, AppendIncreasing
      <4> HIDE DEF heardOf
      <4>3. filter'.historic = filter.historic /\ filter'.blocks = heardOf BY <3>1 DEF FilterIInv
      <4>4. Told' = Told \cup {made} BY <2>1, <3>2, <4>3, Zenon DEF Told
      <4>5. \A x \in ToSet(delivered), y \in ToSet(filter.historic) \cup ToSet(heardOf) : x < y
        BY <3>2, <3>3, <4>1 DEF InSequence, Told
      <4>6. \A x \in ToSet(filter.historic), y \in ToSet(heardOf) : x < y BY <3>2, <3>3, <4>1 DEF InSequence, Told
      <4>7. \A h \in Told' : h <= made
        <5>1. made <= made BY <1>0
        <5>2. \A h \in Told : h <= made BY <3>3 DEF InSequence
        <5> QED BY <4>4, <5>1, <5>2
      <4>8. \A h \in ToSet(chain) : blocks[h].transactions # <<>> => h \in Told' BY <3>3, <4>4 DEF InSequence
      <4> QED BY <2>1, <3>3, <4>2, <4>3, <4>5, <4>6, <4>7, <4>8, Zenon DEF InSequence
    <3> HIDE DEF heardOf
    <3>4. /\ filter' \in [phase : {"none", "reading", "active", "evicted"}, historic : Seq(Nat),
                          blocks : Seq(Nat), deadline : Nat]
          /\ filter'.phase = "active" /\ filter'.deadline = filter.deadline
      BY <2>4, <3>1, <3>2, Zenon DEF FilterIInv
    <3> QED BY <2>1, <2>4, <3>3, <3>4 DEF FilterIInv
  <2> QED BY <2>3, <2>4
<1>4. ASSUME NEW n \in 1 .. MaxMade, revert(n) PROVE FilterIInv'
  <2>1. /\ making = Idle /\ n < Len(chain) /\ chain' = SubSeq(chain, 1, n)
        /\ blocks' = Restrict(blocks, ToSet(chain')) /\ history' = [history EXCEPT !.reverted = TRUE]
        /\ UNCHANGED <<making, made, filter, delivered, polled, clock>>
    BY <1>4 DEF revert
  <2>2. ToSet(chain') \subseteq ToSet(chain)
    <3>1. n < Len(chain) BY <2>1
    <3>2. chain' = SubSeq(chain, 1, n) BY <2>1
    <3>3. n \in Nat /\ 1 <= n BY ListenersAssumption
    <3> DEFINE c == SubSeq(chain, 1, n)
    <3>4. Len(c) = n /\ \A i \in 1 .. n : c[i] = chain[i] /\ i \in 1 .. Len(chain) BY <1>0, <3>1, <3>3
    <3>5. DOMAIN c = 1 .. n /\ DOMAIN chain = 1 .. Len(chain) BY <1>0, <3>4
    <3> QED BY <3>2, <3>4, <3>5 DEF ToSet
  <2>3. \A h \in ToSet(chain') : blocks'[h] = blocks[h] BY <2>1 DEF Restrict
  <2>4. history' \in [reverted : BOOLEAN, overlapped : BOOLEAN] /\ history'.overlapped = history.overlapped
    BY <2>1, Zenon DEF FilterIInv
  <2>5. InSequence => InSequence' BY <2>1, <2>2, <2>3 DEF InSequence, Told
  <2> QED BY <2>1, <2>4, <2>5 DEF FilterIInv
<1> QED BY <1>1, <1>2, <1>3, <1>4


\* A filter that is installed, polled and evicted.
LEMMA FilterServes ==
  ASSUME BlocksIInv, FilterIInv,
         \/ new_filter_reads \/ new_filter_listens \/ get_filter_changes \/ tick_and_evict
  PROVE  FilterIInv'
<1> DEFINE Filters == [phase : {"none", "reading", "active", "evicted"}, historic : Seq(Nat),
                       blocks : Seq(Nat), deadline : Nat]
<1>0. /\ made \in Nat /\ chain \in Seq(Nat) /\ Increasing(chain) /\ ToSet(chain) = DOMAIN blocks
      /\ filter \in Filters /\ filter.historic \in Seq(Nat) /\ filter.blocks \in Seq(Nat)
      /\ delivered \in Seq(Nat) /\ clock \in Nat /\ polled \in Nat /\ keepalive \in Nat
      /\ history \in [reverted : BOOLEAN, overlapped : BOOLEAN]
  BY ListenersAssumption DEF BlocksIInv, FilterIInv
<1>e. <<>> \in Seq(Nat) /\ ToSet(<<>>) = {} /\ Increasing(<<>>) BY DEF ToSet, Increasing
<1>1. CASE new_filter_reads
  <2> DEFINE logs == LogsOf(chain)
  <2>1. /\ filter.phase = "none" /\ delivered = <<>>
        /\ filter' = [filter EXCEPT !.phase = "reading", !.historic = logs]
        /\ history' = [history EXCEPT !.overlapped = (making # Idle)]
        /\ UNCHANGED <<chain, blocks, making, delivered, clock, made, polled>>
    BY <1>1 DEF new_filter_reads
  <2>2. /\ logs \in Seq(Nat) /\ Increasing(logs)
        /\ ToSet(logs) = {h \in ToSet(chain) : h \in DOMAIN blocks /\ blocks[h].transactions # <<>>}
    BY <1>0, LogsFound
  <2> HIDE DEF logs
  <2>3. filter.blocks = <<>> BY <2>1 DEF FilterIInv
  <2>4. /\ filter' \in Filters /\ filter'.phase = "reading" /\ filter'.historic = logs /\ filter'.blocks = <<>>
    BY <1>0, <2>1, <2>2, <2>3, Zenon
  <2>5. history' \in [reverted : BOOLEAN, overlapped : BOOLEAN] /\ (history'.overlapped <=> making # Idle)
    BY <1>0, <2>1, Zenon
  <2>6. ASSUME making = Idle PROVE InSequence'
    <3>1. Told' = ToSet(logs) BY <1>e, <2>1, <2>4 DEF Told
    <3>2. \A h \in ToSet(logs) : h <= made BY <2>2 DEF BlocksIInv
    <3>3. \A h \in ToSet(chain) : blocks[h].transactions # <<>> => h \in ToSet(logs) BY <1>0, <2>2
    <3>4. Increasing(delivered') /\ Increasing(filter'.historic) /\ Increasing(filter'.blocks)
      BY <1>e, <2>1, <2>2, <2>4
    <3>5. ToSet(delivered') = {} /\ ToSet(filter'.blocks) = {} BY <1>e, <2>1, <2>4
    <3> QED BY <2>1, <2>6, <3>1, <3>2, <3>3, <3>4, <3>5 DEF InSequence
  <2> QED BY <1>0, <2>1, <2>4, <2>5, <2>6 DEF FilterIInv
<1>2. CASE new_filter_listens
  <2> DEFINE until == clock + keepalive
  <2>1. /\ filter.phase = "reading" /\ filter' = [filter EXCEPT !.phase = "active", !.deadline = until]
        /\ polled' = clock /\ UNCHANGED <<chain, blocks, making, delivered, clock, made, history>>
    BY <1>2 DEF new_filter_listens
  <2>2. until \in Nat BY <1>0
  <2>3. until = polled' + keepalive BY <2>1
  <2> HIDE DEF until
  <2>4. /\ filter' \in Filters /\ filter'.phase = "active" /\ filter'.deadline = until
        /\ filter'.historic = filter.historic /\ filter'.blocks = filter.blocks
    BY <1>0, <2>1, <2>2, Zenon
  <2>5. InSequence => InSequence' BY <2>1, <2>4 DEF InSequence, Told
  <2> QED BY <1>0, <2>1, <2>3, <2>4, <2>5 DEF FilterIInv
<1>3. CASE get_filter_changes
  <2> DEFINE logs == LogsOf(filter.blocks)
             told == delivered \o filter.historic
             until == clock + keepalive
  <2>1. /\ filter.phase = "active" /\ delivered' = told \o logs
        /\ filter' = [filter EXCEPT !.historic = <<>>, !.blocks = <<>>, !.deadline = until]
        /\ polled' = clock /\ UNCHANGED <<chain, blocks, making, clock, made, history>>
    BY <1>3 DEF get_filter_changes
  <2>2. /\ logs \in Seq(Nat) /\ (Increasing(filter.blocks) => Increasing(logs))
        /\ ToSet(logs) = {h \in ToSet(filter.blocks) : h \in DOMAIN blocks /\ blocks[h].transactions # <<>>}
    BY <1>0, LogsFound
  <2>3. told \in Seq(Nat) /\ ToSet(told) = ToSet(delivered) \cup ToSet(filter.historic) BY <1>0, ConcatIncreasing
  <2>4. InSequence => Increasing(told) BY <1>0, ConcatIncreasing DEF InSequence
  <2>5. until \in Nat /\ until = polled' + keepalive BY <1>0, <2>1
  <2> HIDE DEF logs, told, until
  <2>6. delivered' \in Seq(Nat) /\ ToSet(delivered') = ToSet(told) \cup ToSet(logs)
    BY <2>1, <2>2, <2>3, ConcatIncreasing
  <2>7. /\ filter' \in Filters /\ filter'.phase = "active" /\ filter'.deadline = until
        /\ filter'.historic = <<>> /\ filter'.blocks = <<>>
    BY <1>0, <1>e, <2>1, <2>5, Zenon
  <2>8. ASSUME InSequence PROVE InSequence'
    <3>1. \A x \in ToSet(told), y \in ToSet(logs) : x < y BY <2>2, <2>3, <2>8 DEF InSequence
    <3>2. Increasing(logs) BY <2>2, <2>8 DEF InSequence
    <3>3. Increasing(delivered') BY <2>1, <2>2, <2>3, <2>4, <2>8, <3>1, <3>2, ConcatIncreasing
    <3>4. ToSet(filter'.historic) = {} /\ ToSet(filter'.blocks) = {}
          /\ Increasing(filter'.historic) /\ Increasing(filter'.blocks)
      BY <1>e, <2>7
    <3>5. Told' = ToSet(delivered') BY <3>4 DEF Told
    <3>6. Told' \subseteq Told BY <2>2, <2>3, <2>6, <3>5 DEF Told
    <3>7. \A h \in ToSet(chain) : blocks[h].transactions # <<>> /\ h \in Told => h \in Told'
      BY <1>0, <2>2, <2>3, <2>6, <3>5 DEF Told
    <3> QED BY <2>1, <2>8, <3>3, <3>4, <3>6, <3>7 DEF InSequence
  <2> QED BY <1>0, <2>1, <2>5, <2>6, <2>7, <2>8, Zenon DEF FilterIInv
<1>4. CASE tick_and_evict
  <2>1. /\ filter.phase = "active" /\ clock' = clock + 1
        /\ UNCHANGED <<chain, blocks, making, polled, made, history>>
        /\ \/ filter' = [NoFilter EXCEPT !.phase = "evicted"] /\ delivered' = <<>>
           \/ filter' = filter /\ delivered' = delivered
    BY <1>4 DEF tick_and_evict
  <2>2. clock' \in Nat BY <1>0, <2>1
  <2>3. CASE filter' = [NoFilter EXCEPT !.phase = "evicted"] /\ delivered' = <<>>
    <3>1. filter' \in Filters /\ filter'.phase = "evicted" /\ filter'.blocks = <<>> BY <1>e, <2>3, Zenon DEF NoFilter
    <3> QED BY <1>0, <1>e, <2>1, <2>2, <2>3, <3>1 DEF FilterIInv
  <2>4. CASE filter' = filter /\ delivered' = delivered
    <3>1. InSequence => InSequence' BY <2>1, <2>4 DEF InSequence, Told
    <3> QED BY <2>1, <2>2, <2>4, <3>1 DEF FilterIInv
  <2> QED BY <2>1, <2>3, <2>4
<1> QED BY <1>1, <1>2, <1>3, <1>4

\* Every step keeps both.
LEMMA ListenersStep == BlocksIInv /\ FilterIInv /\ [ListenersNext]_listener_vars => BlocksIInv' /\ FilterIInv'
<1> SUFFICES ASSUME BlocksIInv, FilterIInv, [ListenersNext]_listener_vars PROVE BlocksIInv' /\ FilterIInv'
  OBVIOUS
<1>1. CASE (\E txs \in Bodies : begins_block(txs)) \/ stores_block \/ notify_on_new_block
  BY <1>1, BlocksGrow, FilterHears
<1>2. CASE \E n \in 1 .. MaxMade : revert(n) BY <1>2, BlocksKept, FilterHears
<1>3. CASE \/ \E fee \in Fees : anvil_set_next_block_base_fee_per_gas(fee)
           \/ fee_history_poll
           \/ UNCHANGED listener_vars
  <2>1. UNCHANGED <<chain, blocks, making, filter, delivered, polled, clock, made, history>>
    BY <1>3 DEF anvil_set_next_block_base_fee_per_gas, fee_history_poll, listener_vars
  <2>2. InSequence => InSequence' BY <2>1 DEF InSequence, Told
  <2>3. FilterIInv' BY <2>1, <2>2 DEF FilterIInv
  <2>4. \/ \E fee \in Fees : anvil_set_next_block_base_fee_per_gas(fee)
        \/ UNCHANGED <<chain, blocks, making, made, base_fee>>
    BY <1>3 DEF fee_history_poll, listener_vars
  <2> QED BY <2>3, <2>4, BlocksKept
<1>4. CASE new_filter_reads \/ new_filter_listens \/ get_filter_changes \/ tick_and_evict
  <2>1. UNCHANGED <<chain, blocks, making, made, base_fee>>
    BY <1>4, Zenon DEF new_filter_reads, new_filter_listens, get_filter_changes, tick_and_evict
  <2> QED BY <1>4, <2>1, BlocksKept, FilterServes
<1> QED BY <1>1, <1>2, <1>3, <1>4 DEF ListenersNext

\* A filter delivers every log of the chain once and in order, if it was
\* installed between two blocks, for any blocks, reverts and polls
\* (get_filter_changes, notify_on_new_block).
THEOREM LogsOnce == ListenersSpec => []LogsArriveOnce
<1>1. BlocksIInv /\ FilterIInv => LogsArriveOnce
  <2> SUFFICES ASSUME BlocksIInv, FilterIInv, ~history.overlapped
               PROVE  /\ \A i, j \in 1 .. Len(delivered) : i < j => delivered[i] < delivered[j]
                      /\ making = Idle /\ filter.phase = "active" =>
                           ToSet(LogsOf(chain)) \subseteq
                             ToSet(delivered) \cup ToSet(filter.historic) \cup ToSet(filter.blocks)
    BY DEF LogsArriveOnce
  <2>1. CASE filter.phase = "active"
    <3>1. InSequence BY <2>1 DEF FilterIInv
    <3>2. chain \in Seq(Nat) /\ Idle.phase = "idle" BY DEF BlocksIInv, Idle
    <3>3. ToSet(LogsOf(chain)) = {h \in ToSet(chain) : h \in DOMAIN blocks /\ blocks[h].transactions # <<>>}
      BY <3>2, LogsFound
    <3>4. making = Idle => ToSet(LogsOf(chain)) \subseteq Told BY <3>1, <3>2, <3>3 DEF InSequence
    <3> QED BY <3>1, <3>4 DEF InSequence, Increasing, Told
  <2>2. CASE filter.phase # "active"
    <3>1. delivered = <<>> BY <2>2 DEF FilterIInv
    <3> QED BY <2>2, <3>1
  <2> QED BY <2>1, <2>2
<1> QED BY <1>1, ListenersStart, ListenersStep, PTL DEF ListenersSpec

\* Only a filter that was not polled for the time of keepalive is evicted, at
\* whatever times the service looks (tick_and_evict).
THEOREM PolledKept == ListenersSpec => PolledStaysActive
<1>1. BlocksIInv /\ FilterIInv /\ [ListenersNext]_listener_vars
        => [filter.phase = "active" /\ filter'.phase = "evicted" => clock' - polled > keepalive]_listener_vars
  <2> SUFFICES ASSUME FilterIInv, ListenersNext, filter.phase = "active", filter'.phase = "evicted"
               PROVE  clock' - polled > keepalive
    OBVIOUS
  <2>1. tick_and_evict
    <3>1. filter'.phase # filter.phase OBVIOUS
    <3>2. \A n : revert(n) => filter' = filter BY DEF revert
    <3>3. \A txs : begins_block(txs) => filter' = filter BY DEF begins_block
    <3>4. \A fee : anvil_set_next_block_base_fee_per_gas(fee) => filter' = filter
      BY DEF anvil_set_next_block_base_fee_per_gas
    <3>5. stores_block \/ fee_history_poll => filter' = filter BY DEF stores_block, fee_history_poll
    <3>6. notify_on_new_block => filter'.phase = filter.phase BY DEF notify_on_new_block, FilterIInv
    <3>7. ~new_filter_reads /\ ~new_filter_listens BY DEF new_filter_reads, new_filter_listens
    <3>8. get_filter_changes => filter'.phase = filter.phase BY DEF get_filter_changes, FilterIInv
    <3> QED BY <3>1, <3>2, <3>3, <3>4, <3>5, <3>6, <3>7, <3>8 DEF ListenersNext
  <2>2. filter' # filter OBVIOUS
  <2>3. clock' = clock + 1 /\ clock + 1 > filter.deadline BY <2>1, <2>2 DEF tick_and_evict
  <2>4. filter.deadline = polled + keepalive /\ clock \in Nat /\ polled \in Nat /\ keepalive \in Nat
    BY ListenersAssumption DEF FilterIInv
  <2> QED BY <2>3, <2>4
<1> QED BY <1>1, ListenersStart, ListenersStep, PTL DEF ListenersSpec, PolledStaysActive


-----------------------------------------------------------------------------
(* The fee history *)

\* The numbers of the newest blocks up to k, as many as the limit allows.
Window(k) == {n \in 1 .. k : n > k - fee_history_limit}

\* The number of the last block the service has taken, while the chain grows.
LastTaken == Len(chain) - 1 - Len(heard) - (IF making.phase = "stored" THEN 1 ELSE 0)

\* The cache c has the newest blocks up to k.
Caches(c, k) ==
  /\ k \in Nat /\ DOMAIN c = Window(k)
  /\ \A n \in Window(k) : c[n].hash = chain[n + 1] /\ c[n].base_fee = blocks[chain[n + 1]].base_fee

\* What the cache c has for a block of the chain is that block's, or the block
\* is among those still to be taken.
Fresh(c, waiting) ==
  /\ c = [n \in DOMAIN c |-> c[n]]
  /\ \A n \in DOMAIN c :
       /\ n \in Nat /\ c[n].hash \in 1 .. made
       /\ n < Len(chain) => \/ c[n].hash = chain[n + 1] \/ chain[n + 1] \in waiting
                            \/ making.phase = "stored" /\ n + 1 = Len(chain)

CacheIInv ==
  /\ heard \in Seq(Nat) /\ \A h \in ToSet(heard) : 1 <= h /\ h <= made
  /\ making # Idle => made >= 1
  /\ Fresh(cache, ToSet(heard))
  /\ ~history.reverted =>
       /\ Caches(cache, LastTaken)
       /\ \A i \in 1 .. Len(heard) : heard[i] = chain[LastTaken + 1 + i]

\* The genesis block is not in the cache.
LEMMA CacheStarts == ListenersInit => CacheIInv
<1> SUFFICES ASSUME ListenersInit PROVE CacheIInv OBVIOUS
<1>1. chain = <<0>> /\ making = Idle /\ heard = <<>> /\ cache = <<>> BY DEF ListenersInit
<1>2. making.phase # "stored" BY <1>1 DEF Idle
<1>3. Len(chain) = 1 /\ Len(heard) = 0 /\ heard \in Seq(Nat) /\ ToSet(heard) = {} BY <1>1 DEF ToSet
<1>4. LastTaken = 0
  <2>1. LastTaken = Len(chain) - 1 - Len(heard) - 0 BY <1>2 DEF LastTaken
  <2> QED BY <1>3, <2>1
<1>5. DOMAIN cache = {} BY <1>1
<1>6. Fresh(cache, ToSet(heard)) BY <1>1, <1>5 DEF Fresh
<1>7. Window(0) = {} BY DEF Window
<1>8. Caches(cache, LastTaken) BY <1>4, <1>5, <1>7 DEF Caches
<1>9. \A i \in 1 .. Len(heard) : heard[i] = chain[LastTaken + 1 + i] BY <1>3
<1> QED BY <1>1, <1>3, <1>6, <1>8, <1>9 DEF CacheIInv

\* The window has at most as many numbers as the limit, and moves by one.
LEMMA WindowSize ==
  ASSUME NEW k \in Nat
  PROVE  /\ IsFiniteSet(Window(k)) /\ Cardinality(Window(k)) <= fee_history_limit
         /\ k < fee_history_limit => Cardinality(Window(k) \cup {k + 1}) = k + 1
         /\ k >= fee_history_limit => Cardinality(Window(k) \cup {k + 1}) = fee_history_limit + 1
<1> DEFINE l == fee_history_limit
<1>0. l \in Nat /\ l >= 1 BY ListenersAssumption
<1>1. CASE k < l
  <2>1. Window(k) = 1 .. k BY <1>0, <1>1 DEF Window
  <2>2. Window(k) \cup {k + 1} = 1 .. k + 1 BY <2>1
  <2>3. Cardinality(1 .. k) = k /\ Cardinality(1 .. k + 1) = k + 1 /\ IsFiniteSet(1 .. k)
    BY FS_Interval
  <2>4. Cardinality(Window(k)) = k /\ IsFiniteSet(Window(k)) BY <2>1, <2>3
  <2>5. Cardinality(Window(k) \cup {k + 1}) = k + 1 BY <2>2, <2>3, Zenon
  <2> QED BY <1>0, <1>1, <2>4, <2>5
<1>2. CASE k >= l
  <2> DEFINE b == k - l + 1
  <2>1. b \in Nat /\ b >= 1 /\ b <= k /\ k - b + 1 = l BY <1>0, <1>2
  <2>2. Window(k) = b .. k BY <1>0, <1>2 DEF Window
  <2> HIDE DEF b
  <2>3. Window(k) \cup {k + 1} = b .. k + 1 BY <2>1, <2>2
  <2>4. Cardinality(b .. k) = k - b + 1 /\ Cardinality(b .. k + 1) = k + 1 - b + 1 /\ IsFiniteSet(b .. k)
    BY <2>1, FS_Interval
  <2>5. Cardinality(Window(k)) = l /\ IsFiniteSet(Window(k)) BY <2>1, <2>2, <2>4
  <2>6. Cardinality(Window(k) \cup {k + 1}) = k + 1 - b + 1 BY <2>3, <2>4, Zenon
  <2>7. k + 1 - b + 1 = l + 1 BY <1>0, <2>1
  <2> QED BY <1>0, <1>2, <2>5, <2>6, <2>7
<1> QED BY <1>0, <1>1, <1>2

\* insert_cache_entry puts the entry of the block under its number, takes
\* nothing else in, and drops what has left the window.
LEMMA InsertEntry ==
  ASSUME NEW c, NEW hash, blocks[hash].number \in Nat
  PROVE  LET number == blocks[hash].number
             d == insert_cache_entry(c, hash)
         IN /\ d = [n \in DOMAIN d |-> d[n]]
            /\ DOMAIN d \subseteq DOMAIN c \cup {number}
            /\ \A n \in DOMAIN d : d[n] = IF n = number THEN create_cache_entry(hash) ELSE c[n]
            /\ \A k \in Nat : number = k + 1 /\ DOMAIN c = Window(k) => DOMAIN d = Window(k + 1)
<1> DEFINE number == blocks[hash].number
           l == fee_history_limit
           more == Insert(c, number, create_cache_entry(hash))
           pop_next == Max({0, number - l})
           num_remove == Max({0, Cardinality(DOMAIN more) - l})
           gone == {pop_next - n : n \in 0 .. num_remove - 1}
           d == insert_cache_entry(c, hash)
<1>0. l \in Nat /\ l >= 1 BY ListenersAssumption
<1>1. d = [n \in DOMAIN more \ gone |-> more[n]] BY DEF insert_cache_entry, Restrict
<1>2. /\ DOMAIN more = DOMAIN c \cup {number}
      /\ \A n \in DOMAIN more : more[n] = IF n = number THEN create_cache_entry(hash) ELSE c[n]
  BY DEF Insert
<1>3. \A x \in Int : Max({0, x}) = IF x > 0 THEN x ELSE 0
  <2> SUFFICES ASSUME NEW x \in Int PROVE Max({0, x}) = IF x > 0 THEN x ELSE 0 OBVIOUS
  <2>1. \E m \in {0, x} : \A y \in {0, x} : m >= y OBVIOUS
  <2>2. Max({0, x}) \in {0, x} /\ \A y \in {0, x} : Max({0, x}) >= y BY <2>1 DEF Max
  <2> QED BY <2>2
<1>4. ASSUME NEW k \in Nat, number = k + 1, DOMAIN c = Window(k) PROVE DOMAIN more \ gone = Window(k + 1)
  <2>1. DOMAIN more = Window(k) \cup {k + 1} BY <1>2, <1>4
  <2>2. CASE k < l
    <3>1. Cardinality(DOMAIN more) = k + 1 BY <2>1, <2>2, WindowSize
    <3>2. num_remove = 0 BY <1>0, <1>3, <2>2, <3>1
    <3> HIDE DEF num_remove, pop_next, more
    <3>3. gone = {} BY <3>2
    <3>4. Window(k) \cup {k + 1} = Window(k + 1) BY <1>0, <2>2 DEF Window
    <3> QED BY <2>1, <3>3, <3>4
  <2>3. CASE k >= l
    <3>1. Cardinality(DOMAIN more) = l + 1 BY <2>1, <2>3, WindowSize
    <3>2. num_remove = 1 BY <1>0, <1>3, <3>1
    <3>3. pop_next = k + 1 - l BY <1>0, <1>3, <1>4, <2>3
    <3> HIDE DEF num_remove, pop_next, more
    <3>4. gone = {k + 1 - l}
      <4>1. 0 .. num_remove - 1 = {0} BY <3>2
      <4>2. pop_next - 0 = k + 1 - l BY <1>0, <3>3
      <4> QED BY <4>1, <4>2
    <3> HIDE DEF gone
    <3>5. (Window(k) \cup {k + 1}) \ {k + 1 - l} = Window(k + 1) BY <1>0, <2>3 DEF Window
    <3> QED BY <2>1, <3>4, <3>5
  <2> QED BY <1>0, <2>2, <2>3
<1> HIDE DEF more, gone, d
<1>5. DOMAIN d = DOMAIN more \ gone /\ \A n \in DOMAIN d : d[n] = more[n] BY <1>1
<1>6. d = [n \in DOMAIN d |-> d[n]] BY <1>1, <1>5
<1>7. \A n \in DOMAIN d : d[n] = IF n = number THEN create_cache_entry(hash) ELSE c[n] BY <1>2, <1>5
<1>8. \A k \in Nat : number = k + 1 /\ DOMAIN c = Window(k) => DOMAIN d = Window(k + 1) BY <1>4, <1>5
<1>9. DOMAIN d \subseteq DOMAIN c \cup {number} BY <1>2, <1>5
<1> QED BY <1>6, <1>7, <1>8, <1>9 DEF d


\* The service takes one notification.
LEMMA TakeOne ==
  ASSUME BlocksIInv, NEW c, NEW waiting, NEW h \in 1 .. made, Fresh(c, waiting \cup {h})
  PROVE  /\ Fresh(insert_if_stored(c, h), waiting)
         /\ \A k \in Nat : Caches(c, k) /\ k + 1 < Len(chain) /\ h = chain[k + 2]
                             => Caches(insert_if_stored(c, h), k + 1)
<1>0. /\ chain \in Seq(Nat) /\ Len(chain) \in Nat /\ Increasing(chain) /\ made \in Nat
      /\ ToSet(chain) = DOMAIN blocks /\ \A i \in 1 .. Len(chain) : chain[i] \in Nat /\ chain[i] \in ToSet(chain)
  BY DEF BlocksIInv, ToSet
<1>1. \A i, j \in 1 .. Len(chain) : chain[i] = chain[j] => i = j
  <2> SUFFICES ASSUME NEW i \in 1 .. Len(chain), NEW j \in 1 .. Len(chain), chain[i] = chain[j], i # j PROVE FALSE
    OBVIOUS
  <2>1. i < j \/ j < i OBVIOUS
  <2> QED BY <1>0, <2>1 DEF Increasing
<1>2. \A n \in Nat : n < Len(chain) => n + 1 \in 1 .. Len(chain) BY <1>0
<1>3. CASE h \notin DOMAIN blocks
  <2>1. insert_if_stored(c, h) = c BY <1>3 DEF insert_if_stored
  <2>2. \A n \in Nat : n < Len(chain) => chain[n + 1] # h BY <1>0, <1>2, <1>3
  <2>3. Fresh(c, waiting) BY <2>2 DEF Fresh
  <2>4. \A k \in Nat : ~(k + 1 < Len(chain) /\ h = chain[k + 2])
    <3> SUFFICES ASSUME NEW k \in Nat, k + 1 < Len(chain), h = chain[k + 2] PROVE FALSE OBVIOUS
    <3>1. k + 2 \in 1 .. Len(chain) BY <1>0
    <3> QED BY <1>0, <1>3, <3>1
  <2> QED BY <2>1, <2>3, <2>4
<1>4. CASE h \in DOMAIN blocks
  <2> DEFINE d == insert_cache_entry(c, h)
             number == blocks[h].number
             entry == create_cache_entry(h)
  <2>1. insert_if_stored(c, h) = d BY <1>4 DEF insert_if_stored
  <2>2. PICK i \in 1 .. Len(chain) : chain[i] = h
    <3>1. DOMAIN chain = 1 .. Len(chain) BY <1>0
    <3> QED BY <1>0, <1>4, <3>1 DEF ToSet
  <2>3. number = i - 1 /\ number \in Nat /\ i = number + 1 BY <1>0, <2>2 DEF BlocksIInv
  <2>4. entry.hash = h /\ entry.base_fee = blocks[h].base_fee BY DEF create_cache_entry
  <2>5. /\ d = [n \in DOMAIN d |-> d[n]]
        /\ DOMAIN d \subseteq DOMAIN c \cup {number}
        /\ \A n \in DOMAIN d : d[n] = IF n = number THEN entry ELSE c[n]
        /\ \A k \in Nat : number = k + 1 /\ DOMAIN c = Window(k) => DOMAIN d = Window(k + 1)
    BY <2>3, InsertEntry
  <2> HIDE DEF d, number, entry
  <2>6. ASSUME NEW n \in DOMAIN d
        PROVE  /\ n \in Nat /\ d[n].hash \in 1 .. made
               /\ n < Len(chain) => \/ d[n].hash = chain[n + 1] \/ chain[n + 1] \in waiting
                                    \/ making.phase = "stored" /\ n + 1 = Len(chain)
    <3>1. CASE n = number BY <2>2, <2>3, <2>4, <2>5, <3>1, Zenon
    <3>2. CASE n # number
      <4>1. n \in DOMAIN c /\ d[n] = c[n] BY <2>5, <3>2
      <4>2. n \in Nat BY <4>1 DEF Fresh
      <4>3. n < Len(chain) => chain[n + 1] # h
        <5>1. n + 1 # i BY <2>3, <3>2, <4>2
        <5> QED BY <1>1, <1>2, <2>2, <4>2, <5>1
      <4> QED BY <4>1, <4>3 DEF Fresh
    <3> QED BY <3>1, <3>2
  <2>7. Fresh(d, waiting) BY <2>5, <2>6 DEF Fresh
  <2>8. ASSUME NEW k \in Nat, Caches(c, k), k + 1 < Len(chain), h = chain[k + 2] PROVE Caches(d, k + 1)
    <3>1. k + 2 \in 1 .. Len(chain) BY <1>0, <2>8
    <3>2. i = k + 2 BY <1>1, <2>2, <2>8, <3>1
    <3>3. number = k + 1 BY <2>3, <3>2
    <3>4. DOMAIN d = Window(k + 1) BY <2>5, <2>8, <3>3 DEF Caches
    <3>5. ASSUME NEW n \in Window(k + 1)
          PROVE  d[n].hash = chain[n + 1] /\ d[n].base_fee = blocks[chain[n + 1]].base_fee
      <4>1. CASE n = number
        <5>1. chain[n + 1] = h BY <2>2, <2>3, <4>1
        <5> QED BY <2>4, <2>5, <3>4, <4>1, <5>1
      <4>2. CASE n # number
        <5>1. n \in Window(k) /\ d[n] = c[n] BY <2>5, <2>8, <3>4, <4>2 DEF Caches
        <5> QED BY <2>8, <5>1 DEF Caches
      <4> QED BY <4>1, <4>2
    <3>6. k + 1 \in Nat OBVIOUS
    <3> QED BY <3>4, <3>5, <3>6 DEF Caches
  <2> QED BY <2>1, <2>7, <2>8
<1> QED BY <1>3, <1>4

\* The notifications after the first k.
WaitingAfter(k) == {heard[i] : i \in k + 1 .. Len(heard)}

\* The service takes all there are.
LEMMA TakeAll ==
  ASSUME BlocksIInv, CacheIInv
  PROVE  LET c == FoldLeft(insert_if_stored, cache, heard)
         IN  Fresh(c, {}) /\ (~history.reverted => Caches(c, LastTaken + Len(heard)))
<1> DEFINE m == Len(heard)
           V == {cache[x] : x \in DOMAIN cache} \cup {create_cache_entry(x) : x \in DOMAIN blocks}
           X == UNION {[D -> V] : D \in SUBSET Nat}
           h == [p \in (1 .. m) \X X |-> insert_if_stored(p[2], heard[p[1]])]
           it == CHOOSE g : g = [q \in SUBSET (1 .. m) |->
                                   IF q = {} THEN cache ELSE insert_if_stored(g[q \ {Max(q)}], heard[Max(q)])]
<1>1. /\ heard \in Seq(Nat) /\ m \in Nat /\ DOMAIN heard = 1 .. m /\ made \in Nat
      /\ chain \in Seq(Nat) /\ Len(chain) \in Nat /\ ToSet(chain) = DOMAIN blocks
  BY DEF CacheIInv, BlocksIInv
<1>2. FoldLeft(insert_if_stored, cache, heard) = it[1 .. m] BY <1>1 DEF FoldLeft, MapThenFoldSet
<1>3. \A i \in 1 .. m : heard[i] \in 1 .. made
  <2> HIDE DEF m
  <2>1. \A i \in 1 .. m : heard[i] \in Nat BY ONLY <1>1
  <2>2. \A i \in 1 .. m : heard[i] \in ToSet(heard) BY ONLY <1>1, Zenon DEF ToSet
  <2> QED BY <1>1, <2>1, <2>2 DEF CacheIInv
<1>4. \A c : c \in X <=> /\ c = [n \in DOMAIN c |-> c[n]] /\ DOMAIN c \in SUBSET Nat
                         /\ \A n \in DOMAIN c : c[n] \in V
  <2> HIDE DEF V
  <2>1. ASSUME NEW c \in X PROVE /\ c = [n \in DOMAIN c |-> c[n]] /\ DOMAIN c \in SUBSET Nat
                                 /\ \A n \in DOMAIN c : c[n] \in V
    <3>1. PICK D \in SUBSET Nat : c \in [D -> V] OBVIOUS
    <3> QED BY <3>1, Zenon
  <2>2. ASSUME NEW c, c = [n \in DOMAIN c |-> c[n]], DOMAIN c \in SUBSET Nat, \A n \in DOMAIN c : c[n] \in V
        PROVE  c \in X
    <3>1. c \in [DOMAIN c -> V] BY <2>2
    <3> QED BY <2>2, <3>1
  <2> QED BY <2>1, <2>2
<1>5. cache \in X
  <2>1. \A n \in DOMAIN cache : n \in Nat /\ cache[n] \in V BY DEF CacheIInv, Fresh
  <2>2. cache = [n \in DOMAIN cache |-> cache[n]] BY DEF CacheIInv, Fresh
  <2> HIDE DEF X, V
  <2> QED BY <1>4, <2>1, <2>2
<1>6. ASSUME NEW c \in X, NEW hash PROVE insert_if_stored(c, hash) \in X
  <2>1. CASE hash \notin DOMAIN blocks BY <2>1 DEF insert_if_stored
  <2>2. CASE hash \in DOMAIN blocks
    <3> DEFINE d == insert_cache_entry(c, hash)
               entry == create_cache_entry(hash)
    <3>1. insert_if_stored(c, hash) = d BY <2>2 DEF insert_if_stored
    <3>2. blocks[hash].number \in Nat
      <4>1. PICK i \in 1 .. Len(chain) : chain[i] = hash
        <5>1. DOMAIN chain = 1 .. Len(chain) BY <1>1
        <5> QED BY <1>1, <2>2, <5>1 DEF ToSet
      <4>2. blocks[hash].number = i - 1 BY <4>1 DEF BlocksIInv
      <4> QED BY <4>2
    <3>3. entry \in V BY <2>2
    <3>4. /\ d = [n \in DOMAIN d |-> d[n]]
          /\ DOMAIN d \subseteq DOMAIN c \cup {blocks[hash].number}
          /\ \A n \in DOMAIN d : d[n] = IF n = blocks[hash].number THEN entry ELSE c[n]
      BY <3>2, InsertEntry
    <3> HIDE DEF d, entry, X, V
    <3>5. DOMAIN c \in SUBSET Nat /\ \A n \in DOMAIN c : c[n] \in V BY <1>4, <1>6
    <3>6. DOMAIN d \in SUBSET Nat BY <3>2, <3>4, <3>5
    <3>7. \A n \in DOMAIN d : d[n] \in V BY <3>3, <3>4, <3>5
    <3> QED BY <1>4, <3>1, <3>4, <3>6, <3>7
  <2> QED BY <2>1, <2>2
<1> HIDE DEF X, V, m
<1>7. h \in Steps(1 .. m, X) BY <1>6 DEF Steps
<1>8. \A i \in 1 .. m, x \in X : h[<<i, x>>] = insert_if_stored(x, heard[i]) OBVIOUS
<1> HIDE DEF h
<1>9. \E g : g = [q \in SUBSET (1 .. m) |->
                    IF q = {} THEN cache ELSE insert_if_stored(g[q \ {Max(q)}], heard[Max(q)])]
  <2>0. PICK g \in LeftFolds(m, X, cache, h) : TRUE BY <1>1, <1>5, <1>7, FoldLeftExists
  <2>1. /\ g \in [SUBSET (1 .. m) -> X]
        /\ \A q \in SUBSET (1 .. m) : g[q] = IF q = {} THEN cache ELSE h[<<Max(q), g[q \ {Max(q)}]>>]
    BY DEF LeftFolds
  <2>2. ASSUME NEW q \in SUBSET (1 .. m), q # {} PROVE g[q] = insert_if_stored(g[q \ {Max(q)}], heard[Max(q)])
    <3>1. Max(q) \in 1 .. m BY <1>1, <2>2, MaxIndex, Zenon
    <3>2. g[q \ {Max(q)}] \in X BY <2>1, Zenon
    <3> QED BY <1>8, <2>1, <2>2, <3>1, <3>2, Zenon
  <2>3. g = [q \in SUBSET (1 .. m) |->
               IF q = {} THEN cache ELSE insert_if_stored(g[q \ {Max(q)}], heard[Max(q)])]
    BY <2>1, <2>2, Zenon
  <2> QED BY <2>3, Zenon
<1>10. it = [q \in SUBSET (1 .. m) |->
               IF q = {} THEN cache ELSE insert_if_stored(it[q \ {Max(q)}], heard[Max(q)])]
  BY <1>9, Zenon
<1> HIDE DEF it
<1>11. ASSUME NEW q \in SUBSET (1 .. m), q # {}, it[q \ {Max(q)}] \in X
       PROVE  it[q] = h[<<Max(q), it[q \ {Max(q)}]>>]
  <2>1. Max(q) \in 1 .. m BY <1>1, <1>11, MaxIndex, Zenon
  <2>2. it[q] = insert_if_stored(it[q \ {Max(q)}], heard[Max(q)]) BY <1>10, <1>11, Zenon
  <2> QED BY <1>8, <1>11, <2>1, <2>2
<1>12. FoldsLeft(m, X, cache, h, it) BY <1>10, <1>11, Zenon DEF FoldsLeft
<1>13. PICK r \in LeftRuns(m, X, cache, h) : r[m] = it[1 .. m]
  BY ONLY <1>1, <1>5, <1>7, <1>12, FoldLeftRun
<1>14. r \in [0 .. m -> X] /\ r[0] = cache BY DEF LeftRuns
<1> DEFINE l == LastTaken
           Fine(k) == Fresh(r[k], WaitingAfter(k)) /\ (~history.reverted => Caches(r[k], l + k))
           G == {k \in 0 .. m : Fine(k)}
<1>15. ~history.reverted => l \in Nat /\ \A i \in 1 .. m : heard[i] = chain[l + 1 + i] /\ l + i < Len(chain)
  <2> SUFFICES ASSUME ~history.reverted
               PROVE  l \in Nat /\ \A i \in 1 .. m : heard[i] = chain[l + 1 + i] /\ l + i < Len(chain)
    OBVIOUS
  <2>1. l \in Nat BY DEF CacheIInv, Caches
  <2>2. \E u \in {0, 1} : l = Len(chain) - 1 - m - u BY DEF LastTaken, m
  <2>3. \A i \in 1 .. m : heard[i] = chain[l + 1 + i] BY DEF CacheIInv, m
  <2> HIDE DEF l
  <2>4. \A i \in 1 .. m : l + i < Len(chain) BY <1>1, <2>1, <2>2
  <2> QED BY <2>1, <2>3, <2>4
<1> HIDE DEF l
<1>16. 0 \in G
  <2>1. WaitingAfter(0) = ToSet(heard) BY <1>1 DEF WaitingAfter, ToSet, m
  <2>2. Fresh(cache, WaitingAfter(0)) BY <2>1 DEF CacheIInv
  <2>3. ~history.reverted => Caches(cache, l + 0)
    <3>1. ~history.reverted => l + 0 = l BY <1>15
    <3> QED BY <3>1 DEF CacheIInv, l
  <2> QED BY <1>1, <1>14, <2>2, <2>3
<1>17. ASSUME NEW k \in 1 .. m, k - 1 \in G PROVE k \in G
  <2>1. k - 1 \in 0 .. m /\ k \in 0 .. m /\ k - 1 \in Nat BY <1>1
  <2> DEFINE x == r[k - 1]
  <2>2. x \in X BY <1>14, <2>1
  <2>3. r[k] = h[<<k, x>>] BY DEF LeftRuns
  <2>4. r[k] = insert_if_stored(x, heard[k]) BY <1>8, <2>2, <2>3
  <2>5. Fresh(x, WaitingAfter(k - 1)) /\ (~history.reverted => Caches(x, l + (k - 1))) BY <1>17
  <2> HIDE DEF x
  <2>6. WaitingAfter(k - 1) = WaitingAfter(k) \cup {heard[k]}
    <3>1. k - 1 + 1 .. Len(heard) = (k + 1 .. Len(heard)) \cup {k} BY <1>1 DEF m
    <3> QED BY <3>1 DEF WaitingAfter
  <2>7. Fresh(x, WaitingAfter(k) \cup {heard[k]}) BY <2>5, <2>6
  <2>8. heard[k] \in 1 .. made BY <1>3
  <2>9. Fresh(insert_if_stored(x, heard[k]), WaitingAfter(k)) BY <2>7, <2>8, TakeOne
  <2>10. ASSUME ~history.reverted PROVE Caches(r[k], l + k)
    <3> DEFINE j == l + (k - 1)
    <3>1. l \in Nat /\ heard[k] = chain[l + 1 + k] /\ l + k < Len(chain) BY <1>15, <2>10
    <3>2. j \in Nat /\ j + 1 = l + k /\ j + 2 = l + 1 + k BY <2>1, <3>1
    <3>3. Caches(x, j) BY <2>5, <2>10
    <3> HIDE DEF j
    <3>4. j + 1 < Len(chain) /\ heard[k] = chain[j + 2] BY <3>1, <3>2
    <3>5. Caches(insert_if_stored(x, heard[k]), j + 1) BY <2>7, <2>8, <3>2, <3>3, <3>4, TakeOne, Zenon
    <3> QED BY <2>4, <3>2, <3>5
  <2> QED BY <2>1, <2>4, <2>9, <2>10
<1>18. \A k \in 0 .. m : k \in G
  <2> HIDE DEF G
  <2> QED BY <1>1, <1>16, <1>17, UpTo, Zenon
<1>19. m \in 0 .. m BY <1>1
<1>20. Fine(m) BY <1>18, <1>19
<1>21. WaitingAfter(m) = {}
  <2>1. m + 1 .. m = {} BY <1>1
  <2> QED BY <2>1 DEF WaitingAfter, m
<1> QED BY <1>2, <1>13, <1>20, <1>21 DEF l, m


\* What the three invariants say of the variables' types.
LEMMA CacheTypes ==
  ASSUME BlocksIInv, FilterIInv, CacheIInv
  PROVE  /\ made \in Nat /\ chain \in Seq(Nat) /\ Len(chain) \in Nat /\ Len(chain) >= 1 /\ ToSet(chain) = DOMAIN blocks
         /\ heard \in Seq(Nat) /\ Len(heard) \in Nat /\ Idle.phase = "idle"
         /\ DOMAIN history = {"reverted", "overlapped"}
         /\ \A h \in ToSet(heard) : h \in Nat /\ 1 <= h /\ h <= made
<1>1. made \in Nat /\ chain \in Seq(Nat) /\ Len(chain) >= 1 /\ ToSet(chain) = DOMAIN blocks BY DEF BlocksIInv
<1>2. heard \in Seq(Nat) /\ \A h \in ToSet(heard) : 1 <= h /\ h <= made BY DEF CacheIInv
<1>3. history \in [reverted : BOOLEAN, overlapped : BOOLEAN] BY DEF FilterIInv
<1>4. DOMAIN history = {"reverted", "overlapped"} BY ONLY <1>3
<1>5. Len(chain) \in Nat /\ Len(heard) \in Nat BY ONLY <1>1, <1>2
<1>6. \A h \in ToSet(heard) : h \in Nat BY ONLY <1>2 DEF ToSet
<1>7. Idle.phase = "idle" BY ONLY TRUE DEF Idle
<1> QED BY ONLY <1>1, <1>2, <1>4, <1>5, <1>6, <1>7

\* A block is made, stored and announced: the service has as many blocks to
\* take as the chain is longer.
LEMMA CacheWaits ==
  ASSUME BlocksIInv, FilterIInv, CacheIInv,
         (\E txs \in Bodies : begins_block(txs)) \/ stores_block \/ notify_on_new_block
  PROVE  CacheIInv'
<1>0. /\ made \in Nat /\ chain \in Seq(Nat) /\ Len(chain) \in Nat /\ Len(chain) >= 1 /\ ToSet(chain) = DOMAIN blocks
      /\ heard \in Seq(Nat) /\ Len(heard) \in Nat /\ Idle.phase = "idle"
      /\ DOMAIN history = {"reverted", "overlapped"}
      /\ \A h \in ToSet(heard) : h \in Nat /\ 1 <= h /\ h <= made
  BY CacheTypes
<1>1. ASSUME NEW txs \in Bodies, begins_block(txs) PROVE CacheIInv'
  <2> DEFINE o == history.overlapped \/ filter.phase = "reading"
  <2>1. /\ making = Idle /\ made' = made + 1 /\ making'.phase = "executing"
        /\ history' = [history EXCEPT !.overlapped = o]
        /\ UNCHANGED <<chain, blocks, heard, cache>>
    BY <1>1 DEF begins_block
  <2>2. history'.reverted = history.reverted
    <3> HIDE DEF o
    <3> QED BY <1>0, <2>1
  <2>3. LastTaken' = LastTaken BY <1>0, <2>1 DEF LastTaken
  <2>4. made' \in Nat /\ made' >= 1 /\ \A h \in ToSet(heard) : 1 <= h /\ h <= made' BY <1>0, <2>1
  <2>5. Fresh(cache, ToSet(heard))'
    <3>1. Fresh(cache, ToSet(heard)) BY DEF CacheIInv
    <3>2. \A x \in 1 .. made : x \in 1 .. made' BY <1>0, <2>1
    <3>3. making.phase # "stored" BY <1>0, <2>1
    <3> QED BY <2>1, <3>1, <3>2, <3>3 DEF Fresh
  <2>6. \A k : Caches(cache, k) => Caches(cache, k)' BY <2>1 DEF Caches, Window
  <2> QED BY <1>0, <2>1, <2>2, <2>3, <2>4, <2>5, <2>6 DEF CacheIInv
<1>2. ASSUME stores_block PROVE CacheIInv'
  <2> DEFINE b == [number |-> Len(chain), base_fee |-> making.base_fee, transactions |-> making.transactions]
  <2>1. /\ making.phase = "executing" /\ making' = [making EXCEPT !.phase = "stored"]
        /\ chain' = Append(chain, made) /\ blocks' = Insert(blocks, made, b)
        /\ UNCHANGED <<made, heard, cache, history>>
    BY <1>2 DEF stores_block
  <2> HIDE DEF b
  <2>2. making # Idle /\ making'.phase = "stored" BY <1>0, <2>1 DEF BlocksIInv
  <2>3. /\ Len(chain') = Len(chain) + 1 /\ \A i \in 1 .. Len(chain) : chain'[i] = chain[i] BY <1>0, <2>1
  <2>4. \A i \in 1 .. Len(chain) : chain[i] \in DOMAIN blocks /\ chain[i] # made
    <3>1. \A h \in ToSet(chain) : h \in Nat /\ h < made BY <1>0, <2>1 DEF BlocksIInv, ToSet
    <3>2. \A i \in 1 .. Len(chain) : chain[i] \in ToSet(chain) BY <1>0 DEF ToSet
    <3> QED BY <1>0, <3>1, <3>2
  <2>5. \A i \in 1 .. Len(chain) : blocks'[chain'[i]] = blocks[chain[i]]
    <3>1. \A h \in DOMAIN blocks : h # made => blocks'[h] = blocks[h] BY <2>1 DEF Insert
    <3> QED BY <2>3, <2>4, <3>1
  <2>6. LastTaken' = LastTaken
    <3>1. LastTaken = Len(chain) - 1 - Len(heard) - 0 BY <2>1 DEF LastTaken
    <3>2. LastTaken' = Len(chain') - 1 - Len(heard) - 1 BY <2>1, <2>2 DEF LastTaken
    <3> QED BY <1>0, <2>3, <3>1, <3>2
  <2>7. Fresh(cache, ToSet(heard))'
    <3>1. Fresh(cache, ToSet(heard)) BY DEF CacheIInv
    <3>2. ASSUME NEW n \in DOMAIN cache, n < Len(chain')
          PROVE  \/ cache[n].hash = chain'[n + 1] \/ chain'[n + 1] \in ToSet(heard)
                 \/ making'.phase = "stored" /\ n + 1 = Len(chain')
      <4>1. n \in Nat BY <3>1 DEF Fresh
      <4>2. CASE n + 1 = Len(chain') BY <2>2, <4>2
      <4>3. CASE n + 1 # Len(chain')
        <5>1. n < Len(chain) /\ n + 1 \in 1 .. Len(chain) BY <1>0, <2>3, <3>2, <4>1, <4>3
        <5> QED BY <2>1, <2>3, <3>1, <5>1 DEF Fresh
      <4> QED BY <4>2, <4>3
    <3> QED BY <2>1, <3>1, <3>2 DEF Fresh
  <2>8. ASSUME ~history.reverted
        PROVE  /\ Caches(cache, LastTaken)'
               /\ \A i \in 1 .. Len(heard) : heard[i] = chain'[LastTaken + 1 + i]
    <3> DEFINE l == LastTaken
    <3>1. Caches(cache, l) /\ l \in Nat /\ \A i \in 1 .. Len(heard) : heard[i] = chain[l + 1 + i]
      BY <2>8 DEF CacheIInv, Caches
    <3>2. l = Len(chain) - 1 - Len(heard) - 0 BY <2>1 DEF LastTaken
    <3>3. l' = l BY <2>6
    <3> HIDE DEF l
    <3>4. \A i \in 1 .. Len(heard) : l + 1 + i \in 1 .. Len(chain) BY <1>0, <3>1, <3>2
    <3>5. \A n \in Window(l) : n + 1 \in 1 .. Len(chain) BY <1>0, <3>1, <3>2 DEF Window
    <3>6. DOMAIN cache = Window(l) /\ \A n \in Window(l) :
             cache[n].hash = chain[n + 1] /\ cache[n].base_fee = blocks[chain[n + 1]].base_fee
      BY <3>1 DEF Caches
    <3>7. \A n \in Window(l) : cache[n].hash = chain'[n + 1] /\ cache[n].base_fee = blocks'[chain'[n + 1]].base_fee
      BY <2>3, <2>5, <3>5, <3>6
    <3>8. Window(l)' = Window(l) BY <3>3 DEF Window
    <3>9. Caches(cache, l)' BY <2>1, <3>1, <3>3, <3>6, <3>7, <3>8, Zenon DEF Caches
    <3> QED BY <2>3, <3>1, <3>4, <3>9 DEF l
  <2> QED BY <1>0, <2>1, <2>2, <2>6, <2>7, <2>8, Zenon DEF CacheIInv
<1>3. ASSUME notify_on_new_block PROVE CacheIInv'
  <2>1. /\ making.phase = "stored" /\ making' = Idle /\ heard' = Append(heard, made)
        /\ UNCHANGED <<chain, blocks, cache, made, history>>
    BY <1>3 DEF notify_on_new_block
  <2>2. making # Idle /\ made >= 1 /\ chain[Len(chain)] = made BY <1>0, <2>1 DEF CacheIInv, BlocksIInv
  <2>3. heard' \in Seq(Nat) /\ ToSet(heard') = ToSet(heard) \cup {made} BY <1>0, <2>1, AppendIncreasing
  <2>4. /\ Len(heard') = Len(heard) + 1 /\ heard'[Len(heard) + 1] = made
        /\ \A i \in 1 .. Len(heard) : heard'[i] = heard[i]
    BY <1>0, <2>1
  <2>5. LastTaken' = LastTaken /\ LastTaken = Len(chain) - 1 - Len(heard) - 1
    <3>1. LastTaken = Len(chain) - 1 - Len(heard) - 1 BY <2>1 DEF LastTaken
    <3>2. LastTaken' = Len(chain) - 1 - Len(heard') - 0 BY <1>0, <2>1 DEF LastTaken
    <3> QED BY <1>0, <2>4, <3>1, <3>2
  <2>6. Fresh(cache, ToSet(heard))'
    <3>1. Fresh(cache, ToSet(heard)) BY DEF CacheIInv
    <3> QED BY <2>1, <2>2, <2>3, <3>1 DEF Fresh
  <2>7. \A k : Caches(cache, k) => Caches(cache, k)' BY <2>1 DEF Caches, Window
  <2>8. ASSUME ~history.reverted, NEW i \in 1 .. Len(heard') PROVE heard'[i] = chain[LastTaken + 1 + i]
    <3>1. LastTaken \in Nat BY <2>8 DEF CacheIInv, Caches
    <3>2. CASE i = Len(heard) + 1
      <4>1. LastTaken + 1 + i = Len(chain) BY <1>0, <2>5, <3>1, <3>2
      <4> QED BY <2>2, <2>4, <3>2, <4>1
    <3>3. CASE i # Len(heard) + 1
      <4>1. i \in 1 .. Len(heard) BY <1>0, <2>4, <3>3
      <4> QED BY <2>4, <2>8, <4>1 DEF CacheIInv
    <3> QED BY <3>2, <3>3
  <2>9. \A h \in ToSet(heard') : 1 <= h /\ h <= made BY <1>0, <2>2, <2>3
  <2> QED BY <2>1, <2>3, <2>5, <2>6, <2>7, <2>8, <2>9 DEF CacheIInv
<1> QED BY <1>1, <1>2, <1>3

\* A revert, a poll of the service, and what leaves both chain and cache alone.
LEMMA CacheStep ==
  ASSUME BlocksIInv, FilterIInv, CacheIInv,
         \/ \E n \in 1 .. MaxMade : revert(n)
         \/ fee_history_poll
         \/ /\ UNCHANGED <<chain, blocks, making, heard, cache, made>>
            /\ history'.reverted = history.reverted
  PROVE  CacheIInv'
<1>0. /\ made \in Nat /\ chain \in Seq(Nat) /\ Len(chain) \in Nat /\ Len(chain) >= 1 /\ ToSet(chain) = DOMAIN blocks
      /\ heard \in Seq(Nat) /\ Len(heard) \in Nat /\ Idle.phase = "idle"
      /\ DOMAIN history = {"reverted", "overlapped"}
  BY CacheTypes
<1>1. ASSUME NEW n \in 1 .. MaxMade, revert(n) PROVE CacheIInv'
  <2>1. /\ making = Idle /\ n < Len(chain) /\ chain' = SubSeq(chain, 1, n)
        /\ history' = [history EXCEPT !.reverted = TRUE]
        /\ UNCHANGED <<making, made, heard, cache>>
    BY <1>1 DEF revert
  <2>2. history'.reverted BY <1>0, <2>1
  <2>3. Len(chain') = n /\ \A i \in 1 .. n : chain'[i] = chain[i]
    <3>1. n < Len(chain) /\ chain' = SubSeq(chain, 1, n) BY <2>1
    <3>2. n \in Nat /\ 1 <= n BY ListenersAssumption
    <3> QED BY <1>0, <3>1, <3>2
  <2>4. Fresh(cache, ToSet(heard))'
    <3>1. Fresh(cache, ToSet(heard)) BY DEF CacheIInv
    <3>2. \A x \in DOMAIN cache : x < Len(chain') => x < Len(chain) /\ chain'[x + 1] = chain[x + 1]
      <4>1. \A x \in DOMAIN cache : x \in Nat BY <3>1 DEF Fresh
      <4>2. n \in Nat /\ n < Len(chain) BY <2>1, ListenersAssumption
      <4>3. \A x \in Nat : x < n => x < Len(chain) /\ x + 1 \in 1 .. n BY <1>0, <4>2
      <4> QED BY <2>3, <4>1, <4>3
    <3>3. making.phase # "stored" BY <1>0, <2>1
    <3> QED BY <2>1, <3>1, <3>2, <3>3 DEF Fresh
  <2> QED BY <2>1, <2>2, <2>4 DEF CacheIInv
<1>2. ASSUME fee_history_poll PROVE CacheIInv'
  <2> DEFINE c == FoldLeft(insert_if_stored, cache, heard)
  <2>1. cache' = c /\ heard' = <<>> /\ UNCHANGED <<chain, blocks, making, made, history>>
    BY <1>2 DEF fee_history_poll
  <2>2. Fresh(c, {}) /\ (~history.reverted => Caches(c, LastTaken + Len(heard))) BY TakeAll
  <2> HIDE DEF c
  <2>3. heard' \in Seq(Nat) /\ ToSet(heard') = {} /\ Len(heard') = 0 BY <2>1 DEF ToSet
  <2>4. LastTaken' = LastTaken + Len(heard)
    <3> DEFINE u == IF making.phase = "stored" THEN 1 ELSE 0
    <3>1. u \in Nat OBVIOUS
    <3>2. LastTaken = Len(chain) - 1 - Len(heard) - u /\ LastTaken' = Len(chain) - 1 - Len(heard') - u
      BY <2>1 DEF LastTaken
    <3> HIDE DEF u
    <3> QED BY <1>0, <2>3, <3>1, <3>2
  <2>5. Fresh(cache, ToSet(heard))' BY <2>1, <2>2, <2>3 DEF Fresh
  <2>6. ~history.reverted => Caches(cache, LastTaken)'
    <3>1. \A k : Caches(c, k) => /\ k \in Nat /\ DOMAIN c = Window(k)
                                 /\ \A n \in Window(k) : /\ c[n].hash = chain[n + 1]
                                                         /\ c[n].base_fee = blocks[chain[n + 1]].base_fee
      BY DEF Caches
    <3>2. Window(LastTaken)' = Window(LastTaken + Len(heard)) BY <2>4 DEF Window
    <3> QED BY <2>1, <2>2, <2>4, <3>1, <3>2 DEF Caches
  <2> QED BY <2>1, <2>3, <2>5, <2>6 DEF CacheIInv
<1>3. ASSUME UNCHANGED <<chain, blocks, making, heard, cache, made>>, history'.reverted = history.reverted
      PROVE  CacheIInv'
  <2>1. LastTaken' = LastTaken BY <1>3 DEF LastTaken
  <2>2. Fresh(cache, ToSet(heard))' BY <1>3 DEF CacheIInv, Fresh
  <2>3. Caches(cache, LastTaken) => Caches(cache, LastTaken)' BY <1>3, <2>1 DEF Caches, Window
  <2> QED BY <1>3, <2>1, <2>2, <2>3 DEF CacheIInv
<1> QED BY <1>1, <1>2, <1>3


\* The larger of two.
LEMMA MaxOfTwo ==
  ASSUME NEW a \in Int, NEW b \in Int
  PROVE  Max({a, b}) \in {a, b} /\ Max({a, b}) >= a /\ Max({a, b}) >= b
<1>1. \E x \in {a, b} : \A y \in {a, b} : x >= y OBVIOUS
<1> QED BY <1>1 DEF Max

\* The smaller of two.
LEMMA MinOfTwo ==
  ASSUME NEW a \in Int, NEW b \in Int
  PROVE  Min({a, b}) \in {a, b} /\ Min({a, b}) <= a /\ Min({a, b}) <= b
<1>1. \E x \in {a, b} : \A y \in {a, b} : x <= y OBVIOUS
<1> QED BY <1>1 DEF Min

\* The number of blocks eth_feeHistory looks at, and the first of them.
Count(count) == Max({1, Min({count, MAX_BLOCK_COUNT})})

LEMMA LowestBlock ==
  ASSUME NEW count \in Nat, NEW high \in Nat, high - Count(count) >= 0
  PROVE  Count(count) \in Nat /\ Count(count) >= 1 /\ lowest_block(count, high) = high - Count(count) + 1
<1> DEFINE k == Min({count, MAX_BLOCK_COUNT})
           l == Max({0, k - 1})
<1>1. MAX_BLOCK_COUNT \in Nat /\ MAX_BLOCK_COUNT >= 1 BY ListenersAssumption
<1>2. k \in Nat
  <2>0. count \in Int /\ MAX_BLOCK_COUNT \in Int BY <1>1
  <2>1. k \in {count, MAX_BLOCK_COUNT} BY <2>0, MinOfTwo, Zenon
  <2> QED BY <1>1, <2>1
<1>3. Count(count) = Max({1, k}) /\ lowest_block(count, high) = Max({0, high - l}) BY DEF Count, lowest_block
<1> HIDE DEF k
<1>4. Max({1, k}) \in {1, k} /\ Max({1, k}) >= 1 /\ Max({1, k}) >= k
  <2>1. 1 \in Int /\ k \in Int BY <1>2
  <2> QED BY <2>1, MaxOfTwo, Zenon
<1>5. l \in {0, k - 1} /\ l >= 0 /\ l >= k - 1
  <2>1. k - 1 \in Int /\ 0 \in Int BY <1>2
  <2> QED BY <2>1, MaxOfTwo, Zenon
<1> HIDE DEF l
<1>6. Count(count) \in Nat /\ Count(count) >= 1 /\ l = Count(count) - 1 BY <1>2, <1>3, <1>4, <1>5
<1>7. high - l \in Int /\ high - l >= 1 /\ high - l = high - Count(count) + 1 BY <1>6
<1>8. Max({0, high - l}) \in {0, high - l} /\ Max({0, high - l}) >= high - l
  <2>1. 0 \in Int OBVIOUS
  <2> QED BY <1>7, <2>1, MaxOfTwo, Zenon
<1> QED BY <1>3, <1>6, <1>7, <1>8

\* eth_feeHistory, once the service has caught up with a chain that only grew.
LEMMA FeeHistoryAnswers ==
  ASSUME BlocksIInv, CacheIInv, CaughtUp, ~history.reverted,
         NEW count \in Nat, NEW high \in 1 .. best_number,
         high - Count(count) >= Max({0, best_number - fee_history_limit})
  PROVE  /\ fee_history_accepts(count, high)
         /\ fee_history(count, high) =
              Append([i \in 1 .. Count(count) |-> blocks[chain[high - Count(count) + i + 1]].base_fee], base_fee)
<1> DEFINE best == best_number
           start == Max({0, best - fee_history_limit})
           n == Count(count)
           low == high - n + 1
           asked == [i \in 1 .. n |-> low + i - 1]
           found == Found(asked, DOMAIN cache)
<1>0. best \in Nat /\ best = Len(chain) - 1 BY DEF BlocksIInv, best_number
<1>1. heard = <<>> /\ making.phase # "stored" BY DEF CaughtUp, Idle
<1>2. LastTaken = best BY <1>0, <1>1 DEF LastTaken
<1>3. Caches(cache, best) BY <1>2 DEF CacheIInv
<1>4. fee_history_limit \in Nat /\ fee_history_limit >= 1 BY ListenersAssumption
<1>5. start \in Int /\ start >= 0 /\ start >= best - fee_history_limit
  <2>1. best - fee_history_limit \in Int /\ 0 \in Int BY <1>0, <1>4
  <2> HIDE DEF best
  <2> QED BY <2>1, MaxOfTwo, Zenon
<1>6. high \in 1 .. best /\ high - n >= start OBVIOUS
<1>7. lowest_block(count, high) = low /\ n \in Nat /\ n >= 1
  <2>0. n \in Int
    <3> DEFINE k == Min({count, MAX_BLOCK_COUNT})
    <3>1. MAX_BLOCK_COUNT \in Int /\ count \in Int BY ListenersAssumption
    <3>2. k \in {count, MAX_BLOCK_COUNT} BY <3>1, MinOfTwo, Zenon
    <3>3. n = Max({1, k}) BY DEF Count
    <3> HIDE DEF k, n
    <3>4. k \in Int /\ 1 \in Int BY <3>1, <3>2
    <3>5. Max({1, k}) \in {1, k} BY <3>4, MaxOfTwo, Zenon
    <3> QED BY <3>3, <3>4, <3>5
  <2> HIDE DEF best, start, n
  <2>1. high \in Nat /\ high - n >= 0 BY <1>0, <1>5, <1>6, <2>0
  <2> QED BY <2>1, LowestBlock DEF n
<1>8. low \in Nat /\ low >= 1 /\ high <= best /\ low > best - fee_history_limit /\ low >= start
      /\ high - low + 1 = n
  <2> HIDE DEF best, start, n
  <2> QED BY <1>0, <1>4, <1>5, <1>6, <1>7
<1>9. fee_history_accepts(count, high) BY <1>7, <1>8 DEF fee_history_accepts
<1>10. fee_history(count, high) = Append([i \in 1 .. Len(found) |-> cache[found[i]].base_fee], base_fee)
  BY <1>7, <1>8, Zenon DEF fee_history
<1> HIDE DEF best, start, n, low
<1>11. \A i \in 1 .. n : low + i - 1 \in Window(best) BY <1>0, <1>4, <1>7, <1>8 DEF Window
<1>12. \A i \in 1 .. n : low + i - 1 \in Nat /\ low + i - 1 + 1 = high - n + i + 1 BY <1>6, <1>7, <1>8 DEF low
<1>13. asked \in Seq(Nat) /\ Len(asked) = n BY <1>7, <1>12
<1>14. \A i \in 1 .. n : asked[i] \in DOMAIN cache BY <1>3, <1>11 DEF Caches
<1>15. \A i \in 1 .. n : asked[i] = low + i - 1 OBVIOUS
<1> HIDE DEF asked
<1>16. Len(found) = n /\ \A i \in 1 .. n : found[i] = asked[i]
  BY <1>13, <1>14, FoundIsRight, Zenon DEF FoundUpTo
<1>17. \A i \in 1 .. n : cache[found[i]].base_fee = blocks[chain[high - n + i + 1]].base_fee
  <2> SUFFICES ASSUME NEW i \in 1 .. n PROVE cache[found[i]].base_fee = blocks[chain[high - n + i + 1]].base_fee
    OBVIOUS
  <2> DEFINE m == low + i - 1
  <2>1. found[i] = m /\ m \in Window(best) /\ m + 1 = high - n + i + 1 BY <1>11, <1>12, <1>15, <1>16
  <2> HIDE DEF m
  <2>2. cache[m].base_fee = blocks[chain[m + 1]].base_fee BY <1>3, <2>1 DEF Caches
  <2> QED BY <2>1, <2>2
<1>18. [i \in 1 .. Len(found) |-> cache[found[i]].base_fee]
       = [i \in 1 .. n |-> blocks[chain[high - n + i + 1]].base_fee]
  <2> HIDE DEF found
  <2> QED BY <1>16, <1>17
<1> QED BY <1>9, <1>10, <1>18, Zenon DEF n

\* What anvil answers about the fees of the past is right as soon as its service
\* has caught up, however blocks, reverts, polls and requests interleave.
THEOREM FeeHistoryTrue == ListenersSpec => []FeeHistoryIsTrue
<1> DEFINE IInv == BlocksIInv /\ FilterIInv /\ CacheIInv
<1>1. ListenersInit => IInv BY ListenersStart, CacheStarts
<1>2. IInv /\ [ListenersNext]_listener_vars => IInv'
  <2> SUFFICES ASSUME IInv, [ListenersNext]_listener_vars PROVE IInv' OBVIOUS
  <2>1. BlocksIInv' /\ FilterIInv' BY ListenersStep
  <2>2. DOMAIN history = {"reverted", "overlapped"} BY DEF FilterIInv
  <2>3. CacheIInv'
    <3>1. CASE (\E txs \in Bodies : begins_block(txs)) \/ stores_block \/ notify_on_new_block
      BY <3>1, CacheWaits
    <3>2. CASE (\E n \in 1 .. MaxMade : revert(n)) \/ fee_history_poll BY <3>2, CacheStep
    <3>3. CASE new_filter_reads
      <4> DEFINE o == making # Idle
      <4>1. UNCHANGED <<chain, blocks, making, heard, cache, made>> /\ history' = [history EXCEPT !.overlapped = o]
        BY <3>3 DEF new_filter_reads
      <4>2. history'.reverted = history.reverted
        <5> HIDE DEF o
        <5> QED BY <2>2, <4>1
      <4> QED BY <4>1, <4>2, CacheStep
    <3>4. CASE \/ \E fee \in Fees : anvil_set_next_block_base_fee_per_gas(fee)
               \/ new_filter_listens \/ get_filter_changes \/ tick_and_evict \/ UNCHANGED listener_vars
      <4>1. UNCHANGED <<chain, blocks, making, heard, cache, made, history>>
        BY <3>4, Zenon DEF anvil_set_next_block_base_fee_per_gas, new_filter_listens, get_filter_changes,
           tick_and_evict, listener_vars
      <4> QED BY <4>1, CacheStep
    <3> QED BY <3>1, <3>2, <3>3, <3>4 DEF ListenersNext
  <2> QED BY <2>1, <2>3
<1>3. IInv => FeeHistoryIsTrue
  <2> SUFFICES ASSUME IInv PROVE FeeHistoryIsTrue OBVIOUS
  <2>0. Fresh(cache, ToSet(heard)) BY DEF CacheIInv
  <2>1. ListenersTypeOK
    <3>1. \A n \in DOMAIN cache : n \in Nat /\ cache[n].hash \in 1 .. made BY <2>0 DEF Fresh
    <3>2. \A x \in 1 .. made : x \in 1 .. MaxMade BY ListenersAssumption DEF BlocksIInv
    <3> QED BY <3>1, <3>2 DEF ListenersTypeOK, BlocksIInv
  <2>2. ASSUME CaughtUp, NEW n \in DOMAIN cache \cap 0 .. best_number PROVE cache[n].hash = chain[n + 1]
    <3>1. making.phase # "stored" /\ ToSet(heard) = {} BY <2>2 DEF CaughtUp, Idle, ToSet
    <3>2. n < Len(chain) BY DEF best_number, BlocksIInv
    <3> QED BY <2>0, <3>1, <3>2 DEF Fresh
  <2>3. ASSUME CaughtUp, ~history.reverted PROVE Cardinality(DOMAIN cache) <= fee_history_limit
    <3>1. DOMAIN cache = Window(LastTaken) /\ LastTaken \in Nat BY <2>3 DEF CacheIInv, Caches
    <3> QED BY <3>1, WindowSize, Zenon
  <2>4. ASSUME CaughtUp, ~history.reverted, NEW count \in 0 .. fee_history_limit + 1, NEW high \in 1 .. best_number,
               high - Count(count) >= Max({0, best_number - fee_history_limit})
        PROVE  /\ fee_history_accepts(count, high)
               /\ fee_history(count, high) =
                    Append([i \in 1 .. Count(count) |-> blocks[chain[high - Count(count) + i + 1]].base_fee], base_fee)
    <3>1. count \in Nat BY ListenersAssumption
    <3> QED BY <2>4, <3>1, FeeHistoryAnswers, Zenon
  <2> QED BY <2>1, <2>2, <2>3, <2>4, Zenon DEF FeeHistoryIsTrue, Count
<1> QED BY <1>1, <1>2, <1>3, PTL DEF ListenersSpec
================================================================================
