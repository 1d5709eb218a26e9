---------------------------- MODULE AnvilNodeProofs ----------------------------
(***************************************************************************)
(* The anvil node implements AnvilLedger, for any set of transactions and  *)
(* any number of requests: every step of its threads is a step of the      *)
(* ledger or leaves it alone.                                              *)
(*                                                                         *)
(* The invariant says where transactions may be: what the pool, the miner, *)
(* the queue of the block producer and the blocks being made hold was      *)
(* accepted, and the chain has exactly nonces[a] transactions of a, in     *)
(* order.                                                                  *)
(***************************************************************************)
EXTENDS AnvilNode, AnvilPoolProofs

-----------------------------------------------------------------------------
(* The execution of a block *)

\* The chain has as many transactions of each account as its nonce says, and
\* every one of them has the nonce it should.
Ordered(c, ns) ==
  /\ c \in Seq(Txs)
  /\ ns = [a \in Senders |-> ns[a]]
  /\ \A a \in Senders : ns[a] = Cardinality(Promise!Of(c, a))
  /\ Promise!InNonceOrder(c)

\* The ledger counts as the node does.
LEMMA SameCardinality == \A S : Promise!Cardinality(S) = Cardinality(S)
BY DEF Cardinality, Promise!Cardinality, Promise!IsFiniteSet, IsFiniteSet

\* The places of a sender's transactions when one is appended.
LEMMA OfAppend ==
  ASSUME NEW c \in Seq(Txs), NEW h \in Txs, NEW a
  PROVE  /\ Promise!Of(Append(c, h), a) = Promise!Of(c, a) \cup (IF sender[h] = a THEN {Len(c) + 1} ELSE {})
         /\ Promise!Of(c, a) \subseteq 1 .. Len(c) /\ IsFiniteSet(Promise!Of(c, a))
         /\ Cardinality(Promise!Of(c, a)) \in Nat
<1> DEFINE d == Append(c, h)
           n == Len(c)
<1>1. n \in Nat /\ DOMAIN c = 1 .. n /\ DOMAIN d = 1 .. n + 1 /\ d[n + 1] = h
      /\ \A i \in 1 .. n : d[i] = c[i]
  OBVIOUS
<1> HIDE DEF d, n
<1>2. Promise!Of(c, a) \subseteq 1 .. n BY <1>1 DEF Promise!Of
<1>3. IsFiniteSet(Promise!Of(c, a))
  <2>1. IsFiniteSet(1 .. n) BY <1>1, FS_Interval
  <2> QED BY <1>2, <2>1, FS_Subset, Zenon
<1>4. \A i : i \in 1 .. n + 1 <=> i \in 1 .. n \/ i = n + 1 BY <1>1
<1>5. n + 1 \notin 1 .. n BY <1>1
<1>6. Promise!Of(d, a) = Promise!Of(c, a) \cup (IF sender[h] = a THEN {n + 1} ELSE {})
  BY <1>1, <1>4, <1>5 DEF Promise!Of
<1> QED BY <1>2, <1>3, <1>6, FS_CardinalityType DEF d, n

\* Including a transaction with its sender's nonce keeps the chain in order.
LEMMA OrderedAppend ==
  ASSUME NEW c, NEW ns, Ordered(c, ns), NEW h \in Txs, nonce[h] = ns[sender[h]]
  PROVE  Ordered(Append(c, h), [ns EXCEPT ![sender[h]] = @ + 1])
<1> DEFINE d == Append(c, h)
           n == Len(c)
           s == sender[h]
           ms == [ns EXCEPT ![sender[h]] = @ + 1]
<1>1. c \in Seq(Txs) /\ s \in Senders BY DEF Ordered, Senders
<1>2. n \in Nat /\ DOMAIN c = 1 .. n /\ DOMAIN d = 1 .. n + 1 /\ d[n + 1] = h
      /\ (\A i \in 1 .. n : d[i] = c[i]) /\ d \in Seq(Txs)
  BY <1>1
<1>3. \A a \in Senders : ms[a] = IF a = s THEN ns[a] + 1 ELSE ns[a] BY DEF Ordered
<1>4. ms = [a \in Senders |-> ms[a]] BY DEF Ordered
<1>5. \A a : /\ Promise!Of(d, a) = Promise!Of(c, a) \cup (IF s = a THEN {n + 1} ELSE {})
             /\ Promise!Of(c, a) \subseteq 1 .. n /\ IsFiniteSet(Promise!Of(c, a))
             /\ Cardinality(Promise!Of(c, a)) \in Nat
  BY <1>1, OfAppend
<1> HIDE DEF d, n, s, ms
<1>6. ASSUME NEW a \in Senders PROVE ms[a] = Cardinality(Promise!Of(d, a))
  <2>1. ns[a] = Cardinality(Promise!Of(c, a)) BY DEF Ordered
  <2>2. CASE a = s
    <3>1. Promise!Of(d, a) = Promise!Of(c, a) \cup {n + 1} /\ n + 1 \notin Promise!Of(c, a)
      BY <1>2, <1>5, <2>2
    <3>2. Cardinality(Promise!Of(c, a) \cup {n + 1}) = Cardinality(Promise!Of(c, a)) + 1
      BY <1>5, <3>1, FS_AddElement, Zenon
    <3> QED BY <1>3, <2>1, <2>2, <3>1, <3>2
  <2>3. CASE a # s
    <3>1. Promise!Of(d, a) = Promise!Of(c, a) BY <1>5, <2>3
    <3> QED BY <1>3, <2>1, <2>3, <3>1
  <2> QED BY <2>2, <2>3
<1>7. ASSUME NEW i \in 1 .. n + 1
      PROVE  nonce[d[i]] = Cardinality(Promise!Earlier(d, i))
  <2>1. CASE i \in 1 .. n
    <3> DEFINE a == sender[c[i]]
    <3>1. d[i] = c[i] BY <1>2, <2>1
    <3>2. nonce[c[i]] = Cardinality(Promise!Earlier(c, i))
      BY <1>2, <2>1, SameCardinality DEF Ordered, Promise!InNonceOrder
    <3>3. Promise!Earlier(d, i) = {j \in Promise!Of(d, a) : j < i} BY <3>1 DEF Promise!Earlier
    <3>4. Promise!Earlier(c, i) = {j \in Promise!Of(c, a) : j < i} BY DEF Promise!Earlier
    <3> HIDE DEF a
    <3>5. Promise!Earlier(d, i) = Promise!Earlier(c, i) BY <1>2, <1>5, <2>1, <3>3, <3>4
    <3> QED BY <3>1, <3>2, <3>5
  <2>2. CASE i = n + 1
    <3>1. d[i] = h /\ sender[d[i]] = s BY <1>2, <2>2 DEF s
    <3>2. Promise!Earlier(d, i) = {j \in Promise!Of(d, s) : j < n + 1} BY <2>2, <3>1 DEF Promise!Earlier
    <3>3. {j \in Promise!Of(d, s) : j < n + 1} = Promise!Of(c, s) BY <1>2, <1>5
    <3>4. nonce[h] = Cardinality(Promise!Of(c, s)) BY <1>1 DEF Ordered, s
    <3> QED BY <3>1, <3>2, <3>3, <3>4
  <2> QED BY <1>2, <2>1, <2>2
<1>8. Promise!InNonceOrder(d) BY <1>2, <1>7, SameCardinality DEF Promise!InNonceOrder
<1> QED BY <1>2, <1>4, <1>6, <1>8 DEF Ordered, d, ms

\* The empty chain is in order.
LEMMA OrderedAtFirst == Ordered(<<>>, [a \in Senders |-> 0])
<1>1. \A a : Promise!Of(<<>>, a) = {} BY DEF Promise!Of
<1>2. Cardinality({}) = 0 BY FS_EmptySet
<1>3. Promise!InNonceOrder(<<>>) BY DEF Promise!InNonceOrder
<1> QED BY <1>1, <1>2, <1>3 DEF Ordered

\* One transaction: the chain with what is included stays in order.
LEMMA OrderedNext ==
  ASSUME NEW T \in SUBSET Txs, NEW st \in Outcomes(T), NEW h \in T, NEW o, NextOutcome(o, st, h, T),
         NEW c \in Seq(Txs), Ordered(c \o st.included, st.nonces)
  PROVE  Ordered(c \o o.included, o.nonces)
<1>1. st.included \in Seq(T) BY DEF Outcomes
<1>2. CASE o.nonces = st.nonces /\ o.included = st.included BY <1>2
<1>3. CASE /\ nonce[h] = st.nonces[sender[h]]
           /\ o.included = Append(st.included, h)
           /\ o.nonces = [st.nonces EXCEPT ![sender[h]] = st.nonces[sender[h]] + 1]
  <2> DEFINE i == st.included
  <2>1. i \in Seq(Txs) /\ h \in Txs /\ <<h>> \in Seq(Txs) BY <1>1
  <2>2. o.included = i \o <<h>> BY <1>3, <2>1, AppendIsConcat
  <2>3. c \o i \in Seq(Txs) BY <2>1
  <2> HIDE DEF i
  <2>4. Append(c \o i, h) = (c \o i) \o <<h>> BY <2>1, <2>3, AppendIsConcat
  <2>5. (c \o i) \o <<h>> = c \o (i \o <<h>>) BY <2>1, ConcatAssociative
  <2>6. Ordered(Append(c \o i, h), o.nonces) BY <1>3, <2>1, OrderedAppend DEF i
  <2> QED BY <2>2, <2>4, <2>5, <2>6, Zenon
<1> QED BY <1>2, <1>3 DEF NextOutcome

\* Mining a block keeps the chain in order.
LEMMA ExecuteHolds ==
  ASSUME NEW T \in SUBSET Txs, NEW s \in Seq(T), NEW ns \in [Senders -> Nat], NEW c, Ordered(c, ns)
  PROVE  /\ execute(s, ns) \in Outcomes(T)
         /\ Ordered(c \o execute(s, ns).included, execute(s, ns).nonces)
<1> DEFINE n == Len(s)
<1>1. PICK r : Execution(r, T, s, ns) BY ExecuteRun
<1>2. n \in Nat /\ (\A i \in 1 .. n : s[i] \in T) /\ c \in Seq(Txs) BY DEF Ordered
<1>3. /\ r \in [0 .. n -> Outcomes(T)] /\ r[0].nonces = ns /\ r[0].included = <<>>
      /\ \A k \in 1 .. n : NextOutcome(r[k], r[k - 1], s[k], T)
      /\ execute(s, ns) = r[n]
  BY <1>1 DEF Execution
<1> DEFINE Fine(k) == Ordered(c \o r[k].included, r[k].nonces)
           G == {k \in 0 .. n : Fine(k)}
<1> HIDE DEF n
<1>4. 0 \in G
  <2>1. c \o <<>> = c BY <1>2, ConcatEmptySeq
  <2>2. r[0].included = <<>> /\ r[0].nonces = ns BY <1>3
  <2>3. Fine(0) BY ONLY <2>1, <2>2, Ordered(c, ns)
  <2>4. 0 \in 0 .. n BY ONLY <1>2
  <2> HIDE DEF Fine
  <2> QED BY ONLY <2>3, <2>4
<1>5. ASSUME NEW k \in 1 .. n, k - 1 \in G PROVE k \in G
  <2>1. k - 1 \in 0 .. n /\ k \in 0 .. n BY <1>2
  <2> DEFINE x == r[k - 1]
             y == r[k]
             h == s[k]
  <2>2. x \in Outcomes(T) /\ NextOutcome(y, x, h, T) /\ h \in T /\ Ordered(c \o x.included, x.nonces)
    BY <1>2, <1>3, <1>5, <2>1
  <2> HIDE DEF x, y, h
  <2>3. Ordered(c \o y.included, y.nonces) BY <1>2, <2>2, OrderedNext
  <2>4. Fine(k) BY <2>3 DEF y
  <2> QED BY <2>1, <2>4
<1>6. n \in G
  <2> HIDE DEF G
  <2>1. \A k \in 0 .. n : k \in G BY <1>2, <1>4, <1>5, UpTo, Zenon
  <2> QED BY <1>2, <2>1
<1>7. Fine(n) /\ r[n] \in Outcomes(T) BY <1>2, <1>3, <1>6
<1> QED BY <1>3, <1>7

-----------------------------------------------------------------------------
(* The invariant of the node *)

Phases == {"idle", "mining", "mined", "pruning"}

Producers(A) == [phase : Phases, transactions : Seq(A), included : Seq(A), invalid : SUBSET A]

Miners(A) ==
  [mode : Modes, has_pending_txs : {"unknown", "yes", "no"}, rx : BOOLEAN, forced : Seq(A)]

\* What the pool, the miner, the queue and the threads hold was accepted, and
\* the chain is in order.
NodeIInv ==
  /\ accepted \in SUBSET Txs
  /\ PoolHolds(pool, accepted)
  /\ miner \in Miners(accepted)
  /\ queued \in Seq(Seq(accepted))
  /\ producers \in [Threads -> Producers(accepted)]
  /\ \A t \in Threads : producers[t].phase = "idle" => producers[t] = Idle
  /\ DOMAIN submitting \subseteq Txs
  /\ chain \in Seq(accepted) /\ nonces \in [Senders -> Nat] /\ Ordered(chain, nonces)

\* A pool of accepted transactions stays one when more are accepted.
LEMMA HoldsMore ==
  ASSUME NEW A, NEW B, A \subseteq B
  PROVE  /\ Seq(A) \subseteq Seq(B) /\ Seq(Seq(A)) \subseteq Seq(Seq(B))
         /\ Miners(A) \subseteq Miners(B)
         /\ [Threads -> Producers(A)] \subseteq [Threads -> Producers(B)]
<1>1. Seq(A) \subseteq Seq(B) OBVIOUS
<1>2. Seq(Seq(A)) \subseteq Seq(Seq(B)) BY <1>1
<1>3. Miners(A) \subseteq Miners(B) BY <1>1 DEF Miners
<1>4. Producers(A) \subseteq Producers(B) BY <1>1 DEF Producers
<1>5. [Threads -> Producers(A)] \subseteq [Threads -> Producers(B)] BY <1>4
<1> QED BY <1>1, <1>2, <1>3, <1>5

\* The miner takes transactions from the pool, after the forced ones.
LEMMA MinerPollHolds ==
  ASSUME NEW A \in SUBSET Txs, PoolHolds(pool, A), miner \in Miners(A), NEW tick \in BOOLEAN
  PROVE  Miner_poll(tick).miner \in Miners(A) /\ Miner_poll(tick).transactions \in Seq(A)
<1> DEFINE ready == ready_transactions(pool)
           k == Min({MaxTransactions, Len(ready)})
           few == SubSeq(ready, 1, k)
           auto == auto_poll(miner)
           fixed == fixed_poll(miner, tick)
           polled == MiningMode_poll(miner, tick)
           o == Miner_poll(tick)
<1>1. ready \in Seq(A)
  <2>1. ready \in Seq(DOMAIN pool.ready) BY ReadyAreReady
  <2>2. DOMAIN pool.ready \subseteq A BY DEF PoolHolds
  <2> HIDE DEF ready
  <2> QED BY <2>1, <2>2
<1>2. few \in Seq(A)
  <2>1. MaxTransactions \in Nat /\ Len(ready) \in Nat BY <1>1, NodeAssumption
  <2>2. k \in Nat /\ k <= Len(ready)
    <3> DEFINE l == Len(ready)
    <3> HIDE DEF l, ready
    <3>1. \E x \in {MaxTransactions, l} : \A y \in {MaxTransactions, l} : x <= y BY <2>1 DEF l
    <3>2. Min({MaxTransactions, l}) \in {MaxTransactions, l}
          /\ \A y \in {MaxTransactions, l} : Min({MaxTransactions, l}) <= y
      BY <3>1 DEF Min
    <3> QED BY <2>1, <3>2 DEF l
  <2> HIDE DEF k, ready
  <2>3. \A i \in 1 .. k : ready[i] \in A BY <1>1, <2>1, <2>2
  <2> QED BY <1>1, <2>1, <2>2, <2>3
<1>3. miner = [mode |-> miner.mode, has_pending_txs |-> miner.has_pending_txs, rx |-> miner.rx,
               forced |-> miner.forced]
      /\ miner.mode \in Modes /\ miner.has_pending_txs \in {"unknown", "yes", "no"}
      /\ miner.rx \in BOOLEAN /\ miner.forced \in Seq(A)
  BY DEF Miners
<1> DEFINE Polled(m) == /\ m = [mode |-> miner.mode, has_pending_txs |-> m.has_pending_txs, rx |-> m.rx,
                                 forced |-> miner.forced]
                        /\ m.has_pending_txs \in {"unknown", "yes", "no"} /\ m.rx \in BOOLEAN
<1>4. auto.transactions \in Seq(A) /\ Polled(auto.miner)
  <2> DEFINE pending == IF miner.rx THEN "yes" ELSE miner.has_pending_txs
             full == IF Len(few) >= MaxTransactions THEN "yes" ELSE "no"
  <2>1. CASE miner.mode \notin {"Auto", "Mixed"}
    <3>1. auto = [miner |-> miner, transactions |-> <<>>] BY <2>1 DEF auto_poll
    <3> QED BY <1>3, <3>1
  <2>2. CASE miner.mode \in {"Auto", "Mixed"} /\ pending = "no"
    <3> DEFINE no == FALSE
               m == [miner EXCEPT !.rx = no]
    <3>1. auto = [miner |-> m, transactions |-> <<>>] BY <2>2 DEF auto_poll
    <3>2. no \in BOOLEAN OBVIOUS
    <3> HIDE DEF no
    <3>3. m = [mode |-> miner.mode, has_pending_txs |-> miner.has_pending_txs, rx |-> no, forced |-> miner.forced]
      BY <1>3
    <3> HIDE DEF m
    <3>4. Polled(m) BY <1>3, <3>2, <3>3
    <3> QED BY <3>1, <3>4
  <2>3. CASE miner.mode \in {"Auto", "Mixed"} /\ pending # "no"
    <3> DEFINE no == FALSE
               m == [miner EXCEPT !.rx = no, !.has_pending_txs = full]
    <3>1. auto = [miner |-> m, transactions |-> few] BY <2>3, Zenon DEF auto_poll
    <3>2. full \in {"unknown", "yes", "no"} /\ no \in BOOLEAN OBVIOUS
    <3> HIDE DEF full, few, no
    <3>3. m = [mode |-> miner.mode, has_pending_txs |-> full, rx |-> no, forced |-> miner.forced]
      <4> DEFINE l == [miner EXCEPT !.rx = no]
      <4>1. l = [mode |-> miner.mode, has_pending_txs |-> miner.has_pending_txs, rx |-> no, forced |-> miner.forced]
        BY <1>3
      <4>2. m = [l EXCEPT !.has_pending_txs = full] OBVIOUS
      <4> HIDE DEF l, m
      <4> QED BY <4>1, <4>2
    <3> HIDE DEF m
    <3>4. Polled(m) BY <3>2, <3>3
    <3> QED BY <1>2, <3>1, <3>4
  <2> QED BY <2>1, <2>2, <2>3
<1>5. fixed \in Seq(A) BY <1>1 DEF fixed_poll
<1> DEFINE both == auto.transactions \o in_order(fixed, ToSet(fixed) \ ToSet(auto.transactions))
<1>6. polled = [miner |-> auto.miner, ready |-> polled.ready, transactions |-> both] BY DEF MiningMode_poll
<1> HIDE DEF auto, fixed, polled, both
<1>7. both \in Seq(A)
  <2>1. in_order(fixed, ToSet(fixed) \ ToSet(auto.transactions)) \in Seq(A) BY <1>5, InOrder
  <2> QED BY <1>4, <2>1 DEF both
<1> DEFINE x == auto.miner.has_pending_txs
           b == auto.miner.rx
<1>9. /\ auto.miner = [mode |-> miner.mode, has_pending_txs |-> x, rx |-> b, forced |-> miner.forced]
      /\ x \in {"unknown", "yes", "no"} /\ b \in BOOLEAN
  BY <1>4
<1> HIDE DEF x, b
<1>10. polled.miner \in Miners(A) /\ polled.transactions \in Seq(A) BY <1>3, <1>6, <1>7, <1>9 DEF Miners
<1>11. \/ o = polled
       \/ o = [polled EXCEPT !.transactions = miner.forced \o @, !.miner.forced = <<>>]
  BY DEF Miner_poll, polled
<1>12. CASE o = polled BY <1>10, <1>12
<1>13. CASE o = [polled EXCEPT !.transactions = miner.forced \o @, !.miner.forced = <<>>]
  <2> DEFINE all == miner.forced \o both
             left == [mode |-> miner.mode, has_pending_txs |-> x, rx |-> b, forced |-> <<>>]
  <2>1. all \in Seq(A) BY <1>3, <1>7
  <2>2. left \in Miners(A) BY <1>3, <1>9 DEF Miners
  <2>3. o.transactions = all /\ o.miner = left BY <1>6, <1>9, <1>13
  <2> QED BY <2>1, <2>2, <2>3
<1> QED BY <1>11, <1>12, <1>13

\* The node starts as the invariant and the ledger say.
LEMMA NodeStarts == NodeInit => NodeIInv /\ Promise!LedgerInit
<1> SUFFICES ASSUME NodeInit PROVE NodeIInv /\ Promise!LedgerInit OBVIOUS
<1> DEFINE A == ToSet(ForceTransactions)
<1>1. ForceTransactions \in Seq(Txs) /\ InitialMode \in Modes BY NodeAssumption
<1>2. A \in SUBSET Txs /\ ForceTransactions \in Seq(A) BY <1>1 DEF ToSet
<1> HIDE DEF A
<1>3. accepted = A BY DEF NodeInit, A
<1>4. PoolHolds(pool, A)
  <2>1. pool = EmptyPool BY DEF NodeInit, PoolInit
  <2>2. DOMAIN <<>> = {} /\ <<>> \in Seq(Txs) OBVIOUS
  <2>3. PoolHolds(EmptyPool, A) BY <2>2 DEF PoolHolds, EmptyPool
  <2> QED BY <2>1, <2>3
<1>5. miner \in Miners(A) BY <1>1, <1>2 DEF NodeInit, Miners
<1>6. queued \in Seq(Seq(A)) /\ chain \in Seq(A) /\ DOMAIN submitting \subseteq Txs BY DEF NodeInit
<1>7. Idle \in Producers(A) BY DEF Idle, Producers, Phases
<1>8. producers \in [Threads -> Producers(A)] /\ \A t \in Threads : producers[t] = Idle BY <1>7 DEF NodeInit
<1>9. nonces = [a \in Senders |-> 0] /\ chain = <<>> BY DEF NodeInit, PoolInit
<1>10. nonces \in [Senders -> Nat] /\ Ordered(chain, nonces) BY <1>9, OrderedAtFirst
<1>11. NodeIInv BY <1>2, <1>3, <1>4, <1>5, <1>6, <1>8, <1>10 DEF NodeIInv
<1>12. Promise!LedgerInit BY <1>9 DEF NodeInit, Promise!LedgerInit
<1> QED BY <1>11, <1>12

\* The background service leaves the ledger alone.
LEMMA ServiceHolds == NodeIInv /\ Service => NodeIInv' /\ UNCHANGED <<accepted, chain>>
<1> SUFFICES ASSUME NodeIInv, Service PROVE NodeIInv' /\ UNCHANGED <<accepted, chain>> OBVIOUS
<1>1. CASE \E tick \in BOOLEAN : service_polls_miner(tick)
  <2>1. PICK tick \in BOOLEAN : service_polls_miner(tick) BY <1>1
  <2> DEFINE polled == Miner_poll(tick)
  <2>2. UNCHANGED <<pool, nonces, producers, submitting, accepted, chain>> /\ miner' = polled.miner
        /\ (queued' = queued \/ queued' = Append(queued, polled.transactions))
    BY <2>1 DEF service_polls_miner
  <2>3. polled.miner \in Miners(accepted) /\ polled.transactions \in Seq(accepted)
    BY MinerPollHolds DEF NodeIInv
  <2> HIDE DEF polled
  <2>4. queued' \in Seq(Seq(accepted))
    <3> DEFINE S == Seq(accepted)
               tx == polled.transactions
    <3>1. queued \in Seq(S) /\ tx \in S BY <2>3 DEF NodeIInv
    <3>2. queued' = queued \/ queued' = Append(queued, tx) BY <2>2
    <3> HIDE DEF S, tx
    <3>3. queued' \in Seq(S) BY <3>1, <3>2
    <3> QED BY <3>3 DEF S
  <2>5. NodeIInv' BY <2>2, <2>3, <2>4 DEF NodeIInv
  <2> QED BY <2>2, <2>5
<1>2. CASE service_starts_block
  <2> DEFINE next == [Idle EXCEPT !.phase = "mining", !.transactions = Head(queued)]
  <2>1. /\ queued # <<>> /\ producers' = [producers EXCEPT !["service"] = next] /\ queued' = Tail(queued)
        /\ UNCHANGED <<pool, nonces, miner, submitting, accepted, chain>>
    BY <1>2 DEF service_starts_block
  <2>2. Head(queued) \in Seq(accepted) /\ Tail(queued) \in Seq(Seq(accepted)) BY <2>1 DEF NodeIInv
  <2>3. next \in Producers(accepted) /\ next.phase = "mining"
    <3> DEFINE r == [Idle EXCEPT !.phase = "mining"]
               txs == Head(queued)
    <3>1. r = [phase |-> "mining", transactions |-> <<>>, included |-> <<>>, invalid |-> {}] BY DEF Idle
    <3>2. next = [r EXCEPT !.transactions = txs] OBVIOUS
    <3> HIDE DEF next, r, txs
    <3>3. next = [phase |-> "mining", transactions |-> txs, included |-> <<>>, invalid |-> {}] BY <3>1, <3>2, Zenon
    <3>4. txs \in Seq(accepted) BY <2>2 DEF txs
    <3> QED BY <3>3, <3>4 DEF Producers, Phases
  <2> HIDE DEF next
  <2>4. producers' \in [Threads -> Producers(accepted)] BY <2>1, <2>3, Zenon DEF NodeIInv
  <2>5. \A t \in Threads : producers'[t].phase = "idle" => producers'[t] = Idle BY <2>1, <2>3 DEF NodeIInv
  <2>6. NodeIInv' BY <2>1, <2>2, <2>4, <2>5 DEF NodeIInv
  <2> QED BY <2>1, <2>6
<1> QED BY <1>1, <1>2 DEF Service

\* Mining a block is a block of the ledger.
LEMMA MineBlockHolds ==
  ASSUME NodeIInv, NEW t \in Threads, mine_block(t)
  PROVE  NodeIInv' /\ Promise!Block
<1> DEFINE A == accepted
           txs == producers[t].transactions
           o == execute(txs, nonces)
           next == [Idle EXCEPT !.phase = "mined", !.included = o.included, !.invalid = o.invalid]
<1>1. /\ nonces' = o.nonces /\ chain' = chain \o o.included
      /\ producers' = [producers EXCEPT ![t] = next]
      /\ UNCHANGED <<pool, miner, queued, submitting, accepted>>
  BY DEF mine_block
<1>2. A \in SUBSET Txs /\ chain \in Seq(A) /\ nonces \in [Senders -> Nat] /\ Ordered(chain, nonces) BY DEF NodeIInv
<1>3. txs \in Seq(A) BY DEF NodeIInv, Producers
<1> HIDE DEF A, txs
<1>4. o \in Outcomes(A) /\ Ordered(chain \o o.included, o.nonces) BY <1>2, <1>3, ExecuteHolds
<1>5. o.included \in Seq(A) /\ o.invalid \in SUBSET A /\ o.nonces \in [Senders -> Nat] BY <1>4 DEF Outcomes
<1> HIDE DEF o
<1>6. chain' \in Seq(A) BY <1>1, <1>2, <1>5
<1>7. next \in Producers(A) /\ next.phase = "mined"
  <2> DEFINE r == [Idle EXCEPT !.phase = "mined"]
             i == o.included
             v == o.invalid
             m == [r EXCEPT !.included = i]
  <2>1. r = [phase |-> "mined", transactions |-> <<>>, included |-> <<>>, invalid |-> {}] BY DEF Idle
  <2>2. m = [r EXCEPT !.included = i] OBVIOUS
  <2>6. next = [m EXCEPT !.invalid = v] OBVIOUS
  <2> HIDE DEF next, r, i, v, m
  <2>3. m = [phase |-> "mined", transactions |-> <<>>, included |-> i, invalid |-> {}] BY <2>1, <2>2, Zenon
  <2>4. next = [phase |-> "mined", transactions |-> <<>>, included |-> i, invalid |-> v] BY <2>3, <2>6
  <2>5. i \in Seq(A) /\ v \in SUBSET A BY <1>5 DEF i, v
  <2> QED BY <2>4, <2>5 DEF Producers, Phases
<1> HIDE DEF next
<1>8. producers' \in [Threads -> Producers(A)] BY <1>1, <1>7 DEF NodeIInv, A
<1>9. \A x \in Threads : producers'[x].phase = "idle" => producers'[x] = Idle BY <1>1, <1>7 DEF NodeIInv
<1>10. NodeIInv' BY <1>1, <1>4, <1>5, <1>6, <1>8, <1>9 DEF NodeIInv, A
<1>11. Len(chain) <= Len(chain') /\ SubSeq(chain', 1, Len(chain)) = chain
  <2> DEFINE s == o.included
  <2>1. s \in Seq(A) BY <1>5
  <2> HIDE DEF s
  <2>2. Len(chain) <= Len(chain \o s) BY <1>2, <2>1
  <2>3. SubSeq(chain, 1, Len(chain)) = SubSeq(chain \o s, 1, Len(chain)) BY <1>2, <2>1
  <2>4. SubSeq(chain, 1, Len(chain)) = chain BY <1>2
  <2> QED BY <1>1, <2>2, <2>3, <2>4 DEF s
<1>12. \A i \in DOMAIN chain' : chain'[i] \in accepted BY <1>6 DEF A
<1>13. Promise!InNonceOrder(chain') BY <1>1, <1>4 DEF Ordered
<1> QED BY <1>1, <1>10, <1>11, <1>12, <1>13 DEF Promise!Block

\* A thread that removes or prunes after its block leaves the ledger alone.
LEMMA PruningStepHolds ==
  ASSUME NodeIInv, NEW t \in Threads, removes_invalid(t) \/ prunes(t)
  PROVE  NodeIInv' /\ UNCHANGED <<accepted, chain>>
<1>1. accepted \in SUBSET Txs /\ PoolHolds(pool, accepted) BY DEF NodeIInv
<1>2. producers[t] \in Producers(accepted) BY DEF NodeIInv
<1>3. CASE removes_invalid(t)
  <2> DEFINE r == producers[t]
             next == [r EXCEPT !.phase = "pruning", !.invalid = {}]
  <2>1. /\ pool' = remove_invalid(pool, r.invalid) /\ UNCHANGED <<nonces, miner, queued, submitting, accepted, chain>>
        /\ producers' = [producers EXCEPT ![t].phase = "pruning", ![t].invalid = {}]
    BY <1>3 DEF removes_invalid
  <2>2. producers' = [producers EXCEPT ![t] = next] BY <2>1, Zenon DEF NodeIInv
  <2>3. PoolHolds(pool', accepted) BY <1>1, <2>1, RemoveInvalidHolds
  <2>4. next \in Producers(accepted) /\ next.phase = "pruning"
    <3> HIDE DEF r
    <3> QED BY <1>2, Zenon DEF Producers, Phases, r
  <2> HIDE DEF next
  <2>5. producers' \in [Threads -> Producers(accepted)] BY <2>2, <2>4 DEF NodeIInv
  <2>6. \A x \in Threads : producers'[x].phase = "idle" => producers'[x] = Idle BY <2>2, <2>4 DEF NodeIInv
  <2>7. NodeIInv' BY <2>1, <2>3, <2>5, <2>6 DEF NodeIInv
  <2> QED BY <2>1, <2>7
<1>4. CASE prunes(t)
  <2> DEFINE included == producers[t].included
             markers == [i \in DOMAIN included |-> to_marker(included[i])]
  <2>1. PICK order \in Orders : pool' = prune_markers(pool, markers, order) BY <1>4 DEF prunes
  <2>2. /\ producers' = [producers EXCEPT ![t] = Idle]
        /\ UNCHANGED <<nonces, miner, queued, submitting, accepted, chain>>
    BY <1>4 DEF prunes
  <2>3. order \in Seq(accepted) BY <1>1, OrdersAreSequences
  <2>4. Len(markers) \in Nat
    <3>1. included \in Seq(accepted) BY <1>2 DEF Producers
    <3> HIDE DEF included
    <3>2. DOMAIN markers = 1 .. Len(included) /\ Len(included) \in Nat BY <3>1
    <3>3. markers \in Seq({markers[i] : i \in 1 .. Len(included)}) BY <3>2
    <3> QED BY <3>3
  <2> HIDE DEF markers, included
  <2>5. PoolHolds(pool', accepted) BY <1>1, <2>1, <2>3, <2>4, PruneMarkersHolds
  <2>6. Idle \in Producers(accepted) BY DEF Idle, Producers, Phases
  <2>7. producers' \in [Threads -> Producers(accepted)] BY <2>2, <2>6 DEF NodeIInv
  <2>8. \A x \in Threads : producers'[x].phase = "idle" => producers'[x] = Idle BY <2>2 DEF NodeIInv
  <2>9. NodeIInv' BY <2>2, <2>5, <2>7, <2>8 DEF NodeIInv
  <2> QED BY <2>2, <2>9
<1> QED BY <1>3, <1>4

\* The end of a request is the acceptance of its transaction, or nothing.
LEMMA FinishSendHolds ==
  ASSUME NodeIInv, NEW h \in Txs, finish_send(h)
  PROVE  NodeIInv' /\ (UNCHANGED <<accepted, chain>> \/ Promise!Accept)
<1> DEFINE tx == [hash |-> h, requires |-> submitting[h]]
           A == accepted
           B == accepted'
<1>1. PICK order \in Orders :
        /\ pool' = add_transaction(pool, tx, order).pool
        /\ miner' = notify_listener(miner, add_transaction(pool, tx, order).ready)
        /\ accepted' = IF add_transaction(pool, tx, order).ok THEN accepted \cup {h} ELSE accepted
  BY DEF finish_send
<1> DEFINE o == add_transaction(pool, tx, order)
<1>2. /\ submitting' = Restrict(submitting, DOMAIN submitting \ {h})
      /\ UNCHANGED <<nonces, queued, producers, chain>>
  BY DEF finish_send
<1>3. A \in SUBSET Txs /\ PoolHolds(pool, A) /\ DOMAIN submitting \subseteq Txs BY DEF NodeIInv
<1>4. tx.hash = h OBVIOUS
<1>5. order \in Seq(A) BY <1>3, OrdersAreSequences
<1> HIDE DEF tx
<1>6. PoolHolds(o.pool, A \cup {h}) /\ (~ o.ok => PoolHolds(o.pool, A)) BY <1>3, <1>4, <1>5, AddHolds, Zenon
<1>7. DOMAIN submitting' \subseteq Txs BY <1>2, <1>3 DEF Restrict
<1>8. pool' = o.pool /\ B = (IF o.ok THEN A \cup {h} ELSE A) /\ miner' = notify_listener(miner, o.ready) BY <1>1
<1> HIDE DEF o
<1>9. miner' \in Miners(A)
  <2>1. miner' = miner \/ miner' = [miner EXCEPT !.rx = TRUE] BY <1>8 DEF notify_listener
  <2>2. miner \in Miners(A) BY DEF NodeIInv
  <2> QED BY <2>1, <2>2, Zenon DEF Miners
<1>10. PoolHolds(pool', B) BY <1>6, <1>8
<1>11. A \subseteq B /\ B \in SUBSET Txs BY <1>3, <1>8
<1>12. chain \in Seq(A) /\ queued \in Seq(Seq(A)) /\ producers \in [Threads -> Producers(A)]
       /\ (\A t \in Threads : producers[t].phase = "idle" => producers[t] = Idle)
       /\ nonces \in [Senders -> Nat] /\ Ordered(chain, nonces)
  BY DEF NodeIInv
<1>13. UNCHANGED <<accepted, chain>> \/ Promise!Accept
  <2>1. CASE o.ok BY <1>2, <1>8, <2>1 DEF Promise!Accept
  <2>2. CASE ~ o.ok BY <1>2, <1>8, <2>2
  <2> QED BY <2>1, <2>2
<1>14. chain \in Seq(B) /\ queued \in Seq(Seq(B)) /\ producers \in [Threads -> Producers(B)] /\ miner' \in Miners(B)
  <2> HIDE DEF A, B
  <2> QED BY <1>9, <1>11, <1>12, HoldsMore, Zenon
<1>15. NodeIInv' BY <1>2, <1>7, <1>10, <1>11, <1>12, <1>14, Zenon DEF NodeIInv
<1> QED BY <1>13, <1>15

\* Every other request leaves the ledger alone.
LEMMA ClientsHold ==
  NodeIInv /\ Clients => NodeIInv' /\ (UNCHANGED <<accepted, chain>> \/ Promise!Accept)
<1> SUFFICES ASSUME NodeIInv, Clients
             PROVE  NodeIInv' /\ (UNCHANGED <<accepted, chain>> \/ Promise!Accept)
  OBVIOUS
<1>1. accepted \in SUBSET Txs /\ PoolHolds(pool, accepted) /\ miner \in Miners(accepted) BY DEF NodeIInv
<1>2. ASSUME NEW h \in Txs, NEW requires, begin(h, requires) PROVE NodeIInv' /\ UNCHANGED <<accepted, chain>>
  <2>1. /\ submitting' = Insert(submitting, h, requires)
        /\ UNCHANGED <<pool, nonces, miner, queued, producers, accepted, chain>>
    BY <1>2 DEF begin
  <2>2. DOMAIN submitting' \subseteq Txs BY <2>1 DEF Insert, NodeIInv
  <2>3. NodeIInv' BY <2>1, <2>2 DEF NodeIInv
  <2> QED BY <2>1, <2>3
<1>3. ASSUME NEW h \in Txs, anvil_drop_transaction(h) PROVE NodeIInv' /\ UNCHANGED <<accepted, chain>>
  <2>1. /\ pool' = remove_with_markers(pool, {h})
        /\ UNCHANGED <<nonces, miner, queued, producers, submitting, accepted, chain>>
    BY <1>3 DEF anvil_drop_transaction, drop_transaction
  <2>2. PoolHolds(pool', accepted) BY <1>1, <2>1, RemoveHolds
  <2>3. NodeIInv' BY <2>1, <2>2 DEF NodeIInv
  <2> QED BY <2>1, <2>3
<1>4. CASE anvil_drop_all_transactions
  <2>1. pool' = EmptyPool /\ UNCHANGED <<nonces, miner, queued, producers, submitting, accepted, chain>>
    BY <1>4 DEF anvil_drop_all_transactions, drop_all
  <2>2. DOMAIN <<>> = {} /\ <<>> \in Seq(Txs) OBVIOUS
  <2>3. PoolHolds(EmptyPool, accepted) BY <2>2 DEF PoolHolds, EmptyPool
  <2>4. NodeIInv' BY <2>1, <2>3 DEF NodeIInv
  <2> QED BY <2>1, <2>4
<1>5. CASE evm_mine
  <2> DEFINE txs == ready_transactions(pool)
             r == [Idle EXCEPT !.phase = "mining"]
             next == [r EXCEPT !.transactions = txs]
  <2>1. /\ producers' = [producers EXCEPT !["api"] = next]
        /\ UNCHANGED <<pool, nonces, miner, queued, submitting, accepted, chain>>
    BY <1>5 DEF evm_mine
  <2>2. txs \in Seq(accepted)
    <3>1. txs \in Seq(DOMAIN pool.ready) BY <1>1, ReadyAreReady
    <3>2. DOMAIN pool.ready \subseteq accepted BY <1>1 DEF PoolHolds
    <3> HIDE DEF txs
    <3> QED BY <3>1, <3>2
  <2>3. r = [phase |-> "mining", transactions |-> <<>>, included |-> <<>>, invalid |-> {}] BY DEF Idle
  <2>4. next = [r EXCEPT !.transactions = txs] OBVIOUS
  <2> HIDE DEF next, r, txs
  <2>5. next = [phase |-> "mining", transactions |-> txs, included |-> <<>>, invalid |-> {}] BY <2>3, <2>4, Zenon
  <2>6. next \in Producers(accepted) /\ next.phase = "mining" BY <2>2, <2>5 DEF Producers, Phases
  <2>7. producers' \in [Threads -> Producers(accepted)] BY <2>1, <2>6, Zenon DEF NodeIInv
  <2>8. \A t \in Threads : producers'[t].phase = "idle" => producers'[t] = Idle BY <2>1, <2>6 DEF NodeIInv
  <2>9. NodeIInv' BY <2>1, <2>7, <2>8 DEF NodeIInv
  <2> QED BY <2>1, <2>9
<1>6. ASSUME NEW mode \in Modes PROVE set_mining_mode(mode) \in Miners(accepted)
  <2> DEFINE a == [miner EXCEPT !.mode = mode]
             b == [a EXCEPT !.has_pending_txs = "unknown"]
             c == [b EXCEPT !.rx = FALSE]
  <2>1. set_mining_mode(mode) = c BY DEF set_mining_mode
  <2>2. a \in Miners(accepted) BY <1>1, <1>6 DEF Miners
  <2> HIDE DEF a
  <2>3. b \in Miners(accepted) BY <2>2 DEF Miners
  <2> HIDE DEF b
  <2>4. c \in Miners(accepted) BY <2>3, Zenon DEF Miners
  <2> QED BY <2>1, <2>4
<1>7. ASSUME miner' \in Miners(accepted), UNCHANGED <<pool, nonces, queued, producers, submitting, accepted, chain>>
      PROVE  NodeIInv' /\ UNCHANGED <<accepted, chain>>
  BY <1>7 DEF NodeIInv
<1>8. ASSUME NEW enable \in BOOLEAN, anvil_set_auto_mine(enable) PROVE NodeIInv' /\ UNCHANGED <<accepted, chain>>
  <2>1. UNCHANGED <<pool, nonces, queued, producers, submitting, accepted, chain>>
        /\ miner' \in {set_mining_mode("None"), set_mining_mode("Auto"), miner}
    BY <1>8 DEF anvil_set_auto_mine
  <2>2. miner' \in Miners(accepted) BY <1>1, <1>6, <2>1 DEF Modes
  <2> QED BY <1>7, <2>1, <2>2
<1>9. ASSUME NEW secs \in {0, 1}, anvil_set_interval_mining(secs) PROVE NodeIInv' /\ UNCHANGED <<accepted, chain>>
  <2>1. UNCHANGED <<pool, nonces, queued, producers, submitting, accepted, chain>>
        /\ miner' \in {set_mining_mode("None"), set_mining_mode("Fixed")}
    BY <1>9 DEF anvil_set_interval_mining
  <2>2. miner' \in Miners(accepted) BY <1>6, <2>1 DEF Modes
  <2> QED BY <1>7, <2>1, <2>2
<1>10. ASSUME NEW h \in Txs, begin_send_raw(h) \/ begin_send(h) \/ finish_send(h) \/ anvil_drop_transaction(h)
       PROVE  NodeIInv' /\ (UNCHANGED <<accepted, chain>> \/ Promise!Accept)
  <2>1. CASE begin_send_raw(h) BY <1>2, <2>1 DEF begin_send_raw
  <2>2. CASE begin_send(h) BY <1>2, <2>2 DEF begin_send
  <2>3. CASE finish_send(h) BY <2>3, FinishSendHolds
  <2>4. CASE anvil_drop_transaction(h) BY <1>3, <2>4
  <2> QED BY <1>10, <2>1, <2>2, <2>3, <2>4
<1> QED BY <1>4, <1>5, <1>8, <1>9, <1>10 DEF Clients

\* Every step of the node keeps the invariant and is a step of the ledger.
LEMMA NodeStep ==
  NodeIInv /\ [NodeNext]_node_vars
    => NodeIInv' /\ [Promise!Accept \/ Promise!Block]_<<accepted, chain>>
<1> SUFFICES ASSUME NodeIInv, [NodeNext]_node_vars
             PROVE  NodeIInv' /\ [Promise!Accept \/ Promise!Block]_<<accepted, chain>>
  OBVIOUS
<1>1. CASE Service BY <1>1, ServiceHolds
<1>2. CASE Blocks
  <2>1. PICK t \in Threads : mine_block(t) \/ removes_invalid(t) \/ prunes(t) BY <1>2 DEF Blocks
  <2>2. CASE mine_block(t) BY <2>2, MineBlockHolds
  <2>3. CASE removes_invalid(t) \/ prunes(t) BY <2>3, PruningStepHolds
  <2> QED BY <2>1, <2>2, <2>3
<1>3. CASE Clients BY <1>3, ClientsHold
<1>4. CASE UNCHANGED node_vars BY <1>4 DEF node_vars, NodeIInv
<1> QED BY <1>1, <1>2, <1>3, <1>4 DEF NodeNext

\* The node implements AnvilLedger (backend/mod.rs mine_block, pool/mod.rs): for any
\* transactions, modes and requests, two threads that choose transactions from the
\* pool before either has mined never put one into two blocks or out of order,
\* and what is dropped, replaced or found invalid meanwhile does no harm.
THEOREM NodeImplementsLedger == NodeSpec => ImplementsLedger
<1>1. NodeInit => NodeIInv /\ Promise!LedgerInit BY NodeStarts
<1>2. NodeIInv /\ [NodeNext]_node_vars => NodeIInv' BY NodeStep
<1>3. NodeIInv /\ [NodeNext]_node_vars => [Promise!Accept \/ Promise!Block]_<<accepted, chain>> BY NodeStep
<1> QED BY <1>1, <1>2, <1>3, PTL DEF NodeSpec, ImplementsLedger, Promise!Ledger

\* What the pool, the queue of the block producer and the blocks being made hold
\* was accepted before (service.rs, pool/mod.rs), between any two steps of any
\* two threads.
THEOREM NodeTypes == NodeSpec => []NodeTypeOK
<1>1. NodeInit => NodeIInv BY NodeStarts
<1>2. NodeIInv /\ [NodeNext]_node_vars => NodeIInv' BY NodeStep
<1>3. NodeIInv => NodeTypeOK
  <2> SUFFICES ASSUME NodeIInv PROVE NodeTypeOK OBVIOUS
  <2>1. miner.mode \in Modes /\ miner.has_pending_txs \in {"unknown", "yes", "no"} /\ miner.rx \in BOOLEAN
    BY DEF NodeIInv, Miners
  <2>2. \A s \in Seq(accepted) : ToSet(s) \subseteq accepted BY DEF ToSet
  <2>3. \A i \in DOMAIN queued : ToSet(queued[i]) \subseteq accepted
    <3> DEFINE S == Seq(accepted)
    <3>1. queued \in Seq(S) BY DEF NodeIInv
    <3> HIDE DEF S
    <3>2. \A i \in DOMAIN queued : queued[i] \in S BY <3>1
    <3> QED BY <2>2, <3>2 DEF S
  <2>4. \A t \in Threads : producers[t].phase \in Phases /\ producers[t].transactions \in Seq(accepted)
    BY DEF NodeIInv, Producers
  <2>5. \A t \in Threads : producers[t].phase = "idle" => producers[t] = Idle BY DEF NodeIInv
  <2>6. DOMAIN submitting \subseteq Txs BY DEF NodeIInv
  <2>7. DOMAIN pool.ready \cup DOMAIN pool.waiting \subseteq accepted BY DEF NodeIInv, PoolHolds
  <2> QED BY <2>1, <2>2, <2>3, <2>4, <2>5, <2>6, <2>7 DEF NodeTypeOK, Phases
<1> QED BY <1>1, <1>2, <1>3, PTL DEF NodeSpec
================================================================================
