------------------------------ MODULE AnvilPool ------------------------------
(***************************************************************************)
(* anvil's transaction pool: eth/pool/mod.rs and eth/pool/transactions.rs, *)
(* with the marker a request requires (eth/api.rs) and the execution of a  *)
(* block (eth/backend/executor.rs) that tells the pool what to prune.      *)
(*                                                                         *)
(* A pool is a record and an operation of the pool an operator from a pool *)
(* to its result.  A transaction provides one marker, its nonce and        *)
(* sender, and requires at most one: this is what eth/api.rs builds.       *)
(*                                                                         *)
(* Here requests, blocks and pruning are atomic; AnvilNode interleaves     *)
(* them.                                                                   *)
(***************************************************************************)
EXTENDS Integers, FiniteSets, Sequences, SequencesExt, FiniteSetsExt, Functions, Bags, TLC, Maps

CONSTANTS
  Txs,               \* the transactions clients may send, by hash
  sender, nonce, gas_price, gas_limit,    \* functions of a transaction
  TransactionOrder,  \* "Fees" or "Fifo"
  block_gas_limit,
  MaxUnlocks         \* bound on the length of a transaction's unlocks

Senders == {sender[h] : h \in Txs}
Nonces == 0 .. 1 + Max({nonce[h] : h \in Txs})
Markers == Nonces \X Senders

ASSUME TransactionsAssumption ==
  /\ IsFiniteSet(Txs)
  /\ TransactionOrder \in {"Fees", "Fifo"}
  /\ \A h \in Txs : /\ nonce[h] \in Nat /\ gas_price[h] \in Nat
                    /\ gas_limit[h] \in 1 .. block_gas_limit

VARIABLES
  pool,       \* Pool::inner
  nonces      \* the nonce of every account in the backend's state

pool_vars == <<pool, nonces>>

-----------------------------------------------------------------------------
(* The ready queue.  ready_tx has an entry per hash; unlocks is a Vec with  *)
(* possible repetitions whose order nothing depends on, hence a bag.  Ids   *)
(* only compare arrivals, so arrival lists the ready hashes by id.          *)

to_marker(h) == <<nonce[h], sender[h]>>

required_marker(provided_nonce, on_chain_nonce, from) ==
  IF provided_nonce > on_chain_nonce THEN {<<provided_nonce - 1, from>>} ELSE {}

EmptyPool ==
  [ready |-> <<>>, provided |-> <<>>, independent |-> {}, arrival |-> <<>>,
   waiting |-> <<>>, required |-> <<>>, waiting_markers |-> <<>>]

\* The elements of a sequence that are among the hashes, in its order.
in_order(order, hashes) ==
  FoldLeft(LAMBDA s, h : IF h \in hashes THEN Append(s, h) ELSE s, <<>>, order)

DropReady(p, gone) ==
  [p EXCEPT !.ready = Restrict(@, DOMAIN @ \ gone),
            !.independent = @ \ gone,
            !.arrival = in_order(@, DOMAIN p.ready \ gone)]

\* The hashes that remove_with_markers pops: those asked for and all that
\* they unlock.  ("remove from unlocks" there looks for the predecessor's own
\* hash among what it unlocks and so removes nothing.)
Dependents(ready, hashes) ==
  FoldLeft(LAMBDA gone, i :
             gone \cup {h \in DOMAIN ready : \E g \in gone : BagIn(h, ready[g].unlocks)},
           hashes \cap DOMAIN ready,
           [i \in 1 .. Cardinality(DOMAIN ready) |-> i])

remove_with_markers(p, hashes) ==
  LET gone == Dependents(p.ready, hashes)
  IN [DropReady(p, gone) EXCEPT !.provided = Restrict(@, DOMAIN @ \ {to_marker(h) : h \in gone})]

\* Mutant: a replacement starts without what the old one unlocks.
inherited_unlocks_None(p, replaced) == EmptyBag

inherited_unlocks(p, replaced) ==
  FoldSet(LAMBDA x, bag : bag (+) p.ready[x].unlocks, EmptyBag, replaced)

\* ReadyTransactions::add_transaction with replaced_transactions: the ready
\* transaction with the same marker, if any, is replaced by a better priced
\* one, which takes over what the old one unlocks.
ready_add(p, tx) ==
  LET h == tx.hash
      m == to_marker(h)
      replaced == {x \in DOMAIN p.ready : m \in DOMAIN p.provided /\ p.provided[m] = x}
      providers == {p.provided[r] : r \in tx.requires \cap DOMAIN p.provided}
      rest == DropReady(p, replaced)
      linked == [x \in DOMAIN rest.ready |->
                   IF x \in providers THEN [rest.ready[x] EXCEPT !.unlocks = @ (+) SetToBag({h})]
                                      ELSE rest.ready[x]]
  IN IF \E x \in replaced : gas_price[h] <= gas_price[x]
     THEN [ok |-> FALSE, pool |-> p, replaced |-> {}]
     ELSE [ok |-> TRUE, replaced |-> replaced,
           pool |-> [rest EXCEPT
             !.ready = Insert(linked, h, [requires |-> tx.requires,
                                          unlocks |-> inherited_unlocks(p, replaced),
                                          offset |-> Cardinality(tx.requires \ DOMAIN p.provided)]),
             !.provided = Insert(@, m, h),
             !.independent = IF providers = {} THEN @ \cup {h} ELSE @,
             !.arrival = Append(@, h)]]

\* The transactions that satisfy_transaction completes.
freed(before, after) ==
  {x \in DOMAIN after : LET n == Cardinality(after[x].requires)
                        IN before[x].offset < n /\ n <= after[x].offset}

\* One round of the loop of prune_tags: the transaction that provides the
\* marker goes; its predecessor goes too once it unlocks nothing else; what
\* it unlocks becomes independent when that was its last requirement.
prune_round(st) ==
  IF st.remove = <<>> THEN st
  ELSE
    LET m == Last(st.remove)
        found == {h \in DOMAIN st.pool.ready : m \in DOMAIN st.pool.provided /\ st.pool.provided[m] = h}
        provided == Restrict(st.pool.provided, DOMAIN st.pool.provided \ {m})
    IN IF found = {}
       THEN [pool |-> [st.pool EXCEPT !.provided = provided], remove |-> Front(st.remove)]
       ELSE
         LET h == CHOOSE x \in found : TRUE
             tx == st.pool.ready[h]
             rest == DropReady(st.pool, {h})
             previous == {provided[r] : r \in tx.requires \cap DOMAIN provided}
             satisfied(x) == IF BagIn(x, tx.unlocks) THEN tx.unlocks[x] ELSE 0
             ready == [x \in DOMAIN rest.ready |->
                         [rest.ready[x] EXCEPT
                            !.unlocks = IF x \in previous THEN @ (-) SetToBag({h}) ELSE @,
                            !.offset = @ + satisfied(x)]]
         IN [pool |-> [rest EXCEPT !.ready = ready, !.provided = provided,
                                   !.independent = @ \cup freed(rest.ready, ready)],
             remove |-> Front(st.remove) \o
                        SetToSeq({to_marker(x) : x \in {y \in previous \cap DOMAIN ready :
                                                           ready[y].unlocks = EmptyBag}})]

prune_tags(p, marker) ==
  LET rounds == Cardinality(DOMAIN p.ready) + 1
      run[i \in 0 .. rounds] ==
        IF i = 0 THEN [pool |-> p, remove |-> <<marker>>] ELSE prune_round(run[i - 1])
  IN run[rounds].pool

-----------------------------------------------------------------------------
(* The iterator over ready transactions: the best independent one first,   *)
(* then what it unlocks becomes a candidate.                               *)

priority(h) == IF TransactionOrder = "Fees" THEN gas_price[h] ELSE 0

Position(p, h) == CHOOSE i \in DOMAIN p.arrival : p.arrival[i] = h

Best(p, S) ==
  CHOOSE h \in S : \A g \in S \ {h} :
    \/ priority(h) > priority(g)
    \/ priority(h) = priority(g) /\ Position(p, h) < Position(p, g)

iterator_next(p, it) ==
  IF it.independent = {} THEN it
  ELSE LET h == Best(p, it.independent)
       IN [independent |-> (it.independent \ {h})
                              \cup (BagToSet(p.ready[h].unlocks) \cap DOMAIN p.ready),
           yielded |-> Append(it.yielded, h)]

\* There are no more ways to a ready transaction than sets of ready ones.
ready_transactions(p) ==
  LET steps == Cardinality(SUBSET DOMAIN p.ready)
      it[i \in 0 .. steps] ==
        IF i = 0 THEN [independent |-> p.independent, yielded |-> <<>>] ELSE iterator_next(p, it[i - 1])
  IN it[steps].yielded

-----------------------------------------------------------------------------
(* The waiting transactions *)

\* PendingTransactions::add_transaction.  A transaction that is replaced stays
\* in the waiting queue; only waiting_markers forgets it.
pending_add(p, tx, missing) ==
  LET h == tx.hash
      m == to_marker(h)
      old == IF m \in DOMAIN p.waiting_markers THEN {p.waiting_markers[m]} \cap DOMAIN p.waiting ELSE {}
  IN IF \E x \in old : gas_price[h] < gas_price[x]
     THEN [ok |-> FALSE, pool |-> p]
     ELSE [ok |-> TRUE,
           pool |-> [p EXCEPT
             !.required = [r \in DOMAIN @ \cup missing |->
                             (IF r \in DOMAIN @ THEN @[r] ELSE {}) \cup (IF r \in missing THEN {h} ELSE {})],
             !.waiting_markers = Insert(@, m, h),
             !.waiting = Insert(@, h, [requires |-> tx.requires, missing |-> missing])]]

mark_and_unlock(p, m) ==
  LET hashes == IF m \in DOMAIN p.required THEN p.required[m] ELSE {}
      unlocked == {h \in hashes : p.waiting[h].missing \subseteq {m}}
  IN [unlocked |-> unlocked,
      pool |-> [p EXCEPT
        !.required = Restrict(@, DOMAIN @ \ {m}),
        !.waiting = [h \in DOMAIN @ \ unlocked |->
                       IF h \in hashes THEN [p.waiting[h] EXCEPT !.missing = @ \ {m}] ELSE @[h]],
        !.waiting_markers = Restrict(@, DOMAIN @ \ {to_marker(h) : h \in unlocked})]]

\* Mutant: the required markers keep the removed hashes.
pending_remove_KeepsRequired(p, hashes) ==
  LET gone == hashes \cap DOMAIN p.waiting
  IN [p EXCEPT !.waiting = Restrict(@, DOMAIN @ \ gone),
               !.waiting_markers = Restrict(@, DOMAIN @ \ {to_marker(h) : h \in gone})]

pending_remove(p, hashes) ==
  LET gone == hashes \cap DOMAIN p.waiting
      left == [m \in DOMAIN p.required |-> p.required[m] \ {h \in gone : m \in p.waiting[h].missing}]
  IN [p EXCEPT !.waiting = Restrict(@, DOMAIN @ \ gone),
               !.waiting_markers = Restrict(@, DOMAIN @ \ {to_marker(h) : h \in gone}),
               !.required = Restrict(left, {m \in DOMAIN left : left[m] # {}})]
-----------------------------------------------------------------------------
(* PoolInner.  order is the order in which a HashSet happens to be iterated. *)

\* One round of the loop of add_ready_transaction.
import_round(st, order) ==
  IF st.queue = <<>> \/ st.failed THEN st
  ELSE LET tx == Head(st.queue)
           marked == mark_and_unlock(st.pool, to_marker(tx.hash))
           added == ready_add(marked.pool, tx)
           unlocked == in_order(order, marked.unlocked)
       IN [pool |-> added.pool,
           queue |-> Tail(st.queue) \o
                     [i \in DOMAIN unlocked |->
                        [hash |-> unlocked[i], requires |-> st.pool.waiting[unlocked[i]].requires]],
           failed |-> st.is_new_tx /\ ~added.ok,
           is_new_tx |-> FALSE,
           promoted |-> IF added.ok /\ ~st.is_new_tx THEN Append(st.promoted, tx.hash) ELSE st.promoted,
           removed |-> st.removed \cup added.replaced]

add_ready_transaction(p, tx, order) ==
  LET rounds == Cardinality(DOMAIN p.waiting) + 1
      st[i \in 0 .. rounds] ==
        IF i = 0 THEN [pool |-> p, queue |-> <<tx>>, failed |-> FALSE, is_new_tx |-> TRUE,
                       promoted |-> <<>>, removed |-> {}]
        ELSE import_round(st[i - 1], order)
      run == st[rounds]
  IN IF run.failed THEN [ok |-> FALSE, pool |-> run.pool, ready |-> <<>>]
     ELSE IF tx.hash \in run.removed
     THEN [ok |-> FALSE, pool |-> remove_with_markers(run.pool, ToSet(run.promoted)), ready |-> <<>>]
     ELSE [ok |-> TRUE, pool |-> run.pool, ready |-> <<tx.hash>> \o run.promoted]

contains(p, h) == h \in DOMAIN p.waiting \cup DOMAIN p.ready

\* Mutant: a marker that is already provided is waited for.
add_transaction_WaitsForProvided(p, tx, order) ==
  LET waiting == pending_add(p, tx, tx.requires)
  IN IF contains(p, tx.hash) THEN [ok |-> FALSE, pool |-> p, ready |-> <<>>]
     ELSE IF tx.requires # {} THEN [ok |-> waiting.ok, pool |-> waiting.pool, ready |-> <<>>]
     ELSE add_ready_transaction(p, tx, order)

\* The result's ready lists the hashes to notify listeners of.
add_transaction(p, tx, order) ==
  LET missing == tx.requires \ DOMAIN p.provided
      waiting == pending_add(p, tx, missing)
  IN IF contains(p, tx.hash) THEN [ok |-> FALSE, pool |-> p, ready |-> <<>>]
     ELSE IF missing # {} THEN [ok |-> waiting.ok, pool |-> waiting.pool, ready |-> <<>>]
     ELSE add_ready_transaction(p, tx, order)

\* One marker of a mined block: what it unlocks is imported at the end.
prune_marker(st, m, waiting, order) ==
  LET marked == mark_and_unlock(st.pool, m)
      unlocked == in_order(order, marked.unlocked)
  IN [pool |-> prune_tags(marked.pool, m),
      imports |-> st.imports \o
        [i \in DOMAIN unlocked |-> [hash |-> unlocked[i], requires |-> waiting[unlocked[i]].requires]]]

prune_markers(p, markers, order) ==
  LET st[i \in 0 .. Len(markers)] ==
        IF i = 0 THEN [pool |-> p, imports |-> <<>>] ELSE prune_marker(st[i - 1], markers[i], p.waiting, order)
      pruned == st[Len(markers)]
      q[i \in 0 .. Len(pruned.imports)] ==
        IF i = 0 THEN pruned.pool ELSE add_ready_transaction(q[i - 1], pruned.imports[i], order).pool
  IN q[Len(pruned.imports)]

remove_invalid(p, hashes) ==
  IF hashes = {} THEN p ELSE pending_remove(remove_with_markers(p, hashes), hashes)

\* Mutant: only the first included transaction is pruned.
on_mined_block_FirstOnly(p, outcome, order) ==
  LET first == SubSeq(outcome.included, 1, Min({1, Len(outcome.included)}))
  IN prune_markers(remove_invalid(p, outcome.invalid), [i \in DOMAIN first |-> to_marker(first[i])], order)

on_mined_block(p, outcome, order) ==
  prune_markers(remove_invalid(p, outcome.invalid),
                [i \in DOMAIN outcome.included |-> to_marker(outcome.included[i])], order)

remove_transactions_by_address(p, from) ==
  LET hashes == {h \in DOMAIN p.waiting \cup ToSet(ready_transactions(p)) : sender[h] = from}
  IN pending_remove(remove_with_markers(p, hashes), hashes)

-----------------------------------------------------------------------------
(* The execution of a block.  A transaction that does not fit in what is   *)
(* left of the block is skipped; one with another nonce than its sender's  *)
(* is invalid.                                                             *)

\* Mutant: the nonce is not compared.
execute_next_AnyNonce(st, h) ==
  IF st.gas_used + gas_limit[h] > block_gas_limit THEN st
  ELSE [st EXCEPT !.included = Append(@, h), !.gas_used = @ + gas_limit[h],
                  !.nonces[sender[h]] = nonce[h] + 1]

execute_next(st, h) ==
  IF st.gas_used + gas_limit[h] > block_gas_limit THEN st
  ELSE IF nonce[h] # st.nonces[sender[h]] THEN [st EXCEPT !.invalid = @ \cup {h}]
  ELSE [st EXCEPT !.included = Append(@, h), !.gas_used = @ + gas_limit[h],
                  !.nonces[sender[h]] = @ + 1]

execute(transactions, accounts) ==
  FoldLeft(execute_next,
           [nonces |-> accounts, included |-> <<>>, invalid |-> {}, gas_used |-> 0], transactions)

-----------------------------------------------------------------------------
(* Requests *)

PoolInit == pool = EmptyPool /\ nonces = [a \in Senders |-> 0]

Orders == SetToSeqs(DOMAIN pool.waiting)

\* unlocks keeps the hashes of dropped transactions and would grow for ever.
Bounded == \A h \in DOMAIN pool'.ready : BagCardinality(pool'.ready[h].unlocks) <= MaxUnlocks

\* eth_sendRawTransaction: the required marker is relative to the state.
send_raw_transaction(h) ==
  /\ nonce[h] >= nonces[sender[h]]
  /\ \E order \in Orders :
       LET tx == [hash |-> h, requires |-> required_marker(nonce[h], nonces[sender[h]], sender[h])]
       IN pool' = add_transaction(pool, tx, order).pool
  /\ Bounded
  /\ UNCHANGED nonces

\* get_nonce at the pending block: one above the ready transactions' nonces.
pending_nonce(p, accounts, from) ==
  LET ready == {nonce[h] : h \in {x \in ToSet(ready_transactions(p)) : sender[x] = from}}
  IN IF ready = {} THEN accounts[from] ELSE 1 + CHOOSE n \in ready : \A k \in ready : n >= k

\* eth_sendTransaction, eth_sendUnsignedTransaction: it is relative to the
\* pending block.
send_transaction(h) ==
  /\ nonce[h] >= nonces[sender[h]]
  /\ \E order \in Orders :
       LET highest == pending_nonce(pool, nonces, sender[h])
           tx == [hash |-> h, requires |-> required_marker(nonce[h], highest, sender[h])]
       IN pool' = add_transaction(pool, tx, order).pool
  /\ Bounded
  /\ UNCHANGED nonces

\* mine_one, or a miner's choice of the first n ready transactions.
mine_one(n) ==
  \E order \in Orders :
    LET transactions == SubSeq(ready_transactions(pool), 1, n)
        outcome == execute(transactions, nonces)
    IN /\ n <= Len(ready_transactions(pool))
       /\ pool' = on_mined_block(pool, outcome, order)
       /\ nonces' = outcome.nonces

drop_transaction(h) ==
  pool' = remove_with_markers(pool, {h}) /\ UNCHANGED nonces

drop_by_address(from) ==
  pool' = remove_transactions_by_address(pool, from) /\ UNCHANGED nonces

drop_all == pool' = EmptyPool /\ UNCHANGED nonces

PoolNext ==
  \/ \E h \in Txs : send_raw_transaction(h) \/ send_transaction(h) \/ drop_transaction(h)
  \/ \E n \in 1 .. Cardinality(Txs) : mine_one(n)
  \/ \E from \in Senders : drop_by_address(from)
  \/ drop_all

PoolSpec == PoolInit /\ [][PoolNext]_pool_vars

-----------------------------------------------------------------------------
(* Properties *)

PoolTypeOK ==
  /\ DOMAIN pool.ready \subseteq Txs /\ DOMAIN pool.waiting \subseteq Txs
  /\ DOMAIN pool.ready \cap DOMAIN pool.waiting = {}
  /\ \A h \in DOMAIN pool.ready :
       /\ pool.ready[h].requires \subseteq Markers
       /\ pool.ready[h].offset \in Nat
       /\ IsABag(pool.ready[h].unlocks)
  /\ ToSet(pool.arrival) = DOMAIN pool.ready /\ Len(pool.arrival) = Cardinality(DOMAIN pool.ready)
  /\ pool.independent \subseteq DOMAIN pool.ready
  /\ nonces \in [Senders -> Nonces]

\* The markers that are provided are exactly those of the ready transactions,
\* each by the one that has it, and no marker that is provided is waited for.
\* On the first rest the "hash included;" of add_transaction and the assertion
\* of prune_tags; on the second that a transaction rejected by
\* add_ready_transaction has not unlocked anything yet.
ProvidedByReady ==
  /\ DOMAIN pool.provided = {to_marker(h) : h \in DOMAIN pool.ready}
  /\ \A h \in DOMAIN pool.ready : pool.provided[to_marker(h)] = h
  /\ DOMAIN pool.provided \cap DOMAIN pool.required = {}

\* required_markers lists, for each marker, the waiting transactions that miss
\* it: every "tx is included;" of mark_and_unlock holds and no waiting
\* transaction is out of reach of the marker it waits for.
RequiredByWaiting ==
  /\ \A h \in DOMAIN pool.waiting : pool.waiting[h].missing # {}
  /\ \A m \in Markers :
       {h \in DOMAIN pool.waiting : m \in pool.waiting[h].missing}
         = IF m \in DOMAIN pool.required THEN pool.required[m] ELSE {}

\* The iterator that miners and pending blocks use reaches every ready
\* transaction, whatever was replaced, dropped or pruned before.
EveryReadyIsYielded == ToSet(ready_transactions(pool)) = DOMAIN pool.ready

\* The five indices of the pool agree in every state, also between two locks of
\* the node that runs it.
PoolIndicesAgree == PoolTypeOK /\ ProvidedByReady /\ RequiredByWaiting /\ EveryReadyIsYielded

\* A transaction the pool rejects (already imported, underpriced) leaves the
\* pool as it was: nothing is unlocked, discarded or removed on the way.
RejectedLeavesNoTrace ==
  \A h \in Txs, base \in Nonces, order \in Orders :
    LET tx == [hash |-> h, requires |-> required_marker(nonce[h], base, sender[h])]
        result == add_transaction(pool, tx, order)
    IN ~result.ok => result.pool = pool

\* The pool keeps up with the blocks: what is ready has not been mined, and
\* what waits waits for a transaction that has not been mined either, so no
\* transaction waits for a marker that nobody will provide again.
PoolFollowsState ==
  /\ \A h \in DOMAIN pool.ready : nonce[h] >= nonces[sender[h]]
  /\ \A h \in DOMAIN pool.waiting : \A m \in pool.waiting[h].missing : m[1] >= nonces[m[2]]
==============================================================================
