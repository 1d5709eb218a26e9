------------------------------ MODULE AnvilNode ------------------------------
(***************************************************************************)
(* The running anvil node: the pool of AnvilPool, the miner (eth/miner.rs),*)
(* the background service and its block producer (service.rs), and the RPC *)
(* handlers of eth/api.rs that add transactions, mine and switch the       *)
(* mining mode, each on a thread of its own.                               *)
(*                                                                         *)
(* The pool's lock is held for one operation and the mining lock for one   *)
(* block; between two of them any other thread may act.                    *)
(***************************************************************************)
EXTENDS AnvilPool

CONSTANTS
  InitialMode,          \* what lib.rs chooses: "None", "Auto", "Fixed" or "Mixed"
  MaxTransactions,      \* the transactions an Auto miner takes for one block
  ForceTransactions,    \* with_forced_transactions, <<>> without a fork
  Requests,             \* the RPC calls the clients of an instance make
  MaxRequests,          \* bound on the transactions being submitted at once
  MaxQueued             \* bound on the backlog of the block producer

Modes == {"None", "Auto", "Fixed", "Mixed"}
RequestKinds == {"sendRaw", "send", "drop", "dropAll", "evm_mine", "setAutomine", "setInterval"}

ASSUME NodeAssumption ==
  /\ InitialMode \in Modes /\ Requests \subseteq RequestKinds /\ ForceTransactions \in Seq(Txs)
  /\ MaxTransactions \in Nat \ {0}
  /\ MaxRequests \in Nat /\ MaxQueued \in Nat

VARIABLES
  miner,       \* Miner: mode, has_pending_txs, rx, forced
  queued,      \* BlockProducer::queued
  producers,   \* the two threads that mine: the service's and evm_mine's
  submitting,  \* the required markers of each transaction being submitted
  accepted,    \* history: the transactions handed to the node and accepted
  chain        \* history: the transactions of the blocks, in order

node_vars == <<pool, nonces, miner, queued, producers, submitting, accepted, chain>>

Threads == {"service", "api"}
Idle == [phase |-> "idle", transactions |-> <<>>, included |-> <<>>, invalid |-> {}]

NodeInit ==
  /\ PoolInit
  /\ miner = [mode |-> InitialMode, has_pending_txs |-> "unknown", rx |-> FALSE, forced |-> ForceTransactions]
  /\ queued = <<>>
  /\ producers = [t \in Threads |-> Idle]
  /\ submitting = <<>>
  /\ accepted = ToSet(ForceTransactions)
  /\ chain = <<>>

-----------------------------------------------------------------------------
(* Submitting a transaction: the handler reads the nonce, awaits, and adds. *)

begin(h, requires) ==
  /\ Cardinality(DOMAIN submitting) < MaxRequests
  /\ h \notin DOMAIN submitting
  /\ nonce[h] >= nonces[sender[h]]
  /\ submitting' = Insert(submitting, h, requires)
  /\ UNCHANGED <<pool, nonces, miner, queued, producers, accepted, chain>>

begin_send_raw(h) ==
  /\ "sendRaw" \in Requests
  /\ begin(h, required_marker(nonce[h], nonces[sender[h]], sender[h]))

begin_send(h) ==
  /\ "send" \in Requests
  /\ begin(h, required_marker(nonce[h], pending_nonce(pool, nonces, sender[h]), sender[h]))

\* A full channel drops the hash: the miner only looks whether there is one.
notify_listener(m, hashes) ==
  IF hashes # <<>> /\ m.mode \in {"Auto", "Mixed"} THEN [m EXCEPT !.rx = TRUE] ELSE m

\* Pool::add_transaction at the end of either handler.
finish_send(h) ==
  /\ h \in DOMAIN submitting
  /\ \E order \in Orders :
       LET added == add_transaction(pool, [hash |-> h, requires |-> submitting[h]], order)
       IN /\ pool' = added.pool
          /\ miner' = notify_listener(miner, added.ready)
          /\ accepted' = IF added.ok THEN accepted \cup {h} ELSE accepted
  /\ Bounded
  /\ submitting' = Restrict(submitting, DOMAIN submitting \ {h})
  /\ UNCHANGED <<nonces, queued, producers, chain>>

anvil_drop_transaction(h) ==
  /\ "drop" \in Requests
  /\ drop_transaction(h)
  /\ UNCHANGED <<miner, queued, producers, submitting, accepted, chain>>

anvil_drop_all_transactions ==
  /\ "dropAll" \in Requests
  /\ drop_all
  /\ UNCHANGED <<miner, queued, producers, submitting, accepted, chain>>

-----------------------------------------------------------------------------
(* Miner::poll *)

\* ReadyTransactionMiner::poll.  No transactions stand for Poll::Pending.
auto_poll(m) ==
  LET has_pending_txs == IF m.rx THEN "yes" ELSE m.has_pending_txs
      ready == ready_transactions(pool)
      transactions == SubSeq(ready, 1, Min({MaxTransactions, Len(ready)}))
  IN IF m.mode \notin {"Auto", "Mixed"} THEN [miner |-> m, transactions |-> <<>>]
     ELSE IF has_pending_txs = "no"
     THEN [miner |-> [m EXCEPT !.rx = FALSE], transactions |-> <<>>]
     ELSE [miner |-> [m EXCEPT !.rx = FALSE,
                               !.has_pending_txs =
                                  IF Len(transactions) >= MaxTransactions THEN "yes" ELSE "no"],
           transactions |-> transactions]

\* Mutant: a tick makes an empty block.
fixed_poll_Empty(m, tick) == <<>>

\* FixedBlockTimeMiner::poll, when the interval ticks.
fixed_poll(m, tick) == IF tick THEN ready_transactions(pool) ELSE <<>>

\* Both, without repeating what the first one has.
MiningMode_poll(m, tick) ==
  LET auto == auto_poll(m)
      fixed == fixed_poll(m, tick)
  IN [miner |-> auto.miner,
      ready |-> tick \/ auto.transactions # <<>>,
      transactions |-> auto.transactions
                         \o in_order(fixed, ToSet(fixed) \ ToSet(auto.transactions))]

\* Mutant: the forced transactions come last.
Miner_poll_ForcedLast(tick) ==
  LET polled == MiningMode_poll(miner, tick)
  IN IF polled.ready THEN [polled EXCEPT !.transactions = @ \o miner.forced, !.miner.forced = <<>>]
                     ELSE polled

Miner_poll(tick) ==
  LET polled == MiningMode_poll(miner, tick)
  IN IF polled.ready THEN [polled EXCEPT !.transactions = miner.forced \o @, !.miner.forced = <<>>]
                     ELSE polled

-----------------------------------------------------------------------------
(* NodeService::poll: the block producer is polled until it is pending, then *)
(* the miner.                                                              *)

\* The miner is polled when the producer has nothing to start.
service_polls_miner(tick) ==
  /\ ~(queued # <<>> /\ producers["service"].phase = "idle")
  /\ tick => miner.mode \in {"Fixed", "Mixed"}
  /\ LET polled == Miner_poll(tick)
     IN /\ polled.ready => Len(queued) < MaxQueued
        /\ miner' = polled.miner
        /\ queued' = IF polled.ready THEN Append(queued, polled.transactions) ELSE queued
  /\ UNCHANGED <<pool, nonces, producers, submitting, accepted, chain>>

\* BlockProducer::poll_next takes the next set and spawns the mining task.
service_starts_block ==
  /\ queued # <<>> /\ producers["service"].phase = "idle"
  /\ producers' = [producers EXCEPT !["service"] =
                     [Idle EXCEPT !.phase = "mining", !.transactions = Head(queued)]]
  /\ queued' = Tail(queued)
  /\ UNCHANGED <<pool, nonces, miner, submitting, accepted, chain>>

\* mine_one, for evm_mine and anvil_mine.
evm_mine ==
  /\ "evm_mine" \in Requests
  /\ producers["api"].phase = "idle"
  /\ producers' = [producers EXCEPT !["api"] =
                     [Idle EXCEPT !.phase = "mining", !.transactions = ready_transactions(pool)]]
  /\ UNCHANGED <<pool, nonces, miner, queued, submitting, accepted, chain>>

\* Backend::mine_block under the mining lock.
mine_block(t) ==
  /\ producers[t].phase = "mining"
  /\ LET outcome == execute(producers[t].transactions, nonces)
     IN /\ nonces' = outcome.nonces
        /\ chain' = chain \o outcome.included
        /\ producers' = [producers EXCEPT ![t] =
                           [Idle EXCEPT !.phase = "mined", !.included = outcome.included,
                                        !.invalid = outcome.invalid]]
  /\ UNCHANGED <<pool, miner, queued, submitting, accepted>>

\* Pool::on_mined_block takes the pool's lock twice: for the invalid ...
removes_invalid(t) ==
  /\ producers[t].phase = "mined"
  /\ pool' = remove_invalid(pool, producers[t].invalid)
  /\ producers' = [producers EXCEPT ![t].phase = "pruning", ![t].invalid = {}]
  /\ UNCHANGED <<nonces, miner, queued, submitting, accepted, chain>>

\* ... and for the included ones.
prunes(t) ==
  /\ producers[t].phase = "pruning"
  /\ \E order \in Orders :
       pool' = prune_markers(pool, [i \in DOMAIN producers[t].included |->
                                      to_marker(producers[t].included[i])], order)
  /\ producers' = [producers EXCEPT ![t] = Idle]
  /\ UNCHANGED <<nonces, miner, queued, submitting, accepted, chain>>

-----------------------------------------------------------------------------
(* Switching the mode.  The listener goes with the mode it was made for;   *)
(* 1_000 is both the default of max_transactions and the limit given here. *)

set_mining_mode(mode) ==
  [miner EXCEPT !.mode = mode, !.has_pending_txs = "unknown", !.rx = FALSE]

anvil_set_auto_mine(enable) ==
  /\ "setAutomine" \in Requests
  /\ miner' = CASE miner.mode = "Auto" /\ ~enable -> set_mining_mode("None")
                [] miner.mode # "Auto" /\ enable -> set_mining_mode("Auto")
                [] OTHER -> miner
  /\ UNCHANGED <<pool, nonces, queued, producers, submitting, accepted, chain>>

anvil_set_interval_mining(secs) ==
  /\ "setInterval" \in Requests
  /\ miner' = set_mining_mode(IF secs = 0 THEN "None" ELSE "Fixed")
  /\ UNCHANGED <<pool, nonces, queued, producers, submitting, accepted, chain>>

Service ==
  \/ \E tick \in BOOLEAN : service_polls_miner(tick)
  \/ service_starts_block

Blocks == \E t \in Threads : mine_block(t) \/ removes_invalid(t) \/ prunes(t)

Clients ==
  \/ \E h \in Txs : begin_send_raw(h) \/ begin_send(h) \/ finish_send(h) \/ anvil_drop_transaction(h)
  \/ anvil_drop_all_transactions
  \/ evm_mine
  \/ \E enable \in BOOLEAN : anvil_set_auto_mine(enable)
  \/ \E secs \in {0, 1} : anvil_set_interval_mining(secs)

NodeNext == Service \/ Blocks \/ Clients

NodeSpec == NodeInit /\ [][NodeNext]_node_vars

\* Wakers poll the service whenever the miner or the producer can go on, and
\* a block once begun is mined and pruned; an interval goes on ticking.
\* Clients owe nothing.  Each conjunct is weak fairness, with the condition of
\* the step written out for ENABLED.
MinerCanGoOn ==
  /\ ~(queued # <<>> /\ producers["service"].phase = "idle")
  /\ LET polled == Miner_poll(FALSE)
     IN /\ polled.ready => Len(queued) < MaxQueued
        /\ polled.ready \/ polled.miner # miner

Fairness ==
  /\ []<>(~MinerCanGoOn) \/ []<><<service_polls_miner(FALSE)>>_node_vars
  /\ \/ []<>(miner.mode \notin {"Fixed", "Mixed"} \/ queued # <<>>)
     \/ []<><<service_polls_miner(TRUE)>>_node_vars
  /\ []<>(queued = <<>> \/ producers["service"].phase # "idle") \/ []<><<service_starts_block>>_node_vars
  /\ \A t \in Threads : \/ []<>(producers[t].phase = "idle")
                        \/ []<><<mine_block(t) \/ removes_invalid(t) \/ prunes(t)>>_node_vars

FairNodeSpec == NodeSpec /\ Fairness
-----------------------------------------------------------------------------
(* Properties *)

NodeTypeOK ==
  /\ miner.mode \in Modes /\ miner.has_pending_txs \in {"unknown", "yes", "no"} /\ miner.rx \in BOOLEAN
  /\ \A i \in DOMAIN queued : ToSet(queued[i]) \subseteq accepted
  /\ \A t \in Threads : /\ producers[t].phase \in {"idle", "mining", "mined", "pruning"}
                        /\ ToSet(producers[t].transactions) \subseteq accepted
                        /\ producers[t].phase = "idle" => producers[t] = Idle
  /\ DOMAIN submitting \subseteq Txs
  /\ DOMAIN pool.ready \cup DOMAIN pool.waiting \subseteq accepted

\* Between any two steps of any two threads the pool's indices agree, and what is
\* in the pool, in the queue or in a block being made was accepted before.
NodeIsConsistent == NodeTypeOK /\ PoolIndicesAgree

Promise == INSTANCE AnvilLedger WITH Genesis <- ToSet(ForceTransactions)

\* The node implements AnvilLedger: two threads that choose transactions from
\* the pool before either has mined never put one into two blocks or out of
\* order, and what is dropped, replaced or invalid meanwhile does no harm.
ImplementsLedger == Promise!Ledger

\* Once the mode stays to mine at intervals, whatever it was before and whatever
\* other clients do, no ready transaction stays ready for ever: it is
\* mined or found invalid (eth/miner.rs 221-227).
ReadyLeavesPool ==
  <>[](miner.mode = "Fixed")
    => \A h \in Txs : h \in DOMAIN pool.ready ~> h \notin DOMAIN pool.ready

\* Whichever mode is polled first, and however modes are switched before, the
\* forced transactions open the chain of a node nobody else mines for.
ForcedOpenTheChain ==
  chain # <<>> /\ ForceTransactions # <<>> => chain[1] = ForceTransactions[1]
==============================================================================
