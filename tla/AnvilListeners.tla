--------------------------- MODULE AnvilListeners ---------------------------
(***************************************************************************)
(* What hears of a new block in anvil: the fee of the next block and the   *)
(* service that caches the fee history (eth/fees.rs), the log filters that *)
(* clients poll (filter.rs, eth/api.rs), and the notifications in between. *)
(*                                                                         *)
(* A block is the record of its number, its base fee and its transactions; *)
(* a transaction is the gas it used.  Hashes are numbered in the order the *)
(* blocks are made.  A block with transactions has one log, named by its   *)
(* hash.                                                                   *)
(***************************************************************************)
EXTENDS Integers, Sequences, SequencesExt, FiniteSets, FiniteSetsExt, Functions, TLC, Maps

CONSTANTS
  Bodies,              \* the transactions a block may have
  fee_history_limit,
  MAX_BLOCK_COUNT,     \* of one eth_feeHistory
  block_gas,
  initial_base_fee,
  Fees,                \* the base fees clients set
  keepalive,
  MaxMade, MaxClock

ASSUME ListenersAssumption ==
  /\ Bodies \subseteq Seq([gas : Nat \ {0}])
  /\ fee_history_limit \in Nat \ {0} /\ MAX_BLOCK_COUNT \in Nat \ {0}
  /\ block_gas \in Nat \ {0, 1}   \* calc_next_block_base_fee divides by half of it
  /\ initial_base_fee \in Nat /\ Fees \subseteq Nat
  /\ {keepalive, MaxMade, MaxClock} \subseteq Nat

VARIABLES
  chain,       \* the hashes of the blocks; chain[1] is genesis, number 0
  blocks,      \* the stored blocks
  base_fee,    \* of the next block
  making,      \* the block in the making
  heard,       \* the notifications the fee history service has not taken yet
  cache,       \* FeeHistoryCache
  filter,      \* a log filter: its state, its historic logs, its notifications
  delivered,   \* history: the logs clients got from the filter
  polled,      \* history: when the filter was last polled
  clock, made,
  history      \* whether a revert has cut the chain, and whether the filter
               \* was installed while a block was made

listener_vars == <<chain, blocks, base_fee, making, heard, cache, filter, delivered, polled, clock, made, history>>

Idle == [phase |-> "idle"]
NoFilter == [phase |-> "none", historic |-> <<>>, blocks |-> <<>>, deadline |-> 0]

ListenersInit ==
  /\ chain = <<0>> /\ blocks = [hash \in {0} |-> [number |-> 0, base_fee |-> initial_base_fee, transactions |-> <<>>]]
  /\ base_fee = initial_base_fee /\ making = Idle
  /\ heard = <<>> /\ cache = <<>>
  /\ filter = NoFilter /\ delivered = <<>> /\ polled = 0
  /\ clock = 0 /\ made = 0 /\ history = [reverted |-> FALSE, overlapped |-> FALSE]

best_number == Len(chain) - 1
AddGas(g, t) == g + t.gas
gas_used(txs) == FoldLeft(AddGas, 0, txs)

\* The loops that push what they find: the members of s that are in S.
Found(s, S) ==
  LET push(found, x) == IF x \in S THEN Append(found, x) ELSE found
  IN  FoldLeft(push, <<>>, s)

-----------------------------------------------------------------------------
(* Fees *)

\* alloy's calc_next_block_base_fee with the parameters of Ethereum.
calc_next_block_base_fee(used, limit, fee) ==
  LET target == limit \div 2
  IN IF used = target THEN fee
     ELSE IF used > target THEN fee + Max({1, ((fee * (used - target)) \div target) \div 8})
     ELSE fee - (((fee * (target - used)) \div target) \div 8)

\* A fee of 0 was set by a client and stays.
get_next_block_base_fee_per_gas(used, fee) ==
  IF base_fee = 0 THEN 0 ELSE calc_next_block_base_fee(used, block_gas, fee)

\* The rewards of the entry and the blob fees are left out.
create_cache_entry(hash) == [hash |-> hash, base_fee |-> blocks[hash].base_fee]

\* Mutant: a block is looked up by its number only once.
insert_cache_entry_Once(c, hash) ==
  LET number == blocks[hash].number
  IN IF number \in DOMAIN c THEN c ELSE Insert(c, number, create_cache_entry(hash))

\* The keys below pop_next wrap around and are not there.
insert_cache_entry(c, hash) ==
  LET number == blocks[hash].number
      more == Insert(c, number, create_cache_entry(hash))
      pop_next == Max({0, number - fee_history_limit})
      num_remove == Max({0, Cardinality(DOMAIN more) - fee_history_limit})
  IN Restrict(more, DOMAIN more \ {pop_next - n : n \in 0 .. num_remove - 1})

\* A block that is not stored any more is passed over.
insert_if_stored(c, hash) == IF hash \in DOMAIN blocks THEN insert_cache_entry(c, hash) ELSE c

\* FeeHistoryService::poll takes all the notifications there are.
fee_history_poll ==
  /\ heard # <<>>
  /\ cache' = FoldLeft(insert_if_stored, cache, heard)
  /\ heard' = <<>>
  /\ UNCHANGED <<chain, blocks, base_fee, making, filter, delivered, polled, clock, made, history>>

\* eth_feeHistory for block_count blocks up to highest, which may be any number.
lowest_block(block_count, highest) ==
  Max({0, highest - Max({0, Min({block_count, MAX_BLOCK_COUNT}) - 1})})

fee_history_accepts(block_count, highest) ==
  lowest_block(block_count, highest) >= Max({0, best_number - fee_history_limit})

\* The base fees it returns.
fee_history(block_count, highest) ==
  LET lowest == lowest_block(block_count, highest)
      found == Found([i \in 1 .. highest - lowest + 1 |-> lowest + i - 1], DOMAIN cache)
  IN Append([i \in 1 .. Len(found) |-> cache[found[i]].base_fee], base_fee)

-----------------------------------------------------------------------------
(* Blocks *)

begins_block(txs) ==
  /\ making = Idle /\ made < MaxMade
  /\ making' = [phase |-> "executing", transactions |-> txs, base_fee |-> base_fee]
  /\ made' = made + 1
  /\ history' = [history EXCEPT !.overlapped = @ \/ filter.phase = "reading"]
  /\ UNCHANGED <<chain, blocks, base_fee, heard, cache, filter, delivered, polled, clock>>

stores_block ==
  /\ making.phase = "executing"
  /\ chain' = Append(chain, made)
  /\ blocks' = Insert(blocks, made, [number |-> Len(chain), base_fee |-> making.base_fee,
                                     transactions |-> making.transactions])
  /\ making' = [making EXCEPT !.phase = "stored"]
  /\ UNCHANGED <<base_fee, heard, cache, filter, delivered, polled, clock, made, history>>

\* Mutant: only the fee history service hears of the block.
notify_on_new_block_ServiceOnly ==
  /\ making.phase = "stored"
  /\ base_fee' = get_next_block_base_fee_per_gas(gas_used(making.transactions), making.base_fee)
  /\ heard' = Append(heard, made)
  /\ making' = Idle
  /\ UNCHANGED <<chain, blocks, cache, filter, delivered, polled, clock, made, history>>

\* The next fee is set and everyone who listens is told, after the block is there.
notify_on_new_block ==
  /\ making.phase = "stored"
  /\ base_fee' = get_next_block_base_fee_per_gas(gas_used(making.transactions), making.base_fee)
  /\ heard' = Append(heard, made)
  /\ filter' = IF filter.phase = "active" THEN [filter EXCEPT !.blocks = Append(@, made)] ELSE filter
  /\ making' = Idle
  /\ UNCHANGED <<chain, blocks, cache, delivered, polled, clock, made, history>>

\* evm_revert, as far as blocks go; nothing is said and the fee stays.  Bound:
\* one revert.
revert(n) ==
  /\ making = Idle /\ n < Len(chain) /\ ~history.reverted
  /\ chain' = SubSeq(chain, 1, n)
  /\ blocks' = Restrict(blocks, ToSet(chain'))
  /\ history' = [history EXCEPT !.reverted = TRUE]
  /\ UNCHANGED <<base_fee, making, heard, cache, filter, delivered, polled, clock, made>>

anvil_set_next_block_base_fee_per_gas(fee) ==
  /\ base_fee' = fee
  /\ UNCHANGED <<chain, blocks, making, heard, cache, filter, delivered, polled, clock, made, history>>

-----------------------------------------------------------------------------
(* Log filters *)

LogsOf(hashes) == Found(hashes, {h \in DOMAIN blocks : blocks[h].transactions # <<>>})

\* eth_newFilter reads the logs there are ...
new_filter_reads ==
  /\ filter.phase = "none" /\ delivered = <<>>
  /\ filter' = [filter EXCEPT !.phase = "reading", !.historic = LogsOf(chain)]
  /\ history' = [history EXCEPT !.overlapped = making # Idle]
  /\ UNCHANGED <<chain, blocks, base_fee, making, heard, cache, delivered, clock, made, polled>>

\* ... and starts to listen.
new_filter_listens ==
  /\ filter.phase = "reading"
  /\ filter' = [filter EXCEPT !.phase = "active", !.deadline = clock + keepalive]
  /\ polled' = clock
  /\ UNCHANGED <<chain, blocks, base_fee, making, heard, cache, delivered, clock, made, history>>

\* Mutant: the deadline is not put off.
get_filter_changes_SameDeadline ==
  /\ filter.phase = "active"
  /\ delivered' = delivered \o filter.historic \o LogsOf(filter.blocks)
  /\ filter' = [filter EXCEPT !.historic = <<>>, !.blocks = <<>>]
  /\ polled' = clock
  /\ UNCHANGED <<chain, blocks, base_fee, making, heard, cache, clock, made, history>>

get_filter_changes ==
  /\ filter.phase = "active"
  /\ delivered' = delivered \o filter.historic \o LogsOf(filter.blocks)
  /\ filter' = [filter EXCEPT !.historic = <<>>, !.blocks = <<>>, !.deadline = clock + keepalive]
  /\ polled' = clock
  /\ UNCHANGED <<chain, blocks, base_fee, making, heard, cache, clock, made, history>>

\* The service looks for filters nobody polls, once per keepalive.  Time passes
\* for filters only.
tick_and_evict ==
  /\ clock < MaxClock /\ filter.phase = "active"
  /\ LET evicts == (clock + 1) % keepalive = 0 /\ clock + 1 > filter.deadline
     IN /\ filter' = IF evicts THEN [NoFilter EXCEPT !.phase = "evicted"] ELSE filter
        /\ delivered' = IF evicts THEN <<>> ELSE delivered
  /\ clock' = clock + 1
  /\ UNCHANGED <<chain, blocks, base_fee, making, heard, cache, polled, made, history>>

ListenersNext ==
  \/ \E txs \in Bodies : begins_block(txs)
  \/ stores_block \/ notify_on_new_block
  \/ \E n \in 1 .. MaxMade : revert(n)
  \/ \E fee \in Fees : anvil_set_next_block_base_fee_per_gas(fee)
  \/ fee_history_poll
  \/ new_filter_reads \/ new_filter_listens \/ get_filter_changes \/ tick_and_evict

ListenersSpec == ListenersInit /\ [][ListenersNext]_listener_vars

-----------------------------------------------------------------------------
(* Properties *)

CaughtUp == making = Idle /\ heard = <<>>

ListenersTypeOK ==
  /\ ToSet(chain) = DOMAIN blocks /\ base_fee \in Nat
  /\ \A n \in DOMAIN cache : n \in Nat /\ cache[n].hash \in 1 .. MaxMade
  /\ \A i \in 1 .. Len(chain) : blocks[chain[i]].number = i - 1

\* Once the service has caught up, what the cache holds for a block of the chain
\* is that block's, also where blocks were reverted and mined anew.  As long as
\* the chain only grows the cache keeps to its limit (eth/fees.rs 339), and asked
\* for blocks that are among the newest, as many as the limit, eth_feeHistory
\* accepts and answers with the base fee of each and of the next block: as many as
\* were asked for, at least one and at most MAX_BLOCK_COUNT (eth/api.rs 1374-1431).
FeeHistoryIsTrue ==
  /\ ListenersTypeOK
  /\ CaughtUp =>
       /\ \A n \in DOMAIN cache \cap 0 .. best_number : cache[n].hash = chain[n + 1]
       /\ ~history.reverted =>
            /\ Cardinality(DOMAIN cache) <= fee_history_limit
            /\ \A count \in 0 .. fee_history_limit + 1, high \in 1 .. best_number :
                 LET n == Max({1, Min({count, MAX_BLOCK_COUNT})})
                 IN high - n >= Max({0, best_number - fee_history_limit}) =>
                      /\ fee_history_accepts(count, high)
                      /\ fee_history(count, high) =
                           Append([i \in 1 .. n |-> blocks[chain[high - n + i + 1]].base_fee], base_fee)

\* A filter returns "all the logs since the last time this filter was polled"
\* (filter.rs 164): its clients get no log twice, the logs in the order of the
\* blocks, and none of the chain is missed, if the filter was installed between
\* two blocks.
LogsArriveOnce ==
  ~history.overlapped =>
    /\ \A i, j \in 1 .. Len(delivered) : i < j => delivered[i] < delivered[j]
    /\ making = Idle /\ filter.phase = "active" =>
         ToSet(LogsOf(chain)) \subseteq ToSet(delivered) \cup ToSet(filter.historic) \cup ToSet(filter.blocks)

\* Only a filter that was not polled for the time of keepalive is evicted.
PolledStaysActive ==
  [][filter.phase = "active" /\ filter'.phase = "evicted" => clock' - polled > keepalive]_listener_vars
==============================================================================
