----------------------------- MODULE AnvilChain -----------------------------
(***************************************************************************)
(* anvil's in-memory backend: mining a block, snapshots and reverts,       *)
(* rollbacks and reorgs, the history of states, and a restart from a state *)
(* dump (eth/backend/mem/mod.rs, mem/storage.rs, mem/in_memory_db.rs, and  *)
(* evm/core's state_snapshot.rs).                                          *)
(*                                                                         *)
(* The database is the nonce of every account; a transaction is an account *)
(* and its nonce.  Hashes are numbered in the order the blocks are made.   *)
(* Every operation takes its locks one after the other, one step each.     *)
(***************************************************************************)
EXTENDS Integers, Sequences, SequencesExt, FiniteSets, FiniteSetsExt, Functions, TLC

CONSTANTS
  Accounts,
  in_memory_limit,           \* of InMemoryBlockStates, which keeps nothing on
  max_on_disk_limit,         \* disk if max_on_disk_limit = 0
  MIN_HISTORY_LIMIT,
  transaction_block_keeper,  \* 0 for None
  Serial,                    \* whether clients and the miner wait for one another
  OnlyLiveSnapshots,         \* whether clients revert only to snapshots that are left
  MaxHashes, MaxSnapshots,   \* bounds on the blocks ever made, on the snapshots
  MaxRestarts                \* and state files, and on the restarts

ASSUME ChainAssumption ==
  /\ {max_on_disk_limit, MIN_HISTORY_LIMIT, transaction_block_keeper} \subseteq Nat
  /\ in_memory_limit \in Nat \ {0}     \* enforce_limits has no end for 0
  /\ Serial \in BOOLEAN /\ OnlyLiveSnapshots \in BOOLEAN
  /\ {MaxHashes, MaxSnapshots, MaxRestarts} \subseteq Nat

VARIABLES
  storage,    \* BlockchainStorage: blocks, hashes, best_hash, best_number, genesis_hash, transactions
  number,     \* env.block.number
  db,         \* the current state
  snapshots,  \* the database's StateSnapshots: id, state_snapshots
  active,     \* active_state_snapshots
  states,     \* InMemoryBlockStates
  mining,     \* the block being mined, under the mining lock
  request,    \* the operation a client waits for
  dump,       \* the state file
  minted,     \* the hashes handed out so far
  restarts,   \* how often the node was started again
  taken       \* history: what each snapshot was taken of

chain_vars == <<storage, number, db, snapshots, active, states, mining, request, dump, minted, restarts, taken>>

Nothing == [op |-> "none"]
Genesis(hash) ==
  [blocks |-> hash :> [number |-> 0, parent |-> hash, state_root |-> [a \in Accounts |-> 0],
                       transactions |-> <<>>],
   hashes |-> 0 :> hash, best_hash |-> hash, best_number |-> 0, genesis_hash |-> hash,
   transactions |-> <<>>]
NoStates == [memory |-> <<>>, disk |-> <<>>, present |-> <<>>, oldest_on_disk |-> <<>>,
             limit |-> in_memory_limit]

ChainInit ==
  /\ storage = Genesis(0) /\ number = 0 /\ db = [a \in Accounts |-> 0]
  /\ snapshots = [id |-> 0, state_snapshots |-> <<>>] /\ active = <<>>
  /\ states = NoStates
  /\ mining = Nothing /\ request = Nothing /\ dump = Nothing
  /\ minted = 0 /\ restarts = 0 /\ taken = <<>>

-----------------------------------------------------------------------------
(* InMemoryBlockStates.  limit only shrinks while there is a disk to use. *)

memory_only == max_on_disk_limit = 0

evict_memory(s) ==
  IF Len(s.present) < s.limit THEN s
  ELSE LET hash == Head(s.present)
           left == [s EXCEPT !.present = Tail(@), !.memory = Restrict(@, DOMAIN @ \ {hash})]
       IN IF hash \notin DOMAIN s.memory \/ memory_only THEN left
          ELSE [left EXCEPT !.disk = (hash :> s.memory[hash]) @@ @,
                            !.oldest_on_disk = Append(@, hash)]

evict_disk(s) ==
  IF memory_only \/ Len(s.oldest_on_disk) < max_on_disk_limit THEN s
  ELSE [s EXCEPT !.oldest_on_disk = Tail(@),
                 !.disk = Restrict(@, DOMAIN @ \ {Head(s.oldest_on_disk)})]

Rounds(s) == [i \in 1 .. Len(s.present) + Len(s.oldest_on_disk) |-> i]

enforce_limits(s) ==
  LET small == FoldLeft(LAMBDA t, i : evict_memory(t), s, Rounds(s))
  IN FoldLeft(LAMBDA t, i : evict_disk(t), small, Rounds(small))

insert_state(s, hash, state) ==
  LET least == Min({in_memory_limit, MIN_HISTORY_LIMIT})
      lower == IF memory_only \/ Len(s.present) < s.limit THEN s
               ELSE [s EXCEPT !.limit = Max({Max({0, @ - 1}), least})]
      room == enforce_limits(lower)
  IN [room EXCEPT !.memory = (hash :> state) @@ @, !.present = Append(@, hash)]

has_state(s, hash) == hash \in DOMAIN s.memory \cup DOMAIN s.disk
get_state(s, hash) == IF hash \in DOMAIN s.memory THEN s.memory[hash] ELSE s.disk[hash]

-----------------------------------------------------------------------------
(* BlockchainStorage *)

remove_block_transactions_by_number(st, n) ==
  IF n \notin DOMAIN st.hashes \/ st.hashes[n] \notin DOMAIN st.blocks THEN st
  ELSE [st EXCEPT !.transactions =
                     Restrict(@, DOMAIN @ \ ToSet(st.blocks[st.hashes[n]].transactions)),
                  !.blocks[st.hashes[n]].transactions = <<>>]

Above(st, n) == {i \in DOMAIN st.hashes : i > n /\ i <= st.best_number}

\* unwind_to takes the blocks out before it looks for their transactions, so
\* that these stay.
unwind_to(st, n, hash) ==
  [st EXCEPT !.hashes = Restrict(@, DOMAIN @ \ Above(st, n)),
             !.blocks = Restrict(@, DOMAIN @ \ {st.hashes[i] : i \in Above(st, n)}),
             !.best_hash = hash, !.best_number = n]

\* The loop of revert_state_snapshot, which does remove them.
revert_storage(st, n, hash) ==
  LET gone == {st.hashes[i] : i \in Above(st, n)} \cap DOMAIN st.blocks
      txs == UNION {ToSet(st.blocks[h].transactions) : h \in gone}
  IN [unwind_to(st, n, hash) EXCEPT !.transactions = Restrict(@, DOMAIN @ \ txs)]

-----------------------------------------------------------------------------
(* Mining a block: do_mine_block *)

\* Bound: a node has MaxSnapshots snapshots and state files together.
MaySave == snapshots.id + (IF dump = Nothing THEN 0 ELSE 1) < MaxSnapshots

MayStart == ~Serial \/ (mining = Nothing /\ request = Nothing)

\* Mutant: the state is entered under the parent's hash.
begin_UnderParent(by, transactions) ==
  /\ mining = Nothing
  /\ minted < MaxHashes
  /\ mining' = [op |-> "mine", by |-> by, transactions |-> transactions, phase |-> "begun",
                block_number |-> storage.best_number + 1, env_number |-> number + 1,
                parent |-> storage.best_hash]
  /\ states' = insert_state(states, storage.blocks[storage.best_hash].parent, db)
  /\ UNCHANGED <<storage, number, db, snapshots, active, request, dump, minted, restarts, taken>>

begin(by, transactions) ==
  /\ mining = Nothing
  /\ minted < MaxHashes
  /\ mining' = [op |-> "mine", by |-> by, transactions |-> transactions, phase |-> "begun",
                block_number |-> storage.best_number + 1, env_number |-> number + 1,
                parent |-> storage.best_hash]
  /\ states' = insert_state(states, storage.best_hash, db)
  /\ UNCHANGED <<storage, number, db, snapshots, active, request, dump, minted, restarts, taken>>

\* The pool offers any number of the next transactions of one account.
begin_block ==
  /\ MayStart
  /\ \E a \in Accounts, k \in 0 .. 2 : begin("miner", [i \in 1 .. k |-> <<a, db[a] + i - 1>>])

execute_transaction(st, tx) ==
  IF st.db[tx[1]] = tx[2]
  THEN [db |-> [st.db EXCEPT ![tx[1]] = @ + 1], included |-> Append(st.included, tx)]
  ELSE st

execute_block ==
  /\ mining.op = "mine" /\ mining.phase = "begun"
  /\ LET run == FoldLeft(execute_transaction, [db |-> db, included |-> <<>>], mining.transactions)
     IN /\ db' = run.db
        /\ mining' = [mining EXCEPT !.phase = "executed", !.transactions = run.included]
  /\ minted' = minted + 1
  /\ UNCHANGED <<storage, number, snapshots, active, states, request, dump, restarts, taken>>

store(st, m, hash, state) ==
  [st EXCEPT !.best_number = m.block_number, !.best_hash = hash,
             !.hashes = (m.block_number :> hash) @@ @,
             !.blocks = (hash :> [number |-> m.env_number, parent |-> m.parent, state_root |-> state,
                                  transactions |-> m.transactions]) @@ @,
             !.transactions = [t \in ToSet(m.transactions) |-> hash] @@ @]

\* transaction_block_keeper
forget_old(st) ==
  IF transaction_block_keeper # 0 /\ Cardinality(DOMAIN st.blocks) > transaction_block_keeper
  THEN remove_block_transactions_by_number(st, Max({0, st.best_number - transaction_block_keeper}))
  ELSE st

store_block ==
  /\ mining.op = "mine" /\ mining.phase = "executed"
  /\ storage' = forget_old(store(storage, mining, minted, db))
  /\ number' = mining.env_number
  /\ mining' = Nothing
  /\ request' = IF mining.by = "reorg" /\ request.op = "reorg"
                THEN IF request.left = 1 THEN Nothing ELSE [request EXCEPT !.left = @ - 1]
                ELSE request
  /\ UNCHANGED <<db, snapshots, active, states, dump, minted, restarts, taken>>

-----------------------------------------------------------------------------
(* evm_snapshot and evm_revert *)

evm_snapshot ==
  /\ MayStart /\ MaySave
  /\ LET id == snapshots.id
     IN /\ snapshots' = [id |-> id + 1, state_snapshots |-> id :> db @@ snapshots.state_snapshots]
        /\ active' = id :> [num |-> storage.best_number, hash |-> storage.best_hash] @@ active
        /\ taken' = id :> [db |-> db, hash |-> storage.best_hash] @@ taken
  /\ UNCHANGED <<storage, number, db, states, mining, request, dump, minted, restarts>>

\* A snapshot that neither an earlier revert nor a rollback has invalidated.
Live(id) == id \in DOMAIN active /\ id \in DOMAIN snapshots.state_snapshots
              /\ active[id].hash \in DOMAIN storage.blocks

\* The storage goes back first ...
revert_begin(id) ==
  /\ MayStart /\ request = Nothing
  /\ OnlyLiveSnapshots => Live(id)
  /\ active' = Restrict(active, DOMAIN active \ {id})
  /\ IF id \in DOMAIN active
     THEN /\ storage' = revert_storage(storage, active[id].num, active[id].hash)
          /\ request' = [op |-> "revert", phase |-> "storage", id |-> id, num |-> active[id].num]
     ELSE /\ request' = [op |-> "revert", phase |-> "env", id |-> id, num |-> 0]
          /\ UNCHANGED storage
  /\ UNCHANGED <<number, db, snapshots, states, mining, dump, minted, restarts, taken>>

\* ... then the environment, unless the block is not there ...
revert_env ==
  /\ request.op = "revert" /\ request.phase = "storage"
  /\ IF storage.best_hash \in DOMAIN storage.blocks
     THEN number' = request.num /\ request' = [request EXCEPT !.phase = "env"]
     ELSE request' = Nothing /\ UNCHANGED number
  /\ UNCHANGED <<storage, db, snapshots, active, states, mining, dump, minted, restarts, taken>>

\* StateSnapshots::remove, which forgets the later ones even if id is unknown.
remove_snapshot(ids, id) == {i \in ids : i < id}

\* Mutant: the state goes back to the newest snapshot.
revert_db_Newest ==
  /\ request.op = "revert" /\ request.phase = "env"
  /\ LET kept == snapshots.state_snapshots
     IN /\ db' = IF kept # <<>> THEN kept[Max(DOMAIN kept)] ELSE db
        /\ snapshots' = [snapshots EXCEPT !.state_snapshots =
                           Restrict(@, remove_snapshot(DOMAIN @, request.id))]
  /\ request' = Nothing
  /\ UNCHANGED <<storage, number, active, states, mining, dump, minted, restarts, taken>>

\* ... and the state last.
revert_db ==
  /\ request.op = "revert" /\ request.phase = "env"
  /\ LET kept == snapshots.state_snapshots
     IN /\ db' = IF request.id \in DOMAIN kept THEN kept[request.id] ELSE db
        /\ snapshots' = [snapshots EXCEPT !.state_snapshots =
                           Restrict(@, remove_snapshot(DOMAIN @, request.id))]
  /\ request' = Nothing
  /\ UNCHANGED <<storage, number, active, states, mining, dump, minted, restarts, taken>>

-----------------------------------------------------------------------------
(* anvil_rollback and anvil_reorg *)

\* The state of the common block comes from the history, or nothing happens.
rollback_db(op, depth) ==
  /\ MayStart /\ request = Nothing
  /\ storage.best_number - depth \in DOMAIN storage.hashes
  /\ LET common == storage.hashes[storage.best_number - depth]
     IN /\ common \in DOMAIN storage.blocks
        /\ has_state(states, common)
        /\ db' = get_state(states, common)
        /\ request' = [op |-> op, phase |-> "db", hash |-> common,
                       num |-> storage.blocks[common].number, left |-> depth]
  /\ UNCHANGED <<storage, number, snapshots, active, states, mining, dump, minted, restarts, taken>>

rollback_storage ==
  /\ request.op \in {"rollback", "reorg"} /\ request.phase = "db"
  /\ storage' = unwind_to(storage, request.num, request.hash)
  /\ number' = request.num
  /\ request' = IF request.op = "reorg" /\ request.left > 0
                THEN [request EXCEPT !.phase = "mining"] ELSE Nothing
  /\ UNCHANGED <<db, snapshots, active, states, mining, dump, minted, restarts, taken>>

\* The blocks of the new branch, with or without transactions.
reorg_block ==
  /\ request.op = "reorg" /\ request.phase = "mining"
  /\ \E a \in Accounts, k \in {0, 1} : begin("reorg", [i \in 1 .. k |-> <<a, db[a]>>])

-----------------------------------------------------------------------------
(* The state file: written while the node runs, read when it starts again. *)

dump_storage ==
  /\ MayStart /\ request = Nothing /\ restarts < MaxRestarts /\ MaySave
  /\ request' = [op |-> "dump", storage |-> storage, number |-> number,
                 states |-> states.memory @@ states.disk]
  /\ UNCHANGED <<storage, number, db, snapshots, active, states, mining, dump, minted, restarts, taken>>

dump_db ==
  /\ request.op = "dump"
  /\ dump' = [request EXCEPT !.op = "dumped"] @@ [db |-> db]
  /\ request' = Nothing
  /\ UNCHANGED <<storage, number, db, snapshots, active, states, mining, minted, restarts, taken>>

\* Mutant: the node goes on from its own genesis block.
load_blocks_KeepsBest(fresh, old) ==
  {[fresh EXCEPT !.blocks = old.blocks @@ @, !.hashes = old.hashes @@ @, !.transactions = old.transactions @@ @]}

\* load_blocks and load_transactions, into a storage with a genesis block of
\* its own; the order the blocks come in decides between two of one number.
load_blocks(fresh, old) ==
  LET numbers == {old.blocks[h].number : h \in DOMAIN old.blocks}
  IN {[fresh EXCEPT !.blocks = old.blocks @@ @, !.hashes = hashes @@ @,
                    !.transactions = old.transactions @@ @,
                    !.best_number = old.best_number, !.best_hash = (hashes @@ fresh.hashes)[old.best_number]] :
        hashes \in {f \in [numbers -> DOMAIN old.blocks] : \A n \in numbers : old.blocks[f[n]].number = n}}

restart ==
  /\ MayStart /\ dump # Nothing /\ minted < MaxHashes /\ restarts < MaxRestarts
  /\ storage' \in load_blocks(Genesis(minted + 1), dump.storage)
  /\ number' = dump.number
  /\ db' = dump.db
  /\ snapshots' = [id |-> 0, state_snapshots |-> <<>>] /\ active' = <<>> /\ taken' = <<>>
  /\ \E order \in SetToSeqs(DOMAIN dump.states) :
       states' = FoldLeft(LAMBDA s, hash : insert_state(s, hash, dump.states[hash]), NoStates, order)
  /\ mining' = Nothing /\ request' = Nothing
  /\ minted' = minted + 1 /\ restarts' = restarts + 1
  /\ UNCHANGED dump

ChainNext ==
  \/ begin_block \/ execute_block \/ store_block
  \/ evm_snapshot \/ revert_env \/ revert_db
  \/ \E id \in 0 .. MaxSnapshots - 1 : revert_begin(id)
  \/ \E op \in {"rollback", "reorg"}, depth \in 0 .. MaxHashes : rollback_db(op, depth)
  \/ rollback_storage \/ reorg_block
  \/ dump_storage \/ dump_db \/ restart

ChainSpec == ChainInit /\ [][ChainNext]_chain_vars
-----------------------------------------------------------------------------
(* Properties *)

Hashes == 0 .. MaxHashes
ChainQuiet == mining = Nothing /\ request = Nothing

ChainTypeOK ==
  /\ DOMAIN storage.blocks \subseteq Hashes /\ storage.best_hash \in Hashes
  /\ storage.best_number \in Nat /\ number \in Nat
  /\ db \in [Accounts -> Nat]
  /\ DOMAIN states.memory \subseteq ToSet(states.present)
  /\ DOMAIN states.disk \subseteq ToSet(states.oldest_on_disk)

\* Whenever no operation is under way, the chain hangs together: the blocks from
\* genesis to the best one are stored, each under its number and on top of its
\* parent, the next block's number follows the best one, and every transaction
\* of a block can be looked up in it.  Not that the first block is on top of the
\* one of number 0 after a second restart: the state file then has two of these
\* and the order of a hash map decides (load_blocks).
ChainHangsTogether ==
  ChainTypeOK /\ (ChainQuiet =>
    /\ DOMAIN storage.hashes = 0 .. storage.best_number
    /\ storage.hashes[storage.best_number] = storage.best_hash
    /\ number = storage.best_number
    /\ \A n \in DOMAIN storage.hashes :
         /\ storage.hashes[n] \in DOMAIN storage.blocks
         /\ storage.blocks[storage.hashes[n]].number = n
         /\ n > 1 \/ (n = 1 /\ restarts <= 1)
              => storage.blocks[storage.hashes[n]].parent = storage.hashes[n - 1]
         /\ \A t \in ToSet(storage.blocks[storage.hashes[n]].transactions) :
              t \in DOMAIN storage.transactions /\ storage.transactions[t] = storage.hashes[n])

\* The state clients see is the one the best block ended in.
StateIsOfBestBlock == ChainQuiet => db = storage.blocks[storage.best_hash].state_root

\* ... and what the history says about a block of the chain is the state the
\* block ended in, whatever was reverted or mined again in between.
StatesAreOfTheirBlocks ==
  StateIsOfBestBlock /\ (ChainQuiet =>
    \A n \in 0 .. storage.best_number - 1 :
      LET hash == storage.hashes[n]
      IN has_state(states, hash) => get_state(states, hash) = storage.blocks[hash].state_root)

\* A revert gives back the block and the state the snapshot was taken of.
RevertRestores ==
  [][request.op = "revert" /\ request.id \in DOMAIN taken /\ revert_db =>
       db' = taken[request.id].db /\ storage.best_hash = taken[request.id].hash]_chain_vars
==============================================================================
