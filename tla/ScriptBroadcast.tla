--------------------------- MODULE ScriptBroadcast ---------------------------
(***************************************************************************)
(* forge script --broadcast and --resume (crates/script: lib.rs, build.rs, *)
(* simulate.rs, broadcast.rs, progress.rs, receipts.rs, sequence.rs,       *)
(* multi_sequence.rs; crates/script-sequence/src/sequence.rs).             *)
(*                                                                         *)
(* The transactions a script collected are bundled into one sequence per   *)
(* run of the same chain, sent in batches, waited for, and recorded in a   *)
(* file after every step, so that a later process can take over.  The      *)
(* process may stop at any step, in the middle of writing the file too;    *)
(* the nodes lose transactions and answers, transactions revert, and the   *)
(* senders' accounts are used elsewhere.  A transaction is told from       *)
(* another by its place in the script, and its hash also by the gas price  *)
(* found when it was sent.                                                 *)
(***************************************************************************)
EXTENDS Integers, Sequences, FiniteSets, SequencesExt, FiniteSetsExt

CONSTANTS Deployments,  \* the scripts: [txs |-> sequence of [chain, from], slow |-> BOOLEAN,
                        \* one_by_one |-> the chains without batches or with their own gas]
          batch_size,   \* --batch-size
          Buffered,     \* sends under way at once (7 in the code)
          Prices,
          MaxCommands,  \* bound: processes started
          MaxFaults     \* bound: faults of the nodes, and crashes

VARIABLES script,       \* the deployment
          disk,         \* the files: dry-run/run-latest.json, run-latest.json
          forge,        \* the process
          nodes,        \* the nodes of the chains
          story         \* processes and faults so far, and whether one completed

script_vars == <<script, disk, forge, nodes, story>>

-----------------------------------------------------------------------------
(* The sequences. *)

\* The nonce a transaction got when the script ran.
NonceOf(k) ==
  Cardinality({j \in 1 .. k - 1 : script.txs[j] = script.txs[k]})

NewTx(k) == [id |-> k, chain |-> script.txs[k].chain, from |-> script.txs[k].from,
             nonce |-> NonceOf(k), hash |-> {}]

create_sequence(first, last) ==
  [transactions |-> [n \in 1 .. last - first + 1 |-> NewTx(first + n - 1)],
   receipts |-> << >>, pending |-> {}]

\* A sequence ends where the next transaction goes to another chain.
bundle ==
  LET N == Len(script.txs)
      ends == SetToSortSeq({k \in 1 .. N : k = N \/ script.txs[k].chain # script.txs[k + 1].chain}, <)
  IN [n \in 1 .. Len(ends) |-> create_sequence(IF n = 1 THEN 1 ELSE ends[n - 1] + 1, ends[n])]

required_addresses == {script.txs[k].from : k \in DOMAIN script.txs}

sequential_broadcast_Batched(chain) == script.slow \/ chain \in script.one_by_one

\* slow is --slow or --skip-simulation; the rest is decided for each sequence.
sequential_broadcast(chain) ==
  script.slow \/ chain \in script.one_by_one \/ Cardinality(required_addresses) # 1

Hash(tx, price) == [id |-> tx.id, chain |-> tx.chain, from |-> tx.from,
                    nonce |-> tx.nonce, price |-> price]

-----------------------------------------------------------------------------
(* The nodes.  One chain's blocks and another's interleave in `mined`. *)

Confirmed(h) == \E b \in Range(nodes.mined) : b.tx = h
Succeeded(h) == \E b \in Range(nodes.mined) : b.tx = h /\ b.ok
PlaceOf(h) == CHOOSE p \in DOMAIN nodes.mined : nodes.mined[p].tx = h

get_transaction_count(chain, from) ==
  Cardinality({p \in DOMAIN nodes.mined :
                 nodes.mined[p].tx.chain = chain /\ nodes.mined[p].tx.from = from})

Rivals(h) == {o \in nodes.mempool : o.chain = h.chain /\ o.from = h.from /\ o.nonce = h.nonce}

\* What eth_sendRawTransaction may answer, and the mempool it leaves.
Accepts(h) ==
  /\ h.nonce >= get_transaction_count(h.chain, h.from)
  /\ \A o \in Rivals(h) : o.price < h.price
Accepted(h) == (nodes.mempool \ Rivals(h)) \cup {h}

CanFail == story.faults < MaxFaults
Faulty == story' = [story EXCEPT !.faults = @ + 1]

Mine(h, ok) ==
  /\ h \in nodes.mempool
  /\ h.nonce = get_transaction_count(h.chain, h.from)
  /\ nodes' = [mempool |-> nodes.mempool \ Rivals(h), mined |-> Append(nodes.mined, [tx |-> h, ok |-> ok])]
  /\ IF ok THEN UNCHANGED story ELSE CanFail /\ Faulty
  /\ UNCHANGED <<script, disk, forge>>

Evict(h) ==
  /\ CanFail
  /\ h \in nodes.mempool
  /\ nodes' = [nodes EXCEPT !.mempool = @ \ {h}]
  /\ Faulty
  /\ UNCHANGED <<script, disk, forge>>

\* The owner of a sender's key uses it elsewhere.
UsedElsewhere(chain, from) ==
  /\ CanFail
  /\ LET other == [id |-> 0, chain |-> chain, from |-> from,
                   nonce |-> get_transaction_count(chain, from), price |-> 0]
     IN nodes' = [mempool |-> nodes.mempool \ Rivals(other),
                  mined |-> Append(nodes.mined, [tx |-> other, ok |-> TRUE])]
  /\ Faulty
  /\ UNCHANGED <<script, disk, forge>>

-----------------------------------------------------------------------------
(* The record on disk. *)

NoFile == [state |-> "none", seqs |-> << >>]
Torn == [state |-> "torn", seqs |-> << >>]
Saved(seqs) == [state |-> "saved", seqs |-> seqs]

sort_receipts(seqs) ==
  [i \in DOMAIN seqs |->
     [seqs[i] EXCEPT !.receipts = SortSeq(@, LAMBDA a, b : PlaceOf(a) < PlaceOf(b))]]

NoProcess == [pc |-> "none", then |-> "none", seqs |-> << >>, i |-> 1, index |-> 0,
              price |-> 0, sends |-> << >>, checked |-> {}, errors |-> FALSE]

\* create_file empties the file; `write` fills it again, and goes on with `then`.
save(p, then) ==
  /\ disk' = [disk EXCEPT !.latest = Torn]
  /\ forge' = [p EXCEPT !.seqs = sort_receipts(@), !.pc = "saving", !.then = then]

write ==
  /\ forge.pc = "saving"
  /\ disk' = [disk EXCEPT !.latest = Saved(forge.seqs)]
  /\ forge' = IF forge.then = "none" THEN NoProcess ELSE [forge EXCEPT !.pc = forge.then]
  /\ UNCHANGED <<script, nodes, story>>

\* An error, or the end: the sequence is dropped, which saves it.
bail(p) == save([NoProcess EXCEPT !.seqs = p.seqs], "none")

-----------------------------------------------------------------------------
(* The commands. *)

Start(seqs) == [NoProcess EXCEPT !.pc = "pending", !.seqs = seqs]
Started == story' = [story EXCEPT !.commands = @ + 1]

CanStart == forge.pc = "none" /\ story.commands < MaxCommands /\ ~story.completed

\* forge script, without --broadcast: the sequence is saved under dry-run.
simulate ==
  /\ CanStart
  /\ disk.latest.state = "none"
  /\ disk.dry_run = {}
  /\ disk' = [disk EXCEPT !.dry_run = {bundle}]
  /\ Started
  /\ UNCHANGED <<script, forge, nodes>>

\* forge script --broadcast.  A second one would be another deployment.
broadcastScript ==
  /\ CanStart
  /\ ~story.broadcasted
  /\ forge' = Start(bundle)
  /\ story' = [story EXCEPT !.commands = @ + 1, !.broadcasted = TRUE]
  /\ UNCHANGED <<script, disk, nodes>>

\* forge script --resume: the file, or what was simulated when it cannot be read.
resume ==
  /\ CanStart
  /\ \/ /\ disk.latest.state = "saved"
        /\ forge' = Start(disk.latest.seqs)
        /\ UNCHANGED disk
     \/ /\ disk.latest.state # "saved"
        /\ \E seqs \in disk.dry_run : save(Start(seqs), "pending")
  /\ story' = [story EXCEPT !.commands = @ + 1, !.broadcasted = TRUE]
  /\ UNCHANGED <<script, nodes>>

Crash ==
  /\ forge.pc # "none"
  /\ CanFail
  /\ forge' = NoProcess
  /\ Faulty
  /\ UNCHANGED <<script, disk, nodes>>

-----------------------------------------------------------------------------
(* Waiting for receipts: every pending transaction is looked up once. *)

Waiting == IF forge.pc = "pending" THEN DOMAIN forge.seqs
           ELSE IF forge.pc = "await" THEN {forge.i} ELSE {}

Unchecked(i) == forge.seqs[i].pending \ forge.checked

add_receipt(p, i, h) == [p EXCEPT !.seqs[i].receipts = Append(@, h)]
remove_pending(p, i, h) == [p EXCEPT !.seqs[i].pending = @ \ {h}]
Failed(p) == [p EXCEPT !.errors = TRUE]

\* What check_tx_status reports.  A transaction that is not confirmed is waited
\* for as long as the node answers; an error of the node passes for a dropped one.
check_tx_status(h) ==
  (IF Succeeded(h) THEN {"Success"} ELSE IF Confirmed(h) THEN {"Revert"} ELSE {})
    \cup (IF CanFail THEN {"Dropped", "Err"} ELSE {})

on_status(p, i, h, status) ==
  CASE status = "Success" -> add_receipt(remove_pending(p, i, h), i, h)
    [] status = "Revert" -> Failed(remove_pending(p, i, h))
    [] status = "Dropped" -> Failed(remove_pending(p, i, h))
    [] status = "Err" -> Failed(p)

wait_for_pending(i, h, status) ==
  /\ i \in Waiting
  /\ h \in Unchecked(i)
  /\ status \in check_tx_status(h)
  /\ forge' = [on_status(forge, i, h, status) EXCEPT !.checked = @ \cup {h}]
  /\ IF status \in {"Dropped", "Err"} THEN Faulty ELSE UNCHANGED story
  /\ UNCHANGED <<script, disk, nodes>>

\* The batch, or what an earlier process left pending, has been looked up.
Waited ==
  /\ Waiting # {}
  /\ \A i \in Waiting : Unchecked(i) = {}
  /\ IF forge.errors THEN bail(forge)
     ELSE save([forge EXCEPT !.checked = {}],
               IF forge.pc = "pending" THEN "sequence" ELSE "batch")
  /\ UNCHANGED <<script, nodes, story>>

-----------------------------------------------------------------------------
(* Broadcasting. *)

Current == forge.seqs[forge.i]

\* Mutant: the transaction after the last receipt counts as sent.
already_broadcasted_Next(seq) == Len(seq.receipts) + 1

already_broadcasted(seq) == Len(seq.receipts)

\* The transactions of the batch that starts after `index`, none sent yet.
NextBatch(index) ==
  LET size == IF sequential_broadcast(Current.transactions[1].chain) THEN 1 ELSE batch_size
  IN [n \in index + 1 .. Min({index + size, Len(Current.transactions)}) |-> {}]

\* The next sequence: its gas price is asked for once.
startSequence(price) ==
  /\ forge.pc = "sequence"
  /\ forge.i \in DOMAIN forge.seqs
  /\ LET already == already_broadcasted(Current)
     IN IF already < Len(Current.transactions)
        THEN forge' = [forge EXCEPT !.pc = "send", !.price = price, !.index = already,
                                    !.sends = NextBatch(already)]
        ELSE price = Min(Prices) /\ forge' = [forge EXCEPT !.i = @ + 1]
  /\ UNCHANGED <<script, disk, nodes, story>>

startBatch ==
  /\ forge.pc = "batch"
  /\ forge' = IF forge.index < Len(Current.transactions)
              THEN [forge EXCEPT !.pc = "send", !.sends = NextBatch(forge.index)]
              ELSE [forge EXCEPT !.pc = "sequence", !.i = @ + 1]
  /\ UNCHANGED <<script, disk, nodes, story>>

\* One send of the batch.  A sequential one first compares the account's nonce with
\* its own: ahead it fails, behind it gives up after a while.  The estimate of the
\* gas, or the call itself, may fail before the node has the transaction or after.
send_transaction(n) ==
  LET tx == Current.transactions[n]
      h == Hash(tx, forge.price)
      count == get_transaction_count(tx.chain, tx.from)
      in_turn == sequential_broadcast(tx.chain) => count = tx.nonce
      answers(ok) == forge' = [forge EXCEPT !.sends[n] = {[ok |-> ok, tx_hash |-> h]}]
  IN /\ forge.pc = "send"
     /\ n \in DOMAIN forge.sends
     /\ forge.sends[n] = {}
     /\ n <= forge.index + Buffered
     /\ \/ /\ in_turn /\ Accepts(h)
           /\ nodes' = [nodes EXCEPT !.mempool = Accepted(h)]
           /\ \/ answers(TRUE) /\ UNCHANGED story
              \/ CanFail /\ answers(FALSE) /\ Faulty
        \/ /\ answers(FALSE)
           /\ IF in_turn /\ Accepts(h) THEN CanFail /\ Faulty ELSE UNCHANGED story
           /\ UNCHANGED nodes
     /\ UNCHANGED <<script, disk>>

add_pending(p, n, h) ==
  IF h \in p.seqs[p.i].pending THEN p
  ELSE [p EXCEPT !.seqs[p.i].transactions[n].hash = {h},
                 !.seqs[p.i].pending = @ \cup {h}]

\* The answers are taken in order; the first error drops the sends under way.
tx_sent ==
  LET n == forge.index + 1 IN
  /\ forge.pc = "send"
  /\ n \in DOMAIN forge.sends
  /\ \E answer \in forge.sends[n] :
       IF answer.ok THEN save([add_pending(forge, n, answer.tx_hash) EXCEPT !.index = n], "send")
       ELSE bail(forge)
  /\ UNCHANGED <<script, nodes, story>>

batchSent ==
  /\ forge.pc = "send"
  /\ forge.index + 1 \notin DOMAIN forge.sends
  /\ save([forge EXCEPT !.sends = << >>], "await")
  /\ UNCHANGED <<script, nodes, story>>

\* "ONCHAIN EXECUTION COMPLETE & SUCCESSFUL."
complete ==
  /\ forge.pc = "sequence"
  /\ forge.i \notin DOMAIN forge.seqs
  /\ bail(forge)
  /\ story' = [story EXCEPT !.completed = TRUE]
  /\ UNCHANGED <<script, nodes>>

-----------------------------------------------------------------------------

ScriptInit ==
  /\ script \in Deployments
  /\ disk = [dry_run |-> {}, latest |-> NoFile]
  /\ forge = NoProcess
  /\ nodes = [mempool |-> {}, mined |-> << >>]
  /\ story = [commands |-> 0, faults |-> 0, broadcasted |-> FALSE, completed |-> FALSE]

NodeStep ==
  \/ \E h \in nodes.mempool : Evict(h) \/ \E ok \in BOOLEAN : Mine(h, ok)
  \/ \E t \in Range(script.txs) : UsedElsewhere(t.chain, t.from)

ForgeStep ==
  \/ simulate \/ broadcastScript \/ resume \/ Crash \/ write
  \/ \E i \in Waiting : \E h \in Unchecked(i) : \E status \in check_tx_status(h) :
       wait_for_pending(i, h, status)
  \/ Waited
  \/ \E price \in Prices : startSequence(price)
  \/ startBatch \/ batchSent \/ tx_sent \/ complete
  \/ \E n \in DOMAIN forge.sends : send_transaction(n)

ScriptNext == NodeStep \/ ForgeStep

ScriptSpec == ScriptInit /\ [][ScriptNext]_script_vars

-----------------------------------------------------------------------------
(* Properties. *)

\* A transaction is at a node only if every transaction of the sequences before
\* its own was mined and succeeded, and with --slow, with more than one sender or
\* on a chain that takes one at a time, every earlier one of its own sequence too,
\* whatever crashed, was lost or was resumed before (send_transaction, broadcast):
\* "only after its previous one has been confirmed and succeeded" (lib.rs), if
\* --slow is given to every process that resumes the script.  And no transaction
\* of any script is mined twice.
SlowSendsAfterSuccess ==
  LET MinedBefore(p, k) == \E q \in 1 .. p - 1 : nodes.mined[q].tx.id = k /\ nodes.mined[q].ok
      InTurn(k) == \/ script.slow \/ script.txs[k].chain \in script.one_by_one
                   \/ Cardinality({t.from : t \in Range(script.txs)}) > 1
      SameSequence(j, k) == \A n \in j .. k : script.txs[n].chain = script.txs[k].chain
      MustPrecede(k) == {j \in 1 .. k - 1 : InTurn(k) \/ ~SameSequence(j, k)}
  IN /\ \A p, q \in DOMAIN nodes.mined :
          nodes.mined[p].tx.id = nodes.mined[q].tx.id => p = q \/ nodes.mined[p].tx.id = 0
     /\ \A p \in DOMAIN nodes.mined : \A k \in MustPrecede(nodes.mined[p].tx.id) : MinedBefore(p, k)
     /\ \A h \in nodes.mempool : \A k \in MustPrecede(h.id) : MinedBefore(Len(nodes.mined) + 1, k)

\* When forge reports that the execution is complete and successful, the file it
\* leaves holds one receipt for each transaction, in the order of the script, of
\* the hash that is noted with the transaction, and each of them was mined and
\* succeeded (broadcast, wait_for_pending, add_pending, save).
CompleteMeansAllMined ==
  LET seqs == IF forge.pc = "saving" THEN forge.seqs ELSE disk.latest.seqs IN
  story.completed /\ (forge.pc = "saving" \/ disk.latest.state = "saved") =>
    /\ Len(seqs) = Len(bundle)
    /\ \A i \in DOMAIN seqs :
         /\ seqs[i].pending = {}
         /\ Len(seqs[i].receipts) = Len(bundle[i].transactions)
         /\ \A n \in DOMAIN seqs[i].receipts :
              /\ seqs[i].receipts[n].id = bundle[i].transactions[n].id
              /\ seqs[i].transactions[n].hash = {seqs[i].receipts[n]}
              /\ Succeeded(seqs[i].receipts[n])
=============================================================================
