----------------------------- MODULE ForkBackend -----------------------------
(***************************************************************************)
(* The database behind every test and script of forge: one in-memory       *)
(* database, any number of forks of remote chains of which at most one is  *)
(* active, the journal of the running transaction, snapshots of all of     *)
(* that, and the handler that all the copies of a backend share            *)
(* (crates/evm/core: backend/mod.rs, backend/strategy.rs, backend/cow.rs,  *)
(* backend/snapshot.rs, state_snapshot.rs, fork/multi.rs; the cheatcodes   *)
(* of crates/cheatcodes/src/evm/fork.rs; the executor of                   *)
(* crates/evm/evm/src/executors/mod.rs).                                   *)
(*                                                                         *)
(* An account has two cells: its info, and one storage slot that is read   *)
(* and written apart.  A value says where it comes from: the n-th local    *)
(* write, a chain at a block, or nowhere.  Of the block environment only   *)
(* the number is kept.                                                     *)
(***************************************************************************)
EXTENDS Integers, Sequences, FiniteSets, Functions, FiniteSetsExt, Maps

CONSTANTS VmAccount,  \* the cheatcode account, whose slot is the failure flag
          Caller,     \* the sender of the transactions
          Accounts,   \* the contracts of the chains
          Deployed,   \* a contract the test deploys: on no chain
          Urls, Blocks, Rolls,
          Scripts,    \* the groups of steps a test is made of
          Kinds,      \* how the executor runs transactions: "transact", "call"
          MaxForks, MaxSnapshots, MaxWrites, MaxRuns, MaxSteps

ASSUME ForkAssumption == VmAccount \notin Accounts \cup {Deployed, Caller}

VARIABLES backend,    \* struct Backend
          journal,    \* the accounts of the JournaledState of the transaction
          block,      \* env.block.number
          handler,    \* MultiForkHandler.forks: the block number of each fork
          executor,   \* the backend and block a call leaves unchanged
          memory      \* what the test did

fork_vars == <<backend, journal, block, handler, executor, memory>>

TestContract == "test contract"

TheOne(S) == CHOOSE x \in S : TRUE

Nowhere == <<"nowhere">>
Written(n) == <<"wrote", n>>
ChainValue(remote, a) ==
  IF remote = {} \/ a \in {VmAccount, Deployed} THEN Nowhere
  ELSE <<"chain", TheOne(remote).url, TheOne(remote).number>>

-----------------------------------------------------------------------------
(* Reading: the journal, then the cache, then the chain. *)

basic(db, a) == IF a \in DOMAIN db.accounts THEN db.accounts[a].info ELSE ChainValue(db.remote, a)

storage(db, a) ==
  IF a \in DOMAIN db.accounts /\ db.accounts[a].slot # {} THEN TheOne(db.accounts[a].slot)
  ELSE ChainValue(db.remote, a)

NewDb(remote) == [accounts |-> << >>, remote |-> remote]

\* A read keeps what it fetched in the cache.
cached(db, a, cells) ==
  [db EXCEPT !.accounts =
     Insert(@, a, [info |-> basic(db, a),
                   slot |-> IF "slot" \in cells THEN {storage(db, a)}
                            ELSE IF a \in DOMAIN @ THEN @[a].slot ELSE {}])]

Loaded(info) == [info |-> info, slot |-> {}, created |-> FALSE, touched |-> FALSE]

load_account(j, db, a) == IF a \in DOMAIN j THEN j ELSE Insert(j, a, Loaded(basic(db, a)))

InForkMode == backend.active # {}
ActiveIdx(b) == TheOne(b.active)[2]
db_of(b) == IF b.active = {} THEN b.mem_db ELSE b.forks[ActiveIdx(b)].db
with_db(b, db) == IF b.active = {} THEN [b EXCEPT !.mem_db = db]
                  ELSE [b EXCEPT !.forks[ActiveIdx(b)].db = db]

SlotShown(j, db, a) ==
  IF a \in DOMAIN j /\ j[a].slot # {} THEN TheOne(j[a].slot) ELSE storage(db, a)
InfoShown(j, db, a) == IF a \in DOMAIN j THEN j[a].info ELSE basic(db, a)

\* Every transaction loads its sender, whose nonce it takes.
NewTransaction(b) ==
  [a \in {Caller} |-> [info |-> basic(db_of(b), Caller), slot |-> {}, created |-> FALSE, touched |-> TRUE]]

NewBackend ==
  [mem_db |-> [accounts |-> [a \in {VmAccount} |-> [info |-> Nowhere, slot |-> {}]], remote |-> {}],
   fork_init |-> << >>, active |-> {}, issued |-> << >>, created |-> << >>, forks |-> << >>,
   snapshots |-> << >>, next_snapshot |-> 0, persistent |-> {VmAccount, TestContract}, failure |-> FALSE]

ForkInit ==
  /\ backend = NewBackend
  /\ journal = NewTransaction(NewBackend)
  /\ block = 0
  /\ handler = << >>
  /\ executor = [kind |-> "transact", backend |-> NewBackend, block |-> 0, memory |-> {}]
  /\ \E script \in Scripts :
     memory = [script |-> script, steps |-> 0, runs |-> 1, wrote |-> << >>, shared |-> {VmAccount, TestContract, Caller},
               last |-> [id \in {0} |-> << >>], failed |-> "no", snapped |-> << >>]

-----------------------------------------------------------------------------
(* MultiForkHandler: a fork of a chain at a block that exists already gets  *)
(* an identifier of its own, and the options of the one that exists.        *)

\* Mutant: the same chain and block give the same identifier.
inc_senders_Same(h, url, number) == <<url, number, 0>>

inc_senders(h, url, number) ==
  <<url, number, Cardinality({f \in DOMAIN h : f[1] = url /\ f[2] = number})>>

insert_new_fork(h, url, number) ==
  LET base == <<url, number, 0>>
  IN  IF base \in DOMAIN h THEN [id |-> inc_senders(h, url, number), number |-> h[base]]
      ELSE [id |-> base, number |-> number]

update_block(h, id, n) == [h EXCEPT ![id] = n]

-----------------------------------------------------------------------------
(* Merging accounts from one fork into another. *)

MergedSlot(from, into, a) ==
  IF from[a].slot # {} \/ a \notin DOMAIN into THEN from[a].slot ELSE into[a].slot

merge_journaled_state_data(accounts, from, into) ==
  Over([a \in accounts \cap DOMAIN from |-> [from[a] EXCEPT !.slot = MergedSlot(from, into, a)]], into)

merge_db_account_data(accounts, from, into) ==
  [into EXCEPT !.accounts =
    Over([a \in accounts \cap DOMAIN from.accounts |->
            [from.accounts[a] EXCEPT !.slot = MergedSlot(from.accounts, into.accounts, a)]], @)]

\* update_fork_db: what the target fork gets of the persistent accounts.
update_fork_db(b, j, fork) ==
  [fork EXCEPT !.db = merge_db_account_data(b.persistent, db_of(b), @),
               !.journal = merge_journaled_state_data(b.persistent, j, @)]

reread(db, S) == [db EXCEPT !.accounts = Over([a \in S |-> cached(db, a, {}).accounts[a]], @)]

\* Before the first fork is selected the journal holds for every fork, but an
\* account that was only loaded gets the info it has on the chain.
prepare_init_journal_state(b, j) ==
  LET replaced == {a \in DOMAIN j : a \notin b.persistent /\ ~j[a].created}
  IN  [k \in DOMAIN b.forks |->
        [b.forks[k] EXCEPT
          !.journal = [a \in DOMAIN j |->
                         IF a \in replaced THEN [j[a] EXCEPT !.info = basic(b.forks[k].db, a)] ELSE j[a]],
          !.db = reread(@, replaced), !.fresh = FALSE]]

\* A fork selected for the first time gets the sender as it is on its chain.
init_caller(fork, j) ==
  IF ~fork.fresh \/ Caller \notin DOMAIN j THEN fork
  ELSE [fork EXCEPT !.journal = Insert(@, Caller, [j[Caller] EXCEPT !.info = basic(fork.db, Caller)]),
                    !.db = cached(@, Caller, {})]

\* A fork without the sender gets it as it is on the active one.
ensure_caller(fork, j) ==
  LET info == IF Caller \in DOMAIN j THEN j[Caller].info ELSE Nowhere
  IN  IF Caller \in DOMAIN fork.journal THEN fork
      ELSE [fork EXCEPT !.journal = Insert(@, Caller, Loaded(info)),
                        !.db.accounts = Over(@, [a \in {Caller} |-> [info |-> info, slot |-> {}]])]

\* b with the fork id active, saved being b with the journal j kept.
switched(b, saved, j, id) ==
  LET idx == b.created[b.issued[id]]
      c == IF b.active = {}
           THEN [b EXCEPT !.fork_init = j, !.forks = prepare_init_journal_state(b, j)]
           ELSE [saved EXCEPT !.forks[idx] = init_caller(@, j)]
      fork == update_fork_db(c, j, ensure_caller([c.forks[idx] EXCEPT !.fresh = FALSE], j))
  IN  [c EXCEPT !.forks[idx] = fork, !.active = {<<id, idx>>}]

\* Mutant: the journal of the fork that was active is not kept.
select_fork_Forgets(b, j, id) == switched(b, b, j, id)

select_fork(b, j, id) ==
  switched(b, IF b.active = {} THEN b ELSE [b EXCEPT !.forks[ActiveIdx(b)].journal = j], j, id)

\* BackendInner::roll_fork: a new cache that keeps the persistent accounts.
rolled(b, id, new) ==
  LET idx == b.created[b.issued[id]]
      db == merge_db_account_data(b.persistent, b.forks[idx].db, NewDb({[url |-> new[1], number |-> new[2]]}))
  IN  [b EXCEPT !.forks[idx].db = db, !.issued[id] = new, !.created = Insert(@, new, idx)]

\* What is left of the journal j when the active fork is rolled.
rolled_journal(b, j) ==
  LET kept == merge_journaled_state_data(b.persistent \cup {Caller}, j, b.fork_init)
      made == {a \in DOMAIN j : j[a].created /\ j[a].touched}
      whole == merge_journaled_state_data(made, j, kept)
  IN  Over(whole, [a \in {x \in DOMAIN j : ~j[x].created} |-> Loaded(basic(db_of(b), a))])

create_db_snapshot(b) ==
  IF b.active = {} THEN [mem_db |-> b.mem_db, fork |-> {}]
  ELSE LET id == TheOne(b.active)[1]
       IN  [mem_db |-> NewDb({}),
            fork |-> {[id |-> id, fork_id |-> b.issued[id], idx |-> ActiveIdx(b), fork |-> b.forks[ActiveIdx(b)]]}]

\* The failure flag: set in the journal, or in the database.
FlagSet(v) == v # Nowhere
FailedInJournal(j) == VmAccount \in DOMAIN j /\ \E v \in j[VmAccount].slot : FlagSet(v)

\* Of a snapshot without a fork only the database comes back: the fork that
\* is active stays so.
revert_state_snapshot(b, snap) ==
  IF snap.db.fork = {} THEN [b EXCEPT !.mem_db = snap.db.mem_db]
  ELSE LET f == TheOne(snap.db.fork)
       IN  [b EXCEPT !.created = Insert(@, f.fork_id, f.idx), !.issued[f.id] = f.fork_id,
                     !.forks[f.idx] = f.fork, !.active = {<<f.id, f.idx>>}]

\* Mutant: what failed before the revert is forgotten.
revert_state_Forgets(b, j, n, keep) ==
  revert_state_snapshot([b EXCEPT !.snapshots = IF keep THEN @ ELSE Restrict(@, DOMAIN @ \ {n})],
                        b.snapshots[n])

revert_state(b, j, n, keep) ==
  revert_state_snapshot([b EXCEPT !.snapshots = IF keep THEN @ ELSE Restrict(@, DOMAIN @ \ {n}),
                                  !.failure = @ \/ FailedInJournal(j)],
                        b.snapshots[n])

commit(b, j) ==
  LET touched == {a \in DOMAIN j : j[a].touched}
      db == db_of(b)
  IN  with_db(b, [db EXCEPT !.accounts =
        Over([a \in touched |-> [info |-> j[a].info,
                                 slot |-> IF j[a].created THEN j[a].slot
                                          ELSE MergedSlot(j, db.accounts, a)]], @)])

FailedInDb(b) == FlagSet(storage(db_of(b), VmAccount))

\* is_raw_call_success looks at the result of the transaction, and at the
\* executor's own backend: a transaction runs on it, a call on a copy.
is_success ==
  /\ ~backend.failure
  /\ ~FailedInJournal(journal)
  /\ ~FailedInDb(IF executor.kind = "transact" THEN backend ELSE executor.backend)

-----------------------------------------------------------------------------
(* The steps of the running transaction.  memory.wrote says on which fork    *)
(* each write was made (0: on none), memory.last what each fork was last     *)
(* told, as far as switching, rolling and reverting keep it.                 *)

OwnerOf(b) == IF b.active = {} THEN 0 ELSE TheOne(b.active)[1]
Owner == OwnerOf(backend)
SlotsIn(j) == {a \in DOMAIN j : j[a].slot # {}}
Stepped == [memory EXCEPT !.steps = @ + 1]
CanStep(group) == memory.steps < MaxSteps /\ group \in memory.script \cup {"fork"}

\* A test that may fail also reads the flag.
Load(a, cells) ==
  /\ CanStep(IF a = VmAccount THEN "fail" ELSE "load")
  /\ a \notin IF "slot" \in cells THEN SlotsIn(journal) ELSE DOMAIN journal
  /\ journal' = LET j == load_account(journal, db_of(backend), a)
                IN  IF "slot" \in cells THEN [j EXCEPT ![a].slot = {storage(db_of(backend), a)}] ELSE j
  /\ backend' = with_db(backend, cached(db_of(backend), a, cells))
  /\ memory' = Stepped
  /\ UNCHANGED <<block, handler, executor>>

CanWrite(group) == CanStep(group) /\ Len(memory.wrote) < MaxWrites
Wrote == [Stepped EXCEPT !.wrote = Append(@, Owner)]

\* A contract stores to its slot, or a cheatcode sets what info holds.
Write(a, cell) ==
  LET n == Len(memory.wrote) + 1
      j == [load_account(journal, db_of(backend), a) EXCEPT ![a].touched = TRUE]
  IN  /\ CanWrite("write")
      /\ backend' = with_db(backend, cached(db_of(backend), a, {cell}))
      /\ \/ /\ cell = "slot"
            /\ journal' = [j EXCEPT ![a].slot = {Written(n)}]
            /\ memory' = [Wrote EXCEPT !.last[Owner] = Insert(@, a, Written(n))]
         \/ /\ cell = "info"
            /\ journal' = [j EXCEPT ![a].info = Written(n)]
            /\ memory' = Wrote
      /\ UNCHANGED <<block, handler, executor>>

Deploy ==
  LET n == Len(memory.wrote) + 1
  IN  /\ CanWrite("deploy")
      /\ InfoShown(journal, db_of(backend), Deployed) = Nowhere
      /\ journal' = Insert(journal, Deployed, [info |-> Written(n), slot |-> {}, created |-> TRUE, touched |-> TRUE])
      /\ memory' = Wrote
      /\ UNCHANGED <<backend, block, handler, executor>>

\* An assertion fails: the flag in the slot of the cheatcode account is set.
\* memory.failed says whether one did, in this transaction or in an earlier one.
Fail ==
  /\ CanWrite("fail") /\ memory.failed # "now"
  /\ journal' = LET j == load_account(journal, db_of(backend), VmAccount)
                IN  [j EXCEPT ![VmAccount].slot = {Written(Len(memory.wrote) + 1)}, ![VmAccount].touched = TRUE]
  /\ memory' = [Wrote EXCEPT !.failed = "now"]
  /\ UNCHANGED <<backend, block, handler, executor>>

roll(n) ==
  /\ CanStep("roll") /\ block # n
  /\ block' = n
  /\ memory' = Stepped
  /\ UNCHANGED <<backend, journal, handler, executor>>

-----------------------------------------------------------------------------
(* The fork cheatcodes.  Each makes the contract that uses it persistent: the *)
(* test, or one that was deployed.                                            *)

Users == {TestContract} \cup {a \in {Deployed} : InfoShown(journal, db_of(backend), a) # Nowhere}

persist_caller(by) == [backend EXCEPT !.persistent = @ \cup {by}]
Shared(by) == [Stepped EXCEPT !.shared = @ \cup {by}]

createFork(url, number, by) ==
  LET new == insert_new_fork(handler, url, number)
      id == Len(backend.issued) + 1
      fork == [db |-> NewDb({[url |-> url, number |-> number]}), journal |-> backend.fork_init, fresh |-> TRUE]
  IN  /\ CanStep("fork") /\ Len(backend.issued) < MaxForks
      /\ handler' = Insert(handler, new.id, new.number)
      /\ backend' = [persist_caller(by) EXCEPT !.forks = Append(@, fork), !.issued = Append(@, new.id),
                                               !.created = Insert(@, new.id, Len(backend.forks) + 1)]
      /\ memory' = [Shared(by) EXCEPT !.last = Insert(@, id, << >>)]
      /\ UNCHANGED <<journal, block, executor>>

\* What a fork was told last once the fork id is selected.
LastAfterSelect(id, persistent) ==
  LET told == memory.last[Owner]
      loaded == SlotsIn(journal) \cap DOMAIN told
      stored == {a \in loaded : journal[a].touched}
  IN  IF Owner = 0 THEN [k \in DOMAIN memory.last |-> IF k = 0 THEN told ELSE Restrict(told, stored)]
      ELSE [memory.last EXCEPT ![id] =
              Over(Restrict(told, loaded \cap persistent), Restrict(@, DOMAIN @ \ persistent))]

selectFork(id, by) ==
  LET h == IF InForkMode THEN update_block(handler, backend.issued[Owner], block) ELSE handler
      b == persist_caller(by)
  IN  /\ CanStep("fork") /\ Owner # id
      /\ handler' = h
      /\ backend' = select_fork(b, journal, id)
      /\ journal' = backend'.forks[ActiveIdx(backend')].journal
      /\ block' = h[backend.issued[id]]
      /\ memory' = [Shared(by) EXCEPT !.last = LastAfterSelect(id, b.persistent)]
      /\ UNCHANGED executor

\* check_broadcast refuses to select a fork during a broadcast, and the active
\* fork is not selected again; the caller is persistent by then.
selectForkFails(by) ==
  /\ CanStep("fork") /\ by \notin backend.persistent
  /\ backend' = persist_caller(by)
  /\ memory' = Shared(by)
  /\ UNCHANGED <<journal, block, handler, executor>>

rollFork(id, number, by) ==
  LET new == insert_new_fork(handler, backend.issued[id][1], number)
      b == rolled(persist_caller(by), id, new.id)
      j == rolled_journal(b, journal)
      kept == {a \in SlotsIn(journal) : a \in b.persistent \cup {Caller} \/ (journal[a].created /\ journal[a].touched)}
  IN  /\ CanStep("rollFork")
      /\ handler' = Insert(handler, new.id, new.number)
      /\ \/ /\ Owner = id
            /\ block' = new.number
            /\ journal' = j
            /\ backend' = [b EXCEPT !.forks[ActiveIdx(b)].journal = j,
                                    !.forks[ActiveIdx(b)].db = reread(@, {a \in DOMAIN journal : ~journal[a].created} \cap DOMAIN j)]
            /\ memory' = [Shared(by) EXCEPT !.last[id] = Restrict(@, DOMAIN @ \cap kept)]
         \/ /\ Owner # id
            /\ backend' = b
            /\ memory' = [Shared(by) EXCEPT !.last[id] = << >>]
            /\ UNCHANGED <<block, journal>>
      /\ UNCHANGED executor

makePersistent(a) ==
  /\ CanStep("persist") /\ a \notin backend.persistent
  /\ backend' = [backend EXCEPT !.persistent = @ \cup {a}]
  /\ memory' = [Stepped EXCEPT !.shared = @ \cup {a}]
  /\ UNCHANGED <<journal, block, handler, executor>>

revokePersistent(a) ==
  /\ CanStep("persist") /\ a \in backend.persistent
  /\ backend' = [backend EXCEPT !.persistent = @ \ {a}]
  /\ memory' = Stepped
  /\ UNCHANGED <<journal, block, handler, executor>>

-----------------------------------------------------------------------------
(* Snapshots. *)

snapshotState ==
  LET n == backend.next_snapshot
      snap == [db |-> create_db_snapshot(backend), journal |-> journal, block |-> block]
  IN  /\ CanStep("snapshot") /\ n < MaxSnapshots
      /\ backend' = [backend EXCEPT !.snapshots = Insert(@, n, snap), !.next_snapshot = n + 1]
      /\ memory' = [Stepped EXCEPT !.snapped = Insert(@, n, memory.last[Owner])]
      /\ UNCHANGED <<journal, block, handler, executor>>

\* What the forks were told last once the snapshot n is restored.
LastAfterRevert(n) ==
  LET fork == backend.snapshots[n].db.fork
      id == IF fork = {} THEN 0 ELSE TheOne(fork).id
  IN  [memory.last EXCEPT ![Owner] = << >>, ![id] = memory.snapped[n]]

\* The flag of an earlier transaction is in the database that the snapshot
\* replaces.
FailedAfterRevert ==
  IF executor.kind = "transact" /\ memory.failed = "earlier" THEN "undone" ELSE memory.failed

\* revertToState keeps the snapshot, revertToStateAndDelete does not.
revertToState(n, keep) ==
  /\ CanStep("snapshot")
  /\ backend' = revert_state(backend, journal, n, keep)
  /\ journal' = backend.snapshots[n].journal
  /\ block' = backend.snapshots[n].block
  /\ memory' = [Stepped EXCEPT !.last = LastAfterRevert(n), !.failed = FailedAfterRevert]
  /\ UNCHANGED <<handler, executor>>

deleteStateSnapshot(n) ==
  /\ CanStep("delete")
  /\ backend' = [backend EXCEPT !.snapshots = Restrict(@, DOMAIN @ \ {n})]
  /\ memory' = Stepped
  /\ UNCHANGED <<journal, block, handler, executor>>

deleteStateSnapshots ==
  /\ CanStep("delete") /\ backend.snapshots # << >>
  /\ backend' = [backend EXCEPT !.snapshots = << >>]
  /\ memory' = Stepped
  /\ UNCHANGED <<journal, block, handler, executor>>

-----------------------------------------------------------------------------
(* The executor: a transaction commits what it did, failed or not, a call     *)
(* runs on a copy of the backend that is dropped.                             *)

StartRun(b, number, m, kind) ==
  /\ memory.runs < MaxRuns /\ kind \in Kinds
  /\ backend' = b
  /\ journal' = NewTransaction(b)
  /\ block' = number
  /\ memory' = [m EXCEPT !.runs = memory.runs + 1, !.steps = memory.steps]
  /\ executor' = [kind |-> kind, backend |-> b, block |-> number, memory |-> {m}]
  /\ UNCHANGED handler

transact_with_env(kind) ==
  /\ executor.kind = "transact"
  /\ StartRun(commit(backend, journal), block,
              [memory EXCEPT !.failed = IF @ = "now" THEN "earlier" ELSE @], kind)

call_with_env(kind) ==
  /\ executor.kind = "call"
  /\ StartRun(executor.backend, executor.block, TheOne(executor.memory), kind)

ForkNext ==
  \/ \E a \in Accounts \cup {Deployed, VmAccount}, cells \in {{}, {"slot"}} : Load(a, cells)
  \/ \E a \in Accounts \cup {Deployed}, cell \in {"info", "slot"} :
       /\ a = Deployed => cell = "slot" /\ InfoShown(journal, db_of(backend), a) # Nowhere
       /\ Write(a, cell)
  \/ Deploy
  \/ Fail
  \/ \E n \in Rolls : roll(n)
  \/ \E by \in Users :
       \/ \E url \in Urls, number \in Blocks : createFork(url, number, by)
       \/ \E id \in DOMAIN backend.issued : selectFork(id, by)
       \/ selectForkFails(by)
       \/ \E id \in DOMAIN backend.issued, number \in Blocks : rollFork(id, number, by)
  \/ \E a \in Accounts \cup {Deployed} : makePersistent(a) \/ revokePersistent(a)
  \/ snapshotState
  \/ \E n \in DOMAIN backend.snapshots, keep \in BOOLEAN : revertToState(n, keep)
  \/ \E n \in DOMAIN backend.snapshots : deleteStateSnapshot(n)
  \/ deleteStateSnapshots
  \/ \E kind \in Kinds : transact_with_env(kind) \/ call_with_env(kind)

ForkSpec == ForkInit /\ [][ForkNext]_fork_vars

-----------------------------------------------------------------------------

\* The index of every local fork is its own, and the active one is where its
\* identifier leads.  What one fork holds of an account that was never
\* persistent was written on that fork, or before the first one was selected,
\* or comes from its own chain.
ForksAreSeparate ==
  LET idx(id) == backend.created[backend.issued[id]]
      held(id) == {backend.forks[idx(id)].journal, backend.forks[idx(id)].db.accounts}
                    \cup (IF Owner = id THEN {journal} ELSE {})
      own(id, v) == CASE v[1] = "wrote" -> memory.wrote[v[2]] \in {0, id}
                      [] v[1] = "chain" -> v[2] = backend.issued[id][1]
                      [] OTHER -> TRUE
  IN  /\ IsInjective([id \in DOMAIN backend.issued |-> idx(id)])
      /\ Owner # 0 => ActiveIdx(backend) = idx(Owner)
      /\ \A id \in DOMAIN backend.issued : \A accounts \in held(id) :
           \A a \in DOMAIN accounts \ memory.shared :
             own(id, accounts[a].info) /\ \A v \in accounts[a].slot : own(id, v)

\* The active fork shows what was last stored there, whatever was selected,
\* rolled, snapshot, reverted or committed since; a persistent account shows
\* what the fork left last showed, if the transaction had read it there.
WritesSurviveSwitches ==
  \A a \in DOMAIN memory.last[Owner] :
    SlotShown(journal, db_of(backend), a) = memory.last[Owner][a]

\* A test whose assertion failed is failing: in the transaction or call where it
\* failed whatever that selects, rolls or reverts to, and ever after once it is
\* committed (beforeTestSetup goes on after a failure that did not revert); unless
\* a later transaction reverts to a snapshot, which only looks for the failure in
\* the journal (backend/mod.rs 988) and replaces the database that has it.
FailuresAreNotLost == memory.failed \in {"now", "earlier"} => ~is_success
==============================================================================
