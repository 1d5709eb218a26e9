---------------------------- MODULE FoundryProofs ----------------------------
(***************************************************************************)
(* Proofs about parts of foundry, for every value of the constants.        *)
(***************************************************************************)
EXTENDS ForkBackend, TLAPS

-----------------------------------------------------------------------------
(* Sequences of which only the form is known *)

IsSequence(s) == s \in Seq(Range(s))

\* A sequence of anything is one of what it holds.
LEMMA SequenceOf ==
  ASSUME NEW S, NEW s \in Seq(S)
  PROVE  IsSequence(s)
<1>1. Len(s) \in Nat /\ s \in [1 .. Len(s) -> S] OBVIOUS
<1>2. s \in [1 .. Len(s) -> Range(s)] BY <1>1 DEF Range
<1> QED BY <1>1, <1>2 DEF IsSequence

\* It starts at 1.
LEMMA NoZerothElement == ASSUME NEW s, IsSequence(s) PROVE 0 \notin DOMAIN s
<1>1. ASSUME NEW S, NEW t \in Seq(S) PROVE 0 \notin DOMAIN t OBVIOUS
<1> QED BY <1>1 DEF IsSequence

\* What Append makes of one.
LEMMA AppendSequence ==
  ASSUME NEW s, NEW x, IsSequence(s)
  PROVE  /\ IsSequence(Append(s, x))
         /\ DOMAIN s \subseteq DOMAIN Append(s, x)
         /\ Len(s) + 1 \in DOMAIN Append(s, x)
         /\ \A k \in DOMAIN Append(s, x) :
              IF k \in DOMAIN s THEN Append(s, x)[k] = s[k] ELSE k = Len(s) + 1 /\ Append(s, x)[k] = x
<1> DEFINE S == Range(s) \cup {x}
<1>1. s \in Seq(S) /\ x \in S BY DEF IsSequence
<1> HIDE DEF S
<1>2. Append(s, x) \in Seq(S) BY <1>1
<1>3. IsSequence(Append(s, x)) BY <1>2, SequenceOf, Zenon
<1> QED BY <1>1, <1>2, <1>3

\* Replacing an element leaves a sequence.
LEMMA ReplaceInSequence ==
  ASSUME NEW s, NEW i, NEW x, IsSequence(s)
  PROVE  IsSequence([s EXCEPT ![i] = x])
<1> DEFINE S == Range(s) \cup {x}
<1>1. s \in Seq(S) /\ x \in S BY DEF IsSequence
<1> HIDE DEF S
<1>2. Len(s) \in Nat /\ s \in [1 .. Len(s) -> S] BY <1>1
<1>3. [s EXCEPT ![i] = x] \in [1 .. Len(s) -> S] BY <1>1, <1>2, Zenon
<1>4. [s EXCEPT ![i] = x] \in Seq(S) BY <1>2, <1>3
<1> QED BY <1>4, SequenceOf, Zenon


-----------------------------------------------------------------------------
(* Failed assertions *)

\* The slot of an account has the flag.
Flagged(e) == e.slot # {} /\ \A v \in e.slot : FlagSet(v)

\* The entry of the cheatcode account, where a journal has one, is an account,
\* which only a failed assertion touches.
JournalOK(j) ==
  VmAccount \in DOMAIN j =>
    /\ DOMAIN j[VmAccount] = {"info", "slot", "created", "touched"}
    /\ j[VmAccount].touched => Flagged(j[VmAccount])

\* An assertion failed in the transaction of the journal j,
JournalFlag(j) == VmAccount \in DOMAIN j /\ j[VmAccount].touched

\* or in one that was committed to the database db.
DbOK(db) == "accounts" \in DOMAIN db
DbFlag(db) ==
  /\ VmAccount \in DOMAIN db.accounts
  /\ "slot" \in DOMAIN db.accounts[VmAccount] /\ Flagged(db.accounts[VmAccount])

ForkOK(f) == DOMAIN f = {"db", "journal", "fresh"} /\ JournalOK(f.journal) /\ DbOK(f.db)

SnapshotOK(s, indices) ==
  /\ JournalOK(s.journal) /\ DbOK(s.db.mem_db)
  /\ \A f \in s.db.fork : f.idx \in indices /\ ForkOK(f.fork)

\* The identifiers of a backend lead to its forks, and the cheatcode account is
\* persistent.
BackendOK(b) ==
  /\ DOMAIN b = {"mem_db", "fork_init", "active", "issued", "created", "forks", "snapshots",
                 "next_snapshot", "persistent", "failure"}
  /\ VmAccount \in b.persistent
  /\ JournalOK(b.fork_init) /\ DbOK(b.mem_db)
  /\ IsSequence(b.forks) /\ \A k \in DOMAIN b.forks : ForkOK(b.forks[k])
  /\ IsSequence(b.issued) /\ \A id \in DOMAIN b.issued : b.issued[id] \in DOMAIN b.created
  /\ \A id \in DOMAIN b.created : b.created[id] \in DOMAIN b.forks
  /\ \A p \in b.active : p[2] \in DOMAIN b.forks
  /\ \A n \in DOMAIN b.snapshots : SnapshotOK(b.snapshots[n], DOMAIN b.forks)

\* The backend b knows of a failure in an earlier transaction.
Remembered(b) == b.failure \/ DbFlag(db_of(b))

\* What is left of a failed assertion: of one of the running transaction or call
\* the backend knows, or the journal has the flag; of one of a transaction that was
\* committed the executor's backend knows, which a call leaves as it was.
FailureIInv ==
  /\ BackendOK(backend) /\ JournalOK(journal)
  /\ "failed" \in DOMAIN memory
  /\ memory.failed = "now" => backend.failure \/ JournalFlag(journal)
  /\ memory.failed = "earlier" => Remembered(IF executor.kind = "transact" THEN backend ELSE executor.backend)
  /\ BackendOK(executor.backend)
  /\ executor.backend.failure => backend.failure
  /\ \A m \in executor.memory :
       /\ "failed" \in DOMAIN m /\ m.failed # "now"
       /\ m.failed = "earlier" => Remembered(executor.backend)
  /\ executor.kind = "call" => executor.memory # {}

\* A flag that was touched is read from the journal.
LEMMA FlagShown ==
  ASSUME NEW j, JournalOK(j), JournalFlag(j)
  PROVE  FailedInJournal(j)
BY DEF JournalOK, JournalFlag, Flagged, FailedInJournal

\* A flag that was committed is read from the database.
LEMMA FlagStored ==
  ASSUME NEW db, DbFlag(db)
  PROVE  FlagSet(storage(db, VmAccount))
<1>1. TheOne(db.accounts[VmAccount].slot) \in db.accounts[VmAccount].slot BY DEF DbFlag, Flagged, TheOne
<1> QED BY <1>1 DEF DbFlag, Flagged, storage

\* Merging accounts keeps the form of a journal, and the flag if the cheatcode
\* account is one of them.
LEMMA MergeJournals ==
  ASSUME NEW accounts, NEW from, NEW into, JournalOK(from), JournalOK(into)
  PROVE  LET j == merge_journaled_state_data(accounts, from, into)
         IN /\ JournalOK(j)
            /\ VmAccount \in accounts /\ JournalFlag(from) => JournalFlag(j)
            /\ JournalFlag(from) /\ JournalFlag(into) => JournalFlag(j)
<1> DEFINE merged == [a \in accounts \cap DOMAIN from |-> [from[a] EXCEPT !.slot = MergedSlot(from, into, a)]]
           j == Over(merged, into)
           m == MergedSlot(from, into, VmAccount)
<1>1. DOMAIN merged = accounts \cap DOMAIN from OBVIOUS
<1>2. VmAccount \in DOMAIN merged => merged[VmAccount] = [from[VmAccount] EXCEPT !.slot = m]
  OBVIOUS
<1>3. JournalFlag(from) => m = from[VmAccount].slot
  BY DEF JournalFlag, JournalOK, Flagged, MergedSlot
<1> HIDE DEF merged, m
<1>4. DOMAIN j = DOMAIN merged \cup DOMAIN into
      /\ \A a \in DOMAIN j : j[a] = IF a \in DOMAIN merged THEN merged[a] ELSE into[a]
  BY DEF Over
<1> HIDE DEF j
<1>5. ASSUME VmAccount \in DOMAIN merged
      PROVE  /\ VmAccount \in DOMAIN j /\ VmAccount \in DOMAIN from
             /\ DOMAIN j[VmAccount] = {"info", "slot", "created", "touched"}
             /\ j[VmAccount].touched = from[VmAccount].touched
             /\ j[VmAccount].slot = m
  <2>1. VmAccount \in DOMAIN from /\ VmAccount \in DOMAIN j BY <1>1, <1>4, <1>5
  <2>2. j[VmAccount] = [from[VmAccount] EXCEPT !.slot = m] BY <1>2, <1>4, <1>5, <2>1
  <2>3. DOMAIN from[VmAccount] = {"info", "slot", "created", "touched"} BY <2>1 DEF JournalOK
  <2> QED BY <2>1, <2>2, <2>3
<1>6. VmAccount \notin DOMAIN merged /\ VmAccount \in DOMAIN j => j[VmAccount] = into[VmAccount] /\ VmAccount \in DOMAIN into
  BY <1>4
<1>7. JournalOK(j)
  <2>1. CASE VmAccount \in DOMAIN merged
    BY <1>3, <1>5, <2>1 DEF JournalOK, JournalFlag, Flagged
  <2>2. CASE VmAccount \notin DOMAIN merged BY <1>6, <2>2 DEF JournalOK
  <2> QED BY <2>1, <2>2
<1>8. VmAccount \in accounts /\ JournalFlag(from) => JournalFlag(j)
  BY <1>1, <1>5, Zenon DEF JournalFlag
<1>9. JournalFlag(from) /\ JournalFlag(into) => JournalFlag(j)
  BY <1>4, <1>5, <1>6, Zenon DEF JournalFlag
<1>10. j = merge_journaled_state_data(accounts, from, into) BY DEF j, merged, merge_journaled_state_data
<1> QED BY <1>7, <1>8, <1>9, <1>10

\* A database may cache an account,
LEMMA CachedFlag ==
  ASSUME NEW db, NEW a, NEW cells, DbOK(db)
  PROVE  DbOK(cached(db, a, cells)) /\ (DbFlag(db) => DbFlag(cached(db, a, cells)))
<1> DEFINE s == IF "slot" \in cells THEN {storage(db, a)}
                ELSE IF a \in DOMAIN db.accounts THEN db.accounts[a].slot ELSE {}
           e == [info |-> basic(db, a), slot |-> s]
           acc == Insert(db.accounts, a, e)
<1>1. cached(db, a, cells) = [db EXCEPT !.accounts = acc] BY DEF cached
<1>2. DbFlag(db) /\ a = VmAccount => s # {} /\ \A v \in s : FlagSet(v)
  BY FlagStored, Zenon DEF DbFlag, Flagged
<1> HIDE DEF s
<1>3. DbFlag(db) /\ a = VmAccount => Flagged(e) BY <1>2 DEF Flagged
<1>4. "slot" \in DOMAIN e OBVIOUS
<1> HIDE DEF e
<1>5. DbFlag(db) => /\ VmAccount \in DOMAIN acc
                    /\ "slot" \in DOMAIN acc[VmAccount] /\ Flagged(acc[VmAccount])
  BY <1>3, <1>4 DEF DbFlag, Insert
<1> HIDE DEF acc
<1> QED BY <1>1, <1>5 DEF DbOK, DbFlag

\* read some again,
LEMMA RereadFlag ==
  ASSUME NEW db, NEW S, DbOK(db)
  PROVE  DbOK(reread(db, S)) /\ (DbFlag(db) => DbFlag(reread(db, S)))
<1> DEFINE r == [a \in S |-> cached(db, a, {}).accounts[a]]
           acc == Over(r, db.accounts)
           c == cached(db, VmAccount, {})
<1>1. reread(db, S) = [db EXCEPT !.accounts = acc] BY DEF reread
<1>2. DbFlag(db) => DbFlag(c) BY CachedFlag
<1>3. DOMAIN r = S /\ (VmAccount \in S => r[VmAccount] = c.accounts[VmAccount]) OBVIOUS
<1> HIDE DEF r, c
<1>4. DbFlag(db) => /\ VmAccount \in DOMAIN acc
                    /\ "slot" \in DOMAIN acc[VmAccount] /\ Flagged(acc[VmAccount])
  BY <1>2, <1>3 DEF DbFlag, Over
<1> HIDE DEF acc
<1> QED BY <1>1, <1>4 DEF DbOK, DbFlag

\* or get the persistent accounts of another.
LEMMA MergedFlag ==
  ASSUME NEW accounts, NEW from, NEW into, DbOK(into), VmAccount \in accounts
  PROVE  LET d == merge_db_account_data(accounts, from, into)
         IN DbOK(d) /\ (DbFlag(from) => DbFlag(d))
<1> DEFINE f == from.accounts
           m == MergedSlot(f, into.accounts, VmAccount)
           merged == [a \in accounts \cap DOMAIN f |-> [f[a] EXCEPT !.slot = MergedSlot(f, into.accounts, a)]]
           acc == Over(merged, into.accounts)
<1>1. merge_db_account_data(accounts, from, into) = [into EXCEPT !.accounts = acc] BY DEF merge_db_account_data
<1>2. VmAccount \in DOMAIN f => VmAccount \in DOMAIN merged /\ merged[VmAccount] = [f[VmAccount] EXCEPT !.slot = m] OBVIOUS
<1>3. DbFlag(from) => m = f[VmAccount].slot BY DEF DbFlag, Flagged, MergedSlot
<1> HIDE DEF m, merged
<1>4. DbFlag(from) => /\ VmAccount \in DOMAIN merged
                      /\ "slot" \in DOMAIN merged[VmAccount] /\ Flagged(merged[VmAccount])
  BY <1>2, <1>3 DEF DbFlag, Flagged
<1>5. DbFlag(from) => /\ VmAccount \in DOMAIN acc
                      /\ "slot" \in DOMAIN acc[VmAccount] /\ Flagged(acc[VmAccount])
  BY <1>4 DEF Over
<1> HIDE DEF acc
<1> QED BY <1>1, <1>5 DEF DbOK, DbFlag

\* A backend may change its forks,
LEMMA ForksChanged ==
  ASSUME NEW b, NEW forks, BackendOK(b), IsSequence(forks), DOMAIN forks = DOMAIN b.forks,
         \A k \in DOMAIN forks : ForkOK(forks[k])
  PROVE  /\ BackendOK([b EXCEPT !.forks = forks])
         /\ [b EXCEPT !.forks = forks].failure = b.failure
BY DEF BackendOK

\* one of them,
LEMMA OneForkChanged ==
  ASSUME NEW b, NEW k \in DOMAIN b.forks, NEW fork, BackendOK(b), ForkOK(fork)
  PROVE  LET r == [b EXCEPT !.forks = [b.forks EXCEPT ![k] = fork]]
         IN /\ BackendOK(r) /\ r.failure = b.failure
            /\ (DbFlag(b.forks[k].db) => DbFlag(fork.db)) => (DbFlag(db_of(b)) => DbFlag(db_of(r)))
<1> DEFINE F == [b.forks EXCEPT ![k] = fork]
           r == [b EXCEPT !.forks = F]
<1>1. IsSequence(F) BY ReplaceInSequence DEF BackendOK
<1>2. DOMAIN F = DOMAIN b.forks /\ \A i \in DOMAIN F : ForkOK(F[i]) BY DEF BackendOK
<1>3. \A i \in DOMAIN b.forks : F[i] = IF i = k THEN fork ELSE b.forks[i] OBVIOUS
<1> HIDE DEF F
<1>4. BackendOK(r) /\ r.failure = b.failure
  BY <1>1, <1>2, ForksChanged
<1>5. ASSUME DbFlag(b.forks[k].db) => DbFlag(fork.db), DbFlag(db_of(b)) PROVE DbFlag(db_of(r))
  <2>1. r.forks = F /\ r.active = b.active /\ r.mem_db = b.mem_db BY DEF BackendOK
  <2> HIDE DEF r
  <2>2. CASE b.active = {} BY <1>5, <2>1, <2>2 DEF db_of
  <2>3. CASE b.active # {}
    <3>1. ActiveIdx(b) \in DOMAIN b.forks /\ ActiveIdx(r) = ActiveIdx(b)
      BY <2>1, <2>3 DEF BackendOK, ActiveIdx, TheOne
    <3>2. db_of(b) = b.forks[ActiveIdx(b)].db /\ db_of(r) = F[ActiveIdx(b)].db BY <2>1, <2>3, <3>1 DEF db_of
    <3> QED BY <1>3, <1>5, <3>1, <3>2
  <2> QED BY <2>2, <2>3
<1> QED BY <1>4, <1>5 DEF F

\* or the cache of the active one, or of none.
LEMMA WithDbOK ==
  ASSUME NEW b, NEW db, BackendOK(b), DbOK(db)
  PROVE  LET r == with_db(b, db)
         IN BackendOK(r) /\ r.failure = b.failure /\ db_of(r) = db
<1>1. CASE b.active = {}
  <2> DEFINE r == [b EXCEPT !.mem_db = db]
  <2>1. with_db(b, db) = r BY <1>1 DEF with_db
  <2>2. BackendOK(r) /\ r.failure = b.failure /\ r.active = b.active /\ r.mem_db = db BY DEF BackendOK
  <2> HIDE DEF r
  <2>3. db_of(r) = db BY <1>1, <2>2 DEF db_of
  <2> QED BY <2>1, <2>2, <2>3
<1>2. CASE b.active # {}
  <2> DEFINE k == ActiveIdx(b)
             fork == [b.forks[k] EXCEPT !.db = db]
             F == [b.forks EXCEPT ![k] = fork]
             r == [b EXCEPT !.forks = F]
  <2>1. k \in DOMAIN b.forks BY <1>2 DEF BackendOK, ActiveIdx, TheOne
  <2>2. with_db(b, db) = r BY <1>2 DEF with_db
  <2>3. \A c : c.active = b.active => ActiveIdx(c) = k BY DEF ActiveIdx
  <2> HIDE DEF k
  <2>4. ForkOK(b.forks[k]) BY <2>1 DEF BackendOK
  <2>5. ForkOK(fork) /\ fork.db = db BY <2>4 DEF ForkOK
  <2> HIDE DEF fork
  <2>6. BackendOK(r) /\ r.failure = b.failure BY <2>1, <2>5, OneForkChanged
  <2>7. r.forks = F /\ r.active = b.active /\ F[k] = fork BY <2>1 DEF BackendOK
  <2> HIDE DEF r, F
  <2>8. db_of(r) = F[k].db BY <1>2, <2>3, <2>7 DEF db_of
  <2> QED BY <2>2, <2>5, <2>6, <2>7, <2>8
<1> QED BY <1>1, <1>2

\* The active database is one.
LEMMA DbOfOK == ASSUME NEW b, BackendOK(b) PROVE DbOK(db_of(b))
<1>1. CASE b.active = {} BY <1>1 DEF db_of, BackendOK
<1>2. CASE b.active # {}
  <2>1. ActiveIdx(b) \in DOMAIN b.forks BY <1>2 DEF BackendOK, ActiveIdx, TheOne
  <2> QED BY <1>2, <2>1 DEF db_of, BackendOK, ForkOK
<1> QED BY <1>1, <1>2

\* A read through the cache changes the backend only there.
LEMMA CacheOK ==
  ASSUME NEW b, NEW a, NEW cells, BackendOK(b)
  PROVE  LET r == with_db(b, cached(db_of(b), a, cells))
         IN BackendOK(r) /\ r.failure = b.failure /\ (DbFlag(db_of(b)) => DbFlag(db_of(r)))
<1> DEFINE d == cached(db_of(b), a, cells)
<1>1. DbOK(d) /\ (DbFlag(db_of(b)) => DbFlag(d)) BY DbOfOK, CachedFlag
<1> HIDE DEF d
<1>2. LET r == with_db(b, d) IN BackendOK(r) /\ r.failure = b.failure /\ db_of(r) = d BY <1>1, WithDbOK
<1>3. LET r == with_db(b, d) IN BackendOK(r) /\ r.failure = b.failure /\ (DbFlag(db_of(b)) => DbFlag(db_of(r)))
  BY <1>1, <1>2
<1> QED BY <1>3 DEF d

\* What is committed has the flag of the journal, or the one that was there.
LEMMA CommitOK ==
  ASSUME NEW b, NEW j, BackendOK(b), JournalOK(j)
  PROVE  LET r == commit(b, j)
         IN BackendOK(r) /\ r.failure = b.failure /\ (JournalFlag(j) \/ DbFlag(db_of(b)) => DbFlag(db_of(r)))
<1> DEFINE touched == {a \in DOMAIN j : j[a].touched}
           db == db_of(b)
           slot(a) == IF j[a].created THEN j[a].slot ELSE MergedSlot(j, db.accounts, a)
           new == [a \in touched |-> [info |-> j[a].info, slot |-> slot(a)]]
           acc == Over(new, db.accounts)
           d == [db EXCEPT !.accounts = acc]
<1>1. commit(b, j) = with_db(b, d) BY DEF commit
<1>2. DbOK(db) BY DbOfOK
<1>3. DOMAIN new = touched OBVIOUS
<1>4. JournalFlag(j) => VmAccount \in touched BY DEF JournalFlag
<1>5. VmAccount \in touched => "slot" \in DOMAIN new[VmAccount] /\ Flagged(new[VmAccount])
  <2> SUFFICES ASSUME VmAccount \in touched PROVE "slot" \in DOMAIN new[VmAccount] /\ Flagged(new[VmAccount]) OBVIOUS
  <2>1. Flagged(j[VmAccount]) BY DEF JournalOK
  <2>2. slot(VmAccount) = j[VmAccount].slot BY <2>1 DEF Flagged, MergedSlot
  <2>3. "slot" \in DOMAIN new[VmAccount] /\ new[VmAccount].slot = slot(VmAccount) BY <1>3
  <2> HIDE DEF new, slot
  <2> QED BY <2>1, <2>2, <2>3 DEF Flagged
<1> HIDE DEF touched, new, db
<1>6. JournalFlag(j) \/ DbFlag(db) => /\ VmAccount \in DOMAIN acc
                                      /\ "slot" \in DOMAIN acc[VmAccount] /\ Flagged(acc[VmAccount])
  BY <1>3, <1>4, <1>5 DEF Over, DbFlag
<1> HIDE DEF acc
<1>7. DbOK(d) /\ (JournalFlag(j) \/ DbFlag(db) => DbFlag(d)) BY <1>2, <1>6 DEF DbOK, DbFlag
<1> HIDE DEF d
<1>8. LET r == with_db(b, d) IN BackendOK(r) /\ r.failure = b.failure /\ db_of(r) = d BY <1>7, WithDbOK
<1> QED BY <1>1, <1>7, <1>8 DEF db

\* Loading an account leaves the others.
LEMMA LoadAccount ==
  ASSUME NEW j, NEW db, NEW a, JournalOK(j)
  PROVE  LET l == load_account(j, db, a)
         IN /\ JournalOK(l) /\ a \in DOMAIN l
            /\ \A o \in DOMAIN j : o \in DOMAIN l /\ l[o] = j[o]
            /\ a \notin DOMAIN j => ~l[a].touched
<1>1. CASE a \in DOMAIN j BY <1>1 DEF load_account
<1>2. CASE a \notin DOMAIN j
  <2> DEFINE e == Loaded(basic(db, a))
  <2>1. load_account(j, db, a) = Insert(j, a, e) BY <1>2 DEF load_account
  <2>2. DOMAIN e = {"info", "slot", "created", "touched"} /\ ~e.touched BY DEF Loaded
  <2> HIDE DEF e
  <2> QED BY <1>2, <2>1, <2>2 DEF Insert, JournalOK
<1> QED BY <1>1, <1>2

\* The parts of select_fork keep the form of the target fork, and the flag in its
\* database.
LEMMA InitCallerOK ==
  ASSUME NEW fork, NEW j, ForkOK(fork)
  PROVE  ForkOK(init_caller(fork, j)) /\ (DbFlag(fork.db) => DbFlag(init_caller(fork, j).db))
<1>1. CASE ~fork.fresh \/ Caller \notin DOMAIN j BY <1>1 DEF init_caller
<1>2. CASE ~(~fork.fresh \/ Caller \notin DOMAIN j)
  <2> DEFINE e == [j[Caller] EXCEPT !.info = basic(fork.db, Caller)]
             k == Insert(fork.journal, Caller, e)
             d == cached(fork.db, Caller, {})
  <2>1. init_caller(fork, j) = [fork EXCEPT !.journal = k, !.db = d] BY <1>2 DEF init_caller
  <2> HIDE DEF e
  <2>2. JournalOK(k) BY ForkAssumption DEF ForkOK, JournalOK, Insert
  <2>3. DbOK(d) /\ (DbFlag(fork.db) => DbFlag(d)) BY CachedFlag DEF ForkOK
  <2> HIDE DEF k, d
  <2> QED BY <2>1, <2>2, <2>3 DEF ForkOK
<1> QED BY <1>1, <1>2

\* A fork gets its sender.
LEMMA EnsureCallerOK ==
  ASSUME NEW fork, NEW j, ForkOK(fork)
  PROVE  ForkOK(ensure_caller(fork, j))
<1> DEFINE info == IF Caller \in DOMAIN j THEN j[Caller].info ELSE Nowhere
           k == Insert(fork.journal, Caller, Loaded(info))
           acc == Over(fork.db.accounts, [a \in {Caller} |-> [info |-> info, slot |-> {}]])
           d == [fork.db EXCEPT !.accounts = acc]
<1>1. CASE Caller \in DOMAIN fork.journal BY <1>1 DEF ensure_caller
<1>2. CASE Caller \notin DOMAIN fork.journal
  <2>1. ensure_caller(fork, j) = [fork EXCEPT !.journal = k, !.db = d] BY <1>2 DEF ensure_caller
  <2>2. JournalOK(k) BY ForkAssumption DEF ForkOK, JournalOK, Insert
  <2> HIDE DEF acc
  <2>3. DbOK(d) BY DEF ForkOK, DbOK
  <2> HIDE DEF k, d
  <2> QED BY <2>1, <2>2, <2>3 DEF ForkOK
<1> QED BY <1>1, <1>2

\* The persistent accounts, and with them the flag, come along.
LEMMA UpdateForkOK ==
  ASSUME NEW b, NEW j, NEW fork, BackendOK(b), JournalOK(j), ForkOK(fork)
  PROVE  LET f == update_fork_db(b, j, fork)
         IN /\ ForkOK(f)
            /\ JournalFlag(j) => JournalFlag(f.journal)
            /\ DbFlag(db_of(b)) => DbFlag(f.db)
<1> DEFINE k == merge_journaled_state_data(b.persistent, j, fork.journal)
           d == merge_db_account_data(b.persistent, db_of(b), fork.db)
<1>1. update_fork_db(b, j, fork) = [fork EXCEPT !.db = d, !.journal = k] BY DEF update_fork_db
<1>2. JournalOK(fork.journal) /\ DbOK(fork.db) /\ VmAccount \in b.persistent BY DEF ForkOK, BackendOK
<1>3. JournalOK(k) /\ (JournalFlag(j) => JournalFlag(k)) BY <1>2, MergeJournals
<1>4. DbOK(d) /\ (DbFlag(db_of(b)) => DbFlag(d)) BY <1>2, MergedFlag
<1> HIDE DEF k, d
<1>5. LET f == [fork EXCEPT !.db = d, !.journal = k] IN ForkOK(f) /\ f.journal = k /\ f.db = d
  BY <1>3, <1>4 DEF ForkOK
<1> QED BY <1>1, <1>3, <1>4, <1>5

\* Before the first selection every fork gets the journal.
LEMMA PrepareOK ==
  ASSUME NEW b, NEW j, BackendOK(b), JournalOK(j)
  PROVE  LET F == prepare_init_journal_state(b, j)
         IN IsSequence(F) /\ DOMAIN F = DOMAIN b.forks /\ \A k \in DOMAIN F : ForkOK(F[k])
<1> DEFINE replaced == {a \in DOMAIN j : a \notin b.persistent /\ ~j[a].created}
           jr(k) == [a \in DOMAIN j |->
                       IF a \in replaced THEN [j[a] EXCEPT !.info = basic(b.forks[k].db, a)] ELSE j[a]]
           f(k) == [b.forks[k] EXCEPT !.journal = jr(k), !.db = reread(b.forks[k].db, replaced), !.fresh = FALSE]
           F == [k \in DOMAIN b.forks |-> f(k)]
<1>1. F = prepare_init_journal_state(b, j) BY DEF prepare_init_journal_state
<1>2. \A k : JournalOK(jr(k))
  <2> SUFFICES ASSUME NEW k PROVE JournalOK(jr(k)) OBVIOUS
  <2>1. VmAccount \notin replaced BY DEF BackendOK
  <2>2. DOMAIN jr(k) = DOMAIN j /\ (VmAccount \in DOMAIN j => jr(k)[VmAccount] = j[VmAccount]) BY <2>1
  <2> QED BY <2>2 DEF JournalOK
<1>3. \A k \in DOMAIN b.forks : ForkOK(f(k))
  <2> SUFFICES ASSUME NEW k \in DOMAIN b.forks PROVE ForkOK(f(k)) BY Zenon
  <2> DEFINE J == jr(k)
             D == reread(b.forks[k].db, replaced)
             fk == b.forks[k]
  <2>1. JournalOK(J) BY <1>2
  <2>2. DOMAIN fk = {"db", "journal", "fresh"} /\ DbOK(fk.db) BY DEF BackendOK, ForkOK
  <2>3. DbOK(D) BY <2>2, RereadFlag
  <2> HIDE DEF jr, replaced, J, D, fk
  <2>4. ForkOK([fk EXCEPT !.journal = J, !.db = D, !.fresh = FALSE]) BY <2>1, <2>2, <2>3 DEF ForkOK
  <2> QED BY <2>4 DEF J, D, fk
<1> HIDE DEF f
<1>4. IsSequence(F)
  <2> DEFINE n == Len(b.forks)
  <2>1. n \in Nat /\ DOMAIN b.forks = 1 .. n BY DEF BackendOK, IsSequence
  <2> HIDE DEF n
  <2>2. F \in [1 .. n -> Range(F)] BY <2>1 DEF Range
  <2> HIDE DEF F
  <2> QED BY <2>1, <2>2 DEF IsSequence
<1> QED BY <1>1, <1>3, <1>4

\* r is b with the fork k active: what failed is not forgotten, and the flags are
\* in the journal and in the database of that fork.
Switch(r, b, j, k) ==
  /\ BackendOK(r) /\ r.failure = b.failure
  /\ ActiveIdx(r) = k /\ k \in DOMAIN r.forks
  /\ JournalFlag(j) => JournalFlag(r.forks[k].journal)
  /\ DbFlag(db_of(b)) => DbFlag(db_of(r))

\* The switch itself.
LEMMA SwitchedOK ==
  ASSUME NEW b, NEW saved, NEW j, NEW id \in DOMAIN b.issued,
         BackendOK(b), BackendOK(saved), saved.failure = b.failure,
         DOMAIN saved.forks = DOMAIN b.forks, JournalOK(j),
         DbFlag(db_of(b)) => DbFlag(db_of(saved))
  PROVE  Switch(switched(b, saved, j, id), b, j, b.created[b.issued[id]])
<1> DEFINE k == b.created[b.issued[id]]
           P == prepare_init_journal_state(b, j)
           i == init_caller(saved.forks[k], j)
           c == IF b.active = {} THEN [b EXCEPT !.fork_init = j, !.forks = P]
                ELSE [saved EXCEPT !.forks = [saved.forks EXCEPT ![k] = i]]
           fk == c.forks[k]
           e == ensure_caller([fk EXCEPT !.fresh = FALSE], j)
           fork == update_fork_db(c, j, e)
           F == [c.forks EXCEPT ![k] = fork]
           act == {<<id, k>>}
<1>1. switched(b, saved, j, id) = [c EXCEPT !.forks = F, !.active = act] BY DEF switched
<1>2. k \in DOMAIN b.forks BY DEF BackendOK
<1>3. /\ BackendOK(c) /\ c.failure = b.failure /\ k \in DOMAIN c.forks
      /\ DbFlag(db_of(b)) => DbFlag(db_of(c))
  <2>1. CASE b.active = {}
    <3>1. IsSequence(P) /\ DOMAIN P = DOMAIN b.forks /\ \A n \in DOMAIN P : ForkOK(P[n])
      BY PrepareOK
    <3>2. c = [b EXCEPT !.fork_init = j, !.forks = P] BY <2>1
    <3> DEFINE b1 == [b EXCEPT !.fork_init = j]
    <3>3. /\ BackendOK(b1) /\ b1.failure = b.failure /\ b1.forks = b.forks
          /\ b1.active = b.active /\ b1.mem_db = b.mem_db
      BY DEF BackendOK
    <3> HIDE DEF P, b1
    <3>4. BackendOK([b1 EXCEPT !.forks = P]) /\ [b1 EXCEPT !.forks = P].failure = b1.failure
      BY <3>1, <3>3, ForksChanged
    <3>5. LET r == [b1 EXCEPT !.forks = P] IN r.forks = P /\ r.active = b1.active /\ r.mem_db = b1.mem_db
      BY <3>3 DEF BackendOK
    <3>6. c = [b1 EXCEPT !.forks = P]
      <4> HIDE DEF c
      <4> QED BY <3>2 DEF b1
    <3> HIDE DEF c
    <3>7. db_of(c) = db_of(b) BY <2>1, <3>3, <3>5, <3>6 DEF db_of
    <3> QED BY <1>2, <3>1, <3>3, <3>4, <3>5, <3>6, <3>7
  <2>2. CASE b.active # {}
    <3>1. c = [saved EXCEPT !.forks = [saved.forks EXCEPT ![k] = i]] BY <2>2
    <3>2. k \in DOMAIN saved.forks BY <1>2
    <3>3. ForkOK(saved.forks[k]) BY <3>2 DEF BackendOK
    <3>4. ForkOK(i) /\ (DbFlag(saved.forks[k].db) => DbFlag(i.db)) BY <3>3, InitCallerOK
    <3> HIDE DEF i, k, c
    <3>5. BackendOK(c) /\ c.failure = saved.failure /\ (DbFlag(db_of(saved)) => DbFlag(db_of(c)))
      BY <3>1, <3>2, <3>4, OneForkChanged
    <3>6. c.forks = [saved.forks EXCEPT ![k] = i] BY <3>1 DEF BackendOK
    <3> QED BY <3>2, <3>5, <3>6
  <2> QED BY <2>1, <2>2
<1> HIDE DEF c, k
<1>4. ForkOK(fk) BY <1>3 DEF BackendOK
<1> HIDE DEF fk
<1>5. ForkOK([fk EXCEPT !.fresh = FALSE]) BY <1>4 DEF ForkOK
<1>6. ForkOK(e) BY <1>5, EnsureCallerOK
<1> HIDE DEF e
<1>7. /\ ForkOK(fork) /\ (JournalFlag(j) => JournalFlag(fork.journal))
      /\ DbFlag(db_of(c)) => DbFlag(fork.db)
  BY <1>3, <1>6, UpdateForkOK
<1> HIDE DEF fork
<1>8. BackendOK([c EXCEPT !.forks = F]) /\ [c EXCEPT !.forks = F].failure = c.failure
  BY <1>3, <1>7, OneForkChanged
<1>9. F[k] = fork /\ k \in DOMAIN F BY <1>3
<1> DEFINE d == [c EXCEPT !.forks = F]
<1>10. d.forks = F BY <1>3 DEF BackendOK
<1>11. switched(b, saved, j, id) = [d EXCEPT !.active = act] BY <1>1
<1> HIDE DEF d, F
<1>12. /\ BackendOK([d EXCEPT !.active = act]) /\ [d EXCEPT !.active = act].failure = d.failure
       /\ [d EXCEPT !.active = act].forks = d.forks /\ [d EXCEPT !.active = act].active = act
  <2>0. BackendOK(d) BY <1>8 DEF d
  <2>1. \A p \in act : p[2] \in DOMAIN d.forks BY <1>9, <1>10
  <2> HIDE DEF act
  <2> QED BY <2>0, <2>1 DEF BackendOK
<1>13. ASSUME NEW r, r.active = act PROVE ActiveIdx(r) = k
  <2>1. TheOne(act) \in act
    <3>1. act # {} BY Zenon
    <3> HIDE DEF act
    <3> QED BY <3>1 DEF TheOne
  <2>2. TheOne(act) = <<id, k>> BY <2>1
  <2>3. TheOne(act)[2] = k BY <2>2
  <2> QED BY <1>13, <2>3 DEF ActiveIdx
<1>14. d.failure = b.failure BY <1>3, <1>8 DEF d
<1> DEFINE r == [d EXCEPT !.active = act]
<1> HIDE DEF r, act
<1>15. BackendOK(r) /\ r.failure = b.failure /\ r.forks = F /\ ActiveIdx(r) = k /\ r.active = act
  BY <1>10, <1>12, <1>13, <1>14, Zenon DEF r
<1>16. db_of(r) = fork.db
  <2>1. act # {} BY Zenon DEF act
  <2> QED BY <1>9, <1>15, <2>1 DEF db_of
<1>17. Switch(r, b, j, k) BY <1>3, <1>7, <1>9, <1>15, <1>16 DEF Switch
<1> QED BY <1>11, <1>17 DEF r, k

\* select_fork keeps the journal of the fork that is left first.
LEMMA SelectForkOK ==
  ASSUME NEW b, NEW j, NEW id \in DOMAIN b.issued, BackendOK(b), JournalOK(j)
  PROVE  Switch(select_fork(b, j, id), b, j, b.created[b.issued[id]])
<1>1. CASE b.active = {}
  BY <1>1, SwitchedOK DEF select_fork
<1>2. CASE b.active # {}
  <2> DEFINE a == ActiveIdx(b)
             left == [b.forks[a] EXCEPT !.journal = j]
             saved == [b EXCEPT !.forks = [b.forks EXCEPT ![a] = left]]
  <2>1. a \in DOMAIN b.forks BY <1>2 DEF BackendOK, ActiveIdx, TheOne
  <2>2. select_fork(b, j, id) = switched(b, saved, j, id) BY <1>2 DEF select_fork
  <2>3. ForkOK(left) /\ left.db = b.forks[a].db BY <2>1 DEF BackendOK, ForkOK
  <2> HIDE DEF left, a
  <2>4. BackendOK(saved) /\ saved.failure = b.failure /\ (DbFlag(db_of(b)) => DbFlag(db_of(saved)))
    BY <2>1, <2>3, OneForkChanged
  <2>5. DOMAIN saved.forks = DOMAIN b.forks BY DEF BackendOK
  <2> HIDE DEF saved
  <2> QED BY <2>2, <2>4, <2>5, SwitchedOK
<1> QED BY <1>1, <1>2

Reassign(b, issued, created) == [b EXCEPT !.issued = issued, !.created = created]

\* The identifiers of a backend may come to lead to other forks.
LEMMA IdentifiersChanged ==
  ASSUME NEW b, NEW issued, NEW created, BackendOK(b), IsSequence(issued),
         \A i \in DOMAIN issued : issued[i] \in DOMAIN created,
         \A i \in DOMAIN created : created[i] \in DOMAIN b.forks
  PROVE  LET r == Reassign(b, issued, created)
         IN /\ BackendOK(r) /\ r.failure = b.failure /\ r.forks = b.forks /\ r.active = b.active
            /\ r.persistent = b.persistent /\ r.fork_init = b.fork_init /\ db_of(r) = db_of(b)
<1> DEFINE r == Reassign(b, issued, created)
<1>1. /\ BackendOK(r) /\ r.failure = b.failure /\ r.forks = b.forks /\ r.active = b.active
      /\ r.persistent = b.persistent /\ r.fork_init = b.fork_init /\ r.mem_db = b.mem_db
  BY DEF BackendOK, Reassign
<1> HIDE DEF r
<1>2. db_of(r) = db_of(b) BY <1>1 DEF db_of, ActiveIdx
<1> QED BY <1>1, <1>2 DEF r

\* Rolling a fork keeps the form of the backend,
LEMMA RolledOK ==
  ASSUME NEW b, NEW id \in DOMAIN b.issued, NEW new, BackendOK(b)
  PROVE  LET r == rolled(b, id, new)
         IN /\ BackendOK(r) /\ r.failure = b.failure /\ r.active = b.active /\ DOMAIN r.forks = DOMAIN b.forks
            /\ r.persistent = b.persistent /\ r.fork_init = b.fork_init
            /\ DbFlag(db_of(b)) => DbFlag(db_of(r))
<1> DEFINE k == b.created[b.issued[id]]
           empty == NewDb({[url |-> new[1], number |-> new[2]]})
           db == merge_db_account_data(b.persistent, b.forks[k].db, empty)
           fork == [b.forks[k] EXCEPT !.db = db]
           F == [b.forks EXCEPT ![k] = fork]
           I == [b.issued EXCEPT ![id] = new]
           C == Insert(b.created, new, k)
<1>1. rolled(b, id, new) = [b EXCEPT !.forks = F, !.issued = I, !.created = C] BY DEF rolled
<1>2. k \in DOMAIN b.forks BY DEF BackendOK
<1> HIDE DEF k
<1>3. ForkOK(b.forks[k]) BY <1>2 DEF BackendOK
<1>3a. DbOK(db) /\ (DbFlag(b.forks[k].db) => DbFlag(db))
  <2>1. DbOK(empty) BY DEF NewDb, DbOK
  <2>2. VmAccount \in b.persistent BY DEF BackendOK
  <2> HIDE DEF empty
  <2> QED BY <2>1, <2>2, MergedFlag
<1> HIDE DEF db
<1>4. ForkOK(fork) /\ fork.db = db BY <1>3, <1>3a DEF ForkOK
<1> HIDE DEF fork
<1>5. LET r == [b EXCEPT !.forks = F]
      IN BackendOK(r) /\ r.failure = b.failure /\ (DbFlag(db_of(b)) => DbFlag(db_of(r)))
  BY <1>2, <1>4, <1>3a, OneForkChanged
<1>6. DOMAIN F = DOMAIN b.forks OBVIOUS
<1>7. IsSequence(I) BY ReplaceInSequence DEF BackendOK
<1>8. \A i \in DOMAIN I : I[i] \in DOMAIN b.created \cup {new} BY DEF BackendOK
<1> HIDE DEF F, I
<1> DEFINE d == [b EXCEPT !.forks = F]
<1>9. /\ d.forks = F /\ d.created = b.created /\ d.active = b.active
      /\ d.persistent = b.persistent /\ d.fork_init = b.fork_init
      /\ BackendOK(d) /\ d.failure = b.failure /\ (DbFlag(db_of(b)) => DbFlag(db_of(d)))
  BY <1>5 DEF BackendOK
<1>10. rolled(b, id, new) = [d EXCEPT !.issued = I, !.created = C]
  <2> HIDE DEF C
  <2> QED BY <1>1
<1> HIDE DEF d
<1>11. DOMAIN C = DOMAIN b.created \cup {new} /\ \A i \in DOMAIN C : C[i] \in DOMAIN b.forks
  BY <1>2 DEF Insert, BackendOK
<1> HIDE DEF C
<1> DEFINE r == Reassign(d, I, C)
<1>12. /\ BackendOK(r) /\ r.failure = d.failure /\ r.forks = d.forks /\ r.active = d.active
       /\ r.persistent = d.persistent /\ r.fork_init = d.fork_init /\ db_of(r) = db_of(d)
  <2>1. \A i \in DOMAIN I : I[i] \in DOMAIN C BY <1>8, <1>11
  <2>2. \A i \in DOMAIN C : C[i] \in DOMAIN d.forks BY <1>6, <1>9, <1>11
  <2>3. BackendOK(d) BY <1>9
  <2> QED BY <1>7, <2>1, <2>2, <2>3, IdentifiersChanged
<1> HIDE DEF r
<1>13. rolled(b, id, new) = r BY <1>10 DEF r, Reassign
<1> QED BY <1>6, <1>9, <1>12, <1>13

\* and what is left of the journal still has the flag.
LEMMA RolledJournalOK ==
  ASSUME NEW b, NEW j, BackendOK(b), JournalOK(j)
  PROVE  /\ JournalOK(rolled_journal(b, j))
         /\ JournalFlag(j) => JournalFlag(rolled_journal(b, j))
<1> DEFINE some == b.persistent \cup {Caller}
           kept == merge_journaled_state_data(some, j, b.fork_init)
           made == {a \in DOMAIN j : j[a].created /\ j[a].touched}
           whole == merge_journaled_state_data(made, j, kept)
           unmade == {x \in DOMAIN j : ~j[x].created}
           rest == [a \in unmade |-> Loaded(basic(db_of(b), a))]
<1>1. rolled_journal(b, j) = Over(whole, rest) BY DEF rolled_journal
<1>2. JournalOK(b.fork_init) /\ VmAccount \in some BY DEF BackendOK
<1> HIDE DEF some
<1>3. JournalOK(kept) /\ (JournalFlag(j) => JournalFlag(kept)) BY <1>2, MergeJournals
<1> HIDE DEF kept, made
<1>4. JournalOK(whole) /\ (JournalFlag(j) => JournalFlag(whole)) BY <1>3, MergeJournals
<1> HIDE DEF whole, unmade
<1>5. JournalOK(rest) BY DEF JournalOK, Loaded
<1> HIDE DEF rest
<1>6. JournalOK(Over(whole, rest)) BY <1>4, <1>5 DEF JournalOK, Over
<1>7. JournalFlag(whole) => JournalFlag(Over(whole, rest)) BY DEF JournalFlag, Over
<1> QED BY <1>1, <1>4, <1>6, <1>7

\* The backend b with a snapshot of it, and of the journal j, as number n.
Snapped(b, j, number, n, next) ==
  LET snap == [db |-> create_db_snapshot(b), journal |-> j, block |-> number]
  IN  [b EXCEPT !.snapshots = Insert(b.snapshots, n, snap), !.next_snapshot = next]

\* A snapshot that is taken has the form of the state it was taken of.
LEMMA SnapshotTakenOK ==
  ASSUME NEW b, NEW j, NEW number, NEW n, NEW next, BackendOK(b), JournalOK(j)
  PROVE  LET r == Snapped(b, j, number, n, next)
         IN BackendOK(r) /\ r.failure = b.failure /\ db_of(r) = db_of(b)
<1> DEFINE snap == [db |-> create_db_snapshot(b), journal |-> j, block |-> number]
           S == Insert(b.snapshots, n, snap)
           k == ActiveIdx(b)
<1>1. \A f \in create_db_snapshot(b).fork : f.idx \in DOMAIN b.forks /\ ForkOK(f.fork)
  <2>1. CASE b.active = {} BY <2>1 DEF create_db_snapshot
  <2>2. CASE b.active # {}
    <3>1. k \in DOMAIN b.forks BY <2>2 DEF BackendOK, ActiveIdx, TheOne
    <3>2. ForkOK(b.forks[k]) BY <3>1 DEF BackendOK
    <3>3. create_db_snapshot(b).fork = {[id |-> TheOne(b.active)[1], fork_id |-> b.issued[TheOne(b.active)[1]],
                                         idx |-> k, fork |-> b.forks[k]]}
      BY <2>2 DEF create_db_snapshot
    <3> HIDE DEF k
    <3> QED BY <3>1, <3>2, <3>3
  <2> QED BY <2>1, <2>2
<1>2. SnapshotOK(snap, DOMAIN b.forks)
  <2>1. DbOK(create_db_snapshot(b).mem_db) BY DEF create_db_snapshot, BackendOK, NewDb, DbOK
  <2> QED BY <1>1, <2>1 DEF SnapshotOK
<1> HIDE DEF snap
<1>3. \A i \in DOMAIN S : SnapshotOK(S[i], DOMAIN b.forks) BY <1>2 DEF Insert, BackendOK
<1> HIDE DEF S
<1> DEFINE r == [b EXCEPT !.snapshots = S, !.next_snapshot = next]
<1>4. /\ BackendOK(r) /\ r.failure = b.failure
      /\ r.forks = b.forks /\ r.active = b.active /\ r.mem_db = b.mem_db
  BY <1>3 DEF BackendOK
<1>5. r = Snapped(b, j, number, n, next) BY DEF S, snap, Snapped
<1> HIDE DEF r
<1>6. db_of(r) = db_of(b) BY <1>4 DEF db_of, ActiveIdx
<1> QED BY <1>4, <1>5, <1>6

\* Snapshots may be forgotten.
LEMMA SnapshotsForgotten ==
  ASSUME NEW b, NEW S, BackendOK(b), \A i \in DOMAIN S : i \in DOMAIN b.snapshots /\ S[i] = b.snapshots[i]
  PROVE  LET r == [b EXCEPT !.snapshots = S]
         IN BackendOK(r) /\ r.failure = b.failure /\ db_of(r) = db_of(b)
<1> DEFINE r == [b EXCEPT !.snapshots = S]
<1>1. /\ BackendOK(r) /\ r.failure = b.failure
      /\ r.forks = b.forks /\ r.active = b.active /\ r.mem_db = b.mem_db
  BY DEF BackendOK
<1> HIDE DEF r
<1>2. db_of(r) = db_of(b) BY <1>1 DEF db_of, ActiveIdx
<1> QED BY <1>1, <1>2 DEF r

\* An account may become persistent, or cease to be so.
LEMMA PersistOK ==
  ASSUME NEW b, NEW S, BackendOK(b), VmAccount \in S
  PROVE  LET r == [b EXCEPT !.persistent = S]
         IN /\ BackendOK(r) /\ r.failure = b.failure /\ db_of(r) = db_of(b)
            /\ r.issued = b.issued /\ r.created = b.created /\ r.forks = b.forks /\ r.active = b.active
            /\ r.fork_init = b.fork_init
<1> DEFINE r == [b EXCEPT !.persistent = S]
<1>1. /\ BackendOK(r) /\ r.failure = b.failure /\ r.fork_init = b.fork_init /\ r.mem_db = b.mem_db
      /\ r.issued = b.issued /\ r.created = b.created /\ r.forks = b.forks /\ r.active = b.active
  BY DEF BackendOK
<1> HIDE DEF r
<1>2. db_of(r) = db_of(b) BY <1>1 DEF db_of, ActiveIdx
<1> QED BY <1>1, <1>2 DEF r

\* A revert brings back the database of the snapshot and remembers that the
\* flag was set in the journal it drops.
LEMMA RevertStateOK ==
  ASSUME NEW b, NEW j, NEW n \in DOMAIN b.snapshots, NEW keep \in BOOLEAN, BackendOK(b)
  PROVE  LET r == revert_state(b, j, n, keep)
         IN BackendOK(r) /\ (b.failure \/ FailedInJournal(j) => r.failure)
<1> DEFINE fl == b.failure \/ FailedInJournal(j)
           S == IF keep THEN b.snapshots ELSE Restrict(b.snapshots, DOMAIN b.snapshots \ {n})
           snap == b.snapshots[n]
           c == [b EXCEPT !.snapshots = S, !.failure = fl]
<1>1. revert_state(b, j, n, keep) = revert_state_snapshot(c, snap) BY DEF revert_state
<1>2. SnapshotOK(snap, DOMAIN b.forks) BY DEF BackendOK
<1>3. \A i \in DOMAIN S : i \in DOMAIN b.snapshots /\ S[i] = b.snapshots[i] BY DEF Restrict
<1> HIDE DEF snap, S, fl
<1>4. BackendOK(c) /\ (fl => c.failure) /\ c.forks = b.forks
  <2> DEFINE d == [b EXCEPT !.snapshots = S]
  <2>1. BackendOK(d) BY <1>3, SnapshotsForgotten
  <2>2. c = [d EXCEPT !.failure = fl] BY DEF BackendOK
  <2>3. d.forks = b.forks BY DEF BackendOK
  <2> HIDE DEF d, c
  <2>4. BackendOK([d EXCEPT !.failure = fl]) /\ [d EXCEPT !.failure = fl].forks = d.forks
        /\ (fl => [d EXCEPT !.failure = fl].failure)
    BY <2>1 DEF BackendOK
  <2> QED BY <2>2, <2>3, <2>4
<1> HIDE DEF c
<1>5. BackendOK(revert_state_snapshot(c, snap)) /\ revert_state_snapshot(c, snap).failure = c.failure
  <2>1. CASE snap.db.fork = {}
    <3>1. revert_state_snapshot(c, snap) = [c EXCEPT !.mem_db = snap.db.mem_db] BY <2>1 DEF revert_state_snapshot
    <3>2. DbOK(snap.db.mem_db) BY <1>2 DEF SnapshotOK
    <3> QED BY <1>4, <3>1, <3>2 DEF BackendOK
  <2>2. CASE snap.db.fork # {}
    <3> DEFINE f == TheOne(snap.db.fork)
               C == Insert(c.created, f.fork_id, f.idx)
               I == [c.issued EXCEPT ![f.id] = f.fork_id]
               F == [c.forks EXCEPT ![f.idx] = f.fork]
               act == {<<f.id, f.idx>>}
    <3>1. f \in snap.db.fork BY <2>2 DEF TheOne
    <3>2. revert_state_snapshot(c, snap) = [c EXCEPT !.created = C, !.issued = I, !.forks = F, !.active = act]
      BY <2>2 DEF revert_state_snapshot
    <3> HIDE DEF f
    <3>3. f.idx \in DOMAIN c.forks /\ ForkOK(f.fork) BY <1>2, <1>4, <3>1 DEF SnapshotOK
    <3>4. DOMAIN C = DOMAIN c.created \cup {f.fork_id} /\ \A i \in DOMAIN C : C[i] \in DOMAIN c.forks
      BY <1>4, <3>3 DEF Insert, BackendOK
    <3>5. IsSequence(I) BY <1>4, ReplaceInSequence DEF BackendOK
    <3>6. \A i \in DOMAIN I : I[i] \in DOMAIN C BY <1>4, <3>4 DEF BackendOK
    <3>7. \A p \in act : p[2] \in DOMAIN c.forks BY <3>3
    <3>8. BackendOK([c EXCEPT !.forks = F]) /\ [c EXCEPT !.forks = F].failure = c.failure
      BY <1>4, <3>3, OneForkChanged
    <3>9. DOMAIN F = DOMAIN c.forks OBVIOUS
    <3> DEFINE d == [c EXCEPT !.forks = F]
               e == Reassign(d, I, C)
    <3>10. d.forks = F BY <1>4 DEF BackendOK
    <3> HIDE DEF C, I, F, act
    <3>11. revert_state_snapshot(c, snap) = [e EXCEPT !.active = act] BY <3>2, Zenon DEF Reassign
    <3> HIDE DEF d
    <3>12. BackendOK(d) /\ d.failure = c.failure BY <3>8 DEF d
    <3>13. \A i \in DOMAIN C : C[i] \in DOMAIN d.forks BY <3>4, <3>9, <3>10
    <3>14. BackendOK(e) /\ e.failure = d.failure /\ e.forks = d.forks
      BY <3>5, <3>6, <3>12, <3>13, IdentifiersChanged
    <3> HIDE DEF e
    <3>15. BackendOK([e EXCEPT !.active = act]) /\ [e EXCEPT !.active = act].failure = e.failure
      BY <3>7, <3>9, <3>10, <3>14 DEF BackendOK
    <3> QED BY <3>11, <3>12, <3>14, <3>15
  <2> QED BY <2>1, <2>2
<1> QED BY <1>1, <1>4, <1>5 DEF fl

\* A new fork gets an index of its own.
LEMMA CreatedOK ==
  ASSUME NEW b, NEW fork, NEW id, BackendOK(b), ForkOK(fork)
  PROVE  LET r == [b EXCEPT !.forks = Append(b.forks, fork), !.issued = Append(b.issued, id),
                            !.created = Insert(b.created, id, Len(b.forks) + 1)]
         IN BackendOK(r) /\ r.failure = b.failure /\ db_of(r) = db_of(b)
<1> DEFINE F == Append(b.forks, fork)
           I == Append(b.issued, id)
           C == Insert(b.created, id, Len(b.forks) + 1)
<1>1. /\ IsSequence(F) /\ DOMAIN b.forks \subseteq DOMAIN F /\ Len(b.forks) + 1 \in DOMAIN F
      /\ \A k \in DOMAIN F : ForkOK(F[k])
      /\ \A k \in DOMAIN b.forks : F[k] = b.forks[k]
  <2>1. IsSequence(b.forks) /\ \A k \in DOMAIN b.forks : ForkOK(b.forks[k]) BY DEF BackendOK
  <2>2. \A k \in DOMAIN F : IF k \in DOMAIN b.forks THEN F[k] = b.forks[k] ELSE F[k] = fork
    BY <2>1, AppendSequence
  <2> QED BY <2>1, <2>2, AppendSequence
<1>2. IsSequence(I) /\ \A i \in DOMAIN I : I[i] \in DOMAIN b.created \cup {id}
  <2>1. IsSequence(b.issued) /\ \A i \in DOMAIN b.issued : b.issued[i] \in DOMAIN b.created BY DEF BackendOK
  <2>2. \A i \in DOMAIN I : IF i \in DOMAIN b.issued THEN I[i] = b.issued[i] ELSE I[i] = id
    BY <2>1, AppendSequence
  <2> QED BY <2>1, <2>2, AppendSequence
<1>3. DOMAIN C = DOMAIN b.created \cup {id} /\ \A i \in DOMAIN C : C[i] \in DOMAIN F
  BY <1>1 DEF Insert, BackendOK
<1> HIDE DEF F, I, C
<1>4. \A n \in DOMAIN b.snapshots : SnapshotOK(b.snapshots[n], DOMAIN F)
  BY <1>1 DEF BackendOK, SnapshotOK
<1> DEFINE r == [b EXCEPT !.forks = F, !.issued = I, !.created = C]
<1>5. BackendOK(r) /\ r.failure = b.failure /\ r.forks = F /\ r.active = b.active /\ r.mem_db = b.mem_db
  BY <1>1, <1>2, <1>3, <1>4 DEF BackendOK
<1> HIDE DEF r
<1>6. db_of(r) = db_of(b)
  <2>1. CASE b.active = {} BY <1>5, <2>1 DEF db_of
  <2>2. CASE b.active # {}
    <3>1. ActiveIdx(b) \in DOMAIN b.forks BY <2>2 DEF BackendOK, ActiveIdx, TheOne
    <3>2. ActiveIdx(r) = ActiveIdx(b) BY <1>5 DEF ActiveIdx
    <3> QED BY <1>1, <1>5, <2>2, <3>1, <3>2 DEF db_of
  <2> QED BY <2>1, <2>2
<1> QED BY <1>5, <1>6 DEF F, I, C, r

\* A step of the transaction leaves the executor alone.
LEMMA ExecutorKept ==
  ASSUME FailureIInv, UNCHANGED executor,
         BackendOK(backend'), JournalOK(journal'), "failed" \in DOMAIN memory',
         backend.failure => backend'.failure,
         memory'.failed = "now" => backend'.failure \/ JournalFlag(journal'),
         memory'.failed = "earlier" => Remembered(IF executor.kind = "transact" THEN backend' ELSE executor.backend)
  PROVE  FailureIInv'
<1>1. /\ BackendOK(executor.backend) /\ (executor.backend.failure => backend'.failure)
      /\ \A m \in executor.memory :
           /\ "failed" \in DOMAIN m /\ m.failed # "now"
           /\ m.failed = "earlier" => Remembered(executor.backend)
      /\ executor.kind = "call" => executor.memory # {}
  BY DEF FailureIInv
<1> QED BY <1>1 DEF FailureIInv

\* A step that keeps the flags.
LEMMA FailureKept ==
  ASSUME FailureIInv, UNCHANGED executor,
         BackendOK(backend'), JournalOK(journal'),
         "failed" \in DOMAIN memory', memory'.failed = memory.failed,
         backend'.failure = backend.failure,
         JournalFlag(journal) => JournalFlag(journal'),
         DbFlag(db_of(backend)) => DbFlag(db_of(backend'))
  PROVE  FailureIInv'
<1>1. Remembered(backend) => Remembered(backend') BY DEF Remembered
<1>2. memory.failed = "earlier" => Remembered(IF executor.kind = "transact" THEN backend ELSE executor.backend)
  BY DEF FailureIInv
<1>3. memory'.failed = "earlier" => Remembered(IF executor.kind = "transact" THEN backend' ELSE executor.backend)
  BY <1>1, <1>2
<1>4. memory'.failed = "now" => backend'.failure \/ JournalFlag(journal') BY DEF FailureIInv
<1> QED BY <1>3, <1>4, ExecutorKept

\* What happens to the history of a transaction.
LEMMA SteppedKeepsFailed ==
  ASSUME "failed" \in DOMAIN memory
  PROVE  /\ "failed" \in DOMAIN Stepped /\ Stepped.failed = memory.failed
         /\ "failed" \in DOMAIN Wrote /\ Wrote.failed = memory.failed
         /\ \A last : LET m == [Stepped EXCEPT !.last = last] IN "failed" \in DOMAIN m /\ m.failed = memory.failed
BY DEF Stepped, Wrote

\* The cheatcodes that make their caller persistent.
LEMMA SharedKeepsFailed ==
  ASSUME "failed" \in DOMAIN memory, NEW by
  PROVE  /\ "failed" \in DOMAIN Shared(by) /\ Shared(by).failed = memory.failed
         /\ \A last : LET m == [Shared(by) EXCEPT !.last = last] IN "failed" \in DOMAIN m /\ m.failed = memory.failed
BY SteppedKeepsFailed DEF Shared

LEMMA PersistCallerOK ==
  ASSUME NEW by, BackendOK(backend)
  PROVE  LET r == persist_caller(by)
         IN /\ BackendOK(r) /\ r.failure = backend.failure /\ db_of(r) = db_of(backend)
            /\ r.issued = backend.issued /\ r.created = backend.created /\ r.forks = backend.forks
            /\ r.active = backend.active /\ r.fork_init = backend.fork_init
<1> DEFINE S == backend.persistent \cup {by}
<1>1. persist_caller(by) = [backend EXCEPT !.persistent = S] BY DEF persist_caller
<1>2. VmAccount \in S BY DEF BackendOK
<1> HIDE DEF S
<1> QED BY <1>1, <1>2, PersistOK

\* The journals and backends at the start.
LEMMA FailureInit == ForkInit => FailureIInv
<1> SUFFICES ASSUME ForkInit PROVE FailureIInv BY Zenon
<1>1. BackendOK(NewBackend)
  <2>1. << >> \in Seq(Nat) OBVIOUS
  <2>2. IsSequence(<< >>) BY <2>1, SequenceOf, Zenon
  <2> DEFINE b == NewBackend
  <2>3. DOMAIN b = {"mem_db", "fork_init", "active", "issued", "created", "forks", "snapshots",
                    "next_snapshot", "persistent", "failure"}
    BY ONLY TRUE DEF NewBackend
  <2>4. /\ b.fork_init = << >> /\ b.forks = << >> /\ b.issued = << >> /\ b.created = << >>
        /\ b.snapshots = << >> /\ b.active = {} /\ b.persistent = {VmAccount, TestContract}
    BY ONLY TRUE DEF NewBackend
  <2>5. DOMAIN << >> = {} BY ONLY TRUE
  <2>6. DbOK(b.mem_db) BY ONLY TRUE DEF NewBackend, DbOK
  <2> HIDE DEF b
  <2>7. JournalOK(b.fork_init) BY ONLY <2>4, <2>5 DEF JournalOK
  <2>8. BackendOK(b) BY ONLY <2>2, <2>3, <2>4, <2>5, <2>6, <2>7 DEF BackendOK
  <2> QED BY <2>8 DEF b
<1>2. JournalOK(NewTransaction(NewBackend)) BY ForkAssumption DEF NewTransaction, JournalOK
<1>3. executor.backend = NewBackend /\ executor.kind = "transact" /\ executor.memory = {} BY DEF ForkInit
<1>4. memory.failed = "no" /\ "failed" \in DOMAIN memory BY DEF ForkInit
<1> QED BY <1>1, <1>2, <1>3, <1>4 DEF ForkInit, FailureIInv

\* A read leaves the flag as it is.
LEMMA LoadStep ==
  ASSUME FailureIInv, NEW a, NEW cells, Load(a, cells)
  PROVE  FailureIInv'
<1> DEFINE j == load_account(journal, db_of(backend), a)
           v == {storage(db_of(backend), a)}
<1>0. BackendOK(backend) /\ JournalOK(journal) /\ "failed" \in DOMAIN memory BY DEF FailureIInv
<1>1. /\ JournalOK(j) /\ a \in DOMAIN j
      /\ \A o \in DOMAIN journal : o \in DOMAIN j /\ j[o] = journal[o]
      /\ a \notin DOMAIN journal => ~j[a].touched
  BY <1>0, LoadAccount
<1>2. /\ memory' = Stepped /\ UNCHANGED executor
      /\ backend' = with_db(backend, cached(db_of(backend), a, cells))
      /\ journal' = IF "slot" \in cells THEN [j EXCEPT ![a].slot = v] ELSE j
  BY DEF Load
<1>3. "slot" \in cells /\ a \in DOMAIN journal => journal[a].slot = {} BY DEF Load, SlotsIn
<1> HIDE DEF j, v
<1>4. JournalFlag(journal) => JournalFlag(j) BY <1>1 DEF JournalFlag
<1>5. JournalOK(journal') /\ (JournalFlag(journal) => JournalFlag(journal'))
  <2>1. CASE "slot" \notin cells BY <1>1, <1>2, <1>4, <2>1
  <2>2. CASE "slot" \in cells
    <3>1. journal' = [j EXCEPT ![a] = [j[a] EXCEPT !.slot = v]] BY <1>2, <2>2
    <3>2. a = VmAccount => ~j[a].touched
      <4>1. a = VmAccount /\ a \in DOMAIN journal => ~journal[a].touched
        BY <1>0, <1>3, <2>2 DEF JournalOK, Flagged
      <4> QED BY <1>1, <4>1
    <3>3. DOMAIN [j[a] EXCEPT !.slot = v] = DOMAIN j[a] /\ [j[a] EXCEPT !.slot = v].touched = j[a].touched
      OBVIOUS
    <3> DEFINE e == [j[a] EXCEPT !.slot = v]
    <3> HIDE DEF e
    <3>4. journal' = [j EXCEPT ![a] = e] /\ DOMAIN e = DOMAIN j[a] /\ e.touched = j[a].touched
      BY <3>1, <3>3 DEF e
    <3> QED BY <1>1, <1>4, <3>2, <3>4 DEF JournalOK, JournalFlag
  <2> QED BY <2>1, <2>2
<1>6. BackendOK(backend') /\ backend'.failure = backend.failure /\ (DbFlag(db_of(backend)) => DbFlag(db_of(backend')))
  BY <1>0, <1>2, CacheOK
<1> QED BY <1>0, <1>2, <1>5, <1>6, FailureKept, SteppedKeepsFailed

\* Writes and deployments concern other accounts.
LEMMA AccessStep ==
  ASSUME FailureIInv, NEW a \in Accounts \cup {Deployed},
         \/ \E cell \in {"info", "slot"} : Write(a, cell)
         \/ Deploy
  PROVE  FailureIInv'
<1>0. /\ BackendOK(backend) /\ JournalOK(journal) /\ "failed" \in DOMAIN memory
      /\ a # VmAccount /\ Deployed # VmAccount
  BY ForkAssumption DEF FailureIInv
<1> DEFINE j == load_account(journal, db_of(backend), a)
<1>1. /\ JournalOK(j) /\ a \in DOMAIN j
      /\ \A o \in DOMAIN journal : o \in DOMAIN j /\ j[o] = journal[o]
  BY <1>0, LoadAccount
<1> HIDE DEF j
<1>2. ASSUME NEW e PROVE JournalOK([j EXCEPT ![a] = e]) /\ (JournalFlag(journal) => JournalFlag([j EXCEPT ![a] = e]))
  BY <1>0, <1>1 DEF JournalOK, JournalFlag
<1>3. ASSUME NEW cell \in {"info", "slot"}, Write(a, cell) PROVE FailureIInv'
  <2> DEFINE t == [j EXCEPT ![a].touched = TRUE]
  <2>1. UNCHANGED executor /\ backend' = with_db(backend, cached(db_of(backend), a, {cell})) BY <1>3 DEF Write
  <2>2. \E e : journal' = [j EXCEPT ![a] = e]
    <3>1. ASSUME NEW s, journal' = [t EXCEPT ![a].slot = s] PROVE \E e : journal' = [j EXCEPT ![a] = e]
      <4>1. journal' = [j EXCEPT ![a] = [t[a] EXCEPT !.slot = s]] BY <3>1, Zenon
      <4> HIDE DEF t
      <4> QED BY <4>1, Zenon
    <3>2. ASSUME NEW s, journal' = [t EXCEPT ![a].info = s] PROVE \E e : journal' = [j EXCEPT ![a] = e]
      <4>1. journal' = [j EXCEPT ![a] = [t[a] EXCEPT !.info = s]] BY <3>2, Zenon
      <4> HIDE DEF t
      <4> QED BY <4>1, Zenon
    <3>3. \/ journal' = [t EXCEPT ![a].slot = {Written(Len(memory.wrote) + 1)}]
          \/ journal' = [t EXCEPT ![a].info = Written(Len(memory.wrote) + 1)]
      BY <1>3, Zenon DEF Write, j
    <3> QED BY <3>1, <3>2, <3>3
  <2>3. "failed" \in DOMAIN memory' /\ memory'.failed = memory.failed
    <3>1. \/ memory' = Wrote
          \/ memory' = [Wrote EXCEPT !.last[Owner] = Insert(@, a, Written(Len(memory.wrote) + 1))]
      BY <1>3 DEF Write
    <3>2. "failed" \in DOMAIN Wrote /\ Wrote.failed = memory.failed BY <1>0, SteppedKeepsFailed
    <3> QED BY <3>1, <3>2
  <2>4. BackendOK(backend') /\ backend'.failure = backend.failure /\ (DbFlag(db_of(backend)) => DbFlag(db_of(backend')))
    BY <1>0, <2>1, CacheOK
  <2>5. JournalOK(journal') /\ (JournalFlag(journal) => JournalFlag(journal')) BY <1>2, <2>2, Zenon
  <2> QED BY <2>1, <2>3, <2>4, <2>5, FailureKept
<1>4. CASE Deploy
  <2> DEFINE e == [info |-> Written(Len(memory.wrote) + 1), slot |-> {}, created |-> TRUE, touched |-> TRUE]
  <2>1. /\ journal' = Insert(journal, Deployed, e) /\ memory' = Wrote
        /\ UNCHANGED <<backend, executor>>
    BY <1>4 DEF Deploy
  <2> HIDE DEF e
  <2>2. JournalOK(journal') /\ (JournalFlag(journal) => JournalFlag(journal'))
    BY <1>0, <2>1 DEF JournalOK, JournalFlag, Insert
  <2>3. "failed" \in DOMAIN memory' /\ memory'.failed = memory.failed BY <1>0, <2>1, SteppedKeepsFailed
  <2> QED BY <1>0, <2>1, <2>2, <2>3, FailureKept, Zenon
<1> QED BY <1>3, <1>4

\* A failed assertion sets the flag.
LEMMA FailStep == ASSUME FailureIInv, Fail PROVE FailureIInv'
<1> DEFINE j == load_account(journal, db_of(backend), VmAccount)
           w == {Written(Len(memory.wrote) + 1)}
           e == [[j[VmAccount] EXCEPT !.slot = w] EXCEPT !.touched = TRUE]
<1>1. JournalOK(j) /\ VmAccount \in DOMAIN j BY LoadAccount DEF FailureIInv
<1>2. /\ UNCHANGED <<backend, executor>> /\ memory' = [Wrote EXCEPT !.failed = "now"]
      /\ journal' = [[j EXCEPT ![VmAccount].slot = w] EXCEPT ![VmAccount].touched = TRUE]
  BY DEF Fail
<1>3. \A v \in w : FlagSet(v)
  BY DEF FlagSet, Written, Nowhere
<1>4. w # {} OBVIOUS
<1> HIDE DEF j, w
<1>5. journal' = [j EXCEPT ![VmAccount] = e] BY <1>1, <1>2, Zenon
<1>6. DOMAIN e = {"info", "slot", "created", "touched"} /\ e.slot = w /\ e.touched BY <1>1 DEF JournalOK
<1> HIDE DEF e
<1>7. JournalOK(journal') /\ JournalFlag(journal')
  BY <1>1, <1>3, <1>4, <1>5, <1>6 DEF JournalOK, JournalFlag, Flagged
<1>8. "failed" \in DOMAIN memory' /\ memory'.failed = "now"
  <2>1. "failed" \in DOMAIN Wrote BY SteppedKeepsFailed DEF FailureIInv
  <2> QED BY <1>2, <2>1
<1> QED BY <1>2, <1>7, <1>8 DEF FailureIInv

\* The fork cheatcodes.
LEMMA ForkStep ==
  ASSUME FailureIInv, NEW by,
         \/ \E url \in Urls, number \in Blocks : createFork(url, number, by)
         \/ \E id \in DOMAIN backend.issued : selectFork(id, by)
         \/ selectForkFails(by)
         \/ \E id \in DOMAIN backend.issued, number \in Blocks : rollFork(id, number, by)
  PROVE  FailureIInv'
<1> DEFINE p == persist_caller(by)
<1>0. /\ BackendOK(backend) /\ JournalOK(journal) /\ "failed" \in DOMAIN memory
      /\ BackendOK(p) /\ p.failure = backend.failure /\ db_of(p) = db_of(backend) /\ p.fork_init = backend.fork_init
      /\ p.issued = backend.issued /\ p.created = backend.created /\ p.forks = backend.forks /\ p.active = backend.active
  BY PersistCallerOK DEF FailureIInv
<1> HIDE DEF p
<1>1. ASSUME NEW url, NEW number, createFork(url, number, by) PROVE FailureIInv'
  <2> DEFINE new == insert_new_fork(handler, url, number)
             db == NewDb({[url |-> url, number |-> number]})
             fork == [db |-> db, journal |-> backend.fork_init, fresh |-> TRUE]
             id == new.id
             r == [p EXCEPT !.forks = Append(p.forks, fork), !.issued = Append(p.issued, id),
                            !.created = Insert(p.created, id, Len(p.forks) + 1)]
  <2>1. /\ backend' = [p EXCEPT !.forks = Append(p.forks, fork), !.issued = Append(p.issued, id),
                                !.created = Insert(p.created, id, Len(backend.forks) + 1)]
        /\ UNCHANGED <<journal, executor>>
        /\ \E last : memory' = [Shared(by) EXCEPT !.last = last]
    BY <1>1, Zenon DEF createFork, p
  <2>2. DbOK(db) BY DEF DbOK, NewDb
  <2> HIDE DEF db, new
  <2>3. ForkOK(fork) BY <1>0, <2>2 DEF ForkOK, BackendOK
  <2> HIDE DEF fork, id
  <2>4. BackendOK(p) BY <1>0
  <2>5. BackendOK(r) /\ r.failure = p.failure /\ db_of(r) = db_of(p) BY ONLY <2>3, <2>4, CreatedOK, Zenon
  <2>6. backend' = r BY <1>0, <2>1
  <2> HIDE DEF r
  <2>7. "failed" \in DOMAIN memory' /\ memory'.failed = memory.failed BY <1>0, <2>1, SharedKeepsFailed
  <2> QED BY <1>0, <2>1, <2>5, <2>6, <2>7, FailureKept
<1>2. ASSUME NEW id \in DOMAIN backend.issued, selectFork(id, by) PROVE FailureIInv'
  <2> DEFINE k == p.created[p.issued[id]]
  <2>1. /\ backend' = select_fork(p, journal, id) /\ UNCHANGED executor
        /\ journal' = backend'.forks[ActiveIdx(backend')].journal
        /\ memory' = [Shared(by) EXCEPT !.last = LastAfterSelect(id, p.persistent)]
    BY <1>2 DEF selectFork, p
  <2>2. Switch(backend', p, journal, k)
    <3>1. id \in DOMAIN p.issued BY <1>0
    <3> QED BY <1>0, <2>1, <3>1, SelectForkOK
  <2> HIDE DEF k
  <2>3. /\ BackendOK(backend') /\ backend'.failure = p.failure /\ journal' = backend'.forks[k].journal
        /\ DbFlag(db_of(p)) => DbFlag(db_of(backend'))
    BY <2>1, <2>2 DEF Switch
  <2>4. JournalFlag(journal) => JournalFlag(journal') BY <2>2, <2>3 DEF Switch
  <2>5. JournalOK(journal') BY <2>2, <2>3 DEF Switch, BackendOK, ForkOK
  <2>6. "failed" \in DOMAIN memory' /\ memory'.failed = memory.failed BY <1>0, <2>1, SharedKeepsFailed
  <2> QED BY <1>0, <2>1, <2>3, <2>4, <2>5, <2>6, FailureKept
<1>3. ASSUME NEW id \in DOMAIN backend.issued, NEW number, rollFork(id, number, by) PROVE FailureIInv'
  <2> DEFINE new == insert_new_fork(handler, backend.issued[id][1], number)
             b == rolled(p, id, new.id)
             j == rolled_journal(b, journal)
             S == {a \in DOMAIN journal : ~journal[a].created} \cap DOMAIN j
             k == ActiveIdx(b)
             fork == [b.forks[k] EXCEPT !.journal = j, !.db = reread(b.forks[k].db, S)]
  <2>1. /\ BackendOK(b) /\ b.failure = backend.failure /\ b.active = backend.active
        /\ DbFlag(db_of(backend)) => DbFlag(db_of(b))
    <3>1. id \in DOMAIN p.issued BY <1>0
    <3>2. BackendOK(p) BY <1>0
    <3> HIDE DEF new
    <3>3. /\ BackendOK(b) /\ b.failure = p.failure /\ b.active = p.active
          /\ DbFlag(db_of(p)) => DbFlag(db_of(b))
      BY ONLY <3>1, <3>2, RolledOK, Zenon
    <3> QED BY <1>0, <3>3
  <2>2. JournalOK(j) /\ (JournalFlag(journal) => JournalFlag(j)) BY <1>0, <2>1, RolledJournalOK
  <2>3. "failed" \in DOMAIN memory' /\ memory'.failed = memory.failed /\ UNCHANGED executor
    <3>1. UNCHANGED executor /\ \E l : memory' = [Shared(by) EXCEPT !.last[id] = l]
      BY <1>3, Zenon DEF rollFork
    <3>2. PICK l : memory' = [Shared(by) EXCEPT !.last[id] = l] BY <3>1, Zenon
    <3>3. memory' = [Shared(by) EXCEPT !.last = [Shared(by).last EXCEPT ![id] = l]] BY <3>2
    <3> QED BY <1>0, <3>1, <3>3, SharedKeepsFailed
  <2>4. CASE Owner # id
    <3>1. backend' = b /\ journal' = journal BY <1>3, <2>4, Zenon DEF rollFork, p
    <3> QED BY <1>0, <2>1, <2>3, <3>1, FailureKept, Zenon
  <2>5. CASE Owner = id
    <3>0. 0 \notin DOMAIN backend.issued BY <1>0, NoZerothElement DEF BackendOK
    <3>1. journal' = j
          /\ backend' = [b EXCEPT !.forks[k].journal = j, !.forks[k].db = reread(@, S)]
      BY <1>3, <2>5, Zenon DEF rollFork, p
    <3>2. k \in DOMAIN b.forks
      <4>1. b.active # {} BY <2>1, <2>5, <3>0, Zenon DEF Owner, OwnerOf
      <4> QED BY <2>1, <4>1, Zenon DEF BackendOK, ActiveIdx, TheOne
    <3> HIDE DEF b, j, k
    <3>3. ForkOK(b.forks[k]) BY <2>1, <3>2 DEF BackendOK
    <3>4. "forks" \in DOMAIN b BY <2>1 DEF BackendOK
    <3>5. backend' = [b EXCEPT !.forks = [b.forks EXCEPT ![k] = fork]]
      <4>1. [b EXCEPT !.forks[k].journal = j].forks[k].db = b.forks[k].db
        BY <3>2, <3>3, <3>4 DEF ForkOK
      <4>2. backend' = [[b EXCEPT !.forks[k].journal = j] EXCEPT !.forks[k].db = reread(b.forks[k].db, S)]
        BY <3>1, <4>1
      <4> HIDE DEF S
      <4> DEFINE D == reread(b.forks[k].db, S)
                 F1 == [b.forks EXCEPT ![k] = [b.forks[k] EXCEPT !.journal = j]]
      <4> HIDE DEF D
      <4>3. [b EXCEPT !.forks[k].journal = j] = [b EXCEPT !.forks = F1] BY <3>4
      <4>4. [b EXCEPT !.forks = F1].forks = F1 BY <3>4
      <4>5. backend' = [[b EXCEPT !.forks = F1] EXCEPT !.forks[k].db = D] BY <4>2, <4>3 DEF D
      <4>6. F1[k] = [b.forks[k] EXCEPT !.journal = j] BY <3>2
      <4>7. fork = [F1[k] EXCEPT !.db = D] BY <4>6, Zenon DEF D
      <4> HIDE DEF fork
      <4> DEFINE c == [b EXCEPT !.forks = F1]
      <4>8. backend' = [c EXCEPT !.forks = [c.forks EXCEPT ![k] = [c.forks[k] EXCEPT !.db = D]]] BY <4>5
      <4>9. backend' = [c EXCEPT !.forks = [F1 EXCEPT ![k] = fork]] BY <4>4, <4>7, <4>8
      <4> HIDE DEF F1
      <4>10. backend' = [b EXCEPT !.forks = [F1 EXCEPT ![k] = fork]] BY <4>9, Zenon
      <4> USE DEF F1
      <4>11. [F1 EXCEPT ![k] = fork] = [b.forks EXCEPT ![k] = fork] OBVIOUS
      <4> QED BY <4>10, <4>11
    <3>6. ForkOK(fork) /\ (DbFlag(b.forks[k].db) => DbFlag(fork.db))
      <4> DEFINE D == reread(b.forks[k].db, S)
      <4>0. DbOK(D) /\ (DbFlag(b.forks[k].db) => DbFlag(D)) BY <3>3, RereadFlag DEF ForkOK
      <4> HIDE DEF D
      <4>1. ForkOK([b.forks[k] EXCEPT !.journal = j, !.db = D]) /\ [b.forks[k] EXCEPT !.journal = j, !.db = D].db = D
        BY <2>2, <3>3, <4>0 DEF ForkOK
      <4> QED BY <4>0, <4>1 DEF D
    <3> HIDE DEF fork
    <3>7. BackendOK(backend') /\ backend'.failure = b.failure /\ (DbFlag(db_of(b)) => DbFlag(db_of(backend')))
      BY <2>1, <3>2, <3>5, <3>6, OneForkChanged
    <3> QED BY <2>1, <2>2, <2>3, <3>1, <3>7, FailureKept
  <2> QED BY <2>4, <2>5
<1>4. CASE selectForkFails(by)
  <2>1. backend' = p /\ memory' = Shared(by) /\ UNCHANGED <<journal, executor>> BY <1>4 DEF selectForkFails, p
  <2>2. "failed" \in DOMAIN memory' /\ memory'.failed = memory.failed BY <1>0, <2>1, SharedKeepsFailed
  <2> QED BY <1>0, <2>1, <2>2, FailureKept
<1> QED BY <1>1, <1>2, <1>3, <1>4

\* The accounts that are persistent.
LEMMA PersistStep ==
  ASSUME FailureIInv, NEW a \in Accounts \cup {Deployed}, makePersistent(a) \/ revokePersistent(a)
  PROVE  FailureIInv'
<1>0. BackendOK(backend) /\ JournalOK(journal) /\ "failed" \in DOMAIN memory BY DEF FailureIInv
<1>1. a # VmAccount BY ForkAssumption
<1>2. /\ UNCHANGED <<journal, executor>>
      /\ \E S : VmAccount \in S /\ backend' = [backend EXCEPT !.persistent = S]
  BY <1>0, <1>1 DEF makePersistent, revokePersistent, BackendOK
<1>3. BackendOK(backend') /\ backend'.failure = backend.failure /\ db_of(backend') = db_of(backend)
  BY <1>0, <1>2, PersistOK
<1>4. "failed" \in DOMAIN memory' /\ memory'.failed = memory.failed
  <2>1. memory' = Stepped \/ memory' = [Stepped EXCEPT !.shared = @ \cup {a}]
    BY DEF makePersistent, revokePersistent
  <2>2. "failed" \in DOMAIN Stepped /\ Stepped.failed = memory.failed BY <1>0, SteppedKeepsFailed
  <2> QED BY <2>1, <2>2
<1> QED BY <1>0, <1>2, <1>3, <1>4, FailureKept

\* Snapshots, and what leaves both backend and journal alone.
LEMMA SnapshotStep ==
  ASSUME FailureIInv,
         \/ snapshotState
         \/ \E n \in DOMAIN backend.snapshots, keep \in BOOLEAN : revertToState(n, keep)
         \/ \E n \in DOMAIN backend.snapshots : deleteStateSnapshot(n)
         \/ deleteStateSnapshots
         \/ \E n \in Rolls : roll(n)
  PROVE  FailureIInv'
<1>0. BackendOK(backend) /\ JournalOK(journal) /\ "failed" \in DOMAIN memory BY DEF FailureIInv
<1>1. CASE snapshotState
  <2> DEFINE snap == [db |-> create_db_snapshot(backend), journal |-> journal, block |-> block]
             n == backend.next_snapshot
             next == n + 1
  <2>1. /\ backend' = [backend EXCEPT !.snapshots = Insert(backend.snapshots, n, snap), !.next_snapshot = next]
        /\ UNCHANGED <<journal, executor>>
    BY <1>1 DEF snapshotState
  <2>2. "failed" \in DOMAIN memory' /\ memory'.failed = memory.failed
    <3>1. memory' = [Stepped EXCEPT !.snapped = Insert(@, n, memory.last[Owner])] BY <1>1 DEF snapshotState
    <3>2. "failed" \in DOMAIN Stepped /\ Stepped.failed = memory.failed BY <1>0, SteppedKeepsFailed
    <3> QED BY <3>1, <3>2
  <2>3. BackendOK(backend') /\ backend'.failure = backend.failure /\ db_of(backend') = db_of(backend)
    <3>1. backend' = Snapped(backend, journal, block, n, next) BY <2>1 DEF Snapped
    <3> HIDE DEF n, next
    <3> QED BY <1>0, <3>1, SnapshotTakenOK
  <2> QED BY <1>0, <2>1, <2>2, <2>3, FailureKept
<1>2. ASSUME NEW n \in DOMAIN backend.snapshots, NEW keep \in BOOLEAN, revertToState(n, keep) PROVE FailureIInv'
  <2>1. /\ backend' = revert_state(backend, journal, n, keep) /\ UNCHANGED executor
        /\ journal' = backend.snapshots[n].journal
        /\ memory' = [Stepped EXCEPT !.last = LastAfterRevert(n), !.failed = FailedAfterRevert]
    BY <1>2, Zenon DEF revertToState
  <2>2. BackendOK(backend') /\ (backend.failure \/ JournalFlag(journal) => backend'.failure)
    <3>1. BackendOK(backend') /\ (backend.failure \/ FailedInJournal(journal) => backend'.failure)
      BY <1>0, <2>1, RevertStateOK, Zenon
    <3> QED BY <1>0, <3>1, FlagShown
  <2>3. JournalOK(journal') BY <1>0, <2>1 DEF BackendOK, SnapshotOK
  <2>4. "failed" \in DOMAIN memory' /\ memory'.failed = FailedAfterRevert
    <3>1. "failed" \in DOMAIN Stepped BY <1>0, SteppedKeepsFailed
    <3> QED BY <2>1, <3>1
  <2>5. memory'.failed = "now" => memory.failed = "now" BY <2>4 DEF FailedAfterRevert
  <2>6. memory'.failed = "earlier" => memory.failed = "earlier" /\ executor.kind # "transact"
    BY <2>4 DEF FailedAfterRevert
  <2>7. memory'.failed = "now" => backend'.failure \/ JournalFlag(journal') BY <2>2, <2>5 DEF FailureIInv
  <2>8. memory'.failed = "earlier" => Remembered(IF executor.kind = "transact" THEN backend' ELSE executor.backend)
    BY <2>6 DEF FailureIInv
  <2> QED BY <2>1, <2>2, <2>3, <2>4, <2>7, <2>8, ExecutorKept
<1>3. CASE (\E n \in DOMAIN backend.snapshots : deleteStateSnapshot(n)) \/ deleteStateSnapshots
  <2>1. /\ UNCHANGED <<journal, executor>> /\ memory' = Stepped
        /\ \E S : /\ \A i \in DOMAIN S : i \in DOMAIN backend.snapshots /\ S[i] = backend.snapshots[i]
                  /\ backend' = [backend EXCEPT !.snapshots = S]
    <3>1. CASE deleteStateSnapshots
      <4> DEFINE S == << >>
      <4>1. \A i \in DOMAIN S : i \in DOMAIN backend.snapshots /\ S[i] = backend.snapshots[i] OBVIOUS
      <4>2. backend' = [backend EXCEPT !.snapshots = S] /\ memory' = Stepped /\ UNCHANGED <<journal, executor>>
        BY <3>1 DEF deleteStateSnapshots
      <4> HIDE DEF S
      <4> QED BY <4>1, <4>2, Zenon
    <3>2. ASSUME NEW n \in DOMAIN backend.snapshots, deleteStateSnapshot(n)
          PROVE  \E S : /\ \A i \in DOMAIN S : i \in DOMAIN backend.snapshots /\ S[i] = backend.snapshots[i]
                        /\ backend' = [backend EXCEPT !.snapshots = S]
      <4> DEFINE S == Restrict(backend.snapshots, DOMAIN backend.snapshots \ {n})
      <4>1. \A i \in DOMAIN S : i \in DOMAIN backend.snapshots /\ S[i] = backend.snapshots[i] BY DEF Restrict
      <4>2. backend' = [backend EXCEPT !.snapshots = S] BY <3>2 DEF deleteStateSnapshot
      <4> HIDE DEF S
      <4> QED BY <4>1, <4>2, Zenon
    <3> QED BY <1>3, <3>1, <3>2, Zenon DEF deleteStateSnapshot
  <2>2. BackendOK(backend') /\ backend'.failure = backend.failure /\ db_of(backend') = db_of(backend)
    BY <1>0, <2>1, SnapshotsForgotten
  <2> QED BY <1>0, <2>1, <2>2, FailureKept, SteppedKeepsFailed
<1>4. ASSUME NEW n \in Rolls, roll(n) PROVE FailureIInv'
  <2>1. UNCHANGED <<backend, journal, executor>> /\ memory' = Stepped BY <1>4 DEF roll
  <2> QED BY <1>0, <2>1, FailureKept, SteppedKeepsFailed
<1> QED BY <1>1, <1>2, <1>3, <1>4

\* A transaction commits the flag with the rest; a call leaves what the executor
\* had.
LEMMA RunStep ==
  ASSUME FailureIInv, NEW kind \in Kinds, transact_with_env(kind) \/ call_with_env(kind)
  PROVE  FailureIInv'
<1>1. ASSUME NEW b, NEW number, NEW m, StartRun(b, number, m, kind),
             BackendOK(b), "failed" \in DOMAIN m, m.failed # "now", m.failed = "earlier" => Remembered(b)
      PROVE  FailureIInv'
  <2>1. /\ backend' = b /\ journal' = NewTransaction(b)
        /\ memory' = [m EXCEPT !.runs = memory.runs + 1, !.steps = memory.steps]
        /\ executor' = [kind |-> kind, backend |-> b, block |-> number, memory |-> {m}]
    BY <1>1 DEF StartRun
  <2>2. JournalOK(journal') BY <2>1, ForkAssumption DEF NewTransaction, JournalOK
  <2>3. "failed" \in DOMAIN memory' /\ memory'.failed = m.failed BY <1>1, <2>1
  <2>4. executor'.backend = b /\ executor'.memory = {m} BY <2>1
  <2> QED BY <1>1, <2>1, <2>2, <2>3, <2>4 DEF FailureIInv
<1>2. CASE transact_with_env(kind)
  <2> DEFINE b == commit(backend, journal)
             m == [memory EXCEPT !.failed = IF @ = "now" THEN "earlier" ELSE @]
  <2>1. BackendOK(b) /\ b.failure = backend.failure /\ (JournalFlag(journal) \/ DbFlag(db_of(backend)) => DbFlag(db_of(b)))
    BY CommitOK DEF FailureIInv
  <2>2. StartRun(b, block, m, kind) /\ executor.kind = "transact" BY <1>2 DEF transact_with_env
  <2>3. "failed" \in DOMAIN m /\ m.failed = IF memory.failed = "now" THEN "earlier" ELSE memory.failed
    BY DEF FailureIInv
  <2> HIDE DEF b, m
  <2>4. m.failed = "earlier" => Remembered(b)
    <3>1. memory.failed = "now" => Remembered(b) BY <2>1 DEF FailureIInv, Remembered
    <3>2. memory.failed = "earlier" => Remembered(b) BY <2>1, <2>2 DEF FailureIInv, Remembered
    <3> QED BY <2>3, <3>1, <3>2
  <2>5. m.failed # "now" BY <2>3
  <2> QED BY <1>1, <2>1, <2>2, <2>3, <2>4, <2>5
<1>3. CASE call_with_env(kind)
  <2>1. TheOne(executor.memory) \in executor.memory BY <1>3 DEF call_with_env, TheOne, FailureIInv
  <2>2. StartRun(executor.backend, executor.block, TheOne(executor.memory), kind) BY <1>3 DEF call_with_env
  <2> QED BY <1>1, <2>1, <2>2 DEF FailureIInv
<1> QED BY <1>2, <1>3

\* Every step of the backend keeps it.
LEMMA FailureNext == FailureIInv /\ [ForkNext]_fork_vars => FailureIInv'
<1> SUFFICES ASSUME FailureIInv, [ForkNext]_fork_vars PROVE FailureIInv' OBVIOUS
<1>1. CASE UNCHANGED fork_vars
  BY <1>1 DEF FailureIInv, fork_vars
<1>2. CASE \E a \in Accounts \cup {Deployed, VmAccount}, cells \in {{}, {"slot"}} : Load(a, cells)
  BY <1>2, LoadStep
<1>3. CASE \E a \in Accounts \cup {Deployed} : (\E cell \in {"info", "slot"} : Write(a, cell)) \/ Deploy
  BY <1>3, AccessStep
<1>4. CASE Fail BY <1>4, FailStep
<1>5. CASE \E by \in Users :
             \/ \E url \in Urls, number \in Blocks : createFork(url, number, by)
             \/ \E id \in DOMAIN backend.issued : selectFork(id, by)
             \/ selectForkFails(by)
             \/ \E id \in DOMAIN backend.issued, number \in Blocks : rollFork(id, number, by)
  BY <1>5, ForkStep
<1>6. CASE \E a \in Accounts \cup {Deployed} : makePersistent(a) \/ revokePersistent(a)
  BY <1>6, PersistStep
<1>7. CASE \/ snapshotState
           \/ \E n \in DOMAIN backend.snapshots, keep \in BOOLEAN : revertToState(n, keep)
           \/ \E n \in DOMAIN backend.snapshots : deleteStateSnapshot(n)
           \/ deleteStateSnapshots
           \/ \E n \in Rolls : roll(n)
  BY <1>7, SnapshotStep
<1>8. CASE \E kind \in Kinds : transact_with_env(kind) \/ call_with_env(kind)
  BY <1>8, RunStep
<1>9. Deploy => \E a \in Accounts \cup {Deployed} : Deploy OBVIOUS
<1> QED BY <1>1, <1>2, <1>3, <1>4, <1>5, <1>6, <1>7, <1>8, <1>9 DEF ForkNext

\* A failed assertion is not lost: whatever a test selects, rolls, snapshots or
\* reverts after it in the same transaction or call, and whatever later
\* transactions and calls do short of reverting to a snapshot, is_success
\* (executors/mod.rs) answers no, for any number of forks, snapshots and runs.
THEOREM FailuresKept == ForkSpec => []FailuresAreNotLost
<1>1. FailureIInv => FailuresAreNotLost
  <2> SUFFICES ASSUME FailureIInv, memory.failed \in {"now", "earlier"} PROVE ~is_success
    BY DEF FailuresAreNotLost
  <2>1. CASE memory.failed = "now"
    BY <2>1, FlagShown DEF FailureIInv, is_success
  <2>2. CASE memory.failed = "earlier"
    <3> DEFINE b == IF executor.kind = "transact" THEN backend ELSE executor.backend
    <3>1. Remembered(b) /\ (b.failure => backend.failure) BY <2>2 DEF FailureIInv
    <3> HIDE DEF b
    <3>2. DbFlag(db_of(b)) => FailedInDb(b) BY FlagStored DEF FailedInDb
    <3> QED BY <3>1, <3>2 DEF Remembered, is_success, b
  <2> QED BY <2>1, <2>2
<1> QED BY <1>1, FailureInit, FailureNext, PTL DEF ForkSpec
================================================================================
