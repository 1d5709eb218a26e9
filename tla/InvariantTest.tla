---------------------------- MODULE InvariantTest ----------------------------
(***************************************************************************)
(* An invariant test of forge (crates/forge/src/runner.rs and              *)
(* crates/evm/evm/src/executors/invariant: mod.rs, result.rs, shrink.rs,   *)
(* replay.rs, error.rs).                                                   *)
(*                                                                         *)
(* A campaign calls the targets at random, checks the invariant after each *)
(* call, shrinks the sequence of calls that broke it, and writes what is   *)
(* left to a file that the next test replays before anything else.  The    *)
(* contracts under test are a table: what a call does in each state, the   *)
(* states that break the invariant, and the ones that fail afterInvariant. *)
(***************************************************************************)
EXTENDS Integers, Sequences, FiniteSets, SequencesExt, FiniteSetsExt

CONSTANTS Targets,             \* the contracts under test, as tables
          Inputs,              \* the calls the strategy generates
          Configs,             \* [fail_on_revert, call_after_invariant]
          campaign_depth, campaign_runs, max_assume_rejects, shrink_run_limit,
          MaxTests             \* bound: forge test commands

VARIABLES target,              \* the contracts under test
          config,
          campaign,            \* the test under way
          failure_file,        \* the recorded counterexample: an option
          report               \* what the last test said, and what it met

invariant_vars == <<target, config, campaign, failure_file, report>>

-----------------------------------------------------------------------------
(* The contracts: a call returns, reverts, reverts with MAGIC_ASSUME, or   *)
(* returns after an assertion failed, which sets the failure flag.         *)

SetUp == [at |-> target.start, failed |-> FALSE]

CallResult(x, tx) == target.calls[x.at, tx]

\* The executor after the call was committed.
transact_raw(x, tx) ==
  IF CallResult(x, tx).status \in {"returns", "fails"}
  THEN [at |-> CallResult(x, tx).to, failed |-> x.failed \/ CallResult(x, tx).status = "fails"]
  ELSE x

transacted(calls) == FoldLeft(transact_raw, SetUp, calls)

call_invariant_function(x) == ~x.failed /\ x.at \notin target.broken

call_after_invariant_function(x) == ~x.failed /\ x.at \notin target.after_fails

\* check_sequence answers whether the calls pass.
check_sequence(calls) ==
  LET before(n) == transacted(SubSeq(calls, 1, n - 1))
      x == transacted(calls)
  IN /\ ~ \E n \in DOMAIN calls : config.fail_on_revert
                                    /\ CallResult(before(n), calls[n]).status = "reverts"
     /\ call_invariant_function(x)
     /\ config.call_after_invariant => call_after_invariant_function(x)

-----------------------------------------------------------------------------
(* The shrinker. *)

NewShrinker(calls) == [calls |-> calls, included |-> DOMAIN calls, call_index |-> 1,
                       prev_shrink |-> {}, more |-> TRUE, iterations |-> 0]

current(k) == [n \in 1 .. Cardinality(k.included) |-> k.calls[SetToSortSeq(k.included, <)[n]]]

simplify(k) ==
  IF k.call_index > Len(k.calls) THEN [k EXCEPT !.more = FALSE]
  ELSE [k EXCEPT !.included = @ \ {k.call_index}, !.prev_shrink = {k.call_index},
                 !.call_index = @ + 1]

complicate_Gone(k) ==
  IF k.prev_shrink = {} THEN [k EXCEPT !.more = FALSE]
  ELSE simplify([k EXCEPT !.prev_shrink = {}])

complicate(k) ==
  IF k.prev_shrink = {} THEN [k EXCEPT !.more = FALSE]
  ELSE simplify([k EXCEPT !.included = @ \cup k.prev_shrink, !.prev_shrink = {}])

-----------------------------------------------------------------------------
(* The campaign. *)

NoError == [kind |-> "none", calls |-> << >>]

Idle == [phase |-> "idle", executor |-> SetUp, inputs |-> << >>, depth |-> 0, run |-> 0,
         assume_rejects |-> 0, reverts |-> 0, error |-> NoError, shrinker |-> NewShrinker(<< >>)]

NewReport(tests) == [status |-> "none", kind |-> "none", counterexample |-> << >>,
                     original_seq_len |-> 0, tests |-> tests, broken |-> FALSE]

InvariantInit ==
  /\ target \in Targets /\ config \in Configs
  /\ campaign = Idle
  /\ failure_file = {}
  /\ report = NewReport(0)

\* The first input of a run, on a clone of the executor that ran setUp.
InvariantTestRun(c, tx) ==
  [c EXCEPT !.phase = "run", !.executor = SetUp, !.inputs = <<tx>>, !.depth = 0,
            !.run = @ + 1, !.assume_rejects = 0]

\* The end of the campaign: the test passed when there is no error, and an
\* error with calls is shrunk.
EndCampaign(c, v) ==
  IF c.error.kind \in {"none", "assume"}
  THEN /\ report' = [v EXCEPT !.status = IF c.error.kind = "none" THEN "success" ELSE "failure",
                               !.kind = c.error.kind]
       /\ campaign' = Idle
  ELSE /\ report' = v
       /\ campaign' = [c EXCEPT !.phase = "shrink", !.shrinker = NewShrinker(c.error.calls)]

persisted_call_sequence == {f.calls : f \in {g \in failure_file : g.driver = target.driver}}

replays(calls) == check_sequence(SubSeq(calls, 1, Min({Len(calls), campaign_depth})))

\* A recorded counterexample that still fails ends the test, and so does an
\* invariant that does not hold after setUp.
run_invariant_test(tx) ==
  /\ campaign.phase = "idle" /\ report.tests < MaxTests
  /\ LET failing == {calls \in persisted_call_sequence : ~replays(calls)}
         started == NewReport(report.tests + 1)
     IN IF failing # {}
        THEN /\ report' = [started EXCEPT !.status = "replayed",
                                           !.counterexample = CHOOSE calls \in failing : TRUE]
             /\ UNCHANGED campaign
        ELSE IF ~call_invariant_function(SetUp)
        THEN report' = [started EXCEPT !.status = "setup failed"] /\ UNCHANGED campaign
        ELSE report' = started /\ campaign' = InvariantTestRun(Idle, tx)
  /\ UNCHANGED <<target, config, failure_file>>

-----------------------------------------------------------------------------
(* One call of a run.  The next call is generated after every call, after  *)
(* the last one too.                                                       *)

NextInput(c) == \E tx \in Inputs : campaign' = [c EXCEPT !.inputs = Append(@, tx)]

discardCall(tx) ==
  /\ campaign.phase = "run" /\ campaign.depth < campaign_depth /\ tx = Last(campaign.inputs)
  /\ CallResult(campaign.executor, tx).status = "assumes"
  /\ LET c == [campaign EXCEPT !.inputs = Front(@), !.assume_rejects = @ + 1]
     IN IF c.assume_rejects > max_assume_rejects
        THEN EndCampaign([c EXCEPT !.error = [kind |-> "assume", calls |-> << >>]], report)
        ELSE NextInput(c) /\ UNCHANGED report
  /\ UNCHANGED <<target, config, failure_file>>

\* Only the first broken invariant is kept.
assert_invariants(c) ==
  IF call_invariant_function(c.executor) \/ c.error.kind # "none" THEN c
  ELSE [c EXCEPT !.error = [kind |-> "broken", calls |-> c.inputs], !.phase = "stop"]

can_continue(c, reverted) ==
  IF ~reverted /\ ~c.executor.failed THEN assert_invariants(c)
  ELSE IF config.fail_on_revert
  THEN [c EXCEPT !.reverts = @ + 1, !.error = [kind |-> "revert", calls |-> c.inputs],
                 !.phase = "stop"]
  ELSE [c EXCEPT !.reverts = @ + 1, !.inputs = IF reverted THEN Front(@) ELSE @]

commitCall(tx) ==
  /\ campaign.phase = "run" /\ campaign.depth < campaign_depth /\ tx = Last(campaign.inputs)
  /\ CallResult(campaign.executor, tx).status # "assumes"
  /\ LET reverted == CallResult(campaign.executor, tx).status = "reverts"
         c == can_continue([campaign EXCEPT !.executor = transact_raw(@, tx)], reverted)
         v == [report EXCEPT !.broken =
                 \/ @
                 \/ ~c.executor.failed /\ c.executor.at \in target.broken
                 \/ config.fail_on_revert /\ (reverted \/ c.executor.failed)]
     IN IF c.phase = "stop" THEN EndCampaign(c, v)
        ELSE NextInput([c EXCEPT !.depth = @ + 1]) /\ report' = v
  /\ UNCHANGED <<target, config, failure_file>>

\* A campaign that ran out of time is a success unless it had failed before.
timeOut ==
  /\ campaign.phase = "run" /\ campaign.depth < campaign_depth
  /\ EndCampaign(campaign, report)
  /\ UNCHANGED <<target, config, failure_file>>

\* The inputs hold one call that was not made.
assert_after_invariant(c) ==
  IF call_after_invariant_function(c.executor) THEN c
  ELSE [c EXCEPT !.error = [kind |-> "after", calls |-> c.inputs]]

endRun(tx) ==
  /\ campaign.phase = "run" /\ campaign.depth = campaign_depth
  /\ LET c == IF config.call_after_invariant /\ campaign.error.kind = "none"
              THEN assert_after_invariant(campaign) ELSE campaign
     IN IF c.run = campaign_runs \/ (config.fail_on_revert /\ c.reverts > 0)
        THEN EndCampaign(c, report)
        ELSE campaign' = InvariantTestRun(c, tx) /\ UNCHANGED report
  /\ UNCHANGED <<target, config, failure_file>>

-----------------------------------------------------------------------------
(* What the test reports. *)

Shrinking == campaign.shrinker.more /\ campaign.shrinker.iterations < shrink_run_limit

shrink_sequence ==
  /\ campaign.phase = "shrink" /\ Shrinking
  /\ LET k == [campaign.shrinker EXCEPT !.iterations = @ + 1]
     IN campaign' = [campaign EXCEPT !.shrinker =
                       IF check_sequence(current(k)) THEN complicate(k) ELSE simplify(k)]
  /\ UNCHANGED <<target, config, failure_file, report>>

replay_error ==
  /\ campaign.phase = "shrink" /\ ~Shrinking
  /\ LET calls == IF call_invariant_function(SetUp) THEN current(campaign.shrinker) ELSE << >>
     IN /\ failure_file' = IF calls = << >> THEN failure_file
                           ELSE {[calls |-> calls, driver |-> target.driver]}
        /\ report' = [report EXCEPT !.status = "failure", !.kind = campaign.error.kind,
                                      !.counterexample = calls,
                                      !.original_seq_len = Len(campaign.shrinker.calls)]
        /\ campaign' = Idle
  /\ UNCHANGED <<target, config>>

\* Between two tests the contracts are changed, the test contract with them or not.
editContracts ==
  /\ campaign.phase = "idle" /\ report.status # "none"
  /\ target' \in Targets \ {target}
  /\ campaign' = [campaign EXCEPT !.executor.at = target'.start]
  /\ report' = NewReport(report.tests)
  /\ UNCHANGED <<config, failure_file>>

InvariantNext ==
  \/ \E tx \in Inputs : run_invariant_test(tx) \/ discardCall(tx) \/ commitCall(tx) \/ endRun(tx)
  \/ timeOut \/ shrink_sequence \/ replay_error \/ editContracts

InvariantSpec == InvariantInit /\ [][InvariantNext]_invariant_vars

-----------------------------------------------------------------------------
(* Properties. *)

\* What an invariant test says can be relied on.  A counterexample found by a
\* broken invariant or by a revert fails when it is replayed after setUp, however
\* the shrinker thinned it out; one that the shrinker could not finish lacks at
\* most one call, the one it removed last and did not try without: it needs one
\* iteration more than there are calls, where its comment asks for as many
\* (shrink.rs 83 and 113).  A failure of afterInvariant is not claimed, its calls
\* hold one that was not made (mod.rs 464).  And a test does not succeed that met
\* a state in which the invariant does not hold, whatever the runs after it did,
\* nor under fail_on_revert one with a call that reverted or an assertion that
\* failed.  Without fail_on_revert a run whose assertion failed is not checked
\* from there on (result.rs 118), and what it meets then is not claimed.
VerdictsAreRight ==
  /\ report.status = "failure" /\ report.kind \in {"broken", "revert"} =>
       \/ ~check_sequence(report.counterexample)
       \/ /\ report.original_seq_len >= shrink_run_limit
          /\ \E n \in 1 .. Len(report.counterexample) + 1, tx \in Inputs :
               ~check_sequence(InsertAt(report.counterexample, n, tx))
  /\ report.status = "success" => ~report.broken

==============================================================================
