------------------------------ MODULE MCFoundry ------------------------------
(* One run for four parts of foundry that keep their state apart: the inspector *)
(* of a test, the database with its forks, a script's broadcast and an          *)
(* invariant test.  The initial state chooses one of them, and only that one    *)
(* takes steps.                                                                 *)
EXTENDS Cheatcodes, ForkBackend, ScriptBroadcast, InvariantTest

VARIABLE part

\* Without or with a tx.origin to prank as.
TheOrigins == {{}, {"imp"}}

\* The cheatcodes of one test: those that act on each other are together.
ThePlays ==
  {{"prank"}, {"broadcast"}, {"record", "mock"}, {"expectRevert", "cheatcodeRevert"},
   {"expectEmit"}, {"expectCall", "mock"}, {"expectCreate"}, {"assumeNoRevert", "expectCreate"}}

\* What a test does beside creating and selecting forks.
TheScripts ==
  {{"write", "persist"}, {"fail", "snapshot"}, {"write", "snapshot"}, {"deploy", "rollFork"},
   {"deploy", "write"}, {"load", "roll"}, {"delete", "snapshot"}, {"roll", "snapshot"}}

\* One transaction; one sender, two senders, one transaction at a time, and two
\* chains, of which the second may take one at a time.
Tx(c, f) == [chain |-> c, from |-> f]
Plain(txs) == [txs |-> txs, slow |-> FALSE, one_by_one |-> {}]
TheDeployments ==
  {Plain(<<Tx("A", "a")>>),
   Plain(<<Tx("A", "a"), Tx("A", "a"), Tx("A", "a")>>),
   Plain(<<Tx("A", "a"), Tx("A", "b"), Tx("A", "a")>>),
   [Plain(<<Tx("A", "a"), Tx("A", "a")>>) EXCEPT !.slow = TRUE],
   Plain(<<Tx("A", "a"), Tx("A", "a"), Tx("B", "a")>>),
   [Plain(<<Tx("A", "a"), Tx("B", "a"), Tx("B", "a")>>) EXCEPT !.one_by_one = {"B"}]}

\* Contracts whose invariant takes two calls to break, with calls between them
\* that return, revert, are discarded or fail an assertion; and one that is broken
\* from the start.
Result(status, to) == [status |-> status, to |-> to]
Back == Result("returns", "s0")
Table(a0, b0, a1) ==
  [c \in {"s0", "s1", "s2"} \X {"a", "b"} |->
     CASE c = <<"s0", "a">> -> a0
       [] c = <<"s0", "b">> -> b0
       [] c = <<"s1", "a">> -> a1
       [] c = <<"s1", "b">> -> Result("returns", "s2")
       [] OTHER -> Back]
TheTargets ==
  [start : {"s0"}, driver : {"d1", "d2"}, broken : {{"s2"}}, after_fails : {{"s1"}},
   calls : {Table(a0, b0, a1) :
              a0 \in {Result("returns", "s1"), Result("fails", "s1")},
              b0 \in {Back, Result("reverts", "s0"), Result("assumes", "s0")},
              a1 \in {Result("returns", "s2"), Result("reverts", "s1")}}]
  \cup {[start |-> "s2", driver |-> "d1", broken |-> {"s2"}, after_fails |-> {"s1"},
         calls |-> Table(Back, Back, Back)]}
TheConfigs == [fail_on_revert : BOOLEAN, call_after_invariant : BOOLEAN]

\* The parts that take no steps begin in one way only.
FoundryInit ==
  /\ part \in {"cheatcodes", "forks", "script", "invariant"}
  /\ CheatInit /\ ForkInit /\ ScriptInit /\ InvariantInit
  /\ part # "cheatcodes" => play = CHOOSE p \in Plays : TRUE
  /\ part # "forks" => memory.script = CHOOSE s \in Scripts : TRUE
  /\ part # "script" => script = CHOOSE d \in Deployments : TRUE
  /\ part # "invariant" => <<target, config>> = CHOOSE t \in Targets \X Configs : TRUE

FoundryNext ==
  /\ UNCHANGED part
  /\ \/ part = "cheatcodes" /\ CheatNext /\ UNCHANGED <<fork_vars, script_vars, invariant_vars>>
     \/ part = "forks" /\ ForkNext /\ UNCHANGED <<cheat_vars, script_vars, invariant_vars>>
     \/ part = "script" /\ ScriptNext /\ UNCHANGED <<cheat_vars, fork_vars, invariant_vars>>
     \/ part = "invariant" /\ InvariantNext /\ UNCHANGED <<cheat_vars, fork_vars, script_vars>>

FoundrySpec ==
  FoundryInit /\ [][FoundryNext]_<<part, cheat_vars, fork_vars, script_vars, invariant_vars>>
==============================================================================
