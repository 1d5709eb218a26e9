------------------------------ MODULE Cheatcodes ------------------------------
(***************************************************************************)
(* The cheatcode inspector of forge: what the hooks of inspector.rs do to  *)
(* the calls of a test, for pranks, broadcasts, expected reverts, calls,   *)
(* emits and creates, assumeNoRevert, mocks and state-diff recording.      *)
(*                                                                         *)
(* frames is the EVM's call stack.  The running contract may call, create, *)
(* log, use a cheatcode, return, revert or halt (out of gas, an invalid    *)
(* opcode), and its caller may always go on.  A hook sees the depth of the *)
(* frame that makes the call.  The EVM strategy is modelled, calls are not *)
(* isolated.  Options are sets of at most one element.                     *)
(***************************************************************************)
EXTENDS Integers, Sequences, SequencesExt, FiniteSets, FiniteSetsExt, TLC

CONSTANTS
  Test, Sender,      \* the test contract and the sender of the root call
  Contracts,         \* what can be called, Test included
  Impostors,         \* addresses to prank as, some of them contracts
  Origins,           \* options of a tx.origin to prank with
  Broadcasters,      \* addresses to broadcast from, Sender included
  Logs, Reasons,     \* events and revert data, up to what the checks compare
  Plays,             \* the sets of cheatcodes a test may use together
  StartNonce,        \* the nonce of each broadcaster on chain
  MaxDepth, MaxCheats, MaxCalls

Vm == "vm"           \* CHEATCODE_ADDRESS
Child == "child"     \* the address of a created contract

ASSUME CheatcodesAssumption ==
  /\ Test \in Contracts /\ Sender \in Broadcasters
  /\ {StartNonce, MaxDepth, MaxCheats, MaxCalls} \subseteq Nat

VARIABLES
  frames,     \* the call stack: target, caller, scheme, is_static, and for the
              \* history, a number, the real caller and the nonces creates took
  env,        \* env.tx.caller, and the nonces of the broadcasters
  cheats,     \* struct Cheatcodes
  verdict,    \* {} while the root call runs, then its outcome
  play,       \* the cheatcodes this test uses
  past        \* history, for the properties and the bounds

cheat_vars == <<frames, env, cheats, verdict, play, past>>

depth == Len(frames)
Running == Last(frames)
The(option) == CHOOSE x \in option : TRUE

\* InstructionResult: the EVM rolls a frame back unless it is_ok, and what
\* halts is not is_revert.
Ok == [result |-> "return", data |-> "none"]
Revert(data) == [result |-> "revert", data |-> data]
Halt == [result |-> "halt", data |-> "none"]
is_ok(out) == out.result = "return"
is_revert(out) == out.result = "revert"

NoBumps == [b \in Broadcasters |-> 0]

NewCheatcodes ==
  [pranks |-> << >>, broadcast |-> {}, transactions |-> << >>, expected_revert |-> {},
   assume_no_revert |-> {}, recording |-> FALSE, diffs |-> << >>, expected_emits |-> << >>,
   expected_calls |-> << >>, expected_creates |-> << >>, mocked_calls |-> << >>]

\* Mutant: the nonce of the transaction is not given back.
root_nonce_Kept(n) == n

\* The transaction itself takes a nonce of its sender, and the hook of the
\* root call gives it back.
root_nonce(n) == Max({n - 1, 0})

CheatInit ==
  /\ frames = <<[target |-> Test, caller |-> Sender, by |-> Sender, scheme |-> "call",
                 is_static |-> FALSE, number |-> 0, bumps |-> NoBumps]>>
  /\ env = [origin |-> Sender,
            nonces |-> [b \in Broadcasters |->
                          IF b = Sender THEN root_nonce(StartNonce + 1) ELSE StartNonce]]
  /\ cheats = NewCheatcodes
  /\ verdict = {}
  /\ play \in Plays
  /\ past = [asked |-> {}, calls |-> 0, cheats |-> 0, astray |-> FALSE, undone |-> FALSE,
             skewed |-> FALSE, settled |-> FALSE, reverted |-> {}, since |-> 0,
             made |-> << >>, logs |-> 0]

-----------------------------------------------------------------------------
(* Pranks and broadcasts: what the call and create hooks do with them. *)

get_prank(c, d) ==
  LET at == {k \in DOMAIN c.pranks : k <= d} IN IF at = {} THEN {} ELSE {c.pranks[Max(at)]}

\* Mutant: the prank applies to whoever calls at its depth.
call_prank_Anyone(s, d) ==
  IF get_prank(s.c, d) = {} THEN s ELSE
  LET p == The(get_prank(s.c, d))
  IN  IF d # p.depth THEN s
      ELSE [s EXCEPT !.call.caller = p.new_caller, !.e.origin = IF p.new_origin = {} THEN @ ELSE The(p.new_origin)]

\* s is what a hook works on: the inspector c, the environment e and the call.
call_prank(s, d) ==
  IF get_prank(s.c, d) = {} THEN s ELSE
  LET p == The(get_prank(s.c, d))
      delegated == s.call.scheme = "delegate" /\ p.delegate_call
      call == IF delegated THEN [s.call EXCEPT !.target = p.new_caller, !.caller = p.new_caller] ELSE s.call
      hit == d >= p.depth /\ call.caller = p.prank_caller
      here == hit /\ d = p.depth
      moved == hit /\ p.new_origin # {}
  IN  [s EXCEPT
        !.call = IF here THEN [call EXCEPT !.caller = p.new_caller] ELSE call,
        !.e.origin = IF (delegated \/ hit) /\ p.new_origin # {} THEN The(p.new_origin) ELSE @,
        !.c.pranks = IF (here \/ moved) /\ ~p.used THEN d :> [p EXCEPT !.used = TRUE] @@ @ ELSE @]

create_prank(s, d) ==
  IF get_prank(s.c, d) = {} THEN s ELSE
  LET p == The(get_prank(s.c, d))
      hit == d >= p.depth /\ s.call.caller = p.prank_caller
  IN  [s EXCEPT !.call.caller = IF hit /\ d = p.depth THEN p.new_caller ELSE @,
                !.e.origin = IF hit /\ p.new_origin # {} THEN The(p.new_origin) ELSE @]

record_broadcastable(c, e, from) ==
  [c EXCEPT !.transactions = Append(@, [from |-> from, nonce |-> e.nonces[from]])]

\* A recorded call takes the nonce its transaction will use; a static call
\* after a single broadcast is refused.
call_broadcast(s, d) ==
  IF s.c.broadcast = {} THEN s ELSE
  LET b == The(s.c.broadcast)
      r == [s EXCEPT !.call.caller = b.new_origin, !.e.origin = b.new_origin]
  IN  CASE ~(d = b.depth /\ s.call.caller = b.original_caller) -> s
        [] ~s.call.is_static -> [r EXCEPT !.c = record_broadcastable(s.c, s.e, b.new_origin),
                                          !.e.nonces[b.new_origin] = @ + 1]
        [] b.single_call -> [r EXCEPT !.out = {Revert("cheat")}]
        [] OTHER -> r

create_broadcast(s, d) ==
  IF s.c.broadcast = {} THEN s ELSE
  LET b == The(s.c.broadcast)
      r == [s EXCEPT !.e.origin = b.new_origin]
  IN  CASE ~(d >= b.depth /\ s.call.caller = b.original_caller) -> s
        [] d = b.depth -> [r EXCEPT !.call.caller = b.new_origin,
                                    !.c = record_broadcastable(s.c, s.e, b.new_origin)]
        [] OTHER -> r

-----------------------------------------------------------------------------
(* The other parts of the call hook. *)

expect_seen(s) ==
  LET t == s.code
  IN  IF t \in DOMAIN s.c.expected_calls THEN [s EXCEPT !.c.expected_calls[t].actual = @ + 1] ELSE s

\* The last answer of a mock is used again and again; a mock without answers
\* lets the call through.
call_mocked(s) ==
  LET t == s.code
      queue == s.c.mocked_calls[t]
  IN  IF t \notin DOMAIN s.c.mocked_calls \/ queue = << >> THEN s
      ELSE [s EXCEPT !.out = {Head(queue)}, !.c.mocked_calls[t] = IF Len(@) = 1 THEN @ ELSE Tail(@)]

record_access(s, d, number) ==
  IF s.c.recording
  THEN [s EXCEPT !.c.diffs = Append(@, <<[number |-> number, depth |-> d, reverted |-> FALSE]>>)]
  ELSE s

\* Mutant: a mock answers before the expected calls are counted.
call_hook_MockFirst(s, d, number) ==
  LET s2 == call_mocked(s)
      s4 == call_broadcast(call_prank(expect_seen(s2), d), d)
  IN  IF s2.out # {} THEN s2 ELSE IF s4.out # {} THEN s4 ELSE record_access(s4, d, number)

\* call_with_executor, for a call that is not to the cheatcode address.
call_hook(s, d, number) ==
  LET s2 == call_mocked(expect_seen(s))
      s4 == call_broadcast(call_prank(s2, d), d)
  IN  IF s2.out # {} THEN s2 ELSE IF s4.out # {} THEN s4 ELSE record_access(s4, d, number)

create_hook(s, d, number) == record_access(create_broadcast(create_prank(s, d), d), d, number)

\* initialize_interp, in a frame of depth d.
initialize_interp(c, d) ==
  [c EXCEPT !.expected_revert = {[x EXCEPT !.max_depth = Max({@, d})] : x \in @}]

-----------------------------------------------------------------------------
(* The end of a call or of a create. *)

\* A single prank ends here: a call removes it, a create removes them all.
end_pranks(s, d, is_create) ==
  LET here == {p \in get_prank(s.c, d) : p.depth = d}
      gone == IF is_create THEN DOMAIN s.c.pranks ELSE {d}
  IN  IF here = {} THEN s
      ELSE [s EXCEPT !.e.origin = The(here).prank_origin,
                     !.c.pranks = IF The(here).single_call THEN [k \in DOMAIN @ \ gone |-> @[k]] ELSE @]

end_broadcast(s, d) ==
  LET here == {b \in s.c.broadcast : b.depth = d}
  IN  IF here = {} THEN s
      ELSE [s EXCEPT !.e.origin = The(here).original_origin,
                     !.c.broadcast = {b \in @ : ~b.single_call}]

handle_revert(expected, data, reverted_by) ==
  /\ expected.reverter # {} /\ reverted_by # {} => expected.reverter = reverted_by
  /\ expected.reason # {} => expected.reason = {data}

handle_assume_no_revert(a, data) ==
  a.reasons = {} \/ \E r \in a.reasons : handle_revert(r, data, a.reverted_by)

handle_expect_revert(is_cheatcode, x, out) ==
  /\ is_cheatcode \/ x.max_depth > x.depth
  /\ CASE x.count > 0 -> ~is_ok(out) /\ handle_revert(x, out.data, x.reverted_by)
       [] x.reason = {} /\ x.reverter = {} -> is_ok(out)
       [] OTHER -> ~( /\ x.reason # {} => x.reason = {out.data}
                      /\ x.reverter # {} => x.reverter = x.reverted_by )

\* What both ends do with an expectation that is due: met, it is armed again
\* while more reverts are to come.
end_expected(s, x, is_cheatcode) ==
  LET met == handle_expect_revert(is_cheatcode, x, The(s.out))
      seen == [x EXCEPT !.actual_count = @ + 1]
  IN  [s EXCEPT !.how = "expected",
                !.c.expected_revert = IF met /\ seen.actual_count < x.count THEN {seen} ELSE {},
                !.out = {IF met THEN Ok ELSE Revert("cheat")}]

\* Mutant: only the call itself is marked as reverted.
end_recording_Shallow(s, d) ==
  LET diffs == s.c.diffs
      marked == [i \in DOMAIN Last(diffs) |->
                   [Last(diffs)[i] EXCEPT !.reverted = @ \/ (i = 1 /\ is_revert(The(s.out)))]]
      rest == Front(diffs)
  IN  IF ~s.c.recording \/ d = 0 \/ diffs = << >> THEN s
      ELSE [s EXCEPT !.c.diffs = IF rest = << >> THEN <<marked>>
                                 ELSE Front(rest) \o <<Last(rest) \o marked>>]

\* The accesses of the call join those of the frame around it.
end_recording(s, d) ==
  LET diffs == s.c.diffs
      marked == [i \in DOMAIN Last(diffs) |->
                   [Last(diffs)[i] EXCEPT !.reverted = @ \/ is_revert(The(s.out))]]
      rest == Front(diffs)
  IN  IF ~s.c.recording \/ d = 0 \/ diffs = << >> THEN s
      ELSE [s EXCEPT !.c.diffs = IF rest = << >> THEN <<marked>>
                                 ELSE Front(rest) \o <<Last(rest) \o marked>>]

end_emits(s, d) ==
  LET emits == s.c.expected_emits
      due == (\E i \in DOMAIN emits : emits[i].depth = d) /\ ~s.call.is_static
      missed == \E i \in DOMAIN emits : ~emits[i].found \/ emits[i].seen # emits[i].count
  IN  CASE ~due -> s
        [] missed -> [s EXCEPT !.how = "emits", !.out = {Revert("cheat")}]
        [] OTHER -> [s EXCEPT !.c.expected_emits = << >>]

\* The root call did not revert: is everything it expected there?
end_root(s) ==
  LET left == SelectSeq(s.c.expected_emits, LAMBDA x : x.count > 0 /\ ~x.found)
      uncalled == \E t \in DOMAIN s.c.expected_calls :
                    LET x == s.c.expected_calls[t]
                    IN  IF x.counted THEN x.count # x.actual ELSE x.count > x.actual
  IN  CASE uncalled -> [s EXCEPT !.out = {Revert("cheat")}]
        [] left # << >> \/ s.c.expected_creates # << >> ->
             [s EXCEPT !.c.expected_emits = left, !.out = {Revert("cheat")}]
        [] OTHER -> [s EXCEPT !.c.expected_emits = left]

\* assumeNoRevert waits for the end of a call at its depth or above; the
\* rest of call_end is then skipped.
end_assumed(s, a) ==
  [s EXCEPT !.how = "assumed", !.c.assume_no_revert = {},
            !.out = {IF is_revert(The(@)) /\ handle_assume_no_revert(a, The(@).data) THEN Revert("assume") ELSE The(@)}]

\* Whoever reverted is noted, by each cheatcode for itself.
note_reverter(s) ==
  IF ~is_revert(The(s.out)) THEN s
  ELSE [s EXCEPT
         !.c.assume_no_revert = {[a EXCEPT !.reverted_by = IF @ = {} THEN {s.call.target} ELSE @] : a \in @}]

note_expected(s) ==
  IF ~is_revert(The(s.out)) THEN s
  ELSE [s EXCEPT
         !.c.expected_revert = {[x EXCEPT !.reverted_by =
                                   IF x.reverter # {} /\ (@ = {} \/ x.count > 1) THEN {s.call.target} ELSE @] : x \in @}]

\* pending_processing: the end of the call that set the expectation itself.
leave_scope(s, d) ==
  [s EXCEPT !.c.expected_revert = {IF d <= x.depth THEN [x EXCEPT !.pending = FALSE] ELSE x : x \in @}]

call_end(s0, d) ==
  LET is_cheatcode == s0.call.target = Vm
      s1 == note_reverter(IF is_cheatcode THEN s0 ELSE end_broadcast(end_pranks(s0, d, FALSE), d))
      assumed == {a \in s1.c.assume_no_revert : d <= a.depth /\ ~is_cheatcode}
      s2 == note_expected(s1)
      due == {x \in s2.c.expected_revert :
                d <= x.depth /\ IF x.cheatcode THEN is_cheatcode /\ ~x.pending ELSE ~is_cheatcode}
      s3 == end_emits(end_recording(leave_scope(s2, d), d), d)
  IN  CASE assumed # {} -> end_assumed(s1, The(assumed))
        [] due # {} -> end_expected(s2, The(due), is_cheatcode)
        [] is_cheatcode -> leave_scope(s2, d)
        [] s3.how = "emits" \/ d > 0 \/ is_revert(The(s3.out)) -> s3
        [] OTHER -> end_root(s3)

create_end(s0, d) ==
  LET s1 == end_broadcast(end_pranks(s0, d, TRUE), d)
      due == {x \in s1.c.expected_revert : d <= x.depth /\ ~x.cheatcode}
      s2 == end_recording(s1, d)
  IN  IF due # {} THEN end_expected(s1, The(due), FALSE)
      ELSE IF ~is_ok(The(s2.out)) THEN s2
      ELSE [s2 EXCEPT !.c.expected_creates = RemoveFirst(@, s2.call.caller)]

-----------------------------------------------------------------------------
(* The steps of a test. *)

Hooked(call, code, out) ==
  [c |-> cheats, e |-> env, call |-> call, code |-> code, out |-> out, how |-> "ended"]

\* What the ends skip, and what they undo besides, is remembered.
Ended(s, d, entered) ==
  [past EXCEPT
    !.astray = \/ @
               \/ entered /\ \E k \in DOMAIN cheats.pranks : k > d
               \/ \E p \in get_prank(cheats, d) :
                    /\ s.call.scheme = "create" /\ p.depth = d /\ p.single_call
                    /\ Cardinality(DOMAIN cheats.pranks) > 1,
    !.skewed = @ \/ (cheats.recording /\ d > 0 /\ (~entered \/ s.how \in {"expected", "assumed"})),
    !.settled = @ \/ (d = 0 /\ s.how \in {"expected", "assumed"})]

Enter(s, number) ==
  /\ frames' = Append(frames, [target |-> s.call.target, caller |-> s.call.caller, by |-> Running.target,
                               scheme |-> s.call.scheme, is_static |-> s.call.is_static,
                               number |-> number, bumps |-> NoBumps])
  /\ cheats' = initialize_interp(s.c, depth + 1)

\* A delegate call runs another contract's code as the one that calls.  An
\* answer of a hook ends the call at once.
Call(code, scheme) ==
  LET delegate == scheme = "delegate"
      call == [target |-> IF delegate THEN Running.target ELSE code,
               caller |-> IF delegate THEN Running.caller ELSE Running.target,
               scheme |-> scheme, is_static |-> Running.is_static \/ scheme = "static"]
      number == past.calls + 1
      s == call_hook(Hooked(call, code, {}), depth, number)
      t == call_end(s, depth)
      counted == [past EXCEPT !.calls = number, !.made = IF code \in DOMAIN @ THEN [@ EXCEPT ![code] = @ + 1] ELSE @]
  IN  /\ verdict = {} /\ past.calls < MaxCalls
      /\ \/ /\ s.out = {} /\ depth < MaxDepth
            /\ Enter(s, number)
            /\ env' = s.e
            /\ past' = counted
         \/ /\ s.out # {}
            /\ cheats' = t.c /\ env' = t.e
            /\ past' = [Ended(t, depth, FALSE) EXCEPT !.calls = number, !.made = counted.made]
            /\ UNCHANGED frames
      /\ UNCHANGED <<verdict, play>>

\* The EVM takes a nonce of the creator.
Create ==
  LET call == [target |-> Child, caller |-> Running.target, scheme |-> "create", is_static |-> FALSE]
      number == past.calls + 1
      s == create_hook(Hooked(call, Child, {}), depth, number)
      bumps == [b \in Broadcasters |-> IF b = s.call.caller THEN 1 ELSE 0]
  IN  /\ verdict = {} /\ past.calls < MaxCalls /\ depth < MaxDepth /\ ~Running.is_static
      /\ frames' = Append([frames EXCEPT ![depth].bumps = [b \in Broadcasters |-> @[b] + bumps[b]]],
                          [target |-> Child, caller |-> s.call.caller, by |-> Running.target,
                           scheme |-> "create", is_static |-> FALSE, number |-> number, bumps |-> NoBumps])
      /\ cheats' = initialize_interp(s.c, depth + 1)
      /\ env' = [s.e EXCEPT !.nonces = [b \in Broadcasters |-> @[b] + bumps[b]]]
      /\ past' = [past EXCEPT !.calls = number]
      /\ UNCHANGED <<verdict, play>>

\* The running frame ends with out.  One rolled back gives back the nonces of
\* the creates in it, not those the inspector took.
Leave(out) ==
  LET f == Running
      d == depth - 1
      call == [target |-> f.target, caller |-> f.caller, scheme |-> f.scheme, is_static |-> f.is_static]
      s == IF f.scheme = "create" THEN create_end(Hooked(call, f.target, {out}), d)
           ELSE call_end(Hooked(call, f.target, {out}), d)
      kept == IF is_ok(out) THEN f.bumps ELSE NoBumps
      lost == IF is_ok(out) THEN NoBumps ELSE f.bumps
  IN  /\ verdict = {}
      /\ frames' = IF d = 0 THEN << >>
                   ELSE [Front(frames) EXCEPT ![d].bumps = [b \in Broadcasters |-> @[b] + kept[b]]]
      /\ env' = [s.e EXCEPT !.nonces = [b \in Broadcasters |-> @[b] - lost[b]]]
      /\ cheats' = s.c
      /\ verdict' = IF d = 0 THEN s.out ELSE {}
      /\ past' = [Ended(s, d, TRUE) EXCEPT
                   !.undone = @ \/ lost # NoBumps,
                   !.reverted = IF ~is_revert(out) \/ ~cheats.recording THEN @ ELSE @ \cup (f.number .. past.calls)]
      /\ UNCHANGED play

\* The first log after expectEmit is the one to expect; once all are known,
\* each log is compared with the oldest that is not found yet.
handle_expect_emit(emits, log) ==
  LET found == {i \in DOMAIN emits : emits[i].found}
      fill == \E i \in DOMAIN emits : emits[i].log = {}
      k == IF fill THEN Max({Min({Len(emits) + 1} \cup found) - 1, 1}) ELSE 1
      x == emits[k]
      y == [x EXCEPT !.seen = IF x.log = {log} THEN @ + 1 ELSE @]
      z == [y EXCEPT !.found = x.log = {log} /\ y.seen >= y.count]
      others == RemoveAt(emits, k)
  IN  CASE found = DOMAIN emits -> emits
        [] x.log = {} -> [emits EXCEPT ![k].log = {log}]
        [] z.found -> Append(others, z)
        [] OTHER -> <<z>> \o others

Log(log) ==
  /\ verdict = {} /\ ~Running.is_static
  /\ past.logs < MaxCheats
  /\ cheats.expected_emits # << >>
  /\ cheats' = [cheats EXCEPT !.expected_emits = handle_expect_emit(@, log)]
  /\ past' = [past EXCEPT !.logs = @ + 1]
  /\ UNCHANGED <<frames, env, verdict, play>>

-----------------------------------------------------------------------------
(* Cheatcodes.  One that fails changes nothing by itself. *)

Cheat(name, c, out) ==
  LET s == call_end([Hooked([target |-> Vm, caller |-> Running.target, scheme |-> "call", is_static |-> FALSE],
                            Vm, {out}) EXCEPT !.c = c], depth)
  IN  /\ verdict = {} /\ name \in play /\ past.cheats < MaxCheats
      /\ cheats' = s.c
      /\ UNCHANGED <<frames, env, verdict, play>>

Counted == [past EXCEPT !.cheats = @ + 1]

prank(new_caller, new_origin, single_call, delegate_call) ==
  /\ ~delegate_call \/ new_caller \in Contracts
  /\ \A p \in get_prank(cheats, depth) : p.used /\ p.single_call = single_call
  /\ cheats.broadcast = {}
  /\ Cheat("prank", [cheats EXCEPT !.pranks = depth :>
             [prank_caller |-> Running.target, prank_origin |-> env.origin, new_caller |-> new_caller,
              new_origin |-> new_origin, depth |-> depth, single_call |-> single_call,
              delegate_call |-> delegate_call, used |-> FALSE] @@ @], Ok)
  /\ past' = [Counted EXCEPT !.asked = @ \cup {[who |-> Running.target, depth |-> depth, as |-> new_caller]}]

stopPrank ==
  /\ depth \in DOMAIN cheats.pranks
  /\ Cheat("prank", [cheats EXCEPT !.pranks = [k \in DOMAIN @ \ {depth} |-> @[k]]], Ok)
  /\ past' = Counted

broadcast(new_origin, single_call) ==
  /\ get_prank(cheats, depth) = {}
  /\ cheats.broadcast = {}
  /\ Cheat("broadcast", [cheats EXCEPT !.broadcast =
             {[new_origin |-> new_origin, original_caller |-> Running.target,
               original_origin |-> env.origin, depth |-> depth, single_call |-> single_call]}], Ok)
  /\ past' = [Counted EXCEPT !.asked = @ \cup {[who |-> Running.target, depth |-> depth, as |-> new_origin]}]

stopBroadcast ==
  /\ cheats.broadcast # {}
  /\ Cheat("broadcast", [cheats EXCEPT !.broadcast = {}], Ok)
  /\ past' = [Counted EXCEPT !.astray = @ \/ depth # The(cheats.broadcast).depth]

expect_revert(reason, reverter, count, cheatcode) ==
  /\ cheats.expected_revert = {}
  /\ Cheat("expectRevert", [cheats EXCEPT !.expected_revert =
             {[reason |-> reason, depth |-> depth, cheatcode |-> cheatcode, pending |-> cheatcode,
               reverter |-> reverter, reverted_by |-> {}, max_depth |-> depth,
               count |-> count, actual_count |-> 0]}], Ok)
  /\ past' = Counted

assume_no_revert(reasons) ==
  /\ cheats.assume_no_revert = {}
  /\ Cheat("assumeNoRevert", [cheats EXCEPT !.assume_no_revert =
             {[depth |-> depth, reasons |-> reasons, reverted_by |-> {}]}], Ok)
  /\ past' = Counted

startStateDiffRecording ==
  /\ Cheat("record", [cheats EXCEPT !.recording = TRUE, !.diffs = << >>], Ok)
  /\ past' = [Counted EXCEPT !.since = past.calls, !.skewed = FALSE]

\* stopAndReturnStateDiff: the recording goes on, from nothing.
get_state_diff ==
  /\ cheats.recording
  /\ Cheat("record", [cheats EXCEPT !.diffs = << >>], Ok)
  /\ past' = [Counted EXCEPT !.since = past.calls, !.skewed = FALSE]

\* A found emit keeps its place: a new one goes before it.
expect_emit(count) ==
  LET emits == cheats.expected_emits
      k == Min({Len(emits) + 1} \cup {i \in DOMAIN emits : emits[i].found})
  IN  /\ Cheat("expectEmit", [cheats EXCEPT !.expected_emits =
                 InsertAt(@, k, [depth |-> depth, log |-> {}, found |-> FALSE, count |-> count, seen |-> 0])], Ok)
      /\ past' = Counted

expect_call(callee, count, counted) ==
  LET known == callee \in DOMAIN cheats.expected_calls
      x == [count |-> count, counted |-> counted, actual |-> 0]
  IN  /\ known => ~counted /\ ~cheats.expected_calls[callee].counted
      /\ Cheat("expectCall", [cheats EXCEPT !.expected_calls =
                 IF known THEN [@ EXCEPT ![callee].count = @ + 1] ELSE callee :> x @@ @], Ok)
      /\ past' = [Counted EXCEPT !.made = IF known THEN @ ELSE callee :> 0 @@ @]

expect_create(deployer) ==
  /\ Cheat("expectCreate", [cheats EXCEPT !.expected_creates = Append(@, deployer)], Ok)
  /\ past' = Counted

mock_calls(callee, answers) ==
  /\ Cheat("mock", [cheats EXCEPT !.mocked_calls = callee :> answers @@ @], Ok)
  /\ past' = Counted

clearMockedCalls ==
  /\ cheats.mocked_calls # << >>
  /\ Cheat("mock", [cheats EXCEPT !.mocked_calls = << >>], Ok)
  /\ past' = Counted

\* Any cheatcode whose conditions do not hold.
cheatcodeFails ==
  /\ Cheat("cheatcodeRevert", cheats, Revert("cheat"))
  /\ past' = Counted

TestCheats ==
  \/ \E as \in Impostors, o \in Origins, single, del \in BOOLEAN :
       prank(as, o, single, del)
  \/ stopPrank
  \/ \E b \in Broadcasters, single \in BOOLEAN : broadcast(b, single)
  \/ stopBroadcast
  \/ \E r \in {{}} \cup {{x} : x \in Reasons}, t \in {{}} \cup {{x} : x \in Contracts}, n \in 0..2, cheat \in BOOLEAN :
       expect_revert(r, t, n, cheat)
  \/ \E rs \in {{}} \cup {{[reason |-> {x}, reverter |-> {}]} : x \in Reasons} : assume_no_revert(rs)
  \/ startStateDiffRecording
  \/ get_state_diff
  \/ \E n \in 0..2 : expect_emit(n)
  \/ \E t \in Contracts, n \in 0..2, counted \in BOOLEAN : (counted \/ n = 1) /\ expect_call(t, n, counted)
  \/ \E t \in {Test} \cup Impostors : expect_create(t)
  \/ \E t \in Contracts, answers \in {<< >>, <<Ok>>, <<Revert("x"), Ok>>} : mock_calls(t, answers)
  \/ clearMockedCalls
  \/ cheatcodeFails

CheatNext ==
  \/ TestCheats
  \/ \E t \in Contracts, scheme \in {"call", "static", "delegate"} : Call(t, scheme)
  \/ Create
  \/ \E log \in Logs : Log(log)
  \/ Leave(Ok)
  \/ \E r \in Reasons : Leave(Revert(r))
  \/ Leave(Halt)

CheatSpec == CheatInit /\ [][CheatNext]_cheat_vars

-----------------------------------------------------------------------------
(* Properties *)

\* Nobody is impersonated who did not ask for it: a frame whose msg.sender is
\* not the contract that called was pranked or broadcast by that contract, at
\* that depth (inspector.rs, the prank and broadcast parts of the hooks).  And
\* between two calls of the test, tx.origin is the sender again, unless pranks
\* went astray: a frame returned without stopping its own, the end of a create
\* removed those of other frames, or a call inside a broadcast stopped it.
SendersAreReal ==
  /\ \A d \in 2..depth :
       LET f == frames[d]
       IN  f.scheme # "delegate" /\ f.caller # f.by =>
             [who |-> f.by, depth |-> d - 1, as |-> f.caller] \in past.asked
  /\ depth = 1 /\ ~past.astray => env.origin = Sender

\* A test that passes saw everything it expected: the root call ends well only
\* if each expectCall was met by the calls really made, mocked or not, no
\* expectRevert is left, and no emit or create is awaited; unless a pending
\* expectRevert or assumeNoRevert swallowed the end of the root call.
PassMeansExpectationsMet ==
  verdict = {Ok} /\ ~past.settled =>
    /\ \A t \in DOMAIN cheats.expected_calls :
         LET x == cheats.expected_calls[t]
         IN  IF x.counted THEN past.made[t] = x.count ELSE past.made[t] >= x.count
    /\ \A x \in cheats.expected_revert : x.cheatcode
    /\ cheats.expected_emits = << >> /\ cheats.expected_creates = << >>

\* The recording has every call since it started, in order and once, and marks
\* exactly those that reverted or were made within a call that reverted; unless
\* a call was answered by a hook, or its end was taken by expectRevert or
\* assumeNoRevert, which leave the stack of pending accesses uneven.  A call
\* that halts is rolled back too, but is not marked and marks nothing within
\* it: the hooks ask is_revert (inspector.rs 900 and 1582).
RecordingTellsReverts ==
  cheats.recording /\ verdict = {} /\ ~past.skewed =>
    LET all == FlattenSeq(cheats.diffs)
    IN  /\ [i \in DOMAIN all |-> all[i].number] = [i \in 1..(past.calls - past.since) |-> past.since + i]
        /\ \A i \in DOMAIN all : all[i].reverted <=> all[i].number \in past.reverted

\* The transactions a script broadcasts carry the nonces their senders will
\* have on chain, one after the other, unless a frame with a recorded create
\* reverted and gave its nonce back.
BroadcastNoncesFollow ==
  ~past.undone =>
    \A b \in Broadcasters :
      LET mine == SelectSeq(cheats.transactions, LAMBDA t : t.from = b)
      IN  \A i \in DOMAIN mine : mine[i].nonce = StartNonce + i - 1
===============================================================================
