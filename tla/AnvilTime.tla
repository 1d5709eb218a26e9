------------------------------ MODULE AnvilTime ------------------------------
(***************************************************************************)
(* anvil's TimeManager (eth/backend/time.rs) with the requests that turn   *)
(* its clock and the blocks that take their timestamps from it.            *)
(***************************************************************************)
EXTENDS Integers, Sequences

CONSTANTS
  Timestamps,    \* what clients ask for
  Amounts,       \* seconds to jump by, and intervals between blocks
  Start,         \* the system clock when the node starts
  MaxCurrent, MaxBlocks

ASSUME TimeAssumption ==
  /\ Timestamps \subseteq Nat /\ Amounts \subseteq Nat
  /\ Start \in Nat /\ MaxCurrent \in Nat /\ MaxBlocks \in Nat

VARIABLES
  current,                \* the system clock
  offset, last_timestamp,
  next_exact_timestamp,   \* -1 for None
  interval,               \* -1 for None
  timestamps,             \* the timestamps of the blocks, genesis first
  jumps                   \* history: the blocks after which evm_setTime went back

time_vars == <<current, offset, last_timestamp, next_exact_timestamp, interval, timestamps, jumps>>
Unset == -1

TimeInit ==
  /\ current = Start /\ offset = 0 /\ last_timestamp = Start
  /\ next_exact_timestamp = Unset /\ interval = Unset
  /\ timestamps = <<Start>>
  /\ jumps = {}

-----------------------------------------------------------------------------
\* Mutant: the block may be older than its parent.
compute_next_timestamp_Unchecked(last, exact, every, natural) ==
  IF exact # Unset THEN exact ELSE IF every # Unset THEN last + every ELSE natural

\* compute_next_timestamp, for the state of a TimeManager
compute_next_timestamp(last, exact, every, natural) ==
  LET next == IF exact # Unset THEN exact
              ELSE IF every # Unset THEN last + every
              ELSE natural
  IN IF next < last THEN last + 1 ELSE next

current_call_timestamp ==
  compute_next_timestamp(last_timestamp, next_exact_timestamp, interval, current + offset)

next_offset(next) == IF next_exact_timestamp # Unset THEN next - current ELSE offset

reset(timestamp) ==
  /\ last_timestamp' = timestamp
  /\ offset' = timestamp - current
  /\ next_exact_timestamp' = Unset

-----------------------------------------------------------------------------
Tick ==
  /\ current < MaxCurrent
  /\ current' = current + 1
  /\ UNCHANGED <<offset, last_timestamp, next_exact_timestamp, interval, timestamps, jumps>>

\* A block is mined: next_timestamp.
next_timestamp ==
  /\ Len(timestamps) < MaxBlocks
  /\ LET next == current_call_timestamp
     IN /\ last_timestamp' = next
        /\ offset' = next_offset(next)
        /\ timestamps' = Append(timestamps, next)
  /\ next_exact_timestamp' = Unset
  /\ UNCHANGED <<current, interval, jumps>>

evm_increase_time(seconds) ==
  /\ current + offset + seconds <= MaxCurrent
  /\ offset' = offset + seconds
  /\ UNCHANGED <<current, last_timestamp, next_exact_timestamp, interval, timestamps, jumps>>

\* One block of anvil_mine with an interval: the clock jumps, then a block.
anvil_mine(seconds) ==
  /\ Len(timestamps) < MaxBlocks /\ current + offset + seconds <= MaxCurrent
  /\ LET next == compute_next_timestamp(last_timestamp, next_exact_timestamp, interval,
                                        current + offset + seconds)
     IN /\ last_timestamp' = next
        /\ offset' = IF next_exact_timestamp # Unset THEN next - current ELSE offset + seconds
        /\ timestamps' = Append(timestamps, next)
  /\ next_exact_timestamp' = Unset
  /\ UNCHANGED <<current, interval, jumps>>

evm_set_next_block_timestamp(timestamp) ==
  /\ timestamp >= last_timestamp
  /\ next_exact_timestamp' = timestamp
  /\ UNCHANGED <<current, offset, last_timestamp, interval, timestamps, jumps>>

evm_set_time(timestamp) ==
  /\ jumps' = IF timestamp < last_timestamp THEN jumps \cup {Len(timestamps)} ELSE jumps
  /\ reset(timestamp)
  /\ UNCHANGED <<current, interval, timestamps>>

evm_set_block_timestamp_interval(seconds) ==
  /\ interval' = seconds
  /\ UNCHANGED <<current, offset, last_timestamp, next_exact_timestamp, timestamps, jumps>>

evm_remove_block_timestamp_interval ==
  /\ interval' = Unset
  /\ UNCHANGED <<current, offset, last_timestamp, next_exact_timestamp, timestamps, jumps>>

\* evm_revert and anvil_rollback: the clock goes back to the block's time.
rewind(n) ==
  /\ n < Len(timestamps)
  /\ timestamps' = SubSeq(timestamps, 1, n)
  /\ reset(timestamps[n])
  /\ jumps' = {i \in jumps : i < n}
  /\ UNCHANGED <<current, interval>>

TimeNext ==
  \/ Tick \/ next_timestamp \/ evm_remove_block_timestamp_interval
  \/ \E s \in Amounts : \/ evm_increase_time(s)
                        \/ anvil_mine(s)
                        \/ evm_set_block_timestamp_interval(s)
  \/ \E t \in Timestamps : evm_set_next_block_timestamp(t) \/ evm_set_time(t)
  \/ \E n \in 1 .. MaxBlocks : rewind(n)

TimeSpec == TimeInit /\ [][TimeNext]_time_vars
-----------------------------------------------------------------------------
(* Properties *)

\* The time the clock shows is a u64: current + offset never wraps.
TimeTypeOK ==
  /\ current \in Nat /\ last_timestamp \in Nat /\ current + offset \in Nat
  /\ next_exact_timestamp \in Nat \cup {Unset} /\ interval \in Nat \cup {Unset}

\* No block is older than its parent, whatever is reverted, however clients
\* turn the clock and wherever the interval and the exact timestamps take over
\* from one another; unless evm_setTime took the clock back in between.
NeverBackInTime ==
  \A i \in 1 .. Len(timestamps) - 1 : i \notin jumps => timestamps[i] <= timestamps[i + 1]

\* The correction in compute_next_timestamp does no harm either: a timestamp that
\* was accepted for the next block is the next block's.
TimestampsKeepTheirOrder ==
  /\ TimeTypeOK /\ NeverBackInTime
  /\ next_exact_timestamp # Unset => current_call_timestamp = next_exact_timestamp
==============================================================================
