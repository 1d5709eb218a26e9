-------------------------------- MODULE Raffle --------------------------------
(***************************************************************************)
(* foundry-smart-contract-lottery: Raffle.sol with what drives it, the     *)
(* players, Chainlink Automation (which calls performUpkeep), Chainlink's  *)
(* VRF coordinator (which answers a request in a later transaction) and    *)
(* time.                                                                   *)
(*                                                                         *)
(* A transaction is one action, a revert disables it.  The exception is    *)
(* the coordinator's transaction.  It goes through when the consumer's     *)
(* callback inside it reverts, and the callback ends with a call of the    *)
(* winner, in which the winner may call the raffle again: the calls made   *)
(* while paying # Nobody are inside the callback.                          *)
(***************************************************************************)
EXTENDS Integers, Sequences, FiniteSets

CONSTANTS
  Players,        \* accounts that may enter
  Rejecting,      \* those that revert when they are sent ETH
  i_entranceFee,
  i_interval,     \* in ticks
  MsgValues,      \* the ETH a player may send along
  Funds,          \* ETH of every player at the start
  RandomWords,    \* the words the coordinator may answer with
  MaxPlayers,     \* bound on the length of s_players
  Nobody          \* address(0)

ASSUME PlayersAssumption ==
  IsFiniteSet(Players) /\ Nobody \notin Players /\ Rejecting \subseteq Players
ASSUME ParametersAssumption ==
  /\ i_entranceFee \in Nat \ {0}
  /\ i_interval \in Nat
  /\ MsgValues \subseteq Nat
  /\ Funds \in Nat
  /\ RandomWords \subseteq Nat
  /\ MaxPlayers \in Nat

VARIABLES
  s_players,
  s_raffleState,    \* OPEN or CALCULATING
  s_recentWinner,
  elapsed,          \* block.timestamp - s_lastTimestamp, at most i_interval + 1
  balance,          \* address(this).balance
  wallet,           \* the ETH of the players
  requests,         \* requests the coordinator has not answered
  paying            \* the winner whose call is not over, or Nobody

vars == <<s_players, s_raffleState, s_recentWinner, elapsed, balance, wallet, requests, paying>>

-----------------------------------------------------------------------------
(* The contract *)

Init ==
  /\ s_players = <<>>
  /\ s_raffleState = "OPEN"
  /\ s_recentWinner = Nobody
  /\ elapsed = 0
  /\ balance = 0
  /\ wallet = [p \in Players |-> Funds]
  /\ requests = 0
  /\ paying = Nobody

\* Mutant of enterRaffle: the fee is not checked.
enterRaffle_Free(p, value) ==
  /\ Len(s_players) < MaxPlayers
  /\ s_raffleState = "OPEN"
  /\ s_players' = Append(s_players, p)
  /\ UNCHANGED <<s_raffleState, s_recentWinner, elapsed, balance, wallet, requests, paying>>

\* A player enters, as often as they like, also inside the winner's call.
enterRaffle(p, value) ==
  /\ Len(s_players) < MaxPlayers
  /\ value <= wallet[p]
  /\ s_raffleState = "OPEN"
  /\ value >= i_entranceFee
  /\ s_players' = Append(s_players, p)
  /\ balance' = balance + value
  /\ wallet' = [wallet EXCEPT ![p] = @ - value]
  /\ UNCHANGED <<s_raffleState, s_recentWinner, elapsed, requests, paying>>

\* Mutant of checkUpkeep: a draw that is under way is drawn again.
checkUpkeep_AnyState ==
  elapsed > i_interval /\ balance > 0 /\ Len(s_players) > 0

\* Mutant of checkUpkeep: off by one in the number of players.
checkUpkeep_TwoPlayers ==
  /\ elapsed > i_interval
  /\ s_raffleState = "OPEN"
  /\ balance > 0
  /\ Len(s_players) > 1

checkUpkeep ==
  /\ elapsed > i_interval
  /\ s_raffleState = "OPEN"
  /\ balance > 0
  /\ Len(s_players) > 0

performUpkeep ==
  /\ checkUpkeep
  /\ s_raffleState' = "CALCULATING"
  /\ requests' = requests + 1
  /\ UNCHANGED <<s_players, s_recentWinner, elapsed, balance, wallet, paying>>

winnerIndex(word) == word % Len(s_players)

\* s_players[winnerIndex], of a sequence that starts at 1.
WinnerFor(word) == s_players[winnerIndex(word) + 1]

\* The callback reverts: on the remainder by zero, and on a failed transfer.
CallbackReverts(word) == s_players = <<>> \/ WinnerFor(word) \in Rejecting

\* Mutant of fulfillRandomWords: the raffle is not opened again.
fulfillRandomWords_StaysClosed(word) ==
  /\ ~CallbackReverts(word)
  /\ s_recentWinner' = WinnerFor(word)
  /\ s_players' = <<>>
  /\ elapsed' = 0
  /\ wallet' = [wallet EXCEPT ![WinnerFor(word)] = @ + balance]
  /\ balance' = 0
  /\ paying' = WinnerFor(word)
  /\ UNCHANGED s_raffleState

\* Mutant of fulfillRandomWords: s_lastTimestamp is not set before the call.
fulfillRandomWords_StampsLate(word) ==
  /\ ~CallbackReverts(word)
  /\ s_recentWinner' = WinnerFor(word)
  /\ s_raffleState' = "OPEN"
  /\ s_players' = <<>>
  /\ wallet' = [wallet EXCEPT ![WinnerFor(word)] = @ + balance]
  /\ balance' = 0
  /\ paying' = WinnerFor(word)
  /\ UNCHANGED elapsed

\* The winner gets the whole balance with a call that comes last, when the
\* raffle is open for the next round.
fulfillRandomWords(word) ==
  /\ ~CallbackReverts(word)
  /\ s_recentWinner' = WinnerFor(word)
  /\ s_raffleState' = "OPEN"
  /\ s_players' = <<>>
  /\ elapsed' = 0
  /\ wallet' = [wallet EXCEPT ![WinnerFor(word)] = @ + balance]
  /\ balance' = 0
  /\ paying' = WinnerFor(word)

\* The call of the winner returns, and with it the callback.
callReturns ==
  /\ paying # Nobody
  /\ paying' = Nobody
  /\ UNCHANGED <<s_players, s_raffleState, s_recentWinner, elapsed, balance, wallet, requests>>

-----------------------------------------------------------------------------
(* What the contract runs against *)

\* The coordinator answers a request, once.
answerRequest(word) ==
  /\ paying = Nobody
  /\ requests > 0
  /\ requests' = requests - 1
  /\ \/ fulfillRandomWords(word)
     \/ /\ CallbackReverts(word)
        /\ UNCHANGED <<s_players, s_raffleState, s_recentWinner, elapsed, balance, wallet, paying>>

Tick ==
  /\ paying = Nobody
  /\ elapsed <= i_interval
  /\ elapsed' = elapsed + 1
  /\ UNCHANGED <<s_players, s_raffleState, s_recentWinner, balance, wallet, requests, paying>>

-----------------------------------------------------------------------------

Enter == \E p \in Players, value \in MsgValues : enterRaffle(p, value)
Answer == \E word \in RandomWords : answerRequest(word)

Next == Enter \/ performUpkeep \/ Answer \/ callReturns \/ Tick

Spec == Init /\ [][Next]_vars

\* Time passes, Automation calls performUpkeep when checkUpkeep says so, the
\* coordinator answers and every call ends.  Nobody has to enter.
Fairness ==
  WF_vars(Tick) /\ WF_vars(performUpkeep) /\ WF_vars(Answer) /\ WF_vars(callReturns)

FairSpec == Spec /\ Fairness

-----------------------------------------------------------------------------
(* Properties *)

TypeOK ==
  /\ s_players \in Seq(Players)
  /\ s_raffleState \in {"OPEN", "CALCULATING"}
  /\ s_recentWinner \in Players \cup {Nobody}
  /\ elapsed \in 0 .. i_interval + 1
  /\ balance \in Nat
  /\ wallet \in [Players -> Nat]
  /\ requests \in Nat
  /\ paying \in Players \cup {Nobody}

\* Every ticket of the round is in the pot, and a round without players has no
\* pot: nothing of an earlier round is left behind by a payment, by a callback
\* that failed or by a winner who enters again while being paid
\* (enterRaffle, fulfillRandomWords).
TicketsAreInThePot ==
  /\ balance >= i_entranceFee * Len(s_players)
  /\ s_players = <<>> => balance = 0

\* A request is only open while its round is being drawn, there is only one,
\* and there are players to draw from: the remainder by s_players.length in
\* fulfillRandomWords never divides by zero and no answer hits another round.
AnswerFindsItsRound ==
  requests > 0 => requests = 1 /\ s_raffleState = "CALCULATING" /\ s_players # <<>>

\* From the request to the answer the list of players and the pot stand still,
\* so the word is drawn over the tickets that were sold before it was asked for
\* (the onlyOpen modifier).
SalesAreClosed ==
  s_raffleState = "CALCULATING" /\ s_raffleState' = "CALCULATING"
    => UNCHANGED <<s_players, balance>>
SalesAreClosedDuringDraw == [][SalesAreClosed]_vars

\* A draw gives the pot, all of it, to one account that holds a ticket, and
\* touches nobody else's ETH.  Whatever is called while the winner is being paid,
\* the draw stays as it was: tickets of the next round can be had, any number of
\* them, but the next draw cannot be asked for before the call is over
\* (fulfillRandomWords resets the round before its call, checkUpkeep).
PaysOneTicketHolder ==
  /\ s_raffleState = "CALCULATING" /\ s_raffleState' = "OPEN" =>
       \E i \in 1 .. Len(s_players) : LET winner == s_players[i] IN
         /\ s_recentWinner' = winner
         /\ wallet'[winner] = wallet[winner] + balance
         /\ \A p \in Players \ {winner} : wallet'[p] = wallet[p]
  /\ paying # Nobody =>
       s_recentWinner' = paying /\ s_raffleState' = "OPEN" /\ requests' = 0
DrawsPayOneTicketHolder == [][PaysOneTicketHolder]_vars

\* Once a ticket is sold, a draw is requested (checkUpkeep, performUpkeep).
TicketsLeadToDraw == s_players # <<>> ~> s_raffleState = "CALCULATING"

\* A draw that was requested ends and the raffle opens again
\* (fulfillRandomWords).
DrawsFinish == s_raffleState = "CALCULATING" ~> s_raffleState = "OPEN"
==============================================================================
