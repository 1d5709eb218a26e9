-------------------------------- MODULE FundMe --------------------------------
(***************************************************************************)
(* foundry-fund-me: FundMe.sol.  The owner may be a contract whose receive *)
(* function funds again while a withdrawal is under way, so a withdrawal   *)
(* is two steps: up to the transfer, and the return from it.  No ETH is    *)
(* forced on the contract from outside its functions.                      *)
(***************************************************************************)
EXTENDS Integers, FiniteSets, Sequences, SequencesExt, Functions

CONSTANTS
  Donors, i_owner,
  MINIMUM_USD, Donations,
  Prices,              \* the feed's answers, which are signed
  FEED_SCALE, ETHER,   \* 1e10 and 1e18
  WORD,                \* the number of values of a uint256
  MaxFunds      \* bound on the length of s_funders

ASSUME FundMeAssumption ==
  /\ IsFiniteSet(Donors) /\ i_owner \in Donors
  /\ Prices \subseteq Int /\ Donations \subseteq Nat /\ MaxFunds \in Nat
  /\ {FEED_SCALE, ETHER, WORD} \subseteq Nat \ {0}

VARIABLES
  s_addressToAmountFunded, s_funders,
  fund_balance,   \* address(this).balance
  eth_price,      \* the feed's answer
  withdrawal      \* the state a revert of the current withdrawal restores, <<>> if none

fund_vars == <<s_addressToAmountFunded, s_funders, fund_balance, eth_price, withdrawal>>

FundMeInit ==
  /\ s_addressToAmountFunded = [a \in Donors |-> 0]
  /\ s_funders = <<>>
  /\ fund_balance = 0
  /\ eth_price \in Prices
  /\ withdrawal = <<>>

\* The cast of a negative answer wraps.
getPrice == (eth_price * FEED_SCALE) % WORD

getConversionRate(value) == (getPrice * value) \div ETHER

\* fund, fallback and receive.
fund(a, value) ==
  /\ withdrawal # <<>> => a = i_owner
  /\ Len(s_funders) < MaxFunds
  /\ getPrice * value < WORD
  /\ getConversionRate(value) >= MINIMUM_USD
  /\ s_addressToAmountFunded' = [s_addressToAmountFunded EXCEPT ![a] = @ + value]
  /\ s_funders' = Append(s_funders, a)
  /\ fund_balance' = fund_balance + value
  /\ UNCHANGED <<eth_price, withdrawal>>

\* Mutant: the loop stops one funder early.
ResetFunders_OneShort ==
  FoldLeft(LAMBDA f, a : [f EXCEPT ![a] = 0], s_addressToAmountFunded, SubSeq(s_funders, 1, Len(s_funders) - 1))

\* The loop over s_funders of both withdrawals.
ResetFunders == FoldLeft(LAMBDA f, a : [f EXCEPT ![a] = 0], s_addressToAmountFunded, s_funders)

\* withdraw and cheaperWithdraw, up to the call that pays the owner.  The owner's
\* contract may call them again while it is being paid.
withdraw ==
  /\ s_addressToAmountFunded' = ResetFunders
  /\ s_funders' = <<>>
  /\ fund_balance' = 0
  /\ Len(withdrawal) < 2
  /\ withdrawal' = Append(withdrawal, [amounts |-> s_addressToAmountFunded, funders |-> s_funders,
                                       balance |-> fund_balance])
  /\ UNCHANGED eth_price

withdrawReturns ==
  /\ withdrawal # <<>>
  /\ withdrawal' = Front(withdrawal)
  /\ UNCHANGED <<s_addressToAmountFunded, s_funders, fund_balance, eth_price>>

\* callSuccess is false, or the owner's contract reverts: everything is undone.
withdrawReverts ==
  /\ withdrawal # <<>>
  /\ s_addressToAmountFunded' = Last(withdrawal).amounts
  /\ s_funders' = Last(withdrawal).funders
  /\ fund_balance' = Last(withdrawal).balance
  /\ withdrawal' = Front(withdrawal)
  /\ UNCHANGED eth_price

priceMoves ==
  /\ withdrawal = <<>>
  /\ \E p \in Prices \ {eth_price} : eth_price' = p
  /\ UNCHANGED <<s_addressToAmountFunded, s_funders, fund_balance, withdrawal>>

FundMeNext ==
  \/ \E a \in Donors, v \in Donations : fund(a, v)
  \/ withdraw \/ withdrawReturns \/ withdrawReverts
  \/ priceMoves

FundMeSpec == FundMeInit /\ [][FundMeNext]_fund_vars
-----------------------------------------------------------------------------
\* What is recorded for the funders is what the contract holds, and everyone
\* with an amount is in s_funders, where the next withdrawal finds them: also
\* while a withdrawal is paying an owner that funds or withdraws again, and
\* after it is undone (FundMe.sol 24-29, 41-70).
FundsAreTheFunders ==
  /\ SumFunction(s_addressToAmountFunded) = fund_balance
  /\ \A a \in Donors : s_addressToAmountFunded[a] > 0 => Contains(s_funders, a)
==============================================================================
