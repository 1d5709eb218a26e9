----------------------------- MODULE MCDSCEngine -----------------------------
(* Model-checking instances of DSCEngine. *)
EXTENDS DSCEngine, TLC

CONSTANTS a, b, eng, weth, wbtc

TwoUsers == {a, b}
OneToken == {weth}
TwoTokens == {weth, wbtc}

\* $1 per token is 2: an answer of 3 leaves remainders in getUSDValue and in
\* getTokenAmountFromUSD.  The negative answer is a feed that went wrong.
FallingAnswers == {-1, 0, 2, 3, 4}

\* At 20 to the dollar and from $2 down: 22 puts a position that was at the
\* limit at exactly 110%, 21 at 105%, 15 under water.
SlidingAnswers == {-1, 0, 15, 21, 22, 40}

LowAnswers == {2, 3, 4}

UserSymmetry == Permutations(TwoUsers)
==============================================================================
