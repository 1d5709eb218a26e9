------------------------------ MODULE DSCEngine ------------------------------
(***************************************************************************)
(* foundry-defi-stablecoin: DSCEngine.sol, the stablecoin it owns          *)
(* (DecentralizedStableCoin.sol) and the price check of OracleLib.sol,     *)
(* together with what they run against: the collateral tokens, Chainlink's *)
(* price feeds and time.                                                   *)
(*                                                                         *)
(* A transaction is one action.  A revert undoes the transaction, so every *)
(* condition under which the code reverts is a conjunct of the action.     *)
(* The first parameter u of an action is msg.sender.                       *)
(***************************************************************************)
EXTENDS Integers, FiniteSets, Functions, ERC20

CONSTANTS
  Users,                      \* accounts that send transactions
  Engine,                     \* address(this), the owner of the DSC contract
  Tokens,                     \* s_collateralTokens, each with a price feed
  PRECISION,                  \* 1e18 in the code
  ADDITIONAL_FEED_PRECISION,  \* 1e10 in the code
  MAX_UINT,                   \* type(uint256).max
  TIMEOUT,                    \* OracleLib's 3 hours, in ticks
  Answers,                    \* the int256 answers the feeds may report
  MaxMoves,                   \* bound on how often a feed's answer moves
  InitialPrice,               \* the answer of every feed at deployment
  Wallet,                     \* collateral every user owns at the start
  CollateralAmounts,          \* arguments for amounts of collateral
  DSCAmounts                  \* arguments for amounts of DSC

ASSUME UsersAssumption ==
  IsFiniteSet(Users) /\ Engine \notin Users
ASSUME TokensAssumption ==
  IsFiniteSet(Tokens)
ASSUME PrecisionAssumption ==
  /\ PRECISION \in Nat \ {0}
  /\ ADDITIONAL_FEED_PRECISION \in Nat \ {0}
  /\ MAX_UINT \in Nat /\ MAX_UINT > PRECISION
  /\ TIMEOUT \in Nat
ASSUME InputsAssumption ==
  /\ Answers \subseteq Int
  /\ InitialPrice \in Answers
  /\ MaxMoves \in Nat
  /\ Wallet \in Nat
  /\ CollateralAmounts \subseteq Nat
  /\ DSCAmounts \subseteq Nat

LIQUIDATION_THRESHOLD == 50
LIQUIDATION_PRECISION == 100
LIQUIDATION_BONUS == 10
MIN_HEALTH_FACTOR == PRECISION

Accounts == Users \cup {Engine}

VARIABLES
  s_collateralDeposited,  \* s_collateralDeposited[user][token]
  s_DSCMinted,            \* the debt of each user
  collateral,             \* collateral[token]: the token's ledger
  dsc,                    \* the ledger of the stablecoin
  totalSupply,            \* the stablecoin's total supply
  price,                  \* the last answer of each token's feed
  moves,                  \* how often each feed's answer has moved
  age                     \* block.timestamp - updatedAt, at most TIMEOUT + 1

feeds == <<price, moves, age>>
tokens == <<collateral, dsc, totalSupply>>
positions == <<s_collateralDeposited, s_DSCMinted>>
vars == <<s_collateralDeposited, s_DSCMinted, collateral, dsc, totalSupply, price,
          moves, age>>

-----------------------------------------------------------------------------
(* Views *)

\* staleCheckLatestRoundData reverts on an answer older than TIMEOUT.  A
\* negative answer becomes a uint256 above 2^255, and the checked product with
\* ADDITIONAL_FEED_PRECISION reverts.
Readable(t) == age[t] <= TIMEOUT /\ price[t] >= 0

getUSDValue(t, amount) ==
  (price[t] * ADDITIONAL_FEED_PRECISION * amount) \div PRECISION

getTokenAmountFromUSD(t, usd) ==
  (usd * PRECISION) \div (price[t] * ADDITIONAL_FEED_PRECISION)

getAccountCollateralValue(deposit) ==
  SumFunction([t \in Tokens |-> getUSDValue(t, deposit[t])])

\* Mutant of calculateHealthFactor: a position without debt is not special.
calculateHealthFactor_NoDebtIsZero(debt, value) ==
  IF debt = 0 THEN 0
  ELSE (((value * LIQUIDATION_THRESHOLD) \div LIQUIDATION_PRECISION) * PRECISION) \div debt

calculateHealthFactor(debt, value) ==
  IF debt = 0 THEN MAX_UINT
  ELSE LET adjusted == (value * LIQUIDATION_THRESHOLD) \div LIQUIDATION_PRECISION
       IN  (adjusted * PRECISION) \div debt

\* The health factor of a position: the user's debt and deposit, which an
\* action may pass as they are in the middle of the transaction.
healthFactor(debt, deposit) ==
  calculateHealthFactor(debt, getAccountCollateralValue(deposit))

\* getAccountCollateralValue reads the feed of every token, also of those the
\* user has not deposited, and it does so for a user without debt too.
AllReadable == \A t \in Tokens : Readable(t)

\* Mutant of HealthFactorHolds: the feeds of tokens without a deposit are skipped.
HealthFactorHolds_OwnFeeds(debt, deposit) ==
  /\ \A t \in Tokens : deposit[t] > 0 => Readable(t)
  /\ healthFactor(debt, deposit) >= MIN_HEALTH_FACTOR

\* _revertIfHealthFactorIsBroken does not revert.
HealthFactorHolds(debt, deposit) ==
  AllReadable /\ healthFactor(debt, deposit) >= MIN_HEALTH_FACTOR

-----------------------------------------------------------------------------
(* DecentralizedStableCoin, called by its owner, the engine *)

DSC_mint(to, n) ==
  /\ dsc' = Mint(dsc, to, n)
  /\ totalSupply' = totalSupply + n

\* The owner burns its own balance, here of a ledger in the middle of a
\* transaction.
DSC_burn(ledger, n) ==
  /\ n <= ledger[Engine]
  /\ dsc' = Burn(ledger, Engine, n)
  /\ totalSupply' = totalSupply - n

-----------------------------------------------------------------------------
(* The engine's transactions *)

depositCollateral(u, t, n) ==
  /\ n > 0
  /\ CanTransfer(collateral[t], u, n)
  /\ s_collateralDeposited' = [s_collateralDeposited EXCEPT ![u][t] = @ + n]
  /\ collateral' = [collateral EXCEPT ![t] = Transfer(@, u, Engine, n)]
  /\ UNCHANGED <<s_DSCMinted, dsc, totalSupply, feeds>>

mintDSC(u, n) ==
  /\ n > 0
  /\ HealthFactorHolds(s_DSCMinted[u] + n, s_collateralDeposited[u])
  /\ s_DSCMinted' = [s_DSCMinted EXCEPT ![u] = @ + n]
  /\ DSC_mint(u, n)
  /\ UNCHANGED <<s_collateralDeposited, collateral, feeds>>

depositCollateralAndMintDSC(u, t, n, m) ==
  LET deposit == [s_collateralDeposited[u] EXCEPT ![t] = @ + n] IN
  /\ n > 0 /\ m > 0
  /\ CanTransfer(collateral[t], u, n)
  /\ HealthFactorHolds(s_DSCMinted[u] + m, deposit)
  /\ s_collateralDeposited' = [s_collateralDeposited EXCEPT ![u] = deposit]
  /\ collateral' = [collateral EXCEPT ![t] = Transfer(@, u, Engine, n)]
  /\ s_DSCMinted' = [s_DSCMinted EXCEPT ![u] = @ + m]
  /\ DSC_mint(u, m)
  /\ UNCHANGED feeds

\* Mutant of _redeemCollateral: the deposit is not debited.
_redeemCollateral_NoDebit(from, to, t, n) ==
  /\ n <= s_collateralDeposited[from][t]
  /\ CanTransfer(collateral[t], Engine, n)
  /\ s_collateralDeposited' = s_collateralDeposited
  /\ collateral' = [collateral EXCEPT ![t] = Transfer(@, Engine, to, n)]

\* _redeemCollateral: the checked subtraction reverts when the deposit of
\* "from" is too small, the transfer when the engine does not hold the tokens.
_redeemCollateral(from, to, t, n) ==
  /\ n <= s_collateralDeposited[from][t]
  /\ CanTransfer(collateral[t], Engine, n)
  /\ s_collateralDeposited' = [s_collateralDeposited EXCEPT ![from][t] = @ - n]
  /\ collateral' = [collateral EXCEPT ![t] = Transfer(@, Engine, to, n)]

\* Mutant of _burnDSC: the engine keeps the DSC it took instead of burning it.
_burnDSC_Keep(onBehalfOf, dscFrom, n) ==
  /\ n <= s_DSCMinted[onBehalfOf]
  /\ CanTransfer(dsc, dscFrom, n)
  /\ s_DSCMinted' = [s_DSCMinted EXCEPT ![onBehalfOf] = @ - n]
  /\ dsc' = Transfer(dsc, dscFrom, Engine, n)
  /\ UNCHANGED totalSupply

\* _burnDSC: the payer's DSC goes to the engine, which burns it.
_burnDSC(onBehalfOf, dscFrom, n) ==
  /\ n <= s_DSCMinted[onBehalfOf]
  /\ CanTransfer(dsc, dscFrom, n)
  /\ s_DSCMinted' = [s_DSCMinted EXCEPT ![onBehalfOf] = @ - n]
  /\ DSC_burn(Transfer(dsc, dscFrom, Engine, n), n)

\* Mutant of redeemCollateral: no health check at the end.
redeemCollateral_Unchecked(u, t, n) ==
  /\ n > 0
  /\ _redeemCollateral(u, u, t, n)
  /\ UNCHANGED <<s_DSCMinted, dsc, totalSupply, feeds>>

redeemCollateral(u, t, n) ==
  /\ n > 0
  /\ _redeemCollateral(u, u, t, n)
  /\ HealthFactorHolds(s_DSCMinted[u], s_collateralDeposited'[u])
  /\ UNCHANGED <<s_DSCMinted, dsc, totalSupply, feeds>>

burnDSC(u, n) ==
  /\ n > 0
  /\ _burnDSC(u, u, n)
  /\ HealthFactorHolds(s_DSCMinted'[u], s_collateralDeposited[u])
  /\ UNCHANGED <<s_collateralDeposited, collateral, feeds>>

\* burnDSC checks the health factor before the collateral is redeemed,
\* redeemCollateral and the function itself check it after.
redeemCollateralForDSC(u, t, n, m) ==
  /\ n > 0 /\ m > 0
  /\ _burnDSC(u, u, m)
  /\ HealthFactorHolds(s_DSCMinted'[u], s_collateralDeposited[u])
  /\ _redeemCollateral(u, u, t, n)
  /\ HealthFactorHolds(s_DSCMinted'[u], s_collateralDeposited'[u])
  /\ UNCHANGED feeds

\* Mutant of totalCollateralToRedeem: the threshold in place of the bonus.
totalCollateralToRedeem_Threshold(t, n) ==
  LET tokenAmountFromDebtCovered == getTokenAmountFromUSD(t, n)
  IN  tokenAmountFromDebtCovered
        + (tokenAmountFromDebtCovered * LIQUIDATION_THRESHOLD) \div LIQUIDATION_PRECISION

\* The collateral the liquidator gets for covering a debt of n.
totalCollateralToRedeem(t, n) ==
  LET tokenAmountFromDebtCovered == getTokenAmountFromUSD(t, n)
      bonusCollateral ==
        (tokenAmountFromDebtCovered * LIQUIDATION_BONUS) \div LIQUIDATION_PRECISION
  IN  tokenAmountFromDebtCovered + bonusCollateral

\* Mutant of liquidate: the health factor is only checked at the end.
liquidate_AnyPosition(u, t, user, n) ==
  /\ n > 0
  /\ AllReadable
  /\ price[t] # 0
  /\ _redeemCollateral(user, u, t, totalCollateralToRedeem(t, n))
  /\ _burnDSC(user, u, n)
  /\ HealthFactorHolds(s_DSCMinted'[user], s_collateralDeposited'[user])
  /\ UNCHANGED feeds

\* An answer of 0 divides by zero in getTokenAmountFromUSD.
liquidate(u, t, user, n) ==
  /\ n > 0
  /\ AllReadable
  /\ healthFactor(s_DSCMinted[user], s_collateralDeposited[user]) < MIN_HEALTH_FACTOR
  /\ price[t] # 0
  /\ _redeemCollateral(user, u, t, totalCollateralToRedeem(t, n))
  /\ _burnDSC(user, u, n)
  /\ healthFactor(s_DSCMinted'[user], s_collateralDeposited'[user]) > MIN_HEALTH_FACTOR
  /\ HealthFactorHolds(s_DSCMinted'[user], s_collateralDeposited'[user])
  /\ UNCHANGED feeds

-----------------------------------------------------------------------------
(* What the engine runs against *)

\* A user sends DSC to any account, the engine included.
transferDSC(u, to, n) ==
  /\ CanTransfer(dsc, u, n)
  /\ dsc' = Transfer(dsc, u, to, n)
  /\ UNCHANGED <<positions, collateral, totalSupply, feeds>>

\* A user sends collateral to any account, the engine included.
transferCollateral(u, t, to, n) ==
  /\ CanTransfer(collateral[t], u, n)
  /\ collateral' = [collateral EXCEPT ![t] = Transfer(@, u, to, n)]
  /\ UNCHANGED <<positions, dsc, totalSupply, feeds>>

\* ERC20Burnable.burnFrom, which DecentralizedStableCoin inherits and does not
\* restrict to its owner as it does burn: an approved account burns u's DSC.
burnFrom(u, n) ==
  /\ CanTransfer(dsc, u, n)
  /\ dsc' = Burn(dsc, u, n)
  /\ totalSupply' = totalSupply - n
  /\ UNCHANGED <<positions, collateral, feeds>>

\* A Chainlink feed reports an answer: a new one, or the old one again when its
\* heartbeat runs out.
updateAnswer(t, answer) ==
  /\ answer # price[t] => moves[t] < MaxMoves
  /\ moves' = [moves EXCEPT ![t] = IF answer # price[t] THEN @ + 1 ELSE @]
  /\ price' = [price EXCEPT ![t] = answer]
  /\ age' = [age EXCEPT ![t] = 0]
  /\ UNCHANGED <<positions, tokens>>

\* Time passes for every feed alike.
Tick ==
  /\ \E t \in Tokens : age[t] <= TIMEOUT
  /\ age' = [t \in Tokens |-> IF age[t] <= TIMEOUT THEN age[t] + 1 ELSE age[t]]
  /\ UNCHANGED <<positions, tokens, price, moves>>

-----------------------------------------------------------------------------

Init ==
  /\ s_collateralDeposited = [u \in Users |-> [t \in Tokens |-> 0]]
  /\ s_DSCMinted = [u \in Users |-> 0]
  /\ collateral = [t \in Tokens |-> [a \in Accounts |-> IF a = Engine THEN 0 ELSE Wallet]]
  /\ dsc = [a \in Accounts |-> 0]
  /\ totalSupply = 0
  /\ price = [t \in Tokens |-> InitialPrice]
  /\ moves = [t \in Tokens |-> 0]
  /\ age = [t \in Tokens |-> 0]

EngineNext ==
  \E u \in Users :
    \/ \E t \in Tokens, n \in CollateralAmounts :
         \/ depositCollateral(u, t, n)
         \/ redeemCollateral(u, t, n)
         \/ \E m \in DSCAmounts : depositCollateralAndMintDSC(u, t, n, m)
         \/ \E m \in DSCAmounts : redeemCollateralForDSC(u, t, n, m)
    \/ \E n \in DSCAmounts :
         \/ mintDSC(u, n)
         \/ burnDSC(u, n)
         \/ \E t \in Tokens, user \in Users : liquidate(u, t, user, n)

TokenNext ==
  \E u \in Users :
    \/ \E to \in Accounts, n \in DSCAmounts : transferDSC(u, to, n)
    \/ \E to \in Accounts, t \in Tokens, n \in CollateralAmounts :
         transferCollateral(u, t, to, n)
    \/ \E n \in DSCAmounts : burnFrom(u, n)

FeedNext ==
  \/ \E t \in Tokens, answer \in Answers : updateAnswer(t, answer)
  \/ Tick

Next == EngineNext \/ TokenNext \/ FeedNext

Spec == Init /\ [][Next]_vars

-----------------------------------------------------------------------------
(* Properties *)

\* Every uint256 is a natural number and the feeds' answers stay in Answers.
TypeOK ==
  /\ s_collateralDeposited \in [Users -> [Tokens -> Nat]]
  /\ s_DSCMinted \in [Users -> Nat]
  /\ collateral \in [Tokens -> [Accounts -> Nat]]
  /\ dsc \in [Accounts -> Nat]
  /\ totalSupply \in Nat
  /\ price \in [Tokens -> Answers]
  /\ moves \in [Tokens -> 0 .. MaxMoves]
  /\ age \in [Tokens -> 0 .. TIMEOUT + 1]

Deposits(t) == SumFunction([u \in Users |-> s_collateralDeposited[u][t]])
TotalDebt == SumFunction(s_DSCMinted)

\* The engine holds, of every collateral token, at least what the positions
\* record as deposited: deposits, redemptions and liquidations move the tokens
\* by exactly the amount they book (_redeemCollateral, depositCollateral).
DepositsAreHeld ==
  \A t \in Tokens : Deposits(t) <= collateral[t][Engine]

\* No DSC circulates without a debt that accounts for it: mintDSC, burnDSC and
\* liquidate change the supply and the debts together, and burnFrom, which
\* lowers the supply alone, can only make the supply the smaller one.
SupplyIsOwed == totalSupply <= TotalDebt

\* The total supply of DSC is the sum of what the accounts hold: the engine
\* burns exactly the DSC it has taken from the payer (_burnDSC).
SupplyIsHeld == totalSupply = SumFunction(dsc)

Healthy(u) ==
  healthFactor(s_DSCMinted[u], s_collateralDeposited[u]) >= MIN_HEALTH_FACTOR

\* A step that raises a user's debt or takes from a user's deposit, whoever
\* sent it, leaves that user's health factor at MIN_HEALTH_FACTOR or above, at
\* the prices of that step (the checks at the end of mintDSC, redeemCollateral,
\* redeemCollateralForDSC and liquidate).
LeavesHealthy ==
  \A u \in Users :
    \/ s_DSCMinted'[u] > s_DSCMinted[u]
    \/ \E t \in Tokens : s_collateralDeposited'[u][t] < s_collateralDeposited[u][t]
    => Healthy(u)'
WithdrawalsLeaveHealthy == [][LeavesHealthy]_vars

\* While one feed is stale or negative, no debt changes and no collateral
\* leaves any position, in whatever token it is: every such transaction values
\* the collateral over all feeds (getAccountCollateralValue).
FrozenIfUnreadable ==
  ~AllReadable =>
    /\ s_DSCMinted' = s_DSCMinted
    /\ \A u \in Users, t \in Tokens :
         s_collateralDeposited'[u][t] >= s_collateralDeposited[u][t]
UnreadableFeedFreezes == [][FrozenIfUnreadable]_vars

\* Collateral leaves a position for another account's wallet only in a
\* liquidation on its terms: the position was broken, it is healthy after, and
\* the value taken is at most 110% of the debt that was cancelled.
SeizedOnTerms ==
  \A u \in Users, t \in Tokens :
    LET seized == s_collateralDeposited[u][t] - s_collateralDeposited'[u][t]
        covered == s_DSCMinted[u] - s_DSCMinted'[u]
    IN  seized > 0 /\ collateral'[t][u] = collateral[t][u] =>
          /\ ~Healthy(u) /\ Healthy(u)'
          /\ covered > 0
          /\ 100 * getUSDValue(t, seized) <= 110 * covered
SeizedOnLiquidationTerms == [][SeizedOnTerms]_vars

\* Whoever holds the DSC can close a broken position whose collateral in one
\* token is worth 110% of its debt: the bonus of liquidate never asks for more
\* than is deposited, and the engine can pay it.
BrokenPositionsCanBeClosed ==
  \A user \in Users, t \in Tokens :
    LET debt == s_DSCMinted[user] IN
    /\ AllReadable /\ price[t] > 0 /\ ~Healthy(user)
    /\ 100 * getUSDValue(t, s_collateralDeposited[user][t]) >= 110 * debt
    => \A u \in Users : dsc[u] >= debt => ENABLED liquidate(u, t, user, debt)

\* While the feeds are readable, a user who holds the DSC for the whole debt
\* can take out a whole deposit, however far the prices have fallen: with
\* redeemCollateralForDSC, or with redeemCollateral when there is no debt.
DepositorsCanLeave ==
  \A u \in Users, t \in Tokens :
    LET debt == s_DSCMinted[u]
        deposit == s_collateralDeposited[u][t]
    IN  AllReadable /\ deposit > 0 /\ dsc[u] >= debt =>
          IF debt = 0 THEN ENABLED redeemCollateral(u, t, deposit)
          ELSE ENABLED redeemCollateralForDSC(u, t, deposit, debt)

-----------------------------------------------------------------------------
(* What the comments of the code say and the code does not do *)

\* burnDSC: the health check after burning would never hit.  It does for the
\* owner of a broken position who repays a part of the debt.
RepaymentNeverRejected ==
  \A u \in Users, n \in DSCAmounts :
    n > 0 /\ n <= s_DSCMinted[u] /\ n <= dsc[u] /\ AllReadable => ENABLED burnDSC(u, n)

\* liquidate: only at 100% collateral or less would a liquidator be left without
\* the reward.  Between 100% and 110% no liquidation of the position goes
\* through at all, for any part of the debt.
LiquidatableAbovePar ==
  \A user \in Users :
    /\ AllReadable /\ ~Healthy(user)
    /\ getAccountCollateralValue(s_collateralDeposited[user]) > s_DSCMinted[user]
    => \A u \in Users : dsc[u] >= s_DSCMinted[user] =>
         \E t \in Tokens, n \in 1 .. s_DSCMinted[user] : ENABLED liquidate(u, t, user, n)
==============================================================================
