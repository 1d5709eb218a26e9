--------------------------- MODULE DSCEngineProofs ---------------------------
(***************************************************************************)
(* The invariants of DSCEngine, for every set of users and tokens and      *)
(* every value of the other constants.  An effect lemma says what each     *)
(* part of a transaction does to the books, then every action is composed  *)
(* of these effects.  The action properties, what no single step may do,   *)
(* follow from the invariant.                                              *)
(***************************************************************************)
EXTENDS DSCEngine, FoldTheorems

\* ERC20 transfer: the balances stay natural numbers, their sum does not
\* change, the payer loses and the payee gains the amount, and nobody else is
\* touched.
LEMMA TransferLedger ==
  ASSUME NEW A, IsFiniteSet(A), NEW ledger \in [A -> Nat],
         NEW from \in A, NEW to \in A, NEW n \in Nat, n <= ledger[from]
  PROVE  /\ Transfer(ledger, from, to, n) \in [A -> Nat]
         /\ SumFunction(Transfer(ledger, from, to, n)) = SumFunction(ledger)
         /\ from # to =>
              /\ Transfer(ledger, from, to, n)[from] = ledger[from] - n
              /\ Transfer(ledger, from, to, n)[to] = ledger[to] + n
         /\ \A x \in A : x \notin {from, to} => Transfer(ledger, from, to, n)[x] = ledger[x]
<1> DEFINE d == [ledger EXCEPT ![from] = ledger[from] - n]
           e == [d EXCEPT ![to] = d[to] + n]
<1>1. Transfer(ledger, from, to, n) = e BY DEF Transfer
<1>2. ledger \in [A -> Int] /\ ledger[from] - n \in Nat OBVIOUS
<1>3. d \in [A -> Nat] /\ d \in [A -> Int] BY <1>2
<1>4. SumFunction(d) = SumFunction(ledger) - ledger[from] + (ledger[from] - n)
  <2>1. ledger[from] - n \in Int BY <1>2
  <2> QED BY <1>2, <2>1, SumUpdate, Zenon
<1>5. SumFunction(e) = SumFunction(d) - d[to] + (d[to] + n)
  <2>1. d[to] + n \in Int BY <1>3
  <2> HIDE DEF d
  <2> QED BY <1>3, <2>1, SumUpdate, Zenon
<1>6. SumFunction(ledger) \in Int /\ SumFunction(d) \in Int BY <1>2, <1>3, SumType, Zenon
<1>7. SumFunction(e) = SumFunction(ledger)
  <2>1. d[to] \in Nat /\ ledger[from] \in Nat BY <1>3
  <2> HIDE DEF d, e
  <2> QED BY <1>4, <1>5, <1>6, <2>1
<1>8. e \in [A -> Nat] BY <1>3
<1>9. /\ from # to => e[from] = ledger[from] - n /\ e[to] = ledger[to] + n
      /\ \A x \in A : x \notin {from, to} => e[x] = ledger[x]
  OBVIOUS
<1> QED BY <1>1, <1>7, <1>8, <1>9

\* ERC20 _mint raises the sum of the balances by the amount.
LEMMA MintLedger ==
  ASSUME NEW A, IsFiniteSet(A), NEW ledger \in [A -> Nat], NEW to \in A, NEW n \in Nat
  PROVE  /\ Mint(ledger, to, n) \in [A -> Nat]
         /\ SumFunction(Mint(ledger, to, n)) = SumFunction(ledger) + n
<1> DEFINE e == [ledger EXCEPT ![to] = ledger[to] + n]
<1>1. Mint(ledger, to, n) = e BY DEF Mint
<1>2. ledger \in [A -> Int] /\ ledger[to] \in Int /\ e \in [A -> Nat] OBVIOUS
<1>3. SumFunction(e) = SumFunction(ledger) - ledger[to] + (ledger[to] + n)
  <2>1. ledger \in [A -> Int] BY <1>2
  <2>2. ledger[to] + n \in Int BY <1>2
  <2> QED BY <2>1, <2>2, SumUpdate, Zenon
<1>4. SumFunction(ledger) \in Int BY <1>2, SumType
<1> HIDE DEF e
<1> QED BY <1>1, <1>2, <1>3, <1>4

\* ERC20 _burn, of at most the balance, lowers the sum of the balances by the
\* amount.
LEMMA BurnLedger ==
  ASSUME NEW A, IsFiniteSet(A), NEW ledger \in [A -> Nat], NEW from \in A, NEW n \in Nat,
         n <= ledger[from]
  PROVE  /\ Burn(ledger, from, n) \in [A -> Nat]
         /\ SumFunction(Burn(ledger, from, n)) = SumFunction(ledger) - n
         /\ SumFunction(ledger) - n \in Nat
<1> DEFINE e == [ledger EXCEPT ![from] = ledger[from] - n]
<1>1. Burn(ledger, from, n) = e BY DEF Burn
<1>2. ledger \in [A -> Int] /\ ledger[from] \in Int /\ e \in [A -> Nat] OBVIOUS
<1>3. SumFunction(e) = SumFunction(ledger) - ledger[from] + (ledger[from] - n)
  <2>1. ledger \in [A -> Int] BY <1>2
  <2>2. ledger[from] - n \in Int BY <1>2
  <2> QED BY <2>1, <2>2, SumUpdate, Zenon
<1>4. SumFunction(ledger) \in Nat /\ ledger[from] <= SumFunction(ledger) BY SumNat
<1> HIDE DEF e
<1> QED BY <1>1, <1>2, <1>3, <1>4

\* What _burnDSC does to the DSC ledger: a transfer to the engine and a burn
\* of the same amount lower the sum of the balances by it.
LEMMA PayAndBurn ==
  ASSUME NEW A, IsFiniteSet(A), NEW ledger \in [A -> Nat],
         NEW from \in A, NEW to \in A, NEW n \in Nat, n <= ledger[from]
  PROVE  /\ Burn(Transfer(ledger, from, to, n), to, n) \in [A -> Nat]
         /\ SumFunction(Burn(Transfer(ledger, from, to, n), to, n)) = SumFunction(ledger) - n
         /\ SumFunction(ledger) - n \in Nat
<1> DEFINE t == Transfer(ledger, from, to, n)
<1>1. t \in [A -> Nat] /\ SumFunction(t) = SumFunction(ledger) BY TransferLedger
<1>2. n <= t[to] BY DEF Transfer
<1> HIDE DEF t
<1>3. /\ Burn(t, to, n) \in [A -> Nat] /\ SumFunction(Burn(t, to, n)) = SumFunction(t) - n
      /\ SumFunction(t) - n \in Nat
  BY <1>1, <1>2, BurnLedger
<1> QED BY <1>1, <1>3 DEF t


\* The users and the engine are finitely many accounts.
LEMMA AccountsFinite == IsFiniteSet(Accounts) /\ Engine \in Accounts /\ Users \subseteq Accounts
BY UsersAssumption, FS_AddElement DEF Accounts

\* The deposits of all users in one token.
Column(deposited, t) == SumFunction([u \in Users |-> deposited[u][t]])

\* The deposits with one entry replaced.
Rebook(deposited, u, t, k) == [deposited EXCEPT ![u][t] = k]

\* Booking a new amount for one user and token changes the deposits of that
\* token by the difference and of no other token.
LEMMA ColumnUpdate ==
  ASSUME NEW d \in [Users -> [Tokens -> Nat]], NEW u \in Users, NEW t \in Tokens, NEW k \in Nat
  PROVE  /\ Rebook(d, u, t, k) \in [Users -> [Tokens -> Nat]]
         /\ Column(Rebook(d, u, t, k), t) = Column(d, t) - d[u][t] + k
         /\ \A r \in Tokens : r # t => Column(Rebook(d, u, t, k), r) = Column(d, r)
<1> DEFINE e == [d EXCEPT ![u][t] = k]
           c == [v \in Users |-> d[v][t]]
<1>1. e \in [Users -> [Tokens -> Nat]] OBVIOUS
<1>2. [v \in Users |-> e[v][t]] = [c EXCEPT ![u] = k] BY Zenon
<1>3. c \in [Users -> Int] /\ k \in Int /\ c[u] = d[u][t] OBVIOUS
<1>4. SumFunction([c EXCEPT ![u] = k]) = SumFunction(c) - c[u] + k
  <2>1. c \in [Users -> Int] BY <1>3
  <2>2. k \in Int BY <1>3
  <2>3. IsFiniteSet(Users) BY UsersAssumption
  <2> HIDE DEF c
  <2> QED BY <2>1, <2>2, <2>3, SumUpdate, Zenon
<1>5. Column(e, t) = Column(d, t) - d[u][t] + k BY <1>2, <1>3, <1>4 DEF Column
<1>6. ASSUME NEW r \in Tokens, r # t PROVE Column(e, r) = Column(d, r)
  <2>1. [v \in Users |-> e[v][r]] = [v \in Users |-> d[v][r]] BY <1>6
  <2> QED BY <2>1 DEF Column
<1> QED BY <1>1, <1>5, <1>6, Zenon DEF Rebook

\* The deposits of all users in one token are a natural number.
LEMMA ColumnNat ==
  ASSUME NEW d \in [Users -> [Tokens -> Nat]], NEW t \in Tokens
  PROVE  Column(d, t) \in Nat
<1>1. [u \in Users |-> d[u][t]] \in [Users -> Nat] OBVIOUS
<1> QED BY <1>1, UsersAssumption, SumNat DEF Column

-----------------------------------------------------------------------------

\* The inductive invariant.  TypeOK alone is not inductive: that the supply stays
\* a natural number when DSC is burnt needs SupplyIsHeld, and SupplyIsOwed needs
\* the types of the debts.
IInv == TypeOK /\ DepositsAreHeld /\ SupplyIsOwed /\ SupplyIsHeld

\* depositCollateral books what it takes in: the deposits stay held.
LEMMA DepositEffect ==
  ASSUME TypeOK, DepositsAreHeld,
         NEW u \in Users, NEW t \in Tokens, NEW n \in Nat,
         CanTransfer(collateral[t], u, n),
         s_collateralDeposited' =
           Rebook(s_collateralDeposited, u, t, s_collateralDeposited[u][t] + n),
         collateral' = [collateral EXCEPT ![t] = Transfer(collateral[t], u, Engine, n)]
  PROVE  /\ s_collateralDeposited' \in [Users -> [Tokens -> Nat]]
         /\ collateral' \in [Tokens -> [Accounts -> Nat]]
         /\ DepositsAreHeld'
<1> DEFINE s == s_collateralDeposited
<1>1. /\ s \in [Users -> [Tokens -> Nat]] /\ collateral[t] \in [Accounts -> Nat]
      /\ s[u][t] \in Nat /\ collateral \in [Tokens -> [Accounts -> Nat]]
      /\ n <= collateral[t][u]
  BY DEF TypeOK, CanTransfer
<1>2. /\ s' \in [Users -> [Tokens -> Nat]]
      /\ Column(s', t) = Column(s, t) - s[u][t] + (s[u][t] + n)
      /\ \A r \in Tokens : r # t => Column(s', r) = Column(s, r)
  <2>1. s \in [Users -> [Tokens -> Nat]] BY <1>1
  <2>2. s[u][t] + n \in Nat BY <1>1
  <2>3. s' = Rebook(s, u, t, s[u][t] + n) BY <1>1 DEF Rebook
  <2> QED BY <2>1, <2>2, <2>3, ColumnUpdate
<1>3. /\ Transfer(collateral[t], u, Engine, n) \in [Accounts -> Nat]
      /\ Transfer(collateral[t], u, Engine, n)[Engine] = collateral[t][Engine] + n
  <2>1. collateral[t] \in [Accounts -> Nat] BY <1>1
  <2>2. u \in Accounts BY AccountsFinite
  <2>3. Engine \in Accounts BY AccountsFinite
  <2>4. u # Engine BY UsersAssumption
  <2>5. IsFiniteSet(Accounts) BY AccountsFinite
  <2>6. n <= collateral[t][u] BY <1>1
  <2> QED BY <2>1, <2>2, <2>3, <2>4, <2>5, <2>6, TransferLedger
<1>4. collateral' \in [Tokens -> [Accounts -> Nat]] BY <1>1, <1>3
<1>5. ASSUME NEW r \in Tokens PROVE Column(s', r) <= collateral'[r][Engine]
  <2>1. Column(s, r) \in Nat /\ Column(s, r) <= collateral[r][Engine]
        /\ collateral[r][Engine] \in Nat
    BY <1>1, ColumnNat, AccountsFinite DEF DepositsAreHeld, Deposits, Column
  <2>2. CASE r = t
    <3>1. collateral'[t][Engine] = collateral[t][Engine] + n BY <1>1, <1>3
    <3> QED BY <1>1, <1>2, <2>1, <2>2, <3>1
  <2>3. CASE r # t
    <3>1. collateral'[r] = collateral[r] BY <1>1, <2>3
    <3> QED BY <1>2, <2>1, <2>3, <3>1
  <2> QED BY <2>2, <2>3
<1>6. DepositsAreHeld' BY <1>5 DEF DepositsAreHeld, Deposits, Column
<1> QED BY <1>2, <1>4, <1>6

\* _redeemCollateral pays out what it takes off the books: the deposits stay
\* held, whether the user or a liquidator is paid.
LEMMA RedeemEffect ==
  ASSUME TypeOK, DepositsAreHeld,
         NEW from \in Users, NEW to \in Users, NEW t \in Tokens, NEW n \in Nat,
         _redeemCollateral(from, to, t, n)
  PROVE  /\ s_collateralDeposited' \in [Users -> [Tokens -> Nat]]
         /\ collateral' \in [Tokens -> [Accounts -> Nat]]
         /\ DepositsAreHeld'
<1> DEFINE s == s_collateralDeposited
<1>1. /\ s \in [Users -> [Tokens -> Nat]] /\ collateral[t] \in [Accounts -> Nat]
      /\ s[from][t] \in Nat /\ collateral \in [Tokens -> [Accounts -> Nat]]
      /\ n <= collateral[t][Engine] /\ s[from][t] - n \in Nat
      /\ s' = [s EXCEPT ![from][t] = s[from][t] - n]
      /\ collateral' = [collateral EXCEPT ![t] = Transfer(collateral[t], Engine, to, n)]
  BY DEF TypeOK, CanTransfer, _redeemCollateral
<1>2. /\ s' \in [Users -> [Tokens -> Nat]]
      /\ Column(s', t) = Column(s, t) - s[from][t] + (s[from][t] - n)
      /\ \A r \in Tokens : r # t => Column(s', r) = Column(s, r)
  <2>1. s \in [Users -> [Tokens -> Nat]] BY <1>1
  <2>2. s[from][t] - n \in Nat BY <1>1
  <2>3. s' = Rebook(s, from, t, s[from][t] - n) BY <1>1 DEF Rebook
  <2> QED BY <2>1, <2>2, <2>3, ColumnUpdate
<1>3. /\ Transfer(collateral[t], Engine, to, n) \in [Accounts -> Nat]
      /\ Transfer(collateral[t], Engine, to, n)[Engine] = collateral[t][Engine] - n
  <2>1. collateral[t] \in [Accounts -> Nat] BY <1>1
  <2>2. Engine \in Accounts BY AccountsFinite
  <2>3. to \in Accounts BY AccountsFinite
  <2>4. Engine # to BY UsersAssumption
  <2>5. IsFiniteSet(Accounts) BY AccountsFinite
  <2>6. n <= collateral[t][Engine] BY <1>1
  <2> QED BY <2>1, <2>2, <2>3, <2>4, <2>5, <2>6, TransferLedger
<1>4. collateral' \in [Tokens -> [Accounts -> Nat]] BY <1>1, <1>3
<1>5. ASSUME NEW r \in Tokens PROVE Column(s', r) <= collateral'[r][Engine]
  <2>1. Column(s, r) \in Nat /\ Column(s, r) <= collateral[r][Engine]
        /\ collateral[r][Engine] \in Nat
    BY <1>1, ColumnNat, AccountsFinite DEF DepositsAreHeld, Deposits, Column
  <2>2. CASE r = t
    <3>1. collateral'[t][Engine] = collateral[t][Engine] - n BY <1>1, <1>3
    <3> QED BY <1>1, <1>2, <2>1, <2>2, <3>1
  <2>3. CASE r # t
    <3>1. collateral'[r] = collateral[r] BY <1>1, <2>3
    <3> QED BY <1>2, <2>1, <2>3, <3>1
  <2> QED BY <2>2, <2>3
<1>6. DepositsAreHeld' BY <1>5 DEF DepositsAreHeld, Deposits, Column
<1> QED BY <1>2, <1>4, <1>6

\* mintDSC raises debt, balance and supply together.
LEMMA MintEffect ==
  ASSUME TypeOK, SupplyIsOwed, SupplyIsHeld,
         NEW u \in Users, NEW n \in Nat,
         s_DSCMinted' = [s_DSCMinted EXCEPT ![u] = s_DSCMinted[u] + n],
         dsc' = Mint(dsc, u, n),
         totalSupply' = totalSupply + n
  PROVE  /\ s_DSCMinted' \in [Users -> Nat]
         /\ dsc' \in [Accounts -> Nat]
         /\ totalSupply' \in Nat
         /\ SupplyIsOwed' /\ SupplyIsHeld'
<1>1. /\ s_DSCMinted \in [Users -> Nat] /\ s_DSCMinted[u] \in Nat
      /\ dsc \in [Accounts -> Nat] /\ totalSupply \in Nat
  BY DEF TypeOK
<1>2. s_DSCMinted' = Mint(s_DSCMinted, u, n) BY DEF Mint
<1>3. /\ s_DSCMinted' \in [Users -> Nat]
      /\ SumFunction(s_DSCMinted') = SumFunction(s_DSCMinted) + n
  <2>1. s_DSCMinted \in [Users -> Nat] BY <1>1
  <2>2. IsFiniteSet(Users) BY UsersAssumption
  <2>3. /\ Mint(s_DSCMinted, u, n) \in [Users -> Nat]
        /\ SumFunction(Mint(s_DSCMinted, u, n)) = SumFunction(s_DSCMinted) + n
    BY <2>1, <2>2, MintLedger
  <2> QED BY <1>2, <2>3, Zenon
<1>4. dsc' \in [Accounts -> Nat] /\ SumFunction(dsc') = SumFunction(dsc) + n
  BY <1>1, MintLedger, AccountsFinite
<1>5. SumFunction(s_DSCMinted) \in Nat BY <1>1, SumNat, UsersAssumption
<1>6. SupplyIsOwed' BY <1>1, <1>3, <1>5 DEF SupplyIsOwed, TotalDebt
<1>7. SupplyIsHeld' BY <1>4 DEF SupplyIsHeld
<1> QED BY <1>1, <1>3, <1>4, <1>6, <1>7

\* _burnDSC lowers debt, balances and supply together, whoever pays.
LEMMA BurnEffect ==
  ASSUME TypeOK, SupplyIsOwed, SupplyIsHeld,
         NEW onBehalfOf \in Users, NEW dscFrom \in Users, NEW n \in Nat,
         _burnDSC(onBehalfOf, dscFrom, n)
  PROVE  /\ s_DSCMinted' \in [Users -> Nat]
         /\ dsc' \in [Accounts -> Nat]
         /\ totalSupply' \in Nat
         /\ SupplyIsOwed' /\ SupplyIsHeld'
<1>1. /\ s_DSCMinted \in [Users -> Nat] /\ n <= s_DSCMinted[onBehalfOf]
      /\ dsc \in [Accounts -> Nat] /\ n <= dsc[dscFrom] /\ totalSupply \in Nat
      /\ totalSupply' = totalSupply - n
      /\ dsc' = Burn(Transfer(dsc, dscFrom, Engine, n), Engine, n)
      /\ s_DSCMinted' = Burn(s_DSCMinted, onBehalfOf, n)
  BY DEF TypeOK, _burnDSC, DSC_burn, CanTransfer, Burn
<1>2. /\ s_DSCMinted' \in [Users -> Nat]
      /\ SumFunction(s_DSCMinted') = SumFunction(s_DSCMinted) - n
  BY <1>1, BurnLedger, UsersAssumption
<1>3. /\ dsc' \in [Accounts -> Nat] /\ SumFunction(dsc') = SumFunction(dsc) - n
      /\ SumFunction(dsc) - n \in Nat
  BY <1>1, PayAndBurn, AccountsFinite
<1>4. SumFunction(s_DSCMinted) \in Nat BY <1>1, SumNat, UsersAssumption
<1>5. SupplyIsOwed' BY <1>1, <1>2, <1>4 DEF SupplyIsOwed, TotalDebt
<1>6. SupplyIsHeld' /\ totalSupply' \in Nat BY <1>1, <1>3, Zenon DEF SupplyIsHeld
<1> QED BY <1>2, <1>3, <1>5, <1>6

\* The collateral liquidate asks for is a natural number at a readable price
\* that is not 0.
LEMMA RedeemedAmount ==
  ASSUME TypeOK, AllReadable, NEW t \in Tokens, price[t] # 0, NEW n \in Nat
  PROVE  totalCollateralToRedeem(t, n) \in Nat
<1>1. price[t] \in Nat \ {0}
  <2>1. price[t] \in Int BY InputsAssumption, Zenon DEF TypeOK
  <2>2. price[t] >= 0 BY DEF AllReadable, Readable
  <2> QED BY <2>1, <2>2
<1>2. \A x \in Nat, y \in Nat \ {0} : x \div y \in Nat OBVIOUS
<1>3. n * PRECISION \in Nat /\ price[t] * ADDITIONAL_FEED_PRECISION \in Nat \ {0}
  BY <1>1, PrecisionAssumption
<1>4. getTokenAmountFromUSD(t, n) \in Nat BY <1>2, <1>3 DEF getTokenAmountFromUSD
<1>5. getTokenAmountFromUSD(t, n) * 10 \in Nat BY <1>4
<1>6. (getTokenAmountFromUSD(t, n) * 10) \div 100 \in Nat BY <1>2, <1>5
<1> QED BY <1>4, <1>6 DEF totalCollateralToRedeem, LIQUIDATION_BONUS, LIQUIDATION_PRECISION

-----------------------------------------------------------------------------

\* The deployed engine satisfies the inductive invariant.
LEMMA InitIInv == Init => IInv
<1> SUFFICES ASSUME Init PROVE IInv OBVIOUS
<1>1. TypeOK
  BY InputsAssumption, PrecisionAssumption, AccountsFinite DEF Init, TypeOK
<1>2. ASSUME NEW t \in Tokens PROVE Deposits(t) <= collateral[t][Engine]
  <2>1. [u \in Users |-> s_collateralDeposited[u][t]] = [u \in Users |-> 0] BY DEF Init
  <2>2. SumFunction([u \in Users |-> 0]) = 0 BY SumZero, UsersAssumption
  <2>3. collateral[t][Engine] = 0 BY AccountsFinite DEF Init
  <2> QED BY <2>1, <2>2, <2>3 DEF Deposits
<1>3. DepositsAreHeld BY <1>2 DEF DepositsAreHeld
<1>4. SupplyIsOwed
  <2>1. SumFunction([u \in Users |-> 0]) = 0 BY SumZero, UsersAssumption
  <2> QED BY <2>1 DEF SupplyIsOwed, TotalDebt, Init
<1>5. SupplyIsHeld
  <2>1. SumFunction([u \in Accounts |-> 0]) = 0 BY SumZero, AccountsFinite
  <2> QED BY <2>1 DEF SupplyIsHeld, Init
<1> QED BY <1>1, <1>3, <1>4, <1>5 DEF IInv

\* The collateral side of the invariant, for actions that leave it alone.
LEMMA CollateralUnchanged ==
  ASSUME IInv, UNCHANGED <<s_collateralDeposited, collateral>>
  PROVE  /\ s_collateralDeposited' \in [Users -> [Tokens -> Nat]]
         /\ collateral' \in [Tokens -> [Accounts -> Nat]]
         /\ DepositsAreHeld'
BY DEF IInv, TypeOK, DepositsAreHeld, Deposits

\* The DSC side of the invariant, for actions that leave it alone.
LEMMA DSCUnchanged ==
  ASSUME IInv, UNCHANGED <<s_DSCMinted, dsc, totalSupply>>
  PROVE  /\ s_DSCMinted' \in [Users -> Nat]
         /\ dsc' \in [Accounts -> Nat]
         /\ totalSupply' \in Nat
         /\ SupplyIsOwed' /\ SupplyIsHeld'
BY DEF IInv, TypeOK, SupplyIsOwed, SupplyIsHeld, TotalDebt

\* The types of the feeds, for actions that leave them alone.
LEMMA FeedsUnchanged ==
  ASSUME IInv, UNCHANGED feeds
  PROVE  /\ price' \in [Tokens -> Answers]
         /\ moves' \in [Tokens -> 0 .. MaxMoves]
         /\ age' \in [Tokens -> 0 .. TIMEOUT + 1]
BY DEF IInv, TypeOK, feeds

\* The invariant in the next state, from its three groups of conjuncts.
LEMMA IInvPrimed ==
  ASSUME s_collateralDeposited' \in [Users -> [Tokens -> Nat]],
         collateral' \in [Tokens -> [Accounts -> Nat]],
         DepositsAreHeld',
         s_DSCMinted' \in [Users -> Nat],
         dsc' \in [Accounts -> Nat],
         totalSupply' \in Nat,
         SupplyIsOwed', SupplyIsHeld',
         price' \in [Tokens -> Answers],
         moves' \in [Tokens -> 0 .. MaxMoves],
         age' \in [Tokens -> 0 .. TIMEOUT + 1]
  PROVE  IInv'
BY DEF IInv, TypeOK

\* Every transaction of the engine preserves the inductive invariant.
LEMMA EngineNextIInv == IInv /\ EngineNext => IInv'
<1> SUFFICES ASSUME IInv, EngineNext PROVE IInv' OBVIOUS
<1> USE IInvPrimed
<1>0. TypeOK /\ DepositsAreHeld /\ SupplyIsOwed /\ SupplyIsHeld BY DEF IInv
<1>1. PICK u \in Users :
        \/ \E t \in Tokens, n \in CollateralAmounts :
             \/ depositCollateral(u, t, n)
             \/ redeemCollateral(u, t, n)
             \/ \E m \in DSCAmounts : depositCollateralAndMintDSC(u, t, n, m)
             \/ \E m \in DSCAmounts : redeemCollateralForDSC(u, t, n, m)
        \/ \E n \in DSCAmounts :
             \/ mintDSC(u, n)
             \/ burnDSC(u, n)
             \/ \E t \in Tokens, user \in Users : liquidate(u, t, user, n)
  BY DEF EngineNext
<1>2. ASSUME NEW t \in Tokens, NEW n \in CollateralAmounts, depositCollateral(u, t, n)
      PROVE  IInv'
  <2>1. n \in Nat BY InputsAssumption
  <2>2. s_collateralDeposited' =
          Rebook(s_collateralDeposited, u, t, s_collateralDeposited[u][t] + n)
    BY <1>0, <1>2 DEF TypeOK, depositCollateral, Rebook
  <2>3. /\ CanTransfer(collateral[t], u, n)
        /\ collateral' = [collateral EXCEPT ![t] = Transfer(collateral[t], u, Engine, n)]
        /\ UNCHANGED <<s_DSCMinted, dsc, totalSupply>> /\ UNCHANGED feeds
    BY <1>2 DEF depositCollateral
  <2> QED BY <1>0, <2>1, <2>2, <2>3, DepositEffect, DSCUnchanged, FeedsUnchanged, Zenon
<1>3. ASSUME NEW t \in Tokens, NEW n \in CollateralAmounts, redeemCollateral(u, t, n)
      PROVE  IInv'
  <2>1. n \in Nat BY InputsAssumption
  <2>2. /\ _redeemCollateral(u, u, t, n)
        /\ UNCHANGED <<s_DSCMinted, dsc, totalSupply>> /\ UNCHANGED feeds
    BY <1>3 DEF redeemCollateral
  <2> QED BY <1>0, <2>1, <2>2, RedeemEffect, DSCUnchanged, FeedsUnchanged
<1>4. ASSUME NEW t \in Tokens, NEW n \in CollateralAmounts, NEW m \in DSCAmounts,
             depositCollateralAndMintDSC(u, t, n, m)
      PROVE  IInv'
  <2>1. n \in Nat /\ m \in Nat BY InputsAssumption
  <2>2. s_collateralDeposited' =
          Rebook(s_collateralDeposited, u, t, s_collateralDeposited[u][t] + n)
    BY <1>0, <1>4 DEF TypeOK, depositCollateralAndMintDSC, Rebook
  <2>3. /\ CanTransfer(collateral[t], u, n)
        /\ collateral' = [collateral EXCEPT ![t] = Transfer(collateral[t], u, Engine, n)]
        /\ s_DSCMinted' = [s_DSCMinted EXCEPT ![u] = s_DSCMinted[u] + m]
        /\ dsc' = Mint(dsc, u, m)
        /\ totalSupply' = totalSupply + m
        /\ UNCHANGED feeds
    BY <1>4 DEF depositCollateralAndMintDSC, DSC_mint
  <2>4. /\ s_collateralDeposited' \in [Users -> [Tokens -> Nat]]
        /\ collateral' \in [Tokens -> [Accounts -> Nat]]
        /\ DepositsAreHeld'
    BY <1>0, <2>1, <2>2, <2>3, DepositEffect, Zenon
  <2>5. /\ s_DSCMinted' \in [Users -> Nat]
        /\ dsc' \in [Accounts -> Nat]
        /\ totalSupply' \in Nat
        /\ SupplyIsOwed' /\ SupplyIsHeld'
    BY <1>0, <2>1, <2>3, MintEffect, Zenon
  <2> QED BY <2>3, <2>4, <2>5, FeedsUnchanged
<1>5. ASSUME NEW t \in Tokens, NEW n \in CollateralAmounts, NEW m \in DSCAmounts,
             redeemCollateralForDSC(u, t, n, m)
      PROVE  IInv'
  <2>1. n \in Nat /\ m \in Nat BY InputsAssumption
  <2>2. _redeemCollateral(u, u, t, n) /\ _burnDSC(u, u, m) /\ UNCHANGED feeds
    BY <1>5 DEF redeemCollateralForDSC
  <2> QED BY <1>0, <2>1, <2>2, RedeemEffect, BurnEffect, FeedsUnchanged
<1>6. ASSUME NEW n \in DSCAmounts, mintDSC(u, n) PROVE IInv'
  <2>1. n \in Nat BY InputsAssumption
  <2>2. /\ s_DSCMinted' = [s_DSCMinted EXCEPT ![u] = s_DSCMinted[u] + n]
        /\ dsc' = Mint(dsc, u, n)
        /\ totalSupply' = totalSupply + n
        /\ UNCHANGED <<s_collateralDeposited, collateral>> /\ UNCHANGED feeds
    BY <1>6 DEF mintDSC, DSC_mint
  <2>3. /\ s_DSCMinted' \in [Users -> Nat]
        /\ dsc' \in [Accounts -> Nat]
        /\ totalSupply' \in Nat
        /\ SupplyIsOwed' /\ SupplyIsHeld'
    BY <1>0, <2>1, <2>2, MintEffect, Zenon
  <2> QED BY <2>2, <2>3, CollateralUnchanged, FeedsUnchanged
<1>7. ASSUME NEW n \in DSCAmounts, burnDSC(u, n) PROVE IInv'
  <2>1. n \in Nat BY InputsAssumption
  <2>2. /\ _burnDSC(u, u, n)
        /\ UNCHANGED <<s_collateralDeposited, collateral>> /\ UNCHANGED feeds
    BY <1>7 DEF burnDSC
  <2> QED BY <1>0, <2>1, <2>2, BurnEffect, CollateralUnchanged, FeedsUnchanged
<1>8. ASSUME NEW n \in DSCAmounts, NEW t \in Tokens, NEW user \in Users,
             liquidate(u, t, user, n)
      PROVE  IInv'
  <2>1. n \in Nat BY InputsAssumption
  <2>2. /\ AllReadable /\ price[t] # 0
        /\ _redeemCollateral(user, u, t, totalCollateralToRedeem(t, n))
        /\ _burnDSC(user, u, n) /\ UNCHANGED feeds
    BY <1>8 DEF liquidate
  <2>3. totalCollateralToRedeem(t, n) \in Nat BY <1>0, <2>1, <2>2, RedeemedAmount
  <2> QED BY <1>0, <2>1, <2>2, <2>3, RedeemEffect, BurnEffect, FeedsUnchanged
<1> QED BY <1>1, <1>2, <1>3, <1>4, <1>5, <1>6, <1>7, <1>8

\* Transfers outside the engine and burnFrom preserve the inductive
\* invariant.
LEMMA TokenNextIInv == IInv /\ TokenNext => IInv'
<1> SUFFICES ASSUME IInv, TokenNext PROVE IInv' OBVIOUS
<1> USE IInvPrimed
<1>0. /\ TypeOK /\ DepositsAreHeld /\ SupplyIsOwed /\ SupplyIsHeld
      /\ dsc \in [Accounts -> Nat] /\ collateral \in [Tokens -> [Accounts -> Nat]]
      /\ s_DSCMinted \in [Users -> Nat] /\ totalSupply \in Nat
  BY DEF IInv, TypeOK
<1>1. PICK u \in Users :
        \/ \E to \in Accounts, n \in DSCAmounts : transferDSC(u, to, n)
        \/ \E to \in Accounts, t \in Tokens, n \in CollateralAmounts :
             transferCollateral(u, t, to, n)
        \/ \E n \in DSCAmounts : burnFrom(u, n)
  BY DEF TokenNext
<1>2. u \in Accounts /\ Engine \in Accounts /\ IsFiniteSet(Accounts) BY AccountsFinite
<1>3. ASSUME NEW to \in Accounts, NEW n \in DSCAmounts, transferDSC(u, to, n) PROVE IInv'
  <2>1. n \in Nat BY InputsAssumption
  <2>2. /\ n <= dsc[u] /\ dsc' = Transfer(dsc, u, to, n) /\ totalSupply' = totalSupply
        /\ s_DSCMinted' = s_DSCMinted
        /\ UNCHANGED <<s_collateralDeposited, collateral>> /\ UNCHANGED feeds
    BY <1>3 DEF transferDSC, CanTransfer, positions
  <2>3. dsc' \in [Accounts -> Nat] /\ SumFunction(dsc') = SumFunction(dsc)
    BY <1>0, <1>2, <2>1, <2>2, TransferLedger
  <2>4. SupplyIsOwed' /\ SupplyIsHeld'
    BY <1>0, <2>2, <2>3 DEF SupplyIsOwed, SupplyIsHeld, TotalDebt
  <2> QED BY <1>0, <2>2, <2>3, <2>4, CollateralUnchanged, FeedsUnchanged
<1>4. ASSUME NEW to \in Accounts, NEW t \in Tokens, NEW n \in CollateralAmounts,
             transferCollateral(u, t, to, n)
      PROVE  IInv'
  <2>1. n \in Nat BY InputsAssumption
  <2>2. /\ n <= collateral[t][u]
        /\ collateral' = [collateral EXCEPT ![t] = Transfer(collateral[t], u, to, n)]
        /\ s_collateralDeposited' = s_collateralDeposited
        /\ UNCHANGED <<s_DSCMinted, dsc, totalSupply>> /\ UNCHANGED feeds
    BY <1>4 DEF transferCollateral, CanTransfer, positions
  <2>3. /\ Transfer(collateral[t], u, to, n) \in [Accounts -> Nat]
        /\ Transfer(collateral[t], u, to, n)[Engine] >= collateral[t][Engine]
    <3>1. collateral[t] \in [Accounts -> Nat] BY <1>0
    <3>2. Engine # u BY UsersAssumption
    <3>3. /\ Transfer(collateral[t], u, to, n) \in [Accounts -> Nat]
          /\ u # to => Transfer(collateral[t], u, to, n)[to] = collateral[t][to] + n
          /\ \A x \in Accounts : x \notin {u, to} =>
               Transfer(collateral[t], u, to, n)[x] = collateral[t][x]
      BY <1>2, <2>1, <2>2, <3>1, TransferLedger
    <3>4. collateral[t][Engine] \in Nat BY <1>2, <3>1
    <3>5. CASE to = Engine BY <2>1, <3>2, <3>3, <3>4, <3>5
    <3>6. CASE to # Engine BY <1>2, <3>2, <3>3, <3>4, <3>6
    <3> QED BY <3>3, <3>5, <3>6
  <2>4. collateral' \in [Tokens -> [Accounts -> Nat]] BY <1>0, <2>2, <2>3
  <2>5. ASSUME NEW r \in Tokens PROVE Deposits(r)' <= collateral'[r][Engine]
    <3>1. Deposits(r)' = Deposits(r) BY <2>2 DEF Deposits
    <3>2. Deposits(r) <= collateral[r][Engine] BY <1>0 DEF DepositsAreHeld
    <3>3. collateral'[r][Engine] >= collateral[r][Engine]
      <4>1. CASE r = t BY <1>0, <2>2, <2>3, <4>1
      <4>2. CASE r # t BY <1>0, <1>2, <2>2, <4>2
      <4> QED BY <4>1, <4>2
    <3>4. collateral'[r][Engine] \in Nat /\ collateral[r][Engine] \in Nat
      BY <1>0, <1>2, <2>4
    <3>5. Deposits(r) \in Nat BY <1>0, ColumnNat, Zenon DEF TypeOK, Deposits, Column
    <3> QED BY <3>1, <3>2, <3>3, <3>4, <3>5
  <2>6. DepositsAreHeld' BY <2>5 DEF DepositsAreHeld
  <2>7. s_collateralDeposited' \in [Users -> [Tokens -> Nat]] BY <1>0, <2>2 DEF TypeOK
  <2> QED BY <2>2, <2>4, <2>6, <2>7, DSCUnchanged, FeedsUnchanged
<1>5. ASSUME NEW n \in DSCAmounts, burnFrom(u, n) PROVE IInv'
  <2>1. n \in Nat BY InputsAssumption
  <2>2. /\ n <= dsc[u] /\ dsc' = Burn(dsc, u, n) /\ totalSupply' = totalSupply - n
        /\ s_DSCMinted' = s_DSCMinted
        /\ UNCHANGED <<s_collateralDeposited, collateral>> /\ UNCHANGED feeds
    BY <1>5 DEF burnFrom, CanTransfer, positions
  <2>3. /\ dsc' \in [Accounts -> Nat] /\ SumFunction(dsc') = SumFunction(dsc) - n
        /\ SumFunction(dsc) - n \in Nat
    BY <1>0, <1>2, <2>1, <2>2, BurnLedger
  <2>4. SupplyIsHeld' /\ totalSupply' \in Nat BY <1>0, <2>2, <2>3 DEF SupplyIsHeld
  <2>5. SumFunction(s_DSCMinted) \in Nat BY <1>0, SumNat, UsersAssumption
  <2>6. SupplyIsOwed'
    BY <1>0, <2>1, <2>2, <2>4, <2>5 DEF SupplyIsOwed, TotalDebt
  <2> QED BY <1>0, <2>2, <2>3, <2>4, <2>6, CollateralUnchanged, FeedsUnchanged
<1> QED BY <1>1, <1>3, <1>4, <1>5

\* New answers and the passing of time preserve the inductive invariant.
LEMMA FeedNextIInv == IInv /\ FeedNext => IInv'
<1> SUFFICES ASSUME IInv, FeedNext PROVE IInv' OBVIOUS
<1> USE IInvPrimed
<1>0. /\ price \in [Tokens -> Answers]
      /\ moves \in [Tokens -> 0 .. MaxMoves]
      /\ age \in [Tokens -> 0 .. TIMEOUT + 1]
  BY DEF IInv, TypeOK
<1>1. ASSUME NEW t \in Tokens, NEW answer \in Answers, updateAnswer(t, answer) PROVE IInv'
  <2>1. /\ UNCHANGED <<s_collateralDeposited, collateral>>
        /\ UNCHANGED <<s_DSCMinted, dsc, totalSupply>>
    BY <1>1 DEF updateAnswer, positions, tokens
  <2>2. price' \in [Tokens -> Answers] BY <1>0, <1>1 DEF updateAnswer
  <2>3. moves' \in [Tokens -> 0 .. MaxMoves]
    BY <1>0, <1>1, InputsAssumption DEF updateAnswer
  <2>4. age' \in [Tokens -> 0 .. TIMEOUT + 1]
    BY <1>0, <1>1, PrecisionAssumption DEF updateAnswer
  <2> QED BY <2>1, <2>2, <2>3, <2>4, CollateralUnchanged, DSCUnchanged
<1>2. CASE Tick
  <2>1. /\ UNCHANGED <<s_collateralDeposited, collateral>>
        /\ UNCHANGED <<s_DSCMinted, dsc, totalSupply>>
        /\ UNCHANGED <<price, moves>>
    BY <1>2 DEF Tick, positions, tokens
  <2>2. age' \in [Tokens -> 0 .. TIMEOUT + 1]
    BY <1>0, <1>2, PrecisionAssumption DEF Tick
  <2> QED BY <1>0, <2>1, <2>2, CollateralUnchanged, DSCUnchanged
<1> QED BY <1>1, <1>2 DEF FeedNext

\* The inductive invariant holds in every reachable state.
LEMMA IInvAlways == Spec => []IInv
<1>1. IInv /\ UNCHANGED vars => IInv'
  <2> SUFFICES ASSUME IInv, UNCHANGED vars PROVE IInv' OBVIOUS
  <2>1. /\ UNCHANGED <<s_collateralDeposited, collateral>>
        /\ UNCHANGED <<s_DSCMinted, dsc, totalSupply>>
        /\ UNCHANGED feeds
    BY DEF vars, feeds
  <2> QED BY <2>1, CollateralUnchanged, DSCUnchanged, FeedsUnchanged, IInvPrimed
<1>2. IInv /\ [Next]_vars => IInv'
  BY <1>1, EngineNextIInv, TokenNextIInv, FeedNextIInv DEF Next
<1> QED BY InitIInv, <1>2, PTL DEF Spec

\* Every balance, deposit, debt and the supply of the engine stays a natural
\* number: no checked subtraction of _redeemCollateral or _burnDSC is ever
\* passed with too large an amount.
THEOREM TypeCorrect == Spec => []TypeOK
<1>1. IInv => TypeOK BY DEF IInv
<1> QED BY <1>1, IInvAlways, PTL

\* The engine always holds, of every token, the deposits it has booked
\* (depositCollateral, _redeemCollateral), for any number of users and tokens
\* and any prices.
THEOREM DepositsHeld == Spec => []DepositsAreHeld
<1>1. IInv => DepositsAreHeld BY DEF IInv
<1> QED BY <1>1, IInvAlways, PTL

\* The supply of DSC never exceeds the debts booked in s_DSCMinted (mintDSC,
\* _burnDSC, and burnFrom of the token).
THEOREM SupplyOwed == Spec => []SupplyIsOwed
<1>1. IInv => SupplyIsOwed BY DEF IInv
<1> QED BY <1>1, IInvAlways, PTL

\* The supply of DSC is always the sum of the balances (_burnDSC burns
\* exactly what it took from the payer).
THEOREM SupplyHeld == Spec => []SupplyIsHeld
<1>1. IInv => SupplyIsHeld BY DEF IInv
<1> QED BY <1>1, IInvAlways, PTL

-----------------------------------------------------------------------------
(* The action properties *)

\* Steps that leave all positions alone satisfy both step properties.
LEMMA PositionsUnchanged ==
  ASSUME IInv, UNCHANGED positions
  PROVE  LeavesHealthy /\ FrozenIfUnreadable
<1>1. /\ \A u \in Users : s_DSCMinted'[u] = s_DSCMinted[u] /\ s_DSCMinted[u] \in Nat
      /\ \A u \in Users, t \in Tokens :
           /\ s_collateralDeposited'[u][t] = s_collateralDeposited[u][t]
           /\ s_collateralDeposited[u][t] \in Nat
      /\ s_DSCMinted' = s_DSCMinted
  BY DEF positions, IInv, TypeOK
<1>2. LeavesHealthy BY <1>1 DEF LeavesHealthy
<1>3. FrozenIfUnreadable BY <1>1 DEF FrozenIfUnreadable
<1> QED BY <1>2, <1>3

\* A health check on the values a transaction leaves behind is a statement
\* about the state after it, since the transaction does not touch the feeds.
LEMMA HealthyAfter ==
  ASSUME UNCHANGED feeds, NEW u \in Users,
         healthFactor(s_DSCMinted'[u], s_collateralDeposited'[u]) >= MIN_HEALTH_FACTOR
  PROVE  Healthy(u)'
<1>1. price' = price BY DEF feeds
<1> QED BY <1>1 DEF Healthy, healthFactor, calculateHealthFactor,
                    getAccountCollateralValue, getUSDValue

\* A transaction that changes only u's position and ends with u's health
\* check (_revertIfHealthFactorIsBroken) satisfies both step properties.
LEMMA CheckedPosition ==
  ASSUME IInv, UNCHANGED feeds, AllReadable, NEW u \in Users,
         \A v \in Users : v # u =>
           /\ s_DSCMinted'[v] = s_DSCMinted[v]
           /\ s_collateralDeposited'[v] = s_collateralDeposited[v],
         healthFactor(s_DSCMinted'[u], s_collateralDeposited'[u]) >= MIN_HEALTH_FACTOR
  PROVE  LeavesHealthy /\ FrozenIfUnreadable
<1>1. FrozenIfUnreadable BY DEF FrozenIfUnreadable
<1>2. Healthy(u)' BY HealthyAfter
<1>3. ASSUME NEW v \in Users, v # u
      PROVE  ~ \/ s_DSCMinted'[v] > s_DSCMinted[v]
               \/ \E t \in Tokens :
                    s_collateralDeposited'[v][t] < s_collateralDeposited[v][t]
  BY <1>3 DEF IInv, TypeOK
<1>4. LeavesHealthy BY <1>2, <1>3 DEF LeavesHealthy
<1> QED BY <1>1, <1>4

\* Every transaction of the engine but depositCollateral ends with the health
\* check of the one user whose position it changed; depositCollateral only
\* adds.
LEMMA EngineStep == IInv /\ EngineNext => LeavesHealthy /\ FrozenIfUnreadable
<1> SUFFICES ASSUME IInv, EngineNext PROVE LeavesHealthy /\ FrozenIfUnreadable OBVIOUS
<1>0. /\ s_DSCMinted \in [Users -> Nat]
      /\ s_collateralDeposited \in [Users -> [Tokens -> Nat]]
  BY DEF IInv, TypeOK
<1>1. PICK u \in Users :
        \/ \E t \in Tokens, n \in CollateralAmounts :
             \/ depositCollateral(u, t, n)
             \/ redeemCollateral(u, t, n)
             \/ \E m \in DSCAmounts : depositCollateralAndMintDSC(u, t, n, m)
             \/ \E m \in DSCAmounts : redeemCollateralForDSC(u, t, n, m)
        \/ \E n \in DSCAmounts :
             \/ mintDSC(u, n)
             \/ burnDSC(u, n)
             \/ \E t \in Tokens, user \in Users : liquidate(u, t, user, n)
  BY DEF EngineNext
<1>2. ASSUME NEW t \in Tokens, NEW n \in CollateralAmounts, depositCollateral(u, t, n)
      PROVE  LeavesHealthy /\ FrozenIfUnreadable
  <2>1. n \in Nat BY InputsAssumption
  <2>2. s_DSCMinted' = s_DSCMinted BY <1>2 DEF depositCollateral
  <2>3. \A v \in Users, r \in Tokens :
          ~(s_collateralDeposited'[v][r] < s_collateralDeposited[v][r])
    BY <1>0, <1>2, <2>1 DEF depositCollateral
  <2>4. \A v \in Users, r \in Tokens :
          s_collateralDeposited'[v][r] >= s_collateralDeposited[v][r]
    BY <1>0, <1>2, <2>1 DEF depositCollateral
  <2>5. \A v \in Users : ~(s_DSCMinted'[v] > s_DSCMinted[v]) BY <1>0, <2>2
  <2>6. LeavesHealthy BY <2>3, <2>5 DEF LeavesHealthy
  <2>7. FrozenIfUnreadable BY <2>2, <2>4 DEF FrozenIfUnreadable
  <2> QED BY <2>6, <2>7
<1>3. ASSUME NEW t \in Tokens, NEW n \in CollateralAmounts,
             redeemCollateral(u, t, n)
      PROVE  LeavesHealthy /\ FrozenIfUnreadable
  <2>1. UNCHANGED feeds /\ AllReadable
    BY <1>3 DEF redeemCollateral, _redeemCollateral, HealthFactorHolds
  <2>2. \A v \in Users : v # u =>
          /\ s_DSCMinted'[v] = s_DSCMinted[v]
          /\ s_collateralDeposited'[v] = s_collateralDeposited[v]
    BY <1>0, <1>3 DEF redeemCollateral, _redeemCollateral, HealthFactorHolds
  <2>3. healthFactor(s_DSCMinted'[u], s_collateralDeposited'[u]) >= MIN_HEALTH_FACTOR
    BY <1>0, <1>3 DEF redeemCollateral, _redeemCollateral, HealthFactorHolds
  <2> QED BY <2>1, <2>2, <2>3, CheckedPosition
<1>4. ASSUME NEW t \in Tokens, NEW n \in CollateralAmounts, NEW m \in DSCAmounts,
             depositCollateralAndMintDSC(u, t, n, m)
      PROVE  LeavesHealthy /\ FrozenIfUnreadable
  <2>1. UNCHANGED feeds /\ AllReadable
    BY <1>4 DEF depositCollateralAndMintDSC, HealthFactorHolds
  <2>2. \A v \in Users : v # u =>
          /\ s_DSCMinted'[v] = s_DSCMinted[v]
          /\ s_collateralDeposited'[v] = s_collateralDeposited[v]
    BY <1>0, <1>4 DEF depositCollateralAndMintDSC, HealthFactorHolds
  <2>3. healthFactor(s_DSCMinted'[u], s_collateralDeposited'[u]) >= MIN_HEALTH_FACTOR
    BY <1>0, <1>4 DEF depositCollateralAndMintDSC, HealthFactorHolds
  <2> QED BY <2>1, <2>2, <2>3, CheckedPosition
<1>5. ASSUME NEW t \in Tokens, NEW n \in CollateralAmounts, NEW m \in DSCAmounts,
             redeemCollateralForDSC(u, t, n, m)
      PROVE  LeavesHealthy /\ FrozenIfUnreadable
  <2>1. UNCHANGED feeds /\ AllReadable
    BY <1>5 DEF redeemCollateralForDSC, _redeemCollateral, _burnDSC,
               HealthFactorHolds
  <2>2. \A v \in Users : v # u =>
          /\ s_DSCMinted'[v] = s_DSCMinted[v]
          /\ s_collateralDeposited'[v] = s_collateralDeposited[v]
    BY <1>0, <1>5 DEF redeemCollateralForDSC, _redeemCollateral, _burnDSC,
               HealthFactorHolds
  <2>3. healthFactor(s_DSCMinted'[u], s_collateralDeposited'[u]) >= MIN_HEALTH_FACTOR
    BY <1>0, <1>5 DEF redeemCollateralForDSC, _redeemCollateral, _burnDSC,
               HealthFactorHolds
  <2> QED BY <2>1, <2>2, <2>3, CheckedPosition
<1>6. ASSUME NEW n \in DSCAmounts,
             mintDSC(u, n)
      PROVE  LeavesHealthy /\ FrozenIfUnreadable
  <2>1. UNCHANGED feeds /\ AllReadable
    BY <1>6 DEF mintDSC, HealthFactorHolds
  <2>2. \A v \in Users : v # u =>
          /\ s_DSCMinted'[v] = s_DSCMinted[v]
          /\ s_collateralDeposited'[v] = s_collateralDeposited[v]
    BY <1>0, <1>6 DEF mintDSC, HealthFactorHolds
  <2>3. healthFactor(s_DSCMinted'[u], s_collateralDeposited'[u]) >= MIN_HEALTH_FACTOR
    BY <1>0, <1>6 DEF mintDSC, HealthFactorHolds
  <2> QED BY <2>1, <2>2, <2>3, CheckedPosition
<1>7. ASSUME NEW n \in DSCAmounts,
             burnDSC(u, n)
      PROVE  LeavesHealthy /\ FrozenIfUnreadable
  <2>1. UNCHANGED feeds /\ AllReadable
    BY <1>7 DEF burnDSC, _burnDSC, HealthFactorHolds
  <2>2. \A v \in Users : v # u =>
          /\ s_DSCMinted'[v] = s_DSCMinted[v]
          /\ s_collateralDeposited'[v] = s_collateralDeposited[v]
    BY <1>0, <1>7 DEF burnDSC, _burnDSC, HealthFactorHolds
  <2>3. healthFactor(s_DSCMinted'[u], s_collateralDeposited'[u]) >= MIN_HEALTH_FACTOR
    BY <1>0, <1>7 DEF burnDSC, _burnDSC, HealthFactorHolds
  <2> QED BY <2>1, <2>2, <2>3, CheckedPosition
<1>8. ASSUME NEW n \in DSCAmounts, NEW t \in Tokens, NEW user \in Users,
             liquidate(u, t, user, n)
      PROVE  LeavesHealthy /\ FrozenIfUnreadable
  <2>1. UNCHANGED feeds /\ AllReadable
    BY <1>8 DEF liquidate, _redeemCollateral, _burnDSC, HealthFactorHolds
  <2>2. \A v \in Users : v # user =>
          /\ s_DSCMinted'[v] = s_DSCMinted[v]
          /\ s_collateralDeposited'[v] = s_collateralDeposited[v]
    BY <1>0, <1>8 DEF liquidate, _redeemCollateral, _burnDSC, HealthFactorHolds
  <2>3. healthFactor(s_DSCMinted'[user], s_collateralDeposited'[user]) >= MIN_HEALTH_FACTOR
    BY <1>0, <1>8 DEF liquidate, _redeemCollateral, _burnDSC, HealthFactorHolds
  <2> QED BY <2>1, <2>2, <2>3, CheckedPosition
<1> QED BY <1>1, <1>2, <1>3, <1>4, <1>5, <1>6, <1>7, <1>8

\* Nothing outside the engine changes a position.
LEMMA OtherStep ==
  IInv /\ (TokenNext \/ FeedNext \/ UNCHANGED vars) => LeavesHealthy /\ FrozenIfUnreadable
<1> SUFFICES ASSUME IInv, TokenNext \/ FeedNext \/ UNCHANGED vars
             PROVE  UNCHANGED positions
  BY PositionsUnchanged
<1>1. CASE TokenNext
  BY <1>1 DEF TokenNext, transferDSC, transferCollateral, burnFrom
<1>2. CASE FeedNext BY <1>2 DEF FeedNext, updateAnswer, Tick
<1>3. CASE UNCHANGED vars BY <1>3 DEF vars, positions
<1> QED BY <1>1, <1>2, <1>3

\* No transaction raises a user's debt or lowers a user's deposit and leaves
\* that user below MIN_HEALTH_FACTOR (_revertIfHealthFactorIsBroken at the
\* end of mintDSC, redeemCollateral, redeemCollateralForDSC and liquidate),
\* for any prices, amounts and precisions.
THEOREM WithdrawalSafety == Spec => WithdrawalsLeaveHealthy
<1>1. IInv /\ [Next]_vars => [LeavesHealthy]_vars
  BY EngineStep, OtherStep DEF Next
<1> QED BY <1>1, IInvAlways, PTL DEF Spec, WithdrawalsLeaveHealthy

\* A stale or negative answer of any feed stops every change of debt and
\* every withdrawal, in all tokens (staleCheckLatestRoundData).
THEOREM OracleFreeze == Spec => UnreadableFeedFreezes
<1>1. IInv /\ [Next]_vars => [FrozenIfUnreadable]_vars
  BY EngineStep, OtherStep DEF Next
<1> QED BY <1>1, IInvAlways, PTL DEF Spec, UnreadableFeedFreezes

-----------------------------------------------------------------------------

\* Division rounds down.
LEMMA DivFloor ==
  ASSUME NEW x \in Nat, NEW y \in Nat \ {0}
  PROVE  x \div y \in Nat /\ y * (x \div y) <= x
OBVIOUS

\* Multiplication by a natural number is monotone.
LEMMA MonotoneProduct ==
  ASSUME NEW x \in Nat, NEW y \in Nat, NEW z \in Nat, x <= y
  PROVE  z * x <= z * y
OBVIOUS

\* A positive factor of an inequality can be cancelled.
LEMMA CancelFactor ==
  ASSUME NEW x \in Nat, NEW y \in Nat, NEW z \in Nat \ {0}, z * x <= z * y
  PROVE  x <= y
OBVIOUS

\* The collateral of a liquidation: q tokens for the debt n at the price a,
\* the bonus b, and the value v of both, each rounded down.
LEMMA BonusArithmetic ==
  ASSUME NEW a \in Nat, NEW P \in Nat \ {0}, NEW n \in Nat,
         NEW q \in Nat, NEW b \in Nat, NEW v \in Nat,
         a * q <= n * P, 100 * b <= 10 * q, P * v <= a * (q + b)
  PROVE  100 * v <= 110 * n
<1>1. 100 * (q + b) <= 110 * q OBVIOUS
<1>2. a * (100 * (q + b)) <= a * (110 * q)
  BY <1>1, MonotoneProduct
<1>3. a * q \in Nat /\ a * (q + b) \in Nat /\ P * v \in Nat /\ n * P \in Nat OBVIOUS
<1>4. a * (100 * (q + b)) = 100 * (a * (q + b)) /\ a * (110 * q) = 110 * (a * q)
  OBVIOUS
<1>5. 100 * (P * v) <= 110 * (n * P) BY <1>2, <1>3, <1>4
<1>6. 100 * (P * v) = P * (100 * v) /\ 110 * (n * P) = P * (110 * n) OBVIOUS
<1>7. P * (100 * v) <= P * (110 * n) BY <1>5, <1>6
<1>8. 100 * v \in Nat /\ 110 * n \in Nat OBVIOUS
<1> QED BY <1>7, <1>8, CancelFactor

\* At any price, what liquidate takes for a debt of n is worth at most 110%
\* of n: the roundings of getTokenAmountFromUSD, of the bonus and of
\* getUSDValue all go against the liquidator.
LEMMA BonusBound ==
  ASSUME TypeOK, AllReadable, NEW t \in Tokens, price[t] # 0, NEW n \in Nat
  PROVE  100 * getUSDValue(t, totalCollateralToRedeem(t, n)) <= 110 * n
<1> DEFINE a == price[t] * ADDITIONAL_FEED_PRECISION
           q == (n * PRECISION) \div a
           b == (q * 10) \div 100
           v == (a * (q + b)) \div PRECISION
<1>1. price[t] \in Nat \ {0}
  <2>1. price[t] \in Int BY InputsAssumption, Zenon DEF TypeOK
  <2>2. price[t] >= 0 BY DEF AllReadable, Readable
  <2> QED BY <2>1, <2>2
<1>2. a \in Nat \ {0} /\ n * PRECISION \in Nat BY <1>1, PrecisionAssumption
<1>3. getUSDValue(t, totalCollateralToRedeem(t, n)) = v
  BY DEF getUSDValue, totalCollateralToRedeem, getTokenAmountFromUSD,
         LIQUIDATION_BONUS, LIQUIDATION_PRECISION
<1> HIDE DEF a
<1>4. q \in Nat /\ a * q <= n * PRECISION BY <1>2, DivFloor
<1> HIDE DEF q
<1>5. q * 10 \in Nat /\ 100 \in Nat \ {0} BY <1>4
<1>6. b \in Nat /\ 100 * b <= q * 10 BY <1>5, DivFloor
<1> HIDE DEF b
<1>7. a * (q + b) \in Nat BY <1>2, <1>4, <1>6
<1>8. v \in Nat /\ PRECISION * v <= a * (q + b) BY <1>7, PrecisionAssumption, DivFloor
<1> HIDE DEF v
<1>9. 100 * b <= 10 * q /\ a \in Nat BY <1>2, <1>4, <1>6
<1>10. 100 * v <= 110 * n
  BY <1>4, <1>6, <1>8, <1>9, PrecisionAssumption, BonusArithmetic
<1> QED BY <1>3, <1>10

\* The health factor of a position is an integer.
LEMMA HealthFactorInt ==
  ASSUME TypeOK, NEW u \in Users
  PROVE  healthFactor(s_DSCMinted[u], s_collateralDeposited[u]) \in Int
<1> DEFINE w == [t \in Tokens |-> getUSDValue(t, s_collateralDeposited[u][t])]
<1>1. \A x \in Int, y \in Nat \ {0} : x \div y \in Int OBVIOUS
<1>2. ASSUME NEW t \in Tokens PROVE getUSDValue(t, s_collateralDeposited[u][t]) \in Int
  <2>0. price[t] \in Int BY InputsAssumption, Zenon DEF TypeOK
  <2>1. s_collateralDeposited[u][t] \in Nat BY DEF TypeOK
  <2>2. price[t] * ADDITIONAL_FEED_PRECISION * s_collateralDeposited[u][t] \in Int
    BY <2>0, <2>1, PrecisionAssumption
  <2> QED BY <1>1, <2>2, PrecisionAssumption DEF getUSDValue
<1>3. w \in [Tokens -> Int] BY <1>2
<1>4. SumFunction(w) \in Int
  <2> HIDE DEF w
  <2> QED BY <1>3, TokensAssumption, SumType
<1>5. getAccountCollateralValue(s_collateralDeposited[u]) = SumFunction(w)
  BY DEF getAccountCollateralValue
<1> HIDE DEF w
<1>6. s_DSCMinted[u] \in Nat BY DEF TypeOK
<1>7. CASE s_DSCMinted[u] = 0
  BY <1>7, PrecisionAssumption DEF healthFactor, calculateHealthFactor
<1>8. CASE s_DSCMinted[u] # 0
  <2> DEFINE x == (SumFunction(w) * 50) \div 100
  <2>1. SumFunction(w) * 50 \in Int /\ 100 \in Nat \ {0} BY <1>4
  <2>2. x \in Int BY <1>1, <2>1
  <2>3. healthFactor(s_DSCMinted[u], s_collateralDeposited[u])
          = (x * PRECISION) \div s_DSCMinted[u]
    BY <1>5, <1>8 DEF healthFactor, calculateHealthFactor, LIQUIDATION_THRESHOLD,
                      LIQUIDATION_PRECISION
  <2> HIDE DEF x
  <2>4. x * PRECISION \in Int /\ s_DSCMinted[u] \in Nat \ {0}
    BY <2>2, <1>6, <1>8, PrecisionAssumption
  <2> QED BY <1>1, <2>3, <2>4
<1> QED BY <1>7, <1>8

\* What _redeemCollateral takes from the positions and adds to the receiver's
\* wallet.
LEMMA RedeemTakes ==
  ASSUME TypeOK, NEW from \in Users, NEW to \in Users, NEW t \in Tokens, NEW n \in Nat,
         _redeemCollateral(from, to, t, n)
  PROVE  /\ \A v \in Users, r \in Tokens :
              s_collateralDeposited[v][r] - s_collateralDeposited'[v][r] =
                IF v = from /\ r = t THEN n ELSE 0
         /\ collateral'[t][to] = collateral[t][to] + n
<1>1. /\ s_collateralDeposited \in [Users -> [Tokens -> Nat]]
      /\ collateral \in [Tokens -> [Accounts -> Nat]]
      /\ collateral[t] \in [Accounts -> Nat]
      /\ n <= collateral[t][Engine]
      /\ s_collateralDeposited' = [s_collateralDeposited EXCEPT ![from][t] = @ - n]
      /\ collateral' = [collateral EXCEPT ![t] = Transfer(collateral[t], Engine, to, n)]
  BY DEF TypeOK, _redeemCollateral, CanTransfer
<1>2. ASSUME NEW v \in Users, NEW r \in Tokens
      PROVE  s_collateralDeposited[v][r] - s_collateralDeposited'[v][r] =
               IF v = from /\ r = t THEN n ELSE 0
  BY <1>1
<1>3. Transfer(collateral[t], Engine, to, n)[to] = collateral[t][to] + n
  <2>1. /\ collateral[t] \in [Accounts -> Nat] /\ IsFiniteSet(Accounts)
        /\ Engine \in Accounts /\ to \in Accounts /\ Engine # to
        /\ n <= collateral[t][Engine]
    BY <1>1, AccountsFinite, UsersAssumption
  <2> QED BY <2>1, TransferLedger
<1> QED BY <1>1, <1>2, <1>3

\* The only step that takes collateral from a position without paying it to
\* its owner is a liquidation by somebody else.
LEMMA SeizureStep == IInv /\ [Next]_vars => SeizedOnTerms
<1> SUFFICES ASSUME IInv, [Next]_vars, NEW v \in Users, NEW r \in Tokens,
                    s_collateralDeposited[v][r] - s_collateralDeposited'[v][r] > 0,
                    collateral'[r][v] = collateral[r][v]
             PROVE  /\ ~Healthy(v) /\ Healthy(v)'
                    /\ s_DSCMinted[v] - s_DSCMinted'[v] > 0
                    /\ 100 * getUSDValue(r, s_collateralDeposited[v][r]
                                              - s_collateralDeposited'[v][r])
                         <= 110 * (s_DSCMinted[v] - s_DSCMinted'[v])
  BY DEF SeizedOnTerms
<1>0. /\ TypeOK
      /\ s_collateralDeposited \in [Users -> [Tokens -> Nat]]
      /\ collateral \in [Tokens -> [Accounts -> Nat]]
      /\ collateral[r][v] \in Nat
      /\ s_DSCMinted \in [Users -> Nat]
  BY AccountsFinite DEF IInv, TypeOK
<1>1. ~ \E u \in Users, t \in Tokens, n \in CollateralAmounts :
          \/ depositCollateral(u, t, n)
          \/ \E m \in DSCAmounts : depositCollateralAndMintDSC(u, t, n, m)
  <2>1. ASSUME NEW u \in Users, NEW t \in Tokens, NEW n \in CollateralAmounts,
               s_collateralDeposited' = [s_collateralDeposited EXCEPT ![u][t] = @ + n]
        PROVE  FALSE
    BY <1>0, <2>1, InputsAssumption
  <2>2. ASSUME NEW u \in Users, NEW t \in Tokens, NEW n \in CollateralAmounts,
               NEW m \in DSCAmounts, depositCollateralAndMintDSC(u, t, n, m)
        PROVE  s_collateralDeposited' = [s_collateralDeposited EXCEPT ![u][t] = @ + n]
    BY <1>0, <2>2 DEF depositCollateralAndMintDSC
  <2> QED BY <2>1, <2>2 DEF depositCollateral
<1>2. s_collateralDeposited' # s_collateralDeposited BY <1>0
<1>3. ASSUME NEW u \in Users, NEW t \in Tokens, NEW n \in Nat,
             _redeemCollateral(u, u, t, n)
      PROVE  FALSE
  <2>0. TypeOK BY <1>0
  <2>1. /\ \A x \in Users, y \in Tokens :
             s_collateralDeposited[x][y] - s_collateralDeposited'[x][y] =
               IF x = u /\ y = t THEN n ELSE 0
        /\ collateral'[t][u] = collateral[t][u] + n
    BY <2>0, <1>3, RedeemTakes
  <2>2. v = u /\ r = t /\ n > 0 BY <2>1
  <2> QED BY <1>0, <2>1, <2>2
<1>4. ~ \E u \in Users, t \in Tokens, n \in CollateralAmounts :
          \/ redeemCollateral(u, t, n)
          \/ \E m \in DSCAmounts : redeemCollateralForDSC(u, t, n, m)
  BY <1>3, InputsAssumption DEF redeemCollateral, redeemCollateralForDSC
<1>5. ~ \E u \in Users, n \in DSCAmounts : mintDSC(u, n) \/ burnDSC(u, n)
  BY <1>2 DEF mintDSC, burnDSC
<1>6. ~ (TokenNext \/ FeedNext \/ UNCHANGED vars)
  BY <1>2 DEF TokenNext, transferDSC, transferCollateral, burnFrom, FeedNext,
              updateAnswer, Tick, positions, vars
<1>7. PICK u \in Users, t \in Tokens, user \in Users, n \in DSCAmounts :
        liquidate(u, t, user, n)
  BY <1>1, <1>4, <1>5, <1>6, Zenon DEF Next, EngineNext
<1>8. n \in Nat /\ n > 0 BY <1>7, InputsAssumption DEF liquidate
<1>9. /\ AllReadable /\ price[t] # 0 /\ UNCHANGED feeds
      /\ _redeemCollateral(user, u, t, totalCollateralToRedeem(t, n))
      /\ _burnDSC(user, u, n)
      /\ healthFactor(s_DSCMinted[user], s_collateralDeposited[user]) < MIN_HEALTH_FACTOR
      /\ healthFactor(s_DSCMinted'[user], s_collateralDeposited'[user]) >= MIN_HEALTH_FACTOR
  BY <1>7 DEF liquidate, HealthFactorHolds
<1>10. totalCollateralToRedeem(t, n) \in Nat BY <1>0, <1>8, <1>9, RedeemedAmount
<1>11. /\ v = user /\ r = t
       /\ s_collateralDeposited[v][r] - s_collateralDeposited'[v][r]
            = totalCollateralToRedeem(t, n)
  BY <1>0, <1>9, <1>10, RedeemTakes
<1>12. s_DSCMinted[v] - s_DSCMinted'[v] = n
  BY <1>0, <1>8, <1>9, <1>11 DEF _burnDSC
<1>13. Healthy(v)' BY <1>9, <1>11, HealthyAfter, Zenon
<1>14. ~Healthy(v)
  <2>1. healthFactor(s_DSCMinted[v], s_collateralDeposited[v]) < MIN_HEALTH_FACTOR
    BY <1>9, <1>11
  <2>2. healthFactor(s_DSCMinted[v], s_collateralDeposited[v]) \in Int
    BY HealthFactorInt, <1>0
  <2> QED BY <2>1, <2>2, PrecisionAssumption DEF Healthy, MIN_HEALTH_FACTOR
<1>15. 100 * getUSDValue(t, totalCollateralToRedeem(t, n)) <= 110 * n
  BY <1>0, <1>8, <1>9, BonusBound
<1> QED BY <1>8, <1>11, <1>12, <1>13, <1>14, <1>15

\* Collateral leaves a position for another account only in a liquidation
\* (liquidate) of a broken position, which leaves it healthy and takes at
\* most 110% of the debt it cancels, for any prices, amounts and precisions.
THEOREM SeizureTerms == Spec => SeizedOnLiquidationTerms
<1>1. IInv /\ [Next]_vars => [SeizedOnTerms]_vars BY SeizureStep
<1> QED BY <1>1, IInvAlways, PTL DEF Spec, SeizedOnLiquidationTerms
==============================================================================
