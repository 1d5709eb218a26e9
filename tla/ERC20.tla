-------------------------------- MODULE ERC20 --------------------------------
(***************************************************************************)
(* The effect of OpenZeppelin's ERC20 operations on a ledger, a function   *)
(* from account to balance.  The contracts of this repository call them    *)
(* and do not define them.  A call whose guard is false reverts the whole  *)
(* transaction, so the guard becomes a conjunct of the calling action.     *)
(* Allowances are left out: every transferFrom in this repository spends   *)
(* the tokens of the account that sent the transaction, which can always   *)
(* approve the amount in the transaction before.                           *)
(***************************************************************************)
EXTENDS Integers, Functions

\* _update(from, to, value): the balance must cover the amount.
CanTransfer(ledger, from, n) == n <= ledger[from]

\* The balance is debited before the other one is credited, so a transfer of
\* an account to itself leaves the ledger alone.
Transfer(ledger, from, to, n) ==
  LET debited == [ledger EXCEPT ![from] = @ - n]
  IN  [debited EXCEPT ![to] = @ + n]

\* _mint(to, value) and _burn(from, value), without the total supply.
Mint(ledger, to, n) == [ledger EXCEPT ![to] = @ + n]
Burn(ledger, from, n) == [ledger EXCEPT ![from] = @ - n]
==============================================================================
