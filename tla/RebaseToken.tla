----------------------------- MODULE RebaseToken -----------------------------
(***************************************************************************)
(* rebase-token: RebaseToken.sol on two chains, the Vault on one of them,  *)
(* and the pools that carry tokens from one chain to the other in CCIP     *)
(* messages, which arrive in any order and at any time.                    *)
(*                                                                         *)
(* A transaction is one action, a revert disables it: what would pass the  *)
(* largest uint256, MAX, reverts.  An amount of MAX asks for the whole     *)
(* balance.  The chains have one clock.                                    *)
(***************************************************************************)
EXTENDS Integers, FiniteSets, Functions

CONSTANTS
  Holders,            \* accounts of users
  PRECISION_FACTOR,
  InitialRate,
  LowerRates,         \* what the owner may set
  TokenAmounts,
  MAX,                \* type(uint256).max
  MaxNow, MaxDeposited, MaxRewards, MaxMessages,
  MaxTransactions

Home == "home"       \* the chain with the vault
Chains == {Home, "remote"}
ThePool == "pool"    \* the account of RebaseTokenPool
Accounts20 == Holders \cup {ThePool}

ASSUME RebaseAssumption ==
  /\ ThePool \notin Holders /\ IsFiniteSet(Holders)
  /\ PRECISION_FACTOR \in Nat \ {0} /\ InitialRate \in Nat /\ LowerRates \subseteq Nat
  /\ TokenAmounts \subseteq Nat /\ MAX \in Nat
  /\ {MaxNow, MaxDeposited, MaxRewards, MaxMessages, MaxTransactions} \subseteq Nat

VARIABLES
  tokens,      \* a RebaseToken per chain: s_interestRate, the users' rates,
               \* timestamps and principals, and the interest minted so far
  now,         \* block.timestamp
  vault,       \* the ETH of the vault: held, and the totals that moved it
  messages,    \* CCIP messages under way, numbered
  unburned,    \* what messages carried beyond what was burned for them
  txs          \* transactions so far, for the bound

rebase_vars == <<tokens, now, vault, messages, unburned, txs>>

RebaseInit ==
  /\ tokens = [c \in Chains |-> [rate |-> InitialRate, rates |-> [u \in Accounts20 |-> 0],
                                 updated |-> [u \in Accounts20 |-> 0],
                                 principal |-> [u \in Accounts20 |-> 0], interest |-> 0]]
  /\ now = 1
  /\ vault = [held |-> 0, deposited |-> 0, redeemed |-> 0, rewards |-> 0]
  /\ messages = {}
  /\ unburned = 0
  /\ txs = 0

-----------------------------------------------------------------------------
(* RebaseToken *)

\* A user that was never stamped has a factor of 0.
accumulatedInterest(t, u, at) ==
  IF t.updated[u] = 0 THEN 0 ELSE PRECISION_FACTOR + t.rates[u] * (at - t.updated[u])

balanceOf(t, u, at) == (t.principal[u] * accumulatedInterest(t, u, at)) \div PRECISION_FACTOR

totalSupply(t) == SumFunction(t.principal)

\* The product in balanceOf, the difference and the new supply are unsigned.
CanAccrue(t, u) ==
  /\ t.principal[u] * accumulatedInterest(t, u, now) <= MAX
  /\ balanceOf(t, u, now) >= t.principal[u]
  /\ totalSupply(t) + balanceOf(t, u, now) - t.principal[u] <= MAX

mintAccruedInterest(t, u) ==
  [t EXCEPT !.interest = @ + balanceOf(t, u, now) - t.principal[u],
            !.principal[u] = balanceOf(t, u, now),
            !.updated[u] = now]

\* Mutant: the new rate is set before the interest is minted.
mintToken_RateFirst(t, u, amount, rate) ==
  [mintAccruedInterest([t EXCEPT !.rates[u] = rate], u) EXCEPT !.principal[u] = @ + amount]

mintToken(t, u, amount, rate) ==
  [mintAccruedInterest(t, u) EXCEPT !.rates[u] = rate, !.principal[u] = @ + amount]

CanMint(t, u, amount) ==
  CanAccrue(t, u) /\ totalSupply(mintAccruedInterest(t, u)) + amount <= MAX

amountOf(t, u, amount) == IF amount = MAX THEN balanceOf(t, u, now) ELSE amount

CanBurn(t, u, amount) ==
  CanAccrue(t, u) /\ amountOf(t, u, amount) <= mintAccruedInterest(t, u).principal[u]

burnToken(t, u, amount) == [mintAccruedInterest(t, u) EXCEPT !.principal[u] = @ - amountOf(t, u, amount)]

\* transfer and transferFrom, once the allowance is there.  Both users are
\* stamped, then a recipient without tokens takes over the sender's rate.
Stamped(t, from, to) == mintAccruedInterest(mintAccruedInterest(t, from), to)

CanTransferToken(t, from, to, amount) ==
  /\ CanAccrue(t, from) /\ CanAccrue(mintAccruedInterest(t, from), to)
  /\ amountOf(Stamped(t, from, to), from, amount) <= Stamped(t, from, to).principal[from]

transferToken(t, from, to, amount) ==
  LET s == Stamped(t, from, to)
      n == amountOf(s, from, amount)
      r == IF balanceOf(s, to, now) = 0 THEN [s EXCEPT !.rates[to] = s.rates[from]] ELSE s
  IN [[r EXCEPT !.principal[from] = @ - n] EXCEPT !.principal[to] = @ + n]

-----------------------------------------------------------------------------
(* Transactions *)

\* Only the vault mints at this rate: the remote token's is read by nothing.
setInterestRate(rate) ==
  /\ rate < tokens[Home].rate
  /\ tokens' = [tokens EXCEPT ![Home].rate = rate]
  /\ UNCHANGED <<now, vault, messages, unburned>>

transferTokens(c, from, to, amount) ==
  /\ CanTransferToken(tokens[c], from, to, amount)
  /\ tokens' = [tokens EXCEPT ![c] = transferToken(@, from, to, amount)]
  /\ UNCHANGED <<now, vault, messages, unburned>>

\* Vault.deposit: at the rate of the day, whatever rate the user had.
deposit(u, value) ==
  /\ vault.deposited + value <= MaxDeposited
  /\ CanMint(tokens[Home], u, value)
  /\ tokens' = [tokens EXCEPT ![Home] = mintToken(@, u, value, @.rate)]
  /\ vault' = [vault EXCEPT !.held = @ + value, !.deposited = @ + value]
  /\ UNCHANGED <<now, messages, unburned>>

\* Vault.redeem: the tokens are burned first; the payment needs the ETH.
redeem(u, amount) ==
  LET n == amountOf(tokens[Home], u, amount)
  IN /\ CanBurn(tokens[Home], u, n)
     /\ n <= vault.held
     /\ tokens' = [tokens EXCEPT ![Home] = burnToken(@, u, n)]
     /\ vault' = [vault EXCEPT !.held = @ - n, !.redeemed = @ + n]
     /\ UNCHANGED <<now, messages, unburned>>

\* Vault.receive: ETH that pays interest.
receive(value) ==
  /\ vault.rewards + value <= MaxRewards
  /\ vault' = [vault EXCEPT !.held = @ + value, !.rewards = @ + value]
  /\ UNCHANGED <<tokens, now, messages, unburned>>

\* Mutant: the pool keeps the tokens.
lockOrBurn_Locks(t, amount) == mintAccruedInterest(t, ThePool)

lockOrBurn(t, amount) == burnToken(t, ThePool, amount)

\* The router takes the tokens from the user for the pool; the rate is the one
\* the user has then.  Receivers are any users of the other chain.  For MAX the
\* pool burns all it has, and the message carries MAX.
ccipSend(c, from, to, amount) ==
  LET moved == transferToken(tokens[c], from, ThePool, amount)
  IN /\ Cardinality(messages) < MaxMessages
     /\ amount > 0
     /\ CanTransferToken(tokens[c], from, ThePool, amount)
     /\ CanBurn(moved, ThePool, amount)
     /\ tokens' = [tokens EXCEPT ![c] = lockOrBurn(moved, amount)]
     /\ \E id \in 1 .. MaxMessages :
          /\ \A m \in messages : m.id # id
          /\ \A k \in 1 .. id - 1 : \E m \in messages : m.id = k
          /\ messages' = messages \cup {[id |-> id, chain |-> CHOOSE d \in Chains : d # c, receiver |-> to,
                                         amount |-> amount, rate |-> moved.rates[from]]}
     /\ unburned' = unburned + amount - amountOf(moved, ThePool, amount)
     /\ UNCHANGED <<now, vault>>

releaseOrMint(m) ==
  /\ CanMint(tokens[m.chain], m.receiver, m.amount)
  /\ tokens' = [tokens EXCEPT ![m.chain] = mintToken(@, m.receiver, m.amount, m.rate)]
  /\ messages' = messages \ {m}
  /\ UNCHANGED <<now, vault, unburned>>

passTime ==
  /\ now < MaxNow
  /\ now' = now + 1
  /\ UNCHANGED <<tokens, vault, messages, unburned>>

Transaction ==
  \/ \E r \in LowerRates : setInterestRate(r)
  \/ \E c \in Chains, from \in Holders, to \in Accounts20, n \in TokenAmounts \cup {MAX} :
       transferTokens(c, from, to, n)
  \/ \E u \in Holders, n \in TokenAmounts : deposit(u, n)
  \/ \E u \in Holders, n \in TokenAmounts \cup {MAX} : redeem(u, n)
  \/ \E n \in TokenAmounts : receive(n)
  \/ \E c \in Chains, from, to \in Holders, n \in TokenAmounts \cup {MAX} : ccipSend(c, from, to, n)
  \/ \E m \in messages : releaseOrMint(m)

RebaseNext ==
  \/ txs < MaxTransactions /\ txs' = txs + 1 /\ Transaction
  \/ passTime /\ UNCHANGED txs

RebaseSpec == RebaseInit /\ [][RebaseNext]_rebase_vars
-----------------------------------------------------------------------------
(* Properties *)

\* The tokens of one chain that are not interest.
BroughtIn(t) == totalSupply(t) - t.interest

\* The tokens under way.
Carried(ms) == SumFunction([m \in ms |-> m.amount])

\* The tokens of both chains and those under way are the deposits, less what was
\* redeemed, and the interest minted: no order of deposits, transfers, lazily
\* minted interest and messages makes or loses a token, but for a bridge transfer
\* of MAX, which makes what its message carries beyond the tokens burned for it
\* (lockOrBurn passes the amount on as it came).  The vault holds the ETH of its
\* deposits until they are redeemed.
TokensAreAccountedFor ==
  /\ BroughtIn(tokens[Home]) + BroughtIn(tokens["remote"]) + Carried(messages)
     = vault.deposited - vault.redeemed + unburned
  /\ vault.held = vault.deposited + vault.rewards - vault.redeemed

\* u transfers, bridges or redeems.
Spends(c, u) ==
  \E n \in TokenAmounts \cup {MAX} :
    \/ \E v \in Accounts20 : transferTokens(c, u, v, n)
    \/ \E v \in Holders : ccipSend(c, u, v, n)
    \/ c = Home /\ redeem(u, n)

\* Nobody's balance falls unless they spend: minting the interest early, the
\* rates that others bring along and stamping a user for the first time leave
\* what balanceOf shows (RebaseToken.sol 85-93, 149-160).
BalancesOnlyGrow ==
  [][\A c \in Chains, u \in Holders :
       balanceOf(tokens'[c], u, now') >= balanceOf(tokens[c], u, now) \/ Spends(c, u)]_rebase_vars
==============================================================================
