----------------------------- MODULE MCContracts -----------------------------
(* One run for the contracts of the course that do not call each other: the    *)
(* initial state chooses one of them, and only that one takes steps.           *)
EXTENDS MCRaffle, RebaseToken, FundMe, Nfts

CONSTANTS u1, u2
VARIABLE part

TwoHolders == {u1, u2}
HolderSymmetry == Permutations(TwoHolders)

\* A negative one too.
FeedAnswers == {-1, 2, 5}

ContractsInit ==
  /\ part \in {"raffle", "rebase", "fundme", "nfts"}
  /\ Init /\ RebaseInit /\ FundMeInit /\ NftsInit

ContractsNext ==
  /\ UNCHANGED part
  /\ \/ part = "raffle" /\ Next /\ UNCHANGED <<rebase_vars, fund_vars, nft_vars>>
     \/ part = "rebase" /\ RebaseNext /\ UNCHANGED <<vars, fund_vars, nft_vars>>
     \/ part = "fundme" /\ FundMeNext /\ UNCHANGED <<vars, rebase_vars, nft_vars>>
     \/ part = "nfts" /\ NftsNext /\ UNCHANGED <<vars, rebase_vars, fund_vars>>

ContractsSpec == ContractsInit /\ [][ContractsNext]_<<part, vars, rebase_vars, fund_vars, nft_vars>>
==============================================================================
