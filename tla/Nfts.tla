--------------------------------- MODULE Nfts ---------------------------------
(***************************************************************************)
(* foundry-nft: BasicNft.sol and MoodNft.sol.  _safeMint calls the         *)
(* receiver when it is a contract, and the receiver may call the           *)
(* collection again before the mint has returned; a mint is therefore two  *)
(* steps.  A mint of an id that exists reverts, and the receiver may catch *)
(* that.  The two collections have the same life and differ in what is     *)
(* written before and after the receiver's call, so one collection of each *)
(* kind runs here under the same ids.                                      *)
(***************************************************************************)
EXTENDS Integers, FiniteSets

CONSTANTS Minters, Uris, MaxTokens

ASSUME NftsAssumption == MaxTokens \in Nat \ {0}

VARIABLES
  s_tokenCounter,
  s_tokenIdToUri, s_tokenIdToMood,   \* written entries only
  owners,                            \* _owners of ERC721
  approved,                          \* _tokenApprovals
  minting,       \* the mint whose receiver is being called, with the state that a
                 \* revert restores, or NoMint
  given,         \* history: the Uri the token's minter passed
  flips          \* history: flips since the token's mint returned

nft_vars == <<s_tokenCounter, s_tokenIdToUri, s_tokenIdToMood, owners, approved, minting, given, flips>>

NoMint == <<>>
Ids == 0 .. MaxTokens - 1
With(f, i, v) == [j \in DOMAIN f \cup {i} |-> IF j = i THEN v ELSE f[j]]

NftsInit ==
  /\ s_tokenCounter = 0 /\ minting = NoMint
  /\ s_tokenIdToUri = <<>> /\ s_tokenIdToMood = <<>> /\ owners = <<>> /\ approved = <<>>
  /\ given = <<>> /\ flips = <<>>

\* A default mapping entry is 0, which is SAD.
moodOf(i) == IF i \in DOMAIN s_tokenIdToMood THEN s_tokenIdToMood[i] ELSE "SAD"

\* mintNft and mintNFT up to the call of the receiver.
mintNft(u, uri) ==
  /\ minting = NoMint
  /\ s_tokenCounter < MaxTokens
  /\ s_tokenIdToUri' = With(s_tokenIdToUri, s_tokenCounter, uri)
  /\ owners' = With(owners, s_tokenCounter, u)
  /\ minting' = [minter |-> u, tried |-> FALSE,
                 before |-> [uris |-> s_tokenIdToUri, moods |-> s_tokenIdToMood, owners |-> owners,
                             approved |-> approved, given |-> given, flips |-> flips]]
  /\ given' = With(given, s_tokenCounter, uri)
  /\ UNCHANGED <<s_tokenCounter, s_tokenIdToMood, approved, flips>>

\* Mutant: what the nested mint wrote stays.
nestedMint_Kept(uri) == With(s_tokenIdToUri, s_tokenCounter, uri)

\* A mint called by the receiver.  The counter has not moved: when _safeMint
\* finds the id taken it reverts, with what the nested call wrote.
nestedMint(uri) ==
  IF s_tokenCounter \in DOMAIN owners THEN s_tokenIdToUri ELSE With(s_tokenIdToUri, s_tokenCounter, uri)

receiverMints(uri) ==
  /\ minting # NoMint
  /\ s_tokenIdToUri' = nestedMint(uri)
  /\ minting' = [minting EXCEPT !.tried = TRUE]
  /\ UNCHANGED <<s_tokenCounter, s_tokenIdToMood, owners, approved, given, flips>>

mintReturns ==
  /\ minting # NoMint
  /\ s_tokenIdToMood' = With(s_tokenIdToMood, s_tokenCounter, "HAPPY")
  /\ s_tokenCounter' = s_tokenCounter + 1
  /\ minting' = NoMint
  /\ flips' = With(flips, s_tokenCounter, 0)
  /\ UNCHANGED <<s_tokenIdToUri, owners, approved, given>>

\* The receiver refuses the token: the transaction is undone, with what the
\* receiver did to other tokens.
mintReverts ==
  /\ minting # NoMint
  /\ s_tokenIdToUri' = minting.before.uris
  /\ s_tokenIdToMood' = minting.before.moods
  /\ owners' = minting.before.owners
  /\ approved' = minting.before.approved
  /\ given' = minting.before.given
  /\ flips' = minting.before.flips
  /\ minting' = NoMint
  /\ UNCHANGED s_tokenCounter

\* Only the receiver runs while it is called.
Calls(u) == minting # NoMint => minting.minter = u

approve(u, i, v) ==
  /\ Calls(u) /\ i \in DOMAIN owners /\ owners[i] = u
  /\ approved' = With(approved, i, v)
  /\ UNCHANGED <<s_tokenCounter, s_tokenIdToUri, s_tokenIdToMood, owners, minting, given, flips>>

Without(f, i) == [j \in DOMAIN f \ {i} |-> f[j]]

\* A transfer clears the approval.
transferFrom(u, i, v) ==
  /\ Calls(u) /\ i \in DOMAIN owners
  /\ owners[i] = u \/ (i \in DOMAIN approved /\ approved[i] = u)
  /\ owners' = [owners EXCEPT ![i] = v]
  /\ approved' = Without(approved, i)
  /\ UNCHANGED <<s_tokenCounter, s_tokenIdToUri, s_tokenIdToMood, minting, given, flips>>

flipMood(u, i) ==
  /\ Calls(u) /\ i \in DOMAIN owners
  /\ owners[i] = u \/ (i \in DOMAIN approved /\ approved[i] = u)
  /\ s_tokenIdToMood' = With(s_tokenIdToMood, i, IF moodOf(i) = "HAPPY" THEN "SAD" ELSE "HAPPY")
  /\ flips' = IF i \in DOMAIN flips THEN [flips EXCEPT ![i] = (@ + 1) % 2] ELSE flips
  /\ UNCHANGED <<s_tokenCounter, s_tokenIdToUri, owners, approved, minting, given>>

NftsNext ==
  \/ \E u \in Minters, uri \in Uris : mintNft(u, uri)
  \/ \E uri \in Uris : receiverMints(uri)
  \/ mintReturns \/ mintReverts
  \/ \E u, v \in Minters, i \in Ids : approve(u, i, v) \/ transferFrom(u, i, v)
  \/ \E u \in Minters, i \in Ids : flipMood(u, i)

NftsSpec == NftsInit /\ [][NftsNext]_nft_vars
-----------------------------------------------------------------------------
\* Ids are given once and without gaps; a token keeps the Uri its minter passed,
\* whatever the receiver tried before the counter moved; and its mood is HAPPY
\* when its mint returns and changes with every flip after that (BasicNft.sol
\* 14-18, MoodNft.sol 27-40).
TokensAreAsMinted ==
  /\ DOMAIN owners = 0 .. (s_tokenCounter - IF minting = NoMint THEN 1 ELSE 0)
  /\ DOMAIN owners \subseteq DOMAIN s_tokenIdToUri
  /\ \A i \in DOMAIN owners : s_tokenIdToUri[i] = given[i]
  /\ \A i \in 0 .. s_tokenCounter - 1 : moodOf(i) = IF flips[i] = 0 THEN "HAPPY" ELSE "SAD"
==============================================================================
