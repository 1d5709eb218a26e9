---------------------------- MODULE ContractProofs ----------------------------
(***************************************************************************)
(* Proofs about the contracts of the course other than DSCEngine: Raffle,  *)
(* BasicNft and MoodNft, FundMe, RebaseToken with its vault and pools.     *)
(***************************************************************************)
EXTENDS Raffle, Nfts, FundMe, RebaseToken, FoldTheorems

-----------------------------------------------------------------------------
(* Raffle *)

\* While the winner is being paid the next round is open and has just begun.
RoundHasBegun == paying # Nobody => s_recentWinner = paying /\ s_raffleState = "OPEN" /\ elapsed = 0

\* The invariants are preserved together: that an answer finds players needs
\* that the list is only cleared by an answer, that a round without players has
\* no pot needs that tickets cost something, and that no draw is asked for in
\* the winner's call needs that the round has begun.
RaffleIInv == TypeOK /\ TicketsAreInThePot /\ AnswerFindsItsRound /\ RoundHasBegun

\* The fee of one more ticket, as the provers' arithmetic needs it.
LEMMA OneMoreFee ==
  ASSUME NEW n \in Nat, NEW fee \in Nat
  PROVE  /\ fee * (n + 1) = fee * n + fee
         /\ fee * 0 = 0
         /\ fee * 1 = fee
         /\ fee * n \in Nat
  OBVIOUS

\* The winner's index is one of the list's, when the list is not empty.
LEMMA WinnerIsPlayer ==
  ASSUME TypeOK, s_players # <<>>, NEW word \in Nat
  PROVE  /\ winnerIndex(word) + 1 \in 1 .. Len(s_players)
         /\ WinnerFor(word) \in Players
  <1>1. Len(s_players) \in Nat /\ Len(s_players) > 0
    BY DEF TypeOK
  <1>2. word % Len(s_players) \in 0 .. Len(s_players) - 1
    BY <1>1
  <1>3. winnerIndex(word) + 1 \in 1 .. Len(s_players)
    BY <1>1, <1>2 DEF winnerIndex
  <1> QED
    BY <1>3 DEF TypeOK, WinnerFor

\* A callback that goes through names a player as the winner.
LEMMA DrawHasWinner ==
  ASSUME TypeOK, NEW word \in RandomWords, fulfillRandomWords(word)
  PROVE  /\ s_players # <<>>
         /\ winnerIndex(word) + 1 \in 1 .. Len(s_players)
         /\ WinnerFor(word) \in Players
  <1>1. s_players # <<>>
    BY DEF fulfillRandomWords, CallbackReverts
  <1>2. word \in Nat
    BY ParametersAssumption
  <1> QED
    BY <1>1, <1>2, WinnerIsPlayer

\* The constructor's state satisfies the invariant.
LEMMA InitIInv == Init => RaffleIInv
  <1> SUFFICES ASSUME Init PROVE RaffleIInv
    OBVIOUS
  <1>1. TypeOK
    BY ParametersAssumption, PlayersAssumption DEF Init, TypeOK
  <1>2. i_entranceFee * Len(s_players) = 0
    BY OneMoreFee, ParametersAssumption DEF Init
  <1>3. TicketsAreInThePot
    BY <1>2 DEF Init, TicketsAreInThePot
  <1>4. AnswerFindsItsRound /\ RoundHasBegun
    BY DEF Init, AnswerFindsItsRound, RoundHasBegun
  <1> QED
    BY <1>1, <1>3, <1>4 DEF RaffleIInv

\* enterRaffle preserves the invariant: the fee is paid before the ticket counts.
LEMMA EnterIInv ==
  ASSUME RaffleIInv, NEW p \in Players, NEW value \in MsgValues, enterRaffle(p, value)
  PROVE  RaffleIInv'
  <1>0. value \in Nat /\ i_entranceFee \in Nat /\ i_entranceFee > 0
    BY ParametersAssumption
  <1>1. TypeOK'
    BY <1>0 DEF RaffleIInv, TypeOK, enterRaffle
  <1>2. Len(s_players) \in Nat /\ Len(s_players') = Len(s_players) + 1 /\ s_players' # <<>>
    BY DEF RaffleIInv, TypeOK, enterRaffle
  <1>3. i_entranceFee * Len(s_players') = i_entranceFee * Len(s_players) + i_entranceFee
        /\ i_entranceFee * Len(s_players) \in Nat
    BY <1>0, <1>2, OneMoreFee
  <1>4. balance' = balance + value /\ value >= i_entranceFee /\ balance \in Nat
        /\ balance >= i_entranceFee * Len(s_players)
    BY DEF RaffleIInv, TypeOK, TicketsAreInThePot, enterRaffle
  <1>5. balance' >= i_entranceFee * Len(s_players')
    <2> DEFINE a == i_entranceFee * Len(s_players)
               b == i_entranceFee * Len(s_players')
    <2>1. b = a + i_entranceFee /\ a \in Nat /\ balance >= a
      BY <1>3, <1>4
    <2> HIDE DEF a, b
    <2>2. balance' >= b
      BY <1>0, <1>4, <2>1
    <2> QED
      BY <2>2 DEF b
  <1>6. TicketsAreInThePot'
    BY <1>2, <1>5 DEF TicketsAreInThePot
  <1>7. AnswerFindsItsRound' /\ RoundHasBegun'
    BY <1>2 DEF RaffleIInv, AnswerFindsItsRound, RoundHasBegun, enterRaffle
  <1> QED
    BY <1>1, <1>6, <1>7 DEF RaffleIInv

\* A draw is only asked for when no winner is being paid.
LEMMA NobodyIsPaid ==
  ASSUME RaffleIInv, performUpkeep
  PROVE  paying = Nobody
  BY ParametersAssumption DEF RaffleIInv, RoundHasBegun, performUpkeep, checkUpkeep

\* performUpkeep preserves the invariant: it finds the raffle open, so there is
\* no request yet, and some time gone, so nobody is being paid.
LEMMA UpkeepIInv ==
  ASSUME RaffleIInv, performUpkeep
  PROVE  RaffleIInv'
  <1>1. TypeOK'
    BY DEF RaffleIInv, TypeOK, performUpkeep
  <1>2. TicketsAreInThePot'
    BY DEF RaffleIInv, TicketsAreInThePot, performUpkeep
  <1>3. requests = 0 /\ s_players # <<>>
    BY DEF RaffleIInv, TypeOK, AnswerFindsItsRound, performUpkeep, checkUpkeep
  <1>4. AnswerFindsItsRound'
    BY <1>3 DEF AnswerFindsItsRound, performUpkeep
  <1>5. RoundHasBegun'
    BY NobodyIsPaid DEF RoundHasBegun, performUpkeep
  <1> QED
    BY <1>1, <1>2, <1>4, <1>5 DEF RaffleIInv

\* An answer preserves the invariant, also when the callback reverts.
LEMMA AnswerIInv ==
  ASSUME RaffleIInv, NEW word \in RandomWords, answerRequest(word)
  PROVE  RaffleIInv'
  <1>0. i_entranceFee \in Nat /\ i_interval \in Nat
    BY ParametersAssumption
  <1>1. requests = 1 /\ requests' = 0
    BY DEF RaffleIInv, TypeOK, AnswerFindsItsRound, answerRequest
  <1>2. AnswerFindsItsRound'
    BY <1>1 DEF AnswerFindsItsRound
  <1>3. CASE fulfillRandomWords(word)
    <2> DEFINE winner == WinnerFor(word)
    <2>1. winner \in Players
      BY <1>3, DrawHasWinner DEF RaffleIInv
    <2>2. /\ s_recentWinner' = winner /\ s_raffleState' = "OPEN" /\ elapsed' = 0 /\ paying' = winner
          /\ s_players' = <<>> /\ balance' = 0 /\ wallet' = [wallet EXCEPT ![winner] = @ + balance]
      BY <1>3 DEF fulfillRandomWords
    <2> HIDE DEF winner
    <2>3. TypeOK'
      BY <1>0, <1>1, <2>1, <2>2 DEF RaffleIInv, TypeOK
    <2>4. i_entranceFee * Len(s_players') = 0
      BY <1>0, <2>2, OneMoreFee
    <2>5. TicketsAreInThePot' /\ RoundHasBegun'
      BY <2>2, <2>4 DEF TicketsAreInThePot, RoundHasBegun
    <2> QED
      BY <1>2, <2>3, <2>5 DEF RaffleIInv
  <1>4. CASE UNCHANGED <<s_players, s_raffleState, s_recentWinner, elapsed, balance, wallet, paying>>
    <2>1. TypeOK' /\ TicketsAreInThePot' /\ RoundHasBegun'
      BY <1>1, <1>4 DEF RaffleIInv, TypeOK, TicketsAreInThePot, RoundHasBegun
    <2> QED
      BY <1>2, <2>1 DEF RaffleIInv
  <1> QED
    BY <1>3, <1>4 DEF answerRequest

\* So does the end of the winner's call.
LEMMA ReturnIInv ==
  ASSUME RaffleIInv, callReturns
  PROVE  RaffleIInv'
  BY DEF RaffleIInv, TypeOK, TicketsAreInThePot, AnswerFindsItsRound, RoundHasBegun, callReturns

\* The passing of time preserves the invariant.
LEMMA TickIInv ==
  ASSUME RaffleIInv, Tick
  PROVE  RaffleIInv'
  BY ParametersAssumption DEF RaffleIInv, TypeOK, TicketsAreInThePot, AnswerFindsItsRound, RoundHasBegun, Tick

\* Every step preserves the invariant.
LEMMA NextIInv == RaffleIInv /\ [Next]_vars => RaffleIInv'
  <1> SUFFICES ASSUME RaffleIInv, [Next]_vars PROVE RaffleIInv'
    OBVIOUS
  <1>1. CASE Enter
    BY <1>1, EnterIInv DEF Enter
  <1>2. CASE performUpkeep
    BY <1>2, UpkeepIInv
  <1>3. CASE Answer
    BY <1>3, AnswerIInv DEF Answer
  <1>4. CASE Tick
    BY <1>4, TickIInv
  <1>5. CASE callReturns
    BY <1>5, ReturnIInv
  <1>6. CASE UNCHANGED vars
    BY <1>6 DEF vars, RaffleIInv, TypeOK, TicketsAreInThePot, AnswerFindsItsRound, RoundHasBegun
  <1> QED
    BY <1>1, <1>2, <1>3, <1>4, <1>5, <1>6 DEF Next

\* The invariant holds throughout.
LEMMA RoundInvariant == Spec => []RaffleIInv
  BY InitIInv, NextIInv, PTL DEF Spec

-----------------------------------------------------------------------------

\* The state of the raffle and the players' wallets keep their types; no
\* payment takes more than there is.
THEOREM TypeCorrect == Spec => []TypeOK
  <1>1. RaffleIInv => TypeOK
    BY DEF RaffleIInv
  <1> QED
    BY <1>1, RoundInvariant, PTL

\* The pot holds the fee of every ticket sold in this round, and is empty when
\* none was (enterRaffle, fulfillRandomWords).
THEOREM TicketsInThePot == Spec => []TicketsAreInThePot
  <1>1. RaffleIInv => TicketsAreInThePot
    BY DEF RaffleIInv
  <1> QED
    BY <1>1, RoundInvariant, PTL

\* An answer of the coordinator always meets the round it was asked for, with
\* players in it (performUpkeep, fulfillRandomWords).
THEOREM AnswersMeetTheirRound == Spec => []AnswerFindsItsRound
  <1>1. RaffleIInv => AnswerFindsItsRound
    BY DEF RaffleIInv
  <1> QED
    BY <1>1, RoundInvariant, PTL

\* No ticket is sold between the request of a draw and its end (onlyOpen).
THEOREM SalesClosed == Spec => SalesAreClosedDuringDraw
  <1>1. RaffleIInv /\ [Next]_vars => [SalesAreClosed]_vars
    <2> SUFFICES ASSUME RaffleIInv, [Next]_vars PROVE SalesAreClosed
      OBVIOUS
    <2>1. CASE Enter
      BY <2>1 DEF Enter, enterRaffle, SalesAreClosed
    <2>2. CASE performUpkeep
      BY <2>2 DEF performUpkeep, SalesAreClosed
    <2>3. CASE Answer
      BY <2>3 DEF Answer, answerRequest, fulfillRandomWords, SalesAreClosed
    <2>4. CASE Tick
      BY <2>4 DEF Tick, SalesAreClosed
    <2>5. CASE callReturns
      BY <2>5 DEF callReturns, SalesAreClosed
    <2>6. CASE UNCHANGED vars
      BY <2>6 DEF vars, SalesAreClosed
    <2> QED
      BY <2>1, <2>2, <2>3, <2>4, <2>5, <2>6 DEF Next
  <1> QED
    BY <1>1, RoundInvariant, PTL DEF Spec, SalesAreClosedDuringDraw

\* A draw that goes through pays one holder of a ticket.
LEMMA DrawPays ==
  ASSUME RaffleIInv, NEW word \in RandomWords, fulfillRandomWords(word), paying = Nobody
  PROVE  PaysOneTicketHolder
  <1> DEFINE i == winnerIndex(word) + 1
             winner == WinnerFor(word)
  <1>1. i \in 1 .. Len(s_players) /\ winner = s_players[i] /\ winner \in Players
    BY DrawHasWinner DEF RaffleIInv, WinnerFor
  <1>2. s_recentWinner' = winner /\ wallet' = [wallet EXCEPT ![winner] = @ + balance]
    BY DEF fulfillRandomWords
  <1>3. wallet \in [Players -> Nat]
    BY DEF RaffleIInv, TypeOK
  <1> HIDE DEF i, winner
  <1>4. wallet'[winner] = wallet[winner] + balance /\ \A p \in Players \ {winner} : wallet'[p] = wallet[p]
    BY <1>1, <1>2, <1>3
  <1> QED
    BY <1>1, <1>2, <1>4 DEF PaysOneTicketHolder

\* Each draw pays the whole pot to one account with a ticket and moves nobody
\* else's ETH, and the draw stands until the call that pays is over: no call made
\* in it asks for another (fulfillRandomWords, performUpkeep).
THEOREM DrawsPay == Spec => DrawsPayOneTicketHolder
  <1>1. RaffleIInv /\ [Next]_vars => [PaysOneTicketHolder]_vars
    <2> SUFFICES ASSUME RaffleIInv, [Next]_vars PROVE PaysOneTicketHolder
      OBVIOUS
    <2>0. paying # Nobody => s_recentWinner = paying /\ s_raffleState = "OPEN" /\ requests = 0
      BY DEF RaffleIInv, RoundHasBegun, AnswerFindsItsRound, TypeOK
    <2>1. CASE Enter
      BY <2>0, <2>1 DEF Enter, enterRaffle, PaysOneTicketHolder
    <2>2. CASE performUpkeep
      BY <2>2, NobodyIsPaid DEF performUpkeep, PaysOneTicketHolder
    <2>3. CASE Answer
      <3>1. PICK word \in RandomWords : answerRequest(word)
        BY <2>3 DEF Answer
      <3>2. paying = Nobody
        BY <3>1 DEF answerRequest
      <3>3. CASE fulfillRandomWords(word)
        BY <3>2, <3>3, DrawPays
      <3>4. CASE UNCHANGED s_raffleState
        BY <3>2, <3>4 DEF PaysOneTicketHolder
      <3> QED
        BY <3>1, <3>3, <3>4 DEF answerRequest
    <2>4. CASE Tick
      BY <2>4 DEF Tick, PaysOneTicketHolder
    <2>5. CASE callReturns
      BY <2>0, <2>5 DEF callReturns, PaysOneTicketHolder
    <2>6. CASE UNCHANGED vars
      BY <2>0, <2>6 DEF vars, PaysOneTicketHolder
    <2> QED
      BY <2>1, <2>2, <2>3, <2>4, <2>5, <2>6 DEF Next
  <1> QED
    BY <1>1, RoundInvariant, PTL DEF Spec, DrawsPayOneTicketHolder

-----------------------------------------------------------------------------
(* Nfts *)

\* n tokens are owned and written as they were given, and the tokens whose mint
\* has returned have the mood their flips say.
TokensWritten(uris, moods, ids, gave, flipped, n) ==
  /\ ids = 0 .. n - 1
  /\ ids \subseteq DOMAIN uris
  /\ \A i \in ids : uris[i] = gave[i]
  /\ DOMAIN gave = ids
  /\ DOMAIN flipped = 0 .. s_tokenCounter - 1
  /\ \A i \in 0 .. s_tokenCounter - 1 :
       /\ flipped[i] \in {0, 1}
       /\ (IF i \in DOMAIN moods THEN moods[i] ELSE "SAD") = IF flipped[i] = 0 THEN "HAPPY" ELSE "SAD"

\* The token being minted is owned before the counter moves, and the state that
\* a revert of the mint restores was right for the counter as it still is.
NftsIInv ==
  /\ s_tokenCounter \in Nat
  /\ TokensWritten(s_tokenIdToUri, s_tokenIdToMood, DOMAIN owners, given, flips,
                   s_tokenCounter + IF minting = NoMint THEN 0 ELSE 1)
  /\ minting # NoMint =>
       TokensWritten(minting.before.uris, minting.before.moods, DOMAIN minting.before.owners,
                     minting.before.given, minting.before.flips, s_tokenCounter)

\* No token to begin with.
LEMMA NftsInitIInv == NftsInit => NftsIInv
BY DEF NftsInit, NftsIInv, TokensWritten, NoMint

\* The invariant says what the property says.
LEMMA NftsIInvImplies == NftsIInv => TokensAreAsMinted
BY DEF NftsIInv, TokensWritten, TokensAreAsMinted, moodOf

\* mintNft writes the next id and keeps what a revert restores.
LEMMA MintNftIInv ==
  ASSUME NftsIInv, NEW u, NEW uri, mintNft(u, uri)
  PROVE  NftsIInv'
<1>1. minting' # NoMint
  <2>1. "minter" \in DOMAIN minting' BY DEF mintNft
  <2> QED BY <2>1 DEF NoMint
<1>2. TokensWritten(minting'.before.uris, minting'.before.moods, DOMAIN minting'.before.owners,
                    minting'.before.given, minting'.before.flips, s_tokenCounter)
  BY DEF NftsIInv, mintNft
<1>3. TokensWritten(s_tokenIdToUri', s_tokenIdToMood', DOMAIN owners', given', flips', s_tokenCounter + 1)
  <2>1. DOMAIN owners' = 0 .. (s_tokenCounter + 1) - 1
    BY DEF NftsIInv, TokensWritten, mintNft, With
  <2> QED BY <2>1, Zenon DEF NftsIInv, TokensWritten, mintNft, With
<1> QED BY <1>1, <1>2, <1>3 DEF NftsIInv, TokensWritten, mintNft

\* A mint by the receiver reverts, since the id is owned already.
LEMMA ReceiverMintsIInv ==
  ASSUME NftsIInv, NEW uri, receiverMints(uri)
  PROVE  NftsIInv'
<1>1. s_tokenCounter \in DOMAIN owners
  BY DEF NftsIInv, TokensWritten, receiverMints
<1>2. s_tokenIdToUri' = s_tokenIdToUri BY <1>1 DEF receiverMints, nestedMint
<1>3. minting'.before = minting.before /\ minting' # NoMint
  BY DEF receiverMints, NoMint
<1> QED BY <1>2, <1>3 DEF NftsIInv, TokensWritten, receiverMints

\* The mint returns: the counter moves past the token, which is HAPPY.
LEMMA MintReturnsIInv == NftsIInv /\ mintReturns => NftsIInv'
<1> SUFFICES ASSUME NftsIInv, mintReturns PROVE NftsIInv' OBVIOUS
<1>1. s_tokenCounter' = s_tokenCounter + 1 /\ s_tokenCounter \in Nat BY DEF NftsIInv, mintReturns
<1>2. DOMAIN flips' = 0 .. s_tokenCounter' - 1
  BY <1>1 DEF NftsIInv, TokensWritten, mintReturns, With
<1>3. ASSUME NEW i \in 0 .. s_tokenCounter
      PROVE  /\ flips'[i] \in {0, 1}
             /\ (IF i \in DOMAIN s_tokenIdToMood' THEN s_tokenIdToMood'[i] ELSE "SAD")
                  = IF flips'[i] = 0 THEN "HAPPY" ELSE "SAD"
  BY <1>1 DEF NftsIInv, TokensWritten, mintReturns, With
<1> QED BY <1>1, <1>2, <1>3 DEF NftsIInv, TokensWritten, mintReturns, NoMint

\* The mint is undone.
LEMMA MintRevertsIInv == NftsIInv /\ mintReverts => NftsIInv'
BY DEF NftsIInv, TokensWritten, mintReverts, NoMint

\* A transfer, by whoever may make it, leaves the ids as they are.
LEMMA TransferFromIInv ==
  ASSUME NftsIInv, NEW u, NEW v, NEW i, transferFrom(u, i, v)
  PROVE  NftsIInv'
<1>1. DOMAIN owners' = DOMAIN owners BY DEF transferFrom
<1> QED BY <1>1 DEF NftsIInv, TokensWritten, transferFrom

\* A flip changes the mood of one token, also of the one being minted.
LEMMA FlipMoodIInv ==
  ASSUME NftsIInv, NEW u, NEW i, flipMood(u, i)
  PROVE  NftsIInv'
<1>1. DOMAIN flips' = DOMAIN flips BY DEF flipMood
<1>2. ASSUME NEW j \in 0 .. s_tokenCounter - 1
      PROVE  /\ flips'[j] \in {0, 1}
             /\ (IF j \in DOMAIN s_tokenIdToMood' THEN s_tokenIdToMood'[j] ELSE "SAD")
                  = IF flips'[j] = 0 THEN "HAPPY" ELSE "SAD"
  <2>1. CASE j = i
    <3>1. flips'[j] = (flips[j] + 1) % 2 /\ flips[j] \in {0, 1}
      BY <2>1 DEF NftsIInv, TokensWritten, flipMood
    <3>2. flips'[j] = IF flips[j] = 0 THEN 1 ELSE 0 BY <3>1
    <3> QED BY <2>1, <3>1, <3>2 DEF NftsIInv, TokensWritten, flipMood, With, moodOf
  <2>2. CASE j # i
    BY <2>2 DEF NftsIInv, TokensWritten, flipMood, With
  <2> QED BY <2>1, <2>2
<1> QED BY <1>1, <1>2 DEF NftsIInv, TokensWritten, flipMood

\* Every call of a collection keeps it.
LEMMA NftsNextIInv == NftsIInv /\ [NftsNext]_nft_vars => NftsIInv'
<1> SUFFICES ASSUME NftsIInv, [NftsNext]_nft_vars PROVE NftsIInv' OBVIOUS
<1>1. ASSUME NEW u \in Minters, NEW v \in Minters, NEW i \in Ids, approve(u, i, v) PROVE NftsIInv'
  BY <1>1 DEF NftsIInv, TokensWritten, approve
<1>2. CASE UNCHANGED nft_vars
  BY <1>2 DEF NftsIInv, TokensWritten, nft_vars
<1> QED
  BY <1>1, <1>2, MintNftIInv, ReceiverMintsIInv, MintReturnsIInv, MintRevertsIInv, TransferFromIInv,
     FlipMoodIInv DEF NftsNext

\* Ids without gaps, Uris as passed and moods as flipped, whatever a receiver does
\* while its token is being minted, for any number of minters and tokens.
THEOREM MintedTokens == NftsSpec => []TokensAreAsMinted
BY NftsInitIInv, NftsNextIInv, NftsIInvImplies, PTL DEF NftsSpec

-----------------------------------------------------------------------------
(* FundMe *)

\* The loop of ResetFunders over any amounts and funders.
Zeroed(f0, fs) == FoldLeft(LAMBDA f, a : [f EXCEPT ![a] = 0], f0, fs)

LEMMA ResetIsZeroed == ResetFunders = Zeroed(s_addressToAmountFunded, s_funders)
BY DEF ResetFunders, Zeroed

\* The loop over the funders leaves 0 for each of them and touches nobody else.
LEMMA ResetLoop ==
  ASSUME NEW D, NEW f0 \in [D -> Nat], NEW fs \in Seq(D), NEW out,
         out = Zeroed(f0, fs)
  PROVE  /\ out \in [D -> Nat]
         /\ \A a \in D : IF Contains(fs, a) THEN out[a] = 0 ELSE out[a] = f0[a]
<1> DEFINE n == Len(fs)
           X == [D -> Nat]
           h == [p \in (1 .. n) \X X |-> [p[2] EXCEPT ![fs[p[1]]] = 0]]
           it == CHOOSE g : g = [s \in SUBSET (1 .. n) |->
                                   IF s = {} THEN f0 ELSE [g[s \ {Max(s)}] EXCEPT ![fs[Max(s)]] = 0]]
<1>1. n \in Nat /\ DOMAIN fs = 1 .. n /\ \A i \in 1 .. n : fs[i] \in D OBVIOUS
<1>2. out = it[1 .. n] BY <1>1 DEF Zeroed, FoldLeft, MapThenFoldSet
<1>3. h \in Steps(1 .. n, X) BY <1>1 DEF Steps
<1>4. \A i \in 1 .. n, f \in X : h[<<i, f>>] = [f EXCEPT ![fs[i]] = 0] BY Zenon
<1>5. f0 \in X OBVIOUS
<1> HIDE DEF X, h, n
<1>6. \E g : g = [s \in SUBSET (1 .. n) |->
                    IF s = {} THEN f0 ELSE [g[s \ {Max(s)}] EXCEPT ![fs[Max(s)]] = 0]]
  <2>0. PICK g \in LeftFolds(n, X, f0, h) : TRUE BY <1>1, <1>3, <1>5, FoldLeftExists
  <2>1. /\ g \in [SUBSET (1 .. n) -> X]
        /\ \A s \in SUBSET (1 .. n) : g[s] = IF s = {} THEN f0 ELSE h[<<Max(s), g[s \ {Max(s)}]>>]
    BY Zenon DEF LeftFolds
  <2>2. ASSUME NEW s \in SUBSET (1 .. n), s # {}
        PROVE  g[s] = [g[s \ {Max(s)}] EXCEPT ![fs[Max(s)]] = 0]
    <3>1. Max(s) \in 1 .. n BY <1>1, <2>2, MaxIndex, Zenon
    <3>2. g[s \ {Max(s)}] \in X BY <2>1, Zenon
    <3> QED BY <1>4, <2>1, <2>2, <3>1, <3>2, Zenon
  <2>3. g = [s \in SUBSET (1 .. n) |->
               IF s = {} THEN f0 ELSE [g[s \ {Max(s)}] EXCEPT ![fs[Max(s)]] = 0]]
    BY <2>1, <2>2, Zenon
  <2> QED BY <2>3, Zenon
<1>7. it = [s \in SUBSET (1 .. n) |->
              IF s = {} THEN f0 ELSE [it[s \ {Max(s)}] EXCEPT ![fs[Max(s)]] = 0]]
  BY <1>6, Zenon
<1> HIDE DEF it
<1>9. ASSUME NEW s \in SUBSET (1 .. n), s # {}, it[s \ {Max(s)}] \in X
      PROVE  it[s] = h[<<Max(s), it[s \ {Max(s)}]>>]
  <2>1. Max(s) \in 1 .. n BY <1>1, <1>9, MaxIndex, Zenon
  <2>2. it[s] = [it[s \ {Max(s)}] EXCEPT ![fs[Max(s)]] = 0] BY <1>7, <1>9, Zenon
  <2> QED BY <1>4, <1>9, <2>1, <2>2, Zenon
<1>8. FoldsLeft(n, X, f0, h, it) BY <1>7, <1>9, Zenon DEF FoldsLeft
<1>10. PICK r \in LeftRuns(n, X, f0, h) : r[n] = it[1 .. n]
  BY <1>1, <1>3, <1>5, <1>8, FoldLeftRun
<1>17. r \in [0 .. n -> X] /\ r[0] = f0 BY DEF LeftRuns
<1>11. ASSUME NEW k \in 1 .. n
       PROVE  r[k - 1] \in X /\ r[k] = [r[k - 1] EXCEPT ![fs[k]] = 0]
  <2>1. k - 1 \in 0 .. n BY <1>1
  <2>2. r[k - 1] \in X BY <1>17, <2>1
  <2>3. r[k] = h[<<k, r[k - 1]>>] BY DEF LeftRuns
  <2> QED BY <1>4, <2>2, <2>3
<1> DEFINE Done(k) == \A a \in D : IF \E i \in 1 .. k : fs[i] = a THEN r[k][a] = 0 ELSE r[k][a] = f0[a]
           G == {k \in 0 .. n : Done(k)}
<1>12. 0 \in G
  <2>1. ~ \E i \in 1 .. 0 : TRUE OBVIOUS
  <2> QED BY <1>1, <1>17, <2>1
<1>13. ASSUME NEW k \in 1 .. n, k - 1 \in G PROVE k \in G
  <2>1. Done(k - 1) /\ k \in 0 .. n BY <1>1, <1>13
  <2>2. ASSUME NEW a \in D PROVE r[k][a] = IF fs[k] = a THEN 0 ELSE r[k - 1][a]
    <3> DEFINE q == r[k - 1]
    <3>1. q \in [D -> Nat] /\ r[k] = [q EXCEPT ![fs[k]] = 0] BY <1>11, Zenon DEF X
    <3> HIDE DEF q
    <3>2. r[k][a] = IF fs[k] = a THEN 0 ELSE q[a] BY <1>1, <3>1
    <3> QED BY <3>2 DEF q
  <2>3. \A i : i \in 1 .. k <=> i \in 1 .. k - 1 \/ i = k BY <1>1
  <2>4. Done(k) BY <2>1, <2>2, <2>3
  <2> QED BY <2>1, <2>4
<1>14. n \in G
  <2> HIDE DEF G
  <2>1. \A k \in 0 .. n : k \in G BY <1>1, <1>12, <1>13, UpTo, Zenon
  <2> QED BY <1>1, <2>1
<1>15. Done(n) BY <1>14
<1>16. out \in X BY <1>1, <1>2, <1>10, <1>17
<1> QED BY <1>2, <1>10, <1>15, <1>16 DEF X, Contains, n

\* Amounts, funders and a balance as FundsAreTheFunders wants them.
Books == {b \in [amounts : [Donors -> Nat], funders : Seq(Donors), balance : Nat] :
            /\ SumFunction(b.amounts) = b.balance
            /\ \A a \in Donors : b.amounts[a] > 0 => Contains(b.funders, a)}

Book(amounts, funders, held) ==
  [amounts |-> amounts, funders |-> funders, balance |-> held]

\* The books are right, and so are those each withdrawal under way would
\* restore.  The second half is what makes the first one inductive.
FundMeIInv ==
  /\ Book(s_addressToAmountFunded, s_funders, fund_balance) \in Books
  /\ withdrawal \in Seq(Books)

\* fund books the donation for its sender, who is then among the funders.
LEMMA FundBooks ==
  ASSUME NEW f \in [Donors -> Nat], NEW fs \in Seq(Donors), NEW b \in Nat,
         Book(f, fs, b) \in Books, NEW a \in Donors, NEW v \in Nat
  PROVE  Book([f EXCEPT ![a] = @ + v], Append(fs, a), b + v) \in Books
<1> DEFINE e == [f EXCEPT ![a] = @ + v]
           gs == Append(fs, a)
<1>1. e = [f EXCEPT ![a] = f[a] + v] /\ e \in [Donors -> Nat] /\ f[a] \in Nat OBVIOUS
<1>2. f[a] + v \in Int /\ f \in [Donors -> Int] BY <1>1
<1>3. SumFunction(e) = SumFunction(f) - f[a] + (f[a] + v)
  <2> DEFINE w == f[a] + v
  <2>1. w \in Int /\ IsFiniteSet(Donors) /\ e = [f EXCEPT ![a] = w] BY <1>1, <1>2, FundMeAssumption
  <2> HIDE DEF w, e
  <2>2. SumFunction([f EXCEPT ![a] = w]) = SumFunction(f) - f[a] + w
    BY <1>2, <2>1, SumUpdate, Zenon
  <2> QED BY <2>1, <2>2 DEF w
<1>4. SumFunction(f) = b /\ \A d \in Donors : f[d] > 0 => Contains(fs, d) BY DEF Books, Book
<1>5. SumFunction(e) = b + v BY <1>1, <1>3, <1>4
<1>6. gs \in Seq(Donors) /\ Len(gs) = Len(fs) + 1 /\ gs[Len(fs) + 1] = a
      /\ \A i \in 1 .. Len(fs) : gs[i] = fs[i] /\ i \in 1 .. Len(gs)
  OBVIOUS
<1>7. ASSUME NEW d \in Donors, e[d] > 0 PROVE Contains(gs, d)
  <2>1. CASE d = a
    <3>1. Len(fs) + 1 \in 1 .. Len(gs) BY <1>6
    <3> QED BY <1>6, <2>1, <3>1 DEF Contains
  <2>2. CASE d # a
    <3>1. Contains(fs, d) BY <1>4, <1>7, <2>2
    <3> QED BY <1>6, <3>1 DEF Contains
  <2> QED BY <2>1, <2>2
<1> DEFINE c == b + v
<1>8. c \in Nat /\ SumFunction(e) = c BY <1>5
<1> HIDE DEF e, gs, c
<1>9. Book(e, gs, c) \in Books BY <1>1, <1>6, <1>7, <1>8, Zenon DEF Books, Book
<1> QED BY <1>9 DEF e, gs, c

\* Once the loop has run over the funders nothing is recorded for anybody, and
\* that is what the contract holds after the payment.
LEMMA ResetBooks ==
  ASSUME NEW f \in [Donors -> Nat], NEW fs \in Seq(Donors), NEW b \in Nat,
         Book(f, fs, b) \in Books
  PROVE  Book(Zeroed(f, fs), <<>>, 0) \in Books
<1> DEFINE e == Zeroed(f, fs)
<1>1. /\ e \in [Donors -> Nat]
      /\ \A a \in Donors : IF Contains(fs, a) THEN e[a] = 0 ELSE e[a] = f[a]
  BY ResetLoop
<1>2. \A a \in Donors : f[a] > 0 => Contains(fs, a) BY DEF Books, Book
<1>3. \A a \in Donors : e[a] = 0
  <2> HIDE DEF e
  <2> QED BY <1>1, <1>2
<1>4. e = [a \in Donors |-> 0] BY <1>1, <1>3
<1> HIDE DEF e
<1>5. SumFunction(e) = 0 BY <1>1, <1>3, FundMeAssumption, SumZero
<1>6. Book(e, <<>>, 0) \in Books BY <1>1, <1>3, <1>5 DEF Books, Book
<1> QED BY <1>6 DEF e

\* Taking the last saved books off the stack.
LEMMA Unstack ==
  ASSUME NEW X, NEW s \in Seq(X), s # <<>>
  PROVE  Front(s) \in Seq(X) /\ Last(s) \in X
<1>1. Len(s) \in Nat /\ Len(s) >= 1 OBVIOUS
<1>2. Last(s) \in X BY <1>1 DEF Last
<1>3. Front(s) \in Seq(X) BY <1>1 DEF Front
<1> QED BY <1>2, <1>3

\* The contract starts empty.
LEMMA FundMeInitIInv == FundMeInit => FundMeIInv
<1> SUFFICES ASSUME FundMeInit PROVE FundMeIInv OBVIOUS
<1>1. s_addressToAmountFunded \in [Donors -> Nat] /\ \A a \in Donors : s_addressToAmountFunded[a] = 0
  BY DEF FundMeInit
<1>2. SumFunction(s_addressToAmountFunded) = 0
  BY <1>1, FundMeAssumption, SumZero
<1>3. Book(s_addressToAmountFunded, s_funders, fund_balance) \in Books
  BY <1>1, <1>2 DEF FundMeInit, Books, Book
<1> QED BY <1>3 DEF FundMeInit, FundMeIInv

\* Every step keeps the books and the saved ones.
LEMMA FundMeNextIInv == FundMeIInv /\ [FundMeNext]_fund_vars => FundMeIInv'
<1> SUFFICES ASSUME FundMeIInv, [FundMeNext]_fund_vars PROVE FundMeIInv' OBVIOUS
<1>1. /\ s_addressToAmountFunded \in [Donors -> Nat] /\ s_funders \in Seq(Donors)
      /\ fund_balance \in Nat
      /\ Book(s_addressToAmountFunded, s_funders, fund_balance) \in Books
      /\ withdrawal \in Seq(Books)
  BY DEF FundMeIInv, Books, Book
<1>2. ASSUME NEW a \in Donors, NEW v \in Donations, fund(a, v) PROVE FundMeIInv'
  <2>1. v \in Nat BY FundMeAssumption
  <2>2. Book(s_addressToAmountFunded', s_funders', fund_balance') \in Books
    BY <1>1, <1>2, <2>1, FundBooks, Zenon DEF fund
  <2> QED BY <1>1, <1>2, <2>2, Zenon DEF fund, FundMeIInv, Books, Book
<1>3. ASSUME withdraw PROVE FundMeIInv'
  <2>1. Book(s_addressToAmountFunded', s_funders', fund_balance') \in Books
    BY <1>1, <1>3, ResetBooks, ResetIsZeroed DEF withdraw
  <2>2. withdrawal' = Append(withdrawal, Book(s_addressToAmountFunded, s_funders, fund_balance))
    BY <1>3 DEF withdraw, Book
  <2>3. withdrawal' \in Seq(Books) BY <1>1, <2>2
  <2> QED BY <2>1, <2>3 DEF FundMeIInv, Books, Book
<1>4. ASSUME withdrawReturns PROVE FundMeIInv'
  <2>1. withdrawal' \in Seq(Books) BY <1>1, <1>4, Unstack DEF withdrawReturns
  <2> QED BY <1>1, <1>4, <2>1 DEF withdrawReturns, FundMeIInv, Books, Book
<1>5. ASSUME withdrawReverts PROVE FundMeIInv'
  <2>1. withdrawal' \in Seq(Books) /\ Last(withdrawal) \in Books
    BY <1>1, <1>5, Unstack DEF withdrawReverts
  <2>2. Book(s_addressToAmountFunded', s_funders', fund_balance') = Last(withdrawal)
    BY <1>5, <2>1 DEF withdrawReverts, Books, Book
  <2>3. Book(s_addressToAmountFunded', s_funders', fund_balance') \in Books BY <2>1, <2>2
  <2> QED BY <2>1, <2>3, Zenon DEF FundMeIInv, Books, Book
<1>6. ASSUME priceMoves PROVE FundMeIInv'
  BY <1>1, <1>6 DEF priceMoves, FundMeIInv, Books, Book
<1>7. CASE UNCHANGED fund_vars BY <1>1, <1>7 DEF fund_vars, FundMeIInv, Books, Book
<1> QED BY <1>2, <1>3, <1>4, <1>5, <1>6, <1>7 DEF FundMeNext

\* FundMe's books are those of its funders in every state it reaches, for any
\* set of donors, prices and donations, and however the owner's contract funds
\* and withdraws while it is being paid.
THEOREM FundersAreBooked == FundMeSpec => []FundsAreTheFunders
<1>1. FundMeIInv => FundsAreTheFunders BY DEF FundMeIInv, Books, Book, FundsAreTheFunders
<1> QED BY <1>1, FundMeInitIInv, FundMeNextIInv, PTL DEF FundMeSpec

-----------------------------------------------------------------------------
(* RebaseToken *)

\* A token of one chain, and a message that carries tokens to one.
Tokens20 ==
  [rate : Nat, rates : [Accounts20 -> Nat], updated : [Accounts20 -> Nat],
   principal : [Accounts20 -> Int], interest : Int]
Messages20 == [id : Nat, chain : Chains, receiver : Holders, amount : Nat, rate : Nat]

LEMMA Accounts20Finite ==
  IsFiniteSet(Accounts20) /\ ThePool \in Accounts20 /\ Holders \subseteq Accounts20
BY RebaseAssumption, FS_AddElement DEF Accounts20

\* balanceOf is a number.
LEMMA BalanceType ==
  ASSUME NEW t \in Tokens20, NEW u \in Accounts20, NEW at \in Nat
  PROVE  balanceOf(t, u, at) \in Int
<1>1. t.principal[u] \in Int /\ t.rates[u] \in Nat /\ t.updated[u] \in Nat BY DEF Tokens20
<1>2. PRECISION_FACTOR \in Nat /\ PRECISION_FACTOR > 0 BY RebaseAssumption
<1>3. accumulatedInterest(t, u, at) \in Int
  <2> DEFINE d == at - t.updated[u]
  <2>1. d \in Int BY <1>1
  <2> HIDE DEF d
  <2>2. t.rates[u] * d \in Int BY <1>1, <2>1
  <2>3. PRECISION_FACTOR + t.rates[u] * d \in Int BY <1>2, <2>2
  <2> QED BY <2>3 DEF accumulatedInterest, d
<1> DEFINE i == accumulatedInterest(t, u, at)
           p == t.principal[u] * i
<1> HIDE DEF i
<1>4. p \in Int BY <1>1, <1>3 DEF i
<1> HIDE DEF p
<1>5. p \div PRECISION_FACTOR \in Int BY <1>2, <1>4
<1> QED BY <1>5 DEF balanceOf, p, i

\* So is an amount, MAX or not.
LEMMA AmountType ==
  ASSUME NEW t \in Tokens20, NEW u \in Accounts20, NEW n \in Int, now \in Nat
  PROVE  amountOf(t, u, n) \in Int
BY BalanceType DEF amountOf

\* Writing one principal changes the sum of a token's principals by the
\* difference.
Put(f, u, v) == [f EXCEPT ![u] = v]

LEMMA PrincipalUpdate ==
  ASSUME NEW f \in [Accounts20 -> Int], NEW u \in Accounts20, NEW v \in Int
  PROVE  /\ Put(f, u, v) \in [Accounts20 -> Int]
         /\ SumFunction(Put(f, u, v)) = SumFunction(f) - f[u] + v
         /\ SumFunction(f) \in Int /\ f[u] \in Int
BY Accounts20Finite, SumUpdate, SumType, Zenon DEF Put

\* _mintAccruedInterest: what it mints is interest.
LEMMA AccrueKeeps ==
  ASSUME NEW t \in Tokens20, NEW u \in Accounts20, now \in Nat
  PROVE  /\ mintAccruedInterest(t, u) \in Tokens20
         /\ BroughtIn(mintAccruedInterest(t, u)) = BroughtIn(t)
         /\ BroughtIn(t) \in Int
<1> DEFINE b == balanceOf(t, u, now)
           f == t.principal
           i == t.interest + b - f[u]
           g == Put(f, u, b)
           r == mintAccruedInterest(t, u)
<1>1. b \in Int BY BalanceType
<1>2. f \in [Accounts20 -> Int] /\ t.interest \in Int /\ t.updated \in [Accounts20 -> Nat]
      /\ t.rate \in Nat /\ t.rates \in [Accounts20 -> Nat]
  BY DEF Tokens20
<1>3. SumFunction(g) = SumFunction(f) - f[u] + b /\ SumFunction(f) \in Int /\ f[u] \in Int
      /\ g \in [Accounts20 -> Int]
  <2> HIDE DEF b, f
  <2> QED BY <1>1, <1>2, PrincipalUpdate
<1>4. i \in Int /\ SumFunction(g) - i = SumFunction(f) - t.interest
  <2> HIDE DEF b, f, g
  <2> QED BY <1>1, <1>2, <1>3
<1>5. r = [t EXCEPT !.interest = i, !.principal = g, !.updated = Put(t.updated, u, now)]
  BY DEF mintAccruedInterest, Put, Tokens20
<1>6. Put(t.updated, u, now) \in [Accounts20 -> Nat] BY <1>2 DEF Put
<1> HIDE DEF g, i, r
<1>7. r \in Tokens20 BY <1>3, <1>4, <1>5, <1>6, Zenon DEF Tokens20
<1>8. r.principal = g /\ r.interest = i BY <1>5 DEF Tokens20
<1>9. BroughtIn(r) = SumFunction(g) - i /\ BroughtIn(t) = SumFunction(f) - t.interest
  BY <1>8 DEF BroughtIn, totalSupply
<1> HIDE DEF f
<1>10. BroughtIn(t) \in Int BY <1>2, <1>3, <1>9
<1> QED BY <1>4, <1>7, <1>9, <1>10 DEF r

\* Writing a principal after the interest was minted.
LEMMA PrincipalKeeps ==
  ASSUME NEW t \in Tokens20, NEW u \in Accounts20, NEW v \in Int
  PROVE  LET r == [t EXCEPT !.principal[u] = v]
         IN r \in Tokens20 /\ BroughtIn(r) = BroughtIn(t) - t.principal[u] + v
<1> DEFINE f == t.principal
           g == Put(f, u, v)
           r == [t EXCEPT !.principal[u] = v]
<1>1. f \in [Accounts20 -> Int] /\ t.interest \in Int BY DEF Tokens20
<1>2. SumFunction(g) = SumFunction(f) - f[u] + v /\ SumFunction(f) \in Int /\ f[u] \in Int
      /\ g \in [Accounts20 -> Int]
  <2> HIDE DEF f
  <2> QED BY <1>1, PrincipalUpdate
<1>3. r = [t EXCEPT !.principal = g] BY DEF Put, Tokens20
<1> HIDE DEF r, g
<1>4. r \in Tokens20 /\ r.principal = g /\ r.interest = t.interest BY <1>2, <1>3 DEF Tokens20
<1>5. BroughtIn(r) = SumFunction(g) - t.interest /\ BroughtIn(t) = SumFunction(f) - t.interest
  BY <1>4 DEF BroughtIn, totalSupply
<1>6. BroughtIn(r) = BroughtIn(t) - f[u] + v
  <2> HIDE DEF f
  <2> QED BY <1>1, <1>2, <1>5
<1> QED BY <1>4, <1>6 DEF r

\* Writing a user's rate.
LEMMA RateKeeps ==
  ASSUME NEW t \in Tokens20, NEW u \in Accounts20, NEW rate \in Nat
  PROVE  LET r == [t EXCEPT !.rates[u] = rate]
         IN r \in Tokens20 /\ BroughtIn(r) = BroughtIn(t) /\ r.principal = t.principal
<1> DEFINE r == [t EXCEPT !.rates[u] = rate]
<1>1. r \in Tokens20 /\ r.principal = t.principal /\ r.interest = t.interest BY DEF Tokens20
<1> HIDE DEF r
<1>2. BroughtIn(r) = BroughtIn(t) BY <1>1 DEF BroughtIn, totalSupply
<1> QED BY <1>1, <1>2 DEF r

\* RebaseToken.mint brings in the amount, whatever interest it mints on the way.
LEMMA MintBringsIn ==
  ASSUME NEW t \in Tokens20, NEW u \in Accounts20, NEW n \in Int, NEW rate \in Nat, now \in Nat
  PROVE  /\ mintToken(t, u, n, rate) \in Tokens20
         /\ BroughtIn(mintToken(t, u, n, rate)) = BroughtIn(t) + n
<1> DEFINE a == mintAccruedInterest(t, u)
           s == [a EXCEPT !.rates[u] = rate]
           v == s.principal[u] + n
<1>1. a \in Tokens20 /\ BroughtIn(a) = BroughtIn(t) /\ BroughtIn(t) \in Int BY AccrueKeeps
<1> HIDE DEF a
<1>2. s \in Tokens20 /\ BroughtIn(s) = BroughtIn(a) BY <1>1, RateKeeps
<1>3. mintToken(t, u, n, rate) = [s EXCEPT !.principal[u] = v]
  BY <1>1 DEF mintToken, a, Tokens20
<1> HIDE DEF s
<1>4. s.principal[u] \in Int /\ v \in Int BY <1>2 DEF Tokens20
<1> HIDE DEF v
<1>5. mintToken(t, u, n, rate) \in Tokens20
      /\ BroughtIn(mintToken(t, u, n, rate)) = BroughtIn(s) - s.principal[u] + v
  BY <1>2, <1>3, <1>4, PrincipalKeeps
<1> QED BY <1>1, <1>2, <1>4, <1>5 DEF v

\* RebaseToken.burn takes the amount out, or the whole balance.
LEMMA BurnTakesOut ==
  ASSUME NEW t \in Tokens20, NEW u \in Accounts20, NEW n \in Int, now \in Nat
  PROVE  /\ burnToken(t, u, n) \in Tokens20
         /\ BroughtIn(burnToken(t, u, n)) = BroughtIn(t) - amountOf(t, u, n)
<1> DEFINE a == mintAccruedInterest(t, u)
           k == amountOf(t, u, n)
           v == a.principal[u] - k
<1>0. k \in Int BY AmountType
<1>1. a \in Tokens20 /\ BroughtIn(a) = BroughtIn(t) /\ BroughtIn(t) \in Int BY AccrueKeeps
<1>2. burnToken(t, u, n) = [a EXCEPT !.principal[u] = v] BY DEF burnToken
<1> HIDE DEF a, k
<1>3. a.principal[u] \in Int /\ v \in Int BY <1>0, <1>1 DEF Tokens20
<1> HIDE DEF v
<1>4. [a EXCEPT !.principal[u] = v] \in Tokens20
      /\ BroughtIn([a EXCEPT !.principal[u] = v]) = BroughtIn(a) - a.principal[u] + v
  BY <1>1, <1>3, PrincipalKeeps
<1>5. BroughtIn(a) - a.principal[u] + v = BroughtIn(t) - k BY <1>0, <1>1, <1>3 DEF v
<1> QED BY <1>2, <1>4, <1>5 DEF k

\* transfer and transferFrom stamp both users and move the amount: a transfer
\* to oneself included, nothing is made or lost.
LEMMA TransferKeeps ==
  ASSUME NEW t \in Tokens20, NEW from \in Accounts20, NEW to \in Accounts20,
         NEW n \in Nat, now \in Nat
  PROVE  /\ transferToken(t, from, to, n) \in Tokens20
         /\ BroughtIn(transferToken(t, from, to, n)) = BroughtIn(t)
         /\ BroughtIn(t) \in Int
<1> DEFINE a == mintAccruedInterest(t, from)
           s == mintAccruedInterest(a, to)
           m == amountOf(s, from, n)
           r == IF balanceOf(s, to, now) = 0 THEN [s EXCEPT !.rates[to] = s.rates[from]] ELSE s
           p == [r EXCEPT !.principal[from] = r.principal[from] - m]
           q == [p EXCEPT !.principal[to] = p.principal[to] + m]
<1>0. transferToken(t, from, to, n) = q BY DEF transferToken, Stamped
<1>1. a \in Tokens20 /\ BroughtIn(a) = BroughtIn(t) /\ BroughtIn(t) \in Int BY AccrueKeeps
<1> HIDE DEF a
<1>2. s \in Tokens20 /\ BroughtIn(s) = BroughtIn(a) BY <1>1, AccrueKeeps
<1> HIDE DEF s
<1>3. m \in Int BY <1>2, AmountType
<1>4. r \in Tokens20 /\ BroughtIn(r) = BroughtIn(s)
  <2>1. s.rates[from] \in Nat BY <1>2 DEF Tokens20
  <2> QED BY <1>2, <2>1, RateKeeps
<1> HIDE DEF r, m
<1>5. r.principal[from] \in Int BY <1>4 DEF Tokens20
<1>6. p \in Tokens20 /\ BroughtIn(p) = BroughtIn(r) - m
  <2> DEFINE v == r.principal[from] - m
  <2>1. v \in Int BY <1>3, <1>5
  <2> HIDE DEF v
  <2>2. [r EXCEPT !.principal[from] = v] \in Tokens20
        /\ BroughtIn([r EXCEPT !.principal[from] = v]) = BroughtIn(r) - r.principal[from] + v
    BY <1>4, <2>1, PrincipalKeeps
  <2>3. BroughtIn(r) \in Int BY <1>1, <1>2, <1>4
  <2>4. BroughtIn(r) - r.principal[from] + v = BroughtIn(r) - m BY <1>3, <1>5, <2>3 DEF v
  <2> QED BY <2>2, <2>4 DEF v
<1> HIDE DEF p
<1>7. p.principal[to] \in Int BY <1>6 DEF Tokens20
<1>8. q \in Tokens20 /\ BroughtIn(q) = BroughtIn(p) + m
  <2> DEFINE v == p.principal[to] + m
  <2>1. v \in Int BY <1>3, <1>7
  <2> HIDE DEF v
  <2>2. [p EXCEPT !.principal[to] = v] \in Tokens20
        /\ BroughtIn([p EXCEPT !.principal[to] = v]) = BroughtIn(p) - p.principal[to] + v
    BY <1>6, <2>1, PrincipalKeeps
  <2>3. BroughtIn(p) \in Int BY <1>1, <1>2, <1>3, <1>4, <1>6
  <2>4. BroughtIn(p) - p.principal[to] + v = BroughtIn(p) + m BY <1>3, <1>7, <2>3 DEF v
  <2> QED BY <2>2, <2>4 DEF v
<1> HIDE DEF q
<1> QED BY <1>0, <1>1, <1>2, <1>3, <1>4, <1>6, <1>8

\* A message that is sent adds its amount to what is under way.
LEMMA CarriedSend ==
  ASSUME NEW ms \in SUBSET Messages20, IsFiniteSet(ms), NEW m \in Messages20, m \notin ms
  PROVE  IsFiniteSet(ms \cup {m}) /\ Carried(ms \cup {m}) = Carried(ms) + m.amount /\ Carried(ms) \in Int
<1> DEFINE S == ms \cup {m}
           f == [x \in S |-> x.amount]
           g == [x \in ms |-> x.amount]
<1>1. IsFiniteSet(S) /\ m \in S /\ S \ {m} = ms BY FS_AddElement
<1>2. f \in [S -> Int] /\ g \in [ms -> Int] /\ f[m] = m.amount /\ m.amount \in Int
  BY DEF Messages20
<1>3. [y \in S \ {m} |-> f[y]] = g BY <1>1
<1>4. SumFunction(f) = f[m] + SumFunction([y \in S \ {m} |-> f[y]])
  <2> HIDE DEF f, S
  <2> QED BY <1>1, <1>2, SumWithout
<1>5. SumFunction(g) \in Int
  <2> HIDE DEF g
  <2> QED BY <1>2, SumType
<1>6. Carried(S) = SumFunction(f) /\ Carried(ms) = SumFunction(g) BY DEF Carried
<1> HIDE DEF f, g, S
<1>7. Carried(S) = Carried(ms) + m.amount BY <1>2, <1>3, <1>4, <1>5, <1>6
<1> QED BY <1>1, <1>5, <1>6, <1>7 DEF S

\* A message that arrives takes its amount away from it.
LEMMA CarriedArrive ==
  ASSUME NEW ms \in SUBSET Messages20, IsFiniteSet(ms), NEW m \in ms
  PROVE  IsFiniteSet(ms \ {m}) /\ Carried(ms \ {m}) = Carried(ms) - m.amount /\ Carried(ms) \in Int
<1>1. IsFiniteSet(ms \ {m}) /\ ms \ {m} \in SUBSET Messages20 /\ m \in Messages20
      /\ m \notin ms \ {m} /\ (ms \ {m}) \cup {m} = ms
  BY FS_RemoveElement
<1> DEFINE T == ms \ {m}
<1> HIDE DEF T
<1>2. Carried(T \cup {m}) = Carried(T) + m.amount /\ Carried(T) \in Int
  BY <1>1, CarriedSend DEF T
<1>3. m.amount \in Int BY <1>1 DEF Messages20
<1>4. Carried(ms) = Carried(T) + m.amount BY <1>1, <1>2 DEF T
<1>5. Carried(ms) \in Int /\ Carried(T) = Carried(ms) - m.amount BY <1>2, <1>3, <1>4
<1> QED BY <1>1, <1>5 DEF T

\* The totals of the vault.
Vaults == [held : Int, deposited : Int, redeemed : Int, rewards : Int]

\* The accounts balance, and everything counted is a number.
RebaseIInv ==
  /\ tokens \in [Chains -> Tokens20]
  /\ now \in Nat
  /\ vault \in Vaults
  /\ messages \in SUBSET Messages20 /\ IsFiniteSet(messages)
  /\ unburned \in Int
  /\ TokensAreAccountedFor

\* Moving the totals of the vault.
LEMMA VaultMoves ==
  ASSUME NEW v \in Vaults, NEW h \in Int, NEW d \in Int, NEW r \in Int, NEW w \in Int,
         NEW v2, v2 = [held |-> h, deposited |-> d, redeemed |-> r, rewards |-> w]
  PROVE  v2 \in Vaults /\ v2.held = h /\ v2.deposited = d /\ v2.redeemed = r /\ v2.rewards = w
BY DEF Vaults

\* Nothing exists before the first deposit.
LEMMA RebaseInitIInv == RebaseInit => RebaseIInv
<1> SUFFICES ASSUME RebaseInit PROVE RebaseIInv OBVIOUS
<1> DEFINE z == [u \in Accounts20 |-> 0]
           t0 == [rate |-> InitialRate, rates |-> z, updated |-> z, principal |-> z, interest |-> 0]
<1>1. tokens = [c \in Chains |-> t0] BY DEF RebaseInit
<1>2. z \in [Accounts20 -> Nat] /\ z \in [Accounts20 -> Int] /\ SumFunction(z) = 0
  BY Accounts20Finite, SumZero
<1> HIDE DEF z
<1>3. t0 \in Tokens20 /\ BroughtIn(t0) = 0
  <2>1. t0 \in Tokens20 BY <1>2, RebaseAssumption DEF Tokens20
  <2>2. BroughtIn(t0) = SumFunction(z) - 0 BY DEF BroughtIn, totalSupply
  <2> QED BY <1>2, <2>1, <2>2
<1> HIDE DEF t0
<1>4. tokens \in [Chains -> Tokens20] /\ BroughtIn(tokens[Home]) = 0 /\ BroughtIn(tokens["remote"]) = 0
  BY <1>1, <1>3 DEF Chains
<1>5. IsFiniteSet(messages) /\ Carried(messages) = 0
  <2>1. messages = {} /\ IsFiniteSet({}) BY FS_EmptySet DEF RebaseInit
  <2> DEFINE e == [m \in {} |-> m.amount]
  <2>2. e = [m \in {} |-> 0] OBVIOUS
  <2>3. Carried({}) = SumFunction(e) BY DEF Carried
  <2>4. SumFunction([m \in {} |-> 0]) = 0 BY <2>1, SumZero, Zenon
  <2> QED BY <2>1, <2>2, <2>3, <2>4
<1>6. vault \in Vaults /\ vault.held = 0 /\ vault.deposited = 0 /\ vault.redeemed = 0 /\ vault.rewards = 0
  BY DEF RebaseInit, Vaults
<1>7. unburned = 0 BY DEF RebaseInit
<1>8. TokensAreAccountedFor BY <1>4, <1>5, <1>6, <1>7 DEF TokensAreAccountedFor
<1> QED BY <1>4, <1>5, <1>6, <1>7, <1>8 DEF RebaseInit, RebaseIInv

\* Both chains together.
BroughtInAll(ts) == BroughtIn(ts[Home]) + BroughtIn(ts["remote"])

LEMMA BroughtInType == ASSUME NEW t \in Tokens20 PROVE BroughtIn(t) \in Int
<1>1. t.principal \in [Accounts20 -> Int] /\ t.interest \in Int BY DEF Tokens20
<1>2. SumFunction(t.principal) \in Int BY <1>1, Accounts20Finite, SumType
<1> QED BY <1>1, <1>2 DEF BroughtIn, totalSupply

\* What a transaction brings in on one chain it brings in altogether.
On(ts, c, t) == [ts EXCEPT ![c] = t]

LEMMA OneChain ==
  ASSUME NEW ts \in [Chains -> Tokens20], NEW c \in Chains, NEW t \in Tokens20
  PROVE  /\ On(ts, c, t) \in [Chains -> Tokens20]
         /\ BroughtInAll(On(ts, c, t)) = BroughtInAll(ts) - BroughtIn(ts[c]) + BroughtIn(t)
         /\ BroughtInAll(ts) \in Int /\ BroughtIn(ts[c]) \in Int /\ BroughtIn(t) \in Int
<1> DEFINE us == On(ts, c, t)
<1>0. Home \in Chains /\ "remote" \in Chains /\ Home # "remote" BY DEF Chains, Home
<1>1. us \in [Chains -> Tokens20] /\ us[c] = t /\ \A d \in Chains : d # c => us[d] = ts[d] BY DEF On
<1> HIDE DEF us
<1>2. \A d \in Chains : BroughtIn(ts[d]) \in Int /\ BroughtIn(us[d]) \in Int BY <1>1, BroughtInType
<1>3. c = Home \/ c = "remote" BY DEF Chains
<1>4. BroughtInAll(us) = BroughtInAll(ts) - BroughtIn(ts[c]) + BroughtIn(t)
  <2>1. CASE c = Home BY <1>0, <1>1, <1>2, <2>1 DEF BroughtInAll
  <2>2. CASE c = "remote" BY <1>0, <1>1, <1>2, <2>2 DEF BroughtInAll
  <2> QED BY <1>3, <2>1, <2>2
<1>5. BroughtInAll(ts) \in Int /\ BroughtIn(ts[c]) \in Int /\ BroughtIn(t) \in Int
  BY <1>0, <1>2, BroughtInType DEF BroughtInAll
<1> QED BY <1>1, <1>4, <1>5 DEF us

\* The invariant in these terms.
Balanced(ts, ms, v, x) ==
  /\ BroughtInAll(ts) + Carried(ms) = v.deposited - v.redeemed + x
  /\ v.held = v.deposited + v.rewards - v.redeemed

LEMMA BalancedIsInvariant ==
  /\ TokensAreAccountedFor <=> Balanced(tokens, messages, vault, unburned)
  /\ TokensAreAccountedFor' <=> Balanced(tokens', messages', vault', unburned')
BY DEF TokensAreAccountedFor, Balanced, BroughtInAll

\* Every transaction keeps the accounts: one case per transaction.
LEMMA TransactionIInv ==
  ASSUME RebaseIInv, Transaction
  PROVE  RebaseIInv'
<1> DEFINE Goal == /\ tokens' \in [Chains -> Tokens20] /\ now' \in Nat /\ vault' \in Vaults
                   /\ messages' \in SUBSET Messages20 /\ IsFiniteSet(messages') /\ unburned' \in Int
                   /\ Balanced(tokens', messages', vault', unburned')
<1>1. /\ tokens \in [Chains -> Tokens20] /\ now \in Nat /\ vault \in Vaults
      /\ messages \in SUBSET Messages20 /\ IsFiniteSet(messages) /\ unburned \in Int
      /\ Balanced(tokens, messages, vault, unburned)
  BY BalancedIsInvariant DEF RebaseIInv
<1>2. Goal => RebaseIInv' BY BalancedIsInvariant DEF RebaseIInv
<1>3. Home \in Chains /\ tokens[Home] \in Tokens20 BY <1>1 DEF Chains
<1>4. Holders \subseteq Accounts20 /\ ThePool \in Accounts20 BY Accounts20Finite
<1>5. /\ vault.deposited \in Int /\ vault.redeemed \in Int /\ vault.held \in Int /\ vault.rewards \in Int
      /\ BroughtInAll(tokens) \in Int
  BY <1>1, <1>3, OneChain DEF Vaults
<1>6. Carried(messages) \in Int
  <2> DEFINE g == [x \in messages |-> x.amount]
  <2>1. g \in [messages -> Int] BY <1>1 DEF Messages20
  <2> HIDE DEF g
  <2>2. SumFunction(g) \in Int BY <1>1, <2>1, SumType
  <2> QED BY <2>2 DEF g, Carried
<1>7. ASSUME NEW r \in LowerRates, setInterestRate(r) PROVE Goal
  <2> DEFINE t == [tokens[Home] EXCEPT !.rate = r]
  <2>1. r \in Nat BY RebaseAssumption
  <2>2. t \in Tokens20 /\ t.principal = tokens[Home].principal /\ t.interest = tokens[Home].interest
    BY <1>3, <2>1 DEF Tokens20
  <2>3. tokens' = On(tokens, Home, t) BY <1>7 DEF setInterestRate, On
  <2> HIDE DEF t
  <2>4. BroughtIn(t) = BroughtIn(tokens[Home]) BY <2>2 DEF BroughtIn, totalSupply
  <2>5. tokens' \in [Chains -> Tokens20] /\ BroughtInAll(tokens') = BroughtInAll(tokens)
    BY <1>1, <1>3, <2>2, <2>3, <2>4, OneChain
  <2> QED BY <1>1, <1>7, <2>5 DEF setInterestRate, Balanced
<1>8. ASSUME NEW c \in Chains, NEW from \in Holders, NEW to \in Accounts20, NEW n \in TokenAmounts \cup {MAX},
             transferTokens(c, from, to, n)
      PROVE  Goal
  <2> DEFINE t == transferToken(tokens[c], from, to, n)
  <2>1. n \in Nat /\ tokens[c] \in Tokens20 BY <1>1, RebaseAssumption, Zenon
  <2>2. t \in Tokens20 /\ BroughtIn(t) = BroughtIn(tokens[c]) BY <1>1, <1>4, <2>1, TransferKeeps
  <2>3. tokens' = On(tokens, c, t) BY <1>8 DEF transferTokens, On
  <2> HIDE DEF t
  <2>4. tokens' \in [Chains -> Tokens20] /\ BroughtInAll(tokens') = BroughtInAll(tokens)
    BY <1>1, <2>2, <2>3, OneChain
  <2> QED BY <1>1, <1>8, <2>4 DEF transferTokens, Balanced
<1>9. ASSUME NEW u \in Holders, NEW n \in TokenAmounts, deposit(u, n) PROVE Goal
  <2> DEFINE t == mintToken(tokens[Home], u, n, tokens[Home].rate)
  <2>1. n \in Nat /\ n \in Int /\ tokens[Home].rate \in Nat
    <3>1. n \in Nat BY RebaseAssumption
    <3>2. tokens[Home].rate \in Nat BY ONLY <1>3 DEF Tokens20
    <3> QED BY ONLY <3>1, <3>2
  <2>2. t \in Tokens20 /\ BroughtIn(t) = BroughtIn(tokens[Home]) + n
    BY <1>1, <1>3, <1>4, <2>1, MintBringsIn
  <2>3. tokens' = On(tokens, Home, t) BY <1>9 DEF deposit, On
  <2> HIDE DEF t
  <2>4. tokens' \in [Chains -> Tokens20] /\ BroughtInAll(tokens') = BroughtInAll(tokens) + n
    BY <1>1, <1>3, <2>1, <2>2, <2>3, OneChain
  <2>5. vault' \in Vaults /\ vault'.held = vault.held + n /\ vault'.deposited = vault.deposited + n
        /\ vault'.redeemed = vault.redeemed /\ vault'.rewards = vault.rewards
    <3> DEFINE h == vault.held + n
               d == vault.deposited + n
    <3>1. vault' = [held |-> h, deposited |-> d, redeemed |-> vault.redeemed, rewards |-> vault.rewards]
      BY <1>1, <1>9, Zenon DEF deposit, Vaults
    <3>2. h \in Int /\ d \in Int BY <1>5, <2>1
    <3> HIDE DEF h, d
    <3>3. vault' \in Vaults /\ vault'.held = h /\ vault'.deposited = d
          /\ vault'.redeemed = vault.redeemed /\ vault'.rewards = vault.rewards
      BY <1>1, <1>5, <3>1, <3>2, VaultMoves
    <3> QED BY <3>3 DEF h, d
  <2>6. Balanced(tokens', messages', vault', unburned')
    BY <1>1, <1>5, <1>6, <1>9, <2>1, <2>4, <2>5 DEF deposit, Balanced
  <2> QED BY <1>1, <1>9, <2>4, <2>5, <2>6 DEF deposit
<1>10. ASSUME NEW u \in Holders, NEW a \in TokenAmounts \cup {MAX}, redeem(u, a) PROVE Goal
  <2> DEFINE n == amountOf(tokens[Home], u, a)
             t == burnToken(tokens[Home], u, n)
  <2>1. n \in Int /\ amountOf(tokens[Home], u, n) = n
    <3>1. a \in Int BY RebaseAssumption
    <3>2. n \in Int BY <1>1, <1>3, <1>4, <3>1, AmountType
    <3> QED BY <3>2 DEF amountOf
  <2>3. tokens' = On(tokens, Home, t)
        /\ vault' = [vault EXCEPT !.held = @ - n, !.redeemed = @ + n]
    BY <1>10 DEF redeem, On
  <2> HIDE DEF n
  <2>2. t \in Tokens20 /\ BroughtIn(t) = BroughtIn(tokens[Home]) - n
    BY <1>1, <1>3, <1>4, <2>1, BurnTakesOut
  <2> HIDE DEF t
  <2>4. tokens' \in [Chains -> Tokens20] /\ BroughtInAll(tokens') = BroughtInAll(tokens) - n
    BY <1>1, <1>3, <2>1, <2>2, <2>3, OneChain
  <2>5. vault' \in Vaults /\ vault'.held = vault.held - n /\ vault'.deposited = vault.deposited
        /\ vault'.redeemed = vault.redeemed + n /\ vault'.rewards = vault.rewards
    <3> DEFINE h == vault.held - n
               d == vault.redeemed + n
    <3>1. vault' = [held |-> h, deposited |-> vault.deposited, redeemed |-> d, rewards |-> vault.rewards]
      BY <1>1, <2>3, Zenon DEF Vaults
    <3>2. h \in Int /\ d \in Int BY <1>5, <2>1
    <3> HIDE DEF h, d
    <3>3. vault' \in Vaults /\ vault'.held = h /\ vault'.deposited = vault.deposited
          /\ vault'.redeemed = d /\ vault'.rewards = vault.rewards
      BY <1>1, <1>5, <3>1, <3>2, VaultMoves
    <3> QED BY <3>3 DEF h, d
  <2>6. Balanced(tokens', messages', vault', unburned')
    BY <1>1, <1>5, <1>6, <1>10, <2>1, <2>4, <2>5 DEF redeem, Balanced
  <2> QED BY <1>1, <1>10, <2>4, <2>5, <2>6 DEF redeem
<1>11. ASSUME NEW n \in TokenAmounts, receive(n) PROVE Goal
  <2>1. n \in Int BY RebaseAssumption
  <2>2. vault' \in Vaults /\ vault'.held = vault.held + n /\ vault'.deposited = vault.deposited
        /\ vault'.redeemed = vault.redeemed /\ vault'.rewards = vault.rewards + n
    <3> DEFINE h == vault.held + n
               d == vault.rewards + n
    <3>1. vault' = [held |-> h, deposited |-> vault.deposited, redeemed |-> vault.redeemed, rewards |-> d]
      BY <1>1, <1>11, Zenon DEF receive, Vaults
    <3>2. h \in Int /\ d \in Int BY <1>5, <2>1
    <3> HIDE DEF h, d
    <3>3. vault' \in Vaults /\ vault'.held = h /\ vault'.deposited = vault.deposited
          /\ vault'.redeemed = vault.redeemed /\ vault'.rewards = d
      BY <1>1, <1>5, <3>1, <3>2, VaultMoves
    <3> QED BY <3>3 DEF h, d
  <2>3. Balanced(tokens', messages', vault', unburned')
    BY <1>1, <1>5, <1>11, <2>1, <2>2 DEF receive, Balanced
  <2> QED BY <1>1, <1>11, <2>2, <2>3 DEF receive
<1>12. ASSUME NEW c \in Chains, NEW from \in Holders, NEW to \in Holders, NEW n \in TokenAmounts \cup {MAX},
              ccipSend(c, from, to, n)
       PROVE  Goal
  <2> DEFINE moved == transferToken(tokens[c], from, ThePool, n)
             t == burnToken(moved, ThePool, n)
             k == amountOf(moved, ThePool, n)
             m(id) == [id |-> id, chain |-> CHOOSE d \in Chains : d # c, receiver |-> to,
                       amount |-> n, rate |-> moved.rates[from]]
  <2>1. n \in Nat /\ n \in Int /\ tokens[c] \in Tokens20
    <3>1. n \in Nat BY RebaseAssumption
    <3>2. tokens[c] \in Tokens20 BY <1>1
    <3> QED BY ONLY <3>1, <3>2
  <2>2. moved \in Tokens20 /\ BroughtIn(moved) = BroughtIn(tokens[c])
    BY <1>1, <1>4, <2>1, TransferKeeps
  <2>3. PICK id \in 1 .. MaxMessages : /\ \A x \in messages : x.id # id
                                      /\ messages' = messages \cup {m(id)}
    BY <1>12, Zenon DEF ccipSend
  <2>4. tokens' = On(tokens, c, t) /\ now' = now /\ vault' = vault /\ unburned' = unburned + n - k
    BY <1>12 DEF ccipSend, lockOrBurn, On
  <2> HIDE DEF moved
  <2>5. t \in Tokens20 /\ BroughtIn(t) = BroughtIn(tokens[c]) - k /\ k \in Int
    BY <1>1, <1>4, <2>1, <2>2, BurnTakesOut, AmountType, Zenon
  <2> HIDE DEF t, k
  <2>6. tokens' \in [Chains -> Tokens20] /\ BroughtInAll(tokens') = BroughtInAll(tokens) - k
    BY <1>1, <2>1, <2>4, <2>5, OneChain
  <2>7. m(id) \in Messages20 /\ m(id) \notin messages /\ m(id).amount = n
    <3>1. \E d \in Chains : d # c BY DEF Chains, Home
    <3>2. (CHOOSE d \in Chains : d # c) \in Chains BY <3>1
    <3>3. moved.rates[from] \in Nat BY <1>4, <2>2 DEF Tokens20
    <3>4. id \in Nat OBVIOUS
    <3>5. m(id).id = id OBVIOUS
    <3> QED BY <2>1, <2>3, <3>2, <3>3, <3>4, <3>5, Zenon DEF Messages20
  <2> HIDE DEF m
  <2>8. messages' \in SUBSET Messages20 /\ IsFiniteSet(messages')
        /\ Carried(messages') = Carried(messages) + n
    BY <1>1, <2>3, <2>7, CarriedSend
  <2>9. Balanced(tokens', messages', vault', unburned')
    BY <1>1, <1>5, <1>6, <2>1, <2>4, <2>5, <2>6, <2>8 DEF Balanced
  <2>10. unburned' \in Int BY <1>1, <2>1, <2>4, <2>5
  <2> QED BY <1>1, <2>4, <2>6, <2>8, <2>9, <2>10
<1>13. ASSUME NEW m \in messages, releaseOrMint(m) PROVE Goal
  <2> DEFINE c == m.chain
             t == mintToken(tokens[c], m.receiver, m.amount, m.rate)
  <2>1. /\ c \in Chains /\ tokens[c] \in Tokens20 /\ m.receiver \in Accounts20
        /\ m.amount \in Int /\ m.rate \in Nat
    BY <1>1, <1>4 DEF Messages20
  <2>2. tokens' = On(tokens, c, t) /\ messages' = messages \ {m} /\ now' = now /\ vault' = vault
        /\ unburned' = unburned
    BY <1>13 DEF releaseOrMint, On
  <2>3. t \in Tokens20 /\ BroughtIn(t) = BroughtIn(tokens[c]) + m.amount
    BY <1>1, <2>1, MintBringsIn
  <2> HIDE DEF c, t
  <2>4. tokens' \in [Chains -> Tokens20] /\ BroughtInAll(tokens') = BroughtInAll(tokens) + m.amount
    <3>1. /\ On(tokens, c, t) \in [Chains -> Tokens20]
          /\ BroughtInAll(On(tokens, c, t)) = BroughtInAll(tokens) - BroughtIn(tokens[c]) + BroughtIn(t)
          /\ BroughtIn(tokens[c]) \in Int
      BY <1>1, <2>1, <2>3, OneChain
    <3>2. BroughtInAll(tokens) - BroughtIn(tokens[c]) + BroughtIn(t) = BroughtInAll(tokens) + m.amount
      BY <1>5, <2>1, <2>3, <3>1
    <3> QED BY <2>2, <3>1, <3>2
  <2>5. messages' \in SUBSET Messages20 /\ IsFiniteSet(messages')
        /\ Carried(messages') = Carried(messages) - m.amount
    BY <1>1, <2>2, CarriedArrive
  <2>6. Balanced(tokens', messages', vault', unburned')
    BY <1>1, <1>5, <1>6, <2>1, <2>2, <2>4, <2>5 DEF Balanced
  <2> QED BY <1>1, <2>2, <2>4, <2>5, <2>6
<1> HIDE DEF Goal
<1>14. Goal BY <1>7, <1>8, <1>9, <1>10, <1>11, <1>12, <1>13 DEF Transaction
<1> QED BY <1>2, <1>14

\* RebaseToken, its vault and its pools keep the accounts of both chains for
\* any holders, rates and amounts, any number of transactions and messages, and
\* any order in which the messages arrive; a bridge transfer of MAX enters them
\* with what its message carries beyond the tokens burned.
THEOREM TokensAccounted == RebaseSpec => []TokensAreAccountedFor
<1>1. RebaseIInv /\ [RebaseNext]_rebase_vars => RebaseIInv'
  <2> SUFFICES ASSUME RebaseIInv, [RebaseNext]_rebase_vars PROVE RebaseIInv' OBVIOUS
  <2>1. CASE Transaction BY <2>1, TransactionIInv
  <2>2. CASE passTime
    BY <2>2 DEF passTime, RebaseIInv, TokensAreAccountedFor
  <2>3. CASE UNCHANGED rebase_vars
    BY <2>3 DEF rebase_vars, RebaseIInv, TokensAreAccountedFor
  <2> QED BY <2>1, <2>2, <2>3 DEF RebaseNext
<1>2. RebaseIInv => TokensAreAccountedFor BY DEF RebaseIInv
<1> QED BY <1>1, <1>2, RebaseInitIInv, PTL DEF RebaseSpec

\* The state of a token at a time: principals are not negative, nobody was
\* stamped in the future, and who was never stamped has no tokens.
Sound(t, at) ==
  /\ t \in Tokens20
  /\ \A u \in Accounts20 :
       /\ t.principal[u] \in Nat /\ t.updated[u] <= at
       /\ t.updated[u] = 0 => t.principal[u] = 0

\* One user's entries are the same in both.
SameUser(t, r, u) ==
  r.principal[u] = t.principal[u] /\ r.updated[u] = t.updated[u] /\ r.rates[u] = t.rates[u]

\* Then the balance is the same too.
LEMMA SameBalance ==
  ASSUME NEW t, NEW r, NEW u, SameUser(t, r, u), NEW at
  PROVE  balanceOf(r, u, at) = balanceOf(t, u, at)
BY DEF SameUser, balanceOf, accumulatedInterest

\* The rounded division undoes the product.
LEMMA DivExact ==
  ASSUME NEW p \in Nat, NEW n \in Nat \ {0}
  PROVE  (p * n) \div n = p
<1> DEFINE z == p * n
           d == z \div n
<1>1. z \in Nat /\ z >= 0 OBVIOUS
<1>2. d \in Int /\ n * d <= z /\ z < n * d + n
  <2> HIDE DEF z
  <2> QED BY <1>1
<1> HIDE DEF d
<1>3. d <= p
  <2> SUFFICES ASSUME d >= p + 1 PROVE FALSE BY <1>2
  <2>1. n * d >= n * (p + 1) BY <1>2
  <2>2. n * (p + 1) = z + n OBVIOUS
  <2> QED BY <1>1, <1>2, <2>1, <2>2
<1>4. d >= p
  <2> SUFFICES ASSUME d <= p - 1 PROVE FALSE BY <1>2
  <2>1. n * d <= n * (p - 1) BY <1>2
  <2>2. n * (p - 1) = z - n OBVIOUS
  <2> QED BY <1>1, <1>2, <2>1, <2>2
<1> QED BY <1>2, <1>3, <1>4 DEF d, z

\* The rounded division grows with what is divided.
LEMMA DivMonotone ==
  ASSUME NEW x \in Nat, NEW y \in Nat, x <= y, NEW n \in Nat \ {0}
  PROVE  x \div n \in Nat /\ x \div n <= y \div n
<1> DEFINE d == x \div n
           e == y \div n
<1>1. d \in Int /\ n * d <= x /\ x < n * d + n OBVIOUS
<1>2. e \in Int /\ n * e <= y /\ y < n * e + n OBVIOUS
<1> HIDE DEF d, e
<1>3. d >= 0
  <2> SUFFICES ASSUME d <= -1 PROVE FALSE BY <1>1
  <2>1. n * d <= n * (-1) BY <1>1
  <2> QED BY <1>1, <2>1
<1>4. d <= e
  <2> SUFFICES ASSUME d >= e + 1 PROVE FALSE BY <1>1, <1>2
  <2>1. n * d >= n * (e + 1) BY <1>1, <1>2
  <2>2. n * (e + 1) = n * e + n BY <1>2
  <2> QED BY <1>1, <1>2, <2>1, <2>2
<1> QED BY <1>1, <1>3, <1>4 DEF d, e

\* The product grows with its second factor.
LEMMA TimesMonotone ==
  ASSUME NEW p \in Nat, NEW a \in Nat, NEW b \in Nat, a <= b
  PROVE  p * a \in Nat /\ p * b \in Nat /\ p * a <= p * b
<1> DEFINE d == b - a
<1>1. d \in Nat /\ b = a + d OBVIOUS
<1> HIDE DEF d
<1>2. p * (a + d) = p * a + p * d BY <1>1
<1>3. p * a \in Nat /\ p * b \in Nat /\ p * d \in Nat BY <1>1
<1> QED BY <1>1, <1>2, <1>3

\* The interest factor is at least one, and grows with time.
LEMMA FactorGrows ==
  ASSUME NEW t, NEW at \in Nat, Sound(t, at), NEW u \in Accounts20, t.updated[u] # 0
  PROVE  /\ accumulatedInterest(t, u, at) \in Nat /\ accumulatedInterest(t, u, at + 1) \in Nat
         /\ PRECISION_FACTOR <= accumulatedInterest(t, u, at)
         /\ accumulatedInterest(t, u, at) <= accumulatedInterest(t, u, at + 1)
<1> DEFINE d == at - t.updated[u]
           n == PRECISION_FACTOR
           r == t.rates[u]
<1>1. t.updated[u] \in Nat /\ t.updated[u] <= at /\ r \in Nat /\ n \in Nat BY RebaseAssumption DEF Sound, Tokens20
<1>2. d \in Nat /\ (at + 1) - t.updated[u] = d + 1 BY <1>1
<1>3. accumulatedInterest(t, u, at) = n + r * d /\ accumulatedInterest(t, u, at + 1) = n + r * (d + 1)
  BY <1>2 DEF accumulatedInterest
<1> HIDE DEF d, n, r
<1>4. r * d \in Nat /\ r * (d + 1) \in Nat /\ r * d <= r * (d + 1)
  <2>1. d + 1 \in Nat /\ d <= d + 1 BY <1>2
  <2> QED BY <1>1, <1>2, <2>1, TimesMonotone
<1> QED BY <1>1, <1>3, <1>4 DEF n

\* balanceOf is a natural number and grows with time.
LEMMA BalanceGrows ==
  ASSUME NEW t, NEW at \in Nat, Sound(t, at), NEW u \in Accounts20
  PROVE  /\ balanceOf(t, u, at) \in Nat
         /\ balanceOf(t, u, at) <= balanceOf(t, u, at + 1)
<1> DEFINE p == t.principal[u]
           a == accumulatedInterest(t, u, at)
           b == accumulatedInterest(t, u, at + 1)
           n == PRECISION_FACTOR
<1>1. p \in Nat /\ n \in Nat \ {0} BY RebaseAssumption DEF Sound
<1>2. a \in Nat /\ b \in Nat /\ a <= b
  <2>1. CASE t.updated[u] = 0 BY <2>1 DEF accumulatedInterest
  <2>2. CASE t.updated[u] # 0 BY <2>2, FactorGrows
  <2> QED BY <2>1, <2>2
<1>3. balanceOf(t, u, at) = (p * a) \div n /\ balanceOf(t, u, at + 1) = (p * b) \div n BY DEF balanceOf
<1> HIDE DEF p, a, b, n
<1>4. p * a \in Nat /\ p * b \in Nat /\ p * a <= p * b BY <1>1, <1>2, TimesMonotone
<1> DEFINE x == p * a
           y == p * b
<1> HIDE DEF x, y
<1>5. x \in Nat /\ y \in Nat /\ x <= y BY <1>4 DEF x, y
<1>6. x \div n \in Nat /\ x \div n <= y \div n BY <1>1, <1>5, DivMonotone
<1> QED BY <1>3, <1>6 DEF x, y

\* A user who has just been stamped has the principal as balance.
LEMMA BalanceStamped ==
  ASSUME NEW t, NEW at \in Nat \ {0}, Sound(t, at), NEW u \in Accounts20, t.updated[u] = at
  PROVE  balanceOf(t, u, at) = t.principal[u]
<1> DEFINE p == t.principal[u]
           n == PRECISION_FACTOR
           r == t.rates[u]
<1>1. p \in Nat /\ n \in Nat \ {0} /\ r \in Nat BY RebaseAssumption DEF Sound, Tokens20
<1>2. at - t.updated[u] = 0 /\ t.updated[u] # 0 OBVIOUS
<1>3. accumulatedInterest(t, u, at) = n + r * 0 BY <1>2 DEF accumulatedInterest
<1>4. n + r * 0 = n BY <1>1
<1>5. balanceOf(t, u, at) = (p * n) \div n BY <1>3, <1>4 DEF balanceOf
<1> HIDE DEF p, n
<1>6. (p * n) \div n = p BY <1>1, DivExact
<1> QED BY <1>5, <1>6 DEF p

\* A user stamped now keeps the balance; the others are as they were.
LEMMA AccrueStamps ==
  ASSUME NEW t, now \in Nat \ {0}, Sound(t, now), NEW u \in Accounts20
  PROVE  LET r == mintAccruedInterest(t, u)
         IN /\ Sound(r, now) /\ r.updated[u] = now /\ r.principal[u] = balanceOf(t, u, now)
            /\ r.rates = t.rates
            /\ \A v \in Accounts20 : v # u => SameUser(t, r, v)
<1> DEFINE b == balanceOf(t, u, now)
           i == t.interest + b - t.principal[u]
           g == Put(t.principal, u, b)
           h == Put(t.updated, u, now)
           r == mintAccruedInterest(t, u)
<1>1. b \in Nat BY BalanceGrows
<1>2. t \in Tokens20 /\ t.principal \in [Accounts20 -> Int] /\ t.updated \in [Accounts20 -> Nat] BY DEF Sound, Tokens20
<1>3. r = [t EXCEPT !.interest = i, !.principal = g, !.updated = h]
  BY <1>2 DEF mintAccruedInterest, Put, Tokens20
<1>4. r \in Tokens20 BY <1>2, AccrueKeeps
<1> HIDE DEF b, i
<1>5. /\ g[u] = b /\ h[u] = now
      /\ \A v \in Accounts20 : v # u => g[v] = t.principal[v] /\ h[v] = t.updated[v]
  BY <1>2 DEF Put
<1> HIDE DEF g, h
<1>6. r.principal = g /\ r.updated = h /\ r.rates = t.rates BY <1>2, <1>3 DEF Tokens20
<1> HIDE DEF r
<1>7. Sound(r, now)
  <2> SUFFICES ASSUME NEW v \in Accounts20
               PROVE  r.principal[v] \in Nat /\ r.updated[v] <= now /\ (r.updated[v] = 0 => r.principal[v] = 0)
    BY <1>4 DEF Sound
  <2>1. CASE v = u BY <1>1, <1>5, <1>6, <2>1
  <2>2. CASE v # u BY <1>5, <1>6, <2>2 DEF Sound
  <2> QED BY <2>1, <2>2
<1> QED BY <1>5, <1>6, <1>7 DEF SameUser, r, b

\* Then a principal may be written, if the user has been stamped.
LEMMA PrincipalWritten ==
  ASSUME NEW t, NEW at \in Nat, Sound(t, at), NEW u \in Accounts20, t.updated[u] # 0, NEW v \in Nat
  PROVE  LET r == [t EXCEPT !.principal[u] = v]
         IN /\ Sound(r, at) /\ r.principal[u] = v /\ r.updated = t.updated /\ r.rates = t.rates
            /\ \A w \in Accounts20 : w # u => SameUser(t, r, w)
<1> DEFINE g == Put(t.principal, u, v)
           r == [t EXCEPT !.principal[u] = v]
<1>1. t \in Tokens20 /\ t.principal \in [Accounts20 -> Int] BY DEF Sound, Tokens20
<1>2. r = [t EXCEPT !.principal = g] BY <1>1 DEF Put, Tokens20
<1>3. r \in Tokens20
  <2>1. v \in Int OBVIOUS
  <2> QED BY <1>1, <2>1, PrincipalKeeps
<1>4. g[u] = v /\ \A w \in Accounts20 : w # u => g[w] = t.principal[w] BY <1>1 DEF Put
<1> HIDE DEF g
<1>5. r.principal = g /\ r.updated = t.updated /\ r.rates = t.rates BY <1>1, <1>2 DEF Tokens20
<1> HIDE DEF r
<1>6. Sound(r, at)
  <2> SUFFICES ASSUME NEW w \in Accounts20
               PROVE  r.principal[w] \in Nat /\ r.updated[w] <= at /\ (r.updated[w] = 0 => r.principal[w] = 0)
    BY <1>3 DEF Sound
  <2>1. CASE w = u BY <1>4, <1>5, <2>1 DEF Sound
  <2>2. CASE w # u BY <1>4, <1>5, <2>2 DEF Sound
  <2> QED BY <2>1, <2>2
<1> QED BY <1>4, <1>5, <1>6, Zenon DEF SameUser, r

\* So may a rate.
LEMMA RateWritten ==
  ASSUME NEW t, NEW at \in Nat, Sound(t, at), NEW u \in Accounts20, NEW rate \in Nat
  PROVE  LET r == [t EXCEPT !.rates[u] = rate]
         IN /\ Sound(r, at) /\ r.principal = t.principal /\ r.updated = t.updated
            /\ \A w \in Accounts20 : w # u => SameUser(t, r, w)
<1> DEFINE g == Put(t.rates, u, rate)
           r == [t EXCEPT !.rates[u] = rate]
<1>1. t \in Tokens20 /\ t.rates \in [Accounts20 -> Nat] BY DEF Sound, Tokens20
<1>2. r = [t EXCEPT !.rates = g] BY <1>1 DEF Put, Tokens20
<1>3. r \in Tokens20 BY <1>1, RateKeeps
<1>4. \A w \in Accounts20 : w # u => g[w] = t.rates[w] BY <1>1 DEF Put
<1> HIDE DEF g
<1>5. r.rates = g /\ r.updated = t.updated /\ r.principal = t.principal BY <1>1, <1>2 DEF Tokens20
<1> HIDE DEF r
<1>6. Sound(r, at) BY <1>3, <1>5 DEF Sound
<1> QED BY <1>4, <1>5, <1>6 DEF SameUser, r

\* Nobody but u loses.
Only(t, r, u) ==
  /\ Sound(r, now)
  /\ \A v \in Accounts20 : v # u => balanceOf(r, v, now) >= balanceOf(t, v, now)

\* RebaseToken.mint: nobody loses, whatever the new rate.
LEMMA MintKeepsBalances ==
  ASSUME NEW t, now \in Nat \ {0}, Sound(t, now), NEW u \in Accounts20, NEW n \in Nat, NEW rate \in Nat
  PROVE  LET r == mintToken(t, u, n, rate)
         IN Sound(r, now) /\ \A v \in Accounts20 : balanceOf(r, v, now) >= balanceOf(t, v, now)
<1> DEFINE a == mintAccruedInterest(t, u)
           s == [a EXCEPT !.rates[u] = rate]
           v == s.principal[u] + n
           r == [s EXCEPT !.principal[u] = v]
           b == balanceOf(t, u, now)
<1>1. /\ Sound(a, now) /\ a.updated[u] = now /\ a.principal[u] = b
      /\ \A w \in Accounts20 : w # u => SameUser(t, a, w)
  BY AccrueStamps
<1>2. b \in Nat BY BalanceGrows
<1>3. mintToken(t, u, n, rate) = r
  <2>1. a \in Tokens20 BY <1>1 DEF Sound
  <2> HIDE DEF a
  <2> QED BY <2>1 DEF mintToken, a, Tokens20
<1> HIDE DEF a, b
<1>4. /\ Sound(s, now) /\ s.principal = a.principal /\ s.updated = a.updated
      /\ \A w \in Accounts20 : w # u => SameUser(a, s, w)
  BY <1>1, RateWritten
<1> HIDE DEF s
<1>5. v \in Nat /\ v >= b BY <1>1, <1>2, <1>4
<1> HIDE DEF v
<1>6. /\ Sound(r, now) /\ r.principal[u] = v /\ r.updated = s.updated
      /\ \A w \in Accounts20 : w # u => SameUser(s, r, w)
  <2>1. s.updated[u] # 0 BY <1>1, <1>4
  <2> QED BY <1>4, <1>5, <2>1, PrincipalWritten
<1> HIDE DEF r
<1>7. balanceOf(r, u, now) >= b
  <2>1. r.updated[u] = now BY <1>1, <1>4, <1>6
  <2>2. balanceOf(r, u, now) = v BY <1>6, <2>1, BalanceStamped
  <2> QED BY <1>5, <2>2
<1>8. ASSUME NEW w \in Accounts20, w # u PROVE balanceOf(r, w, now) >= balanceOf(t, w, now)
  <2>1. SameUser(t, r, w) BY <1>1, <1>4, <1>6, <1>8 DEF SameUser
  <2>2. balanceOf(r, w, now) = balanceOf(t, w, now) BY <2>1, SameBalance
  <2>3. balanceOf(t, w, now) \in Nat BY BalanceGrows
  <2> QED BY <2>2, <2>3
<1> QED BY <1>3, <1>6, <1>7, <1>8 DEF b

\* RebaseToken.burn: only the user loses.
LEMMA BurnKeepsBalances ==
  ASSUME NEW t, now \in Nat \ {0}, Sound(t, now), NEW u \in Accounts20, NEW n \in Nat, CanBurn(t, u, n)
  PROVE  Only(t, burnToken(t, u, n), u)
<1> DEFINE a == mintAccruedInterest(t, u)
           k == amountOf(t, u, n)
           v == a.principal[u] - k
           r == [a EXCEPT !.principal[u] = v]
<1>1. /\ Sound(a, now) /\ a.updated[u] = now
      /\ \A w \in Accounts20 : w # u => SameUser(t, a, w)
  BY AccrueStamps
<1>2. burnToken(t, u, n) = r /\ k <= a.principal[u] BY DEF burnToken, CanBurn
<1>0. k \in Nat
  <2>1. balanceOf(t, u, now) \in Nat BY BalanceGrows
  <2> QED BY <2>1 DEF amountOf
<1> HIDE DEF a, k
<1>3. v \in Nat BY <1>0, <1>1, <1>2 DEF Sound
<1> HIDE DEF v
<1>4. /\ Sound(r, now) /\ \A w \in Accounts20 : w # u => SameUser(a, r, w)
  <2>1. a.updated[u] # 0 BY <1>1
  <2> QED BY <1>1, <1>3, <2>1, PrincipalWritten
<1> HIDE DEF r
<1>5. ASSUME NEW w \in Accounts20, w # u PROVE balanceOf(r, w, now) >= balanceOf(t, w, now)
  <2>1. SameUser(t, r, w) BY <1>1, <1>4, <1>5 DEF SameUser
  <2>2. balanceOf(r, w, now) = balanceOf(t, w, now) BY <2>1, SameBalance
  <2>3. balanceOf(t, w, now) \in Nat BY BalanceGrows
  <2> QED BY <2>2, <2>3
<1> QED BY <1>2, <1>4, <1>5 DEF Only

\* A transfer: only the sender loses.
LEMMA TransferKeepsBalances ==
  ASSUME NEW t, now \in Nat \ {0}, Sound(t, now), NEW from \in Accounts20, NEW to \in Accounts20,
         NEW n \in Nat, CanTransferToken(t, from, to, n)
  PROVE  Only(t, transferToken(t, from, to, n), from)
<1> DEFINE a == mintAccruedInterest(t, from)
           s == mintAccruedInterest(a, to)
           m == amountOf(s, from, n)
           r == IF balanceOf(s, to, now) = 0 THEN [s EXCEPT !.rates[to] = s.rates[from]] ELSE s
           x == r.principal[from] - m
           p == [r EXCEPT !.principal[from] = x]
           y == p.principal[to] + m
           q == [p EXCEPT !.principal[to] = y]
<1>0. transferToken(t, from, to, n) = q /\ m <= s.principal[from] BY DEF transferToken, CanTransferToken, Stamped
<1>1. /\ Sound(a, now) /\ a.updated[from] = now
      /\ \A w \in Accounts20 : w # from => SameUser(t, a, w)
  BY AccrueStamps
<1> HIDE DEF a
<1>2. /\ Sound(s, now) /\ s.updated[to] = now /\ s.principal[to] = balanceOf(a, to, now)
      /\ \A w \in Accounts20 : w # to => SameUser(a, s, w)
  BY <1>1, AccrueStamps
<1>3. s.updated[from] = now BY <1>1, <1>2 DEF SameUser
<1> HIDE DEF s
<1>4. m \in Nat
  <2>1. balanceOf(s, from, now) \in Nat BY <1>2, BalanceGrows
  <2> QED BY <2>1 DEF amountOf
<1>5. /\ Sound(r, now) /\ r.principal = s.principal /\ r.updated = s.updated
      /\ \A w \in Accounts20 : w # to => SameUser(s, r, w)
  <2>1. s.rates[from] \in Nat BY <1>2 DEF Sound, Tokens20
  <2>2. \A w : SameUser(s, s, w) BY DEF SameUser
  <2> QED BY <1>2, <2>1, <2>2, RateWritten, Zenon
<1> HIDE DEF r, m
<1>6. x \in Nat BY <1>0, <1>2, <1>4, <1>5 DEF Sound
<1> HIDE DEF x
<1>7. /\ Sound(p, now) /\ p.updated = r.updated
      /\ \A w \in Accounts20 : w # from => SameUser(r, p, w)
  <2>1. r.updated[from] # 0 BY <1>3, <1>5
  <2> QED BY <1>5, <1>6, <2>1, PrincipalWritten
<1> HIDE DEF p
<1>8. y \in Nat /\ y >= p.principal[to] BY <1>4, <1>7 DEF Sound
<1> HIDE DEF y
<1>9. /\ Sound(q, now) /\ q.principal[to] = y /\ q.updated = p.updated
      /\ \A w \in Accounts20 : w # to => SameUser(p, q, w)
  <2>1. p.updated[to] # 0 BY <1>2, <1>5, <1>7
  <2> QED BY <1>7, <1>8, <2>1, PrincipalWritten
<1> HIDE DEF q
<1>10. ASSUME NEW w \in Accounts20, w # from PROVE balanceOf(q, w, now) >= balanceOf(t, w, now)
  <2>0. balanceOf(t, w, now) \in Nat BY BalanceGrows
  <2>1. CASE w = to
    <3>1. balanceOf(q, to, now) = y
      <4>1. q.updated[to] = now BY <1>2, <1>5, <1>7, <1>9
      <4> QED BY <1>9, <4>1, BalanceStamped
    <3>2. p.principal[to] = s.principal[to] BY <1>5, <1>7, <1>10, <2>1 DEF SameUser
    <3>3. balanceOf(a, to, now) = balanceOf(t, to, now) BY <1>1, <1>10, <2>1, SameBalance
    <3> QED BY <1>2, <1>8, <2>1, <3>1, <3>2, <3>3
  <2>2. CASE w # to
    <3>1. SameUser(t, q, w)
      <4>1. SameUser(t, a, w) BY <1>1, <1>10
      <4>2. SameUser(a, s, w) BY <1>2, <2>2
      <4>3. SameUser(s, r, w) BY <1>5, <2>2
      <4>4. SameUser(r, p, w) BY <1>7, <1>10
      <4>5. SameUser(p, q, w) BY <1>9, <2>2
      <4> QED BY ONLY <4>1, <4>2, <4>3, <4>4, <4>5 DEF SameUser
    <3>2. balanceOf(q, w, now) = balanceOf(t, w, now) BY <3>1, SameBalance
    <3> QED BY <2>0, <3>2
  <2> QED BY <2>1, <2>2
<1> QED BY <1>0, <1>9, <1>10 DEF Only

\* Both chains are sound at every time.
SoundChains == now \in Nat \ {0} /\ \A c \in Chains : Sound(tokens[c], now)

\* Nobody loses on any chain but the holders of S, who are pairs of a chain and
\* a holder.
OnlyThey(S) ==
  /\ SoundChains'
  /\ \A c \in Chains, u \in Holders :
       balanceOf(tokens'[c], u, now') >= balanceOf(tokens[c], u, now) \/ <<c, u>> \in S

\* A transaction that writes the token of one chain.
LEMMA OneChainGrows ==
  ASSUME SoundChains, tokens \in [Chains -> Tokens20], NEW c \in Chains, NEW t, tokens' = On(tokens, c, t),
         now' = now, NEW S, Sound(t, now),
         \A u \in Holders : balanceOf(t, u, now) >= balanceOf(tokens[c], u, now) \/ <<c, u>> \in S
  PROVE  OnlyThey(S)
<1>1. tokens'[c] = t /\ \A d \in Chains : d # c => tokens'[d] = tokens[d] BY DEF On
<1>2. SoundChains' BY <1>1 DEF SoundChains
<1>3. ASSUME NEW d \in Chains, NEW u \in Holders
      PROVE  balanceOf(tokens'[d], u, now') >= balanceOf(tokens[d], u, now) \/ <<d, u>> \in S
  <2>1. CASE d = c BY <1>1, <2>1
  <2>2. CASE d # c
    <3>1. u \in Accounts20 BY Accounts20Finite
    <3>2. balanceOf(tokens[d], u, now) \in Nat BY <3>1, BalanceGrows DEF SoundChains
    <3> QED BY <1>1, <2>2, <3>2
  <2> QED BY <2>1, <2>2, Zenon
<1> QED BY <1>2, <1>3, Zenon DEF OnlyThey

\* One case per transaction: only who spends loses.
LEMMA TransactionGrows ==
  ASSUME RebaseIInv, SoundChains, Transaction
  PROVE  \E S : OnlyThey(S) /\ \A c \in Chains, u \in Holders : <<c, u>> \in S => Spends(c, u)
<1> DEFINE Goal == \E S : OnlyThey(S) /\ \A c \in Chains, u \in Holders : <<c, u>> \in S => Spends(c, u)
<1>1. /\ tokens \in [Chains -> Tokens20] /\ now \in Nat \ {0}
      /\ messages \in SUBSET Messages20 /\ \A c \in Chains : Sound(tokens[c], now)
  BY DEF RebaseIInv, SoundChains
<1>2. Home \in Chains /\ tokens[Home] \in Tokens20 /\ Sound(tokens[Home], now) BY <1>1 DEF Chains
<1>3. Holders \subseteq Accounts20 /\ ThePool \in Accounts20 /\ ThePool \notin Holders
  BY Accounts20Finite, RebaseAssumption
<1>4. \A c \in Chains, u \in Holders : balanceOf(tokens[c], u, now) \in Nat BY <1>1, <1>3, BalanceGrows
<1>5. ASSUME NEW r \in LowerRates, setInterestRate(r) PROVE Goal
  <2> DEFINE t == [tokens[Home] EXCEPT !.rate = r]
  <2>1. r \in Nat BY RebaseAssumption
  <2>2. /\ t \in Tokens20 /\ t.principal = tokens[Home].principal /\ t.updated = tokens[Home].updated
        /\ t.rates = tokens[Home].rates
    BY <1>2, <2>1 DEF Tokens20
  <2>3. tokens' = On(tokens, Home, t) /\ now' = now BY <1>5 DEF setInterestRate, On
  <2> HIDE DEF t
  <2>4. Sound(t, now) BY <1>2, <2>2 DEF Sound
  <2>5. \A u : SameUser(tokens[Home], t, u) BY <2>2 DEF SameUser
  <2>6. \A u \in Holders : balanceOf(t, u, now) >= balanceOf(tokens[Home], u, now)
    BY <1>2, <1>4, <2>5, SameBalance
  <2>7. OnlyThey({}) BY <1>1, <1>2, <2>3, <2>4, <2>6, OneChainGrows
  <2> QED BY <2>7
<1>6. ASSUME NEW c \in Chains, NEW from \in Holders, NEW to \in Accounts20, NEW n \in TokenAmounts \cup {MAX},
             transferTokens(c, from, to, n)
      PROVE  Goal
  <2> DEFINE t == transferToken(tokens[c], from, to, n)
  <2>1. n \in Nat /\ CanTransferToken(tokens[c], from, to, n)
        /\ tokens' = On(tokens, c, t) /\ now' = now
    BY <1>6, RebaseAssumption, Zenon DEF transferTokens, On
  <2>2. Only(tokens[c], t, from) BY <1>1, <1>3, <2>1, TransferKeepsBalances
  <2> HIDE DEF t
  <2>3. \A u \in Holders : balanceOf(t, u, now) >= balanceOf(tokens[c], u, now) \/ <<c, u>> \in {<<c, from>>}
    BY <1>3, <2>2 DEF Only
  <2>4. Sound(t, now) BY <2>2 DEF Only
  <2>5. OnlyThey({<<c, from>>}) BY <1>1, <2>1, <2>3, <2>4, OneChainGrows
  <2>6. Spends(c, from) BY <1>6 DEF Spends
  <2> QED BY <2>5, <2>6
<1>7. ASSUME NEW u \in Holders, NEW n \in TokenAmounts, deposit(u, n) PROVE Goal
  <2> DEFINE t == mintToken(tokens[Home], u, n, tokens[Home].rate)
  <2>1. n \in Nat /\ tokens[Home].rate \in Nat BY <1>2, RebaseAssumption DEF Tokens20
  <2>2. tokens' = On(tokens, Home, t) /\ now' = now BY <1>7 DEF deposit, On
  <2>3. Sound(t, now) /\ \A v \in Accounts20 : balanceOf(t, v, now) >= balanceOf(tokens[Home], v, now)
    BY <1>1, <1>2, <1>3, <2>1, MintKeepsBalances
  <2> HIDE DEF t
  <2>4. OnlyThey({}) BY <1>1, <1>2, <1>3, <2>2, <2>3, OneChainGrows
  <2> QED BY <2>4
<1>8. ASSUME NEW u \in Holders, NEW a \in TokenAmounts \cup {MAX}, redeem(u, a) PROVE Goal
  <2> DEFINE n == amountOf(tokens[Home], u, a)
             t == burnToken(tokens[Home], u, n)
  <2>1. n \in Nat
    <3>1. a # MAX => a \in Nat BY RebaseAssumption
    <3> QED BY <1>2, <1>4, <3>1 DEF amountOf
  <2>2. tokens' = On(tokens, Home, t) /\ now' = now /\ CanBurn(tokens[Home], u, n) BY <1>8 DEF redeem, On
  <2> HIDE DEF n
  <2>3. Only(tokens[Home], t, u) BY <1>1, <1>2, <1>3, <2>1, <2>2, BurnKeepsBalances
  <2> HIDE DEF t
  <2>4. \A v \in Holders : balanceOf(t, v, now) >= balanceOf(tokens[Home], v, now) \/ <<Home, v>> \in {<<Home, u>>}
    BY <1>3, <2>3 DEF Only
  <2>5. Sound(t, now) BY <2>3 DEF Only
  <2>6. OnlyThey({<<Home, u>>}) BY <1>1, <1>2, <2>2, <2>4, <2>5, OneChainGrows
  <2>7. Spends(Home, u) BY <1>8 DEF Spends
  <2> QED BY <2>6, <2>7
<1>9. ASSUME NEW n \in TokenAmounts, receive(n) PROVE Goal
  <2>1. tokens' = tokens /\ now' = now BY <1>9 DEF receive
  <2>2. OnlyThey({}) BY <1>4, <2>1 DEF OnlyThey, SoundChains
  <2> QED BY <2>2
<1>10. ASSUME NEW c \in Chains, NEW from \in Holders, NEW to \in Holders, NEW n \in TokenAmounts \cup {MAX},
              ccipSend(c, from, to, n)
       PROVE  Goal
  <2> DEFINE moved == transferToken(tokens[c], from, ThePool, n)
             t == burnToken(moved, ThePool, n)
  <2>1. n \in Nat BY RebaseAssumption, Zenon
  <2>2. /\ tokens' = On(tokens, c, t) /\ now' = now
        /\ CanTransferToken(tokens[c], from, ThePool, n) /\ CanBurn(moved, ThePool, n)
    BY <1>10 DEF ccipSend, lockOrBurn, On
  <2>3. Only(tokens[c], moved, from) BY <1>1, <1>3, <2>1, <2>2, TransferKeepsBalances
  <2> HIDE DEF moved
  <2>4. Sound(moved, now) BY <2>3 DEF Only
  <2>5. Only(moved, t, ThePool) BY <1>1, <1>3, <2>1, <2>2, <2>4, BurnKeepsBalances
  <2> HIDE DEF t
  <2>6. Sound(t, now) BY <2>5 DEF Only
  <2>7. ASSUME NEW u \in Holders
        PROVE  balanceOf(t, u, now) >= balanceOf(tokens[c], u, now) \/ <<c, u>> \in {<<c, from>>}
    <3>1. u \in Accounts20 /\ u # ThePool BY <1>3
    <3>2. balanceOf(t, u, now) >= balanceOf(moved, u, now) BY <2>5, <3>1 DEF Only
    <3>3. u = from \/ balanceOf(moved, u, now) >= balanceOf(tokens[c], u, now) BY <2>3, <3>1 DEF Only
    <3>4. balanceOf(t, u, now) \in Nat /\ balanceOf(moved, u, now) \in Nat /\ balanceOf(tokens[c], u, now) \in Nat
      BY <1>1, <1>4, <2>4, <2>6, <3>1, BalanceGrows
    <3> QED BY <3>2, <3>3, <3>4
  <2>8. OnlyThey({<<c, from>>}) BY <1>1, <2>2, <2>6, <2>7, OneChainGrows
  <2>9. Spends(c, from) BY <1>10, <2>1 DEF Spends
  <2> QED BY <2>8, <2>9
<1>11. ASSUME NEW m \in messages, releaseOrMint(m) PROVE Goal
  <2> DEFINE c == m.chain
             t == mintToken(tokens[c], m.receiver, m.amount, m.rate)
  <2>1. c \in Chains /\ Sound(tokens[c], now) /\ m.receiver \in Accounts20 /\ m.amount \in Nat /\ m.rate \in Nat
    BY <1>1, <1>3 DEF Messages20
  <2>2. tokens' = On(tokens, c, t) /\ now' = now BY <1>11 DEF releaseOrMint, On
  <2>3. Sound(t, now) /\ \A v \in Accounts20 : balanceOf(t, v, now) >= balanceOf(tokens[c], v, now)
    BY <1>1, <2>1, MintKeepsBalances
  <2> HIDE DEF t, c
  <2>4. OnlyThey({}) BY <1>1, <1>3, <2>1, <2>2, <2>3, OneChainGrows
  <2> QED BY <2>4
<1> HIDE DEF Goal
<1>12. Goal BY <1>5, <1>6, <1>7, <1>8, <1>9, <1>10, <1>11 DEF Transaction
<1> QED BY <1>12 DEF Goal

\* Who does not transfer, bridge or redeem never sees their balance fall, for any
\* rates, precision, times and order of transactions and messages.
THEOREM BalancesGrow == RebaseSpec => BalancesOnlyGrow
<1> DEFINE Inv == RebaseIInv /\ SoundChains
           Grows == \A c \in Chains, u \in Holders :
                      balanceOf(tokens'[c], u, now') >= balanceOf(tokens[c], u, now) \/ Spends(c, u)
<1>1. RebaseInit => Inv
  <2> SUFFICES ASSUME RebaseInit PROVE Inv OBVIOUS
  <2>1. RebaseIInv BY RebaseInitIInv
  <2>2. now \in Nat \ {0} BY DEF RebaseInit
  <2>3. ASSUME NEW c \in Chains PROVE Sound(tokens[c], now)
    <3> DEFINE t == tokens[c]
    <3>1. t \in Tokens20 BY <2>1 DEF RebaseIInv
    <3>2. t.updated = [u \in Accounts20 |-> 0] /\ t.principal = [u \in Accounts20 |-> 0] BY DEF RebaseInit
    <3> HIDE DEF t
    <3>3. Sound(t, now) BY <2>2, <3>1, <3>2 DEF Sound
    <3> QED BY <3>3 DEF t
  <2> QED BY <2>1, <2>2, <2>3 DEF SoundChains
<1>2. Inv /\ [RebaseNext]_rebase_vars => Inv' /\ (Grows \/ UNCHANGED rebase_vars)
  <2> SUFFICES ASSUME Inv, [RebaseNext]_rebase_vars PROVE Inv' /\ (Grows \/ UNCHANGED rebase_vars) BY Zenon
  <2>1. CASE Transaction
    <3>1. RebaseIInv' BY <2>1, TransactionIInv
    <3>2. PICK S : OnlyThey(S) /\ \A c \in Chains, u \in Holders : <<c, u>> \in S => Spends(c, u)
      BY <2>1, TransactionGrows
    <3> QED BY <3>1, <3>2, Zenon DEF OnlyThey
  <2>2. CASE passTime
    <3>1. tokens' = tokens /\ now' = now + 1 BY <2>2 DEF passTime
    <3>2. RebaseIInv' BY <2>2 DEF passTime, RebaseIInv, TokensAreAccountedFor
    <3>3. now \in Nat \ {0} /\ now' \in Nat \ {0} /\ now <= now' BY <3>1 DEF SoundChains
    <3>4. ASSUME NEW c \in Chains PROVE Sound(tokens'[c], now')
      <4>1. Sound(tokens[c], now) BY DEF SoundChains
      <4>2. \A u \in Accounts20 : tokens[c].updated[u] \in Nat BY <4>1 DEF Sound, Tokens20
      <4>3. \A x \in Nat : x <= now => x <= now' BY <3>3
      <4> QED BY <3>1, <4>1, <4>2, <4>3 DEF Sound
    <3>5. ASSUME NEW c \in Chains, NEW u \in Holders
          PROVE  balanceOf(tokens'[c], u, now') >= balanceOf(tokens[c], u, now)
      <4>1. Sound(tokens[c], now) /\ Sound(tokens'[c], now') BY <3>4 DEF SoundChains
      <4>2. u \in Accounts20 BY Accounts20Finite
      <4>3. /\ balanceOf(tokens[c], u, now) \in Nat
            /\ balanceOf(tokens[c], u, now) <= balanceOf(tokens[c], u, now + 1)
        BY <3>3, <4>1, <4>2, BalanceGrows
      <4>4. balanceOf(tokens'[c], u, now') \in Nat BY <3>3, <4>1, <4>2, BalanceGrows
      <4> QED BY <3>1, <4>3, <4>4
    <3> QED BY <3>2, <3>3, <3>4, <3>5, Zenon DEF SoundChains
  <2>3. CASE UNCHANGED rebase_vars
    BY <2>3 DEF rebase_vars, RebaseIInv, TokensAreAccountedFor, SoundChains
  <2> QED BY <2>1, <2>2, <2>3 DEF RebaseNext
<1>3. BalancesOnlyGrow <=> [][Grows]_rebase_vars BY DEF BalancesOnlyGrow
<1> QED BY <1>1, <1>2, <1>3, PTL DEF RebaseSpec
==============================================================================
