------------------------------- MODULE MCRaffle -------------------------------
(* Model-checking instances of Raffle. *)
EXTENDS Raffle, TLC

CONSTANTS p1, p2, p3

TwoPlayers == {p1, p2}
ThreePlayers == {p1, p2, p3}
NoRejecting == {}
OneRejecting == {p2}

\* Words beyond the number of players, so that the remainder matters.
SmallWords == 0 .. 5
==============================================================================
