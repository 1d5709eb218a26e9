----------------------------- MODULE MCAnvilNode -----------------------------
(* Model-checking instances of AnvilNode. *)
EXTENDS AnvilNode

CONSTANTS a, b, a0, a1, a2, b0

\* One sender with nonces 0 to 2, and another sender.
ThreeTxs == {a0, a1, a2}
TwoSenders == {a0, a1, b0}
MCsender == a0 :> a @@ a1 :> a @@ a2 :> a @@ b0 :> b
MCnonce == a0 :> 0 @@ a1 :> 1 @@ a2 :> 2 @@ b0 :> 0
MCprice == a0 :> 1 @@ a1 :> 2 @@ a2 :> 1 @@ b0 :> 1
MCgas == a0 :> 1 @@ a1 :> 1 @@ a2 :> 1 @@ b0 :> 1
ForceB0 == <<b0>>
NoForced == <<>>
==============================================================================
