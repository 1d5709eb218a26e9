--------------------------- MODULE MCAnvilBackend ---------------------------
(***************************************************************************)
(* The parts of anvil's backend, explored by one run: the pool, the chain  *)
(* and its snapshots, the clock, and the listeners.  A behaviour is one of *)
(* the part chosen in its initial state; the other parts stand still.      *)
(***************************************************************************)
EXTENDS AnvilPool, AnvilChain, AnvilTime, AnvilListeners

CONSTANTS a, b, a0, a0x, a1, a1x, a2, b0

\* Two senders; the nonces 0 and 1 of the first come at two prices each.
SixTxs == {a0, a0x, a1, a1x, a2, b0}
MCsender == [h \in SixTxs |-> IF h = b0 THEN b ELSE a]
MCnonce == a0 :> 0 @@ a0x :> 0 @@ a1 :> 1 @@ a1x :> 1 @@ a2 :> 2 @@ b0 :> 0
MCprice == a0 :> 1 @@ a0x :> 2 @@ a1 :> 2 @@ a1x :> 2 @@ a2 :> 3 @@ b0 :> 2
MCgas == [h \in SixTxs |-> IF h = a1 THEN 2 ELSE 1]

tx(g) == [gas |-> g]
MCBodies == {<<>>, <<tx(3), tx(1)>>}

VARIABLE part

MCInit ==
  /\ part \in {"pool", "chain", "clock", "listeners"}
  /\ PoolInit /\ ChainInit /\ TimeInit /\ ListenersInit

MCNext ==
  /\ UNCHANGED part
  /\ \/ part = "pool" /\ PoolNext /\ UNCHANGED <<chain_vars, time_vars, listener_vars>>
     \/ part = "chain" /\ ChainNext /\ UNCHANGED <<pool_vars, time_vars, listener_vars>>
     \/ part = "clock" /\ TimeNext /\ UNCHANGED <<pool_vars, chain_vars, listener_vars>>
     \/ part = "listeners" /\ ListenersNext /\ UNCHANGED <<pool_vars, chain_vars, time_vars>>

MCSpec == MCInit /\ [][MCNext]_<<part, pool_vars, chain_vars, time_vars, listener_vars>>
==============================================================================
