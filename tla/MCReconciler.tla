---------------------------- MODULE MCReconciler ----------------------------
(* Two handlers, the one of higher priority running second.                *)
EXTENDS Reconciler, TLC

CONSTANTS h1, h2

MCHandler == {h1, h2}
MCPrio == h1 :> 0 @@ h2 :> 1
=============================================================================
