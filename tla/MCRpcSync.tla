----------------------------- MODULE MCRpcSync -----------------------------
(***************************************************************************)
(* Model checking RpcSync: sums over a finite set of states.               *)
(***************************************************************************)
EXTENDS RpcSync, Functions

MCSum(f) == FoldFunction(LAMBDA a, b : a + b, 0, f)
=============================================================================
