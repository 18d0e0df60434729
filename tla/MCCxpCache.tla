------------------------------ MODULE MCCxpCache ------------------------------
(* A top context with a child in another directory, and two files that share *)
(* a base name.                                                              *)
EXTENDS CxpCache, TLC

CONSTANTS top, sub, ax, bx, x, a, b

MCChain == (top :> <<top>>) @@ (sub :> <<sub, top>>)
MCCaching == {[c \in Ctx |-> TRUE], [c \in Ctx |-> c = top]}
MCBase == (ax :> x) @@ (bx :> x)
MCDir == (ax :> a) @@ (bx :> b)
MCSameInitial == (ax :> 1) @@ (bx :> 1)
MCLocation == (top :> a) @@ (sub :> b)

================================================================================
