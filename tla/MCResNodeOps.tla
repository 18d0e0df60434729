------------------------------ MODULE MCResNodeOps ------------------------------
(* Two directories of a volume, one of another and one that is not writable; *)
(* a file longer than the limit for reading, and one that is not readable.   *)
EXTENDS ResNodeOps, TLC

CONSTANTS a, b, c, d, x, p, q

MCVolume == (a :> 1) @@ (b :> 1) @@ (c :> 2) @@ (d :> 1)
MCInitial == [f \in File |->
  IF f = <<a, x>> THEN [of |-> p, blocks |-> 2, readable |-> TRUE]
  ELSE IF f = <<b, x>> THEN [of |-> q, blocks |-> 1, readable |-> FALSE]
  ELSE Nothing]

================================================================================
