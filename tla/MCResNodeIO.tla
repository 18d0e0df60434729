---------------------------- MODULE MCResNodeIO ----------------------------
(* Contents of nothing, of less than a block, and of more than the limit of  *)
(* one block.                                                                *)
EXTENDS ResNodeIO

MCContents == {[of |-> "v1", len |-> 0], [of |-> "v1", len |-> 1], [of |-> "v1", len |-> 3]}
=============================================================================
