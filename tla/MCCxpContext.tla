---------------------------- MODULE MCCxpContext ----------------------------
(* A small instance of CxpContext: a root with one directory below it and one *)
(* directory outside.                                                         *)
EXTENDS CxpContext

MCBelow == [root |-> {"root", "sub"}, sub |-> {"sub"}, out |-> {"out"}]

MCSearches == {<<>>, <<"out">>}
=============================================================================
