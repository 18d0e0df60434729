------------------------------ MODULE MCCxpMake ------------------------------
(* A make element with threads: between two steps it has a threaded element *)
(* with a nested one, a plain one with a failing command and the document   *)
(* of an <each>, and an element that asks for a context.                    *)
EXTENDS CxpMake, TLC

CONSTANTS top, m1, m2, m3, m4, e, s1, s2, s3, s4, sys

MCItems == (top :> <<s1, m1, m2, m4, e, s2>>)
        @@ (m1 :> <<m3, s3>>) @@ (m2 :> <<sys, s4>>)
        @@ (m3 :> <<>>) @@ (m4 :> <<>>) @@ (e :> <<>>)

================================================================================
