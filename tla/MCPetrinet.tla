----------------------------- MODULE MCPetrinet -----------------------------
(* Small instances of Petrinet: three states and two transitions with any     *)
(* edges between the first two states and the transitions, and nets with ids  *)
(* that are missing or given to two knots, two states among them, in which    *)
(* two of the edges are repeated.                                             *)
EXTENDS Petrinet

Between(S, T) == SUBSET ((S \X T) \cup (T \X S))

\* The edges of a set in a document, and with a repetition of some of them
InOrder(e) == FoldSet(LAMBDA x, s : Append(s, x), <<>>, e)
Twice(e) == InOrder(e) \o InOrder(e \cap {<<"a", "x">>, <<"x", "b">>})

MCDocs ==
    {[s |-> <<"a", "b", "c">>, t |-> <<"x", "y">>, e |-> InOrder(e \cup {<<"y", "c">>, <<"c", "x">>, <<"a", "b">>})] :
        e \in Between({"a", "b"}, {"x", "y"})}
    \cup {[s |-> <<"a", "b", NoId>>, t |-> <<"x", "b">>, e |-> Twice(e)] : e \in Between({"a", "b"}, {"x"})}
    \cup {[s |-> ids, t |-> <<"x", "y">>, e |-> Twice(e)] :
            ids \in {<<"a", "b", "a">>, <<"a", "b", "b">>}, e \in Between({"a", "b"}, {"x", "y"})}
    \cup {[s |-> <<"a", "b">>, t |-> <<"x", "b">>, e |-> Twice(e)] : e \in Between({"a", "b"}, {"x"})}
=============================================================================
