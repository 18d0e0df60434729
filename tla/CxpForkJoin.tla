------------------------------ MODULE CxpForkJoin ------------------------------
(***************************************************************************)
(* What the processing of nested make elements promises, whatever runs in  *)
(* threads: an instruction of an element begins when the instructions      *)
(* before it that are not forked are done, and an element is done when     *)
(* none of its instructions is active any more.                            *)
(***************************************************************************)
EXTENDS Naturals, Sequences

CONSTANTS
  Make,   \* make elements
  Top,    \* the outermost
  Items,  \* the sequence of instructions of each make element
  Forked  \* the make elements that may run beside their following siblings

VARIABLE status  \* of each instruction: "todo", "active" or "done"

Item == Make \cup UNION {{Items[m][i] : i \in DOMAIN Items[m]} : m \in Make}

Init == status = [x \in Item |-> IF x = Top THEN "active" ELSE "todo"]

(* instruction i of element m may begin *)
Ready(m, i) ==
  /\ status[m] = "active"
  /\ status[Items[m][i]] = "todo"
  /\ \A j \in 1..(i - 1) : Items[m][j] \notin Forked => status[Items[m][j]] = "done"

(* a nested element begins *)
Begin(m, i) ==
  /\ Items[m][i] \in Make
  /\ Ready(m, i)
  /\ status' = [status EXCEPT ![Items[m][i]] = "active"]

(* any other instruction is executed *)
Do(m, i) ==
  /\ Items[m][i] \notin Make
  /\ Ready(m, i)
  /\ status' = [status EXCEPT ![Items[m][i]] = "done"]

End(m) ==
  /\ status[m] = "active"
  /\ \A i \in DOMAIN Items[m] : status[Items[m][i]] # "active"
  /\ status' = [status EXCEPT ![m] = "done"]

Next == \E m \in Make : End(m) \/ \E i \in DOMAIN Items[m] : Begin(m, i) \/ Do(m, i)

Spec == Init /\ [][Next]_status

================================================================================
