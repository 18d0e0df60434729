----------------------------- MODULE CxpMake_proofs -----------------------------
(***************************************************************************)
(* Proofs about the interpreter of nested make elements: whatever the      *)
(* elements are, it is typed, joins all its threads, implements the fork   *)
(* and join of CxpForkJoin, and every activation works in a context of its *)
(* own below the main context.                                             *)
(***************************************************************************)
EXTENDS CxpMake, TLAPS, FiniteSetTheorems, WellFoundedInduction

Ran == {ran[i] : i \in DOMAIN ran}

Fresh(x) == IF x \in Make THEN pc[x] = "idle" ELSE x \notin Ran

(* What comes after the current instruction is untouched, and so is the      *)
(* current one unless it was called or cancelled the loop.                   *)
Ahead ==
  \A m \in Make : \A i \in DOMAIN Items[m] :
    i > pos[m] \/ (i = pos[m] /\ pc[m] \in {"idle", "start", "loop"}) => Fresh(Items[m][i])

(* What comes before it is done, unless it was forked. *)
Behind ==
  \A m \in Make : \A i \in DOMAIN Items[m] :
    i < pos[m] /\ ~Forks(m, Items[m][i]) =>
      IF Items[m][i] \in Make THEN pc[Items[m][i]] = "done" ELSE Items[m][i] \in Ran

(* A running nested element is called, or its handle is not yet joined. *)
Held(m, c) ==
  \/ pc[m] = "call" /\ c = Item(m)
  \/ /\ pc[m] \in {"loop", "call", "join"}
     /\ \E k \in DOMAIN pool[m] : k > joined[m] /\ pool[m][k] = c

ChildrenHeld == \A m \in Make : \A c \in Children(m) \cap Make : Active(c) => Held(m, c)

Calling ==
  \A m \in Make :
    pc[m] = "call" => pos[m] <= Len(Items[m]) /\ Item(m) \in Make /\ ~Forks(m, Item(m))

(* Every handle belongs to an instruction that is passed. *)
Handles ==
  \A m \in Make :
    /\ Len(pool[m]) < pos[m] /\ joined[m] <= Len(pool[m])
    /\ ~CreateFails => \A k \in DOMAIN pool[m] : pool[m][k] \in Make

Typed == TypeOK /\ Calling
IInv == Typed /\ Ahead /\ Behind /\ ChildrenHeld /\ Handles

(* WaitForMultipleObjects() is given valid handles, and not too many. *)
WaitSuffices ==
  Library = "windows" =>
    ~CreateFails /\ MaxWait \in Nat /\ \A m \in Make : Len(Items[m]) <= MaxWait

--------------------------------------------------------------------------------
(* The current instruction is a make element or a step. *)
LEMMA ItemKind ==
  ASSUME TypeOK, NEW m \in Make, pos[m] <= Len(Items[m])
  PROVE  /\ pos[m] \in DOMAIN Items[m]
         /\ Item(m) \in Children(m)
         /\ Item(m) \in Make \cup Step
         /\ Item(m) # Top
<1>1. pos[m] \in Nat /\ pos[m] >= 1 /\ Items[m] \in Seq(Make \cup Step)
  BY MakeAssumption DEF TypeOK
<1>2. pos[m] \in DOMAIN Items[m]
  BY <1>1
<1>3. Item(m) \in Children(m)
  BY <1>2 DEF Item, Children
<1>4. Item(m) \in Make \cup Step
  BY <1>3 DEF Step
<1> QED
  BY <1>2, <1>3, <1>4, MakeAssumption

(* Indices and positions are numbers. *)
LEMMA Numbers ==
  ASSUME TypeOK, NEW m \in Make, NEW i \in DOMAIN Items[m]
  PROVE  i \in Nat /\ pos[m] \in Nat
<1>1. i \in Nat
  BY MakeAssumption
<1> QED
  BY <1>1 DEF TypeOK

(* An instruction belongs to one element, at one place. *)
LEMMA ItemUnique ==
  ASSUME NEW m \in Make, NEW n \in Make, NEW i \in DOMAIN Items[m], NEW j \in DOMAIN Items[n],
         Items[m][i] = Items[n][j]
  PROVE  m = n /\ i = j
BY MakeAssumption

(* An instruction that is executed joins those that were. *)
LEMMA RanAppend ==
  ASSUME ran \in Seq(Step), NEW x \in Step, ran' = Append(ran, x)
  PROVE  Ran' = Ran \cup {x} /\ ran' \in Seq(Step)
<1>1. /\ DOMAIN ran' = 1..(Len(ran) + 1)
      /\ \A i \in DOMAIN ran : ran'[i] = ran[i]
      /\ ran'[Len(ran) + 1] = x
      /\ DOMAIN ran = 1..Len(ran)
      /\ Len(ran) \in Nat
  OBVIOUS
<1>2. Ran' \subseteq Ran \cup {x}
  BY <1>1 DEF Ran
<1>3. Ran \cup {x} \subseteq Ran'
  BY <1>1 DEF Ran
<1> QED
  BY <1>2, <1>3

(* At the start nothing was executed and no pool has a thread. *)
LEMMA InitIInv == Init => IInv
<1> SUFFICES ASSUME Init PROVE IInv
  OBVIOUS
<1>1. TypeOK
  <2>1. pc \in [Make -> {"idle", "start", "loop", "call", "join", "done"}]
    BY DEF Init
  <2>2. pos \in [Make -> Nat] /\ \A m \in Make : pos[m] \in 1..(Len(Items[m]) + 1)
    <3>1. \A m \in Make : Len(Items[m]) \in Nat
      BY MakeAssumption
    <3> QED
      BY <3>1 DEF Init
  <2>3. pool \in [Make -> Seq(Make \cup {NULL, Garbage})] /\ joined \in [Make -> Nat]
    BY DEF Init
  <2>4. ctx \in [Make -> Context \cup {NULL}] /\ parent \in [Context -> Context \cup {NULL}]
    BY DEF Init, Context
  <2>5. ran \in Seq(Step) /\ crashed \in BOOLEAN
    <3>1. ran = <<>> /\ crashed = FALSE
      BY DEF Init
    <3>2. ran \in Seq(Step)
      BY <3>1
    <3> QED
      BY <3>1, <3>2, Zenon
  <2> QED
    BY <2>1, <2>2, <2>3, <2>4, <2>5 DEF TypeOK
<1>2. Ahead
  <2> SUFFICES ASSUME NEW m \in Make, NEW i \in DOMAIN Items[m]
               PROVE  Fresh(Items[m][i])
    BY DEF Ahead
  <2>1. Items[m][i] # Top
    BY MakeAssumption DEF Children
  <2>2. Ran = {}
    BY DEF Init, Ran
  <2> QED
    BY <2>1, <2>2 DEF Init, Fresh
<1>3. Behind
  <2> SUFFICES ASSUME NEW m \in Make, NEW i \in DOMAIN Items[m], i < pos[m] PROVE FALSE
    BY DEF Behind
  <2>1. pos[m] = 1 /\ i \in 1..Len(Items[m])
    BY MakeAssumption DEF Init
  <2> QED
    BY <2>1
<1>4. ChildrenHeld
  BY MakeAssumption DEF ChildrenHeld, Active, Init, Children
<1>5. Calling
  BY DEF Calling, Init
<1>6. Handles
  BY DEF Handles, Init
<1> QED
  BY <1>1, <1>2, <1>3, <1>4, <1>5, <1>6 DEF IInv, Typed

(* The types are kept by every action, whatever the library. *)
LEMMA TypedStep == Typed /\ [Next]_vars => Typed'
<1> SUFFICES ASSUME Typed, [Next]_vars PROVE Typed'
  OBVIOUS
<1> USE DEF Typed, At
<1>1. ASSUME NEW m \in Make, Validate(m) PROVE Typed'
  <2>1. ctx' \in [Make -> Context \cup {NULL}] /\ parent' \in [Context -> Context \cup {NULL}]
    <3>1. <<m, "attr">> \in Context
      BY DEF Context
    <3> QED
      BY <1>1, <3>1 DEF Validate, TypeOK
  <2>2. TypeOK'
    BY <1>1, <2>1 DEF Validate, TypeOK
  <2>3. Calling'
    BY <1>1 DEF Validate, TypeOK, Calling, Item
  <2> QED
    BY <2>2, <2>3
<1>2. ASSUME NEW m \in Make, Execute(m) PROVE Typed'
  <2>1. pos[m] <= Len(Items[m]) /\ Item(m) \in Step
    BY <1>2, ItemKind DEF Execute, InLoop
  <2>2. ran' \in Seq(Step)
    BY <1>2, <2>1, RanAppend DEF Execute, TypeOK
  <2>3. Len(Items[m]) \in Nat
    BY MakeAssumption
  <2>p. pos' \in [Make -> Nat] /\ \A n \in Make : pos'[n] \in 1..(Len(Items[n]) + 1)
    <3>1. pos' \in {pos, [pos EXCEPT ![m] = pos[m] + 1]}
      BY <1>2 DEF Execute
    <3>2. pos \in [Make -> Nat] /\ \A n \in Make : pos[n] \in 1..(Len(Items[n]) + 1)
      BY DEF TypeOK
    <3> QED
      BY <3>1, <3>2, <2>1, <2>3
  <2>4. TypeOK'
    BY <1>2, <2>2, <2>p DEF Execute, TypeOK
  <2>5. Calling'
    BY <1>2 DEF Execute, TypeOK, Calling, Item
  <2> QED
    BY <2>4, <2>5
<1>3. ASSUME NEW m \in Make, Call(m) PROVE Typed'
  <2>1. pos[m] <= Len(Items[m]) /\ Item(m) \in Make
    BY <1>3 DEF Call, InLoop
  <2>2. TypeOK'
    BY <1>3, <2>1 DEF Call, TypeOK
  <2>3. Calling'
    BY <1>3, <2>1 DEF Call, TypeOK, Calling, Item
  <2> QED
    BY <2>2, <2>3
<1>4. ASSUME NEW m \in Make, Return(m) PROVE Typed'
  <2>1. pos[m] <= Len(Items[m]) /\ Len(Items[m]) \in Nat
    BY <1>4, MakeAssumption DEF Return, Calling
  <2>p. pos' \in [Make -> Nat] /\ \A n \in Make : pos'[n] \in 1..(Len(Items[n]) + 1)
    <3>1. pos' \in {pos, [pos EXCEPT ![m] = pos[m] + 1]}
      BY <1>4 DEF Return
    <3>2. pos \in [Make -> Nat] /\ \A n \in Make : pos[n] \in 1..(Len(Items[n]) + 1)
      BY DEF TypeOK
    <3> QED
      BY <3>1, <3>2, <2>1
  <2>2. TypeOK'
    BY <1>4, <2>p DEF Return, TypeOK
  <2>3. Calling'
    BY <1>4 DEF Return, TypeOK, Calling, Item
  <2> QED
    BY <2>2, <2>3
<1>5. ASSUME NEW m \in Make, Fork(m) PROVE Typed'
  <2>1. pos[m] <= Len(Items[m]) /\ Item(m) \in Make /\ Len(Items[m]) \in Nat
    BY <1>5, MakeAssumption DEF Fork, InLoop, Forks
  <2>2. ctx' \in [Make -> Context \cup {NULL}] /\ parent' \in [Context -> Context \cup {NULL}]
    <3>1. <<Item(m), "thread">> \in Context
      BY <2>1 DEF Context
    <3> QED
      BY <1>5, <2>1, <3>1 DEF Fork, TypeOK
  <2>3. pool' \in [Make -> Seq(Make \cup {NULL, Garbage})]
    <3>1. PICK h \in Make \cup {NULL, Garbage} : pool' = [pool EXCEPT ![m] = Append(pool[m], h)]
      BY <1>5, <2>1 DEF Fork, FailedHandle
    <3>2. Append(pool[m], h) \in Seq(Make \cup {NULL, Garbage})
      BY DEF TypeOK
    <3> QED
      BY <3>1, <3>2 DEF TypeOK
  <2>p. pos' \in [Make -> Nat] /\ \A n \in Make : pos'[n] \in 1..(Len(Items[n]) + 1)
    <3>1. pos' \in {pos, [pos EXCEPT ![m] = pos[m] + 1]}
      BY <1>5 DEF Fork
    <3>2. pos \in [Make -> Nat] /\ \A n \in Make : pos[n] \in 1..(Len(Items[n]) + 1)
      BY DEF TypeOK
    <3> QED
      BY <3>1, <3>2, <2>1
  <2>4. TypeOK'
    BY <1>5, <2>1, <2>2, <2>3, <2>p DEF Fork, TypeOK
  <2>5. Calling'
    BY <1>5, <2>1 DEF Fork, InLoop, TypeOK, Calling, Item
  <2> QED
    BY <2>4, <2>5
<1>6. ASSUME NEW m \in Make, EndLoop(m) PROVE Typed'
  BY <1>6 DEF EndLoop, TypeOK, Calling, Item
<1>7. ASSUME NEW m \in Make, JoinNext(m) PROVE Typed'
  <2>1. joined' \in [Make -> Nat] /\ crashed' \in BOOLEAN
    <3>1. joined' \in [Make -> Nat]
      BY <1>7 DEF JoinNext, TypeOK
    <3>2. crashed' \in BOOLEAN
      BY <1>7, Zenon DEF JoinNext
    <3> QED
      BY <3>1, <3>2
  <2>2. TypeOK'
    BY <1>7, <2>1 DEF JoinNext, TypeOK
  <2>3. Calling'
    BY <1>7 DEF JoinNext, Calling, Item
  <2> QED
    BY <2>2, <2>3
<1>8. ASSUME NEW m \in Make, WaitAll(m) PROVE Typed'
  <2>1. joined' \in [Make -> Nat] /\ crashed' \in BOOLEAN
    BY <1>8 DEF WaitAll, TypeOK
  <2>2. TypeOK'
    BY <1>8, <2>1 DEF WaitAll, TypeOK
  <2>3. Calling'
    BY <1>8 DEF WaitAll, Calling, Item
  <2> QED
    BY <2>2, <2>3
<1>9. ASSUME NEW m \in Make, Finish(m) PROVE Typed'
  BY <1>9 DEF Finish, TypeOK, Calling, Item
<1>10. CASE UNCHANGED vars
  BY <1>10 DEF vars, TypeOK, Calling, Item
<1>11. ASSUME NEW m \in Make, Advance(m) PROVE Typed'
  BY <1>11, <1>1, <1>2, <1>3, <1>4, <1>5, <1>6, <1>7, <1>8, <1>9, Zenon DEF Advance
<1> QED
  BY <1>10, <1>11, Zenon DEF Next, Ended

--------------------------------------------------------------------------------
(* The validation leaves the instructions untouched. *)
LEMMA ValidateStep == ASSUME IInv, NEW m \in Make, Validate(m) PROVE Ahead' /\ Behind' /\ ChildrenHeld' /\ Handles'
<1> USE DEF At, Typed
<1>1. Ahead'
  BY DEF IInv, Validate, TypeOK, Ahead, Fresh, Ran
<1>2. Behind'
  BY DEF IInv, Validate, TypeOK, Behind, Ran
<1>3. ChildrenHeld'
  <2> SUFFICES ASSUME NEW n \in Make, NEW c \in Children(n) \cap Make, Active(c)' PROVE Held(n, c)'
    BY DEF ChildrenHeld
  <2>1. Active(c)
    BY DEF Validate, Active, IInv, TypeOK
  <2>2. Held(n, c)
    BY <2>1 DEF IInv, ChildrenHeld
  <2>3. n # m
    BY <2>2 DEF Held, Validate
  <2> QED
    BY <2>2, <2>3 DEF Held, Validate, Item, IInv, TypeOK
<1>4. Handles'
  BY DEF IInv, Validate, TypeOK, Handles
<1> QED
  BY <1>1, <1>2, <1>3, <1>4

(* A call has returned: the element called is done. *)
LEMMA ReturnStep == ASSUME IInv, NEW m \in Make, Return(m) PROVE Ahead' /\ Behind' /\ ChildrenHeld' /\ Handles'
<1> USE DEF At, Typed
<1>a. /\ pc' = [pc EXCEPT ![m] = "loop"] /\ pos' = [pos EXCEPT ![m] = pos[m] + 1]
      /\ pos[m] \in Nat /\ UNCHANGED ran /\ pc[m] = "call" /\ pc[Item(m)] = "done"
  BY DEF Return, IInv, TypeOK
<1>1. Ahead'
  <2> SUFFICES ASSUME NEW n \in Make, NEW i \in DOMAIN Items[n],
                      (i > pos[n] \/ (i = pos[n] /\ pc[n] \in {"idle", "start", "loop"}))'
               PROVE  Fresh(Items[n][i])'
    BY DEF Ahead
  <2>1. i \in Nat /\ pos[n] \in Nat
    BY Numbers DEF IInv
  <2>2. i > pos[n] \/ (i = pos[n] /\ pc[n] \in {"idle", "start", "loop"})
    BY <1>a, <2>1 DEF IInv, TypeOK
  <2>3. Fresh(Items[n][i])
    BY <2>2 DEF IInv, Ahead
  <2> QED
    BY <1>a, <2>3 DEF Fresh, Ran, IInv, TypeOK
<1>2. Behind'
  <2> SUFFICES ASSUME NEW n \in Make, NEW i \in DOMAIN Items[n],
                      i < pos'[n], ~Forks(n, Items[n][i])
               PROVE  IF Items[n][i] \in Make THEN pc'[Items[n][i]] = "done" ELSE Items[n][i] \in Ran'
    BY DEF Behind, Forks, Pooled
  <2>1. i \in Nat /\ pos[n] \in Nat
    BY Numbers DEF IInv
  <2>2. CASE i < pos[n]
    BY <1>a, <2>2 DEF IInv, TypeOK, Behind, Ran
  <2>3. CASE n = m /\ i = pos[m]
    BY <1>a, <2>3 DEF Item, IInv, TypeOK, Calling
  <2> QED
    BY <1>a, <2>1, <2>2, <2>3 DEF IInv, TypeOK
<1>3. ChildrenHeld'
  BY DEF IInv, Return, TypeOK, ChildrenHeld, Held, Active, Item
<1>4. Handles'
  BY DEF IInv, Return, TypeOK, Handles
<1> QED
  BY <1>1, <1>2, <1>3, <1>4

(* The end of the loop. *)
LEMMA EndLoopStep == ASSUME IInv, NEW m \in Make, EndLoop(m) PROVE Ahead' /\ Behind' /\ ChildrenHeld' /\ Handles'
<1> USE DEF At, Typed
<1>1. Ahead'
  BY DEF IInv, EndLoop, TypeOK, Ahead, Fresh, Ran
<1>2. Behind'
  BY DEF IInv, EndLoop, TypeOK, Behind, Ran
<1>3. ChildrenHeld'
  BY DEF IInv, EndLoop, TypeOK, ChildrenHeld, Held, Active, Item
<1>4. Handles'
  BY DEF IInv, EndLoop, TypeOK, Handles
<1> QED
  BY <1>1, <1>2, <1>3, <1>4

(* A thread that is joined is done. *)
LEMMA JoinNextStep == ASSUME IInv, NEW m \in Make, JoinNext(m) PROVE Ahead' /\ Behind' /\ ChildrenHeld' /\ Handles'
<1> USE DEF At, Typed
<1>1. Ahead'
  BY DEF IInv, JoinNext, TypeOK, Ahead, Fresh, Ran
<1>2. Behind'
  BY DEF IInv, JoinNext, TypeOK, Behind, Ran
<1>3. ChildrenHeld'
  BY DEF IInv, JoinNext, TypeOK, ChildrenHeld, Held, Active, Item
<1>4. Handles'
  BY DEF IInv, JoinNext, TypeOK, Handles
<1> QED
  BY <1>1, <1>2, <1>3, <1>4

(* A wait that does not fail has waited for all threads. *)
LEMMA WaitAllStep == ASSUME IInv, NEW m \in Make, WaitAll(m), WaitSuffices PROVE Ahead' /\ Behind' /\ ChildrenHeld' /\ Handles'
<1> USE DEF At, Typed
<1>a. \A i \in DOMAIN pool[m] : pc[pool[m][i]] = "done"
  <2>1. ~CreateFails /\ MaxWait \in Nat /\ Len(Items[m]) <= MaxWait
    BY DEF WaitAll, WaitSuffices
  <2>2. Len(pool[m]) \in Nat /\ Len(pool[m]) < pos[m] /\ pos[m] <= Len(Items[m]) + 1
    BY MakeAssumption DEF IInv, TypeOK, Handles
  <2>3. \A i \in DOMAIN pool[m] : pool[m][i] # NULL
    BY <2>1, NullAssumption DEF IInv, Handles
  <2>4. ~WaitFails(m)
    BY <2>1, <2>2, <2>3, MakeAssumption DEF WaitFails, IInv, TypeOK
  <2> QED
    BY <2>4 DEF WaitAll
<1>1. Ahead'
  BY DEF IInv, WaitAll, TypeOK, Ahead, Fresh, Ran
<1>2. Behind'
  BY DEF IInv, WaitAll, TypeOK, Behind, Ran
<1>3. ChildrenHeld'
  <2> SUFFICES ASSUME NEW n \in Make, NEW c \in Children(n) \cap Make, Active(c)' PROVE Held(n, c)'
    BY DEF ChildrenHeld
  <2>1. Active(c) /\ UNCHANGED <<pc, pos, pool>> /\ \A k \in Make \ {m} : joined'[k] = joined[k]
    BY DEF WaitAll, Active, IInv, TypeOK
  <2>2. Held(n, c)
    BY <2>1 DEF IInv, ChildrenHeld
  <2>3. CASE n = m
    BY <1>a, <2>1, <2>2, <2>3 DEF Held, WaitAll, Active
  <2>4. CASE n # m
    BY <2>1, <2>2, <2>4 DEF Held, Item
  <2> QED
    BY <2>3, <2>4
<1>4. Handles'
  BY DEF IInv, WaitAll, TypeOK, Handles
<1> QED
  BY <1>1, <1>2, <1>3, <1>4

(* The pool is released when all its threads are joined. *)
LEMMA FinishStep == ASSUME IInv, NEW m \in Make, Finish(m) PROVE Ahead' /\ Behind' /\ ChildrenHeld' /\ Handles'
<1> USE DEF At, Typed
<1>1. Ahead'
  BY DEF IInv, Finish, TypeOK, Ahead, Fresh, Ran
<1>2. Behind'
  BY DEF IInv, Finish, TypeOK, Behind, Ran
<1>3. ChildrenHeld'
  BY DEF IInv, Finish, TypeOK, ChildrenHeld, Held, Active, Item
<1>4. Handles'
  BY DEF IInv, Finish, TypeOK, Handles
<1> QED
  BY <1>1, <1>2, <1>3, <1>4

(* An instruction is executed: it was untouched before. *)
LEMMA ExecuteStep == ASSUME IInv, NEW m \in Make, Execute(m) PROVE Ahead' /\ Behind' /\ ChildrenHeld' /\ Handles'
<1> USE DEF At, Typed
<1>a. /\ pos[m] \in DOMAIN Items[m] /\ Item(m) \in Step /\ Item(m) \notin Make
      /\ pc[m] = "loop" /\ pos[m] \in Nat
      /\ Ran' = Ran \cup {Item(m)}
      /\ \/ pos' = [pos EXCEPT ![m] = pos[m] + 1] /\ UNCHANGED pc
         \/ pc' = [pc EXCEPT ![m] = "join"] /\ UNCHANGED pos
  BY ItemKind, RanAppend DEF Execute, InLoop, IInv, TypeOK
<1>1. Ahead'
  <2> SUFFICES ASSUME NEW n \in Make, NEW i \in DOMAIN Items[n],
                      (i > pos[n] \/ (i = pos[n] /\ pc[n] \in {"idle", "start", "loop"}))'
               PROVE  Fresh(Items[n][i])'
    BY DEF Ahead
  <2>1. i \in Nat /\ pos[n] \in Nat
    BY Numbers DEF IInv
  <2>2. i > pos[n] \/ (i = pos[n] /\ pc[n] \in {"idle", "start", "loop"})
    BY <1>a, <2>1 DEF IInv, TypeOK
  <2>3. Fresh(Items[n][i])
    BY <2>2 DEF IInv, Ahead
  <2>0. n = m => i > pos[m]
    BY <1>a, <2>1 DEF IInv, TypeOK
  <2>4. Items[n][i] # Item(m)
    BY <1>a, <2>0, <2>1, ItemUnique DEF Item
  <2>5. CASE Items[n][i] \in Make
    BY <1>a, <2>3, <2>5 DEF Fresh, IInv, TypeOK
  <2>6. CASE Items[n][i] \notin Make
    BY <1>a, <2>3, <2>4, <2>6 DEF Fresh
  <2> QED
    BY <2>5, <2>6
<1>2. Behind'
  <2> SUFFICES ASSUME NEW n \in Make, NEW i \in DOMAIN Items[n],
                      i < pos'[n], ~Forks(n, Items[n][i])
               PROVE  IF Items[n][i] \in Make THEN pc'[Items[n][i]] = "done" ELSE Items[n][i] \in Ran'
    BY DEF Behind, Forks, Pooled
  <2>1. i \in Nat /\ pos[n] \in Nat
    BY Numbers DEF IInv
  <2>2. CASE i < pos[n]
    BY <1>a, <2>2 DEF IInv, TypeOK, Behind
  <2>3. CASE n = m /\ i = pos[m]
    BY <1>a, <2>3 DEF Item
  <2> QED
    BY <1>a, <2>1, <2>2, <2>3 DEF IInv, TypeOK
<1>3. ChildrenHeld'
  <2> SUFFICES ASSUME NEW n \in Make, NEW c \in Children(n) \cap Make, Active(c)' PROVE Held(n, c)'
    BY DEF ChildrenHeld
  <2>1. Active(c)
    BY <1>a DEF Active, IInv, TypeOK
  <2>2. Held(n, c)
    BY <2>1 DEF IInv, ChildrenHeld
  <2>3. UNCHANGED <<pool, joined>>
    BY DEF Execute
  <2> QED
    BY <1>a, <2>2, <2>3 DEF Held, Item, IInv, TypeOK
<1>4. Handles'
  <2> SUFFICES ASSUME NEW n \in Make
               PROVE  /\ Len(pool'[n]) < pos'[n] /\ joined'[n] <= Len(pool'[n])
                      /\ ~CreateFails => \A k \in DOMAIN pool'[n] : pool'[n][k] \in Make
    BY DEF Handles
  <2>1. UNCHANGED <<pool, joined>> /\ Len(pool[n]) \in Nat /\ pos[n] \in Nat /\ pos'[n] \in {pos[n], pos[n] + 1}
    BY <1>a DEF Execute, IInv, TypeOK
  <2> QED
    BY <2>1 DEF IInv, Handles
<1> QED
  BY <1>1, <1>2, <1>3, <1>4

(* A nested element is called: it was untouched, so nothing runs below it. *)
LEMMA CallStep == ASSUME IInv, NEW m \in Make, Call(m) PROVE Ahead' /\ Behind' /\ ChildrenHeld' /\ Handles'
<1> USE DEF At, Typed
<1>a. /\ pos[m] \in DOMAIN Items[m] /\ Item(m) \in Make /\ Item(m) \in Children(m)
      /\ pc[m] = "loop" /\ pos[m] \in Nat /\ UNCHANGED <<pos, pool, joined, ran>>
      /\ pc' = [pc EXCEPT ![m] = "call", ![Item(m)] = "start"]
  BY ItemKind DEF Call, InLoop, IInv, TypeOK
<1>b. pc[Item(m)] = "idle" /\ Item(m) # m
  BY <1>a DEF IInv, Ahead, Fresh, Item
<1>1. Ahead'
  <2> SUFFICES ASSUME NEW n \in Make, NEW i \in DOMAIN Items[n],
                      (i > pos[n] \/ (i = pos[n] /\ pc[n] \in {"idle", "start", "loop"}))'
               PROVE  Fresh(Items[n][i])'
    BY DEF Ahead
  <2>1. i \in Nat /\ pos[n] \in Nat
    BY Numbers DEF IInv
  <2>2. i > pos[n] \/ (i = pos[n] /\ pc[n] \in {"idle", "start", "loop"})
    BY <1>a, <1>b, <2>1 DEF IInv, TypeOK
  <2>3. Fresh(Items[n][i])
    BY <2>2 DEF IInv, Ahead
  <2>0. n = m => i > pos[m]
    BY <1>a, <1>b, <2>1 DEF IInv, TypeOK
  <2>4. Items[n][i] # Item(m)
    BY <1>a, <2>0, <2>1, ItemUnique DEF Item
  <2> QED
    BY <1>a, <2>3, <2>4 DEF Fresh, Ran, IInv, TypeOK
<1>2. Behind'
  <2> SUFFICES ASSUME NEW n \in Make, NEW i \in DOMAIN Items[n],
                      i < pos'[n], ~Forks(n, Items[n][i])
               PROVE  IF Items[n][i] \in Make THEN pc'[Items[n][i]] = "done" ELSE Items[n][i] \in Ran'
    BY DEF Behind, Forks, Pooled
  <2>1. i \in Nat /\ pos[n] \in Nat
    BY Numbers DEF IInv
  <2> QED
    BY <1>a, <1>b, <2>1 DEF IInv, TypeOK, Behind, Ran
<1>3. ChildrenHeld'
  <2> SUFFICES ASSUME NEW n \in Make, NEW c \in Children(n) \cap Make, Active(c)' PROVE Held(n, c)'
    BY DEF ChildrenHeld
  <2>1. CASE c = Item(m)
    <3>1. n = m
      BY <1>a, <2>1, ItemUnique DEF Children, Item
    <3> QED
      BY <1>a, <1>b, <2>1, <3>1 DEF Held, Item, IInv, TypeOK
  <2>2. CASE c # Item(m)
    <3>1. Active(c)
      BY <1>a, <2>2 DEF Active, IInv, TypeOK
    <3>2. Held(n, c)
      BY <3>1 DEF IInv, ChildrenHeld
    <3> QED
      BY <1>a, <1>b, <2>2, <3>2 DEF Held, Item, IInv, TypeOK
  <2> QED
    BY <2>1, <2>2
<1>4. Handles'
  BY DEF IInv, Call, TypeOK, Handles
<1> QED
  BY <1>1, <1>2, <1>3, <1>4

(* A nested element is forked, or its thread cannot be created. *)
LEMMA ForkStep == ASSUME IInv, NEW m \in Make, Fork(m) PROVE Ahead' /\ Behind' /\ ChildrenHeld' /\ Handles'
<1> USE DEF At, Typed
<1>a. /\ pos[m] \in DOMAIN Items[m] /\ Item(m) \in Make /\ Item(m) \in Children(m)
      /\ pc[m] = "loop" /\ pos[m] \in Nat /\ UNCHANGED <<joined, ran>>
      /\ pos' = [pos EXCEPT ![m] = pos[m] + 1] /\ Forks(m, Item(m))
  <2>1. pos[m] <= Len(Items[m]) /\ pc[m] = "loop" /\ Forks(m, Item(m))
    BY DEF Fork, InLoop
  <2>2. pos[m] \in Nat /\ Item(m) \in Make
    BY <2>1 DEF IInv, TypeOK, Forks
  <2>3. pos[m] \in DOMAIN Items[m] /\ Item(m) \in Children(m)
    BY <2>1, ItemKind DEF IInv
  <2>4. UNCHANGED <<joined, ran>> /\ pos' = [pos EXCEPT ![m] = pos[m] + 1]
    BY DEF Fork
  <2> QED
    BY <2>1, <2>2, <2>3, <2>4
<1>b. pc[Item(m)] = "idle" /\ Item(m) # m
  BY <1>a DEF IInv, Ahead, Fresh, Item
<1>c. PICK h \in Make \cup {NULL, Garbage} :
        /\ pool' = [pool EXCEPT ![m] = Append(pool[m], h)]
        /\ \/ h = Item(m) /\ pc' = [pc EXCEPT ![Item(m)] = "start"]
           \/ CreateFails /\ UNCHANGED pc
  BY <1>a DEF Fork, FailedHandle
<1>d. /\ pool[m] \in Seq(Make \cup {NULL, Garbage}) /\ Len(pool[m]) \in Nat
      /\ DOMAIN pool'[m] = 1..(Len(pool[m]) + 1) /\ Len(pool'[m]) = Len(pool[m]) + 1
      /\ DOMAIN pool[m] = 1..Len(pool[m])
      /\ \A k \in DOMAIN pool[m] : pool'[m][k] = pool[m][k]
      /\ pool'[m][Len(pool[m]) + 1] = h
      /\ \A n \in Make \ {m} : pool'[n] = pool[n]
  <2>1. pool[m] \in Seq(Make \cup {NULL, Garbage}) /\ pool'[m] = Append(pool[m], h)
    BY <1>c DEF IInv, TypeOK
  <2>2. \A n \in Make \ {m} : pool'[n] = pool[n]
    BY <1>c DEF IInv, TypeOK
  <2> QED
    BY <2>1, <2>2
<1>1. Ahead'
  <2> SUFFICES ASSUME NEW n \in Make, NEW i \in DOMAIN Items[n],
                      (i > pos[n] \/ (i = pos[n] /\ pc[n] \in {"idle", "start", "loop"}))'
               PROVE  Fresh(Items[n][i])'
    BY DEF Ahead
  <2>1. i \in Nat /\ pos[n] \in Nat
    BY Numbers DEF IInv
  <2>2. i > pos[n] \/ (i = pos[n] /\ pc[n] \in {"idle", "start", "loop"})
    BY <1>a, <1>b, <1>c, <2>1 DEF IInv, TypeOK
  <2>3. Fresh(Items[n][i])
    BY <2>2 DEF IInv, Ahead
  <2>0. n = m => i > pos[m]
    BY <1>a, <1>b, <1>c, <2>1 DEF IInv, TypeOK
  <2>4. Items[n][i] # Item(m)
    BY <1>a, <2>0, <2>1, ItemUnique DEF Item
  <2> QED
    BY <1>a, <1>c, <2>3, <2>4 DEF Fresh, Ran, IInv, TypeOK
<1>2. Behind'
  <2> SUFFICES ASSUME NEW n \in Make, NEW i \in DOMAIN Items[n],
                      i < pos'[n], ~Forks(n, Items[n][i])
               PROVE  IF Items[n][i] \in Make THEN pc'[Items[n][i]] = "done" ELSE Items[n][i] \in Ran'
    BY DEF Behind, Forks, Pooled
  <2>1. i \in Nat /\ pos[n] \in Nat
    BY Numbers DEF IInv
  <2>2. i < pos[n]
    BY <1>a, <2>1 DEF Item, IInv, TypeOK
  <2> QED
    BY <1>a, <1>b, <1>c, <2>2 DEF IInv, TypeOK, Behind, Ran
<1>3. ChildrenHeld'
  <2> SUFFICES ASSUME NEW n \in Make, NEW c \in Children(n) \cap Make, Active(c)' PROVE Held(n, c)'
    BY DEF ChildrenHeld
  <2>1. CASE h = Item(m) /\ c = Item(m) /\ pc' = [pc EXCEPT ![Item(m)] = "start"]
    <3>1. n = m
      BY <1>a, <2>1, ItemUnique DEF Children, Item
    <3>2. pool'[m][Len(pool[m]) + 1] = c /\ Len(pool[m]) + 1 \in DOMAIN pool'[m]
      BY <1>d, <2>1
    <3>3. Len(pool[m]) + 1 > joined'[m]
      BY <1>a, <1>d DEF IInv, TypeOK, Handles
    <3>4. pc'[m] = "loop"
      BY <1>a, <1>b, <2>1 DEF IInv, TypeOK
    <3> QED
      BY <3>1, <3>2, <3>3, <3>4 DEF Held
  <2>2. CASE ~(h = Item(m) /\ c = Item(m) /\ pc' = [pc EXCEPT ![Item(m)] = "start"])
    <3>1. Active(c)
      BY <1>a, <1>c, <2>2 DEF Active, IInv, TypeOK
    <3>2. Held(n, c)
      BY <3>1 DEF IInv, ChildrenHeld
    <3>3. CASE n = m
      <4>1. PICK k \in DOMAIN pool[m] : k > joined[m] /\ pool[m][k] = c
        BY <1>a, <3>2, <3>3 DEF Held
      <4>2. k \in DOMAIN pool'[m] /\ pool'[m][k] = c
        BY <1>d, <4>1
      <4>3. pc'[m] = "loop" /\ joined'[m] = joined[m]
        BY <1>a, <1>b, <1>c DEF IInv, TypeOK
      <4> QED
        BY <3>3, <4>1, <4>2, <4>3 DEF Held
    <3>4. CASE n # m
      BY <1>a, <1>b, <1>c, <1>d, <3>2, <3>4 DEF Held, Item, IInv, TypeOK
    <3> QED
      BY <3>3, <3>4
  <2> QED
    BY <2>1, <2>2
<1>4. Handles'
  BY <1>a, <1>c, <1>d DEF IInv, TypeOK, Handles
<1> QED
  BY <1>1, <1>2, <1>3, <1>4

--------------------------------------------------------------------------------
(* Every action keeps the invariant, if the waiting for threads suffices. *)
LEMMA StepIInv == ASSUME WaitSuffices PROVE IInv /\ [Next]_vars => IInv'
<1> SUFFICES ASSUME IInv, [Next]_vars PROVE IInv'
  OBVIOUS
<1>1. Typed'
  BY TypedStep DEF IInv
<1>2. ASSUME NEW m \in Make, Advance(m) PROVE Ahead' /\ Behind' /\ ChildrenHeld' /\ Handles'
  BY <1>2, ValidateStep, ExecuteStep, CallStep, ReturnStep, ForkStep, EndLoopStep,
     JoinNextStep, WaitAllStep, FinishStep DEF Advance
<1>3. CASE UNCHANGED vars
  <2>1. UNCHANGED <<pc, pos, pool, joined, ran>>
    BY <1>3 DEF vars
  <2>2. Ahead' /\ Behind'
    BY <2>1 DEF IInv, Ahead, Behind, Fresh, Ran
  <2>3. ChildrenHeld' /\ Handles'
    BY <2>1 DEF IInv, ChildrenHeld, Handles, Held, Active, Item
  <2> QED
    BY <1>1, <2>2, <2>3 DEF IInv
<1> QED
  BY <1>1, <1>2, <1>3, Zenon DEF Next, Ended, IInv

(* The variables have their types, whatever the elements and the library. *)
THEOREM Typing == Spec => []TypeOK
<1>1. Init => Typed
  BY InitIInv DEF IInv
<1>2. Typed /\ [Next]_vars => Typed'
  BY TypedStep
<1>3. Typed => TypeOK
  BY DEF Typed
<1> QED
  BY <1>1, <1>2, <1>3, PTL DEF Spec

(* The invariant: what is behind the current instruction is done or in the  *)
(* pool, what is ahead is untouched, and an element that ended holds nothing *)
(* that runs.                                                               *)
THEOREM Invariance == ASSUME WaitSuffices PROVE Spec => []IInv
<1>1. Init => IInv
  BY InitIInv
<1>2. IInv /\ [Next]_vars => IInv'
  BY StepIInv
<1> QED
  BY <1>1, <1>2, PTL DEF Spec

(* Every thread is joined before the processing of its element returns: the  *)
(* loop of cxpThreadPoolJoin() misses no handle, and a wait that fails is    *)
(* excluded.                                                                 *)
THEOREM Joining == ASSUME WaitSuffices PROVE Spec => []JoinedAll
<1>1. IInv => JoinedAll
  BY DEF IInv, ChildrenHeld, Held, JoinedAll
<1> QED
  BY <1>1, Invariance, PTL

--------------------------------------------------------------------------------
(* At the start every instruction of the abstract fork and join is to do,    *)
(* but the outermost one, which is active.                                  *)
LEMMA InitForkJoin == Init => ForkJoin!Init
<1> SUFFICES ASSUME Init PROVE ForkJoin!Init
  OBVIOUS
<1>1. ForkJoin!Item = Make \cup Step
  BY DEF ForkJoin!Item, Step, Children
<1> QED
  BY <1>1, MakeAssumption DEF ForkJoin!Init, Status, Active, Init

(* A status changes only where the processing does. *)
LEMMA StatusIs ==
  /\ \A x \in Make : Status[x] = IF Active(x) THEN "active" ELSE IF pc[x] = "done" THEN "done" ELSE "todo"
  /\ \A x \in Step : Status[x] = IF x \in Ran THEN "done" ELSE "todo"
  /\ Make \cap Step = {}
BY DEF Status, Step, Ran

(* No instruction of an element is active when it has no handle left. *)
LEMMA EndsForkJoin ==
  ASSUME IInv, NEW m \in Make, pc[m] \in {"start", "join"}, joined[m] = Len(pool[m]) \/ pc[m] = "start",
         pc' = [pc EXCEPT ![m] = "done"], UNCHANGED ran
  PROVE  ForkJoin!End(m)
<1>1. Status[m] = "active"
  BY StatusIs DEF Active
<1>2. ASSUME NEW i \in DOMAIN Items[m] PROVE Status[Items[m][i]] # "active"
  <2>1. CASE Items[m][i] \in Make
    <3>1. Items[m][i] \in Children(m) \cap Make
      BY <2>1 DEF Children
    <3>2. ~Held(m, Items[m][i])
      BY DEF Held, IInv, Typed, TypeOK
    <3>3. ~Active(Items[m][i])
      BY <3>1, <3>2 DEF IInv, ChildrenHeld
    <3> QED
      BY <2>1, <3>3, StatusIs
  <2>2. CASE Items[m][i] \notin Make
    <3>1. Items[m][i] \in Step
      BY <2>2 DEF Step, Children
    <3> QED
      BY <3>1, StatusIs
  <2> QED
    BY <2>1, <2>2
<1>3. Status' = [Status EXCEPT ![m] = "done"]
  BY DEF Status, Active, IInv, Typed, TypeOK
<1> QED
  BY <1>1, <1>2, <1>3 DEF ForkJoin!End

(* The instructions before the current one are done, or forked. *)
LEMMA ReadyForkJoin ==
  ASSUME IInv, NEW m \in Make, pc[m] = "loop", pos[m] <= Len(Items[m])
  PROVE  ForkJoin!Ready(m, pos[m])
<1> DEFINE F == {c \in Make \ Inline : \E n \in Make : Pooled(n) /\ c \in Children(n)}
<1>1. Status[m] = "active"
  BY StatusIs DEF Active
<1>2. pos[m] \in DOMAIN Items[m] /\ Item(m) \in Make \cup Step
  BY ItemKind DEF IInv, Typed
<1>3. Fresh(Item(m))
  BY <1>2 DEF IInv, Ahead, Item
<1>4. Status[Items[m][pos[m]]] = "todo"
  BY <1>2, <1>3, StatusIs DEF Fresh, Active, Item
<1>5. ASSUME NEW j \in 1..(pos[m] - 1), Items[m][j] \notin F
      PROVE  Status[Items[m][j]] = "done"
  <2>1. j \in DOMAIN Items[m] /\ j < pos[m]
    BY MakeAssumption DEF IInv, Typed, TypeOK
  <2>2. Items[m][j] \in Children(m)
    BY <2>1 DEF Children
  <2>3. ~Forks(m, Items[m][j])
    BY <1>5, <2>2 DEF Forks
  <2>4. CASE Items[m][j] \in Make
    <3>1. pc[Items[m][j]] = "done"
      BY <2>1, <2>3, <2>4 DEF IInv, Behind
    <3> QED
      BY <2>4, <3>1, StatusIs DEF Active
  <2>5. CASE Items[m][j] \notin Make
    <3>1. Items[m][j] \in Step /\ Items[m][j] \in Ran
      BY <2>1, <2>2, <2>3, <2>5 DEF IInv, Behind, Step
    <3> QED
      BY <3>1, StatusIs
  <2> QED
    BY <2>4, <2>5
<1> QED
  BY <1>1, <1>4, <1>5 DEF ForkJoin!Ready

(* Every step of a thread is a step of the abstract fork and join, or none. *)
LEMMA NextForkJoin ==
  ASSUME IInv, IInv', [Next]_vars, WaitSuffices
  PROVE  [ForkJoin!Next]_Status
<1> USE DEF At
<1>1. ASSUME NEW m \in Make, Validate(m) PROVE [ForkJoin!Next]_Status
  <2>1. CASE pc' = [pc EXCEPT ![m] = "loop"]
    BY <1>1, <2>1 DEF Validate, Status, Active, IInv, Typed, TypeOK
  <2>2. CASE pc' = [pc EXCEPT ![m] = "done"]
    BY <1>1, <2>2, EndsForkJoin DEF Validate, ForkJoin!Next
  <2> QED
    BY <1>1, <2>1, <2>2 DEF Validate
<1>2. ASSUME NEW m \in Make, Execute(m) PROVE [ForkJoin!Next]_Status
  <2>1. pos[m] <= Len(Items[m]) /\ pc[m] = "loop" /\ Item(m) \notin Make
    BY <1>2 DEF Execute, InLoop
  <2>2. pos[m] \in DOMAIN Items[m] /\ Item(m) \in Step
    BY <2>1, ItemKind DEF IInv, Typed
  <2>3. Ran' = Ran \cup {Item(m)}
    BY <1>2, <2>2, RanAppend DEF Execute, IInv, Typed, TypeOK
  <2>4. \A x \in Make : Active(x)' = Active(x) /\ (pc'[x] = "done" <=> pc[x] = "done")
    BY <1>2, <2>1 DEF Execute, Active, IInv, Typed, TypeOK
  <2>5. Status' = [Status EXCEPT ![Item(m)] = "done"]
    <3>1. ASSUME NEW x \in Make PROVE Status'[x] = [Status EXCEPT ![Item(m)] = "done"][x]
      BY <2>1, <2>4, <3>1 DEF Status
    <3>2. ASSUME NEW x \in Step PROVE Status'[x] = [Status EXCEPT ![Item(m)] = "done"][x]
      BY <2>3, <3>2, StatusIs DEF Status, Ran
    <3> QED
      BY <3>1, <3>2 DEF Status
  <2> QED
    BY <2>1, <2>2, <2>5, ReadyForkJoin DEF ForkJoin!Do, ForkJoin!Next, Item
<1>3. ASSUME NEW m \in Make, Call(m) PROVE [ForkJoin!Next]_Status
  <2>1. /\ pos[m] <= Len(Items[m]) /\ pc[m] = "loop" /\ Item(m) \in Make
        /\ pc' = [pc EXCEPT ![m] = "call", ![Item(m)] = "start"] /\ UNCHANGED ran
    BY <1>3 DEF Call, InLoop
  <2>2. pos[m] \in DOMAIN Items[m]
    BY <2>1, ItemKind DEF IInv, Typed
  <2>3. Status' = [Status EXCEPT ![Item(m)] = "active"]
    BY <2>1 DEF Status, Active, IInv, Typed, TypeOK
  <2> QED
    BY <2>1, <2>2, <2>3, ReadyForkJoin DEF ForkJoin!Begin, ForkJoin!Next, Item
<1>4. ASSUME NEW m \in Make, Fork(m) PROVE [ForkJoin!Next]_Status
  <2>1. pos[m] <= Len(Items[m]) /\ pc[m] = "loop" /\ Item(m) \in Make /\ UNCHANGED ran
    BY <1>4 DEF Fork, InLoop, Forks
  <2>2. pos[m] \in DOMAIN Items[m]
    BY <2>1, ItemKind DEF IInv, Typed
  <2>3. CASE pc' = [pc EXCEPT ![Item(m)] = "start"]
    <3>1. Status' = [Status EXCEPT ![Item(m)] = "active"]
      BY <2>1, <2>3 DEF Status, Active, IInv, Typed, TypeOK
    <3> QED
      BY <2>1, <2>2, <3>1, ReadyForkJoin DEF ForkJoin!Begin, ForkJoin!Next, Item
  <2>4. CASE UNCHANGED pc
    BY <2>1, <2>4 DEF Status, Active
  <2> QED
    BY <1>4, <2>3, <2>4 DEF Fork
<1>5. ASSUME NEW m \in Make, Finish(m) PROVE [ForkJoin!Next]_Status
  BY <1>5, EndsForkJoin DEF Finish, ForkJoin!Next
<1>6. ASSUME NEW m \in Make, Return(m) \/ EndLoop(m) PROVE [ForkJoin!Next]_Status
  BY <1>6 DEF Return, EndLoop, Status, Active, IInv, Typed, TypeOK
<1>7. ASSUME NEW m \in Make, JoinNext(m) \/ WaitAll(m) \/ UNCHANGED vars PROVE [ForkJoin!Next]_Status
  BY <1>7 DEF JoinNext, WaitAll, vars, Status, Active
<1>8. CASE UNCHANGED vars
  BY <1>8 DEF vars, Status, Active
<1>9. ASSUME NEW m \in Make, Advance(m) PROVE [ForkJoin!Next]_Status
  BY <1>9, <1>1, <1>2, <1>3, <1>4, <1>5, <1>6, <1>7, Zenon DEF Advance
<1> QED
  BY <1>8, <1>9, Zenon DEF Next, Ended

(* The threads, pools and joins implement the fork and join of CxpForkJoin:   *)
(* no instruction begins before those it follows are done, and no element    *)
(* ends with an instruction running.                                         *)
THEOREM Implementation == ASSUME WaitSuffices PROVE Spec => ForkJoinSpec
<1>1. Init => ForkJoin!Init
  BY InitForkJoin
<1>2. IInv /\ IInv' /\ [Next]_vars => [ForkJoin!Next]_Status
  BY NextForkJoin
<1> QED
  BY <1>1, <1>2, Invariance, PTL DEF Spec, ForkJoinSpec, ForkJoin!Spec

--------------------------------------------------------------------------------
(* Contexts.  What follows holds for every library, also when a wait fails.  *)

(* A nested element ahead was not started. *)
Unstarted ==
  \A m \in Make : \A i \in DOMAIN Items[m] :
    /\ i > pos[m] \/ (i = pos[m] /\ pc[m] \in {"idle", "start", "loop"})
    /\ Items[m][i] \in Make
    => pc[Items[m][i]] = "idle"

(* An element has passed on its context to the one that it calls. *)
Passed(m) == pc[m] = "call" /\ Active(Item(m)) /\ ctx[Item(m)] = ctx[m]

(* All elements in a context but one have passed it on. *)
Exclusive ==
  \A m, n \in Make : m # n /\ Active(m) /\ Active(n) /\ ctx[m] = ctx[n] => Passed(m) \/ Passed(n)

(* A context that was made for an element is of an element that was started. *)
Made ==
  \A m, k \in Make : Active(m) =>
    /\ ctx[m] = <<k, "attr">> => pc[k] \notin {"idle", "start"}
    /\ ctx[m] = <<k, "thread">> => pc[k] # "idle"

ContextInv == Typed /\ Unstarted /\ Exclusive /\ Made

(* An element that goes on leaves the elements ahead unstarted, if it starts *)
(* the current one at most and goes to the next then.                        *)
LEMMA UnstartedKept ==
  ASSUME Typed, Unstarted, NEW m \in Make,
         \/ /\ UNCHANGED pos
            /\ \E v \in {"start", "loop", "call", "join", "done"} :
                 pc' = [pc EXCEPT ![m] = v] /\ (v \in {"idle", "start", "loop"} => pc[m] \in {"idle", "start", "loop"})
            /\ pc[m] # "idle"
         \/ pos' = [pos EXCEPT ![m] = pos[m] + 1] /\ pc' = [pc EXCEPT ![m] = "loop"] /\ pc[m] # "idle"
  PROVE  Unstarted'
<1> SUFFICES ASSUME NEW n \in Make, NEW i \in DOMAIN Items[n],
                    (i > pos[n] \/ (i = pos[n] /\ pc[n] \in {"idle", "start", "loop"}))',
                    Items[n][i] \in Make
             PROVE  pc'[Items[n][i]] = "idle"
  BY DEF Unstarted
<1>1. i \in Nat /\ pos[n] \in Nat /\ pos[m] \in Nat
  BY Numbers DEF Typed, TypeOK
<1>2. i > pos[n] \/ (i = pos[n] /\ pc[n] \in {"idle", "start", "loop"})
  BY <1>1 DEF Typed, TypeOK
<1>3. pc[Items[n][i]] = "idle"
  BY <1>2 DEF Unstarted
<1> QED
  BY <1>3 DEF Typed, TypeOK

(* The current element is started. *)
LEMMA UnstartedBegun ==
  ASSUME Typed, Unstarted, NEW m \in Make, pos[m] \in DOMAIN Items[m], Item(m) \in Make, pc[m] = "loop",
         \/ UNCHANGED pos /\ pc' = [pc EXCEPT ![m] = "call", ![Item(m)] = "start"]
         \/ pos' = [pos EXCEPT ![m] = pos[m] + 1] /\ pc' \in {pc, [pc EXCEPT ![Item(m)] = "start"]}
  PROVE  Unstarted'
<1>0. pc[Item(m)] = "idle" /\ Item(m) # m
  BY DEF Unstarted, Item
<1> SUFFICES ASSUME NEW n \in Make, NEW i \in DOMAIN Items[n],
                    (i > pos[n] \/ (i = pos[n] /\ pc[n] \in {"idle", "start", "loop"}))',
                    Items[n][i] \in Make
             PROVE  pc'[Items[n][i]] = "idle"
  BY DEF Unstarted
<1>1. i \in Nat /\ pos[n] \in Nat /\ pos[m] \in Nat
  BY Numbers DEF Typed, TypeOK
<1>t. /\ pc \in [Make -> {"idle", "start", "loop", "call", "join", "done"}]
      /\ pos \in [Make -> Nat]
  BY DEF Typed, TypeOK
<1>2. i > pos[n] \/ (i = pos[n] /\ pc[n] \in {"idle", "start", "loop"})
  <2>1. CASE n = m
    BY <1>0, <1>1, <1>t, <2>1
  <2>2. CASE n # m
    <3>1. pos'[n] = pos[n] /\ (n # Item(m) => pc'[n] = pc[n])
      BY <1>t, <2>2
    <3> QED
      BY <1>0, <3>1
  <2> QED BY <2>1, <2>2
<1>3. pc[Items[n][i]] = "idle"
  BY <1>2 DEF Unstarted
<1>4. n = m => i > pos[m]
  BY <1>0, <1>1 DEF Typed, TypeOK
<1>5. Items[n][i] # Item(m)
  BY <1>1, <1>4, ItemUnique DEF Item
<1>6. Items[n][i] # m
  BY <1>3
<1> QED
  BY <1>3, <1>5, <1>6 DEF Typed, TypeOK

(* Two elements do not call the same one. *)
LEMMA CallerUnique ==
  ASSUME Typed, NEW x \in Make, NEW y \in Make, pc[x] = "call", pc[y] = "call", Item(x) = Item(y)
  PROVE  x = y
<1>1. pos[x] \in DOMAIN Items[x] /\ pos[y] \in DOMAIN Items[y]
  BY ItemKind DEF Typed, Calling
<1> QED
  BY <1>1, ItemUnique DEF Item

(* An element goes on in its context, which it had not passed on, or ends or *)
(* takes another one that nobody has.                                        *)
LEMMA ExclusiveKept ==
  ASSUME Typed, Exclusive, NEW m \in Make, ~Passed(m), Active(m),
         NEW v \in {"start", "loop", "join", "done"}, pc' = [pc EXCEPT ![m] = v],
         \A n \in Make \ {m} : pos'[n] = pos[n],
         \A n \in Make \ {m} : ctx'[n] = ctx[n],
         ctx'[m] = ctx[m] \/ \A n \in Make : Active(n) => ctx[n] # ctx'[m]
  PROVE  Exclusive'
<1> SUFFICES ASSUME NEW x \in Make, NEW y \in Make, x # y, Active(x)', Active(y)', ctx'[x] = ctx'[y]
             PROVE  Passed(x)' \/ Passed(y)'
  BY DEF Exclusive
<1>1. \A n \in Make : Active(n)' => Active(n)
  BY DEF Active, Typed, TypeOK
<1>2. Active(x) /\ Active(y)
  BY <1>1
<1>3. ctx[x] = ctx[y] /\ ((x = m \/ y = m) => ctx'[m] = ctx[m])
  BY <1>2
<1>4. Passed(x) \/ Passed(y)
  BY <1>2, <1>3 DEF Exclusive
<1>5. \A n \in Make \ {m} : Item(n)' = Item(n) /\ pc'[n] = pc[n]
  BY DEF Item, Typed, TypeOK
<1>6. ASSUME NEW n \in Make, Passed(n), Item(n) # m \/ (Active(m)' /\ ctx'[m] = ctx[m])
      PROVE  Passed(n)'
  <2>1. n \in Make \ {m} /\ pc'[n] = "call" /\ Item(n)' = Item(n) /\ Item(n) \in Make /\ ctx'[n] = ctx[n]
    BY <1>5, <1>6 DEF Passed, Typed, Calling
  <2>2. Active(Item(n))' /\ ctx'[Item(n)] = ctx[Item(n)]
    BY <1>5, <1>6, <2>1 DEF Passed, Active
  <2> QED
    BY <1>6, <2>1, <2>2 DEF Passed
<1>7. CASE x = m \/ y = m
  BY <1>3, <1>4, <1>6, <1>7
<1>8. ASSUME x # m, y # m, NEW n \in {x, y}, NEW o \in {x, y}, o # n, Passed(n), Item(n) = m
      PROVE  Passed(o)'
  <2>1. ctx[m] = ctx[n] /\ ctx[o] = ctx[m] /\ Active(o)
    BY <1>2, <1>3, <1>8 DEF Passed
  <2>2. Passed(o)
    BY <1>8, <2>1 DEF Exclusive
  <2>3. Item(o) # m
    BY <1>8, <2>2, CallerUnique DEF Passed
  <2> QED
    BY <1>6, <2>2, <2>3
<1> QED
  BY <1>4, <1>6, <1>7, <1>8

(* The caller passes its context on. *)
LEMMA ExclusiveCall ==
  ASSUME Typed, Exclusive, NEW m \in Make, pc[m] = "loop", Item(m) \in Make, pc[Item(m)] = "idle",
         pc' = [pc EXCEPT ![m] = "call", ![Item(m)] = "start"], UNCHANGED pos,
         ctx' = [ctx EXCEPT ![Item(m)] = ctx[m]]
  PROVE  Exclusive'
<1> DEFINE c == Item(m)
<1> SUFFICES ASSUME NEW x \in Make, NEW y \in Make, x # y, Active(x)', Active(y)', ctx'[x] = ctx'[y]
             PROVE  Passed(x)' \/ Passed(y)'
  BY DEF Exclusive
<1>1. \A n \in Make : Item(n)' = Item(n)
  BY DEF Item
<1>2. pc \in [Make -> {"idle", "start", "loop", "call", "join", "done"}] /\ ctx \in [Make -> Context \cup {NULL}]
  BY DEF Typed, TypeOK
<1>3. Passed(m)'
  BY <1>1, <1>2 DEF Passed, Active
<1>4. ASSUME NEW n \in Make, Passed(n)
      PROVE  Passed(n)'
  <2>1. n # m /\ n # c /\ Item(n) # c /\ Item(n) \in Make
    BY <1>4 DEF Passed, Active, Typed, Calling
  <2>t. pc'[n] = pc[n] /\ ctx'[n] = ctx[n] /\ ctx'[Item(n)] = ctx[Item(n)]
    BY <1>2, <2>1
  <2>a. pc'[Item(n)] \in {pc[Item(n)], "call"}
    BY <1>2, <2>1
  <2>2. pc'[n] = pc[n] /\ ctx'[n] = ctx[n] /\ ctx'[Item(n)] = ctx[Item(n)] /\ Active(Item(n))'
    BY <1>1, <1>4, <2>1, <2>t, <2>a DEF Passed, Active
  <2> QED
    BY <1>1, <1>4, <2>2 DEF Passed
<1>5. ~Passed(m) /\ Active(m)
  BY DEF Passed, Active
<1>6. \A n \in Make \ {c} : ctx'[n] = ctx[n] /\ (Active(n)' => Active(n))
  BY <1>2 DEF Active
<1>7. ctx'[c] = ctx[m]
  BY <1>2
<1>8. CASE x = c \/ y = c
  BY <1>3, <1>4, <1>5, <1>6, <1>7, <1>8 DEF Exclusive
<1>9. CASE x # c /\ y # c
  BY <1>4, <1>6, <1>9 DEF Exclusive
<1> QED
  BY <1>8, <1>9

(* The thread gets a context that nobody has. *)
LEMMA ExclusiveFork ==
  ASSUME Typed, Exclusive, Made, NEW m \in Make, pc[m] = "loop", Item(m) \in Make, pc[Item(m)] = "idle",
         pc' \in {pc, [pc EXCEPT ![Item(m)] = "start"]}, pos' = [pos EXCEPT ![m] = pos[m] + 1],
         ctx' = [ctx EXCEPT ![Item(m)] = <<Item(m), "thread">>]
  PROVE  Exclusive'
<1> DEFINE c == Item(m)
<1> SUFFICES ASSUME NEW x \in Make, NEW y \in Make, x # y, Active(x)', Active(y)', ctx'[x] = ctx'[y]
             PROVE  Passed(x)' \/ Passed(y)'
  BY DEF Exclusive
<1>1. \A n \in Make \ {m} : Item(n)' = Item(n)
  BY DEF Item, Typed, TypeOK
<1>2. pc \in [Make -> {"idle", "start", "loop", "call", "join", "done"}] /\ ctx \in [Make -> Context \cup {NULL}]
  BY DEF Typed, TypeOK
<1>4. ASSUME NEW n \in Make, Passed(n)
      PROVE  Passed(n)'
  <2>1. n # m /\ n # c /\ Item(n) # c /\ Item(n) \in Make
    BY <1>4 DEF Passed, Active, Typed, Calling
  <2>t. pc'[n] = pc[n] /\ ctx'[n] = ctx[n] /\ ctx'[Item(n)] = ctx[Item(n)]
    BY <1>2, <2>1
  <2>a. pc'[Item(n)] \in {pc[Item(n)], "call"}
    BY <1>2, <2>1
  <2>2. pc'[n] = pc[n] /\ ctx'[n] = ctx[n] /\ ctx'[Item(n)] = ctx[Item(n)] /\ Active(Item(n))'
    BY <1>1, <1>4, <2>1, <2>t, <2>a DEF Passed, Active
  <2> QED
    BY <1>1, <1>4, <2>1, <2>2 DEF Passed
<1>6. \A n \in Make \ {c} : ctx'[n] = ctx[n] /\ (Active(n)' => Active(n))
  BY <1>2 DEF Active
<1>7. ctx'[c] = <<c, "thread">>
  BY <1>2
<1>8. CASE x = c \/ y = c
  BY <1>6, <1>7, <1>8 DEF Made
<1>9. CASE x # c /\ y # c
  BY <1>4, <1>6, <1>9 DEF Exclusive
<1> QED
  BY <1>8, <1>9

(* A context that was made stays of a started element: elements are started  *)
(* once, and get a context of their own, their caller's, or none.            *)
LEMMA MadeKept ==
  ASSUME Typed, Made,
         \A n \in Make : /\ pc[n] # "idle" => pc'[n] # "idle"
                         /\ pc[n] \notin {"idle", "start"} => pc'[n] \notin {"idle", "start"},
         \A n \in Make : Active(n)' =>
           \/ \E o \in Make : Active(o) /\ ctx'[n] = ctx[o]
           \/ ctx'[n] = <<n, "attr">> /\ pc'[n] \notin {"idle", "start"}
           \/ ctx'[n] = <<n, "thread">> /\ pc'[n] # "idle"
  PROVE  Made'
<1> SUFFICES ASSUME NEW n \in Make, NEW k \in Make, Active(n)'
             PROVE  /\ ctx'[n] = <<k, "attr">> => pc'[k] \notin {"idle", "start"}
                    /\ ctx'[n] = <<k, "thread">> => pc'[k] # "idle"
  BY DEF Made
<1>1. CASE \E o \in Make : Active(o) /\ ctx'[n] = ctx[o]
  BY <1>1 DEF Made
<1>2. CASE ctx'[n] = <<n, "attr">> /\ pc'[n] \notin {"idle", "start"}
  BY <1>2
<1>3. CASE ctx'[n] = <<n, "thread">> /\ pc'[n] # "idle"
  BY <1>3
<1> QED
  BY <1>1, <1>2, <1>3

LEMMA InitContextInv == Init => ContextInv
<1> SUFFICES ASSUME Init PROVE ContextInv
  OBVIOUS
<1>1. Typed
  BY InitIInv DEF IInv
<1>2. Unstarted
  BY MakeAssumption DEF Unstarted, Init, Children
<1>3. Exclusive /\ Made
  BY DEF Exclusive, Made, Init, Active, Main
<1> QED
  BY <1>1, <1>2, <1>3 DEF ContextInv

(* The steps that keep the contexts, and end the activation at most. *)
LEMMA SameContextStep ==
  ASSUME ContextInv, NEW m \in Make, Execute(m) \/ Return(m) \/ EndLoop(m) \/ Finish(m)
  PROVE  Unstarted' /\ Exclusive' /\ Made'
<1> USE DEF ContextInv, At
<1>t. pc \in [Make -> {"idle", "start", "loop", "call", "join", "done"}] /\ pos \in [Make -> Nat]
  BY DEF Typed, TypeOK
<1>1. PICK v \in {"loop", "join", "done"} :
        /\ pc' = [pc EXCEPT ![m] = v]
        /\ UNCHANGED pos \/ (v = "loop" /\ pos' = [pos EXCEPT ![m] = pos[m] + 1])
        /\ v = "loop" => pos' = [pos EXCEPT ![m] = pos[m] + 1]
  <2>1. CASE Execute(m) /\ UNCHANGED pc
    BY <1>t, <2>1 DEF Execute, InLoop
  <2>2. CASE Execute(m) /\ ~UNCHANGED pc
    BY <1>t, <2>2 DEF Execute, InLoop
  <2>3. CASE Return(m)
    BY <2>3 DEF Return
  <2>4. CASE EndLoop(m) \/ Finish(m)
    BY <2>4 DEF EndLoop, Finish
  <2> QED BY <2>1, <2>2, <2>3, <2>4
<1>2. pc[m] \in {"loop", "call", "join"} /\ ~Passed(m) /\ Active(m) /\ UNCHANGED ctx
  <2>1. pc[m] \in {"loop", "call", "join"} /\ UNCHANGED ctx
    BY DEF Execute, InLoop, Return, EndLoop, Finish
  <2>2. pc[m] = "call" => pc[Item(m)] = "done"
    BY DEF Execute, InLoop, Return, EndLoop, Finish
  <2> QED
    BY <2>1, <2>2 DEF Passed, Active
<1>3. Unstarted'
  BY <1>1, <1>2, UnstartedKept
<1>4. Exclusive'
  BY <1>1, <1>2, <1>t, ExclusiveKept
<1>5. Made'
  BY <1>1, <1>2, <1>t, MadeKept DEF Active
<1> QED
  BY <1>3, <1>4, <1>5

(* A validated element may change to a context of its own. *)
LEMMA ValidateContext ==
  ASSUME ContextInv, NEW m \in Make, Validate(m)
  PROVE  Unstarted' /\ Exclusive' /\ Made'
<1> USE DEF ContextInv, At
<1>t. /\ pc \in [Make -> {"idle", "start", "loop", "call", "join", "done"}] /\ pos \in [Make -> Nat]
      /\ ctx \in [Make -> Context \cup {NULL}]
  BY DEF Typed, TypeOK
<1>1. PICK v \in {"loop", "done"} : pc' = [pc EXCEPT ![m] = v]
  BY DEF Validate
<1>2. pc[m] = "start" /\ UNCHANGED pos /\ ctx' \in {ctx, [ctx EXCEPT ![m] = <<m, "attr">>]}
  BY DEF Validate
<1>3. ~Passed(m) /\ Active(m)
  BY <1>2 DEF Passed, Active
<1>4. Unstarted'
  BY <1>1, <1>2, UnstartedKept
<1>5. ctx'[m] = ctx[m] \/ \A n \in Make : Active(n) => ctx[n] # ctx'[m]
  BY <1>2, <1>t DEF Made
<1>6. Exclusive'
  <2>1. \A n \in Make \ {m} : ctx'[n] = ctx[n] /\ pos'[n] = pos[n]
    BY <1>2, <1>t
  <2> QED
    BY <1>1, <1>3, <1>5, <2>1, ExclusiveKept
<1>7. Made'
  BY <1>1, <1>2, <1>3, <1>t, MadeKept DEF Active
<1> QED
  BY <1>4, <1>6, <1>7

LEMMA CallContext ==
  ASSUME ContextInv, NEW m \in Make, Call(m)
  PROVE  Unstarted' /\ Exclusive' /\ Made'
<1> USE DEF ContextInv, At
<1>t. /\ pc \in [Make -> {"idle", "start", "loop", "call", "join", "done"}] /\ pos \in [Make -> Nat]
      /\ ctx \in [Make -> Context \cup {NULL}]
  BY DEF Typed, TypeOK
<1>1. /\ pos[m] \in DOMAIN Items[m] /\ Item(m) \in Make /\ pc[m] = "loop" /\ UNCHANGED pos
      /\ pc' = [pc EXCEPT ![m] = "call", ![Item(m)] = "start"]
      /\ ctx' = [ctx EXCEPT ![Item(m)] = ctx[m]]
  BY ItemKind DEF Call, InLoop, Typed
<1>2. pc[Item(m)] = "idle"
  BY <1>1 DEF Unstarted, Item
<1>3. Unstarted'
  BY <1>1, UnstartedBegun
<1>4. Exclusive'
  BY <1>1, <1>2, ExclusiveCall
<1>5. Made'
  <2>1. \A n \in Make : /\ pc[n] # "idle" => pc'[n] # "idle"
                        /\ pc[n] \notin {"idle", "start"} => pc'[n] \notin {"idle", "start"}
    BY <1>1, <1>2, <1>t
  <2>2. ASSUME NEW n \in Make, Active(n)' PROVE \E o \in Make : Active(o) /\ ctx'[n] = ctx[o]
    <3>1. CASE n = Item(m)
      <4>1. Active(m) /\ ctx'[n] = ctx[m]
        BY <1>1, <1>t, <3>1 DEF Active
      <4> QED BY <4>1
    <3>2. CASE n # Item(m)
      <4>1. Active(n) /\ ctx'[n] = ctx[n]
        BY <1>1, <1>t, <2>2, <3>2 DEF Active
      <4> QED BY <4>1
    <3> QED BY <3>1, <3>2
  <2> QED
    BY <2>1, <2>2, MadeKept
<1> QED
  BY <1>3, <1>4, <1>5

LEMMA ForkContext ==
  ASSUME ContextInv, NEW m \in Make, Fork(m)
  PROVE  Unstarted' /\ Exclusive' /\ Made'
<1> USE DEF ContextInv, At
<1>t. /\ pc \in [Make -> {"idle", "start", "loop", "call", "join", "done"}] /\ pos \in [Make -> Nat]
      /\ ctx \in [Make -> Context \cup {NULL}]
  BY DEF Typed, TypeOK
<1>1. /\ pos[m] \in DOMAIN Items[m] /\ Item(m) \in Make /\ pc[m] = "loop"
      /\ pos' = [pos EXCEPT ![m] = pos[m] + 1]
      /\ pc' \in {pc, [pc EXCEPT ![Item(m)] = "start"]}
      /\ ctx' = [ctx EXCEPT ![Item(m)] = <<Item(m), "thread">>]
  BY ItemKind DEF Fork, Forks, InLoop, Typed
<1>2. pc[Item(m)] = "idle"
  BY <1>1 DEF Unstarted, Item
<1>3. Unstarted'
  BY <1>1, UnstartedBegun
<1>4. Exclusive'
  BY <1>1, <1>2, ExclusiveFork
<1>5. Made'
  <2>1. \A n \in Make : /\ pc[n] # "idle" => pc'[n] # "idle"
                        /\ pc[n] \notin {"idle", "start"} => pc'[n] \notin {"idle", "start"}
    BY <1>1, <1>2, <1>t
  <2>2. ASSUME NEW n \in Make, Active(n)'
        PROVE  \/ \E o \in Make : Active(o) /\ ctx'[n] = ctx[o]
               \/ ctx'[n] = <<n, "thread">> /\ pc'[n] # "idle"
    <3>1. CASE n = Item(m)
      BY <1>1, <1>t, <2>2, <3>1 DEF Active
    <3>2. CASE n # Item(m)
      <4>1. Active(n) /\ ctx'[n] = ctx[n]
        BY <1>1, <1>t, <2>2, <3>2 DEF Active
      <4> QED BY <4>1
    <3> QED BY <3>1, <3>2
  <2> QED
    BY <2>1, <2>2, MadeKept
<1> QED
  BY <1>3, <1>4, <1>5

LEMMA StepContextInv == ContextInv /\ [Next]_vars => ContextInv'
<1> SUFFICES ASSUME ContextInv, [Next]_vars PROVE ContextInv'
  OBVIOUS
<1>1. Typed'
  BY TypedStep DEF ContextInv
<1>2. CASE UNCHANGED <<pc, pos, ctx>>
  BY <1>1, <1>2 DEF ContextInv, Unstarted, Exclusive, Made, Passed, Active, Item
<1>3. ASSUME NEW m \in Make, Advance(m) PROVE ContextInv'
  <2>1. CASE JoinNext(m) \/ WaitAll(m)
    BY <1>2, <2>1 DEF JoinNext, WaitAll
  <2>2. CASE ~(JoinNext(m) \/ WaitAll(m))
    BY <1>1, <1>3, <2>2, ValidateContext, CallContext, ForkContext, SameContextStep DEF Advance, ContextInv
  <2> QED BY <2>1, <2>2
<1>4. CASE UNCHANGED vars
  BY <1>2, <1>4 DEF vars
<1> QED
  BY <1>3, <1>4, Zenon DEF Next, Ended

(* Two elements that work at a time work in different contexts: a thread and *)
(* an element with attributes of a context get a context that was not made   *)
(* before, and a caller that has passed its context on waits.  Whatever the  *)
(* library is and whether its calls fail or not.                             *)
THEOREM Privacy == Spec => []ContextPrivate
<1>1. Init => ContextInv
  BY InitContextInv
<1>2. ContextInv /\ [Next]_vars => ContextInv'
  BY StepContextInv
<1>3. ContextInv => ContextPrivate
  BY DEF ContextInv, Exclusive, Passed, ContextPrivate, Active
<1> QED
  BY <1>1, <1>2, <1>3, PTL DEF Spec

--------------------------------------------------------------------------------
(* The tree of contexts *)

(* Instruction i of an element is not begun. *)
AheadAt(m, i) == i > pos[m] \/ (i = pos[m] /\ pc[m] \in {"idle", "start", "loop"})

(* The contexts that were made have a parent, the main context has none. *)
Known(c) == c = Main \/ parent[c] # NULL
MadeContexts == {c \in Context : parent[c] # NULL}

(* A context is made once: there is none for an element that is not          *)
(* validated, nor for a thread whose instruction is not begun.               *)
Unmade ==
  /\ parent[Main] = NULL
  /\ \A m \in Make : pc[m] \in {"idle", "start"} => parent[<<m, "attr">>] = NULL
  /\ \A m \in Make : \A i \in DOMAIN Items[m] :
       AheadAt(m, i) /\ Items[m][i] \in Make => parent[<<Items[m][i], "thread">>] = NULL

(* An activation works in a context that exists. *)
Inside == \A m \in Make : Active(m) => ctx[m] \in Context /\ Known(ctx[m])

(* r is the distance of each context from the main context. *)
Distances(r) ==
  /\ r[Main] = 0
  /\ \A c \in Context : r[c] <= Cardinality(MadeContexts)
  /\ \A c \in MadeContexts : parent[c] \in Context /\ Known(parent[c]) /\ r[c] = r[parent[c]] + 1

Ranked == \E r \in [Context -> Nat] : Distances(r)

RootedInv == ContextInv /\ Unmade /\ Inside /\ Ranked

LEMMA LeastNat ==
  ASSUME NEW S \in SUBSET Nat, S # {}
  PROVE  \E i \in S : \A j \in S : i <= j
<1>1. PICK i \in S : \A j \in S : ~(<<j, i>> \in OpToRel(<, Nat))
  BY NatLessThanWellFounded, WFMin
<1>2. \A j \in S : ~(j < i)
  BY <1>1 DEF OpToRel
<1> QED
  BY <1>2

(* A function can be iterated: recursion over the numbers. *)
LEMMA Iterate ==
  ASSUME NEW V, NEW a \in V, NEW h \in [V -> V]
  PROVE  \E f \in [Nat -> V] : f[0] = a /\ \A n \in Nat \ {0} : f[n] = h[f[n - 1]]
<1> DEFINE Upto(n) == {g \in [0..n -> V] : g[0] = a /\ \A i \in 1..n : g[i] = h[g[i - 1]]}
<1>1. \A n \in Nat : Upto(n) # {}
  <2> DEFINE S == {n \in Nat : Upto(n) = {}}
  <2> SUFFICES ASSUME S # {} PROVE FALSE
    OBVIOUS
  <2>1. PICK i \in S : \A j \in S : i <= j
    <3>1. S \in SUBSET Nat
      OBVIOUS
    <3> HIDE DEF S
    <3> QED BY <3>1, LeastNat
  <2>2. i \in Nat /\ Upto(i) = {}
    OBVIOUS
  <2>3. i # 0
    <3>1. [x \in 0..0 |-> a] \in Upto(0)
      OBVIOUS
    <3> QED BY <2>2, <3>1
  <2>4. i - 1 \in Nat /\ i - 1 \notin S
    <3>1. i - 1 \in Nat /\ ~(i <= i - 1)
      BY <2>2, <2>3
    <3> HIDE DEF S
    <3> QED BY <2>1, <3>1
  <2>5. PICK g : g \in Upto(i - 1)
    BY <2>4
  <2> DEFINE k == [x \in 0..i |-> IF x = i THEN h[g[i - 1]] ELSE g[x]]
  <2>6. k \in [0..i -> V]
    <3>1. g[i - 1] \in V /\ \A x \in 0..i : x # i => g[x] \in V
      BY <2>4, <2>5
    <3> QED BY <3>1
  <2>7. k[0] = a /\ \A x \in 1..i : k[x] = h[k[x - 1]]
    <3>1. k[0] = a
      BY <2>2, <2>3, <2>5
    <3>2. ASSUME NEW x \in 1..i PROVE k[x] = h[k[x - 1]]
      <4>1. k[x - 1] = g[x - 1]
        BY <2>2
      <4>2. CASE x = i
        BY <2>2, <4>1, <4>2
      <4>3. CASE x # i
        BY <2>2, <2>5, <4>1, <4>3
      <4> QED BY <4>2, <4>3
    <3> QED BY <3>1, <3>2
  <2> QED
    BY <2>2, <2>6, <2>7
<1>2. ASSUME NEW n \in Nat, NEW m \in Nat, n <= m, NEW g \in Upto(n), NEW k \in Upto(m)
      PROVE  \A i \in 0..n : g[i] = k[i]
  <2> DEFINE S == {i \in 0..n : g[i] # k[i]}
  <2> SUFFICES ASSUME S # {} PROVE FALSE
    OBVIOUS
  <2>1. PICK i \in S : \A j \in S : i <= j
    <3>1. S \in SUBSET Nat
      OBVIOUS
    <3> HIDE DEF S
    <3> QED BY <3>1, LeastNat
  <2>2. i \in 0..n /\ g[i] # k[i] /\ i # 0
    OBVIOUS
  <2>3. i - 1 \in 0..n /\ ~(i <= i - 1)
    BY <2>2
  <2>4. g[i - 1] = k[i - 1]
    BY <2>1, <2>3
  <2>5. g[i] = h[g[i - 1]] /\ k[i] = h[k[i - 1]]
    BY <1>2, <2>2
  <2> QED
    BY <2>2, <2>4, <2>5
<1> DEFINE G(n) == CHOOSE g : g \in Upto(n)
           f == [n \in Nat |-> G(n)[n]]
<1>3. \A n \in Nat : G(n) \in Upto(n)
  BY <1>1
<1> HIDE DEF G
<1>4. \A n \in Nat : G(n)[n] \in V
  BY <1>3
<1>5. f[0] = a
  BY <1>3
<1>6. ASSUME NEW n \in Nat \ {0} PROVE f[n] = h[f[n - 1]]
  <2>1. n - 1 \in Nat /\ n - 1 <= n /\ n - 1 \in 0..(n - 1)
    OBVIOUS
  <2>2. G(n - 1)[n - 1] = G(n)[n - 1]
    <3> HIDE DEF Upto
    <3>1. n \in Nat /\ G(n - 1) \in Upto(n - 1) /\ G(n) \in Upto(n)
      BY <1>3, <2>1
    <3>2. \A i \in 0..(n - 1) : G(n - 1)[i] = G(n)[i]
      BY <1>2, <2>1, <3>1
    <3> QED BY <2>1, <3>2
  <2>3. G(n)[n] = h[G(n)[n - 1]]
    BY <1>3
  <2> QED
    BY <2>1, <2>2, <2>3
<1> QED
  BY <1>4, <1>5, <1>6

LEMMA ContextsFinite ==
  /\ IsFiniteSet(Context)
  /\ \A S \in SUBSET Context : IsFiniteSet(S) /\ Cardinality(S) \in Nat /\ Cardinality(S) <= Cardinality(Context)
  /\ Cardinality(Context) \in Nat
<1>1. IsFiniteSet({"thread", "attr"}) /\ IsFiniteSet({Main})
  <2>1. IsFiniteSet({"thread"}) /\ IsFiniteSet({"attr"}) /\ IsFiniteSet({Main})
    BY FS_Singleton
  <2>2. IsFiniteSet({"thread"} \cup {"attr"})
    BY <2>1, FS_Union
  <2>3. {"thread"} \cup {"attr"} = {"thread", "attr"}
    OBVIOUS
  <2> QED
    BY <2>1, <2>2, <2>3
<1>2. IsFiniteSet(Make \X {"thread", "attr"})
  BY <1>1, MakeAssumption, FS_Product
<1>3. IsFiniteSet(Context)
  BY <1>1, <1>2, FS_Union DEF Context
<1> QED
  BY <1>3, FS_Subset, FS_CardinalityType

(* A new context is one further from the main context than its parent. *)
LEMMA RankedGrows ==
  ASSUME Ranked, parent \in [Context -> Context \cup {NULL}], NEW c \in Context, c # Main, parent[c] = NULL,
         parent[Main] = NULL, NEW d \in Context, Known(d), parent' = [parent EXCEPT ![c] = d]
  PROVE  Ranked'
<1> DEFINE n == Cardinality(MadeContexts)
<1>1. PICK r \in [Context -> Nat] : Distances(r)
  BY DEF Ranked
<1>2. d # c
  BY DEF Known
<1>3. d # NULL /\ Main \in Context
  BY NullAssumption DEF Context
<1>4. MadeContexts' = MadeContexts \cup {c} /\ c \notin MadeContexts /\ MadeContexts \in SUBSET Context
  BY <1>3 DEF MadeContexts
<1>5. n \in Nat /\ Cardinality(MadeContexts') = n + 1
  <2>1. IsFiniteSet(MadeContexts) /\ n \in Nat
    BY <1>4, ContextsFinite
  <2> QED
    BY <1>4, <2>1, FS_AddElement
<1> DEFINE s == [r EXCEPT ![c] = r[d] + 1]
<1>6. s \in [Context -> Nat] /\ s[Main] = 0
  <2>1. r[Main] = 0
    BY <1>1 DEF Distances
  <2>2. s[Main] = r[Main]
    BY <1>3
  <2>3. r[d] + 1 \in Nat
    <3>1. r \in [Context -> Nat]
      BY <1>1
    <3>2. r[d] \in Nat
      BY ONLY <3>1, d \in Context
    <3> QED BY ONLY <3>2
  <2> QED
    BY <2>1, <2>2, <2>3
<1>7. \A x \in Context : s[x] <= Cardinality(MadeContexts')
  <2>1. \A x \in Context : r[x] \in Nat /\ r[x] <= n
    BY <1>1 DEF Distances
  <2>2. \A x \in Context : s[x] = IF x = c THEN r[d] + 1 ELSE r[x]
    BY <1>1
  <2> HIDE DEF s, n
  <2> QED
    BY <1>5, <2>1, <2>2
<1>8. ASSUME NEW x \in MadeContexts'
      PROVE  parent'[x] \in Context /\ Known(parent[x])' /\ s[x] = s[parent'[x]] + 1
  <2>1. CASE x = c
    <3>1. parent'[x] = d /\ parent'[d] = parent[d]
      BY <1>2, <2>1
    <3>2. Known(d)'
      BY <3>1 DEF Known
    <3>3. s[c] = r[d] + 1 /\ s[d] = r[d]
      BY <1>2
    <3> QED
      BY <2>1, <3>1, <3>2, <3>3 DEF Known
  <2>2. CASE x # c
    <3>1. x \in MadeContexts /\ parent'[x] = parent[x] /\ x \in Context
      BY <1>4, <2>2
    <3>2. parent[x] \in Context /\ Known(parent[x]) /\ r[x] = r[parent[x]] + 1
      BY <1>1, <3>1 DEF Distances
    <3>3. parent[x] # c /\ parent'[parent[x]] = parent[parent[x]]
      BY <3>2 DEF Known
    <3>4. Known(parent[x])'
      BY <3>1, <3>2, <3>3 DEF Known
    <3>5. s[x] = r[x] /\ s[parent[x]] = r[parent[x]]
      BY <2>2, <3>1, <3>2, <3>3
    <3> QED
      BY <3>1, <3>2, <3>4, <3>5
  <2> QED BY <2>1, <2>2
<1>9. Distances(s)'
  BY <1>6, <1>7, <1>8 DEF Distances
<1> QED
  BY <1>6, <1>9 DEF Ranked

LEMMA RankedStays == Ranked /\ UNCHANGED parent => Ranked'
BY DEF Ranked, Distances, MadeContexts, Known

LEMMA InitRooted == Init => RootedInv
<1> SUFFICES ASSUME Init PROVE RootedInv
  OBVIOUS
<1>1. ContextInv
  BY InitContextInv
<1>2. Main \in Context /\ \A m \in Make : <<m, "attr">> \in Context /\ <<m, "thread">> \in Context
  BY DEF Context
<1>3. Unmade
  BY <1>2 DEF Init, Unmade
<1>4. Inside
  BY <1>2 DEF Init, Inside, Active, Known
<1>5. Ranked
  <2>1. MadeContexts = {}
    BY DEF Init, MadeContexts
  <2>2. Cardinality(MadeContexts) = 0
    BY <2>1, FS_EmptySet
  <2> DEFINE r == [c \in Context |-> 0]
  <2>3. Distances(r)
    BY <1>2, <2>1, <2>2 DEF Distances
  <2> QED
    BY <2>3 DEF Ranked
<1> QED
  BY <1>1, <1>3, <1>4, <1>5 DEF RootedInv

(* What follows the current instruction keeps following it. *)
LEMMA AheadKept ==
  ASSUME Typed, Unstarted, [Next]_vars, NEW n \in Make, NEW i \in DOMAIN Items[n], AheadAt(n, i)'
  PROVE  AheadAt(n, i)
<1>t. /\ pc \in [Make -> {"idle", "start", "loop", "call", "join", "done"}]
      /\ pos \in [Make -> Nat] /\ i \in Nat
  BY Numbers DEF Typed, TypeOK
<1>u. \A m \in Make : pos[m] \in DOMAIN Items[m] /\ Item(m) \in Make /\ pc[m] = "loop" => pc[Item(m)] = "idle"
  BY DEF Unstarted, Item
<1>1. ASSUME NEW m \in Make, Advance(m)
      PROVE  AheadAt(n, i)
  <2>1. CASE Validate(m)
    BY <1>t, <2>1 DEF Validate, At, AheadAt
  <2>2. CASE Execute(m)
    BY <1>t, <2>2 DEF Execute, InLoop, At, AheadAt
  <2>3. CASE Call(m)
    BY <1>t, <1>u, <2>3, ItemKind DEF Call, InLoop, At, AheadAt, Typed
  <2>4. CASE Return(m)
    BY <1>t, <2>4 DEF Return, At, AheadAt
  <2>5. CASE Fork(m)
    BY <1>t, <1>u, <2>5, ItemKind DEF Fork, Forks, InLoop, At, AheadAt, Typed
  <2>6. CASE EndLoop(m) \/ Finish(m)
    BY <1>t, <2>6 DEF EndLoop, Finish, At, AheadAt
  <2>7. CASE JoinNext(m) \/ WaitAll(m)
    BY <2>7 DEF JoinNext, WaitAll, AheadAt
  <2> QED
    BY <1>1, <2>1, <2>2, <2>3, <2>4, <2>5, <2>6, <2>7 DEF Advance
<1>2. CASE UNCHANGED vars
  BY <1>2 DEF vars, AheadAt
<1> QED
  BY <1>1, <1>2, Zenon DEF Next, Ended

(* An element that is validated is not validated again. *)
LEMMA BegunStays ==
  ASSUME ContextInv, NEW m \in Make, Advance(m), NEW n \in Make, pc'[n] \in {"idle", "start"}
  PROVE  pc[n] \in {"idle", "start"}
<1>t. pc \in [Make -> {"idle", "start", "loop", "call", "join", "done"}]
  BY DEF ContextInv, Typed, TypeOK
<1>1. CASE Call(m) \/ Fork(m)
  <2>1. pos[m] \in DOMAIN Items[m] /\ Item(m) \in Make /\ pc[m] = "loop"
    BY <1>1, ItemKind DEF Call, Fork, Forks, InLoop, At, ContextInv, Typed
  <2>2. pc[Item(m)] = "idle"
    BY <2>1 DEF ContextInv, Unstarted, Item
  <2> QED
    BY <1>1, <1>t, <2>1, <2>2 DEF Call, Fork
<1>2. CASE Validate(m) \/ Execute(m) \/ Return(m)
  BY <1>2, <1>t DEF Validate, Execute, Return, InLoop, At
<1>3. CASE EndLoop(m) \/ JoinNext(m) \/ WaitAll(m) \/ Finish(m)
  BY <1>3, <1>t DEF EndLoop, JoinNext, WaitAll, Finish, At
<1> QED
  BY <1>1, <1>2, <1>3 DEF Advance

(* The contexts of the activations are those of others, or new ones. *)
LEMMA InsideKept ==
  ASSUME Inside, \A c \in Context : Known(c) => Known(c)',
         \A n \in Make : Active(n)' =>
           (\E o \in Make : Active(o) /\ ctx'[n] = ctx[o]) \/ (ctx'[n] \in Context /\ Known(ctx[n])')
  PROVE  Inside'
<1> SUFFICES ASSUME NEW n \in Make, Active(n)' PROVE (ctx[n] \in Context /\ Known(ctx[n]))'
  BY DEF Inside
<1>1. CASE \E o \in Make : Active(o) /\ ctx'[n] = ctx[o]
  <2>1. PICK o \in Make : Active(o) /\ ctx'[n] = ctx[o]
    BY <1>1
  <2>2. ctx[o] \in Context /\ Known(ctx[o])
    BY <2>1 DEF Inside
  <2>3. Known(ctx[o]) => ctx[o] = Main \/ parent'[ctx[o]] # NULL
    BY <2>2 DEF Known
  <2> QED
    BY <2>1, <2>2, <2>3 DEF Known
<1>2. CASE ctx'[n] \in Context /\ Known(ctx[n])'
  BY <1>2
<1> QED
  BY <1>1, <1>2

(* A step that makes no context. *)
LEMMA NoneMade ==
  ASSUME RootedInv, NEW m \in Make, Advance(m), UNCHANGED parent,
         \A n \in Make : Active(n)' => \E o \in Make : Active(o) /\ ctx'[n] = ctx[o]
  PROVE  Unmade' /\ Inside' /\ Ranked'
<1>1. Unmade'
  <2>1. \A n \in Make : pc'[n] \in {"idle", "start"} => pc[n] \in {"idle", "start"}
    BY BegunStays DEF RootedInv
  <2>2. \A n \in Make : \A i \in DOMAIN Items[n] : AheadAt(n, i)' => AheadAt(n, i)
    BY AheadKept DEF RootedInv, ContextInv, Next
  <2> QED
    BY <2>1, <2>2 DEF RootedInv, Unmade
<1>2. Inside'
  BY InsideKept DEF RootedInv, Known
<1>3. Ranked'
  BY RankedStays DEF RootedInv
<1> QED
  BY <1>1, <1>2, <1>3

(* A step that makes a context for the element k. *)
LEMMA OneMade ==
  ASSUME RootedInv, NEW m \in Make, Advance(m), Active(m), NEW k \in Make, NEW w \in {"thread", "attr"},
         parent[<<k, w>>] = NULL, parent' = [parent EXCEPT ![<<k, w>>] = ctx[m]],
         ctx' = [ctx EXCEPT ![k] = <<k, w>>],
         \A n \in Make \ {k} : Active(n)' => Active(n),
         w = "attr" => pc'[k] \notin {"idle", "start"},
         w = "thread" => \A n \in Make : \A i \in DOMAIN Items[n] : Items[n][i] = k => ~AheadAt(n, i)'
  PROVE  Unmade' /\ Inside' /\ Ranked'
<1>t. /\ parent \in [Context -> Context \cup {NULL}] /\ ctx \in [Make -> Context \cup {NULL}]
      /\ <<k, w>> \in Context /\ <<k, w>> # Main /\ Main \in Context
      /\ \A n \in Make : <<n, "attr">> \in Context /\ <<n, "thread">> \in Context
  BY DEF RootedInv, ContextInv, Typed, TypeOK, Context, Main
<1>a. ctx[m] \in Context /\ Known(ctx[m]) /\ ctx[m] # NULL
  BY NullAssumption DEF RootedInv, Inside
<1>b. \A c \in Context : c # <<k, w>> => parent'[c] = parent[c]
  BY <1>t
<1>c. parent'[<<k, w>>] = ctx[m]
  BY <1>t
<1>1. Unmade'
  <2>1. parent'[Main] = NULL
    BY <1>b, <1>t DEF RootedInv, Unmade
  <2>2. ASSUME NEW n \in Make, pc'[n] \in {"idle", "start"} PROVE parent'[<<n, "attr">>] = NULL
    <3>1. parent[<<n, "attr">>] = NULL
      BY <2>2, BegunStays DEF RootedInv, Unmade
    <3>2. <<n, "attr">> # <<k, w>>
      BY <2>2
    <3> QED BY <1>b, <1>t, <3>1, <3>2
  <2>3. ASSUME NEW n \in Make, NEW i \in DOMAIN Items[n], AheadAt(n, i)', Items[n][i] \in Make
        PROVE  parent'[<<Items[n][i], "thread">>] = NULL
    <3>1. AheadAt(n, i)
      BY <2>3, AheadKept DEF RootedInv, ContextInv, Next
    <3>2. parent[<<Items[n][i], "thread">>] = NULL
      BY <2>3, <3>1 DEF RootedInv, Unmade
    <3>3. <<Items[n][i], "thread">> # <<k, w>>
      BY <2>3
    <3> QED BY <1>b, <1>t, <2>3, <3>2, <3>3
  <2> QED
    BY <2>1, <2>2, <2>3 DEF Unmade
<1>2. Inside'
  <2>1. \A c \in Context : Known(c) => Known(c)'
    BY <1>a, <1>b, <1>c DEF Known
  <2>2. ASSUME NEW n \in Make, Active(n)'
        PROVE  (\E o \in Make : Active(o) /\ ctx'[n] = ctx[o]) \/ (ctx'[n] \in Context /\ Known(ctx[n])')
    <3>1. CASE n = k
      BY <1>a, <1>c, <1>t, <3>1 DEF Known
    <3>2. CASE n # k
      <4>1. Active(n) /\ ctx'[n] = ctx[n]
        BY <1>t, <2>2, <3>2
      <4> QED BY <4>1
    <3> QED BY <3>1, <3>2
  <2> QED
    BY <2>1, <2>2, InsideKept DEF RootedInv
<1>3. Ranked'
  <2>1. Ranked /\ parent[Main] = NULL
    BY DEF RootedInv, Unmade
  <2> QED
    BY <1>a, <1>t, <2>1, RankedGrows
<1> QED
  BY <1>1, <1>2, <1>3

LEMMA ValidateRooted ==
  ASSUME RootedInv, NEW m \in Make, Validate(m)
  PROVE  Unmade' /\ Inside' /\ Ranked'
<1>t. pc \in [Make -> {"idle", "start", "loop", "call", "join", "done"}]
  BY DEF RootedInv, ContextInv, Typed, TypeOK
<1>1. pc[m] = "start" /\ Advance(m) /\ Active(m)
  BY DEF Validate, At, Advance, Active
<1>2. pc' \in {[pc EXCEPT ![m] = "loop"], [pc EXCEPT ![m] = "done"]}
  BY DEF Validate
<1>3. \A n \in Make : Active(n)' => Active(n)
  BY <1>1, <1>2, <1>t DEF Active
<1>4. CASE UNCHANGED <<ctx, parent>>
  BY <1>1, <1>3, <1>4, NoneMade
<1>5. CASE ctx' = [ctx EXCEPT ![m] = <<m, "attr">>] /\ parent' = [parent EXCEPT ![<<m, "attr">>] = ctx[m]]
  <2>1. parent[<<m, "attr">>] = NULL /\ pc'[m] \notin {"idle", "start"}
    BY <1>1, <1>2, <1>t DEF RootedInv, Unmade
  <2> QED
    BY <1>1, <1>3, <1>5, <2>1, OneMade
<1> QED
  BY <1>4, <1>5 DEF Validate

LEMMA CallRooted ==
  ASSUME RootedInv, NEW m \in Make, Call(m)
  PROVE  Unmade' /\ Inside' /\ Ranked'
<1>t. /\ pc \in [Make -> {"idle", "start", "loop", "call", "join", "done"}]
      /\ ctx \in [Make -> Context \cup {NULL}]
  BY DEF RootedInv, ContextInv, Typed, TypeOK
<1>1. /\ Advance(m) /\ Active(m) /\ UNCHANGED parent /\ Item(m) \in Make
      /\ pc' = [pc EXCEPT ![m] = "call", ![Item(m)] = "start"]
      /\ ctx' = [ctx EXCEPT ![Item(m)] = ctx[m]]
  BY DEF Call, InLoop, At, Advance, Active
<1>2. ASSUME NEW n \in Make, Active(n)' PROVE \E o \in Make : Active(o) /\ ctx'[n] = ctx[o]
  <2>1. CASE n = Item(m)
    <3>1. ctx'[n] = ctx[m]
      BY <1>1, <1>t, <2>1
    <3> QED BY <1>1, <3>1
  <2>2. CASE n # Item(m)
    <3>1. Active(n) /\ ctx'[n] = ctx[n]
      BY <1>1, <1>2, <1>t, <2>2 DEF Active
    <3> QED BY <3>1
  <2> QED BY <2>1, <2>2
<1> QED
  BY <1>1, <1>2, NoneMade

LEMMA ForkRooted ==
  ASSUME RootedInv, NEW m \in Make, Fork(m)
  PROVE  Unmade' /\ Inside' /\ Ranked'
<1>t. /\ pc \in [Make -> {"idle", "start", "loop", "call", "join", "done"}]
      /\ pos \in [Make -> Nat]
  BY Numbers DEF RootedInv, ContextInv, Typed, TypeOK
<1>1. /\ Advance(m) /\ Active(m) /\ pc[m] = "loop" /\ Item(m) \in Make /\ pos[m] \in DOMAIN Items[m]
      /\ ctx' = [ctx EXCEPT ![Item(m)] = <<Item(m), "thread">>]
      /\ parent' = [parent EXCEPT ![<<Item(m), "thread">>] = ctx[m]]
      /\ pc' \in {pc, [pc EXCEPT ![Item(m)] = "start"]}
      /\ pos' = [pos EXCEPT ![m] = pos[m] + 1]
  BY ItemKind DEF Fork, Forks, InLoop, At, Advance, Active, RootedInv, ContextInv, Typed
<1>2. parent[<<Item(m), "thread">>] = NULL
  BY <1>1 DEF RootedInv, Unmade, AheadAt, Item
<1>3. \A n \in Make \ {Item(m)} : Active(n)' => Active(n)
  BY <1>1, <1>t DEF Active
<1>4. ASSUME NEW n \in Make, NEW i \in DOMAIN Items[n], Items[n][i] = Item(m) PROVE ~AheadAt(n, i)'
  <2>1. n = m /\ i = pos[m]
    BY <1>1, <1>4, ItemUnique DEF Item
  <2> QED
    BY <1>1, <1>t, <2>1 DEF AheadAt
<1> QED
  BY <1>1, <1>2, <1>3, <1>4, OneMade

LEMMA StepRooted == RootedInv /\ [Next]_vars => RootedInv'
<1> SUFFICES ASSUME RootedInv, [Next]_vars PROVE RootedInv'
  OBVIOUS
<1>1. ContextInv'
  BY StepContextInv DEF RootedInv
<1>2. ASSUME NEW m \in Make, Advance(m) PROVE RootedInv'
  <2>1. CASE Validate(m) \/ Call(m) \/ Fork(m)
    BY <1>1, <2>1, ValidateRooted, CallRooted, ForkRooted DEF RootedInv
  <2>2. CASE Execute(m) \/ Return(m) \/ EndLoop(m) \/ JoinNext(m) \/ WaitAll(m) \/ Finish(m)
    <3>1. UNCHANGED <<ctx, parent>>
      BY <2>2 DEF Execute, Return, EndLoop, JoinNext, WaitAll, Finish
    <3>2. \A n \in Make : Active(n)' => Active(n)
      <4>t. pc \in [Make -> {"idle", "start", "loop", "call", "join", "done"}]
        BY DEF RootedInv, ContextInv, Typed, TypeOK
      <4>1. CASE Execute(m) \/ Return(m)
        BY <4>1, <4>t DEF Execute, Return, InLoop, At, Active
      <4>2. CASE EndLoop(m) \/ JoinNext(m) \/ WaitAll(m) \/ Finish(m)
        BY <4>2, <4>t DEF EndLoop, JoinNext, WaitAll, Finish, At, Active
      <4> QED BY <2>2, <4>1, <4>2
    <3> QED
      BY <1>1, <1>2, <3>1, <3>2, NoneMade DEF RootedInv
  <2> QED
    BY <1>2, <2>1, <2>2 DEF Advance
<1>3. CASE UNCHANGED vars
  <2>1. UNCHANGED <<pc, pos, ctx, parent>>
    BY <1>3 DEF vars
  <2> QED
    BY <1>1, <2>1, RankedStays DEF RootedInv, Unmade, Inside, AheadAt, Active, Known
<1> QED
  BY <1>2, <1>3, Zenon DEF Next, Ended

LEMMA RootedContexts == RootedInv => ContextRooted
<1> SUFFICES ASSUME RootedInv, NEW m \in Make, Active(m)
             PROVE  LET up[n \in Nat] ==
                          IF n = 0 THEN ctx[m] ELSE IF up[n - 1] = NULL THEN NULL ELSE parent[up[n - 1]]
                    IN \E n \in 0..Cardinality(Context) : up[n] = Main
  BY DEF ContextRooted
<1> DEFINE F(f) == [n \in Nat |->
                     IF n = 0 THEN ctx[m] ELSE IF f[n - 1] = NULL THEN NULL ELSE parent[f[n - 1]]]
           V == Context \cup {NULL}
<1>1. /\ parent \in [Context -> V] /\ ctx[m] \in Context /\ Known(ctx[m]) /\ NULL \notin Context
      /\ Main \in Context
  BY NullAssumption DEF RootedInv, ContextInv, Typed, TypeOK, Inside, Context
<1>2. \E f : f = F(f)
  <2> DEFINE h == [x \in V |-> IF x = NULL THEN NULL ELSE parent[x]]
  <2>1. ctx[m] \in V /\ h \in [V -> V]
    BY <1>1
  <2>2. PICK f \in [Nat -> V] : f[0] = ctx[m] /\ \A n \in Nat \ {0} : f[n] = h[f[n - 1]]
    <3> DEFINE a == ctx[m]
    <3>1. a \in V /\ h \in [V -> V]
      BY <2>1
    <3> HIDE DEF h, V, a
    <3>2. \E f \in [Nat -> V] : f[0] = a /\ \A n \in Nat \ {0} : f[n] = h[f[n - 1]]
      BY ONLY <3>1, Iterate
    <3> QED BY <3>2 DEF a
  <2>3. ASSUME NEW n \in Nat PROVE f[n] = F(f)[n]
    <3>1. CASE n = 0
      BY <2>2, <3>1
    <3>2. CASE n # 0
      <4>1. n - 1 \in Nat /\ f[n - 1] \in V
        BY <2>2, <3>2
      <4> QED
        BY <2>2, <3>2, <4>1
    <3> QED BY <3>1, <3>2
  <2>4. f = F(f)
    BY <2>2, <2>3
  <2> QED BY <2>4
<1> DEFINE up == CHOOSE f : f = F(f)
<1>3. up = F(up)
  BY <1>2
<1> HIDE DEF up
<1>4. up[0] = ctx[m] /\ \A n \in Nat : up[n] \in Context => up[n + 1] = parent[up[n]]
  <2>1. up[0] = ctx[m]
    BY <1>3
  <2>2. ASSUME NEW n \in Nat, up[n] \in Context PROVE up[n + 1] = parent[up[n]]
    <3>1. n + 1 \in Nat /\ n + 1 # 0 /\ (n + 1) - 1 = n
      OBVIOUS
    <3>2. up[n + 1] = F(up)[n + 1]
      BY <1>3
    <3> QED
      BY <1>1, <2>2, <3>1, <3>2
  <2> QED BY <2>1, <2>2
<1> HIDE DEF F
<1>5. PICK r \in [Context -> Nat] : Distances(r)
  BY DEF RootedInv, Ranked
<1> DEFINE c == ctx[m]
<1>6. \A n \in 0..r[c] : up[n] \in Context /\ Known(up[n]) /\ r[up[n]] = r[c] - n
  <2> DEFINE P(n) == up[n] \in Context /\ Known(up[n]) /\ r[up[n]] = r[c] - n
             S == {n \in 0..r[c] : ~P(n)}
  <2> SUFFICES ASSUME S # {} PROVE FALSE
    OBVIOUS
  <2>1. r[c] \in Nat
    BY <1>1, <1>5
  <2>2. PICK i \in S : \A j \in S : i <= j
    <3>1. S \in SUBSET Nat
      BY <2>1
    <3> HIDE DEF S
    <3> QED BY <3>1, LeastNat
  <2>3. i \in 0..r[c] /\ ~P(i)
    BY <2>2
  <2>4. P(0)
    BY <1>1, <1>4, <2>1
  <2>5. i - 1 \in 0..r[c] /\ i - 1 \in Nat /\ ~(i <= i - 1) /\ (i - 1) + 1 = i
    BY <2>1, <2>3, <2>4
  <2>6. P(i - 1)
    BY <2>2, <2>5
  <2>7. up[i] = parent[up[i - 1]]
    BY <1>4, <2>5, <2>6
  <2>8. r[up[i - 1]] # 0
    BY <2>1, <2>3, <2>5, <2>6
  <2>9. up[i - 1] \in MadeContexts
    BY <1>5, <2>6, <2>8 DEF Distances, Known, MadeContexts
  <2>10. up[i] \in Context /\ Known(up[i]) /\ r[up[i - 1]] = r[up[i]] + 1
    BY <1>5, <2>7, <2>9 DEF Distances
  <2>11. r[up[i]] \in Nat
    BY <1>5, <2>10
  <2>12. r[up[i]] = r[c] - i
    BY <2>1, <2>3, <2>5, <2>6, <2>10, <2>11
  <2> QED
    BY <2>3, <2>10, <2>12
<1>7. r[c] \in 0..Cardinality(Context)
  <2>1. r[c] \in Nat /\ r[c] <= Cardinality(MadeContexts)
    BY <1>1, <1>5 DEF Distances
  <2>2. /\ Cardinality(MadeContexts) \in Nat /\ Cardinality(Context) \in Nat
        /\ Cardinality(MadeContexts) <= Cardinality(Context)
    BY ContextsFinite DEF MadeContexts
  <2> QED BY <2>1, <2>2
<1>8. up[r[c]] = Main
  <2>1. r[c] \in 0..r[c]
    BY <1>7, <1>1, <1>5
  <2>2. up[r[c]] \in Context /\ Known(up[r[c]]) /\ r[up[r[c]]] = 0
    BY <1>6, <2>1
  <2>3. up[r[c]] \notin MadeContexts
    <3> SUFFICES ASSUME up[r[c]] \in MadeContexts PROVE FALSE
      OBVIOUS
    <3>1. r[up[r[c]]] = r[parent[up[r[c]]]] + 1 /\ r[parent[up[r[c]]]] \in Nat
      BY <1>5 DEF Distances
    <3> QED BY <2>2, <3>1
  <2> QED
    BY <2>2, <2>3 DEF Known, MadeContexts
<1>9. \E n \in 0..Cardinality(Context) : up[n] = Main
  BY <1>7, <1>8
<1> QED
  BY <1>9 DEF up, F

(* The parents of the context that an activation works in lead to the main   *)
(* context: a context is made once, below one that is there, and no context  *)
(* is taken out of the tree while elements are processed.                    *)
THEOREM Rooting == Spec => []ContextRooted
<1>1. Init => RootedInv
  BY InitRooted
<1>2. RootedInv /\ [Next]_vars => RootedInv'
  BY StepRooted
<1>3. RootedInv => ContextRooted
  BY RootedContexts
<1> QED
  BY <1>1, <1>2, <1>3, PTL DEF Spec

================================================================================
