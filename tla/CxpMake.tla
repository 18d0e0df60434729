-------------------------------- MODULE CxpMake --------------------------------
(***************************************************************************)
(* The interpreter of nested make elements, cxpProcessMakeNode() of cxp.c, *)
(* and the thread pools it uses for @thread="yes" (cxp_threadp.c), built   *)
(* with POSIX threads, with Windows threads or without threads.            *)
(*                                                                         *)
(* Every activation of cxpProcessMakeNode() is known by its element: an    *)
(* element is processed once at most.  A nested element is either called,  *)
(* and its caller waits, or runs in a thread of the caller's pool.         *)
(***************************************************************************)
EXTENDS Naturals, Sequences, FiniteSets

CONSTANTS
  Make,         \* make elements
  Top,          \* the outermost, called with the main context
  Items,        \* the sequence of instructions of each: make elements and steps
  Threaded,     \* elements with @thread="yes"
  Inline,       \* elements that are no node of the document: from <each>, eval="yes"
  NewContext,   \* elements whose attributes ask for a context of their own
  System,       \* steps that may fail and cancel their element: <system>
  Library,      \* "none", "pthread" or "windows"
  CreateFails,  \* whether the creation of a thread may fail
  MaxWait,      \* MAXIMUM_WAIT_OBJECTS of WaitForMultipleObjects()
  NULL,
  Garbage       \* a handle that was never written

Children(m) == {Items[m][i] : i \in DOMAIN Items[m]}
Step == (UNION {Children(m) : m \in Make}) \ Make

ASSUME MakeAssumption ==
  /\ Top \in Make /\ IsFiniteSet(Make)
  /\ Items \in [Make -> Seq(Make \cup Step)]
  /\ \A m \in Make : Top \notin Children(m)
  /\ \A m, n \in Make : \A i \in DOMAIN Items[m], j \in DOMAIN Items[n] :
       Items[m][i] = Items[n][j] => m = n /\ i = j

(* the main context, those made for a thread, and those of cxpCtxtFromAttr() *)
Main == <<Top, "main">>
Context == {Main} \cup (Make \X {"thread", "attr"})

ASSUME NullAssumption ==
  NULL \notin Make \cup Context /\ Garbage \notin Make /\ NULL # Garbage
ASSUME LibraryAssumption == Library \in {"none", "pthread", "windows"}

VARIABLES
  pc,       \* where the activation of an element is
  pos,      \* the index of its current instruction
  pool,     \* the handles of its thread pool, ciThreads is their number
  joined,   \* how many of them are joined
  ctx,      \* pccHere, the context it works in
  parent,   \* the parent of each context that was made
  ran,      \* history: the steps that were executed, in order
  crashed   \* the process died

vars == <<pc, pos, pool, joined, ctx, parent, ran, crashed>>

Item(m) == Items[m][pos[m]]
Pooled(m) == m \in Threaded /\ Library # "none"
Forks(m, c) == Pooled(m) /\ c \in Make \ Inline
At(m, where) == ~crashed /\ pc[m] = where
InLoop(m) == At(m, "loop") /\ pos[m] <= Len(Items[m])

Init ==
  /\ pc = [m \in Make |-> IF m = Top THEN "start" ELSE "idle"]
  /\ pos = [m \in Make |-> 1]
  /\ pool = [m \in Make |-> <<>>]
  /\ joined = [m \in Make |-> 0]
  /\ ctx = [m \in Make |-> IF m = Top THEN Main ELSE NULL]
  /\ parent = [c \in Context |-> NULL]
  /\ ran = <<>>
  /\ crashed = FALSE

(* validation before and after includes and substitutions; an attribute may *)
(* ask for a new context before the second one                              *)
Validate(m) ==
  /\ At(m, "start")
  /\ \/ pc' = [pc EXCEPT ![m] = "done"] /\ UNCHANGED <<ctx, parent>>
     \/ /\ pc' \in {[pc EXCEPT ![m] = "loop"], [pc EXCEPT ![m] = "done"]}
        /\ IF m \in NewContext
           THEN /\ ctx' = [ctx EXCEPT ![m] = <<m, "attr">>]
                /\ parent' = [parent EXCEPT ![<<m, "attr">>] = ctx[m]]
           ELSE UNCHANGED <<ctx, parent>>
  /\ UNCHANGED <<pos, pool, joined, ran, crashed>>

(* any instruction that is no make element; a failing <system> breaks the loop *)
Execute(m) ==
  /\ InLoop(m)
  /\ Item(m) \notin Make
  /\ ran' = Append(ran, Item(m))
  /\ \/ pos' = [pos EXCEPT ![m] = @ + 1] /\ UNCHANGED pc
     \/ Item(m) \in System /\ pc' = [pc EXCEPT ![m] = "join"] /\ UNCHANGED pos
  /\ UNCHANGED <<pool, joined, ctx, parent, crashed>>

(* the simple recursive call *)
Call(m) ==
  /\ InLoop(m)
  /\ Item(m) \in Make /\ ~Forks(m, Item(m))
  /\ pc' = [pc EXCEPT ![m] = "call", ![Item(m)] = "start"]
  /\ ctx' = [ctx EXCEPT ![Item(m)] = ctx[m]]
  /\ UNCHANGED <<pos, pool, joined, parent, ran, crashed>>

(* Mutant of Return: the caller goes on at once. *)
ReturnEarly(m) ==
  /\ At(m, "call")
  /\ pc' = [pc EXCEPT ![m] = "loop"]
  /\ pos' = [pos EXCEPT ![m] = @ + 1]
  /\ UNCHANGED <<pool, joined, ctx, parent, ran, crashed>>

(* Mutant of Return: the same element is called again. *)
ReturnRepeats(m) ==
  /\ At(m, "call")
  /\ pc[Item(m)] = "done"
  /\ pc' = [pc EXCEPT ![m] = "loop"]
  /\ UNCHANGED <<pos, pool, joined, ctx, parent, ran, crashed>>

Return(m) ==
  /\ At(m, "call")
  /\ pc[Item(m)] = "done"
  /\ pc' = [pc EXCEPT ![m] = "loop"]
  /\ pos' = [pos EXCEPT ![m] = @ + 1]
  /\ UNCHANGED <<pool, joined, ctx, parent, ran, crashed>>

(* what a failed creation leaves in the slot: pthread_create() leaves it     *)
(* undefined, and the first slot was never cleared; CreateThread() gave NULL *)
FailedHandle == IF Library = "pthread" THEN {NULL, Garbage} ELSE {NULL}

(* Mutant of Fork: the thread works in the caller's context. *)
ForkShares(m) ==
  /\ InLoop(m)
  /\ Forks(m, Item(m))
  /\ ctx' = [ctx EXCEPT ![Item(m)] = ctx[m]]
  /\ pc' = [pc EXCEPT ![Item(m)] = "start"]
  /\ pool' = [pool EXCEPT ![m] = Append(@, Item(m))]
  /\ pos' = [pos EXCEPT ![m] = @ + 1]
  /\ UNCHANGED <<joined, parent, ran, crashed>>

(* Mutant of Fork: the new context is not added to its parent. *)
ForkUnrooted(m) ==
  /\ InLoop(m)
  /\ Forks(m, Item(m))
  /\ ctx' = [ctx EXCEPT ![Item(m)] = <<Item(m), "thread">>]
  /\ pc' = [pc EXCEPT ![Item(m)] = "start"]
  /\ pool' = [pool EXCEPT ![m] = Append(@, Item(m))]
  /\ pos' = [pos EXCEPT ![m] = @ + 1]
  /\ UNCHANGED <<joined, parent, ran, crashed>>

(* a context for the thread, made of the caller's; cxpThreadPoolAppend(),     *)
(* whose result is ignored                                                    *)
Fork(m) ==
  /\ InLoop(m)
  /\ Forks(m, Item(m))
  /\ ctx' = [ctx EXCEPT ![Item(m)] = <<Item(m), "thread">>]
  /\ parent' = [parent EXCEPT ![<<Item(m), "thread">>] = ctx[m]]
  /\ \/ /\ pc' = [pc EXCEPT ![Item(m)] = "start"]
        /\ pool' = [pool EXCEPT ![m] = Append(@, Item(m))]
     \/ /\ CreateFails
        /\ \E h \in FailedHandle : pool' = [pool EXCEPT ![m] = Append(@, h)]
        /\ UNCHANGED pc
  /\ pos' = [pos EXCEPT ![m] = @ + 1]
  /\ UNCHANGED <<joined, ran, crashed>>

(* Mutant of EndLoop: steps over the end once more. *)
EndLoopAdvances(m) ==
  /\ At(m, "loop")
  /\ pos[m] > Len(Items[m])
  /\ pc' = [pc EXCEPT ![m] = "join"]
  /\ pos' = [pos EXCEPT ![m] = @ + 1]
  /\ UNCHANGED <<pool, joined, ctx, parent, ran, crashed>>

EndLoop(m) ==
  /\ At(m, "loop")
  /\ pos[m] > Len(Items[m])
  /\ pc' = [pc EXCEPT ![m] = "join"]
  /\ UNCHANGED <<pos, pool, joined, ctx, parent, ran, crashed>>

(* pthread_join() of the next handle: it waits for a thread, a handle of 0 is *)
(* skipped, any other gives an error or kills the process                     *)
JoinNext(m) ==
  /\ At(m, "join") /\ Library = "pthread"
  /\ joined[m] < Len(pool[m])
  /\ LET h == pool[m][joined[m] + 1]
     IN /\ h \in Make => pc[h] = "done"
        /\ crashed' \in IF h = Garbage THEN BOOLEAN ELSE {FALSE}
  /\ joined' = [joined EXCEPT ![m] = @ + 1]
  /\ UNCHANGED <<pc, pos, pool, ctx, parent, ran>>

(* WaitForMultipleObjects() waits for all handles, but fails at once for an  *)
(* invalid one or too many; the handles are closed in any case               *)
WaitFails(m) == Len(pool[m]) > MaxWait \/ \E i \in DOMAIN pool[m] : pool[m][i] = NULL

(* Mutant of WaitAll: waits for one of the handles. *)
WaitAny(m) ==
  /\ At(m, "join") /\ Library = "windows"
  /\ joined[m] < Len(pool[m])
  /\ WaitFails(m) \/ \E i \in DOMAIN pool[m] : pc[pool[m][i]] = "done"
  /\ joined' = [joined EXCEPT ![m] = Len(pool[m])]
  /\ UNCHANGED <<pc, pos, pool, ctx, parent, ran, crashed>>

WaitAll(m) ==
  /\ At(m, "join") /\ Library = "windows"
  /\ joined[m] < Len(pool[m])
  /\ WaitFails(m) \/ \A i \in DOMAIN pool[m] : pc[pool[m][i]] = "done"
  /\ joined' = [joined EXCEPT ![m] = Len(pool[m])]
  /\ UNCHANGED <<pc, pos, pool, ctx, parent, ran, crashed>>

(* the pool is released and cxpProcessMakeNode() returns *)
Finish(m) ==
  /\ At(m, "join")
  /\ joined[m] = Len(pool[m])
  /\ pc' = [pc EXCEPT ![m] = "done"]
  /\ UNCHANGED <<pos, pool, joined, ctx, parent, ran, crashed>>

Advance(m) ==
  \/ Validate(m) \/ Execute(m) \/ Call(m) \/ Return(m) \/ Fork(m)
  \/ EndLoop(m) \/ JoinNext(m) \/ WaitAll(m) \/ Finish(m)

(* the program ended *)
Ended == (crashed \/ pc[Top] = "done") /\ UNCHANGED vars

Next == Ended \/ \E m \in Make : Advance(m)

Spec == Init /\ [][Next]_vars

(* every thread is scheduled, and no instruction runs for ever *)
FairSpec == Spec /\ \A m \in Make : WF_vars(Advance(m))

--------------------------------------------------------------------------------
(* Properties *)

Active(m) == pc[m] \notin {"idle", "done"}

TypeOK ==
  /\ pc \in [Make -> {"idle", "start", "loop", "call", "join", "done"}]
  /\ pos \in [Make -> Nat] /\ \A m \in Make : pos[m] \in 1..(Len(Items[m]) + 1)
  /\ pool \in [Make -> Seq(Make \cup {NULL, Garbage})]
  /\ joined \in [Make -> Nat]
  /\ ctx \in [Make -> Context \cup {NULL}]
  /\ parent \in [Context -> Context \cup {NULL}]
  /\ ran \in Seq(Step)
  /\ crashed \in BOOLEAN

(* cxp.c:1908 "join all created threads of this MAKE element": an element    *)
(* whose processing has returned has no nested element still running; its    *)
(* caller frees what those use.                                              *)
JoinedAll == \A m \in Make : pc[m] = "done" => \A c \in Children(m) \cap Make : ~Active(c)

(* Two activations never work in the same context at a time, unless one of   *)
(* them waits: the location, search list, cache list and error count of a    *)
(* context are changed without any lock.                                     *)
ContextPrivate ==
  \A m, n \in Make :
    m # n /\ pc[m] \in {"start", "loop"} /\ pc[n] \in {"start", "loop"} => ctx[m] # ctx[n]

(* The parents of the context of an activation lead to the main context, so  *)
(* a thread finds the location, caches and log level it inherits.            *)
ContextRooted ==
  \A m \in Make : Active(m) =>
    LET up[n \in Nat] ==
          IF n = 0 THEN ctx[m] ELSE IF up[n - 1] = NULL THEN NULL ELSE parent[up[n - 1]]
    IN \E n \in 0..Cardinality(Context) : up[n] = Main

(* The nested elements are processed as by fork and join.                    *)
Status == [x \in Make \cup Step |->
  IF x \in Make
  THEN IF Active(x) THEN "active" ELSE IF pc[x] = "done" THEN "done" ELSE "todo"
  ELSE IF \E i \in DOMAIN ran : ran[i] = x THEN "done" ELSE "todo"]

ForkJoin ==
  INSTANCE CxpForkJoin
    WITH status <- Status,
         Forked <- {c \in Make \ Inline : \E m \in Make : Pooled(m) /\ c \in Children(m)}

ForkJoinSpec == ForkJoin!Spec

(* The processing returns, whatever is validated, cancelled or not started.  *)
Terminates == <>(crashed \/ pc[Top] = "done")

(* cxp.c:1832 "simple recursive call if no threads are available": an        *)
(* element that was not cancelled has processed all its nested elements.     *)
ChildrenProcessed ==
  \A m \in Make :
    At(m, "done") /\ pos[m] > Len(Items[m]) => \A c \in Children(m) \cap Make : pc[c] # "idle"

================================================================================
