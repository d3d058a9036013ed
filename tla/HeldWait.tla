------------------------------ MODULE HeldWait ------------------------------
(***************************************************************************)
(* Who may Wait while a resource claim is held (engine/resource.go,        *)
(* claim_owners.go, goroutine.go, frame_marker.go).                        *)
(*                                                                         *)
(* A claim is held for the length of one call, and "holding at most one    *)
(* resource at a time, and never waiting while holding one" is what keeps  *)
(* claims free of deadlock.  A second claim is refused through the context *)
(* the holder passes on; Wait takes no context, so it looks at the         *)
(* caller's own stack and at the claims of the one goroutine that started  *)
(* the caller.  The scheduler starts a Task's goroutine from whichever     *)
(* goroutine calls kick.                                                   *)
(*                                                                         *)
(* Goroutines run arbitrary callbacks built from the steps below.  The     *)
(* concurrency ceiling, cancellation and shared reads are left to the      *)
(* modules Scheduler and Registry; every claim here excludes.              *)
(***************************************************************************)
EXTENDS Naturals, Sequences, FiniteSets

CONSTANTS
    MaxGoroutine,   \* goroutines the run may start; 1 is the program's own
    MaxTask,        \* Tasks, in an order their Waits follow
    Resource,       \* resources a callback may claim
    MaxHolds,       \* claims one goroutine takes over its life
    Habit           \* what callbacks do beyond structured use, see below

ASSUME BoundsAssumption ==
    /\ MaxGoroutine \in Nat \ {0} /\ MaxTask \in Nat /\ MaxHolds \in Nat
    /\ "none" \notin Resource

(* "own context": a goroutine started under a claim claims with a context  *)
(* it was not handed.  "grandchild": it starts goroutines of its own.      *)
(* "children": a claim is taken while goroutines started earlier still run.*)
ASSUME HabitAssumption == Habit \subseteq {"own context", "grandchild", "children"}

Goroutine == 1..MaxGoroutine
Task == 1..MaxTask
None == 0

VARIABLES
    doing,   \* what each goroutine is doing
    maker,   \* the goroutine that started it: its creator in the traceback
    rank,    \* the Task whose callback it works for, None for the program
    worker,  \* goroutines the scheduler started to run a Task
    ctx,     \* the holder of the live claim its context carries, or None
    claimed, \* the resource it claims or holds, see doing; "none" without one
    line,    \* goroutines waiting for a claim, in arrival order
    target,  \* the Task or the goroutine it blocks on
    state,   \* each Task: declared, running, settled
    taken    \* claims each goroutine has taken

goroutines == <<doing, maker, rank, worker, ctx, claimed, line, target, state, taken>>

PC == {"unborn", "running", "queued", "granted", "leaving", "waiting", "joining", "ended"}

GoroutinesTypeOK ==
    /\ doing \in [Goroutine -> PC]
    /\ maker \in [Goroutine -> Goroutine \cup {None}]
    /\ rank \in [Goroutine -> Task \cup {None}]
    /\ worker \subseteq Goroutine
    /\ ctx \in [Goroutine -> Goroutine \cup {None}]
    /\ claimed \in [Goroutine -> Resource \cup {"none"}]
    /\ line \in Seq({g \in Goroutine : doing[g] = "queued"})
    /\ target \in [Goroutine -> 0..(MaxGoroutine + MaxTask)]
    /\ state \in [Task -> {"declared", "running", "settled"}]
    /\ taken \in [Goroutine -> 0..MaxHolds]

GoroutinesInit ==
    /\ doing = [g \in Goroutine |-> IF g = 1 THEN "running" ELSE "unborn"]
    /\ maker = [g \in Goroutine |-> None]
    /\ rank = [g \in Goroutine |-> None]
    /\ worker = {}
    /\ ctx = [g \in Goroutine |-> None]
    /\ claimed = [g \in Goroutine |-> "none"]
    /\ line = <<>>
    /\ target = [g \in Goroutine |-> 0]
    /\ state = [t \in Task |-> "declared"]
    /\ taken = [g \in Goroutine |-> 0]

Alive(g) == doing[g] \notin {"unborn", "ended"}
Children(g) == {h \in Goroutine \ worker : maker[h] = g /\ Alive(h)}

(* The claims the registry has granted, and the ones a Wait can see: a     *)
(* claim is noted after it is granted and forgotten before it is released. *)
Granted(g) == claimed[g] # "none" /\ doing[g] # "queued"
Noted(g) == Granted(g) /\ doing[g] \notin {"granted", "leaving"}

\* Fault: only the caller's own stack is looked at.
OwnStackHoldsClaim(g) == Noted(g)

\* waiterStack.holdsClaim: its own stack, then the goroutine that started it.
HoldsClaim(g) == Noted(g) \/ \E m \in Goroutine : maker[g] = m /\ Noted(m)

Free(r) == \A g \in Goroutine : ~(Granted(g) /\ claimed[g] = r)

----------------------------------------------------------------------------
(* Goroutines.                                                             *)

Unborn == {g \in Goroutine : doing[g] = "unborn"}
Newest == CHOOSE g \in Unborn : \A h \in Unborn : g <= h

\* `go`, from g, of a function working with context c.
Go(g, t, c) ==
    /\ Unborn # {}
    /\ maker' = [maker EXCEPT ![Newest] = g]
    /\ rank' = [rank EXCEPT ![Newest] = t]
    /\ ctx' = [ctx EXCEPT ![Newest] = c]
    /\ doing' = [doing EXCEPT ![Newest] = "running"]

(* A callback starts a goroutine, handing it the context it has.           *)
Spawn(g) ==
    /\ doing[g] = "running"
    /\ "grandchild" \in Habit \/ g \in worker \/ \A m \in Goroutine : maker[g] = m => ~Granted(m)
    /\ \E c \in {ctx[g]} \cup (IF "own context" \in Habit THEN {None} ELSE {}) :
           Go(g, rank[g], c)
    /\ UNCHANGED <<worker, claimed, line, target, state, taken>>

(* Define submits the Task and kicks: below the ceiling it starts at once, *)
(* on a goroutine whose creator is the one that called Define.             *)
Define(g, t) ==
    /\ doing[g] = "running" /\ state[t] = "declared" /\ t > rank[g]
    /\ Go(g, t, None)
    /\ worker' = worker \cup {Newest}
    /\ state' = [state EXCEPT ![t] = "running"]
    /\ UNCHANGED <<claimed, line, target, taken>>

(* The callback, or the function a `go` started, returns.                  *)
End(g) ==
    /\ doing[g] = "running" /\ claimed[g] = "none"
    /\ doing' = [doing EXCEPT ![g] = "ended"]
    /\ state' = IF g \in worker THEN [state EXCEPT ![rank[g]] = "settled"] ELSE state
    /\ UNCHANGED <<maker, rank, worker, ctx, claimed, line, target, taken>>

(* The callback blocks on a goroutine it started (errgroup.Wait).          *)
Join(g, h) ==
    /\ doing[g] = "running" /\ h \in Children(g)
    /\ doing' = [doing EXCEPT ![g] = "joining"]
    /\ target' = [target EXCEPT ![g] = h]
    /\ UNCHANGED <<maker, rank, worker, ctx, claimed, line, state, taken>>

Joined(g) ==
    /\ doing[g] = "joining" /\ doing[target[g]] = "ended"
    /\ doing' = [doing EXCEPT ![g] = "running"]
    /\ target' = [target EXCEPT ![g] = 0]
    /\ UNCHANGED <<maker, rank, worker, ctx, claimed, line, state, taken>>

----------------------------------------------------------------------------
(* Claims.                                                                 *)

\* resource.CheckFree: the context carries no live claim.
CheckFree(g) == ctx[g] = None

(* Effect, File and Basis claim through holdResource, and only with a      *)
(* Task's context: refused when the context carries a claim, otherwise     *)
(* granted at once or queued behind every earlier request for r.           *)
Hold(g, r) ==
    /\ doing[g] = "running" /\ rank[g] # None /\ taken[g] < MaxHolds
    /\ "children" \in Habit \/ Children(g) = {}
    /\ CheckFree(g)
    /\ claimed' = [claimed EXCEPT ![g] = r]
    /\ taken' = [taken EXCEPT ![g] = @ + 1]
    /\ IF Free(r) /\ \A i \in 1..Len(line) : claimed[line[i]] # r
       THEN /\ doing' = [doing EXCEPT ![g] = "granted"]
            /\ UNCHANGED line
       ELSE /\ doing' = [doing EXCEPT ![g] = "queued"]
            /\ line' = Append(line, g)
    /\ UNCHANGED <<maker, rank, worker, ctx, target, state>>

(* runHoldingResource notes the claim and calls fn with the held context.  *)
Note(g) ==
    /\ doing[g] = "granted"
    /\ doing' = [doing EXCEPT ![g] = "running"]
    /\ ctx' = [ctx EXCEPT ![g] = g]
    /\ UNCHANGED <<maker, rank, worker, claimed, line, target, state, taken>>

(* fn returned: the claim is forgotten first, then released.               *)
Leave(g) ==
    /\ doing[g] = "running" /\ claimed[g] # "none"
    /\ doing' = [doing EXCEPT ![g] = "leaving"]
    /\ UNCHANGED <<maker, rank, worker, ctx, claimed, line, target, state, taken>>

(* Registry.release: every context carrying the claim is free again and    *)
(* the first request waiting for the resource is granted.                  *)
ReleaseClaim(g) ==
    LET waiting == {i \in DOMAIN line : claimed[line[i]] = claimed[g]} IN
    /\ doing[g] = "leaving"
    /\ claimed' = [claimed EXCEPT ![g] = "none"]
    /\ ctx' = [h \in Goroutine |-> IF ctx[h] = g THEN None ELSE ctx[h]]
    /\ \/ /\ waiting = {}
          /\ doing' = [doing EXCEPT ![g] = "running"]
          /\ UNCHANGED line
       \/ \E i \in waiting :
             /\ \A j \in waiting : i =< j
             /\ doing' = [doing EXCEPT ![g] = "running", ![line[i]] = "granted"]
             /\ line' = SubSeq(line, 1, i - 1) \o SubSeq(line, i + 1, Len(line))
    /\ UNCHANGED <<maker, rank, worker, target, state, taken>>

----------------------------------------------------------------------------
(* Wait.                                                                   *)

(* refuseWaitUnderClaim, then waitSubmitted parks unless the Task has      *)
(* settled.  A refused Wait returns its error and changes nothing here.    *)
Wait(g, t) ==
    /\ doing[g] = "running" /\ t > rank[g] /\ state[t] # "declared"
    /\ ~HoldsClaim(g)
    /\ IF state[t] = "settled"
       THEN UNCHANGED <<doing, target>>
       ELSE /\ doing' = [doing EXCEPT ![g] = "waiting"]
            /\ target' = [target EXCEPT ![g] = t]
    /\ UNCHANGED <<maker, rank, worker, ctx, claimed, line, state, taken>>

Awake(g) ==
    /\ doing[g] = "waiting" /\ state[target[g]] = "settled"
    /\ doing' = [doing EXCEPT ![g] = "running"]
    /\ target' = [target EXCEPT ![g] = 0]
    /\ UNCHANGED <<maker, rank, worker, ctx, claimed, line, state, taken>>

\* Every goroutine has returned: the program may stop.
Terminated == (\A g \in Goroutine : ~Alive(g)) /\ UNCHANGED goroutines

GoroutinesNext ==
    \/ \E g \in Goroutine :
        \/ Spawn(g) \/ End(g) \/ Joined(g) \/ Awake(g)
        \/ Note(g) \/ Leave(g) \/ ReleaseClaim(g)
        \/ \E h \in Goroutine : Join(g, h)
        \/ \E r \in Resource : Hold(g, r)
        \/ \E t \in Task : Define(g, t) \/ Wait(g, t)
    \/ Terminated

GoroutinesSpec == GoroutinesInit /\ [][GoroutinesNext]_goroutines

----------------------------------------------------------------------------
(* Properties.                                                             *)

\* Who g cannot move without.
BlockedOn(g) ==
    CASE doing[g] = "queued"  -> {h \in Goroutine : Granted(h) /\ claimed[h] = claimed[g]}
      [] doing[g] = "waiting" -> {h \in worker : rank[h] = target[g] /\ Alive(h)}
      [] doing[g] = "joining" -> {target[g]} \cap {h \in Goroutine : Alive(h)}
      [] OTHER             -> {}

(* No group of goroutines blocks on itself: in every set of blocked        *)
(* goroutines one is waiting for somebody outside it, or for nobody any    *)
(* more.  "Holding at most one resource at a time, and never waiting while *)
(* holding one, is what makes deadlock impossible" (resource.go:181), the  *)
(* shape of a claim holder joining a goroutine that Waits included         *)
(* (claim_owners.go).                                                      *)
NoDeadlock ==
    \A D \in SUBSET {g \in Goroutine : BlockedOn(g) # {}} :
        D # {} => \E g \in D : BlockedOn(g) \cap D = {}
=============================================================================
