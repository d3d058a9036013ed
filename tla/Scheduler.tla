----------------------------- MODULE Scheduler ------------------------------
(***************************************************************************)
(* The task scheduler of one Output (internal/engine: execution.go,        *)
(* eligibility.go, settle.go, wait.go, wait_inputs.go, stall.go, cycle.go, *)
(* task_resolve.go, interrupt.go, finish.go), for Tasks with predecessors  *)
(* and one Sequence.                                                       *)
(*                                                                         *)
(* A Task is its declaration number.  Every critical section of o.mu       *)
(* starts with one action below; the settles and re-placements it cascades *)
(* into stay in todo and run, one step each, before o.mu is free again.    *)
(*                                                                         *)
(* An operator marked "Fault" is a plausible bug in the definition after   *)
(* it.  No specification uses it; it shows what a property can detect.     *)
(***************************************************************************)
EXTENDS Integers, FiniteSets, FiniteSetsExt

CONSTANTS
    N,           \* how many Tasks the program declares
    Callers,     \* the program's own goroutines that Wait
    NoTask,      \* no Task: nobody hosts, nothing is awaited
    Ceiling,     \* cfg.maxConcurrency
    Steps,       \* the Tasks declared in the Sequence
    Links,       \* pairs <<t, p>>: the After calls the program may make
    Waitings,    \* pairs <<w, t>>: the Wait calls the program may make
    Verbs,       \* pairs <<t, s>>: the terminal verbs it may call
    Noted,       \* the Tasks it may record a Problem on
    Narrated,    \* the Tasks it may call Doing on
    Interrupts,  \* whether a signal may arrive
    Joined       \* whether it calls Finish only once its goroutines are done

Tasks == 1 .. N
Waiters == Callers \cup Tasks

Succeeding == {"Done", "Skipped"}
Failing == {"Failed", "Blocked", "Cancelled", "NotStarted"}
Terminal == Succeeding \cup Failing
States == Terminal \cup {"Pending", "Running", "Incomplete"}

ASSUME SchedulerAssumption ==
    /\ N \in Nat
    /\ Ceiling \in Nat \ {0}
    /\ NoTask \notin Tasks \cup Callers
    /\ IsFiniteSet(Callers) /\ Callers \cap Tasks = {}
    /\ Steps \subseteq Tasks
    /\ Links \subseteq Tasks \X Tasks
    /\ Waitings \subseteq (Callers \cup Tasks) \X Tasks
    /\ Verbs \subseteq Tasks \X {"Failed", "Blocked", "Cancelled", "Skipped"}
    /\ Interrupts \in BOOLEAN /\ Joined \in BOOLEAN

VARIABLES
    declared,     \* o.declSeq: Tasks 1 .. declared exist
    state,        \* taskState.state
    problem,      \* the Tasks holding a blocking Problem
    phase,        \* taskSchedule.phase
    preds,        \* taskSchedule.preds: predecessors not yet seen to succeed
    after,        \* every predecessor a Task was ever given
    parkedOn,     \* the Task whose dependents list holds a parked Task
    todo,         \* what this critical section still has to place or stop
    stoppedAfter, \* the Sequence's stoppedAfter, 0 while none
    run,          \* how far the goroutine running a callback is
    workErr,      \* the Tasks whose callback returned an error
    proposed,     \* the Tasks holding a Skipped their callback must ratify
    pooled,       \* the claims that took a slot
    host,         \* the waiter whose goroutine runs a Task's callback
    depth,        \* callbackDepth of the goroutine running a callback
    inflight, executing, wg,
    takes,        \* kicks in their takeEligible loop
    stalls,       \* kicks about to call resolveStall
    waiting,      \* how far each goroutine's Wait is
    target,       \* the Task each Wait awaits
    released,     \* the waiters resolveStall released
    answer,       \* what each Wait returned
    cancelled, draining,
    interrupt,    \* how far interrupt is
    cancelling,   \* the handles cancelActive still has to cancel
    finish,       \* how far Finish is
    doomed,       \* the steps autoResolveGroups marks NotStarted
    abnormal,     \* abnormalFinish: a Failed or Cancelled entity exists
    misuse        \* misuse recorded for a verb the program never called

settleVars == <<state, phase, parkedOn, todo, wg>>
rowVars == <<declared, problem, preds, after, stoppedAfter>>
workVars == <<workErr, proposed>>
slotVars == <<pooled, host, depth, inflight, executing>>
runVars == <<run, workVars, slotVars>>
kickVars == <<takes, stalls>>
waitVars == <<waiting, target, released, answer>>
stopVars == <<cancelled, interrupt, cancelling>>
finishVars == <<draining, finish, doomed, abnormal>>
endVars == <<stopVars, finishVars, misuse>>
vars == <<settleVars, rowVars, runVars, kickVars, waitVars, endVars>>

-----------------------------------------------------------------------------
\* core.IsTerminalTask: Incomplete is not terminal.
IsTerminal(t) == state[t] \in Terminal

\* taskSchedule.submitted and taskState.awaitingStart.
Submitted(t) == phase[t] \in {"Queued", "Parked", "Running"}
AwaitingStart(t) == phase[t] \in {"Queued", "Parked"} /\ ~IsTerminal(t)
NeverDefined(t) == phase[t] = "Declared" /\ ~IsTerminal(t)

\* Fault: a drain leaves the Tasks nobody Defined pending.
OutcomeOfState(t) ==
    IF state[t] \in Succeeding THEN "succeeded"
    ELSE IF state[t] \in Failing THEN "failed" ELSE "pending"

\* taskOutcomeLocked: what t tells the Tasks after it.
Outcome(t) ==
    IF state[t] \in Succeeding THEN "succeeded"
    ELSE IF state[t] \in Failing \/ (draining /\ NeverDefined(t)) THEN "failed"
    ELSE "pending"

\* Fault: forgets every settled predecessor, not only the succeeded ones.
Settled(t) == {p \in preds[t] : Outcome(p) # "pending"}

\* predsOutcomeLocked: the predecessors that succeeded, and are forgotten; the
\* ones still pending; the ones that never will succeed.
Forgotten(t) == {p \in preds[t] : Outcome(p) = "succeeded"}
Blockers(t) == {p \in preds[t] : Outcome(p) = "pending"}
Losses(t) == {p \in preds[t] : Outcome(p) = "failed"}

\* eligibleLocked.  The queue is the Tasks in phase Queued.
Eligible(t) == preds[t] = Forgotten(t)
Queue == {t \in Tasks : AwaitingStart(t) /\ phase[t] = "Queued" /\ Eligible(t)}

\* ensureOpen, and whether o.mu is free.
Open == finish \in {"open", "draining", "drained"}
Unlocked == todo = {} /\ finish # "sweeping"

\* The parked Tasks on the dependents lists of S.
Dependents(S) == {d \in Tasks : phase[d] = "Parked" /\ parkedOn[d] \in S}

Wakes(S) == {"wake"} \X S
Places(S) == {"place"} \X S
Stops(S) == {"stop"} \X S

\* Fault: the outcome asked for, whatever the row holds.
AsAsked(t, s) == s

\* honestOutcome: no success over a Problem.
Honest(t, s) ==
    IF s \in Succeeding /\ t \in problem THEN "Failed" ELSE s

\* Faults: submitted work is released although it runs; or never released.
AbandonsSubmitted(S) == {t \in S : Submitted(t)}
AbandonsNothing(S) == {t \in S : FALSE}

\* The work that settles before it started, and so releases the drain.
Abandoned(S) == {t \in S : phase[t] \in {"Queued", "Parked"}}

\* settleLocked for every t in S, to outcome s; work is what else the critical
\* section owes afterwards.
Settle(S, s, work) ==
    /\ state' = [t \in Tasks |-> IF t \in S THEN Honest(t, s) ELSE state[t]]
    /\ phase' = [t \in Tasks |-> IF t \in Abandoned(S) THEN "Abandoned"
                                 ELSE phase[t]]
    /\ wg' = wg - Cardinality(Abandoned(S))
    /\ parkedOn' = [t \in Tasks |-> IF t \in S \cup Dependents(S) THEN NoTask
                                    ELSE parkedOn[t]]
    /\ todo' = work \cup Wakes(Dependents(S) \ S)

\* placeLocked for one submitted t.  preds keeps the order of the After calls
\* in the code; which pending predecessor comes first is left open here.
Place(t, scan, work) ==
    \/ /\ Eligible(t)
       /\ phase' = [phase EXCEPT ![t] = "Queued"]
       /\ preds' = [preds EXCEPT ![t] = {}]
       /\ parkedOn' = [parkedOn EXCEPT ![t] = NoTask]
       /\ todo' = work
       /\ UNCHANGED <<state, wg>>
    \/ \E b \in Blockers(t) :
       /\ scan = "all" => Losses(t) = {}
       /\ phase' = [phase EXCEPT ![t] = "Parked"]
       /\ preds' = [preds EXCEPT ![t] = @ \ Forgotten(t)]
       /\ parkedOn' = [parkedOn EXCEPT ![t] = b]
       /\ todo' = work
       /\ UNCHANGED <<state, wg>>
    \/ /\ Losses(t) # {}
       /\ Settle({t}, "NotStarted", work)
       /\ UNCHANGED preds

\* failSequenceFollowersLocked: the steps declared after t, unless an earlier
\* failure already stopped them.
StopsFollowers(t) == t \in Steps /\ (stoppedAfter = 0 \/ t < stoppedAfter)
\* Fault: leaves the steps nobody Defined yet.
DefinedFollowers(t) ==
    IF StopsFollowers(t)
    THEN {u \in Steps : t < u /\ u <= declared /\ Submitted(u)} ELSE {}

Followers(t) ==
    IF StopsFollowers(t) THEN {u \in Steps : t < u /\ u <= declared} ELSE {}
NextStoppedAfter(t) == IF StopsFollowers(t) THEN t ELSE stoppedAfter

-----------------------------------------------------------------------------
Init ==
    /\ declared = 0
    /\ state = [t \in Tasks |-> "Pending"]
    /\ problem = {}
    /\ phase = [t \in Tasks |-> "Declared"]
    /\ preds = [t \in Tasks |-> {}]
    /\ after = [t \in Tasks |-> {}]
    /\ parkedOn = [t \in Tasks |-> NoTask]
    /\ todo = {}
    /\ stoppedAfter = 0
    /\ run = [t \in Tasks |-> "none"]
    /\ workErr = {} /\ proposed = {} /\ pooled = {}
    /\ host = [t \in Tasks |-> NoTask]
    /\ depth = [t \in Tasks |-> 0]
    /\ inflight = 0 /\ executing = 0 /\ wg = 0
    /\ takes = 0 /\ stalls = 0
    /\ waiting = [w \in Waiters |-> "idle"]
    /\ target = [w \in Waiters |-> NoTask]
    /\ released = {}
    /\ answer = [w \in Waiters |-> "none"]
    /\ cancelled = FALSE /\ draining = FALSE
    /\ interrupt = "idle" /\ cancelling = {}
    /\ finish = "open" /\ doomed = {} /\ abnormal = FALSE
    /\ misuse = {}

-----------------------------------------------------------------------------
\* The rest of a critical section.

\* drainWokenLocked: place a woken Task again if it is still parked.
WakeTask(t) ==
    /\ <<"wake", t>> \in todo
    /\ IF phase[t] = "Parked" /\ ~IsTerminal(t)
       THEN Place(t, "toBlocker", todo \ {<<"wake", t>>})
       ELSE /\ todo' = todo \ {<<"wake", t>>}
            /\ UNCHANGED <<state, phase, parkedOn, wg, preds>>
    /\ UNCHANGED <<declared, problem, after, stoppedAfter, runVars, kickVars,
                   waitVars, endVars>>

\* placeLocked on newly submitted work, and replaceParkedLocked's loop over
\* the Tasks parked when the drain began: these read every predecessor.
PlaceTask(t) ==
    /\ todo \cap Wakes(Tasks) = {}
    /\ <<"place", t>> \in todo
    /\ IF AwaitingStart(t)
       THEN Place(t, "all", todo \ {<<"place", t>>})
       ELSE /\ todo' = todo \ {<<"place", t>>}
            /\ UNCHANGED <<state, phase, parkedOn, wg, preds>>
    /\ UNCHANGED <<declared, problem, after, stoppedAfter, runVars, kickVars,
                   waitVars, endVars>>

\* stopUnstartedLocked, for whichever loop put t here.
StopTask(t) ==
    /\ todo \cap Wakes(Tasks) = {}
    /\ <<"stop", t>> \in todo
    /\ IF phase[t] = "Running" \/ IsTerminal(t)
       THEN /\ todo' = todo \ {<<"stop", t>>}
            /\ UNCHANGED <<state, phase, parkedOn, wg>>
       ELSE Settle({t}, "NotStarted", todo \ {<<"stop", t>>})
    /\ UNCHANGED <<rowVars, runVars, kickVars, waitVars, endVars>>

\* sealInputsLocked: the Tasks nobody Defined that root waits for, directly or
\* through submitted predecessors.  The walk stops at Tasks nobody Defined.
WalkedFrom(root) ==
    {t \in Tasks : \A S \in SUBSET Tasks :
        (/\ root \in S
         /\ \A u \in S : u = root \/ ~NeverDefined(u)
                => {p \in preds[u] : ~IsTerminal(p)} \subseteq S)
        => t \in S}
Undefined(root) == {t \in WalkedFrom(root) \ {root} : NeverDefined(t)}

-----------------------------------------------------------------------------
\* Declaring and describing Tasks.

\* A callback that can make a call right now.
SomeCallback == \E t \in Tasks : run[t] = "body" /\ waiting[t] = "idle"

\* Whether the program can make a call: any goroutine of its own until Finish
\* when it joins them, and a callback until it returns.
MayCall == Unlocked /\ (Joined => finish = "open" \/ SomeCallback)

\* declareTaskLocked.  A step starts after the step declared before it, and a
\* Sequence that already stopped settles it at once.
DeclareTask ==
    LET t == declared + 1
        earlier == {u \in Steps : u <= declared}
        first == IF t \in Steps /\ earlier # {} THEN {Max(earlier)} ELSE {}
    IN  /\ Unlocked /\ (Joined => finish = "open") /\ Open
        /\ t \in Tasks
        /\ declared' = t
        /\ preds' = [preds EXCEPT ![t] = first]
        /\ after' = [after EXCEPT ![t] = first]
        /\ todo' = IF t \in Steps /\ stoppedAfter # 0 THEN Stops({t}) ELSE {}
        /\ UNCHANGED <<state, phase, parkedOn, wg, problem, stoppedAfter,
                       runVars, kickVars, waitVars, endVars>>

\* TaskHandle.After, refused once t is submitted.
After(t, p) ==
    /\ MayCall
    /\ <<t, p>> \in Links /\ p \notin after[t]
    /\ t <= declared /\ p <= declared
    /\ ~Submitted(t)
    /\ preds' = [preds EXCEPT ![t] = @ \cup {p}]
    /\ after' = [after EXCEPT ![t] = @ \cup {p}]
    /\ UNCHANGED <<settleVars, declared, problem, stoppedAfter, runVars,
                   kickVars, waitVars, endVars>>

\* recordBlockingProblem.
Problem(t) ==
    /\ MayCall /\ Open
    /\ t \in Noted \ problem
    /\ t <= declared /\ ~IsTerminal(t)
    /\ problem' = problem \cup {t}
    /\ UNCHANGED <<settleVars, declared, preds, after, stoppedAfter, runVars,
                   kickVars, waitVars, endVars>>

\* Doing (and every progress verb): a Pending row starts Running, whether or
\* not its work did.
Doing(t) ==
    /\ MayCall /\ Open
    /\ t \in Narrated
    /\ t <= declared /\ state[t] = "Pending"
    /\ state' = [state EXCEPT ![t] = "Running"]
    /\ UNCHANGED <<phase, parkedOn, todo, wg, rowVars, runVars, kickVars,
                   waitVars, endVars>>

\* submitWork, and the kick that follows it.  After an interrupt the work is
\* settled at once instead.
Define(t) ==
    /\ MayCall /\ Open
    /\ t <= declared /\ ~IsTerminal(t) /\ ~Submitted(t)
    /\ wg' = wg + 1
    /\ phase' = [phase EXCEPT ![t] = "Queued"]
    /\ IF cancelled
       THEN todo' = Stops({t}) /\ UNCHANGED takes
       ELSE todo' = Places({t}) /\ takes' = takes + 1
    /\ UNCHANGED <<state, parkedOn, rowVars, runVars, stalls, waitVars,
                   endVars>>

-----------------------------------------------------------------------------
\* Resolution.

\* resolve's guards: a closed Output or a terminal Task refuses every verb.
Resolvable(t) == Open /\ ~IsTerminal(t)

\* resolve, once its guards passed: settle t, and in the same critical section
\* stop the followers of a submitted step that failed.
ResolveTo(t, s) ==
    LET stops == Submitted(t) /\ Honest(t, s) \in Failing
    IN  /\ Settle({t}, s, IF stops THEN Stops(Followers(t)) ELSE {})
        /\ stoppedAfter' = IF stops THEN NextStoppedAfter(t) ELSE stoppedAfter

\* A terminal verb the program calls.  Skipped on submitted work is only a
\* proposal.
CallerResolve(t, s) ==
    /\ MayCall
    /\ <<t, s>> \in Verbs
    /\ t <= declared /\ Resolvable(t)
    /\ IF s = "Skipped" /\ Submitted(t)
       THEN /\ proposed' = proposed \cup {t}
            /\ UNCHANGED <<settleVars, rowVars>>
       ELSE /\ ResolveTo(t, s)
            /\ problem' = IF s \in {"Failed", "Blocked"} THEN problem \cup {t}
                          ELSE problem
            /\ UNCHANGED <<declared, preds, after, proposed>>
    /\ UNCHANGED <<run, workErr, slotVars, kickVars, waitVars, endVars>>

\* resolveScheduled: the scheduler's own verdict s on t.  A closed Output or a
\* row that turned terminal meanwhile records misuse instead.
ScheduledResolve(t, s) ==
    IF Resolvable(t)
    THEN /\ ResolveTo(t, s)
         /\ problem' = IF s = "Failed" THEN problem \cup {t} ELSE problem
         /\ UNCHANGED <<declared, preds, after, misuse>>
    ELSE /\ misuse' = misuse \cup
                {IF Open THEN "ErrAlreadyResolved" ELSE "ErrClosed"}
         /\ UNCHANGED <<settleVars, rowVars>>

-----------------------------------------------------------------------------
\* Running callbacks.

Depth(w) == IF w \in Tasks THEN depth[w] ELSE 0

\* claimLocked for t, on a pooled worker (w = NoTask) or on the goroutine of
\* the waiter w.
Claim(t, slot, w) ==
    /\ phase' = [phase EXCEPT ![t] = "Running"]
    /\ state' = [state EXCEPT ![t] = IF @ = "Pending" THEN "Running" ELSE @]
    /\ run' = [run EXCEPT ![t] = "body"]
    /\ host' = [host EXCEPT ![t] = w]
    /\ depth' = [depth EXCEPT ![t] = Depth(w) + 1]
    /\ executing' = executing + 1
    /\ IF slot
       THEN inflight' = inflight + 1 /\ pooled' = pooled \cup {t}
       ELSE UNCHANGED <<pooled, inflight>>
    /\ UNCHANGED <<parkedOn, todo, wg, rowVars, workVars>>

\* Fault: starts queued work after an interrupt too.
StartableAnyway == inflight < Ceiling /\ Queue # {}

\* Whether the pool can start queued work now: the run was not interrupted, a
\* slot is free and something is eligible.
Startable == ~cancelled /\ inflight < Ceiling /\ Queue # {}

\* takeEligible: the earliest queued Task that can start; with none, the kick
\* goes on to resolveStall.
TakeEligible ==
    /\ Unlocked /\ takes > 0
    /\ IF Startable
       THEN /\ Claim(Min(Queue), TRUE, NoTask)
            /\ UNCHANGED kickVars
       ELSE /\ takes' = takes - 1
            /\ stalls' = stalls + 1
            /\ UNCHANGED <<settleVars, rowVars, runVars>>
    /\ UNCHANGED <<waitVars, endVars>>

\* The callback of t is running its own code.
Active(t) == run[t] = "body" /\ waiting[t] = "idle"

\* fn returns; recordWorkOutcome stores its error.
Returns(t) ==
    /\ Unlocked /\ Active(t)
    /\ workErr' \in {workErr, workErr \cup {t}}
    /\ run' = [run EXCEPT ![t] = "returned"]
    /\ UNCHANGED <<settleVars, rowVars, proposed, slotVars, kickVars, waitVars,
                   endVars>>

\* fn panics: finishClaimed fails the row before anything else.
Panics(t) ==
    /\ Unlocked /\ Active(t)
    /\ ScheduledResolve(t, "Failed")
    /\ run' = [run EXCEPT ![t] = "tail"]
    /\ UNCHANGED <<workVars, slotVars, kickVars, waitVars, stopVars,
                   finishVars>>

\* executeWork's taskIsTerminal: a row already resolved is left alone.
Observe(t) ==
    /\ Unlocked /\ run[t] = "returned"
    /\ run' = [run EXCEPT ![t] = IF ~IsTerminal(t) THEN "resolve"
                                 ELSE IF t \in workErr THEN "followers"
                                 ELSE "tail"]
    /\ UNCHANGED <<settleVars, rowVars, workVars, slotVars, kickVars, waitVars,
                   endVars>>

\* resolveObserved: the returned error decides, else the proposal, else Done.
ResolveObserved(t) ==
    /\ Unlocked /\ run[t] = "resolve"
    /\ ScheduledResolve(t, IF t \in workErr THEN "Failed"
                           ELSE IF t \in proposed THEN "Skipped" ELSE "Done")
    /\ proposed' = proposed \ {t}
    /\ run' = [run EXCEPT ![t] = IF t \in workErr THEN "followers" ELSE "tail"]
    /\ UNCHANGED <<workErr, slotVars, kickVars, waitVars, stopVars,
                   finishVars>>

\* executeWork's failSequenceFollowers after a returned error.
FailFollowers(t) ==
    /\ Unlocked /\ run[t] = "followers"
    /\ todo' = Stops(Followers(t))
    /\ stoppedAfter' = NextStoppedAfter(t)
    /\ run' = [run EXCEPT ![t] = "tail"]
    /\ UNCHANGED <<state, phase, parkedOn, wg, declared, problem, preds, after,
                   workVars, slotVars, kickVars, waitVars, endVars>>

\* finishClaimed: give back what the claim took, then kick.  A waiter that
\* hosted t goes on with its own Wait.
FinishClaimed(t) ==
    /\ Unlocked /\ run[t] = "tail"
    /\ run' = [run EXCEPT ![t] = "done"]
    /\ inflight' = IF t \in pooled THEN inflight - 1 ELSE inflight
    /\ pooled' = pooled \ {t}
    /\ executing' = executing - 1
    /\ wg' = wg - 1
    /\ takes' = takes + 1
    /\ waiting' = IF host[t] = NoTask THEN waiting
                  ELSE [waiting EXCEPT ![host[t]] =
                            IF target[host[t]] = t THEN "look" ELSE "claim"]
    /\ host' = [host EXCEPT ![t] = NoTask]
    /\ UNCHANGED <<state, phase, parkedOn, todo, rowVars, workVars, depth,
                   stalls, target, released, answer, endVars>>

-----------------------------------------------------------------------------
\* TaskHandle.Wait.

\* Wait up to runWaitedWork: sealAwaitedInputs settles what nobody Defined.
WaitBegin(w, t) ==
    /\ Unlocked
    /\ <<w, t>> \in Waitings
    /\ waiting[w] = "idle" /\ answer[w] = "none"
    /\ IF w \in Tasks THEN run[w] = "body" ELSE Joined => finish = "open"
    /\ t <= declared
    /\ target' = [target EXCEPT ![w] = t]
    /\ waiting' = [waiting EXCEPT ![w] = "claim"]
    /\ todo' = IF IsTerminal(t) THEN {}
               ELSE IF NeverDefined(t) THEN Stops({t})
               ELSE Stops(Undefined(t))
    /\ UNCHANGED <<state, phase, parkedOn, wg, rowVars, runVars, kickVars,
                   released, answer, endVars>>

\* takeWaiterSlotLocked: a callback lends the slot it holds; a plain caller
\* needs a free one.
MayHost(w) == Depth(w) > 0 \/ inflight < Ceiling

\* One claim by a waiting goroutine.
HostTask(w, t) ==
    /\ Claim(t, Depth(w) = 0, w)
    /\ waiting' = [waiting EXCEPT ![w] = "hosting"]

\* claimForWaiter: run the awaited Task itself.
ClaimAwaited(w) ==
    LET t == target[w]
    IN  /\ Unlocked /\ waiting[w] = "claim"
        /\ IF ~cancelled /\ AwaitingStart(t) /\ Eligible(t) /\ MayHost(w)
           THEN HostTask(w, t)
           ELSE /\ waiting' = [waiting EXCEPT ![w] = "stalled"]
                /\ UNCHANGED <<settleVars, rowVars, runVars>>
        /\ UNCHANGED <<kickVars, target, released, answer, endVars>>

\* awaitedWorkIsStalled: does anything hold the awaited Task back?
CheckStalled(w) ==
    /\ Unlocked /\ waiting[w] = "stalled"
    /\ waiting' = [waiting EXCEPT ![w] =
                        IF AwaitingStart(target[w]) THEN "donate" ELSE "look"]
    /\ UNCHANGED <<settleVars, rowVars, runVars, kickVars, target, released,
                   answer, endVars>>

\* claimAnyForWaiter: run whatever the scheduler reaches first.
ClaimAny(w) ==
    /\ Unlocked /\ waiting[w] = "donate"
    /\ IF ~cancelled /\ Queue # {} /\ MayHost(w)
       THEN HostTask(w, Min(Queue))
       ELSE /\ waiting' = [waiting EXCEPT ![w] = "look"]
            /\ UNCHANGED <<settleVars, rowVars, runVars>>
    /\ UNCHANGED <<kickVars, target, released, answer, endVars>>

\* waitSubmitted: park with a ticket and kick, unless there is nothing to park
\* for.
Park(w) ==
    LET t == target[w]
    IN  /\ Unlocked /\ waiting[w] = "look"
        /\ IF NeverDefined(t) \/ IsTerminal(t)
           THEN /\ waiting' = [waiting EXCEPT ![w] = "report"]
                /\ UNCHANGED takes
           ELSE /\ waiting' = [waiting EXCEPT ![w] = "parked"]
                /\ takes' = takes + 1
        /\ UNCHANGED <<settleVars, rowVars, runVars, stalls, target, released,
                       answer, endVars>>

\* doneCh of t is closed: settleLocked ran, to Incomplete too.
Closed(t) == IsTerminal(t) \/ state[t] = "Incomplete"

\* select saw doneCh; endWait removes the ticket and kicks nobody.
EndWait(w) ==
    /\ Unlocked /\ waiting[w] = "parked"
    /\ Closed(target[w])
    /\ waiting' = [waiting EXCEPT ![w] = "report"]
    /\ released' = released \ {w}
    /\ UNCHANGED <<settleVars, rowVars, runVars, kickVars, target, answer,
                   endVars>>

\* select saw abort: ErrWaitDeadlock.
AbortWait(w) ==
    /\ Unlocked /\ waiting[w] = "parked"
    /\ w \in released
    /\ waiting' = [waiting EXCEPT ![w] = "idle"]
    /\ released' = released \ {w}
    /\ answer' = [answer EXCEPT ![w] = "error"]
    /\ UNCHANGED <<settleVars, rowVars, runVars, kickVars, target, endVars>>

\* Fault: only what the callback returned counts.
CallbackOutcome(t) == IF t \in workErr THEN "error" ELSE "ok"

\* waitOutcome: the answer for the awaited Task as it stands now.
WaitOutcome(t) ==
    IF t \in workErr \/ NeverDefined(t) \/ state[t] \in Failing
    THEN "error" ELSE "ok"

ReportWait(w) ==
    /\ Unlocked /\ waiting[w] = "report"
    /\ waiting' = [waiting EXCEPT ![w] = "idle"]
    /\ answer' = [answer EXCEPT ![w] = WaitOutcome(target[w])]
    /\ UNCHANGED <<settleVars, rowVars, runVars, kickVars, target, released,
                   endVars>>

-----------------------------------------------------------------------------
\* resolveStall, once a kick found nothing more to start.  Its steps 1 and 4
\* only ever act on collections (see NothingStranded) and are left out.

\* o.sched.waits: the parked waiters nothing released yet.
Tickets == {w \in Waiters : waiting[w] = "parked"} \ released

\* Fault: one callback per ticket, also where the waiter nests several.
HeldByTickets == Cardinality({w \in Tickets : Depth(w) > 0})

\* The Wait calls of the model are made by goroutines no callback started, so
\* a waiter holds only the callbacks on its own stack.
HeldCallbacks == MapThenSumSet(Depth, Tickets)

\* Fault: overlooks a waiter whose Task is resolved but that has not woken yet.
ProgressOfWork == executing > HeldCallbacks \/ Startable

ProgressPossible ==
    \/ executing > HeldCallbacks
    \/ Startable
    \/ \E w \in Tickets : IsTerminal(target[w])

\* resolveStall's early returns.
Stalled == (Tickets # {} \/ draining) /\ ~ProgressPossible

\* The waiters step 1 would seal an input for.  A drain answers for those.
Unsealed ==
    IF draining THEN {}
    ELSE {w \in Tickets : ~IsTerminal(target[w]) /\ Undefined(target[w]) # {}}

Parked == {t \in Tasks : phase[t] = "Parked" /\ ~IsTerminal(t)}

\* The members of S that t waits for, directly or not, without leaving S.
ReachedIn(S, t) ==
    {u \in S : \A R \in SUBSET S :
        Blockers(t) \cap S \subseteq R
        /\ (\A v \in R : v \in Parked => Blockers(v) \cap S \subseteq R)
        => u \in R}

\* The parked Tasks on an After cycle, and those on one together with t.
Cyclic == {t \in Parked : t \in ReachedIn(Parked, t)}
CyclicWith(t) ==
    {u \in Cyclic : u \in ReachedIn(Parked, t) /\ t \in ReachedIn(Parked, u)}

\* What the cycles dependencyCyclesLocked lists can cover.  The depth-first
\* walk closes a cycle wherever one exists, and lists no cycle through a Task
\* it already left; which ones those are depends on the order of the After
\* calls, which is left open.
FoundCycles ==
    {B \in SUBSET Cyclic :
        /\ \A t \in B : t \in ReachedIn(B, t)
        /\ \A t \in Cyclic : CyclicWith(t) \cap B # {}}

\* The kick ends: nothing is stalled, or nothing can be done about it.
EndKick ==
    /\ Unlocked /\ stalls > 0
    /\ ~Stalled \/ (Cyclic = {} /\ Tickets = {})
    /\ stalls' = stalls - 1
    /\ UNCHANGED <<settleVars, rowVars, runVars, takes, waitVars, endVars>>

\* resolveStall changed something: the kick schedules again.
KickAgain ==
    /\ Unlocked /\ stalls > 0 /\ Stalled
    /\ stalls' = stalls - 1
    /\ takes' = takes + 1

\* Step 2, blockCyclesLocked: every Task of a listed cycle is settled before
\* any of them wakes another.
BlockCycles ==
    /\ KickAgain
    /\ Cyclic # {}
    /\ \E B \in FoundCycles :
       /\ Settle(B, "Blocked", {})
       /\ problem' = problem \cup B
    /\ UNCHANGED <<declared, preds, after, stoppedAfter, runVars, waitVars,
                   endVars>>

\* Step 3, releaseWaitsLocked.
ReleaseWaits ==
    /\ KickAgain
    /\ Cyclic = {} /\ Tickets # {}
    /\ released' = released \cup Tickets
    /\ UNCHANGED <<settleVars, rowVars, runVars, waiting, target, answer,
                   endVars>>

-----------------------------------------------------------------------------
\* interrupt, on the goroutine of Run.

Declared == 1 .. declared

\* The scheduler is closed to new work first.
Interrupt ==
    /\ Unlocked
    /\ Interrupts /\ interrupt = "idle" /\ finish = "open"
    /\ cancelled' = TRUE
    /\ interrupt' = "scan"
    /\ UNCHANGED <<settleVars, rowVars, runVars, kickVars, waitVars,
                   cancelling, finishVars, misuse>>

\* cancelActive collects the Running rows, else the earliest Pending one, else
\* records a Cancelled row for the run itself.
CancelActive ==
    LET running == {t \in Declared : state[t] = "Running"}
        pending == {t \in Declared : state[t] = "Pending"}
    IN  /\ Unlocked /\ interrupt = "scan"
        /\ interrupt' = "cancelling"
        /\ cancelling' = IF running # {} THEN running
                         ELSE IF pending # {} THEN {Min(pending)} ELSE {}
        /\ abnormal' = (abnormal \/ running \cup pending = {})
        /\ UNCHANGED <<settleVars, rowVars, runVars, kickVars, waitVars,
                       cancelled, draining, finish, doomed, misuse>>

\* t.Cancel on the next collected row, without o.mu held in between.
CancelNext ==
    LET t == Min(cancelling)
    IN  /\ Unlocked /\ interrupt = "cancelling" /\ cancelling # {}
        /\ cancelling' = cancelling \ {t}
        /\ IF Resolvable(t)
           THEN /\ ResolveTo(t, "Cancelled")
                /\ UNCHANGED <<declared, problem, preds, after, misuse>>
           ELSE /\ misuse' = misuse \cup {"ErrAlreadyResolved"}
                /\ UNCHANGED <<settleVars, rowVars>>
        /\ UNCHANGED <<runVars, kickVars, waitVars, cancelled, interrupt,
                       finishVars>>

\* abandonQueuedWork: whatever had not begun settles NotStarted.
AbandonQueued ==
    /\ Unlocked /\ interrupt = "cancelling" /\ cancelling = {}
    /\ todo' = Stops(Declared)
    /\ interrupt' = "done"
    /\ UNCHANGED <<state, phase, parkedOn, wg, rowVars, runVars, kickVars,
                   waitVars, cancelled, cancelling, finishVars, misuse>>

-----------------------------------------------------------------------------
\* Finish.  Run calls it after its function returned and any interrupt is
\* through.

\* drainScheduler: replaceParkedLocked, and a kick.
FinishBegin ==
    /\ Unlocked /\ finish = "open" /\ interrupt \in {"idle", "done"}
    /\ Joined => \A w \in Callers : waiting[w] = "idle"
    /\ finish' = "draining"
    /\ draining' = TRUE
    /\ parkedOn' = [t \in Tasks |-> NoTask]
    /\ todo' = Places(Parked)
    /\ takes' = takes + 1
    /\ UNCHANGED <<state, phase, wg, rowVars, runVars, stalls, waitVars,
                   stopVars, doomed, abnormal, misuse>>

\* wg.Wait returns.
Drained ==
    /\ Unlocked /\ finish = "draining" /\ wg = 0
    /\ finish' = "drained"
    /\ UNCHANGED <<settleVars, rowVars, runVars, kickVars, waitVars, stopVars,
                   draining, doomed, abnormal, misuse>>

\* finishing is set; autoResolveGroupsLocked and abnormalFinishLocked look at
\* the ledger as it is now.
SweepBegin ==
    LET stopped == {t \in Declared : state[t] \in {"Failed", "Cancelled"}}
    IN  /\ Unlocked /\ finish = "drained"
        /\ finish' = "sweeping"
        /\ doomed' = {t \in Steps \cap Declared :
                         ~IsTerminal(t) /\ \E u \in Steps \cap stopped : u < t}
        /\ abnormal' = (abnormal \/ stopped # {})
        /\ UNCHANGED <<settleVars, rowVars, runVars, kickVars, waitVars,
                       stopVars, draining, misuse>>

\* The rows the sweep still has to settle, in its order.
Unresolved == {t \in Declared : ~Closed(t)}
NextUnresolved ==
    IF doomed \cap Unresolved # {} THEN Min(doomed \cap Unresolved)
    ELSE Min(Unresolved)

\* settleUnresolvedTasksLocked: a row that told its story is Done, which
\* honestOutcome turns into Failed over a Problem.  A proposal leaves the
\* Skipped record that counts as such a story.
SweptTo(t) ==
    IF t \in doomed THEN "NotStarted"
    ELSE IF t \in problem \cup proposed THEN "Done"
    ELSE IF ~abnormal THEN "Incomplete"
    ELSE IF state[t] = "Running" THEN "Cancelled" ELSE "NotStarted"

SweepTask ==
    LET t == NextUnresolved
    IN  /\ finish = "sweeping" /\ todo = {} /\ Unresolved # {}
        /\ Settle({t}, SweptTo(t), {})
        /\ UNCHANGED <<rowVars, runVars, kickVars, waitVars, endVars>>

SweepEnd ==
    /\ finish = "sweeping" /\ todo = {} /\ Unresolved = {}
    /\ finish' = "finished"
    /\ UNCHANGED <<settleVars, rowVars, runVars, kickVars, waitVars, stopVars,
                   draining, doomed, abnormal, misuse>>

-----------------------------------------------------------------------------
\* What the program may do, and need not.
Program ==
    \/ DeclareTask
    \/ \E t, p \in Tasks : After(t, p)
    \/ \E t \in Tasks : Problem(t) \/ Doing(t) \/ Define(t)
    \/ \E t \in Tasks, s \in Terminal : CallerResolve(t, s)
    \/ \E w \in Waiters, t \in Tasks : WaitBegin(w, t)
    \/ Interrupt

\* The steps one goroutine of the engine takes for Task t or waiter w.
TaskStep(t) ==
    \/ WakeTask(t) \/ PlaceTask(t) \/ StopTask(t)
    \/ Observe(t) \/ ResolveObserved(t) \/ FailFollowers(t)
    \/ FinishClaimed(t)

WaitStep(w) ==
    \/ ClaimAwaited(w) \/ CheckStalled(w) \/ ClaimAny(w) \/ Park(w)
    \/ EndWait(w) \/ AbortWait(w) \/ ReportWait(w)

Kick ==
    \/ TakeEligible
    \/ EndKick \/ BlockCycles \/ ReleaseWaits

Ending ==
    \/ CancelActive \/ CancelNext \/ AbandonQueued
    \/ Drained \/ SweepBegin \/ SweepTask \/ SweepEnd

\* The engine's code, and the two things it counts on the program for: a
\* callback ends, and Finish is called.
Runtime ==
    \/ \E t \in Tasks : TaskStep(t) \/ Returns(t) \/ Panics(t)
    \/ \E w \in Waiters : WaitStep(w)
    \/ Kick
    \/ FinishBegin \/ Ending

\* Everything is over.
Over ==
    /\ finish = "finished" /\ todo = {}
    /\ takes = 0 /\ stalls = 0
    /\ \A t \in Tasks : run[t] \in {"none", "done"}
    /\ \A w \in Waiters : waiting[w] = "idle"
    /\ UNCHANGED vars

Next == Program \/ Runtime \/ Over

Spec == Init /\ [][Next]_vars

\* No step of Runtime can be repeated forever, so weak fairness of the whole
\* is weak fairness of each goroutine.
FairSpec == Spec /\ WF_vars(Runtime)

-----------------------------------------------------------------------------
Phases == {"Declared", "Queued", "Parked", "Running", "Abandoned"}
Runs == {"none", "body", "returned", "resolve", "followers", "tail", "done"}
WaitPlaces == {"idle", "claim", "hosting", "stalled", "donate", "look",
               "parked", "report"}

SettleTypes ==
    /\ state \in [Tasks -> States]
    /\ phase \in [Tasks -> Phases]
    /\ parkedOn \in [Tasks -> Tasks \cup {NoTask}]
    /\ todo \in SUBSET ({"wake", "place", "stop"} \X Tasks)

RowTypes ==
    /\ declared \in 0 .. N /\ stoppedAfter \in 0 .. N
    /\ problem \in SUBSET Tasks
    /\ preds \in [Tasks -> SUBSET Tasks]
    /\ after \in [Tasks -> SUBSET Tasks]

RunTypes ==
    /\ run \in [Tasks -> Runs]
    /\ workErr \in SUBSET Tasks /\ proposed \in SUBSET Tasks
    /\ pooled \in SUBSET Tasks
    /\ host \in [Tasks -> Waiters \cup {NoTask}]
    /\ depth \in [Tasks -> Nat]

WaitTypes ==
    /\ waiting \in [Waiters -> WaitPlaces]
    /\ target \in [Waiters -> Tasks \cup {NoTask}]
    /\ released \in SUBSET Waiters
    /\ answer \in [Waiters -> {"none", "ok", "error"}]

EndTypes ==
    /\ cancelled \in BOOLEAN /\ draining \in BOOLEAN
    /\ interrupt \in {"idle", "scan", "cancelling", "done"}
    /\ cancelling \in SUBSET Tasks
    /\ finish \in {"open", "draining", "drained", "sweeping", "finished"}
    /\ doomed \in SUBSET Tasks
    /\ abnormal \in BOOLEAN
    /\ misuse \in SUBSET {"ErrAlreadyResolved", "ErrClosed"}

CountTypes ==
    /\ inflight \in Nat /\ executing \in Nat /\ wg \in Nat
    /\ takes \in Nat /\ stalls \in Nat

\* Type invariant of the scheduler's state.
TypeOK ==
    /\ SettleTypes /\ RowTypes /\ RunTypes
    /\ WaitTypes /\ EndTypes /\ CountTypes

\* After (eligibility.go): "this Task starts only once every one of them
\* succeeded".  A predecessor may be settled, woken and forgotten in any order;
\* a callback that started still had all of them succeed.
StartsOnlyAfterSuccess ==
    \A t \in Tasks : phase[t] = "Running" =>
        \A p \in after[t] : state[p] \in Succeeding

\* predsOutcomeLocked relies on it: "a terminal state never reverts".  The
\* callback's return, the caller's verbs, the interrupt, a stall and Finish all
\* race to settle one row; the first wins.
SettledForGood ==
    [][\A t \in Tasks : IsTerminal(t) => state'[t] = state[t]]_vars

\* settleLocked: "submitted work that never started releases its hold on the
\* drain".  wg counts exactly the work that has not started or not finished,
\* whichever path abandoned the rest.
DrainAccounting ==
    wg = Cardinality({t \in Tasks : phase[t] \in {"Queued", "Parked"}})
         + Cardinality({t \in Tasks : run[t] \notin {"none", "done"}})

\* Wait: "MaxConcurrency bounds every executing callback", the ones waiters
\* run on their own goroutines included.
ActiveBounded ==
    Cardinality({t \in Tasks : run[t] \notin {"none", "done"}
                                /\ waiting[t] = "idle"}) <= Ceiling

\* The drain and the ceiling are only as good as these counts, whoever abandons
\* work and on whichever goroutine it runs.
CountsAgree == DrainAccounting /\ ActiveBounded

\* failSequenceFollowersLocked: "nobody who sees the failure sees a follower
\* pending".  Followers declared, Defined or Skipped at any time count.
FollowersStopped ==
    Unlocked =>
        \A t \in Steps \cap Declared :
            phase[t] = "Running" /\ state[t] \in Failing =>
                \A u \in Steps \cap Declared :
                    t < u => phase[u] = "Running" \/ IsTerminal(u)

\* resolveScheduled is "the sole authority that may declare a submitted task
\* successful", and honestOutcome's evidence rule holds on every path: a green
\* row has no Problem, no failed callback, and no callback still running.
GreenRowsEarned ==
    \A t \in Tasks : state[t] \in Succeeding =>
        /\ t \notin problem \cup workErr
        /\ Submitted(t) => run[t] \in {"tail", "done"}

\* Wait: it "never reports success for work that did not happen".
WaitTellsTruth ==
    \A w \in Waiters : answer[w] = "ok" => state[target[w]] \in Succeeding

\* interrupt: "the scheduler is closed to new work" before anything else, so
\* no callback starts after it, on a worker or on a waiter.
NothingStartsOnceCancelled ==
    [][cancelled => \A t \in Tasks : run[t] = "none" => run'[t] = "none"]_vars

\* drainScheduler "runs the queue to empty" before the ledger closes: when
\* Finish is through, no callback runs, no waiter is parked and no row is open.
LedgerComplete ==
    finish \in {"sweeping", "finished"} =>
        /\ \A t \in Tasks : run[t] \in {"none", "done"}
        /\ \A w \in Waiters : waiting[w] = "idle"
        /\ finish = "finished" => \A t \in Declared : Closed(t)

\* resolveStall has two more steps, for collections: step 1 seals inputs
\* "declared after that Wait walked", step 4 settles what waits for "a
\* collection whose member nobody Defined".  Over Tasks alone neither has
\* anything to do: sealAwaitedInputs, replaceParkedLocked, the cascade and the
\* cycles it blocks leave nothing undefined and nothing parked.
NothingStranded ==
    Unlocked /\ stalls > 0 /\ Stalled =>
        /\ Unsealed = {}
        /\ Cyclic = {} /\ Tickets = {} => Parked = {}

\* What t cannot end without: before it starts, the Tasks it comes after; once
\* it runs, the Task its callback Waits for.
Awaits(t) ==
    (IF AwaitingStart(t) THEN Blockers(t) ELSE {})
    \cup (IF run[t] = "body" /\ waiting[t] # "idle" THEN {target[t]} ELSE {})

\* Or the callback its goroutine took on while it Waits.
Needs(t) == Awaits(t) \cup {u \in Tasks : host[u] = t}

Circle(needs(_)) ==
    \E S \in SUBSET Tasks : S # {} /\ \A t \in S : needs(t) \cap S # {}

\* ErrWaitDeadlock: "when nothing in the run can ever satisfy the wait".  A
\* stall releases a waiter only when some Tasks truly wait for each other, the
\* callbacks a waiting goroutine took on included; a run that can still move is
\* never taken for a stalled one.
NoFalseDeadlock == [][released' \subseteq released \/ cancelled \/ Circle(Needs)]_vars

\* resolveStall: "Left alone, either would hang the run forever, so each step
\* below turns what is stuck into a stated outcome".  Whatever Tasks wait for
\* each other, and whoever waits for them, Finish returns.
FinishReturns == <>(finish = "finished")

\* The same promise for every parked Wait. Waitings names whoever may Wait.
WaitsReturn ==
    \A w \in {call[1] : call \in Waitings} : waiting[w] # "idle" ~> waiting[w] = "idle"

=============================================================================
