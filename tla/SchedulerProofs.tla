-------------------------- MODULE SchedulerProofs ---------------------------
\* What holds of the scheduler for every number of Tasks, every MaxConcurrency,
\* and every program.  The inductive invariant IInv says that the counters of
\* the code count what they stand for; the theorems about order and slots, about
\* how rows settle and about stalls add what they need to it.
EXTENDS Scheduler, FiniteSetTheorems, WellFoundedInduction, TLAPS

-----------------------------------------------------------------------------
\* Types.

\* A set of numbers has a least one.
LEMMA LeastNumber ==
    ASSUME NEW S, S \subseteq Nat, S # {}
    PROVE  \E m \in S : \A x \in S : m =< x
<1> DEFINE R == OpToRel(<, Nat)
<1>1. \A x, y \in Nat : x < y => <<x, y>> \in R
    BY Zenon DEF OpToRel
<1>2. PICK m \in S : \A x \in S : ~ (<<x, m>> \in R)
  <2> HIDE DEF R
  <2>1. IsWellFoundedOn(R, Nat)
    BY NatLessThanWellFounded, Zenon DEF R
  <2> QED
    BY <2>1, WFMin, Zenon
<1>3. \A x \in S : m =< x
  <2> HIDE DEF R
  <2>1. ASSUME NEW x \in S, ~ (m =< x)
        PROVE  x < m
    BY <2>1
  <2> QED
    BY <1>1, <1>2, <2>1
<1> QED
    BY <1>3

\* takeEligible, cancelActive and the sweep take the earliest Task of a set: Min
\* (the community modules') returns a member of it that no other precedes.
LEMMA MinIsLeast ==
    ASSUME NEW S, S \subseteq Tasks, S # {}
    PROVE  Min(S) \in S /\ \A x \in S : Min(S) =< x
<1>1. S \subseteq Nat
    BY SchedulerAssumption DEF Tasks
<1>2. \E m \in S : \A x \in S : m =< x
    BY <1>1, LeastNumber
<1> QED
    BY <1>2 DEF Min

\* declareTaskLocked links a step to the last one declared before it: Max
\* returns a member of the set.
LEMMA MaxIsGreatest ==
    ASSUME NEW S, S \subseteq Tasks, S # {}
    PROVE  Max(S) \in S
<1> DEFINE D == {N + 1 - x : x \in S}
<1>1. D \subseteq Tasks /\ D # {}
  <2>1. \A x \in Tasks : N + 1 - x \in Tasks
    BY SchedulerAssumption DEF Tasks
  <2> QED
    BY <2>1
<1>2. PICK d \in D : \A e \in D : d =< e
  <2> HIDE DEF D
  <2> QED
    BY <1>1, MinIsLeast
<1>3. PICK m \in S : d = N + 1 - m
    OBVIOUS
<1>4. \A x \in S : m >= x
  <2>1. \A x \in S : d =< N + 1 - x
    BY <1>2
  <2> QED
    BY <1>3, <2>1, SchedulerAssumption DEF Tasks
<1> QED
    BY <1>4 DEF Max

\* A new Output has the types.
LEMMA InitTypeOK == Init => TypeOK
<1> SUFFICES ASSUME Init PROVE TypeOK
    OBVIOUS
<1> USE SchedulerAssumption DEF Init
<1>1. SettleTypes
    BY DEF SettleTypes, States, Phases
<1>2. RowTypes
    BY DEF RowTypes
<1>3. RunTypes
    BY DEF RunTypes, Runs
<1>4. WaitTypes
    BY DEF WaitTypes, WaitPlaces
<1>5. EndTypes /\ CountTypes
    BY DEF EndTypes, CountTypes
<1> QED
   BY <1>1, <1>2, <1>3, <1>4, <1>5 DEF TypeOK

\* What settleLocked leaves has the types of the ledger.
LEMMA SettleTyped ==
    ASSUME SettleTypes, NEW S, S \subseteq Tasks,
           NEW s \in Terminal \cup {"Incomplete"},
           NEW work, work \subseteq {"wake", "place", "stop"} \X Tasks,
           Settle(S, s, work)
    PROVE  SettleTypes'
<1>1. Dependents(S) \subseteq Tasks
    BY DEF Dependents
<1>2. state' \in [Tasks -> States]
    BY DEF Settle, SettleTypes, States, Honest, Terminal, Failing
<1>3. phase' \in [Tasks -> Phases]
    BY DEF Settle, SettleTypes, Phases
<1>4. parkedOn' \in [Tasks -> Tasks \cup {NoTask}]
    BY DEF Settle, SettleTypes
<1>5. todo' \subseteq {"wake", "place", "stop"} \X Tasks
    BY <1>1 DEF Settle, Wakes
<1> QED
    BY <1>2, <1>3, <1>4, <1>5 DEF SettleTypes

\* placeLocked leaves the types of the ledger, whichever way it decides.
LEMMA PlaceTyped ==
    ASSUME SettleTypes, RowTypes, NEW t \in Tasks, NEW scan,
           NEW work, work \subseteq {"wake", "place", "stop"} \X Tasks,
           Place(t, scan, work)
    PROVE  SettleTypes'
<1>1. CASE Losses(t) # {} /\ Settle({t}, "NotStarted", work)
    BY <1>1, SettleTyped DEF Terminal, Failing
<1>2. CASE /\ phase' = [phase EXCEPT ![t] = "Queued"]
           /\ parkedOn' = [parkedOn EXCEPT ![t] = NoTask]
           /\ todo' = work /\ UNCHANGED state
    BY <1>2 DEF SettleTypes, Phases
<1>3. ASSUME NEW b \in Blockers(t),
             phase' = [phase EXCEPT ![t] = "Parked"],
             parkedOn' = [parkedOn EXCEPT ![t] = b],
             todo' = work, UNCHANGED state
      PROVE  SettleTypes'
  <2>1. parkedOn' \in [Tasks -> Tasks \cup {NoTask}]
    BY <1>3 DEF SettleTypes, RowTypes, Blockers
  <2> QED
    BY <1>3, <2>1 DEF SettleTypes, Phases
<1> QED
    BY <1>1, <1>2, <1>3 DEF Place

\* What a critical section may still owe.
Works == SUBSET ({"wake", "place", "stop"} \X Tasks)

\* So does resolve, followers included.
LEMMA ResolveToTyped ==
    ASSUME SettleTypes, RowTypes, NEW t \in Tasks, NEW s \in Terminal,
           ResolveTo(t, s)
    PROVE  SettleTypes' /\ stoppedAfter' \in 0 .. N
<1>1. Stops(Followers(t)) \in Works
    BY SchedulerAssumption DEF Stops, Followers, Works
<1>2. SettleTypes'
    BY <1>1, SettleTyped DEF ResolveTo, Works
<1>3. stoppedAfter' \in 0 .. N
    BY SchedulerAssumption DEF ResolveTo, NextStoppedAfter, RowTypes, Tasks
<1> QED
    BY <1>2, <1>3

\* So does resolveScheduled, whether it resolves or records misuse.
LEMMA ScheduledResolveTyped ==
    ASSUME TypeOK, NEW t \in Tasks, NEW s \in Terminal,
           ScheduledResolve(t, s)
    PROVE  /\ SettleTypes' /\ RowTypes'
           /\ misuse' \subseteq {"ErrAlreadyResolved", "ErrClosed"}
<1>1. CASE ResolveTo(t, s)
  <2>1. SettleTypes' /\ stoppedAfter' \in 0 .. N
    BY <1>1, ResolveToTyped DEF TypeOK
  <2>2. RowTypes'
    BY <1>1, <2>1 DEF ScheduledResolve, TypeOK, RowTypes, settleVars, rowVars
  <2> QED
    BY <1>1, <2>1, <2>2 DEF ScheduledResolve, TypeOK, EndTypes
<1>2. CASE UNCHANGED <<settleVars, rowVars>>
    BY <1>2
    DEF ScheduledResolve, TypeOK, SettleTypes, RowTypes, EndTypes, settleVars,
        rowVars
<1> QED
    BY <1>1, <1>2 DEF ScheduledResolve

\* The declared rows are Tasks.
LEMMA DeclaredAreTasks ==
    ASSUME RowTypes
    PROVE  Declared \subseteq Tasks
BY SchedulerAssumption DEF RowTypes, Declared, Tasks

\* The sweep picks a row that is still open.
LEMMA NextUnresolvedIsOpen ==
    ASSUME RowTypes, Unresolved # {}
    PROVE  NextUnresolved \in Unresolved /\ NextUnresolved \in Tasks
<1>1. Unresolved \subseteq Tasks
    BY DeclaredAreTasks DEF Unresolved
<1>2. Min(Unresolved) \in Unresolved
    BY <1>1, MinIsLeast
<1>3. doomed \cap Unresolved # {} => Min(doomed \cap Unresolved) \in Unresolved
  <2> DEFINE S == doomed \cap Unresolved
  <2>1. S \subseteq Tasks
    BY <1>1
  <2> HIDE DEF S
  <2>2. S # {} => Min(S) \in S
    BY <2>1, MinIsLeast
  <2> QED
    BY <2>2 DEF S
<1> QED
    BY <1>1, <1>2, <1>3 DEF NextUnresolved

\* Claims: a queued Task starts to run.
LEMMA ClaimTyped ==
    ASSUME TypeOK, NEW t \in Tasks, NEW slot, NEW w \in Waiters \cup {NoTask},
           Claim(t, slot, w)
    PROVE  SettleTypes' /\ RowTypes' /\ RunTypes'
<1>1. SettleTypes'
    BY DEF Claim, TypeOK, SettleTypes, States, Phases
<1>2. RowTypes'
    BY DEF Claim, TypeOK, RowTypes, rowVars
<1>3. Depth(w) + 1 \in Nat
    BY DEF Depth, TypeOK, RunTypes
<1>4. pooled' \subseteq Tasks
    BY DEF Claim, TypeOK, RunTypes
<1> QED
    BY <1>1, <1>2, <1>3, <1>4 DEF Claim, TypeOK, RunTypes, Runs, workVars

\* Every Wait under way awaits a Task.
Awaiting == \A w \in Waiters : waiting[w] # "idle" => target[w] \in Tasks

\* Every step keeps the types of states, phases, parking and pending work.
LEMMA SettleTypesStep ==
    ASSUME TypeOK, Awaiting, [Next]_vars
    PROVE  SettleTypes'
<1> USE DEF Works
<1>1. CASE UNCHANGED <<state, phase, parkedOn, todo>>
    BY <1>1 DEF TypeOK, SettleTypes
<1>2. ASSUME NEW t \in Tasks, WakeTask(t) PROVE SettleTypes'
    BY <1>2, PlaceTyped DEF WakeTask, TypeOK, SettleTypes
<1>3. ASSUME NEW t \in Tasks, PlaceTask(t) PROVE SettleTypes'
    BY <1>3, PlaceTyped DEF PlaceTask, TypeOK, SettleTypes
<1>4. ASSUME NEW t \in Tasks, StopTask(t) PROVE SettleTypes'
    BY <1>4, SettleTyped DEF StopTask, TypeOK, SettleTypes, Terminal, Failing
<1>5. CASE DeclareTask
    BY <1>5 DEF DeclareTask, TypeOK, SettleTypes, Stops
<1>6. ASSUME NEW t \in Tasks, Doing(t) PROVE SettleTypes'
    BY <1>6 DEF Doing, TypeOK, SettleTypes, States
<1>7. ASSUME NEW t \in Tasks, Define(t) PROVE SettleTypes'
    BY <1>7 DEF Define, TypeOK, SettleTypes, Phases, Stops, Places
<1>8. ASSUME NEW t \in Tasks, NEW s \in Terminal, CallerResolve(t, s)
      PROVE  SettleTypes'
    BY <1>8, ResolveToTyped DEF CallerResolve, TypeOK, SettleTypes, settleVars
<1>9. CASE TakeEligible
  <2>1. Queue # {} => Min(Queue) \in Tasks
    BY MinIsLeast DEF Queue
  <2> QED
    BY <1>9, <2>1, ClaimTyped
    DEF TakeEligible, Startable, TypeOK, SettleTypes, settleVars
<1>10. ASSUME NEW t \in Tasks, Panics(t) PROVE SettleTypes'
    BY <1>10, ScheduledResolveTyped DEF Panics, Terminal, Failing
<1>11. ASSUME NEW t \in Tasks, ResolveObserved(t) PROVE SettleTypes'
    BY <1>11, ScheduledResolveTyped
    DEF ResolveObserved, Terminal, Failing, Succeeding
<1>12. ASSUME NEW t \in Tasks, FailFollowers(t) PROVE SettleTypes'
    BY <1>12, SchedulerAssumption
    DEF FailFollowers, TypeOK, SettleTypes, Stops, Followers
<1>13. ASSUME NEW w \in Waiters, NEW t \in Tasks, WaitBegin(w, t)
       PROVE  SettleTypes'
  <2>1. Undefined(t) \subseteq Tasks
    BY DEF Undefined, WalkedFrom
  <2> QED
    BY <1>13, <2>1 DEF WaitBegin, TypeOK, SettleTypes, Stops
<1>14. ASSUME NEW w \in Waiters, ClaimAwaited(w) PROVE SettleTypes'
    BY <1>14, ClaimTyped
    DEF ClaimAwaited, HostTask, Awaiting, TypeOK, SettleTypes, settleVars
<1>15. ASSUME NEW w \in Waiters, ClaimAny(w) PROVE SettleTypes'
  <2>1. Queue # {} => Min(Queue) \in Tasks
    BY MinIsLeast DEF Queue
  <2> QED
    BY <1>15, <2>1, ClaimTyped
    DEF ClaimAny, HostTask, TypeOK, SettleTypes, settleVars
<1>16. CASE BlockCycles
  <2>1. PICK B \in FoundCycles : Settle(B, "Blocked", {})
    BY <1>16 DEF BlockCycles
  <2>2. B \subseteq Tasks
    BY DEF FoundCycles, Cyclic, Parked
  <2> QED
    BY <2>1, <2>2, SettleTyped DEF TypeOK, Terminal, Failing
<1>17. CASE CancelNext
  <2>1. cancelling # {} => Min(cancelling) \in Tasks
    BY MinIsLeast DEF TypeOK, EndTypes
  <2> QED
    BY <1>17, <2>1, ResolveToTyped
    DEF CancelNext, TypeOK, SettleTypes, settleVars, Terminal, Failing
<1>18. CASE AbandonQueued
    BY <1>18, DeclaredAreTasks DEF AbandonQueued, TypeOK, SettleTypes, Stops
<1>19. CASE FinishBegin
    BY <1>19 DEF FinishBegin, TypeOK, SettleTypes, Places, Parked
<1>20. CASE SweepTask
    BY <1>20, NextUnresolvedIsOpen, SettleTyped
    DEF SweepTask, SweptTo, TypeOK, Terminal, Failing, Succeeding, Unresolved
<1>21. ASSUME \/ \E t, p \in Tasks : After(t, p)
              \/ \E t \in Tasks : \/ Problem(t) \/ Returns(t) \/ Observe(t)
                                  \/ FinishClaimed(t)
              \/ \E w \in Waiters : \/ CheckStalled(w) \/ Park(w) \/ EndWait(w)
                                    \/ AbortWait(w) \/ ReportWait(w)
              \/ EndKick \/ ReleaseWaits \/ Interrupt \/ CancelActive
              \/ Drained \/ SweepBegin \/ SweepEnd \/ Over \/ UNCHANGED vars
       PROVE UNCHANGED <<state, phase, parkedOn, todo>>
    BY <1>21 DEF After, Problem, Returns, Observe, FinishClaimed, CheckStalled,
        Park, EndWait, AbortWait, ReportWait, EndKick, ReleaseWaits, Interrupt,
        CancelActive, Drained, SweepBegin, SweepEnd, Over, vars, settleVars
<1> QED
    BY <1>1, <1>2, <1>3, <1>4, <1>5, <1>6, <1>7, <1>8, <1>9, <1>10, <1>11,
       <1>12, <1>13, <1>14, <1>15, <1>16, <1>17, <1>18, <1>19, <1>20, <1>21
    DEF Next, Program, Runtime, TaskStep, WaitStep, Kick, Ending

\* Every step keeps the types of the rows.
LEMMA RowTypesStep ==
    ASSUME TypeOK, Awaiting, [Next]_vars
    PROVE  RowTypes'
<1>1. CASE UNCHANGED rowVars
    BY <1>1 DEF TypeOK, RowTypes, rowVars
<1>2. ASSUME NEW t \in Tasks, WakeTask(t) \/ PlaceTask(t)
      PROVE  RowTypes'
  <2>1. preds' \in [Tasks -> SUBSET Tasks]
    BY <1>2 DEF WakeTask, PlaceTask, Place, TypeOK, RowTypes
  <2> QED
    BY <1>2, <2>1 DEF WakeTask, PlaceTask, TypeOK, RowTypes
<1>3. CASE DeclareTask
  <2> DEFINE earlier == {u \in Steps : u <= declared}
             first == IF declared + 1 \in Steps /\ earlier # {}
                      THEN {Max(earlier)} ELSE {}
  <2>1. first \subseteq Tasks
    BY SchedulerAssumption, MaxIsGreatest
  <2>2. preds' = [preds EXCEPT ![declared + 1] = first]
    BY <1>3 DEF DeclareTask
  <2>3. after' = [after EXCEPT ![declared + 1] = first]
    BY <1>3 DEF DeclareTask
  <2>4. declared' \in 0 .. N /\ UNCHANGED <<problem, stoppedAfter>>
    BY <1>3, SchedulerAssumption DEF DeclareTask, Tasks
  <2> HIDE DEF first
  <2> QED
    BY <2>1, <2>2, <2>3, <2>4 DEF TypeOK, RowTypes
<1>4. ASSUME NEW t \in Tasks, NEW p \in Tasks, After(t, p)
      PROVE  RowTypes'
    BY <1>4 DEF After, TypeOK, RowTypes
<1>5. ASSUME NEW t \in Tasks, Problem(t)
      PROVE  RowTypes'
    BY <1>5 DEF Problem, TypeOK, RowTypes
<1>6. ASSUME NEW t \in Tasks, NEW s \in Terminal, CallerResolve(t, s)
      PROVE  RowTypes'
    BY <1>6, ResolveToTyped DEF CallerResolve, TypeOK, RowTypes, rowVars
<1>7. ASSUME NEW t \in Tasks, Panics(t) \/ ResolveObserved(t)
      PROVE  RowTypes'
    BY <1>7, ScheduledResolveTyped
    DEF Panics, ResolveObserved, Terminal, Failing, Succeeding
<1>8. ASSUME NEW t \in Tasks, FailFollowers(t)
      PROVE  RowTypes'
    BY <1>8, SchedulerAssumption
    DEF FailFollowers, NextStoppedAfter, TypeOK, RowTypes, Tasks
<1>9. CASE BlockCycles
  <2>1. PICK B \in FoundCycles : problem' = problem \cup B
    BY <1>9 DEF BlockCycles
  <2> QED
    BY <1>9, <2>1 DEF BlockCycles, FoundCycles, Cyclic, Parked, TypeOK, RowTypes
<1>10. CASE CancelNext
  <2>1. cancelling # {} => Min(cancelling) \in Tasks
    BY MinIsLeast DEF TypeOK, EndTypes
  <2> QED
    BY <1>10, <2>1, ResolveToTyped
    DEF CancelNext, TypeOK, RowTypes, rowVars, Terminal, Failing
<1>11. CASE TakeEligible
    BY <1>11 DEF TakeEligible, Claim, TypeOK, RowTypes, rowVars
<1>12. ASSUME NEW w \in Waiters, ClaimAwaited(w) \/ ClaimAny(w)
       PROVE  RowTypes'
    BY <1>12
    DEF ClaimAwaited, ClaimAny, HostTask, Claim, TypeOK, RowTypes, rowVars
<1>13. ASSUME \/ \E t \in Tasks : Doing(t) \/ Define(t) \/ StopTask(t)
                    \/ Returns(t) \/ Observe(t) \/ FinishClaimed(t)
              \/ \E w \in Waiters : \/ \E t \in Tasks : WaitBegin(w, t)
                    \/ CheckStalled(w) \/ Park(w) \/ EndWait(w)
                    \/ AbortWait(w) \/ ReportWait(w)
              \/ EndKick \/ ReleaseWaits \/ Interrupt \/ CancelActive
              \/ AbandonQueued \/ FinishBegin \/ Drained \/ SweepBegin
              \/ SweepTask \/ SweepEnd \/ Over \/ UNCHANGED vars
       PROVE UNCHANGED rowVars
    BY <1>13 DEF Doing, Define, StopTask, Returns, Observe, FinishClaimed,
        WaitBegin, CheckStalled, Park, EndWait, AbortWait, ReportWait, EndKick,
        ReleaseWaits, Interrupt, CancelActive, AbandonQueued, FinishBegin,
        Drained, SweepBegin, SweepTask, SweepEnd, Over, vars
<1> QED
    BY <1>1, <1>2, <1>3, <1>4, <1>5, <1>6, <1>7, <1>8, <1>9, <1>10, <1>11,
       <1>12, <1>13
    DEF Next, Program, Runtime, TaskStep, WaitStep, Kick, Ending

\* Every step keeps the types of the callbacks and the slots.
LEMMA RunTypesStep ==
    ASSUME TypeOK, Awaiting, [Next]_vars
    PROVE  RunTypes'
<1>1. CASE UNCHANGED runVars
    BY <1>1 DEF TypeOK, RunTypes, runVars, workVars, slotVars
<1>2. ASSUME NEW t \in Tasks, NEW s \in Terminal, CallerResolve(t, s)
      PROVE  RunTypes'
    BY <1>2 DEF CallerResolve, TypeOK, RunTypes, slotVars
<1>3. CASE TakeEligible
  <2>1. Queue # {} => Min(Queue) \in Tasks
    BY MinIsLeast DEF Queue
  <2> QED
    BY <1>1, <1>3, <2>1, ClaimTyped DEF TakeEligible, Startable
<1>4. ASSUME NEW w \in Waiters, ClaimAwaited(w)
      PROVE  RunTypes'
    BY <1>1, <1>4, ClaimTyped DEF ClaimAwaited, HostTask, Awaiting
<1>5. ASSUME NEW w \in Waiters, ClaimAny(w)
      PROVE  RunTypes'
  <2>1. Queue # {} => Min(Queue) \in Tasks
    BY MinIsLeast DEF Queue
  <2> QED
    BY <1>1, <1>5, <2>1, ClaimTyped DEF ClaimAny, HostTask
<1>6. ASSUME NEW t \in Tasks, \/ Returns(t) \/ Panics(t) \/ Observe(t)
                             \/ ResolveObserved(t) \/ FailFollowers(t)
      PROVE  RunTypes'
  <2>1. run' \in [Tasks -> Runs]
    BY <1>6 DEF Returns, Panics, Observe, ResolveObserved, FailFollowers,
        TypeOK, RunTypes, Runs
  <2>2. workErr' \in SUBSET Tasks /\ proposed' \in SUBSET Tasks
    BY <1>6 DEF Returns, Panics, Observe, ResolveObserved, FailFollowers,
        TypeOK, RunTypes, workVars
  <2>3. UNCHANGED slotVars
    BY <1>6 DEF Returns, Panics, Observe, ResolveObserved, FailFollowers
  <2> QED
    BY <2>1, <2>2, <2>3 DEF TypeOK, RunTypes, slotVars
<1>7. ASSUME NEW t \in Tasks, FinishClaimed(t)
      PROVE  RunTypes'
    BY <1>7 DEF FinishClaimed, TypeOK, RunTypes, Runs, workVars
<1>8. ASSUME \/ DeclareTask \/ \E t, p \in Tasks : After(t, p)
             \/ \E t \in Tasks : Problem(t) \/ Doing(t) \/ Define(t)
                    \/ WakeTask(t) \/ PlaceTask(t) \/ StopTask(t)
             \/ \E w \in Waiters : \/ \E t \in Tasks : WaitBegin(w, t)
                    \/ CheckStalled(w) \/ Park(w) \/ EndWait(w)
                    \/ AbortWait(w) \/ ReportWait(w)
             \/ EndKick \/ BlockCycles \/ ReleaseWaits \/ Interrupt
             \/ CancelActive \/ CancelNext \/ AbandonQueued \/ FinishBegin
             \/ Drained \/ SweepBegin \/ SweepTask \/ SweepEnd \/ Over
             \/ UNCHANGED vars
      PROVE UNCHANGED runVars
    BY <1>8 DEF DeclareTask, After, Problem, Doing, Define, WakeTask, PlaceTask,
        StopTask, WaitBegin, CheckStalled, Park, EndWait, AbortWait, ReportWait,
        EndKick, BlockCycles, ReleaseWaits, Interrupt, CancelActive, CancelNext,
        AbandonQueued, FinishBegin, Drained, SweepBegin, SweepTask, SweepEnd,
        Over, vars
<1> QED
    BY <1>1, <1>2, <1>3, <1>4, <1>5, <1>6, <1>7, <1>8
    DEF Next, Program, Runtime, TaskStep, WaitStep, Kick, Ending

\* A hosted callback has a waiter of its own, which does nothing else.
Hosting ==
    \A t \in Tasks : host[t] # NoTask =>
        /\ waiting[host[t]] = "hosting"
        /\ \A u \in Tasks : host[u] = host[t] => u = t

\* Every step keeps the types of the Waits, and that each awaits a Task.
LEMMA WaitTypesStep ==
    ASSUME TypeOK, Awaiting, Hosting, [Next]_vars
    PROVE  WaitTypes' /\ Awaiting'
<1>1. CASE UNCHANGED waitVars
    BY <1>1 DEF TypeOK, WaitTypes, Awaiting, waitVars
<1>2. ASSUME NEW w \in Waiters, NEW t \in Tasks, WaitBegin(w, t)
      PROVE  WaitTypes' /\ Awaiting'
    BY <1>2 DEF WaitBegin, TypeOK, WaitTypes, Awaiting, WaitPlaces
<1>3. ASSUME NEW w \in Waiters, \/ ClaimAwaited(w) \/ CheckStalled(w)
                                \/ ClaimAny(w) \/ Park(w)
      PROVE  WaitTypes' /\ Awaiting'
    BY <1>3 DEF ClaimAwaited, CheckStalled, ClaimAny, HostTask, Park, TypeOK,
        WaitTypes, Awaiting, WaitPlaces
<1>4. ASSUME NEW w \in Waiters, EndWait(w) \/ AbortWait(w) \/ ReportWait(w)
      PROVE  WaitTypes' /\ Awaiting'
    BY <1>4 DEF EndWait, AbortWait, ReportWait, WaitOutcome, TypeOK, WaitTypes,
        Awaiting, WaitPlaces
<1>5. ASSUME NEW t \in Tasks, FinishClaimed(t)
      PROVE  WaitTypes' /\ Awaiting'
    BY <1>5 DEF FinishClaimed, TypeOK, WaitTypes, Awaiting, Hosting, WaitPlaces
<1>6. CASE ReleaseWaits
    BY <1>6 DEF ReleaseWaits, Tickets, TypeOK, WaitTypes, Awaiting
<1>7. ASSUME \/ DeclareTask \/ \E t, p \in Tasks : After(t, p)
             \/ \E t \in Tasks : Problem(t) \/ Doing(t) \/ Define(t)
                    \/ WakeTask(t) \/ PlaceTask(t) \/ StopTask(t)
                    \/ Returns(t) \/ Panics(t) \/ Observe(t)
                    \/ ResolveObserved(t) \/ FailFollowers(t)
             \/ \E t \in Tasks, s \in Terminal : CallerResolve(t, s)
             \/ TakeEligible \/ EndKick \/ BlockCycles \/ Interrupt
             \/ CancelActive \/ CancelNext \/ AbandonQueued \/ FinishBegin
             \/ Drained \/ SweepBegin \/ SweepTask \/ SweepEnd \/ Over
             \/ UNCHANGED vars
      PROVE UNCHANGED waitVars
    BY <1>7 DEF DeclareTask, After, Problem, Doing, Define, WakeTask, PlaceTask,
        StopTask, Returns, Panics, Observe, ResolveObserved, FailFollowers,
        CallerResolve, TakeEligible, EndKick, BlockCycles, Interrupt,
        CancelActive, CancelNext, AbandonQueued, FinishBegin, Drained,
        SweepBegin, SweepTask, SweepEnd, Over, vars
<1> QED
    BY <1>1, <1>2, <1>3, <1>4, <1>5, <1>6, <1>7
    DEF Next, Program, Runtime, TaskStep, WaitStep, Kick, Ending

\* Every step keeps the types of the interrupt and of Finish.
LEMMA EndTypesStep ==
    ASSUME TypeOK, Awaiting, [Next]_vars
    PROVE  EndTypes'
<1>1. CASE UNCHANGED endVars
    BY <1>1 DEF TypeOK, EndTypes, endVars, stopVars, finishVars
<1>2. ASSUME NEW t \in Tasks, Panics(t) \/ ResolveObserved(t)
      PROVE  EndTypes'
  <2>1. misuse' \subseteq {"ErrAlreadyResolved", "ErrClosed"}
    BY <1>2, ScheduledResolveTyped
    DEF Panics, ResolveObserved, Terminal, Failing, Succeeding
  <2> QED
    BY <1>2, <2>1 DEF Panics, ResolveObserved, TypeOK, EndTypes, stopVars,
        finishVars
<1>3. CASE CancelActive
  <2> DEFINE running == {t \in Declared : state[t] = "Running"}
             pending == {t \in Declared : state[t] = "Pending"}
  <2>1. running \subseteq Tasks /\ pending \subseteq Tasks
    BY DeclaredAreTasks DEF TypeOK
  <2>2. pending # {} => Min(pending) \in Tasks
    BY <2>1, MinIsLeast
  <2>3. cancelling' \subseteq Tasks
    BY <1>3, <2>1, <2>2 DEF CancelActive
  <2> QED
    BY <1>3, <2>3 DEF CancelActive, TypeOK, EndTypes
<1>4. CASE Interrupt \/ CancelNext \/ AbandonQueued
    BY <1>4
    DEF Interrupt, CancelNext, AbandonQueued, TypeOK, EndTypes, finishVars
<1>5. CASE FinishBegin \/ Drained \/ SweepBegin \/ SweepEnd
    BY <1>5, SchedulerAssumption DEF FinishBegin, Drained, SweepBegin, SweepEnd,
        TypeOK, EndTypes, stopVars
<1>6. ASSUME \/ DeclareTask \/ \E t, p \in Tasks : After(t, p)
             \/ \E t \in Tasks : Problem(t) \/ Doing(t) \/ Define(t)
                    \/ WakeTask(t) \/ PlaceTask(t) \/ StopTask(t)
                    \/ Returns(t) \/ Observe(t) \/ FailFollowers(t)
                    \/ FinishClaimed(t)
             \/ \E t \in Tasks, s \in Terminal : CallerResolve(t, s)
             \/ \E w \in Waiters : \/ WaitStep(w)
                                   \/ \E t \in Tasks : WaitBegin(w, t)
             \/ TakeEligible \/ EndKick \/ BlockCycles \/ ReleaseWaits
             \/ SweepTask \/ Over \/ UNCHANGED vars
      PROVE UNCHANGED endVars
    BY <1>6
    DEF DeclareTask, After, Problem, Doing, Define, WakeTask, PlaceTask,
        StopTask, Returns, Observe, FailFollowers, FinishClaimed, CallerResolve,
        WaitBegin, WaitStep, ClaimAwaited, CheckStalled, ClaimAny, Park,
        EndWait, AbortWait, ReportWait, TakeEligible, EndKick, BlockCycles,
        ReleaseWaits, SweepTask, Over, vars
<1> QED
    BY <1>1, <1>2, <1>3, <1>4, <1>5, <1>6
    DEF Next, Program, Runtime, TaskStep, Kick, Ending

\* claimForWaiter and claimAnyForWaiter give a waiter one callback at a time,
\* and finishClaimed returns it: every step keeps Hosting.
LEMMA HostingStep ==
    ASSUME TypeOK, Awaiting, Hosting, [Next]_vars
    PROVE  Hosting'
<1>1. CASE /\ UNCHANGED host
           /\ \A w \in Waiters :
                waiting[w] = "hosting" => waiting'[w] = "hosting"
    BY <1>1 DEF TypeOK, RunTypes, Hosting
<1>2. CASE TakeEligible
    BY <1>2
    DEF TakeEligible, Claim, TypeOK, RunTypes, Hosting, runVars, slotVars,
        waitVars
<1>3. ASSUME NEW w \in Waiters, ClaimAwaited(w) \/ ClaimAny(w)
      PROVE  Hosting'
    BY <1>3, SchedulerAssumption
    DEF ClaimAwaited, ClaimAny, HostTask, Claim, TypeOK, RunTypes, WaitTypes,
        Hosting, runVars, slotVars, Waiters
<1>4. ASSUME NEW t \in Tasks, FinishClaimed(t)
      PROVE  Hosting'
    BY <1>4 DEF FinishClaimed, TypeOK, RunTypes, WaitTypes, Hosting
<1>5. ASSUME \/ DeclareTask \/ \E t, p \in Tasks : After(t, p)
             \/ \E t \in Tasks : Problem(t) \/ Doing(t) \/ Define(t)
                    \/ WakeTask(t) \/ PlaceTask(t) \/ StopTask(t)
                    \/ Returns(t) \/ Panics(t) \/ Observe(t)
                    \/ ResolveObserved(t) \/ FailFollowers(t)
             \/ \E t \in Tasks, s \in Terminal : CallerResolve(t, s)
             \/ \E w \in Waiters : \/ \E t \in Tasks : WaitBegin(w, t)
                    \/ CheckStalled(w) \/ Park(w) \/ EndWait(w)
                    \/ AbortWait(w) \/ ReportWait(w)
             \/ EndKick \/ BlockCycles \/ ReleaseWaits \/ Interrupt
             \/ CancelActive \/ CancelNext \/ AbandonQueued \/ FinishBegin
             \/ Drained \/ SweepBegin \/ SweepTask \/ SweepEnd \/ Over
             \/ UNCHANGED vars
      PROVE  /\ UNCHANGED host
             /\ \A w \in Waiters :
                    waiting[w] = "hosting" => waiting'[w] = "hosting"
    BY <1>5
    DEF DeclareTask, After, Problem, Doing, Define, WakeTask, PlaceTask,
        StopTask, Returns, Panics, Observe, ResolveObserved, FailFollowers,
        CallerResolve, WaitBegin, CheckStalled, Park, EndWait, AbortWait,
        ReportWait, EndKick, BlockCycles, ReleaseWaits, Interrupt, CancelActive,
        CancelNext, AbandonQueued, FinishBegin, Drained, SweepBegin, SweepTask,
        SweepEnd, Over, vars, waitVars, runVars, slotVars, TypeOK, WaitTypes
<1> QED
    BY <1>1, <1>2, <1>3, <1>4, <1>5
    DEF Next, Program, Runtime, TaskStep, WaitStep, Kick, Ending

-----------------------------------------------------------------------------
\* Accounts.

\* A callback is in its life exactly while its work is Running, or over.
Begun == \A t \in Tasks : phase[t] = "Running" <=> run[t] # "none"

\* What wg counts: the work that has not started, and the callbacks under way.
Held == {t \in Tasks : phase[t] \in {"Queued", "Parked"}}
Going == {t \in Tasks : run[t] \notin {"none", "done"}}

\* The counters of schedState count those, and the slots the claims took.
Accounts ==
    /\ wg = Cardinality(Held) + Cardinality(Going)
    /\ executing = Cardinality(Going)
    /\ inflight = Cardinality(pooled)
    /\ pooled \subseteq Going

\* The change of wg is that of the work which has not started.
Balanced == wg' = wg - Cardinality(Held) + Cardinality(Held')

\* Sets of Tasks are finite and have a size.
LEMMA Counting ==
    ASSUME NEW S, S \subseteq Tasks
    PROVE  IsFiniteSet(S) /\ Cardinality(S) \in Nat
<1>1. IsFiniteSet(Tasks)
    BY SchedulerAssumption, FS_Interval DEF Tasks
<1> QED
    BY <1>1, FS_Subset, FS_CardinalityType

\* settleLocked takes from wg exactly the work it abandons.
LEMMA SettleBalanced ==
    ASSUME TypeOK, NEW S, S \subseteq Tasks, NEW s, NEW work, Settle(S, s, work)
    PROVE  /\ Balanced
           /\ \A t \in Tasks : phase'[t] = "Running" <=> phase[t] = "Running"
<1>1. Abandoned(S) = Held \cap S
    BY DEF Abandoned, Held
<1>2. Held' = Held \ S
    BY DEF Settle, Abandoned, Held
<1>3. Held \subseteq Tasks
    BY DEF Held
<1>4. Cardinality(Held') = Cardinality(Held) - Cardinality(Held \cap S)
    BY <1>2, <1>3, Counting, FS_Difference
<1>5. Balanced
  <2>1. Cardinality(Held) \in Nat /\ Cardinality(Held \cap S) \in Nat
    BY <1>3, Counting
  <2> QED
    BY <1>1, <1>4, <2>1 DEF Settle, Balanced, TypeOK, CountTypes
<1>6. \A t \in Tasks : phase'[t] = "Running" <=> phase[t] = "Running"
    BY DEF Settle, Abandoned
<1> QED
    BY <1>5, <1>6

\* placeLocked moves work between the queue and the parked ones, or settles it;
\* either way wg follows.
LEMMA PlaceBalanced ==
    ASSUME TypeOK, NEW t \in Tasks, phase[t] \in {"Queued", "Parked"},
           NEW scan, NEW work,
           Place(t, scan, work)
    PROVE  /\ Balanced
           /\ \A u \in Tasks : phase'[u] = "Running" <=> phase[u] = "Running"
<1>1. CASE Settle({t}, "NotStarted", work)
    BY <1>1, SettleBalanced
<1>2. ASSUME NEW p \in {"Queued", "Parked"},
             phase' = [phase EXCEPT ![t] = p], UNCHANGED wg
      PROVE /\ Balanced
            /\ \A u \in Tasks : phase'[u] = "Running" <=> phase[u] = "Running"
  <2>1. Held' = Held
    BY <1>2 DEF Held, TypeOK, SettleTypes
  <2>2. Cardinality(Held) \in Nat
    BY Counting DEF Held
  <2> QED
    BY <1>2, <2>1, <2>2 DEF Balanced, TypeOK, SettleTypes, CountTypes
<1> QED
    BY <1>1, <1>2 DEF Place

\* A step that settles, places or leaves alone, and finishes no callback.
Steady ==
    /\ Balanced
    /\ \A t \in Tasks : phase'[t] = "Running" <=> phase[t] = "Running"
    /\ \A t \in Tasks : /\ run'[t] = "none" <=> run[t] = "none"
                        /\ run'[t] = "done" <=> run[t] = "done"
    /\ UNCHANGED <<pooled, inflight, executing>>

\* A step that neither claims nor finishes keeps the accounts.
LEMMA SteadyAccounts ==
    ASSUME TypeOK, Begun, Accounts, Steady
    PROVE  Begun' /\ Accounts'
<1>1. Going' = Going
    BY DEF Steady, Going
<1>2. /\ Cardinality(Held) \in Nat /\ Cardinality(Going) \in Nat
      /\ Cardinality(Held') \in Nat
    BY Counting DEF Held, Going
<1> QED
    BY <1>1, <1>2 DEF Steady, Balanced, Begun, Accounts

\* A step that leaves the phases and wg alone keeps them balanced.
LEMMA IdleLedger ==
    ASSUME TypeOK, UNCHANGED <<phase, wg>>
    PROVE  /\ Balanced
           /\ \A t \in Tasks : phase'[t] = "Running" <=> phase[t] = "Running"
<1>1. Held' = Held
    BY DEF Held
<1>2. Cardinality(Held) \in Nat
    BY Counting DEF Held
<1> QED
    BY <1>1, <1>2 DEF Balanced, TypeOK, CountTypes

\* claimLocked keeps the accounts: the work leaves the queue and its callback
\* takes its place in wg.
LEMMA ClaimAccounts ==
    ASSUME TypeOK, Begun, Accounts,
           NEW t \in Tasks, phase[t] \in {"Queued", "Parked"},
           NEW slot, NEW w, Claim(t, slot, w)
    PROVE  Begun' /\ Accounts'
<1>1. run[t] = "none" /\ t \notin Going /\ t \notin pooled
    BY DEF Begun, Accounts, Going
<1>2. Held' = Held \ {t} /\ t \in Held
    BY DEF Claim, Held, TypeOK, SettleTypes
<1>3. Going' = Going \cup {t}
    BY DEF Claim, Going, TypeOK, RunTypes
<1>4. Cardinality(Held') = Cardinality(Held) - 1 /\ Cardinality(Held) \in Nat
    BY <1>2, Counting, FS_RemoveElement DEF Held
<1>5. Cardinality(Going') = Cardinality(Going) + 1 /\ Cardinality(Going) \in Nat
  <2> HIDE DEF Going
  <2>1. Going \subseteq Tasks
    BY DEF Going
  <2> QED
    BY <1>1, <1>3, <2>1, Counting, FS_AddElement
<1>6. Cardinality(pooled \cup {t}) = Cardinality(pooled) + 1
    BY <1>1, Counting, FS_AddElement DEF TypeOK, RunTypes
<1>7. Begun'
    BY <1>1 DEF Claim, Begun, TypeOK, SettleTypes, RunTypes
<1>8. inflight' = Cardinality(pooled') /\ pooled' \subseteq Going'
    BY <1>3, <1>6 DEF Claim, Accounts
<1>9. wg' = wg /\ executing' = executing + 1
    BY DEF Claim
<1> QED
    BY <1>4, <1>5, <1>7, <1>8, <1>9 DEF Accounts

\* finishClaimed gives back exactly what the claim took.
LEMMA FinishAccounts ==
    ASSUME TypeOK, Begun, Accounts, NEW t \in Tasks, FinishClaimed(t)
    PROVE  Begun' /\ Accounts'
<1>1. t \in Going
    BY DEF FinishClaimed, Going
<1>2. Held' = Held
    BY DEF FinishClaimed, Held
<1>3. Going' = Going \ {t}
    BY DEF FinishClaimed, Going, TypeOK, RunTypes
<1>4. Cardinality(Held) \in Nat
    BY Counting DEF Held
<1>5. Cardinality(Going') = Cardinality(Going) - 1 /\ Cardinality(Going) \in Nat
  <2>1. Going \subseteq Tasks
    BY DEF Going
  <2> QED
    BY <1>1, <1>3, <2>1, Counting, FS_RemoveElement
<1>6. Cardinality(pooled \ {t}) = IF t \in pooled THEN Cardinality(pooled) - 1
                                  ELSE Cardinality(pooled)
    BY Counting, FS_RemoveElement DEF TypeOK, RunTypes
<1>7. Begun'
    BY DEF FinishClaimed, Begun, TypeOK, RunTypes
<1>8. inflight' = Cardinality(pooled')
    BY <1>6 DEF FinishClaimed, Accounts
<1>9. pooled' \subseteq Going'
    BY <1>3 DEF FinishClaimed, Accounts
<1>10. wg' = wg - 1 /\ executing' = executing - 1
    BY DEF FinishClaimed
<1> QED
    BY <1>2, <1>4, <1>5, <1>7, <1>8, <1>9, <1>10 DEF Accounts

\* Every step keeps the accounts.
LEMMA AccountsStep ==
    ASSUME TypeOK, Awaiting, Begun, Accounts, [Next]_vars
    PROVE  Begun' /\ Accounts'
<1>1. CASE Steady
    BY <1>1, SteadyAccounts
<1>2. ASSUME UNCHANGED <<phase, wg>>, UNCHANGED runVars PROVE Steady
    BY <1>2, IdleLedger DEF Steady, runVars, slotVars
<1>3. ASSUME NEW t \in Tasks, WakeTask(t) PROVE Steady
    BY <1>3, PlaceBalanced, IdleLedger DEF WakeTask, Steady, runVars, slotVars
<1>4. ASSUME NEW t \in Tasks, PlaceTask(t) PROVE Steady
    BY <1>4, PlaceBalanced, IdleLedger
    DEF PlaceTask, AwaitingStart, Steady, runVars, slotVars
<1>5. ASSUME NEW t \in Tasks, StopTask(t) PROVE Steady
    BY <1>5, SettleBalanced, IdleLedger DEF StopTask, Steady, runVars, slotVars
<1>6. ASSUME NEW t \in Tasks, Define(t) PROVE Steady
  <2>1. t \notin Held /\ Held' = Held \cup {t}
    BY <1>6 DEF Define, Submitted, Held, TypeOK, SettleTypes
  <2>2. Cardinality(Held') = Cardinality(Held) + 1 /\ Cardinality(Held) \in Nat
    <3>1. Held \subseteq Tasks
      BY DEF Held
    <3> QED
      BY <2>1, <3>1, Counting, FS_AddElement
  <2> QED
    BY <1>6, <2>2
    DEF Define, Submitted, Steady, Balanced, TypeOK, SettleTypes, CountTypes,
        runVars, slotVars
<1>7. ASSUME NEW t \in Tasks, NEW s \in Terminal, CallerResolve(t, s)
      PROVE  Steady
    BY <1>7, SettleBalanced, IdleLedger
    DEF CallerResolve, ResolveTo, Steady, settleVars, slotVars
<1>8. CASE TakeEligible
  <2>1. Queue # {} => Min(Queue) \in Queue
    BY MinIsLeast DEF Queue
  <2> QED
    BY <1>1, <1>2, <1>8, <2>1, ClaimAccounts
    DEF TakeEligible, Startable, Queue, settleVars
<1>9. ASSUME NEW t \in Tasks, Panics(t) \/ ResolveObserved(t) PROVE Steady
  <2>1. PICK s : ScheduledResolve(t, s)
    BY <1>9 DEF Panics, ResolveObserved
  <2>2. /\ Balanced
        /\ \A u \in Tasks : phase'[u] = "Running" <=> phase[u] = "Running"
    BY <2>1, SettleBalanced, IdleLedger
    DEF ScheduledResolve, ResolveTo, settleVars
  <2> QED
    BY <1>9, <2>2
    DEF Panics, ResolveObserved, Active, Steady, slotVars, TypeOK, RunTypes
<1>10. ASSUME NEW t \in Tasks, Returns(t) \/ Observe(t) \/ FailFollowers(t)
       PROVE  Steady
    BY <1>10, IdleLedger
    DEF Returns, Observe, FailFollowers, Active, Steady, slotVars, settleVars,
        TypeOK, RunTypes
<1>11. ASSUME NEW t \in Tasks, FinishClaimed(t) PROVE Begun' /\ Accounts'
    BY <1>11, FinishAccounts
<1>12. ASSUME NEW w \in Waiters, ClaimAwaited(w) PROVE Begun' /\ Accounts'
    BY <1>1, <1>2, <1>12, ClaimAccounts
    DEF ClaimAwaited, HostTask, Awaiting, AwaitingStart, settleVars
<1>13. ASSUME NEW w \in Waiters, ClaimAny(w) PROVE Begun' /\ Accounts'
  <2>1. Queue # {} => Min(Queue) \in Queue
    BY MinIsLeast DEF Queue
  <2> QED
    BY <1>1, <1>2, <1>13, <2>1, ClaimAccounts
    DEF ClaimAny, HostTask, Queue, settleVars
<1>14. CASE BlockCycles
  <2>1. PICK B \in FoundCycles : Settle(B, "Blocked", {})
    BY <1>14 DEF BlockCycles
  <2>2. B \subseteq Tasks
    BY DEF FoundCycles, Cyclic, Parked
  <2> QED
    BY <1>1, <1>14, <2>1, <2>2, SettleBalanced
    DEF BlockCycles, Steady, runVars, slotVars
<1>15. CASE CancelNext
  <2>1. cancelling # {} => Min(cancelling) \in Tasks
    BY MinIsLeast DEF TypeOK, EndTypes
  <2> QED
    BY <1>1, <1>15, <2>1, SettleBalanced, IdleLedger
    DEF CancelNext, ResolveTo, Steady, settleVars, runVars, slotVars
<1>16. CASE SweepTask
    BY <1>1, <1>16, NextUnresolvedIsOpen, SettleBalanced
    DEF SweepTask, Steady, TypeOK, runVars, slotVars
<1>17. ASSUME NEW t \in Tasks,
              Problem(t) \/ Doing(t) \/ \E p \in Tasks : After(t, p)
       PROVE  Steady
    BY <1>2, <1>17 DEF Problem, Doing, After, settleVars
<1>18. ASSUME NEW w \in Waiters, \/ \E t \in Tasks : WaitBegin(w, t)
                    \/ CheckStalled(w) \/ Park(w) \/ EndWait(w)
                    \/ AbortWait(w) \/ ReportWait(w)
       PROVE  Steady
    BY <1>2, <1>18 DEF WaitBegin, CheckStalled, Park, EndWait, AbortWait,
        ReportWait, settleVars
<1>19. CASE \/ DeclareTask \/ EndKick \/ ReleaseWaits \/ Interrupt
            \/ CancelActive \/ AbandonQueued \/ FinishBegin \/ Drained
            \/ SweepBegin \/ SweepEnd \/ Over \/ UNCHANGED vars
    BY <1>1, <1>2, <1>19 DEF DeclareTask, EndKick, ReleaseWaits, Interrupt,
        CancelActive, AbandonQueued, FinishBegin, Drained, SweepBegin, SweepEnd,
        Over, vars, settleVars
<1> QED
    BY <1>1, <1>3, <1>4, <1>5, <1>6, <1>7, <1>8, <1>9, <1>10, <1>11, <1>12,
       <1>13, <1>14, <1>15, <1>16, <1>17, <1>18, <1>19
    DEF Next, Program, Runtime, TaskStep, WaitStep, Kick, Ending

\* No step takes a counter below zero: the slots, the callbacks and wg count
\* sets, and a kick is consumed only where one is outstanding.
LEMMA CountTypesStep ==
    ASSUME TypeOK, Accounts', RunTypes', [Next]_vars
    PROVE  CountTypes'
<1>1. inflight' \in Nat /\ executing' \in Nat /\ wg' \in Nat
  <2>1. /\ Held' \subseteq Tasks /\ Going' \subseteq Tasks
        /\ pooled' \subseteq Tasks
    BY DEF Held, Going, RunTypes
  <2>2. /\ Cardinality(Held') \in Nat /\ Cardinality(Going') \in Nat
        /\ Cardinality(pooled') \in Nat
    BY <2>1, Counting
  <2> QED
    BY <2>2 DEF Accounts
<1>2. takes' \in Nat /\ stalls' \in Nat
  <2>1. takes \in Nat /\ stalls \in Nat
    BY DEF TypeOK, CountTypes
  <2>2. CASE UNCHANGED kickVars
    BY <2>1, <2>2 DEF kickVars
  <2>3. ASSUME NEW t \in Tasks, Define(t) \/ FinishClaimed(t)
        PROVE  takes' \in Nat /\ stalls' \in Nat
    BY <2>1, <2>3 DEF Define, FinishClaimed
  <2>4. ASSUME NEW w \in Waiters, Park(w)
        PROVE  takes' \in Nat /\ stalls' \in Nat
    BY <2>1, <2>4 DEF Park
  <2>5. CASE TakeEligible
    <3>1. \/ UNCHANGED kickVars
          \/ takes > 0 /\ takes' = takes - 1 /\ stalls' = stalls + 1
      BY <2>5 DEF TakeEligible
    <3> QED
      BY <2>1, <3>1 DEF kickVars
  <2>6. CASE EndKick \/ BlockCycles \/ ReleaseWaits
    <3>1. stalls > 0 /\ stalls' = stalls - 1
      BY <2>6 DEF EndKick, BlockCycles, ReleaseWaits, KickAgain
    <3>2. takes' \in {takes, takes + 1}
      BY <2>6 DEF EndKick, BlockCycles, ReleaseWaits, KickAgain
    <3> QED
      BY <2>1, <3>1, <3>2
  <2>7. CASE FinishBegin
    BY <2>1, <2>7 DEF FinishBegin
  <2>8. ASSUME NEW t \in Tasks,
               \/ Problem(t) \/ Doing(t) \/ \E p \in Tasks : After(t, p)
               \/ WakeTask(t) \/ PlaceTask(t) \/ StopTask(t)
        PROVE  UNCHANGED kickVars
    BY <2>8 DEF Problem, Doing, After, WakeTask, PlaceTask, StopTask
  <2>9. ASSUME NEW t \in Tasks, \/ Returns(t) \/ Panics(t) \/ Observe(t)
                               \/ ResolveObserved(t) \/ FailFollowers(t)
                               \/ \E s \in Terminal : CallerResolve(t, s)
        PROVE  UNCHANGED kickVars
    BY <2>9
    DEF Returns, Panics, Observe, ResolveObserved, FailFollowers, CallerResolve
  <2>10. ASSUME NEW w \in Waiters,
                \/ \E t \in Tasks : WaitBegin(w, t)
                \/ ClaimAwaited(w) \/ CheckStalled(w) \/ ClaimAny(w)
                \/ EndWait(w) \/ AbortWait(w) \/ ReportWait(w)
        PROVE  UNCHANGED kickVars
    BY <2>10
    DEF WaitBegin, ClaimAwaited, CheckStalled, ClaimAny, EndWait, AbortWait,
        ReportWait
  <2>11. CASE \/ DeclareTask \/ Interrupt \/ CancelActive \/ CancelNext
              \/ AbandonQueued \/ Drained \/ SweepBegin \/ SweepTask \/ SweepEnd
              \/ Over \/ UNCHANGED vars
    BY <2>2, <2>11
    DEF DeclareTask, Interrupt, CancelActive, CancelNext, AbandonQueued,
        Drained, SweepBegin, SweepTask, SweepEnd, Over, vars
  <2>12. CASE \E t \in Tasks : TaskStep(t) \/ Returns(t) \/ Panics(t)
    BY <2>2, <2>3, <2>8, <2>9, <2>12 DEF TaskStep
  <2>13. CASE \E w \in Waiters : WaitStep(w)
    BY <2>2, <2>4, <2>10, <2>13 DEF WaitStep
  <2>14. CASE Program
    BY <2>2, <2>3, <2>8, <2>9, <2>10, <2>11, <2>14 DEF Program
  <2> QED
    BY <2>5, <2>6, <2>7, <2>11, <2>12, <2>13, <2>14
    DEF Next, Runtime, Kick, Ending
<1> QED
    BY <1>1, <1>2 DEF CountTypes

\* What every step keeps.
IInv == TypeOK /\ Awaiting /\ Hosting /\ Begun /\ Accounts

\* The inductive invariant holds of a new Output.
LEMMA InitIInv == Init => IInv
<1> SUFFICES ASSUME Init PROVE IInv
    OBVIOUS
<1>1. TypeOK
    BY InitTypeOK
<1>2. Awaiting /\ Hosting /\ Begun
    BY SchedulerAssumption DEF Init, Awaiting, Hosting, Begun
<1>3. Accounts
  <2>1. Held = {} /\ Going = {} /\ pooled = {}
    BY DEF Init, Held, Going
  <2> QED
    BY <2>1, FS_EmptySet DEF Init, Accounts
<1> QED
    BY <1>1, <1>2, <1>3 DEF IInv

\* Every step keeps the inductive invariant.
LEMMA IInvStep == IInv /\ [Next]_vars => IInv'
<1> SUFFICES ASSUME IInv, [Next]_vars PROVE IInv'
    OBVIOUS
<1> USE DEF IInv
<1>1. /\ SettleTypes' /\ RowTypes' /\ RunTypes' /\ WaitTypes' /\ EndTypes'
      /\ Awaiting' /\ Hosting'
    BY SettleTypesStep, RowTypesStep, RunTypesStep, WaitTypesStep, EndTypesStep,
       HostingStep
<1>2. Begun' /\ Accounts'
    BY AccountsStep
<1>3. CountTypes'
    BY <1>1, <1>2, CountTypesStep
<1> QED
    BY <1>1, <1>2, <1>3 DEF TypeOK

\* The inductive invariant of the scheduler holds throughout.
THEOREM IInvInvariant == Spec => []IInv
BY InitIInv, IInvStep, PTL DEF Spec

\* The state of the scheduler keeps its types throughout; in particular no
\* counter of schedState or sync.WaitGroup goes negative.
THEOREM TypeCorrect == Spec => []TypeOK
<1>1. IInv => TypeOK
    BY DEF IInv
<1> QED
    BY <1>1, IInvInvariant, PTL

\* drainScheduler's sync.WaitGroup counts exactly the Defined work that has not
\* started and the callbacks that have not finished, on every path that settles,
\* claims, abandons or finishes work.
THEOREM DrainAccounted == Spec => []DrainAccounting
<1>1. IInv => DrainAccounting
    BY DEF IInv, Accounts, Held, Going, DrainAccounting
<1> QED
    BY <1>1, IInvInvariant, PTL

-----------------------------------------------------------------------------
\* No step reopens a settled row.
Stable ==
    \A t \in Tasks :
        /\ IsTerminal(t) => state'[t] = state[t]
        /\ Closed(t) => state'[t] \in Terminal \cup {"Incomplete"}

\* A green row stays green.
LEMMA SuccessStays ==
    ASSUME Stable, NEW t \in Tasks, state[t] \in Succeeding
    PROVE  state'[t] \in Succeeding
<1>1. IsTerminal(t)
    BY DEF IsTerminal, Terminal
<1> QED
    BY <1>1 DEF Stable

\* settleLocked over open rows takes no terminal row back.
LEMMA SettleStable ==
    ASSUME TypeOK, NEW S, \A t \in S : ~IsTerminal(t),
           NEW s \in Terminal \cup {"Incomplete"}, NEW work, Settle(S, s, work)
    PROVE  Stable
<1>1. \A t \in Tasks : \/ state'[t] = state[t]
                       \/ state'[t] \in Terminal \cup {"Incomplete"}
    BY DEF Settle, Honest, Terminal, Failing
<1> QED
    BY <1>1 DEF Settle, Stable, Closed, IsTerminal

\* Nor does placeLocked, which only settles what awaits its start.
LEMMA PlaceStable ==
    ASSUME TypeOK, NEW t \in Tasks, ~IsTerminal(t), NEW scan, NEW work,
           Place(t, scan, work)
    PROVE  Stable
<1>1. CASE UNCHANGED state
    BY <1>1 DEF Stable, Closed, IsTerminal
<1> QED
    BY <1>1, SettleStable DEF Place, Terminal, Failing

\* Nor does claimLocked, which only turns Pending into Running.
LEMMA ClaimStable ==
    ASSUME TypeOK, NEW t \in Tasks, NEW slot, NEW w, Claim(t, slot, w)
    PROVE  Stable
BY DEF Claim, Stable, Closed, IsTerminal, Terminal, Succeeding, Failing, TypeOK,
    SettleTypes

\* Every step leaves terminal rows as they are.
LEMMA StableStep ==
    ASSUME TypeOK, Awaiting, [Next]_vars
    PROVE  Stable
<1>1. CASE UNCHANGED state
    BY <1>1 DEF Stable, Closed, IsTerminal
<1>2. ASSUME NEW t \in Tasks, WakeTask(t) \/ PlaceTask(t) PROVE Stable
    BY <1>1, <1>2, PlaceStable DEF WakeTask, PlaceTask, AwaitingStart
<1>3. ASSUME NEW t \in Tasks, StopTask(t) PROVE Stable
    BY <1>1, <1>3, SettleStable DEF StopTask, Terminal, Failing
<1>4. ASSUME NEW t \in Tasks, Doing(t) PROVE Stable
    BY <1>4
    DEF Doing, Stable, Closed, IsTerminal, Terminal, Succeeding, Failing,
        TypeOK, SettleTypes
<1>5. ASSUME NEW t \in Tasks, NEW s \in Terminal, CallerResolve(t, s)
      PROVE  Stable
    BY <1>1, <1>5, SettleStable
    DEF CallerResolve, Resolvable, ResolveTo, settleVars
<1>6. ASSUME NEW t \in Tasks, Panics(t) \/ ResolveObserved(t) PROVE Stable
    BY <1>1, <1>6, SettleStable DEF Panics, ResolveObserved, ScheduledResolve,
        Resolvable, ResolveTo, settleVars, Terminal, Failing, Succeeding
<1>7. CASE TakeEligible
  <2>1. Queue # {} => Min(Queue) \in Tasks
    BY MinIsLeast DEF Queue
  <2> QED
    BY <1>1, <1>7, <2>1, ClaimStable DEF TakeEligible, Startable, settleVars
<1>8. ASSUME NEW w \in Waiters, ClaimAwaited(w) PROVE Stable
    BY <1>1, <1>8, ClaimStable DEF ClaimAwaited, HostTask, Awaiting, settleVars
<1>9. ASSUME NEW w \in Waiters, ClaimAny(w) PROVE Stable
  <2>1. Queue # {} => Min(Queue) \in Tasks
    BY MinIsLeast DEF Queue
  <2> QED
    BY <1>1, <1>9, <2>1, ClaimStable DEF ClaimAny, HostTask, settleVars
<1>10. CASE BlockCycles
  <2>1. PICK B \in FoundCycles : Settle(B, "Blocked", {})
    BY <1>10 DEF BlockCycles
  <2>2. \A t \in B : ~IsTerminal(t)
    BY DEF FoundCycles, Cyclic, Parked
  <2> QED
    BY <2>1, <2>2, SettleStable DEF Terminal, Failing
<1>11. CASE CancelNext
    BY <1>1, <1>11, SettleStable DEF CancelNext, Resolvable, ResolveTo,
        settleVars, Terminal, Failing
<1>12. CASE SweepTask
    BY <1>12, NextUnresolvedIsOpen, SettleStable DEF SweepTask, SweptTo,
        Unresolved, Closed, TypeOK, Terminal, Failing, Succeeding
<1>13. ASSUME NEW t \in Tasks,
              Define(t) \/ Problem(t) \/ \E p \in Tasks : After(t, p)
       PROVE  UNCHANGED state
    BY <1>13 DEF Define, Problem, After, settleVars
<1>14. ASSUME NEW t \in Tasks,
              Returns(t) \/ Observe(t) \/ FailFollowers(t) \/ FinishClaimed(t)
       PROVE  UNCHANGED state
    BY <1>14 DEF Returns, Observe, FailFollowers, FinishClaimed, settleVars
<1>15. ASSUME NEW w \in Waiters, \/ \E t \in Tasks : WaitBegin(w, t)
                    \/ CheckStalled(w) \/ Park(w) \/ EndWait(w)
                    \/ AbortWait(w) \/ ReportWait(w)
       PROVE  UNCHANGED state
    BY <1>15 DEF WaitBegin, CheckStalled, Park, EndWait, AbortWait,
        ReportWait, settleVars
<1>16. CASE \/ DeclareTask \/ EndKick \/ ReleaseWaits \/ Interrupt
            \/ CancelActive \/ AbandonQueued \/ FinishBegin \/ Drained
            \/ SweepBegin \/ SweepEnd \/ Over \/ UNCHANGED vars
    BY <1>1, <1>16 DEF DeclareTask, EndKick, ReleaseWaits, Interrupt,
        CancelActive, AbandonQueued, FinishBegin, Drained, SweepBegin, SweepEnd,
        Over, vars, settleVars
<1> QED
    BY <1>1, <1>2, <1>3, <1>4, <1>5, <1>6, <1>7, <1>8, <1>9, <1>10, <1>11,
       <1>12, <1>13, <1>14, <1>15, <1>16
    DEF Next, Program, Runtime, TaskStep, WaitStep, Kick, Ending

\* A terminal row is settled for good, whoever else tries to settle it: the
\* returning callback, the program, the interrupt, a stall or Finish.
THEOREM SettledStays == Spec => SettledForGood
<1>1. IInv /\ [Next]_vars =>
        [\A t \in Tasks : IsTerminal(t) => state'[t] = state[t]]_vars
    BY StableStep DEF IInv, Stable
<1> QED
    BY <1>1, IInvInvariant, PTL DEF Spec, SettledForGood

-----------------------------------------------------------------------------
\* A predecessor After gave is remembered until it succeeded, and nothing is
\* known of a Task before it is declared.
Remembered ==
    /\ \A t \in Tasks, p \in Tasks :
            p \in after[t] => p \in preds[t] \/ state[p] \in Succeeding
    /\ \A t \in Tasks : declared < t => phase[t] = "Declared"

\* What the order of starts rests on.
OInv == Remembered /\ StartsOnlyAfterSuccess

\* settleLocked starts nothing and forgets no predecessor.
LEMMA SettleOrder ==
    ASSUME TypeOK, OInv, Stable, NEW S, NEW s, NEW work, Settle(S, s, work),
           UNCHANGED <<declared, preds, after>>
    PROVE  OInv'
<1>1. \A t \in Tasks : state[t] \in Succeeding => state'[t] \in Succeeding
    BY SuccessStays
<1>2. \A t \in Tasks : phase'[t] # phase[t] =>
            phase[t] \in {"Queued", "Parked"} /\ phase'[t] = "Abandoned"
    BY DEF Settle, Abandoned
<1>3. Remembered'
    BY <1>1, <1>2 DEF OInv, Remembered
<1>4. StartsOnlyAfterSuccess'
    BY <1>1, <1>2 DEF OInv, StartsOnlyAfterSuccess, TypeOK, RowTypes
<1> QED
    BY <1>3, <1>4 DEF OInv

\* A step that leaves the phases and the links alone keeps the order.
LEMMA StillOrder ==
    ASSUME TypeOK, OInv, Stable, UNCHANGED <<declared, preds, after, phase>>
    PROVE  OInv'
<1>1. \A t \in Tasks : state[t] \in Succeeding => state'[t] \in Succeeding
    BY SuccessStays
<1> QED
    BY <1>1 DEF OInv, Remembered, StartsOnlyAfterSuccess, TypeOK, RowTypes

\* predsOutcomeLocked forgets only predecessors that succeeded.
LEMMA ForgottenSucceeded ==
    ASSUME NEW t \in Tasks, NEW p \in Forgotten(t)
    PROVE  state[p] \in Succeeding
BY DEF Forgotten, Outcome

\* placeLocked forgets only those.
LEMMA PlaceOrder ==
    ASSUME TypeOK, OInv, Stable, NEW t \in Tasks, AwaitingStart(t),
           NEW scan, NEW work, Place(t, scan, work),
           UNCHANGED <<declared, after>>
    PROVE  OInv'
<1>1. \A u \in Tasks : state[u] \in Succeeding => state'[u] \in Succeeding
    BY SuccessStays
<1>2. CASE Settle({t}, "NotStarted", work) /\ UNCHANGED preds
    BY <1>2, SettleOrder
<1>3. ASSUME NEW p \in {"Queued", "Parked"}, phase' = [phase EXCEPT ![t] = p],
             NEW F, F \subseteq Forgotten(t),
             preds' = [preds EXCEPT ![t] = @ \ F]
      PROVE  OInv'
  <2>1. \A u, q \in Tasks :
            q \in preds[u] => q \in preds'[u] \/ state[q] \in Succeeding
    BY <1>3, ForgottenSucceeded DEF TypeOK, RowTypes
  <2>2. ~ (declared < t)
    BY DEF OInv, Remembered, AwaitingStart
  <2>3. Remembered'
    BY <1>1, <1>3, <2>1, <2>2 DEF OInv, Remembered, TypeOK, SettleTypes
  <2>4. StartsOnlyAfterSuccess'
    BY <1>1, <1>3
    DEF OInv, StartsOnlyAfterSuccess, TypeOK, SettleTypes, RowTypes
  <2> QED
    BY <2>3, <2>4 DEF OInv
<1>4. ASSUME Eligible(t), preds' = [preds EXCEPT ![t] = {}]
      PROVE  preds' = [preds EXCEPT ![t] = @ \ Forgotten(t)]
    BY <1>4 DEF Eligible, TypeOK, RowTypes
<1> QED
    BY <1>2, <1>3, <1>4 DEF Place

\* claimLocked starts a Task only with every predecessor succeeded, the
\* forgotten ones included.
LEMMA ClaimOrder ==
    ASSUME TypeOK, OInv, Stable, NEW t \in Tasks, AwaitingStart(t), Eligible(t),
           NEW slot, NEW w, Claim(t, slot, w)
    PROVE  OInv'
<1>1. \A u \in Tasks : state[u] \in Succeeding => state'[u] \in Succeeding
    BY SuccessStays
<1>2. ~ (declared < t)
    BY DEF OInv, Remembered, AwaitingStart
<1>3. /\ phase' = [phase EXCEPT ![t] = "Running"]
      /\ UNCHANGED <<declared, preds, after>>
    BY DEF Claim, rowVars
<1>4. Remembered'
    BY <1>1, <1>2, <1>3 DEF OInv, Remembered, TypeOK, SettleTypes
<1>5. \A p \in after[t] : state[p] \in Succeeding
    BY ForgottenSucceeded DEF OInv, Remembered, Eligible, TypeOK, RowTypes
<1>6. StartsOnlyAfterSuccess'
    BY <1>1, <1>3, <1>5
    DEF OInv, StartsOnlyAfterSuccess, TypeOK, SettleTypes, RowTypes
<1> QED
    BY <1>4, <1>6 DEF OInv

\* Every step keeps the order.
LEMMA OrderStep ==
    ASSUME TypeOK, Awaiting, OInv, Stable, [Next]_vars
    PROVE  OInv'
<1> DEFINE Frame == <<declared, preds, after, phase>>
<1>1. CASE UNCHANGED Frame
    BY <1>1, StillOrder
<1>2. ASSUME NEW t \in Tasks, WakeTask(t) \/ PlaceTask(t) PROVE OInv'
    BY <1>1, <1>2, PlaceOrder DEF WakeTask, PlaceTask, AwaitingStart
<1>3. ASSUME NEW t \in Tasks, StopTask(t) PROVE OInv'
    BY <1>1, <1>3, SettleOrder DEF StopTask, rowVars
<1>4. CASE DeclareTask
  <2> DEFINE t == declared + 1
  <2>1. PICK first \in SUBSET Tasks : /\ preds' = [preds EXCEPT ![t] = first]
                                      /\ after' = [after EXCEPT ![t] = first]
    <3>1. \A S \in SUBSET Tasks : S # {} => Max(S) \in S
      BY MaxIsGreatest
    <3>2. {u \in Steps : u <= declared} \in SUBSET Tasks
      BY SchedulerAssumption
    <3> QED
      BY <1>4, <3>1, <3>2 DEF DeclareTask
  <2>2. declared' = t /\ t \in Tasks /\ UNCHANGED <<state, phase>>
    BY <1>4 DEF DeclareTask
  <2>3. phase[t] = "Declared"
    BY <2>2 DEF OInv, Remembered, TypeOK, RowTypes
  <2>4. Remembered'
    <3>1. \A u \in Tasks : declared' < u => declared < u
      BY <2>2, SchedulerAssumption DEF TypeOK, RowTypes, Tasks
    <3> HIDE DEF t
    <3> QED
      BY <2>1, <2>2, <3>1 DEF OInv, Remembered, TypeOK, RowTypes
  <2>5. StartsOnlyAfterSuccess'
    BY <2>1, <2>2, <2>3 DEF OInv, StartsOnlyAfterSuccess, TypeOK, RowTypes
  <2> QED
    BY <2>4, <2>5 DEF OInv
<1>5. ASSUME NEW t \in Tasks, NEW p \in Tasks, After(t, p) PROVE OInv'
    BY <1>5
    DEF After, Submitted, OInv, Remembered, StartsOnlyAfterSuccess, TypeOK,
        RowTypes, settleVars
<1>6. ASSUME NEW t \in Tasks, Define(t) PROVE OInv'
  <2>1. Remembered'
    <3>1. \A u \in Tasks : declared < u => u # t
      BY <1>6, SchedulerAssumption DEF Define, TypeOK, RowTypes, Tasks
    <3> QED
      BY <1>6, <3>1 DEF Define, OInv, Remembered, TypeOK, SettleTypes, rowVars
  <2>2. StartsOnlyAfterSuccess'
    BY <1>6
    DEF Define, OInv, StartsOnlyAfterSuccess, TypeOK, SettleTypes, RowTypes,
        rowVars
  <2> QED
    BY <2>1, <2>2 DEF OInv
<1>7. ASSUME NEW t \in Tasks, NEW s \in Terminal, CallerResolve(t, s)
      PROVE  OInv'
    BY <1>1, <1>7, SettleOrder DEF CallerResolve, ResolveTo, settleVars, rowVars
<1>8. ASSUME NEW t \in Tasks, Panics(t) \/ ResolveObserved(t) PROVE OInv'
    BY <1>1, <1>8, SettleOrder
    DEF Panics, ResolveObserved, ScheduledResolve, ResolveTo, settleVars,
        rowVars
<1>9. CASE TakeEligible
  <2>1. Queue # {} => Min(Queue) \in Queue
    BY MinIsLeast DEF Queue
  <2> QED
    BY <1>1, <1>9, <2>1, ClaimOrder
    DEF TakeEligible, Startable, Queue, settleVars, rowVars
<1>10. ASSUME NEW w \in Waiters, ClaimAwaited(w) PROVE OInv'
    BY <1>1, <1>10, ClaimOrder
    DEF ClaimAwaited, HostTask, Awaiting, settleVars, rowVars
<1>11. ASSUME NEW w \in Waiters, ClaimAny(w) PROVE OInv'
  <2>1. Queue # {} => Min(Queue) \in Queue
    BY MinIsLeast DEF Queue
  <2> QED
    BY <1>1, <1>11, <2>1, ClaimOrder
    DEF ClaimAny, HostTask, Queue, settleVars, rowVars
<1>12. CASE BlockCycles
  <2>1. PICK B \in FoundCycles : Settle(B, "Blocked", {})
    BY <1>12 DEF BlockCycles
  <2> QED
    BY <1>12, <2>1, SettleOrder DEF BlockCycles
<1>13. CASE CancelNext
    BY <1>1, <1>13, SettleOrder DEF CancelNext, ResolveTo, settleVars, rowVars
<1>14. CASE SweepTask
    BY <1>14, SettleOrder DEF SweepTask, rowVars
<1>15. ASSUME NEW t \in Tasks,
              \/ Problem(t) \/ Doing(t) \/ Returns(t) \/ Observe(t)
              \/ FailFollowers(t) \/ FinishClaimed(t)
       PROVE  UNCHANGED Frame
    BY <1>15
    DEF Problem, Doing, Returns, Observe, FailFollowers, FinishClaimed,
        settleVars, rowVars
<1>16. ASSUME NEW w \in Waiters, \/ \E t \in Tasks : WaitBegin(w, t)
                    \/ CheckStalled(w) \/ Park(w) \/ EndWait(w)
                    \/ AbortWait(w) \/ ReportWait(w)
       PROVE  UNCHANGED Frame
    BY <1>16 DEF WaitBegin, CheckStalled, Park, EndWait, AbortWait,
        ReportWait, settleVars, rowVars
<1>17. CASE \/ EndKick \/ ReleaseWaits \/ Interrupt
            \/ CancelActive \/ AbandonQueued \/ FinishBegin \/ Drained
            \/ SweepBegin \/ SweepEnd \/ Over \/ UNCHANGED vars
    BY <1>1, <1>17 DEF EndKick, ReleaseWaits, Interrupt,
        CancelActive, AbandonQueued, FinishBegin, Drained, SweepBegin, SweepEnd,
        Over, vars, settleVars, rowVars
<1> HIDE DEF Frame
<1> QED
    BY <1>1, <1>2, <1>3, <1>4, <1>5, <1>6, <1>7, <1>8, <1>9, <1>10, <1>11,
       <1>12, <1>13, <1>14, <1>15, <1>16, <1>17
    DEF Next, Program, Runtime, TaskStep, WaitStep, Kick, Ending

\* The order holds of a new Output.
LEMMA InitOInv == Init => OInv
BY DEF Init, OInv, Remembered, StartsOnlyAfterSuccess

\* After's promise: a callback that started had every predecessor it was ever
\* given succeed, and they still show success.
THEOREM OrderKept == Spec => []StartsOnlyAfterSuccess
<1>1. IInv /\ OInv /\ [Next]_vars => OInv'
    BY StableStep, OrderStep DEF IInv
<1>2. OInv => StartsOnlyAfterSuccess
    BY DEF OInv
<1> QED
    BY <1>1, <1>2, InitOInv, IInvInvariant, PTL DEF Spec

-----------------------------------------------------------------------------
\* The pool takes at most Ceiling slots, and a callback without a slot of its
\* own borrows that of the callback whose Wait hosts it.
Slots ==
    /\ inflight <= Ceiling
    /\ \A t \in Tasks : waiting[t] # "idle" => run[t] = "body"
    /\ \A t \in Going \ pooled : host[t] \in Tasks

\* A claim takes a free slot or borrows one that a waiting callback holds.
LEMMA ClaimSlots ==
    ASSUME IInv, Slots, NEW t \in Tasks, AwaitingStart(t), NEW slot,
           NEW w \in Waiters \cup {NoTask}, Claim(t, slot, w),
           inflight' <= Ceiling, t \in pooled' \/ w \in Tasks,
           \A u \in Tasks : waiting'[u] # "idle" => waiting[u] # "idle"
    PROVE  Slots'
<1>1. run[t] = "none"
    BY DEF IInv, Begun, AwaitingStart
<1>3. \A u \in Tasks : waiting'[u] # "idle" => run'[u] = "body"
    BY DEF Claim, Slots, IInv, TypeOK, RunTypes
<1>4. \A u \in Going' \ pooled' : host'[u] \in Tasks
    BY <1>1 DEF Claim, Slots, IInv, TypeOK, RunTypes, Going
<1> QED
    BY <1>3, <1>4 DEF Slots

\* Every step keeps the account of the slots.
LEMMA SlotsStep ==
    ASSUME IInv, Slots, [Next]_vars
    PROVE  Slots'
<1>1. ASSUME UNCHANGED <<pooled, host, inflight>>, Going' = Going,
             \A u \in Tasks : waiting'[u] # "idle" => run'[u] = "body"
      PROVE  Slots'
  <2>1. inflight' <= Ceiling
    BY <1>1 DEF Slots
  <2>2. \A t \in Going' \ pooled' : host'[t] \in Tasks
    BY <1>1 DEF Slots
  <2> QED
    BY <1>1, <2>1, <2>2 DEF Slots
<1>2. CASE UNCHANGED <<runVars, waitVars>>
    BY <1>1, <1>2 DEF Slots, Going, runVars, slotVars, waitVars
<1>3. CASE /\ UNCHANGED runVars
           /\ \A u \in Tasks :
                waiting'[u] # "idle" => waiting[u] # "idle" \/ run[u] = "body"
    BY <1>1, <1>3 DEF Slots, Going, runVars, slotVars
<1>4. CASE TakeEligible
  <2>1. Queue # {} => Min(Queue) \in Queue
    BY MinIsLeast DEF Queue
  <2>2. CASE Startable
    <3>1. /\ Min(Queue) \in Tasks /\ AwaitingStart(Min(Queue))
          /\ inflight < Ceiling
      BY <2>1, <2>2 DEF Startable, Queue
    <3>2. Claim(Min(Queue), TRUE, NoTask) /\ UNCHANGED waiting
      BY <1>4, <2>2 DEF TakeEligible, waitVars
    <3>3. inflight' <= Ceiling /\ Min(Queue) \in pooled'
      BY <3>1, <3>2, SchedulerAssumption DEF Claim, IInv, TypeOK, CountTypes
    <3> QED
      BY <3>1, <3>2, <3>3, ClaimSlots
  <2>3. CASE ~Startable
    BY <1>2, <1>4, <2>3 DEF TakeEligible
  <2> QED
    BY <2>2, <2>3
<1>5. ASSUME NEW w \in Waiters, NEW t \in Tasks, AwaitingStart(t), MayHost(w),
             HostTask(w, t), waiting[w] # "idle"
      PROVE  Slots'
  <2>1. \A u \in Tasks : waiting'[u] # "idle" => waiting[u] # "idle"
    BY <1>5 DEF HostTask, IInv, TypeOK, WaitTypes, Waiters
  <2>2. CASE Depth(w) = 0
    <3>1. inflight' <= Ceiling /\ t \in pooled'
      BY <1>5, <2>2, SchedulerAssumption
      DEF MayHost, HostTask, Claim, IInv, TypeOK, CountTypes
    <3> QED
      BY <1>5, <2>1, <3>1, ClaimSlots DEF HostTask
  <2>3. CASE Depth(w) # 0
    <3>1. w \in Tasks
      BY <2>3 DEF Depth
    <3>2. inflight' <= Ceiling
      BY <1>5, <2>3 DEF HostTask, Claim, Slots
    <3> QED
      BY <1>5, <2>1, <3>1, <3>2, ClaimSlots DEF HostTask
  <2> QED
    BY <2>2, <2>3
<1>6. ASSUME NEW w \in Waiters, ClaimAwaited(w)
      PROVE  Slots'
    BY <1>3, <1>5, <1>6
    DEF ClaimAwaited, IInv, Awaiting, TypeOK, WaitTypes, Waiters
<1>7. ASSUME NEW w \in Waiters, ClaimAny(w)
      PROVE  Slots'
  <2>1. Queue # {} => Min(Queue) \in Queue
    BY MinIsLeast DEF Queue
  <2> QED
    BY <1>3, <1>5, <1>7, <2>1
    DEF ClaimAny, Queue, IInv, TypeOK, WaitTypes, Waiters
<1>8. ASSUME NEW w \in Waiters, NEW t \in Tasks, WaitBegin(w, t)
      PROVE  Slots'
    BY <1>3, <1>8 DEF WaitBegin, IInv, TypeOK, WaitTypes, Waiters
<1>9. ASSUME NEW w \in Waiters, \/ CheckStalled(w) \/ Park(w) \/ EndWait(w)
                                \/ AbortWait(w) \/ ReportWait(w)
      PROVE  Slots'
    BY <1>3, <1>9 DEF CheckStalled, Park, EndWait, AbortWait, ReportWait, IInv,
        TypeOK, WaitTypes, Waiters
<1>10. ASSUME NEW t \in Tasks, \/ Returns(t) \/ Panics(t) \/ Observe(t)
                               \/ ResolveObserved(t) \/ FailFollowers(t)
       PROVE Slots'
  <2>1. UNCHANGED <<slotVars, waitVars>>
    BY <1>10 DEF Returns, Panics, Observe, ResolveObserved, FailFollowers
  <2>2. run[t] \notin {"none", "done"} /\ waiting[t] = "idle"
    BY <1>10
    DEF Returns, Panics, Observe, ResolveObserved, FailFollowers, Active, Slots
  <2>3. \E x \in Runs \ {"none", "done"} : run' = [run EXCEPT ![t] = x]
    BY <1>10 DEF Returns, Panics, Observe, ResolveObserved, FailFollowers, Runs
  <2>4. Going' = Going
    BY <2>2, <2>3 DEF Going, IInv, TypeOK, RunTypes
  <2> QED
    BY <1>1, <2>1, <2>2, <2>3, <2>4
    DEF slotVars, waitVars, Slots, IInv, TypeOK, RunTypes
<1>11. ASSUME NEW t \in Tasks, FinishClaimed(t) PROVE Slots'
  <2>1. inflight' <= Ceiling
    BY <1>11, SchedulerAssumption
    DEF FinishClaimed, Slots, IInv, TypeOK, CountTypes
  <2>2. \A u \in Tasks : waiting'[u] # "idle" => run'[u] = "body"
    BY <1>11
    DEF FinishClaimed, Slots, IInv, Hosting, TypeOK, RunTypes, WaitTypes
  <2>3. \A u \in Going' \ pooled' : host'[u] \in Tasks
    BY <1>11 DEF FinishClaimed, Going, Slots, IInv, TypeOK, RunTypes
  <2> QED
    BY <2>1, <2>2, <2>3 DEF Slots
<1>12. CASE ReleaseWaits
    BY <1>3, <1>12 DEF ReleaseWaits
<1>13. ASSUME NEW t \in Tasks,
              \/ Problem(t) \/ Doing(t) \/ Define(t)
              \/ \E p \in Tasks : After(t, p)
              \/ WakeTask(t) \/ PlaceTask(t) \/ StopTask(t)
       PROVE  Slots'
    BY <1>2, <1>13
    DEF Problem, Doing, Define, After, WakeTask, PlaceTask, StopTask
<1>14. ASSUME NEW t \in Tasks, NEW s \in Terminal, CallerResolve(t, s)
       PROVE  Slots'
    BY <1>1, <1>14 DEF CallerResolve, Slots, Going, slotVars, waitVars
<1>15. CASE \/ DeclareTask \/ EndKick \/ BlockCycles \/ Interrupt
            \/ CancelActive \/ CancelNext \/ AbandonQueued \/ FinishBegin
            \/ Drained \/ SweepBegin \/ SweepTask \/ SweepEnd \/ Over
            \/ UNCHANGED vars
    BY <1>2, <1>15
    DEF DeclareTask, EndKick, BlockCycles, Interrupt, CancelActive, CancelNext,
        AbandonQueued, FinishBegin, Drained, SweepBegin, SweepTask, SweepEnd,
        Over, vars
<1> QED
    BY <1>4, <1>6, <1>7, <1>8, <1>9, <1>10, <1>11,
       <1>12, <1>13, <1>14, <1>15
    DEF Next, Program, Runtime, TaskStep, WaitStep, Kick, Ending

\* Every borrowed slot has a host that does not run its own code.
LEMMA BorrowersHosted ==
    ASSUME IInv, Slots
    PROVE  ActiveBounded
<1> DEFINE A == {t \in Going : waiting[t] = "idle"}
           B == Going \ pooled
           H == {t \in Going : waiting[t] = "hosting"}
           f == [t \in B |-> host[t]]
<1>1. /\ Going \subseteq Tasks /\ A \subseteq Tasks
      /\ B \subseteq Tasks /\ H \subseteq Tasks
    BY DEF Going
<1>2. f \in Injection(B, H)
  <2>1. \A t \in B : host[t] \in H
    BY SchedulerAssumption DEF Slots, IInv, Hosting, Going
  <2>2. \A t, u \in B : host[t] = host[u] => t = u
    BY <2>1, <1>1, SchedulerAssumption DEF IInv, Hosting
  <2> QED
    BY <2>1, <2>2 DEF Injection, IsInjective
<1>3. Cardinality(B) <= Cardinality(H)
  <2> HIDE DEF B, H, f
  <2> QED
    BY <1>1, <1>2, Counting, FS_Injection
<1>4. Cardinality(A) + Cardinality(H) <= Cardinality(Going)
  <2>1. A \cap H = {} /\ A \cup H \subseteq Going
    OBVIOUS
  <2> HIDE DEF A, H
  <2>2. Cardinality(A \cup H) =
            Cardinality(A) + Cardinality(H) - Cardinality(A \cap H)
    BY <1>1, Counting, FS_Union
  <2>3. Cardinality(A \cup H) <= Cardinality(Going)
    BY <1>1, <2>1, Counting, FS_Subset
  <2>4. Cardinality(A \cap H) = 0
    BY <2>1, FS_EmptySet
  <2> QED
    BY <1>1, <2>2, <2>3, <2>4, Counting
<1>5. Cardinality(B) = Cardinality(Going) - Cardinality(pooled)
  <2>1. Going \cap pooled = pooled
    BY DEF IInv, Accounts
  <2> QED
    BY <1>1, <2>1, Counting, FS_Difference
<1>6. Cardinality(A) <= inflight
  <2>1. /\ Cardinality(A) \in Nat /\ Cardinality(H) \in Nat
        /\ Cardinality(Going) \in Nat
    BY <1>1, Counting
  <2>2. Cardinality(pooled) \in Nat /\ inflight = Cardinality(pooled)
    BY Counting DEF IInv, Accounts, TypeOK, RunTypes
  <2> HIDE DEF A, B, H
  <2> QED
    BY <1>3, <1>4, <1>5, <2>1, <2>2
<1>7. A = {t \in Tasks : run[t] \notin {"none", "done"} /\ waiting[t] = "idle"}
    BY DEF Going
<1>8. Cardinality(A) \in Nat /\ inflight \in Nat
    BY <1>1, Counting DEF IInv, TypeOK, CountTypes
<1> HIDE DEF A
<1> QED
    BY <1>6, <1>7, <1>8, SchedulerAssumption DEF ActiveBounded, Slots

\* The account of the slots holds of a new Output.
LEMMA InitSlots == Init => Slots
BY SchedulerAssumption DEF Init, Slots, Going, Waiters

\* MaxConcurrency bounds the callbacks that run their own code, those on pooled
\* workers and those on the goroutines of waiters together.
THEOREM CeilingKept == Spec => []ActiveBounded
<1>1. IInv /\ Slots /\ [Next]_vars => Slots'
    BY SlotsStep
<1>2. IInv /\ Slots => ActiveBounded
    BY BorrowersHosted
<1> QED
    BY <1>1, <1>2, InitSlots, IInvInvariant, PTL DEF Spec

\* The two counts of the engine agree with what they stand for in the same
\* state: the sync.WaitGroup of the drain, and s.active under MaxConcurrency.
THEOREM CountsAlwaysAgree == Spec => []CountsAgree
<1>1. DrainAccounting /\ ActiveBounded => CountsAgree
    BY DEF CountsAgree
<1> QED
    BY <1>1, DrainAccounted, CeilingKept, PTL

-----------------------------------------------------------------------------
\* takeEligible, claimForWaiter and claimAnyForWaiter all look at cancelled:
\* once it is set, no step starts a callback.
LEMMA StartsNothing ==
    ASSUME TypeOK, cancelled, [Next]_vars, NEW t \in Tasks, run[t] = "none"
    PROVE  run'[t] = "none"
<1>1. CASE UNCHANGED run
    BY <1>1
<1>2. ASSUME NEW u \in Tasks, \/ Returns(u) \/ Panics(u) \/ Observe(u)
                             \/ ResolveObserved(u) \/ FailFollowers(u)
                             \/ FinishClaimed(u)
      PROVE  run'[t] = "none"
  <2>1. run[u] # "none"
    BY <1>2 DEF Returns, Panics, Observe, ResolveObserved, FailFollowers,
        FinishClaimed, Active
  <2>2. PICK x : run' = [run EXCEPT ![u] = x]
    BY <1>2 DEF Returns, Panics, Observe, ResolveObserved, FailFollowers,
        FinishClaimed
  <2> QED
    BY <2>1, <2>2 DEF TypeOK, RunTypes
<1>3. CASE TakeEligible
    BY <1>3 DEF TakeEligible, Startable, runVars
<1>4. ASSUME NEW w \in Waiters, ClaimAwaited(w) \/ ClaimAny(w)
      PROVE  UNCHANGED run
    BY <1>4 DEF ClaimAwaited, ClaimAny, runVars
<1>5. ASSUME NEW w \in Waiters, \/ CheckStalled(w) \/ Park(w) \/ EndWait(w)
                                \/ AbortWait(w) \/ ReportWait(w)
                                \/ \E u \in Tasks : WaitBegin(w, u)
      PROVE  UNCHANGED run
    BY <1>5 DEF CheckStalled, Park, EndWait, AbortWait, ReportWait, WaitBegin,
        runVars
<1>6. ASSUME NEW u \in Tasks, \/ Problem(u) \/ Doing(u) \/ Define(u)
                             \/ \E p \in Tasks : After(u, p)
                             \/ \E s \in Terminal : CallerResolve(u, s)
      PROVE  UNCHANGED run
    BY <1>6 DEF Problem, Doing, Define, After, CallerResolve, runVars
<1>11. ASSUME NEW u \in Tasks, WakeTask(u) \/ PlaceTask(u) \/ StopTask(u)
      PROVE  UNCHANGED run
    BY <1>11 DEF WakeTask, PlaceTask, StopTask, runVars
<1>7. CASE \/ DeclareTask \/ EndKick \/ BlockCycles \/ ReleaseWaits \/ Interrupt
           \/ CancelActive \/ CancelNext \/ AbandonQueued \/ FinishBegin
           \/ Drained \/ SweepBegin \/ SweepTask \/ SweepEnd \/ Over
           \/ UNCHANGED vars
    BY <1>7 DEF DeclareTask, EndKick, BlockCycles, ReleaseWaits, Interrupt,
        CancelActive, CancelNext, AbandonQueued, FinishBegin, Drained,
        SweepBegin, SweepTask, SweepEnd, Over, vars, runVars
<1>8. CASE Program
    BY <1>1, <1>5, <1>6, <1>7, <1>8 DEF Program
<1>9. CASE \E u \in Tasks : TaskStep(u) \/ Returns(u) \/ Panics(u)
    BY <1>1, <1>2, <1>11, <1>9 DEF TaskStep
<1>10. CASE \E w \in Waiters : WaitStep(w)
    BY <1>1, <1>4, <1>5, <1>10 DEF WaitStep
<1> QED
    BY <1>3, <1>7, <1>8, <1>9, <1>10 DEF Next, Runtime, Kick, Ending

\* Once the interrupt closed the scheduler to new work, no callback starts.
THEOREM ClosedToNewWork == Spec => NothingStartsOnceCancelled
<1>1. TypeOK /\ [Next]_vars =>
        [cancelled => \A t \in Tasks : run[t] = "none" => run'[t] = "none"]_vars
    BY StartsNothing
<1> QED
    BY <1>1, TypeCorrect, PTL DEF Spec, NothingStartsOnceCancelled
-----------------------------------------------------------------------------
\* The rest holds when the program joins its goroutines before it calls Finish
\* (Joined): how the ledger closes, what Wait may report, and how rows settle.

-----------------------------------------------------------------------------
\* The drain only shrinks.
\* A step keeps the drain's count or lowers it, unless it Defines a Task.
LEMMA SettleLowers ==
    ASSUME TypeOK, NEW S, S \subseteq Tasks, NEW s, NEW work, Settle(S, s, work)
    PROVE  wg' <= wg
<1>1. Cardinality(Abandoned(S)) \in Nat
    BY Counting DEF Abandoned
<1> QED
    BY <1>1 DEF Settle, TypeOK, CountTypes

\* Only submitWork raises wg.
LEMMA DrainLowers ==
    ASSUME TypeOK, [Next]_vars, ~ \E t \in Tasks : Define(t)
    PROVE  wg' <= wg
<1>1. CASE UNCHANGED wg
    BY <1>1 DEF TypeOK, CountTypes
<1>2. ASSUME NEW t \in Tasks, WakeTask(t) \/ PlaceTask(t)
      PROVE  wg' <= wg
    BY <1>1, <1>2, SettleLowers DEF WakeTask, PlaceTask, Place
<1>3. ASSUME NEW t \in Tasks, StopTask(t)
      PROVE  wg' <= wg
    BY <1>1, <1>3, SettleLowers DEF StopTask
<1>4. ASSUME NEW t \in Tasks, NEW s \in Terminal, CallerResolve(t, s)
      PROVE  wg' <= wg
    BY <1>1, <1>4, SettleLowers DEF CallerResolve, ResolveTo, settleVars
<1>5. ASSUME NEW t \in Tasks, Panics(t) \/ ResolveObserved(t)
      PROVE  wg' <= wg
    BY <1>1, <1>5, SettleLowers
    DEF Panics, ResolveObserved, ScheduledResolve, ResolveTo, settleVars
<1>6. ASSUME NEW t \in Tasks, FinishClaimed(t)
      PROVE  wg' <= wg
    BY <1>6 DEF FinishClaimed, TypeOK, CountTypes
<1>7. CASE BlockCycles
  <2>1. PICK B \in FoundCycles : Settle(B, "Blocked", {})
    BY <1>7 DEF BlockCycles
  <2>2. B \subseteq Tasks
    BY DEF FoundCycles, Cyclic, Parked
  <2> QED
    BY <2>1, <2>2, SettleLowers
<1>8. CASE CancelNext
  <2>1. cancelling # {} => Min(cancelling) \in Tasks
    BY MinIsLeast DEF TypeOK, EndTypes
  <2> QED
    BY <1>1, <1>8, <2>1, SettleLowers DEF CancelNext, ResolveTo, settleVars
<1>9. CASE SweepTask
    BY <1>9, NextUnresolvedIsOpen, SettleLowers DEF SweepTask, TypeOK
<1>10. CASE TakeEligible
    BY <1>1, <1>10 DEF TakeEligible, Claim, settleVars
<1>11. ASSUME NEW w \in Waiters, ClaimAwaited(w) \/ ClaimAny(w)
       PROVE  UNCHANGED wg
    BY <1>11 DEF ClaimAwaited, ClaimAny, HostTask, Claim, settleVars
<1>12. ASSUME NEW w \in Waiters,
              \/ CheckStalled(w) \/ Park(w) \/ EndWait(w)
              \/ AbortWait(w) \/ ReportWait(w)
              \/ \E t \in Tasks : WaitBegin(w, t)
       PROVE  UNCHANGED wg
    BY <1>12 DEF CheckStalled, Park, EndWait, AbortWait, ReportWait, WaitBegin,
        settleVars
<1>13. ASSUME NEW t \in Tasks, \/ Problem(t) \/ Doing(t)
                              \/ \E p \in Tasks : After(t, p)
       PROVE  UNCHANGED wg
    BY <1>13 DEF Problem, Doing, After, settleVars
<1>14. ASSUME NEW t \in Tasks, Returns(t) \/ Observe(t) \/ FailFollowers(t)
       PROVE  UNCHANGED wg
    BY <1>14 DEF Returns, Observe, FailFollowers, settleVars
<1>15. CASE \/ DeclareTask \/ EndKick \/ ReleaseWaits \/ Interrupt
            \/ CancelActive \/ AbandonQueued \/ FinishBegin \/ Drained
            \/ SweepBegin \/ SweepEnd \/ Over \/ UNCHANGED vars
    BY <1>1, <1>15 DEF DeclareTask, EndKick, ReleaseWaits, Interrupt,
        CancelActive, AbandonQueued, FinishBegin, Drained, SweepBegin, SweepEnd,
        Over, vars, settleVars
<1>16. CASE Program
    BY <1>1, <1>4, <1>12, <1>13, <1>15, <1>16 DEF Program
<1>17. CASE \E t \in Tasks : TaskStep(t) \/ Returns(t) \/ Panics(t)
    BY <1>1, <1>2, <1>3, <1>5, <1>6, <1>14, <1>17 DEF TaskStep
<1>18. CASE \E w \in Waiters : WaitStep(w)
    BY <1>1, <1>11, <1>12, <1>18 DEF WaitStep
<1> QED
    BY <1>7, <1>8, <1>9, <1>10, <1>15, <1>16, <1>17, <1>18
    DEF Next, Runtime, Kick, Ending

-----------------------------------------------------------------------------
\* Finish has seen the drain end.
Ended == finish \in {"drained", "sweeping", "finished"}

\* How the ledger closes.
Closing ==
    /\ finish # "open" => \A w \in Callers : waiting[w] = "idle"
    /\ Ended => wg = 0
    /\ finish = "finished" => \A t \in Declared : Closed(t)

\* When wg is zero, no work awaits its start and no callback runs.
LEMMA NothingLeft ==
    ASSUME IInv, wg = 0
    PROVE  Held = {} /\ Going = {}
<1>1. /\ Held \subseteq Tasks /\ Going \subseteq Tasks
    BY DEF Held, Going
<1>2. Cardinality(Held) = 0 /\ Cardinality(Going) = 0
    BY <1>1, Counting DEF IInv, Accounts
<1> QED
    BY <1>1, <1>2, Counting, FS_EmptySet

\* Only the goroutine of Finish moves Finish.
LEMMA FinishMoves ==
    ASSUME [Next]_vars, ~ (FinishBegin \/ Drained \/ SweepBegin \/ SweepEnd)
    PROVE  UNCHANGED finish
<1>1. ASSUME NEW t \in Tasks,
             \/ Problem(t) \/ Doing(t) \/ Define(t)
             \/ \E p \in Tasks : After(t, p)
             \/ \E s \in Terminal : CallerResolve(t, s)
      PROVE  UNCHANGED finish
    BY <1>1
    DEF Problem, Doing, Define, After, CallerResolve, endVars, finishVars
<1>2. ASSUME NEW t \in Tasks, TaskStep(t) \/ Returns(t) \/ Panics(t)
      PROVE  UNCHANGED finish
    BY <1>2
    DEF TaskStep, WakeTask, PlaceTask, StopTask, Observe, ResolveObserved,
        FailFollowers, FinishClaimed, Returns, Panics, endVars, finishVars
<1>3. ASSUME NEW w \in Waiters, WaitStep(w) \/ \E t \in Tasks : WaitBegin(w, t)
      PROVE  UNCHANGED finish
    BY <1>3 DEF WaitStep, ClaimAwaited, CheckStalled, ClaimAny, Park, EndWait,
        AbortWait, ReportWait, WaitBegin, endVars, finishVars
<1>4. CASE \/ DeclareTask \/ Kick \/ Interrupt \/ CancelActive \/ CancelNext
           \/ AbandonQueued \/ SweepTask \/ Over \/ UNCHANGED vars
    BY <1>4
    DEF DeclareTask, Kick, TakeEligible, EndKick, BlockCycles, ReleaseWaits,
        Interrupt, CancelActive, CancelNext, AbandonQueued, SweepTask, Over,
        vars, endVars, finishVars
<1>5. CASE Program
    BY <1>1, <1>3, <1>4, <1>5 DEF Program
<1> QED
    BY <1>2, <1>3, <1>4, <1>5 DEF Next, Runtime, Ending

\* Once Finish began, a joined program begins no Wait outside a callback.
LEMMA CallersStayIdle ==
    ASSUME IInv, Joined, [Next]_vars, finish # "open",
           NEW w \in Callers, waiting[w] = "idle"
    PROVE  waiting'[w] = "idle"
<1> w \in Waiters
    BY DEF Waiters
<1>1. CASE UNCHANGED waiting
    BY <1>1
<1>2. ASSUME NEW v \in Waiters, NEW t \in Tasks, WaitBegin(v, t)
      PROVE  waiting'[w] = "idle"
    BY <1>2, SchedulerAssumption DEF WaitBegin, IInv, TypeOK, WaitTypes
<1>3. ASSUME NEW v \in Waiters, WaitStep(v)
      PROVE  waiting'[w] = "idle"
  <2>1. waiting[v] # "idle"
    BY <1>3 DEF WaitStep, ClaimAwaited, CheckStalled, ClaimAny, Park, EndWait,
        AbortWait, ReportWait
  <2>2. PICK x : waiting' = [waiting EXCEPT ![v] = x]
    BY <1>3 DEF WaitStep, ClaimAwaited, HostTask, CheckStalled, ClaimAny, Park,
        EndWait, AbortWait, ReportWait
  <2> QED
    BY <2>1, <2>2 DEF IInv, TypeOK, WaitTypes
<1>4. ASSUME NEW t \in Tasks, FinishClaimed(t)
      PROVE  waiting'[w] = "idle"
    BY <1>4 DEF FinishClaimed, IInv, Hosting, TypeOK, WaitTypes
<1>5. ASSUME NEW t \in Tasks,
             \/ Problem(t) \/ Doing(t) \/ Define(t)
             \/ \E p \in Tasks : After(t, p)
             \/ \E s \in Terminal : CallerResolve(t, s)
      PROVE  UNCHANGED waiting
    BY <1>5 DEF Problem, Doing, Define, After, CallerResolve, waitVars
<1>6. ASSUME NEW t \in Tasks,
             \/ WakeTask(t) \/ PlaceTask(t) \/ StopTask(t) \/ Observe(t)
             \/ ResolveObserved(t) \/ FailFollowers(t)
             \/ Returns(t) \/ Panics(t)
      PROVE  UNCHANGED waiting
    BY <1>6 DEF WakeTask, PlaceTask, StopTask, Observe, ResolveObserved,
        FailFollowers, Returns, Panics, waitVars
<1>7. CASE \/ DeclareTask \/ Kick \/ Interrupt \/ FinishBegin \/ Ending \/ Over
           \/ UNCHANGED vars
    BY <1>7 DEF DeclareTask, Kick, TakeEligible, EndKick, BlockCycles,
        ReleaseWaits, Interrupt, FinishBegin, Ending, CancelActive, CancelNext,
        AbandonQueued, Drained, SweepBegin, SweepTask, SweepEnd, Over, vars,
        waitVars
<1>8. CASE Program
    BY <1>1, <1>2, <1>5, <1>7, <1>8 DEF Program
<1>9. CASE \E t \in Tasks : TaskStep(t) \/ Returns(t) \/ Panics(t)
    BY <1>1, <1>4, <1>6, <1>9 DEF TaskStep
<1> QED
    BY <1>1, <1>3, <1>7, <1>8, <1>9 DEF Next, Runtime

\* The only step that declares.
LEMMA DeclaredMoves ==
    ASSUME [Next]_vars, ~ DeclareTask
    PROVE  UNCHANGED declared
<1>1. ASSUME NEW t \in Tasks,
             \/ Problem(t) \/ Doing(t) \/ Define(t)
             \/ \E p \in Tasks : After(t, p)
             \/ \E s \in Terminal : CallerResolve(t, s)
      PROVE  UNCHANGED declared
    BY <1>1 DEF Problem, Doing, Define, After, CallerResolve, rowVars
<1>2. ASSUME NEW t \in Tasks, TaskStep(t) \/ Returns(t) \/ Panics(t)
      PROVE  UNCHANGED declared
    BY <1>2
    DEF TaskStep, WakeTask, PlaceTask, StopTask, Observe, ResolveObserved,
        ScheduledResolve, FailFollowers, FinishClaimed, Returns, Panics, rowVars
<1>3. ASSUME NEW w \in Waiters, WaitStep(w) \/ \E t \in Tasks : WaitBegin(w, t)
      PROVE  UNCHANGED declared
    BY <1>3 DEF WaitStep, ClaimAwaited, HostTask, Claim, CheckStalled, ClaimAny,
        Park, EndWait, AbortWait, ReportWait, WaitBegin, rowVars
<1>4. CASE \/ Kick \/ Interrupt \/ FinishBegin \/ Ending \/ Over
           \/ UNCHANGED vars
    BY <1>4 DEF Kick, TakeEligible, Claim, EndKick, BlockCycles, ReleaseWaits,
        Interrupt, FinishBegin, Ending, CancelActive, CancelNext, AbandonQueued,
        Drained, SweepBegin, SweepTask, SweepEnd, Over, vars, rowVars
<1>5. CASE Program
    BY <1>1, <1>3, <1>4, <1>5 DEF Program
<1> QED
    BY <1>2, <1>3, <1>4, <1>5 DEF Next, Runtime

\* Every step keeps Closing: the drain ended with nothing left to Define, and
\* the sweep settles every row before Finish returns.
LEMMA ClosingStep ==
    ASSUME IInv, IInv', Slots, Stable, Closing, Joined, [Next]_vars
    PROVE  Closing'
<1>1. ASSUME finish' # "open"
      PROVE  \A w \in Callers : waiting'[w] = "idle"
  <2>1. CASE finish # "open"
    BY <2>1, CallersStayIdle DEF Closing
  <2>2. CASE finish = "open"
    <3>1. FinishBegin
      BY <1>1, <2>2, FinishMoves DEF Drained, SweepBegin, SweepEnd
    <3> QED
      BY <3>1 DEF FinishBegin, waitVars
  <2> QED
    BY <2>1, <2>2
<1>2. ASSUME Ended'
      PROVE  wg' = 0
  <2>1. CASE Ended
    <3>1. wg = 0 /\ Going = {}
      BY <2>1, NothingLeft DEF Closing
    <3>2. ~ \E t \in Tasks : Define(t)
      BY <2>1, <3>1 DEF Define, MayCall, SomeCallback, Ended, Going
    <3>3. wg' <= 0
      BY <3>1, <3>2, DrainLowers DEF IInv
    <3> QED
      BY <3>3 DEF IInv, TypeOK, CountTypes
  <2>2. CASE ~ Ended
    <3>1. Drained
      BY <1>2, <2>2, FinishMoves DEF Ended, FinishBegin, SweepBegin, SweepEnd
    <3> QED
      BY <3>1 DEF Drained, settleVars
  <2> QED
    BY <2>1, <2>2
<1>3. ASSUME finish' = "finished"
      PROVE  \A t \in Declared' : Closed(t)'
  <2>1. CASE finish = "finished"
    <3>1. Declared' = Declared
      BY <2>1, DeclaredMoves DEF DeclareTask, Declared
    <3> QED
      BY <2>1, <3>1, DeclaredAreTasks
      DEF Closing, Closed, IsTerminal, Stable, IInv, TypeOK
  <2>2. CASE finish # "finished"
    <3>1. SweepEnd
      BY <1>3, <2>2, FinishMoves DEF FinishBegin, Drained, SweepBegin
    <3> QED
      BY <3>1
      DEF SweepEnd, Unresolved, Closed, IsTerminal, Declared, settleVars,
          rowVars
  <2> QED
    BY <2>1, <2>2
<1> QED
    BY <1>1, <1>2, <1>3 DEF Closing, Ended

\* What Closing and Slots say together is the closed ledger.
LEMMA ClosedLedger ==
    ASSUME IInv, Slots, Closing
    PROVE  LedgerComplete
<1> SUFFICES ASSUME finish \in {"sweeping", "finished"}
             PROVE  /\ \A t \in Tasks : run[t] \in {"none", "done"}
                    /\ \A w \in Waiters : waiting[w] = "idle"
    BY DEF LedgerComplete, Closing
<1>1. \A t \in Tasks : run[t] \in {"none", "done"}
    BY NothingLeft DEF Closing, Ended, Going
<1> QED
    BY <1>1 DEF Slots, Closing, Waiters

\* What every step of a joined program keeps.
EInv == IInv /\ Slots /\ Closing

\* The invariant of a joined program holds throughout.
LEMMA EInvInvariant ==
    ASSUME Joined
    PROVE  Spec => []EInv
<1>1. Init => EInv
    BY InitIInv, InitSlots DEF Init, EInv, Closing, Ended
<1>2. EInv /\ [Next]_vars => EInv'
    BY IInvStep, SlotsStep, StableStep, ClosingStep DEF EInv, IInv
<1> QED
    BY <1>1, <1>2, PTL DEF Spec

\* When the program joins its goroutines before Finish, the ledger closes over a
\* quiet scheduler: no callback runs, no Wait is under way, and every row is
\* settled when Finish returns.
THEOREM LedgerCloses ==
    ASSUME Joined
    PROVE  Spec => []LedgerComplete
<1>1. EInv => LedgerComplete
    BY ClosedLedger DEF EInv
<1> QED
    BY <1>1, EInvInvariant, PTL

-----------------------------------------------------------------------------
\* While a critical section still cascades, nothing else steps.
LEMMA OnlyCascade ==
    ASSUME [Next]_vars, todo # {}
    PROVE  \/ \E t \in Tasks : WakeTask(t) \/ PlaceTask(t) \/ StopTask(t)
           \/ UNCHANGED vars
<1>1. ~ Unlocked
    BY DEF Unlocked
<1>2. ~ Program
    BY <1>1 DEF Program, DeclareTask, After, Problem, Doing, Define,
        CallerResolve, WaitBegin, Interrupt, MayCall
<1>3. \A t \in Tasks : ~ (\/ Observe(t) \/ ResolveObserved(t)
                          \/ FailFollowers(t) \/ FinishClaimed(t)
                          \/ Returns(t) \/ Panics(t))
    BY <1>1 DEF Observe, ResolveObserved, FailFollowers, FinishClaimed, Returns,
        Panics
<1>4. \A w \in Waiters : ~ WaitStep(w)
    BY <1>1 DEF WaitStep, ClaimAwaited, CheckStalled, ClaimAny, Park, EndWait,
        AbortWait, ReportWait
<1>5. ~ (Kick \/ FinishBegin \/ Ending \/ Over)
    BY <1>1
    DEF Kick, TakeEligible, EndKick, KickAgain, BlockCycles, ReleaseWaits,
        FinishBegin, Ending, CancelActive, CancelNext, AbandonQueued, Drained,
        SweepBegin, SweepTask, SweepEnd, Over
<1> QED
    BY <1>2, <1>3, <1>4, <1>5 DEF Next, Runtime, TaskStep

\* A row does not go back to being undefined, and only the sweep leaves one
\* Incomplete.
Forward ==
    \A t \in Tasks :
        /\ phase[t] # "Declared" => phase'[t] # "Declared"
        /\ state'[t] = "Incomplete" => state[t] = "Incomplete" \/ SweepTask

\* settleLocked undefines nothing, and only the sweep asks for Incomplete.
LEMMA SettleForward ==
    ASSUME NEW S, NEW s, s \in Terminal \/ SweepTask,
           NEW work, Settle(S, s, work)
    PROVE  Forward
BY DEF Settle, Forward, Honest, Terminal, Succeeding, Failing

\* Nor does placeLocked.
LEMMA PlaceForward ==
    ASSUME TypeOK, NEW t \in Tasks, NEW scan, NEW work, Place(t, scan, work)
    PROVE  Forward
<1>1. CASE Settle({t}, "NotStarted", work)
    BY <1>1, SettleForward DEF Terminal, Failing
<1>2. ASSUME UNCHANGED state, NEW p \in {"Queued", "Parked"},
             phase' = [phase EXCEPT ![t] = p]
      PROVE  Forward
    BY <1>2 DEF Forward, TypeOK, SettleTypes
<1> QED
    BY <1>1, <1>2 DEF Place

\* Nor does claimLocked.
LEMMA ClaimForward ==
    ASSUME TypeOK, NEW t, NEW slot, NEW w, Claim(t, slot, w)
    PROVE  Forward
BY DEF Claim, Forward, TypeOK, SettleTypes

\* Nor does any step.
LEMMA ForwardStep ==
    ASSUME TypeOK, [Next]_vars
    PROVE  Forward
<1>1. CASE UNCHANGED <<state, phase>>
    BY <1>1 DEF Forward
<1>2. ASSUME NEW t \in Tasks, WakeTask(t) \/ PlaceTask(t)
      PROVE  Forward
    BY <1>1, <1>2, PlaceForward DEF WakeTask, PlaceTask
<1>3. ASSUME NEW t \in Tasks, StopTask(t)
      PROVE  Forward
    BY <1>1, <1>3, SettleForward DEF StopTask, Terminal, Failing
<1>4. ASSUME NEW t \in Tasks, Doing(t) \/ Define(t)
      PROVE  Forward
    BY <1>4 DEF Doing, Define, Forward, TypeOK, SettleTypes
<1>5. ASSUME NEW t \in Tasks, NEW s \in Terminal, CallerResolve(t, s)
      PROVE  Forward
    BY <1>1, <1>5, SettleForward DEF CallerResolve, ResolveTo, settleVars
<1>6. ASSUME NEW t \in Tasks, Panics(t) \/ ResolveObserved(t)
      PROVE  Forward
    BY <1>1, <1>6, SettleForward DEF Panics, ResolveObserved, ScheduledResolve,
        ResolveTo, settleVars, Terminal, Succeeding, Failing
<1>7. CASE TakeEligible
    BY <1>1, <1>7, ClaimForward DEF TakeEligible, settleVars
<1>8. ASSUME NEW w \in Waiters, ClaimAwaited(w) \/ ClaimAny(w)
      PROVE  Forward
    BY <1>1, <1>8, ClaimForward DEF ClaimAwaited, ClaimAny, HostTask, settleVars
<1>9. CASE BlockCycles \/ CancelNext
    BY <1>1, <1>9, SettleForward DEF BlockCycles, CancelNext, ResolveTo,
        settleVars, Terminal, Failing
<1>10. CASE SweepTask
    BY <1>10, SettleForward DEF SweepTask
<1>11. ASSUME NEW t \in Tasks, \/ Problem(t) \/ Returns(t) \/ Observe(t)
                              \/ FailFollowers(t) \/ FinishClaimed(t)
       PROVE  UNCHANGED <<state, phase>>
    BY <1>11 DEF Problem, Returns, Observe, FailFollowers, FinishClaimed,
        settleVars
<1>12. ASSUME NEW t \in Tasks, NEW p \in Tasks, After(t, p)
       PROVE  UNCHANGED <<state, phase>>
    BY <1>12 DEF After, settleVars
<1>13. ASSUME NEW w \in Waiters, NEW t \in Tasks, WaitBegin(w, t)
       PROVE  UNCHANGED <<state, phase>>
    BY <1>13 DEF WaitBegin
<1>14. ASSUME NEW w \in Waiters, \/ CheckStalled(w) \/ Park(w) \/ EndWait(w)
                                 \/ AbortWait(w) \/ ReportWait(w)
       PROVE  UNCHANGED <<state, phase>>
    BY <1>14 DEF CheckStalled, Park, EndWait, AbortWait, ReportWait, settleVars
<1>15. CASE \/ DeclareTask \/ EndKick \/ ReleaseWaits \/ Interrupt
            \/ CancelActive \/ AbandonQueued \/ FinishBegin \/ Drained
            \/ SweepBegin \/ SweepEnd \/ Over \/ UNCHANGED vars
    BY <1>1, <1>15 DEF DeclareTask, EndKick, ReleaseWaits, Interrupt,
        CancelActive, AbandonQueued, FinishBegin, Drained, SweepBegin, SweepEnd,
        Over, vars, settleVars
<1>16. CASE Program
    BY <1>1, <1>4, <1>5, <1>11, <1>12, <1>13, <1>15, <1>16 DEF Program
<1>17. CASE \E t \in Tasks : TaskStep(t) \/ Returns(t) \/ Panics(t)
    BY <1>1, <1>2, <1>3, <1>6, <1>11, <1>17 DEF TaskStep
<1>18. CASE \E w \in Waiters : WaitStep(w)
    BY <1>1, <1>8, <1>14, <1>18 DEF WaitStep
<1> QED
    BY <1>7, <1>9, <1>10, <1>15, <1>16, <1>17, <1>18 DEF Next, Runtime, Kick,
        Ending

\* A Task marked to be stopped stays marked until it is settled or runs.
LEMMA StopsPending ==
    ASSUME IInv, [Next]_vars, NEW t \in Tasks, <<"stop", t>> \in todo
    PROVE  \/ <<"stop", t>> \in todo'
           \/ phase'[t] = "Running" \/ state'[t] \in Terminal
<1>1. CASE UNCHANGED vars
    BY <1>1 DEF vars, settleVars
<1>2. ASSUME NEW u \in Tasks, WakeTask(u) \/ PlaceTask(u)
      PROVE  <<"stop", t>> \in todo'
    BY <1>2 DEF WakeTask, PlaceTask, Place, Settle
<1>3. ASSUME NEW u \in Tasks, StopTask(u), u # t
      PROVE  <<"stop", t>> \in todo'
    BY <1>3 DEF StopTask, Settle
<1>4. CASE StopTask(t)
  <2>1. CASE phase[t] = "Running" \/ IsTerminal(t)
    BY <1>4, <2>1 DEF StopTask, IsTerminal
  <2>2. CASE Settle({t}, "NotStarted", todo \ {<<"stop", t>>})
    BY <2>2 DEF Settle, Honest, Terminal, Succeeding, Failing
  <2> QED
    BY <1>4, <2>1, <2>2 DEF StopTask
<1> QED
    BY <1>1, <1>2, <1>3, <1>4, OnlyCascade

-----------------------------------------------------------------------------
\* What a Wait under way may count on.
Answering ==
    /\ \A w \in Waiters : waiting[w] # "idle" =>
            ~ NeverDefined(target[w]) \/ <<"stop", target[w]>> \in todo
    /\ \A w \in Waiters : waiting[w] = "report" => Closed(target[w])
    /\ \A w \in Waiters : answer[w] = "ok" => target[w] \in Tasks
    /\ \A t \in Tasks : state[t] = "Incomplete" =>
            finish \in {"sweeping", "finished"}

\* What the answers of Wait rest on.
WInv == Answering /\ WaitTellsTruth

\* A Task that is Defined, settled or about to be stopped remains so.
LEMMA DefinedStays ==
    ASSUME IInv, Stable, Forward, NEW t \in Tasks, [Next]_vars,
           ~ NeverDefined(t) \/ <<"stop", t>> \in todo
    PROVE  ~ NeverDefined(t)' \/ <<"stop", t>> \in todo'
<1>1. CASE phase[t] # "Declared"
    BY <1>1 DEF Forward, NeverDefined
<1>2. CASE IsTerminal(t)
    BY <1>2 DEF Stable, IsTerminal, NeverDefined
<1>3. CASE <<"stop", t>> \in todo
    BY <1>3, StopsPending DEF NeverDefined, IsTerminal
<1> QED
    BY <1>1, <1>2, <1>3 DEF NeverDefined

\* How one goroutine's Wait can move.
LEMMA WaitMoves ==
    ASSUME IInv, [Next]_vars, NEW w \in Waiters
    PROVE  \/ /\ \/ waiting'[w] = waiting[w]
                 \/ waiting'[w] \notin {"idle", "report"}
              /\ waiting'[w] # "idle" => waiting[w] # "idle"
              /\ UNCHANGED <<target[w], answer[w]>>
           \/ \E t \in Tasks : WaitBegin(w, t)
           \/ Park(w) \/ EndWait(w) \/ AbortWait(w) \/ ReportWait(w)
<1> DEFINE Stays == /\ \/ waiting'[w] = waiting[w]
                       \/ waiting'[w] \notin {"idle", "report"}
                    /\ waiting'[w] # "idle" => waiting[w] # "idle"
                    /\ UNCHANGED <<target[w], answer[w]>>
<1>1. ASSUME UNCHANGED <<waiting, target, answer>>
      PROVE  Stays
    BY <1>1
<1>2. ASSUME NEW v \in Waiters, v # w, NEW t \in Tasks, WaitBegin(v, t)
      PROVE  Stays
    BY <1>2 DEF WaitBegin, IInv, TypeOK, WaitTypes
<1>3. ASSUME NEW v \in Waiters, v # w, WaitStep(v)
      PROVE  Stays
    BY <1>3 DEF WaitStep, ClaimAwaited, HostTask, CheckStalled, ClaimAny, Park,
        EndWait, AbortWait, ReportWait, IInv, TypeOK, WaitTypes
<1>4. CASE ClaimAwaited(w) \/ CheckStalled(w) \/ ClaimAny(w)
    BY <1>4 DEF ClaimAwaited, HostTask, CheckStalled, ClaimAny, IInv, TypeOK,
        WaitTypes
<1>5. ASSUME NEW t \in Tasks, FinishClaimed(t)
      PROVE  Stays
    BY <1>5 DEF FinishClaimed, IInv, Hosting, TypeOK, WaitTypes
<1>6. ASSUME NEW t \in Tasks,
             \/ Problem(t) \/ Doing(t) \/ Define(t)
             \/ \E p \in Tasks : After(t, p)
             \/ \E s \in Terminal : CallerResolve(t, s)
      PROVE  UNCHANGED <<waiting, target, answer>>
    BY <1>6 DEF Problem, Doing, Define, After, CallerResolve, waitVars
<1>7. ASSUME NEW t \in Tasks,
             \/ WakeTask(t) \/ PlaceTask(t) \/ StopTask(t) \/ Observe(t)
             \/ ResolveObserved(t) \/ FailFollowers(t)
             \/ Returns(t) \/ Panics(t)
      PROVE  UNCHANGED <<waiting, target, answer>>
    BY <1>7 DEF WakeTask, PlaceTask, StopTask, Observe, ResolveObserved,
        FailFollowers, Returns, Panics, waitVars
<1>8. CASE \/ DeclareTask \/ Kick \/ Interrupt \/ FinishBegin \/ Ending \/ Over
           \/ UNCHANGED vars
    BY <1>8 DEF DeclareTask, Kick, TakeEligible, EndKick, BlockCycles,
        ReleaseWaits, Interrupt, FinishBegin, Ending, CancelActive, CancelNext,
        AbandonQueued, Drained, SweepBegin, SweepTask, SweepEnd, Over, vars,
        waitVars
<1>9. CASE Program
    BY <1>1, <1>2, <1>6, <1>8, <1>9 DEF Program
<1>10. CASE \E t \in Tasks : TaskStep(t) \/ Returns(t) \/ Panics(t)
    BY <1>1, <1>5, <1>7, <1>10 DEF TaskStep
<1>11. CASE \E v \in Waiters : WaitStep(v)
    BY <1>3, <1>4, <1>11 DEF WaitStep
<1> QED
    BY <1>8, <1>9, <1>10, <1>11 DEF Next, Runtime

\* Every step keeps what a Wait counts on, so the answer waitOutcome gives at
\* the end is still true of the row.
LEMMA AnsweringStep ==
    ASSUME EInv, EInv', Stable, Forward, WInv, [Next]_vars
    PROVE  WInv'
<1> USE DEF EInv
<1>1. ASSUME NEW w \in Waiters, waiting'[w] # "idle"
      PROVE  (~ NeverDefined(target[w]) \/ <<"stop", target[w]>> \in todo)'
  <2>1. CASE waiting[w] # "idle" /\ target'[w] = target[w]
    <3>1. target[w] \in Tasks
      BY <2>1 DEF IInv, Awaiting
    <3> QED
      BY <2>1, <3>1, DefinedStays DEF WInv, Answering
  <2>2. ASSUME NEW t \in Tasks, WaitBegin(w, t)
        PROVE  (~ NeverDefined(target[w]) \/ <<"stop", target[w]>> \in todo)'
    <3>1. target'[w] = t
      BY <2>2 DEF WaitBegin, IInv, TypeOK, WaitTypes
    <3>2. ~ NeverDefined(t) \/ <<"stop", t>> \in todo'
      BY <2>2 DEF WaitBegin, Stops, NeverDefined
    <3>3. UNCHANGED <<phase, state>>
      BY <2>2 DEF WaitBegin
    <3> QED
      BY <3>1, <3>2, <3>3 DEF NeverDefined, IsTerminal
  <2>3. CASE Park(w) \/ EndWait(w) \/ AbortWait(w) \/ ReportWait(w)
    BY <1>1, <2>1, <2>3 DEF Park, EndWait, AbortWait, ReportWait, IInv, TypeOK,
        WaitTypes
  <2> QED
    BY <1>1, <2>1, <2>2, <2>3, WaitMoves
<1>2. ASSUME NEW w \in Waiters, waiting'[w] = "report"
      PROVE  Closed(target[w])'
  <2>1. CASE waiting[w] = "report" /\ UNCHANGED target[w]
    <3>1. target[w] \in Tasks /\ Closed(target[w])
      BY <2>1 DEF IInv, Awaiting, WInv, Answering
    <3> QED
      BY <2>1, <3>1 DEF Stable, Closed, IsTerminal
  <2>2. CASE Park(w)
    <3>1. waiting[w] # "idle" /\ todo = {}
      BY <2>2 DEF Park, Unlocked
    <3>2. ~ NeverDefined(target[w])
      BY <3>1 DEF WInv, Answering
    <3>3. UNCHANGED <<target, state>>
      BY <2>2 DEF Park, settleVars
    <3>4. IsTerminal(target[w])
      BY <1>2, <2>2, <3>2 DEF Park, IInv, TypeOK, WaitTypes
    <3> QED
      BY <3>3, <3>4 DEF Closed, IsTerminal
  <2>3. CASE EndWait(w)
    BY <2>3 DEF EndWait, Closed, IsTerminal, settleVars
  <2>4. ~ (\/ \E t \in Tasks : WaitBegin(w, t)
           \/ AbortWait(w) \/ ReportWait(w))
    BY <1>2 DEF WaitBegin, AbortWait, ReportWait, IInv, TypeOK, WaitTypes
  <2> QED
    BY <1>2, <2>1, <2>2, <2>3, <2>4, WaitMoves
<1>3. ASSUME NEW t \in Tasks, state'[t] = "Incomplete"
      PROVE  finish' \in {"sweeping", "finished"}
  <2>1. finish \in {"sweeping", "finished"}
    BY <1>3 DEF Forward, WInv, Answering, SweepTask
  <2> QED
    BY <2>1, FinishMoves DEF FinishBegin, Drained, SweepBegin, SweepEnd
<1>4. ASSUME NEW w \in Waiters, answer'[w] = "ok"
      PROVE  (target[w] \in Tasks /\ state[target[w]] \in Succeeding)'
  <2>1. CASE answer[w] = "ok" /\ UNCHANGED target[w]
    <3>1. target[w] \in Tasks /\ state[target[w]] \in Succeeding
      BY <2>1 DEF WInv, Answering, WaitTellsTruth
    <3> QED
      BY <2>1, <3>1, SuccessStays
  <2>2. CASE Park(w) \/ EndWait(w)
    BY <1>4, <2>1, <2>2 DEF Park, EndWait
  <2>3. CASE ReportWait(w)
    <3>1. /\ waiting[w] = "report" /\ finish # "sweeping"
          /\ target[w] \in Tasks /\ Closed(target[w])
      BY <2>3 DEF ReportWait, Unlocked, WInv, Answering, IInv, Awaiting
    <3>2. finish # "finished"
      BY <3>1, ClosedLedger DEF LedgerComplete
    <3>3. state[target[w]] \in Terminal
      BY <3>1, <3>2 DEF WInv, Answering, Closed, IsTerminal
    <3>4. WaitOutcome(target[w]) = "ok"
      BY <1>4, <2>3 DEF ReportWait, IInv, TypeOK, WaitTypes
    <3>5. state[target[w]] \in Succeeding
      BY <3>3, <3>4 DEF WaitOutcome, Terminal
    <3> QED
      BY <2>3, <3>1, <3>5 DEF ReportWait, settleVars
  <2>4. ~ (AbortWait(w) \/ \E t \in Tasks : WaitBegin(w, t))
    BY <1>4 DEF AbortWait, WaitBegin, IInv, TypeOK, WaitTypes
  <2> QED
    BY <1>4, <2>1, <2>2, <2>3, <2>4, WaitMoves
<1> QED
    BY <1>1, <1>2, <1>3, <1>4 DEF WInv, Answering, WaitTellsTruth

\* When the program joins its goroutines, a Wait that reported success awaited a
\* Task whose row is, and stays, a success.
THEOREM WaitsTellTruth ==
    ASSUME Joined
    PROVE  Spec => []WaitTellsTruth
<1>1. Init => WInv
    BY DEF Init, WInv, Answering, WaitTellsTruth
<1>2. EInv /\ EInv' /\ WInv /\ [Next]_vars => WInv'
    BY StableStep, ForwardStep, AnsweringStep DEF EInv, IInv
<1>3. WInv => WaitTellsTruth
    BY DEF WInv
<1> QED
    BY <1>1, <1>2, <1>3, EInvInvariant, PTL DEF Spec

-----------------------------------------------------------------------------
\* How rows settle when the program joins its goroutines: which step moves a
\* callback, a row and its work, what earns a success, and how a Sequence stops.

\* How a callback moves on.
Starts(t) ==
    /\ AwaitingStart(t)
    /\ \E slot \in BOOLEAN, w \in Waiters \cup {NoTask} : Claim(t, slot, w)

\* A step moves the callback of t only by its own goroutine, and only its return
\* records an error.
LEMMA RunMoves ==
    ASSUME IInv, [Next]_vars, NEW t \in Tasks
    PROVE  \/ UNCHANGED run[t] /\ (t \in workErr' => t \in workErr)
           \/ Starts(t) /\ UNCHANGED workErr
           \/ Returns(t) \/ Panics(t) \/ Observe(t) \/ ResolveObserved(t)
           \/ FailFollowers(t) \/ FinishClaimed(t)
<1> DEFINE Stays == UNCHANGED run[t] /\ (t \in workErr' => t \in workErr)
<1>1. ASSUME UNCHANGED <<run, workErr>>
      PROVE  Stays
    BY <1>1
<1>2. ASSUME NEW u \in Tasks, u # t,
             \/ Returns(u) \/ Panics(u) \/ Observe(u) \/ ResolveObserved(u)
             \/ FailFollowers(u) \/ FinishClaimed(u)
      PROVE  Stays
    BY <1>2 DEF Returns, Panics, Observe, ResolveObserved, FailFollowers,
        FinishClaimed, IInv, TypeOK, RunTypes, workVars
<1>3. ASSUME NEW u \in Tasks, AwaitingStart(u), NEW slot \in BOOLEAN,
             NEW w \in Waiters \cup {NoTask}, Claim(u, slot, w)
      PROVE  Stays \/ (Starts(t) /\ UNCHANGED workErr)
  <2>1. UNCHANGED workErr
    BY <1>3 DEF Claim, workVars
  <2>2. CASE u = t
    BY <1>3, <2>1, <2>2 DEF Starts
  <2>3. CASE u # t
    BY <1>3, <2>1, <2>3 DEF Claim, IInv, TypeOK, RunTypes
  <2> QED
    BY <2>2, <2>3
<1>4. CASE TakeEligible
  <2>1. Queue # {} => Min(Queue) \in Queue
    BY MinIsLeast DEF Queue
  <2> QED
    BY <1>1, <1>3, <1>4, <2>1
    DEF TakeEligible, Startable, Queue, runVars, workVars
<1>5. ASSUME NEW w \in Waiters, ClaimAwaited(w)
      PROVE  Stays \/ (Starts(t) /\ UNCHANGED workErr)
    BY <1>1, <1>3, <1>5
    DEF ClaimAwaited, HostTask, IInv, Awaiting, runVars, workVars
<1>6. ASSUME NEW w \in Waiters, ClaimAny(w)
      PROVE  Stays \/ (Starts(t) /\ UNCHANGED workErr)
  <2>1. Queue # {} => Min(Queue) \in Queue
    BY MinIsLeast DEF Queue
  <2> QED
    BY <1>1, <1>3, <1>6, <2>1 DEF ClaimAny, HostTask, Queue, runVars, workVars
<1>7. ASSUME NEW w \in Waiters, \/ CheckStalled(w) \/ Park(w) \/ EndWait(w)
                                \/ AbortWait(w) \/ ReportWait(w)
      PROVE  UNCHANGED <<run, workErr>>
    BY <1>7
    DEF CheckStalled, Park, EndWait, AbortWait, ReportWait, runVars, workVars
<1>8. ASSUME NEW u \in Tasks,
             \/ Problem(u) \/ Doing(u) \/ Define(u)
             \/ \E p \in Tasks : After(u, p)
             \/ \E s \in Terminal : CallerResolve(u, s)
             \/ \E w \in Waiters : WaitBegin(w, u)
      PROVE  UNCHANGED <<run, workErr>>
    BY <1>8
    DEF Problem, Doing, Define, After, CallerResolve, WaitBegin, runVars,
        workVars
<1>9. ASSUME NEW u \in Tasks, WakeTask(u) \/ PlaceTask(u) \/ StopTask(u)
      PROVE  UNCHANGED <<run, workErr>>
    BY <1>9 DEF WakeTask, PlaceTask, StopTask, runVars, workVars
<1>10. CASE \/ DeclareTask \/ EndKick \/ BlockCycles \/ ReleaseWaits
            \/ Interrupt \/ FinishBegin \/ Ending \/ Over \/ UNCHANGED vars
    BY <1>10 DEF DeclareTask, EndKick, BlockCycles, ReleaseWaits, Interrupt,
        FinishBegin, Ending, CancelActive, CancelNext, AbandonQueued, Drained,
        SweepBegin, SweepTask, SweepEnd, Over, vars, runVars, workVars
<1>11. CASE Program
    BY <1>1, <1>8, <1>10, <1>11 DEF Program
<1>12. CASE \E u \in Tasks : TaskStep(u) \/ Returns(u) \/ Panics(u)
    BY <1>1, <1>2, <1>9, <1>12 DEF TaskStep
<1>13. CASE \E w \in Waiters : WaitStep(w)
    BY <1>1, <1>5, <1>6, <1>7, <1>13 DEF WaitStep
<1> QED
    BY <1>4, <1>10, <1>11, <1>12, <1>13 DEF Next, Runtime, Kick

\* How a row is settled.
ResolvedBy(t, s) ==
    /\ Resolvable(t) /\ ResolveTo(t, s) /\ todo = {}
    /\ \/ CallerResolve(t, s) /\ s # "Done"
       \/ Panics(t) /\ s = "Failed"
       \/ ResolveObserved(t)
       \/ CancelNext /\ s = "Cancelled"

\* A row changes its state by a stop, a cycle, a start, a verdict or the sweep.
LEMMA StateMoves ==
    ASSUME IInv, [Next]_vars, NEW t \in Tasks, state'[t] # state[t]
    PROVE  \/ state'[t] = "NotStarted" /\ phase[t] # "Running"
           \/ state'[t] = "Blocked" /\ phase[t] = "Parked"
           \/ state'[t] = "Running"
           \/ \E s \in Terminal : ResolvedBy(t, s)
           \/ SweepTask /\ t = NextUnresolved
<1> DEFINE Goal == \/ state'[t] = "NotStarted" /\ phase[t] # "Running"
                   \/ state'[t] = "Blocked" /\ phase[t] = "Parked"
                   \/ state'[t] = "Running"
                   \/ \E s \in Terminal : ResolvedBy(t, s)
                   \/ SweepTask /\ t = NextUnresolved
<1>1. ASSUME NEW u \in Tasks, phase[u] # "Running", NEW work,
             Settle({u}, "NotStarted", work)
      PROVE  Goal
    BY <1>1 DEF Settle, Honest, Succeeding
<1>2. ASSUME NEW u \in Tasks, WakeTask(u) \/ PlaceTask(u)
      PROVE  Goal
    BY <1>1, <1>2 DEF WakeTask, PlaceTask, AwaitingStart, Place
<1>3. ASSUME NEW u \in Tasks, StopTask(u)
      PROVE  Goal
    BY <1>1, <1>3 DEF StopTask
<1>4. ASSUME NEW u \in Tasks, Doing(u)
      PROVE  Goal
    BY <1>4 DEF Doing, IInv, TypeOK, SettleTypes
<1>5. ASSUME NEW u \in Tasks, NEW slot, NEW w, Claim(u, slot, w)
      PROVE  Goal
    BY <1>5 DEF Claim, IInv, TypeOK, SettleTypes
<1>6. ASSUME NEW u \in Tasks, NEW s, ResolveTo(u, s)
      PROVE  u = t
    BY <1>6 DEF ResolveTo, Settle
<1>7. ASSUME NEW u \in Tasks, NEW s \in Terminal, CallerResolve(u, s)
      PROVE  Goal
  <2>1. ResolveTo(u, s) /\ Resolvable(u) /\ todo = {}
    BY <1>7 DEF CallerResolve, MayCall, Unlocked, settleVars
  <2>2. s # "Done"
    BY <1>7, SchedulerAssumption DEF CallerResolve
  <2> QED
    BY <1>6, <1>7, <2>1, <2>2 DEF ResolvedBy
<1>8. ASSUME NEW u \in Tasks, Panics(u)
      PROVE  Goal
  <2>1. ResolveTo(u, "Failed") /\ Resolvable(u) /\ todo = {}
    BY <1>8 DEF Panics, ScheduledResolve, Unlocked, settleVars
  <2> QED
    BY <1>6, <1>8, <2>1 DEF ResolvedBy, Terminal, Failing
<1>9. ASSUME NEW u \in Tasks, ResolveObserved(u)
      PROVE  Goal
  <2>1. PICK s \in Terminal : ScheduledResolve(u, s)
    BY <1>9 DEF ResolveObserved, Terminal, Failing, Succeeding
  <2>2. ResolveTo(u, s) /\ Resolvable(u) /\ todo = {}
    BY <1>9, <2>1 DEF ResolveObserved, ScheduledResolve, Unlocked, settleVars
  <2> QED
    BY <1>6, <1>9, <2>1, <2>2 DEF ResolvedBy
<1>10. CASE CancelNext
  <2>1. cancelling # {} => Min(cancelling) \in Tasks
    BY MinIsLeast DEF IInv, TypeOK, EndTypes
  <2>2. \E u \in Tasks : ResolveTo(u, "Cancelled") /\ Resolvable(u) /\ todo = {}
    BY <1>10, <2>1 DEF CancelNext, Unlocked, settleVars
  <2> QED
    BY <1>6, <1>10, <2>2 DEF ResolvedBy, Terminal, Failing
<1>11. CASE BlockCycles
  <2>1. PICK B \in FoundCycles : Settle(B, "Blocked", {})
    BY <1>11 DEF BlockCycles
  <2>2. \A u \in B : phase[u] = "Parked"
    BY DEF FoundCycles, Cyclic, Parked
  <2> QED
    BY <2>1, <2>2 DEF Settle, Honest, Succeeding
<1>12. CASE SweepTask
    BY <1>12 DEF SweepTask, Settle
<1>13. CASE TakeEligible
  <2>1. Queue # {} => Min(Queue) \in Tasks
    BY MinIsLeast DEF Queue
  <2> QED
    BY <1>5, <1>13, <2>1 DEF TakeEligible, Startable, settleVars
<1>14. ASSUME NEW w \in Waiters, ClaimAwaited(w)
      PROVE  Goal
    BY <1>5, <1>14 DEF ClaimAwaited, HostTask, IInv, Awaiting, settleVars
<1>15. ASSUME NEW w \in Waiters, ClaimAny(w)
      PROVE  Goal
  <2>1. Queue # {} => Min(Queue) \in Tasks
    BY MinIsLeast DEF Queue
  <2> QED
    BY <1>5, <1>15, <2>1 DEF ClaimAny, HostTask, settleVars
<1>16. ASSUME NEW u \in Tasks,
              \/ Problem(u) \/ Define(u)
              \/ \E p \in Tasks : After(u, p)
              \/ \E w \in Waiters : WaitBegin(w, u)
       PROVE  UNCHANGED state
    BY <1>16 DEF Problem, Define, After, WaitBegin, settleVars
<1>17. ASSUME NEW u \in Tasks, \/ Returns(u) \/ Observe(u)
                              \/ FailFollowers(u) \/ FinishClaimed(u)
       PROVE  UNCHANGED state
    BY <1>17 DEF Returns, Observe, FailFollowers, FinishClaimed, settleVars
<1>18. ASSUME NEW w \in Waiters, \/ CheckStalled(w) \/ Park(w) \/ EndWait(w)
                                 \/ AbortWait(w) \/ ReportWait(w)
       PROVE  UNCHANGED state
    BY <1>18 DEF CheckStalled, Park, EndWait, AbortWait, ReportWait, settleVars
<1>19. ~ (\/ DeclareTask \/ EndKick \/ ReleaseWaits \/ Interrupt
          \/ CancelActive \/ AbandonQueued \/ FinishBegin \/ Drained
          \/ SweepBegin \/ SweepEnd \/ Over \/ UNCHANGED vars)
    BY DEF DeclareTask, EndKick, ReleaseWaits, Interrupt,
        CancelActive, AbandonQueued, FinishBegin, Drained, SweepBegin, SweepEnd,
        Over, vars, settleVars
<1>20. CASE Program
    BY <1>4, <1>7, <1>16, <1>19, <1>20 DEF Program
<1>21. CASE \E u \in Tasks : TaskStep(u) \/ Returns(u) \/ Panics(u)
    BY <1>2, <1>3, <1>8, <1>9, <1>17, <1>21 DEF TaskStep
<1>22. CASE \E w \in Waiters : WaitStep(w)
    BY <1>14, <1>15, <1>18, <1>22 DEF WaitStep
<1> QED
    BY <1>10, <1>11, <1>12, <1>13, <1>19, <1>20, <1>21, <1>22 DEF Next, Runtime,
        Kick, Ending

-----------------------------------------------------------------------------
\* Only an open row gets a Problem, and settles as anything but a success when
\* the step settles it.
LEMMA ProblemMoves ==
    ASSUME IInv, [Next]_vars, NEW t \in Tasks, t \in problem', t \notin problem
    PROVE  /\ ~ IsTerminal(t)
           /\ state'[t] = state[t] \/ state'[t] \notin Succeeding
<1> DEFINE Goal == /\ ~ IsTerminal(t)
                   /\ state'[t] = state[t] \/ state'[t] \notin Succeeding
<1>1. ASSUME NEW u \in Tasks, Problem(u)
      PROVE  Goal
    BY <1>1 DEF Problem, settleVars
<1>2. ASSUME NEW u \in Tasks, NEW s \in {"Failed", "Blocked"}, Resolvable(u),
             ResolveTo(u, s), problem' = problem \cup {u}
      PROVE  Goal
    BY <1>2 DEF Resolvable, ResolveTo, Settle, Honest, Succeeding
<1>3. ASSUME NEW u \in Tasks, NEW s \in Terminal, CallerResolve(u, s)
      PROVE  Goal
    BY <1>2, <1>3 DEF CallerResolve, rowVars
<1>4. ASSUME NEW u \in Tasks, Panics(u) \/ ResolveObserved(u)
      PROVE  Goal
    BY <1>2, <1>4 DEF Panics, ResolveObserved, ScheduledResolve, rowVars
<1>5. CASE BlockCycles
  <2>1. PICK B \in FoundCycles : /\ Settle(B, "Blocked", {})
                                 /\ problem' = problem \cup B
    BY <1>5 DEF BlockCycles
  <2>2. \A u \in B : ~ IsTerminal(u)
    BY DEF FoundCycles, Cyclic, Parked
  <2> QED
    BY <2>1, <2>2 DEF Settle, Honest, Succeeding
<1>6. ASSUME NEW u \in Tasks,
             \/ Doing(u) \/ Define(u) \/ \E p \in Tasks : After(u, p)
             \/ \E w \in Waiters : WaitBegin(w, u)
             \/ WakeTask(u) \/ PlaceTask(u) \/ StopTask(u)
             \/ Returns(u) \/ Observe(u) \/ FailFollowers(u) \/ FinishClaimed(u)
      PROVE  UNCHANGED problem
    BY <1>6 DEF Doing, Define, After, WaitBegin, WakeTask, PlaceTask, StopTask,
        Returns, Observe, FailFollowers, FinishClaimed, rowVars
<1>7. ASSUME NEW w \in Waiters, WaitStep(w)
      PROVE  UNCHANGED problem
    BY <1>7 DEF WaitStep, ClaimAwaited, HostTask, Claim, CheckStalled, ClaimAny,
        Park, EndWait, AbortWait, ReportWait, rowVars
<1>8. CASE \/ DeclareTask \/ TakeEligible \/ EndKick \/ ReleaseWaits
           \/ Interrupt \/ FinishBegin \/ Ending \/ Over \/ UNCHANGED vars
    BY <1>8 DEF DeclareTask, TakeEligible, Claim, EndKick, ReleaseWaits,
        Interrupt, FinishBegin, Ending, CancelActive, CancelNext, AbandonQueued,
        Drained, SweepBegin, SweepTask, SweepEnd, Over, vars, rowVars
<1>9. CASE Program
    BY <1>1, <1>3, <1>6, <1>8, <1>9 DEF Program
<1>10. CASE \E u \in Tasks : TaskStep(u) \/ Returns(u) \/ Panics(u)
    BY <1>4, <1>6, <1>10 DEF TaskStep
<1>11. CASE \E w \in Waiters : WaitStep(w)
    BY <1>7, <1>11
<1> QED
    BY <1>5, <1>8, <1>9, <1>10, <1>11 DEF Next, Runtime, Kick

\* How the work of a row moves: its Define, a settling that abandons it, a
\* claim.
LEMMA PhaseMoves ==
    ASSUME IInv, [Next]_vars, NEW t \in Tasks, phase'[t] # phase[t]
    PROVE  \/ Define(t)
           \/ /\ phase[t] \in {"Queued", "Parked"}
              /\ phase'[t] \in {"Queued", "Parked"}
           \/ Starts(t)
           \/ /\ phase[t] \in {"Queued", "Parked"} /\ phase'[t] = "Abandoned"
              /\ state'[t] \in Terminal \cup {"Incomplete"}
<1> DEFINE Goal == \/ Define(t)
                   \/ /\ phase[t] \in {"Queued", "Parked"}
                      /\ phase'[t] \in {"Queued", "Parked"}
                   \/ Starts(t)
                   \/ /\ phase[t] \in {"Queued", "Parked"}
                      /\ phase'[t] = "Abandoned"
                      /\ state'[t] \in Terminal \cup {"Incomplete"}
<1>1. ASSUME NEW S, NEW s \in Terminal \cup {"Incomplete"}, NEW work,
             Settle(S, s, work)
      PROVE  Goal
    BY <1>1 DEF Settle, Abandoned, Honest, Terminal, Failing
<1>2. ASSUME NEW u \in Tasks, AwaitingStart(u), NEW scan, NEW work,
             Place(u, scan, work)
      PROVE  Goal
    BY <1>1, <1>2 DEF Place, AwaitingStart, IInv, TypeOK, SettleTypes, Terminal,
        Failing
<1>3. ASSUME NEW u \in Tasks, AwaitingStart(u), NEW slot \in BOOLEAN,
             NEW w \in Waiters \cup {NoTask}, Claim(u, slot, w)
      PROVE  Goal
    BY <1>3 DEF Starts, Claim, AwaitingStart, IInv, TypeOK, SettleTypes
<1>4. ASSUME NEW u \in Tasks, WakeTask(u) \/ PlaceTask(u) \/ StopTask(u)
      PROVE  Goal
    BY <1>1, <1>2, <1>4
    DEF WakeTask, PlaceTask, StopTask, AwaitingStart, Terminal, Failing
<1>5. ASSUME NEW u \in Tasks, Define(u)
      PROVE  Goal
    BY <1>5 DEF Define, IInv, TypeOK, SettleTypes
<1>6. ASSUME NEW u \in Tasks, NEW s \in Terminal, CallerResolve(u, s)
      PROVE  Goal
    BY <1>1, <1>6 DEF CallerResolve, ResolveTo, settleVars
<1>7. ASSUME NEW u \in Tasks, Panics(u) \/ ResolveObserved(u)
      PROVE  Goal
    BY <1>1, <1>7 DEF Panics, ResolveObserved, ScheduledResolve, ResolveTo,
        settleVars, Terminal, Failing, Succeeding
<1>8. CASE TakeEligible
  <2>1. Queue # {} => Min(Queue) \in Queue
    BY MinIsLeast DEF Queue
  <2> QED
    BY <1>3, <1>8, <2>1 DEF TakeEligible, Startable, Queue, settleVars
<1>9. ASSUME NEW w \in Waiters, ClaimAwaited(w)
      PROVE  Goal
    BY <1>3, <1>9 DEF ClaimAwaited, HostTask, IInv, Awaiting, settleVars
<1>10. ASSUME NEW w \in Waiters, ClaimAny(w)
      PROVE  Goal
  <2>1. Queue # {} => Min(Queue) \in Queue
    BY MinIsLeast DEF Queue
  <2> QED
    BY <1>3, <1>10, <2>1 DEF ClaimAny, HostTask, Queue, settleVars
<1>11. CASE BlockCycles \/ CancelNext
    BY <1>1, <1>11 DEF BlockCycles, CancelNext, ResolveTo, settleVars, Terminal,
        Failing
<1>12. CASE SweepTask
    BY <1>1, <1>12 DEF SweepTask, SweptTo, Terminal, Failing, Succeeding
<1>13. ASSUME NEW u \in Tasks,
              \/ Problem(u) \/ Doing(u) \/ \E p \in Tasks : After(u, p)
              \/ \E w \in Waiters : WaitBegin(w, u)
       PROVE  UNCHANGED phase
    BY <1>13 DEF Problem, Doing, After, WaitBegin, settleVars
<1>14. ASSUME NEW u \in Tasks, \/ Returns(u) \/ Observe(u)
                              \/ FailFollowers(u) \/ FinishClaimed(u)
       PROVE  UNCHANGED phase
    BY <1>14 DEF Returns, Observe, FailFollowers, FinishClaimed, settleVars
<1>15. ASSUME NEW w \in Waiters, \/ CheckStalled(w) \/ Park(w) \/ EndWait(w)
                                 \/ AbortWait(w) \/ ReportWait(w)
       PROVE  UNCHANGED phase
    BY <1>15 DEF CheckStalled, Park, EndWait, AbortWait, ReportWait, settleVars
<1>16. ~ (\/ DeclareTask \/ EndKick \/ ReleaseWaits \/ Interrupt
          \/ CancelActive \/ AbandonQueued \/ FinishBegin \/ Drained
          \/ SweepBegin \/ SweepEnd \/ Over \/ UNCHANGED vars)
    BY DEF DeclareTask, EndKick, ReleaseWaits, Interrupt,
        CancelActive, AbandonQueued, FinishBegin, Drained, SweepBegin, SweepEnd,
        Over, vars, settleVars
<1>17. CASE Program
    BY <1>5, <1>6, <1>13, <1>16, <1>17 DEF Program
<1>18. CASE \E u \in Tasks : TaskStep(u) \/ Returns(u) \/ Panics(u)
    BY <1>4, <1>7, <1>14, <1>18 DEF TaskStep
<1>19. CASE \E w \in Waiters : WaitStep(w)
    BY <1>9, <1>10, <1>15, <1>19 DEF WaitStep
<1> QED
    BY <1>8, <1>11, <1>12, <1>16, <1>17, <1>18, <1>19 DEF Next, Runtime, Kick,
        Ending

-----------------------------------------------------------------------------
\* What a callback's goroutine found out and what its row shows.
Told ==
    \A t \in Tasks :
        /\ t \in workErr => run[t] \notin {"none", "body"}
        /\ run[t] \in {"followers", "tail", "done"} => IsTerminal(t)
        /\ phase[t] = "Abandoned" => Closed(t)

\* What a green row rests on.
GInv == Told /\ GreenRowsEarned

\* While a callback is under way the Output is open.
LEMMA StaysOpen ==
    ASSUME EInv, NEW t \in Going
    PROVE  Open
<1>1. wg # 0
    BY NothingLeft DEF EInv
<1> QED
    BY <1>1 DEF EInv, Closing, Ended, Open, IInv, TypeOK, EndTypes

\* The verdict of the scheduler leaves a terminal row.
LEMMA VerdictGiven ==
    ASSUME EInv, Stable, NEW t \in Going, NEW s \in Terminal,
           ScheduledResolve(t, s)
    PROVE  state'[t] \in Terminal
<1>1. CASE IsTerminal(t)
    BY <1>1 DEF Stable, IsTerminal, Going
<1>2. CASE ~ IsTerminal(t)
  <2>1. \E work : Settle({t}, s, work)
    BY <1>2, StaysOpen DEF ScheduledResolve, Resolvable, ResolveTo
  <2> QED
    BY <2>1 DEF Settle, Honest, Terminal, Failing, Going
<1> QED
    BY <1>1, <1>2

\* Every step keeps Told: a callback's goroutine passes its verdict on before it
\* goes on, and work is abandoned only where it is settled.
LEMMA ToldStep ==
    ASSUME EInv, Stable, Told, [Next]_vars
    PROVE  Told'
<1> USE DEF EInv
<1>1. ASSUME NEW t \in Tasks, t \in workErr'
      PROVE  run'[t] \notin {"none", "body"}
  <2>1. CASE UNCHANGED run[t] /\ (t \in workErr' => t \in workErr)
    BY <1>1, <2>1 DEF Told
  <2>2. CASE Starts(t) /\ UNCHANGED workErr
    BY <1>1, <2>2 DEF Told, Starts, AwaitingStart, IInv, Begun
  <2>3. CASE \/ Returns(t) \/ Panics(t) \/ Observe(t) \/ ResolveObserved(t)
             \/ FailFollowers(t) \/ FinishClaimed(t)
    BY <2>3 DEF Returns, Panics, Observe, ResolveObserved, FailFollowers,
        FinishClaimed, IInv, TypeOK, RunTypes
  <2> QED
    BY <2>1, <2>2, <2>3, RunMoves
<1>2. ASSUME NEW t \in Tasks, run'[t] \in {"followers", "tail", "done"}
      PROVE  IsTerminal(t)'
  <2>1. CASE IsTerminal(t)
    BY <2>1 DEF Stable, IsTerminal
  <2>2. CASE Panics(t) \/ ResolveObserved(t)
    <3>1. t \in Going
      BY <2>2 DEF Panics, ResolveObserved, Active, Going
    <3>2. \E s \in Terminal : ScheduledResolve(t, s)
      BY <2>2 DEF Panics, ResolveObserved, Terminal, Failing, Succeeding
    <3> QED
      BY <3>1, <3>2, VerdictGiven DEF IsTerminal
  <2>3. CASE UNCHANGED run[t]
    BY <1>2, <2>1, <2>3 DEF Told
  <2>4. CASE Starts(t) \/ Returns(t)
    BY <1>2, <2>4 DEF Starts, Claim, Returns, IInv, TypeOK, RunTypes
  <2>5. CASE Observe(t) \/ FailFollowers(t) \/ FinishClaimed(t)
    BY <1>2, <2>1, <2>5 DEF Observe, FailFollowers, FinishClaimed, Told, IInv,
        TypeOK, RunTypes
  <2> QED
    BY <2>2, <2>3, <2>4, <2>5, RunMoves
<1>3. ASSUME NEW t \in Tasks, phase'[t] = "Abandoned"
      PROVE  Closed(t)'
  <2>1. CASE phase[t] = "Abandoned"
    BY <2>1 DEF Told, Stable, Closed, IsTerminal
  <2>2. CASE phase[t] # "Abandoned"
    <3>1. ~ Define(t)
      BY <1>3 DEF Define, IInv, TypeOK, SettleTypes
    <3> QED
      BY <1>3, <2>2, <3>1, PhaseMoves
      DEF Closed, IsTerminal, Starts, Claim, IInv, TypeOK, SettleTypes
  <2> QED
    BY <2>1, <2>2
<1> QED
    BY <1>1, <1>2, <1>3 DEF Told

\* A green row keeps what earned it.
LEMMA StaysGreen ==
    ASSUME EInv, Told, GreenRowsEarned, [Next]_vars, NEW t \in Tasks,
           state[t] \in Succeeding, state'[t] \in Succeeding
    PROVE  /\ t \notin problem' \cup workErr'
           /\ Submitted(t)' => run'[t] \in {"tail", "done"}
<1> USE DEF EInv
<1>1. IsTerminal(t)
    BY DEF IsTerminal, Terminal
<1>2. t \notin problem'
    BY <1>1, ProblemMoves DEF GreenRowsEarned
<1>3. Submitted(t)' => Submitted(t)
  <2>1. ~ Define(t)
    BY <1>1 DEF Define
  <2> QED
    BY <1>1, <2>1, PhaseMoves DEF Submitted, Starts, AwaitingStart
<1>4. t \notin workErr /\ (run[t] # "none" => run[t] \in {"tail", "done"})
    BY DEF GreenRowsEarned, Submitted, IInv, Begun, TypeOK, RunTypes
<1>5. CASE UNCHANGED run[t] /\ (t \in workErr' => t \in workErr)
    BY <1>2, <1>3, <1>4, <1>5 DEF GreenRowsEarned
<1>6. ~ Starts(t)
    BY <1>1 DEF Starts, AwaitingStart
<1>7. ~ (\/ Returns(t) \/ Panics(t) \/ Observe(t)
         \/ ResolveObserved(t) \/ FailFollowers(t))
    BY <1>4 DEF Returns, Panics, Active, Observe, ResolveObserved, FailFollowers
<1>8. CASE FinishClaimed(t)
    BY <1>2, <1>4, <1>8 DEF FinishClaimed, workVars, IInv, TypeOK, RunTypes
<1> QED
    BY <1>5, <1>6, <1>7, <1>8, RunMoves

\* A row turns green over nothing that speaks against it.
LEMMA TurnsGreen ==
    ASSUME EInv, Told, [Next]_vars, NEW t \in Tasks,
           state[t] \notin Succeeding, state'[t] \in Succeeding
    PROVE  /\ t \notin problem' \cup workErr'
           /\ Submitted(t)' => run'[t] \in {"tail", "done"}
<1> USE DEF EInv
<1>1. ASSUME NEW s \in Terminal, Settle({t}, s, todo')
      PROVE  /\ s \in Succeeding /\ t \notin problem
             /\ Submitted(t)' => phase[t] = "Running"
    BY <1>1 DEF Settle, Honest, Submitted, Abandoned, Succeeding
<1>2. ASSUME phase[t] = "Declared" \/ phase[t] = "Abandoned"
      PROVE  t \notin workErr
    BY <1>2 DEF Told, IInv, Begun
<1>3. ASSUME NEW s \in Terminal, ResolveTo(t, s)
      PROVE  Settle({t}, s, todo')
    BY <1>3 DEF ResolveTo, Settle
<1>4. ASSUME NEW s \in Terminal, ResolvedBy(t, s), CallerResolve(t, s),
             s # "Done"
      PROVE  /\ t \notin problem' \cup workErr'
             /\ ~ Submitted(t)'
  <2>1. s = "Skipped" /\ t \notin problem
    BY <1>1, <1>3, <1>4 DEF ResolvedBy, Succeeding
  <2>2. ~ Submitted(t)
    BY <1>4, <2>1 DEF CallerResolve, ResolvedBy, settleVars
  <2>3. t \notin problem' /\ UNCHANGED workErr
    BY <1>4, <2>1, <2>2 DEF CallerResolve, rowVars
  <2>4. phase[t] = "Declared" \/ phase[t] = "Abandoned"
    BY <2>2 DEF Submitted, IInv, TypeOK, SettleTypes, Phases
  <2>5. ~ Submitted(t)'
    BY <1>1, <1>3, <1>4, <2>2 DEF ResolvedBy, Submitted
  <2> QED
    BY <1>2, <2>3, <2>4, <2>5
<1>5. ASSUME ResolveObserved(t), NEW s \in Terminal, ResolvedBy(t, s)
      PROVE  /\ t \notin problem' \cup workErr'
             /\ run'[t] = "tail"
  <2>1. t \notin workErr
    BY <1>5
    DEF ResolveObserved, ScheduledResolve, ResolvedBy, ResolveTo, Settle,
        Honest, Succeeding
  <2>2. t \notin problem
    BY <1>1, <1>3, <1>5 DEF ResolvedBy
  <2>3. t \notin problem'
    BY <1>5, <2>1, <2>2
    DEF ResolveObserved, ScheduledResolve, ResolvedBy, rowVars
  <2> QED
    BY <1>5, <2>1, <2>3 DEF ResolveObserved, IInv, TypeOK, RunTypes
<1>6. CASE SweepTask /\ t = NextUnresolved
  <2>1. Held = {} /\ Going = {}
    BY <1>6, NothingLeft DEF SweepTask, Closing, Ended
  <2>2. ~ Closed(t)
    BY <1>6, NextUnresolvedIsOpen DEF SweepTask, Unresolved, IInv, TypeOK
  <2>3. phase[t] = "Declared"
    BY <2>1, <2>2
    DEF Held, Going, Told, Closed, IInv, Begun, TypeOK, SettleTypes, RunTypes,
        Phases, Runs
  <2>4. t \notin problem /\ ~ Submitted(t)'
    BY <1>6, <2>3
    DEF SweepTask, Settle, Honest, Abandoned, Submitted, Succeeding
  <2>5. UNCHANGED <<problem, workErr>>
    BY <1>6 DEF SweepTask, rowVars, runVars, workVars
  <2> QED
    BY <1>2, <2>3, <2>4, <2>5
<1>7. \/ \E s \in Terminal : ResolvedBy(t, s)
      \/ SweepTask /\ t = NextUnresolved
    BY StateMoves DEF Succeeding
<1>8. ASSUME NEW s \in Terminal, ResolvedBy(t, s)
      PROVE  \/ CallerResolve(t, s) /\ s # "Done"
             \/ ResolveObserved(t)
    BY <1>1, <1>3, <1>8 DEF ResolvedBy, Succeeding
<1> QED
    BY <1>4, <1>5, <1>6, <1>7, <1>8

\* Nothing is green in a new Output.
LEMMA InitGInv == Init => GInv
BY DEF Init, GInv, Told, GreenRowsEarned, IsTerminal, Terminal, Succeeding,
    Failing

\* When the program joins its goroutines, a green row has no Problem, no failed
\* callback, and no callback still running: resolveScheduled and honestOutcome
\* leave no path around the evidence rule.
THEOREM GreenIsEarned ==
    ASSUME Joined
    PROVE  Spec => []GreenRowsEarned
<1>1. EInv /\ GInv /\ [Next]_vars => GInv'
  <2> SUFFICES ASSUME EInv, GInv, [Next]_vars PROVE GInv'
    OBVIOUS
  <2>1. Told'
    BY StableStep, ToldStep DEF EInv, IInv, GInv
  <2>2. GreenRowsEarned'
    BY StaysGreen, TurnsGreen DEF GInv, GreenRowsEarned
  <2> QED
    BY <2>1, <2>2 DEF GInv
<1>2. GInv => GreenRowsEarned
    BY DEF GInv
<1> QED
    BY <1>1, <1>2, InitGInv, EInvInvariant, PTL DEF Spec

-----------------------------------------------------------------------------
\* A Sequence stops after a failed step, and marks its followers in the same
\* critical section.
LEMMA StoppedMoves ==
    ASSUME [Next]_vars, stoppedAfter' # stoppedAfter
    PROVE  \E t \in Tasks : /\ StopsFollowers(t) /\ stoppedAfter' = t
                            /\ Stops(Followers(t)) \subseteq todo'
                            /\ UNCHANGED declared
<1> DEFINE Goal == \E t \in Tasks : /\ StopsFollowers(t) /\ stoppedAfter' = t
                                    /\ Stops(Followers(t)) \subseteq todo'
                                    /\ UNCHANGED declared
<1>1. ASSUME NEW t, NEW s, ResolveTo(t, s), UNCHANGED declared
      PROVE  Goal
  <2>1. StopsFollowers(t) => t \in Tasks
    BY SchedulerAssumption DEF StopsFollowers
  <2> QED
    BY <1>1, <2>1 DEF ResolveTo, Settle, NextStoppedAfter
<1>2. ASSUME NEW t \in Tasks, NEW s \in Terminal, CallerResolve(t, s)
      PROVE  Goal
    BY <1>1, <1>2 DEF CallerResolve, rowVars
<1>3. ASSUME NEW t \in Tasks, Panics(t) \/ ResolveObserved(t)
      PROVE  Goal
    BY <1>1, <1>3 DEF Panics, ResolveObserved, ScheduledResolve, rowVars
<1>4. ASSUME NEW t \in Tasks, FailFollowers(t)
      PROVE  Goal
    BY <1>4 DEF FailFollowers, NextStoppedAfter
<1>5. CASE CancelNext
    BY <1>1, <1>5 DEF CancelNext, rowVars
<1>6. ASSUME NEW t \in Tasks,
             \/ Problem(t) \/ Doing(t) \/ Define(t)
             \/ \E p \in Tasks : After(t, p)
             \/ \E w \in Waiters : WaitBegin(w, t)
             \/ WakeTask(t) \/ PlaceTask(t) \/ StopTask(t)
             \/ Returns(t) \/ Observe(t) \/ FinishClaimed(t)
      PROVE  UNCHANGED stoppedAfter
    BY <1>6 DEF Problem, Doing, Define, After, WaitBegin, WakeTask, PlaceTask,
        StopTask, Returns, Observe, FinishClaimed, rowVars
<1>7. ASSUME NEW w \in Waiters, WaitStep(w)
      PROVE  UNCHANGED stoppedAfter
    BY <1>7 DEF WaitStep, ClaimAwaited, HostTask, Claim, CheckStalled, ClaimAny,
        Park, EndWait, AbortWait, ReportWait, rowVars
<1>8. ~ (\/ DeclareTask \/ Kick \/ Interrupt \/ FinishBegin \/ CancelActive
         \/ AbandonQueued \/ Drained \/ SweepBegin \/ SweepTask \/ SweepEnd
         \/ Over \/ UNCHANGED vars)
    BY DEF DeclareTask, Kick, TakeEligible, Claim, EndKick, BlockCycles,
        ReleaseWaits, Interrupt, FinishBegin, CancelActive, AbandonQueued,
        Drained, SweepBegin, SweepTask, SweepEnd, Over, vars, rowVars
<1>9. CASE Program
    BY <1>2, <1>6, <1>8, <1>9 DEF Program
<1>10. CASE \E t \in Tasks : TaskStep(t) \/ Returns(t) \/ Panics(t)
    BY <1>3, <1>4, <1>6, <1>10 DEF TaskStep
<1>11. CASE \E w \in Waiters : WaitStep(w)
    BY <1>7, <1>11
<1> QED
    BY <1>5, <1>8, <1>9, <1>10, <1>11 DEF Next, Runtime, Ending

\* A Sequence knows its first failure, and every later step runs, is over or
\* is marked.
Stopping ==
    /\ \A t \in Steps \cap Declared :
            phase[t] = "Running" /\ state[t] \in Failing =>
                stoppedAfter # 0 /\ stoppedAfter <= t
    /\ stoppedAfter # 0 =>
            \A u \in Steps \cap Declared : stoppedAfter < u =>
                phase[u] = "Running" \/ IsTerminal(u) \/ <<"stop", u>> \in todo

\* A step of a Sequence that ran and failed stopped the Sequence, whichever of
\* its callback, a verb, a panic or the interrupt settled it.
LEMMA FailureKnown ==
    ASSUME EInv, Told, OInv, Stable, Stopping, [Next]_vars,
           NEW t \in Tasks, t \in Steps \cap Declared',
           phase'[t] = "Running", state'[t] \in Failing
    PROVE  stoppedAfter' # 0 /\ stoppedAfter' <= t
<1> USE DEF EInv
<1>1. ~ Starts(t)
    BY DEF Starts, AwaitingStart, Claim, IsTerminal, Terminal, Failing, IInv,
        TypeOK, SettleTypes
<1>2. phase[t] = "Running"
  <2>1. ~ Define(t)
    BY DEF Define, IInv, TypeOK, SettleTypes
  <2> QED
    BY <1>1, <2>1, PhaseMoves
<1>3. t \in Declared
    BY <1>2, SchedulerAssumption
    DEF OInv, Remembered, Declared, Tasks, IInv, TypeOK, RowTypes
<1>4. CASE state[t] \in Failing
  <2>1. stoppedAfter # 0 /\ stoppedAfter <= t
    BY <1>2, <1>3, <1>4 DEF Stopping
  <2>2. CASE stoppedAfter' # stoppedAfter
    <3>1. PICK u \in Tasks : StopsFollowers(u) /\ stoppedAfter' = u
      BY <2>2, StoppedMoves
    <3> QED
      BY <2>1, <3>1, SchedulerAssumption
      DEF StopsFollowers, Tasks, IInv, TypeOK, RowTypes
  <2> QED
    BY <2>1, <2>2
<1>5. CASE state[t] \notin Failing
  <2>1. CASE SweepTask /\ t = NextUnresolved
    <3>1. Going = {}
      BY <2>1, NothingLeft DEF SweepTask, Closing, Ended
    <3>2. ~ IsTerminal(t)
      BY <2>1, NextUnresolvedIsOpen
      DEF SweepTask, Unresolved, Closed, IInv, TypeOK
    <3> QED
      BY <1>2, <3>1, <3>2 DEF Going, Told, IInv, Begun
  <2>2. ASSUME NEW s \in Terminal, ResolvedBy(t, s)
        PROVE  stoppedAfter' # 0 /\ stoppedAfter' <= t
    <3>1. ResolveTo(t, s) /\ Submitted(t)
      BY <1>2, <2>2 DEF ResolvedBy, Submitted
    <3>2. Honest(t, s) \in Failing
      BY <3>1 DEF ResolveTo, Settle
    <3>3. stoppedAfter' = NextStoppedAfter(t)
      BY <3>1, <3>2 DEF ResolveTo
    <3> QED
      BY <3>3, SchedulerAssumption
      DEF NextStoppedAfter, StopsFollowers, Tasks, IInv, TypeOK, RowTypes
  <2> QED
    BY <1>2, <1>5, <2>1, <2>2, StateMoves DEF Failing
<1> QED
    BY <1>4, <1>5

\* Every step declared after the failed one runs, is settled, or is settled
\* before o.mu is released, the ones declared later included.
LEMMA FollowerMarked ==
    ASSUME EInv, Stable, Stopping, [Next]_vars,
           NEW u \in Tasks, u \in Steps \cap Declared', stoppedAfter' # 0,
           stoppedAfter' < u
    PROVE  \/ phase'[u] = "Running" \/ state'[u] \in Terminal
           \/ <<"stop", u>> \in todo'
<1> USE DEF EInv
<1>1. CASE stoppedAfter' # stoppedAfter
  <2>1. PICK t \in Tasks : /\ StopsFollowers(t) /\ stoppedAfter' = t
                           /\ Stops(Followers(t)) \subseteq todo'
                           /\ UNCHANGED declared
    BY <1>1, StoppedMoves
  <2>2. u \in Followers(t)
    BY <2>1 DEF Followers, Declared
  <2> QED
    BY <2>1, <2>2 DEF Stops
<1>2. CASE UNCHANGED stoppedAfter /\ u \in Declared
  <2>1. CASE phase[u] = "Running"
    <3>1. ~ Define(u)
      BY <2>1 DEF Define, Submitted
    <3> QED
      BY <2>1, <3>1, PhaseMoves DEF Starts, AwaitingStart
  <2>2. CASE IsTerminal(u)
    BY <2>2 DEF Stable, IsTerminal
  <2>3. CASE <<"stop", u>> \in todo
    BY <2>3, StopsPending
  <2> QED
    BY <1>2, <2>1, <2>2, <2>3 DEF Stopping
<1>3. CASE UNCHANGED stoppedAfter /\ u \notin Declared
  <2>1. DeclareTask
    BY <1>3, DeclaredMoves DEF Declared
  <2>2. u = declared + 1
    BY <1>3, <2>1 DEF DeclareTask, Declared, Tasks, IInv, TypeOK, RowTypes
  <2> QED
    BY <1>3, <2>1, <2>2 DEF DeclareTask, Stops
<1> QED
    BY <1>1, <1>2, <1>3

\* When the program joins its goroutines, nobody who sees the failure of a step
\* that ran sees a follower pending.
THEOREM FollowersStop ==
    ASSUME Joined
    PROVE  Spec => []FollowersStopped
<1>1. Init => OInv /\ GInv /\ Stopping
    BY InitOInv, InitGInv DEF Init, Stopping, Declared
<1>2. EInv /\ OInv /\ GInv /\ Stopping /\ EInv' /\ [Next]_vars
        => OInv' /\ GInv' /\ Stopping'
  <2> SUFFICES ASSUME EInv, EInv', OInv, GInv, Stopping, [Next]_vars
               PROVE  OInv' /\ GInv' /\ Stopping'
    OBVIOUS
  <2>1. Stable
    BY StableStep DEF EInv, IInv
  <2>2. OInv'
    BY <2>1, OrderStep DEF EInv, IInv
  <2>3. Told' /\ GreenRowsEarned'
    BY <2>1, ToldStep, StaysGreen, TurnsGreen DEF GInv, GreenRowsEarned
  <2>4. Steps \subseteq Tasks
    BY SchedulerAssumption
  <2>5. \A t \in Steps \cap Declared' :
            phase'[t] = "Running" /\ state'[t] \in Failing =>
                stoppedAfter' # 0 /\ stoppedAfter' <= t
    BY <2>1, <2>4, FailureKnown DEF GInv
  <2>6. stoppedAfter' # 0 =>
            \A u \in Steps \cap Declared' : stoppedAfter' < u =>
                \/ phase'[u] = "Running" \/ state'[u] \in Terminal
                \/ <<"stop", u>> \in todo'
    BY <2>1, <2>4, FollowerMarked
  <2> QED
    BY <2>2, <2>3, <2>5, <2>6 DEF GInv, Stopping, IsTerminal
<1>3. EInv /\ Stopping => FollowersStopped
  <2> SUFFICES ASSUME EInv, Stopping, Unlocked,
                      NEW t \in Steps \cap Declared,
                      phase[t] = "Running", state[t] \in Failing,
                      NEW u \in Steps \cap Declared, t < u
               PROVE  phase[u] = "Running" \/ IsTerminal(u)
    BY DEF FollowersStopped
  <2>1. stoppedAfter # 0 /\ stoppedAfter < u
    BY SchedulerAssumption DEF Stopping, Tasks, EInv, IInv, TypeOK, RowTypes
  <2> QED
    BY <2>1 DEF Stopping, Unlocked
<1> QED
    BY <1>1, <1>2, <1>3, EInvInvariant, PTL DEF Spec

-----------------------------------------------------------------------------
\* Why no stall strands a Task, of whatever program: what the interrupt and
\* Finish leave behind, what each unstarted Task waits for, and what
\* sealAwaitedInputs sealed.

\* Only interrupt and Finish move what they announce.
LEMMA EndMoves ==
    ASSUME [Next]_vars,
           ~ (\/ Interrupt \/ CancelActive \/ AbandonQueued \/ FinishBegin
              \/ Drained \/ SweepBegin \/ SweepEnd)
    PROVE  UNCHANGED <<cancelled, interrupt, draining, finish>>
<1> DEFINE Goal == UNCHANGED <<cancelled, interrupt, draining, finish>>
<1>1. ASSUME NEW t \in Tasks,
             \/ Problem(t) \/ Doing(t) \/ Define(t)
             \/ \E p \in Tasks : After(t, p)
             \/ \E s \in Terminal : CallerResolve(t, s)
      PROVE  Goal
    BY <1>1
    DEF Problem, Doing, Define, After, CallerResolve, endVars, stopVars,
        finishVars
<1>2. ASSUME NEW t \in Tasks, TaskStep(t) \/ Returns(t) \/ Panics(t)
      PROVE  Goal
    BY <1>2
    DEF TaskStep, WakeTask, PlaceTask, StopTask, Observe, ResolveObserved,
        FailFollowers, FinishClaimed, Returns, Panics, endVars, stopVars,
        finishVars
<1>3. ASSUME NEW w \in Waiters, WaitStep(w) \/ \E t \in Tasks : WaitBegin(w, t)
      PROVE  Goal
    BY <1>3 DEF WaitStep, ClaimAwaited, CheckStalled, ClaimAny, Park, EndWait,
        AbortWait, ReportWait, WaitBegin, endVars, stopVars, finishVars
<1>4. CASE \/ DeclareTask \/ Kick \/ CancelNext \/ SweepTask \/ Over
           \/ UNCHANGED vars
    BY <1>4
    DEF DeclareTask, Kick, TakeEligible, EndKick, BlockCycles, ReleaseWaits,
        CancelNext, SweepTask, Over, vars, endVars, stopVars, finishVars
<1>5. CASE Program
    BY <1>1, <1>3, <1>4, <1>5 DEF Program
<1> QED
    BY <1>2, <1>3, <1>4, <1>5 DEF Next, Runtime, Ending

\* What they announce: a drain begins with Finish and after any interrupt, and
\* an interrupt that is through has stopped whatever had not started.
Staged ==
    /\ draining <=> finish # "open"
    /\ draining => interrupt \in {"idle", "done"}
    /\ cancelled <=> interrupt # "idle"
    /\ interrupt = "done" =>
            \A t \in Tasks : AwaitingStart(t) => <<"stop", t>> \in todo

\* A Task awaits its start only after its Define.
LEMMA AwaitingBefore ==
    ASSUME IInv, Stable, [Next]_vars, NEW t \in Tasks, AwaitingStart(t)'
    PROVE  AwaitingStart(t) \/ Define(t)
<1>1. ~ IsTerminal(t)
    BY DEF Stable, AwaitingStart, IsTerminal
<1>2. CASE phase'[t] = phase[t]
    BY <1>1, <1>2 DEF AwaitingStart
<1>3. ~ Starts(t) \/ AwaitingStart(t)
    BY DEF Starts
<1> QED
    BY <1>1, <1>2, <1>3, PhaseMoves DEF AwaitingStart

\* Every step keeps Staged: work Defined after an interrupt is stopped in the
\* same critical section.
LEMMA StagedStep ==
    ASSUME IInv, OInv, Stable, Staged, [Next]_vars
    PROVE  Staged'
<1> DEFINE Ends == \/ Interrupt \/ CancelActive \/ AbandonQueued \/ FinishBegin
                   \/ Drained \/ SweepBegin \/ SweepEnd
<1>1. /\ draining' <=> finish' # "open"
      /\ draining' => interrupt' \in {"idle", "done"}
      /\ cancelled' <=> interrupt' # "idle"
  <2>1. CASE Ends
    BY <2>1
    DEF Staged, Interrupt, CancelActive, AbandonQueued, FinishBegin, Drained,
        SweepBegin, SweepEnd, stopVars, finishVars
  <2> QED
    BY <2>1, EndMoves DEF Staged
<1>2. ASSUME interrupt' = "done", NEW t \in Tasks, AwaitingStart(t)'
      PROVE  <<"stop", t>> \in todo'
  <2>1. CASE AbandonQueued
    <3>1. phase[t] # "Declared"
      BY <1>2, <2>1 DEF AbandonQueued, AwaitingStart
    <3>2. t \in Declared
      BY <3>1, SchedulerAssumption
      DEF OInv, Remembered, Declared, Tasks, IInv, TypeOK, RowTypes
    <3> QED
      BY <2>1, <3>2 DEF AbandonQueued, Stops
  <2>2. CASE ~ AbandonQueued
    <3>1. interrupt = "done" /\ cancelled
      BY <1>2, <2>2, EndMoves
      DEF Staged, Interrupt, CancelActive, FinishBegin, Drained, SweepBegin,
          SweepEnd, stopVars
    <3>2. CASE Define(t)
      BY <3>1, <3>2 DEF Define, Stops
    <3>3. CASE AwaitingStart(t)
      BY <1>2, <3>1, <3>3, StopsPending DEF Staged, AwaitingStart, IsTerminal
    <3> QED
      BY <1>2, <3>2, <3>3, AwaitingBefore
  <2> QED
    BY <2>1, <2>2
<1> QED
    BY <1>1, <1>2 DEF Staged

\* What Finish leaves behind, whether or not the program joined its goroutines.
Swept ==
    /\ \A t \in Tasks :
        /\ run[t] \in {"followers", "tail", "done"} =>
                IsTerminal(t) \/ finish \in {"sweeping", "finished"}
        /\ phase[t] = "Abandoned" => Closed(t)
        /\ state[t] = "Incomplete" =>
                /\ finish \in {"sweeping", "finished"}
                /\ ~ (phase[t] \in {"Queued", "Parked"})
    /\ finish = "finished" => \A t \in Declared : Closed(t)

\* Every step keeps it: a verdict that comes too late for the row finds the
\* Output closed.
LEMMA SweptStep ==
    ASSUME IInv, Stable, Forward, Swept, [Next]_vars
    PROVE  Swept'
<1> DEFINE Late == finish \in {"sweeping", "finished"}
<1>1. Late => Late'
    BY FinishMoves DEF FinishBegin, Drained, SweepBegin, SweepEnd
<1>2. ASSUME NEW t \in Tasks, run'[t] \in {"followers", "tail", "done"}
      PROVE  IsTerminal(t)' \/ Late'
  <2>1. CASE IsTerminal(t) \/ Late
    BY <1>1, <2>1 DEF Stable, IsTerminal
  <2>2. CASE Panics(t) \/ ResolveObserved(t)
    <3>1. PICK s \in Terminal : ScheduledResolve(t, s)
      BY <2>2 DEF Panics, ResolveObserved, Terminal, Failing, Succeeding
    <3>2. CASE Resolvable(t)
      <4>1. \E work : Settle({t}, s, work)
        BY <3>1, <3>2 DEF ScheduledResolve, ResolveTo
      <4> QED
        BY <4>1 DEF Settle, Honest, IsTerminal, Terminal, Failing
    <3>3. CASE ~ Resolvable(t)
      BY <2>1, <3>3
      DEF Resolvable, Open, IInv, TypeOK, EndTypes
    <3> QED
      BY <3>2, <3>3
  <2>3. CASE UNCHANGED run[t]
    BY <1>2, <2>1, <2>3 DEF Swept
  <2>4. CASE Starts(t) \/ Returns(t)
    BY <1>2, <2>4 DEF Starts, Claim, Returns, IInv, TypeOK, RunTypes
  <2>5. CASE Observe(t) \/ FailFollowers(t) \/ FinishClaimed(t)
    BY <1>2, <2>1, <2>5 DEF Observe, FailFollowers, FinishClaimed, Swept, IInv,
        TypeOK, RunTypes
  <2> QED
    BY <2>2, <2>3, <2>4, <2>5, RunMoves
<1>3. ASSUME NEW t \in Tasks, phase'[t] = "Abandoned"
      PROVE  Closed(t)'
  <2>1. CASE phase[t] = "Abandoned"
    BY <2>1 DEF Swept, Stable, Closed, IsTerminal
  <2>2. CASE phase[t] # "Abandoned"
    <3>1. ~ Define(t)
      BY <1>3 DEF Define, IInv, TypeOK, SettleTypes
    <3> QED
      BY <1>3, <2>2, <3>1, PhaseMoves
      DEF Closed, IsTerminal, Starts, Claim, IInv, TypeOK, SettleTypes
  <2> QED
    BY <2>1, <2>2
<1>4. ASSUME NEW t \in Tasks, state'[t] = "Incomplete"
      PROVE  Late' /\ ~ (phase'[t] \in {"Queued", "Parked"})
  <2>1. CASE SweepTask
    <3>1. CASE state[t] = "Incomplete"
      BY <1>1, <2>1, <3>1 DEF SweepTask, Settle, Swept
    <3>2. CASE state[t] # "Incomplete"
      BY <1>1, <1>4, <2>1, <3>2 DEF SweepTask, Settle, Abandoned
    <3> QED
      BY <3>1, <3>2
  <2>2. CASE state[t] = "Incomplete"
    <3>1. Late /\ ~ (phase[t] \in {"Queued", "Parked"})
      BY <2>2 DEF Swept
    <3>2. ~ Define(t)
      BY <3>1 DEF Define, Open
    <3> QED
      BY <1>1, <3>1, <3>2, PhaseMoves DEF Starts, AwaitingStart
  <2> QED
    BY <1>4, <2>1, <2>2 DEF Forward
<1>5. ASSUME finish' = "finished"
      PROVE  \A t \in Declared' : Closed(t)'
  <2>1. CASE finish = "finished"
    <3>1. Declared' = Declared
      BY <2>1, DeclaredMoves DEF DeclareTask, Open, Declared
    <3> QED
      BY <2>1, <3>1, DeclaredAreTasks
      DEF Swept, Closed, IsTerminal, Stable, IInv, TypeOK
  <2>2. CASE finish # "finished"
    <3>1. SweepEnd
      BY <1>5, <2>2, FinishMoves DEF FinishBegin, Drained, SweepBegin
    <3> QED
      BY <3>1
      DEF SweepEnd, Unresolved, Closed, IsTerminal, Declared, settleVars,
          rowVars
  <2> QED
    BY <2>1, <2>2
<1> QED
    BY <1>2, <1>3, <1>4, <1>5 DEF Swept

-----------------------------------------------------------------------------
\* This critical section has still to place or stop t.
Owed(t) ==
    \/ <<"place", t>> \in todo \/ <<"stop", t>> \in todo
    \/ phase[t] = "Parked" /\ <<"wake", t>> \in todo

\* t is in the queue, or on the dependents list of a Task it waits for, or
\* about to be placed or stopped.
Lined(t) ==
    \/ phase[t] = "Queued" /\ preds[t] = {}
    \/ phase[t] = "Parked" /\ parkedOn[t] \in Blockers(t)
    \/ Owed(t)
InLine == \A t \in Tasks : AwaitingStart(t) => Lined(t)

\* A Task in line stays so while what holds it back is still pending.
LEMMA StaysLined ==
    ASSUME TypeOK, InLine, UNCHANGED draining,
           NEW t \in Tasks, AwaitingStart(t),
           UNCHANGED <<phase[t], preds[t], parkedOn[t]>>,
           Owed(t) => Owed(t)',
           parkedOn[t] \in Tasks =>
                /\ IsTerminal(parkedOn[t])' => IsTerminal(parkedOn[t])
                /\ NeverDefined(parkedOn[t])' => NeverDefined(parkedOn[t])
    PROVE  Lined(t)'
<1>1. CASE phase[t] = "Queued" /\ preds[t] = {}
    BY <1>1 DEF Lined
<1>2. CASE phase[t] = "Parked" /\ parkedOn[t] \in Blockers(t)
  <2> DEFINE b == parkedOn[t]
  <2>1. b \in preds[t] /\ Outcome(b) = "pending" /\ b \in Tasks
    BY <1>2 DEF Blockers, TypeOK, RowTypes
  <2>2. ~ IsTerminal(b) /\ ~ (draining /\ NeverDefined(b))
    BY <2>1 DEF Outcome, IsTerminal, Terminal
  <2>3. ~ IsTerminal(b)' /\ ~ (draining' /\ NeverDefined(b)')
    BY <2>1, <2>2
  <2>4. Outcome(b)' = "pending"
    BY <2>3 DEF Outcome, IsTerminal, Terminal
  <2> QED
    BY <1>2, <2>1, <2>4 DEF Lined, Blockers
<1>3. CASE Owed(t)
    BY <1>3 DEF Lined
<1> QED
    BY <1>1, <1>2, <1>3 DEF InLine, Lined

\* settleLocked wakes whoever waits for what it settles.
LEMMA SettleLined ==
    ASSUME TypeOK, InLine, UNCHANGED <<preds, draining>>,
           NEW S, S \subseteq Tasks, NEW s \in Terminal \cup {"Incomplete"},
           NEW work, Settle(S, s, work),
           \A t \in Tasks \ S : Owed(t) =>
                {"wake", "place", "stop"} \X {t} \cap todo \subseteq work
    PROVE  InLine'
<1> SUFFICES ASSUME NEW t \in Tasks, AwaitingStart(t)' PROVE Lined(t)'
    BY DEF InLine
<1>1. t \notin S
    BY DEF Settle, AwaitingStart, Abandoned, TypeOK, SettleTypes
<1>2. UNCHANGED <<phase[t], state[t], preds[t]>>
    BY <1>1 DEF Settle, Abandoned
<1>3. AwaitingStart(t)
    BY <1>2 DEF AwaitingStart, IsTerminal
<1>4. CASE t \in Dependents(S)
    BY <1>1, <1>2, <1>4 DEF Settle, Wakes, Dependents, Lined, Owed
<1>5. CASE phase[t] = "Parked" /\ parkedOn[t] \notin S
  <2>1. UNCHANGED parkedOn[t]
    BY <1>1, <1>5 DEF Settle, Dependents
  <2>2. Owed(t) => Owed(t)'
    BY <1>1, <1>2 DEF Owed, Settle
  <2>3. parkedOn[t] \in Tasks =>
            UNCHANGED <<state[parkedOn[t]], phase[parkedOn[t]]>>
    BY <1>5, <2>1 DEF Settle, Abandoned
  <2>4. parkedOn[t] \in Tasks =>
            /\ IsTerminal(parkedOn[t])' => IsTerminal(parkedOn[t])
            /\ NeverDefined(parkedOn[t])' => NeverDefined(parkedOn[t])
    BY <2>1, <2>3 DEF IsTerminal, NeverDefined
  <2> QED
    BY <1>2, <1>3, <2>1, <2>2, <2>4, StaysLined
<1>6. CASE phase[t] # "Parked"
  <2>1. Owed(t) => Owed(t)'
    BY <1>1, <1>2 DEF Owed, Settle
  <2> QED
    BY <1>2, <1>3, <1>6, <2>1 DEF InLine, Lined
<1> QED
    BY <1>4, <1>5, <1>6 DEF Dependents

\* placeLocked queues t, parks it behind a Task it waits for, or settles it.
LEMMA PlaceLined ==
    ASSUME TypeOK, InLine, UNCHANGED draining,
           NEW t \in Tasks, AwaitingStart(t), NEW scan, NEW item,
           NEW k \in {"wake", "place", "stop"}, item = <<k, t>>,
           Place(t, scan, todo \ {item})
    PROVE  InLine'
<1>1. CASE Settle({t}, "NotStarted", todo \ {item}) /\ UNCHANGED preds
  <2>1. \A u \in Tasks \ {t} :
            {"wake", "place", "stop"} \X {u} \cap todo \subseteq todo \ {item}
    OBVIOUS
  <2> QED
    BY <1>1, <2>1, SettleLined DEF Terminal, Failing
<1>2. ASSUME NEW p \in {"Queued", "Parked"}, phase' = [phase EXCEPT ![t] = p],
             NEW b, parkedOn' = [parkedOn EXCEPT ![t] = b],
             NEW Q, preds' = [preds EXCEPT ![t] = Q],
             todo' = todo \ {item}, UNCHANGED state,
             Lined(t)'
      PROVE  InLine'
  <2> SUFFICES ASSUME NEW u \in Tasks, u # t, AwaitingStart(u)'
               PROVE  Lined(u)'
    BY <1>2 DEF InLine
  <2>1. UNCHANGED <<phase[u], parkedOn[u], preds[u]>> /\ AwaitingStart(u)
    BY <1>2 DEF TypeOK, SettleTypes, RowTypes, AwaitingStart, IsTerminal
  <2>2. Owed(u) => Owed(u)'
    BY <1>2, <2>1 DEF Owed
  <2>3. \A v \in Tasks : /\ IsTerminal(v)' => IsTerminal(v)
                         /\ NeverDefined(v)' => NeverDefined(v)
    BY <1>2 DEF IsTerminal, NeverDefined, TypeOK, SettleTypes
  <2> QED
    BY <2>1, <2>2, <2>3, StaysLined
<1>3. CASE /\ phase' = [phase EXCEPT ![t] = "Queued"]
           /\ preds' = [preds EXCEPT ![t] = {}]
           /\ parkedOn' = [parkedOn EXCEPT ![t] = NoTask]
           /\ todo' = todo \ {item}
           /\ UNCHANGED state
  <2>1. Lined(t)'
    BY <1>3 DEF Lined, TypeOK, SettleTypes, RowTypes
  <2> QED
    BY <1>2, <1>3, <2>1
<1>4. ASSUME NEW b \in Blockers(t),
             /\ phase' = [phase EXCEPT ![t] = "Parked"]
             /\ preds' = [preds EXCEPT ![t] = @ \ Forgotten(t)]
             /\ parkedOn' = [parkedOn EXCEPT ![t] = b]
             /\ todo' = todo \ {item}
             /\ UNCHANGED state
      PROVE  InLine'
  <2>1. b \in preds[t] /\ Outcome(b) = "pending" /\ b \in Tasks
    BY <1>4 DEF Blockers, TypeOK, RowTypes
  <2>2. b \in preds'[t]
    BY <1>4, <2>1 DEF Forgotten, TypeOK, RowTypes
  <2>3. phase'[b] = "Declared" => phase[b] = "Declared"
    BY <1>4, <2>1 DEF TypeOK, SettleTypes
  <2>4. Outcome(b)' = "pending"
    BY <1>4, <2>1, <2>3 DEF Outcome, NeverDefined, IsTerminal
  <2>5. phase'[t] = "Parked" /\ parkedOn'[t] = b
    BY <1>4 DEF TypeOK, SettleTypes
  <2>6. Lined(t)'
    BY <2>2, <2>4, <2>5 DEF Lined, Blockers
  <2> DEFINE Q == preds[t] \ Forgotten(t)
  <2>7. preds' = [preds EXCEPT ![t] = Q]
    BY <1>4
  <2> HIDE DEF Q
  <2> QED
    BY <1>2, <1>4, <2>6, <2>7
<1> QED
    BY <1>1, <1>3, <1>4 DEF Place

\* claimLocked takes its Task out of the line.
LEMMA ClaimLined ==
    ASSUME TypeOK, InLine, UNCHANGED draining, NEW t \in Tasks, NEW slot, NEW w,
           Claim(t, slot, w)
    PROVE  InLine'
<1>1. \A v \in Tasks : /\ IsTerminal(v)' => IsTerminal(v)
                       /\ NeverDefined(v)' => NeverDefined(v)
    BY DEF Claim, IsTerminal, NeverDefined, TypeOK, SettleTypes, Terminal,
        Succeeding, Failing
<1> SUFFICES ASSUME NEW u \in Tasks, AwaitingStart(u)' PROVE Lined(u)'
    BY DEF InLine
<1>2. u # t
    BY DEF Claim, AwaitingStart, TypeOK, SettleTypes
<1>3. AwaitingStart(u) /\ UNCHANGED <<phase[u], preds[u], parkedOn[u]>>
    BY <1>2 DEF Claim, AwaitingStart, IsTerminal, rowVars, TypeOK, SettleTypes
<1>4. Owed(u) => Owed(u)'
    BY <1>3 DEF Claim, Owed
<1> QED
    BY <1>1, <1>3, <1>4, StaysLined DEF Claim

\* A step outside the scheduler's own cascade that settles, places and claims
\* nothing leaves the line as it is.
LEMMA QuietLined ==
    ASSUME TypeOK, InLine, todo = {},
           UNCHANGED <<draining, phase, parkedOn>>,
           \A v \in Tasks : IsTerminal(v)' <=> IsTerminal(v),
           \A v \in Tasks : preds'[v] # preds[v] => ~ AwaitingStart(v)
    PROVE  InLine'
<1>1. \A v \in Tasks : /\ IsTerminal(v)' => IsTerminal(v)
                       /\ NeverDefined(v)' => NeverDefined(v)
    BY DEF NeverDefined
<1> SUFFICES ASSUME NEW u \in Tasks, AwaitingStart(u)' PROVE Lined(u)'
    BY DEF InLine
<1>2. AwaitingStart(u) /\ UNCHANGED <<phase[u], preds[u], parkedOn[u]>>
    BY DEF AwaitingStart
<1>3. ~ Owed(u)
    BY DEF Owed
<1> QED
    BY <1>1, <1>2, <1>3, StaysLined

\* Every step keeps the line: whoever settles a Task wakes those parked on it,
\* and a drain places all of them again.
LEMMA InLineStep ==
    ASSUME IInv, OInv, InLine, [Next]_vars
    PROVE  InLine'
<1> USE DEF IInv
<1> DEFINE Quiet == /\ todo = {}
                    /\ UNCHANGED <<draining, state, phase, parkedOn, preds>>
<1>1. CASE Quiet
    BY <1>1, QuietLined DEF IsTerminal
<1>2. CASE UNCHANGED vars
    BY <1>2 DEF vars, settleVars, rowVars, endVars, finishVars, InLine, Lined,
        Owed, AwaitingStart, Blockers, Outcome, NeverDefined, IsTerminal
<1>3. ASSUME NEW t \in Tasks, NEW k \in {"wake", "place", "stop"},
             todo' = todo \ {<<k, t>>},
             UNCHANGED <<draining, state, phase, parkedOn, preds>>,
             AwaitingStart(t) => k = "wake" /\ phase[t] # "Parked"
      PROVE  InLine'
    BY <1>3 DEF InLine, Lined, Owed, AwaitingStart, Blockers, Outcome,
        NeverDefined, IsTerminal
<1>4. ASSUME NEW t \in Tasks, WakeTask(t)
      PROVE  InLine'
  <2>1. UNCHANGED draining
    BY <1>4 DEF WakeTask, endVars, finishVars
  <2>2. CASE phase[t] = "Parked" /\ ~ IsTerminal(t)
    BY <1>4, <2>1, <2>2, PlaceLined DEF WakeTask, AwaitingStart
  <2> QED
    BY <1>3, <1>4, <2>1, <2>2 DEF WakeTask, AwaitingStart
<1>5. ASSUME NEW t \in Tasks, PlaceTask(t)
      PROVE  InLine'
  <2>1. UNCHANGED draining
    BY <1>5 DEF PlaceTask, endVars, finishVars
  <2>2. CASE AwaitingStart(t)
    BY <1>5, <2>1, <2>2, PlaceLined DEF PlaceTask
  <2> QED
    BY <1>3, <1>5, <2>1, <2>2 DEF PlaceTask
<1>6. ASSUME NEW t \in Tasks, StopTask(t)
      PROVE  InLine'
  <2>1. UNCHANGED <<draining, preds>>
    BY <1>6 DEF StopTask, endVars, finishVars, rowVars
  <2>2. CASE phase[t] = "Running" \/ IsTerminal(t)
    BY <1>3, <1>6, <2>1, <2>2 DEF StopTask, AwaitingStart
  <2>3. CASE Settle({t}, "NotStarted", todo \ {<<"stop", t>>})
    <3>1. \A u \in Tasks \ {t} : {"wake", "place", "stop"} \X {u} \cap todo
                                    \subseteq todo \ {<<"stop", t>>}
      OBVIOUS
    <3> QED
      BY <2>1, <2>3, <3>1, SettleLined DEF Terminal, Failing
  <2> QED
    BY <1>6, <2>2, <2>3 DEF StopTask
<1>7. ASSUME NEW S, S \subseteq Tasks, NEW s \in Terminal \cup {"Incomplete"},
             NEW work, Settle(S, s, work), todo = {},
             UNCHANGED <<draining, preds>>
      PROVE  InLine'
    BY <1>7, SettleLined
<1>8. ASSUME NEW t \in Tasks, NEW s \in Terminal, ResolveTo(t, s), todo = {},
             UNCHANGED <<draining, preds>>
      PROVE  InLine'
  <2>1. \E work : Settle({t}, s, work)
    BY <1>8 DEF ResolveTo
  <2> QED
    BY <1>7, <1>8, <2>1
<1>9. ASSUME NEW t \in Tasks, NEW s \in Terminal, CallerResolve(t, s)
      PROVE  InLine'
    BY <1>1, <1>8, <1>9
    DEF CallerResolve, MayCall, Unlocked, settleVars, rowVars, endVars,
        finishVars
<1>10. ASSUME NEW t \in Tasks, Panics(t) \/ ResolveObserved(t)
       PROVE  InLine'
  <2>1. PICK s \in Terminal : ScheduledResolve(t, s)
    BY <1>10 DEF Panics, ResolveObserved, Terminal, Failing, Succeeding
  <2>2. todo = {} /\ UNCHANGED draining
    BY <1>10 DEF Panics, ResolveObserved, Unlocked, finishVars
  <2> QED
    BY <1>1, <1>8, <2>1, <2>2 DEF ScheduledResolve, settleVars, rowVars
<1>11. CASE CancelNext
  <2>1. cancelling # {} => Min(cancelling) \in Tasks
    BY MinIsLeast DEF TypeOK, EndTypes
  <2> QED
    BY <1>1, <1>8, <1>11, <2>1
    DEF CancelNext, Unlocked, settleVars, rowVars, finishVars, Terminal, Failing
<1>12. CASE BlockCycles
  <2>1. PICK B \in FoundCycles : Settle(B, "Blocked", {})
    BY <1>12 DEF BlockCycles
  <2>2. B \subseteq Tasks
    BY DEF FoundCycles, Cyclic, Parked
  <2>3. todo = {} /\ UNCHANGED <<draining, preds>>
    BY <1>12 DEF BlockCycles, KickAgain, Unlocked, endVars, finishVars
  <2> QED
    BY <1>7, <2>1, <2>2, <2>3 DEF Terminal, Failing
<1>13. CASE SweepTask
  <2>1. NextUnresolved \in Tasks
    BY <1>13, NextUnresolvedIsOpen DEF SweepTask, TypeOK
  <2>2. SweptTo(NextUnresolved) \in Terminal \cup {"Incomplete"}
    BY DEF SweptTo, Terminal, Failing, Succeeding
  <2> QED
    BY <1>7, <1>13, <2>1, <2>2 DEF SweepTask, rowVars, endVars, finishVars
<1>14. CASE TakeEligible
  <2>1. Queue # {} => Min(Queue) \in Tasks
    BY MinIsLeast DEF Queue
  <2>2. todo = {} /\ UNCHANGED draining
    BY <1>14 DEF TakeEligible, Unlocked, endVars, finishVars
  <2> QED
    BY <1>1, <1>14, <2>1, <2>2, ClaimLined
    DEF TakeEligible, Startable, settleVars, rowVars
<1>15. ASSUME NEW w \in Waiters, ClaimAwaited(w)
       PROVE  InLine'
  <2>1. target[w] \in Tasks /\ todo = {} /\ UNCHANGED draining
    BY <1>15 DEF ClaimAwaited, Awaiting, Unlocked, endVars, finishVars
  <2> QED
    BY <1>1, <1>15, <2>1, ClaimLined
    DEF ClaimAwaited, HostTask, settleVars, rowVars
<1>16. ASSUME NEW w \in Waiters, ClaimAny(w)
       PROVE  InLine'
  <2>1. Queue # {} => Min(Queue) \in Tasks
    BY MinIsLeast DEF Queue
  <2>2. todo = {} /\ UNCHANGED draining
    BY <1>16 DEF ClaimAny, Unlocked, endVars, finishVars
  <2> QED
    BY <1>1, <1>16, <2>1, <2>2, ClaimLined
    DEF ClaimAny, HostTask, settleVars, rowVars
<1>17. CASE DeclareTask
  <2> DEFINE t == declared + 1
  <2>1. t \in Tasks /\ phase[t] = "Declared"
    BY <1>17 DEF DeclareTask, OInv, Remembered, TypeOK, RowTypes
  <2>2. /\ todo = {} /\ UNCHANGED <<draining, state, phase, parkedOn>>
        /\ \A v \in Tasks : v # t => preds'[v] = preds[v]
    BY <1>17 DEF DeclareTask, Unlocked, endVars, finishVars, TypeOK, RowTypes
  <2> HIDE DEF t
  <2> QED
    BY <2>1, <2>2, QuietLined DEF IsTerminal, AwaitingStart
<1>18. ASSUME NEW t \in Tasks, NEW p \in Tasks, After(t, p)
       PROVE  InLine'
  <2>1. /\ todo = {} /\ UNCHANGED <<draining, state, phase, parkedOn>>
        /\ \A v \in Tasks : v # t => preds'[v] = preds[v]
    BY <1>18
    DEF After, MayCall, Unlocked, settleVars, endVars, finishVars, TypeOK,
        RowTypes
  <2>2. ~ AwaitingStart(t)
    BY <1>18 DEF After, Submitted, AwaitingStart
  <2> QED
    BY <2>1, <2>2, QuietLined DEF IsTerminal
<1>19. ASSUME NEW t \in Tasks, Doing(t)
       PROVE  InLine'
  <2>1. todo = {} /\ UNCHANGED <<draining, phase, parkedOn, preds>>
    BY <1>19 DEF Doing, MayCall, Unlocked, rowVars, endVars, finishVars
  <2>2. \A v \in Tasks : IsTerminal(v)' <=> IsTerminal(v)
    BY <1>19 DEF Doing, IsTerminal, Terminal, Succeeding, Failing, TypeOK,
        SettleTypes
  <2> QED
    BY <2>1, <2>2, QuietLined
<1>20. ASSUME NEW t \in Tasks, Define(t)
       PROVE  InLine'
  <2>1. /\ todo = {} /\ phase' = [phase EXCEPT ![t] = "Queued"]
        /\ UNCHANGED <<draining, state, parkedOn, preds>>
        /\ <<"stop", t>> \in todo' \/ <<"place", t>> \in todo'
    BY <1>20
    DEF Define, MayCall, Unlocked, Stops, Places, rowVars, endVars, finishVars
  <2>2. \A v \in Tasks : /\ IsTerminal(v)' => IsTerminal(v)
                         /\ NeverDefined(v)' => NeverDefined(v)
    BY <2>1 DEF IsTerminal, NeverDefined, TypeOK, SettleTypes
  <2>3. ASSUME NEW u \in Tasks, u # t, AwaitingStart(u)'
        PROVE  Lined(u)'
    <3>1. AwaitingStart(u) /\ UNCHANGED <<phase[u], preds[u], parkedOn[u]>>
      BY <2>1, <2>3 DEF AwaitingStart, IsTerminal, TypeOK, SettleTypes
    <3>2. ~ Owed(u)
      BY <2>1 DEF Owed
    <3> QED
      BY <2>1, <2>2, <3>1, <3>2, StaysLined
  <2> QED
    BY <2>1, <2>3 DEF InLine, Lined, Owed
<1>21. CASE FinishBegin
  <2>1. /\ UNCHANGED <<state, phase, preds>> /\ todo = {}
        /\ todo' = Places(Parked)
    BY <1>21 DEF FinishBegin, Unlocked, rowVars
  <2> SUFFICES ASSUME NEW t \in Tasks, AwaitingStart(t)' PROVE Lined(t)'
    BY DEF InLine
  <2>2. AwaitingStart(t)
    BY <2>1 DEF AwaitingStart, IsTerminal
  <2>3. CASE phase[t] = "Parked"
    BY <2>1, <2>2, <2>3 DEF Parked, Places, AwaitingStart, Lined, Owed
  <2>4. CASE phase[t] # "Parked"
    BY <2>1, <2>2, <2>4 DEF InLine, Lined, Owed
  <2> QED
    BY <2>3, <2>4
<1>22. ASSUME NEW t \in Tasks,
              \/ Problem(t) \/ \E w \in Waiters : WaitBegin(w, t)
              \/ Returns(t) \/ Observe(t) \/ FailFollowers(t)
              \/ FinishClaimed(t)
       PROVE  Quiet
    BY <1>22
    DEF Problem, WaitBegin, Returns, Observe, FailFollowers, FinishClaimed,
        MayCall, Unlocked, settleVars, rowVars, endVars, finishVars
<1>23. ASSUME NEW w \in Waiters, \/ CheckStalled(w) \/ Park(w) \/ EndWait(w)
                                 \/ AbortWait(w) \/ ReportWait(w)
       PROVE  Quiet
    BY <1>23 DEF CheckStalled, Park, EndWait, AbortWait, ReportWait, Unlocked,
        settleVars, rowVars, endVars, finishVars
<1>24. CASE \/ EndKick \/ ReleaseWaits \/ Interrupt \/ CancelActive
            \/ AbandonQueued \/ Drained \/ SweepBegin \/ SweepEnd
    BY <1>1, <1>24
    DEF EndKick, KickAgain, ReleaseWaits, Interrupt, CancelActive,
        AbandonQueued, Drained, SweepBegin, SweepEnd, Unlocked, settleVars,
        rowVars, endVars, finishVars
<1>25. CASE Over
    BY <1>2, <1>25 DEF Over
<1> HIDE DEF Quiet
<1>26. CASE Program
    BY <1>1, <1>9, <1>17, <1>18, <1>19, <1>20, <1>22, <1>24, <1>26 DEF Program
<1>27. CASE \E t \in Tasks : TaskStep(t) \/ Returns(t) \/ Panics(t)
    BY <1>1, <1>4, <1>5, <1>6, <1>10, <1>22, <1>27 DEF TaskStep
<1>28. CASE \E w \in Waiters : WaitStep(w)
    BY <1>1, <1>15, <1>16, <1>23, <1>28 DEF WaitStep
<1> QED
    BY <1>2, <1>11, <1>12, <1>13, <1>14, <1>21, <1>24, <1>25, <1>26, <1>27,
       <1>28
    DEF Next, Runtime, Kick, Ending

-----------------------------------------------------------------------------
\* Only After, and the declaration of a step, add predecessors, and only to a
\* Task that is not submitted.
LEMMA PredsMoves ==
    ASSUME IInv, OInv, [Next]_vars, NEW t \in Tasks, Submitted(t)
    PROVE  preds'[t] \subseteq preds[t]
<1> USE DEF IInv
<1>1. CASE UNCHANGED preds
    BY <1>1
<1>2. ASSUME NEW u \in Tasks, WakeTask(u) \/ PlaceTask(u)
      PROVE  preds'[t] \subseteq preds[t]
    BY <1>2 DEF WakeTask, PlaceTask, Place, TypeOK, RowTypes
<1>3. CASE DeclareTask
  <2> DEFINE u == declared + 1
  <2>1. u \in Tasks /\ phase[u] = "Declared"
    BY <1>3 DEF DeclareTask, OInv, Remembered, TypeOK, RowTypes
  <2>2. t # u
    BY <2>1 DEF Submitted
  <2>3. \A v \in Tasks : v # u => preds'[v] = preds[v]
    BY <1>3 DEF DeclareTask, TypeOK, RowTypes
  <2> HIDE DEF u
  <2> QED
    BY <2>2, <2>3
<1>4. ASSUME NEW u \in Tasks, NEW p \in Tasks, After(u, p)
      PROVE  preds'[t] \subseteq preds[t]
    BY <1>4 DEF After, TypeOK, RowTypes
<1>5. ASSUME NEW u \in Tasks,
             \/ Problem(u) \/ Doing(u) \/ Define(u)
             \/ \E s \in Terminal : CallerResolve(u, s)
             \/ \E w \in Waiters : WaitBegin(w, u)
             \/ StopTask(u) \/ Returns(u) \/ Panics(u) \/ Observe(u)
             \/ ResolveObserved(u) \/ FailFollowers(u) \/ FinishClaimed(u)
      PROVE  UNCHANGED preds
    BY <1>5 DEF Problem, Doing, Define, CallerResolve, WaitBegin, StopTask,
        Returns, Panics, Observe, ResolveObserved, ScheduledResolve,
        FailFollowers, FinishClaimed, rowVars
<1>6. ASSUME NEW w \in Waiters, WaitStep(w)
      PROVE  UNCHANGED preds
    BY <1>6 DEF WaitStep, ClaimAwaited, HostTask, Claim, CheckStalled, ClaimAny,
        Park, EndWait, AbortWait, ReportWait, rowVars
<1>7. CASE \/ Kick \/ Interrupt \/ FinishBegin \/ Ending \/ Over
           \/ UNCHANGED vars
    BY <1>1, <1>7 DEF Kick, TakeEligible, Claim, EndKick, BlockCycles,
        ReleaseWaits, Interrupt, FinishBegin, Ending, CancelActive, CancelNext,
        AbandonQueued, Drained, SweepBegin, SweepTask, SweepEnd, Over, vars,
        rowVars
<1>8. CASE Program
    BY <1>1, <1>3, <1>4, <1>5, <1>7, <1>8 DEF Program
<1>9. CASE \E u \in Tasks : TaskStep(u) \/ Returns(u) \/ Panics(u)
    BY <1>1, <1>2, <1>5, <1>9 DEF TaskStep
<1>10. CASE \E w \in Waiters : WaitStep(w)
    BY <1>1, <1>6, <1>10
<1> QED
    BY <1>7, <1>8, <1>9, <1>10 DEF Next, Runtime

\* S holds the inputs of the Waits under way: what they await, whatever that
\* comes after, and so on.  What nobody Defined in it is about to be stopped.
Inputs(S) ==
    /\ \A w \in Waiters : waiting[w] # "idle" => target[w] \in S
    /\ \A u \in S :
        /\ NeverDefined(u) => <<"stop", u>> \in todo
        /\ ~ IsTerminal(u) /\ ~ NeverDefined(u) =>
                {p \in preds[u] : ~ IsTerminal(p)} \subseteq S

\* Until a drain, such a set exists.
Sealed == ~ draining => \E S \in SUBSET Tasks : Inputs(S)

\* What is under way keeps its inputs: a Task gains no predecessor once it is
\* submitted, and what is about to be stopped is never submitted.
LEMMA InputsStay ==
    ASSUME IInv, OInv, Stable, Forward, Staged, Swept, ~ draining, [Next]_vars,
           NEW S \in SUBSET Tasks, Inputs(S), NEW u \in S
    PROVE  /\ NeverDefined(u)' => <<"stop", u>> \in todo'
           /\ ~ IsTerminal(u)' /\ ~ NeverDefined(u)' =>
                {p \in preds'[u] : ~ IsTerminal(p)'} \subseteq S
<1>1. ~ NeverDefined(u)' \/ <<"stop", u>> \in todo'
    BY DefinedStays DEF Inputs
<1>2. ASSUME ~ IsTerminal(u)', ~ NeverDefined(u)'
      PROVE  {p \in preds'[u] : ~ IsTerminal(p)'} \subseteq S
  <2>1. ~ IsTerminal(u)
    BY <1>2 DEF Stable, IsTerminal
  <2>2. ~ NeverDefined(u)
    <3>1. SUFFICES ASSUME NeverDefined(u) PROVE FALSE
      OBVIOUS
    <3>2. <<"stop", u>> \in todo
      BY <3>1 DEF Inputs
    <3>3. ~ Define(u)
      BY <3>2 DEF Define, MayCall, Unlocked
    <3> QED
      BY <1>2, <3>1, <3>3, PhaseMoves DEF NeverDefined, Starts, AwaitingStart
  <2>3. Submitted(u)
    <3>1. phase[u] # "Abandoned"
      BY <2>1 DEF Staged, Swept, Closed
    <3> QED
      BY <2>1, <2>2, <3>1
      DEF NeverDefined, Submitted, IInv, TypeOK, SettleTypes, Phases
  <2>4. preds'[u] \subseteq preds[u] /\ preds[u] \subseteq Tasks
    BY <2>3, PredsMoves DEF IInv, TypeOK, RowTypes
  <2>5. \A p \in Tasks : ~ IsTerminal(p)' => ~ IsTerminal(p)
    BY DEF Stable, IsTerminal
  <2> QED
    BY <2>1, <2>2, <2>4, <2>5 DEF Inputs
<1> QED
    BY <1>1, <1>2

\* What sealInputsLocked walked is closed under what it waits for.
LEMMA WalkCloses ==
    ASSUME NEW root \in Tasks
    PROVE  /\ root \in WalkedFrom(root) /\ WalkedFrom(root) \subseteq Tasks
           /\ \A u \in WalkedFrom(root) : u = root \/ ~ NeverDefined(u) =>
                \A p \in Tasks :
                    p \in preds[u] /\ ~ IsTerminal(p) => p \in WalkedFrom(root)
BY DEF WalkedFrom

\* A Wait that begins adds what its walk found.
LEMMA WaitSeals ==
    ASSUME IInv, NEW S \in SUBSET Tasks, Inputs(S),
           NEW w \in Waiters, NEW t \in Tasks, WaitBegin(w, t)
    PROVE  \E Z \in SUBSET Tasks : Inputs(Z)'
<1> DEFINE W == IF IsTerminal(t) \/ NeverDefined(t) THEN {t} ELSE WalkedFrom(t)
<1>1. /\ todo = {} /\ UNCHANGED <<state, phase, preds>>
      /\ \A v \in Waiters : waiting'[v] # "idle" =>
            \/ v = w /\ target'[v] = t
            \/ waiting[v] # "idle" /\ target'[v] = target[v]
    BY DEF WaitBegin, Unlocked, rowVars, IInv, TypeOK, WaitTypes
<1>2. t \in W /\ W \subseteq Tasks
    BY WalkCloses
<1>3. \A u \in Tasks : /\ IsTerminal(u)' <=> IsTerminal(u)
                       /\ NeverDefined(u)' <=> NeverDefined(u)
    BY <1>1 DEF IsTerminal, NeverDefined
<1>4. \A u \in S : ~ NeverDefined(u)
    BY <1>1 DEF Inputs
<1>5. \A u \in W : NeverDefined(u) => <<"stop", u>> \in todo'
  <2>1. CASE IsTerminal(t) \/ NeverDefined(t)
    BY <2>1 DEF WaitBegin, Stops, NeverDefined
  <2>2. CASE ~ (IsTerminal(t) \/ NeverDefined(t))
    BY <2>2 DEF WaitBegin, Stops, Undefined
  <2> QED
    BY <2>1, <2>2
<1>6. \A u \in W : ~ IsTerminal(u) /\ ~ NeverDefined(u) =>
            \A p \in Tasks : p \in preds[u] /\ ~ IsTerminal(p) => p \in W
    BY WalkCloses
<1>7. \A u \in Tasks : preds[u] \subseteq Tasks
    BY DEF IInv, TypeOK, RowTypes
<1>8. \A u \in S : ~ IsTerminal(u) /\ ~ NeverDefined(u) =>
            {p \in preds[u] : ~ IsTerminal(p)} \subseteq S
    BY DEF Inputs
<1>9. \A v \in Waiters : waiting[v] # "idle" => target[v] \in S
    BY DEF Inputs
<1> HIDE DEF W
<1>10. PICK Z \in SUBSET Tasks : Z = S \cup W
    BY <1>2
<1>11. \A v \in Waiters : waiting'[v] # "idle" => target'[v] \in Z
    BY <1>1, <1>2, <1>9, <1>10
<1>12. ASSUME NEW u \in Z
       PROVE  /\ NeverDefined(u)' => <<"stop", u>> \in todo'
              /\ ~ IsTerminal(u)' /\ ~ NeverDefined(u)' =>
                    {p \in preds'[u] : ~ IsTerminal(p)'} \subseteq Z
  <2>1. u \in Tasks
    BY <1>10
  <2>2. NeverDefined(u)' => <<"stop", u>> \in todo'
    BY <1>3, <1>4, <1>5, <1>10, <2>1
  <2>3. ASSUME ~ IsTerminal(u)', ~ NeverDefined(u)',
               NEW p \in preds'[u], ~ IsTerminal(p)'
        PROVE  p \in Z
    <3>1. p \in Tasks /\ p \in preds[u] /\ ~ IsTerminal(p)
      BY <1>1, <1>3, <1>7, <2>1, <2>3
    <3>2. ~ IsTerminal(u) /\ ~ NeverDefined(u)
      BY <1>3, <2>1, <2>3
    <3> QED
      BY <1>6, <1>8, <1>10, <3>1, <3>2
  <2> QED
    BY <2>2, <2>3
<1>13. Inputs(Z)'
    BY <1>11, <1>12 DEF Inputs
<1> QED
    BY <1>13

\* Every step keeps the inputs of the Waits sealed.
LEMMA SealedStep ==
    ASSUME IInv, OInv, Stable, Forward, Staged, Swept, Sealed, [Next]_vars
    PROVE  Sealed'
<1> SUFFICES ASSUME ~ draining' PROVE \E S \in SUBSET Tasks : Inputs(S)'
    BY DEF Sealed
<1>1. ~ draining
    BY EndMoves
    DEF Interrupt, CancelActive, AbandonQueued, FinishBegin, Drained,
        SweepBegin, SweepEnd, finishVars
<1>2. PICK S \in SUBSET Tasks : Inputs(S)
    BY <1>1 DEF Sealed
<1>3. ASSUME NEW w \in Waiters, NEW t \in Tasks, WaitBegin(w, t)
      PROVE  \E Z \in SUBSET Tasks : Inputs(Z)'
    BY <1>2, <1>3, WaitSeals
<1>4. ASSUME NEW w \in Waiters, waiting'[w] # "idle",
             ~ \E t \in Tasks : WaitBegin(w, t)
      PROVE  target'[w] \in S
  <2>1. CASE waiting[w] # "idle" /\ UNCHANGED target[w]
    BY <1>2, <2>1 DEF Inputs
  <2>2. CASE Park(w) \/ EndWait(w) \/ AbortWait(w) \/ ReportWait(w)
    BY <2>1, <2>2 DEF Park, EndWait, AbortWait, ReportWait
  <2> QED
    BY <1>4, <2>1, <2>2, WaitMoves
<1>5. CASE ~ \E w \in Waiters, t \in Tasks : WaitBegin(w, t)
  <2>1. \A w \in Waiters : waiting'[w] # "idle" => target'[w] \in S
    BY <1>4, <1>5
  <2>2. \A u \in S : /\ NeverDefined(u)' => <<"stop", u>> \in todo'
                     /\ ~ IsTerminal(u)' /\ ~ NeverDefined(u)' =>
                            {p \in preds'[u] : ~ IsTerminal(p)'} \subseteq S
    BY <1>1, <1>2, InputsStay
  <2>3. Inputs(S)'
    BY <2>1, <2>2 DEF Inputs
  <2> QED
    BY <2>3
<1> QED
    BY <1>3, <1>5

-----------------------------------------------------------------------------
\* Waiters that hold no ticket hold no callback.
LEMMA NobodyHolds ==
    ASSUME Tickets = {}
    PROVE  HeldCallbacks = 0
<1> DEFINE F(g) == [S \in SUBSET {} |->
                        IF S = {} THEN 0
                        ELSE LET w == CHOOSE v \in S : TRUE
                             IN  Depth(w) + g[S \ {w}]]
           f == [S \in SUBSET {} |-> 0]
           sum == CHOOSE g : g = F(g)
<1>1. f = F(f)
    OBVIOUS
<1>2. sum = F(sum)
  <2> HIDE DEF F, f
  <2> QED
    BY <1>1
<1>3. sum[{}] = 0
    BY <1>2
<1>4. HeldCallbacks = sum[{}]
    BY DEF HeldCallbacks, MapThenSumSet, MapThenFoldSet
<1> QED
    BY <1>3, <1>4

\* What t waits for it reaches, and whatever that reaches.
LEMMA ReachesOn ==
    ASSUME NEW t \in Parked, NEW b \in Blockers(t) \cap Parked
    PROVE  /\ b \in ReachedIn(Parked, t)
           /\ ReachedIn(Parked, b) \subseteq ReachedIn(Parked, t)
<1>1. b \in ReachedIn(Parked, t)
    BY DEF ReachedIn
<1>2. ASSUME NEW u \in ReachedIn(Parked, b), NEW R \in SUBSET Parked,
             Blockers(t) \cap Parked \subseteq R,
             \A v \in R : v \in Parked => Blockers(v) \cap Parked \subseteq R
      PROVE  u \in R
  <2>1. Blockers(b) \cap Parked \subseteq R
    BY <1>2
  <2> QED
    BY <1>2, <2>1 DEF ReachedIn
<1>3. ReachedIn(Parked, b) \subseteq Parked
    BY DEF ReachedIn
<1> QED
    BY <1>1, <1>2, <1>3 DEF ReachedIn

\* Tasks that are all parked behind one another wait in a circle: whoever
\* reaches fewest of them reaches itself next.
LEMMA ParkedCycle ==
    ASSUME TypeOK, Parked # {},
           \A t \in Parked : parkedOn[t] \in Blockers(t) \cap Parked
    PROVE  Cyclic # {}
<1> DEFINE Reach(t) == ReachedIn(Parked, t)
           Sizes == {Cardinality(Reach(t)) : t \in Parked}
<1>1. \A t \in Parked : Reach(t) \subseteq Tasks
    BY DEF ReachedIn, Parked
<1>2. Sizes \subseteq Nat /\ Sizes # {}
  <2> HIDE DEF Reach
  <2> QED
    BY <1>1, Counting
<1>3. PICK m \in Sizes : \A x \in Sizes : m =< x
  <2> HIDE DEF Sizes
  <2> QED
    BY <1>2, LeastNumber
<1>4. PICK t \in Parked : \A u \in Parked :
            Cardinality(Reach(t)) =< Cardinality(Reach(u))
  <2> HIDE DEF Reach
  <2> QED
    BY <1>3
<1> DEFINE b == parkedOn[t]
<1>5. b \in Parked /\ b \in Reach(t) /\ Reach(b) \subseteq Reach(t)
    BY ReachesOn
<1> HIDE DEF Reach
<1>6. Reach(b) = Reach(t)
  <2>1. /\ IsFiniteSet(Reach(t)) /\ Cardinality(Reach(t)) \in Nat
        /\ Cardinality(Reach(b)) \in Nat
    BY <1>1, <1>5, Counting
  <2>2. /\ Cardinality(Reach(b)) =< Cardinality(Reach(t))
        /\ Cardinality(Reach(t)) = Cardinality(Reach(b)) => Reach(t) = Reach(b)
    BY <1>5, <2>1, FS_Subset
  <2> QED
    BY <1>4, <1>5, <2>1, <2>2
<1>7. b \in Cyclic
    BY <1>5, <1>6 DEF Cyclic, Reach
<1> QED
    BY <1>7

\* What every step keeps of all this.
SInv == OInv /\ Staged /\ Swept /\ InLine /\ Sealed

\* Until a drain, no Wait's inputs are left undefined.
LEMMA NothingUnsealed ==
    ASSUME Sealed, Unlocked
    PROVE  Unsealed = {}
<1> SUFFICES ASSUME ~ draining, NEW w \in Tickets, ~ IsTerminal(target[w]),
                    NEW t \in Undefined(target[w])
             PROVE  FALSE
    BY DEF Unsealed
<1>1. PICK S \in SUBSET Tasks : Inputs(S)
    BY DEF Sealed
<1> DEFINE R == {u \in S : ~ IsTerminal(u)}
<1>2. target[w] \in R
    BY <1>1 DEF Inputs, Tickets
<1>3. \A u \in R : ~ NeverDefined(u)
    BY <1>1 DEF Inputs, Unlocked
<1>4. \A u \in R : {p \in preds[u] : ~ IsTerminal(p)} \subseteq R
    BY <1>1, <1>3 DEF Inputs
<1>5. R \in SUBSET Tasks
    OBVIOUS
<1> HIDE DEF R
<1>6. WalkedFrom(target[w]) \subseteq R
    BY <1>2, <1>4, <1>5 DEF WalkedFrom
<1> QED
    BY <1>3, <1>6 DEF Undefined

\* In a drain that stalls, with no Wait to release, every parked Task is parked
\* behind another one.
LEMMA ParkedBehind ==
    ASSUME IInv, SInv, Unlocked, Stalled, Tickets = {}, NEW t \in Parked
    PROVE  parkedOn[t] \in Blockers(t) \cap Parked
<1> USE DEF IInv, SInv
<1>1. draining /\ todo = {}
    BY DEF Stalled, Unlocked
<1>2. executing = 0 /\ ~ Startable
    BY NobodyHolds DEF Stalled, ProgressPossible, TypeOK, CountTypes
<1>3. Going = {} /\ inflight = 0
  <2>1. Going \subseteq Tasks
    BY DEF Going
  <2>2. Going = {}
    BY <1>2, <2>1, Counting, FS_EmptySet DEF Accounts
  <2> QED
    BY <2>2, FS_EmptySet DEF Accounts
<1>4. ~ cancelled
    BY <1>1 DEF Staged, Parked, AwaitingStart
<1>5. Queue = {}
    BY <1>2, <1>3, <1>4, SchedulerAssumption DEF Startable
<1> DEFINE b == parkedOn[t]
<1>6. t \in Tasks /\ AwaitingStart(t) /\ phase[t] = "Parked"
    BY DEF Parked, AwaitingStart
<1>7. b \in Blockers(t)
    BY <1>1, <1>6 DEF InLine, Lined, Owed
<1>8. b \in Tasks /\ ~ IsTerminal(b) /\ ~ NeverDefined(b)
    BY <1>1, <1>6, <1>7
    DEF Blockers, Outcome, IsTerminal, Terminal, TypeOK, RowTypes
<1>9. finish # "finished"
  <2>1. t \in Declared
    BY <1>6, SchedulerAssumption
    DEF OInv, Remembered, Declared, Tasks, TypeOK, RowTypes
  <2> QED
    BY <1>6, <2>1 DEF Swept, Closed, AwaitingStart
<1>10. finish # "sweeping"
    BY DEF Unlocked
<1>11. phase[b] \notin {"Declared", "Abandoned"}
    BY <1>8, <1>9, <1>10 DEF NeverDefined, Swept, Closed
<1>12. phase[b] # "Running"
    BY <1>3, <1>8, <1>9, <1>10 DEF Swept, Begun, Going
<1>13. phase[b] # "Queued"
  <2>1. SUFFICES ASSUME phase[b] = "Queued" PROVE FALSE
    OBVIOUS
  <2>2. preds[b] = {} /\ AwaitingStart(b)
    BY <1>1, <1>8, <2>1 DEF InLine, Lined, Owed, AwaitingStart
  <2> QED
    BY <1>5, <1>8, <2>1, <2>2 DEF Queue, Eligible, Forgotten
<1>14. phase[b] = "Parked"
    BY <1>8, <1>11, <1>12, <1>13 DEF TypeOK, SettleTypes, Phases
<1> QED
    BY <1>7, <1>8, <1>14 DEF Parked

\* It holds of a new Output.
LEMMA InitSInv == Init => SInv
<1> SUFFICES ASSUME Init PROVE SInv
    OBVIOUS
<1>1. Inputs({})
    BY DEF Init, Inputs
<1>2. Sealed
    BY <1>1 DEF Sealed
<1> QED
    BY <1>2, InitOInv DEF Init, SInv, Staged, Swept, InLine, AwaitingStart

\* Every step keeps it.
LEMMA SInvStep ==
    ASSUME IInv, SInv, [Next]_vars
    PROVE  SInv'
<1>1. Stable /\ Forward
    BY StableStep, ForwardStep DEF IInv
<1>2. OInv' /\ Staged' /\ Swept'
    BY <1>1, OrderStep, StagedStep, SweptStep DEF IInv, SInv
<1>3. InLine' /\ Sealed'
    BY <1>1, InLineStep, SealedStep DEF SInv
<1> QED
    BY <1>2, <1>3 DEF SInv

\* When a kick finds the run stalled, resolveStall needs none of its steps for
\* collections over Tasks alone: whatever is awaited was Defined or settled, and
\* once the cycles are blocked and the Waits released nothing stays parked.  It
\* holds of every program, whether or not it joins its goroutines.
THEOREM NobodyStranded == Spec => []NothingStranded
<1>1. IInv /\ SInv => NothingStranded
  <2> SUFFICES ASSUME IInv, SInv, Unlocked, Stalled
               PROVE  /\ Unsealed = {}
                      /\ Cyclic = {} /\ Tickets = {} => Parked = {}
    BY DEF NothingStranded
  <2>1. Unsealed = {}
    BY NothingUnsealed DEF SInv
  <2>2. Tickets = {} =>
            \A t \in Parked : parkedOn[t] \in Blockers(t) \cap Parked
    BY ParkedBehind
  <2> QED
    BY <2>1, <2>2, ParkedCycle DEF IInv
<1> QED
    BY <1>1, InitSInv, SInvStep, IInvInvariant, PTL DEF Spec

-----------------------------------------------------------------------------
\* The callbacks on the stacks of the goroutines S, by goroutine and height,
\* when d says how many each has.
Frames(S, d) == {f \in S \X Nat : 1 <= f[2] /\ f[2] <= d[f[1]]}

\* callbackDepth of every goroutine that may Wait.
Depths == [w \in Waiters |-> Depth(w)]

\* The goroutines that run a callback and host none on top of it.
Tops == {t \in Going : waiting[t] # "hosting"}

\* A callback sits on that of the waiter that hosts it, and every callback under
\* way is on one stack: those are what ticket.depth and executing count.
Stacks ==
    /\ \A t \in Tasks : host[t] # NoTask => t \in Going
    /\ \A w \in Waiters : waiting[w] = "hosting" => \E t \in Tasks : host[t] = w
    /\ \A t \in Going : depth[t] = Depth(host[t]) + 1
    /\ IsFiniteSet(Frames(Tops, Depths))
    /\ Cardinality(Frames(Tops, Depths)) = Cardinality(Going)

\* One more goroutine adds its stack.
LEMMA FramesAdd ==
    ASSUME NEW S, NEW x, x \notin S, NEW d, NEW n \in Nat, n = d[x],
           IsFiniteSet(Frames(S, d))
    PROVE  /\ IsFiniteSet(Frames(S \cup {x}, d))
           /\ Cardinality(Frames(S \cup {x}, d)) = Cardinality(Frames(S, d)) + n
<1> DEFINE X == {x} \X (1 .. n)
<1>1. IsFiniteSet(X) /\ Cardinality(X) = n
  <2>1. IsFiniteSet({x}) /\ Cardinality({x}) = 1
    BY FS_Singleton
  <2>2. IsFiniteSet(1 .. n) /\ Cardinality(1 .. n) = n
    <3>1. 1 \in Int /\ n \in Int /\ (IF 1 > n THEN 0 ELSE n - 1 + 1) = n
      OBVIOUS
    <3>2. /\ IsFiniteSet(1 .. n)
          /\ Cardinality(1 .. n) = IF 1 > n THEN 0 ELSE n - 1 + 1
      BY <3>1, FS_Interval
    <3> QED
      BY <3>1, <3>2
  <2> DEFINE A == {x}
             B == 1 .. n
  <2> HIDE DEF A, B
  <2>3. /\ IsFiniteSet(A) /\ IsFiniteSet(B)
        /\ Cardinality(A) = 1 /\ Cardinality(B) = n
    BY <2>1, <2>2 DEF A, B
  <2>4. /\ IsFiniteSet(A \X B)
        /\ Cardinality(A \X B) = Cardinality(A) * Cardinality(B)
    BY <2>3, FS_Product
  <2>5. Cardinality(A \X B) = 1 * n
    BY <2>3, <2>4
  <2>6. Cardinality(A \X B) = n
    BY <2>5
  <2> QED
    BY <2>4, <2>6 DEF A, B
<1>2. Frames(S \cup {x}, d) = Frames(S, d) \cup X
  <2>1. ASSUME NEW f \in (S \cup {x}) \X Nat
        PROVE  f \in Frames(S, d) \cup X <=> 1 <= f[2] /\ f[2] <= d[f[1]]
    BY DEF Frames
  <2>2. /\ X \subseteq (S \cup {x}) \X Nat
        /\ Frames(S, d) \subseteq (S \cup {x}) \X Nat
    BY DEF Frames
  <2> HIDE DEF X
  <2> QED
    BY <2>1, <2>2 DEF Frames
<1>3. Frames(S, d) \cap X = {}
  <2>1. \A f \in Frames(S, d) : f[1] \in S
    BY DEF Frames
  <2>2. \A f \in X : f[1] = x
    OBVIOUS
  <2> HIDE DEF X
  <2> QED
    BY <2>1, <2>2
<1> HIDE DEF X
<1>4. Cardinality(Frames(S, d) \cup X) =
        Cardinality(Frames(S, d)) + Cardinality(X)
        - Cardinality(Frames(S, d) \cap X)
    BY <1>1, FS_Union
<1>5. Cardinality(Frames(S, d) \cap X) = 0
    BY <1>3, FS_EmptySet
<1>6. IsFiniteSet(Frames(S, d) \cup X) /\ Cardinality(Frames(S, d)) \in Nat
    BY <1>1, FS_Union, FS_CardinalityType
<1>7. Cardinality(Frames(S, d) \cup X) = Cardinality(Frames(S, d)) + n
  <2> DEFINE a == Cardinality(Frames(S, d) \cup X)
             b == Cardinality(Frames(S, d))
             c == Cardinality(X)
             e == Cardinality(Frames(S, d) \cap X)
  <2> HIDE DEF a, b, c, e
  <2>1. a = b + c - e /\ c = n /\ e = 0 /\ b \in Nat
    BY <1>1, <1>4, <1>5, <1>6 DEF a, b, c, e
  <2>2. a = b + n
    BY <2>1
  <2> QED
    BY <2>2 DEF a, b
<1> QED
    BY <1>2, <1>6, <1>7

\* Some waiters are finitely many.
LEMMA CountingWaiters ==
    ASSUME NEW S, S \subseteq Waiters
    PROVE  IsFiniteSet(S) /\ Cardinality(S) \in Nat
<1>1. IsFiniteSet(Tasks)
    BY Counting
<1>2. IsFiniteSet(Waiters)
    BY <1>1, SchedulerAssumption, FS_Union DEF Waiters
<1> QED
    BY <1>2, FS_Subset, FS_CardinalityType

\* The callbacks on the stacks of waiters are finitely many.
LEMMA FramesFinite ==
    ASSUME TypeOK, NEW T, T \subseteq Waiters
    PROVE  IsFiniteSet(Frames(T, Depths))
<1> DEFINE Bad == {S \in SUBSET T : ~ IsFiniteSet(Frames(S, Depths))}
           Sizes == {Cardinality(S) : S \in Bad}
<1> SUFFICES ASSUME Bad # {} PROVE FALSE
    OBVIOUS
<1>1. Sizes \subseteq Nat /\ Sizes # {}
    BY CountingWaiters
<1>2. PICK m \in Sizes : \A x \in Sizes : m =< x
  <2> HIDE DEF Sizes
  <2> QED
    BY <1>1, LeastNumber
<1>3. PICK S \in Bad : m = Cardinality(S)
    OBVIOUS
<1>4. S # {}
  <2>1. Frames({}, Depths) = {}
    BY DEF Frames
  <2> QED
    BY <1>3, <2>1, FS_EmptySet
<1>5. PICK w \in S : TRUE
    BY <1>4
<1>6. Cardinality(S \ {w}) = Cardinality(S) - 1 /\ Cardinality(S) \in Nat
    BY <1>5, CountingWaiters, FS_RemoveElement
<1>7. S \ {w} \in SUBSET T /\ S \ {w} \notin Bad
    BY <1>2, <1>3, <1>6
<1>8. IsFiniteSet(Frames(S \ {w}, Depths)) /\ (S \ {w}) \cup {w} = S
    BY <1>5, <1>7
<1>9. Depths[w] \in Nat
    BY <1>5 DEF TypeOK, RunTypes, Depth, Depths
<1>10. IsFiniteSet(Frames((S \ {w}) \cup {w}, Depths))
    BY <1>8, <1>9, FramesAdd
<1> QED
    BY <1>3, <1>8, <1>10

\* heldCallbacksLocked adds up the depths of the tickets: the callbacks on their
\* stacks.
LEMMA HeldAreFrames ==
    ASSUME TypeOK
    PROVE  HeldCallbacks = Cardinality(Frames(Tickets, Depths))
<1> DEFINE T == Tickets
           Adds(g) == \A S \in SUBSET T :
                g[S] = IF S = {} THEN 0
                       ELSE LET w == CHOOSE v \in S : TRUE
                            IN  Depth(w) + g[S \ {w}]
           F(g) == [S \in SUBSET T |->
                        IF S = {} THEN 0
                        ELSE LET w == CHOOSE v \in S : TRUE
                             IN  Depth(w) + g[S \ {w}]]
           f == [S \in SUBSET T |-> Cardinality(Frames(S, Depths))]
           sum == CHOOSE g : g = F(g)
           Bad(g) == {S \in SUBSET T : g[S] # Cardinality(Frames(S, Depths))}
<1>1. T \subseteq Waiters
    BY DEF Tickets
<1>2. HeldCallbacks = sum[T]
    BY DEF HeldCallbacks, MapThenSumSet, MapThenFoldSet
<1> HIDE DEF T
<1>3. Cardinality(Frames({}, Depths)) = 0
  <2>1. Frames({}, Depths) = {}
    BY DEF Frames
  <2> QED
    BY <2>1, FS_EmptySet
<1>4. ASSUME NEW S \in SUBSET T, NEW w \in S
      PROVE  Cardinality(Frames(S, Depths)) =
                Depth(w) + Cardinality(Frames(S \ {w}, Depths))
  <2>1. (S \ {w}) \cup {w} = S /\ Depth(w) \in Nat /\ Depths[w] = Depth(w)
    BY <1>1 DEF TypeOK, RunTypes, Depth, Depths
  <2>2. /\ IsFiniteSet(Frames(S \ {w}, Depths))
        /\ Cardinality(Frames(S \ {w}, Depths)) \in Nat
    BY <1>1, FramesFinite, FS_CardinalityType
  <2> DEFINE R == S \ {w}
             n == Depth(w)
  <2> HIDE DEF R, n
  <2>3. Cardinality(Frames(R \cup {w}, Depths)) =
            Cardinality(Frames(R, Depths)) + n
    <3>1. /\ w \notin R /\ n \in Nat /\ n = Depths[w]
          /\ IsFiniteSet(Frames(R, Depths))
      BY <2>1, <2>2 DEF R, n
    <3> QED
      BY <3>1, FramesAdd
  <2> DEFINE b == Cardinality(Frames(S \ {w}, Depths))
             c == Depth(w)
  <2> HIDE DEF b, c
  <2>4. Cardinality(Frames(S, Depths)) = b + c /\ b \in Nat /\ c \in Nat
    BY <2>1, <2>2, <2>3 DEF b, c, R, n
  <2>5. Cardinality(Frames(S, Depths)) = c + b
    BY <2>4
  <2> QED
    BY <2>5 DEF b, c
<1>5. ASSUME NEW g, Adds(g) PROVE Bad(g) = {}
  <2> SUFFICES ASSUME Bad(g) # {} PROVE FALSE
    OBVIOUS
  <2> DEFINE Sizes == {Cardinality(S) : S \in Bad(g)}
  <2>1. Sizes \subseteq Nat /\ Sizes # {}
    BY <1>1, CountingWaiters
  <2>2. PICK m \in Sizes : \A x \in Sizes : m =< x
    <3> HIDE DEF Sizes
    <3> QED
      BY <2>1, LeastNumber
  <2>3. PICK S \in Bad(g) : m = Cardinality(S)
    OBVIOUS
  <2>4. S # {}
    BY <1>3, <1>5, <2>3
  <2> DEFINE w == CHOOSE v \in S : TRUE
  <2>5. w \in S /\ S \in SUBSET T
    BY <2>4
  <2>6. g[S] = Depth(w) + g[S \ {w}]
    BY <1>5, <2>4, <2>5
  <2> HIDE DEF w
  <2>7. Cardinality(S \ {w}) = Cardinality(S) - 1 /\ Cardinality(S) \in Nat
    BY <1>1, <2>5, CountingWaiters, FS_RemoveElement
  <2>8. S \ {w} \in SUBSET T /\ S \ {w} \notin Bad(g)
    <3>1. S \ {w} \in SUBSET T
      BY <2>5
    <3>2. ASSUME S \ {w} \in Bad(g) PROVE FALSE
      <4>1. Cardinality(S \ {w}) \in Sizes
        BY <3>2
      <4>2. m <= Cardinality(S \ {w})
        BY <2>2, <4>1
      <4> HIDE DEF Sizes, Bad
      <4> QED
        BY <2>3, <2>7, <4>2
    <3> QED
      BY <3>1, <3>2
  <2>9. g[S \ {w}] = Cardinality(Frames(S \ {w}, Depths))
    <3>1. ASSUME NEW R \in SUBSET T, R \notin Bad(g)
          PROVE  g[R] = Cardinality(Frames(R, Depths))
      BY <3>1
    <3> QED
      BY <2>8, <3>1
  <2>10. Cardinality(Frames(S, Depths)) =
            Depth(w) + Cardinality(Frames(S \ {w}, Depths))
    BY <1>4, <2>5
  <2>11. g[S] = Cardinality(Frames(S, Depths))
    BY <2>6, <2>9, <2>10
  <2> QED
    BY <2>3, <2>11
<1>6. Adds(f)
  <2> SUFFICES ASSUME NEW S \in SUBSET T, S # {}
               PROVE  f[S] = LET w == CHOOSE v \in S : TRUE
                             IN  Depth(w) + f[S \ {w}]
    BY <1>3
  <2> DEFINE w == CHOOSE v \in S : TRUE
  <2>1. w \in S
    OBVIOUS
  <2> HIDE DEF w
  <2>2. f[S] = Depth(w) + f[S \ {w}]
    BY <1>4, <2>1
  <2> QED
    BY <2>2 DEF w
<1>7. f = F(f)
    BY <1>6
<1>8. sum = F(sum)
  <2> HIDE DEF F, f
  <2> QED
    BY <1>7
<1>9. Adds(sum)
  <2> HIDE DEF sum
  <2> QED
    BY <1>8
<1>10. Bad(sum) = {}
    BY <1>5, <1>9
<1> HIDE DEF sum
<1> QED
    BY <1>2, <1>10 DEF T

\* Only the depths of the goroutines in question matter.
LEMMA FramesSame ==
    ASSUME NEW S, NEW d, NEW e, \A x \in S : d[x] = e[x]
    PROVE  Frames(S, d) = Frames(S, e)
BY DEF Frames

\* One goroutine less takes away its stack.
LEMMA FramesLess ==
    ASSUME NEW S, NEW d, NEW x \in S, d[x] \in Nat, IsFiniteSet(Frames(S, d))
    PROVE  /\ IsFiniteSet(Frames(S \ {x}, d))
           /\ Cardinality(Frames(S \ {x}, d)) \in Nat
           /\ Cardinality(Frames(S, d)) = Cardinality(Frames(S \ {x}, d)) + d[x]
<1> DEFINE R == S \ {x}
           n == d[x]
<1>1. x \notin R /\ S = R \cup {x}
    OBVIOUS
<1>2. IsFiniteSet(Frames(R, d))
  <2>1. Frames(R, d) \subseteq Frames(S, d)
    BY DEF Frames
  <2> QED
    BY <2>1, FS_Subset
<1>3. Cardinality(Frames(R, d)) \in Nat
    BY <1>2, FS_CardinalityType
<1>4. Cardinality(Frames(R \cup {x}, d)) = Cardinality(Frames(R, d)) + n
  <2> HIDE DEF R
  <2> QED
    BY <1>1, <1>2, FramesAdd
<1> QED
    BY <1>1, <1>2, <1>3, <1>4

\* The types of the depths.
LEMMA DepthsTyped ==
    ASSUME TypeOK
    PROVE  /\ \A t \in Tasks : Depths[t] = depth[t] /\ depth[t] \in Nat
           /\ \A w \in Waiters : Depths[w] = Depth(w) /\ Depth(w) \in Nat
           /\ \A w \in Waiters : w \notin Tasks => Depth(w) = 0
           /\ Depth(NoTask) = 0
BY SchedulerAssumption DEF TypeOK, RunTypes, Depths, Depth, Waiters

\* Steps that claim nothing and end no callback leave the stacks alone.
LEMMA StacksSame ==
    ASSUME Stacks, Going' = Going, UNCHANGED <<host, depth>>,
           \A w \in Waiters : waiting'[w] = "hosting" <=> waiting[w] = "hosting"
    PROVE  Stacks'
<1>1. Tops' = Tops
    BY DEF Tops, Waiters, Going
<1>2. Depths' = Depths
    BY DEF Depths, Depth
<1>3. Frames(Tops, Depths)' = Frames(Tops, Depths)
    BY <1>1, <1>2 DEF Frames
<1>4. \A t \in Tasks : host'[t] # NoTask => t \in Going'
    BY DEF Stacks
<1>5. \A w \in Waiters : waiting'[w] = "hosting" => \E t \in Tasks : host'[t] = w
    BY DEF Stacks
<1>6. \A t \in Going' : depth'[t] = Depth(host[t])' + 1
    BY DEF Stacks, Depth
<1> QED
    BY <1>3, <1>4, <1>5, <1>6 DEF Stacks

\* A claim puts one more callback on a stack, or begins a new stack.
LEMMA ClaimStacks ==
    ASSUME IInv, Slots, Stacks, NEW t \in Tasks, AwaitingStart(t), NEW slot,
           NEW w \in Waiters \cup {NoTask}, Claim(t, slot, w),
           w \in Tasks => run[w] = "body" /\ waiting[w] # "hosting",
           \/ w = NoTask /\ waiting' = waiting
           \/ w \in Waiters /\ waiting' = [waiting EXCEPT ![w] = "hosting"]
    PROVE  Stacks'
<1>1. /\ run[t] = "none" /\ t \notin Going /\ t # w /\ waiting[t] = "idle"
      /\ host[t] = NoTask
    BY DEF IInv, Begun, AwaitingStart, Going, Slots, Stacks
<1>2. /\ host' = [host EXCEPT ![t] = w] /\ run' = [run EXCEPT ![t] = "body"]
      /\ depth' = [depth EXCEPT ![t] = Depth(w) + 1]
    BY DEF Claim
<1>3. Going' = Going \cup {t} /\ Going \subseteq Tasks
    BY <1>1, <1>2 DEF Going, IInv, TypeOK, RunTypes
<1>4. \A u \in Tasks : host[u] # t
    BY <1>1, SchedulerAssumption DEF IInv, Hosting
<1>5. \A u \in Tasks : host'[u] # NoTask => u \in Going'
    BY <1>2, <1>3 DEF Stacks, IInv, TypeOK, RunTypes
<1>6. \A v \in Waiters : waiting'[v] = "hosting" => \E u \in Tasks : host'[u] = v
  <2> SUFFICES ASSUME NEW v \in Waiters, waiting'[v] = "hosting"
               PROVE  \E u \in Tasks : host'[u] = v
    OBVIOUS
  <2>1. CASE v = w
    BY <1>2, <2>1 DEF IInv, TypeOK, RunTypes
  <2>2. CASE v # w
    <3>1. waiting[v] = "hosting"
      BY <2>2 DEF IInv, TypeOK, WaitTypes
    <3>2. PICK u \in Tasks : host[u] = v
      BY <3>1 DEF Stacks
    <3>3. u # t
      BY <1>1, <3>2, SchedulerAssumption DEF Waiters
    <3> QED
      BY <1>2, <3>2, <3>3 DEF IInv, TypeOK, RunTypes
  <2> QED
    BY <2>1, <2>2
<1>7. \A u \in Tasks : u # t => depth'[u] = depth[u] /\ host'[u] = host[u]
    BY <1>2 DEF IInv, TypeOK, RunTypes
<1>8. \A v \in Waiters \cup {NoTask} : v # t => Depth(v)' = Depth(v)
    BY <1>7 DEF Depth
<1>9. \A u \in Going' : depth'[u] = Depth(host[u])' + 1
  <2>1. depth'[t] = Depth(w) + 1 /\ host'[t] = w
    BY <1>2 DEF IInv, TypeOK, RunTypes
  <2>2. Depth(host[t])' = Depth(w)
    BY <1>1, <1>8, <2>1 DEF Depth
  <2>3. ASSUME NEW u \in Going PROVE depth'[u] = Depth(host[u])' + 1
    <3>1. u \in Tasks /\ u # t /\ host[u] \in Waiters \cup {NoTask} /\ host[u] # t
      BY <1>1, <1>3, <1>4 DEF IInv, TypeOK, RunTypes
    <3>2. Depth(host[u])' = Depth(host[u])
      BY <1>7, <1>8, <3>1 DEF Depth
    <3> QED
      BY <1>7, <3>1, <3>2 DEF Stacks
  <2> QED
    BY <1>3, <2>1, <2>2, <2>3
<1>10. TypeOK /\ Tops \subseteq Tasks
    BY <1>3 DEF IInv, Tops
<1>11. /\ IsFiniteSet(Frames(Tops, Depths))
       /\ Cardinality(Frames(Tops, Depths)) = Cardinality(Going)
    BY DEF Stacks
<1>12. Cardinality(Going') = Cardinality(Going) + 1
    BY <1>1, <1>3, Counting, FS_AddElement
<1>13. \A u \in Tasks : u # t => Depths'[u] = Depths[u]
    BY <1>8 DEF Depths, Waiters
<1>14. Depths'[t] = Depth(w) + 1 /\ Depth(w) \in Nat
    BY <1>2, <1>10, DepthsTyped DEF Depths, Depth, Waiters, TypeOK, RunTypes
<1>15. CASE w \notin Tasks
  <2>1. Tops' = Tops \cup {t} /\ t \notin Tops
    <3>1. \A u \in Tasks : waiting'[u] = waiting[u]
      BY <1>15 DEF IInv, TypeOK, WaitTypes, Waiters
    <3> QED
      BY <1>1, <1>3, <3>1 DEF Tops
  <2>2. Frames(Tops, Depths') = Frames(Tops, Depths)
    <3>1. \A u \in Tops : Depths'[u] = Depths[u]
      BY <1>10, <1>13, <2>1
    <3> QED
      BY <3>1, FramesSame
  <2>3. Depth(w) = 0
    BY <1>15 DEF Depth
  <2>4. Depths'[t] = 1
    BY <1>14, <2>3
  <2> DEFINE d == Depths'
             T == Tops
  <2> HIDE DEF d, T
  <2>5. /\ IsFiniteSet(Frames(T \cup {t}, d))
        /\ Cardinality(Frames(T \cup {t}, d)) = Cardinality(Frames(T, d)) + 1
    BY <1>11, <2>1, <2>2, <2>4, FramesAdd DEF d, T
  <2>6. Frames(Tops, Depths)' = Frames(T \cup {t}, d)
    BY <2>1 DEF T, d, Frames
  <2>7. /\ IsFiniteSet(Frames(Tops, Depths)')
        /\ Cardinality(Frames(Tops, Depths)') = Cardinality(Going')
    BY <1>11, <1>12, <2>2, <2>5, <2>6 DEF T, d
  <2> QED
    BY <1>5, <1>6, <1>9, <2>7 DEF Stacks
<1>16. CASE w \in Tasks
  <2>1. w \in Tops /\ t \notin Tops
    BY <1>1, <1>16 DEF Tops, Going
  <2>2. Tops' = (Tops \ {w}) \cup {t}
    <3>1. \A u \in Tasks : waiting'[u] = IF u = w THEN "hosting" ELSE waiting[u]
      BY <1>16, SchedulerAssumption DEF IInv, TypeOK, WaitTypes, Waiters
    <3> QED
      BY <1>1, <1>3, <3>1 DEF Tops
  <2>3. Depths[w] = Depth(w)
    BY <1>10, <1>16, DepthsTyped DEF Waiters
  <2>4. /\ IsFiniteSet(Frames(Tops \ {w}, Depths))
        /\ Cardinality(Frames(Tops \ {w}, Depths)) \in Nat
        /\ Cardinality(Frames(Tops, Depths)) =
                Cardinality(Frames(Tops \ {w}, Depths)) + Depth(w)
    <3> DEFINE T == Tops
               d == Depths
    <3>1. w \in T /\ d[w] \in Nat /\ IsFiniteSet(Frames(T, d))
      BY <1>11, <1>14, <2>1, <2>3
    <3> HIDE DEF T, d
    <3>2. /\ IsFiniteSet(Frames(T \ {w}, d))
          /\ Cardinality(Frames(T \ {w}, d)) \in Nat
          /\ Cardinality(Frames(T, d)) =
                Cardinality(Frames(T \ {w}, d)) + d[w]
      BY <3>1, FramesLess
    <3> QED
      BY <2>3, <3>2 DEF T, d
  <2>5. Frames(Tops \ {w}, Depths') = Frames(Tops \ {w}, Depths)
    <3>1. \A u \in Tops \ {w} : Depths'[u] = Depths[u]
      BY <1>10, <1>13, <2>1
    <3> QED
      BY <3>1, FramesSame
  <2> DEFINE d == Depths'
             T == Tops \ {w}
             n == Depth(w) + 1
             c == Cardinality(Frames(T, Depths))
  <2> HIDE DEF d, T
  <2>6. /\ IsFiniteSet(Frames(T \cup {t}, d))
        /\ Cardinality(Frames(T \cup {t}, d)) = Cardinality(Frames(T, d)) + n
    <3>1. n \in Nat /\ n = d[t] /\ t \notin T /\ IsFiniteSet(Frames(T, d))
      BY <1>14, <2>1, <2>4, <2>5 DEF d, T
    <3> HIDE DEF n
    <3> QED
      BY <3>1, FramesAdd
  <2>7. Frames(Tops, Depths)' = Frames(T \cup {t}, d)
    BY <2>2 DEF T, d, Frames
  <2>8. Cardinality(Frames(T \cup {t}, d)) = c + (Depth(w) + 1)
    BY <2>5, <2>6 DEF T, d
  <2>9. c \in Nat /\ Cardinality(Going) = c + Depth(w)
    BY <1>11, <2>4 DEF T
  <2>10. c + (Depth(w) + 1) = Cardinality(Going) + 1
    <3> HIDE DEF c
    <3> QED
      BY <1>14, <2>9
  <2>11. /\ IsFiniteSet(Frames(Tops, Depths)')
         /\ Cardinality(Frames(Tops, Depths)') = Cardinality(Going')
    BY <1>12, <2>6, <2>7, <2>8, <2>10
  <2> QED
    BY <1>5, <1>6, <1>9, <2>11 DEF Stacks
<1> QED
    BY <1>15, <1>16

\* A callback that ends leaves its stack to the waiter below it.
LEMMA FinishStacks ==
    ASSUME IInv, Slots, Stacks, NEW t \in Tasks, FinishClaimed(t)
    PROVE  Stacks'
<1> DEFINE w == host[t]
<1>1. t \in Going /\ waiting[t] = "idle" /\ t \in Tops
  <2>1. run[t] = "tail"
    BY DEF FinishClaimed
  <2>2. waiting[t] = "idle"
    BY <2>1 DEF Slots
  <2> QED
    BY <2>1, <2>2 DEF Going, Tops
<1>2. /\ host' = [host EXCEPT ![t] = NoTask] /\ run' = [run EXCEPT ![t] = "done"]
      /\ depth' = depth
    BY DEF FinishClaimed
<1>3. TypeOK /\ Tops \subseteq Tasks /\ Going \subseteq Tasks
    BY DEF IInv, Tops, Going
<1>4. Going' = Going \ {t}
    BY <1>2, <1>3 DEF Going, TypeOK, RunTypes
<1>5. w \in Waiters \cup {NoTask} /\ w # t
  <2>1. w \in Waiters \cup {NoTask}
    BY <1>3 DEF TypeOK, RunTypes
  <2>2. w # NoTask => waiting[w] = "hosting"
    BY DEF IInv, Hosting
  <2> QED
    BY <1>1, <2>1, <2>2, SchedulerAssumption
<1>6. \A u \in Tasks : u # t => host'[u] = host[u]
    BY <1>2, <1>3 DEF TypeOK, RunTypes
<1>7. host'[t] = NoTask
    BY <1>2, <1>3 DEF TypeOK, RunTypes
<1>8. \A u \in Tasks : host'[u] # NoTask => u \in Going'
    BY <1>4, <1>6, <1>7 DEF Stacks
<1>9. \A v \in Waiters :
        waiting'[v] = "hosting" <=> waiting[v] = "hosting" /\ v # w
  <2> SUFFICES ASSUME NEW v \in Waiters
               PROVE  waiting'[v] = "hosting" <=> waiting[v] = "hosting" /\ v # w
    OBVIOUS
  <2>1. CASE w = NoTask
    BY <2>1, SchedulerAssumption DEF FinishClaimed, Waiters
  <2>2. CASE w # NoTask
    <3>1. waiting' = [waiting EXCEPT ![w] =
                            IF target[w] = t THEN "look" ELSE "claim"]
      BY <2>2 DEF FinishClaimed
    <3> QED
      BY <1>3, <1>5, <2>2, <3>1 DEF TypeOK, WaitTypes
  <2> QED
    BY <2>1, <2>2
<1>10. \A v \in Waiters : waiting'[v] = "hosting" => \E u \in Tasks : host'[u] = v
  <2> SUFFICES ASSUME NEW v \in Waiters, waiting'[v] = "hosting"
               PROVE  \E u \in Tasks : host'[u] = v
    OBVIOUS
  <2>1. waiting[v] = "hosting" /\ v # w
    BY <1>9
  <2>2. PICK u \in Tasks : host[u] = v
    BY <2>1 DEF Stacks
  <2> QED
    BY <1>6, <2>1, <2>2
<1>11. Depths' = Depths
    BY <1>2 DEF Depths, Depth
<1>12. \A u \in Going' : depth'[u] = Depth(host[u])' + 1
  <2> SUFFICES ASSUME NEW u \in Going' PROVE depth'[u] = Depth(host[u])' + 1
    OBVIOUS
  <2>1. u \in Going /\ u \in Tasks /\ host'[u] = host[u]
    BY <1>3, <1>4, <1>6
  <2>2. Depth(host[u])' = Depth(host[u])
    BY <1>2, <2>1 DEF Depth
  <2> QED
    BY <1>2, <2>1, <2>2 DEF Stacks
<1>13. /\ IsFiniteSet(Frames(Tops, Depths))
       /\ Cardinality(Frames(Tops, Depths)) = Cardinality(Going)
       /\ Cardinality(Going) \in Nat
    BY <1>3, Counting DEF Stacks
<1>14. Cardinality(Going') = Cardinality(Going) - 1
    BY <1>1, <1>3, <1>4, Counting, FS_RemoveElement
<1>15. depth[t] = Depth(w) + 1 /\ Depths[t] = depth[t]
       /\ Depths[t] \in Nat /\ Depth(w) \in Nat
    BY <1>1, <1>3, <1>5, DepthsTyped DEF Stacks
<1> DEFINE d == Depths
           T == Tops \ {t}
<1>16. /\ IsFiniteSet(Frames(T, d)) /\ Cardinality(Frames(T, d)) \in Nat
       /\ Cardinality(Frames(Tops, d)) = Cardinality(Frames(T, d)) + d[t]
  <2> DEFINE R == Tops
  <2>1. t \in R /\ d[t] \in Nat /\ IsFiniteSet(Frames(R, d))
    BY <1>1, <1>13, <1>15
  <2> HIDE DEF R, d
  <2>2. /\ IsFiniteSet(Frames(R \ {t}, d))
        /\ Cardinality(Frames(R \ {t}, d)) \in Nat
        /\ Cardinality(Frames(R, d)) = Cardinality(Frames(R \ {t}, d)) + d[t]
    BY <2>1, FramesLess
  <2> QED
    BY <2>2 DEF R
<1> HIDE DEF T, d
<1> DEFINE c == Cardinality(Frames(T, d))
<1>17. Cardinality(Going') = c + Depth(w)
  <2>1. Cardinality(Going) = c + (Depth(w) + 1) /\ c \in Nat /\ Depth(w) \in Nat
    BY <1>13, <1>15, <1>16 DEF d
  <2> HIDE DEF c
  <2> QED
    BY <1>14, <2>1
<1>18. CASE w \notin Tasks
  <2>1. Tops' = T
    <3>1. \A u \in Tasks : waiting'[u] = "hosting" <=> waiting[u] = "hosting"
      BY <1>9, <1>18 DEF Waiters
    <3> QED
      BY <1>3, <1>4, <3>1 DEF Tops, T
  <2>2. Depth(w) = 0
    BY <1>18 DEF Depth
  <2>3. Frames(Tops, Depths)' = Frames(T, d)
    BY <1>11, <2>1 DEF Frames, d
  <2>4. Cardinality(Going') = c
    <3>1. c \in Nat
      BY <1>16
    <3> HIDE DEF c
    <3> QED
      BY <1>17, <2>2, <3>1
  <2> QED
    BY <1>8, <1>10, <1>12, <1>16, <2>3, <2>4 DEF Stacks
<1>19. CASE w \in Tasks
  <2>1. waiting[w] = "hosting" /\ w \in Going /\ w \notin Tops
    <3>1. waiting[w] = "hosting"
      BY <1>19, SchedulerAssumption DEF IInv, Hosting
    <3>2. run[w] = "body"
      BY <1>19, <3>1 DEF Slots
    <3> QED
      BY <1>19, <3>1, <3>2 DEF Going, Tops
  <2>2. Tops' = T \cup {w} /\ w \notin T
    <3>1. \A u \in Tasks :
            waiting'[u] = "hosting" <=> waiting[u] = "hosting" /\ u # w
      BY <1>9 DEF Waiters
    <3> QED
      BY <1>3, <1>4, <1>5, <2>1, <3>1 DEF Tops, T
  <2>3. d[w] = Depth(w) /\ Depth(w) \in Nat
    BY <1>3, <1>19, DepthsTyped DEF d, Waiters
  <2>4. /\ IsFiniteSet(Frames(T \cup {w}, d))
        /\ Cardinality(Frames(T \cup {w}, d)) =
                Cardinality(Frames(T, d)) + Depth(w)
    <3> DEFINE x == w
               n == Depth(w)
    <3>1. x \notin T /\ n \in Nat /\ n = d[x] /\ IsFiniteSet(Frames(T, d))
      BY <1>16, <2>2, <2>3
    <3> HIDE DEF x, n
    <3>2. /\ IsFiniteSet(Frames(T \cup {x}, d))
          /\ Cardinality(Frames(T \cup {x}, d)) = Cardinality(Frames(T, d)) + n
      BY <3>1, FramesAdd
    <3> QED
      BY <3>2 DEF x, n
  <2>5. Frames(Tops, Depths)' = Frames(T \cup {w}, d)
    BY <1>11, <2>2 DEF Frames, d
  <2> QED
    BY <1>8, <1>10, <1>12, <1>17, <2>4, <2>5 DEF Stacks
<1> QED
    BY <1>18, <1>19

\* Every step keeps the stacks of callbacks.
LEMMA StacksStep ==
    ASSUME IInv, Slots, Stacks, [Next]_vars
    PROVE  Stacks'
<1>1. CASE /\ UNCHANGED runVars
           /\ \A w \in Waiters :
                waiting'[w] = "hosting" <=> waiting[w] = "hosting"
    BY <1>1, StacksSame DEF Going, runVars, slotVars
<1>2. CASE UNCHANGED <<runVars, waitVars>>
    BY <1>1, <1>2 DEF waitVars
<1>3. CASE TakeEligible
  <2>1. Queue # {} => Min(Queue) \in Queue
    BY MinIsLeast DEF Queue
  <2>2. CASE Startable
    <3>1. Min(Queue) \in Tasks /\ AwaitingStart(Min(Queue)) /\ NoTask \notin Tasks
      BY <2>1, <2>2, SchedulerAssumption DEF Startable, Queue
    <3>2. Claim(Min(Queue), TRUE, NoTask) /\ UNCHANGED waiting
      BY <1>3, <2>2 DEF TakeEligible, waitVars
    <3> QED
      BY <3>1, <3>2, ClaimStacks
  <2>3. CASE ~Startable
    BY <1>2, <1>3, <2>3 DEF TakeEligible
  <2> QED
    BY <2>2, <2>3
<1>4. ASSUME NEW w \in Waiters, NEW t \in Tasks, AwaitingStart(t),
             HostTask(w, t), waiting[w] \in {"claim", "donate"}
      PROVE  Stacks'
    BY <1>4, ClaimStacks DEF HostTask, Slots
<1>5. ASSUME NEW w \in Waiters, ClaimAwaited(w)
      PROVE  Stacks'
  <2>1. target[w] \in Tasks
    BY <1>5 DEF ClaimAwaited, IInv, Awaiting
  <2>2. CASE HostTask(w, target[w]) /\ AwaitingStart(target[w])
    BY <1>4, <1>5, <2>1, <2>2 DEF ClaimAwaited
  <2>3. CASE UNCHANGED runVars /\ waiting' = [waiting EXCEPT ![w] = "stalled"]
    BY <1>1, <1>5, <2>3 DEF ClaimAwaited, IInv, TypeOK, WaitTypes
  <2> QED
    BY <1>5, <2>2, <2>3 DEF ClaimAwaited
<1>6. ASSUME NEW w \in Waiters, ClaimAny(w)
      PROVE  Stacks'
  <2>1. Queue # {} => Min(Queue) \in Queue
    BY MinIsLeast DEF Queue
  <2>2. CASE HostTask(w, Min(Queue)) /\ Queue # {}
    BY <1>4, <1>6, <2>1, <2>2 DEF ClaimAny, Queue
  <2>3. CASE UNCHANGED runVars /\ waiting' = [waiting EXCEPT ![w] = "look"]
    BY <1>1, <1>6, <2>3 DEF ClaimAny, IInv, TypeOK, WaitTypes
  <2> QED
    BY <1>6, <2>2, <2>3 DEF ClaimAny
<1>7. ASSUME NEW w \in Waiters, \/ \E t \in Tasks : WaitBegin(w, t)
                                \/ CheckStalled(w) \/ Park(w) \/ EndWait(w)
                                \/ AbortWait(w) \/ ReportWait(w)
      PROVE  Stacks'
  <2>1. UNCHANGED runVars
    BY <1>7 DEF WaitBegin, CheckStalled, Park, EndWait, AbortWait, ReportWait
  <2>2. \E x \in WaitPlaces \ {"hosting"} :
            waiting[w] # "hosting" /\ waiting' = [waiting EXCEPT ![w] = x]
    BY <1>7 DEF WaitBegin, CheckStalled, Park, EndWait, AbortWait, ReportWait,
        WaitPlaces
  <2>3. \A v \in Waiters : waiting'[v] = "hosting" <=> waiting[v] = "hosting"
    BY <2>2 DEF IInv, TypeOK, WaitTypes
  <2> QED
    BY <1>1, <2>1, <2>3
<1>8. ASSUME NEW t \in Tasks, \/ Returns(t) \/ Panics(t) \/ Observe(t)
                              \/ ResolveObserved(t) \/ FailFollowers(t)
      PROVE  Stacks'
  <2>1. UNCHANGED <<slotVars, waitVars>>
    BY <1>8 DEF Returns, Panics, Observe, ResolveObserved, FailFollowers
  <2>2. run[t] \notin {"none", "done"}
    BY <1>8 DEF Returns, Panics, Observe, ResolveObserved, FailFollowers, Active
  <2>3. \E x \in Runs \ {"none", "done"} : run' = [run EXCEPT ![t] = x]
    BY <1>8 DEF Returns, Panics, Observe, ResolveObserved, FailFollowers, Runs
  <2>4. Going' = Going
    BY <2>2, <2>3 DEF Going, IInv, TypeOK, RunTypes
  <2> QED
    BY <2>1, <2>4, StacksSame DEF slotVars, waitVars
<1>9. ASSUME NEW t \in Tasks, NEW s \in Terminal, CallerResolve(t, s)
      PROVE  Stacks'
    BY <1>9, StacksSame DEF CallerResolve, Going, slotVars, waitVars
<1>10. CASE ReleaseWaits
    BY <1>1, <1>10 DEF ReleaseWaits
<1>11. ASSUME NEW t \in Tasks,
              \/ Problem(t) \/ Doing(t) \/ Define(t)
              \/ \E p \in Tasks : After(t, p)
              \/ WakeTask(t) \/ PlaceTask(t) \/ StopTask(t)
       PROVE  Stacks'
    BY <1>2, <1>11
    DEF Problem, Doing, Define, After, WakeTask, PlaceTask, StopTask
<1>12. CASE \/ DeclareTask \/ EndKick \/ BlockCycles \/ Interrupt
            \/ CancelActive \/ CancelNext \/ AbandonQueued \/ FinishBegin
            \/ Drained \/ SweepBegin \/ SweepTask \/ SweepEnd \/ Over
            \/ UNCHANGED vars
    BY <1>2, <1>12
    DEF DeclareTask, EndKick, BlockCycles, Interrupt, CancelActive, CancelNext,
        AbandonQueued, FinishBegin, Drained, SweepBegin, SweepTask, SweepEnd,
        Over, vars
<1> QED
    BY <1>3, <1>5, <1>6, <1>7, <1>8, <1>9, <1>10, <1>11, <1>12, FinishStacks
    DEF Next, Program, Runtime, TaskStep, WaitStep, Kick, Ending

\* A new Output has no stack.
LEMMA InitStacks == Init => Stacks
<1> SUFFICES ASSUME Init PROVE Stacks
    OBVIOUS
<1>1. Going = {} /\ Tops = {}
    BY DEF Init, Going, Tops
<1>2. Frames(Tops, Depths) = {}
    BY <1>1 DEF Frames
<1> QED
    BY <1>1, <1>2, FS_EmptySet DEF Init, Stacks

-----------------------------------------------------------------------------
\* When no callback runs beyond those the tickets hold, each stack of callbacks
\* has a parked waiter on top.
LEMMA EveryTopParked ==
    ASSUME IInv, Slots, Stacks, ~ (executing > HeldCallbacks)
    PROVE  Tops \subseteq Tickets
<1> DEFINE A == Frames(Tops, Depths)
           B == Frames(Tickets, Depths)
<1>1. /\ TypeOK /\ Tops \subseteq Tasks /\ Going \subseteq Tasks
      /\ Tickets \subseteq Waiters
    BY DEF IInv, Tops, Going, Tickets
<1>2. B \subseteq A
  <2> SUFFICES ASSUME NEW f \in B PROVE f \in A
    OBVIOUS
  <2>1. f \in Tickets \X Nat /\ 1 <= f[2] /\ f[2] <= Depths[f[1]]
    BY DEF Frames
  <2>2. f[1] \in Waiters /\ f[1] \in Tickets /\ f[2] \in Nat
    BY <1>1, <2>1
  <2>3. Depths[f[1]] # 0
    <3>1. Depths[f[1]] \in Nat
      BY <1>1, <2>2, DepthsTyped
    <3> QED
      BY <2>1, <2>2, <3>1
  <2>4. f[1] \in Tasks
    BY <1>1, <2>2, <2>3, DepthsTyped
  <2>5. run[f[1]] = "body" /\ waiting[f[1]] = "parked"
    BY <2>2, <2>4 DEF Tickets, Slots
  <2>6. f[1] \in Tops
    BY <2>4, <2>5 DEF Tops, Going
  <2> QED
    BY <2>1, <2>6 DEF Frames
<1>3. IsFiniteSet(A) /\ Cardinality(A) = Cardinality(Going)
    BY DEF Stacks
<1>4. executing = Cardinality(Going) /\ Cardinality(Going) \in Nat
    BY <1>1, Counting DEF IInv, Accounts
<1>5. HeldCallbacks = Cardinality(B)
    BY <1>1, HeldAreFrames
<1>6. IsFiniteSet(B) /\ Cardinality(B) <= Cardinality(A)
      /\ (Cardinality(A) = Cardinality(B) => A = B)
  <2> HIDE DEF A, B
  <2> QED
    BY <1>2, <1>3, FS_Subset
<1>7. A = B
  <2>1. Cardinality(B) \in Nat
    BY <1>6, FS_CardinalityType
  <2>2. ~ (Cardinality(A) > Cardinality(B)) /\ Cardinality(A) \in Nat
    BY <1>3, <1>4, <1>5
  <2> DEFINE a == Cardinality(A)
             b == Cardinality(B)
  <2>3. a = b
    <3> HIDE DEF a, b
    <3>1. a \in Nat /\ b \in Nat /\ b <= a /\ ~ (a > b)
      BY <1>6, <2>1, <2>2 DEF a, b
    <3> QED
      BY <3>1
  <2> QED
    BY <1>6, <2>3
<1>8. ASSUME NEW t \in Tops PROVE t \in Tickets
  <2>1. t \in Tasks /\ t \in Going /\ t \in Waiters
    BY <1>1 DEF Tops, Waiters
  <2>2. Depths[t] = Depth(host[t]) + 1
    BY <1>1, <2>1, DepthsTyped DEF Stacks
  <2>3. Depth(host[t]) \in Nat
    BY <1>1, <2>1, DepthsTyped DEF TypeOK, RunTypes
  <2>4. 1 <= Depths[t]
    BY <2>2, <2>3
  <2>5. <<t, 1>> \in A
    BY <2>4 DEF Frames
  <2> QED
    BY <1>7, <2>5 DEF Frames
<1> QED
    BY <1>8

\* Until the sweep, what was Defined and is not settled is under way or awaits
\* its start.
LEMMA UnderWay ==
    ASSUME IInv, Swept, finish \notin {"sweeping", "finished"},
           NEW t \in Tasks, ~ IsTerminal(t), ~ NeverDefined(t)
    PROVE  t \in Going \/ AwaitingStart(t)
<1>1. phase[t] \in {"Queued", "Parked", "Running", "Abandoned"}
    BY DEF NeverDefined, IInv, TypeOK, SettleTypes, Phases
<1>2. phase[t] # "Abandoned"
    BY DEF Swept, Closed
<1>3. phase[t] = "Running" => t \in Going
    BY DEF Swept, IInv, Begun, Going
<1> QED
    BY <1>1, <1>2, <1>3 DEF AwaitingStart

\* When a kick finds the run stalled over parked waiters, the callbacks under way
\* and what they wait for all need each other, unless something is eligible.
LEMMA StallIsCircle ==
    ASSUME EInv, Stacks, SInv, WInv, Unlocked, Stalled, Tickets # {}, Queue = {}
    PROVE  Circle(Needs)
<1>1. TypeOK /\ todo = {}
    BY DEF EInv, IInv, Unlocked
<1>2. Tickets \subseteq Waiters /\ \A w \in Tickets : waiting[w] = "parked"
    BY DEF Tickets
<1>3. finish \notin {"sweeping", "finished"}
  <2>1. PICK w \in Tickets : TRUE
    OBVIOUS
  <2> QED
    BY <1>2, <2>1, ClosedLedger DEF EInv, LedgerComplete
<1>4. ASSUME NEW w \in Tickets
      PROVE  /\ target[w] \in Tasks /\ ~ IsTerminal(target[w])
             /\ ~ NeverDefined(target[w])
    BY <1>1, <1>2
    DEF EInv, IInv, Awaiting, Stalled, ProgressPossible, WInv, Answering
<1>5. \E R \in SUBSET Tasks :
        /\ \A w \in Tickets : target[w] \in R
        /\ \A u \in R : ~ NeverDefined(u)
        /\ \A u \in R : ~ IsTerminal(u) => Blockers(u) \subseteq R
  <2>1. CASE draining
    <3> DEFINE R == {u \in Tasks : ~ NeverDefined(u)}
    <3>1. \A u \in Tasks : Blockers(u) \subseteq R
      BY <1>1, <2>1 DEF Blockers, Outcome, TypeOK, RowTypes
    <3> QED
      BY <1>4, <3>1
  <2>2. CASE ~ draining
    <3>1. PICK R \in SUBSET Tasks : Inputs(R)
      BY <2>2 DEF SInv, Sealed
    <3>2. \A w \in Tickets : target[w] \in R
      BY <1>2, <3>1 DEF Inputs
    <3>3. \A u \in R : ~ NeverDefined(u)
      BY <1>1, <3>1 DEF Inputs
    <3>4. \A u \in R : \A p \in Blockers(u) : ~ IsTerminal(p) /\ p \in preds[u]
      BY DEF Blockers, Outcome, IsTerminal, Terminal
    <3> QED
      BY <3>1, <3>2, <3>3, <3>4 DEF Inputs
  <2> QED
    BY <2>1, <2>2
<1>6. PICK R \in SUBSET Tasks :
        /\ \A w \in Tickets : target[w] \in R
        /\ \A u \in R : ~ NeverDefined(u)
        /\ \A u \in R : ~ IsTerminal(u) => Blockers(u) \subseteq R
    BY <1>5
<1> DEFINE S == Going \cup {t \in R : AwaitingStart(t)}
<1>7. \A t \in R : ~ IsTerminal(t) => t \in S
    BY <1>3, <1>6, UnderWay DEF EInv, SInv
<1>8. S \in SUBSET Tasks /\ S # {}
    BY <1>4, <1>6, <1>7 DEF Going
<1>9. ASSUME NEW t \in Going PROVE Needs(t) \cap S # {}
  <2>1. t \in Tasks /\ t \in Waiters
    BY DEF Going, Waiters
  <2>2. CASE waiting[t] = "hosting"
    <3>1. PICK u \in Tasks : host[u] = t
      BY <2>1, <2>2 DEF Stacks
    <3>2. u \in Going
      BY <2>1, <3>1, SchedulerAssumption DEF Stacks
    <3> QED
      BY <3>1, <3>2 DEF Needs
  <2>3. CASE waiting[t] # "hosting"
    <3>1. t \in Tickets
      BY <2>3, EveryTopParked DEF Tops, EInv, Stalled, ProgressPossible
    <3>2. run[t] = "body" /\ waiting[t] # "idle"
      BY <1>2, <2>1, <3>1 DEF EInv, Slots
    <3>3. target[t] \in Awaits(t)
      BY <3>2 DEF Awaits
    <3>4. target[t] \in S
      BY <1>4, <1>6, <1>7, <3>1
    <3> QED
      BY <3>3, <3>4 DEF Needs
  <2> QED
    BY <2>2, <2>3
<1>10. ASSUME NEW t \in R, AwaitingStart(t) PROVE Needs(t) \cap S # {}
  <2>1. phase[t] # "Queued"
    <3>1. SUFFICES ASSUME phase[t] = "Queued" PROVE FALSE
      OBVIOUS
    <3>2. preds[t] = {}
      BY <1>1, <1>10, <3>1 DEF SInv, InLine, Lined, Owed
    <3> QED
      BY <1>10, <3>1, <3>2 DEF Queue, Eligible, Forgotten
  <2>2. parkedOn[t] \in Blockers(t)
    BY <1>1, <1>10, <2>1 DEF SInv, InLine, Lined, Owed
  <2>3. parkedOn[t] \in R /\ ~ IsTerminal(parkedOn[t])
    BY <1>6, <1>10, <2>2
    DEF AwaitingStart, Blockers, Outcome, IsTerminal, Terminal
  <2>4. parkedOn[t] \in S
    BY <1>7, <2>3
  <2>5. parkedOn[t] \in Needs(t)
    BY <1>10, <2>2 DEF Needs, Awaits
  <2> QED
    BY <2>4, <2>5
<1>11. \A t \in S : Needs(t) \cap S # {}
    BY <1>9, <1>10
<1> HIDE DEF S
<1> QED
    BY <1>8, <1>11 DEF Circle

\* Only a stall releases a waiter.
LEMMA OnlyStallReleases ==
    ASSUME [Next]_vars
    PROVE  released' \subseteq released \/ ReleaseWaits
<1>1. CASE \E w \in Waiters : WaitStep(w)
    BY <1>1
    DEF WaitStep, ClaimAwaited, HostTask, CheckStalled, ClaimAny, Park, EndWait,
        AbortWait, ReportWait
<1>2. CASE Program \/ Over \/ UNCHANGED vars
    BY <1>2
    DEF Program, DeclareTask, After, Problem, Doing, Define, CallerResolve,
        WaitBegin, Interrupt, Over, vars, waitVars
<1>3. CASE \E t \in Tasks : TaskStep(t) \/ Returns(t) \/ Panics(t)
    BY <1>3
    DEF TaskStep, WakeTask, PlaceTask, StopTask, Observe, ResolveObserved,
        FailFollowers, FinishClaimed, Returns, Panics, waitVars
<1>4. CASE TakeEligible \/ EndKick \/ BlockCycles \/ FinishBegin \/ Ending
    BY <1>4
    DEF TakeEligible, EndKick, BlockCycles, FinishBegin, Ending, CancelActive,
        CancelNext, AbandonQueued, Drained, SweepBegin, SweepTask, SweepEnd,
        waitVars
<1> QED
    BY <1>1, <1>2, <1>3, <1>4 DEF Next, Runtime, Kick

\* What the argument about stalls rests on holds of every joined program.
LEMMA StallInvariant ==
    ASSUME Joined
    PROVE  Spec => [](EInv /\ WInv /\ SInv /\ Stacks)
<1>1. Init => WInv /\ SInv /\ Stacks
    BY InitStacks, InitSInv DEF Init, WInv, Answering, WaitTellsTruth
<1>2. /\ EInv /\ EInv' /\ WInv /\ SInv /\ Stacks /\ [Next]_vars
      => WInv' /\ SInv' /\ Stacks'
    BY StableStep, ForwardStep, AnsweringStep, SInvStep, StacksStep DEF EInv, IInv
<1> QED
    BY <1>1, <1>2, EInvInvariant, PTL DEF Spec

\* One step releases a waiter only for such a reason.
LEMMA ReleaseReasons ==
    ASSUME EInv, WInv, SInv, Stacks, [Next]_vars
    PROVE  \/ released' \subseteq released \/ cancelled
           \/ Circle(Needs)
           \/ Queue # {} /\ inflight = Ceiling
<1> SUFFICES ASSUME ReleaseWaits, ~ cancelled, Queue # {} => inflight # Ceiling
             PROVE  Circle(Needs)
    BY OnlyStallReleases
<1>1. Unlocked /\ Stalled /\ Tickets # {}
    BY DEF ReleaseWaits, KickAgain
<1>2. inflight <= Ceiling /\ inflight \in Nat /\ Ceiling \in Nat
    BY SchedulerAssumption DEF EInv, Slots, IInv, TypeOK, CountTypes
<1>3. Queue = {}
    BY <1>1, <1>2 DEF Stalled, ProgressPossible, Startable
<1> QED
    BY <1>1, <1>3, StallIsCircle

\* resolveStall: a stall ends a Wait with ErrWaitDeadlock only when callbacks and
\* Tasks truly need each other, or when eligible work is left behind a full pool,
\* in which the comment of anyStartableLocked sees progress.
THEOREM OnlyStarvationDeceives ==
    ASSUME Joined
    PROVE  Spec => [][\/ released' \subseteq released \/ cancelled
                      \/ Circle(Needs)
                      \/ Queue # {} /\ inflight = Ceiling]_vars
BY ReleaseReasons, StallInvariant, PTL DEF Spec

-----------------------------------------------------------------------------
\* The Tasks whose callbacks may call Wait.
Nesting == {t \in Tasks : \E p \in Tasks : <<t, p>> \in Waitings}

\* A Wait under way is one the program may call.
Called == \A w \in Waiters : waiting[w] # "idle" => <<w, target[w]>> \in Waitings

\* Every step keeps that.
LEMMA CalledStep ==
    ASSUME IInv, Called, [Next]_vars
    PROVE  Called'
<1> SUFFICES ASSUME NEW w \in Waiters, waiting'[w] # "idle"
             PROVE  <<w, target'[w]>> \in Waitings
    BY DEF Called
<1>1. CASE waiting[w] # "idle" /\ target'[w] = target[w]
    BY <1>1 DEF Called
<1>2. ASSUME NEW t \in Tasks, WaitBegin(w, t)
      PROVE  <<w, target'[w]>> \in Waitings
    BY <1>2 DEF WaitBegin, IInv, TypeOK, WaitTypes
<1>3. CASE Park(w) \/ EndWait(w) \/ AbortWait(w) \/ ReportWait(w)
    BY <1>1, <1>3
    DEF Park, EndWait, AbortWait, ReportWait, IInv, TypeOK, WaitTypes
<1> QED
    BY <1>1, <1>2, <1>3, WaitMoves

\* When every stack of callbacks has a parked waiter on top, only callbacks that
\* Wait hold slots.
LEMMA SlotLeft ==
    ASSUME IInv, Slots, Stacks, Called, ~ (executing > HeldCallbacks),
           Cardinality(Nesting) < Ceiling
    PROVE  inflight < Ceiling
<1>1. \A t \in pooled : t \in Nesting
  <2> SUFFICES ASSUME NEW t \in pooled PROVE t \in Nesting
    OBVIOUS
  <2>1. t \in Going /\ t \in Tasks /\ t \in Waiters
    BY DEF IInv, Accounts, Going, Waiters
  <2>2. waiting[t] # "idle"
    BY <2>1, EveryTopParked DEF Tops, Tickets
  <2>3. <<t, target[t]>> \in Waitings /\ target[t] \in Tasks
    BY <2>1, <2>2 DEF Called, IInv, Awaiting
  <2> QED
    BY <2>1, <2>3 DEF Nesting
<1>2. IsFiniteSet(Nesting) /\ Cardinality(Nesting) \in Nat
  <2>1. Nesting \subseteq Tasks
    BY DEF Nesting
  <2> QED
    BY <2>1, Counting
<1>3. Cardinality(pooled) <= Cardinality(Nesting) /\ Cardinality(pooled) \in Nat
    BY <1>1, <1>2, FS_Subset, FS_CardinalityType
<1>4. inflight = Cardinality(pooled) /\ Ceiling \in Nat
    BY SchedulerAssumption DEF IInv, Accounts
<1> DEFINE a == Cardinality(pooled)
           b == Cardinality(Nesting)
<1>5. a <= b /\ b < Ceiling /\ a \in Nat /\ b \in Nat /\ inflight = a
    BY <1>2, <1>3, <1>4
<1> HIDE DEF a, b
<1> QED
    BY <1>4, <1>5

\* While fewer callbacks Wait than there are slots, a stall never takes a run that
\* can still move for one that cannot (releaseWaitsLocked).
THEOREM NoFalseDeadlockHolds ==
    ASSUME Joined, Cardinality(Nesting) < Ceiling
    PROVE  Spec => NoFalseDeadlock
<1>1. Init => Called
    BY DEF Init, Called
<1>2. EInv /\ Called /\ [Next]_vars => Called'
    BY CalledStep DEF EInv
<1>3. ASSUME EInv, WInv, SInv, Stacks, Called, [Next]_vars
      PROVE  released' \subseteq released \/ cancelled \/ Circle(Needs)
  <2> SUFFICES ASSUME ReleaseWaits, ~ cancelled PROVE Circle(Needs)
    BY <1>3, OnlyStallReleases
  <2>1. Unlocked /\ Stalled /\ Tickets # {}
    BY DEF ReleaseWaits, KickAgain
  <2>2. inflight < Ceiling
    BY <1>3, <2>1, SlotLeft DEF EInv, Stalled, ProgressPossible
  <2>3. Queue = {}
    BY <2>1, <2>2 DEF Stalled, ProgressPossible, Startable
  <2> QED
    BY <1>3, <2>1, <2>3, StallIsCircle
<1> QED
    BY <1>1, <1>2, <1>3, StallInvariant, PTL DEF Spec, NoFalseDeadlock

=============================================================================
