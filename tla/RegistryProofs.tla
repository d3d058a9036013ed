--------------------------- MODULE RegistryProofs ---------------------------
(***************************************************************************)
(* Exclusion, the queue contract and the shortcut of regrantLocked, proved *)
(* for every set of holds and keys and every containment relation; and     *)
(* that goroutines which hold at most one resource, and never Wait while   *)
(* they hold it, cannot block on each other (HeldWait).                    *)
(***************************************************************************)
EXTENDS Registry, HeldWait, SequenceTheorems, WellFoundedInduction, TLAPS

\* The holds that wait ahead of q.
Ahead(q) == {g \in queue : arrival[g] < arrival[q]}

\* q conflicts with a held claim or one ahead of it in the queue.
Blocked(q) == ConflictsLocked(q, Ahead(q))

\* Where a hold that the registry records may stand, and what it carries.
Bookkeeping ==
    /\ held \cap queue = {}
    /\ \A h \in held : pc[h] \in {"waiting", "running", "releasing", "abandoning"}
    /\ \A h \in queue : pc[h] \in {"waiting", "abandoning"}
    /\ \A h \in Holds : pc[h] = "running" => h \in held
    /\ \A h \in Holds : pc[h] = "admitting" => claim[h] \in Claims
    /\ \A h \in held \cup queue : claim[h] \in Claims /\ arrival[h] <= arrivals
    /\ \A g, h \in held \cup queue : arrival[g] = arrival[h] => g = h

\* What the withdrawal that owns r.mu has done so far: the waiters it has
\* passed are blocked and come first; one it has not passed either is still
\* blocked or conflicts with the claim that left.
Scanning ==
    /\ seen \subseteq queue
    /\ mu = NoHold => seen = {} /\ freed = NoClaim
    /\ mu # NoHold => /\ pc[mu] \in {"releasing", "abandoning"}
                      /\ mu \notin held \cup queue
    /\ \A s \in seen : Blocked(s)
    /\ \A s \in seen : \A q \in queue \ seen : arrival[s] < arrival[q]
    /\ (mu = NoHold \/ freed # NoClaim) =>
            \A q \in queue \ seen :
                Blocked(q) \/ (freed # NoClaim /\ Conflicts(claim[q], freed))

\* Claims held together are compatible, whatever their callbacks are doing.
HeldCompatible ==
    \A g, h \in held : g # h => ~Conflicts(claim[g], claim[h])

IInv == TypeOK /\ Bookkeeping /\ Scanning /\ HeldCompatible /\ NoOvertaking

-----------------------------------------------------------------------------
\* Claim.conflicts does not depend on the order of its operands.
LEMMA ConflictsSymmetric ==
    ASSUME NEW c, NEW o
    PROVE  Conflicts(c, o) <=> Conflicts(o, c)
BY DEF Conflicts, Overlaps

\* regrantLocked: a later waiter that overlaps the freed claim overlaps the
\* write on the freed key that stays blocked, which is why the scan may stop.
LEMMA StopIsSound ==
    ASSUME NEW w, NEW q, NEW f,
           w.mode = "write", w.key = f.key, Conflicts(q, f)
    PROVE  Conflicts(w, q)
BY DEF Conflicts, Overlaps

\* The registry starts with nothing held, nothing queued and the mutex free.
LEMMA InitIInv == Init => IInv
BY RegistryAssumption
DEF Init, IInv, TypeOK, Bookkeeping, Scanning, HeldCompatible, NoOvertaking,
    Places, Blocked

\* Actions that leave held, queue, the scan and every recorded claim alone.
Untouched == <<held, queue, arrival, arrivals, mu, freed, seen>>

\* A step that only moves calls forward outside the mutex keeps the scan and
\* the queue as they were.
LEMMA BlockedUntouched ==
    ASSUME IInv, UNCHANGED Untouched,
           \A h \in held \cup queue : claim'[h] = claim[h],
           mu # NoHold => pc'[mu] = pc[mu]
    PROVE  Scanning' /\ HeldCompatible' /\ NoOvertaking'
<1>1. \A q \in queue : Blocked(q) => Blocked(q)'
    BY DEF Untouched, Blocked, Ahead, ConflictsLocked, IInv
<1>2. Scanning'
    BY <1>1 DEF Untouched, Scanning, IInv
<1> QED
    BY <1>2 DEF Untouched, HeldCompatible, NoOvertaking, IInv

LEMMA HoldResourceStep ==
    ASSUME IInv, NEW h \in Holds, NEW p \in Holds \cup {NoHold},
           HoldResource(h, p)
    PROVE  IInv'
<1>1. TypeOK'
    BY DEF HoldResource, IInv, TypeOK, Places
<1>2. \A g \in held \cup queue : claim'[g] = claim[g] /\ g # h
    BY DEF HoldResource, IInv, TypeOK, Bookkeeping
<1>3. Bookkeeping'
    BY <1>2 DEF HoldResource, IInv, TypeOK, Bookkeeping
<1>4. mu # NoHold => pc'[mu] = pc[mu]
    BY DEF HoldResource, IInv, TypeOK, Scanning
<1> QED
    BY <1>1, <1>2, <1>3, <1>4, BlockedUntouched
    DEF HoldResource, Untouched, IInv

LEMMA CancelContextStep ==
    ASSUME IInv, NEW h \in Holds, CancelContext(h)
    PROVE  IInv'
<1>1. TypeOK' /\ Bookkeeping'
    BY DEF CancelContext, IInv, TypeOK, Bookkeeping
<1> QED
    BY <1>1, BlockedUntouched DEF CancelContext, Untouched, IInv

\* Enter, GiveUp and Return move one call between places outside the mutex.
LEMMA OutsideStep ==
    ASSUME IInv, NEW h \in Holds, Enter(h) \/ GiveUp(h) \/ Return(h)
    PROVE  IInv'
<1>1. TypeOK'
    BY DEF Enter, GiveUp, Return, IInv, TypeOK, Places
<1>2. Bookkeeping'
    BY DEF Enter, GiveUp, Return, IInv, TypeOK, Bookkeeping
<1>3. mu # NoHold => pc'[mu] = pc[mu]
    BY DEF Enter, GiveUp, Return, IInv, TypeOK, Scanning
<1> QED
    BY <1>1, <1>2, <1>3, BlockedUntouched
    DEF Enter, GiveUp, Return, Untouched, IInv

\* A claim joining the tail unblocks nobody and is behind everyone.
LEMMA AdmitStep ==
    ASSUME IInv, NEW h \in Holds, AdmitLocked(h)
    PROVE  IInv'
<1>1. TypeOK'
    BY DEF AdmitLocked, IInv, TypeOK, Places
<1>2. /\ h \notin held \cup queue
      /\ mu = NoHold /\ mu' = NoHold /\ seen = {} /\ freed = NoClaim
      /\ \A g \in held \cup queue : arrival'[g] = arrival[g] /\ arrival[g] < arrival'[h]
      /\ arrival'[h] = arrivals' /\ arrivals < arrivals'
    BY DEF AdmitLocked, IInv, TypeOK, Bookkeeping, Scanning
<1>3. Bookkeeping'
    BY <1>2 DEF AdmitLocked, IInv, TypeOK, Bookkeeping
<1>4. \A q \in queue : Blocked(q) => Blocked(q)'
    BY <1>2 DEF AdmitLocked, Blocked, Ahead, ConflictsLocked
<1>5. h \in queue' => Blocked(h)'
    BY <1>2 DEF AdmitLocked, Blocked, Ahead, ConflictsLocked
<1>6. Scanning'
    BY <1>2, <1>4, <1>5 DEF AdmitLocked, IInv, Scanning
<1>7. HeldCompatible'
    BY <1>2, ConflictsSymmetric
    DEF AdmitLocked, IInv, HeldCompatible, ConflictsLocked
<1>8. NoOvertaking'
    BY <1>2, ConflictsSymmetric
    DEF AdmitLocked, IInv, TypeOK, NoOvertaking, ConflictsLocked
<1> QED
    BY <1>1, <1>3, <1>6, <1>7, <1>8 DEF IInv

LEMMA ReleaseStep ==
    ASSUME IInv, NEW h \in Holds, Release(h)
    PROVE  IInv'
<1>1. TypeOK'
    BY DEF Release, IInv, TypeOK
<1>2. Bookkeeping'
    BY DEF Release, IInv, TypeOK, Bookkeeping
<1>3. \A q \in queue : Blocked(q) => Blocked(q)' \/ Conflicts(claim[h], claim[q])
    BY DEF Release, Blocked, Ahead, ConflictsLocked
<1>4. Scanning'
    BY <1>3, ConflictsSymmetric, RegistryAssumption
    DEF Release, IInv, Bookkeeping, Scanning
<1>5. HeldCompatible' /\ NoOvertaking'
    BY DEF Release, IInv, HeldCompatible, NoOvertaking
<1> QED
    BY <1>1, <1>2, <1>4, <1>5 DEF IInv

LEMMA AbandonStep ==
    ASSUME IInv, NEW h \in Holds, Abandon(h)
    PROVE  IInv'
<1>1. TypeOK' /\ Bookkeeping'
    BY DEF Abandon, IInv, TypeOK, Bookkeeping
<1>2. Scanning'
    BY RegistryAssumption DEF Abandon, IInv, Scanning
<1>3. HeldCompatible' /\ NoOvertaking'
    BY DEF Abandon, IInv, HeldCompatible, NoOvertaking
<1> QED
    BY <1>1, <1>2, <1>3 DEF IInv

\* One iteration of the scan: what it grants was blocked by nothing, and what
\* it keeps or passes over is blocked.
LEMMA RegrantStep ==
    ASSUME IInv, NEW q \in Holds, Regrant(q)
    PROVE  IInv'
<1> USE DEF IInv
<1>1. /\ mu # NoHold /\ q \in queue /\ q \notin seen /\ q \notin held
      /\ Ahead(q) = seen
      /\ \A o \in queue \ seen : o # q => arrival[q] < arrival[o]
    BY DEF Regrant, IsNext, Ahead, TypeOK, Bookkeeping, Scanning
<1>2. CASE MayUnblock(q) /\ ~ConflictsLocked(q, seen)
    <2>1. /\ held' = held \cup {q} /\ queue' = queue \ {q} /\ seen' = seen
          /\ UNCHANGED <<pc, claim, ctxDone, released, arrival, arrivals, mu, freed>>
        BY <1>2 DEF Regrant
    <2>2. TypeOK' /\ Bookkeeping'
        BY <1>1, <2>1 DEF TypeOK, Bookkeeping
    <2>3. \A o \in queue \ {q} : Blocked(o) => Blocked(o)'
        BY <1>1, <2>1 DEF Blocked, Ahead, ConflictsLocked
    <2>4. Scanning'
        <3>1. mu' \notin held' \cup queue'
            BY <1>1, <2>1 DEF Scanning
        <3>2. \A s \in seen' : Blocked(s)'
            BY <1>1, <2>1, <2>3 DEF Scanning
        <3>3. freed' # NoClaim =>
                \A o \in queue' \ seen' :
                    Blocked(o)' \/ (freed' # NoClaim /\ Conflicts(claim'[o], freed'))
            BY <1>1, <2>1, <2>3 DEF Scanning
        <3> QED
            BY <1>1, <2>1, <3>1, <3>2, <3>3 DEF Scanning
    <2>5. HeldCompatible'
        BY <1>1, <1>2, <2>1, ConflictsSymmetric DEF HeldCompatible, ConflictsLocked
    <2>6. NoOvertaking'
        BY <1>1, <1>2, <2>1, ConflictsSymmetric
        DEF NoOvertaking, ConflictsLocked, TypeOK
    <2> QED
        BY <2>2, <2>4, <2>5, <2>6
<1>3. CASE ~(MayUnblock(q) /\ ~ConflictsLocked(q, seen))
    <2>1. /\ held' = held /\ queue' = queue
          /\ seen' = IF MayUnblock(q) /\ StopsScan(q) THEN queue ELSE seen \cup {q}
          /\ UNCHANGED <<pc, claim, ctxDone, released, arrival, arrivals, mu, freed>>
        BY <1>3 DEF Regrant
    <2>2. TypeOK' /\ Bookkeeping'
        BY <1>1, <2>1 DEF TypeOK, Bookkeeping
    <2>3. \A o \in queue : Blocked(o) <=> Blocked(o)'
        BY <2>1 DEF Blocked, Ahead, ConflictsLocked
    <2>4. Blocked(q)
        BY <1>1, <1>3 DEF MayUnblock, Blocked, Scanning
    <2>5. CASE MayUnblock(q) /\ StopsScan(q)
        <3>1. \A o \in queue \ seen : o # q => Blocked(o)
            <4> SUFFICES ASSUME NEW o \in queue \ seen, o # q
                         PROVE  Blocked(o)
                OBVIOUS
            <4>1. CASE Conflicts(claim[o], freed)
                <5>1. Conflicts(claim[q], claim[o])
                    BY <4>1, <2>5, StopIsSound DEF StopsScan
                <5>2. q \in Ahead(o)
                    BY <1>1 DEF Ahead
                <5> QED
                    BY <5>1, <5>2 DEF Blocked, ConflictsLocked
            <4> QED
                BY <4>1, <2>5 DEF StopsScan, Scanning
        <3>2. \A o \in queue : Blocked(o)'
            BY <3>1, <2>3, <2>4 DEF Scanning
        <3>3. Scanning'
            BY <1>1, <2>1, <2>5, <3>2 DEF Scanning
        <3> QED
            BY <2>1, <2>2, <3>3 DEF HeldCompatible, NoOvertaking
    <2>6. CASE ~(MayUnblock(q) /\ StopsScan(q))
        <3>1. seen' = seen \cup {q}
            BY <2>1, <2>6
        <3>2. \A s \in seen' : Blocked(s)'
            BY <1>1, <2>3, <2>4, <3>1 DEF Scanning
        <3>3. \A s \in seen' : \A o \in queue' \ seen' : arrival'[s] < arrival'[o]
            BY <1>1, <2>1, <3>1 DEF Scanning
        <3>4. Scanning'
            BY <1>1, <2>1, <2>3, <3>1, <3>2, <3>3 DEF Scanning
        <3> QED
            BY <2>1, <2>2, <3>4 DEF HeldCompatible, NoOvertaking
    <2> QED
        BY <2>5, <2>6
<1> QED
    BY <1>2, <1>3

\* The mutex is given back only when every waiter has been passed.
LEMMA UnlockStep ==
    ASSUME IInv, NEW h \in Holds, Unlock(h)
    PROVE  IInv'
<1>1. TypeOK'
    BY DEF Unlock, IInv, TypeOK, Places
<1>2. Bookkeeping'
    BY RegistryAssumption DEF Unlock, IInv, TypeOK, Bookkeeping, Scanning
<1>3. \A q \in queue : Blocked(q)'
    BY DEF Unlock, IInv, Scanning, Blocked, Ahead, ConflictsLocked
<1>4. Scanning'
    BY <1>3 DEF Unlock, IInv, Scanning
<1> QED
    BY <1>1, <1>2, <1>4 DEF Unlock, IInv, HeldCompatible, NoOvertaking

\* IInv is inductive.
LEMMA NextIInv == IInv /\ [Next]_vars => IInv'
<1> SUFFICES ASSUME IInv, [Next]_vars PROVE IInv'
    OBVIOUS
<1>1. CASE UNCHANGED vars
    <2>1. TypeOK' /\ Bookkeeping'
        BY <1>1 DEF vars, IInv, TypeOK, Bookkeeping
    <2> QED
        BY <1>1, <2>1, BlockedUntouched DEF vars, Untouched, IInv
<1>2. CASE Next
    <2>1. CASE Finished
        BY <1>1, <2>1 DEF Finished
    <2> QED
        BY <1>2, <2>1, HoldResourceStep, CancelContextStep, OutsideStep,
           AdmitStep, ReleaseStep, AbandonStep, RegrantStep, UnlockStep
        DEF Next, Progress
<1> QED
    BY <1>1, <1>2

\* The invariant that carries all the results below.
LEMMA Invariance == Spec => []IInv
BY InitIInv, NextIInv, PTL DEF Spec

\* The registry's variables keep their types.
THEOREM TypeCorrect == Spec => []TypeOK
<1>1. IInv => TypeOK
    BY DEF IInv
<1> QED
    BY <1>1, Invariance, PTL

\* For every number of callers and every key space: two callbacks whose
\* claims conflict never run together.
THEOREM ExclusionHolds == Spec => []Exclusion
<1>1. IInv => Exclusion
    BY DEF IInv, Bookkeeping, HeldCompatible, Exclusion
<1> QED
    BY <1>1, Invariance, PTL

\* regrantLocked's shortcuts never leave a grantable claim waiting once the
\* mutex is free: passing over claims that did not conflict with the freed one
\* and stopping at a blocked write on its key lose nobody.
THEOREM EveryWaiterBlockedHolds == Spec => []EveryWaiterBlocked
<1>1. IInv => EveryWaiterBlocked
    BY DEF IInv, Scanning, Blocked, Ahead, EveryWaiterBlocked
<1> QED
    BY <1>1, Invariance, PTL

\* No claim is granted past a conflicting claim that arrived earlier.
THEOREM NoOvertakingHolds == Spec => []NoOvertaking
<1>1. IInv => NoOvertaking
    BY DEF IInv
<1> QED
    BY <1>1, Invariance, PTL

\* No grant harms a callback that runs or a claim that came earlier.
THEOREM GrantsSoundHolds == Spec => []GrantsSound
<1>1. Exclusion /\ NoOvertaking <=> GrantsSound
    BY DEF GrantsSound
<1> QED
    BY <1>1, ExclusionHolds, NoOvertakingHolds, PTL

\* Whatever the registry records belongs to a call that has not returned.
THEOREM NoLeakHolds == Spec => []NoLeak
<1>1. IInv => NoLeak
    BY DEF IInv, Bookkeeping, NoLeak
<1> QED
    BY <1>1, Invariance, PTL

-----------------------------------------------------------------------------
(* HeldWait, for structured callbacks (Habit = {}): any number of          *)
(* goroutines, Tasks, resources and claims.                                *)

\* Goroutines are born in the order of their numbers.
BornInOrder ==
    \A g, h \in Goroutine : g =< h /\ doing[h] # "unborn" => doing[g] # "unborn"

\* A goroutine is younger than its maker and, unless the scheduler started it,
\* works for the same Task.
Lineage ==
    \A h \in Goroutine :
        /\ doing[h] = "unborn" => maker[h] = None
        /\ maker[h] # None => maker[h] < h
        /\ maker[h] # None /\ h \notin worker => rank[h] = rank[maker[h]]
        /\ h \in worker => maker[h] # None /\ rank[h] \in Task

\* Where a goroutine with a claim may stand, and the context fn is called with.
ClaimPlaces ==
    \A g \in Goroutine :
        /\ doing[g] \in {"queued", "granted", "leaving"} => claimed[g] # "none"
        /\ doing[g] \in {"unborn", "waiting", "ended"} => claimed[g] = "none"
        /\ Noted(g) => ctx[g] = g

\* A Wait is for a Task later than the caller's own; a join is of a child.
Targets ==
    \A g \in Goroutine :
        /\ doing[g] = "waiting" => target[g] \in Task /\ target[g] > rank[g]
        /\ doing[g] = "joining" =>
              /\ target[g] \in Goroutine \ worker
              /\ maker[target[g]] = g

\* What a claim holder's children may do while it works under the claim: run,
\* with the held context, claiming nothing and starting nothing.  CheckFree and
\* holdsClaim see to that; the holder may therefore join them.
ChildOfHolder ==
    \A g, h \in Goroutine :
        /\ h \in Children(g) /\ claimed[g] # "none" /\ doing[g] # "leaving"
        => /\ doing[g] \in {"running", "joining"}
           /\ doing[h] = "running" /\ claimed[h] = "none" /\ ctx[h] = g
           /\ Children(h) = {}

\* No goroutine waits twice for a claim.
LineDistinct ==
    \A i, j \in DOMAIN line : line[i] = line[j] => i = j

\* The inductive invariant of HeldWait.
GInv ==
    /\ GoroutinesTypeOK /\ LineDistinct /\ BornInOrder /\ Lineage
    /\ ClaimPlaces /\ Targets /\ ChildOfHolder

\* A set of numbers has a least member.
LEMMA LeastNumber ==
    ASSUME NEW S, S \subseteq Nat, S # {}
    PROVE  \E m \in S : \A x \in S : m =< x
<1> DEFINE R == OpToRel(<, Nat)
<1>1. \A x, y \in Nat : x < y => <<x, y>> \in R
    BY Zenon DEF OpToRel
<1>2. PICK m \in S : \A x \in S : ~ (<<x, m>> \in R)
  <2> HIDE DEF R
  <2>1. IsWellFoundedOn(R, Nat)
    BY NatLessThanWellFounded, Zenon DEF R
  <2> QED
    BY <2>1, WFMin, Zenon
<1>3. \A x \in S : m =< x
  <2> HIDE DEF R
  <2>1. ASSUME NEW x \in S, ~ (m =< x)
        PROVE  x < m
    BY <2>1
  <2> QED
    BY <1>1, <1>2, <2>1
<1> QED
    BY <1>3

\* Newest is the first goroutine not born yet.
LEMMA NewestIsNext ==
    ASSUME Unborn # {}
    PROVE  /\ Newest \in Goroutine /\ doing[Newest] = "unborn"
           /\ \A h \in Goroutine : doing[h] = "unborn" => Newest =< h
<1>1. Unborn \subseteq Nat
    BY BoundsAssumption DEF Unborn, Goroutine
<1>2. \E m \in Unborn : \A h \in Unborn : m =< h
    BY <1>1, LeastNumber
<1>3. Newest \in Unborn /\ \A h \in Unborn : Newest =< h
    BY <1>2 DEF Newest
<1> QED
    BY <1>3 DEF Unborn

\* A birth, by a callback's `go` (Spawn) or by kick (Define).
LEMMA GoStep ==
    ASSUME GInv, NEW g \in Goroutine, doing[g] = "running", NEW t \in Task \cup {None},
           NEW c \in Goroutine \cup {None}, Go(g, t, c),
           UNCHANGED <<claimed, line, target, taken>>,
           \/ worker' = worker \cup {Newest} /\ t \in Task
           \/ /\ worker' = worker /\ t = rank[g] /\ c = ctx[g]
              /\ g \in worker \/ \A m \in Goroutine : maker[g] = m => ~Granted(m),
           state' \in [Task -> {"declared", "running", "settled"}]
    PROVE  GInv'
<1> DEFINE n == Newest
<1>1. /\ n \in Goroutine /\ doing[n] = "unborn" /\ n # g
      /\ \A h \in Goroutine : doing[h] = "unborn" => n =< h
    BY NewestIsNext DEF Go
<1>2. /\ maker' = [maker EXCEPT ![n] = g]
      /\ rank' = [rank EXCEPT ![n] = t]
      /\ ctx' = [ctx EXCEPT ![n] = c]
      /\ doing' = [doing EXCEPT ![n] = "running"]
    BY DEF Go
<1>3. worker' = worker \cup {n} \/ worker' = worker
    OBVIOUS
<1>4. /\ g < n
      /\ claimed[n] = "none"
      /\ \A h \in Goroutine : maker[h] # n
  <2> USE DEF GInv
  <2>1. g < n
    BY <1>1, BoundsAssumption DEF BornInOrder, Goroutine
  <2>2. claimed[n] = "none"
    BY <1>1 DEF ClaimPlaces
  <2>3. ASSUME NEW h \in Goroutine, maker[h] = n
        PROVE  FALSE
    <3>1. n # None /\ n < h
      BY <1>1, <2>3, BoundsAssumption DEF Lineage, Goroutine, None
    <3>2. doing[h] # "unborn"
      BY <2>3, <3>1 DEF Lineage
    <3> QED
      BY <1>1, <3>1, <3>2, BoundsAssumption DEF BornInOrder, Goroutine
  <2> QED
    BY <2>1, <2>2, <2>3
<1> HIDE DEF n
<1>5. GoroutinesTypeOK'
  <2> USE DEF GoroutinesTypeOK, GInv
  <2>1. doing' \in [Goroutine -> PC]
    BY <1>1, <1>2 DEF PC
  <2>2. {x \in Goroutine : doing'[x] = "queued"} = {x \in Goroutine : doing[x] = "queued"}
    BY <1>1, <1>2
  <2>3. line' \in Seq({x \in Goroutine : doing'[x] = "queued"})
    BY <2>2
  <2> QED
    BY <1>1, <1>2, <1>3, <2>1, <2>3
<1>6. BornInOrder'
    BY <1>1, <1>2, BoundsAssumption DEF GInv, BornInOrder, GoroutinesTypeOK, Goroutine
<1>7. Lineage'
  <2> SUFFICES ASSUME NEW h \in Goroutine
               PROVE  /\ doing'[h] = "unborn" => maker'[h] = None
                      /\ maker'[h] # None => maker'[h] < h
                      /\ maker'[h] # None /\ h \notin worker' => rank'[h] = rank'[maker'[h]]
                      /\ h \in worker' => maker'[h] # None /\ rank'[h] \in Task
    BY DEF Lineage
  <2>1. CASE h = n
    <3>1. h \notin worker' => rank'[h] = rank'[g]
      BY <1>1, <1>2, <2>1 DEF GInv, GoroutinesTypeOK, n
    <3>2. h \in worker' => t \in Task
      <4>1. CASE worker' = worker /\ t = rank[g]
        BY <4>1, <1>1, <2>1 DEF GInv, GoroutinesTypeOK, Lineage
      <4> QED
        BY <4>1
    <3> QED
      BY <1>1, <1>2, <1>4, <2>1, <3>1, <3>2 DEF GInv, GoroutinesTypeOK, Goroutine, None
  <2>2. CASE h # n
    <3>1. maker'[h] = maker[h] /\ rank'[h] = rank[h] /\ doing'[h] = doing[h]
      BY <1>2, <2>2, <1>1 DEF GInv, GoroutinesTypeOK
    <3>2. maker[h] # None => rank'[maker[h]] = rank[maker[h]]
      BY <1>2, <1>4, <1>1 DEF GInv, GoroutinesTypeOK
    <3> QED
      BY <3>1, <3>2, <2>2, <1>3 DEF GInv, Lineage
  <2> QED
    BY <2>1, <2>2
<1>8. ClaimPlaces'
    BY <1>1, <1>2, <1>4 DEF GInv, ClaimPlaces, GoroutinesTypeOK, Noted, Granted
<1>9. Targets'
  <2> SUFFICES ASSUME NEW h \in Goroutine
               PROVE  /\ doing'[h] = "waiting" => target'[h] \in Task /\ target'[h] > rank'[h]
                      /\ doing'[h] = "joining" =>
                            /\ target'[h] \in Goroutine \ worker'
                            /\ maker'[target'[h]] = h
    BY DEF Targets
  <2>1. h # n \/ doing'[h] = "running"
    BY <1>1, <1>2 DEF GInv, GoroutinesTypeOK
  <2>2. CASE doing'[h] = "joining"
    <3>1. h # n /\ doing[h] = "joining"
      BY <2>1, <2>2, <1>2, <1>1 DEF GInv, GoroutinesTypeOK
    <3>2. target[h] \in Goroutine \ worker /\ maker[target[h]] = h
      BY <3>1 DEF GInv, Targets
    <3>3. target[h] # n
      BY <3>2, <1>1 DEF GInv, Lineage, Goroutine, None
    <3> QED
      BY <2>2, <3>2, <3>3, <1>2, <1>3, <1>1 DEF GInv, GoroutinesTypeOK
  <2>3. CASE doing'[h] = "waiting"
    BY <2>1, <2>3, <1>2, <1>1 DEF GInv, GoroutinesTypeOK, Targets
  <2> QED
    BY <2>2, <2>3
<1>10. ChildOfHolder'
  <2> SUFFICES ASSUME NEW m \in Goroutine, NEW h \in Goroutine,
                      h \notin worker', maker'[h] = m, doing'[h] \notin {"unborn", "ended"},
                      claimed[m] # "none", doing'[m] # "leaving"
               PROVE  /\ doing'[m] \in {"running", "joining"}
                      /\ doing'[h] = "running" /\ claimed[h] = "none" /\ ctx'[h] = m
                      /\ \A k \in Goroutine :
                            k \in worker' \/ maker'[k] # h \/ doing'[k] \in {"unborn", "ended"}
    BY DEF ChildOfHolder, Children, Alive
  <2>1. m # n /\ doing'[m] = doing[m]
    BY <1>1, <1>2, <1>4 DEF GInv, GoroutinesTypeOK
  <2>2. CASE h = n
    <3>1. m = g
      BY <1>2, <2>2, <1>1 DEF GInv, GoroutinesTypeOK
    <3>2. worker' = worker /\ c = ctx[g] /\ ctx[g] = g
      <4>1. worker' = worker /\ c = ctx[g]
        BY <2>2 DEF n
      <4>2. ctx[g] = g
        BY <3>1 DEF GInv, ClaimPlaces, Noted, Granted
      <4> QED
        BY <4>1, <4>2
    <3>3. \A k \in Goroutine : maker'[k] # n
      BY <1>1, <1>2, <1>4 DEF GInv, GoroutinesTypeOK
    <3> QED
      BY <1>1, <1>2, <1>4, <2>1, <2>2, <3>1, <3>2, <3>3 DEF GInv, GoroutinesTypeOK
  <2>3. CASE h # n
    <3>1. h \notin worker /\ maker[h] = m /\ doing[h] = doing'[h] /\ ctx'[h] = ctx[h]
      BY <1>1, <1>2, <1>3, <2>3 DEF GInv, GoroutinesTypeOK
    <3>2. h \in Children(m)
      BY <3>1 DEF Children, Alive
    <3>3. /\ doing[m] \in {"running", "joining"}
          /\ doing[h] = "running" /\ claimed[h] = "none" /\ ctx[h] = m
          /\ Children(h) = {}
      BY <2>1, <3>2 DEF GInv, ChildOfHolder
    <3>4. ASSUME NEW k \in Goroutine, k \notin worker', maker'[k] = h,
                 doing'[k] \notin {"unborn", "ended"}
          PROVE  FALSE
      <4>1. CASE k = n
        <5>1. h = g /\ worker' = worker
          BY <3>4, <4>1, <1>2, <1>1 DEF GInv, GoroutinesTypeOK, n
        <5>2. ~Granted(m)
          BY <5>1, <3>1, <4>1, <3>4 DEF n
        <5> QED
          BY <5>2, <3>3 DEF Granted
      <4>2. CASE k # n
        <5>1. k \in Children(h)
          BY <3>4, <4>2, <1>2, <1>3 DEF GInv, GoroutinesTypeOK, Children, Alive
        <5> QED
          BY <5>1, <3>3
      <4> QED
        BY <4>1, <4>2
    <3> QED
      BY <2>1, <3>1, <3>3, <3>4
  <2> QED
    BY <2>2, <2>3
<1>d. LineDistinct'
    BY DEF GInv, LineDistinct
<1> QED
    BY <1>5, <1>6, <1>7, <1>8, <1>9, <1>10, <1>d DEF GInv

\* Without a birth, the family tree stays.
LEMMA FamilyKept ==
    ASSUME GInv, UNCHANGED <<maker, rank, worker>>,
           \A h \in Goroutine : doing'[h] = "unborn" <=> doing[h] = "unborn"
    PROVE  BornInOrder' /\ Lineage'
<1>1. BornInOrder'
    BY DEF GInv, BornInOrder
<1>2. Lineage'
    BY DEF GInv, Lineage
<1> QED
    BY <1>1, <1>2

\* The callback returns.
LEMMA EndStep ==
    ASSUME GInv, NEW g \in Goroutine, End(g)
    PROVE  GInv'
<1> USE DEF End
<1>0. doing' = [doing EXCEPT ![g] = "ended"] /\ doing[g] = "running" /\ doing \in [Goroutine -> PC]
    BY DEF GInv, GoroutinesTypeOK
<1>1. GoroutinesTypeOK'
  <2> USE DEF GoroutinesTypeOK, GInv
  <2>1. {x \in Goroutine : doing'[x] = "queued"} = {x \in Goroutine : doing[x] = "queued"}
    BY <1>0
  <2>2. line' \in Seq({x \in Goroutine : doing'[x] = "queued"})
    BY <2>1
  <2>3. state' \in [Task -> {"declared", "running", "settled"}]
    OBVIOUS
  <2> QED
    BY <1>0, <2>2, <2>3 DEF PC
<1>2. BornInOrder' /\ Lineage'
    BY <1>0, FamilyKept
<1>3. ClaimPlaces'
    BY <1>0 DEF GInv, ClaimPlaces, Noted, Granted
<1>4. Targets'
    BY <1>0 DEF GInv, Targets
<1>5. ChildOfHolder'
    BY <1>0 DEF GInv, ChildOfHolder, Children, Alive
<1>d. LineDistinct'
    BY DEF GInv, LineDistinct
<1> QED
    BY <1>1, <1>2, <1>3, <1>4, <1>5, <1>d DEF GInv

\* A callback blocks on a goroutine it started.
LEMMA JoinStep ==
    ASSUME GInv, NEW g \in Goroutine, NEW h \in Goroutine, Join(g, h)
    PROVE  GInv'
<1> USE DEF Join
<1>0. /\ doing' = [doing EXCEPT ![g] = "joining"] /\ doing[g] = "running"
      /\ doing \in [Goroutine -> PC] /\ target' = [target EXCEPT ![g] = h]
      /\ target \in [Goroutine -> 0..(MaxGoroutine + MaxTask)]
      /\ h \in Goroutine \ worker /\ maker[h] = g
      /\ h \in 0..(MaxGoroutine + MaxTask)
    BY BoundsAssumption DEF GInv, GoroutinesTypeOK, Children, Goroutine
<1>1. GoroutinesTypeOK'
  <2> USE DEF GoroutinesTypeOK, GInv
  <2>1. {x \in Goroutine : doing'[x] = "queued"} = {x \in Goroutine : doing[x] = "queued"}
    BY <1>0
  <2>2. line' \in Seq({x \in Goroutine : doing'[x] = "queued"})
    BY <2>1
  <2> QED
    BY <1>0, <2>2 DEF PC
<1>2. BornInOrder' /\ Lineage'
    BY <1>0, FamilyKept
<1>3. ClaimPlaces'
    BY <1>0 DEF GInv, ClaimPlaces, Noted, Granted
<1>4. Targets'
    BY <1>0 DEF GInv, Targets
<1>5. ChildOfHolder'
    BY <1>0 DEF GInv, ChildOfHolder, Children, Alive
<1>d. LineDistinct'
    BY DEF GInv, LineDistinct
<1> QED
    BY <1>1, <1>2, <1>3, <1>4, <1>5, <1>d DEF GInv

\* A goroutine that blocked on another, or on a Task, runs again.
LEMMA ResumeStep ==
    ASSUME GInv, NEW g \in Goroutine, Joined(g) \/ Awake(g)
    PROVE  GInv'
<1>0. /\ doing' = [doing EXCEPT ![g] = "running"] /\ doing[g] \in {"joining", "waiting"}
      /\ doing \in [Goroutine -> PC] /\ target' = [target EXCEPT ![g] = 0]
      /\ target \in [Goroutine -> 0..(MaxGoroutine + MaxTask)]
      /\ UNCHANGED <<maker, rank, worker, ctx, claimed, line, state, taken>>
    BY DEF GInv, GoroutinesTypeOK, Joined, Awake
<1>1. GoroutinesTypeOK'
  <2> USE DEF GoroutinesTypeOK, GInv
  <2>1. {x \in Goroutine : doing'[x] = "queued"} = {x \in Goroutine : doing[x] = "queued"}
    BY <1>0
  <2>2. line' \in Seq({x \in Goroutine : doing'[x] = "queued"})
    BY <1>0, <2>1
  <2> QED
    BY <1>0, <2>2, BoundsAssumption DEF PC
<1>2. BornInOrder' /\ Lineage'
    BY <1>0, FamilyKept
<1>3. ClaimPlaces'
    BY <1>0 DEF GInv, ClaimPlaces, Noted, Granted
<1>4. Targets'
    BY <1>0 DEF GInv, Targets
<1>5. ChildOfHolder'
    BY <1>0 DEF GInv, ChildOfHolder, Children, Alive
<1>d. LineDistinct'
    BY <1>0 DEF GInv, LineDistinct
<1> QED
    BY <1>1, <1>2, <1>3, <1>4, <1>5, <1>d DEF GInv

\* holdResource: a claim is granted at once or joins the line.
LEMMA HoldStep ==
    ASSUME Habit = {}, GInv, NEW g \in Goroutine, NEW r \in Resource, Hold(g, r)
    PROVE  GInv'
<1>a. /\ claimed' = [claimed EXCEPT ![g] = r] /\ doing[g] = "running"
      /\ UNCHANGED <<maker, rank, worker, ctx, target, state>>
      /\ \/ doing' = [doing EXCEPT ![g] = "granted"] /\ UNCHANGED line
         \/ doing' = [doing EXCEPT ![g] = "queued"] /\ line' = Append(line, g)
      /\ Children(g) = {} /\ ctx[g] = None
    BY DEF Hold, CheckFree
<1>0. /\ r # "none" /\ doing \in [Goroutine -> PC]
      /\ claimed \in [Goroutine -> Resource \cup {"none"}]
    BY BoundsAssumption DEF GInv, GoroutinesTypeOK
<1>b. \A m \in Goroutine : g \in Children(m) => claimed[m] = "none" \/ doing[m] = "leaving"
  <2>1. \A m \in Goroutine : m # None
    BY DEF Goroutine, None
  <2> QED
    BY <1>a, <2>1 DEF GInv, ChildOfHolder
<1>1. GoroutinesTypeOK'
  <2> USE DEF GoroutinesTypeOK, GInv
  <2>1. taken' \in [Goroutine -> 0..MaxHolds]
    BY BoundsAssumption DEF Hold
  <2>2. line' \in Seq({x \in Goroutine : doing'[x] = "queued"})
    <3>1. CASE doing' = [doing EXCEPT ![g] = "granted"] /\ UNCHANGED line
      <4>1. {x \in Goroutine : doing'[x] = "queued"} = {x \in Goroutine : doing[x] = "queued"}
        BY <1>a, <1>0, <3>1
      <4> QED
        BY <3>1, <4>1
    <3>2. CASE doing' = [doing EXCEPT ![g] = "queued"] /\ line' = Append(line, g)
      <4>1. /\ {x \in Goroutine : doing[x] = "queued"} \subseteq {x \in Goroutine : doing'[x] = "queued"}
            /\ g \in {x \in Goroutine : doing'[x] = "queued"}
        BY <1>a, <1>0, <3>2
      <4> DEFINE Q == {x \in Goroutine : doing'[x] = "queued"}
      <4>2. line \in Seq(Q)
        BY <4>1
      <4> HIDE DEF Q
      <4>3. Append(line, g) \in Seq(Q)
        BY <4>1, <4>2 DEF Q
      <4> QED
        BY <3>2, <4>3 DEF Q
    <3> QED
      BY <1>a, <1>0, <3>1, <3>2
  <2> QED
    BY <1>a, <1>0, <2>1, <2>2 DEF PC
<1>2. BornInOrder' /\ Lineage'
    BY <1>a, <1>0, FamilyKept
<1>3. ClaimPlaces'
    BY <1>a, <1>0 DEF GInv, ClaimPlaces, Noted, Granted
<1>4. Targets'
    BY <1>a, <1>0 DEF GInv, Targets
<1>5. ChildOfHolder'
    BY <1>a, <1>0, <1>b DEF GInv, ChildOfHolder, Children, Alive
<1>d. LineDistinct'
  <2>1. line \in Seq({x \in Goroutine : doing[x] = "queued"})
    BY DEF GInv, GoroutinesTypeOK
  <2>2. \A i \in DOMAIN line : line[i] # g
    BY <1>a, <2>1
  <2>3. CASE UNCHANGED line
    BY <2>3 DEF GInv, LineDistinct
  <2>4. CASE line' = Append(line, g)
    BY <2>1, <2>2, <2>4 DEF GInv, LineDistinct
  <2> QED
    BY <1>a, <2>3, <2>4
<1> QED
    BY <1>1, <1>2, <1>3, <1>4, <1>5, <1>d DEF GInv

\* runHoldingResource notes a claim that was granted.
LEMMA NoteStep ==
    ASSUME GInv, NEW g \in Goroutine, Note(g)
    PROVE  GInv'
<1> USE DEF Note
<1>0. /\ doing' = [doing EXCEPT ![g] = "running"] /\ doing[g] = "granted"
      /\ doing \in [Goroutine -> PC] /\ ctx' = [ctx EXCEPT ![g] = g]
      /\ ctx \in [Goroutine -> Goroutine \cup {None}]
      /\ claimed[g] # "none" /\ Children(g) = {}
    BY DEF GInv, GoroutinesTypeOK, ClaimPlaces, ChildOfHolder, Children
<1>1. GoroutinesTypeOK'
  <2> USE DEF GoroutinesTypeOK, GInv
  <2>1. {x \in Goroutine : doing'[x] = "queued"} = {x \in Goroutine : doing[x] = "queued"}
    BY <1>0
  <2>2. line' \in Seq({x \in Goroutine : doing'[x] = "queued"})
    BY <2>1
  <2> QED
    BY <1>0, <2>2 DEF PC
<1>2. BornInOrder' /\ Lineage'
    BY <1>0, FamilyKept
<1>3. ClaimPlaces'
    BY <1>0 DEF GInv, ClaimPlaces, Noted, Granted
<1>4. Targets'
    BY <1>0 DEF GInv, Targets
<1>5. ChildOfHolder'
    BY <1>0 DEF GInv, ChildOfHolder, Children, Alive
<1>d. LineDistinct'
    BY DEF GInv, LineDistinct
<1> QED
    BY <1>1, <1>2, <1>3, <1>4, <1>5, <1>d DEF GInv

\* The claim is forgotten, before it is released.
LEMMA LeaveStep ==
    ASSUME GInv, NEW g \in Goroutine, Leave(g)
    PROVE  GInv'
<1> USE DEF Leave
<1>0. /\ doing' = [doing EXCEPT ![g] = "leaving"] /\ doing[g] = "running"
      /\ doing \in [Goroutine -> PC] /\ claimed[g] # "none"
    BY DEF GInv, GoroutinesTypeOK
<1>1. GoroutinesTypeOK'
  <2> USE DEF GoroutinesTypeOK, GInv
  <2>1. {x \in Goroutine : doing'[x] = "queued"} = {x \in Goroutine : doing[x] = "queued"}
    BY <1>0
  <2>2. line' \in Seq({x \in Goroutine : doing'[x] = "queued"})
    BY <2>1
  <2> QED
    BY <1>0, <2>2 DEF PC
<1>2. BornInOrder' /\ Lineage'
    BY <1>0, FamilyKept
<1>3. ClaimPlaces'
    BY <1>0 DEF GInv, ClaimPlaces, Noted, Granted
<1>4. Targets'
    BY <1>0 DEF GInv, Targets
<1>5. ChildOfHolder'
    BY <1>0 DEF GInv, ChildOfHolder, Children, Alive
<1>d. LineDistinct'
    BY DEF GInv, LineDistinct
<1> QED
    BY <1>1, <1>2, <1>3, <1>4, <1>5, <1>d DEF GInv

\* Wait, which refuseWaitUnderClaim refuses to holders and their children.
LEMMA WaitStep ==
    ASSUME GInv, NEW g \in Goroutine, NEW t \in Task, Wait(g, t)
    PROVE  GInv'
<1>0. \/ UNCHANGED <<doing, target>>
      \/ doing' = [doing EXCEPT ![g] = "waiting"] /\ target' = [target EXCEPT ![g] = t]
    BY DEF Wait
<1>1. /\ UNCHANGED <<maker, rank, worker, ctx, claimed, line, state, taken>>
      /\ doing[g] = "running" /\ t > rank[g] /\ ~HoldsClaim(g)
      /\ doing \in [Goroutine -> PC]
      /\ target \in [Goroutine -> 0..(MaxGoroutine + MaxTask)]
      /\ t \in 0..(MaxGoroutine + MaxTask)
    BY BoundsAssumption DEF Wait, GInv, GoroutinesTypeOK, Task
<1>2. claimed[g] = "none"
    BY <1>1 DEF HoldsClaim, Noted, Granted
<1>3. GoroutinesTypeOK'
  <2> USE DEF GoroutinesTypeOK, GInv
  <2>1. {x \in Goroutine : doing'[x] = "queued"} = {x \in Goroutine : doing[x] = "queued"}
    BY <1>0, <1>1
  <2>2. line' \in Seq({x \in Goroutine : doing'[x] = "queued"})
    BY <1>1, <2>1
  <2> QED
    BY <1>0, <1>1, <2>2 DEF PC
<1>4. BornInOrder' /\ Lineage'
    BY <1>0, <1>1, FamilyKept
<1>5. ClaimPlaces'
    BY <1>0, <1>1, <1>2 DEF GInv, ClaimPlaces, Noted, Granted
<1>6. Targets'
    BY <1>0, <1>1 DEF GInv, Targets
<1>7. ASSUME NEW m \in Goroutine, g \in Children(m), claimed[m] # "none", doing[m] # "leaving"
      PROVE  FALSE
  <2>1. doing[m] \in {"running", "joining"}
    BY <1>7 DEF GInv, ChildOfHolder
  <2> QED
    BY <1>1, <1>7, <2>1 DEF HoldsClaim, Noted, Granted, Children
<1>8. ChildOfHolder'
    BY <1>0, <1>1, <1>2, <1>7 DEF GInv, ChildOfHolder, Children, Alive
<1>d. LineDistinct'
    BY <1>1 DEF GInv, LineDistinct
<1> QED
    BY <1>3, <1>4, <1>5, <1>6, <1>8, <1>d DEF GInv

\* A sequence without one of its places holds the other places' members only.
LEMMA WithoutOne ==
    ASSUME NEW S, NEW s \in Seq(S), NEW i \in DOMAIN s,
           \A j, k \in DOMAIN s : s[j] = s[k] => j = k
    PROVE  LET r == SubSeq(s, 1, i - 1) \o SubSeq(s, i + 1, Len(s)) IN
           /\ r \in Seq(S \ {s[i]})
           /\ \A j, k \in DOMAIN r : r[j] = r[k] => j = k
<1> DEFINE a == SubSeq(s, 1, i - 1)
           b == SubSeq(s, i + 1, Len(s))
           T == S \ {s[i]}
           r == a \o b
<1>0. Len(s) \in Nat /\ i \in 1..Len(s) /\ \A j \in 1..Len(s) : s[j] \in S
    OBVIOUS
<1>1. /\ a \in Seq(T) /\ Len(a) = i - 1
      /\ \A j \in 1..(i - 1) : a[j] = s[j]
  <2>1. \A j \in 1..(i - 1) : s[j] \in T
    BY <1>0
  <2> HIDE DEF T
  <2> QED
    BY <1>0, <2>1, SubSeqProperties
<1>2. /\ b \in Seq(T) /\ Len(b) = Len(s) - i
      /\ \A j \in 1..(Len(s) - i) : b[j] = s[i + j]
  <2>1. \A j \in (i + 1)..Len(s) : s[j] \in T
    BY <1>0
  <2> HIDE DEF T
  <2>2. /\ b \in Seq(T) /\ Len(b) = IF i + 1 <= Len(s) THEN Len(s) - (i + 1) + 1 ELSE 0
        /\ \A j \in 1..(Len(s) - (i + 1) + 1) : b[j] = s[(i + 1) + j - 1]
    BY <1>0, <2>1, SubSeqProperties
  <2> QED
    BY <1>0, <2>2
<1> HIDE DEF a, b, T
<1>3. /\ r \in Seq(T) /\ Len(r) = Len(a) + Len(b)
      /\ \A j \in 1..(Len(a) + Len(b)) : r[j] = IF j <= Len(a) THEN a[j] ELSE b[j - Len(a)]
  <2>1. a \in Seq(T) /\ b \in Seq(T)
    BY <1>1, <1>2
  <2> QED
    BY <2>1, ConcatProperties, Zenon DEF r
<1> HIDE DEF r
<1>4. /\ Len(r) = Len(s) - 1
      /\ \A j \in 1..(Len(s) - 1) : r[j] = IF j =< i - 1 THEN s[j] ELSE s[j + 1]
  <2>1. Len(r) = Len(s) - 1
    BY <1>0, <1>1, <1>2, <1>3
  <2>2. ASSUME NEW j \in 1..(Len(s) - 1)
        PROVE  r[j] = IF j =< i - 1 THEN s[j] ELSE s[j + 1]
    <3>1. CASE j =< i - 1
      <4>1. j \in 1..(i - 1) /\ j <= Len(a) /\ j \in 1..(Len(a) + Len(b))
        BY <1>0, <1>1, <1>2, <3>1
      <4>2. r[j] = a[j]
        BY <1>3, <4>1
      <4> QED
        BY <1>1, <3>1, <4>1, <4>2
    <3>2. CASE ~ (j =< i - 1)
      <4>1. /\ j - Len(a) \in 1..(Len(s) - i) /\ i + (j - Len(a)) = j + 1
            /\ ~ (j <= Len(a)) /\ j \in 1..(Len(a) + Len(b))
        BY <1>0, <1>1, <1>2, <3>2
      <4>2. r[j] = b[j - Len(a)]
        BY <1>3, <4>1
      <4> QED
        BY <1>2, <3>2, <4>1, <4>2
    <3> QED
      BY <3>1, <3>2
  <2> QED
    BY <2>1, <2>2
<1>5. \A j, k \in DOMAIN r : r[j] = r[k] => j = k
  <2>1. DOMAIN r = 1..(Len(s) - 1)
    BY <1>3, <1>4
  <2>2. ASSUME NEW j \in 1..(Len(s) - 1), NEW k \in 1..(Len(s) - 1), r[j] = r[k]
        PROVE  j = k
    <3> DEFINE f(x) == IF x =< i - 1 THEN x ELSE x + 1
    <3>1. /\ f(j) \in DOMAIN s /\ f(k) \in DOMAIN s
          /\ r[j] = s[f(j)] /\ r[k] = s[f(k)]
      BY <1>0, <1>4
    <3>2. f(j) = f(k)
      <4> HIDE DEF f
      <4> QED
        BY <2>2, <3>1
    <3> QED
      BY <1>0, <3>2
  <2> QED
    BY <2>1, <2>2
<1> QED
    BY <1>3, <1>5 DEF r, a, b, T

\* Registry.release, and the grant to the first goroutine in line for it.
LEMMA ReleaseClaimStep ==
    ASSUME GInv, NEW g \in Goroutine, ReleaseClaim(g)
    PROVE  GInv'
<1> DEFINE Q == {x \in Goroutine : doing[x] = "queued"}
<1>1. /\ UNCHANGED <<maker, rank, worker, target, state, taken>>
      /\ doing[g] = "leaving" /\ doing \in [Goroutine -> PC]
      /\ claimed' = [claimed EXCEPT ![g] = "none"]
      /\ claimed \in [Goroutine -> Resource \cup {"none"}]
      /\ ctx' = [h \in Goroutine |-> IF ctx[h] = g THEN None ELSE ctx[h]]
      /\ ctx \in [Goroutine -> Goroutine \cup {None}]
    BY DEF ReleaseClaim, GInv, GoroutinesTypeOK
<1>2. /\ line \in Seq(Q)
      /\ \A i, j \in DOMAIN line : line[i] = line[j] => i = j
    BY DEF GInv, GoroutinesTypeOK, LineDistinct
<1>3. \/ doing' = [doing EXCEPT ![g] = "running"] /\ line' = line
      \/ \E x \in Q : /\ doing' = [doing EXCEPT ![g] = "running", ![x] = "granted"]
                      /\ line' \in Seq(Q \ {x})
                      /\ \A i, j \in DOMAIN line' : line'[i] = line'[j] => i = j
  <2>1. CASE UNCHANGED line /\ doing' = [doing EXCEPT ![g] = "running"]
    BY <2>1
  <2>2. CASE \E i \in DOMAIN line :
               /\ doing' = [doing EXCEPT ![g] = "running", ![line[i]] = "granted"]
               /\ line' = SubSeq(line, 1, i - 1) \o SubSeq(line, i + 1, Len(line))
    <3>1. PICK i \in DOMAIN line :
               /\ doing' = [doing EXCEPT ![g] = "running", ![line[i]] = "granted"]
               /\ line' = SubSeq(line, 1, i - 1) \o SubSeq(line, i + 1, Len(line))
      BY <2>2
    <3>2. line[i] \in Q
      BY <1>2
    <3> HIDE DEF Q
    <3>3. /\ line' \in Seq(Q \ {line[i]})
          /\ \A j, k \in DOMAIN line' : line'[j] = line'[k] => j = k
      BY <1>2, <3>1, WithoutOne, Zenon
    <3> QED
      BY <3>1, <3>2, <3>3
  <2> QED
    BY <2>1, <2>2 DEF ReleaseClaim
<1>4. PICK X \in SUBSET Q :
        /\ \A h \in Goroutine : doing'[h] = IF h \in X THEN "granted"
                                            ELSE IF h = g THEN "running" ELSE doing[h]
        /\ doing' \in [Goroutine -> PC]
        /\ line' \in Seq(Q \ X)
        /\ \A i, j \in DOMAIN line' : line'[i] = line'[j] => i = j
  <2>1. CASE doing' = [doing EXCEPT ![g] = "running"] /\ line' = line
    <3>1. Q \ {} = Q
      OBVIOUS
    <3>2. \A h \in Goroutine : doing'[h] = IF h \in {} THEN "granted"
                                            ELSE IF h = g THEN "running" ELSE doing[h]
      BY <1>1, <2>1
    <3>3. doing' \in [Goroutine -> PC]
      BY <1>1, <2>1 DEF PC
    <3> HIDE DEF Q
    <3>4. /\ line' \in Seq(Q \ {})
          /\ \A i, j \in DOMAIN line' : line'[i] = line'[j] => i = j
      BY <1>2, <2>1, <3>1
    <3>5. {} \in SUBSET Q
      OBVIOUS
    <3> QED
      BY <3>2, <3>3, <3>4, <3>5, Zenon
  <2>2. ASSUME NEW x \in Q, doing' = [doing EXCEPT ![g] = "running", ![x] = "granted"],
               line' \in Seq(Q \ {x}),
               \A i, j \in DOMAIN line' : line'[i] = line'[j] => i = j
        PROVE  \E X \in SUBSET Q :
        /\ \A h \in Goroutine : doing'[h] = IF h \in X THEN "granted"
                                            ELSE IF h = g THEN "running" ELSE doing[h]
        /\ doing' \in [Goroutine -> PC]
        /\ line' \in Seq(Q \ X)
        /\ \A i, j \in DOMAIN line' : line'[i] = line'[j] => i = j
    <3>1. \A h \in Goroutine : doing'[h] = IF h \in {x} THEN "granted"
                                            ELSE IF h = g THEN "running" ELSE doing[h]
      BY <1>1, <2>2
    <3>2. doing' \in [Goroutine -> PC] /\ {x} \in SUBSET Q
      BY <1>1, <2>2 DEF PC
    <3> HIDE DEF Q
    <3> QED
      BY <2>2, <3>1, <3>2
  <2> QED
    BY <1>3, <2>1, <2>2
<1>5. \A x \in X : x \in Goroutine /\ doing[x] = "queued" /\ x # g
    BY <1>1, <1>4
<1>6. GoroutinesTypeOK'
  <2> USE DEF GoroutinesTypeOK, GInv
  <2>1. {x \in Goroutine : doing'[x] = "queued"} = Q \ X
    BY <1>1, <1>4, <1>5
  <2>2. line' \in Seq({x \in Goroutine : doing'[x] = "queued"})
    BY <1>4, <2>1
  <2>3. ctx' \in [Goroutine -> Goroutine \cup {None}]
    BY <1>1
  <2> HIDE DEF Q
  <2> QED
    BY <1>1, <1>4, <2>2, <2>3
<1> HIDE DEF Q
<1>7. BornInOrder' /\ Lineage'
    BY <1>1, <1>4, <1>5, FamilyKept
<1>8. ClaimPlaces'
    BY <1>1, <1>4, <1>5 DEF GInv, ClaimPlaces, Noted, Granted
<1>9. Targets'
    BY <1>1, <1>4, <1>5 DEF GInv, Targets
<1>10. ChildOfHolder'
  <2> SUFFICES ASSUME NEW m \in Goroutine, NEW h \in Goroutine,
                      h \in Children(m)', claimed'[m] # "none", doing'[m] # "leaving"
               PROVE  /\ doing'[m] \in {"running", "joining"}
                      /\ doing'[h] = "running" /\ claimed'[h] = "none" /\ ctx'[h] = m
                      /\ Children(h)' = {}
    BY DEF ChildOfHolder
  <2>1. \A k \in Goroutine : Children(k)' = Children(k)
    BY <1>1, <1>4, <1>5 DEF Children, Alive
  <2>2. /\ m # g /\ claimed[m] # "none" /\ h \in Children(m)
        /\ doing[m] # "leaving"
    BY <1>1, <1>4, <1>5, <2>1
  <2>3. /\ doing[m] \in {"running", "joining"}
        /\ doing[h] = "running" /\ claimed[h] = "none" /\ ctx[h] = m
        /\ Children(h) = {}
    BY <2>2 DEF GInv, ChildOfHolder
  <2> QED
    BY <1>1, <1>4, <1>5, <2>1, <2>2, <2>3
<1>d. LineDistinct'
    BY <1>4 DEF LineDistinct
<1> QED
    BY <1>6, <1>7, <1>8, <1>9, <1>10, <1>d DEF GInv

\* The program starts with one goroutine and no claim.
LEMMA GoroutinesInitInv == GoroutinesInit => GInv
<1> SUFFICES ASSUME GoroutinesInit
             PROVE  GInv
    OBVIOUS
<1> USE DEF GoroutinesInit
<1>1. GoroutinesTypeOK
  <2>1. line \in Seq({g \in Goroutine : doing[g] = "queued"})
    OBVIOUS
  <2> QED
    BY <2>1, BoundsAssumption DEF GoroutinesTypeOK, PC
<1>2. LineDistinct
    BY DEF LineDistinct
<1>3. BornInOrder
    BY BoundsAssumption DEF BornInOrder, Goroutine
<1>4. Lineage
    BY DEF Lineage
<1>5. ClaimPlaces
    BY DEF ClaimPlaces, Noted, Granted
<1>6. Targets /\ ChildOfHolder
    BY DEF Targets, ChildOfHolder
<1> QED
    BY <1>1, <1>2, <1>3, <1>4, <1>5, <1>6 DEF GInv

\* Every step of the goroutines keeps the invariant.
LEMMA GoroutinesNextInv ==
    ASSUME Habit = {}, GInv, [GoroutinesNext]_goroutines
    PROVE  GInv'
<1>1. CASE UNCHANGED goroutines
  <2>1. UNCHANGED <<doing, maker, rank, worker, ctx, claimed, line, target, state, taken>>
    BY <1>1 DEF goroutines
  <2> QED
    BY <2>1 DEF GInv, GoroutinesTypeOK, LineDistinct, BornInOrder, Lineage, ClaimPlaces,
                Targets, ChildOfHolder, Children, Alive, Noted, Granted
<1>2. ASSUME NEW g \in Goroutine, Spawn(g)
      PROVE  GInv'
  <2>1. rank[g] \in Task \cup {None} /\ ctx[g] \in Goroutine \cup {None}
    BY DEF GInv, GoroutinesTypeOK
  <2>2. Go(g, rank[g], ctx[g])
    BY <1>2 DEF Spawn
  <2>3. /\ doing[g] = "running"
        /\ UNCHANGED <<worker, claimed, line, target, state, taken>>
        /\ g \in worker \/ \A m \in Goroutine : maker[g] = m => ~Granted(m)
    BY <1>2 DEF Spawn
  <2>4. state' \in [Task -> {"declared", "running", "settled"}]
    BY <2>3 DEF GInv, GoroutinesTypeOK
  <2> QED
    BY <2>1, <2>2, <2>3, <2>4, GoStep
<1>3. ASSUME NEW g \in Goroutine, NEW t \in Task, Define(g, t)
      PROVE  GInv'
  <2>1. /\ doing[g] = "running" /\ Go(g, t, None)
        /\ UNCHANGED <<claimed, line, target, taken>>
        /\ worker' = worker \cup {Newest}
    BY <1>3 DEF Define
  <2>2. state' \in [Task -> {"declared", "running", "settled"}]
    BY <1>3 DEF Define, GInv, GoroutinesTypeOK
  <2> QED
    BY <2>1, <2>2, GoStep
<1>4. ASSUME NEW g \in Goroutine, NEW h \in Goroutine, Join(g, h)
      PROVE  GInv'
    BY <1>4, JoinStep
<1>5. ASSUME NEW g \in Goroutine,
             End(g) \/ Joined(g) \/ Awake(g) \/ Note(g) \/ Leave(g) \/ ReleaseClaim(g)
      PROVE  GInv'
    BY <1>5, EndStep, ResumeStep, NoteStep, LeaveStep, ReleaseClaimStep
<1>6. ASSUME NEW g \in Goroutine, NEW r \in Resource, Hold(g, r)
      PROVE  GInv'
    BY <1>6, HoldStep
<1>7. ASSUME NEW g \in Goroutine, NEW t \in Task, Wait(g, t)
      PROVE  GInv'
    BY <1>7, WaitStep
<1> QED
    BY <1>1, <1>2, <1>3, <1>4, <1>5, <1>6, <1>7 DEF GoroutinesNext, Terminated

\* A bounded set of numbers has a greatest member.
LEMMA GreatestNumber ==
    ASSUME NEW N \in Nat, NEW S, S \subseteq 0..N, S # {}
    PROVE  \E m \in S : \A x \in S : x =< m
<1> DEFINE R == {N - x : x \in S}
<1>1. R \subseteq Nat /\ R # {}
  <2>1. \A x \in S : N - x \in Nat
    OBVIOUS
  <2> QED
    BY <2>1
<1>2. PICK d \in R : \A e \in R : d =< e
  <2> HIDE DEF R
  <2> QED
    BY <1>1, LeastNumber
<1>3. PICK m \in S : d = N - m
    OBVIOUS
<1>4. ASSUME NEW x \in S
      PROVE  x =< m
  <2>1. N - x \in R
    OBVIOUS
  <2>2. N - m =< N - x
    BY <1>2, <1>3, <2>1
  <2> QED
    BY <2>2
<1> QED
    BY <1>4

\* A circle would need a claim holder blocked on a child, who is never blocked;
\* without one, each member of it waits for a later Task, or joins a younger
\* goroutine of the same Task, and the last of the latest has nobody to block on.
LEMMA NoCircle == GInv => NoDeadlock
<1> SUFFICES ASSUME GInv,
                    NEW D \in SUBSET {g \in Goroutine : BlockedOn(g) # {}}, D # {},
                    \A g \in D : BlockedOn(g) \cap D # {}
             PROVE  FALSE
    BY DEF NoDeadlock
<1>1. \A g \in D : g \in Goroutine /\ doing[g] \in {"queued", "waiting", "joining"}
    BY DEF BlockedOn
<1>2. ASSUME NEW g \in D, doing[g] = "joining"
      PROVE  /\ target[g] \in D /\ target[g] \in Children(g)
  <2>1. PICK h \in D : h \in BlockedOn(g)
    OBVIOUS
  <2>2. h = target[g] /\ Alive(h)
    BY <1>2, <2>1 DEF BlockedOn
  <2> QED
    BY <1>1, <1>2, <2>2 DEF GInv, Targets, Children
<1>3. ASSUME NEW g \in D, doing[g] = "joining"
      PROVE  claimed[g] = "none"
  <2>1. target[g] \in Children(g) /\ target[g] \in D
    BY <1>2, <1>3
  <2> QED
    BY <1>1, <1>3, <2>1 DEF GInv, ChildOfHolder
<1>4. \A g \in D : doing[g] # "queued"
  <2> SUFFICES ASSUME NEW g \in D, doing[g] = "queued"
               PROVE  FALSE
    OBVIOUS
  <2>1. PICK h \in D : h \in BlockedOn(g)
    OBVIOUS
  <2>2. Granted(h)
    BY <2>1 DEF BlockedOn
  <2>3. doing[h] \in {"waiting", "joining"} /\ claimed[h] # "none"
    BY <1>1, <2>2 DEF Granted
  <2> QED
    BY <1>1, <1>3, <2>3 DEF GInv, ClaimPlaces
<1>5. ASSUME NEW g \in D
      PROVE  \E h \in D : rank[h] > rank[g] \/ (rank[h] = rank[g] /\ h > g)
  <2>1. CASE doing[g] = "waiting"
    <3>1. PICK h \in D : h \in BlockedOn(g)
      OBVIOUS
    <3>2. rank[h] = target[g]
      BY <2>1, <3>1 DEF BlockedOn
    <3> QED
      BY <1>1, <2>1, <3>2 DEF GInv, Targets
  <2>2. CASE doing[g] = "joining"
    <3>1. target[g] \in D /\ target[g] \in Children(g)
      BY <1>2, <2>2
    <3>2. g # None
      BY <1>1 DEF Goroutine, None
    <3>3. rank[target[g]] = rank[g] /\ g < target[g]
      BY <1>1, <3>1, <3>2 DEF GInv, Lineage, Children
    <3> QED
      BY <1>1, <3>1, <3>3 DEF Goroutine
  <2> QED
    BY <1>1, <1>4, <2>1, <2>2
<1>6. \A g \in D : rank[g] \in 0..MaxTask /\ g \in 0..MaxGoroutine
    BY <1>1, BoundsAssumption DEF GInv, GoroutinesTypeOK, Task, None, Goroutine
<1> DEFINE Ranks == {rank[g] : g \in D}
<1>7. PICK m \in Ranks : \A x \in Ranks : x =< m
  <2>1. Ranks \subseteq 0..MaxTask /\ Ranks # {}
    BY <1>6
  <2> HIDE DEF Ranks
  <2> QED
    BY <2>1, GreatestNumber, BoundsAssumption
<1> DEFINE Top == {g \in D : rank[g] = m}
<1>8. PICK g \in Top : \A x \in Top : x =< g
  <2>1. Top \subseteq 0..MaxGoroutine /\ Top # {}
    BY <1>6
  <2> HIDE DEF Top
  <2> QED
    BY <2>1, GreatestNumber, BoundsAssumption
<1>9. PICK h \in D : rank[h] > rank[g] \/ (rank[h] = rank[g] /\ h > g)
    BY <1>5
<1>10. rank[h] =< m /\ rank[g] = m
    BY <1>7
<1>11. rank[h] = m /\ h > g
    BY <1>6, <1>9, <1>10
<1> QED
    BY <1>6, <1>8, <1>11

\* The invariant holds in every reachable state.
LEMMA GoroutinesInvariance == ASSUME Habit = {} PROVE GoroutinesSpec => []GInv
<1>1. GoroutinesInit => GInv
    BY GoroutinesInitInv
<1>2. GInv /\ [GoroutinesNext]_goroutines => GInv'
    BY GoroutinesNextInv
<1> QED
    BY <1>1, <1>2, PTL DEF GoroutinesSpec

\* Holding at most one resource at a time, and never waiting while holding one,
\* keeps structured callbacks free of deadlock (resource.go:181), whatever
\* their number and whichever goroutine's kick starts a Task.
THEOREM NoDeadlockHolds ==
    ASSUME Habit = {}
    PROVE  GoroutinesSpec => []NoDeadlock
<1>1. GoroutinesSpec => []GInv
    BY GoroutinesInvariance
<1>2. GInv => NoDeadlock
    BY NoCircle
<1> QED
    BY <1>1, <1>2, PTL
=============================================================================
