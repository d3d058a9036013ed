------------------------------ MODULE Registry ------------------------------
(***************************************************************************)
(* The process-wide resource registry (internal/resource/registry.go).     *)
(* A hold is one call of HoldResource: it is refused when its context      *)
(* already owns a claim, otherwise it is admitted at once or queued in     *)
(* arrival order, runs its callback while granted, and is withdrawn when   *)
(* the callback ends or its context does.  Every withdrawal rescans the    *)
(* queue, one loop iteration per step here, while it owns r.mu.            *)
(*                                                                         *)
(* The queue slice is represented by the set of the holds in it and the    *)
(* arrival number of each: the code only appends at the tail and filters,  *)
(* so the slice is always the set in arrival order.                        *)
(*                                                                         *)
(* An operator marked "Fault" is a plausible bug in the definition after   *)
(* it.  No specification uses it; it shows what a property can detect.     *)
(***************************************************************************)
EXTENDS Naturals

CONSTANTS
    Holds,      \* the HoldResource calls of one process
    Keys,       \* resolved, canonical keys
    Contains,   \* pairs <<dir, path>>: dir strictly contains path (fs only)
    NoHold,     \* no hold: a context without a claim, an unlocked mutex
    NoClaim     \* the nil *Claim grantLocked passes to regrantLocked

ASSUME RegistryAssumption ==
    /\ Contains \subseteq Keys \X Keys
    /\ NoHold \notin Holds

Modes == {"read", "write"}
Claims == [key : Keys, mode : Modes]

ASSUME NoClaimAssumption == NoClaim \notin Claims

VARIABLES
    pc,        \* where each HoldResource call stands
    claim,     \* the resolved claim of each hold
    ctxDone,   \* the contexts that have ended
    released,  \* hold.released, an atomic flag read without the mutex
    held,      \* r.held
    queue,     \* r.queue, as a set
    arrival,   \* arrival number of each admitted hold
    arrivals,  \* how many holds have been admitted
    mu,        \* the hold whose withdrawal owns r.mu, or NoHold
    freed,     \* regrantLocked's released argument
    seen       \* the waiters the running scan has kept: its waiting slice

vars == <<pc, claim, ctxDone, released, held, queue, arrival, arrivals,
          mu, freed, seen>>

-----------------------------------------------------------------------------
\* Key.overlaps: equal keys, or one path contains the other.
Overlaps(k, o) == k = o \/ <<k, o>> \in Contains \/ <<o, k>> \in Contains

\* Claim.conflicts: overlapping keys, at least one of them written.
Conflicts(c, o) ==
    (c.mode = "write" \/ o.mode = "write") /\ Overlaps(c.key, o.key)

\* Faults: only the holds granted, or only the holds waiting, are looked at.
ConflictsHeld(h, ahead) == \E g \in held : Conflicts(claim[g], claim[h])
ConflictsAhead(h, ahead) == \E g \in ahead : Conflicts(claim[g], claim[h])

\* conflictsLocked: h conflicts with a held claim or one waiting ahead of it.
ConflictsLocked(h, ahead) ==
    \E g \in held \cup ahead : Conflicts(claim[g], claim[h])

\* holding: the context of hold p carries a claim that is still live.  A
\* context exists from the moment p's callback starts, and outlives it.
HasContext(p) == p \in Holds /\ pc[p] \in {"running", "releasing", "returned"}

Init ==
    /\ pc = [h \in Holds |-> "idle"]
    /\ claim = [h \in Holds |-> NoClaim]
    /\ ctxDone = {}
    /\ released = {}
    /\ held = {}
    /\ queue = {}
    /\ arrival = [h \in Holds |-> 0]
    /\ arrivals = 0
    /\ mu = NoHold
    /\ freed = NoClaim
    /\ seen = {}

-----------------------------------------------------------------------------
\* HoldResource up to acquire's lock, called with the context of hold p (or a
\* context without a claim): CheckFree, then Resolve, then ctx.Err.  Calls
\* that fail one of the three return without touching the registry.
HoldResource(h, p) ==
    /\ pc[h] = "idle"
    /\ p = NoHold \/ HasContext(p)
    /\ \/ /\ p # NoHold /\ p \notin released        \* ErrNested
          /\ pc' = [pc EXCEPT ![h] = "refused"]
          /\ UNCHANGED claim
       \/ /\ p = NoHold \/ p \in released
          /\ \/ /\ pc' = [pc EXCEPT ![h] = "refused"]   \* ErrInvalid
                /\ UNCHANGED claim
             \/ \E c \in Claims :
                    /\ claim' = [claim EXCEPT ![h] = c]
                    /\ pc' = [pc EXCEPT ![h] = IF h \in ctxDone
                                               THEN "refused" ELSE "admitting"]
    /\ UNCHANGED <<ctxDone, released, held, queue, arrival, arrivals, mu,
                   freed, seen>>

\* The context passed to HoldResource ends.
CancelContext(h) ==
    /\ h \notin ctxDone
    /\ pc[h] \in {"idle", "admitting", "waiting", "running"}
    /\ ctxDone' = ctxDone \cup {h}
    /\ UNCHANGED <<pc, claim, released, held, queue, arrival, arrivals, mu,
                   freed, seen>>

\* acquire's critical section, admitLocked.  A hold granted here finds ready
\* closed at the first select and enters its callback whatever its context.
AdmitLocked(h) ==
    /\ pc[h] = "admitting"
    /\ mu = NoHold
    /\ arrivals' = arrivals + 1
    /\ arrival' = [arrival EXCEPT ![h] = arrivals + 1]
    /\ IF ConflictsLocked(h, queue)
       THEN /\ queue' = queue \cup {h}
            /\ pc' = [pc EXCEPT ![h] = "waiting"]
            /\ UNCHANGED held
       ELSE /\ held' = held \cup {h}
            /\ pc' = [pc EXCEPT ![h] = "running"]
            /\ UNCHANGED queue
    /\ UNCHANGED <<claim, ctxDone, released, mu, freed, seen>>

\* acquire's second select, ready branch: hold calls fn.
Enter(h) ==
    /\ pc[h] = "waiting"
    /\ h \in held
    /\ pc' = [pc EXCEPT ![h] = "running"]
    /\ UNCHANGED <<claim, ctxDone, released, held, queue, arrival, arrivals,
                   mu, freed, seen>>

\* Faults: acquire does not look at its context while it waits; it returns
\* without abandoning its place.
NeverGivesUp(h) == FALSE /\ UNCHANGED vars
GivesUpInPlace(h) ==
    /\ pc[h] = "waiting"
    /\ h \in ctxDone
    /\ pc' = [pc EXCEPT ![h] = "refused"]
    /\ UNCHANGED <<claim, ctxDone, released, held, queue, arrival, arrivals, mu,
                   freed, seen>>

\* acquire's second select, Done branch, up to abandon's lock.  Both branches
\* may be ready: select then picks either.
GiveUp(h) ==
    /\ pc[h] = "waiting"
    /\ h \in ctxDone
    /\ released' = released \cup {h}
    /\ pc' = [pc EXCEPT ![h] = "abandoning"]
    /\ UNCHANGED <<claim, ctxDone, held, queue, arrival, arrivals, mu, freed,
                   seen>>

\* fn returns or panics; the deferred release marks the hold, then locks.
Return(h) ==
    /\ pc[h] = "running"
    /\ released' = released \cup {h}
    /\ pc' = [pc EXCEPT ![h] = "releasing"]
    /\ UNCHANGED <<claim, ctxDone, held, queue, arrival, arrivals, mu, freed,
                   seen>>

\* release: the hold leaves held, and a rescan for its claim begins.
Release(h) ==
    /\ pc[h] = "releasing"
    /\ mu = NoHold
    /\ mu' = h
    /\ held' = held \ {h}
    /\ freed' = claim[h]
    /\ seen' = {}
    /\ UNCHANGED <<pc, claim, ctxDone, released, queue, arrival, arrivals>>

\* abandon: the hold leaves queue or held, and a full rescan begins.
Abandon(h) ==
    /\ pc[h] = "abandoning"
    /\ mu = NoHold
    /\ mu' = h
    /\ queue' = queue \ {h}
    /\ held' = held \ {h}
    /\ freed' = NoClaim
    /\ seen' = {}
    /\ UNCHANGED <<pc, claim, ctxDone, released, arrival, arrivals>>

\* The waiter regrantLocked's loop looks at next.
IsNext(q) ==
    /\ q \in queue \ seen
    /\ \A o \in queue \ seen : arrival[q] <= arrival[o]

\* Fault: only a waiter on the very key that was freed is looked at again.
SameKeyUnblocks(q) == freed = NoClaim \/ claim[q].key = freed.key

\* mayUnblock: freed leaving held could let q in (always so for nil).
MayUnblock(q) == freed = NoClaim \/ Conflicts(claim[q], freed)

\* A blocked write on the freed key ends the scan.
StopsScan(q) ==
    freed # NoClaim /\ claim[q].mode = "write" /\ claim[q].key = freed.key

\* One iteration of regrantLocked's loop, for waiter q: grant it, or keep it
\* waiting, together with everything behind it when the scan stops there.
Regrant(q) ==
    /\ mu # NoHold
    /\ IsNext(q)
    /\ IF MayUnblock(q) /\ ~ConflictsLocked(q, seen)
       THEN /\ held' = held \cup {q}
            /\ queue' = queue \ {q}
            /\ UNCHANGED seen
       ELSE /\ seen' = IF MayUnblock(q) /\ StopsScan(q) THEN queue
                       ELSE seen \cup {q}
            /\ UNCHANGED <<held, queue>>
    /\ UNCHANGED <<pc, claim, ctxDone, released, arrival, arrivals, mu, freed>>

\* The scan is over: the withdrawal unlocks and HoldResource returns.
Unlock(h) ==
    /\ mu = h
    /\ queue = seen
    /\ mu' = NoHold
    /\ freed' = NoClaim
    /\ seen' = {}
    /\ pc' = [pc EXCEPT ![h] = IF pc[h] = "releasing" THEN "returned"
                               ELSE "refused"]
    /\ UNCHANGED <<claim, ctxDone, released, held, queue, arrival, arrivals>>

\* Every HoldResource call has returned.
Finished ==
    /\ \A h \in Holds : pc[h] \in {"returned", "refused"}
    /\ UNCHANGED vars

\* The registry's own steps for hold h, whichever goroutine takes them.
Progress(h) ==
    \/ AdmitLocked(h) \/ Enter(h) \/ GiveUp(h)
    \/ Release(h) \/ Abandon(h) \/ Regrant(h) \/ Unlock(h)

Next ==
    \/ \E h \in Holds : \E p \in Holds \cup {NoHold} : HoldResource(h, p)
    \/ \E h \in Holds : CancelContext(h)
    \/ \E h \in Holds : Return(h)
    \/ \E h \in Holds : Progress(h)
    \/ Finished

Spec == Init /\ [][Next]_vars

\* The registry's code keeps running; callbacks need not return.
PromptSpec == Spec /\ \A h \in Holds : WF_vars(Progress(h))

\* Callbacks return too.
FairSpec == PromptSpec /\ \A h \in Holds : WF_vars(Return(h))

-----------------------------------------------------------------------------
Places == {"idle", "refused", "admitting", "waiting", "running",
           "releasing", "abandoning", "returned"}

\* Type invariant of the registry and the calls into it.
TypeOK ==
    /\ pc \in [Holds -> Places]
    /\ claim \in [Holds -> Claims \cup {NoClaim}]
    /\ ctxDone \in SUBSET Holds
    /\ released \in SUBSET Holds
    /\ held \in SUBSET Holds
    /\ queue \in SUBSET Holds
    /\ arrival \in [Holds -> Nat]
    /\ arrivals \in Nat
    /\ mu \in Holds \cup {NoHold}
    /\ freed \in Claims \cup {NoClaim}
    /\ seen \in SUBSET Holds

\* Holding (registry.go, Write: "it excludes every overlapping claim"): two
\* callbacks whose claims conflict never run at the same time.
Exclusion ==
    \A g, h \in Holds :
        /\ g # h
        /\ pc[g] = "running"
        /\ pc[h] = "running"
        => ~Conflicts(claim[g], claim[h])

\* registry.go, above admitLocked: "Every waiting claim is blocked: each
\* change to held or queue re-grants before the lock is released."  The
\* shortcuts of regrantLocked are sound only because of it, and must keep it.
EveryWaiterBlocked ==
    mu = NoHold =>
        \A q \in queue :
            ConflictsLocked(q, {g \in queue : arrival[g] < arrival[q]})

\* Registry.queue's contract: no claim is granted past a conflicting claim
\* that arrived earlier and still waits, so a writer cannot starve behind a
\* stream of readers.
NoOvertaking ==
    \A h \in held : \A q \in queue :
        arrival[q] < arrival[h] => ~Conflicts(claim[q], claim[h])

\* A grant harms neither who runs nor who came earlier.
GrantsSound == Exclusion /\ NoOvertaking

\* occupancy: no path out of HoldResource leaks ownership.  Whatever the
\* registry still records belongs to a call that has not returned.
NoLeak == \A h \in held \cup queue :
    pc[h] \in {"waiting", "running", "releasing", "abandoning"}

\* A claim that waits is eventually granted or withdrawn, so nobody waits
\* forever as long as callbacks return.
WaitersServed ==
    \A h \in Holds : pc[h] = "waiting" ~> pc[h] \in {"returned", "refused"}

\* HoldResource: "If ctx ends while waiting, it returns its cause".  A caller
\* that gives up leaves the registry even if no callback ever returns.
CancelledReturns ==
    \A h \in Holds :
        pc[h] = "waiting" /\ h \in ctxDone ~> pc[h] \in {"running", "refused"}

=============================================================================
