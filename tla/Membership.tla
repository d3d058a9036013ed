------------------------------ MODULE Membership ------------------------------
(***************************************************************************)
(* Edges on a Group or Sequence (engine/collection_tally.go, builder.go,   *)
(* and the collection half of eligibility.go). A dependent that starts     *)
(* After a collection reads its members through a cursor: the members      *)
(* declared when the edge was closed. The tally keeps the answer current   *)
(* one settle at a time and wakes whom it resolves; a topology builder     *)
(* still pending under the collection holds its membership open.           *)
(*                                                                         *)
(* An operator marked "Fault" is a plausible bug in the definition after   *)
(* it. No specification uses it; it shows what a property can detect.      *)
(***************************************************************************)
EXTENDS Naturals, FiniteSets, FiniteSetsExt

CONSTANTS
    Cols,       \* Groups and Sequences
    Up,         \* of each collection those it is in, itself included
    Members,    \* Tasks declared in collections
    Home,       \* of each member its collection
    Deps,       \* Tasks that start After a collection
    On,         \* of each dependent the collection it starts after
    Scenes      \* what a program uses of these, of which a behaviour has one

(* A scene: the collections Define gives a topology builder, those Wait is *)
(* called on, and the members and dependents the program declares.         *)
SceneAssumption ==
    \A s \in Scenes : /\ s.built \subseteq Cols /\ s.waits \subseteq Cols
                      /\ s.members \subseteq Members /\ s.deps \subseteq Deps

ASSUME MembershipAssumption ==
    /\ IsFiniteSet(Cols) /\ IsFiniteSet(Members)
    /\ Up \in [Cols -> SUBSET Cols] /\ \A c \in Cols : c \in Up[c]
    /\ Home \in [Members -> Cols]
    /\ On \in [Deps -> Cols] /\ Members \intersect Deps = {} /\ SceneAssumption

VARIABLES
    scene,    \* the scene of this run
    seq,      \* declSeq: the last declaration
    decl,     \* of each member its declaration, 0 before it
    state,    \* of each member its state
    tally,    \* of each collection its collectionTally
    builder,  \* of each built collection its builder
    entry,    \* of each built collection the outcome of what it starts after
    edge,     \* of each dependent what it reads
    dep,      \* of each dependent where it stands
    draining,
    owed      \* of each dependent the members its After named

vars == <<scene, seq, decl, state, tally, builder, entry, edge, dep, draining, owed>>

Built == scene.built

ThroughAll == Cardinality(Members) + 1

Init ==
    /\ scene \in Scenes
    /\ seq = 0 /\ decl = [m \in Members |-> 0]
    /\ state = [m \in Members |-> "pending"]
    /\ tally = [c \in Cols |-> [prefix |-> 0, firstFailed |-> 0, sealed |-> FALSE, through |-> 0,
                                parked |-> {}, open |-> {}, holds |-> 0, builderFailed |-> FALSE]]
    /\ builder = [c \in Built |-> "none"] /\ entry = [c \in Built |-> "pending"]
    /\ edge = [d \in Deps |-> 0] /\ dep = [d \in Deps |-> "declared"]
    /\ draining = FALSE /\ owed = [d \in Deps |-> {}]

-----------------------------------------------------------------------------
\* One collection's tally.

Declared(dl) == {m \in Members : dl[m] # 0}
MembersOf(c, dl) == {m \in Declared(dl) : c \in Up[Home[m]]}
Through(c, cursor, dl) == {m \in MembersOf(c, dl) : dl[m] <= cursor}

\* The declaration of the first member after the succeeded prefix.
NextDecl(c, t, dl) ==
    Min({dl[m] : m \in {x \in MembersOf(c, dl) :
            Cardinality({y \in MembersOf(c, dl) : dl[y] < dl[x]}) = t.prefix}})

\* Fault: the member at the cursor is not read.
SucceededBefore(c, t, cursor, dl) ==
    t.prefix = Cardinality(MembersOf(c, dl)) \/ NextDecl(c, t, dl) >= cursor

\* succeededThrough.
SucceededThrough(c, t, cursor, dl) ==
    t.prefix = Cardinality(MembersOf(c, dl)) \/ NextDecl(c, t, dl) > cursor

\* failedThrough.
FailedThrough(t, cursor) == t.firstFailed # 0 /\ t.firstFailed <= cursor

\* The leading members that succeeded.
Prefix(c, dl, st) ==
    Cardinality({m \in MembersOf(c, dl) :
        \A n \in MembersOf(c, dl) : dl[n] <= dl[m] => st[n] = "done"})

AdvancedPrefix(c, t, dl, st, m) == Prefix(c, dl, st)

\* Fault: an edge that reads exactly through the failed member is left out.
ParkedAfter(t, at) == {p \in t.parked : p[2] > at}

ParkedFrom(t, at) == {p \in t.parked : p[2] >= at}

\* settle: the tally after m settled as st says, and whom that wakes.
Settled(c, t, dl, st, m) ==
    IF st[m] = "failed" THEN
        IF t.firstFailed # 0 /\ t.firstFailed <= dl[m] THEN [tally |-> t, woken |-> {}]
        ELSE LET late == ParkedFrom(t, dl[m]) IN
             [tally |-> [t EXCEPT !.firstFailed = dl[m], !.open = {}, !.parked = @ \ late],
              woken |-> t.open \union {p[1] : p \in late}]
    ELSE LET u == [t EXCEPT !.prefix = AdvancedPrefix(c, t, dl, st, m)]
             ready == {p \in t.parked : SucceededThrough(c, u, p[2], dl)}
         IN  [tally |-> [u EXCEPT !.parked = @ \ ready], woken |-> {p[1] : p \in ready}]

\* seal.
Sealed(t, cursor) ==
    IF t.sealed \/ t.holds > 0 THEN [tally |-> t, woken |-> {}]
    ELSE [tally |-> [t EXCEPT !.sealed = TRUE, !.through = cursor, !.open = {}],
          woken |-> t.open]

\* release.
Released(t, seals, cursor) ==
    LET u == [t EXCEPT !.holds = @ - 1] IN
    IF u.holds > 0 THEN [tally |-> u, woken |-> {}]
    ELSE IF seals THEN Sealed(u, cursor)
    ELSE [tally |-> [u EXCEPT !.open = {}], woken |-> u.open]

\* failBuilder.
FailedBuilder(t) ==
    [tally |-> [t EXCEPT !.builderFailed = TRUE, !.open = {}, !.parked = {}],
     woken |-> t.open \union {p[1] : p \in t.parked}]

-----------------------------------------------------------------------------
\* A dependent's edge.

\* edgeCursorLocked: 0 while it is open.
Cursor(t, through, drains) ==
    IF t.holds > 0 THEN 0
    ELSE IF through # 0 THEN through
    ELSE IF t.sealed THEN t.through
    ELSE IF drains THEN ThroughAll ELSE 0

\* Closed at 0: sealed before anything was declared.
IsOpen(t, through, drains) == t.holds > 0 \/ (through = 0 /\ ~t.sealed /\ ~drains)

\* entryOutcomeLocked: a collection that ran nothing answers for its entry.
EntryOutcome(c) == IF c \in Built THEN entry[c] ELSE "done"

\* collectionOutcomeLocked.
Outcome(c, t, through, dl, drains) ==
    LET open == IsOpen(t, through, drains) cursor == Cursor(t, through, drains) IN
    IF t.builderFailed THEN "failed"
    ELSE IF open THEN IF t.firstFailed # 0 THEN "failed" ELSE "pending"
    ELSE IF FailedThrough(t, cursor) THEN "failed"
    ELSE IF Through(c, cursor, dl) = {} THEN EntryOutcome(c)
    ELSE IF SucceededThrough(c, t, cursor, dl) THEN "done" ELSE "pending"

\* placeLocked for the dependents ds: queued, stopped, or parked on the tally
\* (on the entry for a collection that ran nothing).
PlacedOn(d, tl, eg, dl, drains) == Outcome(On[d], tl[On[d]], eg[d], dl, drains)
Forwards(c, t, through, dl, drains) ==
    ~IsOpen(t, through, drains) /\ Through(c, Cursor(t, through, drains), dl) = {}
ParkedIn(c, tl, eg, dl, drains, ds) ==
    LET t == tl[c]
        here == {d \in ds : On[d] = c /\ PlacedOn(d, tl, eg, dl, drains) = "pending"
                                      /\ ~Forwards(c, t, eg[d], dl, drains)}
    IN  [t EXCEPT !.open = @ \union {d \in here : IsOpen(t, eg[d], drains)},
                  !.parked = @ \union {<<d, Cursor(t, eg[d], drains)>> :
                                 d \in {x \in here : ~IsOpen(t, eg[x], drains)}}]

Place(ds, tl, eg, dl, drains, dp) ==
    \E t \in {tl}, S \in {ds} :
        /\ tally' = [c \in Cols |-> ParkedIn(c, t, eg, dl, drains, S)]
        /\ dep' = [d \in Deps |->
                    IF d \notin S THEN dp[d]
                    ELSE CASE PlacedOn(d, t, eg, dl, drains) = "done" -> "queued"
                           [] PlacedOn(d, t, eg, dl, drains) = "failed" -> "notStarted"
                           [] OTHER -> IF Forwards(On[d], t[On[d]], eg[d], dl, drains)
                                       THEN "onEntry" ELSE "parked"]

\* wakeLocked: only the parked are placed again.
Wake(woken, tl, eg) ==
    Place({d \in woken : dep[d] = "parked"}, tl, eg, decl, draining, dep)

-----------------------------------------------------------------------------
\* Declarations.

Mine(c) == MembersOf(c, decl) \union {b \in Built : builder[b] # "none" /\ c \in Up[b] \ {b}}

\* closeMembershipLocked: naming a populated collection closes the edge, and
\* seals the edges that were open.
After(d) ==
    LET c == On[d]
        closes == MembersOf(c, decl) # {} /\ tally[c].holds = 0
        s == Sealed(tally[c], seq)
    IN
    /\ d \in scene.deps /\ dep[d] = "declared" /\ ~draining
    /\ edge' = [edge EXCEPT ![d] = IF closes THEN seq ELSE 0]
    /\ owed' = [owed EXCEPT ![d] = MembersOf(c, decl)]
    /\ IF closes
       THEN Place({x \in s.woken : dep[x] = "parked"}, [tally EXCEPT ![c] = s.tally], edge',
                  decl, draining, [dep EXCEPT ![d] = "wired"])
       ELSE tally' = tally /\ dep' = [dep EXCEPT ![d] = "wired"]
    /\ UNCHANGED <<scene, seq, decl, state, builder, entry, draining>>

\* The dependent's own Define.
Submit(d) ==
    /\ dep[d] = "wired" /\ ~draining
    /\ Place({d}, tally, edge, decl, draining, dep)
    /\ UNCHANGED <<scene, seq, decl, state, builder, entry, edge, draining, owed>>

\* declareTaskLocked: a built collection's children only by its builder; the
\* caller declares nothing more once it has called Finish.
DeclareMember(m) ==
    /\ m \in scene.members /\ decl[m] = 0
    /\ \A c \in Built \intersect Up[Home[m]] : builder[c] = "running"
    /\ draining => Home[m] \in Built
    /\ seq' = seq + 1 /\ decl' = [decl EXCEPT ![m] = seq + 1]
    /\ UNCHANGED <<scene, state, tally, builder, entry, edge, dep, draining, owed>>

SettleMember(m, outcome) ==
    LET st == [state EXCEPT ![m] = outcome]
        s == [c \in Cols |-> IF c \in Up[Home[m]] THEN Settled(c, tally[c], decl, st, m)
                             ELSE [tally |-> tally[c], woken |-> {}]]
    IN
    /\ decl[m] # 0 /\ state[m] = "pending" /\ state' = st
    /\ Wake(UNION {s[c].woken : c \in Cols}, [c \in Cols |-> s[c].tally], edge)
    /\ UNCHANGED <<scene, seq, decl, builder, entry, edge, draining, owed>>

\* sealCollection, called by a Wait.
WaitSeals(c) ==
    LET s == Sealed(tally[c], seq) IN
    /\ c \in scene.waits /\ ~tally[c].sealed
    /\ Wake(s.woken, [tally EXCEPT ![c] = s.tally], edge)
    /\ UNCHANGED <<scene, seq, decl, state, builder, entry, edge, draining, owed>>

-----------------------------------------------------------------------------
\* Topology builders.

Holds(c) == [a \in Cols |-> IF a \in Up[c] THEN [tally[a] EXCEPT !.holds = @ + 1] ELSE tally[a]]

\* defineBuilder.
DefineBuilder(c) ==
    /\ builder[c] = "none" /\ ~draining /\ Mine(c) = {}
    /\ \A a \in (Built \intersect Up[c]) \ {c} : builder[a] = "running"
    /\ builder' = [builder EXCEPT ![c] = "pending"]
    /\ tally' = Holds(c)
    /\ UNCHANGED <<scene, seq, decl, state, entry, edge, dep, draining, owed>>

\* What the collection starts after settles; whoever is parked on it moves.
EntrySettles(c, outcome) ==
    /\ entry[c] = "pending" /\ entry' = [entry EXCEPT ![c] = outcome]
    /\ dep' = [d \in Deps |-> IF dep[d] = "onEntry" /\ On[d] = c
                              THEN IF outcome = "done" THEN "queued" ELSE "notStarted" ELSE dep[d]]
    /\ UNCHANGED <<scene, seq, decl, state, tally, builder, edge, draining, owed>>

StartBuilder(c) ==
    /\ builder[c] = "pending" /\ entry[c] = "done"
    /\ builder' = [builder EXCEPT ![c] = "running"]
    /\ UNCHANGED <<scene, seq, decl, state, tally, entry, edge, dep, draining, owed>>

\* concludeGateLocked: the builder returned, panicked, or never ran.
Conclude(c, outcome) ==
    LET failed(a) == IF outcome = "done" THEN [tally |-> tally[a], woken |-> {}]
                     ELSE FailedBuilder(tally[a])
        r == [a \in Cols |->
                IF a \in Up[c] THEN Released(failed(a).tally, a = c, seq)
                ELSE [tally |-> tally[a], woken |-> {}]]
        woken == UNION {failed(a).woken \union r[a].woken : a \in Up[c]}
    IN
    /\ \/ builder[c] = "running" /\ outcome \in {"done", "failed"}
       \/ builder[c] = "pending" /\ entry[c] = "failed" /\ outcome = "notStarted"
    /\ builder' = [builder EXCEPT ![c] = outcome]
    /\ Wake(woken, [a \in Cols |-> r[a].tally], edge)
    /\ UNCHANGED <<scene, seq, decl, state, entry, edge, draining, owed>>

-----------------------------------------------------------------------------
\* The scheduler.

\* nextEligibleLocked reads a queued Task once more before it starts.
StartDep(d) ==
    /\ dep[d] = "queued"
    /\ IF PlacedOn(d, tally, edge, decl, draining) = "done"
       THEN dep' = [dep EXCEPT ![d] = "started"] /\ UNCHANGED tally
       ELSE Place({d}, tally, edge, decl, draining, dep)
    /\ UNCHANGED <<scene, seq, decl, state, builder, entry, edge, draining, owed>>

\* unpark.
Unparked(t) == [t EXCEPT !.parked = {}, !.open = {}]

\* Fault: nobody parked is looked at again.
DrainOnly ==
    /\ ~draining /\ draining' = TRUE
    /\ UNCHANGED <<scene, seq, decl, state, tally, builder, entry, edge, dep, owed>>

\* Finish drains: replaceParkedLocked.
Drain ==
    LET bare == [c \in Cols |-> Unparked(tally[c])] IN
    /\ ~draining /\ draining' = TRUE
    /\ Place({d \in Deps : dep[d] \in {"parked", "onEntry"}}, bare, edge, decl, TRUE, dep)
    /\ UNCHANGED <<scene, seq, decl, state, builder, entry, edge, owed>>

BuilderSteps(c) ==
    \/ StartBuilder(c)
    \/ \E o \in {"done", "failed", "notStarted"} : Conclude(c, o)
Work == \/ \E m \in Members, o \in {"done", "failed"} : SettleMember(m, o)
        \/ \E c \in Built : BuilderSteps(c) \/ \E o \in {"done", "failed"} : EntrySettles(c, o)

Next == \/ \E d \in Deps : After(d) \/ Submit(d) \/ StartDep(d)
        \/ \E m \in Members : DeclareMember(m)
        \/ \E c \in Cols : WaitSeals(c)
        \/ \E c \in Built : DefineBuilder(c)
        \/ Work \/ Drain

\* Callbacks return, the scheduler takes what is queued, Finish is called.
Fairness == /\ WF_vars(Work) /\ WF_vars(Drain)
            /\ \A d \in Deps : WF_vars(StartDep(d))

Spec == Init /\ [][Next]_vars /\ Fairness

-----------------------------------------------------------------------------
\* Properties.

\* The type of every variable.
TypeOK ==
    /\ seq = Cardinality(Declared(decl))
    /\ \A c \in Cols : /\ tally[c].prefix \in 0..Cardinality(MembersOf(c, decl))
                       /\ tally[c].holds \in 0..Cardinality(Built)
                       /\ tally[c].open \union {p[1] : p \in tally[c].parked}
                              = {d \in Deps : On[d] = c /\ dep[d] = "parked"}

\* What a full reading of the members would keep in the tallies.
ReadInFull ==
    [c \in Cols |->
        LET failed == {m \in MembersOf(c, decl) : state[m] = "failed"} IN
        [tally[c] EXCEPT !.prefix = Prefix(c, decl, state),
                         !.firstFailed = IF failed = {} THEN 0 ELSE Min({decl[m] : m \in failed})]]

\* Nobody stays parked on an edge that a full reading of its members resolves:
\* the tally follows every settle, and every settle, seal, release and failed
\* builder wakes all it concerns (collection_tally.go:10, :66). Who reads
\* through a cursor when a builder is given to the collection waits for it.
NobodyForgotten ==
    \A d \in Deps :
        dep[d] \in {"parked", "onEntry"} /\ (tally[On[d]].holds = 0 \/ d \in tally[On[d]].open) =>
            PlacedOn(d, ReadInFull, edge, decl, draining) = "pending"

\* Nobody starts while a builder under the collection is still to declare its
\* children or after one failed (collection_tally.go:40); nor, where its After
\* closed the edge, before the members it named have succeeded
\* (eligibility.go:68).
StartsAfterNamed ==
    [][\A d \in Deps : dep[d] # "started" /\ dep'[d] = "started" =>
        /\ \A b \in Built : On[d] \in Up[b] => builder[b] \in {"none", "done"}
        /\ edge[d] # 0 => \A m \in owed[d] : state[m] = "done"]_vars

\* Every dependent that was submitted starts or is told it never will, once
\* the run drains (eligibility.go:350).
EveryDependentEnds ==
    \A d \in Deps : dep[d] \in {"parked", "onEntry", "queued"}
        ~> dep[d] \in {"started", "notStarted"}
=============================================================================
