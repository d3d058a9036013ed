--------------------------------- MODULE Live ---------------------------------
(***************************************************************************)
(* The live region of an interactive run (engine/live.go, live_paint.go,   *)
(* suspend.go, and the durable rows of progressive.go): when a frame is    *)
(* painted, by whom, and what it may not be painted over. Workers paint    *)
(* under the Output's mutex; the animator takes a frame under it and       *)
(* paints without it. What a frame shows is the set of its rows.           *)
(*                                                                         *)
(* Every operator on the record l is a part of one critical section.  An   *)
(* operator marked "Fault" is a plausible bug in the definition after it.  *)
(* No specification uses it; it shows what a property can detect.          *)
(***************************************************************************)
EXTENDS Naturals, FiniteSets

CONSTANTS
    Tasks,
    Roots,      \* standalone Tasks; the others are a collection's children
    Gates,      \* the roots that are Confirm gates
    Screens,    \* what a behaviour may start from: see Armed, Delayed, Spends
    MaxRev,     \* bound on the Progress calls of a Task
    MaxPrints,  \* bound on PrintLine calls
    MaxFrames,  \* bound on frames taken while an older one is being painted
    Loops,      \* bound on animator goroutines alive at once
    None

ASSUME LiveAssumption ==
    /\ Gates \subseteq Roots /\ Roots \subseteq Tasks
    /\ Screens \subseteq [tasks : SUBSET Tasks, armed : BOOLEAN, delayed : BOOLEAN,
                          spends : BOOLEAN]
    /\ {MaxRev, MaxPrints, MaxFrames} \subseteq Nat
    /\ Loops # {} /\ None \notin Loops

VARIABLES
    screen,  \* the one of this run
    model,  \* of each Task its state, progress and coreEmitted
    live,   \* liveEngine, and the animator goroutines; missed: see Misses
    asking, \* where each Confirm stands
    prints,
    finished

region == <<screen, model, live, asking, prints, finished>>

Armed == screen.armed      \* arm() promised a first paint before any Task exists
Delayed == screen.delayed  \* Config.VisibilityDelay is positive
Spends == screen.spends    \* more rows are painted than the budget of forced paints covers

RegionInit ==
    /\ screen \in Screens
    /\ model = [task |-> [t \in Tasks |-> "undeclared"],
                rev |-> [t \in Tasks |-> 0], committed |-> {}]
    /\ live = [visible |-> Armed, waiting |-> FALSE, since |-> Armed, over |-> ~Delayed,
               active |-> FALSE, shown |-> {}, seen |-> {}, ever |-> FALSE,
               seq |-> 0, floor |-> 0, painted |-> 0, pending |-> Armed, missed |-> FALSE,
               anim |-> IF Armed THEN CHOOSE k \in Loops : TRUE ELSE None,
               loop |-> [k \in Loops |-> IF Armed /\ k = CHOOSE j \in Loops : TRUE
                                         THEN "tick" ELSE "off"],
               frame |-> [k \in Loops |-> None]]
    /\ asking = [g \in Gates |-> "no"]
    /\ prints = 0 /\ finished = FALSE

-----------------------------------------------------------------------------
\* What there is to show.

Known(m) == {t \in Tasks : m.task[t] # "undeclared"}
Unresolved(m) == {t \in Tasks : m.task[t] \in {"pending", "running"}}
ArmedTitle(m) == Armed /\ Known(m) = {}

\* hasLiveActivityLocked: a finished progress bar still counts.
Activity(m) == \/ ArmedTitle(m) \/ Unresolved(m) # {}
               \/ \E t \in Tasks : m.rev[t] > 0 /\ m.task[t] = "done"

\* needsSpinnerAnimLocked.
NeedsTick(m) == ArmedTitle(m) \/ Unresolved(m) # {}

\* The rows of a frame: what is declared and not yet durable.
Content(m) == {<<t, m.task[t], m.rev[t]>> : t \in Known(m) \ m.committed}
Spins(content) == \E row \in content : row[2] = "running"

-----------------------------------------------------------------------------
\* Frames.

InFlight(l) == {k \in Loops : l.frame[k] # None}

\* Frames are numbered anew when none is in flight: only their order counts.
Renumbered(l) == IF InFlight(l) = {} THEN [l EXCEPT !.seq = 0, !.floor = 0, !.painted = 0] ELSE l

\* paint drops a frame that a clear or a newer frame has superseded.
Paints(l, f) == f.seq > l.floor /\ f.seq >= l.painted

\* The frame was taken before a change that is to be painted after it: writing
\* it forgets that change all the same. No code keeps this; the properties do.
Misses(l, f, m) == (l.pending \/ l.missed) /\ f.content # Content(m)

\* paint, in a run that is at m by now: identical bytes are not written again;
\* a spinning row is never identical.
Painted(l, f, m) ==
    IF ~Paints(l, f) THEN l
    ELSE IF l.active /\ f.content = l.shown /\ ~Spins(f.content)
    THEN [l EXCEPT !.painted = f.seq]
    ELSE [l EXCEPT !.painted = f.seq, !.shown = f.content, !.active = TRUE,
                   !.missed = Misses(l, f, m), !.pending = FALSE, !.ever = TRUE]

\* liveFrameLocked: rows it holds have been seen.
Taken(l, m) == [l EXCEPT !.seq = @ + 1, !.seen = @ \union Known(m)]
FrameOf(l, m) == [seq |-> l.seq, content |-> Content(m)]

\* renderLiveLocked: taken and painted in one critical section.
Rendered(l, m) ==
    IF ~l.visible THEN l
    ELSE LET taken == Taken(l, m) IN Renumbered(Painted(taken, FrameOf(taken, m), m))

\* Fault: a clear forgets the frames still in flight.
ClearedHere(l) == [l EXCEPT !.active = FALSE, !.shown = {}]

\* clear: frames taken before it are dropped.
Cleared(l) == [l EXCEPT !.floor = l.seq, !.active = FALSE, !.shown = {}]

\* Anything durable goes above the region, which is redrawn at once.
Durable(l, m) ==
    LET c == Cleared(l) IN IF c.visible /\ Activity(m) THEN Rendered(c, m) ELSE c

-----------------------------------------------------------------------------
\* The animator.

Stopped(l) == [l EXCEPT !.anim = None]

Idle(l) == {k \in Loops : l.loop[k] = "off"}
Started(l) ==
    IF Idle(l) = {} THEN l
    ELSE LET k == CHOOSE j \in Idle(l) : TRUE IN
         [l EXCEPT !.anim = k, !.loop[k] = "tick"]

\* Fault: only a withheld first paint starts the animator.
EnsuredWaiting(l, m) ==
    IF finished \/ l.anim # None \/ ~l.waiting THEN l ELSE Started(l)

\* ensureSpinnerAnimatorLocked.
Ensured(l, m) ==
    IF \/ finished \/ l.anim # None
       \/ ~l.waiting /\ (~l.visible \/ (~NeedsTick(m) /\ ~l.pending))
    THEN l ELSE Started(l)

\* signalLiveLocked. VisibilityDelay withholds the first paint unless a Running
\* row was never seen; then a paint is coalesced or made at once.
Signalled(l, m, coalesce) ==
    LET settled == l.visible /\ l.since /\ l.over
        shows == l.over \/ ArmedTitle(m) \/ \E t \in Tasks : m.task[t] = "running" /\ t \notin l.seen
        s == IF settled \/ ~Activity(m) THEN l
             ELSE [l EXCEPT !.since = TRUE, !.waiting = ~shows, !.visible = @ \/ shows]
    IN  IF s.waiting /\ ~settled /\ Activity(m) THEN Ensured(s, m)
        ELSE IF ~s.visible THEN s
        ELSE IF s.ever /\ coalesce THEN Ensured([s EXCEPT !.pending = TRUE], m)
        ELSE Ensured(Rendered(s, m), m)

\* One tick, under the mutex: what animatorTickLocked decides.
Tick(k) ==
    /\ live.loop[k] = "tick" /\ live.seq < MaxFrames
    /\ live' =
        IF finished THEN [Stopped(live) EXCEPT !.loop[k] = "off"]
        ELSE IF live.waiting /\ Activity(model)
        THEN IF live.over
             THEN Rendered([live EXCEPT !.visible = TRUE, !.waiting = FALSE], model)
             ELSE live
        ELSE IF ~live.visible THEN [Stopped(live) EXCEPT !.loop[k] = "off"]
        ELSE LET taken == Taken(live, model) IN
             IF NeedsTick(model)
             THEN [taken EXCEPT !.loop[k] = "paint", !.frame[k] = FrameOf(taken, model)]
             ELSE IF live.pending
             THEN [Stopped(taken) EXCEPT !.loop[k] = "flush", !.frame[k] = FrameOf(taken, model)]
             ELSE [Stopped(live) EXCEPT !.loop[k] = "off"]
    /\ UNCHANGED <<screen, model, asking, prints, finished>>

\* paintFrameUnlocked: the frame is written without the mutex.
Paint(k) ==
    /\ live.frame[k] # None
    /\ live' = Renumbered([Painted(live, live.frame[k], model) EXCEPT
                  !.frame[k] = None, !.loop[k] = IF @ = "flush" THEN "off" ELSE "tick"])
    /\ UNCHANGED <<screen, model, asking, prints, finished>>

\* A stopped loop sees its closed channel; until then it may tick once more.
LoopEnds(k) ==
    /\ live.loop[k] = "tick" /\ live.anim # k
    /\ live' = [live EXCEPT !.loop[k] = "off"]
    /\ UNCHANGED <<screen, model, asking, prints, finished>>

\* VisibilityDelay passes.
DelayPasses ==
    /\ live.since /\ ~live.over
    /\ live' = [live EXCEPT !.over = TRUE]
    /\ UNCHANGED <<screen, model, asking, prints, finished>>

-----------------------------------------------------------------------------
\* What workers do.

\* The bounds, on frames taken while one is in flight and on animators at once.
Room == live.seq < MaxFrames - 2 /\ ~finished /\ (live.anim # None \/ Idle(live) # {})

\* A forced signal is coalesced where there are more Tasks than
\* forcedRenderRowsPerInterval, and inside a frame interval whose budget is spent.
Signals(m) == \E coalesce \in {FALSE, Spends} : live' = Signalled(live, m, coalesce)

Declare(t) ==
    /\ Room /\ t \in screen.tasks /\ model.task[t] = "undeclared"
    /\ model' = [model EXCEPT !.task[t] = "pending"]
    /\ Signals(model')
    /\ UNCHANGED <<screen, asking, prints, finished>>

Start(t) ==
    /\ Room /\ model.task[t] = "pending" /\ t \notin Gates
    /\ model' = [model EXCEPT !.task[t] = "running"]
    /\ Signals(model')
    /\ UNCHANGED <<screen, asking, prints, finished>>

\* Progress is not forced: inside the frame interval it is coalesced.
Progress(t) ==
    /\ Room /\ model.task[t] = "running" /\ model.rev[t] < MaxRev
    /\ model' = [model EXCEPT !.rev[t] = @ + 1]
    /\ \E coalesce \in BOOLEAN : live' = Signalled(live, model', coalesce)
    /\ UNCHANGED <<screen, asking, prints, finished>>

\* commitResolvedTaskLocked: t's row is durable and leaves the region.
Committed(l, m, t) ==
    LET d == Durable(l, m) IN
    IF Activity(m) THEN Rendered([d EXCEPT !.visible = TRUE], m)
    ELSE IF d.active THEN Stopped([Cleared(d) EXCEPT !.visible = FALSE]) ELSE Cleared(d)

\* A Task settles: a child repaints, a root's row goes to scrollback.
SettleRow(t) ==
    /\ model' = [model EXCEPT !.task[t] = "done",
                              !.committed = IF t \in Roots THEN @ \union {t} ELSE @]
    /\ IF t \in Roots THEN live' = Committed(live, model', t) ELSE Signals(model')

Settle(t) ==
    /\ Room /\ model.task[t] = "running"
    /\ SettleRow(t)
    /\ UNCHANGED <<screen, asking, prints, finished>>

\* PrintLine and its like.
PrintLine ==
    /\ Room /\ prints < MaxPrints /\ prints' = prints + 1
    /\ live' = Durable(live, model)
    /\ UNCHANGED <<screen, model, asking, finished>>

\* SIGWINCH.
Resize ==
    /\ Room /\ live.visible
    /\ Signals(model)
    /\ UNCHANGED <<screen, model, asking, prints, finished>>

\* Finish: finishLiveLocked, then the final report.
Finish ==
    /\ Room /\ Unresolved(model) = {} /\ \A g \in Gates : asking[g] \in {"no", "over"}
    /\ finished' = TRUE
    /\ live' = [Cleared(Stopped(live)) EXCEPT !.visible = @ /\ ~live.active]
    /\ UNCHANGED <<screen, model, asking, prints>>

-----------------------------------------------------------------------------
\* Confirm and Suspend.

\* Suspend clears the region and hides it for as long as its callback runs.
Suspend(g) ==
    /\ Room /\ asking[g] = "no" /\ model.task[g] = "pending"
    /\ asking' = [asking EXCEPT ![g] = IF live.active THEN "hidden" ELSE "quiet"]
    /\ live' = [Cleared(live) EXCEPT !.visible = @ /\ ~live.active]
    /\ UNCHANGED <<screen, model, prints, finished>>

\* writeConfirmPrompt.
Prompt(g) ==
    /\ Room /\ asking[g] \in {"hidden", "quiet"}
    /\ asking' = [asking EXCEPT ![g] = IF @ = "hidden" THEN "askedHidden" ELSE "asked"]
    /\ live' = Durable(live, model)
    /\ UNCHANGED <<screen, model, prints, finished>>

\* The answer settles the gate and makes its row durable.
Answer(g) ==
    /\ Room /\ asking[g] \in {"askedHidden", "asked"}
    /\ asking' = [asking EXCEPT ![g] = IF @ = "askedHidden" THEN "answeredHidden" ELSE "answered"]
    /\ SettleRow(g)
    /\ UNCHANGED <<screen, prints, finished>>

\* Suspend ends: what it hid is shown again.
Resume(g) ==
    /\ Room /\ asking[g] \in {"answeredHidden", "answered"}
    /\ asking' = [asking EXCEPT ![g] = "over"]
    /\ live' = IF asking[g] = "answeredHidden" /\ NeedsTick(model)
               THEN Rendered([live EXCEPT !.visible = TRUE], model) ELSE live
    /\ UNCHANGED <<screen, model, prints, finished>>

Worker == \/ \E t \in Tasks : Declare(t) \/ Start(t) \/ Progress(t) \/ Settle(t)
          \/ PrintLine \/ Resize \/ Finish \/ DelayPasses
Confirm(g) == Suspend(g) \/ Prompt(g) \/ Answer(g) \/ Resume(g)

RegionNext == \/ Worker \/ \E g \in Gates : Confirm(g)
              \/ \E k \in Loops : Tick(k) \/ Paint(k) \/ LoopEnds(k)

\* The animator's timer fires and what it took is written; the clock goes on.
RegionFairness ==
    /\ WF_region(DelayPasses)
    /\ \A k \in Loops : WF_region(Tick(k) \/ LoopEnds(k)) /\ WF_region(Paint(k))

RegionSpec == RegionInit /\ [][RegionNext]_region /\ RegionFairness

-----------------------------------------------------------------------------
\* Properties.

\* The rows a frame may show, the frames, and the types of the two records.
ShownRows == Tasks \X {"undeclared", "pending", "running", "done"} \X (0..MaxRev)
Frames == [seq : 0..MaxFrames, content : SUBSET ShownRows]

Models == [task : [Tasks -> {"undeclared", "pending", "running", "done"}],
           rev : [Tasks -> 0..MaxRev], committed : SUBSET Roots]

Engines ==
    [visible : BOOLEAN, waiting : BOOLEAN, since : BOOLEAN, over : BOOLEAN,
     active : BOOLEAN, shown : SUBSET ShownRows, seen : SUBSET Tasks, ever : BOOLEAN,
     seq : 0..MaxFrames, floor : 0..MaxFrames, painted : 0..MaxFrames, pending : BOOLEAN,
     missed : BOOLEAN, anim : Loops \union {None}, loop : [Loops -> {"off", "tick", "paint", "flush"}],
     frame : [Loops -> Frames \union {None}]]

\* The type of every variable.  The loop the animator is known by runs, and a
\* region that was cleared shows nothing.
RegionTypeOK ==
    /\ screen \in Screens /\ model \in Models /\ live \in Engines
    /\ asking \in [Gates -> {"no", "hidden", "quiet", "askedHidden", "asked",
                             "answeredHidden", "answered", "over"}]
    /\ prints \in 0..MaxPrints /\ finished \in BOOLEAN
    /\ live.anim # None => live.loop[live.anim] # "off"
    /\ ~live.active => live.shown = {}

\* A row that is in scrollback is never in the region below it: no frame
\* taken before it was committed lands after (live_paint.go:107).
NoRowTwice == \A row \in live.shown : row[1] \notin model.committed

Behind == live.active /\ live.shown # Content(model)

\* A screen behind the run catches up, coalesced changes included, unless the
\* last frame written was an older one and nothing is left that ticks
\* (live.go:144; live_paint.go:101 forgets the change).
CatchesUp == Behind ~> ~Behind \/ (live.missed /\ ~live.pending /\ ~NeedsTick(model))

\* "the frame on screen is never older than the run" when the animator goes quiet
\* (live.go:422).
NeverLeftBehind == Behind ~> ~Behind
=============================================================================
