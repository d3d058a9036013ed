------------------------------ MODULE LiveProofs ------------------------------
\* What holds of the live region for every set of Tasks, however many animators
\* are alive at once; and of the Confirm gates, for any number of them.
EXTENDS Live, Confirm, FiniteSetTheorems, TLAPS

-----------------------------------------------------------------------------
\* The inductive invariant.

\* A clear and a paint come after the frames they are about; who has a frame in
\* flight paints it; the animator's loop has not been told to stop.
Ordered(l) ==
    /\ l.floor =< l.seq /\ l.painted =< l.seq
    /\ \A k \in Loops : l.frame[k] # None =>
           l.frame[k].seq =< l.seq /\ l.loop[k] \in {"paint", "flush"}
    /\ l.anim # None => l.loop[l.anim] \in {"tick", "paint"}
    /\ ~l.active => l.shown = {}

Beside(content, c) == \A row \in content : row[1] \notin c

\* Neither the region nor a frame that may still be painted has a row of c.
Fresh(l, c) ==
    /\ Beside(l.shown, c)
    /\ \A k \in Loops : l.frame[k] # None /\ l.frame[k].seq > l.floor
                        => Beside(l.frame[k].content, c)

Sound(l, c) == l \in Engines /\ Ordered(l) /\ Fresh(l, c)

-----------------------------------------------------------------------------
\* The operators of a critical section keep it.

LEMMA Bounds == MaxRev \in Nat /\ MaxFrames \in Nat /\ MaxPrints \in Nat
BY LiveAssumption

LEMMA ContentFresh ==
    ASSUME NEW m \in Models
    PROVE  Content(m) \in SUBSET ShownRows /\ Beside(Content(m), m.committed)
BY DEF Content, Known, Models, ShownRows, Beside

LEMMA ClearedSound ==
    ASSUME NEW l \in Engines, Ordered(l), NEW c
    PROVE  Sound(Cleared(l), c) /\ Cleared(l).seq = l.seq
<1>1. Cleared(l) \in Engines /\ Cleared(l).seq = l.seq
    BY DEF Cleared, Engines
<1>2. /\ Cleared(l).floor = l.seq /\ Cleared(l).painted = l.painted /\ Cleared(l).shown = {}
      /\ Cleared(l).frame = l.frame /\ Cleared(l).loop = l.loop /\ Cleared(l).anim = l.anim
    BY DEF Cleared, Engines
<1>3. l.seq \in Nat
    BY Bounds DEF Engines
<1>4. Ordered(Cleared(l))
    BY <1>1, <1>2, <1>3 DEF Ordered
<1>5. Fresh(Cleared(l), c)
  <2>1. \A k \in Loops : l.frame[k] # None => l.frame[k].seq \in Nat
    BY Bounds DEF Engines, Frames
  <2> QED
    BY <1>2, <1>3, <2>1 DEF Fresh, Ordered, Beside
<1> QED
    BY <1>1, <1>4, <1>5 DEF Sound

LEMMA TakenSound ==
    ASSUME NEW l, NEW m \in Models, NEW c, Sound(l, c), l.seq < MaxFrames
    PROVE  LET t == Taken(l, m) IN
           /\ Sound(t, c) /\ t.seq = l.seq + 1
           /\ FrameOf(t, m) = [seq |-> l.seq + 1, content |-> Content(m)]
           /\ FrameOf(t, m) \in Frames
           /\ t = [l EXCEPT !.seq = t.seq, !.seen = t.seen]
<1> DEFINE t == Taken(l, m)
<1>1. l \in Engines /\ l.seq \in Nat /\ l.floor \in Nat /\ l.painted \in Nat
    BY Bounds DEF Sound, Engines
<1>2. Known(m) \subseteq Tasks
    BY DEF Known
<1>3. t \in Engines /\ t.seq = l.seq + 1
  <2>1. l.seq + 1 \in 0..MaxFrames
    BY <1>1, Bounds
  <2>2. l.seen \union Known(m) \in SUBSET Tasks
    BY <1>1, <1>2 DEF Engines
  <2> QED
    BY <1>1, <2>1, <2>2 DEF Taken, Engines
<1>4. /\ t.floor = l.floor /\ t.painted = l.painted /\ t.shown = l.shown /\ t.active = l.active
      /\ t.frame = l.frame /\ t.loop = l.loop /\ t.anim = l.anim
    BY <1>1 DEF Taken, Engines
<1>5. \A k \in Loops : l.frame[k] # None => l.frame[k].seq \in Nat
    BY <1>1, Bounds DEF Engines, Frames
<1>6. t = [l EXCEPT !.seq = t.seq, !.seen = t.seen]
    BY <1>1 DEF Taken, Engines
<1>7. FrameOf(t, m) = [seq |-> l.seq + 1, content |-> Content(m)]
    BY <1>3 DEF FrameOf
<1>8. FrameOf(t, m) \in Frames
    BY <1>1, <1>7, ContentFresh, Bounds DEF Frames
<1> HIDE DEF t
<1>9. Ordered(t) /\ Fresh(t, c)
    BY <1>1, <1>3, <1>4, <1>5 DEF Sound, Ordered, Fresh
<1> QED
    BY <1>3, <1>6, <1>7, <1>8, <1>9 DEF Sound, t

LEMMA PaintedSound ==
    ASSUME NEW l, NEW c, Sound(l, c), NEW f \in Frames, f.seq =< l.seq,
           f.seq > l.floor => Beside(f.content, c), NEW m
    PROVE  LET p == Painted(l, f, m) IN
           /\ Sound(p, c) /\ p.seq = l.seq /\ p.floor = l.floor
           /\ p.frame = l.frame /\ p.loop = l.loop /\ p.anim = l.anim
<1> DEFINE p == Painted(l, f, m)
<1>1. l \in Engines /\ f.seq \in 0..MaxFrames /\ f.content \in SUBSET ShownRows
    BY DEF Sound, Frames
<1>2. p \in Engines
  <2>1. Misses(l, f, m) \in BOOLEAN
    BY DEF Misses
  <2>2. PICK b \in BOOLEAN : b = Misses(l, f, m)
    BY <2>1
  <2>3. \/ p = l
        \/ p = [l EXCEPT !.painted = f.seq]
        \/ p = [l EXCEPT !.painted = f.seq, !.shown = f.content, !.active = TRUE,
                         !.missed = b, !.pending = FALSE, !.ever = TRUE]
    BY <2>2 DEF Painted
  <2> HIDE DEF p
  <2>4. CASE p = l
    BY <1>1, <2>4
  <2>5. CASE p = [l EXCEPT !.painted = f.seq]
    BY <1>1, <2>5 DEF Engines
  <2>6. CASE p = [l EXCEPT !.painted = f.seq, !.shown = f.content, !.active = TRUE,
                           !.missed = b, !.pending = FALSE, !.ever = TRUE]
    BY <1>1, <2>2, <2>6 DEF Engines
  <2> QED
    BY <2>3, <2>4, <2>5, <2>6
<1>3. /\ p.seq = l.seq /\ p.floor = l.floor
      /\ p.frame = l.frame /\ p.loop = l.loop /\ p.anim = l.anim
    BY <1>1 DEF Painted, Engines
<1>4. p.painted = l.painted \/ p.painted = f.seq
    BY <1>1 DEF Painted, Engines
<1>5. \/ p.shown = l.shown /\ p.active = l.active
      \/ p.shown = f.content /\ p.active /\ f.seq > l.floor
    BY <1>1 DEF Painted, Paints, Engines
<1> HIDE DEF p
<1>6. Ordered(p) /\ Fresh(p, c)
    BY <1>3, <1>4, <1>5 DEF Sound, Ordered, Fresh
<1> QED
    BY <1>2, <1>3, <1>6 DEF Sound, p

LEMMA RenumberedSound ==
    ASSUME NEW l, NEW c, Sound(l, c)
    PROVE  Sound(Renumbered(l), c) /\ Renumbered(l).seq =< l.seq
<1> DEFINE r == Renumbered(l)
<1>1. l \in Engines /\ l.seq \in Nat
    BY Bounds DEF Sound, Engines
<1>2. CASE InFlight(l) = {}
  <2>1. r \in Engines /\ r.seq = 0 /\ r.floor = 0 /\ r.painted = 0
    <3>1. 0 \in 0..MaxFrames
      BY Bounds
    <3>2. r = [l EXCEPT !.seq = 0, !.floor = 0, !.painted = 0]
      BY <1>2 DEF Renumbered
    <3> HIDE DEF r
    <3> QED
      BY <1>1, <3>1, <3>2 DEF Engines
  <2>2. /\ r.shown = l.shown /\ r.active = l.active
        /\ r.frame = l.frame /\ r.loop = l.loop /\ r.anim = l.anim
    BY <1>1, <1>2 DEF Renumbered, Engines
  <2>3. \A k \in Loops : l.frame[k] = None
    BY <1>2 DEF InFlight
  <2> HIDE DEF r
  <2>4. Ordered(r) /\ Fresh(r, c)
    BY <2>1, <2>2, <2>3 DEF Sound, Ordered, Fresh
  <2> QED
    BY <1>1, <2>1, <2>4 DEF Sound, r
<1>3. CASE InFlight(l) # {}
    BY <1>1, <1>3 DEF Renumbered
<1> QED
    BY <1>2, <1>3

LEMMA RenderedSound ==
    ASSUME NEW l, NEW m \in Models, Sound(l, m.committed), l.seq < MaxFrames
    PROVE  Sound(Rendered(l, m), m.committed) /\ Rendered(l, m).seq =< l.seq + 1
<1> DEFINE c == m.committed
           t == Taken(l, m)
           f == FrameOf(t, m)
           p == Painted(t, f, m)
<1>0. l.seq \in Nat
    BY Bounds DEF Sound, Engines
<1>1. /\ Sound(t, c) /\ t.seq = l.seq + 1 /\ f = [seq |-> l.seq + 1, content |-> Content(m)]
      /\ f \in Frames
    BY TakenSound
<1>2. f.seq =< t.seq /\ Beside(f.content, c)
    BY <1>0, <1>1, ContentFresh
<1>3. Sound(p, c) /\ p.seq = t.seq
  <2> HIDE DEF t, f, c
  <2> QED
    BY <1>1, <1>2, PaintedSound
<1>4. Sound(Renumbered(p), c) /\ Renumbered(p).seq =< l.seq + 1
  <2> HIDE DEF p, t, c
  <2> QED
    BY <1>1, <1>3, RenumberedSound
<1>5. Rendered(l, m) = IF ~l.visible THEN l ELSE Renumbered(p)
    BY DEF Rendered
<1> HIDE DEF p
<1> QED
    BY <1>0, <1>4, <1>5

LEMMA StartedSound ==
    ASSUME NEW l, NEW c, Sound(l, c)
    PROVE  Sound(Started(l), c) /\ Started(l).seq = l.seq
<1> DEFINE s == Started(l)
<1>1. l \in Engines
    BY DEF Sound
<1>2. CASE Idle(l) # {}
  <2>1. PICK k \in Idle(l) : s = [l EXCEPT !.anim = k, !.loop[k] = "tick"]
    BY <1>2 DEF Started
  <2>2. k \in Loops /\ l.loop[k] = "off"
    BY <2>1 DEF Idle
  <2> HIDE DEF s
  <2>3. s \in Engines
    BY <1>1, <2>1, <2>2 DEF Engines
  <2>4. /\ s.seq = l.seq /\ s.floor = l.floor /\ s.painted = l.painted /\ s.shown = l.shown
        /\ s.active = l.active /\ s.frame = l.frame /\ s.anim = k
        /\ s.loop = [l.loop EXCEPT ![k] = "tick"]
    BY <1>1, <2>1 DEF Engines
  <2>5. l.loop \in [Loops -> {"off", "tick", "paint", "flush"}]
    BY <1>1 DEF Engines
  <2>6. Ordered(s) /\ Fresh(s, c)
    BY <2>2, <2>4, <2>5 DEF Sound, Ordered, Fresh
  <2> QED
    BY <2>3, <2>4, <2>6 DEF Sound, s
<1>3. CASE Idle(l) = {}
    BY <1>3 DEF Started
<1> QED
    BY <1>2, <1>3

LEMMA EnsuredSound ==
    ASSUME NEW l, NEW m, NEW c, Sound(l, c)
    PROVE  Sound(Ensured(l, m), c) /\ Ensured(l, m).seq = l.seq
<1>1. Ensured(l, m) \in {l, Started(l)}
    BY DEF Ensured
<1> QED
    BY <1>1, StartedSound

\* What only shows, hides, withholds or promises.
LEMMA MarkedSound ==
    ASSUME NEW l, NEW c, Sound(l, c), NEW s \in Engines,
           s.seq = l.seq, s.floor = l.floor, s.painted = l.painted, s.shown = l.shown,
           s.active = l.active, s.frame = l.frame, s.loop = l.loop, s.anim \in {l.anim, None}
    PROVE  Sound(s, c)
BY DEF Sound, Ordered, Fresh

LEMMA ShownSound ==
    ASSUME NEW l, NEW c, Sound(l, c), NEW v \in BOOLEAN
    PROVE  LET s == [l EXCEPT !.visible = v] IN Sound(s, c) /\ s.seq = l.seq
<1> DEFINE s == [l EXCEPT !.visible = v]
<1>1. /\ s \in Engines /\ s.seq = l.seq /\ s.floor = l.floor /\ s.painted = l.painted
      /\ s.shown = l.shown /\ s.active = l.active /\ s.frame = l.frame /\ s.loop = l.loop
      /\ s.anim = l.anim
    BY DEF Sound, Engines
<1> HIDE DEF s
<1>2. Sound(s, c)
    BY <1>1, MarkedSound
<1> QED
    BY <1>1, <1>2 DEF s

LEMMA StoppedSound ==
    ASSUME NEW l, NEW c, Sound(l, c)
    PROVE  Sound(Stopped(l), c) /\ Stopped(l).seq = l.seq
<1> DEFINE s == Stopped(l)
<1>1. /\ s \in Engines /\ s.seq = l.seq /\ s.floor = l.floor /\ s.painted = l.painted
      /\ s.shown = l.shown /\ s.active = l.active /\ s.frame = l.frame /\ s.loop = l.loop
      /\ s.anim = None
    BY DEF Stopped, Sound, Engines
<1> HIDE DEF s
<1>2. Sound(s, c)
    BY <1>1, MarkedSound
<1> QED
    BY <1>1, <1>2 DEF s

LEMMA DurableSound ==
    ASSUME NEW l \in Engines, Ordered(l), NEW m \in Models, l.seq < MaxFrames
    PROVE  Sound(Durable(l, m), m.committed) /\ Durable(l, m).seq =< l.seq + 1
<1> DEFINE c == Cleared(l)
<1>0. l.seq \in Nat
    BY Bounds DEF Engines
<1>1. Sound(c, m.committed) /\ c.seq = l.seq
    BY ClearedSound
<1>2. Durable(l, m) \in {c, Rendered(c, m)}
    BY DEF Durable
<1> HIDE DEF c
<1>3. Sound(Rendered(c, m), m.committed) /\ Rendered(c, m).seq =< l.seq + 1
    BY <1>1, RenderedSound
<1> QED
    BY <1>0, <1>1, <1>2, <1>3

\* A signal changes no row that is durable.
LEMMA SignalledSound ==
    ASSUME NEW l, NEW m \in Models, Sound(l, m.committed), l.seq < MaxFrames,
           NEW coalesce \in BOOLEAN
    PROVE  Sound(Signalled(l, m, coalesce), m.committed)
           /\ Signalled(l, m, coalesce).seq =< l.seq + 1
<1> DEFINE c == m.committed
           settled == l.visible /\ l.since /\ l.over
           shows == \/ l.over \/ ArmedTitle(m)
                    \/ \E t \in Tasks : m.task[t] = "running" /\ t \notin l.seen
           s == IF settled \/ ~Activity(m) THEN l
                ELSE [l EXCEPT !.since = TRUE, !.waiting = ~shows, !.visible = @ \/ shows]
           w == [s EXCEPT !.pending = TRUE]
           r == Rendered(s, m)
<1>0. l \in Engines /\ l.seq \in Nat
    BY Bounds DEF Sound, Engines
<1>1. s \in Engines
    BY <1>0 DEF Engines, ArmedTitle
<1>2. /\ s.seq = l.seq /\ s.floor = l.floor /\ s.painted = l.painted /\ s.shown = l.shown
      /\ s.active = l.active /\ s.frame = l.frame /\ s.loop = l.loop /\ s.anim = l.anim
    BY <1>0 DEF Engines
<1>3. Signalled(l, m, coalesce) \in {s, Ensured(s, m), Ensured(w, m), Ensured(r, m)}
    BY DEF Signalled
<1> HIDE DEF s
<1>4. Sound(s, c)
    BY <1>1, <1>2, MarkedSound
<1>5. Sound(w, c) /\ w.seq = s.seq
  <2>1. /\ w \in Engines /\ w.seq = s.seq /\ w.floor = s.floor /\ w.painted = s.painted
        /\ w.shown = s.shown /\ w.active = s.active /\ w.frame = s.frame /\ w.loop = s.loop
        /\ w.anim = s.anim
    BY <1>1 DEF Engines
  <2> HIDE DEF w, c
  <2> QED
    BY <1>4, <2>1, MarkedSound
<1>6. Sound(r, c) /\ r.seq =< l.seq + 1
    BY <1>2, <1>4, RenderedSound
<1> HIDE DEF r, w, c
<1>7. \A x \in {s, w, r} : Sound(Ensured(x, m), c) /\ Ensured(x, m).seq = x.seq
    BY <1>4, <1>5, <1>6, EnsuredSound
<1> QED
    BY <1>0, <1>2, <1>3, <1>4, <1>5, <1>6, <1>7 DEF c

\* A row that has become durable is cleared away, and no frame taken with it is
\* painted any more.
LEMMA CommittedSound ==
    ASSUME NEW l \in Engines, Ordered(l), NEW m \in Models, l.seq < MaxFrames - 1, NEW t
    PROVE  Sound(Committed(l, m, t), m.committed) /\ Committed(l, m, t).seq =< l.seq + 2
<1> DEFINE c == m.committed
           d == Durable(l, m)
           v == [d EXCEPT !.visible = TRUE]
           e == Cleared(d)
           h == [e EXCEPT !.visible = FALSE]
<1>0. l.seq \in Nat /\ MaxFrames \in Nat
    BY Bounds DEF Engines
<1>1. Sound(d, c) /\ d.seq =< l.seq + 1
    BY <1>0, DurableSound
<1>2. Committed(l, m, t) \in {Rendered(v, m), Stopped(h), e}
    BY DEF Committed
<1> HIDE DEF d
<1>3. d.seq \in Nat
    BY <1>1, Bounds DEF Sound, Engines
<1>4. Sound(v, c) /\ v.seq = d.seq
  <2> HIDE DEF c
  <2> QED
    BY <1>1, ShownSound
<1>5. Sound(e, c) /\ e.seq = d.seq
    BY <1>1, ClearedSound DEF Sound
<1> HIDE DEF e
<1>6. Sound(h, c) /\ h.seq = d.seq
  <2> HIDE DEF c
  <2> QED
    BY <1>5, ShownSound
<1> HIDE DEF v, h
<1>7. Sound(Rendered(v, m), c) /\ Rendered(v, m).seq =< d.seq + 1
    BY <1>0, <1>1, <1>3, <1>4, RenderedSound
<1>8. Sound(Stopped(h), c) /\ Stopped(h).seq = d.seq
    BY <1>6, StoppedSound
<1>9. \A x : Sound(x, c) => x.seq \in Nat
    BY Bounds DEF Sound, Engines
<1>10. Rendered(v, m).seq =< l.seq + 2
  <2>1. Rendered(v, m).seq \in Nat
    BY <1>7, <1>9
  <2> QED
    BY <1>0, <1>1, <1>3, <1>7, <2>1
<1>11. Stopped(h).seq =< l.seq + 2 /\ e.seq =< l.seq + 2
    BY <1>0, <1>1, <1>3, <1>5, <1>8
<1> QED
    BY <1>2, <1>5, <1>7, <1>8, <1>10, <1>11

-----------------------------------------------------------------------------
\* The initial state and the steps.

Asked == {"no", "hidden", "quiet", "askedHidden", "asked", "answeredHidden", "answered", "over"}

Others == /\ screen \in Screens /\ asking \in [Gates -> Asked] /\ prints \in 0..MaxPrints
          /\ finished \in BOOLEAN

IInv == Others /\ model \in Models /\ Sound(live, model.committed)

LEMMA IInvTypes == IInv => RegionTypeOK /\ NoRowTwice
BY DEF IInv, Others, Asked, Sound, Ordered, Fresh, Beside, RegionTypeOK, NoRowTwice

LEMMA InitSound == RegionInit => IInv
<1> SUFFICES ASSUME RegionInit PROVE IInv
    OBVIOUS
<1>1. screen.armed \in BOOLEAN /\ screen.delayed \in BOOLEAN
    BY LiveAssumption DEF RegionInit
<1>2. 0 \in 0..MaxFrames /\ 0 \in 0..MaxRev /\ 0 \in 0..MaxPrints
    BY Bounds
<1>3. model \in Models
    BY <1>2 DEF RegionInit, Models
<1>4. (CHOOSE k \in Loops : TRUE) \in Loops /\ None \notin Loops
    BY LiveAssumption
<1> DEFINE first == CHOOSE k \in Loops : TRUE
<1>5. /\ live.anim \in Loops \union {None}
      /\ live.loop \in [Loops -> {"off", "tick", "paint", "flush"}]
      /\ live.frame = [k \in Loops |-> None]
    BY <1>4 DEF RegionInit, Armed
<1>6. live \in Engines
    BY <1>1, <1>2, <1>5 DEF RegionInit, Engines, Armed, Delayed
<1>7. live.anim # None => live.loop[live.anim] = "tick"
    BY <1>4 DEF RegionInit, Armed
<1>8. Ordered(live) /\ Fresh(live, model.committed)
    BY <1>5, <1>7 DEF RegionInit, Ordered, Fresh, Beside
<1> QED
    BY <1>2, <1>3, <1>6, <1>8 DEF RegionInit, IInv, Others, Asked, Sound

LEMMA RoomSound ==
    ASSUME IInv, Room
    PROVE  live.seq < MaxFrames /\ live.seq < MaxFrames - 1
BY Bounds DEF IInv, Room, Sound, Engines

\* A step that signals after an unresolved row changed.
LEMMA SignalStep ==
    ASSUME IInv, Room, model' \in Models, model'.committed = model.committed,
           Signals(model')
    PROVE  Sound(live', model'.committed)
<1>1. live.seq < MaxFrames /\ Sound(live, model'.committed)
    BY RoomSound DEF IInv
<1>2. PICK coalesce \in BOOLEAN : live' = Signalled(live, model', coalesce)
    BY LiveAssumption DEF Signals, Spends, IInv, Others
<1> QED
    BY <1>1, <1>2, SignalledSound

\* SettleRow, of a root or of a child.
LEMMA SettleStep ==
    ASSUME IInv, Room, NEW t \in Tasks, SettleRow(t)
    PROVE  model' \in Models /\ Sound(live', model'.committed)
<1>1. model' = [model EXCEPT !.task[t] = "done",
                              !.committed = IF t \in Roots THEN @ \union {t} ELSE @]
    BY DEF SettleRow
<1>2. /\ model' \in Models
      /\ t \notin Roots => model'.committed = model.committed
  <2> DEFINE c == IF t \in Roots THEN model.committed \union {t} ELSE model.committed
  <2>1. model' = [model EXCEPT !.task[t] = "done", !.committed = c]
    BY <1>1
  <2>2. c \in SUBSET Roots /\ (t \notin Roots => c = model.committed) /\ model \in Models
    BY DEF IInv, Models
  <2> HIDE DEF c
  <2> QED
    BY <2>1, <2>2 DEF Models
<1>3. CASE t \in Roots
  <2>1. live' = Committed(live, model', t)
    BY <1>3 DEF SettleRow
  <2>2. live \in Engines /\ Ordered(live) /\ live.seq < MaxFrames /\ live.seq < MaxFrames - 1
    BY RoomSound DEF IInv, Sound
  <2> QED
    BY <1>2, <2>1, <2>2, CommittedSound
<1>4. CASE t \notin Roots
  <2>1. Signals(model')
    BY <1>4 DEF SettleRow
  <2> QED
    BY <1>2, <1>4, <2>1, SignalStep
<1> QED
    BY <1>3, <1>4

LEMMA WorkerStep ==
    ASSUME IInv, Worker
    PROVE  IInv'
<1>1. ASSUME NEW t \in Tasks, Declare(t) PROVE IInv'
  <2>1. model' = [model EXCEPT !.task[t] = "pending"]
    BY <1>1 DEF Declare
  <2>2. model' \in Models /\ model'.committed = model.committed
    BY <2>1 DEF IInv, Models
  <2>3. Sound(live', model'.committed)
    BY <1>1, <2>2, SignalStep DEF Declare
  <2> QED
    BY <1>1, <2>2, <2>3 DEF Declare, IInv, Others
<1>2. ASSUME NEW t \in Tasks, Start(t) PROVE IInv'
  <2>1. model' = [model EXCEPT !.task[t] = "running"]
    BY <1>2 DEF Start
  <2>2. model' \in Models /\ model'.committed = model.committed
    BY <2>1 DEF IInv, Models
  <2>3. Sound(live', model'.committed)
    BY <1>2, <2>2, SignalStep DEF Start
  <2> QED
    BY <1>2, <2>2, <2>3 DEF Start, IInv, Others
<1>3. ASSUME NEW t \in Tasks, Progress(t) PROVE IInv'
  <2>1. model' = [model EXCEPT !.rev[t] = @ + 1] /\ model.rev[t] < MaxRev
    BY <1>3 DEF Progress
  <2>2. model.rev[t] + 1 \in 0..MaxRev
    BY <2>1, Bounds DEF IInv, Models
  <2>3. model' \in Models /\ model'.committed = model.committed
    BY <2>1, <2>2 DEF IInv, Models
  <2>4. Sound(live', model'.committed)
    BY <1>3, <2>3, RoomSound, SignalledSound DEF Progress, IInv
  <2> QED
    BY <1>3, <2>3, <2>4 DEF Progress, IInv, Others
<1>4. ASSUME NEW t \in Tasks, Settle(t) PROVE IInv'
  <2>1. model' \in Models /\ Sound(live', model'.committed)
    BY <1>4, SettleStep DEF Settle
  <2> QED
    BY <1>4, <2>1 DEF Settle, IInv, Others
<1>5. CASE PrintLine
  <2>1. live' = Durable(live, model) /\ live.seq < MaxFrames /\ model' = model
    BY <1>5, RoomSound DEF PrintLine
  <2>2. Sound(live', model'.committed)
    BY <2>1, DurableSound DEF IInv, Sound
  <2>3. prints' \in 0..MaxPrints
    BY <1>5, Bounds DEF PrintLine, IInv, Others
  <2> QED
    BY <1>5, <2>1, <2>2, <2>3 DEF PrintLine, IInv, Others
<1>6. CASE Resize
  <2>1. model' = model /\ Signals(model') /\ Room
    BY <1>6 DEF Resize, Signals, Signalled
  <2>2. Sound(live', model'.committed)
    BY <2>1, SignalStep DEF IInv
  <2> QED
    BY <1>6, <2>1, <2>2 DEF Resize, IInv, Others
<1>7. CASE Finish
  <2>1. live' = [Cleared(Stopped(live)) EXCEPT !.visible = live.visible /\ ~live.active]
    <3>1. Cleared(Stopped(live)).visible = live.visible
      BY DEF IInv, Sound, Engines, Cleared, Stopped
    <3> QED
      BY <1>7, <3>1 DEF Finish
  <2>2. Sound(Stopped(live), model.committed)
    BY StoppedSound DEF IInv
  <2>3. Sound(Cleared(Stopped(live)), model.committed)
    BY <2>2, ClearedSound DEF Sound
  <2>4. Sound(live', model.committed)
    <3>1. (live.visible /\ ~live.active) \in BOOLEAN
      OBVIOUS
    <3> QED
      BY <2>1, <2>3, <3>1, ShownSound
  <2> QED
    BY <1>7, <2>4 DEF Finish, IInv, Others
<1>8. CASE DelayPasses
  <2>1. live' = [live EXCEPT !.over = TRUE]
    BY <1>8 DEF DelayPasses
  <2>2. /\ live' \in Engines /\ live'.seq = live.seq /\ live'.floor = live.floor
        /\ live'.painted = live.painted /\ live'.shown = live.shown
        /\ live'.active = live.active /\ live'.frame = live.frame /\ live'.loop = live.loop
        /\ live'.anim = live.anim
    BY <2>1 DEF IInv, Sound, Engines
  <2>3. Sound(live', model.committed)
    BY <2>2, MarkedSound DEF IInv
  <2> QED
    BY <1>8, <2>3 DEF DelayPasses, IInv, Others
<1> QED
    BY <1>1, <1>2, <1>3, <1>4, <1>5, <1>6, <1>7, <1>8 DEF Worker

LEMMA ConfirmStep ==
    ASSUME IInv, NEW g \in Gates, Confirm(g)
    PROVE  IInv'
<1>0. Gates \subseteq Tasks /\ asking \in [Gates -> Asked]
    BY LiveAssumption DEF IInv, Others
<1>1. CASE Suspend(g)
  <2>1. live' = [Cleared(live) EXCEPT !.visible = live.visible /\ ~live.active]
    <3>1. Cleared(live).visible = live.visible
      BY DEF IInv, Sound, Engines, Cleared
    <3> QED
      BY <1>1, <3>1 DEF Suspend
  <2>2. Sound(Cleared(live), model.committed)
    BY ClearedSound DEF IInv, Sound
  <2>3. Sound(live', model.committed)
    <3>1. (live.visible /\ ~live.active) \in BOOLEAN
      OBVIOUS
    <3> QED
      BY <2>1, <2>2, <3>1, ShownSound
  <2>4. asking' \in [Gates -> Asked]
    BY <1>0, <1>1 DEF Suspend, Asked
  <2> QED
    BY <1>1, <2>3, <2>4 DEF Suspend, IInv, Others
<1>2. CASE Prompt(g)
  <2>1. live' = Durable(live, model) /\ live.seq < MaxFrames /\ model' = model
    BY <1>2, RoomSound DEF Prompt
  <2>2. Sound(live', model'.committed)
    BY <2>1, DurableSound DEF IInv, Sound
  <2>3. asking' \in [Gates -> Asked]
    BY <1>0, <1>2 DEF Prompt, Asked
  <2> QED
    BY <1>2, <2>1, <2>2, <2>3 DEF Prompt, IInv, Others
<1>3. CASE Answer(g)
  <2>1. model' \in Models /\ Sound(live', model'.committed)
    BY <1>0, <1>3, SettleStep DEF Answer
  <2>2. asking' \in [Gates -> Asked]
    BY <1>0, <1>3 DEF Answer, Asked
  <2> QED
    BY <1>3, <2>1, <2>2 DEF Answer, IInv, Others
<1>4. CASE Resume(g)
  <2> DEFINE v == [live EXCEPT !.visible = TRUE]
  <2>1. Sound(v, model.committed) /\ v.seq < MaxFrames
    <3>1. Sound(v, model.committed) /\ v.seq = live.seq
      BY ShownSound DEF IInv
    <3>2. live.seq < MaxFrames
      BY <1>4, RoomSound DEF Resume
    <3> HIDE DEF v
    <3> QED
      BY <3>1, <3>2
  <2>2. live' \in {Rendered(v, model), live}
    BY <1>4 DEF Resume
  <2> HIDE DEF v
  <2>3. Sound(live', model.committed)
    BY <2>1, <2>2, RenderedSound DEF IInv
  <2>4. asking' \in [Gates -> Asked]
    BY <1>0, <1>4 DEF Resume, Asked
  <2> QED
    BY <1>4, <2>3, <2>4 DEF Resume, IInv, Others
<1> QED
    BY <1>1, <1>2, <1>3, <1>4 DEF Confirm

\* A loop that has no frame to paint ends.
LEMMA EndSound ==
    ASSUME NEW l, NEW c, Sound(l, c), NEW k \in Loops, l.loop[k] = "tick", l.anim # k
    PROVE  Sound([l EXCEPT !.loop[k] = "off"], c)
<1> DEFINE s == [l EXCEPT !.loop[k] = "off"]
<1>1. s \in Engines
    BY DEF Sound, Engines
<1>2. /\ s.seq = l.seq /\ s.floor = l.floor /\ s.painted = l.painted /\ s.shown = l.shown
      /\ s.active = l.active /\ s.frame = l.frame /\ s.anim = l.anim
      /\ s.loop = [l.loop EXCEPT ![k] = "off"]
      /\ l.loop \in [Loops -> {"off", "tick", "paint", "flush"}]
      /\ l.anim \in Loops \union {None}
    BY DEF Sound, Engines
<1> HIDE DEF s
<1>3. Ordered(s) /\ Fresh(s, c)
    BY <1>2 DEF Sound, Ordered, Fresh
<1> QED
    BY <1>1, <1>3 DEF Sound, s

\* A loop takes a frame to paint it without the mutex: it shows no durable row.
LEMMA TakeSound ==
    ASSUME NEW l, NEW c, Sound(l, c), NEW k \in Loops, l.loop[k] = "tick",
           NEW f \in Frames, f.seq =< l.seq, Beside(f.content, c),
           NEW to \in {"paint", "flush"}, to = "flush" => l.anim # k
    PROVE  Sound([l EXCEPT !.loop[k] = to, !.frame[k] = f], c)
<1> DEFINE s == [l EXCEPT !.loop[k] = to, !.frame[k] = f]
<1>1. s \in Engines
    BY DEF Sound, Engines
<1>2. /\ s.seq = l.seq /\ s.floor = l.floor /\ s.painted = l.painted /\ s.shown = l.shown
      /\ s.active = l.active /\ s.anim = l.anim
      /\ s.frame = [l.frame EXCEPT ![k] = f] /\ s.loop = [l.loop EXCEPT ![k] = to]
      /\ l.loop \in [Loops -> {"off", "tick", "paint", "flush"}]
      /\ l.frame \in [Loops -> Frames \union {None}]
      /\ l.anim \in Loops \union {None}
    BY DEF Sound, Engines
<1> HIDE DEF s
<1>3. Ordered(s) /\ Fresh(s, c)
    BY <1>2 DEF Sound, Ordered, Fresh
<1> QED
    BY <1>1, <1>3 DEF Sound, s

LEMMA TickStep ==
    ASSUME IInv, NEW k \in Loops, Tick(k)
    PROVE  Sound(live', model.committed)
<1> DEFINE c == model.committed
           taken == Taken(live, model)
           f == FrameOf(taken, model)
           v == [live EXCEPT !.visible = TRUE, !.waiting = FALSE]
<1>1. live \in Engines /\ Sound(live, c) /\ live.loop[k] = "tick" /\ live.seq < MaxFrames
      /\ live.seq \in Nat
    BY Bounds DEF IInv, Tick, Sound, Engines
<1>2. Sound(Stopped(live), c) /\ Stopped(live).loop[k] = "tick" /\ Stopped(live).anim # k
  <2>1. Stopped(live).loop = live.loop /\ Stopped(live).anim = None
    BY <1>1 DEF Stopped, Engines
  <2> QED
    BY <1>1, <2>1, StoppedSound, LiveAssumption
<1>3. /\ Sound(taken, c) /\ f \in Frames /\ f.seq =< taken.seq /\ f.content = Content(model)
      /\ taken.loop = live.loop /\ taken.anim = live.anim
  <2>1. /\ Sound(taken, c) /\ taken.seq = live.seq + 1
        /\ f = [seq |-> live.seq + 1, content |-> Content(model)] /\ f \in Frames
    BY <1>1, TakenSound DEF IInv
  <2>2. taken.loop = live.loop /\ taken.anim = live.anim
    BY <1>1 DEF Taken, Engines
  <2> QED
    BY <1>1, <2>1, <2>2
<1>4. Beside(f.content, c)
    BY <1>3, ContentFresh DEF IInv
<1>5. Sound(v, c) /\ v.seq = live.seq
  <2>1. /\ v \in Engines /\ v.seq = live.seq /\ v.floor = live.floor
        /\ v.painted = live.painted /\ v.shown = live.shown /\ v.active = live.active
        /\ v.frame = live.frame /\ v.loop = live.loop /\ v.anim = live.anim
    BY <1>1 DEF Engines
  <2> HIDE DEF v, c
  <2> QED
    BY <1>1, <2>1, MarkedSound
<1>6. \/ live' = [Stopped(live) EXCEPT !.loop[k] = "off"]
      \/ live' = Rendered(v, model)
      \/ live' = live
      \/ live' = [taken EXCEPT !.loop[k] = "paint", !.frame[k] = f]
      \/ live' = [Stopped(taken) EXCEPT !.loop[k] = "flush", !.frame[k] = f]
    BY DEF Tick
<1> HIDE DEF v, taken, f, c
<1>7. Sound([Stopped(live) EXCEPT !.loop[k] = "off"], c)
    BY <1>2, EndSound
<1>8. Sound(Rendered(v, model), c)
    BY <1>1, <1>5, RenderedSound DEF IInv, c
<1>9. Sound([taken EXCEPT !.loop[k] = "paint", !.frame[k] = f], c)
    BY <1>1, <1>3, <1>4, TakeSound
<1>10. Sound([Stopped(taken) EXCEPT !.loop[k] = "flush", !.frame[k] = f], c)
  <2>1. /\ Stopped(taken).loop = taken.loop /\ Stopped(taken).anim = None
        /\ Stopped(taken).seq = taken.seq
    BY <1>3 DEF Stopped, Sound, Engines
  <2>2. Sound(Stopped(taken), c) /\ Stopped(taken).loop[k] = "tick" /\ Stopped(taken).anim # k
    BY <1>1, <1>3, <2>1, StoppedSound, LiveAssumption
  <2> QED
    BY <1>3, <1>4, <2>1, <2>2, TakeSound
<1> QED
    BY <1>1, <1>6, <1>7, <1>8, <1>9, <1>10 DEF c

\* The frame is in flight until it is painted.
LEMMA PaintStep ==
    ASSUME IInv, NEW k \in Loops, Paint(k)
    PROVE  Sound(live', model.committed)
<1> DEFINE c == model.committed
           f == live.frame[k]
           p == Painted(live, f, model)
           to == IF p.loop[k] = "flush" THEN "off" ELSE "tick"
           s == [p EXCEPT !.frame[k] = None, !.loop[k] = to]
<1>1. live \in Engines /\ Sound(live, c) /\ f # None
    BY DEF IInv, Paint, Sound
<1>2. f \in Frames /\ f.seq =< live.seq /\ (f.seq > live.floor => Beside(f.content, c))
      /\ live.loop[k] \in {"paint", "flush"}
    BY <1>1 DEF Sound, Engines, Ordered, Fresh
<1>3. /\ Sound(p, c) /\ p.seq = live.seq /\ p.floor = live.floor
      /\ p.frame = live.frame /\ p.loop = live.loop /\ p.anim = live.anim
  <2> HIDE DEF f, c
  <2> QED
    BY <1>1, <1>2, PaintedSound
<1>4. live' = Renumbered(s)
    BY DEF Paint
<1> HIDE DEF p
<1>5. s \in Engines
    BY <1>3 DEF Sound, Engines
<1>6. /\ s.seq = p.seq /\ s.floor = p.floor /\ s.painted = p.painted /\ s.shown = p.shown
      /\ s.active = p.active /\ s.anim = p.anim
      /\ s.frame = [p.frame EXCEPT ![k] = None] /\ s.loop = [p.loop EXCEPT ![k] = to]
      /\ p.loop \in [Loops -> {"off", "tick", "paint", "flush"}]
      /\ p.frame \in [Loops -> Frames \union {None}]
      /\ p.anim \in Loops \union {None}
    BY <1>3 DEF Sound, Engines
<1>7. p.anim = k => to = "tick"
    BY <1>1, <1>3, LiveAssumption DEF Sound, Ordered
<1> HIDE DEF s, to, c
<1>8. Ordered(s) /\ Fresh(s, c)
  <2>1. Ordered(p) /\ Fresh(p, c)
    BY <1>3 DEF Sound
  <2>2. Fresh(s, c)
    BY <1>6, <2>1 DEF Fresh
  <2>3. s.anim # None => s.loop[s.anim] \in {"tick", "paint"}
    BY <1>6, <1>7, <2>1 DEF Ordered
  <2> QED
    BY <1>6, <2>1, <2>2, <2>3 DEF Ordered
<1>9. Sound(s, c)
    BY <1>5, <1>8 DEF Sound
<1> QED
    BY <1>4, <1>9, RenumberedSound DEF c

LEMMA AnimatorStep ==
    ASSUME IInv, NEW k \in Loops, Tick(k) \/ Paint(k) \/ LoopEnds(k)
    PROVE  IInv'
<1>1. Sound(live', model.committed)
  <2>1. CASE LoopEnds(k)
    <3>1. live' = [live EXCEPT !.loop[k] = "off"] /\ live.loop[k] = "tick" /\ live.anim # k
      BY <2>1 DEF LoopEnds
    <3> QED
      BY <3>1, EndSound DEF IInv
  <2> QED
    BY <2>1, TickStep, PaintStep
<1>2. UNCHANGED <<screen, model, asking, prints, finished>>
    BY DEF Tick, Paint, LoopEnds
<1> QED
    BY <1>1, <1>2 DEF IInv, Others

LEMMA IInvKept == IInv /\ [RegionNext]_region => IInv'
<1>1. IInv /\ UNCHANGED region => IInv'
    BY DEF region, IInv, Others
<1> QED
    BY <1>1, WorkerStep, ConfirmStep, AnimatorStep DEF RegionNext

-----------------------------------------------------------------------------

\* Every variable keeps its type, and the animator is a loop that runs.
THEOREM TypeCorrect == RegionSpec => []RegionTypeOK
BY InitSound, IInvKept, IInvTypes, PTL DEF RegionSpec

\* Whoever paints, whenever, a row that went to scrollback is not shown in the
\* region again: the clear that precedes it drops the frames taken before.
THEOREM NoRowTwiceHolds == RegionSpec => []NoRowTwice
BY InitSound, IInvKept, IInvTypes, PTL DEF RegionSpec

-----------------------------------------------------------------------------
(* Confirm: any number of gates, workers and lines.                        *)

\* A pipe has one reader: whoever buffers it first takes every line (section 5 of
\* the README shows what happens to a second one).
OneReaderPerPipe ==
    \A s \in Settings : s.piped /\ ~s.plain =>
        \A g, h \in Askers \ s.assumed : g = h

\* The values of the variables that the answers depend on.
GatesTyped ==
    /\ setting \in Settings
    /\ tasks \in [Askers \union Workers -> {"undeclared", "pending", "running"} \union Terminal]
    /\ call \in [Askers -> {"idle", "declared", "asked", "waiting", "answered", "resolved", "over"}]
    /\ reader \in [Askers -> {"off", "reading", "eof"} \union Answers]
    /\ heard \in [Askers -> {"eof", Nothing} \union Answers]
    /\ stdin \in [lines : Seq(Answers), given : Nat, ended : BOOLEAN]

\* Who is asked, reads; what it acts on is what its reader got; until then it
\* is not Done.
Heeded ==
    \A g \in Askers :
        /\ call[g] \in {"asked", "waiting", "answered", "resolved"} => g \notin Assumed /\ ~Plain
        /\ call[g] \in {"idle", "declared", "asked"} => reader[g] = "off"
        /\ reader[g] # "off" => g \notin Assumed /\ ~Plain
        /\ heard[g] # Nothing => heard[g] = reader[g]
        /\ call[g] \in {"idle", "declared", "asked", "waiting"} /\ g \notin Assumed => tasks[g] # "done"
        /\ tasks[g] = "done" => g \in Assumed \/ heard[g] = "yes"

\* Whose reader got a line.
Served == {g \in Askers : reader[g] \in Answers}

\* Where the lines went.
Lines ==
    /\ ~Piped => stdin.given = Len(stdin.lines) + Cardinality(Served)
    /\ Piped /\ Served = {} => stdin.given = Len(stdin.lines)
    /\ \A g \in Askers : reader[g] = "eof" =>
          stdin.ended /\ stdin.lines = <<>> /\ (Piped => Served = {})

\* The inductive invariant of Confirm.
CInv == GatesTyped /\ Heeded /\ Lines

\* Nobody was asked yet, and nothing typed.
LEMMA ConfirmInit == GatesInit => CInv
<1> SUFFICES ASSUME GatesInit
             PROVE  CInv
    OBVIOUS
<1> USE DEF GatesInit
<1>1. GatesTyped
  <2>1. <<>> \in Seq(Answers)
    OBVIOUS
  <2> QED
    BY <2>1, ConfirmAssumption DEF GatesTyped, Terminal
<1>2. Heeded
    BY ConfirmAssumption DEF Heeded
<1>3. Lines
  <2>1. Served = {}
    BY DEF Served, Answers
  <2> QED
    BY <2>1, FS_EmptySet DEF Lines
<1> QED
    BY <1>1, <1>2, <1>3 DEF CInv

\* Steps that leave the readers, the input and the answers alone.
LEMMA CallStep ==
    ASSUME CInv, NEW g \in Askers,
           DeclareGate(g) \/ Decided(g) \/ Register(g) \/ Aborted(g) \/ Resolve(g) \/ GiveAnswer(g)
    PROVE  CInv'
<1>0. setting' = setting /\ stdin' = stdin /\ reader' = reader /\ heard' = heard
    BY DEF DeclareGate, Decided, Register, Aborted, Resolve, GiveAnswer, input
<1>1. Lines'
    BY <1>0 DEF CInv, Lines, Served, Piped
<1>2. GatesTyped'
  <2> USE DEF CInv, GatesTyped
  <2>1. tasks' \in [Askers \union Workers -> {"undeclared", "pending", "running"} \union Terminal]
    BY DEF DeclareGate, Decided, Register, Aborted, Resolve, GiveAnswer, SettleTask, OutcomeOf, Terminal
  <2>2. call' \in [Askers -> {"idle", "declared", "asked", "waiting", "answered", "resolved", "over"}]
    BY DEF DeclareGate, Decided, Register, Aborted, Resolve, GiveAnswer, Returns
  <2> QED
    BY <1>0, <2>1, <2>2
<1>3. Heeded'
  <2> USE <1>0 DEF CInv, GatesTyped, Heeded, Assumed, Plain
  <2>1. CASE DeclareGate(g)
    BY <2>1 DEF DeclareGate
  <2>2. CASE Decided(g)
    BY <2>2 DEF Decided, Returns, SettleTask, Terminal
  <2>3. CASE Register(g)
    BY <2>3 DEF Register
  <2>4. CASE Aborted(g)
    BY <2>4 DEF Aborted, Returns
  <2>5. CASE Resolve(g)
    BY <2>5 DEF Resolve, SettleTask, OutcomeOf, Terminal
  <2>6. CASE GiveAnswer(g)
    BY <2>6 DEF GiveAnswer, Returns
  <2> QED
    BY <2>1, <2>2, <2>3, <2>4, <2>5, <2>6
<1> QED
    BY <1>1, <1>2, <1>3 DEF CInv

\* readConfirmLine starts its reader.
LEMMA StartReadingStep ==
    ASSUME CInv, NEW g \in Askers, StartReading(g)
    PROVE  CInv'
<1> USE DEF StartReading
<1>0. /\ UNCHANGED <<setting, tasks, stdin, heard>>
      /\ reader' = [reader EXCEPT ![g] = "reading"] /\ call[g] = "asked"
      /\ call' = [call EXCEPT ![g] = "over"] \/ call' = [call EXCEPT ![g] = "waiting"]
    BY DEF Returns
<1>1. reader[g] = "off" /\ g \notin Assumed /\ ~Plain
    BY <1>0 DEF CInv, Heeded
<1>2. GatesTyped'
    BY <1>0 DEF CInv, GatesTyped
<1>3. Heeded'
    BY <1>0, <1>1 DEF CInv, Heeded, GatesTyped, Assumed, Plain, Answers
<1>4. Served' = Served
    BY <1>0, <1>1 DEF CInv, GatesTyped, Served, Answers
<1>5. Lines'
    BY <1>0, <1>4 DEF CInv, GatesTyped, Lines, Piped
<1> QED
    BY <1>2, <1>3, <1>5 DEF CInv

\* The call takes what its reader got.
LEMMA HearStep ==
    ASSUME CInv, NEW g \in Askers, Hear(g)
    PROVE  CInv'
<1> USE DEF Hear
<1>0. UNCHANGED <<setting, tasks, stdin, reader>>
    BY DEF input
<1>1. GatesTyped'
    BY <1>0 DEF CInv, GatesTyped
<1>2. Heeded'
    BY <1>0 DEF CInv, Heeded, GatesTyped, Assumed, Plain
<1>3. Lines'
    BY <1>0 DEF CInv, Lines, Served, Piped
<1> QED
    BY <1>1, <1>2, <1>3 DEF CInv

\* A reader gets a line, all the lines of a pipe, or the end of the input.
LEMMA ReadStep ==
    ASSUME OneReaderPerPipe, CInv, NEW g \in Askers, Read(g)
    PROVE  CInv'
<1>0. UNCHANGED <<setting, tasks, call, heard>> /\ reader[g] = "reading"
    BY DEF Read
<1>1. g \notin Assumed /\ ~Plain
    BY <1>0 DEF CInv, Heeded
<1>2. stdin \in [lines : Seq(Answers), given : Nat, ended : BOOLEAN]
    BY DEF CInv, GatesTyped
<1>3. IsFiniteSet(Served) /\ g \notin Served /\ Cardinality(Served) \in Nat
    BY <1>0, ConfirmAssumption, FS_Subset, FS_CardinalityType DEF Served, Answers
<1>4. Piped => \A h \in Askers : reader[h] # "off" => h = g
    BY <1>0, <1>1 DEF OneReaderPerPipe, CInv, GatesTyped, Heeded, Assumed, Plain, Piped
<1>5. CASE /\ stdin.lines # <<>>
           /\ reader' = [reader EXCEPT ![g] = Head(stdin.lines)]
           /\ stdin' = [stdin EXCEPT !.lines = IF Piped THEN <<>> ELSE Tail(@)]
  <2>1. /\ Head(stdin.lines) \in Answers /\ Tail(stdin.lines) \in Seq(Answers)
        /\ Len(Tail(stdin.lines)) = Len(stdin.lines) - 1 /\ Len(stdin.lines) \in Nat
        /\ <<>> \in Seq(Answers)
    BY <1>2, <1>5
  <2>2. /\ stdin' \in [lines : Seq(Answers), given : Nat, ended : BOOLEAN]
        /\ stdin'.given = stdin.given /\ stdin'.ended = stdin.ended
        /\ ~Piped => stdin'.lines = Tail(stdin.lines)
    BY <1>2, <1>5, <2>1
  <2>3. reader' \in [Askers -> {"off", "reading", "eof"} \union Answers]
    BY <1>5, <2>1 DEF CInv, GatesTyped
  <2>4. Served' = Served \union {g}
    BY <1>5, <2>1 DEF CInv, GatesTyped, Served
  <2>5. Cardinality(Served') = Cardinality(Served) + 1
    BY <1>3, <2>4, FS_AddElement
  <2>6. GatesTyped'
    BY <1>0, <2>2, <2>3 DEF CInv, GatesTyped
  <2>7. Heeded'
    BY <1>0, <1>1, <1>5, <2>1 DEF CInv, GatesTyped, Heeded, Assumed, Plain, Answers
  <2>8. \A h \in Askers : reader'[h] # "eof"
    BY <1>5, <2>1 DEF CInv, GatesTyped, Lines, Answers
  <2>9. Lines'
    BY <1>0, <1>3, <2>1, <2>2, <2>4, <2>5, <2>8 DEF CInv, Lines, Piped
  <2> QED
    BY <2>6, <2>7, <2>9 DEF CInv
<1>6. CASE /\ stdin.lines = <<>> /\ stdin.ended
           /\ reader' = [reader EXCEPT ![g] = "eof"]
           /\ UNCHANGED stdin
  <2>1. Served' = Served
    BY <1>0, <1>6 DEF CInv, GatesTyped, Served, Answers
  <2>2. Piped => Served = {}
    BY <1>0, <1>4 DEF Served, Answers
  <2>3. GatesTyped'
    BY <1>0, <1>6 DEF CInv, GatesTyped
  <2>4. Heeded'
    BY <1>0, <1>1, <1>6 DEF CInv, GatesTyped, Heeded, Assumed, Plain, Answers
  <2>5. Lines'
    BY <1>0, <1>6, <2>1, <2>2 DEF CInv, GatesTyped, Lines, Piped
  <2> QED
    BY <2>3, <2>4, <2>5 DEF CInv
<1> QED
    BY <1>5, <1>6 DEF Read

\* The signal settles Tasks, none of them as Done; so does nobody else but a
\* worker, who is no gate.
LEMMA TaskStep ==
    ASSUME CInv,
           UNCHANGED <<setting, call, stdin, reader, heard>>,
           tasks' \in [Askers \union Workers -> {"undeclared", "pending", "running"} \union Terminal],
           \A g \in Askers : tasks'[g] = "done" => tasks[g] = "done"
    PROVE  CInv'
<1>1. GatesTyped'
    BY DEF CInv, GatesTyped
<1>2. Heeded'
    BY DEF CInv, Heeded, Assumed, Plain
<1>3. Lines'
    BY DEF CInv, Lines, Served, Piped
<1> QED
    BY <1>1, <1>2, <1>3 DEF CInv

\* Settling any Task as Cancelled is such a step.
LEMMA SettleCancelled ==
    ASSUME CInv, NEW t, tasks' = SettleTask(t, "cancelled")
    PROVE  /\ tasks' \in [Askers \union Workers -> {"undeclared", "pending", "running"} \union Terminal]
           /\ \A g \in Askers : tasks'[g] = "done" => tasks[g] = "done"
    BY DEF CInv, GatesTyped, SettleTask, Terminal

\* The signal, the end of the run, and the end of other work.
LEMMA InterruptStep ==
    ASSUME CInv,
           Interrupt \/ RunEnds \/ \E t \in Workers : Work(t)
    PROVE  CInv'
<1>0. UNCHANGED <<setting, call, stdin, reader, heard>>
    BY DEF Interrupt, FirstSignal, CancelActive, CancelVictim, AbandonQueuedWork, RunEnds, Work, input
<1> DEFINE Good ==
        /\ tasks' \in [Askers \union Workers -> {"undeclared", "pending", "running"} \union Terminal]
        /\ \A g \in Askers : tasks'[g] = "done" => tasks[g] = "done"
<1>1. ASSUME UNCHANGED tasks PROVE Good
    BY <1>1 DEF CInv, GatesTyped
<1>2. ASSUME CancelActive PROVE Good
  <2>1. \/ UNCHANGED tasks
        \/ \E g \in reachable : tasks' = SettleTask(g, "cancelled")
    BY <1>2 DEF CancelActive, CancelGate
  <2>2. CASE \E g \in reachable : tasks' = SettleTask(g, "cancelled")
    BY <2>2, SettleCancelled
  <2> QED
    BY <1>1, <2>1, <2>2
<1>3. ASSUME CancelVictim PROVE Good
  <2>1. \/ UNCHANGED tasks
        \/ \E t \in victims : tasks' = SettleTask(t, "cancelled")
    BY <1>3 DEF CancelVictim
  <2>2. CASE \E t \in victims : tasks' = SettleTask(t, "cancelled")
    BY <2>2, SettleCancelled
  <2> QED
    BY <1>1, <2>1, <2>2
<1>4. ASSUME AbandonQueuedWork PROVE Good
    BY <1>4 DEF AbandonQueuedWork, CInv, GatesTyped, Terminal
<1>5. ASSUME NEW t \in Workers, Work(t)
      PROVE  Good
    BY <1>5, ConfirmAssumption DEF Work, CInv, GatesTyped, Terminal
<1>6. Good
    BY <1>1, <1>2, <1>3, <1>4, <1>5 DEF Interrupt, FirstSignal, RunEnds
<1> QED
    BY <1>0, <1>6, TaskStep

\* A line is typed, or the input ends.
LEMMA TypeStep ==
    ASSUME CInv, InputEnds \/ \E line \in Answers : Types(line)
    PROVE  CInv'
<1>0. UNCHANGED <<setting, tasks, call, reader, heard>>
    BY DEF InputEnds, Types
<1>1. stdin \in [lines : Seq(Answers), given : Nat, ended : BOOLEAN]
    BY DEF CInv, GatesTyped
<1>2. /\ stdin' \in [lines : Seq(Answers), given : Nat, ended : BOOLEAN]
      /\ \A n \in Nat : stdin.given = Len(stdin.lines) + n => stdin'.given = Len(stdin'.lines) + n
      /\ stdin.ended => stdin'.ended /\ stdin'.lines = stdin.lines
  <2>1. CASE InputEnds
    BY <1>1, <2>1 DEF InputEnds
  <2>2. ASSUME NEW line \in Answers, Types(line)
        PROVE  /\ stdin' \in [lines : Seq(Answers), given : Nat, ended : BOOLEAN]
               /\ stdin'.given = stdin.given + 1 /\ Len(stdin'.lines) = Len(stdin.lines) + 1
               /\ ~stdin.ended
    <3> DEFINE longer == Append(stdin.lines, line)
               more == stdin.given + 1
    <3>1. /\ longer \in Seq(Answers) /\ more \in Nat
          /\ Len(longer) = Len(stdin.lines) + 1
      BY <1>1
    <3>2. /\ ~stdin.ended
          /\ stdin' = [stdin EXCEPT !.lines = longer, !.given = more]
      BY <2>2 DEF Types
    <3> HIDE DEF longer, more
    <3>3. /\ stdin'.lines = longer /\ stdin'.given = more
          /\ stdin' \in [lines : Seq(Answers), given : Nat, ended : BOOLEAN]
      BY <1>1, <3>1, <3>2
    <3> QED
      BY <3>1, <3>2, <3>3 DEF longer, more
  <2>3. Len(stdin.lines) \in Nat
    BY <1>1
  <2> QED
    BY <1>1, <2>1, <2>2, <2>3
<1>3. IsFiniteSet(Served) /\ Cardinality(Served) \in Nat /\ Served' = Served
    BY <1>0, ConfirmAssumption, FS_Subset, FS_CardinalityType DEF Served
<1>4. GatesTyped'
    BY <1>0, <1>2 DEF CInv, GatesTyped
<1>5. Heeded'
    BY <1>0 DEF CInv, Heeded, Assumed, Plain
<1>6. Lines'
  <2>1. ~Piped => stdin'.given = Len(stdin'.lines) + Cardinality(Served)
    BY <1>2, <1>3 DEF CInv, Lines
  <2>2. Piped /\ Served = {} => stdin'.given = Len(stdin'.lines)
    <3>1. Len(stdin.lines) \in Nat /\ Len(stdin'.lines) \in Nat /\ stdin.given \in Nat /\ 0 \in Nat
      BY <1>1, <1>2
    <3>2. stdin.given = Len(stdin.lines) + 0 => stdin'.given = Len(stdin'.lines) + 0
      BY <1>2, <3>1
    <3>3. stdin'.given \in Nat
      BY <1>2
    <3> QED
      BY <3>1, <3>2, <3>3 DEF CInv, Lines
  <2> QED
    BY <1>0, <1>2, <1>3, <2>1, <2>2 DEF CInv, Lines, Piped
<1> QED
    BY <1>4, <1>5, <1>6 DEF CInv

\* Every step keeps the invariant.
LEMMA ConfirmNextInv ==
    ASSUME OneReaderPerPipe, CInv, [GatesNext]_confirms
    PROVE  CInv'
<1>1. CASE UNCHANGED confirms
    BY <1>1 DEF confirms, CInv, GatesTyped, Heeded, Lines, Served, Assumed, Plain, Piped
<1>2. ASSUME NEW g \in Askers, ConfirmCall(g)
      PROVE  CInv'
    BY <1>2, CallStep, StartReadingStep, HearStep DEF ConfirmCall
<1>3. ASSUME NEW g \in Askers, Read(g)
      PROVE  CInv'
    BY <1>3, ReadStep
<1>4. CASE Interrupt \/ RunEnds \/ \E t \in Workers : Work(t)
    BY <1>4, InterruptStep
<1>5. CASE InputEnds \/ \E line \in Answers : Types(line)
    BY <1>5, TypeStep
<1> QED
    BY <1>1, <1>2, <1>3, <1>4, <1>5 DEF GatesNext

\* What the answers come from gives what the calls are told.
LEMMA ToldTruly == CInv => EndsAsAnswered
<1> SUFFICES ASSUME CInv
             PROVE  EndsAsAnswered
    OBVIOUS
<1>1. \A g \in Askers : tasks[g] = "done" => g \in Assumed \/ heard[g] = "yes"
    BY DEF CInv, Heeded
<1>2. ASSUME NEW g \in Askers, heard[g] = "eof"
      PROVE  stdin.given <= Cardinality(Served)
  <2>0. IsFiniteSet(Served) /\ Cardinality(Served) \in Nat /\ stdin.given \in Nat
    BY ConfirmAssumption, FS_Subset, FS_CardinalityType DEF Served, CInv, GatesTyped
  <2>1. CASE reader[g] = "eof"
    <3>1. Len(stdin.lines) = 0
      BY <2>1 DEF CInv, Lines
    <3>2. Piped => Served = {}
      BY <2>1 DEF CInv, Lines
    <3> QED
      BY <2>0, <3>1, <3>2 DEF CInv, Lines
  <2> QED
    BY <1>2, <2>1, ConfirmAssumption DEF CInv, Heeded
<1> QED
    BY <1>1, <1>2 DEF EndsAsAnswered, Served

\* A gate is Done only by a yes of its own or AssumeYes (confirm.go:135), and "no
\* answer" is told only when every line went to another gate (confirm.go:138),
\* whatever a signal or another gate's reader does meanwhile.
THEOREM EndsAsAnsweredHolds ==
    ASSUME OneReaderPerPipe
    PROVE  GatesSpec => []EndsAsAnswered
<1>1. GatesInit => CInv
    BY ConfirmInit
<1>2. CInv /\ [GatesNext]_confirms => CInv'
    BY ConfirmNextInv
<1>3. CInv => EndsAsAnswered
    BY ToldTruly
<1> QED
    BY <1>1, <1>2, <1>3, PTL DEF GatesSpec
=============================================================================
