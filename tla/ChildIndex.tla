----------------------------- MODULE ChildIndex -----------------------------
(***************************************************************************)
(* The index a collection keeps of its Tasks so that a live frame does not *)
(* walk them (engine/child_index.go, child_counts.go, live_census.go).     *)
(*                                                                         *)
(* A Task that changed is marked and refiled at the next read: taken out   *)
(* of every set and counter by what its filing remembers, and put back by  *)
(* what it is now.  First-paint stamps are kept in heaps whose stale       *)
(* entries are dropped when they surface, the folded items' dispositions   *)
(* are appended to while they arrive in order and rebuilt otherwise.  The  *)
(* census of the collection is moved by every transition, unmarked.        *)
(***************************************************************************)
EXTENDS Naturals, Sequences, FiniteSetsExt, SequencesExt

CONSTANTS
    MaxTask,    \* Tasks the collection may hold, named by declaration position
    Own,        \* the ones bearing the collection's own name
    Width,      \* each Task's name width
    Rows,       \* rows of a frame
    MaxFrames,  \* frames painted, and so the clock
    Ends,       \* the states Tasks settle in
    Notes       \* what Tasks are annotated with

BoundsAssumption ==
    /\ MaxTask \in Nat /\ Rows \in Nat /\ MaxFrames \in Nat
    /\ Ends \subseteq {"done", "skipped", "failed"} /\ Notes \subseteq {"warned", "noted", "told"}
    /\ Own \subseteq 1..MaxTask /\ Width \in [1..MaxTask -> Nat]

VARIABLES
    view,      \* the declared Tasks, in declaration order
    filing,    \* how each is filed in the index
    dirty,     \* the marked Tasks, in the order they were marked
    idx,       \* the index
    census,    \* the collection's census
    clock,     \* frames painted so far
    painted,   \* nothing has changed since the last frame
    frame      \* what that frame read of the index, and nothing otherwise

vars == <<view, filing, dirty, idx, census, clock, painted, frame>>

State == {"pending", "running", "done", "skipped", "failed"}
Ended(s) == s \in {"done", "skipped", "failed"}
Task == 1..Len(view)

(* A Task as a frame reads it: its state, whether it carries a warning, a  *)
(* disposition record, a summary, and the frame that first painted it.     *)
Declared == [state |-> "pending", warned |-> FALSE, noted |-> FALSE, told |-> FALSE, seen |-> 0]

Rank(v) == IF v.state = "failed" THEN 0 ELSE IF v.warned THEN 1
           ELSE IF v.state = "running" THEN 2 ELSE IF v.state = "pending" THEN 3 ELSE 4
Ranks == 0..3

\* live.ClassifyChild.
IsItem(t, v) ==
    t \notin Own /\ v.state \in {"done", "skipped"} /\ v.noted /\ ~v.told /\ ~v.warned
IsPeer(t, v) ==
    /\ t \notin Own /\ ~IsItem(t, v) /\ Ended(v.state)
    /\ ~(v.state = "done" /\ ~v.noted /\ ~v.told /\ ~v.warned)
KindOf(t, v) == [item |-> IsItem(t, v), own |-> t \in Own, peer |-> IsPeer(t, v),
                 rank |-> IF IsItem(t, v) THEN 0 ELSE Rank(v)]

----------------------------------------------------------------------------
(* The frame a walk of every child builds (live.LiveChildren).             *)

Counts(S, vs) ==
    LET with(s) == {t \in S : vs[t].state \in s}
        seen == {vs[t].seen : t \in S} \ {0} IN
    [total |-> Cardinality(S), done |-> Cardinality(with({"done", "skipped"})),
     running |-> with({"running"}) # {}, pending |-> with({"pending"}) # {},
     unfinished |-> \E t \in S : ~Ended(vs[t].state),
     earliest |-> IF seen = {} THEN 0 ELSE Min(seen),
     width |-> IF S = {} THEN 0 ELSE Max({Width[t] : t \in S})]

First(k, S) == {p \in S : Cardinality({q \in S : q < p}) < k}

Walked(vs) ==
    LET all == 1..Len(vs)
        items == {t \in all : IsItem(t, vs[t])}
        work == all \ items
        has(s) == \E t \in all : vs[t].state = s IN
    [all |-> Counts(all, vs), work |-> Counts(work, vs),
     items |-> SetToSortSeq(items, <), own |-> all \cap Own # {},
     peer |-> \E t \in all : IsPeer(t, vs[t]),
     kept |-> First(Rows + 1, items) \cup First(Rows + 1, work)
              \cup UNION {First(Rows, {t \in work : Rank(vs[t]) = r}) : r \in Ranks},
     verdict |-> IF has("running") THEN "running" ELSE IF has("failed") THEN "failed"
                 ELSE IF has("pending") THEN "incomplete" ELSE "done"]

----------------------------------------------------------------------------
(* Counters (childCounters, stateCounts).                                  *)

Widths == {Width[t] : t \in 1..MaxTask}
Zero == [total |-> 0, done |-> 0, running |-> 0, pending |-> 0, unfinished |-> 0,
         widths |-> [w \in Widths |-> 0], maxWidth |-> 0]

If(b, n) == IF b THEN n ELSE 0

Move(c, s, up) ==
    LET by(n, b) == IF ~b THEN n ELSE IF up THEN n + 1 ELSE n - 1 IN
    [c EXCEPT !.total = by(@, TRUE), !.done = by(@, s \in {"done", "skipped"}),
              !.running = by(@, s = "running"), !.pending = by(@, s = "pending"),
              !.unfinished = by(@, ~Ended(s))]

CountIn(c, t, f) ==
    [Move(c, f.state, TRUE) EXCEPT !.widths[Width[t]] = @ + 1,
                                   !.maxWidth = Max({@, Width[t]})]

\* The widest name is recomputed only when its last bearer leaves.
CountOut(c, t, f) ==
    LET left == [Move(c, f.state, FALSE) EXCEPT !.widths[Width[t]] = @ - 1]
        used == {w \in Widths : left.widths[w] > 0} IN
    IF left.widths[Width[t]] > 0 \/ Width[t] < c.maxWidth THEN left
    ELSE [left EXCEPT !.maxWidth = Max(used \cup {0})]

CountsOf(c, earliest) ==
    [total |-> c.total, done |-> c.done, running |-> c.running > 0, pending |-> c.pending > 0,
     unfinished |-> c.unfinished > 0, earliest |-> earliest, width |-> c.maxWidth]

----------------------------------------------------------------------------
(* Filing.                                                                 *)

Unfiled == [filed |-> FALSE, kind |-> KindOf(1, Declared), state |-> "pending",
            seen |-> 0, warned |-> FALSE, allSeen |-> 0, workSeen |-> 0]

EmptyIndex ==
    [items |-> {}, work |-> {}, byRank |-> [r \in Ranks |-> {}],
     all |-> Zero, workCounts |-> Zero, failed |-> 0, owns |-> 0, peers |-> 0,
     seenAll |-> {}, seenWork |-> {},
     dispositions |-> <<>>, through |-> 1, stale |-> FALSE, unstamped |-> {}]

Unstamped(v) == v.state \in {"pending", "running"} /\ v.seen = 0

\* unfile: t leaves every set by what its filing says of it.
Unfile(x, t, f) ==
    LET y == [x EXCEPT !.all = CountOut(@, t, f), !.failed = @ - If(f.state = "failed", 1),
                       !.owns = @ - If(f.kind.own, 1)] IN
    IF f.kind.item
    THEN [y EXCEPT !.items = @ \ {t}, !.stale = TRUE]
    ELSE [y EXCEPT !.work = @ \ {t}, !.workCounts = CountOut(@, t, f),
                   !.byRank = [r \in Ranks |-> @[r] \ {t}], !.peers = @ - If(f.kind.peer, 1)]

\* Fault: an item is appended wherever it was declared.
FileItemAnywhere(x, t) ==
    IF x.stale THEN x ELSE [x EXCEPT !.dispositions = Append(@, t), !.through = t]

\* fileItem: appended in order, or left to a rebuild.
FileItem(x, t) ==
    IF x.stale \/ t < x.through THEN [x EXCEPT !.stale = TRUE]
    ELSE [x EXCEPT !.dispositions = Append(@, t), !.through = t]

(* file: t enters the sets its kind belongs to; a stamp is pushed when the *)
(* heap has not seen it for this filing.                                   *)
File(x, t, f) ==
    LET y == [x EXCEPT !.all = CountIn(@, t, f), !.failed = @ + If(f.state = "failed", 1),
                       !.owns = @ + If(f.kind.own, 1),
                       !.seenAll = @ \cup (IF f.seen # f.allSeen THEN {<<f.seen, t>>} ELSE {}),
                       !.unstamped = @ \cup (IF Unstamped(f) THEN {t} ELSE {})] IN
    IF f.kind.item
    THEN FileItem([y EXCEPT !.items = @ \cup {t}], t)
    ELSE [y EXCEPT !.work = @ \cup {t}, !.workCounts = CountIn(@, t, f),
                   !.byRank = [r \in Ranks |-> @[r] \cup (IF f.kind.rank = r THEN {t} ELSE {})],
                   !.peers = @ + If(f.kind.peer, 1),
                   !.seenWork = @ \cup (IF f.seen # f.workSeen THEN {<<f.seen, t>>} ELSE {})]

(* refile: nothing moves when the filing is unchanged, unless t is an item, *)
(* whose records may have changed.                                         *)
Refile(s, t, v) ==
    LET old == s.filing[t]
        next == [filed |-> TRUE, kind |-> KindOf(t, v),
                 state |-> v.state, seen |-> v.seen, warned |-> v.warned,
                 allSeen |-> old.allSeen, workSeen |-> IF old.filed THEN 0 ELSE old.workSeen]
        filed == [next EXCEPT !.allSeen = next.seen,
                              !.workSeen = IF next.kind.item THEN @ ELSE next.seen]
        same == /\ next.kind = old.kind /\ next.state = old.state
                /\ next.seen = old.seen /\ next.warned = old.warned IN
    IF old.filed /\ same /\ ~next.kind.item THEN s
    ELSE [idx |-> File(IF old.filed THEN Unfile(s.idx, t, old) ELSE s.idx, t, next),
          filing |-> [s.filing EXCEPT ![t] = filed]]

\* settled: every marked Task refiled.
Settled(s, marked, vs) ==
    FoldLeft(LAMBDA acc, t : Refile(acc, t, vs[t]), s, marked)

(* earliest: the first stamp of a Task that still belongs; the stale ones  *)
(* above it are popped.                                                    *)
Live(heap, fs, S) == {e \in heap : e[2] \in S /\ fs[e[2]].seen = e[1]}
Earliest(heap, fs, S) ==
    LET live == Live(heap, fs, S) IN
    IF live = {} THEN 0 ELSE Min({e[1] : e \in live})
Popped(heap, fs, S) ==
    LET first == Earliest(heap, fs, S) IN
    IF first = 0 THEN {} ELSE {e \in heap : e[1] >= first}

Rebuilt(x) ==
    IF ~x.stale THEN x
    ELSE [x EXCEPT !.dispositions = SetToSortSeq(x.items, <), !.stale = FALSE,
                   !.through = IF x.items = {} THEN 0 ELSE Max(x.items)]

Filed(fs) == {t \in DOMAIN fs : fs[t].filed}
FiledWork(fs) == {t \in Filed(fs) : ~fs[t].kind.item}

\* project: the children a frame can show and the roster of all of them.
Projected(x, fs) ==
    [all |-> CountsOf(x.all, Earliest(x.seenAll, fs, Filed(fs))),
     work |-> CountsOf(x.workCounts, Earliest(x.seenWork, fs, FiledWork(fs))),
     items |-> x.dispositions, own |-> x.owns > 0, peer |-> x.peers > 0,
     kept |-> First(Rows + 1, x.items) \cup First(Rows + 1, x.work)
              \cup UNION {First(Rows, x.byRank[r]) : r \in Ranks},
     verdict |-> IF x.all.running > 0 THEN "running" ELSE IF x.failed > 0 THEN "failed"
                 ELSE IF x.all.pending > 0 THEN "incomplete" ELSE "done"]

----------------------------------------------------------------------------
(* The census.                                                             *)

NoCensus == [total |-> 0, done |-> 0, running |-> 0, pending |-> 0, unfinished |-> 0,
             failed |-> 0, warned |-> 0, unstamped |-> 0, earliest |-> 0, width |-> 0]

CountState(c, s, up) ==
    LET by(n, b) == IF ~b THEN n ELSE IF up THEN n + 1 ELSE n - 1 IN
    [c EXCEPT !.done = by(@, s \in {"done", "skipped"}), !.running = by(@, s = "running"),
              !.pending = by(@, s = "pending"), !.failed = by(@, s = "failed"),
              !.unfinished = by(@, ~Ended(s))]

CensusDeclared(t) ==
    census' = [CountState(census, "pending", TRUE) EXCEPT
                  !.total = @ + 1, !.unstamped = @ + 1, !.width = Max({@, Width[t]})]

\* Fault: a Task that ends before any frame still counts as one to stamp.
CensusMovedKeeping(v, s) == CountState(CountState(census, v.state, FALSE), s, TRUE)

CensusMoved(v, s) ==
    [CountState(CountState(census, v.state, FALSE), s, TRUE) EXCEPT
        !.unstamped = @ - If(Unstamped(v) /\ Ended(s), 1)]

----------------------------------------------------------------------------
Init ==
    /\ view = <<>> /\ filing = <<>> /\ dirty = <<>>
    /\ idx = EmptyIndex /\ census = NoCensus
    /\ clock = 0 /\ painted = FALSE /\ frame = <<>>

\* markFiling: a marked Task is not marked again.
Mark(t) ==
    /\ dirty' = IF t \in Range(dirty) THEN dirty ELSE Append(dirty, t)
    /\ painted' = FALSE /\ frame' = <<>>
    /\ UNCHANGED <<idx, clock>>

Declare ==
    /\ Len(view) < MaxTask
    /\ view' = Append(view, Declared)
    /\ filing' = Append(filing, Unfiled)
    /\ CensusDeclared(Len(view) + 1)
    /\ Mark(Len(view) + 1)

\* promoteRunningLocked.
Promote(t) ==
    /\ view[t].state = "pending"
    /\ view' = [view EXCEPT ![t].state = "running"]
    /\ census' = CensusMoved(view[t], "running")
    /\ Mark(t) /\ UNCHANGED filing

\* settleLocked.
Settle(t, s) ==
    /\ ~Ended(view[t].state)
    /\ view' = [view EXCEPT ![t].state = s]
    /\ census' = CensusMoved(view[t], s)
    /\ Mark(t) /\ UNCHANGED filing

\* A warning; only the first moves the census.
Warn(t) ==
    /\ "warned" \in Notes /\ ~Ended(view[t].state)
    /\ view' = [view EXCEPT ![t].warned = TRUE]
    /\ census' = [census EXCEPT !.warned = @ + If(~view[t].warned, 1)]
    /\ Mark(t) /\ UNCHANGED filing

\* A disposition record, a summary, or a verb refused after the fact: all mark.
Annotate(t) ==
    /\ \/ /\ ~Ended(view[t].state)
          /\ \E n \in Notes \ {"warned"} :
                view' = [view EXCEPT ![t].noted = @ \/ n = "noted", ![t].told = @ \/ n = "told"]
       \/ Ended(view[t].state) /\ UNCHANGED view
    /\ Mark(t) /\ UNCHANGED <<census, filing>>

(* liveSnapshot: the Tasks listed as unpainted are stamped, which marks    *)
(* them, and the index is read.                                            *)
Paint ==
    /\ clock < MaxFrames
    /\ clock' = clock + 1
    \* Each \E names one value, computed once.
    /\ \E s1 \in {Settled([idx |-> idx, filing |-> filing], dirty, view)} :
       \E stamped \in {{t \in s1.idx.unstamped : Unstamped(view[t])}} :
       \E seen \in {[t \in Task |-> IF t \in stamped THEN [view[t] EXCEPT !.seen = clock'] ELSE view[t]]} :
       \E s2 \in {Settled([s1 EXCEPT !.idx.unstamped = {}], SetToSortSeq(stamped, <), seen)} :
       LET read == Rebuilt(s2.idx)
           fs == s2.filing
       IN  /\ view' = seen
           /\ filing' = fs
           /\ frame' = Projected(read, fs)
           /\ idx' = [read EXCEPT
                         !.seenAll = Popped(@, fs, Filed(fs)),
                         !.seenWork = Popped(@, fs, FiledWork(fs))]
           /\ census' = [census EXCEPT !.unstamped = @ - Cardinality(stamped),
                             !.earliest = IF @ = 0 /\ stamped # {} THEN clock' ELSE @]
    /\ dirty' = <<>> /\ painted' = TRUE

Next ==
    \/ Declare
    \/ \E t \in Task : Promote(t) \/ Warn(t) \/ Annotate(t)
    \/ \E t \in Task, s \in Ends : Settle(t, s)
    \/ Paint

Spec == Init /\ [][Next]_vars

----------------------------------------------------------------------------
TypeOK ==
    /\ view \in Seq([state : State, warned : BOOLEAN, noted : BOOLEAN, told : BOOLEAN,
                     seen : 0..MaxFrames])
    /\ DOMAIN filing = Task /\ Range(dirty) \subseteq Task /\ IsInjective(dirty)
    /\ idx.items \subseteq Task /\ idx.work \subseteq Task /\ idx.unstamped \subseteq Task
    /\ idx.all.total \in Nat /\ idx.all.unfinished \in Nat /\ idx.peers \in Nat
    /\ clock \in 0..MaxFrames /\ painted \in BOOLEAN

(* A frame read from the index is the frame a walk of every child would    *)
(* build: the counts, the stamps, the folded items in declaration order,   *)
(* the rows it can show and the collection's verdict (child_index.go:21).  *)
FrameIsWalk == painted => frame = Walked(view)

(* The census is exact at every moment, between frames too: a frame ranks  *)
(* and skips collections by it without looking at them (live_census.go:12).*)
CensusExact ==
    LET all == Task
        c == Counts(all, view) IN
    /\ census.total = c.total /\ census.done = c.done
    /\ (census.running > 0) = c.running /\ (census.pending > 0) = c.pending
    /\ (census.unfinished > 0) = c.unfinished
    /\ census.failed = Cardinality({t \in all : view[t].state = "failed"})
    /\ census.warned = Cardinality({t \in all : view[t].warned})
    /\ census.unstamped = Cardinality({t \in all : Unstamped(view[t])})
    /\ census.earliest = c.earliest /\ census.width = c.width

\* What is kept up to date one change at a time is what a walk would find.
ReadsAsWalk == FrameIsWalk /\ CensusExact
=============================================================================
