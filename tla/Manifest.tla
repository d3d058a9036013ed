------------------------------- MODULE Manifest -------------------------------
(***************************************************************************)
(* The reconciliation manifest of one workspace, shared by several Runs:   *)
(* manifest.Store with its background writer, its lock between Runs, and   *)
(* what the engine does with it (manifestFor, commitManifestTaskLocked,    *)
(* saveManifest, Close). A record is the Task that wrote it; a document is *)
(* a set of records; the rename that publishes one is atomic.              *)
(*                                                                         *)
(* An operator marked "Fault" is a plausible bug in the definition after   *)
(* it.  No specification uses it; it shows what a property can detect.     *)
(***************************************************************************)
EXTENDS Naturals, FiniteSets

CONSTANTS
    Runs,       \* the Outputs that reconcile this workspace
    Tasks,      \* Tasks that call File, Exec or Patch
    Opaque,     \* those of them that record no operation: staged, not committed
    Late,       \* Tasks of the caller's own, which Finish does not wait for
    Calls,      \* the goroutines that call Finish or Close
    Closing,    \* those of them that call Close
    Owner,      \* the Run of each Task and call
    MaxOpens,   \* bound on Stores one Run ever opens
    MaxFails,   \* bound on writes that fail
    MaxCrashes, \* bound on Runs that die
    MaxCancels, \* bound on Run contexts that end
    None

\* A write under way: its version and document, and whether it was renamed.
Writes == [version : Nat, doc : SUBSET Tasks, ok : BOOLEAN]
\* writerState; versions: newest, asked for, on disk, last tried, and how that went.
Writers == [version : Nat, requested : Nat, written : Nat, attempted : Nat,
            running : BOOLEAN, failed : BOOLEAN]

ASSUME ManifestAssumption ==
    /\ Opaque \subseteq Tasks /\ Late \subseteq Tasks /\ Closing \subseteq Calls
    /\ \A a \in Tasks \union Calls : Owner[a] \in Runs
    /\ \A r \in Runs : Cardinality({c \in Closing : Owner[c] = r}) <= 1
    /\ {MaxOpens, MaxFails, MaxCrashes, MaxCancels} \subseteq Nat
    /\ None \notin Tasks /\ None \notin Runs \X Nat /\ None \notin Writes

VARIABLES
    disk,      \* the document in the manifest file
    lock,      \* <<run, store>> that flocks it, or None
    orphans,   \* Runs whose cancelled acquireLock still waits for the flock
    doc, w,    \* Store.doc and writerState of a Run's newest Store
    flight,    \* the document its writer is writing, None when not
    opens,     \* Stores a Run has opened
    store,     \* Output.manifestStore, 0 when nil
    opened,    \* Output.manifestOpened: "no", "yes" or "error"
    opening,   \* who holds manifestOpening
    closed, cancelled, reported,  \* of each Run; reported: a failure was told
    task,      \* where each Task stands
    pc, ref, goal, promised,  \* of each call: its Store, Flush's target
    fails, crashes, cancels

file == <<disk, lock, orphans>>
writer == <<doc, w, flight>>
output == <<opens, store, opened, opening, closed, cancelled, reported>>
calls == <<pc, ref, goal, promised>>
luck == <<fails, crashes, cancels>>
vars == <<file, writer, output, task, calls, luck>>

Idle == [version |-> 0, requested |-> 0, written |-> 0, attempted |-> 0,
         running |-> FALSE, failed |-> FALSE]

Init ==
    /\ disk = {} /\ lock = None /\ orphans = {}
    /\ doc = [r \in Runs |-> {}] /\ w = [r \in Runs |-> Idle]
    /\ flight = [r \in Runs |-> None]
    /\ opens = [r \in Runs |-> 0] /\ store = [r \in Runs |-> 0]
    /\ opened = [r \in Runs |-> "no"] /\ opening = [r \in Runs |-> None]
    /\ closed = [r \in Runs |-> FALSE] /\ cancelled = [r \in Runs |-> FALSE]
    /\ reported = [r \in Runs |-> FALSE]
    /\ task = [t \in Tasks |-> "file"]
    /\ pc = [c \in Calls |-> "drain"] /\ ref = [c \in Calls |-> 0]
    /\ goal = [c \in Calls |-> 0] /\ promised = [c \in Calls |-> {}]
    /\ fails = 0 /\ crashes = 0 /\ cancels = 0

Moves(t, label) == task' = [task EXCEPT ![t] = label]
Goto(c, label) == pc' = [pc EXCEPT ![c] = label]
Settled(t) == task[t] \in {"done", "failed"}

-----------------------------------------------------------------------------
\* manifestFor: one open per Run, under manifestOpening.

\* The cached Store or error; or this call is the one that opens.
ManifestFor(t) ==
    LET r == Owner[t] IN
    /\ task[t] = "file" /\ opening[r] = None
    /\ IF opened[r] = "no"
       THEN opening' = [opening EXCEPT ![r] = t] /\ Moves(t, "locking")
       ELSE Moves(t, IF opened[r] = "yes" THEN "work" ELSE "failed") /\ UNCHANGED opening
    /\ UNCHANGED <<file, writer, opens, store, opened, closed, cancelled, reported, calls, luck>>

\* publishManifest: the outcome of the open is cached for the Run.
Caches(r, newStore, outcome) ==
    /\ opening' = [opening EXCEPT ![r] = None]
    /\ store' = [store EXCEPT ![r] = newStore]
    /\ opened' = [opened EXCEPT ![r] = outcome]

\* Fault: the lock of another Run is not waited for.
OpensUnlocked(t) ==
    LET r == Owner[t] IN
    /\ task[t] = "locking" /\ opens[r] < MaxOpens
    /\ lock' = <<r, opens[r] + 1>> /\ opens' = [opens EXCEPT ![r] = @ + 1]
    /\ doc' = [doc EXCEPT ![r] = disk] /\ w' = [w EXCEPT ![r] = Idle]
    /\ Moves(t, "opened")
    /\ UNCHANGED <<disk, orphans, flight, store, opened, opening, closed, cancelled, reported, calls, luck>>

\* manifest.Open: the lock is acquired and the document is loaded.
Opens(t) ==
    LET r == Owner[t] IN
    /\ task[t] = "locking" /\ lock = None /\ opens[r] < MaxOpens
    /\ lock' = <<r, opens[r] + 1>> /\ opens' = [opens EXCEPT ![r] = @ + 1]
    /\ doc' = [doc EXCEPT ![r] = disk] /\ w' = [w EXCEPT ![r] = Idle]
    /\ Moves(t, "opened")
    /\ UNCHANGED <<disk, orphans, flight, store, opened, opening, closed, cancelled, reported, calls, luck>>

\* publishManifest; an open that lands after Close is released at once.
Lands(t) ==
    LET r == Owner[t] IN
    /\ task[t] = "opened"
    /\ IF closed[r]
       THEN /\ lock' = None /\ Moves(t, "failed")
            /\ opening' = [opening EXCEPT ![r] = None] /\ UNCHANGED <<store, opened>>
       ELSE Caches(r, opens[r], "yes") /\ Moves(t, "work") /\ UNCHANGED lock
    /\ UNCHANGED <<disk, orphans, writer, opens, closed, cancelled, reported, calls, luck>>

\* The context ends first: a goroutine is left to take the lock and drop it.
GivesUp(t) ==
    LET r == Owner[t] IN
    /\ task[t] = "locking" /\ cancelled[r]
    /\ orphans' = orphans \union {r}
    /\ IF closed[r] THEN opening' = [opening EXCEPT ![r] = None] /\ UNCHANGED <<store, opened>>
       ELSE Caches(r, 0, "error")
    /\ Moves(t, "failed")
    /\ UNCHANGED <<disk, lock, writer, opens, closed, cancelled, reported, calls, luck>>

OrphanTakes(r) ==
    /\ r \in orphans /\ lock = None
    /\ lock' = <<r, 0>> /\ orphans' = orphans \ {r}
    /\ UNCHANGED <<disk, writer, output, task, calls, luck>>

OrphanDrops(r) ==
    /\ lock = <<r, 0>> /\ lock' = None
    /\ UNCHANGED <<disk, orphans, writer, output, task, calls, luck>>

-----------------------------------------------------------------------------
\* Records and the background writer.

\* requestWriteLocked of x: the newest version is wanted; the writer runs.
Request(x) == [x EXCEPT !.requested = x.version, !.running = TRUE]

\* Finish has settled every row.
Finished(r) == \E c \in Calls :
    /\ Owner[c] = r
    /\ pc[c] \in {"close", "finalFlush", "finalFlushing", "finalRelease", "done"}

\* A Task settles: what is Done commits its record (a write is requested) or
\* stages it; without a Store the record is dropped, once cancelled refused.
Settle(t) ==
    LET r == Owner[t] IN
    /\ task[t] = "work"
    /\ \/ /\ Moves(t, "failed") /\ UNCHANGED <<writer, reported>>
       \/ /\ ~Finished(r) /\ Moves(t, "done")
          /\ IF store[r] = 0 THEN UNCHANGED <<writer, reported>>
             ELSE IF cancelled[r] /\ t \notin Opaque
             THEN reported' = [reported EXCEPT ![r] = TRUE] /\ UNCHANGED writer
             ELSE LET put == [w[r] EXCEPT !.version = @ + 1] IN
                  /\ doc' = [doc EXCEPT ![r] = @ \union {t}]
                  /\ w' = [w EXCEPT ![r] = IF t \in Opaque THEN put ELSE Request(put)]
                  /\ UNCHANGED <<flight, reported>>
    /\ UNCHANGED <<file, opens, store, opened, opening, closed, cancelled, calls, luck>>

\* The condition of writeLoop.
Wanted(x) == x.written < x.requested /\ x.attempted < x.requested

\* writeLoop takes the document; the write itself runs without the mutex.
WriteBegin(r) ==
    /\ w[r].running /\ flight[r] = None /\ Wanted(w[r])
    /\ flight' = [flight EXCEPT ![r] = [version |-> w[r].version, doc |-> doc[r], ok |-> FALSE]]
    /\ UNCHANGED <<file, doc, w, output, task, calls, luck>>

\* The rename of writeAtomic.
Rename(r) ==
    /\ flight[r] # None /\ ~flight[r].ok
    /\ disk' = flight[r].doc /\ flight' = [flight EXCEPT ![r].ok = TRUE]
    /\ UNCHANGED <<lock, orphans, doc, w, output, task, calls, luck>>

\* Fault: the newest version counts as written, whichever was.
WroteNewest(r) ==
    /\ flight[r] # None /\ flight[r].ok
    /\ w' = [w EXCEPT ![r] = [@ EXCEPT !.attempted = w[r].version, !.written = w[r].version,
                                      !.failed = FALSE]]
    /\ flight' = [flight EXCEPT ![r] = None]
    /\ UNCHANGED <<file, doc, output, task, calls, luck>>

\* The write is back: its version, not the newest, is on disk.
Wrote(r) ==
    /\ flight[r] # None /\ flight[r].ok
    /\ w' = [w EXCEPT ![r] = [@ EXCEPT !.attempted = flight[r].version,
                                      !.written = flight[r].version, !.failed = FALSE]]
    /\ flight' = [flight EXCEPT ![r] = None]
    /\ UNCHANGED <<file, doc, output, task, calls, luck>>

\* The write fails before its rename.
WriteFails(r) ==
    /\ flight[r] # None /\ ~flight[r].ok /\ fails < MaxFails /\ fails' = fails + 1
    /\ w' = [w EXCEPT ![r] = [@ EXCEPT !.attempted = flight[r].version, !.failed = TRUE]]
    /\ flight' = [flight EXCEPT ![r] = None]
    /\ UNCHANGED <<file, doc, output, task, calls, crashes, cancels>>

WriterStops(r) ==
    /\ w[r].running /\ flight[r] = None /\ ~Wanted(w[r])
    /\ w' = [w EXCEPT ![r] = [@ EXCEPT !.running = FALSE]]
    /\ UNCHANGED <<file, doc, flight, output, task, calls, luck>>

-----------------------------------------------------------------------------
\* Finish and Close.

\* drainScheduler: every submitted Task has settled.
Drain(c) ==
    /\ pc[c] = "drain"
    /\ \A t \in Tasks \ Late : Owner[t] = Owner[c] => Settled(t)
    /\ ref' = [ref EXCEPT ![c] = store[Owner[c]]]
    /\ Goto(c, IF store[Owner[c]] = 0 THEN "rest" ELSE "save")
    /\ UNCHANGED <<file, writer, output, task, goal, promised, luck>>

\* Flush of an older Store finds it all written.
Newest(c) == ref[c] = opens[Owner[c]]
\* Flush tries a version afresh that the idle writer gave up on.
Retried(x) == IF x.running THEN x ELSE [x EXCEPT !.attempted = x.written]

\* Flush begins: it leads to a wait, or on at once.
Flush(c) ==
    LET r == Owner[c] IN
    /\ pc[c] \in {"save", "finalFlush", "closeFlush"}
    /\ promised' = [promised EXCEPT ![c] = IF Newest(c) THEN doc[r] ELSE {}]
    /\ goal' = [goal EXCEPT ![c] = w[r].version]
    /\ IF Newest(c) /\ w[r].written < w[r].version
       THEN /\ w' = [w EXCEPT ![r] = Request(Retried(w[r]))]
            /\ Goto(c, CASE pc[c] = "save" -> "saving"
                         [] pc[c] = "finalFlush" -> "finalFlushing"
                         [] pc[c] = "closeFlush" -> "closeFlushing")
       ELSE /\ Goto(c, CASE pc[c] = "save" -> "unset"
                         [] pc[c] = "finalFlush" -> "finalRelease"
                         [] pc[c] = "closeFlush" -> "closeRelease")
            /\ UNCHANGED w
    /\ UNCHANGED <<file, doc, flight, output, task, ref, luck>>

\* Flush's target is on disk.
OnDisk(c) == w[Owner[c]].written >= goal[c]

\* Fault: Flush waits for its version only.
NeverGaveUp(c) == FALSE

\* Or the writer tried it, failed and stopped.
GaveUp(c) == LET x == w[Owner[c]] IN ~OnDisk(c) /\ ~x.running /\ x.attempted >= goal[c]

\* Flush returns nil.
FlushOk(c) ==
    /\ OnDisk(c)
    /\ \/ pc[c] = "saving" /\ Goto(c, "unset")
       \/ pc[c] = "finalFlushing" /\ Goto(c, "finalRelease")
       \/ pc[c] = "closeFlushing" /\ Goto(c, "closeRelease")
    /\ UNCHANGED <<file, writer, output, task, ref, goal, promised, luck>>

\* A failed Flush is warned about or returned.
Told(r) == [reported EXCEPT ![r] = TRUE]

\* Flush fails: saveManifest keeps the Store and its lock for Close to retry,
\* Store.Close releases all the same.
FlushFails(c) ==
    /\ GaveUp(c) /\ reported' = Told(Owner[c])
    /\ promised' = [promised EXCEPT ![c] = {}]
    /\ \/ pc[c] = "saving" /\ Goto(c, "rest")
       \/ pc[c] = "finalFlushing" /\ Goto(c, "finalRelease")
       \/ pc[c] = "closeFlushing" /\ Goto(c, "closeRelease")
    /\ UNCHANGED <<file, writer, opens, store, opened, opening, closed, cancelled, task, ref, goal, luck>>

\* saveManifest forgets the Store, before it closes it.
Unset(c) ==
    LET r == Owner[c] IN
    /\ pc[c] = "unset"
    /\ IF store[r] = ref[c]
       THEN store' = [store EXCEPT ![r] = 0] /\ opened' = [opened EXCEPT ![r] = "no"]
       ELSE UNCHANGED <<store, opened>>
    /\ Goto(c, "closeFlush")
    /\ UNCHANGED <<file, writer, opens, opening, closed, cancelled, reported, task, ref, goal, promised, luck>>

\* fileLock.release.
Release(c) ==
    /\ pc[c] \in {"closeRelease", "finalRelease"}
    /\ lock' = IF lock = <<Owner[c], ref[c]>> THEN None ELSE lock
    /\ Goto(c, IF pc[c] = "closeRelease" THEN "rest" ELSE "done")
    /\ UNCHANGED <<disk, orphans, writer, output, task, ref, goal, promised, luck>>

\* The rest of Finish settles what is left, none of it Done with a record.
FinishRest(c) ==
    /\ pc[c] = "rest"
    /\ task' = [t \in Tasks |-> IF Owner[t] = Owner[c] /\ task[t] \in {"file", "work"}
                                THEN "failed" ELSE task[t]]
    /\ Goto(c, IF c \in Closing THEN "close" ELSE "done")
    /\ UNCHANGED <<file, writer, output, ref, goal, promised, luck>>

\* Close marks the Output closed, cancels its Run and takes the Store to close.
CloseOutput(c) ==
    LET r == Owner[c] IN
    /\ pc[c] = "close"
    /\ closed' = [closed EXCEPT ![r] = TRUE] /\ cancelled' = [cancelled EXCEPT ![r] = TRUE]
    /\ ref' = [ref EXCEPT ![c] = store[r]]
    /\ Goto(c, IF store[r] = 0 THEN "done" ELSE "finalFlush")
    /\ UNCHANGED <<file, writer, opens, store, opened, opening, reported, task, goal, promised, luck>>

-----------------------------------------------------------------------------

\* The Run's context ends: its deadline, or an interrupt.
Cancel(r) ==
    /\ ~cancelled[r] /\ cancels < MaxCancels /\ cancels' = cancels + 1
    /\ cancelled' = [cancelled EXCEPT ![r] = TRUE]
    /\ UNCHANGED <<file, writer, opens, store, opened, opening, closed, reported, task, calls, fails, crashes>>

\* The process of a Run dies. The file stays; the kernel drops the lock.
Crash(r) ==
    /\ crashes < MaxCrashes /\ crashes' = crashes + 1
    /\ lock' = IF lock # None /\ lock[1] = r THEN None ELSE lock
    /\ orphans' = orphans \ {r}
    /\ w' = [w EXCEPT ![r] = Idle] /\ flight' = [flight EXCEPT ![r] = None]
    /\ task' = [t \in Tasks |-> IF Owner[t] = r THEN "crashed" ELSE task[t]]
    /\ pc' = [c \in Calls |-> IF Owner[c] = r THEN "crashed" ELSE pc[c]]
    /\ UNCHANGED <<disk, doc, output, ref, goal, promised, fails, cancels>>

TaskStep(t) == ManifestFor(t) \/ Opens(t) \/ Lands(t) \/ GivesUp(t) \/ Settle(t)
WriterStep(r) == WriteBegin(r) \/ Rename(r) \/ Wrote(r) \/ WriteFails(r) \/ WriterStops(r)
OrphanStep(r) == OrphanTakes(r) \/ OrphanDrops(r)
CallStep(c) ==
    \/ Drain(c) \/ Flush(c) \/ FlushOk(c) \/ FlushFails(c) \/ Unset(c) \/ Release(c)
    \/ FinishRest(c) \/ CloseOutput(c)

Next ==
    \/ \E t \in Tasks : TaskStep(t)
    \/ \E r \in Runs : WriterStep(r) \/ OrphanStep(r) \/ Cancel(r) \/ Crash(r)
    \/ \E c \in Calls : CallStep(c)

\* Goroutines go on, and flock(2) wakes a waiter once the lock stays free.
Fairness ==
    /\ \A t \in Tasks : WF_vars(TaskStep(t))
    /\ \A r \in Runs : WF_vars(WriterStep(r)) /\ WF_vars(OrphanStep(r))
    /\ \A c \in Calls : WF_vars(CallStep(c))

Spec == Init /\ [][Next]_vars /\ Fairness

-----------------------------------------------------------------------------
\* Properties.

\* The type of every variable.
FileTypes ==
    /\ disk \subseteq Tasks /\ orphans \subseteq Runs
    /\ lock \in {None} \union (Runs \X (0..MaxOpens))

WriterTypes ==
    /\ doc \in [Runs -> SUBSET Tasks] /\ w \in [Runs -> Writers]
    /\ flight \in [Runs -> Writes \union {None}]

OutputTypes ==
    /\ opens \in [Runs -> 0..MaxOpens] /\ store \in [Runs -> 0..MaxOpens]
    /\ opened \in [Runs -> {"no", "yes", "error"}]
    /\ opening \in [Runs -> Tasks \union {None}]
    /\ closed \in [Runs -> BOOLEAN] /\ cancelled \in [Runs -> BOOLEAN]
    /\ reported \in [Runs -> BOOLEAN]

CallTypes ==
    /\ pc \in [Calls -> {"drain", "save", "saving", "unset", "closeFlush", "closeFlushing",
                          "closeRelease", "rest", "close", "finalFlush", "finalFlushing",
                          "finalRelease", "done", "crashed"}]
    /\ ref \in [Calls -> 0..MaxOpens] /\ goal \in [Calls -> Nat]
    /\ promised \in [Calls -> SUBSET Tasks]

TypeOK ==
    /\ FileTypes /\ WriterTypes /\ OutputTypes /\ CallTypes
    /\ task \in [Tasks -> {"file", "locking", "opened", "work", "done", "failed", "crashed"}]
    /\ fails \in 0..MaxFails /\ crashes \in 0..MaxCrashes /\ cancels \in 0..MaxCancels

\* What a Run was told is saved is: when Flush has returned nil, everything
\* put before it began is on disk, whatever the background writer was doing
\* and however often it failed (store.go:155); and when a Run is over, so is
\* the record of each Task Done in it, or the Run told of the failure
\* (file_manifest.go:113).  Only of the Tasks Finish waits for: it leaves the
\* others behind with the Store they would write to.
ReportedIsOnDisk ==
    /\ \A c \in Calls : pc[c] \in {"unset", "closeFlush", "closeRelease"}
                         => promised[c] \subseteq disk
    /\ \A t \in Tasks \ Late :
          /\ task[t] = "done" /\ \A c \in Calls : Owner[c] = Owner[t] => pc[c] = "done"
          => t \in disk \/ reported[Owner[t]]

\* No write of one Run undoes a record another Run, or an earlier Store of the
\* same Run, left on disk (store.go:14, "exclusive handle").
NothingLost == [][disk \subseteq disk']_vars

\* Every call and every Task ends: no Flush waits for a writer that gave up,
\* no Run waits for ever for the lock.
EveryoneEnds ==
    /\ \A c \in Calls : <>(pc[c] \in {"done", "crashed"})
    /\ \A t \in Tasks : <>(task[t] \in {"done", "failed", "crashed"})
=============================================================================
