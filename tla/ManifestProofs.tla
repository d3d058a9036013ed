--------------------------- MODULE ManifestProofs ---------------------------
\* What holds of the manifest for every number of Runs, Tasks and failures,
\* when each Run is ended by one call of Finish or Close.
EXTENDS Manifest, TLAPS

\* One call ends each Run.  Without it the properties below fail: a Close that
\* could not write releases the lock and leaves the Store behind, and the Flush
\* of another Finish then writes without the lock.
EndedOnce ==
    /\ \A c, d \in Calls : Owner[c] = Owner[d] => c = d
    /\ \A r \in Runs : \E c \in Calls : Owner[c] = r

-----------------------------------------------------------------------------
\* The inductive invariant.

\* The newest Store of a Run has the lock.
Holds(r) == opens[r] > 0 /\ lock = <<r, opens[r]>>

\* Somebody may still reach the Store of a Run.
Using(r) ==
    \/ \E t \in Tasks : /\ Owner[t] = r /\ ~Finished(r)
                        /\ task[t] \in {"file", "locking", "opened", "work"}
    \/ \E c \in Calls : Owner[c] = r /\ pc[c] \notin {"done", "crashed"}

\* Nothing is written until something is asked for.
Quiet(r) == flight[r] = None /\ (w[r].running => ~Wanted(w[r]))

\* Versions only grow, and an unfinished write is of a version not yet written.
WriterSound(r) ==
    /\ w[r].written <= w[r].version /\ w[r].requested <= w[r].version
    /\ w[r].attempted <= w[r].version
    /\ flight[r] # None =>
        /\ w[r].running /\ w[r].written < flight[r].version
        /\ flight[r].version <= w[r].version

\* The Store with the lock has everything on disk, and on disk what it wrote.
ContentSound(r) ==
    /\ Holds(r) => disk \subseteq doc[r] /\ (w[r].written = w[r].version => doc[r] \subseteq disk)
    /\ flight[r] # None =>
        /\ disk \subseteq flight[r].doc /\ flight[r].doc \subseteq doc[r]
        /\ flight[r].ok => flight[r].doc \subseteq disk
        /\ flight[r].version = w[r].version => flight[r].doc = doc[r]

\* A Store that is reachable, or has a write to do, has the lock.
LockSound(r) ==
    /\ store[r] \in {0, opens[r]} /\ (opened[r] = "yes" <=> store[r] # 0)
    /\ Using(r) /\ store[r] # 0 => Holds(r)
    /\ ~Quiet(r) => Holds(r)

\* One open at a time, and none while a Store is there.
OpenSound(t) ==
    LET r == Owner[t] IN
    /\ task[t] \in {"locking", "opened"} =>
        opening[r] = t /\ store[r] = 0 /\ opened[r] = "no"
    /\ task[t] = "opened" =>
        /\ Holds(r) /\ w[r] = Idle
        /\ \A c \in Calls : Owner[c] = r =>
            pc[c] \notin {"closeFlush", "closeFlushing", "closeRelease"}

\* The Store a call works on is the Run's, and is still locked.
CallSound(c) ==
    LET r == Owner[c] IN
    /\ pc[c] \in {"save", "saving", "unset", "finalFlush", "finalFlushing", "finalRelease"} =>
        ref[c] = store[r] /\ store[r] # 0
    /\ pc[c] \in {"closeFlush", "closeFlushing", "closeRelease"} =>
        ref[c] = opens[r] /\ store[r] = 0 /\ Holds(r)
    /\ pc[c] \in {"closeFlushing", "finalFlushing"} => goal[c] = w[r].version
    /\ pc[c] \in {"closeRelease", "finalRelease"} => Quiet(r)

\* What a Flush promised is on its way to the disk.
PromiseSound(c) ==
    LET r == Owner[c] IN
    /\ pc[c] \in {"saving", "closeFlushing"} =>
        /\ promised[c] \subseteq doc[r] /\ goal[c] <= w[r].version
        /\ w[r].written >= goal[c] => promised[c] \subseteq disk
        /\ flight[r] # None /\ flight[r].version >= goal[c] => promised[c] \subseteq flight[r].doc
    /\ pc[c] \in {"unset", "closeFlush", "closeRelease"} => promised[c] \subseteq disk

\* The record of a Task that Finish waits for is in the document until it is on
\* disk.
RecordSound(t) ==
    LET r == Owner[t] IN
    \A c \in Calls : Owner[c] = r =>
        /\ task[t] \notin {"done", "failed", "crashed"} => pc[c] = "drain"
        /\ task[t] = "work" => store[r] # 0
        /\ task[t] = "done" =>
            \/ t \in disk \/ reported[r]
            \/ pc[c] \in {"drain", "save"} /\ store[r] # 0 /\ t \in doc[r]
            \/ pc[c] = "saving" /\ t \in promised[c]

\* All of one Run.
RunSound(r) ==
    /\ WriterSound(r) /\ ContentSound(r) /\ LockSound(r)
    /\ \A t \in Tasks : Owner[t] = r => OpenSound(t) /\ (t \notin Late => RecordSound(t))
    /\ \A c \in Calls : Owner[c] = r => CallSound(c) /\ PromiseSound(c)

IInv == TypeOK /\ \A r \in Runs : RunSound(r)

-----------------------------------------------------------------------------
\* Types.

LEMMA IdleTyped == Idle \in Writers
BY DEF Idle, Writers

\* What the writer and its callers do to its state.
LEMMA WriterTyped ==
    ASSUME NEW x \in Writers, NEW n \in Nat
    PROVE  /\ [x EXCEPT !.version = @ + 1] \in Writers
           /\ Request(x) \in Writers /\ Retried(x) \in Writers
           /\ [x EXCEPT !.attempted = n, !.written = n, !.failed = FALSE] \in Writers
           /\ [x EXCEPT !.attempted = n, !.failed = TRUE] \in Writers
           /\ [x EXCEPT !.running = FALSE] \in Writers
           /\ x.version \in Nat /\ x.requested \in Nat /\ x.written \in Nat
           /\ x.attempted \in Nat /\ x.running \in BOOLEAN
<1>1. /\ x.version \in Nat /\ x.requested \in Nat /\ x.written \in Nat
      /\ x.attempted \in Nat /\ x.running \in BOOLEAN
    BY DEF Writers
<1>2. Request(x) \in Writers
    BY DEF Writers, Request
<1>3. Retried(x) \in Writers
    BY DEF Writers, Retried
<1>4. [x EXCEPT !.version = @ + 1] \in Writers
    BY DEF Writers
<1>5. [x EXCEPT !.attempted = n, !.written = n, !.failed = FALSE] \in Writers
    BY DEF Writers
<1>6. [x EXCEPT !.attempted = n, !.failed = TRUE] \in Writers
    BY DEF Writers
<1>7. [x EXCEPT !.running = FALSE] \in Writers
    BY DEF Writers
<1> QED
    BY <1>1, <1>2, <1>3, <1>4, <1>5, <1>6, <1>7

LEMMA FlightTyped ==
    ASSUME NEW x \in Writes
    PROVE  /\ [x EXCEPT !.ok = TRUE] \in Writes
           /\ x.version \in Nat /\ x.doc \subseteq Tasks /\ x.ok \in BOOLEAN
BY DEF Writes

LEMMA Owned ==
    /\ \A t \in Tasks : Owner[t] \in Runs
    /\ \A c \in Calls : Owner[c] \in Runs
BY ManifestAssumption

LEMMA InitTypeOK == Init => TypeOK
<1> USE ManifestAssumption DEF Init
<1>1. Init => FileTypes
    BY DEF FileTypes
<1>2. Init => WriterTypes
    BY IdleTyped DEF WriterTypes
<1>3. Init => OutputTypes
    BY DEF OutputTypes
<1>4. Init => CallTypes
    BY DEF CallTypes
<1> QED
    BY <1>1, <1>2, <1>3, <1>4 DEF TypeOK

\* The groups of variables an action leaves alone keep their types.
LEMMA TypesKept ==
    ASSUME TypeOK
    PROVE  /\ UNCHANGED file => FileTypes'
           /\ UNCHANGED writer => WriterTypes'
           /\ UNCHANGED output => OutputTypes'
           /\ UNCHANGED calls => CallTypes'
BY DEF TypeOK, FileTypes, WriterTypes, OutputTypes, CallTypes, file, writer, output, calls

LEMMA TaskTypes ==
    ASSUME TypeOK, NEW t \in Tasks, TaskStep(t)
    PROVE  TypeOK'
<1> USE DEF TypeOK
<1> DEFINE r == Owner[t]
<1>0. r \in Runs
    BY Owned
<1>1. CASE ManifestFor(t)
  <2>1. OutputTypes'
    BY <1>0, <1>1 DEF ManifestFor, OutputTypes
  <2> QED
    BY <1>1, <2>1, TypesKept DEF ManifestFor, Moves, luck
<1>2. CASE Opens(t)
  <2>0. opens[r] + 1 \in 0..MaxOpens
    BY <1>0, <1>2, ManifestAssumption DEF Opens, OutputTypes
  <2>1. FileTypes'
    BY <1>0, <1>2, <2>0 DEF Opens, FileTypes
  <2>2. WriterTypes'
    BY <1>0, <1>2, IdleTyped DEF Opens, WriterTypes, FileTypes
  <2>3. OutputTypes'
    BY <1>0, <1>2, <2>0 DEF Opens, OutputTypes
  <2> QED
    BY <1>2, <2>1, <2>2, <2>3, TypesKept DEF Opens, Moves, luck
<1>3. CASE Lands(t)
  <2>1. FileTypes'
    BY <1>0, <1>3 DEF Lands, FileTypes
  <2>2. OutputTypes'
    BY <1>0, <1>3 DEF Lands, OutputTypes, Caches
  <2> QED
    BY <1>3, <2>1, <2>2, TypesKept DEF Lands, Moves, luck
<1>4. CASE GivesUp(t)
  <2>1. FileTypes'
    BY <1>0, <1>4 DEF GivesUp, FileTypes
  <2>2. OutputTypes'
    BY <1>0, <1>4, ManifestAssumption DEF GivesUp, OutputTypes, Caches
  <2> QED
    BY <1>4, <2>1, <2>2, TypesKept DEF GivesUp, Moves, luck
<1>5. CASE Settle(t)
  <2>1. OutputTypes'
    BY <1>0, <1>5 DEF Settle, OutputTypes, writer
  <2>2. w[r] \in Writers
    BY <1>0 DEF WriterTypes
  <2> DEFINE put == [w[r] EXCEPT !.version = @ + 1]
  <2>3. put \in Writers /\ Request(put) \in Writers
    BY <2>2, WriterTyped
  <2> HIDE DEF put
  <2>4. \/ UNCHANGED writer
        \/ /\ doc' = [doc EXCEPT ![r] = @ \union {t}] /\ flight' = flight
           /\ w' = [w EXCEPT ![r] = IF t \in Opaque THEN put ELSE Request(put)]
    BY <1>5 DEF Settle, writer, put
  <2>5. WriterTypes'
    BY <1>0, <2>3, <2>4 DEF WriterTypes, writer
  <2> QED
    BY <1>5, <2>1, <2>5, TypesKept DEF Settle, Moves, luck
<1> QED
    BY <1>1, <1>2, <1>3, <1>4, <1>5 DEF TaskStep

LEMMA RunTypes ==
    ASSUME TypeOK, NEW r \in Runs, WriterStep(r) \/ OrphanStep(r) \/ Cancel(r) \/ Crash(r)
    PROVE  TypeOK'
<1> USE DEF TypeOK
<1>0. w[r] \in Writers /\ doc[r] \subseteq Tasks /\ (flight[r] # None => flight[r] \in Writes)
    BY DEF WriterTypes
<1>1. CASE WriteBegin(r)
  <2> DEFINE begun == [version |-> w[r].version, doc |-> doc[r], ok |-> FALSE]
  <2>1. begun \in Writes
    BY <1>0, WriterTyped DEF Writes
  <2>2. flight' = [flight EXCEPT ![r] = begun]
    BY <1>1 DEF WriteBegin
  <2> HIDE DEF begun
  <2>3. WriterTypes'
    BY <1>1, <2>1, <2>2 DEF WriteBegin, WriterTypes
  <2> QED
    BY <1>1, <2>3, TypesKept DEF WriteBegin, luck
<1>2. CASE Rename(r)
  <2>1. [flight[r] EXCEPT !.ok = TRUE] \in Writes /\ flight[r].doc \subseteq Tasks
    BY <1>0, <1>2, FlightTyped DEF Rename
  <2>2. FileTypes'
    BY <1>2, <2>1 DEF Rename, FileTypes
  <2>3. flight' = [flight EXCEPT ![r] = [flight[r] EXCEPT !.ok = TRUE]]
    BY <1>2 DEF Rename, WriterTypes
  <2>4. WriterTypes'
    BY <1>2, <2>1, <2>3 DEF Rename, WriterTypes
  <2> QED
    BY <1>2, <2>2, <2>4, TypesKept DEF Rename, luck
<1>3. CASE Wrote(r)
  <2> DEFINE x == [w[r] EXCEPT !.attempted = flight[r].version,
                               !.written = flight[r].version, !.failed = FALSE]
  <2>1. x \in Writers
    BY <1>0, <1>3, WriterTyped, FlightTyped DEF Wrote
  <2>2. w' = [w EXCEPT ![r] = x]
    BY <1>3 DEF Wrote, WriterTypes
  <2> HIDE DEF x
  <2>3. WriterTypes'
    BY <1>3, <2>1, <2>2 DEF Wrote, WriterTypes
  <2> QED
    BY <1>3, <2>3, TypesKept DEF Wrote, luck
<1>4. CASE WriteFails(r)
  <2> DEFINE x == [w[r] EXCEPT !.attempted = flight[r].version, !.failed = TRUE]
  <2>1. x \in Writers
    BY <1>0, <1>4, WriterTyped, FlightTyped DEF WriteFails
  <2>2. w' = [w EXCEPT ![r] = x]
    BY <1>4 DEF WriteFails, WriterTypes
  <2> HIDE DEF x
  <2>3. WriterTypes'
    BY <1>4, <2>1, <2>2 DEF WriteFails, WriterTypes
  <2> QED
    BY <1>4, <2>3, TypesKept, ManifestAssumption DEF WriteFails
<1>5. CASE WriterStops(r)
  <2>1. [w[r] EXCEPT !.running = FALSE] \in Writers
    BY <1>0, WriterTyped, 0 \in Nat
  <2>2. w' = [w EXCEPT ![r] = [w[r] EXCEPT !.running = FALSE]]
    BY <1>5 DEF WriterStops, WriterTypes
  <2>3. WriterTypes'
    BY <1>5, <2>1, <2>2 DEF WriterStops, WriterTypes
  <2> QED
    BY <1>5, <2>3, TypesKept DEF WriterStops, luck
<1>6. CASE OrphanStep(r)
  <2>1. FileTypes'
    BY <1>6, ManifestAssumption DEF OrphanStep, OrphanTakes, OrphanDrops, FileTypes
  <2> QED
    BY <1>6, <2>1, TypesKept DEF OrphanStep, OrphanTakes, OrphanDrops, luck
<1>7. CASE Cancel(r)
  <2>1. OutputTypes'
    BY <1>7 DEF Cancel, OutputTypes
  <2> QED
    BY <1>7, <2>1, TypesKept, ManifestAssumption DEF Cancel
<1>8. CASE Crash(r)
  <2>1. FileTypes'
    BY <1>8 DEF Crash, FileTypes
  <2>2. WriterTypes'
    BY <1>8, IdleTyped DEF Crash, WriterTypes
  <2>3. CallTypes'
    BY <1>8 DEF Crash, CallTypes
  <2>4. crashes' \in 0..MaxCrashes
    BY <1>8, ManifestAssumption DEF Crash
  <2> QED
    BY <1>8, <2>1, <2>2, <2>3, <2>4, TypesKept DEF Crash
<1> QED
    BY <1>1, <1>2, <1>3, <1>4, <1>5, <1>6, <1>7, <1>8 DEF WriterStep

LEMMA CallTypesStep ==
    ASSUME TypeOK, NEW c \in Calls, CallStep(c)
    PROVE  TypeOK'
<1> USE DEF TypeOK
<1> DEFINE r == Owner[c]
<1>0. r \in Runs /\ w[r] \in Writers
    BY Owned DEF WriterTypes
<1>1. CASE Drain(c)
  <2>1. CallTypes'
    BY <1>0, <1>1 DEF Drain, Goto, CallTypes, OutputTypes
  <2> QED
    BY <1>1, <2>1, TypesKept DEF Drain, luck
<1>2. CASE Flush(c)
  <2>1. Request(Retried(w[r])) \in Writers /\ w[r].version \in Nat
    BY <1>0, WriterTyped, 0 \in Nat
  <2>2. WriterTypes'
    BY <1>0, <1>2, <2>1 DEF Flush, WriterTypes
  <2>3. CallTypes'
    <3>1. goal' \in [Calls -> Nat]
      BY <1>2, <2>1 DEF Flush, CallTypes
    <3>2. promised' \in [Calls -> SUBSET Tasks]
      BY <1>0, <1>2 DEF Flush, CallTypes, WriterTypes
    <3>3. ref' = ref /\ \E l \in {"saving", "finalFlushing", "closeFlushing", "unset",
                                  "finalRelease", "closeRelease"} : Goto(c, l)
      BY <1>2 DEF Flush
    <3> QED
      BY <3>1, <3>2, <3>3 DEF CallTypes, Goto
  <2> QED
    BY <1>2, <2>2, <2>3, TypesKept DEF Flush, luck
<1>3. CASE FlushOk(c)
  <2>1. CallTypes'
    BY <1>3 DEF FlushOk, Goto, CallTypes
  <2> QED
    BY <1>3, <2>1, TypesKept DEF FlushOk, luck
<1>4. CASE FlushFails(c)
  <2>1. CallTypes'
    BY <1>4 DEF FlushFails, Goto, CallTypes
  <2>2. OutputTypes'
    BY <1>0, <1>4 DEF FlushFails, Told, OutputTypes
  <2> QED
    BY <1>4, <2>1, <2>2, TypesKept DEF FlushFails, luck
<1>5. CASE Unset(c)
  <2>1. CallTypes'
    BY <1>5 DEF Unset, Goto, CallTypes
  <2>2. OutputTypes'
    BY <1>0, <1>5, ManifestAssumption DEF Unset, OutputTypes
  <2> QED
    BY <1>5, <2>1, <2>2, TypesKept DEF Unset, luck
<1>6. CASE Release(c)
  <2>1. CallTypes'
    BY <1>6 DEF Release, Goto, CallTypes
  <2>2. FileTypes'
    BY <1>6 DEF Release, FileTypes
  <2> QED
    BY <1>6, <2>1, <2>2, TypesKept DEF Release, luck
<1>7. CASE FinishRest(c)
  <2>1. CallTypes'
    BY <1>7 DEF FinishRest, Goto, CallTypes
  <2> QED
    BY <1>7, <2>1, TypesKept DEF FinishRest, luck
<1>8. CASE CloseOutput(c)
  <2>1. CallTypes'
    BY <1>0, <1>8 DEF CloseOutput, Goto, CallTypes, OutputTypes
  <2>2. OutputTypes'
    BY <1>0, <1>8 DEF CloseOutput, OutputTypes
  <2> QED
    BY <1>8, <2>1, <2>2, TypesKept DEF CloseOutput, luck
<1> QED
    BY <1>1, <1>2, <1>3, <1>4, <1>5, <1>6, <1>7, <1>8 DEF CallStep

LEMMA TypeStep == TypeOK /\ [Next]_vars => TypeOK'
<1>1. ASSUME TypeOK, UNCHANGED vars PROVE TypeOK'
    BY <1>1, TypesKept DEF vars, TypeOK, luck
<1> QED
    BY <1>1, TaskTypes, RunTypes, CallTypesStep DEF Next

\* Every variable keeps its type.
THEOREM TypeCorrect == Spec => []TypeOK
BY InitTypeOK, TypeStep, PTL DEF Spec
-----------------------------------------------------------------------------
\* What a step leaves alone.

\* Nothing of one Run has changed.
SameRun(q) ==
    /\ doc'[q] = doc[q] /\ w'[q] = w[q] /\ flight'[q] = flight[q]
    /\ opens'[q] = opens[q] /\ store'[q] = store[q] /\ opened'[q] = opened[q]
    /\ opening'[q] = opening[q] /\ reported'[q] = reported[q]
    /\ \A t \in Tasks : Owner[t] = q => task'[t] = task[t]
    /\ \A c \in Calls : Owner[c] = q =>
        pc'[c] = pc[c] /\ ref'[c] = ref[c] /\ goal'[c] = goal[c] /\ promised'[c] = promised[c]

\* A Run the step does not touch stays sound, if the file only grows, and not
\* at all while the Run has the lock.
LEMMA OtherRun ==
    ASSUME NEW q \in Runs, RunSound(q), SameRun(q), disk \subseteq disk',
           Holds(q)' <=> Holds(q), Holds(q) => disk' = disk
    PROVE  RunSound(q)'
<1> USE DEF SameRun
<1>1. (Finished(q)' <=> Finished(q)) /\ (Using(q)' <=> Using(q)) /\ (Quiet(q)' <=> Quiet(q))
    BY DEF Finished, Using, Quiet, Wanted
<1>2. WriterSound(q)'
    BY DEF RunSound, WriterSound
<1>3. ContentSound(q)'
    BY DEF RunSound, ContentSound, LockSound, Quiet
<1>4. LockSound(q)'
    BY <1>1 DEF RunSound, LockSound
<1>5. ASSUME NEW t \in Tasks, Owner[t] = q
      PROVE  OpenSound(t)' /\ (t \notin Late => RecordSound(t)')
  <2>1. OpenSound(t)'
    BY <1>5 DEF RunSound, OpenSound
  <2>2. ASSUME t \notin Late PROVE RecordSound(t)'
    BY <1>5, <2>2 DEF RunSound, RecordSound
  <2> QED
    BY <2>1, <2>2
<1>6. ASSUME NEW c \in Calls, Owner[c] = q
      PROVE  CallSound(c)' /\ PromiseSound(c)'
  <2>1. CallSound(c)'
    BY <1>1, <1>6 DEF RunSound, CallSound
  <2>2. PromiseSound(c)'
    BY <1>6 DEF RunSound, PromiseSound
  <2> QED
    BY <2>1, <2>2
<1> QED
    BY <1>2, <1>3, <1>4, <1>5, <1>6 DEF RunSound

\* The types of one Run.
LEMMA RunTyped ==
    ASSUME TypeOK, NEW r \in Runs
    PROVE  /\ w[r] \in Writers /\ doc[r] \subseteq Tasks
           /\ w[r].version \in Nat /\ w[r].requested \in Nat /\ w[r].written \in Nat
           /\ w[r].attempted \in Nat /\ w[r].running \in BOOLEAN
           /\ flight[r] # None => /\ flight[r] \in Writes /\ flight[r].version \in Nat
                                  /\ flight[r].doc \subseteq Tasks
           /\ opens[r] \in Nat /\ store[r] \in Nat
<1>1. /\ w[r] \in Writers /\ doc[r] \subseteq Tasks
      /\ flight[r] # None => flight[r] \in Writes
      /\ opens[r] \in 0..MaxOpens /\ store[r] \in 0..MaxOpens
    BY DEF TypeOK, WriterTypes, OutputTypes
<1>2. \A i \in 0..MaxOpens : i \in Nat
    OBVIOUS
<1> QED
    BY <1>1, <1>2, WriterTyped, FlightTyped, 0 \in Nat

\* Neither the Store nor the file has changed, and the lock is not gained.
LEMMA StoreKept ==
    ASSUME NEW r \in Runs, RunSound(r), disk' = disk, doc'[r] = doc[r], w'[r] = w[r],
           flight'[r] = flight[r], opens'[r] = opens[r], Holds(r)' => Holds(r)
    PROVE  WriterSound(r)' /\ ContentSound(r)' /\ (Quiet(r)' <=> Quiet(r))
<1>1. WriterSound(r)'
    BY DEF RunSound, WriterSound
<1>2. ContentSound(r)'
    BY DEF RunSound, ContentSound
<1>3. Quiet(r)' <=> Quiet(r)
    BY DEF Quiet, Wanted
<1> QED
    BY <1>1, <1>2, <1>3

\* The calls have not changed, nor the Store they work on.
LEMMA CallsKept ==
    ASSUME NEW r \in Runs, RunSound(r), disk' = disk, UNCHANGED <<calls, writer, opens>>,
           Holds(r)' <=> Holds(r), NEW c \in Calls, Owner[c] = r,
           \/ store'[r] = store[r]
           \/ pc[c] \notin {"save", "saving", "unset", "finalFlush", "finalFlushing",
                            "finalRelease", "closeFlush", "closeFlushing", "closeRelease"}
    PROVE  CallSound(c)' /\ PromiseSound(c)'
<1> USE DEF calls, writer
<1>0. Quiet(r)' <=> Quiet(r)
    BY DEF Quiet, Wanted
<1>1. CallSound(c)'
    BY <1>0 DEF RunSound, CallSound
<1>2. PromiseSound(c)'
    BY DEF RunSound, PromiseSound
<1> QED
    BY <1>1, <1>2

-----------------------------------------------------------------------------
\* The steps of a Task keep its Run sound.

LEMMA ManifestForSound ==
    ASSUME IInv, NEW t \in Tasks, ManifestFor(t)
    PROVE  RunSound(Owner[t])'
<1> DEFINE r == Owner[t]
<1>0. r \in Runs /\ RunSound(r) /\ TypeOK
    BY Owned DEF IInv
<1> USE DEF ManifestFor, Moves, file, writer, calls
<1>1. WriterSound(r)' /\ ContentSound(r)' /\ (Quiet(r)' <=> Quiet(r)) /\ (Holds(r)' <=> Holds(r))
    BY <1>0, StoreKept DEF Holds
<1>2. Using(r)' => Using(r)
    BY <1>0 DEF Using, Finished, TypeOK
<1>3. LockSound(r)'
    BY <1>0, <1>1, <1>2 DEF RunSound, LockSound
<1>4. ASSUME NEW u \in Tasks, Owner[u] = r
      PROVE  OpenSound(u)' /\ (u \notin Late => RecordSound(u)')
  <2>1. OpenSound(u)'
    BY <1>0, <1>1, <1>4, ManifestAssumption
       DEF RunSound, OpenSound, LockSound, TypeOK, OutputTypes
  <2>2. ASSUME u \notin Late PROVE RecordSound(u)'
    BY <1>0, <1>4, <2>2 DEF RunSound, RecordSound, LockSound, TypeOK, OutputTypes
  <2> QED
    BY <2>1, <2>2
<1>5. ASSUME NEW c \in Calls, Owner[c] = r
      PROVE  CallSound(c)' /\ PromiseSound(c)'
    BY <1>0, <1>1, <1>5, CallsKept
<1> QED
    BY <1>1, <1>3, <1>4, <1>5 DEF RunSound

LEMMA OpensSound ==
    ASSUME IInv, NEW t \in Tasks, Opens(t)
    PROVE  RunSound(Owner[t])'
<1> DEFINE r == Owner[t]
<1>0. r \in Runs /\ RunSound(r) /\ TypeOK
    BY Owned DEF IInv
<1>1. /\ disk' = disk /\ lock = None /\ lock' = <<r, opens[r] + 1>> /\ opens'[r] = opens[r] + 1
      /\ doc'[r] = disk /\ w'[r] = Idle /\ flight' = flight
      /\ store' = store /\ opened' = opened /\ opening' = opening /\ reported' = reported
      /\ task[t] = "locking" /\ task' = [task EXCEPT ![t] = "opened"]
      /\ pc' = pc /\ ref' = ref /\ goal' = goal /\ promised' = promised
    BY <1>0 DEF Opens, Moves, calls, TypeOK, WriterTypes, OutputTypes
<1>2. opens[r] \in Nat /\ store[r] = 0 /\ opened[r] = "no" /\ opening[r] = t
    BY <1>0, <1>1, RunTyped DEF RunSound, OpenSound
<1>3. ~Holds(r) /\ flight[r] = None
    BY <1>0, <1>1, <1>2, ManifestAssumption DEF Holds, RunSound, LockSound, Quiet
<1>4. Holds(r)' /\ Quiet(r)'
    BY <1>1, <1>2, <1>3 DEF Holds, Quiet, Idle
<1>5. WriterSound(r)' /\ ContentSound(r)'
    BY <1>1, <1>3 DEF WriterSound, ContentSound, Idle
<1>6. LockSound(r)'
    BY <1>1, <1>2, <1>4 DEF LockSound
<1>7. \A c \in Calls : Owner[c] = r =>
        pc[c] \notin {"save", "saving", "unset", "finalFlush", "finalFlushing",
                      "finalRelease", "closeFlush", "closeFlushing", "closeRelease"}
    BY <1>0, <1>2, <1>3 DEF RunSound, CallSound
<1>8. ASSUME NEW u \in Tasks, Owner[u] = r
      PROVE  OpenSound(u)' /\ (u \notin Late => RecordSound(u)')
  <2>1. OpenSound(u)'
    <3>1. CASE u = t
      BY <1>1, <1>2, <1>4, <1>7, <3>1 DEF OpenSound, TypeOK
    <3>2. CASE u # t
      BY <1>0, <1>1, <1>2, <1>8, <3>2 DEF RunSound, OpenSound, TypeOK
    <3> QED
      BY <3>1, <3>2
  <2>2. ASSUME u \notin Late PROVE RecordSound(u)'
    BY <1>0, <1>1, <1>2, <1>8, <2>2 DEF RunSound, RecordSound, TypeOK
  <2> QED
    BY <2>1, <2>2
<1>9. ASSUME NEW c \in Calls, Owner[c] = r
      PROVE  CallSound(c)' /\ PromiseSound(c)'
    BY <1>0, <1>1, <1>7, <1>9 DEF RunSound, CallSound, PromiseSound
<1> QED
    BY <1>5, <1>6, <1>8, <1>9 DEF RunSound

LEMMA LandsSound ==
    ASSUME IInv, NEW t \in Tasks, Lands(t)
    PROVE  RunSound(Owner[t])'
<1> DEFINE r == Owner[t]
<1>0. r \in Runs /\ RunSound(r) /\ TypeOK
    BY Owned DEF IInv
<1> USE DEF Lands, Moves, Caches, writer, calls
<1>1. /\ store[r] = 0 /\ opened[r] = "no" /\ opening[r] = t /\ Holds(r) /\ w[r] = Idle
      /\ \A c \in Calls : Owner[c] = r =>
            pc[c] \notin {"save", "saving", "unset", "finalFlush", "finalFlushing",
                          "finalRelease", "closeFlush", "closeFlushing", "closeRelease"}
    BY <1>0 DEF RunSound, OpenSound, CallSound
<1>2. flight[r] = None /\ Quiet(r)
    BY <1>0, <1>1 DEF RunSound, WriterSound, Idle, Quiet
<1>3. WriterSound(r)' /\ ContentSound(r)' /\ (Quiet(r)' <=> Quiet(r))
    BY <1>0, <1>1, StoreKept
<1>4. \/ /\ task' = [task EXCEPT ![t] = "failed"] /\ store' = store /\ opened' = opened
      \/ /\ task' = [task EXCEPT ![t] = "work"] /\ lock' = lock
         /\ store'[r] = opens[r] /\ opened'[r] = "yes"
    BY <1>0 DEF TypeOK, OutputTypes
<1>5. LockSound(r)'
    BY <1>0, <1>1, <1>2, <1>3, <1>4, RunTyped DEF LockSound, Holds, RunSound
<1>6. ASSUME NEW u \in Tasks, Owner[u] = r
      PROVE  OpenSound(u)' /\ (u \notin Late => RecordSound(u)')
  <2>1. OpenSound(u)'
    <3>1. task'[u] \notin {"locking", "opened"}
      BY <1>0, <1>1, <1>4, <1>6 DEF RunSound, OpenSound, TypeOK
    <3> QED
      BY <3>1 DEF OpenSound
  <2>2. ASSUME u \notin Late PROVE RecordSound(u)'
    BY <1>0, <1>1, <1>4, <1>6, <2>2 DEF RunSound, RecordSound, TypeOK, Holds
  <2> QED
    BY <2>1, <2>2
<1>7. ASSUME NEW c \in Calls, Owner[c] = r
      PROVE  CallSound(c)' /\ PromiseSound(c)'
    BY <1>0, <1>1, <1>7 DEF RunSound, CallSound, PromiseSound
<1> QED
    BY <1>3, <1>5, <1>6, <1>7 DEF RunSound

LEMMA GivesUpSound ==
    ASSUME IInv, NEW t \in Tasks, GivesUp(t)
    PROVE  RunSound(Owner[t])'
<1> DEFINE r == Owner[t]
<1>0. r \in Runs /\ RunSound(r) /\ TypeOK
    BY Owned DEF IInv
<1> USE DEF GivesUp, Moves, Caches, writer, calls
<1>1. store[r] = 0 /\ opened[r] = "no" /\ opening[r] = t
    BY <1>0 DEF RunSound, OpenSound
<1>2. WriterSound(r)' /\ ContentSound(r)' /\ (Quiet(r)' <=> Quiet(r)) /\ (Holds(r)' <=> Holds(r))
    BY <1>0, StoreKept DEF Holds
<1>3. store'[r] = 0 /\ opened'[r] # "yes" /\ task' = [task EXCEPT ![t] = "failed"]
    BY <1>0, <1>1 DEF TypeOK, OutputTypes
<1>4. LockSound(r)'
    BY <1>0, <1>2, <1>3 DEF LockSound, RunSound
<1>5. ASSUME NEW u \in Tasks, Owner[u] = r
      PROVE  OpenSound(u)' /\ (u \notin Late => RecordSound(u)')
  <2>1. task'[u] \notin {"locking", "opened"}
    BY <1>0, <1>1, <1>3, <1>5 DEF RunSound, OpenSound, TypeOK
  <2>2. OpenSound(u)'
    BY <2>1 DEF OpenSound
  <2>3. ASSUME u \notin Late PROVE RecordSound(u)'
    BY <1>0, <1>1, <1>3, <1>5, <2>3 DEF RunSound, RecordSound, TypeOK
  <2> QED
    BY <2>2, <2>3
<1>6. ASSUME NEW c \in Calls, Owner[c] = r
      PROVE  CallSound(c)' /\ PromiseSound(c)'
    BY <1>0, <1>1, <1>2, <1>3, <1>6, CallsKept
<1> QED
    BY <1>2, <1>4, <1>5, <1>6 DEF RunSound

LEMMA SettleSound ==
    ASSUME IInv, NEW t \in Tasks, Settle(t)
    PROVE  RunSound(Owner[t])'
<1> DEFINE r == Owner[t]
           put == [w[r] EXCEPT !.version = @ + 1]
<1>0. r \in Runs /\ RunSound(r) /\ TypeOK
    BY Owned DEF IInv
<1>1. /\ disk' = disk /\ lock' = lock /\ opens' = opens /\ store' = store /\ opened' = opened
      /\ opening' = opening /\ UNCHANGED calls /\ task[t] = "work"
      /\ \E l \in {"done", "failed"} : task' = [task EXCEPT ![t] = l]
    BY DEF Settle, Moves, file
<1>2. (Holds(r)' <=> Holds(r)) /\ (Using(r)' => Using(r))
    BY <1>0, <1>1 DEF Holds, Using, Finished, TypeOK, calls
<1>3. ASSUME NEW u \in Tasks, Owner[u] = r, w'[r] = w[r] \/ store[r] # 0 PROVE OpenSound(u)'
  <2>1. task'[u] \in {"locking", "opened"} => task'[u] = task[u] /\ u # t
    BY <1>0, <1>1 DEF TypeOK
  <2> QED
    BY <1>0, <1>1, <1>2, <1>3, <2>1 DEF RunSound, OpenSound, calls
<1>4. CASE UNCHANGED writer
  <2>1. WriterSound(r)' /\ ContentSound(r)' /\ (Quiet(r)' <=> Quiet(r))
    BY <1>0, <1>1, <1>2, <1>4, StoreKept DEF writer
  <2>2. LockSound(r)'
    BY <1>0, <1>1, <1>2, <2>1 DEF RunSound, LockSound
  <2>3. ASSUME NEW u \in Tasks \ Late, Owner[u] = r PROVE RecordSound(u)'
    <3>1. reported[r] => reported'[r]
      BY <1>0 DEF Settle, TypeOK, OutputTypes
    <3>2. ASSUME NEW c \in Calls, Owner[c] = r
          PROVE  task'[u] # "done" \/ u # t \/ reported'[r]
      <4>1. u = t => store[r] # 0
        BY <1>0, <1>1, <2>3, <3>2 DEF RunSound, RecordSound
      <4>2. u = t /\ task'[t] = "done" =>
                \/ reported'[r]
                \/ w' = [w EXCEPT ![r] = IF t \in Opaque THEN put ELSE Request(put)]
        BY <1>0, <4>1 DEF Settle, Moves, TypeOK, OutputTypes
      <4>3. put # w[r] /\ Request(put) # w[r]
        <5>1. w[r] \in Writers /\ w[r].version + 1 # w[r].version
          BY <1>0, RunTyped
        <5>2. put.version # w[r].version
          BY <5>1 DEF Writers
        <5>3. Request(put).version = put.version
          BY <5>1 DEF Request, Writers
        <5> HIDE DEF put
        <5> QED
          BY <5>2, <5>3
      <4>4. w'[r] = w[r]
        BY <1>4 DEF writer
      <4> HIDE DEF put
      <4> QED
        BY <1>0, <4>2, <4>3, <4>4 DEF TypeOK, WriterTypes
    <3> QED
      BY <1>0, <1>1, <1>4, <2>3, <3>1, <3>2 DEF RunSound, RecordSound, TypeOK, calls, writer
  <2>4. ASSUME NEW c \in Calls, Owner[c] = r PROVE CallSound(c)' /\ PromiseSound(c)'
    BY <1>0, <1>1, <1>2, <1>4, <2>4, CallsKept
  <2> QED
    BY <1>3, <1>4, <2>1, <2>2, <2>3, <2>4 DEF RunSound, writer
<1>5. CASE ~UNCHANGED writer
  <2>1. /\ ~Finished(r) /\ store[r] # 0 /\ task' = [task EXCEPT ![t] = "done"]
        /\ doc'[r] = doc[r] \union {t} /\ flight' = flight /\ reported' = reported
        /\ w' = [w EXCEPT ![r] = IF t \in Opaque THEN put ELSE Request(put)]
    BY <1>0, <1>5 DEF Settle, Moves, writer, TypeOK, WriterTypes
  <2>2. /\ w'[r].version = w[r].version + 1 /\ w'[r].written = w[r].written
        /\ w'[r].attempted = w[r].attempted /\ (w[r].running => w'[r].running)
        /\ w'[r].requested \in {w[r].requested, w[r].version + 1}
    <3>1. w'[r] = put \/ w'[r] = Request(put)
      BY <1>0, <2>1 DEF TypeOK, WriterTypes
    <3> QED
      BY <1>0, <3>1, RunTyped DEF Request, Writers
  <2>3. Holds(r) /\ Holds(r)'
    BY <1>0, <1>1, <1>2, <2>1 DEF RunSound, LockSound, Using
  <2>4. WriterSound(r)'
    BY <1>0, <2>1, <2>2, RunTyped DEF RunSound, WriterSound
  <2>5. ContentSound(r)'
    BY <1>0, <1>1, <2>1, <2>2, <2>3, RunTyped DEF RunSound, WriterSound, ContentSound
  <2>6. LockSound(r)'
    BY <1>0, <1>1, <2>3 DEF RunSound, LockSound
  <2>7. ASSUME NEW u \in Tasks \ Late, Owner[u] = r PROVE RecordSound(u)'
    BY <1>0, <1>1, <2>1, <2>7 DEF RunSound, RecordSound, TypeOK, calls
  <2>8. ASSUME NEW c \in Calls, Owner[c] = r PROVE CallSound(c)' /\ PromiseSound(c)'
    <3>1. pc[c] \notin {"closeFlush", "closeFlushing", "closeRelease", "finalFlush",
                        "finalFlushing", "finalRelease"}
      BY <1>0, <2>1, <2>8 DEF RunSound, CallSound, Finished
    <3>2. CallSound(c)'
      BY <1>0, <1>1, <2>8, <3>1 DEF RunSound, CallSound, calls
    <3>3. PromiseSound(c)'
      BY <1>0, <1>1, <2>1, <2>2, <2>8, <3>1, RunTyped
         DEF RunSound, PromiseSound, calls, TypeOK, CallTypes
    <3> QED
      BY <3>2, <3>3
  <2> QED
    BY <1>3, <2>1, <2>4, <2>5, <2>6, <2>7, <2>8 DEF RunSound
<1> QED
    BY <1>4, <1>5

-----------------------------------------------------------------------------
\* The steps of a writer keep its Run sound.

\* Only the writer has moved: what is left to show of the Run.
LEMMA WriterMoved ==
    ASSUME NEW r \in Runs, TypeOK, RunSound(r), Holds(r)', disk \subseteq disk',
           doc' = doc, opens' = opens, UNCHANGED output, UNCHANGED <<task, calls>>,
           w'[r].version = w[r].version, ~Quiet(r), WriterSound(r)', ContentSound(r)',
           \A c \in Calls : Owner[c] = r => PromiseSound(c)'
    PROVE  RunSound(r)'
<1> USE DEF output, calls
<1>1. (Using(r)' <=> Using(r)) /\ (Finished(r)' <=> Finished(r))
    BY DEF Using, Finished
<1>2. LockSound(r)'
    BY DEF RunSound, LockSound
<1>3. \A t \in Tasks : Owner[t] = r => task[t] # "opened"
    BY DEF RunSound, OpenSound, WriterSound, Quiet, Wanted, Idle
<1>4. ASSUME NEW t \in Tasks, Owner[t] = r
      PROVE  OpenSound(t)' /\ (t \notin Late => RecordSound(t)')
  <2>1. OpenSound(t)'
    BY <1>3, <1>4 DEF RunSound, OpenSound
  <2>2. ASSUME t \notin Late PROVE RecordSound(t)'
    BY <1>4, <2>2 DEF RunSound, RecordSound
  <2> QED
    BY <2>1, <2>2
<1>5. \A c \in Calls : Owner[c] = r => CallSound(c)'
    BY DEF RunSound, CallSound
<1> QED
    BY <1>2, <1>4, <1>5 DEF RunSound

LEMMA WriteBeginSound ==
    ASSUME IInv, NEW r \in Runs, WriteBegin(r)
    PROVE  RunSound(r)'
<1>0. RunSound(r) /\ TypeOK
    BY DEF IInv
<1>1. /\ UNCHANGED <<file, doc, w, output, task, calls>> /\ w[r].running /\ flight[r] = None
      /\ flight'[r] = [version |-> w[r].version, doc |-> doc[r], ok |-> FALSE]
      /\ ~Quiet(r) /\ w[r].written < w[r].requested
    BY <1>0 DEF WriteBegin, TypeOK, WriterTypes, Quiet, Wanted
<1>2. /\ flight'[r].version = w[r].version /\ flight'[r].doc = doc[r] /\ ~flight'[r].ok
    BY <1>1
<1>3. Holds(r) /\ Holds(r)' /\ w[r].written < w[r].version
    BY <1>0, <1>1, RunTyped DEF RunSound, LockSound, Holds, file, output, WriterSound
<1>4. WriterSound(r)'
    BY <1>0, <1>1, <1>2, <1>3, RunTyped DEF RunSound, WriterSound
<1>5. ContentSound(r)'
    BY <1>0, <1>1, <1>2, <1>3 DEF RunSound, ContentSound, file
<1>6. ASSUME NEW c \in Calls, Owner[c] = r PROVE PromiseSound(c)'
    BY <1>0, <1>1, <1>2, <1>6 DEF RunSound, PromiseSound, file, calls
<1> QED
    BY <1>0, <1>1, <1>3, <1>4, <1>5, <1>6, WriterMoved DEF file, output

\* The rename loses nothing, because the Store has the lock.
LEMMA RenameSound ==
    ASSUME IInv, NEW r \in Runs, Rename(r)
    PROVE  RunSound(r)' /\ Holds(r) /\ disk \subseteq disk'
<1>0. RunSound(r) /\ TypeOK
    BY DEF IInv
<1>1. /\ UNCHANGED <<lock, orphans, doc, w, output, task, calls>> /\ flight[r] # None
      /\ disk' = flight[r].doc /\ flight'[r] = [flight[r] EXCEPT !.ok = TRUE] /\ ~Quiet(r)
    BY <1>0 DEF Rename, TypeOK, WriterTypes, Quiet
<1>2. /\ flight'[r].version = flight[r].version /\ flight'[r].doc = flight[r].doc
      /\ flight[r].version \in Nat
    BY <1>0, <1>1, RunTyped DEF Writes
<1>3. Holds(r) /\ Holds(r)' /\ disk \subseteq disk'
    BY <1>0, <1>1 DEF RunSound, LockSound, ContentSound, Holds, output
<1>4. WriterSound(r)'
    BY <1>0, <1>1, <1>2, RunTyped DEF RunSound, WriterSound
<1>5. ContentSound(r)'
    BY <1>0, <1>1, <1>2, <1>3, RunTyped DEF RunSound, WriterSound, ContentSound
<1>6. ASSUME NEW c \in Calls, Owner[c] = r PROVE PromiseSound(c)'
    BY <1>0, <1>1, <1>2, <1>3, <1>6 DEF RunSound, PromiseSound, calls
<1> QED
    BY <1>0, <1>1, <1>3, <1>4, <1>5, <1>6, WriterMoved DEF output

LEMMA WroteSound ==
    ASSUME IInv, NEW r \in Runs, Wrote(r) \/ WriteFails(r)
    PROVE  RunSound(r)'
<1>0. RunSound(r) /\ TypeOK
    BY DEF IInv
<1>1. /\ UNCHANGED <<file, doc, output, task, calls>> /\ flight[r] # None
      /\ flight'[r] = None /\ ~Quiet(r)
    BY <1>0 DEF Wrote, WriteFails, TypeOK, WriterTypes, Quiet
<1>2. /\ w'[r].version = w[r].version /\ w'[r].requested = w[r].requested
      /\ w'[r].attempted = flight[r].version
      /\ \/ w'[r].written = w[r].written
         \/ flight[r].ok /\ w'[r].written = flight[r].version
  <2>1. \/ flight[r].ok /\ w'[r] = [w[r] EXCEPT !.attempted = flight[r].version,
                                  !.written = flight[r].version, !.failed = FALSE]
        \/ w'[r] = [w[r] EXCEPT !.attempted = flight[r].version, !.failed = TRUE]
    BY <1>0 DEF Wrote, WriteFails, TypeOK, WriterTypes
  <2> QED
    BY <1>0, <2>1, RunTyped DEF Writers
<1>3. Holds(r) /\ Holds(r)'
    BY <1>0, <1>1 DEF RunSound, LockSound, Holds, file, output
<1>4. WriterSound(r)'
    BY <1>0, <1>1, <1>2, RunTyped DEF RunSound, WriterSound
<1>5. ContentSound(r)'
    BY <1>0, <1>1, <1>2, <1>3, RunTyped DEF RunSound, ContentSound, file
<1>6. ASSUME NEW c \in Calls, Owner[c] = r PROVE PromiseSound(c)'
    BY <1>0, <1>1, <1>2, <1>6 DEF RunSound, ContentSound, PromiseSound, file, calls
<1> QED
    BY <1>0, <1>1, <1>2, <1>3, <1>4, <1>5, <1>6, WriterMoved DEF file, output

LEMMA WriterStopsSound ==
    ASSUME IInv, NEW r \in Runs, WriterStops(r)
    PROVE  RunSound(r)'
<1>0. RunSound(r) /\ TypeOK
    BY DEF IInv
<1>1. /\ UNCHANGED <<file, doc, flight, output, task, calls>> /\ flight[r] = None
      /\ w[r].running
      /\ w'[r].version = w[r].version /\ w'[r].requested = w[r].requested
      /\ w'[r].attempted = w[r].attempted /\ w'[r].written = w[r].written /\ ~w'[r].running
    BY <1>0, RunTyped DEF WriterStops, TypeOK, WriterTypes, Writers
<1>2. Quiet(r)' /\ (Holds(r)' <=> Holds(r)) /\ (Using(r)' <=> Using(r))
    BY <1>1 DEF Quiet, Holds, Using, Finished, file, output, calls
<1>3. WriterSound(r)'
    BY <1>0, <1>1 DEF RunSound, WriterSound
<1>4. ContentSound(r)'
    BY <1>0, <1>1, <1>2 DEF RunSound, ContentSound, file
<1>5. LockSound(r)'
    BY <1>0, <1>1, <1>2 DEF RunSound, LockSound, output
<1>6. ASSUME NEW t \in Tasks, Owner[t] = r
      PROVE  OpenSound(t)' /\ (t \notin Late => RecordSound(t)')
  <2>1. task[t] # "opened"
    BY <1>0, <1>1, <1>6 DEF RunSound, OpenSound, Idle
  <2>2. OpenSound(t)'
    BY <1>0, <1>1, <1>6, <2>1 DEF RunSound, OpenSound, output
  <2>3. ASSUME t \notin Late PROVE RecordSound(t)'
    BY <1>0, <1>1, <1>6, <2>3 DEF RunSound, RecordSound, file, output, calls
  <2> QED
    BY <2>2, <2>3
<1>7. ASSUME NEW c \in Calls, Owner[c] = r PROVE CallSound(c)' /\ PromiseSound(c)'
    BY <1>0, <1>1, <1>2, <1>7 DEF RunSound, CallSound, PromiseSound, file, output, calls
<1> QED
    BY <1>3, <1>4, <1>5, <1>6, <1>7 DEF RunSound

-----------------------------------------------------------------------------
\* A Run that dies, or is interrupted, stays sound.

LEMMA CancelSound ==
    ASSUME IInv, NEW r \in Runs, OrphanStep(r) \/ Cancel(r)
    PROVE  \A q \in Runs : SameRun(q) /\ (Holds(q)' <=> Holds(q)) /\ disk' = disk
<1>0. TypeOK /\ \A q \in Runs : opens[q] \in Nat
    BY RunTyped DEF IInv
<1>1. \A q \in Runs : SameRun(q) /\ disk' = disk /\ opens' = opens
    BY DEF OrphanStep, OrphanTakes, OrphanDrops, Cancel, SameRun, file, writer, output, calls
<1>2. ASSUME NEW q \in Runs PROVE Holds(q)' <=> Holds(q)
  <2>1. CASE lock' = lock
    BY <1>1, <2>1 DEF Holds
  <2>2. CASE lock' # lock
    <3>1. lock \in {None, <<r, 0>>} /\ lock' \in {None, <<r, 0>>}
      BY <2>2 DEF OrphanStep, OrphanTakes, OrphanDrops, Cancel, file
    <3>2. opens[q] > 0 => <<q, opens[q]>> \notin {None, <<r, 0>>}
      BY <1>0, ManifestAssumption
    <3> QED
      BY <1>1, <3>1, <3>2 DEF Holds
  <2> QED
    BY <2>1, <2>2
<1> QED
    BY <1>1, <1>2

LEMMA CrashSound ==
    ASSUME IInv, NEW r \in Runs, Crash(r)
    PROVE  RunSound(r)'
<1>0. RunSound(r) /\ TypeOK
    BY DEF IInv
<1>1. /\ UNCHANGED <<disk, doc, output>> /\ w'[r] = Idle /\ flight'[r] = None
      /\ \A t \in Tasks : Owner[t] = r => task'[t] = "crashed"
      /\ \A c \in Calls : Owner[c] = r => pc'[c] = "crashed"
    BY <1>0 DEF Crash, TypeOK, WriterTypes
<1>2. ~Holds(r)'
  <2>1. opens' = opens /\ opens[r] \in Nat
    BY <1>0, <1>1, RunTyped DEF output
  <2>2. None # <<r, opens[r]>>
    BY <2>1, ManifestAssumption
  <2>3. lock = <<r, opens[r]>> => lock[1] = r
    OBVIOUS
  <2>4. lock' # <<r, opens[r]>>
    BY <2>2, <2>3 DEF Crash
  <2> QED
    BY <2>1, <2>4 DEF Holds
<1>3. ~Using(r)' /\ Quiet(r)'
    BY <1>1 DEF Using, Quiet, Idle
<1>4. WriterSound(r)' /\ ContentSound(r)'
    BY <1>1, <1>2 DEF WriterSound, ContentSound, Idle
<1>5. LockSound(r)'
    BY <1>0, <1>1, <1>3 DEF RunSound, LockSound, output
<1>6. ASSUME NEW t \in Tasks, Owner[t] = r
      PROVE  OpenSound(t)' /\ (t \notin Late => RecordSound(t)')
    BY <1>1, <1>6 DEF OpenSound, RecordSound
<1>7. ASSUME NEW c \in Calls, Owner[c] = r PROVE CallSound(c)' /\ PromiseSound(c)'
    BY <1>1, <1>7 DEF CallSound, PromiseSound
<1> QED
    BY <1>4, <1>5, <1>6, <1>7 DEF RunSound

-----------------------------------------------------------------------------
\* The steps of Finish and Close keep their Run sound.

\* Only the call has moved, and no Task gained by it.
LEMMA CallMoved ==
    ASSUME EndedOnce, NEW c \in Calls, TypeOK, RunSound(Owner[c]), UNCHANGED <<file, writer, opens>>,
           store' = store, opened' = opened, opening' = opening,
           pc[c] \notin {"done", "crashed"},
           pc'[c] \in {"closeFlush", "closeFlushing", "closeRelease"} =>
                pc[c] \in {"closeFlush", "closeFlushing", "closeRelease"},
           \A t \in Tasks : task'[t] \in {task[t], "failed"},
           CallSound(c)', PromiseSound(c)',
           \A t \in Tasks \ Late : Owner[t] = Owner[c] => RecordSound(t)'
    PROVE  RunSound(Owner[c])'
<1> DEFINE r == Owner[c]
<1> USE DEF file, writer
<1>1. Using(r) /\ (Holds(r)' <=> Holds(r)) /\ r \in Runs
    BY Owned DEF Using, Holds
<1>2. WriterSound(r)' /\ ContentSound(r)' /\ (Quiet(r)' <=> Quiet(r))
    BY <1>1, StoreKept
<1>3. LockSound(r)'
    BY <1>1, <1>2 DEF RunSound, LockSound
<1>4. ASSUME NEW t \in Tasks, Owner[t] = r PROVE OpenSound(t)'
    BY <1>1, <1>4 DEF RunSound, OpenSound, EndedOnce
<1> QED
    BY <1>2, <1>3, <1>4 DEF RunSound, EndedOnce

LEMMA DrainSound ==
    ASSUME EndedOnce, IInv, NEW c \in Calls, Drain(c)
    PROVE  RunSound(Owner[c])'
<1> DEFINE r == Owner[c]
<1>0. r \in Runs /\ RunSound(r) /\ TypeOK
    BY Owned DEF IInv
<1> USE DEF Drain, Goto, file, writer, output
<1>1. /\ pc[c] = "drain" /\ ref'[c] = store[r]
      /\ pc'[c] = IF store[r] = 0 THEN "rest" ELSE "save"
    BY <1>0 DEF TypeOK, CallTypes
<1>2. CallSound(c)' /\ PromiseSound(c)'
    BY <1>1 DEF CallSound, PromiseSound
<1>3. ASSUME NEW t \in Tasks \ Late, Owner[t] = r PROVE RecordSound(t)'
    BY <1>0, <1>1, <1>3 DEF EndedOnce, RunSound, RecordSound, Settled
<1> QED
    BY <1>0, <1>1, <1>2, <1>3, CallMoved

LEMMA FlushOkSound ==
    ASSUME EndedOnce, IInv, NEW c \in Calls, FlushOk(c)
    PROVE  RunSound(Owner[c])'
<1> DEFINE r == Owner[c]
<1>0. r \in Runs /\ RunSound(r) /\ TypeOK
    BY Owned DEF IInv
<1> USE DEF FlushOk, Goto, OnDisk, file, writer, output
<1>1. \/ pc[c] = "saving" /\ pc'[c] = "unset"
      \/ pc[c] = "finalFlushing" /\ pc'[c] = "finalRelease"
      \/ pc[c] = "closeFlushing" /\ pc'[c] = "closeRelease"
    BY <1>0 DEF TypeOK, CallTypes
<1>2. pc[c] # "saving" => Quiet(r)'
  <2>1. pc[c] # "saving" => goal[c] = w[r].version
    BY <1>0, <1>1 DEF RunSound, CallSound
  <2> QED
    BY <1>0, <2>1, RunTyped DEF RunSound, WriterSound, Quiet, Wanted
<1>3. CallSound(c)'
  <2>1. pc[c] = "closeFlushing" => Holds(r)'
    BY <1>0 DEF RunSound, CallSound, Holds
  <2> QED
    BY <1>0, <1>1, <1>2, <2>1 DEF RunSound, CallSound
<1>4. PromiseSound(c)'
    BY <1>0, <1>1 DEF RunSound, PromiseSound
<1>5. ASSUME NEW t \in Tasks \ Late, Owner[t] = r PROVE RecordSound(t)'
    BY <1>0, <1>1, <1>4, <1>5 DEF EndedOnce, RunSound, RecordSound, PromiseSound
<1> QED
    BY <1>0, <1>1, <1>3, <1>4, <1>5, CallMoved

LEMMA FlushFailsSound ==
    ASSUME EndedOnce, IInv, NEW c \in Calls, FlushFails(c)
    PROVE  RunSound(Owner[c])'
<1> DEFINE r == Owner[c]
<1>0. r \in Runs /\ RunSound(r) /\ TypeOK
    BY Owned DEF IInv
<1> USE DEF FlushFails, Told, Goto, file, writer
<1>1. /\ \/ pc[c] = "saving" /\ pc'[c] = "rest"
         \/ pc[c] = "finalFlushing" /\ pc'[c] = "finalRelease"
         \/ pc[c] = "closeFlushing" /\ pc'[c] = "closeRelease"
      /\ promised'[c] = {} /\ reported'[r]
    BY <1>0 DEF TypeOK, CallTypes, OutputTypes
<1>2. pc[c] # "saving" => Quiet(r)'
  <2>1. ~w[r].running /\ flight[r] = None
    BY <1>0 DEF GaveUp, RunSound, WriterSound
  <2> QED
    BY <2>1 DEF Quiet
<1>3. CallSound(c)'
  <2>1. pc[c] = "closeFlushing" => Holds(r)'
    BY <1>0 DEF RunSound, CallSound, Holds
  <2> QED
    BY <1>0, <1>1, <1>2, <2>1 DEF RunSound, CallSound
<1>4. PromiseSound(c)'
    BY <1>1 DEF PromiseSound
<1>5. ASSUME NEW t \in Tasks \ Late, Owner[t] = r PROVE RecordSound(t)'
    BY <1>0, <1>1, <1>5 DEF EndedOnce, RunSound, RecordSound
<1> QED
    BY <1>0, <1>1, <1>3, <1>4, <1>5, CallMoved

LEMMA FinishRestSound ==
    ASSUME EndedOnce, IInv, NEW c \in Calls, FinishRest(c) \/ CloseOutput(c)
    PROVE  RunSound(Owner[c])'
<1> DEFINE r == Owner[c]
<1>0. r \in Runs /\ RunSound(r) /\ TypeOK
    BY Owned DEF IInv
<1> USE DEF FinishRest, CloseOutput, Goto, file, writer, output
<1>1. \/ pc[c] = "rest" /\ pc'[c] \in {"close", "done"}
      \/ /\ pc[c] = "close" /\ ref'[c] = store[r]
         /\ pc'[c] = IF store[r] = 0 THEN "done" ELSE "finalFlush"
    BY <1>0 DEF TypeOK, CallTypes
<1>2. CallSound(c)' /\ PromiseSound(c)'
    BY <1>1 DEF CallSound, PromiseSound
<1>3. \A t \in Tasks : task'[t] \in {task[t], "failed"}
    BY <1>0 DEF TypeOK
<1>4. ASSUME NEW t \in Tasks \ Late, Owner[t] = r PROVE RecordSound(t)'
    BY <1>0, <1>1, <1>3, <1>4 DEF EndedOnce, RunSound, RecordSound
<1> QED
    BY <1>0, <1>1, <1>2, <1>3, <1>4, CallMoved

LEMMA FlushSound ==
    ASSUME EndedOnce, IInv, NEW c \in Calls, Flush(c)
    PROVE  RunSound(Owner[c])'
<1> DEFINE r == Owner[c]
<1>0. r \in Runs /\ RunSound(r) /\ TypeOK
    BY Owned DEF IInv
<1>1. /\ UNCHANGED <<file, doc, flight, output, task, ref>>
      /\ pc[c] \in {"save", "finalFlush", "closeFlush"} /\ goal'[c] = w[r].version
    BY <1>0 DEF Flush, TypeOK, CallTypes
<1>2. Newest(c) /\ promised'[c] = doc[r] /\ Holds(r) /\ Using(r)
  <2>1. Newest(c)
    BY <1>0, <1>1 DEF RunSound, CallSound, LockSound, Newest
  <2>2. Using(r)
    BY <1>1 DEF Using
  <2>3. Holds(r)
    BY <1>0, <1>1, <2>2 DEF RunSound, CallSound, LockSound
  <2>4. promised'[c] = doc[r]
    BY <1>0, <2>1 DEF Flush, TypeOK, CallTypes
  <2> QED
    BY <2>1, <2>2, <2>3, <2>4
<1>3. CASE w[r].written < w[r].version
  <2>1. w' = [w EXCEPT ![r] = Request(Retried(w[r]))]
    BY <1>2, <1>3 DEF Flush
  <2>2. \/ pc[c] = "save" /\ pc'[c] = "saving"
        \/ pc[c] = "finalFlush" /\ pc'[c] = "finalFlushing"
        \/ pc[c] = "closeFlush" /\ pc'[c] = "closeFlushing"
    <3>1. pc' = [pc EXCEPT ![c] = CASE pc[c] = "save" -> "saving"
                         [] pc[c] = "finalFlush" -> "finalFlushing"
                         [] pc[c] = "closeFlush" -> "closeFlushing"]
      BY <1>2, <1>3 DEF Flush, Goto
    <3> QED
      BY <1>0, <1>1, <3>1 DEF TypeOK, CallTypes
  <2>3. /\ w'[r].version = w[r].version /\ w'[r].written = w[r].written /\ w'[r].running
        /\ w'[r].requested = w[r].version
        /\ w'[r].attempted \in {w[r].attempted, w[r].written}
    <3>1. w'[r] = Request(Retried(w[r])) /\ w[r] \in Writers
      BY <1>0, <2>1, RunTyped DEF TypeOK, WriterTypes
    <3> QED
      BY <3>1 DEF Request, Retried, Writers
  <2>4. WriterSound(r)'
    BY <1>0, <1>1, <2>3, RunTyped DEF RunSound, WriterSound
  <2>5. Holds(r)'
    BY <1>1, <1>2 DEF Holds, file, output
  <2>6. ContentSound(r)'
    BY <1>0, <1>1, <1>2, <2>3 DEF RunSound, ContentSound, file
  <2>7. LockSound(r)'
    BY <1>0, <1>1, <2>5 DEF RunSound, LockSound, output
  <2>8. ASSUME NEW t \in Tasks, Owner[t] = r
        PROVE  OpenSound(t)' /\ (t \notin Late => RecordSound(t)')
    <3>1. task[t] # "opened"
      BY <1>0, <1>1, <2>8 DEF RunSound, OpenSound, CallSound
    <3>2. OpenSound(t)'
      BY <1>0, <1>1, <2>8, <3>1 DEF RunSound, OpenSound, output
    <3>3. ASSUME t \notin Late PROVE RecordSound(t)'
      BY <1>0, <1>1, <1>2, <2>2, <2>8, <3>3
         DEF EndedOnce, RunSound, RecordSound, file, output
    <3> QED
      BY <3>2, <3>3
  <2>9. CallSound(c)'
    BY <1>0, <1>1, <2>2, <2>3, <2>5 DEF RunSound, CallSound, output
  <2>10. PromiseSound(c)'
    BY <1>0, <1>1, <1>2, <1>3, <2>2, <2>3, RunTyped DEF RunSound, WriterSound, ContentSound, PromiseSound, file
  <2> QED
    BY <2>4, <2>6, <2>7, <2>8, <2>9, <2>10 DEF RunSound, EndedOnce
<1>4. CASE ~(w[r].written < w[r].version)
  <2>1. w' = w
    BY <1>2, <1>4 DEF Flush
  <2>2. \/ pc[c] = "save" /\ pc'[c] = "unset"
        \/ pc[c] = "finalFlush" /\ pc'[c] = "finalRelease"
        \/ pc[c] = "closeFlush" /\ pc'[c] = "closeRelease"
    <3>1. pc' = [pc EXCEPT ![c] = CASE pc[c] = "save" -> "unset"
                         [] pc[c] = "finalFlush" -> "finalRelease"
                         [] pc[c] = "closeFlush" -> "closeRelease"]
      BY <1>2, <1>4 DEF Flush, Goto
    <3> QED
      BY <1>0, <1>1, <3>1 DEF TypeOK, CallTypes
  <2>3. w[r].written = w[r].version /\ doc[r] \subseteq disk
    BY <1>0, <1>2, <1>4, RunTyped DEF RunSound, WriterSound, ContentSound
  <2>4. Quiet(r)'
    BY <1>0, <1>1, <2>1, <2>3, RunTyped DEF RunSound, WriterSound, Quiet, Wanted
  <2>5. CallSound(c)'
    BY <1>0, <1>1, <2>1, <2>2, <2>4 DEF RunSound, CallSound, Holds, file, output
  <2>6. PromiseSound(c)'
    BY <1>1, <1>2, <2>2, <2>3 DEF PromiseSound, file
  <2>7. ASSUME NEW t \in Tasks \ Late, Owner[t] = r PROVE RecordSound(t)'
    BY <1>0, <1>1, <2>2, <2>3, <2>7 DEF EndedOnce, RunSound, RecordSound, file, output
  <2> QED
    BY <1>0, <1>1, <2>1, <2>2, <2>5, <2>6, <2>7, CallMoved DEF writer, output
<1> QED
    BY <1>3, <1>4

LEMMA UnsetSound ==
    ASSUME EndedOnce, IInv, NEW c \in Calls, Unset(c)
    PROVE  RunSound(Owner[c])'
<1> DEFINE r == Owner[c]
<1>0. r \in Runs /\ RunSound(r) /\ TypeOK
    BY Owned DEF IInv
<1> USE DEF Unset, Goto, file, writer
<1>1. pc[c] = "unset" /\ store[r] = ref[c] /\ store[r] = opens[r] /\ store[r] # 0
    BY <1>0 DEF RunSound, CallSound, LockSound
<1>2. pc'[c] = "closeFlush" /\ store'[r] = 0 /\ opened'[r] = "no"
    BY <1>0, <1>1 DEF TypeOK, CallTypes, OutputTypes
<1>3. Holds(r) /\ Holds(r)'
    BY <1>0, <1>1 DEF RunSound, LockSound, Using, Holds
<1>4. WriterSound(r)' /\ ContentSound(r)' /\ LockSound(r)'
    BY <1>0, <1>2, <1>3, StoreKept DEF LockSound
<1>5. ASSUME NEW t \in Tasks, Owner[t] = r
      PROVE  OpenSound(t)' /\ (t \notin Late => RecordSound(t)')
  <2>1. OpenSound(t)'
    BY <1>0, <1>1, <1>5 DEF RunSound, OpenSound
  <2>2. ASSUME t \notin Late PROVE RecordSound(t)'
    BY <1>0, <1>1, <1>2, <1>5, <2>2 DEF EndedOnce, RunSound, RecordSound
  <2> QED
    BY <2>1, <2>2
<1>6. CallSound(c)' /\ PromiseSound(c)'
    BY <1>0, <1>1, <1>2, <1>3 DEF RunSound, CallSound, PromiseSound
<1> QED
    BY <1>4, <1>5, <1>6 DEF RunSound, EndedOnce

LEMMA ReleaseSound ==
    ASSUME EndedOnce, IInv, NEW c \in Calls, Release(c)
    PROVE  RunSound(Owner[c])'
<1> DEFINE r == Owner[c]
<1>0. r \in Runs /\ RunSound(r) /\ TypeOK
    BY Owned DEF IInv
<1> USE DEF Release, Goto, writer, output
<1>1. /\ \/ pc[c] = "closeRelease" /\ pc'[c] = "rest"
         \/ pc[c] = "finalRelease" /\ pc'[c] = "done"
      /\ Quiet(r) /\ ref[c] = opens[r]
    BY <1>0 DEF RunSound, CallSound, LockSound, TypeOK, CallTypes
<1>2. ~Holds(r)'
  <2>1. None # <<r, opens[r]>>
    BY <1>0, RunTyped, ManifestAssumption
  <2>2. lock' # <<r, opens[r]>>
    BY <1>1, <2>1
  <2> QED
    BY <2>2 DEF Holds
<1>3. WriterSound(r)' /\ ContentSound(r)' /\ Quiet(r)'
    BY <1>0, <1>1, <1>2, StoreKept
<1>4. pc[c] = "closeRelease" => store[r] = 0
    BY <1>0 DEF RunSound, CallSound
<1>5. pc[c] = "finalRelease" => ~Using(r)'
    BY <1>0, <1>1 DEF EndedOnce, Using, Finished
<1>6. LockSound(r)'
    BY <1>0, <1>1, <1>3, <1>4, <1>5 DEF RunSound, LockSound
<1>7. ASSUME NEW t \in Tasks, Owner[t] = r
      PROVE  OpenSound(t)' /\ (t \notin Late => RecordSound(t)')
  <2>1. task[t] # "opened"
    BY <1>0, <1>1, <1>7 DEF RunSound, OpenSound, CallSound
  <2>2. OpenSound(t)'
    BY <1>0, <1>7, <2>1 DEF RunSound, OpenSound
  <2>3. ASSUME t \notin Late PROVE RecordSound(t)'
    BY <1>0, <1>1, <1>7, <2>3 DEF EndedOnce, RunSound, RecordSound
  <2> QED
    BY <2>2, <2>3
<1>8. CallSound(c)' /\ PromiseSound(c)'
    BY <1>1 DEF CallSound, PromiseSound
<1> QED
    BY <1>3, <1>6, <1>7, <1>8 DEF RunSound, EndedOnce

-----------------------------------------------------------------------------
\* A step of one Run leaves the others alone: the lock it takes was free, the
\* lock it gives back was its own, and it writes only with the lock.

LEMMA LocksApart ==
    ASSUME IInv, NEW r \in Runs, NEW q \in Runs, q # r, opens'[q] = opens[q],
           NEW n \in Nat, lock' \in {lock, None, <<r, n>>},
           lock' # lock => lock = None \/ \E m \in Nat : lock = <<r, m>>
    PROVE  Holds(q)' <=> Holds(q)
<1>1. opens[q] \in Nat
    BY RunTyped DEF IInv
<1>2. None # <<q, opens[q]>> /\ \A m \in Nat : <<r, m>> # <<q, opens[q]>>
    BY <1>1, ManifestAssumption
<1> QED
    BY <1>2 DEF Holds

LEMMA TaskLeavesOthers ==
    ASSUME IInv, NEW t \in Tasks, TaskStep(t), NEW q \in Runs, q # Owner[t]
    PROVE  SameRun(q) /\ disk' = disk /\ (Holds(q)' <=> Holds(q))
<1> DEFINE r == Owner[t]
<1>0. r \in Runs /\ RunSound(r) /\ TypeOK
    BY Owned DEF IInv
<1> USE DEF SameRun, Moves, Caches, file, writer, calls
<1>1. CASE ManifestFor(t)
    BY <1>0, <1>1 DEF ManifestFor, Holds, TypeOK, OutputTypes
<1>2. CASE Opens(t)
  <2>1. SameRun(q) /\ disk' = disk
    BY <1>0, <1>2 DEF Opens, TypeOK, WriterTypes, OutputTypes
  <2>2. opens[r] + 1 \in Nat
    BY <1>0, RunTyped
  <2>3. lock = None /\ lock' = <<r, opens[r] + 1>>
    BY <1>2 DEF Opens
  <2>4. Holds(q)' <=> Holds(q)
    BY <1>0, <2>1, <2>2, <2>3, LocksApart
  <2> QED
    BY <2>1, <2>4
<1>3. CASE Lands(t) \/ GivesUp(t)
  <2>1. SameRun(q) /\ disk' = disk
    BY <1>0, <1>3 DEF Lands, GivesUp, TypeOK, OutputTypes
  <2>2. lock' # lock => lock' = None /\ lock = <<r, opens[r]>> /\ opens[r] \in Nat
    BY <1>0, <1>3, RunTyped DEF Lands, GivesUp, RunSound, OpenSound, Holds
  <2>3. Holds(q)' <=> Holds(q)
    BY <1>0, <2>1, <2>2, LocksApart, 0 \in Nat
  <2> QED
    BY <2>1, <2>3
<1>4. CASE Settle(t)
  <2>1. \/ UNCHANGED writer
        \/ \E d, x : doc' = [doc EXCEPT ![r] = d] /\ w' = [w EXCEPT ![r] = x] /\ flight' = flight
    BY <1>4 DEF Settle
  <2>2. doc'[q] = doc[q] /\ w'[q] = w[q] /\ flight'[q] = flight[q]
    BY <1>0, <2>1 DEF TypeOK, WriterTypes
  <2> QED
    BY <1>0, <1>4, <2>2 DEF Settle, Holds, TypeOK, OutputTypes
<1> QED
    BY <1>1, <1>2, <1>3, <1>4 DEF TaskStep

LEMMA RunLeavesOthers ==
    ASSUME IInv, NEW r \in Runs, WriterStep(r) \/ Crash(r), NEW q \in Runs, q # r
    PROVE  SameRun(q) /\ (Rename(r) \/ disk' = disk) /\ (Holds(q)' <=> Holds(q))
<1>0. RunSound(r) /\ TypeOK
    BY DEF IInv
<1> USE DEF SameRun, file, writer, output, calls
<1>1. CASE WriterStep(r)
  <2>1. /\ UNCHANGED <<lock, doc, output, task, calls>> /\ (Rename(r) \/ disk' = disk)
        /\ w' = w \/ \E x : w' = [w EXCEPT ![r] = x]
        /\ flight' = flight \/ \E x : flight' = [flight EXCEPT ![r] = x]
    BY <1>1 DEF WriterStep, WriteBegin, Rename, Wrote, WriteFails, WriterStops
  <2>2. w'[q] = w[q] /\ flight'[q] = flight[q]
    BY <1>0, <2>1 DEF TypeOK, WriterTypes
  <2> QED
    BY <2>1, <2>2 DEF Holds
<1>2. CASE Crash(r)
  <2>1. SameRun(q) /\ disk' = disk
    BY <1>0, <1>2 DEF Crash, TypeOK, WriterTypes, CallTypes
  <2>2. lock' # lock => lock' = None /\ \E m \in Nat : lock = <<r, m>>
    <3>1. lock \in {None} \union (Runs \X (0..MaxOpens))
      BY <1>0 DEF TypeOK, FileTypes
    <3>2. lock # None => \E p \in Runs, m \in 0..MaxOpens : lock = <<p, m>>
      BY <3>1
    <3>3. \A p \in Runs, m \in 0..MaxOpens : m \in Nat /\ <<p, m>>[1] = p
      OBVIOUS
    <3> QED
      BY <1>2, <3>2, <3>3 DEF Crash
  <2>3. Holds(q)' <=> Holds(q)
    BY <1>0, <2>1, <2>2, LocksApart, 0 \in Nat
  <2> QED
    BY <2>1, <2>3
<1> QED
    BY <1>1, <1>2

LEMMA CallLeavesOthers ==
    ASSUME IInv, NEW c \in Calls, CallStep(c), NEW q \in Runs, q # Owner[c]
    PROVE  SameRun(q) /\ disk' = disk /\ (Holds(q)' <=> Holds(q))
<1> DEFINE r == Owner[c]
<1>0. r \in Runs /\ RunSound(r) /\ TypeOK
    BY Owned DEF IInv
<1> USE DEF SameRun, Goto, file, writer, output
<1>1. CASE Drain(c)
    BY <1>0, <1>1 DEF Drain, Holds, TypeOK, CallTypes
<1>2. CASE Flush(c)
  <2>1. /\ UNCHANGED <<file, doc, flight, output, task, ref>>
        /\ \E l : pc' = [pc EXCEPT ![c] = l] /\ \E d : promised' = [promised EXCEPT ![c] = d]
        /\ \E n : goal' = [goal EXCEPT ![c] = n]
        /\ w' = w \/ \E x : w' = [w EXCEPT ![r] = x]
    BY <1>2 DEF Flush
  <2>2. w'[q] = w[q]
    BY <1>0, <2>1 DEF TypeOK, WriterTypes
  <2>3. \A d \in Calls : Owner[d] = q =>
            pc'[d] = pc[d] /\ goal'[d] = goal[d] /\ promised'[d] = promised[d]
    BY <1>0, <2>1 DEF TypeOK, CallTypes
  <2> QED
    BY <2>1, <2>2, <2>3 DEF Holds
<1>3. CASE FlushOk(c)
    BY <1>0, <1>3 DEF FlushOk, Holds, TypeOK, CallTypes
<1>4. CASE FlushFails(c)
    BY <1>0, <1>4 DEF FlushFails, Told, Holds, TypeOK, CallTypes, OutputTypes
<1>5. CASE Unset(c)
    BY <1>0, <1>5 DEF Unset, Holds, TypeOK, CallTypes, OutputTypes
<1>6. CASE Release(c)
  <2>1. SameRun(q) /\ disk' = disk
    BY <1>0, <1>6 DEF Release, TypeOK, CallTypes
  <2>2. lock' # lock => lock' = None /\ lock = <<r, ref[c]>> /\ ref[c] \in Nat
    BY <1>0, <1>6 DEF Release, TypeOK, CallTypes
  <2>3. Holds(q)' <=> Holds(q)
    BY <1>0, <2>1, <2>2, LocksApart, 0 \in Nat
  <2> QED
    BY <2>1, <2>3
<1>7. CASE FinishRest(c)
    BY <1>0, <1>7 DEF FinishRest, Holds, TypeOK, CallTypes
<1>8. CASE CloseOutput(c)
    BY <1>0, <1>8 DEF CloseOutput, Holds, TypeOK, CallTypes
<1> QED
    BY <1>1, <1>2, <1>3, <1>4, <1>5, <1>6, <1>7, <1>8 DEF CallStep

-----------------------------------------------------------------------------
\* The invariant, and what follows from it.

LEMMA InitInv == Init => IInv
<1> SUFFICES ASSUME Init PROVE IInv
    OBVIOUS
<1>1. TypeOK
    BY InitTypeOK
<1>2. ASSUME NEW r \in Runs PROVE RunSound(r)
  <2>1. ~Holds(r) /\ Quiet(r)
    BY <1>2 DEF Init, Holds, Quiet, Idle
  <2>2. WriterSound(r) /\ ContentSound(r)
    BY <1>2, <2>1 DEF Init, WriterSound, ContentSound, Idle
  <2>3. LockSound(r)
    BY <1>2, <2>1 DEF Init, LockSound
  <2>4. \A t \in Tasks : OpenSound(t) /\ RecordSound(t)
    BY DEF Init, OpenSound, RecordSound
  <2>5. \A c \in Calls : CallSound(c) /\ PromiseSound(c)
    BY DEF Init, CallSound, PromiseSound
  <2> QED
    BY <2>2, <2>3, <2>4, <2>5 DEF RunSound
<1> QED
    BY <1>1, <1>2 DEF IInv

LEMMA StepInv ==
    ASSUME EndedOnce, IInv, [Next]_vars
    PROVE  IInv' /\ disk \subseteq disk'
<1>0. TypeOK' /\ \A q \in Runs : RunSound(q)
    BY TypeStep DEF IInv
<1>1. ASSUME NEW t \in Tasks, TaskStep(t) PROVE IInv' /\ disk \subseteq disk'
  <2>1. RunSound(Owner[t])'
    BY <1>1, ManifestForSound, OpensSound, LandsSound, GivesUpSound, SettleSound DEF TaskStep
  <2>2. disk' = disk
    BY <1>1 DEF TaskStep, ManifestFor, Opens, Lands, GivesUp, Settle, file
  <2> QED
    BY <1>0, <1>1, <2>1, <2>2, TaskLeavesOthers, OtherRun DEF IInv
<1>2. ASSUME NEW r \in Runs, WriterStep(r) \/ Crash(r) PROVE IInv' /\ disk \subseteq disk'
  <2>1. RunSound(r)'
    BY <1>2, WriteBeginSound, RenameSound, WroteSound, WriterStopsSound, CrashSound
       DEF WriterStep
  <2>2. disk' = disk \/ (Rename(r) /\ Holds(r) /\ disk \subseteq disk')
    BY <1>2, RenameSound DEF WriterStep, WriteBegin, Wrote, WriteFails, WriterStops, Crash, file
  <2>3. ASSUME NEW q \in Runs, q # r PROVE RunSound(q)'
    <3>1. SameRun(q) /\ (Holds(q)' <=> Holds(q))
      BY <1>2, <2>3, RunLeavesOthers
    <3>2. Holds(q) => disk' = disk
      BY <2>2, <2>3 DEF Holds
    <3> QED
      BY <1>0, <2>2, <3>1, <3>2, OtherRun
  <2> QED
    BY <1>0, <2>1, <2>2, <2>3 DEF IInv
<1>3. ASSUME NEW r \in Runs, OrphanStep(r) \/ Cancel(r) PROVE IInv' /\ disk \subseteq disk'
  <2>1. disk' = disk
    BY <1>3 DEF OrphanStep, OrphanTakes, OrphanDrops, Cancel, file
  <2> QED
    BY <1>0, <1>3, <2>1, CancelSound, OtherRun DEF IInv
<1>4. ASSUME NEW c \in Calls, CallStep(c) PROVE IInv' /\ disk \subseteq disk'
  <2>1. RunSound(Owner[c])'
    BY <1>4, DrainSound, FlushSound, FlushOkSound, FlushFailsSound, UnsetSound, ReleaseSound,
       FinishRestSound DEF CallStep
  <2>2. disk' = disk
    BY <1>4 DEF CallStep, Drain, Flush, FlushOk, FlushFails, Unset, Release, FinishRest,
       CloseOutput, file
  <2> QED
    BY <1>0, <1>4, <2>1, <2>2, CallLeavesOthers, OtherRun DEF IInv
<1>5. ASSUME UNCHANGED vars PROVE IInv' /\ disk \subseteq disk'
  <2>1. disk' = disk /\ \A q \in Runs : SameRun(q) /\ (Holds(q)' <=> Holds(q))
    BY <1>5 DEF vars, file, writer, output, calls, SameRun, Holds
  <2> QED
    BY <1>0, <2>1, OtherRun DEF IInv
<1> QED
    BY <1>1, <1>2, <1>3, <1>4, <1>5 DEF Next

\* The record of every Task that is Done when its Run is over is on disk, or
\* the Run was told that it is not.
LEMMA SavedOrTold == EndedOnce /\ IInv => ReportedIsOnDisk
<1> SUFFICES ASSUME EndedOnce, IInv PROVE ReportedIsOnDisk
    OBVIOUS
<1>1. ASSUME NEW c \in Calls, pc[c] \in {"unset", "closeFlush", "closeRelease"}
      PROVE  promised[c] \subseteq disk
    BY <1>1, Owned DEF IInv, RunSound, PromiseSound
<1>2. ASSUME NEW t \in Tasks \ Late, task[t] = "done",
             \A c \in Calls : Owner[c] = Owner[t] => pc[c] = "done"
      PROVE  t \in disk \/ reported[Owner[t]]
  <2>1. PICK c \in Calls : Owner[c] = Owner[t]
    BY Owned DEF EndedOnce
  <2> QED
    BY <1>2, <2>1, Owned DEF IInv, RunSound, RecordSound
<1> QED
    BY <1>1, <1>2 DEF ReportedIsOnDisk

LEMMA InvHolds == ASSUME EndedOnce PROVE Spec => []IInv
BY InitInv, StepInv, PTL DEF Spec

\* What a nil from Flush promised is on disk, and no Run that is over has lost
\* the record of a Task without a word: with every number of Runs that share
\* the file, of Tasks, failed writes, interrupts and crashes.
THEOREM RecordsSaved == ASSUME EndedOnce PROVE Spec => []ReportedIsOnDisk
<1>1. IInv => ReportedIsOnDisk
    BY SavedOrTold
<1> QED
    BY <1>1, InvHolds, PTL

\* No Run overwrites a record another Run has left in the file.
THEOREM RecordsKept == ASSUME EndedOnce PROVE Spec => NothingLost
<1>1. IInv /\ [Next]_vars => [disk \subseteq disk']_vars
    BY StepInv
<1> QED
    BY <1>1, InvHolds, PTL DEF Spec, NothingLost
=============================================================================
