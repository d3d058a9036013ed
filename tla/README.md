# A specification of evident-output

evident-output (`evo`) is a Go library for command line programs that state what
they did. A program declares *Tasks* (alone, in Groups, in ordered Sequences),
gives them work with `Define`, and the engine runs the work, settles every Task in
exactly one outcome, and derives the exit code from the finished ledger. Work that
changes files goes through `File`, `Exec` and `Patch`, which are skipped when a
manifest proves them current, and through `publish`, which swaps trees into place.
This directory models the parts of it in which order, concurrency, crashes and
failure decide what the ledger says and what is left on disk.

## 1. Inventory

Everything below is under `internal/` unless a path says otherwise. `PROJECT.json`
lists every part with its files and what its models leave out.

| part | state | operations | talks to | module |
|---|---|---|---|---|
| Task scheduler (`engine/execution.go`, `eligibility.go`, `settle.go`, `sched_queue.go`) | per Task: state, phase, predecessors left, dependents; per run: ready queue, parked count, `inflight`, `executing`, `wg`, `draining`, `cancelled` | `Define` (submitWork), `kick`, `takeEligible`, `claimLocked`, `placeLocked`, `settleLocked`, `finishClaimed`, `drainScheduler` | everything below, under one mutex `o.mu` | `Scheduler` |
| Wait, stall, cycles (`wait.go`, `wait_inputs.go`, `stall.go`, `cycle.go`) | parked tickets, per goroutine callback depth | `Wait`: seal inputs, run awaited work on the waiting goroutine, park; `resolveStall`: seal, block cycles, release waits, abandon | scheduler | `Scheduler` |
| Resolution (`task_resolve.go`, `task_commit.go`, `task_annotate.go`) | outcome, Problems, proposal, callback error of a Task | `Fail`, `Block`, `Cancel`, `Skipped`, the scheduled verdict, `Problem`, `Doing` | scheduler, manifest | `Scheduler`, `Operations` |
| Declarations, Sequences, Groups (`declare.go`, `sequence.go`, `group.go`, `siblings.go`) | declaration order, step edges, `stoppedAfter` | declare a Task, a step, a container; stop the followers of a failed step | scheduler | `Scheduler`, `Membership` |
| Collections and builders (`collection_tally.go`, `builder.go`, `container_wait.go`) | tallies by declaration cursor, seals, holds | member declared or settled, seal, park on a collection | scheduler, Wait | `Membership` |
| Interrupt and Run (`interrupt.go`, `run.go`, `run_signal.go`) | `cancelled`, signals caught, pending Confirm gates | first and second signal, cancel active rows, abandon the queue | scheduler, Confirm, Finish | `Scheduler`, `Confirm`, `Conclude` |
| Finish and Close (`finish.go`, `output_lifecycle.go`) | `finishing`, `finished`, `closed` | drain, sweep unresolved rows, conclude, flush, tear down | all | `Scheduler`, `Conclude`, `Manifest` |
| Conclusion (`core/conclusion.go`) | none | infer the headline and exit code from a snapshot | Finish | `Conclude` |
| Resource registry (`resource/registry.go`, `engine/resource.go`, `claim_owners.go`) | held and queued claims of the process; who holds one | `HoldResource`: refuse nesting, admit, wait, run, release or abandon, regrant; refuse Wait under a claim | File, Effect, Basis work; contexts; Wait | `Registry`, `HeldWait` |
| Files, effects, processes (`engine/file*.go`, `files.go`, `exec*.go`, `patch*.go`, `freshness*.go`, `basis_observe.go`, `verify.go`) | claimed outputs, output gates, observed Bases, records of the Run | claim, await, observe, consult, skip or do, verify, record, commit | registry, manifest, file system, child processes | `Operations` |
| Manifest store (`manifest/`, `engine/manifest_open.go`) | document, write versions, file lock | open, commit, stage, flush, background writer, close | Finish, other Runs | `Manifest` |
| Publish (`publish/`) | staged trees, leases, claim table, lock files | stage, commit (swap), remove, recover; Lock, TryLock, Release | file system, other processes | `Publish`, `PathLocks` |
| Confirm (`engine/confirm.go`) | gates, abort channels, one reader per call | prompt, read, answer, abort, resolve | standard input, Interrupt, live region | `Confirm` |
| Live region (`engine/live*.go`, `suspend.go`) | frames, animator, committed rows | signal, tick, paint, commit a row, suspend, finish | reads the ledger | `Live` |
| Indexes of a frame (`child_index.go`, `child_counts.go`, `live_census.go`, `position_set.go`) | filings, counters, heaps, a tree of words | mark, refile, read; add, remove, next | live region | `ChildIndex`, `PositionSet` |
| Computed (`engine/computed.go`) | a producer's value | `Get` after a proved order | scheduler | – |
| Other presentation (`engine/plain*.go`, `capture.go`, `debug*.go`, `journal.go`, `snapshot.go`, `render/`, `text/`, `wire/`) | buffers, journal | render, project, serialise | reads the ledger | – |
| Checksum, fingerprint, patch text, download, extract, find | files | sequential I/O | publish, Files | – |
| Agent review and rules, MCP server, CLI, eval, tools, examples | – | static analysis and clients of the library | – | – |

What is hard here:

* **one row, many authors**: the callback's return, a panic, the program's verbs, an
  interrupt, a cascade from a predecessor, a stall and Finish all race to settle a
  Task; the first must win, and nothing green may stand over evidence of failure;
* **work that never runs** must still release the drain, its dependents, its
  waiters, and be told apart from work that succeeded;
* **waiting**: a waiter runs other work on its own stack, so slots, depth and
  "is anything still moving" have to be counted exactly; wrongly high hangs the run,
  wrongly low accuses a healthy one of deadlock;
* **ordering between critical sections**: `finishClaimed`, `executeWork`,
  `cancelActive`, `Finish`, `Wait`, `saveManifest`, `paint` and `Confirm` each take
  their lock several times;
* **what was observed before and is used after**: a Basis and the work done on it, a
  frame taken and painted, a patch source read and written, a row read and reported;
* **fairness of claims**: the registry's single pass over the queue skips waiters on
  purpose, which is right only while every waiter it skips is still blocked;
* **crashes** between the renames of a tree commit, between work and its record, with a
  lock file left behind; **failing** renames, writes, opens and rollbacks;
* **incremental bookkeeping**: tallies, indexes and bit trees that must say what a full
  reading would.

The `hazards` of `PROJECT.json` give the line at which each one bites and the
properties that would notice.

## 2. Plan

1. `Registry`, `Scheduler`, and their proofs. **Done**.
2. `Publish` and `PathLocks` with crashes, `PathLocks` shown to implement `Claims`;
   `Manifest`; `Confirm`; `Live`. **Done**, with proofs.
3. `HeldWait`, `Membership`, `ChildIndex`, `PositionSet` shown to implement
   `Positions`, `Conclude`. **Done**, with proofs of `Conclude`, `HeldWait` and `Membership`.
4. `Operations` over several Runs. **Done**, with a proof of its properties.
5. Next, in this order: proofs of `ReadsAsWalk` in `ChildIndex` and that
   `PositionSet` implements `Positions`; an abstract `TaskLedger` (every row: open,
   then one outcome for good) that `Scheduler` implements; `Scheduler` over `Membership`'s edges instead of Tasks'.

## 3. Modules

Modules are written so that a part can be read alone: one action per critical section
or system call, constants for the program that uses the part. An operator whose
comment starts with "Fault" is a plausible bug in the definition after it and belongs
to no specification.

A run may combine parts that do not share state: `MCClaims`, `MCFiles`, `MCManifest` (with
`Confirm`), `MCCollections` (with the live region of `MCLive`) and `MCRunEnds` have a variable
`part` that says which of the parts a behaviour drives, while the variables of the others keep
their initial values. So one run shows the properties of each part on its own behaviours; nothing
is claimed of their product. In `MCWaits` the parts are two programs of one scheduler.

### Registry

One call of `HoldResource` is a hold `h`; `pc[h]` is where its goroutine stands.
`held` and `queue` are `r.held` and `r.queue`; since the code only appends and
filters, the queue is kept as a set with arrival numbers. The critical sections:

| action | code |
|---|---|
| `HoldResource(h, p)` | `CheckFree` on the context of hold `p`, `Resolve`, `ctx.Err` |
| `AdmitLocked` | `admitLocked` |
| `Enter`, `GiveUp` | the two arms of `acquire`'s select |
| `Return` | the callback returns or panics |
| `Release`, `Abandon` | `release`, `abandon` up to the scan |
| `Regrant` | one iteration of `regrantLocked`, with its skip and its early stop |
| `Unlock` | the scan is over |

A context outlives its callback and may be used from another goroutine, so a call can
be made with the context of a hold that is about to release, or already did.
Abstracted: keys are members of a set with a containment relation instead of resolved
paths and URLs; `onContended` and the work itself.

### HeldWait

Who may Wait while a claim is held. Goroutines run callbacks built from any steps:
spawn and join, Define (`kick` starts a worker from the calling goroutine), claim
through the context, Wait. `CheckFree` reads the context; `holdsClaim` reads the
caller's own stack and the claims of the goroutine that started it. `Habit` names what
a callback does beyond structured use; each of its three members breaks `NoDeadlock`,
so the run uses none and the promise holds for structured programs only.

### Scheduler

A Task is its declaration number. `state` and `phase` are the row's outcome and the
scheduler's phase; `preds` shrinks as predecessors succeed, as in
`predsOutcomeLocked`, while `after` remembers every predecessor for the properties.
`parkedOn` inverts the `dependents` lists. `run[t]` says how far the goroutine running
`t`'s callback is: in it (`body`), returned, about to resolve, about to stop followers,
in the deferred tail. `waiting[w]` does the same for a goroutine inside `Wait`;
a waiter is a goroutine of the program (`Callers`) or a callback (its Task).

Every critical section of `o.mu` starts with one action. What it settles may wake
other Tasks, and those others: `todo` holds the wakes and the rest of the loops
(`place`, `stop`) this critical section still owes, one step takes one of them, and no
other critical section starts before `todo` is empty. This keeps the code's rule that
settles cascade before the lock is free, without a recursive operator.

`kick` runs outside the lock, again and again: `takes` counts the kicks that are in
their `takeEligible` loop, `stalls` those about to call `resolveStall`. A kick may run
concurrently with what its goroutine does next; the code runs it first, so the model
allows more orders than the code has, and forgets none.

| model | code |
|---|---|
| `DeclareTask`, `After`, `Problem`, `Doing`, `Define`, `CallerResolve` | the program's calls, from its goroutines and from callbacks |
| `TakeEligible`, `Returns`, `Panics`, `Observe`, `ResolveObserved`, `FailFollowers`, `FinishClaimed` | a callback from claim to tail, `executeWork` split at each unlock |
| `WaitBegin`, `ClaimAwaited`, `CheckStalled`, `ClaimAny`, `Park`, `EndWait`, `AbortWait`, `ReportWait` | `TaskHandle.Wait`, split likewise |
| `EndKick`, `BlockCycles`, `ReleaseWaits` | `resolveStall` |
| `Interrupt`, `CancelActive`, `CancelNext`, `AbandonQueued` | `interrupt` |
| `FinishBegin`, `Drained`, `SweepBegin`, `SweepTask`, `SweepEnd` | `Finish` |

Left out or widened, with the reason:

* Predecessors are Tasks; `Membership` has the edges on collections. Steps 1 and 4 of
  `resolveStall` act only on collections; `NothingStranded` checks that over Tasks
  there is indeed nothing left for them.
* `After` order: which pending predecessor a Task parks on depends on the order of
  the calls; every order is allowed. Likewise `FoundCycles` allows each set of cycles
  the depth-first walk could list, without the walk.
* Waiters are goroutines no callback started, so `spawnedWaitsLocked` is empty.
* Declaring a Task inside a callback is refused by the code, so `DeclareTask` needs an
  open run when `Joined`.
* Warnings, effects and sealed progress, which also earn a row Done at Finish, behave
  like a Problem or a Skipped proposal there and are represented by these two.
* One Finish. What Run adds, a second signal and a dry run are in `Conclude`, a pending
  gate in `Confirm`. The interrupt runs on Run's goroutine and ends before Finish begins.

Constants describe the program: `Links`, `Waitings`, `Verbs`, `Noted`, `Narrated` are
the calls it *may* make, in any order and number that the guards allow; it need not
make any. The links of the runs give no Task two predecessors; that the last of several
decides is the theorem `OrderKept`. `Joined` says that it calls Finish only after its own goroutines are done,
as a program that waits for them does.

### Membership

`tally[c]` is `collectionTally`: the settled prefix, the first failure, the seal, who is
parked at a cursor or on the open list, the holds of pending builders. `After`, `Submit`
and `DeclareMember` are the program's calls; `Work` is a step of a member, a builder
or a child; `Drain` is Finish. `ReadInFull` is what a walk over all members would give:
it is the yardstick of `NobodyForgotten`, which relates every parked dependent to it.
`owed` remembers the members a dependent's After named. Nested collections (`Up`) pass
declarations, settles, seals and holds upwards as the code does.

### ChildIndex, PositionSet, Positions

`ChildIndex` is the index of one collection: `view` is the truth, `filing` what each
Task was filed as, `dirty` the marked ones, `idx` the counters, sets, heaps of stamps
and folded dispositions, `census` what every transition moves. `Paint` reads it. The
heaps keep stale entries until they surface, as in the code.

`PositionSet` is the tree of words under the index, with words of `W` bits; `levels`
grow when a position needs it. `Positions` is a set with the same three calls, and
`ImplementsSet` states that every behaviour of the tree is one of the set, the members
being the bits of the lowest level.

### Conclude

The ledger is a tree of rows and groups; `Settle` is any path that ends a row.
`InferConclusion` with its modifiers, `FoldLeftoverMisuse`, `settleUnresolvedTasksLocked`
and the verdict of nested groups are operators; `RunStep` goes through `Run`: the callback
returns, errs or is unwound by Goexit, the signal's cancellation in two critical sections,
Finish, Close, the result. A scene fixes the ledger and what may happen in it. Left out are groups
with builders (`Verdict` has not the cases of `snapshot.go:127-133`), which are in `Membership`, and a pending
Confirm gate (`Interrupted` has not the early return of `interrupt.go:69-72`), which is in `Confirm`.

### Publish

`dest` and `beside` are the file system: the destination and the staging names beside it.
A process stages, takes the lock, moves, verifies, rolls back, releases, and deletes
what it owes outside the lock, one system call per action, with the exchange of two
names where the platform has it. `Crash` may come between any two; `RenameFails` and its
like spend `MaxFaults`. Deletion of a tree is two steps (`Tear`, `Vanish`), and it happens in the
directory that was opened, not at a name: when a Recover renames a tree back which somebody is deleting,
`follows` says where that tree is now, for each process that had it open by then (`Restore` chooses which, and
all of them have when the tree is torn already), and `TearMoved` goes on there. Later renames and exchanges
carry an open directory along (`Carries`). `Recover` inspects under the lock and decides by digests
and leases only. The destination's lock is a mutex here; how it is made is `PathLocks`.

### PathLocks, Claims

One Lock or TryLock with its Release is an actor. A claim goes through the table of its
process (`claimed`), then through lock files, outermost first: open or create, `flock`
without blocking, compare the inode with what is at the path, retry or poll. Release
unlinks its own file before unlocking it, and probes each ancestor's. `Crash` drops a process's
locks and table and leaves its files. `Claims` is what all of it promises: a
claim is granted only when no overlapping one is held. `ImplementsClaims` is
`Claims!Spec` under the mapping that takes whoever holds every lock as a holder. A claim
has a path of its own on every level, and at least one: nobody claims the root of the
file system.

### Manifest

`disk` is the document as a set of records; a rename publishes one whole. Each Run has a
Store with its background writer (`w`, `flight`), Flush and Close are calls that wait for a
version, `lock` is the `flock` between Runs, and `orphans` are the goroutines a cancelled
open leaves behind. `TaskStep` is what the engine does: open lazily, commit on Done;
`CallStep` is Finish (`saveManifest`) and Close, in their several critical sections.

### Operations

A Run's Tasks issue operations in order. Contents are terms that tell what wrote them: two
contents have one digest exactly when they are the same term.

| action | code |
|---|---|
| `ObserveWatched`, `BasisVerdict` | `observeTaskBasis` input by input, `basisIsCurrent` |
| `ClaimOutputs` | `claimExecOutputs`, `claimManifestOutputLocked`, with the unwinding |
| `Await`, `Observe` | `awaitOutputBarrier` (Exec), `observeBasis` path by path |
| `Derive`, `Hold` | `deriveFile`; `establishFile` with `revalidate` |
| `SkipCurrent`, `Plan`, `Establish`, `FileFails` | `commitFile`, `applyFile`; `execEvaluate` |
| `Spawn`, `ChildEnds`, `ChildFails`, `Verify` | `spawnExec` to `verifiedExecOutputs`; outputs are torn while the child runs |
| `SettleDone`, `CallbackFails` | `runDefine` returns; `commitManifestTaskLocked` |
| `Begin`, `Finish`, `Save`, `ProcessEnds`, `Edit` | Runs; the writer; the world outside |

The records are matched by ordinal, as in `Store.Operation`. A diff only inserts, so it
applies to its own result and only `taskLastLeft` can tell; scenes with `rivals` have Files
of another Output rewrite a path under the claim. The scenes keep to these bounds, outside
of which the code does otherwise than a reader would hope (sections 5 and 6): Tasks of which one
reads what the other makes are ordered; rivals write paths no File of the program
re-establishes; contents from outside are always new; a callback of a Task with a
Basis does not swallow an error. Not modelled: mode-only Files, Verify functions, a diff over
several files, `ApplyPatch`.

### Live

`model` is the ledger as far as a frame shows it, `live` the region: the frame on screen,
the newest sequence number painted, `visible`, `pendingRedraw`, the animator goroutines
with the frames they took and have not yet painted. Worker calls (`Start`, `Progress`,
`Settle`, `PrintLine`, `Confirm`, `Finish`) paint under the mutex; `Tick` takes a frame under
it and `Paint` writes it without. A forced signal paints at once or, where the budget of forced paints
may be spent (`Spends`: more Tasks than `forcedRenderRowsPerInterval`, or several within one frame
interval), may be coalesced (`Signals`). `missed` is a history variable: the last frame written was older
than a change whose pending repaint it cleared.

### Confirm

Concurrent gates: declared, registered, prompting, reading, answered, aborted, resolved,
finished. `stdin` is a sequence of lines; a reader takes one line from a terminal and
everything there is from a pipe. `Interrupt` goes through `cancelActive` and
`abandonQueuedWork` in their own critical sections.

## 4. What the runs check

| run | program | shows |
|---|---|---|
| `claims` | 3 calls of `HoldResource` on a directory and a file in it, reads and writes, every nesting and cancellation; beside it 4 goroutines and 2 Tasks around one resource | grants are compatible and in turn (`GrantsSound`); every waiter in the queue is blocked; nothing leaks; a caller whose callbacks return is served, a cancelled one leaves (`ClaimsServed`); structured callbacks never wait for each other in a circle (`NoDeadlock`) |
| `sched_sequence` | 3 steps, 2 slots, the first perhaps after itself; verbs, a Problem, errors, panics, a signal | followers of a failed step are stopped at once; green rows are earned; the closed ledger is complete; Wait tells the truth; nothing starts after the interrupt |
| `sched_waits` | 1 slot; 3 Tasks, any part of a cycle of After and of two nested Waits; or 2 Tasks in a cycle that also Wait for each other, with a signal at any time | nothing starts before its predecessors succeeded; nothing is left for the collection steps of `resolveStall`; no healthy run is called deadlocked; `wg`, `executing` and `inflight` count exactly (`CountsAgree`); every Wait and Finish returns |
| `files` | publication: two tree commits, a file commit, a Remove and two Recovers, in four casts, 2 failing renames and a crash; operations: four programs of two Tasks over three Runs, 2 edits from outside | the original survives somewhere, what verification rejected is not left in place, a Recover that settled left a planned tree and no leftover of one, a deletion that followed the tree apart (`RecoveryComplete`); a barrier always opens; nothing stale is taken for current (`NoFalseSatisfaction`), a second Run does nothing (`SecondRunQuiet`), content nobody observed is not overwritten (`NeverOverwritten`) |
| `manifest` | two Runs on one workspace, three Tasks (one opaque and late), 2 failing writes, a crash, a cancelled open; two concurrent gates on a terminal or a pipe, a worker, a signal | what Flush reported is on disk and Close reports what is not; no record of a settled Task is lost; everyone ends (`EveryRunEnds`); a gate ends as it was answered (`EndsAsAnswered`); a gate whose abort channel was closed returns though nobody answers (`AbortReleases`) |
| `collections` | nested collections with 2 or 3 members, seals and builders, one or two dependents and a Wait; the index of three Tasks, two of which may be items, in a region of one row; positions 0, 1, 2, 5, 8, 13 in words of 2 bits; the region armed with a delay and children, with a Confirm in it, or with changes beyond the budget | nobody is forgotten, nobody starts early, every dependent ends; a frame reads what a walk would (`ReadsAsWalk`); the tree of words implements a set; no row is shown twice; the region catches up with the ledger (`CatchesUp`) |
| `run_ends` | a group in a group, a Sequence planned by a dry run, a run signalled twice; path locks on a directory, an entry, the same entry in a second process, a `TryLock` of its sibling in a third, with one failing open and one crash | the exit code tells the worst row and is never falsely clean (`ExitCodeHonest`); forgetting a verb costs nothing (`ForgottenIsFree`); Run returns (`EveryRunReturns`); the lock files implement `Claims`; every `Lock` returns |
| `sched_lost_stall`, `sched_starved`, `files_dry`, `files_whole`, `live_stale` | | section 5 |

Bounds. Two conflicting kinds of keys cover every short cut of the registry's scan
together with three claims: a releaser, a kept writer on its key, and a claim that
overlaps only one of them; the proofs cover every number. Three Tasks are the smallest
number with a chain, a cycle beside a waiter and a step with a follower and a
predecessor; one or two slots put the ceiling in reach. A cast of publishers is two
commits with or without a Remove, or a commit and up to two Recovers: the lock admits one at a
time, and what matters is what each leaves for the next. Four staging names are one more than a cast uses at once. Three
Runs are a first, a Run that trusts its records and a third that trusts what the
second one kept; a program has the operations that one hazard needs (an output that is
the next one's input, two outputs of one Task, an input that is patched in between, two
writers of one path). In `run_ends` two levels of claims and three processes cover an
ancestor held, an ancestor probed and a lock file unlinked between open and `flock`. The
positions of `collections` make the tree grow to four levels; its three Tasks on one row put two items
out of declaration order and leave Tasks of every rank beside the one that is kept. Two bounds there keep the index
small (`IndexNext`): a frame comes at the latest after two marked Tasks once all three are declared, and only the third
Task is warned then. `MaxFaults`, `MaxCrashes`, `MaxEdits`, `MaxOpens`, `MaxFails`,
`MaxCancels`, `MaxErrors`, `MaxRev`, `MaxPrints`, `MaxFrames`, `MaxPaints`, `MaxLines`, `MaxRuns` and `MaxNames` are bounds of the
models and not of the code. No state constraint and no symmetry is used.

Fairness is always weak, and only on steps that a goroutine of the engine is ready to
take; the Go scheduler runs every runnable goroutine, and a Go mutex does not starve.

* `Scheduler`: weak fairness of `Runtime`, the engine's own steps plus two things it must
  count on the program for: a callback ends, and Finish is called. No step of `Runtime`
  can be taken forever (each moves a Task, a waiter, a kick or Finish forward), so the
  disjunction gives every goroutine its turn. The program's calls have none: it may stop.
* `Registry` in `MCClaims`: each hold's own steps, and the return of its callback for the part in
  which callbacks return; the part `stuck` has no such fairness.
* `PathLocks`: each actor's next step; a crashed process has none. A polling `flock`
  succeeds when it is tried often enough, which the fairness of `Take` covers
  because other processes release for good.
* `Manifest`: each Task, writer, orphan and call. `Live`: the delay's timer, each
  animator's tick and each paint. `Confirm`: each gate's steps, the reader (somebody
  answers, or standard input ends) and the interrupt; the signal itself is not fair.
* `Membership`: the members' work, the drain, each dependent's start. `Conclude`: Run's
  own steps, the callback's return and the ending of running work.
* `Publish`, `Operations`, `HeldWait`, `ChildIndex` and `PositionSet` have none and no
  liveness property.

`CHECK_DEADLOCK FALSE` stands where the system really stops: all is published, all Runs are
over, no call is left. In `claims` and the two passing runs of the scheduler deadlock is
checked; there a state without a successor other than "all is over" is an error.

Every module has a type invariant. Those of `Registry`, `Scheduler`, `PathLocks`,
`Manifest`, `Publish`, `Conclude` and `Live` are proved, and of `Operations` the part its
proofs use; the others hold on the instances
above (TLC was asked), and no run lists them.

Each property is also shown to be able to fail. An operator whose comment starts with
"Fault" is put in the place of the definition `PROJECT.json` pairs it with; TLC then
reports the property violated on the same instance.

## 5. What the code does otherwise than it says

Five runs state what a comment or a document promises, and TLC shows the code breaking it.

* `sched_lost_stall`. Two callers wait, for Tasks 1 and 2; Task 2 comes after itself,
  so only `resolveStall` can end its Wait. The last kick finds Task 1 already settled
  while its waiter has not woken yet and leaves the stall alone. The waiter wakes and
  removes its ticket; `endWait` (`wait.go:38`) kicks nobody. The second Wait never returns,
  although the comment of `resolveStall` (`stall.go:7-10`) rules out exactly this.
* `sched_starved`. Two slots, steps 3 and 4 of a Sequence, a callback (2) that Waits for 4 and one (1)
  that Waits for 2. 3 and 2 run; 2 finds 4 queued behind 3 and parks. 3 ends, 4 becomes eligible, but its
  free slot goes to 1, which Waits for 2. Both slots are now under parked callbacks: a parked
  waiter never looks at the queue again, and the one that could still donate its slot is refused
  (`wait.go:78`). `releaseWaitsLocked` finds nothing startable without a free slot and ends both Waits
  with `ErrWaitDeadlock`, against `stall.go:140-142`, `wait.go:49-50` and `docs/contract.md:1180`,
  although 4 was ready to run.
* `files_dry`. A dry Run of an Exec whose Task has a Basis plans the Exec, settles the Task and
  commits the Basis record with no operations (`freshness_task.go:94`). The next real
  Run takes the Task for already satisfied; its callback never ran.
  `spec-adversarially-reviewed.md:849`, `file_reconcile.go:149-150` and `docs/contract.md:584` exclude it.
* `files_whole`. Remove renames its victim to a staging name, takes no lease on it, and deletes it after the
  lock is released (`publish/commit.go:230`). A Recover finds the destination gone and that entry unleased and still
  whole, renames it back and reports `RestoredOriginal`; the deletion has the directory open and goes on
  in it (`publish/removeall.go:13`). The destination becomes half a tree, against `publish/stage.go:220` and
  `publish/recover.go:76-77`. This is why `RecoveryComplete` excepts a tree that a deletion followed.
* `live_stale`. More rows change than the budget of forced paints covers. One settle is coalesced before the animator takes a
  frame, the last one after it; painting that frame clears `pendingRedraw` (`live_paint.go:101`), and the next tick finds
  no unresolved row and nothing pending and stops the animator: the region stays older than the run, against
  `live.go:422-423`. This is why `CatchesUp` excepts a change that was missed so.

Other disagreements between code and text met while modelling. The models follow the
code; no run is kept for these, and the scenes of section 4 avoid some of them, as noted.
All files are in `internal/engine` unless a path says otherwise.

Scheduling and waiting:

* `executeWork` and `cancelActive` look at a row under the lock and resolve it under a
  later one. When the other settles it first, the second is recorded as misuse
  (`ErrAlreadyResolved`, `execution.go:186`), which the comment at 183-186 excludes.
* With A after B, B after A, A after C, C after B, the walk lists the cycle of A and B only: C cascades
  to NotStarted although it is in a cycle too, against `cycle.go:131-132`.
* Between the drain and `finishing = true` (`finish.go:15`) another goroutine may still
  Define. The sweep settles that Task Incomplete unrun, and Wait answers nil, against
  `wait.go:181-183`. The runs of the scheduler have `Joined` programs.
* With one slot a waiting callback's goroutine takes on work its awaited Task comes after
  (`wait.go:132`). When that hosted callback waits for a Task that only the goroutine below it can
  let finish, both Waits end with `ErrWaitDeadlock` although the program declared no circle, against
  `wait.go:49-50` and `docs/contract.md:1175`. In `sched_waits`, `NoFalseDeadlock` counts what a stack
  hosts as waiting for each other.
* An After that names a populated collection while a builder under it is pending keeps no cursor
  (`eligibility.go:75`); if an earlier edge had sealed the collection, the dependent starts without the
  members declared since, the builder's children included (against `collection_tally.go:15`, `:40`).
* The release of a builder on an already sealed Group places nobody until the run drains
  (`collection_tally.go:106`), against `collection_tally.go:158` and `builder.go:183`: a Wait on the
  still empty Group sealed it (`container_wait.go:32`), then Define gave it the builder, and a
  dependent that parks meanwhile stays on the open list. The scenes of `collections` and
  the theorems about `NobodyForgotten` (section 6) exclude a Wait before the builder concludes.
* An edge already closed at its cursor is read as open while a builder given later to a nested
  collection is pending (`edgeCursorLocked`).

Claims under a context:

* `kick` starts a Task's goroutine from whichever goroutine called it (`execution.go:68`), so a Task
  defined by a claim holder is refused its Waits while that unrelated claim lasts and not
  afterwards; `resource.go:83` says that "the outcome never depends on timing".
* `holdsClaim` also refuses a Wait when the goroutine that started the caller holds a claim
  (`frame_marker.go:117`), although `resource.go:185` says that such a goroutine "is not caught".

Publishing and locks:

* Where the OS does not exchange names, `moveTree` moves the old entry to a name no lease covers
  (`publish/commit.go:189`); a Recover deletes it beside Commit, against `publish/recover.go:76-77` and
  `publish/commit.go:98`.
* A release that probes an ancestor holds its `flock` for a moment
  (`publish/lock_unix.go:211`), so a `TryLock` of a sibling can fail although nobody claims an
  overlapping path (`publish/lock.go:18-19`, `:47`).

Manifest:

* A Task that its caller settles between `saveManifest` and the end of Finish is dropped
  without a word (`file_manifest.go:92`; `task_commit.go:38`, `file_manifest.go:118`).
* Close beside a Finish releases the lock twice and warns falsely
  (`file_manifest.go:140`; `manifest/lock_unix.go:55`).
* Two calls that end one Run lose records of another Run: the first call's Close releases
  the lock even when its Flush failed, and the second call's Flush then writes the old
  document without the lock (`manifest/store.go:14`, "exclusive handle"). The proofs
  of `Manifest` therefore assume that one call ends each Run (`EndedOnce`).

Files, Exec and Patch:

* A dry Run stages an opaque record over a precise one, and appends no current operation, so its second
  Exec consults the record of the first (`exec.go:166`); records are matched by ordinal, not by identity.
* An Exec whose Basis names its own Output, or two that name each other's, await gates that
  only they open, until cancelled (`exec_manifest.go:32`).
* The Basis of a File or of a Task awaits no barrier, and an Exec awaits once, before it
  observes. A producer that is not ordered before is read while it writes
  (`exec_manifest.go:18-21`), and the stale output is skipped by a later Run.
* `ApplyPatch` commits under publish's lock while File uses the registry's claim; they
  do not exclude each other, and `ApplyPatch` records nothing.
* An input changed while a child runs and changed back before the check is not noticed.
* A callback of a Task with a Basis that swallows an operation's error settles the Task Done,
  and the next Run takes it for already satisfied.

Terminal:

* Under Suspend the first Running row of a sibling, or a commit of a root, makes the region visible again
  and paints into a prompt (`live.go:115`, against `confirm.go:183`); the animator stops while the region is hidden
  and is not started with it (`suspend.go:30`; `live.go:259`).
* A signal between reading the answer and the gate's success settles the gate Cancelled, and Confirm still
  returns true (`confirm.go:232`, against `:143-145` and `:288`). A signal between a gate's declaration and its
  registration finds no channel to close, and the gate prompts on (`confirm.go:197`, against 187-194).
  Of two gates only the first found is released, the other one's read stays blocked (`interrupt.go:112`,
  against 14-17). A settled gate that is still registered is taken for cancelled, and the interrupt leaves no
  Cancelled row (`interrupt.go:115`, against 9).
* Each Confirm reads through a buffer of its own; from a pipe the lines after the first are lost to the
  next gate (`confirm.go:282`, against 138).

Conclusion:

* When the callback called Finish itself and then returns an error, the error is refused and Run returns
  the conclusion already inferred, exit code 0 (`run.go:156`, against 51-53). Likewise when a signal
  arrives while a callback that called Finish is still running: the interrupt only records misuse, and Run
  returns exit code 0 instead of 130. The proof of `ExitCodeHonest` assumes that this does not happen
  (`OwnFinishUndisturbed`), and so do the scenes of `run_ends`.
* A group with a warned Done row and a forgotten one makes the headline a warning, which
  `core/state.go:38-44` calls unreachable (`core/conclusion.go:221`). `FoldLeftoverMisuse` turns a warning
  headline into failed and leaves `Warned` false (`core/conclusion.go:100`, against 11-17). Within one
  group a Blocked row hides an Incomplete one, so the conclusion is not partial (`snapshot.go:191`,
  against `core/conclusion.go:229-232`).

## 6. What is proved

`RegistryProofs` proves, for every set of holds and keys and every containment
relation, that the specification keeps its types (`TypeCorrect`), that conflicting
claims never run together (`ExclusionHolds`), that a claim in the queue is blocked
whenever the mutex is free (`EveryWaiterBlockedHolds`), that no claim overtakes an
earlier conflicting one (`NoOvertakingHolds`), both together as the runs check it
(`GrantsSoundHolds`), and that nothing leaks (`NoLeakHolds`).
The assumptions are `RegistryAssumption` (containment is a relation on keys, `NoHold`
is not a hold) and `NoClaimAssumption`.

The inductive invariant is

    IInv == TypeOK /\ Bookkeeping /\ Scanning /\ HeldCompatible /\ NoOvertaking

`Bookkeeping` ties `pc` to `held`, `queue` and the arrival numbers. `HeldCompatible`
strengthens exclusion from running callbacks to held claims. `Scanning` is the heart: while a scan
is under way, the waiters it has passed are blocked and come first in the queue, and
each waiter it has not passed is still blocked or conflicts with the claim that left.
Two lemmas carry the
short cuts: conflict is symmetric, and whatever conflicts with the freed claim
conflicts with a blocked write of the same key (`StopIsSound`). One lemma per action
shows that it keeps `IInv`.

The second part of `RegistryProofs` is about `HeldWait`. `NoDeadlockHolds` proves `NoDeadlock` for
any number of goroutines, Tasks, resources and claims, assuming structured callbacks
(`Habit = {}`; each member of `Habit` makes it false). Its invariant `GInv` says who can be
blocked. `ChildOfHolder`: the goroutines a claim holder started run with the held context, claim
nothing (`CheckFree`), wait for nothing (`holdsClaim` looks at their maker) and start nothing, so
the holder may join them and nobody who holds a claim is ever part of a circle (`NoCircle`).
The other blocked goroutines wait for a later Task or join a younger goroutine of
their own Task (`Lineage`, `Targets`): the youngest of those that work for the latest Task has
nobody in the group to block on.

For the scheduler, `SchedulerProofs` has four parts. All of it holds for every `N`,
`Ceiling`, set of steps and set of calls the program may make; the one assumption on
constants is `SchedulerAssumption`.

The first part needs nothing of the program. Its inductive invariant is

    IInv == TypeOK /\ Awaiting /\ Hosting /\ Begun /\ Accounts

* `Accounts`: `wg`, `executing` and `inflight` are the sizes of the sets they count (the part of
  `CountsAgree` that the drain rests on).
  The types alone are not inductive: that a counter stays a natural number follows
  from the set it counts. Each action is shown to change both alike; settling a set of
  rows takes from `wg` exactly the abandoned part of it.
* `Begun`: a row is in phase Running exactly when its callback's goroutine was started.
* `Hosting`: a waiter hosts at most one callback at a time and does nothing meanwhile.
* `Awaiting`: whoever waits, waits for a Task.

From it follow `TypeCorrect` and `DrainAccounted`. `SettledStays` is an action property
(every step leaves terminal rows alone). `OrderKept` adds `Remembered`: a predecessor
drops out of `preds` only after it succeeded, and success stays; so an empty `preds`
speaks for all of `after`. `CeilingKept` adds `Slots`: a callback without a slot is
hosted by a waiting one. Hosting is an injection from the callbacks without a slot to
the callbacks that wait, so the callbacks running their own code are no more than the
slots, at any nesting. `ClosedToNewWork` is the closing of the scheduler by the interrupt.

`CountsAlwaysAgree` puts the two counts together as the runs check them.

The second part assumes `Joined`; without it `WaitTellsTruth` does not hold
(section 5). Its invariant adds `Closing` to `IInv` and `Slots`:
after the drain `wg` is zero, hence (by `Accounts`) nothing is left that could Define,
hence it stays zero. `LedgerCloses` follows. `WaitsTellTruth` adds `Answering`: what a
Wait is about to report is settled, and not Incomplete while anybody waits.
`GreenIsEarned` adds `Told` (a callback's goroutine passes its verdict on before it goes
on) and goes through the few ways a row can change (`StateMoves`).
`FollowersStop` adds `Stopping`: a failed step that ran is known to its Sequence, and every
later step runs, is settled, or is among those the critical section still owes.

The third part again needs nothing of the program. `NobodyStranded` proves `NothingStranded`:
whenever a kick finds the run stalled, `resolveStall` could do without its steps for
collections. Its invariant adds to `IInv` and `Remembered`

* `Staged`: a drain begins with Finish, after any interrupt; an interrupt that is through has
  stopped, or is about to stop, all that had not started, whatever is Defined later included.
* `Swept`: what Finish leaves behind of a row whose verdict came too late.
* `InLine`: a Task that awaits its start is queued with no predecessor left, or on the
  dependents list of a Task that is still pending, or still owed by this critical section.
  It is what the wakes of `settleLocked` and `replaceParkedLocked` are for.
* `Sealed`: until a drain there is a set of Tasks that holds whatever is awaited and,
  with each open Task in it, that Task's open predecessors; what nobody Defined in it is about to be
  stopped. It is closed because `After` refuses submitted Tasks, so a Wait that begins only
  adds what its own walk found (`WalkCloses`).

In a stalled drain no callback runs and the queue is empty, so by `InLine` each parked Task is
parked behind another one (`ParkedBehind`); the one that reaches fewest of them
reaches itself next (`ParkedCycle`), against the absence of cycles.

The fourth part is about the other side of a stall, the Waits it ends, for programs that join their
goroutines. `NoFalseDeadlockHolds` proves `NoFalseDeadlock` for every program in which fewer
callbacks Wait than there are slots (`Cardinality(Nesting) < Ceiling`), and
`sched_starved` shows that the bound is sharp: two callbacks that Wait on two slots break it.
`OnlyStarvationDeceives` says what remains true without the bound: a Wait ends with
`ErrWaitDeadlock` in an uncancelled run only when Tasks need each other in a circle, or when
eligible work is left behind a full pool. Its invariant adds `Stacks`, about the goroutines on which waiters run
other Tasks' callbacks: a callback's depth is one more than its host's, whoever hosts has a
callback on top of it, and the stacks of the callbacks that are on top (`Tops`) together hold as many
callbacks as are under way. `HeldAreFrames` evaluates the sum over the tickets in
`heldCallbacksLocked` as a count of callbacks on their stacks. When `executing` is no more than that, the two
counts agree, so *every* stack has a parked waiter on top (`EveryTopParked`). Then the callbacks under
way and the Tasks that their targets come after, as far as `Sealed` follows them, each need
another one of these (`StallIsCircle`): a host what it hosts, a parked callback its target, and a Task
that is not in the queue, by `InLine`, the one it is parked behind.

`PathLockProofs` proves the refinement of `Claims` step by step (`ClaimsImplemented`), for
any number of processes, paths and inodes, and from it that holders never overlap
(`OverlapExcluded`). The invariant says what a lock is worth: a file is at one path
(`FileAtOnePath`), an inode has one `flock` (`FlockSound`), and an actor that holds a level has
the `flock` of the file that is at its path now, though others unlink, probe and recreate files
(`LevelSound`, `HeldSound`, `FdSound`). Two overlapping claims meet at the path of the outer
one, where one file has one lock.

`ManifestProofs` proves that what Flush reported is on disk (`RecordsSaved`) and that no
write takes another Run's record away (`RecordsKept`), for any number of Runs, Tasks and
failures, assuming `EndedOnce` (section 5). Types (`TypeCorrect`) need no hypothesis.
The invariant follows a version from `Put` to the rename: the newest Store of a Run has the
lock as long as anybody may still write through it, and its document then contains
all that is on disk.

`FilesProofs` proves of `Publish`, for any number of committers, removers and recoverers and any bounds
on crashes and failing renames, that the original survives (`OriginalKept`), that a
recovery which settled leaves a planned tree, or what a deletion leaves of it that followed it there, and no leftover
(`RecoveryEndsComplete`), and that a tree which failed its verification is not left at the destination
(`RejectedStaysOut`). `PublishAssumption` only keeps roles, names and contents apart. The invariant has three
parts: `Flow` (whose name is whose, who has the lock, where each role stands), `Kept` (what is
staged and doomed is never the only copy of the original; a tree that a deletion follows was given up before,
`FollowsSound`) and `Recovered` (what a Recover noted under the lock still is so, but for a destination that a
deletion which followed it has torn). Each part has one lemma that the steps of *other* processes keep it,
and one lemma per action of the process itself. `StaysOpen` says that only `Restore` lets a deletion begin to
follow a tree, `TornThere` what such a deletion may do to the destination while somebody else has the lock.

`ConcludeProofs` proves for any number of rows, in groups nested to any depth, that the exit code
tells the worst row (`WorstAlwaysTold`) and that a forgotten row costs nothing
(`ForgottenForgiven`); and that Run never returns a good exit code after a signal or a failed
presentation (`ExitAlwaysHonest`), assuming `OwnFinishUndisturbed` (section 5). `VerdictSolves`
shows that the recursive verdict of groups exists; since a nested group has a larger number,
the greatest (least) number of a counterexample carries what would be an induction
(`RowsBeneath`, `Surfaces`). The invariant `RunSound` of the last theorem says
who may interrupt, when the run is concluded, and that an interrupted run has a
cancelled row, or recorded misuse, by the time it concludes.

`LiveProofs` proves that no row is shown below its own copy in scrollback
(`NoRowTwiceHolds`), for any number of Tasks and of animators alive at once. The invariant
speaks of frames in flight: one taken after the last clear has no durable row, and
one taken before it will not be painted (`Fresh`). It is a predicate of the record `live`, so
that each operator of a critical section has one lemma, and an action only combines them.

Its second part proves `EndsAsAnswered` of `Confirm` (`EndsAsAnsweredHolds`), for any number of
gates, workers and lines and a signal at any moment. The hypothesis `OneReaderPerPipe` is the
place where the code does not keep the promise (section 5): from a pipe the first reader buffers
every line. The invariant accounts for the lines (`Lines`: each one given is unread or was one
reader's, and who meets the end of the input met it when nothing was left) and for the answers
(`Heeded`: a call acts on what its own reader got).

`MembershipProofs` proves the types of `Membership` (`TypeCorrect`), that nobody starts before
the members its After named or under an unfinished or failed builder (`StartsAfterNamedHolds`,
without a hypothesis), and that nobody is forgotten (`NobodyForgottenHolds`), for any nesting of
collections, any numbers of collections and members, any set of dependents and any scene.
`MembershipAssumption` says that collections and members are finitely many and which is in which. The invariant is

    MInv == Types /\ Ordered /\ Followed /\ Building /\ Named /\ Filed

* `Ordered`: declarations are numbered without gaps, and no cursor is ahead of them.
* `Followed`: the prefix and the first failure of a tally are what a full reading of the members
  finds. `ReadsSucceeded` and `ReadsFailed` show that then reading *one* member after the prefix, and
  one number, answers for all members through a cursor.
* `Building`: a tally has one hold for each unfinished builder under it and knows whether one
  failed; a collection whose builder has not begun is empty, and so are those it is in whose own
  builder has not.
* `Filed`: whoever is parked is in exactly one place, on its own collection's tally; whoever
  waits on an entry has an entry still open.

`NobodyForgotten` needs `EachRests` besides: whoever is on an open list reads an edge that is
open, with no failure; whoever is parked at a cursor reads through what its edge reads now (a seal, a drain or a
later declaration may change the edge's cursor, but not the members through it), and a
member there has not succeeded. Each action has the same shape in the code, change some tallies
and place again whom they woke, so the proofs have it too: one lemma says what a change of a
tally keeps and whom it takes off (`SettleRests`, `SealRests`, `ConcludeRests`, `HoldRests`,
`DeclareRests`), one that who was taken off is nowhere else (`WokenLeave`), and `PlaceFiles` and
`PlaceRests` what placing does. The hypothesis `SealedLate`, that a collection is not sealed before its
own builder concludes, is the place where the code does not keep the promise (section 5);
`NobodyForgottenApart` discharges it for every program that calls Wait only on collections it gives no
builder, which are the scenes of `collections`.

The second part of `FilesProofs` proves of any program of `OperationsSpec`, over any number of Runs, Tasks,
paths, outputs and edits from outside:

* `BarriersSettle`: an open barrier belongs to an operation under way. `Owned` (an operation
  past its claim owns all its outputs) is what makes it inductive: whoever claims a path
  takes it from nobody, so no other operation's gate changes.
* `NothingOverwritten`: Files replaces what Patch read or nothing. `Held` says that the operation
  that revalidated holds the path for writing and that what it saw is still there.
* `SkippedOperationsDone`: an operation skipped by its own record is done. `RecordsSound` says of
  *every* record in memory, on disk and of the present Run that its outputs are what its operation
  leaves on the Basis it names; `Verifying` that a child left just that.
* `NothingFalselySatisfied`: the same of a whole Task skipped by its Basis, which is
  `NoFalseSatisfaction`. `Agreeing` and `Filed` say that the records of such a Task are one for each
  operation and that they agree with the Task's Basis.
* `SecondRunDoesNothing`: what is done is skipped, which is `SecondRunQuiet`, in real Runs and
  dry ones. The invariant (`QInv`) speaks of two Runs. While a real Run goes well, `Follows` says of
  each Task that what it observed, watched, read and recorded is still so: `UpToDate` spells out what
  `IsCurrent` will ask of a record, so `Whole`, which says it of all records of a Task, holds when it
  settles Done; and `Undisturbed` that no step of another Task reaches those paths. After such a Run, and
  through the next, `Resting` keeps `Whole` of every Task, so each operation that looks at its record
  finds it current (`FoundCurrent`): for Patch because the bytes it reads are those `taskLastLeft` finds
  in the record. A dry Run empties the manifest of each Task it settles, but writes nothing.

The one assumption on constants is `OperationsAssumption`: File and Patch have one output, the
source of a Patch is no Basis, and the Basis of an operation of a watching Task is part of what the
Task watches (the scenes are like that; an input the Task does not watch may go stale unnoticed). The
hypotheses of the last three theorems are the places where the code does not keep the promise, or
where the model says nothing:

* `InputsHold`: nobody rewrites what an Exec observed while its child runs. The record names the
  Basis observed *before* the child. A File of the callback writes `in`, an Exec reads it and
  another Output rewrites `in` while the child runs: the next Run's File restores `in`, the Basis
  agrees again, the output is stale, and it is skipped. TLC finds this behaviour on such a scene; in
  the scenes of `files` every content from outside is new and never comes back, so the
  theorem is not implied by the run, nor the run by it.
* `WatchedHold`: the same of what a Task watches while its callback runs; the Task's Basis is
  observed before it.
* `RealAndStrict`: a program in which a Task watches has no dry Runs (`files_dry` shows what happens
  otherwise) and no callback that goes on past an operation's error (it settles Done with a record
  missing). Programs without watching Tasks may do both.
* `OutputsOwn`: other Outputs write where no Exec of this one does. `NilIsNothing`: absence is
  no content and no nonempty Basis.
* `Apart`, of `SecondRunDoesNothing` alone: each operation makes something, no two make one path, and
  what one makes is observed by another, or watched by a Task, only after it, in the same callback
  or in the declared order. Without any one of these the second Run does work again, and TLC finds it: an
  Exec without outputs always runs; of two Files of one callback on one path each undoes the other; a
  path rewritten after another Task observed it differs from the Basis recorded. Three of the four scenes of
  `files` are like that, and `QInv` is an invariant of them to TLC too; in the fourth, `Contested`,
  one of the two Tasks that claim a path is refused, so no Run goes well.

Only model-checked: all liveness (fairness is beyond the prover), with it what Run, Finish, Wait
and the locks promise to return; `NoFalseDeadlock` where as many callbacks Wait as there are slots
(in `sched_waits` two on one slot; in `sched_starved` it fails); the refinement `ImplementsSet`
and `ReadsAsWalk` of `ChildIndex`. Their models use no recursive operator, so that they can be proved about
as the others were; what they need are facts about sorting, folds and division by powers of two
that the provers do not have.

## 7. Not modelled

* Presentation, wording and serialisation: layout, glyphs, the plain presentation and its heartbeat,
  capture and debug panes, journal, projections. They read the ledger; no state feeds back.
* `Computed`: a value is read after its producer's Task, which is an edge or a Wait.
* Sequential helpers: checksums and fingerprints (contents with one digest are one value),
  parsing and applying patch text, download, extract, find, parent directories, modes, syncing.
* Within `Operations`: mode-only Files, Verify functions, several files of one diff, `ApplyPatch`.
* Compositions: `Scheduler` with `Membership` (edges on collections there, on Tasks here) and with
  `Operations` (whose Tasks run in any order their edges allow).
* The static analysis of `internal/agent`, the MCP server, commands, evaluation, tools and
  examples: clients of the library, not parts of a run. They are nearly half of the code.
