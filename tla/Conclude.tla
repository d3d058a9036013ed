------------------------------ MODULE Conclude ------------------------------
(***************************************************************************)
(* How a Run ends (engine/run.go, run_outcome.go, interrupt.go, finish.go, *)
(* core/conclusion.go): the callback's return, the signals, the sweep of   *)
(* what was left unresolved, and the conclusion inferred from the ledger.  *)
(*                                                                         *)
(* The ledger is a tree: rows at the root, and rows of groups which may be *)
(* nested.  The conclusion reads the root's rows and the verdict of each   *)
(* outermost group.  Scheduling is in Scheduler: here Work is a row whose  *)
(* callback the drain of Finish waits for, and rows settle in any way.     *)
(***************************************************************************)
EXTENDS Naturals, FiniteSets, FiniteSetsExt

CONSTANTS
    Scenes,   \* the ledgers and configurations a run may have, of which it has one
    Tasks,    \* every row of every scene
    Root      \* what holds the rows and groups that are in no group

None == [state |-> "none"]

(* A scene: the rows, numbered in declaration order, and the groups; the   *)
(* group of each or Root (a nested group has the larger number); which     *)
(* groups run their rows one after another and which rows are submitted    *)
(* work; what rows may carry and settle in; whether anything is applied,   *)
(* the exit code of a failed run, the signals that may arrive, and whether *)
(* the callback may call Finish itself.                                    *)
SceneAssumption ==
    \A s \in Scenes :
        /\ s.rows \subseteq Tasks /\ s.groups \subseteq Nat \ {Root}
        /\ IsFiniteSet(s.groups)
        /\ s.home \in [s.rows -> s.groups \cup {Root}]
        /\ s.outer \in [s.groups -> s.groups \cup {Root}]
        /\ \A g \in s.groups : s.outer[g] < g
        /\ s.sequences \subseteq s.groups /\ s.work \subseteq s.rows
        /\ s.notes \subseteq {"warned", "effect", "told", "problem"}
        /\ s.verbs \subseteq {"done", "skipped", "blocked", "failed", "cancelled"}
        /\ s.dryRun \in BOOLEAN /\ s.ownFinish \in BOOLEAN
        /\ s.signals \in 0..2 /\ s.failedCode \in 1..255

ASSUME RootAssumption == Root = 0 /\ Tasks \subseteq Nat \ {0} /\ IsFiniteSet(Tasks)
ASSUME ScenesAssumed == SceneAssumption

VARIABLES
    scene,     \* the scene of this run
    row,       \* the state of each row
    notes,     \* what each row carries
    extra,     \* the states of the rows Output.Fail and Output.Cancel added
    misuse,    \* the program was told it used the library wrongly
    callback,  \* "going", or what it returned: "nil", "error"
    caught,    \* signals that have arrived
    cancelled, \* the scheduler is closed to new work
    run,       \* where Run is
    victims,   \* the rows the interrupt is about to cancel
    concl,     \* the conclusion, once inferred
    broken,    \* writing the end of the presentation failed
    result     \* what Run returned

vars == <<scene, row, notes, extra, misuse, callback, caught, cancelled, run, victims, concl,
          broken, result>>

Rows == scene.rows
Groups == scene.groups
Work == scene.work

Ended(s) == s \in {"done", "skipped", "blocked", "failed", "cancelled", "not_started"}
Open == concl = None          \* ensureOpen
States == {row[r] : r \in Rows} \cup extra

----------------------------------------------------------------------------
(* The verdict of a group (derivedState).                                  *)

Fold(S) ==
    IF "running" \in S THEN "running" ELSE IF "failed" \in S THEN "failed"
    ELSE IF "blocked" \in S THEN "blocked" ELSE IF "cancelled" \in S THEN "cancelled"
    ELSE IF S \cap {"pending", "incomplete", "unresolved"} # {} THEN "incomplete"
    ELSE "done"

Members(g) == {r \in Rows : scene.home[r] = g}
Nested(g) == {h \in Groups : scene.outer[h] = g}

\* A nested group counts like one more row; one that never began is unresolved.
Verdict(ledger) ==
    LET v[g \in Groups] ==
            LET own == {ledger[r] : r \in Members(g)}
                inner == {v[h] : h \in Nested(g)} IN
            IF Members(g) = {} /\ Nested(g) = {} THEN "empty"
            ELSE IF Nested(g) = {} /\ own = {"not_started"} THEN "not_started"
            ELSE Fold(own \cup (inner \ {"empty", "not_started"})
                          \cup (IF "not_started" \in inner THEN {"unresolved"} ELSE {}))
    IN v

\* anyTaskWarned, anyCollectionWarned: at any depth.
WarnedIn(carried) == \E r \in Rows : "warned" \in carried[r]

ExitCode(state) ==
    CASE state = "failed" -> 2 [] state = "blocked" -> 1 [] state = "cancelled" -> 130
      [] OTHER -> 0

\* What the conclusion looks at: the root's rows and the outermost groups.
Seen(ledger) ==
    {ledger[r] : r \in Members(Root)} \cup extra \cup {Verdict(ledger)[g] : g \in Nested(Root)}

(* InferConclusion.                                                        *)
Infer(seen, carried) ==
    LET changed == ~scene.dryRun /\ \E r \in Rows : "effect" \in carried[r]
        planned == scene.dryRun /\ \E r \in Rows : "effect" \in carried[r]
        done == seen \cap {"done", "skipped", "empty"} # {}
        warned == WarnedIn(carried)
        headline == IF "failed" \in seen THEN "failed" ELSE IF "blocked" \in seen THEN "blocked"
                    ELSE IF "cancelled" \in seen THEN "cancelled" ELSE IF changed THEN "changed"
                    ELSE IF planned THEN "planned" ELSE IF warned /\ ~done THEN "warning"
                    ELSE "ready" IN
    [state |-> IF scene.dryRun /\ headline \in {"changed", "ready"} THEN "planned" ELSE headline,
     partial |-> seen \cap {"pending", "running", "incomplete", "not_started"} # {},
     warned |-> warned /\ headline # "warning",
     cancelled |-> "cancelled" \in seen]

\* FoldLeftoverMisuse: only an otherwise good run is demoted.
FoldLeftoverMisuse(c, wrong) ==
    IF wrong /\ ExitCode(c.state) = 0 THEN [c EXCEPT !.state = "failed"] ELSE c

\* ApplyFailedExitCode, after the fold.
Concluded(c, wrong) ==
    LET f == FoldLeftoverMisuse(c, wrong) IN
    [state |-> f.state, partial |-> f.partial, warned |-> f.warned, cancelled |-> f.cancelled,
     exit |-> IF f.state = "failed" THEN scene.failedCode ELSE ExitCode(f.state)]

----------------------------------------------------------------------------
(* The program, until the run concludes.                                   *)

\* A success claimed over a Problem settles Failed (honestOutcome).
Honest(r, s) == IF s \in {"done", "skipped"} /\ "problem" \in notes[r] THEN "failed" ELSE s

Init ==
    /\ scene \in Scenes
    /\ row = [r \in Rows |-> "pending"] /\ notes = [r \in Rows |-> {}]
    /\ extra = {} /\ misuse = FALSE /\ callback = "going"
    /\ caught = 0 /\ cancelled = FALSE /\ run = "waiting" /\ victims = {}
    /\ concl = None /\ broken = FALSE /\ result = None

untouched == <<scene, extra, callback, caught, cancelled, run, victims, concl, broken, result>>

\* The first evidence of activity; a second running step of a sequence is misuse.
Start(r) ==
    /\ Open /\ row[r] = "pending" /\ (r \in Work => ~cancelled)
    /\ row' = [row EXCEPT ![r] = "running"]
    /\ misuse' = (\/ misuse
                  \/ /\ scene.home[r] \in scene.sequences
                     /\ \E q \in Members(scene.home[r]) : row[q] = "running")
    /\ UNCHANGED <<notes, untouched>>

Note(r, n) ==
    /\ Open /\ ~Ended(row[r]) /\ notes' = [notes EXCEPT ![r] = @ \cup {n}]
    /\ UNCHANGED <<row, misuse, untouched>>

Settle(r, s) ==
    /\ Open /\ ~Ended(row[r]) /\ row' = [row EXCEPT ![r] = Honest(r, s)]
    /\ UNCHANGED <<notes, misuse, untouched>>

\* A verb on a row that has settled, or after Finish, is refused and recorded.
Refused ==
    /\ ~Open \/ \E r \in Rows : Ended(row[r])
    /\ ~misuse /\ misuse' = TRUE
    /\ UNCHANGED <<row, notes, untouched>>

\* The callback returns, or its goroutine ends without returning.
Return(e) ==
    /\ callback = "going" /\ callback' = e
    /\ UNCHANGED <<scene, row, notes, extra, misuse, caught, cancelled, run, victims, concl,
                   broken, result>>

Signal ==
    /\ caught < scene.signals /\ caught' = caught + 1
    /\ UNCHANGED <<scene, row, notes, extra, misuse, callback, cancelled, run, victims, concl,
                   broken, result>>

----------------------------------------------------------------------------
(* Finish, under the lock once the scheduler has drained.                  *)

\* autoResolveGroupsLocked.
Resolved(ledger) ==
    [r \in Rows |->
        IF /\ scene.home[r] \in scene.sequences /\ ~Ended(ledger[r])
           /\ \E q \in Members(scene.home[r]) : q < r /\ ledger[q] \in {"failed", "cancelled"}
        THEN "not_started" ELSE ledger[r]]

Abnormal(ledger) ==
    {"failed", "cancelled"} \cap ({ledger[r] : r \in Rows} \cup extra) # {}

\* Fault: a row left running is cancelled in a clean run too.
SweptCancelled(ledger) ==
    [r \in Rows |->
        IF Ended(ledger[r]) THEN ledger[r]
        ELSE IF notes[r] # {} THEN Honest(r, "done")
        ELSE IF ledger[r] = "running" THEN "cancelled"
        ELSE IF Abnormal(ledger) THEN "not_started" ELSE "incomplete"]

\* settleUnresolvedTasksLocked: a row that told its story is done, the
\* rest is incomplete in a clean run and cut short in an abnormal one.
Swept(ledger) ==
    [r \in Rows |->
        IF Ended(ledger[r]) THEN ledger[r]
        ELSE IF notes[r] # {} THEN Honest(r, "done")
        ELSE IF ~Abnormal(ledger) THEN "incomplete"
        ELSE IF ledger[r] = "running" THEN "cancelled" ELSE "not_started"]

Finish ==
    IF ~Open THEN UNCHANGED <<row, misuse, concl, broken>>
    ELSE /\ \A r \in Work : row[r] # "running"
         /\ \E before \in {Resolved(row)}, after \in {Swept(Resolved(row))} :
                /\ row' = after
                /\ misuse' = (\/ misuse
                              \/ \E r \in Rows : ~Ended(before[r]) /\ after[r] = "cancelled")
                /\ \E seen \in {Seen(after)} : concl' = Concluded(Infer(seen, notes), misuse')
         /\ broken' \in BOOLEAN

OwnFinishes ==
    /\ scene.ownFinish /\ Open /\ callback = "going" /\ Finish
    /\ UNCHANGED <<scene, notes, extra, callback, caught, cancelled, run, victims, result>>

----------------------------------------------------------------------------
(* Run.                                                                    *)

quiet == <<scene, notes, callback, caught>>

\* The callback's answer is read before any signal.
Answered ==
    /\ run = "waiting" /\ callback # "going"
    /\ run' = IF callback = "error" /\ "failed" \notin States THEN "failing" ELSE "finishing"
    /\ UNCHANGED <<row, extra, misuse, cancelled, victims, concl, broken, result, quiet>>

\* Output.Fail.
Fails ==
    /\ run = "failing" /\ run' = "finishing"
    /\ extra' = IF Open THEN extra \cup {"failed"} ELSE extra
    /\ misuse' = (misuse \/ ~Open)
    /\ UNCHANGED <<row, cancelled, victims, concl, broken, result, quiet>>

\* interrupt, cancelActive: the running rows, or the first pending one, are collected.
Interrupted ==
    /\ run = "waiting" /\ caught > 0 /\ cancelled' = TRUE /\ run' = "cancelling"
    /\ LET with(s) == {r \in Rows : row[r] = s} IN
       victims' = IF with("running") # {} THEN with("running")
                  ELSE IF with("pending") # {} THEN {Min(with("pending"))} ELSE {0}
    /\ UNCHANGED <<row, extra, misuse, concl, broken, result, quiet>>

\* Fault: a row that settled meanwhile is passed over in silence.
CancelsQuietly(v) ==
    /\ run = "cancelling" /\ v \in victims /\ victims' = victims \ {v}
    /\ row' = IF v = 0 \/ Ended(row[v]) THEN row ELSE [row EXCEPT ![v] = "cancelled"]
    /\ extra' = IF v = 0 THEN extra \cup {"cancelled"} ELSE extra
    /\ UNCHANGED <<misuse, cancelled, run, concl, broken, result, quiet>>

\* Each is cancelled in a section of its own; Output.Cancel when there was none.
Cancels(v) ==
    /\ run = "cancelling" /\ v \in victims /\ victims' = victims \ {v}
    /\ IF ~Open \/ (v # 0 /\ Ended(row[v]))
       THEN misuse' = TRUE /\ UNCHANGED <<row, extra>>
       ELSE /\ row' = IF v = 0 THEN row ELSE [row EXCEPT ![v] = "cancelled"]
            /\ extra' = IF v = 0 THEN extra \cup {"cancelled"} ELSE extra
            /\ UNCHANGED misuse
    /\ UNCHANGED <<cancelled, run, concl, broken, result, quiet>>

\* abandonQueuedWork.
Abandons ==
    /\ run = "cancelling" /\ victims = {} /\ run' = "interrupted"
    /\ row' = [r \in Rows |-> IF Ended(row[r]) \/ (r \in Work /\ row[r] = "running")
                              THEN row[r] ELSE "not_started"]
    /\ UNCHANGED <<extra, misuse, cancelled, victims, concl, broken, result, quiet>>

\* Fault: only a callback that returned nil is waited for.
UnwoundNil ==
    /\ run = "interrupted" /\ callback = "nil" /\ run' = "closing"
    /\ UNCHANGED <<row, extra, misuse, cancelled, victims, concl, broken, result, quiet>>

\* The interrupted callback unwound.
Unwound ==
    /\ run = "interrupted" /\ callback # "going" /\ run' = "closing"
    /\ UNCHANGED <<row, extra, misuse, cancelled, victims, concl, broken, result, quiet>>

\* A second signal does not wait for it.
SecondSignal ==
    /\ run = "interrupted" /\ caught = 2 /\ run' = "returned"
    /\ result' = [state |-> "cancelled", exit |-> 130]
    /\ UNCHANGED <<row, extra, misuse, cancelled, victims, concl, broken, quiet>>

Finishes ==
    /\ run \in {"finishing", "closing"} /\ Finish
    /\ run' = IF run = "finishing" THEN "checking" ELSE "reporting"
    /\ UNCHANGED <<extra, cancelled, victims, result, quiet>>

\* A presentation that could not be written escalates a good exit, unless interrupted.
Reports ==
    /\ run \in {"checking", "reporting"} /\ run' = "returned"
    /\ result' = [state |-> concl.state,
                  exit |-> IF run = "checking" /\ concl.exit = 0 /\ broken THEN 2 ELSE concl.exit]
    /\ UNCHANGED <<row, extra, misuse, cancelled, victims, concl, broken, quiet>>

----------------------------------------------------------------------------
RunStep ==
    \/ Answered \/ Fails \/ Interrupted \/ Abandons \/ Unwound \/ SecondSignal
    \/ Finishes \/ Reports
    \/ \E v \in victims : Cancels(v)

Next ==
    \/ \E r \in Rows : Start(r)
    \/ \E r \in Rows, n \in scene.notes : Note(r, n)
    \/ \E r \in Rows, s \in scene.verbs : Settle(r, s)
    \/ Refused \/ OwnFinishes \/ Signal
    \/ \E e \in {"nil", "error"} : Return(e)
    \/ RunStep

Spec == Init /\ [][Next]_vars

(* Run's goroutine is scheduled; the callback ends, and so does the work   *)
(* that was started, which the drain waits for.                            *)
Fairness ==
    /\ WF_vars(RunStep) /\ WF_vars(\E e \in {"nil", "error"} : Return(e))
    /\ WF_vars(\E r \in Work : row[r] = "running" /\ \E s \in scene.verbs : Settle(r, s))
FairSpec == Spec /\ Fairness

----------------------------------------------------------------------------
RowStates == {"pending", "running", "done", "skipped", "blocked", "failed", "cancelled",
              "not_started", "incomplete"}

TypeOK ==
    /\ row \in [Rows -> RowStates] /\ notes \in [Rows -> SUBSET scene.notes]
    /\ extra \subseteq {"failed", "cancelled"} /\ caught \in 0..scene.signals
    /\ callback \in {"going", "nil", "error"}
    /\ run \in {"waiting", "failing", "finishing", "checking", "cancelling", "interrupted",
                "closing", "reporting", "returned"}
    /\ \A f \in {misuse, cancelled, broken} : f \in BOOLEAN
    /\ victims \subseteq Rows \cup {0}
    /\ concl # None => concl.exit \in {0, 1, 130, scene.failedCode}

(* The exit code tells the worst thing the ledger holds, however deep the  *)
(* row is nested, and misuse only where the ledger is otherwise good       *)
(* (conclusion.go, the precedence of InferConclusion and                   *)
(* FoldLeftoverMisuse).                                                    *)
WorstTold ==
    ~Open => concl.exit = IF "failed" \in States THEN scene.failedCode
                          ELSE IF "blocked" \in States THEN 1
                          ELSE IF "cancelled" \in States THEN 130
                          ELSE IF concl.state = "failed" THEN scene.failedCode ELSE 0

(* And Run never returns a good one when a signal reached it, whatever     *)
(* settled between the collection of the running rows and their            *)
(* cancellation, nor when the presentation could not be written            *)
(* (interrupt.go, cancelActive; run.go:168).                               *)
ExitCodeHonest ==
    /\ WorstTold
    /\ result # None /\ (cancelled \/ broken) => result.exit # 0

(* A run of good rows fails only when the program misused the library: a   *)
(* row it forgot to resolve never turns the exit code (finish.go, the      *)
(* amnesty of settleUnresolvedTasksLocked).                                *)
ForgottenIsFree ==
    [][/\ concl' # None
       /\ States \cap {"failed", "blocked", "cancelled"} = {} /\ ~misuse
       /\ \A r \in Rows : "problem" \in notes[r] => Ended(row[r])
       => concl'.exit = 0]_concl

\* Run returns, after a callback that ends in any way or a second signal.
RunReturns == <>(result # None)
=============================================================================
