-------------------------------- MODULE Confirm --------------------------------
(***************************************************************************)
(* Confirm gates, the reads of standard input behind them, and the first   *)
(* signal of an interruptible run (engine/confirm.go, interrupt.go,        *)
(* run.go). A gate is a Task whose outcome is the answer; the signal must  *)
(* both settle it and release the goroutine that waits for the answer.     *)
(*                                                                         *)
(* An operator marked "Fault" is a plausible bug in the definition after   *)
(* it. No specification uses it; it shows what a property can detect.      *)
(***************************************************************************)
EXTENDS Naturals, Sequences, FiniteSets

CONSTANTS
    Askers,     \* calls of Confirm
    Workers,   \* other Tasks that are Running
    Settings,  \* under which a behaviour may run: see Assumed, Plain, Piped
    MaxLines,  \* bound on the lines of standard input
    Nothing

ASSUME ConfirmAssumption ==
    /\ Askers \intersect Workers = {} /\ MaxLines \in Nat
    /\ Settings \subseteq [assumed : SUBSET Askers, plain : BOOLEAN, piped : BOOLEAN]
    /\ Nothing \notin {"yes", "no", "eof"} /\ IsFiniteSet(Askers)

Answers == {"yes", "no"}
Terminal == {"done", "blocked", "cancelled", "notStarted"}

VARIABLES
    setting,   \* the one of this run
    tasks,      \* of each Task its state
    order,     \* the gates as they were declared
    call,      \* where each call of Confirm stands
    abort,     \* of each gate its abort channel
    reachable,    \* confirmAbort: the gates a signal can reach
    stdin,     \* unread lines, how many were given, whether it has ended
    reader,    \* of each gate what its reading goroutine has
    heard,     \* of each gate the result it acts on
    returned,  \* of each gate what Confirm returned
    run,       \* where the run and its interrupt stand
    victims,   \* the Running Tasks cancelActive found
    outputCancelled

confirms == <<setting, tasks, order, call, abort, reachable, stdin, reader, heard, returned, run,
          victims, outputCancelled>>
Assumed == setting.assumed  \* the gates with AssumeYes
Plain == setting.plain      \* no terminal: a gate is blocked by policy
Piped == setting.piped      \* standard input gives one read all that is there

input == <<stdin, reader>>
signal == <<run, victims, outputCancelled>>

GatesInit ==
    /\ setting \in Settings
    /\ tasks = [t \in Askers \union Workers |-> IF t \in Workers THEN "running" ELSE "undeclared"]
    /\ order = <<>> /\ call = [g \in Askers |-> "idle"]
    /\ abort = [g \in Askers |-> "none"] /\ reachable = {}
    /\ stdin = [lines |-> <<>>, given |-> 0, ended |-> FALSE]
    /\ reader = [g \in Askers |-> "off"]
    /\ heard = [g \in Askers |-> Nothing] /\ returned = [g \in Askers |-> Nothing]
    /\ run = "running" /\ victims = {} /\ outputCancelled = FALSE

\* resolve: a settled Task stays as it is.
SettleTask(t, state) == IF tasks[t] \in Terminal THEN tasks ELSE [tasks EXCEPT ![t] = state]

-----------------------------------------------------------------------------
\* One call of Confirm.

\* promptConfirm's deferred delete.
Returns(g, value) ==
    /\ call' = [call EXCEPT ![g] = "over"]
    /\ returned' = [returned EXCEPT ![g] = value]
    /\ reachable' = reachable \ {g}

DeclareGate(g) ==
    /\ call[g] = "idle" /\ run # "over"
    /\ tasks' = [tasks EXCEPT ![g] = "pending"] /\ order' = Append(order, g)
    /\ call' = [call EXCEPT ![g] = "declared"]
    /\ UNCHANGED <<setting, abort, reachable, heard, returned, input, signal>>

\* AssumeYes, and the policy of a run without a terminal: nobody is asked.
Decided(g) ==
    /\ call[g] = "declared" /\ (g \in Assumed \/ Plain)
    /\ tasks' = SettleTask(g, IF g \in Assumed THEN "done" ELSE "blocked")
    /\ Returns(g, g \in Assumed)
    /\ UNCHANGED <<setting, order, abort, heard, input, signal>>

\* promptConfirm makes the gate known to a signal before it asks.
Register(g) ==
    /\ call[g] = "declared" /\ g \notin Assumed /\ ~Plain
    /\ abort' = [abort EXCEPT ![g] = "open"] /\ reachable' = reachable \union {g}
    /\ call' = [call EXCEPT ![g] = "asked"]
    /\ UNCHANGED <<setting, tasks, order, heard, returned, input, signal>>

\* readConfirmLine starts the reader and looks at abort before it waits.
StartReading(g) ==
    /\ call[g] = "asked"
    /\ reader' = [reader EXCEPT ![g] = "reading"]
    /\ IF abort[g] = "closed" THEN Returns(g, FALSE)
       ELSE call' = [call EXCEPT ![g] = "waiting"] /\ UNCHANGED <<returned, reachable>>
    /\ UNCHANGED <<setting, tasks, order, abort, stdin, heard, signal>>

\* Fault: what is read ahead of the line is dropped.
ReadAhead(g) ==
    /\ reader[g] = "reading" /\ (stdin.lines # <<>> \/ stdin.ended)
    /\ reader' = [reader EXCEPT ![g] = IF stdin.lines = <<>> THEN "eof" ELSE Head(stdin.lines)]
    /\ stdin' = [stdin EXCEPT !.lines = <<>>]
    /\ UNCHANGED <<setting, tasks, order, call, abort, reachable, heard, returned, signal>>

\* The reading goroutine gets its line, or the end of the input; one that
\* was aborted reads on. A buffered read of a pipe takes what is there.
Read(g) ==
    /\ reader[g] = "reading"
    /\ \/ /\ stdin.lines # <<>>
          /\ reader' = [reader EXCEPT ![g] = Head(stdin.lines)]
          /\ stdin' = [stdin EXCEPT !.lines = IF Piped THEN <<>> ELSE Tail(@)]
       \/ /\ stdin.lines = <<>> /\ stdin.ended
          /\ reader' = [reader EXCEPT ![g] = "eof"]
          /\ UNCHANGED stdin
    /\ UNCHANGED <<setting, tasks, order, call, abort, reachable, heard, returned, signal>>

\* select: with both ready, either.
Hear(g) ==
    /\ call[g] = "waiting" /\ reader[g] \in Answers \union {"eof"}
    /\ heard' = [heard EXCEPT ![g] = reader[g]]
    /\ call' = [call EXCEPT ![g] = "answered"]
    /\ UNCHANGED <<setting, tasks, order, abort, reachable, returned, input, signal>>

\* Fault: an aborted call waits for its reader to come back.
AbortedJoins(g) ==
    /\ call[g] = "waiting" /\ abort[g] = "closed" /\ reader[g] # "reading"
    /\ Returns(g, FALSE)
    /\ UNCHANGED <<setting, tasks, order, abort, heard, input, signal>>

Aborted(g) ==
    /\ call[g] = "waiting" /\ abort[g] = "closed"
    /\ Returns(g, FALSE)
    /\ UNCHANGED <<setting, tasks, order, abort, heard, input, signal>>

OutcomeOf(result) == IF result = "yes" THEN "done" ELSE "blocked"

\* The answer settles the gate; its row is flushed; the region is resumed.
Resolve(g) ==
    /\ call[g] = "answered"
    /\ tasks' = SettleTask(g, OutcomeOf(heard[g]))
    /\ call' = [call EXCEPT ![g] = "resolved"]
    /\ UNCHANGED <<setting, order, abort, reachable, heard, returned, input, signal>>

GiveAnswer(g) ==
    /\ call[g] = "resolved"
    /\ Returns(g, heard[g] = "yes")
    /\ UNCHANGED <<setting, tasks, order, abort, heard, input, signal>>

ConfirmCall(g) == \/ DeclareGate(g) \/ Decided(g) \/ Register(g) \/ StartReading(g)
                  \/ Hear(g) \/ Aborted(g) \/ Resolve(g) \/ GiveAnswer(g)

-----------------------------------------------------------------------------
\* The signal.

FirstSignal ==
    /\ run = "running" /\ run' = "cancelling"
    /\ UNCHANGED <<setting, tasks, order, call, abort, reachable, heard, returned, input, victims,
                   outputCancelled>>

\* cancelPendingConfirmLocked: one gate, whichever the map gives first.
CancelGate(g) ==
    /\ abort' = [abort EXCEPT ![g] = "closed"] /\ reachable' = reachable \ {g}
    /\ tasks' = SettleTask(g, "cancelled")

\* cancelActive: a gate that asks, else the Running Tasks, else the first
\* Pending one, else the output.
CancelActive ==
    LET running == {t \in DOMAIN tasks : tasks[t] = "running"}
        pending == {i \in DOMAIN order : tasks[order[i]] = "pending"}
        first == order[CHOOSE i \in pending : \A j \in pending : i <= j]
    IN
    /\ run = "cancelling"
    /\ CASE reachable # {} ->
              /\ \E g \in reachable : CancelGate(g)
              /\ run' = "abandoning" /\ UNCHANGED <<victims, outputCancelled>>
         [] reachable = {} /\ running # {} ->
              /\ run' = "victims" /\ victims' = running
              /\ UNCHANGED <<tasks, abort, reachable, outputCancelled>>
         [] reachable = {} /\ running = {} /\ pending # {} ->
              /\ run' = "victims" /\ victims' = {first}
              /\ UNCHANGED <<tasks, abort, reachable, outputCancelled>>
         [] OTHER ->
              /\ outputCancelled' = TRUE /\ run' = "abandoning"
              /\ UNCHANGED <<tasks, abort, reachable, victims>>
    /\ UNCHANGED <<setting, order, call, heard, returned, input>>

\* They are cancelled one by one, without the mutex in between.
CancelVictim ==
    /\ run = "victims"
    /\ \/ \E t \in victims :
            /\ tasks' = SettleTask(t, "cancelled") /\ victims' = victims \ {t}
            /\ UNCHANGED run
       \/ victims = {} /\ run' = "abandoning" /\ UNCHANGED <<tasks, victims>>
    /\ UNCHANGED <<setting, order, call, abort, reachable, heard, returned, input, outputCancelled>>

\* abandonQueuedWork: what has not begun never will.
AbandonQueuedWork ==
    /\ run = "abandoning" /\ run' = "interrupted"
    /\ tasks' = [t \in DOMAIN tasks |-> IF tasks[t] = "pending" THEN "notStarted" ELSE tasks[t]]
    /\ UNCHANGED <<setting, order, call, abort, reachable, heard, returned, input, victims, outputCancelled>>

Work(t) ==
    /\ tasks[t] = "running" /\ tasks' = [tasks EXCEPT ![t] = "done"]
    /\ UNCHANGED <<setting, order, call, abort, reachable, heard, returned, input, signal>>

\* run returns once it has its answers; a second signal does not wait for it.
RunEnds ==
    /\ \/ run = "interrupted"
       \/ run = "running" /\ \A g \in Askers : call[g] \in {"idle", "over"}
    /\ run' = "over"
    /\ UNCHANGED <<setting, tasks, order, call, abort, reachable, heard, returned, input, victims,
                   outputCancelled>>

-----------------------------------------------------------------------------
\* Who types.

Types(line) ==
    /\ ~stdin.ended /\ stdin.given < MaxLines
    /\ stdin' = [stdin EXCEPT !.lines = Append(@, line), !.given = @ + 1]
    /\ UNCHANGED <<setting, tasks, order, call, abort, reachable, reader, heard, returned, signal>>

InputEnds ==
    /\ ~stdin.ended /\ stdin' = [stdin EXCEPT !.ended = TRUE]
    /\ UNCHANGED <<setting, tasks, order, call, abort, reachable, reader, heard, returned, signal>>

Interrupt == FirstSignal \/ CancelActive \/ CancelVictim \/ AbandonQueuedWork

GatesNext == \/ \E g \in Askers : ConfirmCall(g) \/ Read(g)
             \/ \E t \in Workers : Work(t)
             \/ \E line \in Answers : Types(line)
             \/ Interrupt \/ RunEnds \/ InputEnds

\* Goroutines run.
Steps(g) == Decided(g) \/ Register(g) \/ StartReading(g) \/ Hear(g) \/ Aborted(g) \/ Resolve(g)
            \/ GiveAnswer(g)
GatesFairness == /\ \A g \in Askers : WF_confirms(Steps(g)) /\ WF_confirms(Read(g))
                 /\ WF_confirms(CancelActive \/ CancelVictim \/ AbandonQueuedWork)

\* Nobody need type anything: only a signal releases what waits.
GatesSpec == GatesInit /\ [][GatesNext]_confirms /\ GatesFairness

-----------------------------------------------------------------------------
\* Properties.

\* The type of every variable.
GatesTypeOK ==
    /\ \A t \in Workers : tasks[t] \in {"running"} \union Terminal
    /\ \A g \in Askers : /\ tasks[g] \in {"undeclared", "pending"} \union Terminal
                        /\ (tasks[g] = "undeclared") = (call[g] = "idle")
                        /\ (returned[g] = Nothing) = (call[g] # "over")
                        /\ reader[g] \in {"off", "reading", "eof"} \union Answers
    /\ \A g \in reachable : abort[g] = "open" /\ call[g] # "over"
    /\ Len(stdin.lines) <= stdin.given /\ stdin.given <= MaxLines

\* A gate ends as it was answered: a Done one had a yes or was assumed,
\* whatever a signal, the end of input or another gate's answer did
\* (confirm.go:135), and "no answer" is told only when there was none for it
\* (confirm.go:138).
EndsAsAnswered ==
    /\ \A g \in Askers : tasks[g] = "done" => g \in Assumed \/ heard[g] = "yes"
    /\ \A g \in Askers : heard[g] = "eof" =>
          stdin.given <= Cardinality({h \in Askers : reader[h] \in Answers})

\* A gate whose abort is closed returns, whoever types or does not
\* (interrupt.go:113).
AbortReleases == \A g \in Askers : abort[g] = "closed" ~> returned[g] # Nothing

=============================================================================
