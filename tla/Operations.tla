------------------------------ MODULE Operations ------------------------------
(***************************************************************************)
(* File, Exec and Patch with Files, reconciled against the manifest over   *)
(* several Runs of one program.  A Task's callback issues its operations   *)
(* in order; each is skipped when the record of an earlier Run proves it   *)
(* current, and a whole Task is when its own Basis and the outputs it      *)
(* recorded still hold.  Contents are terms that tell what wrote them, so  *)
(* two contents have one digest exactly when they are the same term.       *)
(*                                                                         *)
(* A scene fixes the program: ops, each Task's sequence of operations      *)
(* [kind, outs, basis]; watched, the Basis of a Task; after, the declared  *)
(* order; dry, the modes a Run may have; rivals, the paths that Files of   *)
(* another Output may rewrite during a Run; faulty, whether operations and *)
(* callbacks may fail and the process may crash; swallows, whether a       *)
(* callback may go on past the error of an operation.  What is written     *)
(* from outside the program, between Runs or by rivals, is always new.     *)
(*                                                                         *)
(* An operator marked "Fault" is a plausible bug in the definition after   *)
(* it and is no part of the model.                                         *)
(***************************************************************************)
EXTENDS Naturals, Sequences, FiniteSets, Functions

CONSTANTS Tasks, Paths,
          Nil,       \* no content; no record; nobody
          Programs,  \* the scenes
          MaxRuns,   \* Runs of the program
          MaxEdits   \* contents given from outside it

Operation == [kind : {"file", "exec", "patch"}, outs : Seq(Paths), basis : SUBSET Paths]

ASSUME OperationsAssumption ==
    /\ Nil \notin Tasks
    /\ \A s \in Programs : \A t \in Tasks :
        /\ s.ops[t] \in Seq(Operation) /\ s.watched[t] \subseteq Paths
        /\ \A k \in DOMAIN s.ops[t] :
            /\ s.ops[t][k].kind # "exec" => Len(s.ops[t][k].outs) = 1
            /\ s.ops[t][k].kind = "patch" => s.ops[t][k].basis = {}
            /\ s.watched[t] # {} => s.ops[t][k].basis \subseteq s.watched[t]

VARIABLES
    program, dry,  \* the scene; whether this Run is dry
    phase,         \* of the workspace: between "runs", or in a "run"
    runs, edits,   \* Runs begun, contents given from outside
    disk,          \* contents of each path, Nil when it is missing
    store, saved,  \* the manifest in memory and on disk, by Task
    stage, at,        \* stage of each Task, index of its operation
    pending,       \* manifestOps: its records of this Run
    watching,      \* basisObserved, Nil until the verdict
    seen, passed,  \* Basis observed by the operation, barriers awaited
    source,        \* what Patch read
    owner, gate,   \* manifestClaims; outputGates: "none", "open", "settled"
    writer,        \* who holds a path for writing
    skipped,       \* operations found current in this Run, by Task
    steady,        \* nothing has gone wrong since the Run began, nor been touched
    calm           \* nor since the one before, which was real and ended all Done

run == <<stage, at, pending, watching, seen, passed, source, owner, gate, writer, skipped>>
world == <<program, dry, phase, runs, edits, disk, store, saved, steady, calm>>
operations == <<world, run>>

NoRecord == [ops |-> <<>>, basis |-> Nil]
Nothing == [p \in {} |-> Nil]

Ended == {"done", "failed"}
\* The stages of an operation that has claimed its outputs.
Claimed == {"awaiting", "observing", "held", "child", "verifying"}

Op(t) == program.ops[t][at[t]]
Out(t) == Op(t).outs[1]
Outs(t) == Range(Op(t).outs)
Issuing(t, kind) == stage[t] = "callback" /\ at[t] <= Len(program.ops[t]) /\ Op(t).kind = kind
At(t, where, kinds) == stage[t] = where /\ Op(t).kind \in kinds

-----------------------------------------------------------------------------
(* Contents *)

\* A diff whose hunks only insert: it applies to whatever is there, and
\* what it leaves matches both of its sides.
Patched(c) == <<"patched", c>>
Applied(c) == c # Nil /\ c[1] = "patched"

\* What an Exec, given its inputs, or a File leaves.
ExecLeaves(t, k, inputs) == <<"exec", t, k, inputs>>
FileLeaves(t, k) == <<"file", t, k>>

\* taskLastLeft: these bytes are what this edit left in the Task's last Run.
LastLeft(t, c) == \E r \in Range(store[t].ops) : r.op = at[t] /\ r.outs = <<c>>

\* Fault: a diff that applies is applied.
DesiredForward(t) ==
    IF Op(t).kind = "file" THEN FileLeaves(t, at[t]) ELSE Patched(source[t])

\* desiredContents: the bytes Files is to establish; File gives its own.
Desired(t) ==
    IF Op(t).kind = "file" THEN FileLeaves(t, at[t])
    ELSE IF Applied(source[t]) /\ LastLeft(t, source[t]) THEN source[t]
    ELSE Patched(source[t])

-----------------------------------------------------------------------------
(* Records *)

\* The definition an operation is recorded under, its Basis included.
Definition(t) ==
    [op |-> at[t], contents |-> IF Op(t).kind = "exec" THEN Nil ELSE Desired(t)]

RecordOver(t, basis) ==
    [op |-> at[t], definition |-> Definition(t), basis |-> basis, paths |-> Op(t).outs,
     outs |-> [i \in DOMAIN Op(t).outs |-> disk[Op(t).outs[i]]]]

\* Fault: the Basis is observed again when all is done.
RecordedAfter(t) == RecordOver(t, [p \in DOMAIN seen[t] |-> disk[p]])

\* The Basis recorded is the one observed before the work.
Record(t) == RecordOver(t, seen[t])

\* The record an earlier Run left at this operation's ordinal.
HasPrior(t) == Len(pending[t]) < Len(store[t].ops)
Prior(t) == store[t].ops[Len(pending[t]) + 1]

OutputsHold(rec) == \A i \in DOMAIN rec.paths : disk[rec.paths[i]] = rec.outs[i]

\* fileOperationCurrent, execOperationCurrent.
IsCurrent(t) ==
    /\ Op(t).outs # <<>> /\ HasPrior(t)
    /\ Prior(t).basis = seen[t] /\ Prior(t).definition = Definition(t)
    /\ Prior(t).paths = Op(t).outs /\ OutputsHold(Prior(t))

\* recordedOutputsHold.
RecordedOutputsHold(t) == \A r \in Range(store[t].ops) : OutputsHold(r)

-----------------------------------------------------------------------------
(* The end of an operation *)

Settled(ps) == [p \in Paths |-> IF p \in ps /\ gate[p] = "open" THEN "settled" ELSE gate[p]]
Unheld(t) == [p \in Paths |-> IF writer[p] = t THEN Nil ELSE writer[p]]

\* It returns: the barriers of its outputs settle and its claim is released.
Returns(t) == gate' = Settled(Outs(t)) /\ writer' = Unheld(t)

Forget(t) ==
    /\ seen' = [seen EXCEPT ![t] = Nothing] /\ passed' = [passed EXCEPT ![t] = {}]
    /\ source' = [source EXCEPT ![t] = Nil]

GoesOn(t) ==
    /\ stage' = [stage EXCEPT ![t] = "callback"] /\ at' = [at EXCEPT ![t] = @ + 1] /\ Forget(t)

Disturbed == steady' = FALSE /\ calm' = FALSE

\* With an error, which the callback returns or swallows.
Errs(t) ==
    /\ \/ program.swallows /\ GoesOn(t)
       \/ stage' = [stage EXCEPT ![t] = "failed"] /\ Forget(t) /\ UNCHANGED at
    /\ Disturbed /\ UNCHANGED <<pending, skipped>>

\* appendManifestOperationLocked.
Records(t, rec) == pending' = [pending EXCEPT ![t] = Append(@, rec)]

Still == UNCHANGED <<program, dry, phase, runs, edits, store, saved>>

-----------------------------------------------------------------------------
(* A Task *)

Start(t) ==
    /\ phase = "run" /\ stage[t] = "waiting"
    /\ \A u \in Tasks : <<u, t>> \in program.after => stage[u] = "done"
    /\ stage' = [stage EXCEPT ![t] = IF program.watched[t] = {} THEN "callback" ELSE "basis"]
    /\ UNCHANGED <<world, at, pending, watching, seen, passed, source, owner, gate, writer, skipped>>

\* A Task whose predecessor failed never starts.
GivenUp(t) ==
    /\ phase = "run" /\ stage[t] = "waiting"
    /\ \E u \in Tasks : <<u, t>> \in program.after /\ stage[u] = "failed"
    /\ stage' = [stage EXCEPT ![t] = "failed"]
    /\ UNCHANGED <<world, at, pending, watching, seen, passed, source, owner, gate, writer, skipped>>

\* observeTaskBasis: input by input, under no claim and behind no barrier.
ObserveWatched(t) ==
    /\ stage[t] = "basis"
    /\ \E p \in program.watched[t] \ DOMAIN seen[t] :
          seen' = [seen EXCEPT ![t] = [q \in DOMAIN @ \cup {p} |->
                                          IF q = p THEN disk[p] ELSE @[q]]]
    /\ UNCHANGED <<world, stage, at, pending, watching, passed, source, owner, gate, writer, skipped>>

\* basisIsCurrent: a current Task settles Done with the records it had.
BasisVerdict(t) ==
    /\ stage[t] = "basis" /\ DOMAIN seen[t] = program.watched[t]
    /\ watching' = [watching EXCEPT ![t] = seen[t]]
    /\ seen' = [seen EXCEPT ![t] = Nothing]
    /\ IF store[t].basis = seen[t] /\ RecordedOutputsHold(t)
       THEN /\ stage' = [stage EXCEPT ![t] = "done"]
            /\ skipped' = [skipped EXCEPT ![t] = DOMAIN program.ops[t]]
            /\ pending' = [pending EXCEPT ![t] = store[t].ops]
       ELSE stage' = [stage EXCEPT ![t] = "callback"] /\ UNCHANGED <<skipped, pending>>
    /\ UNCHANGED <<world, at, passed, source, owner, gate, writer>>

\* operationsToCommit, commitManifestTaskLocked: what the Task recorded
\* replaces what it had; a Task that recorded nothing is opaque.
Committed(t) == [store EXCEPT ![t] = [ops |-> pending[t], basis |-> watching[t]]]

\* The callback returns nil, and the Task settles Done.
SettleDone(t) ==
    /\ stage[t] = "callback" /\ at[t] > Len(program.ops[t])
    /\ stage' = [stage EXCEPT ![t] = "done"] /\ store' = Committed(t)
    /\ UNCHANGED <<program, dry, phase, runs, edits, disk, saved, steady, calm, at, pending, watching,
                   seen, passed, source, owner, gate, writer, skipped>>

\* The callback returns an error of its own: nothing is committed.
CallbackFails(t) ==
    /\ program.faulty /\ stage[t] = "callback" /\ stage' = [stage EXCEPT ![t] = "failed"]
    /\ UNCHANGED <<world, at, pending, watching, seen, passed, source, owner, gate, writer, skipped>>

-----------------------------------------------------------------------------
(* Claims and the Basis of an operation *)

\* claimManifestOutputLocked over the outputs in order: those before the
\* first that another Task claimed are claimed, with a barrier each.
Conflict(t, outs) == {i \in DOMAIN outs : owner[outs[i]] \notin {Nil, t}}
ClaimedOuts(t, outs) ==
    {outs[i] : i \in {j \in DOMAIN outs : \A c \in Conflict(t, outs) : j < c}}

Opened(ps) == [p \in Paths |-> IF p \in ps /\ gate[p] = "none" THEN "open" ELSE gate[p]]

\* claimExecOutputs unwinds the barriers it opened.
Unwound(ps) ==
    [p \in Paths |-> IF p \in ps /\ gate[p] \in {"none", "open"} THEN "settled" ELSE gate[p]]

ClaimOutputs(t) ==
    /\ Issuing(t, "exec") \/ Issuing(t, "file") \/ stage[t] = "derived"
    /\ LET ps == ClaimedOuts(t, Op(t).outs) IN
       /\ owner' = [p \in Paths |-> IF p \in ps THEN t ELSE owner[p]]
       /\ IF Conflict(t, Op(t).outs) = {}
          THEN /\ gate' = Opened(ps)
               /\ stage' = [stage EXCEPT ![t] = IF Op(t).kind = "exec" THEN "awaiting" ELSE "observing"]
               /\ UNCHANGED <<steady, calm, pending, skipped, at, seen, passed, source>>
          ELSE gate' = Unwound(ps) /\ Errs(t)
    /\ Still /\ UNCHANGED <<disk, watching, writer>>

\* awaitOutputBarrier, for Exec alone: path by path, and not again.
Await(t) ==
    /\ stage[t] = "awaiting"
    /\ \/ \E p \in Op(t).basis \ passed[t] :
             gate[p] # "open" /\ passed' = [passed EXCEPT ![t] = @ \cup {p}] /\ UNCHANGED stage
       \/ passed[t] = Op(t).basis /\ stage' = [stage EXCEPT ![t] = "observing"] /\ UNCHANGED passed
    /\ UNCHANGED <<world, at, pending, watching, seen, source, owner, gate, writer, skipped>>

\* observeBasis: each path under its own read claim.
Observe(t) ==
    /\ stage[t] = "observing"
    /\ \E p \in Op(t).basis \ DOMAIN seen[t] :
          /\ writer[p] = Nil
          /\ seen' = [seen EXCEPT ![t] = [q \in DOMAIN @ \cup {p} |->
                                             IF q = p THEN disk[p] ELSE @[q]]]
    /\ UNCHANGED <<world, stage, at, pending, watching, passed, source, owner, gate, writer, skipped>>

Observed(t) == DOMAIN seen[t] = Op(t).basis

-----------------------------------------------------------------------------
(* File, and Files over what Patch derived *)

\* Patch reads its source, which has to exist, under a read claim.
Derive(t) ==
    /\ Issuing(t, "patch") /\ writer[Out(t)] = Nil
    /\ IF disk[Out(t)] = Nil
       THEN Errs(t)
       ELSE /\ source' = [source EXCEPT ![t] = disk[Out(t)]]
            /\ stage' = [stage EXCEPT ![t] = "derived"]
            /\ UNCHANGED <<steady, calm, at, pending, seen, passed, skipped>>
    /\ Still /\ UNCHANGED <<disk, watching, owner, gate, writer>>

\* Fault: what Patch read is not looked at again.
ValidAnyway(t) == TRUE

\* revalidate: what Patch read, or already what it is to be.
Valid(t) == Op(t).kind = "patch" => disk[Out(t)] \in {source[t], Desired(t)}

\* establishFile holds the path for writing and revalidates.
Hold(t) ==
    /\ At(t, "observing", {"file", "patch"}) /\ Observed(t) /\ writer[Out(t)] = Nil
    /\ IF Valid(t)
       THEN /\ writer' = [writer EXCEPT ![Out(t)] = t] /\ stage' = [stage EXCEPT ![t] = "held"]
            /\ UNCHANGED <<steady, calm, pending, skipped, at, seen, passed, source, gate>>
       ELSE Errs(t) /\ Returns(t)
    /\ Still /\ UNCHANGED <<disk, watching, owner>>

\* At the verdict of the manifest.
Consulting(t) == stage[t] = "held" \/ (At(t, "observing", {"exec"}) /\ Observed(t))

\* The prior record is committed again with what the Task records now.
CarryForward(t) == IF dry THEN UNCHANGED pending ELSE Records(t, Prior(t))

\* carryForwardCurrentFile and its like in execEvaluate.
SkipCurrent(t) ==
    /\ Consulting(t) /\ IsCurrent(t)
    /\ skipped' = [skipped EXCEPT ![t] = @ \cup {at[t]}]
    /\ CarryForward(t) /\ GoesOn(t) /\ Returns(t)
    /\ Still /\ UNCHANGED <<disk, steady, calm, watching, owner>>

\* A dry Run plans it.
Plan(t) ==
    /\ Consulting(t) /\ ~IsCurrent(t) /\ dry
    /\ GoesOn(t) /\ Returns(t)
    /\ Still /\ UNCHANGED <<disk, steady, calm, pending, watching, owner, skipped>>

\* applyFile: the contents are replaced when they differ.
Establish(t) ==
    /\ stage[t] = "held" /\ ~IsCurrent(t) /\ ~dry
    /\ disk' = [disk EXCEPT ![Out(t)] = Desired(t)]
    /\ Records(t, [Record(t) EXCEPT !.outs = <<Desired(t)>>])
    /\ GoesOn(t) /\ Returns(t)
    /\ Still /\ UNCHANGED <<steady, calm, watching, owner, skipped>>

\* The write fails, which leaves the path as it was, or the digest does.
FileFails(t) ==
    /\ program.faulty /\ stage[t] = "held" /\ ~IsCurrent(t) /\ ~dry
    /\ disk' \in {disk, [disk EXCEPT ![Out(t)] = Desired(t)]}
    /\ Errs(t) /\ Returns(t)
    /\ Still /\ UNCHANGED <<watching, owner>>

-----------------------------------------------------------------------------
(* Exec *)

\* The child is started; until it ends its outputs are half written.
Spawn(t) ==
    /\ At(t, "observing", {"exec"}) /\ Observed(t) /\ ~IsCurrent(t) /\ ~dry
    /\ stage' = [stage EXCEPT ![t] = "child"]
    /\ disk' = [p \in Paths |-> IF p \in Outs(t) THEN <<"torn", t, at[t]>> ELSE disk[p]]
    /\ Still
    /\ UNCHANGED <<steady, calm, at, pending, watching, seen, passed, source, owner, gate,
                   writer, skipped>>

\* It exits zero, having written its outputs from what its inputs then were.
ChildEnds(t) ==
    /\ stage[t] = "child" /\ stage' = [stage EXCEPT ![t] = "verifying"]
    /\ LET left == ExecLeaves(t, at[t], [p \in Op(t).basis |-> disk[p]]) IN
       \/ disk' = [p \in Paths |-> IF p \in Outs(t) THEN left ELSE disk[p]]
       \/ /\ program.faulty  \* without one of them
          /\ \E q \in Outs(t) :
                disk' = [p \in Paths |-> IF p = q THEN Nil ELSE IF p \in Outs(t) THEN left ELSE disk[p]]
    /\ Still
    /\ UNCHANGED <<steady, calm, at, pending, watching, seen, passed, source, owner, gate,
                   writer, skipped>>

\* It cannot be run, exits nonzero or is killed.
ChildFails(t) ==
    /\ program.faulty /\ stage[t] = "child" /\ Errs(t) /\ Returns(t)
    /\ Still /\ UNCHANGED <<disk, watching, owner>>

\* observeVerifiedExecOutputs, and the record under the Basis observed before.
Verify(t) ==
    /\ stage[t] = "verifying"
    /\ IF \E p \in Outs(t) : disk[p] = Nil
       THEN Errs(t)
       ELSE Records(t, Record(t)) /\ GoesOn(t) /\ UNCHANGED <<steady, calm, skipped>>
    /\ Returns(t) /\ Still /\ UNCHANGED <<disk, watching, owner>>

-----------------------------------------------------------------------------
(* Runs, and what happens outside them *)

EachTask(v) == [t \in Tasks |-> v]
EachPath(v) == [p \in Paths |-> v]

\* A Run keeps nothing of the one before but the manifest.
FreshRun ==
    /\ stage' = EachTask("waiting") /\ at' = EachTask(1) /\ pending' = EachTask(<<>>)
    /\ watching' = EachTask(Nil) /\ seen' = EachTask(Nothing) /\ passed' = EachTask({})
    /\ source' = EachTask(Nil) /\ skipped' = EachTask({})
    /\ owner' = EachPath(Nil) /\ gate' = EachPath("none") /\ writer' = EachPath(Nil)

Begin ==
    /\ phase = "runs" /\ runs < MaxRuns
    /\ phase' = "run" /\ runs' = runs + 1 /\ dry' \in program.dry /\ steady' = TRUE
    /\ UNCHANGED <<program, edits, disk, store, saved, calm, run>>

\* Finish flushes the manifest and lets go of it.
Finish ==
    /\ phase = "run" /\ \A t \in Tasks : stage[t] \in Ended
    /\ phase' = "runs" /\ saved' = store /\ FreshRun
    /\ calm' = (steady /\ ~dry /\ \A t \in Tasks : stage[t] = "done") /\ dry' = FALSE
    /\ UNCHANGED <<program, runs, edits, disk, store, steady>>

\* The background writer has written what is committed so far.
Save ==
    /\ program.faulty /\ phase = "run" /\ saved # store /\ saved' = store
    /\ UNCHANGED <<program, dry, phase, runs, edits, disk, store, steady, calm, run>>

ProcessEnds ==
    /\ program.faulty /\ phase = "run"
    /\ phase' = "runs" /\ store' = saved /\ dry' = FALSE /\ Disturbed /\ FreshRun
    /\ UNCHANGED <<program, runs, edits, disk, saved>>

\* Someone edits or removes a path between Runs, or a File of another
\* Output of the process rewrites it during one.
Edit ==
    /\ edits < MaxEdits /\ edits' = edits + 1 /\ Disturbed
    /\ \E p \in Paths :
          /\ phase = "run" => p \in program.rivals /\ writer[p] = Nil
          /\ \E c \in {<<"edit", edits + 1>>} \cup {m \in {Nil} : p \notin program.rivals} :
                disk' = [disk EXCEPT ![p] = c]
    /\ UNCHANGED <<program, dry, phase, runs, store, saved, run>>

OperationsInit ==
    /\ program \in Programs /\ dry = FALSE /\ phase = "runs" /\ runs = 0 /\ edits = 0
    /\ disk = [p \in Paths |-> <<"edit", 0>>]
    /\ store = [t \in Tasks |-> NoRecord] /\ saved = store /\ steady = FALSE /\ calm = FALSE
    /\ stage = EachTask("waiting") /\ at = EachTask(1) /\ pending = EachTask(<<>>)
    /\ watching = EachTask(Nil) /\ seen = EachTask(Nothing) /\ passed = EachTask({})
    /\ source = EachTask(Nil) /\ skipped = EachTask({})
    /\ owner = EachPath(Nil) /\ gate = EachPath("none") /\ writer = EachPath(Nil)

TaskStep(t) ==
    \/ Start(t) \/ GivenUp(t) \/ ObserveWatched(t) \/ BasisVerdict(t)
    \/ SettleDone(t) \/ CallbackFails(t)
    \/ ClaimOutputs(t) \/ Await(t) \/ Observe(t) \/ SkipCurrent(t) \/ Plan(t)
    \/ Derive(t) \/ Hold(t) \/ Establish(t) \/ FileFails(t)
    \/ Spawn(t) \/ ChildEnds(t) \/ ChildFails(t) \/ Verify(t)

OperationsNext == (\E t \in Tasks : TaskStep(t)) \/ Begin \/ Finish \/ Save \/ ProcessEnds \/ Edit

OperationsSpec == OperationsInit /\ [][OperationsNext]_operations

-----------------------------------------------------------------------------
(* Properties *)

\* The type of every variable; a content is Nil or a term that tells its writer.
OperationsTypeOK ==
    /\ program \in Programs /\ dry \in BOOLEAN /\ steady \in BOOLEAN /\ calm \in BOOLEAN
    /\ phase \in {"runs", "run"} /\ runs \in 0..MaxRuns /\ edits \in 0..MaxEdits
    /\ DOMAIN disk = Paths /\ DOMAIN store = Tasks /\ DOMAIN saved = Tasks
    /\ stage \in [Tasks -> {"waiting", "basis", "callback", "derived"} \cup Claimed \cup Ended]
    /\ \A t \in Tasks :
        /\ at[t] \in 1..(Len(program.ops[t]) + 1) /\ skipped[t] \subseteq DOMAIN program.ops[t]
        /\ DOMAIN seen[t] \cup passed[t] \subseteq Paths
        /\ \A rs \in {pending[t], store[t].ops, saved[t].ops} : Len(rs) <= Len(program.ops[t])
        /\ watching[t] # Nil => DOMAIN watching[t] = program.watched[t]
    /\ DOMAIN source = Tasks
    /\ owner \in [Paths -> Tasks \cup {Nil}] /\ writer \in [Paths -> Tasks \cup {Nil}]
    /\ gate \in [Paths -> {"none", "open", "settled"}]

\* What running operation k on the Basis in obs leaves at path p.
Done(t, k, p, obs) ==
    LET op == program.ops[t][k] IN
    CASE op.kind = "file" -> disk[p] = FileLeaves(t, k)
      [] op.kind = "patch" -> Applied(disk[p])
      [] op.kind = "exec" -> disk[p] = ExecLeaves(t, k, [q \in op.basis |-> obs[q]])

\* Nothing is taken for current that is not.  Whatever was edited, removed,
\* left torn by a child, half committed by a crash, or rewritten while it was
\* read, an operation that is skipped has at each of its outputs what running
\* it on the Basis just observed leaves, and a Task skipped by its own Basis
\* has that for every operation of its callback (fileOperationCurrent,
\* execOperationCurrent, basisIsCurrent).
NoFalseSatisfaction ==
    [][\A t \in Tasks : phase' = "run" => \A k \in skipped'[t] \ skipped[t] :
          \A p \in Range(program.ops[t][k].outs) : Done(t, k, p, seen[t])]_operations

\* A Run over what the last one left Done, nothing touched in between, writes
\* nothing and starts no child: each skipped operation carries its record
\* forward, and a diff already applied is not applied again.
SecondRunQuiet ==
    [][phase = "run" /\ calm /\ calm' => disk' = disk /\ \A t \in Tasks : stage'[t] # "child"]_operations

\* Files never replaces contents it has not seen: another Output's File may
\* land after Patch read the path, and never between the revalidation and the
\* write (establishFile, revalidate).
NeverOverwritten ==
    [][\A t \in Tasks : stage[t] = "held" /\ Op(t).kind = "patch" /\ disk'[Out(t)] # disk[Out(t)]
          => disk[Out(t)] = source[t]]_operations

\* A barrier is open only while the operation that claimed its path is under
\* way: one that failed, was skipped, planned, or refused over one of several
\* outputs leaves no Exec waiting (claimExecOutputs, settleOutputBarrier).
NoDanglingBarrier ==
    phase = "run" => \A p \in Paths : gate[p] = "open" =>
        \E t \in Tasks : owner[p] = t /\ stage[t] \in Claimed /\ p \in Outs(t)
=============================================================================
