------------------------------ MODULE MCRunEnds ------------------------------
(***************************************************************************)
(* The end of a Run (Conclude), and the lock files of the paths that its   *)
(* processes claim (PathLocks).  They share no state: a behaviour drives   *)
(* one of the two, and the variables of the other keep their initial       *)
(* values.                                                                 *)
(***************************************************************************)
EXTENDS Conclude, PathLocks

VARIABLE part   \* what the behaviour drives

-----------------------------------------------------------------------------
\* A row at the root, one in a group and one in a group nested in it; a
\* sequence under a dry run whose callback may call Finish; a group whose run
\* is signalled once or twice.

Deep ==
    [rows |-> 1..3, groups |-> {1, 2}, home |-> <<0, 1, 2>>, outer |-> <<0, 1>>,
     sequences |-> {}, work |-> {2}, notes |-> {"warned"},
     verbs |-> {"done", "blocked", "failed", "cancelled"},
     dryRun |-> FALSE, failedCode |-> 2, signals |-> 0, ownFinish |-> FALSE]

Planned ==
    [rows |-> 1..3, groups |-> {1}, home |-> <<1, 1, 1>>, outer |-> <<0>>,
     sequences |-> {1}, work |-> {}, notes |-> {"effect", "problem"},
     verbs |-> {"done", "failed", "blocked"},
     dryRun |-> TRUE, failedCode |-> 1, signals |-> 0, ownFinish |-> TRUE]

Signalled ==
    [rows |-> 1..2, groups |-> {1}, home |-> <<1, 1>>, outer |-> <<0>>,
     sequences |-> {}, work |-> {2}, notes |-> {"effect"}, verbs |-> {"done", "skipped"},
     dryRun |-> FALSE, failedCode |-> 2, signals |-> 2, ownFinish |-> FALSE]

MCScenes == {Deep, Planned, Signalled}

-----------------------------------------------------------------------------
\* A directory and two entries of it.  Process 1 claims the directory and an
\* entry, process 2 the same entry, and process 3 tries its sibling.

Dir == <<"root", "dir">>
Left == <<"root", "dir", "left">>
Right == <<"root", "dir", "right">>

MCSteps == [a |-> Dir, b |-> Left, c |-> Left, d |-> Right]
MCProc == [a |-> 1, b |-> 1, c |-> 2, d |-> 3]

-----------------------------------------------------------------------------
\* The scene of a Run that is not driven does not matter.
MCInit ==
    /\ Init /\ LocksInit
    /\ part \in {"run", "locks"}
    /\ (part = "locks") = (\E a \in Actors : pc[a] = "call")
    /\ part = "locks" => scene = Signalled

RunNext == part = "run" /\ Next /\ UNCHANGED <<part, lockVars>>
PathLocksNext == part = "locks" /\ LocksNext /\ UNCHANGED <<part, vars>>

MCSpec ==
    /\ MCInit /\ [][RunNext \/ PathLocksNext]_<<part, vars, lockVars>>
    /\ WF_vars(part = "run" /\ RunStep)
    /\ WF_vars(part = "run" /\ \E e \in {"nil", "error"} : Return(e))
    /\ WF_vars(part = "run" /\ \E r \in Work : row[r] = "running"
                                               /\ \E s \in scene.verbs : Settle(r, s))
    /\ \A a \in Actors : WF_lockVars(Take(a) \/ Drop(a))

\* Where a Run is driven, it returns, after a callback that ends in any way or
\* a second signal (run.go).
EveryRunReturns == part = "run" => RunReturns
=============================================================================
