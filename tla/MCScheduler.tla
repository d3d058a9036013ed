---------------------------- MODULE MCScheduler -----------------------------
(***************************************************************************)
(* Scheduler on the small programs of the .cfg files beside it.            *)
(***************************************************************************)
EXTENDS Scheduler

CONSTANTS main, other

None == {}

\* A Sequence of three steps.  The program fails the first or proposes to skip
\* it, and a caller waits for the last ...
ThreeSteps == {1, 2, 3}
StepVerbs == {<<1, "Failed">>, <<1, "Skipped">>}
LastStepWait == {<<main, 3>>}
\* ... or puts the first step after itself, which stops all of them.
FirstAfterItself == {<<1, 1>>}

\* Tasks 2 and 3 may come after each other, so every part of a cycle occurs.
\* The callback of 2 waits for 1, and that of 1 for 3: with the edge from 3 to
\* 2 the wait can never end, without it it must.
CycleLinks == {<<3, 2>>, <<2, 3>>}
NestedWaits == {<<1, 3>>, <<2, 1>>}

\* Two Tasks that may come after each other, whose callbacks wait for each
\* other.
TwoCycle == {<<1, 2>>, <<2, 1>>}
MutualWaits == {<<1, 2>>, <<2, 1>>}

\* Two callers, each on a Task of its own, and a Task after itself.
CallersWait == {<<main, 1>>, <<other, 2>>}
SelfLink == {<<2, 2>>}

\* The callback of 2 waits for the second of two steps, and that of 1 for 2.
TwoSteps == {3, 4}
ChainedWaits == {<<2, 4>>, <<1, 2>>}

=============================================================================
