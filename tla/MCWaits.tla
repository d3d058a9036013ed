------------------------------- MODULE MCWaits --------------------------------
(***************************************************************************)
(* Scheduler on two programs at once, of which a behaviour runs one: three *)
(* Tasks of which two may come after each other, whose callbacks Wait, and *)
(* no signal; and two that may come after each other, whose callbacks Wait *)
(* for each other, with a signal at any moment.                            *)
(***************************************************************************)
EXTENDS MCScheduler

VARIABLE part   \* what the behaviour runs

AnyLinks == CycleLinks \cup TwoCycle
AnyWaits == NestedWaits \cup MutualWaits

\* What its program may do.
ItsLinks == IF part = "cycle" THEN CycleLinks ELSE TwoCycle
ItsWaits == IF part = "cycle" THEN NestedWaits ELSE MutualWaits
Its ==
    /\ \A t \in Tasks : {t} \X after'[t] \subseteq ItsLinks
    /\ \A w \in Tasks : waiting'[w] # "idle" => <<w, target'[w]>> \in ItsWaits
    /\ IF part = "cycle" THEN ~cancelled' ELSE declared' \in 0..2

MCSpec ==
    /\ Init /\ part \in {"cycle", "signal"}
    /\ [][Next /\ Its /\ UNCHANGED part]_<<vars, part>>
    /\ WF_vars(Runtime)
===============================================================================
