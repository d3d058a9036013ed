------------------------------ MODULE MCClaims ------------------------------
(***************************************************************************)
(* Resource claims, from both sides: the registry that grants them, on a   *)
(* directory and a file in it, and the goroutines that may or may not Wait *)
(* while they hold one.  A behaviour drives one of the two; the variables  *)
(* of the other keep their initial values.                                 *)
(***************************************************************************)
EXTENDS Registry, HeldWait

CONSTANTS dir, h3

MCContains == {dir} \X (Keys \ {dir})

VARIABLE part   \* what the behaviour drives

\* "stuck": two calls of the registry, whose callbacks need not return.
MCInit == Init /\ GoroutinesInit /\ part \in {"registry", "stuck", "goroutines"}

RegistryNext ==
    /\ part # "goroutines"
    /\ Next
    /\ part = "stuck" => pc'[h3] = "idle"
    /\ UNCHANGED <<part, goroutines>>

HeldWaitNext ==
    /\ part = "goroutines"
    /\ GoroutinesNext
    /\ UNCHANGED <<part, vars>>

StuckEnds ==
    /\ part = "stuck" /\ \A h \in Holds \ {h3} : pc[h] \in {"returned", "refused"}
    /\ UNCHANGED <<part, vars, goroutines>>

MCNext == RegistryNext \/ StuckEnds \/ HeldWaitNext

MCSpec ==
    /\ MCInit
    /\ [][MCNext]_<<part, vars, goroutines>>
    /\ \A h \in Holds :
          /\ WF_vars(Progress(h))
          /\ WF_vars(part = "registry" /\ Return(h))

\* A claim that waits is eventually granted or withdrawn where callbacks return;
\* a caller that gives up leaves the registry even where none does
\* (HoldResource: "If ctx ends while waiting, it returns its cause").
ClaimsServed == (part = "registry" => WaitersServed) /\ CancelledReturns
=============================================================================
