------------------------------ MODULE MCManifest ------------------------------
(***************************************************************************)
(* What goroutines of a Run block on outside the engine: the manifest's    *)
(* lock and its flushes (Manifest), and the answer to a Confirm gate       *)
(* (Confirm).  A behaviour drives one of the two; the variables of the     *)
(* other keep their initial values.                                        *)
(***************************************************************************)
EXTENDS Manifest, Confirm

VARIABLE part   \* what the behaviour drives

\* Two Tasks and a Close in one Run, a Task and a Finish or a Close in the other.
TwoOwners == [a |-> 1, b |-> 1, c |-> 2, close |-> 1, other |-> 2]

\* Gates on a terminal; read from a pipe with the second one assumed, with and
\* without a terminal to ask on.
OnTerminal == [assumed |-> {}, plain |-> FALSE, piped |-> FALSE]
MCSettings == {OnTerminal, [assumed |-> {"h"}, plain |-> FALSE, piped |-> TRUE],
               [assumed |-> {"h"}, plain |-> TRUE, piped |-> TRUE]}

MCInit ==
    /\ Init /\ GatesInit /\ part \in {"store", "gates"}
    /\ part = "store" => setting = OnTerminal

StoreNext == part = "store" /\ Next /\ UNCHANGED <<part, confirms>>
ConfirmNext == part = "gates" /\ GatesNext /\ UNCHANGED <<part, vars>>

\* Each part is driven as fairly as its own specification says.
StoreFairness ==
    /\ \A t \in Tasks : WF_vars(part = "store" /\ TaskStep(t))
    /\ \A r \in Runs : /\ WF_vars(part = "store" /\ WriterStep(r))
                      /\ WF_vars(part = "store" /\ OrphanStep(r))
    /\ \A c \in Calls : WF_vars(part = "store" /\ CallStep(c))

MCSpec ==
    /\ MCInit /\ [][StoreNext \/ ConfirmNext]_<<part, vars, confirms>>
    /\ StoreFairness /\ GatesFairness

\* Where the store is driven, no Flush waits for a writer that gave up and no
\* Run waits for ever for the lock (store.go).
EveryRunEnds == part = "store" => EveryoneEnds
==============================================================================
