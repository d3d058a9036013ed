------------------------------- MODULE MCFiles --------------------------------
(***************************************************************************)
(* What changes files: the operations of a program over its manifest       *)
(* (Operations), and the publication of staged content (Publish).  A       *)
(* behaviour drives one of the two; the variables of the other keep their  *)
(* initial values.                                                         *)
(***************************************************************************)
EXTENDS Publish, Operations

CONSTANTS c1, c2, c3, r1, r2, m1, Parts

VARIABLE part   \* what the behaviour drives

-----------------------------------------------------------------------------
(* Programs of two Tasks *)

Does(kind, outs, basis) == [kind |-> kind, outs |-> outs, basis |-> basis]
Program(a, b) ==
    [ops |-> [t \in Tasks |-> IF t = "a" THEN a ELSE b], after |-> {},
     watched |-> [t \in Tasks |-> {}], dry |-> {FALSE}, rivals |-> {},
     faulty |-> TRUE, swallows |-> TRUE]
InOrder == {<<"a", "b">>}

\* One Exec makes what the next one reads, which is watched as a whole.
Pipeline ==
    [Program(<<Does("exec", <<"mid">>, {"in"})>>, <<Does("exec", <<"out">>, {"mid"})>>)
       EXCEPT !.after = InOrder, !.watched["b"] = {"mid"}, !.rivals = {"in"}, !.swallows = FALSE]

\* A File and an Exec in one callback.
TwoInOne ==
    [Program(<<Does("file", <<"mid">>, {"in"}), Does("exec", <<"out">>, {"mid", "in"})>>, <<>>)
       EXCEPT !.dry = BOOLEAN, !.rivals = {"in"}]

\* An Exec reads what Files makes of a path others write too.
PatchedInput ==
    [Program(<<Does("patch", <<"mid">>, {})>>, <<Does("exec", <<"out">>, {"mid"})>>)
       EXCEPT !.after = InOrder, !.dry = BOOLEAN, !.rivals = {"mid"}]

\* Two Tasks in no order, one of whose outputs is the other's.
Contested ==
    [Program(<<Does("exec", <<"mid", "out">>, {})>>,
             <<Does("file", <<"out">>, {}), Does("patch", <<"in">>, {})>>) EXCEPT !.faulty = FALSE]

MCPrograms == {Pipeline, TwoInOne, PatchedInput, Contested}

\* An Exec whose Task watches its input, in real and dry Runs.
DryPrograms ==
    {[Program(<<Does("exec", <<"out">>, {"in"})>>, <<>>)
        EXCEPT !.watched["a"] = {"in"}, !.dry = BOOLEAN, !.faulty = FALSE, !.swallows = FALSE]}

-----------------------------------------------------------------------------
MCInit ==
    /\ Init /\ OperationsInit /\ part \in Parts
    /\ \/ part = "publication" /\ program = CHOOSE s \in Programs : TRUE
       \/ part = "operations" /\ {p \in Procs : pc[p] # "done"} = CHOOSE s \in Casts : TRUE

PublicationNext == part = "publication" /\ Next /\ UNCHANGED <<part, operations>>
FilesNext == part = "operations" /\ OperationsNext /\ UNCHANGED <<part, vars>>

MCSpec == MCInit /\ [][PublicationNext \/ FilesNext]_<<part, vars, operations>>
=============================================================================
