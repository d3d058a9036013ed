---------------------------- MODULE MCCollections ----------------------------
(***************************************************************************)
(* What the engine keeps of its collections and shows of them: the tallies *)
(* that dependents read (Membership), the index a live frame reads         *)
(* (ChildIndex), the set of positions under the index (PositionSet), and   *)
(* the live region itself (Live).  A behaviour drives one of the four; the *)
(* variables of the others keep their initial values.                      *)
(***************************************************************************)
EXTENDS Membership, MCLive, Sequences

CONSTANTS MaxTask, Own, Width, Rows, MaxPaints, Ends, Notes, W, Position

VARIABLES
    part,   \* what the behaviour drives
    view, filing, dirty, idx, census, clock, painted, frame,
    levels, size, cursor

index == <<view, filing, dirty, idx, census, clock, painted, frame>>
tree == <<levels, size, cursor>>

I == INSTANCE ChildIndex WITH MaxFrames <- MaxPaints
P == INSTANCE PositionSet

ASSUME I!BoundsAssumption /\ P!PositionAssumption

\* A collection in a collection, a member of the outer one and two of the
\* inner, dependents on the outer one.
Nested == [c \in Cols |-> IF c = "inner" THEN {"inner", "outer"} ELSE {c}]
OnOuter == [d \in Deps |-> "outer"]
Split == [m \in Members |-> IF m = "m1" THEN "outer" ELSE "inner"]

\* No builders, and Waits on either; a builder on each; a builder in a waited one.
MCScenes ==
    {[built |-> {}, waits |-> {"outer", "inner"}, members |-> {"m1", "m2"}, deps |-> {"d", "e"}],
     [built |-> {}, waits |-> {"outer"}, members |-> {"m1", "m2", "m3"}, deps |-> {"d"}],
     [built |-> {"outer", "inner"}, waits |-> {}, members |-> {"m1", "m2"}, deps |-> {"d", "e"}],
     [built |-> {"inner"}, waits |-> {"outer"}, members |-> {"m1", "m2"}, deps |-> {"d"}]}

\* Of three Tasks the second bears the collection's own name, the first is widest.
Second == {2}
WideFirst == <<2, 1, 1>>

\* Far enough apart that a tree of words of two bits grows to four levels.
Sparse == {0, 1, 2, 5, 8, 13}

MCInit ==
    /\ Init /\ RegionInit /\ I!Init /\ P!Init
    /\ part \in {"members", "region", "index", "positions"}
    /\ part # "members" => scene = CHOOSE s \in Scenes : TRUE
    /\ part # "region" => screen = CHOOSE s \in Screens : ~s.armed

MembersNext == part = "members" /\ Next /\ UNCHANGED <<part, region, index, tree>>
RegionPart == part = "region" /\ RegionNext /\ UNCHANGED <<part, vars, index, tree>>
PositionsNext == part = "positions" /\ P!Next /\ UNCHANGED <<part, vars, region, index>>

\* Bounds: once there are three Tasks, a frame comes after two marked ones at the
\* latest, and only the third is warned.
IndexNext ==
    /\ part = "index" /\ I!Next /\ UNCHANGED <<part, vars, region, tree>>
    /\ Len(view') = 3 => Len(dirty') <= 2 /\ \A t \in {1, 2} : ~view'[t].warned

MCNext == MembersNext \/ RegionPart \/ IndexNext \/ PositionsNext

\* Each part is driven as fairly as its own specification says.
MembersFairness ==
    /\ WF_vars(part = "members" /\ Work) /\ WF_vars(part = "members" /\ Drain)
    /\ \A d \in Deps : WF_vars(part = "members" /\ StartDep(d))

MCSpec ==
    /\ MCInit /\ [][MCNext]_<<part, vars, region, index, tree>>
    /\ MembersFairness /\ RegionFairness

\* The frame and the census of a collection (ChildIndex), and the positions
\* under it (PositionSet).
ReadsAsWalk == I!ReadsAsWalk
ImplementsSet == P!ImplementsSet
==============================================================================
