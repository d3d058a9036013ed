----------------------------- MODULE Positions ------------------------------
(***************************************************************************)
(* What a positionSet promises its readers (engine/position_set.go): a set *)
(* of positions, and its members in ascending order.                       *)
(***************************************************************************)
EXTENDS Integers, FiniteSetsExt

CONSTANT Position   \* positions a collection's Tasks may have

VARIABLES
    members,   \* the set
    cursor     \* the member the last search answered, -1 when there was none

Init == members = {} /\ cursor = -1

Insert(i) == members' = members \cup {i} /\ UNCHANGED cursor
Delete(i) == members' = members \ {i} /\ UNCHANGED cursor

\* The smallest member at or above i.
Search(i) ==
    LET above == {p \in members : p >= i} IN
    /\ cursor' = IF above = {} THEN -1 ELSE Min(above)
    /\ UNCHANGED members

Next == \E i \in Position : Insert(i) \/ Delete(i) \/ Search(i)

Spec == Init /\ [][Next]_<<members, cursor>>
=============================================================================
