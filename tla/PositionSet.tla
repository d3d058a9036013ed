---------------------------- MODULE PositionSet -----------------------------
(***************************************************************************)
(* The tree of words behind a live frame's index (engine/position_set.go): *)
(* each bit of a level marks a non-empty word of the level below, so the   *)
(* next member is found without visiting the gaps.  A word is the set of   *)
(* its bits, W of them (64 in the code).                                   *)
(***************************************************************************)
EXTENDS Integers, Sequences, FiniteSetsExt

CONSTANTS
    W,          \* bits in a word
    Position    \* positions that may be added

PositionAssumption == W \in Nat /\ W >= 2 /\ Position \subseteq Nat

VARIABLES
    levels,   \* levels[l + 1][w + 1] is word w of level l
    size,     \* how many members there are
    cursor    \* the answer of the last next

vars == <<levels, size, cursor>>

Init == levels = <<>> /\ size = 0 /\ cursor = -1

(* On level l, position i falls in word Word(i, l) at bit Bit(i, l).       *)
Above(i, l) == i \div W^l
Word(i, l) == Above(i, l + 1)
Bit(i, l) == Above(i, l) % W

\* The word of level l that i falls in, {} where the level does not reach.
At(ls, i, l) ==
    IF l < Len(ls) /\ Word(i, l) < Len(ls[l + 1]) THEN ls[l + 1][Word(i, l) + 1] ELSE {}

Has(i) == Bit(i, 0) \in At(levels, i, 0)

\* Words 0..n of a level, the new ones empty.
Padded(level, n) ==
    [w \in 1..(IF Len(level) > n THEN Len(level) ELSE n + 1) |->
        IF w <= Len(level) THEN level[w] ELSE {}]

\* seed: a new level marks the non-empty words of the level below.
Seeded(below) ==
    LET full == {w \in 1..Len(below) : below[w] # {}} IN
    IF full = {} THEN <<>>
    ELSE [u \in 1..(((Max(full) - 1) \div W) + 1) |->
             {b \in 0..(W - 1) : (u - 1) * W + b + 1 \in full}]

(* reach: every level has the word i falls in, and the top level is one    *)
(* word.                                                                   *)
Height(i) == Min({h \in 1..(Len(levels) + i + 1) : h >= Len(levels) /\ Above(i, h) = 0})
Reached(i) ==
    LET grown[l \in 0..(Height(i) - 1)] ==
            Padded(IF l < Len(levels) THEN levels[l + 1]
                   ELSE IF l = 0 THEN <<>> ELSE Seeded(grown[l - 1]), Word(i, l))
    IN  [h \in 1..Height(i) |-> grown[h - 1]]

\* Level l of ls with f applied to the word i falls in.
Changed(ls, i, l, word) == [ls[l + 1] EXCEPT ![Word(i, l) + 1] = word]

\* Fault: only the level right above learns of the new member.
AddBelow(i) ==
    LET ls == Reached(i)
        fresh(l) == l < 2 /\ \A k \in 0..(l - 1) : At(ls, i, k) = {} IN
    /\ IF Has(i)
       THEN UNCHANGED <<levels, size>>
       ELSE /\ size' = size + 1
            /\ levels' = [h \in 1..Len(ls) |->
                   IF fresh(h - 1)
                   THEN Changed(ls, i, h - 1, At(ls, i, h - 1) \cup {Bit(i, h - 1)})
                   ELSE ls[h]]
    /\ UNCHANGED cursor

(* add marks i, and each level above while the word below was empty.       *)
Add(i) ==
    LET ls == Reached(i)
        fresh(l) == \A k \in 0..(l - 1) : At(ls, i, k) = {} IN
    /\ IF Has(i)
       THEN UNCHANGED <<levels, size>>
       ELSE /\ size' = size + 1
            /\ levels' = [h \in 1..Len(ls) |->
                   IF fresh(h - 1)
                   THEN Changed(ls, i, h - 1, At(ls, i, h - 1) \cup {Bit(i, h - 1)})
                   ELSE ls[h]]
    /\ UNCHANGED cursor

(* remove clears i, and each level above while the word below is left empty. *)
Remove(i) ==
    LET left(l) == At(levels, i, l) \ {Bit(i, l)}
        emptied(l) == \A k \in 0..(l - 1) : left(k) = {} IN
    /\ IF ~Has(i)
       THEN UNCHANGED <<levels, size>>
       ELSE /\ size' = size - 1
            /\ levels' = [h \in 1..Len(levels) |->
                   IF emptied(h - 1) THEN Changed(levels, i, h - 1, left(h - 1)) ELSE levels[h]]
    /\ UNCHANGED cursor

(* nextAt: the first bit at or above from in its own word, else in the     *)
(* first non-empty word after it, found one level up.                      *)
NextAt[l \in 0..Len(levels), from \in Nat] ==
    IF l = Len(levels) \/ from \div W >= Len(levels[l + 1]) THEN -1
    ELSE LET w == from \div W
             here == {b \in levels[l + 1][w + 1] : b >= from % W}
             up == NextAt[l + 1, w + 1]
         IN  IF here # {} THEN w * W + Min(here)
             ELSE IF up < 0 THEN -1 ELSE up * W + Min(levels[l + 1][up + 1])

Find(i) == cursor' = NextAt[0, i] /\ UNCHANGED <<levels, size>>

Next == \E i \in Position : Add(i) \/ Remove(i) \/ Find(i)

Spec == Init /\ [][Next]_vars

----------------------------------------------------------------------------
TypeOK ==
    /\ levels \in Seq(Seq(SUBSET (0..(W - 1))))
    /\ size \in Nat
    /\ cursor \in Int

Elements == {i \in Position : Has(i)}

(* The tree answers every search as the set of its members would.          *)
AsSet == INSTANCE Positions WITH members <- Elements
ImplementsSet == AsSet!Spec
=============================================================================
