-------------------------------- MODULE Claims --------------------------------
\* What a lock on destinations promises, whatever it is made of: a claim is
\* granted only while no conflicting one is held; one is dropped by its holder,
\* or several at once when a process dies.
CONSTANTS Claimants, Conflict(_, _)

VARIABLE holders

Init == holders = {}

Grant(a) ==
    /\ a \notin holders /\ \A b \in holders : ~Conflict(a, b)
    /\ holders' = holders \union {a}

Drop(gone) == gone # {} /\ holders' = holders \ gone

Next == (\E a \in Claimants : Grant(a)) \/ \E gone \in SUBSET holders : Drop(gone)

Spec == Init /\ [][Next]_holders
=============================================================================
