-------------------------------- MODULE MCLive --------------------------------
\* Small instances of Live: what is declared, and how the region is first shown.
EXTENDS Live

\* A root and two children of a collection under an armed, delayed region; a
\* root, a child and a Confirm gate on one that is shown at once; a root and a
\* child that make changes faster than they may be painted.
MCScreens ==
    {[tasks |-> {"root", "x", "y"}, armed |-> TRUE, delayed |-> TRUE, spends |-> FALSE],
     [tasks |-> {"gate", "root", "x"}, armed |-> FALSE, delayed |-> FALSE, spends |-> FALSE],
     [tasks |-> {"root", "x"}, armed |-> FALSE, delayed |-> TRUE, spends |-> TRUE]}

\* Two children, of whom that is true.
Children == {[tasks |-> {"x", "y"}, armed |-> FALSE, delayed |-> FALSE, spends |-> TRUE]}
===============================================================================
