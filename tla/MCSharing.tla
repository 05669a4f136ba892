----------------------------- MODULE MCSharing -----------------------------
(* Instances of Sharing for TLC: each budget allows the rare events that a *)
(* run is about, as often as it says, and none of the others.              *)
EXTENDS SharingProperties, TLC

Allow(some) == [e \in Events |-> IF e \in DOMAIN some THEN some[e] ELSE 0]

\* What can go wrong on the way, and with it one or two kinds of commands
\* that cannot undo what they should.
LifecycleBudgets ==
    {Allow([start |-> 2, toggle |-> 1, fail |-> 1, timeout |-> 1, swap |-> 1]),
     Allow([start |-> 2, fail |-> 1, timeout |-> 1, deny |-> 1]),
     Allow([start |-> 2, deny |-> 2])}

\* Two generations of tasks; a reload that was cancelled and another one or a
\* stop; a cancel and commands that cannot undo what they should.
CancelBudgets ==
    {Allow([start |-> 2, cancel |-> 2, dhcpTimeout |-> 1]),
     Allow([start |-> 1, toggle |-> 2, cancel |-> 1]),
     Allow([start |-> 1, cancel |-> 1, deny |-> 1])}

\* The route moves there and back; it moves and the tunnels go down; and what
\* may hold an operation up: anything at a start or a stop, what goes wrong
\* under a reload, and a heal beside one.
LiveBudgets ==
    {Allow([start |-> 1, swap |-> 2, toggle |-> 1]),
     Allow([start |-> 1, swap |-> 1, drop |-> 1]),
     Allow([start |-> 1, fail |-> 1, linger |-> 1, flush |-> 1, heal |-> 1,
            interrupt |-> 1]),
     Allow([start |-> 1, toggle |-> 1, fail |-> 1, linger |-> 1, interrupt |-> 1]),
     Allow([start |-> 1, toggle |-> 1, flush |-> 1, heal |-> 1])}

CancelledBudgets == {Allow([start |-> 1, cancel |-> 1])}

Symmetry == Permutations(Utuns)
=============================================================================
