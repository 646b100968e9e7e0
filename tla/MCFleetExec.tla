---------------------------- MODULE MCFleetExec ----------------------------
(* Instances of FleetExec for TLC.                                          *)
EXTENDS FleetExec, TLC

CONSTANTS p1, p2, p3, lint, other, s1, s2

Request(h, n) == [heavy |-> h, name |-> n, tty |-> FALSE]
OnTty(r) == [r EXCEPT !.tty = TRUE]

HeavyOnly == {Request(TRUE, None)}
HeavyTtyAndLint == {OnTty(Request(TRUE, None)), Request(TRUE, lint)}
NestedCalls == {Request(TRUE, None), Request(FALSE, other)}

Symmetric == Permutations(Procs)
=============================================================================
