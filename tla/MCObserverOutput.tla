-------------------------- MODULE MCObserverOutput --------------------------
(* Instances of ObserverOutput for TLC.                                     *)
EXTENDS ObserverOutput, TLC

CONSTANTS p1, p2, b1, b2

\* Bindings are interchangeable, so one process may keep to one of them.
SomeInputs == p1 :> {b1} @@ p2 :> {b1, b2}
=============================================================================
