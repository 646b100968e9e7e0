----------------------------- MODULE LockService -----------------------------
(***************************************************************************)
(* What the locks of tools/fleet/internal/lock promise, without files,     *)
(* polls, markers and signals: a set of locks, each with a number of       *)
(* permits.  A client asks for one lock at a time and is granted a permit  *)
(* or gives up; a client that ends loses its permits at once.              *)
(***************************************************************************)
EXTENDS Integers, FiniteSets

CONSTANTS Clients, None, Locks, Capacity(_)

VARIABLES
    asking,   \* asking[c]: the lock client c asks for, or None
    holders   \* holders[l]: the clients that have a permit of lock l

vars == <<asking, holders>>

Init ==
    /\ asking = [c \in Clients |-> None]
    /\ holders = [l \in Locks |-> {}]

Free(c) == \A l \in Locks : c \notin holders[l]

(* The heavy slot comes first: a client asks for it with empty hands, and it *)
(* never asks for what it has.                                               *)
Ask(c, l) ==
    /\ asking[c] = None
    /\ c \notin holders[l]
    /\ l = "heavy" => Free(c)
    /\ asking' = [asking EXCEPT ![c] = l]
    /\ UNCHANGED holders

Grant(c, l) ==
    /\ asking[c] = l
    /\ Cardinality(holders[l]) < Capacity(l)
    /\ asking' = [asking EXCEPT ![c] = None]
    /\ holders' = [holders EXCEPT ![l] = @ \cup {c}]

GiveUp(c) ==
    /\ asking[c] # None
    /\ asking' = [asking EXCEPT ![c] = None]
    /\ UNCHANGED holders

Drop(c, l) ==
    /\ asking[c] = None
    /\ c \in holders[l]
    /\ holders' = [holders EXCEPT ![l] = @ \ {c}]
    /\ UNCHANGED asking

End(C) ==
    /\ asking' = [c \in Clients |-> IF c \in C THEN None ELSE asking[c]]
    /\ holders' = [l \in Locks |-> holders[l] \ C]

Next ==
    \/ \E c \in Clients :
         GiveUp(c) \/ \E l \in Locks : Ask(c, l) \/ Grant(c, l) \/ Drop(c, l)
    \/ \E C \in SUBSET Clients : End(C)

Spec == Init /\ [][Next]_vars
=============================================================================
