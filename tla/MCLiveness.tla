----------------------------- MODULE MCLiveness -----------------------------
(* Instances of Liveness for TLC.                                           *)
EXTENDS Liveness, TLC

CONSTANT s1

View(status, work, stall) ==
    [status |-> status, focused |-> FALSE, ready |-> TRUE, work |-> work,
     stall |-> stall, heavyWait |-> FALSE]

Idle == View("idle", TRUE, FALSE)
Stalled == View("done", TRUE, TRUE)
Working == View("working", TRUE, FALSE)
Blocked == View("blocked", TRUE, FALSE)

\* What prompts, hangs and dialogs turn on.
AllViews == {Idle, Stalled, [Idle EXCEPT !.focused = TRUE], Working, Blocked,
             [Working EXCEPT !.heavyWait = TRUE]}

\* One slot in one of two panes.
TwoPanes == {s1 :> "left", s1 :> "right"}
=============================================================================
