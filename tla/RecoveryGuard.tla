---------------------------- MODULE RecoveryGuard ----------------------------
(***************************************************************************)
(* The gap guard of tools/fleet/internal/liveness: after a tick that came  *)
(* too late, or on a clock that was set back, nothing is done until        *)
(* StableReads consecutive ticks have listed the same agents.              *)
(***************************************************************************)
EXTENDS Integers

CONSTANTS
    Interval,     \* the period of the ticks
    StableReads,  \* identical lists that end recovery
    NoList        \* the key of no list

ASSUME GuardAssumption == Interval \in Nat \ {0} /\ StableReads \in Nat \ {0, 1}

\* The memory of a first run.
FirstRun == [ticked |-> FALSE, last |-> 0, recovering |-> FALSE, stable |-> 0, key |-> NoList]

\* Mutant: a clock that went backwards is no gap.
GapForward(g, now) == g.ticked /\ now - g.last > 2 * Interval

Gap(g, now) == g.ticked /\ (now < g.last \/ now - g.last > 2 * Interval)

\* Mutant: the count stays when recovery ends.
GuardAfterKeepingCount(g, key, now) ==
    LET stable == IF key = g.key THEN g.stable + 1 ELSE 1
        after  == [g EXCEPT !.ticked = TRUE, !.last = now, !.key = key]
    IN  CASE Gap(g, now) -> [after EXCEPT !.recovering = TRUE, !.stable = 1]
          [] ~Gap(g, now) /\ g.recovering
               -> [after EXCEPT !.recovering = stable < StableReads, !.stable = stable]
          [] ~Gap(g, now) /\ ~g.recovering -> after

\* Mutant: the number of identical lists is not reset by another list.
GuardAfterCounting(g, key, now) ==
    LET stable == g.stable + 1
        after  == [g EXCEPT !.ticked = TRUE, !.last = now, !.key = key]
    IN  CASE Gap(g, now) -> [after EXCEPT !.recovering = TRUE, !.stable = 1]
          [] ~Gap(g, now) /\ g.recovering /\ stable < StableReads
               -> [after EXCEPT !.stable = stable]
          [] ~Gap(g, now) /\ g.recovering /\ stable >= StableReads
               -> [after EXCEPT !.recovering = FALSE, !.stable = 0]
          [] ~Gap(g, now) /\ ~g.recovering -> after

GuardAfter(g, key, now) ==
    LET stable == IF key = g.key THEN g.stable + 1 ELSE 1
        after  == [g EXCEPT !.ticked = TRUE, !.last = now, !.key = key]
    IN  CASE Gap(g, now) -> [after EXCEPT !.recovering = TRUE, !.stable = 1]
          [] ~Gap(g, now) /\ g.recovering /\ stable < StableReads
               -> [after EXCEPT !.stable = stable]
          [] ~Gap(g, now) /\ g.recovering /\ stable >= StableReads
               -> [after EXCEPT !.recovering = FALSE, !.stable = 0]
          [] ~Gap(g, now) /\ ~g.recovering -> after
=============================================================================
