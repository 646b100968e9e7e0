----------------------------- MODULE TickEvaluate -----------------------------
(***************************************************************************)
(* What a tick concludes about the usage limits of the harnesses from the  *)
(* screens of their agents: tools/fleet/internal/fleetd/evaluate.go over   *)
(* internal/limits.                                                        *)
(*                                                                         *)
(* A limit notice counts when the same agent shows it in two consecutive   *)
(* ticks that were both complete and outside of recovery; what the gap     *)
(* guard, incomplete collections and agents that disagree do to that rule  *)
(* is the subject.  A screen is what detection finds on it: the limit line *)
(* if any, the menu around it, and the reset the line names.  A tick with  *)
(* an invalid configuration or ledger, or one that runs out of its 30      *)
(* seconds, writes nothing and is as good as missed.                       *)
(***************************************************************************)
EXTENDS RecoveryGuard, Observation

CONSTANTS
    HarnessOf,    \* HarnessOf[a]: the harness agent a runs in
    Harnesses,
    Verified,     \* the harnesses whose detector may throttle them
    NoLine,       \* no limit line on the screen
    Day, Year,    \* the length of a day and of a year, in ticks
    UnparsedWait, \* how long a throttle without a reset time lasts
    Start,        \* the time of the first tick
    MaxTime       \* bound

\* A line names no reset, a time of day, or a date, which is a time within the year:
\* the line does not say of which year.
NoReset == [form |-> "none", at |-> 0]
Resets == {NoReset} \cup [form : {"clock"}, at : 0 .. Day - 1] \cup [form : {"date"}, at : 0 .. Year - 1]
Screens == UNION {ScreensOf[a] : a \in Agents}

ASSUME TickAssumption ==
    /\ HarnessOf \in [Agents -> Harnesses] /\ Verified \subseteq Harnesses
    /\ \A s \in Screens : s.status \in {"working", "idle", "done", "blocked"}
                          /\ s.menu \in BOOLEAN /\ s.reset \in Resets
                          /\ (s.menu => s.line # NoLine)   \* looked for around a line only
    /\ {UnparsedWait, Start, MaxTime, Day, Year} \subseteq Nat \ {0}
    /\ UnparsedWait < Day /\ Day < Year

VARIABLES
    now,
    guard,        \* ObserverMemory.Liveness without its slots
    signatures,   \* ObserverMemory.Signatures: the lines of the tick before, by agent
    limits,       \* ObserverMemory.Limits
    seen          \* history: what the agents of the last tick's slots looked like, none
                  \* if it was incomplete

vars == <<now, guard, signatures, limits, seen>>

Unknown == [kind |-> "unknown", until |-> 0, since |-> 0]
Empty == [status |-> "idle", line |-> NoLine, menu |-> FALSE, reset |-> NoReset]

TypeOK ==
    /\ now \in Nat
    /\ guard \in [ticked : BOOLEAN, last : Nat, recovering : BOOLEAN,
                  stable : 0 .. StableReads - 1, key : Listings \cup {NoList}]
    /\ DOMAIN signatures \subseteq Agents
    /\ limits \in [Harnesses -> [kind : {"ok", "throttled", "unknown"}, until : Nat, since : Nat]]
    /\ DOMAIN seen \subseteq Agents /\ \A a \in DOMAIN seen : seen[a] \in ScreensOf[a]

Init ==
    /\ now = Start
    /\ guard = FirstRun
    /\ signatures = <<>>
    /\ limits = [h \in Harnesses |-> Unknown]
    /\ seen = <<>>

-----------------------------------------------------------------------------
(* limits.Detect, Observe and ExpireThrottles *)

\* The line an agent showed in the tick before, if that tick counts.
Before(a, fresh) == IF fresh /\ a \in DOMAIN signatures THEN signatures[a] ELSE NoLine

\* Mutant: one sighting is enough.
ConfirmedAtOnce(a, s, previous) ==
    s.line # NoLine /\ s.status # "working" /\ s.menu /\ HarnessOf[a] \in Verified

Confirmed(a, s, previous) ==
    /\ s.line # NoLine /\ s.line = previous
    /\ s.status \in {"blocked", "idle", "done"}
    /\ HarnessOf[a] \in Verified /\ s.menu

\* The next time of day that is `at`.
NextClock(at) == CHOOSE t \in now + 1 .. now + Day : t % Day = at

\* The date in the year it is now.
ThisYears(at) == (now - (now % Year)) + at

\* Mutant: a date that has passed is next year's.
ParseResetNextYear(reset) ==
    CASE reset.form = "none" -> 0
      [] reset.form = "clock" -> NextClock(reset.at)
      [] reset.form = "date" -> ThisYears(reset.at) + IF ThisYears(reset.at) < now THEN Year ELSE 0

\* The time a line names, 0 for none: a time of day is the next one, a date is this
\* year's, or next year's when this year's is more than a day ago.
ParseReset(reset) ==
    CASE reset.form = "none" -> 0
      [] reset.form = "clock" -> NextClock(reset.at)
      [] reset.form = "date" ->
           ThisYears(reset.at) + IF ThisYears(reset.at) < now - Day THEN Year ELSE 0

\* A reset time that is not in the future is as good as none.
Until(s) == IF ParseReset(s.reset) > now THEN ParseReset(s.reset) ELSE now + UnparsedWait

\* The start of a throttle stays while it is renewed.
Throttled(e, until) ==
    [kind |-> "throttled", until |-> until,
     since |-> IF e.kind = "throttled" /\ e.since # 0 THEN e.since ELSE now]

Usable(e) == [kind |-> "ok", until |-> 0, since |-> 0]

Unexpired(e) == IF e.kind = "throttled" /\ e.until <= now THEN Unknown ELSE e

-----------------------------------------------------------------------------
(* Evaluate *)

\* The agents whose notice is confirmed, the ends these name for a harness, and
\* whether an agent of the harness works.
Notices(slots, fresh) == {a \in DOMAIN slots : Confirmed(a, slots[a], Before(a, fresh))}
Ends(slots, fresh, h) ==
    {Until(slots[a]) : a \in {c \in Notices(slots, fresh) : HarnessOf[c] = h}}
AnyWorks(slots, h) ==
    \E a \in DOMAIN slots :
        HarnessOf[a] = h /\ slots[a].status = "working" /\ slots[a].line = NoLine

Latest(until) == CHOOSE t \in until : \A u \in until : u <= t

\* Mutant: a working agent clears what another agent has just confirmed.
ObservedInAnyOrder(e, until, working) ==
    IF working /\ e.kind \in {"unknown", "throttled"} THEN Usable(e)
    ELSE IF until # {} THEN Throttled(e, Latest(until))
    ELSE e

\* The new entry of a harness: the latest of the confirmed resets wins over
\* agents that work.
Observed(e, until, working) ==
    IF until # {} THEN Throttled(e, Latest(until))
    ELSE IF working /\ e.kind \in {"unknown", "throttled"} THEN Usable(e)
    ELSE e

NewEntry(h, recovering, until, working) ==
    IF recovering THEN Unexpired(limits[h]) ELSE Observed(Unexpired(limits[h]), until, working)

\* Mutant: the signatures of a tick in recovery count in the next.
EvaluateKeepingSignatures(list, slots, looks) ==
    LET next  == GuardAfter(guard, list, now)
        fresh == ~Gap(guard, now) /\ ~next.recovering
    IN  /\ guard' = next
        /\ signatures' = [a \in DOMAIN slots |-> slots[a].line]
        /\ limits' = [h \in Harnesses |->
                        NewEntry(h, next.recovering, Ends(slots, fresh, h), AnyWorks(slots, h))]
        /\ seen' = looks
        /\ UNCHANGED now

\* Evaluate of a complete observation: herdr's list and the evidence on the slots
\* that match; looks is what their agents really looked like.
EvaluateComplete(list, slots, looks) ==
    LET next  == GuardAfter(guard, list, now)
        fresh == ~Gap(guard, now) /\ ~next.recovering
    IN  /\ guard' = next
        /\ signatures' = IF next.recovering THEN <<>>
                         ELSE [a \in DOMAIN slots |-> slots[a].line]
        /\ limits' = [h \in Harnesses |->
                        NewEntry(h, next.recovering, Ends(slots, fresh, h), AnyWorks(slots, h))]
        /\ seen' = looks
        /\ UNCHANGED now

\* Mutant: the signatures outlive an incomplete collection.
IncompleteKeepingSignatures ==
    /\ guard' = [guard EXCEPT !.recovering = FALSE]
    /\ seen' = <<>>
    /\ UNCHANGED <<now, signatures, limits>>

\* An incomplete observation keeps the limits and the time of the last tick, and
\* the next ticks recover.
EvaluateIncomplete ==
    /\ guard' = [FirstRun EXCEPT !.ticked = guard.ticked, !.last = guard.last,
                                 !.recovering = TRUE]
    /\ signatures' = <<>>
    /\ seen' = <<>>
    /\ UNCHANGED <<now, limits>>

\* At most one complete tick at each moment.
Tick(w, list, ledger) ==
    IF Complete(w, list, ledger)
    THEN /\ guard.last # now
         /\ \E screen \in Looks(Matched(list, ledger)) :
              EvaluateComplete(list, Evidence(w, screen, Empty), screen)
    ELSE EvaluateIncomplete

Elapse == now < MaxTime /\ now' = now + 1 /\ UNCHANGED <<guard, signatures, limits, seen>>

Next ==
    \/ Elapse
    \/ \E w \in Fault \cup {NoFault}, list \in Listings, ledger \in Ledgers : Tick(w, list, ledger)

Spec == Init /\ [][Next]_vars

-----------------------------------------------------------------------------
(* Properties *)

Shown(screens, a) == IF a \in DOMAIN screens THEN screens[a].line ELSE NoLine

\* A throttle starts or moves only when an agent of the harness shows the limit
\* notice it already showed one tick ago.  An incomplete tick, a tick that left the
\* observer in recovery, or a pause of more than two intervals makes it a first
\* sighting again (evaluate.go:94-103, detect.go:91): the tick before was complete and
\* outside of recovery, and so is this one, within two intervals.
ThrottleNeedsTwoSightings ==
    [][ \A h \in Harnesses :
          limits'[h].kind = "throttled" /\ limits'[h] # limits[h] =>
              /\ ~guard.recovering /\ ~guard'.recovering
              /\ now - guard.last <= 2 * Interval
              /\ \E a \in Agents : /\ HarnessOf[a] = h /\ Shown(seen', a) # NoLine
                                   /\ Shown(seen, a) = Shown(seen', a) ]_vars

\* A throttle ends before its time only on evidence: an agent of the harness works
\* and its screen, which was read and not merely missed, shows no notice; and no
\* other agent of the harness keeps showing the limit menu it showed a tick ago, in
\* whatever order they are read.  The tick that ends recovery is excepted from the
\* second part: what was shown during recovery does not count (evaluate.go:94-103), so a
\* menu that is still there is a first sighting, and an agent that works ends the
\* throttle beside it.
ThrottleEndsOnEvidence ==
    [][ \A h \in Verified :
          limits[h].kind = "throttled" /\ limits'[h].kind = "ok" =>
              /\ \E a \in DOMAIN seen' :
                    HarnessOf[a] = h /\ seen'[a].status = "working" /\ seen'[a].line = NoLine
              /\ \/ guard.recovering /\ ~guard'.recovering
                 \/ \A a \in DOMAIN seen' :
                       HarnessOf[a] = h /\ seen'[a].menu /\ seen'[a].status # "working"
                           => Shown(seen, a) # seen'[a].line ]_vars

\* A time t is when a date comes next, and the date was over for more than a day, or it
\* was last year, when it came last.
Comes(t, at) ==
    /\ t % Year = at /\ t <= now + Year
    /\ t - Year < now - Day \/ t - Year < now - (now % Year)

\* A throttle lasts for at most a day from the last sighting of its notice, or until
\* the date the notice names comes round again.  A date that has just passed, on a
\* screen nobody has touched since, does not become next year's, unless New Year has
\* passed too: on the first of January a notice of the day before names the last of
\* December to come, since the date is put into the year it is now (reset.go:60), and
\* the harness stays throttled for most of a year.
ThrottleNotForAYear ==
    [][ \A h \in Harnesses :
          limits'[h].kind = "throttled" /\ limits'[h] # limits[h] =>
              \/ limits'[h].until <= now + Day
              \/ \E a \in DOMAIN seen' :
                    /\ HarnessOf[a] = h /\ seen'[a].reset.form = "date"
                    /\ Comes(limits'[h].until, seen'[a].reset.at) ]_vars

-----------------------------------------------------------------------------
(* The inductive invariant behind the first two properties: the lines a tick *)
(* compares with are those the agents showed in the tick before, of all of   *)
(* them, and there are none after an incomplete tick or in recovery.         *)
SignaturesInv ==
    IF guard.recovering THEN signatures = <<>>
    ELSE /\ DOMAIN signatures = DOMAIN seen
         /\ DOMAIN signatures # {} => guard.ticked
         /\ \A a \in DOMAIN signatures : signatures[a] = seen[a].line
=============================================================================
