--------------------------- MODULE TickEvaluateProofs ---------------------------
(* Proofs about TickEvaluate over Observation and RecoveryGuard, for all agents,  *)
(* harnesses, lists, ledgers and screens, and for days and years of any length.   *)
EXTENDS TickEvaluate, WellFoundedInduction, TLAPS

Guards == [ticked : BOOLEAN, last : Nat, recovering : BOOLEAN,
           stable : 0 .. StableReads - 1, key : Listings \cup {NoList}]
Entries == [kind : {"ok", "throttled", "unknown"}, until : Nat, since : Nat]

\* The sizes are numbers.
LEMMA Sizes == /\ UnparsedWait \in Nat \ {0} /\ Start \in Nat /\ Day \in Nat \ {0} /\ Year \in Nat \ {0}
               /\ UnparsedWait < Day
               /\ Interval \in Nat \ {0} /\ StableReads \in Nat /\ StableReads >= 2
BY TickAssumption, GuardAssumption

\* The types of the variables, by name.
LEMMA TypeFacts ==
    TypeOK <=> /\ now \in Nat /\ guard \in Guards
               /\ DOMAIN signatures \subseteq Agents
               /\ limits \in [Harnesses -> Entries]
               /\ DOMAIN seen \subseteq Agents /\ \A a \in DOMAIN seen : seen[a] \in ScreensOf[a]
BY DEF TypeOK, Guards, Entries

-----------------------------------------------------------------------------
(* The guard *)

\* The guard after a tick is a guard, and it recovers after a gap.
LEMMA GuardType ==
    ASSUME NEW g \in Guards, NEW list \in Listings, NEW t \in Nat
    PROVE  /\ GuardAfter(g, list, t) \in Guards /\ GuardAfter(g, list, t).ticked
           /\ Gap(g, t) => GuardAfter(g, list, t).recovering
<1> DEFINE stable == IF list = g.key THEN g.stable + 1 ELSE 1
           after == [g EXCEPT !.ticked = TRUE, !.last = t, !.key = list]
           next == GuardAfter(g, list, t)
<1>0. g.stable \in 0 .. StableReads - 1 /\ StableReads \in Nat /\ g.recovering \in BOOLEAN
  BY Sizes DEF Guards
<1>1. after \in Guards /\ after.ticked /\ stable \in Nat /\ g.recovering \in BOOLEAN
  <2>1. after \in Guards /\ after.ticked
    BY DEF Guards
  <2>2. g.stable \in Nat /\ g.stable + 1 \in Nat
    BY <1>0
  <2> QED
    BY <1>0, <2>1, <2>2
<1>2. 0 \in 0 .. StableReads - 1 /\ 1 \in 0 .. StableReads - 1
      /\ (stable < StableReads => stable \in 0 .. StableReads - 1)
      /\ (stable < StableReads \/ stable >= StableReads)
  BY <1>1, Sizes
<1>3. ASSUME NEW k \in 0 .. StableReads - 1, NEW b \in BOOLEAN
      PROVE  /\ [after EXCEPT !.stable = k] \in Guards
             /\ [after EXCEPT !.stable = k].ticked /\ [after EXCEPT !.recovering = b, !.stable = k].ticked
             /\ [after EXCEPT !.recovering = b, !.stable = k] \in Guards
             /\ [after EXCEPT !.recovering = b, !.stable = k].recovering = b
  <2> HIDE DEF after
  <2> QED
    BY <1>1 DEF Guards
<1>4. CASE Gap(g, t)
  <2>1. next = [after EXCEPT !.recovering = TRUE, !.stable = 1]
    BY <1>4, Zenon DEF GuardAfter
  <2> HIDE DEF after, next
  <2> QED
    BY <1>2, <1>3, <2>1 DEF next
<1>5. CASE ~Gap(g, t) /\ g.recovering /\ stable < StableReads
  <2>0. ~(stable >= StableReads)
    BY <1>1, <1>5, Sizes
  <2>1. next = [after EXCEPT !.stable = stable]
    BY <1>5, <2>0, Zenon DEF GuardAfter
  <2>2. stable \in 0 .. StableReads - 1
    BY <1>2, <1>5
  <2> HIDE DEF after, next, stable
  <2> QED
    BY <1>3, <1>5, <2>1, <2>2 DEF next
<1>6. CASE ~Gap(g, t) /\ g.recovering /\ ~(stable < StableReads)
  <2>1. next = [after EXCEPT !.recovering = FALSE, !.stable = 0]
    BY <1>2, <1>6 DEF GuardAfter
  <2> HIDE DEF after, next, stable
  <2> QED
    BY <1>2, <1>3, <1>6, <2>1 DEF next
<1>7. CASE ~Gap(g, t) /\ ~g.recovering
  <2>1. next = after
    BY <1>7 DEF GuardAfter
  <2> HIDE DEF after
  <2> QED
    BY <1>1, <1>7, <2>1
<1> QED
  BY <1>1, <1>4, <1>5, <1>6, <1>7

-----------------------------------------------------------------------------
(* Times *)

\* A bounded set of times has a latest one: the least distance from the bound.
LEMMA LatestOf ==
    ASSUME NEW S \in SUBSET Nat, S # {}, NEW b \in Nat, \A t \in S : t <= b
    PROVE  Latest(S) \in S /\ \A u \in S : u <= Latest(S)
<1> DEFINE Less == {ss \in Nat \X Nat : ss[1] < ss[2]}
           T == {b - t : t \in S}
<1>0. S \subseteq Nat /\ \A t \in S : b - t \in Nat
  OBVIOUS
<1>1. IsWellFoundedOn(Less, Nat)
  BY NatLessThanWellFounded, Zenon DEF OpToRel
<1>2. T \subseteq Nat /\ T # {}
  BY <1>0
<1>3. PICK d \in T : \A e \in T : <<e, d>> \notin Less
  <2> HIDE DEF Less, T
  <2> QED
    BY <1>1, <1>2, WFMin
<1>4. \A e \in T : ~(e < d)
  BY <1>2, <1>3
<1>5. PICK t \in S : d = b - t
  OBVIOUS
<1>6. \A u \in S : u <= t
  BY <1>4, <1>5
<1> QED
  BY <1>5, <1>6 DEF Latest

\* The rest of a division is the one below the divisor, and what the quotient leaves.
LEMMA OneRest ==
    ASSUME NEW d \in Nat \ {0}, NEW q \in Int, NEW r \in 0 .. d - 1
    PROVE  (d * q + r) % d = r
OBVIOUS

LEMMA QuotientAndRest ==
    ASSUME NEW d \in Nat \ {0}, NEW m \in Int
    PROVE  m \div d \in Int /\ m % d \in 0 .. d - 1 /\ m % d = m - d * (m \div d)
OBVIOUS

\* Each time of day comes round within a day.
LEMMA ClockComes ==
    ASSUME NEW at \in 0 .. Day - 1, now \in Nat
    PROVE  NextClock(at) \in now + 1 .. now + Day
<1>1. Day \in Nat \ {0}
  BY Sizes
<1> DEFINE q == now \div Day
<1>2. q \in Int /\ now % Day \in 0 .. Day - 1 /\ now % Day = now - Day * q
  BY <1>1, QuotientAndRest
<1> HIDE DEF q
<1>3. Day * q \in Int /\ Day * (q + 1) = Day * q + Day /\ q + 1 \in Int
  BY <1>1, <1>2
<1>4. (Day * q + at) % Day = at
  BY <1>1, <1>2, <1>3, OneRest
<1>5. (Day * (q + 1) + at) % Day = at
  BY <1>1, <1>2, <1>3, OneRest
<1> DEFINE today == Day * q + at
           tomorrow == Day * (q + 1) + at
<1>6. /\ today \in Int /\ tomorrow = today + Day
      /\ \/ today \in now + 1 .. now + Day
         \/ tomorrow \in now + 1 .. now + Day
  <2>1. today \in Int /\ tomorrow = today + Day /\ Day * q = today - at
    BY <1>1, <1>2, <1>3
  <2>2. now - (today - at) \in 0 .. Day - 1
    <3> HIDE DEF today
    <3> QED
      BY <1>2, <2>1
  <2> HIDE DEF today, tomorrow
  <2>3. CASE now < today
    BY <1>1, <2>1, <2>2, <2>3
  <2>4. CASE ~(now < today)
    BY <1>1, <2>1, <2>2, <2>4
  <2> QED
    BY <2>1, <2>3, <2>4
<1>7. \E t \in now + 1 .. now + Day : t % Day = at
  <2> HIDE DEF today, tomorrow
  <2> QED
    BY <1>4, <1>5, <1>6 DEF today, tomorrow
<1> QED
  BY <1>7 DEF NextClock

-----------------------------------------------------------------------------
(* What a tick reads and concludes *)

\* What an agent looks like is a screen, and the times on it lie within the calendar.
LEMMA ScreenType ==
    ASSUME NEW a \in Agents, NEW s \in ScreensOf[a]
    PROVE  /\ s.status \in {"working", "idle", "done", "blocked"}
           /\ s.menu \in BOOLEAN /\ (s.menu => s.line # NoLine)
           /\ \/ s.reset = NoReset
              \/ s.reset.form = "clock" /\ s.reset.at \in 0 .. Day - 1
              \/ s.reset.form = "date" /\ s.reset.at \in 0 .. Year - 1
<1>1. s \in Screens
  BY DEF Screens
<1> QED
  BY <1>1, TickAssumption DEF Resets

\* The date of this year and that of the next, by the quotient of the time.
LEMMA DateOf ==
    ASSUME NEW at \in 0 .. Year - 1, now \in Nat
    PROVE  LET t == ThisYears(at) + IF ThisYears(at) < now - Day THEN Year ELSE 0
           IN  t \in Int /\ t <= now + Year /\ (t > now => Comes(t, at))
<1> DEFINE q == now \div Year
           t == ThisYears(at) + IF ThisYears(at) < now - Day THEN Year ELSE 0
<1>0. Year \in Nat \ {0} /\ Day \in Nat
  BY Sizes
<1>1. q \in Int /\ now % Year \in 0 .. Year - 1 /\ now % Year = now - Year * q
  BY <1>0, QuotientAndRest
<1> HIDE DEF q
<1>2. /\ Year * q \in Int /\ Year * (q + 1) = Year * q + Year /\ q + 1 \in Int
  BY <1>0, <1>1
<1>3. ThisYears(at) = Year * q + at
  BY <1>1, <1>2 DEF ThisYears
<1>4. /\ (Year * q + at) % Year = at
      /\ (Year * (q + 1) + at) % Year = at
  BY <1>0, <1>1, <1>2, OneRest
<1> DEFINE jan == Year * q
           this == jan + at
           next == Year * (q + 1) + at
<1>5. /\ jan \in Int /\ this \in Int /\ next = this + Year
      /\ this % Year = at /\ next % Year = at /\ ThisYears(at) = this
      /\ now - (now % Year) = jan /\ now - jan \in 0 .. Year - 1
  <2>1. jan \in Int /\ this \in Int /\ next = this + Year
    BY <1>0, <1>2
  <2>2. this % Year = at /\ next % Year = at /\ ThisYears(at) = this
    BY <1>3, <1>4
  <2>3. now % Year = now - jan /\ now % Year \in 0 .. Year - 1
    BY <1>1
  <2> HIDE DEF jan, this, next
  <2>4. now - (now % Year) = jan
    BY <2>1, <2>3
  <2> QED
    BY <2>1, <2>2, <2>3, <2>4
<1>6. /\ this < jan + Year /\ this <= now + Year
  BY <1>0, <1>5
<1> HIDE DEF jan, next
<1>7. CASE this < now - Day
  <2>1. t = next
    BY <1>0, <1>5, <1>7
  <2> HIDE DEF t, this
  <2> QED
    BY <1>0, <1>5, <1>6, <1>7, <2>1 DEF Comes
<1>8. CASE ~(this < now - Day)
  <2>1. t = this
    BY <1>0, <1>5, <1>8
  <2> HIDE DEF t, this
  <2> QED
    BY <1>0, <1>5, <1>6, <1>8, <2>1 DEF Comes
<1> QED
  BY <1>7, <1>8

\* An end of a throttle is a time, and not beyond a year and a day.  It is beyond a day from
\* now only when the screen names a date, and it is when that date comes next.
LEMMA UntilType ==
    ASSUME NEW a \in Agents, NEW s \in ScreensOf[a], now \in Nat
    PROVE  /\ Until(s) \in Nat /\ Until(s) <= now + Day + Year
           /\ \/ Until(s) <= now + Day
              \/ s.reset.form = "date" /\ Comes(Until(s), s.reset.at)
<1> DEFINE t == ParseReset(s.reset)
<1>0. /\ Day \in Nat \ {0} /\ Year \in Nat \ {0} /\ UnparsedWait \in Nat /\ UnparsedWait < Day
      /\ 0 \in Nat
  BY Sizes
<1>1. CASE s.reset = NoReset
  <2>1. t = 0
    BY <1>1 DEF ParseReset, NoReset
  <2> QED
    BY <1>0, <2>1 DEF Until
<1>2. CASE s.reset.form = "clock" /\ s.reset.at \in 0 .. Day - 1
  <2>1. t = NextClock(s.reset.at)
    BY <1>2 DEF ParseReset
  <2>2. t \in now + 1 .. now + Day
    BY <1>2, <2>1, ClockComes
  <2> HIDE DEF t
  <2> QED
    BY <1>0, <2>2 DEF Until, t
<1>3. CASE s.reset.form = "date" /\ s.reset.at \in 0 .. Year - 1
  <2>1. t \in Int /\ t <= now + Year /\ (t > now => Comes(t, s.reset.at))
    BY <1>3, DateOf DEF ParseReset
  <2> HIDE DEF t
  <2> QED
    BY <1>0, <1>3, <2>1 DEF Until, t
<1> QED
  BY <1>1, <1>2, <1>3, ScreenType

\* The agents whose slots match are agents on the list, and a complete observation has
\* read all their screens.
LEMMA CompleteSees ==
    ASSUME NEW w, NEW list \in Listings, NEW ledger \in Ledgers, Complete(w, list, ledger),
           NEW screen \in Looks(Matched(list, ledger))
    PROVE  /\ Evidence(w, screen, Empty) = screen
           /\ DOMAIN screen \subseteq Agents /\ \A a \in DOMAIN screen : screen[a] \in ScreensOf[a]
<1>1. Matched(list, ledger) \subseteq Agents
  BY ObservationAssumption DEF Matched, Matches
<1>2. /\ DOMAIN screen = Matched(list, ledger)
      /\ \A a \in DOMAIN screen : screen[a] \in ScreensOf[a]
      /\ screen = [a \in DOMAIN screen |-> screen[a]]
  BY DEF Looks
<1>3. \A a \in DOMAIN screen : a \notin w.unread
  BY <1>2 DEF Complete
<1>4. Evidence(w, screen, Empty) = [a \in DOMAIN screen |-> screen[a]]
  BY <1>3 DEF Evidence
<1> QED
  BY <1>1, <1>2, <1>4

\* The screens of agents.
Sights(slots) == DOMAIN slots \subseteq Agents /\ \A a \in DOMAIN slots : slots[a] \in ScreensOf[a]

\* The latest end is one that a confirmed notice names.
LEMMA EndsOf ==
    ASSUME now \in Nat, NEW slots, Sights(slots), NEW fresh, NEW h, Ends(slots, fresh, h) # {}
    PROVE  /\ Latest(Ends(slots, fresh, h)) \in Nat
           /\ \E a \in Notices(slots, fresh) :
                HarnessOf[a] = h /\ Latest(Ends(slots, fresh, h)) = Until(slots[a])
<1> DEFINE S == Ends(slots, fresh, h)
           b == now + Day + Year
<1>1. b \in Nat
  BY Sizes
<1>2. \A t \in S : \E a \in Notices(slots, fresh) : HarnessOf[a] = h /\ t = Until(slots[a])
  BY DEF Ends
<1>3. \A a \in Notices(slots, fresh) : Until(slots[a]) \in Nat /\ Until(slots[a]) <= b
  BY UntilType DEF Notices, Sights
<1> HIDE DEF S, b
<1>4. S \subseteq Nat /\ \A t \in S : t <= b
  BY <1>2, <1>3
<1>5. Latest(S) \in S
  BY <1>1, <1>4, LatestOf DEF S
<1> QED
  BY <1>2, <1>4, <1>5 DEF S

\* The entry of a harness after a complete tick: it becomes or changes as throttled only
\* for a confirmed notice of one of its agents, whose end it takes; it becomes ok only when
\* an agent works and no notice is confirmed; nothing but expiry happens in recovery.
LEMMA EntryOf ==
    ASSUME TypeOK, NEW slots, Sights(slots), NEW fresh, NEW recovering \in BOOLEAN, NEW h \in Harnesses
    PROVE  LET e == NewEntry(h, recovering, Ends(slots, fresh, h), AnyWorks(slots, h))
           IN  /\ e \in Entries
               /\ e.kind = "throttled" /\ e # limits[h] =>
                    /\ ~recovering
                    /\ \E a \in Notices(slots, fresh) : HarnessOf[a] = h /\ e.until = Until(slots[a])
               /\ limits[h].kind = "throttled" /\ e.kind = "ok" =>
                    ~recovering /\ Ends(slots, fresh, h) = {} /\ AnyWorks(slots, h)
<1> DEFINE S == Ends(slots, fresh, h)
           x == Unexpired(limits[h])
           works == AnyWorks(slots, h)
           e == NewEntry(h, recovering, S, works)
<1>0. now \in Nat /\ limits[h] \in Entries
  BY TypeFacts
<1>1. Unknown \in Entries /\ Unknown.kind = "unknown"
  BY DEF Unknown, Entries
<1>2. x \in Entries /\ (x = limits[h] \/ x = Unknown)
  BY <1>0, <1>1 DEF Unexpired
<1>3. Usable(x) \in Entries /\ Usable(x).kind = "ok"
  BY DEF Usable, Entries
<1>4. S # {} => /\ Throttled(x, Latest(S)) \in Entries
                /\ Throttled(x, Latest(S)).kind = "throttled"
                /\ \E a \in Notices(slots, fresh) :
                     HarnessOf[a] = h /\ Throttled(x, Latest(S)).until = Until(slots[a])
  <2> SUFFICES ASSUME S # {}
               PROVE  /\ Throttled(x, Latest(S)) \in Entries
                      /\ Throttled(x, Latest(S)).kind = "throttled"
                      /\ \E a \in Notices(slots, fresh) :
                           HarnessOf[a] = h /\ Throttled(x, Latest(S)).until = Until(slots[a])
    OBVIOUS
  <2>1. /\ Latest(S) \in Nat
        /\ \E a \in Notices(slots, fresh) : HarnessOf[a] = h /\ Latest(S) = Until(slots[a])
    BY <1>0, EndsOf
  <2>2. x.since \in Nat
    BY <1>2 DEF Entries
  <2> HIDE DEF S, x
  <2> QED
    BY <1>0, <2>1, <2>2 DEF Throttled, Entries
<1>5. \/ recovering /\ e = x
      \/ ~recovering /\ S # {} /\ e = Throttled(x, Latest(S))
      \/ ~recovering /\ S = {} /\ works /\ e = Usable(x)
      \/ ~recovering /\ S = {} /\ e = x
  <2> HIDE DEF S, works
  <2> QED
    BY DEF NewEntry, Observed
<1> HIDE DEF S, x, works, e
<1>6. /\ e \in Entries
      /\ e.kind = "throttled" /\ e # limits[h] =>
           /\ ~recovering
           /\ \E a \in Notices(slots, fresh) : HarnessOf[a] = h /\ e.until = Until(slots[a])
      /\ limits[h].kind = "throttled" /\ e.kind = "ok" => ~recovering /\ S = {} /\ works
  <2>1. CASE recovering /\ e = x
    BY <1>1, <1>2, <2>1
  <2>2. CASE ~recovering /\ S # {} /\ e = Throttled(x, Latest(S))
    BY <1>4, <2>2
  <2>3. CASE ~recovering /\ S = {} /\ works /\ e = Usable(x)
    BY <1>3, <2>3
  <2>4. CASE ~recovering /\ S = {} /\ e = x
    BY <1>1, <1>2, <2>4
  <2> QED
    BY <1>5, <2>1, <2>2, <2>3, <2>4
<1> QED
  BY <1>6 DEF S, works, e

-----------------------------------------------------------------------------
(* The steps *)

\* A complete tick: what it has seen, and what follows for the guard, the lines and the
\* limits.
LEMMA CompleteTick ==
    ASSUME TypeOK, NEW w, NEW list \in Listings, NEW ledger \in Ledgers,
           Complete(w, list, ledger), Tick(w, list, ledger)
    PROVE  LET next  == GuardAfter(guard, list, now)
               fresh == ~Gap(guard, now) /\ ~next.recovering
           IN  /\ Sights(seen') /\ now' = now
               /\ guard' = next /\ next \in Guards /\ next.ticked /\ (Gap(guard, now) => next.recovering)
               /\ signatures' = IF next.recovering THEN <<>> ELSE [a \in DOMAIN seen' |-> seen'[a].line]
               /\ limits' = [h \in Harnesses |-> NewEntry(h, next.recovering, Ends(seen', fresh, h),
                                                          AnyWorks(seen', h))]
<1>1. PICK screen \in Looks(Matched(list, ledger)) :
           EvaluateComplete(list, Evidence(w, screen, Empty), screen)
  BY DEF Tick
<1>2. Evidence(w, screen, Empty) = screen /\ Sights(screen)
  BY CompleteSees DEF Sights
<1>3. EvaluateComplete(list, screen, screen)
  BY <1>1, <1>2
<1>4. seen' = screen
  BY <1>3 DEF EvaluateComplete
<1>5. GuardAfter(guard, list, now) \in Guards /\ GuardAfter(guard, list, now).ticked
      /\ (Gap(guard, now) => GuardAfter(guard, list, now).recovering)
  BY TypeFacts, GuardType
<1> QED
  BY <1>2, <1>3, <1>4, <1>5 DEF EvaluateComplete

\* The initial values are in their types.
LEMMA TypeInit == Init => TypeOK
<1> SUFFICES ASSUME Init PROVE TypeOK
  OBVIOUS
<1>1. 0 \in 0 .. StableReads - 1
  BY Sizes
<1>2. guard \in Guards
  BY <1>1 DEF Init, FirstRun, Guards
<1>3. limits \in [Harnesses -> Entries]
  BY DEF Init, Unknown, Entries
<1>4. DOMAIN signatures = {} /\ DOMAIN seen = {}
  BY DEF Init
<1> QED
  BY <1>2, <1>3, <1>4, Sizes, TypeFacts DEF Init

\* Every action keeps every variable in its type.
LEMMA TypeStep == TypeOK /\ [Next]_vars => TypeOK'
<1> SUFFICES ASSUME TypeOK, [Next]_vars
             PROVE  /\ now' \in Nat /\ guard' \in Guards
                    /\ DOMAIN signatures' \subseteq Agents
                    /\ limits' \in [Harnesses -> Entries]
                    /\ Sights(seen')
  BY DEF TypeOK, Guards, Entries, Sights
<1>0. /\ now \in Nat /\ guard \in Guards
      /\ DOMAIN signatures \subseteq Agents
      /\ limits \in [Harnesses -> Entries]
      /\ Sights(seen)
  BY TypeFacts DEF Sights
<1>1. CASE Elapse
  BY <1>0, <1>1 DEF Elapse, Sights
<1>2. ASSUME NEW w, NEW list \in Listings, NEW ledger \in Ledgers,
             Complete(w, list, ledger), Tick(w, list, ledger)
      PROVE  /\ now' \in Nat /\ guard' \in Guards
             /\ DOMAIN signatures' \subseteq Agents
             /\ limits' \in [Harnesses -> Entries]
             /\ Sights(seen')
  <2> DEFINE next == GuardAfter(guard, list, now)
             fresh == ~Gap(guard, now) /\ ~next.recovering
  <2>1. /\ Sights(seen') /\ now' = now /\ guard' = next /\ next \in Guards
        /\ signatures' = IF next.recovering THEN <<>> ELSE [a \in DOMAIN seen' |-> seen'[a].line]
        /\ limits' = [h \in Harnesses |-> NewEntry(h, next.recovering, Ends(seen', fresh, h),
                                                   AnyWorks(seen', h))]
    BY <1>2, CompleteTick
  <2>2. next.recovering \in BOOLEAN
    BY <2>1 DEF Guards
  <2> HIDE DEF next, fresh
  <2>3. ASSUME NEW h \in Harnesses
        PROVE  NewEntry(h, next.recovering, Ends(seen', fresh, h), AnyWorks(seen', h)) \in Entries
    BY <2>1, <2>2, EntryOf
  <2>4. DOMAIN signatures' \subseteq Agents
    BY <2>1 DEF Sights
  <2> QED
    BY <1>0, <2>1, <2>3, <2>4
<1>3. CASE EvaluateIncomplete
  <2>1. guard' \in Guards
    <3>1. guard.ticked \in BOOLEAN /\ guard.last \in Nat /\ 0 \in 0 .. StableReads - 1
      BY <1>0, Sizes DEF Guards
    <3> QED
      BY <1>3, <3>1 DEF EvaluateIncomplete, FirstRun, Guards
  <2> QED
    BY <1>0, <1>3, <2>1 DEF EvaluateIncomplete, Sights
<1>4. CASE UNCHANGED vars
  BY <1>0, <1>4 DEF vars, Sights
<1> QED
  BY <1>1, <1>2, <1>3, <1>4 DEF Next, Tick

\* Every variable keeps its type.
THEOREM TypeCorrect == Spec => []TypeOK
BY TypeInit, TypeStep, PTL DEF Spec

-----------------------------------------------------------------------------
(* What throttles need *)

\* The lines a tick compares with are those of the tick before, or none: one step per action.
LEMMA SignaturesStep == TypeOK /\ SignaturesInv /\ [Next]_vars => SignaturesInv'
<1> SUFFICES ASSUME TypeOK, SignaturesInv, [Next]_vars PROVE SignaturesInv'
  OBVIOUS
<1>1. CASE Elapse
  BY <1>1 DEF Elapse, SignaturesInv
<1>2. ASSUME NEW w, NEW list \in Listings, NEW ledger \in Ledgers,
             Complete(w, list, ledger), Tick(w, list, ledger)
      PROVE  SignaturesInv'
  <2>1. /\ guard' = GuardAfter(guard, list, now) /\ guard'.ticked
        /\ signatures' = IF guard'.recovering THEN <<>> ELSE [a \in DOMAIN seen' |-> seen'[a].line]
    BY <1>2, CompleteTick
  <2> QED
    BY <2>1 DEF SignaturesInv
<1>3. CASE EvaluateIncomplete
  BY <1>3 DEF EvaluateIncomplete, FirstRun, SignaturesInv
<1>4. CASE UNCHANGED vars
  BY <1>4 DEF vars, SignaturesInv
<1> QED
  BY <1>1, <1>2, <1>3, <1>4 DEF Next, Tick

\* A tick has nothing to compare with at first.
LEMMA SignaturesInit == Init => SignaturesInv
BY DEF Init, FirstRun, SignaturesInv

\* The line a tick compares with is one the agent showed in the tick before, outside of
\* recovery.
LEMMA BeforeWasShown ==
    ASSUME SignaturesInv, NEW a, NEW fresh, Before(a, fresh) # NoLine
    PROVE  Shown(seen, a) = Before(a, fresh) /\ ~guard.recovering /\ guard.ticked
<1>1. a \in DOMAIN signatures /\ Before(a, fresh) = signatures[a]
  BY DEF Before
<1>2. ~guard.recovering
  BY <1>1 DEF SignaturesInv
<1>3. guard.ticked
  BY <1>1 DEF SignaturesInv
<1> QED
  BY <1>1, <1>2, <1>3 DEF SignaturesInv, Shown

\* Steps other than complete ticks leave the limits alone.
LEMMA LimitsMoveInTicks ==
    ASSUME [Next]_vars
    PROVE  \/ limits' = limits
           \/ \E w \in Fault \cup {NoFault}, list \in Listings, ledger \in Ledgers :
                Complete(w, list, ledger) /\ Tick(w, list, ledger)
<1>1. CASE Elapse \/ UNCHANGED vars
  BY <1>1 DEF Elapse, vars
<1>2. ASSUME NEW w \in Fault \cup {NoFault}, NEW list \in Listings, NEW ledger \in Ledgers,
             Tick(w, list, ledger)
      PROVE  limits' = limits \/ Complete(w, list, ledger)
  BY <1>2 DEF Tick, EvaluateIncomplete
<1> QED
  BY <1>1, <1>2 DEF Next

\* The new entry of a harness in a complete tick, and what it is derived from.
LEMMA EntryAfter ==
    ASSUME TypeOK, NEW w, NEW list \in Listings, NEW ledger \in Ledgers,
           Complete(w, list, ledger), Tick(w, list, ledger), NEW h \in Harnesses
    PROVE  LET next  == GuardAfter(guard, list, now)
               fresh == ~Gap(guard, now) /\ ~next.recovering
           IN  /\ Sights(seen') /\ (~next.recovering => fresh)
               /\ limits'[h].kind = "throttled" /\ limits'[h] # limits[h] =>
                    /\ ~next.recovering
                    /\ \E a \in Notices(seen', fresh) :
                         HarnessOf[a] = h /\ limits'[h].until = Until(seen'[a])
               /\ limits[h].kind = "throttled" /\ limits'[h].kind = "ok" =>
                    ~next.recovering /\ Ends(seen', fresh, h) = {} /\ AnyWorks(seen', h)
<1> DEFINE next == GuardAfter(guard, list, now)
           fresh == ~Gap(guard, now) /\ ~next.recovering
<1>1. /\ Sights(seen') /\ next \in Guards /\ (Gap(guard, now) => next.recovering)
      /\ limits' = [g \in Harnesses |-> NewEntry(g, next.recovering, Ends(seen', fresh, g),
                                                 AnyWorks(seen', g))]
  BY CompleteTick
<1>2. next.recovering \in BOOLEAN
  BY <1>1 DEF Guards
<1> HIDE DEF next
<1>3. limits'[h] = NewEntry(h, next.recovering, Ends(seen', fresh, h), AnyWorks(seen', h))
  BY <1>1
<1>4. ~next.recovering => fresh
  BY <1>1
<1> HIDE DEF fresh
<1> QED
  BY <1>1, <1>2, <1>3, <1>4, EntryOf DEF next, fresh

\* A throttle starts or moves only when an agent of the harness shows the notice it already
\* showed one tick ago, within two intervals and outside of recovery.
THEOREM TwoSightings == Spec => ThrottleNeedsTwoSightings
<1> DEFINE Sighted ==
      \A h \in Harnesses :
          limits'[h].kind = "throttled" /\ limits'[h] # limits[h] =>
              /\ ~guard.recovering /\ ~guard'.recovering
              /\ now - guard.last <= 2 * Interval
              /\ \E a \in Agents : /\ HarnessOf[a] = h /\ Shown(seen', a) # NoLine
                                   /\ Shown(seen, a) = Shown(seen', a)
<1>1. Init => TypeOK /\ SignaturesInv
  BY TypeInit, SignaturesInit
<1>2. TypeOK /\ SignaturesInv /\ [Next]_vars => (TypeOK /\ SignaturesInv)'
  BY TypeStep, SignaturesStep
<1>3. TypeOK /\ SignaturesInv /\ [Next]_vars => [Sighted]_vars
  <2> SUFFICES ASSUME TypeOK, SignaturesInv, [Next]_vars, NEW h \in Harnesses,
                      limits'[h].kind = "throttled", limits'[h] # limits[h]
               PROVE  /\ ~guard.recovering /\ ~guard'.recovering
                      /\ now - guard.last <= 2 * Interval
                      /\ \E a \in Agents : /\ HarnessOf[a] = h /\ Shown(seen', a) # NoLine
                                           /\ Shown(seen, a) = Shown(seen', a)
    BY DEF Sighted
  <2>1. PICK w \in Fault \cup {NoFault}, list \in Listings, ledger \in Ledgers :
             Complete(w, list, ledger) /\ Tick(w, list, ledger)
    BY LimitsMoveInTicks
  <2> DEFINE fresh == ~Gap(guard, now) /\ ~GuardAfter(guard, list, now).recovering
  <2>2. /\ Sights(seen') /\ fresh
        /\ \E a \in Notices(seen', fresh) : HarnessOf[a] = h
    BY <2>1, EntryAfter
  <2>0. ~Gap(guard, now) /\ ~guard'.recovering
    BY <2>1, <2>2, CompleteTick
  <2> HIDE DEF fresh
  <2>3. PICK a \in DOMAIN seen' : /\ HarnessOf[a] = h
                                  /\ Confirmed(a, seen'[a], Before(a, fresh))
    BY <2>2 DEF Notices
  <2>4. /\ a \in Agents /\ Shown(seen', a) = seen'[a].line
        /\ seen'[a].line # NoLine /\ seen'[a].line = Before(a, fresh)
    BY <2>2, <2>3 DEF Confirmed, Shown, Sights
  <2>5. Shown(seen, a) = Before(a, fresh) /\ ~guard.recovering /\ guard.ticked
    BY <2>4, BeforeWasShown
  <2>6. now - guard.last <= 2 * Interval
    <3>1. now \in Nat /\ guard.last \in Nat /\ Interval \in Nat
      BY TypeFacts, Sizes DEF Guards
    <3> QED
      BY <2>0, <2>5, <3>1 DEF Gap
  <2> QED
    BY <2>0, <2>3, <2>4, <2>5, <2>6
<1>4. Spec => [][Sighted]_vars
  BY <1>1, <1>2, <1>3, PTL DEF Spec
<1> QED
  BY <1>4 DEF ThrottleNeedsTwoSightings

\* A throttle ends before its time only when an agent of the harness works with no notice on
\* a screen that was read, and no other one goes on showing the limit menu, except in the
\* tick that ends recovery, in which a menu is a first sighting.
THEOREM EndsOnEvidence == Spec => ThrottleEndsOnEvidence
<1> DEFINE Evident ==
      \A h \in Verified :
          limits[h].kind = "throttled" /\ limits'[h].kind = "ok" =>
              /\ \E a \in DOMAIN seen' :
                    HarnessOf[a] = h /\ seen'[a].status = "working" /\ seen'[a].line = NoLine
              /\ \/ guard.recovering /\ ~guard'.recovering
                 \/ \A a \in DOMAIN seen' :
                       HarnessOf[a] = h /\ seen'[a].menu /\ seen'[a].status # "working"
                           => Shown(seen, a) # seen'[a].line
<1>1. Init => TypeOK /\ SignaturesInv
  BY TypeInit, SignaturesInit
<1>2. TypeOK /\ SignaturesInv /\ [Next]_vars => (TypeOK /\ SignaturesInv)'
  BY TypeStep, SignaturesStep
<1>3. TypeOK /\ SignaturesInv /\ [Next]_vars => [Evident]_vars
  <2> SUFFICES ASSUME TypeOK, SignaturesInv, [Next]_vars, NEW h \in Verified,
                      limits[h].kind = "throttled", limits'[h].kind = "ok"
               PROVE  /\ \E a \in DOMAIN seen' :
                            HarnessOf[a] = h /\ seen'[a].status = "working" /\ seen'[a].line = NoLine
                      /\ \/ guard.recovering /\ ~guard'.recovering
                         \/ \A a \in DOMAIN seen' :
                               HarnessOf[a] = h /\ seen'[a].menu /\ seen'[a].status # "working"
                                   => Shown(seen, a) # seen'[a].line
    BY DEF Evident
  <2>0. h \in Harnesses
    BY TickAssumption
  <2>1. PICK w \in Fault \cup {NoFault}, list \in Listings, ledger \in Ledgers :
             Complete(w, list, ledger) /\ Tick(w, list, ledger)
    BY LimitsMoveInTicks
  <2> DEFINE fresh == ~Gap(guard, now) /\ ~GuardAfter(guard, list, now).recovering
  <2>2. Sights(seen') /\ fresh /\ Ends(seen', fresh, h) = {} /\ AnyWorks(seen', h)
    BY <2>0, <2>1, EntryAfter
  <2>4. ~guard'.recovering /\ guard.recovering \in BOOLEAN
    BY <2>1, <2>2, CompleteTick, TypeFacts DEF Guards
  <2> HIDE DEF fresh
  <2>3. ASSUME NEW a \in DOMAIN seen', HarnessOf[a] = h, seen'[a].menu, seen'[a].status # "working",
               Shown(seen, a) = seen'[a].line, ~guard.recovering
        PROVE  FALSE
    <3>1. /\ seen'[a].line # NoLine /\ seen'[a].status \in {"blocked", "idle", "done"}
      BY <2>2, <2>3, ScreenType DEF Sights
    <3>2. Before(a, fresh) = seen'[a].line
      BY <2>2, <2>3, <3>1 DEF Shown, Before, SignaturesInv
    <3>3. a \in Notices(seen', fresh)
      BY <2>3, <3>1, <3>2 DEF Notices, Confirmed
    <3> QED
      BY <2>2, <2>3, <3>3 DEF Ends
  <2> QED
    BY <2>2, <2>3, <2>4 DEF AnyWorks
<1>4. Spec => [][Evident]_vars
  BY <1>1, <1>2, <1>3, PTL DEF Spec
<1> QED
  BY <1>4 DEF ThrottleEndsOnEvidence

\* A throttle lasts for at most a day from the last sighting of its notice, or until the date
\* the notice names comes next, and then that date was over for more than a day when it came
\* last, or was last year.
THEOREM NotForAYear == Spec => ThrottleNotForAYear
<1> DEFINE Short ==
      \A h \in Harnesses :
          limits'[h].kind = "throttled" /\ limits'[h] # limits[h] =>
              \/ limits'[h].until <= now + Day
              \/ \E a \in DOMAIN seen' : /\ HarnessOf[a] = h /\ seen'[a].reset.form = "date"
                                         /\ Comes(limits'[h].until, seen'[a].reset.at)
<1>1. TypeOK /\ [Next]_vars => [Short]_vars
  <2> SUFFICES ASSUME TypeOK, [Next]_vars, NEW h \in Harnesses,
                      limits'[h].kind = "throttled", limits'[h] # limits[h]
               PROVE  \/ limits'[h].until <= now + Day
                      \/ \E a \in DOMAIN seen' :
                            /\ HarnessOf[a] = h /\ seen'[a].reset.form = "date"
                            /\ Comes(limits'[h].until, seen'[a].reset.at)
    BY DEF Short
  <2>1. PICK w \in Fault \cup {NoFault}, list \in Listings, ledger \in Ledgers :
             Complete(w, list, ledger) /\ Tick(w, list, ledger)
    BY LimitsMoveInTicks
  <2>2. PICK a \in DOMAIN seen' : /\ HarnessOf[a] = h /\ limits'[h].until = Until(seen'[a])
                                  /\ a \in Agents /\ seen'[a] \in ScreensOf[a]
    BY <2>1, EntryAfter DEF Notices, Sights
  <2>3. \/ Until(seen'[a]) <= now + Day
        \/ seen'[a].reset.form = "date" /\ Comes(Until(seen'[a]), seen'[a].reset.at)
    BY <2>2, UntilType, TypeFacts
  <2> QED
    BY <2>2, <2>3
<1>2. Spec => [][Short]_vars
  BY <1>1, TypeInit, TypeStep, PTL DEF Spec
<1> QED
  BY <1>2 DEF ThrottleNotForAYear, Comes
=============================================================================
