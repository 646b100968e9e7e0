---------------------------- MODULE HeartbeatProofs ----------------------------
(* Proofs about heartbeat.sh: of Heartbeat, for every number of coordinators in  *)
(* whatever failover order, every ESCALATE_AFTER and any number of runs that     *)
(* die; and of IsoEpoch, that its day count is that of the Gregorian calendar.   *)
EXTENDS Heartbeat, IsoEpoch, TLAPS

Steps == {"rest", "begin", "age", "holder", "takeover", "order", "offer", "count", "note"}

\* The state of the world and what a run knows of it.
LeaseType ==
    /\ holder \in Agents \cup {Nobody} /\ fresh \in BOOLEAN
    /\ holder = Nobody => ~fresh
    /\ status \in [Agents -> Statuses]
    /\ seen \in [holder : Agents \cup {Nobody}, fresh : BOOLEAN]
    /\ offered \subseteq Agents

QueueType == queue \in Seq(Agents) /\ IsInjective(queue)

\* The count and the place of the run.
CountType ==
    /\ strikes \in 0 .. StrikeCap /\ notes \in Nat
    /\ pc \in Steps
    /\ n \in 0 .. StrikeCap /\ (pc \in {"count", "note"} <=> n # 0)
    /\ cut \in BOOLEAN /\ deaths \in 0 .. MaxDeaths

\* A sequence without its head repeats nothing that the sequence does not.
LEMMA TailInjective ==
    ASSUME NEW s \in Seq(Agents), s # <<>>, IsInjective(s)
    PROVE  /\ Head(s) \in Agents
           /\ Tail(s) \in Seq(Agents) /\ IsInjective(Tail(s))
BY DEF IsInjective

\* A sequence without its k-th member: those before keep their place, the others move up.
LEMMA RemoveAtMoves ==
    ASSUME NEW s \in Seq(Agents), NEW k \in 1 .. Len(s), NEW rest, rest = RemoveAt(s, k)
    PROVE  /\ rest \in Seq(Agents) /\ Len(rest) = Len(s) - 1
           /\ \A i \in 1 .. Len(rest) : rest[i] = IF i < k THEN s[i] ELSE s[i + 1]
<1> DEFINE before == SubSeq(s, 1, k - 1)
           after == SubSeq(s, k + 1, Len(s))
<1>1. /\ before \in Seq(Agents) /\ Len(before) = k - 1
      /\ \A i \in 1 .. k - 1 : before[i] = s[i]
  OBVIOUS
<1>2. /\ after \in Seq(Agents) /\ Len(after) = Len(s) - k
      /\ \A i \in 1 .. Len(s) - k : after[i] = s[k + i]
  OBVIOUS
<1>3. rest = before \o after
  BY DEF RemoveAt
<1> HIDE DEF before, after
<1>4. rest \in Seq(Agents) /\ Len(rest) = Len(s) - 1
  BY <1>1, <1>2, <1>3
<1>5. ASSUME NEW i \in 1 .. Len(rest)
      PROVE  rest[i] = IF i < k THEN s[i] ELSE s[i + 1]
  <2>1. CASE i < k
    BY <1>1, <1>2, <1>3, <1>4, <2>1
  <2>2. CASE ~(i < k)
    <3>1. rest[i] = after[i - (k - 1)]
      BY <1>1, <1>2, <1>3, <1>4, <2>2
    <3>2. i - (k - 1) \in 1 .. Len(s) - k /\ k + (i - (k - 1)) = i + 1
      BY <1>4, <2>2
    <3> QED
      BY <1>2, <2>2, <3>1, <3>2
  <2> QED
    BY <2>1, <2>2
<1> QED
  BY <1>4, <1>5

\* The standbys are coordinators, each once, and the stale holder is none of them.
LEMMA StandbysType ==
    ASSUME LeaseType
    PROVE  /\ Standbys \in Seq(Agents) /\ IsInjective(Standbys)
           /\ \A i \in DOMAIN Standbys : Standbys[i] # seen.holder
<1> USE HeartbeatAssumption
<1>1. CASE seen.holder \notin ToSet(Coords)
  <2>1. Standbys = Coords
    BY <1>1 DEF Standbys
  <2>2. \A i \in DOMAIN Coords : Coords[i] # seen.holder
    BY <1>1 DEF ToSet
  <2> QED
    BY <2>1, <2>2
<1>2. CASE seen.holder \in ToSet(Coords)
  <2>1. /\ DOMAIN Coords = 1 .. Len(Coords) /\ Len(Coords) \in Nat
        /\ \A i, j \in 1 .. Len(Coords) : Coords[i] = Coords[j] => i = j
    BY DEF IsInjective
  <2>2. \E i \in DOMAIN Coords : Coords[i] = seen.holder
    BY <1>2 DEF ToSet
  <2>3. PICK k \in 1 .. Len(Coords) :
             Coords[k] = seen.holder /\ Standbys = RemoveAt(Coords, k)
    BY <1>2, <2>1, <2>2 DEF Standbys
  <2>4. /\ Standbys \in Seq(Agents) /\ Len(Standbys) = Len(Coords) - 1
        /\ \A i \in 1 .. Len(Standbys) :
             Standbys[i] = IF i < k THEN Coords[i] ELSE Coords[i + 1]
    BY <2>3, RemoveAtMoves
  <2> DEFINE Place(i) == IF i < k THEN i ELSE i + 1
  <2>5. ASSUME NEW i \in 1 .. Len(Standbys)
        PROVE  Place(i) \in 1 .. Len(Coords) /\ Place(i) # k /\ Standbys[i] = Coords[Place(i)]
    BY <2>1, <2>4
  <2>6. ASSUME NEW i \in 1 .. Len(Standbys), NEW j \in 1 .. Len(Standbys),
               Standbys[i] = Standbys[j]
        PROVE  i = j
    <3>1. Place(i) = Place(j)
      <4> HIDE DEF Place
      <4> QED
        BY <2>1, <2>5, <2>6
    <3> QED
      BY <2>4, <3>1
  <2>7. ASSUME NEW i \in 1 .. Len(Standbys) PROVE Standbys[i] # seen.holder
    <3> HIDE DEF Place
    <3> QED
      BY <2>1, <2>3, <2>5
  <2>8. DOMAIN Standbys = 1 .. Len(Standbys)
    BY <2>4
  <2> QED
    BY <2>4, <2>6, <2>7, <2>8 DEF IsInjective
<1> QED
  BY <1>1, <1>2

\* The failover order of a run repeats nobody.
LEMMA OrderType ==
    ASSUME LeaseType, QueueType, Order
    PROVE  QueueType'
<1> USE HeartbeatAssumption
<1> QED
  BY StandbysType DEF Order, QueueType, LeaseType, IsInjective

\* The initial values are in their types.
LEMMA TypeInit == Init => TypeOK
<1> SUFFICES ASSUME Init PROVE LeaseType /\ QueueType /\ CountType
  BY DEF TypeOK, LeaseType, QueueType, CountType, Steps
<1>1. LeaseType
  BY DEF Init, LeaseType, Statuses
<1>2. QueueType
  BY DEF Init, QueueType, IsInjective
<1>3. 0 \in 0 .. StrikeCap /\ 0 \in 0 .. MaxDeaths
  BY HeartbeatAssumption DEF StrikeCap
<1> QED
  BY <1>1, <1>2, <1>3 DEF Init, CountType, Steps

\* The end of a run leaves an empty queue, and so does a strike.
LEMMA EmptyQueue ==
    ASSUME queue' = <<>>
    PROVE  QueueType'
BY DEF QueueType, IsInjective

\* A strike counts one more, and at least one.
LEMMA StrikeType ==
    ASSUME TypeOK, Strike
    PROVE  /\ n' \in 1 .. StrikeCap /\ pc' = "count" /\ QueueType'
           /\ strikes' \in 0 .. StrikeCap /\ notes' \in Nat /\ cut' \in BOOLEAN
BY HeartbeatAssumption, EmptyQueue DEF TypeOK, Strike, StrikeCap

\* Every action keeps every variable in its type: one step per action.
LEMMA TypeStep == TypeOK /\ [Next]_vars => TypeOK'
<1> SUFFICES ASSUME TypeOK, [Next]_vars PROVE LeaseType' /\ QueueType' /\ CountType'
  BY DEF TypeOK, LeaseType, QueueType, CountType, Steps
<1>0. LeaseType /\ QueueType /\ CountType
  BY DEF TypeOK, LeaseType, QueueType, CountType, Steps
<1>00. StrikeCap \in Nat /\ 0 \in 0 .. StrikeCap /\ StrikeCap = EscalateAfter + 1 /\ EscalateAfter \in Nat \ {0}
  BY HeartbeatAssumption DEF StrikeCap
<1>01. UNCHANGED <<world, seen, offered>> => LeaseType'
  BY <1>0 DEF world, LeaseType
<1>02. UNCHANGED queue => QueueType'
  BY <1>0 DEF QueueType
<1>03. Strike /\ UNCHANGED deaths => QueueType' /\ CountType'
  BY <1>0, StrikeType DEF CountType, Steps
<1>04. Done /\ ClearStrikes /\ UNCHANGED deaths => QueueType' /\ CountType'
  <2> SUFFICES ASSUME Done, ClearStrikes, UNCHANGED deaths PROVE QueueType' /\ CountType'
    OBVIOUS
  <2>1. QueueType'
    BY EmptyQueue DEF Done
  <2>2. cut' \in BOOLEAN
    BY DEF ClearStrikes
  <2> QED
    BY <1>0, <1>00, <2>1, <2>2 DEF Done, ClearStrikes, CountType, Steps
<1>1. CASE Start
  BY <1>0, <1>02, <1>1 DEF Start, world, count, LeaseType, CountType, Steps
<1>2. CASE ReadHolder
  <2>1. QueueType'
    BY <1>2, HeartbeatAssumption DEF ReadHolder, QueueType
  <2>2. seen' \in [holder : Agents \cup {Nobody}, fresh : BOOLEAN]
    BY <1>0, <1>2 DEF ReadHolder, LeaseType
  <2>3. LeaseType'
    BY <1>0, <1>2, <2>2 DEF ReadHolder, world, LeaseType
  <2>4. UNCHANGED <<strikes, notes, cut, n, deaths>> /\ pc = "begin" /\ pc' \in {"age", "takeover"}
    BY <1>2 DEF ReadHolder, count
  <2>5. CountType'
    BY <1>0, <2>4 DEF CountType, Steps
  <2> QED
    BY <2>1, <2>3, <2>5
<1>17. CASE ReadAge
  <2>1. seen' \in [holder : Agents \cup {Nobody}, fresh : BOOLEAN]
    <3>1. \A young \in BOOLEAN :
            [seen EXCEPT !.fresh = young] \in [holder : Agents \cup {Nobody}, fresh : BOOLEAN]
      BY <1>0 DEF LeaseType
    <3>2. [holder |-> Nobody, fresh |-> FALSE] \in [holder : Agents \cup {Nobody}, fresh : BOOLEAN]
      OBVIOUS
    <3> QED
      BY <1>17, <3>1, <3>2 DEF ReadAge
  <2>2. LeaseType'
    BY <1>0, <1>17, <2>1 DEF ReadAge, world, LeaseType
  <2>3. UNCHANGED <<strikes, notes, cut, n, deaths>> /\ pc = "age" /\ pc' \in {"holder", "takeover"}
    BY <1>17 DEF ReadAge, count
  <2>4. CountType'
    BY <1>0, <2>3 DEF CountType, Steps
  <2> QED
    BY <1>02, <1>17, <2>2, <2>4 DEF ReadAge
<1>3. CASE AskHolder
  <2>1. LeaseType'
    BY <1>01, <1>3 DEF AskHolder
  <2>2. QueueType' /\ CountType'
    BY <1>0, <1>02, <1>03, <1>04, <1>3 DEF AskHolder, count, CountType, Steps
  <2> QED
    BY <2>1, <2>2
<1>4. CASE AskTakeover
  <2>1. LeaseType'
    BY <1>01, <1>4 DEF AskTakeover
  <2>2. queue # <<>> /\ queue' = Tail(queue) => QueueType'
    BY <1>0, TailInjective DEF QueueType
  <2>3. QueueType' /\ CountType'
    BY <1>0, <1>02, <1>03, <1>4, <2>2 DEF AskTakeover, count, CountType, Steps
  <2> QED
    BY <2>1, <2>3
<1>5. CASE Order
  <2>1. QueueType'
    BY <1>0, <1>5, OrderType
  <2> QED
    BY <1>0, <1>01, <1>5, <2>1 DEF Order, count, CountType, Steps
<1>6. CASE Offer
  <2>1. Head(queue) \in Agents
    BY <1>0, <1>6, TailInjective DEF Offer, QueueType
  <2>2. LeaseType'
    BY <1>0, <1>6, <2>1 DEF Offer, world, LeaseType
  <2>3. queue' = Tail(queue) => QueueType'
    BY <1>0, <1>6, TailInjective DEF Offer, QueueType
  <2>4. QueueType' /\ CountType'
    BY <1>0, <1>03, <1>6, <2>3 DEF Offer, count, CountType, Steps
  <2> QED
    BY <2>2, <2>4
<1>7. CASE NobodyReady
  BY <1>01, <1>03, <1>7 DEF NobodyReady
<1>8. CASE Unreachable
  BY <1>01, <1>03, <1>8 DEF Unreachable
<1>9. CASE WriteCount
  <2>1. QueueType'
    BY <1>02, <1>9, EmptyQueue DEF WriteCount, Done
  <2> QED
    BY <1>0, <1>00, <1>01, <1>9, <2>1 DEF WriteCount, Done, CountType, Steps
<1>10. CASE Note
  <2>1. QueueType'
    BY <1>10, EmptyQueue DEF Note, Done
  <2> QED
    BY <1>0, <1>00, <1>01, <1>10, <2>1 DEF Note, Done, CountType, Steps
<1>11. CASE Die
  <2>1. QueueType'
    BY <1>11, EmptyQueue DEF Die, Done
  <2>2. CountType'
    BY <1>0, <1>00, <1>11, HeartbeatAssumption DEF Die, Done, CountType, Steps
  <2> QED
    BY <1>01, <1>11, <2>1, <2>2 DEF Die
<1>12. ASSUME NEW c \in Agents, Renew(c)
       PROVE  LeaseType' /\ QueueType' /\ CountType'
  BY <1>0, <1>02, <1>12, HeartbeatAssumption DEF Renew, count, LeaseType, CountType
<1>13. ASSUME NEW c \in Agents, Change(c)
       PROVE  LeaseType' /\ QueueType' /\ CountType'
  BY <1>0, <1>02, <1>13 DEF Change, count, LeaseType, CountType
<1>14. CASE Expire
  BY <1>0, <1>02, <1>14 DEF Expire, count, LeaseType, CountType
<1>15. CASE Corrupt
  BY <1>0, <1>02, <1>15 DEF Corrupt, count, LeaseType, CountType
<1>16. CASE UNCHANGED vars
  BY <1>0, <1>01, <1>02, <1>16 DEF vars, world, CountType
<1> QED
  BY <1>1, <1>2, <1>3, <1>4, <1>5, <1>6, <1>7, <1>8, <1>9, <1>10, <1>11, <1>12, <1>13,
     <1>14, <1>15, <1>16, <1>17 DEF Next, Run

\* Every variable keeps its type; a run asks nobody twice, in either of its loops.
THEOREM TypeCorrect == Spec => []TypeOK
BY TypeInit, TypeStep, PTL DEF Spec

-----------------------------------------------------------------------------
(* The notes *)

\* The notes stand for the strikes counted so far, also inside strike, as long as no run
\* has died there: one step for strike, one for the end of a streak, one per other action.
LEMMA StreakStep == TypeOK /\ StreakInv /\ [Next]_vars => StreakInv'
<1> SUFFICES ASSUME TypeOK, StreakInv, [Next]_vars, ~cut' PROVE StreakInv'
  BY DEF StreakInv
<1>0. /\ EscalateAfter \in Nat \ {0} /\ StrikeCap = EscalateAfter + 1
      /\ strikes \in 0 .. StrikeCap /\ n \in 0 .. StrikeCap /\ notes \in Nat
      /\ (pc \in {"count", "note"} <=> n # 0) /\ cut \in BOOLEAN
  BY HeartbeatAssumption DEF TypeOK, StrikeCap
<1>01. Strike /\ pc \notin {"count", "note"} => StreakInv'
  BY <1>0 DEF Strike, StreakInv, Noted
<1>02. ClearStrikes /\ Done => StreakInv'
  BY <1>0 DEF ClearStrikes, Done, StreakInv, Noted
<1>03. /\ UNCHANGED <<strikes, notes, n, cut>> /\ pc \notin {"count", "note"}
       /\ pc' \notin {"count", "note"}
       => StreakInv'
  BY DEF StreakInv, Noted
<1>04. UNCHANGED <<strikes, notes, n, cut, pc>> => StreakInv'
  BY DEF StreakInv, Noted
<1>1. CASE Start
  BY <1>03, <1>1 DEF Start, count
<1>2. CASE ReadHolder
  BY <1>03, <1>2 DEF ReadHolder, count
<1>15. CASE ReadAge
  BY <1>03, <1>15 DEF ReadAge, count
<1>3. CASE AskHolder
  BY <1>01, <1>02, <1>03, <1>3 DEF AskHolder, count
<1>4. CASE AskTakeover
  BY <1>01, <1>03, <1>4 DEF AskTakeover, count
<1>5. CASE Order
  BY <1>03, <1>5 DEF Order, count
<1>6. CASE Offer
  BY <1>01, <1>03, <1>6 DEF Offer, count
<1>7. CASE NobodyReady
  BY <1>01, <1>7 DEF NobodyReady
<1>8. CASE Unreachable
  BY <1>01, <1>8 DEF Unreachable
<1>9. CASE WriteCount
  BY <1>0, <1>9 DEF WriteCount, Done, StreakInv, Noted
<1>10. CASE Note
  BY <1>0, <1>10 DEF Note, Done, StreakInv, Noted
<1>11. CASE Die
  BY <1>0, <1>11 DEF Die, Done, StreakInv, Noted
<1>12. ASSUME NEW c \in Agents, Renew(c) \/ Change(c)
       PROVE  StreakInv'
  BY <1>04, <1>12 DEF Renew, Change, count
<1>13. CASE Expire \/ Corrupt
  BY <1>04, <1>13 DEF Expire, Corrupt, count
<1>14. CASE UNCHANGED vars
  BY <1>04, <1>14 DEF vars
<1> QED
  BY <1>1, <1>2, <1>3, <1>4, <1>5, <1>6, <1>7, <1>8, <1>9, <1>10, <1>11, <1>12, <1>13,
     <1>14, <1>15 DEF Next, Run

\* However many runs go wrong in a row and wherever others die, the user has one note from
\* the ESCALATE_AFTER-th on and none before; only a death inside strike breaks the count.
THEOREM NotedOncePerStreak == Spec => []OneNotePerStreak
<1>1. Init => TypeOK /\ StreakInv
  BY TypeInit, HeartbeatAssumption DEF Init, StreakInv, Noted
<1>2. TypeOK /\ StreakInv /\ [Next]_vars => (TypeOK /\ StreakInv)'
  BY TypeStep, StreakStep
<1>3. StreakInv => OneNotePerStreak
  BY DEF StreakInv, OneNotePerStreak, Noted
<1> QED
  BY <1>1, <1>2, <1>3, PTL DEF Spec

-----------------------------------------------------------------------------
(* The day count of iso_epoch: the first of January 1970 is day 0, and each day *)
(* is one more than the day before.                                             *)

\* The count starts on 1970-01-01 (heartbeat.sh:66).
THEOREM EpochBegins == DaysFromCivil(1970, 1, 1) = 0
BY DEF DaysFromCivil, Quot

\* A day within a month.
LEMMA WithinMonth ==
  ASSUME NEW y \in Nat \ {0}, NEW m \in 1 .. 12, NEW d \in Nat
  PROVE  DaysFromCivil(y, m, d + 1) = DaysFromCivil(y, m, d) + 1
BY SMT DEF DaysFromCivil, Quot

\* The ends of the months but December and February, which stay in a year that begins
\* in March.
LEMMA MonthEnd ==
  ASSUME NEW y \in Nat \ {0}, NEW m \in 1 .. 11, m # 2
  PROVE  DaysFromCivil(y, m + 1, 1) = DaysFromCivil(y, m, DaysIn(y, m)) + 1
BY SMT DEF DaysFromCivil, DaysIn, Quot

\* The end of December, over the end of a year.
LEMMA YearEnd ==
  ASSUME NEW y \in Nat \ {0}
  PROVE  DaysFromCivil(y + 1, 1, 1) = DaysFromCivil(y, 12, 31) + 1
BY SMT DEF DaysFromCivil, Quot

\* The end of February, in leap years and others.
LEMMA FebruaryEnd ==
  ASSUME NEW y \in Nat \ {0}
  PROVE  DaysFromCivil(y, 3, 1) = DaysFromCivil(y, 2, DaysIn(y, 2)) + 1
BY SMT DEF DaysFromCivil, DaysIn, Leap, Quot

\* Each day is one later than the day before, over the ends of months, leap years,
\* centuries and eras (heartbeat.sh:61-66).
THEOREM EachDayIsOneLater ==
  ASSUME NEW y, NEW m, NEW d, IsDate(y, m, d)
  PROVE  LET next == NextDay(y, m, d)
         IN  DaysFromCivil(next[1], next[2], next[3]) = DaysFromCivil(y, m, d) + 1
<1>1. y \in Nat \ {0} /\ m \in 1 .. 12 /\ d \in 1 .. DaysIn(y, m) /\ DaysIn(y, m) \in Nat
  BY DEF IsDate, DaysIn
<1>2. CASE d < DaysIn(y, m)
  <2>1. NextDay(y, m, d) = <<y, m, d + 1>>
    BY <1>2 DEF NextDay
  <2> QED
    BY <1>1, <2>1, WithinMonth
<1>3. CASE d = DaysIn(y, m) /\ m < 12
  <2>1. NextDay(y, m, d) = <<y, m + 1, 1>>
    BY <1>1, <1>3 DEF NextDay
  <2>2. CASE m = 2
    BY <1>1, <1>3, <2>1, <2>2, FebruaryEnd
  <2>3. CASE m # 2
    BY <1>1, <1>3, <2>1, <2>3, MonthEnd
  <2> QED
    BY <2>2, <2>3
<1>4. CASE d = DaysIn(y, m) /\ m = 12
  <2>1. NextDay(y, m, d) = <<y + 1, 1, 1>> /\ d = 31
    BY <1>1, <1>4 DEF NextDay, DaysIn
  <2> QED
    BY <1>1, <1>4, <2>1, YearEnd
<1> QED
  BY <1>1, <1>2, <1>3, <1>4
=============================================================================
