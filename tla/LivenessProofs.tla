---------------------------- MODULE LivenessProofs ----------------------------
(* Proofs about Liveness, for any slots, lists, clocks and lengths of the run. *)
EXTENDS Liveness, FiniteSetTheorems, TLAPS

Agents == [seq : Nat, revision : Nat, changed : Nat, repo : Int]
Guards == [ticked : BOOLEAN, last : Int, recovering : BOOLEAN,
           stable : 0 .. StableReads - 1, key : Listings \cup {NoList}]
Kinds == Prompts \cup {"hang", "blocked"}

\* The sizes are numbers.
LEMMA Sizes == /\ Hour \in Nat \ {0} /\ MaxPerHour \in Nat \ {0} /\ HangAfter \in Nat \ {0}
               /\ MaxTime \in Nat \ {0} /\ MaxLag \in Nat /\ MaxSeq \in Nat
               /\ Interval \in Nat \ {0} /\ StableReads \in Nat /\ StableReads >= 2
BY LivenessAssumption, GuardAssumption

-----------------------------------------------------------------------------
(* One tick *)

\* A guard with another state of recovery is a guard.
LEMMA GuardWritten ==
    ASSUME NEW g \in Guards, NEW b \in BOOLEAN, NEW n \in 0 .. StableReads - 1
    PROVE  [g EXCEPT !.recovering = b, !.stable = n] \in Guards /\ [g EXCEPT !.stable = n] \in Guards
BY DEF Guards

\* The guard after a tick is a guard; it has seen this list at this time.
LEMMA GuardType ==
    ASSUME NEW g \in Guards, NEW list \in Listings, NEW t \in Int
    PROVE  GuardAfter(g, list, t) \in Guards
<1> DEFINE stable == IF list = g.key THEN g.stable + 1 ELSE 1
           after == [g EXCEPT !.ticked = TRUE, !.last = t, !.key = list]
           some == GuardAfter(g, list, t)
<1>1. after \in Guards
  BY DEF Guards
<1>2. stable \in Nat \ {0} /\ g.recovering \in BOOLEAN
  BY DEF Guards
<1>3. 0 \in 0 .. StableReads - 1 /\ 1 \in 0 .. StableReads - 1
      /\ (stable < StableReads => stable \in 0 .. StableReads - 1)
      /\ (stable < StableReads \/ stable >= StableReads)
  BY <1>2, Sizes
<1>4. \/ some = [after EXCEPT !.recovering = TRUE, !.stable = 1]
      \/ stable < StableReads /\ some = [after EXCEPT !.stable = stable]
      \/ some = [after EXCEPT !.recovering = FALSE, !.stable = 0]
      \/ some = after
  <2>1. CASE Gap(g, t)
    BY <2>1, Zenon DEF GuardAfter
  <2>2. CASE ~Gap(g, t) /\ g.recovering /\ stable < StableReads
    BY <2>2 DEF GuardAfter
  <2>3. CASE ~Gap(g, t) /\ g.recovering /\ ~(stable < StableReads)
    BY <1>3, <2>3 DEF GuardAfter
  <2>4. CASE ~Gap(g, t) /\ ~g.recovering
    BY <2>4 DEF GuardAfter
  <2> QED
    BY <2>1, <2>2, <2>3, <2>4
<1> HIDE DEF after, stable, some
<1> QED
  BY <1>1, <1>3, <1>4, GuardWritten DEF some

\* The types of the variables and of the memories, by name.
LEMMA TypeFacts ==
    ASSUME TypeOK
    PROVE  /\ real \in Nat /\ lag \in Nat /\ now \in Int
           /\ agent \in [Slots -> Agents] /\ guard \in Guards
           /\ \A s \in DOMAIN slots : s \in Slots /\ slots[s] \in SlotMemory
           /\ acts \subseteq Decisions
BY DEF TypeOK, Agents, Guards, now

\* The code's test for a gap: the time since the last tick is negative or too long.
LEMMA GapMeans == ASSUME TypeOK PROVE Gap(guard, now) <=> Woken
<1>1. guard.last \in Int /\ now \in Int
  BY TypeFacts DEF Guards
<1> QED
  BY <1>1, Sizes DEF Gap, Woken

\* The memory a tick decides with: up to date with the agent, what it was before when
\* nothing has changed, and with the marks and the recent prompts it had.
LEMMA BeforeFacts ==
    ASSUME TypeOK, NEW s \in Slots
    PROVE  /\ Before(s) \in SlotMemory
           /\ Before(s).seq = agent[s].seq /\ Before(s).revision = agent[s].revision
           /\ \/ Before(s).progress = now
              \/ /\ ~Gap(guard, now)
                 /\ s \in DOMAIN slots /\ slots[s].seq = agent[s].seq
                 /\ slots[s].revision = agent[s].revision /\ Before(s).progress = slots[s].progress
           /\ s \in DOMAIN slots =>
                /\ Before(s).acted = slots[s].acted /\ Before(s).actedSeq = slots[s].actedSeq
                /\ Before(s).blocked = slots[s].blocked /\ Before(s).blockedSeq = slots[s].blockedSeq
                /\ Before(s).sent = Recent(slots[s].sent)
           /\ s \notin DOMAIN slots =>
                Before(s).actedSeq = 0 /\ Before(s).blockedSeq = 0 /\ Before(s).sent = {}
<1>1. now \in Int /\ agent[s] \in Agents
  BY TypeFacts
<1> DEFINE m == IF s \in DOMAIN slots THEN Refreshed(s, slots[s], Gap(guard, now)) ELSE Unseen(s)
<1>2. Before(s) = [m EXCEPT !.sent = Recent(@)]
  BY DEF Before
<1>3. CASE s \notin DOMAIN slots
  <2>1. m = Unseen(s)
    BY <1>3
  <2>2. Unseen(s) \in SlotMemory
    BY <1>1 DEF Unseen, SlotMemory, Agents
  <2>3. Recent({}) = {}
    BY DEF Recent
  <2> QED
    BY <1>2, <1>3, <2>1, <2>2, <2>3 DEF Unseen, SlotMemory
<1>4. CASE s \in DOMAIN slots
  <2>1. slots[s] \in SlotMemory
    BY <1>4, TypeFacts
  <2>2. m = Refreshed(s, slots[s], Gap(guard, now))
    BY <1>4
  <2>3. m \in SlotMemory /\ m.seq = agent[s].seq /\ m.revision = agent[s].revision
        /\ (m.progress = now \/ (/\ ~Gap(guard, now)
                                 /\ slots[s].seq = agent[s].seq /\ slots[s].revision = agent[s].revision
                                 /\ m.progress = slots[s].progress))
        /\ m.acted = slots[s].acted /\ m.actedSeq = slots[s].actedSeq
        /\ m.blocked = slots[s].blocked /\ m.blockedSeq = slots[s].blockedSeq /\ m.sent = slots[s].sent
    BY <1>1, <2>1, <2>2 DEF Refreshed, SlotMemory, Agents
  <2>4. Recent(m.sent) \subseteq Sends
    BY <2>3 DEF Recent, SlotMemory
  <2> HIDE DEF m
  <2> QED
    BY <1>2, <1>4, <2>3, <2>4 DEF SlotMemory
<1> QED
  BY <1>3, <1>4

\* Every kind of decision and what it needs: no prompt in an epoch that has had one or
\* beyond the cap, no dialog twice, no hang before the silence is long enough.
LEMMA DecisionFacts ==
    ASSUME TypeOK, NEW s \in Slots, NEW list, NEW view
    PROVE  LET kind == Decided(s, list, view)
               m == Before(s)
           IN  /\ kind \in Kinds \cup {"none"}
               /\ kind # "none" => ~GuardAfter(guard, list, now).recovering
               /\ kind \in Prompts => /\ ~(m.acted /\ m.actedSeq = agent[s].seq)
                                      /\ Cardinality(m.sent) < MaxPerHour
               /\ kind = "blocked" => ~(m.blocked /\ m.blockedSeq = agent[s].seq)
               /\ kind = "hang" => IF agent[s].repo > m.progress
                                   THEN ~(now - agent[s].repo < HangAfter)
                                   ELSE ~(now - m.progress < HangAfter)
<1> DEFINE m == Before(s)
           v == view[s]
<1> HIDE DEF m, v
<1> DEFINE kind == Kind(s, v, m)
<1>1. /\ kind \in Kinds \cup {"none"}
      /\ kind \in Prompts => ~(m.acted /\ m.actedSeq = agent[s].seq) /\ Cardinality(m.sent) < MaxPerHour
      /\ kind = "blocked" => ~(m.blocked /\ m.blockedSeq = agent[s].seq)
      /\ kind = "hang" => IF agent[s].repo > m.progress
                          THEN ~(now - agent[s].repo < HangAfter)
                          ELSE ~(now - m.progress < HangAfter)
  <2> DEFINE progress == IF agent[s].repo > m.progress THEN agent[s].repo ELSE m.progress
             prompt == IF v.stall THEN "continue" ELSE "nudge"
  <2>0. prompt \in {"continue", "nudge"}
    OBVIOUS
  <2>1. CASE v.focused \/ v.status \notin {"blocked", "working", "idle", "done"}
    <3>1. kind = "none"
      BY <2>1 DEF Kind
    <3> QED
      BY <3>1 DEF Prompts
  <2>2. CASE ~v.focused /\ v.status = "blocked"
    <3>1. kind = IF m.blocked /\ m.blockedSeq = agent[s].seq THEN "none" ELSE "blocked"
      BY <2>2 DEF Kind
    <3> QED
      BY <3>1 DEF Prompts, Kinds
  <2>3. CASE ~v.focused /\ v.status = "working"
    <3>1. kind = IF v.heavyWait \/ m.hangReported \/ now - progress < HangAfter THEN "none" ELSE "hang"
      BY <2>3 DEF Kind
    <3> QED
      BY <3>1 DEF Prompts, Kinds
  <2>4. CASE ~v.focused /\ v.status \in {"idle", "done"}
    <3>1. kind = IF /\ v.ready /\ (v.stall \/ v.work)
                    /\ ~(m.acted /\ m.actedSeq = agent[s].seq)
                    /\ Cardinality(m.sent) < MaxPerHour
                 THEN prompt ELSE "none"
      BY <2>4 DEF Kind
    <3> HIDE DEF prompt
    <3> QED
      BY <2>0, <3>1 DEF Prompts, Kinds
  <2> QED
    BY <2>1, <2>2, <2>3, <2>4
<1> HIDE DEF kind
<1>2. Decided(s, list, view) = IF GuardAfter(guard, list, now).recovering THEN "none" ELSE kind
  BY DEF Decided, kind, m, v
<1> QED
  BY <1>1, <1>2 DEF m, Kinds, Prompts


\* The marks and the prompts a decision leaves; it changes nothing else that is compared.
LEMMA MarkFacts ==
    ASSUME TypeOK, NEW s \in Slots, NEW m \in SlotMemory, NEW kind \in Kinds \cup {"none"}
    PROVE  LET n == Marked(s, m, kind)
           IN  /\ n \in SlotMemory
               /\ n.seq = m.seq /\ n.revision = m.revision /\ n.progress = m.progress
               /\ IF kind \in Prompts
                  THEN /\ n.acted /\ n.actedSeq = agent[s].seq
                       /\ n.sent = m.sent \cup {[at |-> real, clock |-> now]}
                  ELSE n.acted = m.acted /\ n.actedSeq = m.actedSeq /\ n.sent = m.sent
               /\ IF kind = "blocked" THEN n.blocked /\ n.blockedSeq = agent[s].seq
                  ELSE n.blocked = m.blocked /\ n.blockedSeq = m.blockedSeq
<1>1. real \in Nat /\ now \in Int /\ agent[s].seq \in Nat
  BY TypeFacts DEF Agents
<1>2. CASE kind = "blocked"
  <2>1. Marked(s, m, kind) = [m EXCEPT !.blocked = TRUE, !.blockedSeq = agent[s].seq]
    BY <1>2 DEF Marked, Prompts
  <2> QED
    BY <1>1, <1>2, <2>1 DEF SlotMemory, Prompts
<1>3. CASE kind = "hang"
  <2>1. Marked(s, m, kind) = [m EXCEPT !.hangReported = TRUE]
    BY <1>3 DEF Marked, Prompts
  <2> QED
    BY <1>1, <1>3, <2>1 DEF SlotMemory, Prompts
<1>4. CASE kind \in Prompts
  <2> DEFINE sends == m.sent \cup {[at |-> real, clock |-> now]}
  <2>1. Marked(s, m, kind) = [m EXCEPT !.acted = TRUE, !.actedSeq = agent[s].seq, !.sent = sends]
    BY <1>4 DEF Marked, Prompts
  <2>2. sends \in SUBSET Sends
    BY <1>1 DEF SlotMemory, Sends
  <2> HIDE DEF sends
  <2> QED
    BY <1>1, <1>4, <2>1, <2>2 DEF SlotMemory, Prompts, sends
<1>5. CASE kind = "none"
  BY <1>5 DEF Marked, Prompts
<1> QED
  BY <1>2, <1>3, <1>4, <1>5 DEF Kinds

\* A decision that is new to the history is one of this tick.
LEMMA NewDecision ==
    ASSUME TypeOK, NEW list \in Listings, NEW view, Tick(list, view), NEW a \in acts' \ acts
    PROVE  /\ a.slot \in DOMAIN list /\ a.slot \in Slots
           /\ a.kind = Decided(a.slot, list, view) /\ a.kind # "none"
           /\ a.seq = agent[a.slot].seq /\ a.at = real
BY LivenessAssumption DEF Tick

\* What a tick leaves: every listed slot with its marked memory, and of the history what
\* it had and the decisions of this tick, one of a slot at most.
LEMMA TickFacts ==
    ASSUME TypeOK, NEW list \in Listings, NEW view, Tick(list, view)
    PROVE  /\ DOMAIN slots' = DOMAIN list /\ DOMAIN list \subseteq Slots
           /\ \A s \in DOMAIN list : slots'[s] = Marked(s, Before(s), Decided(s, list, view))
           /\ \A a \in acts' : a \in acts \/ a = [slot |-> a.slot, kind |-> Decided(a.slot, list, view),
                                                  seq |-> agent[a.slot].seq, at |-> real]
           /\ \A a \in acts' \cap acts : a.at < real
           /\ UNCHANGED <<real, lag, agent>>
BY LivenessAssumption DEF Tick

\* The agents and the clock only go forward, and a change is of this moment.
LEMMA AgentFacts ==
    ASSUME TypeOK, NEW s \in Slots, Change(s) \/ Work(s)
    PROVE  /\ \A t \in Slots \ {s} : agent'[t] = agent[t]
           /\ agent'[s].changed = real
           /\ \/ agent'[s].seq = agent[s].seq + 1 /\ agent'[s].revision = agent[s].revision
              \/ agent'[s].seq = agent[s].seq /\ agent'[s].revision = agent[s].revision + 1
              \/ /\ agent'[s].seq = agent[s].seq /\ agent'[s].revision = agent[s].revision
                 /\ agent'[s].repo = now
           /\ agent' \in [Slots -> Agents]
           /\ UNCHANGED <<real, lag, guard, slots, acts, lists, woken>>
<1>1. agent \in [Slots -> Agents] /\ real \in Nat /\ now \in Int
  BY TypeFacts
<1> DEFINE r == agent[s]
           a == [r EXCEPT !.seq = @ + 1, !.changed = real]
           b == [r EXCEPT !.revision = @ + 1, !.changed = real]
           c == [r EXCEPT !.repo = now, !.changed = real]
<1>2. r \in Agents /\ r.seq + 1 \in Nat /\ r.revision + 1 \in Nat
  BY <1>1 DEF Agents
<1>3. a \in Agents /\ a.changed = real /\ a.seq = r.seq + 1 /\ a.revision = r.revision
  <2> HIDE DEF r
  <2> QED
    BY <1>1, <1>2 DEF Agents
<1>4. b \in Agents /\ b.changed = real /\ b.seq = r.seq /\ b.revision = r.revision + 1
  <2> HIDE DEF r
  <2> QED
    BY <1>1, <1>2 DEF Agents
<1>5. c \in Agents /\ c.changed = real /\ c.seq = r.seq /\ c.revision = r.revision /\ c.repo = now
  <2> HIDE DEF r
  <2> QED
    BY <1>1, <1>2 DEF Agents
<1>6. agent' = [agent EXCEPT ![s] = a] \/ agent' = [agent EXCEPT ![s] = b]
      \/ agent' = [agent EXCEPT ![s] = c]
  BY DEF Change, Work
<1>7. UNCHANGED <<real, lag, guard, slots, acts, lists, woken>>
  BY DEF Change, Work
<1> HIDE DEF a, b, c
<1> QED
  BY <1>1, <1>3, <1>4, <1>5, <1>6, <1>7

-----------------------------------------------------------------------------
(* The types *)

\* The initial values are in their types.
LEMMA TypeInit == Init => TypeOK
BY Sizes DEF Init, TypeOK, FirstRun

\* Every action keeps every variable in its type.
LEMMA TypeStep == TypeOK /\ [Next]_vars => TypeOK'
<1> SUFFICES ASSUME TypeOK, [Next]_vars PROVE TypeOK'
  OBVIOUS
<1>1. ASSUME Elapse \/ SetBack PROVE TypeOK'
  BY <1>1 DEF Elapse, SetBack, TypeOK
<1>2. ASSUME NEW s \in Slots, Change(s) \/ Work(s) PROVE TypeOK'
  BY <1>2, AgentFacts DEF TypeOK, Agents
<1>4. ASSUME NEW list \in Listings, NEW view, Tick(list, view) PROVE TypeOK'
  <2>1. UNCHANGED <<real, lag, agent>> /\ DOMAIN slots' \subseteq Slots
    BY <1>4, TickFacts
  <2>2. guard' \in Guards
    BY <1>4, GuardType, TypeFacts DEF Tick
  <2>3. ASSUME NEW s \in DOMAIN slots' PROVE slots'[s] \in SlotMemory
    <3>1. s \in Slots /\ slots'[s] = Marked(s, Before(s), Decided(s, list, view))
      BY <1>4, <2>3, TickFacts
    <3> QED
      BY <3>1, BeforeFacts, DecisionFacts, MarkFacts
  <2>4. acts' \subseteq Decisions
    <3>1. ASSUME NEW a \in acts' \ acts PROVE a \in Decisions
      <4>1. a.slot \in Slots /\ a = [slot |-> a.slot, kind |-> Decided(a.slot, list, view),
                                     seq |-> agent[a.slot].seq, at |-> real]
            /\ Decided(a.slot, list, view) # "none"
        BY <1>4, NewDecision, TickFacts
      <4>2. Decided(a.slot, list, view) \in Kinds /\ agent[a.slot].seq \in Nat /\ real \in Nat
        BY <4>1, DecisionFacts, TypeFacts DEF Agents
      <4> QED
        BY <4>1, <4>2 DEF Decisions, Kinds
    <3> QED
      BY <3>1, TypeFacts
  <2>5. lists' \in Seq(Listings) /\ Len(lists') <= 2
    <3>1. lists' \in {<<list>>, <<>>} \/ (lists # <<>> /\ lists' = <<lists[Len(lists)], list>>)
      BY <1>4 DEF Tick
    <3>2. lists # <<>> => lists[Len(lists)] \in Listings
      BY DEF TypeOK
    <3>5. CASE lists' = <<>>
      BY <3>5
    <3>3. CASE lists' = <<list>>
      <4>1. <<list>> \in Seq(Listings) /\ Len(<<list>>) <= 2
        OBVIOUS
      <4> QED
        BY <3>3, <4>1
    <3>4. CASE lists # <<>> /\ lists' = <<lists[Len(lists)], list>>
      <4>1. \A x, y \in Listings : <<x, y>> \in Seq(Listings) /\ Len(<<x, y>>) <= 2
        OBVIOUS
      <4> QED
        BY <3>2, <3>4, <4>1
    <3> QED
      BY <3>1, <3>3, <3>4, <3>5
  <2>6. woken' \in Nat
    BY <1>4 DEF Tick, TypeOK
  <2> QED
    BY <2>1, <2>2, <2>3, <2>4, <2>5, <2>6 DEF TypeOK, Guards
<1>5. CASE UNCHANGED vars
  BY <1>5 DEF vars, TypeOK
<1> QED
  BY <1>1, <1>2, <1>4, <1>5 DEF Next

\* Every variable keeps its type, the guard's count below StableReads among them.
THEOREM TypeCorrect == Spec => []TypeOK
BY TypeInit, TypeStep, PTL DEF Spec

-----------------------------------------------------------------------------
(* Recovery *)

\* A tick that decides something right after a gap has seen the list of the tick before.
LEMMA RecoveryTick ==
    ASSUME TypeOK, RecoveryInv, NEW list \in Listings, NEW view, Tick(list, view)
    PROVE  /\ RecoveryInv'
           /\ lists' # <<>> /\ ~guard'.recovering => Agree(lists')
<1> DEFINE gap == Gap(guard, now)
           key == guard.key
           after == [guard EXCEPT !.ticked = TRUE, !.last = now, !.key = list]
<1>0. gap <=> Woken
  BY GapMeans
<1>1. guard \in Guards /\ after \in Guards
  BY TypeFacts DEF Guards
<1>2. guard' = GuardAfter(guard, list, now)
  BY DEF Tick
<1>3. StableReads >= 2 /\ StableReads \in Nat
  BY Sizes
<1>4. lists \in Seq(Listings)
  BY DEF TypeOK
<1>5. CASE gap
  <2>1. lists' = <<list>>
    BY <1>0, <1>5 DEF Tick
  <2>2. guard' = [after EXCEPT !.recovering = TRUE, !.stable = 1]
    BY <1>2, <1>5, Zenon DEF GuardAfter
  <2>3. guard'.recovering /\ guard'.stable = 1 /\ guard'.key = list
    BY <1>1, <2>2 DEF Guards
  <2> QED
    BY <2>1, <2>3 DEF RecoveryInv
<1>6. CASE ~gap /\ (lists = <<>> \/ Agree(lists))
  <2>1. lists' = <<>>
    BY <1>0, <1>6 DEF Tick
  <2> QED
    BY <2>1 DEF RecoveryInv
<1>7. CASE ~gap /\ lists # <<>> /\ ~Agree(lists)
  <2>1. lists' = <<lists[Len(lists)], list>>
    BY <1>0, <1>7 DEF Tick
  <2>2. guard.recovering /\ guard.stable = 1 /\ key = lists[Len(lists)]
    BY <1>7 DEF RecoveryInv
  <2>3. Agree(lists') <=> key = list
    BY <2>1, <2>2 DEF Agree
  <2>4. CASE key # list
    <3> DEFINE stable == IF list = key THEN guard.stable + 1 ELSE 1
    <3>4. stable = 1 /\ stable < StableReads /\ ~(stable >= StableReads)
      BY <1>3, <2>4
    <3>5. ~gap /\ guard.recovering
      BY <1>7, <2>2
    <3>6. GuardAfter(guard, list, now) = [after EXCEPT !.stable = stable]
      BY <3>4, <3>5 DEF GuardAfter
    <3> HIDE DEF stable
    <3>1. guard' = [after EXCEPT !.stable = 1]
      BY <1>2, <3>4, <3>6
    <3>2. guard'.recovering /\ guard'.stable = 1 /\ guard'.key = list
      BY <1>1, <2>2, <3>1 DEF Guards
    <3>3. Len(lists') = 2 /\ lists'[2] = list
      BY <2>1
    <3> QED
      BY <2>3, <3>2, <3>3 DEF RecoveryInv
  <2> QED
    BY <2>3, <2>4 DEF RecoveryInv
<1> QED
  BY <1>5, <1>6, <1>7

\* The lists seen since a gap stay what the guard counts.
LEMMA RecoveryStep == TypeOK /\ RecoveryInv /\ [Next]_vars => RecoveryInv'
<1> SUFFICES ASSUME TypeOK, RecoveryInv, [Next]_vars PROVE RecoveryInv'
  OBVIOUS
<1>1. ASSUME NEW list \in Listings, NEW view, Tick(list, view) PROVE RecoveryInv'
  BY <1>1, RecoveryTick
<1>2. CASE UNCHANGED <<guard, lists>>
  BY <1>2 DEF RecoveryInv, Agree
<1> QED
  BY <1>1, <1>2 DEF Next, Elapse, SetBack, Change, Work, vars

\* After a gap nothing is decided before two consecutive ticks have seen the same
\* agents, whatever StableReads above one is (liveness.go).
THEOREM DecisionsSettled == Spec => SettledBeforeActing
<1> DEFINE Settled == (acts' \ acts) # {} /\ lists' # <<>> => Agree(lists')
<1>1. Init => RecoveryInv
  BY DEF Init, RecoveryInv
<1>2. TypeOK /\ RecoveryInv /\ [Next]_vars => [Settled]_vars
  <2> SUFFICES ASSUME TypeOK, RecoveryInv, [Next]_vars, NEW a \in acts' \ acts, lists' # <<>>
               PROVE  Agree(lists')
    OBVIOUS
  <2>1. PICK list \in Listings : \E view : Tick(list, view)
    BY DEF Next, Elapse, SetBack, Change, Work, vars
  <2>2. PICK view : Tick(list, view)
    BY <2>1
  <2>3. ~guard'.recovering
    <3>1. Decided(a.slot, list, view) # "none"
      BY <2>2, NewDecision
    <3>2. guard' = GuardAfter(guard, list, now)
      BY <2>2 DEF Tick
    <3> QED
      BY <3>1, <3>2 DEF Decided
  <2> QED
    BY <2>2, <2>3, RecoveryTick
<1> QED
  BY <1>1, <1>2, TypeInit, TypeStep, RecoveryStep, PTL DEF Spec, SettledBeforeActing

-----------------------------------------------------------------------------
(* Silence *)


\* Nothing has changed since the later of what the memory and the repository tell.
LEMMA SilenceStep == TypeOK /\ SilenceInv /\ [Next]_vars => SilenceInv'
<1> SUFFICES ASSUME TypeOK, SilenceInv, [Next]_vars PROVE SilenceInv'
  OBVIOUS
<1>0. /\ real \in Nat /\ lag \in Nat /\ woken \in Nat /\ agent \in [Slots -> Agents]
      /\ \A s \in DOMAIN slots : s \in Slots /\ slots[s] \in SlotMemory
  BY TypeFacts DEF TypeOK
<1>1. CASE Elapse
  BY <1>0, <1>1 DEF Elapse, SilenceInv, Agents, SlotMemory
<1>2. CASE SetBack
  BY <1>0, <1>2 DEF SetBack, SilenceInv, Agents, SlotMemory
<1>3. ASSUME NEW s \in Slots, Change(s) \/ Work(s) PROVE SilenceInv'
  <2>1. UNCHANGED <<real, lag, slots, woken>> /\ agent' \in [Slots -> Agents]
        /\ \A t \in Slots \ {s} : agent'[t] = agent[t]
    BY <1>3, AgentFacts
  <2>2. ASSUME s \in DOMAIN slots
        PROVE  /\ slots[s].seq <= agent'[s].seq /\ slots[s].revision <= agent'[s].revision
               /\ slots[s].seq = agent'[s].seq /\ slots[s].revision = agent'[s].revision =>
                    agent'[s].changed - lag <= agent'[s].repo
    <3>1. slots[s].seq \in Nat /\ slots[s].revision \in Nat /\ agent[s].seq \in Nat /\ agent[s].revision \in Nat
      BY <1>0, <2>2 DEF SlotMemory, Agents
    <3>2. slots[s].seq <= agent[s].seq /\ slots[s].revision <= agent[s].revision
      BY <2>2 DEF SilenceInv
    <3>3. agent'[s].changed = real
      BY <1>3, AgentFacts
    <3>4. CASE agent'[s].seq = agent[s].seq + 1 /\ agent'[s].revision = agent[s].revision
      BY <3>1, <3>2, <3>4
    <3>5. CASE agent'[s].seq = agent[s].seq /\ agent'[s].revision = agent[s].revision + 1
      BY <3>1, <3>2, <3>5
    <3>6. CASE agent'[s].seq = agent[s].seq /\ agent'[s].revision = agent[s].revision /\ agent'[s].repo = now
      BY <1>0, <3>1, <3>2, <3>3, <3>6 DEF now
    <3> QED
      BY <1>3, <3>4, <3>5, <3>6, AgentFacts
  <2>3. agent'[s].changed <= real
    BY <1>0, <1>3, AgentFacts
  <2> QED
    BY <1>0, <2>1, <2>2, <2>3 DEF SilenceInv
<1>4. ASSUME NEW list \in Listings, NEW view, Tick(list, view) PROVE SilenceInv'
  <2>1. UNCHANGED <<real, lag, agent>> /\ DOMAIN slots' = DOMAIN list /\ DOMAIN list \subseteq Slots
    BY <1>4, TickFacts
  <2>0. woken' = IF Gap(guard, now) THEN real ELSE woken
    BY <1>4, GapMeans DEF Tick
  <2>2. ASSUME NEW s \in DOMAIN list
        PROVE  /\ slots'[s].seq = agent[s].seq /\ slots'[s].revision = agent[s].revision
               /\ agent[s].changed - lag <= slots'[s].progress \/ agent[s].changed - lag <= agent[s].repo
               /\ woken' # 0 => woken' - lag <= slots'[s].progress
    <3>1. s \in Slots /\ slots'[s] = Marked(s, Before(s), Decided(s, list, view))
      BY <1>4, <2>1, TickFacts
    <3>2. Before(s) \in SlotMemory /\ Decided(s, list, view) \in Kinds \cup {"none"}
      BY <3>1, BeforeFacts, DecisionFacts
    <3>3. slots'[s].seq = Before(s).seq /\ slots'[s].revision = Before(s).revision
          /\ slots'[s].progress = Before(s).progress
      BY <3>1, <3>2, MarkFacts
    <3>4. CASE Before(s).progress = now
      <4>1. agent[s].changed - lag <= now /\ woken' - lag <= now
        BY <1>0, <2>0, <3>1 DEF SilenceInv, Agents, now
      <4> QED
        BY <3>1, <3>3, <3>4, <4>1, BeforeFacts
    <3>5. CASE /\ ~Gap(guard, now) /\ s \in DOMAIN slots /\ slots[s].seq = agent[s].seq
               /\ slots[s].revision = agent[s].revision /\ Before(s).progress = slots[s].progress
      BY <2>0, <3>1, <3>3, <3>5, BeforeFacts DEF SilenceInv
    <3> QED
      BY <3>1, <3>4, <3>5, BeforeFacts
  <2>3. ASSUME NEW s \in Slots PROVE agent[s].seq \in Nat /\ agent[s].revision \in Nat
    BY <1>0 DEF Agents
  <2>4. woken' <= real' /\ \A s \in Slots : agent'[s].changed <= real'
    BY <1>0, <2>0, <2>1 DEF SilenceInv
  <2> QED
    BY <2>1, <2>2, <2>3, <2>4 DEF SilenceInv
<1>5. CASE UNCHANGED vars
  BY <1>5 DEF vars, SilenceInv
<1> QED
  BY <1>1, <1>2, <1>3, <1>4, <1>5 DEF Next

\* A hang is reported only after HangAfter of real time in which nothing has changed and
\* no tick came after a gap, on a clock that may be set back (liveness.go).
THEOREM HangsAreSilent == Spec => HangNeedsSilence
<1> DEFINE Silent == \A a \in acts' \ acts : a.kind = "hang" =>
             /\ real - agent[a.slot].changed >= HangAfter
             /\ woken' # 0 => real - woken' >= HangAfter
<1>1. Init => SilenceInv
  BY DEF Init, SilenceInv
<1>2. TypeOK /\ SilenceInv /\ [Next]_vars => [Silent]_vars
  <2> SUFFICES ASSUME TypeOK, SilenceInv, [Next]_vars, NEW a \in acts' \ acts, a.kind = "hang"
               PROVE  /\ real - agent[a.slot].changed >= HangAfter
                      /\ woken' # 0 => real - woken' >= HangAfter
    OBVIOUS
  <2>1. PICK list \in Listings : \E view : Tick(list, view)
    BY DEF Next, Elapse, SetBack, Change, Work, vars
  <2>2. PICK view : Tick(list, view)
    BY <2>1
  <2> DEFINE s == a.slot
             progress == Before(s).progress
  <2>3. s \in Slots /\ Decided(s, list, view) = "hang"
    BY <2>2, NewDecision
  <2>4. IF agent[s].repo > progress THEN ~(now - agent[s].repo < HangAfter)
        ELSE ~(now - progress < HangAfter)
    BY <2>3, DecisionFacts
  <2>5. /\ real \in Nat /\ lag \in Nat /\ agent[s] \in Agents /\ progress \in Int /\ now = real - lag
        /\ HangAfter \in Nat
    BY <2>3, TypeFacts, BeforeFacts, Sizes DEF now, SlotMemory
  <2>6. agent[s].changed \in Nat /\ agent[s].repo \in Int /\ woken \in Nat
        /\ woken' = IF Gap(guard, now) THEN real ELSE woken
    BY <2>2, <2>5, GapMeans DEF Agents, Tick, TypeOK
  <2>7. /\ agent[s].changed - lag <= progress \/ agent[s].changed - lag <= agent[s].repo
        /\ woken' # 0 => woken' - lag <= progress
    <3>1. CASE progress = now
      BY <2>3, <2>5, <2>6, <3>1 DEF SilenceInv
    <3>2. CASE /\ ~Gap(guard, now) /\ s \in DOMAIN slots /\ slots[s].seq = agent[s].seq
               /\ slots[s].revision = agent[s].revision /\ progress = slots[s].progress
      BY <2>6, <3>2 DEF SilenceInv
    <3> QED
      BY <2>3, <3>1, <3>2, BeforeFacts
  <2> HIDE DEF s, progress
  <2>8. /\ real - agent[s].changed >= HangAfter
        /\ woken' # 0 => real - woken' >= HangAfter
    BY <2>4, <2>5, <2>6, <2>7
  <2> QED
    BY <2>8 DEF s
<1> QED
  BY <1>1, <1>2, TypeInit, TypeStep, SilenceStep, PTL DEF Spec, HangNeedsSilence

-----------------------------------------------------------------------------
(* Epochs *)

\* No agent leaves the list: the memory of a slot that does is forgotten, see README.md.
AllListed == \A list \in Listings : DOMAIN list = Slots

\* The memory knows the last epoch a slot was prompted in.
LEMMA EpochStep == ASSUME AllListed PROVE TypeOK /\ EpochInv /\ [Next]_vars => EpochInv'
<1> SUFFICES ASSUME TypeOK, EpochInv, [Next]_vars PROVE EpochInv'
  OBVIOUS
<1>0. /\ real \in Nat /\ agent \in [Slots -> Agents] /\ acts \subseteq Decisions
      /\ \A s \in DOMAIN slots : s \in Slots /\ slots[s] \in SlotMemory
  BY TypeFacts
<1>1. CASE Elapse \/ SetBack \/ UNCHANGED vars
  BY <1>1 DEF Elapse, SetBack, vars, EpochInv, OncePerEpoch, Of
<1>2. ASSUME NEW s \in Slots, Change(s) \/ Work(s) PROVE EpochInv'
  <2>1. \A t \in Slots : agent[t].seq <= agent'[t].seq /\ agent[t].seq \in Nat /\ agent'[t].seq \in Nat
    BY <1>0, <1>2, AgentFacts DEF Agents
  <2>2. slots' = slots /\ acts' = acts
    BY <1>2, AgentFacts
  <2>3. OncePerEpoch'
    BY <2>2 DEF EpochInv, OncePerEpoch, Of
  <2>4. \A a \in acts : a.slot \in Slots /\ a.seq \in Nat
    BY <1>0 DEF Decisions
  <2>5. \A t \in DOMAIN slots : slots[t].actedSeq \in Nat /\ slots[t].blockedSeq \in Nat
    BY <1>0 DEF SlotMemory
  <2> QED
    BY <1>0, <2>1, <2>2, <2>3, <2>4, <2>5 DEF EpochInv
<1>3. ASSUME NEW list \in Listings, NEW view, Tick(list, view) PROVE EpochInv'
  <2> DEFINE kind(s) == Decided(s, list, view)
  <2>1. agent' = agent /\ DOMAIN slots' = Slots
    BY <1>3, TickFacts DEF AllListed
  <2>2. ASSUME NEW s \in Slots
        PROVE  /\ slots'[s] = Marked(s, Before(s), kind(s))
               /\ Before(s) \in SlotMemory /\ kind(s) \in Kinds \cup {"none"} /\ agent[s].seq \in Nat
    BY <1>0, <1>3, TickFacts, BeforeFacts, DecisionFacts DEF AllListed, Agents
  <2>3. ASSUME NEW s \in Slots
        PROVE  slots'[s].actedSeq <= agent[s].seq /\ slots'[s].blockedSeq <= agent[s].seq
    <3>1. Before(s).actedSeq <= agent[s].seq /\ Before(s).blockedSeq <= agent[s].seq
      BY <2>2, BeforeFacts DEF EpochInv
    <3> QED
      BY <2>2, <3>1, MarkFacts
  <2>4. ASSUME NEW a \in acts' \cap acts
        PROVE  /\ a.slot \in Slots /\ a.seq <= agent[a.slot].seq
               /\ a.kind \in Prompts => Before(a.slot).acted /\ a.seq <= Before(a.slot).actedSeq
               /\ a.kind = "blocked" => Before(a.slot).blocked /\ a.seq <= Before(a.slot).blockedSeq
    BY <1>0, BeforeFacts DEF EpochInv
  <2>5. ASSUME NEW a \in acts'
        PROVE  /\ a.slot \in Slots /\ a.seq <= agent[a.slot].seq
               /\ a.kind \in Prompts => slots'[a.slot].acted /\ a.seq <= slots'[a.slot].actedSeq
               /\ a.kind = "blocked" => slots'[a.slot].blocked /\ a.seq <= slots'[a.slot].blockedSeq
    <3>1. CASE a \in acts
      <4>1. a.slot \in Slots
        BY <3>1, <2>4
      <4> QED
        BY <2>2, <2>4, <3>1, <4>1, MarkFacts
    <3>2. CASE a \notin acts
      <4>1. a.slot \in Slots /\ a.kind = kind(a.slot) /\ a.seq = agent[a.slot].seq
        BY <1>3, <3>2, NewDecision
      <4> QED
        BY <2>2, <4>1, MarkFacts
    <3> QED
      BY <3>1, <3>2
  <2>6. ASSUME NEW a \in acts' \ acts, NEW b \in acts' \cap acts, a.slot = b.slot, a.seq = b.seq
        PROVE  ~(a.kind \in Prompts /\ b.kind \in Prompts) /\ ~(a.kind = "blocked" /\ b.kind = "blocked")
    <3> DEFINE s == a.slot
    <3>1. s \in Slots /\ a.kind = kind(s) /\ a.seq = agent[s].seq
      BY <1>3, NewDecision
    <3>2. Before(s).actedSeq <= agent[s].seq /\ Before(s).blockedSeq <= agent[s].seq
      BY <2>2, <3>1, BeforeFacts DEF EpochInv
    <3>3. Before(s).actedSeq \in Nat /\ Before(s).blockedSeq \in Nat /\ agent[s].seq \in Nat
      BY <2>2, <3>1 DEF SlotMemory
    <3>4. /\ b.kind \in Prompts => Before(s).acted /\ agent[s].seq <= Before(s).actedSeq
          /\ b.kind = "blocked" => Before(s).blocked /\ agent[s].seq <= Before(s).blockedSeq
      BY <2>4, <2>6, <3>1
    <3>5. /\ agent[s].seq <= Before(s).actedSeq => Before(s).actedSeq = agent[s].seq
          /\ agent[s].seq <= Before(s).blockedSeq => Before(s).blockedSeq = agent[s].seq
      BY <3>2, <3>3
    <3>6. /\ a.kind \in Prompts => ~(Before(s).acted /\ Before(s).actedSeq = agent[s].seq)
          /\ a.kind = "blocked" => ~(Before(s).blocked /\ Before(s).blockedSeq = agent[s].seq)
      BY <3>1, DecisionFacts
    <3> HIDE DEF s
    <3> QED
      BY <3>4, <3>5, <3>6, Zenon
  <2>7. ASSUME NEW a \in acts' \ acts, NEW b \in acts' \ acts, a.slot = b.slot PROVE a = b
    BY <1>3, <2>7, TickFacts
  <2>8. OncePerEpoch'
    <3> SUFFICES ASSUME NEW s \in Slots, NEW kinds \in {Prompts, {"blocked"}},
                        NEW a \in Of(s, kinds)', NEW b \in Of(s, kinds)', a.seq = b.seq
                 PROVE  a = b
      BY DEF OncePerEpoch
    <3>1. a \in acts' /\ b \in acts' /\ a.slot = s /\ b.slot = s /\ a.kind \in kinds /\ b.kind \in kinds
      BY DEF Of
    <3>2. CASE a \in acts /\ b \in acts
      BY <3>1, <3>2 DEF EpochInv, OncePerEpoch, Of
    <3> QED
      BY <2>6, <2>7, <3>1, <3>2
  <2> QED
    BY <2>1, <2>3, <2>5, <2>8 DEF EpochInv
<1> QED
  BY <1>1, <1>2, <1>3 DEF Next

\* "One action per epoch": between two changes of its state a slot that stays listed is
\* prompted at most once, and a dialog is reported at most once, over gaps, missed ticks
\* and recovery (liveness.go).
THEOREM PromptedOncePerEpoch == ASSUME AllListed PROVE Spec => []OncePerEpoch
<1>1. Init => EpochInv
  BY DEF Init, EpochInv, OncePerEpoch, Of
<1>2. EpochInv => OncePerEpoch
  BY DEF EpochInv
<1> QED
  BY <1>1, <1>2, TypeInit, TypeStep, EpochStep, PTL DEF Spec

-----------------------------------------------------------------------------
(* The cap *)

\* As many decisions as can be told apart by their moment are not more than the prompts
\* remembered for those moments.
LEMMA PromptsCounted ==
    ASSUME NEW W, NEW sent, IsFiniteSet(sent),
           \A a \in W : \E send \in sent : send.at = a.at,
           \A a, b \in W : a.at = b.at => a = b
    PROVE  IsFiniteSet(W) /\ Cardinality(W) <= Cardinality(sent)
<1> DEFINE f == [a \in W |-> CHOOSE send \in sent : send.at = a.at]
<1>1. \A a \in W : f[a] \in sent /\ f[a].at = a.at
  OBVIOUS
<1>2. f \in [W -> sent]
  BY <1>1
<1>3. \A a, b \in W : f[a] = f[b] => a = b
  BY <1>1
<1>4. f \in Injection(W, sent)
  BY <1>2, <1>3 DEF Injection, IsInjective
<1> QED
  BY <1>4, FS_Injection

\* The prompts of the last hour are all in the memory that a tick decides with.
LEMMA HourRemembered ==
    ASSUME AllListed, TypeOK, CapInv, NEW s \in Slots, NEW a \in Of(s, Prompts), real - a.at < Hour
    PROVE  \E send \in Before(s).sent : send.at = a.at /\ send.clock >= a.at - lag
<1>1. a \in acts /\ a.slot = s /\ a.kind \in Prompts
  BY DEF Of
<1>2. s \in DOMAIN slots /\ Before(s).sent = Recent(slots[s].sent)
  BY <1>1, BeforeFacts DEF CapInv
<1>3. PICK send \in slots[s].sent : send.at = a.at /\ send.clock >= a.at - lag
  BY <1>1 DEF CapInv
<1>4. real \in Nat /\ lag \in Nat /\ a.at \in Nat /\ send.clock \in Int /\ Hour \in Nat
  BY <1>1, <1>2, TypeFacts, Sizes DEF Decisions, SlotMemory, Sends
<1>5. now - send.clock < Hour
  BY <1>3, <1>4 DEF now
<1> QED
  BY <1>2, <1>3, <1>5 DEF Recent

\* The prompts of s that fall into the hour from t.
Window(s, t) == {a \in Of(s, Prompts) : a.at \in t .. t + Hour - 1}

\* A tick keeps every hour within the cap: a prompt is sent only when the memory, which
\* knows all prompts of the last hour, has room.
LEMMA CapTick ==
    ASSUME AllListed, TypeOK, CapInv, NEW list \in Listings, NEW view, Tick(list, view),
           NEW s \in Slots, NEW t \in 0 .. MaxTime
    PROVE  IsFiniteSet(Of(s, Prompts)') /\ Cardinality(Window(s, t)') <= MaxPerHour
<1> DEFINE kind == Decided(s, list, view)
           new == [slot |-> s, kind |-> kind, seq |-> agent[s].seq, at |-> real]
           old == Of(s, Prompts)
<1>1. /\ real \in Nat /\ Hour \in Nat /\ MaxPerHour \in Nat /\ t \in Nat /\ acts \subseteq Decisions
      /\ IsFiniteSet(old) /\ IsFiniteSet(Window(s, t)) /\ Cardinality(Window(s, t)) <= MaxPerHour
  BY TypeFacts, Sizes, FS_Subset DEF CapInv, CapPerHour, Window
<1>2. Of(s, Prompts)' \subseteq old \cup (IF kind \in Prompts THEN {new} ELSE {})
  BY TickFacts, NewDecision DEF Of
<1>3. IsFiniteSet(old \cup {new})
  BY <1>1, FS_AddElement
<1>4. IsFiniteSet(Of(s, Prompts)')
  BY <1>2, <1>3, FS_Subset
<1>5. CASE kind \in Prompts /\ real \in t .. t + Hour - 1
  <2> DEFINE W == Window(s, t)
  <2>1. \A a \in W : a \in old /\ a.at \in Nat /\ real - a.at < Hour
    BY <1>1, <1>5 DEF Window, Of, Decisions
  <2>2. IsFiniteSet(Before(s).sent) /\ Before(s) \in SlotMemory
    <3>1. CASE s \in DOMAIN slots
      BY <3>1, BeforeFacts, FS_Subset DEF CapInv, Recent
    <3>2. CASE s \notin DOMAIN slots
      BY <3>2, BeforeFacts, FS_EmptySet
    <3> QED
      BY <3>1, <3>2, BeforeFacts
  <2>3. \A a, b \in W : a.at = b.at => a = b
    BY DEF Window, Of, CapInv
  <2>4. \A a \in W : \E send \in Before(s).sent : send.at = a.at
    BY <2>1, HourRemembered
  <2>5. Cardinality(W) <= Cardinality(Before(s).sent) /\ IsFiniteSet(W)
    BY <2>2, <2>3, <2>4, PromptsCounted
  <2>6. Cardinality(Before(s).sent) < MaxPerHour
    BY <1>5, DecisionFacts
  <2>7. Cardinality(W) \in Nat /\ Cardinality(Before(s).sent) \in Nat
    BY <2>2, <2>5, FS_CardinalityType
  <2>8. Window(s, t)' \subseteq W \cup {new}
    BY <1>2 DEF Window, Of
  <2>9. Cardinality(W \cup {new}) <= Cardinality(W) + 1 /\ IsFiniteSet(W \cup {new})
        /\ Cardinality(W \cup {new}) \in Nat
    <3>1. IsFiniteSet(W \cup {new})
      BY <2>5, FS_AddElement
    <3>2. Cardinality(W \cup {new}) = IF new \in W THEN Cardinality(W) ELSE Cardinality(W) + 1
      BY <2>5, FS_AddElement
    <3> HIDE DEF W, new
    <3> QED
      BY <2>7, <3>1, <3>2, FS_CardinalityType
  <2>10. Cardinality(Window(s, t)') <= Cardinality(W \cup {new}) /\ Cardinality(Window(s, t)') \in Nat
    BY <2>8, <2>9, FS_Subset, FS_CardinalityType
  <2> HIDE DEF W, new
  <2>11. Cardinality(Window(s, t)') <= MaxPerHour
    BY <1>1, <2>5, <2>6, <2>7, <2>9, <2>10
  <2> QED
    BY <1>4, <2>11
<1>6. CASE ~(kind \in Prompts /\ real \in t .. t + Hour - 1)
  <2>1. Window(s, t)' \subseteq Window(s, t)
    BY <1>2, <1>6 DEF Window, Of
  <2>2. Cardinality(Window(s, t)') <= Cardinality(Window(s, t))
        /\ Cardinality(Window(s, t)') \in Nat /\ Cardinality(Window(s, t)) \in Nat
    BY <1>1, <2>1, FS_Subset, FS_CardinalityType
  <2> QED
    BY <1>1, <1>4, <2>2
<1> QED
  BY <1>5, <1>6

\* The memory knows the prompts of the last hour.
LEMMA CapStep == ASSUME AllListed PROVE TypeOK /\ CapInv /\ [Next]_vars => CapInv'
<1> SUFFICES ASSUME TypeOK, CapInv, [Next]_vars PROVE CapInv'
  OBVIOUS
<1>0. /\ real \in Nat /\ lag \in Nat /\ acts \subseteq Decisions /\ Hour \in Nat \ {0}
      /\ \A s \in DOMAIN slots : s \in Slots /\ slots[s] \in SlotMemory
  BY TypeFacts, Sizes
<1>1. CASE slots' = slots /\ acts' = acts /\ real' >= real /\ lag' >= lag /\ real' \in Nat /\ lag' \in Nat
  <2>1. \A s, kinds : Of(s, kinds)' = Of(s, kinds)
    BY <1>1 DEF Of
  <2>2. CapPerHour'
    BY <2>1 DEF CapInv, CapPerHour
  <2>3. \A a \in acts : a.at \in Nat /\ (a.slot \in DOMAIN slots => \A send \in slots[a.slot].sent : send.clock \in Int)
    BY <1>0 DEF Decisions, SlotMemory, Sends
  <2> QED
    BY <1>0, <1>1, <2>1, <2>2, <2>3 DEF CapInv
<1>2. CASE Elapse \/ SetBack \/ UNCHANGED vars \/ \E s \in Slots : Change(s) \/ Work(s)
  <2>1. slots' = slots /\ acts' = acts /\ real' >= real /\ lag' >= lag /\ real' \in Nat /\ lag' \in Nat
    <3>1. CASE \E s \in Slots : Change(s) \/ Work(s)
      BY <1>0, <3>1, AgentFacts
    <3>2. CASE Elapse \/ SetBack \/ UNCHANGED vars
      BY <1>0, <3>2 DEF Elapse, SetBack, vars
    <3> QED
      BY <1>2, <3>1, <3>2
  <2> QED
    BY <1>1, <2>1
<1>3. ASSUME NEW list \in Listings, NEW view, Tick(list, view) PROVE CapInv'
  <2> DEFINE kind(s) == Decided(s, list, view)
  <2>1. UNCHANGED <<real, lag, agent>> /\ DOMAIN slots' = Slots
    BY <1>3, TickFacts DEF AllListed
  <2>2. ASSUME NEW s \in Slots
        PROVE  /\ Before(s) \in SlotMemory /\ Before(s).sent \subseteq slots'[s].sent
               /\ kind(s) \in Prompts => [at |-> real, clock |-> now] \in slots'[s].sent
               /\ slots'[s].sent \in {Before(s).sent, Before(s).sent \cup {[at |-> real, clock |-> now]}}
    <3>1. slots'[s] = Marked(s, Before(s), kind(s))
      BY <1>3, TickFacts DEF AllListed
    <3>2. Before(s) \in SlotMemory /\ kind(s) \in Kinds \cup {"none"}
      BY BeforeFacts, DecisionFacts
    <3> QED
      BY <3>1, <3>2, MarkFacts
  <2>3. ASSUME NEW s \in Slots PROVE IsFiniteSet(slots'[s].sent)
    <3>1. IsFiniteSet(Before(s).sent)
      <4>1. CASE s \in DOMAIN slots
        BY <4>1, BeforeFacts, FS_Subset DEF CapInv, Recent
      <4>2. CASE s \notin DOMAIN slots
        BY <4>2, BeforeFacts, FS_EmptySet
      <4> QED
        BY <4>1, <4>2
    <3>2. IsFiniteSet(Before(s).sent \cup {[at |-> real, clock |-> now]})
      BY <3>1, FS_AddElement
    <3> QED
      BY <2>2, <3>1, <3>2
  <2>4. ASSUME NEW a \in acts' PROVE a.slot \in Slots /\ a.at <= real
    BY <1>0, <1>3, <2>4, TickFacts, NewDecision DEF CapInv
  <2>5. ASSUME NEW a \in acts', a.kind \in Prompts, real - a.at < Hour
        PROVE  \E send \in slots'[a.slot].sent : send.at = a.at /\ send.clock >= a.at - lag
    <3>1. CASE a \in acts
      <4>1. a.slot \in Slots /\ a \in Of(a.slot, Prompts)
        BY <2>4, <2>5, <3>1 DEF Of
      <4>2. \E send \in Before(a.slot).sent : send.at = a.at /\ send.clock >= a.at - lag
        BY <2>5, <4>1, HourRemembered
      <4> QED
        BY <2>2, <4>1, <4>2
    <3>2. CASE a \notin acts
      <4>1. a.slot \in Slots /\ kind(a.slot) \in Prompts /\ a.at = real
        BY <1>3, <2>5, <3>2, NewDecision
      <4>2. [at |-> real, clock |-> now] \in slots'[a.slot].sent
        BY <2>2, <4>1
      <4>3. now >= real - lag
        BY <1>0 DEF now
      <4> QED
        BY <4>1, <4>2, <4>3
    <3> QED
      BY <3>1, <3>2
  <2>6. ASSUME NEW a \in acts', NEW b \in acts', a.slot = b.slot, a.at = b.at PROVE a = b
    <3>1. CASE a \in acts /\ b \in acts
      BY <2>6, <3>1 DEF CapInv
    <3>2. CASE a \in acts /\ b \notin acts
      BY <1>0, <1>3, <2>6, <3>2, TickFacts, NewDecision DEF Decisions
    <3>3. CASE a \notin acts /\ b \in acts
      BY <1>0, <1>3, <2>6, <3>3, TickFacts, NewDecision DEF Decisions
    <3>4. CASE a \notin acts /\ b \notin acts
      BY <1>3, <2>6, <3>4, TickFacts
    <3> QED
      BY <3>1, <3>2, <3>3, <3>4
  <2>7. \A s \in Slots : IsFiniteSet(Of(s, Prompts)')
    BY <1>3, CapTick, Sizes
  <2>8. CapPerHour'
    BY <1>3, CapTick DEF CapPerHour, Window
  <2> QED
    BY <2>1, <2>3, <2>4, <2>5, <2>6, <2>7, <2>8 DEF CapInv
<1> QED
  BY <1>1, <1>2, <1>3 DEF Next

\* "MaxPerHour caps nudges plus continues per slot per rolling hour" of real time, for
\* slots that stay listed, however the clock is set back (liveness.go).
THEOREM PromptsCapped == ASSUME AllListed PROVE Spec => []CapPerHour
<1>1. Init => CapInv
  <2> SUFFICES ASSUME Init PROVE CapInv
    OBVIOUS
  <2>1. acts = {} /\ DOMAIN slots = {}
    BY DEF Init
  <2>2. \A s, kinds : Of(s, kinds) = {}
    BY <2>1 DEF Of
  <2>3. IsFiniteSet({}) /\ Cardinality({}) = 0 /\ MaxPerHour \in Nat
    BY FS_EmptySet, Sizes
  <2>4. CapPerHour
    <3> SUFFICES ASSUME NEW s \in Slots, NEW t \in 0 .. MaxTime
                 PROVE  Cardinality({a \in Of(s, Prompts) : a.at \in t .. t + Hour - 1}) <= MaxPerHour
      BY DEF CapPerHour
    <3>1. {a \in Of(s, Prompts) : a.at \in t .. t + Hour - 1} = {}
      BY <2>2
    <3>2. Cardinality({a \in Of(s, Prompts) : a.at \in t .. t + Hour - 1}) = 0
      BY <2>3, <3>1, Zenon
    <3> QED
      BY <2>3, <3>2
  <2> QED
    BY <2>1, <2>2, <2>3, <2>4 DEF CapInv
<1>2. CapInv => CapPerHour
  BY DEF CapInv
<1> QED
  BY <1>1, <1>2, TypeInit, TypeStep, CapStep, PTL DEF Spec
=============================================================================
