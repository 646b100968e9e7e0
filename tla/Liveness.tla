------------------------------- MODULE Liveness -------------------------------
(***************************************************************************)
(* Which agents a tick nudges, continues or reports:                       *)
(* tools/fleet/internal/liveness/liveness.go.                              *)
(*                                                                         *)
(* Evaluate is a function of the listed agents and of the memory of the    *)
(* tick before; what matters is what its decisions add up to over many     *)
(* ticks, with missed ticks, a clock that is set back and agents that      *)
(* change between any two of them.  A crash of the caller before the       *)
(* memory is saved is a tick that did not happen.                          *)
(*                                                                         *)
(* The wall clock is real - lag: it follows real time, and setting it back *)
(* makes lag larger.                                                       *)
(***************************************************************************)
EXTENDS RecoveryGuard, Sequences, FiniteSets

CONSTANTS
    Slots,        \* the names of the agents
    Listings,     \* the agent lists there may be: functions from slots to panes
    Views,        \* what a tick may see of an agent, see Inputs
    Changes,      \* what may change outside: "seq", "revision", "repo"
    Hour,         \* the window of the cap
    MaxPerHour,   \* the cap on nudges and continues
    HangAfter,    \* how long a working agent may be silent
    MaxTime, MaxLag, MaxSeq   \* bounds: real time, clock adjustment, changes of an agent

Inputs == [status : {"working", "idle", "done", "blocked", "unknown"}, focused : BOOLEAN,
           ready : BOOLEAN, work : BOOLEAN, stall : BOOLEAN, heavyWait : BOOLEAN]

ASSUME LivenessAssumption ==
    /\ \A l \in Listings : DOMAIN l \subseteq Slots
    /\ Views \subseteq Inputs /\ Changes \subseteq {"seq", "revision", "repo"}
    /\ {Hour, MaxPerHour, HangAfter, MaxTime} \subseteq Nat \ {0}
    /\ {MaxLag, MaxSeq} \subseteq Nat

VARIABLES
    real, lag,    \* real time, and how far the clock was set back
    agent,        \* agent[s]: its seq and revision, and when either or its repo last changed
    guard,        \* Memory without its slots
    slots,        \* Memory.Slots: a function from the slots of the last list
    acts,         \* history: the decisions of the last hour and of this epoch
    lists,        \* history: the last two lists since a gap, until they agree
    woken         \* history: the real time of the last tick after a gap

vars == <<real, lag, agent, guard, slots, acts, lists, woken>>

now == real - lag
Prompts == {"nudge", "continue"}
Decisions == [slot : Slots, kind : Prompts \cup {"hang", "blocked"}, seq : Nat, at : Nat]
\* A prompt that was sent, at a moment of real time and at a reading of the clock.
Sends == [at : Nat, clock : Int]
SlotMemory ==
    [seq : Nat, revision : Nat, progress : Int, hangReported : BOOLEAN, acted : BOOLEAN,
     actedSeq : Nat, blocked : BOOLEAN, blockedSeq : Nat, sent : SUBSET Sends]

TypeOK ==
    /\ real \in Nat /\ lag \in Nat
    /\ agent \in [Slots -> [seq : Nat, revision : Nat, changed : Nat, repo : Int]]
    /\ guard \in [ticked : BOOLEAN, last : Int, recovering : BOOLEAN,
                  stable : 0 .. StableReads - 1, key : Listings \cup {NoList}]
    /\ DOMAIN slots \subseteq Slots /\ \A s \in DOMAIN slots : slots[s] \in SlotMemory
    /\ acts \subseteq Decisions
    /\ lists \in Seq(Listings) /\ Len(lists) <= 2
    /\ woken \in Nat

Init ==
    /\ real = 1 /\ lag = 0
    /\ agent = [s \in Slots |-> [seq |-> 0, revision |-> 0, changed |-> 0, repo |-> 0]]
    /\ guard = FirstRun /\ slots = <<>>
    /\ acts = {} /\ lists = <<>> /\ woken = 0

-----------------------------------------------------------------------------
(* What happens outside *)

Elapse ==
    /\ real < MaxTime
    /\ real' = real + 1
    /\ UNCHANGED <<lag, agent, guard, slots, acts, lists, woken>>

SetBack ==
    /\ lag < MaxLag
    /\ lag' = lag + 1
    /\ UNCHANGED <<real, agent, guard, slots, acts, lists, woken>>

Change(s) ==
    /\ agent[s].seq + agent[s].revision < MaxSeq
    /\ \/ "seq" \in Changes /\ agent' = [agent EXCEPT ![s].seq = @ + 1, ![s].changed = real]
       \/ "revision" \in Changes /\ agent' = [agent EXCEPT ![s].revision = @ + 1, ![s].changed = real]
    /\ UNCHANGED <<real, lag, guard, slots, acts, lists, woken>>

\* A commit, a push or a comment of the slot.
Work(s) ==
    /\ "repo" \in Changes /\ agent[s].repo < now
    /\ agent' = [agent EXCEPT ![s].repo = now, ![s].changed = real]
    /\ UNCHANGED <<real, lag, guard, slots, acts, lists, woken>>

-----------------------------------------------------------------------------
(* Evaluate *)

\* The memory of a slot that the last tick did not list.
Unseen(s) ==
    [seq |-> agent[s].seq, revision |-> agent[s].revision, progress |-> now,
     hangReported |-> FALSE, acted |-> FALSE, actedSeq |-> 0, blocked |-> FALSE,
     blockedSeq |-> 0, sent |-> {}]

\* Mutant: a gap forgets which epoch was acted on.
RefreshedForgetting(s, m, gap) ==
    IF gap THEN Unseen(s)
    ELSE IF m.seq # agent[s].seq \/ m.revision # agent[s].revision
    THEN [m EXCEPT !.seq = agent[s].seq, !.revision = agent[s].revision,
                   !.progress = now, !.hangReported = FALSE]
    ELSE m

\* Mutant: the time of the last progress stays over a gap.
RefreshedThroughGaps(s, m, gap) ==
    IF m.seq # agent[s].seq \/ m.revision # agent[s].revision
    THEN [m EXCEPT !.seq = agent[s].seq, !.revision = agent[s].revision,
                   !.progress = now, !.hangReported = FALSE]
    ELSE m

\* Mutant: the time of the last progress stays when the agent changes.
RefreshedKeepingProgress(s, m, gap) ==
    IF m.seq # agent[s].seq \/ m.revision # agent[s].revision
    THEN [m EXCEPT !.seq = agent[s].seq, !.revision = agent[s].revision,
                   !.hangReported = FALSE]
    ELSE m

\* The memory of a slot brought up to date with what the tick sees.
Refreshed(s, m, gap) ==
    IF gap \/ m.seq # agent[s].seq \/ m.revision # agent[s].revision
    THEN [m EXCEPT !.seq = agent[s].seq, !.revision = agent[s].revision,
                   !.progress = now, !.hangReported = FALSE]
    ELSE m

\* Mutant: everything older than half the window is forgotten.
RecentHalf(sent) == {send \in sent : 2 * (now - send.clock) < Hour}

\* Times a tick ago and times in the future of a clock that was set back count.
Recent(sent) == {send \in sent : now - send.clock < Hour}

\* decide and ready: the kind of decision, or "none".
Kind(s, v, m) ==
    LET progress == IF agent[s].repo > m.progress THEN agent[s].repo ELSE m.progress
        prompt   == IF v.stall THEN "continue" ELSE "nudge"
    IN  CASE v.focused -> "none"
          [] ~v.focused /\ v.status = "blocked" ->
               IF m.blocked /\ m.blockedSeq = agent[s].seq THEN "none" ELSE "blocked"
          [] ~v.focused /\ v.status = "working" ->
               IF v.heavyWait \/ m.hangReported \/ now - progress < HangAfter
               THEN "none" ELSE "hang"
          [] ~v.focused /\ v.status \in {"idle", "done"} ->
               IF /\ v.ready /\ (v.stall \/ v.work)
                  /\ ~(m.acted /\ m.actedSeq = agent[s].seq)
                  /\ Cardinality(m.sent) < MaxPerHour
               THEN prompt ELSE "none"
          [] OTHER -> "none"

\* What decide leaves in the memory for that decision.
Marked(s, m, kind) ==
    CASE kind = "blocked" -> [m EXCEPT !.blocked = TRUE, !.blockedSeq = agent[s].seq]
      [] kind = "hang" -> [m EXCEPT !.hangReported = TRUE]
      [] kind \in Prompts -> [m EXCEPT !.acted = TRUE, !.actedSeq = agent[s].seq,
                                       !.sent = @ \cup {[at |-> real, clock |-> now]}]
      [] OTHER -> m

\* The memory of a listed slot when the tick decides.
Before(s) ==
    LET m == IF s \in DOMAIN slots THEN Refreshed(s, slots[s], Gap(guard, now)) ELSE Unseen(s)
    IN  [m EXCEPT !.sent = Recent(@)]

\* The decision about a slot: none while the guard is active.
Decided(s, list, view) ==
    IF GuardAfter(guard, list, now).recovering THEN "none" ELSE Kind(s, view[s], Before(s))

Agree(ls) == Len(ls) = 2 /\ ls[1] = ls[2]

\* Is a tick now one after a gap?  The time since the last one is negative, or longer
\* than two intervals.
Woken == guard.ticked /\ now - guard.last \notin 0 .. 2 * Interval

\* One tick over a list of agents, each seen as view says.  Ticks are made at
\* different moments of real time and at different readings of the clock, which
\* bounds their number.
Tick(list, view) ==
    /\ \A a \in acts : a.at < real
    /\ guard.ticked => guard.last # now
    /\ guard' = GuardAfter(guard, list, now)
    /\ slots' = [s \in DOMAIN list |-> Marked(s, Before(s), Decided(s, list, view))]
    /\ acts' = {a \in acts : a.seq = agent[a.slot].seq \/ real - a.at < Hour}
          \cup {[slot |-> s, kind |-> Decided(s, list, view), seq |-> agent[s].seq, at |-> real] :
                  s \in {t \in DOMAIN list : Decided(t, list, view) # "none"}}
    /\ lists' = CASE Woken -> <<list>>
                  [] ~Woken /\ (lists = <<>> \/ Agree(lists)) -> <<>>
                  [] OTHER -> <<lists[Len(lists)], list>>
    /\ woken' = IF Woken THEN real ELSE woken
    /\ UNCHANGED <<real, lag, agent>>

Next ==
    \/ Elapse \/ SetBack
    \/ \E s \in Slots : Change(s) \/ Work(s)
    \/ \E list \in Listings : \E view \in [DOMAIN list -> Views] : Tick(list, view)

Spec == Init /\ [][Next]_vars

-----------------------------------------------------------------------------
(* Properties *)

Of(s, kinds) == {a \in acts : a.slot = s /\ a.kind \in kinds}

\* "one action per epoch" (liveness.go:75): between two changes of its state a
\* slot is prompted at most once, and a dialog is reported at most once, also
\* over gaps, missed ticks and the end of recovery.
OncePerEpoch ==
    \A s \in Slots, kinds \in {Prompts, {"blocked"}} :
        \A a, b \in Of(s, kinds) : a.seq = b.seq => a = b

\* "MaxPerHour caps nudges plus continues per slot per rolling hour"
\* (liveness.go:22-23), in real time, also while the clock is set back.
CapPerHour ==
    \A s \in Slots, t \in 0 .. MaxTime :
        Cardinality({a \in Of(s, Prompts) : a.at \in t .. t + Hour - 1}) <= MaxPerHour

\* After a gap nothing is decided before two consecutive ticks have seen the
\* same agents (liveness.go:25-26, 94-95).
SettledBeforeActing ==
    [][ (acts' \ acts) # {} /\ lists' # <<>> => Agree(lists') ]_vars

\* A hang is reported only after HangAfter of real time in which neither the agent nor
\* its repository has changed, and in which no tick came after a gap: a sleep or a clock
\* that went backwards restarts the measure (liveness.go:35, 120, 144).  The clock
\* of the model is set back and never forward: a forward step of at most two intervals is
\* no gap, and shortens the silence by as much.
HangNeedsSilence ==
    [][ \A a \in acts' \ acts : a.kind = "hang" =>
          /\ real - agent[a.slot].changed >= HangAfter
          /\ woken' # 0 => real - woken' >= HangAfter ]_vars

-----------------------------------------------------------------------------
(* The inductive invariants behind the properties *)

\* The lists since a gap that have not agreed yet keep recovery going, which
\* compares with the last of them.
RecoveryInv ==
    lists # <<>> /\ ~Agree(lists) =>
        guard.recovering /\ guard.stable = 1 /\ guard.key = lists[Len(lists)]

\* What a slot is remembered by is never ahead of the agent, and while the two agree
\* nothing has changed since the later of the progress and the repository activity.  No
\* progress is from before the last gap.
SilenceInv ==
    /\ woken <= real /\ \A s \in Slots : agent[s].changed <= real
    /\ \A s \in DOMAIN slots :
         /\ woken # 0 => woken - lag <= slots[s].progress
         /\ slots[s].seq <= agent[s].seq /\ slots[s].revision <= agent[s].revision
         /\ slots[s].seq = agent[s].seq /\ slots[s].revision = agent[s].revision =>
              agent[s].changed - lag <= slots[s].progress \/ agent[s].changed - lag <= agent[s].repo

\* The memory of a slot knows the last epoch it was prompted in, and the last one a
\* dialog was reported in.
EpochInv ==
    /\ \A a \in acts :
         /\ a.slot \in DOMAIN slots /\ a.seq <= agent[a.slot].seq
         /\ a.kind \in Prompts => slots[a.slot].acted /\ a.seq <= slots[a.slot].actedSeq
         /\ a.kind = "blocked" => slots[a.slot].blocked /\ a.seq <= slots[a.slot].blockedSeq
    /\ \A s \in DOMAIN slots :
         slots[s].actedSeq <= agent[s].seq /\ slots[s].blockedSeq <= agent[s].seq
    /\ OncePerEpoch

\* The memory of a slot knows every prompt of the last hour of real time, at a reading
\* of the clock that is no older than the prompt.
CapInv ==
    /\ \A s \in DOMAIN slots : IsFiniteSet(slots[s].sent)
    /\ \A s \in Slots : IsFiniteSet(Of(s, Prompts))
    /\ \A a \in acts :
         /\ a.slot \in DOMAIN slots /\ a.at <= real
         /\ a.kind \in Prompts /\ real - a.at < Hour =>
              \E send \in slots[a.slot].sent : send.at = a.at /\ send.clock >= a.at - lag
         /\ \A b \in acts : a.slot = b.slot /\ a.at = b.at => a = b
    /\ CapPerHour
=============================================================================
