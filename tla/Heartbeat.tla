------------------------------- MODULE Heartbeat -------------------------------
(***************************************************************************)
(* The fleet-run heartbeat, fleet-run/bin/heartbeat.sh: a job that runs    *)
(* every 20 minutes, wakes the coordinator that holds the lease and, when  *)
(* the lease is stale, offers it to the coordinators in failover order.    *)
(*                                                                         *)
(* A run reads the holder, then the age, which may be that of another      *)
(* lease, and then asks for one status at a time; the lease and the agents *)
(* change between any two of those reads.  Runs do not overlap.  Whether the lease is younger than STALE_SECS is one       *)
(* Boolean; a missing, corrupt or invalid lease has no holder, and one     *)
(* from the future counts as stale.                                        *)
(***************************************************************************)
EXTENDS Naturals, Sequences, SequencesExt

CONSTANTS
    Agents,        \* everything that may hold the lease
    Coords,        \* the coordinators in failover order
    Nobody,        \* no holder
    EscalateAfter, \* ESCALATE_AFTER
    MaxDeaths      \* bound: how many runs die before their end

ASSUME HeartbeatAssumption ==
    /\ Coords \in Seq(Agents) /\ Coords # <<>> /\ IsInjective(Coords)
    /\ Nobody \notin Agents
    /\ EscalateAfter \in Nat \ {0} /\ MaxDeaths \in Nat

VARIABLES
    holder, fresh,   \* lease.json: its holder, and whether it is younger than STALE_SECS
    status,          \* the status of each agent; "idle" stands for done as well
    strikes,         \* heartbeat.strikes; a count past the cap below is kept at the cap
    notes,           \* history: the notes in needs-user.md since strikes was last cleared
    pc,              \* where the run is
    seen,            \* what the run read from the lease
    queue,           \* the coordinators it still has to ask or to wake
    n,               \* strike's count, which is in the file when it is written
    offered,         \* history: the agents the last run tried to wake with a takeover
    cut,             \* history: has a run died inside strike since then?
    deaths           \* how many runs have died

vars == <<holder, fresh, status, strikes, notes, pc, seen, queue, n, offered, cut, deaths>>
world == <<holder, fresh, status>>
count == <<strikes, notes, cut>>

Statuses == {"working", "idle", "blocked", "missing"}
StrikeCap == EscalateAfter + 1

TypeOK ==
    /\ holder \in Agents \cup {Nobody} /\ fresh \in BOOLEAN
    /\ holder = Nobody => ~fresh
    /\ status \in [Agents -> Statuses]
    /\ strikes \in 0 .. StrikeCap /\ notes \in Nat
    /\ pc \in {"rest", "begin", "age", "holder", "takeover", "order", "offer", "count", "note"}
    /\ seen \in [holder : Agents \cup {Nobody}, fresh : BOOLEAN]
    /\ queue \in Seq(Agents) /\ IsInjective(queue)   \* nobody is asked twice
    /\ n \in 0 .. StrikeCap /\ (pc \in {"count", "note"} <=> n # 0)
    /\ offered \subseteq Agents /\ cut \in BOOLEAN /\ deaths \in 0 .. MaxDeaths

Init ==
    /\ holder = Nobody /\ fresh = FALSE
    /\ status = [a \in Agents |-> "missing"]
    /\ strikes = 0 /\ notes = 0
    /\ pc = "rest" /\ seen = [holder |-> Nobody, fresh |-> FALSE]
    /\ queue = <<>> /\ n = 0 /\ offered = {} /\ cut = FALSE /\ deaths = 0

-----------------------------------------------------------------------------
(* The script *)

Done == pc' = "rest" /\ queue' = <<>> /\ n' = 0

ClearStrikes == strikes' = 0 /\ notes' = 0 /\ cut' = FALSE

(* strike: one more consecutive bad outcome.  The shell empties the file     *)
(* before the count is written to it, and an empty file counts as none.      *)
Strike ==
    /\ n' = IF strikes < StrikeCap THEN strikes + 1 ELSE StrikeCap
    /\ strikes' = 0
    /\ pc' = "count" /\ queue' = <<>>
    /\ UNCHANGED <<notes, cut>>

\* Mutant: every strike from the last one on is noted.
WriteCountNoisy ==
    /\ pc = "count"
    /\ strikes' = n
    /\ IF n >= EscalateAfter THEN pc' = "note" /\ UNCHANGED <<n, queue>> ELSE Done
    /\ UNCHANGED <<world, notes, seen, offered, cut, deaths>>

WriteCount ==
    /\ pc = "count"
    /\ strikes' = n
    /\ IF n = EscalateAfter THEN pc' = "note" /\ UNCHANGED <<n, queue>> ELSE Done
    /\ UNCHANGED <<world, notes, seen, offered, cut, deaths>>

(* The last strike is noted for the user.                                    *)
Note ==
    /\ pc = "note"
    /\ notes' = notes + 1
    /\ Done
    /\ UNCHANGED <<world, strikes, seen, offered, cut, deaths>>

Start ==
    /\ pc = "rest"
    /\ pc' = "begin" /\ offered' = {}
    /\ UNCHANGED <<world, count, seen, queue, n, deaths>>

(* A dependency is missing or herdr does not answer.                         *)
Unreachable ==
    /\ pc = "begin"
    /\ Strike
    /\ UNCHANGED <<world, seen, offered, deaths>>

ReadHolder ==
    /\ pc = "begin"
    /\ seen' = [holder |-> holder, fresh |-> FALSE]
    /\ pc' = IF holder = Nobody THEN "takeover" ELSE "age"
    /\ queue' = Coords
    /\ UNCHANGED <<world, count, n, offered, deaths>>

(* The file is read again for its time.  In one that names no holder any     *)
(* more there may be a time or none.                                         *)
ReadAge ==
    /\ pc = "age"
    /\ \/ /\ \E young \in BOOLEAN :
              /\ holder # Nobody => young = fresh
              /\ seen' = [seen EXCEPT !.fresh = young]
          /\ pc' = "holder"
       \/ /\ holder = Nobody
          /\ seen' = [holder |-> Nobody, fresh |-> FALSE]
          /\ pc' = "takeover"
    /\ UNCHANGED <<world, count, queue, n, offered, deaths>>

\* Mutant: a holder that works is taken for one that renews its lease.
AskHolderTrusting ==
    /\ pc = "holder"
    /\ LET st == status[seen.holder]
       IN  \/ st = "working" /\ ClearStrikes /\ Done
           \/ st # "working" /\ seen.fresh /\ st = "idle" /\ ClearStrikes /\ Done
           \/ st # "working" /\ seen.fresh /\ Strike
           \/ st # "working" /\ ~seen.fresh /\ pc' = "takeover" /\ UNCHANGED <<count, queue, n>>
    /\ UNCHANGED <<world, seen, offered, deaths>>

(* The holder works, or its lease is fresh and it is ticked; the tick may    *)
(* fail.  Otherwise the lease is stale.                                      *)
AskHolder ==
    /\ pc = "holder"
    /\ LET st == status[seen.holder]
       IN  \/ st = "working" /\ (IF seen.fresh THEN ClearStrikes /\ Done ELSE Strike)
           \/ st # "working" /\ seen.fresh /\ st = "idle" /\ ClearStrikes /\ Done
           \/ st # "working" /\ seen.fresh /\ Strike
           \/ st # "working" /\ ~seen.fresh /\ pc' = "takeover" /\ UNCHANGED <<count, queue, n>>
    /\ UNCHANGED <<world, seen, offered, deaths>>

(* Another coordinator that works may be taking over: let it finish.         *)
AskTakeover ==
    /\ pc = "takeover"
    /\ IF queue = <<>>
         THEN pc' = "order" /\ UNCHANGED <<count, queue, n>>
         ELSE IF Head(queue) # seen.holder /\ status[Head(queue)] = "working"
                THEN Strike
                ELSE queue' = Tail(queue) /\ UNCHANGED <<count, pc, n>>
    /\ UNCHANGED <<world, seen, offered, deaths>>

\* All but the stale holder, in their order; it stands in one place at most.
Standbys ==
    IF seen.holder \in ToSet(Coords)
      THEN RemoveAt(Coords, CHOOSE i \in DOMAIN Coords : Coords[i] = seen.holder)
      ELSE Coords

\* Mutant: the stale holder always comes first, and the loop ends with it.
OrderHolderOnly ==
    /\ pc = "order"
    /\ queue' = IF seen.holder # Nobody THEN <<seen.holder>> ELSE Standbys
    /\ pc' = "offer"
    /\ UNCHANGED <<world, count, seen, n, offered, deaths>>

\* Mutant: the holder keeps its place in the failover order as well.
OrderTwice ==
    /\ pc = "order"
    /\ queue' = IF strikes < EscalateAfter /\ seen.holder # Nobody
                  THEN <<seen.holder>> \o Coords ELSE Coords
    /\ pc' = "offer"
    /\ UNCHANGED <<world, count, seen, n, offered, deaths>>

(* The stale holder first, until it has had its chances; a list that this    *)
(* leaves empty becomes all coordinators.                                    *)
Order ==
    /\ pc = "order"
    /\ LET first == IF strikes < EscalateAfter /\ seen.holder # Nobody
                      THEN <<seen.holder>> ELSE <<>>
           list == first \o Standbys
       IN  queue' = IF list = <<>> THEN Coords ELSE list
    /\ pc' = "offer"
    /\ UNCHANGED <<world, count, seen, n, offered, deaths>>

(* The next of them is skipped unless it is ready, and is woken; when that   *)
(* fails the one after it has its turn.                                      *)
Offer ==
    /\ pc = "offer" /\ queue # <<>>
    /\ LET c == Head(queue)
       IN  \/ /\ status[c] = "idle"
              /\ Strike
              /\ offered' = offered \cup {c}
           \/ /\ offered' = IF status[c] = "idle" THEN offered \cup {c} ELSE offered
              /\ queue' = Tail(queue)
              /\ UNCHANGED <<count, pc, n>>
    /\ UNCHANGED <<world, seen, deaths>>

NobodyReady ==
    /\ pc = "offer" /\ queue = <<>>
    /\ Strike
    /\ UNCHANGED <<world, seen, offered, deaths>>

-----------------------------------------------------------------------------
(* The coordinators *)

(* A coordinator that works takes the lease or renews it.                    *)
Renew(c) ==
    /\ status[c] = "working"
    /\ holder' = c /\ fresh' = TRUE
    /\ UNCHANGED <<status, count, pc, seen, queue, n, offered, deaths>>

Expire ==
    /\ fresh
    /\ fresh' = FALSE
    /\ UNCHANGED <<holder, status, count, pc, seen, queue, n, offered, deaths>>

Corrupt ==
    /\ holder # Nobody
    /\ holder' = Nobody /\ fresh' = FALSE
    /\ UNCHANGED <<status, count, pc, seen, queue, n, offered, deaths>>

Change(c) ==
    /\ \E st \in Statuses \ {status[c]} : status' = [status EXCEPT ![c] = st]
    /\ UNCHANGED <<holder, fresh, count, pc, seen, queue, n, offered, deaths>>

(* A run is killed, or ends with its machine.                                *)
Die ==
    /\ deaths < MaxDeaths /\ pc # "rest"
    /\ deaths' = deaths + 1
    /\ cut' = (cut \/ pc \in {"count", "note"})
    /\ Done
    /\ UNCHANGED <<world, strikes, notes, seen, offered>>

Run ==
    \/ Start \/ ReadHolder \/ ReadAge \/ AskHolder \/ AskTakeover \/ Order \/ Offer \/ NobodyReady
    \/ Unreachable \/ WriteCount \/ Note

Next == Run \/ Die \/ (\E c \in Agents : Renew(c) \/ Change(c)) \/ Expire \/ Corrupt

(* launchd or the timer starts a run again and again, and a run ends; herdr  *)
(* answers again and again.                                                  *)
Fairness == WF_vars(Run) /\ SF_vars(ReadHolder)

Spec == Init /\ [][Next]_vars /\ Fairness

-----------------------------------------------------------------------------
(* Properties *)

(* However many runs go wrong in a row, and for whatever mix of reasons, the *)
(* user has one note for them, and has it from the ESCALATE_AFTER-th on      *)
(* (line 21).  Runs may die between: only one that dies inside strike itself *)
(* breaks the count.                                                         *)
OneNotePerStreak ==
    pc \notin {"count", "note"} /\ ~cut => notes = (IF strikes >= EscalateAfter THEN 1 ELSE 0)

(* A lease that stays stale reaches the user, whatever the coordinators do   *)
(* meanwhile: wait, work without renewing, hang in a takeover or vanish, and *)
(* also when runs die outside of strike.                                     *)
StaleLeaseReachesTheUser == ~fresh ~> (fresh \/ notes > 0 \/ cut)

(* When the lease stays stale, nobody works and some standby stays ready,    *)
(* standbys get their turn, over and over, whether or not the holder is      *)
(* ready as well (lines 109 and 110).                                        *)
Unanswered(c) ==
    ~fresh /\ c # holder /\ status[c] = "idle" /\ \A a \in Agents : status[a] # "working"

StandbysGetATurn ==
    \A c \in ToSet(Coords) : <>[]Unanswered(c) => []<>(offered \ {holder} # {})

-----------------------------------------------------------------------------
(* The inductive invariant behind OneNotePerStreak: what the notes stand for *)
(* while a run is inside strike.  With the count still to be written the     *)
(* note belongs to the strikes before it; with the note still to be written  *)
(* there is none.                                                            *)
Noted(k) == IF k >= EscalateAfter THEN 1 ELSE 0

StreakInv ==
    ~cut => /\ pc = "count" => notes = Noted(n - 1)
            /\ pc = "note" => n = EscalateAfter /\ strikes = n /\ notes = 0
            /\ pc \notin {"count", "note"} => notes = Noted(strikes)
=============================================================================
