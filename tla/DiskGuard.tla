------------------------------- MODULE DiskGuard -------------------------------
(***************************************************************************)
(* The disk guard, scripts/disk-guard.sh: when free space falls under the  *)
(* threshold it clears two caches and posts one note, then leaves a marker *)
(* so that it does nothing more until the space recovers.                  *)
(*                                                                         *)
(* Every command on the lock directory and on the marker is a step of its  *)
(* own.  An instance may be killed between any two of them and started     *)
(* again under a new pid, and writing a file may fail: the disk is full    *)
(* when this script has work to do.                                        *)
(***************************************************************************)
EXTENDS Naturals, FiniteSets

CONSTANTS
    Instances,                       \* the loops that run at the same time
    NoPid,                           \* an absent or empty pid file
    MaxCrossings, MaxKills, MaxFails \* bounds of what happens outside

ASSUME DiskGuardAssumption ==
    /\ IsFiniteSet(Instances)
    /\ NoPid \notin Nat
    /\ {MaxCrossings, MaxKills, MaxFails} \subseteq Nat

VARIABLES
    low,           \* free space is under the threshold
    crossings,     \* how often it fell under it
    marker,        \* LOW_MARKER exists
    lock,          \* LOCK: whether the directory exists, and its pid file
    pc, pid,       \* what each instance does next, and its $$
    read,          \* the pid it read from the lock
    dying,         \* it runs its EXIT trap
    notes,         \* history: the notes posted since the last crossing
    lastPid, kills, fails

vars == <<low, crossings, marker, lock, pc, pid, read, dying, notes, lastPid, kills, fails>>
outside == <<low, crossings, lastPid, kills, fails>>

Phases == {"look", "unmark", "marked", "mkdir", "holder", "judge", "rmpid", "rmdir", "again", "write",
           "recheck", "mark", "clean", "note", "unpid", "undir", "dead"}

\* What a pid file may say.
Pids == (1 .. lastPid) \cup {NoPid}

TypeOK ==
    /\ low \in BOOLEAN /\ marker \in BOOLEAN
    /\ lock \in [dir : BOOLEAN, pid : Pids]
    /\ lock.pid # NoPid => lock.dir
    /\ pc \in [Instances -> Phases]
    /\ pid \in [Instances -> 1 .. lastPid]
    /\ read \in [Instances -> Pids]
    /\ dying \in [Instances -> BOOLEAN]
    /\ notes \in Nat /\ lastPid \in Nat
    /\ crossings \in 0 .. MaxCrossings /\ kills \in 0 .. MaxKills /\ fails \in 0 .. MaxFails

NoLock == [dir |-> FALSE, pid |-> NoPid]

Init ==
    /\ low = FALSE /\ crossings = 0 /\ marker = FALSE
    /\ lock = NoLock
    /\ pc = [i \in Instances |-> "look"]
    /\ pid \in {f \in [Instances -> 1 .. Cardinality(Instances)] :
                  \A i, j \in Instances : f[i] = f[j] => i = j}
    /\ read = [i \in Instances |-> NoPid]
    /\ dying = [i \in Instances |-> FALSE]
    /\ notes = 0 /\ lastPid = Cardinality(Instances) /\ kills = 0 /\ fails = 0

Goto(i, label) == pc' = [pc EXCEPT ![i] = label]

(* kill -0 and a command line that names disk-guard: only instances do.      *)
Holds(p) == \E i \in Instances : pc[i] # "dead" /\ pid[i] = p

-----------------------------------------------------------------------------
(* check_once: the free space, then the marker.  The marker is removed on a  *)
(* reading that may be old.  (df failing ends the instance: see Kill.)       *)
Look(i) ==
    /\ pc[i] = "look"
    /\ Goto(i, IF low THEN "marked" ELSE "unmark")
    /\ UNCHANGED <<outside, marker, lock, pid, read, dying, notes>>

Unmark(i) ==
    /\ pc[i] = "unmark"
    /\ marker' = FALSE
    /\ Goto(i, "look")
    /\ UNCHANGED <<outside, lock, pid, read, dying, notes>>

SeeMarker(i) ==
    /\ pc[i] = "marked"
    /\ Goto(i, IF marker THEN "look" ELSE "mkdir")
    /\ UNCHANGED <<outside, marker, lock, pid, read, dying, notes>>

-----------------------------------------------------------------------------
(* take_lock *)

MakeDir(i) ==
    /\ pc[i] \in {"mkdir", "again"}
    /\ IF ~lock.dir
         THEN lock' = [lock EXCEPT !.dir = TRUE] /\ Goto(i, "write")
         ELSE UNCHANGED lock /\ Goto(i, IF pc[i] = "mkdir" THEN "holder" ELSE "look")
    /\ UNCHANGED <<outside, marker, pid, read, dying, notes>>

\* Mutant: an empty pid file is read as the number 0.
ReadHolderAsZero(i) ==
    /\ pc[i] = "holder"
    /\ read' = [read EXCEPT ![i] = IF lock.pid = NoPid THEN 0 ELSE lock.pid]
    /\ Goto(i, "judge")
    /\ UNCHANGED <<outside, marker, lock, pid, dying, notes>>

ReadHolder(i) ==
    /\ pc[i] = "holder"
    /\ read' = [read EXCEPT ![i] = lock.pid]
    /\ Goto(i, "judge")
    /\ UNCHANGED <<outside, marker, lock, pid, dying, notes>>

\* Mutant: a lock without a readable pid is respected.
JudgeWaiting(i) ==
    /\ pc[i] = "judge"
    /\ Goto(i, IF read[i] = NoPid \/ Holds(read[i]) THEN "look" ELSE "rmpid")
    /\ UNCHANGED <<outside, marker, lock, pid, read, dying, notes>>

Judge(i) ==
    /\ pc[i] = "judge"
    /\ Goto(i, IF Holds(read[i]) THEN "look" ELSE "rmpid")
    /\ UNCHANGED <<outside, marker, lock, pid, read, dying, notes>>

RemovePid(i) ==
    /\ pc[i] \in {"rmpid", "unpid"}
    /\ lock' = [lock EXCEPT !.pid = NoPid]
    /\ Goto(i, IF pc[i] = "rmpid" THEN "rmdir" ELSE "undir")
    /\ UNCHANGED <<outside, marker, pid, read, dying, notes>>

(* rmdir || true: a directory with a pid file in it stays.                   *)
RemoveStale(i) ==
    /\ pc[i] = "rmdir"
    /\ lock' = IF lock.pid = NoPid THEN NoLock ELSE lock
    /\ Goto(i, "again")
    /\ UNCHANGED <<outside, marker, pid, read, dying, notes>>

(* The pid file, in a directory that another instance may have removed.      *)
WritePid(i) ==
    /\ pc[i] = "write"
    /\ IF lock.dir
         THEN lock' = [lock EXCEPT !.pid = pid[i]] /\ Goto(i, "recheck")
         ELSE UNCHANGED lock /\ Goto(i, "look")
    /\ UNCHANGED <<outside, marker, pid, read, dying, notes>>

(* The disk is full: take_lock returns 1 with an empty pid file behind it.   *)
WritePidFails(i) ==
    /\ pc[i] = "write" /\ fails < MaxFails
    /\ fails' = fails + 1
    /\ lock' = [lock EXCEPT !.pid = NoPid]
    /\ Goto(i, "look")
    /\ UNCHANGED <<low, crossings, lastPid, kills, marker, pid, read, dying, notes>>

-----------------------------------------------------------------------------
(* Under the lock: once more the marker, the two cleans, the note.           *)
Recheck(i) ==
    /\ pc[i] = "recheck"
    /\ Goto(i, IF marker THEN "unpid" ELSE "mark")
    /\ UNCHANGED <<outside, marker, lock, pid, read, dying, notes>>

\* Mutant: the marker is not written.
MarkNothing(i) ==
    /\ pc[i] = "mark"
    /\ Goto(i, "clean")
    /\ UNCHANGED <<outside, marker, lock, pid, read, dying, notes>>

Mark(i) ==
    /\ pc[i] = "mark"
    /\ marker' = TRUE
    /\ Goto(i, "clean")
    /\ UNCHANGED <<outside, lock, pid, read, dying, notes>>

(* run_clean never fails the script; the space may recover, or not.          *)
Clean(i) ==
    /\ pc[i] = "clean"
    /\ low' \in {low, FALSE}
    /\ Goto(i, "note")
    /\ UNCHANGED <<crossings, lastPid, kills, fails, marker, lock, pid, read, dying, notes>>

Note(i) ==
    /\ pc[i] = "note"
    /\ notes' = notes + 1
    /\ Goto(i, "unpid")
    /\ UNCHANGED <<outside, marker, lock, pid, read, dying>>

(* The marker or the note cannot be written: errexit, and the EXIT trap      *)
(* releases the lock.                                                        *)
WriteFails(i) ==
    /\ pc[i] \in {"mark", "note"} /\ fails < MaxFails
    /\ fails' = fails + 1
    /\ dying' = [dying EXCEPT ![i] = TRUE]
    /\ Goto(i, "unpid")
    /\ UNCHANGED <<low, crossings, lastPid, kills, marker, lock, pid, read, notes>>

(* release_lock's rmdir.  When it fails errexit ends the script, and the     *)
(* trap releases once more.                                                  *)
RemoveDir(i) ==
    /\ pc[i] = "undir"
    /\ LET removed == lock = [dir |-> TRUE, pid |-> NoPid]
       IN  /\ lock' = IF removed THEN NoLock ELSE lock
           /\ dying' = [dying EXCEPT ![i] = ~removed]
           /\ Goto(i, IF dying[i] THEN "dead" ELSE IF removed THEN "look" ELSE "unpid")
    /\ UNCHANGED <<outside, marker, pid, read, notes>>

-----------------------------------------------------------------------------
(* What happens outside *)

Kill(i) ==
    /\ pc[i] # "dead" /\ kills < MaxKills
    /\ kills' = kills + 1
    /\ Goto(i, "dead")
    /\ UNCHANGED <<low, crossings, lastPid, fails, marker, lock, pid, read, dying, notes>>

(* launchd starts a dead instance again.                                     *)
Restart(i) ==
    /\ pc[i] = "dead"
    /\ lastPid' = lastPid + 1
    /\ pid' = [pid EXCEPT ![i] = lastPid']
    /\ dying' = [dying EXCEPT ![i] = FALSE]
    /\ read' = [read EXCEPT ![i] = NoPid]
    /\ Goto(i, "look")
    /\ UNCHANGED <<low, crossings, kills, fails, marker, lock, notes>>

Fill ==
    /\ ~low /\ crossings < MaxCrossings
    /\ low' = TRUE /\ crossings' = crossings + 1 /\ notes' = 0
    /\ UNCHANGED <<lastPid, kills, fails, marker, lock, pc, pid, read, dying>>

Recover ==
    /\ low
    /\ low' = FALSE
    /\ UNCHANGED <<crossings, lastPid, kills, fails, marker, lock, pc, pid, read, dying, notes>>

Loop(i) ==
    \/ Look(i) \/ Unmark(i) \/ SeeMarker(i)
    \/ MakeDir(i) \/ ReadHolder(i) \/ Judge(i) \/ RemovePid(i) \/ RemoveStale(i) \/ WritePid(i)
    \/ Recheck(i) \/ Mark(i) \/ Clean(i) \/ Note(i) \/ RemoveDir(i)

Next ==
    \/ \E i \in Instances : Loop(i) \/ WritePidFails(i) \/ WriteFails(i) \/ Kill(i) \/ Restart(i)
    \/ Fill \/ Recover

(* An instance that is not killed goes on, and launchd keeps it running.     *)
Fairness == \A i \in Instances : WF_vars(Loop(i)) /\ WF_vars(Restart(i))

Spec == Init /\ [][Next]_vars /\ Fairness

-----------------------------------------------------------------------------
(* Properties *)

(* A crossing gets one note at most, whatever was killed or failed between   *)
(* the marker, the cleans, the note and the release (lines 4 and 5).      *)
OneNotePerCrossing == notes <= 1

(* What is left in the lock directory by a killed instance or a full disk    *)
(* never stops the guard for good: while space stays low the marker, which   *)
(* is set before the caches are cleaned, gets set.                           *)
LowSpaceIsHandled == low ~> (marker \/ ~low)

(* The lock: two instances never clear the caches or post a note at the same *)
(* time (line 11).                                                           *)
OneInstanceActs ==
    \A i, j \in Instances : {pc[i], pc[j]} \subseteq {"clean", "note"} => i = j

-----------------------------------------------------------------------------
(* The inductive invariant behind OneNotePerCrossing *)

\* After the note of a crossing the marker stands until the space has recovered, the
\* instance comes to the note only without a note before it, and a reading of enough
\* space that removes the marker late is from before the crossing.
NoteInv ==
    /\ notes <= 1
    /\ low /\ notes > 0 => marker
    /\ \A i \in Instances :
         /\ pc[i] = "unmark" /\ low => notes = 0
         /\ pc[i] \in {"marked", "mkdir", "holder", "judge", "rmpid", "rmdir", "again", "write",
                       "recheck"} /\ notes > 0 => marker
         /\ pc[i] = "mark" => notes = 0
         /\ pc[i] \in {"clean", "note"} => marker /\ notes = 0
=============================================================================
