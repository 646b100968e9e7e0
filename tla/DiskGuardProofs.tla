---------------------------- MODULE DiskGuardProofs ----------------------------
(* Proofs about DiskGuard.                                                    *)
EXTENDS DiskGuard, FiniteSetTheorems, TLAPS

\* The initial values are in their types.
LEMMA TypeInit == Init => TypeOK
<1> SUFFICES ASSUME Init PROVE TypeOK
  OBVIOUS
<1>1. lastPid \in Nat /\ pid \in [Instances -> 1 .. lastPid]
  BY DiskGuardAssumption, FS_CardinalityType DEF Init
<1>2. NoPid \in Pids
  BY DEF Pids
<1>3. {crossings, kills, fails} = {0} /\ {MaxCrossings, MaxKills, MaxFails} \subseteq Nat
  BY DiskGuardAssumption DEF Init
<1>4. crossings \in 0 .. MaxCrossings /\ kills \in 0 .. MaxKills /\ fails \in 0 .. MaxFails
  BY <1>3
<1>5. lock \in [dir : BOOLEAN, pid : Pids] /\ lock.pid = NoPid
  BY <1>2 DEF Init, NoLock
<1>6. read \in [Instances -> Pids] /\ pc \in [Instances -> Phases]
  BY <1>2 DEF Init, Phases
<1> QED
  BY <1>1, <1>4, <1>5, <1>6 DEF Init, TypeOK

\* The lock, what was read from it and the phases keep their type in a step that starts
\* no process.
LEMMA TypeKept ==
    ASSUME TypeOK, lastPid' = lastPid, pid' = pid, low' \in BOOLEAN, marker' \in BOOLEAN,
           \/ lock' \in {lock, NoLock} \/ lock' = [lock EXCEPT !.pid = NoPid]
           \/ ~lock.dir /\ lock' = [lock EXCEPT !.dir = TRUE]
           \/ \E i \in Instances : lock.dir /\ lock' = [lock EXCEPT !.pid = pid[i]],
           pc' \in [Instances -> Phases], read' \in [Instances -> Pids],
           dying' \in [Instances -> BOOLEAN], notes' \in Nat,
           crossings' \in 0 .. MaxCrossings, kills' \in 0 .. MaxKills, fails' \in 0 .. MaxFails
    PROVE  TypeOK'
<1>1. Pids' = Pids /\ NoPid \in Pids /\ \A i \in Instances : pid[i] \in Pids
  BY DEF Pids, TypeOK
<1>2. lock \in [dir : BOOLEAN, pid : Pids] /\ (lock.pid # NoPid => lock.dir)
  BY DEF TypeOK
<1>3. lock' \in [dir : BOOLEAN, pid : Pids] /\ (lock'.pid # NoPid => lock'.dir)
  <2>1. CASE lock' = lock
    BY <1>1, <1>2, <2>1
  <2>5. CASE lock' = NoLock
    <3>1. NoLock \in [dir : BOOLEAN, pid : Pids] /\ NoLock.pid = NoPid
      BY <1>1 DEF NoLock
    <3> QED
      BY <1>1, <2>5, <3>1
  <2>2. CASE lock' = [lock EXCEPT !.pid = NoPid]
    BY <1>1, <1>2, <2>2
  <2>3. CASE lock' = [lock EXCEPT !.dir = TRUE]
    BY <1>2, <2>3
  <2>4. ASSUME NEW i \in Instances, lock.dir, lock' = [lock EXCEPT !.pid = pid[i]]
        PROVE  lock' \in [dir : BOOLEAN, pid : Pids] /\ (lock'.pid # NoPid => lock'.dir)
    BY <1>1, <1>2, <2>4
  <2> QED
    BY <2>1, <2>2, <2>3, <2>4, <2>5
<1> QED
  BY <1>1, <1>3 DEF TypeOK

\* Every action keeps every variable in its type: one step per kind of action.
LEMMA TypeStep == TypeOK /\ [Next]_vars => TypeOK'
<1> SUFFICES ASSUME TypeOK, [Next]_vars PROVE TypeOK'
  OBVIOUS
<1>0. /\ low \in BOOLEAN /\ marker \in BOOLEAN /\ pc \in [Instances -> Phases]
      /\ read \in [Instances -> Pids] /\ dying \in [Instances -> BOOLEAN] /\ notes \in Nat
      /\ crossings \in 0 .. MaxCrossings /\ kills \in 0 .. MaxKills /\ fails \in 0 .. MaxFails
  BY DEF TypeOK
<1>00. {MaxCrossings, MaxKills, MaxFails} \subseteq Nat
  BY DiskGuardAssumption
<1>1. ASSUME NEW i \in Instances,
             \/ Look(i) \/ Unmark(i) \/ SeeMarker(i) \/ Judge(i) \/ Recheck(i)
             \/ Mark(i) \/ Clean(i) \/ Note(i)
      PROVE  TypeOK'
  <2>1. pc' \in [Instances -> Phases]
    BY <1>0, <1>1 DEF Look, Unmark, SeeMarker, Judge, Recheck, Mark, Clean, Note, Goto, Phases
  <2>2. UNCHANGED <<lastPid, pid, lock, read, dying, crossings, kills, fails>>
    BY <1>1 DEF Look, Unmark, SeeMarker, Judge, Recheck, Mark, Clean, Note, outside
  <2>3. low' \in BOOLEAN /\ marker' \in BOOLEAN /\ notes' \in Nat
    <3>1. low' \in {low, FALSE} /\ marker' \in {marker, TRUE, FALSE} /\ notes' \in {notes, notes + 1}
      BY <1>1 DEF Look, Unmark, SeeMarker, Judge, Recheck, Mark, Clean, Note, outside
    <3>2. low' \in BOOLEAN
      BY <1>0, <3>1
    <3>3. marker' \in BOOLEAN
      BY <1>0, <3>1
    <3>4. notes' \in Nat
      BY <1>0, <3>1
    <3> QED
      BY <3>2, <3>3, <3>4
  <2> QED
    BY <1>0, <2>1, <2>2, <2>3, TypeKept
<1>2. ASSUME NEW i \in Instances, MakeDir(i) \/ RemovePid(i) \/ RemoveStale(i) \/ WritePid(i)
      PROVE  TypeOK'
  <2>1. pc' \in [Instances -> Phases]
    BY <1>0, <1>2 DEF MakeDir, RemovePid, RemoveStale, WritePid, Goto, Phases
  <2>2. UNCHANGED <<low, marker, notes, lastPid, pid, read, dying, crossings, kills, fails>>
    BY <1>2 DEF MakeDir, RemovePid, RemoveStale, WritePid, outside
  <2>3. \/ lock' \in {lock, NoLock} \/ lock' = [lock EXCEPT !.pid = NoPid]
        \/ ~lock.dir /\ lock' = [lock EXCEPT !.dir = TRUE]
        \/ lock.dir /\ lock' = [lock EXCEPT !.pid = pid[i]]
    BY <1>2 DEF MakeDir, RemovePid, RemoveStale, WritePid
  <2> QED
    BY <1>0, <2>1, <2>2, <2>3, TypeKept
<1>3. ASSUME NEW i \in Instances, ReadHolder(i) PROVE TypeOK'
  <2>1. lock.pid \in Pids
    BY DEF TypeOK
  <2>2. pc' \in [Instances -> Phases] /\ read' \in [Instances -> Pids]
    BY <1>0, <1>3, <2>1 DEF ReadHolder, Goto, Phases
  <2>3. UNCHANGED <<low, marker, lock, notes, lastPid, pid, dying, crossings, kills, fails>>
    BY <1>3 DEF ReadHolder, outside
  <2> QED
    BY <1>0, <2>2, <2>3, TypeKept
<1>4. ASSUME NEW i \in Instances, RemoveDir(i) PROVE TypeOK'
  <2>1. pc' \in [Instances -> Phases] /\ dying' \in [Instances -> BOOLEAN]
    BY <1>0, <1>4 DEF RemoveDir, Goto, Phases
  <2>2. UNCHANGED <<low, marker, notes, lastPid, pid, read, crossings, kills, fails>>
    BY <1>4 DEF RemoveDir, outside
  <2>3. lock' \in {lock, NoLock}
    BY <1>4 DEF RemoveDir
  <2> QED
    BY <1>0, <2>1, <2>2, <2>3, TypeKept
<1>5. ASSUME NEW i \in Instances, WritePidFails(i) \/ WriteFails(i) \/ Kill(i) PROVE TypeOK'
  <2>1. pc' \in [Instances -> Phases] /\ dying' \in [Instances -> BOOLEAN]
    BY <1>0, <1>5 DEF WritePidFails, WriteFails, Kill, Goto, Phases
  <2>2. UNCHANGED <<low, marker, notes, lastPid, pid, read, crossings>>
    BY <1>5 DEF WritePidFails, WriteFails, Kill
  <2>3. lock' = lock \/ lock' = [lock EXCEPT !.pid = NoPid]
    BY <1>5 DEF WritePidFails, WriteFails, Kill
  <2>4. kills' \in 0 .. MaxKills /\ fails' \in 0 .. MaxFails
    BY <1>0, <1>00, <1>5 DEF WritePidFails, WriteFails, Kill
  <2> QED
    BY <1>0, <2>1, <2>2, <2>3, <2>4, TypeKept
<1>6. ASSUME NEW i \in Instances, Restart(i) PROVE TypeOK'
  <2>1. lastPid' = lastPid + 1 /\ lastPid \in Nat
    BY <1>6 DEF Restart, TypeOK
  <2>2. Pids \subseteq Pids' /\ NoPid \in Pids'
    BY <2>1 DEF Pids
  <2>3. pid' \in [Instances -> 1 .. lastPid']
    <3>1. \A j \in Instances : pid[j] \in 1 .. lastPid'
      BY <2>1 DEF TypeOK
    <3>2. lastPid' \in 1 .. lastPid'
      BY <2>1
    <3>3. pid' = [pid EXCEPT ![i] = lastPid'] /\ pid \in [Instances -> 1 .. lastPid']
      BY <1>6, <3>1 DEF Restart, TypeOK
    <3> QED
      BY <3>2, <3>3
  <2>4. read' \in [Instances -> Pids'] /\ dying' \in [Instances -> BOOLEAN]
    BY <1>0, <1>6, <2>2 DEF Restart
  <2>5. pc' \in [Instances -> Phases]
    BY <1>0, <1>6 DEF Restart, Goto, Phases
  <2>6. UNCHANGED <<low, marker, lock, notes, crossings, kills, fails>>
    BY <1>6 DEF Restart
  <2>7. lock' \in [dir : BOOLEAN, pid : Pids'] /\ (lock'.pid # NoPid => lock'.dir)
    BY <2>2, <2>6 DEF TypeOK
  <2> QED
    BY <1>0, <2>1, <2>3, <2>4, <2>5, <2>6, <2>7 DEF TypeOK
<1>7. CASE Fill \/ Recover
  <2>1. UNCHANGED <<marker, lock, lastPid, pid, pc, read, dying, kills, fails>>
    BY <1>7 DEF Fill, Recover
  <2>2. low' \in BOOLEAN /\ notes' \in Nat /\ crossings' \in 0 .. MaxCrossings
    <3>1. low' \in BOOLEAN
      BY <1>7 DEF Fill, Recover
    <3>2. \/ crossings' = crossings /\ notes' = notes
          \/ crossings < MaxCrossings /\ crossings' = crossings + 1 /\ notes' = 0
      BY <1>7 DEF Fill, Recover
    <3> QED
      BY <1>0, <1>00, <3>1, <3>2
  <2> QED
    BY <1>0, <2>1, <2>2, TypeKept
<1>8. CASE UNCHANGED vars
  BY <1>0, <1>8, TypeKept DEF vars
<1> QED
  BY <1>1, <1>2, <1>3, <1>4, <1>5, <1>6, <1>7, <1>8 DEF Next, Loop

\* Every variable keeps its type, for any number of instances: above all, what an
\* instance reads from a lock is no pid or the pid of an instance.
THEOREM TypeCorrect == Spec => []TypeOK
BY TypeInit, TypeStep, PTL DEF Spec

-----------------------------------------------------------------------------
(* One note per crossing *)

\* There is one instance, as the launchd job starts it.
Single == \A i, j \in Instances : i = j

\* No step of the one instance, no kill, no restart and no failing write posts a second
\* note for a crossing: one step per action that reads or writes the marker or the notes.
LEMMA NoteStep ==
    ASSUME Single
    PROVE  TypeOK /\ NoteInv /\ [Next]_vars => NoteInv'
<1> SUFFICES ASSUME TypeOK, NoteInv, [Next]_vars PROVE NoteInv'
  OBVIOUS
<1> USE DEF TypeOK, NoteInv, Goto, outside
<1>1. ASSUME NEW i \in Instances, Look(i) PROVE NoteInv'
  BY <1>1 DEF Look
<1>2. ASSUME NEW i \in Instances, Unmark(i) PROVE NoteInv'
  BY <1>2 DEF Unmark, Single
<1>3. ASSUME NEW i \in Instances, SeeMarker(i) PROVE NoteInv'
  BY <1>3 DEF SeeMarker
<1>4. ASSUME NEW i \in Instances,
             \/ MakeDir(i) \/ ReadHolder(i) \/ Judge(i) \/ RemovePid(i) \/ RemoveStale(i)
             \/ WritePid(i) \/ WritePidFails(i) \/ RemoveDir(i) \/ Kill(i) \/ Restart(i)
      PROVE  NoteInv'
  <2>1. /\ low' = low /\ notes' = notes /\ marker' = marker
        /\ pc' = [pc EXCEPT ![i] = pc'[i]]
    BY <1>4 DEF MakeDir, ReadHolder, Judge, RemovePid, RemoveStale, WritePid, WritePidFails,
       RemoveDir, Kill, Restart
  <2>2. \/ pc'[i] \in {"look", "dead", "unpid", "undir"}
        \/ /\ pc[i] \in {"mkdir", "holder", "judge", "rmpid", "rmdir", "again", "write"}
           /\ pc'[i] \in {"holder", "judge", "rmpid", "rmdir", "again", "write", "recheck"}
    BY <1>4 DEF MakeDir, ReadHolder, Judge, RemovePid, RemoveStale, WritePid, WritePidFails,
       RemoveDir, Kill, Restart
  <2> QED
    BY <2>1, <2>2
<1>5. ASSUME NEW i \in Instances, Recheck(i) PROVE NoteInv'
  BY <1>5 DEF Recheck
<1>6. ASSUME NEW i \in Instances, Mark(i) PROVE NoteInv'
  BY <1>6 DEF Mark
<1>7. ASSUME NEW i \in Instances, Clean(i) PROVE NoteInv'
  BY <1>7 DEF Clean
<1>8. ASSUME NEW i \in Instances, Note(i) PROVE NoteInv'
  BY <1>8 DEF Note, Single
<1>9. ASSUME NEW i \in Instances, WriteFails(i) PROVE NoteInv'
  BY <1>9 DEF WriteFails
<1>10. CASE Fill \/ Recover
  BY <1>10 DEF Fill, Recover
<1>11. CASE UNCHANGED vars
  BY <1>11 DEF vars
<1> QED
  BY <1>1, <1>2, <1>3, <1>4, <1>5, <1>6, <1>7, <1>8, <1>9, <1>10, <1>11 DEF Next, Loop

\* One instance posts one note per crossing at most, wherever it is killed and whichever
\* of its writes fail (disk-guard.sh:4-5).  With two instances this is false.
THEOREM NotedOnce == ASSUME Single PROVE Spec => []OneNotePerCrossing
<1>1. Init => TypeOK /\ NoteInv
  BY TypeInit DEF Init, NoteInv
<1>2. TypeOK /\ NoteInv /\ [Next]_vars => (TypeOK /\ NoteInv)'
  BY TypeStep, NoteStep
<1>3. NoteInv => OneNotePerCrossing
  BY DEF NoteInv, OneNotePerCrossing
<1> QED
  BY <1>1, <1>2, <1>3, PTL DEF Spec
=============================================================================
