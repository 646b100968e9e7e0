--------------------------- MODULE FleetExecProofs ---------------------------
(* Proofs about FleetExec, for every number of processes, slots and names.   *)
EXTENDS FleetExec, FiniteSetTheorems, TLAPS

\* A set of locks that is not empty has a first one.
LEMMA FirstIn == ASSUME NEW W, W # {} PROVE First(W) \in W
BY DEF First

\* The functions of the marker files, one of them written or removed.
Ages == [Procs -> NoMarker .. Timeout]

\* Writing an age in one place of the marker table keeps its type.
LEMMA MarkerWritten ==
    ASSUME NEW m \in [SlotNames -> Ages], NEW s, NEW p, NEW a \in NoMarker .. Timeout
    PROVE  [m EXCEPT ![s][p] = a] \in [SlotNames -> Ages]
<1>1. \A t \in SlotNames : [m[t] EXCEPT ![p] = a] \in Ages
  BY DEF Ages
<1> QED
  BY <1>1

\* A process that vanishes leaves every variable in its type.
LEMMA VanishType ==
    ASSUME TypeOK, NEW K, NEW phase \in [Procs -> Phases], Vanish(K, phase),
           marker' = marker, work' \in [Procs -> SUBSET {"child", "stray"}]
    PROVE  TypeOK'
<1> USE ConstantsAssumption
<1>1. pc' \in [Procs -> Phases] /\ want' \in [Procs -> SUBSET Locks]
  BY DEF TypeOK, Vanish, Phases
<1>2. scan' \in [Procs -> Nat] /\ outcome' \in [Procs -> Outcomes]
  BY DEF TypeOK, Vanish, Outcomes
<1>3. timer' \in [Procs -> 0 .. Timeout]
  <2>1. 0 \in 0 .. Timeout
    OBVIOUS
  <2> QED
    BY <2>1 DEF TypeOK, Vanish
<1>7. marked' \in [Procs -> BOOLEAN]
  BY DEF TypeOK, Vanish
<1>4. caught' \in [Procs -> Signals \cup {None}] /\ sigs' \in [Procs -> Seq(Signals)]
  BY DEF TypeOK, Vanish
<1>5. armed' \in [Procs -> BOOLEAN] /\ flock' \in [Files -> Procs \cup {None}]
  BY DEF TypeOK, Vanish
<1>8. sweep' \in [Procs -> [listed : SUBSET Procs, victim : Procs \cup {None}]]
      /\ raced' \in [Procs -> BOOLEAN]
  BY DEF TypeOK, Vanish, NoSweep
<1>6. job' \in [Procs -> [heavy : BOOLEAN, name : Names \cup {None}, tty : BOOLEAN, held : BOOLEAN,
                          slot : SlotNames \cup {None}, parent : Procs \cup {None}]]
  BY DEF TypeOK, Vanish, NoJob
<1> QED
  BY <1>1, <1>2, <1>3, <1>4, <1>5, <1>6, <1>7, <1>8 DEF TypeOK

\* Acquire's return leaves every variable in its type.
LEMMA ReturnType ==
    ASSUME TypeOK, NEW p \in Procs, NEW result \in Outcomes, Return(p, result),
           flock' \in [Files -> Procs \cup {None}],
           UNCHANGED <<job, want, scan, timer, caught, sigs, armed, sweep, work>>
    PROVE  TypeOK'
<1>1. marker \in [SlotNames -> Ages] /\ NoMarker \in NoMarker .. Timeout
  BY ConstantsAssumption DEF TypeOK, Ages, NoMarker
<1>2. marker' \in [SlotNames -> Ages]
  <2>1. CASE marked[p]
    BY <1>1, <2>1, MarkerWritten DEF Return
  <2>2. CASE ~marked[p]
    BY <1>1, <2>2 DEF Return
  <2> QED
    BY <2>1, <2>2
<1> QED
  BY <1>2 DEF TypeOK, Return, Ages, Phases, Acquiring

\* Reaping a marker moves the process within Acquire, or on to its first attempt, and
\* changes nothing but that, its list and the marker.
LEMMA ReapMoves ==
    ASSUME TypeOK, NEW p \in Procs, ReapMarkers(p)
    PROVE  /\ pc[p] \in Reaping /\ pc'[p] \in Reaping \cup {"scan"}
           /\ pc' \in [Procs -> Phases]
           /\ sweep' \in [Procs -> [listed : SUBSET Procs, victim : Procs \cup {None}]]
           /\ \A q \in Procs \ {p} : pc'[q] = pc[q] /\ sweep'[q] = sweep[q]
           /\ UNCHANGED <<job, want, scan, outcome, timer, marked, caught, sigs, armed,
                          flock, raced, work>>
           /\ \/ marker' = marker
              \/ marker' = [marker EXCEPT ![job[p].slot][sweep[p].victim] = NoMarker]
<1>0. /\ pc \in [Procs -> Phases]
      /\ sweep \in [Procs -> [listed : SUBSET Procs, victim : Procs \cup {None}]]
  BY DEF TypeOK
<1>1. Reaping \cup {"scan"} \subseteq Phases
  BY DEF Reaping, Phases, Acquiring
<1>2. CASE StatMarker(p)
  <2>1. PICK q \in sweep[p].listed, ph \in {"unlink", "probe"} :
          /\ sweep' = [sweep EXCEPT ![p] = [listed |-> @.listed \ {q}, victim |-> q]]
          /\ pc' = [pc EXCEPT ![p] = ph]
    BY <1>2 DEF StatMarker
  <2>2. q \in Procs /\ [listed |-> sweep[p].listed \ {q}, victim |-> q]
                       \in [listed : SUBSET Procs, victim : Procs \cup {None}]
    BY <1>0
  <2> QED
    BY <1>0, <1>1, <1>2, <2>1, <2>2 DEF StatMarker, Reaping
<1>3. ASSUME NextMarker(p)
      PROVE  /\ pc'[p] \in Reaping \cup {"scan"} /\ pc' \in [Procs -> Phases]
             /\ sweep' \in [Procs -> [listed : SUBSET Procs, victim : Procs \cup {None}]]
             /\ \A q \in Procs \ {p} : pc'[q] = pc[q] /\ sweep'[q] = sweep[q]
  <2>1. PICK ph \in {"scan", "reap"} : pc' = [pc EXCEPT ![p] = ph]
    BY <1>3 DEF NextMarker
  <2>2. sweep' = [sweep EXCEPT ![p] = [@ EXCEPT !.victim = None]]
    BY <1>3 DEF NextMarker
  <2>3. [sweep[p] EXCEPT !.victim = None]
          \in [listed : SUBSET Procs, victim : Procs \cup {None}]
    BY <1>0
  <2> QED
    BY <1>0, <1>1, <2>1, <2>2, <2>3 DEF Reaping
<1>4. CASE ProbePid(p)
  <2>1. CASE Alive(sweep[p].victim)
    BY <1>3, <1>4, <2>1 DEF ProbePid, Reaping
  <2>2. CASE ~Alive(sweep[p].victim)
    <3>1. pc' = [pc EXCEPT ![p] = "unlink"] /\ sweep' = sweep
      BY <1>4, <2>2 DEF ProbePid
    <3> QED
      BY <1>0, <1>1, <1>4, <3>1 DEF ProbePid, Reaping
  <2> QED
    BY <2>1, <2>2
<1>5. CASE UnlinkMarker(p)
  BY <1>3, <1>5 DEF UnlinkMarker, Reaping
<1> QED
  BY <1>2, <1>4, <1>5 DEF ReapMarkers

\* The initial values are in their types.
LEMMA TypeInit == Init => TypeOK
BY ConstantsAssumption DEF Init, TypeOK, NoSweep, Reaping, NoJob, NoMarker, Phases, Acquiring, Outcomes

\* Every action keeps every variable in its type.
LEMMA TypeStep == TypeOK /\ [Next]_vars => TypeOK'
<1> SUFFICES ASSUME TypeOK, [Next]_vars PROVE TypeOK'
  OBVIOUS
<1> USE ConstantsAssumption
<1>1. ASSUME NEW p \in Procs, NEW r \in Requests, NEW s \in SlotNames,
             NEW q \in Procs \cup {None}, Start(p, r, s, q)
      PROVE  TypeOK'
  BY <1>1 DEF Start, TypeOK, Phases, Acquiring, ChildHeld, SemsOf
<1>2. ASSUME NEW p \in Procs, BeginAcquire(p) PROVE TypeOK'
  <2>1. PICK found \in SUBSET Procs, ph \in {"scan", "reap"} :
          /\ sweep' = [sweep EXCEPT ![p] = [@ EXCEPT !.listed = found]]
          /\ pc' = [pc EXCEPT ![p] = ph]
    BY <1>2 DEF BeginAcquire
  <2>2. sweep \in [Procs -> [listed : SUBSET Procs, victim : Procs \cup {None}]]
    BY DEF TypeOK
  <2>3. [sweep[p] EXCEPT !.listed = found] \in [listed : SUBSET Procs, victim : Procs \cup {None}]
    BY <2>2
  <2>4. pc' \in [Procs -> Phases]
    BY <2>1 DEF TypeOK, Phases, Acquiring
  <2>5. sweep' \in [Procs -> [listed : SUBSET Procs, victim : Procs \cup {None}]]
    BY <2>1, <2>2, <2>3
  <2>6. scan' \in [Procs -> Nat] /\ timer' \in [Procs -> 0 .. Timeout]
    BY <1>2 DEF BeginAcquire, TypeOK
  <2>7. UNCHANGED <<job, want, outcome, marked, caught, sigs, armed, flock, marker, raced, work>>
    BY <1>2 DEF BeginAcquire
  <2> QED
    BY <2>4, <2>5, <2>6, <2>7 DEF TypeOK
<1>23. ASSUME NEW p \in Procs, ReapMarkers(p) PROVE TypeOK'
  <2>1. NoMarker \in NoMarker .. Timeout /\ marker \in [SlotNames -> Ages]
    BY DEF NoMarker, TypeOK, Ages
  <2>2. marker' \in [SlotNames -> Ages]
    <3>1. CASE marker' = marker
      BY <2>1, <3>1
    <3>2. CASE marker' = [marker EXCEPT ![job[p].slot][sweep[p].victim] = NoMarker]
      BY <2>1, <3>2, MarkerWritten
    <3> QED
      BY <1>23, <3>1, <3>2, ReapMoves
  <2>3. /\ pc' \in [Procs -> Phases]
        /\ sweep' \in [Procs -> [listed : SUBSET Procs, victim : Procs \cup {None}]]
        /\ UNCHANGED <<job, want, scan, outcome, timer, marked, caught, sigs, armed,
                       flock, raced, work>>
    BY <1>23, ReapMoves
  <2>4. marker' \in [SlotNames -> [Procs -> NoMarker .. Timeout]]
    BY <2>2 DEF Ages
  <2> QED
    BY <2>3, <2>4 DEF TypeOK
<1>3. ASSUME NEW p \in Procs, TakeFile(p) PROVE TypeOK'
  <2>1. flock' \in [Files -> Procs \cup {None}]
    BY <1>3 DEF TakeFile, TypeOK
  <2> QED
    BY <1>3, <2>1, ReturnType DEF TakeFile, Outcomes
<1>4. ASSUME NEW p \in Procs, SkipFile(p) PROVE TypeOK'
  BY <1>4 DEF SkipFile, TypeOK, Phases, Acquiring, Outcomes
<1>5. ASSUME NEW p \in Procs, Enqueue(p) PROVE TypeOK'
  <2>1. marker' \in [SlotNames -> Ages]
    <3>1. marker \in [SlotNames -> Ages] /\ 0 \in NoMarker .. Timeout
      BY DEF TypeOK, Ages, NoMarker
    <3>2. marker' = marker \/ marker' = [marker EXCEPT ![job[p].slot][p] = 0]
      BY <1>5 DEF Enqueue
    <3> QED
      <4>1. CASE marker' = marker
        BY <4>1, <3>1
      <4>2. CASE marker' = [marker EXCEPT ![job[p].slot][p] = 0]
        BY <4>2, <3>1, MarkerWritten
      <4> QED
        BY <3>2, <4>1, <4>2
  <2>2. raced' \in [Procs -> BOOLEAN]
    <3>1. Condemned(p) \in BOOLEAN
      BY DEF Condemned
    <3> QED
      BY <1>5, <3>1 DEF Enqueue, TypeOK
  <2>3. pc' \in [Procs -> Phases] /\ marked' \in [Procs -> BOOLEAN]
    BY <1>5 DEF Enqueue, TypeOK, Phases, Acquiring
  <2> QED
    BY <1>5, <2>1, <2>2, <2>3 DEF Enqueue, TypeOK, Ages
<1>6. ASSUME NEW p \in Procs, Poll(p) PROVE TypeOK'
  BY <1>6 DEF Poll, TypeOK, Phases, Acquiring, Outcomes
<1>7. ASSUME NEW p \in Procs, GiveUp(p) PROVE TypeOK'
  BY <1>7, ReturnType DEF GiveUp, TypeOK, Outcomes
<1>8. ASSUME NEW p \in Procs, AcquireError(p) PROVE TypeOK'
  BY <1>8, ReturnType DEF AcquireError, TypeOK, Outcomes
<1>9. ASSUME NEW p \in Procs, Settle(p) PROVE TypeOK'
  <2>1. pc' \in [Procs -> Phases]
    <3>1. PICK ph \in {"release", "spawn", "acquire"} : pc' = [pc EXCEPT ![p] = ph]
      BY <1>9 DEF Settle
    <3> QED
      BY <3>1 DEF TypeOK, Phases, Acquiring
  <2>2. outcome' \in [Procs -> Outcomes]
    <3>1. PICK o \in {"signal", "none", outcome[p]} : outcome' = [outcome EXCEPT ![p] = o]
      <4>1. outcome = [outcome EXCEPT ![p] = outcome[p]]
        BY DEF TypeOK
      <4> QED
        BY <1>9, <4>1 DEF Settle
    <3> QED
      BY <3>1 DEF TypeOK, Outcomes
  <2>3. want' \in [Procs -> SUBSET Locks]
    <3>1. want' = want \/ want' = [want EXCEPT ![p] = @ \ {First(@)}]
      BY <1>9 DEF Settle
    <3>2. CASE want' = want
      BY <3>2 DEF TypeOK
    <3>3. CASE want' = [want EXCEPT ![p] = @ \ {First(@)}]
      BY <3>3 DEF TypeOK
    <3> QED
      BY <3>1, <3>2, <3>3
  <2> QED
    BY <1>9, <2>1, <2>2, <2>3 DEF Settle, TypeOK
<1>10. ASSUME NEW p \in Procs, StartChild(p) PROVE TypeOK'
  <2>1. pc' \in [Procs -> Phases] /\ outcome' \in [Procs -> Outcomes]
    <3>1. PICK ph \in {"run", "release"}, o \in {"child", "notfound"} :
            pc' = [pc EXCEPT ![p] = ph] /\ outcome' = [outcome EXCEPT ![p] = o]
      BY <1>10 DEF StartChild
    <3> QED
      BY <3>1 DEF TypeOK, Phases, Outcomes
  <2>2. work' \in [Procs -> SUBSET {"child", "stray"}]
    <3>1. work' = work \/ work' = [work EXCEPT ![p] = {"child"}]
      BY <1>10 DEF StartChild
    <3>2. CASE work' = work
      BY <3>2 DEF TypeOK
    <3>3. CASE work' = [work EXCEPT ![p] = {"child"}]
      BY <3>3 DEF TypeOK
    <3> QED
      BY <3>1, <3>2, <3>3
  <2> QED
    BY <1>10, <2>1, <2>2 DEF StartChild, TypeOK
<1>11. ASSUME NEW p \in Procs, Reap(p) PROVE TypeOK'
  <2>1. work' \in [Procs -> SUBSET {"child", "stray"}]
    BY <1>11 DEF Reap, TypeOK
  <2>2. [pc EXCEPT ![p] = "release"] \in [Procs -> Phases]
    BY DEF TypeOK, Phases
  <2> QED
    BY <1>11, <2>1, <2>2, VanishType DEF Reap
<1>12. ASSUME NEW p \in Procs, Release(p) PROVE TypeOK'
  BY <1>12 DEF Release, TypeOK, Phases, Acquiring, Outcomes
<1>13. ASSUME NEW p \in Procs, Exit(p) PROVE TypeOK'
  BY <1>13, VanishType DEF Exit, TypeOK
<1>14. ASSUME NEW p \in Procs, Watch(p) PROVE TypeOK'
  BY <1>14 DEF Watch, TypeOK, Phases, Acquiring, Outcomes
<1>15. ASSUME NEW p \in Procs, Forward(p) PROVE TypeOK'
  BY <1>15 DEF Forward, TypeOK, Phases, Acquiring, Outcomes
<1>16. ASSUME NEW p \in Procs, Escalate(p) PROVE TypeOK'
  <2>1. work' \in [Procs -> SUBSET {"child", "stray"}]
    BY <1>16 DEF Escalate, TypeOK
  <2> QED
    BY <1>16, <2>1, VanishType DEF Escalate, TypeOK
<1>17. ASSUME NEW p \in Procs, WorkEnds(p) PROVE TypeOK'
  BY <1>17 DEF WorkEnds, TypeOK, Phases, Acquiring, Outcomes
<1>18. ASSUME NEW p \in Procs, WorkForks(p) PROVE TypeOK'
  BY <1>18 DEF WorkForks, TypeOK, Phases, Acquiring, Outcomes
<1>19. ASSUME NEW p \in Procs, Kill9(p) PROVE TypeOK'
  BY <1>19, VanishType DEF Kill9, TypeOK
<1>20. ASSUME NEW p \in Procs, NEW s \in Signals, SendSignal(p, s) PROVE TypeOK'
  BY <1>20 DEF SendSignal, Deliver, TypeOK
<1>21. CASE Tick
  BY <1>21 DEF Tick, TypeOK, NoMarker
<1>22. CASE UNCHANGED vars
  BY <1>22 DEF vars, TypeOK
<1> QED
  BY <1>1, <1>2, <1>3, <1>4, <1>5, <1>6, <1>7, <1>8, <1>9, <1>10, <1>11, <1>12, <1>13, <1>14, <1>15, <1>16, <1>17, <1>18, <1>19, <1>20, <1>21, <1>22,
     <1>23
  DEF Next, MainStep, SignalStep, Environment

\* The values every variable has, in every behaviour of every instance.
THEOREM TypeCorrect == Spec => []TypeOK
BY TypeInit, TypeStep, PTL DEF Spec

-----------------------------------------------------------------------------
(* The lock invariant *)

\* Every lock has a file, and its files are files.
LEMMA FilesOfLocks ==
    ASSUME NEW l \in Locks
    PROVE  FilesOf(l) \subseteq Files /\ Capacity(l) \in Nat \ {0}
BY ConstantsAssumption DEF Files, Capacity

\* A process that a step neither moves nor robs stays accounted for.
LEMMA AccountedKept ==
    ASSUME TypeOK, NEW q \in Procs, Accounted(q),
           pc'[q] = pc[q], job'[q] = job[q], want'[q] = want[q],
           scan'[q] = scan[q], outcome'[q] = outcome[q],
           \A f \in Files : flock[f] = q => flock'[f] = q
    PROVE  Accounted(q)'
<1>1. \A l \in Locks : Holds(q, l) => Holds(q, l)'
  BY FilesOfLocks DEF Holds
<1>2. want[q] # {} => First(want[q]) \in Locks
  BY FirstIn DEF TypeOK
<1> QED
  BY <1>1, <1>2 DEF Accounted, SemsOf, Acquiring

\* A process that vanishes is accounted for, and so are those it leaves.
LEMMA AccountedVanish ==
    ASSUME LockInv, NEW K \in SUBSET Procs, NEW phase \in [Procs -> Phases],
           Vanish(K, phase),
           \A q \in Procs : phase[q] \in {pc[q], "release"}
    PROVE  \A q \in Procs : Accounted(q)'
<1> SUFFICES ASSUME NEW q \in Procs PROVE Accounted(q)'
  OBVIOUS
<1>1. CASE q \in K \/ phase[q] = "release"
  <2>1. pc'[q] \in {"idle", "release"}
    BY <1>1 DEF Vanish
  <2> QED
    BY <2>1 DEF Accounted, Acquiring
<1>2. CASE q \notin K /\ phase[q] = pc[q]
  <2>1. /\ pc'[q] = pc[q] /\ job'[q] = job[q] /\ want'[q] = want[q]
        /\ scan'[q] = scan[q] /\ outcome'[q] = outcome[q]
    BY <1>2 DEF Vanish
  <2>2. \A f \in Files : flock[f] = q => flock'[f] = q
    BY <1>2 DEF Vanish
  <2> QED
    BY <2>1, <2>2, AccountedKept DEF LockInv
<1> QED
  BY <1>1, <1>2

\* The processes a step of p leaves alone stay accounted for: p takes no file
\* of theirs.
LEMMA OthersKept ==
    ASSUME LockInv, NEW p \in Procs,
           \A q \in Procs \ {p} :
              /\ pc'[q] = pc[q] /\ job'[q] = job[q] /\ want'[q] = want[q]
              /\ scan'[q] = scan[q] /\ outcome'[q] = outcome[q],
           \A f \in Files : flock[f] \notin {p, None} => flock'[f] = flock[f]
    PROVE  \A q \in Procs \ {p} : Accounted(q)'
BY AccountedKept, ConstantsAssumption DEF LockInv

\* Every action leaves every process accounted for: one step per action.
LEMMA LockStep == LockInv /\ [Next]_vars => \A q \in Procs : Accounted(q)'
<1> SUFFICES ASSUME LockInv, [Next]_vars PROVE \A q \in Procs : Accounted(q)'
  OBVIOUS
<1> USE ConstantsAssumption
<1> USE DEF LockInv
<1>1. ASSUME NEW p \in Procs, NEW r \in Requests, NEW s \in SlotNames,
             NEW parent \in Procs \cup {None}, Start(p, r, s, parent)
      PROVE  \A q \in Procs : Accounted(q)'
  <2>1. \A q \in Procs \ {p} : Accounted(q)'
    BY <1>1, OthersKept DEF Start, TypeOK
  <2>2. want'[p] = SemsOf(job'[p]) /\ pc'[p] = IF want'[p] = {} THEN "spawn" ELSE "acquire"
    BY <1>1 DEF Start, TypeOK
  <2>3. Accounted(p)'
    BY <2>2 DEF Accounted, Acquiring
  <2> QED
    BY <2>1, <2>3
<1>2. ASSUME NEW p \in Procs, BeginAcquire(p) PROVE \A q \in Procs : Accounted(q)'
  <2>1. \A q \in Procs \ {p} : Accounted(q)'
    BY <1>2, OthersKept DEF BeginAcquire, TypeOK
  <2>2. First(want[p]) \in Locks
    BY <1>2, FirstIn DEF Accounted, BeginAcquire, Acquiring, TypeOK
  <2>3. Accounted(p)'
    BY <1>2, <2>2, FilesOfLocks
    DEF BeginAcquire, Accounted, Acquiring, TypeOK, Holds
  <2> QED
    BY <2>1, <2>3
<1>23. ASSUME NEW p \in Procs, ReapMarkers(p) PROVE \A q \in Procs : Accounted(q)'
  <2>1. \A q \in Procs \ {p} : Accounted(q)'
    BY <1>23, OthersKept, ReapMoves DEF TypeOK
  <2>2. /\ pc[p] \in Reaping /\ pc'[p] \in Reaping \cup {"scan"}
        /\ UNCHANGED <<job, want, scan, outcome, flock>>
    BY <1>23, ReapMoves
  <2>3. Accounted(p)'
    BY <2>2 DEF Accounted, Acquiring, Reaping, Holds
  <2> QED
    BY <2>1, <2>3
<1>3. ASSUME NEW p \in Procs, TakeFile(p) PROVE \A q \in Procs : Accounted(q)'
  <2> DEFINE f == <<First(want[p]), scan[p]>>
  <2>1. \A q \in Procs \ {p} : Accounted(q)'
    BY <1>3, OthersKept DEF TakeFile, Return, TypeOK
  <2>2. First(want[p]) \in Locks /\ want[p] # {} /\ scan[p] \in 1 .. Capacity(First(want[p]))
    BY <1>3, FirstIn DEF Accounted, TakeFile, Acquiring, TypeOK
  <2>3. f \in FilesOf(First(want[p])) /\ f \in Files
    BY <2>2, FilesOfLocks DEF FilesOf
  <2>4. flock' = [flock EXCEPT ![f] = p]
    BY <1>3 DEF TakeFile
  <2>5. Holds(p, First(want[p]))'
    BY <1>3, <2>3, <2>4 DEF Holds, TypeOK, TakeFile
  <2>6. \A l \in Locks : Holds(p, l) => Holds(p, l)'
    BY <2>3, <2>4, FilesOfLocks DEF Holds, TypeOK
  <2>7. Accounted(p)'
    BY <1>3, <2>2, <2>5, <2>6
    DEF TakeFile, Return, Accounted, Acquiring, TypeOK, SemsOf
  <2> QED
    BY <2>1, <2>7
<1>4. ASSUME NEW p \in Procs, SkipFile(p) PROVE \A q \in Procs : Accounted(q)'
  <2>1. \A q \in Procs \ {p} : Accounted(q)'
    BY <1>4, OthersKept DEF SkipFile, TypeOK
  <2>2. First(want[p]) \in Locks
    BY <1>4, FirstIn DEF Accounted, SkipFile, Acquiring, TypeOK
  <2>3. Capacity(First(want[p])) \in Nat
    BY <2>2, FilesOfLocks
  <2>4. Accounted(p)'
    BY <1>4, <2>3 DEF SkipFile, Accounted, Acquiring, TypeOK, Holds
  <2> QED
    BY <2>1, <2>4
<1>5. ASSUME NEW p \in Procs, Enqueue(p) PROVE \A q \in Procs : Accounted(q)'
  <2>1. \A q \in Procs \ {p} : Accounted(q)'
    BY <1>5, OthersKept DEF Enqueue, TypeOK
  <2>2. Accounted(p)'
    BY <1>5 DEF Enqueue, Accounted, Acquiring, TypeOK, Holds
  <2> QED
    BY <2>1, <2>2
<1>6. ASSUME NEW p \in Procs, Poll(p) PROVE \A q \in Procs : Accounted(q)'
  <2>1. \A q \in Procs \ {p} : Accounted(q)'
    BY <1>6, OthersKept DEF Poll, TypeOK
  <2>2. Capacity(First(want[p])) \in Nat \ {0}
    BY <1>6, FirstIn, FilesOfLocks DEF Accounted, Poll, Acquiring, TypeOK
  <2>3. Accounted(p)'
    BY <1>6, <2>2 DEF Poll, Accounted, Acquiring, TypeOK, Holds
  <2> QED
    BY <2>1, <2>3
<1>7. ASSUME NEW p \in Procs, GiveUp(p) PROVE \A q \in Procs : Accounted(q)'
  <2>1. \A q \in Procs \ {p} : Accounted(q)'
    BY <1>7, OthersKept DEF GiveUp, Return, TypeOK
  <2>2. Accounted(p)'
    BY <1>7 DEF GiveUp, Return, Accounted, Acquiring, TypeOK, Holds
  <2> QED
    BY <2>1, <2>2
<1>8. ASSUME NEW p \in Procs, AcquireError(p) PROVE \A q \in Procs : Accounted(q)'
  <2>1. \A q \in Procs \ {p} : Accounted(q)'
    BY <1>8, OthersKept DEF AcquireError, Return, TypeOK
  <2>2. Accounted(p)'
    BY <1>8 DEF AcquireError, Return, Accounted, Acquiring, TypeOK, Holds
  <2> QED
    BY <2>1, <2>2
<1>9. ASSUME NEW p \in Procs, Settle(p) PROVE \A q \in Procs : Accounted(q)'
  <2>1. \A q \in Procs \ {p} : Accounted(q)'
    BY <1>9, OthersKept DEF Settle, TypeOK
  <2>2. First(want[p]) \in want[p]
    BY <1>9, FirstIn DEF Accounted, Settle, Acquiring
  <2>3. Accounted(p)'
    <3>1. CASE pc'[p] = "release"
      BY <3>1 DEF Accounted, Acquiring
    <3>2. CASE pc'[p] # "release"
      <4>1. /\ outcome[p] = "locked" /\ pc[p] = "settle"
            /\ pc'[p] = IF want[p] = {First(want[p])} THEN "spawn" ELSE "acquire"
            /\ want'[p] = want[p] \ {First(want[p])}
        BY <1>9, <3>2 DEF Settle, TypeOK
      <4>2. \A l : Holds(p, l)' <=> Holds(p, l)
        BY <1>9 DEF Settle, Holds
      <4>3. job'[p] = job[p]
        BY <1>9 DEF Settle
      <4> QED
        BY <2>2, <4>1, <4>2, <4>3 DEF Accounted, Acquiring
    <3> QED
      BY <3>1, <3>2
  <2> QED
    BY <2>1, <2>3
<1>10. ASSUME NEW p \in Procs, StartChild(p) PROVE \A q \in Procs : Accounted(q)'
  <2>1. \A q \in Procs \ {p} : Accounted(q)'
    BY <1>10, OthersKept DEF StartChild, TypeOK
  <2>2. Accounted(p)'
    BY <1>10 DEF StartChild, Accounted, Acquiring, TypeOK, Holds
  <2> QED
    BY <2>1, <2>2
<1>11. ASSUME NEW p \in Procs, Reap(p) PROVE \A q \in Procs : Accounted(q)'
  <2>1. [pc EXCEPT ![p] = "release"] \in [Procs -> Phases]
    BY DEF TypeOK, Phases
  <2>2. \A q \in Procs : [pc EXCEPT ![p] = "release"][q] \in {pc[q], "release"}
    BY DEF TypeOK
  <2>3. Nested(p) \in SUBSET Procs
    BY DEF Nested
  <2>4. Vanish(Nested(p), [pc EXCEPT ![p] = "release"])
    BY <1>11 DEF Reap
  <2> QED
    BY <2>1, <2>2, <2>3, <2>4, AccountedVanish
<1>12. ASSUME NEW p \in Procs, Release(p) PROVE \A q \in Procs : Accounted(q)'
  <2>1. \A q \in Procs \ {p} : Accounted(q)'
    BY <1>12, OthersKept DEF Release, Owned, TypeOK
  <2>2. Accounted(p)'
    BY <1>12 DEF Release, Accounted, Acquiring, TypeOK, Holds
  <2> QED
    BY <2>1, <2>2
<1>13. ASSUME NEW p \in Procs, Exit(p) PROVE \A q \in Procs : Accounted(q)'
  BY <1>13, AccountedVanish DEF Exit, TypeOK
<1>14. ASSUME NEW p \in Procs, Watch(p) PROVE \A q \in Procs : Accounted(q)'
  <2>1. \A q \in Procs \ {p} : Accounted(q)'
    BY <1>14, OthersKept DEF Watch, TypeOK
  <2>2. Accounted(p)'
    BY <1>14 DEF Watch, Accounted, Acquiring, TypeOK, Holds
  <2> QED
    BY <2>1, <2>2
<1>15. ASSUME NEW p \in Procs, Forward(p) PROVE \A q \in Procs : Accounted(q)'
  <2>1. \A q \in Procs \ {p} : Accounted(q)'
    BY <1>15, OthersKept DEF Forward, TypeOK
  <2>2. Accounted(p)'
    BY <1>15 DEF Forward, Accounted, Acquiring, TypeOK, Holds
  <2> QED
    BY <2>1, <2>2
<1>16. ASSUME NEW p \in Procs, Escalate(p) PROVE \A q \in Procs : Accounted(q)'
  BY <1>16, AccountedVanish DEF Escalate, Nested, TypeOK
<1>17. ASSUME NEW p \in Procs, WorkEnds(p) PROVE \A q \in Procs : Accounted(q)'
  <2>1. \A q \in Procs \ {p} : Accounted(q)'
    BY <1>17, OthersKept DEF WorkEnds, TypeOK
  <2>2. Accounted(p)'
    BY <1>17 DEF WorkEnds, Accounted, Acquiring, TypeOK, Holds
  <2> QED
    BY <2>1, <2>2
<1>18. ASSUME NEW p \in Procs, WorkForks(p) PROVE \A q \in Procs : Accounted(q)'
  <2>1. \A q \in Procs \ {p} : Accounted(q)'
    BY <1>18, OthersKept DEF WorkForks, TypeOK
  <2>2. Accounted(p)'
    BY <1>18 DEF WorkForks, Accounted, Acquiring, TypeOK, Holds
  <2> QED
    BY <2>1, <2>2
<1>19. ASSUME NEW p \in Procs, Kill9(p) PROVE \A q \in Procs : Accounted(q)'
  BY <1>19, AccountedVanish DEF Kill9, TypeOK
<1>20. ASSUME NEW p \in Procs, NEW s \in Signals, SendSignal(p, s)
       PROVE  \A q \in Procs : Accounted(q)'
  BY <1>20, AccountedKept DEF SendSignal
<1>21. CASE Tick
  BY <1>21, AccountedKept DEF Tick
<1>22. CASE UNCHANGED vars
  BY <1>22, AccountedKept DEF vars
<1> QED
  BY <1>1, <1>2, <1>3, <1>4, <1>5, <1>6, <1>7, <1>8, <1>9, <1>10, <1>11, <1>12,
     <1>13, <1>14, <1>15, <1>16, <1>17, <1>18, <1>19, <1>20, <1>21, <1>22, <1>23
  DEF Next, MainStep, SignalStep, Environment

-----------------------------------------------------------------------------
(* What follows from it *)

\* The lock invariant: every process holds what it uses and no longer wants.
THEOREM LockInvariant == Spec => []LockInv
<1>1. Init => LockInv
  <2>1. Init => \A p \in Procs : Accounted(p)
    BY DEF Init, Accounted, Acquiring
  <2> QED
    BY <2>1, TypeInit DEF LockInv
<1>2. LockInv /\ [Next]_vars => LockInv'
  BY TypeStep, LockStep DEF LockInv
<1> QED
  BY <1>1, <1>2, PTL DEF Spec

\* A process that runs wants nothing any more, so it holds what it uses.
LEMMA LockInvMeans == LockInv => RunsUnderItsLocks
BY DEF LockInv, Accounted, RunsUnderItsLocks, Uses

\* A command runs only while its fleet process holds every lock it asked for.
THEOREM JobsRunUnderTheirLocks == Spec => []RunsUnderItsLocks
BY LockInvariant, LockInvMeans, PTL

\* No more processes hold a file of a lock than the lock has files: they are
\* among the values of flock on 1 .. Capacity(l).
LEMMA HoldersBounded ==
    ASSUME NEW l \in Locks, NEW S, \A p \in S : Holds(p, l)
    PROVE  IsFiniteSet(S) /\ Cardinality(S) <= Capacity(l)
<1> DEFINE n == Capacity(l)
           H == {flock[<<l, i>>] : i \in 1 .. n}
<1>1. n \in Nat /\ IsFiniteSet(1 .. n) /\ Cardinality(1 .. n) = n
  BY FilesOfLocks, FS_Interval
<1>2. IsFiniteSet(H) /\ Cardinality(H) <= n
  <2> DEFINE g == [i \in 1 .. n |-> flock[<<l, i>>]]
  <2>1. g \in Surjection(1 .. n, H)
    BY DEF Surjection
  <2> QED
    BY <1>1, <2>1, FS_Surjection
<1>3. S \subseteq H
  BY DEF Holds, FilesOf
<1> QED
  BY <1>2, <1>3, FS_Subset, FS_CardinalityType, <1>1

\* "At most len(Paths) holders run at once": no lock has more running jobs than
\* files, however processes start, are signalled, time out or are killed.
THEOREM CapacityKept == Spec => []RunnersWithinCapacity
<1>1. RunsUnderItsLocks => RunnersWithinCapacity
  <2> SUFFICES ASSUME RunsUnderItsLocks, NEW l \in Locks
               PROVE  Cardinality({p \in Procs : pc[p] = "run" /\ Uses(p, l)})
                        <= Capacity(l)
    BY DEF RunnersWithinCapacity
  <2>1. \A p \in {q \in Procs : pc[q] = "run" /\ Uses(q, l)} : Holds(p, l)
    BY DEF RunsUnderItsLocks
  <2> QED
    BY <2>1, HoldersBounded
<1> QED
  BY <1>1, JobsRunUnderTheirLocks, PTL
-----------------------------------------------------------------------------
(* Hands: what a process has taken, and what it runs under *)

\* A process that a step neither moves nor gives a file stays orderly.
LEMMA OrderlyKept ==
    ASSUME NEW q, Orderly(q),
           pc'[q] = pc[q], job'[q] = job[q], want'[q] = want[q], outcome'[q] = outcome[q],
           \A f \in Files : flock'[f] = q => flock[f] = q
    PROVE  Orderly(q)'
BY DEF Orderly, Owned, Alive, Acquiring, SemsOf

\* The processes a step of p leaves alone stay orderly.
LEMMA OthersOrderly ==
    ASSUME HandInv, NEW p \in Procs,
           \A q \in Procs \ {p} :
              /\ pc'[q] = pc[q] /\ job'[q] = job[q]
              /\ want'[q] = want[q] /\ outcome'[q] = outcome[q],
           \A f \in Files : flock'[f] \in {p, None, flock[f]}
    PROVE  \A q \in Procs \ {p} : Orderly(q)'
BY OrderlyKept, ConstantsAssumption DEF HandInv

\* A process that vanishes leaves nothing in its hands, and the others keep theirs.
LEMMA OrderlyVanish ==
    ASSUME HandInv, NEW K \in SUBSET Procs, NEW phase \in [Procs -> Phases],
           Vanish(K, phase),
           \A q \in Procs : phase[q] \in {pc[q], "release"},
           \A q \in Procs : pc[q] = "idle" => phase[q] = "idle"
    PROVE  \A q \in Procs : Orderly(q)'
<1> SUFFICES ASSUME NEW q \in Procs PROVE Orderly(q)'
  OBVIOUS
<1>1. \A f \in Files : flock'[f] = q => flock[f] = q /\ q \notin K
  BY ConstantsAssumption DEF Vanish
<1>2. CASE q \in K
  <2>1. pc'[q] = "idle" /\ Owned(q)' = {}
    BY <1>1, <1>2 DEF Vanish, Owned
  <2> QED
    BY <2>1 DEF Orderly, Acquiring
<1>3. CASE q \notin K /\ phase[q] = pc[q]
  <2>1. /\ pc'[q] = pc[q] /\ job'[q] = job[q]
        /\ want'[q] = want[q] /\ outcome'[q] = outcome[q]
    BY <1>3 DEF Vanish
  <2> QED
    BY <1>1, <2>1, OrderlyKept DEF HandInv
<1>4. CASE q \notin K /\ phase[q] = "release" /\ Alive(q)
  <2>1. pc'[q] = "release" /\ job'[q] = job[q]
    BY <1>4 DEF Vanish
  <2>2. Owned(q)' \subseteq Owned(q)
    BY <1>1 DEF Owned
  <2>3. Orderly(q)
    BY DEF HandInv
  <2> QED
    BY <2>1, <2>2, <2>3 DEF Orderly, Acquiring, Alive, SemsOf
<1> QED
  BY <1>2, <1>3, <1>4 DEF Alive

\* Who inherited a slot stays so while processes go on, return and vanish.
LEMMA InheritedKept ==
    ASSUME TypeOK, \A q \in Procs : Inherited(q),
           \A q \in Procs : Alive(q)' => Alive(q) /\ job'[q] = job[q],
           \A q \in Procs : job'[q] \in {job[q], NoJob}
    PROVE  \A q \in Procs : Inherited(q)'
<1> SUFFICES ASSUME NEW q \in Procs, Alive(q)', job'[q].parent # None, ~job'[q].held
             PROVE  ~ChildHeld(job[q].parent)'
  BY DEF Inherited
<1> DEFINE r == job[q].parent
<1>1. job'[q] = job[q] /\ r \in Procs
  BY DEF TypeOK
<1>2. ~ChildHeld(r)
  BY <1>1 DEF Inherited
<1>3. ~job'[r].held /\ ~job'[r].heavy
  BY <1>1, <1>2 DEF ChildHeld, NoJob
<1> QED
  BY <1>1, <1>3 DEF ChildHeld

\* A step of p alone that moves it from one phase to another leaves the processes under
\* and over it as they are.
LEMMA InheritedMoved ==
    ASSUME HandInv, NEW p \in Procs, Alive(p), job' = job,
           \A q \in Procs \ {p} : pc'[q] = pc[q]
    PROVE  \A q \in Procs : Inherited(q)'
<1>1. \A q \in Procs : Alive(q)' => Alive(q) /\ job'[q] = job[q]
  BY DEF Alive
<1>2. \A q \in Procs : job'[q] \in {job[q], NoJob}
  OBVIOUS
<1> QED
  BY <1>1, <1>2, InheritedKept DEF HandInv, LockInv

\* Also when processes vanish.
LEMMA InheritedVanish ==
    ASSUME HandInv, NEW K \in SUBSET Procs, NEW phase \in [Procs -> Phases],
           Vanish(K, phase),
           \A q \in Procs : phase[q] \in {pc[q], "release"},
           \A q \in Procs : pc[q] = "idle" => phase[q] = "idle"
    PROVE  \A q \in Procs : Inherited(q)'
<1>1. \A q \in Procs : Alive(q)' => Alive(q) /\ job'[q] = job[q]
  BY DEF Vanish, Alive
<1>2. \A q \in Procs : job'[q] \in {job[q], NoJob}
  BY DEF Vanish
<1> QED
  BY <1>1, <1>2, InheritedKept DEF HandInv, LockInv

\* Every action leaves the hands of every process in order: one step per action.
LEMMA HandStep ==
    HandInv /\ [Next]_vars => \A q \in Procs : Orderly(q)' /\ Inherited(q)'
<1> SUFFICES ASSUME HandInv, [Next]_vars
             PROVE  \A q \in Procs : Orderly(q)' /\ Inherited(q)'
  OBVIOUS
<1> USE ConstantsAssumption
<1>0. TypeOK /\ LockInv /\ (\A q \in Procs : Orderly(q) /\ Accounted(q) /\ Inherited(q))
  BY DEF HandInv, LockInv
<1>1. ASSUME NEW p \in Procs, NEW r \in Requests, NEW s \in SlotNames,
             NEW parent \in Procs \cup {None}, Start(p, r, s, parent)
      PROVE  \A q \in Procs : Orderly(q)' /\ Inherited(q)'
  <2>1. \A q \in Procs \ {p} : Orderly(q)'
    BY <1>0, <1>1, OthersOrderly DEF Start, TypeOK
  <2>2. Owned(p)' = {} /\ want'[p] = SemsOf(job'[p])
    BY <1>0, <1>1 DEF Orderly, Start, FreePid, Owned, TypeOK
  <2>3. Orderly(p)'
    BY <2>2 DEF Orderly
  <2>4. Inherited(p)'
    BY <1>0, <1>1 DEF Inherited, Start, ChildHeld, TypeOK
  <2>5. ASSUME NEW q \in Procs \ {p} PROVE Inherited(q)'
    <3>1. job'[q] = job[q] /\ pc'[q] = pc[q]
      BY <1>0, <1>1 DEF Start, TypeOK
    <3>2. Alive(q) => job[q].parent # p
      BY <1>1 DEF Start, FreePid
    <3>3. Alive(q) => (ChildHeld(job[q].parent)' <=> ChildHeld(job[q].parent))
      BY <1>0, <1>1, <3>2 DEF Start, ChildHeld, TypeOK
    <3> QED
      BY <1>0, <3>1, <3>3 DEF Inherited, Alive
  <2> QED
    BY <2>1, <2>3, <2>4, <2>5
<1>2. ASSUME NEW p \in Procs, BeginAcquire(p) PROVE \A q \in Procs : Orderly(q)' /\ Inherited(q)'
  <2>1. \A q \in Procs \ {p} : Orderly(q)'
    BY <1>0, <1>2, OthersOrderly DEF BeginAcquire, TypeOK
  <2>2. Orderly(p)'
    BY <1>0, <1>2 DEF BeginAcquire, Orderly, Acquiring, TypeOK, Owned, Alive
  <2>3. \A q \in Procs : Inherited(q)'
    BY <1>0, <1>2, InheritedMoved DEF BeginAcquire, Alive, TypeOK
  <2> QED
    BY <2>1, <2>2, <2>3
<1>23. ASSUME NEW p \in Procs, ReapMarkers(p)
       PROVE  \A q \in Procs : Orderly(q)' /\ Inherited(q)'
  <2>1. \A q \in Procs \ {p} : Orderly(q)'
    BY <1>0, <1>23, OthersOrderly, ReapMoves DEF TypeOK
  <2>2. /\ pc[p] \in Reaping /\ pc'[p] \in Reaping \cup {"scan"}
        /\ UNCHANGED <<job, want, outcome, flock>>
    BY <1>0, <1>23, ReapMoves
  <2>3. Orderly(p)'
    BY <1>0, <2>2 DEF Orderly, Acquiring, Reaping, Owned, Alive
  <2>4. \A q \in Procs \ {p} : pc'[q] = pc[q]
    BY <1>0, <1>23, ReapMoves
  <2>5. Alive(p)
    BY <2>2 DEF Reaping, Alive
  <2>6. \A q \in Procs : Inherited(q)'
    BY <2>2, <2>4, <2>5, InheritedMoved
  <2> QED
    BY <2>1, <2>3, <2>6
<1>3. ASSUME NEW p \in Procs, TakeFile(p) PROVE \A q \in Procs : Orderly(q)' /\ Inherited(q)'
  <2> DEFINE l == First(want[p])
             f == <<l, scan[p]>>
  <2>1. \A q \in Procs \ {p} : Orderly(q)'
    BY <1>0, <1>3, OthersOrderly DEF TakeFile, Return, TypeOK
  <2>2. l \in want[p] /\ l \in Locks
    BY <1>0, <1>3, FirstIn DEF Accounted, TakeFile, Acquiring, TypeOK
  <2>3. "heavy" \in want[p] => l = "heavy"
    BY <2>2 DEF First
  <2>4. Owned(p)' \subseteq Owned(p) \cup {f}
    BY <1>0, <1>3 DEF TakeFile, Owned, TypeOK
  <2>5. /\ pc[p] = "scan" /\ pc'[p] = "settle" /\ outcome'[p] = "locked"
        /\ want' = want /\ job' = job
    BY <1>0, <1>3 DEF TakeFile, Return, TypeOK
  <2>6. want[p] \subseteq SemsOf(job[p])
    BY <1>0, <2>5 DEF Orderly, Acquiring
  <2>7. \A g \in Owned(p) :
          /\ g[1] \in SemsOf(job[p]) /\ g[1] \notin want[p]
          /\ ("heavy" \in want[p] => g[1] = "heavy")
          /\ \A h \in Owned(p) : g[1] = h[1] => g = h
    BY <1>0, <2>5 DEF Orderly, Acquiring
  <2>8. f[1] = l
    OBVIOUS
  <2>9. Orderly(p)'
    <3>1. \A g \in Owned(p)' : g \in Owned(p) \/ g = f
      BY <2>4
    <3>2. l \in SemsOf(job[p])
      BY <2>2, <2>6
    <3> HIDE DEF f, l
    <3>3. \A g \in Owned(p)' : g[1] \in SemsOf(job[p])
      BY <3>1, <3>2, <2>7, <2>8
    <3>4. \A g \in Owned(p)' : g[1] \in want[p] => g[1] = l
      BY <3>1, <2>7, <2>8
    <3>5. \A g \in Owned(p)' : "heavy" \in want[p] => g[1] = "heavy"
      BY <3>1, <2>3, <2>7, <2>8
    <3>6. \A g, h \in Owned(p)' : g[1] = h[1] => g = h
      BY <3>1, <2>2, <2>7, <2>8
    <3> USE DEF l
    <3>7. pc'[p] = "settle" /\ outcome'[p] = "locked" /\ First(want'[p]) = l /\ want'[p] = want[p]
      BY <2>5
    <3>8. job'[p] = job[p]
      BY <2>5
    <3> QED
      BY <2>6, <3>3, <3>4, <3>5, <3>6, <3>7, <3>8 DEF Orderly, Alive
  <2>10. \A q \in Procs : Inherited(q)'
    BY <1>0, <1>3, InheritedMoved DEF TakeFile, Return, Alive, TypeOK
  <2> QED
    BY <2>1, <2>9, <2>10
<1>4. ASSUME NEW p \in Procs, SkipFile(p) PROVE \A q \in Procs : Orderly(q)' /\ Inherited(q)'
  <2>1. \A q \in Procs \ {p} : Orderly(q)'
    BY <1>0, <1>4, OthersOrderly DEF SkipFile, TypeOK
  <2>2. Orderly(p)'
    BY <1>0, <1>4 DEF SkipFile, Orderly, Acquiring, TypeOK, Owned, Alive
  <2>3. \A q \in Procs : Inherited(q)'
    BY <1>0, <1>4, InheritedMoved DEF SkipFile, Alive, TypeOK
  <2> QED
    BY <2>1, <2>2, <2>3
<1>5. ASSUME NEW p \in Procs, Enqueue(p) PROVE \A q \in Procs : Orderly(q)' /\ Inherited(q)'
  <2>1. \A q \in Procs \ {p} : Orderly(q)'
    BY <1>0, <1>5, OthersOrderly DEF Enqueue, TypeOK
  <2>2. Orderly(p)'
    BY <1>0, <1>5 DEF Enqueue, Orderly, Acquiring, TypeOK, Owned, Alive
  <2>3. \A q \in Procs : Inherited(q)'
    BY <1>0, <1>5, InheritedMoved DEF Enqueue, Alive, TypeOK
  <2> QED
    BY <2>1, <2>2, <2>3
<1>6. ASSUME NEW p \in Procs, Poll(p) PROVE \A q \in Procs : Orderly(q)' /\ Inherited(q)'
  <2>1. \A q \in Procs \ {p} : Orderly(q)'
    BY <1>0, <1>6, OthersOrderly DEF Poll, TypeOK
  <2>2. Orderly(p)'
    BY <1>0, <1>6 DEF Poll, Orderly, Acquiring, TypeOK, Owned, Alive
  <2>3. \A q \in Procs : Inherited(q)'
    BY <1>0, <1>6, InheritedMoved DEF Poll, Alive, TypeOK
  <2> QED
    BY <2>1, <2>2, <2>3
<1>7. ASSUME NEW p \in Procs, GiveUp(p) \/ AcquireError(p)
      PROVE  \A q \in Procs : Orderly(q)' /\ Inherited(q)'
  <2>0. /\ pc[p] \in Acquiring \ {"settle"} /\ pc' = [pc EXCEPT ![p] = "settle"]
        /\ outcome' = [outcome EXCEPT ![p] = outcome'[p]]
        /\ want' = want /\ job' = job /\ flock' = flock
    BY <1>0, <1>7 DEF GiveUp, AcquireError, Return, Acquiring, TypeOK
  <2>1. \A q \in Procs \ {p} : Orderly(q)'
    BY <1>0, <2>0, OthersOrderly DEF TypeOK
  <2>2. Orderly(p)'
    BY <1>0, <2>0 DEF Orderly, Acquiring, TypeOK, Owned, Alive
  <2>3. \A q \in Procs : Inherited(q)'
    BY <1>0, <2>0, InheritedMoved DEF Acquiring, Alive, TypeOK
  <2> QED
    BY <2>1, <2>2, <2>3
<1>8. ASSUME NEW p \in Procs, Settle(p) PROVE \A q \in Procs : Orderly(q)' /\ Inherited(q)'
  <2>0. pc[p] = "settle" /\ job' = job /\ flock' = flock
    BY <1>8 DEF Settle
  <2>1. \A q \in Procs \ {p} : Orderly(q)'
    BY <1>0, <1>8, OthersOrderly DEF Settle, TypeOK
  <2>2. Orderly(p)'
    <3>1. CASE pc'[p] = "release"
      BY <1>0, <2>0, <3>1 DEF Orderly, Acquiring, Owned, Alive
    <3>2. CASE pc'[p] # "release"
      <4>1. /\ outcome[p] = "locked" /\ pc'[p] \in {"spawn", "acquire"}
            /\ want'[p] = want[p] \ {First(want[p])}
        BY <1>0, <1>8, <3>2 DEF Settle, TypeOK
      <4>2. \A f \in Owned(p) : f[1] \notin want'[p]
        BY <1>0, <2>0, <4>1 DEF Orderly, Acquiring
      <4> QED
        BY <1>0, <2>0, <4>1, <4>2 DEF Orderly, Acquiring, Owned, Alive
    <3> QED
      BY <3>1, <3>2
  <2>3. \A q \in Procs : Inherited(q)'
    BY <1>0, <1>8, InheritedMoved DEF Settle, Alive, TypeOK
  <2> QED
    BY <2>1, <2>2, <2>3
<1>9. ASSUME NEW p \in Procs, StartChild(p) PROVE \A q \in Procs : Orderly(q)' /\ Inherited(q)'
  <2>1. \A q \in Procs \ {p} : Orderly(q)'
    BY <1>0, <1>9, OthersOrderly DEF StartChild, TypeOK
  <2>2. Orderly(p)'
    BY <1>0, <1>9 DEF StartChild, Orderly, Acquiring, TypeOK, Owned, Alive
  <2>3. \A q \in Procs : Inherited(q)'
    BY <1>0, <1>9, InheritedMoved DEF StartChild, Alive, TypeOK
  <2> QED
    BY <2>1, <2>2, <2>3
<1>10. ASSUME NEW p \in Procs, Reap(p) PROVE \A q \in Procs : Orderly(q)' /\ Inherited(q)'
  <2>1. [pc EXCEPT ![p] = "release"] \in [Procs -> Phases]
    BY <1>0 DEF TypeOK, Phases
  <2>2. \A q \in Procs : /\ [pc EXCEPT ![p] = "release"][q] \in {pc[q], "release"}
                         /\ pc[q] = "idle" => [pc EXCEPT ![p] = "release"][q] = "idle"
    BY <1>0, <1>10 DEF Reap, TypeOK
  <2>3. Nested(p) \in SUBSET Procs /\ Vanish(Nested(p), [pc EXCEPT ![p] = "release"])
    BY <1>10 DEF Reap, Nested
  <2>4. \A q \in Procs : Orderly(q)'
    BY <2>1, <2>2, <2>3, OrderlyVanish
  <2>5. \A q \in Procs : Inherited(q)'
    BY <2>1, <2>2, <2>3, InheritedVanish
  <2> QED
    BY <2>4, <2>5
<1>11. ASSUME NEW p \in Procs, Release(p) PROVE \A q \in Procs : Orderly(q)' /\ Inherited(q)'
  <2>0. pc[p] = "release" /\ \A f \in Files : flock'[f] \in {None, flock[f]}
    BY <1>0, <1>11 DEF Release, Owned, TypeOK
  <2>1. \A q \in Procs \ {p} : Orderly(q)'
    BY <1>0, <1>11, <2>0, OthersOrderly DEF Release
  <2>2. Orderly(p)'
    BY <1>0, <1>11, <2>0, OrderlyKept DEF Release
  <2>3. \A q \in Procs : Inherited(q)'
    BY <1>0, <1>11, InheritedMoved DEF Release, Alive
  <2> QED
    BY <2>1, <2>2, <2>3
<1>12. ASSUME NEW p \in Procs, Exit(p) \/ Kill9(p)
       PROVE  \A q \in Procs : Orderly(q)' /\ Inherited(q)'
  <2>1. Vanish({p}, pc) /\ pc \in [Procs -> Phases]
    BY <1>0, <1>12 DEF Exit, Kill9, TypeOK
  <2>2. \A q \in Procs : Orderly(q)'
    BY <2>1, OrderlyVanish
  <2>3. \A q \in Procs : Inherited(q)'
    BY <2>1, InheritedVanish
  <2> QED
    BY <2>2, <2>3
<1>13. ASSUME NEW p \in Procs, Escalate(p) PROVE \A q \in Procs : Orderly(q)' /\ Inherited(q)'
  <2>1. Nested(p) \in SUBSET Procs /\ Vanish(Nested(p), pc) /\ pc \in [Procs -> Phases]
    BY <1>0, <1>13 DEF Escalate, Nested, TypeOK
  <2>2. \A q \in Procs : Orderly(q)'
    BY <2>1, OrderlyVanish
  <2>3. \A q \in Procs : Inherited(q)'
    BY <2>1, InheritedVanish
  <2> QED
    BY <2>2, <2>3
<1>14. ASSUME UNCHANGED <<pc, job, want, outcome, flock>>
       PROVE  \A q \in Procs : Orderly(q)' /\ Inherited(q)'
  <2>1. \A q \in Procs : Orderly(q)'
    BY <1>0, <1>14, OrderlyKept
  <2>2. \A q \in Procs : Inherited(q)'
    BY <1>0, <1>14 DEF Inherited, Alive, ChildHeld
  <2> QED
    BY <2>1, <2>2
<1>15. ASSUME NEW p \in Procs,
              \/ Watch(p) \/ Forward(p) \/ WorkEnds(p) \/ WorkForks(p)
              \/ \E s \in Signals : SendSignal(p, s)
       PROVE  UNCHANGED <<pc, job, want, outcome, flock>>
  BY <1>15 DEF Watch, Forward, WorkEnds, WorkForks, SendSignal
<1>16. ASSUME Tick \/ UNCHANGED vars PROVE UNCHANGED <<pc, job, want, outcome, flock>>
  BY <1>16 DEF Tick, vars
<1> QED
  BY <1>1, <1>2, <1>3, <1>4, <1>5, <1>6, <1>7, <1>8, <1>9, <1>10, <1>11, <1>12, <1>13,
     <1>14, <1>15, <1>16, <1>23
  DEF Next, MainStep, SignalStep, Environment

\* The invariant of the hands, of every process at every moment.
THEOREM HandInvariant == Spec => []HandInv
<1>1. Init => HandInv
  <2>1. Init => LockInv
    BY TypeInit DEF Init, LockInv, Accounted, Acquiring
  <2>2. Init => \A p \in Procs : Orderly(p) /\ Inherited(p)
    BY ConstantsAssumption DEF Init, Orderly, Inherited, Alive, Acquiring, Owned
  <2> QED
    BY <2>1, <2>2 DEF HandInv
<1>2. HandInv /\ [Next]_vars => HandInv'
  BY TypeStep, LockStep, HandStep DEF HandInv, LockInv
<1> QED
  BY <1>1, <1>2, PTL DEF Spec

\* No fleet process waits for a slot while a process it runs under holds one.
THEOREM NoWaitForOwnAncestor == Spec => []NoWaitForOwnSlot
<1>1. HandInv => NoWaitForOwnSlot
  <2> SUFFICES ASSUME HandInv, NEW p \in Procs, pc[p] \in Acquiring,
                      First(want[p]) = "heavy", NEW q \in Ancestors(p)
               PROVE  ~Holds(q, "heavy")
    BY DEF NoWaitForOwnSlot
  <2> DEFINE S == {r \in Procs : ~ChildHeld(r)}
  <2>1. TypeOK /\ \A r \in Procs : Accounted(r) /\ Orderly(r) /\ Inherited(r)
    BY DEF HandInv, LockInv
  <2>2. "heavy" \in SemsOf(job[p])
    BY <2>1, FirstIn DEF Accounted, Orderly
  <2>7. \A r \in Procs : job[r].name # "heavy"
    BY <2>1, ConstantsAssumption DEF TypeOK
  <2>3. ~job[p].held
    BY <2>2, <2>7 DEF SemsOf
  <2>4. \A r \in S \cup {p} : Alive(r) => job[r].parent \in S \cup {None}
    BY <2>1, <2>3 DEF Inherited, ChildHeld, TypeOK
  <2>5. q \in Procs /\ q \in S
    BY <2>4 DEF Ancestors
  <2>6. "heavy" \notin SemsOf(job[q])
    BY <2>5, <2>7 DEF ChildHeld, SemsOf
  <2> QED
    BY <2>1, <2>5, <2>6, FilesOfLocks DEF Holds, Orderly, Owned, FilesOf, Locks
<1> QED
  BY <1>1, HandInvariant, PTL

-----------------------------------------------------------------------------
(* The lock service *)

\* Steps that neither begin nor end an Acquire and touch no lock file are no steps of
\* the service.
LEMMA NotSeen ==
    ASSUME flock' = flock, \A q \in Procs : Asking'[q] = Asking[q]
    PROVE  UNCHANGED Locking!vars
<1>1. Asking' = Asking
  BY DEF Asking, Acquiring
<1>2. Holders' = Holders
  BY DEF Holders, Holds
<1> QED
  BY <1>1, <1>2 DEF Locking!vars

\* Processes that vanish end for the service.
LEMMA VanishEnds ==
    ASSUME TypeOK, NEW K \in SUBSET Procs, NEW phase \in [Procs -> Phases],
           Vanish(K, phase),
           \A q \in Procs : phase[q] # pc[q] => phase[q] = "release" /\ pc[q] = "run"
    PROVE  Locking!Next
<1>1. Asking' = [q \in Procs |-> IF q \in K THEN None ELSE Asking[q]]
  BY DEF Asking, Acquiring, Vanish
<1>2. ASSUME NEW l \in Locks PROVE Holders'[l] = Holders[l] \ K
  <2>1. \A f \in FilesOf(l), q \in Procs : flock'[f] = q <=> flock[f] = q /\ q \notin K
    BY FilesOfLocks, ConstantsAssumption DEF Vanish
  <2> QED
    BY <2>1 DEF Holders, Holds
<1>3. Holders' = [l \in Locks |-> Holders[l] \ K]
  BY <1>2 DEF Holders
<1>4. Locking!End(K)
  BY <1>1, <1>3 DEF Locking!End
<1> QED
  BY <1>4 DEF Locking!Next

\* A file that is free has no holder, so the lock has a permit left.
LEMMA FreeFile ==
    ASSUME TypeOK, NEW l \in Locks, NEW i \in 1 .. Capacity(l), flock[<<l, i>>] = None
    PROVE  Cardinality(Holders[l]) < Capacity(l)
<1> DEFINE n == Capacity(l)
           D == (1 .. n) \ {i}
           H == {flock[<<l, j>>] : j \in D}
           g == [j \in D |-> flock[<<l, j>>]]
<1>1. n \in Nat /\ IsFiniteSet(1 .. n) /\ Cardinality(1 .. n) = n
  BY FilesOfLocks, FS_Interval
<1>2. IsFiniteSet(D) /\ Cardinality(D) = n - 1
  BY <1>1, FS_RemoveElement
<1>3. g \in Surjection(D, H)
  BY DEF Surjection
<1>4. IsFiniteSet(H) /\ Cardinality(H) <= n - 1
  BY <1>2, <1>3, FS_Surjection
<1>5. Holders[l] \subseteq H
  BY ConstantsAssumption DEF Holders, Holds, FilesOf
<1>6. Cardinality(Holders[l]) <= Cardinality(H) /\ Cardinality(Holders[l]) \in Nat
  BY <1>4, <1>5, FS_Subset, FS_CardinalityType
<1>7. Cardinality(H) \in Nat
  BY <1>4, FS_CardinalityType
<1> QED
  BY <1>1, <1>4, <1>6, <1>7

\* The return of an Acquire that took no file gives up for the service, or has not
\* asked yet.
LEMMA ReturnGivesUp ==
    ASSUME TypeOK, NEW p \in Procs, pc' = [pc EXCEPT ![p] = "settle"],
           pc[p] \in Acquiring \ {"settle"}, want' = want, flock' = flock
    PROVE  [Locking!Next]_Locking!vars
<1>1. \A q \in Procs \ {p} : Asking'[q] = Asking[q]
  BY DEF Asking, Acquiring, TypeOK
<1>2. Asking'[p] = None
  BY DEF Asking, Acquiring, TypeOK
<1>3. Holders' = Holders
  BY DEF Holders, Holds
<1>4. CASE Asking[p] = None
  BY <1>1, <1>2, <1>4, NotSeen
<1>5. CASE Asking[p] # None
  <2>1. Asking' = [Asking EXCEPT ![p] = None]
    BY <1>1, <1>2 DEF Asking, Acquiring
  <2>2. Locking!GiveUp(p)
    BY <1>3, <1>5, <2>1 DEF Locking!GiveUp
  <2> QED
    BY <2>2 DEF Locking!Next
<1> QED
  BY <1>4, <1>5

\* Every step is a step of the lock service or invisible to it: one step per action.
LEMMA ServiceStep == HandInv /\ [Next]_vars => [Locking!Next]_Locking!vars
<1> SUFFICES ASSUME HandInv, [Next]_vars PROVE [Locking!Next]_Locking!vars
  OBVIOUS
<1>0. TypeOK /\ \A q \in Procs : Orderly(q) /\ Accounted(q)
  BY DEF HandInv, LockInv
<1>1. ASSUME NEW p \in Procs, BeginAcquire(p) PROVE [Locking!Next]_Locking!vars
  <2> DEFINE l == First(want[p])
  <2>1. l \in want[p] /\ l \in Locks
    BY <1>0, <1>1, FirstIn DEF Accounted, BeginAcquire, Acquiring, TypeOK
  <2>2. Asking[p] = None
    BY <1>1 DEF BeginAcquire, Asking, Acquiring
  <2>3. Asking' = [Asking EXCEPT ![p] = l]
    BY <1>0, <1>1 DEF BeginAcquire, Asking, Acquiring, TypeOK
  <2>4. Holders' = Holders
    BY <1>1 DEF BeginAcquire, Holders, Holds
  <2>5. \A f \in Owned(p) : f[1] \notin want[p] /\ ("heavy" \in want[p] => f[1] = "heavy")
    BY <1>0, <1>1 DEF BeginAcquire, Orderly, Acquiring
  <2>6. \A k \in Locks : p \in Holders[k] => \E f \in Owned(p) : f[1] = k
    BY FilesOfLocks DEF Holders, Holds, Owned, FilesOf
  <2>7. p \notin Holders[l] /\ (l = "heavy" => \A k \in Locks : p \notin Holders[k])
    BY <2>1, <2>5, <2>6
  <2>8. Locking!Ask(p, l)
    BY <2>2, <2>3, <2>4, <2>7 DEF Locking!Ask, Locking!Free
  <2> QED
    BY <2>1, <2>8 DEF Locking!Next
<1>2. ASSUME NEW p \in Procs, TakeFile(p) PROVE [Locking!Next]_Locking!vars
  <2> DEFINE l == First(want[p])
             f == <<l, scan[p]>>
  <2>1. l \in Locks /\ scan[p] \in 1 .. Capacity(l) /\ flock[f] = None
    BY <1>0, <1>2, FirstIn DEF Accounted, TakeFile, Acquiring, TypeOK
  <2>2. Asking[p] = l
    BY <1>2 DEF TakeFile, Asking, Acquiring
  <2>3. Asking' = [Asking EXCEPT ![p] = None]
    BY <1>0, <1>2 DEF TakeFile, Return, Asking, Acquiring, TypeOK
  <2>4. f \in FilesOf(l) /\ f \in Files
    BY <2>1, FilesOfLocks DEF FilesOf
  <2>5. flock' = [flock EXCEPT ![f] = p] /\ flock \in [Files -> Procs \cup {None}]
    BY <1>0, <1>2 DEF TakeFile, TypeOK
  <2>6. \A k \in Locks, q \in Procs : Holds(q, k)' <=> Holds(q, k) \/ (k = l /\ q = p)
    <3>1. \A k \in Locks : f \in FilesOf(k) <=> k = l
      BY <2>4 DEF FilesOf
    <3>2. \A g \in Files : flock'[g] = IF g = f THEN p ELSE flock[g]
      BY <2>5
    <3> HIDE DEF f, l
    <3> QED
      BY <2>1, <2>4, <3>1, <3>2, FilesOfLocks, ConstantsAssumption DEF Holds
  <2>7. Holders' = [Holders EXCEPT ![l] = @ \cup {p}]
    <3>1. \A k \in Locks : Holders'[k] = IF k = l THEN Holders[k] \cup {p} ELSE Holders[k]
      BY <2>6 DEF Holders
    <3> QED
      BY <2>1, <3>1 DEF Holders
  <2>8. Cardinality(Holders[l]) < Capacity(l)
    BY <1>0, <2>1, FreeFile
  <2>9. Locking!Cardinality(Holders[l]) = Cardinality(Holders[l])
    BY DEF Locking!Cardinality, Cardinality
  <2>10. Locking!Grant(p, l)
    BY <2>2, <2>3, <2>7, <2>8, <2>9 DEF Locking!Grant
  <2> QED
    BY <2>1, <2>10 DEF Locking!Next
<1>3. ASSUME NEW p \in Procs, GiveUp(p) \/ AcquireError(p)
      PROVE  [Locking!Next]_Locking!vars
  <2>1. /\ pc' = [pc EXCEPT ![p] = "settle"] /\ pc[p] \in Acquiring \ {"settle"}
        /\ want' = want /\ flock' = flock
    BY <1>3 DEF GiveUp, AcquireError, Return, Acquiring
  <2> QED
    BY <1>0, <2>1, ReturnGivesUp
<1>4. ASSUME NEW p \in Procs, Release(p) PROVE [Locking!Next]_Locking!vars
  <2>1. PICK f \in Owned(p) : flock' = [flock EXCEPT ![f] = None]
    BY <1>4 DEF Release
  <2> DEFINE l == f[1]
  <2>2. pc[p] = "release" /\ pc' = pc /\ want' = want
    BY <1>4 DEF Release
  <2>3. f \in Files /\ l \in Locks /\ f \in FilesOf(l) /\ flock[f] = p
    BY DEF Owned, Files, FilesOf
  <2>4. Asking' = Asking /\ Asking[p] = None
    BY <2>2 DEF Asking, Acquiring
  <2>5. p \in Holders[l]
    BY <2>3 DEF Holders, Holds
  <2>6. \A k \in Locks, q \in Procs : Holds(q, k)' <=> Holds(q, k) /\ ~(k = l /\ q = p)
    <3>1. \A g \in Files : flock'[g] = IF g = f THEN None ELSE flock[g]
      BY <1>0, <2>1 DEF TypeOK
    <3>2. \A g \in Files : flock[g] = p /\ g[1] = l => g = f
      BY <1>0, <2>3 DEF Orderly, Owned
    <3>3. \A k \in Locks : \A g \in FilesOf(k) : g \in Files /\ g[1] = k
      BY FilesOfLocks DEF FilesOf
    <3> HIDE DEF l
    <3> QED
      BY <2>3, <3>1, <3>2, <3>3, ConstantsAssumption DEF Holds
  <2>7. Holders' = [Holders EXCEPT ![l] = @ \ {p}]
    <3>1. \A k \in Locks : Holders'[k] = IF k = l THEN Holders[k] \ {p} ELSE Holders[k]
      BY <2>6 DEF Holders
    <3> QED
      BY <2>3, <3>1 DEF Holders
  <2>8. Locking!Drop(p, l)
    BY <2>4, <2>5, <2>7 DEF Locking!Drop
  <2> QED
    BY <2>3, <2>8 DEF Locking!Next
<1>5. ASSUME NEW p \in Procs, Exit(p) \/ Kill9(p) PROVE [Locking!Next]_Locking!vars
  <2>1. Vanish({p}, pc) /\ pc \in [Procs -> Phases]
    BY <1>0, <1>5 DEF Exit, Kill9, TypeOK
  <2> QED
    BY <1>0, <2>1, VanishEnds
<1>6. ASSUME NEW p \in Procs, Escalate(p) PROVE [Locking!Next]_Locking!vars
  <2>1. Nested(p) \in SUBSET Procs /\ Vanish(Nested(p), pc) /\ pc \in [Procs -> Phases]
    BY <1>0, <1>6 DEF Escalate, Nested, TypeOK
  <2> QED
    BY <1>0, <2>1, VanishEnds
<1>7. ASSUME NEW p \in Procs, Reap(p) PROVE [Locking!Next]_Locking!vars
  <2> DEFINE phase == [pc EXCEPT ![p] = "release"]
  <2>1. phase \in [Procs -> Phases]
    BY <1>0 DEF TypeOK, Phases
  <2>2. \A q \in Procs : phase[q] # pc[q] => phase[q] = "release" /\ pc[q] = "run"
    BY <1>0, <1>7 DEF Reap, TypeOK
  <2>3. Nested(p) \in SUBSET Procs /\ Vanish(Nested(p), phase)
    BY <1>7 DEF Reap, Nested
  <2> HIDE DEF phase
  <2> QED
    BY <1>0, <2>1, <2>2, <2>3, VanishEnds
<1>8. ASSUME NEW p \in Procs, NEW r \in Requests, NEW s \in SlotNames,
             NEW parent \in Procs \cup {None}, Start(p, r, s, parent)
      PROVE  UNCHANGED Locking!vars
  BY <1>0, <1>8, NotSeen DEF Start, FreePid, Alive, Asking, Acquiring, TypeOK
<1>16. ASSUME NEW p \in Procs, ReapMarkers(p) PROVE UNCHANGED Locking!vars
  <2>1. \A q \in Procs : Asking'[q] = Asking[q]
    BY <1>0, <1>16, ReapMoves DEF Asking, Acquiring, Reaping, TypeOK
  <2> QED
    BY <1>0, <1>16, <2>1, ReapMoves, NotSeen
<1>9. ASSUME NEW p \in Procs, SkipFile(p) PROVE UNCHANGED Locking!vars
  BY <1>0, <1>9, NotSeen DEF SkipFile, Asking, Acquiring, TypeOK
<1>10. ASSUME NEW p \in Procs, Enqueue(p) PROVE UNCHANGED Locking!vars
  BY <1>0, <1>10, NotSeen DEF Enqueue, Asking, Acquiring, TypeOK
<1>11. ASSUME NEW p \in Procs, Poll(p) PROVE UNCHANGED Locking!vars
  BY <1>0, <1>11, NotSeen DEF Poll, Asking, Acquiring, TypeOK
<1>12. ASSUME NEW p \in Procs, Settle(p) PROVE UNCHANGED Locking!vars
  BY <1>0, <1>12, NotSeen DEF Settle, Asking, Acquiring, TypeOK
<1>13. ASSUME NEW p \in Procs, StartChild(p) PROVE UNCHANGED Locking!vars
  BY <1>0, <1>13, NotSeen DEF StartChild, Asking, Acquiring, TypeOK
<1>14. ASSUME NEW p \in Procs,
              \/ Watch(p) \/ Forward(p) \/ WorkEnds(p) \/ WorkForks(p)
              \/ \E s \in Signals : SendSignal(p, s)
       PROVE  UNCHANGED Locking!vars
  BY <1>14, NotSeen DEF Watch, Forward, WorkEnds, WorkForks, SendSignal, Asking, Acquiring
<1>15. ASSUME Tick \/ UNCHANGED vars PROVE UNCHANGED Locking!vars
  BY <1>15, NotSeen DEF Tick, vars, Asking, Acquiring
<1> QED
  BY <1>1, <1>2, <1>3, <1>4, <1>5, <1>6, <1>7, <1>8, <1>9, <1>10, <1>11, <1>12, <1>13,
     <1>14, <1>15, <1>16
  DEF Next, MainStep, SignalStep, Environment

\* Acquire, release, exit and kill -9 implement the lock service: whoever asks is
\* granted a permit only while one is left, asks for the slot with empty hands, and
\* loses everything with its end.
THEOREM ServiceImplemented == Spec => ImplementsLockService
<1>1. Init => Locking!Init
  BY ConstantsAssumption DEF Init, Locking!Init, Asking, Acquiring, Holders, Holds, Files
<1> QED
  BY <1>1, ServiceStep, HandInvariant, PTL
  DEF Spec, ImplementsLockService, Locking!Spec

-----------------------------------------------------------------------------
(* Markers *)

\* A process that neither moves nor loses its live marker stays visible.
LEMMA VisibleKept ==
    ASSUME TypeOK, NEW q \in Procs, Visible(q),
           pc'[q] = pc[q], job'[q] = job[q], marked'[q] = marked[q], timer'[q] = timer[q],
           raced'[q] = raced[q],
           marked[q] /\ timer[q] > 0 /\ ~raced[q] =>
             \A s \in SlotNames : s = job[q].slot => marker'[s][q] = marker[s][q]
    PROVE  Visible(q)'
BY DEF Visible, Alive

\* A process that is not inside Acquire has no marker to account for.
LEMMA VisibleOutside ==
    ASSUME NEW q \in Procs, ~marked'[q], pc'[q] # "wait",
           pc'[q] # "idle" => job'[q].slot \in SlotNames
    PROVE  Visible(q)'
BY DEF Visible, Alive

\* Writing a marker of p leaves those of the others as they are.
LEMMA MarkerElsewhere ==
    ASSUME TypeOK, NEW s, NEW p \in Procs, NEW a \in NoMarker .. Timeout,
           marker' = marker \/ marker' = [marker EXCEPT ![s][p] = a]
    PROVE  \A t \in SlotNames, q \in Procs \ {p} : marker'[t][q] = marker[t][q]
<1> SUFFICES ASSUME marker' = [marker EXCEPT ![s][p] = a], NEW t \in SlotNames,
                    NEW q \in Procs \ {p}
             PROVE  marker'[t][q] = marker[t][q]
  OBVIOUS
<1>1. marker \in [SlotNames -> Ages]
  BY DEF TypeOK, Ages
<1>2. CASE t = s
  <2>1. marker'[t] = [marker[t] EXCEPT ![p] = a]
    BY <1>1, <1>2
  <2>2. marker[t] \in Ages
    BY <1>1
  <2> QED
    BY <2>1, <2>2 DEF Ages
<1>3. CASE t # s
  BY <1>1, <1>3
<1> QED
  BY <1>2, <1>3

\* When processes vanish the others stay visible.
LEMMA VisibleVanish ==
    ASSUME VisibleInv, NEW K \in SUBSET Procs, NEW phase \in [Procs -> Phases],
           Vanish(K, phase), marker' = marker,
           \A q \in Procs : phase[q] # pc[q] => phase[q] = "release" /\ pc[q] = "run"
    PROVE  \A q \in Procs : Visible(q)'
<1> SUFFICES ASSUME NEW q \in Procs PROVE Visible(q)'
  OBVIOUS
<1>0. TypeOK /\ Visible(q)
  BY DEF VisibleInv
<1>1. CASE q \in K
  <2>1. pc'[q] = "idle" /\ ~marked'[q]
    BY <1>1 DEF Vanish
  <2> QED
    BY <2>1, VisibleOutside
<1>2. CASE q \notin K /\ phase[q] # pc[q]
  <2>1. pc'[q] = "release" /\ ~marked'[q] /\ job'[q] = job[q] /\ job[q].slot \in SlotNames
    BY <1>0, <1>2 DEF Vanish, Visible, Alive
  <2> QED
    BY <2>1, VisibleOutside
<1>3. CASE q \notin K /\ phase[q] = pc[q]
  <2>1. /\ pc'[q] = pc[q] /\ job'[q] = job[q]
        /\ marked'[q] = marked[q] /\ timer'[q] = timer[q] /\ raced'[q] = raced[q]
    BY <1>3 DEF Vanish
  <2> QED
    BY <1>0, <2>1, VisibleKept
<1> QED
  BY <1>1, <1>2, <1>3

\* Every action leaves every waiting process visible: one step per action.
LEMMA VisibleStep == VisibleInv /\ [Next]_vars => \A q \in Procs : Visible(q)'
<1> SUFFICES ASSUME VisibleInv, [Next]_vars PROVE \A q \in Procs : Visible(q)'
  OBVIOUS
<1>0. TypeOK /\ \A q \in Procs : Visible(q) /\ Spared(q)
  BY DEF VisibleInv
<1>01. Timeout \in Nat \ {0} /\ \A q \in Procs : timer[q] \in 0 .. Timeout
  BY <1>0, ConstantsAssumption DEF TypeOK
<1>03. NoMarker \in NoMarker .. Timeout /\ 0 \in NoMarker .. Timeout
  BY <1>01 DEF NoMarker
<1>1. ASSUME NEW p \in Procs, NEW r \in Requests, NEW s \in SlotNames,
             NEW parent \in Procs \cup {None}, Start(p, r, s, parent)
      PROVE  \A q \in Procs : Visible(q)'
  <2>1. \A q \in Procs \ {p} : Visible(q)'
    BY <1>0, <1>1, VisibleKept DEF Start, TypeOK
  <2>2. ~marked'[p] /\ pc'[p] # "wait" /\ job'[p].slot \in SlotNames
    BY <1>0, <1>1 DEF Start, FreePid, Alive, Visible, TypeOK
  <2> QED
    BY <2>1, <2>2, VisibleOutside
<1>2. ASSUME NEW p \in Procs, BeginAcquire(p) PROVE \A q \in Procs : Visible(q)'
  <2>1. \A q \in Procs \ {p} : Visible(q)'
    BY <1>0, <1>2, VisibleKept DEF BeginAcquire, TypeOK
  <2>2. ~marked'[p] /\ pc'[p] # "wait" /\ job'[p].slot \in SlotNames
    BY <1>0, <1>2 DEF BeginAcquire, Alive, Visible, TypeOK
  <2> QED
    BY <2>1, <2>2, VisibleOutside
<1>16. ASSUME NEW p \in Procs, ReapMarkers(p) PROVE \A q \in Procs : Visible(q)'
  <2>0. /\ pc[p] \in Reaping /\ pc'[p] \in Reaping \cup {"scan"}
        /\ UNCHANGED <<job, marked>>
    BY <1>0, <1>16, ReapMoves
  <2>1. ~marked'[p] /\ pc'[p] # "wait" /\ job'[p].slot \in SlotNames
    BY <1>0, <2>0 DEF Reaping, Alive, Visible
  <2>2. ASSUME NEW q \in Procs \ {p}, marked[q], timer[q] > 0, ~raced[q],
               NEW s \in SlotNames, s = job[q].slot
        PROVE  marker'[s][q] = marker[s][q]
    <3>1. CASE UnlinkMarker(p)
      <4> DEFINE t == job[p].slot
                 v == sweep[p].victim
      <4>1. marker' = [marker EXCEPT ![t][v] = NoMarker] /\ pc[p] = "unlink"
        BY <3>1 DEF UnlinkMarker
      <4>2. ~(v = q /\ t = s)
        BY <1>0, <2>2, <4>1 DEF Spared, Condemned
      <4>3. marker \in [SlotNames -> Ages] /\ marker[s] \in Ages
        BY <1>0 DEF TypeOK, Ages
      <4>4. CASE t = s
        <5>1. marker'[s] = [marker[s] EXCEPT ![v] = NoMarker] /\ v # q
          BY <4>1, <4>2, <4>3, <4>4
        <5> QED
          BY <4>3, <5>1 DEF Ages
      <4>5. CASE t # s
        BY <4>1, <4>3, <4>5
      <4> QED
        BY <4>4, <4>5
    <3>2. CASE StatMarker(p) \/ ProbePid(p)
      BY <3>2 DEF StatMarker, ProbePid
    <3> QED
      BY <1>16, <3>1, <3>2 DEF ReapMarkers
  <2>3. ASSUME NEW q \in Procs \ {p} PROVE Visible(q)'
    <3>1. /\ pc'[q] = pc[q] /\ job'[q] = job[q] /\ marked'[q] = marked[q]
          /\ timer'[q] = timer[q] /\ raced'[q] = raced[q]
      BY <1>0, <1>16, ReapMoves DEF TypeOK
    <3> QED
      BY <1>0, <2>2, <3>1, VisibleKept
  <2> QED
    BY <2>1, <2>3, VisibleOutside
<1>3. ASSUME NEW p \in Procs, NEW result, Return(p, result), Alive(p),
             UNCHANGED <<job, timer>>
      PROVE  \A q \in Procs : Visible(q)'
  <2>1. marker' = marker \/ marker' = [marker EXCEPT ![job[p].slot][p] = NoMarker]
    BY <1>3 DEF Return
  <2>2. \A t \in SlotNames, q \in Procs \ {p} : marker'[t][q] = marker[t][q]
    BY <1>0, <1>03, <2>1, MarkerElsewhere
  <2>3. \A q \in Procs \ {p} : Visible(q)'
    BY <1>0, <1>3, <2>2, VisibleKept DEF Return, TypeOK
  <2>4. ~marked'[p] /\ pc'[p] # "wait" /\ job'[p].slot \in SlotNames
    BY <1>0, <1>3 DEF Return, Alive, Visible, TypeOK
  <2> QED
    BY <2>3, <2>4, VisibleOutside
<1>4. ASSUME NEW p \in Procs, TakeFile(p) \/ GiveUp(p) \/ AcquireError(p)
      PROVE  \A q \in Procs : Visible(q)'
  BY <1>3, <1>4 DEF TakeFile, GiveUp, AcquireError, Alive
<1>5. ASSUME NEW p \in Procs, SkipFile(p) \/ Poll(p) PROVE \A q \in Procs : Visible(q)'
  <2>1. /\ pc[p] \in {"scan", "wait"} /\ pc'[p] \in {"scan", "full"}
        /\ \A q \in Procs \ {p} : pc'[q] = pc[q]
        /\ UNCHANGED <<job, timer, marked, marker, raced>>
    BY <1>0, <1>5 DEF SkipFile, Poll, TypeOK
  <2>2. \A q \in Procs \ {p} : Visible(q)'
    BY <1>0, <2>1, VisibleKept
  <2>3. Visible(p)'
    BY <1>0, <2>1 DEF Visible, Alive
  <2> QED
    BY <2>2, <2>3
<1>6. ASSUME NEW p \in Procs, Enqueue(p) PROVE \A q \in Procs : Visible(q)'
  <2>1. marker' = marker \/ marker' = [marker EXCEPT ![job[p].slot][p] = 0]
    BY <1>6 DEF Enqueue
  <2>2. \A t \in SlotNames, q \in Procs \ {p} : marker'[t][q] = marker[t][q]
    BY <1>0, <1>03, <2>1, MarkerElsewhere
  <2>3. \A q \in Procs \ {p} : Visible(q)'
    BY <1>0, <1>6, <2>2, VisibleKept DEF Enqueue, TypeOK
  <2>4. job[p].slot \in SlotNames /\ pc[p] = "full" /\ pc'[p] \in {"wait", "giveup"}
    BY <1>0, <1>6 DEF Enqueue, Visible, Alive, TypeOK
  <2>5. CASE job[p].heavy /\ ~marked[p]
    <3>1. marked'[p] /\ marker'[job[p].slot][p] = 0
      BY <1>0, <1>6, <2>4, <2>5 DEF Enqueue, TypeOK
    <3>2. job'[p] = job[p] /\ timer'[p] \in 0 .. Timeout
      BY <1>01, <1>6 DEF Enqueue
    <3>3. 0 \in 0 .. Timeout - timer'[p]
      BY <1>01, <3>2
    <3>4. Visible(p)'
      BY <2>4, <2>5, <3>1, <3>2, <3>3 DEF Visible
    <3> QED
      BY <2>3, <3>4
  <2>6. CASE ~(job[p].heavy /\ ~marked[p])
    <3>1. /\ marker' = marker /\ marked'[p] = marked[p] /\ raced'[p] = raced[p]
          /\ job' = job /\ timer' = timer
      BY <1>0, <1>6, <2>6 DEF Enqueue, TypeOK
    <3>2. /\ marked[p] => job[p].heavy
          /\ marked[p] /\ timer[p] > 0 /\ ~raced[p] => marker[job[p].slot][p] \in 0 .. Timeout - timer[p]
      BY <1>0 DEF Visible
    <3>3. Visible(p)'
      BY <2>4, <2>6, <3>1, <3>2 DEF Visible
    <3> QED
      BY <2>3, <3>3
  <2> QED
    BY <2>3, <2>5, <2>6
<1>7. ASSUME NEW p \in Procs, Settle(p) PROVE \A q \in Procs : Visible(q)'
  <2>1. \A q \in Procs \ {p} : Visible(q)'
    BY <1>0, <1>7, VisibleKept DEF Settle, TypeOK
  <2>2. ~marked'[p] /\ pc'[p] # "wait" /\ job'[p].slot \in SlotNames
    BY <1>0, <1>7 DEF Settle, Alive, Visible, TypeOK
  <2> QED
    BY <2>1, <2>2, VisibleOutside
<1>8. ASSUME NEW p \in Procs, StartChild(p) PROVE \A q \in Procs : Visible(q)'
  <2>1. \A q \in Procs \ {p} : Visible(q)'
    BY <1>0, <1>8, VisibleKept DEF StartChild, TypeOK
  <2>2. ~marked'[p] /\ pc'[p] # "wait" /\ job'[p].slot \in SlotNames
    BY <1>0, <1>8 DEF StartChild, Alive, Visible, TypeOK
  <2> QED
    BY <2>1, <2>2, VisibleOutside
<1>9. ASSUME NEW p \in Procs, Exit(p) \/ Kill9(p) PROVE \A q \in Procs : Visible(q)'
  <2>1. Vanish({p}, pc) /\ pc \in [Procs -> Phases] /\ marker' = marker
    BY <1>0, <1>9 DEF Exit, Kill9, TypeOK
  <2> QED
    BY <2>1, VisibleVanish
<1>10. ASSUME NEW p \in Procs, Escalate(p) PROVE \A q \in Procs : Visible(q)'
  <2>1. /\ Nested(p) \in SUBSET Procs /\ Vanish(Nested(p), pc)
        /\ pc \in [Procs -> Phases] /\ marker' = marker
    BY <1>0, <1>10 DEF Escalate, Nested, TypeOK
  <2> QED
    BY <2>1, VisibleVanish
<1>11. ASSUME NEW p \in Procs, Reap(p) PROVE \A q \in Procs : Visible(q)'
  <2> DEFINE phase == [pc EXCEPT ![p] = "release"]
  <2>1. phase \in [Procs -> Phases]
    BY <1>0 DEF TypeOK, Phases
  <2>2. \A q \in Procs : phase[q] # pc[q] => phase[q] = "release" /\ pc[q] = "run"
    BY <1>0, <1>11 DEF Reap, TypeOK
  <2>3. Nested(p) \in SUBSET Procs /\ Vanish(Nested(p), phase) /\ marker' = marker
    BY <1>11 DEF Reap, Nested
  <2> HIDE DEF phase
  <2> QED
    BY <2>1, <2>2, <2>3, VisibleVanish
<1>12. ASSUME UNCHANGED <<pc, job, marked, timer, marker, raced>>
       PROVE  \A q \in Procs : Visible(q)'
  BY <1>0, <1>12, VisibleKept
<1>13. ASSUME NEW p \in Procs,
              \/ Watch(p) \/ Forward(p) \/ Release(p) \/ WorkEnds(p) \/ WorkForks(p)
              \/ \E s \in Signals : SendSignal(p, s)
       PROVE  UNCHANGED <<pc, job, marked, timer, marker, raced>>
  BY <1>13 DEF Watch, Forward, Release, WorkEnds, WorkForks, SendSignal
<1>14. ASSUME UNCHANGED vars PROVE UNCHANGED <<pc, job, marked, timer, marker, raced>>
  BY <1>14 DEF vars
<1>15. ASSUME Tick PROVE \A q \in Procs : Visible(q)'
  <2> SUFFICES ASSUME NEW q \in Procs PROVE Visible(q)'
    OBVIOUS
  <2>1. UNCHANGED <<pc, job, marked, raced>>
    BY <1>15 DEF Tick
  <2>2. timer'[q] = IF timer[q] = 0 THEN 0 ELSE timer[q] - 1
    BY <1>15 DEF Tick
  <2>3. \A s \in SlotNames : marker'[s][q] =
          IF marker[s][q] \in 0 .. Timeout - 1 THEN marker[s][q] + 1 ELSE marker[s][q]
    BY <1>15 DEF Tick
  <2>4. ASSUME marked[q], timer'[q] > 0, ~raced[q]
        PROVE  marker'[job[q].slot][q] \in 0 .. Timeout - timer'[q]
    <3>1. job[q].slot \in SlotNames
      BY <1>0, <2>4 DEF Visible, Alive
    <3>2. timer[q] > 0 /\ timer'[q] = timer[q] - 1
      BY <1>01, <2>2, <2>4
    <3>3. marker[job[q].slot][q] \in 0 .. Timeout - timer[q]
      BY <1>0, <2>4, <3>2 DEF Visible
    <3> QED
      BY <1>01, <2>3, <3>1, <3>2, <3>3
  <2> QED
    BY <1>0, <2>1, <2>4 DEF Visible, Alive
<1> QED
  BY <1>1, <1>2, <1>4, <1>5, <1>6, <1>7, <1>8, <1>9, <1>10, <1>11, <1>12, <1>13, <1>14,
     <1>15, <1>16
  DEF Next, MainStep, SignalStep, Environment

\* Nobody judges anew, and whoever has a marker had it before.
LEMMA SparedKept ==
    ASSUME NEW q \in Procs, Spared(q),
           marked'[q] => /\ marked[q] /\ raced'[q] = raced[q] /\ job'[q] = job[q]
                         /\ timer'[q] > 0 => timer[q] > 0,
           \A r \in Procs : pc'[r] = "unlink" =>
             pc[r] = "unlink" /\ sweep'[r] = sweep[r] /\ job'[r] = job[r]
    PROVE  Spared(q)'
BY DEF Spared, Condemned

\* Every action spares the markers of the waiting processes: one step per action.
LEMMA SparedStep == VisibleInv /\ [Next]_vars => \A q \in Procs : Spared(q)'
<1> SUFFICES ASSUME VisibleInv, [Next]_vars, NEW q \in Procs PROVE Spared(q)'
  OBVIOUS
<1>0. TypeOK /\ Visible(q) /\ Spared(q)
  BY DEF VisibleInv
<1>00. timer[q] \in 0 .. Timeout /\ Timeout \in Nat \ {0}
  BY <1>0, ConstantsAssumption DEF TypeOK
<1>1. ASSUME NEW p \in Procs, NEW r \in Requests, NEW s \in SlotNames,
             NEW parent \in Procs \cup {None}, Start(p, r, s, parent)
      PROVE  Spared(q)'
  BY <1>0, <1>1, SparedKept DEF Start, FreePid, Alive, Visible, TypeOK
<1>2. ASSUME NEW p \in Procs, BeginAcquire(p) PROVE Spared(q)'
  BY <1>0, <1>2, SparedKept DEF BeginAcquire, Visible, TypeOK
<1>3. ASSUME NEW p \in Procs, StatMarker(p) PROVE Spared(q)'
  <2>1. /\ UNCHANGED <<job, timer, marked, raced, marker>>
        /\ \A r \in Procs \ {p} : pc'[r] = pc[r] /\ sweep'[r] = sweep[r]
    BY <1>0, <1>3 DEF StatMarker, TypeOK
  <2>2. CASE pc'[p] # "unlink"
    BY <1>0, <2>1, <2>2, SparedKept
  <2>3. CASE pc'[p] = "unlink"
    <3>1. /\ marker[job[p].slot][sweep'[p].victim] \in {NoMarker, Timeout}
      BY <1>0, <1>3, <2>3 DEF StatMarker, TypeOK
    <3>2. ASSUME marked[q], timer[q] > 0, ~raced[q], sweep'[p].victim = q,
                 job[p].slot = job[q].slot
          PROVE  FALSE
      <4>1. marker[job[q].slot][q] \in 0 .. Timeout - timer[q]
        BY <1>0, <3>2 DEF Visible
      <4> QED
        BY <1>00, <3>1, <3>2, <4>1 DEF NoMarker
    <3> QED
      BY <1>0, <2>1, <3>2 DEF Spared, Condemned
  <2> QED
    BY <2>2, <2>3
<1>4. ASSUME NEW p \in Procs, ProbePid(p) PROVE Spared(q)'
  <2>1. /\ UNCHANGED <<job, timer, marked, raced>>
        /\ \A r \in Procs \ {p} : pc'[r] = pc[r] /\ sweep'[r] = sweep[r]
    BY <1>0, <1>4 DEF ProbePid, NextMarker, TypeOK
  <2>2. pc'[p] = "unlink" => ~Alive(sweep'[p].victim)
    BY <1>0, <1>4 DEF ProbePid, NextMarker, TypeOK
  <2>3. marked[q] => Alive(q)
    BY <1>0 DEF Visible, Alive
  <2> QED
    BY <1>0, <2>1, <2>2, <2>3 DEF Spared, Condemned
<1>5. ASSUME NEW p \in Procs, UnlinkMarker(p) PROVE Spared(q)'
  BY <1>0, <1>5, SparedKept DEF UnlinkMarker, NextMarker, TypeOK
<1>6. ASSUME NEW p \in Procs, TakeFile(p) \/ GiveUp(p) \/ AcquireError(p)
      PROVE  Spared(q)'
  <2>1. /\ pc' = [pc EXCEPT ![p] = "settle"] /\ marked' = [marked EXCEPT ![p] = FALSE]
        /\ raced' = [raced EXCEPT ![p] = FALSE] /\ UNCHANGED <<job, timer, sweep>>
    BY <1>6 DEF TakeFile, GiveUp, AcquireError, Return
  <2> QED
    BY <1>0, <2>1, SparedKept DEF TypeOK
<1>7. ASSUME NEW p \in Procs, SkipFile(p) \/ Poll(p) \/ StartChild(p) PROVE Spared(q)'
  <2>1. /\ pc' = [pc EXCEPT ![p] = pc'[p]] /\ pc'[p] # "unlink"
        /\ UNCHANGED <<job, timer, sweep, marked, raced>>
    BY <1>0, <1>7 DEF SkipFile, Poll, StartChild, TypeOK
  <2> QED
    BY <1>0, <2>1, SparedKept DEF TypeOK
<1>8. ASSUME NEW p \in Procs, Enqueue(p) PROVE Spared(q)'
  <2>1. /\ pc'[p] \in {"wait", "giveup"} /\ pc[p] = "full"
        /\ \A r \in Procs \ {p} : /\ pc'[r] = pc[r] /\ marked'[r] = marked[r]
                                   /\ raced'[r] = raced[r]
        /\ UNCHANGED <<job, timer, sweep>>
    BY <1>0, <1>8 DEF Enqueue, TypeOK
  <2>2. CASE q = p /\ job[p].heavy /\ ~marked[p]
    <3>1. raced'[p] = Condemned(p)
      BY <1>0, <1>8, <2>2 DEF Enqueue, TypeOK
    <3>2. Condemned(p)' => Condemned(p)
      BY <2>1 DEF Condemned
    <3> QED
      BY <2>2, <3>1, <3>2 DEF Spared
  <2>3. CASE ~(q = p /\ job[p].heavy /\ ~marked[p])
    <3>1. marked'[q] = marked[q] /\ raced'[q] = raced[q]
      BY <1>0, <1>8, <2>1, <2>3 DEF Enqueue, TypeOK
    <3> QED
      BY <1>0, <2>1, <3>1, SparedKept
  <2> QED
    BY <2>2, <2>3
<1>9. ASSUME NEW p \in Procs, Settle(p) PROVE Spared(q)'
  <2>1. /\ pc' = [pc EXCEPT ![p] = pc'[p]] /\ pc'[p] # "unlink"
        /\ UNCHANGED <<job, sweep, marked, raced>>
        /\ timer' = [timer EXCEPT ![p] = 0]
    BY <1>0, <1>9 DEF Settle, TypeOK
  <2> QED
    BY <1>0, <2>1, SparedKept DEF TypeOK
<1>10. ASSUME NEW K \in SUBSET Procs, NEW phase, Vanish(K, phase),
              \A r \in Procs : phase[r] # pc[r] => phase[r] = "release"
       PROVE  Spared(q)'
  BY <1>0, <1>10, SparedKept DEF Vanish
<1>11. ASSUME NEW p \in Procs, Exit(p) \/ Kill9(p) \/ Escalate(p) \/ Reap(p)
       PROVE  Spared(q)'
  <2>1. CASE Exit(p) \/ Kill9(p)
    BY <1>10, <2>1 DEF Exit, Kill9
  <2>2. CASE Escalate(p)
    BY <1>10, <2>2 DEF Escalate, Nested
  <2>3. CASE Reap(p)
    <3> DEFINE phase == [pc EXCEPT ![p] = "release"]
    <3>1. Nested(p) \in SUBSET Procs /\ Vanish(Nested(p), phase)
      BY <2>3 DEF Reap, Nested
    <3>2. \A r \in Procs : phase[r] # pc[r] => phase[r] = "release"
      BY <1>0 DEF TypeOK
    <3> HIDE DEF phase
    <3> QED
      BY <1>10, <3>1, <3>2
  <2> QED
    BY <1>11, <2>1, <2>2, <2>3
<1>12. ASSUME NEW p \in Procs,
              \/ Watch(p) \/ Forward(p) \/ Release(p) \/ WorkEnds(p) \/ WorkForks(p)
              \/ \E s \in Signals : SendSignal(p, s)
       PROVE  Spared(q)'
  <2>1. UNCHANGED <<pc, job, timer, sweep, marked, raced>>
    BY <1>12 DEF Watch, Forward, Release, WorkEnds, WorkForks, SendSignal
  <2> QED
    BY <1>0, <2>1, SparedKept
<1>13. CASE Tick
  <2>1. UNCHANGED <<pc, job, sweep, marked, raced>>
        /\ timer'[q] = IF timer[q] = 0 THEN 0 ELSE timer[q] - 1
    BY <1>13 DEF Tick
  <2> QED
    BY <1>0, <1>00, <2>1, SparedKept
<1>14. CASE UNCHANGED vars
  BY <1>0, <1>14, SparedKept DEF vars
<1> QED
  BY <1>1, <1>2, <1>3, <1>4, <1>5, <1>6, <1>7, <1>8, <1>9, <1>11, <1>12, <1>13, <1>14
  DEF Next, MainStep, ReapMarkers, SignalStep, Environment

\* The invariant of the markers, of every process at every moment.
THEOREM MarkerInvariant == Spec => []VisibleInv
<1>1. Init => VisibleInv
  <2>1. Init => \A p \in Procs : Visible(p) /\ Spared(p)
    BY DEF Init, Visible, Alive, Spared
  <2> QED
    BY <2>1, TypeInit DEF VisibleInv
<1>2. VisibleInv /\ [Next]_vars => VisibleInv'
  BY TypeStep, VisibleStep, SparedStep DEF VisibleInv
<1> QED
  BY <1>1, <1>2, PTL DEF Spec

\* Until its deadline a process that waits has a marker that counts, unless a reaper
\* had judged the file of that name before the marker was written and removed it after.
THEOREM WaitersSeen == Spec => []OnlyTheRaceHides
<1>1. VisibleInv => OnlyTheRaceHides
  <2> SUFFICES ASSUME VisibleInv, NEW p \in Procs,
                      pc[p] = "wait", job[p].heavy, timer[p] > 0, ~raced[p]
               PROVE  Live(job[p].slot, p)
    BY DEF OnlyTheRaceHides
  <2>1. timer[p] \in 0 .. Timeout /\ Timeout \in Nat
    BY ConstantsAssumption DEF VisibleInv, TypeOK
  <2>2. marker[job[p].slot][p] \in 0 .. Timeout - timer[p]
    BY DEF VisibleInv, Visible
  <2> QED
    BY <2>1, <2>2 DEF Live, Alive
<1> QED
  BY <1>1, MarkerInvariant, PTL

-----------------------------------------------------------------------------
(* As long as no fleet process is sent a SIGKILL *)

\* Nobody sends SIGKILL to a fleet process: no process from outside, and no fleet process
\* to the group of a job that called fleet again.
Unkilled == "kill9" \notin Env /\ "nesting" \notin Env

Clean(p) == job[p].parent = None /\ OwnMarkers(p) /\ Kept(p)

\* A process that a step neither moves nor robs of its mark stays clean.
LEMMA CleanKept ==
    ASSUME NEW q \in Procs, Clean(q),
           pc'[q] = pc[q], job'[q] = job[q], marked'[q] = marked[q], work'[q] \subseteq work[q],
           \A s \in SlotNames : marker'[s][q] # NoMarker => marker[s][q] # NoMarker
    PROVE  Clean(q)'
<1>1. Killed(q)' = Killed(q)
  BY DEF Killed
<1> QED
  BY <1>1 DEF Clean, OwnMarkers, Kept

\* A process without a marker and without a job is clean.
LEMMA CleanIdle ==
    ASSUME NEW q \in Procs, job'[q].parent = None, Kept(q)',
           \A s \in SlotNames : marker'[s][q] = NoMarker
    PROVE  Clean(q)'
BY DEF Clean, OwnMarkers

\* Every action of an execution without SIGKILL leaves every process clean: one step
\* per action.
LEMMA CleanStep ==
    ASSUME Unkilled
    PROVE  CleanInv /\ [Next]_vars => \A q \in Procs : Clean(q)'
<1> SUFFICES ASSUME CleanInv, [Next]_vars PROVE \A q \in Procs : Clean(q)'
  OBVIOUS
<1>0. TypeOK /\ \A q \in Procs : Visible(q) /\ Clean(q)
  BY DEF CleanInv, VisibleInv, Clean
<1>00. \A q \in Procs : ~marked[q] => \A s \in SlotNames : marker[s][q] = NoMarker
  BY <1>0 DEF Clean, OwnMarkers
<1>1. ASSUME NEW p \in Procs, NEW r \in Requests, NEW s \in SlotNames,
             NEW parent \in Procs \cup {None}, Start(p, r, s, parent)
      PROVE  \A q \in Procs : Clean(q)'
  <2>1. \A q \in Procs \ {p} : Clean(q)'
    BY <1>0, <1>1, CleanKept DEF Start, TypeOK
  <2>2. parent = None
    BY <1>1 DEF Unkilled, Start
  <2>3. job'[p].parent = None
    BY <1>0, <1>1, <2>2 DEF Start, TypeOK
  <2>4. Kept(p)'
    BY <1>1 DEF Start, FreePid, Kept
  <2>5. ~marked[p] /\ marker' = marker
    BY <1>0, <1>1 DEF Start, FreePid, Alive, Visible
  <2> QED
    BY <1>00, <2>1, <2>3, <2>4, <2>5, CleanIdle
<1>5. ASSUME NEW p \in Procs, pc[p] # "run",
             \A q \in Procs \ {p} : pc'[q] = pc[q],
             UNCHANGED <<job, work, marked, marker>>
      PROVE  \A q \in Procs : Clean(q)'
  <2>1. \A q \in Procs \ {p} : Clean(q)'
    BY <1>0, <1>5, CleanKept
  <2>2. Clean(p)'
    BY <1>0, <1>5 DEF Clean, OwnMarkers, Kept, Killed
  <2> QED
    BY <2>1, <2>2
<1>2. ASSUME NEW p \in Procs, BeginAcquire(p) PROVE \A q \in Procs : Clean(q)'
  <2>1. /\ pc[p] # "run" /\ \A q \in Procs \ {p} : pc'[q] = pc[q]
        /\ UNCHANGED <<job, work, marked, marker>>
    BY <1>0, <1>2 DEF BeginAcquire, TypeOK
  <2> QED
    BY <1>5, <2>1
<1>18. ASSUME NEW p \in Procs, ReapMarkers(p) PROVE \A q \in Procs : Clean(q)'
  <2>1. \A s \in SlotNames, q \in Procs : marker'[s][q] # NoMarker => marker[s][q] # NoMarker
    <3> DEFINE t == job[p].slot
               v == sweep[p].victim
    <3>1. marker' = marker \/ marker' = [marker EXCEPT ![t][v] = NoMarker]
      BY <1>0, <1>18, ReapMoves
    <3>2. marker \in [SlotNames -> Ages]
      BY <1>0 DEF TypeOK, Ages
    <3>3. ASSUME NEW s \in SlotNames, NEW q \in Procs, marker'[s][q] # NoMarker
          PROVE  marker[s][q] # NoMarker
      <4>1. marker'[s] = marker[s] \/ marker'[s] = [marker[s] EXCEPT ![v] = NoMarker]
        BY <3>1, <3>2
      <4> QED
        BY <3>2, <3>3, <4>1 DEF Ages
    <3> QED
      BY <3>3
  <2>2. /\ \A q \in Procs \ {p} : pc'[q] = pc[q]
        /\ pc[p] # "run" /\ UNCHANGED <<job, work, marked>>
    BY <1>0, <1>18, ReapMoves DEF Reaping, TypeOK
  <2>3. \A q \in Procs \ {p} : Clean(q)'
    BY <1>0, <2>1, <2>2, CleanKept
  <2>4. Clean(p)'
    BY <1>0, <2>1, <2>2 DEF Clean, OwnMarkers, Kept, Killed
  <2> QED
    BY <2>3, <2>4
<1>3. ASSUME NEW p \in Procs, NEW result, Return(p, result), pc[p] # "run",
             UNCHANGED <<job, work>>
      PROVE  \A q \in Procs : Clean(q)'
  <2>0. NoMarker \in NoMarker .. Timeout
    BY ConstantsAssumption DEF NoMarker
  <2>1. marker' = marker \/ marker' = [marker EXCEPT ![job[p].slot][p] = NoMarker]
    BY <1>3 DEF Return
  <2>2. \A t \in SlotNames, q \in Procs \ {p} : marker'[t][q] = marker[t][q]
    BY <1>0, <2>0, <2>1, MarkerElsewhere
  <2>3. \A q \in Procs \ {p} : Clean(q)'
    BY <1>0, <1>3, <2>2, CleanKept DEF Return, TypeOK
  <2>4. Kept(p)'
    BY <1>0, <1>3 DEF Clean, Kept, Killed
  <2>5. ASSUME NEW s \in SlotNames PROVE marker'[s][p] = NoMarker
    <3>1. CASE ~marked[p]
      BY <1>00, <1>3, <3>1 DEF Return
    <3>2. CASE marked[p]
      <4>1. marker' = [marker EXCEPT ![job[p].slot][p] = NoMarker]
        BY <1>3, <3>2 DEF Return
      <4>2. marker \in [SlotNames -> Ages]
        BY <1>0 DEF TypeOK, Ages
      <4>3. CASE s = job[p].slot
        <5>1. marker'[s] = [marker[s] EXCEPT ![p] = NoMarker] /\ marker[s] \in Ages
          BY <4>1, <4>2, <4>3
        <5> QED
          BY <5>1 DEF Ages
      <4>4. CASE s # job[p].slot
        <5>1. marker[s][p] = NoMarker
          BY <1>0, <4>4 DEF Clean, OwnMarkers
        <5> QED
          BY <4>1, <4>2, <4>4, <5>1
      <4> QED
        BY <4>3, <4>4
    <3> QED
      BY <3>1, <3>2
  <2>6. job'[p].parent = None
    BY <1>0, <1>3 DEF Clean
  <2> QED
    BY <2>3, <2>4, <2>5, <2>6, CleanIdle
<1>4. ASSUME NEW p \in Procs, TakeFile(p) \/ GiveUp(p) \/ AcquireError(p)
      PROVE  \A q \in Procs : Clean(q)'
  BY <1>3, <1>4 DEF TakeFile, GiveUp, AcquireError
<1>6. ASSUME NEW p \in Procs, SkipFile(p) \/ Poll(p) \/ Settle(p)
      PROVE  \A q \in Procs : Clean(q)'
  <2>1. /\ pc[p] # "run" /\ \A q \in Procs \ {p} : pc'[q] = pc[q]
        /\ UNCHANGED <<job, work, marked, marker>>
    BY <1>0, <1>6 DEF SkipFile, Poll, Settle, TypeOK
  <2> QED
    BY <1>5, <2>1
<1>7. ASSUME NEW p \in Procs, Enqueue(p) PROVE \A q \in Procs : Clean(q)'
  <2>0. 0 \in NoMarker .. Timeout
    BY ConstantsAssumption DEF NoMarker
  <2>1. marker' = marker \/ marker' = [marker EXCEPT ![job[p].slot][p] = 0]
    BY <1>7 DEF Enqueue
  <2>2. \A t \in SlotNames, q \in Procs \ {p} : marker'[t][q] = marker[t][q]
    BY <1>0, <2>0, <2>1, MarkerElsewhere
  <2>3. \A q \in Procs \ {p} : Clean(q)'
    BY <1>0, <1>7, <2>2, CleanKept DEF Enqueue, TypeOK
  <2>4. pc[p] # "run" /\ job' = job /\ work' = work
    BY <1>7 DEF Enqueue
  <2>5. job'[p].parent = None /\ Kept(p)'
    BY <1>0, <2>4 DEF Clean, Kept, Killed
  <2>6. OwnMarkers(p)'
    <3>1. CASE job[p].heavy /\ ~marked[p]
      <4>1. marked'[p] /\ marker' = [marker EXCEPT ![job[p].slot][p] = 0]
        BY <1>0, <1>7, <3>1 DEF Enqueue, TypeOK
      <4>2. \A s \in SlotNames : s # job[p].slot => marker'[s] = marker[s]
        BY <1>0, <4>1 DEF TypeOK
      <4> QED
        BY <1>00, <2>4, <3>1, <4>1, <4>2 DEF OwnMarkers
    <3>2. CASE ~(job[p].heavy /\ ~marked[p])
      <4>1. marked'[p] = marked[p] /\ marker' = marker
        BY <1>0, <1>7, <3>2 DEF Enqueue, TypeOK
      <4> QED
        BY <1>0, <2>4, <4>1 DEF Clean, OwnMarkers
    <3> QED
      BY <3>1, <3>2
  <2> QED
    BY <2>3, <2>5, <2>6 DEF Clean
<1>8. ASSUME NEW p \in Procs, StartChild(p) PROVE \A q \in Procs : Clean(q)'
  <2>1. \A q \in Procs \ {p} : Clean(q)'
    BY <1>0, <1>8, CleanKept DEF StartChild, TypeOK
  <2>2. job' = job /\ marked' = marked /\ marker' = marker /\ pc[p] # "run"
    BY <1>8 DEF StartChild
  <2>3. pc'[p] = "run" \/ work' = work
    BY <1>0, <1>8 DEF StartChild, TypeOK
  <2>4. Kept(p)'
    BY <1>0, <2>2, <2>3 DEF Clean, Kept, Killed
  <2> QED
    BY <1>0, <2>1, <2>2, <2>4 DEF Clean, OwnMarkers
<1>9. ASSUME NEW p \in Procs, Exit(p) \/ Kill9(p) PROVE \A q \in Procs : Clean(q)'
  <2>1. Exit(p)
    BY <1>9 DEF Kill9, Unkilled
  <2>2. \A q \in Procs \ {p} : Clean(q)'
    BY <1>0, <2>1, CleanKept DEF Exit, Vanish
  <2>3. ~marked[p] /\ pc[p] # "run" /\ marker' = marker /\ work' = work
    BY <1>0, <2>1 DEF Exit, Visible
  <2>4. job'[p] = job[p] \/ (work[p] = {} /\ job'[p] = NoJob)
    BY <2>1 DEF Exit, Vanish
  <2>5. job'[p].parent = None
    BY <1>0, <2>4 DEF Clean, NoJob
  <2>6. Kept(p)'
    BY <1>0, <2>3, <2>4 DEF Clean, Kept, Killed
  <2> QED
    BY <1>00, <2>2, <2>3, <2>5, <2>6, CleanIdle
<1>10. \A p \in Procs : Nested(p) = {}
  BY <1>0, ConstantsAssumption DEF Nested, Clean
<1>11. ASSUME NEW p \in Procs, Escalate(p) PROVE \A q \in Procs : Clean(q)'
  <2>1. \A q \in Procs : work'[q] \subseteq work[q]
    BY <1>0, <1>11 DEF Escalate, TypeOK
  <2>2. \A q \in Procs : pc'[q] = pc[q] /\ job'[q] = job[q] /\ marked'[q] = marked[q]
    BY <1>10, <1>11 DEF Escalate, Vanish
  <2>3. marker' = marker
    BY <1>11 DEF Escalate
  <2> QED
    BY <1>0, <2>1, <2>2, <2>3, CleanKept
<1>12. ASSUME NEW p \in Procs, Reap(p) PROVE \A q \in Procs : Clean(q)'
  <2>1. work' = [work EXCEPT ![p] = @ \ Killed(p)]
    BY <1>12 DEF Reap
  <2>2. \A q \in Procs : job'[q] = job[q] /\ marked'[q] = marked[q]
    BY <1>10, <1>12 DEF Reap, Vanish
  <2>3. \A q \in Procs \ {p} : pc'[q] = pc[q]
    BY <1>0, <1>10, <1>12 DEF Reap, Vanish, TypeOK
  <2>4. marker' = marker
    BY <1>12 DEF Reap
  <2>5. \A q \in Procs \ {p} : Clean(q)'
    BY <1>0, <2>1, <2>2, <2>3, <2>4, CleanKept DEF TypeOK
  <2>6. Kept(p)'
    BY <1>0, <2>1, <2>2 DEF Kept, Killed, TypeOK
  <2> QED
    BY <1>0, <2>2, <2>4, <2>5, <2>6 DEF Clean, OwnMarkers
<1>13. ASSUME NEW p \in Procs, WorkForks(p) PROVE \A q \in Procs : Clean(q)'
  <2>1. \A q \in Procs \ {p} : Clean(q)'
    BY <1>0, <1>13, CleanKept DEF WorkForks, TypeOK
  <2>2. work[p] \cap Killed(p) # {} /\ UNCHANGED <<pc, job, marked, marker>>
    BY <1>13 DEF WorkForks, Killed
  <2>3. Clean(p)'
    BY <1>0, <2>2 DEF Clean, Kept, OwnMarkers
  <2> QED
    BY <2>1, <2>3
<1>14. ASSUME UNCHANGED <<pc, job, marked, marker>>, \A q \in Procs : work'[q] \subseteq work[q]
       PROVE  \A q \in Procs : Clean(q)'
  BY <1>0, <1>14, CleanKept
<1>15. ASSUME NEW p \in Procs,
              \/ Watch(p) \/ Forward(p) \/ Release(p) \/ WorkEnds(p)
              \/ \E s \in Signals : SendSignal(p, s)
       PROVE  UNCHANGED <<pc, job, marked, marker>> /\ \A q \in Procs : work'[q] \subseteq work[q]
  BY <1>0, <1>15 DEF Watch, Forward, Release, WorkEnds, SendSignal, TypeOK
<1>16. ASSUME UNCHANGED vars
       PROVE  UNCHANGED <<pc, job, marked, marker>> /\ \A q \in Procs : work'[q] \subseteq work[q]
  BY <1>16 DEF vars
<1>17. ASSUME Tick PROVE \A q \in Procs : Clean(q)'
  <2>1. \A s \in SlotNames, q \in Procs : marker'[s][q] # NoMarker => marker[s][q] # NoMarker
    BY <1>17, ConstantsAssumption DEF Tick, NoMarker
  <2> QED
    BY <1>0, <1>17, <2>1, CleanKept DEF Tick
<1> QED
  BY <1>1, <1>2, <1>4, <1>6, <1>7, <1>8, <1>9, <1>11, <1>12, <1>13, <1>14, <1>15, <1>16,
     <1>17, <1>18
  DEF Next, MainStep, SignalStep, Environment

\* The invariant of an execution without SIGKILL.
LEMMA CleanInvariant == ASSUME Unkilled PROVE Spec => []CleanInv
<1>1. Init => CleanInv
  <2>1. Init => \A p \in Procs : Visible(p) /\ Spared(p)
    BY DEF Init, Visible, Alive, Spared
  <2>2. Init => \A p \in Procs : job[p].parent = None /\ OwnMarkers(p) /\ Kept(p)
    BY DEF Init, OwnMarkers, Kept, NoJob
  <2> QED
    BY <2>1, <2>2, TypeInit DEF CleanInv, VisibleInv
<1>2. CleanInv /\ [Next]_vars => CleanInv'
  BY TypeStep, VisibleStep, SparedStep, CleanStep DEF CleanInv, VisibleInv, Clean
<1> QED
  BY <1>1, <1>2, PTL DEF Spec

\* Without a SIGKILL a marker that counts belongs to a process inside Acquire for that
\* slot.  (A marker that a killed process left counts again when its pid is reused.)
THEOREM MarkersHonest == ASSUME Unkilled PROVE Spec => []MarkerMeansWaiting
<1>1. CleanInv => MarkerMeansWaiting
  <2> SUFFICES ASSUME CleanInv, NEW s \in SlotNames, NEW p \in Procs, Live(s, p)
               PROVE  pc[p] \in Acquiring /\ job[p].heavy /\ job[p].slot = s
    BY DEF MarkerMeansWaiting
  <2>1. marker[s][p] # NoMarker
    BY ConstantsAssumption DEF Live, NoMarker
  <2> QED
    BY <2>1 DEF CleanInv, OwnMarkers, VisibleInv, Visible, Acquiring
<1> QED
  BY <1>1, CleanInvariant, PTL

\* Without a SIGKILL what is left of a job keeps its fleet process waiting, as far as the
\* final signal to the group can reach it.
THEOREM JobsHaveKeepers == ASSUME Unkilled PROVE Spec => []WorkHasKeeper
<1>1. CleanInv => WorkHasKeeper
  BY DEF CleanInv, Kept, WorkHasKeeper
<1> QED
  BY <1>1, CleanInvariant, PTL

=============================================================================
