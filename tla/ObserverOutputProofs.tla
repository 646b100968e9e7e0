------------------------ MODULE ObserverOutputProofs ------------------------
(* Proofs about ObserverOutput, for every number of processes and of ticks.  *)
EXTENDS ObserverOutput, FiniteSetTheorems, SequenceTheorems, TLAPS

Phase == {"idle", "close", "lstat", "inspect", "relook", "create", "wait"} \cup Session
Errors == {"none", "artifacts", "binding", "memory", "partial", "io", "timeout"}
Directory == [lock : BOOLEAN, marker : Bindings \cup {None}, journal : BOOLEAN,
              memory : 0 .. MaxTicks, torn : BOOLEAN,
              temps : SUBSET (Artifacts \X Procs \X {"dirty", "synced"})]

\* The types of the variables of the processes.
LocalTypes ==
    /\ pc \in [Procs -> Phase] /\ bind \in [Procs -> Bindings \cup {None}]
    /\ art \in [Procs -> Artifacts]
    /\ base \in [Procs -> 0 .. MaxTicks] /\ own \in [Procs -> 0 .. MaxTicks]
    /\ created \in [Procs -> BOOLEAN] /\ err \in [Procs -> Errors]
    /\ flock \in Procs \cup {None}

\* The types of the files.
FileTypes ==
    /\ dir \in Directory /\ \A d \in olds : d \in Directory
    /\ log \in Seq(Records) /\ synced \in 0 .. Len(log) /\ ticks \in 0 .. MaxTicks

\* The type invariant, in two parts.
LEMMA TypeParts == TypeOK <=> LocalTypes /\ FileTypes
BY DEF TypeOK, LocalTypes, FileTypes, Phase, Session, Errors, Directory

\* The initial values are in their types.
LEMMA TypeInit == Init => LocalTypes /\ FileTypes
BY ObserverAssumption DEF Init, LocalTypes, FileTypes, Phase, Session, Errors, Directory,
   EmptyDir, Artifacts

\* A process that goes leaves the variables of the processes in their types.
LEMMA GoneTypes == ASSUME LocalTypes, NEW P \in SUBSET Procs, Gone(P) PROVE LocalTypes'
<1>1. pc' \in [Procs -> Phase] /\ bind' \in [Procs -> Bindings \cup {None}]
  BY DEF Gone, LocalTypes, Phase
<1>2. art' \in [Procs -> Artifacts] /\ created' \in [Procs -> BOOLEAN]
  BY DEF Gone, LocalTypes, Artifacts
<1>3. base' \in [Procs -> 0 .. MaxTicks] /\ own' \in [Procs -> 0 .. MaxTicks]
  BY ObserverAssumption DEF Gone, LocalTypes
<1>4. err' \in [Procs -> Errors] /\ flock' \in Procs \cup {None}
  BY DEF Gone, LocalTypes, Errors
<1> QED
  BY <1>1, <1>2, <1>3, <1>4 DEF LocalTypes

\* A record that is cut off is still a record.
LEMMA CutOff ==
    ASSUME NEW r \in Records
    PROVE  LET cut == [r EXCEPT !.whole = FALSE]
           IN  cut \in Records /\ cut.tick = r.tick /\ cut.bind = r.bind
BY DEF Records

\* What a power failure leaves of the journal: a prefix, at least of what is on the
\* disk, of which only a last record that is not on the disk may be cut off.
LEMMA RemainsOf ==
    ASSUME log \in Seq(Records), synced \in 0 .. Len(log), NEW rest \in Remains
    PROVE  /\ rest \in Seq(Records) /\ Len(rest) \in synced .. Len(log)
           /\ \A i \in 1 .. Len(rest) :
                /\ rest[i].tick = log[i].tick /\ rest[i].bind = log[i].bind
                /\ i < Len(rest) \/ i <= synced => rest[i].whole = log[i].whole
<1>1. CASE \E n \in synced .. Len(log) : rest = SubSeq(log, 1, n)
  <2>1. PICK n \in synced .. Len(log) : rest = SubSeq(log, 1, n)
    BY <1>1
  <2>2. rest \in Seq(Records) /\ Len(rest) = n /\ \A i \in 1 .. n : rest[i] = log[i]
    BY <2>1, SubSeqProperties
  <2> QED
    BY <2>2
<1>2. CASE \E n \in synced + 1 .. Len(log) : rest = [SubSeq(log, 1, n) EXCEPT ![n].whole = FALSE]
  <2>1. PICK n \in synced + 1 .. Len(log) : rest = [SubSeq(log, 1, n) EXCEPT ![n].whole = FALSE]
    BY <1>2
  <2> DEFINE s == SubSeq(log, 1, n)
             r == [s[n] EXCEPT !.whole = FALSE]
  <2>2. n \in 1 .. Len(log) /\ s \in Seq(Records) /\ Len(s) = n /\ \A i \in 1 .. n : s[i] = log[i]
    BY SubSeqProperties
  <2>3. s[n] \in Records
    BY <2>2
  <2>4. r \in Records /\ r.tick = s[n].tick /\ r.bind = s[n].bind
    BY <2>3, CutOff
  <2>5. s[n] = log[n]
    BY <2>2
  <2>6. rest = [s EXCEPT ![n] = r]
    BY <2>1
  <2> HIDE DEF s, r
  <2>7. rest \in Seq(Records) /\ Len(rest) = n
    BY <2>2, <2>4, <2>6
  <2>8. \A i \in 1 .. n : rest[i] = IF i = n THEN r ELSE log[i]
    BY <2>2, <2>6
  <2> QED
    BY <2>2, <2>4, <2>5, <2>7, <2>8
<1> QED
  BY <1>1, <1>2 DEF Remains

\* The ticks under way that have no record yet.
Reserving == {p \in Procs : pc[p] # "idle" /\ own[p] = 0}

\* A tick that has no record yet has room for one, also when it takes its turn now.
LEMMA RoomForRecord ==
    ASSUME LocalTypes, FileTypes, TicksReserved, NEW p \in Reserving
    PROVE  /\ ticks + 1 <= MaxTicks
           /\ Reserving' \subseteq Reserving \ {p} /\ ticks' = ticks + 1 => TicksReserved'
<1> USE ObserverAssumption
<1>1. IsFiniteSet(Reserving)
  BY FS_Subset DEF Reserving
<1>2. Cardinality(Reserving \ {p}) = Cardinality(Reserving) - 1 /\ IsFiniteSet(Reserving \ {p})
  BY <1>1, FS_RemoveElement
<1>3. Cardinality(Reserving) \in Nat /\ Cardinality(Reserving \ {p}) \in Nat
  BY <1>1, <1>2, FS_CardinalityType
<1>4. ticks + Cardinality(Reserving) <= MaxTicks
  BY DEF TicksReserved, Reserving
<1>5. ASSUME Reserving' \subseteq Reserving \ {p} PROVE Cardinality(Reserving') <= Cardinality(Reserving \ {p})
  BY <1>2, <1>5, FS_Subset
<1>6. ASSUME Reserving' \subseteq Reserving \ {p} PROVE Cardinality(Reserving') \in Nat
  BY <1>2, <1>6, FS_Subset, FS_CardinalityType
<1>7. TicksReserved' <=> ticks' + Cardinality(Reserving') <= MaxTicks
  BY DEF TicksReserved, Reserving
<1> QED
  BY <1>2, <1>3, <1>4, <1>5, <1>6, <1>7 DEF FileTypes

\* The room stays when no tick is added.
LEMMA RoomKept ==
    ASSUME FileTypes, TicksReserved, Reserving' \subseteq Reserving, ticks' = ticks
    PROVE  TicksReserved'
<1> USE ObserverAssumption
<1>1. IsFiniteSet(Reserving)
  BY FS_Subset DEF Reserving
<1>2. Cardinality(Reserving') <= Cardinality(Reserving) /\ Cardinality(Reserving') \in Nat
      /\ Cardinality(Reserving) \in Nat
  BY <1>1, FS_Subset, FS_CardinalityType
<1> QED
  BY <1>2 DEF TicksReserved, Reserving, FileTypes

\* A new tick finds room.
LEMMA RoomFound ==
    ASSUME LocalTypes, FileTypes, NEW p \in Procs, NEW b \in Bindings, Begin(p, b)
    PROVE  TicksReserved'
<1> USE ObserverAssumption
<1> DEFINE busy == {q \in Procs : pc[q] # "idle"}
<1>1. IsFiniteSet(busy) /\ Cardinality(busy) \in Nat
  BY FS_Subset, FS_CardinalityType
<1> HIDE DEF busy
<1>2. IsFiniteSet(busy \cup {p}) /\ Cardinality(busy \cup {p}) <= Cardinality(busy) + 1
      /\ Cardinality(busy \cup {p}) \in Nat
  <2>1. IsFiniteSet(busy \cup {p})
    BY <1>1, FS_AddElement
  <2>2. Cardinality(busy \cup {p}) = IF p \in busy THEN Cardinality(busy) ELSE Cardinality(busy) + 1
    BY <1>1, FS_AddElement
  <2> QED
    BY <1>1, <2>1, <2>2, FS_CardinalityType
<1>3. Reserving' \subseteq busy \cup {p}
  BY DEF busy, Begin, Goto, Reserving, LocalTypes
<1>4. Cardinality(Reserving') <= Cardinality(busy \cup {p}) /\ Cardinality(Reserving') \in Nat
  BY <1>2, <1>3, FS_Subset, FS_CardinalityType
<1>5. ticks + Cardinality(busy) < MaxTicks /\ ticks' = ticks
  BY DEF busy, Begin, data
<1> QED
  BY <1>1, <1>2, <1>4, <1>5 DEF TicksReserved, Reserving, FileTypes

\* However ticks begin, write and end, there is room for the records of those under way.
LEMMA RoomStep ==
    ASSUME LocalTypes, FileTypes, TicksReserved, \A p \in Procs : TickSound(p), [Next]_vars
    PROVE  TicksReserved'
<1> USE ObserverAssumption
<1>1. ASSUME NEW p \in Procs, NEW b \in Bindings, Begin(p, b) PROVE TicksReserved'
  BY <1>1, RoomFound
<1>2. ASSUME NEW p \in Procs, WriteRecord(p) PROVE TicksReserved'
  <2>1. p \in Reserving
    BY <1>2 DEF WriteRecord, Reserving, TickSound, Unrecorded
  <2>2. own' = [own EXCEPT ![p] = ticks + 1] /\ \E step : Goto(p, step)
    BY <1>2, Zenon DEF WriteRecord, Fail
  <2>3. Reserving' \subseteq Reserving \ {p}
    BY <2>1, <2>2 DEF Reserving, LocalTypes, FileTypes, Goto
  <2> QED
    BY <1>2, <2>1, <2>3, RoomForRecord DEF WriteRecord
<1>3. ASSUME NEW P \in SUBSET Procs, Gone(P) PROVE Reserving' \subseteq Reserving \ P
  BY <1>3 DEF Gone, Reserving
<1>4. ASSUME NEW p \in Procs, Kill(p) PROVE TicksReserved'
  <2>1. CASE ticks' = ticks
    BY <1>3, <1>4, <2>1, RoomKept DEF Kill
  <2>2. CASE pc[p] = "append" /\ ticks' = ticks + 1
    <3>1. p \in Reserving
      BY <2>2 DEF Reserving, TickSound, Unrecorded, LocalTypes
    <3> QED
      BY <1>3, <1>4, <2>2, <3>1, RoomForRecord DEF Kill
  <2> QED
    BY <1>4, <2>1, <2>2 DEF Kill
<1>5. CASE PowerFailure
  BY <1>3, <1>5, RoomKept DEF PowerFailure
<1>6. ASSUME NEW p \in Procs, Close(p) PROVE TicksReserved'
  BY <1>3, <1>6, RoomKept DEF Close, data
<1>7. ASSUME NEW p \in Procs, Step(p), ~WriteRecord(p), ~Close(p) PROVE TicksReserved'
  <2>1. own' = own /\ ticks' = ticks
    BY <1>7 DEF Step, Open, LookForLock, InspectUnlocked, LookAgain, CreateLock, TakeLock,
       LockTimeout, Sweep, Initialize, CreateTemp, WriteTemp, Rename, SyncRename,
       AtomicWriteError, LoadMemory, Collect, OpenJournal, SyncJournal, SyncNewJournal,
       JournalError, local, data
  <2>2. pc[p] # "idle" /\ \E step : Goto(p, step)
    BY <1>7, Zenon DEF Step, Open, LookForLock, InspectUnlocked, LookAgain, CreateLock, TakeLock,
       LockTimeout, Sweep, Initialize, CreateTemp, WriteTemp, Rename, SyncRename,
       AtomicWriteError, LoadMemory, Collect, OpenJournal, SyncJournal, SyncNewJournal,
       JournalError, Fail
  <2> QED
    BY <2>1, <2>2, RoomKept DEF Reserving, LocalTypes, Goto
<1>8. CASE UNCHANGED vars
  BY <1>8, RoomKept DEF vars, Reserving
<1> QED
  BY <1>1, <1>2, <1>4, <1>5, <1>6, <1>7, <1>8 DEF Next

\* Every action keeps the variables of the processes in their types; no tick writes a
\* record it has no room for.
LEMMA LocalTypeStep ==
    ASSUME LocalTypes, FileTypes, TicksReserved, \A p \in Procs : TickSound(p), [Next]_vars
    PROVE  LocalTypes'
<1> USE ObserverAssumption
<1>1. ASSUME NEW p \in Procs, NEW b \in Bindings, Begin(p, b) PROVE LocalTypes'
  BY <1>1 DEF Begin, Goto, LocalTypes, Phase
<1>2. ASSUME NEW p \in Procs, Open(p) \/ Sweep(p) \/ Collect(p) PROVE LocalTypes'
  BY <1>2 DEF Open, LookForLock, InspectUnlocked, LookAgain, CreateLock, TakeLock, LockTimeout,
     Sweep, Collect, local, Goto, Fail, LocalTypes, Phase, Session, Errors, Complaint
<1>3. ASSUME NEW p \in Procs, Initialize(p) PROVE LocalTypes'
  BY <1>3 DEF Initialize, Goto, Fail, LocalTypes, Phase, Session, Errors, Complaint, Artifacts
<1>4. ASSUME NEW p \in Procs, CreateTemp(p) \/ WriteTemp(p) \/ Rename(p) \/ SyncRename(p)
                              \/ AtomicWriteError(p) \/ SyncNewJournal(p) \/ JournalError(p)
      PROVE  LocalTypes'
  BY <1>4 DEF CreateTemp, WriteTemp, Rename, SyncRename, AtomicWriteError, SyncNewJournal,
     JournalError, local, Goto, Fail, LocalTypes, Phase, Session, Errors
<1>5. ASSUME NEW p \in Procs, LoadMemory(p) PROVE LocalTypes'
  BY <1>5 DEF LoadMemory, Goto, Fail, LocalTypes, FileTypes, Directory, Phase, Session, Errors
<1>6. ASSUME NEW p \in Procs, OpenJournal(p) PROVE LocalTypes'
  BY <1>6 DEF OpenJournal, Goto, Fail, LocalTypes, FileTypes, Directory, Phase, Session, Errors
<1>7. ASSUME NEW p \in Procs, WriteRecord(p) PROVE LocalTypes'
  <2>1. p \in Reserving
    BY <1>7 DEF WriteRecord, Reserving, TickSound, Unrecorded
  <2>2. ticks + 1 \in 0 .. MaxTicks
    BY <2>1, RoomForRecord DEF FileTypes
  <2> QED
    BY <1>7, <2>2 DEF WriteRecord, Goto, Fail, LocalTypes, Phase, Session, Errors
<1>8. ASSUME NEW p \in Procs, SyncJournal(p) PROVE LocalTypes'
  BY <1>8 DEF SyncJournal, Goto, LocalTypes, Phase, Session, Artifacts
<1>9. ASSUME NEW p \in Procs, Close(p) \/ Kill(p) PROVE LocalTypes'
  BY <1>9, GoneTypes DEF Close, Kill
<1>10. CASE PowerFailure
  BY <1>10, GoneTypes DEF PowerFailure
<1>11. CASE UNCHANGED vars
  BY <1>11 DEF vars, LocalTypes
<1> QED
  BY <1>1, <1>2, <1>3, <1>4, <1>5, <1>6, <1>7, <1>8, <1>9, <1>10, <1>11 DEF Next, Step

\* Every action keeps the files in their types.
LEMMA FileTypeStep ==
    ASSUME LocalTypes, FileTypes, TicksReserved, \A p \in Procs : TickSound(p), [Next]_vars
    PROVE  FileTypes'
<1> USE ObserverAssumption
<1>1. ASSUME NEW d \in Directory, ChangeDir(d), UNCHANGED data PROVE FileTypes'
  BY <1>1 DEF ChangeDir, data, FileTypes
<1>2. ASSUME UNCHANGED <<dir, olds, data>> PROVE FileTypes'
  BY <1>2 DEF data, FileTypes
<1>3. ASSUME NEW p \in Procs, NEW state \in {"dirty", "synced"}
      PROVE  Temp(p, state) \in Artifacts \X Procs \X {"dirty", "synced"}
  BY <1>3 DEF Temp, LocalTypes
<1>4. ASSUME NEW p \in Procs, CreateLock(p) PROVE FileTypes'
  <2>1. [dir EXCEPT !.lock = TRUE] \in Directory
    BY DEF FileTypes, Directory
  <2> QED
    BY <1>1, <1>2, <1>4, <2>1 DEF CreateLock
<1>5. ASSUME NEW p \in Procs, Sweep(p) PROVE FileTypes'
  <2>1. [dir EXCEPT !.temps = {}] \in Directory
    BY DEF FileTypes, Directory
  <2> QED
    BY <1>1, <1>2, <1>5, <2>1 DEF Sweep
<1>6. ASSUME NEW p \in Procs, CreateTemp(p) PROVE FileTypes'
  <2>1. [dir EXCEPT !.temps = @ \cup {Temp(p, "dirty")}] \in Directory
    BY <1>3 DEF FileTypes, Directory
  <2> QED
    BY <1>1, <1>6, <2>1 DEF CreateTemp
<1>7. ASSUME NEW p \in Procs, WriteTemp(p) PROVE FileTypes'
  <2>1. [dir EXCEPT !.temps = (@ \ {Temp(p, "dirty")}) \cup {Temp(p, "synced")}] \in Directory
    BY <1>3 DEF FileTypes, Directory
  <2> QED
    BY <1>7, <2>1 DEF WriteTemp, FileTypes, data
<1>8. ASSUME NEW p \in Procs, Rename(p) PROVE FileTypes'
  <2> DEFINE rest == dir.temps \ {Temp(p, "dirty"), Temp(p, "synced")}
  <2>1. [dir EXCEPT !.temps = rest, !.marker = bind[p]] \in Directory
    BY DEF FileTypes, Directory, LocalTypes
  <2>2. [dir EXCEPT !.temps = rest, !.memory = own[p], !.torn = Temp(p, "synced") \notin dir.temps]
        \in Directory
    BY DEF FileTypes, Directory, LocalTypes
  <2> QED
    BY <1>1, <1>8, <2>1, <2>2 DEF Rename
<1>9. ASSUME NEW p \in Procs, SyncRename(p) \/ SyncNewJournal(p) PROVE FileTypes'
  BY <1>9 DEF SyncRename, SyncNewJournal, FileTypes, data
<1>10. ASSUME NEW p \in Procs, AtomicWriteError(p) PROVE FileTypes'
  <2>1. [dir EXCEPT !.temps = @ \ {Temp(p, "dirty"), Temp(p, "synced")}] \in Directory
    BY DEF FileTypes, Directory
  <2> QED
    BY <1>1, <1>2, <1>10, <2>1 DEF AtomicWriteError
<1>11. ASSUME NEW p \in Procs, OpenJournal(p) PROVE FileTypes'
  <2>1. [dir EXCEPT !.journal = TRUE] \in Directory
    BY DEF FileTypes, Directory
  <2> QED
    BY <1>1, <1>2, <1>11, <2>1 DEF OpenJournal
<1>12. ASSUME NEW p \in Procs, pc[p] = "append", NEW whole \in BOOLEAN, log' = Append(log, Record(p, whole)),
              ticks' = ticks + 1, UNCHANGED <<dir, olds, synced>>
       PROVE  FileTypes'
  <2>1. p \in Reserving /\ bind[p] \in Bindings
    BY <1>12 DEF Reserving, TickSound, Unrecorded
  <2>2. ticks + 1 \in 1 .. MaxTicks
    BY <2>1, RoomForRecord DEF FileTypes
  <2>3. Record(p, whole) \in Records
    BY <2>1, <2>2 DEF Record, Records, LocalTypes
  <2> QED
    BY <1>12, <2>2, <2>3 DEF FileTypes
<1>13. ASSUME NEW p \in Procs, WriteRecord(p) PROVE FileTypes'
  BY <1>12, <1>13 DEF WriteRecord
<1>14. ASSUME NEW p \in Procs, SyncJournal(p) PROVE FileTypes'
  BY <1>14 DEF SyncJournal, FileTypes
<1>15. ASSUME NEW p \in Procs, Kill(p) PROVE FileTypes'
  BY <1>2, <1>12, <1>15 DEF Kill, data
<1>16. CASE PowerFailure
  <2>1. PICK d \in olds \cup {dir} : dir' = d /\ log' \in IF d.journal THEN Remains ELSE {<<>>}
    BY <1>16 DEF PowerFailure
  <2>2. log' \in Seq(Records)
    <3>1. CASE d.journal
      <4>1. PICK rest \in Remains : log' = rest
        BY <2>1, <3>1
      <4> QED
        BY <4>1, RemainsOf DEF FileTypes
    <3>2. CASE ~d.journal
      BY <2>1, <3>2
    <3> QED
      BY <3>1, <3>2
  <2> QED
    BY <1>16, <2>1, <2>2 DEF PowerFailure, FileTypes
<1>17. ASSUME NEW p \in Procs,
              LookForLock(p) \/ InspectUnlocked(p) \/ LookAgain(p) \/ TakeLock(p) \/ LockTimeout(p)
              \/ Initialize(p) \/ LoadMemory(p) \/ Collect(p) \/ JournalError(p) \/ Close(p)
       PROVE  FileTypes'
  BY <1>2, <1>17 DEF LookForLock, InspectUnlocked, LookAgain, TakeLock, LockTimeout, Initialize,
     LoadMemory, Collect, JournalError, Close
<1>18. ASSUME NEW p \in Procs, NEW b \in Bindings, Begin(p, b) PROVE FileTypes'
  BY <1>2, <1>18 DEF Begin
<1>19. CASE UNCHANGED vars
  BY <1>2, <1>19 DEF vars, data
<1> QED
  BY <1>4, <1>5, <1>6, <1>7, <1>8, <1>9, <1>10, <1>11, <1>13, <1>14, <1>15, <1>16, <1>17, <1>18, <1>19
     DEF Next, Step, Open

-----------------------------------------------------------------------------
(* The files *)

\* The directories a tick may find and the journal, without the ticks.
FilesSound ==
    /\ \A d \in olds \cup {dir} : DirSound(d)
    /\ log # <<>> => dir.journal
    /\ JournalSound

\* An operation on the directory keeps all directories sound when the new one is, does
\* not rebind it and has a journal when there are records.
LEMMA DirChanged ==
    ASSUME LocalTypes, FileTypes, FilesSound, NEW d \in Directory, ChangeDir(d), UNCHANGED <<log, synced>>,
           ~d.torn, d.marker = None => ~d.journal, d.marker # None \/ d.temps # {} => d.lock,
           dir.marker \in {None, d.marker},
           d.memory # 0 => d.journal /\ Recorded(d.memory, synced),
           dir.journal => d.journal
    PROVE  FilesSound'
<1>1. DirSound(d)'
  BY DEF ChangeDir, DirSound, Recorded
<1>2. ASSUME NEW e \in olds \cup {dir} PROVE DirSound(e)'
  BY <1>2 DEF FilesSound, ChangeDir, DirSound, Recorded
<1>3. JournalSound'
  BY DEF FilesSound, FileTypes, JournalSound, OnlyLastRecordPartial, OneBinding, ChangeDir, DirSound
<1> QED
  BY <1>1, <1>2, <1>3 DEF FilesSound, ChangeDir

\* A record by the tick that has the journal open keeps the journal sound: there is
\* no partial record before it and the marker names its inputs.
LEMMA RecordAdded ==
    ASSUME LocalTypes, FileTypes, FilesSound, NEW p \in Procs, TickSound(p), pc[p] = "append",
           NEW whole \in BOOLEAN, log' = Append(log, Record(p, whole)), UNCHANGED <<dir, olds, synced>>
    PROVE  FilesSound'
<1>1. Len(log') = Len(log) + 1 /\ log'[Len(log) + 1] = Record(p, whole)
      /\ \A i \in 1 .. Len(log) : log'[i] = log[i]
  BY DEF FileTypes
<1>2. log = <<>> \/ log[Len(log)].whole
  BY DEF TickSound
<1>3. dir.journal /\ dir.marker = bind[p]
  BY DEF TickSound
<1>4. OnlyLastRecordPartial'
  BY <1>1, <1>2 DEF FilesSound, JournalSound, OnlyLastRecordPartial, FileTypes
<1>5. OneBinding'
  BY <1>1, <1>3 DEF FilesSound, JournalSound, OneBinding, FileTypes, Record
<1>6. ASSUME NEW d \in olds \cup {dir} PROVE DirSound(d)'
  BY <1>1, <1>6 DEF FilesSound, DirSound, Recorded, FileTypes
<1> QED
  BY <1>3, <1>4, <1>5, <1>6 DEF FilesSound, JournalSound

\* Nothing but the directory and the journal matters to their soundness.
LEMMA FilesSame ==
    ASSUME FilesSound, olds' \subseteq olds, UNCHANGED <<dir, log, synced>>
    PROVE  FilesSound'
BY DEF FilesSound, DirSound, Recorded, JournalSound, OnlyLastRecordPartial, OneBinding

\* A power failure at any moment leaves a sound directory: the memory it restores has
\* its record on the disk, and a journal that is lost was lost before the memory.
LEMMA PowerFailureSound ==
    ASSUME LocalTypes, FileTypes, FilesSound, PowerFailure
    PROVE  FilesSound'
<1>1. PICK d \in olds \cup {dir} :
        dir' = d /\ log' \in IF d.journal THEN Remains ELSE {<<>>}
  BY DEF PowerFailure
<1>2. olds' = {} /\ synced' = Len(log')
  BY DEF PowerFailure
<1>3. DirSound(d)
  BY DEF FilesSound
<1>4. CASE ~d.journal
  <2>1. Len(log') = 0
    BY <1>1, <1>4
  <2>2. JournalSound'
    BY <2>1 DEF JournalSound, OnlyLastRecordPartial, OneBinding
  <2>3. DirSound(d)'
    BY <1>1, <1>3, <1>4 DEF DirSound
  <2> QED
    BY <1>1, <1>2, <1>4, <2>2, <2>3 DEF FilesSound
<1>5. CASE d.journal
  <2>0. PICK rest \in Remains : log' = rest
    BY <1>1, <1>5
  <2>1. /\ Len(rest) \in synced .. Len(log)
        /\ \A i \in 1 .. Len(rest) :
             /\ rest[i].tick = log[i].tick /\ rest[i].bind = log[i].bind
             /\ i < Len(rest) \/ i <= synced => rest[i].whole = log[i].whole
    BY RemainsOf DEF FileTypes
  <2>2. log' = rest /\ d.marker = dir.marker
    BY <1>3, <1>5, <2>0 DEF DirSound
  <2>3. OnlyLastRecordPartial'
    BY <2>1, <2>2 DEF FilesSound, JournalSound, OnlyLastRecordPartial, FileTypes
  <2>4. OneBinding'
    BY <1>1, <2>1, <2>2 DEF FilesSound, JournalSound, OneBinding, FileTypes
  <2>5. ASSUME NEW t, Recorded(t, synced) PROVE Recorded(t, synced)'
    BY <1>2, <2>1, <2>2, <2>5 DEF Recorded, FileTypes
  <2>6. DirSound(d)'
    BY <1>1, <1>3, <2>5 DEF DirSound
  <2> QED
    BY <1>1, <1>2, <1>5, <2>3, <2>4, <2>6 DEF FilesSound, JournalSound
<1> QED
  BY <1>4, <1>5

\* Every action keeps the files sound.
LEMMA FilesStep ==
    ASSUME LocalTypes, FileTypes, FilesSound, \A p \in Procs : TickSound(p), [Next]_vars
    PROVE  FilesSound'
<1> USE ObserverAssumption
<1>0. dir \in Directory /\ DirSound(dir) /\ \A p \in Procs : TickSound(p)
  BY DEF FileTypes, FilesSound
<1>1. ASSUME NEW p \in Procs, CreateLock(p) PROVE FilesSound'
  <2> DEFINE d == [dir EXCEPT !.lock = TRUE]
  <2>1. d \in Directory /\ d.lock /\ d.marker = dir.marker /\ d.journal = dir.journal
        /\ d.memory = dir.memory /\ d.torn = dir.torn
    BY <1>0 DEF Directory
  <2> HIDE DEF d
  <2>2. CASE ChangeDir(d)
    BY <1>0, <1>1, <2>1, <2>2, DirChanged DEF CreateLock, data, DirSound
  <2> QED
    BY <1>1, <2>2, FilesSame DEF CreateLock, data, d
<1>2. ASSUME NEW p \in Procs, NEW t \in SUBSET (Artifacts \X Procs \X {"dirty", "synced"}), dir.lock,
             ChangeDir([dir EXCEPT !.temps = t]), UNCHANGED data
      PROVE  FilesSound'
  <2> DEFINE d == [dir EXCEPT !.temps = t]
  <2>1. d \in Directory /\ d.lock = dir.lock /\ d.marker = dir.marker /\ d.journal = dir.journal
        /\ d.memory = dir.memory /\ d.torn = dir.torn
    BY <1>0 DEF Directory
  <2>2. ChangeDir(d)
    BY <1>2
  <2> HIDE DEF d
  <2> QED
    BY <1>0, <1>2, <2>1, <2>2, DirChanged DEF data, DirSound
<1>3. ASSUME NEW p \in Procs PROVE Temp(p, "dirty") \in Artifacts \X Procs \X {"dirty", "synced"}
  BY <1>3 DEF Temp, LocalTypes
<1>4. ASSUME NEW p \in Procs, Sweep(p) PROVE FilesSound'
  <2>1. dir.lock
    BY <1>0, <1>4 DEF Sweep, TickSound, Session
  <2> QED
    BY <1>2, <1>4, <2>1, FilesSame DEF Sweep, data
<1>5. ASSUME NEW p \in Procs, CreateTemp(p) PROVE FilesSound'
  <2>1. dir.lock
    BY <1>0, <1>5 DEF CreateTemp, TickSound, Session
  <2>2. dir.temps \cup {Temp(p, "dirty")} \in SUBSET (Artifacts \X Procs \X {"dirty", "synced"})
    BY <1>0, <1>3 DEF Directory
  <2> QED
    BY <1>2, <1>5, <2>1, <2>2 DEF CreateTemp
<1>6. ASSUME NEW p \in Procs, AtomicWriteError(p) PROVE FilesSound'
  <2>1. dir.lock
    BY <1>0, <1>6 DEF AtomicWriteError, TickSound, Session
  <2>2. dir.temps \ {Temp(p, "dirty"), Temp(p, "synced")}
          \in SUBSET (Artifacts \X Procs \X {"dirty", "synced"})
    BY <1>0 DEF Directory
  <2> QED
    BY <1>2, <1>6, <2>1, <2>2, FilesSame DEF AtomicWriteError, data
<1>7. ASSUME NEW p \in Procs, WriteTemp(p) PROVE FilesSound'
  <2>1. dir.lock
    BY <1>0, <1>7 DEF WriteTemp, TickSound, Session
  <2>2. dir'.lock /\ dir'.marker = dir.marker /\ dir'.journal = dir.journal
        /\ dir'.memory = dir.memory /\ dir'.torn = dir.torn
    BY <1>0, <1>7, <2>1 DEF WriteTemp, Directory
  <2> QED
    BY <1>0, <1>7, <2>2 DEF WriteTemp, data, FilesSound, DirSound, Recorded, JournalSound,
       OnlyLastRecordPartial, OneBinding
<1>8. ASSUME NEW p \in Procs, Rename(p) PROVE FilesSound'
  <2> DEFINE rest == dir.temps \ {Temp(p, "dirty"), Temp(p, "synced")}
             bound == [dir EXCEPT !.temps = rest, !.marker = bind[p]]
             led == [dir EXCEPT !.temps = rest, !.memory = own[p],
                                !.torn = Temp(p, "synced") \notin dir.temps]
  <2>1. dir.lock /\ Temp(p, "synced") \in dir.temps /\ bind[p] \in Bindings
    BY <1>0, <1>8 DEF Rename, TickSound, Session
  <2>2. CASE art[p] = "marker"
    <3>1. dir.marker = None
      BY <1>0, <1>8, <2>2 DEF Rename, TickSound, WritesMarker
    <3>2. bound \in Directory /\ bound.lock /\ bound.marker = bind[p] /\ bound.journal = dir.journal
          /\ bound.memory = dir.memory /\ bound.torn = dir.torn
      BY <1>0, <2>1 DEF Directory
    <3>3. ChangeDir(bound)
      BY <1>8, <2>2 DEF Rename
    <3> HIDE DEF bound
    <3> QED
      BY <1>0, <1>8, <2>1, <3>1, <3>2, <3>3, DirChanged DEF Rename, data, DirSound
  <2>3. CASE art[p] # "marker"
    <3>1. art[p] = "memory"
      BY <2>3 DEF LocalTypes, Artifacts
    <3>2. dir.journal /\ Recorded(own[p], synced)
      BY <1>0, <1>8, <3>1 DEF Rename, TickSound, WritesMemory
    <3>3. led \in Directory /\ led.lock /\ led.marker = dir.marker /\ led.journal = dir.journal
          /\ led.memory = own[p] /\ ~led.torn
      BY <1>0, <2>1 DEF Directory, LocalTypes
    <3>4. ChangeDir(led)
      BY <1>8, <2>3 DEF Rename
    <3> HIDE DEF led
    <3> QED
      BY <1>0, <1>8, <2>1, <3>2, <3>3, <3>4, DirChanged DEF Rename, data, DirSound
  <2> QED
    BY <2>2, <2>3
<1>9. ASSUME NEW p \in Procs, OpenJournal(p) PROVE FilesSound'
  <2> DEFINE d == [dir EXCEPT !.journal = TRUE]
  <2>1. dir.lock /\ dir.marker # None
    BY <1>0, <1>9 DEF OpenJournal, TickSound, Session
  <2>2. d \in Directory /\ d.lock /\ d.marker = dir.marker /\ d.journal
        /\ d.memory = dir.memory /\ d.torn = dir.torn
    BY <1>0, <2>1 DEF Directory
  <2> HIDE DEF d
  <2>3. CASE ChangeDir(d)
    BY <1>0, <1>9, <2>1, <2>2, <2>3, DirChanged DEF OpenJournal, data, DirSound
  <2> QED
    BY <1>9, <2>3, FilesSame DEF OpenJournal, data, d
<1>10. ASSUME NEW p \in Procs, WriteRecord(p) PROVE FilesSound'
  BY <1>0, <1>10, RecordAdded DEF WriteRecord
<1>11. ASSUME NEW p \in Procs, SyncJournal(p) PROVE FilesSound'
  BY <1>11 DEF SyncJournal, FileTypes, FilesSound, DirSound, Recorded, JournalSound,
     OnlyLastRecordPartial, OneBinding
<1>12. ASSUME NEW p \in Procs, SyncRename(p) \/ SyncNewJournal(p) PROVE FilesSound'
  BY <1>12, FilesSame DEF SyncRename, SyncNewJournal, data
<1>13. ASSUME NEW p \in Procs, Kill(p) PROVE FilesSound'
  BY <1>0, <1>13, FilesSame, RecordAdded DEF Kill
<1>14. CASE PowerFailure
  BY <1>14, PowerFailureSound
<1>15. ASSUME NEW p \in Procs,
              LookForLock(p) \/ InspectUnlocked(p) \/ LookAgain(p) \/ TakeLock(p) \/ LockTimeout(p)
              \/ Initialize(p) \/ LoadMemory(p) \/ Collect(p) \/ JournalError(p) \/ Close(p)
       PROVE  FilesSound'
  BY <1>15, FilesSame DEF LookForLock, InspectUnlocked, LookAgain, TakeLock, LockTimeout, Initialize,
     LoadMemory, Collect, JournalError, Close, data
<1>16. ASSUME NEW p \in Procs, NEW b \in Bindings, Begin(p, b) PROVE FilesSound'
  BY <1>16, FilesSame DEF Begin, data
<1>17. CASE UNCHANGED vars
  BY <1>17, FilesSame DEF vars
<1> QED
  BY <1>1, <1>4, <1>5, <1>6, <1>7, <1>8, <1>9, <1>10, <1>11, <1>12, <1>13, <1>14, <1>15, <1>16, <1>17
     DEF Next, Step, Open

-----------------------------------------------------------------------------
(* The ticks *)

\* A tick that does nothing keeps what it knows when the lock file stays, its flock
\* stays, and the files do not change under a tick that has the lock.
LEMMA Bystander ==
    ASSUME NEW q \in Procs, TickSound(q),
           pc'[q] = pc[q], bind'[q] = bind[q], art'[q] = art[q], base'[q] = base[q],
           own'[q] = own[q], err'[q] = err[q], flock = q => flock' = q,
           dir.lock => dir'.lock,
           \/ pc[q] \notin Session
           \/ /\ dir'.marker = dir.marker /\ dir'.journal = dir.journal
              /\ dir'.memory = dir.memory /\ dir'.temps = dir.temps
              /\ log' = log /\ synced' = synced
    PROVE  TickSound(q)'
<1>1. CASE pc[q] \notin Session
  BY <1>1 DEF TickSound, Session, Unrecorded, WritesMarker, WritesMemory
<1>2. CASE dir'.marker = dir.marker /\ dir'.journal = dir.journal
           /\ dir'.memory = dir.memory /\ dir'.temps = dir.temps /\ log' = log /\ synced' = synced
  BY <1>2 DEF TickSound, Session, Unrecorded, WritesMarker, WritesMemory, Temp, Recorded
<1> QED
  BY <1>1, <1>2

\* Only the holder of the flock is past the wait.
LEMMA OneSession ==
    ASSUME NEW p \in Procs, TickSound(p), pc[p] \in Session, NEW q \in Procs \ {p}, TickSound(q)
    PROVE  pc[q] \notin Session
BY DEF TickSound

\* While p does something in its session, the others keep what they know.
LEMMA SessionStep ==
    ASSUME NEW p \in Procs, \A q \in Procs : TickSound(q), pc[p] \in Session,
           \A q \in Procs \ {p} :
             /\ pc'[q] = pc[q] /\ bind'[q] = bind[q] /\ art'[q] = art[q]
             /\ base'[q] = base[q] /\ own'[q] = own[q] /\ err'[q] = err[q],
           dir.lock => dir'.lock, flock' = flock \/ flock = p
    PROVE  \A q \in Procs \ {p} : TickSound(q)'
<1> SUFFICES ASSUME NEW q \in Procs \ {p} PROVE TickSound(q)'
  OBVIOUS
<1>1. pc[q] \notin Session
  BY OneSession
<1>2. flock = q => flock' = q
  OBVIOUS
<1> QED
  BY <1>1, <1>2, Bystander

\* Opening the output: a tick waits only for a lock that is there, and what it takes for
\* foreign files is never the work of another tick that has not made the lock.
LEMMA OpenStep ==
    ASSUME LocalTypes, FileTypes, FilesSound, \A q \in Procs : TickSound(q), NEW p \in Procs, Open(p)
    PROVE  \A q \in Procs : TickSound(q)'
<1>1. dir \in Directory /\ DirSound(dir) /\ TickSound(p)
  BY DEF FileTypes, FilesSound
<1>2. dir'.marker = dir.marker /\ dir'.journal = dir.journal /\ dir'.memory = dir.memory
      /\ dir'.temps = dir.temps /\ log' = log /\ synced' = synced /\ (dir.lock => dir'.lock)
  BY <1>1 DEF Open, LookForLock, InspectUnlocked, LookAgain, CreateLock, TakeLock, LockTimeout,
     ChangeDir, data, Directory
<1>3. flock' = flock \/ (flock = None /\ flock' = p)
  BY DEF Open, LookForLock, InspectUnlocked, LookAgain, CreateLock, TakeLock, LockTimeout
<1>4. ASSUME NEW q \in Procs \ {p} PROVE TickSound(q)'
  <2>1. pc'[q] = pc[q] /\ bind'[q] = bind[q] /\ art'[q] = art[q] /\ base'[q] = base[q]
        /\ own'[q] = own[q] /\ err'[q] = err[q]
    BY DEF Open, LookForLock, InspectUnlocked, LookAgain, CreateLock, TakeLock, LockTimeout,
       local, Goto, Fail, LocalTypes
  <2> QED
    BY <1>2, <1>3, <2>1, Bystander, ObserverAssumption
<1>5. TickSound(p)'
  <2>1. CASE LookForLock(p)
    BY <1>1, <2>1 DEF LookForLock, local, data, Goto, LocalTypes, TickSound, Session, Unrecorded,
       WritesMarker, WritesMemory
  <2>2. CASE InspectUnlocked(p)
    <3>1. Complaint(bind[p]) \in {"none", "artifacts", "binding"}
      BY DEF Complaint
    <3>2. Complaint(bind[p]) = "artifacts" => dir.lock
      BY <1>1 DEF Complaint, DirSound
    <3> QED
      BY <1>1, <2>2, <3>1, <3>2 DEF InspectUnlocked, local, data, Goto, LocalTypes, TickSound, Session,
         Unrecorded, WritesMarker, WritesMemory
  <2>3. CASE LookAgain(p)
    BY <1>1, <2>3 DEF LookAgain, local, data, Goto, LocalTypes, TickSound, Session, Unrecorded,
       WritesMarker, WritesMemory
  <2>4. CASE CreateLock(p)
    <3>1. dir'.lock
      BY <1>1, <2>4 DEF CreateLock, ChangeDir, Directory
    <3> QED
      BY <1>1, <2>4, <3>1 DEF CreateLock, local, data, Goto, LocalTypes, TickSound, Session, Unrecorded,
         WritesMarker, WritesMemory
  <2>5. CASE TakeLock(p)
    BY <1>1, <2>5 DEF TakeLock, local, data, Goto, LocalTypes, TickSound, Session, Unrecorded,
       WritesMarker, WritesMemory
  <2>6. CASE LockTimeout(p)
    BY <1>1, <2>6 DEF LockTimeout, local, data, Goto, Fail, LocalTypes, TickSound, Session, Unrecorded,
       WritesMarker, WritesMemory
  <2> QED
    BY <2>1, <2>2, <2>3, <2>4, <2>5, <2>6 DEF Open
<1> QED
  BY <1>4, <1>5

\* The tick that has written its record whole can name it.
LEMMA RecordWritten ==
    ASSUME LocalTypes, FileTypes, NEW p \in Procs, TickSound(p), WriteRecord(p)
    PROVE  TickSound(p)'
<1>1. /\ bind' = bind /\ art' = art /\ base' = base /\ dir' = dir /\ flock' = flock
      /\ own'[p] = ticks' /\ ticks' = ticks + 1
  BY DEF WriteRecord, LocalTypes
<1>2. pc[p] = "append" /\ bind[p] \in Bindings /\ flock = p /\ dir.lock /\ dir.journal
      /\ dir.marker = bind[p] /\ dir.memory = base[p] /\ err[p] = "none"
  BY DEF WriteRecord, TickSound, Session
<1>3. CASE pc'[p] = "sync" /\ err' = err /\ log' = Append(log, Record(p, TRUE))
  <2> DEFINE r == Record(p, TRUE)
  <2>2. r.tick = ticks' /\ r.whole
    BY <1>1 DEF Record
  <2> HIDE DEF r
  <2>1. Len(log') = Len(log) + 1 /\ log'[Len(log) + 1] = r /\ Len(log) \in Nat
    <3>1. log' = Append(log, r)
      BY <1>3 DEF r
    <3> QED
      BY <3>1 DEF FileTypes
  <2>3. Recorded(own[p], Len(log))'
    BY <1>1, <2>1, <2>2 DEF Recorded
  <2> QED
    BY <1>1, <1>2, <1>3, <2>3 DEF TickSound, Unrecorded, Session, WritesMarker, WritesMemory
<1>4. CASE pc'[p] = "close" /\ err'[p] = "io"
  BY <1>1, <1>2, <1>4 DEF TickSound, Unrecorded, Session, WritesMarker, WritesMemory
<1> QED
  BY <1>3, <1>4 DEF WriteRecord, Goto, Fail, LocalTypes

\* The steps of the holder of the lock: each keeps what it has seen and done so far.
LEMMA WorkStep ==
    ASSUME LocalTypes, FileTypes, FilesSound, \A q \in Procs : TickSound(q), NEW p \in Procs,
           Step(p), ~Open(p), ~Close(p)
    PROVE  \A q \in Procs : TickSound(q)'
<1>1. dir \in Directory /\ DirSound(dir) /\ TickSound(p)
  BY DEF FileTypes, FilesSound
<1>2. pc[p] \in Session
  BY DEF Step, Sweep, Initialize, CreateTemp, WriteTemp, Rename, SyncRename, AtomicWriteError,
     LoadMemory, Collect, OpenJournal, WriteRecord, SyncJournal, SyncNewJournal, JournalError, Session
<1>3. flock' = flock
  BY DEF Step, Sweep, Initialize, CreateTemp, WriteTemp, Rename, SyncRename, AtomicWriteError,
     LoadMemory, Collect, OpenJournal, WriteRecord, SyncJournal, SyncNewJournal, JournalError
<1>4. dir.lock => dir'.lock
  BY <1>1 DEF Step, Sweep, Initialize, CreateTemp, WriteTemp, Rename, SyncRename, AtomicWriteError,
     LoadMemory, Collect, OpenJournal, WriteRecord, SyncJournal, SyncNewJournal, JournalError,
     ChangeDir, Directory
<1>5. ASSUME NEW q \in Procs \ {p}
      PROVE  pc'[q] = pc[q] /\ bind'[q] = bind[q] /\ art'[q] = art[q] /\ base'[q] = base[q]
             /\ own'[q] = own[q] /\ err'[q] = err[q]
  BY DEF Step, Sweep, Initialize, CreateTemp, WriteTemp, Rename, SyncRename, AtomicWriteError,
     LoadMemory, Collect, OpenJournal, WriteRecord, SyncJournal, SyncNewJournal, JournalError,
     local, Goto, Fail, LocalTypes
<1>6. \A q \in Procs \ {p} : TickSound(q)'
  BY <1>2, <1>3, <1>4, <1>5, SessionStep
<1> USE DEF local, data, Goto, Fail, LocalTypes, TickSound, Session, Unrecorded, WritesMarker,
        WritesMemory
<1>7. TickSound(p)'
  <2>1. CASE Sweep(p)
    BY <1>1, <2>1 DEF Sweep, ChangeDir, Directory
  <2>2. CASE Initialize(p)
    BY <1>1, <2>2 DEF Initialize, Complaint, DirSound
  <2>3. CASE CreateTemp(p)
    BY <1>1, <2>3 DEF CreateTemp, ChangeDir, Directory, Recorded
  <2>4. CASE WriteTemp(p)
    BY <1>1, <2>4 DEF WriteTemp, Directory, Recorded, Temp
  <2>5. CASE Rename(p)
    BY <1>1, <2>5 DEF Rename, ChangeDir, Directory, Artifacts
  <2>6. CASE SyncRename(p)
    BY <1>1, <2>6 DEF SyncRename, Artifacts
  <2>7. CASE AtomicWriteError(p)
    BY <1>1, <2>7 DEF AtomicWriteError, ChangeDir, Directory
  <2>8. CASE LoadMemory(p)
    BY <1>1, <2>8 DEF LoadMemory, DirSound
  <2>9. CASE Collect(p)
    BY <1>1, <2>9 DEF Collect
  <2>10. CASE OpenJournal(p)
    <3>1. dir'.journal /\ dir'.lock = dir.lock /\ dir'.marker = dir.marker /\ dir'.memory = dir.memory
      BY <1>1, <2>10 DEF OpenJournal, ChangeDir, Directory
    <3>2. pc'[p] = "append" => log = <<>> \/ log[Len(log)].whole
      BY <2>10 DEF OpenJournal
    <3> QED
      BY <1>1, <2>10, <3>1, <3>2 DEF OpenJournal
  <2>11. CASE WriteRecord(p)
    BY <1>1, <2>11, RecordWritten
  <2>12. CASE SyncJournal(p)
    BY <1>1, <2>12 DEF SyncJournal, Recorded
  <2>13. CASE SyncNewJournal(p)
    BY <1>1, <2>13 DEF SyncNewJournal, Recorded
  <2>14. CASE JournalError(p)
    BY <1>1, <2>14 DEF JournalError
  <2> QED
    BY <2>1, <2>2, <2>3, <2>4, <2>5, <2>6, <2>7, <2>8, <2>9, <2>10, <2>11, <2>12, <2>13, <2>14
       DEF Step
<1> QED
  BY <1>6, <1>7

\* A process that goes knows nothing; a partial record written on the way breaks no
\* promise, because no other tick is past the wait.
LEMMA GoneStep ==
    ASSUME LocalTypes, FileTypes, \A q \in Procs : TickSound(q), NEW p \in Procs, Close(p) \/ Kill(p)
    PROVE  \A q \in Procs : TickSound(q)'
<1>1. Gone({p}) /\ dir' = dir /\ synced' = synced
  BY DEF Close, Kill, data
<1>2. TickSound(p)'
  BY <1>1 DEF Gone, TickSound, Session, Unrecorded, WritesMarker, WritesMemory
<1>3. ASSUME NEW q \in Procs \ {p} PROVE TickSound(q)'
  <2>1. pc'[q] = pc[q] /\ bind'[q] = bind[q] /\ art'[q] = art[q] /\ base'[q] = base[q]
        /\ own'[q] = own[q] /\ err'[q] = err[q] /\ (flock = q => flock' = q)
    BY <1>1 DEF Gone
  <2>2. log' = log \/ pc[q] \notin Session
    <3>1. CASE pc[p] = "append"
      BY <3>1, OneSession DEF Session
    <3>2. CASE pc[p] # "append"
      BY <3>2 DEF Close, Kill, data
    <3> QED
      BY <3>1, <3>2
  <2> QED
    BY <1>1, <2>1, <2>2, Bystander
<1> QED
  BY <1>2, <1>3

\* Every step of a process, and every power failure, keeps what the ticks know.
LEMMA TickStep ==
    ASSUME LocalTypes, FileTypes, FilesSound, \A q \in Procs : TickSound(q), [Next]_vars
    PROVE  \A q \in Procs : TickSound(q)'
<1>1. ASSUME NEW p \in Procs, Step(p) PROVE \A q \in Procs : TickSound(q)'
  BY <1>1, OpenStep, WorkStep, GoneStep
<1>2. ASSUME NEW p \in Procs, Kill(p) PROVE \A q \in Procs : TickSound(q)'
  BY <1>2, GoneStep
<1>3. ASSUME NEW p \in Procs, NEW b \in Bindings, Begin(p, b) PROVE \A q \in Procs : TickSound(q)'
  <2>1. ASSUME NEW q \in Procs \ {p} PROVE TickSound(q)'
    BY <1>3, <2>1, Bystander DEF Begin, Goto, data, LocalTypes
  <2>2. TickSound(p)'
    BY <1>3 DEF Begin, Goto, data, LocalTypes, TickSound, Session, Unrecorded, WritesMarker, WritesMemory
  <2> QED
    BY <2>1, <2>2
<1>4. CASE PowerFailure
  BY <1>4 DEF PowerFailure, Gone, TickSound, Session, Unrecorded, WritesMarker, WritesMemory
<1>5. CASE UNCHANGED vars
  BY <1>5, Bystander DEF vars
<1> QED
  BY <1>1, <1>2, <1>3, <1>4, <1>5 DEF Next

-----------------------------------------------------------------------------
(* The theorems *)

\* A record that is cut off stays the last one while a tick is under way, and only a tick
\* that has seen it gives up for it.
LEMMA RefusalStep ==
    ASSUME LocalTypes, \A p \in Procs : TickSound(p) /\ TickSound(p)',
           OnlyPartialRecordRefused, [Next]_vars
    PROVE  OnlyPartialRecordRefused'
<1> SUFFICES ASSUME NEW q \in Procs, pc'[q] = "close", err'[q] = "partial" PROVE CutOffRecord'
  BY DEF OnlyPartialRecordRefused, TickSound
<1>1. ~PowerFailure
  BY DEF PowerFailure, Gone
<1>2. ASSUME CutOffRecord PROVE log' = log
  <2>1. ASSUME NEW p \in Procs PROVE pc[p] # "append"
    BY <1>2 DEF TickSound, CutOffRecord
  <2>2. ASSUME NEW p \in Procs, Step(p) PROVE log' = log
    BY <2>1, <2>2 DEF Step, Open, LookForLock, InspectUnlocked, LookAgain, CreateLock, TakeLock,
       LockTimeout, Sweep, Initialize, CreateTemp, WriteTemp, Rename, SyncRename, AtomicWriteError,
       LoadMemory, Collect, OpenJournal, WriteRecord, SyncJournal, SyncNewJournal, JournalError,
       Close, data
  <2> QED
    BY <1>1, <2>1, <2>2 DEF Next, Kill, Begin, data, vars
<1>3. CASE pc[q] = "close" /\ err[q] = "partial"
  BY <1>2, <1>3 DEF OnlyPartialRecordRefused, CutOffRecord
<1>4. CASE ~(pc[q] = "close" /\ err[q] = "partial")
  <2>1. ASSUME NEW p \in Procs, Step(p) PROVE OpenJournal(p) /\ CutOffRecord
    <3>1. CASE p # q
      <4>1. pc'[q] = pc[q] /\ err'[q] = err[q]
        BY <2>1, <3>1 DEF Step, Open, LookForLock, InspectUnlocked, LookAgain, CreateLock, TakeLock,
           LockTimeout, Sweep, Initialize, CreateTemp, WriteTemp, Rename, SyncRename, AtomicWriteError,
           LoadMemory, Collect, OpenJournal, WriteRecord, SyncJournal, SyncNewJournal, JournalError,
           Close, Gone, Goto, Fail, LocalTypes
      <4> QED
        BY <1>4, <4>1
    <3>2. CASE p = q
      <4>1. Complaint(bind[q]) \in {"none", "artifacts", "binding"}
        BY DEF Complaint
      <4>2. CASE Open(q)
        BY <1>4, <4>1, <4>2 DEF Open, LookForLock, InspectUnlocked, LookAgain, CreateLock, TakeLock,
           LockTimeout, Goto, Fail, LocalTypes, TickSound, local
      <4>3. CASE Step(q) /\ ~Open(q) /\ ~OpenJournal(q)
        BY <1>4, <4>1, <4>3 DEF Step, Sweep, Initialize, CreateTemp, WriteTemp, Rename, SyncRename,
           AtomicWriteError, LoadMemory, Collect, WriteRecord, SyncJournal, SyncNewJournal,
           JournalError, Close, Gone, Goto, Fail, LocalTypes, TickSound, local
      <4>4. CASE OpenJournal(q)
        BY <3>2, <4>4 DEF OpenJournal, Goto, Fail, LocalTypes, CutOffRecord
      <4> QED
        BY <2>1, <3>2, <4>2, <4>3, <4>4
    <3> QED
      BY <3>1, <3>2
  <2>2. ASSUME NEW p \in Procs, Kill(p) PROVE FALSE
    BY <1>4, <2>2 DEF Kill, Gone, LocalTypes
  <2>3. ASSUME NEW p \in Procs, NEW b \in Bindings, Begin(p, b) PROVE FALSE
    BY <1>4, <2>3 DEF Begin, Goto, LocalTypes
  <2>4. CutOffRecord
    BY <1>1, <1>4, <2>1, <2>2, <2>3 DEF Next, vars
  <2> QED
    BY <1>2, <2>4 DEF CutOffRecord
<1> QED
  BY <1>3, <1>4

\* The inductive invariant holds at the start.
LEMMA InvInit == Init => OutputInv
<1> SUFFICES ASSUME Init PROVE OutputInv
  OBVIOUS
<1> USE ObserverAssumption
<1>1. TypeOK
  BY TypeInit, TypeParts
<1>2. TicksReserved
  <2>1. Reserving = {} /\ ticks = 0
    BY DEF Init, Reserving
  <2>2. Cardinality(Reserving) = 0
    BY <2>1, FS_EmptySet
  <2> QED
    BY <2>1, <2>2 DEF TicksReserved, Reserving
<1>3. \A d \in olds \cup {dir} : DirSound(d)
  BY DEF Init, EmptyDir, DirSound
<1>4. log = <<>> /\ JournalSound
  BY DEF Init, JournalSound, OnlyLastRecordPartial, OneBinding
<1>5. \A p \in Procs : TickSound(p)
  BY DEF Init, TickSound, Session, Unrecorded, WritesMarker, WritesMemory
<1>6. OnlyPartialRecordRefused
  BY DEF Init, OnlyPartialRecordRefused
<1> QED
  BY <1>1, <1>2, <1>3, <1>4, <1>5, <1>6 DEF OutputInv

\* Every step keeps the inductive invariant.
LEMMA InvStep == OutputInv /\ [Next]_vars => OutputInv'
<1> SUFFICES ASSUME OutputInv, [Next]_vars PROVE OutputInv'
  OBVIOUS
<1>1. LocalTypes /\ FileTypes /\ TicksReserved /\ FilesSound /\ \A p \in Procs : TickSound(p)
  BY TypeParts DEF OutputInv, FilesSound
<1>2. LocalTypes' /\ FileTypes'
  BY <1>1, LocalTypeStep, FileTypeStep
<1>3. TypeOK'
  BY <1>2 DEF TypeOK, LocalTypes, FileTypes, Phase, Session, Errors, Directory
<1>4. TicksReserved'
  BY <1>1, RoomStep
<1>5. FilesSound'
  BY <1>1, FilesStep
<1>6. \A p \in Procs : TickSound(p)'
  BY <1>1, TickStep
<1>7. OnlyPartialRecordRefused'
  BY <1>1, <1>6, RefusalStep DEF OutputInv
<1> QED
  BY <1>3, <1>4, <1>5, <1>6, <1>7 DEF OutputInv, FilesSound

\* The inductive invariant of the output directory, at every moment of every execution.
THEOREM OutputInvariant == Spec => []OutputInv
BY InvInit, InvStep, PTL DEF Spec

\* Every variable keeps its type: no tick is written without room for its record.
THEOREM TypeCorrect == Spec => []TypeOK
<1>1. OutputInv => TypeOK
  BY DEF OutputInv
<1> QED
  BY <1>1, OutputInvariant, PTL

\* "Memory never leads the journal", at whatever moment processes and machine die: the
\* memory is whole and its record is whole in the journal (observer_store.go, atomic.go).
THEOREM MemoryNeverLeads == Spec => []JournalLeads
<1>1. OutputInv => JournalLeads
  BY DEF OutputInv, TypeOK, DirSound, Recorded, JournalLeads
<1> QED
  BY <1>1, OutputInvariant, PTL

\* The journal can always be read back: whole records of the inputs the marker names,
\* with at most the last one cut off, which then stays the last one.
THEOREM JournalReadable == Spec => []JournalSound
<1>1. OutputInv => JournalSound
  BY DEF OutputInv
<1> QED
  BY <1>1, OutputInvariant, PTL

\* No tick replaces a memory other than the one it started from.
THEOREM MemoriesInTurn == Spec => []NoLostMemory
<1>1. OutputInv => NoLostMemory
  BY DEF OutputInv, TickSound, WritesMemory, NoLostMemory
<1> QED
  BY <1>1, OutputInvariant, PTL

\* No tick takes what other ticks leave behind, dead or alive, for foreign files or a
\* broken memory; what stops it is a record that is really cut off.
THEOREM RefusalsExplained == Spec => []OnlyPartialRecordRefused
<1>1. OutputInv => OnlyPartialRecordRefused
  BY DEF OutputInv
<1> QED
  BY <1>1, OutputInvariant, PTL
=============================================================================
