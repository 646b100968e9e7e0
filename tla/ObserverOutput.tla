---------------------------- MODULE ObserverOutput ----------------------------
(***************************************************************************)
(* The output directory of `fleet tick`, shared by ticks that may overlap  *)
(* and that may die at any moment: tools/fleet/internal/fleetd/observer_*  *)
(* over tools/fleet/internal/state/atomic.go.                              *)
(*                                                                         *)
(* The directory holds a lock file, a marker that binds it to one pair of  *)
(* input files, an append-only journal and a memory file.  The last two    *)
(* carry one tick each: its record first, then the memory it leads to.     *)
(*                                                                         *)
(* A killed process leaves the files as they are.  A power failure also    *)
(* loses what was not synced: file contents arbitrarily, directory         *)
(* operations from some point on (metadata is journalled in order).        *)
(* Nobody else touches the directory, so the identity checks succeed.      *)
(***************************************************************************)
EXTENDS Integers, Sequences, FiniteSets

CONSTANTS
    Procs,        \* the processes that may run a tick
    Bindings,     \* the pairs of input files a tick may be started with
    Inputs,       \* those the ticks of each process are started with
    None,
    MaxTicks,     \* bound: the number of ticks that write a record
    Faults        \* what goes wrong: "io" errors, "kill", "power", "timeout"

ASSUME ObserverAssumption ==
    /\ None \notin Procs \cup Bindings
    /\ IsFiniteSet(Procs)
    /\ MaxTicks \in Nat
    /\ Inputs \in [Procs -> SUBSET Bindings]
    /\ Faults \subseteq {"io", "kill", "power", "timeout"}

VARIABLES
    pc,       \* pc[p]: the step of the tick p runs, "idle" when there is none
    bind,     \* bind[p]: the input files of p's tick
    art,      \* art[p]: the artifact p is writing atomically
    base,     \* base[p]: the tick whose memory p loaded, 0 for none
    own,      \* own[p]: the number of the record p wrote, 0 before
    created,  \* created[p]: did p create the journal?
    err,      \* err[p]: why p's tick fails
    flock,    \* the process that holds the flock of observer.lock
    dir,      \* the directory: which entries it has and what they lead to
    olds,     \* earlier directories that may be back after a power failure
    log,      \* the records in journal.jsonl
    synced,   \* how many of them are on disk
    ticks     \* the number of records written so far

vars == <<pc, bind, art, base, own, created, err, flock, dir, olds, log,
          synced, ticks>>

Artifacts == {"marker", "memory"}     \* the two files written atomically
EmptyDir == [lock |-> FALSE, marker |-> None, journal |-> FALSE,
             memory |-> 0, torn |-> FALSE, temps |-> {}]
Records == [tick : 1 .. MaxTicks, base : 0 .. MaxTicks, bind : Bindings, whole : BOOLEAN]

TypeOK ==
    /\ pc \in [Procs -> {"idle", "lstat", "inspect", "relook", "create", "wait",
                         "sweep", "init", "load", "collect", "open", "append", "sync",
                         "syncdir", "temp", "write", "rename", "settle", "close"}]
    /\ bind \in [Procs -> Bindings \cup {None}]
    /\ art \in [Procs -> Artifacts]
    /\ base \in [Procs -> 0 .. MaxTicks] /\ own \in [Procs -> 0 .. MaxTicks]
    /\ created \in [Procs -> BOOLEAN]
    /\ err \in [Procs -> {"none", "artifacts", "binding", "memory", "partial", "io", "timeout"}]
    /\ flock \in Procs \cup {None}
    /\ \A d \in olds \cup {dir} :
         d \in [lock : BOOLEAN, marker : Bindings \cup {None}, journal : BOOLEAN,
                memory : 0 .. MaxTicks, torn : BOOLEAN,
                temps : SUBSET (Artifacts \X Procs \X {"dirty", "synced"})]
    /\ log \in Seq(Records) /\ synced \in 0 .. Len(log) /\ ticks \in 0 .. MaxTicks

Init ==
    /\ pc = [p \in Procs |-> "idle"]
    /\ bind = [p \in Procs |-> None]
    /\ art = [p \in Procs |-> "marker"]
    /\ base = [p \in Procs |-> 0] /\ own = [p \in Procs |-> 0]
    /\ created = [p \in Procs |-> FALSE]
    /\ err = [p \in Procs |-> "none"]
    /\ flock = None
    /\ dir = EmptyDir /\ olds = {}
    /\ log = <<>> /\ synced = 0 /\ ticks = 0

Goto(p, step) == pc' = [pc EXCEPT ![p] = step]

\* A tick that cannot go on closes its files and returns the error.
Fail(p, why) == Goto(p, "close") /\ err' = [err EXCEPT ![p] = why]

\* An operation on directory entries: what was there may return after a crash.
ChangeDir(d) == dir' = d /\ olds' = olds \cup {dir}

data == <<log, synced, ticks>>
local == <<bind, art, base, own, created>>

-----------------------------------------------------------------------------
(* Opening the output *)

\* MaxTicks bounds the records: a tick starts when all those under way may write.
Begin(p, b) ==
    /\ pc[p] = "idle" /\ b \in Inputs[p]
    /\ ticks + Cardinality({q \in Procs : pc[q] # "idle"}) < MaxTicks
    /\ Goto(p, "lstat")
    /\ bind' = [bind EXCEPT ![p] = b]
    /\ UNCHANGED <<art, base, own, created, err, flock, dir, olds, data>>

\* Mutant: the marker is not compared with the inputs.
ComplaintIgnoringInputs(b) ==
    IF dir.temps # {} \/ (dir.marker = None /\ (dir.journal \/ dir.memory # 0))
       \/ (dir.marker # None /\ ~dir.lock)
    THEN "artifacts" ELSE "none"

(* inspectObserverOutput: only the four artifacts, the marker with a lock,   *)
(* nothing but the lock without a marker, and the marker of these inputs.    *)
Complaint(b) ==
    CASE dir.temps # {} -> "artifacts"
      [] dir.temps = {} /\ dir.marker = None
           -> IF dir.journal \/ dir.memory # 0 THEN "artifacts" ELSE "none"
      [] dir.temps = {} /\ dir.marker # None
           -> IF ~dir.lock THEN "artifacts"
              ELSE IF dir.marker # b THEN "binding" ELSE "none"

(* openLock: the lock file is there, or the directory is inspected without   *)
(* the lock, and a complaint is void when another process has made the lock  *)
(* in the meantime.                                                          *)
LookForLock(p) ==
    /\ pc[p] = "lstat"
    /\ Goto(p, IF dir.lock THEN "wait" ELSE "inspect")
    /\ UNCHANGED <<local, err, flock, dir, olds, data>>

InspectUnlocked(p) ==
    /\ pc[p] = "inspect"
    /\ IF Complaint(bind[p]) = "none"
       THEN Goto(p, "create") /\ UNCHANGED err
       ELSE Goto(p, "relook") /\ err' = [err EXCEPT ![p] = Complaint(bind[p])]
    /\ UNCHANGED <<local, flock, dir, olds, data>>

LookAgain(p) ==
    /\ pc[p] = "relook"
    /\ IF dir.lock
       THEN Goto(p, "lstat") /\ err' = [err EXCEPT ![p] = "none"]
       ELSE Goto(p, "close") /\ UNCHANGED err
    /\ UNCHANGED <<local, flock, dir, olds, data>>

CreateLock(p) ==
    /\ pc[p] = "create"
    /\ Goto(p, "wait")
    /\ IF dir.lock THEN UNCHANGED <<dir, olds>>
       ELSE ChangeDir([dir EXCEPT !.lock = TRUE])
    /\ UNCHANGED <<local, err, flock, data>>

\* Mutant: LOCK_SH in place of LOCK_EX.
TakeLockShared(p) ==
    /\ pc[p] = "wait"
    /\ flock' = p
    /\ Goto(p, "sweep")
    /\ UNCHANGED <<local, err, dir, olds, data>>

\* waitObserverLock; it tries before it looks at the deadline again.
TakeLock(p) ==
    /\ pc[p] = "wait" /\ flock = None
    /\ flock' = p
    /\ Goto(p, "sweep")
    /\ UNCHANGED <<local, err, dir, olds, data>>

\* Mutant: every poll has a deadline of its own.
LockTimeoutRestarted(p) == "timeout" \in Faults /\ pc[p] = "wait" /\ UNCHANGED vars

LockTimeout(p) ==
    /\ "timeout" \in Faults /\ pc[p] = "wait"
    /\ Fail(p, "timeout")
    /\ UNCHANGED <<local, flock, dir, olds, data>>

\* Mutant: the temp files of killed ticks stay.
SweepNothing(p) ==
    /\ pc[p] = "sweep"
    /\ Goto(p, "init")
    /\ UNCHANGED <<local, err, flock, dir, olds, data>>

\* removeStaleObserverTemps
Sweep(p) ==
    /\ pc[p] = "sweep"
    /\ Goto(p, "init")
    /\ IF dir.temps = {} THEN UNCHANGED <<dir, olds>>
       ELSE ChangeDir([dir EXCEPT !.temps = {}])
    /\ UNCHANGED <<local, err, flock, data>>

\* initialize, after the sweep: the first tick writes the marker.
Initialize(p) ==
    /\ pc[p] = "init"
    /\ IF Complaint(bind[p]) # "none" THEN Fail(p, Complaint(bind[p])) /\ UNCHANGED art
       ELSE /\ Goto(p, IF dir.marker = None THEN "temp" ELSE "load")
            /\ art' = [art EXCEPT ![p] = "marker"]
            /\ UNCHANGED err
    /\ UNCHANGED <<bind, base, own, created, flock, dir, olds, data>>

-----------------------------------------------------------------------------
(* WriteFileAtomicRoot, for the marker and for the memory *)

Temp(p, state) == <<art[p], p, state>>

CreateTemp(p) ==
    /\ pc[p] = "temp"
    /\ ChangeDir([dir EXCEPT !.temps = @ \cup {Temp(p, "dirty")}])
    /\ Goto(p, "write")
    /\ UNCHANGED <<local, err, flock, data>>

\* Mutant: the temp file is renamed without an fsync.
WriteTempUnsynced(p) ==
    /\ pc[p] = "write"
    /\ Goto(p, "rename")
    /\ UNCHANGED <<local, err, flock, dir, olds, data>>

\* writeSyncedFile; the contents of a file do not depend on the directory.
WriteTemp(p) ==
    /\ pc[p] = "write"
    /\ dir' = [dir EXCEPT !.temps = (@ \ {Temp(p, "dirty")}) \cup {Temp(p, "synced")}]
    /\ Goto(p, "rename")
    /\ UNCHANGED <<local, err, flock, olds, data>>

\* A file renamed before it was synced may be empty after a power failure.
Rename(p) ==
    /\ pc[p] = "rename"
    /\ LET rest == dir.temps \ {Temp(p, "dirty"), Temp(p, "synced")}
       IN  ChangeDir(IF art[p] = "marker"
                     THEN [dir EXCEPT !.temps = rest, !.marker = bind[p]]
                     ELSE [dir EXCEPT !.temps = rest, !.memory = own[p],
                                      !.torn = Temp(p, "synced") \notin dir.temps])
    /\ Goto(p, "settle")
    /\ UNCHANGED <<local, err, flock, data>>

SyncRename(p) ==
    /\ pc[p] = "settle"
    /\ olds' = {}
    /\ Goto(p, IF art[p] = "marker" THEN "load" ELSE "close")
    /\ UNCHANGED <<local, err, flock, dir, data>>

(* A failed write or rename removes the temp file; a failed fsync of the      *)
(* directory leaves the new file in place.                                   *)
AtomicWriteError(p) ==
    /\ "io" \in Faults /\ pc[p] \in {"temp", "write", "rename", "settle"}
    /\ Fail(p, "io")
    /\ IF pc[p] \in {"write", "rename"}
       THEN ChangeDir([dir EXCEPT !.temps = @ \ {Temp(p, "dirty"), Temp(p, "synced")}])
       ELSE UNCHANGED <<dir, olds>>
    /\ UNCHANGED <<local, flock, data>>

-----------------------------------------------------------------------------
(* The tick *)

LoadMemory(p) ==
    /\ pc[p] = "load"
    /\ IF dir.torn THEN Fail(p, "memory") /\ UNCHANGED base
       ELSE Goto(p, "collect") /\ base' = [base EXCEPT ![p] = dir.memory] /\ UNCHANGED err
    /\ UNCHANGED <<bind, art, own, created, flock, dir, olds, data>>

(* Collect and Evaluate; an expired context returns before anything is       *)
(* written, and an incomplete collection is written like a complete one.     *)
Collect(p) ==
    /\ pc[p] = "collect"
    /\ \/ Goto(p, "open") /\ UNCHANGED err
       \/ "timeout" \in Faults /\ Fail(p, "timeout")
    /\ UNCHANGED <<local, flock, dir, olds, data>>

\* Mutant: the last byte is not checked.
OpenJournalUnchecked(p) ==
    /\ pc[p] = "open"
    /\ created' = [created EXCEPT ![p] = ~dir.journal]
    /\ IF dir.journal THEN UNCHANGED <<dir, olds>>
       ELSE ChangeDir([dir EXCEPT !.journal = TRUE])
    /\ Goto(p, "append")
    /\ UNCHANGED <<bind, art, base, own, err, flock, data>>

(* appendJournal, up to the check of the last byte.  A new journal is empty. *)
OpenJournal(p) ==
    /\ pc[p] = "open"
    /\ created' = [created EXCEPT ![p] = ~dir.journal]
    /\ IF dir.journal THEN UNCHANGED <<dir, olds>>
       ELSE ChangeDir([dir EXCEPT !.journal = TRUE])
    /\ IF log # <<>> /\ ~log[Len(log)].whole
       THEN Fail(p, "partial")
       ELSE Goto(p, "append") /\ UNCHANGED err
    /\ UNCHANGED <<bind, art, base, own, flock, data>>

Record(p, whole) ==
    [tick |-> ticks + 1, base |-> base[p], bind |-> bind[p], whole |-> whole]

(* One write call.  A full disk or a kill in the middle leaves a part of the *)
(* record.                                                                   *)
WriteRecord(p) ==
    /\ pc[p] = "append"
    /\ ticks' = ticks + 1
    /\ own' = [own EXCEPT ![p] = ticks + 1]
    /\ \/ log' = Append(log, Record(p, TRUE)) /\ Goto(p, "sync") /\ UNCHANGED err
       \/ "io" \in Faults /\ log' = Append(log, Record(p, FALSE)) /\ Fail(p, "io")
    /\ UNCHANGED <<bind, art, base, created, flock, dir, olds, synced>>

\* Mutant: the journal is not synced before the memory is written.
SyncJournalNot(p) ==
    /\ pc[p] = "sync"
    /\ Goto(p, IF created[p] THEN "syncdir" ELSE "temp")
    /\ art' = [art EXCEPT ![p] = "memory"]
    /\ UNCHANGED <<bind, base, own, created, err, flock, dir, olds, data>>

\* Mutant: it counts a record that is not written yet as synced.
SyncJournalAhead(p) ==
    /\ pc[p] = "sync"
    /\ synced' = Len(log) + 1
    /\ Goto(p, IF created[p] THEN "syncdir" ELSE "temp")
    /\ art' = [art EXCEPT ![p] = "memory"]
    /\ UNCHANGED <<bind, base, own, created, err, flock, dir, olds, log, ticks>>

\* persist continues with the memory.
SyncJournal(p) ==
    /\ pc[p] = "sync"
    /\ synced' = Len(log)
    /\ Goto(p, IF created[p] THEN "syncdir" ELSE "temp")
    /\ art' = [art EXCEPT ![p] = "memory"]
    /\ UNCHANGED <<bind, base, own, created, err, flock, dir, olds, log, ticks>>

SyncNewJournal(p) ==
    /\ pc[p] = "syncdir"
    /\ olds' = {}
    /\ Goto(p, "temp")
    /\ UNCHANGED <<local, err, flock, dir, data>>

JournalError(p) ==
    /\ "io" \in Faults /\ pc[p] \in {"open", "append", "sync", "syncdir"}
    /\ Fail(p, "io")
    /\ UNCHANGED <<local, flock, dir, olds, data>>

\* The process is gone, and its flock with it.
Gone(P) ==
    /\ pc' = [p \in Procs |-> IF p \in P THEN "idle" ELSE pc[p]]
    /\ bind' = [p \in Procs |-> IF p \in P THEN None ELSE bind[p]]
    /\ art' = [p \in Procs |-> IF p \in P THEN "marker" ELSE art[p]]
    /\ base' = [p \in Procs |-> IF p \in P THEN 0 ELSE base[p]]
    /\ own' = [p \in Procs |-> IF p \in P THEN 0 ELSE own[p]]
    /\ created' = [p \in Procs |-> IF p \in P THEN FALSE ELSE created[p]]
    /\ err' = [p \in Procs |-> IF p \in P THEN "none" ELSE err[p]]
    /\ flock' = IF flock \in P THEN None ELSE flock

Close(p) ==
    /\ pc[p] = "close"
    /\ Gone({p})
    /\ UNCHANGED <<dir, olds, data>>

-----------------------------------------------------------------------------
(* Crashes *)

Kill(p) ==
    /\ "kill" \in Faults /\ pc[p] # "idle"
    /\ Gone({p})
    /\ \/ UNCHANGED <<log, ticks>>
       \/ /\ pc[p] = "append"
          /\ log' = Append(log, Record(p, FALSE)) /\ ticks' = ticks + 1
    /\ UNCHANGED <<dir, olds, synced>>

\* What may be left of the journal: all that was synced, and any part of the rest.
Remains ==
    {SubSeq(log, 1, n) : n \in synced .. Len(log)}
    \cup {[SubSeq(log, 1, n) EXCEPT ![n].whole = FALSE] : n \in synced + 1 .. Len(log)}

PowerFailure ==
    /\ "power" \in Faults
    /\ Gone(Procs)
    /\ \E d \in olds \cup {dir} :
         /\ dir' = d
         /\ log' \in IF d.journal THEN Remains ELSE {<<>>}
    /\ olds' = {}
    /\ synced' = Len(log')
    /\ UNCHANGED ticks

-----------------------------------------------------------------------------
Open(p) ==
    \/ LookForLock(p) \/ InspectUnlocked(p) \/ LookAgain(p) \/ CreateLock(p)
    \/ TakeLock(p) \/ LockTimeout(p)

Step(p) ==
    \/ Open(p) \/ Sweep(p) \/ Initialize(p)
    \/ CreateTemp(p) \/ WriteTemp(p) \/ Rename(p) \/ SyncRename(p) \/ AtomicWriteError(p)
    \/ LoadMemory(p) \/ Collect(p) \/ OpenJournal(p) \/ WriteRecord(p) \/ SyncJournal(p)
    \/ SyncNewJournal(p) \/ JournalError(p) \/ Close(p)

Next ==
    \/ \E p \in Procs : Step(p) \/ Kill(p) \/ \E b \in Bindings : Begin(p, b)
    \/ PowerFailure

Spec == Init /\ [][Next]_vars

\* A process that opens the output is scheduled; one that has the lock may hang
\* in its collection, in a program it asks or on its disk, for as long as it likes.
FairSpec == Spec /\ \A p \in Procs : WF_vars(Open(p))

-----------------------------------------------------------------------------
(* Properties *)

\* "Memory never leads the journal": the memory on disk is whole and comes from
\* a tick whose record is whole in the journal, whatever moment a process or the
\* machine dies at (observer_store.go:77-101, atomic.go:48-49).
JournalLeads ==
    /\ ~dir.torn
    /\ dir.memory # 0 => \E i \in 1 .. Len(log) : log[i].tick = dir.memory /\ log[i].whole

\* A partial record is only ever the last one: nothing is appended behind it.
OnlyLastRecordPartial == \A i \in 1 .. Len(log) - 1 : log[i].whole

\* One directory serves one pair of input files: every record was written by a
\* tick with the inputs the marker names.
OneBinding == \A i \in 1 .. Len(log) : log[i].bind = dir.marker

\* The journal can be read back: whole records of one pair of inputs, with at
\* most the last one cut off.
JournalSound == OnlyLastRecordPartial /\ OneBinding

\* Ticks are serialised from loading the memory to replacing it: no tick
\* replaces a memory other than the one it started from.
NoLostMemory ==
    \A p \in Procs :
        pc[p] \in {"collect", "open", "append", "sync", "syncdir"}
        \/ (pc[p] \in {"temp", "write", "rename"} /\ art[p] = "memory")
            => dir.memory = base[p]

\* Is the last record of the journal cut off?  Nothing in the program repairs it: from
\* then on every tick fails at it (observer_store.go:130-137), until the journal is
\* repaired by hand or a power failure loses the record.
CutOffRecord == log # <<>> /\ ~log[Len(log)].whole

\* However ticks overlap, fail or die, what they leave is never taken for foreign files
\* and never makes the memory unreadable.  The one thing left behind that stops later
\* ticks is a record cut off in the middle, and no tick claims one that is not there.
OnlyPartialRecordRefused ==
    \A p \in Procs : pc[p] = "close" =>
        err[p] \notin {"artifacts", "memory"} /\ (err[p] = "partial" => CutOffRecord)

\* A tick does not wait for ever to open the output, also when the tick that has
\* the lock never ends, and it does not go back and forth between looking for the
\* lock and inspecting the directory without it.
Opening == {"lstat", "inspect", "relook", "create", "wait"}
OpeningEnds == \A p \in Procs : pc[p] \in Opening ~> pc[p] \notin Opening
-----------------------------------------------------------------------------
(* The inductive invariant behind the properties *)

\* The phases of a tick that has the lock.  ("close" is reached with and without.)
Session == {"sweep", "init", "load", "collect", "open", "append", "sync", "syncdir",
            "temp", "write", "rename", "settle"}

\* The record of tick t is whole among the first n.
Recorded(t, n) == \E i \in 1 .. n : log[i].tick = t /\ log[i].whole

WritesMemory(p) == pc[p] \in {"temp", "write", "rename"} /\ art[p] = "memory"
WritesMarker(p) == pc[p] \in {"temp", "write", "rename"} /\ art[p] = "marker"

\* Has p's tick no record yet?
Unrecorded(p) ==
    \/ pc[p] \notin {"sync", "syncdir", "close", "temp", "write", "rename", "settle"}
    \/ pc[p] \in {"temp", "write", "rename", "settle"} /\ art[p] = "marker"

\* A directory a tick may find, now or after a power failure: nothing but the lock
\* before the marker, temp files only behind a lock, the marker never another one
\* than now, and a memory whose record is already on the disk.
DirSound(d) ==
    /\ ~d.torn
    /\ d.marker \in {None, dir.marker}
    /\ d.marker = None => ~d.journal
    /\ d.marker # None \/ d.temps # {} => d.lock
    /\ d.memory # 0 => d.journal /\ Recorded(d.memory, synced)

\* What a tick has seen or done so far still holds.
TickSound(p) ==
    /\ pc[p] \in Session => flock = p
    /\ pc[p] \in Session \cup {"wait"} => dir.lock
    /\ pc[p] # "idle" => bind[p] \in Bindings
    /\ Unrecorded(p) => own[p] = 0
    /\ pc[p] \notin {"relook", "close"} => err[p] = "none"
    /\ pc[p] = "relook" => err[p] \notin {"memory", "partial"} /\ (err[p] = "artifacts" => dir.lock)
    /\ pc[p] = "close" => err[p] \notin {"artifacts", "memory"}
    /\ pc[p] = "init" => dir.temps = {}
    /\ WritesMarker(p) => dir.marker = None
    /\ pc[p] = "syncdir" => art[p] = "memory"
    /\ pc[p] \in {"load", "collect", "open", "append", "sync", "syncdir", "settle"}
       \/ WritesMemory(p) => dir.marker = bind[p]
    /\ pc[p] = "rename" => Temp(p, "synced") \in dir.temps
    /\ pc[p] \in {"append", "sync", "syncdir"} \/ WritesMemory(p) => dir.journal
    /\ pc[p] = "append" => log = <<>> \/ log[Len(log)].whole
    /\ pc[p] = "sync" => Recorded(own[p], Len(log))
    /\ pc[p] = "syncdir" \/ WritesMemory(p) => Recorded(own[p], synced)
    /\ pc[p] \in {"collect", "open", "append", "sync", "syncdir"} \/ WritesMemory(p)
         => dir.memory = base[p]

\* Every tick under way that has no record yet has room for one.
TicksReserved ==
    ticks + Cardinality({p \in Procs : pc[p] # "idle" /\ own[p] = 0}) <= MaxTicks

OutputInv ==
    /\ TypeOK
    /\ TicksReserved
    /\ \A d \in olds \cup {dir} : DirSound(d)
    /\ log # <<>> => dir.journal
    /\ JournalSound
    /\ \A p \in Procs : TickSound(p)
    /\ OnlyPartialRecordRefused
=============================================================================
