------------------------------ MODULE FleetExec ------------------------------
(***************************************************************************)
(* The processes behind `fleet heavy -- cmd` and `fleet lock NAME -- cmd`: *)
(* tools/fleet/cmd/fleet/exec.go over tools/fleet/internal/lock/lock.go.   *)
(*                                                                         *)
(* A fleet process takes its locks one after the other, runs a child under *)
(* them, and releases them when the child has ended.  A lock is a set of   *)
(* files; the kernel lets one open file at a time hold the flock of a      *)
(* file, and drops it when the process ends, however it ends.              *)
(*                                                                         *)
(* One action is one system call that another process can observe, or one  *)
(* decision of the program.  Time is relative: Tick runs the deadlines of  *)
(* the waits down and the ages of the marker files up, so no clock needs a *)
(* bound.                                                                  *)
(***************************************************************************)
EXTENDS Integers, Sequences, FiniteSets

CONSTANTS
    Procs,        \* the pids a fleet process may have; a pid is reused when free
    None,         \* no process, no signal, no lock name
    HeavySlots,   \* config's heavy_slots
    Names,        \* the names of the named locks, golangci-lint among them
    Requests,     \* command lines: [heavy |-> is it `fleet heavy`, name |-> lock or None,
                  \* tty |-> is stdin a terminal?  Then the child gets no group of its own]
    TopLevel,     \* those of them that are given at the top level too, not only in a job
    SlotNames,    \* the values FLEET_SLOT may have
    Timeout,      \* the wait limit of a Semaphore, in ticks
    SigCap,       \* the capacity of the channel given to signal.Notify
    Signals,      \* the signals the environment sends
    Env           \* what the environment does: "kill9" sends SIGKILL to fleet processes,
                  \* "nesting" lets commands call fleet again, "strays" leaves processes in
                  \* the background, "faults" makes file operations and exec fail,
                  \* "reuse" gives a pid out again while its marker is being reaped

TermSignals == {"TERM", "HUP"}  \* the signals that ask a child to quit

ASSUME ConstantsAssumption ==
    /\ None \notin Procs /\ None \notin Names /\ None \notin SlotNames
    /\ None \notin {"INT", "TERM", "HUP", "heavy"}
    /\ HeavySlots \in Nat \ {0}
    /\ "heavy" \notin Names
    /\ Requests \subseteq [heavy : BOOLEAN, name : Names \cup {None}, tty : BOOLEAN]
    /\ TopLevel \subseteq Requests
    /\ Timeout \in Nat \ {0}
    /\ SigCap \in Nat \ {0}
    /\ Signals \subseteq {"INT", "TERM", "HUP"}
    /\ Env \subseteq {"kill9", "nesting", "strays", "faults", "reuse"}

Locks == Names \cup {"heavy"}

\* The number of lock files of a lock (lock.Heavy, lock.Named).
Capacity(l) == IF l = "heavy" THEN HeavySlots ELSE 1
FilesOf(l) == {l} \X (1 .. Capacity(l))
Files == UNION {FilesOf(l) : l \in Locks}

(* The semaphores a command takes: one under an inherited slot takes no      *)
(* second one, a lint takes the lint lock as well, and `fleet lock` takes    *)
(* its named lock only.                                                      *)
SemsOf(j) ==
    {l \in Locks : (l = "heavy" /\ j.heavy /\ ~j.held) \/ l = j.name}

\* The order of taking them: the slot first.
First(W) == CHOOSE l \in W : "heavy" \in W => l = "heavy"

VARIABLES
    pc,       \* pc[p]: where process p is, "idle" when there is no process p
    job,      \* job[p]: what p was started as
    want,     \* want[p]: the semaphores p still has to take
    scan,     \* scan[p]: the lock file tryAll looks at next
    outcome,  \* outcome[p]: what Acquire returned, then why p exits
    timer,    \* timer[p]: ticks left until the deadline of the current Acquire
    marked,   \* marked[p]: has the current Acquire written its marker?
    caught,   \* caught[p]: the signal the watcher took, which cancels the wait
    sigs,     \* sigs[p]: the channel signal.Notify fills
    armed,    \* armed[p]: is the timer set that follows a TERM or HUP with a SIGKILL?
    flock,    \* flock[f]: the process whose open file holds the flock of f
    marker,   \* marker[s][p]: the age of the file heavy-wait/s.p, NoMarker if absent
    sweep,    \* sweep[p]: the marker files p has listed and not looked at yet, and
              \* the one it is looking at
    raced,    \* history: was another process about to remove p's marker when it was
              \* written, having judged the file before?
    work      \* work[p]: the live processes of the job p started: the child, a stray

vars == <<pc, job, want, scan, outcome, timer, marked, caught, sigs, armed,
          flock, marker, sweep, raced, work>>

NoMarker == -1
NoJob == [heavy |-> FALSE, name |-> None, tty |-> FALSE, held |-> FALSE, slot |-> None,
          parent |-> None]

NoSweep == [listed |-> {}, victim |-> None]

Reaping == {"reap", "probe", "unlink"}
Acquiring == {"acquire", "reap", "probe", "unlink", "scan", "full", "wait", "giveup", "settle"}
Phases == Acquiring \cup {"idle", "spawn", "run", "release"}
Outcomes == {"none", "locked", "timeout", "cancelled", "failure", "signal",
             "notfound", "child"}

Alive(p) == pc[p] # "idle"
Owned(p) == {f \in Files : flock[f] = p}

TypeOK ==
    /\ pc \in [Procs -> Phases]
    /\ job \in [Procs -> [heavy : BOOLEAN, name : Names \cup {None}, tty : BOOLEAN, held : BOOLEAN,
                          slot : SlotNames \cup {None}, parent : Procs \cup {None}]]
    /\ want \in [Procs -> SUBSET Locks]
    /\ scan \in [Procs -> Nat]
    /\ outcome \in [Procs -> Outcomes]
    /\ timer \in [Procs -> 0 .. Timeout]
    /\ marked \in [Procs -> BOOLEAN]
    /\ caught \in [Procs -> Signals \cup {None}]
    /\ sigs \in [Procs -> Seq(Signals)]
    /\ armed \in [Procs -> BOOLEAN]
    /\ flock \in [Files -> Procs \cup {None}]
    /\ marker \in [SlotNames -> [Procs -> NoMarker .. Timeout]]
    /\ sweep \in [Procs -> [listed : SUBSET Procs, victim : Procs \cup {None}]]
    /\ raced \in [Procs -> BOOLEAN]
    /\ work \in [Procs -> SUBSET {"child", "stray"}]

Init ==
    /\ pc = [p \in Procs |-> "idle"]
    /\ job = [p \in Procs |-> NoJob]
    /\ want = [p \in Procs |-> {}]
    /\ scan = [p \in Procs |-> 1]
    /\ outcome = [p \in Procs |-> "none"]
    /\ timer = [p \in Procs |-> 0]
    /\ marked = [p \in Procs |-> FALSE]
    /\ caught = [p \in Procs |-> None]
    /\ sigs = [p \in Procs |-> <<>>]
    /\ armed = [p \in Procs |-> FALSE]
    /\ flock = [f \in Files |-> None]
    /\ marker = [s \in SlotNames |-> [p \in Procs |-> NoMarker]]
    /\ sweep = [p \in Procs |-> NoSweep]
    /\ raced = [p \in Procs |-> FALSE]
    /\ work = [p \in Procs |-> {}]

-----------------------------------------------------------------------------
(* The process tree *)

\* Mutant: `fleet lock` drops an inherited marker.
LockChildNotHeld(p) == job[p].heavy

\* Does the environment of the job p started carry FLEET_HEAVY_HELD?
ChildHeld(p) == job[p].held \/ job[p].heavy

(* The fleet processes in the process group that p's child leads.  The       *)
(* child of a nested fleet leads another group, so signals to this group     *)
(* reach the nested fleet and not its child.  With a terminal nobody leads a *)
(* group, and signals go to the child alone.                                 *)
Nested(p) == IF job[p].tty THEN {} ELSE {q \in Procs : Alive(q) /\ job[q].parent = p}

(* A pid is free when neither it nor a process group named after it is left. *)
FreePid(p) ==
    /\ ~Alive(p)
    /\ work[p] = {}
    /\ \A q \in Procs : Alive(q) => job[q].parent # p
    /\ "reuse" \in Env \/ \A q \in Procs : p \notin sweep[q].listed \cup {sweep[q].victim}

(* The processes in K are gone at once, the others are where phase says.     *)
(* The kernel drops the flocks of K; their marker files and the processes of *)
(* their jobs stay behind, with the environment they were given.             *)
Vanish(K, phase) ==
    /\ pc' = [q \in Procs |-> IF q \in K THEN "idle" ELSE phase[q]]
    /\ want' = [q \in Procs |-> IF q \in K THEN {} ELSE want[q]]
    /\ scan' = [q \in Procs |-> IF q \in K THEN 1 ELSE scan[q]]
    /\ outcome' = [q \in Procs |-> IF q \in K THEN "none" ELSE outcome[q]]
    /\ timer' = [q \in Procs |-> IF q \in K THEN 0 ELSE timer[q]]
    /\ marked' = [q \in Procs |-> IF q \in K THEN FALSE ELSE marked[q]]
    /\ caught' = [q \in Procs |-> IF q \in K THEN None ELSE caught[q]]
    /\ sigs' = [q \in Procs |-> IF q \in K THEN <<>> ELSE sigs[q]]
    /\ armed' = [q \in Procs |-> IF q \in K THEN FALSE ELSE armed[q]]
    /\ sweep' = [q \in Procs |-> IF q \in K THEN NoSweep ELSE sweep[q]]
    /\ raced' = [q \in Procs |-> IF q \in K THEN FALSE ELSE raced[q]]
    /\ flock' = [f \in Files |-> IF flock[f] \in K THEN None ELSE flock[f]]
    /\ job' = [q \in Procs |-> IF q \in K /\ work[q] = {} THEN NoJob ELSE job[q]]

-----------------------------------------------------------------------------
(* Starting and acquiring *)

(* runHeavy or runLock, up to and including signal.Notify.  A command starts *)
(* at the top level or inside a job, also inside one whose fleet process is  *)
(* gone; it then inherits stdin, FLEET_SLOT and FLEET_HEAVY_HELD.            *)
Start(p, r, s, parent) ==
    /\ FreePid(p)
    /\ parent = None => r \in TopLevel
    /\ parent # None =>
         "nesting" \in Env /\ parent # p /\ work[parent] # {} /\ s = job[parent].slot
    /\ LET j == [heavy |-> r.heavy, name |-> r.name, slot |-> s, parent |-> parent,
                 tty |-> IF parent = None THEN r.tty ELSE job[parent].tty,
                 held |-> parent # None /\ ChildHeld(parent)]
       IN  /\ job' = [job EXCEPT ![p] = j]
           /\ want' = [want EXCEPT ![p] = SemsOf(j)]
           /\ pc' = [pc EXCEPT ![p] = IF SemsOf(j) = {} THEN "spawn" ELSE "acquire"]
    /\ UNCHANGED <<scan, outcome, timer, marked, caught, sigs, armed, flock,
                   marker, sweep, raced, work>>

(* A marker counts while its process exists and it is younger than the      *)
(* wait limit.                                                               *)
Live(s, p) == marker[s][p] \in 0 .. Timeout - 1 /\ Alive(p)

HeavyWaiting(s) == \E p \in Procs : Live(s, p)

(* Acquire up to its first attempt: the deadline starts and, when the       *)
(* semaphore has a marker, the slot's marker files are listed.               *)
BeginAcquire(p) ==
    /\ pc[p] = "acquire"
    /\ LET found == {q \in Procs : job[p].heavy /\ marker[job[p].slot][q] # NoMarker}
       IN  /\ sweep' = [sweep EXCEPT ![p].listed = found]
           /\ pc' = [pc EXCEPT ![p] = IF found = {} THEN "scan" ELSE "reap"]
    /\ scan' = [scan EXCEPT ![p] = 1]
    /\ timer' = [timer EXCEPT ![p] = Timeout]
    /\ UNCHANGED <<job, want, outcome, marked, caught, sigs, armed, flock, marker, raced, work>>

(* reapStaleMarkers goes on with the next file listed, or Acquire with its   *)
(* first attempt.                                                            *)
NextMarker(p) ==
    /\ pc' = [pc EXCEPT ![p] = IF sweep[p].listed = {} THEN "scan" ELSE "reap"]
    /\ sweep' = [sweep EXCEPT ![p].victim = None]

(* The first half of live: a file that is missing or old goes.  Its age      *)
(* counts up to when Acquire began, so what came of age since may pass.      *)
StatMarker(p) ==
    /\ pc[p] = "reap"
    /\ \E q \in sweep[p].listed :
         LET age == marker[job[p].slot][q]
         IN  /\ sweep' = [sweep EXCEPT ![p] = [listed |-> @.listed \ {q}, victim |-> q]]
             /\ \/ age \in {NoMarker, Timeout} /\ pc' = [pc EXCEPT ![p] = "unlink"]
                \/ /\ age # NoMarker /\ (age = Timeout => timer[p] < Timeout)
                   /\ pc' = [pc EXCEPT ![p] = "probe"]
    /\ UNCHANGED <<job, want, scan, outcome, timer, marked, caught, sigs, armed, flock,
                   marker, raced, work>>

\* Mutant: the answer of kill(pid, 0) is read the wrong way round.
ProbeInverted(p) ==
    /\ pc[p] = "probe"
    /\ IF ~Alive(sweep[p].victim)
       THEN NextMarker(p)
       ELSE pc' = [pc EXCEPT ![p] = "unlink"] /\ UNCHANGED sweep
    /\ UNCHANGED <<job, want, scan, outcome, timer, marked, caught, sigs, armed, flock,
                   marker, raced, work>>

(* The second half: pidAlive asks the kernel whether the pid exists.         *)
ProbePid(p) ==
    /\ pc[p] = "probe"
    /\ IF Alive(sweep[p].victim)
       THEN NextMarker(p)
       ELSE pc' = [pc EXCEPT ![p] = "unlink"] /\ UNCHANGED sweep
    /\ UNCHANGED <<job, want, scan, outcome, timer, marked, caught, sigs, armed, flock,
                   marker, raced, work>>

(* The file goes by its name, whoever has written it by now.                 *)
UnlinkMarker(p) ==
    /\ pc[p] = "unlink"
    /\ marker' = [marker EXCEPT ![job[p].slot][sweep[p].victim] = NoMarker]
    /\ NextMarker(p)
    /\ UNCHANGED <<job, want, scan, outcome, timer, marked, caught, sigs, armed, flock,
                   raced, work>>

ReapMarkers(p) == StatMarker(p) \/ ProbePid(p) \/ UnlinkMarker(p)

\* Is another process of p's slot about to remove p's marker?
Condemned(p) ==
    \E r \in Procs : pc[r] = "unlink" /\ sweep[r].victim = p /\ job[r].slot = job[p].slot

\* Mutant: the deferred removal of the marker is missing.
ReturnKeepingMarker(p, result) ==
    /\ pc' = [pc EXCEPT ![p] = "settle"]
    /\ outcome' = [outcome EXCEPT ![p] = result]
    /\ marked' = [marked EXCEPT ![p] = FALSE]
    /\ raced' = [raced EXCEPT ![p] = FALSE]
    /\ marker' = marker

(* Acquire returns: its deferred call removes the marker it wrote.           *)
Return(p, result) ==
    /\ pc' = [pc EXCEPT ![p] = "settle"]
    /\ outcome' = [outcome EXCEPT ![p] = result]
    /\ marked' = [marked EXCEPT ![p] = FALSE]
    /\ raced' = [raced EXCEPT ![p] = FALSE]
    /\ marker' = IF marked[p]
                 THEN [marker EXCEPT ![job[p].slot][p] = NoMarker] ELSE marker

\* Mutant: LOCK_SH in place of LOCK_EX.
TakeFileShared(p) ==
    /\ pc[p] = "scan"
    /\ flock' = [flock EXCEPT ![<<First(want[p]), scan[p]>>] = p]
    /\ Return(p, "locked")
    /\ UNCHANGED <<job, want, scan, timer, caught, sigs, armed, sweep, work>>

(* tryAll tries the flock of one file after the other and takes the first    *)
(* that is free.                                                             *)
TakeFile(p) ==
    /\ pc[p] = "scan"
    /\ LET f == <<First(want[p]), scan[p]>>
       IN  flock[f] = None /\ flock' = [flock EXCEPT ![f] = p]
    /\ Return(p, "locked")
    /\ UNCHANGED <<job, want, scan, timer, caught, sigs, armed, sweep, work>>

SkipFile(p) ==
    /\ pc[p] = "scan"
    /\ LET l == First(want[p])
           last == scan[p] = Capacity(l)
       IN  /\ flock[<<l, scan[p]>>] # None
           /\ pc' = [pc EXCEPT ![p] = IF last THEN "full" ELSE "scan"]
           /\ scan' = [scan EXCEPT ![p] = IF last THEN @ ELSE @ + 1]
    /\ UNCHANGED <<job, want, outcome, timer, marked, caught, sigs, armed, flock,
                   marker, sweep, raced, work>>

\* Mutant: the context of the wait has no deadline.
CancelledBySignal(p) == caught[p] # None

Cancelled(p) == timer[p] = 0 \/ caught[p] # None   \* ctx.Done() is ready

(* No file was free: write the marker, once per Acquire, and enter the       *)
(* select.  Its context may be done already; the poll timer is not.          *)
Enqueue(p) ==
    /\ pc[p] = "full"
    /\ LET first == job[p].heavy /\ ~marked[p]
       IN  /\ marked' = [marked EXCEPT ![p] = @ \/ first]
           /\ marker' = IF first THEN [marker EXCEPT ![job[p].slot][p] = 0] ELSE marker
           /\ raced' = [raced EXCEPT ![p] = IF first THEN Condemned(p) ELSE @]
    /\ pc' = [pc EXCEPT ![p] = IF Cancelled(p) THEN "giveup" ELSE "wait"]
    /\ UNCHANGED <<job, want, scan, outcome, timer, caught, sigs, armed, flock, sweep, work>>

\* Mutant: every poll pushes the deadline back.
PollExtending(p) ==
    /\ pc[p] = "wait"
    /\ pc' = [pc EXCEPT ![p] = "scan"]
    /\ scan' = [scan EXCEPT ![p] = 1]
    /\ timer' = [timer EXCEPT ![p] = @ + 1]
    /\ UNCHANGED <<job, want, outcome, marked, caught, sigs, armed, flock, marker,
                   sweep, raced, work>>

Poll(p) ==
    /\ pc[p] = "wait"
    /\ pc' = [pc EXCEPT ![p] = "scan"]
    /\ scan' = [scan EXCEPT ![p] = 1]
    /\ UNCHANGED <<job, want, outcome, timer, marked, caught, sigs, armed,
                   flock, marker, sweep, raced, work>>

(* The context ended, by its deadline or because the watcher cancelled it.   *)
GiveUp(p) ==
    /\ pc[p] \in {"wait", "giveup"}
    /\ \/ timer[p] = 0 /\ Return(p, "timeout")
       \/ caught[p] # None /\ Return(p, "cancelled")
    /\ UNCHANGED <<job, want, scan, timer, caught, sigs, armed, flock, sweep, work>>

(* The lock directory cannot be made, a lock file cannot be opened or        *)
(* locked, or the marker cannot be written.                                  *)
AcquireError(p) ==
    /\ "faults" \in Env
    /\ \/ pc[p] \in {"acquire", "scan"}
       \/ pc[p] = "full" /\ job[p].heavy /\ ~marked[p]
    /\ Return(p, "failure")
    /\ UNCHANGED <<job, want, scan, timer, caught, sigs, armed, flock, sweep, work>>

-----------------------------------------------------------------------------
(* Signals *)

(* signal.Notify drops a signal its channel has no room for.  After the      *)
(* child has been waited for nobody reads the channel any more.              *)
Deliver(s, Q) ==
    sigs' = [q \in Procs |->
        IF q \in Q /\ pc[q] \notin {"idle", "release"} /\ Len(sigs[q]) < SigCap
        THEN Append(sigs[q], s) ELSE sigs[q]]

SendSignal(p, s) ==
    /\ pc[p] \notin {"idle", "release"}
    /\ Len(sigs[p]) < SigCap
    /\ Deliver(s, {p})
    /\ UNCHANGED <<pc, job, want, scan, outcome, timer, marked, caught, armed, flock,
                   marker, sweep, raced, work>>

(* The watcher goroutine takes one signal and cancels the wait.              *)
Watch(p) ==
    /\ pc[p] \in Acquiring
    /\ caught[p] = None /\ sigs[p] # <<>>
    /\ caught' = [caught EXCEPT ![p] = Head(sigs[p])]
    /\ sigs' = [sigs EXCEPT ![p] = Tail(sigs[p])]
    /\ UNCHANGED <<pc, job, want, scan, outcome, timer, marked, armed, flock,
                   marker, sweep, raced, work>>

\* Mutant: the error Acquire returned is not looked at.
SettleIgnoringErrors(p) ==
    /\ pc[p] = "settle"
    /\ IF caught[p] # None \/ sigs[p] # <<>>
       THEN /\ pc' = [pc EXCEPT ![p] = "release"]
            /\ outcome' = [outcome EXCEPT ![p] = "signal"]
            /\ UNCHANGED want
       ELSE /\ pc' = [pc EXCEPT ![p] = IF want[p] = {First(want[p])} THEN "spawn" ELSE "acquire"]
            /\ outcome' = [outcome EXCEPT ![p] = "none"]
            /\ want' = [want EXCEPT ![p] = @ \ {First(@)}]
    /\ scan' = [scan EXCEPT ![p] = 1]
    /\ timer' = [timer EXCEPT ![p] = 0]
    /\ UNCHANGED <<job, marked, caught, sigs, armed, flock, marker,
                   sweep, raced, work>>

(* The end of acquire: a signal caught or still queued wins over whatever    *)
(* Acquire returned.                                                         *)
Settle(p) ==
    /\ pc[p] = "settle"
    /\ IF caught[p] # None \/ sigs[p] # <<>>
       THEN /\ pc' = [pc EXCEPT ![p] = "release"]
            /\ outcome' = [outcome EXCEPT ![p] = "signal"]
            /\ UNCHANGED want
       ELSE IF outcome[p] = "locked"
       THEN /\ pc' = [pc EXCEPT ![p] = IF want[p] = {First(want[p])} THEN "spawn" ELSE "acquire"]
            /\ outcome' = [outcome EXCEPT ![p] = "none"]
            /\ want' = [want EXCEPT ![p] = @ \ {First(@)}]
       ELSE pc' = [pc EXCEPT ![p] = "release"] /\ UNCHANGED <<outcome, want>>
    /\ scan' = [scan EXCEPT ![p] = 1]
    /\ timer' = [timer EXCEPT ![p] = 0]
    /\ UNCHANGED <<job, marked, caught, sigs, armed, flock, marker,
                   sweep, raced, work>>

-----------------------------------------------------------------------------
(* The child *)

(* exec.Cmd.Start; when it fails the process exits with 127.                 *)
StartChild(p) ==
    /\ pc[p] = "spawn"
    /\ \/ /\ pc' = [pc EXCEPT ![p] = "run"]
          /\ outcome' = [outcome EXCEPT ![p] = "child"]
          /\ work' = [work EXCEPT ![p] = {"child"}]
       \/ /\ "faults" \in Env
          /\ pc' = [pc EXCEPT ![p] = "release"]
          /\ outcome' = [outcome EXCEPT ![p] = "notfound"]
          /\ UNCHANGED work
    /\ UNCHANGED <<job, want, scan, timer, marked, caught, sigs, armed, flock, marker, sweep, raced>>

(* The forwarder goroutine passes a signal on to the child's group; the first *)
(* TERM or HUP arms the escalation.                                          *)
Forward(p) ==
    /\ pc[p] = "run" /\ sigs[p] # <<>>
    /\ LET s == Head(sigs[p])
       IN  /\ sigs' = [q \in Procs |->
                 CASE q = p -> Tail(sigs[p])
                   [] q \in Nested(p) /\ pc[q] # "release" /\ Len(sigs[q]) < SigCap
                        -> Append(sigs[q], s)
                   [] OTHER -> sigs[q]]
           /\ armed' = [armed EXCEPT ![p] = @ \/ s \in TermSignals]
    /\ UNCHANGED <<pc, job, want, scan, outcome, timer, marked, caught, flock,
                   marker, sweep, raced, work>>

\* The group of p's child is sent SIGKILL, or only the child when it has none.
Killed(p) == IF job[p].tty THEN {"child"} ELSE {"child", "stray"}

\* Mutant: the escalation sends TERM once more.
EscalateWithTerm(p) == pc[p] = "run" /\ armed[p] /\ UNCHANGED vars

\* Mutant: fleet exits when the grace is over and leaves the child alone.
EscalateByExiting(p) ==
    /\ pc[p] = "run" /\ armed[p]
    /\ pc' = [pc EXCEPT ![p] = "release"]
    /\ UNCHANGED <<job, want, scan, outcome, timer, marked, caught, sigs, armed, flock,
                   marker, sweep, raced, work>>

(* killGrace after the first TERM or HUP.                                    *)
Escalate(p) ==
    /\ pc[p] = "run" /\ armed[p]
    /\ work' = [work EXCEPT ![p] = @ \ Killed(p)]
    /\ Vanish(Nested(p), pc)
    /\ UNCHANGED marker

(* Wait returned: the timer is stopped, and a group is killed with all that  *)
(* is left in it.                                                            *)
Reap(p) ==
    /\ pc[p] = "run" /\ "child" \notin work[p]
    /\ work' = [work EXCEPT ![p] = @ \ Killed(p)]
    /\ Vanish(Nested(p), [pc EXCEPT ![p] = "release"])
    /\ UNCHANGED marker

(* The deferred releases, the last lock taken first.                         *)
Release(p) ==
    /\ pc[p] = "release"
    /\ \E f \in Owned(p) :
         /\ f[1] = "heavy" => Owned(p) = {f}
         /\ flock' = [flock EXCEPT ![f] = None]
    /\ UNCHANGED <<pc, job, want, scan, outcome, timer, marked, caught, sigs, armed,
                   marker, sweep, raced, work>>

Exit(p) ==
    /\ pc[p] = "release" /\ Owned(p) = {}
    /\ Vanish({p}, pc)
    /\ UNCHANGED <<marker, work>>

-----------------------------------------------------------------------------
(* The environment *)

(* The child, or a process it left in the background, ends.                   *)
WorkEnds(p) ==
    /\ \E w \in work[p] : work' = [work EXCEPT ![p] = @ \ {w}]
    /\ UNCHANGED <<pc, job, want, scan, outcome, timer, marked, caught, sigs, armed,
                   flock, marker, sweep, raced>>

WorkForks(p) ==
    /\ "strays" \in Env /\ work[p] = {"child"}
    /\ work' = [work EXCEPT ![p] = {"child", "stray"}]
    /\ UNCHANGED <<pc, job, want, scan, outcome, timer, marked, caught, sigs, armed,
                   flock, marker, sweep, raced>>

(* kill -9 of a fleet process from outside, at any moment.                    *)
Kill9(p) ==
    /\ "kill9" \in Env /\ Alive(p)
    /\ Vanish({p}, pc)
    /\ UNCHANGED <<marker, work>>

Tick ==
    /\ timer' = [p \in Procs |-> IF timer[p] = 0 THEN 0 ELSE timer[p] - 1]
    /\ marker' = [s \in SlotNames |-> [p \in Procs |->
         IF marker[s][p] \in 0 .. Timeout - 1 THEN marker[s][p] + 1 ELSE marker[s][p]]]
    /\ UNCHANGED <<pc, job, want, scan, outcome, marked, caught, sigs, armed, flock,
                   sweep, raced, work>>

-----------------------------------------------------------------------------
\* What a fleet process does by itself: its main goroutine, and the watcher or
\* the forwarder beside it.
MainStep(p) ==
    \/ BeginAcquire(p) \/ ReapMarkers(p) \/ TakeFile(p) \/ SkipFile(p) \/ Enqueue(p) \/ Poll(p)
    \/ GiveUp(p) \/ AcquireError(p) \/ Settle(p)
    \/ StartChild(p) \/ Reap(p) \/ Release(p) \/ Exit(p)

SignalStep(p) == Watch(p) \/ Forward(p)

Environment(p) ==
    \/ \E r \in Requests, s \in SlotNames, q \in Procs \cup {None} : Start(p, r, s, q)
    \/ \E s \in Signals : SendSignal(p, s)
    \/ WorkEnds(p) \/ WorkForks(p) \/ Kill9(p)

Next ==
    \/ Tick
    \/ \E p \in Procs : MainStep(p) \/ SignalStep(p) \/ Escalate(p) \/ Environment(p)

(* The scheduler runs every goroutine and time passes; the environment   *)
(* owes nothing: a child may run for ever and ignore every signal.           *)
Fairness ==
    /\ WF_vars(Tick)
    /\ \A p \in Procs :
         WF_vars(MainStep(p)) /\ WF_vars(SignalStep(p)) /\ WF_vars(Escalate(p))

Spec == Init /\ [][Next]_vars
FairSpec == Spec /\ Fairness

-----------------------------------------------------------------------------
(* Properties *)

Holds(p, l) == \E f \in FilesOf(l) : flock[f] = p
Uses(p, l) == l \in SemsOf(job[p])

\* A command runs only while its fleet process holds every lock the command
\* asked for: no acquire is skipped and none is released before the child ended.
RunsUnderItsLocks ==
    \A p \in Procs, l \in Locks :
        pc[p] \in {"spawn", "run"} /\ Uses(p, l) => Holds(p, l)

\* The invariant behind it: a process holds whatever it uses and does not want
\* any more; it scans files of the lock it wants; and what Acquire reported as
\* locked is locked.
Accounted(p) ==
    /\ pc[p] \in Acquiring => want[p] # {}
    /\ pc[p] \in {"spawn", "run"} => want[p] = {}
    /\ pc[p] \in {"reap", "probe", "unlink", "scan"} =>
         scan[p] \in 1 .. Capacity(First(want[p]))
    /\ pc[p] = "settle" /\ outcome[p] = "locked" => Holds(p, First(want[p]))
    /\ pc[p] \in Acquiring \cup {"spawn", "run"} =>
         \A l \in SemsOf(job[p]) \ want[p] : Holds(p, l)

LockInv == TypeOK /\ \A p \in Procs : Accounted(p)

\* "At most len(Paths) holders run at once" (lock.go:74), counting the fleet
\* processes whose child is running.
RunnersWithinCapacity ==
    \A l \in Locks :
        Cardinality({p \in Procs : pc[p] = "run" /\ Uses(p, l)}) <= Capacity(l)

\* What is left of a job keeps its fleet process waiting for it: "fleet itself
\* cleans up on every other exit path" than kill -9 (lock.go:16-17).
WorkHasKeeper ==
    \A p \in Procs : work[p] \cap Killed(p) # {} => pc[p] = "run"

\* The fleet processes p runs under: its parent, and the parent of each of them that
\* is alive.
Ancestors(p) ==
    {q \in Procs : \A S \in SUBSET Procs :
        (\A r \in S \cup {p} : Alive(r) => job[r].parent \in S \cup {None}) => q \in S}

\* A nested `fleet heavy` never waits for a slot while a process it runs under
\* holds one, whatever `fleet lock` processes are between them (lock.go:41-42,
\* exec.go:226-229).
NoWaitForOwnSlot ==
    \A p \in Procs :
        pc[p] \in Acquiring /\ First(want[p]) = "heavy"
            => \A q \in Ancestors(p) : ~Holds(q, "heavy")

\* "Concurrent waiters never share or delete each other's marker ... so the hang
\* detector can tell a queued slot from a stuck one" (lock.go:79-82): a queued slot
\* counts as queued from its first poll to its deadline, whatever processes of the
\* slot reap, die and leave behind.  Against that comment one case is excepted, which
\* the code does not keep: the marker came into being between a reaper's judgement of
\* the file of that name and its removal (lock.go:204-211).
OnlyTheRaceHides ==
    \A p \in Procs :
        pc[p] = "wait" /\ job[p].heavy /\ timer[p] > 0 /\ ~raced[p]
            => Live(job[p].slot, p)

\* And it sees no other: a marker that counts belongs to a process that is
\* still inside Acquire for that slot.
MarkerMeansWaiting ==
    \A s \in SlotNames, p \in Procs :
        Live(s, p) => pc[p] \in Acquiring /\ job[p].heavy /\ job[p].slot = s

\* No wait lasts for ever, whatever the holder of the lock does: its child may run
\* without end, or wait itself for a lock of the one that waits.
EveryWaitEnds == \A p \in Procs : pc[p] \in Acquiring ~> pc[p] \notin Acquiring

\* "termination cannot be lost between waits" (exec.go:145): a process that was
\* sent a TERM or HUP ends, waiting or running, even if its child ignores every
\* signal.
Terminated(p) ==
    \/ caught[p] \in TermSignals
    \/ \E i \in 1 .. Len(sigs[p]) : sigs[p][i] \in TermSignals
TermEndsFleet == \A p \in Procs : Terminated(p) /\ pc[p] # "release" ~> ~Alive(p)

-----------------------------------------------------------------------------
(* The inductive invariants behind the other properties *)

\* p takes locks of its job only, one file of each and the slot first, and what it
\* has taken it wants no more.
Orderly(p) ==
    /\ pc[p] \in Acquiring => want[p] \subseteq SemsOf(job[p])
    /\ \A f \in Owned(p) :
         /\ Alive(p) /\ f[1] \in SemsOf(job[p])
         /\ pc[p] \in Acquiring /\ f[1] \in want[p] =>
              pc[p] = "settle" /\ outcome[p] = "locked" /\ f[1] = First(want[p])
         /\ pc[p] \in Acquiring /\ "heavy" \in want[p] => f[1] = "heavy"
         /\ \A g \in Owned(p) : f[1] = g[1] => f = g

\* A process that inherits no slot runs under none: not its parent's, and not one its
\* parent inherited.
Inherited(p) ==
    Alive(p) /\ job[p].parent # None /\ ~job[p].held => ~ChildHeld(job[p].parent)

HandInv == LockInv /\ \A p \in Procs : Orderly(p) /\ Inherited(p)

\* A process that waits for a slot has written its marker, and until its deadline,
\* but for the race, the marker is no older than its wait.
Visible(p) ==
    /\ Alive(p) => job[p].slot \in SlotNames
    /\ marked[p] => pc[p] \in {"scan", "full", "wait", "giveup"} /\ job[p].heavy
    /\ pc[p] = "wait" /\ job[p].heavy => marked[p]
    /\ marked[p] /\ timer[p] > 0 /\ ~raced[p] =>
         marker[job[p].slot][p] \in 0 .. Timeout - timer[p]

\* Nobody who has judged such a marker goes on to remove it.
Spared(p) == marked[p] /\ timer[p] > 0 /\ ~raced[p] => ~Condemned(p)

VisibleInv == TypeOK /\ \A p \in Procs : Visible(p) /\ Spared(p)

\* As long as no fleet process is sent a SIGKILL: there is no marker but those the
\* waiting processes wrote, and no job without the process that waits for it.
OwnMarkers(p) ==
    \A s \in SlotNames : marker[s][p] # NoMarker => marked[p] /\ job[p].slot = s
Kept(p) == work[p] \cap Killed(p) # {} => pc[p] = "run"
CleanInv ==
    VisibleInv /\ \A p \in Procs : job[p].parent = None /\ OwnMarkers(p) /\ Kept(p)

-----------------------------------------------------------------------------
\* The locks as a client sees them: an Acquire under way asks, and every lock file
\* stands for a permit.
Asking == [p \in Procs |-> IF pc[p] \in Acquiring \ {"acquire", "settle"}
                           THEN First(want[p]) ELSE None]
Holders == [l \in Locks |-> {p \in Procs : Holds(p, l)}]
Locking == INSTANCE LockService WITH Clients <- Procs, asking <- Asking, holders <- Holders
\* Acquire, release, exit and kill -9 implement that service.
ImplementsLockService == Locking!Spec
=============================================================================
