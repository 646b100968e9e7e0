# TLA+ models of dotclaude

This directory holds TLA+ specifications of the parts of this repository whose
correctness depends on interleavings, crashes and time. They are checked with
TLC on small instances; the theorems in the `*Proofs` modules are proved with
TLAPS for every value of the constants.

## 1. The system

dotclaude is a configuration repository for coding agents. Its program code is
the Go tool `fleet` (`tools/fleet`), the shell programs of a fleet run
(`fleet-run/bin`) and the host scripts in `scripts`. All of them are short-lived
processes that meet in the file system: there is no server and no shared memory
except the goroutines inside one `fleet` process.

| part | state it keeps | operations | interacts with |
| --- | --- | --- | --- |
| `fleet heavy`, `fleet lock` (`cmd/fleet/exec.go`) | goroutines, the signal channel, the process group of the child, the escalation timer | start, acquire one or two locks, watch for signals, run, forward, escalate, reap, release | lock semaphores, the kernel's flocks and signals, nested fleet commands |
| lock semaphore (`internal/lock`) | `locks/*.lock` (flock), `heavy-wait/<slot>.<pid>` markers | Acquire, tryAll, write/remove/reap markers, HeavyWaiting | `fleet heavy`, the stall detection of `fleet tick` |
| `fleet tick` output (`internal/fleetd/observer_*`) | `observer.lock`, the binding marker, `journal.jsonl`, the memory file, temp files | open, inspect, lock, sweep, bind, load, append, replace, close | other ticks, the file system |
| atomic writes (`internal/state/atomic.go`) | a temp file, the file it replaces | write, fsync, rename, fsync of the directory | memory, markers, ledgers |
| liveness decisions (`internal/liveness`) | memory per slot: epochs, marks, action times, signatures, missing rounds | Evaluate: recovery, nudge, continue, restart proposals | limits, observation, memory |
| usage limits (`internal/limits`) | a throttle per harness | Detect, Observe, ExpireThrottles, reset times | observation, memory |
| observation (`internal/fleetd/observe.go`, `evaluate.go`) | one observation per tick | Collect (list, match, read), Evaluate | herdr, ledger, hand-offs, limits, liveness, output |
| configuration, resources, ledger, inbox, hand-off, scrubbing (`internal/config`, `resources`, `state`) | none (pure), or one file each | load and validate, parse and check | every command |
| coordinator heartbeat (`fleet-run/bin/heartbeat.sh`) | `lease.json`, the strike counter, `needs-user.md` | check the lease, wake a coordinator, count strikes, escalate | herdr, the coordinators |
| disk guard (`scripts/disk-guard.sh`) | a lock directory with a pid, the low marker, `gc` | check once, take the lock, notify | other instances, the file system |
| ask-user (`scripts/ask-user.sh`) | the document, three clocks | validate, poll, judge, print | the user, their editor, the agent that asked |
| worktree reclaim (`scripts/reclaim-merged-worktrees.sh`) | git refs, worktrees, GitHub pull requests | classify, gate, remove, delete branches | git, GitHub, running builds |
| limit-reset waiter (`scripts/herdr-wait-for-limit-reset.py`) | none | read a screen twice, send keys | herdr |
| skill reminder (`scripts/hooks/skill-reminder.sh`) | a marker per session | remind once | agent hooks |

The behaviours that are hard: two or more processes on the same files without a
server in between; signals that meet a change of phase; `kill -9` and power
failures between two file operations; waits with deadlines; state that was read
before another process replaced it.

What makes each part correct:

- **fleet heavy / fleet lock**: never more jobs than slots, a job runs only
  under all its locks, an aborted wait ran nothing, no process waits for its
  own ancestors, and a TERM always ends the process.
- **heavy-wait markers**: a waiter is visible for as long as it waits (but for the
  race of item 4 of section 6), and nothing else is counted as one.
- **output of `fleet tick`**: ticks are serialised, the memory never leads the
  journal, nothing torn is taken for whole, and what a crash leaves behind is never
  taken for foreign files. A record cut off in the middle does stop every later
  tick, by design (item 13 of section 6).
- **liveness and limits**: one prompt per epoch, the cap per hour, nothing
  decided before the list has settled; a throttle needs two sightings in two
  consecutive ticks that count, ends early only on evidence that was really
  read, and lasts no longer than its notice says.
- **heartbeat**: a stale lease reaches the user once; standbys get a turn.
- **disk guard**: one note per crossing, one instance acts, a crash blocks
  nothing.
- **ask-user**: a half-typed answer is not taken for a decision, a file is given up
  only when it is gone, and every wait ends.
- **worktree reclaim**: no commit, secret or directory in use is lost, and only
  merged branches go.

## 2. Plan

The modules in the order of importance; all are written.

1. `FleetExec` over the abstract `LockService`; proofs in `FleetExecProofs`.
2. `ObserverOutput` (with the atomic writes of `internal/state`); proofs in
   `ObserverOutputProofs`.
3. `RecoveryGuard`, used by `Liveness` (proofs in `LivenessProofs`) and by
   `TickEvaluate`; `Observation`, used by `TickEvaluate` (proofs in
   `TickEvaluateProofs`).
4. `Heartbeat`, with the arithmetic of its lease times in `IsoEpoch`; proofs of both
   in `HeartbeatProofs`.
5. `DiskGuard`; proofs in `DiskGuardProofs`.
6. `ReclaimWorktrees`; proofs in `ReclaimProofs`.
7. `AskUser`; proofs in `AskUserProofs`.

Every safety property of a passing run is also a theorem (section 5). What is left
is liveness, which stays with TLC.

No module that has or will have theorems declares a RECURSIVE operator.

## 3. The modules and the code

### FleetExec

One fleet process is a pid `p` with a main goroutine (`pc`), the watcher or the
forwarder beside it (`Watch`, `Forward`) and the escalation timer (`Escalate`). `want`
is the list of semaphores still to take (`runHeavy`, `runLock`), `scan` the loop of
`tryAll`, `timer` the deadline of `Acquire`, `caught` the cancellation cause, `sigs` the
channel of `signal.Notify`, `flock` and `marker` the lock directory and the marker
directory. `work[p]` is what is alive of the job: the child and a process it left
behind. A job may call fleet again ((`Start` with a parent): `ChildHeld`: `ChildHeld` is
`childEnv`, `Nested` the processes that share the group `newChild` makes, so the final
SIGKILL of `Reap` reaches exactly those. A step is one system call another process can
see. Reaping stale markers is four: `BeginAcquire` lists the directory, and then each
file of the slot is looked up (`StatMarker`), its pid tested (`ProbePid`) and the file
removed by its name (`UnlinkMarker`), while others write and remove theirs; `sweep` is
what the reaper has listed and judged. Time is relative: `Tick` runs deadlines down and
marker ages up, so no clock is bounded. `raced` is history: the marker was written while
a reaper was about to remove the file of that name.

`LockService` is what clients are promised: every lock has `Capacity` permits;
who asks gets one or gives up; permits end with their process. `FleetExec`
instantiates it with the scanning processes as askers and the flocks as permits.

### ObserverOutput

`pc[p]` walks `openObserverOutput`, `Tick`, `persist` and `close` (about twenty
steps); `dir` is the directory with the lock, marker, journal, memory and
temporary files; `log` and `synced` are the journal and how much of it is on
disk; `olds` are the directory states a power failure may bring back (metadata
is journalled in order, contents only by fsync). The identity and mode checks
succeed, since nobody but ticks touches the directory.

### RecoveryGuard, Liveness

`RecoveryGuard` is the gap guard of `liveness.Evaluate` (`Gap`, `GuardAfter`).
`Liveness` puts the memory of a slot on top of it and a world in which agents
change state, repositories change, ticks are missed and the clock is set back;
its `real` and `acts` are history in real time, and `woken` is the real time of the
last tick that came after a pause or on a clock that went backwards, computed from
the times of the ticks and not with `Gap` (`Woken`).

### Observation, TickEvaluate

`Observation` is `Collect`: what herdr's answer to `agent list` is worth
(`Replies`, `Listed`), which slots of the ledger match an agent (`Matches`), and
when the observation is complete (`Complete`). `Fault` is the set of single
failures a tick can meet: a probe, an answer of herdr, a screen, a hand-off.
An unread screen leaves an empty text behind (`Evidence`), as in the code.

`TickEvaluate` is `fleetd.Evaluate` for the limits, over the same guard as
`Liveness`: signatures of the tick before, confirmed notices, reset times,
throttles and their expiry. A screen is what detection finds on it. A reset has
the form of a time of day or of a date. `ParseReset` makes the next such moment of a
time of day; a date is put into the year it is now, and into the next one when that
is over for more than a day. `seen` is history: what the agents really looked like,
read or not.

### Heartbeat, IsoEpoch

A run is a walk through `heartbeat.sh` with each `herdr` or file read a step of its own,
among coordinators that take, renew and lose the lease and change their status. The
lease is read twice, for its holder (`ReadHolder`) and for its time (`ReadAge`), and the
two may come from different leases. `strike` is three steps: the shell empties the file
(`Strike`), the count is written (`WriteCount`), the note is appended (`Note`); a run
may be killed before any of them (`Die`). `notes` is history.

`IsoEpoch` is the function `iso_epoch`: the calendar check and the count of days.
`MCHeartbeat` evaluates it on known times and on the years 1 to 2400.

### AskUser

The loop of `ask-user.sh`. A round reads the file three times: `Check` parses it,
`Stat` asks for its modification time, `Report` parses it again for the output.
Users, editors and agents act between any two of these. Answers are absent, half
typed or full; the script cannot tell the last two apart, only the age of the
file can. `timer` holds the three clocks of the script relative to now, `settled`
records what made a round take the document for settled.

### DiskGuard

The loop of `disk-guard.sh`, one step per file operation; `lock` is the lock
directory with its pid file. Instances are killed anywhere and restarted with a
new pid, and writes fail when the disk is full.

### ReclaimWorktrees

The sweep takes its lists (`ListMerged`, `ListOpen`, `ListTrees`), then each worktree
and each other branch through `Classify`, the gate (`GateStatus`, `GateIgnored`,
`GateCwd`, `GateOwner`), the check of its build directory before anything goes
(`CheckBuild`), `RemoveTree`, the second check and the removal of the build directory
(`RecheckBuild`, `RemoveBuild`), `CheckedOut`, `DeleteLocal`, `Look`, `Push` and
`Archive`; a blocked item ends with `NextItem`. A worktree has one build directory; the
loops over several are the same steps over again. `CheckedOut` may go on though the
branch is checked out: line 668 is a pipeline under `pipefail`, and a `git worktree
list` that fails or dies of SIGPIPE counts as no. `Classify` is one step for several
commands, since but for the stash list what they read does not change. `snap` is what
the sweep listed, `cwds` its one reading of lsof, which the first check that gets an
answer takes, `item` the locals of `process_worktree`. Between any two steps others
commit, push, merge, open pull requests, stash, check out, edit, drop ignored files,
enter directories and claim plans. Commits are points of an ancestor relation, an
ignored entry is the record of what `gate` can find out about it, the reasons of
`check_build_dir` other than a live process are one value, `"refused"`.

## 4. The runs

| run | question | distinct states |
| --- | --- | --- |
| `FleetExec_jobs` | caps, locks, markers, kept work, the refinement of `LockService`, and that every wait ends and TERM ends a process, with TERM at every moment | 91 000 |
| `FleetExec_nested` | nested commands three deep with kill -9 and pids reused between any two steps of a reaper: no wait for an own slot, and what hides a waiter | 990 000 |
| `FleetExec_cleanup` | finding 1 | stops at the violation |
| `ObserverOutput_ticks` | overlapping ticks, I/O errors, kills, power failures; opening ends | 255 000 |
| `Liveness_ticks` | epochs, caps, recovery and hangs over gaps and a clock set back | 617 000 |
| `TickEvaluate_limits` | what starts, moves and ends a throttle over failing, missed and disagreeing observations and the turn of a year | 8 800 |
| `Heartbeat_failover` | strikes, the note and the order of failover, with a run killed anywhere | 92 000 |
| `DiskGuard_restart` | kills and failing writes at every step of one instance | 9 000 |
| `DiskGuard_pair` | finding 2 | stops at the violation |
| `Reclaim_sweeps` | sweeps over some 80 repositories with a change by others between any two steps | 1 270 000 |
| `Reclaim_blind` | finding 3 | stops at the violation |
| `AskUser_edits` | edits, renames, clocks ahead and broken documents between any two readings | 447 000 |

Every property of a passing run is broken by at least one mutant of the code it
is about; the operators that carry the mutated forms are marked `Mutant` in
the modules.

### Bounds

- `FleetExec_jobs`: two processes and one slot are enough for every pairwise
  interleaving of scans, releases and signals. `FleetExec_nested` has three processes,
  the shortest chain heavy - lock - heavy and also a waiter, a holder and a reaper. In
  it only `fleet heavy` is called at the top level (`TopLevel`), `fleet lock` in jobs.
  `Timeout = 1` makes the deadline reachable at each poll. `SigCap` is 1, not 4, so that
  the full channel is met. The environment of each run names what it switches on
  (`Env`). Cycles of waits need a third process; for liveness a child that never ends
  stands for one that waits for a lock of its own waiter, for safety the nested run has
  the cycles themselves.
- `ObserverOutput`: `MaxTicks = 3` records, the shortest history in which a tick
  follows a tick that followed the first, by two processes that may be killed and
  start again. Bindings are interchangeable, so one process keeps to one of the two
  (`Inputs`) and the other starts with either.
- `Liveness`: an hour of 3 and a cap of 2 let the cap bind and expire again
  within `MaxTime = 5`; the clock lags by one at most (`MaxLag`).
- `TickEvaluate`: a day of 3 ticks, a year of 8, and runs from 5 to `MaxTime = 12`:
  a time of day comes round, a date passes by more than a day, and the year turns
  in the middle; one failure per tick (`Fault`), any number of failing ticks.
- `Heartbeat`: one run dies (`MaxDeaths`); strikes are counted up to the limit
  (`StrikeCap`), runs are not bounded.
- `AskUser`: two questions, one answered while the other is not; a settle window of
  two ticks and a time limit of three let the window end before and after the
  limit. Edits and rounds are not bounded.
- `DiskGuard`: three crossings, two kills and two failing writes.
- `ReclaimWorktrees`: one change by others in the whole run (`MaxChanges`), at
  any step and against every initial repository. The races the script guards
  against take one change: a commit, a push, a checkout, a file, a process.
  Initial repositories contain what several earlier changes would have made.
- `CHECK_DEADLOCK FALSE` stands where a bound ends the run (`Liveness_ticks`,
  `ObserverOutput_ticks`), and nowhere else.
- Symmetry is used in runs without temporal properties only.

### Fairness

- `FleetExec` (`FairSpec`): the Go scheduler runs each goroutine that can run
  (weak fairness of `MainStep`, `SignalStep` and the timer) and time passes. The
  job owes nothing: it may run for ever and ignore signals.
- `Heartbeat`: launchd or the systemd timer starts runs and a run ends (weak
  fairness of `Run`), and herdr answers again and again (strong fairness of
  `ReadHolder`, the step an unreachable herdr prevents).
- `ObserverOutput` (`FairSpec`): a process that opens the output and is not killed
  goes on (weak fairness of `Open`). A tick that has the lock owes nothing.
- `AskUser`: the script runs (weak fairness of `Script`) and time passes also while
  the user saves without end (strong fairness of `Tick`). Users owe nothing.
- `DiskGuard`: an instance that is not killed goes on, and launchd keeps it
  running. Kills are bounded, disk recovery is not assumed.
- The other modules have safety properties only.

## 5. The theorems

The inductive invariants are defined in the modules of the components, after the
properties, so each can also be given to TLC: name it as an INVARIANT in the cfg of
the module's run. Beside the named assumptions on the constants
(`ConstantsAssumption`, `ObserverAssumption` and so on, each in its module and
evaluated by the runs) three theorems or pairs of theorems have a hypothesis of their
own, explained below: `Unkilled`, `AllListed` and `Single`.

`FleetExecProofs` proves for every number of processes, slots, names and signals,
from `ConstantsAssumption`:

- `TypeCorrect`: `Spec => []TypeOK`.
- `LockInvariant`: `Spec => []LockInv`.
- `JobsRunUnderTheirLocks`: `Spec => []RunsUnderItsLocks`.
- `CapacityKept`: `Spec => []RunnersWithinCapacity`.
- `HandInvariant`: `Spec => []HandInv`.
- `NoWaitForOwnAncestor`: `Spec => []NoWaitForOwnSlot`.
- `ServiceImplemented`: `Spec => ImplementsLockService`.
- `MarkerInvariant`: `Spec => []VisibleInv`.
- `WaitersSeen`: `Spec => []OnlyTheRaceHides`.
- `MarkersHonest`: `ASSUME Unkilled PROVE Spec => []MarkerMeansWaiting`.
- `JobsHaveKeepers`: `ASSUME Unkilled PROVE Spec => []WorkHasKeeper`.

`RunsUnderItsLocks` is not inductive: that `StartChild` finds all locks held
follows from what happened in every `Acquire` before. `LockInv` adds `Accounted`:
a process holds each semaphore it uses and no longer wants, scans files of the
lock it wants, and an `Acquire` that returned `locked` has its file. Each action
is one step of `LockStep`; the lemmas `AccountedKept` and `OthersKept` say that a
process is untouched by the steps of others because nobody takes a file another
one holds. The cap follows by counting: runners of a lock inject into its
files, since a file has one holder (`FiniteSetTheorems`).

`HandInv` says what a process can have in hand: files of its own locks only, one of
each, none of the lock it still waits for except the one it has just been given, and
nothing but the slot while the slot is among the locks to come (`Orderly`). A nested
process that did not inherit the slot has no ancestor that holds it (`Inherited`).
The refinement follows step by step: each `tryAll` that takes a file grants a permit
that is left, the release, the exit and a kill return what `Holders` maps to the
process, every other step is a stutter. `NoWaitForOwnSlot` also needs that the
ancestors of a process are those its parent has, and the parent (`Ancestors` is the
least set closed under parents, so no induction over the depth is needed).

`VisibleInv` ties a marker's age to the time the wait has taken, so that the marker is
fresh until the deadline, and says that no reaper that has judged the file of a waiter
goes on to remove it, unless the marker was written in between (`raced`). What the
comment in the code claims, without that exception, is false (item 4 of section 6).
`Unkilled` (no SIGKILL from outside, and no job that calls fleet again, whose SIGKILL to
its group would hit a fleet process) is what the last two theorems need: they are false
otherwise, by the marker `kill -9` leaves behind and by finding 1. `CleanInv` says that
under it each marker and each job belongs to a process in the right place.

`ObserverOutputProofs` proves, for every number of processes, ticks, bindings and reboots,
from `ObserverAssumption`:

- `OutputInvariant`: `Spec => []OutputInv`, and `TypeCorrect`: `Spec => []TypeOK`.
- `MemoryNeverLeads`: `Spec => []JournalLeads`.
- `JournalReadable`: `Spec => []JournalSound`.
- `MemoriesInTurn`: `Spec => []NoLostMemory`.
- `RefusalsExplained`: `Spec => []OnlyPartialRecordRefused`.

None of these is inductive. `TickSound` says, for each place in `openObserverOutput`,
`Tick` and `persist`, what the tick has made sure of by then: it has the lock, the marker
is its own, the directory was empty when it initialises it, its record is in the journal
and later on disk before the memory moves. `DirSound` says the same of what a power
failure may bring back, for all directory states in `olds`. `TicksReserved` counts the
records still to come and bounds the tick numbers.

`LivenessProofs` proves, for every set of slots, lists, views and all bounds, from
`LivenessAssumption` and `GuardAssumption`:

- `TypeCorrect`: `Spec => []TypeOK`.
- `DecisionsSettled`: `Spec => SettledBeforeActing`.
- `HangsAreSilent`: `Spec => HangNeedsSilence`.
- `PromptedOncePerEpoch`: `ASSUME AllListed PROVE Spec => []OncePerEpoch`.
- `PromptsCapped`: `ASSUME AllListed PROVE Spec => []CapPerHour`.

`RecoveryInv` says that lists that differ have left the guard with a count of one;
`SilenceInv`, that the progress time in the memory is not before the last change of the
agent on the same clock, nor before the last tick that came after a gap; `EpochInv`,
that the memory knows the last epoch it prompted in; `CapInv`, that every prompt of the
last hour of real time is still in the list of sent times, with a clock reading no older
than the set-backs allow, so the times `Recent` drops are over an hour old. `AllListed`
(no slot is ever missing from a list) is the case the run checks: without it both
theorems are false, because a missing slot is forgotten (item 5 of section 6).

`TickEvaluateProofs` proves, for all agents, harnesses, lists, ledgers, screens, and days
and years of any length, from `TickAssumption`, `ObservationAssumption` and
`GuardAssumption`:

- `TypeCorrect`: `Spec => []TypeOK`.
- `TwoSightings`: `Spec => ThrottleNeedsTwoSightings`.
- `EndsOnEvidence`: `Spec => ThrottleEndsOnEvidence`.
- `NotForAYear`: `Spec => ThrottleNotForAYear`.

`SignaturesInv` is what makes the first two follow: the lines a tick compares with are
those all agents showed in the tick before, and there are none in recovery or after an
incomplete tick. `TwoSightings` says so of the throttle: the tick before was complete,
outside of recovery and at most two intervals ago. `EndsOnEvidence` excepts the tick
that ends recovery (item 14 of section 6), `NotForAYear` the turn of the year (item 15).
`CompleteSees` says that a complete observation has read every screen, so the evidence is
what the agents look like. That a time of day comes round within a day is division with
rest (`ClockComes`), that the confirmed ends have a latest one is the least-number
principle (`LatestOf`). A menu stands beside a line: `Detect` looks for one only after a
match, and `TickAssumption` says so.

`HeartbeatProofs` proves, for every failover order, every `ESCALATE_AFTER` and any number
of deaths, from `HeartbeatAssumption`:

- `TypeCorrect`: `Spec => []TypeOK`, which contains that neither loop of a run asks a
  coordinator twice (`StandbysType`, `OrderType`).
- `NotedOncePerStreak`: `Spec => []OneNotePerStreak`.

`StreakInv` says what the notes stand for inside `strike`, where the file is empty: for the
count before this one while it is to be written, for none while the note is.

`DiskGuardProofs` proves, for any number of instances, crossings, kills and failing writes,
from `DiskGuardAssumption`:

- `TypeCorrect`: `Spec => []TypeOK`.
- `NotedOnce`: `ASSUME Single PROVE Spec => []OneNotePerCrossing`.

`Single` (one instance) is how launchd starts the guard; with two the theorem is false
(finding 2). `NoteInv` ties the note to the marker at every step between reading the marker
and posting the note, over kills at each of them.

`AskUserProofs` proves, for every set of questions and all lengths of the windows, from
`AskAssumption`:

- `TypeCorrect`: `Spec => []TypeOK`.
- `ExitJustified`: `Spec => []ExitIsJustified`.

`JudgedInv` adds what holds between the readings of a round: half-typed answers are young,
also those the round has parsed before it asks for the age; the gap the script counts is
no longer than the time since a check found the file; and the verdict it goes on to
report with is already justified.

`ReclaimProofs` proves for every set of branches, worktrees, commits, forks,
ignored entries and initial repositories, from `ReclaimAssumption` (ancestry is
reflexive and transitive, a fork's remote is named neither `local` nor `origin`,
a file or link holds no secret inside):

- `TypeCorrect`: `Spec => []TypeOK`.
- `SweepInvariant`: `Spec => []SweepInv`.
- `NoWorkLost`: `Spec => []NoCommitLost`.
- `LocalBranchRule`: `Spec => LocalGoesWhenMerged`.
- `RemoteBranchRule`: `Spec => RemoteGoesWhenMerged`.
- `NothingInUseRule`: `Spec => NothingInUseGoes`.

`DeleteLocal` and `Push` read neither the pull requests nor the default branch again, so
the rules need what `classify` found: `SweepInv` carries it in `Deserved` from
`Classify` to the last step of the item, with `Listed` (the item came from the list of
its phase) under it. Pull requests stay merged, so it outlives what others do; the
values passed to `update-ref -d` and to the lease tie it to the tips that go.
`NoWorkLost` adds `AllReached`: a branch that is written moves forward, a branch that is
deleted is below a merged head (`WriteReaches`). `RemoteBranchRule` has the order of the
two in it: a remote branch goes when the local one has gone (`LocalGone`).
`NothingInUseRule` adds `UseInv`: what each check of the gate looked for is absent or is
on record as later. lsof answers once for the whole sweep, so whatever enters a
directory after that one answer is later, also when the gate of its worktree is still to
come.

`HeartbeatProofs` also proves, without any assumption, that `iso_epoch` counts days as the
Gregorian calendar does: `EpochBegins` (1970-01-01 is day 0) and
`EachDayIsOneLater` (the next day counts one more), with one lemma for a day
within a month and one for each kind of month end. Divisions by 4, 100 and 400
are over all years from 1 on, which no enumeration reaches. January and February
of the year 0 are left out: there the shell rounds towards zero and the count is
one day off, on a lease that is stale either way.

Only model-checked, because they are liveness under fairness, which is beyond the proof
system: `EveryWaitEnds` and `TermEndsFleet` (`FleetExec`), `OpeningEnds`
(`ObserverOutput`), `StaleLeaseReachesTheUser` and `StandbysGetATurn` (`Heartbeat`),
`LowSpaceIsHandled` (`DiskGuard`) and `EveryRunEnds` (`AskUser`).

## 6. What the models show of the code

1. **`FleetExec_cleanup`**: `lock.go:16-17` says that fleet cleans up on every exit
   path but kill -9. When a job calls fleet again, the outer process's own
   SIGKILL to its group at the end kills the nested fleet; the nested child has a
   group of its own, survives, and nobody holds its lock.
2. **`DiskGuard_pair`**: `disk-guard.sh:11` says that concurrent instances act
   once. The lock directory is made before its pid is written; an instance that
   looks in between takes the lock for stale and removes it, and both act.
3. **`Reclaim_blind`**: an lsof that reports nothing should abort the sweep
   (`reclaim-merged-worktrees.sh:13, 385`). `die` runs inside `"$(cwd_file)"`, so
   it ends the command substitution only; awk is left with an empty file name,
   reads the remaining worktree list from standard input and finds no process
   in the worktree. The worktree is removed and the rest of the list is never
   swept. `NothingInUseGoes` is therefore stated for an lsof that answered.

More that no run of its own shows; the properties of the passing runs are stated
up to them:

4. `lock.go:79-82` says that concurrent waiters never delete each other's marker, so
   that the hang detector can tell a queued slot from a stuck one. `reapStaleMarkers`
   (204-211) lists, judges and removes in separate calls, and takes a file that is
   gone for stale. When a process of the same `FLEET_SLOT` gets the heavy slot its
   marker goes; when it then waits for golangci-lint the file is written again, and a
   reaper that judged it in between removes it. A killed process whose pid is reused meets
   the same race. The waiter does not write its marker a second time (`marked`) and is
   invisible for the rest of the wait. `OnlyTheRaceHides` excepts exactly this (`raced`).
5. A slot that is missing from one complete list loses its epoch and its cap
   (`liveness.go:141-146`; `TestVanishedSlotsAreForgotten` wants that), so a slot
   that flickers can be prompted more than `MaxPerHour` times an hour.
   `CapPerHour` is checked for slots that stay listed.
6. `heartbeat.sh:109-110` says the stale holder gets the first chances. The strikes it
   counts may come from other causes (herdr unreachable, a blocked holder): then
   the first run that sees the stale lease already skips a ready holder, and if
   no standby is ready nobody is woken.
7. A heartbeat run that dies inside `strike` (`heartbeat.sh:25`) loses the count, or
   leaves the count at `ESCALATE_AFTER` without the note; in the second case the
   streak is never reported, because the next count is past the limit. Line 21
   promises a record. `OneNotePerStreak` and `StaleLeaseReachesTheUser` except
   exactly this (`cut`).
8. `ask-user.sh:26` says that a half-typed answer is never read. At the time limit
   (185-187) the document is reported whatever its age, with half-typed answers and
   open questions in it. `ExitIsJustified` is about the verdict and exit 0. What is
   then printed comes from a third reading (181, 185) that nothing judges again: a save
   between `Check` and `Report` can put other answers, half-typed ones included, under
   exit 0, and no property speaks of it.
9. `mtime` answers 0 for a file that is gone (130), which counts as settled since 1970:
   a document that is taken away between `Check` and `Stat` is judged at once
   (`settled = "blind"`). When it is still away for the last reading the script
   ends with awk's status 2, the status of a timeout, and prints nothing.
10. A reset that names a date stays on the screen of an agent nobody uses. More than a
   day after that date `parseReset` takes it for next year's (`reset.go:61`), and
   one that names a time of day is moved to tomorrow each time it passes (54). A
   throttle is then renewed as long as the screen stays, for up to a day or to next
   year. `ThrottleNotForAYear` allows a date of next year only in that case and in
    that of item 15.
11. A screen is read by name after the list was taken (`observe.go:122`). When an
    agent is replaced in between, the screen is attributed to the one listed.
12. `herdr-wait-for-limit-reset.py:7-9` says that it never presses keys into another
    dialog and never picks the paid option. Between its second look (48) and the
    keys (51) the user, or a second instance, can move the cursor or answer.
13. A record that a crash or a failed write cuts off in the middle of `journal.jsonl`
    makes every later tick fail (`observer_store.go:130-137`, wanted by
    `observer_store_test.go:109`): nothing in the program removes it, so the journal has
    to be repaired by hand, or a power failure takes the record back.
    `OnlyPartialRecordRefused` says that this is the only remnant that stops a tick, and
    that no tick claims one that is not there; `JournalSound` that nothing is appended
    behind it.
14. In the tick that ends recovery the signatures of before do not count
    (`evaluate.go:94-103`). A limit menu that an agent showed all along is a first
    sighting then, and another agent of the harness that works clears the throttle beside
    it. `ThrottleEndsOnEvidence` excepts that tick for its second half only: somebody
    works, on a screen that was read.
15. `reset.go:60` puts a date into the year of now. On the first of January a notice of
    the day before, `resets Dec 31, 11pm`, names the last day of the new year, although
    it is over for less than the day that line 61 asks for, and the harness is throttled
    for most of a year. `ThrottleNotForAYear` states it as an exception: a date that
    came last in the old year.
16. A clock that is set forward by at most two intervals is no gap (`liveness.go:121`),
    and a hang is then reported early by as much. The model's clock is set back only;
    `HangNeedsSilence` claims no more.

Accepted behaviours that the models contain and no property excludes: a marker left by
kill -9 counts again when its pid is reused; a pull request opened after the sweep's
lists does not protect its branch; a branch that is checked out after its check, or
while that check's pipeline fails, is deleted under the worktree; a remote branch whose
deletion failed after the local branch went is never looked at again; a crossing of the
disk threshold may stay without a note when the disk cannot take it.

## 7. Not modelled

- Text: the syntax of configuration, ledgers, hand-offs, inboxes, screens, front
  matter and URLs, and scrubbing. What parsing finds is an input of the models.
- Code without a caller in the program at this commit: `limits/codex.go`, the inbox
  parser, `WriteLedger`, `MigrateDue`. No reachable state depends on it.
- Decisions taken once from one input: `observer_paths.go` (which directory may be
  used), the levels of `resources.go`, flags.
- Commits made on a detached HEAD while a sweep runs: the models have detached
  worktrees as the listing found them, and others commit on branches.
- SIGINT: the runs send TERM. An INT alone arms no escalation, and a TERM that finds the
  four-place channel full is dropped (`exec.go:148`); the model counts a dropped one as
  never sent, so `TermEndsFleet` says nothing of it.
- One-shot scripts that keep no state: set-up, validation, clone filters, the CI
  wrapper, the skill programs, and the limit-reset waiter (its race is item 12;
  what the keys hit is decided by an interface outside this repository).

`PROJECT.json` lists each part with its reason.
