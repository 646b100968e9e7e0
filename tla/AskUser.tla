------------------------------- MODULE AskUser -------------------------------
(***************************************************************************)
(* scripts/ask-user.sh: an agent puts its questions into a document, the   *)
(* user edits it, and the script polls the file until every question has   *)
(* an answer, the user asks something back, or the time is over.           *)
(*                                                                         *)
(* The script reads the file three times in a round: it parses it, asks    *)
(* for its modification time, and parses it again for what it prints.  The *)
(* user saves between any two of these.  Time is relative: Tick ages the   *)
(* file and the timers, each up to the limit it is compared with.  Opening *)
(* the document in an application is left out: nothing depends on it.      *)
(***************************************************************************)
EXTENDS Integers

CONSTANTS
    Questions,    \* the sections of the document
    Settle,       \* ASK_USER_SETTLE, in ticks
    Poll,         \* ASK_USER_POLL
    Timeout,      \* -t
    Ahead,        \* how far in the future a modification time may lie
    Env           \* what else happens: "rename" takes the file away for a while or for
                  \* good, "skew" puts modification times into the future, "damage" breaks
                  \* the document, "ask" adds questions of the user

ASSUME AskAssumption ==
    /\ {Settle, Poll, Timeout} \subseteq Nat \ {0} /\ Ahead \in Nat
    /\ Env \subseteq {"rename", "skew", "damage", "ask"}

VARIABLES
    doc,      \* what parse finds: the answers, open questions of the user, the form
    there,    \* does the file exist?
    age,      \* ticks since it was saved
    skew,     \* how far its modification time is ahead of that
    pc,       \* where the script is
    exit,     \* its exit status, -1 while it has none
    summary,  \* the document as the last check parsed it
    timer,    \* its clocks: SECONDS - start, - gap_start, - future_since
    nap,      \* what is left of its sleep
    printed,  \* did it print answers or questions?
    settled,  \* history: what made the last round take the document for settled
    unseen    \* history: ticks since a check found the file

vars == <<doc, there, age, skew, pc, exit, summary, timer, nap, printed, settled, unseen>>
file == <<doc, there, age, skew>>
past == <<settled, unseen>>

Running == -1     \* no exit status yet
Unset == -1       \* an empty gap_start or future_since
Docs == [answer : [Questions -> {"none", "part", "full"}], open : BOOLEAN, valid : BOOLEAN]
NoDoc == [answer |-> [q \in Questions |-> "none"], open |-> FALSE, valid |-> FALSE]

HalfTyped(d) == \E q \in Questions : d.answer[q] = "part"
Answered(d) == \A q \in Questions : d.answer[q] # "none"

TypeOK ==
    /\ doc \in Docs /\ summary \in Docs
    /\ there \in BOOLEAN
    /\ age \in 0 .. Settle + Ahead /\ skew \in {0, Ahead}
    /\ pc \in {"off", "check", "stat", "sleep", "openq", "answered", "late", "done"}
    /\ exit \in {Running, 0, 1, 2, 4, 64} /\ (pc = "done" <=> exit # Running)
    /\ printed \in BOOLEAN /\ (printed => exit \in {0, 2, 4})
    /\ timer \in [run : 0 .. Timeout, gap : Unset .. Settle, future : Unset .. Settle]
    /\ nap \in 0 .. Poll
    /\ settled \in {"no", "age", "clock", "blind"} /\ unseen \in 0 .. Settle

Init ==
    /\ doc = [NoDoc EXCEPT !.valid = TRUE]
    /\ there = TRUE /\ age = 0 /\ skew = 0
    /\ pc = "off" /\ exit = Running
    /\ summary = NoDoc /\ printed = FALSE
    /\ timer = [run |-> 0, gap |-> Unset, future |-> Unset]
    /\ nap = 0 /\ settled = "no" /\ unseen = 0

-----------------------------------------------------------------------------
(* The script *)

Exit(code) == pc' = "done" /\ exit' = code
Goto(step) == pc' = step /\ UNCHANGED exit

(* The document is validated once before the wait and must be readable.      *)
Start ==
    /\ pc = "off"
    /\ IF there /\ doc.valid THEN Goto("check") ELSE Exit(64)
    /\ timer' = [run |-> 0, gap |-> Unset, future |-> Unset]
    /\ settled' = "no" /\ unseen' = 0
    /\ UNCHANGED <<file, summary, nap, printed>>

\* Mutant: a gap that is over still counts.
CheckAddingGapsUp ==
    /\ pc = "check" /\ there
    /\ Goto("stat")
    /\ summary' = doc
    /\ unseen' = 0
    /\ UNCHANGED <<file, timer, nap, printed, settled>>

(* The file is there and parsed: no gap any more.                            *)
Check ==
    /\ pc = "check" /\ there
    /\ Goto("stat")
    /\ summary' = doc
    /\ timer' = [timer EXCEPT !.gap = Unset]
    /\ unseen' = 0
    /\ UNCHANGED <<file, nap, printed, settled>>

(* A missing file is tolerated for the settle window.                        *)
Missing ==
    /\ pc = "check" /\ ~there
    /\ timer' = [timer EXCEPT !.gap = IF @ = Unset THEN 0 ELSE @]
    /\ IF timer'.gap >= Settle THEN Exit(1) /\ UNCHANGED nap
       ELSE Goto("sleep") /\ nap' = Poll
    /\ UNCHANGED <<file, summary, printed, past>>

\* For how long the file has been unchanged: by its modification time or, when
\* that is in the future, by the script's clock.  A file that is gone by now
\* has the modification time 0.
InFuture == there /\ age < skew
Since == IF timer.future = Unset THEN 0 ELSE timer.future

\* Mutant: the settle window is one tick short.
QuietTooSoon ==
    IF ~there THEN "blind"
    ELSE IF InFuture THEN (IF Since >= Settle THEN "clock" ELSE "no")
    ELSE IF age - skew >= Settle - 1 THEN "age" ELSE "no"

Quiet ==
    IF ~there THEN "blind"
    ELSE IF InFuture THEN (IF Since >= Settle THEN "clock" ELSE "no")
    ELSE IF age - skew >= Settle THEN "age" ELSE "no"

\* Mutant: the time limit is looked at only while something is unanswered.
VerdictWaitingForSettle(quiet) ==
    IF quiet # "no" /\ ~summary.valid THEN "invalid"
    ELSE IF quiet # "no" /\ summary.open THEN "openq"
    ELSE IF quiet # "no" /\ Answered(summary) THEN "answered"
    ELSE IF timer.run >= Timeout /\ ~Answered(summary) THEN "late"
    ELSE "sleep"

\* A settled document is invalid, asks back or answers everything; if it does
\* none of these the time limit decides.
Verdict(quiet) ==
    IF quiet # "no" /\ ~summary.valid THEN "invalid"
    ELSE IF quiet # "no" /\ summary.open THEN "openq"
    ELSE IF quiet # "no" /\ Answered(summary) THEN "answered"
    ELSE IF timer.run >= Timeout THEN "late"
    ELSE "sleep"

\* What the round has read is not looked at again once it ends in a sleep.
Stat ==
    /\ pc = "stat"
    /\ LET verdict == Verdict(Quiet)
       IN  /\ IF verdict = "invalid" THEN Exit(64) ELSE Goto(verdict)
           /\ IF verdict = "sleep" THEN nap' = Poll /\ summary' = NoDoc /\ settled' = "no"
              ELSE settled' = Quiet /\ UNCHANGED <<nap, summary>>
    /\ timer' = [timer EXCEPT !.future = IF InFuture THEN Since ELSE Unset]
    /\ UNCHANGED <<file, printed, unseen>>

Wake ==
    /\ pc = "sleep" /\ nap = 0
    /\ Goto("check")
    /\ UNCHANGED <<file, summary, timer, nap, printed, past>>

\* Mutant: the report of a late answer does not end the run.
ReportAndWaitOn ==
    /\ pc \in {"openq", "answered", "late"}
    /\ CASE pc = "openq" -> Exit(4) [] pc = "answered" -> Exit(0) [] pc = "late" -> Goto("check")
    /\ printed' = TRUE
    /\ UNCHANGED <<file, summary, timer, nap, past>>

(* The last reading, `parse openq` or `parse report`.  awk exits with 2 when *)
(* the file is gone, and so does the script then, printing nothing.          *)
Report ==
    /\ pc \in {"openq", "answered", "late"}
    /\ IF ~there THEN Exit(2) /\ UNCHANGED printed
       ELSE /\ Exit(CASE pc = "openq" -> 4 [] pc = "answered" -> 0 [] pc = "late" -> 2)
            /\ printed' = TRUE
    /\ UNCHANGED <<file, summary, timer, nap, past>>

-----------------------------------------------------------------------------
(* The agent, the user and their machine *)

Save(d) ==
    /\ doc' = d /\ there' = TRUE /\ age' = 0
    /\ \/ skew' = 0
       \/ "skew" \in Env /\ skew' = Ahead

(* The agent answers what the user asked and runs the script again.          *)
Reply ==
    /\ exit = 4
    /\ Save([doc EXCEPT !.open = FALSE])
    /\ pc' = "off" /\ exit' = Running
    /\ printed' = FALSE
    /\ UNCHANGED <<summary, timer, nap, past>>

\* The user saves in place, or brings the file back with a new content.
Edit ==
    /\ \/ \E q \in Questions, a \in {"none", "part", "full"} : Save([doc EXCEPT !.answer[q] = a])
       \/ "ask" \in Env /\ Save([doc EXCEPT !.open = TRUE])
       \/ "damage" \in Env /\ Save([doc EXCEPT !.valid = FALSE])
    /\ UNCHANGED <<pc, exit, summary, timer, nap, printed, past>>

\* An editor that saves through a rename, or the user, takes the file away.
Remove ==
    /\ "rename" \in Env /\ there
    /\ there' = FALSE
    /\ UNCHANGED <<doc, age, skew, pc, exit, summary, timer, nap, printed, past>>

Older(t, limit) == IF t = Unset \/ t >= limit THEN t ELSE t + 1

\* Whoever is in the middle of an answer saves again within the settle window:
\* that is what the window is for.
TypingOn == there /\ HalfTyped(doc) /\ age + 1 >= Settle

\* The commands of one round take less than a tick; a sleep may take longer than
\* it was meant to, the script being suspended with its machine.
Tick ==
    /\ pc \in {"off", "sleep", "done"}
    /\ age' = IF TypingOn THEN 0 ELSE Older(age, Settle + Ahead)
    /\ timer' = [run |-> Older(timer.run, Timeout), gap |-> Older(timer.gap, Settle),
                 future |-> Older(timer.future, Settle)]
    /\ unseen' = Older(unseen, Settle)
    /\ nap' = IF nap = 0 THEN 0 ELSE nap - 1
    /\ UNCHANGED <<doc, there, skew, pc, exit, summary, printed, settled>>

-----------------------------------------------------------------------------
Script == Start \/ Check \/ Missing \/ Stat \/ Wake \/ Report

Next == Script \/ Reply \/ Edit \/ Remove \/ Tick

(* The script runs and time passes, also while the user types without end;   *)
(* nobody owes an answer.                                                    *)
Fairness == WF_vars(Script) /\ SF_vars(Tick)

Spec == Init /\ [][Next]_vars /\ Fairness

-----------------------------------------------------------------------------
(* Properties *)

\* "So a half-typed answer is never read" (line 26), as far as the script keeps
\* it: what made it stop with 0 had all answers, no half of one and no open
\* question, if the age of the file could tell.
AnsweredIsSettled ==
    exit = 0 => Answered(summary) /\ ~summary.open /\ (settled = "age" => ~HalfTyped(summary))

\* The wait is given up only for a file that no check found for the settle
\* window, however often editors took it away before (lines 41 and 42).
VanishedIsGone == exit = 1 => unseen >= Settle

\* Defaults are printed as decisions only when the time is over (line 45).
DefaultsAreLate == exit = 2 /\ printed => timer.run >= Timeout

ExitIsJustified == AnsweredIsSettled /\ VanishedIsGone /\ DefaultsAreLate

\* Every run comes to an end, whatever the user does to the file meanwhile: type
\* on, take it away again and again, break it or do nothing.
EveryRunEnds == pc # "done" ~> pc = "done"

-----------------------------------------------------------------------------
(* The inductive invariant behind ExitIsJustified *)

\* Half-typed answers are young; a round that read some finds them as young when it
\* asks for the age; the gap the script counts is no longer than the real one; and
\* what the script goes on to report with has been found.
JudgedInv ==
    /\ there /\ HalfTyped(doc) => age < Settle
    /\ pc = "stat" /\ HalfTyped(summary) => age < Settle
    /\ timer.gap <= unseen
    /\ pc = "late" => timer.run >= Timeout
    /\ pc = "answered" =>
         Answered(summary) /\ ~summary.open /\ (settled = "age" => ~HalfTyped(summary))
    /\ ExitIsJustified
=============================================================================
