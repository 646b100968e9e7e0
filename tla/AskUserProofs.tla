----------------------------- MODULE AskUserProofs -----------------------------
(* Proofs about AskUser, for every set of questions and every length of its clocks. *)
EXTENDS AskUser, TLAPS

Clocks == [run : 0 .. Timeout, gap : Unset .. Settle, future : Unset .. Settle]
Phases == {"off", "check", "stat", "sleep", "openq", "answered", "late", "done"}
Codes == {Running, 0, 1, 2, 4, 64}

\* The state of the script, apart from the file.
ScriptType ==
    /\ summary \in Docs /\ pc \in Phases
    /\ exit \in Codes /\ (pc = "done" <=> exit # Running)
    /\ printed \in BOOLEAN /\ (printed => exit \in {0, 2, 4})
    /\ timer \in Clocks /\ nap \in 0 .. Poll
    /\ settled \in {"no", "age", "clock", "blind"} /\ unseen \in 0 .. Settle

FileType ==
    /\ doc \in Docs /\ there \in BOOLEAN
    /\ age \in 0 .. Settle + Ahead /\ skew \in {0, Ahead}

\* The type invariant is about the two.
LEMMA TypeParts == TypeOK <=> ScriptType /\ FileType
BY DEF TypeOK, ScriptType, FileType, Clocks, Phases, Codes

\* A clock counts up to its limit.
LEMMA OlderIn ==
    ASSUME NEW n \in Nat, NEW t \in Unset .. n
    PROVE  Older(t, n) \in Unset .. n /\ (t \in Nat => Older(t, n) \in 0 .. n)
BY DEF Older, Unset

\* The initial values are in their types.
LEMMA TypeInit == Init => TypeOK
<1> SUFFICES ASSUME Init PROVE ScriptType /\ FileType
  BY TypeParts
<1> USE AskAssumption
<1>1. NoDoc \in Docs /\ [NoDoc EXCEPT !.valid = TRUE] \in Docs
  BY DEF NoDoc, Docs
<1>2. timer \in Clocks
  BY DEF Init, Clocks, Unset
<1>3. 0 \in 0 .. Poll /\ 0 \in 0 .. Settle /\ 0 \in 0 .. Settle + Ahead
  OBVIOUS
<1> QED
  BY <1>1, <1>2, <1>3 DEF Init, ScriptType, FileType, Phases, Codes, Running

\* What the user and the agent save is a document.
LEMMA SavedType ==
    ASSUME NEW d \in Docs, Save(d)
    PROVE  FileType'
<1>1. 0 \in 0 .. Settle + Ahead
  BY AskAssumption
<1> QED
  BY <1>1 DEF Save, FileType

\* Every action keeps every variable in its type: one step per action.
LEMMA TypeStep == TypeOK /\ [Next]_vars => TypeOK'
<1> SUFFICES ASSUME TypeOK, [Next]_vars PROVE ScriptType' /\ FileType'
  BY DEF TypeOK, ScriptType, FileType, Clocks, Phases, Codes
<1>0. ScriptType /\ FileType
  BY TypeParts
<1>00. /\ Settle \in Nat \ {0} /\ Poll \in Nat \ {0} /\ Timeout \in Nat \ {0} /\ Ahead \in Nat
       /\ 0 \in 0 .. Settle /\ 0 \in Unset .. Settle /\ Unset \in Unset .. Settle
       /\ Poll \in 0 .. Poll /\ 0 \in 0 .. Poll /\ 0 \in 0 .. Timeout
  BY AskAssumption DEF Unset
<1>000. file' = file => FileType'
  BY <1>0 DEF file, FileType
<1>1. CASE Start
  <2>1. timer' \in Clocks
    BY <1>00, <1>1 DEF Start, Clocks
  <2> QED
    BY <1>0, <1>00, <1>000, <1>1, <2>1
    DEF Start, Goto, Exit, ScriptType, Phases, Codes, Running
<1>2. CASE Check
  <2>1. timer' \in Clocks
    BY <1>0, <1>00, <1>2 DEF Check, Clocks, ScriptType
  <2> QED
    BY <1>0, <1>00, <1>000, <1>2, <2>1 DEF Check, Goto, ScriptType, FileType, Phases
<1>3. CASE Missing
  <2>1. timer' \in Clocks
    BY <1>0, <1>00, <1>3 DEF Missing, Clocks, ScriptType
  <2> QED
    BY <1>0, <1>00, <1>000, <1>3, <2>1
    DEF Missing, Goto, Exit, past, ScriptType, Phases, Codes, Running
<1>4. CASE Stat
  <2>1. Since \in Unset .. Settle
    BY <1>0, <1>00 DEF Since, ScriptType, Clocks
  <2>2. timer' \in Clocks
    BY <1>0, <1>00, <1>4, <2>1 DEF Stat, Clocks, ScriptType
  <2>3. NoDoc \in Docs
    BY DEF NoDoc, Docs
  <2>4. Quiet \in {"no", "age", "clock", "blind"}
    BY DEF Quiet
  <2>5. Verdict(Quiet) \in {"invalid", "openq", "answered", "late", "sleep"}
    BY DEF Verdict
  <2>6. /\ pc' \in Phases /\ exit' \in Codes /\ (pc' = "done" <=> exit' # Running)
        /\ printed' = printed /\ unseen' = unseen
        /\ (printed => exit' \in {0, 2, 4})
    BY <1>0, <1>4, <2>5 DEF Stat, Goto, Exit, ScriptType, Phases, Codes, Running
  <2>7. summary' \in Docs /\ nap' \in 0 .. Poll /\ settled' \in {"no", "age", "clock", "blind"}
    BY <1>0, <1>00, <1>4, <2>3, <2>4 DEF Stat, ScriptType
  <2>8. file' = file
    BY <1>4 DEF Stat
  <2> QED
    BY <1>0, <1>000, <2>2, <2>6, <2>7, <2>8 DEF ScriptType
<1>5. CASE Wake
  BY <1>0, <1>000, <1>5 DEF Wake, Goto, past, ScriptType, Phases
<1>6. CASE Report
  <2>1. UNCHANGED <<file, summary, timer, nap, past>>
    BY <1>6 DEF Report
  <2>2. pc' = "done" /\ exit' \in {0, 2, 4} /\ printed' \in BOOLEAN
    BY <1>0, <1>6 DEF Report, Exit, ScriptType
  <2> QED
    BY <1>0, <1>000, <2>1, <2>2 DEF past, ScriptType, Phases, Codes, Running
<1>7. CASE Reply
  <2>1. [doc EXCEPT !.open = FALSE] \in Docs
    BY <1>0 DEF FileType, Docs
  <2>2. FileType'
    BY <1>7, <2>1, SavedType DEF Reply
  <2> QED
    BY <1>0, <1>7, <2>2 DEF Reply, past, ScriptType, Phases, Codes, Running
<1>8. CASE Edit
  <2>1. ASSUME NEW q \in Questions, NEW a \in {"none", "part", "full"}
        PROVE  [doc EXCEPT !.answer[q] = a] \in Docs
    BY <1>0 DEF FileType, Docs
  <2>2. [doc EXCEPT !.open = TRUE] \in Docs /\ [doc EXCEPT !.valid = FALSE] \in Docs
    BY <1>0 DEF FileType, Docs
  <2>3. ASSUME NEW q \in Questions, NEW a \in {"none", "part", "full"},
               Save([doc EXCEPT !.answer[q] = a])
        PROVE  FileType'
    BY <2>1, <2>3, SavedType
  <2>4. FileType'
    BY <1>8, <2>2, <2>3, SavedType DEF Edit
  <2> QED
    BY <1>0, <1>8, <2>4 DEF Edit, past, ScriptType
<1>9. CASE Remove
  BY <1>0, <1>9 DEF Remove, past, ScriptType, FileType
<1>10. CASE Tick
  <2>1. timer' \in Clocks
    <3>1. timer.run \in 0 .. Timeout /\ timer.gap \in Unset .. Settle /\ timer.future \in Unset .. Settle
      BY <1>0 DEF ScriptType, Clocks
    <3>2. Older(timer.run, Timeout) \in 0 .. Timeout
      BY <1>00, <3>1 DEF Older, Unset
    <3>3. Older(timer.gap, Settle) \in Unset .. Settle /\ Older(timer.future, Settle) \in Unset .. Settle
      BY <1>00, <3>1, OlderIn
    <3> QED
      BY <1>10, <3>2, <3>3 DEF Tick, Clocks
  <2>2. unseen' \in 0 .. Settle /\ nap' \in 0 .. Poll
    BY <1>0, <1>00, <1>10 DEF Tick, Older, Unset, ScriptType
  <2>3. age' \in 0 .. Settle + Ahead
    BY <1>0, <1>00, <1>10 DEF Tick, Older, Unset, FileType
  <2>4. UNCHANGED <<doc, there, skew, pc, exit, summary, printed, settled>>
    BY <1>10 DEF Tick
  <2> QED
    BY <1>0, <2>1, <2>2, <2>3, <2>4 DEF ScriptType, FileType
<1>11. CASE UNCHANGED vars
  BY <1>0, <1>000, <1>11 DEF vars, file, ScriptType
<1> QED
  BY <1>1, <1>2, <1>3, <1>4, <1>5, <1>6, <1>7, <1>8, <1>9, <1>10, <1>11 DEF Next, Script

\* Every variable keeps its type; the script has an exit status exactly when it has ended,
\* and prints only with one of the three that promise output.
THEOREM TypeCorrect == Spec => []TypeOK
BY TypeInit, TypeStep, PTL DEF Spec

-----------------------------------------------------------------------------
(* What the exit status promises *)

\* While a document can be taken for settled by its age, nothing in it is half typed, and
\* the script's clocks run with real time: one step per action.
LEMMA JudgedStep == TypeOK /\ JudgedInv /\ [Next]_vars => JudgedInv'
<1> SUFFICES ASSUME TypeOK, JudgedInv, [Next]_vars PROVE JudgedInv'
  OBVIOUS
<1> USE DEF ExitIsJustified, AnsweredIsSettled, VanishedIsGone, DefaultsAreLate
<1>0. /\ Settle \in Nat \ {0} /\ Timeout \in Nat \ {0} /\ Ahead \in Nat
      /\ unseen \in 0 .. Settle /\ age \in Nat /\ skew \in Nat
      /\ timer.gap \in Unset .. Settle /\ timer.run \in 0 .. Timeout
      /\ (pc = "done" <=> exit # Running) /\ (printed => exit \in {0, 2, 4})
  BY AskAssumption DEF TypeOK
<1>00. pc # "done" => exit = Running /\ ~printed
  BY <1>0 DEF Running
<1>1. CASE Start
  BY <1>0, <1>00, <1>1 DEF Start, Goto, Exit, file, JudgedInv, Running, Unset, HalfTyped, Answered
<1>2. CASE Check
  BY <1>0, <1>00, <1>2 DEF Check, Goto, file, JudgedInv, Running, Unset, HalfTyped, Answered, TypeOK
<1>3. CASE Missing
  BY <1>0, <1>00, <1>3 DEF Missing, Goto, Exit, file, past, JudgedInv, Running, Unset, HalfTyped, Answered, TypeOK
<1>4. CASE Stat
  BY <1>0, <1>00, <1>4 DEF Stat, Goto, Exit, Verdict, Quiet, InFuture, file, JudgedInv, Running,
     HalfTyped, Answered, TypeOK
<1>5. CASE Wake
  BY <1>0, <1>00, <1>5 DEF Wake, Goto, file, past, JudgedInv, Running, HalfTyped, Answered
<1>6. CASE Report
  BY <1>0, <1>00, <1>6 DEF Report, Exit, file, past, JudgedInv, Running, HalfTyped, Answered
<1>7. CASE Reply
  BY <1>0, <1>7 DEF Reply, Save, past, JudgedInv, Running, HalfTyped, Answered
<1>8. CASE Edit
  BY <1>0, <1>8 DEF Edit, Save, past, JudgedInv, Running, HalfTyped, Answered
<1>9. CASE Remove
  BY <1>0, <1>9 DEF Remove, past, JudgedInv, HalfTyped, Answered
<1>10. CASE Tick
  BY <1>0, <1>10 DEF Tick, TypingOn, Older, JudgedInv, Running, Unset, HalfTyped, Answered, TypeOK
<1>11. CASE UNCHANGED vars
  BY <1>11 DEF vars, JudgedInv, HalfTyped, Answered
<1> QED
  BY <1>1, <1>2, <1>3, <1>4, <1>5, <1>6, <1>7, <1>8, <1>9, <1>10, <1>11 DEF Next, Script

\* An exit status of 0 is for a settled document with all answers, 1 for a file that was
\* gone for the whole settle window, and defaults are printed only after the time limit,
\* whatever users and editors do between the three readings of a round.
THEOREM ExitJustified == Spec => []ExitIsJustified
<1>1. Init => TypeOK /\ JudgedInv
  <2>1. Init => JudgedInv
    BY AskAssumption DEF Init, JudgedInv, ExitIsJustified, AnsweredIsSettled, VanishedIsGone,
       DefaultsAreLate, Running, Unset
  <2> QED
    BY <2>1, TypeInit
<1>2. TypeOK /\ JudgedInv /\ [Next]_vars => (TypeOK /\ JudgedInv)'
  BY TypeStep, JudgedStep
<1>3. JudgedInv => ExitIsJustified
  BY DEF JudgedInv
<1> QED
  BY <1>1, <1>2, <1>3, PTL DEF Spec
=============================================================================
