--------------------------- MODULE MCTickEvaluate ---------------------------
(* Instances of TickEvaluate for TLC.                                       *)
EXTENDS TickEvaluate

CONSTANTS a1, a2, b1, k1, u1, u2

Screen(status, line, menu, reset) ==
    [status |-> status, line |-> line, menu |-> menu, reset |-> reset]
Working == Screen("working", NoLine, FALSE, NoReset)
Menu(line, reset) == Screen("blocked", line, TRUE, reset)

\* The limit menu with notices that name a date about New Year, a time of day or nothing, a notice
\* without the menu, one that scrolls by while the agent works, and a harness that has
\* no menu.
SomeScreens ==
    [a \in Agents |->
       CASE a = a1 -> {Working, Menu("limit", NoReset), Screen("idle", "limit", FALSE, NoReset),
                       Menu("resets Dec 30", [form |-> "date", at |-> 6])}
         [] a = a2 -> {Working, Screen("working", "limit", TRUE, NoReset),
                       Menu("resets 2am", [form |-> "clock", at |-> 2]),
                       Menu("resets Jan 1", [form |-> "date", at |-> 0])}
         [] a \in {b1, u1, u2} -> {Working}
         [] a = k1 -> {Screen("blocked", "quota", FALSE, NoReset)}]

Harness == [a \in Agents |-> IF a = k1 THEN "kimi" ELSE "claude"]

\* b1 has taken the name of a1; u1 and u2 have none.
Name ==
    [a \in Agents |-> CASE a \in {a1, b1} -> "a1" [] a = a2 -> "a2" [] a = k1 -> "k1"
                     [] a \in {u1, u2} -> ""]
SomeListings == {{a1, a2, k1, u1, u2}, {b1, a2, k1}, {a1, b1, a2, k1}}

Slot(a) == [name |-> Name[a], agent |-> a, active |-> TRUE, knownRepo |-> TRUE]
SomeLedgers ==
    {{Slot(a1), Slot(a2), Slot(k1)}, {Slot(a1), [Slot(a2) EXCEPT !.active = FALSE]},
     {Slot(a1), [Slot(a2) EXCEPT !.knownRepo = FALSE]}}
=============================================================================
