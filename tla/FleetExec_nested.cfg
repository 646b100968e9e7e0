\* Jobs of `fleet heavy` that call `fleet heavy` and `fleet lock` again, three deep,
\* on one slot, with kill -9 of fleet processes at any moment and pids reused between
\* any two steps of a reaper; the SIGKILL that ends a job also ends the fleet processes
\* in its group.
SPECIFICATION Spec
CONSTANTS
    p1 = p1  p2 = p2  p3 = p3  lint = lint  other = other  s1 = s1  s2 = s2
    None = None  SlotNames = {s1}
    Procs = {p1, p2, p3}
    HeavySlots = 1
    Names = {other}
    Requests <- NestedCalls
    TopLevel <- HeavyOnly
    Timeout = 1
    SigCap = 1
    Signals = {}
    Env = {"kill9", "nesting", "reuse"}
SYMMETRY Symmetric
INVARIANTS
    NoWaitForOwnSlot
    OnlyTheRaceHides
