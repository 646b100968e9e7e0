\* A job that calls fleet again, and nobody sends SIGKILL.
SPECIFICATION Spec
CONSTANTS
    p1 = p1  p2 = p2  p3 = p3  lint = lint  other = other  s1 = s1  s2 = s2
    None = None  SlotNames = {s1}
    Procs = {p1, p2, p3}
    HeavySlots = 1
    Names = {lint}
    Requests <- HeavyOnly
    TopLevel <- HeavyOnly
    Timeout = 1
    SigCap = 1
    Signals = {}
    Env = {"nesting"}
INVARIANTS
    WorkHasKeeper
