\* Two processes, one slot, the lint lock, with and without a terminal, and
\* TERM at every moment of a wait or a job; nobody sends SIGKILL.  A child may run
\* for ever and ignore every signal.
SPECIFICATION FairSpec
CONSTANTS
    p1 = p1  p2 = p2  p3 = p3  lint = lint  other = other  s1 = s1  s2 = s2
    None = None  SlotNames = {s1}
    Procs = {p1, p2}
    HeavySlots = 1
    Names = {lint}
    Requests <- HeavyTtyAndLint
    TopLevel <- HeavyTtyAndLint
    Timeout = 1
    SigCap = 1
    Signals = {"TERM"}
    Env = {"strays", "faults"}
INVARIANTS
    TypeOK
    RunnersWithinCapacity
    RunsUnderItsLocks
    WorkHasKeeper
    MarkerMeansWaiting
PROPERTIES
    ImplementsLockService
    EveryWaitEnds
    TermEndsFleet
