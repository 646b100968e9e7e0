\* Three overlapping ticks of two processes with different input files, the first
\* tick included; I/O errors, kill -9 and power failures at every step.
SPECIFICATION FairSpec
CONSTANTS
    p1 = p1  p2 = p2  b1 = b1  b2 = b2  None = None
    Procs = {p1, p2}
    Bindings = {b1, b2}
    Inputs <- SomeInputs
    MaxTicks = 3
    Faults = {"io", "kill", "power", "timeout"}
INVARIANTS
    TypeOK
    JournalLeads
    JournalSound
    OnlyPartialRecordRefused
    NoLostMemory
PROPERTIES
    OpeningEnds
\* MaxTicks bounds the run: no tick starts when all records are written.
CHECK_DEADLOCK FALSE
