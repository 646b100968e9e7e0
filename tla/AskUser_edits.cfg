\* Two questions, answered in pieces, with questions back, saves by rename, clocks
\* ahead and a broken document.
SPECIFICATION Spec
CONSTANTS
    Questions = {1, 2}
    Settle = 2
    Poll = 1
    Timeout = 3
    Ahead = 3
    Env = {"rename", "skew", "damage", "ask"}
INVARIANTS
    TypeOK
    ExitIsJustified
PROPERTIES
    EveryRunEnds
