\* A merged branch whose worktree is in use, and an lsof that reports nothing.
SPECIFICATION Spec
CONSTANTS
    b1 = b1
    b2 = b2
    main = main
    w1 = w1
    w2 = w2
    fork = fork
    c1 = c1
    c2 = c2
    c3 = c3
    c4 = c4
    None = None
    Branches = {b1, b2}
    Trees = {main, w1, w2}
    Main = main
    Commits = {c1, c2, c3, c4}
    Forks = {fork}
    History <- Ancestors
    Entries <- SomeEntries
    Options <- SomeOptions
    Repos <- OneInUse
    MaxChanges = 0
PROPERTIES
    LsofFailureAborts
