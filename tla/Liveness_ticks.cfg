\* One slot that becomes idle, works, hangs and shows dialogs again and again,
\* missed ticks, another pane and a clock that is set back.
SPECIFICATION Spec
CONSTANTS
    s1 = s1
    Slots = {s1}
    Listings <- TwoPanes
    Views <- AllViews
    Changes = {"seq", "repo"}
    Hour = 3
    MaxPerHour = 2
    HangAfter = 2
    MaxTime = 5
    MaxLag = 1
    MaxSeq = 2
    Interval = 1
    StableReads = 2
    NoList = NoList
INVARIANTS
    TypeOK
    OncePerEpoch
    CapPerHour
PROPERTIES
    SettledBeforeActing
    HangNeedsSilence
\* MaxTime bounds the run.
CHECK_DEADLOCK FALSE
