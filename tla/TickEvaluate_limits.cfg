\* Two agents of a verified harness and one of another that show, lose and repeat
\* limit notices, an agent that takes over a name, agents without a name, and missed,
\* incomplete and late ticks, about the turn of a year.
SPECIFICATION Spec
CONSTANTS
    a1 = a1  a2 = a2  b1 = b1  k1 = k1  u1 = u1  u2 = u2  NoLine = NoLine  NoList = NoList
    Agents = {a1, a2, b1, k1, u1, u2}
    NameOf <- Name
    HarnessOf <- Harness
    Harnesses = {"claude", "kimi"}
    Verified = {"claude"}
    Listings <- SomeListings
    Ledgers <- SomeLedgers
    ScreensOf <- SomeScreens
    Day = 3
    Year = 8
    UnparsedWait = 2
    Start = 5
    MaxTime = 12
    Interval = 1
    StableReads = 2
INVARIANTS
    TypeOK
PROPERTIES
    ThrottleNeedsTwoSightings
    
    ThrottleNotForAYear
