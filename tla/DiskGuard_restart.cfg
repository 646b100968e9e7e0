\* One instance that is killed and restarted between any two of its commands,
\* on a disk that fills up and may refuse its files.
SPECIFICATION Spec
CONSTANTS
    Instances = {i1}
    NoPid = NoPid
    MaxCrossings = 3
    MaxKills = 2
    MaxFails = 2
INVARIANTS
    TypeOK
    OneNotePerCrossing
PROPERTIES
    LowSpaceIsHandled
