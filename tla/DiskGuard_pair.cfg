\* Two instances, nothing killed and no write failing.
SPECIFICATION Spec
CONSTANTS
    Instances = {i1, i2}
    NoPid = NoPid
    MaxCrossings = 1
    MaxKills = 0
    MaxFails = 0
INVARIANTS
    OneInstanceActs
