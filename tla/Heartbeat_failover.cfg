\* Two coordinators in failover order; a run may die at any step.
SPECIFICATION Spec
CONSTANTS
    a = a  b = b
    Agents = {a, b}
    Coords <- Two
    Nobody = Nobody
    EscalateAfter = 2
    MaxDeaths = 1
INVARIANTS
    TypeOK
    OneNotePerStreak
PROPERTIES
    StaleLeaseReachesTheUser
    StandbysGetATurn
