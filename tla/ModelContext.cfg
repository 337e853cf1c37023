CONSTANTS
    Attempts = {"a1", "a2"}
    Revisions = {"r1", "unknown", ""}
    Transitions <- MCTransitions
    MaxLog = 3
    MaxTurns = 1
    Selected = {"context", "gate", "claim"}
    Postflight = {"claim"}
    ReceiptOnly = {"gate"}
    MaxBlocks = 4
    Marked = {"t4"}
    Tries = {t1, t2}
    Plans <- MCPlans
    Stages <- MCStages
    Asks <- MCAsks
    Providers = {"pa", "pb"}
    Online = "pa"
    Bounds <- MCBounds
    Scopes = {"s1", "s2"}
    Keys = {k1, k2}
    Payloads <- MCPayloads
    Queries = {"x"}
    IdCount = 3
    Readable = {"s1"}
    Writable = {"s1", "s2"}
    MaxItems = 2
    PageLimit = 1
    Retention = 0
    MaxClock = 1
    MaxSaved = 1
    HostCount = 2
    Facts <- MCFacts
    Placements <- MCPlacements
    Ttl = 1
    Skew = 1
    MaxTime = 1
SYMMETRY Symmetry
SPECIFICATION Spec
INVARIANT ResumeExact
 
 
INVARIANT EvidenceGenuine
 
INVARIANT LeaseSound
CHECK_DEADLOCK FALSE
