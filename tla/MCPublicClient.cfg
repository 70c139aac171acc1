CONSTANTS
    s1 = s1
    s2 = s2
    BadName = BadName
    None = None
    Malformed = Malformed
    Refused = Refused
    Symbols <- MCSymbols
    Payloads <- MCPayloads
    Candidates <- MCCandidates
    Timeout = 2
    MaxFunding = 3
    Amounts = {0, 3, 4}
    MaxTime = 3
SPECIFICATION Spec
INVARIANTS SnapshotIsWhole SnapshotIsCoherent MetadataIsFaithful FloorsAreExact
PROPERTIES CallEnds
CHECK_DEADLOCK FALSE
