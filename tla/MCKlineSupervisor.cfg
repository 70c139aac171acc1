CONSTANTS
    NoFrame = NoFrame
    Candles = {c1, c2}
    Frames <- MCFrames
    Capacity = 3
    Initial = 1
    Maximum = 3
    AttemptBound = 3
SPECIFICATION Spec
INVARIANTS TypeOK BackoffSchedule
PROPERTIES EmissionOrder StopsWhenAsked DisconnectIsRetried SessionIsBounded
