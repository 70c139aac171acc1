CONSTANTS
    Records = {r1, r2}
    Garbled = Garbled
    AppendBound = 3
SPECIFICATION Spec
INVARIANTS PersistedCanBeReplayed
CHECK_DEADLOCK FALSE
