SPECIFICATION Spec
CONSTANTS
    w1 = w1
    w2 = w2
    Workers = {w1, w2}
    NoCursor = NoCursor
    NoToken = NoToken
    Gmail = TRUE
    MaxHead = 3
    MaxEvents = 1
    Disturbances = {"crash", "delete", "expire"}
INVARIANTS TypeOK CursorCovers CheckpointIsOfThisBackfill StampedPushIsStored
SYMMETRY WorkerSymmetry
CHECK_DEADLOCK FALSE
