SPECIFICATION Spec
CONSTANTS
    w1 = w1
    w2 = w2
    Workers = {w1, w2}
    NoCursor = NoCursor
    NoToken = NoToken
    Gmail = TRUE
    MaxHead = 2
    MaxEvents = 0
    Disturbances = {}
INVARIANTS DroppedPushIsHarmless
CHECK_DEADLOCK FALSE
