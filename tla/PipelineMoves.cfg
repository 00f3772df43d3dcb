SPECIFICATION Spec
CONSTANTS
    b1 = b1
    b2 = b2
    r1 = r1
    r2 = r2
    r3 = r3
    won = won
    open = open
    Boards = {b1, b2}
    DealCount = 2
    Stages = {open, won}
    Requests = {r1, r2, r3}
    None = None
    MaxFetches = 2
    MaxFailures = 1
SYMMETRY Symmetry
CHECK_DEADLOCK FALSE
INVARIANTS TrailLeadsToStage SettledBoardIsTrue
