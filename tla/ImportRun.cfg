SPECIFICATION Spec
CONSTANTS
    c1 = c1
    c2 = c2
    d1 = d1
    RowCount = 4
    Keys = {"ada", "known.io"}
    EmailKeys = {"ada"}
    KeyOf <- FileKeys
    Unusable = {}
    Nameless = {2}
    Known = {2}
    Rivals = {3}
    DedupeActions = {"skip", "merge-fields", "create-anyway"}
    Planners = {d1}
    Committers = {c1, c2}
    BatchSize = 2
    MaxPlans = 2
    MaxChanges = 1
SYMMETRY CommitterSymmetry
CHECK_DEADLOCK FALSE
INVARIANTS LeadsAreCreatedOnce CheckpointCovers CountersAreTrue
PROPERTIES NoSecondLead
