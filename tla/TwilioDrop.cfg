SPECIFICATION Spec
CONSTANTS
    l1 = l1
    n1 = n1
    c1 = c1
    c2 = c2
    w1 = w1
    w2 = w2
    r1 = r1
    voice1 = voice1
    message1 = message1
    again2 = again2
    progress2 = progress2
    ended2 = ended2
    recording2 = recording2
    recorded2 = recorded2
    stop1 = stop1
    stop2 = stop2
    text1 = text1
    Events = {ended2}
    Calls = {c1, c2}
    Numbers = {n1}
    Leads = {l1}
    Workers = {w1}
    Reps = {r1}
    NoTask = NoTask
    Kind <- KindOf
    Subject <- SubjectOf
    PartyOf <- OneParty
    OwnerOf <- OneOwner
    Bare = {}
    Outbound = {c2}
    MaxRows = 1
    MaxEvents = 1
CHECK_DEADLOCK FALSE
INVARIANT DropIsTheOnlyEntry
