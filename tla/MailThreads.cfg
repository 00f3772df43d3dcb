SPECIFICATION Spec
CONSTANTS
    w1 = w1
    w2 = w2
    r1 = r1
    r2 = r2
    ann = ann
    bob = bob
    l1 = l1
    l2 = l2
    hello = hello
    Messages = {1, 2, 3, 4, 5}
    People = {ann, bob}
    Leads = {l1, l2}
    Subjects = {hello}
    Workers = {w1, w2}
    Reps = {r1, r2}
    Mentions <- BridgeMentions
    SubjectOf <- BridgeSubject
    PeopleOf <- BridgePeople
    InitialOwners <- AnnOnly
    None = None
    MaxEvents = 1
SYMMETRY Symmetry
INVARIANTS OneEntryPerMessage MatchedIsMaterialized RelatedShareAThread ParticipantsAreComplete
PROPERTIES MatchLatches ImplementsConversations
CHECK_DEADLOCK FALSE
