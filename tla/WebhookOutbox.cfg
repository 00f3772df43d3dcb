SPECIFICATION FairSpec
CONSTANTS
    d1 = d1
    s1 = s1
    w1 = w1
    w2 = w2
    Deliveries = {d1}
    Subscriptions = {s1}
    Workers = {w1, w2}
    NoDelivery = NoDelivery
    SubscriptionOf <- LoneDelivery
    MaxAttempts = 2
    Disturbances = {"throw", "crash", "lose_lock", "lose_job", "enqueue_fails", "evict", "subscription"}
    MaxEvents = 3
CHECK_DEADLOCK FALSE
INVARIANTS
    PostsBounded
    OutboxHonest
PROPERTIES
    ImplementsEventDelivery
    TerminalIsFinal
    SettledOrJobFailed
