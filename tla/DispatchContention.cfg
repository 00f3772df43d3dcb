SPECIFICATION Spec
CONSTANTS
    l1 = l1
    c1 = c1
    c2 = c2
    mail1 = mail1
    mail2 = mail2
    phone1 = phone1
    mb1 = mb1
    s1 = s1
    s2 = s2
    e1 = e1
    e2 = e2
    i1 = i1
    i2 = i2
    i3 = i3
    i4 = i4
    i5 = i5
    w1 = w1
    w2 = w2
    Leads = {l1}
    Contacts = {c1}
    Destinations = {mail1, phone1}
    Mailboxes = {mb1}
    SequenceIds = {s1, s2}
    Enrollments = {e1, e2}
    Intents = {i1, i2, i3}
    Workers = {w1, w2}
    NoIntent = NoIntent
    LeadOf <- OneLeadOf
    EmailOf <- OneEmailOf
    PhoneOf <- OnePhoneOf
    ContactOf <- OneContactOf
    SequenceOf <- EachSequenceOf
    MailboxOf <- EachMailboxOf
    EnrollmentOf <- TwoAndOne
    Channel <- MixedChannel
    DelayOf <- NoDelayOf
    NeedsReview = {i3}
    SkipIfReplied = {}
    Unsendable = {}
    StartUnlinked = {}
    DailyCap = 1
    DayLength = 2
    OpenTicks = {0, 1}
    ClaimTimeout = 1
    ExpiryWired = TRUE
    MaxTime = 1
    MaxEvents = 2
SYMMETRY WorkerSymmetry
CHECK_DEADLOCK FALSE
INVARIANTS
    TypeOK
    AtMostOneCall
    FinishedIsComplete
PROPERTIES
    NothingAfterPause
    NeverClaimedAfterUnsubscribe
    ImplementsSendOnce
