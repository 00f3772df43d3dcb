SPECIFICATION Spec
CONSTANTS
    l1 = l1
    c1 = c1
    c2 = c2
    mail1 = mail1
    mail2 = mail2
    phone1 = phone1
    mb1 = mb1
    s1 = s1
    s2 = s2
    e1 = e1
    e2 = e2
    i1 = i1
    i2 = i2
    i3 = i3
    i4 = i4
    i5 = i5
    w1 = w1
    w2 = w2
    Leads = {l1}
    Contacts = {c1, c2}
    Destinations = {mail1, mail2, phone1}
    Mailboxes = {mb1}
    SequenceIds = {s1}
    Enrollments = {e1, e2}
    Intents = {i1, i2, i3, i4, i5}
    Workers = {w1, w2}
    NoIntent = NoIntent
    LeadOf <- TwoLeadOf
    EmailOf <- TwoEmailOf
    PhoneOf <- TwoPhoneOf
    ContactOf <- TwoContactOf
    SequenceOf <- SameSequenceOf
    MailboxOf <- EachMailboxOf
    EnrollmentOf <- TwoAndThree
    Channel <- TaskChannel
    DelayOf <- TaskDelayOf
    NeedsReview = {}
    SkipIfReplied = {i2}
    Unsendable = {i4}
    StartUnlinked = {mb1}
    DailyCap = 1
    DayLength = 2
    OpenTicks = {0}
    ClaimTimeout = 1
    ExpiryWired = TRUE
    MaxTime = 2
    MaxEvents = 1
CHECK_DEADLOCK FALSE
SYMMETRY WorkerSymmetry
INVARIANTS
    DailyClaimsBounded
