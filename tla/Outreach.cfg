SPECIFICATION Spec
CONSTANTS
    mail1 = mail1
    mail2 = mail2
    text1 = text1
    text2 = text2
    again1 = again1
    call1 = call1
    call2 = call2
    k1 = k1
    k2 = k2
    k3 = k3
    k4 = k4
    ann = ann
    bob = bob
    cas = cas
    atAnn = atAnn
    atBob = atBob
    l1 = l1
    rep = rep
    Requests = {mail1, mail2, text1, text2, again1, call1, call2}
    Keys = {k1, k2, k3, k4}
    Addresses = {atAnn, atBob}
    Contacts = {ann, bob, cas}
    Leads = {l1}
    Reps = {rep}
    None = None
    ChannelOf <- Channel
    KeyOf <- Key
    RepOf <- OneRep
    LeadOf <- OneLead
    ContactOf <- Named
    ToOf <- Recipients
    AddressesOf <- Owned
    Dedupes = {"sms"}
    MaxRequests = 2
    MaxEvents = 3
INVARIANTS TimelineIsHonest NoRepeatOnceStored OptOutComesFirst
PROPERTY BlockedIsNotContacted
CHECK_DEADLOCK FALSE
