SPECIFICATION FairLinkSpec
CONSTANTS
    u1 = u1 t1 = t1 p1 = p1 m1 = m1 m2 = m2
    UIs = {u1}
    ClockOffset <- Offset
    Observed <- OneOfEach
    Topics = {t1}
    Subscriptions = {}
    Peers = {p1}
    Messages = {m1, m2}
    NoPeer = NoPeer
    NoTopic = NoTopic
    ChannelCapacity = 1
    EarliestInstant = 0
    RecentBuffer = 1
    PayloadSize <- OneTooLarge
    DecodeLimit = 1
    InFlight = 2
    MaxVersions = 2
    MaxCrashes = 1
    MaxFaults = 1
    MaxTime = 2
INVARIANTS LinkTypeOK LocalMirrors
PROPERTIES NeverBackwards LossIsReported EventuallySynced
CHECK_DEADLOCK FALSE
