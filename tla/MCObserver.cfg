SPECIFICATION FairHistorySpec
CONSTANTS
    t1 = t1 t2 = t2 s1 = s1 s2 = s2 p1 = p1 m1 = m1 m2 = m2
    NoPeer = NoPeer NoTopic = NoTopic
    Topics = {t1, t2}
    Subscriptions = {s1, s2}
    Peers = {p1}
    Messages = {m1, m2}
    Offered <- Traffic
    ChannelCapacity = 2
    RecentBuffer = 2
    MaxTime = 0
    MaxObservations = 4
INVARIANTS TypeOK SnapshotHoldsNewest
PROPERTIES DisplayIsLedger SeqIsIdentity EventuallyShown
CHECK_DEADLOCK FALSE
