SPECIFICATION PipelineSpec
CONSTANTS
    c1 = c1 c2 = c2 c3 = c3 s1 = s1 s2 = s2 p1 = p1
    Streams = {c1, c2, c3}
    Subscriptions = {s1, s2}
    NoSubscription = NoSubscription
    PeerOf <- Peer
    Counts = {1}
    MaxReports = 2
    Topics = {}
    NoTopic = NoTopic
    Peers = {p1}
    NoPeer = NoPeer
    Messages = {}
    ChannelCapacity = 2
    RecentBuffer = 0
SYMMETRY Interchangeable
INVARIANTS LiveIsConnected DriftIsBounded
CHECK_DEADLOCK FALSE
