SPECIFICATION PullSpec
CONSTANTS
    c1 = c1 s1 = s1 s2 = s2 p1 = p1
    Streams = {c1}
    Subscriptions = {s1, s2}
    NoSubscription = NoSubscription
    Failure = Failure
    PeerOf <- Peer
    FirstFrames <- Naming
    LaterFrames <- Acking
    StreamBuffer = 1
    MaxFrames = 3
    MaxResponses = 2
    MaxMessages = 2
PROPERTIES HalfCloseKeepsResponses
CHECK_DEADLOCK FALSE
