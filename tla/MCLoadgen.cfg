SPECIFICATION FairLoadSpec
CONSTANTS
    t1 = t1 t2 = t2 t3 = t3 s1 = s1 p1 = p1
    Streams = {t1}
    Subscriptions = {s1}
    NoSubscription = NoSubscription
    Failure = Failure
    PeerOf <- Peer
    FirstFrames <- Opening
    LaterFrames <- Acking
    StreamBuffer = 1
    MaxFrames = 9
    MaxResponses = 8
    MaxMessages = 2
    TOPICS <- Demo
    SubPath <- Worker
    ATTEMPTS = 2
    PUBLISHERS = 1
    ConsumerBuffer = 1
    Window = 1
    MaxVaried = 1
    MaxRounds = 2
    EndsWithin = 1
INVARIANTS TopologyFirst AcksFollowDeliveries
PROPERTIES Rerunnable EverythingIsAcked NoneLeftBehind
CHECK_DEADLOCK FALSE
