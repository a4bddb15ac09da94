SPECIFICATION FairPollerSpec
CONSTANTS
    Topics = {t1, t2}
    Subscriptions = {s1, s2}
    Peers = {}
    Messages = {}
    NoPeer = NoPeer
    NoTopic = NoTopic
    ChannelCapacity = 1
    MaxChanges = 4
    MaxFailures = 1
INVARIANTS PollerTypeOK
PROPERTIES NoFalseDisappearance EventuallyReconciled
