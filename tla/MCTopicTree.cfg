SPECIFICATION TreeSpec
CONSTANTS
    a = a aab = aab ab = ab ab2 = ab2 s1 = s1 p1 = p1 m1 = m1
    NoPeer = NoPeer NoTopic = NoTopic
    Topics = {a, aab, ab, ab2}
    Subscriptions = {s1}
    Peers = {p1}
    Messages = {m1}
    ChannelCapacity = 1
    Project <- Owner
    Segments <- Path
    Offered <- Traffic
    MaxFolded = 3
    MaxRestarts = 1
    MaxOpen = 2
INVARIANTS CursorKeepsItsRow TreeAddsUp
CHECK_DEADLOCK FALSE
