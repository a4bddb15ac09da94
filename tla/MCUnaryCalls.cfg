SPECIFICATION UnarySpec
CONSTANTS
    k1 = k1 k2 = k2 p1 = p1 p2 = p2
    Calls = {k1, k2}
    PeerOf <- Peer
    Requests <- AllRequests
    PayloadCap = 2
    MaxPulled = 2
INVARIANTS UnaryTypeOK CountedIsMoved SuccessIsCounted ProtocolsAgree
CHECK_DEADLOCK FALSE
