SPECIFICATION Spec
CONSTANTS
    n1 = n1
    p1 = p1
    p2 = p2
    h1 = h1
    h2 = h2
    BusName = BusName
    AnySender = AnySender
    Nobody = Nobody
    Server = Server
    Names <- MCNames
    Peers <- MCPeers
    Handlers <- MCHandlers
    SenderOf <- SharedWatch
    MaxSerial = 3
    MaxSubs = 2
    MaxEvents = 2
    MaxFaults = 1
SYMMETRY PeerSymmetry
INVARIANTS MatchInstalled UsersAreCounted
PROPERTIES StreamImplemented
