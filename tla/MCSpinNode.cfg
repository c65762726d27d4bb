\* A tick is 500 ms; one peer, and a spinning thread that is never late.
CONSTANTS
    a1 = a1  a2 = a2
    r1 = r1  r2 = r2
    Address = {a1}
    NoAddress = NoAddress
    Resource = {r1}
    ResourceHash <- MCHash
    Crc32 <- MCCrc32
    MaxPeers = 2
    LivelinessTimeout = 3
    LivelinessAssertTimeout = 2
    EndpointProbeTimeout = 1
    PeerDiscoveryPeriod = 2
    SpinTimeout = {5}
    MaxLag = 0
    MayIdle = FALSE
    SizeMod = 65536
    MaxTime = 6
    TickStep = {1}
SPECIFICATION SpinSpec
INVARIANTS SpinTypeOK AssertTimeAhead DiscoveryTimeAhead KeepaliveInTime 
 
CHECK_DEADLOCK FALSE
