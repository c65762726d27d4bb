\* The caller pauses between two spins: AssertTimeAhead is violated.
CONSTANTS
    a1 = a1  a2 = a2
    r1 = r1  r2 = r2
    Address = {a1}
    NoAddress = NoAddress
    Resource = {r1}
    ResourceHash <- MCHash
    Crc32 <- MCCrc32
    MaxPeers = 2
    LivelinessTimeout = 3
    LivelinessAssertTimeout = 2
    EndpointProbeTimeout = 1
    PeerDiscoveryPeriod = 2
    SpinTimeout = {5}
    MaxLag = 0
    MayIdle = TRUE
    SizeMod = 65536
    MaxTime = 6
    TickStep = {1}
SPECIFICATION SpinSpec
INVARIANT AssertTimeAhead
CHECK_DEADLOCK FALSE
