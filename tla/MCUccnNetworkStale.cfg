\* A third node sends a keepalive: ContentToSubscribers is violated.
CONSTANTS
    a1 = a1  a2 = a2  a3 = a3
    r1 = r1  r2 = r2
    Address = {a1, a2, a3}
    NoAddress = NoAddress
    Resource = {r1, r2}
    ResourceHash <- MCHash
    Crc32 <- MCCrc32
    MayTrack <- CrossTrack
    MayAdvertise <- CrossAdvertise
    Capacity = 2
    MaxPeers = 3
    LivelinessTimeout = 2
    LivelinessAssertTimeout = 1
    SizeMod = 65536
    MaxTime = 1
    TickStep = {3}
SPECIFICATION Spec
INVARIANT ContentToSubscribers
