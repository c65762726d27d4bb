\* A node looks for a second resource: RelinkKeepsSubscribers is violated.
CONSTANTS
    a1 = a1  a2 = a2  a3 = a3
    r1 = r1  r2 = r2
    Address = {a1, a2}
    NoAddress = NoAddress
    Resource = {r1, r2}
    ResourceHash <- MCHash
    Crc32 <- MCCrc32
    MayTrack <- OneTrack
    MayAdvertise <- OneAdvertise
    Capacity = 2
    MaxPeers = 2
    LivelinessTimeout = 2
    LivelinessAssertTimeout = 1
    SizeMod = 65536
    MaxTime = 1
    TickStep = {3}
SPECIFICATION Spec
PROPERTY RelinkKeepsSubscribers
