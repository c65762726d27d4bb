\* A tracking and an advertising node that lose each other's packets, time
\* each other out and find each other again.
CONSTANTS
    a1 = a1  a2 = a2  a3 = a3
    r1 = r1  r2 = r2
    Address = {a1, a2}
    NoAddress = NoAddress
    Resource = {r1}
    ResourceHash <- MCHash
    Crc32 <- MCCrc32
    MayTrack <- OneTrack
    MayAdvertise <- OneAdvertise
    Capacity = 1
    MaxPeers = 2
    LivelinessTimeout = 2
    LivelinessAssertTimeout = 1
    SizeMod = 65536
    MaxTime = 4
    TickStep = {3}
SPECIFICATION FairSpec
INVARIANT LinksReal
 
