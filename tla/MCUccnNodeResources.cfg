\* One peer and several resources, two with the same hash.
CONSTANTS
    a1 = a1  a2 = a2
    r1 = r1  r2 = r2  r3 = r3
    Address = {a1}
    NoAddress = NoAddress
    Resource = {r1, r2, r3}
    ResourceHash <- MCHash
    Crc32 <- MCCrc32
    MaxPeers = 2
    LivelinessTimeout = 2
    LivelinessAssertTimeout = 1
    SizeMod = 65536
    MaxTime = 4
    TickStep = {3}
SPECIFICATION Spec
INVARIANTS LinksCounted SubscribersOnly DistinctHashes DeadlinesCurrent
