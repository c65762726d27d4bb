\* The table is full: DeadlinesCurrent is violated.
CONSTANTS
    a1 = a1  a2 = a2
    r1 = r1  r2 = r2  r3 = r3
    Address = {a1, a2}
    NoAddress = NoAddress
    Resource = {r1}
    ResourceHash <- MCHash
    Crc32 <- MCCrc32
    MaxPeers = 2
    LivelinessTimeout = 2
    LivelinessAssertTimeout = 1
    SizeMod = 65536
    MaxTime = 4
    TickStep = {3}
SPECIFICATION Spec
INVARIANT DeadlinesCurrent
