\* All programs, with and without mutex, interrupted up to twice.
\* A second has four nanoseconds, and time goes on for four seconds.
CONSTANTS
    Program = {"c_provider", "c_tracker", "cpp_provider", "cpp_tracker"}
    MaxSignals = 2
    NsecPerSec = 4
    Duration <- MCDuration
    TimerStep = {1, 3, 6}
    Pass = {0, 1, 5}
    MaxNsec = 16
    p1 = p1  p2 = p2  p3 = p3
    Poller = {p1, p2, p3}
    Period <- MCPeriod
    MaxClock = 16
    Input <- MCInput
SPECIFICATION Spec
CHECK_DEADLOCK FALSE
INVARIANTS
    ProgramTypeOK NodeUsedWhileOpen NothingLeft NoSelfDeadlock
    TimeoutKept DeadlineFinite SleepsInTime
    OnSchedule WakeInTime
    TableDivides OneHashSeen
PROPERTY InterruptEnds
