\* A spinning thread and two others, two resources with one hash.
CONSTANTS
    t1 = t1  t2 = t2  t3 = t3
    r1 = r1  r2 = r2
    Thread = {t1, t2, t3}
    Nobody = Nobody
    Call <- MCCall
    CallbackCall = {"stop", "post", "track"}
    Resource = {r1, r2}
    Nil = Nil
    AnyFunction = AnyFunction
    ResourceHash <- MCHash
    PipeSize = 1
SPECIFICATION Spec
CHECK_DEADLOCK FALSE
INVARIANTS ApiTypeOK NoDeadlock RightFunction MutexAccounted
PROPERTIES CallsReturn StopEndsSpin
