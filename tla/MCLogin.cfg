CONSTANTS
    Token = {t1, t2}
    TTL = 3
    PersistInterval = 2
    MaxTime = 7
    Req = {r1, r2, r3, r4}
    Threshold = 3
    Window = 3
    Duration = 3
    Slots = 2
SPECIFICATION MCSpec
INVARIANTS IdleDeadline RevokedStaysOut MirrorThrottled UnderThreshold GuardFull
PROPERTIES ImplementsTokenLife LockEarned QueueServed
