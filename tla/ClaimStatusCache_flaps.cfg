CONSTANTS
    Req = {r1, r2, r3}
    NoReq = NoReq
    MaxIdentity = 1
    Floor = 1
    RetryAfter = 2
SPECIFICATION FairSpec
INVARIANTS SlotIsCurrent CacheInv OrderlyVerdict
PROPERTIES WaitersWoken
