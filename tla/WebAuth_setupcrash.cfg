CONSTANTS
    Req = {r1}
    Token = {t1, t2, t3}
    Hash = {h1, h2, h3, h4}
    NoHash = NoHash
    FaultyDisk = FALSE
SPECIFICATION Spec
INVARIANTS SetupInheritsNothing
