CONSTANTS
    Req = {r1, r2, r3, r4}
    NoReq = NoReq
    ProbeFails = FALSE
SPECIFICATION Spec
INVARIANTS MaintInv
PROPERTIES HaltDecided NoRunOverWreck
