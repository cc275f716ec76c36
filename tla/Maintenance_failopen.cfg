CONSTANTS
    Req = {r1, r2}
    NoReq = NoReq
    ProbeFails = TRUE
SPECIFICATION Spec
PROPERTIES HaltRefused
