CONSTANTS
    Req = {r1, r2}
    Token = {t1, t2}
    Hash = {h1, h2, h3, h4}
    NoHash = NoHash
    FaultyDisk = TRUE
SPECIFICATION Spec
INVARIANTS PreChangeSessionsDie OneSetupWinner StaleOnlyByRace AuthInv
SYMMETRY AuthSymmetry
