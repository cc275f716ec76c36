\* Two concurrent invocations over two saved networks and a flash-time profile.
SPECIFICATION Spec
CONSTANTS
    Helpers = {p1, p2}
    Networks = {home, shed}
    TestSlugs = {}
    TestId = dry
    Foreign = {flash}
    Bodies = {old, new}
    FlashBody = old
    None = None
    p1 = p1
    p2 = p2
    home = home
    shed = shed
    dry = dry
    flash = flash
    old = old
    new = new
SYMMETRY HelperSymmetry
INVARIANTS
    AplWifiInv
    PromiseKept
    SnapshotHeld
PROPERTIES
    FallbackLeft
