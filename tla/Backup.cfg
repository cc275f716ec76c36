SPECIFICATION Spec
CONSTANTS
    r1 = r1  r2 = r2  fr24 = fr24  piaware = piaware  other = other  x = x  y = y  home = home  cafe = cafe  new = new
    b0 = b0  b1 = b1  k1 = k1  k2 = k2  v0 = v0  v1 = v1  u0 = u0  u1 = u1  c1 = c1  c2 = c2  h0 = h0  h1 = h1
    None = None  Uuid0 = u0  Hash0 = h0
    Slots = {r1, r2}
    Keys = {k1, k2}
    Values = {v0, v1}
    Schemas = {{k1, k2}, {k1}}
    Adapters = {fr24, piaware, other}
    Known = {fr24, piaware}
    Creds = {x, y}
    NetIds = {home, cafe, new}
    Bodies = {b0, b1}
    Uuids = {u0, u1}
    Secrets = {c1, c2}
    Hashes = {h0, h1}
    Agg0 <- MCAgg
    Nets0 <- MCNets
    Settings0 <- MCSettings
    Starts <- MCStarts
    MaxOps = 2
    MaxFaults = 1
INVARIANTS BackupInv RestoreTakes
PROPERTIES EnabledKept SshAuthorised RestoreSettles
CHECK_DEADLOCK FALSE
