------------------------------ MODULE MCBackup ------------------------------
(* An instance of Backup: two adapters and one this device has not, two keyfiles and  *)
(* a free id.                                                                         *)
EXTENDS Backup, TLC
CONSTANTS r1, r2, fr24, piaware, other, x, y, home, cafe, new, b0, b1, k1, k2, v0, v1,
    u0, u1, c1, c2, h0, h1

MCAgg == (fr24 :> None) @@ (other :> None) @@
    (piaware :> [enabled |-> FALSE, mlat |-> TRUE, fields |-> x])
MCNets == (home :> b0) @@ (cafe :> b0) @@ (new :> None)
MCSettings == (k1 :> v0) @@ (k2 :> v0)

\* Backups of another feeder: of one half, of the other, and of an adapter unknown here.
MCFirst ==
    [settings |-> (k1 :> v1) @@ (k2 :> v1), identity |-> [uuid |-> u1, claim |-> c1, version |-> 1],
     aggregators |-> (fr24 :> [mlat |-> FALSE, fields |-> y]) @@
                     (piaware :> [mlat |-> FALSE, fields |-> y])]
MCSecond == [aggregators |-> << >>, wifi |-> (home :> b1) @@ (new :> b1), password |-> h1]
MCOther == [aggregators |-> other :> [mlat |-> FALSE, fields |-> y], password |-> h0]

Agg(verb, id, fields) ==
    [kind |-> "aggregator", verb |-> verb, id |-> id, fields |-> fields, mlat |-> FALSE]
Net(verb, id) == [kind |-> "network", verb |-> verb, id |-> id, body |-> b1]
Ssh(verb, password) == [kind |-> "ssh", verb |-> verb, password |-> password]
MCStarts ==
    {[kind |-> "export", want |-> Parts], [kind |-> "restore", file |-> MCFirst],
     [kind |-> "restore", file |-> MCSecond], [kind |-> "restore-setup", file |-> MCSecond],
     [kind |-> "restore-setup", file |-> MCOther],
     Ssh("set-key", h0), Ssh("set-password", h1),
     Agg("enable", fr24, None), Agg("disable", piaware, None),
     Agg("reset", piaware, None), Agg("set", piaware, y), Net("add", new), Net("update", cafe),
     Net("delete", home), [kind |-> "claim", verb |-> "register", secret |-> c2],
     [kind |-> "claim", verb |-> "rotate", secret |-> c2],
     [kind |-> "config", updates |-> k2 :> v0], [kind |-> "change", hash |-> h1]}
=============================================================================
