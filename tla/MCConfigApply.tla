--------------------------- MODULE MCConfigApply ---------------------------
\* A coordinate, the altitude, an untracked key and GEO_CONFIGURED.  The altitude "0m"
\* is stored as "0", "x" is not an altitude.
EXTENDS ConfigApply, TLC
MCMetres == [v \in Values |-> CASE v = "0m" -> "0" [] v = "x" -> NoMetres [] OTHER -> v]
MCStored == [k \in Keys |-> IF k = "ALTITUDE" THEN "0" ELSE Absent]
MCPosts ==
    {[kind |-> "post", upd |-> ("LATITUDE" :> "1") @@ ("ALTITUDE" :> "0m")],
     [kind |-> "post", upd |-> ("ALTITUDE" :> "x")],
     [kind |-> "restore", upd |-> ("LATITUDE" :> "0") @@ ("GAIN" :> "1")]}
MCLists == [n \in 0..MaxSchema |->
              [readable |-> IF n = 1 THEN Keys \ {"ALTITUDE"} ELSE Keys,
               writable |-> IF n = 0 THEN Keys \ {"GAIN"} ELSE Keys \ {"ALTITUDE"}]]
MCEdits == {[key |-> "LATITUDE", value |-> "1", at |-> 1]}
=============================================================================
