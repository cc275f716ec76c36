---------------------------- MODULE BackupProofs ----------------------------
(***************************************************************************)
(* Proofs about Backup: however requests overlap, whatever fails and       *)
(* wherever a helper dies, the device keeps its types and its locks and    *)
(* has files that tell its identity; a section reported applied is on the  *)
(* device but for the keys and networks it had to leave; a restore never   *)
(* touches an aggregator that is enabled; and SSH access changes only for  *)
(* a password that was the stored one.                                     *)
(***************************************************************************)
EXTENDS Backup, TLAPS

----------------------------------------------------------------------------
\* The inductive invariant.  First what a request is: fields, kind, what it still has to do.

Fields == {"op", "left", "at", "seen", "todo", "out", "gone"}
Histories == [Slots -> [clean : SUBSET Parts, excused : SUBSET (Keys \cup NetIds),
                        failed : SUBSET NetIds, stored : SUBSET (Hashes \cup {None})]]
Shape ==
    /\ DOMAIN req = Slots /\ \A r \in Slots : DOMAIN req[r] = Fields
    /\ hist \in Histories

Places(o) ==
    CASE o.kind = "export" -> Parts
      [] o.kind \in {"restore", "restore-setup"} -> Parts \cup {"setup"}
      [] OTHER -> {o.kind}
RequestOK(r) ==
    req[r].op # None \/ req[r].left # << >> =>
        OpOK(req[r].op) /\ req[r].left \in Seq(Places(req[r].op))

\* What it read before, and the entries it still has to go through.
SeenOK(r) ==
    /\ At(r, "network", "work") \/ At(r, "network", "settle") => req[r].seen \in Bodies \cup {None}
    /\ Is(r, {"export"}) /\ At(r, "wifi", "read") =>
        req[r].todo \subseteq NetIds /\ SectionOK("wifi", req[r].seen)
    /\ Restoring(r) =>
        /\ At(r, "settings", "write") =>
            /\ Has(r, "settings") /\ req[r].todo \subseteq DOMAIN Section(r, "settings")
            /\ DOMAIN Section(r, "settings") \ req[r].todo \subseteq hist[r].excused
        /\ At(r, "aggregators", "write") =>
            /\ Has(r, "aggregators") /\ req[r].todo \subseteq DOMAIN Section(r, "aggregators")
            /\ req[r].todo # {}
        /\ At(r, "wifi", "write") =>
            Has(r, "wifi") /\ req[r].todo \subseteq DOMAIN Section(r, "wifi")

\* What an export has gathered.
OutsOK(r) ==
    Is(r, {"export"}) =>
        /\ DOMAIN req[r].out \subseteq Parts
        /\ \A part \in DOMAIN req[r].out :
            req[r].out[part] = None \/ SectionOK(part, req[r].out[part])

\* A restore goes to each part once.
OrderOK(r) ==
    Restoring(r) =>
        /\ \A i, j \in DOMAIN req[r].left : req[r].left[i] = req[r].left[j] => i = j
        /\ \A i \in DOMAIN req[r].left : req[r].left[i] \notin DOMAIN req[r].out

\* The entries an import has been through are on the device, and no aggregator it still
\* has to write is enabled: its checks hold as long as it has the flock.
HoldsEntry(id, entry) ==
    agg[id] = [enabled |-> FALSE, mlat |-> entry.mlat, fields |-> entry.fields]
MidOK(r) ==
    Restoring(r) =>
        /\ At(r, "aggregators", "write") =>
            \A id \in DOMAIN Section(r, "aggregators") : ~Enabled(id)
        /\ At(r, "aggregators", "write") /\ "aggregators" \in hist[r].clean =>
            \A id \in DOMAIN Section(r, "aggregators") \ req[r].todo :
                HoldsEntry(id, Section(r, "aggregators")[id])
        /\ At(r, "wifi", "write") /\ "wifi" \in hist[r].clean =>
            \A i \in (DOMAIN Section(r, "wifi") \ req[r].todo) \ hist[r].excused :
                nets[i] = Section(r, "wifi")[i]

TakesOK(r) ==
    Restoring(r) =>
        \A part \in DOMAIN req[r].out \cap hist[r].clean :
            req[r].out[part] = "applied" =>
                Has(r, part) /\ Holds(part, Section(r, part), hist[r].excused)

\* A password in hand was the stored one.
SshOK(r) ==
    /\ req[r].left # << >> => pw \in hist[r].stored
    /\ At(r, "ssh", "verify") => req[r].seen \in hist[r].stored
    /\ At(r, "ssh", "helper") => req[r].op.password \in hist[r].stored

\* While an import is between its two writes nobody else's identity counts.
ImportOK ==
    \A r \in Slots : mu = r =>
        /\ Has(r, "identity") /\ mem = Section(r, "identity") /\ files.uuid = mem.uuid
        /\ \A q \in Slots \ {r} : "identity" \notin hist[q].clean
FilesOK ==
    faults = 0 => files.uuid = mem.uuid /\ (mu = None => files.claim = mem.claim)

FileInv == file # None => FileOK(file)

Each(r) ==
    RequestOK(r) /\ SeenOK(r) /\ OutsOK(r) /\ OrderOK(r) /\ MidOK(r) /\ TakesOK(r) /\ SshOK(r)
IInv ==
    /\ TypeOK /\ Shape /\ FileInv
    /\ LockHeld /\ ImportOK /\ FilesOK
    /\ \A r \in Slots : Each(r)

----------------------------------------------------------------------------
\* How a step changes the requests and their histories.

\* The request goes on with the next part.
Advances(r, status) ==
    /\ req'[r].op = req[r].op /\ req'[r].left = Tail(req[r].left) /\ req'[r].at = "begin"
    /\ req'[r].out = Told(req[r].out, Head(req[r].left), status)
\* It stays where it is.
Stays(r, at, seen, todo) ==
    /\ req'[r].op = req[r].op /\ req'[r].left = req[r].left /\ req'[r].at = at
    /\ req'[r].seen = seen /\ req'[r].todo = todo /\ req'[r].out = req[r].out
\* It is over.
Stops(r) ==
    /\ req'[r].op = req[r].op /\ req'[r].left = << >> /\ req'[r].at = req[r].at
    /\ req'[r].out = req[r].out

\* The requests but r are as they were, and all keep their form.
Alone(r) ==
    /\ DOMAIN req' = Slots /\ \A q \in Slots : DOMAIN req'[q] = Fields
    /\ \A q \in Slots \ {r} : req'[q] = req[q]

LEMMA Next1Effect ==
  ASSUME Shape, NEW r \in Slots, NEW status, Next1(r, status)
  PROVE  Alone(r) /\ Advances(r, status)
BY DEF Next1, Shape, Fields, Alone, Advances

LEMMA MidEffect ==
  ASSUME Shape, NEW r \in Slots, NEW at, NEW seen, NEW todo, Mid(r, at, seen, todo)
  PROVE  Alone(r) /\ Stays(r, at, seen, todo)
BY DEF Mid, Shape, Fields, Alone, Stays

LEMMA AbortEffect ==
  ASSUME Shape, NEW r \in Slots, Abort(r)
  PROVE  Alone(r) /\ Stops(r)
BY DEF Abort, Shape, Fields, Alone, Stops

\* The histories after a step of r on a part: nobody else is excused of more or begins a
\* part, and passwords are only added.
HistStep(r, part) ==
    /\ hist' \in Histories
    /\ \A q \in Slots : hist[q].stored \subseteq hist'[q].stored
    /\ \A q \in Slots \ {r} :
        hist'[q].excused = hist[q].excused /\ hist'[q].clean \subseteq hist[q].clean
    /\ hist[r].excused \subseteq hist'[r].excused
    /\ hist'[r].clean \subseteq hist[r].clean \cup {part}

\* A part written by r, or by the worker: nobody else's copy of it counts any more.
Written(r, part, begun, stored) ==
    /\ hist' \in Histories
    /\ \A q \in Slots : /\ hist[q].stored \subseteq hist'[q].stored
                        /\ stored \subseteq hist'[q].stored
                        /\ hist'[q].excused = hist[q].excused
    /\ \A q \in Slots \ {r} :
            part \notin hist'[q].clean /\ hist'[q].clean \subseteq hist[q].clean
    /\ r \in Slots => hist'[r].clean = hist[r].clean \cup begun

LEMMA WritesEffect ==
  ASSUME Shape, NEW r, NEW part \in Parts, NEW begun \in SUBSET {part},
         NEW stored \in SUBSET (Hashes \cup {None}), Writes(r, part, begun, stored)
  PROVE  Written(r, part, begun, stored)
<1> DEFINE History == [clean : SUBSET Parts, excused : SUBSET (Keys \cup NetIds),
                       failed : SUBSET NetIds, stored : SUBSET (Hashes \cup {None})]
<1>1. ASSUME NEW q \in Slots
      PROVE  /\ hist'[q] \in History /\ hist'[q].excused = hist[q].excused
             /\ hist'[q].clean = IF q # r THEN hist[q].clean \ {part} ELSE hist[q].clean \cup begun
             /\ hist'[q].stored = hist[q].stored \cup stored
  <2> DEFINE h == hist[q]
             clean == IF q # r THEN h.clean \ {part} ELSE h.clean \cup begun
             more == h.stored \cup stored
             new == [h EXCEPT !.clean = clean, !.stored = more]
  <2>1. h \in History
    BY DEF Shape, Histories
  <2>2. hist'[q] = new
    BY DEF Writes
  <2>3. clean \in SUBSET Parts /\ more \in SUBSET (Hashes \cup {None})
    BY <2>1
  <2> HIDE DEF clean, more, h
  <2>4. new \in History /\ new.clean = clean /\ new.stored = more /\ new.excused = h.excused
    BY <2>1, <2>3
  <2> QED
    BY <2>2, <2>4 DEF clean, more, h
<1>2. hist' \in Histories
  BY <1>1 DEF Histories, Writes
<1> QED
  BY <1>1, <1>2 DEF Written

LEMMA WroteEffect ==
  ASSUME Shape, NEW r \in Slots, NEW part \in Parts, NEW begun \in SUBSET {part},
         NEW stored \in SUBSET (Hashes \cup {None}), Writes(r, part, begun, stored)
  PROVE  HistStep(r, part)
<1>1. Written(r, part, begun, stored)
  BY WritesEffect
<1> QED
  BY <1>1 DEF HistStep, Written

LEMMA NotesEffect ==
  ASSUME Shape, NEW r \in Slots, NEW part \in Parts, NEW begun \in SUBSET {part},
         NEW excused \in SUBSET (Keys \cup NetIds), NEW failed \in SUBSET NetIds,
         Notes(r, begun, excused, failed)
  PROVE  /\ HistStep(r, part) /\ hist'[r].clean = hist[r].clean \cup begun
         /\ hist'[r].excused = hist[r].excused \cup excused
<1> DEFINE History == [clean : SUBSET Parts, excused : SUBSET (Keys \cup NetIds),
                       failed : SUBSET NetIds, stored : SUBSET (Hashes \cup {None})]
           h == hist[r]
<1>1. h \in History
  BY DEF Shape, Histories
<1>2. hist' = [hist EXCEPT ![r] = [h EXCEPT !.clean = h.clean \cup begun,
                    !.excused = h.excused \cup excused, !.failed = h.failed \cup failed]]
  BY DEF Notes
<1>3. \E new : /\ hist' = [hist EXCEPT ![r] = new] /\ new \in History
               /\ new.clean = h.clean \cup begun /\ new.excused = h.excused \cup excused
               /\ new.stored = h.stored
  <2> DEFINE clean == h.clean \cup begun
             left == h.excused \cup excused
             lost == h.failed \cup failed
             new == [h EXCEPT !.clean = clean, !.excused = left, !.failed = lost]
  <2>1. /\ clean \in SUBSET Parts /\ left \in SUBSET (Keys \cup NetIds)
        /\ lost \in SUBSET NetIds
    BY <1>1
  <2>2. new \in History /\ new.clean = clean /\ new.excused = left /\ new.stored = h.stored
    <3> HIDE DEF clean, left, lost, h
    <3> QED
      BY <1>1, <2>1
  <2>3. hist' = [hist EXCEPT ![r] = new]
    BY <1>2
  <2> HIDE DEF new
  <2> QED
    BY <2>2, <2>3
<1>4. PICK new : /\ hist' = [hist EXCEPT ![r] = new] /\ new \in History
                 /\ new.clean = h.clean \cup begun /\ new.excused = h.excused \cup excused
                 /\ new.stored = h.stored
  BY <1>3
<1> QED
  BY <1>4 DEF HistStep, Shape, Histories

\* A network is left as it is, or its write fails.
LEMMA LeavesEffect ==
  ASSUME Shape, NEW r \in Slots, NEW i \in NetIds, Notes(r, {}, {i}, {i}) \/ Notes(r, {}, {i}, {})
  PROVE  /\ HistStep(r, "wifi") /\ hist'[r].clean = hist[r].clean
         /\ hist'[r].excused = hist[r].excused \cup {i}
<1> DEFINE left == {i}
           none == {}
<1>1. /\ left \in SUBSET (Keys \cup NetIds) /\ left \in SUBSET NetIds
      /\ none \in SUBSET NetIds /\ none \in SUBSET {"wifi"} /\ "wifi" \in Parts
  BY DEF Parts
<1>2. ASSUME NEW failed \in SUBSET NetIds, Notes(r, none, left, failed)
      PROVE  /\ HistStep(r, "wifi") /\ hist'[r].clean = hist[r].clean \cup none
             /\ hist'[r].excused = hist[r].excused \cup left
  <2> HIDE DEF left, none
  <2> QED
    BY <1>1, <1>2, NotesEffect
<1>3. Notes(r, none, left, left) \/ Notes(r, none, left, none)
  OBVIOUS
<1> HIDE DEF left, none
<1>4. /\ HistStep(r, "wifi") /\ hist'[r].clean = hist[r].clean \cup none
      /\ hist'[r].excused = hist[r].excused \cup left
  BY <1>1, <1>2, <1>3
<1> QED
  BY <1>4 DEF left, none

LEMMA HistSame ==
  ASSUME Shape, NEW r \in Slots, NEW part, UNCHANGED hist
  PROVE  HistStep(r, part)
BY DEF HistStep, Shape

----------------------------------------------------------------------------
\* What a step on one part leaves of the others.

\* The part of the device, as far as a restore's promise goes, is what it was.
Kept(part) ==
    /\ part = "settings" => settings' = settings
    /\ part = "identity" => mem' = mem /\ files' = files
    /\ part = "aggregators" => agg' = agg
    /\ part = "wifi" => nets' = nets
    /\ part = "password" => pw' = pw

\* A promise is kept with its part, also for one that is excused of more.
LEMMA HoldsKept ==
  ASSUME NEW r \in Slots, NEW part \in Parts, req'[r].op = req[r].op, Kept(part),
         hist[r].excused \subseteq hist'[r].excused, Holds(part, Section(r, part), hist[r].excused)
  PROVE  Holds(part, Section(r, part), hist[r].excused)'
<1>1. Section(r, part)' = Section(r, part)
  BY DEF Section
<1>2. CASE part = "settings"
  BY <1>1, <1>2 DEF Kept, Holds
<1>3. CASE part = "identity"
  BY <1>1, <1>3 DEF Kept, Holds
<1>4. CASE part = "aggregators"
  BY <1>1, <1>4 DEF Kept, Holds
<1>5. CASE part = "wifi"
  BY <1>1, <1>5 DEF Kept, Holds
<1>6. CASE part = "password"
  BY <1>1, <1>6 DEF Kept, Holds
<1> QED
  BY <1>2, <1>3, <1>4, <1>5, <1>6 DEF Parts

HoldsMu(r) == Restoring(r) /\ At(r, "identity", "claim")
HoldsAgg(r) == Restoring(r) /\ At(r, "aggregators", "write")
HoldsWifi(r) ==
    \/ Restoring(r) /\ At(r, "wifi", "write")
    \/ At(r, "network", "work") \/ At(r, "network", "settle")

\* The request goes on as it was: nothing in hand changes, nothing it counts on is written.
Undisturbed(q) ==
    /\ req'[q].op = req[q].op /\ req'[q].left = req[q].left /\ req'[q].at = req[q].at
    /\ req'[q].seen = req[q].seen /\ req'[q].todo = req[q].todo /\ req'[q].out = req[q].out
    /\ hist'[q].excused = hist[q].excused /\ hist'[q].clean \subseteq hist[q].clean
    /\ hist[q].stored \subseteq hist'[q].stored /\ hist'[q].clean \subseteq Parts
    /\ pw' = pw \/ pw' \in hist'[q].stored
    /\ \A other \in hist'[q].clean : Kept(other)
    /\ HoldsAgg(q) => agg' = agg

\* Such a request keeps everything that is invariant about it.
LEMMA UndisturbedKept ==
  ASSUME NEW q \in Slots, Undisturbed(q), Each(q)
  PROVE  Each(q)'
<1>1. /\ req'[q].op = req[q].op /\ req'[q].left = req[q].left /\ req'[q].at = req[q].at
      /\ req'[q].seen = req[q].seen /\ req'[q].todo = req[q].todo /\ req'[q].out = req[q].out
      /\ hist'[q].excused = hist[q].excused
      /\ hist'[q].clean \subseteq hist[q].clean /\ hist[q].stored \subseteq hist'[q].stored
      /\ hist'[q].clean \subseteq Parts
      /\ pw' = pw \/ pw' \in hist'[q].stored
      /\ HoldsAgg(q) => agg' = agg
  BY DEF Undisturbed
<1>2. \A other \in hist'[q].clean : Kept(other)
  BY DEF Undisturbed
<1>3. RequestOK(q)' /\ SeenOK(q)' /\ OutsOK(q)' /\ OrderOK(q)'
  BY <1>1 DEF Each, RequestOK, SeenOK, OutsOK, OrderOK, Restoring, Is, At, Doing, Has, Section
<1>4. SshOK(q)'
  BY <1>1 DEF Each, SshOK, At, Doing
<1>5. MidOK(q)'
  <2> SUFFICES ASSUME Restoring(q)' PROVE MidOK(q)'
    BY DEF MidOK
  <2>1. Restoring(q) /\ MidOK(q)
    BY <1>1 DEF Each, Restoring, Is
  <2>2. ASSUME At(q, "aggregators", "write")'
        PROVE  /\ \A id \in DOMAIN Section(q, "aggregators")' : ~Enabled(id)'
               /\ "aggregators" \in hist'[q].clean =>
                    \A id \in DOMAIN Section(q, "aggregators")' \ req'[q].todo :
                        HoldsEntry(id, Section(q, "aggregators")[id])'
    <3>1. At(q, "aggregators", "write")
      BY <1>1, <2>2 DEF At, Doing
    <3>2. agg' = agg /\ Section(q, "aggregators")' = Section(q, "aggregators")
      BY <1>1, <2>1, <3>1 DEF HoldsAgg, Section
    <3> QED
      BY <1>1, <2>1, <3>1, <3>2 DEF MidOK, Enabled, HoldsEntry
  <2>3. ASSUME At(q, "wifi", "write")', "wifi" \in hist'[q].clean
        PROVE  \A i \in (DOMAIN Section(q, "wifi")' \ req'[q].todo) \ hist'[q].excused :
                    nets'[i] = Section(q, "wifi")'[i]
    <3>1. At(q, "wifi", "write") /\ "wifi" \in hist[q].clean
      BY <1>1, <2>3 DEF At, Doing
    <3>2. nets' = nets
      BY <1>2, <2>3 DEF Kept
    <3> QED
      BY <1>1, <2>1, <3>1, <3>2 DEF MidOK, Section
  <2> QED
    BY <2>2, <2>3 DEF MidOK
<1>6. TakesOK(q)'
  <2> SUFFICES ASSUME Restoring(q)', NEW done \in DOMAIN req'[q].out \cap hist'[q].clean,
                      req'[q].out[done] = "applied"
               PROVE  Has(q, done)' /\ Holds(done, Section(q, done), hist[q].excused)'
    BY DEF TakesOK
  <2>1. Restoring(q) /\ Kept(done) /\ done \in Parts
    BY <1>1, <1>2 DEF Restoring, Is
  <2>2. Holds(done, Section(q, done), hist[q].excused) /\ Has(q, done)
    BY <1>1, <2>1 DEF Each, TakesOK
  <2>3. Has(q, done)'
    BY <1>1, <2>2 DEF Has
  <2> QED
    BY <1>1, <2>1, <2>2, <2>3, HoldsKept
<1> QED
  BY <1>3, <1>4, <1>5, <1>6 DEF Each

\* A step of r, on the part: the other requests stay, the device changes in that part
\* only, and nobody who still counts on a part sees it change.
Frame(r, part) ==
    /\ Alone(r) /\ HistStep(r, part) /\ req'[r].op = req[r].op
    /\ \A q \in Slots : pw' = pw \/ pw' \in hist'[q].stored
    /\ \A other \in Parts \ {part} : Kept(other)
    /\ \A q \in Slots \ {r} : part \in hist'[q].clean => Kept(part)
    /\ \A q \in Slots \ {r} : HoldsAgg(q) => agg' = agg

\* Every request but the one that steps is undisturbed.
LEMMA OthersKept ==
  ASSUME Shape, NEW r \in Slots, NEW part, Frame(r, part), NEW q \in Slots \ {r}, Each(q)
  PROVE  Each(q)'
<1>1. hist'[q].clean \subseteq Parts
  BY DEF Frame, HistStep, Histories
<1>2. Undisturbed(q)
  BY <1>1 DEF Frame, Alone, HistStep, Undisturbed
<1> QED
  BY <1>2, UndisturbedKept

----------------------------------------------------------------------------
\* What a step does to its own request.

\* The parts a restore is through with stay as they were reported.
LEMMA SettledKept ==
  ASSUME Shape, NEW r \in Slots, NEW part, Frame(r, part), Each(r), Restoring(r),
         NEW done \in DOMAIN req[r].out \ {part}, done \in hist'[r].clean,
         req[r].out[done] = "applied"
  PROVE  Has(r, done)' /\ Holds(done, Section(r, done), hist[r].excused)'
<1>1. /\ hist'[r].clean \subseteq hist[r].clean \cup {part} /\ hist'[r].clean \subseteq Parts
      /\ req'[r].op = req[r].op /\ hist[r].excused \subseteq hist'[r].excused
      /\ \A other \in Parts \ {part} : Kept(other)
  BY DEF Frame, HistStep, Histories
<1>2. Has(r, done) /\ Holds(done, Section(r, done), hist[r].excused) /\ done \in Parts /\ Kept(done)
  BY <1>1 DEF Each, TakesOK
<1>3. Has(r, done)'
  BY <1>1, <1>2 DEF Has
<1> QED
  BY <1>1, <1>2, <1>3, HoldsKept

\* The stored password stays among those the request may give.
LEMMA StoredKept ==
  ASSUME Shape, NEW r \in Slots, NEW part, Frame(r, part), Each(r), req[r].left # << >>
  PROVE  pw' \in hist'[r].stored
BY DEF Frame, HistStep, Each, SshOK

\* A restore is through with a part.
LEMMA RestoreAdvances ==
  ASSUME Shape, NEW r \in Slots, NEW part, Frame(r, part), Each(r), Restoring(r),
         Doing(r, part), NEW status, Advances(r, status),
         part \in hist'[r].clean /\ status = "applied" =>
            Has(r, part)' /\ Holds(part, Section(r, part), hist[r].excused)'
  PROVE  Each(r)'
<1> DEFINE left == req[r].left
<1>1. /\ left # << >> /\ Head(left) = part /\ OpOK(req[r].op)
      /\ left \in Seq(Parts \cup {"setup"}) /\ req[r].op.kind \in {"restore", "restore-setup"}
  BY DEF Doing, Restoring, Is, Each, RequestOK, Places
<1>2. /\ req'[r].op = req[r].op /\ req'[r].left = Tail(left) /\ req'[r].at = "begin"
      /\ req'[r].out = Told(req[r].out, part, status)
  BY <1>1 DEF Advances
<1>3. /\ Len(left) \in Nat \ {0} /\ left[1] = part /\ DOMAIN left = 1..Len(left)
      /\ Tail(left) \in Seq(Parts \cup {"setup"}) /\ Len(Tail(left)) = Len(left) - 1
      /\ DOMAIN Tail(left) = 1..(Len(left) - 1)
      /\ \A i \in 1..(Len(left) - 1) : Tail(left)[i] = left[i + 1]
  BY <1>1
<1>4. /\ DOMAIN req'[r].out = DOMAIN req[r].out \cup {part}
      /\ req'[r].out[part] = status
      /\ \A done \in DOMAIN req[r].out \ {part} : req'[r].out[done] = req[r].out[done]
  BY <1>2 DEF Told
<1>5. RequestOK(r)'
  BY <1>1, <1>2, <1>3 DEF RequestOK, Places
<1>6. SeenOK(r)' /\ MidOK(r)'
  BY <1>2 DEF SeenOK, MidOK, At
<1>7. OutsOK(r)'
  BY <1>1, <1>2 DEF OutsOK, Is
<1>8. OrderOK(r)'
  <2>1. /\ \A i, j \in DOMAIN left : left[i] = left[j] => i = j
        /\ \A i \in DOMAIN left : left[i] \notin DOMAIN req[r].out
    BY DEF Each, OrderOK
  <2>2. ASSUME NEW i \in DOMAIN Tail(left), NEW j \in DOMAIN Tail(left),
               Tail(left)[i] = Tail(left)[j]
        PROVE  i = j
    <3>1. /\ i \in Nat /\ j \in Nat /\ i + 1 \in DOMAIN left /\ j + 1 \in DOMAIN left
          /\ left[i + 1] = left[j + 1]
      BY <1>3, <2>2
    <3>2. i + 1 = j + 1
      BY <2>1, <3>1
    <3> QED
      BY <3>1, <3>2
  <2>3. ASSUME NEW i \in DOMAIN Tail(left)
        PROVE  Tail(left)[i] \notin DOMAIN req'[r].out
    <3>1. /\ i + 1 \in DOMAIN left /\ 1 \in DOMAIN left /\ i + 1 # 1
          /\ Tail(left)[i] = left[i + 1]
      BY <1>3
    <3>2. left[i + 1] # part
      BY <1>3, <2>1, <3>1
    <3> QED
      BY <1>4, <2>1, <3>1, <3>2
  <2> QED
    BY <1>2, <2>2, <2>3 DEF OrderOK
<1>9. TakesOK(r)'
  BY <1>4, SettledKept DEF TakesOK
<1>10. SshOK(r)'
  BY <1>1, <1>2, StoredKept DEF SshOK, At
<1> QED
  BY <1>5, <1>6, <1>7, <1>8, <1>9, <1>10 DEF Each

\* It is not: what it has in hand must be right.
LEMMA RestoreStays ==
  ASSUME Shape, NEW r \in Slots, NEW part, Frame(r, part), Each(r), Restoring(r),
         Doing(r, part), NEW at, NEW seen, NEW todo, Stays(r, at, seen, todo),
         SeenOK(r)', MidOK(r)', part # "ssh"
  PROVE  Each(r)'
<1> DEFINE left == req[r].left
<1>1. /\ left # << >> /\ Head(left) = part /\ OpOK(req[r].op)
      /\ left \in Seq(Parts \cup {"setup"}) /\ req[r].op.kind \in {"restore", "restore-setup"}
  BY DEF Doing, Restoring, Is, Each, RequestOK, Places
<1>2. /\ req'[r].op = req[r].op /\ req'[r].left = left /\ req'[r].at = at
      /\ req'[r].out = req[r].out
  BY DEF Stays
<1>3. left[1] = part /\ 1 \in DOMAIN left
  BY <1>1
<1>4. /\ \A i, j \in DOMAIN left : left[i] = left[j] => i = j
      /\ \A i \in DOMAIN left : left[i] \notin DOMAIN req[r].out
  BY DEF Each, OrderOK
<1>5. RequestOK(r)' /\ OutsOK(r)' /\ OrderOK(r)'
  BY <1>1, <1>2, <1>4 DEF RequestOK, OutsOK, OrderOK, Is, Places
<1>6. TakesOK(r)'
  BY <1>2, <1>3, <1>4, SettledKept DEF TakesOK
<1>7. SshOK(r)'
  BY <1>1, <1>2, StoredKept DEF SshOK, At, Doing
<1> QED
  BY <1>5, <1>6, <1>7 DEF Each

\* A request that has been aborted promises nothing more.
LEMMA RequestStops ==
  ASSUME Shape, NEW r \in Slots, NEW part, Frame(r, part), Each(r), Stops(r),
         Restoring(r) => part \notin DOMAIN req[r].out
  PROVE  Each(r)'
<1>1. /\ req'[r].op = req[r].op /\ req'[r].left = << >> /\ req'[r].out = req[r].out
  BY DEF Stops
<1>2. RequestOK(r)'
  BY <1>1 DEF Each, RequestOK, Stops
<1>3. SeenOK(r)' /\ MidOK(r)' /\ SshOK(r)'
  BY <1>1 DEF SeenOK, MidOK, SshOK, At, Doing
<1>4. OutsOK(r)'
  BY <1>1 DEF Each, OutsOK, Is
<1>5. OrderOK(r)'
  BY <1>1 DEF OrderOK
<1>6. TakesOK(r)'
  <2>1. Restoring(r)' <=> Restoring(r)
    BY <1>1 DEF Restoring, Is
  <2> QED
    BY <1>1, <2>1, SettledKept DEF TakesOK
<1> QED
  BY <1>2, <1>3, <1>4, <1>5, <1>6 DEF Each

LEMMA TailOfSeq ==
  ASSUME NEW S, NEW s \in Seq(S), s # << >>
  PROVE  Tail(s) \in Seq(S)
OBVIOUS

LEMMA HeadOfSeq ==
  ASSUME NEW S, NEW s \in Seq(S), s # << >>
  PROVE  Head(s) \in S
OBVIOUS

\* Any other request: only what it has gathered, and what it holds, can go wrong.
LEMMA OtherAdvances ==
  ASSUME Shape, NEW r \in Slots, NEW part, Frame(r, part), Each(r), ~Restoring(r),
         req[r].left # << >>, NEW status, Advances(r, status), OutsOK(r)'
  PROVE  Each(r)'
<1>1. /\ OpOK(req[r].op) /\ req[r].left \in Seq(Places(req[r].op))
      /\ req'[r].op = req[r].op /\ req'[r].left = Tail(req[r].left) /\ req'[r].at = "begin"
  BY DEF Each, RequestOK, Advances
<1> DEFINE places == Places(req[r].op)
<1>2. RequestOK(r)'
  <2>1. places' = places
    BY <1>1 DEF Places
  <2>2. Tail(req[r].left) \in Seq(places)
    BY <1>1, TailOfSeq
  <2> QED
    BY <1>1, <2>1, <2>2 DEF RequestOK
<1>3. ~Restoring(r)'
  BY <1>1 DEF Restoring, Is
<1>4. SeenOK(r)' /\ OrderOK(r)' /\ MidOK(r)' /\ TakesOK(r)'
  BY <1>1, <1>3 DEF SeenOK, OrderOK, MidOK, TakesOK, At
<1>5. SshOK(r)'
  BY <1>1, StoredKept DEF SshOK, At
<1> QED
  BY <1>2, <1>4, <1>5 DEF Each

LEMMA OtherStays ==
  ASSUME Shape, NEW r \in Slots, NEW part, Frame(r, part), Each(r), ~Restoring(r),
         req[r].left # << >>, NEW at, NEW seen, NEW todo, Stays(r, at, seen, todo),
         SeenOK(r)',
         At(r, "ssh", "verify")' => seen \in hist'[r].stored,
         At(r, "ssh", "helper")' => req[r].op.password \in hist'[r].stored
  PROVE  Each(r)'
<1>1. /\ OpOK(req[r].op) /\ req[r].left \in Seq(Places(req[r].op))
      /\ req'[r].op = req[r].op /\ req'[r].left = req[r].left
      /\ req'[r].seen = seen /\ req'[r].out = req[r].out
  BY DEF Each, RequestOK, Stays
<1>2. RequestOK(r)'
  BY <1>1 DEF RequestOK
<1>3. ~Restoring(r)'
  BY <1>1 DEF Restoring, Is
<1>4. OrderOK(r)' /\ MidOK(r)' /\ TakesOK(r)'
  BY <1>1, <1>3 DEF OrderOK, MidOK, TakesOK
<1>5. OutsOK(r)'
  BY <1>1 DEF Each, OutsOK, Is
<1>6. SshOK(r)'
  BY <1>1, StoredKept DEF SshOK
<1> QED
  BY <1>2, <1>4, <1>5, <1>6 DEF Each

----------------------------------------------------------------------------
\* The locks, and a step as a whole.

LEMMA LockNames == None # "worker" /\ \A r \in Slots : r # None /\ r # "worker"
BY BackupAssumption DEF BackupAssumption

\* Whoever takes or gives back a lock in this step is r, or the worker.
LocksStep(r) ==
    /\ mu' = r <=> HoldsMu(r)'
    /\ aggLock' = r <=> HoldsAgg(r)'
    /\ wifiLock' = r <=> HoldsWifi(r)'
    /\ \A q \in Slots \ {r} :
        (mu' = q <=> mu = q) /\ (aggLock' = q <=> aggLock = q) /\ (wifiLock' = q <=> wifiLock = q)
    /\ aggLock' = "worker" <=> job' # None /\ job'.at = "work"
    /\ mu' \in Slots \cup {None} /\ aggLock' \in Slots \cup {None, "worker"}
    /\ wifiLock' \in Slots \cup {None} /\ job' \in Job \cup {None}

LEMMA LocksStepHeld ==
  ASSUME LockHeld, NEW r \in Slots, Alone(r), LocksStep(r)
  PROVE  LockHeld'
<1>1. ASSUME NEW q \in Slots \ {r}
      PROVE  /\ HoldsMu(q)' <=> HoldsMu(q)
             /\ HoldsAgg(q)' <=> HoldsAgg(q)
             /\ HoldsWifi(q)' <=> HoldsWifi(q)
  BY DEF Alone, HoldsMu, HoldsAgg, HoldsWifi, Restoring, Is, At, Doing
<1>2. ASSUME NEW q \in Slots \ {r}
      PROVE  /\ mu' = q <=> HoldsMu(q)'
             /\ aggLock' = q <=> HoldsAgg(q)'
             /\ wifiLock' = q <=> HoldsWifi(q)'
  BY <1>1 DEF LockHeld, LocksStep, HoldsMu, HoldsAgg, HoldsWifi
<1>3. \A q \in Slots : /\ mu' = q <=> HoldsMu(q)'
                       /\ aggLock' = q <=> HoldsAgg(q)'
                       /\ wifiLock' = q <=> HoldsWifi(q)'
  BY <1>2 DEF LocksStep
<1> QED
  BY <1>3 DEF LockHeld, LocksStep, HoldsMu, HoldsAgg, HoldsWifi

Locking(r) == HoldsMu(r) \/ HoldsAgg(r) \/ HoldsWifi(r)
LEMMA LocksKept ==
  ASSUME TypeOK, LockHeld, NEW r \in Slots, UNCHANGED <<mu, aggLock, wifiLock, job>>,
         HoldsMu(r)' <=> HoldsMu(r), HoldsAgg(r)' <=> HoldsAgg(r), HoldsWifi(r)' <=> HoldsWifi(r)
  PROVE  LocksStep(r)
BY DEF TypeOK, LockHeld, LocksStep, HoldsMu, HoldsAgg, HoldsWifi

LEMMA FaultCounted ==
  ASSUME TypeOK, Fault \/ Fine
  PROVE  faults' \in 0..MaxFaults /\ (faults' = 0 => faults = 0 /\ Fine)
BY BackupAssumption DEF Fault, Fine, TypeOK, BackupAssumption

\* It leaves the identity, its lock and the last export alone.
LEMMA StepDone ==
  ASSUME IInv, NEW r \in Slots, NEW part, Frame(r, part), Each(r)', TypeOK', LocksStep(r),
         UNCHANGED <<mem, files, mu, file>>, Fault \/ Fine, part # "identity" \/ UNCHANGED hist
  PROVE  IInv'
<1>1. Shape'
  BY DEF Frame, Alone, HistStep, Shape
<1>2. \A q \in Slots : Each(q)'
  BY OthersKept DEF IInv
<1>3. LockHeld'
  BY LocksStepHeld DEF IInv, Frame
<1>4. ImportOK'
  <2> SUFFICES ASSUME NEW q \in Slots, mu = q
               PROVE  /\ Has(q, "identity")' /\ (mem = Section(q, "identity"))'
                      /\ (files.uuid = mem.uuid)'
                      /\ \A p \in Slots \ {q} : "identity" \notin hist'[p].clean
    BY DEF ImportOK
  <2>1. /\ Has(q, "identity") /\ mem = Section(q, "identity") /\ files.uuid = mem.uuid
        /\ \A p \in Slots \ {q} : "identity" \notin hist[p].clean
    BY DEF IInv, ImportOK
  <2>2. \A p \in Slots \ {q} : "identity" \notin hist'[p].clean
    BY <2>1 DEF Frame, HistStep
  <2>3. req'[q].op = req[q].op
    BY DEF Frame, Alone
  <2> QED
    BY <2>1, <2>2, <2>3 DEF Has, Section
<1>5. FilesOK'
  BY FaultCounted DEF IInv, FilesOK
<1>6. FileInv'
  BY DEF IInv, FileInv
<1> QED
  BY <1>1, <1>2, <1>3, <1>4, <1>5, <1>6 DEF IInv

\* It leaves the device alone, but for its locks.
Quiet == UNCHANGED <<agg, nets, settings, schema, mem, files, mu, ssh, pw, file, ops>>
LEMMA QuietFrame ==
  ASSUME Shape, NEW r \in Slots, NEW part, Alone(r), HistStep(r, part), req'[r].op = req[r].op,
         Quiet
  PROVE  Frame(r, part)
BY DEF Frame, Kept, Quiet

LEMMA QuietStep ==
  ASSUME IInv, NEW r \in Slots, NEW part, Frame(r, part), Each(r)', LocksStep(r), Quiet,
         Fault \/ Fine, part # "identity" \/ UNCHANGED hist
  PROVE  IInv'
<1>1. TypeOK'
  BY FaultCounted DEF IInv, TypeOK, Quiet, LocksStep
<1>2. UNCHANGED <<mem, files, mu, file>>
  BY DEF Quiet
<1> QED
  BY <1>1, <1>2, StepDone

\* It changes one part of the device and says so in the histories.
Untouched(part) ==
    /\ part # "settings" => settings' = settings
    /\ part # "identity" => mem' = mem /\ files' = files
    /\ part # "aggregators" => agg' = agg
    /\ part # "wifi" => nets' = nets
    /\ part # "password" => pw' = pw

LEMMA WriteFrame ==
  ASSUME Shape, NEW r \in Slots, NEW part \in Parts, NEW begun \in SUBSET {part},
         NEW stored \in SUBSET (Hashes \cup {None}), Writes(r, part, begun, stored),
         Alone(r), req'[r].op = req[r].op, Untouched(part), pw' = pw \/ pw' \in stored,
         part = "aggregators" => \A q \in Slots \ {r} : ~HoldsAgg(q)
  PROVE  Frame(r, part)
<1>1. HistStep(r, part) /\ Written(r, part, begun, stored)
  BY WritesEffect, WroteEffect
<1>2. /\ \A q \in Slots \ {r} : part \notin hist'[q].clean
      /\ \A q \in Slots : stored \subseteq hist'[q].stored
  BY <1>1 DEF Written
<1>3. \A other \in Parts \ {part} : Kept(other)
  BY DEF Untouched, Kept
<1> QED
  BY <1>1, <1>2, <1>3 DEF Frame, Untouched

LEMMA Here ==
  ASSUME IInv, NEW r \in Slots
  PROVE  /\ Shape /\ Each(r) /\ TypeOK /\ LockHeld
         /\ req[r].left # << >> \/ req[r].op # None =>
                OpOK(req[r].op) /\ req[r].left \in Seq(Places(req[r].op))
         /\ Restoring(r) => req[r].op.kind \in {"restore", "restore-setup"} /\ FileOK(req[r].op.file)
BY DEF IInv, Each, RequestOK, OpOK, Restoring, Is

\* A step of this kind is possible only for a request of that kind.
LEMMA KindOf ==
  ASSUME IInv, NEW r \in Slots, NEW part, Doing(r, part)
  PROVE  /\ OpOK(req[r].op) /\ req[r].left # << >> /\ part \in Places(req[r].op)
         /\ part = "setup" => req[r].op.kind \in {"restore", "restore-setup"}
         /\ part \in {"ssh", "aggregator", "network", "claim", "config", "change"} =>
                req[r].op.kind = part /\ ~Restoring(r) /\ ~Is(r, {"export"})
<1>1. OpOK(req[r].op) /\ req[r].left # << >> /\ req[r].left \in Seq(Places(req[r].op))
  BY Here DEF Doing
<1> DEFINE places == Places(req[r].op)
<1>2. Head(req[r].left) \in places
  BY <1>1, HeadOfSeq
<1>3. part \in places
  BY <1>2 DEF Doing
<1> QED
  BY <1>1, <1>3 DEF Places, Parts, OpOK, Restoring, Is

\* Nobody else has the aggregators' flock than who has it.
LEMMA NoImport ==
  ASSUME LockHeld, NEW r \in Slots, aggLock # r
  PROVE  ~HoldsAgg(r)
BY DEF LockHeld, HoldsAgg

\* Only a request in the middle of a change has a lock.
LEMMA NotLocking ==
  ASSUME NEW r \in Slots,
         \/ req[r].left = << >> \/ req[r].at \notin {"claim", "write", "work", "settle"}
         \/ Head(req[r].left) \notin {"identity", "aggregators", "wifi", "network"}
         \/ ~Restoring(r) /\ Head(req[r].left) # "network"
  PROVE  ~HoldsMu(r) /\ ~HoldsAgg(r) /\ ~HoldsWifi(r)
BY DEF HoldsMu, HoldsAgg, HoldsWifi, At, Doing
LEMMA NotLockingNext ==
  ASSUME NEW r \in Slots,
         \/ req'[r].left = << >> \/ req'[r].at \notin {"claim", "write", "work", "settle"}
         \/ Head(req'[r].left) \notin {"identity", "aggregators", "wifi", "network"}
         \/ ~Restoring(r)' /\ Head(req'[r].left) # "network"
  PROVE  ~HoldsMu(r)' /\ ~HoldsAgg(r)' /\ ~HoldsWifi(r)'
BY DEF HoldsMu, HoldsAgg, HoldsWifi, At, Doing

----------------------------------------------------------------------------
\* Exports.

LEMMA ExportHere ==
  ASSUME IInv, NEW r \in Slots, Is(r, {"export"}), req[r].left # << >>
  PROVE  /\ Shape /\ Each(r) /\ TypeOK /\ LockHeld /\ ~Restoring(r) /\ Head(req[r].left) \in Parts
         /\ ~HoldsMu(r) /\ ~HoldsAgg(r) /\ ~HoldsWifi(r)
<1>1. /\ Shape /\ Each(r) /\ TypeOK /\ LockHeld /\ ~Restoring(r)
      /\ req[r].left \in Seq(Places(req[r].op)) /\ req[r].op.kind = "export"
  BY Here DEF Is, Restoring
<1>2. Head(req[r].left) \in Parts
  BY <1>1, HeadOfSeq DEF Places
<1> QED
  BY <1>1, <1>2, NotLocking DEF Parts

\* It only reads.
LEMMA ExportQuiet ==
  ASSUME IInv, NEW r \in Slots, Is(r, {"export"}), req[r].left # << >>, Alone(r),
         req'[r].op = req[r].op, req'[r].left # << >> => Head(req'[r].left) # "network",
         UNCHANGED <<device, file, ops, faults, hist>>
  PROVE  Frame(r, "setup") /\ (Each(r)' => IInv')
<1>1. /\ Shape /\ TypeOK /\ LockHeld /\ ~Restoring(r)
      /\ ~HoldsMu(r) /\ ~HoldsAgg(r) /\ ~HoldsWifi(r)
  BY ExportHere
<1>2. Quiet /\ UNCHANGED <<mu, aggLock, wifiLock, job>>
  BY DEF Quiet, device, aggVars, netVars, idVars
<1>3. Frame(r, "setup")
  BY <1>1, <1>2, HistSame, QuietFrame
<1>4. ~HoldsMu(r)' /\ ~HoldsAgg(r)' /\ ~HoldsWifi(r)'
  BY <1>1, NotLockingNext DEF Restoring, Is
<1>5. LocksStep(r)
  BY <1>1, <1>2, <1>4, LocksKept
<1> QED
  BY <1>2, <1>3, <1>5, QuietStep DEF Fine

LEMMA ExportAborts ==
  ASSUME IInv, NEW r \in Slots, Is(r, {"export"}), req[r].left # << >>, Abort(r),
         UNCHANGED <<device, file, ops, faults, hist>>
  PROVE  IInv'
<1>1. Alone(r) /\ Stops(r) /\ ~Restoring(r) /\ Shape /\ Each(r)
  BY AbortEffect, ExportHere
<1>2. Frame(r, "setup") /\ (Each(r)' => IInv')
  BY <1>1, ExportQuiet DEF Stops
<1> QED
  BY <1>1, <1>2, RequestStops

LEMMA ExportFailsStep ==
  ASSUME IInv, NEW r \in Slots, ExportFails(r)
  PROVE  IInv'
BY ExportAborts DEF ExportFails

\* An export gathers one more section.
LEMMA Gathers ==
  ASSUME IInv, NEW r \in Slots, Is(r, {"export"}), NEW part \in Parts, Doing(r, part), NEW s,
         s = None \/ SectionOK(part, s), Next1(r, s), UNCHANGED <<device, file, ops, faults, hist>>
  PROVE  IInv'
<1>1. Alone(r) /\ Advances(r, s) /\ ~Restoring(r) /\ Shape /\ Each(r) /\ req[r].left # << >>
      /\ req[r].left \in Seq(Parts)
  BY Next1Effect, ExportHere, Here DEF Doing, Is, Places
<1>2. req'[r].op = req[r].op /\ req'[r].out = Told(req[r].out, part, s)
  BY <1>1 DEF Advances, Doing
<1>3. req'[r].left # << >> => Head(req'[r].left) # "network"
  <2>1. req'[r].left \in Seq(Parts)
    BY <1>1, TailOfSeq DEF Advances
  <2>2. req'[r].left # << >> => Head(req'[r].left) \in Parts
    BY <2>1, HeadOfSeq
  <2> QED
    BY <2>2 DEF Parts
<1>4. Frame(r, "setup") /\ (Each(r)' => IInv')
  BY <1>1, <1>2, <1>3, ExportQuiet
<1>5. OutsOK(r)'
  BY <1>1, <1>2 DEF Each, OutsOK, Told, Is
<1> QED
  BY <1>1, <1>4, <1>5, OtherAdvances

LEMMA ExportPartTyped ==
  ASSUME TypeOK, NEW part \in {"settings", "aggregators", "password"}
  PROVE  exportPart(part) = None \/ SectionOK(part, exportPart(part))
<1>1. CASE part = "settings"
  BY <1>1 DEF exportPart, SectionOK, TypeOK
<1>2. CASE part = "aggregators"
  <2> DEFINE given == {i \in Known : agg[i] # None}
             s == [id \in given |-> [mlat |-> agg[id].mlat, fields |-> agg[id].fields]]
  <2>1. \A id \in given : id \in Adapters /\ agg[id] \in Record
    BY BackupAssumption DEF BackupAssumption, TypeOK
  <2>2. \A id \in given : s[id] \in Entry
    BY <2>1 DEF Record, Entry
  <2>3. exportPart(part) = s
    BY <1>2 DEF exportPart
  <2>4. DOMAIN s = given
    OBVIOUS
  <2> HIDE DEF s
  <2> QED
    BY <1>2, <2>1, <2>2, <2>3, <2>4 DEF SectionOK
<1>3. CASE part = "password"
  BY <1>3 DEF exportPart, SectionOK, TypeOK
<1> QED
  BY <1>1, <1>2, <1>3

LEMMA ExportStep ==
  ASSUME IInv, NEW r \in Slots, Export(r)
  PROVE  IInv'
<1>1. PICK part \in {"settings", "aggregators", "password"} :
        Doing(r, part) /\ Next1(r, exportPart(part))
  BY DEF Export
<1> DEFINE s == exportPart(part)
<1>2. s = None \/ SectionOK(part, s)
  BY ExportPartTyped, Here
<1> HIDE DEF s
<1>3. Next1(r, s) /\ part \in Parts
  BY <1>1 DEF s, Parts
<1> QED
  BY <1>1, <1>2, <1>3, Gathers DEF Export

\* It goes on within a section.
LEMMA ExportMid ==
  ASSUME IInv, NEW r \in Slots, Is(r, {"export"}), NEW part \in Parts, Doing(r, part), NEW at,
         NEW seen, NEW todo, Mid(r, at, seen, todo), UNCHANGED <<device, file, ops, faults, hist>>,
         part = "wifi" /\ at = "read" => todo \subseteq NetIds /\ SectionOK("wifi", seen)
  PROVE  IInv'
<1>1. Alone(r) /\ Stays(r, at, seen, todo) /\ ~Restoring(r) /\ Shape /\ Each(r) /\ req[r].left # << >>
  BY MidEffect, ExportHere DEF Doing
<1>2. /\ req'[r].op = req[r].op /\ req'[r].left = req[r].left /\ ~Restoring(r)'
      /\ req'[r].at = at /\ req'[r].seen = seen /\ req'[r].todo = todo
  BY <1>1 DEF Stays, Restoring, Is
<1>3. Head(req'[r].left) = part
  BY <1>2 DEF Doing
<1>4. Frame(r, "setup") /\ (Each(r)' => IInv')
  BY <1>1, <1>2, <1>3, ExportQuiet DEF Parts
<1>5. SeenOK(r)'
  BY <1>2, <1>3 DEF SeenOK, At, Doing, Parts
<1>6. ~Doing(r, "ssh")'
  BY <1>3 DEF Doing, Parts
<1> QED
  BY <1>1, <1>4, <1>5, <1>6, OtherStays DEF At

LEMMA exportWifiStep ==
  ASSUME IInv, NEW r \in Slots, exportWifi(r)
  PROVE  IInv'
<1> DEFINE i == First(req[r].todo)
           now == req[r].seen
<1>1. /\ Is(r, {"export"}) /\ Doing(r, "wifi") /\ UNCHANGED <<device, file, ops, faults, hist>>
      /\ "wifi" \in Parts /\ TypeOK /\ Each(r)
  BY Here DEF exportWifi, Parts
<1>2. req[r].at = "read" => req[r].todo \subseteq NetIds /\ SectionOK("wifi", now)
  BY <1>1 DEF Each, SeenOK, At
<1>3. CASE req[r].at = "begin" /\ Mid(r, "read", << >>, NetIds)
  <2>1. SectionOK("wifi", << >>)
    BY DEF SectionOK
  <2> QED
    BY <1>1, <1>3, <2>1, ExportMid
<1>4. CASE req[r].at = "read" /\ req[r].todo = {} /\ Next1(r, now)
  BY <1>1, <1>2, <1>4, Gathers
<1>5. CASE /\ req[r].at = "read" /\ req[r].todo # {}
           /\ Mid(r, "read", IF nets[i] = None THEN now ELSE Told(now, i, nets[i]), req[r].todo \ {i})
  <2>1. i \in NetIds
    BY <1>2, <1>5 DEF First
  <2> DEFINE next == IF nets[i] = None THEN now ELSE Told(now, i, nets[i])
             todo == req[r].todo \ {i}
  <2> HIDE DEF i, now
  <2>2. SectionOK("wifi", next)
    <3>1. CASE nets[i] = None
      BY <1>2, <1>5, <3>1
    <3>2. CASE nets[i] # None
      <4>1. nets[i] \in Bodies
        BY <1>1, <2>1, <3>2 DEF TypeOK
      <4>2. /\ DOMAIN next = DOMAIN now \cup {i}
            /\ \A j \in DOMAIN next : next[j] = IF j = i THEN nets[i] ELSE now[j]
        BY <3>2 DEF Told
      <4> HIDE DEF next
      <4> QED
        BY <1>2, <1>5, <2>1, <4>1, <4>2 DEF SectionOK
    <3> QED
      BY <3>1, <3>2
  <2>3. todo \subseteq NetIds
    BY <1>2, <1>5
  <2>4. Mid(r, "read", next, todo)
    BY <1>5
  <2> HIDE DEF next, todo
  <2> QED
    BY <1>1, <2>2, <2>3, <2>4, ExportMid
<1> QED
  BY <1>3, <1>4, <1>5 DEF exportWifi

LEMMA ExportIdentityStep ==
  ASSUME IInv, NEW r \in Slots, ExportIdentity(r)
  PROVE  IInv'
<1>1. /\ Is(r, {"export"}) /\ Doing(r, "identity") /\ req[r].left # << >>
      /\ UNCHANGED <<device, file, ops, faults, hist>> /\ "identity" \in Parts
  BY DEF ExportIdentity, Doing, Parts
<1>2. ASSUME NEW at, Mid(r, at, None, {})
      PROVE  IInv'
  BY <1>1, <1>2, ExportMid
<1>3. ASSUME Abort(r)
      PROVE  IInv'
  BY <1>1, <1>3, ExportAborts
<1>4. ASSUME NEW s \in Identity \cup {None}, Next1(r, s)
      PROVE  IInv'
  <2>1. s = None \/ SectionOK("identity", s)
    BY DEF SectionOK
  <2> QED
    BY <1>1, <1>4, <2>1, Gathers
<1>5. mem \in Identity
  BY Here DEF TypeOK
<1> QED
  BY <1>2, <1>3, <1>4, <1>5 DEF ExportIdentity

----------------------------------------------------------------------------
\* Restores: the steps that leave the device alone, but for its locks.

LEMMA RestoreHere ==
  ASSUME IInv, NEW r \in Slots, Restoring(r), NEW part, Doing(r, part)
  PROVE  /\ Shape /\ Each(r) /\ TypeOK /\ LockHeld /\ FileOK(req[r].op.file)
         /\ part \notin DOMAIN req[r].out /\ part \in Parts \cup {"setup"}
         /\ req[r].left # << >> /\ Head(req[r].left) = part /\ req[r].left \in Seq(Parts \cup {"setup"})
         /\ Has(r, part) => part \in Parts /\ SectionOK(part, Section(r, part))
<1>1. /\ Shape /\ Each(r) /\ TypeOK /\ LockHeld /\ FileOK(req[r].op.file)
      /\ req[r].left # << >> /\ req[r].left \in Seq(Parts \cup {"setup"})
      /\ Head(req[r].left) = part
  BY Here DEF Doing, Restoring, Is, Places
<1>2. 1 \in DOMAIN req[r].left /\ req[r].left[1] = part
  BY <1>1
<1>3. part \notin DOMAIN req[r].out
  BY <1>1, <1>2 DEF Each, OrderOK
<1>4. Has(r, part) => part \in Parts /\ SectionOK(part, Section(r, part))
  BY <1>1 DEF FileOK, Has, Section
<1>5. part \in Parts \cup {"setup"}
  BY <1>1, HeadOfSeq
<1> QED
  BY <1>1, <1>3, <1>4, <1>5

\* The outcome is known without anything having been written.
LEMMA ToldOnly ==
  ASSUME IInv, NEW r \in Slots, Restoring(r), NEW part, Doing(r, part),
         NEW status, Next1(r, status), UNCHANGED hist, status # "applied" \/ part = "setup",
         LocksStep(r), Quiet, Fault \/ Fine
  PROVE  IInv'
<1>1. Shape /\ Each(r) /\ Alone(r) /\ Advances(r, status)
  BY RestoreHere, Next1Effect
<1>2. HistStep(r, part) /\ ("setup" \notin hist'[r].clean)
  BY <1>1, HistSame DEF Shape, Histories, Parts
<1>3. Frame(r, part)
  BY <1>1, <1>2, QuietFrame DEF Advances
<1>4. Each(r)'
  BY <1>1, <1>2, <1>3, RestoreAdvances
<1> QED
  BY <1>1, <1>3, <1>4, QuietStep

\* A request that begins with a part, or is at settings, has no lock and gets none.
LEMMA BeginLocks ==
  ASSUME IInv, NEW r \in Slots, Restoring(r), NEW part, Doing(r, part),
         req[r].at = "begin" \/ part \in {"settings", "password", "setup"},
         (\E status : Next1(r, status)) \/ Abort(r), UNCHANGED <<mu, aggLock, wifiLock, job>>
  PROVE  LocksStep(r)
<1>1. Shape /\ TypeOK /\ LockHeld /\ Head(req[r].left) = part
  BY RestoreHere
<1>2. ~HoldsMu(r) /\ ~HoldsAgg(r) /\ ~HoldsWifi(r)
  BY <1>1, NotLocking
<1>3. ~HoldsMu(r)' /\ ~HoldsAgg(r)' /\ ~HoldsWifi(r)'
  <2>1. req'[r].left = << >> \/ req'[r].at = "begin"
    BY <1>1, Next1Effect, AbortEffect DEF Advances, Stops
  <2> QED
    BY <2>1, NotLockingNext
<1> QED
  BY <1>1, <1>2, <1>3, LocksKept

LEMMA RestoreAbsentStep ==
  ASSUME IInv, NEW r \in Slots, RestoreAbsent(r)
  PROVE  IInv'
<1>1. PICK part \in Parts : At(r, part, "begin") /\ ~Has(r, part) /\ Next1(r, "skipped")
  BY DEF RestoreAbsent
<1>2. /\ Restoring(r) /\ Doing(r, part) /\ req[r].at = "begin" /\ Fine /\ UNCHANGED hist
      /\ Quiet /\ UNCHANGED <<mu, aggLock, wifiLock, job>>
  BY <1>1 DEF RestoreAbsent, At, device, aggVars, netVars, idVars, Quiet, Fine
<1>3. LocksStep(r)
  BY <1>1, <1>2, BeginLocks
<1> QED
  BY <1>1, <1>2, <1>3, ToldOnly

LEMMA RestoreFailsStep ==
  ASSUME IInv, NEW r \in Slots, RestoreFails(r)
  PROVE  IInv'
<1>1. PICK part \in Parts : At(r, part, "begin") /\ Has(r, part) /\ Next1(r, "failed")
  BY DEF RestoreFails
<1>2. /\ Restoring(r) /\ Doing(r, part) /\ req[r].at = "begin" /\ Fault /\ UNCHANGED hist
      /\ Quiet /\ UNCHANGED <<mu, aggLock, wifiLock, job>>
  BY <1>1 DEF RestoreFails, At, device, aggVars, netVars, idVars, Quiet
<1>3. LocksStep(r)
  BY <1>1, <1>2, BeginLocks
<1> QED
  BY <1>1, <1>2, <1>3, ToldOnly

LEMMA handleBackupRestoreSetupStep ==
  ASSUME IInv, NEW r \in Slots, Restoring(r), handleBackupRestoreSetup(r)
  PROVE  IInv'
<1>1. /\ Doing(r, "setup") /\ Fine /\ UNCHANGED hist /\ Quiet
      /\ UNCHANGED <<mu, aggLock, wifiLock, job>> /\ (Next1(r, "applied") \/ Abort(r))
  BY DEF handleBackupRestoreSetup, device, aggVars, netVars, idVars, Quiet, Fine
<1>2. LocksStep(r)
  BY <1>1, BeginLocks
<1>3. CASE Next1(r, "applied")
  BY <1>1, <1>2, <1>3, ToldOnly
<1>4. CASE Abort(r)
  <2>1. Shape /\ Each(r) /\ Alone(r) /\ Stops(r) /\ "setup" \notin DOMAIN req[r].out
    BY <1>1, <1>4, RestoreHere, AbortEffect
  <2>2. Frame(r, "setup")
    BY <1>1, <2>1, HistSame, QuietFrame DEF Stops
  <2>3. Each(r)'
    BY <2>1, <2>2, RequestStops
  <2> QED
    BY <1>1, <1>2, <2>2, <2>3, QuietStep
<1> QED
  BY <1>1, <1>3, <1>4

\* It goes on within a part, with the lock it needs, and has written nothing.
LEMMA StaysOnly ==
  ASSUME IInv, NEW r \in Slots, Restoring(r), NEW part \in {"settings", "aggregators", "wifi"},
         Doing(r, part), NEW at, NEW seen, NEW todo, Mid(r, at, seen, todo), HistStep(r, part),
         LocksStep(r), Quiet, Fault \/ Fine, SeenOK(r)', MidOK(r)'
  PROVE  IInv'
<1>1. Shape /\ Each(r) /\ Alone(r) /\ Stays(r, at, seen, todo)
  BY RestoreHere, MidEffect
<1>2. Frame(r, part)
  BY <1>1, QuietFrame DEF Stays
<1>3. Each(r)'
  BY <1>1, <1>2, RestoreStays
<1> QED
  BY <1>1, <1>2, <1>3, QuietStep

\* It stays at this place of this section.
LEMMA StaysAt ==
  ASSUME NEW r \in Slots, NEW part, Doing(r, part), NEW at, NEW seen, NEW todo,
         Stays(r, at, seen, todo)
  PROVE  /\ req'[r].op = req[r].op /\ req'[r].left = req[r].left /\ req'[r].left # << >>
         /\ Head(req'[r].left) = part /\ req'[r].at = at /\ req'[r].seen = seen
         /\ req'[r].todo = todo
         /\ \A other : Doing(r, other)' <=> other = part
         /\ Restoring(r)' <=> Restoring(r)
         /\ \A p : Has(r, p) => Has(r, p)' /\ Section(r, p)' = Section(r, p)
BY DEF Doing, Stays, Restoring, Is, Has, Section

LEMMA restoreSettingsStep ==
  ASSUME IInv, NEW r \in Slots, restoreSettings(r)
  PROVE  IInv'
<1> DEFINE s == Section(r, "settings")
<1>1. /\ Restoring(r) /\ Doing(r, "settings") /\ req[r].at = "begin" /\ Has(r, "settings")
      /\ Quiet /\ Fine /\ UNCHANGED <<mu, aggLock, wifiLock, job>>
  BY DEF restoreSettings, At, device, aggVars, netVars, idVars, Quiet, Fine
<1>2. /\ Shape /\ TypeOK /\ LockHeld /\ SectionOK("settings", s) /\ Head(req[r].left) = "settings"
  BY <1>1, RestoreHere
<1>3. CASE schema = None
  <2>1. Next1(r, "skipped") /\ UNCHANGED hist
    BY <1>3 DEF restoreSettings
  <2>2. LocksStep(r)
    BY <1>1, <2>1, BeginLocks
  <2> QED
    BY <1>1, <2>1, <2>2, ToldOnly
<1>4. CASE schema # None
  <2> DEFINE todo == DOMAIN s \cap schema
             left == DOMAIN s \ schema
  <2>1. Mid(r, "write", None, todo) /\ Notes(r, {}, left, {})
    BY <1>4 DEF restoreSettings
  <2>2. left \in SUBSET (Keys \cup NetIds)
    BY <1>2 DEF SectionOK
  <2>3. HistStep(r, "settings") /\ hist'[r].excused = hist[r].excused \cup left
    <3> HIDE DEF left
    <3> QED
      BY <1>2, <2>1, <2>2, NotesEffect DEF Parts
  <2> HIDE DEF todo
  <2>4. Stays(r, "write", None, todo)
    BY <1>2, <2>1, MidEffect
  <2>5. /\ req'[r].left # << >> /\ Head(req'[r].left) = "settings" /\ req'[r].todo = todo
        /\ \A other : Doing(r, other)' <=> other = "settings"
        /\ Has(r, "settings")' /\ Section(r, "settings")' = s
    BY <1>1, <2>4, StaysAt
  <2>6. SeenOK(r)'
    BY <2>3, <2>5 DEF SeenOK, At, todo
  <2>7. MidOK(r)'
    BY <2>5 DEF MidOK, At
  <2>8. LocksStep(r)
    BY <1>1, <1>2, <2>5, NotLocking, NotLockingNext, LocksKept
  <2> QED
    BY <1>1, <2>1, <2>3, <2>6, <2>7, <2>8, StaysOnly
<1> QED
  BY <1>3, <1>4

LEMMA applyConfigLockedStep ==
  ASSUME IInv, NEW r \in Slots, applyConfigLocked(r)
  PROVE  IInv'
<1> DEFINE s == Section(r, "settings")
           todo == req[r].todo
<1>1. /\ Restoring(r) /\ Doing(r, "settings") /\ At(r, "settings", "write")
      /\ UNCHANGED <<agg, nets, schema, mem, files, mu, ssh, pw, file, ops>>
      /\ UNCHANGED <<mu, aggLock, wifiLock, job>>
  BY DEF applyConfigLocked, At, aggVars, netVars, idVars
<1>2. /\ Shape /\ Each(r) /\ TypeOK /\ LockHeld /\ Has(r, "settings") /\ SectionOK("settings", s)
      /\ todo \subseteq DOMAIN s /\ DOMAIN s \ todo \subseteq hist[r].excused
  BY <1>1, RestoreHere DEF Each, SeenOK
<1>3. CASE Fault /\ Next1(r, "failed") /\ UNCHANGED <<settings, hist>>
  <2>1. Quiet
    BY <1>1, <1>3 DEF Quiet
  <2>2. LocksStep(r)
    BY <1>1, <1>3, BeginLocks
  <2> QED
    BY <1>1, <1>3, <2>1, <2>2, ToldOnly
<1>4. ASSUME settings' = Updated(s, todo), BegunWrote(r, "settings"), NEW status,
             Next1(r, status), Fault \/ Fine
      PROVE  IInv'
  <2>1. Alone(r) /\ Advances(r, status) /\ req'[r].op = req[r].op
    BY <1>2, <1>4, Next1Effect DEF Advances
  <2>2. Writes(r, "settings", {"settings"}, {}) /\ "settings" \in Parts
    BY <1>4 DEF BegunWrote, Parts
  <2>3. Untouched("settings")
    BY <1>1 DEF Untouched
  <2>4. Frame(r, "settings")
    BY <1>1, <1>2, <2>1, <2>2, <2>3, WriteFrame
  <2>5. Has(r, "settings")' /\ Section(r, "settings")' = s
    BY <1>2, <2>1 DEF Has, Section
  <2>6. DOMAIN s \ todo \subseteq hist'[r].excused
    BY <1>2, <2>4 DEF Frame, HistStep
  <2>7. settings' \in [Keys -> Values] /\ \A k \in todo : settings'[k] = s[k]
    BY <1>2, <1>4 DEF Updated, TypeOK, SectionOK
  <2>8. Holds("settings", Section(r, "settings"), hist[r].excused)'
    BY <2>5, <2>6, <2>7 DEF Holds
  <2>9. Each(r)'
    BY <1>1, <1>2, <2>1, <2>4, <2>5, <2>8, RestoreAdvances
  <2>10. TypeOK'
    BY <1>1, <1>2, <1>4, <2>7, FaultCounted DEF TypeOK
  <2>11. LocksStep(r)
    BY <1>1, <1>4, BeginLocks
  <2> QED
    BY <1>1, <1>4, <2>4, <2>9, <2>10, <2>11, StepDone
<1> QED
  BY <1>3, <1>4 DEF applyConfigLocked

LEMMA PasswordStep ==
  ASSUME IInv, NEW r \in Slots, Restoring(r), Doing(r, "password"), Has(r, "password"),
         pw' = Section(r, "password"), StoredPw(r, pw'), Fault \/ Fine,
         (\E status : Next1(r, status)) \/ Abort(r),
         UNCHANGED <<aggVars, netVars, settings, schema, idVars, ssh, file, ops>>
  PROVE  IInv'
<1> DEFINE s == Section(r, "password")
<1>1. /\ Shape /\ Each(r) /\ TypeOK /\ LockHeld /\ s \in Hashes /\ "password" \notin DOMAIN req[r].out
      /\ UNCHANGED <<agg, nets, settings, schema, mem, files, mu, ssh, file, ops>>
      /\ UNCHANGED <<mu, aggLock, wifiLock, job>>
  BY RestoreHere DEF SectionOK, aggVars, netVars, idVars
<1>2. TypeOK'
  BY <1>1, FaultCounted DEF TypeOK
<1>3. LocksStep(r)
  BY <1>1, BeginLocks
<1>4. ASSUME Alone(r), req'[r].op = req[r].op
      PROVE  Frame(r, "password")
  <2>1. Untouched("password")
    BY <1>1 DEF Untouched
  <2> DEFINE h == pw'
  <2>2. h \in Hashes /\ pw' = h /\ Writes(r, "password", {"password"}, {h})
    BY <1>1 DEF StoredPw
  <2> HIDE DEF h
  <2> QED
    BY <1>1, <1>4, <2>1, <2>2, WriteFrame DEF Parts
<1>5. ASSUME NEW status, Next1(r, status)
      PROVE  IInv'
  <2>1. Alone(r) /\ Advances(r, status)
    BY <1>1, <1>5, Next1Effect
  <2>2. Frame(r, "password")
    BY <1>4, <2>1 DEF Advances
  <2>3. Has(r, "password")' /\ Section(r, "password")' = s
    BY <2>1 DEF Has, Section, Advances
  <2>4. Holds("password", Section(r, "password"), hist[r].excused)'
    BY <2>3 DEF Holds
  <2>5. Each(r)'
    BY <1>1, <2>1, <2>2, <2>3, <2>4, RestoreAdvances
  <2> QED
    BY <1>1, <1>2, <1>3, <2>2, <2>5, StepDone
<1>6. CASE Abort(r)
  <2>1. Alone(r) /\ Stops(r)
    BY <1>1, <1>6, AbortEffect
  <2>2. Frame(r, "password")
    BY <1>4, <2>1 DEF Stops
  <2>3. Each(r)'
    BY <1>1, <2>1, <2>2, RequestStops
  <2> QED
    BY <1>1, <1>2, <1>3, <2>2, <2>3, StepDone
<1> QED
  BY <1>5, <1>6

LEMMA restorePasswordReplaceStep ==
  ASSUME IInv, NEW r \in Slots, restorePasswordReplace(r)
  PROVE  IInv'
<1>1. /\ Restoring(r) /\ Doing(r, "password") /\ Has(r, "password")
      /\ UNCHANGED <<aggVars, netVars, settings, schema, idVars, ssh, file, ops>>
  BY DEF restorePasswordReplace, Restoring, Is
<1>2. ASSUME pw' = Section(r, "password"), StoredPw(r, pw'), NEW status, Next1(r, status),
             Fault \/ Fine
      PROVE  IInv'
  BY <1>1, <1>2, PasswordStep
<1>3. CASE Fault /\ Next1(r, "failed") /\ UNCHANGED <<pw, hist>>
  <2>1. Quiet /\ UNCHANGED <<mu, aggLock, wifiLock, job>>
    BY <1>1, <1>3 DEF aggVars, netVars, idVars, Quiet
  <2>2. LocksStep(r)
    BY <1>1, <1>3, <2>1, BeginLocks
  <2> QED
    BY <1>1, <1>3, <2>1, <2>2, ToldOnly
<1> QED
  BY <1>2, <1>3 DEF restorePasswordReplace

LEMMA restoreSetupStep ==
  ASSUME IInv, NEW r \in Slots, restoreSetup(r)
  PROVE  IInv'
<1>1. /\ Restoring(r) /\ Doing(r, "password") /\ Has(r, "password")
      /\ UNCHANGED <<aggVars, netVars, settings, schema, idVars, ssh, file, ops>>
  BY DEF restoreSetup, Restoring, Is
<1>2. ASSUME pw' = Section(r, "password"), StoredPw(r, pw'),
             (Fine /\ Next1(r, "applied")) \/ (Fault /\ Abort(r))
      PROVE  IInv'
  BY <1>1, <1>2, PasswordStep
<1>3. CASE (Fault \/ Fine) /\ Abort(r) /\ UNCHANGED <<pw, hist>>
  <2>1. Quiet /\ UNCHANGED <<mu, aggLock, wifiLock, job>>
    BY <1>1, <1>3 DEF aggVars, netVars, idVars, Quiet
  <2>2. LocksStep(r)
    BY <1>1, <1>3, <2>1, BeginLocks
  <2>3. Shape /\ Each(r) /\ Alone(r) /\ Stops(r) /\ "password" \notin DOMAIN req[r].out
    BY <1>1, <1>3, RestoreHere, AbortEffect
  <2>4. Frame(r, "password")
    BY <1>3, <2>1, <2>3, HistSame, QuietFrame DEF Stops
  <2>5. Each(r)'
    BY <2>3, <2>4, RequestStops
  <2> QED
    BY <1>3, <2>1, <2>2, <2>4, <2>5, QuietStep
<1> QED
  BY <1>2, <1>3 DEF restoreSetup

----------------------------------------------------------------------------
\* Restores: the helpers that write one file after the other under a flock.

LEMMA restoreAggregatorsStep ==
  ASSUME IInv, NEW r \in Slots, restoreAggregators(r)
  PROVE  IInv'
<1> DEFINE s == Section(r, "aggregators")
           ids == DOMAIN s
<1>1. /\ Restoring(r) /\ Doing(r, "aggregators") /\ req[r].at = "begin" /\ Has(r, "aggregators")
      /\ Quiet /\ Fine /\ UNCHANGED <<mu, wifiLock, job>>
  BY DEF restoreAggregators, At, netVars, idVars, Quiet, Fine
<1>2. Shape /\ TypeOK /\ LockHeld /\ Head(req[r].left) = "aggregators" /\ "aggregators" \in Parts
  BY <1>1, RestoreHere DEF Parts
<1>3. ASSUME NEW status \in {"skipped", "failed"}, Next1(r, status), UNCHANGED <<aggLock, hist>>
      PROVE  IInv'
  <2>1. LocksStep(r)
    BY <1>1, <1>3, BeginLocks
  <2> QED
    BY <1>1, <1>3, <2>1, ToldOnly
<1>4. CASE /\ ids # {} /\ aggLock = None /\ job = None
           /\ \A id \in ids : id \in Known /\ ~Enabled(id)
           /\ aggLock' = r /\ Mid(r, "write", None, ids) /\ Notes(r, {"aggregators"}, {}, {})
  <2>1. HistStep(r, "aggregators")
    BY <1>2, <1>4, NotesEffect
  <2> HIDE DEF ids
  <2>2. Stays(r, "write", None, ids)
    BY <1>2, <1>4, MidEffect
  <2>3. /\ req'[r].left # << >> /\ Head(req'[r].left) = "aggregators" /\ req'[r].todo = ids
        /\ req'[r].at = "write" /\ Restoring(r)'
        /\ \A other : Doing(r, other)' <=> other = "aggregators"
        /\ Has(r, "aggregators")' /\ Section(r, "aggregators")' = s
    BY <1>1, <2>2, StaysAt
  <2>4. SeenOK(r)'
    BY <1>4, <2>3 DEF SeenOK, At, ids
  <2>5. \A id \in ids : ~Enabled(id)'
    BY <1>1, <1>4 DEF Quiet, Enabled
  <2>6. MidOK(r)'
    BY <2>3, <2>5 DEF MidOK, At, ids
  <2>7. LocksStep(r)
    <3>1. ~HoldsMu(r)' /\ ~HoldsWifi(r)' /\ HoldsAgg(r)'
      BY <2>3 DEF HoldsMu, HoldsWifi, HoldsAgg, At, Doing
    <3>2. ~HoldsMu(r) /\ ~HoldsWifi(r)
      BY <1>1, NotLocking
    <3>3. mu # r /\ wifiLock # r
      BY <1>2, <3>2 DEF LockHeld, HoldsMu, HoldsWifi
    <3> QED
      BY <1>1, <1>2, <1>4, <3>1, <3>3, LockNames DEF LocksStep, TypeOK
  <2> QED
    BY <1>1, <1>4, <2>1, <2>4, <2>6, <2>7, StaysOnly
<1> QED
  BY <1>3, <1>4 DEF restoreAggregators

LEMMA aggImportStep ==
  ASSUME IInv, NEW r \in Slots, aggImport(r)
  PROVE  IInv'
<1> DEFINE s == Section(r, "aggregators")
           id == First(req[r].todo)
           entry == s[id]
           rest == req[r].todo \ {id}
<1>1. /\ Restoring(r) /\ Doing(r, "aggregators") /\ At(r, "aggregators", "write")
      /\ UNCHANGED <<nets, settings, schema, mem, files, mu, ssh, pw, file, ops>>
      /\ UNCHANGED <<mu, wifiLock, job>>
  BY DEF aggImport, At, netVars, idVars
<1>2. /\ Shape /\ Each(r) /\ TypeOK /\ LockHeld /\ SectionOK("aggregators", s)
      /\ Has(r, "aggregators") /\ req[r].todo \subseteq DOMAIN s /\ req[r].todo # {}
      /\ \A i \in DOMAIN s : ~Enabled(i)
      /\ "aggregators" \in hist[r].clean =>
            \A i \in DOMAIN s \ req[r].todo : HoldsEntry(i, s[i])
  BY <1>1, RestoreHere DEF Each, SeenOK, MidOK
<1>3. id \in req[r].todo /\ id \in DOMAIN s /\ id \in Adapters /\ entry \in Entry
  BY <1>2 DEF First, SectionOK
<1>4. aggLock = r /\ HoldsAgg(r) /\ ~HoldsMu(r) /\ ~HoldsWifi(r) /\ mu # r /\ wifiLock # r
  BY <1>1, <1>2 DEF LockHeld, HoldsAgg, HoldsMu, HoldsWifi, At, Doing
<1>5. \A q \in Slots \ {r} : ~HoldsAgg(q)
  BY <1>2, <1>4, NoImport
<1>6. ASSUME \/ aggLock' = aggLock /\ HoldsAgg(r)'
             \/ aggLock' = None /\ ~HoldsAgg(r)',
             ~HoldsMu(r)', ~HoldsWifi(r)'
      PROVE  LocksStep(r)
  <2>1. ~(job # None /\ job.at = "work")
    BY <1>2, <1>4, LockNames DEF LockHeld
  <2> QED
    BY <1>1, <1>2, <1>4, <1>6, <2>1, LockNames DEF LocksStep, TypeOK
<1>7. ASSUME NEW status, Next1(r, status), aggLock' = None
      PROVE  LocksStep(r)
  <2>1. ~HoldsAgg(r)' /\ ~HoldsMu(r)' /\ ~HoldsWifi(r)'
    BY <1>2, <1>7, Next1Effect, NotLockingNext DEF Advances
  <2> QED
    BY <1>6, <1>7, <2>1
<1>8. CASE Fault /\ aggLock' = None /\ Next1(r, "failed") /\ UNCHANGED <<agg, hist>>
  <2>1. Quiet
    BY <1>1, <1>8 DEF Quiet
  <2>2. LocksStep(r)
    BY <1>7, <1>8
  <2> QED
    BY <1>1, <1>8, <2>1, <2>2, ToldOnly
<1>9. ASSUME agg' = [agg EXCEPT ![id] = [enabled |-> FALSE, mlat |-> entry.mlat,
                                         fields |-> entry.fields]],
             Wrote(r, "aggregators")
      PROVE  /\ agg' \in [Adapters -> Record \cup {None}] /\ HistStep(r, "aggregators")
             /\ hist'[r].clean = hist[r].clean
             /\ agg'[id] = [enabled |-> FALSE, mlat |-> entry.mlat, fields |-> entry.fields]
             /\ \A i \in DOMAIN s \ {id} : agg'[i] = agg[i]
             /\ Alone(r) /\ req'[r].op = req[r].op => Frame(r, "aggregators")
  <2>1. Writes(r, "aggregators", {}, {}) /\ "aggregators" \in Parts /\ Untouched("aggregators")
    BY <1>1, <1>9 DEF Wrote, Parts, Untouched
  <2>2. HistStep(r, "aggregators") /\ Written(r, "aggregators", {}, {})
    BY <1>2, <2>1, WritesEffect, WroteEffect
  <2>3. Alone(r) /\ req'[r].op = req[r].op => Frame(r, "aggregators")
    BY <1>1, <1>2, <1>5, <2>1, WriteFrame
  <2> DEFINE new == [enabled |-> FALSE, mlat |-> entry.mlat, fields |-> entry.fields]
  <2>4. new \in Record
    BY <1>3 DEF Record, Entry
  <2>5. agg' = [agg EXCEPT ![id] = new]
    BY <1>9
  <2>6. DOMAIN s \subseteq Adapters
    BY <1>2 DEF SectionOK
  <2> HIDE DEF new, id
  <2>7. /\ agg' \in [Adapters -> Record \cup {None}] /\ agg'[id] = new
        /\ \A i \in DOMAIN s \ {id} : agg'[i] = agg[i]
    BY <1>2, <1>3, <2>4, <2>5, <2>6 DEF TypeOK
  <2> QED
    BY <2>2, <2>3, <2>7 DEF Written, new
<1>10. CASE /\ agg' = [agg EXCEPT ![id] = [enabled |-> FALSE, mlat |-> entry.mlat,
                                           fields |-> entry.fields]]
            /\ Wrote(r, "aggregators")
            /\ IF req[r].todo # {id}
               THEN UNCHANGED aggLock /\ Mid(r, "write", None, rest) /\ Fine
               ELSE aggLock' = None /\ ((Fine /\ Next1(r, "applied")) \/ (Fault /\ Next1(r, "failed")))
  <2>1. /\ agg' \in [Adapters -> Record \cup {None}] /\ HistStep(r, "aggregators")
        /\ hist'[r].clean = hist[r].clean
        /\ agg'[id] = [enabled |-> FALSE, mlat |-> entry.mlat, fields |-> entry.fields]
        /\ \A i \in DOMAIN s \ {id} : agg'[i] = agg[i]
        /\ Alone(r) /\ req'[r].op = req[r].op => Frame(r, "aggregators")
    BY <1>9, <1>10
  <2>2. \A i \in DOMAIN s : ~Enabled(i)'
    BY <1>2, <2>1 DEF Enabled
  <2>3. "aggregators" \in hist'[r].clean =>
            \A i \in DOMAIN s \ rest :
                agg'[i] = [enabled |-> FALSE, mlat |-> s[i].mlat, fields |-> s[i].fields]
    BY <1>2, <1>3, <2>1 DEF HoldsEntry
  <2> HIDE DEF rest
  <2>4. ASSUME LocksStep(r), Fault \/ Fine
        PROVE  TypeOK'
    BY <1>1, <1>2, <2>1, <2>4, FaultCounted DEF TypeOK, LocksStep
  <2>5. CASE req[r].todo # {id}
    <3>1. UNCHANGED aggLock /\ Mid(r, "write", None, rest) /\ Fine
      BY <1>10, <2>5
    <3>2. Alone(r) /\ Stays(r, "write", None, rest)
      BY <1>2, <3>1, MidEffect
    <3>3. /\ req'[r].op = req[r].op
          /\ req'[r].left # << >> /\ Head(req'[r].left) = "aggregators" /\ req'[r].todo = rest
          /\ req'[r].at = "write" /\ Restoring(r)'
          /\ \A other : Doing(r, other)' <=> other = "aggregators"
          /\ Has(r, "aggregators")' /\ Section(r, "aggregators")' = s
      BY <1>1, <1>2, <3>2, StaysAt
    <3>4. rest # {} /\ rest \subseteq DOMAIN s
      BY <1>2, <1>3, <2>5 DEF rest
    <3>5. SeenOK(r)'
      BY <3>3, <3>4 DEF SeenOK, At
    <3>6. MidOK(r)'
      BY <2>2, <2>3, <3>3 DEF MidOK, At, HoldsEntry
    <3>7. HoldsAgg(r)' /\ ~HoldsMu(r)' /\ ~HoldsWifi(r)'
      BY <3>3 DEF HoldsMu, HoldsWifi, HoldsAgg, At, Doing
    <3>8. LocksStep(r)
      BY <1>6, <3>1, <3>7
    <3>9. Frame(r, "aggregators")
      BY <2>1, <3>2, <3>3
    <3>10. Each(r)'
      BY <1>1, <1>2, <3>2, <3>5, <3>6, <3>9, RestoreStays
    <3> QED
      BY <1>1, <2>4, <3>1, <3>8, <3>9, <3>10, StepDone
  <2>6. CASE req[r].todo = {id}
    <3>1. PICK status : Next1(r, status) /\ aggLock' = None /\ (Fault \/ Fine)
      BY <1>10, <2>6
    <3>2. Alone(r) /\ Advances(r, status)
      BY <1>2, <3>1, Next1Effect
    <3>3. Frame(r, "aggregators")
      BY <2>1, <3>2 DEF Advances
    <3>4. Has(r, "aggregators")' /\ Section(r, "aggregators")' = s
      BY <1>2, <3>2 DEF Has, Section, Advances
    <3>5. rest = {}
      BY <2>6 DEF rest
    <3>6. "aggregators" \in hist'[r].clean =>
            Holds("aggregators", Section(r, "aggregators"), hist[r].excused)'
      BY <2>3, <3>4, <3>5 DEF Holds
    <3>7. Each(r)'
      BY <1>1, <1>2, <3>2, <3>3, <3>4, <3>6, RestoreAdvances
    <3>8. LocksStep(r)
      BY <1>7, <3>1
    <3> QED
      BY <1>1, <2>4, <3>1, <3>3, <3>7, <3>8, StepDone
  <2> QED
    BY <2>5, <2>6
<1> QED
  BY <1>8, <1>10 DEF aggImport

LEMMA restoreWifiStep ==
  ASSUME IInv, NEW r \in Slots, restoreWifi(r)
  PROVE  IInv'
<1> DEFINE s == Section(r, "wifi")
           ids == DOMAIN s
<1>1. /\ Restoring(r) /\ Doing(r, "wifi") /\ req[r].at = "begin" /\ Has(r, "wifi")
      /\ Quiet /\ Fine /\ UNCHANGED <<mu, aggLock, job>>
  BY DEF restoreWifi, At, aggVars, idVars, Quiet, Fine
<1>2. Shape /\ TypeOK /\ LockHeld /\ Head(req[r].left) = "wifi" /\ "wifi" \in Parts
  BY <1>1, RestoreHere DEF Parts
<1>3. CASE wifiLock # None /\ Next1(r, "failed") /\ UNCHANGED <<wifiLock, hist>>
  <2>1. LocksStep(r)
    BY <1>1, <1>3, BeginLocks
  <2> QED
    BY <1>1, <1>3, <2>1, ToldOnly
<1>4. ASSUME wifiLock = None, wifiLock' = r, Notes(r, {"wifi"}, {}, {}), NEW live,
             Mid(r, "write", live, ids)
      PROVE  IInv'
  <2>1. HistStep(r, "wifi")
    BY <1>2, <1>4, NotesEffect
  <2> HIDE DEF ids
  <2>2. Stays(r, "write", live, ids)
    BY <1>2, <1>4, MidEffect
  <2>3. /\ req'[r].left # << >> /\ Head(req'[r].left) = "wifi" /\ req'[r].todo = ids
        /\ req'[r].at = "write" /\ Restoring(r)'
        /\ \A other : Doing(r, other)' <=> other = "wifi"
        /\ Has(r, "wifi")' /\ Section(r, "wifi")' = s
    BY <1>1, <2>2, StaysAt
  <2>4. SeenOK(r)'
    BY <2>3 DEF SeenOK, At, ids
  <2>5. MidOK(r)'
    BY <2>3 DEF MidOK, At, ids
  <2>6. LocksStep(r)
    <3>1. ~HoldsMu(r)' /\ ~HoldsAgg(r)' /\ HoldsWifi(r)'
      BY <2>3 DEF HoldsMu, HoldsWifi, HoldsAgg, At, Doing
    <3>2. ~HoldsMu(r) /\ ~HoldsAgg(r)
      BY <1>1, NotLocking
    <3>3. mu # r /\ aggLock # r
      BY <1>2, <3>2 DEF LockHeld, HoldsMu, HoldsAgg
    <3>4. aggLock = "worker" <=> job # None /\ job.at = "work"
      BY <1>2 DEF LockHeld
    <3> QED
      BY <1>1, <1>2, <1>4, <3>1, <3>3, <3>4, LockNames DEF LocksStep, TypeOK
  <2> QED
    BY <1>1, <1>4, <2>1, <2>4, <2>5, <2>6, StaysOnly
<1> QED
  BY <1>3, <1>4 DEF restoreWifi

LEMMA wifiImportStep ==
  ASSUME IInv, NEW r \in Slots, wifiImport(r)
  PROVE  IInv'
<1> DEFINE s == Section(r, "wifi")
           i == First(req[r].todo)
           rest == req[r].todo \ {i}
           on == Mid(r, "write", req[r].seen, rest) /\ UNCHANGED wifiLock
<1>1. /\ Restoring(r) /\ Doing(r, "wifi") /\ At(r, "wifi", "write")
      /\ UNCHANGED <<agg, settings, schema, mem, files, mu, ssh, pw, file, ops>>
      /\ UNCHANGED <<mu, aggLock, job>>
  BY DEF wifiImport, At, aggVars, idVars
<1>2. /\ Shape /\ Each(r) /\ TypeOK /\ LockHeld /\ SectionOK("wifi", s)
      /\ Has(r, "wifi") /\ req[r].todo \subseteq DOMAIN s /\ "wifi" \in Parts
      /\ "wifi" \in hist[r].clean =>
            \A j \in (DOMAIN s \ req[r].todo) \ hist[r].excused : nets[j] = s[j]
  BY <1>1, RestoreHere DEF Each, SeenOK, MidOK, Parts
<1>3. req[r].todo # {} => i \in req[r].todo /\ i \in DOMAIN s /\ i \in NetIds /\ s[i] \in Bodies
  BY <1>2 DEF First, SectionOK
<1>4. wifiLock = r /\ HoldsWifi(r) /\ ~HoldsMu(r) /\ ~HoldsAgg(r) /\ mu # r /\ aggLock # r
  BY <1>1, <1>2 DEF LockHeld, HoldsAgg, HoldsMu, HoldsWifi, At, Doing
<1>5. ASSUME \/ wifiLock' = wifiLock /\ HoldsWifi(r)'
             \/ wifiLock' = None /\ ~HoldsWifi(r)',
             ~HoldsMu(r)', ~HoldsAgg(r)'
      PROVE  LocksStep(r)
  <2>1. aggLock = "worker" <=> job # None /\ job.at = "work"
    BY <1>2 DEF LockHeld
  <2> QED
    BY <1>1, <1>2, <1>4, <1>5, <2>1, LockNames DEF LocksStep, TypeOK
<1>6. ASSUME NEW status, Next1(r, status), wifiLock' = None
      PROVE  LocksStep(r)
  <2>1. ~HoldsAgg(r)' /\ ~HoldsMu(r)' /\ ~HoldsWifi(r)'
    BY <1>2, <1>6, Next1Effect, NotLockingNext DEF Advances
  <2> QED
    BY <1>5, <1>6, <2>1
<1>7. ASSUME on
      PROVE  /\ Alone(r) /\ Stays(r, "write", req[r].seen, rest) /\ req'[r].op = req[r].op
             /\ LocksStep(r) /\ SeenOK(r)' /\ Section(r, "wifi")' = s
             /\ (\/ "wifi" \notin hist'[r].clean
                 \/ \A j \in (DOMAIN s \ rest) \ hist'[r].excused : nets'[j] = s[j]) => MidOK(r)'
  <2> HIDE DEF rest
  <2>1. Mid(r, "write", req[r].seen, rest)
    BY <1>7
  <2>2. Alone(r) /\ Stays(r, "write", req[r].seen, rest)
    BY <1>2, <2>1, MidEffect
  <2>3. /\ req'[r].op = req[r].op
        /\ req'[r].left # << >> /\ Head(req'[r].left) = "wifi" /\ req'[r].todo = rest
        /\ req'[r].at = "write" /\ Restoring(r)'
        /\ \A other : Doing(r, other)' <=> other = "wifi"
        /\ Has(r, "wifi")' /\ Section(r, "wifi")' = s
    BY <1>1, <1>2, <2>2, StaysAt
  <2>4. SeenOK(r)'
    BY <1>2, <2>3 DEF SeenOK, At, rest
  <2>5. HoldsWifi(r)' /\ ~HoldsMu(r)' /\ ~HoldsAgg(r)'
    BY <2>3 DEF HoldsMu, HoldsWifi, HoldsAgg, At, Doing
  <2>6. LocksStep(r)
    BY <1>5, <1>7, <2>5
  <2>7. (\/ "wifi" \notin hist'[r].clean
         \/ \A j \in (DOMAIN s \ rest) \ hist'[r].excused : nets'[j] = s[j]) => MidOK(r)'
    BY <2>3 DEF MidOK, At
  <2> QED
    BY <2>2, <2>3, <2>4, <2>6, <2>7
<1>8. CASE Fault /\ wifiLock' = None /\ Next1(r, "failed") /\ UNCHANGED <<nets, hist>>
  <2>1. Quiet
    BY <1>1, <1>8 DEF Quiet
  <2>2. LocksStep(r)
    BY <1>6, <1>8
  <2> QED
    BY <1>1, <1>8, <2>1, <2>2, ToldOnly
<1>9. CASE /\ req[r].todo = {} /\ wifiLock' = None /\ Next1(r, "applied")
           /\ UNCHANGED <<nets, faults, hist>>
  <2>1. Quiet /\ Fine
    BY <1>1, <1>9 DEF Quiet, Fine
  <2>2. LocksStep(r)
    BY <1>6, <1>9
  <2>3. Alone(r) /\ Advances(r, "applied") /\ HistStep(r, "wifi")
    BY <1>2, <1>9, Next1Effect, HistSame
  <2>4. Frame(r, "wifi")
    BY <1>2, <2>1, <2>3, QuietFrame DEF Advances
  <2>5. Has(r, "wifi")' /\ Section(r, "wifi")' = s
    BY <1>2, <2>3 DEF Has, Section, Advances
  <2>6. "wifi" \in hist'[r].clean => Holds("wifi", Section(r, "wifi"), hist[r].excused)'
    BY <1>2, <1>9, <2>5 DEF Holds
  <2>7. Each(r)'
    BY <1>1, <1>2, <2>3, <2>4, <2>5, <2>6, RestoreAdvances
  <2> QED
    BY <2>1, <2>2, <2>4, <2>7, QuietStep
<1>10. ASSUME req[r].todo # {}, on, Notes(r, {}, {i}, {i}) \/ Notes(r, {}, {i}, {}),
              UNCHANGED nets, Fault \/ Fine
       PROVE  IInv'
  <2>1. /\ Stays(r, "write", req[r].seen, rest) /\ LocksStep(r) /\ SeenOK(r)'
        /\ (\/ "wifi" \notin hist'[r].clean
            \/ \A j \in (DOMAIN s \ rest) \ hist'[r].excused : nets'[j] = s[j]) => MidOK(r)'
    BY <1>7, <1>10
  <2>2. /\ HistStep(r, "wifi") /\ hist'[r].clean = hist[r].clean
        /\ hist'[r].excused = hist[r].excused \cup {i}
    <3>1. i \in NetIds /\ Shape
      BY <1>2, <1>3, <1>10
    <3> HIDE DEF i
    <3> QED
      BY <1>10, <3>1, LeavesEffect
  <2>3. MidOK(r)'
    BY <1>2, <1>10, <2>1, <2>2
  <2>4. Quiet
    BY <1>1, <1>10 DEF Quiet
  <2>5. Mid(r, "write", req[r].seen, rest)
    BY <1>10
  <2> QED
    BY <1>1, <1>10, <2>1, <2>2, <2>3, <2>4, <2>5, StaysOnly
<1>11. CASE req[r].todo # {} /\ nets' = [nets EXCEPT ![i] = s[i]] /\ on /\ Wrote(r, "wifi") /\ Fine
  <2>1. /\ Alone(r) /\ Stays(r, "write", req[r].seen, rest) /\ req'[r].op = req[r].op
        /\ LocksStep(r) /\ SeenOK(r)'
        /\ (\/ "wifi" \notin hist'[r].clean
            \/ \A j \in (DOMAIN s \ rest) \ hist'[r].excused : nets'[j] = s[j]) => MidOK(r)'
    BY <1>7, <1>11
  <2>2. Writes(r, "wifi", {}, {}) /\ Untouched("wifi")
    BY <1>1, <1>11 DEF Wrote, Untouched
  <2>3. Frame(r, "wifi")
    BY <1>1, <1>2, <2>1, <2>2, WriteFrame
  <2>4. hist'[r].clean = hist[r].clean /\ hist'[r].excused = hist[r].excused
    <3>1. Written(r, "wifi", {}, {})
      BY <1>2, <2>2, WritesEffect
    <3> QED
      BY <3>1 DEF Written
  <2>5. /\ nets' \in [NetIds -> Bodies \cup {None}] /\ nets'[i] = s[i]
        /\ \A j \in DOMAIN s \ {i} : nets'[j] = nets[j]
    <3>1. DOMAIN s \subseteq NetIds /\ nets \in [NetIds -> Bodies \cup {None}]
      BY <1>2 DEF SectionOK, TypeOK
    <3> DEFINE body == s[i]
    <3>2. nets' = [nets EXCEPT ![i] = body] /\ body \in Bodies /\ i \in NetIds
      BY <1>3, <1>11
    <3> HIDE DEF i, body
    <3> QED
      BY <3>1, <3>2 DEF body
  <2>6. "wifi" \in hist'[r].clean =>
            \A j \in (DOMAIN s \ rest) \ hist'[r].excused : nets'[j] = s[j]
    BY <1>2, <2>4, <2>5
  <2>7. MidOK(r)'
    BY <2>1, <2>6
  <2>8. Each(r)'
    BY <1>1, <1>2, <2>1, <2>3, <2>7, RestoreStays
  <2>9. TypeOK'
    BY <1>1, <1>2, <1>11, <2>1, <2>5, FaultCounted DEF TypeOK, LocksStep
  <2> QED
    BY <1>1, <1>11, <2>1, <2>3, <2>8, <2>9, StepDone
<1> QED
  BY <1>8, <1>9, <1>10, <1>11 DEF wifiImport, Fine

----------------------------------------------------------------------------
\* The identity: an import takes two steps under one lock, a claim one.

\* The identity changes in this step, and r has the lock of it afterwards or nobody.
LEMMA IdentityDone ==
  ASSUME IInv, NEW r \in Slots, Frame(r, "identity"), Each(r)', LocksStep(r),
         mem' \in Identity, files' \in [uuid : Uuids, claim : Secrets \cup {None}],
         mu \in {None, r}, mu' \in {None, r},
         mu' = r => /\ Has(r, "identity")' /\ (mem = Section(r, "identity"))'
                    /\ files'.uuid = mem'.uuid
                    /\ \A q \in Slots \ {r} : "identity" \notin hist'[q].clean,
         faults' = 0 => files'.uuid = mem'.uuid /\ (mu' = None => files'.claim = mem'.claim),
         Fault \/ Fine, UNCHANGED <<agg, nets, settings, schema, ssh, pw, file, ops>>
  PROVE  IInv'
<1>1. Shape'
  BY DEF Frame, Alone, HistStep, Shape
<1>2. \A q \in Slots : Each(q)'
  BY OthersKept DEF IInv
<1>3. LockHeld'
  BY LocksStepHeld DEF IInv, Frame
<1>4. ImportOK'
  BY LockNames DEF ImportOK
<1>5. FilesOK' /\ FileInv'
  BY DEF IInv, FilesOK, FileInv
<1>6. TypeOK'
  BY FaultCounted DEF IInv, TypeOK, LocksStep
<1> QED
  BY <1>1, <1>2, <1>3, <1>4, <1>5, <1>6 DEF IInv

LEMMA restoreIdentityStep ==
  ASSUME IInv, NEW r \in Slots, restoreIdentity(r)
  PROVE  IInv'
<1> DEFINE s == Section(r, "identity")
<1>1. /\ Restoring(r) /\ Doing(r, "identity") /\ req[r].at = "begin" /\ Has(r, "identity")
      /\ mu = None /\ mem' = s /\ Writes(r, "identity", {"identity"}, {})
      /\ UNCHANGED <<agg, nets, settings, schema, ssh, pw, file, ops>>
      /\ UNCHANGED <<aggLock, wifiLock, job>>
  BY DEF restoreIdentity, At, BegunWrote, aggVars, netVars
<1>2. /\ Shape /\ Each(r) /\ TypeOK /\ LockHeld /\ s \in Identity /\ "identity" \in Parts
  BY <1>1, RestoreHere DEF SectionOK
<1>3. ASSUME Alone(r), req'[r].op = req[r].op
      PROVE  /\ Frame(r, "identity") /\ s' = s /\ Has(r, "identity")'
             /\ \A q \in Slots \ {r} : "identity" \notin hist'[q].clean
  <2>1. Untouched("identity")
    BY <1>1 DEF Untouched
  <2>2. Frame(r, "identity")
    BY <1>1, <1>2, <1>3, <2>1, WriteFrame
  <2>3. Written(r, "identity", {"identity"}, {})
    BY <1>1, <1>2, WritesEffect
  <2> QED
    BY <1>1, <1>3, <2>2, <2>3 DEF Section, Has, Written
<1>4. ~HoldsAgg(r) /\ ~HoldsWifi(r) /\ aggLock # r /\ wifiLock # r
      /\ (aggLock = "worker" <=> job # None /\ job.at = "work")
  BY <1>1, <1>2, NotLocking DEF LockHeld, HoldsAgg, HoldsWifi
<1>5. CASE Fine /\ files' = [files EXCEPT !.uuid = mem'.uuid] /\ mu' = r /\ Mid(r, "claim", None, {})
  <2>1. Alone(r) /\ Stays(r, "claim", None, {})
    BY <1>2, <1>5, MidEffect
  <2>2. /\ Frame(r, "identity") /\ s' = s /\ Has(r, "identity")'
        /\ \A q \in Slots \ {r} : "identity" \notin hist'[q].clean
    BY <1>3, <2>1 DEF Stays
  <2>3. /\ req'[r].left # << >> /\ Head(req'[r].left) = "identity" /\ req'[r].at = "claim"
        /\ Restoring(r)'
        /\ \A other : Doing(r, other)' <=> other = "identity"
    BY <1>1, <2>1, StaysAt
  <2>4. SeenOK(r)' /\ MidOK(r)'
    BY <2>3 DEF SeenOK, MidOK, At
  <2>5. Each(r)'
    BY <1>1, <1>2, <2>1, <2>2, <2>4, RestoreStays
  <2>6. files' \in [uuid : Uuids, claim : Secrets \cup {None}] /\ files'.uuid = mem'.uuid
    BY <1>1, <1>2, <1>5 DEF TypeOK, Identity
  <2>7. LocksStep(r)
    <3>1. HoldsMu(r)' /\ ~HoldsAgg(r)' /\ ~HoldsWifi(r)'
      BY <2>3 DEF HoldsMu, HoldsAgg, HoldsWifi, At, Doing
    <3> QED
      BY <1>1, <1>2, <1>4, <1>5, <3>1, LockNames DEF LocksStep, TypeOK
  <2>8. mem' = Section(r, "identity")'
    BY <1>1, <2>2
  <2> QED
    BY <1>1, <1>2, <1>5, <2>2, <2>5, <2>6, <2>7, <2>8, LockNames, IdentityDone
<1>6. CASE Fault /\ Next1(r, "failed") /\ UNCHANGED <<files, mu>>
  <2>1. Alone(r) /\ Advances(r, "failed")
    BY <1>2, <1>6, Next1Effect
  <2>2. Frame(r, "identity")
    BY <1>3, <2>1 DEF Advances
  <2>3. Each(r)'
    BY <1>1, <1>2, <2>1, <2>2, RestoreAdvances
  <2>4. faults' # 0
    BY <1>2, <1>6 DEF Fault, TypeOK
  <2>5. LocksStep(r)
    BY <1>1, <1>6, BeginLocks
  <2>6. mu' # r /\ mu' = None
    BY <1>1, <1>6, LockNames
  <2> QED
    BY <1>1, <1>2, <1>6, <2>2, <2>3, <2>4, <2>5, <2>6, IdentityDone DEF TypeOK
<1> QED
  BY <1>5, <1>6 DEF restoreIdentity

LEMMA restoreClaimStep ==
  ASSUME IInv, NEW r \in Slots, restoreClaim(r)
  PROVE  IInv'
<1> DEFINE s == Section(r, "identity")
<1>1. /\ Restoring(r) /\ Doing(r, "identity") /\ req[r].at = "claim" /\ HoldsMu(r) /\ mu' = None
      /\ UNCHANGED <<agg, nets, settings, schema, mem, ssh, pw, file, ops, hist>>
      /\ UNCHANGED <<aggLock, wifiLock, job>>
  BY DEF restoreClaim, At, HoldsMu, aggVars, netVars
<1>2. mu = r
  BY <1>1 DEF IInv, LockHeld, HoldsMu
<1>3. /\ Shape /\ Each(r) /\ TypeOK /\ LockHeld /\ Has(r, "identity") /\ mem = s
      /\ files.uuid = mem.uuid /\ \A q \in Slots \ {r} : "identity" \notin hist[q].clean
  BY <1>1, <1>2, RestoreHere DEF IInv, ImportOK
<1>4. ASSUME NEW status, Next1(r, status), status \in {"applied", "failed"}, Fault \/ Fine,
             files' \in [uuid : Uuids, claim : Secrets \cup {None}], files'.uuid = mem.uuid,
             status = "applied" \/ faults' = 0 => files'.claim = mem.claim
      PROVE  IInv'
  <2>1. Alone(r) /\ Advances(r, status)
    BY <1>3, <1>4, Next1Effect
  <2>2. req'[r].op = req[r].op /\ s' = s /\ Has(r, "identity")'
    BY <1>3, <2>1 DEF Advances, Section, Has
  <2>3. Frame(r, "identity")
    <3>1. HistStep(r, "identity")
      BY <1>1, <1>3, HistSame
    <3>2. \A other \in Parts \ {"identity"} : Kept(other)
      BY <1>1 DEF Kept
    <3> QED
      BY <1>1, <1>3, <2>1, <2>2, <3>1, <3>2 DEF Frame
  <2>4. status = "applied" => Holds("identity", Section(r, "identity"), hist[r].excused)'
    <3>1. files' = [uuid |-> files'.uuid, claim |-> files'.claim]
      BY <1>4
    <3> QED
      BY <1>1, <1>3, <1>4, <2>2, <3>1 DEF Holds
  <2>5. Each(r)'
    BY <1>1, <1>3, <2>1, <2>2, <2>3, <2>4, RestoreAdvances
  <2>6. LocksStep(r)
    <3>1. ~HoldsMu(r)' /\ ~HoldsAgg(r)' /\ ~HoldsWifi(r)'
      BY <2>1, NotLockingNext DEF Advances
    <3>2. ~HoldsAgg(r) /\ ~HoldsWifi(r)
      BY <1>1 DEF HoldsAgg, HoldsWifi, At, Doing
    <3>3. aggLock # r /\ wifiLock # r /\ (aggLock = "worker" <=> job # None /\ job.at = "work")
      BY <1>3, <3>2 DEF LockHeld, HoldsAgg, HoldsWifi
    <3> QED
      BY <1>1, <1>2, <1>3, <3>1, <3>3, LockNames DEF LocksStep, TypeOK
  <2>7. mem' \in Identity
    BY <1>1, <1>3 DEF TypeOK
  <2>8. mu' # r
    BY <1>1, LockNames
  <2>9. faults' = 0 => files'.uuid = mem'.uuid /\ files'.claim = mem'.claim
    BY <1>1, <1>4
  <2> QED
    BY <1>1, <1>2, <1>4, <2>3, <2>5, <2>6, <2>7, <2>8, <2>9, IdentityDone
<1>5. CASE Fine /\ files' = [files EXCEPT !.claim = mem.claim] /\ Next1(r, "applied")
  <2>1. /\ files' \in [uuid : Uuids, claim : Secrets \cup {None}] /\ files'.uuid = mem.uuid
        /\ files'.claim = mem.claim
    BY <1>3, <1>5 DEF TypeOK, Identity
  <2> QED
    BY <1>4, <1>5, <2>1
<1>6. CASE Fault /\ Next1(r, "failed") /\ UNCHANGED files
  <2>1. faults' # 0
    BY <1>3, <1>6 DEF Fault, TypeOK
  <2> QED
    BY <1>3, <1>4, <1>6, <2>1 DEF TypeOK
<1> QED
  BY <1>5, <1>6 DEF restoreClaim

----------------------------------------------------------------------------
\* The other requests.

Kinds == {"ssh", "aggregator", "network", "claim", "config", "change"}

\* One is through with what it has to do.
LEMMA OneStep ==
  ASSUME IInv, NEW r \in Slots, NEW kind \in Kinds, Doing(r, kind), NEW status, Next1(r, status)
  PROVE  /\ Shape /\ Each(r) /\ TypeOK /\ LockHeld /\ Alone(r) /\ req'[r].op = req[r].op
         /\ ~HoldsMu(r)' /\ ~HoldsAgg(r)' /\ ~HoldsWifi(r)' /\ ~HoldsMu(r) /\ ~HoldsAgg(r)
         /\ \A part : Frame(r, part) => Each(r)'
<1>1. /\ Shape /\ Each(r) /\ TypeOK /\ LockHeld /\ Alone(r) /\ Advances(r, status)
      /\ ~Restoring(r) /\ ~Is(r, {"export"}) /\ req[r].left # << >>
  BY Here, KindOf, Next1Effect DEF Kinds
<1>2. ~HoldsMu(r)' /\ ~HoldsAgg(r)' /\ ~HoldsWifi(r)'
  BY <1>1, NotLockingNext DEF Advances
<1>3. OutsOK(r)'
  BY <1>1 DEF OutsOK, Is, Advances
<1>4. \A part : Frame(r, part) => Each(r)'
  BY <1>1, <1>3, OtherAdvances
<1> QED
  BY <1>1, <1>2, <1>4 DEF Advances, HoldsMu, HoldsAgg

\* One has more to do.
LEMMA MidStep ==
  ASSUME IInv, NEW r \in Slots, NEW kind \in Kinds, Doing(r, kind),
         NEW at, NEW seen, NEW todo, Mid(r, at, seen, todo)
  PROVE  /\ Shape /\ Each(r) /\ TypeOK /\ LockHeld /\ Alone(r) /\ Stays(r, at, seen, todo)
         /\ req'[r].op = req[r].op /\ Doing(r, kind)' /\ ~Restoring(r)' /\ ~Is(r, {"export"})'
         /\ ~HoldsMu(r)' /\ ~HoldsAgg(r)' /\ ~HoldsMu(r) /\ ~HoldsAgg(r)
         /\ ~Restoring(r) /\ req[r].left # << >>
<1>1. /\ Shape /\ Each(r) /\ TypeOK /\ LockHeld /\ Alone(r) /\ Stays(r, at, seen, todo)
      /\ ~Restoring(r) /\ ~Is(r, {"export"}) /\ req[r].left # << >>
  BY Here, KindOf, MidEffect DEF Kinds
<1>2. req'[r].op = req[r].op /\ Doing(r, kind)' /\ ~Restoring(r)' /\ ~Is(r, {"export"})'
  BY <1>1 DEF Stays, Restoring, Is, Doing
<1> QED
  BY <1>1, <1>2 DEF HoldsMu, HoldsAgg

\* Most have no lock, and get none.
LEMMA NoLocks ==
  ASSUME IInv, NEW r \in Slots, ~HoldsMu(r), ~HoldsAgg(r), ~HoldsWifi(r),
         ~HoldsMu(r)', ~HoldsAgg(r)', ~HoldsWifi(r)', UNCHANGED <<mu, aggLock, wifiLock, job>>
  PROVE  LocksStep(r)
BY LocksKept DEF IInv

LEMMA reauthStep ==
  ASSUME IInv, NEW r \in Slots, reauthAndForward(r)
  PROVE  IInv'
<1>1. /\ Doing(r, "ssh") /\ UNCHANGED hist /\ Quiet /\ UNCHANGED <<mu, aggLock, wifiLock, job>> /\ Fine
      /\ "ssh" \in Kinds
  BY DEF reauthAndForward, device, aggVars, netVars, idVars, Quiet, Fine, Kinds
<1>2. /\ Shape /\ Each(r) /\ TypeOK /\ HistStep(r, "setup") /\ req[r].left # << >>
      /\ Head(req[r].left) = "ssh"
  BY <1>1, Here, HistSame DEF Doing
<1>3. ~HoldsMu(r) /\ ~HoldsAgg(r) /\ ~HoldsWifi(r)
  BY <1>2, NotLocking
<1>4. ASSUME NEW at \in {"verify", "helper"}, NEW seen, Mid(r, at, seen, {}),
             at = "verify" => seen \in hist[r].stored,
             at = "helper" => req[r].op.password \in hist[r].stored
      PROVE  IInv'
  <2>1. /\ Alone(r) /\ Stays(r, at, seen, {}) /\ req'[r].op = req[r].op /\ Doing(r, "ssh")'
        /\ ~Restoring(r) /\ ~Restoring(r)' /\ ~Is(r, {"export"})'
    BY <1>1, <1>4, MidStep
  <2>2. Frame(r, "setup")
    BY <1>1, <1>2, <2>1, QuietFrame
  <2>3. hist'[r].stored = hist[r].stored /\ req'[r].at = at /\ req'[r].seen = seen
        /\ Head(req'[r].left) = "ssh"
    BY <1>1, <2>1 DEF Stays, Doing
  <2>4. SeenOK(r)'
    BY <2>1, <2>3 DEF SeenOK, At, Doing
  <2>5. Each(r)'
    BY <1>2, <1>4, <2>1, <2>2, <2>3, <2>4, OtherStays DEF At
  <2>6. ~HoldsMu(r)' /\ ~HoldsAgg(r)' /\ ~HoldsWifi(r)'
    BY <2>3, NotLockingNext
  <2>7. LocksStep(r)
    BY <1>1, <1>3, <2>6, NoLocks
  <2> QED
    BY <1>1, <2>2, <2>5, <2>7, QuietStep
<1>5. ASSUME Abort(r)
      PROVE  IInv'
  <2>1. Alone(r) /\ Stops(r) /\ ~Restoring(r)
    BY <1>1, <1>2, <1>5, AbortEffect, KindOf
  <2>2. Frame(r, "setup")
    BY <1>1, <1>2, <2>1, QuietFrame DEF Stops
  <2>3. Each(r)'
    BY <1>2, <2>1, <2>2, RequestStops
  <2>4. ~HoldsMu(r)' /\ ~HoldsAgg(r)' /\ ~HoldsWifi(r)'
    BY <2>1, NotLockingNext DEF Stops
  <2>5. LocksStep(r)
    BY <1>1, <1>3, <2>4, NoLocks
  <2> QED
    BY <1>1, <2>2, <2>3, <2>5, QuietStep
<1>6. CASE req[r].at = "begin" /\ Mid(r, "verify", pw, {})
  <2>1. pw \in hist[r].stored
    BY <1>2 DEF Each, SshOK
  <2> QED
    BY <1>4, <1>6, <2>1
<1>7. CASE req[r].at = "verify" /\ req[r].op.password = req[r].seen /\ Mid(r, "helper", None, {})
  <2>1. req[r].op.password \in hist[r].stored
    BY <1>1, <1>2, <1>7 DEF Each, SshOK, At
  <2> QED
    BY <1>4, <1>7, <2>1
<1> QED
  BY <1>5, <1>6, <1>7 DEF reauthAndForward

\* One step of such a request on a part, its locks seen to.
LEMMA OneDone ==
  ASSUME IInv, NEW r \in Slots, NEW kind \in Kinds, Doing(r, kind), NEW status, Next1(r, status),
         NEW part, part # "identity", Frame(r, part), LocksStep(r), TypeOK',
         UNCHANGED <<mem, files, mu, file>>, Fault \/ Fine
  PROVE  IInv'
<1>1. Each(r)'
  BY OneStep
<1> QED
  BY <1>1, StepDone

LEMMA sshCmdStep ==
  ASSUME IInv, NEW r \in Slots, sshCmd(r)
  PROVE  IInv'
<1> DEFINE o == req[r].op
<1>1. /\ Doing(r, "ssh") /\ "ssh" \in Kinds /\ (Fault \/ Fine)
      /\ UNCHANGED <<agg, nets, settings, schema, mem, files, mu, pw, file, ops, hist>>
      /\ UNCHANGED <<aggLock, wifiLock, job>>
  BY DEF sshCmd, At, Kinds, aggVars, netVars, idVars, Fine
<1>2. PICK status : Next1(r, status)
  BY DEF sshCmd
<1>3. /\ Shape /\ Each(r) /\ TypeOK /\ Alone(r) /\ req'[r].op = req[r].op
      /\ ~HoldsMu(r)' /\ ~HoldsAgg(r)' /\ ~HoldsWifi(r)'
  BY <1>1, <1>2, OneStep
<1>4. o.verb \in {"set-password", "disable-password", "set-key", "clear-key"}
  BY <1>1, KindOf DEF OpOK
<1>5. ssh' \subseteq Ways
  <2>1. ssh \subseteq Ways /\ {"password", "snippet", "key"} = Ways
    BY <1>3 DEF TypeOK, Ways
  <2>2. sshDone(o.verb) \subseteq Ways /\ sshHalf(o.verb) \subseteq Ways
    BY <1>4, <2>1 DEF sshDone, sshHalf
  <2> QED
    BY <2>1, <2>2 DEF sshCmd
<1>6. Frame(r, "setup")
  <2>1. HistStep(r, "setup")
    BY <1>1, <1>3, HistSame
  <2> QED
    BY <1>1, <1>3, <2>1 DEF Frame, Kept
<1>7. LocksStep(r)
  <2>1. ~HoldsMu(r) /\ ~HoldsAgg(r) /\ ~HoldsWifi(r)
    BY <1>1, NotLocking, KindOf DEF Doing
  <2> QED
    BY <1>1, <1>3, <2>1, NoLocks
<1>8. TypeOK'
  BY <1>1, <1>3, <1>5, <1>7, FaultCounted DEF TypeOK, LocksStep
<1> QED
  BY <1>1, <1>2, <1>6, <1>7, <1>8, OneDone

\* One that writes a part under its lock, and has no lock of its own.
LEMMA OneWrites ==
  ASSUME IInv, NEW r \in Slots, NEW kind \in Kinds, Doing(r, kind), NEW status, Next1(r, status),
         NEW part \in Parts \ {"identity"}, NEW begun \in SUBSET {part},
         NEW stored \in SUBSET (Hashes \cup {None}), Writes(r, part, begun, stored),
         Untouched(part), pw' = pw \/ pw' \in stored,
         part = "aggregators" => aggLock = None,
         ~HoldsWifi(r), UNCHANGED <<mu, aggLock, wifiLock, job, schema, ssh, file, ops>>, Fine,
         agg' \in [Adapters -> Record \cup {None}], nets' \in [NetIds -> Bodies \cup {None}],
         settings' \in [Keys -> Values], pw' \in Hashes \cup {None}
  PROVE  IInv'
<1>1. /\ Shape /\ TypeOK /\ LockHeld /\ Alone(r) /\ req'[r].op = req[r].op
      /\ ~HoldsMu(r)' /\ ~HoldsAgg(r)' /\ ~HoldsWifi(r)' /\ ~HoldsMu(r) /\ ~HoldsAgg(r)
  BY OneStep
<1>2. part = "aggregators" => \A q \in Slots \ {r} : ~HoldsAgg(q)
  BY <1>1, LockNames, NoImport
<1>3. Frame(r, part)
  BY <1>1, <1>2, WriteFrame
<1>4. LocksStep(r)
  BY <1>1, NoLocks
<1>5. UNCHANGED <<mem, files>>
  BY DEF Untouched
<1>6. TypeOK'
  BY <1>1, <1>4, <1>5, FaultCounted DEF TypeOK, LocksStep
<1> QED
  BY <1>3, <1>4, <1>5, <1>6, OneDone

LEMMA aggMutateStep ==
  ASSUME IInv, NEW r \in Slots, aggMutate(r)
  PROVE  IInv'
<1> DEFINE o == req[r].op
<1>1. /\ Doing(r, "aggregator") /\ "aggregator" \in Kinds /\ (Fault \/ Fine)
      /\ UNCHANGED <<aggLock, nets, wifiLock, settings, schema, mem, files, mu, ssh, pw, file, ops>>
  BY DEF aggMutate, Kinds, netVars, idVars, Fine
<1>2. PICK status : Next1(r, status)
  BY DEF aggMutate
<1>3. /\ Shape /\ Each(r) /\ TypeOK /\ LockHeld /\ Alone(r) /\ req'[r].op = req[r].op
      /\ ~HoldsMu(r)' /\ ~HoldsAgg(r)' /\ ~HoldsWifi(r)' /\ ~HoldsMu(r) /\ ~HoldsAgg(r)
  BY <1>1, <1>2, OneStep
<1>4. ~HoldsWifi(r)
  BY <1>1, NotLocking, KindOf DEF Doing
<1>5. o.id \in Known /\ o.id \in Adapters /\ o.fields \in Creds \cup {None} /\ o.mlat \in BOOLEAN
      /\ o.verb \in {"enable", "disable", "reset", "set"}
  <2>1. o.kind = "aggregator" /\ OpOK(o)
    BY <1>1, KindOf
  <2> QED
    BY <2>1, BackupAssumption DEF OpOK, BackupAssumption
<1>6. CASE UNCHANGED <<agg, hist>>
  <2>1. Quiet /\ HistStep(r, "setup")
    BY <1>1, <1>3, <1>6, HistSame DEF Quiet
  <2>2. Frame(r, "setup")
    BY <1>3, <2>1, QuietFrame
  <2>3. aggLock' # "worker" => job' = None \/ job'.at # "work"
    BY <1>3, <1>6 DEF aggMutate, LockHeld
  <2>4. /\ job' = job
        \/ /\ aggLock = None
           /\ job' = [verb |-> o.verb, id |-> o.id, mlat |-> o.mlat, fields |-> o.fields, at |-> "starting"]
           /\ o.verb # "disable"
    BY <1>6 DEF aggMutate, Wrote
  <2>5. job' \in Job \cup {None}
    BY <1>3, <1>5, <2>4 DEF Job, TypeOK
  <2>6. aggLock = "worker" <=> job' # None /\ job'.at = "work"
    BY <1>3, <2>4, LockNames DEF LockHeld
  <2>7. LocksStep(r)
    BY <1>1, <1>3, <1>4, <2>5, <2>6 DEF LocksStep, TypeOK, LockHeld, HoldsMu, HoldsAgg, HoldsWifi
  <2>8. Each(r)'
    BY <1>1, <1>2, <2>2, OneStep
  <2> QED
    BY <1>1, <1>6, <2>1, <2>2, <2>7, <2>8, QuietStep
<1>7. CASE /\ aggLock = None /\ Wrote(r, "aggregators") /\ UNCHANGED job /\ Fine
           /\ agg' = [agg EXCEPT ![o.id] =
                        IF @ = None THEN [enabled |-> FALSE, mlat |-> FALSE, fields |-> None]
                        ELSE [@ EXCEPT !.enabled = FALSE]]
  <2> DEFINE was == agg[o.id]
             new == IF was = None THEN [enabled |-> FALSE, mlat |-> FALSE, fields |-> None]
                    ELSE [was EXCEPT !.enabled = FALSE]
             id == o.id
  <2>1. was \in Record \cup {None}
    BY <1>3, <1>5 DEF TypeOK
  <2>2. new \in Record
    <3> HIDE DEF was
    <3> QED
      BY <2>1 DEF Record
  <2>3. agg' = [agg EXCEPT ![id] = new]
    BY <1>7
  <2>4. agg' \in [Adapters -> Record \cup {None}]
    <3> HIDE DEF new, id
    <3> QED
      BY <1>3, <2>2, <2>3 DEF TypeOK
  <2>5. Untouched("aggregators") /\ Writes(r, "aggregators", {}, {})
    BY <1>1, <1>7 DEF Untouched, Wrote
  <2>6. /\ nets' \in [NetIds -> Bodies \cup {None}] /\ settings' \in [Keys -> Values]
        /\ pw' \in Hashes \cup {None} /\ "aggregators" \in Parts \ {"identity"}
    BY <1>1, <1>3 DEF TypeOK, Parts
  <2> QED
    BY <1>1, <1>2, <1>4, <1>7, <2>4, <2>5, <2>6, OneWrites
<1> QED
  BY <1>6, <1>7 DEF aggMutate

LEMMA handleConfigPostStep ==
  ASSUME IInv, NEW r \in Slots, handleConfigPost(r)
  PROVE  IInv'
<1> DEFINE upd == req[r].op.updates
<1>1. /\ Doing(r, "config") /\ "config" \in Kinds /\ Fine
      /\ UNCHANGED <<agg, aggLock, job, nets, wifiLock, schema, mem, files, mu, ssh, pw, file, ops>>
  BY DEF handleConfigPost, Kinds, aggVars, netVars, idVars, Fine
<1>2. Shape /\ TypeOK /\ SectionOK("settings", upd) /\ ~HoldsWifi(r) /\ ~HoldsAgg(r) /\ ~HoldsMu(r)
  BY <1>1, Here, KindOf, NotLocking DEF OpOK, Doing
<1>3. CASE Next1(r, "rejected") /\ UNCHANGED <<settings, hist>>
  <2>1. /\ Alone(r) /\ req'[r].op = req[r].op
        /\ ~HoldsMu(r)' /\ ~HoldsAgg(r)' /\ ~HoldsWifi(r)' /\ \A part : Frame(r, part) => Each(r)'
    BY <1>1, <1>3, OneStep
  <2>2. Quiet /\ HistStep(r, "setup")
    BY <1>1, <1>2, <1>3, HistSame DEF Quiet
  <2>3. Frame(r, "setup")
    BY <1>2, <2>1, <2>2, QuietFrame
  <2>4. LocksStep(r)
    BY <1>1, <1>2, <2>1, NoLocks
  <2> QED
    BY <1>1, <1>3, <2>1, <2>2, <2>3, <2>4, QuietStep
<1>4. CASE settings' = Updated(upd, DOMAIN upd) /\ Next1(r, "applied") /\ Wrote(r, "settings")
  <2>1. settings' \in [Keys -> Values]
    BY <1>2, <1>4 DEF Updated, SectionOK, TypeOK
  <2>2. Untouched("settings") /\ Writes(r, "settings", {}, {}) /\ "settings" \in Parts \ {"identity"}
    BY <1>1, <1>4 DEF Untouched, Wrote, Parts
  <2>3. /\ agg' \in [Adapters -> Record \cup {None}] /\ nets' \in [NetIds -> Bodies \cup {None}]
        /\ pw' \in Hashes \cup {None}
    BY <1>1, <1>2 DEF TypeOK
  <2> QED
    BY <1>1, <1>2, <1>4, <2>1, <2>2, <2>3, OneWrites
<1> QED
  BY <1>3, <1>4 DEF handleConfigPost

LEMMA handleChangePasswordStep ==
  ASSUME IInv, NEW r \in Slots, handleChangePassword(r)
  PROVE  IInv'
<1>1. /\ Doing(r, "change") /\ "change" \in Kinds /\ Fine /\ Next1(r, "applied")
      /\ pw' = req[r].op.hash /\ Writes(r, "password", {"password"}, {pw'})
      /\ UNCHANGED <<agg, aggLock, job, nets, wifiLock, settings, schema, mem, files, mu, ssh, file, ops>>
  BY DEF handleChangePassword, StoredPw, Kinds, aggVars, netVars, idVars, Fine
<1>2. TypeOK /\ pw' \in Hashes /\ ~HoldsWifi(r)
  BY <1>1, Here, KindOf, NotLocking DEF OpOK, Doing
<1>3. /\ {pw'} \in SUBSET (Hashes \cup {None}) /\ {"password"} \in SUBSET {"password"}
      /\ "password" \in Parts \ {"identity"} /\ Untouched("password")
  BY <1>1, <1>2 DEF Parts, Untouched
<1>4. /\ agg' \in [Adapters -> Record \cup {None}] /\ nets' \in [NetIds -> Bodies \cup {None}]
      /\ settings' \in [Keys -> Values]
  BY <1>1, <1>2 DEF TypeOK
<1> DEFINE begun == {"password"}
           stored == {pw'}
<1>5. Writes(r, "password", begun, stored) /\ pw' \in stored
  BY <1>1
<1>6. begun \in SUBSET {"password"} /\ stored \in SUBSET (Hashes \cup {None})
  BY <1>3
<1> HIDE DEF begun, stored
<1> QED
  BY <1>1, <1>2, <1>3, <1>4, <1>5, <1>6, OneWrites

\* The helper of a network takes the lock, works under it and gives it back.
LEMMA WifiLocks ==
  ASSUME IInv, NEW r \in Slots, Doing(r, "network"), Alone(r), UNCHANGED <<mu, aggLock, job>>,
         ~HoldsMu(r)', ~HoldsAgg(r)',
         \/ wifiLock \in {None, r} /\ wifiLock' = r /\ HoldsWifi(r)'
         \/ wifiLock \in {None, r} /\ wifiLock' = None /\ ~HoldsWifi(r)'
         \/ UNCHANGED wifiLock /\ (HoldsWifi(r)' <=> HoldsWifi(r))
  PROVE  LocksStep(r)
<1>1. TypeOK /\ LockHeld /\ ~Restoring(r)
  BY Here, KindOf
<1>2. ~HoldsMu(r) /\ ~HoldsAgg(r) /\ mu # r /\ aggLock # r /\ (wifiLock = r <=> HoldsWifi(r))
      /\ (aggLock = "worker" <=> job # None /\ job.at = "work")
  BY <1>1 DEF HoldsMu, HoldsAgg, HoldsWifi, LockHeld
<1> QED
  BY <1>1, <1>2, LockNames DEF LocksStep, TypeOK

LEMMA wifiBeginStep ==
  ASSUME IInv, NEW r \in Slots, wifiBegin(r)
  PROVE  IInv'
<1> DEFINE o == req[r].op
<1>1. /\ Doing(r, "network") /\ "network" \in Kinds /\ Fine /\ req[r].at = "begin" /\ Quiet
      /\ UNCHANGED <<mu, aggLock, job, hist>>
  BY DEF wifiBegin, At, Kinds, aggVars, idVars, Fine, Quiet
<1>2. /\ Shape /\ TypeOK /\ LockHeld /\ Each(r) /\ ~HoldsWifi(r) /\ wifiLock # r
      /\ HistStep(r, "setup") /\ o.id \in NetIds
  <2>1. Shape /\ TypeOK /\ LockHeld /\ Each(r) /\ o.kind = "network" /\ OpOK(o)
    BY <1>1, Here, KindOf
  <2>2. ~HoldsWifi(r)
    BY <1>1, NotLocking
  <2> QED
    BY <1>1, <2>1, <2>2, HistSame DEF LockHeld, HoldsWifi, OpOK
<1>3. CASE Next1(r, "failed") /\ UNCHANGED wifiLock
  <2>1. /\ Alone(r) /\ req'[r].op = req[r].op
        /\ ~HoldsMu(r)' /\ ~HoldsAgg(r)' /\ ~HoldsWifi(r)' /\ \A part : Frame(r, part) => Each(r)'
    BY <1>1, <1>3, OneStep
  <2>2. Frame(r, "setup")
    BY <1>1, <1>2, <2>1, QuietFrame
  <2>3. LocksStep(r)
    BY <1>1, <1>2, <1>3, <2>1, WifiLocks
  <2> QED
    BY <1>1, <2>1, <2>2, <2>3, QuietStep
<1>4. CASE wifiLock = None /\ wifiLock' = r /\ Mid(r, "work", nets[o.id], {})
  <2> DEFINE body == nets[o.id]
  <2>1. body \in Bodies \cup {None}
    BY <1>2 DEF TypeOK
  <2>2. Mid(r, "work", body, {})
    BY <1>4
  <2> HIDE DEF body
  <2>3. /\ Alone(r) /\ Stays(r, "work", body, {}) /\ req'[r].op = req[r].op /\ Doing(r, "network")'
        /\ ~Restoring(r) /\ ~Restoring(r)' /\ ~Is(r, {"export"})' /\ req[r].left # << >>
        /\ ~HoldsMu(r)' /\ ~HoldsAgg(r)'
    BY <1>1, <2>2, MidStep
  <2>4. req'[r].at = "work" /\ req'[r].seen = body /\ HoldsWifi(r)'
    BY <2>3 DEF Stays, HoldsWifi, At
  <2>5. Frame(r, "setup")
    BY <1>1, <1>2, <2>3, QuietFrame
  <2>6. SeenOK(r)'
    BY <2>1, <2>3, <2>4 DEF SeenOK
  <2>7. Each(r)'
    BY <1>2, <2>3, <2>4, <2>5, <2>6, OtherStays DEF At
  <2>8. LocksStep(r)
    BY <1>1, <1>4, <2>3, <2>4, WifiLocks
  <2> QED
    BY <1>1, <2>5, <2>7, <2>8, QuietStep
<1> QED
  BY <1>3, <1>4 DEF wifiBegin

\* What it writes there.
LEMMA NetWrite ==
  ASSUME IInv, NEW r \in Slots, Doing(r, "network"), NEW id \in NetIds, NEW body \in Bodies \cup {None},
         nets' = nets \/ nets' = [nets EXCEPT ![id] = body], Writes(r, "wifi", {}, {}),
         Alone(r), req'[r].op = req[r].op, LocksStep(r), Fine,
         UNCHANGED <<agg, settings, schema, mem, files, mu, ssh, pw, file, ops>>
  PROVE  Frame(r, "wifi") /\ TypeOK'
<1>1. Shape /\ TypeOK /\ "wifi" \in Parts
  BY Here DEF Parts
<1>2. Frame(r, "wifi")
  BY <1>1, WriteFrame DEF Untouched
<1>3. nets' \in [NetIds -> Bodies \cup {None}]
  BY <1>1 DEF TypeOK
<1> QED
  BY <1>1, <1>2, <1>3, FaultCounted DEF TypeOK, LocksStep

LEMMA wifiWorkStep ==
  ASSUME IInv, NEW r \in Slots, wifiWork(r)
  PROVE  IInv'
<1> DEFINE o == req[r].op
           seen == req[r].seen
           body == IF o.verb = "delete" THEN None ELSE o.body
           id == o.id
<1>1. /\ Doing(r, "network") /\ "network" \in Kinds /\ Fine /\ req[r].at = "work"
      /\ UNCHANGED <<agg, settings, schema, mem, files, mu, ssh, pw, file, ops>>
      /\ UNCHANGED <<mu, aggLock, job, wifiLock>> /\ Writes(r, "wifi", {}, {})
      /\ nets' = [nets EXCEPT ![id] = body] /\ Mid(r, "settle", seen, {})
  BY DEF wifiWork, At, Kinds, aggVars, idVars, Fine, Wrote
<1>2. /\ Shape /\ TypeOK /\ Each(r) /\ HoldsWifi(r)
      /\ id \in NetIds /\ body \in Bodies \cup {None} /\ seen \in Bodies \cup {None}
  <2>1. Shape /\ TypeOK /\ Each(r) /\ o.kind = "network" /\ OpOK(o)
    BY <1>1, Here, KindOf
  <2> QED
    BY <1>1, <2>1 DEF HoldsWifi, OpOK, Each, SeenOK, At
<1> HIDE DEF seen, body, id
<1>3. /\ Alone(r) /\ Stays(r, "settle", seen, {}) /\ req'[r].op = req[r].op /\ Doing(r, "network")'
      /\ ~Restoring(r) /\ ~Restoring(r)' /\ ~Is(r, {"export"})' /\ req[r].left # << >>
      /\ ~HoldsMu(r)' /\ ~HoldsAgg(r)'
  BY <1>1, MidStep
<1>4. req'[r].at = "settle" /\ req'[r].seen = seen /\ HoldsWifi(r)'
  BY <1>3 DEF Stays, HoldsWifi, At
<1>5. LocksStep(r)
  BY <1>1, <1>2, <1>3, <1>4, WifiLocks
<1>6. Frame(r, "wifi") /\ TypeOK'
  BY <1>1, <1>2, <1>3, <1>5, NetWrite
<1>7. SeenOK(r)'
  BY <1>2, <1>3, <1>4 DEF SeenOK
<1>8. Each(r)'
  BY <1>2, <1>3, <1>4, <1>6, <1>7, OtherStays DEF At
<1> QED
  BY <1>1, <1>5, <1>6, <1>8, StepDone

LEMMA wifiEndStep ==
  ASSUME IInv, NEW r \in Slots, wifiEnd(r)
  PROVE  IInv'
<1> DEFINE o == req[r].op
           seen == req[r].seen
           id == o.id
<1>1. /\ Doing(r, "network") /\ "network" \in Kinds /\ Fine /\ req[r].at = "settle"
      /\ UNCHANGED <<agg, settings, schema, mem, files, mu, ssh, pw, file, ops>>
      /\ UNCHANGED <<mu, aggLock, job>> /\ wifiLock' = None /\ Writes(r, "wifi", {}, {})
      /\ nets' = nets \/ nets' = [nets EXCEPT ![id] = seen]
  BY DEF wifiEnd, At, Kinds, aggVars, idVars, Fine, Wrote
<1>2. PICK status : Next1(r, status)
  BY DEF wifiEnd
<1>3. /\ TypeOK /\ Each(r) /\ HoldsWifi(r) /\ wifiLock = r
      /\ id \in NetIds /\ seen \in Bodies \cup {None}
  <2>1. TypeOK /\ Each(r) /\ o.kind = "network" /\ OpOK(o) /\ LockHeld
    BY <1>1, Here, KindOf
  <2>2. HoldsWifi(r)
    BY <1>1 DEF HoldsWifi, At
  <2> QED
    BY <1>1, <2>1, <2>2 DEF HoldsWifi, OpOK, Each, SeenOK, At, LockHeld
<1> HIDE DEF seen, id
<1>4. /\ Alone(r) /\ req'[r].op = req[r].op
      /\ ~HoldsMu(r)' /\ ~HoldsAgg(r)' /\ ~HoldsWifi(r)'
  BY <1>1, <1>2, OneStep
<1>5. LocksStep(r)
  BY <1>1, <1>3, <1>4, WifiLocks
<1>6. Frame(r, "wifi") /\ TypeOK'
  BY <1>1, <1>3, <1>4, <1>5, NetWrite
<1> QED
  BY <1>1, <1>2, <1>5, <1>6, OneDone

LEMMA claimCmdStep ==
  ASSUME IInv, NEW r \in Slots, claimCmd(r)
  PROVE  IInv'
<1> DEFINE o == req[r].op
<1>1. /\ Doing(r, "claim") /\ "claim" \in Kinds /\ (Fault \/ Fine) /\ mu = None /\ mu' = None
      /\ UNCHANGED <<agg, nets, settings, schema, ssh, pw, file, ops>>
      /\ UNCHANGED <<mu, aggLock, wifiLock, job>>
      /\ Writes(r, "identity", {}, {}) /\ Next1(r, "done")
      /\ mem' = IF o.verb = "register" THEN RegisterClaim(o.secret) ELSE RotateClaim(o.secret)
  BY DEF claimCmd, Kinds, Wrote, aggVars, netVars, Fine
<1>2. /\ Shape /\ TypeOK /\ Each(r) /\ Alone(r) /\ req'[r].op = req[r].op
      /\ ~HoldsMu(r)' /\ ~HoldsAgg(r)' /\ ~HoldsWifi(r)' /\ ~HoldsMu(r) /\ ~HoldsAgg(r)
      /\ o.secret \in Secrets /\ ~HoldsWifi(r)
  BY <1>1, OneStep, KindOf, NotLocking DEF OpOK, Doing
<1>3. mem' \in Identity /\ mem'.uuid = mem.uuid
  <2> DEFINE secret == o.secret
             more == mem.version + 1
  <2>1. mem \in Identity /\ secret \in Secrets
    BY <1>2 DEF TypeOK
  <2>2. more \in Nat
    BY <2>1 DEF Identity
  <2>3. mem' \in {mem, [mem EXCEPT !.claim = secret], [mem EXCEPT !.claim = secret, !.version = more]}
    BY <1>1 DEF RegisterClaim, RotateClaim
  <2> HIDE DEF secret, more
  <2> QED
    BY <2>1, <2>2, <2>3 DEF Identity
<1>4. /\ files' \in [uuid : Uuids, claim : Secrets \cup {None}] /\ files'.uuid = files.uuid
      /\ Fine /\ mem' # mem => files'.claim = mem'.claim
      /\ Fine /\ mem' = mem => files'.claim = files.claim
      /\ Fine \/ Fault
  <2> DEFINE next == IF mem' = mem THEN files.claim ELSE mem'.claim
  <2>1. files \in [uuid : Uuids, claim : Secrets \cup {None}]
    BY <1>2 DEF TypeOK
  <2>2. next \in Secrets \cup {None}
    BY <1>3, <2>1 DEF Identity
  <2>3. \/ Fine /\ files' = [files EXCEPT !.claim = next]
        \/ Fault /\ files' = files
    BY DEF claimCmd
  <2>4. Fault => ~Fine
    BY <1>2 DEF Fault, Fine, TypeOK
  <2> HIDE DEF next
  <2>5. CASE Fine /\ files' = [files EXCEPT !.claim = next]
    <3>1. /\ files' \in [uuid : Uuids, claim : Secrets \cup {None}] /\ files'.uuid = files.uuid
          /\ files'.claim = next
      BY <2>1, <2>2, <2>5
    <3> QED
      BY <2>5, <3>1 DEF next
  <2>6. CASE Fault /\ files' = files
    BY <2>1, <2>4, <2>6
  <2> QED
    BY <2>3, <2>5, <2>6
<1>5. Frame(r, "identity")
  BY <1>1, <1>2, WriteFrame DEF Untouched, Parts
<1>6. Each(r)'
  BY <1>1, <1>5, OneStep
<1>7. LocksStep(r)
  BY <1>1, <1>2, NoLocks
<1>8. faults' = 0 => files'.uuid = mem'.uuid /\ files'.claim = mem'.claim
  <2>1. faults' = 0 => faults = 0 /\ Fine
    BY <1>1, <1>2, FaultCounted
  <2>2. faults = 0 => files.uuid = mem.uuid /\ files.claim = mem.claim
    BY <1>1 DEF IInv, FilesOK
  <2> QED
    BY <1>3, <1>4, <2>1, <2>2
<1> QED
  BY <1>1, <1>3, <1>4, <1>5, <1>6, <1>7, <1>8, LockNames, IdentityDone

----------------------------------------------------------------------------
\* Requests come and go.

LEMMA WantedPlaces ==
  ASSUME NEW part \in Parts, NEW want
  PROVE  Wanted(part, want) \in Seq(Parts)
BY DEF Wanted

\* What a request is to do, each part of a restore once.
LEMMA PlanPlaces ==
  ASSUME NEW o, OpOK(o)
  PROVE  /\ Plan(o) \in Seq(Places(o))
         /\ o.kind \in {"restore", "restore-setup"} =>
                \A i, j \in DOMAIN Plan(o) : Plan(o)[i] = Plan(o)[j] => i = j
<1>1. CASE o.kind = "export"
  <2> DEFINE w(part) == Wanted(part, o.want)
  <2>1. /\ w("identity") \in Seq(Parts) /\ w("settings") \in Seq(Parts)
        /\ w("aggregators") \in Seq(Parts) /\ w("wifi") \in Seq(Parts)
        /\ w("password") \in Seq(Parts)
    BY WantedPlaces DEF Parts
  <2>2. Plan(o) = w("identity") \o w("settings") \o w("aggregators") \o w("wifi") \o w("password")
    BY <1>1 DEF Plan
  <2> HIDE DEF w
  <2>3. Plan(o) \in Seq(Parts)
    BY <2>1, <2>2
  <2> QED
    BY <1>1, <2>3 DEF Places
<1>2. CASE o.kind = "restore"
  <2>1. Plan(o) = <<"settings", "identity", "aggregators", "wifi", "password">>
    BY <1>2 DEF Plan
  <2>2. Places(o) = Parts \cup {"setup"}
    BY <1>2 DEF Places
  <2> QED
    BY <2>1, <2>2 DEF Parts
<1>3. CASE o.kind = "restore-setup"
  <2>1. Plan(o) = <<"setup", "password", "settings", "identity", "aggregators", "wifi">>
    BY <1>3 DEF Plan
  <2>2. Places(o) = Parts \cup {"setup"}
    BY <1>3 DEF Places
  <2> QED
    BY <2>1, <2>2 DEF Parts
<1>4. CASE o.kind \notin {"export", "restore", "restore-setup"}
  <2>1. Plan(o) = <<o.kind>> /\ Places(o) = {o.kind}
    BY <1>4 DEF Plan, Places
  <2> QED
    BY <1>4, <2>1
<1> QED
  BY <1>1, <1>2, <1>3, <1>4

\* A step that leaves the identity alone, and no request in or out of an import.
LEMMA CalmStep ==
  ASSUME IInv, UNCHANGED <<mem, files, mu, faults>>, TypeOK', Shape', FileInv', LockHeld',
         \A q \in Slots : /\ Each(q)'
                          /\ mu = q => req'[q].op = req[q].op
                          /\ hist'[q].clean \subseteq hist[q].clean
  PROVE  IInv'
<1>1. FilesOK'
  BY DEF IInv, FilesOK
<1>2. ImportOK'
  <2> SUFFICES ASSUME NEW q \in Slots, mu = q
               PROVE  /\ Has(q, "identity")' /\ (mem = Section(q, "identity"))'
                      /\ (files.uuid = mem.uuid)'
                      /\ \A p \in Slots \ {q} : "identity" \notin hist'[p].clean
    BY DEF ImportOK
  <2>1. /\ Has(q, "identity") /\ mem = Section(q, "identity") /\ files.uuid = mem.uuid
        /\ \A p \in Slots \ {q} : "identity" \notin hist[p].clean
    BY DEF IInv, ImportOK
  <2>2. \A p \in Slots \ {q} : "identity" \notin hist'[p].clean
    BY <2>1
  <2> QED
    BY <2>1, <2>2 DEF Has, Section
<1> QED
  BY <1>1, <1>2 DEF IInv

LEMMA Unnoticed ==
  ASSUME Shape, NEW q \in Slots, UNCHANGED <<agg, nets, settings, mem, files, pw>>,
         req'[q] = req[q], hist'[q] = hist[q]
  PROVE  Undisturbed(q)
BY DEF Undisturbed, Kept, Shape, Histories

\* A request begins or ends, with the device as it is.
LEMMA ComesOrGoes ==
  ASSUME IInv, NEW r \in Slots, Alone(r), UNCHANGED <<device, faults>>, ops' \in 0..MaxOps,
         hist' \in Histories, \A q \in Slots \ {r} : hist'[q] = hist[q],
         hist'[r].clean = {}, Each(r)', FileInv',
         ~HoldsMu(r), ~HoldsAgg(r), ~HoldsWifi(r), ~HoldsMu(r)', ~HoldsAgg(r)', ~HoldsWifi(r)'
  PROVE  IInv'
<1>1. Shape /\ TypeOK /\ LockHeld
  BY DEF IInv
<1>2. UNCHANGED <<agg, nets, settings, schema, mem, files, ssh, pw>>
      /\ UNCHANGED <<mu, aggLock, wifiLock, job>>
  BY DEF device, aggVars, netVars, idVars
<1>3. \A q \in Slots \ {r} : Undisturbed(q)
  BY <1>1, <1>2, Unnoticed DEF Alone
<1>4. \A q \in Slots : Each(q)'
  BY <1>3, UndisturbedKept DEF IInv
<1>5. LockHeld'
  <2>1. LocksStep(r)
    BY <1>2, NoLocks
  <2> QED
    BY <1>1, <2>1, LocksStepHeld
<1>6. TypeOK'
  BY <1>1, <1>2 DEF TypeOK
<1>7. Shape'
  BY DEF Shape, Alone
<1>8. \A q \in Slots \ {r} : req'[q].op = req[q].op
  BY DEF Alone
<1>9. mu # r
  BY <1>1 DEF LockHeld, HoldsMu
<1>10. \A q \in Slots : hist'[q].clean \subseteq hist[q].clean
  OBVIOUS
<1> QED
  BY <1>2, <1>4, <1>5, <1>6, <1>7, <1>8, <1>9, <1>10, CalmStep

LEMMA NoHistTyped ==
  ASSUME Shape, NEW r \in Slots, NEW stored \in SUBSET (Hashes \cup {None}),
         hist' = [hist EXCEPT ![r] = [NoHist EXCEPT !.stored = stored]]
  PROVE  /\ hist' \in Histories /\ hist'[r].clean = {} /\ hist'[r].stored = stored
         /\ \A q \in Slots \ {r} : hist'[q] = hist[q]
<1> DEFINE new == [NoHist EXCEPT !.stored = stored]
<1>1. /\ new \in [clean : SUBSET Parts, excused : SUBSET (Keys \cup NetIds),
                  failed : SUBSET NetIds, stored : SUBSET (Hashes \cup {None})]
      /\ new.clean = {} /\ new.stored = stored
  BY DEF NoHist
<1>2. hist' = [hist EXCEPT ![r] = new]
  OBVIOUS
<1> HIDE DEF new
<1> QED
  BY <1>1, <1>2 DEF Shape, Histories

LEMMA StartStep ==
  ASSUME IInv, NEW r \in Slots, Start(r)
  PROVE  IInv'
<1>1. PICK o \in Starts \cup (IF file = None THEN {} ELSE {[kind |-> "restore", file |-> file]}) :
        req' = [req EXCEPT ![r] = [Idle EXCEPT !.op = o, !.left = Plan(o)]]
  BY DEF Start
<1>2. /\ ops < MaxOps /\ ops' = ops + 1 /\ UNCHANGED <<device, file, faults>>
      /\ hist' = [hist EXCEPT ![r] = [NoHist EXCEPT !.stored = {pw}]]
      /\ \E q \in Slots : req[q] = Idle
      /\ r = CHOOSE q \in Slots : req[q] = Idle
  BY DEF Start
<1>3. Shape /\ TypeOK /\ pw \in Hashes \cup {None} /\ req[r] = Idle
  BY <1>2 DEF IInv, TypeOK
<1>4. OpOK(o)
  <2>1. CASE o \in Starts
    BY <2>1, BackupAssumption DEF BackupAssumption
  <2>2. CASE file # None /\ o = [kind |-> "restore", file |-> file]
    BY <2>2 DEF IInv, FileInv, OpOK
  <2> QED
    BY <2>1, <2>2
<1> HIDE DEF Idle
<1>5. /\ req'[r] = [Idle EXCEPT !.op = o, !.left = Plan(o)]
      /\ \A q \in Slots \ {r} : req'[q] = req[q]
      /\ DOMAIN req' = Slots
  BY <1>1, <1>3 DEF Shape
<1>6. /\ req'[r].op = o /\ req'[r].left = Plan(o) /\ req'[r].at = "begin"
      /\ DOMAIN req'[r].out = {} /\ DOMAIN req'[r] = Fields
  BY <1>5 DEF Idle, Fields
<1>7. /\ hist' \in Histories /\ hist'[r].clean = {} /\ hist'[r].stored = {pw}
      /\ \A q \in Slots \ {r} : hist'[q] = hist[q]
  <2> DEFINE stored == {pw}
  <2>1. stored \in SUBSET (Hashes \cup {None})
    BY <1>3
  <2>2. hist' = [hist EXCEPT ![r] = [NoHist EXCEPT !.stored = stored]]
    BY <1>2
  <2> HIDE DEF stored
  <2>3. /\ hist' \in Histories /\ hist'[r].clean = {} /\ hist'[r].stored = stored
        /\ \A q \in Slots \ {r} : hist'[q] = hist[q]
    BY <1>3, <2>1, <2>2, NoHistTyped
  <2> QED
    BY <2>3 DEF stored
<1>8. Alone(r)
  BY <1>3, <1>5, <1>6 DEF Alone, Shape
<1>9. Each(r)'
  <2>1. /\ Plan(o) \in Seq(Places(o))
        /\ o.kind \in {"restore", "restore-setup"} =>
                \A i, j \in DOMAIN Plan(o) : Plan(o)[i] = Plan(o)[j] => i = j
    BY <1>4, PlanPlaces
  <2>2. RequestOK(r)'
    BY <1>4, <1>6, <2>1 DEF RequestOK
  <2>3. SeenOK(r)' /\ MidOK(r)'
    BY <1>6 DEF SeenOK, MidOK, At
  <2>4. OutsOK(r)' /\ TakesOK(r)'
    BY <1>6 DEF OutsOK, TakesOK
  <2>5. OrderOK(r)'
    BY <1>6, <2>1 DEF OrderOK, Restoring, Is
  <2>6. SshOK(r)'
    BY <1>2, <1>6, <1>7 DEF SshOK, At, device
  <2> QED
    BY <2>2, <2>3, <2>4, <2>5, <2>6 DEF Each
<1>10. ops' \in 0..MaxOps /\ FileInv'
  BY <1>2, <1>3, BackupAssumption DEF TypeOK, BackupAssumption, IInv, FileInv
<1>11. ~HoldsMu(r) /\ ~HoldsAgg(r) /\ ~HoldsWifi(r)
  BY <1>3, NotLocking DEF Idle
<1>12. ~HoldsMu(r)' /\ ~HoldsAgg(r)' /\ ~HoldsWifi(r)'
  BY <1>6, NotLockingNext
<1> QED
  BY <1>2, <1>7, <1>8, <1>9, <1>10, <1>11, <1>12, ComesOrGoes

\* The answer: a complete export leaves a file that a restore may take.
LEMMA AnswerStep ==
  ASSUME IInv, NEW r \in Slots, Answer(r)
  PROVE  IInv'
<1>1. /\ req[r].op # None /\ req[r].left = << >> /\ UNCHANGED <<device, ops, faults>>
      /\ file' = IF Complete(r)
                 THEN [s \in {t \in req[r].op.want : req[r].out[t] # None} |-> req[r].out[s]]
                 ELSE file
      /\ req' = [req EXCEPT ![r] = Idle] /\ hist' = [hist EXCEPT ![r] = NoHist]
  BY DEF Answer
<1>2. Shape /\ TypeOK /\ Each(r) /\ OpOK(req[r].op)
  BY <1>1, Here
<1>3. /\ req'[r] = Idle /\ \A q \in Slots \ {r} : req'[q] = req[q]
      /\ DOMAIN req' = Slots
  BY <1>1, <1>2 DEF Shape
<1>4. req'[r].op = None /\ req'[r].left = << >> /\ DOMAIN req'[r] = Fields
  BY <1>3 DEF Idle, Fields
<1>5. /\ hist' \in Histories /\ hist'[r].clean = {}
      /\ \A q \in Slots \ {r} : hist'[q] = hist[q]
  BY <1>1, <1>2 DEF Shape, Histories, NoHist
<1>6. Alone(r)
  BY <1>2, <1>3, <1>4 DEF Alone, Shape
<1>7. Each(r)'
  <2>1. ~Restoring(r)' /\ ~Is(r, {"export"})'
    BY <1>4 DEF Restoring, Is
  <2>2. RequestOK(r)' /\ SshOK(r)'
    BY <1>4 DEF RequestOK, SshOK, At, Doing
  <2>3. SeenOK(r)' /\ OutsOK(r)' /\ OrderOK(r)' /\ MidOK(r)' /\ TakesOK(r)'
    BY <1>4, <2>1 DEF SeenOK, OutsOK, OrderOK, MidOK, TakesOK, At, Doing
  <2> QED
    BY <2>2, <2>3 DEF Each
<1>8. FileInv'
  <2>1. CASE ~Complete(r)
    BY <1>1, <2>1 DEF IInv, FileInv
  <2>2. CASE Complete(r)
    <3>1. /\ DOMAIN req[r].out = req[r].op.want /\ DOMAIN req[r].out \subseteq Parts
          /\ \A part \in DOMAIN req[r].out :
                req[r].out[part] = None \/ SectionOK(part, req[r].out[part])
      BY <1>2, <2>2 DEF Complete, Each, OutsOK
    <3> DEFINE given == {t \in req[r].op.want : req[r].out[t] # None}
    <3>2. file' = [s \in given |-> req[r].out[s]]
      BY <1>1, <2>2
    <3>3. given \subseteq Parts /\ \A part \in given : SectionOK(part, req[r].out[part])
      BY <3>1
    <3> HIDE DEF given
    <3>4. DOMAIN file' = given /\ \A part \in given : file'[part] = req[r].out[part]
      BY <3>2
    <3>5. \A part \in given : SectionOK(part, file'[part])
      BY <3>3, <3>4
    <3> QED
      BY <3>3, <3>4, <3>5 DEF FileInv, FileOK
  <2> QED
    BY <2>1, <2>2
<1>9. ops' \in 0..MaxOps
  BY <1>1, <1>2 DEF TypeOK
<1>10. ~HoldsMu(r) /\ ~HoldsAgg(r) /\ ~HoldsWifi(r)
  BY <1>1, NotLocking
<1>11. ~HoldsMu(r)' /\ ~HoldsAgg(r)' /\ ~HoldsWifi(r)'
  BY <1>4, NotLockingNext
<1> QED
  BY <1>1, <1>5, <1>6, <1>7, <1>8, <1>9, <1>10, <1>11, ComesOrGoes

----------------------------------------------------------------------------
\* Steps of nobody's request.

\* Every request is undisturbed, and stays in or out of its locks.
LEMMA AllUndisturbed ==
  ASSUME IInv, \A q \in Slots : Undisturbed(q), UNCHANGED <<mem, files, mu, wifiLock, faults>>,
         TypeOK', Shape', FileInv',
         \A q \in Slots : aggLock' = q <=> aggLock = q,
         aggLock' = "worker" <=> job' # None /\ job'.at = "work"
  PROVE  IInv'
<1>1. \A q \in Slots : Each(q)'
  BY UndisturbedKept DEF IInv
<1>2. ASSUME NEW q \in Slots
      PROVE  /\ HoldsMu(q)' <=> HoldsMu(q)
             /\ HoldsAgg(q)' <=> HoldsAgg(q)
             /\ HoldsWifi(q)' <=> HoldsWifi(q)
             /\ req'[q].op = req[q].op /\ hist'[q].clean \subseteq hist[q].clean
  BY DEF Undisturbed, HoldsMu, HoldsAgg, HoldsWifi, Restoring, Is, At, Doing
<1>3. ASSUME NEW q \in Slots
      PROVE  /\ mu' = q <=> HoldsMu(q)'
             /\ aggLock' = q <=> HoldsAgg(q)'
             /\ wifiLock' = q <=> HoldsWifi(q)'
  BY <1>2 DEF IInv, LockHeld, HoldsMu, HoldsAgg, HoldsWifi
<1>4. LockHeld'
  BY <1>3 DEF LockHeld, HoldsMu, HoldsAgg, HoldsWifi
<1> QED
  BY <1>1, <1>2, <1>4, CalmStep

\* The client that leaves changes nothing else.
LEMMA LeaveStep ==
  ASSUME IInv, NEW r \in Slots, Leave(r)
  PROVE  IInv'
<1>1. /\ req' = [req EXCEPT ![r].gone = TRUE] /\ UNCHANGED <<file, ops, faults, hist>>
      /\ UNCHANGED <<agg, aggLock, job, nets, wifiLock, settings, schema, mem, files, mu, ssh, pw>>
  BY DEF Leave, device, aggVars, netVars, idVars
<1>2. Shape /\ TypeOK /\ LockHeld
  BY DEF IInv
<1>3. /\ DOMAIN req' = Slots /\ \A q \in Slots : DOMAIN req'[q] = Fields
      /\ \A q \in Slots : /\ req'[q].op = req[q].op /\ req'[q].left = req[q].left
                          /\ req'[q].at = req[q].at /\ req'[q].seen = req[q].seen
                          /\ req'[q].todo = req[q].todo /\ req'[q].out = req[q].out
  BY <1>1, <1>2 DEF Shape, Fields
<1>4. Shape' /\ FileInv'
  BY <1>1, <1>2, <1>3 DEF Shape, IInv, FileInv
<1>5. \A q \in Slots : Undisturbed(q)
  BY <1>1, <1>2, <1>3 DEF Undisturbed, Kept, Shape, Histories
<1>6. TypeOK'
  BY <1>1, <1>2 DEF TypeOK
<1> QED
  BY <1>1, <1>2, <1>4, <1>5, <1>6, AllUndisturbed DEF LockHeld

\* No request moves and nothing a restore has promised changes.
LEMMA NobodyMoves ==
  ASSUME IInv, UNCHANGED <<agg, nets, wifiLock, settings, mem, files, mu, ssh, pw, req, file, faults, hist>>,
         schema' \in Schemas \cup {None}, ops' \in 0..MaxOps, job' \in Job \cup {None},
         aggLock' \in Slots \cup {None, "worker"},
         \A q \in Slots : aggLock' = q <=> aggLock = q,
         aggLock' = "worker" <=> job' # None /\ job'.at = "work"
  PROVE  IInv'
<1>1. Shape /\ TypeOK
  BY DEF IInv
<1>2. \A q \in Slots : Undisturbed(q)
  BY <1>1, Unnoticed
<1>3. TypeOK'
  BY <1>1 DEF TypeOK
<1>4. Shape' /\ FileInv'
  BY <1>1 DEF Shape, IInv, FileInv
<1> QED
  BY <1>2, <1>3, <1>4, AllUndisturbed

LEMMA ReloadStep ==
  ASSUME IInv, Reload
  PROVE  IInv'
<1>1. /\ schema' \in Schemas /\ ops < MaxOps /\ ops' = ops + 1
      /\ UNCHANGED <<agg, aggLock, job, nets, wifiLock, settings, mem, files, mu>>
      /\ UNCHANGED <<ssh, pw, req, file, faults, hist>>
  BY DEF Reload, aggVars, netVars, idVars
<1>2. TypeOK /\ LockHeld
  BY DEF IInv
<1>3. ops' \in 0..MaxOps
  BY <1>1, <1>2, BackupAssumption DEF TypeOK, BackupAssumption
<1> QED
  BY <1>1, <1>2, <1>3, NobodyMoves DEF TypeOK, LockHeld

LEMMA StutterStep ==
  ASSUME IInv, UNCHANGED vars
  PROVE  IInv'
<1>1. /\ UNCHANGED <<agg, aggLock, job, nets, wifiLock, settings, schema, mem, files, mu>>
      /\ UNCHANGED <<ssh, pw, req, file, ops, faults, hist>>
  BY DEF vars, device, aggVars, netVars, idVars
<1>2. TypeOK /\ LockHeld
  BY DEF IInv
<1> QED
  BY <1>1, <1>2, NobodyMoves DEF TypeOK, LockHeld

LEMMA workerTakeStep ==
  ASSUME IInv, workerTake
  PROVE  IInv'
<1>1. /\ job # None /\ job.at = "starting" /\ aggLock = None
      /\ aggLock' = "worker" /\ job' = [job EXCEPT !.at = "work"]
      /\ UNCHANGED <<agg, nets, wifiLock, settings, schema, mem, files, mu>>
      /\ UNCHANGED <<ssh, pw, req, file, ops, faults, hist>>
  BY DEF workerTake, netVars, idVars
<1>2. TypeOK
  BY DEF IInv
<1>3. job' \in Job /\ job'.at = "work" /\ job' # None
  <2>1. job \in Job
    BY <1>1, <1>2 DEF TypeOK
  <2>2. job' \in Job /\ job'.at = "work"
    BY <1>1, <2>1 DEF Job
  <2> QED
    BY <2>2, BackupAssumption DEF BackupAssumption
<1>4. schema' \in Schemas \cup {None} /\ ops' \in 0..MaxOps
  BY <1>1, <1>2 DEF TypeOK
<1>5. \A q \in Slots : aggLock' = q <=> aggLock = q
  BY <1>1, LockNames
<1> QED
  BY <1>1, <1>3, <1>4, <1>5, NobodyMoves

LEMMA workerFailsStep ==
  ASSUME IInv, workerFails
  PROVE  IInv'
<1>1. /\ job # None /\ job' = None /\ aggLock' = IF job.at = "work" THEN None ELSE aggLock
      /\ UNCHANGED <<agg, nets, wifiLock, settings, schema, mem, files, mu>>
      /\ UNCHANGED <<ssh, pw, req, file, ops, faults, hist>>
  BY DEF workerFails, netVars, idVars
<1>2. TypeOK /\ (aggLock = "worker" <=> job # None /\ job.at = "work")
  BY DEF IInv, LockHeld
<1>3. schema' \in Schemas \cup {None} /\ ops' \in 0..MaxOps
      /\ aggLock' \in Slots \cup {None, "worker"}
  BY <1>1, <1>2 DEF TypeOK
<1>4. \A q \in Slots : aggLock' = q <=> aggLock = q
  BY <1>1, <1>2, LockNames
<1>5. aggLock' # "worker"
  BY <1>1, <1>2, LockNames
<1> QED
  BY <1>1, <1>3, <1>4, <1>5, NobodyMoves

\* The worker writes under the flock, so that no import is in the middle of one.
LEMMA workerWriteStep ==
  ASSUME IInv, workerWrite
  PROVE  IInv'
<1> DEFINE kept == Kept1(job.fields, Before(job.id).fields)
           choice == IF job.verb = "enable" /\ kept = None THEN Creds \cup {None} ELSE {kept}
           Now(fields) == IF job.verb = "reset" THEN None
                          ELSE [enabled |-> job.verb = "enable" \/ Before(job.id).enabled,
                                mlat |-> job.mlat, fields |-> fields]
           id == job.id
<1>1. /\ job # None /\ job.at = "work" /\ aggLock' = None /\ job' = None
      /\ Writes("worker", "aggregators", {}, {})
      /\ UNCHANGED <<nets, wifiLock, settings, schema, mem, files, mu>>
      /\ UNCHANGED <<ssh, pw, req, file, ops, faults>>
  BY DEF workerWrite, Wrote, netVars, idVars
<1>2. PICK fields \in choice : agg' = [agg EXCEPT ![id] = Now(fields)]
  BY DEF workerWrite
<1>3. /\ TypeOK /\ Shape /\ LockHeld /\ aggLock = "worker" /\ job \in Job /\ id \in Adapters
  BY <1>1, BackupAssumption DEF IInv, LockHeld, TypeOK, Job, BackupAssumption
<1>4. agg' \in [Adapters -> Record \cup {None}]
  <2> DEFINE before == Before(id)
  <2>1. before \in Record
    BY <1>3 DEF Before, Record, TypeOK
  <2>2. before.enabled \in BOOLEAN /\ before.fields \in Creds \cup {None}
    BY <2>1 DEF Record
  <2>3. /\ job.verb \in {"enable", "set", "reset"} /\ job.mlat \in BOOLEAN
        /\ job.fields \in Creds \cup {None}
    BY <1>3 DEF Job
  <2>4. kept \in Creds \cup {None}
    BY <2>2, <2>3 DEF Kept1
  <2>5. fields \in Creds \cup {None}
    BY <2>4
  <2>6. (job.verb = "enable" \/ before.enabled) \in BOOLEAN
    BY <2>2
  <2>7. Now(fields) \in Record \cup {None}
    BY <2>3, <2>5, <2>6 DEF Record
  <2> DEFINE now == Now(fields)
  <2>8. agg' = [agg EXCEPT ![id] = now] /\ now \in Record \cup {None}
    BY <1>2, <2>7
  <2> HIDE DEF now, id
  <2> QED
    BY <1>3, <2>8 DEF TypeOK
<1>5. Written("worker", "aggregators", {}, {})
  BY <1>1, <1>3, WritesEffect DEF Parts
<1>6. \A q \in Slots : q # "worker" /\ ~HoldsAgg(q)
  BY <1>3, LockNames, NoImport
<1>7. \A q \in Slots : /\ "aggregators" \notin hist'[q].clean /\ hist'[q].clean \subseteq hist[q].clean
                       /\ hist[q].stored \subseteq hist'[q].stored
                       /\ hist'[q].excused = hist[q].excused /\ hist'[q].clean \subseteq Parts
  BY <1>5, <1>6 DEF Written, Histories
<1>8. \A part \in Parts \ {"aggregators"} : Kept(part)
  BY <1>1 DEF Kept
<1>9. \A q \in Slots : Undisturbed(q)
  BY <1>1, <1>6, <1>7, <1>8 DEF Undisturbed
<1>10. TypeOK'
  BY <1>1, <1>3, <1>4 DEF TypeOK
<1>11. Shape' /\ FileInv'
  BY <1>1, <1>3, <1>5 DEF Shape, Written, IInv, FileInv
<1>12. \A q \in Slots : aggLock' = q <=> aggLock = q
  BY <1>1, <1>3, LockNames
<1>13. aggLock' # "worker"
  BY <1>1, LockNames
<1> QED
  BY <1>1, <1>9, <1>10, <1>11, <1>12, <1>13, AllUndisturbed

----------------------------------------------------------------------------
\* The invariant is inductive.

LEMMA InitIInv ==
  ASSUME Init
  PROVE  IInv
<1>1. /\ agg \in [Adapters -> Record \cup {None}] /\ nets \in [NetIds -> Bodies \cup {None}]
      /\ files \in [uuid : Uuids, claim : Secrets \cup {None}] /\ files.uuid = Uuid0 /\ files.claim = None
      /\ settings \in [Keys -> Values] /\ pw \in Hashes \cup {None} /\ ssh \subseteq Ways
      /\ schema \in Schemas \cup {None}
      /\ ops \in 0..MaxOps /\ faults \in 0..MaxFaults
  BY BackupAssumption DEF Init, BackupAssumption
<1>2. mem \in Identity /\ mem.uuid = Uuid0 /\ mem.claim = None
  BY BackupAssumption DEF Init, BackupAssumption, Identity
<1>3. TypeOK
  BY <1>1, <1>2 DEF TypeOK, Init
<1>4. /\ \A r \in Slots : /\ req[r].op = None /\ req[r].left = << >>
                          /\ DOMAIN req[r] = Fields
      /\ DOMAIN req = Slots
  BY DEF Init, Idle, Fields
<1>5. Shape
  BY <1>4 DEF Shape, Init, NoHist, Histories
<1>6. ASSUME NEW r \in Slots
      PROVE  Each(r) /\ ~HoldsMu(r) /\ ~HoldsAgg(r) /\ ~HoldsWifi(r)
  <2>1. ~Restoring(r) /\ ~Is(r, {"export"})
    BY <1>4 DEF Restoring, Is
  <2>2. RequestOK(r) /\ SshOK(r)
    BY <1>4 DEF RequestOK, SshOK, At, Doing
  <2>3. SeenOK(r) /\ OutsOK(r) /\ OrderOK(r) /\ MidOK(r) /\ TakesOK(r)
    BY <1>4, <2>1 DEF SeenOK, OutsOK, OrderOK, MidOK, TakesOK, At, Doing
  <2>4. Each(r)
    BY <2>2, <2>3 DEF Each
  <2> QED
    BY <1>4, <2>4, NotLocking
<1>7. mu = None /\ aggLock = None /\ wifiLock = None /\ job = None
  BY DEF Init
<1>8. LockHeld /\ ImportOK
  BY <1>6, <1>7, LockNames DEF LockHeld, ImportOK, HoldsMu, HoldsAgg, HoldsWifi
<1>9. FilesOK /\ FileInv
  BY <1>1, <1>2 DEF Init, FilesOK, FileInv
<1> QED
  BY <1>3, <1>5, <1>6, <1>8, <1>9 DEF IInv

LEMMA RestoreStep ==
  ASSUME IInv, NEW r \in Slots, Restore(r)
  PROVE  IInv'
<1>1. Restoring(r)
  BY DEF Restore
<1>2. CASE RestoreAbsent(r)
  BY <1>2, RestoreAbsentStep
<1>3. CASE RestoreFails(r)
  BY <1>3, RestoreFailsStep
<1>4. CASE restoreSettings(r)
  BY <1>4, restoreSettingsStep
<1>5. CASE applyConfigLocked(r)
  BY <1>5, applyConfigLockedStep
<1>6. CASE restoreIdentity(r)
  BY <1>6, restoreIdentityStep
<1>7. CASE restoreClaim(r)
  BY <1>7, restoreClaimStep
<1>8. CASE restoreAggregators(r)
  BY <1>8, restoreAggregatorsStep
<1>9. CASE aggImport(r)
  BY <1>9, aggImportStep
<1>10. CASE restoreWifi(r)
  BY <1>10, restoreWifiStep
<1>11. CASE wifiImport(r)
  BY <1>11, wifiImportStep
<1>12. CASE restorePasswordReplace(r)
  BY <1>12, restorePasswordReplaceStep
<1>13. CASE handleBackupRestoreSetup(r)
  BY <1>1, <1>13, handleBackupRestoreSetupStep
<1>14. CASE restoreSetup(r)
  BY <1>14, restoreSetupStep
<1> QED
  BY <1>2, <1>3, <1>4, <1>5, <1>6, <1>7, <1>8, <1>9, <1>10, <1>11, <1>12, <1>13, <1>14
     DEF Restore

LEMMA OtherStep ==
  ASSUME IInv, NEW r \in Slots, Other(r)
  PROVE  IInv'
<1>1. CASE reauthAndForward(r)
  BY <1>1, reauthStep
<1>2. CASE sshCmd(r)
  BY <1>2, sshCmdStep
<1>3. CASE aggMutate(r)
  BY <1>3, aggMutateStep
<1>4. CASE wifiBegin(r)
  BY <1>4, wifiBeginStep
<1>5. CASE wifiWork(r)
  BY <1>5, wifiWorkStep
<1>6. CASE wifiEnd(r)
  BY <1>6, wifiEndStep
<1>7. CASE claimCmd(r)
  BY <1>7, claimCmdStep
<1>8. CASE handleConfigPost(r)
  BY <1>8, handleConfigPostStep
<1>9. CASE handleChangePassword(r)
  BY <1>9, handleChangePasswordStep
<1> QED
  BY <1>1, <1>2, <1>3, <1>4, <1>5, <1>6, <1>7, <1>8, <1>9 DEF Other

LEMMA NextIInv ==
  ASSUME IInv, [Next]_vars
  PROVE  IInv'
<1>1. CASE UNCHANGED vars
  BY <1>1, StutterStep
<1>2. CASE Worker
  BY <1>2, workerTakeStep, workerWriteStep, workerFailsStep DEF Worker
<1>3. CASE Reload
  BY <1>3, ReloadStep
<1>4. ASSUME NEW r \in Slots, Start(r) \/ Leave(r)
      PROVE  IInv'
  BY <1>4, StartStep, LeaveStep
<1>5. ASSUME NEW r \in Slots, Step(r)
      PROVE  IInv'
  <2>1. CASE ExportFails(r)
    BY <2>1, ExportFailsStep
  <2>2. CASE Export(r)
    BY <2>2, ExportStep
  <2>3. CASE exportWifi(r)
    BY <2>3, exportWifiStep
  <2>4. CASE ExportIdentity(r)
    BY <2>4, ExportIdentityStep
  <2>5. CASE Restore(r)
    BY <2>5, RestoreStep
  <2>6. CASE Other(r)
    BY <2>6, OtherStep
  <2>7. CASE Answer(r)
    BY <2>7, AnswerStep
  <2> QED
    BY <1>5, <2>1, <2>2, <2>3, <2>4, <2>5, <2>6, <2>7 DEF Step
<1> QED
  BY <1>1, <1>2, <1>3, <1>4, <1>5 DEF Next

\* Whatever requests overlap, whichever step fails and wherever a helper dies, the device
\* and the requests satisfy the inductive invariant: what each request holds in hand, what
\* it has reported and what it still has to do fit the device (backup_handlers.go,
\* apl-aggregator, apl-wifi).
THEOREM BackupInductive == Spec => []IInv
<1>1. Init => IInv
  BY InitIInv
<1>2. IInv /\ [Next]_vars => IInv'
  BY NextIInv
<1> QED
  BY <1>1, <1>2, PTL DEF Spec

\* Types, files that tell the identity the device has unless an import is between its
\* writes or something failed, and each of the three locks held by exactly the request, or
\* the worker, that is in the middle of a change.
THEOREM BackupSafe == Spec => []BackupInv
<1>1. IInv => BackupInv
  <2> SUFFICES ASSUME IInv, mu = None, faults = 0
               PROVE  files = [uuid |-> mem.uuid, claim |-> mem.claim]
    BY DEF IInv, BackupInv, FilesFollow
  <2>1. files.uuid = mem.uuid /\ files.claim = mem.claim
    BY DEF IInv, FilesOK
  <2>2. files = [uuid |-> files.uuid, claim |-> files.claim]
    BY DEF IInv, TypeOK
  <2> QED
    BY <2>1, <2>2
<1> QED
  BY <1>1, BackupInductive, PTL

\* A section a restore reports applied is on the device, but for the keys no schema let it
\* write and the networks it left or could not write, unless another request or the worker
\* has changed that part since the restore came to it: for every number of requests that
\* overlap, and of failures.
THEOREM RestoreTaken == Spec => []RestoreTakes
<1>1. IInv => RestoreTakes
  BY DEF IInv, Each, TakesOK, RestoreTakes
<1> QED
  BY <1>1, BackupInductive, PTL

\* Who writes the aggregators, and who the SSH settings.
LEMMA AggOnly ==
  ASSUME [Next]_vars, agg' # agg
  PROVE  workerWrite \/ \E r \in Slots : aggImport(r) \/ aggMutate(r)
<1>1. ASSUME NEW r \in Slots, Restore(r), ~aggImport(r)
      PROVE  agg' = agg
  <2>1. RestoreAbsent(r) \/ RestoreFails(r) \/ restoreSettings(r) \/ applyConfigLocked(r)
            \/ handleBackupRestoreSetup(r) => agg' = agg
    BY DEF RestoreAbsent, RestoreFails, restoreSettings, applyConfigLocked,
       handleBackupRestoreSetup, device, aggVars
  <2>2. restoreIdentity(r) \/ restoreClaim(r) \/ restoreAggregators(r) => agg' = agg
    BY DEF restoreIdentity, restoreClaim, restoreAggregators, aggVars
  <2>3. restoreWifi(r) \/ wifiImport(r) \/ restorePasswordReplace(r) \/ restoreSetup(r) => agg' = agg
    BY DEF restoreWifi, wifiImport, restorePasswordReplace, restoreSetup, aggVars
  <2> QED
    BY <1>1, <2>1, <2>2, <2>3 DEF Restore
<1>2. ASSUME NEW r \in Slots, Other(r), ~aggMutate(r)
      PROVE  agg' = agg
  <2>1. reauthAndForward(r) \/ sshCmd(r) \/ wifiBegin(r) \/ wifiWork(r) \/ wifiEnd(r) => agg' = agg
    BY DEF reauthAndForward, sshCmd, wifiBegin, wifiWork, wifiEnd, device, aggVars
  <2>2. claimCmd(r) \/ handleConfigPost(r) \/ handleChangePassword(r) => agg' = agg
    BY DEF claimCmd, handleConfigPost, handleChangePassword, aggVars
  <2> QED
    BY <1>2, <2>1, <2>2 DEF Other
<1>3. ASSUME NEW r \in Slots, Start(r) \/ Leave(r) \/ Answer(r)
      PROVE  agg' = agg
  BY <1>3 DEF Start, Leave, Answer, device, aggVars
<1>4. ASSUME NEW r \in Slots, ExportFails(r) \/ Export(r) \/ exportWifi(r) \/ ExportIdentity(r)
      PROVE  agg' = agg
  BY <1>4 DEF ExportFails, Export, exportWifi, ExportIdentity, device, aggVars
<1>5. workerTake \/ workerFails \/ Reload \/ UNCHANGED vars => agg' = agg
  BY DEF workerTake, workerFails, Reload, vars, device, aggVars
<1> QED
  BY <1>1, <1>2, <1>3, <1>4, <1>5 DEF Next, Step, Worker

LEMMA SshOnly ==
  ASSUME [Next]_vars, ssh' # ssh
  PROVE  \E r \in Slots : sshCmd(r)
<1>1. ASSUME NEW r \in Slots, Restore(r)
      PROVE  ssh' = ssh
  <2>1. RestoreAbsent(r) \/ RestoreFails(r) \/ restoreSettings(r) \/ applyConfigLocked(r)
            \/ handleBackupRestoreSetup(r) => ssh' = ssh
    BY DEF RestoreAbsent, RestoreFails, restoreSettings, applyConfigLocked,
       handleBackupRestoreSetup, device
  <2>2. restoreIdentity(r) \/ restoreClaim(r) \/ restoreAggregators(r) \/ aggImport(r) => ssh' = ssh
    BY DEF restoreIdentity, restoreClaim, restoreAggregators, aggImport
  <2>3. restoreWifi(r) \/ wifiImport(r) \/ restorePasswordReplace(r) \/ restoreSetup(r) => ssh' = ssh
    BY DEF restoreWifi, wifiImport, restorePasswordReplace, restoreSetup
  <2> QED
    BY <1>1, <2>1, <2>2, <2>3 DEF Restore
<1>2. ASSUME NEW r \in Slots, Other(r), ~sshCmd(r)
      PROVE  ssh' = ssh
  <2>1. reauthAndForward(r) \/ aggMutate(r) \/ wifiBegin(r) \/ wifiWork(r) \/ wifiEnd(r) => ssh' = ssh
    BY DEF reauthAndForward, aggMutate, wifiBegin, wifiWork, wifiEnd, device
  <2>2. claimCmd(r) \/ handleConfigPost(r) \/ handleChangePassword(r) => ssh' = ssh
    BY DEF claimCmd, handleConfigPost, handleChangePassword
  <2> QED
    BY <1>2, <2>1, <2>2 DEF Other
<1>3. ASSUME NEW r \in Slots, Start(r) \/ Leave(r) \/ Answer(r)
      PROVE  ssh' = ssh
  BY <1>3 DEF Start, Leave, Answer, device
<1>4. ASSUME NEW r \in Slots, ExportFails(r) \/ Export(r) \/ exportWifi(r) \/ ExportIdentity(r)
      PROVE  ssh' = ssh
  BY <1>4 DEF ExportFails, Export, exportWifi, ExportIdentity, device
<1>5. Worker \/ Reload \/ UNCHANGED vars => ssh' = ssh
  BY DEF Worker, workerTake, workerWrite, workerFails, Reload, vars, device
<1> QED
  BY <1>1, <1>2, <1>3, <1>4, <1>5 DEF Next, Step

\* A restore never changes an aggregator that is enabled, although workers enable them
\* beside it: it has the flock from its checks to its last write.
THEOREM EnabledUntouched == Spec => EnabledKept
<1>1. ASSUME IInv, [Next]_vars, NEW r \in Slots, NEW id \in Adapters,
             Restoring(r), req'[r] # req[r], Enabled(id)
      PROVE  agg'[id] = agg[id]
  <2> SUFFICES ASSUME agg' # agg PROVE agg'[id] = agg[id]
    OBVIOUS
  <2>1. Shape
    BY <1>1 DEF IInv
  <2>2. ~workerWrite
    BY <1>1 DEF workerWrite
  <2>3. ASSUME NEW q \in Slots, aggMutate(q)
        PROVE  FALSE
    <3>1. Doing(q, "aggregator") /\ \E status : Next1(q, status)
      BY <2>3 DEF aggMutate
    <3>2. q # r
      BY <1>1, <3>1, KindOf
    <3> QED
      BY <1>1, <2>1, <3>1, <3>2, Next1Effect DEF Alone
  <2>4. ASSUME NEW q \in Slots, aggImport(q)
        PROVE  agg'[id] = agg[id]
    <3> DEFINE s == Section(q, "aggregators")
               next == First(req[q].todo)
    <3>1. /\ Restoring(q) /\ At(q, "aggregators", "write")
          /\ (\E status : Next1(q, status)) \/ (\E todo : Mid(q, "write", None, todo))
          /\ agg' = [agg EXCEPT ![next] = [enabled |-> FALSE, mlat |-> s[next].mlat,
                                           fields |-> s[next].fields]]
      BY <2>4 DEF aggImport
    <3>2. q = r
      BY <1>1, <2>1, <3>1, Next1Effect, MidEffect DEF Alone
    <3>3. /\ req[q].todo \subseteq DOMAIN s /\ req[q].todo # {}
          /\ \A other \in DOMAIN s : ~Enabled(other)
      BY <1>1, <3>1 DEF IInv, Each, SeenOK, MidOK
    <3>4. next \in DOMAIN s
      BY <3>3 DEF First
    <3>5. next # id
      BY <1>1, <3>3, <3>4
    <3> QED
      BY <1>1, <3>1, <3>5 DEF IInv, TypeOK
  <2> QED
    BY <1>1, <2>2, <2>3, <2>4, AggOnly
<1>2. IInv /\ [Next]_vars =>
        [\A r \in Slots, id \in Adapters :
            Restoring(r) /\ req'[r] # req[r] /\ Enabled(id) => agg'[id] = agg[id]]_vars
  BY <1>1
<1> QED
  BY <1>2, BackupInductive, PTL DEF Spec, EnabledKept

\* SSH access is changed only for a request whose password was the stored one at some moment
\* since it came in, however often the password changed between the check and the helper.
THEOREM SshByPassword == Spec => SshAuthorised
<1>1. ASSUME IInv, [Next]_vars, ssh' # ssh
      PROVE  \E r \in Slots : /\ At(r, "ssh", "helper") /\ ~At(r, "ssh", "helper")'
                              /\ req[r].op.password \in hist[r].stored
  <2>1. PICK r \in Slots : sshCmd(r)
    BY <1>1, SshOnly
  <2>2. At(r, "ssh", "helper") /\ (\E status : Next1(r, status)) /\ Shape
    BY <1>1, <2>1 DEF sshCmd, IInv
  <2>3. req'[r].at = "begin"
    BY <2>2, Next1Effect DEF Advances
  <2>4. ~At(r, "ssh", "helper")'
    BY <2>3 DEF At
  <2>5. req[r].op.password \in hist[r].stored
    BY <1>1, <2>2 DEF IInv, Each, SshOK
  <2> QED
    BY <2>2, <2>4, <2>5
<1>2. IInv /\ [Next]_vars =>
        [ssh' # ssh => \E r \in Slots : /\ At(r, "ssh", "helper") /\ ~At(r, "ssh", "helper")'
                                        /\ req[r].op.password \in hist[r].stored]_vars
  BY <1>1
<1> QED
  BY <1>2, BackupInductive, PTL DEF Spec, SshAuthorised
=============================================================================
