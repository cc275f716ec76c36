----------------------------- MODULE AplWifiProofs -----------------------------
(***************************************************************************)
(* What apl-wifi keeps of its promises for every set of invocations,       *)
(* networks, flash-time profiles and keyfile contents.                     *)
(***************************************************************************)
EXTENDS AplWifi, TLAPS

Flow == {"cand", "load", "up", "teardown"}
Adopting == {"awrite", "aload", "aup", "adel", "arollback"}

\* Which network an invocation works on.
Fit(r) ==
    /\ r.op \in {"add", "update", "delete", "adopt"} => r.id \in Saveable
    /\ r.op = "test" => r.id = TestId
    /\ r.pc \in {"write", "commit"} => r.op \in {"add", "update"}
    /\ r.pc \in Flow => r.op \in {"add", "update", "test"}
    /\ r.pc \in {"down", "rm"} => r.op = "delete"
    /\ r.pc \in Adopting => r.op = "adopt"
    /\ r.op = "adopt" => r.from \in Foreign /\ r.body = FlashBody

DataOK ==
    /\ disk \in [Ids -> Keyfile \cup {None}]
    /\ snaps \in [Ids -> Keyfile \cup {None}]
    /\ nm \subseteq Conns
    /\ lock \in Helpers \cup {None}
    /\ promised \in [Conns -> Keyfile \cup {None}]
    /\ torn \subseteq Conns

HelpersOK ==
    /\ h \in [Helpers -> Invocation]
    /\ \A p \in Helpers : Fit(h[p])

TypeInv == DataOK /\ HelpersOK

\* Networks being made have not been promised yet.
Making(p) ==
    (\/ h[p].pc \in Flow \cup {"write", "commit"} /\ h[p].op \in {"add", "test"}
     \/ h[p].pc \in Adopting)
    => h[p].id \in TestSlugs \/ promised[h[p].id] = None

\* The adopted keyfile stands from the moment it is written.
Standing(p) ==
    h[p].pc \in {"aload", "aup", "adel"} /\ h[p].id \notin TestSlugs
        => disk[h[p].id] = Saved(FlashBody)

\* What is not on disk is not promised.
GoneIsGone ==
    /\ \A i \in Ids \ TestSlugs : disk[i] = None => promised[i] = None
    /\ promised[TestId] = None

Safe ==
    /\ LockAlive
    /\ PromiseKept
    /\ SnapshotHeld
    /\ GoneIsGone
    /\ \A p \in Helpers : Making(p) /\ Standing(p)

IInv == TypeInv /\ Safe

USE AplWifiAssumption

---------------------------------------------------------------------------
LEMMA IdleFits ==
    ASSUME NEW pc \in {"idle", "lock", "exit", "unlock"}
    PROVE  [Idle EXCEPT !.pc = pc] \in Invocation /\ Fit([Idle EXCEPT !.pc = pc])
BY DEF Idle, Invocation, Pc, Locked, Fit, Flow, Adopting

LEMMA IdleIs == Idle \in Invocation /\ Fit(Idle)
BY DEF Idle, Invocation, Pc, Locked, Fit, Flow, Adopting

\* What an invocation's record says of its fields.
LEMMA Fields ==
    ASSUME HelpersOK, NEW p \in Helpers
    PROVE  /\ h[p] \in Invocation /\ Fit(h[p])
           /\ h[p].pc \in Pc
           /\ h[p].id \in Conns \cup {None}
           /\ h[p].from \in Foreign \cup {None}
           /\ h[p].body \in Bodies
           /\ h[p].todo \subseteq Saveable
<1>1. h[p] \in Invocation /\ Fit(h[p])
  BY DEF HelpersOK
<1> QED BY <1>1 DEF Invocation

\* One invocation's record is replaced by one that fits.
LEMMA Replaced ==
    ASSUME HelpersOK, NEW p \in Helpers, NEW r \in Invocation, Fit(r),
           h' = [h EXCEPT ![p] = r]
    PROVE  HelpersOK' /\ h'[p] = r /\ \A q \in Helpers \ {p} : h'[q] = h[q]
<1>1. h' \in [Helpers -> Invocation]
  BY DEF HelpersOK
<1>2. \A q \in Helpers : h'[q] = IF q = p THEN r ELSE h[q]
  BY DEF HelpersOK
<1> QED BY <1>1, <1>2 DEF HelpersOK, Fit

LEMMA Going ==
    ASSUME HelpersOK, NEW p \in Helpers, NEW there \in Pc, Goto(p, there)
    PROVE  /\ h' = [h EXCEPT ![p] = [h[p] EXCEPT !.pc = there]]
           /\ [h[p] EXCEPT !.pc = there] \in Invocation
<1>1. h[p] \in Invocation
  BY Fields
<1>2. [h[p] EXCEPT !.pc = there] \in Invocation
  BY <1>1 DEF Invocation
<1> QED BY <1>2 DEF Goto, HelpersOK

\* p's record moves on, or ends; the others stay.
Others(p) == HelpersOK' /\ \A q \in Helpers \ {p} : h'[q] = h[q]

Moved(p, there) ==
    /\ Others(p)
    /\ h'[p].pc = there
    /\ h'[p].op = h[p].op /\ h'[p].id = h[p].id /\ h'[p].from = h[p].from
    /\ h'[p].body = h[p].body /\ h'[p].todo = h[p].todo

Ended(p, there) ==
    Others(p) /\ h'[p].pc = there /\ h'[p].op = "other" /\ h'[p].id = None

LEMMA Ending ==
    ASSUME HelpersOK, NEW p \in Helpers, NEW there \in {"exit", "unlock"}, Ends(p, there)
    PROVE  Ended(p, there)
<1>1. Others(p) /\ h'[p] = [Idle EXCEPT !.pc = there]
  BY IdleFits, Replaced DEF Ends, Others
<1> QED BY <1>1 DEF Ended, Idle

LEMMA Moving ==
    ASSUME HelpersOK, NEW p \in Helpers, NEW there \in Pc, Goto(p, there),
           there \in {"write", "commit"} => h[p].op \in {"add", "update"},
           there \in Flow => h[p].op \in {"add", "update", "test"},
           there \in {"down", "rm"} => h[p].op = "delete",
           there \in Adopting => h[p].op = "adopt"
    PROVE  Moved(p, there)
<1> DEFINE r == [h[p] EXCEPT !.pc = there]
<1>1. h' = [h EXCEPT ![p] = r] /\ r \in Invocation
  BY Going
<1>2. h[p] \in Invocation /\ Fit(h[p])
  BY Fields
<1>3. /\ r.pc = there /\ r.op = h[p].op /\ r.id = h[p].id /\ r.from = h[p].from
      /\ r.body = h[p].body /\ r.todo = h[p].todo
  BY <1>2 DEF Invocation
<1> HIDE DEF r
<1>4. Fit(r)
  BY <1>2, <1>3 DEF Fit
<1>5. Others(p) /\ h'[p] = r
  BY <1>1, <1>4, Replaced DEF Others
<1> QED BY <1>3, <1>5 DEF Moved

---------------------------------------------------------------------------
(***************************************************************************)
(* The step of an invocation that holds the lock, or takes it, touches the *)
(* networks S only: it keeps the invariant if it leaves those settled, or  *)
(* in hand, and its own record in order.                                   *)
(***************************************************************************)
LEMMA Frame ==
    ASSUME IInv, NEW p \in Helpers, NEW S \in SUBSET Conns,
           lock \in {p, None},
           lock = p /\ h[p].pc \in Rewriting => h[p].id \in S,
           lock' = p, Others(p), h'[p].pc \in Locked \cup {"exit"},
           \A c \in Conns \ S : /\ promised'[c] = promised[c]
                                /\ c \in torn => c \in torn'
                                /\ Stands(c)' = Stands(c),
           \A c \in S \ TestSlugs :
               InHand(c)' \/ c \in torn' \/ Stands(c)' = promised'[c],
           \A c \in (S \cap Ids) \ TestSlugs : disk'[c] = None => promised'[c] = None,
           promised'[TestId] = None,
           LET r == h'[p]
           IN  /\ r.op = "update"
               /\ r.pc \in {"write", "cand", "load", "up", "commit", "teardown"}
               /\ r.id \notin TestSlugs
               => r.id \in torn' \/ (snaps'[r.id] # None /\ snaps'[r.id] = promised'[r.id]),
           Making(p)', Standing(p)'
    PROVE  Safe'
<1> USE DEF IInv, TypeInv
<1>1. \A q \in Helpers \ {p} : h'[q] = h[q] /\ h'[q].pc \notin Locked /\ q # lock'
  BY DEF Others, Safe, LockAlive
<1>2. LockAlive'
  BY <1>1 DEF LockAlive
<1>3. PromiseKept'
  <2> SUFFICES ASSUME NEW c \in Conns \ TestSlugs, c \notin S
               PROVE  InHand(c)' \/ c \in torn' \/ Stands(c)' = promised'[c]
    BY DEF PromiseKept
  <2>1. ~InHand(c)
    BY DEF InHand, DataOK
  <2> QED BY <2>1 DEF Safe, PromiseKept
<1>4. SnapshotHeld'
  BY <1>1 DEF SnapshotHeld, Locked
<1>5. GoneIsGone'
  BY DEF GoneIsGone, Safe, Stands, Conns, Ids
<1>6. \A q \in Helpers : Making(q)' /\ Standing(q)'
  BY <1>1 DEF Making, Standing, Locked, Flow, Adopting
<1> QED BY <1>2, <1>3, <1>4, <1>5, <1>6 DEF Safe

LEMMA Holding ==
    ASSUME IInv, NEW p \in Helpers, h[p].pc \in Locked
    PROVE  lock = p
BY DEF IInv, Safe, LockAlive

LEMMA Files ==
    /\ None \notin Keyfile
    /\ \A b \in Bodies : Saved(b) \in Keyfile /\ Candidate(b) \in Keyfile
BY DEF Keyfile, Saved, Candidate

\* The command is over.
LEMMA Finish ==
    ASSUME IInv, NEW p \in Helpers, NEW S \in SUBSET Conns,
           NEW there \in {"exit", "unlock"}, Ends(p, there),
           lock \in {p, None}, lock' = p,
           lock = p /\ h[p].pc \in Rewriting => h[p].id \in S,
           DataOK',
           \A c \in Conns \ S : /\ promised'[c] = promised[c]
                                /\ c \in torn => c \in torn'
                                /\ Stands(c)' = Stands(c),
           \A c \in S \ TestSlugs :
               /\ c \in torn' \/ Stands(c)' = promised'[c]
               /\ c \in Ids /\ disk'[c] = None => promised'[c] = None,
           promised'[TestId] = None
    PROVE  IInv'
<1>1. HelpersOK
  BY DEF IInv, TypeInv
<1>2. Ended(p, there)
  BY <1>1, Ending
<1>3. Others(p) /\ HelpersOK' /\ h'[p].pc \in Locked \cup {"exit"}
  BY <1>2 DEF Ended, Others, Locked
<1>4. h'[p].op = "other" /\ Making(p)' /\ Standing(p)'
  BY <1>2 DEF Ended, Making, Standing, Flow, Adopting
<1>5. Safe'
  BY <1>3, <1>4, Frame
<1> QED BY <1>3, <1>5 DEF IInv, TypeInv

\* It is over and nothing has changed.
LEMMA GivingUp ==
    ASSUME IInv, NEW p \in Helpers, NEW there \in {"exit", "unlock"}, Ends(p, there),
           lock \in {p, None}, lock' = p,
           lock = p => h[p].pc \notin Rewriting,
           UNCHANGED <<disk, nm, book>>, snaps' \in [Ids -> Keyfile \cup {None}]
    PROVE  IInv'
<1>1. DataOK'
  BY DEF IInv, TypeInv, DataOK, book
<1>2. promised'[TestId] = None
  BY DEF IInv, Safe, GoneIsGone, book
<1>3. \A c \in Conns : /\ promised'[c] = promised[c]
                       /\ c \in torn => c \in torn'
                       /\ Stands(c)' = Stands(c)
  BY DEF Stands, book
<1> QED BY <1>1, <1>2, <1>3, Finish

\* It goes on, with nothing settled and nothing rolled back.
LEMMA Working ==
    ASSUME IInv, NEW p \in Helpers, NEW there \in Locked, Moved(p, there),
           h[p].pc \in Locked, h[p].pc \in Rewriting => there \in Rewriting,
           UNCHANGED <<snaps, lock, promised>>, DataOK',
           \A c \in Conns : c \in torn => c \in torn',
           \A c \in Conns : \/ c = h[p].id /\ there \in Rewriting
                            \/ c \in torn'
                            \/ Stands(c)' = Stands(c),
           \A c \in Ids \ TestSlugs : disk'[c] = None => promised[c] = None,
           there \in Flow \cup {"write", "commit"}
               => h[p].pc \in Flow \cup {"write", "commit"},
           there \in Adopting => h[p].pc \in Adopting,
           Standing(p)'
    PROVE  IInv'
<1> DEFINE S == {c \in Conns : c = h[p].id \/ c \in torn'}
<1>1. HelpersOK' /\ Others(p) /\ h'[p].pc = there /\ h'[p].op = h[p].op /\ h'[p].id = h[p].id
  BY DEF Moved, Others
<1>2. lock = p /\ lock' = p
  BY Holding
<1>3. promised'[TestId] = None
  BY DEF IInv, Safe, GoneIsGone
<1>4. Making(p)
  BY DEF IInv, Safe
<1>5. Making(p)'
  BY <1>1, <1>4 DEF Making
<1>6. \A c \in S \ TestSlugs : InHand(c)' \/ c \in torn' \/ Stands(c)' = promised'[c]
  <2> SUFFICES ASSUME NEW c \in S \ TestSlugs, c \notin torn'
               PROVE  InHand(c)' \/ Stands(c)' = promised'[c]
    OBVIOUS
  <2>1. lock' # None
    BY <1>2
  <2>2. CASE there \in Rewriting
    BY <1>1, <1>2, <2>1, <2>2 DEF InHand
  <2>3. CASE there \notin Rewriting
    <3>1. ~InHand(c) /\ Stands(c)' = Stands(c)
      BY <1>2, <2>3 DEF InHand
    <3> QED BY <3>1 DEF IInv, Safe, PromiseKept
  <2> QED BY <2>2, <2>3
<1>7. LET r == h'[p]
      IN  /\ r.op = "update"
          /\ r.pc \in {"write", "cand", "load", "up", "commit", "teardown"}
          /\ r.id \notin TestSlugs
          => r.id \in torn' \/ (snaps'[r.id] # None /\ snaps'[r.id] = promised'[r.id])
  <2> SUFFICES ASSUME h[p].op = "update", h[p].id \notin TestSlugs, h[p].id \notin torn',
                      there \in {"write", "cand", "load", "up", "commit", "teardown"}
               PROVE  snaps[h[p].id] # None /\ snaps[h[p].id] = promised[h[p].id]
    BY <1>1
  <2>1. h[p].pc \in {"write", "cand", "load", "up", "commit", "teardown"}
    BY DEF Flow
  <2>2. h[p].id \notin torn
    BY Fields DEF IInv, TypeInv, DataOK
  <2> QED BY <2>1, <2>2 DEF IInv, Safe, SnapshotHeld
<1>8. \A c \in Conns \ S : /\ promised'[c] = promised[c]
                           /\ c \in torn => c \in torn'
                           /\ Stands(c)' = Stands(c)
  OBVIOUS
<1>9. \A c \in (S \cap Ids) \ TestSlugs : disk'[c] = None => promised'[c] = None
  OBVIOUS
<1>10. /\ lock = p /\ h[p].pc \in Rewriting => h[p].id \in S
       /\ S \in SUBSET Conns
       /\ h'[p].pc \in Locked
  <2>1. h[p].pc \in Rewriting => h[p].id \in Conns
    BY Fields DEF IInv, TypeInv, Fit, Rewriting, Flow, Adopting, Conns, Ids, Saveable
  <2> QED BY <1>1, <2>1
<1> HIDE DEF S
<1>11. Safe'
  BY <1>1, <1>2, <1>3, <1>5, <1>6, <1>7, <1>8, <1>9, <1>10, Frame
<1> QED BY <1>1, <1>11 DEF IInv, TypeInv

---------------------------------------------------------------------------
LEMMA WriteKeeps ==
    ASSUME IInv, NEW p \in Helpers, Write(p)
    PROVE  IInv'
<1>1. HelpersOK /\ DataOK
  BY DEF IInv, TypeInv
<1>2. lock = p /\ lock' = p /\ h[p].pc \notin Rewriting
  BY Holding DEF Write, At, Locked, Rewriting
<1>3. PICK i \in Saveable : i = h[p].id
  BY <1>1, Fields DEF Write, At, Fit
<1> h[p].body \in Bodies
  BY <1>1, Fields
<1>4. CASE Ends(p, "exit") /\ UNCHANGED <<files, nm, book>>
  BY <1>1, <1>2, <1>4, GivingUp DEF files, DataOK
<1>5. CASE /\ disk' = [disk EXCEPT ![i] = Saved(h[p].body)]
           /\ snaps' = IF h[p].op = "update" THEN [snaps EXCEPT ![i] = None] ELSE snaps
           /\ nm' \in {nm, nm \cup {i}}
           /\ Settle(i, Saved(h[p].body))
           /\ Ends(p, "unlock")
  <2>1. i \in Ids /\ i \in Conns /\ {i} \in SUBSET Conns /\ i # TestId /\ Saved(h[p].body) \in Keyfile
    BY <1>3, Files DEF Ids, Conns, Saveable
  <2>2. DataOK'
    BY <1>1, <1>2, <1>5, <2>1 DEF DataOK, Settle
  <2>3. \A c \in Conns \ {i} : /\ promised'[c] = promised[c]
                               /\ c \in torn => c \in torn'
                               /\ Stands(c)' = Stands(c)
    BY <1>1, <1>5, <2>1 DEF DataOK, Settle, Stands
  <2>4. \A c \in {i} \ TestSlugs :
            /\ c \in torn' \/ Stands(c)' = promised'[c]
            /\ c \in Ids /\ disk'[c] = None => promised'[c] = None
    BY <1>1, <1>5, <2>1 DEF DataOK, Settle, Stands
  <2>5. promised'[TestId] = None
    BY <2>1, <2>3 DEF IInv, Safe, GoneIsGone, Conns, Ids
  <2> QED BY <1>2, <1>5, <2>1, <2>2, <2>3, <2>4, <2>5, Finish
<1> QED BY <1>3, <1>4, <1>5 DEF Write

LEMMA WriteCandidateKeeps ==
    ASSUME IInv, NEW p \in Helpers, WriteCandidate(p)
    PROVE  IInv'
<1>1. HelpersOK /\ DataOK
  BY DEF IInv, TypeInv
<1>2. lock = p /\ lock' = p /\ h[p].pc = "cand"
  BY Holding DEF WriteCandidate, At, Locked
<1>3. PICK i \in Saveable \cup {TestId} : i = h[p].id
  BY <1>1, <1>2, Fields DEF Fit, Flow
<1> h[p].body \in Bodies /\ i \in Ids
  BY <1>1, <1>3, Fields DEF Ids, Saveable
<1>4. CASE Ends(p, "exit") /\ UNCHANGED disk
  BY <1>1, <1>2, <1>4, GivingUp DEF WriteCandidate, DataOK, book, Rewriting
<1>5. CASE disk' = [disk EXCEPT ![i] = Candidate(h[p].body)] /\ Goto(p, "load")
  <2>1. UNCHANGED <<snaps, nm, lock, promised, torn>>
    BY DEF WriteCandidate, book
  <2>2. DataOK'
    BY <1>1, <1>5, <2>1, Files DEF DataOK
  <2>3. Moved(p, "load")
    BY <1>1, <1>2, <1>5, Moving, Fields DEF Fit, Flow, Adopting, Pc, Locked
  <2>4. \A c \in Conns : c = h[p].id \/ Stands(c)' = Stands(c)
    BY <1>1, <1>3, <1>5, <2>1 DEF Stands, DataOK
  <2>5. \A c \in Ids \ TestSlugs : disk'[c] = None => promised[c] = None
    BY <1>1, <1>5, Files DEF IInv, Safe, GoneIsGone, DataOK
  <2>6. Standing(p)'
    <3>1. h'[p].op # "adopt"
      BY <1>1, <1>2, <2>3, Fields DEF Moved, Fit, Flow
    <3> QED BY <3>1, <2>3 DEF Moved, Standing, Others, HelpersOK, Fit, Adopting
  <2> QED BY <1>2, <2>1, <2>2, <2>3, <2>4, <2>5, <2>6, Working
          DEF Rewriting, Flow, Adopting, Locked
<1> QED BY <1>3, <1>4, <1>5 DEF WriteCandidate

\* Dropping a keyfile that was never promised.
LEMMA Unwriting ==
    ASSUME IInv, NEW p \in Helpers, NEW i \in Ids, i = h[p].id, Making(p),
           \/ h[p].pc \in Flow /\ h[p].op \in {"add", "test"}
           \/ h[p].pc \in Adopting,
           NEW there \in {"exit", "unlock"}, Ends(p, there),
           Unwrite(i), nm' \in {nm, nm \ {i}}, UNCHANGED <<snaps, lock>>
    PROVE  IInv'
<1>1. DataOK
  BY DEF IInv, TypeInv
<1>2. lock = p /\ lock' = p
  BY Holding DEF Locked, Flow, Adopting
<1>3. i \in TestSlugs \/ promised[i] = None
  BY DEF Making
<1>4. DataOK'
  BY <1>1, <1>2 DEF DataOK, Unwrite, Tear, Conns
<1>5. promised'[TestId] = None /\ UNCHANGED promised
  BY DEF IInv, Safe, GoneIsGone, Unwrite, Tear
<1>6. \A c \in Conns \ {i} : /\ promised'[c] = promised[c]
                             /\ c \in torn => c \in torn'
                             /\ Stands(c)' = Stands(c)
  BY <1>1, <1>5 DEF DataOK, Unwrite, Tear, Stands
<1>7. \A c \in {i} \ TestSlugs :
          /\ c \in torn' \/ Stands(c)' = promised'[c]
          /\ c \in Ids /\ disk'[c] = None => promised'[c] = None
  BY <1>1, <1>3, <1>5 DEF DataOK, Unwrite, Tear, Stands
<1>8. {i} \in SUBSET Conns
  BY DEF Conns
<1> QED BY <1>2, <1>4, <1>5, <1>6, <1>7, <1>8, Finish

LEMMA LoadCandidateKeeps ==
    ASSUME IInv, NEW p \in Helpers, LoadCandidate(p)
    PROVE  IInv'
<1>1. HelpersOK /\ DataOK
  BY DEF IInv, TypeInv
<1>2. lock = p /\ lock' = p /\ h[p].pc = "load"
  BY Holding DEF LoadCandidate, At, Locked
<1>3. PICK i \in Saveable \cup {TestId} : i = h[p].id
  BY <1>1, <1>2, Fields DEF Fit, Flow
<1> i \in Ids /\ i \in Conns /\ {i} \in SUBSET Conns
  BY DEF Ids, Saveable, Conns
<1>4. CASE nm' = nm \cup {i} /\ Goto(p, "up") /\ UNCHANGED <<disk, book>>
  <2>1. UNCHANGED <<disk, snaps, lock, promised, torn>>
    BY <1>4 DEF LoadCandidate, book
  <2>2. DataOK'
    BY <1>1, <1>4, <2>1 DEF DataOK
  <2>3. Moved(p, "up")
    BY <1>1, <1>2, <1>4, Moving, Fields DEF Fit, Flow, Adopting, Pc, Locked
  <2>4. \A c \in Conns : Stands(c)' = Stands(c)
    BY <1>1, <1>4, <2>1 DEF Stands
  <2>5. \A c \in Ids \ TestSlugs : disk'[c] = None => promised[c] = None
    BY <2>1 DEF IInv, Safe, GoneIsGone
  <2>6. Standing(p)'
    <3>1. h'[p].op # "adopt"
      BY <1>1, <1>2, <2>3, Fields DEF Moved, Fit, Flow
    <3> QED BY <3>1, <2>3 DEF Moved, Standing, Others, HelpersOK, Fit, Adopting
  <2> QED BY <1>2, <2>1, <2>2, <2>3, <2>4, <2>5, <2>6, Working
          DEF Rewriting, Flow, Adopting, Locked
<1>5. CASE h[p].op = "test" /\ Unwrite(i) /\ Ends(p, "exit") /\ UNCHANGED nm
  <2>1. Making(p)
    BY DEF IInv, Safe
  <2> QED BY <1>2, <1>3, <1>5, <2>1, Unwriting DEF LoadCandidate, Flow
<1>6. CASE Tear(i) /\ UNCHANGED <<disk, nm>> /\ Ends(p, "exit")
  <2>1. UNCHANGED <<disk, snaps, nm, lock, promised>> /\ torn' = torn \cup {i}
    BY <1>6 DEF LoadCandidate, Tear
  <2>2. DataOK'
    BY <1>1, <2>1 DEF DataOK
  <2>3. \A c \in Conns : Stands(c)' = Stands(c)
    BY <2>1 DEF Stands
  <2>4. promised'[TestId] = None /\ \A c \in Ids \ TestSlugs : disk'[c] = None => promised'[c] = None
    BY <2>1 DEF IInv, Safe, GoneIsGone
  <2> QED BY <1>2, <1>3, <1>6, <2>1, <2>2, <2>3, <2>4, Finish
<1> QED BY <1>3, <1>4, <1>5, <1>6 DEF LoadCandidate

LEMMA TestUpKeeps ==
    ASSUME IInv, NEW p \in Helpers, TestUp(p)
    PROVE  IInv'
<1>1. HelpersOK /\ DataOK
  BY DEF IInv, TypeInv
<1>2. lock = p /\ lock' = p /\ h[p].pc = "up" /\ UNCHANGED <<disk, snaps, nm, promised>>
  BY Holding DEF TestUp, At, Locked, files, Tear, book
<1>3. PICK i \in Saveable \cup {TestId} : i = h[p].id
  BY <1>1, <1>2, Fields DEF Fit, Flow
<1>4. h[p].op \in {"add", "update", "test"} /\ h[p] \in Invocation /\ Fit(h[p])
  BY <1>1, <1>2, Fields DEF Fit, Flow
<1> i \in Ids /\ i \in Conns /\ {i} \in SUBSET Conns
  BY DEF Ids, Saveable, Conns
<1>5. /\ \A c \in Conns : Stands(c)' = Stands(c)
      /\ promised'[TestId] = None
      /\ \A c \in Ids \ TestSlugs : disk'[c] = None => promised'[c] = None
  BY <1>2 DEF IInv, Safe, GoneIsGone, Stands
<1>6. CASE Ends(p, "exit") /\ Tear(i)
  <2>1. DataOK'
    BY <1>1, <1>2, <1>6 DEF DataOK, Tear
  <2> QED BY <1>2, <1>3, <1>5, <1>6, <2>1, Finish DEF Tear
<1>7. ASSUME NEW there \in {"commit", "teardown"}, NEW f \in BOOLEAN, UNCHANGED book,
             there = "commit" => h[p].op # "test",
             h' = [h EXCEPT ![p] = [h[p] EXCEPT !.pc = there, !.flag = f]]
      PROVE  IInv'
  <2> DEFINE r == [h[p] EXCEPT !.pc = there, !.flag = f]
  <2>1. /\ r.pc = there /\ r.op = h[p].op /\ r.id = h[p].id /\ r.from = h[p].from
        /\ r.body = h[p].body /\ r.todo = h[p].todo
        /\ r \in Invocation
    BY <1>4 DEF Invocation, Pc, Locked
  <2>2. h' = [h EXCEPT ![p] = r]
    BY <1>7
  <2> HIDE DEF r
  <2>3. Fit(r)
    BY <1>4, <1>7, <2>1 DEF Fit, Flow, Adopting
  <2>4. Moved(p, there)
    <3>1. Others(p) /\ h'[p] = r
      BY <1>1, <2>1, <2>2, <2>3, Replaced DEF Others
    <3> QED BY <2>1, <3>1 DEF Moved
  <2>5. DataOK' /\ UNCHANGED torn
    BY <1>1, <1>2, <1>7 DEF DataOK, book
  <2>6. Standing(p)'
    BY <2>4 DEF Moved, Standing
  <2> QED BY <1>2, <1>5, <2>4, <2>5, <2>6, Working DEF Rewriting, Flow, Adopting, Locked
<1>8. h[p].flag \in BOOLEAN
  BY <1>4 DEF Invocation
<1>9. CASE /\ h' = [h EXCEPT ![p].pc = IF h[p].op = "test" THEN "teardown" ELSE "commit",
                            ![p].flag = (h[p].op = "test")]
           /\ UNCHANGED book
  <2> DEFINE there == IF h[p].op = "test" THEN "teardown" ELSE "commit"
  <2>1. h' = [h EXCEPT ![p] = [h[p] EXCEPT !.pc = there, !.flag = (h[p].op = "test")]]
    BY <1>1, <1>9 DEF HelpersOK
  <2> QED BY <1>7, <1>9, <2>1
<1>10. CASE h' = [h EXCEPT ![p].pc = "teardown"] /\ UNCHANGED book
  <2>1. h' = [h EXCEPT ![p] = [h[p] EXCEPT !.pc = "teardown", !.flag = h[p].flag]]
    BY <1>1, <1>4, <1>10 DEF HelpersOK, Invocation
  <2> QED BY <1>7, <1>8, <1>10, <2>1
<1> QED BY <1>3, <1>6, <1>9, <1>10 DEF TestUp

LEMMA CommitKeeps ==
    ASSUME IInv, NEW p \in Helpers, Commit(p)
    PROVE  IInv'
<1>1. HelpersOK /\ DataOK
  BY DEF IInv, TypeInv
<1>2. lock = p /\ lock' = p /\ h[p].pc = "commit" /\ UNCHANGED nm
  BY Holding DEF Commit, At, Locked
<1>3. PICK i \in Saveable : i = h[p].id
  BY <1>1, <1>2, Fields DEF Fit
<1> /\ i \in Ids /\ i \in Conns /\ {i} \in SUBSET Conns /\ i # TestId
    /\ h[p].body \in Bodies /\ Saved(h[p].body) \in Keyfile
  BY <1>1, <1>3, Fields, Files DEF Ids, Saveable, Conns
<1>4. CASE Ends(p, "exit") /\ Tear(i) /\ UNCHANGED files
  <2>1. UNCHANGED <<disk, snaps, nm, lock, promised>> /\ torn' = torn \cup {i}
    BY <1>2, <1>4 DEF Tear, files
  <2>2. DataOK'
    BY <1>1, <2>1 DEF DataOK
  <2>3. /\ \A c \in Conns : Stands(c)' = Stands(c)
        /\ promised'[TestId] = None
        /\ \A c \in Ids \ TestSlugs : disk'[c] = None => promised'[c] = None
    BY <2>1 DEF IInv, Safe, GoneIsGone, Stands
  <2> QED BY <1>2, <1>3, <1>4, <2>1, <2>2, <2>3, Finish
<1>5. ASSUME NEW there \in {"exit", "unlock"}, Ends(p, there),
             disk' = [disk EXCEPT ![i] = Saved(h[p].body)],
             Settle(i, Saved(h[p].body)),
             snaps' = snaps \/ snaps' = [snaps EXCEPT ![i] = None]
      PROVE  IInv'
  <2>1. DataOK'
    BY <1>1, <1>2, <1>5 DEF DataOK, Settle
  <2>2. \A c \in Conns \ {i} : /\ promised'[c] = promised[c]
                               /\ c \in torn => c \in torn'
                               /\ Stands(c)' = Stands(c)
    BY <1>1, <1>2, <1>5 DEF DataOK, Settle, Stands
  <2>3. \A c \in {i} \ TestSlugs :
            /\ c \in torn' \/ Stands(c)' = promised'[c]
            /\ c \in Ids /\ disk'[c] = None => promised'[c] = None
    BY <1>1, <1>5 DEF DataOK, Settle, Stands
  <2>4. promised'[TestId] = None
    BY <2>2 DEF IInv, Safe, GoneIsGone, Conns, Ids
  <2> QED BY <1>2, <1>3, <1>5, <2>1, <2>2, <2>3, <2>4, Finish
<1> QED BY <1>3, <1>4, <1>5 DEF Commit

LEMMA TeardownNewKeeps ==
    ASSUME IInv, NEW p \in Helpers, TeardownNew(p)
    PROVE  IInv'
<1>1. HelpersOK
  BY DEF IInv, TypeInv
<1>2. h[p].pc = "teardown" /\ h[p].op \in {"add", "test"}
  BY DEF TeardownNew, At
<1>3. PICK i \in Ids : i = h[p].id
  BY <1>1, <1>2, Fields DEF Fit, Ids, Saveable
<1>4. Making(p)
  BY DEF IInv, Safe
<1>5. PICK there \in {"exit", "unlock"} : Ends(p, there)
  BY DEF TeardownNew
<1> QED BY <1>2, <1>3, <1>4, <1>5, Unwriting DEF TeardownNew, Flow

LEMMA TeardownUpdateKeeps ==
    ASSUME IInv, NEW p \in Helpers, TeardownUpdate(p)
    PROVE  IInv'
<1>1. HelpersOK /\ DataOK
  BY DEF IInv, TypeInv
<1>2. /\ lock = p /\ lock' = p /\ h[p].pc = "teardown" /\ h[p].op = "update"
      /\ UNCHANGED <<nm, promised>> /\ Ends(p, "exit")
  BY Holding DEF TeardownUpdate, At, Locked, book, Tear
<1>3. PICK i \in Saveable : i = h[p].id
  BY <1>1, <1>2, Fields DEF Fit
<1> i \in Ids /\ i \in Conns /\ {i} \in SUBSET Conns
  BY DEF Ids, Saveable, Conns
<1>4. i \in TestSlugs \/ i \in torn \/ (snaps[i] # None /\ snaps[i] = promised[i])
  BY <1>2, <1>3 DEF IInv, Safe, SnapshotHeld
<1>5. \/ /\ snaps[i] # None
         /\ disk' = [disk EXCEPT ![i] = snaps[i]]
         /\ snaps' = [snaps EXCEPT ![i] = None]
         /\ UNCHANGED torn
      \/ UNCHANGED <<disk, snaps, torn>> /\ snaps[i] = None
      \/ UNCHANGED <<disk, snaps>> /\ torn' = torn \cup {i}
  BY <1>3 DEF TeardownUpdate, Restore, files, book, Tear
<1>6. DataOK'
  BY <1>1, <1>2, <1>5 DEF DataOK
<1>7. \A c \in Conns \ {i} : /\ promised'[c] = promised[c]
                             /\ c \in torn => c \in torn'
                             /\ Stands(c)' = Stands(c)
  BY <1>1, <1>2, <1>5 DEF DataOK, Stands
<1>8. promised'[TestId] = None
  BY <1>2 DEF IInv, Safe, GoneIsGone
<1>9. \A c \in {i} \ TestSlugs :
          /\ c \in torn' \/ Stands(c)' = promised'[c]
          /\ c \in Ids /\ disk'[c] = None => promised'[c] = None
  BY <1>1, <1>2, <1>4, <1>5 DEF DataOK, Stands, IInv, Safe, GoneIsGone
<1> QED BY <1>2, <1>3, <1>6, <1>7, <1>8, <1>9, Finish

LEMMA DeleteDownKeeps ==
    ASSUME IInv, NEW p \in Helpers, DeleteDown(p)
    PROVE  IInv'
<1>1. HelpersOK /\ DataOK
  BY DEF IInv, TypeInv
<1>2. h[p].pc = "down" /\ UNCHANGED <<disk, snaps, lock, promised, torn>>
  BY DEF DeleteDown, At, files, book
<1>3. PICK i \in Saveable : i = h[p].id
  BY <1>1, <1>2, Fields DEF Fit
<1>4. nm' \in {nm, nm \ {i}} /\ Goto(p, "rm") /\ i \in Ids /\ i \in Conns
  BY <1>3 DEF DeleteDown, Ids, Saveable, Conns
<1>5. DataOK'
  BY <1>1, <1>2, <1>4 DEF DataOK
<1>6. Moved(p, "rm")
  BY <1>1, <1>2, <1>4, Moving, Fields DEF Fit, Flow, Adopting, Pc, Locked
<1>7. \A c \in Conns : Stands(c)' = Stands(c)
  BY <1>1, <1>2, <1>4 DEF Stands
<1>8. \A c \in Ids \ TestSlugs : disk'[c] = None => promised[c] = None
  BY <1>2 DEF IInv, Safe, GoneIsGone
<1>9. Standing(p)'
  BY <1>6 DEF Moved, Standing
<1> QED BY <1>2, <1>5, <1>6, <1>7, <1>8, <1>9, Working
        DEF Rewriting, Flow, Adopting, Locked

LEMMA DeleteFileKeeps ==
    ASSUME IInv, NEW p \in Helpers, DeleteFile(p)
    PROVE  IInv'
<1>1. HelpersOK /\ DataOK
  BY DEF IInv, TypeInv
<1>2. /\ lock = p /\ lock' = p /\ h[p].pc = "rm" /\ h[p].pc \notin Rewriting
      /\ UNCHANGED snaps
  BY Holding DEF DeleteFile, At, Locked, Rewriting
<1>3. PICK i \in Saveable : i = h[p].id
  BY <1>1, <1>2, Fields DEF Fit
<1> i \in Ids /\ i \in Conns /\ {i} \in SUBSET Conns /\ i # TestId
  BY DEF Ids, Saveable, Conns
<1>4. CASE Ends(p, "exit") /\ UNCHANGED <<disk, nm, book>>
  BY <1>1, <1>2, <1>4, GivingUp DEF DataOK
<1>5. CASE /\ disk' = [disk EXCEPT ![i] = None]
           /\ nm' \in {nm, nm \ {i}}
           /\ Settle(i, None)
           /\ Ends(p, "unlock")
  <2>1. DataOK'
    BY <1>1, <1>2, <1>5 DEF DataOK, Settle
  <2>2. \A c \in Conns \ {i} : /\ promised'[c] = promised[c]
                               /\ c \in torn => c \in torn'
                               /\ Stands(c)' = Stands(c)
    BY <1>1, <1>5 DEF DataOK, Settle, Stands
  <2>3. \A c \in {i} \ TestSlugs :
            /\ c \in torn' \/ Stands(c)' = promised'[c]
            /\ c \in Ids /\ disk'[c] = None => promised'[c] = None
    BY <1>1, <1>5 DEF DataOK, Settle, Stands
  <2>4. promised'[TestId] = None
    BY <2>2 DEF IInv, Safe, GoneIsGone, Conns, Ids
  <2> QED BY <1>2, <1>5, <2>1, <2>2, <2>3, <2>4, Finish
<1> QED BY <1>3, <1>4, <1>5 DEF DeleteFile

LEMMA ActivateUpKeeps ==
    ASSUME IInv, NEW p \in Helpers, ActivateUp(p)
    PROVE  IInv'
<1>1. /\ lock = p /\ lock' = p /\ h[p].pc \notin Rewriting
      /\ UNCHANGED <<disk, nm, book>> /\ snaps' = snaps
  BY Holding DEF ActivateUp, At, Locked, Rewriting, files
<1>2. PICK there \in {"exit", "unlock"} : Ends(p, there)
  BY DEF ActivateUp
<1> QED BY <1>1, <1>2, GivingUp DEF IInv, TypeInv, DataOK

LEMMA ImportDoneKeeps ==
    ASSUME IInv, NEW p \in Helpers, ImportDone(p)
    PROVE  IInv'
<1>1. /\ lock = p /\ lock' = p /\ h[p].pc \notin Rewriting
      /\ UNCHANGED <<disk, nm, book>> /\ snaps' = snaps /\ Ends(p, "unlock")
  BY Holding DEF ImportDone, At, Locked, Rewriting, files
<1> QED BY <1>1, GivingUp DEF IInv, TypeInv, DataOK

LEMMA ImportOneKeeps ==
    ASSUME IInv, NEW p \in Helpers, ImportOne(p)
    PROVE  IInv'
<1>1. HelpersOK /\ DataOK
  BY DEF IInv, TypeInv
<1>2. PICK i \in h[p].todo :
          /\ At(p, "each")
          /\ h' = [h EXCEPT ![p].todo = @ \ {i}]
          /\ \/ /\ disk' = [disk EXCEPT ![i] = Saved(h[p].body)]
                /\ nm' \in {nm, nm \cup {i}}
                /\ Settle(i, Saved(h[p].body))
             \/ UNCHANGED <<disk, nm, book>>
          /\ UNCHANGED <<snaps, lock>>
  BY DEF ImportOne
<1>3. lock = p /\ lock' = p /\ h[p].pc = "each" /\ h[p].pc \notin Rewriting
  BY <1>2, Holding DEF At, Locked, Rewriting
<1> /\ i \in Saveable /\ h[p].body \in Bodies /\ Saved(h[p].body) \in Keyfile
    /\ i \in Ids /\ i \in Conns /\ {i} \in SUBSET Conns /\ i # TestId
  BY <1>1, Fields, Files DEF Ids, Saveable, Conns
<1> DEFINE r == [h[p] EXCEPT !.todo = @ \ {i}]
<1>4. /\ r \in Invocation /\ r.pc = h[p].pc /\ r.op = h[p].op /\ r.id = h[p].id
      /\ r.from = h[p].from /\ r.body = h[p].body
  <2>1. h[p] \in Invocation
    BY <1>1, Fields
  <2> QED BY <2>1 DEF Invocation
<1>5. h' = [h EXCEPT ![p] = r]
  BY <1>1, <1>2 DEF HelpersOK
<1> HIDE DEF r
<1>6. Fit(r)
  BY <1>1, <1>4, Fields DEF Fit
<1>7. Others(p) /\ h'[p] = r
  BY <1>1, <1>4, <1>5, <1>6, Replaced DEF Others
<1>8. h'[p].pc = "each" /\ HelpersOK' /\ Others(p) /\ Making(p)' /\ Standing(p)'
  BY <1>3, <1>4, <1>7 DEF Making, Standing, Flow, Adopting, Others
<1>9. DataOK'
  BY <1>1, <1>2, <1>3 DEF DataOK, Settle, book
<1>10. \A c \in Conns \ {i} : /\ promised'[c] = promised[c]
                              /\ c \in torn => c \in torn'
                              /\ Stands(c)' = Stands(c)
  BY <1>1, <1>2 DEF DataOK, Settle, Stands, book
<1>11. promised'[TestId] = None
  BY <1>10 DEF IInv, Safe, GoneIsGone, Conns, Ids
<1>12. \A c \in {i} \ TestSlugs :
           /\ c \in torn' \/ Stands(c)' = promised'[c]
           /\ c \in Ids /\ disk'[c] = None => promised'[c] = None
  <2>1. CASE UNCHANGED <<disk, nm, book>>
    <3>1. ~InHand(i)
      BY <1>3 DEF InHand
    <3> QED BY <2>1, <3>1 DEF IInv, Safe, PromiseKept, GoneIsGone, Stands, book
  <2>2. CASE disk' = [disk EXCEPT ![i] = Saved(h[p].body)] /\ Settle(i, Saved(h[p].body))
    BY <1>1, <2>2 DEF DataOK, Settle, Stands
  <2> QED BY <1>2, <2>1, <2>2
<1>13. Safe'
  BY <1>3, <1>8, <1>10, <1>11, <1>12, Frame DEF Locked
<1> QED BY <1>8, <1>9, <1>13 DEF IInv, TypeInv

---------------------------------------------------------------------------
LEMMA AdoptWriteKeeps ==
    ASSUME IInv, NEW p \in Helpers, AdoptWrite(p)
    PROVE  IInv'
<1>1. HelpersOK /\ DataOK
  BY DEF IInv, TypeInv
<1>2. /\ lock = p /\ lock' = p /\ h[p].pc = "awrite"
      /\ UNCHANGED <<snaps, nm, lock, promised, torn>>
  BY Holding DEF AdoptWrite, At, Locked, book
<1>3. PICK i \in Saveable : i = h[p].id
  BY <1>1, <1>2, Fields DEF Fit, Adopting
<1> h[p].body \in Bodies /\ h[p].body = FlashBody /\ i \in Ids
  BY <1>1, <1>2, <1>3, Fields DEF Ids, Saveable, Fit, Adopting
<1>4. CASE Ends(p, "exit") /\ UNCHANGED disk
  BY <1>1, <1>2, <1>4, GivingUp DEF DataOK, book, Rewriting
<1>5. CASE disk' = [disk EXCEPT ![i] = Saved(h[p].body)] /\ Goto(p, "aload")
  <2>1. DataOK'
    BY <1>1, <1>2, <1>5, Files DEF DataOK
  <2>2. Moved(p, "aload")
    BY <1>1, <1>2, <1>5, Moving, Fields DEF Fit, Flow, Adopting, Pc, Locked
  <2>3. \A c \in Conns : c = h[p].id \/ Stands(c)' = Stands(c)
    BY <1>1, <1>2, <1>3, <1>5 DEF Stands, DataOK
  <2>4. \A c \in Ids \ TestSlugs : disk'[c] = None => promised[c] = None
    BY <1>1, <1>5, Files DEF IInv, Safe, GoneIsGone, DataOK
  <2>5. Standing(p)'
    BY <1>1, <1>3, <1>5, <2>2 DEF Moved, Standing, DataOK
  <2> QED BY <1>2, <2>1, <2>2, <2>3, <2>4, <2>5, Working
          DEF Rewriting, Flow, Adopting, Locked
<1> QED BY <1>3, <1>4, <1>5 DEF AdoptWrite

LEMMA AdoptLoadKeeps ==
    ASSUME IInv, NEW p \in Helpers, AdoptLoad(p)
    PROVE  IInv'
<1>1. HelpersOK /\ DataOK
  BY DEF IInv, TypeInv
<1>2. lock = p /\ lock' = p /\ h[p].pc = "aload" /\ UNCHANGED <<snaps, lock>>
  BY Holding DEF AdoptLoad, At, Locked
<1>3. PICK i \in Saveable : i = h[p].id
  BY <1>1, <1>2, Fields DEF Fit, Adopting
<1> i \in Ids /\ i \in Conns
  BY DEF Ids, Saveable, Conns
<1>4. CASE Unwrite(i) /\ Ends(p, "exit") /\ UNCHANGED nm
  <2>1. Making(p)
    BY DEF IInv, Safe
  <2> QED BY <1>2, <1>3, <1>4, <2>1, Unwriting DEF Adopting
<1>5. ASSUME nm' = nm \cup {i}, UNCHANGED <<disk, book>>,
             NEW there \in {"aup", "adel"}, Goto(p, there)
      PROVE  IInv'
  <2>1. UNCHANGED <<disk, snaps, lock, promised, torn>>
    BY <1>2, <1>5 DEF book
  <2>2. DataOK'
    BY <1>1, <1>5, <2>1 DEF DataOK
  <2>3. Moved(p, there)
    BY <1>1, <1>2, <1>5, Moving, Fields DEF Fit, Flow, Adopting, Pc, Locked
  <2>4. \A c \in Conns : Stands(c)' = Stands(c)
    BY <1>1, <1>5, <2>1 DEF Stands
  <2>5. \A c \in Ids \ TestSlugs : disk'[c] = None => promised[c] = None
    BY <2>1 DEF IInv, Safe, GoneIsGone
  <2>6. Standing(p)'
    BY <1>2, <2>1, <2>3 DEF Moved, Standing, IInv, Safe
  <2> QED BY <1>2, <2>1, <2>2, <2>3, <2>4, <2>5, <2>6, Working
          DEF Rewriting, Flow, Adopting, Locked
<1> QED BY <1>3, <1>4, <1>5 DEF AdoptLoad

LEMMA AdoptUpKeeps ==
    ASSUME IInv, NEW p \in Helpers, AdoptUp(p)
    PROVE  IInv'
<1>1. HelpersOK /\ DataOK
  BY DEF IInv, TypeInv
<1>2. h[p].pc = "aup" /\ UNCHANGED <<disk, snaps, nm, lock, promised, torn>>
  BY DEF AdoptUp, At, files, book
<1>3. PICK there \in {"adel", "arollback"} : Goto(p, there)
  BY DEF AdoptUp
<1>4. DataOK'
  BY <1>1, <1>2 DEF DataOK
<1>5. Moved(p, there)
  BY <1>1, <1>2, <1>3, Moving, Fields DEF Fit, Flow, Adopting, Pc, Locked
<1>6. \A c \in Conns : Stands(c)' = Stands(c)
  BY <1>2 DEF Stands
<1>7. \A c \in Ids \ TestSlugs : disk'[c] = None => promised[c] = None
  BY <1>2 DEF IInv, Safe, GoneIsGone
<1>8. Standing(p)'
  BY <1>2, <1>5 DEF Moved, Standing, IInv, Safe
<1> QED BY <1>2, <1>4, <1>5, <1>6, <1>7, <1>8, Working
        DEF Rewriting, Flow, Adopting, Locked

LEMMA AdoptDeleteKeeps ==
    ASSUME IInv, NEW p \in Helpers, AdoptDelete(p)
    PROVE  IInv'
<1>1. HelpersOK /\ DataOK
  BY DEF IInv, TypeInv
<1>2. lock = p /\ lock' = p /\ h[p].pc = "adel" /\ UNCHANGED <<disk, snaps, lock>>
  BY Holding DEF AdoptDelete, At, Locked, files
<1>3. PICK i \in Saveable, f \in Foreign :
          i = h[p].id /\ f = h[p].from /\ h[p].body = FlashBody
  BY <1>1, <1>2, Fields DEF Fit, Adopting
<1> /\ i \in Ids /\ i \in Conns /\ f \in Conns /\ f \notin Ids /\ i # TestId /\ f # TestId
    /\ Saved(FlashBody) \in Keyfile
  BY <1>3, Files DEF Ids, Saveable, Conns
<1>4. i \in TestSlugs \/ disk[i] = Saved(FlashBody)
  BY <1>2, <1>3 DEF IInv, Safe, Standing
<1>5. CASE /\ nm' = nm \ {f}
           /\ promised' = [promised EXCEPT ![f] = None, ![i] = Saved(h[p].body)]
           /\ torn' = torn \ {i, f}
           /\ Ends(p, "unlock")
  <2> DEFINE S == {i, f}
  <2>1. DataOK'
    BY <1>1, <1>2, <1>3, <1>5 DEF DataOK
  <2>2. \A c \in Conns \ S : /\ promised'[c] = promised[c]
                             /\ c \in torn => c \in torn'
                             /\ Stands(c)' = Stands(c)
    BY <1>1, <1>2, <1>5 DEF DataOK, Stands
  <2>3. promised'[i] = Saved(FlashBody) /\ promised'[f] = None
    BY <1>1, <1>3, <1>5 DEF DataOK
  <2>4. \A c \in S \ TestSlugs :
            /\ c \in torn' \/ Stands(c)' = promised'[c]
            /\ c \in Ids /\ disk'[c] = None => promised'[c] = None
    BY <1>2, <1>4, <1>5, <2>3, Files DEF Stands
  <2>5. promised'[TestId] = None
    BY <2>2 DEF IInv, Safe, GoneIsGone, Conns, Ids
  <2>6. h[p].id \in S /\ S \in SUBSET Conns
    BY <1>3
  <2> QED BY <1>2, <1>5, <2>1, <2>2, <2>4, <2>5, <2>6, Finish
<1>6. CASE /\ UNCHANGED <<nm, book>> \/ (nm' = nm \ {f} /\ Tear(f))
           /\ Goto(p, "arollback")
  <2>1. UNCHANGED promised /\ \A c \in Conns : c \in torn => c \in torn'
    BY <1>6 DEF book, Tear
  <2>2. DataOK'
    BY <1>1, <1>2, <1>6 DEF DataOK, book, Tear
  <2>3. Moved(p, "arollback")
    BY <1>1, <1>2, <1>6, Moving, Fields DEF Fit, Flow, Adopting, Pc, Locked
  <2>4. \A c \in Conns : c \in torn' \/ Stands(c)' = Stands(c)
    BY <1>2, <1>6 DEF Stands, Tear
  <2>5. \A c \in Ids \ TestSlugs : disk'[c] = None => promised[c] = None
    BY <1>2 DEF IInv, Safe, GoneIsGone
  <2>6. Standing(p)'
    BY <2>3 DEF Moved, Standing
  <2> QED BY <1>2, <2>1, <2>2, <2>3, <2>4, <2>5, <2>6, Working
          DEF Rewriting, Flow, Adopting, Locked
<1> QED BY <1>3, <1>5, <1>6 DEF AdoptDelete

LEMMA AdoptRollbackKeeps ==
    ASSUME IInv, NEW p \in Helpers, AdoptRollback(p)
    PROVE  IInv'
<1>1. HelpersOK
  BY DEF IInv, TypeInv
<1>2. h[p].pc = "arollback" /\ Ends(p, "exit") /\ UNCHANGED <<snaps, lock>>
  BY DEF AdoptRollback, At
<1>3. PICK i \in Ids : i = h[p].id
  BY <1>1, <1>2, Fields DEF Fit, Ids, Saveable, Adopting
<1>4. Making(p)
  BY DEF IInv, Safe
<1> QED BY <1>2, <1>3, <1>4, Unwriting DEF AdoptRollback, Adopting

---------------------------------------------------------------------------
\* A command takes the lock and has everything before it.
LEMMA Taking ==
    ASSUME IInv, NEW p \in Helpers, Takes(p),
           NEW r \in Invocation, Fit(r), h' = [h EXCEPT ![p] = r],
           r.pc \in Locked \ Rewriting, r.pc # "adel",
           UNCHANGED <<disk, nm, book>>, snaps' \in [Ids -> Keyfile \cup {None}],
           r.op = "update" /\ r.id \notin TestSlugs
               => r.id \in torn \/ (snaps'[r.id] # None /\ snaps'[r.id] = promised[r.id]),
           r.op \in {"add", "test", "adopt"}
               => r.id \in TestSlugs \/ promised[r.id] = None
    PROVE  IInv'
<1>1. HelpersOK /\ DataOK
  BY DEF IInv, TypeInv
<1>2. lock = None /\ lock' = p
  BY DEF Takes
<1>3. HelpersOK' /\ h'[p] = r /\ Others(p)
  BY <1>1, Replaced DEF Others
<1>4. DataOK'
  BY <1>1, <1>2 DEF DataOK, book
<1>5. promised'[TestId] = None
  BY DEF IInv, Safe, GoneIsGone, book
<1>6. \A c \in Conns : /\ promised'[c] = promised[c]
                       /\ c \in torn => c \in torn'
                       /\ Stands(c)' = Stands(c)
  BY DEF Stands, book
<1>7. Standing(p)'
  BY <1>3 DEF Standing, Rewriting
<1>8. r.pc \in Adopting => r.op = "adopt"
  BY DEF Fit
<1>9. Making(p)'
  BY <1>3, <1>8 DEF Making, book
<1>10. LET s == h'[p]
       IN  /\ s.op = "update"
           /\ s.pc \in {"write", "cand", "load", "up", "commit", "teardown"}
           /\ s.id \notin TestSlugs
           => s.id \in torn' \/ (snaps'[s.id] # None /\ snaps'[s.id] = promised'[s.id])
  BY <1>3 DEF book
<1>11. h'[p].pc \in Locked \cup {"exit"}
  BY <1>3
<1>12. lock \in {p, None} /\ lock # p
  BY <1>2
<1>13. Safe'
  BY <1>2, <1>3, <1>5, <1>6, <1>7, <1>9, <1>10, <1>11, <1>12, Frame
<1> QED BY <1>3, <1>4, <1>13 DEF IInv, TypeInv

LEMMA AddLockedKeeps ==
    ASSUME IInv, NEW p \in Helpers, AddLocked(p)
    PROVE  IInv'
<1>1. PICK i \in FreeIds, b \in Bodies, test \in BOOLEAN :
          h' = [h EXCEPT ![p] = [Runs("add", Testing(test)) EXCEPT !.id = i, !.body = b]]
  BY DEF AddLocked
<1> DEFINE r == [Runs("add", Testing(test)) EXCEPT !.id = i, !.body = b]
<1>2. i \in Saveable /\ (i \in TestSlugs \/ promised[i] = None)
  BY DEF FreeIds, IInv, Safe, GoneIsGone, Ids, Saveable
<1>3. r.pc \in {"cand", "write"} /\ r.op = "add" /\ r.id = i /\ r \in Invocation
  BY <1>2 DEF Runs, Idle, Testing, Invocation, Pc, Locked, Conns, Ids, Saveable
<1>4. h' = [h EXCEPT ![p] = r] /\ Takes(p) /\ UNCHANGED <<disk, snaps, nm, book>>
  BY <1>1 DEF AddLocked, files
<1> HIDE DEF r
<1>5. Fit(r)
  BY <1>2, <1>3 DEF Fit, Flow, Adopting
<1>6. snaps' \in [Ids -> Keyfile \cup {None}]
  BY <1>4 DEF IInv, TypeInv, DataOK
<1> QED BY <1>2, <1>3, <1>4, <1>5, <1>6, Taking DEF Locked, Rewriting

LEMMA UpdateLockedKeeps ==
    ASSUME IInv, NEW p \in Helpers, UpdateLocked(p)
    PROVE  IInv'
<1>1. DataOK
  BY DEF IInv, TypeInv
<1>2. PICK i \in Saveable, b \in Bodies, test \in BOOLEAN :
          /\ disk[i] # None
          /\ Snapshot(i)
          /\ \/ h' = [h EXCEPT ![p] = [Runs("update", Testing(test)) EXCEPT !.id = i, !.body = b]]
             \/ test /\ Ends(p, "exit")
  BY DEF UpdateLocked
<1>3. Takes(p) /\ lock = None /\ lock' = p /\ UNCHANGED <<disk, nm, book>>
  BY DEF UpdateLocked, Takes
<1> i \in Ids /\ i \in Conns
  BY DEF Ids, Saveable, Conns
<1>4. snaps' \in [Ids -> Keyfile \cup {None}] /\ snaps'[i] = disk[i]
  BY <1>1, <1>2 DEF DataOK, Snapshot
<1>5. i \notin TestSlugs => i \in torn \/ disk[i] = promised[i]
  <2>1. ~InHand(i)
    BY <1>3 DEF InHand
  <2> QED BY <2>1 DEF IInv, Safe, PromiseKept, Stands
<1>6. CASE Ends(p, "exit")
  <2>1. lock # p
    BY <1>3
  <2> QED BY <1>3, <1>4, <1>6, <2>1, GivingUp
<1>7. CASE h' = [h EXCEPT ![p] = [Runs("update", Testing(test)) EXCEPT !.id = i, !.body = b]]
  <2> DEFINE r == [Runs("update", Testing(test)) EXCEPT !.id = i, !.body = b]
  <2>1. r.pc \in {"cand", "write"} /\ r.op = "update" /\ r.id = i /\ r \in Invocation
    BY DEF Runs, Idle, Testing, Invocation, Pc, Locked, Conns
  <2>2. h' = [h EXCEPT ![p] = r]
    BY <1>7
  <2> HIDE DEF r
  <2>3. Fit(r)
    BY <2>1 DEF Fit, Flow, Adopting
  <2> QED BY <1>2, <1>3, <1>4, <1>5, <2>1, <2>2, <2>3, Taking DEF Locked, Rewriting
<1> QED BY <1>2, <1>6, <1>7

LEMMA TestLockedKeeps ==
    ASSUME IInv, NEW p \in Helpers, TestLocked(p)
    PROVE  IInv'
<1> DEFINE r == [Runs("test", "cand") EXCEPT !.id = TestId]
<1>1. r.pc = "cand" /\ r.op = "test" /\ r.id = TestId /\ r \in Invocation
  BY DEF Runs, Idle, Invocation, Pc, Locked, Conns, Ids
<1>2. h' = [h EXCEPT ![p] = r] /\ Takes(p) /\ UNCHANGED <<disk, snaps, nm, book>>
  BY DEF TestLocked, files
<1>3. promised[TestId] = None
  BY DEF IInv, Safe, GoneIsGone
<1> HIDE DEF r
<1>4. Fit(r)
  BY <1>1 DEF Fit, Flow, Adopting
<1>5. snaps' \in [Ids -> Keyfile \cup {None}]
  BY <1>2 DEF IInv, TypeInv, DataOK
<1> QED BY <1>1, <1>2, <1>3, <1>4, <1>5, Taking DEF Locked, Rewriting

LEMMA DeleteLockedKeeps ==
    ASSUME IInv, NEW p \in Helpers, DeleteLocked(p)
    PROVE  IInv'
<1>1. PICK i \in Saveable, force \in BOOLEAN :
          h' = [h EXCEPT ![p] = [Runs("delete", "down") EXCEPT !.id = i, !.flag = force]]
  BY DEF DeleteLocked
<1> DEFINE r == [Runs("delete", "down") EXCEPT !.id = i, !.flag = force]
<1>2. r.pc = "down" /\ r.op = "delete" /\ r.id = i /\ r \in Invocation
  BY DEF Runs, Idle, Invocation, Pc, Locked, Conns, Ids, Saveable
<1>3. h' = [h EXCEPT ![p] = r] /\ Takes(p) /\ UNCHANGED <<disk, snaps, nm, book>>
  BY <1>1 DEF DeleteLocked, files
<1> HIDE DEF r
<1>4. Fit(r)
  BY <1>2 DEF Fit, Flow, Adopting
<1>5. snaps' \in [Ids -> Keyfile \cup {None}]
  BY <1>3 DEF IInv, TypeInv, DataOK
<1> QED BY <1>2, <1>3, <1>4, <1>5, Taking DEF Locked, Rewriting

LEMMA ActivateLockedKeeps ==
    ASSUME IInv, NEW p \in Helpers, ActivateLocked(p)
    PROVE  IInv'
<1>1. PICK c \in ForeignNow \cup {i \in Saveable : disk[i] # None} :
          h' = [h EXCEPT ![p] = [Runs("activate", "activate") EXCEPT !.id = c]]
  BY DEF ActivateLocked
<1> DEFINE r == [Runs("activate", "activate") EXCEPT !.id = c]
<1>2. c \in Conns
  BY DEF ForeignNow, IInv, TypeInv, DataOK, Conns, Ids, Saveable
<1>3. r.pc = "activate" /\ r.op = "activate" /\ r.id = c /\ r \in Invocation
  BY <1>2 DEF Runs, Idle, Invocation, Pc, Locked
<1>4. h' = [h EXCEPT ![p] = r] /\ Takes(p) /\ UNCHANGED <<disk, snaps, nm, book>>
  BY <1>1 DEF ActivateLocked, files
<1> HIDE DEF r
<1>5. Fit(r)
  BY <1>3 DEF Fit, Flow, Adopting
<1>6. snaps' \in [Ids -> Keyfile \cup {None}]
  BY <1>4 DEF IInv, TypeInv, DataOK
<1> QED BY <1>3, <1>4, <1>5, <1>6, Taking DEF Locked, Rewriting

LEMMA ImportLockedKeeps ==
    ASSUME IInv, NEW p \in Helpers, ImportLocked(p)
    PROVE  IInv'
<1>1. PICK entries \in SUBSET Saveable, b \in Bodies, up \in {None} \cup nm :
          h' = [h EXCEPT ![p] = [Runs("import", "each") EXCEPT
                                   !.todo = entries, !.body = b, !.live = up]]
  BY DEF ImportLocked
<1> DEFINE r == [Runs("import", "each") EXCEPT !.todo = entries, !.body = b, !.live = up]
<1>2. up \in Conns \cup {None}
  BY DEF IInv, TypeInv, DataOK
<1>3. r.pc = "each" /\ r.op = "import" /\ r \in Invocation
  BY <1>2 DEF Runs, Idle, Invocation, Pc, Locked
<1>4. h' = [h EXCEPT ![p] = r] /\ Takes(p) /\ UNCHANGED <<disk, snaps, nm, book>>
  BY <1>1 DEF ImportLocked, files
<1> HIDE DEF r
<1>5. Fit(r)
  BY <1>3 DEF Fit, Flow, Adopting
<1>6. snaps' \in [Ids -> Keyfile \cup {None}]
  BY <1>4 DEF IInv, TypeInv, DataOK
<1> QED BY <1>3, <1>4, <1>5, <1>6, Taking DEF Locked, Rewriting

LEMMA AdoptLockedKeeps ==
    ASSUME IInv, NEW p \in Helpers, AdoptLocked(p)
    PROVE  IInv'
<1>1. PICK f \in ForeignNow \cap Foreign, i \in FreeIds, up \in {None} \cup nm :
          h' = [h EXCEPT ![p] = [Runs("adopt", "awrite") EXCEPT
                                   !.id = i, !.from = f, !.live = up]]
  BY DEF AdoptLocked
<1> DEFINE r == [Runs("adopt", "awrite") EXCEPT !.id = i, !.from = f, !.live = up]
<1>2. /\ i \in Saveable /\ (i \in TestSlugs \/ promised[i] = None)
      /\ up \in Conns \cup {None}
  BY DEF FreeIds, IInv, TypeInv, DataOK, Safe, GoneIsGone, Ids, Saveable
<1>3. /\ r.pc = "awrite" /\ r.op = "adopt" /\ r.id = i /\ r.from = f
      /\ r.body = FlashBody /\ r \in Invocation
  BY <1>2 DEF Runs, Idle, Invocation, Pc, Locked, Conns, Ids, Saveable
<1>4. h' = [h EXCEPT ![p] = r] /\ Takes(p) /\ UNCHANGED <<disk, snaps, nm, book>>
  BY <1>1 DEF AdoptLocked, files
<1> HIDE DEF r
<1>5. Fit(r)
  BY <1>2, <1>3 DEF Fit, Flow, Adopting
<1>6. snaps' \in [Ids -> Keyfile \cup {None}]
  BY <1>4 DEF IInv, TypeInv, DataOK
<1> QED BY <1>2, <1>3, <1>4, <1>5, <1>6, Taking DEF Locked, Rewriting

LEMMA RefusedLockedKeeps ==
    ASSUME IInv, NEW p \in Helpers, RefusedLocked(p)
    PROVE  IInv'
<1>1. /\ lock = None /\ lock' = p /\ lock # p /\ Ends(p, "exit")
      /\ UNCHANGED <<disk, nm, book>> /\ snaps' = snaps
  BY DEF RefusedLocked, Takes, files
<1> QED BY <1>1, GivingUp DEF IInv, TypeInv, DataOK

---------------------------------------------------------------------------
\* Outside the lock: starting, giving up waiting, giving the lock back.
LEMMA Aside ==
    ASSUME IInv, NEW p \in Helpers, h[p].pc \in {"idle", "lock", "unlock"},
           NEW there \in {"lock", "exit"}, Goto(p, there),
           UNCHANGED <<disk, snaps, nm, book>>,
           \/ lock' = lock /\ lock # p
           \/ lock' = None /\ lock = p
    PROVE  IInv'
<1>1. HelpersOK /\ DataOK /\ UNCHANGED <<disk, snaps, nm, promised, torn>>
  BY DEF IInv, TypeInv, book
<1>2. Moved(p, there)
  BY <1>1, Moving DEF Pc, Flow, Adopting
<1>3. /\ HelpersOK' /\ h'[p].pc = there /\ h'[p].op = h[p].op /\ h'[p].id = h[p].id
      /\ \A q \in Helpers \ {p} : h'[q] = h[q]
  BY <1>2 DEF Moved, Others
<1>4. DataOK'
  BY <1>1 DEF DataOK
<1>5. None \notin Helpers
  OBVIOUS
<1>6. LockAlive'
  BY <1>3, <1>5 DEF IInv, Safe, LockAlive, Locked
<1>7. PromiseKept'
  <2> SUFFICES ASSUME NEW c \in Conns \ TestSlugs
               PROVE  InHand(c)' \/ c \in torn' \/ Stands(c)' = promised'[c]
    BY DEF PromiseKept
  <2>1. InHand(c) => InHand(c)'
    BY <1>1, <1>3 DEF InHand, Rewriting, DataOK
  <2>2. Stands(c)' = Stands(c)
    BY <1>1 DEF Stands
  <2> QED BY <1>1, <2>1, <2>2 DEF IInv, Safe, PromiseKept
<1>8. SnapshotHeld'
  BY <1>1, <1>3 DEF IInv, Safe, SnapshotHeld
<1>9. GoneIsGone'
  BY <1>1 DEF IInv, Safe, GoneIsGone
<1>10. \A q \in Helpers : Making(q)' /\ Standing(q)'
  BY <1>1, <1>3 DEF IInv, Safe, Making, Standing, Flow, Adopting
<1> QED BY <1>3, <1>4, <1>6, <1>7, <1>8, <1>9, <1>10 DEF IInv, TypeInv, Safe

LEMMA ExitKeeps ==
    ASSUME IInv, NEW p \in Helpers, Exit(p)
    PROVE  IInv'
<1>1. HelpersOK /\ DataOK
  BY DEF IInv, TypeInv
<1>2. /\ h[p].pc = "exit"
      /\ disk' = [i \in Ids |-> IF i \in TestSlugs \cup {TestId} THEN None ELSE disk[i]]
      /\ snaps' = [i \in Ids |-> None]
      /\ h' = [h EXCEPT ![p] = Idle]
      /\ lock' = IF lock = p THEN None ELSE lock
      /\ torn' = torn \cup Robbed(p)
      /\ UNCHANGED <<nm, promised>>
  BY DEF Exit, At
<1>3. HelpersOK' /\ h'[p] = Idle /\ \A q \in Helpers \ {p} : h'[q] = h[q]
  BY <1>1, <1>2, IdleIs, Replaced
<1>4. Idle.pc = "idle" /\ Idle.op = "other"
  BY DEF Idle
<1>5. DataOK'
  <2>1. Robbed(p) \subseteq Conns
    BY <1>1, Fields DEF Robbed, Fit, Conns, Ids, Saveable
  <2>2. disk' \in [Ids -> Keyfile \cup {None}]
    BY <1>1, <1>2 DEF DataOK
  <2>3. snaps' \in [Ids -> Keyfile \cup {None}]
    BY <1>2
  <2> QED BY <1>1, <1>2, <2>1, <2>2, <2>3 DEF DataOK
<1>6. LockAlive'
  BY <1>1, <1>2, <1>3, <1>4 DEF IInv, Safe, LockAlive, Locked, DataOK
<1>7. PromiseKept'
  <2> SUFFICES ASSUME NEW c \in Conns \ TestSlugs
               PROVE  InHand(c)' \/ c \in torn' \/ Stands(c)' = promised'[c]
    BY DEF PromiseKept
  <2>1. InHand(c) => InHand(c)'
    BY <1>1, <1>2, <1>3 DEF InHand, Rewriting, DataOK
  <2>2. CASE c = TestId
    BY <1>2, <2>2 DEF Stands, Ids, IInv, Safe, GoneIsGone
  <2>3. CASE c # TestId
    <3>1. Stands(c)' = Stands(c)
      BY <1>2, <2>3 DEF Stands
    <3> QED BY <1>2, <2>1, <3>1 DEF IInv, Safe, PromiseKept
  <2> QED BY <2>2, <2>3
<1>8. SnapshotHeld'
  <2> SUFFICES ASSUME NEW q \in Helpers, h'[q].op = "update", h'[q].id \notin TestSlugs,
                      h'[q].pc \in {"write", "cand", "load", "up", "commit", "teardown"}
               PROVE  h'[q].id \in torn'
    BY DEF SnapshotHeld
  <2>1. q # p /\ h'[q] = h[q]
    BY <1>3, <1>4
  <2>2. lock = q
    BY <2>1, Holding DEF Locked
  <2>3. h[q].id \in torn \/ snaps[h[q].id] # None
    BY <2>1 DEF IInv, Safe, SnapshotHeld
  <2> QED BY <1>2, <2>1, <2>2, <2>3 DEF Robbed
<1>9. GoneIsGone'
  BY <1>2 DEF IInv, Safe, GoneIsGone
<1>10. ASSUME NEW q \in Helpers
       PROVE  Making(q)' /\ Standing(q)'
  <2>1. CASE q = p
    BY <1>3, <1>4, <2>1 DEF Making, Standing, Flow, Adopting
  <2>2. CASE q # p
    <3>1. Making(q)'
      BY <1>2, <1>3, <2>2 DEF IInv, Safe, Making
    <3>2. h[q].pc \in {"aload", "aup", "adel"} => h[q].id \in Saveable
      BY <1>1, Fields DEF Fit, Adopting
    <3>3. Standing(q)'
      BY <1>2, <1>3, <2>2, <3>2 DEF IInv, Safe, Standing, Ids, Saveable
    <3> QED BY <3>1, <3>3
  <2> QED BY <2>1, <2>2
<1> QED BY <1>3, <1>5, <1>6, <1>7, <1>8, <1>9, <1>10 DEF IInv, TypeInv, Safe

LEMMA PowerCutKeeps ==
    ASSUME IInv, PowerCut
    PROVE  IInv'
<1>1. HelpersOK /\ DataOK
  BY DEF IInv, TypeInv
<1>2. /\ snaps' = [i \in Ids |-> None]
      /\ nm' = (nm \cap Foreign) \cup {i \in Ids : disk[i] # None}
      /\ lock' = None
      /\ h' = [p \in Helpers |-> Idle]
      /\ torn' = torn \cup (IF lock = None THEN {} ELSE {h[lock].id} \ {None})
      /\ UNCHANGED <<disk, promised>>
  BY DEF PowerCut
<1>3. HelpersOK' /\ \A p \in Helpers : h'[p] = Idle
  BY <1>2, IdleIs DEF HelpersOK
<1>4. Idle.pc = "idle" /\ Idle.op = "other"
  BY DEF Idle
<1>5. DataOK'
  <2>1. lock # None => {h[lock].id} \ {None} \subseteq Conns
    BY <1>1, Fields DEF DataOK
  <2>2. snaps' \in [Ids -> Keyfile \cup {None}]
    BY <1>2
  <2> QED BY <1>1, <1>2, <2>1, <2>2 DEF DataOK, Conns
<1>6. LockAlive'
  BY <1>2, <1>3, <1>4 DEF LockAlive, Locked
<1>7. PromiseKept'
  <2> SUFFICES ASSUME NEW c \in Conns \ TestSlugs
               PROVE  c \in torn' \/ Stands(c)' = promised'[c]
    BY DEF PromiseKept
  <2>1. InHand(c) => c \in torn'
    BY <1>2 DEF InHand
  <2>2. Stands(c)' = Stands(c)
    BY <1>2 DEF Stands, Conns
  <2> QED BY <1>2, <2>1, <2>2 DEF IInv, Safe, PromiseKept
<1>8. SnapshotHeld'
  BY <1>3, <1>4 DEF SnapshotHeld
<1>9. GoneIsGone'
  BY <1>2 DEF IInv, Safe, GoneIsGone
<1>10. \A q \in Helpers : Making(q)' /\ Standing(q)'
  BY <1>3, <1>4 DEF Making, Standing, Flow, Adopting
<1> QED BY <1>3, <1>5, <1>6, <1>7, <1>8, <1>9, <1>10 DEF IInv, TypeInv, Safe

LEMMA InitHolds == Init => IInv
<1> SUFFICES ASSUME Init PROVE IInv
  OBVIOUS
<1>1. HelpersOK /\ \A p \in Helpers : h[p] = Idle
  BY IdleIs DEF Init, HelpersOK
<1>2. Idle.pc = "idle" /\ Idle.op = "other"
  BY DEF Idle
<1>3. DataOK
  BY Files DEF Init, DataOK, Conns
<1>4. LockAlive
  BY <1>1, <1>2 DEF Init, LockAlive, Locked
<1>5. PromiseKept
  BY DEF Init, PromiseKept, Stands, Conns
<1>6. SnapshotHeld
  BY <1>1, <1>2 DEF SnapshotHeld
<1>7. GoneIsGone
  BY DEF Init, GoneIsGone, Conns, Ids
<1>8. \A p \in Helpers : Making(p) /\ Standing(p)
  BY <1>1, <1>2 DEF Making, Standing, Flow, Adopting
<1> QED BY <1>1, <1>3, <1>4, <1>5, <1>6, <1>7, <1>8 DEF IInv, TypeInv, Safe

LEMMA StutterKeeps ==
    ASSUME IInv, UNCHANGED vars
    PROVE  IInv'
<1>1. UNCHANGED <<disk, snaps, nm, lock, h, promised, torn>>
  BY DEF vars, files, book
<1>2. DataOK' /\ HelpersOK'
  BY <1>1 DEF IInv, TypeInv, DataOK, HelpersOK, Fit
<1>3. LockAlive' /\ SnapshotHeld' /\ GoneIsGone'
  BY <1>1 DEF IInv, Safe, LockAlive, SnapshotHeld, GoneIsGone
<1>4. PromiseKept'
  BY <1>1 DEF IInv, Safe, PromiseKept, Stands, InHand
<1>5. \A p \in Helpers : Making(p)' /\ Standing(p)'
  BY <1>1 DEF IInv, Safe, Making, Standing
<1> QED BY <1>2, <1>3, <1>4, <1>5 DEF IInv, TypeInv, Safe

LEMMA StepKeeps ==
    ASSUME IInv, NEW p \in Helpers, Change(p) \/ Other(p) \/ Step(p)
    PROVE  IInv'
<1>1. CASE Change(p) \/ Other(p) \/ LockTimeout(p) \/ Unlock(p)
  <2>1. h[p].pc \in {"idle", "lock"} => lock # p
    BY DEF IInv, Safe, LockAlive, Locked
  <2>2. CASE Change(p) \/ Other(p)
    <3>1. PICK there \in {"lock", "exit"} : Start(p, there)
      BY <2>2 DEF Change, Other
    <3> QED BY <2>1, <3>1, Aside DEF Start, At, files
  <2>3. CASE LockTimeout(p)
    BY <2>1, <2>3, Aside DEF LockTimeout, At, files
  <2>4. CASE Unlock(p)
    <3>1. lock = p
      BY <2>4, Holding DEF Unlock, At, Locked
    <3> QED BY <2>4, <3>1, Aside DEF Unlock, At, files
  <2> QED BY <1>1, <2>2, <2>3, <2>4
<1>2. CASE RefusedLocked(p) \/ AddLocked(p) \/ UpdateLocked(p) \/ TestLocked(p)
           \/ DeleteLocked(p) \/ ActivateLocked(p) \/ ImportLocked(p) \/ AdoptLocked(p)
  BY <1>2, RefusedLockedKeeps, AddLockedKeeps, UpdateLockedKeeps, TestLockedKeeps,
     DeleteLockedKeeps, ActivateLockedKeeps, ImportLockedKeeps, AdoptLockedKeeps
<1>3. CASE Exit(p) \/ Write(p) \/ WriteCandidate(p) \/ LoadCandidate(p) \/ TestUp(p)
           \/ Commit(p) \/ TeardownNew(p) \/ TeardownUpdate(p)
  BY <1>3, ExitKeeps, WriteKeeps, WriteCandidateKeeps, LoadCandidateKeeps, TestUpKeeps,
     CommitKeeps, TeardownNewKeeps, TeardownUpdateKeeps
<1>4. CASE DeleteDown(p) \/ DeleteFile(p) \/ ActivateUp(p) \/ ImportOne(p) \/ ImportDone(p)
  BY <1>4, DeleteDownKeeps, DeleteFileKeeps, ActivateUpKeeps, ImportOneKeeps, ImportDoneKeeps
<1>5. CASE AdoptWrite(p) \/ AdoptLoad(p) \/ AdoptUp(p) \/ AdoptDelete(p) \/ AdoptRollback(p)
  BY <1>5, AdoptWriteKeeps, AdoptLoadKeeps, AdoptUpKeeps, AdoptDeleteKeeps, AdoptRollbackKeeps
<1> QED BY <1>1, <1>2, <1>3, <1>4, <1>5 DEF Step

LEMMA Inductive == Spec => []IInv
<1>1. Init => IInv
  BY InitHolds
<1>2. IInv /\ [Next]_vars => IInv'
  BY StepKeeps, PowerCutKeeps, StutterKeeps DEF Next
<1> QED BY <1>1, <1>2, PTL DEF Spec

---------------------------------------------------------------------------
\* The types, and wifi.lock: nobody is between two commands of a change
\* without it, whatever fails and whenever the power does.
THEOREM LockSafe == Spec => []AplWifiInv
<1>1. IInv => AplWifiInv
  BY DEF IInv, TypeInv, DataOK, HelpersOK, Safe, AplWifiInv, TypeOK
<1> QED BY <1>1, Inductive, PTL

\* Every saved or flashed network is, between changes, what the last change
\* that took effect made of it.
THEOREM NetworksKept == Spec => []PromiseKept
<1>1. IInv => PromiseKept
  BY DEF IInv, Safe
<1> QED BY <1>1, Inductive, PTL

\* An update under way can be rolled back, unless its snapshot was swept.
THEOREM SnapshotsKept == Spec => []SnapshotHeld
<1>1. IInv => SnapshotHeld
  BY DEF IInv, Safe
<1> QED BY <1>1, Inductive, PTL

\* An adoption deletes the flash-time profile only with its keyfile on disk.
THEOREM AdoptionsSafe == Spec => []AdoptNeverNeither
<1>1. IInv => AdoptNeverNeither
  BY DEF IInv, Safe, Standing, AdoptNeverNeither
<1> QED BY <1>1, Inductive, PTL

---------------------------------------------------------------------------
(***************************************************************************)
(* What a delete counted is still there when it deletes: nobody else       *)
(* settles a network while it has the lock, and litter does not go away.   *)
(* This is about devices without a saved network whose slug begins with    *)
(* test-, which any exit may take away.                                    *)
(***************************************************************************)
FallsBack(p) ==
    h[p].pc \in {"down", "rm"} =>
        /\ disk[h[p].id] # None
        /\ ~h[p].flag /\ ~Litter => \E c \in Conns \ {h[p].id} : promised[c] # None

Counted == \A p \in Helpers : FallsBack(p)

\* What remains without litter is a network promised to somebody.
LEMMA RemainingPromised ==
    ASSUME IInv, TestSlugs = {}, lock = None, ~Litter, NEW i \in Ids, Remaining(i) # {},
           disk[i] # None
    PROVE  \E c \in Conns \ {i} : promised[c] # None
<1>1. PICK c \in Remaining(i) : TRUE
  OBVIOUS
<1>2. \A j \in Conns : Stands(j) = promised[j]
  BY DEF IInv, Safe, PromiseKept, InHand, Litter
<1>3. CASE c \in Ids \ {i} /\ disk[c] # None
  BY <1>2, <1>3 DEF Stands, Conns
<1>4. CASE c \in ForeignNow
  <2>1. c \in Foreign /\ c \in nm
    <3>1. c \in nm /\ c \in Conns
      BY <1>4 DEF ForeignNow, IInv, TypeInv, DataOK
    <3>2. c \in Ids => disk[c] # None
      BY <3>1 DEF Litter
    <3> QED BY <1>4, <3>1, <3>2 DEF ForeignNow, Conns
  <2>2. Stands(c) # None /\ c \in Conns /\ c # i
    BY <2>1, Files DEF Stands, Conns
  <2> QED BY <1>2, <2>2
<1> QED BY <1>1, <1>3, <1>4 DEF Remaining

\* A step that is neither the taking of a delete's lock nor within the delete leaves p
\* somewhere else, or is another's, which cannot touch what p counts.
LEMMA OwnStep ==
    ASSUME IInv, NEW p \in Helpers, Change(p) \/ Other(p) \/ Step(p),
           h'[p].pc \in {"down", "rm"}
    PROVE  DeleteLocked(p) \/ DeleteDown(p)
<1>1. HelpersOK /\ h \in [Helpers -> Invocation]
  BY DEF IInv, TypeInv, HelpersOK
<1>2. \A there : Goto(p, there) => h'[p].pc = there
  BY <1>1 DEF Goto, Invocation
<1>3. \A there : Ends(p, there) => h'[p].pc = there
  BY <1>1 DEF Ends, Idle
<1>4. ~(Change(p) \/ Other(p) \/ LockTimeout(p) \/ Unlock(p))
  BY <1>2 DEF Change, Other, Start, LockTimeout, Unlock
<1>5. ~(RefusedLocked(p) \/ Exit(p) \/ Write(p) \/ WriteCandidate(p) \/ LoadCandidate(p)
        \/ Commit(p) \/ TeardownNew(p) \/ TeardownUpdate(p) \/ ActivateUp(p)
        \/ ImportDone(p) \/ DeleteFile(p))
  <2>1. ~Exit(p)
    BY <1>1 DEF Exit, Idle
  <2>2. ~(RefusedLocked(p) \/ Write(p) \/ WriteCandidate(p) \/ LoadCandidate(p))
    BY <1>2, <1>3 DEF RefusedLocked, Write, WriteCandidate, LoadCandidate
  <2>3. ~(Commit(p) \/ TeardownUpdate(p) \/ ActivateUp(p) \/ ImportDone(p) \/ DeleteFile(p))
    BY <1>3 DEF Commit, TeardownUpdate, ActivateUp, ImportDone, DeleteFile
  <2>4. ~TeardownNew(p)
    BY <1>3 DEF TeardownNew
  <2> QED BY <2>1, <2>2, <2>3, <2>4
<1>6. ~(AdoptWrite(p) \/ AdoptLoad(p) \/ AdoptUp(p) \/ AdoptDelete(p) \/ AdoptRollback(p))
  <2>1. ~AdoptLoad(p)
    BY <1>2, <1>3 DEF AdoptLoad
  <2> QED BY <1>2, <1>3, <2>1 DEF AdoptWrite, AdoptUp, AdoptDelete, AdoptRollback
<1>7. ~(TestUp(p) \/ ImportOne(p))
  <2>1. ~ImportOne(p)
    BY <1>1 DEF ImportOne, At, Invocation
  <2>2. ~TestUp(p)
    BY <1>1, <1>3 DEF TestUp, Invocation
  <2> QED BY <2>1, <2>2
<1>8. ~(AddLocked(p) \/ UpdateLocked(p) \/ TestLocked(p) \/ ActivateLocked(p)
        \/ ImportLocked(p) \/ AdoptLocked(p))
  <2>1. ~AddLocked(p)
    <3> SUFFICES ASSUME AddLocked(p) PROVE FALSE
      OBVIOUS
    <3>1. PICK i \in FreeIds, b \in Bodies, test \in BOOLEAN :
            h' = [h EXCEPT ![p] = [Runs("add", Testing(test)) EXCEPT !.id = i, !.body = b]]
      BY DEF AddLocked
    <3> QED BY <1>1, <3>1 DEF Runs, Idle, Testing
  <2>2. ~UpdateLocked(p)
    <3> SUFFICES ASSUME UpdateLocked(p) PROVE FALSE
      OBVIOUS
    <3>1. PICK i \in Saveable, b \in Bodies, test \in BOOLEAN :
            \/ h' = [h EXCEPT ![p] = [Runs("update", Testing(test)) EXCEPT !.id = i, !.body = b]]
            \/ Ends(p, "exit")
      BY DEF UpdateLocked
    <3>2. h' = [h EXCEPT ![p] = [Runs("update", Testing(test)) EXCEPT !.id = i, !.body = b]]
      BY <1>3, <3>1
    <3> QED BY <1>1, <3>2 DEF Runs, Idle, Testing
  <2>3. ~TestLocked(p)
    BY <1>1 DEF TestLocked, Runs, Idle
  <2>4. ~ActivateLocked(p)
    <3> SUFFICES ASSUME ActivateLocked(p) PROVE FALSE
      OBVIOUS
    <3>1. PICK c \in ForeignNow \cup {i \in Saveable : disk[i] # None} :
            h' = [h EXCEPT ![p] = [Runs("activate", "activate") EXCEPT !.id = c]]
      BY DEF ActivateLocked
    <3> QED BY <1>1, <3>1 DEF Runs, Idle, Testing
  <2>5. ~ImportLocked(p)
    <3> SUFFICES ASSUME ImportLocked(p) PROVE FALSE
      OBVIOUS
    <3>1. PICK t \in SUBSET Saveable, b \in Bodies, up \in {None} \cup nm :
            h' = [h EXCEPT ![p] = [Runs("import", "each") EXCEPT !.todo = t, !.body = b, !.live = up]]
      BY DEF ImportLocked
    <3> QED BY <1>1, <3>1 DEF Runs, Idle, Testing
  <2>6. ~AdoptLocked(p)
    <3> SUFFICES ASSUME AdoptLocked(p) PROVE FALSE
      OBVIOUS
    <3>1. PICK f \in Foreign, i \in Saveable, up \in {None} \cup nm :
            h' = [h EXCEPT ![p] = [Runs("adopt", "awrite") EXCEPT !.id = i, !.from = f, !.live = up]]
      BY DEF AdoptLocked, FreeIds
    <3> QED BY <1>1, <3>1 DEF Runs, Idle, Testing
  <2> QED BY <2>1, <2>2, <2>3, <2>4, <2>5, <2>6
<1> QED BY <1>4, <1>5, <1>6, <1>7, <1>8 DEF Step

\* What another invocation may do while p has the lock: begin, give up waiting, exit.
LEMMA OthersStep ==
    ASSUME IInv, NEW p \in Helpers, lock = p, NEW q \in Helpers \ {p},
           Change(q) \/ Other(q) \/ Step(q)
    PROVE  Change(q) \/ Other(q) \/ LockTimeout(q) \/ Exit(q)
<1>1. h[q].pc \notin Locked /\ lock # None
  BY DEF IInv, TypeInv, DataOK, Safe, LockAlive
<1>2. ~(RefusedLocked(q) \/ AddLocked(q) \/ UpdateLocked(q) \/ TestLocked(q)
        \/ DeleteLocked(q) \/ ActivateLocked(q) \/ ImportLocked(q) \/ AdoptLocked(q))
  BY <1>1 DEF RefusedLocked, AddLocked, UpdateLocked, TestLocked, DeleteLocked,
     ActivateLocked, ImportLocked, AdoptLocked, Takes
<1>3. ~(Unlock(q) \/ Write(q) \/ WriteCandidate(q) \/ LoadCandidate(q) \/ TestUp(q)
        \/ Commit(q) \/ TeardownNew(q) \/ TeardownUpdate(q))
  BY <1>1 DEF Unlock, Write, WriteCandidate, LoadCandidate, TestUp, Commit, TeardownNew,
     TeardownUpdate, At, Locked
<1>4. ~(DeleteDown(q) \/ DeleteFile(q) \/ ActivateUp(q) \/ ImportOne(q) \/ ImportDone(q)
        \/ AdoptWrite(q) \/ AdoptLoad(q) \/ AdoptUp(q) \/ AdoptDelete(q) \/ AdoptRollback(q))
  BY <1>1 DEF DeleteDown, DeleteFile, ActivateUp, ImportOne, ImportDone, AdoptWrite,
     AdoptLoad, AdoptUp, AdoptDelete, AdoptRollback, At, Locked
<1> QED BY <1>2, <1>3, <1>4 DEF Step

\* An invocation writes its own record only.
LEMMA Aloof ==
    ASSUME IInv, NEW p \in Helpers, NEW q \in Helpers \ {p},
           Change(q) \/ Other(q) \/ Step(q)
    PROVE  h'[p] = h[p]
<1>1. h \in [Helpers -> Invocation]
  BY DEF IInv, TypeInv, HelpersOK
<1>2. \A there : Goto(q, there) => h'[p] = h[p]
  BY <1>1 DEF Goto
<1>3. \A there : Ends(q, there) => h'[p] = h[p]
  BY <1>1 DEF Ends
<1>4. CASE Change(q) \/ Other(q) \/ LockTimeout(q) \/ Unlock(q) \/ Exit(q) \/ RefusedLocked(q)
  BY <1>1, <1>2, <1>3, <1>4 DEF Change, Other, Start, LockTimeout, Unlock, Exit, RefusedLocked
<1>5. CASE AddLocked(q) \/ UpdateLocked(q) \/ TestLocked(q) \/ DeleteLocked(q)
           \/ ActivateLocked(q) \/ ImportLocked(q) \/ AdoptLocked(q)
  BY <1>1, <1>3, <1>5 DEF AddLocked, UpdateLocked, TestLocked, DeleteLocked, ActivateLocked,
     ImportLocked, AdoptLocked
<1>6. CASE Write(q) \/ WriteCandidate(q) \/ LoadCandidate(q) \/ TestUp(q) \/ Commit(q)
           \/ TeardownNew(q) \/ TeardownUpdate(q)
  BY <1>1, <1>2, <1>3, <1>6 DEF Write, WriteCandidate, LoadCandidate, TestUp, Commit,
     TeardownNew, TeardownUpdate
<1>7. CASE DeleteDown(q) \/ DeleteFile(q) \/ ActivateUp(q) \/ ImportOne(q) \/ ImportDone(q)
  BY <1>1, <1>2, <1>3, <1>7 DEF DeleteDown, DeleteFile, ActivateUp, ImportOne, ImportDone
<1>8. CASE AdoptWrite(q) \/ AdoptLoad(q) \/ AdoptUp(q) \/ AdoptDelete(q) \/ AdoptRollback(q)
  BY <1>2, <1>3, <1>8 DEF AdoptWrite, AdoptLoad, AdoptUp, AdoptDelete, AdoptRollback
<1> QED BY <1>4, <1>5, <1>6, <1>7, <1>8 DEF Step

LEMMA CountedKept ==
    ASSUME IInv, TestSlugs = {}, Counted, [Next]_vars
    PROVE  Counted'
<1> SUFFICES ASSUME NEW p \in Helpers, h'[p].pc \in {"down", "rm"}
             PROVE  /\ disk'[h'[p].id] # None
                    /\ ~h'[p].flag /\ ~Litter'
                       => \E c \in Conns \ {h'[p].id} : promised'[c] # None
  BY DEF Counted, FallsBack
<1>1. HelpersOK /\ h \in [Helpers -> Invocation] /\ DataOK
  BY DEF IInv, TypeInv, HelpersOK
<1>2. CASE DeleteLocked(p)
  <2>1. PICK i \in Saveable, force \in BOOLEAN :
          /\ disk[i] # None
          /\ Remaining(i) # {} \/ force
          /\ h' = [h EXCEPT ![p] = [Runs("delete", "down") EXCEPT !.id = i, !.flag = force]]
    BY <1>2 DEF DeleteLocked
  <2>2. h'[p].id = i /\ h'[p].flag = force
    BY <1>1, <2>1 DEF Runs, Idle
  <2>3. lock = None /\ UNCHANGED <<disk, nm, promised, torn>>
    BY <1>2 DEF DeleteLocked, Takes, files, book
  <2>4. i \in Ids /\ Litter' = Litter
    BY <2>3 DEF Litter, Ids, Saveable
  <2> QED BY <2>1, <2>2, <2>3, <2>4, RemainingPromised
<1>3. CASE DeleteDown(p)
  <2>1. /\ h[p].pc = "down" /\ Goto(p, "rm") /\ nm' \in {nm, nm \ {h[p].id}}
        /\ UNCHANGED <<disk, promised, torn>>
    BY <1>3 DEF DeleteDown, At, files, book
  <2>2. h'[p].id = h[p].id /\ h'[p].flag = h[p].flag
    BY <1>1, <2>1 DEF Goto, Invocation
  <2>3. FallsBack(p) /\ disk[h[p].id] # None
    BY <2>1 DEF Counted, FallsBack
  <2>4. Litter => Litter'
    BY <2>1, <2>3 DEF Litter
  <2> QED BY <2>1, <2>2, <2>3, <2>4 DEF FallsBack
<1>4. CASE \E q \in Helpers \ {p} : Change(q) \/ Other(q) \/ Step(q)
  <2>1. PICK q \in Helpers \ {p} : Change(q) \/ Other(q) \/ Step(q)
    BY <1>4
  <2>2. h'[p] = h[p]
    BY <2>1, Aloof
  <2>3. lock = p /\ FallsBack(p) /\ h[p].id \in Saveable
    BY <1>1, <2>2, Fields, Holding DEF Locked, Fit, Counted
  <2>4. /\ UNCHANGED <<nm, promised>> /\ torn \subseteq torn'
        /\ \A i \in Ids : disk'[i] = disk[i] \/ (i = TestId /\ disk'[i] = None)
    BY <1>1, <2>1, <2>3, OthersStep
       DEF Change, Other, Start, LockTimeout, Exit, files, book, Robbed, DataOK
  <2>5. disk'[h[p].id] = disk[h[p].id]
    BY <2>3, <2>4 DEF Ids, Saveable
  <2>6. Litter => Litter'
    <3>1. CASE torn # {}
      BY <2>4, <3>1 DEF Litter
    <3>2. CASE \E i \in Ids : i \in nm /\ disk[i] = None
      BY <2>4, <3>2 DEF Litter
    <3> QED BY <3>1, <3>2 DEF Litter
  <2> QED BY <2>2, <2>3, <2>4, <2>5, <2>6 DEF FallsBack
<1>5. ~PowerCut
  BY DEF PowerCut, Idle
<1>6. CASE UNCHANGED vars
  BY <1>6 DEF vars, files, book, Counted, FallsBack, Litter
<1>7. CASE Change(p) \/ Other(p) \/ Step(p)
  BY <1>2, <1>3, <1>7, OwnStep
<1> QED BY <1>4, <1>5, <1>6, <1>7 DEF Next

\* A delete that was not forced takes the last network only if what it counted was
\* litter, on a device without a saved network whose slug begins with test-.
THEOREM FallbackStays == TestSlugs = {} => (Spec => FallbackLeft)
<1> SUFFICES ASSUME TestSlugs = {} PROVE Spec => FallbackLeft
  OBVIOUS
<1>1. Init => Counted
  <2>1. Idle.pc = "idle"
    BY DEF Idle
  <2> QED BY <2>1 DEF Init, Counted, FallsBack
<1>2. IInv /\ Counted /\ [Next]_vars => Counted'
  BY CountedKept
<1>3. Counted => \A p \in Helpers : DeleteFile(p) /\ ~h[p].flag /\ ~Litter =>
                    \E c \in Conns \ {h[p].id} : promised[c] # None
  BY DEF Counted, FallsBack, DeleteFile, At
<1> QED BY <1>1, <1>2, <1>3, Inductive, PTL DEF Spec, FallbackLeft
================================================================================
