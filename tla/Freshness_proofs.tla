--------------------------- MODULE Freshness_proofs ---------------------------
(* Theorems about Freshness, for every set of zones, threads and intervals, every *)
(* time and every number of other requests, edits and losses.                     *)
EXTENDS Freshness, DomainIds_proofs

-----------------------------------------------------------------------------
(* The inductive invariant *)

\* What was told, or is about to be, stands in the table or never will: its zone has an id,
\* or its id a zone.
Settled(z, id) == domainIds[z] # 0 \/ id \in Range(domainIds)

AllSettled ==
    /\ \A p \in told : Settled(p[1], p[2])
    /\ \A t \in Threads : call[t].pc = "found" => Settled(call[t].zone, call[t].id)

\* What PowerDNS and the backend hold comes from pairs that handlers worked with.
Traced ==
    /\ inbox \subseteq told /\ patches \subseteq told
    /\ \A t \in Threads : frame[t].out \subseteq told
    /\ \A i \in DOMAIN checks : \E z \in Zones : <<z, i>> \in told
    /\ \A z \in Zones : confirmed[z] # 0 => \E i \in DOMAIN checks : <<z, i>> \in told

\* Confirmations are not of the future, and polls know only those handled before.
Past ==
    /\ \A z \in Zones : confirmed[z] <= clock
    /\ \A t \in Threads : \A z \in Zones : frame[t].was[z] <= confirmed[z]

Support  == Ids /\ FreshTypeOK /\ AllSettled /\ Traced /\ Past
FreshInv == Support /\ OwnChecks /\ LeftAlone /\ DueListed

-----------------------------------------------------------------------------
(* Facts about values *)

LEMMA Bounds ==
  /\ StartTime \in Nat \ {0} /\ MaxTime \in Nat /\ StartTime <= MaxTime /\ Word \in Nat
  /\ MaxTime < Word /\ MaxExtras \in Nat /\ Times \subseteq Nat \ {0}
  /\ \A x \in Times : x <= MaxTime
BY FreshnessAssumption DEF Times

LEMMA TimeNat == \A x \in Times \union {0} : x \in Nat /\ x <= MaxTime
<1> SUFFICES ASSUME NEW x \in Times \union {0} PROVE x \in Nat /\ x <= MaxTime OBVIOUS
<1>1. CASE x = 0 BY <1>1, FreshnessAssumption
<1>2. CASE x \in StartTime..MaxTime BY <1>2, FreshnessAssumption
<1> QED BY <1>1, <1>2 DEF Times

LEMMA ZoneStateParts ==
  \A s \in ZoneStates : s.refresh \in Nat /\ s.type \in {"slave", "absent", "untyped", "other"}
<1> SUFFICES ASSUME NEW s \in ZoneStates
             PROVE s.refresh \in Nat /\ s.type \in {"slave", "absent", "untyped", "other"}
  OBVIOUS
<1>1. CASE \E r \in Refreshes \union {NoData} : s = Slave(r)
  BY <1>1, FreshnessAssumption DEF Slave, NoData
<1>2. CASE \E k \in {"absent", "untyped", "other"} : s = Plain(k)
  BY <1>2 DEF Plain, NoData
<1> QED BY <1>1, <1>2 DEF ZoneStates

LEMMA IdleFrame == Idle \in Frames /\ Idle.op = "idle" /\ Idle.out = {} /\ Idle.was = [z \in Zones |-> 0]
<1>1. Plain("absent") \in ZoneStates BY DEF ZoneStates
<1> QED BY <1>1 DEF Idle, Frames

LEMMA NoWrap ==
  ASSUME NEW w \in Nat, NEW x \in Nat, x < w
  PROVE  x % w = x
OBVIOUS

LEMMA WrapLower ==
  ASSUME NEW w \in Nat, w > 0, NEW x \in Nat
  PROVE  x % w <= x /\ x % w \in Nat
OBVIOUS

\* What is in the table is an id of a zone.
LEMMA RecordedPair ==
  ASSUME domainIds \in [Zones -> Nat], NEW p \in Recorded
  PROVE  p[1] \in Zones /\ p[2] = domainIds[p[1]] /\ p[2] # 0 /\ p[2] \in Range(domainIds)
BY DEF Recorded, Range

-----------------------------------------------------------------------------
(* Agreement lost is never regained *)

LEMMA AgreedBefore ==
  ASSUME Ids, AllSettled, TableStep, told \subseteq told', Agreed'
  PROVE  Agreed
<1>0. domainIds \in [Zones -> Nat] /\ domainIds' \in [Zones -> Nat] /\ told \subseteq Zones \X (Nat \ {0})
  BY DEF Ids, IdsInv, IdsTypeOK, TableStep
<1> SUFFICES ASSUME NEW p \in told PROVE p \in Recorded BY DEF Agreed
<1>1. p \in Recorded' BY DEF Agreed
<1>2. p = <<p[1], p[2]>> /\ p[1] \in Zones /\ p[2] # 0 BY <1>0
<1>3. domainIds'[p[1]] = p[2] BY <1>1, <1>2 DEF Recorded
<1>4. domainIds[p[1]] = p[2]
  <2>1. CASE domainIds' = domainIds BY <1>3, <2>1
  <2>2. ASSUME NEW z \in Zones, NEW id \in Nat \ {0}, domainIds[z] = 0, id \notin Range(domainIds),
               domainIds' = [domainIds EXCEPT ![z] = id]
        PROVE  domainIds[p[1]] = p[2]
    <3>1. CASE p[1] = z
      <4>1. p[2] = id BY <1>0, <1>3, <2>2, <3>1
      <4> QED BY <2>2, <3>1, <4>1 DEF AllSettled, Settled
    <3>2. CASE p[1] # z BY <1>0, <1>2, <1>3, <2>2, <3>2
    <3> QED BY <3>1, <3>2
  <2> QED BY <2>1, <2>2 DEF TableStep
<1> QED BY <1>2, <1>4 DEF Recorded

\* A pair that stands in the table, or never will, goes on to do so.
LEMMA SettledStays ==
  ASSUME Ids, TableStep, NEW z \in Zones, NEW id \in Nat, Settled(z, id)
  PROVE  Settled(z, id)'
<1>0. domainIds \in [Zones -> Nat] BY DEF Ids, IdsInv, IdsTypeOK
<1>1. CASE domainIds' = domainIds BY <1>1 DEF Settled
<1>2. ASSUME NEW y \in Zones, NEW i \in Nat \ {0}, domainIds[y] = 0, i \notin Range(domainIds),
             domainIds' = [domainIds EXCEPT ![y] = i]
      PROVE  Settled(z, id)'
  <2>1. \A x \in Zones : domainIds'[x] = IF x = y THEN i ELSE domainIds[x] BY <1>0, <1>2
  <2>2. CASE domainIds[z] # 0 BY <1>2, <2>1, <2>2 DEF Settled
  <2>3. ASSUME NEW x \in Zones, domainIds[x] = id PROVE Settled(z, id)'
    <3>1. CASE x = y
      <4>1. id = 0 BY <1>2, <2>3, <3>1
      <4>2. CASE z = y BY <1>2, <2>1, <4>2 DEF Settled
      <4>3. CASE z # y /\ domainIds[z] = 0
        <5>1. domainIds'[z] = id BY <2>1, <4>1, <4>3
        <5> QED BY <1>0, <1>2, <5>1 DEF Settled, Range
      <4> QED BY <2>2, <4>2, <4>3
    <3>2. CASE x # y
      <4>1. domainIds'[x] = id BY <2>1, <2>3, <3>2
      <4> QED BY <1>0, <1>2, <4>1 DEF Settled, Range
    <3> QED BY <3>1, <3>2
  <2>4. domainIds[z] # 0 \/ \E x \in Zones : domainIds[x] = id BY <1>0 DEF Settled, Range
  <2> QED BY <2>2, <2>3, <2>4
<1> QED BY <1>1, <1>2 DEF TableStep

-----------------------------------------------------------------------------
(* Initial states *)

LEMMA FreshInitially == FreshInit => FreshInv
<1> SUFFICES ASSUME FreshInit PROVE FreshInv OBVIOUS
<1> USE DEF FreshInit
<1>1. Ids BY IdsInitially
<1>2. DOMAIN <<>> = {} OBVIOUS
<1>3. checks \in [DOMAIN checks -> Times] BY <1>2
<1>4. zones \in [Zones -> ZoneStates] BY FreshnessAssumption
<1>5. FreshTypeOK BY <1>2, <1>3, <1>4, IdleFrame, Bounds DEF FreshTypeOK, Times
<1>6. AllSettled BY DEF AllSettled, IdsInit, NoCall
<1>7. Traced BY <1>2, IdleFrame DEF Traced
<1>8. Past BY IdleFrame, Bounds DEF Past
<1>9. OwnChecks BY <1>2 DEF OwnChecks
<1>a. LeftAlone BY IdleFrame DEF LeftAlone
<1>b. DueListed BY IdleFrame DEF DueListed
<1> QED BY <1>1, <1>5, <1>6, <1>7, <1>8, <1>9, <1>a, <1>b DEF FreshInv, Support

-----------------------------------------------------------------------------
(* Steps of the table *)

\* A pair that getDomainID returns is settled.
LEMMA FoundSettled ==
  ASSUME Ids, AllSettled, UNCHANGED told, NEW t \in Threads,
         getDomainID(t) \/ \E z \in Zones : Call(t, z)
  PROVE  AllSettled'
<1>0. /\ domainIds \in [Zones -> Nat] /\ call \in [Threads -> Calls] /\ CallShape
      /\ told \subseteq Zones \X (Nat \ {0})
  BY DEF Ids, IdsInv, IdsTypeOK
<1>1. TableStep
  <2>1. IdsNext BY DEF IdsNext
  <2> QED BY <2>1, StepsOfTheTable
<1>2. \A p \in told' : Settled(p[1], p[2])' BY <1>0, <1>1, SettledStays DEF AllSettled
<1>3. ASSUME NEW u \in Threads, u # t, call'[u].pc = "found"
      PROVE  Settled(call[u].zone, call[u].id)' /\ call'[u] = call[u]
  <2>1. call'[u] = call[u] BY <1>0, <1>3 DEF getDomainID, Find, New, Insert, Call
  <2>2. call[u].zone \in Zones /\ call[u].id \in Nat
    BY <1>0, <1>3, <2>1 DEF CallShape, Calls
  <2>3. Settled(call[u].zone, call[u].id) BY <1>3, <2>1 DEF AllSettled
  <2> QED BY <1>1, <2>1, <2>2, <2>3, SettledStays DEF Settled
<1>4. ASSUME call'[t].pc = "found" PROVE Settled(call[t].zone, call[t].id)'
  <2>1. CASE Find(t)
    <3>1. call[t].zone \in Zones BY <1>0, <2>1 DEF CallShape, Find
    <3>2. call'[t].zone = call[t].zone /\ (call'[t].pc = "found" => domainIds[call[t].zone] # 0)
      BY <1>0, <2>1 DEF Find, Calls
    <3> QED BY <1>4, <2>1, <3>2 DEF Find, Settled
  <2>2. CASE Insert(t)
    <3> DEFINE z == call[t].zone
               i == call[t].id
    <3>1. z \in Zones /\ i \in Nat BY <1>0, <2>2 DEF CallShape, Insert, Calls
    <3>2. call'[t].zone = z /\ call'[t].id = i BY <1>0, <2>2 DEF Insert, Calls
    <3>3. domainIds' = Inserted(z, i) BY <2>2 DEF Insert
    <3>4. CASE domainIds[z] = 0 /\ i \notin Range(domainIds)
      <4>1. domainIds' = [domainIds EXCEPT ![z] = i] BY <3>3, <3>4 DEF Inserted
      <4>2. domainIds'[z] = i /\ domainIds' \in [Zones -> Nat] BY <1>0, <3>1, <4>1
      <4>3. i \in Range(domainIds') BY <3>1, <4>2 DEF Range
      <4> QED BY <3>2, <4>3 DEF Settled
    <3>5. CASE ~(domainIds[z] = 0 /\ i \notin Range(domainIds))
      <4>1. domainIds' = domainIds BY <3>3, <3>5 DEF Inserted
      <4> QED BY <3>2, <3>5, <4>1 DEF Settled
    <3> QED BY <3>4, <3>5
  <2>3. CASE New(t) BY <1>0, <1>4, <2>3 DEF New, Calls
  <2>4. CASE \E z \in Zones : Call(t, z) BY <1>0, <1>4, <2>4 DEF Call
  <2> QED BY <2>1, <2>2, <2>3, <2>4 DEF getDomainID
<1>5. \A u \in Threads : call'[u].pc = "found" => Settled(call[u].zone, call[u].id)'
  BY <1>3, <1>4 DEF Settled
<1> QED BY <1>2, <1>5 DEF AllSettled, Settled

\* An id that is new in the table was never worked with, so no check is recorded under it.
LEMMA TableKeeps ==
  ASSUME FreshInv, NEW t \in Threads, getDomainID(t) \/ \E z \in Zones : Call(t, z),
         UNCHANGED <<told, checks, frame, pdns, zones, clock, confirmed>>, extras' \in 0..MaxExtras
  PROVE  FreshInv'
<1>0. Ids /\ FreshTypeOK /\ AllSettled /\ domainIds \in [Zones -> Nat]
  BY DEF FreshInv, Support, Ids, IdsInv, IdsTypeOK
<1>1. Ids' /\ TableStep
  <2>1. IdsNext BY DEF IdsNext
  <2> QED BY <1>0, <2>1, IdsStep, StepsOfTheTable
<1>2. FreshTypeOK' BY <1>0 DEF FreshTypeOK, pdns
<1>3. AllSettled' BY <1>0, FoundSettled
<1>4. Traced' /\ Past' BY DEF FreshInv, Support, Traced, Past, pdns
<1>5. Agreed' => Agreed BY <1>0, <1>1, AgreedBefore
<1>6. OwnChecks'
  <2> SUFFICES ASSUME Agreed', NEW z \in Zones, domainIds'[z] \in DOMAIN checks
               PROVE  checks[domainIds'[z]] = confirmed[z]
    BY DEF OwnChecks
  <2>1. domainIds'[z] = domainIds[z]
    <3>1. PICK y \in Zones : <<y, domainIds'[z]>> \in told BY DEF FreshInv, Support, Traced
    <3>2. <<y, domainIds'[z]>> \in Recorded BY <1>5, <3>1 DEF Agreed
    <3>3. domainIds'[z] \in Range(domainIds) BY <1>0, <3>2, RecordedPair
    <3> QED BY <1>0, <1>1, <3>3 DEF TableStep
  <2> QED BY <1>5, <2>1 DEF FreshInv, OwnChecks
<1>7. LeftAlone' BY <1>5 DEF FreshInv, LeftAlone
<1>8. DueListed' BY <1>5 DEF FreshInv, DueListed
<1> QED BY <1>1, <1>2, <1>3, <1>4, <1>6, <1>7, <1>8 DEF FreshInv, Support

-----------------------------------------------------------------------------
(* Steps of the handlers *)

LEMMA IdsUnchanged == Ids /\ UNCHANGED idsVars => Ids'
BY IdsStep

\* A pair that was found is worked with, and the call ends.
LEMMA IdsTold ==
  ASSUME Ids, AllSettled, NEW t \in Threads, call[t].pc = "found",
         call' = [call EXCEPT ![t] = NoCall], UNCHANGED domainIds,
         told' = told \union {<<call[t].zone, call[t].id>>}
  PROVE  /\ Ids' /\ AllSettled' /\ (Agreed' => Agreed)
         /\ call[t].zone \in Zones /\ call[t].id \in Nat \ {0}
<1>0. /\ call \in [Threads -> Calls] /\ told \subseteq Zones \X (Nat \ {0})
      /\ domainIds \in [Zones -> Nat]
  BY DEF Ids, IdsInv, IdsTypeOK
<1>1. Return(t) BY DEF Return
<1>2. Ids' BY <1>1, IdsStep DEF IdsNext
<1>3. call[t].zone \in Zones BY DEF Ids, IdsInv, CallShape
<1>4. call[t].id \in Nat \ {0}
  <2>1. call[t].id \in 1..getNewId(domainIds) /\ getNewId(domainIds) \in Nat
    BY <1>3 DEF Ids, IdsInv, DenseIds, getNewId
  <2> QED BY <2>1
<1>5. \A u \in Threads : call'[u].pc = "found" => call'[u] = call[u] BY <1>0 DEF NoCall
<1>6. AllSettled' BY <1>5 DEF AllSettled, Settled
<1>7. Agreed' => Agreed BY DEF Agreed, Recorded
<1> QED BY <1>2, <1>3, <1>4, <1>6, <1>7

\* A request for one zone is answered.
LEMMA RepliedStep ==
  ASSUME FreshInv, NEW t \in Threads, Replied(t)
  PROVE  FreshInv'
<1> USE DEF Replied, Return, Other, pdns
<1>0. Ids /\ FreshTypeOK /\ AllSettled BY DEF FreshInv, Support
<1>1. Ids' /\ AllSettled' /\ (Agreed' => Agreed) BY <1>0, IdsTold
<1>2. FreshTypeOK' BY <1>0 DEF FreshTypeOK
<1>3. Traced' BY DEF FreshInv, Support, Traced
<1>4. Past' BY DEF FreshInv, Support, Past
<1>5. OwnChecks' /\ LeftAlone' /\ DueListed' BY <1>1 DEF FreshInv, OwnChecks, LeftAlone, DueListed
<1> QED BY <1>1, <1>2, <1>3, <1>4, <1>5 DEF FreshInv, Support

\* A step that changes one thread's frame only.
LEMMA FrameStep ==
  ASSUME FreshInv, NEW t \in Threads, NEW f \in Frames,
         frame' = [frame EXCEPT ![t] = f], f.out = {},
         \A z \in Zones : f.was[z] <= confirmed[z],
         f.op = "poll" => \A z \in Zones : f.tree[z].type = "slave" => z \in f.todo,
         inbox' \in {inbox, frame[t].out}, UNCHANGED patches,
         UNCHANGED <<table, told, checks, zones, clock, confirmed, extras>>
  PROVE  FreshInv'
<1> USE DEF table
<1>0. Ids /\ FreshTypeOK /\ AllSettled /\ frame \in [Threads -> Frames]
  BY DEF FreshInv, Support, FreshTypeOK
<1>1. \A u \in Threads : frame'[u] = IF u = t THEN f ELSE frame[u] BY <1>0
<1>2. Ids' BY <1>0, IdsUnchanged DEF idsVars
<1>3. FreshTypeOK'
  <2>1. inbox' \subseteq Entries BY <1>0 DEF FreshTypeOK, Frames
  <2> QED BY <1>0, <2>1 DEF FreshTypeOK
<1>4. AllSettled' BY <1>0 DEF AllSettled, Settled
<1>5. Traced' BY <1>1 DEF FreshInv, Support, Traced
<1>6. Past' BY <1>1 DEF FreshInv, Support, Past
<1>7. Agreed' => Agreed BY DEF Agreed, Recorded
<1>8. OwnChecks' BY <1>7 DEF FreshInv, OwnChecks
<1>9. LeftAlone' BY <1>1, <1>7 DEF FreshInv, LeftAlone
<1>a. DueListed' BY <1>1, <1>7 DEF FreshInv, DueListed
<1> QED BY <1>2, <1>3, <1>4, <1>5, <1>6, <1>8, <1>9, <1>a DEF FreshInv, Support

LEMMA PollStep ==
  ASSUME FreshInv, NEW t \in Threads, getUnfreshSlaveInfos(t)
  PROVE  FreshInv'
<1> DEFINE asked == {z \in Present : zones[z].type # "other"}
           f == [op |-> "poll", tree |-> zones, now |-> clock, was |-> confirmed,
                 todo |-> asked, out |-> {}]
<1>0. FreshTypeOK /\ Past BY DEF FreshInv, Support
<1>1. asked \in SUBSET Zones BY DEF Present
<1>2. \A z \in Zones : zones[z].type = "slave" => z \in asked BY DEF Present
<1>3. frame' = [frame EXCEPT ![t] = f] BY DEF getUnfreshSlaveInfos
<1> HIDE DEF asked
<1>4. f \in Frames BY <1>0, <1>1 DEF FreshTypeOK, Frames
<1>5. \A z \in Zones : f.was[z] <= confirmed[z] BY <1>0, Bounds DEF FreshTypeOK
<1>6. /\ f.out = {} /\ \A z \in Zones : f.tree[z].type = "slave" => z \in f.todo
  BY <1>2
<1> HIDE DEF f
<1>7. UNCHANGED <<table, told, checks, inbox, patches, zones, clock, confirmed, extras>>
  BY DEF getUnfreshSlaveInfos, pdns
<1> QED BY <1>3, <1>4, <1>5, <1>6, <1>7, FrameStep

\* The handler fails, or has answered.
LEMMA IdleAgain ==
  ASSUME FreshInv, NEW t \in Threads, frame' = [frame EXCEPT ![t] = Idle],
         inbox' \in {inbox, frame[t].out}, UNCHANGED patches,
         UNCHANGED <<table, told, checks, zones, clock, confirmed, extras>>
  PROVE  FreshInv'
<1>1. \A z \in Zones : Idle.was[z] <= confirmed[z]
  <2>1. confirmed \in [Zones -> Times \union {0}] BY DEF FreshInv, Support, FreshTypeOK
  <2>2. ASSUME NEW z \in Zones PROVE confirmed[z] \in Nat
    <3>1. confirmed[z] \in Times \union {0} BY <2>1
    <3> QED BY <3>1, TimeNat
  <2> QED BY <2>2, IdleFrame
<1> QED BY <1>1, IdleFrame, FrameStep

LEMMA NextZoneStep ==
  ASSUME FreshInv, NEW t \in Threads, NextZone(t)
  PROVE  FreshInv'
<1>1. PICK z \in frame[t].todo :
        IF frame[t].tree[z].type = "untyped" \/ z \notin Present
        THEN Fail(t) /\ UNCHANGED table
        ELSE Call(t, z) /\ UNCHANGED frame
  BY DEF NextZone
<1>2. UNCHANGED <<told, checks, pdns, zones, clock, confirmed, extras>> BY DEF NextZone
<1>3. FreshTypeOK /\ z \in Zones BY DEF FreshInv, Support, FreshTypeOK, Frames
<1>4. CASE Fail(t) /\ UNCHANGED table BY <1>2, <1>4, IdleAgain DEF Fail, pdns
<1>5. CASE Call(t, z) /\ UNCHANGED frame
  <2>1. extras' \in 0..MaxExtras BY <1>2, <1>3 DEF FreshTypeOK
  <2> QED BY <1>2, <1>3, <1>5, <2>1, TableKeeps
<1> QED BY <1>1, <1>4, <1>5

\* While every pair is the table's, the check recorded under the id of a zone is the zone's
\* last confirmation.
LEMMA LastCheckIsOwn ==
  ASSUME FreshInv, Agreed, NEW z \in Zones, domainIds[z] # 0
  PROVE  LastCheck(domainIds[z]) = confirmed[z]
<1>0. domainIds \in [Zones -> Nat] BY DEF FreshInv, Support, Ids, IdsInv, IdsTypeOK
<1>1. CASE domainIds[z] \in DOMAIN checks BY <1>1 DEF LastCheck, FreshInv, OwnChecks
<1>2. CASE domainIds[z] \notin DOMAIN checks
  <2>1. ASSUME confirmed[z] # 0 PROVE FALSE
    <3>1. PICK i \in DOMAIN checks : <<z, i>> \in told BY <2>1 DEF FreshInv, Support, Traced
    <3>2. <<z, i>> \in Recorded BY <3>1 DEF Agreed
    <3>3. i = domainIds[z] BY <1>0, <3>2, RecordedPair
    <3> QED BY <1>2, <3>3
  <2> QED BY <1>2, <2>1 DEF LastCheck
<1> QED BY <1>1, <1>2

LEMMA ListStep ==
  ASSUME FreshInv, NEW t \in Threads, List(t)
  PROVE  FreshInv'
<1> DEFINE z  == call[t].zone
           id == call[t].id
           f  == frame[t]
           r  == f.tree[z].refresh
           listed == r = NoData \/ Passed(f.now, LastCheck(id), r)
           more   == IF listed THEN f.out \union {<<z, id>>} ELSE f.out
           g  == [f EXCEPT !.todo = @ \ {z}, !.out = more]
<1>0. /\ Ids /\ FreshTypeOK /\ AllSettled /\ Traced /\ Past
      /\ domainIds \in [Zones -> Nat] /\ frame \in [Threads -> Frames] /\ f \in Frames
      /\ confirmed \in [Zones -> Times \union {0}]
  BY DEF FreshInv, Support, FreshTypeOK, Ids, IdsInv, IdsTypeOK
<1>1. /\ call' = [call EXCEPT ![t] = NoCall] /\ call[t].pc = "found" /\ f.op = "poll"
      /\ told' = told \union {<<z, id>>}
      /\ UNCHANGED <<domainIds, checks, pdns, zones, clock, confirmed, extras>>
  BY DEF List
<1>2. Ids' /\ AllSettled' /\ (Agreed' => Agreed) /\ z \in Zones /\ id \in Nat \ {0}
  BY <1>0, <1>1, IdsTold
<1>3. frame' = [frame EXCEPT ![t] = g] BY <1>0 DEF List
<1>4. /\ r \in Nat /\ confirmed[z] \in Nat /\ f.was[z] \in Nat /\ f.now \in Nat
      /\ confirmed[z] <= MaxTime
  <2>1. f.tree[z] \in ZoneStates BY <1>0, <1>2 DEF Frames
  <2>2. /\ confirmed[z] \in Times \union {0} /\ f.was[z] \in Times \union {0}
        /\ f.now \in Times \union {0}
    BY <1>0, <1>2 DEF Frames
  <2>3. r \in Nat BY <2>1, ZoneStateParts
  <2> QED BY <2>2, <2>3, TimeNat
<1>5. f.out \in SUBSET Entries /\ f.todo \in SUBSET Zones BY <1>0 DEF Frames
<1>6. more \in SUBSET Entries BY <1>2, <1>5 DEF Entries
<1>7. /\ g \in Frames /\ g.op = "poll" /\ g.tree = f.tree /\ g.now = f.now /\ g.was = f.was
      /\ g.todo = f.todo \ {z} /\ g.out = more
  <2> HIDE DEF more
  <2> QED BY <1>0, <1>1, <1>5, <1>6 DEF Frames
<1>8. ASSUME Agreed' PROVE LastCheck(id) = confirmed[z]
  <2>1. <<z, id>> \in Recorded BY <1>1, <1>8 DEF Agreed, Recorded
  <2>2. domainIds[z] = id BY <1>0, <2>1, RecordedPair
  <2> QED BY <1>2, <1>8, <2>2, LastCheckIsOwn
<1> HIDE DEF g
<1>9. \A u \in Threads : frame'[u] = IF u = t THEN g ELSE frame[u] BY <1>0, <1>3
<1>a. FreshTypeOK'
  <2>1. frame' \in [Threads -> Frames] BY <1>0, <1>3, <1>7
  <2> QED BY <1>0, <1>1, <2>1 DEF FreshTypeOK, pdns
<1>b. Traced'
  <2>1. more \subseteq told' BY <1>0, <1>1 DEF Traced
  <2> HIDE DEF more
  <2> QED BY <1>0, <1>1, <1>7, <1>9, <2>1 DEF Traced, pdns
<1>c. Past' BY <1>0, <1>1, <1>7, <1>9 DEF Past
<1>d. OwnChecks' BY <1>1, <1>2 DEF FreshInv, OwnChecks
<1>e. LeftAlone'
  <2> SUFFICES ASSUME Agreed', NEW u \in Threads, NEW p \in frame'[u].out,
                      frame'[u].tree[p[1]].refresh # NoData,
                      MaxTime + frame'[u].tree[p[1]].refresh < Word
               PROVE  frame'[u].now > frame'[u].was[p[1]] + frame'[u].tree[p[1]].refresh
    BY DEF LeftAlone
  <2>1. CASE u # t BY <1>2, <1>9, <2>1 DEF FreshInv, LeftAlone
  <2>2. CASE u = t /\ p \in f.out BY <1>2, <1>7, <1>9, <2>2 DEF FreshInv, LeftAlone
  <2>3. CASE u = t /\ p \notin f.out
    <3>1. p = <<z, id>> /\ listed BY <1>7, <1>9, <2>3
    <3>2. r # NoData /\ MaxTime + r < Word BY <1>7, <1>9, <2>3, <3>1
    <3>3. f.now > (confirmed[z] + r) % Word BY <1>8, <3>1, <3>2 DEF Passed
    <3>4. confirmed[z] + r \in Nat /\ confirmed[z] + r < Word BY <1>4, <3>2, Bounds
    <3>5. f.now > confirmed[z] + r BY <3>3, <3>4, NoWrap, Bounds
    <3>6. f.was[z] <= confirmed[z] BY <1>0, <1>2 DEF Past
    <3>7. f.now > f.was[z] + r BY <1>4, <3>5, <3>6
    <3> QED BY <1>7, <1>9, <2>3, <3>1, <3>7
  <2> QED BY <2>1, <2>2, <2>3
<1>f. DueListed'
  <2> SUFFICES ASSUME Agreed', NEW u \in Threads, NEW y \in Zones,
                      frame'[u].op = "poll", frame'[u].tree[y].type = "slave", y \notin frame'[u].todo,
                      \/ frame'[u].tree[y].refresh = NoData
                      \/ frame'[u].now > confirmed[y] + frame'[u].tree[y].refresh
               PROVE  \E p \in frame'[u].out : p[1] = y
    BY <1>1 DEF DueListed
  <2>1. CASE u # t BY <1>2, <1>9, <2>1 DEF FreshInv, DueListed
  <2>2. CASE u = t /\ y # z
    <3>1. /\ y \notin f.todo /\ f.tree[y].type = "slave"
          /\ f.tree[y].refresh = NoData \/ f.now > confirmed[y] + f.tree[y].refresh
      BY <1>7, <1>9, <2>2
    <3>2. \E p \in f.out : p[1] = y BY <1>1, <1>2, <3>1 DEF FreshInv, DueListed
    <3>3. f.out \subseteq more OBVIOUS
    <3> QED BY <1>7, <1>9, <2>2, <3>2, <3>3
  <2>3. CASE u = t /\ y = z
    <3>1. r = NoData \/ f.now > confirmed[z] + r BY <1>7, <1>9, <2>3
    <3>2. ASSUME r # NoData PROVE Passed(f.now, LastCheck(id), r)
      <4>1. (confirmed[z] + r) % Word <= confirmed[z] + r /\ (confirmed[z] + r) % Word \in Nat
        BY <1>4, WrapLower, Bounds
      <4>2. f.now > (confirmed[z] + r) % Word BY <1>4, <3>1, <3>2, <4>1
      <4> QED BY <1>8, <4>2 DEF Passed
    <3>3. <<z, id>> \in more BY <3>2
    <3> QED BY <1>7, <1>9, <2>3, <3>3
  <2> QED BY <2>1, <2>2, <2>3
<1> QED BY <1>2, <1>a, <1>b, <1>c, <1>d, <1>e, <1>f DEF FreshInv, Support

\* A confirmation is recorded under the id that was sent: while every pair is the table's,
\* under the id of the zone that was meant and of no other.
LEMMA SetFreshStep ==
  ASSUME FreshInv, NEW t \in Threads, setFresh(t)
  PROVE  FreshInv'
<1>0. /\ Ids /\ FreshTypeOK /\ AllSettled /\ Traced /\ Past
      /\ domainIds \in [Zones -> Nat] /\ OneZonePerId
      /\ confirmed \in [Zones -> Times \union {0}] /\ clock \in Times
  BY DEF FreshInv, Support, FreshTypeOK, Ids, IdsInv, IdsTypeOK
<1>1. PICK p \in patches : /\ checks' = Fresh(p[2])
                           /\ confirmed' = [confirmed EXCEPT ![p[1]] = clock]
                           /\ patches' = patches \ {p}
  BY DEF setFresh
<1>2. UNCHANGED <<domainIds, call, told, frame, inbox, zones, clock, extras>>
  BY DEF setFresh, table
<1>3. p \in told /\ p[1] \in Zones /\ p[2] \in Nat \ {0} /\ p = <<p[1], p[2]>>
  BY <1>0 DEF Traced, FreshTypeOK, Entries
<1>4. /\ DOMAIN checks' = DOMAIN checks \union {p[2]}
      /\ \A i \in DOMAIN checks' : checks'[i] = IF i = p[2] THEN clock ELSE checks[i]
  BY <1>1 DEF Fresh
<1>5. \A z \in Zones : confirmed'[z] = IF z = p[1] THEN clock ELSE confirmed[z]
  BY <1>0, <1>1
<1>6. Ids' BY <1>0, <1>2, IdsUnchanged DEF idsVars
<1>7. FreshTypeOK'
  <2>1. confirmed' \in [Zones -> Times \union {0}] BY <1>0, <1>1
  <2>2. DOMAIN checks' \subseteq Nat \ {0} BY <1>0, <1>3, <1>4 DEF FreshTypeOK
  <2>3. checks \in [DOMAIN checks -> Times] BY <1>0 DEF FreshTypeOK
  <2>4. checks' \in [DOMAIN checks' -> Times]
    <3>1. checks' = [i \in DOMAIN checks \union {p[2]} |-> IF i = p[2] THEN clock ELSE checks[i]]
      BY <1>1 DEF Fresh
    <3>2. \A i \in DOMAIN checks \union {p[2]} : (IF i = p[2] THEN clock ELSE checks[i]) \in Times
      BY <1>0, <2>3
    <3> QED BY <1>4, <3>1, <3>2
  <2> QED BY <1>0, <1>1, <1>2, <2>1, <2>2, <2>4 DEF FreshTypeOK
<1>8. AllSettled' BY <1>0, <1>2 DEF AllSettled, Settled
<1>9. Traced'
  <2>1. \A i \in DOMAIN checks' : \E z \in Zones : <<z, i>> \in told'
    <3>1. <<p[1], p[2]>> \in told BY <1>3
    <3> QED BY <1>0, <1>2, <1>3, <1>4, <3>1 DEF Traced
  <2>2. \A z \in Zones : confirmed'[z] # 0 => \E i \in DOMAIN checks' : <<z, i>> \in told'
    <3> SUFFICES ASSUME NEW z \in Zones, confirmed'[z] # 0
                 PROVE \E i \in DOMAIN checks' : <<z, i>> \in told
      BY <1>2
    <3>1. CASE z = p[1] BY <1>3, <1>4, <3>1
    <3>2. CASE z # p[1] BY <1>0, <1>4, <1>5, <3>2 DEF Traced
    <3> QED BY <3>1, <3>2
  <2> QED BY <1>0, <1>1, <1>2, <2>1, <2>2 DEF Traced
<1>a. \A z \in Zones : confirmed[z] \in Nat /\ confirmed'[z] \in Nat /\ confirmed[z] <= confirmed'[z]
                      /\ confirmed'[z] <= clock
  <2> SUFFICES ASSUME NEW z \in Zones
               PROVE /\ confirmed[z] \in Nat /\ confirmed'[z] \in Nat /\ confirmed[z] <= confirmed'[z]
                     /\ confirmed'[z] <= clock
    OBVIOUS
  <2>1. confirmed[z] \in Nat /\ clock \in Nat BY <1>0, TimeNat
  <2>2. confirmed[z] <= clock BY <1>0 DEF Past
  <2> QED BY <1>5, <2>1, <2>2
<1>b. Past'
  <2>1. ASSUME NEW u \in Threads, NEW z \in Zones PROVE frame[u].was[z] <= confirmed'[z]
    <3>1. frame[u].was[z] <= confirmed[z] BY <1>0 DEF Past
    <3>2. frame[u].was[z] \in Nat BY <1>0, TimeNat DEF FreshTypeOK, Frames
    <3> QED BY <1>a, <3>1, <3>2
  <2> QED BY <1>2, <1>a, <2>1 DEF Past
<1>c. Agreed' => Agreed BY <1>2 DEF Agreed, Recorded
<1>d. OwnChecks'
  <2> SUFFICES ASSUME Agreed', NEW z \in Zones, domainIds[z] \in DOMAIN checks'
               PROVE checks'[domainIds[z]] = confirmed'[z]
    BY <1>2 DEF OwnChecks
  <2>1. p \in Recorded BY <1>3, <1>c DEF Agreed
  <2>2. domainIds[p[1]] = p[2] BY <1>0, <2>1, RecordedPair
  <2>3. CASE domainIds[z] = p[2]
    <3>1. z = p[1] BY <1>0, <1>3, <2>2, <2>3 DEF OneZonePerId
    <3> QED BY <1>4, <1>5, <2>3, <3>1
  <2>4. CASE domainIds[z] # p[2]
    <3>1. z # p[1] BY <2>2, <2>4
    <3>2. checks[domainIds[z]] = confirmed[z] BY <1>4, <1>c, <2>4 DEF FreshInv, OwnChecks
    <3> QED BY <1>4, <1>5, <2>4, <3>1, <3>2
  <2> QED BY <2>3, <2>4
<1>e. LeftAlone' BY <1>2, <1>c DEF FreshInv, LeftAlone
<1>f. DueListed'
  <2> SUFFICES ASSUME Agreed', NEW u \in Threads, NEW z \in Zones,
                      frame[u].op = "poll", frame[u].tree[z].type = "slave", z \notin frame[u].todo,
                      \/ frame[u].tree[z].refresh = NoData
                      \/ frame[u].now > confirmed'[z] + frame[u].tree[z].refresh
               PROVE  \E q \in frame[u].out : q[1] = z
    BY <1>2 DEF DueListed
  <2>1. frame[u].now \in Nat /\ frame[u].tree[z].refresh \in Nat
    <3>1. frame[u].now \in Times \union {0} /\ frame[u].tree[z] \in ZoneStates
      BY <1>0 DEF FreshTypeOK, Frames
    <3> QED BY <3>1, TimeNat, ZoneStateParts
  <2>2. \/ frame[u].tree[z].refresh = NoData
        \/ frame[u].now > confirmed[z] + frame[u].tree[z].refresh
    BY <1>a, <2>1
  <2> QED BY <1>c, <2>2 DEF FreshInv, DueListed
<1> QED BY <1>6, <1>7, <1>8, <1>9, <1>b, <1>d, <1>e, <1>f DEF FreshInv, Support

-----------------------------------------------------------------------------
(* Steps of PowerDNS, time and the operator *)

LEMMA WorldStep ==
  ASSUME FreshInv, UNCHANGED <<backend, confirmed>>, inbox' \subseteq inbox,
         patches' \subseteq patches \union inbox, zones' \in [Zones -> ZoneStates],
         clock' \in Times, clock <= clock', extras' \in 0..MaxExtras
  PROVE  FreshInv'
<1> USE DEF backend, table
<1>0. Ids /\ FreshTypeOK /\ AllSettled /\ Traced /\ Past BY DEF FreshInv, Support
<1>1. Ids' BY <1>0, IdsUnchanged DEF idsVars
<1>2. FreshTypeOK' BY <1>0 DEF FreshTypeOK
<1>3. AllSettled' BY <1>0 DEF AllSettled, Settled
<1>4. Traced' BY <1>0 DEF Traced
<1>5. Past'
  <2>1. ASSUME NEW z \in Zones PROVE confirmed[z] <= clock'
    <3>1. confirmed[z] \in Nat /\ clock \in Nat /\ clock' \in Nat BY <1>0, TimeNat DEF FreshTypeOK
    <3>2. confirmed[z] <= clock BY <1>0 DEF Past
    <3> QED BY <3>1, <3>2
  <2> QED BY <1>0, <2>1 DEF Past
<1>6. Agreed' => Agreed BY DEF Agreed, Recorded
<1>7. OwnChecks' BY <1>6 DEF FreshInv, OwnChecks
<1>8. LeftAlone' BY <1>6 DEF FreshInv, LeftAlone
<1>9. DueListed' BY <1>6 DEF FreshInv, DueListed
<1> QED BY <1>1, <1>2, <1>3, <1>4, <1>5, <1>7, <1>8, <1>9 DEF FreshInv, Support

LEMMA OutsideStep ==
  ASSUME FreshInv, Check \/ Tick \/ Edit \/ LosePatch
  PROVE  FreshInv'
<1>0. /\ zones \in [Zones -> ZoneStates] /\ clock \in Times /\ extras \in 0..MaxExtras
      /\ clock \in Nat /\ inbox \subseteq Entries
  BY TimeNat DEF FreshInv, Support, FreshTypeOK
<1>1. ASSUME Extra PROVE extras' \in 0..MaxExtras BY <1>0, <1>1, Bounds DEF Extra
<1>2. CASE Check
  <2>1. PICK p \in inbox :
          /\ inbox' = inbox \ {p}
          /\ \/ patches' = patches \union {p} /\ UNCHANGED zones
             \/ /\ \E r \in Refreshes : zones' = [zones EXCEPT ![p[1]] = Slave(r)]
                /\ patches' = patches \union {p}
             \/ UNCHANGED <<patches, zones>>
          /\ UNCHANGED <<backend, clock, confirmed, extras>>
    BY <1>2 DEF Check
  <2>2. p[1] \in Zones BY <1>0 DEF Entries
  <2>3. \A r \in Refreshes : Slave(r) \in ZoneStates BY DEF ZoneStates
  <2>4. zones' \in [Zones -> ZoneStates] BY <1>0, <2>1, <2>2, <2>3
  <2> QED BY <1>0, <2>1, <2>4, WorldStep
<1>3. CASE Tick
  <2>1. clock' \in Times /\ clock <= clock' BY <1>0, <1>3, Bounds DEF Tick, Times
  <2> QED BY <1>0, <1>3, <2>1, WorldStep DEF Tick, pdns
<1>4. CASE Edit
  <2>1. \A s \in {Plain("absent"), Plain("untyped"), Plain("other"), Slave(NoData)} : s \in ZoneStates
    BY DEF ZoneStates
  <2>2. zones' \in [Zones -> ZoneStates] BY <1>0, <1>4, <2>1 DEF Edit
  <2> QED BY <1>0, <1>1, <1>4, <2>2, WorldStep DEF Edit, pdns
<1>5. CASE LosePatch BY <1>0, <1>1, <1>5, WorldStep DEF LosePatch
<1> QED BY <1>2, <1>3, <1>4, <1>5

LEMMA FreshStep == FreshInv /\ [FreshNext]_vars => FreshInv'
<1> SUFFICES ASSUME FreshInv, [FreshNext]_vars PROVE FreshInv' OBVIOUS
<1>0. extras \in 0..MaxExtras BY DEF FreshInv, Support, FreshTypeOK
<1>1. ASSUME NEW t \in Threads, Request(t) PROVE FreshInv'
  <2>1. extras' \in 0..MaxExtras BY <1>0, <1>1, Bounds DEF Request, Extra
  <2>2. \E z \in Zones : Call(t, z) BY <1>1 DEF Request, Present
  <2> QED BY <1>1, <2>1, <2>2, TableKeeps DEF Request, Other
<1>2. ASSUME NEW t \in Threads, LookUp(t) PROVE FreshInv'
  BY <1>0, <1>2, TableKeeps DEF LookUp, Other
<1>3. ASSUME NEW t \in Threads, Answer(t) PROVE FreshInv'
  BY <1>3, IdleAgain DEF Answer
<1>4. CASE UNCHANGED vars
  <2>1. FreshTypeOK BY DEF FreshInv, Support
  <2> QED BY <1>0, <1>4, <2>1, WorldStep, TimeNat DEF vars, pdns, FreshTypeOK
<1>5. CASE FreshNext
  BY <1>1, <1>2, <1>3, <1>5, RepliedStep, PollStep, NextZoneStep, ListStep, SetFreshStep,
     OutsideStep DEF FreshNext
<1> QED BY <1>4, <1>5

-----------------------------------------------------------------------------
(* Theorems *)

\* The invariant holds: the table stays a bijection beside polls and confirmations, what
\* PowerDNS holds comes from handlers, and the three properties below.
THEOREM FreshCorrect == FreshSpec => []FreshInv
BY FreshInitially, FreshStep, PTL DEF FreshSpec

\* No zone counts as fresh because another one was confirmed.
THEOREM ChecksAreOwn == FreshSpec => []OwnChecks
<1>1. FreshInv => OwnChecks BY DEF FreshInv
<1> QED BY <1>1, FreshCorrect, PTL

\* No zone that has data is listed before its interval has passed.
THEOREM NoneListedEarly == FreshSpec => []LeftAlone
<1>1. FreshInv => LeftAlone BY DEF FreshInv
<1> QED BY <1>1, FreshCorrect, PTL

\* Every slave that is due is listed.
THEOREM AllDueListed == FreshSpec => []DueListed
<1>1. FreshInv => DueListed BY DEF FreshInv
<1> QED BY <1>1, FreshCorrect, PTL

\* Only getDomainID changes the table, whichever handler calls it.
LEMMA FreshTableStep == FreshInv /\ [FreshNext]_vars => TableStep
<1> SUFFICES ASSUME FreshInv, [FreshNext]_vars PROVE TableStep OBVIOUS
<1>1. ASSUME NEW t \in Threads, LookUp(t) PROVE TableStep
  <2>1. IdsNext BY <1>1 DEF LookUp, IdsNext
  <2> QED BY <2>1, StepsOfTheTable DEF FreshInv, Support
<1>2. ASSUME NEW t \in Threads,
             \/ Request(t) \/ Replied(t) \/ getUnfreshSlaveInfos(t) \/ NextZone(t)
             \/ List(t) \/ Answer(t) \/ setFresh(t)
      PROVE  domainIds' = domainIds
  BY <1>2 DEF Request, Replied, Return, getUnfreshSlaveInfos, NextZone, Call, List, Answer,
              setFresh, table
<1>3. ASSUME Check \/ Tick \/ Edit \/ LosePatch PROVE domainIds' = domainIds
  BY <1>3 DEF Check, Tick, Edit, LosePatch, backend, table
<1>4. CASE UNCHANGED vars BY <1>4 DEF vars, backend, table, TableStep
<1>5. CASE FreshNext BY <1>1, <1>2, <1>3, <1>5 DEF FreshNext, TableStep
<1> QED BY <1>4, <1>5

\* The table allocates ids beside polls and confirmations, too: a zone's entry is never
\* changed, removed or shared.
THEOREM FreshTable == FreshSpec => TableAllocates
<1>1. FreshInit => TableIds!Init BY DEF FreshInit, IdsInit, TableIds!Init, Recorded
<1>2. FreshInv /\ [FreshNext]_vars => [TableIds!Next]_Recorded
  <2> SUFFICES ASSUME FreshInv, [FreshNext]_vars PROVE [TableIds!Next]_Recorded OBVIOUS
  <2>1. domainIds \in [Zones -> Nat] BY DEF FreshInv, Support, Ids, IdsInv, IdsTypeOK
  <2> QED BY <2>1, FreshTableStep, TableStepGives
<1> QED BY <1>1, <1>2, FreshInitially, FreshStep, PTL DEF FreshSpec, TableAllocates, TableIds!Spec

\* The ids handed out stay a bijection while polls look them up.
THEOREM FreshIds == FreshSpec => []IdsInv
<1>1. FreshInv => IdsInv BY DEF FreshInv, Support, Ids
<1> QED BY <1>1, FreshCorrect, PTL
=============================================================================
