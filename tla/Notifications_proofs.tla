------------------------- MODULE Notifications_proofs -------------------------
(* Theorems about Notifications, for every set of zones, threads and serials and every *)
(* number of edits, requests and faults.                                               *)
EXTENDS Notifications, DomainIds_proofs

\* Where what PowerDNS and the backend hold comes from: a zone the backend listed, and an
\* acknowledgement of a serial that was announced.
Traced ==
    /\ \A e \in inbox : <<e.zone, e.id>> \in told
    /\ \A p \in patches : \E z \in Zones : <<z, p[1]>> \in told /\ <<z, p[2]>> \in announced
    /\ \A i \in DOMAIN notified :
         \E z \in Zones : <<z, i>> \in told /\ <<z, notified[i]>> \in announced

Notif == Ids /\ NotifTypeOK /\ Traced

LEMMA NotifInitially == NotifInit => Notif
<1> SUFFICES ASSUME NotifInit PROVE Notif OBVIOUS
<1> USE DEF NotifInit
<1>1. Ids BY IdsInitially
<1>2. Plain("absent") \in ZoneStates BY KindsAssumption DEF ZoneStates, Plain
<1>3. Idle \in Frames BY <1>2 DEF Idle, Frames
<1>4. DOMAIN <<>> = {} OBVIOUS
<1>5. notified \in [DOMAIN notified -> Serials \union {0}] OBVIOUS
<1>6. zones \in [Zones -> ZoneStates] BY KindsAssumption
<1>7. NotifTypeOK BY <1>3, <1>4, <1>5, <1>6, BoundsAssumption DEF NotifTypeOK
<1>8. Traced BY <1>4 DEF Traced
<1> QED BY <1>1, <1>7, <1>8 DEF Notif

\* The requests that answer with zones leave the ids, and what the clients know, alone.
LEMMA AcceptStep ==
  ASSUME Notif, NEW t \in Threads, NEW op \in {"updated", "domains"},
         NEW tree \in [Zones -> ZoneStates], NEW asked \in SUBSET Zones,
         Accept(t, op, tree, asked), asks' \in 0..MaxAsks
  PROVE  Notif'
<1> USE DEF Accept, table, pdns, world
<1>1. Ids' BY DEF Notif, Ids, IdsInv, IdsTypeOK, CallShape, OneZonePerId, DenseIds, Highest, getNewId
<1>2. frame' \in [Threads -> Frames]
  <2>1. [op |-> op, tree |-> tree, todo |-> asked, out |-> {}, heard |-> TRUE] \in Frames
    BY DEF Frames
  <2> QED BY <2>1 DEF Notif, NotifTypeOK
<1>3. NotifTypeOK' BY <1>2 DEF Notif, NotifTypeOK
<1>4. Traced' BY DEF Notif, Traced
<1> QED BY <1>1, <1>3, <1>4 DEF Notif

\* A step on the table, and on the frames, that tells nobody anything.
LEMMA QuietStep ==
  ASSUME Notif, Ids', frame' \in [Threads -> Frames],
         UNCHANGED <<told, notified, pdns, world, asks>>
  PROVE  Notif'
<1>1. NotifTypeOK' BY DEF Notif, NotifTypeOK, pdns, world
<1>2. Traced' BY DEF Notif, Traced, pdns
<1> QED BY <1>1, <1>2 DEF Notif

LEMMA IdleFrame == Idle \in Frames
<1>1. Plain("absent") \in ZoneStates BY KindsAssumption DEF ZoneStates, Plain
<1> QED BY <1>1 DEF Idle, Frames

\* A step of the table is one of DomainIds.
LEMMA TableStepIds ==
  ASSUME Ids, NEW t \in Threads, UNCHANGED told,
         getDomainID(t) \/ \E z \in Zones : Call(t, z)
  PROVE  Ids'
<1>1. IdsNext BY DEF IdsNext
<1> QED BY <1>1, IdsStep

LEMMA IdsUnchanged == Ids /\ UNCHANGED <<domainIds, call, told>> => Ids'
BY IdsStep DEF idsVars

\* A backend that starts again has no ids; the clients keep what they were told.
LEMMA IdsForgotten ==
  ASSUME Ids, UNCHANGED told,
         domainIds' = [z \in Zones |-> 0], call' = [t \in Threads |-> NoCall]
  PROVE  Ids'
<1>1. IdsTypeOK'
  <2>1. NoCall \in Calls BY DEF NoCall, Calls
  <2> QED BY <2>1 DEF Ids, IdsInv, IdsTypeOK
<1>2. CallShape' /\ OneZonePerId' BY DEF CallShape, OneZonePerId, NoCall
<1>3. ASSUME Zones # {} PROVE DenseIds' /\ Highest(domainIds)' \in Nat
  <2>1. Range(domainIds') \union {0} = 0..0 BY <1>3 DEF Range
  <2>2. Highest(domainIds') = 0 BY <1>3, <2>1, HighestOf
  <2>3. \A t \in Threads : call'[t].pc = "none" BY DEF NoCall
  <2> QED BY <2>1, <2>2, <2>3 DEF DenseIds
<1> QED BY <1>1, <1>2, <1>3 DEF Ids, IdsInv

\* The steps of a handler that answers with zones.
LEMMA StepStep ==
  ASSUME Notif, NEW t \in Threads, Step(t)
  PROVE  Notif'
<1> USE DEF table, pdns, world
<1>0. /\ Ids /\ NotifTypeOK /\ frame \in [Threads -> Frames] /\ call \in [Threads -> Calls]
      /\ frame[t] \in Frames /\ CallShape
  BY DEF Notif, NotifTypeOK, Ids, IdsInv, IdsTypeOK
<1>1. CASE NextZone(t)
  <2>1. PICK z \in frame[t].todo :
          IF frame[t].tree[z].type = "untyped"
          THEN Fail(t) /\ UNCHANGED table
          ELSE Call(t, z) /\ UNCHANGED frame
    BY <1>1 DEF NextZone
  <2>2. UNCHANGED <<told, notified, pdns, world, asks>> BY <1>1 DEF NextZone
  <2>3. z \in Zones BY <1>0 DEF Frames
  <2>4. CASE Fail(t) /\ UNCHANGED table
    <3>1. Ids' BY <1>0, <2>2, <2>4, IdsUnchanged
    <3>2. frame' \in [Threads -> Frames] BY <1>0, <2>4, IdleFrame DEF Fail
    <3> QED BY <2>2, <3>1, <3>2, QuietStep
  <2>5. CASE Call(t, z) /\ UNCHANGED frame
    <3>1. Ids' BY <1>0, <2>2, <2>3, <2>5, TableStepIds
    <3> QED BY <1>0, <2>2, <2>5, <3>1, QuietStep
  <2> QED BY <2>1, <2>4, <2>5
<1>2. CASE LookUp(t)
  <2>1. UNCHANGED <<told, notified, pdns, world, asks>> /\ frame' = frame BY <1>2 DEF LookUp
  <2>2. Ids' BY <1>0, <1>2, TableStepIds DEF LookUp
  <2> QED BY <1>0, <2>1, <2>2, QuietStep
<1>3. CASE List(t)
  <2> DEFINE z      == call[t].zone
             serial == IF frame[t].op = "updated" THEN frame[t].tree[z].soa ELSE 0
             entry  == [zone |-> z, id |-> call[t].id, serial |-> serial]
             more   == IF frame[t].op = "domains" \/ News(entry.id, serial)
                       THEN frame[t].out \union {entry} ELSE frame[t].out
  <2>1. z \in Zones BY <1>0, <1>3 DEF CallShape, List
  <2>2. call[t].id \in Nat \ {0}
    <3>1. call[t].id \in 1..getNewId(domainIds) /\ getNewId(domainIds) \in Nat
      BY <1>0, <1>3, <2>1 DEF Ids, IdsInv, DenseIds, List, getNewId
    <3> QED BY <3>1
  <2>3. UNCHANGED <<domainIds, told, notified, pdns, world, asks>> /\ call' = [call EXCEPT ![t] = NoCall]
    BY <1>3 DEF List
  <2>4. Ids'
    <3>1. NoCall \in Calls /\ NoCall.pc = "none" BY DEF NoCall, Calls
    <3>2. told' \subseteq Zones \X (Nat \ {0}) BY <1>0, <2>3 DEF Ids, IdsInv, IdsTypeOK
    <3> QED BY <1>0, <2>3, <3>1, <3>2, TableUnchanged
  <2>5. serial \in Serials \union {NoSerial, 0}
    BY <1>0, <2>1 DEF Frames, ZoneStates, Master, Plain
  <2>6. \/ Fail(t)
        \/ /\ serial # NoSerial
           /\ frame' = [frame EXCEPT ![t].todo = @ \ {z}, ![t].out = more]
    BY <1>3 DEF List
  <2>7. CASE Fail(t)
    <3>1. frame' \in [Threads -> Frames] BY <1>0, <2>7, IdleFrame DEF Fail
    <3> QED BY <2>3, <2>4, <3>1, QuietStep
  <2>8. CASE /\ serial # NoSerial
             /\ frame' = [frame EXCEPT ![t].todo = @ \ {z}, ![t].out = more]
    <3>1. entry \in Entries BY <2>1, <2>2, <2>5, <2>8 DEF Entries
    <3> HIDE DEF entry
    <3>2. frame[t].out \in SUBSET Entries /\ frame[t].todo \in SUBSET Zones BY <1>0 DEF Frames
    <3>3. more \in SUBSET Entries BY <3>1, <3>2
    <3> HIDE DEF more
    <3>4. [frame[t] EXCEPT !.todo = @ \ {z}, !.out = more] \in Frames BY <1>0, <3>2, <3>3 DEF Frames
    <3>5. frame' = [frame EXCEPT ![t] = [frame[t] EXCEPT !.todo = @ \ {z}, !.out = more]]
      BY <1>0, <2>8
    <3>6. frame' \in [Threads -> Frames] BY <1>0, <3>4, <3>5
    <3> QED BY <2>3, <2>4, <3>6, QuietStep
  <2> QED BY <2>6, <2>7, <2>8
<1>4. CASE Answer(t)
  <2> DEFINE news == {<<e.zone, e.id>> : e \in frame[t].out}
  <2>1. /\ frame' = [frame EXCEPT ![t] = Idle]
        /\ UNCHANGED <<domainIds, call, notified, patches, announced, world, asks>>
    BY <1>4 DEF Answer
  <2>2. \/ UNCHANGED <<told, inbox>>
        \/ told' = told \union news /\ inbox' \in {inbox, frame[t].out}
    BY <1>4 DEF Answer
  <2>3. frame[t].out \subseteq Entries BY <1>0 DEF Frames
  <2>4. news \subseteq Zones \X (Nat \ {0}) BY <2>3 DEF Entries
  <2>5. told \subseteq told' /\ told' \subseteq Zones \X (Nat \ {0})
    BY <1>0, <2>2, <2>4 DEF Ids, IdsInv, IdsTypeOK
  <2>6. Ids' BY <1>0, <2>1, <2>5
            DEF Ids, IdsInv, IdsTypeOK, CallShape, OneZonePerId, DenseIds, Highest, getNewId
  <2>7. frame' \in [Threads -> Frames] BY <1>0, <2>1, IdleFrame
  <2>8. NotifTypeOK' BY <1>0, <2>1, <2>2, <2>3, <2>7 DEF NotifTypeOK
  <2>9. \A e \in inbox' : <<e.zone, e.id>> \in told' BY <2>2 DEF Notif, Traced
  <2> QED BY <2>1, <2>5, <2>6, <2>8, <2>9 DEF Notif, Traced
<1> QED BY <1>1, <1>2, <1>3, <1>4 DEF Step

LEMMA NotifStep == Notif /\ [NotifNext]_vars => Notif'
<1> SUFFICES ASSUME Notif, [NotifNext]_vars PROVE Notif' OBVIOUS
<1> USE DEF table, backend, pdns, world
<1>0. /\ Ids /\ NotifTypeOK /\ Traced /\ zones \in [Zones -> ZoneStates]
      /\ Idle.tree \in [Zones -> ZoneStates] /\ frame \in [Threads -> Frames]
  BY IdleFrame DEF Notif, NotifTypeOK, Idle, Frames
<1>1. ASSUME NEW t \in Threads, NEW asked \in SUBSET Zones, Ask(t, asked) PROVE Notif'
  <2>1. asks' \in 0..MaxAsks BY <1>0, <1>1, BoundsAssumption DEF Ask, NotifTypeOK
  <2> QED BY <1>0, <1>1, <2>1, AcceptStep DEF Ask
<1>2. ASSUME NEW t \in Threads, getAllDomains(t) \/ \E z \in Zones : getDomainInfo(t, z)
      PROVE  Notif'
  <2>1. Present \in SUBSET Zones BY DEF Present
  <2> QED BY <1>1, <1>2, <2>1 DEF getAllDomains, getDomainInfo
<1>3. ASSUME NEW t \in Threads, getUpdatedMasters(t) PROVE Notif'
  <2> DEFINE asked == {z \in Present : zones[z].type # "other"}
  <2>1. asked \in SUBSET Zones BY DEF Present
  <2>2. asks' \in 0..MaxAsks BY <1>0, <1>3 DEF getUpdatedMasters, NotifTypeOK
  <2>3. Accept(t, "updated", zones, asked) BY <1>3 DEF getUpdatedMasters
  <2> HIDE DEF asked
  <2> QED BY <1>0, <2>1, <2>2, <2>3, AcceptStep
<1>4. ASSUME NEW t \in Threads, Step(t) PROVE Notif'
  BY <1>4, StepStep
<1>5. ASSUME NEW t \in Threads, setNotified(t) PROVE Notif'
  <2>1. PICK p \in patches : notified' = RecordedSerial(p[1], p[2]) /\ patches' = patches \ {p}
    BY <1>5 DEF setNotified, HandlePatch
  <2>2. UNCHANGED <<domainIds, call, told, frame, inbox, announced, world, asks>>
    BY <1>5 DEF setNotified, HandlePatch
  <2>3. p[1] \in Nat \ {0} /\ p[2] \in Serials \union {0} BY <1>0 DEF NotifTypeOK
  <2>4. \/ notified' = notified
        \/ notified' = Acknowledge(p[1], p[2])
    BY <2>1 DEF RecordedSerial
  <2>5. DOMAIN notified \subseteq Nat \ {0} /\ notified \in [DOMAIN notified -> Serials \union {0}]
    BY <1>0 DEF NotifTypeOK
  <2>6. /\ DOMAIN notified' \subseteq Nat \ {0}
        /\ notified' \in [DOMAIN notified' -> Serials \union {0}]
    BY <2>3, <2>4, <2>5 DEF Acknowledge
  <2>7. \A i \in DOMAIN notified' :
          \/ i = p[1] /\ notified'[i] = p[2]
          \/ i \in DOMAIN notified /\ notified'[i] = notified[i]
    <3>1. CASE notified' = notified BY <3>1
    <3>2. CASE notified' = Acknowledge(p[1], p[2])
      <4>1. DOMAIN notified' = DOMAIN notified \union {p[1]} BY <3>2 DEF Acknowledge
      <4>2. \A i \in DOMAIN notified \union {p[1]} :
              notified'[i] = IF i = p[1] THEN p[2] ELSE notified[i]
        BY <3>2 DEF Acknowledge
      <4> QED BY <4>1, <4>2
    <3> QED BY <2>4, <3>1, <3>2
  <2>8. Traced' BY <1>0, <2>1, <2>2, <2>7 DEF Traced
  <2>9. NotifTypeOK' BY <1>0, <2>1, <2>2, <2>6 DEF NotifTypeOK
  <2> QED BY <1>0, <2>2, <2>8, <2>9, IdsUnchanged DEF Notif
<1>6. CASE Notify
  <2>1. PICK e \in inbox :
          /\ inbox' = inbox \ {e}
          /\ announced' = announced \union {<<e.zone, e.serial>>}
          /\ patches' = patches \union {<<e.id, e.serial>>}
          /\ UNCHANGED <<backend, world, asks>>
    BY <1>6 DEF Notify
  <2>2. e.zone \in Zones /\ e.id \in Nat \ {0} /\ e.serial \in Serials \union {0}
    BY <1>0 DEF NotifTypeOK, Entries
  <2>3. NotifTypeOK' BY <1>0, <2>1, <2>2 DEF NotifTypeOK
  <2>4. <<e.zone, e.id>> \in told BY <1>0 DEF Traced
  <2>5. \A p \in patches' : \E z \in Zones : <<z, p[1]>> \in told' /\ <<z, p[2]>> \in announced'
    BY <1>0, <2>1, <2>2, <2>4 DEF Traced
  <2>6. Traced' BY <1>0, <2>1, <2>5 DEF Traced
  <2> QED BY <1>0, <2>1, <2>3, <2>6, IdsUnchanged DEF Notif
<1>7. CASE Edit
  <2>1. edits' \in 0..MaxEdits BY <1>0, <1>7, BoundsAssumption DEF Edit, NotifTypeOK
  <2>2. zones' \in [Zones -> ZoneStates] BY <1>0, <1>7 DEF Edit
  <2>3. UNCHANGED <<backend, pdns, faults, asks>> BY <1>7 DEF Edit
  <2>4. NotifTypeOK' BY <1>0, <2>1, <2>2, <2>3 DEF NotifTypeOK
  <2>5. Traced' BY <1>0, <2>3 DEF Traced
  <2> QED BY <1>0, <2>3, <2>4, <2>5, IdsUnchanged DEF Notif
<1>8. ASSUME Fault PROVE faults' \in 0..MaxFaults /\ UNCHANGED <<told, announced, zones, edits, asks>>
  BY <1>0, <1>8, BoundsAssumption DEF Fault, NotifTypeOK
<1>9. CASE LosePatch
  <2>1. /\ Fault /\ UNCHANGED <<domainIds, call, notified, frame, inbox>>
        /\ patches' \subseteq patches
    BY <1>9 DEF LosePatch
  <2>2. NotifTypeOK' BY <1>0, <1>8, <2>1 DEF NotifTypeOK
  <2>3. Traced' BY <1>0, <1>8, <2>1 DEF Traced
  <2> QED BY <1>0, <1>8, <2>1, <2>2, <2>3, IdsUnchanged DEF Notif
<1>10. ASSUME NEW t \in Threads, TimeOut(t) PROVE Notif'
  <2>1. Fault /\ UNCHANGED <<domainIds, call, notified, inbox, patches>> BY <1>10 DEF TimeOut
  <2>2. frame' \in [Threads -> Frames] BY <1>0, <1>10 DEF TimeOut, Frames
  <2>3. NotifTypeOK' BY <1>0, <1>8, <2>1, <2>2 DEF NotifTypeOK
  <2>4. Traced' BY <1>0, <1>8, <2>1 DEF Traced
  <2> QED BY <1>0, <1>8, <2>1, <2>3, <2>4, IdsUnchanged DEF Notif
<1>11. CASE RestartBackend
  <2>1. /\ Fault /\ UNCHANGED <<inbox, patches>> /\ domainIds' = [z \in Zones |-> 0]
        /\ call' = [t \in Threads |-> NoCall] /\ frame' = [t \in Threads |-> Idle]
        /\ notified' = <<>>
    BY <1>11 DEF RestartBackend
  <2>2. Ids' BY <1>0, <1>8, <2>1, IdsForgotten
  <2>3. frame' \in [Threads -> Frames] BY <2>1, IdleFrame
  <2>4. DOMAIN notified' = {} /\ notified' \in [DOMAIN notified' -> Serials \union {0}] BY <2>1
  <2>5. NotifTypeOK' BY <1>0, <1>8, <2>1, <2>3, <2>4 DEF NotifTypeOK
  <2>6. Traced' BY <1>0, <1>8, <2>1, <2>4 DEF Traced
  <2> QED BY <2>2, <2>5, <2>6 DEF Notif
<1>12. CASE UNCHANGED vars
  <2>1. UNCHANGED <<domainIds, call, told, notified, frame, inbox, patches, announced,
                    zones, edits, faults, asks>>
    BY <1>12 DEF vars
  <2>2. NotifTypeOK' BY <1>0, <2>1 DEF NotifTypeOK
  <2>3. Traced' BY <1>0, <2>1 DEF Traced
  <2> QED BY <1>0, <2>1, <2>2, <2>3, IdsUnchanged DEF Notif
<1> QED
  BY <1>2, <1>3, <1>4, <1>5, <1>6, <1>7, <1>9, <1>10, <1>11, <1>12 DEF NotifNext

\* A master that the backend keeps from PowerDNS was announced with its serial: what the
\* serial was recorded for is, as an id means one zone, that master.
LEMMA NotifAnnounced == Notif => NoMissedNotify
<1> SUFFICES ASSUME Notif, OneMeaning, NEW z \in Zones, domainIds[z] # 0,
                    zones[z].soa \notin {NoSerial, 0},
                    Acknowledged(domainIds[z]) = zones[z].soa
             PROVE  <<z, zones[z].soa>> \in announced
  BY DEF NoMissedNotify, Announced, Notif
<1> DEFINE i == domainIds[z]
<1>1. i \in DOMAIN notified /\ notified[i] = zones[z].soa BY DEF Acknowledged
<1>2. PICK y \in Zones : <<y, i>> \in told /\ <<y, notified[i]>> \in announced
  BY <1>1 DEF Notif, Traced
<1>3. <<z, i>> \in Recorded BY DEF Recorded
<1> DEFINE p == <<y, i>>
           q == <<z, i>>
<1>4. p \in told \union Recorded /\ q \in told \union Recorded /\ p[2] = q[2] BY <1>2, <1>3
<1>5. p[1] = q[1] BY <1>4 DEF OneMeaning
<1> QED BY <1>1, <1>2, <1>5

\* Whatever threads, edits, lost and late messages and restarts do, a master the backend
\* keeps from PowerDNS was announced with that serial, as long as an id means one zone.
THEOREM NotificationsCorrect == NotifSpec => []NoMissedNotify
<1>1. NotifInit => Notif BY NotifInitially
<1>2. Notif /\ [NotifNext]_vars => Notif' BY NotifStep
<1>3. Notif => NoMissedNotify BY NotifAnnounced
<1> QED BY <1>1, <1>2, <1>3, PTL DEF NotifSpec
=============================================================================
