--------------------------- MODULE DomainIds_proofs ---------------------------
(* Theorems about DomainIds, for every set of zones and of threads. *)
EXTENDS DomainIds, TLAPS

\* The highest id of a table whose ids are 1..n, with or without zones that have none, is n.
LEMMA HighestOf ==
  ASSUME NEW ids \in [Zones -> Nat], Zones # {},
         NEW n \in Nat, Range(ids) \union {0} = 0..n
  PROVE  Highest(ids) = n /\ getNewId(ids) = n + 1
<1>1. n \in Range(ids)
  <2>1. CASE n = 0
    <3>1. PICK z \in Zones : TRUE OBVIOUS
    <3>2. ids[z] \in Range(ids) /\ ids[z] \in 0..0 BY <2>1, <3>1 DEF Range
    <3> QED BY <2>1, <3>2
  <2>2. CASE n # 0
    <3>1. n \in 0..n OBVIOUS
    <3> QED BY <2>2, <3>1
  <2> QED BY <2>1, <2>2
<1>2. Range(ids) \subseteq Nat BY DEF Range
<1>3. \A j \in Range(ids) : j <= n OBVIOUS
<1>4. \A i \in Range(ids) : (\A j \in Range(ids) : j <= i) => i = n
  <2> SUFFICES ASSUME NEW i \in Range(ids), \A j \in Range(ids) : j <= i PROVE i = n OBVIOUS
  <2>1. n <= i BY <1>1
  <2>2. i <= n BY <1>3
  <2> QED BY <1>2, <2>1, <2>2
<1>5. Highest(ids) = n BY <1>1, <1>3, <1>4 DEF Highest
<1> QED BY <1>5 DEF getNewId

\* An insertion leaves the table as it is, or appends the next id for a zone without one.
LEMMA InsertedTable ==
  ASSUME domainIds \in [Zones -> Nat], OneZonePerId, Zones # {},
         Range(domainIds) \union {0} = 0..Highest(domainIds), Highest(domainIds) \in Nat,
         NEW z \in Zones, NEW id \in 1..getNewId(domainIds)
  PROVE  \/ Inserted(z, id) = domainIds
         \/ /\ domainIds[z] = 0 /\ id = Highest(domainIds) + 1
            /\ Inserted(z, id) = [domainIds EXCEPT ![z] = id]
            /\ Range(Inserted(z, id)) \union {0} = 0..id
<1> DEFINE n == Highest(domainIds)
<1>1. CASE domainIds[z] = 0 /\ id \notin Range(domainIds)
  <2>1. id = n + 1
    <3>1. id \in 1..(n + 1) BY DEF getNewId
    <3>2. \A i \in 1..n : i \in Range(domainIds) OBVIOUS
    <3> QED BY <1>1, <3>1, <3>2
  <2>2. Inserted(z, id) = [domainIds EXCEPT ![z] = id] BY <1>1 DEF Inserted
  <2>3. Range(Inserted(z, id)) \union {0} = (Range(domainIds) \union {0}) \union {id}
    <3> DEFINE f == [domainIds EXCEPT ![z] = id]
    <3>1. \A y \in Zones : f[y] = IF y = z THEN id ELSE domainIds[y] OBVIOUS
    <3>2. Range(f) = {f[y] : y \in Zones} BY DEF Range
    <3>3. Range(domainIds) = {domainIds[y] : y \in Zones} BY DEF Range
    <3>4. ASSUME NEW i PROVE i \in Range(f) \union {0} <=> i \in Range(domainIds) \union {0, id}
      BY <1>1, <3>1, <3>2, <3>3
    <3> QED BY <2>2, <3>4
  <2>4. 0..(n + 1) = (0..n) \union {n + 1} OBVIOUS
  <2> QED BY <1>1, <2>1, <2>2, <2>3, <2>4
<1>2. CASE ~(domainIds[z] = 0 /\ id \notin Range(domainIds))
  BY <1>2 DEF Inserted
<1> QED BY <1>1, <1>2

-----------------------------------------------------------------------------
(* The table stays a bijection *)

\* IdsInv says nothing of the type of Highest, which the steps of getDomainID need.
Ids == IdsInv /\ (Zones # {} => Highest(domainIds) \in Nat)

LEMMA IdsInitially == IdsInit => Ids
<1> SUFFICES ASSUME IdsInit PROVE Ids OBVIOUS
<1> USE DEF IdsInit
<1>1. IdsTypeOK BY NoZoneAssumption DEF IdsTypeOK, Calls, NoCall
<1>2. CallShape /\ OneZonePerId BY DEF CallShape, OneZonePerId, NoCall
<1>3. ASSUME Zones # {} PROVE DenseIds /\ Highest(domainIds) \in Nat
  <2>1. Range(domainIds) \union {0} = 0..0 BY <1>3 DEF Range
  <2>2. Highest(domainIds) = 0 BY <1>1, <1>3, <2>1, HighestOf DEF IdsTypeOK
  <2> QED BY <2>1, <2>2 DEF DenseIds, NoCall
<1> QED BY <1>1, <1>2, <1>3 DEF Ids, IdsInv

\* A step that leaves the table alone keeps the invariant when it keeps that of the calls.
LEMMA TableUnchanged ==
  ASSUME Ids, domainIds' = domainIds,
         NEW t \in Threads, NEW c \in Calls, call' = [call EXCEPT ![t] = c],
         c.pc # "none" => c.zone \in Zones,
         Zones # {} => (c.pc \in {"insert", "found"} => c.id \in 1..getNewId(domainIds)),
         told' \subseteq Zones \X (Nat \ {0})
  PROVE  Ids'
<1> USE DEF Ids, IdsInv
<1>0. call \in [Threads -> Calls] /\ domainIds \in [Zones -> Nat] BY DEF IdsTypeOK
<1>1. \A u \in Threads : call'[u] = IF u = t THEN c ELSE call[u] BY <1>0
<1>2. IdsTypeOK' BY <1>0 DEF IdsTypeOK
<1>3. CallShape' BY <1>1 DEF CallShape
<1>4. OneZonePerId' BY DEF OneZonePerId
<1>5. Highest(domainIds)' = Highest(domainIds) /\ getNewId(domainIds)' = getNewId(domainIds)
  BY DEF Highest, getNewId
<1>6. Zones # {} => DenseIds' BY <1>1, <1>5 DEF DenseIds
<1> QED BY <1>2, <1>3, <1>4, <1>5, <1>6

LEMMA IdsStep == Ids /\ [IdsNext]_idsVars => Ids'
<1> SUFFICES ASSUME Ids, [IdsNext]_idsVars PROVE Ids' OBVIOUS
<1>0. /\ domainIds \in [Zones -> Nat] /\ call \in [Threads -> Calls]
      /\ told \subseteq Zones \X (Nat \ {0}) /\ CallShape /\ OneZonePerId
      /\ Zones # {} => DenseIds /\ Highest(domainIds) \in Nat
  BY DEF Ids, IdsInv, IdsTypeOK
<1>1. ASSUME NEW t \in Threads, NEW z \in Zones, Call(t, z), UNCHANGED told PROVE Ids'
  <2> DEFINE c == [pc |-> "find", zone |-> z, id |-> 0]
  <2>1. c \in Calls BY DEF Calls
  <2> QED BY <1>0, <1>1, <2>1, TableUnchanged DEF Call
<1>2. ASSUME NEW t \in Threads, Find(t), UNCHANGED told PROVE Ids'
  <2> DEFINE z == call[t].zone
             i == domainIds[z]
             c == [call[t] EXCEPT !.pc = IF i # 0 THEN "found" ELSE "new", !.id = i]
  <2>1. z \in Zones BY <1>0, <1>2 DEF CallShape, Find
  <2>2. i \in Nat BY <1>0, <2>1
  <2>3. call[t] \in Calls BY <1>0
  <2>4. c \in Calls /\ c.zone = z /\ c.id = i /\ c.pc = (IF i # 0 THEN "found" ELSE "new")
    BY <2>2, <2>3 DEF Calls
  <2>5. i # 0 => i \in 1..getNewId(domainIds)
    <3>1. i \in Range(domainIds) BY <1>0, <2>1 DEF Range
    <3>2. i \in 0..Highest(domainIds) BY <1>0, <2>1, <3>1 DEF DenseIds
    <3> QED BY <1>0, <2>1, <2>2, <3>2 DEF getNewId
  <2>6. call' = [call EXCEPT ![t] = c] /\ domainIds' = domainIds BY <1>2, <1>0 DEF Find
  <2> HIDE DEF c
  <2> QED BY <1>0, <1>2, <2>1, <2>4, <2>5, <2>6, TableUnchanged
<1>3. ASSUME NEW t \in Threads, New(t), UNCHANGED told PROVE Ids'
  <2> DEFINE c == [call[t] EXCEPT !.pc = "insert", !.id = getNewId(domainIds)]
  <2>1. call[t].zone \in Zones BY <1>0, <1>3 DEF CallShape, New
  <2>2. getNewId(domainIds) \in Nat /\ getNewId(domainIds) \in 1..getNewId(domainIds)
    BY <1>0, <2>1 DEF getNewId
  <2>3. call[t] \in Calls BY <1>0
  <2>4. c \in Calls /\ c.zone = call[t].zone /\ c.id = getNewId(domainIds)
    BY <2>2, <2>3 DEF Calls
  <2>5. call' = [call EXCEPT ![t] = c] /\ domainIds' = domainIds BY <1>3, <1>0 DEF New
  <2> HIDE DEF c
  <2> QED BY <1>0, <1>3, <2>1, <2>2, <2>4, <2>5, TableUnchanged
<1>4. ASSUME NEW t \in Threads, Insert(t), UNCHANGED told PROVE Ids'
  <2> DEFINE z == call[t].zone
             i == call[t].id
             n == Highest(domainIds)
  <2>1. z \in Zones BY <1>0, <1>4 DEF CallShape, Insert
  <2>2. i \in 1..getNewId(domainIds) BY <1>0, <1>4, <2>1 DEF DenseIds, Insert
  <2>3. \A u \in Threads : call'[u] = IF u = t THEN [call[t] EXCEPT !.pc = "found"] ELSE call[u]
    BY <1>0, <1>4 DEF Insert
  <2>4. \A u \in Threads : call'[u].zone = call[u].zone /\ call'[u].id = call[u].id
                           /\ (call'[u].pc \in {"insert", "found"} => call[u].pc \in {"insert", "found"})
                           /\ (call'[u].pc # "none" => call[u].pc # "none")
                           /\ call'[u] \in Calls
    BY <1>0, <1>4, <2>3 DEF Insert, Calls
  <2>5. call' \in [Threads -> Calls] BY <1>0, <1>4, <2>4 DEF Insert
  <2>6. CallShape' BY <1>0, <2>4 DEF CallShape
  <2>7. n \in Nat /\ Range(domainIds) \union {0} = 0..n BY <1>0, <2>1 DEF DenseIds
  <2>8. domainIds' = Inserted(z, i) BY <1>4 DEF Insert
  <2>9. \A u \in Threads : call[u].pc \in {"insert", "found"} => call[u].id \in 1..(n + 1)
    BY <1>0, <2>1 DEF DenseIds, getNewId
  <2>a. \/ domainIds' = domainIds
        \/ /\ domainIds[z] = 0 /\ i = n + 1 /\ domainIds' = [domainIds EXCEPT ![z] = i]
           /\ Range(domainIds') \union {0} = 0..i
    BY <1>0, <2>1, <2>2, <2>7, <2>8, InsertedTable DEF DenseIds
  <2>b. CASE domainIds' = domainIds
    <3>1. Highest(domainIds)' = n /\ getNewId(domainIds)' = n + 1 BY <2>b DEF Highest, getNewId
    <3>2. IdsTypeOK' BY <1>0, <1>4, <2>5, <2>b DEF IdsTypeOK
    <3>3. OneZonePerId' BY <1>0, <2>b DEF OneZonePerId
    <3>4. DenseIds' BY <2>4, <2>7, <2>9, <2>b, <3>1 DEF DenseIds
    <3> QED BY <2>6, <2>7, <3>1, <3>2, <3>3, <3>4 DEF Ids, IdsInv
  <2>c. CASE /\ domainIds[z] = 0 /\ i = n + 1 /\ domainIds' = [domainIds EXCEPT ![z] = i]
             /\ Range(domainIds') \union {0} = 0..i
    <3>1. i \in Nat /\ domainIds' \in [Zones -> Nat] BY <1>0, <2>1, <2>7, <2>c
    <3>2. IdsTypeOK' BY <1>0, <1>4, <2>5, <3>1 DEF IdsTypeOK
    <3>3. Highest(domainIds') = i /\ getNewId(domainIds') = i + 1
      BY <2>1, <2>c, <3>1, HighestOf
    <3>4. DenseIds'
      <4>1. ASSUME NEW u \in Threads, call'[u].pc \in {"insert", "found"}
            PROVE  call'[u].id \in 1..(i + 1)
        BY <2>4, <2>7, <2>9, <2>c, <4>1
      <4> QED BY <2>c, <3>3, <4>1 DEF DenseIds
    <3>5. \A y \in Zones : domainIds[y] # i
      <4> SUFFICES ASSUME NEW y \in Zones PROVE domainIds[y] # i OBVIOUS
      <4>1. domainIds[y] \in 0..n BY <1>0, <2>7 DEF Range
      <4> QED BY <2>7, <2>c, <4>1
    <3>6. OneZonePerId' BY <1>0, <2>c, <3>5 DEF OneZonePerId
    <3> QED BY <2>6, <3>1, <3>2, <3>3, <3>4, <3>6 DEF Ids, IdsInv
  <2> QED BY <2>a, <2>b, <2>c
<1>5. ASSUME NEW t \in Threads, Return(t) PROVE Ids'
  <2>1. call[t].zone \in Zones BY <1>0, <1>5 DEF CallShape, Return
  <2>2. call[t].id \in Nat \ {0}
    <3>1. call[t].id \in 1..getNewId(domainIds) BY <1>0, <1>5, <2>1 DEF DenseIds, Return
    <3> QED BY <1>0, <2>1, <3>1 DEF getNewId
  <2>3. NoCall \in Calls BY DEF NoCall, Calls
  <2>4. NoCall.pc = "none" BY DEF NoCall
  <2>5. told' \subseteq Zones \X (Nat \ {0}) BY <1>0, <1>5, <2>1, <2>2 DEF Return
  <2> QED BY <1>0, <1>5, <2>3, <2>4, <2>5, TableUnchanged DEF Return
<1>6. CASE UNCHANGED idsVars
  BY <1>6 DEF idsVars, Ids, IdsInv, IdsTypeOK, CallShape, OneZonePerId, DenseIds, Highest, getNewId
<1>7. CASE IdsNext BY <1>1, <1>2, <1>3, <1>4, <1>5, <1>7 DEF IdsNext, getDomainID
<1> QED BY <1>6, <1>7

\* However many threads look zones up, choose ids and insert at once, the table is a
\* bijection between the zones it has and 1..n.
THEOREM IdsCorrect == IdsSpec => []IdsInv
<1>1. IdsInit => Ids BY IdsInitially
<1>2. Ids /\ [IdsNext]_idsVars => Ids' BY IdsStep
<1>3. Ids => IdsInv BY DEF Ids
<1> QED BY <1>1, <1>2, <1>3, PTL DEF IdsSpec

-----------------------------------------------------------------------------
(* The table implements IdAllocation *)

\* What a step does to the table: nothing, or it gives a zone that has no id a new one.
TableStep ==
    \/ domainIds' = domainIds
    \/ \E z \in Zones, id \in Nat \ {0} :
         /\ domainIds[z] = 0 /\ id \notin Range(domainIds)
         /\ domainIds' = [domainIds EXCEPT ![z] = id]

LEMMA StepsOfTheTable == Ids /\ [IdsNext]_idsVars => TableStep
<1> SUFFICES ASSUME Ids, [IdsNext]_idsVars PROVE TableStep OBVIOUS
<1>1. ASSUME NEW t \in Threads, Insert(t) PROVE TableStep
  <2> DEFINE z == call[t].zone
             i == call[t].id
  <2>1. z \in Zones BY <1>1 DEF Ids, IdsInv, CallShape, Insert
  <2>2. i \in Nat \ {0}
    <3>1. i \in 1..getNewId(domainIds) BY <1>1, <2>1 DEF Ids, IdsInv, DenseIds, Insert
    <3> QED BY <2>1, <3>1 DEF Ids, getNewId
  <2> QED BY <1>1, <2>1, <2>2 DEF Insert, Inserted, TableStep
<1>2. CASE UNCHANGED idsVars BY <1>2 DEF idsVars, TableStep
<1>3. CASE IdsNext
  BY <1>1, <1>3 DEF IdsNext, getDomainID, Call, Find, New, Return, TableStep
<1> QED BY <1>2, <1>3

LEMMA TableStepGives ==
  ASSUME domainIds \in [Zones -> Nat], TableStep
  PROVE  [TableIds!Next]_Recorded
<1>1. CASE domainIds' = domainIds BY <1>1 DEF Recorded
<1>2. ASSUME NEW z \in Zones, NEW id \in Nat \ {0},
             domainIds[z] = 0, id \notin Range(domainIds),
             domainIds' = [domainIds EXCEPT ![z] = id]
      PROVE  TableIds!Next
  <2>1. \A y \in Zones : domainIds'[y] = IF y = z THEN id ELSE domainIds[y] BY <1>2
  <2>2. Recorded' = Recorded \union {<<z, id>>}
    <3>1. ASSUME NEW y \in Zones PROVE domainIds'[y] # 0 <=> y = z \/ domainIds[y] # 0
      BY <1>2, <2>1
    <3> QED BY <1>2, <2>1, <3>1 DEF Recorded
  <2>3. \A p \in Recorded : p[1] # z /\ p[2] # id BY <1>2 DEF Recorded, Range
  <2>4. <<z, id>> \in Recorded' \ Recorded BY <2>2, <2>3
  <2>5. TableIds!Give(z, id) BY <2>2, <2>3 DEF TableIds!Give
  <2> DEFINE p == <<z, id>>
  <2>6. p \in Recorded' \ Recorded /\ TableIds!Give(p[1], p[2]) BY <2>4, <2>5
  <2> QED BY <2>6 DEF TableIds!Next
<1> QED BY <1>1, <1>2 DEF TableStep

\* The table allocates ids whatever the threads do.
THEOREM TableImplements == IdsSpec => TableAllocates
<1>1. IdsInit => TableIds!Init BY DEF IdsInit, TableIds!Init, Recorded
<1>2. Ids /\ [IdsNext]_idsVars => [TableIds!Next]_Recorded
  <2> SUFFICES ASSUME Ids, [IdsNext]_idsVars PROVE [TableIds!Next]_Recorded OBVIOUS
  <2>1. domainIds \in [Zones -> Nat] BY DEF Ids, IdsInv, IdsTypeOK
  <2> QED BY <2>1, StepsOfTheTable, TableStepGives
<1>3. IdsInit => Ids BY IdsInitially
<1>4. Ids /\ [IdsNext]_idsVars => Ids' BY IdsStep
<1> QED BY <1>1, <1>2, <1>3, <1>4, PTL DEF IdsSpec, TableAllocates, TableIds!Spec
=============================================================================
