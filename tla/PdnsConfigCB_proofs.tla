------------------------- MODULE PdnsConfigCB_proofs -------------------------
(* Theorems about PdnsConfigCB, for every value of its constants. *)
EXTENDS PdnsConfigCB, FiniteSetTheorems, SequenceTheorems, TLAPS

USE DEF stores, disk, config, flags, lists

\* An ordering of a set of zones is a sequence over it.
LEMMA OrderedSubset == ASSUME NEW S \in SUBSET Zones, NEW s \in SetToSeqs(S) PROVE s \in Seq(S)
<1>1. Cardinality(S) \in Nat BY ConstantAssumption, FS_Subset, FS_CardinalityType
<1> QED BY <1>1 DEF SetToSeqs

\* A step with a fault, or without one, keeps the fault counter and the history typed.
LEMMA CountsTyped ==
  ASSUME TypeOK, NoFault \/ \E f : Fault(f)
  PROVE  faults' \in 0..MaxFaults /\ hist' \in Histories
<1>1. faults' \in 0..MaxFaults BY ConstantAssumption DEF TypeOK, NoFault, Fault
<1>2. hist' \in Histories
  <2>1. CASE NoFault BY <2>1 DEF TypeOK, NoFault
  <2>2. CASE \E f : Fault(f) BY <2>2 DEF TypeOK, Fault, Histories
  <2> QED BY <2>1, <2>2
<1> QED BY <1>1, <1>2

\* The locals of a handler that has returned.
LEMMA NoLocalsTyped == NoLocals \in Locals
<1>1. <<ServiceFile, 0>> \in TmpFiles BY ConstantAssumption DEF TmpFiles, Ids
<1>2. 1 \in Nat \ {0} OBVIOUS
<1> QED BY <1>1, <1>2 DEF NoLocals, Locals

\* An API call of the creation and removal loops keeps every variable typed.
LEMMA IterationTyped ==
  ASSUME TypeOK, NEW possible, NEW newZones \in MaybeZones, Iteration(possible, newZones)
  PROVE  TypeOK'
<1>1. loc' \in Locals
  <2>1. loc \in Locals /\ \E failed \in BOOLEAN : Advance(failed)
    BY DEF Iteration, TypeOK
  <2>2. loc.i + 1 \in Nat \ {0} /\ loc.errors \in BOOLEAN BY <2>1 DEF Locals
  <2>3. \E b \in BOOLEAN : loc' = [loc EXCEPT !.i = loc.i + 1, !.errors = b]
    BY <2>1, <2>2 DEF Advance
  <2> QED BY <2>1, <2>2, <2>3 DEF Locals
<1>2. pdns' \in PowerDnsStates BY DEF Iteration, PowerDnsStates, TypeOK
<1>3. faults' \in 0..MaxFaults /\ hist' \in Histories BY CountsTyped DEF Iteration
<1> QED BY <1>1, <1>2, <1>3 DEF Iteration, TypeOK

\* Every action keeps every variable in its type.
LEMMA TypeStep == TypeOK /\ [Next]_vars => TypeOK'
<1> SUFFICES ASSUME TypeOK, [Next]_vars PROVE TypeOK' OBVIOUS
<1> USE ConstantAssumption
<1>0. <<>> \in Seq(NewZones) /\ <<>> \in Seq(Zones) OBVIOUS
<1>1. CASE Start
  <2>1. tx' \in Transactions
    BY <1>1 DEF Start, NoTx, Transactions, Ids, TypeOK
  <2>2. cfg' \in Services
    BY <1>1 DEF Start, Services, Datastores, TypeOK
  <2>3. hist' \in Histories
    BY <1>1 DEF Start, Histories, TypeOK
  <2> QED BY <1>1, <2>1, <2>2, <2>3 DEF Start, TypeOK
<1>2. CASE Begin
  <2>1. running.zones \in MaybeZones /\ running.conf \in Confs /\ running.acls \in Acls /\ running.file \in Paths /\ running.restart \in BOOLEAN
    BY <1>2 DEF Begin, Datastores, TypeOK
  <2>2. tx' \in Transactions
    BY <1>2, <2>1 DEF Begin, Transactions, Ids, Datastores, MaybeZones, TypeOK
  <2>3. hist' \in Histories
    BY <1>2, <2>1 DEF Begin, Histories, TypeOK
  <2> QED BY <1>2, <2>1, <2>2, <2>3 DEF Begin, TypeOK
<1>3. CASE MainLoop
  BY <1>3 DEF MainLoop, vars, TypeOK
<1>4. CASE Commit
  <2>1. running' \in Datastores
    BY <1>4 DEF Commit, Transactions, TypeOK
  <2>2. hist' \in Histories
    BY <1>4 DEF Commit, Histories, TypeOK
  <2> QED BY <1>4, <2>1, <2>2 DEF Commit, TypeOK
<1>5. CASE Abort
  <2>1. tx' \in Transactions
    BY <1>5 DEF Abort, Reject, NoTx, Transactions, Ids, TypeOK
  <2>2. tmp' \in [TmpFiles -> Texts \union {None}]
    BY <1>5 DEF Abort, TmpRemoved, tmpFile, TypeOK
  <2>3. zonesModified' \in [Zones -> Updates \union {NoUpdate}]
    BY <1>5 DEF Abort, NoUpdates, TypeOK
  <2> QED BY <1>0, <1>5, <2>1, <2>2, <2>3, CountsTyped DEF Abort, Reject, TypeOK
<1>6. CASE Finish
  <2>1. tx' \in Transactions
    BY <1>6 DEF Finish, NoTx, Transactions, Ids, TypeOK
  <2> QED BY <1>6, <2>1, CountsTyped DEF Finish, TypeOK
<1>7. CASE ConfigUntouched
  BY <1>7, CountsTyped DEF ConfigUntouched, TypeOK
<1>8. CASE ConfigRefused
  <2>1. tx' \in Transactions
    BY <1>8 DEF ConfigRefused, Reject, NoTx, Transactions, Ids, TypeOK
  <2> QED BY <1>8, <2>1, CountsTyped DEF ConfigRefused, Reject, TypeOK
<1>9. CASE ConfigWritten
  <2>1. Rendered(tx.new) \in Texts
    BY <1>9 DEF ConfigWritten, Rendered, Texts, Transactions, Datastores, TypeOK
  <2>2. tmp' \in [TmpFiles -> Texts \union {None}]
    BY <1>9, <2>1 DEF ConfigWritten, tmpFile, TypeOK
  <2> QED BY <1>9, <2>1, <2>2, CountsTyped DEF ConfigWritten, MayWrite, TypeOK
<1>10. CASE ConfigWriteFails
  <2>1. tx' \in Transactions
    BY <1>10 DEF ConfigWriteFails, Reject, NoTx, Transactions, Ids, TypeOK
  <2> QED BY <1>10, <2>1, CountsTyped DEF ConfigWriteFails, Reject, MayWrite, TypeOK
<1>11. CASE NoZoneAddedOrDeleted
  BY <1>11, CountsTyped DEF NoZoneAddedOrDeleted, TypeOK
<1>12. CASE ZonesAddedOrDeleted
  <2>1. PICK c \in SetToSeqs(Created), r \in SetToSeqs(Deleted) :
          /\ zonesCreated' = zonesCreated \o
                [k \in DOMAIN c |-> [name |-> c[k], settings |-> tx.new.zones[c[k]]]]
          /\ zonesRemoved' = zonesRemoved \o r
    BY <1>12 DEF ZonesAddedOrDeleted
  <2>2. c \in Seq(Created) /\ r \in Seq(Deleted)
    BY OrderedSubset DEF Created, Deleted, TouchedZones
  <2>3. \A z \in Created : z \in Zones /\ tx.new.zones[z] \in Settings
    BY DEF Created, TouchedZones, Transactions, Datastores, MaybeZones, TypeOK
  <2>4. [k \in DOMAIN c |-> [name |-> c[k], settings |-> tx.new.zones[c[k]]]] \in Seq(NewZones)
    <3>1. Len(c) \in Nat /\ DOMAIN c = 1..Len(c) /\ \A k \in 1..Len(c) : c[k] \in Created
      BY <2>2
    <3>2. \A k \in 1..Len(c) : [name |-> c[k], settings |-> tx.new.zones[c[k]]] \in NewZones
      BY <3>1, <2>3 DEF NewZones
    <3> QED BY <3>1, <3>2
  <2>5. r \in Seq(Zones)
    BY <2>2 DEF Deleted, TouchedZones
  <2>6. zonesCreated' \in Seq(NewZones) /\ zonesRemoved' \in Seq(Zones)
    BY <2>1, <2>4, <2>5, ConcatProperties DEF TypeOK
  <2> QED BY <1>12, <2>6, CountsTyped DEF ZonesAddedOrDeleted, TypeOK
<1>13. CASE ZonesNotPossible
  <2>1. tx' \in Transactions
    BY <1>13 DEF ZonesNotPossible, Reject, NoTx, Transactions, Ids, TypeOK
  <2> QED BY <1>13, <2>1, CountsTyped DEF ZonesNotPossible, Reject, TypeOK
<1>14. CASE ZonesModified
  <2>1. ASSUME NEW first \in TouchedZones, NEW kind \in {Unset} \union ModifiedKinds
        PROVE  Collected(first, kind) \in Updates
    <3>1. first \in Zones BY DEF TouchedZones
    <3>2. kind \in Kinds \union {Unset}
      BY DEF ModifiedKinds, TouchedZones, Created, Deleted, Transactions, Datastores, MaybeZones, Settings, TypeOK
    <3>3. MastersOf(tx.new, first) \in SUBSET Masters
      BY <3>1 DEF MastersOf, Transactions, Datastores, MaybeZones, Settings, TypeOK
    <3>4. zonesModified[first] # NoUpdate => zonesModified[first] \in Updates BY <3>1 DEF TypeOK
    <3> QED BY <3>2, <3>3, <3>4 DEF Collected, Updates
  <2>2. zonesModified' \in [Zones -> Updates \union {NoUpdate}]
    BY <1>14, <2>1 DEF ZonesModified, TouchedZones, TypeOK
  <2> QED BY <1>14, <2>2, CountsTyped DEF ZonesModified, TypeOK
<1>15. CASE ModifyNotPossible
  <2>1. tx' \in Transactions
    BY <1>15 DEF ModifyNotPossible, Reject, NoTx, Transactions, Ids, TypeOK
  <2> QED BY <1>15, <2>1, CountsTyped DEF ModifyNotPossible, Reject, TypeOK
<1>16. CASE Done
  <2>1. tmpFile(tx.id) \in TmpFiles
    BY <1>16 DEF Done, tmpFile, TmpFiles, Services, Transactions, TypeOK
  <2>2. loc' \in Locals
    BY <1>16, <2>1 DEF Done, Locals, TypeOK
  <2> QED BY <1>16, <2>1, <2>2, CountsTyped DEF Done, TypeOK
<1>17. CASE Rename
  <2>1. loc.fpath \in TmpFiles
    BY <1>17 DEF Rename, Locals, TypeOK
  <2>2. cfg.file \in Paths
    BY <1>17, <2>1 DEF Rename, Services, TypeOK
  <2> QED BY <1>17, <2>1, <2>2, CountsTyped DEF Rename, TypeOK
<1>18. CASE RenameFails
  <2>1. tmp' \in [TmpFiles -> Texts \union {None}]
    BY <1>18 DEF RenameFails, TypeOK
  <2>2. loc' \in Locals
    BY <1>18, NoLocalsTyped DEF RenameFails, Return, TypeOK
  <2> QED BY <1>18, <2>1, <2>2, CountsTyped DEF RenameFails, Return, TypeOK
<1>19. CASE CopyConfig
  BY <1>19, CountsTyped DEF CopyConfig, TypeOK
<1>20. CASE CopyConfigFails
  <2>1. loc' \in Locals
    BY <1>20, NoLocalsTyped DEF CopyConfigFails, Return, TypeOK
  <2> QED BY <1>20, <2>1, CountsTyped DEF CopyConfigFails, Return, TypeOK
<1>21. CASE restartService
  <2>1. pdns' \in PowerDnsStates BY <1>21 DEF restartService, PowerDnsStates, TypeOK
  <2>2. faults' \in 0..MaxFaults /\ hist' \in Histories
    BY <1>21, CountsTyped DEF restartService, Histories, TypeOK
  <2> QED BY <1>21, <2>1, <2>2 DEF restartService, TypeOK
<1>22. CASE configureApi
  <2>1. client' \in Apis
    BY <1>22 DEF configureApi, Apis, Datastores, TypeOK
  <2> QED BY <1>22, <2>1, CountsTyped DEF configureApi, TypeOK
<1>23. CASE configureApiFails
  <2>1. loc' \in Locals
    BY <1>23, NoLocalsTyped DEF configureApiFails, Return, TypeOK
  <2> QED BY <1>23, <2>1, CountsTyped DEF configureApiFails, Return, TypeOK
<1>24. CASE CreateZone
  <2> DEFINE z == zonesCreated[loc.i]
  <2>1. z \in NewZones BY <1>24 DEF CreateZone, Locals, TypeOK
  <2>2. [pdns.zones EXCEPT ![z.name] = z.settings] \in MaybeZones
    BY <2>1 DEF NewZones, PowerDnsStates, MaybeZones, TypeOK
  <2> QED BY <1>24, <2>2, IterationTyped DEF CreateZone
<1>25. CASE CreatedAll
  <2>1. loc' \in Locals
    BY <1>25, 1 \in Nat \ {0} DEF CreatedAll, Locals, TypeOK
  <2> QED BY <1>25, <2>1, CountsTyped DEF CreatedAll, TypeOK
<1>26. CASE RemoveZone
  <2>1. zonesRemoved[loc.i] \in Zones BY <1>26 DEF RemoveZone, Locals, TypeOK
  <2>2. [pdns.zones EXCEPT ![zonesRemoved[loc.i]] = Absent] \in MaybeZones
    BY <2>1 DEF PowerDnsStates, MaybeZones, TypeOK
  <2> QED BY <1>26, <2>2, IterationTyped DEF RemoveZone
<1>27. CASE RemovedAll
  <2>1. Entries \in SUBSET (Zones \X Updates)
    BY DEF Entries, TypeOK
  <2>2. loc' \in Locals
    <3>1. CASE loc.errors BY <1>27, <3>1, NoLocalsTyped DEF RemovedAll, Return
    <3>2. CASE ~loc.errors BY <1>27, <3>2, <2>1 DEF RemovedAll, Locals, TypeOK
    <3> QED BY <3>1, <3>2
  <2> QED BY <1>0, <1>27, <2>2, CountsTyped DEF RemovedAll, Return, TypeOK
<1>28. CASE PutZone
  <2>1. PICK e \in loc.todo :
          /\ loc' = [loc EXCEPT !.todo = loc.todo \ {e}]
          /\ \/ /\ pdns.zones[e[1]] # Absent
                /\ pdns' = [pdns EXCEPT !.zones[e[1]] = Updated(pdns.zones[e[1]], e[2])]
                /\ NoFault
             \/ /\ UNCHANGED pdns
                /\ IF pdns.zones[e[1]] # Absent THEN Fault("api") ELSE NoFault
    BY <1>28 DEF PutZone
  <2>2. e[1] \in Zones /\ e[2] \in Updates BY DEF Locals, TypeOK
  <2>3. pdns.zones[e[1]] \in Settings => Updated(pdns.zones[e[1]], e[2]) \in Settings
    BY <2>2 DEF Updated, Settings, Updates
  <2>4. pdns' \in PowerDnsStates
    BY <2>1, <2>2, <2>3 DEF PowerDnsStates, MaybeZones, TypeOK
  <2>5. loc' \in Locals BY <2>1 DEF Locals, TypeOK
  <2> QED BY <1>28, <2>1, <2>4, <2>5, CountsTyped DEF PutZone, TypeOK
<1>29. CASE PutEscapes
  <2>1. loc' \in Locals
    BY <1>29, NoLocalsTyped DEF PutEscapes, Return, TypeOK
  <2> QED BY <1>29, <2>1, CountsTyped DEF PutEscapes, Return, TypeOK
<1>30. CASE PutAll
  <2>1. loc' \in Locals
    BY <1>30, NoLocalsTyped DEF PutAll, Return, TypeOK
  <2>2. zonesModified' \in [Zones -> Updates \union {NoUpdate}]
    BY <1>30 DEF PutAll, NoUpdates, TypeOK
  <2> QED BY <1>30, <2>1, <2>2, CountsTyped DEF PutAll, Return, TypeOK
<1>31. CASE ConfigDone
  <2>1. cfg' \in Services
    BY <1>31 DEF ConfigDone, Services, Datastores, TypeOK
  <2> QED BY <1>31, <2>1, CountsTyped DEF ConfigDone, TypeOK
<1>32. CASE ConfigDoneFails
  BY <1>32, CountsTyped DEF ConfigDoneFails, TypeOK
<1>33. CASE PdnsStarts
  <2>1. pdns' \in PowerDnsStates
    BY <1>33 DEF PdnsStarts, PowerDnsStates, TypeOK
  <2> QED BY <1>33, <2>1, CountsTyped DEF PdnsStarts, TypeOK
<1>34. CASE PdnsStops
  <2>1. pdns' \in PowerDnsStates
    BY <1>34 DEF PdnsStops, PowerDnsStates, TypeOK
  <2> QED BY <1>34, <2>1, CountsTyped DEF PdnsStops, TypeOK
<1>35. CASE Crash
  <2>1. loc' \in Locals
    BY <1>35, NoLocalsTyped DEF Crash, Lost, TypeOK
  <2>2. zonesModified' \in [Zones -> Updates \union {NoUpdate}]
    BY <1>35 DEF Crash, Lost, NoUpdates, TypeOK
  <2>3. client' \in Apis
    BY <1>35 DEF Crash, Lost, Apis, TypeOK
  <2> QED BY <1>0, <1>35, <2>1, <2>2, <2>3, CountsTyped DEF Crash, Lost, TypeOK
<1>36. CASE Reboot
  <2>1. loc' \in Locals
    BY <1>36, NoLocalsTyped DEF Reboot, Lost, TypeOK
  <2>2. zonesModified' \in [Zones -> Updates \union {NoUpdate}]
    BY <1>36 DEF Reboot, Lost, NoUpdates, TypeOK
  <2>3. client' \in Apis
    BY <1>36 DEF Reboot, Lost, Apis, TypeOK
  <2>4. pdns' \in PowerDnsStates
    BY <1>36 DEF Reboot, PowerDnsStates, TypeOK
  <2> QED BY <1>0, <1>36, <2>1, <2>2, <2>3, <2>4, CountsTyped DEF Reboot, Lost, TypeOK
<1>37. CASE EditOffline
  <2>1. running' \in Datastores
    BY <1>37 DEF EditOffline, Datastores, TypeOK
  <2> QED BY <1>37, <2>1, CountsTyped DEF EditOffline, TypeOK
<1>38. CASE UnconfiguredCall
  <2>1. loc' \in Locals
    BY <1>38, NoLocalsTyped DEF UnconfiguredCall, Lost, TypeOK
  <2>2. zonesModified' \in [Zones -> Updates \union {NoUpdate}]
    BY <1>38 DEF UnconfiguredCall, Lost, NoUpdates, TypeOK
  <2>3. client' \in Apis
    BY <1>38 DEF UnconfiguredCall, Lost, Apis, TypeOK
  <2> QED BY <1>0, <1>38, <2>1, <2>2, <2>3, CountsTyped DEF UnconfiguredCall, Lost, TypeOK
<1>39. CASE UnconfiguredList
  <2>1. loc' \in Locals
    BY <1>39, NoLocalsTyped DEF UnconfiguredList, Lost, TypeOK
  <2>2. zonesModified' \in [Zones -> Updates \union {NoUpdate}]
    BY <1>39 DEF UnconfiguredList, Lost, NoUpdates, TypeOK
  <2>3. client' \in Apis
    BY <1>39 DEF UnconfiguredList, Lost, Apis, TypeOK
  <2> QED BY <1>0, <1>39, <2>1, <2>2, <2>3, CountsTyped DEF UnconfiguredList, Lost, TypeOK
<1>40. CASE UNCHANGED vars BY <1>40 DEF vars, TypeOK
<1> QED BY <1>1, <1>2, <1>3, <1>4, <1>5, <1>6, <1>7, <1>8, <1>9, <1>10, <1>11, <1>12, <1>13, <1>14, <1>15, <1>16, <1>17, <1>18, <1>19, <1>20, <1>21, <1>22, <1>23, <1>24, <1>25, <1>26, <1>27, <1>28, <1>29, <1>30, <1>31, <1>32, <1>33, <1>34, <1>35, <1>36, <1>37, <1>38, <1>39, <1>40
     DEF Next, Sysrepo, ChangeHandler, DoneHandler, ConfigThread

\* The process starts in its type.
LEMMA TypeInit == Init => TypeOK
<1> SUFFICES ASSUME Init PROVE TypeOK OBVIOUS
<1> USE ConstantAssumption DEF Init
<1>1. running \in Datastores OBVIOUS
<1>2. tx \in Transactions BY <1>1 DEF NoTx, Transactions, Ids
<1>3. pdns \in PowerDnsStates BY <1>1 DEF PowerDnsStates, Datastores
<1>4. cfg \in Services BY <1>1 DEF Services, Datastores
<1>5. hist \in Histories BY DEF Histories
<1>6. zonesModified \in [Zones -> Updates \union {NoUpdate}] BY DEF NoUpdates
<1>7. tmp \in [TmpFiles -> Texts \union {None}] /\ files \in [Paths -> Texts \union {None}] OBVIOUS
<1>8. client \in Apis BY DEF Apis
<1>9. zonesCreated \in Seq(NewZones) /\ zonesRemoved \in Seq(Zones) OBVIOUS
<1>10. nextId \in 1..(MaxTx + 1) /\ faults \in 0..MaxFaults OBVIOUS
<1> QED BY <1>1, <1>2, <1>3, <1>4, <1>5, <1>6, <1>7, <1>8, <1>9, <1>10, NoLocalsTyped DEF TypeOK

\* Type correctness of the whole callback.
THEOREM TypeCorrect == Spec => []TypeOK
BY TypeInit, TypeStep, PTL DEF Spec

\* The handler's position and the temporary files stay consistent, as long as sysrepo
\* does not hand out a request id twice.
LEMMA HandlerStep ==
  ASSUME ~IdsRestart, HandlerInv, [Next]_vars
  PROVE  HandlerShape' /\ TmpFilesMatch'
<1>1. TypeOK /\ HandlerShape /\ TmpFilesMatch /\ TypeOK' BY TypeStep DEF HandlerInv
<1> USE <1>1 DEF HandlerShape, TmpFilesMatch, DoneSteps
<1>2. CASE Start BY <1>2 DEF Start
<1>3. CASE Begin
  <2>1. phase' = "tx" /\ pc' = "config" /\ tx'.id = nextId /\ nextId' = nextId + 1 /\ tmp' = tmp
    BY <1>3 DEF Begin
  <2>2. nextId \in Nat /\ nextId <= MaxTx BY <1>3, ConstantAssumption DEF Begin, TypeOK
  <2>3. \A p \in Paths : tmp[<<p, nextId>>] = None
    BY <2>2, ConstantAssumption DEF TmpFiles, Ids
  <2>4. \A t \in TmpFiles : t[2] \in Nat BY DEF TmpFiles, Ids
  <2> QED BY <1>3, <2>1, <2>2, <2>3, <2>4 DEF Begin
<1>4. CASE MainLoop BY <1>4 DEF MainLoop, vars
<1>5. CASE Commit BY <1>5 DEF Commit
<1>6. CASE Abort BY <1>6 DEF Abort, TmpRemoved, Reject
<1>7. CASE Finish BY <1>7 DEF Finish
<1>8. CASE ConfigUntouched BY <1>8 DEF ConfigUntouched, ConfTouched, NoTx, tmpFile
<1>9. CASE ConfigRefused BY <1>9 DEF ConfigRefused, Reject
<1>10. CASE ConfigWritten
  <2>1. tmp' = [tmp EXCEPT ![tmpFile(tx.id)] = Rendered(tx.new)] BY <1>10 DEF ConfigWritten
  <2>2. tmpFile(tx.id) \in TmpFiles BY DEF tmpFile, TmpFiles, TypeOK, Services, Transactions
  <2>3. tmp'[tmpFile(tx.id)] = Rendered(tx.new) /\ \A t \in TmpFiles \ {tmpFile(tx.id)} : tmp'[t] = tmp[t]
    BY <2>1, <2>2 DEF TypeOK
  <2>4. cfg' = cfg /\ tx' = tx /\ running' = running /\ nextId' = nextId /\ phase' = phase
    BY <1>10 DEF ConfigWritten
  <2>5. tmpFile(tx.id)[2] = tx.id BY DEF tmpFile
  <2>6. tx.id < nextId /\ phase \in {"tx", "enabled"} /\ (phase = "enabled" => tx.id = 0 /\ tx.new = running)
    BY <1>10, ConstantAssumption DEF ConfigWritten, MayWrite, NoTx, TypeOK
  <2>7. \A t \in TmpFiles : tmp'[t] # None => t[2] < nextId BY <2>3, <2>5, <2>6
  <2>8. phase = "tx" => \A p \in Paths : tmp'[<<p, tx.id>>] \in {None, Rendered(tx.new)}
    BY <2>3 DEF TmpFiles, TypeOK, Transactions
  <2>9. phase = "enabled" => tmp'[tmpFile(0)] = Rendered(running) BY <2>3, <2>6
  <2> QED BY <1>10, <2>4, <2>6, <2>7, <2>8, <2>9 DEF ConfigWritten, MayWrite, Rendered, tmpFile
<1>11. CASE ConfigWriteFails BY <1>11 DEF ConfigWriteFails, Reject, MayWrite
<1>12. CASE NoZoneAddedOrDeleted BY <1>12 DEF NoZoneAddedOrDeleted
<1>13. CASE ZonesAddedOrDeleted BY <1>13 DEF ZonesAddedOrDeleted
<1>14. CASE ZonesNotPossible BY <1>14 DEF ZonesNotPossible, Reject
<1>15. CASE ZonesModified BY <1>15 DEF ZonesModified
<1>16. CASE ModifyNotPossible BY <1>16 DEF ModifyNotPossible, Reject
<1>17. CASE Done
  <2>1. tmp[tmpFile(tx.id)] \in {None, Rendered(running)}
    <3>1. CASE phase = "enabled" BY <1>17, <3>1 DEF Done, NoTx
    <3>2. CASE phase = "tx"
      <4>1. tmp[tmpFile(tx.id)] \in {None, Rendered(tx.new)}
        BY <3>2 DEF tmpFile, TypeOK, Services
      <4> QED BY <1>17, <4>1 DEF Done
    <3> QED BY <1>17, <3>1, <3>2 DEF Done
  <2>2. loc'.fpath = tmpFile(tx.id) \/ pc' = "api" BY <1>17 DEF Done, TypeOK, Locals
  <2> QED BY <1>17, <2>1, <2>2 DEF Done
<1>18. CASE Rename
  <2>1. files'[cfg.file] = Rendered(running) /\ cfg.file \in Paths
    BY <1>18 DEF Rename, TypeOK, Services
  <2>2. \A t \in TmpFiles : tmp'[t] \in {tmp[t], None} BY <1>18 DEF Rename, TypeOK
  <2>3. phase = "tx" => \A p \in Paths : <<p, tx.id>> \in TmpFiles BY DEF TmpFiles, TypeOK, Transactions
  <2> QED BY <1>18, <2>1, <2>2, <2>3 DEF Rename, Rendered
<1>19. CASE RenameFails BY <1>19 DEF RenameFails, Return
<1>20. CASE CopyConfig BY <1>20 DEF CopyConfig
<1>21. CASE CopyConfigFails BY <1>21 DEF CopyConfigFails, Return
<1>22. CASE restartService BY <1>22 DEF restartService
<1>23. CASE configureApi BY <1>23 DEF configureApi
<1>24. CASE configureApiFails BY <1>24 DEF configureApiFails, Return
<1>25. CASE CreateZone BY <1>25 DEF CreateZone, Iteration
<1>26. CASE CreatedAll BY <1>26 DEF CreatedAll
<1>27. CASE RemoveZone BY <1>27 DEF RemoveZone, Iteration
<1>28. CASE RemovedAll BY <1>28 DEF RemovedAll, Return
<1>29. CASE PutZone BY <1>29 DEF PutZone
<1>30. CASE PutEscapes BY <1>30 DEF PutEscapes, Return
<1>31. CASE PutAll BY <1>31 DEF PutAll, Return
<1>32. CASE ConfigDone BY <1>32 DEF ConfigDone
<1>33. CASE ConfigDoneFails BY <1>33 DEF ConfigDoneFails
<1>34. CASE PdnsStarts BY <1>34 DEF PdnsStarts
<1>35. CASE PdnsStops BY <1>35 DEF PdnsStops, tmpFile
<1>36. CASE Crash BY <1>36 DEF Crash, Lost
<1>37. CASE Reboot BY <1>37 DEF Reboot, Lost
<1>38. CASE EditOffline BY <1>38 DEF EditOffline
<1>39. CASE UnconfiguredCall BY <1>39 DEF UnconfiguredCall, Lost
<1>40. CASE UnconfiguredList BY <1>40 DEF UnconfiguredList, Lost
<1>41. CASE UNCHANGED vars BY <1>41 DEF vars, tmpFile
<1> QED BY <1>2, <1>3, <1>4, <1>5, <1>6, <1>7, <1>8, <1>9, <1>10, <1>11, <1>12, <1>13, <1>14, <1>15, <1>16, <1>17, <1>18, <1>19, <1>20, <1>21, <1>22, <1>23, <1>24, <1>25, <1>26, <1>27, <1>28, <1>29, <1>30, <1>31, <1>32, <1>33, <1>34, <1>35, <1>36, <1>37, <1>38, <1>39, <1>40, <1>41
     DEF Next, Sysrepo, ChangeHandler, DoneHandler, ConfigThread

LEMMA HandlerInit == Init => HandlerShape /\ TmpFilesMatch
BY DEF Init, HandlerShape, TmpFilesMatch, DoneSteps

\* The inductive invariant behind the theorems below.
THEOREM HandlerInvariant == ASSUME ~IdsRestart PROVE Spec => []HandlerInv
<1>1. Init => HandlerInv BY TypeInit, HandlerInit DEF HandlerInv
<1>2. HandlerInv /\ [Next]_vars => HandlerInv'
  BY TypeStep, HandlerStep DEF HandlerInv
<1> QED BY <1>1, <1>2, PTL DEF Spec

\* Only Rename changes a pdns.conf, and only to the running configuration.
LEMMA FilesStep ==
  ASSUME HandlerInv, [Next]_vars
  PROVE  [\A p \in Paths : files'[p] # files[p] => files'[p] = Rendered(running)]_files
<1>1. files' = files \/ Rename
  BY DEF Next, Sysrepo, ChangeHandler, DoneHandler, ConfigThread, vars,
     Start, Begin, MainLoop, Commit, Abort, Finish, ConfigUntouched, ConfigRefused, ConfigWritten,
     ConfigWriteFails, NoZoneAddedOrDeleted, ZonesAddedOrDeleted, ZonesNotPossible, ZonesModified,
     ModifyNotPossible, Done, RenameFails, CopyConfig, CopyConfigFails, restartService, configureApi,
     configureApiFails, CreateZone, CreatedAll, RemoveZone, RemovedAll, Iteration, PutZone, PutEscapes, PutAll,
     ConfigDone, ConfigDoneFails, PdnsStarts, PdnsStops, Crash, UnconfiguredCall, UnconfiguredList, Reboot, Lost, EditOffline
<1>2. Rename => \A p \in Paths : files'[p] # files[p] => files'[p] = Rendered(running)
  BY DEF Rename, HandlerInv, TypeOK, TmpFilesMatch
<1> QED BY <1>1, <1>2

\* pdns.conf never becomes anything but the configuration that is running.
THEOREM InstallsOnlyRunning == ASSUME ~IdsRestart PROVE Spec => InstallsRunning
<1>1. HandlerInv /\ [Next]_vars =>
        [\A p \in Paths : files'[p] # files[p] => files'[p] = Rendered(running)]_files
  BY FilesStep
<1> QED BY <1>1, HandlerInvariant, PTL DEF Spec, InstallsRunning

\* Only CopyConfig changes the startup datastore, after the rename.
LEMMA StartupStep ==
  ASSUME HandlerInv, [Next]_vars
  PROVE  [startup' # startup =>
            startup' = running /\ \E p \in Paths : files[p] = Rendered(running)]_startup
<1>1. startup' = startup \/ CopyConfig
  BY DEF Next, Sysrepo, ChangeHandler, DoneHandler, ConfigThread, vars,
     Start, Begin, MainLoop, Commit, Abort, Finish, ConfigUntouched, ConfigRefused, ConfigWritten,
     ConfigWriteFails, NoZoneAddedOrDeleted, ZonesAddedOrDeleted, ZonesNotPossible, ZonesModified,
     ModifyNotPossible, Done, Rename, RenameFails, CopyConfigFails, restartService, configureApi,
     configureApiFails, CreateZone, CreatedAll, RemoveZone, RemovedAll, Iteration, PutZone, PutEscapes, PutAll,
     ConfigDone, ConfigDoneFails, PdnsStarts, PdnsStops, Crash, UnconfiguredCall, UnconfiguredList, Reboot, Lost, EditOffline
<1>2. CopyConfig => startup' = running /\ \E p \in Paths : files[p] = Rendered(running)
  BY DEF CopyConfig, HandlerInv, TmpFilesMatch
<1> QED BY <1>1, <1>2

\* What a reboot brings back has been installed as a pdns.conf before.
THEOREM StartupOnlyInstalled == ASSUME ~IdsRestart PROVE Spec => StartupInstalled
<1>1. HandlerInv /\ [Next]_vars =>
        [startup' # startup =>
           startup' = running /\ \E p \in Paths : files[p] = Rendered(running)]_startup
  BY StartupStep
<1> QED BY <1>1, HandlerInvariant, PTL DEF Spec, StartupInstalled

-----------------------------------------------------------------------------
(* A clean edit heals *)

\* No transaction edits the service settings beside the configuration.
SettingsApart == \A edits \in EditSets : "conf" \in edits => "svc" \notin edits

\* A transaction counts as an edit of the configuration once it is committed; until then the
\* handler has prepared it.
Prepared ==
    phase = "tx" /\ pc \notin DoneSteps =>
        /\ ~hist.edited
        /\ tx.new.conf # running.conf =>
             /\ tx.new.file = running.file /\ tx.new.restart = running.restart
             /\ pc \in {"zones", "modify", "verdict"} =>
                  pdnsConfigChanged /\ tmp[tmpFile(tx.id)] = Rendered(tx.new)

\* PowerDNS, when it runs and reads what the daemon writes, has the running configuration.
Loaded == cfg.restart /\ cfg.file = ServiceFile /\ pdns.up => pdns.loaded = Rendered(running)

\* How far the DONE of a clean edit has put things right.
Healing ==
    hist.edited /\ ~hist.faulty =>
        /\ pc \in DoneSteps => cfgPending = {}
        /\ pc = "done" => pdnsConfigChanged /\ tmp[tmpFile(tx.id)] = Rendered(running)
        /\ pc = "rename" => tmp[loc.fpath] = Rendered(running)
        /\ pc \in DoneSteps \ {"done", "rename"} => files[cfg.file] = Rendered(running)
        /\ pc \in DoneSteps \ {"done", "rename", "copy"} => startup = running
        /\ pc \in DoneSteps \ {"done", "rename", "copy", "restart"} => Loaded

HealInv == HandlerInv /\ Prepared /\ Healing /\ HealedByNextEdit

\* The handler's part of the invariant, without what it says of temporary files.
LEMMA HealStep ==
  ASSUME SettingsApart, HealInv, HandlerInv', [Next]_vars
  PROVE  Prepared' /\ Healing' /\ HealedByNextEdit'
<1>0. TypeOK /\ HandlerShape /\ Prepared /\ Healing /\ HealedByNextEdit
  BY DEF HealInv, HandlerInv
<1> USE <1>0 DEF HandlerShape, Prepared, Healing, HealedByNextEdit, Applied, Quiet, DoneSteps
<1>1. CASE Start BY <1>1 DEF Start
<1>2. CASE Begin
  <2>1. phase' = "tx" /\ pc' = "config" /\ hist' = [edited |-> FALSE, faulty |-> FALSE] /\ running' = running
    BY <1>2 DEF Begin
  <2>2. PICK edits \in EditSets :
        \E c \in IF "conf" \in edits THEN Confs ELSE {running.conf} :
        \E a \in IF "acls" \in edits THEN Acls ELSE {running.acls} :
        \E f \in IF "svc" \in edits THEN Paths ELSE {running.file} :
        \E r \in IF "svc" \in edits THEN BOOLEAN ELSE {running.restart} :
        \E zs \in IF "zones" \in edits THEN [Zones -> Settings \union {Absent}] ELSE {running.zones} :
           LET new == [conf |-> c, acls |-> a, file |-> f, restart |-> r, zones |-> zs]
           IN  /\ new # running
               /\ Cardinality({z \in Zones : zs[z] # running.zones[z]}) <= MaxZonesPerTx
               /\ tx' = [id |-> nextId, new |-> new]
    BY <1>2, Zenon DEF Begin
  <2>3. tx'.new.conf # running.conf => "conf" \in edits BY <2>2
  <2>4. "svc" \notin edits => tx'.new.file = running.file /\ tx'.new.restart = running.restart BY <2>2
  <2> QED BY <2>1, <2>3, <2>4, SettingsApart DEF SettingsApart
<1>3. CASE MainLoop BY <1>3 DEF MainLoop, vars
<1>4. CASE Commit
  <2>1. pc = "verdict" /\ phase = "tx" /\ phase' = phase /\ pc' = "done" /\ running' = tx.new
        /\ tx' = tx /\ tmp' = tmp /\ cfg' = cfg /\ pdnsConfigChanged' = pdnsConfigChanged
    BY <1>4 DEF Commit
  <2>2. hist'.edited = (tx.new.conf # running.conf) BY <1>4 DEF Commit, TypeOK, Histories
  <2>3. tx.new.file = running.file /\ tx.new.restart = running.restart => cfgPending' = {} BY <1>4 DEF Commit
  <2> QED BY <2>1, <2>2, <2>3 DEF tmpFile
<1>5. CASE Abort BY <1>5 DEF Abort, Reject, NoFault
<1>6. CASE Finish BY <1>6 DEF Finish, Loaded, NoFault
<1>7. CASE ConfigUntouched BY <1>7 DEF ConfigUntouched, ConfTouched, NoFault, NoTx, tmpFile
<1>8. CASE ConfigRefused BY <1>8 DEF ConfigRefused, Reject, NoFault
<1>9. CASE ConfigWritten
  <2>1. tmpFile(tx.id) \in TmpFiles BY DEF tmpFile, TmpFiles, TypeOK, Services, Transactions
  <2>2. tmp'[tmpFile(tx.id)] = Rendered(tx.new) BY <1>9, <2>1 DEF ConfigWritten, TypeOK
  <2>3. pc = "config" /\ pdnsConfigChanged' /\ phase' = phase /\ tx' = tx /\ running' = running /\ cfg' = cfg
        /\ hist' = hist /\ cfgPending' = cfgPending
        /\ pc' = IF phase = "enabled" THEN "done" ELSE "zones"
    BY <1>9 DEF ConfigWritten, MayWrite, NoFault
  <2>4. phase = "enabled" => Rendered(tx.new) = Rendered(running) BY DEF NoTx
  <2> QED BY <2>2, <2>3, <2>4 DEF tmpFile, Rendered
<1>10. CASE ConfigWriteFails BY <1>10 DEF ConfigWriteFails, Reject, MayWrite, Fault
<1>11. CASE NoZoneAddedOrDeleted BY <1>11 DEF NoZoneAddedOrDeleted, NoFault, tmpFile
<1>12. CASE ZonesAddedOrDeleted BY <1>12 DEF ZonesAddedOrDeleted, NoFault, tmpFile
<1>13. CASE ZonesNotPossible
  <2>1. pc = "zones" /\ phase = "tx" /\ phase' = "idle" /\ pc' = "none" BY <1>13 DEF ZonesNotPossible, Reject
  <2>2. hist' = hist \/ hist' = [hist EXCEPT !.faulty = TRUE] BY <1>13 DEF ZonesNotPossible, Fault, NoFault
  <2>3. ~hist'.edited BY <2>1, <2>2 DEF TypeOK, Histories
  <2> QED BY <2>1, <2>3
<1>14. CASE ZonesModified BY <1>14 DEF ZonesModified, NoFault, tmpFile
<1>15. CASE ModifyNotPossible BY <1>15 DEF ModifyNotPossible, Reject, Fault
<1>16. CASE Done
  <2>1. pc = "done" /\ pc' = (IF pdnsConfigChanged THEN "rename" ELSE "api") /\ hist' = hist /\ tmp' = tmp
        /\ cfgPending' = cfgPending /\ phase' = phase /\ running' = running
    BY <1>16 DEF Done, NoFault
  <2>2. pdnsConfigChanged => loc'.fpath = tmpFile(tx.id) BY <1>16 DEF Done, TypeOK, Locals
  <2> QED BY <2>1, <2>2 DEF Rendered
<1>17. CASE Rename
  <2>1. files'[cfg.file] = tmp[loc.fpath] BY <1>17 DEF Rename, TypeOK, Services
  <2>2. pc = "rename" /\ pc' = "copy" /\ hist' = hist /\ cfgPending' = cfgPending /\ running' = running
        /\ cfg' = cfg /\ phase' = phase
    BY <1>17 DEF Rename, NoFault
  <2> QED BY <2>1, <2>2 DEF Rendered
<1>18. CASE RenameFails
  <2>1. pc = "rename" /\ pc' = "returned" /\ phase' = phase BY <1>18 DEF RenameFails, Return
  <2>2. Rendered(running) # None BY SentinelAssumption DEF Rendered, Texts, TypeOK, Datastores
  <2>3. tmp[loc.fpath] = None => hist' = hist BY <1>18 DEF RenameFails, NoFault
  <2>4. tmp[loc.fpath] # None => hist'.faulty BY <1>18 DEF RenameFails, Fault, TypeOK, Histories
  <2> QED BY <2>1, <2>2, <2>3, <2>4
<1>19. CASE CopyConfig BY <1>19 DEF CopyConfig, NoFault
<1>20. CASE CopyConfigFails BY <1>20 DEF CopyConfigFails, Return, Fault
<1>21. CASE restartService
  <2>1. pc = "restart" /\ pc' = "api" /\ phase' = phase /\ files' = files /\ running' = running
        /\ startup' = startup /\ cfg' = cfg /\ cfgPending' = cfgPending
    BY <1>21 DEF restartService
  <2>2. hist' = hist \/ hist'.faulty BY <1>21 DEF restartService, NoFault, Fault, TypeOK, Histories
  <2>3. hist' = hist /\ hist.edited /\ ~hist.faulty => Loaded'
    <3> SUFFICES ASSUME hist' = hist, hist.edited, ~hist.faulty, cfg.restart, cfg.file = ServiceFile, pdns'.up
                 PROVE  pdns'.loaded = Rendered(running)
      BY <2>1 DEF Loaded, Rendered
    <3>1. files[ServiceFile] = Rendered(running) BY <2>1
    <3>2. ~Fault("slow") /\ ~Fault("dbus") BY DEF Fault, TypeOK, Histories
    <3>3. pdns' = [pdns EXCEPT !.up = TRUE, !.loaded = files[ServiceFile]] \/ pdns' = [pdns EXCEPT !.up = FALSE]
      BY <1>21, <3>2 DEF restartService
    <3> QED BY <3>1, <3>3 DEF TypeOK, PowerDnsStates
  <2> QED BY <2>1, <2>2, <2>3 DEF Rendered
<1>22. CASE configureApi BY <1>22 DEF configureApi, NoFault, Loaded
<1>23. CASE configureApiFails BY <1>23 DEF configureApiFails, Return, Fault
<1>24. CASE CreateZone
  <2>1. phase' = phase /\ pc' = pc /\ files' = files /\ tmp' = tmp /\ running' = running /\ startup' = startup /\ cfg' = cfg
        /\ cfgPending' = cfgPending /\ pc \in DoneSteps \ {"done", "rename", "copy", "restart"}
    BY <1>24 DEF CreateZone, Iteration
  <2>2. hist' = hist \/ hist'.faulty BY <1>24 DEF CreateZone, Iteration, NoFault, Fault, TypeOK, Histories
  <2>3. pdns'.up = pdns.up /\ pdns'.loaded = pdns.loaded BY <1>24 DEF CreateZone, Iteration, TypeOK, PowerDnsStates
  <2> QED BY <2>1, <2>2, <2>3 DEF Loaded, Rendered
<1>25. CASE CreatedAll BY <1>25 DEF CreatedAll, NoFault, Loaded
<1>26. CASE RemoveZone
  <2>1. phase' = phase /\ pc' = pc /\ files' = files /\ tmp' = tmp /\ running' = running /\ startup' = startup /\ cfg' = cfg
        /\ cfgPending' = cfgPending /\ pc \in DoneSteps \ {"done", "rename", "copy", "restart"}
    BY <1>26 DEF RemoveZone, Iteration
  <2>2. hist' = hist \/ hist'.faulty BY <1>26 DEF RemoveZone, Iteration, NoFault, Fault, TypeOK, Histories
  <2>3. pdns'.up = pdns.up /\ pdns'.loaded = pdns.loaded BY <1>26 DEF RemoveZone, Iteration, TypeOK, PowerDnsStates
  <2> QED BY <2>1, <2>2, <2>3 DEF Loaded, Rendered
<1>27. CASE RemovedAll BY <1>27 DEF RemovedAll, Return, NoFault, Loaded
<1>28. CASE PutZone
  <2>1. phase' = phase /\ pc' = pc /\ files' = files /\ tmp' = tmp /\ running' = running /\ startup' = startup /\ cfg' = cfg
        /\ cfgPending' = cfgPending /\ pc \in DoneSteps \ {"done", "rename", "copy", "restart"}
    BY <1>28 DEF PutZone
  <2>2. hist' = hist \/ hist'.faulty BY <1>28 DEF PutZone, NoFault, Fault, TypeOK, Histories
  <2>3. pdns'.up = pdns.up /\ pdns'.loaded = pdns.loaded BY <1>28 DEF PutZone, TypeOK, PowerDnsStates
  <2> QED BY <2>1, <2>2, <2>3 DEF Loaded, Rendered
<1>29. CASE PutEscapes
  <2>1. hist' = hist \/ hist'.faulty BY <1>29 DEF PutEscapes, NoFault, Fault, TypeOK, Histories
  <2> QED BY <1>29, <2>1 DEF PutEscapes, Return, Loaded, Rendered
<1>30. CASE PutAll BY <1>30 DEF PutAll, Return, NoFault, Loaded
<1>31. CASE ConfigDone
  <2>1. cfgPending # {} /\ hist' = hist /\ pc' = pc /\ phase' = phase BY <1>31 DEF ConfigDone, NoFault
  <2>2. running' = running /\ tx' = tx BY <1>31 DEF ConfigDone
  <2> QED BY <2>1, <2>2 DEF Rendered
<1>32. CASE ConfigDoneFails BY <1>32 DEF ConfigDoneFails, Fault, tmpFile
<1>33. CASE PdnsStarts
  <2>1. hist' = hist /\ pc' = pc /\ phase' = phase /\ running' = running /\ startup' = startup /\ files' = files
        /\ cfg' = cfg /\ tmp' = tmp /\ cfgPending' = cfgPending /\ tx' = tx /\ loc' = loc
        /\ pdnsConfigChanged' = pdnsConfigChanged
    BY <1>33 DEF PdnsStarts, NoFault
  <2>2. pdns'.loaded = files[ServiceFile] BY <1>33 DEF PdnsStarts, TypeOK, PowerDnsStates
  <2> QED BY <2>1, <2>2 DEF Loaded, Rendered, tmpFile
<1>34. CASE PdnsStops BY <1>34 DEF PdnsStops, Fault, tmpFile
<1>35. CASE Crash BY <1>35 DEF Crash, Lost, Fault
<1>36. CASE UnconfiguredCall BY <1>36 DEF UnconfiguredCall, Lost
<1>37. CASE UnconfiguredList BY <1>37 DEF UnconfiguredList, Lost
<1>38. CASE Reboot BY <1>38 DEF Reboot, Lost, Fault
<1>39. CASE EditOffline BY <1>39 DEF EditOffline, Fault
<1>40. CASE UNCHANGED vars BY <1>40 DEF vars, tmpFile, Loaded
<1> QED BY <1>1, <1>2, <1>3, <1>4, <1>5, <1>6, <1>7, <1>8, <1>9, <1>10, <1>11, <1>12, <1>13, <1>14, <1>15, <1>16, <1>17, <1>18, <1>19, <1>20, <1>21, <1>22, <1>23, <1>24, <1>25, <1>26, <1>27, <1>28, <1>29, <1>30, <1>31, <1>32, <1>33, <1>34, <1>35, <1>36, <1>37, <1>38, <1>39, <1>40
     DEF Next, Sysrepo, ChangeHandler, DoneHandler, ConfigThread

\* A configuration edit or a process start that met no fault puts right whatever faults and
\* refused transactions left behind, as long as service settings are edited in transactions of
\* their own (WrittenWhereConfigured is what fails otherwise).
THEOREM CleanEditHeals == ASSUME ~IdsRestart, SettingsApart PROVE Spec => []HealedByNextEdit
<1>1. Init => HealInv
  <2>1. Init => HandlerInv BY TypeInit, HandlerInit DEF HandlerInv
  <2>2. Init => Prepared /\ Healing /\ HealedByNextEdit
    BY DEF Init, Prepared, Healing, HealedByNextEdit, Applied, Quiet, DoneSteps
  <2> QED BY <2>1, <2>2 DEF HealInv
<1>2. HealInv /\ [Next]_vars => HealInv'
  <2> SUFFICES ASSUME HealInv, [Next]_vars PROVE HealInv' OBVIOUS
  <2>1. HandlerInv' BY TypeStep, HandlerStep DEF HealInv, HandlerInv
  <2> QED BY <2>1, HealStep DEF HealInv
<1>3. HealInv => HealedByNextEdit BY DEF HealInv
<1> QED BY <1>1, <1>2, <1>3, PTL DEF Spec

\* What the documentation says of config-file holds as long as the service settings are edited
\* apart from the configuration: a clean edit leaves pdns.conf where the settings say.
THEOREM WrittenInPlace == ASSUME ~IdsRestart, SettingsApart PROVE Spec => []WrittenWhereConfigured
<1>1. HealedByNextEdit => WrittenWhereConfigured BY DEF HealedByNextEdit, WrittenWhereConfigured
<1> QED BY <1>1, CleanEditHeals, PTL

-----------------------------------------------------------------------------
(* The handler gets nearer to its end *)

LEMMA EntriesFinite == ASSUME TypeOK PROVE IsFiniteSet(Entries)
<1> DEFINE D == {y \in Zones : zonesModified[y] # NoUpdate}
           f == [z \in D |-> <<z, zonesModified[z]>>]
<1>1. IsFiniteSet(D) BY ConstantAssumption, FS_Subset
<1>2. Entries = {<<z, zonesModified[z]>> : z \in D} BY DEF Entries
<1>3. f \in [D -> Entries] /\ \A e \in Entries : \E z \in D : f[z] = e BY <1>2
<1>4. f \in Surjection(D, Entries)
  <2> HIDE DEF f, D
  <2> QED BY <1>3 DEF Surjection
<1> QED BY <1>1, <1>4, FS_Surjection

\* The zones still to be put are finitely many.
LEMMA TodoFinite ==
  ASSUME TypeOK, IsFiniteSet(loc.todo), [Next]_vars
  PROVE  IsFiniteSet(loc'.todo)
<1>1. IsFiniteSet(NoLocals.todo) BY FS_EmptySet DEF NoLocals
<1>2. CASE loc'.todo = loc.todo BY <1>2
<1>3. CASE PutZone
  <2>1. PICK e \in loc.todo : loc' = [loc EXCEPT !.todo = loc.todo \ {e}] BY <1>3 DEF PutZone
  <2>2. loc'.todo = loc.todo \ {e} BY <2>1 DEF TypeOK, Locals
  <2>3. loc.todo \ {e} \subseteq loc.todo OBVIOUS
  <2> QED BY <2>2, <2>3, FS_Subset
<1>4. CASE RemovedAll
  <2>1. loc' = NoLocals \/ loc'.todo = Entries BY <1>4 DEF RemovedAll, Return, TypeOK, Locals
  <2> QED BY <1>1, <2>1, EntriesFinite
<1>5. CASE loc' = NoLocals BY <1>1, <1>5
<1>6. CASE Done \/ CreateZone \/ CreatedAll \/ RemoveZone
  BY <1>2, <1>6 DEF Done, CreateZone, CreatedAll, RemoveZone, Iteration, Advance, TypeOK, Locals
<1>7. CASE loc' = loc BY <1>2, <1>7
<1> QED BY <1>3, <1>4, <1>5, <1>6, <1>7
    DEF Next, Sysrepo, ChangeHandler, DoneHandler, ConfigThread, vars, Start, Begin, MainLoop, Commit, Abort, Finish,
    ConfigUntouched, ConfigRefused, ConfigWritten, ConfigWriteFails, NoZoneAddedOrDeleted, ZonesAddedOrDeleted,
    ZonesNotPossible, ZonesModified, ModifyNotPossible, Rename, RenameFails, Return, CopyConfig, CopyConfigFails,
    restartService, configureApi, configureApiFails, PutEscapes, PutAll, ConfigDone, ConfigDoneFails, PdnsStarts,
    PdnsStops, Crash, UnconfiguredCall, UnconfiguredList, Reboot, Lost, EditOffline

\* An event is at work exactly while it is being delivered.
AtWork == pc # "none" <=> phase \in {"enabled", "tx"}

LEMMA AtWorkStep ==
  ASSUME TypeOK, AtWork, [Next]_vars
  PROVE  AtWork'
<1>1. CASE ChangeHandler
  BY <1>1 DEF AtWork, ChangeHandler, ConfigUntouched, ConfigRefused, ConfigWritten, ConfigWriteFails, MayWrite, Reject,
     NoZoneAddedOrDeleted, ZonesAddedOrDeleted, ZonesNotPossible, ZonesModified, ModifyNotPossible
<1>2. CASE Sysrepo BY <1>2 DEF AtWork, Sysrepo, Commit, Abort, Reject, Finish
<1>3. CASE DoneHandler
  BY <1>3 DEF AtWork, DoneHandler, Done, Rename, RenameFails, CopyConfig, CopyConfigFails, restartService, Return,
     configureApi, configureApiFails, CreateZone, CreatedAll, RemoveZone, RemovedAll, Iteration, PutZone, PutEscapes, PutAll
<1>4. CASE ~(ChangeHandler \/ DoneHandler \/ Sysrepo)
  BY <1>4 DEF AtWork, Next, ConfigThread, vars, Start, Begin, MainLoop, ConfigDone, ConfigDoneFails, PdnsStarts,
     PdnsStops, Crash, UnconfiguredCall, UnconfiguredList, Reboot, Lost, EditOffline
<1> QED BY <1>1, <1>2, <1>3, <1>4

LEMMA StepNearer ==
  ASSUME TypeOK, AtWork, IsFiniteSet(loc.todo), [Next]_vars
  PROVE  NotBack
<1> USE DEF StageOf
<1>0. Len(zonesCreated) \in Nat /\ Len(zonesRemoved) \in Nat /\ loc.i \in Nat \ {0} BY DEF TypeOK, Locals
<1>1. CASE ChangeHandler
  BY <1>1 DEF ChangeHandler, ConfigUntouched, ConfigRefused, ConfigWritten, ConfigWriteFails, MayWrite, Reject,
     NoZoneAddedOrDeleted, ZonesAddedOrDeleted, ZonesNotPossible, ZonesModified, ModifyNotPossible, NotBack, Nearer
<1>2. CASE Sysrepo BY <1>2 DEF Sysrepo, Commit, Abort, Reject, Finish, NotBack, Nearer
<1>3. CASE DoneHandler
  <2>1. CASE CreateZone
    <3>1. pc = "create" /\ pc' = pc /\ loc'.i = loc.i + 1 /\ loc.i <= Len(zonesCreated) /\ zonesCreated' = zonesCreated
      BY <2>1 DEF CreateZone, Iteration, Advance, TypeOK, Locals
    <3> QED BY <1>0, <3>1 DEF TurnsLeft, NotBack, Nearer
  <2>2. CASE RemoveZone
    <3>1. pc = "remove" /\ pc' = pc /\ loc'.i = loc.i + 1 /\ loc.i <= Len(zonesRemoved) /\ zonesRemoved' = zonesRemoved
      BY <2>2 DEF RemoveZone, Iteration, Advance, TypeOK, Locals
    <3> QED BY <1>0, <3>1 DEF TurnsLeft, NotBack, Nearer
  <2>3. CASE PutZone
    <3>1. PICK e \in loc.todo : loc' = [loc EXCEPT !.todo = loc.todo \ {e}] BY <2>3 DEF PutZone
    <3>2. pc = "put" /\ pc' = pc /\ loc'.todo = loc.todo \ {e} BY <2>3, <3>1 DEF PutZone, TypeOK, Locals
    <3>3. Cardinality(loc.todo \ {e}) = Cardinality(loc.todo) - 1 /\ IsFiniteSet(loc.todo \ {e})
      BY <3>1, FS_RemoveElement
    <3>4. Cardinality(loc.todo \ {e}) \in Nat /\ Cardinality(loc.todo) \in Nat BY <3>3, FS_CardinalityType
    <3> QED BY <3>2, <3>3, <3>4 DEF TurnsLeft, NotBack, Nearer
  <2>4. CASE ~CreateZone /\ ~RemoveZone /\ ~PutZone
    BY <1>3, <2>4 DEF DoneHandler, Done, Rename, RenameFails, CopyConfig, CopyConfigFails, restartService, Return,
       configureApi, configureApiFails, CreatedAll, RemovedAll, PutEscapes, PutAll, NotBack, Nearer
  <2> QED BY <2>1, <2>2, <2>3, <2>4
<1>4. CASE ~(ChangeHandler \/ DoneHandler \/ Sysrepo)
  <2>1. \/ pc' = pc /\ loc' = loc /\ zonesCreated' = zonesCreated /\ zonesRemoved' = zonesRemoved
        \/ phase \in {"down", "idle"}
        \/ pc' = "none"
    BY <1>4 DEF Next, ConfigThread, vars, Start, Begin, MainLoop, ConfigDone, ConfigDoneFails, PdnsStarts,
       PdnsStops, Crash, UnconfiguredCall, UnconfiguredList, Reboot, Lost, EditOffline
  <2>2. CASE pc' = pc /\ loc' = loc /\ zonesCreated' = zonesCreated /\ zonesRemoved' = zonesRemoved
    BY <1>4, <2>2 DEF NotBack, TurnsLeft
  <2>3. CASE phase \in {"down", "idle"} BY <1>4, <2>3 DEF AtWork, NotBack
  <2>4. CASE pc' = "none"
    <3>1. pc # "none" => StageOf[pc] > 0 BY DEF TypeOK
    <3> QED BY <1>4, <2>4, <3>1 DEF NotBack, Nearer
  <2> QED BY <2>1, <2>2, <2>3, <2>4
<1> QED BY <1>1, <1>2, <1>3, <1>4

\* No step of module_change leads back to an earlier one, and no loop of it has more turns than
\* entries: whatever fails, every event is over after finitely many steps. (That they are taken
\* is what TxFinishes adds.)
THEOREM HandlerNeverBack == Spec => NeverBack
<1>1. Init => TypeOK /\ AtWork /\ IsFiniteSet(loc.todo) BY TypeInit, FS_EmptySet DEF Init, AtWork, NoLocals
<1>2. TypeOK /\ AtWork /\ IsFiniteSet(loc.todo) /\ [Next]_vars => TypeOK' /\ AtWork' /\ IsFiniteSet(loc.todo)'
  BY TypeStep, AtWorkStep, TodoFinite
<1>3. TypeOK /\ AtWork /\ IsFiniteSet(loc.todo) /\ [Next]_vars => NotBack BY StepNearer
<1> QED BY <1>1, <1>2, <1>3, PTL DEF Spec, NeverBack
==============================================================================
