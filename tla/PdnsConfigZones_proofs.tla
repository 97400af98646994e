------------------------ MODULE PdnsConfigZones_proofs ------------------------
(* Theorems about the zones that PdnsConfigCB creates and removes in PowerDNS. *)
EXTENDS PdnsConfigCB_proofs, ZoneState

USE DEF stores, disk, config, flags, lists

-----------------------------------------------------------------------------
(* Zones are never changed against the running datastore *)

\* Transactions edit the configuration or the zones, not both, and the service settings in
\* transactions of their own or beside zones.
ZonesApart == \A edits \in EditSets : "conf" \in edits => edits \intersect {"svc", "zones"} = {}

\* Faults that leave flags or lists behind do not happen.
NothingLeaks == Faults \intersect {"write", "rename", "copy", "sysrepo"} = {}

\* A transaction has a number, and an edit of the configuration leaves the rest alone.
OneSubject ==
    /\ phase = "tx" => tx.id # 0
    /\ phase = "tx" /\ pc \notin DoneSteps /\ tx.new.conf # running.conf =>
         tx.new.zones = running.zones /\ tx.new.file = running.file /\ tx.new.restart = running.restart

\* The flags are of the transaction being handled, and what they announce can be renamed.
FlagsOwn ==
    /\ pdnsConfigChanged =>
         /\ pc = "done" \/ (phase = "tx" /\ pc \in {"zones", "modify", "verdict"})
         /\ pc # "done" => tx.new.conf # running.conf
         /\ cfgPending = {} /\ tmp[tmpFile(tx.id)] # None
    /\ pc = "rename" => tmp[loc.fpath] # None
    /\ ApiMode /\ apiConfigChanged => pdnsConfigChanged \/ pc \in {"rename", "copy", "restart", "api"}

\* The lists are of the transaction being handled, which edits zones and nothing the flags
\* are about; every entry is what the transaction makes of a zone.
ListsOwn ==
    /\ zonesCreated # <<>> \/ zonesRemoved # <<>> =>
         /\ phase = "tx" /\ pc \in {"modify", "verdict", "done", "api", "create", "remove"}
         /\ ~pdnsConfigChanged /\ (ApiMode => ~apiConfigChanged)
    /\ \A k \in DOMAIN zonesCreated : tx.new.zones[zonesCreated[k].name] # Absent
    /\ \A k \in DOMAIN zonesRemoved : tx.new.zones[zonesRemoved[k]] = Absent

QueueInv == HandlerInv /\ OneSubject /\ FlagsOwn /\ ListsOwn

\* A step keeps flags and lists those of the transaction being handled.
LEMMA QueueStep ==
  ASSUME ZonesApart, NothingLeaks, QueueInv, HandlerInv', [Next]_vars
  PROVE  OneSubject' /\ FlagsOwn' /\ ListsOwn'
<1>0. TypeOK /\ HandlerShape /\ OneSubject /\ FlagsOwn /\ ListsOwn BY DEF QueueInv, HandlerInv
<1> USE <1>0 DEF HandlerShape, OneSubject, FlagsOwn, ListsOwn, DoneSteps
<1>1. CASE Start BY <1>1 DEF Start
<1>2. CASE Begin
  <2>1. phase = "idle" /\ phase' = "tx" /\ pc' = "config" /\ running' = running /\ zonesCreated' = zonesCreated
        /\ zonesRemoved' = zonesRemoved /\ pdnsConfigChanged' = pdnsConfigChanged /\ apiConfigChanged' = apiConfigChanged
    BY <1>2 DEF Begin
  <2>2. PICK edits \in EditSets :
        \E c \in IF "conf" \in edits THEN Confs ELSE {running.conf} :
        \E a \in IF "acls" \in edits THEN Acls ELSE {running.acls} :
        \E f \in IF "svc" \in edits THEN Paths ELSE {running.file} :
        \E r \in IF "svc" \in edits THEN BOOLEAN ELSE {running.restart} :
        \E zs \in IF "zones" \in edits THEN [Zones -> Settings \union {Absent}] ELSE {running.zones} :
           LET new == [conf |-> c, acls |-> a, file |-> f, restart |-> r, zones |-> zs]
           IN  /\ new # running
               /\ Cardinality({z \in Zones : zs[z] # running.zones[z]}) <= MaxZonesPerTx
               /\ tx' = [id |-> nextId, new |-> new]
    BY <1>2, Zenon DEF Begin
  <2>3. tx'.new.conf # running.conf => "conf" \in edits BY <2>2
  <2>4. "svc" \notin edits => tx'.new.file = running.file /\ tx'.new.restart = running.restart BY <2>2
  <2>5. "zones" \notin edits => tx'.new.zones = running.zones BY <2>2
  <2>8. tx'.id # 0 BY <1>2, <2>2, ConstantAssumption DEF TypeOK
  <2>6. OneSubject' BY <2>1, <2>3, <2>4, <2>5, <2>8, ZonesApart DEF ZonesApart
  <2>7. zonesCreated = <<>> /\ zonesRemoved = <<>> /\ ~pdnsConfigChanged /\ (ApiMode => ~apiConfigChanged)
    BY <2>1
  <2> QED BY <2>1, <2>6, <2>7
<1>3. CASE MainLoop BY <1>3 DEF MainLoop, vars
<1>4. CASE Commit
  <2>1. pc = "verdict" /\ phase = "tx" /\ phase' = phase /\ pc' = "done" /\ tx' = tx /\ tmp' = tmp /\ cfg' = cfg
        /\ pdnsConfigChanged' = pdnsConfigChanged /\ apiConfigChanged' = apiConfigChanged
        /\ zonesCreated' = zonesCreated /\ zonesRemoved' = zonesRemoved
    BY <1>4 DEF Commit
  <2>2. tx.new.file = running.file /\ tx.new.restart = running.restart => cfgPending' = {} BY <1>4 DEF Commit
  <2> QED BY <2>1, <2>2 DEF tmpFile
<1>5. CASE Abort BY <1>5 DEF Abort, Reject
<1>6. CASE Finish BY <1>6 DEF Finish, NoTx
<1>7. CASE ConfigUntouched BY <1>7 DEF ConfigUntouched, ConfTouched, tmpFile
<1>8. CASE ConfigRefused BY <1>8 DEF ConfigRefused, Reject, NoTx
<1>9. CASE ConfigWritten
  <2>1. tmpFile(tx.id) \in TmpFiles BY DEF tmpFile, TmpFiles, TypeOK, Services, Transactions
  <2>2. Rendered(tx.new) # None BY SentinelAssumption DEF Rendered, Texts, TypeOK, Transactions, Datastores
  <2>3. tmp'[tmpFile(tx.id)] # None BY <1>9, <2>1, <2>2 DEF ConfigWritten, TypeOK
  <2>4. pc = "config" /\ pdnsConfigChanged' /\ phase' = phase /\ tx' = tx /\ running' = running /\ cfg' = cfg
    BY <1>9 DEF ConfigWritten, MayWrite
  <2>6. cfgPending' = cfgPending /\ zonesCreated' = zonesCreated /\ zonesRemoved' = zonesRemoved
    BY <1>9 DEF ConfigWritten
  <2>7. pc' = IF phase = "enabled" THEN "done" ELSE "zones" BY <1>9 DEF ConfigWritten
  <2>5. phase = "tx" => tx.new.conf # running.conf
    BY <1>9, ConstantAssumption DEF ConfigWritten, MayWrite, ConfTouched, TypeOK
  <2>8. zonesCreated = <<>> /\ zonesRemoved = <<>> /\ cfgPending = {} /\ phase \in {"enabled", "tx"} BY <2>4
  <2> QED BY <2>3, <2>4, <2>5, <2>6, <2>7, <2>8 DEF tmpFile
<1>10. CASE ConfigWriteFails BY <1>10 DEF ConfigWriteFails, Fault, NothingLeaks
<1>11. CASE NoZoneAddedOrDeleted BY <1>11 DEF NoZoneAddedOrDeleted, tmpFile
<1>12. CASE ZonesAddedOrDeleted
  <2>1. PICK c \in SetToSeqs(Created), r \in SetToSeqs(Deleted) :
          /\ zonesCreated' = zonesCreated \o
                [k \in DOMAIN c |-> [name |-> c[k], settings |-> tx.new.zones[c[k]]]]
          /\ zonesRemoved' = zonesRemoved \o r
    BY <1>12 DEF ZonesAddedOrDeleted
  <2> DEFINE new == [k \in DOMAIN c |-> [name |-> c[k], settings |-> tx.new.zones[c[k]]]]
  <2>2. c \in Seq(Created) /\ r \in Seq(Deleted)
    BY OrderedSubset DEF Created, Deleted, TouchedZones
  <2>3. pc = "zones" /\ pc' = "modify" /\ phase = "tx" /\ phase' = phase /\ tx' = tx /\ running' = running
        /\ pdnsConfigChanged' = pdnsConfigChanged /\ apiConfigChanged' = apiConfigChanged /\ tmp' = tmp /\ cfg' = cfg
        /\ cfgPending' = cfgPending
    BY <1>12 DEF ZonesAddedOrDeleted
  <2>4. tx.new.zones # running.zones BY <1>12 DEF ZonesAddedOrDeleted, Created, Deleted, TouchedZones
  <2>5. ~pdnsConfigChanged /\ (ApiMode => ~apiConfigChanged) BY <2>3, <2>4
  <2>6. new \in Seq(NewZones) /\ \A k \in DOMAIN new : tx.new.zones[new[k].name] # Absent
    <3>1. Len(c) \in Nat /\ DOMAIN c = 1..Len(c) /\ \A k \in 1..Len(c) : c[k] \in Created BY <2>2
    <3>2. \A z \in Created : z \in Zones /\ tx.new.zones[z] \in Settings /\ tx.new.zones[z] # Absent
      BY SentinelAssumption DEF Created, TouchedZones, Transactions, Datastores, MaybeZones, TypeOK
    <3>3. \A k \in 1..Len(c) : [name |-> c[k], settings |-> tx.new.zones[c[k]]] \in NewZones BY <3>1, <3>2 DEF NewZones
    <3> QED BY <3>1, <3>2, <3>3
  <2>7. zonesCreated = <<>> /\ zonesRemoved = <<>> BY <2>3
  <2>8. zonesCreated' = new BY <2>1, <2>6, <2>7
  <2>9. zonesRemoved' = r BY <2>1, <2>2, <2>7
  <2>10. \A k \in DOMAIN r : tx.new.zones[r[k]] = Absent BY <2>2 DEF Deleted
  <2> QED BY <2>3, <2>5, <2>6, <2>8, <2>9, <2>10 DEF tmpFile
<1>13. CASE ZonesNotPossible BY <1>13 DEF ZonesNotPossible, Reject, Created, Deleted, TouchedZones, NoTx
<1>14. CASE ZonesModified BY <1>14 DEF ZonesModified, tmpFile
<1>15. CASE ModifyNotPossible BY <1>15 DEF ModifyNotPossible, Fault, NothingLeaks
<1>16. CASE Done
  <2>1. pc = "done" /\ pc' = (IF pdnsConfigChanged THEN "rename" ELSE "api") /\ tmp' = tmp /\ tx' = tx
        /\ phase' = phase /\ ~pdnsConfigChanged' /\ apiConfigChanged' = apiConfigChanged
        /\ zonesCreated' = zonesCreated /\ zonesRemoved' = zonesRemoved
    BY <1>16 DEF Done
  <2>2. pdnsConfigChanged => loc'.fpath = tmpFile(tx.id) BY <1>16 DEF Done, TypeOK, Locals
  <2> QED BY <2>1, <2>2
<1>17. CASE Rename BY <1>17 DEF Rename
<1>18. CASE RenameFails BY <1>18 DEF RenameFails, Fault, NothingLeaks
<1>19. CASE CopyConfig BY <1>19 DEF CopyConfig
<1>20. CASE CopyConfigFails BY <1>20 DEF CopyConfigFails, Fault, NothingLeaks
<1>21. CASE restartService BY <1>21 DEF restartService
<1>22. CASE configureApi BY <1>22 DEF configureApi
<1>23. CASE configureApiFails BY <1>23 DEF configureApiFails, Return
<1>24. CASE CreateZone BY <1>24 DEF CreateZone, Iteration
<1>25. CASE CreatedAll BY <1>25 DEF CreatedAll
<1>26. CASE RemoveZone BY <1>26 DEF RemoveZone, Iteration
<1>27. CASE RemovedAll BY <1>27 DEF RemovedAll, Return
<1>28. CASE PutZone BY <1>28 DEF PutZone
<1>29. CASE PutEscapes BY <1>29 DEF PutEscapes, Return
<1>30. CASE PutAll BY <1>30 DEF PutAll, Return
<1>31. CASE ConfigDone BY <1>31 DEF ConfigDone, tmpFile
<1>32. CASE ConfigDoneFails BY <1>32 DEF ConfigDoneFails, Fault, NothingLeaks
<1>33. CASE PdnsStarts BY <1>33 DEF PdnsStarts, tmpFile
<1>34. CASE PdnsStops BY <1>34 DEF PdnsStops, tmpFile
<1>35. CASE Crash BY <1>35 DEF Crash, Lost
<1>36. CASE UnconfiguredCall BY <1>36 DEF UnconfiguredCall, Lost
<1>37. CASE UnconfiguredList BY <1>37 DEF UnconfiguredList, Lost
<1>38. CASE Reboot BY <1>38 DEF Reboot, Lost
<1>39. CASE EditOffline BY <1>39 DEF EditOffline
<1>40. CASE UNCHANGED vars BY <1>40 DEF vars, tmpFile
<1> QED BY <1>1, <1>2, <1>3, <1>4, <1>5, <1>6, <1>7, <1>8, <1>9, <1>10, <1>11, <1>12, <1>13, <1>14, <1>15, <1>16, <1>17, <1>18, <1>19, <1>20, <1>21, <1>22, <1>23, <1>24, <1>25, <1>26, <1>27, <1>28, <1>29, <1>30, <1>31, <1>32, <1>33, <1>34, <1>35, <1>36, <1>37, <1>38, <1>39, <1>40
     DEF Next, Sysrepo, ChangeHandler, DoneHandler, ConfigThread

\* What can change the zones of PowerDNS, and how.
LEMMA ZonesStep ==
  ASSUME QueueInv, [Next]_vars
  PROVE  [\A z \in Zones : (pdns.zones'[z] = Absent) # (pdns.zones[z] = Absent) =>
                             (pdns.zones'[z] = Absent) = (running.zones[z] = Absent)]_pdns
<1>0. TypeOK /\ HandlerShape /\ ListsOwn BY DEF QueueInv, HandlerInv
<1>1. CreateZone \/ RemoveZone \/ PutZone \/ pdns'.zones = pdns.zones
  BY <1>0 DEF TypeOK, PowerDnsStates, Next, Sysrepo, ChangeHandler, DoneHandler, ConfigThread, vars,
     Start, Begin, MainLoop, Commit, Abort, Finish, ConfigUntouched, ConfigRefused, ConfigWritten,
     ConfigWriteFails, NoZoneAddedOrDeleted, ZonesAddedOrDeleted, ZonesNotPossible, ZonesModified,
     ModifyNotPossible, Done, Rename, RenameFails, CopyConfig, CopyConfigFails, restartService, configureApi,
     configureApiFails, CreatedAll, RemovedAll, PutEscapes, PutAll,
     ConfigDone, ConfigDoneFails, PdnsStarts, PdnsStops, Crash, UnconfiguredCall, UnconfiguredList, Reboot, Lost, EditOffline
<1>2. CASE CreateZone
  <2> DEFINE e == zonesCreated[loc.i]
  <2>1. pc = "create" /\ loc.i \in DOMAIN zonesCreated BY <1>0, <1>2 DEF CreateZone, TypeOK, Locals
  <2>5. e \in NewZones
    <3> HIDE DEF e
    <3>1. zonesCreated \in Seq(NewZones) BY <1>0 DEF TypeOK
    <3> QED BY <2>1, <3>1 DEF e
  <2>2. e.name \in Zones /\ running.zones[e.name] # Absent
    BY <1>0, <2>1, <2>5 DEF HandlerShape, DoneSteps, ListsOwn, NewZones
  <2>3. pdns'.zones = [pdns.zones EXCEPT ![e.name] = e.settings] \/ pdns' = pdns
    BY <1>0, <1>2 DEF CreateZone, Iteration, TypeOK, PowerDnsStates
  <2>4. e.settings # Absent BY <2>5, SentinelAssumption DEF NewZones
  <2> QED BY <1>0, <2>2, <2>3, <2>4 DEF TypeOK, PowerDnsStates, MaybeZones
<1>3. CASE RemoveZone
  <2> DEFINE z == zonesRemoved[loc.i]
  <2>1. pc = "remove" /\ loc.i \in DOMAIN zonesRemoved BY <1>0, <1>3 DEF RemoveZone, TypeOK, Locals
  <2>2. z \in Zones /\ running.zones[z] = Absent
    BY <1>0, <2>1 DEF HandlerShape, DoneSteps, ListsOwn, TypeOK
  <2>3. pdns'.zones = [pdns.zones EXCEPT ![z] = Absent] \/ pdns' = pdns
    BY <1>0, <1>3 DEF RemoveZone, Iteration, TypeOK, PowerDnsStates
  <2> QED BY <1>0, <2>2, <2>3 DEF TypeOK, PowerDnsStates, MaybeZones
<1>4. CASE PutZone
  <2>1. PICK e \in loc.todo :
          \/ /\ pdns.zones[e[1]] # Absent
             /\ pdns' = [pdns EXCEPT !.zones[e[1]] = Updated(pdns.zones[e[1]], e[2])]
          \/ UNCHANGED pdns
    BY <1>4 DEF PutZone
  <2>2. e[1] \in Zones /\ e[2] \in Updates BY <1>0 DEF Locals, TypeOK
  <2>3. pdns.zones[e[1]] # Absent => Updated(pdns.zones[e[1]], e[2]) # Absent
    <3>1. pdns.zones[e[1]] # Absent => pdns.zones[e[1]] \in Settings
      BY <1>0, <2>2 DEF TypeOK, PowerDnsStates, MaybeZones
    <3> QED BY <2>2, <3>1, SentinelAssumption DEF Updated, Settings, Updates
  <2> QED BY <1>0, <2>1, <2>2, <2>3 DEF TypeOK, PowerDnsStates, MaybeZones
<1>5. CASE pdns'.zones = pdns.zones BY <1>5
<1> QED BY <1>1, <1>2, <1>3, <1>4, <1>5

\* However the API calls, PowerDNS and the process fail, zones appear in PowerDNS and
\* disappear from it only as the running datastore says, for transactions of one subject and
\* without the faults that leak flags and lists.
THEOREM ZonesFollowRunning ==
  ASSUME ~IdsRestart, ZonesApart, NothingLeaks PROVE Spec => NeverAgainstRunning
<1>1. Init => QueueInv
  <2>1. Init => HandlerInv BY TypeInit, HandlerInit DEF HandlerInv
  <2>2. Init => OneSubject /\ FlagsOwn /\ ListsOwn BY DEF Init, OneSubject, FlagsOwn, ListsOwn
  <2> QED BY <2>1, <2>2 DEF QueueInv
<1>2. QueueInv /\ [Next]_vars => QueueInv'
  <2> SUFFICES ASSUME QueueInv, [Next]_vars PROVE QueueInv' OBVIOUS
  <2>1. HandlerInv' BY TypeStep, HandlerStep DEF QueueInv, HandlerInv
  <2> QED BY <2>1, QueueStep DEF QueueInv
<1>3. QueueInv /\ [Next]_vars =>
        [\A z \in Zones : (pdns.zones'[z] = Absent) # (pdns.zones[z] = Absent) =>
                            (pdns.zones'[z] = Absent) = (running.zones[z] = Absent)]_pdns
  BY ZonesStep
<1> QED BY <1>1, <1>2, <1>3, PTL DEF Spec, NeverAgainstRunning

-----------------------------------------------------------------------------
(* Without faults PowerDNS mirrors the datastore *)

\* Nothing fails but that other subscribers refuse transactions; PowerDNS reads the file the
\* daemon writes and has an API; transactions edit the configuration and zones.
Calm ==
    /\ Faults \subseteq {"veto"}
    /\ ApiMode /\ ~IdsRestart /\ Paths = {ServiceFile} /\ "conf" \notin Zones
    /\ \A c \in Confs : c.api \notin {NoApi, None}
    /\ \A edits \in EditSets : edits \subseteq {"conf", "zones"}

\* A transaction creates and removes any zones, or changes the settings of one
\* (changeZoneModify sends those of several to one of them).
Differ(ps, ts) == {z \in Zones : ps[z] # ts[z]}
OneKind(ps, ts) ==
    \/ \A z \in Differ(ps, ts) : ps[z] = Absent \/ ts[z] = Absent
    \/ \A y, z \in Differ(ps, ts) : y = z

OneModified == phase = "tx" /\ pc \notin DoneSteps => OneKind(running.zones, tx.new.zones)

BeforeApi == {"done", "rename", "copy", "restart", "api"}

\* The service settings stay; PowerDNS is up when a transaction begins.
Steady ==
    /\ cfg = [file |-> ServiceFile, restart |-> running.restart] /\ cfgPending = {}
    /\ phase = "tx" =>
         /\ tx.id # 0 /\ pdns.up
         /\ tx.new.acls = running.acls /\ tx.new.file = running.file /\ tx.new.restart = running.restart
    /\ phase = "tx" /\ pc \notin DoneSteps => tx.new # running
    /\ phase \in {"down", "enabled"} => ~pdns.up

\* The disk has the running configuration, but for the time from the commit to the rename, and
\* one temporary file at most.
OnDisk ==
    /\ \A t \in TmpFiles : tmp[t] # None => t = tmpFile(tx.id) /\ (pdnsConfigChanged \/ pc = "rename")
    /\ pdnsConfigChanged => tmp[tmpFile(tx.id)] = Rendered(tx.new)
    /\ pc = "rename" => loc.fpath = tmpFile(tx.id) /\ tmp[tmpFile(tx.id)] = Rendered(running)
    /\ phase \in {"idle", "tx"} /\ pc \notin DoneSteps => files[ServiceFile] = Rendered(running)
    /\ pc \in DoneSteps \ {"done", "rename"} => files[ServiceFile] = Rendered(running)
    /\ pc = "done" /\ ~pdnsConfigChanged => files[ServiceFile] = Rendered(running)

\* The flags are of the event being handled.
FlagsCalm ==
    /\ pdnsConfigChanged => pc \in {"zones", "modify", "verdict", "done"}
    /\ phase = "tx" /\ pc \in {"zones", "modify", "verdict"} =>
         /\ pdnsConfigChanged <=> (tx.new.conf # running.conf)
         /\ tx.new.conf.api # running.conf.api => apiConfigChanged
    /\ phase = "tx" /\ (pdnsConfigChanged \/ pc \in {"rename", "copy", "restart"}) => cfg.restart
    /\ phase = "enabled" /\ pc = "done" => pdnsConfigChanged
    /\ phase = "enabled" /\ pc \in BeforeApi => apiConfigChanged
    /\ apiConfigChanged => pdnsConfigChanged \/ pc \in {"rename", "copy", "restart", "api"}

\* What PowerDNS runs with, and the API client.
InPowerDns ==
    /\ phase \in {"idle", "tx"} /\ pdns.up /\ pc \notin {"done", "rename", "copy", "restart"} =>
         pdns.loaded = Rendered(running)
    /\ phase = "tx" /\ pc = "done" /\ ~pdnsConfigChanged => pdns.loaded = Rendered(running)
    /\ phase \in {"idle", "tx"} /\ pc \notin BeforeApi => client = running.conf.api
    /\ pc \in {"create", "remove", "put", "returned"} => client = running.conf.api
    /\ phase \in {"idle", "tx"} => client # None
    /\ phase = "tx" /\ pc \in BeforeApi => apiConfigChanged \/ client = running.conf.api

\* Zones that PowerDNS has as ps and should have as ts: the new ones and the ones to remove,
\* each once in its list, from an index on;
Creates(ps, ts, new, from) ==
    /\ \A k \in from..Len(new) : ps[new[k].name] = Absent /\ new[k].settings = ts[new[k].name]
    /\ \A k, l \in from..Len(new) : new[k].name = new[l].name => k = l
    /\ \A z \in Differ(ps, ts) : ps[z] = Absent => \E k \in from..Len(new) : new[k].name = z

Removes(ps, ts, gone, from) ==
    /\ \A k \in from..Len(gone) : ps[gone[k]] # Absent /\ ts[gone[k]] = Absent
    /\ \A k, l \in from..Len(gone) : gone[k] = gone[l] => k = l
    /\ \A z \in Differ(ps, ts) : ts[z] = Absent => \E k \in from..Len(gone) : gone[k] = z

\* updates, which turn what PowerDNS has of a zone into what it should have; and the updates
\* still to put.
Turns(ps, ts, z, u) ==
    /\ z \in Zones /\ u \in Updates
    /\ ts[z] # Absent /\ Updated(ts[z], u) = ts[z]
    /\ ps[z] # Absent => Updated(ps[z], u) = ts[z]

Corrections(ps, ts, updates) ==
    /\ \A z \in Zones : updates[z] # NoUpdate => Turns(ps, ts, z, updates[z])
    /\ \A z \in Differ(ps, ts) : ps[z] = Absent \/ ts[z] = Absent \/ updates[z] # NoUpdate

Pending(ps, ts, todo) ==
    /\ \A e \in todo : Turns(ps, ts, e[1], e[2]) /\ ps[e[1]] # Absent
    /\ \A z \in Differ(ps, ts) : \E u \in Updates : <<z, u>> \in todo

Queued ==
    /\ ~loc.errors
    /\ pc \notin {"create", "remove", "put"} => loc.i = 1
    /\ pc # "put" => loc.todo = {}
    /\ pc \notin DoneSteps \/ phase # "tx" \/ pc = "returned" => pdns.zones = running.zones
    /\ phase # "tx" \/ pc \in {"config", "zones", "put", "returned"} => zonesCreated = <<>> /\ zonesRemoved = <<>>
    /\ phase # "tx" \/ pc \in {"config", "zones", "modify", "returned"} => zonesModified = NoUpdates
    /\ phase # "tx" => loc.i = 1 /\ loc.todo = {}
    /\ phase = "tx" /\ pc \in {"modify", "verdict", "create"} \union BeforeApi =>
         /\ Creates(pdns.zones, tx.new.zones, zonesCreated, loc.i)
         /\ Removes(pdns.zones, tx.new.zones, zonesRemoved, 1)
    /\ phase = "tx" /\ pc = "remove" =>
         Creates(pdns.zones, tx.new.zones, <<>>, 1) /\ Removes(pdns.zones, tx.new.zones, zonesRemoved, loc.i)
    /\ phase = "tx" /\ pc \in {"verdict", "create", "remove"} \union BeforeApi =>
         Corrections(pdns.zones, tx.new.zones, zonesModified)
    /\ phase = "tx" /\ pc = "put" => Pending(pdns.zones, tx.new.zones, loc.todo)

MirrorInv == HandlerInv /\ Steady /\ OnDisk /\ FlagsCalm /\ InPowerDns /\ Queued

\* What does not happen in calm.
LEMMA NoFaults == ASSUME Calm, NEW f, f # "veto" PROVE ~Fault(f)
BY DEF Calm, Fault

LEMMA Reachable ==
  ASSUME Calm, MirrorInv, phase = "tx", pc \in {"zones", "create", "remove", "put"}
  PROVE  ApiReachable
<1>0. TypeOK /\ HandlerShape /\ Steady /\ InPowerDns BY DEF MirrorInv, HandlerInv
<1>1. pdns.up BY <1>0 DEF Steady
<1>2. client = running.conf.api BY <1>0 DEF InPowerDns, BeforeApi
<1>3. pdns.loaded = Rendered(running) BY <1>0, <1>1 DEF InPowerDns
<1>4. running.conf \in Confs /\ Rendered(running) \in Texts BY <1>0 DEF TypeOK, Datastores, Rendered, Texts
<1> QED BY <1>1, <1>2, <1>3, <1>4, SentinelAssumption DEF ApiReachable, Calm, Rendered

LEMMA NothingFails ==
  ASSUME Calm, MirrorInv
  PROVE  /\ ~ConfigWriteFails /\ ~ZonesNotPossible /\ ~ModifyNotPossible
         /\ ~RenameFails /\ ~CopyConfigFails /\ ~configureApiFails /\ ~PutEscapes
         /\ ~ConfigDone /\ ~ConfigDoneFails /\ ~PdnsStops /\ ~Crash /\ ~Reboot /\ ~EditOffline
         /\ ~UnconfiguredCall /\ ~UnconfiguredList
<1>0. TypeOK /\ HandlerShape /\ Steady /\ OnDisk /\ FlagsCalm /\ InPowerDns /\ Queued BY DEF MirrorInv, HandlerInv
<1>1. ~Fault("write") /\ ~Fault("api") /\ ~Fault("sysrepo") /\ ~Fault("rename") /\ ~Fault("copy") /\ ~Fault("client")
      /\ ~Fault("pdns") /\ ~Fault("crash") /\ ~Fault("reboot") /\ ~Fault("offline")
  BY NoFaults
<1>2. ~ConfigWriteFails /\ ~ModifyNotPossible /\ ~CopyConfigFails /\ ~configureApiFails /\ ~PdnsStops /\ ~Crash
      /\ ~Reboot /\ ~EditOffline /\ ~ConfigDone /\ ~ConfigDoneFails
  BY <1>0, <1>1 DEF ConfigWriteFails, ModifyNotPossible, CopyConfigFails, configureApiFails, PdnsStops, Crash,
     Reboot, EditOffline, ConfigDone, ConfigDoneFails, Steady
<1>3. ~ZonesNotPossible
  <2> SUFFICES ASSUME ZonesNotPossible PROVE FALSE OBVIOUS
  <2>1. pc = "zones" /\ phase = "tx" BY <1>0 DEF ZonesNotPossible, HandlerShape, DoneSteps
  <2>2. ApiReachable BY <2>1, Reachable
  <2> QED BY <1>1, <2>2 DEF ZonesNotPossible
<1>4. ~PutEscapes
  <2> SUFFICES ASSUME PutEscapes PROVE FALSE OBVIOUS
  <2>1. pc = "put" /\ phase = "tx" BY <1>0 DEF PutEscapes, HandlerShape, DoneSteps, Queued
  <2>2. ApiReachable BY <2>1, Reachable
  <2> QED BY <1>1, <2>2 DEF PutEscapes
<1>5. ~RenameFails
  <2>1. Rendered(running) # None BY <1>0, SentinelAssumption DEF Rendered, Texts, TypeOK, Datastores
  <2> QED BY <1>0, <1>1, <2>1 DEF RenameFails, OnDisk
<1>6. ~UnconfiguredList BY <1>0 DEF UnconfiguredList, InPowerDns
<1>7. ~UnconfiguredCall BY <1>0 DEF UnconfiguredCall, InPowerDns, Queued, HandlerShape, DoneSteps
<1> QED BY <1>1, <1>2, <1>3, <1>4, <1>5, <1>6, <1>7

\* What single steps do, as far as the parts below use it.
LEMMA ApiNotNone == ASSUME Calm, TypeOK PROVE running.conf.api # None
BY DEF Calm, TypeOK, Datastores

LEMMA BeginWhat ==
  ASSUME Calm, TypeOK, Begin
  PROVE  /\ phase = "idle" /\ phase' = "tx" /\ pc' = "config" /\ running' = running /\ pdns' = pdns /\ pdns.up
         /\ cfg' = cfg /\ cfgPending' = cfgPending
         /\ tx'.id # 0 /\ tx'.new # running
         /\ tx'.new.acls = running.acls /\ tx'.new.file = running.file /\ tx'.new.restart = running.restart
<1>1. phase = "idle" /\ phase' = "tx" /\ pc' = "config" /\ running' = running /\ pdns' = pdns /\ pdns.up
      /\ cfg' = cfg /\ cfgPending' = cfgPending
  BY DEF Begin, Calm
<1>2. PICK edits \in EditSets :
      \E c \in IF "conf" \in edits THEN Confs ELSE {running.conf} :
      \E a \in IF "acls" \in edits THEN Acls ELSE {running.acls} :
      \E f \in IF "svc" \in edits THEN Paths ELSE {running.file} :
      \E r \in IF "svc" \in edits THEN BOOLEAN ELSE {running.restart} :
      \E zs \in IF "zones" \in edits THEN [Zones -> Settings \union {Absent}] ELSE {running.zones} :
         LET new == [conf |-> c, acls |-> a, file |-> f, restart |-> r, zones |-> zs]
         IN  /\ new # running
             /\ Cardinality({z \in Zones : zs[z] # running.zones[z]}) <= MaxZonesPerTx
             /\ tx' = [id |-> nextId, new |-> new]
  BY Zenon DEF Begin
<1>3. "acls" \notin edits /\ "svc" \notin edits BY DEF Calm
<1>4. tx'.new # running /\ tx'.id = nextId BY <1>2
<1>5. tx'.new.acls = running.acls /\ tx'.new.file = running.file /\ tx'.new.restart = running.restart BY <1>2, <1>3
<1>6. tx'.id # 0 BY <1>4, ConstantAssumption DEF TypeOK
<1> QED BY <1>1, <1>4, <1>5, <1>6

LEMMA RestartWhat ==
  ASSUME Calm, MirrorInv, restartService
  PROVE  /\ pc = "restart" /\ pc' = "api" /\ phase' = phase /\ running' = running /\ tx' = tx
         /\ cfg' = cfg /\ cfgPending' = cfgPending /\ files' = files /\ pdns'.zones = pdns.zones
         /\ phase = "enabled" => ~pdns'.up
         /\ phase = "tx" => pdns'.up /\ pdns'.loaded = files[ServiceFile]
         /\ phase # "tx" => pdns'.loaded = pdns.loaded
<1>0. TypeOK /\ HandlerShape /\ Steady /\ FlagsCalm BY DEF MirrorInv, HandlerInv
<1>1. pc = "restart" /\ pc' = "api" /\ phase' = phase /\ running' = running /\ tx' = tx
      /\ cfg' = cfg /\ cfgPending' = cfgPending /\ files' = files
  BY DEF restartService
<1>2. ~Fault("slow") /\ ~Fault("dbus") BY NoFaults
<1>3. phase = "tx" => cfg.restart BY <1>0, <1>1 DEF FlagsCalm
<1>4. CASE phase = "tx"
  <2>1. pdns' = [pdns EXCEPT !.up = TRUE, !.loaded = files[ServiceFile]] BY <1>2, <1>3, <1>4 DEF restartService
  <2> QED BY <1>0, <1>1, <1>4, <2>1 DEF TypeOK, PowerDnsStates
<1>5. CASE phase # "tx"
  <2>1. pdns' = pdns \/ pdns' = [pdns EXCEPT !.up = FALSE] BY <1>2, <1>5 DEF restartService
  <2> QED BY <1>0, <1>1, <1>5, <2>1 DEF TypeOK, PowerDnsStates, Steady
<1> QED BY <1>4, <1>5

LEMMA CallWhat ==
  ASSUME TypeOK
  PROVE  CreateZone \/ RemoveZone \/ PutZone => pdns'.up = pdns.up /\ pdns'.loaded = pdns.loaded
BY DEF CreateZone, RemoveZone, PutZone, Iteration, TypeOK, PowerDnsStates

LEMMA StartsWhat ==
  ASSUME TypeOK, PdnsStarts
  PROVE  ~pdns.up /\ pdns'.up /\ pdns'.loaded = files[ServiceFile] /\ pdns'.zones = pdns.zones
BY DEF PdnsStarts, TypeOK, PowerDnsStates

\* A step of a calm system keeps the parts of the invariant: the service settings,
LEMMA SteadyStep ==
  ASSUME Calm, MirrorInv, HandlerInv', [Next]_vars
  PROVE  Steady'
<1>0. /\ TypeOK /\ HandlerShape /\ Steady /\ OnDisk /\ FlagsCalm /\ InPowerDns /\ Queued
      /\ TypeOK'
  BY DEF MirrorInv, HandlerInv
<1> USE <1>0 DEF Steady, HandlerShape, DoneSteps
<1>1. CASE Start BY <1>1 DEF Start, NoTx, Calm, TypeOK, Datastores
<1>2. CASE Begin
  <2>1. phase' = "tx" /\ pc' = "config" /\ cfg' = cfg /\ cfgPending' = cfgPending /\ running' = running /\ pdns' = pdns
        /\ pdns.up
    BY <1>2, BeginWhat
  <2> QED BY <1>2, <2>1, BeginWhat
<1>3. CASE MainLoop BY <1>3 DEF MainLoop, vars
<1>4. CASE Commit BY <1>4 DEF Commit
<1>5. CASE Abort BY <1>5 DEF Abort, Reject, NoTx, TmpRemoved
<1>6. CASE Finish BY <1>6 DEF Finish, NoTx
<1>7. CASE ConfigUntouched BY <1>7 DEF ConfigUntouched, ConfTouched, ApiTouched
<1>8. CASE ConfigRefused BY <1>8 DEF ConfigRefused, Reject, NoTx
<1>9. CASE ConfigWritten BY <1>9 DEF ConfigWritten, MayWrite
<1>10. CASE NoZoneAddedOrDeleted BY <1>10 DEF NoZoneAddedOrDeleted
<1>11. CASE ZonesAddedOrDeleted BY <1>11 DEF ZonesAddedOrDeleted
<1>12. CASE ZonesModified BY <1>12 DEF ZonesModified
<1>13. CASE Done BY <1>13 DEF Done
<1>14. CASE Rename BY <1>14 DEF Rename
<1>15. CASE CopyConfig BY <1>15 DEF CopyConfig
<1>16. CASE restartService BY <1>16, RestartWhat
<1>17. CASE configureApi BY <1>17 DEF configureApi
<1>18. CASE CreateZone BY <1>18, CallWhat DEF CreateZone, Iteration
<1>19. CASE CreatedAll BY <1>19 DEF CreatedAll
<1>20. CASE RemoveZone BY <1>20, CallWhat DEF RemoveZone, Iteration
<1>21. CASE RemovedAll BY <1>21 DEF RemovedAll, Return
<1>22. CASE PutZone BY <1>22, CallWhat DEF PutZone
<1>23. CASE PutAll BY <1>23 DEF PutAll, Return
<1>24. CASE PdnsStarts BY <1>24, StartsWhat DEF PdnsStarts, Calm
<1>25. CASE UNCHANGED vars BY <1>25 DEF vars
<1> QED BY NothingFails, <1>1, <1>2, <1>3, <1>4, <1>5, <1>6, <1>7, <1>8, <1>9, <1>10, <1>11, <1>12, <1>13, <1>14, <1>15, <1>16, <1>17, <1>18, <1>19, <1>20, <1>21, <1>22, <1>23, <1>24, <1>25
     DEF Next, Sysrepo, ChangeHandler, DoneHandler, ConfigThread

\* the files,
LEMMA OnDiskStep ==
  ASSUME Calm, MirrorInv, HandlerInv', [Next]_vars
  PROVE  OnDisk'
<1>0. /\ TypeOK /\ HandlerShape /\ Steady /\ OnDisk /\ FlagsCalm /\ InPowerDns /\ Queued
      /\ TypeOK'
  BY DEF MirrorInv, HandlerInv
<1> USE <1>0 DEF OnDisk, Steady, FlagsCalm, HandlerShape, DoneSteps, tmpFile, Rendered
<1>1. CASE Start
  <2>1. \A t \in TmpFiles : tmp'[t] = None BY <1>1 DEF Start
  <2> QED BY <1>1, <2>1 DEF Start
<1>2. CASE Begin
  <2>1. \A t \in TmpFiles : tmp'[t] = None BY <1>2 DEF Begin
  <2> QED BY <1>2, <2>1 DEF Begin
<1>3. CASE MainLoop BY <1>3 DEF MainLoop, vars
<1>4. CASE Commit
  <2>1. pc = "verdict" /\ phase = "tx" /\ pc' = "done" /\ phase' = phase /\ running' = tx.new /\ tx' = tx /\ tmp' = tmp
        /\ cfg' = cfg /\ files' = files /\ pdnsConfigChanged' = pdnsConfigChanged /\ loc' = loc
    BY <1>4 DEF Commit
  <2>2. ~pdnsConfigChanged => Rendered(tx.new) = Rendered(running) BY <2>1
  <2> QED BY <2>1, <2>2
<1>5. CASE Abort
  <2>1. pc = "verdict" /\ phase = "tx" /\ pc' = "none" /\ phase' = "idle" /\ running' = running /\ cfg' = cfg
        /\ files' = files /\ ~pdnsConfigChanged'
    BY <1>5 DEF Abort, Reject
  <2>2. tmp' = TmpRemoved BY <1>5 DEF Abort
  <2>3. \A t \in TmpFiles : tmp'[t] = None
    BY <2>1, <2>2 DEF TmpRemoved, TypeOK
  <2> QED BY <2>1, <2>3
<1>6. CASE Finish
  <2>1. \A t \in TmpFiles : tmp'[t] = None BY <1>6 DEF Finish
  <2> QED BY <1>6, <2>1 DEF Finish
<1>7. CASE ConfigUntouched BY <1>7 DEF ConfigUntouched, ConfTouched, ApiTouched
<1>8. CASE ConfigRefused
  <2>1. \A t \in TmpFiles : tmp'[t] = None BY <1>8 DEF ConfigRefused, Reject
  <2> QED BY <1>8, <2>1 DEF ConfigRefused, Reject
<1>9. CASE ConfigWritten
  <2>1. tmpFile(tx.id) \in TmpFiles BY DEF TmpFiles, TypeOK, Services, Transactions
  <2>2. pc = "config" /\ pc' # "rename" /\ pc' # "config" /\ pdnsConfigChanged' /\ tx' = tx /\ cfg' = cfg /\ running' = running /\ files' = files
        /\ phase' = phase /\ phase \in {"enabled", "tx"} /\ (pc' \in DoneSteps => pc' = "done")
        /\ (phase = "enabled" => pc' = "done") /\ (phase = "tx" => pc' = "zones")
    BY <1>9 DEF ConfigWritten, MayWrite
  <2>3. tmp' = [tmp EXCEPT ![tmpFile(tx.id)] = Rendered(tx.new)] BY <1>9 DEF ConfigWritten
  <2>4. tmp'[tmpFile(tx.id)] = Rendered(tx.new) /\ \A t \in TmpFiles \ {tmpFile(tx.id)} : tmp'[t] = None
    BY <2>1, <2>2, <2>3 DEF TypeOK
  <2> QED BY <2>2, <2>4
<1>10. CASE NoZoneAddedOrDeleted BY <1>10 DEF NoZoneAddedOrDeleted
<1>11. CASE ZonesAddedOrDeleted BY <1>11 DEF ZonesAddedOrDeleted
<1>12. CASE ZonesModified BY <1>12 DEF ZonesModified
<1>13. CASE Done
  <2>1. pc = "done" /\ pc' = (IF pdnsConfigChanged THEN "rename" ELSE "api") /\ tmp' = tmp /\ tx' = tx /\ cfg' = cfg
        /\ files' = files /\ phase' = phase /\ ~pdnsConfigChanged' /\ running' = running
    BY <1>13 DEF Done
  <2>2. pdnsConfigChanged => loc'.fpath = tmpFile(tx.id) BY <1>13 DEF Done, TypeOK, Locals
  <2> QED BY <2>1, <2>2
<1>14. CASE Rename
  <2>1. pc = "rename" /\ pc' = "copy" /\ tx' = tx /\ cfg' = cfg /\ phase' = phase /\ ~pdnsConfigChanged' /\ running' = running
    BY <1>14 DEF Rename
  <2>2. files' = [files EXCEPT ![cfg.file] = tmp[loc.fpath]] /\ tmp' = [tmp EXCEPT ![loc.fpath] = None] BY <1>14 DEF Rename
  <2>3. files'[ServiceFile] = Rendered(running) BY <2>1, <2>2, ConstantAssumption DEF TypeOK
  <2>4. \A t \in TmpFiles : tmp'[t] = None BY <2>1, <2>2 DEF TypeOK
  <2> QED BY <2>1, <2>3, <2>4
<1>15. CASE CopyConfig BY <1>15 DEF CopyConfig
<1>16. CASE restartService BY <1>16 DEF restartService
<1>17. CASE configureApi BY <1>17 DEF configureApi
<1>18. CASE CreateZone BY <1>18 DEF CreateZone, Iteration, Advance
<1>19. CASE CreatedAll BY <1>19 DEF CreatedAll
<1>20. CASE RemoveZone BY <1>20 DEF RemoveZone, Iteration, Advance
<1>21. CASE RemovedAll BY <1>21 DEF RemovedAll, Return
<1>22. CASE PutZone BY <1>22 DEF PutZone
<1>23. CASE PutAll BY <1>23 DEF PutAll, Return
<1>24. CASE PdnsStarts BY <1>24 DEF PdnsStarts
<1>25. CASE UNCHANGED vars BY <1>25 DEF vars
<1> QED BY NothingFails, <1>1, <1>2, <1>3, <1>4, <1>5, <1>6, <1>7, <1>8, <1>9, <1>10, <1>11, <1>12, <1>13, <1>14, <1>15, <1>16, <1>17, <1>18, <1>19, <1>20, <1>21, <1>22, <1>23, <1>24, <1>25
     DEF Next, Sysrepo, ChangeHandler, DoneHandler, ConfigThread

\* the flags,
LEMMA FlagsStep ==
  ASSUME Calm, MirrorInv, HandlerInv', [Next]_vars
  PROVE  FlagsCalm'
<1>0. /\ TypeOK /\ HandlerShape /\ Steady /\ OnDisk /\ FlagsCalm /\ InPowerDns /\ Queued
      /\ TypeOK'
  BY DEF MirrorInv, HandlerInv
<1> USE <1>0 DEF FlagsCalm, Steady, InPowerDns, HandlerShape, DoneSteps, BeforeApi
<1>1. CASE Start BY <1>1 DEF Start, NoTx
<1>2. CASE Begin BY <1>2 DEF Begin
<1>3. CASE MainLoop BY <1>3 DEF MainLoop, vars
<1>4. CASE Commit BY <1>4 DEF Commit
<1>5. CASE Abort BY <1>5 DEF Abort, Reject, NoTx, TmpRemoved
<1>6. CASE Finish BY <1>6 DEF Finish, NoTx
<1>7. CASE ConfigUntouched
  <2>1. pc = "config" /\ phase = "tx" /\ tx.new.conf = running.conf BY <1>7 DEF ConfigUntouched, ConfTouched, NoTx
  <2>2. pc' = "zones" /\ phase' = phase /\ tx' = tx /\ running' = running /\ pdnsConfigChanged' = pdnsConfigChanged
        /\ apiConfigChanged' = apiConfigChanged
    BY <1>7 DEF ConfigUntouched
  <2> QED BY <2>1, <2>2
<1>8. CASE ConfigRefused BY <1>8 DEF ConfigRefused, Reject, NoTx
<1>9. CASE ConfigWritten
  <2>1. pc = "config" /\ pdnsConfigChanged' /\ tx' = tx /\ cfg' = cfg /\ running' = running /\ phase' = phase
        /\ phase \in {"enabled", "tx"} /\ (cfg.restart \/ phase = "enabled")
    BY <1>9 DEF ConfigWritten, MayWrite
  <2>2. pc' = IF phase = "enabled" THEN "done" ELSE "zones" BY <1>9 DEF ConfigWritten
  <2>3. tx.id = 0 \/ tx.new.conf # running.conf BY <1>9 DEF ConfigWritten, MayWrite, ConfTouched
  <2>4. tx.id = 0 \/ tx.new.conf.api # running.conf.api => apiConfigChanged' BY <1>9 DEF ConfigWritten, ApiTouched
  <2>5. phase = "enabled" => tx.id = 0 BY DEF NoTx
  <2> QED BY <2>1, <2>2, <2>3, <2>4, <2>5
<1>10. CASE NoZoneAddedOrDeleted BY <1>10 DEF NoZoneAddedOrDeleted
<1>11. CASE ZonesAddedOrDeleted BY <1>11 DEF ZonesAddedOrDeleted
<1>12. CASE ZonesModified BY <1>12 DEF ZonesModified
<1>13. CASE Done BY <1>13 DEF Done
<1>14. CASE Rename BY <1>14 DEF Rename
<1>15. CASE CopyConfig BY <1>15 DEF CopyConfig
<1>16. CASE restartService BY <1>16 DEF restartService
<1>17. CASE configureApi
  <2>1. pc = "api" /\ pc' = "create" /\ phase' = phase /\ tx' = tx /\ pdnsConfigChanged' = pdnsConfigChanged
    BY <1>17 DEF configureApi
  <2>2. ~apiConfigChanged' BY <1>17 DEF configureApi, Calm
  <2> QED BY <2>1, <2>2
<1>18. CASE CreateZone BY <1>18 DEF CreateZone, Iteration, Advance
<1>19. CASE CreatedAll BY <1>19 DEF CreatedAll
<1>20. CASE RemoveZone BY <1>20 DEF RemoveZone, Iteration, Advance
<1>21. CASE RemovedAll BY <1>21 DEF RemovedAll, Return
<1>22. CASE PutZone BY <1>22 DEF PutZone
<1>23. CASE PutAll BY <1>23 DEF PutAll, Return
<1>24. CASE PdnsStarts BY <1>24 DEF PdnsStarts
<1>25. CASE UNCHANGED vars BY <1>25 DEF vars
<1> QED BY NothingFails, <1>1, <1>2, <1>3, <1>4, <1>5, <1>6, <1>7, <1>8, <1>9, <1>10, <1>11, <1>12, <1>13, <1>14, <1>15, <1>16, <1>17, <1>18, <1>19, <1>20, <1>21, <1>22, <1>23, <1>24, <1>25
     DEF Next, Sysrepo, ChangeHandler, DoneHandler, ConfigThread

\* what PowerDNS and the client run with,
LEMMA InPowerDnsStep ==
  ASSUME Calm, MirrorInv, HandlerInv', [Next]_vars
  PROVE  InPowerDns'
<1>0. /\ TypeOK /\ HandlerShape /\ Steady /\ OnDisk /\ FlagsCalm /\ InPowerDns /\ Queued
      /\ TypeOK'
  BY DEF MirrorInv, HandlerInv
<1> USE <1>0 DEF InPowerDns, Steady, FlagsCalm, HandlerShape, DoneSteps, BeforeApi, Rendered
<1>1. CASE Start BY <1>1 DEF Start, NoTx
<1>2. CASE Begin BY <1>2, BeginWhat DEF Begin
<1>3. CASE MainLoop BY <1>3 DEF MainLoop, vars
<1>4. CASE Commit
  <2>1. pc = "verdict" /\ phase = "tx" /\ pc' = "done" /\ phase' = phase /\ running' = tx.new /\ pdns' = pdns
        /\ client' = client /\ pdnsConfigChanged' = pdnsConfigChanged /\ apiConfigChanged' = apiConfigChanged
    BY <1>4 DEF Commit
  <2>2. ~pdnsConfigChanged => Rendered(tx.new) = Rendered(running) BY <2>1
  <2>3. apiConfigChanged \/ client = tx.new.conf.api BY <2>1
  <2> QED BY <2>1, <2>2, <2>3
<1>5. CASE Abort BY <1>5 DEF Abort, Reject, NoTx, TmpRemoved
<1>6. CASE Finish
  <2>1. pc = "returned" /\ pc' = "none" /\ phase' = "idle" /\ running' = running /\ pdns' = pdns /\ client' = client
    BY <1>6 DEF Finish
  <2>2. phase \in {"enabled", "tx"} BY <2>1
  <2>3. phase = "enabled" => ~pdns.up BY <2>2
  <2>4. client = running.conf.api /\ client # None BY <2>1, ApiNotNone
  <2> QED BY <2>1, <2>2, <2>3, <2>4
<1>7. CASE ConfigUntouched BY <1>7 DEF ConfigUntouched, ConfTouched, ApiTouched
<1>8. CASE ConfigRefused BY <1>8 DEF ConfigRefused, Reject, NoTx
<1>9. CASE ConfigWritten BY <1>9 DEF ConfigWritten, MayWrite
<1>10. CASE NoZoneAddedOrDeleted BY <1>10 DEF NoZoneAddedOrDeleted
<1>11. CASE ZonesAddedOrDeleted BY <1>11 DEF ZonesAddedOrDeleted
<1>12. CASE ZonesModified BY <1>12 DEF ZonesModified
<1>13. CASE Done BY <1>13 DEF Done
<1>14. CASE Rename BY <1>14 DEF Rename
<1>15. CASE CopyConfig BY <1>15 DEF CopyConfig
<1>16. CASE restartService
  <2>1. pc = "restart" /\ pc' = "api" /\ phase' = phase /\ running' = running /\ client' = client /\ files' = files
        /\ apiConfigChanged' = apiConfigChanged
    BY <1>16 DEF restartService
  <2>2. files[ServiceFile] = Rendered(running) BY <2>1 DEF OnDisk
  <2>3. phase = "tx" => pdns'.loaded = Rendered(running) BY <1>16, <2>1, <2>2, RestartWhat
  <2> QED BY <2>1, <2>3
<1>17. CASE configureApi
  <2>1. pc = "api" /\ pc' = "create" /\ phase' = phase /\ running' = running /\ pdns' = pdns BY <1>17 DEF configureApi
  <2>2. client' = running.conf.api BY <1>17 DEF configureApi, Calm
  <2>3. client' # None BY <2>2, ApiNotNone
  <2> QED BY <2>1, <2>2, <2>3
<1>18. CASE CreateZone BY <1>18, CallWhat DEF CreateZone, Iteration
<1>19. CASE CreatedAll BY <1>19 DEF CreatedAll
<1>20. CASE RemoveZone BY <1>20, CallWhat DEF RemoveZone, Iteration
<1>21. CASE RemovedAll BY <1>21 DEF RemovedAll, Return
<1>22. CASE PutZone BY <1>22, CallWhat DEF PutZone
<1>23. CASE PutAll BY <1>23 DEF PutAll, Return
<1>24. CASE PdnsStarts
  <2>1. phase' = phase /\ pc' = pc /\ running' = running /\ client' = client /\ pdnsConfigChanged' = pdnsConfigChanged
        /\ apiConfigChanged' = apiConfigChanged
    BY <1>24 DEF PdnsStarts
  <2>2. phase = "idle" BY <1>24 DEF PdnsStarts, Calm
  <2>3. pdns'.loaded = Rendered(running) BY <1>24, <2>2, StartsWhat DEF OnDisk
  <2> QED BY <2>1, <2>2, <2>3
<1>25. CASE UNCHANGED vars BY <1>25 DEF vars
<1> QED BY NothingFails, <1>1, <1>2, <1>3, <1>4, <1>5, <1>6, <1>7, <1>8, <1>9, <1>10, <1>11, <1>12, <1>13, <1>14, <1>15, <1>16, <1>17, <1>18, <1>19, <1>20, <1>21, <1>22, <1>23, <1>24, <1>25
     DEF Next, Sysrepo, ChangeHandler, DoneHandler, ConfigThread

\* What the lists hold, and what is left of them when one entry has been dealt with.
LEMMA OneCreated ==
  ASSUME NEW ps \in MaybeZones, NEW ts \in MaybeZones, NEW new \in Seq(NewZones), NEW gone \in Seq(Zones),
         NEW updates, NEW i \in Nat \ {0}, i <= Len(new),
         Creates(ps, ts, new, i), Removes(ps, ts, gone, 1), Corrections(ps, ts, updates),
         NEW z, z = new[i].name, NEW qs, qs = [ps EXCEPT ![z] = ts[z]]
  PROVE  /\ z \in Zones /\ ps[z] = Absent /\ new[i].settings = ts[z]
         /\ Creates(qs, ts, new, i + 1) /\ Removes(qs, ts, gone, 1) /\ Corrections(qs, ts, updates)
<1>1. i \in i..Len(new) /\ i \in DOMAIN new /\ Len(new) \in Nat OBVIOUS
<1>2. z \in Zones /\ ps[z] = Absent /\ new[i].settings = ts[z]
  <2>1. new[i] \in NewZones BY <1>1
  <2>2. ps[new[i].name] = Absent /\ new[i].settings = ts[new[i].name] BY <1>1 DEF Creates
  <2> QED BY <2>1, <2>2 DEF NewZones
<1>3. qs \in [Zones -> {qs[y] : y \in Zones}] /\ \A y \in Zones : qs[y] = IF y = z THEN ts[z] ELSE ps[y]
  BY DEF MaybeZones
<1>4. \A k \in (i + 1)..Len(new) : k \in i..Len(new) /\ k # i /\ new[k].name \in Zones
  <2> SUFFICES ASSUME NEW k \in (i + 1)..Len(new) PROVE k \in i..Len(new) /\ k # i /\ new[k].name \in Zones OBVIOUS
  <2>1. k \in i..Len(new) /\ k # i /\ k \in DOMAIN new BY <1>1
  <2>2. new[k] \in NewZones BY <2>1
  <2> QED BY <2>1, <2>2 DEF NewZones
<1>5. Creates(qs, ts, new, i + 1)
  <2>1. ASSUME NEW k \in (i + 1)..Len(new)
        PROVE  qs[new[k].name] = Absent /\ new[k].settings = ts[new[k].name]
    <3>1. new[k].name # z BY <1>1, <1>4 DEF Creates
    <3> QED BY <1>3, <1>4, <3>1 DEF Creates
  <2>2. ASSUME NEW y \in Differ(qs, ts), qs[y] = Absent PROVE \E k \in (i + 1)..Len(new) : new[k].name = y
    <3>1. y \in Differ(ps, ts) /\ y # z /\ ps[y] = Absent BY <1>2, <1>3, <2>2 DEF Differ
    <3>2. PICK k \in i..Len(new) : new[k].name = y BY <3>1 DEF Creates
    <3>3. k \in (i + 1)..Len(new) BY <1>1, <3>1, <3>2
    <3> QED BY <3>2, <3>3
  <2>3. \A k, l \in (i + 1)..Len(new) : new[k].name = new[l].name => k = l BY <1>4 DEF Creates
  <2> QED BY <2>1, <2>2, <2>3 DEF Creates
<1>6. Removes(qs, ts, gone, 1)
  <2>1. ASSUME NEW k \in 1..Len(gone) PROVE qs[gone[k]] # Absent /\ ts[gone[k]] = Absent
    <3>1. gone[k] \in Zones BY <2>1
    <3>2. ps[gone[k]] # Absent /\ ts[gone[k]] = Absent BY DEF Removes
    <3> QED BY <1>2, <1>3, <3>1, <3>2
  <2>2. Differ(qs, ts) \subseteq Differ(ps, ts) BY <1>2, <1>3 DEF Differ
  <2> QED BY <2>1, <2>2 DEF Removes
<1>7. Corrections(qs, ts, updates) BY <1>2, <1>3 DEF Corrections, Turns, Differ
<1> QED BY <1>2, <1>5, <1>6, <1>7

LEMMA OneRemoved ==
  ASSUME NEW ps \in MaybeZones, NEW ts \in MaybeZones, NEW gone \in Seq(Zones),
         NEW updates, NEW i \in Nat \ {0}, i <= Len(gone),
         Creates(ps, ts, <<>>, 1), Removes(ps, ts, gone, i), Corrections(ps, ts, updates),
         NEW z, z = gone[i], NEW qs, qs = [ps EXCEPT ![z] = ts[z]]
  PROVE  /\ z \in Zones /\ ps[z] # Absent /\ ts[z] = Absent
         /\ Creates(qs, ts, <<>>, 1) /\ Removes(qs, ts, gone, i + 1) /\ Corrections(qs, ts, updates)
<1>1. i \in i..Len(gone) /\ i \in DOMAIN gone /\ Len(gone) \in Nat OBVIOUS
<1>2. z \in Zones /\ ps[z] # Absent /\ ts[z] = Absent BY <1>1 DEF Removes
<1>3. \A y \in Zones : qs[y] = IF y = z THEN ts[z] ELSE ps[y] BY <1>2 DEF MaybeZones
<1>4. Differ(qs, ts) \subseteq Differ(ps, ts) \ {z} BY <1>2, <1>3 DEF Differ
<1>5. Creates(qs, ts, <<>>, 1)
  <2>1. \A y \in Differ(ps, ts) : ps[y] # Absent BY DEF Creates
  <2>2. \A y \in Differ(qs, ts) : qs[y] # Absent BY <1>3, <1>4, <2>1 DEF Differ
  <2>3. \A k \in 1..Len(<<>>) : FALSE OBVIOUS
  <2> QED BY <2>2, <2>3 DEF Creates
<1>6. Removes(qs, ts, gone, i + 1)
  <2>0. \A k \in (i + 1)..Len(gone) : k \in i..Len(gone) /\ k # i /\ k \in DOMAIN gone BY <1>1
  <2>1. ASSUME NEW k \in (i + 1)..Len(gone) PROVE qs[gone[k]] # Absent /\ ts[gone[k]] = Absent
    <3>1. gone[k] # z BY <1>1, <2>0 DEF Removes
    <3>2. gone[k] \in Zones BY <2>0
    <3>3. ps[gone[k]] # Absent /\ ts[gone[k]] = Absent BY <2>0 DEF Removes
    <3> QED BY <1>3, <3>1, <3>2, <3>3
  <2>2. ASSUME NEW y \in Differ(qs, ts), ts[y] = Absent PROVE \E k \in (i + 1)..Len(gone) : gone[k] = y
    <3>1. y \in Differ(ps, ts) /\ y # z BY <1>4
    <3>2. PICK k \in i..Len(gone) : gone[k] = y BY <2>2, <3>1 DEF Removes
    <3>3. k \in (i + 1)..Len(gone) BY <1>1, <3>1, <3>2
    <3> QED BY <3>2, <3>3
  <2>3. \A k, l \in (i + 1)..Len(gone) : gone[k] = gone[l] => k = l BY <2>0 DEF Removes
  <2> QED BY <2>1, <2>2, <2>3 DEF Removes
<1>7. Corrections(qs, ts, updates) BY <1>2, <1>3 DEF Corrections, Turns, Differ
<1> QED BY <1>2, <1>5, <1>6, <1>7

\* A list that has been gone through is as good as empty.
LEMMA AllCreated ==
  ASSUME NEW ps, NEW ts, NEW new, NEW i \in Nat, Len(new) \in Nat, i > Len(new), Creates(ps, ts, new, i)
  PROVE  Creates(ps, ts, <<>>, 1)
<1>1. \A k \in i..Len(new) : FALSE OBVIOUS
<1>2. \A z \in Differ(ps, ts) : ps[z] # Absent BY <1>1 DEF Creates
<1>3. \A k \in 1..Len(<<>>) : FALSE OBVIOUS
<1> QED BY <1>2, <1>3 DEF Creates

LEMMA AllRemoved ==
  ASSUME NEW ps, NEW ts, NEW gone, NEW i \in Nat, Len(gone) \in Nat, i > Len(gone), Removes(ps, ts, gone, i)
  PROVE  \A z \in Differ(ps, ts) : ts[z] # Absent
<1>1. \A k \in i..Len(gone) : FALSE OBVIOUS
<1> QED BY <1>1 DEF Removes

LEMMA AllPending ==
  ASSUME NEW ps, NEW ts, NEW updates \in [Zones -> Updates \union {NoUpdate}],
         \A z \in Differ(ps, ts) : ps[z] # Absent /\ ts[z] # Absent, Corrections(ps, ts, updates)
  PROVE  Pending(ps, ts, {<<z, updates[z]>> : z \in {y \in Zones : updates[y] # NoUpdate}})
<1> DEFINE todo == {<<z, updates[z]>> : z \in {y \in Zones : updates[y] # NoUpdate}}
<1>0. \A z \in Differ(ps, ts) : z \in Zones /\ ps[z] # ts[z] /\ ps[z] # Absent /\ ts[z] # Absent
  BY DEF Differ
<1>1. ASSUME NEW e \in todo PROVE Turns(ps, ts, e[1], e[2]) /\ ps[e[1]] # Absent
  <2>1. PICK z \in Zones : updates[z] # NoUpdate /\ e = <<z, updates[z]>> BY <1>1
  <2>2. Turns(ps, ts, z, updates[z]) BY <2>1 DEF Corrections
  <2>3. ps[z] # Absent BY <1>0, <2>2 DEF Turns, Differ
  <2> QED BY <2>1, <2>2, <2>3
<1>2. ASSUME NEW z \in Differ(ps, ts) PROVE \E u \in Updates : <<z, u>> \in todo
  <2>1. z \in Zones /\ updates[z] # NoUpdate BY <1>0, <1>2 DEF Corrections
  <2>2. updates[z] \in Updates /\ <<z, updates[z]>> \in todo BY <2>1
  <2> QED BY <2>2
<1> QED BY <1>1, <1>2 DEF Pending

LEMMA OnePut ==
  ASSUME NEW ps \in MaybeZones, NEW ts \in MaybeZones, NEW todo \in SUBSET (Zones \X Updates),
         Pending(ps, ts, todo), NEW e \in todo,
         NEW qs, qs = [ps EXCEPT ![e[1]] = Updated(ps[e[1]], e[2])]
  PROVE  Pending(qs, ts, todo \ {e})
<1>1. e[1] \in Zones /\ e[2] \in Updates /\ e = <<e[1], e[2]>> OBVIOUS
<1>2. qs = [ps EXCEPT ![e[1]] = ts[e[1]]] BY DEF Pending, Turns
<1>3. \A z \in Zones : qs[z] = IF z = e[1] THEN ts[z] ELSE ps[z] BY <1>1, <1>2 DEF MaybeZones
<1>4. \A z \in Differ(qs, ts) : z \in Differ(ps, ts) /\ z # e[1] BY <1>3 DEF Differ
<1>6. ASSUME NEW d \in todo PROVE Turns(qs, ts, d[1], d[2]) /\ qs[d[1]] # Absent
  <2>1. Turns(ps, ts, d[1], d[2]) /\ ps[d[1]] # Absent BY DEF Pending
  <2> QED BY <1>3, <2>1 DEF Turns
<1>7. ASSUME NEW z \in Differ(qs, ts) PROVE \E u \in Updates : <<z, u>> \in todo \ {e}
  <2>1. PICK u \in Updates : <<z, u>> \in todo BY <1>4 DEF Pending
  <2>2. z # e[1] BY <1>4
  <2>3. <<z, u>> # e BY <2>2
  <2> QED BY <2>1, <2>3
<1> QED BY <1>6, <1>7 DEF Pending

\* An ordering of a set has every element of it once.
Orders(s, S) ==
    /\ s \in Seq(S) /\ \A k, l \in 1..Len(s) : s[k] = s[l] => k = l
    /\ \A z \in S : \E k \in 1..Len(s) : s[k] = z

LEMMA InOrder == ASSUME NEW S \in SUBSET Zones, NEW s \in SetToSeqs(S) PROVE Orders(s, S)
<1> DEFINE n == Cardinality(S)
<1>1. IsFiniteSet(S) /\ n \in Nat BY ConstantAssumption, FS_Subset, FS_CardinalityType
<1>2. s \in [1..n -> S] /\ \A k, l \in 1..n : k # l => s[k] # s[l] BY DEF SetToSeqs
<1>3. s \in Seq(S) /\ Len(s) = n BY <1>1, <1>2
<1>4. s \in Injection(1..n, S) BY <1>2 DEF Injection, IsInjective
<1>5. IsFiniteSet(1..n) /\ Cardinality(1..n) = n BY <1>1, FS_Interval
<1>6. s \in Surjection(1..n, S) BY <1>1, <1>4, <1>5, FS_Injection
<1> QED BY <1>2, <1>3, <1>6 DEF Surjection, Orders

LEMMA CreatesInOrder ==
  ASSUME NEW ps, NEW ts, NEW c, Orders(c, {z \in Differ(ps, ts) : ps[z] = Absent}),
         NEW new, new = [k \in DOMAIN c |-> [name |-> c[k], settings |-> ts[c[k]]]]
  PROVE  Creates(ps, ts, new, 1) /\ <<>> \o new = new
<1> DEFINE S == {z \in Differ(ps, ts) : ps[z] = Absent}
<1>1. c \in Seq(S) /\ Len(c) \in Nat /\ DOMAIN c = 1..Len(c) BY DEF Orders
<1>2. new \in Seq({new[k] : k \in 1..Len(c)}) /\ Len(new) = Len(c) BY <1>1
<1>3. \A k \in 1..Len(new) : ps[new[k].name] = Absent /\ new[k].settings = ts[new[k].name] /\ new[k].name = c[k]
  <2>1. \A k \in 1..Len(c) : c[k] \in S BY <1>1
  <2> QED BY <1>1, <1>2, <2>1
<1>4. \A k, l \in 1..Len(new) : new[k].name = new[l].name => k = l BY <1>2, <1>3 DEF Orders
<1>5. \A z \in Differ(ps, ts) : ps[z] = Absent => \E k \in 1..Len(new) : new[k].name = z
  <2> SUFFICES ASSUME NEW z \in S PROVE \E k \in 1..Len(new) : new[k].name = z OBVIOUS
  <2>1. PICK k \in 1..Len(c) : c[k] = z BY DEF Orders
  <2> QED BY <1>2, <1>3, <2>1
<1>6. <<>> \o new = new BY <1>2, ConcatEmptySeq
<1> QED BY <1>3, <1>4, <1>5, <1>6 DEF Creates

LEMMA RemovesInOrder ==
  ASSUME NEW ps, NEW ts, NEW r, Orders(r, {z \in Differ(ps, ts) : ts[z] = Absent})
  PROVE  Removes(ps, ts, r, 1) /\ <<>> \o r = r
<1> DEFINE S == {z \in Differ(ps, ts) : ts[z] = Absent}
<1>1. r \in Seq(S) BY DEF Orders
<1>2. \A k \in 1..Len(r) : r[k] \in S BY <1>1
<1>3. \A k \in 1..Len(r) : ps[r[k]] # Absent /\ ts[r[k]] = Absent BY <1>2 DEF Differ
<1>4. <<>> \o r = r BY <1>1, ConcatEmptySeq
<1> QED BY <1>3, <1>4 DEF Removes, Orders

LEMMA OneCollected ==
  ASSUME TypeOK, ZonesModified, zonesModified = NoUpdates, NEW ps, NEW ts,
         ps = running.zones, ts = tx.new.zones, OneKind(ps, ts), Removes(ps, ts, zonesRemoved, 1)
  PROVE  Corrections(ps, ts, zonesModified')
<1>0. ps \in MaybeZones /\ ts \in MaybeZones BY DEF TypeOK, Transactions, Datastores
<1>1. TouchedZones = Differ(ps, ts) BY DEF TouchedZones, Differ
<1>2. CASE TouchedZones = {}
  <2>1. zonesModified' = NoUpdates BY <1>2 DEF ZonesModified
  <2> QED BY <1>1, <1>2, <2>1 DEF Corrections, NoUpdates
<1>3. CASE TouchedZones # {}
  <2>1. PICK first \in TouchedZones :
          IF first \in Range(zonesRemoved) THEN UNCHANGED zonesModified
          ELSE \E kind \in IF ModifiedKinds = {} THEN {Unset} ELSE ModifiedKinds :
                 zonesModified' = [zonesModified EXCEPT ![first] = Collected(first, kind)]
    BY <1>3 DEF ZonesModified
  <2>2. first \in Zones /\ ps[first] # ts[first] BY <1>1 DEF Differ
  <2>3. first \in Range(zonesRemoved) <=> ts[first] = Absent
    <3>1. zonesRemoved \in Seq(Zones) BY DEF TypeOK
    <3>2. Range(zonesRemoved) = {zonesRemoved[k] : k \in 1..Len(zonesRemoved)} BY <3>1 DEF Range
    <3>3. first \in Range(zonesRemoved) => ts[first] = Absent BY <3>2 DEF Removes
    <3>4. ts[first] = Absent => first \in Range(zonesRemoved) BY <1>1, <3>2 DEF Removes
    <3> QED BY <3>3, <3>4
  \* Unless the first zone is one that is modified, nothing else is.
  <2>4. (\A z \in Differ(ps, ts) : ps[z] = Absent \/ ts[z] = Absent)
        \/ (TouchedZones = {first} /\ ps[first] # Absent /\ ts[first] # Absent)
    BY <1>1 DEF OneKind
  <2>5. CASE ts[first] = Absent
    <3>1. zonesModified' = NoUpdates BY <2>1, <2>3, <2>5
    <3> QED BY <2>4, <2>5, <3>1 DEF Corrections, NoUpdates
  <2>6. CASE ts[first] # Absent
    <3>1. PICK kind \in IF ModifiedKinds = {} THEN {Unset} ELSE ModifiedKinds :
            zonesModified' = [NoUpdates EXCEPT ![first] = Collected(first, kind)]
      BY <2>1, <2>3, <2>6
    <3> DEFINE u == Collected(first, kind)
               touched == \E z \in TouchedZones : MastersOf(running, z) # MastersOf(tx.new, z)
    <3>2. ts[first] \in Settings /\ ts[first].kind \in Kinds /\ ts[first].masters \in SUBSET Masters
      BY <1>0, <2>2, <2>6 DEF MaybeZones, Settings
    <3>3. MastersOf(tx.new, first) = ts[first].masters BY <2>6 DEF MastersOf
    <3>4. u = [kind |-> kind, masters |-> IF touched THEN ts[first].masters ELSE Unset]
      BY <2>2, <3>3 DEF Collected, NoUpdates
    <3>5. ModifiedKinds = IF ps[first] # Absent /\ ts[first].kind # ps[first].kind THEN {ts[first].kind} ELSE {}
      <4>1. CASE \A z \in Differ(ps, ts) : ps[z] = Absent \/ ts[z] = Absent
        <5>1. TouchedZones \ (Created \union Deleted) = {} BY <1>1, <4>1 DEF Created, Deleted
        <5>2. ps[first] = Absent BY <1>1, <2>6, <4>1
        <5> QED BY <5>1, <5>2 DEF ModifiedKinds
      <4>2. CASE TouchedZones = {first} /\ ps[first] # Absent /\ ts[first] # Absent
        <5>1. TouchedZones \ (Created \union Deleted) = {first} BY <4>2 DEF Created, Deleted
        <5> QED BY <4>2, <5>1 DEF ModifiedKinds
      <4> QED BY <2>4, <4>1, <4>2
    <3>6. kind \in {Unset, ts[first].kind} BY <3>1, <3>5
    <3>7. u \in Updates /\ u # NoUpdate BY <3>2, <3>4, <3>6, SentinelAssumption DEF Updates
    <3>8. ASSUME ps[first] # Absent
          PROVE  /\ kind = Unset => ps[first].kind = ts[first].kind
                 /\ ~touched => ps[first].masters = ts[first].masters
      <4>1. kind = Unset => ps[first].kind = ts[first].kind BY <3>1, <3>2, <3>5, <3>8, SentinelAssumption
      <4>2. TouchedZones = {first} BY <1>1, <2>4, <2>6, <3>8
      <4>3. MastersOf(running, first) = ps[first].masters BY <3>8 DEF MastersOf
      <4> QED BY <3>3, <4>1, <4>2, <4>3
    <3>9. Turns(ps, ts, first, u)
      <4>1. u.kind = kind /\ u.masters = IF touched THEN ts[first].masters ELSE Unset BY <3>4
      <4> HIDE DEF u, touched
      <4>2. ts[first] = [kind |-> ts[first].kind, masters |-> ts[first].masters] BY <3>2 DEF Settings
      <4>3. Updated(ts[first], u) = ts[first] BY <3>2, <3>6, <4>1, <4>2 DEF Updated
      <4>4. ASSUME ps[first] # Absent PROVE Updated(ps[first], u) = ts[first]
        <5>1. u.masters = Unset => ps[first].masters = ts[first].masters BY <3>2, <3>8, <4>1, <4>4, SentinelAssumption
        <5>2. u.masters # Unset => u.masters = ts[first].masters BY <4>1
        <5>3. u.kind = Unset => ps[first].kind = ts[first].kind BY <3>8, <4>1, <4>4
        <5>4. u.kind # Unset => u.kind = ts[first].kind BY <3>6, <4>1
        <5> QED BY <4>2, <5>1, <5>2, <5>3, <5>4 DEF Updated
      <4> QED BY <2>2, <2>6, <3>7, <4>3, <4>4 DEF Turns
    <3>10. \A z \in Zones : zonesModified'[z] = IF z = first THEN u ELSE NoUpdate BY <2>2, <3>1 DEF NoUpdates
    <3>11. \A z \in Differ(ps, ts) : ps[z] = Absent \/ ts[z] = Absent \/ z = first BY <1>1, <2>4
    <3> HIDE DEF u
    <3> QED BY <3>7, <3>9, <3>10, <3>11 DEF Corrections, Differ
  <2> QED BY <2>5, <2>6
<1> QED BY <1>2, <1>3

LEMMA CreateWhat ==
  ASSUME Calm, MirrorInv, CreateZone
  PROVE  /\ phase = "tx" /\ pc = "create" /\ phase' = phase /\ pc' = pc /\ tx' = tx /\ running' = running
         /\ UNCHANGED lists /\ loc'.i = loc.i + 1 /\ loc'.errors = loc.errors /\ loc'.todo = loc.todo
         /\ \E z \in Zones : pdns'.zones = [pdns.zones EXCEPT ![z] = tx.new.zones[z]]
         /\ Creates(pdns'.zones, tx.new.zones, zonesCreated, loc.i + 1)
         /\ Removes(pdns'.zones, tx.new.zones, zonesRemoved, 1)
         /\ Corrections(pdns'.zones, tx.new.zones, zonesModified)
<1>0. TypeOK /\ HandlerShape /\ Queued BY DEF MirrorInv, HandlerInv
<1> USE <1>0 DEF Queued, HandlerShape, DoneSteps, BeforeApi
<1>1. pc = "create" /\ phase' = phase /\ tx' = tx /\ running' = running /\ UNCHANGED lists /\ pc' = pc
      /\ loc.i <= Len(zonesCreated)
  BY DEF CreateZone, Iteration
<1> DEFINE ps == pdns.zones
           ts == tx.new.zones
           e  == zonesCreated[loc.i]
           z  == e.name
           qs == [ps EXCEPT ![z] = ts[z]]
<1>2. ps \in MaybeZones /\ ts \in MaybeZones /\ zonesCreated \in Seq(NewZones) /\ zonesRemoved \in Seq(Zones)
      /\ loc.i \in Nat \ {0}
  BY DEF TypeOK, PowerDnsStates, Transactions, Datastores, Locals
<1>3. phase = "tx"
  <2>1. phase # "tx" => loc.i = 1 /\ Len(zonesCreated) = 0 OBVIOUS
  <2> QED BY <1>1, <2>1
<1>4. Creates(ps, ts, zonesCreated, loc.i) /\ Removes(ps, ts, zonesRemoved, 1) /\ Corrections(ps, ts, zonesModified)
  BY <1>1, <1>3
<1>5. /\ z \in Zones /\ ps[z] = Absent /\ e.settings = ts[z]
      /\ Creates(qs, ts, zonesCreated, loc.i + 1) /\ Removes(qs, ts, zonesRemoved, 1)
      /\ Corrections(qs, ts, zonesModified)
  <2> HIDE DEF ps, ts, Queued, HandlerShape
  <2> QED BY <1>1, <1>2, <1>4, OneCreated
<1>6. ApiReachable /\ ~Fault("api") BY <1>1, <1>3, Reachable, NoFaults
<1>7. pdns' = [pdns EXCEPT !.zones = [ps EXCEPT ![z] = e.settings]] /\ Advance(FALSE)
  BY <1>5, <1>6 DEF CreateZone, Iteration
<1>8. pdns'.zones = qs /\ loc'.i = loc.i + 1 /\ loc'.errors = loc.errors /\ loc'.todo = loc.todo
  BY <1>5, <1>7 DEF TypeOK, PowerDnsStates, Locals, Advance
<1> QED BY <1>1, <1>3, <1>5, <1>8

LEMMA RemoveWhat ==
  ASSUME Calm, MirrorInv, RemoveZone
  PROVE  /\ phase = "tx" /\ pc = "remove" /\ phase' = phase /\ pc' = pc /\ tx' = tx /\ running' = running
         /\ UNCHANGED lists /\ loc'.i = loc.i + 1 /\ loc'.errors = loc.errors /\ loc'.todo = loc.todo
         /\ \E z \in Zones : pdns'.zones = [pdns.zones EXCEPT ![z] = tx.new.zones[z]]
         /\ Creates(pdns'.zones, tx.new.zones, <<>>, 1)
         /\ Removes(pdns'.zones, tx.new.zones, zonesRemoved, loc.i + 1)
         /\ Corrections(pdns'.zones, tx.new.zones, zonesModified)
<1>0. TypeOK /\ HandlerShape /\ Queued BY DEF MirrorInv, HandlerInv
<1> USE <1>0 DEF Queued, HandlerShape, DoneSteps, BeforeApi
<1>1. pc = "remove" /\ phase' = phase /\ tx' = tx /\ running' = running /\ UNCHANGED lists /\ pc' = pc
      /\ loc.i <= Len(zonesRemoved)
  BY DEF RemoveZone, Iteration
<1> DEFINE ps == pdns.zones
           ts == tx.new.zones
           z  == zonesRemoved[loc.i]
           qs == [ps EXCEPT ![z] = ts[z]]
<1>2. ps \in MaybeZones /\ ts \in MaybeZones /\ zonesRemoved \in Seq(Zones) /\ loc.i \in Nat \ {0}
  BY DEF TypeOK, PowerDnsStates, Transactions, Datastores, Locals
<1>3. phase = "tx"
  <2>1. phase # "tx" => loc.i = 1 /\ Len(zonesRemoved) = 0 OBVIOUS
  <2> QED BY <1>1, <2>1
<1>4. Creates(ps, ts, <<>>, 1) /\ Removes(ps, ts, zonesRemoved, loc.i) /\ Corrections(ps, ts, zonesModified)
  BY <1>1, <1>3
<1>5. /\ z \in Zones /\ ps[z] # Absent /\ ts[z] = Absent
      /\ Creates(qs, ts, <<>>, 1) /\ Removes(qs, ts, zonesRemoved, loc.i + 1)
      /\ Corrections(qs, ts, zonesModified)
  <2> HIDE DEF ps, ts, Queued, HandlerShape
  <2> QED BY <1>1, <1>2, <1>4, OneRemoved
<1>6. ApiReachable /\ ~Fault("api") BY <1>1, <1>3, Reachable, NoFaults
<1>7. pdns' = [pdns EXCEPT !.zones = [ps EXCEPT ![z] = Absent]] /\ Advance(FALSE)
  BY <1>5, <1>6 DEF RemoveZone, Iteration
<1>8. pdns'.zones = qs /\ loc'.i = loc.i + 1 /\ loc'.errors = loc.errors /\ loc'.todo = loc.todo
  BY <1>5, <1>7 DEF TypeOK, PowerDnsStates, Locals, Advance
<1> QED BY <1>1, <1>3, <1>5, <1>8

LEMMA PutWhat ==
  ASSUME Calm, MirrorInv, PutZone
  PROVE  /\ phase = "tx" /\ pc = "put"
         /\ \E e \in loc.todo :
              /\ e[1] \in Zones
              /\ pdns'.zones = [pdns.zones EXCEPT ![e[1]] = tx.new.zones[e[1]]]
              /\ Pending(pdns'.zones, tx.new.zones, loc.todo \ {e})
              /\ loc'.i = loc.i /\ loc'.errors = loc.errors /\ loc'.todo = loc.todo \ {e}
<1>0. TypeOK /\ HandlerShape /\ Queued BY DEF MirrorInv, HandlerInv
<1>1. pc = "put" BY DEF PutZone
<1>2. PICK e \in loc.todo :
        /\ loc' = [loc EXCEPT !.todo = loc.todo \ {e}]
        /\ \/ pdns' = [pdns EXCEPT !.zones[e[1]] = Updated(pdns.zones[e[1]], e[2])]
           \/ IF pdns.zones[e[1]] # Absent THEN Fault("api") ELSE NoFault
  BY DEF PutZone
<1>3. phase = "tx" BY <1>0, <1>2 DEF Queued
<1>4. Pending(pdns.zones, tx.new.zones, loc.todo)
  BY <1>0, <1>1, <1>3 DEF Queued
<1>5. pdns.zones[e[1]] # Absent /\ Updated(pdns.zones[e[1]], e[2]) = tx.new.zones[e[1]] BY <1>4 DEF Pending, Turns
<1>6. pdns' = [pdns EXCEPT !.zones[e[1]] = Updated(pdns.zones[e[1]], e[2])] BY <1>2, <1>5, NoFaults
<1>7. pdns'.zones = [pdns.zones EXCEPT ![e[1]] = Updated(pdns.zones[e[1]], e[2])]
  BY <1>0, <1>6 DEF TypeOK, PowerDnsStates
<1>8. pdns.zones \in MaybeZones /\ tx.new.zones \in MaybeZones /\ loc.todo \in SUBSET (Zones \X Updates)
  BY <1>0 DEF TypeOK, PowerDnsStates, Transactions, Datastores, Locals
<1>9. Pending(pdns'.zones, tx.new.zones, loc.todo \ {e})
  BY <1>4, <1>7, <1>8, OnePut
<1>10. loc'.i = loc.i /\ loc'.errors = loc.errors /\ loc'.todo = loc.todo \ {e} BY <1>0, <1>2 DEF TypeOK, Locals
<1>11. e[1] \in Zones BY <1>8
<1> QED BY <1>1, <1>3, <1>5, <1>7, <1>9, <1>10, <1>11

\* and the zones and lists.
LEMMA QueuedStep ==
  ASSUME Calm, MirrorInv, OneModified, HandlerInv', [Next]_vars
  PROVE  Queued'
<1>0. TypeOK /\ HandlerShape /\ Queued BY DEF MirrorInv, HandlerInv
<1> USE <1>0 DEF Queued, HandlerShape, DoneSteps, BeforeApi
<1>1. CASE Start BY <1>1 DEF Start, NoTx
<1>2. CASE Begin
  <2>1. zonesCreated' = zonesCreated /\ zonesRemoved' = zonesRemoved /\ zonesModified' = zonesModified /\ loc' = loc
    BY <1>2 DEF Begin
  <2> QED BY <1>2, <2>1, BeginWhat
<1>3. CASE MainLoop BY <1>3 DEF MainLoop, vars
<1>4. CASE Commit
  <2>1. pc = "verdict" /\ pc' = "done" /\ phase' = phase /\ tx' = tx /\ running' = tx.new /\ pdns'.zones = pdns.zones
        /\ zonesCreated' = zonesCreated /\ zonesRemoved' = zonesRemoved /\ zonesModified' = zonesModified
        /\ loc' = loc
    BY <1>4 DEF Commit
  <2> QED BY <2>1
<1>5. CASE Abort BY <1>5 DEF Abort, Reject, NoTx, NoUpdates
<1>6. CASE Finish BY <1>6 DEF Finish, NoTx
<1>7. CASE ConfigUntouched
  <2>1. pc = "config" /\ pc' = "zones" /\ phase' = phase /\ tx' = tx /\ running' = running /\ pdns'.zones = pdns.zones
        /\ zonesCreated' = zonesCreated /\ zonesRemoved' = zonesRemoved /\ zonesModified' = zonesModified
        /\ loc' = loc
    BY <1>7 DEF ConfigUntouched
  <2> QED BY <2>1
<1>8. CASE ConfigRefused BY <1>8 DEF ConfigRefused, Reject, NoTx
<1>9. CASE ConfigWritten
  <2>1. pc = "config" /\ phase' = phase /\ tx' = tx /\ running' = running /\ pdns' = pdns /\ loc' = loc
        /\ zonesCreated' = zonesCreated /\ zonesRemoved' = zonesRemoved /\ zonesModified' = zonesModified
    BY <1>9 DEF ConfigWritten, MayWrite
  <2>2. pc' = (IF phase = "enabled" THEN "done" ELSE "zones") /\ phase \in {"enabled", "tx"} BY <1>9, <2>1 DEF ConfigWritten
  <2> QED BY <2>1, <2>2
<1>10. CASE NoZoneAddedOrDeleted
  <2>1. pc = "zones" /\ phase' = phase /\ tx' = tx /\ running' = running /\ zonesCreated' = zonesCreated
        /\ zonesRemoved' = zonesRemoved /\ zonesModified' = zonesModified
        /\ pc' = "modify" /\ pdns' = pdns /\ loc' = loc /\ Created \union Deleted = {}
    BY <1>10 DEF NoZoneAddedOrDeleted, Calm
  <2>2. phase = "tx" /\ pdns.zones = running.zones BY <2>1
  <2>3. \A z \in Differ(pdns.zones, tx.new.zones) : pdns.zones[z] # Absent /\ tx.new.zones[z] # Absent
    BY <2>1, <2>2 DEF Differ, Created, Deleted, TouchedZones
  <2>4. \A k \in 1..Len(<<>>) : FALSE OBVIOUS
  <2>5. Creates(pdns.zones, tx.new.zones, <<>>, 1) /\ Removes(pdns.zones, tx.new.zones, <<>>, 1)
    BY <2>3, <2>4 DEF Creates, Removes
  <2> QED BY <2>1, <2>2, <2>5
<1>11. CASE ZonesAddedOrDeleted
  <2>1. pc = "zones" /\ phase' = phase /\ tx' = tx /\ running' = running /\ zonesModified' = zonesModified
        /\ pc' = "modify" /\ pdns' = pdns /\ loc' = loc
    BY <1>11 DEF ZonesAddedOrDeleted
  <2>2. phase = "tx" /\ pdns.zones = running.zones /\ zonesCreated = <<>> /\ zonesRemoved = <<>> BY <2>1
  <2> DEFINE ps == pdns.zones
             ts == tx.new.zones
             news(c) == [k \in DOMAIN c |-> [name |-> c[k], settings |-> ts[c[k]]]]
  <2>3. PICK c \in SetToSeqs(Created), r \in SetToSeqs(Deleted) :
          zonesCreated' = zonesCreated \o news(c) /\ zonesRemoved' = zonesRemoved \o r
    BY <1>11 DEF ZonesAddedOrDeleted
  <2>4. /\ Created = {z \in Differ(ps, ts) : ps[z] = Absent} /\ Created \in SUBSET Zones
        /\ Deleted = {z \in Differ(ps, ts) : ts[z] = Absent} /\ Deleted \in SUBSET Zones
    BY <2>2 DEF Created, Deleted, TouchedZones, Differ
  <2>5. Orders(c, Created) /\ Orders(r, Deleted) BY <2>4, InOrder
  <2>6. Creates(ps, ts, zonesCreated', 1) /\ Removes(ps, ts, zonesRemoved', 1)
    <3> HIDE DEF ps, ts, Queued, HandlerShape
    <3>1. Creates(ps, ts, news(c), 1) /\ <<>> \o news(c) = news(c) BY <2>4, <2>5, CreatesInOrder
    <3>2. Removes(ps, ts, r, 1) /\ <<>> \o r = r BY <2>4, <2>5, RemovesInOrder
    <3> QED BY <2>2, <2>3, <3>1, <3>2
  <2> HIDE DEF news
  <2> QED BY <2>1, <2>2, <2>6
<1>12. CASE ZonesModified
  <2>1. pc = "modify" /\ phase' = phase /\ tx' = tx /\ running' = running /\ zonesCreated' = zonesCreated
        /\ zonesRemoved' = zonesRemoved /\ pc' = "verdict" /\ pdns' = pdns /\ loc' = loc
    BY <1>12 DEF ZonesModified
  <2> DEFINE ps == pdns.zones
             ts == tx.new.zones
  <2>2. phase = "tx" /\ ps = running.zones /\ zonesModified = NoUpdates /\ loc.i = 1
        /\ Creates(ps, ts, zonesCreated, 1) /\ Removes(ps, ts, zonesRemoved, 1)
    BY <2>1
  <2>3. OneKind(ps, ts) BY <2>1, <2>2 DEF OneModified
  <2>4. Corrections(ps, ts, zonesModified') BY <1>12, <2>2, <2>3, OneCollected
  <2> QED BY <2>1, <2>2, <2>4
<1>13. CASE Done
  <2>1. pc = "done" /\ phase' = phase /\ tx' = tx /\ running' = running /\ pdns' = pdns
        /\ zonesCreated' = zonesCreated /\ zonesRemoved' = zonesRemoved /\ zonesModified' = zonesModified
        /\ pc' \in {"rename", "api"}
    BY <1>13 DEF Done
  <2>2. loc'.i = loc.i /\ loc'.errors = loc.errors /\ loc'.todo = loc.todo BY <1>13 DEF Done, TypeOK, Locals
  <2> QED BY <2>1, <2>2
<1>14. CASE Rename
  <2>1. pc = "rename" /\ pc' = "copy" /\ phase' = phase /\ tx' = tx /\ running' = running /\ pdns'.zones = pdns.zones
        /\ zonesCreated' = zonesCreated /\ zonesRemoved' = zonesRemoved /\ zonesModified' = zonesModified
        /\ loc' = loc
    BY <1>14 DEF Rename
  <2> QED BY <2>1
<1>15. CASE CopyConfig
  <2>1. pc = "copy" /\ pc' = "restart" /\ phase' = phase /\ tx' = tx /\ running' = running /\ pdns'.zones = pdns.zones
        /\ zonesCreated' = zonesCreated /\ zonesRemoved' = zonesRemoved /\ zonesModified' = zonesModified
        /\ loc' = loc
    BY <1>15 DEF CopyConfig
  <2> QED BY <2>1
<1>16. CASE restartService
  <2>1. pc = "restart" /\ pc' = "api" /\ phase' = phase /\ tx' = tx /\ running' = running /\ loc' = loc
        /\ zonesCreated' = zonesCreated /\ zonesRemoved' = zonesRemoved /\ zonesModified' = zonesModified
    BY <1>16 DEF restartService
  <2>2. pdns'.zones = pdns.zones BY <1>16, RestartWhat
  <2> QED BY <2>1, <2>2
<1>17. CASE configureApi
  <2>1. pc = "api" /\ pc' = "create" /\ phase' = phase /\ tx' = tx /\ running' = running /\ pdns'.zones = pdns.zones
        /\ zonesCreated' = zonesCreated /\ zonesRemoved' = zonesRemoved /\ zonesModified' = zonesModified
        /\ loc' = loc
    BY <1>17 DEF configureApi
  <2> QED BY <2>1
<1>18. CASE CreateZone
  <2>1. running = tx.new BY <1>18, CreateWhat
  <2> QED BY <1>18, <2>1, CreateWhat
<1>19. CASE CreatedAll
  <2>1. pc = "create" /\ phase' = phase /\ tx' = tx /\ running' = running /\ pdns' = pdns /\ zonesCreated' = zonesCreated
        /\ zonesRemoved' = zonesRemoved /\ zonesModified' = zonesModified /\ pc' = "remove" /\ loc.i > Len(zonesCreated)
    BY <1>19 DEF CreatedAll
  <2>2. loc'.i = 1 /\ loc'.errors = loc.errors /\ loc'.todo = loc.todo BY <1>19 DEF CreatedAll, TypeOK, Locals
  <2>3. loc.i \in Nat /\ Len(zonesCreated) \in Nat BY DEF TypeOK, Locals
  <2>4. phase = "tx" => Creates(pdns.zones, tx.new.zones, <<>>, 1) BY <2>1, <2>3, AllCreated
  <2> QED BY <2>1, <2>2, <2>4
<1>20. CASE RemoveZone
  <2>1. running = tx.new BY <1>20, RemoveWhat
  <2> QED BY <1>20, <2>1, RemoveWhat
<1>21. CASE RemovedAll
  <2>1. pc = "remove" /\ phase' = phase /\ tx' = tx /\ running' = running /\ pdns' = pdns /\ zonesCreated' = <<>>
        /\ zonesRemoved' = <<>> /\ zonesModified' = zonesModified /\ pc' = "put" /\ loc.i > Len(zonesRemoved)
    BY <1>21 DEF RemovedAll
  <2>2. loc'.i = loc.i /\ loc'.errors = loc.errors /\ loc'.todo = Entries BY <1>21 DEF RemovedAll, TypeOK, Locals
  <2>3. loc.i \in Nat /\ Len(zonesRemoved) \in Nat BY DEF TypeOK, Locals
  <2>4. phase = "tx" => Pending(pdns.zones, tx.new.zones, Entries)
    <3> SUFFICES ASSUME phase = "tx" PROVE Pending(pdns.zones, tx.new.zones, Entries) OBVIOUS
    <3>1. Creates(pdns.zones, tx.new.zones, <<>>, 1) /\ Removes(pdns.zones, tx.new.zones, zonesRemoved, loc.i)
      BY <2>1
    <3>2. \A z \in Differ(pdns.zones, tx.new.zones) : tx.new.zones[z] # Absent BY <2>1, <2>3, <3>1, AllRemoved
    <3>3. \A z \in Differ(pdns.zones, tx.new.zones) : pdns.zones[z] # Absent
      <4>1. \A k \in 1..Len(<<>>) : FALSE OBVIOUS
      <4> QED BY <3>1, <4>1 DEF Creates
    <3>4. Corrections(pdns.zones, tx.new.zones, zonesModified) BY <2>1
    <3>5. zonesModified \in [Zones -> Updates \union {NoUpdate}] BY DEF TypeOK
    <3> HIDE DEF Queued
    <3> QED BY <3>2, <3>3, <3>4, <3>5, AllPending DEF Entries
  <2>5. phase # "tx" => Entries = {} /\ loc.i = 1 BY DEF Entries, NoUpdates
  <2> QED BY <2>1, <2>2, <2>4, <2>5
<1>22. CASE PutZone
  <2>1. pc' = pc /\ phase' = phase /\ tx' = tx /\ running' = running /\ zonesCreated' = zonesCreated
        /\ zonesRemoved' = zonesRemoved /\ zonesModified' = zonesModified
    BY <1>22 DEF PutZone
  <2>2. /\ phase = "tx" /\ pc = "put"
        /\ Pending(pdns'.zones, tx.new.zones, loc'.todo)
        /\ loc'.i = loc.i /\ loc'.errors = loc.errors
    BY <1>22, PutWhat
  <2> QED BY <2>1, <2>2
<1>23. CASE PutAll
  <2>1. pc = "put" /\ pc' = "returned" /\ phase' = phase /\ tx' = tx /\ running' = running /\ zonesCreated' = zonesCreated
        /\ zonesRemoved' = zonesRemoved /\ zonesModified' = NoUpdates /\ loc' = NoLocals /\ loc.todo = {} /\ pdns' = pdns
    BY <1>23 DEF PutAll, Return
  <2>2. pdns.zones \in MaybeZones /\ tx.new.zones \in MaybeZones
    BY DEF TypeOK, PowerDnsStates, Transactions, Datastores
  <2>3. phase = "tx" => Differ(pdns.zones, tx.new.zones) = {} BY <2>1 DEF Pending
  <2>4. phase = "tx" => pdns.zones = tx.new.zones BY <2>2, <2>3 DEF Differ, MaybeZones
  <2>5. tx.new = running BY <2>1
  <2> QED BY <2>1, <2>4, <2>5 DEF NoLocals
<1>24. CASE PdnsStarts
  <2>1. pc' = pc /\ phase' = phase /\ tx' = tx /\ running' = running /\ loc' = loc
        /\ zonesCreated' = zonesCreated /\ zonesRemoved' = zonesRemoved /\ zonesModified' = zonesModified
    BY <1>24 DEF PdnsStarts
  <2>2. pdns'.zones = pdns.zones BY <1>24, StartsWhat
  <2> QED BY <2>1, <2>2
<1>25. CASE UNCHANGED vars BY <1>25 DEF vars
<1> QED BY NothingFails, <1>1, <1>2, <1>3, <1>4, <1>5, <1>6, <1>7, <1>8, <1>9, <1>10, <1>11, <1>12, <1>13, <1>14, <1>15, <1>16, <1>17, <1>18, <1>19, <1>20, <1>21, <1>22, <1>23, <1>24, <1>25
     DEF Next, Sysrepo, ChangeHandler, DoneHandler, ConfigThread

LEMMA MirrorInit == ASSUME Calm PROVE Init => MirrorInv
<1> SUFFICES ASSUME Init PROVE MirrorInv OBVIOUS
<1>1. HandlerInv BY TypeInit, HandlerInit DEF HandlerInv
<1>2. Steady BY DEF Init, Steady, Calm, Datastores, NoTx
<1>3. OnDisk /\ FlagsCalm /\ InPowerDns BY DEF Init, OnDisk, FlagsCalm, InPowerDns, DoneSteps, BeforeApi
<1>4. Queued BY DEF Init, Queued, DoneSteps, BeforeApi, NoLocals
<1> QED BY <1>1, <1>2, <1>3, <1>4 DEF MirrorInv

LEMMA MirrorStep == ASSUME Calm, MirrorInv, OneModified, [Next]_vars PROVE MirrorInv'
<1>1. HandlerInv' BY TypeStep, HandlerStep DEF MirrorInv, HandlerInv, Calm
<1> QED BY <1>1, SteadyStep, OnDiskStep, FlagsStep, InPowerDnsStep, QueuedStep DEF MirrorInv

\* Between transactions nothing is remembered, and no temporary file is left, however many
\* transactions were committed and however many were vetoed after the callback accepted them.
THEOREM CleanInCalm == ASSUME Calm PROVE Spec /\ []OneModified => []CleanWhenIdle
<1>1. Init => MirrorInv BY MirrorInit
<1>2. MirrorInv /\ OneModified /\ [Next]_vars => MirrorInv' BY MirrorStep
<1>3. MirrorInv => CleanWhenIdle
  <2> SUFFICES ASSUME MirrorInv, Quiet PROVE CleanWhenIdle BY DEF CleanWhenIdle
  <2>0. HandlerShape /\ OnDisk /\ FlagsCalm /\ Queued BY DEF MirrorInv, HandlerInv
  <2>1. phase = "idle" /\ pc = "none" BY <2>0 DEF Quiet, HandlerShape
  <2>2. ~pdnsConfigChanged /\ ~apiConfigChanged BY <2>0, <2>1 DEF FlagsCalm
  <2>3. zonesCreated = <<>> /\ zonesRemoved = <<>> /\ zonesModified = NoUpdates BY <2>0, <2>1 DEF Queued
  <2>4. \A t \in TmpFiles : tmp[t] = None BY <2>0, <2>1, <2>2 DEF OnDisk
  <2> QED BY <2>2, <2>3, <2>4 DEF CleanWhenIdle
<1> QED BY <1>1, <1>2, <1>3, PTL DEF Spec

\* In calm every zone change that sysrepo accepted reaches PowerDNS, as the documentation says,
\* as long as no transaction changes the settings of one zone and touches another.
THEOREM AcceptedZonesApplied == ASSUME Calm PROVE Spec /\ []OneModified => []ZonesApplied
<1>1. Init => MirrorInv BY MirrorInit
<1>2. MirrorInv /\ OneModified /\ [Next]_vars => MirrorInv' BY MirrorStep
<1>3. MirrorInv => ZonesApplied
  <2> SUFFICES ASSUME MirrorInv, Quiet PROVE pdns.zones = running.zones BY DEF ZonesApplied
  <2> QED BY DEF MirrorInv, Queued, Quiet
<1> QED BY <1>1, <1>2, <1>3, PTL DEF Spec

\* Transactions that touch one zone at most are of that kind.
LEMMA BeginFew ==
  ASSUME MaxZonesPerTx <= 1, Begin
  PROVE  OneKind(running.zones, tx'.new.zones)
<1> DEFINE Few(zs) == Cardinality({z \in Zones : zs[z] # running.zones[z]}) <= MaxZonesPerTx
<1>1. PICK edits \in EditSets :
      \E c \in IF "conf" \in edits THEN Confs ELSE {running.conf} :
      \E a \in IF "acls" \in edits THEN Acls ELSE {running.acls} :
      \E f \in IF "svc" \in edits THEN Paths ELSE {running.file} :
      \E r \in IF "svc" \in edits THEN BOOLEAN ELSE {running.restart} :
      \E zs \in IF "zones" \in edits THEN [Zones -> Settings \union {Absent}] ELSE {running.zones} :
         LET new == [conf |-> c, acls |-> a, file |-> f, restart |-> r, zones |-> zs]
         IN  /\ new # running
             /\ Few(zs)
             /\ tx' = [id |-> nextId, new |-> new]
  BY Zenon DEF Begin
<1>2. Few(tx'.new.zones)
  <2> HIDE DEF Few
  <2> QED BY <1>1
<1>3. ASSUME NEW y \in Zones, NEW z \in Zones, y # z,
             tx'.new.zones[y] # running.zones[y], tx'.new.zones[z] # running.zones[z]
      PROVE  FALSE
  <2> DEFINE D == {x \in Zones : tx'.new.zones[x] # running.zones[x]}
  <2>1. IsFiniteSet(D) /\ {y, z} \subseteq D BY <1>3, ConstantAssumption, FS_Subset
  <2>2. Cardinality({y, z}) = 2
    <3>1. IsFiniteSet({z}) /\ Cardinality({z}) = 1 BY FS_Singleton
    <3>2. Cardinality({z} \union {y}) = Cardinality({z}) + 1 BY <1>3, <3>1, FS_AddElement
    <3>3. {z} \union {y} = {y, z} OBVIOUS
    <3> QED BY <3>1, <3>2, <3>3
  <2>3. Cardinality({y, z}) <= Cardinality(D) /\ Cardinality(D) \in Nat BY <2>1, FS_Subset, FS_CardinalityType
  <2> QED BY <1>2, <2>2, <2>3, ConstantAssumption
<1> QED BY <1>3 DEF OneKind, Differ

THEOREM FewZonesOneModified == ASSUME MaxZonesPerTx <= 1 PROVE Spec => []OneModified
<1>1. Init => OneModified BY DEF Init, OneModified
<1>2. OneModified /\ [Next]_vars => OneModified'
  <2> SUFFICES ASSUME OneModified, [Next]_vars PROVE OneModified' OBVIOUS
  <2>1. CASE Begin
    <3>1. running' = running BY <2>1 DEF Begin
    <3> QED BY <2>1, <3>1, BeginFew DEF OneModified
  <2>2. CASE phase' # "tx" \/ pc' \in DoneSteps BY <2>2 DEF OneModified
  <2>3. CASE running' = running /\ tx' = tx /\ phase' = phase /\ pc \notin DoneSteps
    BY <2>3 DEF OneModified
  <2>4. CASE ChangeHandler
    BY <2>2, <2>3, <2>4 DEF ChangeHandler, ConfigUntouched, ConfigRefused, ConfigWritten, ConfigWriteFails, MayWrite,
       Reject, NoZoneAddedOrDeleted, ZonesAddedOrDeleted, ZonesNotPossible, ZonesModified, ModifyNotPossible, DoneSteps
  <2>5. CASE DoneHandler
    BY <2>2, <2>5 DEF DoneHandler, Done, Rename, RenameFails, CopyConfig, CopyConfigFails, restartService, Return,
       configureApi, configureApiFails, CreateZone, Iteration, CreatedAll, RemoveZone, RemovedAll, PutZone, PutEscapes,
       PutAll, DoneSteps
  <2>6. CASE Sysrepo BY <2>2, <2>6 DEF Sysrepo, Commit, Abort, Reject, Finish, DoneSteps
  <2>7. CASE ConfigThread \/ PdnsStarts \/ PdnsStops \/ MainLoop \/ EditOffline \/ UNCHANGED vars
    BY <2>2, <2>3, <2>7 DEF ConfigThread, ConfigDone, ConfigDoneFails, PdnsStarts, PdnsStops, MainLoop, EditOffline, vars,
       OneModified
  <2>8. CASE Start \/ Crash \/ UnconfiguredCall \/ UnconfiguredList \/ Reboot
    BY <2>2, <2>8 DEF Start, Crash, UnconfiguredCall, UnconfiguredList, Reboot, Lost
  <2> QED BY <2>1, <2>4, <2>5, <2>6, <2>7, <2>8 DEF Next
<1> QED BY <1>1, <1>2, PTL DEF Spec

-----------------------------------------------------------------------------
(* The callback implements PowerDnsMirror, but for its liveness *)

\* What Mirror sees of the state.
Wanted == [x \in Items |-> IF x = "conf" THEN Rendered(running) ELSE running.zones[x]]
Actual == [x \in Items |-> IF x = "conf" THEN pdns.loaded ELSE pdns.zones[x]]

\* Steps that PowerDnsMirror does not see, that load the configuration, that change a zone.
LEMMA NothingSeen ==
  ASSUME running' = running, pdns'.loaded = pdns.loaded, pdns'.zones = pdns.zones
  PROVE  Wanted' = Wanted /\ Actual' = Actual
BY DEF Wanted, Actual, Rendered

LEMMA ConfSeen ==
  ASSUME running' = running, pdns'.loaded = Rendered(running), pdns'.zones = pdns.zones
  PROVE  [Mirror!Next]_<<Wanted, Actual>>
<1>1. Wanted' = Wanted BY DEF Wanted, Rendered
<1>2. "conf" \in Items BY DEF Items
<1>3. Actual' = [Actual EXCEPT !["conf"] = Wanted["conf"]] BY <1>2 DEF Actual, Wanted
<1>4. CASE Actual["conf"] = Wanted["conf"]
  <2>1. Actual' = Actual BY <1>2, <1>3, <1>4 DEF Actual
  <2> QED BY <1>1, <2>1
<1>5. CASE Actual["conf"] # Wanted["conf"]
  <2>1. "conf" \in Mirror!Behind BY <1>2, <1>5 DEF Mirror!Behind, Actual, Wanted
  <2> QED BY <1>1, <1>3, <2>1 DEF Mirror!Next, Mirror!Apply, Actual, Wanted
<1> QED BY <1>4, <1>5

LEMMA ZoneSeen ==
  ASSUME TypeOK, "conf" \notin Zones, running' = running, pdns'.loaded = pdns.loaded,
         NEW z \in Zones, pdns'.zones = [pdns.zones EXCEPT ![z] = running.zones[z]]
  PROVE  [Mirror!Next]_<<Wanted, Actual>>
<1>0. pdns.zones \in MaybeZones BY DEF TypeOK, PowerDnsStates
<1>1. Wanted' = Wanted BY DEF Wanted, Rendered
<1>2. z \in Items /\ z # "conf" BY DEF Items
<1>3. Actual' = [Actual EXCEPT ![z] = Wanted[z]] BY <1>0, <1>2 DEF Actual, Wanted, MaybeZones, Items
<1>4. CASE Actual[z] = Wanted[z]
  <2>1. Actual' = Actual BY <1>2, <1>3, <1>4 DEF Actual
  <2> QED BY <1>1, <2>1
<1>5. CASE Actual[z] # Wanted[z]
  <2>1. z \in Mirror!Behind BY <1>2, <1>5 DEF Mirror!Behind, Actual, Wanted
  <2> QED BY <1>1, <1>3, <2>1 DEF Mirror!Next, Mirror!Apply, Actual, Wanted
<1> QED BY <1>4, <1>5

LEMMA CommitSeen ==
  ASSUME Calm, MirrorInv, Commit
  PROVE  [Mirror!Next]_<<Wanted, Actual>>
<1>0. TypeOK /\ HandlerShape /\ Steady /\ InPowerDns /\ Queued BY DEF MirrorInv, HandlerInv
<1>1. pc = "verdict" /\ phase = "tx" /\ running' = tx.new /\ pdns' = pdns
  BY <1>0 DEF Commit, HandlerShape, DoneSteps
<1>2. pdns.up BY <1>0, <1>1 DEF Steady
<1>3. pdns.loaded = Rendered(running) BY <1>0, <1>1, <1>2 DEF InPowerDns
<1>4. pdns.zones = running.zones BY <1>0, <1>1 DEF Queued, DoneSteps
<1>5. Actual = Wanted BY <1>3, <1>4 DEF Actual, Wanted
<1>6. Mirror!Behind = {} BY <1>5 DEF Mirror!Behind, Actual, Wanted
<1>7. Actual' = Actual BY <1>1 DEF Actual
<1>8. tx.new.conf # running.conf \/ tx.new.zones # running.zones
  <2>1. /\ tx.new # running
        /\ tx.new.acls = running.acls /\ tx.new.file = running.file /\ tx.new.restart = running.restart
    BY <1>0, <1>1 DEF Steady, DoneSteps
  <2> QED BY <1>0, <2>1 DEF TypeOK, Transactions, Datastores
<1>9. Wanted' # Wanted
  <2>1. CASE tx.new.conf # running.conf
    <3>1. "conf" \in Items BY DEF Items
    <3>2. Wanted'["conf"] # Wanted["conf"] BY <1>1, <2>1, <3>1 DEF Wanted, Rendered
    <3> QED BY <3>2
  <2>2. CASE tx.new.zones # running.zones
    <3>1. tx.new.zones \in MaybeZones /\ running.zones \in MaybeZones
      BY <1>0 DEF TypeOK, Transactions, Datastores
    <3>2. PICK z \in Zones : tx.new.zones[z] # running.zones[z] BY <2>2, <3>1 DEF MaybeZones
    <3>3. z \in Items /\ z # "conf" BY DEF Items, Calm
    <3>4. Wanted'[z] # Wanted[z] BY <1>1, <3>2, <3>3 DEF Wanted
    <3> QED BY <3>4
  <2> QED BY <1>8, <2>1, <2>2
<1>10. DOMAIN Wanted' = Items BY DEF Wanted
<1> QED BY <1>6, <1>7, <1>9, <1>10 DEF Mirror!Next, Mirror!Commit, Wanted, Actual

LEMMA StepSeen ==
  ASSUME Calm, MirrorInv, [Next]_vars
  PROVE  [Mirror!Next]_<<Wanted, Actual>>
<1>0. TypeOK /\ HandlerShape /\ Steady /\ OnDisk BY DEF MirrorInv, HandlerInv
<1>1. CASE Commit BY <1>1, CommitSeen
<1>2. CASE restartService
  <2>1. running' = running /\ pdns'.zones = pdns.zones BY <1>2, RestartWhat
  <2>2. CASE phase = "tx"
    <3>1. pdns'.loaded = files[ServiceFile] /\ pc = "restart" BY <1>2, <2>2, RestartWhat
    <3>2. files[ServiceFile] = Rendered(running) BY <1>0, <3>1 DEF OnDisk, DoneSteps
    <3> QED BY <2>1, <3>1, <3>2, ConfSeen
  <2>3. CASE phase # "tx"
    <3>1. pdns'.loaded = pdns.loaded BY <1>2, <2>3, RestartWhat
    <3> QED BY <2>1, <3>1, NothingSeen
  <2> QED BY <2>2, <2>3
<1>3. CASE CreateZone \/ RemoveZone
  <2>1. running' = running /\ pdns'.loaded = pdns.loaded BY <1>0, <1>3, CallWhat DEF CreateZone, RemoveZone, Iteration
  <2>2. tx.new = running BY <1>0, <1>3, CreateWhat, RemoveWhat DEF HandlerShape, DoneSteps
  <2>3. PICK z \in Zones : pdns'.zones = [pdns.zones EXCEPT ![z] = running.zones[z]]
    BY <1>3, <2>2, CreateWhat, RemoveWhat
  <2> QED BY <1>0, <2>1, <2>3, ZoneSeen DEF Calm
<1>4. CASE PutZone
  <2>1. running' = running /\ pdns'.loaded = pdns.loaded /\ tx.new = running
    BY <1>0, <1>4, CallWhat DEF PutZone, HandlerShape, DoneSteps
  <2>2. PICK z \in Zones : pdns'.zones = [pdns.zones EXCEPT ![z] = running.zones[z]] BY <1>4, <2>1, PutWhat
  <2> QED BY <1>0, <2>1, <2>2, ZoneSeen DEF Calm
<1>5. CASE PdnsStarts
  <2>1. running' = running /\ pdns'.loaded = files[ServiceFile] /\ pdns'.zones = pdns.zones /\ pdns.up = FALSE
        /\ phase \in {"idle", "tx"}
    BY <1>0, <1>5, StartsWhat DEF PdnsStarts, Calm, TypeOK, PowerDnsStates
  <2>2. phase = "idle" BY <1>0, <2>1 DEF Steady
  <2>3. files[ServiceFile] = Rendered(running) BY <1>0, <2>2 DEF OnDisk, HandlerShape, DoneSteps
  <2> QED BY <2>1, <2>3, ConfSeen
<1>6. CASE running' = running /\ pdns' = pdns BY <1>6, NothingSeen
<1> QED BY NothingFails, <1>1, <1>2, <1>3, <1>4, <1>5, <1>6
    DEF Next, Sysrepo, ChangeHandler, DoneHandler, ConfigThread, vars, Start, Begin, MainLoop, Abort, Reject, Finish,
    ConfigUntouched, ConfigRefused, ConfigWritten, NoZoneAddedOrDeleted, ZonesAddedOrDeleted, ZonesModified,
    Done, Rename, CopyConfig, configureApi, CreatedAll, RemovedAll, PutAll

\* In calm, every step of the callback and of its surroundings is a step of PowerDnsMirror or
\* none: PowerDNS is only changed towards the running datastore, one item at a time, and has
\* caught up with a transaction when the next one is committed.
THEOREM MirrorsStepwise ==
  ASSUME Calm PROVE Spec /\ []OneModified => Mirror!Init /\ [][Mirror!Next]_<<Wanted, Actual>>
<1>1. Init => MirrorInv BY MirrorInit
<1>2. MirrorInv /\ OneModified /\ [Next]_vars => MirrorInv' BY MirrorStep
<1>3. MirrorInv /\ [Next]_vars => [Mirror!Next]_<<Wanted, Actual>> BY StepSeen
<1>4. Mirror!Init BY DEF Mirror!Init
<1> QED BY <1>1, <1>2, <1>3, <1>4, PTL DEF Spec

-----------------------------------------------------------------------------
(* Answers about the zones of PowerDNS, given next to the callback *)

\* A request that has met no transaction in DONE: none is in DONE now, the key it read is the
\* running one, and the zones it was answered with are the running ones.
OperInv ==
    /\ oper \in Requests
    /\ oper.at # "none" /\ oper.calm => Settled
    /\ oper.at = "callApi" /\ oper.calm => oper.key = running.conf.api
    /\ oper.at = "answered" /\ oper.calm => oper.zones = running.zones

\* When no committed transaction is being applied, PowerDNS and the client have what is running.
LEMMA SettledMirrors ==
  ASSUME Calm, MirrorInv, Settled
  PROVE  ApiReachable /\ client = running.conf.api /\ pdns.zones = running.zones
<1>0. TypeOK /\ HandlerShape /\ InPowerDns /\ Queued BY DEF MirrorInv, HandlerInv
<1>1. phase \in {"idle", "tx"} /\ pc \notin DoneSteps /\ pdns.up BY DEF Settled
<1>2. client = running.conf.api BY <1>0, <1>1 DEF InPowerDns, BeforeApi, DoneSteps
<1>3. pdns.loaded = Rendered(running) BY <1>0, <1>1 DEF InPowerDns, DoneSteps
<1>4. running.conf \in Confs /\ Rendered(running) \in Texts BY <1>0 DEF TypeOK, Datastores, Rendered, Texts
<1>5. ApiReachable
  BY <1>1, <1>2, <1>3, <1>4, SentinelAssumption DEF ApiReachable, Calm, Rendered
<1>6. pdns.zones = running.zones BY <1>0, <1>1 DEF Queued
<1> QED BY <1>2, <1>5, <1>6

\* The running datastore does not change between two states in which none is being applied.
LEMMA SettledStays ==
  ASSUME Calm, MirrorInv, [Next]_vars, Settled'
  PROVE  running' = running
<1>1. CASE Commit BY <1>1 DEF Commit, Settled, DoneSteps
<1> QED BY NothingFails, <1>1
    DEF Next, Sysrepo, ChangeHandler, DoneHandler, ConfigThread, vars, stores, Start, Begin, MainLoop, Abort, Reject,
    Finish, ConfigUntouched, ConfigRefused, ConfigWritten, NoZoneAddedOrDeleted, ZonesAddedOrDeleted, ZonesModified,
    Done, Rename, CopyConfig, configureApi, CreatedAll, RemovedAll, PutAll, restartService, CreateZone, RemoveZone,
    Iteration, PutZone, PdnsStarts

LEMMA OperStep ==
  ASSUME Calm, MirrorInv, OperInv, [StateNext]_<<vars, oper>>
  PROVE  OperInv'
<1>0. TypeOK BY DEF MirrorInv, HandlerInv
<1>1. CASE Next /\ Observe
  <2>1. NoRequest \in Requests /\ NoRequest.at = "none" BY DEF NoRequest, Requests, Apis
  <2>2. CASE oper' = NoRequest BY <2>1, <2>2 DEF OperInv
  <2>3. CASE oper' # NoRequest
    <3>1. oper.at # "none" /\ oper' = [oper EXCEPT !.calm = @ /\ Settled'] BY <1>1, <2>3 DEF Observe
    <3>2. Settled' \in BOOLEAN BY DEF Settled
    <3>3. /\ oper' \in Requests /\ oper'.at = oper.at /\ oper'.key = oper.key /\ oper'.zones = oper.zones
          /\ oper'.calm => oper.calm /\ Settled'
      BY <3>1, <3>2 DEF OperInv, Requests
    <3>4. oper'.calm => running' = running BY <1>1, <3>3, SettledStays
    <3> QED BY <3>1, <3>3, <3>4 DEF OperInv
  <2> QED BY <2>2, <2>3
<1>2. CASE ZoneCB /\ UNCHANGED vars
  <2>1. running' = running /\ (Settled' <=> Settled) BY <1>2 DEF vars, stores, Settled
  <2>2. CASE oper_get_items
    BY <2>1, <2>2 DEF oper_get_items, OperInv, NoRequest, Requests, Apis, Settled
  <2>3. CASE listZones
    <3>1. oper' = [oper EXCEPT !.at = "callApi", !.key = client] /\ oper.at = "listZones" /\ client \in Apis
      BY <1>0, <2>3 DEF listZones, TypeOK
    <3>2. oper' \in Requests /\ oper'.at = "callApi" /\ oper'.key = client /\ oper'.calm = oper.calm
      BY <3>1 DEF OperInv, Requests
    <3>3. oper.calm => client = running.conf.api BY <3>1, SettledMirrors DEF OperInv
    <3> QED BY <2>1, <3>1, <3>2, <3>3 DEF OperInv
  <2>4. CASE callApi
    <3> DEFINE zs == IF ApiReachable /\ oper.key = client THEN pdns.zones ELSE Failed
    <3>1. oper' = [oper EXCEPT !.at = "answered", !.zones = zs] /\ oper.at = "callApi" BY <2>4 DEF callApi
    <3>2. zs \in MaybeZones \union {Failed} BY <1>0 DEF TypeOK, PowerDnsStates
    <3>3. oper.calm => zs = running.zones BY <3>1, SettledMirrors DEF OperInv
    <3> HIDE DEF zs
    <3>4. oper' \in Requests /\ oper'.at = "answered" /\ oper'.zones = zs /\ oper'.calm = oper.calm
      BY <3>1, <3>2 DEF OperInv, Requests
    <3> QED BY <2>1, <3>1, <3>3, <3>4 DEF OperInv
  <2>5. CASE Reply BY <2>5 DEF Reply, OperInv, NoRequest, Requests, Apis
  <2> QED BY <1>2, <2>2, <2>3, <2>4, <2>5 DEF ZoneCB
<1>3. CASE UNCHANGED <<vars, oper>> BY <1>3 DEF OperInv, Settled, vars, stores
<1> QED BY <1>1, <1>2, <1>3 DEF StateNext

\* In calm, an answer about the zones of PowerDNS that no committed transaction crossed shows
\* the zones of the running datastore, whatever a transaction prepares meanwhile and whatever
\* address and key came with the ones before (ZoneCB::oper_get_items).
THEOREM AnswersShowRunning == ASSUME Calm PROVE StateSpec /\ []OneModified => []ShowsRunning
<1>1. StateInit => MirrorInv /\ OperInv
  <2>1. ASSUME StateInit PROVE OperInv BY <2>1 DEF StateInit, OperInv, NoRequest, Requests, Apis
  <2> QED BY <2>1, MirrorInit DEF StateInit
<1>2. MirrorInv /\ OperInv /\ OneModified /\ [StateNext]_<<vars, oper>> => MirrorInv' /\ OperInv'
  <2>1. [StateNext]_<<vars, oper>> => [Next]_vars BY DEF StateNext
  <2> QED BY <2>1, MirrorStep, OperStep
<1>3. OperInv => ShowsRunning BY DEF OperInv, ShowsRunning
<1> QED BY <1>1, <1>2, <1>3, PTL DEF StateSpec

\* In particular all of this holds when no transaction touches more than one zone, for any
\* number of transactions and zones.
THEOREM FewZonesInCalm ==
  ASSUME Calm, MaxZonesPerTx <= 1
  PROVE  /\ Spec => [](CleanWhenIdle /\ ZonesApplied)
         /\ Spec => Mirror!Init /\ [][Mirror!Next]_<<Wanted, Actual>>
         /\ StateSpec => []ShowsRunning
<1>1. Spec => []OneModified BY FewZonesOneModified
<1>2. StateSpec => Spec
  <2>1. StateInit => Init BY DEF StateInit
  <2>2. [StateNext]_<<vars, oper>> => [Next]_vars BY DEF StateNext
  <2> QED BY <2>1, <2>2, PTL DEF StateSpec, Spec
<1>3. Spec => [](CleanWhenIdle /\ ZonesApplied) BY <1>1, CleanInCalm, AcceptedZonesApplied, PTL
<1>4. Spec => Mirror!Init /\ [][Mirror!Next]_<<Wanted, Actual>> BY <1>1, MirrorsStepwise, PTL
<1>5. StateSpec => []ShowsRunning BY <1>1, <1>2, AnswersShowRunning, PTL
<1> QED BY <1>3, <1>4, <1>5
===============================================================================
