----------------------------- MODULE PdnsConfigCB -----------------------------
(***************************************************************************)
(* The configuration callback of pdns-sysrepo (src/pdns-config/), which    *)
(* turns transactions of the sysrepo datastore into a pdns.conf file,      *)
(* restarts of the PowerDNS service and calls to the PowerDNS HTTP API.    *)
(*                                                                         *)
(* A transaction is delivered as CHANGE (prepare: write a temporary file,  *)
(* collect the zone changes; may refuse) and then, after the commit, as    *)
(* DONE (rename the file, copy running to startup, restart the service,    *)
(* call the API) or, when another subscriber refused, as ABORT.  A callback*)
(* that refuses CHANGE itself gets no ABORT.  At process start the running *)
(* datastore is delivered as ENABLED followed by DONE, with request id 0.  *)
(*                                                                         *)
(* `phase` says what the process is doing, `pc` where in the handler the   *)
(* callback's thread is.  Config (src/config/) handles the same DONE event *)
(* in a thread of its own, one leaf at a time.                             *)
(***************************************************************************)
EXTENDS Integers, Sequences, FiniteSets, Functions, SequencesExt

CONSTANTS
    Confs,          \* contents of /pdns-server:pdns-server: records [opts, api]
    Acls,           \* contents of axfr-access-control-list and notify-endpoint
    NoApi,          \* the value of conf.api, and of the client, without a usable API
    Paths,          \* values of pdns-service/config-file
    ServiceFile,    \* the path the PowerDNS unit really reads
    Zones,          \* zone names
    Kinds, Masters, \* zonetype values, and master endpoints
    Absent,         \* datastore or PowerDNS does not have the zone
    None,           \* no file; no configuration in d_apiClient
    Unset,          \* a field the PUT body leaves out
    NoUpdate,       \* no entry in zonesModified
    ApiMode,        \* d_apiClient # nullptr: rrset-management is disabled
    EditSets,       \* which parts one transaction may edit: sets of "conf", "acls", "svc", "zones"
    MaxZonesPerTx,  \* bound: zones one transaction may touch
    MaxTx,          \* bound: request ids
    IdsRestart,     \* sysrepo counts request ids from 1 again after a process start
    Faults,         \* what may go wrong
    MaxFaults       \* bound: how often

Settings == [kind : Kinds, masters : SUBSET Masters]
MaybeZones == [Zones -> Settings \union {Absent}]
Updates  == [kind : Kinds \union {Unset}, masters : {Unset} \union SUBSET Masters]
Datastores ==
    [conf : Confs, acls : Acls, file : Paths, restart : BOOLEAN, zones : MaybeZones]
Texts    == [conf : Confs, acls : Acls]
Ids      == 0..MaxTx
TmpFiles == Paths \X Ids
Apis     == {c.api : c \in Confs} \union {NoApi, None}

PowerDnsStates == [up : BOOLEAN, loaded : Texts \union {None}, zones : MaybeZones]
Transactions   == [id : Ids, new : Datastores]
Services       == [file : Paths, restart : BOOLEAN]
NewZones       == [name : Zones, settings : Settings]
Locals         == [fpath : TmpFiles, i : Nat \ {0}, errors : BOOLEAN,
                   todo : SUBSET (Zones \X Updates)]
Histories      == [edited : BOOLEAN, faulty : BOOLEAN]

ASSUME SentinelAssumption ==
    /\ Absent \notin Settings
    /\ None \notin Texts
    /\ Unset \notin Kinds
    /\ \A m \in SUBSET Masters : m # Unset
    /\ NoUpdate \notin Updates

ASSUME ConstantAssumption ==
    /\ ServiceFile \in Paths
    /\ ApiMode \in BOOLEAN
    /\ IdsRestart \in BOOLEAN
    /\ IsFiniteSet(Zones)
    /\ MaxTx \in Nat
    /\ MaxFaults \in Nat
    /\ MaxZonesPerTx \in Nat

VARIABLES
    running, startup,   \* the two datastores
    tx,                 \* the transaction being delivered: request id and new content
    nextId,             \* next request id
    phase,              \* "down", "enabled", "idle" or "tx"
    pc,                 \* next step of the callback's handler
    files, tmp,         \* pdns.conf per path; temporary files per path and request id
    pdns,               \* PowerDNS: up, the pdns.conf it loaded, its zones
    cfg, cfgPending,    \* Config: d_pdns_conf, d_pdns_restart; leaves its DONE still has to assign
    pdnsConfigChanged, apiConfigChanged,
    zonesCreated, zonesModified, zonesRemoved,
    client,             \* the address and key d_apiClient is configured with; None: a null pointer
    loc,                \* locals of the DONE handler
    faults,             \* faults so far
    hist                \* history of the last transaction: it committed an edit of the
                        \* configuration, a fault since it began

stores == <<running, startup, tx, nextId>>
disk   == <<files, tmp>>
config == <<cfg, cfgPending>>
flags  == <<pdnsConfigChanged, apiConfigChanged>>
lists  == <<zonesCreated, zonesModified, zonesRemoved>>
vars   == <<stores, phase, pc, disk, pdns, config, flags, lists, client, loc, faults, hist>>

NoUpdates == [z \in Zones |-> NoUpdate]
NoLocals  == [fpath |-> <<ServiceFile, 0>>, i |-> 1, errors |-> FALSE, todo |-> {}]

\* What PdnsServerConfig writes: also-notify and allow-axfr name lists outside pdns-server.
Rendered(ds) == [conf |-> ds.conf, acls |-> ds.acls]

NoTx(r)   == [id |-> 0, new |-> r]

TypeOK ==
    /\ running \in Datastores /\ startup \in Datastores
    /\ tx \in Transactions
    /\ nextId \in 1..(MaxTx + 1)
    /\ phase \in {"down", "enabled", "idle", "tx"}
    /\ pc \in {"none", "config", "zones", "modify", "verdict", "done", "rename", "copy",
               "restart", "api", "create", "remove", "put", "returned"}
    /\ files \in [Paths -> Texts \union {None}]
    /\ tmp \in [TmpFiles -> Texts \union {None}]
    /\ pdns \in PowerDnsStates
    /\ cfg \in Services
    /\ cfgPending \subseteq {"file", "restart"}
    /\ pdnsConfigChanged \in BOOLEAN /\ apiConfigChanged \in BOOLEAN
    /\ zonesCreated \in Seq(NewZones)
    /\ zonesModified \in [Zones -> Updates \union {NoUpdate}]
    /\ zonesRemoved \in Seq(Zones)
    /\ client \in Apis
    /\ loc \in Locals
    /\ faults \in 0..MaxFaults
    /\ hist \in Histories

-----------------------------------------------------------------------------
(* The environment of a step *)

\* A fault of kind f happens now; the bound MaxFaults caps how many.
Fault(f) ==
    /\ f \in Faults /\ faults < MaxFaults
    /\ faults' = faults + 1
    /\ hist' = [hist EXCEPT !.faulty = TRUE]

NoFault == UNCHANGED <<faults, hist>>

\* An API call reaches PowerDNS: it runs, and the client has its address and key.
ApiReachable ==
    /\ ApiMode /\ pdns.up
    /\ client \notin {NoApi, None}
    /\ pdns.loaded # None /\ client = pdns.loaded.conf.api

\* What the transaction changes, as the change iterators of its session report it.
\* Request id 0 is the ENABLED event, in which everything is created, the webserver's port
\* and address among it: they have defaults.
ConfTouched == tx.id = 0 \/ tx.new.conf # running.conf

\* Seeded fault: only ENABLED sets up the API client.
ApiTouchedAtStart == tx.id = 0

ApiTouched == tx.id = 0 \/ tx.new.conf.api # running.conf.api
TouchedZones == {z \in Zones : tx.new.zones[z] # running.zones[z]}
Created      == {z \in TouchedZones : running.zones[z] = Absent}
Deleted      == {z \in TouchedZones : tx.new.zones[z] = Absent}
MastersOf(ds, z) == IF ds.zones[z] = Absent THEN {} ELSE ds.zones[z].masters

\* Seeded fault: one temporary file for all transactions.
tmpFileShared(id) == <<cfg.file, 0>>

tmpFile(id) == <<cfg.file, id>>

\* module_change returns an error for CHANGE: sysrepo drops the transaction and sends
\* this subscriber no ABORT, so flags, lists and temporary file stay as they are.
Reject ==
    /\ phase' = "idle" /\ pc' = "none"
    /\ tx' = NoTx(running)

\* module_change returns, with or without an error, which sysrepo ignores for DONE.
Return == pc' = "returned" /\ loc' = NoLocals

-----------------------------------------------------------------------------
(* Process start and sysrepo transactions *)

\* main constructs Config, reads the service settings and subscribes the callback.
Start ==
    /\ phase = "down"
    /\ phase' = "enabled" /\ pc' = "config"
    /\ tx' = NoTx(running)
    /\ nextId' = IF IdsRestart THEN 1 ELSE nextId
    /\ cfg' = [file |-> running.file, restart |-> running.restart]
    /\ hist' = [edited |-> TRUE, faulty |-> FALSE]
    /\ UNCHANGED <<running, startup, disk, pdns, cfgPending, flags, lists, client, loc, faults>>

\* A client commits new content. "early": it does so while PowerDNS is not up.
Begin ==
    /\ phase = "idle" /\ nextId <= MaxTx
    /\ pdns.up \/ "early" \in Faults
    /\ \E edits \in EditSets :
       \E c \in IF "conf" \in edits THEN Confs ELSE {running.conf} :
       \E a \in IF "acls" \in edits THEN Acls ELSE {running.acls} :
       \E f \in IF "svc" \in edits THEN Paths ELSE {running.file} :
       \E r \in IF "svc" \in edits THEN BOOLEAN ELSE {running.restart} :
       \E zs \in IF "zones" \in edits THEN [Zones -> Settings \union {Absent}] ELSE {running.zones} :
          LET new == [conf |-> c, acls |-> a, file |-> f, restart |-> r, zones |-> zs]
          IN  /\ new # running
              /\ Cardinality({z \in Zones : zs[z] # running.zones[z]}) <= MaxZonesPerTx
              /\ tx' = [id |-> nextId, new |-> new]
    /\ hist' = [edited |-> FALSE, faulty |-> FALSE]
    /\ nextId' = nextId + 1
    /\ phase' = "tx" /\ pc' = "config"
    /\ UNCHANGED <<running, startup, disk, pdns, config, flags, lists, client, loc, faults>>

\* Every subscriber accepted: the new content is the running datastore, DONE follows,
\* to this callback and, when service settings changed, to Config.
Commit ==
    /\ pc = "verdict"
    /\ running' = tx.new
    /\ cfgPending' = {leaf \in {"file", "restart"} : tx.new[leaf] # running[leaf]}
    /\ pc' = "done"
    /\ hist' = [hist EXCEPT !.edited = (tx.new.conf # running.conf)]
    /\ UNCHANGED <<startup, tx, nextId, phase, disk, pdns, cfg, flags, lists, client, loc, faults>>

\* Both handlers of DONE returned.
Finish ==
    /\ pc = "returned" /\ cfgPending = {}
    /\ phase' = "idle" /\ pc' = "none"
    /\ tx' = NoTx(running)
    /\ NoFault /\ UNCHANGED <<running, startup, nextId, disk, pdns, config, flags, lists, client, loc>>

\* The main thread sleeps until a signal.
MainLoop == phase = "idle" /\ UNCHANGED vars

-----------------------------------------------------------------------------
(* CHANGE and ENABLED: changeConfigUpdate, changeZoneAddAndDelete, changeZoneModify *)

ConfigUntouched ==
    /\ pc = "config" /\ ~ConfTouched
    /\ pc' = "zones"
    /\ NoFault /\ UNCHANGED <<stores, phase, disk, pdns, config, flags, lists, client, loc>>

ConfigRefused ==
    /\ pc = "config" /\ phase = "tx" /\ ConfTouched /\ ~cfg.restart
    /\ Reject
    /\ NoFault /\ UNCHANGED <<running, startup, nextId, disk, pdns, config, flags, lists, client, loc>>

MayWrite == pc = "config" /\ ConfTouched /\ (cfg.restart \/ phase = "enabled")

ConfigWritten ==
    /\ MayWrite
    /\ pdnsConfigChanged' = TRUE
    /\ tmp' = [tmp EXCEPT ![tmpFile(tx.id)] = Rendered(tx.new)]
    /\ apiConfigChanged' = (apiConfigChanged \/ ApiTouched)
    /\ pc' = IF phase = "enabled" THEN "done" ELSE "zones"
    /\ NoFault /\ UNCHANGED <<stores, phase, files, pdns, config, lists, client, loc>>

\* writeToFile throws with the flag already set; during ENABLED the process exits.
ConfigWriteFails ==
    /\ MayWrite
    /\ Fault("write")
    /\ pdnsConfigChanged' = (phase = "tx")
    /\ IF phase = "tx" THEN Reject ELSE phase' = "down" /\ pc' = "none" /\ UNCHANGED tx
    /\ UNCHANGED <<running, startup, nextId, disk, pdns, config, apiConfigChanged, lists, client, loc>>

\* No API client, or no zone node created or deleted: the API is not asked.
NoZoneAddedOrDeleted ==
    /\ pc = "zones"
    /\ ~ApiMode \/ Created \union Deleted = {}
    /\ pc' = IF ApiMode THEN "modify" ELSE "verdict"
    /\ NoFault /\ UNCHANGED <<stores, phase, disk, pdns, config, flags, lists, client, loc>>

\* listServers answers; every new zone and every removed zone is queued, in diff order.
ZonesAddedOrDeleted ==
    /\ pc = "zones" /\ ApiReachable
    /\ Created \union Deleted # {}
    /\ \E c \in SetToSeqs(Created), r \in SetToSeqs(Deleted) :
          /\ zonesCreated' = zonesCreated \o
                [k \in DOMAIN c |-> [name |-> c[k], settings |-> tx.new.zones[c[k]]]]
          /\ zonesRemoved' = zonesRemoved \o r
    /\ pc' = "modify"
    /\ NoFault /\ UNCHANGED <<stores, phase, disk, pdns, config, flags, zonesModified, client, loc>>

\* listServers throws.
ZonesNotPossible ==
    /\ pc = "zones" /\ ApiMode /\ client # None
    /\ Created \union Deleted # {}
    /\ IF ApiReachable THEN Fault("api") ELSE NoFault
    /\ Reject
    /\ UNCHANGED <<running, startup, nextId, disk, pdns, config, flags, lists, client, loc>>

\* Seeded fault: changed masters are not collected.
CollectedKind(first, kind) == [kind |-> kind, masters |-> Unset]

\* The body collected for a zone, over the changed leaves of every changed zone: the
\* zone's name is looked up from the root of the diff, which finds its first zone.
Collected(first, kind) ==
    LET old == IF zonesModified[first] = NoUpdate
               THEN [kind |-> Unset, masters |-> Unset] ELSE zonesModified[first]
        mastersTouched == \E z \in TouchedZones : MastersOf(running, z) # MastersOf(tx.new, z)
    IN  [kind    |-> IF kind = Unset THEN old.kind ELSE kind,
         masters |-> IF mastersTouched THEN MastersOf(tx.new, first) ELSE old.masters]

\* zonetype leaves that are reported as modified; the last one read stays.
ModifiedKinds ==
    {tx.new.zones[z].kind : z \in {y \in TouchedZones \ (Created \union Deleted) :
                                     tx.new.zones[y].kind # running.zones[y].kind}}

ZonesModified ==
    /\ pc = "modify"
    /\ IF TouchedZones = {} THEN UNCHANGED zonesModified
       ELSE \E first \in TouchedZones :
              IF first \in Range(zonesRemoved) THEN UNCHANGED zonesModified
              ELSE \E kind \in IF ModifiedKinds = {} THEN {Unset} ELSE ModifiedKinds :
                     zonesModified' = [zonesModified EXCEPT ![first] = Collected(first, kind)]
    /\ pc' = "verdict"
    /\ NoFault /\ UNCHANGED <<stores, phase, disk, pdns, config, flags, zonesCreated, zonesRemoved, client, loc>>

\* Reading the changes throws.
ModifyNotPossible ==
    /\ pc = "modify"
    /\ Fault("sysrepo")
    /\ Reject
    /\ UNCHANGED <<running, startup, nextId, disk, pdns, config, flags, lists, client, loc>>

-----------------------------------------------------------------------------
(* ABORT: another subscriber refused what this callback accepted *)

\* Seeded fault: ABORT leaves the temporary file.
TmpKept == tmp

TmpRemoved == IF pdnsConfigChanged THEN [tmp EXCEPT ![tmpFile(tx.id)] = None] ELSE tmp

Abort ==
    /\ pc = "verdict"
    /\ "veto" \in Faults
    /\ Reject
    /\ pdnsConfigChanged' = FALSE /\ apiConfigChanged' = FALSE
    /\ tmp' = TmpRemoved
    /\ zonesCreated' = <<>> /\ zonesRemoved' = <<>> /\ zonesModified' = NoUpdates
    /\ NoFault /\ UNCHANGED <<running, startup, nextId, files, pdns, config, client, loc>>

-----------------------------------------------------------------------------
(* DONE *)

Done ==
    /\ pc = "done"
    /\ pdnsConfigChanged' = FALSE
    /\ IF pdnsConfigChanged
       THEN pc' = "rename" /\ loc' = [loc EXCEPT !.fpath = tmpFile(tx.id)]
       ELSE pc' = "api" /\ UNCHANGED loc
    /\ NoFault /\ UNCHANGED <<stores, phase, disk, pdns, config, apiConfigChanged, lists, client>>

\* The target is read from Config again, which another thread may just have assigned.
Rename ==
    /\ pc = "rename" /\ tmp[loc.fpath] # None
    /\ files' = [files EXCEPT ![cfg.file] = tmp[loc.fpath]]
    /\ tmp' = [tmp EXCEPT ![loc.fpath] = None]
    /\ pc' = "copy"
    /\ NoFault /\ UNCHANGED <<stores, phase, pdns, config, flags, lists, client, loc>>

\* Seeded fault: the handler goes on after a failed rename.
RenameFailsGoesOn ==
    /\ pc = "rename"
    /\ IF tmp[loc.fpath] = None THEN NoFault ELSE Fault("rename")
    /\ tmp' = [tmp EXCEPT ![loc.fpath] = None]
    /\ pc' = "copy"
    /\ UNCHANGED <<stores, phase, files, pdns, config, flags, lists, client, loc>>

RenameFails ==
    /\ pc = "rename"
    /\ IF tmp[loc.fpath] = None THEN NoFault ELSE Fault("rename")
    /\ tmp' = [tmp EXCEPT ![loc.fpath] = None]
    /\ Return
    /\ UNCHANGED <<stores, phase, files, pdns, config, flags, lists, client>>

CopyConfig ==
    /\ pc = "copy"
    /\ startup' = running
    /\ pc' = "restart"
    /\ NoFault /\ UNCHANGED <<running, tx, nextId, phase, disk, pdns, config, flags, lists, client, loc>>

CopyConfigFails ==
    /\ pc = "copy"
    /\ Fault("copy")
    /\ Return
    /\ UNCHANGED <<stores, phase, disk, pdns, config, flags, lists, client>>

\* Seeded fault: the restart is left to somebody else.
restartServiceNever ==
    /\ pc = "restart" /\ pc' = "api"
    /\ NoFault /\ UNCHANGED <<stores, phase, disk, pdns, config, flags, lists, client, loc>>

\* RestartUnit, then wait for any JobRemoved signal, at most 15 times 200 ms. Until main
\* has notified systemd, the unit (Before=pdns.service) keeps PowerDNS from starting.
\* "slow": the wait ends before PowerDNS is up. "dbus": the request fails. Either way
\* restartService returns normally.
restartService ==
    /\ pc = "restart"
    /\ \/ /\ ~cfg.restart
          /\ NoFault /\ UNCHANGED pdns
       \/ /\ cfg.restart /\ phase = "tx"
          /\ pdns' = [pdns EXCEPT !.up = TRUE, !.loaded = files[ServiceFile]]
          /\ NoFault
       \/ /\ cfg.restart /\ phase = "enabled"
          /\ pdns' = [pdns EXCEPT !.up = FALSE]
          /\ NoFault
       \/ /\ cfg.restart /\ phase = "tx"
          /\ Fault("slow")
          /\ pdns' = [pdns EXCEPT !.up = FALSE]
       \/ /\ cfg.restart
          /\ Fault("dbus") /\ UNCHANGED pdns
    /\ pc' = "api"
    /\ UNCHANGED <<stores, phase, disk, config, flags, lists, client, loc>>

\* The session's tree is the running datastore; without a key, address or port the
\* client gets a configuration that reaches nothing.
configureApi ==
    /\ pc = "api"
    /\ IF ApiMode /\ apiConfigChanged
       THEN client' = running.conf.api /\ apiConfigChanged' = FALSE
       ELSE UNCHANGED <<client, apiConfigChanged>>
    /\ pc' = "create"
    /\ NoFault /\ UNCHANGED <<stores, phase, disk, pdns, config, pdnsConfigChanged, lists, loc>>

configureApiFails ==
    /\ pc = "api" /\ ApiMode /\ apiConfigChanged
    /\ Fault("client")
    /\ apiConfigChanged' = FALSE
    /\ Return
    /\ UNCHANGED <<stores, phase, disk, pdns, config, pdnsConfigChanged, lists, client>>

\* Seeded fault: a call that failed is tried again.
AdvanceOnSuccess(failed) ==
    loc' = [loc EXCEPT !.i = IF failed THEN loc.i ELSE loc.i + 1, !.errors = loc.errors \/ failed]

Advance(failed) == loc' = [loc EXCEPT !.i = loc.i + 1, !.errors = loc.errors \/ failed]

\* One iteration of a loop over API calls: the call takes effect when `possible`, and
\* otherwise, or on an API fault, is recorded as an error and the loop goes on.
Iteration(possible, newZones) ==
    /\ \/ /\ ApiReachable /\ possible
          /\ pdns' = [pdns EXCEPT !.zones = newZones]
          /\ Advance(FALSE) /\ NoFault
       \/ /\ UNCHANGED pdns /\ Advance(TRUE)
          /\ IF ApiReachable /\ possible THEN Fault("api") ELSE NoFault
    /\ UNCHANGED <<stores, phase, pc, disk, config, flags, lists, client>>

CreateZone ==
    /\ pc = "create" /\ loc.i <= Len(zonesCreated)
    /\ LET z == zonesCreated[loc.i]
       IN  Iteration(pdns.zones[z.name] = Absent, [pdns.zones EXCEPT ![z.name] = z.settings])

CreatedAll ==
    /\ pc = "create" /\ loc.i > Len(zonesCreated)
    /\ pc' = "remove" /\ loc' = [loc EXCEPT !.i = 1]
    /\ NoFault /\ UNCHANGED <<stores, phase, disk, pdns, config, flags, lists, client>>

RemoveZone ==
    /\ pc = "remove" /\ loc.i <= Len(zonesRemoved)
    /\ LET z == zonesRemoved[loc.i]
       IN  Iteration(pdns.zones[z] # Absent, [pdns.zones EXCEPT ![z] = Absent])

\* The entries of the map zonesModified.
Entries == {<<z, zonesModified[z]>> : z \in {y \in Zones : zonesModified[y] # NoUpdate}}

\* Seeded fault: removals that failed are kept for the next transaction.
RemovedAllKeeps ==
    /\ pc = "remove" /\ loc.i > Len(zonesRemoved)
    /\ zonesCreated' = <<>>
    /\ IF loc.errors THEN Return ELSE pc' = "put" /\ loc' = [loc EXCEPT !.todo = Entries]
    /\ NoFault
    /\ UNCHANGED <<stores, phase, disk, pdns, config, flags, zonesModified, zonesRemoved, client>>

\* Seeded fault: after an error both loops are run again.
RemovedAllRetries ==
    /\ pc = "remove" /\ loc.i > Len(zonesRemoved)
    /\ IF loc.errors
       THEN pc' = "create" /\ loc' = NoLocals /\ UNCHANGED lists
       ELSE /\ pc' = "put" /\ loc' = [loc EXCEPT !.todo = Entries]
            /\ zonesCreated' = <<>> /\ zonesRemoved' = <<>> /\ UNCHANGED zonesModified
    /\ NoFault /\ UNCHANGED <<stores, phase, disk, pdns, config, flags, client>>

\* Both lists are dropped; an error throws past doneZoneModify.
RemovedAll ==
    /\ pc = "remove" /\ loc.i > Len(zonesRemoved)
    /\ zonesCreated' = <<>> /\ zonesRemoved' = <<>>
    /\ IF loc.errors THEN Return
       ELSE pc' = "put" /\ loc' = [loc EXCEPT !.todo = Entries]
    /\ NoFault /\ UNCHANGED <<stores, phase, disk, pdns, config, flags, zonesModified, client>>

Updated(s, u) ==
    [kind    |-> IF u.kind = Unset THEN s.kind ELSE u.kind,
     masters |-> IF u.masters = Unset THEN s.masters ELSE u.masters]

\* One zone of doneZoneModify: PUT it, or skip it when PowerDNS does not have it or
\* answers the PUT with an error.
PutZone ==
    /\ pc = "put" /\ ApiReachable
    /\ \E e \in loc.todo :
          /\ loc' = [loc EXCEPT !.todo = loc.todo \ {e}]
          /\ LET z == e[1] IN
             \/ /\ pdns.zones[z] # Absent
                /\ pdns' = [pdns EXCEPT !.zones[z] = Updated(pdns.zones[z], e[2])]
                /\ NoFault
             \/ /\ UNCHANGED pdns
                /\ IF pdns.zones[z] # Absent THEN Fault("api") ELSE NoFault
    /\ UNCHANGED <<stores, phase, pc, disk, config, flags, lists, client>>

\* A failing getZoneId call or a lost connection is not caught here: zonesModified stays.
PutEscapes ==
    /\ pc = "put" /\ loc.todo # {} /\ client # None
    /\ IF ApiReachable THEN Fault("api") ELSE NoFault
    /\ Return
    /\ UNCHANGED <<stores, phase, disk, pdns, config, flags, lists, client>>

PutAll ==
    /\ pc = "put" /\ loc.todo = {}
    /\ zonesModified' = NoUpdates
    /\ Return
    /\ NoFault /\ UNCHANGED <<stores, phase, disk, pdns, config, flags, zonesCreated, zonesRemoved, client>>

-----------------------------------------------------------------------------
(* Config's handler of the same DONE, in its own thread *)

ConfigDone ==
    /\ \E leaf \in cfgPending :
          /\ cfg' = [cfg EXCEPT ![leaf] = running[leaf]]
          /\ cfgPending' = cfgPending \ {leaf}
    /\ NoFault /\ UNCHANGED <<stores, phase, pc, disk, pdns, flags, lists, client, loc>>

\* Reading the changes throws: the remaining leaves keep their old values.
ConfigDoneFails ==
    /\ cfgPending # {}
    /\ Fault("sysrepo")
    /\ cfgPending' = {}
    /\ UNCHANGED <<stores, phase, pc, disk, pdns, cfg, flags, lists, client, loc>>

-----------------------------------------------------------------------------
(* PowerDNS, crashes, and edits while the process is down *)

\* The unit's Before=pdns.service holds PowerDNS back until the daemon is up; "unordered":
\* PowerDNS is started while the daemon is down and not being started.
PdnsStarts ==
    /\ ~pdns.up
    /\ phase \in {"idle", "tx"} \/ (phase = "down" /\ "unordered" \in Faults)
    /\ pdns' = [pdns EXCEPT !.up = TRUE, !.loaded = files[ServiceFile]]
    /\ NoFault /\ UNCHANGED <<stores, phase, pc, disk, config, flags, lists, client, loc>>

PdnsStops ==
    /\ pdns.up
    /\ Fault("pdns")
    /\ pdns' = [pdns EXCEPT !.up = FALSE]
    /\ UNCHANGED <<stores, phase, pc, disk, config, flags, lists, client, loc>>

\* The memory of the process is gone, files and datastores stay.
Lost ==
    /\ phase # "down"
    /\ phase' = "down" /\ pc' = "none"
    /\ cfgPending' = {}
    /\ pdnsConfigChanged' = FALSE /\ apiConfigChanged' = FALSE
    /\ zonesCreated' = <<>> /\ zonesRemoved' = <<>> /\ zonesModified' = NoUpdates
    /\ client' = None
    /\ loc' = NoLocals
    /\ UNCHANGED <<startup, tx, nextId, disk, cfg>>

Crash == Lost /\ Fault("crash") /\ UNCHANGED <<running, pdns>>

\* Until configureApi has run once since the process start, every call of the API client
\* dereferences its null configuration: of this callback, and of the zone state callback,
\* which is subscribed once ENABLED has been handled.
UnconfiguredCall ==
    /\ ApiMode /\ client = None
    /\ (pc = "zones" /\ Created \union Deleted # {}) \/ (pc = "put" /\ loc.todo # {})
    /\ Lost
    /\ NoFault /\ UNCHANGED <<running, pdns>>

UnconfiguredList ==
    /\ ApiMode /\ client = None
    /\ phase \in {"idle", "tx"}
    /\ Lost
    /\ NoFault /\ UNCHANGED <<running, pdns>>

\* sysrepo copies startup to running when the machine boots.
Reboot ==
    /\ Lost /\ Fault("reboot")
    /\ running' = startup
    /\ pdns' = [pdns EXCEPT !.up = FALSE]

EditOffline ==
    /\ phase = "down"
    /\ Fault("offline")
    /\ \E c \in Confs, a \in Acls : running' = [running EXCEPT !.conf = c, !.acls = a]
    /\ UNCHANGED <<startup, tx, nextId, phase, pc, disk, pdns, config, flags, lists, client, loc>>

-----------------------------------------------------------------------------
Init ==
    /\ running \in {d \in Datastores : d.zones = [z \in Zones |-> Absent]}
    /\ startup = running
    /\ tx = NoTx(running) /\ nextId = 1
    /\ phase = "down" /\ pc = "none"
    /\ files = [p \in Paths |-> None]
    /\ tmp = [t \in TmpFiles |-> None]
    /\ pdns = [up |-> FALSE, loaded |-> None, zones |-> running.zones]
    /\ cfg = [file |-> running.file, restart |-> running.restart] /\ cfgPending = {}
    /\ pdnsConfigChanged = FALSE /\ apiConfigChanged = FALSE
    /\ zonesCreated = <<>> /\ zonesModified = NoUpdates /\ zonesRemoved = <<>>
    /\ client = None
    /\ loc = NoLocals
    /\ faults = 0 /\ hist = [edited |-> FALSE, faulty |-> FALSE]

ChangeHandler ==
    \/ ConfigUntouched \/ ConfigRefused \/ ConfigWritten \/ ConfigWriteFails
    \/ NoZoneAddedOrDeleted \/ ZonesAddedOrDeleted \/ ZonesNotPossible
    \/ ZonesModified \/ ModifyNotPossible

DoneHandler ==
    \/ Done \/ Rename \/ RenameFails \/ CopyConfig \/ CopyConfigFails \/ restartService
    \/ configureApi \/ configureApiFails
    \/ CreateZone \/ CreatedAll \/ RemoveZone \/ RemovedAll
    \/ PutZone \/ PutEscapes \/ PutAll

Sysrepo == Commit \/ Abort \/ Finish
ConfigThread == ConfigDone \/ ConfigDoneFails

Next ==
    \/ Start \/ Begin \/ MainLoop
    \/ Sysrepo \/ ChangeHandler \/ DoneHandler \/ ConfigThread
    \/ PdnsStarts \/ PdnsStops \/ Crash \/ UnconfiguredCall \/ UnconfiguredList \/ Reboot \/ EditOffline

Spec == Init /\ [][Next]_vars

\* Handlers run to their end, sysrepo delivers the outcome, systemd starts PowerDNS and
\* the operator starts the daemon. Transactions and faults need not happen.
Fairness ==
    /\ WF_vars(Start) /\ WF_vars(Sysrepo) /\ WF_vars(ChangeHandler)
    /\ WF_vars(DoneHandler) /\ WF_vars(ConfigThread) /\ WF_vars(PdnsStarts)
    /\ WF_vars(UnconfiguredCall)

FairSpec == Spec /\ Fairness

-----------------------------------------------------------------------------
(* Properties *)

Quiet == phase = "idle"

\* The last transaction, or the process start, edited the configuration and met no fault.
Applied == Quiet /\ hist.edited /\ ~hist.faulty

\* Where the handler is, and what that says of the transaction and of its locals.
DoneSteps == {"done", "rename", "copy", "restart", "api", "create", "remove", "put", "returned"}

HandlerShape ==
    /\ pc # "none" <=> phase \in {"enabled", "tx"}
    /\ phase = "tx" => tx.id = nextId - 1
    /\ phase = "enabled" => tx = NoTx(running) /\ pc \in {"config"} \union DoneSteps
    /\ pc \in DoneSteps => tx.new = running
    /\ cfgPending # {} => phase = "tx" /\ pc \in DoneSteps

\* What any temporary file may hold: nothing yet for a request id still to come, nothing or
\* the new content for the transaction being handled, and the running configuration
\* for the one about to be renamed; once it is renamed, it is installed somewhere.
TmpFilesMatch ==
    /\ \A t \in TmpFiles : tmp[t] # None => t[2] < nextId
    /\ phase = "tx" => \A p \in Paths : tmp[<<p, tx.id>>] \in {None, Rendered(tx.new)}
    /\ phase = "enabled" /\ pc = "done" => tmp[tmpFile(0)] \in {None, Rendered(running)}
    /\ pc = "rename" => tmp[loc.fpath] \in {None, Rendered(running)}
    /\ pc = "copy" => \E p \in Paths : files[p] = Rendered(running)

HandlerInv == TypeOK /\ HandlerShape /\ TmpFilesMatch

\* A pdns.conf only ever changes to the configuration that is running at that moment:
\* never to one that was refused, aborted or superseded, whatever temporary files earlier
\* transactions, crashes and write errors left behind (rename in PdnsConfigCB::module_change).
InstallsRunning == [][\A p \in Paths : files'[p] # files[p] => files'[p] = Rendered(running)]_files

\* The startup datastore only changes to the running one, and only once its configuration
\* has been installed as some pdns.conf (the copy_config after the rename).
StartupInstalled ==
    [][startup' # startup =>
         startup' = running /\ \E p \in Paths : files[p] = Rendered(running)]_startup

\* After a configuration edit, or a process start, that met no fault, pdns.conf, the
\* startup datastore and a running PowerDNS agree with the running datastore, whatever
\* earlier transactions, refusals, crashes and half-done handlers left in memory or on disk.
HealedByNextEdit ==
    Applied =>
        /\ files[cfg.file] = Rendered(running)
        /\ startup = running
        /\ (cfg.restart /\ cfg.file = ServiceFile /\ pdns.up) => pdns.loaded = Rendered(running)

\* Between transactions the callback remembers nothing of the transactions before, and no
\* temporary file is left (in the absence of faults other than a veto).
CleanWhenIdle ==
    Quiet =>
        /\ ~pdnsConfigChanged /\ ~apiConfigChanged
        /\ zonesCreated = <<>> /\ zonesRemoved = <<>> /\ zonesModified = NoUpdates
        /\ \A t \in TmpFiles : tmp[t] = None

\* However slowly PowerDNS restarts, it ends up with the configuration that stays running.
LoadedEventually ==
    \A t \in Texts : Rendered(running) = t ~> pdns.loaded = t \/ Rendered(running) # t

\* With API calls and PowerDNS failing at any point, a zone appears in PowerDNS only while
\* the running datastore has it, and disappears only while it does not: queued creations
\* and removals never outlive their transaction (doneZoneAddAndDelete).
NeverAgainstRunning ==
    [][\A z \in Zones : (pdns.zones'[z] = Absent) # (pdns.zones[z] = Absent) =>
                          (pdns.zones'[z] = Absent) = (running.zones[z] = Absent)]_pdns

\* Every delivered event is handled to its end: no loop of the handler runs forever.
TxFinishes == phase \in {"enabled", "tx"} ~> phase \in {"idle", "down"}

\* How many steps of module_change an event still has ahead, and turns of the loop it is in.
StageOf ==
    [none |-> 0, returned |-> 1, put |-> 2, remove |-> 3, create |-> 4, api |-> 5, restart |-> 6, copy |-> 7,
     rename |-> 8, done |-> 9, verdict |-> 10, modify |-> 11, zones |-> 12, config |-> 13]

TurnsLeft ==
    IF pc = "create" THEN Len(zonesCreated) + 1 - loc.i
    ELSE IF pc = "remove" THEN Len(zonesRemoved) + 1 - loc.i
    ELSE IF pc = "put" THEN Cardinality(loc.todo) ELSE 0

Nearer ==
    \/ StageOf[pc'] < StageOf[pc]
    \/ pc' = pc /\ TurnsLeft' \in Nat /\ TurnsLeft' < TurnsLeft

NotBack ==
    /\ ChangeHandler \/ DoneHandler \/ Sysrepo => Nearer
    /\ pc # "none" => Nearer \/ (pc' = pc /\ TurnsLeft' = TurnsLeft)

\* What TxFinishes owes to no scheduling: a step of the handler, or of sysrepo for it, gets an
\* event nearer to its end, whatever fails, and a step of anything else does so too or leaves
\* it where it is. No step is repeated and no loop has more turns than its list had entries.
NeverBack == [][NotBack]_vars

\* What the documentation promises of every zone change that sysrepo accepted.
ZonesApplied == Quiet /\ pdns.up /\ ~hist.faulty => pdns.zones = running.zones

\* A pdns.conf is where the configuration says: "To know where to write the PowerDNS
\* configuration, pdns-sysrepo reads ..config-file", which "can be changed at runtime".
WrittenWhereConfigured == Applied => files[cfg.file] = Rendered(running)

\* PowerDNS, seen from the datastore: what it should have, and what it has.
Items == {"conf"} \union Zones
Mirror == INSTANCE PowerDnsMirror WITH
    wanted <- [x \in Items |-> IF x = "conf" THEN Rendered(running) ELSE running.zones[x]],
    actual <- [x \in Items |-> IF x = "conf" THEN pdns.loaded ELSE pdns.zones[x]]

\* PowerDNS follows the datastore: it is only ever changed towards the running datastore,
\* one configuration load or API call at a time, catches up completely with every committed
\* transaction before the next one, and does eventually catch up.
MirrorsRunning == Mirror!Spec
=============================================================================
