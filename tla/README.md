# Verification of pdns-sysrepo

TLA+ models of pdns-sysrepo, the daemon that connects the PowerDNS Authoritative
Server to the sysrepo datastore, with the TLC runs that check them and the TLAPS
proofs about them. Paths are relative to the repository (`src/src/...` is the
code, `src/documentation/...` its documentation). `PROJECT.json` maps every
definition to the lines it models and lists runs, mutants, hazards, findings and
theorems.

## 1. The system

pdns-sysrepo is one process. It has a main thread that starts everything and
then sleeps, threads of libsysrepo that call the subscribed callbacks, one
thread of its own that reports service restarts over D-Bus, and the four
threads of an HTTP server, the remote backend PowerDNS asks for its zones.

| Component | State it keeps | Operations | Talks to |
|---|---|---|---|
| Configuration callback, `PdnsConfigCB` (`pdns-config/`) | flags `pdnsConfigChanged`, `apiConfigChanged`; lists `zonesCreated`, `zonesModified`, `zonesRemoved`; the API client's configuration; `pdns.conf`, its temporary files and the startup datastore | `module_change` for ENABLED, CHANGE, DONE and ABORT | sysrepo, the disk, systemd over D-Bus, PowerDNS over HTTP; reads `Config` |
| Own settings, `Config` (`config/`) | path of `pdns.conf`, whether restarts are allowed | constructor, `module_change` in a thread of its own | sysrepo; read by the configuration callback |
| Configuration file, `PdnsServerConfig` | none (a rendering of the datastore) | render, write | sysrepo, the disk |
| Remote backend: ids (`domain-id.cc`) | `d_domainIds`, a bimap of names and ids | `getDomainID`, `getDomainFromId`, `getNewId` | called by most handlers |
| Remote backend: notifications | `d_notifiedMasters`, acknowledged serial per id | `getUpdatedMasters`, `setNotified`, `getAllDomains`, `getDomainInfo` | PowerDNS, sysrepo |
| Remote backend: transfers | `d_transactions`, `d_slaveFreshnessChecks`, `rrset-state` in the operational datastore | `startTransaction`, `feedRecord`, `commitTransaction`, `abortTransaction`, `getUnfreshSlaveInfos`, `setFresh` | PowerDNS, sysrepo |
| Remote backend: look-ups | none | `findBestZone`; `lookup`, `list`, `getDomainInfo`, `getDomainMetadata` | PowerDNS, sysrepo |
| Remote backend: rendering of records | none | a fed record to YANG nodes (`commitTransaction`), nodes to records (`getRecordsFromRRSetNode`) | sysrepo |
| Remote backend: server, HTTP and JSON helpers | the maps above | routing, parsing, formatting | PowerDNS |
| Operational zone data, `ZoneCB` | none | `oper_get_items` | PowerDNS's API, through the client it shares with the configuration callback |
| Process start and end, `main` | the subscriptions, the server, the signal flag `doExit`, what systemd was told | connect, subscribe, wait, sleep, exit | systemd, sysrepo, `Config` |
| Session wrapper, `iputils`, `util` | none | reading nodes, addresses, names of enumerations | |

What is hard about it:

* *Two-phase transactions.* A transaction is delivered as CHANGE, then DONE or
  ABORT, in several calls of one callback that share members of the object. A
  callback that refuses CHANGE gets no ABORT, and an error in DONE is ignored by
  sysrepo, so what a failed step leaves in the members meets the next transaction.
* *Crashes.* CHANGE writes a temporary file that DONE renames; DONE then copies
  running to startup, restarts PowerDNS and calls its API. The process, PowerDNS
  and the machine may stop between any two of these.
* *Two handlers of one event.* `Config` and the configuration callback are told
  of the same DONE in two threads.
* *Threads without locks.* The maps of the remote backend have none.
* *Messages.* PowerDNS gives requests up, sends them late and repeats polls; ids
  and transactions are lost with the process while PowerDNS keeps what it knew.
* *Stale reads.* Handlers work on trees they read before, and `findBestZone`
  reads the zones once for each ancestor of a name.

What makes the components correct:

* Configuration callback: only the running configuration is ever installed or
  made the startup configuration; a clean edit puts right what faults left;
  PowerDNS follows the datastore and is never changed against it; events end.
* Ids: one id per zone and one zone per id, in the table and for the clients.
* Notifications: every new serial is announced, and acknowledged ones are not
  announced again.
* Freshness: a slave counts as checked only since its own last confirmation, is
  not listed before its interval has passed, and is listed in every poll after.
* Transfers: a zone never has parts of a transfer, and every zone gets its data.
* Records: an answer has the records that were transferred, all of them, unchanged.
* Look-ups: the closest enclosing zone answers, and every request is answered.
* Operational zone data: at rest, what is shown are the zones of the datastore.
* Start and end: systemd hears READY only of a daemon that serves, every start ends
  in READY or in the end of the process, a signal ends it, and the settings `Config`
  hands out are the datastore's.

## 2. The modules

| Module | What it is |
|---|---|
| `PdnsConfigCB` | the configuration callback with its environment: sysrepo, `Config`, disk, systemd, PowerDNS |
| `PowerDnsMirror` | the promise of it: PowerDNS mirrors the datastore |
| `DomainIds` | `getDomainID` in any number of threads; used by `Notifications` (EXTENDS) |
| `IdAllocation` | the promise of it: a zone is given an id once, an id is given to one zone |
| `Notifications` | polls, acknowledgements, edits, PowerDNS, on top of `DomainIds` |
| `Freshness` | slave polls with their clock and 32-bit sums, confirmations, edits, on top of `DomainIds` |
| `ZoneTransfers` | slave polls and transactions in any number of threads, PowerDNS's transfers |
| `Records` | a transfer's records taken apart into YANG nodes and put together again |
| `Lookups` | `findBestZone` and the four handlers built on it, between edits |
| `ZoneState` | `ZoneCB` in its own thread, on top of `PdnsConfigCB`, whose API client it uses |
| `Startup` | `main`, `Config`'s callback in its thread, signals, systemd, restarts |
| `MC*` | instances for TLC |
| `*_proofs` | theorems and proofs |

### PdnsConfigCB

`running` and `startup` are the datastores, a record of the parts the code looks
at: `conf` (options and the API's address and key), `acls` (lists that
`pdns.conf` is rendered from but that lie outside pdns-server), `file` and
`restart` (`pdns-service`), and `zones`. `tx` is the transaction being
delivered; `phase` says what the process does and `pc` where `module_change` is.
`files` and `tmp` are the disk: a temporary file is named by path and request
id. `pdns` is PowerDNS: whether it is up, which file it loaded, its zones.
`cfg` and `cfgPending` are `Config` and the leaves its own DONE has yet to
assign. `loc` are the locals of the DONE handler.

| Code | Actions |
|---|---|
| `main`, `Config::Config`, ENABLED | `Start`, `ConfigWritten`, `ConfigWriteFails` |
| sysrepo delivers and decides | `Begin`, `Commit`, `Abort`, `Finish` |
| `changeConfigUpdate` | `ConfigUntouched`, `ConfigRefused`, `ConfigWritten`, `ConfigWriteFails` |
| `changeZoneAddAndDelete` | `NoZoneAddedOrDeleted`, `ZonesAddedOrDeleted`, `ZonesNotPossible` |
| `changeZoneModify` | `ZonesModified`, `ModifyNotPossible` |
| ABORT | `Abort` |
| DONE: rename, copy, restart, API | `Done`, `Rename(Fails)`, `CopyConfig(Fails)`, `restartService`, `configureApi(Fails)` |
| `doneZoneAddAndDelete` | `CreateZone`, `CreatedAll`, `RemoveZone`, `RemovedAll` |
| `doneZoneModify` | `PutZone`, `PutEscapes`, `PutAll` |
| `Config::module_change`, DONE | `ConfigDone`, `ConfigDoneFails` |
| systemd, faults, edits without the daemon | `PdnsStarts`, `PdnsStops`, `Crash`, `Reboot`, `EditOffline` |

`Faults` says what may go wrong in a run: `write`, `rename`, `copy`, `dbus`,
`api`, `client` (making the API client throws), `sysrepo` (reading changes throws), `veto` (another subscriber refuses),
`slow` (PowerDNS restarts only after `restartService` stopped waiting), `crash`,
`reboot`, `pdns` (PowerDNS stops), `offline` (edits while the daemon is down),
`early` (transactions while PowerDNS is down) and `unordered` (PowerDNS is
started before the daemon). `MaxFaults` bounds how many happen in a behaviour.
`hist` is history for the properties: whether the last transaction edited the
configuration, and whether a fault happened since. `client` is `d_apiClient`: a null
pointer until the first DONE makes one, then the address and key it was made with.

`ZoneState` adds the thread of `ZoneCB`. `oper` is the request it answers: the API key
it read before the call (`listZones`), and the address it calls (`callApi`), between
which `configureApi` may put another configuration in place.

### DomainIds, Notifications

`getDomainID` is three steps, `Find`, `New` and `Insert`, the accesses to the
table between which other threads run; the insertion leaves the table alone when
the bimap already has the name or the id. `told` is history: the pairs clients
got. In `Notifications`, `frame[t]` is the request a thread handles with the
tree it read; `NextZone`, `LookUp`, `List` and `Answer` are the loop of
`getUpdatedMasters` and `getAllDomains`. `inbox`, `patches` and `announced` are
PowerDNS's side: zones of an answer still to be notified, `setNotified` requests
under way (any of which may be lost or late), and what was announced. `Starts` are
the zones an instance begins with.

### Freshness

`checks` is `d_slaveFreshnessChecks`. A poll keeps in `frame[t]` the tree and the time
it read at its start (`tree`, `now`) and goes through the slaves, each with a call of
`getDomainID` and a look at `checks`; a zone without a type, and one that was deleted
since the tree was read, make it throw (`Fail`), so that nothing at all is listed.
`Passed` is the comparison of a `time_t` with the sum of two `uint32_t`; `Word` stands
for 2^32. PowerDNS asks the master of every zone in the answer (`Check`), which may
bring a transfer, and so another interval, and sends `setFresh`; `confirmed` is history,
the time of each zone's last confirmation, and `told` has every pair of a zone and an
id a handler worked with, listed or not. `Request`/`Replied` are other handlers that
ask for an id. PowerDNS polls from one thread.

### ZoneTransfers

`client[c]` is a thread of PowerDNS and the request it waits for, `frame[t]` a
thread of the HTTP server with the iterator it holds (`valid` is FALSE when
another thread erased the transaction). Handlers are split at their accesses to
the map: `startTransaction`/`InsertTransaction`, `feedRecord`/`Push`,
`commitTransaction`/`Apply`/`EraseCommitted`. `late` holds requests PowerDNS
gave up before a thread took them. PowerDNS names a transaction after the second
in which it starts; `second` and `SameSecond` model that. `TimeOut` gives up any request,
whatever else waits, only not in the second in which its own transfer started. `Ends` is
the end of the process, after which sysrepo drops the operational data.

Two transfers of one second share a name. The backend refuses the second while the
transaction of the first is open, but not after it was aborted, or lost in a restart, nor
while another thread is about to insert it; requests of the first that come later then work on
the transaction of the second. `crossed` is history: the names whose last
`startTransaction` was accepted while another transfer that had begun with the name still had
requests to come, or in a thread (`Crossing`). `mixed` is history, too: the zones last stored
by a commit of a crossed name. Such a zone may hold records of two transfers, or lack some, and
when its SOA record is there it stays so until its master has a newer version.

### Records

A record's content is the sequence of its fields. `commitTransaction` turns the records
of a transaction into entries, one per owner and type: a list of values, one value which
the next one overwrites, or nodes with a leaf per field (`Nodes`), and refuses what it
cannot store (`Refused`). The records are kept sorted by owner, type and TTL, so that the
greatest TTL of an RRset is the one that stays. `getRecordsFromRRSetNode` puts the fields
together again and `lookupRecords` selects the entries. Answers and lists are sets: the
order of records has no meaning. `list` reads `rrset` only, and so is not part of this.

### Startup

`main` is the step of the main thread, `at` where `Config`'s callback is; `settings`,
`failed`, `initialDone` and `skipDone` are the members of `Config`. `Read*`, `ReadAll`,
`ReadFails`/`ReadFailed` are ENABLED, `SkipDone` the DONE that belongs to it, `Assign*`
the DONE of an edit, leaf by leaf (`pending`). `Wait`, `Finished`/`NotFinished` and
`NotFailed`/`HasFailed` are what `main` does meanwhile. `Unwind` leaves the scope of
`main`, by an exception, at the end, or with the process. `CallbackEnabled` and
`CallbackDone` stand for the configuration callback, of which only the path it gets from
`Config` matters here; `PdnsConfigCB` has the rest. `tmp` and `installed` are the paths it
used, `calm` and `missed` history.

### Lookups

Names are sequences of labels. `labels` is the vector `boost::split` makes and
the loop of `findBestZone` shortens; every turn is one query, `Find`, `Miss` or
`QueryFails`, and `NoZone` the exception at the end. The
handler reads the zone in a further step. `Edit` replaces the set of zones by
any other between any two steps; `throughout` (the zones that stayed) and `failed`
(a query of the request threw) are history.

### Abstractions

* One access to a map is atomic. The maps have no lock, so two accesses at once
  are undefined in C++; of that, the models keep the orders the accesses can
  happen in, and for an erased iterator the end of the process or no effect.
* Texts, addresses, records and formatting are model values. What `pdns.conf`
  says is the pair of `conf` and `acls` it was rendered from.
* In `ZoneTransfers` each zone has `Records` records of one kind, and all zones are
  slaves; a refresh interval passes at any time. When it passes is the subject of
  `Freshness`, what becomes of each record that of `Records`.
* `Freshness` leaves out the restart of the backend, after which PowerDNS's ids are
  stale (`Notifications` has it), and the other requests of PowerDNS but one.
* `Startup` takes the subscription of the zone state callback to last until `main` ends.
  The variable that holds it is local to the block in which it is made
  (`src/src/pdns-sysrepo.cc:139`), but `end-to-end-tests/test_01-initial.py:39` reads
  zone states from the running daemon, so the subscription outlives the variable.
* A signal that comes between `main`'s test of `doExit` and its `sleep(500)` is noticed
  when the sleep is over: `StopEnds` holds because the sleep has an end.
* `documentation/index.rst:12` says PowerDNS is started only after the daemon has started
  up. The unit file orders the two (`Before=`) and `READY` is sent last, which
  `ReadyMeansServing` is about; `unordered` is the start without that order.
* PowerDNS, sysrepo and systemd are external. Assumed of them: sysrepo sends no
  ABORT to the subscriber that refused, delivers transactions one at a time and
  gives every transaction a request id of its own (`IdsRestart` = FALSE in all
  runs); systemd holds PowerDNS back until the daemon is up unless
  `unordered` is a fault; PowerDNS aborts a transaction when a record is refused,
  may or may not abort one whose commit was not answered, and does not give a request up
  in the second in which its transfer started, so that a transfer that starts after it gave
  one up has another name. A transfer of that second that is waiting to start has the same
  name, and may take it over.
* Operators marked *Seeded fault* are no part of any specification: they are the
  mutated forms `PROJECT.json` puts in place of a definition to show that a
  property depends on the code.

## 3. The runs

Every run that passes explores all reachable states of its instance.

| Run | Checks | Instance |
|---|---|---|
| `ConfigFaults` | `HandlerInv`, `HealedByNextEdit`, `InstallsRunning`, `StartupInstalled`: only the running configuration is installed or copied to startup, and a clean edit or start heals everything | two transactions of configuration, ACLs or service settings, with and without an API, two paths, every fault but failing zone calls, two at most |
| `ZoneFaults` | `NeverAgainstRunning`: a zone appears in PowerDNS only while the datastore has it and disappears only while it does not; `NeverBack`: no step of an event leads back, and no loop has more turns than entries; `TxFinishes`: every event is handled to its end; `LoadedEventually`: however slowly it restarts, PowerDNS ends up with the running configuration | one zone, two API addresses, three transactions that edit the configuration or zones, failing API calls, slow restarts, PowerDNS stopping, transactions while it is down, crashes, vetoes, three faults at most |
| `Mirror` | `MirrorsRunning` (refinement of `PowerDnsMirror`, with its fairness), `CleanWhenIdle`; `ShowsRunning`: unless a committed transaction is being applied, the zones `ZoneCB` shows are the running ones | two zones, two API addresses, three transactions that touch at most one zone each, vetoes, no fault, one request for the zone states at a time |
| `Startup` | `SettingsKnown`, `ReadyMeansServing`, `SettingsCurrent`: `main` goes on with complete settings only, READY means that all is in place, `Config` keeps up with the datastore; `StartEnds`, `StopEnds` | two values per setting, two turns of the wait, two signals, one fault, any edits, with and without rrset-management |
| `Notify` | `NoMissedNotify`: a master is kept from PowerDNS only when it was announced with that very serial; `MastersNotified`, `NotificationsCease`: settled masters are announced and then no longer listed | one thread, two zones that may start broken or with a serial that goes down, one edit, one request for domains, one fault, a serial `std::stoi` does not convert |
| `Freshness` | `OwnChecks`: no zone counts as checked by another's confirmation; `LeftAlone`: none with data is listed before its interval has passed; `DueListed`: a poll lists every zone that is due; `IdsInv`, `TableAllocates` (refinement of `IdAllocation` by the table) | two threads, two zones, three seconds, one other request, edit or lost confirmation, intervals of 1 and of 6 with `Word` = 8, so that one always fits and the end of the other does not |
| `TransferNames` | `WholeZones`: a zone is empty or one whole version, unless it was stored under a crossed name | one thread, two clients, transfers of the same second, two versions, one fault |
| `TransferThreads` | `WholeZones`; `SlavesTransferred`: a zone gets and keeps the version its master settles on | two threads, one client, transfers of different seconds (no crossed names), two versions, one fault |
| `Lookups` | `BestZone`: no request is answered from a zone farther up than one that stayed, and none is refused that has such a zone, unless one of its queries failed; `RequestsEnd`; `AnswersTransferred`: whatever is asked, the answer has the records of the last transfer that was applied, and all of them | a chain of three names, a wildcard, a name outside; any edit between any steps. Beside it one zone and six transfers, with every type of record, a name with two CNAMEs, an RRset of two TTLs, and three transfers that cannot be stored |

The bounds are small because the behaviours are. Two transactions are enough for
what one leaves behind to meet the next, a third for a list filled by the first
and kept by the second. Two paths and two temporary files distinguish the file
that is renamed from the one that is not; two configurations a new text from an
old one. Two threads are the fewest that race; the theorems about ids,
notifications, freshness and transfers hold for any number, and `Notify`, with one, is there
for the liveness properties. Transfers of one name meet in `TransferNames`, where a request
that was given up is handled in any later state; two threads, and with them erased iterators, in
`TransferThreads`, where one client is enough because transfers of different names share
nothing but the zone of a request that was given up. Both together are the subject of the
theorem. One fault in a transfer or poll already leaves
each handler at each of its steps; in `ConfigFaults` and `ZoneFaults` a second one
can hit the recovery. Serials up to 2 let a serial rise, fall, and return
to the one acknowledged. Three seconds are the fewest in which a zone is confirmed,
left alone once and due again.

No run has the deadlock check turned off: threads may always take a request, and
the main loop's sleep is a step (`MainLoop`).

### Fairness

* `PdnsConfigCB`: weak fairness of `Start` (the operator or systemd starts the
  daemon again), of sysrepo's deliveries, of the handlers (they do not wait for
  anything but bounded calls) and of `PdnsStarts` (systemd restarts PowerDNS).
  Transactions and faults need not happen.
* `Notifications`: weak fairness of a thread's steps and of `Notify`; strong
  fairness of `getUpdatedMasters` and `setNotified`. PowerDNS polls every
  `slave-cycle-interval` and its requests wait in a connection, which the server
  takes up in turn, so a request cannot be overtaken for ever although a thread is
  not idle all the time.
* `ZoneTransfers`: weak fairness of a thread's steps and of time, strong fairness
  of taking up a client's request and of polling, for the same reason.
* `Lookups`: weak fairness of the thread that handles the request.
* `Startup`: weak fairness of the main thread, whose calls all return. `Config`'s callback
  gets none: the point of the ten seconds is that `main` does not rely on it. Sysrepo
  commits nothing while a subscription delivers ENABLED.
* `Freshness` has no liveness property; `DueListed` says which zones are in the answer of
  a poll, and `ZoneTransfers` that polls lead to transfers.

### Where the code disagrees with what is said of it

Each of these runs checks one statement of a document or test and ends with a
counterexample; `PROJECT.json` quotes the statements.

| Run | What happens |
|---|---|
| `ConfigFileChange` | one transaction changes the path and the configuration: `Config`'s thread changes the path while the callback's DONE uses it, and the file is missing where the configuration says |
| `RefusedEditLeaks` | a CHANGE refused after the file was written leaves the flag set; the next transaction fails at the rename and does not apply its zones |
| `IdsRace` | two first requests for two zones are told the same id |

The limits of the passing runs are where the code stops keeping a promise. TLC
shows each with the change named, and the hazards in `PROJECT.json` list them.

* `ZoneFaults` with transactions that edit the configuration *and* zones, or with
  failing reads (`"sysrepo"`): a CHANGE refused after zones were queued, or after
  the file was written, leaves lists and flags to the next transaction, which then
  creates a zone the datastore no longer has. So does a rename that fails when both
  were edited.
* `Mirror` with `MaxZonesPerTx = 2`: settings of several zones changed at once are
  all sent to the first zone of the diff.
* `TransferNames` without the exception for `mixed` zones in `WholeZones`: a start that had
  waited since the same second takes over the name of a transfer that was aborted or lost, or
  (with two threads) both look the name up before either inserts it, and records of
  one zone are stored in the other.
* `NotificationsCease` is stated up to `MaxInt`: a serial above 2147483647 is never
  recorded, and the zone is listed for ever. `MastersNotified` leaves out serial 0,
  which reads as acknowledged.
* `BestZone` speaks of requests none of whose queries failed: a query that throws is
  taken for a zone that is not there, and the parent answers.
* `NoMissedNotify` and the liveness properties of `Notifications` speak of the times
  at which an id means one zone. `IdsRace`, or ids PowerDNS kept from before a
  restart of the backend, end that.
* `ConfigFaults` with `IdsRestart = TRUE`: a file a crash left behind has the name of
  a new one and may be installed in its place.

## 4. What is proved

TLAPS proves the following for all values of the constants the modules' ASSUMEs
allow, not only the instances of the runs.

* `PdnsConfigCB_proofs`
  * `TypeCorrect`: `Spec => []TypeOK`, by a step per action.
  * `HandlerInvariant`: `Spec => []HandlerInv`. `HandlerInv` is inductive: `TypeOK`,
    `HandlerShape` (which phase a `pc` belongs to, and that the transaction is the
    running content once DONE runs) and `TmpFilesMatch`. The last is what the
    renaming needs: a temporary file with a request id still to come does not
    exist, one with the current id holds nothing or the new content. It is not
    enough to speak of the file being renamed, since whatever earlier transactions
    left stays on disk for ever.
  * `InstallsOnlyRunning` and `StartupOnlyInstalled`: the action properties
    `InstallsRunning` and `StartupInstalled`, each from `HandlerInv` and one lemma
    on the step that changes `files` or `startup`.

  * `CleanEditHeals`: `Spec => []HealedByNextEdit`, assuming that no transaction edits the
    service settings beside the configuration (`SettingsApart`; what such a transaction
    does is `ConfigFileChange`). `Prepared` says what the handler has ready when a
    transaction is committed, `Healing` how far its DONE has put things right at each `pc`.
    Nothing in them speaks of what failed earlier: each step of a clean edit overwrites it.
  * `WrittenInPlace`, from the same: `Spec => []WrittenWhereConfigured`, the statement that
    `ConfigFileChange` refutes, so that the transactions `SettingsApart` excludes are the
    only ones that break it.
  * `HandlerNeverBack`: `Spec => NeverBack`. An event has a rank, the steps of
    `module_change` still ahead (`StageOf`) and then the turns of the loop it is in
    (`TurnsLeft`, a number because the zones to put are finitely many). Every step of the
    handler, and of sysrepo for it, lowers the rank, and no other step of the system raises it.
    This is the part of `TxFinishes` that does not need fairness: no failure makes a loop
    start again, and nothing beside the handler can keep it going for ever.

  All but `TypeCorrect` and `HandlerNeverBack` assume that request ids are not reused
  (`~IdsRestart`). With reused ids a leaked file could have the name of a new one.
* `PdnsConfigZones_proofs`
  * `ZonesFollowRunning`: `Spec => NeverAgainstRunning`, whatever fails of API calls,
    PowerDNS, restarts, the other subscribers and the process. It assumes what the run
    `ZoneFaults` has: transactions edit the configuration or the zones (`ZonesApart`), and
    none of the faults happens that leave flags or lists behind (`NothingLeaks`;
    what they do is `RefusedEditLeaks`). The property is about the lists: an entry is acted
    upon in a later step than it was made in. `FlagsOwn` and `ListsOwn` say that flags and
    lists are those of the transaction being handled, `OneSubject` that it has only one of
    the two.
  * `CleanInCalm`, `AcceptedZonesApplied` and `MirrorsStepwise`: `CleanWhenIdle`,
    `ZonesApplied` (the statement `RefusedEditLeaks` refutes), and the refinement of
    `PowerDnsMirror` but for its fairness: its initial states, and each step a step of it
    or none. They assume `Calm`, in which nothing fails but other subscribers veto, and
    that each transaction creates and removes any zones, or changes the settings of one
    zone and touches no other (`OneModified`: the settings of several are all sent to one
    of them). `FewZonesInCalm` has all of it without that assumption where transactions touch
    at most one zone each, as in the run `Mirror` (`FewZonesOneModified`).
    `MirrorInv` adds to `HandlerInv` one part per thing that must agree when the next
    transaction is committed: the settings (`Steady`), the files (`OnDisk`), the flags
    (`FlagsCalm`), PowerDNS's configuration and the API client (`InPowerDns`), and the
    lists (`Queued`). The last is the core: from the index a loop has reached, its list has
    exactly the zones that PowerDNS still lacks (`Creates`) or still has (`Removes`), each
    once, and every zone that differs in its settings has an update that turns what PowerDNS
    has into what it should have (`Corrections`, and `Pending` once the loop over them runs).
  * `AnswersShowRunning`: `StateSpec` with the same assumptions implies `[]ShowsRunning`.
    `OperInv` relates the request `ZoneCB` has under way to the callback beside it: as long as
    no transaction was in DONE since the request began, none is now, the key it read is the
    running one, and so are the zones it was answered with. `SettledMirrors` gets from
    `MirrorInv` that the API can be reached then, `SettledStays` that running has not changed.
* `DomainIds_proofs`
  * `IdsCorrect`: the table is a bijection onto 1..n. Its invariant adds that the
    highest id exists, which the choice of the next one needs.
  * `TableImplements`: the table refines `IdAllocation`. This is about the table: what clients are told
    may differ from it, with two threads (`IdsRace`). What holds of the answers
    all the same is in the next two modules.
* `Notifications_proofs`, `NotificationsCorrect`: `NotifSpec => []NoMissedNotify`,
  for any threads, edits and faults, without an assumption. `NoMissedNotify` has one
  inside (`OneMeaning`: an id means one zone), so the invariant, `Traced`, says
  nothing of the datastore: every entry listed, request under way and recorded serial goes
  back to a pair that clients were told and to an announcement.
* `Freshness_proofs`: `ChecksAreOwn`, `NoneListedEarly`, `AllDueListed`, `FreshIds` and
  `FreshTable` (the refinement of `IdAllocation` by the table), for any threads, zones,
  intervals, requests, edits and losses. The first three are about properties that have an
  assumption inside (`Agreed`: what handlers worked with is what the table says). An
  invariant that is to be used by steps while it holds must not be regained after it was
  lost, and `AllSettled` says why it is not: a pair that was told is in the table or never
  will be, since its zone or its id is taken (lemma `AgreedBefore`). `Traced` says
  that whatever PowerDNS and the backend hold goes back to such pairs, and `Past` that a
  poll knows only confirmations handled before it; `FreshInv` is these and the properties.
* `ZoneTransfers_proofs`, `TransfersWhole`: `Spec => []WholeZones`, for any zones, clients,
  threads, names, versions and faults, without an assumption. `TransferInv` has these parts
  beside the types. `Owned` is the core: a transfer that feeds or commits under a name that is not crossed
  has it to itself, no other that has begun with the name, no request of one that was
  given up, and no thread but the one at work for it. It is what makes late requests and erased
  iterators harmless; `Crossing` is what would break it when a start is accepted. `Sealed`: once a commit was given up,
  nothing is added to its transaction any more, so that whenever it is handled it commits what was
  whole then. `Contents`: a transaction has what its transfer has fed so far, and what
  is about to be stored is whole. `Sent` and `Beginning` say what requests carry and what a
  start that was accepted finds, `Attended` which client a thread works for. `Unmixed` ties
  `mixed` to what is stored. When transfers start in different seconds, `Distinct` (no two of
  them have the same name) excludes `Crossing`, and with it mixed zones.
* `Startup_proofs`: `MainKnowsSettings`, `ReadyServes` and `ConfigCurrent`, for any values,
  edits, signals, faults and time to wait. `StartInv` adds to the properties what
  `Config`'s callback has done by the step it is at (`ThreadShape`) and which leaves of the
  datastore it knows (`LeavesKnown`), what each step of `main` leaves behind until its scope
  ends (`StepsDone`), and that a calm start uses one path (`OnePath`).
* `Lookups_proofs`, `ClosestZone`: `Spec => []BestZone`. The invariant `Asked` says
  which ancestors the loop has passed, and that none of them stayed unless a query
  failed. The lemmas before it say what the operators on labels do for names of any length
  (`Candidates`: the loop's labels, joined, are the ancestors of the name, in order).
* `Lookups_proofs`, `AnswersWhole`: `RecSpec => []AnswersTransferred`, for any transfers with
  any number of records of the types the code knows. The invariant `RecInv` is short, what is stored is
  what the last accepted transfer renders to; the work is in what rendering and reading back
  do to it. `FieldsKept`: taking a record's fields apart and putting them together again
  gives the same content. `EntryTells`: an entry tells all records of its owner and type.
  `LastOne`: the TTL of an entry is the greatest of its records, since the records are sorted
  by it and the last one stays; that there is a last one comes from the least of a set
  of finite sets (`SmallestSet`, by the well-founded order of strict subsets).

Only model-checked: liveness (`LoadedEventually`, `TxFinishes`, `MastersNotified`,
`NotificationsCease`, `SlavesTransferred`, `RequestsEnd`, `StartEnds`, `StopEnds`, and the
fairness of `PowerDnsMirror` in `MirrorsRunning`), which is outside what TLAPS's installed
backends do. Every other property of a passing run is a theorem.

## 5. What is not modelled

* The text of `pdns.conf`, HTTP routing, JSON, logging, addresses and names of
  enumerations: conversions without state. Of answers, the ids, serials and records are
  modelled, masters and metadata are not.
* What a stale id records after a restart of the backend (`NoMissedNotify` speaks of the
  times at which ids mean one zone).
* The command line of the daemon, and the log level it sets.
* Truncated writes, and memory errors inside libraries.
* The vendored libraries under `src/subprojects/` (JSON, logging, HTTP, the API client
  generated from PowerDNS's OpenAPI description), of which only what the daemon's calls do
  is modelled.

The list of hazards in `PROJECT.json` says for each which property covers it, or
why none does.

## 6. Plan

Done, in this order: `PdnsConfigCB` with `PowerDnsMirror`; `DomainIds` with
`IdAllocation`; `Notifications`; `ZoneTransfers`; `Lookups`; `ZoneState`; `Startup`;
`Freshness`; `Records`; and proofs about all of them.

Next modules: zones of mixed types, edited during transfers, in `ZoneTransfers`.

Next theorems: `NeverAgainstRunning` for transactions that edit the configuration beside
zones, as far as flags and lists stay their own; ranks, like that of
`HandlerNeverBack`, for the loops of the remote backend (a poll, a look-up) and for `main`'s
wait; and the table of `Notifications` across restarts of the backend.
