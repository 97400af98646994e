----------------------------- MODULE ZoneTransfers -----------------------------
(***************************************************************************)
(* How slave zones get their data.  PowerDNS polls getUnfreshSlaveInfos,   *)
(* transfers a zone from its master and stores it through the remote       *)
(* backend: startTransaction, feedRecord for each record,                  *)
(* commitTransaction, setFresh.  The backend keeps the open transactions   *)
(* in a map without a lock and the data in the operational datastore,      *)
(* which sysrepo discards when the backend ends.                           *)
(*                                                                         *)
(* PowerDNS names a transaction after the second in which it starts, so    *)
(* two transfers may choose the same name.  It gives up a request that     *)
(* takes long; the request is handled all the same, now or later.          *)
(* The configuration, in which all zones are slaves, does not change.      *)
(***************************************************************************)
EXTENDS Integers, FiniteSets, Functions

CONSTANTS
    Zones,          \* slave zones
    Clients,        \* threads of PowerDNS that transfer zones
    Threads,        \* threads of the HTTP server
    Nobody,         \* no client: it gave up
    NoZone,         \* no zone
    TxIds,          \* names of transactions
    SameSecond,     \* two transfers may start in the same second
    Records,        \* the number of records of a zone (bound of the model)
    MaxVersion,     \* versions of a zone at its master (bound of the model)
    MaxFaults       \* requests given up, failing commits, restarts (bound of the model)

ASSUME TransferAssumption ==
    /\ Nobody \notin Clients /\ NoZone \notin Zones /\ IsFiniteSet(Zones)
    /\ TxIds \subseteq Nat \ {0} /\ SameSecond \in BOOLEAN
    /\ Records \in Nat \ {0} /\ MaxVersion \in Nat \ {0} /\ MaxFaults \in Nat

VARIABLES
    domainIds,      \* d_domainIds
    fresh,          \* the ids in d_slaveFreshnessChecks whose refresh interval has not passed
    txs,            \* d_transactions: a function from names to zones and records
    state,          \* rrset-state of the zones in the operational datastore
    frame,          \* per thread, the request it handles
    late,           \* requests that PowerDNS gave up before a thread took them
    client,         \* per client, its transfer and the request it waits for
    serial,         \* the version each master has
    second,         \* the name that starts in this second get, 0 when none has started
    faults,         \* number of faults so far
    crossed,        \* history: names whose last transaction began while another transfer of
                    \* the name still had requests to come
    mixed           \* history: zones last stored under a crossed name

vars == <<domainIds, fresh, txs, state, frame, late, client, serial, second, faults, crossed, mixed>>

history == <<crossed, mixed>>

Data        == Zones \X (1..MaxVersion) \X (1..Records)
Full(z, v)  == {<<z, v, i>> : i \in 1..Records}

NoTransfer  == [pc |-> "idle", zone |-> NoZone, id |-> 0, tx |-> 0, version |-> 0, fed |-> 0]
Transfers   == [pc : {"idle", "start", "feed", "commit", "fresh", "abort"},
                zone : Zones \union {NoZone}, id : Nat, tx : TxIds \union {0},
                version : 0..MaxVersion, fed : 0..Records]

NoFrame     == [op |-> "idle", for |-> Nobody, zone |-> NoZone, tx |-> 0, data |-> {}, valid |-> TRUE]
Frames      == [op : {"idle", "start", "feed", "commit", "erase"}, for : Clients \union {Nobody},
                zone : Zones \union {NoZone}, tx : TxIds \union {0}, data : SUBSET Data,
                valid : BOOLEAN]

TypeOK ==
    /\ domainIds \in [Zones -> Nat]
    /\ fresh \subseteq Nat
    /\ DOMAIN txs \subseteq TxIds
    /\ \A x \in DOMAIN txs : txs[x] \in [zone : Zones, data : SUBSET Data]
    /\ state \in [Zones -> SUBSET Data]
    /\ frame \in [Threads -> Frames]
    /\ late \subseteq Transfers
    /\ client \in [Clients -> Transfers]
    /\ serial \in [Zones -> 1..MaxVersion]
    /\ second \in TxIds \union {0}
    /\ faults \in 0..MaxFaults
    /\ crossed \subseteq TxIds /\ mixed \subseteq Zones

Init ==
    /\ domainIds = [z \in Zones |-> 0]
    /\ fresh = {}
    /\ txs = <<>>
    /\ state = [z \in Zones |-> {}]
    /\ frame = [t \in Threads |-> NoFrame]
    /\ late = {}
    /\ client = [c \in Clients |-> NoTransfer]
    /\ serial = [z \in Zones |-> 1]
    /\ second = 0
    /\ faults = 0
    /\ crossed = {} /\ mixed = {}

-----------------------------------------------------------------------------
(* PowerDNS *)

Taken(c) == \E t \in Threads : frame[t].for = c

\* What a client does after an answer: it feeds all records, commits and marks the zone
\* fresh. It aborts a transaction when a record is refused.
Answered(w, ok) ==
    CASE w.pc = "start"  /\ ok  -> [w EXCEPT !.pc = "feed"]
      [] w.pc = "feed"   /\ ok  -> [w EXCEPT !.fed = @ + 1, !.pc = IF w.fed + 1 = Records THEN "commit" ELSE @]
      [] w.pc = "commit" /\ ok  -> [w EXCEPT !.pc = "fresh"]
      [] w.pc = "feed"   /\ ~ok -> [w EXCEPT !.pc = "abort"]
      [] OTHER -> NoTransfer

Reply(c, ok) ==
    client' = IF c = Nobody THEN client ELSE [client EXCEPT ![c] = Answered(@, ok)]

\* What it does when there is no answer. Whether an unanswered commit is aborted is open.
GivesUp(w, abort) ==
    IF w.pc = "commit" /\ abort THEN [w EXCEPT !.pc = "abort"] ELSE Answered(w, FALSE)

NamesInUse ==
    DOMAIN txs \union {r.tx : r \in late} \union {client[c].tx : c \in Clients}
    \union {frame[t].tx : t \in Threads}

\* The name for a transfer that starts now: that of the second.
NewName(x) ==
    /\ IF second # 0 THEN x = second
       ELSE x \in TxIds \ NamesInUse /\ \A y \in TxIds \ NamesInUse : x <= y
    /\ second' = IF SameSecond THEN x ELSE 0

\* A second passes.
Tick ==
    /\ second # 0 /\ second' = 0
    /\ UNCHANGED <<domainIds, fresh, txs, state, frame, late, client, serial, faults, history>>

\* The master of a zone has a new version; a refresh interval passes.
Update(z) ==
    /\ serial[z] < MaxVersion
    /\ serial' = [serial EXCEPT ![z] = @ + 1]
    /\ UNCHANGED <<domainIds, fresh, txs, state, frame, late, client, second, faults, history>>

Elapse(i) ==
    /\ fresh' = fresh \ {i}
    /\ UNCHANGED <<domainIds, txs, state, frame, late, client, serial, second, faults, history>>

-----------------------------------------------------------------------------
(* getUnfreshSlaveInfos *)

\* Every slave zone gets an id, in the order of the tree.
Assigned ==
    {ids \in [Zones -> 1..Cardinality(Zones)] :
        IsInjective(ids) /\ \A z \in Zones : domainIds[z] # 0 => ids[z] = domainIds[z]}

\* The serial in the SOA record of a zone, its first record, if it has one.
SOASerial(z) == {v \in 1..MaxVersion : <<z, v, 1>> \in state[z]}

\* Seeded fault: a zone without an SOA record is not listed.
ListedWithData(z, id) == SOASerial(z) # {} /\ id \notin fresh

\* A zone without an SOA record is always listed.
Listed(z, id) == SOASerial(z) = {} \/ id \notin fresh

\* The client finds the zone in the answer and compares its serial with the master's.
Poll(c, z) ==
    /\ client[c].pc = "idle"
    /\ \A d \in Clients : client[d].zone # z
    /\ \E t \in Threads : frame[t].op = "idle"
    /\ domainIds' \in Assigned
    /\ Listed(z, domainIds'[z])
    /\ IF serial[z] \in SOASerial(z)
       THEN /\ client' = [client EXCEPT ![c] =
                            [NoTransfer EXCEPT !.pc = "fresh", !.zone = z, !.id = domainIds'[z]]]
            /\ UNCHANGED second
       ELSE \E x \in TxIds :
              /\ NewName(x)
              /\ client' = [client EXCEPT ![c] =
                              [NoTransfer EXCEPT !.pc = "start", !.zone = z, !.id = domainIds'[z],
                                                 !.tx = x, !.version = serial[z]]]
    /\ UNCHANGED <<fresh, txs, state, frame, late, serial, faults, history>>

\* All zones are fresh.
PollNothing ==
    /\ \E t \in Threads : frame[t].op = "idle"
    /\ domainIds' \in Assigned
    /\ \A z \in Zones : ~Listed(z, domainIds'[z])
    /\ UNCHANGED <<fresh, txs, state, frame, late, client, serial, second, faults, history>>

-----------------------------------------------------------------------------
(* Transactions *)

\* An idle thread takes the request r of client c, or one that was given up.
Takes(t, c, r, op) ==
    /\ frame[t].op = "idle"
    /\ r.pc = op
    /\ \/ c \in Clients /\ r = client[c] /\ ~Taken(c) /\ UNCHANGED late
       \/ c = Nobody /\ r \in late /\ late' = late \ {r}
    /\ UNCHANGED <<domainIds, serial, second, faults, mixed>>

Enter(t, op, c, r, zone, data) ==
    frame' = [frame EXCEPT ![t] = [op |-> op, for |-> c, zone |-> zone, tx |-> r.tx, data |-> data,
                                   valid |-> TRUE]]

Leave(t, ok) ==
    /\ Reply(frame[t].for, ok)
    /\ frame' = [frame EXCEPT ![t] = NoFrame]

\* Seeded fault: the name is not looked up.
MayStartById(r) == domainIds[r.zone] = r.id

\* The id must be that of the zone, and the name unused.
MayStart(r) == domainIds[r.zone] = r.id /\ r.tx \notin DOMAIN txs

\* Another transfer has begun with the name and has a request to come, or one that a thread
\* works on, and its transaction is not open: an open one is found and the name refused.
Crossing(x) ==
    /\ x \notin DOMAIN txs
    /\ \/ \E r \in late : r.tx = x /\ r.pc \in {"feed", "commit", "abort"}
       \/ \E c \in Clients : client[c].tx = x /\ client[c].pc \in {"feed", "commit", "abort"}
       \/ \E t \in Threads : frame[t].tx = x

startTransaction(t, c, r) ==
    /\ Takes(t, c, r, "start")
    /\ IF MayStart(r)
       THEN /\ Enter(t, "start", c, r, r.zone, {}) /\ UNCHANGED client
            /\ crossed' = IF Crossing(r.tx) THEN crossed \union {r.tx} ELSE crossed \ {r.tx}
       ELSE Reply(c, FALSE) /\ UNCHANGED <<frame, crossed>>
    /\ UNCHANGED <<fresh, txs, state>>

\* An insertion into the map leaves an entry that is there alone.
InsertTransaction(t) ==
    /\ frame[t].op = "start"
    /\ LET x == frame[t].tx
       IN  txs' = [y \in DOMAIN txs \union {x} |->
                     IF y \in DOMAIN txs THEN txs[y] ELSE [zone |-> frame[t].zone, data |-> {}]]
    /\ Leave(t, TRUE)
    /\ UNCHANGED <<domainIds, fresh, state, late, serial, second, faults, history>>

feedRecord(t, c, r) ==
    /\ Takes(t, c, r, "feed")
    /\ IF r.tx \in DOMAIN txs
       THEN Enter(t, "feed", c, r, r.zone, {<<r.zone, r.version, r.fed + 1>>}) /\ UNCHANGED client
       ELSE Reply(c, FALSE) /\ UNCHANGED frame
    /\ UNCHANGED <<fresh, txs, state, crossed>>

\* Erasing a transaction invalidates the iterators the other threads hold.
Erase(t, x, next) ==
    /\ txs' = [y \in DOMAIN txs \ {x} |-> txs[y]]
    /\ frame' = [u \in Threads |->
                   IF u = t THEN next
                   ELSE IF frame[u].tx = x THEN [frame[u] EXCEPT !.valid = FALSE] ELSE frame[u]]

\* The process ends: the map, the ids and the operational datastore are gone, and so are
\* the requests it was sent.
Ends ==
    /\ domainIds' = [z \in Zones |-> 0]
    /\ fresh' = {}
    /\ txs' = <<>>
    /\ state' = [z \in Zones |-> {}]
    /\ frame' = [t \in Threads |-> NoFrame]
    /\ late' = {}
    /\ mixed' = {}
    /\ \E abort \in BOOLEAN :
         client' = [c \in Clients |-> IF Taken(c) THEN GivesUp(client[c], abort) ELSE client[c]]
    /\ UNCHANGED <<second, crossed>>

\* An access through an invalid iterator ends the process, or nothing comes of it.
Undefined(t) ==
    /\ ~frame[t].valid
    /\ \/ Ends
       \/ Leave(t, TRUE) /\ UNCHANGED <<domainIds, fresh, txs, state, late, second, history>>

Push(t) ==
    /\ frame[t].op = "feed"
    /\ \/ /\ frame[t].valid
          /\ txs' = [txs EXCEPT ![frame[t].tx].data = @ \union frame[t].data]
          /\ Leave(t, TRUE)
          /\ UNCHANGED <<domainIds, fresh, state, late, second, history>>
       \/ Undefined(t)
    /\ UNCHANGED <<serial, faults>>

\* The records are copied when the transaction is found.
commitTransaction(t, c, r) ==
    /\ Takes(t, c, r, "commit")
    /\ IF r.tx \in DOMAIN txs
       THEN Enter(t, "commit", c, r, txs[r.tx].zone, txs[r.tx].data) /\ UNCHANGED client
       ELSE Reply(c, FALSE) /\ UNCHANGED frame
    /\ UNCHANGED <<fresh, txs, state, crossed>>

\* Seeded fault: the records of the zone are not deleted before the new ones are set.
StoredOnTop(z, data) == state[z] \union data

\* One edit deletes the records of the zone and sets the new ones.
Stored(z, data) == data

Apply(t) ==
    /\ frame[t].op = "commit"
    /\ state' = [state EXCEPT ![frame[t].zone] = Stored(frame[t].zone, frame[t].data)]
    /\ mixed' = IF frame[t].tx \in crossed THEN mixed \union {frame[t].zone} ELSE mixed \ {frame[t].zone}
    /\ frame' = [frame EXCEPT ![t].op = "erase"]
    /\ UNCHANGED <<domainIds, fresh, txs, late, client, serial, second, faults, crossed>>

\* sysrepo refuses the edit; the transaction stays open.
ApplyFails(t) ==
    /\ frame[t].op = "commit"
    /\ faults < MaxFaults /\ faults' = faults + 1
    /\ Leave(t, FALSE)
    /\ UNCHANGED <<domainIds, fresh, txs, state, late, serial, second, history>>

EraseCommitted(t) ==
    /\ frame[t].op = "erase"
    /\ \/ /\ frame[t].valid
          /\ Erase(t, frame[t].tx, NoFrame)
          /\ Reply(frame[t].for, TRUE)
          /\ UNCHANGED <<domainIds, fresh, state, late, second, history>>
       \/ Undefined(t)
    /\ UNCHANGED <<serial, faults>>

abortTransaction(t, c, r) ==
    /\ Takes(t, c, r, "abort")
    /\ Erase(t, r.tx, NoFrame)
    /\ Reply(c, TRUE)
    /\ UNCHANGED <<fresh, state, crossed>>

setFresh(t, c, r) ==
    /\ Takes(t, c, r, "fresh")
    /\ fresh' = fresh \union {r.id}
    /\ Reply(c, TRUE)
    /\ UNCHANGED <<txs, state, frame, crossed>>

-----------------------------------------------------------------------------
(* Faults *)

\* PowerDNS gives a request up after some seconds, so not in the second in which its
\* transfer started; a thread may have taken it.
TimeOut(c) ==
    /\ client[c].pc # "idle"
    /\ faults < MaxFaults /\ faults' = faults + 1
    /\ IF Taken(c)
       THEN /\ frame' = [t \in Threads |->
                           IF frame[t].for = c THEN [frame[t] EXCEPT !.for = Nobody] ELSE frame[t]]
            /\ UNCHANGED late
       ELSE late' = late \union {client[c]} /\ UNCHANGED frame
    /\ \E abort \in BOOLEAN : client' = [client EXCEPT ![c] = GivesUp(@, abort)]
    /\ second' = IF client[c].tx = second THEN 0 ELSE second
    /\ UNCHANGED <<domainIds, fresh, txs, state, serial, history>>

Restart ==
    /\ faults < MaxFaults /\ faults' = faults + 1
    /\ Ends
    /\ UNCHANGED serial

Handle(t, c, r) ==
    \/ startTransaction(t, c, r) \/ feedRecord(t, c, r) \/ commitTransaction(t, c, r)
    \/ abortTransaction(t, c, r) \/ setFresh(t, c, r)

Continue(t) ==
    InsertTransaction(t) \/ Push(t) \/ Apply(t) \/ ApplyFails(t) \/ EraseCommitted(t)

Next ==
    \/ \E t \in Threads :
         \/ \E c \in Clients : Handle(t, c, client[c])
         \/ \E r \in late : Handle(t, Nobody, r)
         \/ Continue(t)
    \/ \E c \in Clients : TimeOut(c) \/ \E z \in Zones : Poll(c, z)
    \/ \E z \in Zones : Update(z) \/ (domainIds[z] \in fresh /\ Elapse(domainIds[z]))
    \/ PollNothing
    \/ Tick
    \/ Restart

Spec == Init /\ [][Next]_vars

\* Threads run and serve every connection in turn; PowerDNS polls again and again and
\* transfers every zone it finds; time passes.
FairSpec ==
    /\ Spec
    /\ \A t \in Threads : WF_vars(Continue(t))
    /\ \A c \in Clients : SF_vars(\E t \in Threads : Handle(t, c, client[c]))
    /\ \A z \in Zones : /\ SF_vars(\E c \in Clients : Poll(c, z))
                        /\ WF_vars(domainIds[z] \in fresh /\ Elapse(domainIds[z]))
    /\ WF_vars(Tick)

-----------------------------------------------------------------------------
(* Properties *)

\* A slave zone has no data or all the records of one version of it: no record is missing,
\* none is left of an earlier version, and none belongs to another transfer, whatever
\* requests are given up and handled late, whatever threads work side by side, and whenever
\* the backend ends. Only a zone stored under a name that was given to a second transfer
\* while an earlier one of that name still had requests to come may be in parts, and there
\* is none when transfers start in different seconds.
WholeZones ==
    /\ TypeOK
    /\ \A z \in Zones : state[z] = {} \/ z \in mixed \/ \E v \in 1..MaxVersion : state[z] = Full(z, v)
    /\ SameSecond \/ mixed = {}

\* A zone whose master settles on a version gets and keeps that version, after a restart
\* too, unless it stays one that was stored under a crossed name.
SlavesTransferred ==
    \A z \in Zones, v \in 1..MaxVersion :
        <>[](serial[z] = v) => <>[](state[z] = Full(z, v) \/ z \in mixed)
=============================================================================
