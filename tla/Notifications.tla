----------------------------- MODULE Notifications -----------------------------
(***************************************************************************)
(* Which master zones PowerDNS sends notifications for.  PowerDNS polls    *)
(* getUpdatedMasters, queues notifications for the zones in the answer and *)
(* acknowledges each with setNotified; the remote backend compares the     *)
(* serial in the running datastore with the last one acknowledged.         *)
(*                                                                         *)
(* The handlers run in the threads of the HTTP server and share, without a *)
(* lock, the table of ids and the map of acknowledged serials.  A handler  *)
(* works on the tree it read when it started.  An acknowledgement may be   *)
(* lost, or arrive after any number of later polls.                        *)
(***************************************************************************)
EXTENDS DomainIds

CONSTANTS
    Kinds,          \* what a zone can be that is not a master: absent, untyped or other
    Starts,         \* what the zones may be at first
    Serials,        \* serials of SOA records
    MaxInt,         \* highest number std::stoi converts
    MaxAsks,        \* requests for domains (bound of the model)
    MaxEdits,       \* edits of the datastore (bound of the model)
    MaxFaults       \* lost or late messages, restarts of the backend (bound of the model)

NoSerial == -1      \* the zone has no SOA record

\* "other" stands for slave and native. A zonetype is not mandatory, nor is an SOA record.
Master(s)  == [type |-> "master", soa |-> s]
Plain(k)   == [type |-> k, soa |-> NoSerial]
ZoneStates == {Master(s) : s \in Serials \union {NoSerial}} \union {Plain(k) : k \in Kinds}

ASSUME KindsAssumption ==
    "absent" \in Kinds /\ Kinds \subseteq {"absent", "untyped", "other"} /\ Starts \subseteq [Zones -> ZoneStates]
ASSUME BoundsAssumption ==
    /\ Serials \subseteq Nat /\ MaxInt \in Nat
    /\ MaxAsks \in Nat /\ MaxEdits \in Nat /\ MaxFaults \in Nat

VARIABLES
    zones,          \* /pdns-server:zones of the running datastore
    notified,       \* d_notifiedMasters: a function from ids to acknowledged serials
    frame,          \* per thread, the request it handles
    inbox,          \* PowerDNS: zones of the last answer still to be notified
    patches,        \* setNotified requests under way: pairs of id and serial
    announced,      \* the pairs of zone and serial that PowerDNS queued notifications for
    asks, edits, faults     \* numbers of requests for domains, edits and faults so far

table    == <<domainIds, call>>
backend  == <<table, told, notified, frame>>
pdns     == <<inbox, patches, announced>>
world    == <<zones, edits, faults>>
vars     == <<backend, pdns, world, asks>>

Entries == [zone : Zones, id : Nat \ {0}, serial : Serials \union {0}]
Idle    == [op |-> "idle", tree |-> [z \in Zones |-> Plain("absent")], todo |-> {}, out |-> {},
            heard |-> FALSE]
Frames  == [op : {"idle", "updated", "domains"}, tree : [Zones -> ZoneStates],
            todo : SUBSET Zones, out : SUBSET Entries, heard : BOOLEAN]

NotifTypeOK ==
    /\ zones \in [Zones -> ZoneStates]
    /\ DOMAIN notified \subseteq Nat \ {0}
    /\ notified \in [DOMAIN notified -> Serials \union {0}]
    /\ frame \in [Threads -> Frames]
    /\ inbox \subseteq Entries
    /\ patches \subseteq (Nat \ {0}) \X (Serials \union {0})
    /\ announced \subseteq Zones \X (Serials \union {0})
    /\ asks \in 0..MaxAsks
    /\ edits \in 0..MaxEdits
    /\ faults \in 0..MaxFaults

NotifInit ==
    /\ IdsInit
    /\ zones \in Starts
    /\ notified = <<>>
    /\ frame = [t \in Threads |-> Idle]
    /\ inbox = {}
    /\ patches = {}
    /\ announced = {}
    /\ asks = 0
    /\ edits = 0
    /\ faults = 0

Present == {z \in Zones : zones[z].type # "absent"}

-----------------------------------------------------------------------------
(* Handlers that answer with zones *)

\* The request and the tree of the zones are read; `asked` are the zones the loop stops at.
Accept(t, op, tree, asked) ==
    /\ frame[t].op = "idle"
    /\ frame' = [frame EXCEPT ![t] = [op |-> op, tree |-> tree, todo |-> asked, out |-> {},
                                      heard |-> TRUE]]
    /\ UNCHANGED <<table, told, notified, pdns, world>>

\* getAllDomains asks for the ids of all zones, getDomainInfo for that of one.
Ask(t, asked) ==
    /\ asks < MaxAsks
    /\ asks' = asks + 1
    /\ Accept(t, "domains", Idle.tree, asked)

getAllDomains(t)    == Ask(t, Present)
getDomainInfo(t, z) == z \in Present /\ Ask(t, {z})

\* PowerDNS polls when it has dealt with the last answer, or given up waiting for it. The
\* loop passes over zones of another type.
getUpdatedMasters(t) ==
    /\ inbox = {}
    /\ \A u \in Threads : ~(frame[u].op = "updated" /\ frame[u].heard)
    /\ Accept(t, "updated", zones, {z \in Present : zones[z].type # "other"})
    /\ UNCHANGED asks

\* An exception leaves the handler: the client gets an error instead of the list.
Fail(t) == frame' = [frame EXCEPT ![t] = Idle]

\* The next zone of the loop. In getUpdatedMasters find_path throws for a zone without a
\* zonetype.
NextZone(t) ==
    /\ call[t].pc = "none"
    /\ \E z \in frame[t].todo :
         IF frame[t].tree[z].type = "untyped"
         THEN Fail(t) /\ UNCHANGED table
         ELSE Call(t, z) /\ UNCHANGED frame
    /\ UNCHANGED <<told, notified, pdns, world, asks>>

LookUp(t) == getDomainID(t) /\ UNCHANGED <<told, notified, frame, pdns, world, asks>>

\* The acknowledged serial, 0 when there is none.
Acknowledged(id) == IF id \in DOMAIN notified THEN notified[id] ELSE 0

\* Seeded fault: a serial is news only when it is higher than the acknowledged one.
NewsWhenHigher(id, serial) == serial > Acknowledged(id)

\* A serial is news when it differs from the acknowledged one.
News(id, serial) == Acknowledged(id) # serial

\* With the id, the zone is listed; by getUpdatedMasters only when its serial is news.
\* A master without an SOA record throws.
List(t) ==
    /\ call[t].pc = "found"
    /\ call' = [call EXCEPT ![t] = NoCall]
    /\ LET z      == call[t].zone
           serial == IF frame[t].op = "updated" THEN frame[t].tree[z].soa ELSE 0
           entry  == [zone |-> z, id |-> call[t].id, serial |-> serial]
       IN  \/ serial = NoSerial /\ Fail(t)
           \/ /\ serial # NoSerial
              /\ frame' = [frame EXCEPT ![t].todo = @ \ {z},
                                        ![t].out = IF frame[t].op = "domains" \/ News(entry.id, serial)
                                                   THEN @ \union {entry} ELSE @]
    /\ UNCHANGED <<domainIds, told, notified, pdns, world, asks>>

\* The answer: PowerDNS is told the ids, and has the zones to notify.
Answer(t) ==
    /\ frame[t].op # "idle" /\ frame[t].todo = {}
    /\ frame' = [frame EXCEPT ![t] = Idle]
    /\ IF frame[t].heard
       THEN /\ told' = told \union {<<e.zone, e.id>> : e \in frame[t].out}
            /\ inbox' = IF frame[t].op = "updated" THEN frame[t].out ELSE inbox
       ELSE UNCHANGED <<told, inbox>>
    /\ UNCHANGED <<table, notified, patches, announced, world, asks>>

-----------------------------------------------------------------------------
(* setNotified *)

Acknowledge(id, serial) ==
    [i \in DOMAIN notified \union {id} |-> IF i = id THEN serial ELSE notified[i]]

\* Seeded fault: a serial that is lower than the recorded one is taken for an old request.
RecordedHighest(id, serial) ==
    IF serial > Acknowledged(id) THEN Acknowledge(id, serial) ELSE notified

\* Seeded fault: the serial the zone has now is recorded.
RecordedCurrent(id, serial) ==
    LET now == {zones[z].soa : z \in {y \in Zones : domainIds[y] = id}} \ {NoSerial}
    IN  Acknowledge(id, IF now = {} THEN serial ELSE CHOOSE s \in now : TRUE)

\* std::stoi throws above MaxInt, and nothing is recorded.
RecordedSerial(id, serial) ==
    IF serial <= MaxInt THEN Acknowledge(id, serial) ELSE notified

HandlePatch(t, p) ==
    /\ frame[t].op = "idle"
    /\ notified' = RecordedSerial(p[1], p[2])
    /\ patches' = patches \ {p}
    /\ UNCHANGED <<table, told, frame, inbox, announced, world, asks>>

setNotified(t) == \E p \in patches : HandlePatch(t, p)

\* The acknowledgements for one id.
setNotifiedOf(t, id) == \E p \in {q \in patches : q[1] = id} : HandlePatch(t, p)

-----------------------------------------------------------------------------
(* PowerDNS, the clients of sysrepo and faults *)

Notify ==
    \E e \in inbox :
        /\ inbox' = inbox \ {e}
        /\ announced' = announced \union {<<e.zone, e.serial>>}
        /\ patches' = patches \union {<<e.id, e.serial>>}
        /\ UNCHANGED <<backend, world, asks>>

Edit ==
    /\ edits < MaxEdits
    /\ edits' = edits + 1
    /\ \E z \in Zones, s \in ZoneStates : s # zones[z] /\ zones' = [zones EXCEPT ![z] = s]
    /\ UNCHANGED <<backend, pdns, faults, asks>>

Fault ==
    /\ faults < MaxFaults
    /\ faults' = faults + 1
    /\ UNCHANGED <<told, announced, zones, edits, asks>>

LosePatch ==
    /\ Fault
    /\ \E p \in patches : patches' = patches \ {p}
    /\ UNCHANGED <<table, notified, frame, inbox>>

\* PowerDNS gives up a poll; the handler goes on.
TimeOut(t) ==
    /\ Fault
    /\ frame[t].op = "updated" /\ frame[t].heard
    /\ frame' = [frame EXCEPT ![t].heard = FALSE]
    /\ UNCHANGED <<table, notified, inbox, patches>>

\* The backend forgets the ids and the serials; PowerDNS keeps what it was told.
RestartBackend ==
    /\ Fault
    /\ domainIds' = [z \in Zones |-> 0]
    /\ call' = [t \in Threads |-> NoCall]
    /\ notified' = <<>>
    /\ frame' = [t \in Threads |-> Idle]
    /\ UNCHANGED <<inbox, patches>>

Step(t) == NextZone(t) \/ LookUp(t) \/ List(t) \/ Answer(t)

NotifNext ==
    \/ \E t \in Threads :
         \/ getAllDomains(t)
         \/ \E z \in Zones : getDomainInfo(t, z)
         \/ getUpdatedMasters(t)
         \/ Step(t)
         \/ setNotified(t)
         \/ TimeOut(t)
    \/ Notify
    \/ Edit
    \/ LosePatch
    \/ RestartBackend

NotifSpec == NotifInit /\ [][NotifNext]_vars

\* Threads run, and serve every connection in turn, so a poll and an acknowledgement that
\* PowerDNS sent are not overtaken for ever; PowerDNS polls every slave-cycle-interval.
NotifFairSpec ==
    /\ NotifSpec
    /\ \A t \in Threads : WF_vars(Step(t))
    /\ SF_vars(\E t \in Threads : getUpdatedMasters(t))
    /\ \A id \in 1..Cardinality(Zones) : SF_vars(\E t \in Threads : setNotifiedOf(t, id))
    /\ WF_vars(Notify)

-----------------------------------------------------------------------------
(* Properties *)

\* An id means one zone: to the clients, to the table, and between the two. Races in
\* getDomainID and restarts of the backend can break it.
OneMeaning ==
    \A p, q \in told \union Recorded : p[2] = q[2] => p[1] = q[1]

Announced ==
    \A z \in Zones :
        LET s == zones[z].soa
        IN  domainIds[z] # 0 /\ s \notin {NoSerial, 0} /\ Acknowledged(domainIds[z]) = s
            => <<z, s>> \in announced

\* The backend keeps a master from PowerDNS only when PowerDNS has queued a notification
\* for that zone with that very serial, whatever the order in which edits, polls and
\* acknowledgements arrive and whichever are lost, as long as an id means one zone.
NoMissedNotify == NotifTypeOK /\ (OneMeaning => Announced)

\* One zone without a zonetype or one master without an SOA record fails every poll.
Complete == \A z \in Zones : zones[z].type # "untyped" /\ zones[z] # Master(NoSerial)

Settled(z, s) == []OneMeaning /\ <>[](Complete /\ zones[z] = Master(s))

\* A master that settles on a serial is announced with it. Serial 0 reads as acknowledged.
MastersNotified ==
    \A z \in Zones, s \in Serials \ {0} : Settled(z, s) => <>(<<z, s>> \in announced)

\* A master that settles on a serial is in the end no longer listed
\* ("Check that the backend knows we did"). A serial above MaxInt is listed for ever.
NotificationsCease ==
    \A z \in Zones, s \in {n \in Serials : n <= MaxInt} :
        Settled(z, s) => <>[](domainIds[z] # 0 /\ Acknowledged(domainIds[z]) = s)
=============================================================================
