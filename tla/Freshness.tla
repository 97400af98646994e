------------------------------ MODULE Freshness ------------------------------
(***************************************************************************)
(* Which slave zones PowerDNS is told to check.  PowerDNS polls            *)
(* getUnfreshSlaveInfos, asks the masters of the zones in the answer,      *)
(* transfers those that changed, and confirms each with setFresh.  The     *)
(* remote backend lists a zone when the refresh interval of its SOA record *)
(* has passed since the last confirmation it handled.                      *)
(*                                                                         *)
(* The handlers run in the threads of the HTTP server, as in the modules   *)
(* of the other handlers: the tree of the zones and the time are read once *)
(* per poll, the ids and the confirmations at each zone.  Times are        *)
(* seconds; the sum that ends an interval is one of two 32-bit numbers.    *)
(* told has every pair a handler worked with, listed or not.               *)
(***************************************************************************)
EXTENDS DomainIds

CONSTANTS
    Refreshes,      \* refresh intervals of SOA records
    Word,           \* 2^32
    StartTime, MaxTime,     \* the time, and its bound
    Starts,         \* what the zones may be at first
    MaxExtras       \* bound of the model

\* A slave has no SOA record until it was transferred. "other" stands for master and native.
NoData    == 0
Slave(r)  == [type |-> "slave", refresh |-> r]
Plain(k)  == [type |-> k, refresh |-> NoData]
ZoneStates == {Slave(r) : r \in Refreshes \union {NoData}} \union {Plain(k) : k \in {"absent", "untyped", "other"}}

ASSUME FreshnessAssumption ==
    /\ Refreshes \subseteq Nat \ {0} /\ \A r \in Refreshes : r < Word
    /\ Word \in Nat /\ StartTime \in Nat \ {0} /\ MaxTime \in Nat
    /\ StartTime <= MaxTime /\ MaxTime < Word
    /\ Starts \subseteq [Zones -> ZoneStates]
    /\ MaxExtras \in Nat

VARIABLES
    zones,          \* the zones of the operational datastore
    clock,          \* time(nullptr)
    checks,         \* d_slaveFreshnessChecks: a function from ids to times
    frame,          \* per thread, the poll it handles
    inbox,          \* PowerDNS: zones of the last answer still to be checked
    patches,        \* setFresh requests under way: pairs of the zone meant and the id sent
    confirmed,      \* history: when the last setFresh meant for a zone was handled, 0 for never
    extras          \* other requests, edits and losses so far

table   == <<domainIds, call>>
backend == <<table, told, checks, frame>>
pdns    == <<inbox, patches>>
vars    == <<backend, pdns, zones, clock, confirmed, extras>>

Times   == StartTime..MaxTime
Entries == Zones \X (Nat \ {0})
Idle    == [op |-> "idle", tree |-> [z \in Zones |-> Plain("absent")], now |-> 0,
            was |-> [z \in Zones |-> 0], todo |-> {}, out |-> {}]
\* was is history: the confirmations handled when the poll began.
Frames  == [op : {"idle", "poll"}, tree : [Zones -> ZoneStates], now : Times \union {0},
            was : [Zones -> Times \union {0}], todo : SUBSET Zones, out : SUBSET Entries]

FreshTypeOK ==
    /\ zones \in [Zones -> ZoneStates]
    /\ clock \in Times
    /\ DOMAIN checks \subseteq Nat \ {0} /\ checks \in [DOMAIN checks -> Times]
    /\ frame \in [Threads -> Frames]
    /\ inbox \subseteq Entries /\ patches \subseteq Entries
    /\ confirmed \in [Zones -> Times \union {0}]
    /\ extras \in 0..MaxExtras

FreshInit ==
    /\ IdsInit
    /\ zones \in Starts
    /\ clock = StartTime
    /\ checks = <<>>
    /\ frame = [t \in Threads |-> Idle]
    /\ inbox = {} /\ patches = {}
    /\ confirmed = [z \in Zones |-> 0]
    /\ extras = 0

Present == {z \in Zones : zones[z].type # "absent"}

-----------------------------------------------------------------------------
(* Other requests that are answered with the id of a zone *)

Extra == extras < MaxExtras /\ extras' = extras + 1

Other == UNCHANGED <<checks, frame, pdns, zones, clock, confirmed>>

Request(t) ==
    /\ frame[t].op = "idle" /\ Extra
    /\ \E z \in Present : Call(t, z)
    /\ UNCHANGED told /\ Other

Replied(t) == frame[t].op = "idle" /\ Return(t) /\ Other /\ UNCHANGED extras

LookUp(t) == getDomainID(t) /\ UNCHANGED <<told, extras>> /\ Other

-----------------------------------------------------------------------------
(* getUnfreshSlaveInfos *)

\* One thread of PowerDNS polls, waits for the answer and deals with it before it polls again.
getUnfreshSlaveInfos(t) ==
    /\ inbox = {} /\ \A u \in Threads : frame[u].op = "idle"
    /\ call[t].pc = "none"
    /\ frame' = [frame EXCEPT ![t] = [op |-> "poll", tree |-> zones, now |-> clock, was |-> confirmed,
                                      todo |-> {z \in Present : zones[z].type # "other"}, out |-> {}]]
    /\ UNCHANGED <<table, told, checks, pdns, zones, clock, confirmed, extras>>

\* An exception leaves the handler: PowerDNS gets an error instead of the list.
Fail(t) == frame' = [frame EXCEPT ![t] = Idle]

\* The next zone of the tree: data().at(0) throws for a zone without a zonetype, and
\* getDomainInfoFor for one that was deleted since the tree was read.
NextZone(t) ==
    /\ call[t].pc = "none"
    /\ \E z \in frame[t].todo :
         IF frame[t].tree[z].type = "untyped" \/ z \notin Present
         THEN Fail(t) /\ UNCHANGED table
         ELSE Call(t, z) /\ UNCHANGED frame
    /\ UNCHANGED <<told, checks, pdns, zones, clock, confirmed, extras>>

\* Seeded fault: a zone never confirmed counts as confirmed just now.
LastCheckNow(id) == IF id \in DOMAIN checks THEN checks[id] ELSE clock

LastCheck(id) == IF id \in DOMAIN checks THEN checks[id] ELSE 0

\* Seeded fault: an interval ends when it is as long as the time since the check.
PassedInclusive(now, lastCheck, refresh) == now >= (lastCheck + refresh) % Word

\* now is a time_t, the sum one of two uint32_t.
Passed(now, lastCheck, refresh) == now > (lastCheck + refresh) % Word

\* A zone without an SOA record is listed whenever it is asked for.
List(t) ==
    /\ frame[t].op = "poll" /\ call[t].pc = "found"
    /\ call' = [call EXCEPT ![t] = NoCall]
    /\ LET z == call[t].zone
           r == frame[t].tree[z].refresh
           listed == r = NoData \/ Passed(frame[t].now, LastCheck(call[t].id), r)
       IN  /\ frame' = [frame EXCEPT ![t].todo = @ \ {z},
                                     ![t].out = IF listed THEN @ \union {<<z, call[t].id>>} ELSE @]
           /\ told' = told \union {<<z, call[t].id>>}
    /\ UNCHANGED <<domainIds, checks, pdns, zones, clock, confirmed, extras>>

Answer(t) ==
    /\ frame[t].op = "poll" /\ frame[t].todo = {}
    /\ frame' = [frame EXCEPT ![t] = Idle]
    /\ inbox' = frame[t].out
    /\ UNCHANGED <<table, told, checks, patches, zones, clock, confirmed, extras>>

-----------------------------------------------------------------------------
(* setFresh *)

\* Seeded fault: the confirmation is recorded for every id there is a record of.
FreshAll(id) == [i \in DOMAIN checks \union {id} |-> clock]

Fresh(id) == [i \in DOMAIN checks \union {id} |-> IF i = id THEN clock ELSE checks[i]]

setFresh(t) ==
    /\ frame[t].op = "idle" /\ call[t].pc = "none"
    /\ \E p \in patches :
         /\ checks' = Fresh(p[2])
         /\ confirmed' = [confirmed EXCEPT ![p[1]] = clock]
         /\ patches' = patches \ {p}
    /\ UNCHANGED <<table, told, frame, inbox, zones, clock, extras>>

-----------------------------------------------------------------------------
(* PowerDNS, time, the operator and faults *)

\* PowerDNS asks the master: the zone is up to date, or was transferred (a new SOA record),
\* and is confirmed; or the master did not answer.
Check ==
    \E p \in inbox :
        /\ inbox' = inbox \ {p}
        /\ \/ patches' = patches \union {p} /\ UNCHANGED zones
           \/ /\ zones[p[1]].type = "slave"
              /\ \E r \in Refreshes : zones' = [zones EXCEPT ![p[1]] = Slave(r)]
              /\ patches' = patches \union {p}
           \/ UNCHANGED <<patches, zones>>
        /\ UNCHANGED <<backend, clock, confirmed, extras>>

Tick ==
    /\ clock < MaxTime /\ clock' = clock + 1
    /\ UNCHANGED <<backend, pdns, zones, confirmed, extras>>

\* Records of a slave are not the operator's to edit: a new slave has none.
Edit ==
    /\ Extra
    /\ \E z \in Zones, s \in {Plain("absent"), Plain("untyped"), Plain("other"), Slave(NoData)} :
         zones' = [zones EXCEPT ![z] = s]
    /\ UNCHANGED <<backend, pdns, clock, confirmed>>

LosePatch ==
    /\ Extra
    /\ \E p \in patches : patches' = patches \ {p}
    /\ UNCHANGED <<backend, inbox, zones, clock, confirmed>>

FreshNext ==
    \/ \E t \in Threads :
         \/ Request(t) \/ Replied(t) \/ LookUp(t)
         \/ getUnfreshSlaveInfos(t) \/ NextZone(t) \/ List(t) \/ Answer(t)
         \/ setFresh(t)
    \/ Check \/ Tick \/ Edit \/ LosePatch

FreshSpec == FreshInit /\ [][FreshNext]_vars

-----------------------------------------------------------------------------
(* Properties *)

\* Handlers worked with the ids of the table; races in getDomainID can break that.
Agreed == told \subseteq Recorded

\* The time recorded under a zone's id is when a confirmation of that zone was handled: no
\* zone counts as fresh because another one was confirmed, whatever threads, lost and late
\* requests do, while the ids handed out are the table's.
OwnChecks ==
    Agreed =>
        \A z \in Zones : domainIds[z] \in DOMAIN checks => checks[domainIds[z]] = confirmed[z]

\* "Time interval that should elapse before the zone should be refreshed" (pdns-server.yang):
\* a zone that has data is listed only when the interval had passed, at the time of the
\* poll, since the last confirmation handled before the poll. Intervals whose end does not
\* fit 32 bits are left out: they wrap, and the zone is listed in every poll.
LeftAlone ==
    Agreed =>
        \A t \in Threads : \A p \in frame[t].out :
            LET f == frame[t]
                r == f.tree[p[1]].refresh
            IN  r # NoData /\ MaxTime + r < Word => f.now > f.was[p[1]] + r

\* A poll lists every zone of its tree for which no confirmation was handled during the
\* interval before the poll or during it.
DueListed ==
    Agreed =>
        \A t \in Threads : \A z \in Zones :
            LET f == frame[t]
                r == f.tree[z].refresh
            IN  /\ f.op = "poll" /\ f.tree[z].type = "slave" /\ z \notin f.todo
                /\ r = NoData \/ f.now > confirmed[z] + r
                => \E p \in f.out : p[1] = z
=============================================================================
