------------------------------- MODULE DomainIds -------------------------------
(***************************************************************************)
(* The ids the remote backend hands out for zones (src/remote-backend/     *)
(* domain-id.cc).  Four threads of the HTTP server handle requests, every  *)
(* request that answers with a zone calls getDomainID, and the table has   *)
(* no lock: the look-up, the choice of a new id and the insertion are      *)
(* steps of their own.  Each access to the table is taken to be atomic.    *)
(*                                                                         *)
(* The module is used on its own, with requests for single zones, and by   *)
(* the modules of the handlers that call getDomainID.                      *)
(***************************************************************************)
EXTENDS Integers, FiniteSets, Functions

CONSTANTS
    Zones,      \* zone names
    Threads,    \* threads of the HTTP server
    NoZone      \* no zone

ASSUME NoZoneAssumption == NoZone \notin Zones

VARIABLES
    domainIds,  \* d_domainIds: the id per zone, 0 for none
    call,       \* per thread, where its call of getDomainID is
    told        \* the pairs of zone and id that clients were told

idsVars == <<domainIds, call, told>>

NoCall == [pc |-> "none", zone |-> NoZone, id |-> 0]
Calls  == [pc : {"none", "find", "new", "insert", "found"}, zone : Zones \union {NoZone}, id : Nat]

IdsTypeOK ==
    /\ domainIds \in [Zones -> Nat]
    /\ call \in [Threads -> Calls]
    /\ told \subseteq Zones \X (Nat \ {0})

IdsInit ==
    /\ domainIds = [z \in Zones |-> 0]
    /\ call = [t \in Threads |-> NoCall]
    /\ told = {}

-----------------------------------------------------------------------------
(* getDomainID *)

\* The highest id of the bimap; 0 stands for the zones it does not have.
Highest(ids) == CHOOSE i \in Range(ids) : \A j \in Range(ids) : j <= i

getNewId(ids) == Highest(ids) + 1

Call(t, z) ==
    /\ call[t].pc = "none"
    /\ call' = [call EXCEPT ![t] = [pc |-> "find", zone |-> z, id |-> 0]]
    /\ UNCHANGED domainIds

Find(t) ==
    /\ call[t].pc = "find"
    /\ LET id == domainIds[call[t].zone]
       IN  call' = [call EXCEPT ![t].pc = IF id # 0 THEN "found" ELSE "new", ![t].id = id]
    /\ UNCHANGED domainIds

New(t) ==
    /\ call[t].pc = "new"
    /\ call' = [call EXCEPT ![t].pc = "insert", ![t].id = getNewId(domainIds)]
    /\ UNCHANGED domainIds

\* Seeded fault: a map that takes any id for a zone.
InsertedAlways(z, id) == [domainIds EXCEPT ![z] = id]

\* A bimap refuses a pair when it has the zone or the id already.
Inserted(z, id) ==
    IF domainIds[z] = 0 /\ id \notin Range(domainIds)
    THEN [domainIds EXCEPT ![z] = id] ELSE domainIds

\* Whether or not the pair was inserted, the new id is returned.
Insert(t) ==
    /\ call[t].pc = "insert"
    /\ domainIds' = Inserted(call[t].zone, call[t].id)
    /\ call' = [call EXCEPT ![t].pc = "found"]

getDomainID(t) == Find(t) \/ New(t) \/ Insert(t)

-----------------------------------------------------------------------------
(* Requests for one zone *)

Return(t) ==
    /\ call[t].pc = "found"
    /\ told' = told \union {<<call[t].zone, call[t].id>>}
    /\ call' = [call EXCEPT ![t] = NoCall]
    /\ UNCHANGED domainIds

IdsNext ==
    \E t \in Threads :
        \/ /\ \E z \in Zones : Call(t, z)
           /\ UNCHANGED told
        \/ getDomainID(t) /\ UNCHANGED told
        \/ Return(t)

IdsSpec == IdsInit /\ [][IdsNext]_idsVars

-----------------------------------------------------------------------------
(* Properties *)

\* The ids in the table are 1 up to the highest, without gaps. An id a thread is about to
\* insert or to return is at most one more.
DenseIds ==
    /\ Range(domainIds) \union {0} = 0..Highest(domainIds)
    /\ \A t \in Threads : call[t].pc \in {"insert", "found"} => call[t].id \in 1..getNewId(domainIds)

OneZonePerId ==
    \A y, z \in Zones : domainIds[y] = domainIds[z] /\ domainIds[y] # 0 => y = z

CallShape ==
    \A t \in Threads : call[t].pc # "none" => call[t].zone \in Zones

\* The table stays a bijection between zones and 1..n, however many threads look zones up,
\* choose ids and insert at once: no overwritten, reused or skipped id.
IdsInv == IdsTypeOK /\ CallShape /\ OneZonePerId /\ (Zones # {} => DenseIds)

\* What the clients were told is one id per zone and one zone per id
\* ("domain IDs are not unique", asserted of getAllDomains).
ToldUnique ==
    \A p, q \in told : p[2] = q[2] => p[1] = q[1]

Recorded == {<<z, domainIds[z]>> : z \in {y \in Zones : domainIds[y] # 0}}

TableIds == INSTANCE IdAllocation WITH given <- Recorded

\* With any number of threads the table allocates ids: an entry is never changed, removed
\* or shared.
TableAllocates == TableIds!Spec
=============================================================================
