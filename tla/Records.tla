------------------------------- MODULE Records -------------------------------
(***************************************************************************)
(* What becomes of the records of a slave zone: PowerDNS feeds them in a   *)
(* transaction, commitTransaction takes them apart into the YANG nodes of  *)
(* rrset-state, and lookup puts records together from the nodes it finds   *)
(* (getRecordsFromRRSetNode).                                              *)
(*                                                                         *)
(* The module is about one zone and about the two conversions; that a      *)
(* transaction has the records of a whole transfer is shown in             *)
(* ZoneTransfers.  The content of a record is the sequence of its fields.  *)
(* Nodes of a list, and the records of an answer, are sets.                *)
(***************************************************************************)
EXTENDS Naturals, Sequences

CONSTANTS
    Transfers,  \* what PowerDNS may feed: sequences of records
    Invalid     \* fields that the types of the YANG module refuse

\* The number of fields of a record's content, for the types whose fields are stored one by one.
Parts == [SOA |-> 7, MX |-> 2, SRV |-> 4]

IsSeq(s) == s \in Seq({s[i] : i \in DOMAIN s})

\* PowerDNS has parsed the records it feeds: none has more fields than its type.
ASSUME RecordsAssumption ==
    \A v \in Transfers : IsSeq(v) /\ \A i \in DOMAIN v :
        /\ v[i] = [owner |-> v[i].owner, type |-> v[i].type, ttl |-> v[i].ttl, content |-> v[i].content]
        /\ v[i].ttl \in Nat /\ IsSeq(v[i].content)
        /\ v[i].type \in DOMAIN Parts => Len(v[i].content) <= Parts[v[i].type]

VARIABLES
    rrsetState, \* rrset-state of the zone: its list entries
    committed   \* history: the records of the last transaction that was applied

recVars == <<rrsetState, committed>>

RecInit == rrsetState = {} /\ committed = << >>

-----------------------------------------------------------------------------
(* commitTransaction *)

LeafLists == {"A", "AAAA", "PTR", "NS", "TXT"}
Single    == {"SOA", "CNAME", "DNAME"}      \* one value, which the next one overwrites
Known     == LeafLists \union Single \union {"MX", "SRV"}

\* parts.at() throws for a missing field, set_item_str for a value not of its type, and the
\* handler itself for a type it does not know.
Refused(r) ==
    \/ r.type \notin Known
    \/ r.type \in DOMAIN Parts /\ Len(r.content) < Parts[r.type]
    \/ \E i \in DOMAIN r.content : r.content[i] \in Invalid

\* d_records is sorted by owner, type and TTL; contents of a key stay in the order they came.
SetBefore(v, i, j) == v[i].ttl < v[j].ttl \/ (v[i].ttl = v[j].ttl /\ i < j)

Of(v, key) == {i \in DOMAIN v : <<v[i].owner, v[i].type>> = key}

LastSet(v, key) == CHOOSE i \in Of(v, key) : \A j \in Of(v, key) \ {i} : SetBefore(v, j, i)

\* The nodes below rdata for a record's content.
Nodes(type, c) ==
    CASE type = "SOA" -> [mname |-> c[1], rname |-> c[2], serial |-> c[3], refresh |-> c[4],
                          retry |-> c[5], expire |-> c[6], minimum |-> c[7]]
      [] type = "MX"  -> [preference |-> c[1], exchange |-> c[2]]
      [] type = "SRV" -> [priority |-> c[1], weight |-> c[2], port |-> c[3], target |-> c[4]]
      [] OTHER -> c

\* The entry for an owner and a type: the TTL and the values set last, or all values of a list.
Entry(v, key) ==
    LET last == LastSet(v, key)
        kept == IF key[2] \in Single THEN {last} ELSE Of(v, key)
    IN  [owner |-> key[1], type |-> key[2], ttl |-> v[last].ttl,
         rdata |-> {Nodes(key[2], v[i].content) : i \in kept}]

\* Seeded fault: entries of the zone that the transaction does not set stay.
StoredBeside(v) ==
    {Entry(v, <<v[i].owner, v[i].type>>) : i \in DOMAIN v} \union
    {s \in rrsetState : Of(v, <<s.owner, s.type>>) = {}}

\* All entries of the zone are deleted before those of the transaction are set.
Stored(v) == {Entry(v, <<v[i].owner, v[i].type>>) : i \in DOMAIN v}

commitTransaction(v) ==
    /\ \A i \in DOMAIN v : ~Refused(v[i])
    /\ rrsetState' = Stored(v) /\ committed' = v

\* An exception, from a record, validation or sysrepo: what the session changed is dropped.
commitFails(v) == UNCHANGED recVars

\* The data of a backend that ends goes with its connection.
RestartBackend == rrsetState' = {} /\ committed' = << >>

RecNext == (\E v \in Transfers : commitTransaction(v) \/ commitFails(v)) \/ RestartBackend

RecSpec == RecInit /\ [][RecNext]_recVars

-----------------------------------------------------------------------------
(* lookup *)

\* getRecordsFromRRSetNode puts the fields of a node together in the order of the record.
Content(type, node) ==
    CASE type = "SOA" -> <<node.mname, node.rname, node.serial, node.refresh,
                           node.retry, node.expire, node.minimum>>
      [] type = "MX"  -> <<node.preference, node.exchange>>
      [] type = "SRV" -> <<node.priority, node.weight, node.port, node.target>>
      [] OTHER -> node

getRecordsFromRRSetNode(s) ==
    {[owner |-> s.owner, type |-> s.type, ttl |-> s.ttl, content |-> Content(s.type, d)] : d \in s.rdata}

lookupRecords(owner, type) ==
    UNION {getRecordsFromRRSetNode(s) :
             s \in {e \in rrsetState : e.owner = owner /\ (type = "ANY" \/ e.type = type)}}

-----------------------------------------------------------------------------
(* Properties *)

Owners == UNION {{v[i].owner : i \in DOMAIN v} : v \in Transfers}

\* A name has one SOA, CNAME or DNAME record at most.
Proper(v) ==
    \A i, j \in DOMAIN v : v[i].type \in Single /\ v[j].owner = v[i].owner /\ v[j].type = v[i].type => i = j

\* The records of v for an owner and a type, with the greatest TTL of their RRset.
Expected(v, owner, type) ==
    LET mine == {v[i] : i \in {j \in DOMAIN v : v[j].owner = owner /\ (type = "ANY" \/ v[j].type = type)}}
    IN  {[r EXCEPT !.ttl = CHOOSE t \in {q.ttl : q \in {p \in mine : p.type = r.type}} :
                             \A q \in mine : q.type = r.type => q.ttl <= t] : r \in mine}

\* Whatever is asked, the answer has the records of the last transfer that was applied, and
\* all of them: nothing of an earlier transfer, of one that failed or of another owner or type
\* gets in, no field is lost or in another place, and no record of an RRset hides another. Of
\* an RRset with several TTLs the greatest one is told.
AnswersTransferred ==
    Proper(committed) =>
        \A owner \in Owners, type \in Known \union {"ANY"} :
            lookupRecords(owner, type) = Expected(committed, owner, type)
=============================================================================
