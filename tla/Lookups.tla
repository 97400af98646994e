------------------------------ MODULE Lookups ------------------------------
(***************************************************************************)
(* How the remote backend finds the zone of a name (findBestZone,          *)
(* src/remote-backend/find-zone.cc) and answers the four requests built on *)
(* it, while the operator edits the zones in sysrepo.                      *)
(*                                                                         *)
(* A name is the sequence of its labels, the root zone being << >>;        *)
(* boost::split leaves an empty label after the last dot.  findBestZone    *)
(* asks sysrepo once for each ancestor of the name, and the handler reads  *)
(* the zone in yet another call, so the zones may change between any two   *)
(* of them.  A handler writes nothing other handlers read: one request at  *)
(* a time stands for all of them.                                          *)
(***************************************************************************)
EXTENDS Naturals, Sequences

CONSTANTS Label,        \* the labels of names, and the empty one
          Names,        \* the names PowerDNS asks for
          ZoneNames,    \* those a zone may have
          Untyped       \* those of zones without a zonetype, which is optional

ASSUME NamesAssumption ==
  /\ {"", "*"} \subseteq Label
  /\ \A n \in Names : n \in Seq(Label) /\ \A i \in 1..Len(n) : n[i] # ""
  /\ ZoneNames \subseteq Names /\ Untyped \subseteq ZoneNames

VARIABLES zones,        \* the zones in the operational datastore
          pc,           \* where the handler is
          kind,         \* the endpoint requested
          qname,        \* the name requested
          labels,       \* findBestZone's labels
          found,        \* the zone findBestZone returned, as a set of at most one
          throughout,   \* history: the zones that existed since the request arrived
          failed        \* history: a query of the request failed

vars == <<zones, pc, kind, qname, labels, found, throughout, failed>>
request == <<kind, qname, failed>>

Drop(s, k) == SubSeq(s, k + 1, Len(s))
-----------------------------------------------------------------------------
\* boost::split: "." has two empty labels, any other name one, at its end.
Split(n) == IF n = << >> THEN <<"", "">> ELSE Append(n, "")

\* boost::join and the rule that an empty result is the root.
Join(ls) == IF ls = <<"", "">> THEN << >> ELSE SubSeq(ls, 1, Len(ls) - 1)

\* Seeded fault: the first label is dropped whatever it is, so the parent is asked for first.
WithoutFirst(ls) == Tail(ls)

\* A leading "*" is not part of the zone's name.
WithoutStar(ls) == IF ls[1] = "*" THEN Tail(ls) ELSE ls

Init == /\ zones \in SUBSET ZoneNames
        /\ pc = "idle" /\ kind = "lookup" /\ qname \in Names
        /\ labels = << >> /\ found = {} /\ throughout = zones /\ failed = FALSE

\* How a request ends: with data, with an error or an empty result, or with an exception or worse.
Ended == {"answered", "refused", "failed"}

\* A request arrives.
Request(k, q) ==
  /\ pc \in {"idle"} \union Ended
  /\ kind' = k /\ qname' = q
  /\ labels' = WithoutStar(Split(q))
  /\ pc' = "find" /\ found' = {} /\ throughout' = zones /\ failed' = FALSE
  /\ UNCHANGED zones

\* list, getDomainInfo and getDomainMetadata refuse a name that is no zone itself.
Accepts(z) == kind = "lookup" \/ z = qname

\* One turn of the loop that finds a zone.
Find ==
  /\ pc = "find" /\ labels # << >>
  /\ Join(labels) \in zones
  /\ found' = {Join(labels)}
  /\ pc' = IF Accepts(Join(labels)) THEN "read" ELSE "refused"
  /\ UNCHANGED <<zones, request, labels, throughout>>

\* Seeded fault: the loop goes on with the same labels.
Unshortened(ls) == ls

\* labels.erase(labels.begin())
Shortened(ls) == Tail(ls)

\* One that does not: the zone is not there.
Miss ==
  /\ pc = "find" /\ labels # << >>
  /\ Join(labels) \notin zones
  /\ labels' = Shortened(labels)
  /\ UNCHANGED <<zones, request, pc, found, throughout>>

\* The query throws, which is caught and ignored: the loop goes on as if there were no zone.
QueryFails ==
  /\ pc = "find" /\ labels # << >>
  /\ labels' = Shortened(labels)
  /\ failed' = TRUE
  /\ UNCHANGED <<zones, kind, qname, pc, found, throughout>>

\* The loop has asked for the root: std::out_of_range, answered as an error or an empty result.
NoZone ==
  /\ pc = "find" /\ labels = << >>
  /\ pc' = "refused"
  /\ UNCHANGED <<zones, request, labels, found, throughout>>

\* The handler, knowing the zone, reads it and ends in one of the ways given.
Ends(k, ways) ==
  /\ pc = "read" /\ kind = k
  /\ pc' \in ways
  /\ UNCHANGED <<zones, request, labels, found, throughout>>

\* lookup takes the first zonetype it finds and list the zone's children: of a zone that has
\* none, or is gone by now, they throw or use a null pointer.
lookup == Ends("lookup", IF found \subseteq zones \ Untyped THEN {"answered"} ELSE {"failed"})
list == Ends("list", IF found \subseteq zones THEN {"answered"} ELSE {"failed"})

\* getDomainInfo catches what it throws then.
getDomainInfo ==
  Ends("getDomainInfo", IF found \subseteq zones THEN {"answered"} ELSE {"refused"})

\* getDomainMetadata refuses kinds of metadata it does not know, and finds no node of a zone
\* that is gone: the answer is the server's own metadata.  Without any zone it may throw.
getDomainMetadata ==
  Ends("getDomainMetadata",
       {"answered", "refused"} \union (IF zones = {} THEN {"failed"} ELSE {}))

\* A transaction of the operator: any zones are added and removed at once.
Edit ==
  /\ zones' \in SUBSET ZoneNames
  /\ throughout' = throughout \intersect zones'
  /\ UNCHANGED <<pc, request, labels, found>>

Read == lookup \/ list \/ getDomainInfo \/ getDomainMetadata
Handler == Find \/ Miss \/ QueryFails \/ NoZone \/ Read

Next ==
  \/ \E k \in {"lookup", "list", "getDomainInfo", "getDomainMetadata"}, q \in Names : Request(k, q)
  \/ Handler
  \/ Edit

\* A thread of the HTTP server goes on with the request it handles.
Spec == Init /\ [][Next]_vars /\ WF_vars(Handler)
-----------------------------------------------------------------------------
TypeOK ==
  /\ zones \subseteq ZoneNames /\ throughout \subseteq zones
  /\ pc \in {"idle", "find", "read"} \union Ended
  /\ kind \in {"lookup", "list", "getDomainInfo", "getDomainMetadata"}
  /\ qname \in Names
  /\ found \subseteq ZoneNames
  /\ failed \in BOOLEAN

\* The names a zone of q may have, from the closest one up: q's ancestors and q, a leading "*" apart.
Base(q) == IF q # << >> /\ q[1] = "*" THEN Tail(q) ELSE q
Enclosing(q) == {Drop(Base(q), k) : k \in 0..Len(Base(q))}

\* "Finds the best zone for qname" (remote-backend.hh, findBestZone), whatever edits the loop's
\* queries straddle: the zone a request is answered from encloses the name, and, unless one of
\* the request's queries failed, no closer one was there all the time from the request to the
\* answer; a request refused because there is no zone had none enclosing it all that time.
BestZone ==
  /\ TypeOK
  /\ pc \in {"read"} \union Ended =>
       /\ found \subseteq Enclosing(qname)
       /\ failed \/ \A z \in Enclosing(qname) \intersect throughout :
                      \E f \in found : Len(z) <= Len(f)

\* findBestZone's loop ends and every request gets some answer, whatever sysrepo's queries
\* return and however the zones change meanwhile (find-zone.cc, the loop of lines 41-60).
RequestsEnd == pc \in {"find", "read"} ~> pc \in Ended
=============================================================================
