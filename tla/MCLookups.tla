----------------------------- MODULE MCLookups -----------------------------
(* Instances of Lookups and Records for TLC.  Names: a chain of three under the root, a       *)
(* wildcard at the bottom of it and one name outside the chain.  Transfers: RRsets of every   *)
(* kind with one and with several records, an RRset with two TTLs, a name with two CNAMEs,    *)
(* and transfers with a record that cannot be stored.  A request reads either the zones or    *)
(* the records that transfers left, so the two modules take steps one beside the other.       *)
EXTENDS Lookups, Records

Labels == {"", "*", "a", "b", "c"}
Chain == {<< >>, <<"a">>, <<"b", "a">>, <<"c", "b", "a">>}
TypeLess == {<<"b", "a">>}
AllNames == Chain \union {<<"*", "b", "a">>, <<"*">>, <<"c">>}

R(owner, type, ttl, content) == [owner |-> owner, type |-> type, ttl |-> ttl, content |-> content]
SOA(serial) == R("a.", "SOA", 60, <<"ns.a.", "hm.a.", serial, "30", "20", "90", "10">>)
Base1 == <<SOA("1"), R("a.", "NS", 60, <<"ns1.a.">>), R("a.", "NS", 60, <<"ns2.a.">>)>>
SomeTransfers ==
    {Base1 \o <<R("x.a.", "A", 300, <<"192.0.2.1">>), R("x.a.", "A", 60, <<"192.0.2.2">>),
                R("a.", "MX", 60, <<"10", "x.a.">>), R("a.", "MX", 60, <<"10", "y.a.">>),
                R("a.", "MX", 60, <<"20", "x.a.">>)>>,
     <<SOA("2"), R("x.a.", "CNAME", 60, <<"y.a.">>), R("y.a.", "TXT", 60, <<"t">>),
       R("a.", "SRV", 60, <<"0", "1", "53", "x.a.">>), R("a.", "SRV", 60, <<"1", "0", "53", "x.a.">>),
       R("y.a.", "AAAA", 60, <<"2001:db8::1">>), R("x.a.", "PTR", 60, <<"y.a.">>), R("y.a.", "DNAME", 60, <<"z.a.">>)>>,
     <<SOA("3"), R("x.a.", "CNAME", 60, <<"y.a.">>), R("x.a.", "CNAME", 60, <<"z.a.">>)>>,
     Append(Base1, R("a.", "CAA", 60, <<"0", "issue", "ca">>)),
     Append(Base1, R("a.", "MX", 60, <<"10">>)),
     Append(Base1, R("x.a.", "SRV", 60, <<"0", "1", "53", "x--y.a.">>))}

BothInit == Init /\ RecInit
BothNext == (Next /\ UNCHANGED recVars) \/ (RecNext /\ UNCHANGED vars)
BothSpec == BothInit /\ [][BothNext]_<<vars, recVars>> /\ WF_vars(Handler /\ UNCHANGED recVars)
=============================================================================
