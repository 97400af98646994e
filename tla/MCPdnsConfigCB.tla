---------------------------- MODULE MCPdnsConfigCB ----------------------------
(* Instances of PdnsConfigCB for TLC. *)
EXTENDS PdnsConfigCB

CONSTANTS o1, o2, a1, a2, p1, p2, z1, z2

\* Configurations that differ in the API address; in an option, without an API; in both.
ApiConfs   == {[opts |-> o1, api |-> a1], [opts |-> o1, api |-> a2]}
NoApiConfs == {[opts |-> o1, api |-> NoApi], [opts |-> o2, api |-> NoApi]}
MixedConfs == {[opts |-> o1, api |-> NoApi], [opts |-> o2, api |-> a1]}

\* What one transaction may edit.
ConfAclsOrSvc == {{"conf"}, {"acls"}, {"conf", "acls"}, {"svc"}}
ConfAndSvc    == {{"conf", "svc"}}
ConfOrZones   == {{"conf"}, {"zones"}}
ConfAndZones  == {{"conf"}, {"zones"}, {"conf", "zones"}}
=============================================================================
