---------------------------- MODULE PowerDnsMirror ----------------------------
(***************************************************************************)
(* What pdns-sysrepo promises: PowerDNS mirrors the datastore.  `wanted`   *)
(* is the committed content and `actual` what PowerDNS has, per item (the  *)
(* configuration and every zone).  A new content is committed only when    *)
(* PowerDNS has caught up with the one before; PowerDNS catches up one     *)
(* item at a time, and never moves an item anywhere but to its wanted      *)
(* value.                                                                  *)
(***************************************************************************)
CONSTANT Items

VARIABLES wanted, actual

Behind == {x \in Items : actual[x] # wanted[x]}

Commit ==
    /\ Behind = {}
    /\ wanted' # wanted /\ DOMAIN wanted' = Items
    /\ UNCHANGED actual

Apply ==
    /\ \E x \in Behind : actual' = [actual EXCEPT ![x] = wanted[x]]
    /\ UNCHANGED wanted

Init == DOMAIN wanted = Items /\ DOMAIN actual = Items
Next == Commit \/ Apply

Spec == Init /\ [][Next]_<<wanted, actual>> /\ WF_<<wanted, actual>>(Apply)
=============================================================================
