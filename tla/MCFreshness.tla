----------------------------- MODULE MCFreshness -----------------------------
(* Instances of Freshness for TLC: zones and threads are model values. *)
EXTENDS Freshness, TLC

CONSTANTS z1, z2, t1, t2

\* Zones at first: two slaves; a slave and a zone whose type is not set.
SomeStarts ==
    {z1 :> Slave(NoData) @@ z2 :> Slave(NoData),
     z1 :> Slave(NoData) @@ z2 :> Plain("untyped"),
     z1 :> Plain("untyped") @@ z2 :> Slave(NoData)}

Symmetry == Permutations(Threads) \union Permutations(Zones)
=============================================================================
