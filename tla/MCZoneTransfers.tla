---------------------------- MODULE MCZoneTransfers ----------------------------
(* Instances of ZoneTransfers for TLC: zones, clients and threads are model values. *)
EXTENDS ZoneTransfers, TLC

CONSTANTS z1, z2, c1, c2, t1, t2

TransferSymmetry == Permutations(Zones) \union Permutations(Clients) \union Permutations(Threads)
=============================================================================
