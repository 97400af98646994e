----------------------------- MODULE MCDomainIds -----------------------------
(* Instances of DomainIds for TLC: zones and threads are model values.  A thread that has *)
(* been told every id goes on asking, so there is always a next step.                     *)
EXTENDS DomainIds

CONSTANTS z1, z2, z3, z4, t1, t2, t3
=============================================================================
