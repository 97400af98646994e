---------------------------- MODULE MCNotifications ----------------------------
(* Instances of Notifications for TLC: zones and threads are model values. *)
EXTENDS Notifications, TLC

CONSTANTS z1, z2, t1

\* Zones at first: one that fails every poll and one whose serial can go down; none and one
\* whose serial can go down; none and one that fails every poll.
SomeStarts ==
    {z1 :> Plain("untyped") @@ z2 :> Master(2),
     z1 :> Plain("absent")  @@ z2 :> Master(2),
     z1 :> Plain("absent")  @@ z2 :> Master(NoSerial)}
=============================================================================
