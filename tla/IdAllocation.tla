----------------------------- MODULE IdAllocation -----------------------------
(***************************************************************************)
(* What domain ids promise: a zone is given an id at most once, and no id  *)
(* is given to two zones.  `given` holds the pairs given so far.           *)
(***************************************************************************)
VARIABLE given

Give(name, number) ==
    /\ \A p \in given : p[1] # name /\ p[2] # number
    /\ given' = given \union {<<name, number>>}

Init == given = {}
Next == \E p \in given' \ given : Give(p[1], p[2])

Spec == Init /\ [][Next]_given
=============================================================================
