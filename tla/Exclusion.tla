------------------------------ MODULE Exclusion ------------------------------
(***************************************************************************)
(* What a lock promises, whatever it is made of: actors come and go, and   *)
(* none comes while another is there.  The monitor's lockfile (PidLock)    *)
(* implements it when monitors are started one at a time.                  *)
(***************************************************************************)
CONSTANT Actors
VARIABLE inside   \* the actors that hold the lock

Init == inside = {}

Enter(a) ==
    /\ inside = {}
    /\ inside' = {a}

Leave(a) ==
    /\ inside = {a}
    /\ inside' = {}

Next == \E a \in Actors : Enter(a) \/ Leave(a)

Spec == Init /\ [][Next]_inside
=============================================================================
