------------------------- MODULE MCEseApplications -------------------------
(* getCplcTest with two threads beside another program.                    *)
EXTENDS EseApplications, TLC

CONSTANTS p1, p2, t1, t2, t3

TwoAndOne == t1 :> p1 @@ t2 :> p1 @@ t3 :> p2

TestAndOther == p1 :> {"getCplcTest"} @@ p2 :> {"MainActivity", "client"}
=============================================================================
