---------------------------- MODULE MCEseGetCplc ----------------------------
(* A small instance of EseGetCplc: a process with two threads and two with *)
(* a single thread.                                                        *)
EXTENDS EseGetCplc, TLC

CONSTANTS p1, p2, p3, t1, t2, t3, t4

TwoOneAndOne == t1 :> p1 @@ t2 :> p1 @@ t3 :> p2 @@ t4 :> p3

Answers == {[len |-> 47, chip |-> "valid"]}

OutOfMemory == {-65524}
=============================================================================
