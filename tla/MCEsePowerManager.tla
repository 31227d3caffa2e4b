------------------------- MODULE MCEsePowerManager -------------------------
(***************************************************************************)
(* Instances of EsePowerManager for TLC: which thread belongs to which     *)
(* process.                                                                *)
(***************************************************************************)
EXTENDS EsePowerManager, TLC

CONSTANTS t1, t2, t3, t4, p1, p2, p3, p4

(* Process p1 has two threads, as in getCplcTest; the others have one, as  *)
(* the command-line client has.                                            *)
TwoAndOne    == t1 :> p1 @@ t2 :> p1 @@ t3 :> p2
OneEach      == t1 :> p1 @@ t2 :> p2 @@ t3 :> p3 @@ t4 :> p4
========================================
