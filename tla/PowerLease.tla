----------------------------- MODULE PowerLease -----------------------------
(***************************************************************************)
(* What the power manager promises its clients: a shared element is        *)
(* powered while anyone holds a lease on it, and does not stay powered     *)
(* for nobody.  A lease is granted only on a powered element.              *)
(***************************************************************************)
CONSTANT Threads    \* those who may hold a lease
VARIABLES power,    \* is the element powered?
          holders   \* those whose powerOn was granted

vars == <<power, holders>>

Init == power = FALSE /\ holders = {}

PowerUp ==
    /\ ~power
    /\ power' = TRUE
    /\ UNCHANGED holders

Grant(t) ==
    /\ power
    /\ t \notin holders
    /\ holders' = holders \cup {t}
    /\ UNCHANGED power

Release(t) ==
    /\ t \in holders
    /\ holders' = holders \ {t}
    /\ UNCHANGED power

PowerDown ==
    /\ power
    /\ holders = {}
    /\ power' = FALSE
    /\ UNCHANGED holders

Next ==
    \/ PowerUp
    \/ PowerDown
    \/ \E t \in Threads : Grant(t) \/ Release(t)

Spec == Init /\ [][Next]_vars

(* An element that nobody leases is powered down or leased again.          *)
PowerSaved == WF_vars(PowerDown)
=============================================================================
