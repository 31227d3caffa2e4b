---------------------------- MODULE ApduExchange ----------------------------
(***************************************************************************)
(* What a client may rely on in an exchange with the secure element: what  *)
(* was asked for ends, with an answer of the element or without one, and   *)
(* an answer stays with its caller until that asks again.                  *)
(***************************************************************************)
CONSTANT Calls
VARIABLES asked,    \* those whose exchange is under way
          answered  \* those whose latest exchange brought an answer

vars == <<asked, answered>>

Init == asked = {} /\ answered = {}

Ask(c) ==
    /\ c \notin asked
    /\ asked' = asked \cup {c}
    /\ answered' = answered \ {c}

Answer(c) ==
    /\ c \in asked
    /\ asked' = asked \ {c}
    /\ answered' = answered \cup {c}

Fail(c) ==
    /\ c \in asked
    /\ asked' = asked \ {c}
    /\ UNCHANGED answered

(* Whoever serves the exchanges is gone, and all under way with it.        *)
Lose ==
    /\ asked # {}
    /\ asked' = {}
    /\ UNCHANGED answered

Next ==
    \/ \E c \in Calls : Ask(c) \/ Answer(c) \/ Fail(c)
    \/ Lose

Spec == Init /\ [][Next]_vars

(* Every exchange ends.                                                    *)
FairSpec == Spec /\ \A c \in Calls : WF_vars(Answer(c) \/ Fail(c))
=============================================================================
