----------------------------- MODULE ProactiveCommand -----------------------------
(***************************************************************************)
(* What the SAT manager promises about a proactive command, whoever        *)
(* answers it and however: it is answered at most once, and once it has    *)
(* been answered or given up that is final.                                *)
(***************************************************************************)
CONSTANT Numbers

VARIABLE fate       \* of each command number

Fates == {"none", "pending", "answered", "gone"}

Init == fate = [n \in Numbers |-> "none"]

\* A command is received: it is left for a client to answer, answered at once,
\* or given up.
Receive(n) ==
    /\ fate[n] = "none"
    /\ \E f \in Fates \ {"none"} : fate' = [fate EXCEPT ![n] = f]

\* A pending command gets its response, or loses its chance of one.
Settle(n) ==
    /\ fate[n] = "pending"
    /\ \E f \in {"answered", "gone"} : fate' = [fate EXCEPT ![n] = f]

\* The end of a session gives up everything that is pending.
EndSession ==
    fate' = [n \in Numbers |-> IF fate[n] = "pending" THEN "gone" ELSE fate[n]]

Next == EndSession \/ \E n \in Numbers : Receive(n) \/ Settle(n)

Spec == Init /\ [][Next]_fate
=============================================================================
