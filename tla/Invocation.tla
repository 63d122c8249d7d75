-------------------------------- MODULE Invocation --------------------------------
(***************************************************************************)
(* What the plugin promises about a D-Bus call, whatever the method, the   *)
(* modem and the other calls: it gets one reply at most, a success never   *)
(* without its request having been accepted before, and once it has its    *)
(* reply or was forgotten that is final.  A call may bring the daemon      *)
(* down; nothing moves after that.                                         *)
(***************************************************************************)
CONSTANT Numbers

VARIABLES
    fate,       \* of each call
    stopped     \* the daemon is down

vars == <<fate, stopped>>

Init ==
    /\ fate = [n \in Numbers |-> "none"]
    /\ stopped = FALSE

Becomes(n, f) == fate' = [fate EXCEPT ![n] = f]

\* A call is accepted, answered at once but not with a success, or forgotten.
Make(n) ==
    /\ ~stopped
    /\ fate[n] = "none"
    /\ \E f \in {"pending", "answered", "forgotten"} : Becomes(n, f)
    /\ UNCHANGED stopped

\* A call that is never answered, nor is any after it.
Break(n) ==
    /\ ~stopped
    /\ fate[n] = "none"
    /\ Becomes(n, "forgotten")
    /\ stopped' = TRUE

\* An accepted call gets its reply, or loses its chance of one.
Finish(n) ==
    /\ ~stopped
    /\ fate[n] = "pending"
    /\ \E f \in {"succeeded", "answered", "forgotten"} : Becomes(n, f)
    /\ UNCHANGED stopped

Next == \E n \in Numbers : Make(n) \/ Break(n) \/ Finish(n)

Spec == Init /\ [][Next]_vars
=============================================================================
