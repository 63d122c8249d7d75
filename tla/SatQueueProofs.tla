----------------------------- MODULE SatQueueProofs -----------------------------
(***************************************************************************)
(* What the operations of the SAT command queue do, for every queue.       *)
(***************************************************************************)
EXTENDS SatQueue, TLAPS

\* There is room for at least one command.
LEMMA CapacityPositive == Capacity \in Nat /\ Capacity >= 1
BY QMaxAssumption DEF Capacity

\* A push keeps what is queued where it is; the new entry comes last, if at all.
LEMMA PushFacts ==
    ASSUME NEW S, NEW q \in Seq(S), NEW e \in S, Len(q) <= Capacity
    PROVE  /\ Push(q, e) \in Seq(S)
           /\ Len(Push(q, e)) <= Capacity
           /\ Len(Push(q, e)) \in Len(q) .. (Len(q) + 1)
           /\ \A i \in 1 .. Len(q) : Push(q, e)[i] = q[i]
           /\ Len(Push(q, e)) = Len(q) + 1 => Push(q, e)[Len(q) + 1] = e
BY CapacityPositive DEF Push, Full

\* A pop removes the entry at the id, and moves those behind it one place.
LEMMA PopFacts ==
    ASSUME NEW S, NEW q \in Seq(S), NEW id \in Nat, Present(q, id)
    PROVE  /\ Pop(q, id) \in Seq(S)
           /\ Len(Pop(q, id)) = Len(q) - 1
           /\ \A i \in 1 .. (Len(q) - 1) :
                 Pop(q, id)[i] = IF i <= id THEN q[i] ELSE q[i + 1]
           /\ At(q, id) \in S
BY DEF Pop, Present, At

\* The pop that follows a push with the id of that push: it does not fault only
\* if the push succeeded, and then restores the queue and finds the entry.
LEMMA PushThenPop ==
    ASSUME NEW S, NEW q \in Seq(S), NEW e \in S, Len(q) <= Capacity,
           ~PopFaults(Push(q, e), NextId(q))
    PROVE  /\ Pop(Push(q, e), NextId(q)) = q
           /\ At(Push(q, e), NextId(q)) = e
<1>1. ~Full(q)
  BY CapacityPositive DEF PopFaults, Push, Full, Present, NextId
<1>2. Push(q, e) = Append(q, e)
  BY <1>1 DEF Push
<1>3. Pop(Append(q, e), Len(q)) = [i \in 1 .. Len(q) |-> q[i]]
  BY DEF Pop
<1>4. q = [i \in 1 .. Len(q) |-> q[i]]
  OBVIOUS
<1>. QED
  BY <1>2, <1>3, <1>4 DEF NextId, At
=============================================================================
