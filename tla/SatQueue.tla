------------------------------- MODULE SatQueue -------------------------------
(***************************************************************************)
(* The SAT command queue of src/src/sat_manager.c: a GQueue held by value  *)
(* in struct custom_data, used as an array.  The id under which a command  *)
(* is announced to clients is its position at the moment it was queued, so *)
(* "by id" means "at that position now": every removal renumbers what is   *)
(* behind it.                                                              *)
(*                                                                         *)
(* A queue is a sequence of entries; position p of the C queue is element  *)
(* p + 1 of the sequence.                                                  *)
(***************************************************************************)
EXTENDS Naturals, Sequences

CONSTANT QMax       \* SAT_DEF_CMD_Q_MAX; 10 in the code

ASSUME QMaxAssumption == QMax \in Nat /\ QMax >= 2

\* The number of entries _push_data lets in: it tests for QMax - 1, not QMax.
Capacity == QMax - 1

Full(q) == Len(q) = Capacity

\* Variants: the id taken after the push, a push that forgets the limit, one that
\* keeps a place free, one at the head, a dequeue that only looks, one that takes
\* the head.
IdAfterPush(q) == Len(q) + 1
PushUnbounded(q, e) == Append(q, e)
PushBelow(q, e) == IF Len(q) + 1 >= Capacity THEN q ELSE Append(q, e)
PushHead(q, e) == IF Full(q) THEN q ELSE << e >> \o q
PopNothing(q, id) == q
PopHead(q, id) == Tail(q)

\* sat_manager_enqueue_cmd: the id is the length before the push, whatever
\* becomes of the push.
NextId(q) == Len(q)

\* _push_data: an entry that does not fit is dropped; no caller looks at the
\* result.
Push(q, e) == IF Full(q) THEN q ELSE Append(q, e)

\* g_queue_peek_nth and g_queue_pop_nth find a link for this id.
Present(q, id) == id \in 0 .. (Len(q) - 1)

At(q, id) == q[id + 1]

\* _pop_nth_data with a link: the entries behind it move one place forward.
Pop(q, id) == [i \in 1 .. (Len(q) - 1) |-> IF i <= id THEN q[i] ELSE q[i + 1]]

\* _pop_nth_data without a link: g_queue_pop_nth returns NULL, which is copied
\* from.  Only the empty queue is caught before.
PopFaults(q, id) == q # << >> /\ ~Present(q, id)
=============================================================================
