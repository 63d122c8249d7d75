-------------------------- MODULE SatRefinementProofs --------------------------
(***************************************************************************)
(* SatManager implements ProactiveCommand.  Each step changes the fate of  *)
(* one command number at most, except the end of a session: a command that *)
(* is received gets its fate, one that is removed is answered or gone, and *)
(* one that is queued again stays pending while the number it used up,     *)
(* which belongs to no command, is gone at once.                           *)
(***************************************************************************)
EXTENDS SatManagerProofs

fates == [n \in Tickets |-> Fate(n)]

-----------------------------------------------------------------------------
(***************************************************************************)
(* Which commands a queue holds.                                           *)
(***************************************************************************)
Holds(q, n) == \E i \in 1 .. Len(q) : q[i].cmd.no = n

\* The commands in the queue are those whose number is queued.
LEMMA QueueHolds ==
    ASSUME queue \in Seq(Entries), NEW n
    PROVE  Queued(n) <=> Holds(queue, n)
BY DEF Queued, Holds

\* A pop takes one command from the queue and leaves all others in it.
LEMMA PopHolds ==
    ASSUME NEW q \in Seq(Entries), NEW id \in Nat, Present(q, id), Distinct(q),
           NEW n
    PROVE  Holds(Pop(q, id), n) <=> Holds(q, n) /\ n # At(q, id).cmd.no
<1> DEFINE r == Pop(q, id)
<1>1. /\ r \in Seq(Entries)
      /\ Len(r) = Len(q) - 1
      /\ \A i \in 1 .. Len(r) : r[i] = IF i <= id THEN q[i] ELSE q[i + 1]
  BY PopFacts
<1>2. id + 1 \in 1 .. Len(q) /\ At(q, id) = q[id + 1]
  BY DEF Present, At
<1> HIDE DEF r
<1>3. ASSUME Holds(r, n) PROVE Holds(q, n) /\ n # At(q, id).cmd.no
  <2>1. PICK i \in 1 .. Len(r) : r[i].cmd.no = n
    BY <1>3 DEF Holds
  <2>2. PICK j \in 1 .. Len(q) : j # id + 1 /\ r[i] = q[j]
    BY <1>1, <1>2
  <2>. QED
    BY <1>2, <2>1, <2>2 DEF Holds, Distinct
<1>4. ASSUME Holds(q, n), n # At(q, id).cmd.no PROVE Holds(r, n)
  <2>1. PICK j \in 1 .. Len(q) : q[j].cmd.no = n
    BY <1>4 DEF Holds
  <2>2. j # id + 1
    BY <1>2, <1>4, <2>1
  <2>3. PICK i \in 1 .. Len(r) : r[i] = q[j]
    <3>1. CASE j <= id
      BY <1>1, <1>2, <3>1
    <3>2. CASE j > id + 1
      <4>1. j - 1 \in 1 .. Len(r) /\ r[j - 1] = q[j]
        BY <1>1, <1>2, <3>2
      <4>. QED
        BY <4>1
    <3>. QED
      BY <2>2, <3>1, <3>2
  <2>. QED
    BY <2>1, <2>3 DEF Holds
<1>. QED
  BY <1>3, <1>4 DEF r

\* A push puts its command into the queue, unless it is full, and no other.
LEMMA PushHolds ==
    ASSUME NEW q \in Seq(Entries), NEW e \in Entries, NEW n
    PROVE  Holds(Push(q, e), n) <=>
               Holds(q, n) \/ (~Full(q) /\ n = e.cmd.no)
<1>1. CASE Full(q)
  BY <1>1 DEF Push
<1>2. CASE ~Full(q)
  <2> DEFINE r == Append(q, e)
  <2>1. /\ Len(r) = Len(q) + 1
        /\ \A i \in 1 .. Len(q) : r[i] = q[i]
        /\ r[Len(q) + 1] = e
    OBVIOUS
  <2>2. Push(q, e) = r
    BY <1>2 DEF Push
  <2> HIDE DEF r
  <2>3. \A i \in 1 .. Len(r) : i \in 1 .. Len(q) \/ i = Len(q) + 1
    BY <2>1
  <2>4. Len(q) + 1 \in 1 .. Len(r) /\ \A i \in 1 .. Len(q) : i \in 1 .. Len(r)
    BY <2>1
  <2>. QED
    BY <1>2, <2>1, <2>2, <2>3, <2>4 DEF Holds
<1>. QED
  BY <1>1, <1>2
-----------------------------------------------------------------------------
(***************************************************************************)
(* Fates.                                                                  *)
(***************************************************************************)
\* In a reachable state a fate is what it should be: pending while in the queue,
\* then answered or gone, none for a number that was not given out.
FatesKnown ==
    \A n \in Tickets :
        /\ Queued(n) => Fate(n) = "pending" /\ n <= clock
        /\ ~Queued(n) /\ answers[n] = 1 => Fate(n) = "answered"
        /\ ~Queued(n) /\ answers[n] # 1 /\ n <= clock => Fate(n) = "gone"
        /\ n > clock => Fate(n) = "none" /\ ~Queued(n)

\* The invariant gives every number one of these fates.
LEMMA FateValues == IInv => FatesKnown
<1> SUFFICES ASSUME IInv, NEW n \in Tickets
             PROVE  /\ Queued(n) => Fate(n) = "pending" /\ n <= clock
                    /\ ~Queued(n) /\ answers[n] = 1 => Fate(n) = "answered"
                    /\ ~Queued(n) /\ answers[n] # 1 /\ n <= clock
                          => Fate(n) = "gone"
                    /\ n > clock => Fate(n) = "none" /\ ~Queued(n)
  BY DEF FatesKnown
<1>1. n \in Nat /\ clock \in Nat /\ answers[n] \in Nat
  BY TicketsAssumption DEF IInv, TypeOK, Tickets
<1>2. answers[n] <= 1 /\ (Queued(n) => answers[n] = 0)
  BY DEF IInv, AtMostOneResponse
<1>3. Queued(n) => n <= clock
  BY QueueHolds DEF IInv, TypeOK, Bookkeeping, Given, Holds
<1>4. n > clock => answers[n] = 0
  BY DEF IInv, Bookkeeping
<1>. QED
  BY <1>1, <1>2, <1>3, <1>4 DEF Fate

\* A step that changes the fate of one number only, and that as it may, is a step of
\* ProactiveCommand.
LEMMA OneFate ==
    ASSUME NEW no \in Tickets,
           \A n \in Tickets \ {no} : Fate(n)' = Fate(n),
           \/ Fate(no) = "none" /\ Fate(no)' \in {"pending", "answered", "gone"}
           \/ Fate(no) = "pending" /\ Fate(no)' \in {"answered", "gone"}
    PROVE  Card!Next
<1>1. fates' = [fates EXCEPT ![no] = Fate(no)']
  BY DEF fates
<1>2. fates[no] = Fate(no)
  BY DEF fates
<1>3. CASE Fate(no) = "none" /\ Fate(no)' \in {"pending", "answered", "gone"}
  <2>1. Fate(no)' \in Card!Fates \ {"none"}
    BY <1>3 DEF Card!Fates
  <2>. QED
    BY <1>1, <1>2, <1>3, <2>1 DEF Card!Next, Card!Receive, fates
<1>4. CASE Fate(no) = "pending" /\ Fate(no)' \in {"answered", "gone"}
  BY <1>1, <1>2, <1>4 DEF Card!Next, Card!Settle, fates
<1>. QED
  BY <1>3, <1>4
-----------------------------------------------------------------------------
(***************************************************************************)
(* The steps, by their shape.                                              *)
(***************************************************************************)
\* A command that is received gets its fate, and all others keep theirs.
LEMMA ReceiptFate ==
    ASSUME IInv, FatesKnown, FatesKnown', Receipt
    PROVE  Card!Next
<1>0. PICK no \in Tickets : no = clock + 1
  BY TicketsAssumption DEF IInv, TypeOK, Receipt, Tickets
<1>1. queue \in Seq(Entries) /\ clock \in Nat /\ clock' = no /\ no = clock + 1
  BY <1>0, TicketsAssumption DEF IInv, TypeOK, Receipt
<1>2. PICK m \in Modems, k \in CommandKinds :
          \/ queue' = queue
          \/ queue' = Push(queue, [cmd_id |-> NextId(queue), ticket |-> no,
                                   cmd |-> Received(m, k)])
  BY <1>1 DEF Receipt
<1>3. ASSUME NEW n, n # no PROVE Queued(n)' <=> Queued(n)
  <2> DEFINE e == [cmd_id |-> NextId(queue), ticket |-> no, cmd |-> Received(m, k)]
  <2>1. CASE queue' = queue
    BY <2>1 DEF Queued
  <2>2. CASE queue' = Push(queue, e)
    <3>1. TypeOK /\ clock < MaxTickets
      BY DEF IInv, Receipt
    <3>2. e \in Entries /\ e.cmd.no = no
      BY <1>1, <3>1, ReceivedType
    <3>3. queue' \in Seq(Entries)
      <4> HIDE DEF e
      <4>. QED
        BY <1>1, <2>2, <3>1, <3>2, PushFacts DEF TypeOK
    <3>4. Queued(n)' <=> Holds(queue', n)
      BY <3>3 DEF Queued, Holds
    <3> HIDE DEF e
    <3>. QED
      BY <1>1, <1>3, <2>2, <3>2, <3>4, QueueHolds, PushHolds
  <2>. QED
    BY <1>2, <2>1, <2>2
<1>4. ASSUME NEW n \in Tickets \ {no} PROVE Fate(n)' = Fate(n)
  <2>1. /\ answers'[n] = answers[n] /\ (Queued(n)' <=> Queued(n))
        /\ n <= clock' <=> n <= clock
    BY <1>1, <1>3 DEF Receipt, Tickets
  <2>. QED
    BY <2>1 DEF Fate
<1>5. Fate(no) = "none" /\ Fate(no)' \in {"pending", "answered", "gone"}
  BY <1>1 DEF FatesKnown
<1>. QED
  BY <1>4, <1>5, OneFate

\* A command that leaves the queue is answered or gone.
LEMMA RemovalFate ==
    ASSUME IInv, FatesKnown, FatesKnown', Removal
    PROVE  Card!Next
<1>1. PICK id \in Nat :
          /\ Present(queue, id)
          /\ queue' = Pop(queue, id)
          /\ clock' = clock
          /\ LET no == At(queue, id).cmd.no
             IN  \A n \in Tickets \ {no} : answers'[n] = answers[n]
  BY DEF Removal
<1>2. /\ queue \in Seq(Entries) /\ Distinct(queue) /\ queue' \in Seq(Entries)
      /\ At(queue, id) \in Entries
  BY <1>1, PopFacts DEF IInv, TypeOK, Bookkeeping
<1>0. PICK no \in Tickets : no = At(queue, id).cmd.no
  BY <1>2, EntryType
<1>3. \A n : Queued(n)' <=> Queued(n) /\ n # no
  <2> SUFFICES ASSUME NEW n PROVE Queued(n)' <=> Queued(n) /\ n # no
    OBVIOUS
  <2>1. Queued(n)' <=> Holds(queue', n)
    BY <1>2 DEF Queued, Holds
  <2>. QED
    BY <1>0, <1>1, <1>2, <2>1, QueueHolds, PopHolds
<1>4. Queued(no)
  BY <1>0, <1>1, <1>2 DEF Queued, Present, At
<1>5. ASSUME NEW n \in Tickets \ {no} PROVE Fate(n)' = Fate(n)
  BY <1>0, <1>1, <1>3, <1>5 DEF Fate
<1>6. Fate(no) = "pending" /\ Fate(no)' \in {"answered", "gone"}
  <2>1. Fate(no) = "pending" /\ no <= clock'
    BY <1>1, <1>2, <1>4 DEF FatesKnown
  <2>2. ~Queued(no)'
    BY <1>3
  <2>. QED
    BY <1>2, <2>1, <2>2 DEF FatesKnown
<1>. QED
  BY <1>5, <1>6, OneFate

\* A command that is queued again stays pending: the entry it left makes room.
LEMMA RequeueFate ==
    ASSUME IInv, FatesKnown, FatesKnown', Requeue
    PROVE  Card!Next
<1>1. PICK a \in told, m \in Modems :
          /\ Present(queue, a.id)
          /\ QueueAgain(Pop(queue, a.id), At(queue, a.id), m, told \ {a})
          /\ answers' = answers
  BY DEF Requeue
<1> DEFINE q == Pop(queue, a.id)
           entry == At(queue, a.id)
           e == [entry EXCEPT !.cmd_id = NextId(q), !.ticket = clock']
<1>2. /\ queue \in Seq(Entries) /\ Len(queue) <= Capacity /\ Distinct(queue)
      /\ a.id \in Nat /\ entry \in Entries
      /\ q \in Seq(Entries) /\ Len(q) = Len(queue) - 1
      /\ clock \in Nat
  BY <1>1, ToldType, PopFacts, TicketsAssumption DEF IInv, TypeOK, Bookkeeping
<1>0. PICK no \in Tickets : no = clock + 1
  BY <1>1, <1>2, TicketsAssumption DEF QueueAgain, Tickets
<1>3. clock' = no /\ clock' \in Tickets /\ queue' = Push(q, e)
  BY <1>0, <1>1 DEF QueueAgain
<1>4. e \in Entries /\ e.cmd = entry.cmd
  <2>1. NextId(q) \in Nat
    BY <1>2 DEF NextId
  <2> HIDE DEF q, entry
  <2>2. entry \in Entries /\ clock' \in Tickets
    BY <1>2, <1>3
  <2>. QED
    BY <2>1, <2>2 DEF Entries
<1>5. ~Full(q) /\ Len(q) <= Capacity
  BY <1>2, CapacityPositive DEF Full
<1>6. Queued(entry.cmd.no)
  BY <1>1, <1>2 DEF Queued, Present, At
<1>7. \A n : Queued(n)' <=> Queued(n)
  <2> SUFFICES ASSUME NEW n PROVE Queued(n)' <=> Queued(n)
    OBVIOUS
  <2>1. Holds(q, n) <=> Holds(queue, n) /\ n # entry.cmd.no
    BY <1>1, <1>2, PopHolds
  <2> HIDE DEF q, entry, e
  <2>2. Holds(queue', n) <=> Holds(q, n) \/ n = e.cmd.no
    BY <1>2, <1>3, <1>4, <1>5, PushHolds
  <2>3. queue' \in Seq(Entries)
    BY <1>2, <1>3, <1>4, <1>5, PushFacts
  <2>4. Queued(n)' <=> Holds(queue', n)
    BY <2>3 DEF Queued, Holds
  <2>. QED
    BY <1>2, <1>4, <1>6, <2>1, <2>2, <2>4, QueueHolds
<1> HIDE DEF q, entry, e
<1>8. ASSUME NEW n \in Tickets \ {no} PROVE Fate(n)' = Fate(n)
  <2>1. n <= clock' <=> n <= clock
    BY <1>0, <1>2, <1>3 DEF Tickets
  <2>. QED
    BY <1>1, <1>7, <2>1 DEF Fate
<1>9. Fate(no) = "none" /\ Fate(no)' \in {"pending", "answered", "gone"}
  BY <1>0, <1>2, <1>3 DEF FatesKnown
<1>. QED
  BY <1>8, <1>9, OneFate

\* A session that ends gives up what is pending.
LEMMA EmptiesFate ==
    ASSUME IInv, FatesKnown, FatesKnown', Empties
    PROVE  Card!Next
<1>1. \A n : ~Queued(n)'
  BY DEF Empties, Queued
<1>2. ASSUME NEW n \in Tickets
      PROVE  Fate(n)' = IF Fate(n) = "pending" THEN "gone" ELSE Fate(n)
  <2>1. n \in Nat /\ clock \in Nat /\ answers[n] \in Nat
    BY TicketsAssumption DEF IInv, TypeOK, Tickets
  <2>2. CASE Queued(n)
    <3>1. answers[n] = 0 /\ n <= clock /\ Fate(n) = "pending"
      BY <2>2 DEF IInv, AtMostOneResponse, FatesKnown
    <3>2. Fate(n)' = "gone"
      BY <1>1, <3>1 DEF Empties, FatesKnown
    <3>. QED
      BY <3>1, <3>2
  <2>3. CASE ~Queued(n)
    <3>1. Fate(n)' = Fate(n)
      BY <1>1, <2>3 DEF Empties, Fate
    <3>2. Fate(n) # "pending"
      BY <2>1, <2>3 DEF FatesKnown
    <3>. QED
      BY <3>1, <3>2
  <2>. QED
    BY <2>2, <2>3
<1>3. fates' = [n \in Tickets |-> IF fates[n] = "pending" THEN "gone" ELSE fates[n]]
  BY <1>2 DEF fates
<1>. QED
  BY <1>3 DEF Card!Next, Card!EndSession, fates

\* A step that leaves the queue and the responses alone changes no fate.
LEMMA RestsFate ==
    ASSUME Rests
    PROVE  fates' = fates
BY DEF Rests, fates, Fate, Queued
-----------------------------------------------------------------------------
\* A step maps to a step of ProactiveCommand or to none.
LEMMA CardStep ==
    ASSUME IInv, FatesKnown, FatesKnown', [Next]_vars
    PROVE  Card!Next \/ fates' = fates
<1>1. CASE UNCHANGED vars
  BY <1>1, RestsFate DEF vars, Rests
<1>2. CASE Next
  BY <1>2, StepShape, ReceiptFate, RemovalFate, RequeueFate, EmptiesFate, RestsFate
  DEF IInv
<1>. QED
  BY <1>1, <1>2

\* At the start no number has a fate.
LEMMA CardInit ==
    ASSUME Init
    PROVE  Card!Init
<1>1. ASSUME NEW n \in Tickets PROVE Fate(n) = "none"
  BY DEF Init, Fate, Queued, Tickets
<1>. QED
  BY <1>1 DEF Card!Init

\* The SAT manager implements ProactiveCommand, whoever answers its commands: a
\* card sees each command answered at most once, and never after it was given up.
THEOREM ImplementsProactiveCommand == Spec => CardView
<1>1. IInv /\ IInv' /\ [Next]_vars => [Card!Next]_fates
  <2>1. IInv' => FatesKnown'
    BY FateValues, PTL
  <2>. QED
    BY <2>1, FateValues, CardStep
<1>2. Init => Card!Init
  BY CardInit
<1>. QED
  BY <1>1, <1>2, InvariantHolds, PTL DEF Spec, CardView, Card!Spec, fates
=============================================================================
