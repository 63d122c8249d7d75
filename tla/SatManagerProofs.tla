---------------------------- MODULE SatManagerProofs ----------------------------
(***************************************************************************)
(* Theorems of SatManager, for every number of modems, queue size, set of  *)
(* commands and set of answers.                                            *)
(***************************************************************************)
EXTENDS SatManager, SatQueueProofs, SatCommandsProofs

-----------------------------------------------------------------------------
(***************************************************************************)
(* The helpers of the actions.                                             *)
(***************************************************************************)

\* Whether it is dispatched or not, a terminal response counts for its own
\* command only.
LEMMA ResponseFacts ==
    ASSUME TypeOK,
           NEW cmd \in Commands, NEW via \in Modems, NEW as \in Types,
           NEW said \in Says, NEW meant \in Tickets, NEW result \in Results,
           \E dispatched \in SendOutcomes :
               SendTerminalResponse(cmd, via, as, said, meant, result, dispatched)
    PROVE  /\ answers' \in [Tickets -> Nat]
           /\ sent' \in SUBSET TerminalResponses
           /\ answers'[cmd.no] \in {answers[cmd.no], answers[cmd.no] + 1}
           /\ \A n \in Tickets \ {cmd.no} : answers'[n] = answers[n]
           /\ \A tr \in sent' :
                 tr.cmd = cmd /\ tr.said = said /\ tr.result = result
<1> DEFINE tr == [cmd |-> cmd, via |-> via, as |-> as, said |-> said,
                  meant |-> meant, result |-> result]
<1>1. tr \in TerminalResponses /\ tr.cmd = cmd /\ tr.said = said
      /\ tr.result = result
  BY DEF TerminalResponses
<1>2. cmd.no \in Tickets /\ answers \in [Tickets -> Nat]
  BY DEF Commands, TypeOK
<1>3. \/ sent' = {tr} /\ answers' = [answers EXCEPT ![cmd.no] = @ + 1]
      \/ sent' = {} /\ answers' = answers
  BY DEF SendTerminalResponse, SendNothing
<1> HIDE DEF tr
<1>. QED
  BY <1>1, <1>2, <1>3

\* The announcements of a command have the type of announcements.
LEMMA AnnounceType ==
    ASSUME NEW cmd \in Commands, NEW id \in Nat, NEW ticket \in Tickets,
           NEW asks \in SUBSET Asks, NEW m \in Modems
    PROVE  Announce(cmd, id, ticket, asks, m) \subseteq Announcements
BY DEF Announce, Announcements

\* Queueing again keeps the types.
LEMMA QueueAgainType ==
    ASSUME TypeOK, NEW q \in Seq(Entries), Len(q) <= Capacity,
           NEW entry \in Entries, NEW m \in Modems,
           NEW announcements \in SUBSET Announcements,
           QueueAgain(q, entry, m, announcements)
    PROVE  /\ queue' \in Seq(Entries)
           /\ Len(queue') <= Capacity
           /\ clock' = clock + 1
           /\ clock' \in Tickets
           /\ told' \subseteq Announcements
<1> DEFINE again == [entry EXCEPT !.cmd_id = NextId(q), !.ticket = clock']
<1>1. clock' = clock + 1 /\ clock' \in Tickets
  BY TicketsAssumption DEF QueueAgain, TypeOK, Tickets
<1>2. again \in Entries
  <2>1. NextId(q) \in Nat
    BY DEF NextId
  <2> HIDE DEF Entries
  <2>2. again = [entry EXCEPT !.cmd_id = NextId(q), !.ticket = clock']
    OBVIOUS
  <2>. QED
    BY <1>1, <2>1, <2>2 DEF Entries
<1>3. queue' = Push(q, again)
  BY DEF QueueAgain
<1>4. queue' \in Seq(Entries) /\ Len(queue') <= Capacity
  <2> HIDE DEF again
  <2>. QED
    BY <1>2, <1>3, PushFacts
<1>5. Announce(entry.cmd, NextId(q), clock', {"exec"}, m) \subseteq Announcements
  BY <1>1, AnnounceType DEF Entries, NextId, Asks
<1>. QED
  BY <1>1, <1>4, <1>5 DEF QueueAgain

\* A command as it is received, and its entry.
LEMMA ReceivedType ==
    ASSUME TypeOK, NEW m \in Modems, NEW k \in CommandKinds, clock < MaxTickets
    PROVE  /\ Received(m, k) \in Commands
           /\ Received(m, k).no = clock + 1
           /\ Received(m, k).kind = k
           /\ k \in Kinds
           /\ k.type \in Types
           /\ clock + 1 \in Tickets
           /\ [cmd_id |-> NextId(queue), ticket |-> clock + 1,
               cmd |-> Received(m, k)] \in Entries
BY KindsAssumption, TicketsAssumption
DEF TypeOK, Received, Commands, Kinds, Tickets, Entries, NextId

\* What a client was told, and the entry that its id names now.
LEMMA ToldType ==
    ASSUME TypeOK, NEW a \in told
    PROVE  /\ a.id \in Nat
           /\ a.cmd.kind.type \in Types
           /\ a.cmd.no \in Tickets
           /\ told \ {a} \subseteq Announcements
           /\ Present(queue, a.id) => /\ At(queue, a.id) \in Entries
                                      /\ At(queue, a.id).cmd \in Commands
                                      /\ At(queue, a.id).cmd.kind \in Kinds
                                      /\ At(queue, a.id).cmd.kind.type \in Types
                                      /\ Pop(queue, a.id) \in Seq(Entries)
                                      /\ Len(Pop(queue, a.id)) <= Capacity
<1>1. a \in Announcements
  BY DEF TypeOK
<1>2. /\ a.id \in Nat
      /\ a.cmd.kind.type \in Types
      /\ a.cmd.no \in Tickets
      /\ told \ {a} \subseteq Announcements
  BY <1>1, KindsAssumption DEF TypeOK, Announcements, Commands, Kinds
<1>3. ASSUME Present(queue, a.id)
      PROVE  /\ At(queue, a.id) \in Entries
             /\ Pop(queue, a.id) \in Seq(Entries)
             /\ Len(Pop(queue, a.id)) <= Capacity
  BY <1>2, <1>3, PopFacts, CapacityPositive DEF TypeOK
<1>4. \A e \in Entries :
          e.cmd \in Commands /\ e.cmd.kind \in Kinds /\ e.cmd.kind.type \in Types
  BY KindsAssumption DEF Entries, Commands, Kinds
<1>. QED
  BY <1>2, <1>3, <1>4
-----------------------------------------------------------------------------
(***************************************************************************)
(* Type correctness.                                                       *)
(***************************************************************************)

\* No terminal response was sent and the count is unchanged.
LEMMA NothingSent ==
    ASSUME TypeOK, SendNothing
    PROVE  /\ answers' \in [Tickets -> Nat]
           /\ sent' \in SUBSET TerminalResponses
           /\ answers' = answers
           /\ sent' = {}
BY DEF TypeOK, SendNothing

\* Whatever screens are gone, what is left are announcements.
LEMMA ScreensLeft ==
    ASSUME NEW announcements \in SUBSET Announcements,
           TerminateSatUi(announcements)
    PROVE  told' \subseteq announcements /\ told' \subseteq Announcements
BY DEF TerminateSatUi

\* The type invariant is inductive: every notification and every call keeps it.
\* The bound on the queue needs that a push checks it, the announcements that the
\* command is known before it is announced.
LEMMA TypeStep == TypeOK /\ [Next]_vars => TypeOK'
<1> SUFFICES ASSUME TypeOK, [Next]_vars PROVE TypeOK'
  OBVIOUS
<1>1. ASSUME NEW m \in Modems, SessionEnd(m) PROVE TypeOK'
  <2>1. told' \subseteq Announcements
    BY <1>1, ScreensLeft DEF SessionEnd, TypeOK
  <2>2. queue' \in Seq(Entries) /\ Len(queue') <= Capacity
    BY <1>1, CapacityPositive DEF SessionEnd
  <2>. QED
    BY <1>1, <2>1, <2>2, NothingSent DEF SessionEnd, TypeOK
<1>2. ASSUME NEW m \in Modems, NEW k \in CommandKinds, ReceiveUnqueued(m, k)
      PROVE  TypeOK'
  <2>1. clock < MaxTickets /\ clock' = clock + 1 /\ clock' \in Tickets
    BY <1>2, ReceivedType DEF ReceiveUnqueued, Receive
  <2>2. Received(m, k) \in Commands /\ k \in Kinds /\ k.type \in Types
    BY <2>1, ReceivedType
  <2>3. answers' \in [Tickets -> Nat] /\ sent' \in SUBSET TerminalResponses
    <3>1. CASE Intake(k) = "DROP"
      BY <1>2, <3>1, NothingSent DEF ReceiveUnqueued
    <3>2. CASE Intake(k) # "DROP"
      <4>1. Intake(k) \in Results
        BY <1>2, <2>2, <3>2, IntakeType DEF ReceiveUnqueued
      <4>2. PICK dispatched \in SendOutcomes :
                SendTerminalResponse(Received(m, k), m, k.type, "PLUGIN", clock',
                                     Intake(k), dispatched)
        BY <1>2, <3>2 DEF ReceiveUnqueued
      <4>3. dispatched \in BOOLEAN /\ "PLUGIN" \in Says
        BY SendAssumption DEF Says
      <4>. QED
        BY <2>1, <2>2, <4>1, <4>2, <4>3, ResponseFacts
    <3>. QED
      BY <3>1, <3>2
  <2>. QED
    BY <1>2, <2>1, <2>3 DEF ReceiveUnqueued, Receive, TypeOK, Tickets
<1>3. ASSUME NEW m \in Modems, NEW k \in CommandKinds, ReceiveQueued(m, k)
      PROVE  TypeOK'
  <2>1. clock < MaxTickets /\ clock' = clock + 1 /\ clock' \in Tickets
    BY <1>3, ReceivedType DEF ReceiveQueued, Receive
  <2>2. queue' \in Seq(Entries) /\ Len(queue') <= Capacity
    BY <1>3, <2>1, ReceivedType, PushFacts DEF ReceiveQueued, TypeOK
  <2>3. told' \subseteq Announcements
    <3>0. k \in Kinds
      BY KindsAssumption
    <3>1. AsksFor(k) \in SUBSET Asks /\ NextId(queue) \in Nat
      BY <3>0, AsksType DEF NextId, TypeOK
    <3>2. Announce(Received(m, k), NextId(queue), clock', AsksFor(k), m)
              \subseteq Announcements
      BY <2>1, <3>1, ReceivedType, AnnounceType
    <3>. QED
      BY <1>3, <3>2 DEF ReceiveQueued, TypeOK
  <2>. QED
    BY <1>3, <2>1, <2>2, <2>3, NothingSent
    DEF ReceiveQueued, Receive, TypeOK, Tickets
<1>4. ASSUME Crash PROVE TypeOK'
  BY <1>4, NothingSent DEF Crash, TypeOK
<1>5. ASSUME NEW m \in Modems, NEW k \in CommandKinds, ReceiveMenu(m, k)
      PROVE  TypeOK'
  <2> DEFINE cmd == Received(m, k)
             id == NextId(queue)
             e == [cmd_id |-> id, ticket |-> clock + 1, cmd |-> cmd]
             q == Push(queue, e)
  <2>1. CASE PopFaults(q, id)
    BY <1>4, <1>5, <2>1 DEF ReceiveMenu
  <2>2. CASE ~PopFaults(q, id)
    <3>1. /\ clock < MaxTickets
          /\ Receive
          /\ menu' = {cmd}
          /\ queue' = Pop(q, id)
          /\ TerminateSatUi(told \cup Announce(cmd, id, clock', AsksFor(k), m))
          /\ UNCHANGED crashed
          /\ k.type = "SETUP_MENU"
      BY <1>5, <2>2 DEF ReceiveMenu
    <3>2. /\ clock' = clock + 1 /\ clock' \in Tickets
          /\ cmd \in Commands /\ e \in Entries /\ k \in Kinds
      BY <3>1, ReceivedType DEF Receive
    <3>3. queue' = queue /\ At(q, id) = e
      <4> HIDE DEF e
      <4>. QED
        BY <2>2, <3>1, <3>2, PushThenPop DEF TypeOK
    <3>4. PICK dispatched \in SendOutcomes, result \in Results :
              SendTerminalResponse(At(q, id).cmd, m, "SETUP_MENU", "PLUGIN",
                                   clock', result, dispatched)
      BY <1>5, <2>2 DEF ReceiveMenu
    <3>5. answers' \in [Tickets -> Nat] /\ sent' \in SUBSET TerminalResponses
      <4>1. /\ At(q, id).cmd \in Commands
            /\ dispatched \in BOOLEAN
            /\ "PLUGIN" \in Says
            /\ "SETUP_MENU" \in Types
        BY <3>2, <3>3, SendAssumption DEF Says, Types, ExecTypes
      <4>. QED
        BY <3>2, <3>4, <4>1, ResponseFacts
    <3>6. told' \subseteq Announcements
      <4>1. AsksFor(k) \in SUBSET Asks /\ id \in Nat
        BY <3>2, AsksType DEF NextId, TypeOK
      <4>2. Announce(cmd, id, clock', AsksFor(k), m) \subseteq Announcements
        BY <3>2, <4>1, AnnounceType
      <4>. QED
        BY <3>1, <4>2, ScreensLeft DEF TypeOK
    <3>. QED
      BY <3>1, <3>2, <3>3, <3>5, <3>6 DEF Receive, TypeOK, Tickets
  <2>. QED
    BY <2>1, <2>2
<1>6. ASSUME GetMainMenuInfo PROVE TypeOK'
  BY <1>6, NothingSent DEF GetMainMenuInfo, TypeOK
<1>7. ASSUME NEW a \in told, NEW m \in Modems, NEW resp \in Responses,
             SendAppExecResult(a, m, resp)
      PROVE  TypeOK'
  <2> DEFINE as == a.cmd.kind.type
             cmd == At(queue, a.id).cmd
  <2>1. CASE as \notin ExecTypes \/ queue = << >>
    BY <1>7, <2>1, ToldType, ScreensLeft, NothingSent DEF SendAppExecResult, TypeOK
  <2>2. CASE /\ ~(as \notin ExecTypes \/ queue = << >>)
             /\ PopFaults(queue, a.id)
    BY <1>4, <1>7, <2>2 DEF SendAppExecResult
  <2>3. CASE /\ ~(as \notin ExecTypes \/ queue = << >>)
             /\ ~PopFaults(queue, a.id)
    <3>1. Present(queue, a.id)
      BY <2>3 DEF PopFaults
    <3>2. /\ queue' = Pop(queue, a.id)
          /\ TerminateSatUi(told \ {a})
          /\ UNCHANGED <<menu, clock, crashed>>
      BY <1>7, <2>3 DEF SendAppExecResult
    <3>3. PICK dispatched \in SendOutcomes, result \in Results :
              /\ SendTerminalResponse(cmd, m, as, resp, a.cmd.no, result,
                                      dispatched)
              /\ reply' = IF dispatched THEN "1" ELSE "0"
      BY <1>7, <2>3 DEF SendAppExecResult
    <3>4. dispatched \in BOOLEAN /\ resp \in Says
      BY SendAssumption, ResponsesAssumption DEF Says
    <3>5. answers' \in [Tickets -> Nat] /\ sent' \in SUBSET TerminalResponses
      BY <3>1, <3>3, <3>4, ToldType, ResponseFacts
    <3>. QED
      BY <3>1, <3>2, <3>3, <3>5, ToldType, ScreensLeft DEF TypeOK
  <2>. QED
    BY <2>1, <2>2, <2>3
<1>8. ASSUME NEW a \in told, NEW m \in Modems, NEW confirm \in UserAnswers,
             SendUserConfirm(a, m, confirm)
      PROVE  TypeOK'
  <2> DEFINE entry == At(queue, a.id)
             type == entry.cmd.kind.type
             answer == ConfirmResult(entry.cmd.kind, confirm)
  <2>1. CASE ~Present(queue, a.id) \/ type \notin ConfirmTypes
    BY <1>8, <2>1, ToldType, NothingSent DEF SendUserConfirm, TypeOK
  <2>2. CASE /\ Present(queue, a.id) /\ type \in ConfirmTypes
             /\ answer = "AGAIN"
    <3>1. /\ QueueAgain(Pop(queue, a.id), entry, m, told \ {a})
          /\ SendNothing
          /\ reply' = "1"
          /\ UNCHANGED <<menu, crashed>>
      BY <1>8, <2>2 DEF SendUserConfirm
    <3>2. /\ queue' \in Seq(Entries)
          /\ Len(queue') <= Capacity
          /\ clock' \in Tickets
          /\ told' \subseteq Announcements
      BY <2>2, <3>1, ToldType, QueueAgainType
    <3>. QED
      BY <3>1, <3>2, NothingSent DEF TypeOK, Tickets
  <2>3. CASE /\ Present(queue, a.id) /\ type \in ConfirmTypes
             /\ answer # "AGAIN"
    <3>1. /\ queue' = Pop(queue, a.id)
          /\ told' = told \ {a}
          /\ UNCHANGED <<clock, menu, crashed>>
      BY <1>8, <2>3 DEF SendUserConfirm
    <3>2. /\ answers' \in [Tickets -> Nat]
          /\ sent' \in SUBSET TerminalResponses
          /\ reply' \in {"0", "1"}
      <4>1. CASE answer = "SILENT"
        BY <1>8, <2>3, <4>1, NothingSent DEF SendUserConfirm
      <4>2. CASE answer # "SILENT"
        <5>1. PICK dispatched \in SendOutcomes :
                  /\ SendTerminalResponse(entry.cmd, m, type, confirm, a.cmd.no,
                                          answer, dispatched)
                  /\ reply' = IF dispatched THEN "1" ELSE "0"
          BY <1>8, <2>3, <4>2 DEF SendUserConfirm
        <5>2. /\ dispatched \in BOOLEAN
              /\ confirm \in Confirms
              /\ confirm \in Says
          BY SendAssumption, AnswersAssumption DEF Says
        <5>3. answer \in Results
          BY <2>3, <4>2, <5>2, ToldType, ConfirmType
        <5>. QED
          BY <2>3, <5>1, <5>2, <5>3, ToldType, ResponseFacts
      <4>. QED
        BY <4>1, <4>2
    <3>. QED
      BY <2>3, <3>1, <3>2, ToldType DEF TypeOK
  <2>. QED
    BY <2>1, <2>2, <2>3
<1>9. ASSUME NEW a \in told, NEW m \in Modems, NEW shown \in BOOLEAN,
             SendUiDisplayStatus(a, m, shown)
      PROVE  TypeOK'
  <2> DEFINE entry == At(queue, a.id)
             type == entry.cmd.kind.type
             answer == StatusResult(entry.cmd.kind, shown)
             says == IF shown THEN "SHOWN" ELSE "NOT_SHOWN"
  <2>1. CASE queue = << >>
    BY <1>9, <2>1, ToldType, NothingSent DEF SendUiDisplayStatus, TypeOK
  <2>2. CASE queue # << >> /\ PopFaults(queue, a.id)
    BY <1>4, <1>9, <2>2 DEF SendUiDisplayStatus
  <2>3. CASE queue # << >> /\ ~PopFaults(queue, a.id) /\ answer = "AGAIN"
    <3>1. /\ QueueAgain(Pop(queue, a.id), entry, m, told \ {a})
          /\ SendNothing
          /\ reply' = "1"
          /\ UNCHANGED <<menu, crashed>>
      BY <1>9, <2>3 DEF SendUiDisplayStatus
    <3>2. /\ queue' \in Seq(Entries)
          /\ Len(queue') <= Capacity
          /\ clock' \in Tickets
          /\ told' \subseteq Announcements
      BY <2>3, <3>1, ToldType, QueueAgainType DEF PopFaults
    <3>. QED
      BY <3>1, <3>2, NothingSent DEF TypeOK, Tickets
  <2>4. CASE queue # << >> /\ ~PopFaults(queue, a.id) /\ answer # "AGAIN"
    <3>1. /\ queue' = Pop(queue, a.id)
          /\ UNCHANGED <<clock, menu, crashed>>
          /\ Present(queue, a.id)
      BY <1>9, <2>4 DEF SendUiDisplayStatus, PopFaults
    <3>2. told' \subseteq Announcements
      BY <1>9, <2>4, ToldType, ScreensLeft DEF SendUiDisplayStatus
    <3>3. /\ answers' \in [Tickets -> Nat]
          /\ sent' \in SUBSET TerminalResponses
          /\ reply' \in {"0", "1"}
      <4>1. CASE answer = "LOST"
        BY <1>9, <2>4, <4>1, NothingSent DEF SendUiDisplayStatus
      <4>2. CASE answer # "LOST"
        <5>1. PICK dispatched \in SendOutcomes :
                  /\ SendTerminalResponse(entry.cmd, m, type, says, a.cmd.no,
                                          answer, dispatched)
                  /\ reply' \in {"0", "1"}
          BY <1>9, <2>4, <4>2 DEF SendUiDisplayStatus
        <5>2. dispatched \in BOOLEAN /\ says \in Says
          BY SendAssumption DEF Says
        <5>3. answer \in Results
          BY <2>4, <3>1, <4>2, ToldType, StatusType
        <5>. QED
          BY <3>1, <5>1, <5>2, <5>3, ToldType, ResponseFacts
      <4>. QED
        BY <4>1, <4>2
    <3>. QED
      BY <3>1, <3>2, <3>3, ToldType DEF TypeOK
  <2>. QED
    BY <2>1, <2>2, <2>3, <2>4
<1>10. CASE UNCHANGED vars
  BY <1>10 DEF vars, TypeOK
<1>. QED
  BY <1>1, <1>2, <1>3, <1>5, <1>6, <1>7, <1>8, <1>9, <1>10
  DEF Next, Notification, Call

\* The state the plugin starts in, with nothing queued, has the right types.
LEMMA TypeInit == Init => TypeOK
<1> SUFFICES ASSUME Init PROVE TypeOK
  OBVIOUS
<1>1. << >> \in Seq(Entries) /\ Len(<< >>) = 0
  OBVIOUS
<1>2. [n \in Tickets |-> 0] \in [Tickets -> Nat]
  OBVIOUS
<1>3. queue \in Seq(Entries) /\ Len(queue) <= Capacity
  BY <1>1, CapacityPositive DEF Init
<1>4. /\ menu \in SUBSET Commands
      /\ told \subseteq Announcements
      /\ sent \in SUBSET TerminalResponses
  BY DEF Init
<1>5. answers \in [Tickets -> Nat]
  BY <1>2 DEF Init
<1>6. clock \in 0 .. MaxTickets
  BY TicketsAssumption DEF Init
<1>7. reply \in {"none", "0", "1"} /\ crashed \in BOOLEAN
  BY DEF Init
<1>. QED
  BY <1>3, <1>4, <1>5, <1>6, <1>7 DEF TypeOK

\* Every state of the SAT manager is well typed; in particular the queue never
\* exceeds what _push_data lets in, and each response has a known result.
THEOREM TypeCorrect == Spec => []TypeOK
BY TypeInit, TypeStep, PTL DEF Spec
-----------------------------------------------------------------------------
(***************************************************************************)
(* The shapes of a step: what a notification or a call does to the queue,  *)
(* to what clients were told and to the count of responses.                *)
(***************************************************************************)
Rests ==
    /\ queue' = queue /\ clock' = clock /\ answers' = answers
    /\ told' \subseteq told

Empties ==
    /\ queue' = << >> /\ clock' = clock /\ answers' = answers
    /\ told' \subseteq told

\* A command is received: queued if it fits, or answered or dropped at once.
Receipt ==
    /\ clock < MaxTickets
    /\ clock' = clock + 1
    /\ answers' \in [Tickets -> Nat]
    /\ \A n \in Tickets \ {clock + 1} : answers'[n] = answers[n]
    /\ \E m \in Modems, k \in CommandKinds, asks \in SUBSET Asks :
          /\ \/ /\ queue' = queue
                /\ answers'[clock + 1]
                      \in {answers[clock + 1], answers[clock + 1] + 1}
             \/ /\ queue' = Push(queue, [cmd_id |-> NextId(queue),
                                         ticket |-> clock + 1,
                                         cmd |-> Received(m, k)])
                /\ answers'[clock + 1] = answers[clock + 1]
          /\ told' \subseteq told \cup
                Announce(Received(m, k), NextId(queue), clock + 1, asks, m)

\* A command leaves the queue, with or without a response.
Removal ==
    \E id \in Nat :
        /\ Present(queue, id)
        /\ queue' = Pop(queue, id)
        /\ clock' = clock
        /\ told' \subseteq told
        /\ answers' \in [Tickets -> Nat]
        /\ LET no == At(queue, id).cmd.no
           IN  /\ answers'[no] \in {answers[no], answers[no] + 1}
               /\ \A n \in Tickets \ {no} : answers'[n] = answers[n]

\* A command moves to the tail under a new id.
Requeue ==
    \E a \in told, m \in Modems :
        /\ Present(queue, a.id)
        /\ QueueAgain(Pop(queue, a.id), At(queue, a.id), m, told \ {a})
        /\ answers' = answers

\* Every step has one of these shapes.
LEMMA StepShape ==
    ASSUME TypeOK, Next
    PROVE  Rests \/ Empties \/ Receipt \/ Removal \/ Requeue
<1>0. TypeOK
  OBVIOUS
<1>1. ASSUME NEW m \in Modems, SessionEnd(m) PROVE Empties
  BY <1>1 DEF SessionEnd, SendNothing, TerminateSatUi, Empties
<1>2. ASSUME Crash PROVE Rests
  BY <1>2 DEF Crash, SendNothing, Rests
<1>3. ASSUME NEW m \in Modems, NEW k \in CommandKinds, ReceiveUnqueued(m, k)
      PROVE  Receipt
  <2>1. /\ clock < MaxTickets /\ clock' = clock + 1
        /\ queue' = queue /\ told' = told
    BY <1>3 DEF ReceiveUnqueued, Receive
  <2>2. /\ Received(m, k) \in Commands /\ Received(m, k).no = clock + 1
        /\ k \in Kinds /\ k.type \in Types /\ clock' \in Tickets
    BY <1>0, <2>1, ReceivedType
  <2>3. /\ answers' \in [Tickets -> Nat]
        /\ answers'[clock + 1] \in {answers[clock + 1], answers[clock + 1] + 1}
        /\ \A n \in Tickets \ {clock + 1} : answers'[n] = answers[n]
    <3>1. CASE Intake(k) = "DROP"
      BY <1>0, <1>3, <3>1, NothingSent DEF ReceiveUnqueued
    <3>2. CASE Intake(k) # "DROP"
      <4>1. Intake(k) \in Results /\ "PLUGIN" \in Says
        BY <1>3, <2>2, <3>2, IntakeType DEF ReceiveUnqueued, Says
      <4>2. \E dispatched \in SendOutcomes :
                SendTerminalResponse(Received(m, k), m, k.type, "PLUGIN", clock',
                                     Intake(k), dispatched)
        BY <1>3, <3>2 DEF ReceiveUnqueued
      <4>. QED
        BY <1>0, <2>2, <4>1, <4>2, ResponseFacts
    <3>. QED
      BY <3>1, <3>2
  <2>. QED
    BY <2>1, <2>3 DEF Receipt
<1>4. ASSUME NEW m \in Modems, NEW k \in CommandKinds, ReceiveQueued(m, k)
      PROVE  Receipt
  <2>1. /\ clock < MaxTickets /\ clock' = clock + 1 /\ answers' = answers
        /\ queue' = Push(queue, [cmd_id |-> NextId(queue), ticket |-> clock + 1,
                                 cmd |-> Received(m, k)])
        /\ told' = told \cup Announce(Received(m, k), NextId(queue), clock + 1,
                                      AsksFor(k), m)
    BY <1>4 DEF ReceiveQueued, Receive, SendNothing
  <2>2. answers' \in [Tickets -> Nat]
    BY <1>0, <2>1 DEF TypeOK
  <2>3. AsksFor(k) \in SUBSET Asks
    BY KindsAssumption, AsksType
  <2>. QED
    BY <2>1, <2>2, <2>3 DEF Receipt
<1>5. ASSUME NEW m \in Modems, NEW k \in CommandKinds, ReceiveMenu(m, k)
      PROVE  Rests \/ Receipt
  <2> DEFINE cmd == Received(m, k)
             id == NextId(queue)
             e == [cmd_id |-> id, ticket |-> clock + 1, cmd |-> cmd]
             q == Push(queue, e)
  <2>1. CASE PopFaults(q, id)
    BY <1>2, <1>5, <2>1 DEF ReceiveMenu
  <2>2. CASE ~PopFaults(q, id)
    <3>1. /\ clock < MaxTickets /\ clock' = clock + 1
          /\ queue' = Pop(q, id)
          /\ TerminateSatUi(told \cup Announce(cmd, id, clock', AsksFor(k), m))
      BY <1>5, <2>2 DEF ReceiveMenu, Receive
    <3>2. cmd \in Commands /\ cmd.no = clock + 1 /\ clock' \in Tickets
          /\ e \in Entries
      BY <1>0, <3>1, ReceivedType
    <3>3. queue' = queue /\ At(q, id) = e
      <4> HIDE DEF e
      <4>. QED
        BY <1>0, <2>2, <3>1, <3>2, PushThenPop DEF TypeOK
    <3>4. PICK result \in Results : \E dispatched \in SendOutcomes :
              SendTerminalResponse(cmd, m, "SETUP_MENU", "PLUGIN", clock',
                                   result, dispatched)
      <4>1. At(q, id).cmd = cmd
        BY <3>3
      <4>. QED
        BY <1>5, <2>2, <4>1 DEF ReceiveMenu
    <3>5. "PLUGIN" \in Says /\ "SETUP_MENU" \in Types
      BY DEF Says, Types, ExecTypes
    <3>6. /\ answers' \in [Tickets -> Nat]
          /\ answers'[clock + 1] \in {answers[clock + 1], answers[clock + 1] + 1}
          /\ \A n \in Tickets \ {clock + 1} : answers'[n] = answers[n]
      BY <1>0, <3>2, <3>4, <3>5, ResponseFacts
    <3>7. told' \subseteq told \cup Announce(cmd, id, clock + 1, AsksFor(k), m)
      BY <3>1 DEF TerminateSatUi
    <3>8. AsksFor(k) \in SUBSET Asks
      BY KindsAssumption, AsksType
    <3>. QED
      BY <3>1, <3>3, <3>6, <3>7, <3>8 DEF Receipt
  <2>. QED
    BY <2>1, <2>2
<1>6. ASSUME GetMainMenuInfo PROVE Rests
  BY <1>6 DEF GetMainMenuInfo, SendNothing, Rests
<1>7. ASSUME NEW a \in told, NEW m \in Modems, NEW resp \in Responses,
             SendAppExecResult(a, m, resp)
      PROVE  Rests \/ Removal
  <2> DEFINE as == a.cmd.kind.type
             cmd == At(queue, a.id).cmd
  <2>1. CASE as \notin ExecTypes \/ queue = << >>
    BY <1>7, <2>1
    DEF SendAppExecResult, SendNothing, TerminateSatUi, Rests
  <2>2. CASE /\ ~(as \notin ExecTypes \/ queue = << >>)
             /\ PopFaults(queue, a.id)
    BY <1>2, <1>7, <2>2 DEF SendAppExecResult
  <2>3. CASE /\ ~(as \notin ExecTypes \/ queue = << >>)
             /\ ~PopFaults(queue, a.id)
    <3>1. /\ Present(queue, a.id) /\ queue' = Pop(queue, a.id)
          /\ told' \subseteq told /\ clock' = clock
      BY <1>7, <2>3 DEF SendAppExecResult, PopFaults, TerminateSatUi
    <3>2. PICK result \in Results : \E dispatched \in SendOutcomes :
              SendTerminalResponse(cmd, m, as, resp, a.cmd.no, result, dispatched)
      BY <1>7, <2>3 DEF SendAppExecResult
    <3>3. resp \in Says
      BY ResponsesAssumption DEF Says
    <3>4. /\ a.id \in Nat /\ cmd \in Commands /\ as \in Types
          /\ a.cmd.no \in Tickets
      BY <1>0, <3>1, ToldType
    <3>5. /\ answers' \in [Tickets -> Nat]
          /\ answers'[cmd.no] \in {answers[cmd.no], answers[cmd.no] + 1}
          /\ \A n \in Tickets \ {cmd.no} : answers'[n] = answers[n]
      <4> HIDE DEF cmd, as
      <4>. QED
        BY <1>0, <3>2, <3>3, <3>4, ResponseFacts
    <3>. QED
      BY <3>1, <3>4, <3>5 DEF Removal
  <2>. QED
    BY <2>1, <2>2, <2>3
<1>8. ASSUME NEW a \in told, NEW m \in Modems, NEW confirm \in UserAnswers,
             SendUserConfirm(a, m, confirm)
      PROVE  Rests \/ Removal \/ Requeue
  <2> DEFINE entry == At(queue, a.id)
             type == entry.cmd.kind.type
             answer == ConfirmResult(entry.cmd.kind, confirm)
  <2>1. CASE ~Present(queue, a.id) \/ type \notin ConfirmTypes
    BY <1>8, <2>1 DEF SendUserConfirm, SendNothing, Rests
  <2>2. CASE /\ Present(queue, a.id) /\ type \in ConfirmTypes
             /\ answer = "AGAIN"
    BY <1>8, <2>2 DEF SendUserConfirm, SendNothing, Requeue
  <2>3. CASE /\ Present(queue, a.id) /\ type \in ConfirmTypes
             /\ answer # "AGAIN"
    <3>1. /\ queue' = Pop(queue, a.id) /\ told' \subseteq told /\ clock' = clock
      BY <1>8, <2>3 DEF SendUserConfirm
    <3>2. /\ a.id \in Nat /\ entry.cmd \in Commands /\ type \in Types
          /\ a.cmd.no \in Tickets /\ entry.cmd.kind \in Kinds
      BY <1>0, <2>3, ToldType
    <3>3. /\ answers' \in [Tickets -> Nat]
          /\ answers'[entry.cmd.no]
                \in {answers[entry.cmd.no], answers[entry.cmd.no] + 1}
          /\ \A n \in Tickets \ {entry.cmd.no} : answers'[n] = answers[n]
      <4>1. CASE answer = "SILENT"
        BY <1>0, <1>8, <2>3, <4>1, NothingSent DEF SendUserConfirm
      <4>2. CASE answer # "SILENT"
        <5>1. \E dispatched \in SendOutcomes :
                  SendTerminalResponse(entry.cmd, m, type, confirm, a.cmd.no,
                                       answer, dispatched)
          BY <1>8, <2>3, <4>2 DEF SendUserConfirm
        <5>2. confirm \in Confirms /\ confirm \in Says
          BY AnswersAssumption DEF Says
        <5>3. answer \in Results
          BY <2>3, <3>2, <4>2, <5>2, ConfirmType
        <5> HIDE DEF entry, type, answer
        <5>. QED
          BY <1>0, <3>2, <5>1, <5>2, <5>3, ResponseFacts
      <4>. QED
        BY <4>1, <4>2
    <3>. QED
      BY <2>3, <3>1, <3>2, <3>3 DEF Removal
  <2>. QED
    BY <2>1, <2>2, <2>3
<1>9. ASSUME NEW a \in told, NEW m \in Modems, NEW shown \in BOOLEAN,
             SendUiDisplayStatus(a, m, shown)
      PROVE  Rests \/ Removal \/ Requeue
  <2> DEFINE entry == At(queue, a.id)
             type == entry.cmd.kind.type
             answer == StatusResult(entry.cmd.kind, shown)
             says == IF shown THEN "SHOWN" ELSE "NOT_SHOWN"
  <2>1. CASE queue = << >>
    BY <1>9, <2>1 DEF SendUiDisplayStatus, SendNothing, Rests
  <2>2. CASE queue # << >> /\ PopFaults(queue, a.id)
    BY <1>2, <1>9, <2>2 DEF SendUiDisplayStatus
  <2>3. CASE queue # << >> /\ ~PopFaults(queue, a.id) /\ answer = "AGAIN"
    BY <1>9, <2>3
    DEF SendUiDisplayStatus, SendNothing, PopFaults, Requeue
  <2>4. CASE queue # << >> /\ ~PopFaults(queue, a.id) /\ answer # "AGAIN"
    <3>1. /\ Present(queue, a.id) /\ queue' = Pop(queue, a.id)
          /\ told' \subseteq told /\ clock' = clock
      BY <1>9, <2>4 DEF SendUiDisplayStatus, PopFaults, TerminateSatUi
    <3>2. /\ a.id \in Nat /\ entry.cmd \in Commands /\ type \in Types
          /\ a.cmd.no \in Tickets /\ entry.cmd.kind \in Kinds
      BY <1>0, <3>1, ToldType
    <3>3. /\ answers' \in [Tickets -> Nat]
          /\ answers'[entry.cmd.no]
                \in {answers[entry.cmd.no], answers[entry.cmd.no] + 1}
          /\ \A n \in Tickets \ {entry.cmd.no} : answers'[n] = answers[n]
      <4>1. CASE answer = "LOST"
        BY <1>0, <1>9, <2>4, <4>1, NothingSent DEF SendUiDisplayStatus
      <4>2. CASE answer # "LOST"
        <5>1. \E dispatched \in SendOutcomes :
                  SendTerminalResponse(entry.cmd, m, type, says, a.cmd.no,
                                       answer, dispatched)
          BY <1>9, <2>4, <4>2 DEF SendUiDisplayStatus
        <5>2. says \in Says
          BY DEF Says
        <5>3. answer \in Results
          BY <2>4, <3>2, <4>2, StatusType
        <5> HIDE DEF entry, type, answer, says
        <5>. QED
          BY <1>0, <3>2, <5>1, <5>2, <5>3, ResponseFacts
      <4>. QED
        BY <4>1, <4>2
    <3>. QED
      BY <3>1, <3>2, <3>3 DEF Removal
  <2>. QED
    BY <2>1, <2>2, <2>3, <2>4
<1>. QED
  BY <1>1, <1>3, <1>4, <1>5, <1>6, <1>7, <1>8, <1>9 DEF Next, Notification, Call

-----------------------------------------------------------------------------
(***************************************************************************)
(* At most one response, and no answer that reaches back.                  *)
(*                                                                         *)
(* Neither is inductive alone.  That a removal by position takes the last  *)
(* trace of a command with it needs Distinct; that what moves to a stale   *)
(* position is newer needs Ordered; that what is pushed there is newer     *)
(* needs that all tickets given out are below the next one.                *)
(***************************************************************************)
IInv == TypeOK /\ Bookkeeping /\ AtMostOneResponse /\ AnswersNeverReachBack

\* The numbers in an entry.
LEMMA EntryType ==
    \A e \in Entries : /\ e.ticket \in Nat /\ e.ticket \in Tickets
                      /\ e.cmd.no \in Nat /\ e.cmd.no \in Tickets
BY DEF Entries, Commands, Tickets

\* Removing an entry keeps the queue in order, removes its command from it, and
\* moves only newer entries to a position.
LEMMA PopKeeps ==
    ASSUME NEW q \in Seq(Entries), NEW id \in Nat, Present(q, id), NEW c \in Nat,
           Ordered(q), Distinct(q), Given(q, c)
    PROVE  /\ Ordered(Pop(q, id)) /\ Distinct(Pop(q, id)) /\ Given(Pop(q, id), c)
           /\ \A i \in 1 .. Len(Pop(q, id)) :
                 /\ Pop(q, id)[i].cmd.no # At(q, id).cmd.no
                 /\ \E j \in 1 .. Len(q) : Pop(q, id)[i] = q[j]
           /\ \A p \in Nat : Present(Pop(q, id), p) =>
                 Present(q, p) /\ At(Pop(q, id), p).ticket >= At(q, p).ticket
<1> DEFINE r == Pop(q, id)
           from(i) == IF i <= id THEN i ELSE i + 1
<1>1. /\ r \in Seq(Entries)
      /\ Len(r) = Len(q) - 1
      /\ \A i \in 1 .. Len(r) : r[i] = q[from(i)]
  BY PopFacts
<1>2. /\ \A i \in 1 .. Len(r) : from(i) \in 1 .. Len(q) /\ from(i) # id + 1
      /\ \A i, j \in 1 .. Len(r) : i < j => from(i) < from(j)
      /\ \A i \in 1 .. Len(r) : from(i) >= i
      /\ id + 1 \in 1 .. Len(q)
  BY <1>1 DEF Present
<1>3. \A i \in 1 .. Len(q) : q[i].ticket \in Nat
  BY EntryType
<1> HIDE DEF r, from
<1>4. Ordered(r) /\ Given(r, c)
  BY <1>1, <1>2 DEF Ordered, Given
<1>5. Distinct(r)
  <2> SUFFICES ASSUME NEW i \in 1 .. Len(r), NEW j \in 1 .. Len(r),
                      r[i].cmd.no = r[j].cmd.no
               PROVE  i = j
    BY DEF Distinct
  <2>1. from(i) = from(j)
    <3>1. /\ from(i) \in 1 .. Len(q) /\ from(j) \in 1 .. Len(q)
          /\ q[from(i)].cmd.no = q[from(j)].cmd.no
      BY <1>1, <1>2
    <3>. QED
      BY <3>1 DEF Distinct
  <2>. QED
    BY <1>2, <2>1
<1>6. \A i \in 1 .. Len(r) :
          /\ r[i].cmd.no # At(q, id).cmd.no
          /\ \E j \in 1 .. Len(q) : r[i] = q[j]
  BY <1>1, <1>2 DEF Distinct, At
<1>7. ASSUME NEW p \in Nat, Present(r, p)
      PROVE  Present(q, p) /\ At(r, p).ticket >= At(q, p).ticket
  <2>1. p + 1 \in 1 .. Len(r) /\ p + 1 \in 1 .. Len(q) /\ Present(q, p)
    BY <1>1, <1>7 DEF Present
  <2>2. q[from(p + 1)].ticket >= q[p + 1].ticket
    BY <1>2, <1>3, <2>1 DEF Ordered
  <2>. QED
    BY <1>1, <2>1, <2>2 DEF At
<1>. QED
  BY <1>4, <1>5, <1>6, <1>7 DEF r

\* Queueing an entry with the next ticket keeps the queue in order, and puts only
\* that entry at a position that was free.
LEMMA PushKeeps ==
    ASSUME NEW q \in Seq(Entries), NEW e \in Entries, Len(q) <= Capacity,
           NEW c \in Nat, Ordered(q), Distinct(q), Given(q, c),
           e.ticket = c + 1, e.cmd.no <= c + 1,
           \A i \in 1 .. Len(q) : q[i].cmd.no # e.cmd.no
    PROVE  /\ Ordered(Push(q, e)) /\ Distinct(Push(q, e))
           /\ Given(Push(q, e), c + 1)
           /\ \A i \in 1 .. Len(Push(q, e)) :
                 Push(q, e)[i] = e \/ \E j \in 1 .. Len(q) : Push(q, e)[i] = q[j]
           /\ \A p \in Nat : Present(Push(q, e), p) =>
                 \/ At(Push(q, e), p) = e
                 \/ Present(q, p) /\ At(Push(q, e), p) = At(q, p)
<1> DEFINE r == Push(q, e)
<1>1. /\ r \in Seq(Entries)
      /\ Len(r) \in Len(q) .. (Len(q) + 1)
      /\ \A i \in 1 .. Len(q) : r[i] = q[i]
      /\ Len(r) = Len(q) + 1 => r[Len(q) + 1] = e
  BY PushFacts
<1> HIDE DEF r
<1>2. \A i \in 1 .. Len(r) :
          \/ i \in 1 .. Len(q) /\ r[i] = q[i]
          \/ i = Len(q) + 1 /\ r[i] = e
  BY <1>1
<1>3. \A i \in 1 .. Len(q) : q[i].ticket <= c /\ q[i].cmd.no <= c
  BY DEF Given
<1>4. \A i \in 1 .. Len(q) : q[i].ticket \in Nat /\ q[i].cmd.no \in Nat
  BY EntryType
<1>5. Ordered(r)
  BY <1>1, <1>2, <1>3, <1>4 DEF Ordered
<1>6. Distinct(r)
  BY <1>1, <1>2 DEF Distinct
<1>7. Given(r, c + 1)
  BY <1>1, <1>2, <1>3, <1>4 DEF Given
<1>8. \A p \in Nat : Present(r, p) =>
          At(r, p) = e \/ (Present(q, p) /\ At(r, p) = At(q, p))
  BY <1>1, <1>2 DEF Present, At
<1>. QED
  BY <1>2, <1>5, <1>6, <1>7, <1>8 DEF r

\* A call that removes an entry, with or without a response to its command.
LEMMA RemovalKeeps ==
    ASSUME IInv, NEW id \in Nat, Present(queue, id),
           queue' = Pop(queue, id), clock' = clock, told' \subseteq told,
           answers' \in [Tickets -> Nat],
           LET no == At(queue, id).cmd.no
           IN  /\ answers'[no] \in {answers[no], answers[no] + 1}
               /\ \A n \in Tickets \ {no} : answers'[n] = answers[n]
    PROVE  (Bookkeeping /\ AtMostOneResponse /\ AnswersNeverReachBack)'
<1> DEFINE e == At(queue, id)
           no == e.cmd.no
<1>1. /\ queue \in Seq(Entries) /\ clock \in Nat
      /\ Ordered(queue) /\ Distinct(queue) /\ Given(queue, clock)
  BY TicketsAssumption DEF IInv, TypeOK, Bookkeeping
<1>2. /\ Ordered(queue') /\ Distinct(queue') /\ Given(queue', clock')
      /\ \A i \in 1 .. Len(queue') :
            queue'[i].cmd.no # no /\ \E j \in 1 .. Len(queue) : queue'[i] = queue[j]
      /\ \A p \in Nat : Present(queue', p) =>
            Present(queue, p) /\ At(queue', p).ticket >= At(queue, p).ticket
  BY <1>1, PopKeeps
<1>3. no \in Tickets /\ no <= clock /\ answers[no] = 0
  <2>1. e \in Entries /\ id + 1 \in 1 .. Len(queue) /\ e = queue[id + 1]
    BY <1>1, PopFacts DEF Present, At
  <2>2. Queued(no)
    BY <1>1, <2>1 DEF Queued
  <2>. QED
    BY <1>1, <2>1, <2>2, EntryType DEF Given, IInv, AtMostOneResponse
<1>4. Bookkeeping'
  <2>1. \A n \in Tickets : n > clock' => answers'[n] = 0
    <3>1. \A n \in Tickets : n > clock => n # no /\ answers[n] = 0
      BY <1>1, <1>3 DEF IInv, Bookkeeping, Tickets
    <3>. QED
      BY <3>1
  <2>2. \A a \in told' : a.ticket <= clock'
    BY DEF IInv, Bookkeeping
  <2>. QED
    BY <1>2, <2>1, <2>2 DEF Bookkeeping
<1>5. AtMostOneResponse'
  <2> SUFFICES ASSUME NEW n \in Tickets
               PROVE  /\ answers'[n] <= 1
                      /\ Queued(n)' => answers'[n] = 0
    BY DEF AtMostOneResponse
  <2>0. DOMAIN queue = 1 .. Len(queue) /\ DOMAIN queue' = 1 .. Len(queue')
    BY <1>1, PopFacts
  <2>1. CASE n = no
    BY <1>2, <1>3, <2>0, <2>1 DEF Queued
  <2>2. CASE n # no
    <3>1. ASSUME Queued(n)' PROVE Queued(n)
      <4>1. PICK i \in 1 .. Len(queue') : queue'[i].cmd.no = n
        BY <2>0, <3>1 DEF Queued
      <4>2. PICK j \in 1 .. Len(queue) : queue'[i] = queue[j]
        BY <1>2, <4>1
      <4>. QED
        BY <2>0, <4>1, <4>2 DEF Queued
    <3>. QED
      BY <2>2, <3>1 DEF IInv, AtMostOneResponse
  <2>. QED
    BY <2>1, <2>2
<1>6. AnswersNeverReachBack'
  <2> SUFFICES ASSUME NEW a \in told', Present(queue', a.id)
               PROVE  At(queue', a.id).ticket >= a.ticket
    BY DEF AnswersNeverReachBack
  <2>1. a \in told /\ a.id \in Nat /\ a.ticket \in Nat
    BY DEF IInv, TypeOK, Announcements, Tickets
  <2>2. Present(queue, a.id) /\ At(queue', a.id).ticket >= At(queue, a.id).ticket
    BY <1>2, <2>1
  <2>3. At(queue, a.id).ticket >= a.ticket
    BY <2>1, <2>2 DEF IInv, AnswersNeverReachBack
  <2>4. At(queue, a.id).ticket \in Nat /\ At(queue', a.id).ticket \in Nat
    BY <1>1, <2>1, <2>2, PopFacts, EntryType DEF Present, At
  <2>. QED
    BY <2>1, <2>2, <2>3, <2>4
<1>. QED
  BY <1>4, <1>5, <1>6

\* A queue and announcements as the invariant wants them.
Ready(q, announcements) ==
    /\ q \in Seq(Entries) /\ Len(q) <= Capacity
    /\ Ordered(q) /\ Distinct(q) /\ Given(q, clock)
    /\ \A n \in Tickets : n > clock => answers[n] = 0
    /\ \A n \in Tickets : answers[n] <= 1
    /\ \A i \in 1 .. Len(q) : answers[q[i].cmd.no] = 0
    /\ announcements \in SUBSET Announcements
    /\ \A a \in announcements :
          /\ a.ticket <= clock
          /\ Present(q, a.id) => At(q, a.id).ticket >= a.ticket

\* An arrival: the next ticket is given out, and the entry that has it may be
\* pushed; what is announced with that ticket is announced under the id of the push.
Arrives(q, e, announcements) ==
    /\ e \in Entries
    /\ e.ticket = clock + 1 /\ e.cmd.no <= clock + 1
    /\ \A i \in 1 .. Len(q) : q[i].cmd.no # e.cmd.no
    /\ answers[e.cmd.no] = 0
    /\ clock' = clock + 1
    /\ answers' \in [Tickets -> Nat]
    /\ \A n \in Tickets \ {e.cmd.no} : answers'[n] = answers[n]
    /\ \/ queue' = q /\ answers'[e.cmd.no] <= 1
       \/ queue' = Push(q, e) /\ answers'[e.cmd.no] = 0
    /\ \A a \in told' :
          \/ a \in announcements
          \/ a.id = NextId(q) /\ a.ticket = clock + 1

\* An arrival keeps the invariant.
LEMMA ArrivalKeeps ==
    ASSUME TypeOK, NEW q, NEW e, NEW announcements,
           Ready(q, announcements), Arrives(q, e, announcements)
    PROVE  (Bookkeeping /\ AtMostOneResponse /\ AnswersNeverReachBack)'
<1> USE DEF Ready, Arrives
<1> DEFINE no == e.cmd.no
<1>1. /\ clock \in Nat /\ no \in Tickets /\ Tickets \subseteq Nat
      /\ answers \in [Tickets -> Nat]
  BY EntryType, TicketsAssumption DEF TypeOK, Tickets
<1>2. /\ queue' \in Seq(Entries)
      /\ Ordered(queue') /\ Distinct(queue') /\ Given(queue', clock')
      /\ \A i \in 1 .. Len(queue') :
            \/ \E j \in 1 .. Len(q) : queue'[i] = q[j]
            \/ queue'[i] = e /\ answers'[no] = 0
      /\ \A p \in Nat : Present(queue', p) =>
            \/ At(queue', p) = e
            \/ Present(q, p) /\ At(queue', p) = At(q, p)
  <2>1. CASE queue' = q /\ answers'[no] <= 1
    <3>1. Given(q, clock + 1)
      BY <1>1, EntryType DEF Given
    <3>. QED
      BY <2>1, <3>1
  <2>2. CASE queue' = Push(q, e) /\ answers'[no] = 0
    BY <1>1, <2>2, PushKeeps, PushFacts
  <2>. QED
    BY <2>1, <2>2
<1>3. Bookkeeping'
  <2>1. \A n \in Tickets : n > clock' => answers'[n] = 0
    BY <1>1
  <2>2. ASSUME NEW a \in told' PROVE a.ticket <= clock'
    <3>1. CASE a \in announcements
      <4>1. a \in Announcements /\ a.ticket <= clock
        BY <3>1
      <4>2. a.ticket \in Nat
        BY <1>1, <4>1 DEF Announcements
      <4>. QED
        BY <1>1, <4>1, <4>2
    <3>2. CASE a.id = NextId(q) /\ a.ticket = clock + 1
      BY <1>1, <3>2
    <3>. QED
      BY <3>1, <3>2
  <2>. QED
    BY <1>2, <2>1, <2>2 DEF Bookkeeping
<1>4. AtMostOneResponse'
  <2> SUFFICES ASSUME NEW n \in Tickets
               PROVE  /\ answers'[n] <= 1
                      /\ Queued(n)' => answers'[n] = 0
    BY DEF AtMostOneResponse
  <2>1. answers'[n] <= 1
    BY <1>1
  <2>2. ASSUME Queued(n)' PROVE answers'[n] = 0
    <3>1. PICK i \in 1 .. Len(queue') : queue'[i].cmd.no = n
      BY <1>2, <2>2 DEF Queued
    <3>2. CASE queue'[i] = e /\ answers'[no] = 0
      BY <3>1, <3>2
    <3>3. CASE \E j \in 1 .. Len(q) : queue'[i] = q[j]
      <4>1. PICK j \in 1 .. Len(q) : q[j].cmd.no = n
        BY <3>1, <3>3
      <4>. QED
        BY <4>1
    <3>. QED
      BY <1>2, <3>2, <3>3
  <2>. QED
    BY <2>1, <2>2
<1>5. AnswersNeverReachBack'
  <2> SUFFICES ASSUME NEW a \in told', Present(queue', a.id)
               PROVE  At(queue', a.id).ticket >= a.ticket
    BY DEF AnswersNeverReachBack
  <2>1. CASE a \in announcements
    <3>1. a.id \in Nat /\ a.ticket \in Nat /\ a.ticket <= clock
      BY <1>1, <2>1 DEF Announcements
    <3>2. CASE At(queue', a.id) = e
      BY <1>1, <3>1, <3>2
    <3>3. CASE Present(q, a.id) /\ At(queue', a.id) = At(q, a.id)
      BY <2>1, <3>3
    <3>. QED
      BY <1>2, <3>1, <3>2, <3>3
  <2>2. CASE a.id = NextId(q) /\ a.ticket = clock + 1
    <3>1. ~Present(q, a.id) /\ a.id \in Nat
      BY <2>2 DEF Present, NextId
    <3>2. At(queue', a.id) = e
      BY <1>2, <3>1
    <3>. QED
      BY <1>1, <2>2, <3>2
  <2>. QED
    BY <2>1, <2>2
<1>. QED
  BY <1>3, <1>4, <1>5

\* A step that answers nothing, removes nothing and tells nobody anything.
LEMMA StayKeeps ==
    ASSUME IInv, queue' = queue \/ queue' = << >>, clock' = clock,
           told' \subseteq told, answers' = answers
    PROVE  (Bookkeeping /\ AtMostOneResponse /\ AnswersNeverReachBack)'
<1>1. CASE queue' = queue
  BY <1>1
  DEF IInv, Bookkeeping, AtMostOneResponse, AnswersNeverReachBack, Queued
<1>2. CASE queue' = << >>
  <2>1. Bookkeeping'
    BY <1>2 DEF IInv, Bookkeeping, Ordered, Distinct, Given
  <2>2. AtMostOneResponse'
    BY DEF IInv, AtMostOneResponse, Queued
  <2>3. AnswersNeverReachBack'
    BY <1>2 DEF AnswersNeverReachBack, Present
  <2>. QED
    BY <2>1, <2>2, <2>3
<1>. QED
  BY <1>1, <1>2

\* The invariant holds of the queue and of what clients were told.
LEMMA ArrivalReady ==
    ASSUME IInv
    PROVE  Ready(queue, told)
<1>1. queue \in Seq(Entries)
  BY DEF IInv, TypeOK
<1>2. \A i \in 1 .. Len(queue) : answers[queue[i].cmd.no] = 0
  <2> SUFFICES ASSUME NEW i \in 1 .. Len(queue)
               PROVE  answers[queue[i].cmd.no] = 0
    OBVIOUS
  <2>1. queue[i].cmd.no \in Tickets /\ Queued(queue[i].cmd.no)
    BY <1>1, EntryType DEF Queued
  <2>. QED
    BY <2>1 DEF IInv, AtMostOneResponse
<1>. QED
  BY <1>1, <1>2
  DEF Ready, IInv, TypeOK, Bookkeeping, AtMostOneResponse, AnswersNeverReachBack

\* A command the card sent, queued or not, and perhaps answered if not.
LEMMA ReceiptKeeps ==
    ASSUME IInv, NEW m \in Modems, NEW k \in CommandKinds, clock < MaxTickets,
           clock' = clock + 1, answers' \in [Tickets -> Nat],
           \A n \in Tickets \ {clock + 1} : answers'[n] = answers[n],
           \/ /\ queue' = queue
              /\ answers'[clock + 1] \in {answers[clock + 1], answers[clock + 1] + 1}
           \/ /\ queue' = Push(queue, [cmd_id |-> NextId(queue),
                                       ticket |-> clock + 1,
                                       cmd |-> Received(m, k)])
              /\ answers'[clock + 1] = answers[clock + 1],
           NEW asks, told' \subseteq
               told \cup Announce(Received(m, k), NextId(queue), clock + 1, asks, m)
    PROVE  (Bookkeeping /\ AtMostOneResponse /\ AnswersNeverReachBack)'
<1> DEFINE e == [cmd_id |-> NextId(queue), ticket |-> clock + 1,
                 cmd |-> Received(m, k)]
<1>1. /\ e \in Entries /\ e.ticket = clock + 1 /\ e.cmd.no = clock + 1
      /\ clock + 1 \in Tickets /\ clock \in Nat
  BY ReceivedType, TicketsAssumption DEF IInv, TypeOK
<1>2. queue' = queue \/ queue' = Push(queue, e)
  OBVIOUS
<1>3. \A i \in 1 .. Len(queue) : queue[i].cmd.no # clock + 1
  BY <1>1, ArrivalReady, EntryType DEF Given, Ready
<1>4. answers[clock + 1] = 0
  BY <1>1, ArrivalReady DEF Ready
<1>5. \A a \in told' :
          a \in told \/ (a.id = NextId(queue) /\ a.ticket = clock + 1)
  BY DEF Announce
<1>6. \/ queue' = queue /\ answers'[e.cmd.no] <= 1
      \/ queue' = Push(queue, e) /\ answers'[e.cmd.no] = 0
  BY <1>1, <1>4
<1> HIDE DEF e
<1>7. Arrives(queue, e, told)
  BY <1>1, <1>3, <1>4, <1>5, <1>6 DEF Arrives
<1>8. TypeOK
  BY DEF IInv
<1>. QED
  BY <1>7, <1>8, ArrivalReady, ArrivalKeeps

\* An entry that is given another id and ticket.
LEMMA NewTicket ==
    ASSUME NEW entry \in Entries, NEW id \in Nat, NEW ticket \in Tickets
    PROVE  /\ [entry EXCEPT !.cmd_id = id, !.ticket = ticket] \in Entries
           /\ [entry EXCEPT !.cmd_id = id, !.ticket = ticket].ticket = ticket
           /\ [entry EXCEPT !.cmd_id = id, !.ticket = ticket].cmd = entry.cmd
BY DEF Entries

\* A command that is queued again after its client agreed to it.
LEMMA RequeueKeeps ==
    ASSUME IInv, NEW a \in told, NEW m \in Modems, Present(queue, a.id),
           QueueAgain(Pop(queue, a.id), At(queue, a.id), m, told \ {a}),
           answers' = answers
    PROVE  (Bookkeeping /\ AtMostOneResponse /\ AnswersNeverReachBack)'
<1> DEFINE q == Pop(queue, a.id)
           entry == At(queue, a.id)
           e == [entry EXCEPT !.cmd_id = NextId(q), !.ticket = clock']
           left == told \ {a}
<1> USE DEF Ready
<1>1. /\ TypeOK /\ clock \in Nat
      /\ a.id \in Nat /\ entry \in Entries
      /\ q \in Seq(Entries) /\ Len(q) <= Capacity
      /\ left \in SUBSET Announcements
  BY ToldType, TicketsAssumption DEF IInv, TypeOK
<1>2. /\ clock' = clock + 1 /\ clock' \in Tickets
      /\ queue' = Push(q, e)
      /\ told' = left \cup Announce(entry.cmd, NextId(q), clock', {"exec"}, m)
  BY <1>1, TicketsAssumption DEF QueueAgain, Tickets
<1>3. e \in Entries /\ e.ticket = clock + 1 /\ e.cmd = entry.cmd
  <2>1. NextId(q) \in Nat
    BY <1>1 DEF NextId
  <2>2. entry \in Entries /\ clock' \in Tickets
    BY <1>1, <1>2
  <2>3. /\ e \in Entries /\ e.ticket = clock' /\ e.cmd = entry.cmd
    <3> HIDE DEF q, entry
    <3>. QED
      BY <2>1, <2>2 DEF Entries
  <2> HIDE DEF e
  <2>. QED
    BY <1>2, <2>3
<1>4. /\ Ordered(q) /\ Distinct(q) /\ Given(q, clock)
      /\ \A i \in 1 .. Len(q) :
            q[i].cmd.no # entry.cmd.no /\ \E j \in 1 .. Len(queue) : q[i] = queue[j]
      /\ \A p \in Nat : Present(q, p) =>
            Present(queue, p) /\ At(q, p).ticket >= At(queue, p).ticket
  BY <1>1, ArrivalReady, PopKeeps
<1>5. /\ entry.cmd.no <= clock + 1 /\ answers[entry.cmd.no] = 0
  <2>1. a.id + 1 \in 1 .. Len(queue) /\ entry = queue[a.id + 1]
    BY <1>1, ArrivalReady DEF Present, At
  <2>. QED
    BY <1>1, <2>1, ArrivalReady, EntryType DEF Given
<1>6. \A i \in 1 .. Len(q) : answers[q[i].cmd.no] = 0
  BY <1>4, ArrivalReady
<1>7. ASSUME NEW b \in left
      PROVE  /\ b.ticket <= clock
             /\ Present(q, b.id) => At(q, b.id).ticket >= b.ticket
  <2>1. b \in told /\ b.id \in Nat /\ b.ticket \in Nat /\ b.ticket <= clock
    BY <1>1, ArrivalReady DEF Announcements, Tickets
  <2>2. ASSUME Present(q, b.id) PROVE At(q, b.id).ticket >= b.ticket
    <3>1. /\ Present(queue, b.id)
          /\ At(q, b.id).ticket >= At(queue, b.id).ticket
          /\ At(queue, b.id).ticket >= b.ticket
      BY <1>4, <2>1, <2>2, ArrivalReady
    <3>2. At(q, b.id) \in Entries /\ At(queue, b.id) \in Entries
      BY <1>1, <2>1, <2>2, <3>1, ArrivalReady DEF Present, At
    <3>. QED
      BY <2>1, <3>1, <3>2, EntryType
  <2>. QED
    BY <2>1, <2>2
<1>8. \A b \in told' : b \in left \/ (b.id = NextId(q) /\ b.ticket = clock + 1)
  BY <1>2 DEF Announce
<1>9. answers' \in [Tickets -> Nat]
  BY <1>1 DEF TypeOK
<1> HIDE DEF q, e, left, entry
<1>10. Ready(q, left)
  BY <1>1, <1>4, <1>6, <1>7, ArrivalReady
<1>11. Arrives(q, e, left)
  BY <1>2, <1>3, <1>4, <1>5, <1>8, <1>9 DEF Arrives
<1> HIDE DEF Ready
<1>. QED
  BY <1>1, <1>10, <1>11, ArrivalKeeps

\* The three properties are kept by steps of every shape.
LEMMA InvStep == IInv /\ [Next]_vars => IInv'
<1> SUFFICES ASSUME IInv, [Next]_vars
             PROVE  (Bookkeeping /\ AtMostOneResponse /\ AnswersNeverReachBack)'
  BY TypeStep DEF IInv
<1>1. \/ Rests \/ Empties \/ Receipt \/ Removal \/ Requeue
  <2>1. CASE Next
    BY <2>1, StepShape DEF IInv
  <2>2. CASE UNCHANGED vars
    BY <2>2 DEF vars, Rests
  <2>. QED
    BY <2>1, <2>2
<1>2. CASE Rests \/ Empties
  BY <1>2, StayKeeps DEF Rests, Empties
<1>3. CASE Receipt
  BY <1>3, ReceiptKeeps DEF Receipt
<1>4. CASE Removal
  BY <1>4, RemovalKeeps DEF Removal
<1>5. CASE Requeue
  BY <1>5, RequeueKeeps DEF Requeue
<1>. QED
  BY <1>1, <1>2, <1>3, <1>4, <1>5

\* The state the plugin starts in satisfies the inductive invariant.
LEMMA InvInit == Init => IInv
<1> SUFFICES ASSUME Init PROVE IInv
  OBVIOUS
<1>1. Bookkeeping
  BY DEF Init, Bookkeeping, Ordered, Distinct, Given
<1>2. AtMostOneResponse /\ AnswersNeverReachBack
  BY DEF Init, AtMostOneResponse, AnswersNeverReachBack
<1>. QED
  BY <1>1, <1>2, TypeInit DEF IInv

\* The strengthened invariant holds in every state.
THEOREM InvariantHolds == Spec => []IInv
BY InvInit, InvStep, PTL DEF Spec

\* Whatever clients and cards do, with any number of modems, no command is
\* answered twice and none is answered while it is still queued.
THEOREM OneResponse == Spec => []AtMostOneResponse
BY InvariantHolds, PTL DEF IInv

\* Whatever leaves the queue in between, an id a client was told never names an
\* older command than the one it was told of.
THEOREM NoReachingBack == Spec => []AnswersNeverReachBack
BY InvariantHolds, PTL DEF IInv

\* The queue is in the order of its tickets and holds no command twice, for every
\* number of modems and every behaviour of the clients.
THEOREM QueueOrdered == Spec => []Bookkeeping
BY InvariantHolds, PTL DEF IInv
=============================================================================
