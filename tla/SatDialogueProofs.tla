---------------------------- MODULE SatDialogueProofs ----------------------------
(***************************************************************************)
(* With one modem the dialogue works: whatever commands its card sends, as *)
(* long as it waits for each, and whatever its clients answer, as long as  *)
(* they answer once and as asked.  With two modems it does not, as TLC     *)
(* shows; what still holds is that the queue has a place for every card's  *)
(* command, and, without any partner behaving well, that successes are     *)
(* reported by those who claim them.                                       *)
(***************************************************************************)
EXTENDS SatDialogue, SatManagerProofs, FiniteSetTheorems

-----------------------------------------------------------------------------
(***************************************************************************)
(* The dialogue is one way of using the SAT manager.                       *)
(***************************************************************************)

\* A step of the dialogue is a step of the manager.
LEMMA DialogueIsNext ==
    ASSUME TypeOK, DialogueNext
    PROVE  Next
BY DEF DialogueNext, SomeClientAnswers, ClientAnswers, CardSends, Next,
   Notification, Call, TypeOK, Announcements

\* Whatever holds of the SAT manager among arbitrary clients holds among the
\* well-behaved ones.
THEOREM DialogueIsSpec == DialogueSpec => Spec
<1>1. TypeOK /\ [DialogueNext]_vars => [Next]_vars
  BY DialogueIsNext
<1>2. TypeOK /\ [DialogueNext]_vars => TypeOK'
  BY <1>1, TypeStep
<1>. QED
  BY <1>1, <1>2, TypeInit, PTL DEF DialogueSpec, Spec
-----------------------------------------------------------------------------
(***************************************************************************)
(* One modem.                                                              *)
(***************************************************************************)

\* An announcement that somebody may answer.
Open(a) == a.ask # "none"

\* The queue holds one command at most; the one open announcement, if there is one,
\* names it: by the id 0, on the object of modem m.
Attended(m) ==
    /\ Len(queue) <= 1
    /\ \A a \in told : Open(a) =>
          Len(queue) = 1 /\ a.id = 0 /\ a.cmd = queue[1].cmd /\ a.modem = m
    /\ \A a, b \in told : Open(a) /\ Open(b) => a = b

\* What is asked for is what the type of the command has a handler for.
Handled(a) ==
    /\ a.ask = "exec" => a.cmd.kind.type \in ExecTypes
    /\ a.ask = "confirm" =>
          a.cmd.kind.type \in ConfirmTypes \cup {"SETUP_IDLE_MODE_TEXT"}

\* The inductive invariant of a dialogue with modem m alone.
DInv(m) ==
    /\ TypeOK
    /\ Attended(m)
    /\ \A a \in told : Handled(a)
    /\ OnlyIdleTextStranded
    /\ NeverCrashes
    /\ ResponsesAreOwn
-----------------------------------------------------------------------------
\* At most one client is asked for an answer, and some client is unless the command
\* is a menu.
LEMMA OneAsked ==
    ASSUME NEW k \in Kinds
    PROVE  IF k.type = "SETUP_MENU" THEN AsksFor(k) = {"none"}
           ELSE \E ask \in {"exec", "confirm", "status"} :
                   AsksFor(k) = {ask} \/ AsksFor(k) = {ask, "none"}
<1>1. CASE k.type = "SETUP_MENU"
  BY <1>1 DEF AsksFor, UiTypes, TextConfirmed, TextShown
<1>2. CASE k.type # "SETUP_MENU"
  <2>1. AsksFor(k) \in {{"confirm", "none"}, {"status", "none"}, {"confirm"},
                       {"status"}, {"exec"}}
    BY <1>2 DEF AsksFor
  <2>. QED
    BY <1>2, <2>1
<1>. QED
  BY <1>1, <1>2

\* A command is queued only if it has a handler for the answer it asks for.
LEMMA AskedIsHandled ==
    ASSUME NEW k \in Kinds, Intake(k) = "QUEUE"
    PROVE  /\ "exec" \in AsksFor(k) => k.type \in ExecTypes
           /\ "confirm" \in AsksFor(k) =>
                 k.type \in ConfirmTypes \cup {"SETUP_IDLE_MODE_TEXT"}
<1>1. k.type \notin UnqueuedTypes
  BY DEF Intake, UnqueuedTypes, setup_event_list_noti, more_time_noti, RefuseIf,
     Results, NotUnderstood
<1>2. k.type \in ExecTypes \cup UiTypes \cup {"REFRESH"}
  BY <1>1 DEF Kinds, Types
<1>. QED
  BY <1>2 DEF AsksFor, ExecTypes, UiTypes, TextConfirmed, TextShown, ConfirmTypes

\* A command that is queued again is one an application carries out.
LEMMA AgainIsHandled ==
    ASSUME NEW k \in Kinds
    PROVE  /\ \A confirm \in Confirms :
                 k.type \in ConfirmTypes /\ ConfirmResult(k, confirm) = "AGAIN"
                 => k.type \in ExecTypes
           /\ \A shown \in BOOLEAN :
                 StatusResult(k, shown) = "AGAIN" => k.type \in ExecTypes
<1>1. ASSUME NEW confirm \in Confirms, k.type \in ConfirmTypes,
             ConfirmResult(k, confirm) = "AGAIN"
      PROVE  k.type \in ExecTypes
  BY <1>1 DEF Confirms, ConfirmResult, ConfirmTypes, UiTypes, ExecTypes, Answered, OrIcon,
     IconMissing, Terminated, menu_select_confirm, display_text_confirm,
     get_inkey_confirm, get_input_confirm
<1>2. ASSUME NEW shown \in BOOLEAN, StatusResult(k, shown) = "AGAIN"
      PROVE  k.type \in ExecTypes
  BY <1>2 DEF StatusResult, ExecTypes, RunIfShown, Unable, OrIcon, IconMissing,
     setup_idle_mode_text_ui_display_status, refresh_ui_display_status
<1>. QED
  BY <1>1, <1>2

\* A terminal response to the command the client was asked about, through that
\* command's modem.
LEMMA OwnResponse ==
    ASSUME NEW cmd, NEW as, NEW said, NEW result,
           \E dispatched \in SendOutcomes :
               SendTerminalResponse(cmd, cmd.modem, as, said, cmd.no, result,
                                    dispatched)
    PROVE  ResponsesAreOwn'
<1> DEFINE tr == [cmd |-> cmd, via |-> cmd.modem, as |-> as, said |-> said,
                  meant |-> cmd.no, result |-> result]
<1>1. tr.cmd = cmd /\ tr.meant = cmd.no /\ tr.via = cmd.modem
  OBVIOUS
<1>2. sent' = {tr} \/ sent' = {}
  BY DEF SendTerminalResponse, SendNothing
<1> HIDE DEF tr
<1>. QED
  BY <1>1, <1>2 DEF ResponsesAreOwn

\* No terminal response.
LEMMA NoResponse ==
    ASSUME SendNothing
    PROVE  ResponsesAreOwn'
BY DEF SendNothing, ResponsesAreOwn
-----------------------------------------------------------------------------
(***************************************************************************)
(* The two situations of a dialogue with one modem: a client is asked, or  *)
(* the card may send.                                                      *)
(***************************************************************************)

\* The id of a client that is asked is that of its command, which is alone.
LEMMA TheAsked ==
    ASSUME NEW m, Modems = {m}, TypeOK, Attended(m), NEW a \in told, Open(a)
    PROVE  /\ queue # << >> /\ Present(queue, a.id) /\ ~PopFaults(queue, a.id)
           /\ At(queue, a.id) \in Entries /\ At(queue, a.id).cmd = a.cmd
           /\ a.cmd \in Commands /\ a.cmd.kind \in Kinds
           /\ Pop(queue, a.id) = << >>
           /\ a.modem = m /\ a.cmd.modem = m
           /\ \A b \in told \ {a} : b.ask = "none"
<1>1. /\ Len(queue) = 1 /\ a.id = 0 /\ a.cmd = queue[1].cmd /\ a.modem = m
      /\ \A b \in told \ {a} : b.ask = "none"
  BY DEF Attended, Open
<1>2. queue \in Seq(Entries)
  BY DEF TypeOK
<1>3. queue[1] \in Entries
  <2>1. 1 \in 1 .. Len(queue)
    BY <1>1
  <2>. QED
    BY <1>2, <2>1
<1>4. \A e \in Entries : e.cmd \in Commands /\ e.cmd.kind \in Kinds
                         /\ e.cmd.modem = m
  BY KindsAssumption DEF Entries, Commands
<1>5. Present(queue, 0) /\ At(queue, 0) = queue[1] /\ queue # << >>
  <2>1. Len(queue) - 1 = 0 /\ Len(<< >>) = 0
    BY <1>1
  <2>2. Present(queue, 0) /\ At(queue, 0) = queue[1]
    BY <2>1 DEF Present, At
  <2>3. Len(queue) # Len(<< >>)
    BY <1>1, <2>1
  <2>. QED
    BY <2>2, <2>3, Zenon
<1>6. Pop(queue, 0) = << >>
  <2>1. Pop(queue, 0) \in Seq(Entries) /\ Len(Pop(queue, 0)) = Len(queue) - 1
    BY <1>2, <1>5, PopFacts
  <2>2. Len(Pop(queue, 0)) = 0
    BY <1>1, <2>1
  <2>. QED
    BY <2>1, <2>2
<1>. QED
  BY <1>1, <1>3, <1>4, <1>5, <1>6 DEF PopFaults

\* A card that waits for nothing has no command in the queue, and nobody is asked.
LEMMA NobodyAsked ==
    ASSUME NEW m, Modems = {m}, TypeOK, Attended(m), ~Waiting(m)
    PROVE  queue = << >> /\ \A b \in told : b.ask = "none"
<1>1. queue \in Seq(Entries) /\ \A e \in Entries : e.cmd.modem = m
  BY DEF TypeOK, Entries, Commands
<1>2. queue = << >>
  BY <1>1 DEF Waiting
<1>. QED
  BY <1>2 DEF Attended, Open

\* With nothing in the queue and nobody asked all is well.
LEMMA QuietAfter ==
    ASSUME NEW m, queue' = << >>, \A b \in told' : b.ask = "none"
    PROVE  Attended(m)' /\ (\A a \in told : Handled(a))' /\ OnlyIdleTextStranded'
BY DEF Attended, Open, Handled, OnlyIdleTextStranded

\* And so it is with one command that one client is asked about.
LEMMA AskedAfter ==
    ASSUME NEW m, NEW e, NEW before, NEW ask \in {"exec", "confirm", "status"},
           NEW asks, asks = {ask} \/ asks = {ask, "none"}, NEW ticket,
           queue' = << e >>,
           told' = before \cup Announce(e.cmd, 0, ticket, asks, m),
           \A b \in before : b.ask = "none",
           ask = "exec" => e.cmd.kind.type \in ExecTypes,
           ask = "confirm" =>
              e.cmd.kind.type \in ConfirmTypes \cup {"SETUP_IDLE_MODE_TEXT"}
    PROVE  Attended(m)' /\ (\A a \in told : Handled(a))' /\ OnlyIdleTextStranded'
<1> DEFINE asked == [id |-> 0, ticket |-> ticket, cmd |-> e.cmd, ask |-> ask,
                     modem |-> m]
<1>1. asked \in told'
  BY DEF Announce
<1>2. \A b \in told' : b = asked \/ b.ask = "none"
  BY DEF Announce
<1>3. asked.id = 0 /\ asked.cmd = e.cmd /\ asked.ask = ask /\ asked.modem = m
  OBVIOUS
<1> HIDE DEF asked
<1>4. queue'[1] = e /\ Len(queue') = 1 /\ DOMAIN queue' = {1}
  OBVIOUS
<1>5. Attended(m)'
  BY <1>2, <1>3, <1>4 DEF Attended, Open
<1>6. (\A a \in told : Handled(a))'
  BY <1>2, <1>3 DEF Handled
<1>7. OnlyIdleTextStranded'
  BY <1>1, <1>3, <1>4 DEF OnlyIdleTextStranded
<1>. QED
  BY <1>5, <1>6, <1>7

\* A push to the empty queue finds room.
LEMMA PushFirst ==
    ASSUME NEW e
    PROVE  Push(<< >>, e) = << e >> /\ NextId(<< >>) = 0
BY CapacityPositive DEF Push, Full, NextId

\* Everything of the invariant but the types.
Going(m) ==
    /\ Attended(m)
    /\ \A a \in told : Handled(a)
    /\ OnlyIdleTextStranded
    /\ NeverCrashes
    /\ ResponsesAreOwn

\* What the card sends.
LEMMA CardStep ==
    ASSUME NEW m, Modems = {m}, DInv(m), CardSends(m)
    PROVE  Going(m)'
<1>1. /\ TypeOK /\ Attended(m) /\ ~crashed /\ m \in Modems
      /\ queue = << >> /\ \A b \in told : b.ask = "none"
  BY NobodyAsked DEF DInv, NeverCrashes, CardSends
<1>2. ASSUME SessionEnd(m) PROVE Going(m)'
  <2>1. queue' = << >> /\ \A b \in told' : b.ask = "none"
    BY <1>1, <1>2 DEF SessionEnd, TerminateSatUi
  <2>2. ResponsesAreOwn'
    BY <1>2, NoResponse DEF SessionEnd
  <2>3. NeverCrashes'
    BY <1>1, <1>2 DEF SessionEnd, NeverCrashes
  <2>. QED
    BY <2>1, <2>2, <2>3, QuietAfter DEF Going
<1>3. ASSUME NEW k \in CommandKinds, ReceiveUnqueued(m, k) PROVE Going(m)'
  <2>1. queue' = << >> /\ \A b \in told' : b.ask = "none"
    BY <1>1, <1>3 DEF ReceiveUnqueued
  <2>2. ResponsesAreOwn'
    <3>1. CASE Intake(k) = "DROP"
      BY <1>3, <3>1, NoResponse DEF ReceiveUnqueued
    <3>2. CASE Intake(k) # "DROP"
      <4>1. PICK cmd : cmd = Received(m, k)
        OBVIOUS
      <4>2. cmd.modem = m /\ cmd.no = clock'
        BY <1>3, <4>1 DEF ReceiveUnqueued, Receive, Received
      <4>3. \E dispatched \in SendOutcomes :
               SendTerminalResponse(cmd, cmd.modem, k.type, "PLUGIN", cmd.no,
                                    Intake(k), dispatched)
        BY <1>3, <3>2, <4>1, <4>2 DEF ReceiveUnqueued
      <4>. QED
        BY <4>3, OwnResponse
    <3>. QED
      BY <3>1, <3>2
  <2>3. NeverCrashes'
    BY <1>1, <1>3 DEF ReceiveUnqueued, NeverCrashes
  <2>. QED
    BY <2>1, <2>2, <2>3, QuietAfter DEF Going
<1>4. ASSUME NEW k \in CommandKinds, ReceiveQueued(m, k) PROVE Going(m)'
  <2>1. PICK e : e = [cmd_id |-> 0, ticket |-> clock + 1, cmd |-> Received(m, k)]
    OBVIOUS
  <2>2. clock' = clock + 1 /\ k \in Kinds /\ k.type # "SETUP_MENU"
        /\ Intake(k) = "QUEUE" /\ e.cmd.kind = k /\ e.cmd = Received(m, k)
    BY <1>4, <2>1, KindsAssumption DEF ReceiveQueued, Receive, Received
  <2>3. queue' = << e >>
    <3>1. queue' = Push(<< >>, e)
      BY <1>1, <1>4, <2>1, <2>2, PushFirst DEF ReceiveQueued
    <3>. QED
      BY <3>1, PushFirst
  <2>4. PICK ticket : ticket = clock + 1
    OBVIOUS
  <2>5. told' = told \cup Announce(e.cmd, 0, ticket, AsksFor(k), m)
    BY <1>1, <1>4, <2>2, <2>4, PushFirst DEF ReceiveQueued
  <2>6. PICK ask \in {"exec", "confirm", "status"} :
           AsksFor(k) = {ask} \/ AsksFor(k) = {ask, "none"}
    BY <2>2, OneAsked
  <2>7. /\ ask = "exec" => e.cmd.kind.type \in ExecTypes
        /\ ask = "confirm" =>
              e.cmd.kind.type \in ConfirmTypes \cup {"SETUP_IDLE_MODE_TEXT"}
    BY <2>2, <2>6, AskedIsHandled
  <2>8. PICK before, asks : before = told /\ asks = AsksFor(k)
    OBVIOUS
  <2>9. Attended(m)' /\ (\A a \in told : Handled(a))' /\ OnlyIdleTextStranded'
    BY <1>1, <2>3, <2>5, <2>6, <2>7, <2>8, AskedAfter
  <2>10. ResponsesAreOwn' /\ NeverCrashes'
    BY <1>1, <1>4, NoResponse DEF ReceiveQueued, NeverCrashes
  <2>. QED
    BY <2>9, <2>10 DEF Going
<1>5. ASSUME NEW k \in CommandKinds, ReceiveMenu(m, k) PROVE Going(m)'
  <2>1. PICK cmd : cmd = Received(m, k)
    OBVIOUS
  <2>2. PICK e : e = [cmd_id |-> 0, ticket |-> clock + 1, cmd |-> cmd]
    OBVIOUS
  <2>3. cmd.modem = m /\ cmd.no = clock + 1 /\ e.cmd = cmd
    BY <2>1, <2>2 DEF Received
  <2>4. /\ Push(<< >>, e) = << e >> /\ NextId(<< >>) = 0
        /\ ~PopFaults(<< e >>, 0) /\ Pop(<< e >>, 0) = << >> /\ At(<< e >>, 0) = e
    <3>1. ~PopFaults(<< e >>, 0) /\ At(<< e >>, 0) = e
      BY DEF PopFaults, Present, At
    <3>2. << e >> \in Seq({e}) /\ Len(<< e >>) - 1 = 0 /\ Present(<< e >>, 0)
      BY DEF Present
    <3>3. Pop(<< e >>, 0) = << >>
      <4>1. Pop(<< e >>, 0) \in Seq({e}) /\ Len(Pop(<< e >>, 0)) = 0
        BY <3>2, PopFacts
      <4>. QED
        BY <4>1
    <3>. QED
      BY <3>1, <3>3, PushFirst
  <2>5. k \in Kinds /\ k.type = "SETUP_MENU" /\ AsksFor(k) = {"none"}
    BY <1>5, KindsAssumption, OneAsked DEF ReceiveMenu
  <2>6. /\ clock' = clock + 1
        /\ queue' = << >>
        /\ crashed' = crashed
        /\ TerminateSatUi(told \cup Announce(cmd, 0, clock', AsksFor(k), m))
        /\ \E dispatched \in SendOutcomes, result \in Results :
              SendTerminalResponse(cmd, m, "SETUP_MENU", "PLUGIN", clock', result,
                                   dispatched)
    BY <1>1, <1>5, <2>1, <2>2, <2>3, <2>4 DEF ReceiveMenu, Receive
  <2>7. \A b \in told' : b.ask = "none"
    BY <1>1, <2>5, <2>6 DEF TerminateSatUi, Announce
  <2>8. ResponsesAreOwn'
    BY <2>3, <2>6, OwnResponse
  <2>9. NeverCrashes'
    BY <1>1, <2>6 DEF NeverCrashes
  <2>. QED
    BY <2>6, <2>7, <2>8, <2>9, QuietAfter DEF Going
<1>. QED
  BY <1>2, <1>3, <1>4, <1>5 DEF CardSends

\* What the client that is asked answers.
LEMMA ClientStep ==
    ASSUME NEW m, Modems = {m}, DInv(m), NEW a \in told, ClientAnswers(a)
    PROVE  Going(m)'
<1>1. PICK cmd : cmd = a.cmd
  OBVIOUS
<1>2. PICK e : e = At(queue, a.id)
  OBVIOUS
<1>3. PICK rest : rest = told \ {a}
  OBVIOUS
<1>4. /\ TypeOK /\ ~crashed /\ Handled(a) /\ Open(a) /\ Attended(m)
  BY DEF DInv, NeverCrashes, ClientAnswers, Open
<1>5. /\ queue # << >> /\ Present(queue, a.id) /\ ~PopFaults(queue, a.id)
      /\ e \in Entries /\ e.cmd = cmd /\ cmd \in Commands /\ cmd.kind \in Kinds
      /\ Pop(queue, a.id) = << >> /\ a.modem = m /\ cmd.modem = m
      /\ \A b \in rest : b.ask = "none"
  BY <1>1, <1>2, <1>3, <1>4, TheAsked
<1>6. ASSUME NEW resp \in Responses, a.ask = "exec",
             SendAppExecResult(a, a.modem, resp)
      PROVE  Going(m)'
  <2>1. cmd.kind.type \in ExecTypes
    BY <1>1, <1>4, <1>6 DEF Handled
  <2>2. /\ queue' = << >> /\ TerminateSatUi(rest) /\ crashed' = crashed
        /\ \E dispatched \in SendOutcomes, result \in Results :
              SendTerminalResponse(cmd, m, cmd.kind.type, resp, cmd.no, result,
                                   dispatched)
    BY <1>1, <1>2, <1>3, <1>5, <1>6, <2>1 DEF SendAppExecResult
  <2>3. \A b \in told' : b.ask = "none"
    BY <1>5, <2>2 DEF TerminateSatUi
  <2>4. ResponsesAreOwn'
    BY <1>5, <2>2, OwnResponse
  <2>5. NeverCrashes'
    BY <1>4, <2>2 DEF NeverCrashes
  <2>. QED
    BY <2>2, <2>3, <2>4, <2>5, QuietAfter DEF Going
<1>7. ASSUME QueueAgain(<< >>, e, m, rest), SendNothing, crashed' = crashed,
             cmd.kind.type \in ExecTypes
      PROVE  Going(m)'
  <2>1. PICK again : again = [e EXCEPT !.cmd_id = NextId(<< >>), !.ticket = clock']
    OBVIOUS
  <2>2. again.cmd = cmd
    BY <1>5, <2>1 DEF Entries
  <2>3. PICK ticket : ticket = clock'
    OBVIOUS
  <2>4. /\ queue' = << again >>
        /\ told' = rest \cup Announce(again.cmd, 0, ticket, {"exec"}, m)
    BY <1>5, <1>7, <2>1, <2>2, <2>3, PushFirst DEF QueueAgain
  <2>5. Attended(m)' /\ (\A b \in told : Handled(b))' /\ OnlyIdleTextStranded'
    BY <1>5, <1>7, <2>2, <2>4, AskedAfter
  <2>6. ResponsesAreOwn' /\ NeverCrashes'
    BY <1>4, <1>7, NoResponse DEF NeverCrashes
  <2>. QED
    BY <2>5, <2>6 DEF Going
<1>8. ASSUME NEW confirm \in UserAnswers, a.ask = "confirm",
             SendUserConfirm(a, a.modem, confirm)
      PROVE  Going(m)'
  <2>1. PICK result : result = ConfirmResult(cmd.kind, confirm)
    OBVIOUS
  <2>2. CASE cmd.kind.type \notin ConfirmTypes
    <3>1. cmd.kind.type = "SETUP_IDLE_MODE_TEXT"
      BY <1>1, <1>4, <1>8, <2>2 DEF Handled
    <3>2. queue' = queue /\ told' = rest /\ crashed' = crashed /\ SendNothing
      BY <1>2, <1>3, <1>5, <1>8, <2>2 DEF SendUserConfirm
    <3>3. Len(queue) = 1 /\ queue[1].cmd = cmd
      BY <1>1, <1>4 DEF Attended
    <3>4. Attended(m)' /\ (\A b \in told : Handled(b))'
      BY <1>5, <3>2, <3>3 DEF Attended, Open, Handled
    <3>5. OnlyIdleTextStranded'
      <4>1. DOMAIN queue = {1}
        BY <1>4, <3>3 DEF TypeOK
      <4>. QED
        BY <3>1, <3>2, <3>3, <4>1 DEF OnlyIdleTextStranded
    <3>6. ResponsesAreOwn' /\ NeverCrashes'
      BY <1>4, <3>2, NoResponse DEF NeverCrashes
    <3>. QED
      BY <3>4, <3>5, <3>6 DEF Going
  <2>3. CASE cmd.kind.type \in ConfirmTypes /\ result = "AGAIN"
    <3>1. cmd.kind.type \in ExecTypes
      BY <1>5, <2>1, <2>3, AgainIsHandled, AnswersAssumption
    <3>2. QueueAgain(<< >>, e, m, rest) /\ SendNothing /\ crashed' = crashed
      BY <1>2, <1>3, <1>5, <1>8, <2>1, <2>3 DEF SendUserConfirm
    <3>. QED
      BY <1>7, <3>1, <3>2
  <2>4. CASE cmd.kind.type \in ConfirmTypes /\ result # "AGAIN"
    <3>1. queue' = << >> /\ told' = rest /\ crashed' = crashed
      BY <1>2, <1>3, <1>5, <1>8, <2>1, <2>4 DEF SendUserConfirm
    <3>2. \/ SendNothing
          \/ \E dispatched \in SendOutcomes :
                SendTerminalResponse(cmd, m, cmd.kind.type, confirm, cmd.no,
                                     result, dispatched)
      BY <1>1, <1>2, <1>5, <1>8, <2>1, <2>4 DEF SendUserConfirm
    <3>3. ResponsesAreOwn'
      BY <1>5, <3>2, NoResponse, OwnResponse
    <3>4. NeverCrashes'
      BY <1>4, <3>1 DEF NeverCrashes
    <3>. QED
      BY <1>5, <3>1, <3>3, <3>4, QuietAfter DEF Going
  <2>. QED
    BY <2>2, <2>3, <2>4
<1>9. ASSUME NEW shown \in BOOLEAN, a.ask = "status",
             SendUiDisplayStatus(a, a.modem, shown)
      PROVE  Going(m)'
  <2>1. PICK result : result = StatusResult(cmd.kind, shown)
    OBVIOUS
  <2>2. CASE result = "AGAIN"
    <3>1. cmd.kind.type \in ExecTypes
      BY <1>5, <2>1, <2>2, AgainIsHandled
    <3>2. QueueAgain(<< >>, e, m, rest) /\ SendNothing /\ crashed' = crashed
      BY <1>2, <1>3, <1>5, <1>9, <2>1, <2>2 DEF SendUiDisplayStatus
    <3>. QED
      BY <1>7, <3>1, <3>2
  <2>3. CASE result # "AGAIN"
    <3>1. /\ queue' = << >> /\ crashed' = crashed
          /\ TerminateSatUi(rest) \/ told' = rest
      BY <1>2, <1>3, <1>5, <1>9, <2>1, <2>3 DEF SendUiDisplayStatus
    <3>2. \A b \in told' : b.ask = "none"
      BY <1>5, <3>1 DEF TerminateSatUi
    <3>3. \/ SendNothing
          \/ \E dispatched \in SendOutcomes :
                SendTerminalResponse(cmd, m, cmd.kind.type,
                                     IF shown THEN "SHOWN" ELSE "NOT_SHOWN",
                                     cmd.no, result, dispatched)
      BY <1>1, <1>2, <1>5, <1>9, <2>1, <2>3 DEF SendUiDisplayStatus
    <3>4. ResponsesAreOwn'
      BY <1>5, <3>3, NoResponse, OwnResponse
    <3>5. NeverCrashes'
      BY <1>4, <3>1 DEF NeverCrashes
    <3>. QED
      BY <3>1, <3>2, <3>4, <3>5, QuietAfter DEF Going
  <2>. QED
    BY <2>2, <2>3
<1>. QED
  BY <1>6, <1>8, <1>9 DEF ClientAnswers
-----------------------------------------------------------------------------
\* The invariant is inductive.
LEMMA DialogueStep ==
    ASSUME NEW m, Modems = {m}, DInv(m), [DialogueNext]_vars
    PROVE  DInv(m)'
<1>1. CASE DialogueNext
  <2>1. Next
    BY <1>1, DialogueIsNext DEF DInv
  <2>2. TypeOK'
    BY <2>1, TypeStep DEF DInv
  <2>3. Going(m)'
    BY <1>1, CardStep, ClientStep DEF DialogueNext, SomeClientAnswers
  <2>. QED
    BY <2>2, <2>3 DEF DInv, Going
<1>2. CASE UNCHANGED vars
  <2>1. TypeOK'
    BY <1>2, TypeStep DEF DInv
  <2>. QED
    BY <1>2, <2>1 DEF vars, DInv, Attended, Open, Handled, OnlyIdleTextStranded,
       NeverCrashes, ResponsesAreOwn
<1>. QED
  BY <1>1, <1>2

\* And holds when the plugin starts.
LEMMA DialogueInit ==
    ASSUME NEW m, Init
    PROVE  DInv(m)
BY TypeInit DEF Init, DInv, Attended, Open, Handled, OnlyIdleTextStranded,
   NeverCrashes, ResponsesAreOwn

\* The strengthened invariant of a dialogue with one modem.
THEOREM DialogueHolds ==
    ASSUME NEW m, Modems = {m}
    PROVE  DialogueSpec => []DInv(m)
<1>1. Init => DInv(m)
  BY DialogueInit
<1>2. DInv(m) /\ [DialogueNext]_vars => DInv(m)'
  BY DialogueStep
<1>. QED
  BY <1>1, <1>2, PTL DEF DialogueSpec

\* With one modem no id is ever beyond the end of the queue.
THEOREM OneModemNeverCrashes ==
    ASSUME NEW m, Modems = {m}
    PROVE  DialogueSpec => []NeverCrashes
<1>1. DInv(m) => NeverCrashes
  BY DEF DInv
<1>. QED
  BY <1>1, DialogueHolds, PTL

\* With one modem every terminal response answers the command its client was asked
\* about, on the modem that sent it.
THEOREM OneModemAnswersItsOwn ==
    ASSUME NEW m, Modems = {m}
    PROVE  DialogueSpec => []ResponsesAreOwn
<1>1. DInv(m) => ResponsesAreOwn
  BY DEF DInv
<1>. QED
  BY <1>1, DialogueHolds, PTL

\* With one modem no command but an idle text is left without a client that can
\* answer it.
THEOREM OneModemStrandsIdleTexts ==
    ASSUME NEW m, Modems = {m}
    PROVE  DialogueSpec => []OnlyIdleTextStranded
<1>1. DInv(m) => OnlyIdleTextStranded
  BY DEF DInv
<1>. QED
  BY <1>1, DialogueHolds, PTL
-----------------------------------------------------------------------------
(***************************************************************************)
(* Successes.                                                              *)
(***************************************************************************)
Claimed(tr) ==
    tr.result \in Successes =>
        \/ tr.said \in Successes \cup {"YES", "SHOWN", "PLUGIN"}
        \/ tr.said = "NO_OR_CANCEL" /\ Has(tr.cmd.kind, "yes_no")

\* The result handler of a faithful type, applied to a command of any type, makes
\* no success of what an application reports as a failure.
LEMMA FaithfulExec ==
    ASSUME NEW as \in ExecTypes \cap FaithfulTypes, NEW k, NEW resp,
           resp \notin Successes
    PROVE  \A result \in ExecResult(as, k, resp) : result \notin Successes
BY DEF ExecResult, ExecTypes, FaithfulTypes, Types, UiTypes, UnqueuedTypes,
   Successes, IconMissing, Unable, NotUnderstood, setup_menu_result,
   send_sms_result, send_ss_result, send_ussd_result,
   setup_idle_mode_text_result, open_channel_result, close_channel_result,
   receive_data_result, send_data_result, get_channel_status_result

\* A user who neither agreed nor said the "no" of a yes-or-no key is reported so.
LEMMA FaithfulConfirm ==
    ASSUME NEW k \in Kinds, k.type \in ConfirmTypes \cap FaithfulTypes,
           NEW confirm \in Confirms, confirm # "YES",
           ConfirmResult(k, confirm) \in Successes
    PROVE  confirm = "NO_OR_CANCEL" /\ Has(k, "yes_no")
BY DEF ConfirmResult, ConfirmTypes, FaithfulTypes, UiTypes, Confirms, Successes,
   Answered, IconMissing, Terminated, menu_select_confirm, get_inkey_confirm,
   get_input_confirm, open_channel_confirm

\* A terminal response claims what the parts it is made of claim.
LEMMA ClaimedResponse ==
    ASSUME NEW cmd, NEW via, NEW as, NEW said, NEW meant, NEW result,
           \/ result \notin Successes
           \/ said \in Successes \cup {"YES", "SHOWN", "PLUGIN"}
           \/ said = "NO_OR_CANCEL" /\ Has(cmd.kind, "yes_no"),
           NEW dispatched,
           SendTerminalResponse(cmd, via, as, said, meant, result, dispatched)
    PROVE  \A tr \in sent' : Claimed(tr)
<1> DEFINE it == [cmd |-> cmd, via |-> via, as |-> as, said |-> said,
                  meant |-> meant, result |-> result]
<1>1. sent' = {} \/ sent' = {it}
  BY DEF SendTerminalResponse, SendNothing
<1>2. it.cmd = cmd /\ it.said = said /\ it.result = result
  OBVIOUS
<1> HIDE DEF it
<1>3. Claimed(it)
  BY <1>2, Zenon DEF Claimed
<1>. QED
  BY <1>1, <1>3

\* The types of what is queued and of what clients were told of.
LEMMA FaithfulQueue ==
    ASSUME \A k \in CommandKinds : k.type \in FaithfulTypes, TypeOK, NEW a \in told
    PROVE  /\ a.cmd.kind.type \in FaithfulTypes
           /\ Present(queue, a.id) =>
                 /\ At(queue, a.id).cmd.kind \in Kinds
                 /\ At(queue, a.id).cmd.kind.type \in FaithfulTypes
<1>1. \A cmd \in Commands : cmd.kind.type \in FaithfulTypes
  BY DEF Commands
<1>2. a.cmd \in Commands
  BY DEF TypeOK, Announcements
<1>. QED
  BY <1>1, <1>2, ToldType

\* No step of the manager makes a success up.
LEMMA ClaimedStep ==
    ASSUME \A k \in CommandKinds : k.type \in FaithfulTypes, TypeOK, Next
    PROVE  \A tr \in sent' : Claimed(tr)
<1> DEFINE Done == \A tr \in sent' : Claimed(tr)
<1>0. ASSUME SendNothing PROVE Done
  BY <1>0 DEF SendNothing
<1>1. ASSUME NEW m \in Modems, NEW k \in CommandKinds,
             ReceiveUnqueued(m, k) \/ ReceiveMenu(m, k)
      PROVE  Done
  <2>1. SendNothing \/ \E cmd, as, result : \E dispatched \in SendOutcomes :
            SendTerminalResponse(cmd, m, as, "PLUGIN", clock', result, dispatched)
    BY <1>1 DEF ReceiveUnqueued, ReceiveMenu, Crash
  <2>. QED
    BY <1>0, <2>1, ClaimedResponse
<1>2. ASSUME NEW a \in told, NEW m \in Modems, NEW resp \in Responses,
             SendAppExecResult(a, m, resp)
      PROVE  Done
  <2>1. PICK as, cmd : as = a.cmd.kind.type /\ cmd = At(queue, a.id).cmd
    OBVIOUS
  <2>2. CASE as \notin ExecTypes \/ queue = << >> \/ PopFaults(queue, a.id)
    BY <1>0, <1>2, <2>1, <2>2 DEF SendAppExecResult, Crash
  <2>3. CASE ~(as \notin ExecTypes \/ queue = << >> \/ PopFaults(queue, a.id))
    <3>1. PICK dispatched \in SendOutcomes, result \in ExecResult(as, cmd.kind, resp) :
              SendTerminalResponse(cmd, m, as, resp, a.cmd.no, result, dispatched)
      BY <1>2, <2>1, <2>3 DEF SendAppExecResult
    <3>2. as \in ExecTypes \cap FaithfulTypes
      BY <2>1, <2>3, FaithfulQueue
    <3>3. resp \in Successes \/ result \notin Successes
      BY <3>1, <3>2, FaithfulExec
    <3>. QED
      BY <3>1, <3>3, ClaimedResponse
  <2>. QED
    BY <2>2, <2>3
<1>3. ASSUME NEW a \in told, NEW m \in Modems, NEW confirm \in UserAnswers,
             SendUserConfirm(a, m, confirm)
      PROVE  Done
  <2>1. PICK cmd, result : /\ cmd = At(queue, a.id).cmd
                           /\ result = ConfirmResult(cmd.kind, confirm)
    OBVIOUS
  <2>2. CASE ~Present(queue, a.id) \/ cmd.kind.type \notin ConfirmTypes
    BY <1>0, <1>3, <2>1, <2>2 DEF SendUserConfirm
  <2>3. CASE Present(queue, a.id) /\ cmd.kind.type \in ConfirmTypes
    <3>1. SendNothing \/ \E dispatched \in SendOutcomes :
              SendTerminalResponse(cmd, m, cmd.kind.type, confirm, a.cmd.no,
                                   result, dispatched)
      BY <1>3, <2>1 DEF SendUserConfirm
    <3>2. confirm = "YES" \/ result \notin Successes
          \/ (confirm = "NO_OR_CANCEL" /\ Has(cmd.kind, "yes_no"))
      <4>1. cmd.kind \in Kinds /\ cmd.kind.type \in ConfirmTypes \cap FaithfulTypes
        BY <2>1, <2>3, FaithfulQueue
      <4>2. confirm \in Confirms
        BY AnswersAssumption
      <4>. QED
        BY <2>1, <4>1, <4>2, FaithfulConfirm
    <3>. QED
      BY <1>0, <3>1, <3>2, ClaimedResponse
  <2>. QED
    BY <2>2, <2>3
<1>4. ASSUME NEW a \in told, NEW m \in Modems, NEW shown \in BOOLEAN,
             SendUiDisplayStatus(a, m, shown)
      PROVE  Done
  <2>1. PICK cmd, result : /\ cmd = At(queue, a.id).cmd
                           /\ result = StatusResult(cmd.kind, shown)
    OBVIOUS
  <2>2. CASE queue = << >> \/ PopFaults(queue, a.id)
    BY <1>0, <1>4, <2>2 DEF SendUiDisplayStatus, Crash
  <2>3. CASE ~(queue = << >> \/ PopFaults(queue, a.id))
    <3>1. PICK said : said = IF shown THEN "SHOWN" ELSE "NOT_SHOWN"
      OBVIOUS
    <3>2. SendNothing \/ \E dispatched \in SendOutcomes :
              SendTerminalResponse(cmd, m, cmd.kind.type, said, a.cmd.no,
                                   result, dispatched)
      BY <1>4, <2>1, <3>1 DEF SendUiDisplayStatus, Crash
    <3>3. said = "SHOWN" \/ result \notin Successes
      <4>1. cmd.kind \in Kinds
        BY <2>1, <2>3, FaithfulQueue DEF PopFaults
      <4>2. shown = FALSE => result \notin Successes
        BY <2>1, <4>1, NotShownFails
      <4>. QED
        BY <3>1, <4>2
    <3>. QED
      BY <1>0, <3>2, <3>3, ClaimedResponse
  <2>. QED
    BY <2>2, <2>3
<1>5. ASSUME GetMainMenuInfo \/ \E m \in Modems : SessionEnd(m) \/
                 \E k \in CommandKinds : ReceiveQueued(m, k)
      PROVE  Done
  BY <1>0, <1>5 DEF GetMainMenuInfo, SessionEnd, ReceiveQueued
<1>. QED
  BY <1>1, <1>2, <1>3, <1>4, <1>5 DEF Next, Notification, Call

\* However stale the ids and whoever answers what: as long as the cards send only
\* commands of the faithful types, a card is told of a success only if a client, or
\* the plugin that carried the command out itself, claimed one.
THEOREM SuccessesAreClaimed ==
    ASSUME \A k \in CommandKinds : k.type \in FaithfulTypes
    PROVE  Spec => []SuccessIsReported
<1> DEFINE Sound == \A tr \in sent : Claimed(tr)
<1>1. Init => Sound
  BY DEF Init
<1>2. TypeOK /\ Sound /\ [Next]_vars => Sound'
  <2>1. ASSUME UNCHANGED vars, Sound PROVE Sound'
    BY <2>1 DEF vars
  <2>2. ASSUME TypeOK, Next PROVE Sound'
    BY <2>2, ClaimedStep
  <2>. QED
    BY <2>1, <2>2
<1>3. Sound => SuccessIsReported
  BY DEF SuccessIsReported, Claimed
<1>. QED
  BY <1>1, <1>2, <1>3, TypeCorrect, PTL DEF Spec
-----------------------------------------------------------------------------
(***************************************************************************)
(* A place for every card, with any number of modems.                      *)
(***************************************************************************)
OneEach(q) ==
    \A i, j \in 1 .. Len(q) : q[i].cmd.modem = q[j].cmd.modem => i = j

\* No command of modem m is in q.
Without(q, m) == \A i \in 1 .. Len(q) : q[i].cmd.modem # m

\* The card of a command that leaves the queue has none in it any more.
LEMMA PopOneEach ==
    ASSUME NEW q \in Seq(Entries), NEW id \in Nat, Present(q, id), OneEach(q)
    PROVE  OneEach(Pop(q, id)) /\ Without(Pop(q, id), At(q, id).cmd.modem)
<1> DEFINE r == Pop(q, id)
           from(i) == IF i <= id THEN i ELSE i + 1
<1>1. /\ r \in Seq(Entries)
      /\ Len(r) = Len(q) - 1
      /\ \A i \in 1 .. Len(r) : r[i] = q[from(i)]
  BY PopFacts
<1>2. /\ \A i \in 1 .. Len(r) : from(i) \in 1 .. Len(q) /\ from(i) # id + 1
      /\ \A i, j \in 1 .. Len(r) : from(i) = from(j) => i = j
      /\ id + 1 \in 1 .. Len(q)
  BY <1>1 DEF Present
<1> HIDE DEF r, from
<1>3. ASSUME NEW i \in 1 .. Len(r), NEW j \in 1 .. Len(r),
             r[i].cmd.modem = r[j].cmd.modem
      PROVE  i = j
  <2>1. from(i) = from(j)
    <3>1. /\ from(i) \in 1 .. Len(q) /\ from(j) \in 1 .. Len(q)
          /\ q[from(i)].cmd.modem = q[from(j)].cmd.modem
      BY <1>1, <1>2, <1>3
    <3>. QED
      BY <3>1 DEF OneEach
  <2>. QED
    BY <1>2, <1>3, <2>1
<1>4. \A i \in 1 .. Len(r) : r[i].cmd.modem # At(q, id).cmd.modem
  BY <1>1, <1>2 DEF OneEach, At
<1>. QED
  BY <1>3, <1>4 DEF OneEach, Without, r

\* A card without a command in the queue may have one put there.
LEMMA PushOneEach ==
    ASSUME NEW q \in Seq(Entries), Len(q) <= Capacity, NEW e \in Entries,
           OneEach(q), Without(q, e.cmd.modem)
    PROVE  OneEach(Push(q, e))
<1> DEFINE r == Push(q, e)
<1>1. /\ r \in Seq(Entries)
      /\ Len(r) \in Len(q) .. (Len(q) + 1)
      /\ \A i \in 1 .. Len(q) : r[i] = q[i]
      /\ Len(r) = Len(q) + 1 => r[Len(q) + 1] = e
  <2>1. /\ Push(q, e) \in Seq(Entries)
        /\ Len(Push(q, e)) \in Len(q) .. (Len(q) + 1)
        /\ \A i \in 1 .. Len(q) : Push(q, e)[i] = q[i]
        /\ Len(Push(q, e)) = Len(q) + 1 => Push(q, e)[Len(q) + 1] = e
    <3>1. CASE Full(q)
      BY <3>1 DEF Push
    <3>2. CASE ~Full(q)
      BY <3>2 DEF Push
    <3>. QED
      BY <3>1, <3>2, Zenon
  <2>. QED
    BY <2>1, Zenon
<1> HIDE DEF r
<1>2. \A i \in 1 .. Len(r) :
          \/ i \in 1 .. Len(q) /\ r[i] = q[i]
          \/ i = Len(q) + 1 /\ r[i] = e
  BY <1>1
<1>3. OneEach(r)
  BY <1>1, <1>2 DEF OneEach, Without
<1>. QED
  BY <1>3 DEF r

\* Cards that wait are never more than the places in the queue, if the modems are
\* not: counting the modems of the queued commands, all different and none of
\* them m, leaves a place.
LEMMA PlaceLeft ==
    ASSUME IsFiniteSet(Modems), Cardinality(Modems) <= Capacity,
           NEW q \in Seq(Entries), OneEach(q), NEW m \in Modems, Without(q, m)
    PROVE  Len(q) < Capacity
<1> DEFINE f == [i \in 1 .. Len(q) |-> q[i].cmd.modem]
           Others == Modems \ {m}
<1>1. f \in [1 .. Len(q) -> Others]
  <2>1. \A e \in Entries : e.cmd.modem \in Modems
    BY DEF Entries, Commands
  <2>2. \A i \in 1 .. Len(q) : q[i] \in Entries /\ q[i].cmd.modem # m
    BY DEF Without
  <2>3. \A i \in 1 .. Len(q) : q[i].cmd.modem \in Others
    BY <2>1, <2>2
  <2>. QED
    BY <2>3
<1>2. IsFiniteSet(1 .. Len(q)) /\ Cardinality(1 .. Len(q)) = Len(q)
  <2>1. Len(q) \in Nat
    OBVIOUS
  <2>. QED
    BY <2>1, FS_Interval
<1>3. IsFiniteSet(Others) /\ Cardinality(Others) = Cardinality(Modems) - 1
      /\ Cardinality(Modems) \in Nat
  BY FS_RemoveElement, FS_CardinalityType
<1>4. ASSUME Len(q) >= Capacity PROVE FALSE
  <2>1. Cardinality(Others) < Cardinality(1 .. Len(q))
    BY <1>2, <1>3, <1>4, CapacityPositive
  <2> HIDE DEF f, Others
  <2>2. PICK i, j \in 1 .. Len(q) : i # j /\ f[i] = f[j]
    BY <1>1, <1>2, <1>3, <2>1, FS_PigeonHole
  <2>. QED
    BY <2>2 DEF f, OneEach
<1>. QED
  BY <1>4, CapacityPositive

\* What a step of the dialogue does to the queue, and whom it tells.
Settles ==
    /\ \/ queue' = queue
       \/ queue' = << >>
       \/ \E id \in Nat : Present(queue, id) /\ queue' = Pop(queue, id)
    /\ \A a \in told' \ told : a.cmd.kind.type = "SETUP_MENU"

\* A command comes to the tail of the queue q in which its card has none.
Queues(q, e) ==
    /\ e \in Entries
    /\ queue' = Push(q, e)
    /\ \A a \in told' \ told : a.ticket = e.ticket

Sends == \E e \in Entries : ~Waiting(e.cmd.modem) /\ Queues(queue, e)

Returns ==
    \E id \in Nat, e \in Entries :
        /\ Present(queue, id)
        /\ e.cmd = At(queue, id).cmd
        /\ Queues(Pop(queue, id), e)

\* A card that may send puts one command at the tail, or none.
LEMMA CardShape ==
    ASSUME TypeOK, NEW m \in Modems, CardSends(m)
    PROVE  Settles \/ Sends
<1>1. ASSUME SessionEnd(m) PROVE Settles
  BY <1>1 DEF SessionEnd, TerminateSatUi, Settles
<1>2. ASSUME NEW k \in CommandKinds, ReceiveUnqueued(m, k) PROVE Settles
  BY <1>2 DEF ReceiveUnqueued, Settles
<1>3. ASSUME NEW k \in CommandKinds, ReceiveQueued(m, k) PROVE Sends
  <2>1. PICK e : e = [cmd_id |-> NextId(queue), ticket |-> clock + 1,
                      cmd |-> Received(m, k)]
    OBVIOUS
  <2>2. clock < MaxTickets /\ clock' = clock + 1
    BY <1>3 DEF ReceiveQueued, Receive
  <2>3. e \in Entries
    BY <2>1, <2>2, ReceivedType
  <2>4. ~Waiting(e.cmd.modem)
    BY <2>1 DEF CardSends, Received
  <2>5. queue' = Push(queue, e)
    BY <1>3, <2>1, <2>2 DEF ReceiveQueued
  <2>6. \A a \in told' \ told : a.ticket = e.ticket
    BY <1>3, <2>1, <2>2 DEF ReceiveQueued, Announce
  <2>. QED
    BY <2>3, <2>4, <2>5, <2>6 DEF Sends, Queues
<1>4. ASSUME NEW k \in CommandKinds, ReceiveMenu(m, k) PROVE Settles
  <2>1. PICK cmd : cmd = Received(m, k)
    OBVIOUS
  <2>2. PICK id : id = NextId(queue)
    OBVIOUS
  <2>3. PICK e : e = [cmd_id |-> id, ticket |-> clock + 1, cmd |-> cmd]
    OBVIOUS
  <2>4. PICK q : q = Push(queue, e)
    OBVIOUS
  <2>5. CASE PopFaults(q, id)
    BY <1>4, <2>1, <2>2, <2>3, <2>4, <2>5 DEF ReceiveMenu, Crash, Settles
  <2>6. CASE ~PopFaults(q, id)
    <3>1. /\ queue' = Pop(q, id)
          /\ TerminateSatUi(told \cup Announce(cmd, id, clock', AsksFor(k), m))
          /\ clock < MaxTickets /\ k.type = "SETUP_MENU"
      BY <1>4, <2>1, <2>2, <2>3, <2>4, <2>6 DEF ReceiveMenu
    <3>2. e \in Entries /\ cmd.kind = k
      BY <2>1, <2>2, <2>3, <3>1, ReceivedType
    <3>3. queue' = queue
      BY <2>2, <2>4, <2>6, <3>1, <3>2, PushThenPop DEF TypeOK
    <3>4. \A a \in told' \ told : a.cmd.kind.type = "SETUP_MENU"
      BY <3>1, <3>2 DEF TerminateSatUi, Announce
    <3>. QED
      BY <3>3, <3>4 DEF Settles
  <2>. QED
    BY <2>5, <2>6
<1>. QED
  BY <1>1, <1>2, <1>3, <1>4 DEF CardSends

\* Queueing again puts the command that was popped at the tail.
LEMMA AgainReturns ==
    ASSUME TypeOK, NEW a \in told, NEW m \in Modems, Present(queue, a.id),
           QueueAgain(Pop(queue, a.id), At(queue, a.id), m, told \ {a})
    PROVE  Returns
<1>1. PICK q, entry : q = Pop(queue, a.id) /\ entry = At(queue, a.id)
  OBVIOUS
<1>2. PICK e : e = [entry EXCEPT !.cmd_id = NextId(q), !.ticket = clock']
  OBVIOUS
<1>3. /\ a.id \in Nat /\ entry \in Entries /\ q \in Seq(Entries)
      /\ NextId(q) \in Nat
  BY <1>1, ToldType DEF NextId
<1>4. /\ clock' \in Tickets
      /\ queue' = Push(q, e)
      /\ told' = (told \ {a}) \cup Announce(entry.cmd, NextId(q), clock', {"exec"}, m)
  BY <1>1, <1>2, TicketsAssumption DEF QueueAgain, TypeOK, Tickets
<1>5. e \in Entries /\ e.ticket = clock' /\ e.cmd = entry.cmd
  BY <1>2, <1>3, <1>4, NewTicket
<1>6. \A b \in told' \ told : b.ticket = e.ticket
  BY <1>4, <1>5 DEF Announce
<1>. QED
  BY <1>1, <1>3, <1>4, <1>5, <1>6 DEF Returns, Queues

\* A client that answers takes a command out of the queue, returns it to the tail,
\* or leaves the queue alone.
LEMMA ClientShape ==
    ASSUME TypeOK, NEW a \in told, ClientAnswers(a)
    PROVE  Settles \/ Returns
<1>1. a.id \in Nat /\ a.modem \in Modems
  BY DEF TypeOK, Announcements
<1>2. ASSUME NEW resp \in Responses, SendAppExecResult(a, a.modem, resp)
      PROVE  Settles
  BY <1>1, <1>2 DEF SendAppExecResult, Crash, TerminateSatUi, PopFaults, Settles
<1>3. ASSUME NEW confirm \in UserAnswers, SendUserConfirm(a, a.modem, confirm)
      PROVE  Settles \/ Returns
  <2>1. PICK entry, result : /\ entry = At(queue, a.id)
                             /\ result = ConfirmResult(entry.cmd.kind, confirm)
    OBVIOUS
  <2>2. CASE ~Present(queue, a.id) \/ entry.cmd.kind.type \notin ConfirmTypes
    BY <1>3, <2>1, <2>2 DEF SendUserConfirm, Settles
  <2>3. CASE /\ Present(queue, a.id) /\ entry.cmd.kind.type \in ConfirmTypes
             /\ result = "AGAIN"
    <3>1. QueueAgain(Pop(queue, a.id), entry, a.modem, told \ {a})
      BY <1>3, <2>1, <2>3 DEF SendUserConfirm
    <3>. QED
      BY <1>1, <2>1, <2>3, <3>1, AgainReturns
  <2>4. CASE /\ Present(queue, a.id) /\ entry.cmd.kind.type \in ConfirmTypes
             /\ result # "AGAIN"
    <3>1. queue' = Pop(queue, a.id) /\ told' = told \ {a}
      BY <1>3, <2>1, <2>4 DEF SendUserConfirm
    <3>. QED
      BY <1>1, <2>4, <3>1 DEF Settles
  <2>. QED
    BY <2>2, <2>3, <2>4
<1>4. ASSUME NEW shown \in BOOLEAN, SendUiDisplayStatus(a, a.modem, shown)
      PROVE  Settles \/ Returns
  <2>1. PICK entry, result : /\ entry = At(queue, a.id)
                             /\ result = StatusResult(entry.cmd.kind, shown)
    OBVIOUS
  <2>2. CASE queue = << >> \/ PopFaults(queue, a.id)
    BY <1>4, <2>2 DEF SendUiDisplayStatus, Crash, Settles
  <2>3. CASE /\ queue # << >> /\ ~PopFaults(queue, a.id)
             /\ result = "AGAIN"
    <3>1. QueueAgain(Pop(queue, a.id), entry, a.modem, told \ {a})
      BY <1>4, <2>1, <2>3 DEF SendUiDisplayStatus
    <3>. QED
      BY <1>1, <2>1, <2>3, <3>1, AgainReturns DEF PopFaults
  <2>4. CASE /\ queue # << >> /\ ~PopFaults(queue, a.id)
             /\ result # "AGAIN"
    <3>1. queue' = Pop(queue, a.id) /\ told' \subseteq told
      BY <1>4, <2>1, <2>4 DEF SendUiDisplayStatus, TerminateSatUi
    <3>. QED
      BY <1>1, <2>4, <3>1 DEF Settles, PopFaults
  <2>. QED
    BY <2>2, <2>3, <2>4
<1>. QED
  BY <1>2, <1>3, <1>4 DEF ClientAnswers

\* Every step has one of the three shapes.
LEMMA DialogueShape ==
    ASSUME TypeOK, DialogueNext
    PROVE  Settles \/ Sends \/ Returns
BY CardShape, ClientShape DEF DialogueNext, SomeClientAnswers

\* The queue as the property sees it.
LEMMA QueueOneEach ==
    ASSUME TypeOK
    PROVE  /\ OneCommandEach <=> OneEach(queue)
           /\ \A m : ~Waiting(m) => Without(queue, m)
<1>1. DOMAIN queue = 1 .. Len(queue)
  BY DEF TypeOK
<1>. QED
  BY <1>1 DEF OneCommandEach, OneEach, Waiting, Without

\* In a returning step the command leaves room for itself.
LEMMA ReturnsRoom ==
    ASSUME TypeOK, OneEach(queue), NEW id \in Nat, Present(queue, id)
    PROVE  /\ Pop(queue, id) \in Seq(Entries)
           /\ Len(Pop(queue, id)) < Capacity
           /\ OneEach(Pop(queue, id))
           /\ Without(Pop(queue, id), At(queue, id).cmd.modem)
BY PopFacts, PopOneEach, CapacityPositive DEF TypeOK

\* The queue keeps one command of each card at most.
LEMMA OneEachStep ==
    ASSUME TypeOK, OneEach(queue), Settles \/ Sends \/ Returns
    PROVE  OneEach(queue')
<1>0. queue \in Seq(Entries) /\ Len(queue) <= Capacity
  BY DEF TypeOK
<1>1. CASE Settles
  <2>1. OneEach(<< >>)
    BY DEF OneEach
  <2>. QED
    BY <1>0, <1>1, <2>1, PopOneEach DEF Settles
<1>2. CASE Sends
  BY <1>0, <1>2, QueueOneEach, PushOneEach DEF Sends, Queues
<1>3. CASE Returns
  <2>1. PICK id \in Nat, e \in Entries :
            /\ Present(queue, id) /\ e.cmd = At(queue, id).cmd
            /\ queue' = Push(Pop(queue, id), e)
    BY <1>3 DEF Returns, Queues
  <2>2. PICK q : q = Pop(queue, id)
    OBVIOUS
  <2>3. /\ q \in Seq(Entries) /\ Len(q) <= Capacity
        /\ OneEach(q) /\ Without(q, e.cmd.modem)
    BY <2>1, <2>2, ReturnsRoom, CapacityPositive
  <2>. QED
    BY <2>1, <2>2, <2>3, PushOneEach
<1>. QED
  BY <1>1, <1>2, <1>3

\* For any number of modems: no card ever has two commands in the queue, also when
\* clients of one card take away and return those of another.
THEOREM OneEachHolds == DialogueSpec => [](TypeOK /\ OneCommandEach)
<1>1. Init => TypeOK /\ OneCommandEach
  BY TypeInit DEF Init, OneCommandEach
<1>2. ASSUME TypeOK, OneCommandEach, [DialogueNext]_vars
      PROVE  TypeOK' /\ OneCommandEach'
  <2>1. TypeOK'
    BY <1>2, DialogueIsNext, TypeStep
  <2>2. CASE DialogueNext
    <3>1. OneEach(queue')
      BY <1>2, <2>2, QueueOneEach, DialogueShape, OneEachStep
    <3>2. DOMAIN queue' = 1 .. Len(queue')
      BY <2>1 DEF TypeOK
    <3>. QED
      BY <2>1, <3>1, <3>2 DEF OneEach, OneCommandEach
  <2>3. CASE UNCHANGED vars
    BY <1>2, <2>1, <2>3 DEF vars, OneCommandEach
  <2>. QED
    BY <1>2, <2>2, <2>3
<1>. QED
  BY <1>1, <1>2, PTL DEF DialogueSpec

\* What is pushed when there is room is in the queue.
LEMMA PushedIsThere ==
    ASSUME NEW q \in Seq(Entries), Len(q) < Capacity, NEW e \in Entries
    PROVE  \E i \in DOMAIN Push(q, e) : Push(q, e)[i].ticket = e.ticket
<1>1. Push(q, e) = Append(q, e)
  BY CapacityPositive DEF Push, Full
<1>2. Len(q) + 1 \in DOMAIN Append(q, e) /\ Append(q, e)[Len(q) + 1] = e
  OBVIOUS
<1>. QED
  BY <1>1, <1>2

\* With no more modems than the queue has places, no command is announced that the
\* queue had no place for: "MAX SIZE" less one is enough for cards that wait.
THEOREM WaitingCardsFit ==
    ASSUME IsFiniteSet(Modems), Cardinality(Modems) <= Capacity
    PROVE  DialogueSpec => AnnouncedIsQueued
<1> DEFINE There ==
        \A a \in told' \ told :
            a.cmd.kind.type # "SETUP_MENU"
            => \E i \in DOMAIN queue' : queue'[i].ticket = a.ticket
<1>1. ASSUME TypeOK, OneCommandEach, DialogueNext PROVE There
  <2>0. queue \in Seq(Entries) /\ OneEach(queue)
    BY <1>1, QueueOneEach DEF TypeOK
  <2>1. CASE Settles
    BY <2>1 DEF Settles
  <2>2. CASE Sends
    <3>1. PICK e \in Entries : ~Waiting(e.cmd.modem) /\ Queues(queue, e)
      BY <2>2 DEF Sends
    <3>2. e.cmd.modem \in Modems /\ Without(queue, e.cmd.modem)
      BY <1>1, <3>1, QueueOneEach DEF Entries, Commands
    <3>3. Len(queue) < Capacity
      BY <2>0, <3>2, PlaceLeft
    <3>. QED
      BY <2>0, <3>1, <3>3, PushedIsThere DEF Queues
  <2>3. CASE Returns
    <3>1. PICK id \in Nat, e \in Entries :
              Present(queue, id) /\ Queues(Pop(queue, id), e)
      BY <2>3 DEF Returns
    <3>2. PICK q : q = Pop(queue, id)
      OBVIOUS
    <3>3. q \in Seq(Entries) /\ Len(q) < Capacity
      BY <1>1, <2>0, <3>1, <3>2, ReturnsRoom
    <3>. QED
      BY <3>1, <3>2, <3>3, PushedIsThere DEF Queues
  <2>. QED
    BY <1>1, <2>1, <2>2, <2>3, DialogueShape
<1>. QED
  BY <1>1, OneEachHolds, PTL DEF DialogueSpec, AnnouncedIsQueued
=============================================================================
