--------------------------- MODULE SatPromisesProofs ---------------------------
(***************************************************************************)
(* Theorems about what callers and cards may rely on: the action           *)
(* properties of SatManager, that refusals are reported as such, and that  *)
(* SatManager implements ProactiveCommand.                                 *)
(***************************************************************************)
EXTENDS SatManagerProofs

\* A step changes the cached menu only by taking a menu, or by refusing one; the
\* queue is then what it was.
LEMMA MenuStep ==
    ASSUME TypeOK, [Next]_vars
    PROVE  menu' # menu => queue' = queue
<1>1. ASSUME NEW m \in Modems, SessionEnd(m) PROVE menu' = menu
  BY <1>1 DEF SessionEnd
<1>2. ASSUME NEW m \in Modems, NEW k \in CommandKinds, ReceiveUnqueued(m, k)
      PROVE  queue' = queue
  BY <1>2 DEF ReceiveUnqueued
<1>3. ASSUME NEW m \in Modems, NEW k \in CommandKinds, ReceiveQueued(m, k)
      PROVE  menu' = menu
  BY <1>3 DEF ReceiveQueued
<1>4. ASSUME NEW m \in Modems, NEW k \in CommandKinds, ReceiveMenu(m, k)
      PROVE  queue' = queue
  <2> DEFINE cmd == Received(m, k)
             id == NextId(queue)
             e == [cmd_id |-> id, ticket |-> clock + 1, cmd |-> cmd]
             q == Push(queue, e)
  <2>1. CASE PopFaults(q, id)
    BY <1>4, <2>1 DEF ReceiveMenu, Crash
  <2>2. CASE ~PopFaults(q, id)
    <3>1. clock < MaxTickets /\ clock' = clock + 1 /\ queue' = Pop(q, id)
      BY <1>4, <2>2 DEF ReceiveMenu, Receive
    <3>2. e \in Entries
      BY <3>1, ReceivedType
    <3> HIDE DEF e
    <3>. QED
      <4>1. queue \in Seq(Entries) /\ Len(queue) <= Capacity
        BY DEF TypeOK
      <4>2. Pop(Push(queue, e), NextId(queue)) = queue
        BY <2>2, <3>2, <4>1, PushThenPop
      <4>. QED
        BY <3>1, <4>2
  <2>. QED
    BY <2>1, <2>2
<1>5. ASSUME Call PROVE menu' = menu
  <2>1. GetMainMenuInfo => menu' = menu
    BY DEF GetMainMenuInfo
  <2>2. \A a \in told, m \in Modems, resp \in Responses :
            SendAppExecResult(a, m, resp) => menu' = menu
    BY DEF SendAppExecResult, Crash
  <2>3. \A a \in told, m \in Modems, confirm \in UserAnswers :
            SendUserConfirm(a, m, confirm) => menu' = menu
    BY DEF SendUserConfirm, Crash
  <2>4. \A a \in told, m \in Modems, shown \in BOOLEAN :
            SendUiDisplayStatus(a, m, shown) => menu' = menu
    BY DEF SendUiDisplayStatus, Crash
  <2>. QED
    BY <1>5, <2>1, <2>2, <2>3, <2>4 DEF Call
<1>6. CASE UNCHANGED vars
  BY <1>6 DEF vars
<1>. QED
  BY <1>1, <1>2, <1>3, <1>4, <1>5, <1>6 DEF Next, Notification

\* Taking a menu, cached in the same handler, never disturbs the commands that wait.
THEOREM MenuLeavesOthers == Spec => MenuLeavesQueue
BY TypeCorrect, MenuStep, PTL DEF Spec, MenuLeavesQueue

\* A terminal response that was not dispatched was not sent.
LEMMA NotDispatched ==
    ASSUME NEW cmd, NEW via, NEW as, NEW said, NEW meant, NEW result,
           SendTerminalResponse(cmd, via, as, said, meant, result, FALSE)
    PROVE  sent' = {}
BY DEF SendTerminalResponse, SendNothing

\* A call that returns 0 found nothing to answer, lost the command to its type, or
\* could not dispatch the response.
LEMMA RefusalStep ==
    ASSUME Next, reply' = "0"
    PROVE  sent' = {}
<1>1. ASSUME Notification PROVE reply' = "none"
  BY <1>1 DEF Notification, SessionEnd, ReceiveUnqueued, ReceiveQueued,
              ReceiveMenu, Receive, Crash
<1>2. ASSUME GetMainMenuInfo PROVE sent' = {}
  BY <1>2 DEF GetMainMenuInfo, SendNothing
<1>3. ASSUME NEW a \in told, NEW m \in Modems, NEW resp \in Responses,
             SendAppExecResult(a, m, resp)
      PROVE  sent' = {}
  <2> DEFINE as == a.cmd.kind.type
             cmd == At(queue, a.id).cmd
  <2>1. CASE (as \notin ExecTypes \/ queue = << >>) \/ PopFaults(queue, a.id)
    BY <1>3, <2>1 DEF SendAppExecResult, SendNothing, Crash
  <2>2. CASE ~(as \notin ExecTypes \/ queue = << >>) /\ ~PopFaults(queue, a.id)
    <3>1. PICK dispatched \in SendOutcomes, result \in Results :
              /\ SendTerminalResponse(cmd, m, as, resp, a.cmd.no, result,
                                      dispatched)
              /\ reply' = IF dispatched THEN "1" ELSE "0"
      BY <1>3, <2>2 DEF SendAppExecResult
    <3>2. dispatched = FALSE
      BY <3>1, SendAssumption
    <3> HIDE DEF as, cmd
    <3>. QED
      BY <3>1, <3>2, NotDispatched
  <2>. QED
    BY <2>1, <2>2
<1>4. ASSUME NEW a \in told, NEW m \in Modems, NEW confirm \in UserAnswers,
             SendUserConfirm(a, m, confirm)
      PROVE  sent' = {}
  <2> DEFINE entry == At(queue, a.id)
             type == entry.cmd.kind.type
             answer == ConfirmResult(entry.cmd.kind, confirm)
  <2>1. CASE \/ ~Present(queue, a.id) \/ type \notin ConfirmTypes
             \/ answer \in {"AGAIN", "SILENT"}
    BY <1>4, <2>1 DEF SendUserConfirm, SendNothing
  <2>2. CASE ~(\/ ~Present(queue, a.id) \/ type \notin ConfirmTypes
               \/ answer \in {"AGAIN", "SILENT"})
    <3>1. PICK dispatched \in SendOutcomes :
              /\ SendTerminalResponse(entry.cmd, m, type, confirm, a.cmd.no,
                                      answer, dispatched)
              /\ reply' = IF dispatched THEN "1" ELSE "0"
      BY <1>4, <2>2 DEF SendUserConfirm
    <3>2. dispatched = FALSE
      BY <3>1, SendAssumption
    <3> HIDE DEF entry, type, answer
    <3>. QED
      BY <3>1, <3>2, NotDispatched
  <2>. QED
    BY <2>1, <2>2
<1>5. ASSUME NEW a \in told, NEW m \in Modems, NEW shown \in BOOLEAN,
             SendUiDisplayStatus(a, m, shown)
      PROVE  sent' = {}
  <2> DEFINE entry == At(queue, a.id)
             type == entry.cmd.kind.type
             answer == StatusResult(entry.cmd.kind, shown)
             says == IF shown THEN "SHOWN" ELSE "NOT_SHOWN"
  <2>1. CASE \/ queue = << >> \/ PopFaults(queue, a.id)
             \/ answer \in {"AGAIN", "LOST"}
    BY <1>5, <2>1 DEF SendUiDisplayStatus, SendNothing, Crash
  <2>2. CASE ~(\/ queue = << >> \/ PopFaults(queue, a.id)
               \/ answer \in {"AGAIN", "LOST"})
    <3>1. PICK dispatched \in SendOutcomes :
              /\ SendTerminalResponse(entry.cmd, m, type, says, a.cmd.no,
                                      answer, dispatched)
              /\ reply' = IF type = "SETUP_IDLE_MODE_TEXT" /\ ~dispatched
                          THEN "0" ELSE "1"
      BY <1>5, <2>2 DEF SendUiDisplayStatus
    <3>2. dispatched = FALSE
      BY <3>1, SendAssumption
    <3> HIDE DEF entry, type, answer, says
    <3>. QED
      BY <3>1, <3>2, NotDispatched
  <2>. QED
    BY <2>1, <2>2
<1>. QED
  BY <1>1, <1>2, <1>3, <1>4, <1>5 DEF Next, Call

\* A client that is told 0 has sent nothing: it may try again.
THEOREM RefusedCallIsSilent == Spec => RefusedCallSendsNothing
<1>1. ASSUME [Next]_vars PROVE [reply' = "0" => sent' = {}]_vars
  BY <1>1, RefusalStep
<1>. QED
  BY <1>1, PTL DEF Spec, RefusedCallSendsNothing
-----------------------------------------------------------------------------
(***************************************************************************)
(* Refusals.                                                               *)
(***************************************************************************)
Honest(tr) ==
    /\ tr.said \in {"NO_OR_CANCEL", "END", "NOT_SHOWN"}
    /\ tr.result \in Successes
    => tr.said = "NO_OR_CANCEL" /\ Has(tr.cmd.kind, "yes_no")

\* A terminal response is as honest as what it is made of.
LEMMA HonestResponse ==
    ASSUME NEW cmd, NEW via, NEW as, NEW said, NEW meant, NEW result,
           \/ said \notin {"NO_OR_CANCEL", "END", "NOT_SHOWN"}
           \/ result \notin Successes
           \/ said = "NO_OR_CANCEL" /\ Has(cmd.kind, "yes_no"),
           NEW dispatched,
           SendTerminalResponse(cmd, via, as, said, meant, result, dispatched)
    PROVE  \A tr \in sent' : Honest(tr)
<1> DEFINE it == [cmd |-> cmd, via |-> via, as |-> as, said |-> said,
                  meant |-> meant, result |-> result]
<1>1. sent' = {} \/ sent' = {it}
  BY DEF SendTerminalResponse, SendNothing
<1>2. it.cmd = cmd /\ it.said = said /\ it.result = result
  OBVIOUS
<1> HIDE DEF it
<1>3. Honest(it)
  BY <1>2, Zenon DEF Honest
<1>. QED
  BY <1>1, <1>3

\* Results are none of the words of a refusal: what an application reports and what
\* the plugin answers itself is never one.
LEMMA NoRefusalWords ==
    /\ \A r \in Results : r \notin {"NO_OR_CANCEL", "END", "NOT_SHOWN"}
    /\ "PLUGIN" \notin {"NO_OR_CANCEL", "END", "NOT_SHOWN"}
BY DEF Results

\* Every response of a step is honest: the notification handlers and the
\* application results report no user's answer; the user's answer and the display
\* status are reported by the row of the type found at the id.
LEMMA HonestStep ==
    ASSUME TypeOK, Next
    PROVE  \A tr \in sent' : Honest(tr)
<1> DEFINE Done == \A tr \in sent' : Honest(tr)
<1>0. ASSUME SendNothing PROVE Done
  BY <1>0 DEF SendNothing
<1>1. ASSUME NEW m \in Modems, SessionEnd(m) PROVE Done
  BY <1>0, <1>1 DEF SessionEnd
<1>2. ASSUME Crash PROVE Done
  BY <1>0, <1>2 DEF Crash
<1>3. ASSUME NEW m \in Modems, NEW k \in CommandKinds, ReceiveUnqueued(m, k)
      PROVE  Done
  <2>1. CASE Intake(k) = "DROP"
    BY <1>0, <1>3, <2>1 DEF ReceiveUnqueued
  <2>2. CASE Intake(k) # "DROP"
    <3>1. PICK dispatched \in SendOutcomes :
              SendTerminalResponse(Received(m, k), m, k.type, "PLUGIN", clock',
                                   Intake(k), dispatched)
      BY <1>3, <2>2 DEF ReceiveUnqueued
    <3>. QED
      BY <3>1, HonestResponse, NoRefusalWords
  <2>. QED
    BY <2>1, <2>2
<1>4. ASSUME NEW m \in Modems, NEW k \in CommandKinds, ReceiveQueued(m, k)
      PROVE  Done
  BY <1>0, <1>4 DEF ReceiveQueued
<1>5. ASSUME NEW m \in Modems, NEW k \in CommandKinds, ReceiveMenu(m, k)
      PROVE  Done
  <2> DEFINE cmd == Received(m, k)
             id == NextId(queue)
             e == [cmd_id |-> id, ticket |-> clock + 1, cmd |-> cmd]
             q == Push(queue, e)
  <2>1. CASE PopFaults(q, id)
    BY <1>2, <1>5, <2>1 DEF ReceiveMenu
  <2>2. CASE ~PopFaults(q, id)
    <3>1. PICK dispatched \in SendOutcomes, result \in Results :
              SendTerminalResponse(At(q, id).cmd, m, "SETUP_MENU", "PLUGIN",
                                   clock', result, dispatched)
      BY <1>5, <2>2 DEF ReceiveMenu
    <3> HIDE DEF q
    <3>. QED
      BY <3>1, HonestResponse, NoRefusalWords
  <2>. QED
    BY <2>1, <2>2
<1>6. ASSUME GetMainMenuInfo PROVE Done
  BY <1>0, <1>6 DEF GetMainMenuInfo
<1>7. ASSUME NEW a \in told, NEW m \in Modems, NEW resp \in Responses,
             SendAppExecResult(a, m, resp)
      PROVE  Done
  <2> DEFINE as == a.cmd.kind.type
             cmd == At(queue, a.id).cmd
  <2>1. CASE as \notin ExecTypes \/ queue = << >>
    BY <1>0, <1>7, <2>1 DEF SendAppExecResult
  <2>2. CASE ~(as \notin ExecTypes \/ queue = << >>) /\ PopFaults(queue, a.id)
    BY <1>2, <1>7, <2>2 DEF SendAppExecResult
  <2>3. CASE ~(as \notin ExecTypes \/ queue = << >>) /\ ~PopFaults(queue, a.id)
    <3>1. PICK dispatched \in SendOutcomes, result \in Results :
              SendTerminalResponse(cmd, m, as, resp, a.cmd.no, result, dispatched)
      BY <1>7, <2>3 DEF SendAppExecResult
    <3>2. resp \in Results
      BY ResponsesAssumption
    <3> HIDE DEF as, cmd
    <3>. QED
      BY <3>1, <3>2, HonestResponse, NoRefusalWords
  <2>. QED
    BY <2>1, <2>2, <2>3
<1>8. ASSUME NEW a \in told, NEW m \in Modems, NEW confirm \in UserAnswers,
             SendUserConfirm(a, m, confirm)
      PROVE  Done
  <2> DEFINE entry == At(queue, a.id)
             type == entry.cmd.kind.type
             answer == ConfirmResult(entry.cmd.kind, confirm)
  <2>1. CASE \/ ~Present(queue, a.id) \/ type \notin ConfirmTypes
             \/ answer \in {"AGAIN", "SILENT"}
    BY <1>0, <1>8, <2>1 DEF SendUserConfirm
  <2>2. CASE ~(\/ ~Present(queue, a.id) \/ type \notin ConfirmTypes
               \/ answer \in {"AGAIN", "SILENT"})
    <3>1. PICK dispatched \in SendOutcomes :
              SendTerminalResponse(entry.cmd, m, type, confirm, a.cmd.no, answer,
                                   dispatched)
      BY <1>8, <2>2 DEF SendUserConfirm
    <3>2. entry.cmd.kind \in Kinds
      BY <2>2, ToldType
    <3>3. confirm \in Confirms /\ confirm # "NOT_SHOWN"
      BY AnswersAssumption DEF Confirms
    <3>4. \/ confirm \notin {"NO_OR_CANCEL", "END", "NOT_SHOWN"}
          \/ answer \notin Successes
          \/ confirm = "NO_OR_CANCEL" /\ Has(entry.cmd.kind, "yes_no")
      BY <2>2, <3>2, <3>3, RefusedByUser
    <3> HIDE DEF entry, type, answer
    <3>. QED
      BY <3>1, <3>4, HonestResponse
  <2>. QED
    BY <2>1, <2>2
<1>9. ASSUME NEW a \in told, NEW m \in Modems, NEW shown \in BOOLEAN,
             SendUiDisplayStatus(a, m, shown)
      PROVE  Done
  <2> DEFINE entry == At(queue, a.id)
             type == entry.cmd.kind.type
             answer == StatusResult(entry.cmd.kind, shown)
             says == IF shown THEN "SHOWN" ELSE "NOT_SHOWN"
  <2>1. CASE queue # << >> /\ PopFaults(queue, a.id)
    BY <1>2, <1>9, <2>1 DEF SendUiDisplayStatus
  <2>2. CASE \/ queue = << >>
             \/ ~PopFaults(queue, a.id) /\ answer \in {"AGAIN", "LOST"}
    BY <1>0, <1>9, <2>2 DEF SendUiDisplayStatus
  <2>3. CASE /\ queue # << >> /\ ~PopFaults(queue, a.id)
             /\ answer \notin {"AGAIN", "LOST"}
    <3>1. PICK dispatched \in SendOutcomes :
              SendTerminalResponse(entry.cmd, m, type, says, a.cmd.no, answer,
                                   dispatched)
      BY <1>9, <2>3 DEF SendUiDisplayStatus
    <3>2. entry.cmd.kind \in Kinds
      BY <2>3, ToldType DEF PopFaults
    <3>3. \/ says \notin {"NO_OR_CANCEL", "END", "NOT_SHOWN"}
          \/ answer \notin Successes
      <4>1. CASE shown
        BY <4>1
      <4>2. CASE ~shown
        <5>1. shown = FALSE
          BY <4>2
        <5>. QED
          BY <3>2, <5>1, NotShownFails
      <4>. QED
        BY <4>1, <4>2
    <3> HIDE DEF entry, type, answer, says
    <3>. QED
      BY <3>1, <3>3, HonestResponse
  <2>. QED
    BY <2>1, <2>2, <2>3
<1>. QED
  BY <1>1, <1>3, <1>4, <1>5, <1>6, <1>7, <1>8, <1>9
  DEF Next, Notification, Call

\* However stale an id, and whichever command it names by now, a refusal is not
\* turned into a success on its way to the card.
THEOREM RefusalsReported == Spec => []RefusalNeverReportedAsSuccess
<1> DEFINE Sound == \A tr \in sent : Honest(tr)
<1>1. Init => Sound
  BY DEF Init
<1>2. TypeOK /\ Sound /\ [Next]_vars => Sound'
  <2>1. ASSUME UNCHANGED vars, Sound PROVE Sound'
    BY <2>1 DEF vars
  <2>2. ASSUME TypeOK, Next PROVE Sound'
    BY <2>2, HonestStep
  <2>. QED
    BY <2>1, <2>2
<1>3. Sound => RefusalNeverReportedAsSuccess
  BY DEF RefusalNeverReportedAsSuccess, Honest
<1>. QED
  BY <1>1, <1>2, <1>3, TypeCorrect, PTL DEF Spec
-----------------------------------------------------------------------------
(***************************************************************************)
(* The cached menu.                                                        *)
(***************************************************************************)
CachedFor(tr, cached) ==
    tr.as = "SETUP_MENU" /\ tr.said = "PLUGIN" /\ tr.result \in Successes
    => cached = IF Has(tr.cmd.kind, "no_items") THEN {} ELSE {tr.cmd}

\* What a terminal response is made of decides whether it speaks for the menu.
LEMMA CachedResponse ==
    ASSUME NEW cmd, NEW via, NEW as, NEW said, NEW meant, NEW result,
           \/ as # "SETUP_MENU" \/ said # "PLUGIN" \/ result \notin Successes
           \/ menu' = IF Has(cmd.kind, "no_items") THEN {} ELSE {cmd},
           NEW dispatched,
           SendTerminalResponse(cmd, via, as, said, meant, result, dispatched)
    PROVE  \A tr \in sent' : CachedFor(tr, menu')
<1> DEFINE it == [cmd |-> cmd, via |-> via, as |-> as, said |-> said,
                  meant |-> meant, result |-> result]
<1>1. sent' = {} \/ sent' = {it}
  BY DEF SendTerminalResponse, SendNothing
<1>2. it.cmd = cmd /\ it.as = as /\ it.said = said /\ it.result = result
  OBVIOUS
<1> HIDE DEF it
<1>3. CachedFor(it, menu')
  BY <1>2, Zenon DEF CachedFor
<1>. QED
  BY <1>1, <1>3

\* The intake of a menu: the card hears of a success at once only if the menu has
\* no items, and a menu that is queued has some.
LEMMA MenuIntake ==
    ASSUME NEW k \in Kinds, k.type = "SETUP_MENU"
    PROVE  /\ Intake(k) \in Successes => Has(k, "no_items")
           /\ Intake(k) = "QUEUE" => ~Has(k, "no_items")
BY DEF Intake, caching_setup_menu_info, RefuseIf, NotUnderstood, Successes,
   IconMissing

\* Whoever makes a terminal response to a menu in the plugin's name has set the
\* cached menu in the same step: to this menu, for the pop that answers it finds
\* the entry of its own push, or to none.
LEMMA CachedStep ==
    ASSUME TypeOK, Next
    PROVE  \A tr \in sent' : CachedFor(tr, menu')
<1> DEFINE Done == \A tr \in sent' : CachedFor(tr, menu')
<1>0. ASSUME SendNothing PROVE Done
  BY <1>0 DEF SendNothing
<1>1. ASSUME NEW m \in Modems, NEW k \in CommandKinds, ReceiveUnqueued(m, k)
      PROVE  Done
  <2>1. CASE Intake(k) = "DROP"
    BY <1>0, <1>1, <2>1 DEF ReceiveUnqueued
  <2>2. CASE Intake(k) # "DROP"
    <3>1. PICK dispatched \in SendOutcomes :
              SendTerminalResponse(Received(m, k), m, k.type, "PLUGIN", clock',
                                   Intake(k), dispatched)
      BY <1>1, <2>2 DEF ReceiveUnqueued
    <3>2. PICK cmd : cmd = Received(m, k)
      OBVIOUS
    <3>3. cmd.kind = k /\ k \in Kinds
      BY <3>2, KindsAssumption DEF Received
    <3>4. \/ k.type # "SETUP_MENU" \/ Intake(k) \notin Successes
          \/ menu' = IF Has(cmd.kind, "no_items") THEN {} ELSE {cmd}
      BY <1>1, <3>3, MenuIntake DEF ReceiveUnqueued
    <3>. QED
      BY <3>1, <3>2, <3>4, CachedResponse
  <2>. QED
    BY <2>1, <2>2
<1>2. ASSUME NEW m \in Modems, NEW k \in CommandKinds, ReceiveMenu(m, k)
      PROVE  Done
  <2>1. PICK cmd : cmd = Received(m, k)
    OBVIOUS
  <2>2. PICK id : id = NextId(queue)
    OBVIOUS
  <2>3. PICK e : e = [cmd_id |-> id, ticket |-> clock + 1, cmd |-> cmd]
    OBVIOUS
  <2>4. PICK q : q = Push(queue, e)
    OBVIOUS
  <2>5. CASE PopFaults(q, id)
    BY <1>0, <1>2, <2>1, <2>2, <2>3, <2>4, <2>5 DEF ReceiveMenu, Crash
  <2>6. CASE ~PopFaults(q, id)
    <3>1. /\ menu' = {cmd}
          /\ \E dispatched \in SendOutcomes, result \in Results :
                SendTerminalResponse(At(q, id).cmd, m, "SETUP_MENU", "PLUGIN",
                                     clock', result, dispatched)
      BY <1>2, <2>1, <2>2, <2>3, <2>4, <2>6 DEF ReceiveMenu
    <3>2. e \in Entries /\ cmd.kind = k /\ k \in Kinds /\ e.cmd = cmd
      <4>1. clock < MaxTickets
        BY <1>2 DEF ReceiveMenu
      <4>. QED
        BY <2>1, <2>2, <2>3, <4>1, ReceivedType
    <3>3. At(q, id) = e
      BY <2>2, <2>4, <2>6, <3>2, PushThenPop DEF TypeOK
    <3>4. menu' = IF Has(cmd.kind, "no_items") THEN {} ELSE {cmd}
      BY <1>2, <3>1, <3>2, MenuIntake DEF ReceiveMenu
    <3>. QED
      BY <3>1, <3>2, <3>3, <3>4, CachedResponse
  <2>. QED
    BY <2>5, <2>6
<1>3. ASSUME NEW a \in told, NEW m \in Modems, NEW resp \in Responses,
             SendAppExecResult(a, m, resp)
      PROVE  Done
  <2>1. resp # "PLUGIN"
    BY ResponsesAssumption DEF Results
  <2>2. SendNothing \/ \E dispatched \in SendOutcomes, result \in Results :
            SendTerminalResponse(At(queue, a.id).cmd, m, a.cmd.kind.type, resp,
                                 a.cmd.no, result, dispatched)
    BY <1>3 DEF SendAppExecResult, Crash
  <2>. QED
    BY <1>0, <2>1, <2>2, CachedResponse
<1>4. ASSUME NEW a \in told, NEW m \in Modems, NEW confirm \in UserAnswers,
             SendUserConfirm(a, m, confirm)
      PROVE  Done
  <2>1. confirm # "PLUGIN"
    BY AnswersAssumption DEF Confirms
  <2>2. PICK cmd, result : /\ cmd = At(queue, a.id).cmd
                           /\ result = ConfirmResult(cmd.kind, confirm)
    OBVIOUS
  <2>3. SendNothing \/ \E dispatched \in SendOutcomes :
            SendTerminalResponse(cmd, m, cmd.kind.type, confirm, a.cmd.no,
                                 result, dispatched)
    BY <1>4, <2>2 DEF SendUserConfirm
  <2>. QED
    BY <1>0, <2>1, <2>3, CachedResponse
<1>5. ASSUME NEW a \in told, NEW m \in Modems, NEW shown \in BOOLEAN,
             SendUiDisplayStatus(a, m, shown)
      PROVE  Done
  <2>1. PICK said : said = IF shown THEN "SHOWN" ELSE "NOT_SHOWN"
    OBVIOUS
  <2>2. PICK cmd, result : /\ cmd = At(queue, a.id).cmd
                           /\ result = StatusResult(cmd.kind, shown)
    OBVIOUS
  <2>3. SendNothing \/ \E dispatched \in SendOutcomes :
            SendTerminalResponse(cmd, m, cmd.kind.type, said, a.cmd.no, result,
                                 dispatched)
    BY <1>5, <2>1, <2>2 DEF SendUiDisplayStatus, Crash
  <2>4. said # "PLUGIN"
    BY <2>1
  <2>. QED
    BY <1>0, <2>3, <2>4, CachedResponse
<1>6. ASSUME GetMainMenuInfo \/ \E m \in Modems : SessionEnd(m) \/
                 \E k \in CommandKinds : ReceiveQueued(m, k)
      PROVE  Done
  BY <1>0, <1>6 DEF GetMainMenuInfo, SessionEnd, ReceiveQueued
<1>. QED
  BY <1>1, <1>2, <1>3, <1>4, <1>5, <1>6 DEF Next, Notification, Call

\* For every queue and any number of modems, the card that hears its menu was taken
\* finds it cached, and a menu without items is never left behind one with items.
THEOREM MenuTakenIsCached == Spec => []MenuAnsweredIsCached
<1> DEFINE Sound == \A tr \in sent : CachedFor(tr, menu)
<1>1. Init => Sound
  BY DEF Init
<1>2. TypeOK /\ Sound /\ [Next]_vars => Sound'
  <2>1. ASSUME UNCHANGED vars, Sound PROVE Sound'
    BY <2>1 DEF vars
  <2>2. ASSUME TypeOK, Next PROVE Sound'
    BY <2>2, CachedStep
  <2>. QED
    BY <2>1, <2>2
<1>3. Sound => MenuAnsweredIsCached
  BY DEF MenuAnsweredIsCached, CachedFor
<1>. QED
  BY <1>1, <1>2, <1>3, TypeCorrect, PTL DEF Spec
=============================================================================
