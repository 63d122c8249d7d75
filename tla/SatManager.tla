------------------------------- MODULE SatManager -------------------------------
(***************************************************************************)
(* The SIM Application Toolkit part of the plugin: src/src/sat.c and       *)
(* src/src/sat_manager.c.                                                  *)
(*                                                                         *)
(* A SIM card sends proactive commands through its modem.  The plugin      *)
(* queues each one, announces it under a command id to sat-ui (launched as *)
(* an application) or to the applications (a D-Bus signal), waits for the  *)
(* D-Bus call that answers it, and sends the card one terminal response.   *)
(* There is one queue and one cached menu for all modems: both live in the *)
(* plugin's struct custom_data.                                            *)
(*                                                                         *)
(* Every action is one callback of the glib main loop.  The clients are    *)
(* unconstrained here: whoever was told an id may answer it late, in any   *)
(* order, by any of the three methods and through any modem's object.      *)
(***************************************************************************)
EXTENDS SatQueue, SatCommands

CONSTANTS
    Modems,         \* the modems whose objects are on the bus
    CommandKinds,   \* the commands the cards may send
    Responses,      \* the results applications report
    UserAnswers,    \* the answers users give
    SendOutcomes,   \* whether dispatching a TR to the modem may succeed, fail
    MaxTickets      \* bound: how often a command is received or queued again

ASSUME KindsAssumption == CommandKinds \subseteq Kinds
ASSUME ResponsesAssumption == Responses \subseteq Results
ASSUME AnswersAssumption == UserAnswers \subseteq Confirms
ASSUME SendAssumption == SendOutcomes \subseteq BOOLEAN
ASSUME TicketsAssumption == MaxTickets \in Nat

Tickets == 1 .. MaxTickets

\* A command as received; no and modem identify it and are not stored by the
\* code, which keeps the TLV only.
Commands == [no : Tickets, modem : Modems, kind : CommandKinds]

\* struct sat_manager_queue_data.  The ticket counts the times a command was
\* queued, it only tells entries apart.
Entries == [cmd_id : Nat, ticket : Tickets, cmd : Commands]

\* What a client was told: the id, and on which modem's object.
Announcements ==
    [id : Nat, ticket : Tickets, cmd : Commands, ask : Asks, modem : Modems]

Says == Results \cup Confirms \cup {"SHOWN", "NOT_SHOWN", "PLUGIN"}

\* A terminal response: the command it answers, the modem it went through, the
\* type whose handler made it, what the client said and of which command.
TerminalResponses ==
    [cmd : Commands, via : Modems, as : Types, said : Says, meant : Tickets,
     result : Results]

VARIABLES
    queue,      \* ctx->queue_sat
    menu,       \* ctx->cached_sat_main_menu: the command it came in, {} for NULL
    clock,      \* tickets given out so far
    told,       \* announcements a client has and has not answered yet
    answers,    \* how many TRs each command number has had
    sent,       \* the TR sent in the last step, if any
    reply,      \* the result the D-Bus caller got in the last step, if any
    crashed     \* the process has dereferenced NULL

vars == <<queue, menu, clock, told, answers, sent, reply, crashed>>

TypeOK ==
    /\ queue \in Seq(Entries)
    /\ Len(queue) <= Capacity
    /\ menu \in SUBSET Commands
    /\ clock \in 0 .. MaxTickets
    /\ told \subseteq Announcements
    /\ answers \in [Tickets -> Nat]
    /\ sent \in SUBSET TerminalResponses
    /\ reply \in {"none", "0", "1"}
    /\ crashed \in BOOLEAN

Init ==
    /\ queue = << >>
    /\ menu = {}
    /\ clock = 0
    /\ told = {}
    /\ answers = [n \in Tickets |-> 0]
    /\ sent = {}
    /\ reply = "none"
    /\ crashed = FALSE
-----------------------------------------------------------------------------
\* No terminal response in this step.
SendNothing == sent' = {} /\ UNCHANGED answers

\* Variant: the caller hears of a failure after the TR was sent.
SendRegardless(cmd, via, as, said, meant, result, dispatched) ==
    /\ answers' = [answers EXCEPT ![cmd.no] = @ + 1]
    /\ sent' = {[cmd |-> cmd, via |-> via, as |-> as, said |-> said,
                 meant |-> meant, result |-> result]}

\* sat_manager_send_terminal_response: a TR that could not be dispatched is not
\* tried again.
SendTerminalResponse(cmd, via, as, said, meant, result, dispatched) ==
    IF dispatched
    THEN /\ answers' = [answers EXCEPT ![cmd.no] = @ + 1]
         /\ sent' = {[cmd |-> cmd, via |-> via, as |-> as, said |-> said,
                      meant |-> meant, result |-> result]}
    ELSE SendNothing

\* memcpy from the NULL that g_queue_pop_nth returned.
Crash ==
    /\ crashed' = TRUE
    /\ reply' = "none"
    /\ SendNothing
    /\ UNCHANGED <<queue, menu, clock, told>>

\* The sat-ui screens among these announcements.
Screens(announcements) ==
    {a \in announcements : a.ask \in {"confirm", "status"}}

\* sat_ui_support_terminate_sat_ui: an aul request.  Each screen of sat-ui may
\* be gone with it, or its user may have answered before.
TerminateSatUi(announcements) ==
    \E gone \in SUBSET Screens(announcements) : told' = announcements \ gone

\* The announcements of a command queued with this id and ticket.
Announce(cmd, id, ticket, asks, m) ==
    {[id |-> id, ticket |-> ticket, cmd |-> cmd, ask |-> ask, modem |-> m] :
        ask \in asks}

\* The second call of a *_noti: the command goes to the tail under a new id and
\* is announced on the object of the modem whose client asked for it.
QueueAgain(q, entry, m, announcements) ==
    /\ clock < MaxTickets
    /\ clock' = clock + 1
    /\ queue' = Push(q, [entry EXCEPT !.cmd_id = NextId(q), !.ticket = clock'])
    /\ told' = announcements
               \cup Announce(entry.cmd, NextId(q), clock', {"exec"}, m)
-----------------------------------------------------------------------------
(***************************************************************************)
(* Notifications of the modem (dbus_plugin_sat_notification).              *)
(***************************************************************************)
Received(m, k) == [no |-> clock + 1, modem |-> m, kind |-> k]

Receive ==
    /\ ~crashed
    /\ clock < MaxTickets
    /\ clock' = clock + 1
    /\ reply' = "none"

\* The *_noti answered the card itself or dropped the command.  A menu that is
\* not taken also clears the cached one.
ReceiveUnqueued(m, k) ==
    /\ Receive
    /\ Intake(k) # "QUEUE"
    /\ IF Intake(k) = "DROP" THEN SendNothing
       ELSE \E dispatched \in SendOutcomes :
                SendTerminalResponse(Received(m, k), m, k.type, "PLUGIN",
                                     clock', Intake(k), dispatched)
    /\ menu' = IF k.type = "SETUP_MENU" THEN {} ELSE menu
    /\ UNCHANGED <<queue, told, crashed>>

\* The command is queued, or not if the queue is full, and announced.
ReceiveQueued(m, k) ==
    /\ Receive
    /\ k.type # "SETUP_MENU"
    /\ Intake(k) = "QUEUE"
    /\ queue' = Push(queue, [cmd_id |-> NextId(queue), ticket |-> clock',
                             cmd |-> Received(m, k)])
    /\ told' = told \cup Announce(Received(m, k), NextId(queue), clock',
                                  AsksFor(k), m)
    /\ SendNothing
    /\ UNCHANGED <<menu, crashed>>

\* A menu is cached, queued and answered at once, by a call of the application
\* result handler with the id it was queued under.
ReceiveMenu(m, k) ==
    LET cmd == Received(m, k)
        id == NextId(queue)
        q == Push(queue, [cmd_id |-> id, ticket |-> clock + 1, cmd |-> cmd])
    IN
    /\ ~crashed
    /\ clock < MaxTickets
    /\ k.type = "SETUP_MENU"
    /\ Intake(k) = "QUEUE"
    /\ IF PopFaults(q, id) THEN Crash
       ELSE /\ Receive
            /\ menu' = {cmd}
            /\ queue' = Pop(q, id)
            /\ \E dispatched \in SendOutcomes, result \in Results :
                 /\ result \in ExecResult("SETUP_MENU", At(q, id).cmd.kind,
                                          "SUCCESS")
                 /\ SendTerminalResponse(At(q, id).cmd, m, "SETUP_MENU",
                                         "PLUGIN", clock', result, dispatched)
            /\ TerminateSatUi(told \cup Announce(cmd, id, clock', AsksFor(k), m))
            /\ UNCHANGED crashed

\* TNOTI_SAT_SESSION_END: the queue is emptied whosever commands it holds.
SessionEnd(m) ==
    /\ ~crashed
    /\ queue' = << >>
    /\ TerminateSatUi(told)
    /\ reply' = "none"
    /\ SendNothing
    /\ UNCHANGED <<menu, clock, crashed>>
-----------------------------------------------------------------------------
(***************************************************************************)
(* D-Bus calls.  A client that holds announcement a calls through modem    *)
(* m's object with a's id.                                                 *)
(***************************************************************************)
Calls(a) == ~crashed /\ a \in told

\* on_sat_get_main_menu_info: without a menu the call is not handled.
GetMainMenuInfo ==
    /\ ~crashed
    /\ reply' = IF menu = {} THEN "0" ELSE "1"
    /\ SendNothing
    /\ UNCHANGED <<queue, menu, clock, told, crashed>>

\* on_sat_send_app_exec_result.  The caller names the command type, and the
\* command at the id is answered by that type's handler, whatever its own.
SendAppExecResult(a, m, resp) ==
    LET as == a.cmd.kind.type
        cmd == At(queue, a.id).cmd
    IN
    /\ Calls(a)
    /\ IF as \notin ExecTypes \/ queue = << >>
       THEN /\ reply' = "0"
            /\ SendNothing
            /\ TerminateSatUi(told \ {a})
            /\ UNCHANGED <<queue, menu, clock, crashed>>
       ELSE IF PopFaults(queue, a.id) THEN Crash
       ELSE /\ queue' = Pop(queue, a.id)
            /\ \E dispatched \in SendOutcomes, result \in Results :
                 /\ result \in ExecResult(as, cmd.kind, resp)
                 /\ SendTerminalResponse(cmd, m, as, resp, a.cmd.no, result,
                                         dispatched)
                 /\ reply' = IF dispatched THEN "1" ELSE "0"
            /\ TerminateSatUi(told \ {a})
            /\ UNCHANGED <<menu, clock, crashed>>

\* on_sat_send_user_confirm.  The command is looked at first, and removed by
\* its type's handler only.
SendUserConfirm(a, m, confirm) ==
    LET entry == At(queue, a.id)
        type == entry.cmd.kind.type
        result == ConfirmResult(entry.cmd.kind, confirm)
    IN
    /\ Calls(a)
    /\ IF ~Present(queue, a.id) \/ type \notin ConfirmTypes
       THEN /\ reply' = "0"
            /\ SendNothing
            /\ told' = told \ {a}
            /\ UNCHANGED <<queue, clock>>
       ELSE IF result = "AGAIN"
       THEN /\ reply' = "1"
            /\ SendNothing
            /\ QueueAgain(Pop(queue, a.id), entry, m, told \ {a})
       ELSE /\ queue' = Pop(queue, a.id)
            /\ told' = told \ {a}
            /\ IF result = "SILENT" THEN SendNothing /\ reply' = "1"
               ELSE \E dispatched \in SendOutcomes :
                    /\ SendTerminalResponse(entry.cmd, m, type, confirm,
                                            a.cmd.no, result, dispatched)
                    /\ reply' = IF dispatched THEN "1" ELSE "0"
            /\ UNCHANGED clock
    /\ UNCHANGED <<menu, crashed>>

\* on_sat_send_display_status.  The command is removed first.  Only the idle
\* text's handler looks at whether the TR could be dispatched.
SendUiDisplayStatus(a, m, shown) ==
    LET entry == At(queue, a.id)
        idle == entry.cmd.kind.type = "SETUP_IDLE_MODE_TEXT"
        result == StatusResult(entry.cmd.kind, shown)
    IN
    /\ Calls(a)
    /\ IF queue = << >>
       THEN /\ reply' = "0"
            /\ SendNothing
            /\ told' = told \ {a}
            /\ UNCHANGED <<queue, menu, clock, crashed>>
       ELSE IF PopFaults(queue, a.id) THEN Crash
       ELSE /\ IF result = "AGAIN"
               THEN /\ reply' = "1"
                    /\ SendNothing
                    /\ QueueAgain(Pop(queue, a.id), entry, m, told \ {a})
               ELSE /\ queue' = Pop(queue, a.id)
                    /\ IF result = "LOST" THEN SendNothing /\ reply' = "0"
                       ELSE \E dispatched \in SendOutcomes :
                            /\ SendTerminalResponse(entry.cmd, m,
                                   entry.cmd.kind.type,
                                   IF shown THEN "SHOWN" ELSE "NOT_SHOWN",
                                   a.cmd.no, result, dispatched)
                            /\ reply' = IF idle /\ ~dispatched THEN "0" ELSE "1"
                    /\ IF idle THEN TerminateSatUi(told \ {a})
                       ELSE told' = told \ {a}
                    /\ UNCHANGED clock
            /\ UNCHANGED <<menu, crashed>>
-----------------------------------------------------------------------------
Notification ==
    \E m \in Modems :
        \/ SessionEnd(m)
        \/ \E k \in CommandKinds :
              \/ ReceiveUnqueued(m, k)
              \/ ReceiveQueued(m, k)
              \/ ReceiveMenu(m, k)

Call ==
    \/ GetMainMenuInfo
    \/ \E a \in told, m \in Modems :
          \/ \E resp \in Responses : SendAppExecResult(a, m, resp)
          \/ \E confirm \in UserAnswers : SendUserConfirm(a, m, confirm)
          \/ \E shown \in BOOLEAN : SendUiDisplayStatus(a, m, shown)

Next == Notification \/ Call

Spec == Init /\ [][Next]_vars
-----------------------------------------------------------------------------
(***************************************************************************)
(* Properties.                                                             *)
(***************************************************************************)
\* Number n is that of a command still in the queue.
Queued(n) == \E i \in DOMAIN queue : queue[i].cmd.no = n

\* A card gets at most one terminal response for a command, and a command that
\* is still in the queue has had none: removing by position, queueing again
\* after a YES and the plugin's own answer of a menu never duplicate one.
AtMostOneResponse ==
    \A n \in Tickets :
        /\ answers[n] <= 1
        /\ Queued(n) => answers[n] = 0

\* An id goes stale when commands before it leave the queue.  However stale, the
\* entry it names now is the one it was announced for or one queued later: an
\* answer is never applied to a command that was queued before the client's.
AnswersNeverReachBack ==
    \A a \in told :
        Present(queue, a.id) => At(queue, a.id).ticket >= a.ticket

\* The invariant the two above rest on.  The queue is in the order of the tickets,
\* holds no command twice, and neither it nor a client knows of a number that was
\* not given out; a number not given out has had no response.
Ordered(q) ==
    \A i, j \in 1 .. Len(q) : i < j => q[i].ticket < q[j].ticket

Distinct(q) ==
    \A i, j \in 1 .. Len(q) : q[i].cmd.no = q[j].cmd.no => i = j

Given(q, c) ==
    \A i \in 1 .. Len(q) : q[i].ticket <= c /\ q[i].cmd.no <= c

Bookkeeping ==
    /\ Ordered(queue)
    /\ Distinct(queue)
    /\ Given(queue, clock)
    /\ \A a \in told : a.ticket <= clock
    /\ \A n \in Tickets : n > clock => answers[n] = 0

\* Taking a SETUP_MENU leaves the queue as it was: the command it pushes is the
\* one it removes, whatever else is waiting.
MenuLeavesQueue == [][menu' # menu => queue' = queue]_vars

\* A card that is told of its menu being set up finds GetMainMenuInfo answering
\* with that menu, whichever command the id of the menu has come to name; a menu
\* without items takes back the one before, whosever it was.
MenuAnsweredIsCached ==
    \A tr \in sent :
        tr.as = "SETUP_MENU" /\ tr.said = "PLUGIN" /\ tr.result \in Successes
        => menu = IF Has(tr.cmd.kind, "no_items") THEN {} ELSE {tr.cmd}

\* The queue has room for "MAX SIZE" commands: one that is announced while it
\* holds fewer is in it afterwards, for the client's answer to find.
QueueTakesMaxSize ==
    [][\A a \in told' \ told :
          Len(queue) < QMax /\ a.cmd.kind.type # "SETUP_MENU"
          => \E i \in DOMAIN queue' : queue'[i].ticket = a.ticket]_vars

\* A client that is told 0 has caused no terminal response: it may try again
\* without the card being answered twice.
RefusedCallSendsNothing == [][reply' = "0" => sent' = {}]_vars

\* A user who refuses or ends the session, and a text that was not shown, are
\* never reported to the card as a success; a yes-or-no key, where "no" is the
\* answer asked for, is apart.
RefusalNeverReportedAsSuccess ==
    \A tr \in sent :
        /\ tr.said \in {"NO_OR_CANCEL", "END", "NOT_SHOWN"}
        /\ tr.result \in Successes
        => tr.said = "NO_OR_CANCEL" /\ Has(tr.cmd.kind, "yes_no")

\* What happened to command number n, as far as its card may know.
Fate(n) ==
    IF answers[n] > 1 THEN "answered again"
    ELSE IF answers[n] = 1 THEN "answered"
    ELSE IF Queued(n) THEN "pending"
    ELSE IF n <= clock THEN "gone"
    ELSE "none"

Card == INSTANCE ProactiveCommand
            WITH Numbers <- Tickets, fate <- [n \in Tickets |-> Fate(n)]

\* A card sees each of its commands answered at most once, and never after the
\* command was removed from the queue unanswered or its session was ended.
CardView == Card!Spec
=============================================================================
