------------------------------- MODULE SatDialogue -------------------------------
(***************************************************************************)
(* The SAT manager among well-behaved partners, the dialogue its handlers  *)
(* are written for:                                                        *)
(*   - a card sends its next command, or ends its session, only when no    *)
(*     command of its is in the queue;                                     *)
(*   - an announcement is answered once, by the method it asks for: a      *)
(*     screen that needs the user by SendUserConfirm, a screen that only   *)
(*     shows a text by SendUiDisplayStatus, a signal that asks for work by *)
(*     SendAppExecResult, always on the object it was announced on.        *)
(* Cards do not know of each other: with several modems their commands     *)
(* overlap.                                                                *)
(***************************************************************************)
EXTENDS SatManager, FiniteSets

\* Card m still waits for the terminal response of a command.
Waiting(m) == \E i \in DOMAIN queue : queue[i].cmd.modem = m

\* Bound: a card sends a command only while each modem's can be queued again.
Room == clock + Cardinality(Modems) < MaxTickets

CardSends(m) ==
    /\ ~Waiting(m)
    /\ Room
    /\ \/ SessionEnd(m)
       \/ \E k \in CommandKinds :
             \/ ReceiveUnqueued(m, k)
             \/ ReceiveQueued(m, k)
             \/ ReceiveMenu(m, k)

ClientAnswers(a) ==
    \/ /\ a.ask = "exec"
       /\ \E resp \in Responses : SendAppExecResult(a, a.modem, resp)
    \/ /\ a.ask = "confirm"
       /\ \E confirm \in UserAnswers : SendUserConfirm(a, a.modem, confirm)
    \/ /\ a.ask = "status"
       /\ \E shown \in BOOLEAN : SendUiDisplayStatus(a, a.modem, shown)

SomeClientAnswers == \E a \in told : ClientAnswers(a)

DialogueNext == SomeClientAnswers \/ \E m \in Modems : CardSends(m)

DialogueSpec == Init /\ [][DialogueNext]_vars

\* Clients do answer: sat-ui gives every screen a timeout (SAT_TIME_OUT) and
\* reports it, applications report the end of what they were asked to do, and
\* the main loop dispatches every call.
FairDialogueSpec == DialogueSpec /\ WF_vars(SomeClientAnswers)
-----------------------------------------------------------------------------
\* A call with an id that is not in the queue fails ("didn't find in command
\* Q!!"), it does not bring the telephony daemon down.
NeverCrashes == ~crashed

\* A terminal response goes to the card that sent the command, and says what the
\* client that was asked about this very command answered.
ResponsesAreOwn ==
    \A tr \in sent : tr.meant = tr.cmd.no /\ tr.via = tr.cmd.modem

\* The card is told that a command was performed only if its client said so:
\* 0x0 means "command performed successfully".
SuccessIsReported ==
    \A tr \in sent :
        tr.result \in Successes =>
            \/ tr.said \in Successes \cup {"YES", "SHOWN", "PLUGIN"}
            \/ tr.said = "NO_OR_CANCEL" /\ Has(tr.cmd.kind, "yes_no")

\* The types whose handlers report what they were told, whatever it was: not a
\* text (HELP_INFO reads as a success, a colour icon replaces any result), nor a
\* tone, nor the handlers that leave a TR's result as calloc made it.
FaithfulTypes ==
    Types \ {"DISPLAY_TEXT", "PLAY_TONE", "SETUP_CALL", "SEND_DTMF",
             "LAUNCH_BROWSER", "PROVIDE_LOCAL_INFO", "LANGUAGE_NOTIFICATION"}

\* Whichever modem's client answers which command by a stale id, and however often
\* a command is queued again: the queue never holds two commands of one card.
OneCommandEach ==
    \A i, j \in DOMAIN queue :
        queue[i].cmd.modem = queue[j].cmd.modem => i = j

\* The queue drops what does not fit and the command is announced all the same.
\* Among cards that wait, as many as the queue has places, this never happens: a
\* command that is announced is in the queue for its client's answer to find.
AnnouncedIsQueued ==
    [][\A a \in told' \ told :
          a.cmd.kind.type # "SETUP_MENU"
          => \E i \in DOMAIN queue' : queue'[i].ticket = a.ticket]_vars

\* A command in the queue has a client who can still answer it.  An idle text alone
\* can be left without one: its screen asks for a confirmation, and confirmations
\* have no case for it, so the answer takes the announcement and leaves the command.
OnlyIdleTextStranded ==
    \A i \in DOMAIN queue :
        \/ \E a \in told : a.cmd.no = queue[i].cmd.no /\ a.ask # "none"
        \/ queue[i].cmd.kind.type = "SETUP_IDLE_MODE_TEXT"

\* Every command a client is asked about gets its terminal response, if the modem
\* takes it.
EveryCommandAnswered ==
    \A n \in Tickets : Queued(n) ~> answers[n] = 1
=============================================================================
