------------------------------ MODULE SatCommands ------------------------------
(***************************************************************************)
(* The tables of src/src/sat_manager.c and src/src/sat.c: for every        *)
(* proactive command type, what the notification handler does with the     *)
(* command, whom it is announced to, and which result each answer of a     *)
(* client puts into the terminal response (TR).                            *)
(*                                                                         *)
(* A command is a record with a type and a set of flags, the parts of its  *)
(* TLV that decide anything:                                               *)
(*   bad_icon    an icon that is not self explanatory                      *)
(*   no_text     no text or alpha identifier                               *)
(*   long_text   a text of more than one character (sat-ui shows it)       *)
(*   colour      an icon in a colour image coding scheme                   *)
(*   immediate   immediate response requested                              *)
(*   wait        the user has to clear the text                            *)
(*   yes_no      the key asked for is yes or no                            *)
(*   no_items, blank_item      a menu with no item, with one empty item    *)
(*   timed, subaddress         a call with a duration, with a subaddress   *)
(*   unknown_bearer            a channel over a bearer that is not handled *)
(*   unmanaged                 an event list with an unknown event         *)
(* A result is named as in the code, without RESULT_.  A field that calloc *)
(* left zero reads as SUCCESS (0x0 in sat_ui_support/TelSatObj.h:289).     *)
(***************************************************************************)
EXTENDS Naturals

UiTypes == {"DISPLAY_TEXT", "SELECT_ITEM", "GET_INKEY", "GET_INPUT"}

\* The cases of sat_manager_handle_app_exec_result.
ExecTypes ==
    {"SETUP_MENU", "DISPLAY_TEXT", "PLAY_TONE", "SEND_SMS", "SEND_SS",
     "SEND_USSD", "SETUP_CALL", "SETUP_IDLE_MODE_TEXT", "OPEN_CHANNEL",
     "CLOSE_CHANNEL", "RECEIVE_DATA", "SEND_DATA", "GET_CHANNEL_STATUS",
     "SEND_DTMF", "LAUNCH_BROWSER", "PROVIDE_LOCAL_INFO",
     "LANGUAGE_NOTIFICATION"}

\* Variant: a call that asks for the user has no case.
ConfirmTypesButCall == UiTypes \cup {"SEND_DTMF", "LAUNCH_BROWSER", "OPEN_CHANNEL"}

\* The cases of sat_manager_handle_user_confirm.
ConfirmTypes == UiTypes \cup {"SETUP_CALL", "SEND_DTMF", "LAUNCH_BROWSER",
                              "OPEN_CHANNEL"}

\* Answered by the plugin itself and never queued.
UnqueuedTypes == {"SETUP_EVENT_LIST", "MORE_TIME"}

Types == ExecTypes \cup UiTypes \cup UnqueuedTypes \cup {"REFRESH"}

Flags == {"bad_icon", "no_text", "long_text", "colour", "immediate", "wait",
          "yes_no", "no_items", "blank_item", "timed", "subaddress",
          "unknown_bearer", "unmanaged"}

Kinds == [type : Types, flags : SUBSET Flags]

Confirms == {"YES", "NO_OR_CANCEL", "HELP_INFO", "END", "TIMEOUT"}

Results ==
    {"SUCCESS", "SUCCESS_WITH_MISSING_INFO",
     "SUCCESS_BUT_REQUESTED_ICON_NOT_DISPLAYED",
     "ME_UNABLE_TO_PROCESS_COMMAND", "NETWORK_UNABLE_TO_PROCESS_COMMAND",
     "PROACTIVE_SESSION_TERMINATED_BY_USER", "BACKWARD_MOVE_BY_USER",
     "NO_RESPONSE_FROM_USER", "HELP_INFO_REQUIRED_BY_USER",
     "USER_DID_NOT_ACCEPT_CALL_SETUP_REQ",
     "USER_CLEAR_DOWN_CALL_BEFORE_CONN", "BEYOND_ME_CAPABILITIES",
     "COMMAND_TYPE_NOT_UNDERSTOOD_BY_ME",
     "COMMAND_DATA_NOT_UNDERSTOOD_BY_ME", "SMS_RP_ERROR", "SS_RETURN_ERROR",
     "USSD_RETURN_ERROR", "INTRCTN_WITH_CC_OR_SMS_CTRL_PRMNT_PRBLM",
     "BEARER_INDEPENDENT_PROTOCOL_ERROR"}

NotUnderstood == "COMMAND_DATA_NOT_UNDERSTOOD_BY_ME"
Unable == "ME_UNABLE_TO_PROCESS_COMMAND"
IconMissing == "SUCCESS_BUT_REQUESTED_ICON_NOT_DISPLAYED"
Terminated == "PROACTIVE_SESSION_TERMINATED_BY_USER"

Successes == {"SUCCESS", "SUCCESS_WITH_MISSING_INFO", IconMissing}
-----------------------------------------------------------------------------
(***************************************************************************)
(* Notification: each *_noti returns "QUEUE", "DROP" (no response at all)  *)
(* or the result of the TR it sends at once instead of queueing.           *)
(***************************************************************************)
Has(k, flag) == flag \in k.flags

IconOnly(k) == Has(k, "bad_icon") /\ Has(k, "no_text")

RefuseIf(condition, result) == IF condition THEN result ELSE "QUEUE"

caching_setup_menu_info(k) ==
    IF IconOnly(k) THEN NotUnderstood
    ELSE IF Has(k, "no_items") THEN "SUCCESS"
    ELSE RefuseIf(Has(k, "blank_item"), NotUnderstood)

display_text_noti(k) ==
    RefuseIf(Has(k, "bad_icon") \/ Has(k, "no_text"), NotUnderstood)

select_item_noti(k) == RefuseIf(IconOnly(k), NotUnderstood)
get_inkey_noti(k) == RefuseIf(IconOnly(k), NotUnderstood)
get_input_noti(k) == RefuseIf(Has(k, "bad_icon"), NotUnderstood)
play_tone_noti(k) == RefuseIf(IconOnly(k), NotUnderstood)
send_sms_noti(k) == RefuseIf(IconOnly(k), NotUnderstood)
send_ss_noti(k) == RefuseIf(IconOnly(k), NotUnderstood)
send_ussd_noti(k) == RefuseIf(IconOnly(k), NotUnderstood)
send_dtmf_noti(k) == RefuseIf(IconOnly(k), NotUnderstood)
launch_browser_noti(k) == RefuseIf(IconOnly(k), NotUnderstood)

setup_call_noti(k) ==
    RefuseIf(Has(k, "timed") \/ Has(k, "subaddress"), "BEYOND_ME_CAPABILITIES")

setup_event_list_noti(k) ==
    IF Has(k, "unmanaged") THEN "SUCCESS_WITH_MISSING_INFO" ELSE "SUCCESS"

setup_idle_mode_text_noti(k) ==
    RefuseIf(Has(k, "bad_icon") \/ Has(k, "no_text"), NotUnderstood)

\* The default case of the bearer switch returns without sending anything.
open_channel_noti(k) == RefuseIf(Has(k, "unknown_bearer"), "DROP")

close_channel_noti(k) == "QUEUE"
receive_data_noti(k) == "QUEUE"
send_data_noti(k) == "QUEUE"
get_channel_status_noti(k) == "QUEUE"
refresh_noti(k) == "QUEUE"
more_time_noti(k) == "SUCCESS"
provide_local_info_noti(k) == "QUEUE"
language_notification_noti(k) == "QUEUE"

Intake(k) ==
    CASE k.type = "SETUP_MENU"            -> caching_setup_menu_info(k)
      [] k.type = "DISPLAY_TEXT"          -> display_text_noti(k)
      [] k.type = "SELECT_ITEM"           -> select_item_noti(k)
      [] k.type = "GET_INKEY"             -> get_inkey_noti(k)
      [] k.type = "GET_INPUT"             -> get_input_noti(k)
      [] k.type = "PLAY_TONE"             -> play_tone_noti(k)
      [] k.type = "SEND_SMS"              -> send_sms_noti(k)
      [] k.type = "SEND_SS"               -> send_ss_noti(k)
      [] k.type = "SEND_USSD"             -> send_ussd_noti(k)
      [] k.type = "SETUP_CALL"            -> setup_call_noti(k)
      [] k.type = "SETUP_EVENT_LIST"      -> setup_event_list_noti(k)
      [] k.type = "SETUP_IDLE_MODE_TEXT"  -> setup_idle_mode_text_noti(k)
      [] k.type = "OPEN_CHANNEL"          -> open_channel_noti(k)
      [] k.type = "CLOSE_CHANNEL"         -> close_channel_noti(k)
      [] k.type = "RECEIVE_DATA"          -> receive_data_noti(k)
      [] k.type = "SEND_DATA"             -> send_data_noti(k)
      [] k.type = "GET_CHANNEL_STATUS"    -> get_channel_status_noti(k)
      [] k.type = "REFRESH"               -> refresh_noti(k)
      [] k.type = "MORE_TIME"             -> more_time_noti(k)
      [] k.type = "SEND_DTMF"             -> send_dtmf_noti(k)
      [] k.type = "LAUNCH_BROWSER"        -> launch_browser_noti(k)
      [] k.type = "PROVIDE_LOCAL_INFO"    -> provide_local_info_noti(k)
      [] k.type = "LANGUAGE_NOTIFICATION" -> language_notification_noti(k)
-----------------------------------------------------------------------------
(***************************************************************************)
(* Announcement: what dbus_plugin_sat_notification asks of whom.           *)
(*   confirm   sat-ui is launched and the user has to answer               *)
(*   status    sat-ui is launched and reports whether it shows the text    *)
(*   exec      a signal tells an application to carry the command out      *)
(*   none      a signal that only informs                                  *)
(***************************************************************************)
Asks == {"confirm", "status", "exec", "none"}

\* The ui_info of these says user_confirm = TRUE, of those below FALSE.
TextConfirmed == {"SETUP_CALL", "SETUP_IDLE_MODE_TEXT", "OPEN_CHANNEL",
                  "LAUNCH_BROWSER"}
TextShown == {"PLAY_TONE", "SEND_SMS", "SEND_SS", "SEND_USSD", "SEND_DTMF"}

\* Variant: the early return after the launch of sat-ui is missing.
AsksBoth(k) ==
    IF k.type \in TextConfirmed /\ Has(k, "long_text") THEN {"confirm", "exec"}
    ELSE IF k.type \in TextShown /\ Has(k, "long_text") THEN {"status", "exec"}
    ELSE IF k.type \in UiTypes THEN {"confirm", "none"}
    ELSE IF k.type = "REFRESH" THEN {"status", "none"}
    ELSE IF k.type = "SETUP_MENU" THEN {"none"} ELSE {"exec"}

AsksFor(k) ==
    CASE k.type = "SETUP_MENU" -> {"none"}
      [] k.type \in UiTypes -> {"confirm", "none"}
      [] k.type = "REFRESH" -> {"status", "none"}
      [] k.type \in TextConfirmed /\ Has(k, "long_text") -> {"confirm"}
      [] k.type \in TextShown /\ Has(k, "long_text") -> {"status"}
      [] OTHER -> {"exec"}
-----------------------------------------------------------------------------
(***************************************************************************)
(* The result of an application: as is the command type the caller names,  *)
(* which selects the handler; k is the command that was found at the id.   *)
(* When they differ the handler reads another member of the union, so what *)
(* it takes for the icon's coding scheme may be anything.  Each operator   *)
(* is the set of results its handler can put into the TR.                  *)
(***************************************************************************)
ColourSeen(as, k) == IF as = k.type THEN {Has(k, "colour")} ELSE BOOLEAN

WithIcon(as, k, result) ==
    {IF colour THEN IconMissing ELSE result : colour \in ColourSeen(as, k)}

setup_menu_result(k, resp) ==
    IF resp = "SUCCESS" THEN WithIcon("SETUP_MENU", k, resp) ELSE {resp}

\* The icon is looked at after the switch: it replaces any response.
display_text_result(k, resp) == WithIcon("DISPLAY_TEXT", k, resp)

\* After the switch the icon is looked at again, in the union member of
\* DISPLAY_TEXT: that is no field of a tone.
play_tone_result(k, resp) ==
    {IconMissing} \cup
    IF resp = "SUCCESS" THEN WithIcon("PLAY_TONE", k, resp) ELSE {resp}

send_sms_result(k, resp) ==
    IF resp = "SUCCESS" THEN WithIcon("SEND_SMS", k, resp)
    ELSE IF resp \in {"INTRCTN_WITH_CC_OR_SMS_CTRL_PRMNT_PRBLM", Unable,
                      "BEYOND_ME_CAPABILITIES", NotUnderstood, "SMS_RP_ERROR",
                      "COMMAND_TYPE_NOT_UNDERSTOOD_BY_ME"}
    THEN {resp} ELSE {Unable}

send_ss_result(k, resp) ==
    IF resp = "SUCCESS" THEN WithIcon("SEND_SS", k, resp)
    ELSE IF resp = "NETWORK_UNABLE_TO_PROCESS_COMMAND" THEN {resp}
    ELSE {"SS_RETURN_ERROR"}

send_ussd_result(k, resp) ==
    IF resp = "SUCCESS" THEN WithIcon("SEND_USSD", k, resp)
    ELSE IF resp \in {"NETWORK_UNABLE_TO_PROCESS_COMMAND", Unable} THEN {resp}
    ELSE {"USSD_RETURN_ERROR"}

\* The default case sets no result.
setup_call_result(k, resp) ==
    IF resp = "SUCCESS" THEN WithIcon("SETUP_CALL", k, resp)
    ELSE IF resp \in {Unable, "NETWORK_UNABLE_TO_PROCESS_COMMAND",
                      "USER_CLEAR_DOWN_CALL_BEFORE_CONN",
                      "BEYOND_ME_CAPABILITIES",
                      "INTRCTN_WITH_CC_OR_SMS_CTRL_PRMNT_PRBLM"}
    THEN {resp} ELSE {"SUCCESS"}

setup_idle_mode_text_result(k, resp) ==
    IF resp = "SUCCESS" THEN WithIcon("SETUP_IDLE_MODE_TEXT", k, resp)
    ELSE {resp}

\* Variant: the result is never put into the TR.
result_left_zero(resp) == {"SUCCESS"}

open_channel_result(resp) == {resp}
close_channel_result(resp) == {resp}
receive_data_result(resp) == {resp}
send_data_result(resp) == {resp}
get_channel_status_result(resp) == {resp}

\* These send the TR as calloc returned it: the result is never read.
send_dtmf_result(resp) == {"SUCCESS"}
launch_browser_result(resp) == {"SUCCESS"}
provide_local_info_result(resp) == {"SUCCESS"}
language_notification_result(resp) == {"SUCCESS"}

ExecResult(as, k, resp) ==
    CASE as = "SETUP_MENU"            -> setup_menu_result(k, resp)
      [] as = "DISPLAY_TEXT"          -> display_text_result(k, resp)
      [] as = "PLAY_TONE"             -> play_tone_result(k, resp)
      [] as = "SEND_SMS"              -> send_sms_result(k, resp)
      [] as = "SEND_SS"               -> send_ss_result(k, resp)
      [] as = "SEND_USSD"             -> send_ussd_result(k, resp)
      [] as = "SETUP_CALL"            -> setup_call_result(k, resp)
      [] as = "SETUP_IDLE_MODE_TEXT"  -> setup_idle_mode_text_result(k, resp)
      [] as = "OPEN_CHANNEL"          -> open_channel_result(resp)
      [] as = "CLOSE_CHANNEL"         -> close_channel_result(resp)
      [] as = "RECEIVE_DATA"          -> receive_data_result(resp)
      [] as = "SEND_DATA"             -> send_data_result(resp)
      [] as = "GET_CHANNEL_STATUS"    -> get_channel_status_result(resp)
      [] as = "SEND_DTMF"             -> send_dtmf_result(resp)
      [] as = "LAUNCH_BROWSER"        -> launch_browser_result(resp)
      [] as = "PROVIDE_LOCAL_INFO"    -> provide_local_info_result(resp)
      [] as = "LANGUAGE_NOTIFICATION" -> language_notification_result(resp)
-----------------------------------------------------------------------------
(***************************************************************************)
(* The user's answer: the handler is chosen by the type found at the id.   *)
(* "AGAIN" queues and announces the command once more, "SILENT" removes it *)
(* and sends nothing.                                                      *)
(***************************************************************************)
OrIcon(k) == IF Has(k, "colour") THEN IconMissing ELSE "SUCCESS"

\* A function of the user's answer, from the results of the five answers.
Answered(yes, no, help, end, timeout) ==
    [YES |-> yes, NO_OR_CANCEL |-> no, HELP_INFO |-> help, END |-> end,
     TIMEOUT |-> timeout]

menu_select_confirm(k) ==
    Answered(OrIcon(k), "BACKWARD_MOVE_BY_USER", "HELP_INFO_REQUIRED_BY_USER",
             Terminated, "NO_RESPONSE_FROM_USER")

\* HELP_INFO leaves the result as calloc left it.
display_text_confirm(k) ==
    IF Has(k, "immediate")
    THEN Answered("SILENT", "SILENT", "SILENT", "SILENT", "SILENT")
    ELSE Answered(OrIcon(k), "BACKWARD_MOVE_BY_USER", "SUCCESS", Terminated,
                  IF Has(k, "wait") THEN "NO_RESPONSE_FROM_USER" ELSE "SUCCESS")

\* Variant: every key is taken for a yes-or-no key.
any_inkey_confirm(k) ==
    Answered(OrIcon(k), "SUCCESS", "HELP_INFO_REQUIRED_BY_USER", Terminated,
             "NO_RESPONSE_FROM_USER")

\* For a yes-or-no key "no" is an answer like any other: the TR carries 0x00.
get_inkey_confirm(k) ==
    Answered(OrIcon(k),
             IF Has(k, "yes_no") THEN "SUCCESS" ELSE "BACKWARD_MOVE_BY_USER",
             "HELP_INFO_REQUIRED_BY_USER", Terminated, "NO_RESPONSE_FROM_USER")

get_input_confirm(k) ==
    Answered(OrIcon(k), "BACKWARD_MOVE_BY_USER", "HELP_INFO_REQUIRED_BY_USER",
             Terminated, "NO_RESPONSE_FROM_USER")

setup_call_confirm(k) ==
    Answered("AGAIN", "USER_DID_NOT_ACCEPT_CALL_SETUP_REQ",
             "NO_RESPONSE_FROM_USER", Terminated, "NO_RESPONSE_FROM_USER")

\* There is no case for YES.
send_dtmf_confirm(k) ==
    Answered("NO_RESPONSE_FROM_USER", Terminated, "NO_RESPONSE_FROM_USER",
             Terminated, "NO_RESPONSE_FROM_USER")

launch_browser_confirm(k) ==
    Answered("AGAIN", "BACKWARD_MOVE_BY_USER", "NO_RESPONSE_FROM_USER",
             "BACKWARD_MOVE_BY_USER", "NO_RESPONSE_FROM_USER")

open_channel_confirm(k) ==
    Answered("AGAIN", "USER_DID_NOT_ACCEPT_CALL_SETUP_REQ",
             "NO_RESPONSE_FROM_USER", "USER_DID_NOT_ACCEPT_CALL_SETUP_REQ",
             "NO_RESPONSE_FROM_USER")

ConfirmResult(k, confirm) ==
    CASE k.type = "SELECT_ITEM"    -> menu_select_confirm(k)[confirm]
      [] k.type = "DISPLAY_TEXT"   -> display_text_confirm(k)[confirm]
      [] k.type = "GET_INKEY"      -> get_inkey_confirm(k)[confirm]
      [] k.type = "GET_INPUT"      -> get_input_confirm(k)[confirm]
      [] k.type = "SETUP_CALL"     -> setup_call_confirm(k)[confirm]
      [] k.type = "SEND_DTMF"      -> send_dtmf_confirm(k)[confirm]
      [] k.type = "LAUNCH_BROWSER" -> launch_browser_confirm(k)[confirm]
      [] k.type = "OPEN_CHANNEL"   -> open_channel_confirm(k)[confirm]
-----------------------------------------------------------------------------
(***************************************************************************)
(* The display status sat-ui reports, by the type found at the id.         *)
(***************************************************************************)
RunIfShown(shown) == IF shown THEN "AGAIN" ELSE Unable

play_tone_ui_display_status(shown) == RunIfShown(shown)
send_sms_ui_display_status(shown) == RunIfShown(shown)
send_ss_ui_display_status(shown) == RunIfShown(shown)
send_ussd_ui_display_status(shown) == RunIfShown(shown)
send_dtmf_ui_display_status(shown) == RunIfShown(shown)
open_channel_ui_display_status(shown) == RunIfShown(shown)

setup_idle_mode_text_ui_display_status(k, shown) ==
    IF shown THEN OrIcon(k) ELSE Unable

\* Variant: nothing is sent when the refresh was shown.
failed_refresh_only(shown) == IF shown THEN "LOST" ELSE Unable

refresh_ui_display_status(shown) == IF shown THEN "SUCCESS" ELSE Unable

\* "LOST": the type has no case; the command was removed before the switch.
StatusResult(k, shown) ==
    CASE k.type = "PLAY_TONE"    -> play_tone_ui_display_status(shown)
      [] k.type = "SEND_SMS"     -> send_sms_ui_display_status(shown)
      [] k.type = "SEND_SS"      -> send_ss_ui_display_status(shown)
      [] k.type = "SEND_USSD"    -> send_ussd_ui_display_status(shown)
      [] k.type = "SEND_DTMF"    -> send_dtmf_ui_display_status(shown)
      [] k.type = "OPEN_CHANNEL" -> open_channel_ui_display_status(shown)
      [] k.type = "SETUP_IDLE_MODE_TEXT" ->
            setup_idle_mode_text_ui_display_status(k, shown)
      [] k.type = "REFRESH"      -> refresh_ui_display_status(shown)
      [] OTHER                   -> "LOST"
=============================================================================
