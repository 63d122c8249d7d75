---------------------------- MODULE SatCommandsProofs ----------------------------
(***************************************************************************)
(* What the tables of the SAT commands yield, for every command: each has  *)
(* an entry for every type that reaches it, and every entry is a result or *)
(* one of the marks of the table.                                          *)
(***************************************************************************)
EXTENDS SatCommands, TLAPS

\* What the notification handlers do with a command.
LEMMA IntakeType ==
    ASSUME NEW k \in Kinds
    PROVE  Intake(k) \in Results \cup {"QUEUE", "DROP"}
BY DEF Intake, Kinds, Types, ExecTypes, UiTypes, UnqueuedTypes, Results,
   RefuseIf, NotUnderstood, caching_setup_menu_info, display_text_noti,
   select_item_noti, get_inkey_noti, get_input_noti, play_tone_noti,
   send_sms_noti, send_ss_noti, send_ussd_noti, send_dtmf_noti,
   launch_browser_noti, setup_call_noti, setup_event_list_noti,
   setup_idle_mode_text_noti, open_channel_noti, close_channel_noti,
   receive_data_noti, send_data_noti, get_channel_status_noti, refresh_noti,
   more_time_noti, provide_local_info_noti, language_notification_noti

\* Whom a command is announced to.
LEMMA AsksType ==
    ASSUME NEW k \in Kinds
    PROVE  AsksFor(k) \subseteq Asks
BY DEF AsksFor, Asks

\* The result of the eight handlers that ask the user.
LEMMA ConfirmType ==
    ASSUME NEW k \in Kinds, k.type \in ConfirmTypes, NEW confirm \in Confirms
    PROVE  ConfirmResult(k, confirm) \in Results \cup {"AGAIN", "SILENT"}
BY DEF ConfirmResult, ConfirmTypes, UiTypes, Confirms, Results, Answered, OrIcon,
   IconMissing, Terminated, menu_select_confirm, display_text_confirm,
   get_inkey_confirm, get_input_confirm, setup_call_confirm, send_dtmf_confirm,
   launch_browser_confirm, open_channel_confirm

\* The result of a display status.
LEMMA StatusType ==
    ASSUME NEW k \in Kinds, NEW shown \in BOOLEAN
    PROVE  StatusResult(k, shown) \in Results \cup {"AGAIN", "LOST"}
BY DEF StatusResult, Results, RunIfShown, Unable, OrIcon, IconMissing,
   play_tone_ui_display_status, send_sms_ui_display_status,
   send_ss_ui_display_status, send_ussd_ui_display_status,
   send_dtmf_ui_display_status, open_channel_ui_display_status,
   setup_idle_mode_text_ui_display_status, refresh_ui_display_status

\* A user's refusal that becomes a success is the "no" of a yes-or-no key.
LEMMA RefusedByUser ==
    ASSUME NEW k \in Kinds, k.type \in ConfirmTypes,
           NEW confirm \in {"NO_OR_CANCEL", "END"},
           ConfirmResult(k, confirm) \in Successes
    PROVE  confirm = "NO_OR_CANCEL" /\ Has(k, "yes_no")
BY DEF ConfirmResult, ConfirmTypes, UiTypes, Successes, Answered, IconMissing,
   Terminated, menu_select_confirm, display_text_confirm, get_inkey_confirm,
   get_input_confirm, setup_call_confirm, send_dtmf_confirm,
   launch_browser_confirm, open_channel_confirm

\* A text that was not shown is no success.
LEMMA NotShownFails ==
    ASSUME NEW k \in Kinds
    PROVE  StatusResult(k, FALSE) \notin Successes
BY DEF StatusResult, Successes, RunIfShown, Unable, IconMissing,
   play_tone_ui_display_status, send_sms_ui_display_status,
   send_ss_ui_display_status, send_ussd_ui_display_status,
   send_dtmf_ui_display_status, open_channel_ui_display_status,
   setup_idle_mode_text_ui_display_status, refresh_ui_display_status
=============================================================================
