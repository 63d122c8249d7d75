--------------------------------- MODULE Requests ---------------------------------
(***************************************************************************)
(* The methods of the modem objects, by what becomes of a call: what the   *)
(* handler does when its request cannot be dispatched, which methods are   *)
(* answered without the modem, and which answer of the modem completes     *)
(* which call how.  Names are those of the handlers, without "on_".  Four  *)
(* methods of the SAT interface answer proactive commands and are not      *)
(* requests: they are in SatManager.                                       *)
(***************************************************************************)
EXTENDS Naturals, TLC

\* Core object types of a modem, and the D-Bus interfaces made for them.
Interfaces ==
    {"MODEM", "CALL", "NETWORK", "SS", "SMS", "SAT", "PHONEBOOK", "SAP", "SIM"}

Results == {"SUCCESS", "FAILURE"}
-----------------------------------------------------------------------------
(***************************************************************************)
(* The methods, in the groups their handlers come in.                      *)
(***************************************************************************)
ModemPower == {"modem_set_power", "modem_set_flight_mode"}
ModemIdentity ==
    {"modem_get_version", "modem_get_serial_number", "modem_get_imei"}
ModemDun == {"modem_set_dun_pin_ctrl"}
ModemMethods == ModemPower \cup ModemIdentity \cup ModemDun

NetworkSearch == {"network_search", "network_search_cancel"}
NetworkSelection ==
    {"network_get_selection_mode", "network_set_selection_mode"}
NetworkService ==
    {"network_set_service_domain", "network_get_service_domain",
     "network_set_band", "network_get_band"}
NetworkMode == {"network_set_mode", "network_get_mode"}
NetworkPlmn ==
    {"network_set_preferred_plmn", "network_get_preferred_plmn",
     "network_get_serving_network"}
NetworkMethods ==
    NetworkSearch \cup NetworkSelection \cup NetworkService \cup NetworkMode
    \cup NetworkPlmn

CallSetup == {"call_dial", "call_answer", "call_end", "call_dtmf"}
CallHolding == {"call_active", "call_hold", "call_swap"}
CallParties == {"call_join", "call_split", "call_transfer", "call_deflect"}
CallPath == {"call_set_sound_path", "call_get_volume", "call_set_volume"}
CallMute == {"call_get_mute_status", "call_mute", "call_unmute"}
CallTuning ==
    {"call_set_sound_recording", "call_set_sound_equalization",
     "call_set_sound_noise_reduction"}
CallQuery == {"call_get_status", "call_get_status_all"}
CallMethods ==
    CallSetup \cup CallHolding \cup CallParties \cup CallPath \cup CallMute
    \cup CallTuning \cup CallQuery

SsBarring ==
    {"ss_activate_barring", "ss_deactivate_barring",
     "ss_change_barring_password", "ss_get_barring_status"}
SsForwarding ==
    {"ss_register_forwarding", "ss_deregister_forwarding",
     "ss_activate_forwarding", "ss_deactivate_forwarding",
     "ss_get_forwarding_status"}
SsOther ==
    {"ss_activate_waiting", "ss_deactivate_waiting", "ss_get_waiting_status",
     "ss_get_cli_status", "ss_send_ussd"}
SsMethods == SsBarring \cup SsForwarding \cup SsOther

SmsSend == {"sms_send_msg"}
SmsStore == {"sms_save_msg", "sms_delete_msg", "sms_get_msg_count"}
SmsRead == {"sms_read_msg"}
SmsCentre == {"sms_get_sca", "sms_set_sca"}
SmsBroadcast == {"sms_get_cb_config", "sms_set_cb_config"}
SmsStatus ==
    {"sms_set_mem_status", "sms_get_pref_bearer", "sms_set_pref_bearer",
     "sms_set_delivery_report", "sms_set_msg_status"}
SmsParams ==
    {"sms_get_sms_params", "sms_set_sms_params", "sms_get_sms_param_cnt"}
SmsQuery == {"sms_get_sms_ready_status"}
SmsMethods ==
    SmsSend \cup SmsStore \cup SmsRead \cup SmsCentre \cup SmsBroadcast
    \cup SmsStatus \cup SmsParams \cup SmsQuery

SatEnvelopes == {"sat_select_menu", "sat_download_event"}

PhonebookQuery == {"phonebook_get_init_status"}
PhonebookRecords ==
    {"phonebook_get_count", "phonebook_get_info", "phonebook_get_usim_info",
     "phonebook_read_record", "phonebook_update_record",
     "phonebook_delete_record"}
PhonebookMethods == PhonebookQuery \cup PhonebookRecords

SapSession ==
    {"sap_connect", "sap_disconnect", "sap_get_status", "sap_get_atr"}
SapCard ==
    {"sap_transfer_apdu", "sap_set_protocol", "sap_set_power",
     "sap_get_card_reader_status"}
SapMethods == SapSession \cup SapCard

SimQuery == {"sim_get_init_status", "sim_get_card_type", "sim_get_imsi"}
SimEmergency == {"sim_get_ecc"}
SimFiles ==
    {"sim_get_iccid", "sim_get_language", "sim_set_language",
     "sim_get_callforwarding", "sim_get_message_waiting", "sim_get_mailbox"}
SimOperator ==
    {"sim_get_cphsinfo", "sim_get_msisdn", "sim_get_oplmnwact", "sim_get_spn",
     "sim_get_cphs_netname"}
SimPins ==
    {"sim_authentication", "sim_verify_sec", "sim_verify_puk", "sim_change_pin"}
SimLockChange == {"sim_disable_facility", "sim_enable_facility"}
SimLockQuery == {"sim_get_facility", "sim_get_lock_info"}
SimLocks == SimLockChange \cup SimLockQuery
SimCard == {"sim_transfer_apdu", "sim_get_atr"}
SimMethods ==
    SimQuery \cup SimEmergency \cup SimFiles \cup SimOperator \cup SimPins
    \cup SimLocks \cup SimCard

\* The methods that an object has with interface i.
Offers(i, method) ==
    \/ i = "MODEM" /\ method \in ModemMethods
    \/ i = "CALL" /\ method \in CallMethods
    \/ i = "NETWORK" /\ method \in NetworkMethods
    \/ i = "SS" /\ method \in SsMethods
    \/ i = "SMS" /\ method \in SmsMethods
    \/ i = "SAT" /\ method \in SatEnvelopes
    \/ i = "PHONEBOOK" /\ method \in PhonebookMethods
    \/ i = "SAP" /\ method \in SapMethods
    \/ i = "SIM" /\ method \in SimMethods

AllMethods ==
    ModemMethods \cup CallMethods \cup NetworkMethods \cup SsMethods
    \cup SmsMethods \cup SatEnvelopes \cup PhonebookMethods \cup SapMethods
    \cup SimMethods
-----------------------------------------------------------------------------
(***************************************************************************)
(* Arguments, where a handler looks at them before it makes a request, and *)
(* lock types, which it translates: numbers, as callers give them.         *)
(***************************************************************************)
LockTypes == 1 .. 8

Arguments(method) ==
    CASE method = "modem_set_power" -> 0 .. 3
      [] method = "network_set_selection_mode" -> 0 .. 2
      [] method = "sms_set_sca" -> 0 .. 2
      [] method \in SimLocks -> LockTypes
      [] OTHER -> {0}

\* An unknown power mode or selection mode is refused by an error of the method's
\* own; a service centre other than the first (1), or with a number whose length is
\* out of range (2), by returning FALSE.
Rejected(method, arg) ==
    \/ method = "modem_set_power" /\ arg > 2
    \/ method = "network_set_selection_mode" /\ arg > 1
    \/ method = "sms_set_sca" /\ arg # 0

\* enum tel_sim_facility_type for a caller's lock type: there is no case for 2,
\* which leaves the zero of memset.
Facility(type) ==
    CASE type = 1 -> "PS"
      [] type = 3 -> "SC"
      [] type = 4 -> "FD"
      [] type = 5 -> "PN"
      [] type = 6 -> "PU"
      [] type = 7 -> "PP"
      [] type = 8 -> "PC"
      [] OTHER -> "ZERO"

Facilities == {Facility(type) : type \in LockTypes}

\* Variant: a facility read as the one before it.
LockTypeShifted(f) ==
    CASE f = "PS" -> 1 [] f = "SC" -> 3 [] f = "FD" -> 3 [] f = "PN" -> 4
      [] f = "PU" -> 5 [] f = "PP" -> 6 [] f = "PC" -> 7 [] OTHER -> 0

\* And back, for the reply; 0 for a facility it does not know.
LockType(f) ==
    CASE f = "PS" -> 1
      [] f = "SC" -> 3
      [] f = "FD" -> 4
      [] f = "PN" -> 5
      [] f = "PU" -> 6
      [] f = "PP" -> 7
      [] f = "PC" -> 8
      [] OTHER -> 0
-----------------------------------------------------------------------------
(***************************************************************************)
(* What becomes of a call.                                                 *)
(***************************************************************************)
\* Answered without the modem: from the core objects of the default plugin,
\* whichever object was called, or from the list of emergency numbers.
FromDefaultPlugin == CallQuery \cup SmsQuery \cup PhonebookQuery \cup SimQuery
AnsweredLocally == FromDefaultPlugin \cup SimEmergency

\* The core object a local answer is taken from.
Consults(method) ==
    CASE method \in CallQuery -> "CALL"
      [] method \in SmsQuery -> "SMS"
      [] method \in PhonebookQuery -> "PHONEBOOK"
      [] method \in SimQuery -> "SIM"

\* These do not look whether the default plugin has the object (they log that it
\* has not) and read the first element of an empty list.
NotChecked == PhonebookQuery \cup SimQuery

\* The replies that are made with NULL for a string, or for an array, after a request
\* could not be dispatched.
NullStrings == ModemIdentity \cup {"network_get_serving_network"}
NullArrays == {"network_search", "network_get_preferred_plmn"}

\* A request that cannot be dispatched is reported to the caller by an error of the
\* method's own; by returning FALSE, for which GDBus reports an unknown method;
\* or not at all.
ReportsFailure == (ModemMethods \cup NetworkMethods) \ NullArrays
ReturnsFalse == (CallMethods \cup SmsMethods) \ (SmsRead \cup SmsStore)
IgnoresFailure ==
    SmsRead \cup SmsStore \cup SsMethods \cup SatEnvelopes
    \cup PhonebookRecords \cup SapMethods
    \cup (SimMethods \ AnsweredLocally)
-----------------------------------------------------------------------------
(***************************************************************************)
(* The answer of the modem to a request: whether dbus_plugin_*_response    *)
(* completes the call, given the core objects of the modem, and with what. *)
(***************************************************************************)
\* The methods whose response has a case that completes the call.
ModemCompleted == ModemPower \cup ModemIdentity \cup ModemDun

\* Variant: the cases of conferences are missing.
CallsButNotParties == CallSetup \cup CallHolding

CallsCompleted == CallSetup \cup CallHolding \cup CallParties
SoundsCompleted == CallPath \cup CallMute \cup CallTuning
SelectionCompleted ==
    {"network_search", "network_set_service_domain",
     "network_get_service_domain"} \cup NetworkSelection
NetworkCompleted ==
    {"network_search_cancel", "network_set_band", "network_get_band"}
    \cup NetworkMode \cup NetworkPlmn
BarringCompleted == SsBarring
ForwardingCompleted == SsForwarding
SsOtherCompleted == SsOther
MessagesCompleted == SmsSend \cup SmsRead \cup SmsStore
SmsStatusCompleted ==
    SmsCentre \cup SmsBroadcast \cup (SmsStatus \ {"sms_set_msg_status"})
SmsParamsCompleted == {"sms_set_msg_status"} \cup SmsParams
SatCompleted == SatEnvelopes
PhonebookCompleted == PhonebookRecords
SapCompleted == SapSession \cup SapCard
FilesCompleted == SimFiles
OperatorCompleted == SimOperator \cup {"sim_authentication"}
LocksCompleted ==
    (SimPins \ {"sim_authentication"}) \cup SimLockChange
    \cup {"sim_get_facility"}
CardCompleted == {"sim_get_lock_info"} \cup SimCard

\* The core objects without which a response is dropped: that of a call looks for
\* the modem's network object.
Needs(method) ==
    CASE method \in CallMethods -> {"NETWORK"}
      [] method \in NetworkMethods -> {"NETWORK"}
      [] method \in SmsMethods -> {"SMS"}
      [] OTHER -> {}

Completed ==
    ModemCompleted \cup CallsCompleted \cup SoundsCompleted
    \cup SelectionCompleted \cup NetworkCompleted \cup BarringCompleted
    \cup ForwardingCompleted \cup SsOtherCompleted \cup MessagesCompleted
    \cup SmsStatusCompleted \cup SmsParamsCompleted \cup SatCompleted
    \cup PhonebookCompleted \cup SapCompleted \cup FilesCompleted
    \cup OperatorCompleted \cup LocksCompleted \cup CardCompleted

\* A cell broadcast configuration may list ranges of a kind of network that is not
\* known here: the response is dropped.
MayBeUnreadable(method) == method = "sms_get_cb_config"

\* The reply to a request that failed is made with NULL for the answer of the network.
MayBeUnbuilt(method, result) == method = "ss_send_ussd" /\ result = "FAILURE"

\* Variant: every result is that of the power mode.
ReportedDone(method, result) == "SUCCESS"

\* Variant: the reply is sent before the result is set.
ReportedNothing(method, result) == "NOTHING"

\* The result in the reply is the modem's, except that a power mode is always
\* reported as set.
Reported(method, result) ==
    IF method = "modem_set_power" THEN "SUCCESS" ELSE result
=============================================================================
