------------------------------ MODULE Notifications ------------------------------
(***************************************************************************)
(* What the modem plugins notify the daemon of, and what becomes of it in  *)
(* dbus_plugin_*_notification: the signal of which interface, carrying     *)
(* what.  Names are those of the commands, without "TNOTI_".  The commands *)
(* of TNOTI_SAT are in SatManager.  A notification carries one value, the  *)
(* part of its data that the handlers look at or that a property is about. *)
(***************************************************************************)
EXTENDS Naturals

CallStatuses ==
    {"CALL_STATUS_IDLE", "CALL_STATUS_DIALING", "CALL_STATUS_ALERT",
     "CALL_STATUS_ACTIVE", "CALL_STATUS_HELD", "CALL_STATUS_INCOMING"}
CallSounds ==
    {"CALL_SOUND_PATH", "CALL_SOUND_RINGBACK_TONE", "CALL_SOUND_WBAMR",
     "CALL_SOUND_EQUALIZATION", "CALL_SOUND_NOISE_REDUCTION"}
ModemEvents ==
    {"MODEM_POWER", "MODEM_DUN_PIN_CONTROL", "MODEM_DUN_EXTERNAL_CALL"}
NetworkEvents ==
    {"NETWORK_REGISTRATION_STATUS", "NETWORK_CHANGE", "NETWORK_ICON_INFO",
     "NETWORK_TIMEINFO", "NETWORK_IDENTITY", "NETWORK_LOCATION_CELLINFO"}
PsEvents == {"PS_PROTOCOL_STATUS"}
SimEvents == {"SIM_STATUS"}
SsEvents == {"SS_USSD"}
SapEvents == {"SAP_STATUS", "SAP_DISCONNECT"}
PhonebookEvents == {"PHONEBOOK_STATUS"}
SmsMessages ==
    {"SMS_INCOM_MSG", "SMS_CB_INCOM_MSG", "SMS_ETWS_INCOM_MSG"}
\* Messages of another kind of network: their cases are compiled out.
SmsSilent == {"SMS_INCOM_EX_MSG", "SMS_CB_INCOM_EX_MSG"}
SmsStates == {"SMS_MEMORY_STATUS", "SMS_DEVICE_READY"}

\* The types of core objects; all but PS have an interface.
CoreTypes ==
    {"CALL", "MODEM", "NETWORK", "PS", "SIM", "SS", "SAP", "PHONEBOOK", "SMS", "SAT"}

\* The notifications that have a signal.
Signalled ==
    CallStatuses \cup CallSounds \cup ModemEvents \cup NetworkEvents \cup SimEvents
    \cup SsEvents \cup SapEvents \cup PhonebookEvents \cup SmsMessages \cup SmsStates
AllKinds == Signalled \cup SmsSilent \cup PsEvents

\* The type of the core object that a notification comes from, and with it the handler
\* and the interface of its signal.
SourceOf(kind) ==
    CASE kind \in CallStatuses \cup CallSounds -> "CALL"
      [] kind \in ModemEvents -> "MODEM"
      [] kind \in NetworkEvents -> "NETWORK"
      [] kind \in PsEvents -> "PS"
      [] kind \in SimEvents -> "SIM"
      [] kind \in SsEvents -> "SS"
      [] kind \in SapEvents -> "SAP"
      [] kind \in PhonebookEvents -> "PHONEBOOK"
      [] kind \in SmsMessages \cup SmsSilent \cup SmsStates -> "SMS"
-----------------------------------------------------------------------------
(***************************************************************************)
(* Values.                                                                 *)
(***************************************************************************)
\* Types of a call: any that is not a video call is treated as a voice call.
CallTypes == {"VOICE", "VIDEO", "E911"}
Medium(type) == IF type = "VIDEO" THEN "VIDEO" ELSE "VOICE"

\* Service types, and the name shown for those that are no service.
NoServices == {"UNKNOWN", "NO_SERVICE", "EMERGENCY", "SEARCH"}
ServiceWord(type) ==
    CASE type \in {"UNKNOWN", "NO_SERVICE"} -> "No Service"
      [] type = "EMERGENCY" -> "EMERGENCY"
      [] type = "SEARCH" -> "Searching..."
Services == NoServices \cup {"2G", "2.5G", "3G", "HSDPA"}

\* States of a SIM on which the emergency numbers are asked for, and others.
SimLocked ==
    {"INITIALIZING", "PIN_REQUIRED", "PUK_REQUIRED", "CARD_BLOCKED",
     "NCK_REQUIRED", "NSCK_REQUIRED", "SPCK_REQUIRED", "CCK_REQUIRED",
     "LOCK_REQUIRED"}
SimStatuses ==
    SimLocked \cup {"CARD_ERROR", "CARD_NOT_PRESENT", "INIT_COMPLETED",
                    "CARD_REMOVED"}

\* Two places, signal strengths, power states, messages ... tell a value from an older.
Measures == {"low", "high"}
Plmns == {"plmn1", "plmn2"}
Networks == [plmn : Plmns, lac : Measures]

ValuesOf(kind) ==
    CASE kind \in CallStatuses -> CallTypes
      [] kind = "NETWORK_REGISTRATION_STATUS" -> Services
      [] kind = "NETWORK_CHANGE" -> Networks
      [] kind = "SIM_STATUS" -> SimStatuses
      [] OTHER -> Measures

\* Variant: the tests on the type of a call are dropped.
CarriedAsVoice(kind, value) == IF kind \in CallStatuses THEN "VOICE" ELSE value

\* What the signal for a notification carries: a held call is announced as a voice
\* call whatever it is.
Carried(kind, value) ==
    CASE kind = "CALL_STATUS_HELD" -> "VOICE"
      [] kind \in CallStatuses \ {"CALL_STATUS_HELD"} -> Medium(value)
      [] OTHER -> value
=============================================================================
