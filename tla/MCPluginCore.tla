------------------------------ MODULE MCPluginCore ------------------------------
(***************************************************************************)
(* PluginCore for TLC: what is raised and what modems consist of.          *)
(***************************************************************************)
EXTENDS PluginCore, TLC

\* Events that do more than send a signal, one that is not signalled as what it is,
\* one that is just signalled, and one that has no signal.
EventKinds ==
    {"CALL_STATUS_INCOMING", "CALL_STATUS_HELD", "SIM_STATUS", "SMS_INCOM_MSG",
     "SMS_INCOM_EX_MSG"}
EventValues ==
    "CALL_STATUS_INCOMING" :> {"VOICE", "VIDEO"}
    @@ "CALL_STATUS_HELD" :> {"VIDEO"}
    @@ "SIM_STATUS" :> {"PIN_REQUIRED", "INIT_COMPLETED"}
    @@ "SMS_INCOM_MSG" :> {"low"}
    @@ "SMS_INCOM_EX_MSG" :> {"low"}
\* Modems whose other core objects come with the modem's or later.
EventEquipment ==
    {{}, {"MODEM"}, {"MODEM", "CALL", "SIM"}, {"MODEM", "CALL", "SIM", "SMS"}}

\* Events that set properties.
NetworkKinds ==
    {"NETWORK_REGISTRATION_STATUS", "NETWORK_CHANGE", "NETWORK_ICON_INFO",
     "NETWORK_LOCATION_CELLINFO", "PS_PROTOCOL_STATUS", "MODEM_POWER"}
NetworkValues ==
    "NETWORK_REGISTRATION_STATUS" :> {"UNKNOWN", "SEARCH", "3G"}
    @@ "NETWORK_CHANGE" :> [plmn : Plmns, lac : {"high"}]
    @@ "NETWORK_ICON_INFO" :> {"low"}
    @@ "NETWORK_LOCATION_CELLINFO" :> {"low"}
    @@ "PS_PROTOCOL_STATUS" :> {"low"}
    @@ "MODEM_POWER" :> {"low"}
NetworkEquipment == {{}, {"MODEM", "PS"}, {"MODEM", "NETWORK", "PS"}}
=============================================================================
