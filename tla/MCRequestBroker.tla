----------------------------- MODULE MCRequestBroker -----------------------------
(***************************************************************************)
(* Small instances of RequestBroker: what a modem may consist of.          *)
(***************************************************************************)
EXTENDS RequestBroker

\* A complete modem, and two that lack objects which the responses or the local
\* answers of other interfaces look for.
SmallEquipment ==
    {Interfaces, Interfaces \ {"NETWORK", "SIM", "PHONEBOOK"},
     Interfaces \ {"CALL", "SMS"}}

\* One call of any method, and at the same time one that fails in one of the
\* ways there are: with an error, an unknown method, nothing, or the daemon's end.
OneOfAll ==
    <<AllMethods,
      {"modem_set_flight_mode", "call_dial", "sms_read_msg", "network_search"}>>
=============================================================================
