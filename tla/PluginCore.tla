------------------------------- MODULE PluginCore -------------------------------
(***************************************************************************)
(* How an event of a modem reaches the clients.  Hooks on the events of    *)
(* network core objects keep the D-Bus properties of the network interface *)
(* (network.c); then the event goes to the object of its modem as a signal *)
(* (desc-dbus.c).  Two events do more: an incoming call starts its         *)
(* application, and the first status of a locked SIM has the emergency     *)
(* numbers asked for (sim.c).                                              *)
(***************************************************************************)
EXTENDS ModemRegistry

CONSTANTS
    Default,        \* TCORE_PLUGIN_DEFAULT
    Kinds,          \* the kinds of notifications raised
    Values,         \* kind -> the values they may have
    Dispatched      \* whether dispatching a request may succeed, may fail

ASSUME DefaultAssumption == Default \in Modems
ASSUME KindsAssumption == Kinds \subseteq AllKinds
ASSUME ValuesAssumption ==
    DOMAIN Values = Kinds /\ \A kind \in Kinds : Values[kind] \subseteq ValuesOf(kind)
ASSUME DispatchedAssumption == Dispatched \subseteq BOOLEAN

VARIABLES
    service,        \* modem -> service type of its network core object
    shown,          \* modem -> properties of its object
    heard,          \* modem -> last signal of its object
    launching,      \* the application that is about to be started, if any
    launched,       \* modem -> what its last incoming call has started
    first_status,   \* ctx->sim_recv_first_status
    ecc_requests,   \* requests for the emergency numbers that the core carries
    ecc,            \* ctx->cached_sim_ecc
    ecc_lost        \* the request could not be dispatched

network == <<service, shown>>
emergency == <<first_status, ecc_requests, ecc, ecc_lost>>
calls == <<launching, launched>>
vars == <<registry, network, heard, calls, emergency>>

\* Properties.  The statuses of the domains, the cell and the name's priority are set
\* with one of these and left out.
NetworkProperties ==
    {"service_type", "network_name", "plmn", "lac", "rssi", "network_type"}
Properties == NetworkProperties \cup {"power"}
\* What an object shows before something is set: an empty string, or a zero ("ZERO"),
\* which is the service type for UNKNOWN.
AtFirst(p) == IF p = "service_type" THEN "UNKNOWN" ELSE "ZERO"
NothingSet == [p \in Properties |-> AtFirst(p)]
Names == {"No Service", "EMERGENCY", "Searching..."} \cup Plmns
Shown == {"ZERO"} \cup Services \cup Names \cup Measures

\* A signal tells its listeners what kind and value it has; from whom it comes they
\* infer from the object it was sent by.
Signal(kind, value) == [kind |-> kind, value |-> Carried(kind, value)]
Silence == [kind |-> "NONE"]

\* An application to start, and what became of the last: it may have failed.
Launches == [modem : Modems, medium : {"VOICE", "VIDEO"}]
NoLaunch == [medium |-> "NONE"]
Outcomes == {"NONE", "VOICE", "VIDEO", "FAILED"}

\* The emergency numbers: a modem's, none yet, or what a failed answer holds.
EccLists == Modems \cup {"EMPTY", "GARBAGE"}

Init ==
    /\ RegistryInit
    /\ service = [m \in Modems |-> "UNKNOWN"]
    /\ shown = [m \in Modems |-> NothingSet]
    /\ heard = [m \in Modems |-> Silence]
    /\ launching = NoLaunch
    /\ launched = [m \in Modems |-> "NONE"]
    /\ first_status = FALSE
    /\ ecc_requests = 0
    /\ ecc = "EMPTY"
    /\ ecc_lost = FALSE
-----------------------------------------------------------------------------
(***************************************************************************)
(* The properties of the network interface.                                *)
(***************************************************************************)
\* Variant: a registration leaves the name alone.
RegistrationOnly(properties, type) == [properties EXCEPT !.service_type = type]

\* A registration sets the name too, unless there is service: then the name stays
\* until the next change of network.
OnRegistration(properties, type) ==
    [properties EXCEPT !.service_type = type,
                       !.network_name = IF type \in NoServices THEN ServiceWord(type)
                                        ELSE @]

\* Variant: the place is left to the cell information.
ChangeWithoutPlace(properties, now, type) ==
    [properties EXCEPT !.plmn = now.plmn,
                       !.network_name = IF type \in NoServices THEN ServiceWord(type)
                                        ELSE now.plmn]

\* A change of network; type is the service type that its core object has.  The
\* operator's name, known or not, is that of its PLMN.
OnChange(properties, now, type) ==
    [properties EXCEPT !.plmn = now.plmn,
                       !.lac = now.lac,
                       !.network_name = IF type \in NoServices THEN ServiceWord(type)
                                        ELSE now.plmn]

\* The hooks, by kind of notification.
Hooked(kind, properties, value, type) ==
    CASE kind = "NETWORK_REGISTRATION_STATUS" -> OnRegistration(properties, value)
      [] kind = "NETWORK_CHANGE" -> OnChange(properties, value, type)
      [] kind = "NETWORK_LOCATION_CELLINFO" -> [properties EXCEPT !.lac = value]
      [] kind = "NETWORK_ICON_INFO" -> [properties EXCEPT !.rssi = value]
      [] kind = "PS_PROTOCOL_STATUS" -> [properties EXCEPT !.network_type = value]
      [] OTHER -> properties

\* Variant: one of the hooks, and only one, looks at the modem it is called for.
FilteredRegistration(m, kind, value) ==
    [o \in Modems |->
        IF /\ "NETWORK" \in objects[o]
           /\ kind = "NETWORK_REGISTRATION_STATUS" => o = m
        THEN Hooked(kind, shown[o], value, service'[m])
        ELSE shown[o]]

\* The hooks of all objects run at an event of any of the modems.
RunHooks(m, kind, value) ==
    [o \in Modems |->
        IF "NETWORK" \in objects[o] THEN Hooked(kind, shown[o], value, service'[m])
        ELSE shown[o]]
-----------------------------------------------------------------------------
(***************************************************************************)
(* Notifications.                                                          *)
(***************************************************************************)
\* Variant: the flag is left to the answer.
RequestUntilAnswered(value) ==
    IF value \in SimLocked /\ ~first_status
    THEN /\ \E dispatched \in Dispatched :
               /\ ecc_requests' = ecc_requests + (IF dispatched THEN 1 ELSE 0)
               /\ ecc_lost' = ~dispatched
         /\ UNCHANGED <<first_status, ecc>>
    ELSE UNCHANGED emergency

\* The first status that says that the SIM is not ready has the default plugin asked
\* for the emergency numbers.  Whether that succeeds, it is not done again.
DataRequest(value) ==
    IF value \in SimLocked /\ ~first_status
    THEN /\ first_status' = TRUE
         /\ \E dispatched \in Dispatched :
               /\ ecc_requests' = ecc_requests + (IF dispatched THEN 1 ELSE 0)
               /\ ecc_lost' = ~dispatched
         /\ UNCHANGED ecc
    ELSE UNCHANGED emergency

\* Variant: every notification has a signal.
AnnounceAll(m, kind, value) ==
    heard' = IF SourceOf(kind) \in objects[m]
             THEN [heard EXCEPT ![m] = Signal(kind, value)] ELSE heard

\* The signal, if m's object has the interface for it.
Announce(m, kind, value) ==
    heard' = IF kind \in Signalled /\ SourceOf(kind) \in objects[m]
             THEN [heard EXCEPT ![m] = Signal(kind, value)] ELSE heard

\* dbus_plugin_*_notification for a modem that has an object.  After the signal of an
\* incoming call the handler has its application to start.
Delivered(m, kind, value, properties) ==
    /\ Announce(m, kind, value)
    /\ shown' = IF kind = "MODEM_POWER"
                THEN [properties EXCEPT ![m].power = value] ELSE properties
    /\ launching' = IF kind = "CALL_STATUS_INCOMING"
                    THEN [modem |-> m, medium |-> Medium(value)] ELSE NoLaunch
    /\ UNCHANGED launched
    /\ IF kind = "SIM_STATUS" THEN DataRequest(value) ELSE UNCHANGED emergency

\* One for a modem that has none.
Dropped(properties) ==
    /\ shown' = properties
    /\ UNCHANGED <<heard, calls, emergency>>

\* Modem m raises a notification.  A registration has changed the service type of its
\* core object when it is raised.
Notify(m, kind, value) ==
    /\ launching = NoLaunch
    /\ SourceOf(kind) \in core[m]
    /\ service' = IF kind = "NETWORK_REGISTRATION_STATUS"
                  THEN [service EXCEPT ![m] = value] ELSE service
    /\ IF objects[m] = {} THEN Dropped(RunHooks(m, kind, value))
       ELSE Delivered(m, kind, value, RunHooks(m, kind, value))
    /\ UNCHANGED registry

\* The rest of the handler of an incoming call: the application is started, or is not,
\* which nobody looks at.
Launch ==
    /\ launching # NoLaunch
    /\ \E outcome \in {launching.medium, "FAILED"} :
          launched' = [launched EXCEPT ![launching.modem] = outcome]
    /\ launching' = NoLaunch
    /\ UNCHANGED <<registry, network, heard, emergency>>

\* Variant: a failed answer is passed over.
SuccessesOnly(result) ==
    /\ launching = NoLaunch
    /\ ecc_requests > 0
    /\ ecc_requests' = ecc_requests - 1
    /\ ecc' = IF result = "SUCCESS" THEN Default ELSE ecc
    /\ UNCHANGED <<registry, network, heard, calls, first_status, ecc_lost>>

\* The default modem answers with its numbers, or fails: the handler copies what the
\* answer holds in either case.
EccResponse(result) ==
    /\ launching = NoLaunch
    /\ ecc_requests > 0
    /\ ecc_requests' = ecc_requests - 1
    /\ ecc' = IF result = "SUCCESS" THEN Default ELSE "GARBAGE"
    /\ UNCHANGED <<registry, network, heard, calls, first_status, ecc_lost>>

SomeNotification(m) ==
    \E kind \in Kinds : \E value \in Values[kind] : Notify(m, kind, value)

SomeEccResponse == \E result \in {"SUCCESS", "FAILURE"} : EccResponse(result)

RegistryStep ==
    /\ launching = NoLaunch
    /\ RegistryNext
    /\ UNCHANGED <<network, heard, calls, emergency>>

Next ==
    \/ RegistryStep
    \/ \E m \in Modems : SomeNotification(m)
    \/ Launch
    \/ SomeEccResponse

Spec == Init /\ [][Next]_vars

\* The default modem answers the request, and handlers come to their end.  The main
\* loop takes the answer in its turn: incoming calls do not keep it from that.
FairSpec == Spec /\ SF_vars(SomeEccResponse) /\ WF_vars(Launch)
-----------------------------------------------------------------------------
(***************************************************************************)
(* Properties.                                                             *)
(***************************************************************************)
TypeOK ==
    /\ RegistryTypeOK
    /\ service \in [Modems -> Services]
    /\ shown \in [Modems -> [Properties -> Shown]]
    /\ \A m \in Modems : heard[m] = Silence \/ heard[m].kind \in Signalled
    /\ launching \in Launches \cup {NoLaunch}
    /\ launched \in [Modems -> Outcomes]
    /\ first_status \in BOOLEAN
    /\ ecc_requests \in Nat
    /\ ecc \in EccLists
    /\ ecc_lost \in BOOLEAN

\* An application is started for a call that those who listen to the modem's calls have
\* just heard of, before, and as a call of the same medium; or the start has failed,
\* which they do not hear of.
ApplicationFollowsSignal ==
    [][ \A m \in Modems :
            launched'[m] # launched[m] /\ "CALL" \in objects[m] =>
                /\ heard[m].kind = "CALL_STATUS_INCOMING"
                /\ launched'[m] \in {heard[m].value, "FAILED"} ]_vars

\* The emergency numbers are asked for once.  The list is the default modem's,
\* whichever modem's SIM was the first, and whoever reads it before the answer finds
\* no numbers at all; it is not replaced once it is there.
EmergencyListIsDefaults ==
    /\ ecc_requests <= 1
    /\ ecc \in {"EMPTY", "GARBAGE", Default}
    /\ ecc_requests > 0 => ecc = "EMPTY"
EmergencyListStays == [][ecc # "EMPTY" => ecc' = ecc]_vars

\* Once a SIM has been reported as locked the emergency numbers arrive, unless the
\* one request for them could not be dispatched.
EmergencyListArrives == first_status ~> ecc # "EMPTY" \/ ecc_lost

\* m alone has a network core object.
Sole(m) == \A o \in Modems : "NETWORK" \in core[o] => o = m

\* The properties of an object say what its last signal said.  For those of the
\* network that takes a modem that is the only one with a network.
ShownIsHeard ==
    \A m \in Modems :
        LET kind == heard[m].kind
            value == heard[m].value
        IN  /\ kind = "MODEM_POWER" => shown[m].power = value
            /\ kind = "NETWORK_REGISTRATION_STATUS" /\ Sole(m) =>
                  shown[m].service_type = value
            /\ kind = "NETWORK_CHANGE" /\ Sole(m) =>
                  shown[m].plmn = value.plmn /\ shown[m].lac = value.lac
            /\ kind = "NETWORK_LOCATION_CELLINFO" /\ Sole(m) => shown[m].lac = value
            /\ kind = "NETWORK_ICON_INFO" /\ Sole(m) => shown[m].rssi = value

\* The network properties do not tell modems apart: two objects that both show another
\* value than at first show the same.
PropertiesAgree ==
    \A m, o \in Modems : \A p \in NetworkProperties :
        AtFirst(p) \in {shown[m][p], shown[o][p]} \/ shown[m][p] = shown[o][p]

\* With one network, no operator's name is shown beside a service type that says that
\* there is no service, whatever changes of network come after the registration.
\* UNKNOWN is left out: it is also what an object shows before any registration, with
\* no name, or with an operator's after a change of network.
NameAdmitsNoService ==
    \A m \in Modems :
        Sole(m) /\ shown[m].service_type \in NoServices \ {"UNKNOWN"} =>
            shown[m].network_name = ServiceWord(shown[m].service_type)
=============================================================================
