----------------------------- MODULE PluginCoreProofs -----------------------------
(***************************************************************************)
(* Theorems about PluginCore: for any modems, any core objects that they   *)
(* make at any time, and any notifications.                                *)
(***************************************************************************)
EXTENDS PluginCore, TLAPS

(***************************************************************************)
(* The tables.                                                             *)
(***************************************************************************)
\* Which core object the notifications come from that properties are set by.
LEMMA Sources ==
    /\ \A kind \in NetworkEvents : SourceOf(kind) = "NETWORK"
    /\ SourceOf("MODEM_POWER") = "MODEM"
    /\ SourceOf("CALL_STATUS_INCOMING") = "CALL"
    /\ SourceOf("PS_PROTOCOL_STATUS") = "PS"
BY DEF SourceOf, SmsSilent, PsEvents, CallStatuses, CallSounds, ModemEvents,
       NetworkEvents, SimEvents, SsEvents, SapEvents, PhonebookEvents, SmsMessages,
       SmsStates

\* What the values of the notifications that set properties are.
LEMMA ValuesTyped ==
    ASSUME NEW kind, NEW value \in ValuesOf(kind)
    PROVE  /\ kind = "NETWORK_REGISTRATION_STATUS" => value \in Services
           /\ kind = "NETWORK_CHANGE" => value.plmn \in Plmns /\ value.lac \in Measures
           /\ kind \in {"NETWORK_LOCATION_CELLINFO", "NETWORK_ICON_INFO",
                        "PS_PROTOCOL_STATUS", "MODEM_POWER"} => value \in Measures
<1> USE DEF ValuesOf, CallStatuses
<1>1. kind = "NETWORK_REGISTRATION_STATUS" => value \in Services
  OBVIOUS
<1>2. kind = "NETWORK_CHANGE" => value.plmn \in Plmns /\ value.lac \in Measures
  <2>1. kind = "NETWORK_CHANGE" => value \in Networks
    OBVIOUS
  <2> QED BY <2>1 DEF Networks
<1>3. kind \in {"NETWORK_LOCATION_CELLINFO", "NETWORK_ICON_INFO",
                "PS_PROTOCOL_STATUS", "MODEM_POWER"} => value \in Measures
  OBVIOUS
<1> QED BY <1>1, <1>2, <1>3

\* A word that stands for no service is one of the names.
LEMMA WordsAreNames == \A type \in NoServices : ServiceWord(type) \in Names
BY DEF NoServices, ServiceWord, Names

\* A hook sets the properties of an interface to what does not depend on what they
\* were, or leaves them.
LEMMA HookedShape ==
    ASSUME NEW kind, NEW value \in ValuesOf(kind), NEW type \in Services,
           NEW p \in [Properties -> Shown]
    PROVE  /\ Hooked(kind, p, value, type) \in [Properties -> Shown]
           /\ Hooked(kind, p, value, type)["power"] = p["power"]
           /\ \A q \in [Properties -> Shown], x \in NetworkProperties :
                 \/ /\ Hooked(kind, p, value, type)[x] = p[x]
                    /\ Hooked(kind, q, value, type)[x] = q[x]
                 \/ Hooked(kind, p, value, type)[x] = Hooked(kind, q, value, type)[x]
<1> USE DEF Properties, NetworkProperties
<1>0. /\ \A t \in Services : t \in Shown
      /\ \A t \in Measures : t \in Shown
      /\ \A t \in Plmns : t \in Shown
      /\ \A t \in NoServices : ServiceWord(t) \in Shown
  BY WordsAreNames DEF Shown, Names
<1>1. CASE kind = "NETWORK_REGISTRATION_STATUS"
  <2>1. value \in Services
    BY <1>1, ValuesTyped
  <2>2. \A q : Hooked(kind, q, value, type) = OnRegistration(q, value)
    BY <1>1 DEF Hooked
  <2> HIDE DEF Properties, NetworkProperties
  <2>3. \A q \in [Properties -> Shown] :
           /\ OnRegistration(q, value) \in [Properties -> Shown]
           /\ \A x \in Properties :
                 OnRegistration(q, value)[x] =
                    IF x = "service_type" THEN value
                    ELSE IF x = "network_name" /\ value \in NoServices
                    THEN ServiceWord(value) ELSE q[x]
    BY <2>1, <1>0 DEF OnRegistration
  <2> QED BY <2>2, <2>3 DEF Properties, NetworkProperties
<1>2. CASE kind = "NETWORK_CHANGE"
  <2>1. value.plmn \in Plmns /\ value.lac \in Measures
    BY <1>2, ValuesTyped
  <2>2. \A q : Hooked(kind, q, value, type) = OnChange(q, value, type)
    BY <1>2 DEF Hooked
  <2> HIDE DEF Properties, NetworkProperties
  <2>3. \A q \in [Properties -> Shown] :
           /\ OnChange(q, value, type) \in [Properties -> Shown]
           /\ \A x \in Properties :
                 OnChange(q, value, type)[x] =
                    IF x = "plmn" THEN value.plmn
                    ELSE IF x = "lac" THEN value.lac
                    ELSE IF x = "network_name"
                    THEN (IF type \in NoServices THEN ServiceWord(type) ELSE value.plmn)
                    ELSE q[x]
    BY <2>1, <1>0 DEF OnChange
  <2> QED BY <2>2, <2>3 DEF Properties, NetworkProperties
<1>3. CASE kind = "NETWORK_LOCATION_CELLINFO"
  <2>1. value \in Shown
    BY <1>3, <1>0, ValuesTyped
  <2>2. \A q : Hooked(kind, q, value, type) = [q EXCEPT !.lac = value]
    BY <1>3 DEF Hooked
  <2> QED BY <2>1, <2>2
<1>4. CASE kind = "NETWORK_ICON_INFO"
  <2>1. value \in Shown
    BY <1>4, <1>0, ValuesTyped
  <2>2. \A q : Hooked(kind, q, value, type) = [q EXCEPT !.rssi = value]
    BY <1>4 DEF Hooked
  <2> QED BY <2>1, <2>2
<1>5. CASE kind = "PS_PROTOCOL_STATUS"
  <2>1. value \in Shown
    BY <1>5, <1>0, ValuesTyped
  <2>2. \A q : Hooked(kind, q, value, type) = [q EXCEPT !.network_type = value]
    BY <1>5 DEF Hooked
  <2> QED BY <2>1, <2>2
<1>6. CASE kind \notin {"NETWORK_REGISTRATION_STATUS", "NETWORK_CHANGE",
                        "NETWORK_LOCATION_CELLINFO", "NETWORK_ICON_INFO",
                        "PS_PROTOCOL_STATUS"}
  <2>1. \A q : Hooked(kind, q, value, type) = q
    BY <1>6 DEF Hooked
  <2> QED BY <2>1
<1> QED BY <1>1, <1>2, <1>3, <1>4, <1>5, <1>6
-----------------------------------------------------------------------------
(***************************************************************************)
(* The registry.                                                           *)
(***************************************************************************)
RegistryInv == RegistryTypeOK /\ ObjectsAreBacked

\* Objects are made with the modem interface and of what the modem has, and stay.
LEMMA RegistryKept ==
    ASSUME RegistryInv, RegistryNext
    PROVE  /\ RegistryInv'
           /\ \A m \in Modems : core[m] \subseteq core'[m]
           /\ \A m \in Modems :
                 objects'[m] # objects[m] => objects[m] = {} /\ "MODEM" \in objects'[m]
<1> USE EquipmentAssumption DEF RegistryInv, RegistryTypeOK, ObjectsAreBacked
<1>0. "MODEM" \in Interfaces /\ Interfaces \subseteq CoreTypes
  BY DEF Interfaces, CoreTypes
<1>1. ASSUME Refresh, UNCHANGED <<core, hal>>, manager' \in BOOLEAN, ran' \in BOOLEAN,
             manager'
      PROVE  /\ RegistryInv'
             /\ \A m \in Modems : core[m] \subseteq core'[m]
             /\ \A m \in Modems :
                 objects'[m] # objects[m] => objects[m] = {} /\ "MODEM" \in objects'[m]
  <2>1. \A m \in Modems :
           /\ objects'[m] \in SUBSET Interfaces
           /\ objects'[m] # {} => objects[m] # {} \/ Usable(m)
           /\ objects'[m] = objects[m] \/ objects'[m] = NewObject(m)
           /\ objects'[m] # objects[m] => objects[m] = {} /\ "MODEM" \in objects'[m]
    BY <1>0, <1>1 DEF Refresh, NewObject
  <2>2. objects' \in [Modems -> SUBSET Interfaces]
    BY <1>0, <1>1 DEF Refresh, NewObject
  <2>3. \A m \in Modems : Usable(m)' <=> Usable(m)
    BY <1>1 DEF Usable
  <2>4. \A m \in Modems :
           objects'[m] # {} =>
              Usable(m) /\ objects'[m] \subseteq core[m]
    BY <2>1 DEF NewObject, Usable, Listed
  <2> QED BY <1>1, <2>1, <2>2, <2>3, <2>4 DEF Listed
<1>2. CASE ServerRun
  <2>1. CASE manager
    BY <1>1, <1>2, <2>1 DEF ServerRun
  <2>2. CASE ~manager
    <3>1. UNCHANGED <<core, hal, manager, objects>> /\ ran' \in BOOLEAN
      BY <1>2, <2>2 DEF ServerRun
    <3> QED BY <3>1 DEF Listed, Usable
  <2> QED BY <2>1, <2>2
<1>3. CASE BusAcquired
  BY <1>1, <1>3 DEF BusAcquired
<1>4. ASSUME NEW m \in Modems, HalLinked(m)
      PROVE  /\ RegistryInv'
             /\ \A o \in Modems : core[o] \subseteq core'[o]
             /\ \A o \in Modems : objects'[o] = objects[o]
  BY <1>4 DEF HalLinked, Listed, Usable
<1>5. ASSUME NEW m \in Modems, NEW types \in Equipment, CoreObjectsMade(m, types)
      PROVE  /\ RegistryInv'
             /\ \A o \in Modems : core[o] \subseteq core'[o]
             /\ \A o \in Modems : objects'[o] = objects[o]
  <2>1. \A o \in Modems : core[o] \subseteq core'[o]
    BY <1>5 DEF CoreObjectsMade
  <2>2. core' \in [Modems -> Equipment]
    BY <1>5 DEF CoreObjectsMade
  <2> QED BY <1>5, <2>1, <2>2 DEF CoreObjectsMade, Listed, Usable
<1> QED BY <1>2, <1>3, <1>4, <1>5 DEF RegistryNext

\* Every step of the plugin is one of the registry or leaves the registry alone.
LEMMA RegistrySteps ==
    ASSUME [Next]_vars
    PROVE  RegistryNext \/ UNCHANGED registry
BY DEF Next, RegistryStep, SomeNotification, Notify, Launch, SomeEccResponse,
       EccResponse, vars

\* The registry's invariant holds in every state.
THEOREM RegistryHolds == Spec => []RegistryInv
<1>1. Init => RegistryInv
  <2>1. Init => RegistryInit
    BY DEF Init
  <2>2. RegistryInit => RegistryInv
    BY EquipmentAssumption DEF RegistryInit, RegistryInv, RegistryTypeOK, ObjectsAreBacked
  <2> QED BY <2>1, <2>2
<1>2. RegistryInv /\ [Next]_vars => RegistryInv'
  <2> SUFFICES ASSUME RegistryInv, [Next]_vars PROVE RegistryInv'
    OBVIOUS
  <2>1. CASE RegistryNext
    BY <2>1, RegistryKept
  <2>2. CASE UNCHANGED registry
    BY <2>2 DEF registry, RegistryInv, RegistryTypeOK, ObjectsAreBacked, Listed, Usable
  <2> QED BY <2>1, <2>2, RegistrySteps
<1> QED BY <1>1, <1>2, PTL DEF Spec

\* No object is on the bus before the manager, without its modem being listed, or with
\* an interface for which the modem has no core object (desc-dbus.c).
THEOREM ObjectsBacked == Spec => []ObjectsAreBacked
<1>1. RegistryInv => ObjectsAreBacked
  BY DEF RegistryInv
<1> QED BY <1>1, RegistryHolds, PTL

\* Whichever of plugins and bus comes last, every modem listed then has its object.
THEOREM StartServes == Spec => StartServesAll
<1>1. RegistryInv /\ [Next]_vars =>
        [ Started' /\ ~Started =>
            \A m \in Listed :
                /\ objects'[m] # {}
                /\ objects[m] = {} => objects'[m] = core[m] \cap Interfaces ]_registry
  <2> SUFFICES ASSUME RegistryInv, RegistryNext, Started', ~Started, NEW m \in Listed
               PROVE  /\ objects'[m] # {}
                      /\ objects[m] = {} => objects'[m] = core[m] \cap Interfaces
    BY RegistrySteps
  <2>1. Refresh
    BY DEF RegistryNext, ServerRun, BusAcquired, HalLinked, CoreObjectsMade, Started
  <2>2. "MODEM" \in core[m] \cap Interfaces /\ m \in Modems /\ Usable(m)
    BY DEF Listed, Usable, Interfaces, CoreTypes
  <2>3. NewObject(m) = core[m] \cap Interfaces
    BY <2>2 DEF NewObject
  <2> QED BY <2>1, <2>2, <2>3 DEF Refresh
<1> QED BY <1>1, RegistryHolds, PTL DEF Spec, StartServesAll
-----------------------------------------------------------------------------
(***************************************************************************)
(* The emergency numbers.                                                  *)
(***************************************************************************)
EmergencyInv ==
    /\ ecc_requests \in Nat
    /\ first_status \in BOOLEAN
    /\ ecc_lost \in BOOLEAN
    /\ EmergencyListIsDefaults
    /\ ~first_status => ecc_requests = 0 /\ ecc = "EMPTY"

\* What a step does about the numbers: it may ask for them once, and an answer ends
\* the request.
LEMMA EmergencyStep ==
    ASSUME EmergencyInv, [Next]_vars
    PROVE  EmergencyInv' /\ (ecc # "EMPTY" => ecc' = ecc)
<1> USE DEF EmergencyInv, EmergencyListIsDefaults
<1>1. CASE UNCHANGED emergency
  BY <1>1 DEF emergency
<1>2. ASSUME NEW value, DataRequest(value)
      PROVE  EmergencyInv' /\ (ecc # "EMPTY" => ecc' = ecc)
  <2>1. CASE UNCHANGED emergency
    BY <2>1, <1>1
  <2>2. CASE ~UNCHANGED emergency
    <3>1. /\ ~first_status
          /\ first_status' = TRUE
          /\ ecc' = ecc
          /\ \E dispatched \in Dispatched :
                /\ ecc_requests' = ecc_requests + (IF dispatched THEN 1 ELSE 0)
                /\ ecc_lost' = ~dispatched
      BY <1>2, <2>2 DEF DataRequest
    <3>2. ecc_requests' \in {0, 1} /\ ecc_lost' \in BOOLEAN
      <4>1. PICK dispatched \in Dispatched :
               /\ ecc_requests' = ecc_requests + (IF dispatched THEN 1 ELSE 0)
               /\ ecc_lost' = ~dispatched
        BY <3>1
      <4>2. dispatched \in BOOLEAN
        BY DispatchedAssumption
      <4> QED BY <3>1, <4>1, <4>2
    <3> QED BY <3>1, <3>2
  <2> QED BY <2>1, <2>2
<1>3. CASE SomeEccResponse
  BY <1>3 DEF SomeEccResponse, EccResponse
<1>4. ASSUME NEW m \in Modems, SomeNotification(m)
      PROVE  UNCHANGED emergency \/ \E value : DataRequest(value)
  <2>1. PICK kind \in Kinds : \E value \in Values[kind] : Notify(m, kind, value)
    BY <1>4 DEF SomeNotification
  <2>2. PICK value \in Values[kind] : Notify(m, kind, value)
    BY <2>1
  <2> QED BY <2>2 DEF Notify, Dropped, Delivered
<1>5. CASE RegistryStep
  BY <1>1, <1>5 DEF RegistryStep
<1>6. CASE Launch
  BY <1>1, <1>6 DEF Launch
<1>7. CASE UNCHANGED vars
  BY <1>1, <1>7 DEF vars
<1> QED BY <1>1, <1>2, <1>3, <1>4, <1>5, <1>6, <1>7 DEF Next

\* The one list of emergency numbers is the default modem's, asked for once; only an
\* answer replaces the empty list that is there before (sim.c).
THEOREM EmergencyHolds == Spec => [](EmergencyInv /\ EmergencyListIsDefaults)
<1>1. Init => EmergencyInv
  <2>1. Init => ~first_status /\ first_status \in BOOLEAN /\ ecc_lost \in BOOLEAN
                /\ ecc_requests = 0 /\ ecc = "EMPTY"
    BY DEF Init
  <2> QED BY <2>1 DEF EmergencyInv, EmergencyListIsDefaults
<1>2. EmergencyInv /\ [Next]_vars => EmergencyInv'
  BY EmergencyStep
<1>3. EmergencyInv => EmergencyListIsDefaults
  BY DEF EmergencyInv
<1> QED BY <1>1, <1>2, <1>3, PTL DEF Spec

\* A list that is there is never replaced.
THEOREM EmergencyStays == Spec => EmergencyListStays
<1>1. EmergencyInv /\ [Next]_vars => [ecc # "EMPTY" => ecc' = ecc]_vars
  BY EmergencyStep
<1> QED BY <1>1, EmergencyHolds, PTL DEF Spec, EmergencyListStays
-----------------------------------------------------------------------------
(***************************************************************************)
(* Notifications: what one changes.                                        *)
(***************************************************************************)
NetworkTyped ==
    /\ service \in [Modems -> Services]
    /\ shown \in [Modems -> [Properties -> Shown]]

\* A notification runs the hooks of every object that has the network interface, and
\* is signalled by its own modem's object only.
LEMMA NotifyShape ==
    ASSUME NetworkTyped, NEW m \in Modems, NEW kind \in Kinds,
           NEW value \in Values[kind], Notify(m, kind, value)
    PROVE  /\ NetworkTyped'
           /\ value \in ValuesOf(kind)
           /\ kind = "NETWORK_REGISTRATION_STATUS" => service'[m] = value
           /\ \A o \in Modems :
                 o # m \/ kind # "NETWORK_REGISTRATION_STATUS" => service'[o] = service[o]
           /\ \A o \in Modems, p \in NetworkProperties :
                 shown'[o][p] =
                    IF "NETWORK" \in objects[o]
                    THEN Hooked(kind, shown[o], value, service'[m])[p]
                    ELSE shown[o][p]
           /\ \A o \in Modems :
                 shown'[o]["power"] =
                    IF kind = "MODEM_POWER" /\ o = m /\ objects[m] # {} THEN value
                    ELSE shown[o]["power"]
           /\ heard' = IF kind \in Signalled /\ SourceOf(kind) \in objects[m]
                       THEN [heard EXCEPT ![m] = Signal(kind, value)] ELSE heard
           /\ launching' = IF kind = "CALL_STATUS_INCOMING" /\ objects[m] # {}
                           THEN [modem |-> m, medium |-> Medium(value)] ELSE NoLaunch
           /\ launched' = launched
           /\ SourceOf(kind) \in core[m]
           /\ UNCHANGED registry
<1> DEFINE properties == RunHooks(m, kind, value)
<1>1. value \in ValuesOf(kind)
  BY ValuesAssumption
<1>2. /\ service' \in [Modems -> Services]
      /\ kind = "NETWORK_REGISTRATION_STATUS" => service'[m] = value
      /\ \A o \in Modems :
            o # m \/ kind # "NETWORK_REGISTRATION_STATUS" => service'[o] = service[o]
  <2>1. kind = "NETWORK_REGISTRATION_STATUS" => value \in Services
    BY <1>1, ValuesTyped
  <2>2. service' = IF kind = "NETWORK_REGISTRATION_STATUS"
                   THEN [service EXCEPT ![m] = value] ELSE service
    BY DEF Notify
  <2> QED BY <2>1, <2>2 DEF NetworkTyped
<1>3. \A o \in Modems :
         /\ properties[o] = IF "NETWORK" \in objects[o]
                            THEN Hooked(kind, shown[o], value, service'[m]) ELSE shown[o]
         /\ properties[o] \in [Properties -> Shown]
         /\ properties[o]["power"] = shown[o]["power"]
  <2> SUFFICES ASSUME NEW o \in Modems
               PROVE  /\ properties[o] = IF "NETWORK" \in objects[o]
                                         THEN Hooked(kind, shown[o], value, service'[m])
                                         ELSE shown[o]
                      /\ properties[o] \in [Properties -> Shown]
                      /\ properties[o]["power"] = shown[o]["power"]
    OBVIOUS
  <2>1. properties[o] = IF "NETWORK" \in objects[o]
                        THEN Hooked(kind, shown[o], value, service'[m]) ELSE shown[o]
    BY DEF RunHooks
  <2>2. shown[o] \in [Properties -> Shown] /\ service'[m] \in Services
    BY <1>2 DEF NetworkTyped
  <2>3. /\ Hooked(kind, shown[o], value, service'[m]) \in [Properties -> Shown]
        /\ Hooked(kind, shown[o], value, service'[m])["power"] = shown[o]["power"]
    BY <1>1, <2>2, HookedShape
  <2> QED BY <2>1, <2>2, <2>3
<1>4. properties = [o \in Modems |-> properties[o]]
  BY DEF RunHooks
<1>5. /\ shown' \in [Modems -> [Properties -> Shown]]
      /\ \A o \in Modems, p \in NetworkProperties : shown'[o][p] = properties[o][p]
      /\ \A o \in Modems :
            shown'[o]["power"] =
               IF kind = "MODEM_POWER" /\ o = m /\ objects[m] # {} THEN value
               ELSE shown[o]["power"]
  <2>1. shown' = IF kind = "MODEM_POWER" /\ objects[m] # {}
                 THEN [properties EXCEPT ![m].power = value] ELSE properties
    BY DEF Notify, Dropped, Delivered
  <2>2. kind = "MODEM_POWER" => value \in Shown
    BY <1>1, ValuesTyped DEF Shown
  <2>3. "power" \in Properties /\ "power" \notin NetworkProperties
        /\ NetworkProperties \subseteq Properties
    BY DEF Properties, NetworkProperties
  <2> HIDE DEF properties
  <2> QED BY <1>3, <1>4, <2>1, <2>2, <2>3
<1>6. heard' = IF kind \in Signalled /\ SourceOf(kind) \in objects[m]
               THEN [heard EXCEPT ![m] = Signal(kind, value)] ELSE heard
  BY DEF Notify, Dropped, Delivered, Announce
<1>7. SourceOf(kind) \in core[m] /\ UNCHANGED registry
  BY DEF Notify
<1>11. /\ launching' = IF kind = "CALL_STATUS_INCOMING" /\ objects[m] # {}
                        THEN [modem |-> m, medium |-> Medium(value)] ELSE NoLaunch
       /\ launched' = launched
  BY DEF Notify, Dropped, Delivered, calls
<1> HIDE DEF properties
<1>8. \A o \in Modems, p \in NetworkProperties :
         shown'[o][p] = IF "NETWORK" \in objects[o]
                        THEN Hooked(kind, shown[o], value, service'[m])[p]
                        ELSE shown[o][p]
  BY <1>3, <1>5
<1>9. NetworkTyped'
  BY <1>2, <1>5 DEF NetworkTyped
<1>10. \A o \in Modems :
          shown'[o]["power"] =
             IF kind = "MODEM_POWER" /\ o = m /\ objects[m] # {} THEN value
             ELSE shown[o]["power"]
  BY <1>5
<1> QED BY <1>1, <1>2, <1>6, <1>7, <1>8, <1>9, <1>10, <1>11
-----------------------------------------------------------------------------
(***************************************************************************)
(* The invariant of signals and properties.                                *)
(***************************************************************************)
HasModem == \A m \in Modems : objects[m] # {} => "MODEM" \in objects[m]

SignalInv ==
    /\ heard = [m \in Modems |-> heard[m]]
    /\ \A m \in Modems :
          \/ heard[m] = Silence
          \/ /\ heard[m].kind \in Signalled
             /\ SourceOf(heard[m].kind) \in objects[m]

\* While an application is about to be started, the call it is for is the last that was
\* heard of its modem, if calls of the modem are heard of at all.
LaunchInv ==
    /\ launched \in [Modems -> Outcomes]
    /\ launching \in Launches \cup {NoLaunch}
    /\ launching # NoLaunch /\ "CALL" \in objects[launching.modem] =>
          /\ heard[launching.modem].kind = "CALL_STATUS_INCOMING"
          /\ heard[launching.modem].value = launching.medium

\* An object without the interface shows of it what it did at first.
Unhooked ==
    \A m \in Modems : \A p \in NetworkProperties :
        "NETWORK" \notin objects[m] => shown[m][p] = AtFirst(p)

\* The only network's service type is the one that its object shows, if that is not
\* the first one.
ServiceShown ==
    \A m \in Modems :
        Sole(m) /\ shown[m]["service_type"] # "UNKNOWN" =>
            shown[m]["service_type"] = service[m]

NetworkInv ==
    /\ NetworkTyped
    /\ Unhooked
    /\ PropertiesAgree
    /\ ServiceShown
    /\ NameAdmitsNoService

\* What the hooks that properties of a service, a name or a place come from set.
LEMMA HookedFacts ==
    ASSUME NEW kind, NEW value, NEW type, NEW p \in [Properties -> Shown]
    PROVE  LET q == Hooked(kind, p, value, type)
           IN  /\ kind = "NETWORK_REGISTRATION_STATUS" =>
                     /\ q["service_type"] = value
                     /\ q["network_name"] =
                           IF value \in NoServices THEN ServiceWord(value)
                           ELSE p["network_name"]
               /\ kind # "NETWORK_REGISTRATION_STATUS" =>
                     q["service_type"] = p["service_type"]
               /\ kind = "NETWORK_CHANGE" =>
                     /\ q["plmn"] = value.plmn
                     /\ q["lac"] = value.lac
                     /\ q["network_name"] =
                           IF type \in NoServices THEN ServiceWord(type) ELSE value.plmn
               /\ kind \notin {"NETWORK_REGISTRATION_STATUS", "NETWORK_CHANGE"} =>
                     q["network_name"] = p["network_name"]
               /\ kind = "NETWORK_LOCATION_CELLINFO" => q["lac"] = value
               /\ kind = "NETWORK_ICON_INFO" => q["rssi"] = value
               /\ kind \notin NetworkEvents =>
                     \A x \in {"service_type", "network_name", "plmn", "lac", "rssi"} :
                        q[x] = p[x]
<1> DEFINE q == Hooked(kind, p, value, type)
<1> USE DEF Properties, NetworkProperties
<1>1. CASE kind = "NETWORK_REGISTRATION_STATUS"
  <2>1. q = OnRegistration(p, value)
    BY <1>1 DEF Hooked
  <2> HIDE DEF Properties, NetworkProperties
  <2>2. "service_type" \in Properties /\ "network_name" \in Properties
    BY DEF Properties, NetworkProperties
  <2>3. /\ OnRegistration(p, value)["service_type"] = value
        /\ OnRegistration(p, value)["network_name"] =
              IF value \in NoServices THEN ServiceWord(value) ELSE p["network_name"]
    BY <2>2 DEF OnRegistration
  <2> QED BY <1>1, <2>1, <2>3 DEF NetworkEvents
<1>2. CASE kind = "NETWORK_CHANGE"
  <2>1. q = OnChange(p, value, type)
    BY <1>2 DEF Hooked
  <2> HIDE DEF Properties, NetworkProperties
  <2>2. /\ "service_type" \in Properties /\ "network_name" \in Properties
        /\ "plmn" \in Properties /\ "lac" \in Properties
    BY DEF Properties, NetworkProperties
  <2>3. /\ OnChange(p, value, type)["plmn"] = value.plmn
        /\ OnChange(p, value, type)["lac"] = value.lac
        /\ OnChange(p, value, type)["service_type"] = p["service_type"]
        /\ OnChange(p, value, type)["network_name"] =
              IF type \in NoServices THEN ServiceWord(type) ELSE value.plmn
    BY <2>2 DEF OnChange
  <2> QED BY <1>2, <2>1, <2>3 DEF NetworkEvents
<1>3. CASE kind = "NETWORK_LOCATION_CELLINFO"
  <2>1. q = [p EXCEPT !.lac = value]
    BY <1>3 DEF Hooked
  <2> QED BY <1>3, <2>1 DEF NetworkEvents
<1>4. CASE kind = "NETWORK_ICON_INFO"
  <2>1. q = [p EXCEPT !.rssi = value]
    BY <1>4 DEF Hooked
  <2> QED BY <1>4, <2>1 DEF NetworkEvents
<1>5. CASE kind = "PS_PROTOCOL_STATUS"
  <2>1. q = [p EXCEPT !.network_type = value]
    BY <1>5 DEF Hooked
  <2> QED BY <1>5, <2>1 DEF NetworkEvents
<1>6. CASE kind \notin {"NETWORK_REGISTRATION_STATUS", "NETWORK_CHANGE",
                        "NETWORK_LOCATION_CELLINFO", "NETWORK_ICON_INFO",
                        "PS_PROTOCOL_STATUS"}
  <2>1. q = p
    BY <1>6 DEF Hooked
  <2> QED BY <1>6, <2>1
<1> QED BY <1>1, <1>2, <1>3, <1>4, <1>5, <1>6

Rest == HasModem /\ SignalInv /\ LaunchInv /\ NetworkInv /\ ShownIsHeard

\* A step of the registry, or one that changes none of this.
LEMMA OthersKeep ==
    ASSUME RegistryInv, Rest, RegistryNext \/ UNCHANGED registry,
           UNCHANGED <<network, heard, calls>>, launching = NoLaunch \/ UNCHANGED registry
    PROVE  Rest'
<1>1. /\ \A m \in Modems : core[m] \subseteq core'[m]
      /\ \A m \in Modems :
            objects'[m] # objects[m] => objects[m] = {} /\ "MODEM" \in objects'[m]
  <2>1. CASE RegistryNext
    BY <2>1, RegistryKept
  <2>2. CASE UNCHANGED registry
    BY <2>2 DEF registry
  <2> QED BY <2>1, <2>2
<1>2. UNCHANGED <<service, shown, heard, launching, launched>>
  BY DEF network, calls
<1>3. \A m \in Modems : Sole(m)' => Sole(m)
  BY <1>1 DEF Sole
<1>4. HasModem'
  BY <1>1 DEF Rest, HasModem
<1>5. SignalInv'
  <2>1. \A m \in Modems :
           \/ heard[m] = Silence
           \/ /\ heard[m].kind \in Signalled
              /\ SourceOf(heard[m].kind) \in objects'[m]
    BY <1>1 DEF Rest, SignalInv
  <2> QED BY <1>2, <2>1 DEF Rest, SignalInv
<1>8. LaunchInv'
  BY <1>2 DEF Rest, LaunchInv, registry
<1>6. NetworkInv'
  <2>1. NetworkTyped'
    BY <1>2 DEF Rest, NetworkInv, NetworkTyped
  <2>2. Unhooked'
    BY <1>1, <1>2 DEF Rest, NetworkInv, Unhooked
  <2>3. PropertiesAgree'
    BY <1>2 DEF Rest, NetworkInv, PropertiesAgree
  <2>4. ServiceShown'
    BY <1>2, <1>3 DEF Rest, NetworkInv, ServiceShown
  <2>5. NameAdmitsNoService'
    BY <1>2, <1>3 DEF Rest, NetworkInv, NameAdmitsNoService
  <2> QED BY <2>1, <2>2, <2>3, <2>4, <2>5 DEF NetworkInv
<1>7. ShownIsHeard'
  BY <1>2, <1>3 DEF Rest, ShownIsHeard
<1> QED BY <1>4, <1>5, <1>6, <1>7, <1>8 DEF Rest

\* The end of the handler of an incoming call.
LEMMA LaunchKeeps ==
    ASSUME Rest, Launch
    PROVE  /\ Rest'
           /\ \A m \in Modems :
                 launched'[m] # launched[m] /\ "CALL" \in objects[m] =>
                     /\ heard[m].kind = "CALL_STATUS_INCOMING"
                     /\ launched'[m] \in {heard[m].value, "FAILED"}
<1>1. PICK outcome \in {launching.medium, "FAILED"} :
         launched' = [launched EXCEPT ![launching.modem] = outcome]
  BY DEF Launch
<1>2. /\ launching # NoLaunch /\ launching' = NoLaunch
      /\ launching \in Launches
      /\ UNCHANGED <<core, hal, manager, ran, objects, service, shown, heard>>
  BY DEF Launch, registry, network, Rest, LaunchInv
<1>3. launching.modem \in Modems /\ outcome \in Outcomes
  BY <1>1, <1>2 DEF Launches, Outcomes
<1>4. LaunchInv'
  BY <1>1, <1>2, <1>3 DEF Rest, LaunchInv
<1>5. HasModem' /\ SignalInv' /\ NetworkInv' /\ ShownIsHeard'
  BY <1>2 DEF Rest, HasModem, SignalInv, NetworkInv, NetworkTyped, Unhooked,
              PropertiesAgree, ServiceShown, NameAdmitsNoService, ShownIsHeard, Sole
<1>6. ASSUME NEW m \in Modems, launched'[m] # launched[m], "CALL" \in objects[m]
      PROVE  /\ heard[m].kind = "CALL_STATUS_INCOMING"
             /\ launched'[m] \in {heard[m].value, "FAILED"}
  <2>1. m = launching.modem /\ launched'[m] = outcome
    BY <1>1, <1>6 DEF Rest, LaunchInv
  <2> QED BY <1>1, <1>2, <1>6, <2>1 DEF Rest, LaunchInv
<1> QED BY <1>4, <1>5, <1>6 DEF Rest

\* A notification of modem m's.
LEMMA NotifyKeeps ==
    ASSUME RegistryInv, Rest, NEW m \in Modems, NEW kind \in Kinds,
           NEW value \in Values[kind], Notify(m, kind, value)
    PROVE  Rest'
<1>1. NetworkTyped
  BY DEF Rest, NetworkInv
<1>2. /\ NetworkTyped'
      /\ value \in ValuesOf(kind)
      /\ kind = "NETWORK_REGISTRATION_STATUS" => service'[m] = value
      /\ \A o \in Modems :
            o # m \/ kind # "NETWORK_REGISTRATION_STATUS" => service'[o] = service[o]
  BY <1>1, NotifyShape
<1>3. \A o \in Modems, p \in NetworkProperties :
         shown'[o][p] = IF "NETWORK" \in objects[o]
                        THEN Hooked(kind, shown[o], value, service'[m])[p]
                        ELSE shown[o][p]
  BY <1>1, NotifyShape
<1>4. \A o \in Modems :
         shown'[o]["power"] =
            IF kind = "MODEM_POWER" /\ o = m /\ objects[m] # {} THEN value
            ELSE shown[o]["power"]
  BY <1>1, NotifyShape
<1>5. /\ heard' = IF kind \in Signalled /\ SourceOf(kind) \in objects[m]
                  THEN [heard EXCEPT ![m] = Signal(kind, value)] ELSE heard
      /\ launching' = IF kind = "CALL_STATUS_INCOMING" /\ objects[m] # {}
                      THEN [modem |-> m, medium |-> Medium(value)] ELSE NoLaunch
      /\ launched' = launched
  BY <1>1, NotifyShape
<1>6. SourceOf(kind) \in core[m] /\ UNCHANGED <<core, objects>>
  <2>1. SourceOf(kind) \in core[m] /\ UNCHANGED registry
    BY <1>1, NotifyShape
  <2> QED BY <2>1 DEF registry
<1>7. \A o \in Modems : Sole(o)' <=> Sole(o)
  BY <1>6 DEF Sole
<1>8. \A o \in Modems : kind \in NetworkEvents /\ Sole(o) => o = m
  BY <1>6, Sources DEF Sole
<1>9. HasModem'
  BY <1>6 DEF Rest, HasModem
<1>10. SignalInv'
  <2>1. heard' = [o \in Modems |-> heard'[o]]
    BY <1>5 DEF Rest, SignalInv
  <2>2. \A o \in Modems :
           \/ heard'[o] = Silence
           \/ /\ heard'[o].kind \in Signalled
              /\ SourceOf(heard'[o].kind) \in objects'[o]
    <3> SUFFICES ASSUME NEW o \in Modems
                 PROVE  \/ heard'[o] = Silence
                        \/ /\ heard'[o].kind \in Signalled
                           /\ SourceOf(heard'[o].kind) \in objects'[o]
      OBVIOUS
    <3>1. CASE heard'[o] = heard[o]
      BY <3>1, <1>6 DEF Rest, SignalInv
    <3>2. CASE heard'[o] # heard[o]
      <4>1. /\ o = m
            /\ kind \in Signalled /\ SourceOf(kind) \in objects[m]
            /\ heard'[o] = Signal(kind, value)
        BY <3>2, <1>5 DEF Rest, SignalInv
      <4>2. Signal(kind, value).kind = kind
        BY DEF Signal
      <4> QED BY <4>1, <4>2, <1>6
    <3> QED BY <3>1, <3>2
  <2> QED BY <2>1, <2>2 DEF SignalInv
<1>16. LaunchInv'
  <2>1. CASE kind = "CALL_STATUS_INCOMING" /\ objects[m] # {}
    <3>1. launching' = [modem |-> m, medium |-> Medium(value)]
      BY <1>5, <2>1
    <3>2. launching' \in Launches
      BY <3>1 DEF Launches, Medium
    <3>3. launching'.modem = m /\ launching'.medium = Medium(value)
      BY <3>1
    <3>4. ASSUME "CALL" \in objects'[m]
          PROVE  /\ heard'[m].kind = "CALL_STATUS_INCOMING"
                 /\ heard'[m].value = Medium(value)
      <4>1. "CALL_STATUS_INCOMING" \in Signalled
        BY DEF Signalled, CallStatuses
      <4>2. heard'[m] = Signal(kind, value)
        BY <1>5, <1>6, <2>1, <3>4, <4>1, Sources DEF Rest, SignalInv
      <4>3. Carried("CALL_STATUS_INCOMING", value) = Medium(value)
        BY DEF Carried, CallStatuses
      <4> QED BY <2>1, <4>2, <4>3 DEF Signal
    <3> QED BY <1>5, <3>2, <3>3, <3>4 DEF Rest, LaunchInv
  <2>2. CASE ~(kind = "CALL_STATUS_INCOMING" /\ objects[m] # {})
    BY <1>5, <2>2 DEF Rest, LaunchInv
  <2> QED BY <2>1, <2>2
<1>11. \A o \in Modems : shown[o] \in [Properties -> Shown]
  BY <1>1 DEF NetworkTyped
<1>12. service'[m] \in Services
  BY <1>2 DEF NetworkTyped
<1>13. \A x \in {"service_type", "network_name", "plmn", "lac", "rssi"} :
          x \in NetworkProperties
  BY DEF NetworkProperties
<1>14. NetworkInv'
  <2>1. Unhooked'
    BY <1>3, <1>6 DEF Rest, NetworkInv, Unhooked
  <2>2. PropertiesAgree'
    <3> SUFFICES ASSUME NEW a \in Modems, NEW b \in Modems, NEW x \in NetworkProperties,
                        shown'[a][x] # AtFirst(x), shown'[b][x] # AtFirst(x)
                 PROVE  shown'[a][x] = shown'[b][x]
      BY DEF PropertiesAgree
    <3>1. \A o \in Modems : "NETWORK" \notin objects[o] => shown'[o][x] = AtFirst(x)
      BY <2>1, <1>6 DEF Unhooked
    <3>2. "NETWORK" \in objects[a] /\ "NETWORK" \in objects[b]
      BY <3>1
    <3>3. \/ shown'[a][x] = shown[a][x] /\ shown'[b][x] = shown[b][x]
          \/ shown'[a][x] = shown'[b][x]
      BY <1>2, <1>3, <1>11, <1>12, <3>2, HookedShape
    <3> QED BY <3>3 DEF Rest, NetworkInv, PropertiesAgree
  <2>3. ASSUME NEW o \in Modems, Sole(o), "NETWORK" \in objects[o]
        PROVE  LET q == Hooked(kind, shown[o], value, service'[m])
               IN  /\ kind = "NETWORK_REGISTRATION_STATUS" =>
                         /\ shown'[o]["service_type"] = value
                         /\ service'[o] = value
                         /\ shown'[o]["network_name"] =
                               IF value \in NoServices THEN ServiceWord(value)
                               ELSE shown[o]["network_name"]
                   /\ kind = "NETWORK_CHANGE" =>
                         /\ shown'[o]["network_name"] =
                               IF service[o] \in NoServices THEN ServiceWord(service[o])
                               ELSE value.plmn
                   /\ kind # "NETWORK_REGISTRATION_STATUS" =>
                         /\ shown'[o]["service_type"] = shown[o]["service_type"]
                         /\ service'[o] = service[o]
                   /\ kind \notin {"NETWORK_REGISTRATION_STATUS", "NETWORK_CHANGE"} =>
                         shown'[o]["network_name"] = shown[o]["network_name"]
    <3>1. kind \in {"NETWORK_REGISTRATION_STATUS", "NETWORK_CHANGE"} => o = m
      BY <1>8, <2>3 DEF NetworkEvents
    <3>2. \A x \in {"service_type", "network_name"} :
             shown'[o][x] = Hooked(kind, shown[o], value, service'[m])[x]
      BY <1>3, <1>13, <2>3
    <3>3. kind # "NETWORK_REGISTRATION_STATUS" => service'[o] = service[o]
      BY <1>2
    <3>4. kind = "NETWORK_REGISTRATION_STATUS" =>
             /\ shown'[o]["service_type"] = value
             /\ service'[o] = value
             /\ shown'[o]["network_name"] =
                   IF value \in NoServices THEN ServiceWord(value)
                   ELSE shown[o]["network_name"]
      BY <1>2, <1>11, <3>1, <3>2, HookedFacts
    <3>5. kind = "NETWORK_CHANGE" =>
             shown'[o]["network_name"] =
                IF service[o] \in NoServices THEN ServiceWord(service[o]) ELSE value.plmn
      BY <1>11, <3>1, <3>2, <3>3, HookedFacts
    <3>6. kind # "NETWORK_REGISTRATION_STATUS" =>
             shown'[o]["service_type"] = shown[o]["service_type"]
      BY <1>11, <3>2, HookedFacts
    <3>7. kind \notin {"NETWORK_REGISTRATION_STATUS", "NETWORK_CHANGE"} =>
             shown'[o]["network_name"] = shown[o]["network_name"]
      BY <1>11, <3>2, HookedFacts
    <3> QED BY <3>3, <3>4, <3>5, <3>6, <3>7
  <2>4. ASSUME NEW o \in Modems, "NETWORK" \notin objects[o]
        PROVE  shown'[o]["service_type"] = "UNKNOWN"
    BY <1>6, <1>13, <2>1, <2>4 DEF Unhooked, AtFirst
  <2>5. ServiceShown'
    <3> SUFFICES ASSUME NEW o \in Modems, Sole(o), shown'[o]["service_type"] # "UNKNOWN"
                 PROVE  shown'[o]["service_type"] = service'[o]
      BY <1>7 DEF ServiceShown
    <3>1. "NETWORK" \in objects[o]
      BY <2>4
    <3>2. CASE kind = "NETWORK_REGISTRATION_STATUS"
      BY <2>3, <3>1, <3>2
    <3>3. CASE kind # "NETWORK_REGISTRATION_STATUS"
      BY <2>3, <3>1, <3>3 DEF Rest, NetworkInv, ServiceShown
    <3> QED BY <3>2, <3>3
  <2>6. NameAdmitsNoService'
    <3> SUFFICES ASSUME NEW o \in Modems, Sole(o),
                        shown'[o].service_type \in NoServices \ {"UNKNOWN"}
                 PROVE  shown'[o].network_name = ServiceWord(shown'[o].service_type)
      BY <1>7 DEF NameAdmitsNoService
    <3>1. "NETWORK" \in objects[o]
      BY <2>4 DEF NoServices
    <3>2. CASE kind = "NETWORK_REGISTRATION_STATUS"
      BY <2>3, <3>1, <3>2
    <3>3. CASE kind = "NETWORK_CHANGE"
      <4>1. shown[o].service_type \in NoServices /\ shown[o].service_type # "UNKNOWN"
            /\ shown'[o].service_type = shown[o].service_type
        BY <2>3, <3>1, <3>3 DEF NoServices
      <4>2. shown[o].service_type = service[o]
        BY <4>1 DEF Rest, NetworkInv, ServiceShown
      <4> QED BY <2>3, <3>1, <3>3, <4>1, <4>2
    <3>4. CASE kind \notin {"NETWORK_REGISTRATION_STATUS", "NETWORK_CHANGE"}
      BY <2>3, <3>1, <3>4 DEF Rest, NetworkInv, NameAdmitsNoService
    <3> QED BY <3>2, <3>3, <3>4
  <2> QED BY <1>2, <2>1, <2>2, <2>5, <2>6 DEF NetworkInv
<1>15. ShownIsHeard'
  <2> SUFFICES ASSUME NEW o \in Modems
               PROVE  /\ heard'[o].kind = "MODEM_POWER" =>
                            shown'[o].power = heard'[o].value
                      /\ heard'[o].kind = "NETWORK_REGISTRATION_STATUS" /\ Sole(o) =>
                            shown'[o].service_type = heard'[o].value
                      /\ heard'[o].kind = "NETWORK_CHANGE" /\ Sole(o) =>
                            /\ shown'[o].plmn = heard'[o].value.plmn
                            /\ shown'[o].lac = heard'[o].value.lac
                      /\ heard'[o].kind = "NETWORK_LOCATION_CELLINFO" /\ Sole(o) =>
                            shown'[o].lac = heard'[o].value
                      /\ heard'[o].kind = "NETWORK_ICON_INFO" /\ Sole(o) =>
                            shown'[o].rssi = heard'[o].value
    BY <1>7 DEF ShownIsHeard
  <2>1. CASE o = m /\ kind \in Signalled /\ SourceOf(kind) \in objects[m]
    <3>1. heard'[o].kind = kind /\ heard'[o].value = Carried(kind, value)
      BY <2>1, <1>5 DEF Rest, SignalInv, Signal
    <3>2. kind \notin CallStatuses => Carried(kind, value) = value
      BY DEF Carried, CallStatuses
    <3>3. kind \in NetworkEvents \cup {"MODEM_POWER"} => kind \notin CallStatuses
      BY DEF NetworkEvents, CallStatuses
    <3>4. kind = "MODEM_POWER" => shown'[o].power = value
      BY <1>4, <2>1
    <3>5. ASSUME kind \in NetworkEvents
          PROVE  \A x \in {"service_type", "network_name", "plmn", "lac", "rssi"} :
                    shown'[o][x] = Hooked(kind, shown[o], value, service'[m])[x]
      BY <1>3, <1>13, <2>1, <3>5, Sources
    <3>6. /\ kind = "NETWORK_REGISTRATION_STATUS" => shown'[o]["service_type"] = value
          /\ kind = "NETWORK_CHANGE" =>
                shown'[o]["plmn"] = value.plmn /\ shown'[o]["lac"] = value.lac
          /\ kind = "NETWORK_LOCATION_CELLINFO" => shown'[o]["lac"] = value
          /\ kind = "NETWORK_ICON_INFO" => shown'[o]["rssi"] = value
      BY <1>11, <3>5, HookedFacts DEF NetworkEvents
    <3>7. /\ heard'[o].kind = "MODEM_POWER" \/ heard'[o].kind \in NetworkEvents =>
                heard'[o].value = value
      BY <3>1, <3>2, <3>3
    <3> QED BY <3>1, <3>4, <3>6, <3>7 DEF NetworkEvents
  <2>2. CASE ~(o = m /\ kind \in Signalled /\ SourceOf(kind) \in objects[m])
    <3>1. heard'[o] = heard[o]
      BY <2>2, <1>5 DEF Rest, SignalInv
    <3>2. heard[o].kind = "MODEM_POWER" => shown'[o]["power"] = shown[o]["power"]
      <4>1. kind = "MODEM_POWER" /\ o = m => objects[m] = {}
        <5>1. kind = "MODEM_POWER" => kind \in Signalled /\ SourceOf(kind) = "MODEM"
          BY Sources DEF Signalled, ModemEvents
        <5> QED BY <5>1, <2>2 DEF Rest, HasModem
      <4> QED BY <4>1, <1>4
    <3>3. ASSUME Sole(o), heard[o].kind \in NetworkEvents
          PROVE  \A x \in {"service_type", "network_name", "plmn", "lac", "rssi"} :
                    shown'[o][x] = shown[o][x]
      <4>1. "NETWORK" \in objects[o]
        <5>1. heard[o] # Silence
          BY <3>3 DEF Silence, NetworkEvents
        <5> QED BY <5>1, <3>3, Sources DEF Rest, SignalInv
      <4>2. kind \notin NetworkEvents
        <5>1. kind \in NetworkEvents =>
                 o = m /\ kind \in Signalled /\ SourceOf(kind) = "NETWORK"
          BY <1>8, <3>3, Sources DEF Signalled
        <5> QED BY <5>1, <4>1, <2>2
      <4>3. \A x \in {"service_type", "network_name", "plmn", "lac", "rssi"} :
               Hooked(kind, shown[o], value, service'[m])[x] = shown[o][x]
        BY <1>11, <4>2, HookedFacts
      <4> QED BY <1>3, <1>13, <4>1, <4>3
    <3>4. /\ "NETWORK_REGISTRATION_STATUS" \in NetworkEvents
          /\ "NETWORK_CHANGE" \in NetworkEvents
          /\ "NETWORK_LOCATION_CELLINFO" \in NetworkEvents
          /\ "NETWORK_ICON_INFO" \in NetworkEvents
      BY DEF NetworkEvents
    <3> QED BY <3>1, <3>2, <3>3, <3>4 DEF Rest, ShownIsHeard
  <2> QED BY <2>1, <2>2
<1> QED BY <1>9, <1>10, <1>14, <1>15, <1>16 DEF Rest

IInv == RegistryInv /\ EmergencyInv /\ Rest

\* At the start nobody has heard anything and nothing is set.
LEMMA RestAtStart == Init => Rest
<1> SUFFICES ASSUME Init PROVE Rest
  OBVIOUS
<1>1. /\ objects = [m \in Modems |-> {}]
      /\ service = [m \in Modems |-> "UNKNOWN"]
      /\ shown = [m \in Modems |-> NothingSet]
      /\ heard = [m \in Modems |-> Silence]
      /\ launching = NoLaunch
      /\ launched = [m \in Modems |-> "NONE"]
  BY DEF Init, RegistryInit
<1>2. \A m \in Modems : \A p \in Properties : shown[m][p] = AtFirst(p)
  BY <1>1 DEF NothingSet
<1>3. \A p \in NetworkProperties : p \in Properties
  BY DEF Properties
<1>4. NetworkTyped
  <2>1. NothingSet \in [Properties -> Shown]
    BY DEF NothingSet, AtFirst, Shown, Services, NoServices
  <2>2. "UNKNOWN" \in Services
    BY DEF Services, NoServices
  <2> QED BY <1>1, <2>1, <2>2 DEF NetworkTyped
<1>5. NetworkInv
  <2>1. Unhooked /\ PropertiesAgree
    BY <1>2, <1>3 DEF Unhooked, PropertiesAgree
  <2>2. "service_type" \in Properties
    BY DEF Properties, NetworkProperties
  <2>3. ServiceShown
    BY <1>2, <2>2 DEF ServiceShown, AtFirst
  <2>4. NameAdmitsNoService
    BY <1>2, <2>2 DEF NameAdmitsNoService, AtFirst
  <2> QED BY <1>4, <2>1, <2>3, <2>4 DEF NetworkInv
<1>6. SignalInv /\ LaunchInv
  BY <1>1 DEF SignalInv, LaunchInv, Outcomes
<1>7. ShownIsHeard
  BY <1>1 DEF ShownIsHeard, Silence
<1> QED BY <1>1, <1>5, <1>6, <1>7 DEF Rest, HasModem

\* Every state has the invariant: the registry's, that of the emergency numbers, and
\* that of signals and properties, which needs the registry's.
THEOREM InvariantHolds == Spec => []IInv
<1>1. RegistryInv /\ Rest /\ [Next]_vars => Rest'
  <2> SUFFICES ASSUME RegistryInv, Rest, [Next]_vars PROVE Rest'
    OBVIOUS
  <2>1. CASE RegistryStep
    BY <2>1, OthersKeep DEF RegistryStep
  <2>2. CASE SomeEccResponse
    <3>1. UNCHANGED registry /\ UNCHANGED <<network, heard, calls>>
      BY <2>2 DEF SomeEccResponse, EccResponse
    <3> QED BY <3>1, OthersKeep
  <2>3. ASSUME NEW m \in Modems, SomeNotification(m) PROVE Rest'
    <3>1. PICK kind \in Kinds : \E value \in Values[kind] : Notify(m, kind, value)
      BY <2>3 DEF SomeNotification
    <3>2. PICK value \in Values[kind] : Notify(m, kind, value)
      BY <3>1
    <3> QED BY <3>2, NotifyKeeps
  <2>4. CASE UNCHANGED vars
    <3>1. UNCHANGED registry /\ UNCHANGED <<network, heard, calls>>
      BY <2>4 DEF vars
    <3> QED BY <3>1, OthersKeep
  <2>5. CASE Launch
    BY <2>5, LaunchKeeps
  <2> QED BY <2>1, <2>2, <2>3, <2>4, <2>5 DEF Next
<1> QED BY <1>1, RestAtStart, RegistryHolds, EmergencyHolds, PTL DEF Spec, IInv

\* Variables have their types; in particular signals are of kinds that have one.
THEOREM TypeCorrect == Spec => []TypeOK
<1>1. IInv => TypeOK
  <2>1. ASSUME SignalInv
        PROVE  \A m \in Modems : heard[m] = Silence \/ heard[m].kind \in Signalled
    BY <2>1 DEF SignalInv
  <2>2. EmergencyInv => ecc \in EccLists
    BY DefaultAssumption DEF EmergencyInv, EmergencyListIsDefaults, EccLists
  <2> QED BY <2>1, <2>2
          DEF IInv, Rest, RegistryInv, EmergencyInv, SignalInv, LaunchInv, NetworkInv,
              NetworkTyped, TypeOK
<1> QED BY <1>1, InvariantHolds, PTL

\* Who listens to a modem's calls has heard of a call, as one of the same medium, when
\* its application is started: the signal goes out before, and nothing else in between
\* (call.c).
THEOREM ApplicationHeardOf == Spec => ApplicationFollowsSignal
<1>1. IInv /\ [Next]_vars =>
        [ \A m \in Modems :
            launched'[m] # launched[m] /\ "CALL" \in objects[m] =>
                /\ heard[m].kind = "CALL_STATUS_INCOMING"
                /\ launched'[m] \in {heard[m].value, "FAILED"} ]_vars
  <2>1. ASSUME IInv, Launch
        PROVE  \A m \in Modems :
                  launched'[m] # launched[m] /\ "CALL" \in objects[m] =>
                      /\ heard[m].kind = "CALL_STATUS_INCOMING"
                      /\ launched'[m] \in {heard[m].value, "FAILED"}
    BY <2>1, LaunchKeeps DEF IInv
  <2>2. ASSUME Next, ~Launch PROVE launched' = launched
    BY <2>2 DEF Next, RegistryStep, SomeNotification, Notify, Dropped, Delivered,
                SomeEccResponse, EccResponse, calls
  <2> QED BY <2>1, <2>2
<1> QED BY <1>1, InvariantHolds, PTL DEF Spec, ApplicationFollowsSignal

\* A client that compares an object's last signal with its properties finds that they
\* agree, for the network if there is one only.
THEOREM SignalsAndPropertiesAgree == Spec => []ShownIsHeard
<1>1. IInv => ShownIsHeard
  BY DEF IInv, Rest
<1> QED BY <1>1, InvariantHolds, PTL

\* With any number of modems the network properties of all are one and the same: the
\* hooks of network.c do not look at the source.
THEOREM PropertiesOfAllModems == Spec => []PropertiesAgree
<1>1. IInv => PropertiesAgree
  BY DEF IInv, Rest, NetworkInv
<1> QED BY <1>1, InvariantHolds, PTL

\* With one network, the name that is shown admits that there is no service, from the
\* registration that says so on.
THEOREM NameIsHonest == Spec => []NameAdmitsNoService
<1>1. IInv => NameAdmitsNoService
  BY DEF IInv, Rest, NetworkInv
<1> QED BY <1>1, InvariantHolds, PTL
=============================================================================
