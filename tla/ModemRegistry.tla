------------------------------ MODULE ModemRegistry ------------------------------
(***************************************************************************)
(* Which modems have an object on the bus (desc-dbus.c).  The object of a  *)
(* modem plugin is made at one of two moments, when the daemon has started *)
(* its plugins and when the bus has been acquired, in either order; it has *)
(* the interfaces of the core objects that the plugin has at that moment.  *)
(***************************************************************************)
EXTENDS FiniteSets, Notifications

CONSTANTS
    Modems,         \* the modem plugins
    Equipment       \* the sets of core objects that a plugin may have

Interfaces == CoreTypes \ {"PS"}

ASSUME EquipmentAssumption == Equipment \subseteq SUBSET CoreTypes /\ {} \in Equipment

VARIABLES
    core,           \* modem -> types of the core objects it has made
    hal,            \* modems whose modem core object has a HAL
    manager,        \* the object manager has been made
    ran,            \* TNOTI_SERVER_RUN has been raised
    objects         \* modem -> interfaces of its object, {} for none

registry == <<core, hal, manager, ran, objects>>

RegistryTypeOK ==
    /\ core \in [Modems -> Equipment]
    /\ hal \subseteq Modems
    /\ manager \in BOOLEAN
    /\ ran \in BOOLEAN
    /\ objects \in [Modems -> SUBSET Interfaces]

RegistryInit ==
    /\ core = [m \in Modems |-> {}]
    /\ hal = {}
    /\ manager = FALSE
    /\ ran = FALSE
    /\ objects = [m \in Modems |-> {}]

\* The plugins that are modems: GetModems answers with their names.
Usable(m) == "MODEM" \in core[m] /\ m \in hal
Listed == {m \in Modems : Usable(m)}

\* The object made for m: the modem interface is there in any case.
NewObject(m) == {"MODEM"} \cup (core[m] \cap Interfaces)
-----------------------------------------------------------------------------
\* Variant: modems without a HAL are not passed over.
RefreshAll ==
    objects' = [m \in Modems |->
        IF "MODEM" \in core[m] /\ objects[m] = {} THEN NewObject(m) ELSE objects[m]]

\* An object for every modem that has none.
Refresh ==
    objects' = [m \in Modems |->
        IF Usable(m) /\ objects[m] = {} THEN NewObject(m) ELSE objects[m]]

\* The daemon has started its plugins.
ServerRun ==
    /\ ~ran
    /\ ran' = TRUE
    /\ IF manager THEN Refresh ELSE UNCHANGED objects
    /\ UNCHANGED <<core, hal, manager>>

\* Variant: the modems that have come before the bus are forgotten.
AcquiredForLater ==
    /\ ~manager
    /\ manager' = TRUE
    /\ UNCHANGED <<core, hal, ran, objects>>

\* The connection to the bus is there.
BusAcquired ==
    /\ ~manager
    /\ manager' = TRUE
    /\ Refresh
    /\ UNCHANGED <<core, hal, ran>>

\* A modem plugin makes core objects, at any time.
CoreObjectsMade(m, types) ==
    /\ core[m] \subseteq types /\ core[m] # types
    /\ core' = [core EXCEPT ![m] = types]
    /\ UNCHANGED <<hal, manager, ran, objects>>

\* It links its modem core object to a HAL.
HalLinked(m) ==
    /\ "MODEM" \in core[m]
    /\ m \notin hal
    /\ hal' = hal \cup {m}
    /\ UNCHANGED <<core, manager, ran, objects>>

RegistryNext ==
    \/ ServerRun
    \/ BusAcquired
    \/ \E m \in Modems :
          HalLinked(m) \/ \E types \in Equipment : CoreObjectsMade(m, types)
-----------------------------------------------------------------------------
\* An object is on the bus only if the manager is there and GetModems tells of its
\* modem, and has no interface whose handlers would look in vain for a core object.
ObjectsAreBacked ==
    \A m \in Modems :
        objects[m] # {} =>
            /\ manager
            /\ m \in Listed
            /\ objects[m] \subseteq core[m]

\* Plugins and bus may come in either order: with the later one, every modem that
\* GetModems tells of has its object, with all the modem's interfaces unless it was
\* made at the earlier one.
Started == manager /\ ran
StartServesAll ==
    [][ Started' /\ ~Started =>
            \A m \in Listed :
                /\ objects'[m] # {}
                /\ objects[m] = {} => objects'[m] = core[m] \cap Interfaces ]_registry
=============================================================================
