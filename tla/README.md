# Verification of tel-plugin-dbus_tapi

The D-Bus front end of the Tizen telephony daemon, as TLA+ modules that TLC
checks and theorems that TLAPS proves. Paths are relative to the repository's
parent: the C files are in `src/src/`, the D-Bus interface descriptions in
`src/introspection/`.

## 1. The system

The plugin is loaded into the daemon's process. Everything it does runs in
callbacks of one glib main loop, so a handler is atomic and handlers interleave.
They are entered by

* a method call of a D-Bus client (`on_*` in `call.c`, `sms.c`, ...);
* the answer of a modem plugin to a request (`send_response` in `desc-dbus.c`,
  then `dbus_plugin_*_response`);
* an event of a modem plugin (`send_notification`, then
  `dbus_plugin_*_notification`), or a hook on a core object (`network.c`);
* the arrival of a modem (`add_modem`), the acquisition of the bus
  (`on_bus_acquired`), loading and unloading.

`libtcore`, the modem plugins, `aul` and the `sat-ui` application are external.
One `struct custom_data` (`common.h:15-29`) holds the plugin's state, **for all
modems together**: the table of exported objects, the object manager, the SAT
command queue, the cached SAT main menu, the cached emergency call list and the
"first status" flag.

### Inventory

| Component | State | Operations | What is hard, what makes it correct |
|---|---|---|---|
| SAT command queue (`sat_manager.c` 54-160) | `ctx->queue_sat`, a `GQueue` used as an array | push, pop, peek by position, init | an id is a position and goes stale at every removal; the limit; a pop out of range |
| SAT proactive command handlers (`sat_manager.c` 160-4640) | none of their own | 23 `*_noti`, 17 `*_result`, 8 `*_confirm`, 8 `*_ui_display_status` | one terminal response per command, of the right command, with the result the client meant |
| SAT D-Bus interface (`sat.c`) | cached main menu | notification dispatch, three methods that answer a command, menu query, SelectMenu, DownloadEvent | commands of several cards in one queue, late answers, a session that ends in between |
| sat-ui support (`sat_ui_support/`) | none (an external process) | launch, terminate | the screen may be gone or have answered before |
| Plugin core and modem registry (`desc-dbus.c`) | object table, manager, bus name | add modem, refresh object, response and notification routing, bus acquired, unload | modems before or after the bus; callbacks after unload |
| Request and response lifecycle (`common.c`, all interfaces) | one `UserRequest` per pending invocation, owned by the core | make, dispatch, complete | every invocation is completed exactly once, also when the dispatch or the response fails |
| Call interface (`call.c`) | none (calls live in the core) | 22 methods, 11 notifications, start of the call applications | responses look for another interface's core object; a call that comes too early |
| Modem interface (`modem.c`) | the power property | 6 methods, 3 notifications | the result of a power mode is made up |
| Network interface (`network.c`) | the network properties of every object | 13 methods, 6 notifications, 5 hooks | hooks are registered once per modem and not told apart; the name depends on two sources |
| SIM interface (`sim.c`) | cached emergency numbers, "first status" flag | 25 methods, 1 notification | one list for all modems, asked for once; lock types translated by hand, both ways |
| SMS, SS, SAP, phonebook interfaces | none | 18, 14, 8 and 7 methods, their notifications | a dispatch that fails and is not reported; responses that are dropped |
| SAT text conversion (`sat_util.c`) | none | GSM 7-bit and UCS2 to UTF-8 | truncated escapes, lengths |
| Packaging, introspection, type headers | none | none | not programs |

How the parts interact in the SAT component, which carries most of the plugin's
own logic (two fifths of its lines): a card sends a proactive command through its
modem; the modem plugin raises a notification; the handler refuses it (terminal
response at once), drops it, or queues it under an id and announces the id, to
sat-ui by launching it or to the applications by a signal. A client calls
`SendUserConfirm`, `SendUiDisplayStatus` or `SendAppExecResult` with the id;
the handler removes the command at that position, and dispatches a terminal
response to the modem **of the object that was called**. Sat-ui is not told
which modem a command came through.

In the rest of the plugin a method makes a user request that carries the D-Bus
invocation, hands it to the core, and returns; the modem's answer comes back to
`send_response`, whose handler completes the invocation. Which failures are
reported on the way, and how, differs from interface to interface. In the other
direction `send_notification` looks up the object of the modem that raised an
event and has the interface's handler send a signal on it; the five network
events also run hooks, which the core calls before the communicator.

## 2. The modules

| Module | Models |
|---|---|
| `SatQueue` | the queue's operations as operators on a sequence |
| `SatCommands` | the tables of the handlers: intake, announcement, and the result of every answer |
| `SatManager` | the state and its handlers, with unconstrained cards and clients; the safety properties |
| `ProactiveCommand` | what a card may rely on: abstract specification |
| `SatDialogue` | `SatManager` with the partners the handlers are written for; fairness |
| `MCSatManager`, `MCSatDialogue` | the sets of commands the runs use |
| `Requests` | the methods of all interfaces: failure handling, arguments, which response completes them |
| `RequestBroker` | the life of a D-Bus call from the handler to the reply |
| `Invocation` | what a caller may rely on: abstract specification |
| `Notifications` | the events of a modem, their signals and values |
| `ModemRegistry` | which modems have an object on the bus, with which interfaces |
| `PluginCore` | `ModemRegistry` composed with what events do: signals, properties, call applications, emergency numbers |
| `MCRequestBroker`, `MCPluginCore` | the methods, events and modems the runs use |
| `SatQueueProofs`, `SatCommandsProofs` | lemmas about the operators |
| `SatManagerProofs`, `SatPromisesProofs`, `SatRefinementProofs` | theorems: the inductive invariant; what callers and users may rely on; the refinement |
| `SatDialogueProofs` | theorems: what holds if partners behave, for one modem and for several |
| `RequestBrokerProofs`, `PluginCoreProofs` | theorems about requests; about objects, signals, properties and emergency numbers |

The SAT modules take a modem's object as present; what makes it so is in
`ModemRegistry`. SelectMenu and DownloadEvent are requests that leave the SAT
queue alone and are in `Requests`.

### The SAT modules: state

| Variable | In the code |
|---|---|
| `queue` | `ctx->queue_sat`; an entry is `struct sat_manager_queue_data` |
| `menu` | `ctx->cached_sat_main_menu`: `{}` for NULL, or the command it came in |
| `told` | no state of the plugin: the announcements clients have and have not answered |
| `clock` | no state of the plugin: numbers the times a command was received or queued again |
| `answers`, `sent` | requests `TREQ_SAT_REQ_TERMINALRESPONSE` handed to the modem: per command, and of the last step |
| `reply` | the result the D-Bus caller got in the last step |
| `crashed` | the process has dereferenced NULL |

A command carries its `no` and `modem`. The code stores neither (it keeps the TLV
and the id): they identify the command in properties and decide nothing. The
same is true of an entry's `ticket`.

### The SAT modules: actions

| Action | Handler |
|---|---|
| `ReceiveUnqueued`, `ReceiveQueued`, `ReceiveMenu` | `dbus_plugin_sat_notification` for a proactive command, with its `*_noti`, `sat_manager_enqueue_cmd`, the launch of sat-ui or the signal; for a menu also the plugin's own call of `sat_manager_handle_app_exec_result` |
| `SessionEnd` | the same for `TNOTI_SAT_SESSION_END` |
| `SendAppExecResult` | `on_sat_send_app_exec_result` and the 17 `*_result` handlers |
| `SendUserConfirm` | `on_sat_send_user_confirm` and the 8 `*_confirm` handlers |
| `SendUiDisplayStatus` | `on_sat_send_display_status` and the 8 handlers |
| `GetMainMenuInfo` | `on_sat_get_main_menu_info` |

Points where the model follows the code closely:

* the id is the length of the queue *before* the push, whether or not the push
  succeeds, and no caller looks at the push's result;
* `_push_data` lets in `SAT_DEF_CMD_Q_MAX - 1` entries;
* `_pop_nth_data` catches the empty queue only; a position behind the end pops
  NULL, which is copied from (`Crash`);
* an application result is handled by the handler of the type **the caller
  names**, a confirmation by that of the type **found at the id**. When the named
  type is another one, its handler reads another member of the union: the icon's
  coding scheme it sees is then any value (`ColourSeen`);
* a display status removes the command before it looks at its type; a
  confirmation leaves a command whose type has no case;
* results that are never assigned are the zero that `calloc` left, and zero is
  `RESULT_SUCCESS`;
* a terminal response that cannot be dispatched is not tried again, and only
  some of the handlers tell the caller.

What is abstracted: the contents of a TLV to the flags that decide something;
the fields of a terminal response other than its result; texts, signal
arguments, logging. Terminating sat-ui may take any of its screens away, since it
is a request to another process. The caller of `SendAppExecResult` names
the type of the command it was told of; other argument values are not modelled.

### Requests

| Variable of `RequestBroker` | In the code |
|---|---|
| `objects` | the core objects of a modem plugin; it has an interface for each |
| `calls` | the invocation: method, called object, the argument that decides something |
| `pending` | the user requests that the core carries, each with its `struct dbus_request_info` |
| `replies` | no state of the plugin: what the caller has got |
| `crashed` | the process has dereferenced NULL or was aborted by GLib |

| Action | Handler |
|---|---|
| `Call` | `on_*`: answers at once (`AnswerLocally`), refuses its arguments (`Refuse`), or makes a user request with `MAKE_UR` and dispatches it (`Dispatch`) |
| `Response` | `send_response` and the case of `dbus_plugin_*_response` for the method |

`Requests` sorts the methods by their handlers' groups, which is how the code
repeats them, and says of each

* what a failing dispatch does: an error reply (`modem.c`, `network.c`), FALSE,
  for which GDBus answers "unknown method" (`call.c`, most of `sms.c`), or nothing
  (`sms.c` for four methods, `ss.c`, `sap.c`, `sim.c`, `phonebook.c`, `sat.c`); and
  in which error replies a NULL stands for a string (`NullStrings`) or for an array
  (`NullArrays`);
* which arguments are refused before anything is sent;
* which of them are answered without the modem, from the core objects of
  `TCORE_PLUGIN_DEFAULT` whichever object was called, and which of those read the
  first element of a list that may be empty;
* whether a response handler has a case for it, and without which core objects it
  returns before looking (that of calls looks for the NETWORK object); which response
  may be unreadable, and which reply cannot be built for certain (`MayBeUnbuilt`);
* how lock types are translated to facilities and back.

Abstracted: all other arguments and the contents of replies. That a reply goes to
the invocation its request was made for is by construction of `dbus_request_info`;
the model keeps that link as the number of the call. The mapped lines of a group
of methods are the handlers whose names it lists.

### Objects, events and properties

| Variable of `ModemRegistry`, `PluginCore` | In the code |
|---|---|
| `core`, `hal` | no state of the plugin: the core objects a modem plugin has made, and whether its modem object is linked to a HAL |
| `manager` | `ctx->manager` |
| `ran` | no state of the plugin: `TNOTI_SERVER_RUN` has been raised |
| `objects` | `ctx->objects`, with the interfaces each object has |
| `service` | the service type kept in the network core object |
| `shown` | the D-Bus properties of the object: network and power |
| `heard` | the last signal sent on an object |
| `launching` | no variable of the plugin: the handler of an incoming call has sent its signal and has the application yet to start |
| `launched` | what the last incoming call of a modem started, or that the start failed |
| `first_status`, `ecc` | `ctx->sim_recv_first_status`, `ctx->cached_sim_ecc` |
| `ecc_requests`, `ecc_lost` | the request `TREQ_SIM_GET_ECC` that the core carries, or that could not be dispatched |

| Action | Handler |
|---|---|
| `ServerRun`, `BusAcquired` | `TNOTI_SERVER_RUN` in `send_notification`, and `on_bus_acquired`; both by way of `refresh_object` and `add_modem` |
| `CoreObjectsMade`, `HalLinked` | external: a modem plugin comes up, at any time |
| `Notify` | the hooks of `network.c`, then `send_notification` and `dbus_plugin_*_notification` for all events but those of SAT |
| `Launch` | `_launch_voice_call` and `_launch_video_call`, the rest of the handler of an incoming call; nothing else happens until it is done |
| `EccResponse` | the case `TRESP_SIM_GET_ECC` of `dbus_plugin_sim_response` |

Assumed of the core, which is not in the repository: hooks run before the
communicator is notified; a registration event is raised after the network core
object has taken over the new service type; a signal or property of an interface
that an object lacks does nothing but a GLib warning. The operator's name, which
comes from the core object or a table, is abstracted to the PLMN it stands for.
A property that is always set together with another one is left out. A property that
has not been set reads as an empty string or a zero (`AtFirst`); for the service type that
is UNKNOWN (`network.xml:189`), the value a registration may also bring.

### The abstract specifications

`ProactiveCommand` gives each command number a fate: `none`, then `pending`,
`answered` or `gone`; from `pending` to `answered` or `gone`; nothing after
that. `SatManager!Fate` computes it from `answers`, `queue` and `clock`, and
`CardView` states that every behaviour of `SatManager` is one of it. A number
used up by queueing a command again belongs to no command and maps to `gone` at
once. A second terminal response maps to a value that is no fate, so the
refinement fails on it.

`Invocation` does the same for a D-Bus call: from `none` to `pending`, `answered`
or `forgotten`, from `pending` to `succeeded`, `answered` or `forgotten`, and a call
that is made may be the last thing the daemon does. There is no step from `none` to
`succeeded`: a handler never reports a success of its own. `RequestBroker!Fate`
computes the fate from `replies`, `pending` and `calls`; a second reply maps to a
value that is no fate.

## 3. The runs

`QMax = 3` in all SAT runs: two commands fit. It is the smallest queue in which a
removal at the head renumbers another entry and in which a push can find the queue
full behind several entries. `MaxTickets` bounds how often a command is received
or queued again; a step that would exceed it is not taken.

| Run (cfg) | Question | Bounds | Result |
|---|---|---|---|
| `sat_any_client` (`SatManager.cfg`) | With clients that answer late, twice over different methods, in any order, and a card that sends whenever it likes: types, one response per command, stale ids never name an older command, the bookkeeping these rest on, a menu leaves the queue alone, a menu reported as set up is the one `GetMainMenuInfo` answers with (and one without items takes back the one before), and `CardView` | one modem, 4 tickets, four kinds of command: a menu with and one without items, a text that two clients are told of, a call that is queued again | holds |
| `sat_two_modems` (`SatTwoModems.cfg`) | A call that returns 0 has sent no terminal response | two modems, 3 tickets, kinds whose answers are lost or silent, dispatching may fail | holds |
| `sat_dialogue` (`SatDialogue.cfg`) | With one card that waits and clients that answer as asked: no crash, every response is to the command its client was asked about, no refusal becomes a success, only idle texts are left in the queue with nobody to answer | one modem, 3 tickets, every row of every table, all results and answers, dispatching may fail | holds |
| `sat_faithful` (`SatFaithful.cfg`) | A success is reported only if the client reported one; the queue never holds two commands of one card; no command is announced without a place in the queue | two modems with well-behaved cards and clients, 4 tickets, the types in `FaithfulTypes`, whose handlers do what they were told (the others below), all results and answers, dispatching may fail | holds |
| `sat_liveness` (`SatLiveness.cfg`) | Every queued command is answered | one modem, 3 tickets, the kinds that have an answering path, dispatching succeeds | holds |
| `request_broker` (`RequestBroker.cfg`) | One reply at most and none while one may come; which calls end without a reply, and which may bring the daemon down; whose success is reported; which lock a reply names; accepted requests are answered; and `CallerView` | two modems, each complete or without NETWORK, SIM and PHONEBOOK or without CALL and SMS; two calls, one of any method and one of a method for each of the four ways in which a failed dispatch ends (an error, an unknown method, nothing, the daemon's end); all arguments that decide something | holds |
| `plugin_core` (`PluginCore.cfg`) | Objects are backed by core objects; both orders of plugins and bus serve all modems; an application is started for a call that has been heard of; the emergency list is the default modem's, stays, and arrives | two modems that come up in up to three steps, five kinds of event: an incoming call and a SIM status, which do more than signal, two that are just signalled and one that is not | holds |
| `network_properties` (`NetworkProperties.cfg`) | Properties say what signals said, with one network; they are the same on all objects, with several; the name admits that there is no service | two modems, the four network events and the PS event that have hooks, and the power event; three service types, two networks, one value of each measure beside the change's own | holds |
| `sat_two_modems_crash` (`SatTwoModemsCrash.cfg`) | `NeverCrashes` with two well-behaved cards | 4 tickets | **violated** |
| `sat_two_modems_mix_up` (`SatTwoModemsMixUp.cfg`) | `ResponsesAreOwn` with two well-behaved cards | 4 tickets | **violated** |
| `sat_browser` (`SatBrowser.cfg`) | `SuccessIsReported` for LAUNCH_BROWSER | 2 tickets | **violated** |
| `sat_queue_limit` (`SatQueueLimit.cfg`) | The queue takes `SAT_DEF_CMD_Q_MAX` commands | 3 tickets | **violated** |

Why the bounds are enough. An id goes stale by one removal in front of it and
meets a newer command after one more arrival: three tickets; the fourth lets the
newer one be queued again. The tables do not look at the queue beyond the entry
at the id, so one command at a time reaches every row. Modems differ in nothing
but identity, so two show whatever sharing can. Requests share nothing but the core
objects of their modems, so two of them are enough to mix up invocations, and
the first may be of any method. An event's effect depends on its own kind and
modem and on one earlier event of a modem (the first status, the last change of
network), and the runs hold every kind of event that has an effect other than
its signal. A value may take the place of one that was there before wherever a
property is about that: three service types, two PLMNs, a cell that differs from the one a
change of network brings. Of the others one value is enough to tell it from the
first.

Deadlock is not checked: a behaviour stops at the bound on tickets, after a
crash, and, in `SatDialogue`, when a card waits for a command that nobody can
answer (below). `request_broker` stops when all its calls are made and answered.
The other runs of this part never stop: modems always have another event.

Fairness. `FairDialogueSpec` assumes weak fairness of one thing: that as long as
some client holds an announcement it can answer, some client answers. Sat-ui
gives every screen a timeout (`SAT_TIME_OUT`, 60 s) and reports it, applications
report the end of what they carry out, and the main loop dispatches every call.
Nothing is assumed of which answer it is, nor of cards. `RequestBroker!FairSpec`
and `PluginCore!FairSpec` assume that a modem plugin answers each request it has
accepted, with whatever result: the core has no other way to end one. In `PluginCore`
the answer is under strong fairness, since it cannot be taken while the handler of an
incoming call is between its signal and the end of the launch; such calls may come for
ever, but the main loop serves its sources in turn. That handlers come to their end
is weak fairness of `Launch`.

Each property is paired with a variant of a definition (marked *Variant* in the
modules) that changes it the way a slip in the code would: a queue that forgets
its limit, a dequeue that removes the head, an id taken after the push, a missing
early return, a refresh that is not answered. Under each variant its property
fails in the same run, so the run is able to tell.

## 4. What the runs show of the code

* **Two modems, crash** (`sat_manager.c:106`). Cards A and B each have one
  command queued, with ids 0 and 1. The answer to A's removes position 0; the
  answer to B's pops position 1 of a queue of length 1, gets NULL and copies
  from it. The callers' own message for this case, "didn't find in command
  Q!!", shows that they expect a failure.
* **Two modems, mix-up** (`sat_manager.c:139`). The run finds the shortest road: the
  session end of one modem empties the queue of both (`sat.c:317`), the other card's
  next command gets id 0 again, and what its client says of the earlier command,
  which is gone, answers the new one. Without a session end it takes a third
  command: A's and B's are queued under 0 and 1, A's is answered and B's moves up,
  A's next gets id 1 too, and the answer to B's command goes to A's, through B's modem.
* **Zeroed results** (`sat_manager.c:3142` and three more). LAUNCH_BROWSER,
  SEND_DTMF, PROVIDE_LOCAL_INFO and LANGUAGE_NOTIFICATION send a terminal response
  in which the result was never set; the card reads success whatever the
  application said. SETUP_CALL does so for results it has no case for,
  DISPLAY_TEXT for HELP_INFO, and DISPLAY_TEXT and PLAY_TONE look at the icon
  after the switch and replace a failure.
* **One short of the maximum** (`sat_manager.c:82`). The tenth place of the queue
  is never used, and the command that finds no place is announced all the same.
  Cards that wait for their responses are not hurt by it while there are no more of
  them than the nine places left (`AnnouncedIsQueued`).

Of the other parts the runs show what holds, and where its limits are; the
exceptions are written into the properties and each is needed:

* **Calls that end without a reply** (`NoneForgotten`). A method of `ss.c`,
  `sap.c`, `sim.c`, `phonebook.c`, of four in `sms.c` or two in `sat.c` whose
  request cannot be dispatched; a call method on a modem without a NETWORK core
  object (`call.c:972`), an SMS or network method without its own; a cell broadcast
  configuration of an unknown kind of network (`sms.c:1049`). Their callers wait
  for the timeout of the bus.
* **Replies made of NULL.** After a failed dispatch the three queries of the modem
  (`modem.c:103`, 125, 145) and GetServingNetwork (`network.c:554`), and after a failed
  answer SendUssd (`ss.c:853`), complete the call with NULL for a string.
  GLib does not define what `g_variant_new` does then. Version 2.74 logs a critical
  message and puts a text of its own in the string, so that the reply does go out; a
  GLib whose checks return NULL sends none. The model takes either, so these five methods
  are in `MayBeForgotten`, and SendUssd is left out of `AcceptedCallAnswered`.
* **The daemon's end** (`MayBringDown`). NULL for an array of dictionaries is an error that
  aborts the process: a failed dispatch of Search (`network.c:216`) or
  GetPreferredPlmn (`network.c:533`) takes the daemon down.
  It also reads an empty list when the default plugin has no SIM or phonebook
  object and another modem's object is asked (`sim.c:94`). No other call ends it.
* **The power mode** (`modem.c:234`) is reported as set whatever the modem said.
* **Lock type 2** (`TAPI_SIM_LOCK_PF`) has no case: the modem is asked about the
  facility numbered zero, and the reply names the type of that one.
* **Network properties are the daemon's, not the modem's** (`network.c:634`): with
  two networks every object shows the last value of either (`PropertiesAgree`), so
  that a signal and the properties of the same object disagree (`ShownIsHeard`
  needs `Sole`). A name for no service stays after service has come back until the
  next change of network; the converse does not happen after a registration. Before
  the first one an object shows service type 0, which is UNKNOWN, without the name for it,
  and a change of network may put an operator's name beside it
  (`network.c:148`): `NameAdmitsNoService` leaves UNKNOWN out.
* **Call applications** (`call.c:1305`) are started after the signal, and a failed start is
  not looked at; a modem without a CALL interface has its application started though
  no signal goes out. `ApplicationFollowsSignal` says what remains.
* **The emergency numbers** are asked for once, of the default modem, whichever
  modem's SIM was first. A failed answer is copied as it is and never replaced; a
  request that could not be dispatched is not repeated.
* **Late modems**: a core object that comes after its modem's object gets no
  interface, a modem that comes after both the bus and `TNOTI_SERVER_RUN` no
  object, though GetModems names it.

Met while modelling, with no run of their own: a DISPLAY_TEXT with the immediate
response flag is removed without any terminal response; a SETUP_IDLE_MODE_TEXT
shown by sat-ui asks for a confirmation that has no handler and stays queued
(unless a display status is sent for it); an OPEN_CHANNEL over an unknown bearer
gets no response at all. `SettledKinds` leaves the first two out of the liveness
run; the third is never queued.
GetStatusAll (`call.c:538`) reads the first call of each status again and again.
`src/introspection/network.xml:51` documents the mode that GetSelectionMode answers as
"Manual(0), Automatic(1)" and line 35 that of SetSelectionMode the other way
round, which is what the code does.

## 5. What is proved

The SAT modules. For every set of modems, every queue size of at least 2, every subset of the
command kinds, of the results and of the answers, and every ticket bound:

| Theorem | States |
|---|---|
| `TypeCorrect` | `Spec => []TypeOK`: in particular the queue never exceeds its capacity |
| `InvariantHolds` | `Spec => []IInv` |
| `OneResponse` | `Spec => []AtMostOneResponse` |
| `NoReachingBack` | `Spec => []AnswersNeverReachBack` |
| `MenuLeavesOthers` | `Spec => MenuLeavesQueue` |
| `RefusedCallIsSilent` | `Spec => RefusedCallSendsNothing` |
| `RefusalsReported` | `Spec => []RefusalNeverReportedAsSuccess`, with unconstrained clients; the run checks it with well-behaved ones |
| `ImplementsProactiveCommand` | `Spec => CardView` |
| `QueueOrdered` | `Spec => []Bookkeeping` |
| `MenuTakenIsCached` | `Spec => []MenuAnsweredIsCached` |
| `SuccessesAreClaimed` | `Spec => []SuccessIsReported` if every command is of a type in `FaithfulTypes`; the run `sat_browser` shows that the hypothesis is needed |

For any number of modems, whose cards wait for their responses and whose clients
answer as asked (`DialogueSpec`), and every value of the other constants:

| Theorem | States |
|---|---|
| `DialogueIsSpec` | `DialogueSpec => Spec`, so that all of the above holds of it |
| `OneEachHolds` | `[]OneCommandEach` |
| `WaitingCardsFit` | `AnnouncedIsQueued`, if the modems are finitely many and no more than the queue has places |

For a single modem under `DialogueSpec`:

| Theorem | States |
|---|---|
| `OneModemNeverCrashes` | `[]NeverCrashes`; two modems violate it |
| `OneModemAnswersItsOwn` | `[]ResponsesAreOwn`; two modems violate it |
| `OneModemStrandsIdleTexts` | `[]OnlyIdleTextStranded` |

For every set of modems and calls, every choice of core objects and of methods, and
whether or not dispatches fail (`RequestBrokerProofs`):

| Theorem | States |
|---|---|
| `TypeCorrect`, `InvariantHolds` | `[]TypeOK`, `[]IInv` |
| `AtMostOneReply` | `[]OneReply` |
| `NoOtherForgotten` | `[]NoneForgotten` |
| `SuccessReported` | `[]SuccessIsTheModems` |
| `LocksNamed` | `[]LockIsTheCallers` |
| `BrokerImplementsInvocation` | `CallerView` |

For every set of modems, of kinds of core objects and of events (`PluginCoreProofs`):

| Theorem | States |
|---|---|
| `RegistryHolds`, `InvariantHolds`, `TypeCorrect` | `[]RegistryInv`, `[]IInv`, `[]TypeOK` |
| `ObjectsBacked`, `StartServes` | `[]ObjectsAreBacked`, `StartServesAll` |
| `EmergencyHolds`, `EmergencyStays` | `[]EmergencyListIsDefaults`, `EmergencyListStays` |
| `ApplicationHeardOf` | `ApplicationFollowsSignal` |
| `SignalsAndPropertiesAgree` | `[]ShownIsHeard` |
| `PropertiesOfAllModems` | `[]PropertiesAgree` |
| `NameIsHonest` | `[]NameAdmitsNoService` |

Assumptions: the named ASSUMEs of each module. Those of `SatQueue` and `SatManager` are
(`QMaxAssumption`, `KindsAssumption`, `ResponsesAssumption`, `AnswersAssumption`,
`SendAssumption`, `TicketsAssumption`); TLC evaluates all of them in every run. `QMax`
has to be 2 at least, so that one command fits; the code has 10.

The argument for the SAT queue. Neither property is inductive alone. That a queued command has had
no response says nothing after a removal unless no other entry is of the same
command (`Distinct`). That the entry at a stale id is not older than the client's
is kept by a removal because the queue is in the order of its tickets
(`Ordered`): what moves to the position is newer than what was there. It is kept
by an arrival because the new ticket exceeds all that were given out, to
clients and to entries (`Given`, and the same of `told`). And a command that has
just been received has had no response because no number beyond `clock` has
one. `Bookkeeping` is these four, `IInv` is all of them with `TypeOK`, and
`Bookkeeping` is also checked in `sat_any_client`.

`SatQueueProofs` states what a push and a pop do to positions, and that a pop right
after a push with that push's id restores the queue. `SatCommandsProofs` bounds the
tables and states which refusals can become a success. `SatManagerProofs` shows
that every step has one of five shapes (`StepShape`): it leaves the queue alone
(`Rests`), empties it (`Empties`), receives a command (`Receipt`), removes one
(`Removal`) or queues one again (`Requeue`). The invariant is then proved by
shape, and so is the refinement.

`SatPromisesProofs` goes through the actions. A menu leaves the queue as it was
because the pop that follows its push finds it or faults. That no refusal becomes
a success does not depend on the id at all: the rows of `SatCommands` never
turn one into the other, whichever command is found. For the cached menu it is
enough to look at one step: a response that the plugin claims for a menu is sent by the
handler that has just cached it, and names the menu itself because the menu was pushed
behind everything else and popped under the id of that push. A menu without items
is answered by `sat_manager_caching_setup_menu_info`, and the NULL it returns is cached.

`SatRefinementProofs` needs `IInv`. Under it every number has one of four fates
(`FatesKnown`), each shape changes the fate of one number only, or of all pending
ones at the end of a session, and a command that is queued again stays pending
because the entry it left made room for it: the push cannot fail there.

`SatDialogueProofs` has an invariant of its own. With one modem the queue never
holds more than one command, so that the only id is 0 and nothing goes stale. The
one announcement that is open names that command by id 0 on its own modem's object
(`Attended`), and what it asks for has a handler for the command's type
(`Handled`). Every answer therefore finds its own command, and can leave it there
only if it is an idle text.

The module's other theorems are about any number of modems, where ids do go stale. That the
queue holds at most one command of each card (`OneCommandEach`) is inductive by
itself: a card sends only when none of its commands is waiting, a pop under whatever
id removes, and a command queued again has left its place before. An entry more
would therefore make one more command than there are modems whose card has none in
the queue, and the map from positions to modems is injective: the queue is shorter than
the number of modems when a card may send (`PlaceLeft`), so the push finds room
(`WaitingCardsFit`). `SuccessesAreClaimed` needs no well-behaved partner. It
goes through the rows of the three tables for the types of `FaithfulTypes`
(`FaithfulExec`, `FaithfulConfirm`) and then through the actions; the command that is
found by a stale id is of such a type because every command is (`FaithfulQueue`).

In `RequestBroker` the invariant adds to the checked properties (`Requested`) that a
call not made has no reply, that what the core carries is of a method that makes a
request, and that a lock type asked about is one. `OneReply` then rests on two
facts: a handler that dispatches successfully does not complete the invocation,
and a response takes the request away. `NoneForgotten` needs that every
method is either completed by a response handler or answered locally, which is a
lemma about the sets of `Requests`, and that of the ways in which a failed dispatch ends
those without a reply belong to the methods `MayBeForgotten` and `MayBringDown` name. The refinement rests on the same invariant: a
step makes one call or finishes one (`StepShape`), the fates of the others stay
(`OtherFates`), and the one it is about has no reply before, so that the reply it gets
is the first.

In `PluginCore` the registry's invariant and that of the emergency numbers stand
alone: a request is pending only after the flag was set and before a list is
there. Signals and properties need more: that every object has the interface of its
modem (`HasModem`) and that of the last signal it sent, that an object without a network
interface has no network property set (`Unhooked`), and that the service type shown
by the only network, unless it is UNKNOWN, is the one its core object has
(`ServiceShown`), because the hook for a change of network reads it there. That an
application follows its signal needs that the last signal of the modem
whose application is about to be started is that of the call (`LaunchInv`), which only
holds because no other handler runs in between.

Every safety property of the passing runs is a theorem. Model-checked only: liveness
(`EveryCommandAnswered`, `AcceptedCallAnswered`, `EmergencyListArrives`), which is
beyond the proof system, and the four violations, which are counterexamples.
`Requests`, `SatCommands` and the queue use no recursion, so nothing is left out on
account of induction over data.

## 6. Not modelled, and why

* `sat_util.c`: conversion of GSM 7-bit and UCS2 text to UTF-8. Pure functions on
  bytes; no caller looks at their result, and no state depends on it.
* `on_unload` (`desc-dbus.c:463`): it frees the plugin's data and keeps the bus name
  and the communicator. Whether a callback comes after it depends on the order in
  which the daemon unloads its plugins, which is not in the repository.
* The vconf key that tells of telephony being ready: it is written once and not read.
* The contents of replies and signals: phonebook records, SIM files, messages,
  forwarding and barring records, the list that GetStatusAll builds, TLVs, and the
  fields of terminal responses beyond their result. What the handlers decide by is
  modelled; what they copy is not.
* Methods of `sms.c` that are commented out, and notifications under `#if 0`.
* Packaging, generated code, and copies of client-library types.

Open, in the order in which they would add most: the composition of `SatManager`
with `ModemRegistry` (a proactive command that comes before its modem's object), and
the conversions of `sat_util.c` against a reference definition.
