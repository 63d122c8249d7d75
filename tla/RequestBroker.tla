------------------------------ MODULE RequestBroker ------------------------------
(***************************************************************************)
(* The life of a D-Bus call on a modem object.  The handler answers it at  *)
(* once, or hands a user request to the core that carries the invocation   *)
(* (common.c).  The modem's answer completes the invocation                *)
(* (dbus_plugin_*_response), or is dropped; the request is freed with the  *)
(* invocation's data either way.  Requests of several callers to several   *)
(* modems are pending at the same time and answered in any order.          *)
(***************************************************************************)
EXTENDS Requests, Sequences, FiniteSets

CONSTANTS
    Modems,         \* the modem plugins
    Default,        \* TCORE_PLUGIN_DEFAULT
    Calls,          \* bound: the calls made, by number
    Uses,           \* number -> the methods that may be called with it
    Equipment,      \* the sets of core objects that a modem may have
    Dispatched      \* whether dispatching a request may succeed, may fail

ASSUME DefaultAssumption == Default \in Modems
ASSUME CallsAssumption == Calls \subseteq Nat
ASSUME UsesAssumption == Uses \in [Calls -> SUBSET AllMethods]
ASSUME EquipmentAssumption == Equipment \subseteq SUBSET Interfaces
ASSUME DispatchedAssumption == Dispatched \subseteq BOOLEAN

VARIABLES
    objects,        \* modem -> its core objects
    calls,          \* number -> what was called
    pending,        \* numbers of the calls whose request the core carries
    replies,        \* number -> the replies its caller has got
    crashed

vars == <<objects, calls, pending, replies, crashed>>

\* A reply: what it reports, what the modem had said, and for the methods on locks
\* the type of lock it names.
Said == Results \cup {"NOTHING"}
Reports == Results \cup {"UNKNOWN_METHOD", "VALUE"}
Reply(reports, said, lock) == [reports |-> reports, said |-> said, lock |-> lock]
AllReplies == [reports : Reports, said : Said, lock : 0 .. 8]

Invocations == [method : AllMethods, modem : Modems, arg : Nat]
NotMade == [method |-> "none", modem |-> Default, arg |-> 0]
Made(n) == calls[n] # NotMade

TypeOK ==
    /\ objects \in [Modems -> Equipment]
    /\ calls \in [Calls -> Invocations \cup {NotMade}]
    /\ pending \subseteq Calls
    /\ replies \in [Calls -> Seq(AllReplies)]
    /\ crashed \in BOOLEAN

Init ==
    /\ objects \in [Modems -> Equipment]
    /\ calls = [n \in Calls |-> NotMade]
    /\ pending = {}
    /\ replies = [n \in Calls |-> << >>]
    /\ crashed = FALSE
-----------------------------------------------------------------------------
Completes(n, reply) == replies' = [replies EXCEPT ![n] = Append(@, reply)]

NotAnswered == UNCHANGED replies

\* Variant: a request that could not be dispatched is nobody's business.
NeverReported(n, method) == NotAnswered /\ UNCHANGED crashed

\* A request that could not be dispatched.  What g_variant_new makes of a NULL for a
\* string is up to the library: a text that says so, or nothing, and then there is no
\* reply.  A NULL for an array is an error that ends the process.
DispatchFails(n, method) ==
    \/ /\ method \in ReportsFailure
       /\ Completes(n, Reply("FAILURE", "NOTHING", 0))
       /\ UNCHANGED crashed
    \/ /\ method \in ReturnsFalse
       /\ Completes(n, Reply("UNKNOWN_METHOD", "NOTHING", 0))
       /\ UNCHANGED crashed
    \/ /\ method \in IgnoresFailure \cup NullStrings
       /\ NotAnswered
       /\ UNCHANGED crashed
    \/ /\ method \in NullArrays
       /\ NotAnswered
       /\ crashed' = TRUE

\* Variant: the core keeps a request that it could not dispatch.
DispatchKept(n, method) ==
    /\ pending' = pending \cup {n}
    /\ \E dispatched \in Dispatched :
          IF dispatched THEN NotAnswered /\ UNCHANGED crashed
          ELSE DispatchFails(n, method)

\* The handler makes a user request and hands it to the core.
Dispatch(n, method) ==
    \E dispatched \in Dispatched :
        IF dispatched
        THEN pending' = pending \cup {n} /\ NotAnswered /\ UNCHANGED crashed
        ELSE DispatchFails(n, method) /\ UNCHANGED pending

\* The arguments are refused before anything is sent.
Refuse(n, method) ==
    /\ Completes(n, Reply(IF method \in ReportsFailure THEN "FAILURE"
                          ELSE "UNKNOWN_METHOD", "NOTHING", 0))
    /\ UNCHANGED <<pending, crashed>>

\* The default plugin has what the answer is taken from.
Answerable(method) ==
    method \in SimEmergency \/ Consults(method) \in objects[Default]

\* A local answer.  Without its core object the handler returns FALSE, as it does
\* for a call it does not find, or it reads from an empty list.
AnswerLocally(n, method) ==
    /\ IF Answerable(method)
       THEN /\ \E reports \in {"VALUE", "UNKNOWN_METHOD"} :
                 /\ reports # "VALUE" => method = "call_get_status"
                 /\ Completes(n, Reply(reports, "NOTHING", 0))
            /\ UNCHANGED crashed
       ELSE IF method \in NotChecked
       THEN crashed' = TRUE /\ NotAnswered
       ELSE /\ Completes(n, Reply("UNKNOWN_METHOD", "NOTHING", 0))
            /\ UNCHANGED crashed
    /\ UNCHANGED pending

\* A client calls a method of an interface that modem m's object has.
Call(n, m, method, arg) ==
    /\ ~crashed
    /\ ~Made(n)
    /\ \A k \in Calls : k < n => Made(k)
    /\ \E i \in objects[m] : Offers(i, method)
    /\ calls' = [calls EXCEPT ![n] = [method |-> method, modem |-> m, arg |-> arg]]
    /\ IF method \in AnsweredLocally THEN AnswerLocally(n, method)
       ELSE IF Rejected(method, arg) THEN Refuse(n, method)
       ELSE Dispatch(n, method)
    /\ UNCHANGED objects

\* The facilities that an answer to c may be about: the one asked about; if that was
\* no facility, whichever is numbered zero.
About(c) ==
    IF c.method \notin SimLocks THEN {"ZERO"}
    ELSE IF Facility(c.arg) = "ZERO" THEN Facilities ELSE {Facility(c.arg)}

\* The answer of the modem to request n, about facility f if it is about one, arrives
\* in a form the response handler can read or not.
Response(n, result, f, readable) ==
    LET c == calls[n]
        answered == /\ Needs(c.method) \subseteq objects[c.modem]
                    /\ c.method \in Completed
                    /\ readable
    IN
    /\ ~crashed
    /\ n \in pending
    /\ ~readable => MayBeUnreadable(c.method)
    /\ f \in About(c)
    /\ pending' = pending \ {n}
    /\ \/ /\ answered
          /\ Completes(n, Reply(Reported(c.method, result), result,
                                IF c.method \in SimLocks THEN LockType(f) ELSE 0))
       \/ ~answered /\ NotAnswered
       \/ MayBeUnbuilt(c.method, result) /\ NotAnswered
    /\ UNCHANGED <<objects, calls, crashed>>

SomeResponse(n) ==
    \E result \in Results, readable \in BOOLEAN : \E f \in About(calls[n]) :
        Response(n, result, f, readable)

SomeCall(n) ==
    \E m \in Modems, method \in Uses[n] :
        \E arg \in Arguments(method) : Call(n, m, method, arg)

Next == \E n \in Calls : SomeCall(n) \/ SomeResponse(n)

Spec == Init /\ [][Next]_vars

\* A modem plugin answers every request that it has accepted.
FairSpec == Spec /\ \A n \in Calls : WF_vars(SomeResponse(n))
-----------------------------------------------------------------------------
(***************************************************************************)
(* Properties.                                                             *)
(***************************************************************************)
\* GDBus allows one reply to an invocation: a call is answered at most once, and not
\* at all as long as the modem may still answer it.
OneReply ==
    \A n \in Calls :
        /\ Len(replies[n]) <= 1
        /\ n \in pending => Made(n) /\ replies[n] = << >>

\* The response to c, when it comes, may be dropped: the modem has no core object of
\* the kind the response looks for, the response cannot be read, or no reply can be
\* built from it.
MayBeDropped(c) ==
    \/ ~(Needs(c.method) \subseteq objects[c.modem])
    \/ MayBeUnreadable(c.method)
    \/ MayBeUnbuilt(c.method, "FAILURE")

\* The calls that may end without a reply: these, and those whose handler does not
\* look at the result of the dispatch, or has no reply to make of a failed one.
MayBeForgotten(c) ==
    c.method \in IgnoresFailure \cup NullStrings \/ MayBeDropped(c)

\* The calls that may bring the daemon down: the two whose failure is reported with
\* NULL for an array, and on the object of any modem the queries about the SIM and the
\* phonebook of a default plugin that has none.
MayBringDown(c) ==
    \/ c.method \in {"network_search", "network_get_preferred_plmn"}
    \/ c.method \in SimQuery /\ "SIM" \notin objects[Default]
    \/ c.method \in PhonebookQuery /\ "PHONEBOOK" \notin objects[Default]

\* Every other call has a reply, or a request that may bring one: none is forgotten,
\* and none ends the daemon.
NoneForgotten ==
    \A n \in Calls :
        Made(n) /\ replies[n] = << >> =>
            \/ n \in pending
            \/ MayBeForgotten(calls[n])
            \/ crashed /\ MayBringDown(calls[n])

\* A caller is told of a success only if the modem reported one; the power mode
\* alone is always reported as set, but not if nothing was sent to the modem.
SuccessIsTheModems ==
    \A n \in Calls : \A i \in DOMAIN replies[n] :
        replies[n][i].reports = "SUCCESS" =>
            \/ replies[n][i].said = "SUCCESS"
            \/ calls[n].method = "modem_set_power" /\ replies[n][i].said # "NOTHING"

\* The modem's answer about a lock names the type of lock that the caller asked
\* about, for every type but 2.
LockIsTheCallers ==
    \A n \in Calls : \A i \in DOMAIN replies[n] :
        /\ calls[n].method \in SimLocks
        /\ replies[n][i].said # "NOTHING"
        /\ calls[n].arg # 2
        => replies[n][i].lock = calls[n].arg

\* What became of call number n, as far as its caller may know.
Fate(n) ==
    IF Len(replies[n]) > 1 THEN "answered again"
    ELSE IF Len(replies[n]) = 1
    THEN IF replies[n][1].reports = "SUCCESS" THEN "succeeded" ELSE "answered"
    ELSE IF n \in pending THEN "pending"
    ELSE IF Made(n) THEN "forgotten" ELSE "none"

Caller == INSTANCE Invocation
              WITH Numbers <- Calls, fate <- [n \in Calls |-> Fate(n)],
                   stopped <- crashed

\* A caller sees its call answered at most once and for good, and is told of a
\* success only after its request was accepted, whatever other calls are pending on
\* this modem or another.
CallerView == Caller!Spec

\* A caller whose request was accepted gets its reply.
AcceptedCallAnswered ==
    \A n \in Calls :
        n \in pending /\ ~MayBeDropped(calls[n])
            ~> replies[n] # << >> \/ crashed
=============================================================================
