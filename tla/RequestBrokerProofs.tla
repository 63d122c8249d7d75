--------------------------- MODULE RequestBrokerProofs ---------------------------
(***************************************************************************)
(* Theorems about RequestBroker: for every number of modems and callers,   *)
(* every equipment and every use of the methods, no call is answered       *)
(* twice, and none is forgotten but those the handlers give up.            *)
(***************************************************************************)
EXTENDS RequestBroker, TLAPS

\* What the invariants rest on: a call that was not made has neither a request
\* nor a reply, and what the core carries is a request.
Requested ==
    \A n \in Calls :
        /\ ~Made(n) => replies[n] = << >>
        /\ n \in pending => calls[n].method \in AllMethods \ AnsweredLocally
        /\ calls[n].method \in SimLocks => calls[n].arg \in LockTypes

IInv ==
    /\ TypeOK
    /\ OneReply
    /\ Requested
    /\ NoneForgotten
    /\ SuccessIsTheModems
    /\ LockIsTheCallers
-----------------------------------------------------------------------------
\* The responses have a case for every request.
LEMMA RequestsCompleted ==
    ASSUME NEW method \in AllMethods, method \notin AnsweredLocally
    PROVE  method \in Completed
<1>1. CASE method \in ModemMethods \cup SatEnvelopes \cup PhonebookMethods \cup SapMethods
  BY <1>1 DEF Completed, ModemMethods, ModemCompleted, SatCompleted,
              PhonebookMethods, PhonebookCompleted, SapMethods, SapCompleted,
              AnsweredLocally, FromDefaultPlugin
<1>2. CASE method \in CallMethods
  BY <1>2 DEF Completed, CallMethods, CallsCompleted, SoundsCompleted,
              AnsweredLocally, FromDefaultPlugin
<1>3. CASE method \in NetworkMethods
  BY <1>3 DEF Completed, NetworkMethods, SelectionCompleted, NetworkCompleted,
              NetworkSearch, NetworkService
<1>4. CASE method \in SsMethods
  BY <1>4 DEF Completed, SsMethods, BarringCompleted, ForwardingCompleted,
              SsOtherCompleted
<1>5. CASE method \in SmsMethods
  BY <1>5 DEF Completed, SmsMethods, MessagesCompleted, SmsStatusCompleted,
              SmsParamsCompleted, AnsweredLocally, FromDefaultPlugin
<1>6. CASE method \in SimMethods
  BY <1>6 DEF Completed, SimMethods, FilesCompleted, OperatorCompleted,
              LocksCompleted, CardCompleted, SimLocks, SimLockQuery,
              AnsweredLocally, FromDefaultPlugin
<1> QED
  BY <1>1, <1>2, <1>3, <1>4, <1>5, <1>6 DEF AllMethods

\* "none" is no method: a call that was made can be told from one that was not.
LEMMA CallsAreMade ==
    ASSUME NEW method \in AllMethods, NEW m, NEW arg
    PROVE  [method |-> method, modem |-> m, arg |-> arg] # NotMade
<1>1. method # "none"
  BY DEF AllMethods, ModemMethods, ModemPower, ModemIdentity, ModemDun, CallMethods,
     CallSetup, CallHolding, CallParties, CallPath, CallMute, CallTuning, CallQuery,
     NetworkMethods, NetworkSearch, NetworkSelection, NetworkService, NetworkMode,
     NetworkPlmn, SsMethods, SsBarring, SsForwarding, SsOther, SmsMethods, SmsSend,
     SmsStore, SmsRead, SmsCentre, SmsBroadcast, SmsStatus, SmsParams, SmsQuery,
     SatEnvelopes, PhonebookMethods, PhonebookQuery, PhonebookRecords, SapMethods,
     SapSession, SapCard, SimMethods, SimQuery, SimEmergency, SimFiles, SimOperator,
     SimPins, SimLocks, SimLockChange, SimLockQuery, SimCard
<1> QED
  BY <1>1 DEF NotMade
-----------------------------------------------------------------------------
(***************************************************************************)
(* Every step makes a call, which ends in one of four ways, or takes a     *)
(* response, which completes its call or drops it.                         *)
(***************************************************************************)
\* A reply that reports a success has it from the modem.
Honest(method, r) ==
    r.reports = "SUCCESS" =>
        \/ r.said = "SUCCESS"
        \/ method = "modem_set_power" /\ r.said # "NOTHING"

\* A reply to c that comes from the modem names the lock that c is about.
Named(c, r) ==
    c.method \in SimLocks /\ c.arg # 2 => r.lock = c.arg

\* A call that was accepted; one that was answered at once; one that was given up;
\* one that brought the daemon down.
Accepted(n, method) ==
    /\ method \notin AnsweredLocally
    /\ pending' = pending \cup {n}
    /\ replies' = replies
    /\ crashed' = crashed

AnsweredAtOnce(n, method) ==
    /\ \E r \in AllReplies :
          Honest(method, r) /\ r.said = "NOTHING" /\ Completes(n, r)
    /\ pending' = pending
    /\ crashed' = crashed

GivenUp(method) ==
    /\ method \in IgnoresFailure \cup NullStrings
    /\ pending' = pending
    /\ replies' = replies
    /\ crashed' = crashed

Fatal(c) ==
    /\ MayBringDown(c)
    /\ crashed' = TRUE
    /\ pending' = pending
    /\ replies' = replies

Making(n, m, method, arg) ==
    /\ ~Made(n)
    /\ method \in SimLocks => arg \in LockTypes
    /\ objects' = objects
    /\ calls' = [calls EXCEPT ![n] = [method |-> method, modem |-> m, arg |-> arg]]
    /\ \/ Accepted(n, method)
       \/ AnsweredAtOnce(n, method)
       \/ GivenUp(method)
       \/ Fatal([method |-> method, modem |-> m, arg |-> arg])

Finishing(n) ==
    /\ n \in pending
    /\ objects' = objects
    /\ calls' = calls
    /\ crashed' = crashed
    /\ pending' = pending \ {n}
    /\ \/ \E r \in AllReplies :
             Honest(calls[n].method, r) /\ Named(calls[n], r) /\ Completes(n, r)
       \/ replies' = replies /\ MayBeForgotten(calls[n])

\* Arguments are numbers.
LEMMA ArgumentsAreNumbers ==
    ASSUME NEW method \in AllMethods, NEW arg \in Arguments(method)
    PROVE  arg \in Nat /\ (method \in SimLocks => arg \in LockTypes)
<1>1. arg \in Nat
  BY DEF Arguments, LockTypes
<1>2. ASSUME method \in SimLocks PROVE arg \in LockTypes
  <2>1. method \notin {"modem_set_power", "network_set_selection_mode",
                     "sms_set_sca"}
    BY <1>2 DEF SimLocks, SimLockChange, SimLockQuery
  <2> QED
    BY <1>2, <2>1 DEF Arguments
<1> QED
  BY <1>1, <1>2

\* A lock type that has a facility is found again.
LEMMA LocksTranslate ==
    ASSUME NEW c, c.method \in SimLocks, c.arg \in LockTypes, c.arg # 2,
           NEW f \in About(c)
    PROVE  LockType(f) = c.arg
<1>1. Facility(c.arg) # "ZERO" /\ LockType(Facility(c.arg)) = c.arg
  BY DEF Facility, LockType, LockTypes
<1> QED
  BY <1>1 DEF About

\* What is not there when a local answer reads from an empty list.
LEMMA EmptyLists ==
    ASSUME NEW c, c.method \in NotChecked, ~Answerable(c.method)
    PROVE  MayBringDown(c)
<1>1. CASE c.method \in PhonebookQuery
  <2>1. Consults(c.method) = "PHONEBOOK"
    BY <1>1 DEF Consults, CallQuery, SmsQuery, PhonebookQuery, SimQuery
  <2> QED
    BY <1>1, <2>1 DEF Answerable, MayBringDown
<1>2. CASE c.method \in SimQuery
  <2>1. Consults(c.method) = "SIM"
    BY <1>2 DEF Consults, CallQuery, SmsQuery, PhonebookQuery, SimQuery
  <2> QED
    BY <1>2, <2>1 DEF Answerable, MayBringDown
<1> QED
  BY <1>1, <1>2 DEF NotChecked

\* A reply made by the handler itself is a reply, and reports no success.
LEMMA OwnReplies ==
    ASSUME NEW method, NEW reports \in Reports, reports # "SUCCESS"
    PROVE  /\ Reply(reports, "NOTHING", 0) \in AllReplies
           /\ Honest(method, Reply(reports, "NOTHING", 0))
           /\ Reply(reports, "NOTHING", 0).said = "NOTHING"
BY DEF Reply, AllReplies, Said, Honest

\* A call has one of the four outcomes.
LEMMA CallShape ==
    ASSUME NEW n \in Calls, NEW m \in Modems, NEW method \in AllMethods, NEW arg,
           method \in SimLocks => arg \in LockTypes, Call(n, m, method, arg)
    PROVE  Making(n, m, method, arg)
<1>1. CASE method \in AnsweredLocally
  <2>1. AnswerLocally(n, method)
    BY <1>1 DEF Call
  <2>2. CASE Answerable(method)
    <3>1. PICK reports \in {"VALUE", "UNKNOWN_METHOD"} :
             Completes(n, Reply(reports, "NOTHING", 0))
      BY <2>1, <2>2 DEF AnswerLocally
    <3>2. AnsweredAtOnce(n, method)
      BY <2>1, <2>2, <3>1, OwnReplies DEF AnswerLocally, AnsweredAtOnce, Reports
    <3> QED
      BY <3>2 DEF Making, Call
  <2>3. CASE ~Answerable(method) /\ method \in NotChecked
    <3>1. MayBringDown([method |-> method, modem |-> m, arg |-> arg])
      BY <2>3, EmptyLists
    <3> QED
      BY <2>1, <2>3, <3>1 DEF AnswerLocally, NotAnswered, Fatal, Making, Call
  <2>4. CASE ~Answerable(method) /\ method \notin NotChecked
    <3>1. AnsweredAtOnce(n, method)
      BY <2>1, <2>4, OwnReplies DEF AnswerLocally, AnsweredAtOnce, Reports
    <3> QED
      BY <3>1 DEF Making, Call
  <2> QED
    BY <2>2, <2>3, <2>4
<1>2. CASE method \notin AnsweredLocally /\ Rejected(method, arg)
  <2>1. Refuse(n, method)
    BY <1>2 DEF Call
  <2>2. AnsweredAtOnce(n, method)
    BY <2>1, OwnReplies DEF Refuse, AnsweredAtOnce, Reports, Results
  <2> QED
    BY <2>2 DEF Making, Call
<1>3. CASE method \notin AnsweredLocally /\ ~Rejected(method, arg)
  <2>1. Dispatch(n, method)
    BY <1>3 DEF Call
  <2>2. CASE pending' = pending \cup {n} /\ NotAnswered /\ UNCHANGED crashed
    <3>1. Accepted(n, method)
      BY <1>3, <2>1, <2>2 DEF Dispatch, Accepted, NotAnswered
    <3> QED
      BY <3>1 DEF Making, Call
  <2>3. CASE DispatchFails(n, method) /\ UNCHANGED pending
    <3>1. CASE method \in NullArrays /\ NotAnswered /\ crashed' = TRUE
      <4>1. MayBringDown([method |-> method, modem |-> m, arg |-> arg])
        BY <3>1 DEF NullArrays, MayBringDown
      <4> QED
        BY <2>3, <3>1, <4>1 DEF NotAnswered, Fatal, Making, Call
    <3>2. CASE ~(method \in NullArrays /\ NotAnswered /\ crashed' = TRUE)
      <4>1. AnsweredAtOnce(n, method) \/ GivenUp(method)
        BY <2>3, <3>2, OwnReplies
        DEF DispatchFails, NotAnswered, AnsweredAtOnce, GivenUp, Reports, Results
      <4> QED
        BY <4>1 DEF Making, Call
    <3> QED
      BY <3>1, <3>2
  <2> QED
    BY <2>1, <2>2, <2>3 DEF Dispatch
<1> QED
  BY <1>1, <1>2, <1>3

\* A response completes its call, or is one that may be dropped.
LEMMA ResponseShape ==
    ASSUME TypeOK, Requested, NEW n \in Calls, SomeResponse(n)
    PROVE  Finishing(n)
<1>1. PICK result \in Results, readable \in BOOLEAN, f \in About(calls[n]) :
         Response(n, result, f, readable)
  BY DEF SomeResponse
<1>2. /\ n \in pending /\ objects' = objects /\ calls' = calls
      /\ crashed' = crashed /\ pending' = pending \ {n}
  BY <1>1 DEF Response
<1> DEFINE method == calls[n].method
           lock == IF method \in SimLocks THEN LockType(f) ELSE 0
           reply == Reply(Reported(method, result), result, lock)
<1>3. method \in AllMethods \ AnsweredLocally
  BY <1>2 DEF Requested
<1>4. CASE Completes(n, reply)
  <2>1. Completes(n, reply)
    BY <1>4
  <2>2. lock \in 0 .. 8
    BY DEF LockType
  <2>3. reply \in AllReplies /\ Honest(method, reply)
    BY <2>2 DEF Reply, AllReplies, Reported, Reports, Said, Results, Honest
  <2>4. Named(calls[n], reply)
    <3>1. ASSUME method \in SimLocks, calls[n].arg # 2
          PROVE  LockType(f) = calls[n].arg
      BY <3>1, LocksTranslate DEF Requested
    <3>2. method \in SimLocks => reply.lock = LockType(f)
      BY DEF Reply
    <3> QED
      BY <3>1, <3>2 DEF Named
  <2> QED
    BY <1>2, <2>1, <2>3, <2>4 DEF Finishing
<1>5. CASE /\ ~(Needs(method) \subseteq objects[calls[n].modem] /\ readable)
           /\ NotAnswered
  BY <1>1, <1>2, <1>5 DEF Response, NotAnswered, MayBeForgotten, MayBeDropped,
                          Finishing
<1>6. CASE MayBeUnbuilt(method, result) /\ NotAnswered
  BY <1>1, <1>2, <1>6 DEF Response, NotAnswered, MayBeForgotten, MayBeDropped,
                          MayBeUnbuilt, Finishing
<1> QED
  BY <1>1, <1>3, <1>4, <1>5, <1>6, RequestsCompleted DEF Response

\* So every step of the broker has one of the two shapes.
LEMMA StepShape ==
    ASSUME TypeOK, Requested, Next
    PROVE  \E n \in Calls :
              \/ \E m \in Modems, method \in AllMethods, arg \in Nat :
                    Making(n, m, method, arg)
              \/ Finishing(n)
<1>1. PICK n \in Calls : SomeCall(n) \/ SomeResponse(n)
  BY DEF Next
<1>2. CASE SomeCall(n)
  <2>1. PICK m \in Modems, method \in Uses[n] :
           \E arg \in Arguments(method) : Call(n, m, method, arg)
    BY <1>2 DEF SomeCall
  <2>2. PICK arg \in Arguments(method) : Call(n, m, method, arg)
    BY <2>1
  <2>3. method \in AllMethods
    BY UsesAssumption
  <2>4. arg \in Nat /\ (method \in SimLocks => arg \in LockTypes)
    BY <2>3, ArgumentsAreNumbers
  <2> QED
    BY <2>2, <2>3, <2>4, CallShape
<1>3. CASE SomeResponse(n)
  BY <1>3, ResponseShape
<1> QED
  BY <1>1, <1>2, <1>3
-----------------------------------------------------------------------------
(***************************************************************************)
(* The invariant.                                                          *)
(***************************************************************************)
\* The first reply to a call.
LEMMA FirstReply ==
    ASSUME TypeOK, NEW n \in Calls, NEW r \in AllReplies, replies[n] = << >>,
           Completes(n, r)
    PROVE  /\ replies' = [replies EXCEPT ![n] = << r >>]
           /\ replies'[n] = << r >>
           /\ \A k \in Calls : k # n => replies'[k] = replies[k]
<1>1. Append(<< >>, r) = << r >>
  OBVIOUS
<1>2. replies' = [replies EXCEPT ![n] = << r >>]
  BY <1>1 DEF Completes
<1> QED
  BY <1>2 DEF TypeOK

\* Making a call keeps the invariant.
LEMMA MakingKeeps ==
    ASSUME IInv, NEW n \in Calls, NEW m \in Modems, NEW method \in AllMethods,
           NEW arg \in Nat, Making(n, m, method, arg)
    PROVE  IInv'
<1> DEFINE c == [method |-> method, modem |-> m, arg |-> arg]
<1>1. /\ c \in Invocations /\ c # NotMade /\ c.method = method
      /\ c.method \in SimLocks => c.arg \in LockTypes
      /\ calls'[n] = c
      /\ \A k \in Calls : k # n => calls'[k] = calls[k]
  BY CallsAreMade DEF IInv, TypeOK, Making, Invocations
<1> HIDE DEF c
<1>2. n \notin pending /\ replies[n] = << >> /\ objects' = objects
  BY DEF IInv, OneReply, Requested, Making
<1>7. /\ \A d : MayBeForgotten(d)' = MayBeForgotten(d)
      /\ \A d : MayBringDown(d)' = MayBringDown(d)
  BY <1>2 DEF MayBeForgotten, MayBeDropped, MayBringDown
<1>8. \A k \in Calls : k # n =>
         Made(k)' = Made(k) /\ calls'[k] = calls[k]
  BY <1>1 DEF Made
<1>3. CASE Accepted(n, method)
  <2>1. /\ pending' = pending \cup {n} /\ replies' = replies
        /\ crashed' = crashed /\ method \notin AnsweredLocally
    BY <1>3 DEF Accepted
  <2>2. TypeOK'
    BY <1>1, <1>2, <2>1 DEF IInv, TypeOK, Making
  <2>3. OneReply' /\ Requested'
    BY <1>1, <1>2, <2>1 DEF IInv, TypeOK, OneReply, Requested, Made
  <2>4. NoneForgotten'
    BY <1>7, <1>8, <2>1 DEF IInv, NoneForgotten
  <2>5. SuccessIsTheModems'
    BY <1>1, <1>2, <2>1 DEF IInv, TypeOK, SuccessIsTheModems
  <2>7. LockIsTheCallers'
    <3>1. ASSUME NEW k \in Calls, NEW i \in DOMAIN replies'[k]
          PROVE  k # n /\ calls'[k] = calls[k] /\ replies'[k] = replies[k]
      BY <1>1, <1>2, <2>1, <3>1
    <3> QED
      BY <2>1, <3>1 DEF IInv, LockIsTheCallers
  <2> QED
    BY <2>2, <2>3, <2>4, <2>5, <2>7 DEF IInv
<1>4. CASE AnsweredAtOnce(n, method)
  <2>1. PICK r \in AllReplies :
           Honest(method, r) /\ r.said = "NOTHING" /\ Completes(n, r)
    BY <1>4 DEF AnsweredAtOnce
  <2>2. /\ pending' = pending /\ crashed' = crashed
        /\ replies' = [replies EXCEPT ![n] = << r >>]
        /\ replies'[n] = << r >>
        /\ \A k \in Calls : k # n => replies'[k] = replies[k]
    BY <1>2, <1>4, <2>1, FirstReply DEF AnsweredAtOnce, IInv
  <2>3. << r >> \in Seq(AllReplies) /\ Len(<< r >>) = 1 /\ << r >> # << >>
    OBVIOUS
  <2>4. TypeOK'
    BY <1>1, <1>2, <2>2, <2>3 DEF IInv, TypeOK, Making
  <2>5. OneReply' /\ Requested'
    BY <1>1, <1>2, <2>2, <2>3 DEF IInv, TypeOK, OneReply, Requested, Made
  <2>6. NoneForgotten'
    BY <1>7, <1>8, <2>2, <2>3 DEF IInv, NoneForgotten
  <2>7. SuccessIsTheModems'
    BY <1>1, <2>1, <2>2, <2>3 DEF IInv, TypeOK, SuccessIsTheModems, Honest
  <2>8. LockIsTheCallers'
    BY <1>1, <2>1, <2>2, <2>3 DEF IInv, TypeOK, LockIsTheCallers
  <2> QED
    BY <2>4, <2>5, <2>6, <2>7, <2>8 DEF IInv
<1>5. CASE GivenUp(method) \/ Fatal(c)
  <2>1. /\ pending' = pending /\ replies' = replies
        /\ \/ crashed' = TRUE /\ MayBringDown(c)
           \/ crashed' = crashed /\ method \in IgnoresFailure \cup NullStrings
    BY <1>5 DEF GivenUp, Fatal
  <2>2. TypeOK'
    BY <1>1, <1>2, <2>1 DEF IInv, TypeOK, Making
  <2>3. OneReply' /\ Requested'
    BY <1>1, <1>2, <2>1 DEF IInv, TypeOK, OneReply, Requested, Made
  <2>4. NoneForgotten'
    <3>1. ASSUME NEW k \in Calls, k # n, Made(k)', replies'[k] = << >>
          PROVE  \/ k \in pending'
                 \/ MayBeForgotten(calls[k])'
                 \/ crashed' /\ MayBringDown(calls[k])'
      BY <1>7, <1>8, <2>1, <3>1 DEF IInv, NoneForgotten
    <3>2. MayBeForgotten(c) \/ (crashed' /\ MayBringDown(c))
      BY <1>1, <2>1 DEF MayBeForgotten
    <3>3. MayBeForgotten(calls[n])' \/ (crashed' /\ MayBringDown(calls[n])')
      BY <1>1, <1>7, <3>2
    <3> QED
      BY <3>1, <3>3 DEF NoneForgotten
  <2>5. SuccessIsTheModems'
    <3>1. replies' = replies /\ replies[n] = << >> /\ SuccessIsTheModems
      BY <1>2, <2>1 DEF IInv
    <3> QED
      BY <1>1, <3>1 DEF SuccessIsTheModems
  <2>7. LockIsTheCallers'
    <3>1. replies' = replies /\ replies[n] = << >> /\ LockIsTheCallers
      BY <1>2, <2>1 DEF IInv
    <3> QED
      BY <1>1, <3>1 DEF LockIsTheCallers
  <2> QED
    BY <2>2, <2>3, <2>4, <2>5, <2>7 DEF IInv
<1> QED
  BY <1>3, <1>4, <1>5 DEF Making, c

\* Taking a response keeps the invariant.
LEMMA FinishingKeeps ==
    ASSUME IInv, NEW n \in Calls, Finishing(n)
    PROVE  IInv'
<1>1. /\ n \in pending /\ objects' = objects /\ calls' = calls
      /\ crashed' = crashed /\ pending' = pending \ {n}
  BY DEF Finishing
<1>2. replies[n] = << >>
  BY <1>1 DEF IInv, OneReply
<1>3. CASE \E r \in AllReplies :
            Honest(calls[n].method, r) /\ Named(calls[n], r) /\ Completes(n, r)
  <2>1. PICK r \in AllReplies :
           Honest(calls[n].method, r) /\ Named(calls[n], r) /\ Completes(n, r)
    BY <1>3
  <2>2. /\ replies' = [replies EXCEPT ![n] = << r >>]
        /\ replies'[n] = << r >>
        /\ \A k \in Calls : k # n => replies'[k] = replies[k]
    BY <1>2, <2>1, FirstReply DEF IInv
  <2>3. << r >> \in Seq(AllReplies) /\ Len(<< r >>) = 1 /\ << r >> # << >>
    OBVIOUS
  <2>4. TypeOK'
    BY <1>1, <2>2, <2>3 DEF IInv, TypeOK
  <2>5. OneReply' /\ Requested'
    BY <1>1, <2>2, <2>3 DEF IInv, TypeOK, OneReply, Requested, Made
  <2>6. NoneForgotten'
    BY <1>1, <2>2, <2>3 DEF IInv, TypeOK, NoneForgotten, Made, MayBeForgotten,
                            MayBeDropped, MayBringDown
  <2>7. SuccessIsTheModems'
    BY <1>1, <2>1, <2>2, <2>3 DEF IInv, TypeOK, SuccessIsTheModems, Honest
  <2>8. LockIsTheCallers'
    BY <1>1, <2>1, <2>2, <2>3 DEF IInv, TypeOK, LockIsTheCallers, Named
  <2> QED
    BY <2>4, <2>5, <2>6, <2>7, <2>8 DEF IInv
<1>4. CASE replies' = replies /\ MayBeForgotten(calls[n])
  <2>1. TypeOK' /\ OneReply' /\ Requested'
    BY <1>1, <1>4 DEF IInv, TypeOK, OneReply, Requested, Made
  <2>2. NoneForgotten' /\ SuccessIsTheModems'
    BY <1>1, <1>4 DEF IInv, TypeOK, NoneForgotten, SuccessIsTheModems, Made,
                      MayBeForgotten, MayBeDropped, MayBringDown
  <2>3. LockIsTheCallers'
    BY <1>1, <1>4 DEF IInv, TypeOK, LockIsTheCallers
  <2> QED
    BY <2>1, <2>2, <2>3 DEF IInv
<1> QED
  BY <1>3, <1>4 DEF Finishing

\* The inductive invariant behind the theorems below.
THEOREM InvariantHolds == Spec => []IInv
<1>1. Init => IInv
  <2> SUFFICES ASSUME Init PROVE IInv
    OBVIOUS
  <2>1. \A n \in Calls : ~Made(n) /\ replies[n] = << >> /\ n \notin pending
    BY DEF Init, Made
  <2>2. TypeOK
    <3>1. << >> \in Seq(AllReplies)
      OBVIOUS
    <3>2. replies \in [Calls -> Seq(AllReplies)]
      BY <3>1 DEF Init
    <3> QED
      BY <3>2 DEF Init, TypeOK
  <2>3. OneReply /\ NoneForgotten /\ SuccessIsTheModems /\ LockIsTheCallers
    BY <2>1 DEF OneReply, NoneForgotten, SuccessIsTheModems, LockIsTheCallers
  <2>4. Requested
    <3>1. NotMade.method \notin SimLocks
      BY DEF NotMade, SimLocks, SimLockChange, SimLockQuery
    <3>2. \A n \in Calls : calls[n] = NotMade
      BY DEF Init
    <3> QED
      BY <2>1, <3>1, <3>2 DEF Requested
  <2> QED
    BY <2>2, <2>3, <2>4 DEF IInv
<1>2. IInv /\ [Next]_vars => IInv'
  <2> SUFFICES ASSUME IInv, [Next]_vars PROVE IInv'
    OBVIOUS
  <2>1. CASE Next
    <3>1. PICK n \in Calls :
             \/ \E m \in Modems, method \in AllMethods, arg \in Nat :
                   Making(n, m, method, arg)
             \/ Finishing(n)
      BY <2>1, StepShape DEF IInv
    <3> QED
      BY <3>1, MakingKeeps, FinishingKeeps
  <2>2. CASE UNCHANGED vars
    BY <2>2 DEF vars, IInv, TypeOK, OneReply, Requested, NoneForgotten,
                SuccessIsTheModems, LockIsTheCallers, Made, MayBeForgotten,
                MayBeDropped, MayBringDown
  <2> QED
    BY <2>1, <2>2
<1> QED
  BY <1>1, <1>2, PTL DEF Spec

\* The bookkeeping of calls and requests is well typed in every state.
THEOREM TypeCorrect == Spec => []TypeOK
<1>1. IInv => TypeOK
  BY DEF IInv
<1> QED
  BY <1>1, InvariantHolds, PTL

\* No invocation is completed twice, nor while a response may still complete it.
THEOREM AtMostOneReply == Spec => []OneReply
<1>1. IInv => OneReply
  BY DEF IInv
<1> QED
  BY <1>1, InvariantHolds, PTL

\* The calls that end without a reply are those of the methods that give them up, of
\* the responses that drop them, and those that end the daemon: for any other call, on
\* any modem, there is a reply or a request on its way.
THEOREM NoOtherForgotten == Spec => []NoneForgotten
<1>1. IInv => NoneForgotten
  BY DEF IInv
<1> QED
  BY <1>1, InvariantHolds, PTL

\* A success that a caller is told of is the modem's.
THEOREM SuccessReported == Spec => []SuccessIsTheModems
<1>1. IInv => SuccessIsTheModems
  BY DEF IInv
<1> QED
  BY <1>1, InvariantHolds, PTL

\* The two translations of lock types, for the request and for the reply, agree on
\* every type but the one that has no facility.
THEOREM LocksNamed == Spec => []LockIsTheCallers
<1>1. IInv => LockIsTheCallers
  BY DEF IInv
<1> QED
  BY <1>1, InvariantHolds, PTL
-----------------------------------------------------------------------------
(***************************************************************************)
(* The broker implements Invocation.  A step decides the fate of one call: *)
(* of the one it makes, or of the one whose response it takes.             *)
(***************************************************************************)
fates == [n \in Calls |-> Fate(n)]

\* The fate of a call that has no reply, or one, now and after a step.
LEMMA NoReply ==
    ASSUME NEW n \in Calls, replies[n] = << >>
    PROVE  Fate(n) = IF n \in pending THEN "pending"
                     ELSE IF Made(n) THEN "forgotten" ELSE "none"
<1>1. Len(replies[n]) = 0
  OBVIOUS
<1>. QED
  BY <1>1 DEF Fate

LEMMA NoReplyNext ==
    ASSUME NEW n \in Calls, replies'[n] = << >>
    PROVE  Fate(n)' = IF n \in pending' THEN "pending"
                      ELSE IF Made(n)' THEN "forgotten" ELSE "none"
<1>1. Len(replies'[n]) = 0
  OBVIOUS
<1>. QED
  BY <1>1 DEF Fate

LEMMA OneReplyNext ==
    ASSUME NEW n \in Calls, NEW r \in AllReplies, replies'[n] = << r >>
    PROVE  Fate(n)' = IF r.reports = "SUCCESS" THEN "succeeded" ELSE "answered"
<1>1. Len(replies'[n]) = 1 /\ replies'[n][1] = r
  OBVIOUS
<1>. QED
  BY <1>1 DEF Fate

\* A step that changes one call leaves the fates of the others.
LEMMA OtherFates ==
    ASSUME NEW n \in Calls,
           \A k \in Calls : k # n => replies'[k] = replies[k],
           \A k \in Calls : k # n => calls'[k] = calls[k],
           \A k \in Calls : k # n => ((k \in pending') <=> (k \in pending))
    PROVE  fates' = [fates EXCEPT ![n] = Fate(n)']
<1>1. ASSUME NEW k \in Calls, k # n PROVE Fate(k)' = Fate(k)
  <2>1. replies'[k] = replies[k] /\ calls'[k] = calls[k]
    BY <1>1
  <2>2. Made(k)' <=> Made(k)
    BY <2>1 DEF Made
  <2>3. (k \in pending') <=> (k \in pending)
    BY <1>1
  <2>. QED
    BY <2>1, <2>2, <2>3 DEF Fate
<1>. QED
  BY <1>1 DEF fates

\* A call is made: it is pending, answered otherwise than with a success, or
\* forgotten; or it is the last one.
LEMMA MakingView ==
    ASSUME IInv, IInv', ~crashed, NEW n \in Calls, NEW m \in Modems,
           NEW method \in AllMethods, NEW arg \in Nat, Making(n, m, method, arg)
    PROVE  Caller!Make(n) \/ Caller!Break(n)
<1>1. /\ calls'[n] = [method |-> method, modem |-> m, arg |-> arg]
      /\ \A k \in Calls : k # n => calls'[k] = calls[k]
  BY DEF IInv, TypeOK, Making
<1>2. Made(n)'
  BY <1>1, CallsAreMade DEF Made
<1>3. n \notin pending /\ replies[n] = << >> /\ fates[n] = "none"
  BY NoReply DEF IInv, OneReply, Requested, Making, fates
<1>4. CASE Accepted(n, method)
  <2>1. fates' = [fates EXCEPT ![n] = Fate(n)'] /\ Fate(n)' = "pending"
    BY <1>1, <1>3, <1>4, OtherFates, NoReplyNext DEF Accepted
  <2>. QED
    BY <1>3, <1>4, <2>1 DEF Accepted, Caller!Make, Caller!Becomes, fates
<1>5. CASE AnsweredAtOnce(n, method)
  <2>1. PICK r \in AllReplies :
            Honest(method, r) /\ r.said = "NOTHING" /\ Completes(n, r)
    BY <1>5 DEF AnsweredAtOnce
  <2>2. /\ replies'[n] = << r >>
        /\ \A k \in Calls : k # n => replies'[k] = replies[k]
    BY <1>3, <2>1, FirstReply DEF IInv
  <2>3. r.reports # "SUCCESS"
    BY <2>1 DEF Honest
  <2>4. fates' = [fates EXCEPT ![n] = Fate(n)'] /\ Fate(n)' = "answered"
    BY <1>1, <1>5, <2>2, <2>3, OtherFates, OneReplyNext DEF AnsweredAtOnce
  <2>. QED
    BY <1>3, <1>5, <2>4 DEF AnsweredAtOnce, Caller!Make, Caller!Becomes, fates
<1>6. CASE GivenUp(method) \/ Fatal([method |-> method, modem |-> m, arg |-> arg])
  <2>1. pending' = pending /\ replies' = replies
    BY <1>6 DEF GivenUp, Fatal
  <2>2. fates' = [fates EXCEPT ![n] = Fate(n)'] /\ Fate(n)' = "forgotten"
    BY <1>1, <1>2, <1>3, <2>1, OtherFates, NoReplyNext
  <2>3. crashed' = crashed \/ crashed' = TRUE
    BY <1>6 DEF GivenUp, Fatal
  <2>. QED
    BY <1>3, <2>2, <2>3 DEF Caller!Make, Caller!Break, Caller!Becomes, fates
<1>. QED
  BY <1>4, <1>5, <1>6 DEF Making

\* A response finishes a call that was pending.
LEMMA FinishingView ==
    ASSUME IInv, IInv', ~crashed, NEW n \in Calls, Finishing(n)
    PROVE  Caller!Finish(n)
<1>1. /\ n \in pending /\ calls' = calls /\ crashed' = crashed
      /\ pending' = pending \ {n}
  BY DEF Finishing
<1>2. replies[n] = << >> /\ Made(n) /\ fates[n] = "pending"
  BY <1>1, NoReply DEF IInv, OneReply, fates
<1>3. /\ \A k \in Calls : k # n => replies'[k] = replies[k]
      /\ Fate(n)' \in {"succeeded", "answered", "forgotten"}
  <2>1. CASE \E r \in AllReplies : Completes(n, r)
    <3>1. PICK r \in AllReplies : Completes(n, r)
      BY <2>1
    <3>2. /\ replies'[n] = << r >>
          /\ \A k \in Calls : k # n => replies'[k] = replies[k]
      BY <1>2, <3>1, FirstReply DEF IInv
    <3>3. Fate(n)' \in {"succeeded", "answered"}
      BY <3>2, OneReplyNext
    <3> QED
      BY <3>2, <3>3
  <2>2. CASE replies' = replies
    BY <1>1, <1>2, <2>2, NoReplyNext DEF Made
  <2>. QED
    BY <2>1, <2>2 DEF Finishing
<1>4. fates' = [fates EXCEPT ![n] = Fate(n)']
  BY <1>1, <1>3, OtherFates
<1>. QED
  BY <1>1, <1>2, <1>3, <1>4 DEF Caller!Finish, Caller!Becomes, fates

\* After the daemon is down there is no step.
LEMMA StepsOfTheLiving ==
    ASSUME Next
    PROVE  ~crashed
BY DEF Next, SomeCall, SomeResponse, Call, Response

\* For any number of modems and of calls that are pending at once, each call has the
\* life that Invocation describes.
THEOREM BrokerImplementsInvocation == Spec => CallerView
<1>1. Init => Caller!Init
  <2> SUFFICES ASSUME Init PROVE Caller!Init
    OBVIOUS
  <2>1. ASSUME NEW n \in Calls PROVE Fate(n) = "none"
    BY <2>1 DEF Init, Fate, Made
  <2>. QED
    BY <2>1 DEF Init, Caller!Init
<1>2. IInv /\ IInv' /\ [Next]_vars => [Caller!Next]_(Caller!vars)
  <2>1. ASSUME IInv, IInv', Next PROVE Caller!Next
    <3>1. PICK n \in Calls :
              \/ \E m \in Modems, method \in AllMethods, arg \in Nat :
                    Making(n, m, method, arg)
              \/ Finishing(n)
      BY <2>1, StepShape DEF IInv
    <3> QED
      BY <2>1, <3>1, StepsOfTheLiving, MakingView, FinishingView DEF Caller!Next
  <2>2. ASSUME UNCHANGED vars PROVE UNCHANGED Caller!vars
    BY <2>2 DEF vars, Caller!vars, Fate, Made
  <2>. QED
    BY <2>1, <2>2
<1>. QED
  BY <1>1, <1>2, InvariantHolds, PTL DEF Spec, CallerView, Caller!Spec
=============================================================================
