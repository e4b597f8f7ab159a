-------------------------------- MODULE Agps --------------------------------
(***************************************************************************)
(* Assisted-GPS data connections (gps/gnss/Agps.cpp, Agps.h and the AGPS   *)
(* commands of gps/gnss/GnssAdapter.cpp).                                  *)
(*                                                                         *)
(* The modem opens and closes "ATL" connection handles.  One reference     *)
(* counting state machine per network interface ("nif") shares a single    *)
(* data connection among the handles.  The connection of the nif "agnss"   *)
(* is set up by the Android framework behind the AGnss HAL, the one of the *)
(* nif "internet" by NativeAgpsHandler, which answers inside the request.  *)
(* Requests and reports meet in the adapter's message queue msgQ, whose    *)
(* only thread runs one Proc... action per message.                        *)
(***************************************************************************)
EXTENDS Naturals, Sequences

CONSTANTS
    Handles,      \* connection handles the modem uses
    Nifs,         \* state machines createAgpsStateMachines has made
    WdsQuery,     \* is libloc_api_wds.so there to be asked for the PDN type
    BadApn,       \* may an opened connection come with an APN name that
                  \* fails dataConnOpenCommand's length check
    MaxQueue,     \* bound: modem and network act only while msgQ and
                  \* fwQ are shorter than this
    MaxWds,       \* bound: PDN queries in flight per nif
    MaxRestarts   \* bound: modem restarts (SSR) in a behaviour

AllNifs == {"agnss", "internet"}

ASSUME NifsAssumption == Nifs \subseteq AllNifs
ASSUME FlagsAssumption == WdsQuery \in BOOLEAN /\ BadApn \in BOOLEAN
ASSUME BoundsAssumption == /\ MaxQueue \in Nat
                           /\ MaxWds \in Nat
                           /\ MaxRestarts \in Nat

VARIABLES
    state,      \* state[n]: AgpsStateMachine::mState
    subs,       \* subs[n]: handles in mSubscriberList
    inactive,   \* inactive[n]: those with mIsInactive
    msgQ,       \* the adapter's message queue
    wds,        \* wds[n]: PDN type queries waiting for the modem's answer
    connected,  \* NativeAgpsHandler::mConnected
    fwQ,        \* data connection requests the framework has not handled
    conn,       \* the framework's data connection for SUPL
    modem,      \* modem[h]: what the modem believes of a handle
    restarts    \* modem restarts so far

smVars == <<state, subs, inactive>>
envVars == <<connected, conn, restarts>>
vars == <<state, subs, inactive, msgQ, wds, connected, fwQ, conn, modem,
          restarts>>

AgpsState == {"RELEASED", "PENDING", "ACQUIRED", "RELEASING"}

\* "error" records an answer the handle was not waiting for.
ModemPhase == {"idle", "opening", "open", "closing", "error"}

Msg ==
    [m : {"requestATL"}, h : Handles, n : AllNifs]
    \cup [m : {"releaseATL"}, h : Handles]
    \cup [m : {"atlOpen", "atlPdn", "atlClosed", "atlFailed"}, n : Nifs]
    \cup [m : {"engineUp"}]

TypeOK ==
    /\ state \in [Nifs -> AgpsState]
    /\ subs \in [Nifs -> SUBSET Handles]
    /\ inactive \in [Nifs -> SUBSET Handles]
    /\ msgQ \in Seq(Msg)
    /\ wds \in [Nifs -> Nat]
    /\ connected \in BOOLEAN
    /\ fwQ \in Seq({"request", "release"})
    /\ conn \in {"closed", "opening", "open"}
    /\ modem \in [Handles -> ModemPhase]
    /\ restarts \in 0..MaxRestarts

Init ==
    /\ state = [n \in Nifs |-> "RELEASED"]
    /\ subs = [n \in Nifs |-> {}]
    /\ inactive = [n \in Nifs |-> {}]
    /\ msgQ = <<>>
    /\ wds = [n \in Nifs |-> 0]
    /\ connected = FALSE
    /\ fwQ = <<>>
    /\ conn = "closed"
    /\ modem = [h \in Handles |-> "idle"]
    /\ restarts = 0

-----------------------------------------------------------------------------
(* What the handlers are built from. *)

\* Mutant: mIsInactive is not looked at.
everyone(n) == subs[n]

active(n) == subs[n] \ inactive[n]

\* Mutant: the state machine never goes to RELEASING.
NeverLast(n, h) == FALSE

\* Mutant: any subscriber that goes starts the release.
AlwaysLast(n, h) == TRUE

\* Unless h, none of the subscribers of n is active.
LastActive(n, h) == active(n) \subseteq {h}

\* mAtlOpenStatusCb(h, 1, ...) for the handles in H.
Granted(H) == modem' = [h \in Handles |->
    IF h \notin H \/ modem[h] = "closing" THEN modem[h]
    ELSE IF modem[h] = "opening" THEN "open" ELSE "error"]

\* mAtlOpenStatusCb(h, 0, ...) for the handles in H.
Denied(H) == modem' = [h \in Handles |->
    IF h \notin H THEN modem[h]
    ELSE IF modem[h] \in {"opening", "closing"} THEN "idle" ELSE "error"]

\* mAtlCloseStatusCb(h, 1) for the handles in H.
Closed(H) == modem' = [h \in Handles |->
    IF h \notin H THEN modem[h]
    ELSE IF modem[h] \in {"open", "closing"} THEN "idle" ELSE "error"]

\* NativeAgpsHandler::processATLRequestRelease, called inside the handler: the
\* answer is a message to the adapter.  A bad APN is reported by a direct call
\* of reportAtlClosed, which finds the state machine RELEASED or PENDING and
\* does nothing.
NativeAnswers(r) ==
    IF r = "release" THEN {<<[m |-> "atlClosed", n |-> "internet"]>>}
    ELSE IF ~connected THEN {<<[m |-> "atlFailed", n |-> "internet"]>>}
    ELSE {<<[m |-> "atlOpen", n |-> "internet"]>>}
         \cup (IF BadApn THEN {<<>>} ELSE {})

\* Mutant: the request is lost.
requestUnsent(q, n, r) == fwQ' = fwQ /\ msgQ' = q

\* requestOrReleaseDataConn; q is the queue as the caller leaves it.
requestOrReleaseDataConn(q, n, r) ==
    \/ /\ n = "agnss"
       /\ fwQ' = Append(fwQ, r)
       /\ msgQ' = q
    \/ /\ n = "internet"
       /\ fwQ' = fwQ
       /\ \E a \in NativeAnswers(r) : msgQ' = q \o a

NoDataConn(q) == fwQ' = fwQ /\ msgQ' = q

Ignored(q) == NoDataConn(q) /\ UNCHANGED <<smVars, modem>>

Rest == Tail(msgQ)

Arrived(kind) == msgQ # <<>> /\ Head(msgQ).m = kind

-----------------------------------------------------------------------------
(* The handlers of the adapter's message thread. *)

\* AgpsManager::requestATL and processAgpsEventSubscribe.
Subscribe(n, h) ==
    /\ subs' = [subs EXCEPT ![n] = @ \cup {h}]
    /\ UNCHANGED inactive
    /\ \/ /\ state[n] = "RELEASED"
          /\ state' = [state EXCEPT ![n] = "PENDING"]
          /\ requestOrReleaseDataConn(Rest, n, "request")
          /\ UNCHANGED modem
       \/ /\ state[n] = "ACQUIRED"
          /\ Granted({h})
          /\ NoDataConn(Rest)
          /\ UNCHANGED state
       \/ /\ state[n] \in {"PENDING", "RELEASING"}
          /\ NoDataConn(Rest)
          /\ UNCHANGED <<state, modem>>

ProcRequestATL ==
    /\ Arrived("requestATL")
    /\ LET h == Head(msgQ).h
           n == Head(msgQ).n
       IN  \/ n \in Nifs /\ Subscribe(n, h)
           \/ /\ n \notin Nifs      \* no such state machine
              /\ Denied({h})
              /\ NoDataConn(Rest)
              /\ UNCHANGED smVars
    /\ UNCHANGED <<wds, envVars>>

\* processAgpsEventUnsubscribe.  Every subscriber is made with
\* mWaitForCloseComplete, so it stays in the list, inactive, until the
\* connection is closed.
Unsubscribe(n, h) ==
    /\ UNCHANGED subs
    /\ IF state[n] = "RELEASED"
       THEN /\ Closed({h})
            /\ NoDataConn(Rest)
            /\ UNCHANGED <<state, inactive>>
       ELSE /\ inactive' = [inactive EXCEPT ![n] = @ \cup {h}]
            /\ UNCHANGED modem
            /\ IF state[n] # "RELEASING" /\ LastActive(n, h)
               THEN /\ state' = [state EXCEPT ![n] = "RELEASING"]
                    /\ requestOrReleaseDataConn(Rest, n, "release")
               ELSE NoDataConn(Rest) /\ UNCHANGED state

\* AgpsManager::releaseATL looks in the agnss state machine first.
FoundIn(h) ==
    IF "agnss" \in Nifs /\ h \in subs["agnss"] THEN {"agnss"}
    ELSE {n \in Nifs : h \in subs[n]}

ProcReleaseATL ==
    /\ Arrived("releaseATL")
    /\ LET h == Head(msgQ).h
       IN  \/ \E n \in FoundIn(h) : Unsubscribe(n, h)
           \/ /\ FoundIn(h) = {}
              /\ Ignored(Rest)
    /\ UNCHANGED <<wds, envVars>>

\* processAgpsEventGranted; the states where it only logs are the last disjunct.
reportAtlOpenSuccess(n) ==
    /\ NoDataConn(Rest)
    /\ UNCHANGED <<subs, inactive>>
    /\ \/ /\ state[n] = "PENDING"
          /\ state' = [state EXCEPT ![n] = "ACQUIRED"]
          /\ Granted(active(n))
       \/ /\ state[n] # "PENDING"
          /\ UNCHANGED <<state, modem>>

\* AgpsMsgAtlOpenSuccess: with the WDS library the grant waits for the answer
\* to a query, otherwise it is processed at once.
ProcAtlOpen ==
    /\ Arrived("atlOpen")
    /\ LET n == Head(msgQ).n
       IN  \/ /\ WdsQuery
              /\ wds[n] < MaxWds
              /\ wds' = [wds EXCEPT ![n] = @ + 1]
              /\ Ignored(Rest)
           \/ /\ ~WdsQuery
              /\ reportAtlOpenSuccess(n)
              /\ UNCHANGED wds
    /\ UNCHANGED envVars

ProcAtlPdn ==
    /\ Arrived("atlPdn")
    /\ reportAtlOpenSuccess(Head(msgQ).n)
    /\ UNCHANGED <<wds, envVars>>

\* In RELEASING, processAgpsEventReleased and processAgpsEventDenied do the
\* same: the inactive subscribers are told and dropped, the others ask anew.
Drain(q, n) ==
    /\ state[n] = "RELEASING"
    /\ Closed(subs[n] \cap inactive[n])
    /\ subs' = [subs EXCEPT ![n] = active(n)]
    /\ inactive' = [inactive EXCEPT ![n] = {}]
    /\ IF active(n) # {}
       THEN /\ state' = [state EXCEPT ![n] = "PENDING"]
            /\ requestOrReleaseDataConn(q, n, "request")
       ELSE /\ state' = [state EXCEPT ![n] = "RELEASED"]
            /\ NoDataConn(q)

\* Mutant: the subscribers told are not deleted.
DropNone(q, n) ==
    /\ state' = [state EXCEPT ![n] = "RELEASED"]
    /\ UNCHANGED <<subs, inactive>>
    /\ NoDataConn(q)

\* notifyAllSubscribers with deleteSubscriberPostNotify, back in RELEASED.
DropAll(q, n) ==
    /\ state' = [state EXCEPT ![n] = "RELEASED"]
    /\ subs' = [subs EXCEPT ![n] = {}]
    /\ inactive' = [inactive EXCEPT ![n] = {}]
    /\ NoDataConn(q)

\* Mutant: a close nobody has asked for is ignored.
reportAtlClosedIgnored(q, n) ==
    Drain(q, n) \/ (state[n] # "RELEASING" /\ Ignored(q))

reportAtlClosed(q, n) ==
    \/ Drain(q, n)
    \/ /\ state[n] = "ACQUIRED"       \* forced release
       /\ Closed(subs[n])
       /\ DropAll(q, n)
    \/ /\ state[n] \in {"RELEASED", "PENDING"}
       /\ Ignored(q)

reportAtlOpenFailed(q, n) ==
    \/ Drain(q, n)
    \/ /\ state[n] = "PENDING"
       /\ Denied(subs[n])
       /\ DropAll(q, n)
    \/ /\ state[n] \in {"RELEASED", "ACQUIRED"}
       /\ Ignored(q)

ProcAtlClosed ==
    /\ Arrived("atlClosed")
    /\ reportAtlClosed(Rest, Head(msgQ).n)
    /\ UNCHANGED <<wds, envVars>>

ProcAtlFailed ==
    /\ Arrived("atlFailed")
    /\ reportAtlOpenFailed(Rest, Head(msgQ).n)
    /\ UNCHANGED <<wds, envVars>>

\* GnssAdapter::handleEngineUpEvent never reaches AgpsManager::handleModemSSR.
ProcEngineUp ==
    /\ Arrived("engineUp")
    /\ Ignored(Rest)
    /\ UNCHANGED <<wds, envVars>>

Proc == \/ ProcRequestATL \/ ProcReleaseATL \/ ProcAtlOpen \/ ProcAtlPdn
        \/ ProcAtlClosed \/ ProcAtlFailed \/ ProcEngineUp

-----------------------------------------------------------------------------
(* The modem: GnssAdapter::requestATL and releaseATL run in its QMI thread.  *)

Post(msg) == msgQ' = Append(msgQ, msg)

Room == Len(msgQ) < MaxQueue /\ Len(fwQ) < MaxQueue

RequestATL(h, n) ==
    /\ Room
    /\ modem[h] = "idle"
    /\ modem' = [modem EXCEPT ![h] = "opening"]
    /\ Post([m |-> "requestATL", h |-> h, n |-> n])
    /\ UNCHANGED <<smVars, wds, envVars, fwQ>>

ReleaseATL(h) ==
    /\ Room
    /\ modem[h] \in {"opening", "open"}
    /\ modem' = [modem EXCEPT ![h] = "closing"]
    /\ Post([m |-> "releaseATL", h |-> h])
    /\ UNCHANGED <<smVars, wds, envVars, fwQ>>

\* A modem restart (SSR): its handles are forgotten, the adapter gets an
\* engine-up event.
ModemRestart ==
    /\ restarts < MaxRestarts
    /\ restarts' = restarts + 1
    /\ modem' = [h \in Handles |-> "idle"]
    /\ Post([m |-> "engineUp"])
    /\ UNCHANGED <<smVars, wds, connected, conn, fwQ>>

\* The WDS client answers a PDN query: reportPdnTypeFromWds.
reportPdnTypeFromWds(n) ==
    /\ wds[n] > 0
    /\ wds' = [wds EXCEPT ![n] = @ - 1]
    /\ Post([m |-> "atlPdn", n |-> n])
    /\ UNCHANGED <<smVars, envVars, fwQ, modem>>

\* NativeAgpsHandler::notify: mobile data came or went.
NetworkNotify ==
    /\ Room
    /\ connected' = ~connected
    /\ UNCHANGED <<smVars, msgQ, wds, fwQ, conn, modem, restarts>>

-----------------------------------------------------------------------------
(* The Android framework behind the AGnss HAL, which reports SUPL only.      *)

FwRequest ==
    /\ fwQ # <<>> /\ Head(fwQ) = "request"
    /\ fwQ' = Tail(fwQ)
    /\ conn' = IF conn = "closed" THEN "opening" ELSE conn
    /\ UNCHANGED <<smVars, msgQ, wds, connected, modem, restarts>>

\* AGnss::dataConnClosed after a release; a connection that is not there is
\* not reported closed.
FwRelease ==
    /\ fwQ # <<>> /\ Head(fwQ) = "release"
    /\ fwQ' = Tail(fwQ)
    /\ conn' = "closed"
    /\ IF conn = "closed" THEN UNCHANGED msgQ
       ELSE Post([m |-> "atlClosed", n |-> "agnss"])
    /\ UNCHANGED <<smVars, wds, connected, modem, restarts>>

\* AGnss::dataConnOpen -> GnssAdapter::dataConnOpenCommand, good APN.
dataConnOpen ==
    /\ conn = "opening"
    /\ conn' = "open"
    /\ Post([m |-> "atlOpen", n |-> "agnss"])
    /\ UNCHANGED <<smVars, wds, connected, fwQ, modem, restarts>>

\* dataConnOpenCommand with a bad APN calls reportAtlClosed in the caller's
\* thread, past the queue.
dataConnOpenBadApn ==
    /\ BadApn
    /\ conn = "opening"
    /\ conn' = "open"
    /\ reportAtlClosed(msgQ, "agnss")
    /\ UNCHANGED <<wds, connected, restarts>>

dataConnFailed ==
    /\ conn = "opening"
    /\ conn' = "closed"
    /\ Post([m |-> "atlFailed", n |-> "agnss"])
    /\ UNCHANGED <<smVars, wds, connected, fwQ, modem, restarts>>

\* The network goes away under an open connection.
dataConnLost ==
    /\ Room
    /\ conn = "open"
    /\ conn' = "closed"
    /\ Post([m |-> "atlClosed", n |-> "agnss"])
    /\ UNCHANGED <<smVars, wds, connected, fwQ, modem, restarts>>

FwAnswer == dataConnOpen \/ dataConnOpenBadApn \/ dataConnFailed

Next ==
    \/ Proc
    \/ \E h \in Handles, n \in AllNifs : RequestATL(h, n)
    \/ \E h \in Handles : ReleaseATL(h)
    \/ ModemRestart
    \/ \E n \in Nifs : reportPdnTypeFromWds(n)
    \/ NetworkNotify
    \/ FwRequest \/ FwRelease \/ FwAnswer \/ dataConnLost

Spec == Init /\ [][Next]_vars

(***************************************************************************)
(* The message thread runs while there are messages; the framework takes   *)
(* its requests and answers a connection it is setting up; the WDS client  *)
(* calls back.  Nothing makes the modem release a handle.                  *)
(***************************************************************************)
FairSpec ==
    /\ Spec
    /\ WF_vars(Proc)
    /\ WF_vars(FwRequest \/ FwRelease)
    /\ WF_vars(FwAnswer)
    /\ \A n \in Nifs : WF_vars(reportPdnTypeFromWds(n))

-----------------------------------------------------------------------------
(* What the state machines promise. *)

\* A state machine that is RELEASED has no subscriber left behind, who would
\* wait for ever ("Subscriber list should be empty if we are in released
\* state", Agps.cpp:201).
ReleasedIsEmpty ==
    \A n \in Nifs : state[n] = "RELEASED" => subs[n] = {}

\* The data connection is asked for or kept only while an active subscriber
\* needs it: the last one to go always starts the release.
DemandedOnly ==
    \A n \in Nifs : state[n] \in {"PENDING", "ACQUIRED"} => active(n) # {}

\* No handle gets an answer it is not waiting for: each open is answered once,
\* nothing is closed that was not opened.
NoUnsolicitedAnswer == \A h \in Handles : modem[h] # "error"

\* A handle told that it is open stays an active subscriber of an ACQUIRED
\* state machine, whatever the other handles and the network do, until it
\* releases or is told of the close.
OpenIsHeld ==
    \A h \in Handles : modem[h] = "open" =>
        \E n \in Nifs : state[n] = "ACQUIRED" /\ h \in active(n)

\* State machine and framework agree about the data connection: in ACQUIRED it is up
\* ("We already have the data connection setup", Agps.cpp:93), or the report that it is
\* gone is on its way; in RELEASED there is none, or the request to give it back is still
\* to be handled.
ConnectionAgrees ==
    /\ "agnss" \in Nifs /\ state["agnss"] = "ACQUIRED" =>
           \/ conn = "open"
           \/ \E i \in 1..Len(msgQ) : msgQ[i] = [m |-> "atlClosed", n |-> "agnss"]
    /\ "agnss" \in Nifs /\ state["agnss"] = "RELEASED" /\ conn # "closed" =>
           \E i \in 1..Len(fwQ) : fwQ[i] = "release"

\* "Drop all subscribers, in case of Modem SSR" (Agps.h:198): when the queue
\* is empty every active subscriber is a handle the modem has in use; and no handle is
\* subscribed to both state machines, of which a release would find one.  Kept as long
\* as the modem does not restart (Agps_shared.cfg, Agps_ssr.cfg).
NoOrphanSubscriber ==
    /\ msgQ = <<>> =>
           \A n \in Nifs : \A h \in active(n) : modem[h] \in {"opening", "open"}
    /\ \A m, n \in Nifs : m # n => subs[m] \cap subs[n] = {}

\* Every open request is answered, with success or failure ("In case of
\* failure reporting the same", GnssAdapter.cpp:5315).
OpenIsAnswered ==
    \A h \in Handles : modem[h] = "opening" ~> modem[h] # "opening"

\* A release under way comes to its end: nobody stays in RELEASING.
ReleaseEnds ==
    \A n \in Nifs : state[n] = "RELEASING" ~> state[n] # "RELEASING"
=============================================================================
