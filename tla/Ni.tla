--------------------------------- MODULE Ni ---------------------------------
(***************************************************************************)
(* Network initiated positioning requests of GnssAdapter                   *)
(* (gps/gnss/GnssAdapter.cpp).  The modem's request is denied or accepted  *)
(* by policy, or shown to the user.  A request shown occupies one of two   *)
(* sessions, "sessionEs" for emergency SUPL, "session" for the others, and *)
(* a detached thread (niThreadProc) that waits for the user's response or  *)
(* a timeout, and sends the answer as a message.                           *)
(*                                                                         *)
(* The message thread reads a session's fields without its lock and takes  *)
(* the lock only to write the response; the NI thread leaves the lock      *)
(* before it clears reqID.                                                 *)
(***************************************************************************)
EXTENDS Naturals, Sequences

CONSTANTS
    Kinds,        \* kinds of requests the modem makes
    DenyLocked,   \* is NFW locked with NI_SUPL_DENY_ON_NFW_LOCKED set
    NoEmergencyServices, \* SUPL_ES is GNSS_CONFIG_SUPL_EMERGENCY_SERVICES_NO
    CpMtlrEs,     \* CP_MTLR_ES
    MaxRequests,  \* bound: requests in a behaviour
    MaxRestarts,  \* bound: modem restarts
    MaxChanges    \* bound: comings and goings of the client with gnssNiCb

\* em: during an emergency call; override: the privacy override option.
Kind == [type : {"supl", "es", "cp"}, em : BOOLEAN, override : BOOLEAN]

ASSUME KindsAssumption == Kinds \subseteq Kind
ASSUME FlagsAssumption == /\ DenyLocked \in BOOLEAN
                          /\ NoEmergencyServices \in BOOLEAN
                          /\ CpMtlrEs \in BOOLEAN

VARIABLES
    callback,  \* is there a client with a gnssNiCb
    raw,       \* raw[k]: rawRequest, the number of the request or 0.  A session
               \* with one has its thread in pthread_cond_timedwait
    reqID,     \* reqID[k]
    resp,      \* resp[k]
    recvd,     \* respRecvd[k]
    expired,   \* expired[k]: the thread's wait is over by timeout, the thread
               \* has not got the lock back yet
    leaving,   \* threads that have left the lock: [k, answer, r]
    counter,   \* reqIDCounter
    writes,    \* locked writes the message thread has decided on: [k, resp]
    msgQ,      \* the adapter's message queue
    requests,  \* requests[r]: the kind of request r
    shown,     \* shown[r]: the id the user was shown request r with, or 0
    said,      \* said[r]: the user's response, "none" before
    ended,     \* ended[r]: how request r has ended, each time
    overruled, \* requests whose session was told to go
    outdated,  \* requests whose session was open when the modem restarted
    restarts, changes  \* counters for the bounds

sessionVars == <<raw, reqID, resp, recvd>>
threadVars == <<expired, leaving>>
userVars == <<shown, said>>
modemVars == <<requests, outdated, restarts>>
clientVars == <<callback, changes>>
pastVars == <<ended, overruled>>
vars == <<sessionVars, threadVars, counter, writes, msgQ, userVars, pastVars,
          modemVars, clientVars>>

Names == {"session", "sessionEs"}

Init ==
    /\ callback = TRUE /\ changes = 0
    /\ raw = [k \in Names |-> 0] /\ reqID = [k \in Names |-> 0]
    /\ resp = [k \in Names |-> "none"] /\ recvd = [k \in Names |-> FALSE]
    /\ expired = [k \in Names |-> FALSE] /\ leaving = {}
    /\ counter = 0
    /\ writes = <<>> /\ msgQ = <<>>
    /\ requests = <<>> /\ shown = <<>> /\ said = <<>> /\ ended = <<>>
    /\ outdated = {} /\ overruled = {} /\ restarts = 0

-----------------------------------------------------------------------------
(* The message thread. *)

End(r, how) == ended' = [ended EXCEPT ![r] = Append(@, how)]

Ignore == [k |-> "session", resp |-> "IGNORE"]

Arrived(kind) == writes = <<>> /\ msgQ # <<>> /\ Head(msgQ).m = kind
                 /\ msgQ' = Tail(msgQ)

\* The policy of requestNiNotifyEvent.
Verdict(n) ==
    IF DenyLocked /\ n.type \in {"supl", "es"} /\ ~n.em /\ ~n.override THEN "DENY"
    ELSE IF n.type = "es" /\ ~n.em /\ ~NoEmergencyServices THEN "DENY"
    ELSE IF n.type = "cp" /\ n.em /\ CpMtlrEs THEN "ACCEPT"
    ELSE "ask"

\* requestNiNotify without a client to ask: an emergency request is accepted
\* and the other session told to go, any other request is dropped.
Unasked(r) ==
    /\ ~callback
    /\ IF requests[r].type = "es"
       THEN /\ End(r, "ACCEPT")
            /\ writes' = IF raw["session"] # 0 THEN <<Ignore>> ELSE <<>>
       ELSE UNCHANGED <<ended, writes>>
    /\ UNCHANGED <<raw, reqID, counter, shown>>

SessionOf(r) == IF requests[r].type = "es" THEN "sessionEs" ELSE "session"

\* Mutant: a new request takes a session in progress.
NeverBusy(k) == FALSE

Busy(k) == raw["sessionEs"] # 0 \/ (k = "session" /\ raw["session"] # 0)

\* requestNiNotify with one: the request is freed when a session is in
\* progress, else a session, a thread and the user's dialog are opened for it.
Ask(r) ==
    /\ callback
    /\ LET k == SessionOf(r)
       IN  IF Busy(k)
           THEN End(r, "freed") /\ UNCHANGED <<raw, reqID, counter, shown>>
           ELSE /\ raw' = [raw EXCEPT ![k] = r]
                /\ counter' = counter + 1
                /\ reqID' = [reqID EXCEPT ![k] = counter']
                /\ shown' = [shown EXCEPT ![r] = counter']
                /\ UNCHANGED ended
    /\ UNCHANGED writes

ProcNotify ==
    /\ Arrived("notify")
    /\ LET r == Head(msgQ).r
           v == Verdict(requests[r])
       IN  \/ /\ v # "ask"
              /\ End(r, v)
              /\ UNCHANGED <<raw, reqID, counter, writes, shown>>
           \/ v = "ask" /\ (Unasked(r) \/ Ask(r))
    /\ UNCHANGED <<resp, recvd, threadVars, said, overruled, modemVars, clientVars>>

\* gnssNiResponseCommand of the client: the fields are read here, and what is
\* to be written is written by Write.
ProcResponse ==
    /\ Arrived("response")
    /\ LET id == Head(msgQ).id
           answer == Head(msgQ).resp
           Match(k) == id = reqID[k] /\ raw[k] # 0
           toEs == [k |-> "sessionEs", resp |-> answer]
           toOther == [k |-> "session", resp |-> answer]
       IN  writes' =
             IF ~callback THEN <<>>
             ELSE IF Match("sessionEs")
             THEN IF answer = "ACCEPT" /\ raw["session"] # 0
                  THEN <<Ignore, toEs>> ELSE <<toEs>>
             ELSE IF Match("session") THEN <<toOther>> ELSE <<>>
    /\ UNCHANGED <<sessionVars, threadVars, counter, userVars, pastVars, modemVars, clientVars>>

Write ==
    /\ writes # <<>>
    /\ LET w == Head(writes)
       IN  /\ resp' = [resp EXCEPT ![w.k] = w.resp]
           /\ recvd' = [recvd EXCEPT ![w.k] = TRUE]
    /\ overruled' = IF Head(writes) # Ignore THEN overruled
                    ELSE overruled \cup ({raw["session"]} \ {0})
    /\ writes' = Tail(writes)
    /\ UNCHANGED <<raw, reqID, threadVars, counter, msgQ, userVars, ended, modemVars, clientVars>>

\* gnssNiResponseCommand of the NI thread: informNiResponse.
ProcInform ==
    /\ Arrived("inform")
    /\ End(Head(msgQ).r, Head(msgQ).resp)
    /\ UNCHANGED <<sessionVars, threadVars, counter, writes, userVars, overruled,
                   modemVars, clientVars>>

Proc == ProcNotify \/ ProcResponse \/ Write \/ ProcInform

-----------------------------------------------------------------------------
(* niThreadProc. *)

\* The wait for the response times out, ...
WaitExpires(k) ==
    /\ raw[k] # 0 /\ ~recvd[k] /\ ~expired[k]
    /\ expired' = [expired EXCEPT ![k] = TRUE]
    /\ UNCHANGED <<sessionVars, leaving, counter, writes, msgQ, userVars, pastVars,
                   modemVars, clientVars>>

WaitOver(k) == recvd[k] \/ expired[k]

\* ... or is not needed; with the lock the thread takes the answer and the
\* request out of the session, ...
TakeAnswer(k) ==
    /\ raw[k] # 0
    /\ WaitOver(k)
    /\ LET answer == IF expired[k] THEN "NO_RESPONSE" ELSE resp[k]
       IN  /\ resp' = [resp EXCEPT ![k] = answer]
           /\ leaving' = leaving \cup {[k |-> k, answer |-> answer, r |-> raw[k]]}
           /\ IF answer = "IGNORE" THEN End(raw[k], "freed") ELSE UNCHANGED ended
    /\ raw' = [raw EXCEPT ![k] = 0]
    /\ recvd' = [recvd EXCEPT ![k] = FALSE]
    /\ expired' = [expired EXCEPT ![k] = FALSE]
    /\ UNCHANGED <<reqID, counter, writes, msgQ, userVars, overruled, modemVars, clientVars>>

\* Mutant: an answer that is to be ignored is sent too.
sendAlways(t) == TRUE

sendResponse(t) == t.answer # "IGNORE"

\* ... and without it clears the id and sends the answer.
Leave(t) ==
    /\ t \in leaving
    /\ leaving' = leaving \ {t}
    /\ reqID' = [reqID EXCEPT ![t.k] = 0]
    /\ msgQ' = IF sendResponse(t)
               THEN Append(msgQ, [m |-> "inform", r |-> t.r, resp |-> t.answer])
               ELSE msgQ
    /\ UNCHANGED <<raw, resp, recvd, expired, counter, writes, userVars, pastVars,
                   modemVars, clientVars>>

Thread == \E k \in Names : WaitExpires(k) \/ TakeAnswer(k)

-----------------------------------------------------------------------------
(* Modem and user. *)

Post(msg) == msgQ' = Append(msgQ, msg)

ModemNotify(n) ==
    /\ Len(requests) < MaxRequests
    /\ requests' = Append(requests, n)
    /\ shown' = Append(shown, 0) /\ said' = Append(said, "none")
    /\ ended' = Append(ended, <<>>)
    /\ Post([m |-> "notify", r |-> Len(requests) + 1])
    /\ UNCHANGED <<sessionVars, threadVars, counter, writes, overruled, outdated,
                   restarts, clientVars>>

\* The user answers what was shown, however late.
UserAnswers(r, answer) ==
    /\ shown[r] # 0 /\ said[r] = "none"
    /\ said' = [said EXCEPT ![r] = answer]
    /\ Post([m |-> "response", id |-> shown[r], resp |-> answer])
    /\ UNCHANGED <<sessionVars, threadVars, counter, writes, shown, pastVars, modemVars, clientVars>>

\* The engine-up event that follows does not reach the sessions.
ModemRestart ==
    /\ restarts < MaxRestarts
    /\ restarts' = restarts + 1
    /\ outdated' = outdated \cup ({raw[k] : k \in Names} \ {0})
    /\ UNCHANGED <<sessionVars, threadVars, counter, writes, msgQ, userVars,
                   pastVars, requests, clientVars>>

\* MsgAddClient, MsgUpdateCallbacks or MsgRemoveClient of the client that has
\* the callback.
ClientChanges ==
    /\ writes = <<>>
    /\ changes < MaxChanges
    /\ changes' = changes + 1
    /\ callback' = ~callback
    /\ UNCHANGED <<sessionVars, threadVars, counter, writes, msgQ, userVars,
                   pastVars, modemVars>>

Next ==
    \/ Proc \/ Thread \/ (\E t \in leaving : Leave(t))
    \/ \E n \in Kinds : ModemNotify(n)
    \/ \E r \in 1..Len(requests), a \in {"ACCEPT", "DENY"} : UserAnswers(r, a)
    \/ ModemRestart \/ ClientChanges

Spec == Init /\ [][Next]_vars

\* The message thread and the NI threads run; every wait has its timeout.
FairSpec ==
    /\ Spec
    /\ WF_vars(Proc)
    /\ \A k \in Names : WF_vars(WaitExpires(k) \/ TakeAnswer(k))
    /\ WF_vars(\E t \in leaving : Leave(t))

-----------------------------------------------------------------------------
Requests == 1..Len(requests)
Answers == {"ACCEPT", "DENY", "NO_RESPONSE", "IGNORE"}
Message == [m : {"notify"}, r : Requests]
           \cup [m : {"response"}, id : 1..MaxRequests, resp : Answers]
           \cup [m : {"inform"}, r : Requests, resp : Answers]

TypeOK ==
    /\ requests \in Seq(Kinds) /\ Len(requests) <= MaxRequests
    /\ raw \in [Names -> {0} \cup Requests]
    /\ reqID \in [Names -> 0..MaxRequests]
    /\ resp \in [Names -> Answers \cup {"none"}]
    /\ recvd \in [Names -> BOOLEAN] /\ expired \in [Names -> BOOLEAN]
    /\ leaving \subseteq [k : Names, answer : Answers, r : Requests]
    /\ counter \in Nat
    /\ writes \in Seq([k : Names, resp : Answers])
    /\ msgQ \in Seq(Message)
    /\ shown \in [Requests -> 0..MaxRequests]
    /\ said \in [Requests -> Answers \cup {"none"}]
    /\ ended \in [Requests -> Seq(Answers \cup {"freed"})]
    /\ outdated \cup overruled \subseteq Requests /\ restarts \in Nat
    /\ callback \in BOOLEAN /\ changes \in Nat

\* The buffer of a request is handed to the modem or freed once, whatever
\* responses and timeouts meet: never answered twice, never used after free.
EndedOnce == \A r \in Requests : Len(ended[r]) <= 1

\* "Reset the user response flag for the next session" (GnssAdapter.cpp:4604):
\* the answer to a request is not a response meant for another.  Broken by the
\* write that comes after the reset (Ni_answers.cfg).
AnswerIsForRequest ==
    \A r \in Requests : \A i \in 1..Len(ended[r]) :
        shown[r] # 0 /\ ended[r][i] \in {"ACCEPT", "DENY"} => ended[r][i] = said[r]

\* "ID to check against response" (GnssAdapter.h): as long as a request waits
\* for its response the session has the id it was shown with.  Broken by the thread
\* before it, which clears the id late (Ni_answers.cfg).
IdIsShown == \A k \in Names : raw[k] # 0 => reqID[k] = shown[raw[k]]

\* "Ignore any SUPL NI non-Es session if a SUPL NI ES is accepted"
\* (GnssAdapter.cpp:3475): the session told to go does not answer any more.
\* Broken when its thread has the answer already (Ni_answers.cfg).
EsWins ==
    \A r \in overruled : \A i \in 1..Len(ended[r]) : ended[r][i] # "ACCEPT"

\* "to support modem restart ... the thread to exit without ... sending data"
\* (GnssAdapter.cpp:4606).  Nothing clears the session (Ni_restart.cfg).
NoAnswerAfterRestart ==
    \A r \in outdated : \A i \in 1..Len(ended[r]) : ended[r][i] = "freed"

\* Every request ends, by policy, by the user or by the timeout, as long as
\* there is a client to ask.
RequestEnds ==
    \A r \in 1..MaxRequests :
        (r \in Requests /\ ended[r] = <<>>)
        ~> (r \in Requests /\ (ended[r] # <<>> \/ changes > 0))
=============================================================================
