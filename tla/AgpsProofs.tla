----------------------------- MODULE AgpsProofs -----------------------------
(***************************************************************************)
(* Proofs about Agps, for every set of handles, every choice of state      *)
(* machines and every bound.  First the state machines by themselves, with *)
(* WDS queries, bad APNs and modem restarts allowed; then what the modem   *)
(* sees of its handles as long as it has not restarted, and what the       *)
(* framework's data connection has to do with the agnss state machine.     *)
(***************************************************************************)
EXTENDS Agps, SequenceTheorems, TLAPS

\* Inactive subscribers are subscribers.
InactiveSubscribe == \A n \in Nifs : inactive[n] \subseteq subs[n]

\* Without an agnss state machine the framework is never asked for anything,
\* so that its reports never meet a NULL state machine.
NoFramework == "agnss" \notin Nifs => fwQ = <<>> /\ conn = "closed"

SmType ==
    /\ state \in [Nifs -> AgpsState]
    /\ subs \in [Nifs -> SUBSET Handles]
    /\ inactive \in [Nifs -> SUBSET Handles]

SmInv == InactiveSubscribe /\ ReleasedIsEmpty /\ DemandedOnly

IInv == TypeOK /\ NoFramework /\ SmInv

-----------------------------------------------------------------------------
(* What an arrived message carries, and what is left of the queue. *)

LEMMA ArrivedMsg ==
    ASSUME msgQ \in Seq(Msg), msgQ # <<>>
    PROVE  /\ Head(msgQ) \in Msg
           /\ Rest \in Seq(Msg)
  BY DEF Rest

LEMMA RequestMsg ==
    ASSUME NEW x \in Msg, x.m = "requestATL"
    PROVE  x.h \in Handles /\ x.n \in AllNifs
  BY DEF Msg

LEMMA ReleaseMsg ==
    ASSUME NEW x \in Msg, x.m = "releaseATL"
    PROVE  x.h \in Handles
  BY DEF Msg

LEMMA ReportMsg ==
    ASSUME NEW x \in Msg, x.m \in {"atlOpen", "atlPdn", "atlClosed", "atlFailed"}
    PROVE  x.n \in Nifs
  BY DEF Msg

\* Asking for or giving up the data connection keeps the queues well formed.
LEMMA DataConnType ==
    ASSUME NEW q \in Seq(Msg),
           fwQ \in Seq({"request", "release"}), NoFramework,
           conn' = conn \/ (conn # "closed" /\ conn' = "open"),
           \/ \E n \in Nifs, r \in {"request", "release"} :
                 requestOrReleaseDataConn(q, n, r)
           \/ NoDataConn(q)
    PROVE  /\ msgQ' \in Seq(Msg)
           /\ fwQ' \in Seq({"request", "release"})
           /\ NoFramework'
  <1>1. CASE NoDataConn(q)
    BY <1>1 DEF NoDataConn, NoFramework
  <1>2. ASSUME NEW r \in {"request", "release"}, "agnss" \in Nifs,
               requestOrReleaseDataConn(q, "agnss", r)
        PROVE  /\ msgQ' \in Seq(Msg)
               /\ fwQ' \in Seq({"request", "release"})
               /\ NoFramework'
    <2>1. fwQ' = Append(fwQ, r) /\ msgQ' = q
      BY <1>2 DEF requestOrReleaseDataConn
    <2> QED
      BY <2>1, <1>2 DEF NoFramework
  <1>3. ASSUME NEW r \in {"request", "release"}, "internet" \in Nifs,
               requestOrReleaseDataConn(q, "internet", r)
        PROVE  /\ msgQ' \in Seq(Msg)
               /\ fwQ' \in Seq({"request", "release"})
               /\ NoFramework'
    <2>1. fwQ' = fwQ /\ \E a \in NativeAnswers(r) : msgQ' = q \o a
      BY <1>3 DEF requestOrReleaseDataConn
    <2>2. \A a \in NativeAnswers(r) : a \in Seq(Msg)
      <3>1. \A k \in {"atlOpen", "atlClosed", "atlFailed"} :
               [m |-> k, n |-> "internet"] \in Msg
        BY <1>3 DEF Msg
      <3>2. /\ <<[m |-> "atlOpen", n |-> "internet"]>> \in Seq(Msg)
            /\ <<[m |-> "atlClosed", n |-> "internet"]>> \in Seq(Msg)
            /\ <<[m |-> "atlFailed", n |-> "internet"]>> \in Seq(Msg)
            /\ << >> \in Seq(Msg)
        BY <3>1
      <3> QED
        BY <3>2 DEF NativeAnswers
    <2>3. msgQ' \in Seq(Msg)
      BY <2>1, <2>2
    <2> QED
      BY <2>1, <2>3 DEF NoFramework
  <1> QED
    BY <1>1, <1>2, <1>3, NifsAssumption DEF AllNifs

\* The answers to the modem keep its view well formed.
LEMMA AnswerType ==
    ASSUME modem \in [Handles -> ModemPhase], NEW H,
           Granted(H) \/ Denied(H) \/ Closed(H) \/ modem' = modem
    PROVE  modem' \in [Handles -> ModemPhase]
  BY DEF Granted, Denied, Closed, ModemPhase

-----------------------------------------------------------------------------
(* Each event of a state machine keeps SmType and SmInv. *)

LEMMA SubscribeInv ==
    ASSUME SmType, SmInv, NEW n \in Nifs, NEW h \in Handles, Subscribe(n, h)
    PROVE  SmType' /\ SmInv'
  <1>1. /\ subs' = [subs EXCEPT ![n] = @ \cup {h}]
        /\ inactive' = inactive
        /\ \/ state[n] = "RELEASED" /\ state' = [state EXCEPT ![n] = "PENDING"]
           \/ state[n] # "RELEASED" /\ state' = state
    BY DEF Subscribe
  <1>2. SmType'
    BY <1>1 DEF SmType, AgpsState
  <1>3. InactiveSubscribe'
    BY <1>1, <1>2 DEF SmType, SmInv, InactiveSubscribe
  <1>4. ReleasedIsEmpty'
    BY <1>1, <1>2 DEF SmType, SmInv, ReleasedIsEmpty
  <1>5. DemandedOnly'
    <2> SUFFICES ASSUME NEW k \in Nifs, state'[k] \in {"PENDING", "ACQUIRED"}
                 PROVE  active(k)' # {}
      BY DEF DemandedOnly
    <2>1. CASE k = n /\ state[n] = "RELEASED"
      <3>1. subs'[n] = {h} /\ inactive'[n] = {}
        BY <1>1, <2>1 DEF SmType, SmInv, ReleasedIsEmpty, InactiveSubscribe
      <3> QED
        BY <3>1, <2>1 DEF active
    <2>2. CASE ~(k = n /\ state[n] = "RELEASED")
      <3>1. active(k) # {}
        BY <1>1, <2>2 DEF SmType, SmInv, DemandedOnly
      <3>2. active(k) \subseteq active(k)'
        BY <1>1 DEF active, SmType
      <3> QED
        BY <3>1, <3>2
    <2> QED
      BY <2>1, <2>2
  <1> QED
    BY <1>2, <1>3, <1>4, <1>5 DEF SmInv

LEMMA UnsubscribeInv ==
    ASSUME SmType, SmInv, NEW n \in Nifs, NEW h \in subs[n], Unsubscribe(n, h)
    PROVE  SmType' /\ SmInv'
  <1>1. state[n] # "RELEASED"
    BY DEF SmInv, ReleasedIsEmpty
  <1>2. /\ subs' = subs
        /\ inactive' = [inactive EXCEPT ![n] = @ \cup {h}]
        /\ \/ state[n] # "RELEASING" /\ active(n) \subseteq {h}
              /\ state' = [state EXCEPT ![n] = "RELEASING"]
           \/ (state[n] = "RELEASING" \/ ~(active(n) \subseteq {h}))
              /\ state' = state
    BY <1>1 DEF Unsubscribe, LastActive
  <1>3. SmType'
    BY <1>2 DEF SmType, AgpsState
  <1>4. InactiveSubscribe'
    BY <1>2 DEF SmType, SmInv, InactiveSubscribe
  <1>5. ReleasedIsEmpty'
    BY <1>1, <1>2 DEF SmType, SmInv, ReleasedIsEmpty
  <1>6. DemandedOnly'
    <2> SUFFICES ASSUME NEW k \in Nifs, state'[k] \in {"PENDING", "ACQUIRED"}
                 PROVE  active(k)' # {}
      BY DEF DemandedOnly
    <2>1. state[k] \in {"PENDING", "ACQUIRED"}
      BY <1>2 DEF SmType
    <2>2. CASE k = n
      <3>1. ~(active(n) \subseteq {h})
        BY <1>2, <2>1, <2>2 DEF SmType
      <3> QED
        BY <1>2, <2>2, <3>1 DEF active, SmType
    <2>3. CASE k # n
      <3>1. active(k)' = active(k)
        BY <1>2, <2>3 DEF active, SmType
      <3> QED
        BY <3>1, <2>1 DEF SmInv, DemandedOnly
    <2> QED
      BY <2>2, <2>3
  <1> QED
    BY <1>3, <1>4, <1>5, <1>6 DEF SmInv

LEMMA GrantInv ==
    ASSUME SmType, SmInv, NEW n \in Nifs, reportAtlOpenSuccess(n)
    PROVE  SmType' /\ SmInv'
  <1>1. /\ subs' = subs /\ inactive' = inactive
        /\ \/ state[n] = "PENDING" /\ state' = [state EXCEPT ![n] = "ACQUIRED"]
           \/ state' = state
    BY DEF reportAtlOpenSuccess
  <1>2. SmType'
    BY <1>1 DEF SmType, AgpsState
  <1>3. \A k \in Nifs : active(k)' = active(k)
    BY <1>1 DEF active
  <1> QED
    BY <1>1, <1>2, <1>3
    DEF SmType, SmInv, InactiveSubscribe, ReleasedIsEmpty, DemandedOnly

LEMMA DrainInv ==
    ASSUME SmType, SmInv, NEW n \in Nifs, NEW q, Drain(q, n)
    PROVE  SmType' /\ SmInv'
  <1>1. /\ subs' = [subs EXCEPT ![n] = active(n)]
        /\ inactive' = [inactive EXCEPT ![n] = {}]
        /\ \/ active(n) # {} /\ state' = [state EXCEPT ![n] = "PENDING"]
           \/ active(n) = {} /\ state' = [state EXCEPT ![n] = "RELEASED"]
    BY DEF Drain
  <1>2. SmType'
    BY <1>1 DEF SmType, AgpsState, active
  <1>3. \A k \in Nifs : active(k)' = active(k)
    BY <1>1 DEF SmType, active
  <1> QED
    BY <1>1, <1>2, <1>3
    DEF SmType, SmInv, InactiveSubscribe, ReleasedIsEmpty, DemandedOnly

LEMMA DropAllInv ==
    ASSUME SmType, SmInv, NEW n \in Nifs, NEW q, DropAll(q, n)
    PROVE  SmType' /\ SmInv'
  <1>1. /\ subs' = [subs EXCEPT ![n] = {}]
        /\ inactive' = [inactive EXCEPT ![n] = {}]
        /\ state' = [state EXCEPT ![n] = "RELEASED"]
    BY DEF DropAll
  <1>2. SmType'
    BY <1>1 DEF SmType, AgpsState
  <1>3. \A k \in Nifs \ {n} : active(k)' = active(k)
    BY <1>1 DEF SmType, active
  <1> QED
    BY <1>1, <1>2, <1>3
    DEF SmType, SmInv, InactiveSubscribe, ReleasedIsEmpty, DemandedOnly

LEMMA SameSmInv ==
    ASSUME SmType, SmInv, UNCHANGED smVars
    PROVE  SmType' /\ SmInv'
  BY DEF smVars, SmType, SmInv, InactiveSubscribe, ReleasedIsEmpty, DemandedOnly,
         active

LEMMA ClosedInv ==
    ASSUME SmType, SmInv, NEW n \in Nifs, NEW q, reportAtlClosed(q, n)
    PROVE  SmType' /\ SmInv'
  BY DrainInv, DropAllInv, SameSmInv DEF reportAtlClosed, Ignored

LEMMA FailedInv ==
    ASSUME SmType, SmInv, NEW n \in Nifs, NEW q, reportAtlOpenFailed(q, n)
    PROVE  SmType' /\ SmInv'
  BY DrainInv, DropAllInv, SameSmInv DEF reportAtlOpenFailed, Ignored

-----------------------------------------------------------------------------
(* The invariant. *)

LEMMA InitIInv == Init => IInv
  <1> SUFFICES ASSUME Init PROVE IInv
    OBVIOUS
  <1>1. TypeOK
    <2>1. /\ state \in [Nifs -> AgpsState]
          /\ subs \in [Nifs -> SUBSET Handles]
          /\ inactive \in [Nifs -> SUBSET Handles]
      BY DEF Init, AgpsState
    <2>2. msgQ \in Seq(Msg) /\ fwQ \in Seq({"request", "release"})
      BY DEF Init
    <2>3. wds \in [Nifs -> Nat] /\ modem \in [Handles -> ModemPhase]
      BY DEF Init, ModemPhase
    <2>4. restarts \in 0..MaxRestarts
      BY BoundsAssumption DEF Init
    <2> QED
      BY <2>1, <2>2, <2>3, <2>4 DEF Init, TypeOK
  <1>2. NoFramework /\ SmInv
    BY DEF Init, NoFramework, SmInv, InactiveSubscribe, ReleasedIsEmpty,
           DemandedOnly, active
  <1> QED
    BY <1>1, <1>2 DEF IInv

\* What a step leaves well formed besides the state machines.
RestType ==
    /\ msgQ \in Seq(Msg)
    /\ wds \in [Nifs -> Nat]
    /\ connected \in BOOLEAN
    /\ fwQ \in Seq({"request", "release"})
    /\ conn \in {"closed", "opening", "open"}
    /\ modem \in [Handles -> ModemPhase]
    /\ restarts \in 0..MaxRestarts
    /\ NoFramework

LEMMA Parts == IInv <=> SmType /\ RestType /\ SmInv
  BY DEF IInv, TypeOK, SmType, RestType

\* A handler that takes the head of the queue with one of the data connection
\* and answer operators keeps the rest well formed.
LEMMA HandlerRest ==
    ASSUME RestType, NEW q \in Seq(Msg), NEW H,
           \/ \E n \in Nifs, r \in {"request", "release"} :
                 requestOrReleaseDataConn(q, n, r)
           \/ NoDataConn(q),
           Granted(H) \/ Denied(H) \/ Closed(H) \/ modem' = modem,
           wds' \in [Nifs -> Nat], connected' = connected,
           conn' = conn \/ (conn # "closed" /\ conn' = "open"),
           restarts' = restarts
    PROVE  RestType'
  <1>1. modem' \in [Handles -> ModemPhase]
    BY AnswerType DEF RestType
  <1>2. /\ msgQ' \in Seq(Msg)
        /\ fwQ' \in Seq({"request", "release"})
        /\ NoFramework'
    BY DataConnType DEF RestType
  <1>3. conn' \in {"closed", "opening", "open"}
    BY DEF RestType
  <1> QED
    BY <1>1, <1>2, <1>3 DEF RestType

LEMMA ClosedRest ==
    ASSUME RestType, NEW q \in Seq(Msg), NEW n \in Nifs, reportAtlClosed(q, n),
           wds' = wds, connected' = connected,
           conn' = conn \/ (conn # "closed" /\ conn' = "open"),
           restarts' = restarts
    PROVE  RestType'
  <1>1. /\ \/ \E k \in Nifs, r \in {"request", "release"} :
                 requestOrReleaseDataConn(q, k, r)
           \/ NoDataConn(q)
        /\ \/ Closed(subs[n] \cap inactive[n]) \/ Closed(subs[n])
           \/ modem' = modem
    BY DEF reportAtlClosed, Drain, DropAll, Ignored
  <1>2. wds' \in [Nifs -> Nat]
    BY DEF RestType
  <1> QED
    BY <1>1, <1>2, HandlerRest

\* A message posted by another thread.
LEMMA PostType ==
    ASSUME msgQ \in Seq(Msg), NEW x \in Msg, Post(x)
    PROVE  msgQ' \in Seq(Msg)
  BY DEF Post

LEMMA ProcInv ==
    ASSUME IInv, Proc
    PROVE  IInv'
  <1> USE DEF envVars
  <1>0. SmType /\ RestType /\ SmInv
    BY Parts
  <1>q. ASSUME msgQ # <<>>
        PROVE  Head(msgQ) \in Msg /\ Rest \in Seq(Msg)
    BY <1>0, <1>q, ArrivedMsg DEF RestType
  <1>w. wds' = wds => wds' \in [Nifs -> Nat]
    BY <1>0 DEF RestType
  <1>1. CASE ProcRequestATL
    <2> DEFINE h == Head(msgQ).h
               n == Head(msgQ).n
    <2>1. h \in Handles /\ Rest \in Seq(Msg)
      BY <1>1, <1>q, RequestMsg DEF ProcRequestATL, Arrived
    <2>2. CASE n \in Nifs /\ Subscribe(n, h)
      <3>1. SmType' /\ SmInv'
        BY <2>1, <2>2, <1>0, SubscribeInv
      <3>2. /\ NoDataConn(Rest) \/ requestOrReleaseDataConn(Rest, n, "request")
            /\ Granted({h}) \/ modem' = modem
        BY <2>2 DEF Subscribe
      <3>3. RestType'
        BY <3>2, <2>1, <2>2, <1>0, <1>1, <1>w, HandlerRest DEF ProcRequestATL
      <3> QED
        BY <3>1, <3>3 DEF IInv, TypeOK, SmType, RestType
    <2>3. CASE n \notin Nifs /\ Denied({h}) /\ NoDataConn(Rest) /\ UNCHANGED smVars
      <3>1. SmType' /\ SmInv'
        BY <2>3, <1>0, SameSmInv
      <3>2. RestType'
        BY <2>1, <2>3, <1>0, <1>1, <1>w, HandlerRest DEF ProcRequestATL
      <3> QED
        BY <3>1, <3>2 DEF IInv, TypeOK, SmType, RestType
    <2> QED
      BY <2>2, <2>3, <1>1 DEF ProcRequestATL
  <1>2. CASE ProcReleaseATL
    <2> DEFINE h == Head(msgQ).h
    <2>1. h \in Handles /\ Rest \in Seq(Msg)
      BY <1>2, <1>q, ReleaseMsg DEF ProcReleaseATL, Arrived
    <2>2. ASSUME NEW n \in FoundIn(h), Unsubscribe(n, h)
          PROVE  IInv'
      <3>1. n \in Nifs /\ h \in subs[n]
        BY <2>2 DEF FoundIn
      <3>2. SmType' /\ SmInv'
        BY <2>2, <3>1, <1>0, UnsubscribeInv
      <3>3. /\ NoDataConn(Rest) \/ requestOrReleaseDataConn(Rest, n, "release")
            /\ Closed({h}) \/ modem' = modem
        BY <2>2 DEF Unsubscribe
      <3>4. RestType'
        BY <3>1, <3>3, <2>1, <1>0, <1>2, <1>w, HandlerRest DEF ProcReleaseATL
      <3> QED
        BY <3>2, <3>4 DEF IInv, TypeOK, SmType, RestType
    <2>3. CASE Ignored(Rest)
      <3>1. SmType' /\ SmInv'
        BY <2>3, <1>0, SameSmInv DEF Ignored
      <3>2. RestType'
        BY <2>1, <2>3, <1>0, <1>2, <1>w, HandlerRest DEF ProcReleaseATL, Ignored
      <3> QED
        BY <3>1, <3>2 DEF IInv, TypeOK, SmType, RestType
    <2> QED
      BY <2>2, <2>3, <1>2 DEF ProcReleaseATL
  <1>3. ASSUME NEW n \in Nifs, reportAtlOpenSuccess(n), UNCHANGED <<wds, envVars>>,
               msgQ # <<>>
        PROVE  IInv'
    <2>1. SmType' /\ SmInv'
      BY <1>3, <1>0, GrantInv
    <2>2. NoDataConn(Rest) /\ (Granted(active(n)) \/ modem' = modem)
      BY <1>3 DEF reportAtlOpenSuccess
    <2>3. RestType'
      BY <2>2, <1>0, <1>3, <1>q, <1>w, HandlerRest
    <2> QED
      BY <2>1, <2>3 DEF IInv, TypeOK, SmType, RestType
  <1>4. CASE ProcAtlOpen
    <2> DEFINE n == Head(msgQ).n
    <2>1. n \in Nifs /\ Rest \in Seq(Msg) /\ msgQ # <<>>
      BY <1>4, <1>q, ReportMsg DEF ProcAtlOpen, Arrived
    <2>2. CASE wds' = [wds EXCEPT ![n] = @ + 1] /\ Ignored(Rest)
      <3>1. wds' \in [Nifs -> Nat]
        BY <2>1, <2>2, <1>0 DEF RestType
      <3>2. SmType' /\ SmInv'
        BY <2>2, <1>0, SameSmInv DEF Ignored
      <3>3. RestType'
        BY <2>1, <2>2, <3>1, <1>0, <1>4, HandlerRest DEF ProcAtlOpen, Ignored
      <3> QED
        BY <3>2, <3>3 DEF IInv, TypeOK, SmType, RestType
    <2> QED
      BY <2>1, <2>2, <1>3, <1>4 DEF ProcAtlOpen
  <1>5. CASE ProcAtlPdn
    <2>1. Head(msgQ).n \in Nifs /\ msgQ # <<>>
      BY <1>5, <1>q, ReportMsg DEF ProcAtlPdn, Arrived
    <2> QED
      BY <2>1, <1>3, <1>5 DEF ProcAtlPdn
  <1>6. CASE ProcAtlClosed
    <2> DEFINE n == Head(msgQ).n
    <2>1. n \in Nifs /\ Rest \in Seq(Msg)
      BY <1>6, <1>q, ReportMsg DEF ProcAtlClosed, Arrived
    <2>2. SmType' /\ SmInv'
      BY <2>1, <1>0, <1>6, ClosedInv DEF ProcAtlClosed
    <2>3. RestType'
      BY <2>1, <1>0, <1>6, <1>w, ClosedRest DEF ProcAtlClosed
    <2> QED
      BY <2>2, <2>3 DEF IInv, TypeOK, SmType, RestType
  <1>7. CASE ProcAtlFailed
    <2> DEFINE n == Head(msgQ).n
    <2>1. n \in Nifs /\ Rest \in Seq(Msg)
      BY <1>7, <1>q, ReportMsg DEF ProcAtlFailed, Arrived
    <2>2. SmType' /\ SmInv'
      BY <2>1, <1>0, <1>7, FailedInv DEF ProcAtlFailed
    <2>3. /\ \/ \E k \in Nifs, r \in {"request", "release"} :
                   requestOrReleaseDataConn(Rest, k, r)
             \/ NoDataConn(Rest)
          /\ \/ Closed(subs[n] \cap inactive[n]) \/ Denied(subs[n])
             \/ modem' = modem
      BY <2>1, <1>7 DEF ProcAtlFailed, reportAtlOpenFailed, Drain, DropAll, Ignored
    <2>4. RestType'
      BY <2>1, <2>3, <1>0, <1>7, <1>w, HandlerRest DEF ProcAtlFailed
    <2> QED
      BY <2>2, <2>4 DEF IInv, TypeOK, SmType, RestType
  <1>8. CASE ProcEngineUp
    <2>1. SmType' /\ SmInv'
      BY <1>8, <1>0, SameSmInv DEF ProcEngineUp, Ignored
    <2>2. RestType'
      BY <1>8, <1>0, <1>q, <1>w, HandlerRest DEF ProcEngineUp, Ignored, Arrived
    <2> QED
      BY <2>1, <2>2 DEF IInv, TypeOK, SmType, RestType
  <1> QED
    BY <1>1, <1>2, <1>4, <1>5, <1>6, <1>7, <1>8 DEF Proc

LEMMA NextInv ==
    ASSUME IInv, [Next]_vars
    PROVE  IInv'
  <1> USE DEF envVars
  <1>0. SmType /\ RestType /\ SmInv
    BY Parts
  <1>s. UNCHANGED smVars => SmType' /\ SmInv'
    BY <1>0, SameSmInv
  <1>1. CASE Proc
    BY <1>1, ProcInv
  <1>2. ASSUME NEW h \in Handles, NEW n \in AllNifs, RequestATL(h, n)
        PROVE  IInv'
    <2>1. [m |-> "requestATL", h |-> h, n |-> n] \in Msg
      BY <1>2 DEF Msg
    <2>2. msgQ' \in Seq(Msg)
      BY <2>1, <1>0, <1>2, PostType DEF RequestATL, RestType
    <2>3. modem' \in [Handles -> ModemPhase]
      BY <1>0, <1>2 DEF RequestATL, RestType, ModemPhase
    <2>4. RestType'
      BY <2>2, <2>3, <1>0, <1>2 DEF RequestATL, RestType, NoFramework
    <2> QED
      BY <2>4, <1>s, <1>2 DEF RequestATL, IInv, TypeOK, SmType, RestType
  <1>3. ASSUME NEW h \in Handles, ReleaseATL(h)
        PROVE  IInv'
    <2>1. [m |-> "releaseATL", h |-> h] \in Msg
      BY <1>3 DEF Msg
    <2>2. msgQ' \in Seq(Msg)
      BY <2>1, <1>0, <1>3, PostType DEF ReleaseATL, RestType
    <2>3. modem' \in [Handles -> ModemPhase]
      BY <1>0, <1>3 DEF ReleaseATL, RestType, ModemPhase
    <2>4. RestType'
      BY <2>2, <2>3, <1>0, <1>3 DEF ReleaseATL, RestType, NoFramework
    <2> QED
      BY <2>4, <1>s, <1>3 DEF ReleaseATL, IInv, TypeOK, SmType, RestType
  <1>4. CASE ModemRestart
    <2>1. [m |-> "engineUp"] \in Msg
      BY DEF Msg
    <2>2. msgQ' \in Seq(Msg)
      BY <2>1, <1>0, <1>4, PostType DEF ModemRestart, RestType
    <2>3. modem' \in [Handles -> ModemPhase]
      BY <1>4 DEF ModemRestart, ModemPhase
    <2>4. restarts' \in 0..MaxRestarts
      BY <1>0, <1>4, BoundsAssumption DEF ModemRestart, RestType
    <2>5. RestType'
      BY <2>2, <2>3, <2>4, <1>0, <1>4 DEF ModemRestart, RestType, NoFramework
    <2> QED
      BY <2>5, <1>s, <1>4 DEF ModemRestart, IInv, TypeOK, SmType, RestType
  <1>5. ASSUME NEW n \in Nifs, reportPdnTypeFromWds(n)
        PROVE  IInv'
    <2>1. [m |-> "atlPdn", n |-> n] \in Msg
      BY <1>5 DEF Msg
    <2>2. msgQ' \in Seq(Msg)
      BY <2>1, <1>0, <1>5, PostType DEF reportPdnTypeFromWds, RestType
    <2>3. wds' \in [Nifs -> Nat]
      BY <1>0, <1>5 DEF reportPdnTypeFromWds, RestType
    <2>4. RestType'
      BY <2>2, <2>3, <1>0, <1>5 DEF reportPdnTypeFromWds, RestType, NoFramework
    <2> QED
      BY <2>4, <1>s, <1>5 DEF reportPdnTypeFromWds, IInv, TypeOK, SmType, RestType
  <1>6. CASE NetworkNotify
    <2>1. RestType'
      BY <1>0, <1>6 DEF NetworkNotify, RestType, NoFramework
    <2> QED
      BY <2>1, <1>s, <1>6 DEF NetworkNotify, IInv, TypeOK, SmType, RestType
  <1>7. CASE FwRequest
    <2>1. "agnss" \in Nifs
      BY <1>0, <1>7 DEF FwRequest, RestType, NoFramework
    <2>2. fwQ' \in Seq({"request", "release"})
      BY <1>0, <1>7 DEF FwRequest, RestType
    <2>3. RestType'
      BY <2>1, <2>2, <1>0, <1>7 DEF FwRequest, RestType, NoFramework
    <2> QED
      BY <2>3, <1>s, <1>7 DEF FwRequest, IInv, TypeOK, SmType, RestType
  <1>8. CASE FwRelease
    <2>1. "agnss" \in Nifs
      BY <1>0, <1>8 DEF FwRelease, RestType, NoFramework
    <2>2. fwQ' \in Seq({"request", "release"})
      BY <1>0, <1>8 DEF FwRelease, RestType
    <2>3. msgQ' \in Seq(Msg)
      <3>1. [m |-> "atlClosed", n |-> "agnss"] \in Msg
        BY <2>1 DEF Msg
      <3> QED
        BY <3>1, <1>0, <1>8, PostType DEF FwRelease, RestType
    <2>4. RestType'
      BY <2>1, <2>2, <2>3, <1>0, <1>8 DEF FwRelease, RestType, NoFramework
    <2> QED
      BY <2>4, <1>s, <1>8 DEF FwRelease, IInv, TypeOK, SmType, RestType
  <1>9. CASE dataConnOpen \/ dataConnFailed \/ dataConnLost
    <2>1. "agnss" \in Nifs
      BY <1>0, <1>9 DEF dataConnOpen, dataConnFailed, dataConnLost, RestType,
                        NoFramework
    <2>2. \A k \in {"atlOpen", "atlClosed", "atlFailed"} :
             [m |-> k, n |-> "agnss"] \in Msg
      BY <2>1 DEF Msg
    <2>3. msgQ' \in Seq(Msg)
      BY <2>2, <1>0, <1>9, PostType
      DEF dataConnOpen, dataConnFailed, dataConnLost, RestType
    <2>4. RestType'
      BY <2>1, <2>3, <1>0, <1>9
      DEF dataConnOpen, dataConnFailed, dataConnLost, RestType, NoFramework
    <2> QED
      BY <2>4, <1>s, <1>9
      DEF dataConnOpen, dataConnFailed, dataConnLost, IInv, TypeOK, SmType, RestType
  <1>10. CASE dataConnOpenBadApn
    <2>1. "agnss" \in Nifs
      BY <1>0, <1>10 DEF dataConnOpenBadApn, RestType, NoFramework
    <2>2. SmType' /\ SmInv'
      BY <2>1, <1>0, <1>10, ClosedInv DEF dataConnOpenBadApn
    <2>3. RestType'
      BY <2>1, <1>0, <1>10, ClosedRest DEF dataConnOpenBadApn, RestType
    <2> QED
      BY <2>2, <2>3 DEF IInv, TypeOK, SmType, RestType
  <1>11. CASE UNCHANGED vars
    <2>1. RestType'
      BY <1>0, <1>11 DEF vars, RestType, NoFramework
    <2> QED
      BY <2>1, <1>s, <1>11 DEF vars, smVars, IInv, TypeOK, SmType, RestType
  <1> QED
    BY <1>1, <1>2, <1>3, <1>4, <1>5, <1>6, <1>7, <1>8, <1>9, <1>10, <1>11
    DEF Next, FwAnswer

\* The inductive invariant holds in every reachable state.
THEOREM Inductive == Spec => []IInv
  BY InitIInv, NextInv, PTL DEF Spec

\* Every variable keeps its type: in particular no message names a state
\* machine that createAgpsStateMachines has not made.
THEOREM TypeCorrect == Spec => []TypeOK
  BY Inductive, PTL DEF IInv

\* A RELEASED state machine has no subscriber waiting for an answer that will
\* not come, whatever the network, a WDS query or a modem restart does.
THEOREM ReleasedIsEmptyAlways == Spec => []ReleasedIsEmpty
  BY Inductive, PTL DEF IInv, SmInv

\* The data connection is requested or held only for an active subscriber.
THEOREM DemandedOnlyAlways == Spec => []DemandedOnly
  BY Inductive, PTL DEF IInv, SmInv

-----------------------------------------------------------------------------
(* What a queue q holds of a handle h.                                       *)

Asks(x, h) == x.m = "requestATL" /\ x.h = h

Gives(x, h) == x.m = "releaseATL" /\ x.h = h

Quiet(x, h) == ~Asks(x, h) /\ ~Gives(x, h)

NoAsk(q, h) == \A i \in 1..Len(q) : ~Asks(q[i], h)

NoGive(q, h) == \A i \in 1..Len(q) : ~Gives(q[i], h)

OneGive(q, h) ==
    \E i \in 1..Len(q) :
        /\ Gives(q[i], h)
        /\ \A j \in 1..Len(q) : Gives(q[j], h) => j = i

\* One request, and no release after it.
AskLast(q, h) ==
    \E i \in 1..Len(q) :
        /\ Asks(q[i], h)
        /\ \A j \in 1..Len(q) : /\ Asks(q[j], h) => j = i
                                /\ Gives(q[j], h) => j < i

\* One request, and one release after it.  A release before the request is
\* what is left of an earlier use that has been answered meanwhile.
AskGive(q, h) ==
    \E i, k \in 1..Len(q) :
        /\ i < k
        /\ Asks(q[i], h) /\ Gives(q[k], h)
        /\ \A j \in 1..Len(q) : /\ Asks(q[j], h) => j = i
                                /\ Gives(q[j], h) => j < i \/ j = k

\* r holds of h what q does.
SameNotes(q, r, h) ==
    /\ NoAsk(q, h) => NoAsk(r, h)
    /\ NoGive(q, h) => NoGive(r, h)
    /\ OneGive(q, h) => OneGive(r, h)
    /\ AskLast(q, h) => AskLast(r, h)
    /\ AskGive(q, h) => AskGive(r, h)

LEMMA NotesTransitive ==
    ASSUME NEW p, NEW q, NEW r, NEW h, SameNotes(p, q, h), SameNotes(q, r, h)
    PROVE  SameNotes(p, r, h)
  BY Zenon DEF SameNotes

LEMMA QuietAppend ==
    ASSUME NEW q \in Seq(Msg), NEW x \in Msg, NEW h, Quiet(x, h)
    PROVE  SameNotes(q, Append(q, x), h)
  <1> DEFINE r == Append(q, x)
  <1>1. /\ Len(q) \in Nat /\ Len(r) = Len(q) + 1
        /\ \A i \in 1..Len(q) : r[i] = q[i]
        /\ r[Len(q) + 1] = x
    OBVIOUS
  <1>2. /\ \A i \in 1..Len(r) : i \in 1..Len(q) \/ r[i] = x
        /\ \A i \in 1..Len(q) : i \in 1..Len(r)
        /\ \A i \in 1..Len(q) : i \in Nat
    BY <1>1
  <1> HIDE DEF r
  <1>3. NoAsk(q, h) => NoAsk(r, h)
    BY <1>1, <1>2 DEF NoAsk, Quiet
  <1>4. NoGive(q, h) => NoGive(r, h)
    BY <1>1, <1>2 DEF NoGive, Quiet
  <1>5. OneGive(q, h) => OneGive(r, h)
    BY <1>1, <1>2 DEF OneGive, Quiet
  <1>6. AskLast(q, h) => AskLast(r, h)
    BY <1>1, <1>2 DEF AskLast, Quiet
  <1>7. AskGive(q, h) => AskGive(r, h)
    BY <1>1, <1>2 DEF AskGive, Quiet
  <1> QED
    BY <1>3, <1>4, <1>5, <1>6, <1>7 DEF SameNotes, r

LEMMA TailPlaces ==
    ASSUME NEW q \in Seq(Msg), q # <<>>
    PROVE  /\ Len(q) \in Nat \ {0} /\ Len(Tail(q)) = Len(q) - 1
           /\ \A i \in 1..Len(Tail(q)) : Tail(q)[i] = q[i + 1] /\ i + 1 \in 1..Len(q)
           /\ \A i \in 1..Len(q) : i = 1 \/ i - 1 \in 1..Len(Tail(q))
           /\ \A i \in 1..Len(q) : i # 1 => Tail(q)[i - 1] = q[i]
           /\ Head(q) = q[1] /\ 1 \in 1..Len(q)
  OBVIOUS

LEMMA QuietTail ==
    ASSUME NEW q \in Seq(Msg), q # <<>>, NEW h, Quiet(Head(q), h)
    PROVE  SameNotes(q, Tail(q), h)
  <1> DEFINE r == Tail(q)
  <1>1. /\ Len(q) \in Nat \ {0} /\ Len(r) = Len(q) - 1
        /\ \A i \in 1..Len(r) : r[i] = q[i + 1] /\ i + 1 \in 1..Len(q)
        /\ \A i \in 1..Len(q) : i = 1 \/ i - 1 \in 1..Len(r)
        /\ \A i \in 1..Len(q) : i # 1 => r[i - 1] = q[i]
        /\ 1 \in 1..Len(q)
    BY TailPlaces
  <1>2. Quiet(q[1], h)
    BY TailPlaces
  <1> HIDE DEF r
  <1>3. NoAsk(q, h) => NoAsk(r, h)
    BY <1>1, <1>2 DEF NoAsk, Quiet
  <1>4. NoGive(q, h) => NoGive(r, h)
    BY <1>1, <1>2 DEF NoGive, Quiet
  <1>5. ASSUME OneGive(q, h) PROVE OneGive(r, h)
    <2>1. PICK i \in 1..Len(q) :
             /\ Gives(q[i], h)
             /\ \A j \in 1..Len(q) : Gives(q[j], h) => j = i
      BY <1>5 DEF OneGive
    <2>2. i # 1 /\ i - 1 \in 1..Len(r) /\ Gives(r[i - 1], h)
      BY <2>1, <1>1, <1>2 DEF Quiet
    <2>3. \A j \in 1..Len(r) : Gives(r[j], h) => j = i - 1
      BY <2>1, <1>1
    <2> QED
      BY <2>2, <2>3 DEF OneGive
  <1>6. ASSUME AskLast(q, h) PROVE AskLast(r, h)
    <2>1. PICK i \in 1..Len(q) :
             /\ Asks(q[i], h)
             /\ \A j \in 1..Len(q) : /\ Asks(q[j], h) => j = i
                                     /\ Gives(q[j], h) => j < i
      BY <1>6 DEF AskLast
    <2>2. i # 1 /\ i - 1 \in 1..Len(r) /\ Asks(r[i - 1], h)
      BY <2>1, <1>1, <1>2 DEF Quiet
    <2>3. \A j \in 1..Len(r) : /\ Asks(r[j], h) => j = i - 1
                               /\ Gives(r[j], h) => j < i - 1
      BY <2>1, <1>1
    <2> QED
      BY <2>2, <2>3 DEF AskLast
  <1>7. ASSUME AskGive(q, h) PROVE AskGive(r, h)
    <2>1. PICK i \in 1..Len(q), k \in 1..Len(q) :
             /\ i < k
             /\ Asks(q[i], h) /\ Gives(q[k], h)
             /\ \A j \in 1..Len(q) : /\ Asks(q[j], h) => j = i
                                     /\ Gives(q[j], h) => j < i \/ j = k
      BY <1>7 DEF AskGive
    <2>2. i # 1 /\ i - 1 \in 1..Len(r) /\ Asks(r[i - 1], h)
      BY <2>1, <1>1, <1>2 DEF Quiet
    <2>3. k - 1 \in 1..Len(r) /\ Gives(r[k - 1], h) /\ i - 1 < k - 1
      BY <2>1, <1>1, <1>2 DEF Quiet
    <2>4. \A j \in 1..Len(r) : /\ Asks(r[j], h) => j = i - 1
                               /\ Gives(r[j], h) => j < i - 1 \/ j = k - 1
      BY <2>1, <1>1
    <2> QED
      BY <2>2, <2>3, <2>4 DEF AskGive
  <1> QED
    BY <1>3, <1>4, <1>5, <1>6, <1>7 DEF SameNotes, r

\* What a request, and a release, at the head of the queue leaves behind.
LEMMA AskTail ==
    ASSUME NEW q \in Seq(Msg), q # <<>>, NEW h, Asks(Head(q), h)
    PROVE  /\ ~NoAsk(q, h)
           /\ AskLast(q, h) => NoAsk(Tail(q), h) /\ NoGive(Tail(q), h)
           /\ AskGive(q, h) => NoAsk(Tail(q), h) /\ OneGive(Tail(q), h)
  <1> DEFINE r == Tail(q)
  <1>1. /\ Len(q) \in Nat \ {0} /\ Len(r) = Len(q) - 1
        /\ \A i \in 1..Len(r) : r[i] = q[i + 1] /\ i + 1 \in 1..Len(q)
        /\ \A i \in 1..Len(q) : i = 1 \/ i - 1 \in 1..Len(r)
        /\ \A i \in 1..Len(q) : i # 1 => r[i - 1] = q[i]
        /\ 1 \in 1..Len(q) /\ Asks(q[1], h)
    BY TailPlaces
  <1> HIDE DEF r
  <1>2. ~NoAsk(q, h)
    BY <1>1 DEF NoAsk
  <1>3. AskLast(q, h) => NoAsk(r, h) /\ NoGive(r, h)
    <2>1. AskLast(q, h) => \A j \in 1..Len(q) : /\ Asks(q[j], h) => j = 1
                                                /\ ~Gives(q[j], h)
      BY <1>1 DEF AskLast
    <2> QED
      BY <2>1, <1>1 DEF NoAsk, NoGive
  <1>4. ASSUME AskGive(q, h) PROVE NoAsk(r, h) /\ OneGive(r, h)
    <2>1. PICK k \in 1..Len(q) :
             /\ 1 < k /\ Gives(q[k], h)
             /\ \A j \in 1..Len(q) : /\ Asks(q[j], h) => j = 1
                                     /\ Gives(q[j], h) => j = k
      BY <1>1, <1>4 DEF AskGive
    <2>2. k - 1 \in 1..Len(r) /\ Gives(r[k - 1], h)
      BY <2>1, <1>1
    <2>3. \A j \in 1..Len(r) : ~Asks(r[j], h) /\ (Gives(r[j], h) => j = k - 1)
      BY <2>1, <1>1
    <2> QED
      BY <2>2, <2>3 DEF NoAsk, OneGive
  <1> QED
    BY <1>2, <1>3, <1>4 DEF r

LEMMA GiveTail ==
    ASSUME NEW q \in Seq(Msg), q # <<>>, NEW h, Gives(Head(q), h)
    PROVE  /\ ~NoGive(q, h)
           /\ NoAsk(q, h) => NoAsk(Tail(q), h)
           /\ OneGive(q, h) => NoGive(Tail(q), h)
           /\ AskLast(q, h) => AskLast(Tail(q), h)
           /\ AskGive(q, h) => AskGive(Tail(q), h)
  <1> DEFINE r == Tail(q)
  <1>1. /\ Len(q) \in Nat \ {0} /\ Len(r) = Len(q) - 1
        /\ \A i \in 1..Len(r) : r[i] = q[i + 1] /\ i + 1 \in 1..Len(q)
        /\ \A i \in 1..Len(q) : i = 1 \/ i - 1 \in 1..Len(r)
        /\ \A i \in 1..Len(q) : i # 1 => r[i - 1] = q[i]
        /\ 1 \in 1..Len(q) /\ Gives(q[1], h) /\ ~Asks(q[1], h)
    BY TailPlaces DEF Gives, Asks
  <1> HIDE DEF r
  <1>2. ~NoGive(q, h) /\ (NoAsk(q, h) => NoAsk(r, h))
    BY <1>1 DEF NoGive, NoAsk
  <1>3. OneGive(q, h) => NoGive(r, h)
    <2>1. OneGive(q, h) => \A j \in 1..Len(q) : Gives(q[j], h) => j = 1
      BY <1>1 DEF OneGive
    <2> QED
      BY <2>1, <1>1 DEF NoGive
  <1>4. ASSUME AskLast(q, h) PROVE AskLast(r, h)
    <2>1. PICK i \in 1..Len(q) :
             /\ Asks(q[i], h)
             /\ \A j \in 1..Len(q) : /\ Asks(q[j], h) => j = i
                                     /\ Gives(q[j], h) => j < i
      BY <1>4 DEF AskLast
    <2>2. i # 1 /\ i - 1 \in 1..Len(r) /\ Asks(r[i - 1], h)
      BY <2>1, <1>1
    <2>3. \A j \in 1..Len(r) : /\ Asks(r[j], h) => j = i - 1
                               /\ Gives(r[j], h) => j < i - 1
      BY <2>1, <1>1
    <2> QED
      BY <2>2, <2>3 DEF AskLast
  <1>5. ASSUME AskGive(q, h) PROVE AskGive(r, h)
    <2>1. PICK i \in 1..Len(q), k \in 1..Len(q) :
             /\ i < k
             /\ Asks(q[i], h) /\ Gives(q[k], h)
             /\ \A j \in 1..Len(q) : /\ Asks(q[j], h) => j = i
                                     /\ Gives(q[j], h) => j < i \/ j = k
      BY <1>5 DEF AskGive
    <2>2. i # 1 /\ i - 1 \in 1..Len(r) /\ Asks(r[i - 1], h)
      BY <2>1, <1>1
    <2>3. k - 1 \in 1..Len(r) /\ Gives(r[k - 1], h) /\ i - 1 < k - 1
      BY <2>1, <1>1
    <2>4. \A j \in 1..Len(r) : /\ Asks(r[j], h) => j = i - 1
                               /\ Gives(r[j], h) => j < i - 1 \/ j = k - 1
      BY <2>1, <1>1
    <2> QED
      BY <2>2, <2>3, <2>4 DEF AskGive
  <1> QED
    BY <1>2, <1>3, <1>4, <1>5 DEF r

\* What the modem's own calls add.
LEMMA AppendNotes ==
    ASSUME NEW q \in Seq(Msg), NEW x \in Msg, NEW h
    PROVE  /\ Asks(x, h) /\ NoAsk(q, h) => AskLast(Append(q, x), h)
           /\ Gives(x, h) /\ AskLast(q, h) => AskGive(Append(q, x), h)
           /\ Gives(x, h) /\ NoAsk(q, h) => NoAsk(Append(q, x), h)
           /\ Gives(x, h) /\ NoGive(q, h) => OneGive(Append(q, x), h)
  <1> DEFINE r == Append(q, x)
  <1>1. /\ Len(q) \in Nat /\ Len(r) = Len(q) + 1
        /\ \A i \in 1..Len(q) : r[i] = q[i] /\ i \in 1..Len(r) /\ i < Len(q) + 1
        /\ r[Len(q) + 1] = x /\ Len(q) + 1 \in 1..Len(r)
        /\ \A i \in 1..Len(r) : i \in 1..Len(q) \/ i = Len(q) + 1
    OBVIOUS
  <1>2. ~(Asks(x, h) /\ Gives(x, h))
    BY DEF Asks, Gives
  <1> HIDE DEF r
  <1>3. Asks(x, h) /\ NoAsk(q, h) => AskLast(r, h)
    BY <1>1, <1>2 DEF NoAsk, AskLast
  <1>4. ASSUME Gives(x, h), AskLast(q, h) PROVE AskGive(r, h)
    <2>1. PICK i \in 1..Len(q) :
             /\ Asks(q[i], h)
             /\ \A j \in 1..Len(q) : /\ Asks(q[j], h) => j = i
                                     /\ Gives(q[j], h) => j < i
      BY <1>4 DEF AskLast
    <2>2. \A j \in 1..Len(r) : /\ Asks(r[j], h) => j = i
                               /\ Gives(r[j], h) => j < i \/ j = Len(q) + 1
      BY <2>1, <1>1, <1>2, <1>4
    <2>3. /\ i \in 1..Len(r) /\ Len(q) + 1 \in 1..Len(r) /\ i < Len(q) + 1
          /\ Asks(r[i], h) /\ Gives(r[Len(q) + 1], h)
      BY <2>1, <1>1, <1>4
    <2> QED
      BY <2>2, <2>3 DEF AskGive
  <1>5. Gives(x, h) /\ NoAsk(q, h) => NoAsk(r, h)
    BY <1>1, <1>2 DEF NoAsk
  <1>6. Gives(x, h) /\ NoGive(q, h) => OneGive(r, h)
    BY <1>1 DEF NoGive, OneGive
  <1> QED
    BY <1>3, <1>4, <1>5, <1>6 DEF r

-----------------------------------------------------------------------------
(* Where a handle is, and what the modem thinks of it then. *)

Unsubscribed(h) == \A n \in Nifs : h \notin subs[n]

OnlyAt(h, n) == h \in subs[n] /\ \A k \in Nifs \ {n} : h \notin subs[k]

\* No state machine knows h.
Away(h) ==
    /\ Unsubscribed(h)
    /\ \/ modem[h] = "idle" /\ NoAsk(msgQ, h)
       \/ modem[h] = "opening" /\ AskLast(msgQ, h)
       \/ modem[h] = "closing" /\ AskGive(msgQ, h)

\* The state machine of n is the one that knows h.
ServedAt(h, n) ==
    /\ OnlyAt(h, n)
    /\ NoAsk(msgQ, h)
    /\ \/ /\ modem[h] = "opening" /\ NoGive(msgQ, h)
          /\ h \notin inactive[n] /\ state[n] \in {"PENDING", "RELEASING"}
       \/ /\ modem[h] = "open" /\ NoGive(msgQ, h)
          /\ h \notin inactive[n] /\ state[n] = "ACQUIRED"
       \/ /\ modem[h] = "closing" /\ OneGive(msgQ, h)
          /\ h \notin inactive[n]
       \/ /\ modem[h] = "closing" /\ NoGive(msgQ, h)
          /\ h \in inactive[n]

HandleInv(h) == Away(h) \/ \E n \in Nifs : ServedAt(h, n)

ModemInv == \A h \in Handles : HandleInv(h)

\* A step that does not change what the state machines and the modem hold of
\* h, unless the state machine h is at changes its state in a way that matters
\* to nobody but an open handle.
LEMMA Undisturbed ==
    ASSUME NEW h, HandleInv(h), SameNotes(msgQ, msgQ', h), modem'[h] = modem[h],
           \A n \in Nifs : /\ h \in subs'[n] <=> h \in subs[n]
                           /\ h \in inactive'[n] <=> h \in inactive[n],
           \A n \in Nifs : h \in subs[n] =>
               \/ state'[n] = state[n]
               \/ modem[h] = "closing"
               \/ modem[h] # "open" /\ state'[n] \in {"PENDING", "RELEASING"}
    PROVE  HandleInv(h)'
  <1>1. CASE Away(h)
    <2>1. Away(h)'
      BY <1>1, Zenon DEF Away, Unsubscribed, SameNotes
    <2> QED
      BY <2>1 DEF HandleInv
  <1>2. ASSUME NEW n \in Nifs, ServedAt(h, n)
        PROVE  HandleInv(h)'
    <2>1. OnlyAt(h, n)'
      BY <1>2 DEF ServedAt, OnlyAt
    <2>2. h \in subs[n]
      BY <1>2 DEF ServedAt, OnlyAt
    <2>3. ServedAt(h, n)'
      BY <1>2, <2>1, <2>2 DEF ServedAt, SameNotes
    <2> QED
      BY <2>3 DEF HandleInv
  <1> QED
    BY <1>1, <1>2 DEF HandleInv

\* A handle that was told of the end of its connection.
LEMMA Dismissed ==
    ASSUME NEW h, NEW n \in Nifs, ServedAt(h, n), SameNotes(msgQ, msgQ', h),
           modem'[h] = "idle", h \notin subs'[n],
           \A k \in Nifs \ {n} : subs'[k] = subs[k]
    PROVE  HandleInv(h)'
  <1>1. Away(h)'
    BY DEF ServedAt, OnlyAt, Away, Unsubscribed, SameNotes
  <1> QED
    BY <1>1 DEF HandleInv

-----------------------------------------------------------------------------
(* The queue after a handler, compared with the queue q it was given. *)

LEMMA DataConnNotes ==
    ASSUME NEW q \in Seq(Msg), NEW h,
           \/ \E n \in Nifs, r \in {"request", "release"} :
                 requestOrReleaseDataConn(q, n, r)
           \/ NoDataConn(q)
    PROVE  SameNotes(q, msgQ', h)
  <1>1. CASE msgQ' = q
    BY <1>1 DEF SameNotes
  <1>2. ASSUME NEW r \in {"request", "release"}, "internet" \in Nifs,
               NEW a \in NativeAnswers(r), msgQ' = q \o a
        PROVE  SameNotes(q, msgQ', h)
    <2>1. ASSUME NEW k \in {"atlOpen", "atlClosed", "atlFailed"},
                 msgQ' = q \o <<[m |-> k, n |-> "internet"]>>
          PROVE  SameNotes(q, msgQ', h)
      <3> DEFINE x == [m |-> k, n |-> "internet"]
      <3>1. x \in Msg /\ Quiet(x, h)
        BY <1>2 DEF Msg, Quiet, Asks, Gives
      <3>2. SameNotes(q, Append(q, x), h)
        BY <3>1, QuietAppend
      <3>3. q \o <<x>> = Append(q, x)
        BY <3>1
      <3> QED
        BY <3>2, <3>3, <2>1
    <2>2. CASE msgQ' = q \o <<>>
      <3>1. q \o <<>> = q
        OBVIOUS
      <3> QED
        BY <3>1, <2>2, <1>1
    <2> QED
      BY <2>1, <2>2, <1>2 DEF NativeAnswers
  <1> QED
    BY <1>1, <1>2 DEF requestOrReleaseDataConn, NoDataConn

-----------------------------------------------------------------------------
(* Each event of a state machine keeps what the modem relies on; q is the    *)
(* queue the event is handled with.                                          *)

\* An answer to others.
LEMMA NotToMe ==
    ASSUME NEW h \in Handles, NEW H, h \notin H,
           Granted(H) \/ Denied(H) \/ Closed(H) \/ modem' = modem
    PROVE  modem'[h] = modem[h]
  BY DEF Granted, Denied, Closed

LEMMA SubscribeModem ==
    ASSUME SmType, SmInv, ModemInv, msgQ \in Seq(Msg), msgQ # <<>>,
           modem \in [Handles -> ModemPhase],
           NEW n \in Nifs, NEW h \in Handles, Asks(Head(msgQ), h), Subscribe(n, h)
    PROVE  ModemInv'
  <1>1. /\ subs' = [subs EXCEPT ![n] = @ \cup {h}]
        /\ inactive' = inactive
    BY DEF Subscribe
  <1>2. NoDataConn(Rest) \/ requestOrReleaseDataConn(Rest, n, "request")
    BY DEF Subscribe
  <1>3. Rest \in Seq(Msg)
    BY DEF Rest
  <1>4. \A g : SameNotes(Rest, msgQ', g)
    BY <1>2, <1>3, DataConnNotes
  <1>5. ASSUME NEW g \in Handles, g # h
        PROVE  HandleInv(g)'
    <2>1. Quiet(Head(msgQ), g)
      BY <1>5 DEF Quiet, Asks, Gives
    <2>2. SameNotes(msgQ, msgQ', g)
      BY <2>1, <1>4, QuietTail, NotesTransitive DEF Rest
    <2>3. modem'[g] = modem[g]
      BY <1>5, NotToMe DEF Subscribe
    <2>4. \A k \in Nifs : /\ g \in subs'[k] <=> g \in subs[k]
                          /\ g \in inactive'[k] <=> g \in inactive[k]
      BY <1>1, <1>5 DEF SmType
    <2>5. \A k \in Nifs : g \in subs[k] => state'[k] = state[k]
      BY DEF Subscribe, SmType, SmInv, ReleasedIsEmpty
    <2>6. HandleInv(g)
      BY DEF ModemInv
    <2> QED
      BY <2>2, <2>3, <2>4, <2>5, <2>6, Undisturbed
  <1>6. HandleInv(h)'
    <2>1. Away(h)
      BY AskTail DEF ModemInv, HandleInv, ServedAt
    <2>2. NoAsk(Rest, h)
      BY <2>1, AskTail DEF Away, Rest
    <2>3. NoAsk(msgQ', h)
      BY <2>2, <1>4 DEF SameNotes
    <2>4. OnlyAt(h, n)'
      BY <2>1, <1>1 DEF Away, Unsubscribed, OnlyAt, SmType
    <2>5. h \notin inactive'[n]
      BY <2>1, <1>1 DEF Away, Unsubscribed, SmInv, InactiveSubscribe
    <2>6. CASE modem[h] = "closing"
      <3>1. OneGive(msgQ', h)
        BY <2>1, <2>6, <1>4, AskTail DEF Away, Rest, SameNotes
      <3>2. modem'[h] = "closing"
        BY <2>6 DEF Subscribe, Granted
      <3> QED
        BY <2>3, <2>4, <2>5, <3>1, <3>2 DEF HandleInv, ServedAt
    <2>7. CASE modem[h] = "opening"
      <3>1. NoGive(msgQ', h)
        BY <2>1, <2>7, <1>4, AskTail DEF Away, Rest, SameNotes
      <3>2. \/ modem'[h] = "opening" /\ state'[n] \in {"PENDING", "RELEASING"}
            \/ modem'[h] = "open" /\ state'[n] = "ACQUIRED"
        BY <2>7 DEF Subscribe, Granted, SmType
      <3> QED
        BY <2>3, <2>4, <2>5, <3>1, <3>2 DEF HandleInv, ServedAt
    <2> QED
      BY <2>1, <2>6, <2>7, AskTail DEF Away
  <1> QED
    BY <1>5, <1>6 DEF ModemInv

LEMMA UnsubscribeModem ==
    ASSUME SmType, SmInv, ModemInv, msgQ \in Seq(Msg), msgQ # <<>>,
           NEW n \in Nifs, NEW h \in Handles, h \in subs[n],
           Gives(Head(msgQ), h), Unsubscribe(n, h)
    PROVE  ModemInv'
  <1>0. state[n] # "RELEASED"
    BY DEF SmInv, ReleasedIsEmpty
  <1>1. /\ subs' = subs
        /\ inactive' = [inactive EXCEPT ![n] = @ \cup {h}]
        /\ modem' = modem
        /\ \/ active(n) \subseteq {h}
              /\ state' = [state EXCEPT ![n] = "RELEASING"]
           \/ state' = state
    BY <1>0 DEF Unsubscribe, LastActive
  <1>2. NoDataConn(Rest) \/ requestOrReleaseDataConn(Rest, n, "release")
    BY DEF Unsubscribe
  <1>3. Rest \in Seq(Msg)
    BY DEF Rest
  <1>4. \A g : SameNotes(Rest, msgQ', g)
    BY <1>2, <1>3, DataConnNotes
  <1>5. ASSUME NEW g \in Handles, g # h
        PROVE  HandleInv(g)'
    <2>1. Quiet(Head(msgQ), g)
      BY <1>5 DEF Quiet, Asks, Gives
    <2>2. SameNotes(msgQ, msgQ', g)
      BY <2>1, <1>4, QuietTail, NotesTransitive DEF Rest
    <2>3. modem'[g] = modem[g]
      BY <1>1
    <2>4. \A k \in Nifs : /\ g \in subs'[k] <=> g \in subs[k]
                          /\ g \in inactive'[k] <=> g \in inactive[k]
      BY <1>1, <1>5 DEF SmType
    <2>6. HandleInv(g)
      BY DEF ModemInv
    <2>5. ASSUME NEW k \in Nifs, g \in subs[k]
          PROVE  \/ state'[k] = state[k]
                 \/ modem[g] = "closing"
                 \/ modem[g] # "open" /\ state'[k] \in {"PENDING", "RELEASING"}
      <3>1. ServedAt(g, k)
        BY <2>5, <2>6 DEF HandleInv, Away, Unsubscribed, ServedAt, OnlyAt
      <3>2. CASE k = n /\ active(n) \subseteq {h}
        <4>1. g \in inactive[n]
          BY <2>5, <3>2, <1>5 DEF active
        <4> QED
          BY <3>1, <3>2, <4>1 DEF ServedAt
      <3>3. CASE ~(k = n /\ active(n) \subseteq {h})
        BY <3>3, <1>1 DEF SmType
      <3> QED
        BY <3>2, <3>3
    <2> QED
      BY <2>2, <2>3, <2>4, <2>5, <2>6, Undisturbed
  <1>6. HandleInv(h)'
    <2>1. ServedAt(h, n)
      BY DEF ModemInv, HandleInv, Away, Unsubscribed, ServedAt, OnlyAt
    <2>2. modem[h] = "closing" /\ OneGive(msgQ, h)
      BY <2>1, GiveTail DEF ServedAt
    <2>3. NoAsk(msgQ', h) /\ NoGive(msgQ', h)
      BY <2>1, <2>2, <1>4, GiveTail DEF ServedAt, Rest, SameNotes
    <2>4. OnlyAt(h, n)' /\ h \in inactive'[n]
      BY <2>1, <1>1 DEF ServedAt, OnlyAt, SmType
    <2> QED
      BY <2>2, <2>3, <2>4, <1>1 DEF HandleInv, ServedAt
  <1> QED
    BY <1>5, <1>6 DEF ModemInv

LEMMA GrantModem ==
    ASSUME SmType, SmInv, ModemInv, NEW n \in Nifs, reportAtlOpenSuccess(n),
           \A h : SameNotes(msgQ, msgQ', h)
    PROVE  ModemInv'
  <1> SUFFICES ASSUME NEW h \in Handles PROVE HandleInv(h)'
    BY DEF ModemInv
  <1>0. HandleInv(h)
    BY DEF ModemInv
  <1>1. CASE state[n] # "PENDING" \/ h \notin active(n)
    <2>1. modem'[h] = modem[h] /\ subs' = subs /\ inactive' = inactive
      BY <1>1, NotToMe DEF reportAtlOpenSuccess
    <2>2. ASSUME NEW k \in Nifs, h \in subs[k]
          PROVE  state'[k] = state[k] \/ modem[h] = "closing"
      <3>1. ServedAt(h, k)
        BY <2>2, <1>0 DEF HandleInv, Away, Unsubscribed, ServedAt, OnlyAt
      <3>2. CASE k = n /\ state[n] = "PENDING"
        BY <3>1, <3>2, <2>2, <1>1 DEF ServedAt, active
      <3>3. CASE ~(k = n /\ state[n] = "PENDING")
        BY <3>3 DEF reportAtlOpenSuccess, SmType
      <3> QED
        BY <3>2, <3>3
    <2> QED
      BY <2>1, <2>2, <1>0, Undisturbed
  <1>2. CASE state[n] = "PENDING" /\ h \in active(n)
    <2>1. ServedAt(h, n)
      BY <1>2, <1>0 DEF HandleInv, Away, Unsubscribed, ServedAt, OnlyAt, active
    <2>2. /\ subs' = subs /\ inactive' = inactive /\ state'[n] = "ACQUIRED"
          /\ modem[h] = "opening" => modem'[h] = "open"
          /\ modem[h] = "closing" => modem'[h] = "closing"
      BY <1>2 DEF reportAtlOpenSuccess, Granted, SmType
    <2>3. h \notin inactive[n]
      BY <1>2 DEF active
    <2>4. ServedAt(h, n)'
      BY <2>1, <2>2, <2>3, <1>2 DEF ServedAt, OnlyAt, SameNotes
    <2> QED
      BY <2>4 DEF HandleInv
  <1> QED
    BY <1>1, <1>2

LEMMA DrainModem ==
    ASSUME SmType, SmInv, ModemInv, NEW n \in Nifs, NEW q, Drain(q, n),
           \A h : SameNotes(msgQ, msgQ', h)
    PROVE  ModemInv'
  <1> SUFFICES ASSUME NEW h \in Handles PROVE HandleInv(h)'
    BY DEF ModemInv
  <1>0. HandleInv(h)
    BY DEF ModemInv
  <1>1. /\ subs' = [subs EXCEPT ![n] = active(n)]
        /\ inactive' = [inactive EXCEPT ![n] = {}]
        /\ state[n] = "RELEASING"
        /\ Closed(subs[n] \cap inactive[n])
        /\ \/ active(n) # {} /\ state' = [state EXCEPT ![n] = "PENDING"]
           \/ active(n) = {} /\ state' = [state EXCEPT ![n] = "RELEASED"]
    BY DEF Drain
  <1>2. CASE h \in subs[n] \cap inactive[n]
    <2>1. ServedAt(h, n)
      BY <1>2, <1>0 DEF HandleInv, Away, Unsubscribed, ServedAt, OnlyAt
    <2>2. modem'[h] = "idle"
      BY <2>1, <1>1, <1>2 DEF ServedAt, Closed
    <2>3. h \notin subs'[n] /\ \A k \in Nifs \ {n} : subs'[k] = subs[k]
      BY <1>1, <1>2 DEF SmType, active
    <2> QED
      BY <2>1, <2>2, <2>3, Dismissed
  <1>3. CASE h \notin subs[n] \cap inactive[n]
    <2>1. modem'[h] = modem[h]
      BY <1>1, <1>3, NotToMe
    <2>2. \A k \in Nifs : /\ h \in subs'[k] <=> h \in subs[k]
                          /\ h \in inactive'[k] <=> h \in inactive[k]
      BY <1>1, <1>3 DEF SmType, SmInv, InactiveSubscribe, active
    <2>3. ASSUME NEW k \in Nifs, h \in subs[k]
          PROVE  \/ state'[k] = state[k]
                 \/ modem[h] = "closing"
                 \/ modem[h] # "open" /\ state'[k] \in {"PENDING", "RELEASING"}
      <3>1. ServedAt(h, k)
        BY <2>3, <1>0 DEF HandleInv, Away, Unsubscribed, ServedAt, OnlyAt
      <3>2. CASE k = n
        <4>1. h \in active(n)
          BY <3>2, <2>3, <1>3 DEF active
        <4>2. state'[k] = "PENDING"
          BY <4>1, <3>2, <1>1 DEF SmType
        <4> QED
          BY <4>2, <3>1, <3>2, <1>1 DEF ServedAt
      <3>3. CASE k # n
        BY <3>3, <1>1 DEF SmType
      <3> QED
        BY <3>2, <3>3
    <2> QED
      BY <2>1, <2>2, <2>3, <1>0, Undisturbed
  <1> QED
    BY <1>2, <1>3

\* The connection is lost, or could not be had: everybody is told and dropped.
LEMMA DropAllModem ==
    ASSUME SmType, SmInv, ModemInv, NEW n \in Nifs, NEW q, DropAll(q, n),
           \A h : SameNotes(msgQ, msgQ', h),
           \/ state[n] = "ACQUIRED" /\ Closed(subs[n])
           \/ state[n] = "PENDING" /\ Denied(subs[n])
    PROVE  ModemInv'
  <1> SUFFICES ASSUME NEW h \in Handles PROVE HandleInv(h)'
    BY DEF ModemInv
  <1>0. HandleInv(h)
    BY DEF ModemInv
  <1>1. /\ subs' = [subs EXCEPT ![n] = {}]
        /\ inactive' = [inactive EXCEPT ![n] = {}]
        /\ state' = [state EXCEPT ![n] = "RELEASED"]
    BY DEF DropAll
  <1>2. CASE h \in subs[n]
    <2>1. ServedAt(h, n)
      BY <1>2, <1>0 DEF HandleInv, Away, Unsubscribed, ServedAt, OnlyAt
    <2>2. modem'[h] = "idle"
      BY <2>1, <1>2 DEF ServedAt, Closed, Denied
    <2>3. h \notin subs'[n] /\ \A k \in Nifs \ {n} : subs'[k] = subs[k]
      BY <1>1, <1>2 DEF SmType
    <2> QED
      BY <2>1, <2>2, <2>3, Dismissed
  <1>3. CASE h \notin subs[n]
    <2>1. modem'[h] = modem[h]
      BY <1>3, NotToMe
    <2>2. \A k \in Nifs : /\ h \in subs'[k] <=> h \in subs[k]
                          /\ h \in inactive'[k] <=> h \in inactive[k]
      BY <1>1, <1>3 DEF SmType, SmInv, InactiveSubscribe
    <2>3. \A k \in Nifs : h \in subs[k] => state'[k] = state[k]
      BY <1>1, <1>3 DEF SmType
    <2> QED
      BY <2>1, <2>2, <2>3, <1>0, Undisturbed
  <1> QED
    BY <1>2, <1>3

\* A step of somebody else.
LEMMA OtherModem ==
    ASSUME ModemInv, UNCHANGED smVars, modem' = modem,
           \A h : SameNotes(msgQ, msgQ', h)
    PROVE  ModemInv'
  <1> SUFFICES ASSUME NEW h \in Handles PROVE HandleInv(h)'
    BY DEF ModemInv
  <1>1. HandleInv(h)
    BY DEF ModemInv
  <1> QED
    BY <1>1, Undisturbed DEF smVars

-----------------------------------------------------------------------------
(* Every step keeps it. *)

\* A report, or a modem restart, has nothing to do with any handle.
LEMMA ReportTail ==
    ASSUME msgQ \in Seq(Msg), msgQ # <<>>,
           Head(msgQ).m \notin {"requestATL", "releaseATL"}
    PROVE  /\ \A h : SameNotes(msgQ, Rest, h)
           /\ Rest \in Seq(Msg)
  <1>1. \A h : Quiet(Head(msgQ), h)
    BY DEF Quiet, Asks, Gives
  <1> QED
    BY <1>1, QuietTail DEF Rest

LEMMA ReportPosted ==
    ASSUME msgQ \in Seq(Msg), NEW x \in Msg, Post(x),
           x.m \notin {"requestATL", "releaseATL"}
    PROVE  \A h : SameNotes(msgQ, msgQ', h)
  <1>1. \A h : Quiet(x, h)
    BY DEF Quiet, Asks, Gives
  <1> QED
    BY <1>1, QuietAppend DEF Post

LEMMA SameQueue ==
    ASSUME msgQ' = msgQ
    PROVE  \A h : SameNotes(msgQ, msgQ', h)
  BY DEF SameNotes

\* What is left of the queue after a handler that was given q.
LEMMA HandlerNotes ==
    ASSUME NEW q \in Seq(Msg), \A h : SameNotes(msgQ, q, h),
           \/ \E n \in Nifs, r \in {"request", "release"} :
                 requestOrReleaseDataConn(q, n, r)
           \/ NoDataConn(q)
    PROVE  \A h : SameNotes(msgQ, msgQ', h)
  BY DataConnNotes, NotesTransitive

LEMMA ClosedModem ==
    ASSUME SmType, SmInv, ModemInv, NEW n \in Nifs, NEW q \in Seq(Msg),
           \A h : SameNotes(msgQ, q, h), reportAtlClosed(q, n)
    PROVE  ModemInv'
  <1>1. \/ \E k \in Nifs, r \in {"request", "release"} :
              requestOrReleaseDataConn(q, k, r)
        \/ NoDataConn(q)
    BY DEF reportAtlClosed, Drain, DropAll, Ignored
  <1>2. \A h : SameNotes(msgQ, msgQ', h)
    BY <1>1, HandlerNotes
  <1>3. CASE Drain(q, n)
    BY <1>2, <1>3, DrainModem
  <1>4. CASE state[n] = "ACQUIRED" /\ Closed(subs[n]) /\ DropAll(q, n)
    BY <1>2, <1>4, DropAllModem
  <1>5. CASE Ignored(q)
    BY <1>2, <1>5, OtherModem DEF Ignored
  <1> QED
    BY <1>3, <1>4, <1>5 DEF reportAtlClosed

LEMMA FailedModem ==
    ASSUME SmType, SmInv, ModemInv, NEW n \in Nifs, NEW q \in Seq(Msg),
           \A h : SameNotes(msgQ, q, h), reportAtlOpenFailed(q, n)
    PROVE  ModemInv'
  <1>1. \/ \E k \in Nifs, r \in {"request", "release"} :
              requestOrReleaseDataConn(q, k, r)
        \/ NoDataConn(q)
    BY DEF reportAtlOpenFailed, Drain, DropAll, Ignored
  <1>2. \A h : SameNotes(msgQ, msgQ', h)
    BY <1>1, HandlerNotes
  <1>3. CASE Drain(q, n)
    BY <1>2, <1>3, DrainModem
  <1>4. CASE state[n] = "PENDING" /\ Denied(subs[n]) /\ DropAll(q, n)
    BY <1>2, <1>4, DropAllModem
  <1>5. CASE Ignored(q)
    BY <1>2, <1>5, OtherModem DEF Ignored
  <1> QED
    BY <1>3, <1>4, <1>5 DEF reportAtlOpenFailed

LEMMA ProcModem ==
    ASSUME IInv, ModemInv, Proc
    PROVE  ModemInv'
  <1>0. SmType /\ SmInv /\ msgQ \in Seq(Msg) /\ modem \in [Handles -> ModemPhase]
    BY Parts DEF RestType
  <1>1. CASE ProcRequestATL
    <2>1. PICK h \in Handles, n \in AllNifs : h = Head(msgQ).h /\ n = Head(msgQ).n
      BY <1>0, <1>1, ArrivedMsg, RequestMsg DEF ProcRequestATL, Arrived
    <2>2. msgQ # <<>> /\ Asks(Head(msgQ), h)
      BY <2>1, <1>1 DEF ProcRequestATL, Arrived, Asks
    <2>3. CASE n \in Nifs /\ Subscribe(n, h)
      BY <2>2, <2>3, <1>0, SubscribeModem
    \* No such state machine: the handle is told at once.
    <2>4. CASE Denied({h}) /\ NoDataConn(Rest) /\ UNCHANGED smVars
      <3> SUFFICES ASSUME NEW g \in Handles PROVE HandleInv(g)'
        BY DEF ModemInv
      <3>1. HandleInv(g)
        BY DEF ModemInv
      <3>2. CASE g # h
        <4>1. Quiet(Head(msgQ), g)
          BY <2>2, <3>2 DEF Quiet, Asks, Gives
        <4>2. SameNotes(msgQ, msgQ', g)
          BY <4>1, <2>2, <2>4, <1>0, QuietTail DEF NoDataConn, Rest
        <4>3. modem'[g] = modem[g]
          BY <3>2, <2>4, NotToMe
        <4> QED
          BY <4>2, <4>3, <3>1, <2>4, Undisturbed DEF smVars
      <3>3. CASE g = h
        <4>1. Away(h)
          BY <3>1, <3>3, <2>2, <1>0, AskTail DEF HandleInv, ServedAt
        <4>2. modem[h] \in {"opening", "closing"} /\ NoAsk(msgQ', h)
          BY <4>1, <2>2, <2>4, <1>0, AskTail DEF Away, NoDataConn, Rest
        <4>3. modem'[h] = "idle"
          BY <4>2, <2>4 DEF Denied
        <4>4. Away(h)'
          BY <4>1, <4>2, <4>3, <2>4 DEF Away, Unsubscribed, smVars
        <4> QED
          BY <4>4, <3>3 DEF HandleInv
      <3> QED
        BY <3>2, <3>3
    <2> QED
      BY <2>1, <2>3, <2>4, <1>1 DEF ProcRequestATL
  <1>2. CASE ProcReleaseATL
    <2>1. PICK h \in Handles : h = Head(msgQ).h
      BY <1>0, <1>2, ArrivedMsg, ReleaseMsg DEF ProcReleaseATL, Arrived
    <2>2. msgQ # <<>> /\ Gives(Head(msgQ), h)
      BY <2>1, <1>2 DEF ProcReleaseATL, Arrived, Gives
    <2>3. ASSUME NEW n \in FoundIn(h), Unsubscribe(n, h)
          PROVE  ModemInv'
      <3>1. n \in Nifs /\ h \in subs[n]
        BY <2>3 DEF FoundIn
      <3> QED
        BY <3>1, <2>2, <2>3, <1>0, UnsubscribeModem
    <2>4. CASE FoundIn(h) = {} /\ Ignored(Rest)
      <3> SUFFICES ASSUME NEW g \in Handles PROVE HandleInv(g)'
        BY DEF ModemInv
      <3>1. HandleInv(g) /\ msgQ' = Tail(msgQ) /\ UNCHANGED <<smVars, modem>>
        BY <2>4 DEF ModemInv, Ignored, NoDataConn, Rest
      <3>2. CASE g # h
        <4>1. Quiet(Head(msgQ), g)
          BY <2>2, <3>2 DEF Quiet, Asks, Gives
        <4>2. SameNotes(msgQ, msgQ', g)
          BY <4>1, <2>2, <3>1, <1>0, QuietTail
        <4> QED
          BY <4>2, <3>1, Undisturbed DEF smVars
      <3>3. CASE g = h
        <4>1. Unsubscribed(h)
          BY <2>4 DEF FoundIn, Unsubscribed
        <4>2. Away(h)
          BY <4>1, <3>1, <3>3 DEF HandleInv, ServedAt, OnlyAt, Unsubscribed
        <4>3. /\ NoAsk(msgQ, h) => NoAsk(msgQ', h)
              /\ AskLast(msgQ, h) => AskLast(msgQ', h)
              /\ AskGive(msgQ, h) => AskGive(msgQ', h)
          BY <2>2, <3>1, <1>0, GiveTail
        <4>4. Away(h)'
          BY <4>2, <4>3, <3>1 DEF Away, Unsubscribed, smVars
        <4> QED
          BY <4>4, <3>3 DEF HandleInv
      <3> QED
        BY <3>2, <3>3
    <2> QED
      BY <2>1, <2>3, <2>4, <1>2 DEF ProcReleaseATL
  <1>3. ASSUME NEW n \in Nifs, reportAtlOpenSuccess(n),
               \A h : SameNotes(msgQ, Rest, h)
        PROVE  ModemInv'
    <2>1. \A h : SameNotes(msgQ, msgQ', h)
      BY <1>3 DEF reportAtlOpenSuccess, NoDataConn
    <2> QED
      BY <2>1, <1>0, <1>3, GrantModem
  <1>4. ASSUME Ignored(Rest), \A h : SameNotes(msgQ, Rest, h)
        PROVE  ModemInv'
    <2>1. \A h : SameNotes(msgQ, msgQ', h)
      BY <1>4 DEF Ignored, NoDataConn
    <2> QED
      BY <2>1, <1>4, OtherModem DEF Ignored
  <1>5. CASE ProcAtlOpen \/ ProcAtlPdn \/ ProcAtlClosed \/ ProcAtlFailed
    <2>1. /\ msgQ # <<>>
          /\ Head(msgQ).m \in {"atlOpen", "atlPdn", "atlClosed", "atlFailed"}
      BY <1>5 DEF ProcAtlOpen, ProcAtlPdn, ProcAtlClosed, ProcAtlFailed, Arrived
    <2>2. (\A h : SameNotes(msgQ, Rest, h)) /\ Rest \in Seq(Msg)
      BY <2>1, <1>0, ReportTail
    <2>3. PICK n \in Nifs : n = Head(msgQ).n
      BY <2>1, <1>0, ArrivedMsg, ReportMsg
    <2>4. CASE ProcAtlOpen \/ ProcAtlPdn
      BY <2>2, <2>3, <2>4, <1>3, <1>4 DEF ProcAtlOpen, ProcAtlPdn
    <2>5. CASE ProcAtlClosed
      BY <2>2, <2>3, <2>5, <1>0, ClosedModem DEF ProcAtlClosed
    <2>6. CASE ProcAtlFailed
      BY <2>2, <2>3, <2>6, <1>0, FailedModem DEF ProcAtlFailed
    <2> QED
      BY <2>4, <2>5, <2>6, <1>5
  <1>6. CASE ProcEngineUp
    <2>1. msgQ # <<>> /\ Head(msgQ).m = "engineUp"
      BY <1>6 DEF ProcEngineUp, Arrived
    <2> QED
      BY <2>1, <1>0, <1>4, <1>6, ReportTail DEF ProcEngineUp
  <1> QED
    BY <1>1, <1>2, <1>5, <1>6 DEF Proc

LEMMA NextModem ==
    ASSUME IInv, ModemInv, [Next]_vars, ~ModemRestart
    PROVE  ModemInv'
  <1>0. SmType /\ SmInv /\ msgQ \in Seq(Msg) /\ modem \in [Handles -> ModemPhase]
    BY Parts DEF RestType
  <1>1. CASE Proc
    BY <1>1, ProcModem
  <1>2. ASSUME NEW h \in Handles, NEW n \in AllNifs, RequestATL(h, n)
        PROVE  ModemInv'
    <2> DEFINE x == [m |-> "requestATL", h |-> h, n |-> n]
    <2>1. x \in Msg /\ Asks(x, h) /\ \A g : g # h => Quiet(x, g)
      BY DEF Msg, Asks, Gives, Quiet
    <2>2. /\ modem[h] = "idle" /\ modem' = [modem EXCEPT ![h] = "opening"]
          /\ msgQ' = Append(msgQ, x) /\ UNCHANGED smVars
      BY <1>2 DEF RequestATL, Post
    <2> SUFFICES ASSUME NEW g \in Handles PROVE HandleInv(g)'
      BY DEF ModemInv
    <2>3. HandleInv(g)
      BY DEF ModemInv
    <2>4. CASE g # h
      <3>1. SameNotes(msgQ, msgQ', g)
        BY <2>1, <2>2, <2>4, <1>0, QuietAppend
      <3>2. modem'[g] = modem[g]
        BY <2>2, <2>4, <1>0
      <3> QED
        BY <3>1, <3>2, <2>2, <2>3, Undisturbed DEF smVars
    <2>5. CASE g = h
      <3>1. Unsubscribed(h) /\ NoAsk(msgQ, h)
        BY <2>2, <2>3, <2>5 DEF HandleInv, Away, ServedAt
      <3>2. AskLast(msgQ', h)
        BY <3>1, <2>1, <2>2, <1>0, AppendNotes
      <3>3. modem'[h] = "opening"
        BY <2>2, <1>0
      <3>4. Away(h)'
        BY <3>1, <3>2, <3>3, <2>2 DEF Away, Unsubscribed, smVars
      <3> QED
        BY <3>4, <2>5 DEF HandleInv
    <2> QED
      BY <2>4, <2>5
  <1>3. ASSUME NEW h \in Handles, ReleaseATL(h)
        PROVE  ModemInv'
    <2> DEFINE x == [m |-> "releaseATL", h |-> h]
    <2>1. x \in Msg /\ Gives(x, h) /\ \A g : g # h => Quiet(x, g)
      BY DEF Msg, Asks, Gives, Quiet
    <2>2. /\ modem[h] \in {"opening", "open"}
          /\ modem' = [modem EXCEPT ![h] = "closing"]
          /\ msgQ' = Append(msgQ, x) /\ UNCHANGED smVars
      BY <1>3 DEF ReleaseATL, Post
    <2> SUFFICES ASSUME NEW g \in Handles PROVE HandleInv(g)'
      BY DEF ModemInv
    <2>3. HandleInv(g)
      BY DEF ModemInv
    <2>4. CASE g # h
      <3>1. SameNotes(msgQ, msgQ', g)
        BY <2>1, <2>2, <2>4, <1>0, QuietAppend
      <3>2. modem'[g] = modem[g]
        BY <2>2, <2>4, <1>0
      <3> QED
        BY <3>1, <3>2, <2>2, <2>3, Undisturbed DEF smVars
    <2>5. CASE g = h
      <3>3. modem'[h] = "closing"
        BY <2>2, <1>0
      <3>1. CASE Away(h)
        <4>1. AskGive(msgQ', h)
          BY <3>1, <2>1, <2>2, <1>0, AppendNotes DEF Away
        <4>2. Away(h)'
          BY <3>1, <3>3, <4>1, <2>2 DEF Away, Unsubscribed, smVars
        <4> QED
          BY <4>2, <2>5 DEF HandleInv
      <3>2. ASSUME NEW n \in Nifs, ServedAt(h, n)
            PROVE  HandleInv(g)'
        <4>1. NoAsk(msgQ, h) /\ NoGive(msgQ, h) /\ h \notin inactive[n]
          BY <3>2, <2>2 DEF ServedAt
        <4>2. NoAsk(msgQ', h) /\ OneGive(msgQ', h)
          BY <4>1, <2>1, <2>2, <1>0, AppendNotes
        <4>3. ServedAt(h, n)'
          BY <3>2, <3>3, <4>1, <4>2, <2>2 DEF ServedAt, OnlyAt, smVars
        <4> QED
          BY <4>3, <2>5 DEF HandleInv
      <3> QED
        BY <3>1, <3>2, <2>3, <2>5 DEF HandleInv
    <2> QED
      BY <2>4, <2>5
  <1>4. ASSUME NEW n \in Nifs, reportPdnTypeFromWds(n)
        PROVE  ModemInv'
    <2>1. [m |-> "atlPdn", n |-> n] \in Msg
      BY DEF Msg
    <2>2. \A h : SameNotes(msgQ, msgQ', h)
      BY <2>1, <1>0, <1>4, ReportPosted DEF reportPdnTypeFromWds
    <2> QED
      BY <2>2, <1>4, OtherModem DEF reportPdnTypeFromWds
  <1>5. CASE NetworkNotify \/ FwRequest \/ UNCHANGED vars
    <2>1. msgQ' = msgQ /\ modem' = modem /\ UNCHANGED smVars
      BY <1>5 DEF NetworkNotify, FwRequest, vars, smVars
    <2> QED
      BY <2>1, SameQueue, OtherModem
  <1>6. CASE FwRelease \/ dataConnOpen \/ dataConnFailed \/ dataConnLost
    <2>1. "agnss" \in Nifs
      BY <1>6, Parts
      DEF FwRelease, dataConnOpen, dataConnFailed, dataConnLost, RestType, NoFramework
    <2>2. \A k \in {"atlOpen", "atlClosed", "atlFailed"} :
             [m |-> k, n |-> "agnss"] \in Msg
      BY <2>1 DEF Msg
    <2>3. /\ modem' = modem /\ UNCHANGED smVars
          /\ \/ msgQ' = msgQ
             \/ \E k \in {"atlOpen", "atlClosed", "atlFailed"} :
                   Post([m |-> k, n |-> "agnss"])
      BY <1>6 DEF FwRelease, dataConnOpen, dataConnFailed, dataConnLost
    <2>4. \A h : SameNotes(msgQ, msgQ', h)
      BY <2>2, <2>3, <1>0, SameQueue, ReportPosted
    <2> QED
      BY <2>3, <2>4, OtherModem
  <1>7. CASE dataConnOpenBadApn
    <2>1. "agnss" \in Nifs
      BY <1>7, Parts DEF dataConnOpenBadApn, RestType, NoFramework
    <2>2. \A h : SameNotes(msgQ, msgQ, h)
      BY DEF SameNotes
    <2> QED
      BY <2>1, <2>2, <1>0, <1>7, ClosedModem DEF dataConnOpenBadApn
  <1> QED
    BY <1>1, <1>2, <1>3, <1>4, <1>5, <1>6, <1>7 DEF Next, FwAnswer

LEMMA InitModem == Init => ModemInv
  <1> SUFFICES ASSUME Init, NEW h \in Handles PROVE Away(h)
    BY DEF ModemInv, HandleInv
  <1>1. NoAsk(msgQ, h)
    BY DEF Init, NoAsk
  <1> QED
    BY <1>1 DEF Init, Away, Unsubscribed

\* It holds as long as the modem has not restarted.
THEOREM ModemInductive == Spec => [](restarts = 0 => ModemInv)
  <1>1. Init => (restarts = 0 => ModemInv)
    BY InitModem
  <1>2. IInv /\ (restarts = 0 => ModemInv) /\ [Next]_vars
            => (restarts = 0 => ModemInv)'
    <2> SUFFICES ASSUME IInv, restarts = 0 => ModemInv, [Next]_vars, restarts' = 0
                 PROVE  ModemInv'
      OBVIOUS
    <2>1. restarts \in Nat
      BY BoundsAssumption DEF IInv, TypeOK
    <2>2. ~ModemRestart
      BY <2>1 DEF ModemRestart
    <2>3. restarts = 0
      BY <2>2
      DEF Next, vars, Proc, ProcRequestATL, ProcReleaseATL, ProcAtlOpen, ProcAtlPdn,
          ProcAtlClosed, ProcAtlFailed, ProcEngineUp, RequestATL, ReleaseATL,
          reportPdnTypeFromWds, NetworkNotify, FwRequest, FwRelease, FwAnswer,
          dataConnOpen, dataConnOpenBadApn, dataConnFailed, dataConnLost, envVars
    <2> QED
      BY <2>2, <2>3, NextModem
  <1> QED
    BY <1>1, <1>2, Inductive, PTL DEF Spec

\* Until the modem restarts no handle gets an answer it does not wait for,
\* however many handles share the connection, and whatever the network, PDN
\* queries and bad APNs do.
THEOREM NoUnsolicitedAnswerAlways == Spec => [](restarts = 0 => NoUnsolicitedAnswer)
  <1>1. (restarts = 0 => ModemInv) => (restarts = 0 => NoUnsolicitedAnswer)
    BY DEF ModemInv, HandleInv, Away, ServedAt, NoUnsolicitedAnswer
  <1> QED
    BY <1>1, ModemInductive, PTL

\* Until the modem restarts a handle that was told it is open is an active
\* subscriber of a state machine that holds the connection.
THEOREM OpenIsHeldAlways == Spec => [](restarts = 0 => OpenIsHeld)
  <1>1. (restarts = 0 => ModemInv) => (restarts = 0 => OpenIsHeld)
    BY DEF ModemInv, HandleInv, Away, ServedAt, OnlyAt, OpenIsHeld, active
  <1> QED
    BY <1>1, ModemInductive, PTL

\* Until the modem restarts the state machines serve nobody the modem has
\* forgotten, and no handle is with both.
THEOREM NoOrphanSubscriberAlways == Spec => [](restarts = 0 => NoOrphanSubscriber)
  <1>1. ASSUME IInv, ModemInv PROVE NoOrphanSubscriber
    <2>0. \A n \in Nifs : subs[n] \subseteq Handles
      BY <1>1, Parts DEF SmType
    <2>1. ASSUME NEW n \in Nifs, NEW h \in subs[n]
          PROVE  ServedAt(h, n)
      <3>1. h \in Handles
        BY <2>0
      <3>2. HandleInv(h)
        BY <3>1, <1>1 DEF ModemInv
      <3> QED
        BY <3>2 DEF HandleInv, Away, Unsubscribed, ServedAt, OnlyAt
    <2>2. ASSUME msgQ = <<>>, NEW n \in Nifs, NEW h \in active(n)
          PROVE  modem[h] \in {"opening", "open"}
      <3>0. h \in subs[n] /\ h \notin inactive[n]
        BY DEF active
      <3>1. ServedAt(h, n)
        BY <3>0, <2>1
      <3>2. ~OneGive(msgQ, h)
        BY <2>2 DEF OneGive
      <3> QED
        BY <3>0, <3>1, <3>2 DEF ServedAt
    <2>3. \A m, n \in Nifs : m # n => subs[m] \cap subs[n] = {}
      BY <2>1 DEF ServedAt, OnlyAt
    <2> QED
      BY <2>2, <2>3 DEF NoOrphanSubscriber
  <1>2. IInv /\ (restarts = 0 => ModemInv) => (restarts = 0 => NoOrphanSubscriber)
    BY <1>1
  <1> QED
    BY <1>2, Inductive, ModemInductive, PTL

-----------------------------------------------------------------------------
(* What a queue q holds of the agnss state machine's reports.                *)

Report(x) ==
    /\ x.m \in {"atlOpen", "atlPdn", "atlClosed", "atlFailed"}
    /\ x.n = "agnss"

NoReport(q) == \A i \in 1..Len(q) : ~Report(q[i])

OneReport(q, kind) ==
    \E i \in 1..Len(q) :
        /\ Report(q[i]) /\ q[i].m = kind
        /\ \A j \in 1..Len(q) : Report(q[j]) => j = i

OpenThenClosed(q) ==
    \E i, k \in 1..Len(q) :
        /\ i < k
        /\ Report(q[i]) /\ q[i].m = "atlOpen"
        /\ Report(q[k]) /\ q[k].m = "atlClosed"
        /\ \A j \in 1..Len(q) : Report(q[j]) => j = i \/ j = k

\* r holds of them what q does.
SameReports(q, r) ==
    /\ NoReport(q) => NoReport(r)
    /\ \A kind : OneReport(q, kind) => OneReport(r, kind)
    /\ OpenThenClosed(q) => OpenThenClosed(r)

LEMMA OtherAppend ==
    ASSUME NEW q \in Seq(Msg), NEW x \in Msg, ~Report(x)
    PROVE  SameReports(q, Append(q, x))
  <1> DEFINE r == Append(q, x)
  <1>1. /\ \A i \in 1..Len(q) : r[i] = q[i]
        /\ \A i \in 1..Len(r) : i \in 1..Len(q) \/ r[i] = x
        /\ \A i \in 1..Len(q) : i \in 1..Len(r)
    OBVIOUS
  <1> HIDE DEF r
  <1>2. NoReport(q) => NoReport(r)
    BY <1>1 DEF NoReport
  <1>3. ASSUME NEW kind, OneReport(q, kind)
        PROVE  OneReport(r, kind)
    BY <1>1, <1>3 DEF OneReport
  <1>4. OpenThenClosed(q) => OpenThenClosed(r)
    BY <1>1 DEF OpenThenClosed
  <1> QED
    BY <1>2, <1>3, <1>4 DEF SameReports, r

LEMMA OtherTail ==
    ASSUME NEW q \in Seq(Msg), q # <<>>, ~Report(Head(q))
    PROVE  SameReports(q, Tail(q))
  <1> DEFINE r == Tail(q)
  <1>1. /\ Len(q) \in Nat \ {0} /\ Len(r) = Len(q) - 1
        /\ \A i \in 1..Len(r) : r[i] = q[i + 1] /\ i + 1 \in 1..Len(q)
        /\ \A i \in 1..Len(q) : i = 1 \/ i - 1 \in 1..Len(r)
        /\ \A i \in 1..Len(q) : i # 1 => r[i - 1] = q[i]
        /\ 1 \in 1..Len(q) /\ ~Report(q[1])
    BY TailPlaces
  <1> HIDE DEF r
  <1>2. NoReport(q) => NoReport(r)
    BY <1>1 DEF NoReport
  <1>3. ASSUME NEW kind, OneReport(q, kind)
        PROVE  OneReport(r, kind)
    <2>1. PICK i \in 1..Len(q) :
             /\ Report(q[i]) /\ q[i].m = kind
             /\ \A j \in 1..Len(q) : Report(q[j]) => j = i
      BY <1>3 DEF OneReport
    <2>2. i # 1 /\ i - 1 \in 1..Len(r) /\ Report(r[i - 1]) /\ r[i - 1].m = kind
      BY <2>1, <1>1
    <2>3. \A j \in 1..Len(r) : Report(r[j]) => j = i - 1
      BY <2>1, <1>1
    <2> QED
      BY <2>2, <2>3 DEF OneReport
  <1>4. ASSUME OpenThenClosed(q) PROVE OpenThenClosed(r)
    <2>1. PICK i \in 1..Len(q), k \in 1..Len(q) :
             /\ i < k
             /\ Report(q[i]) /\ q[i].m = "atlOpen"
             /\ Report(q[k]) /\ q[k].m = "atlClosed"
             /\ \A j \in 1..Len(q) : Report(q[j]) => j = i \/ j = k
      BY <1>4 DEF OpenThenClosed
    <2>2. /\ i # 1 /\ i - 1 \in 1..Len(r) /\ Report(r[i - 1]) /\ r[i - 1].m = "atlOpen"
          /\ k # 1 /\ k - 1 \in 1..Len(r) /\ Report(r[k - 1]) /\ r[k - 1].m = "atlClosed"
          /\ i - 1 < k - 1
      BY <2>1, <1>1
    <2>3. \A j \in 1..Len(r) : Report(r[j]) => j = i - 1 \/ j = k - 1
      BY <2>1, <1>1
    <2> QED
      BY <2>2, <2>3 DEF OpenThenClosed
  <1> QED
    BY <1>2, <1>3, <1>4 DEF SameReports, r

\* A report at the head is the first of those the queue holds.
LEMMA ReportHead ==
    ASSUME NEW q \in Seq(Msg), q # <<>>, Report(Head(q))
    PROVE  /\ ~NoReport(q)
           /\ \A kind : OneReport(q, kind) => Head(q).m = kind /\ NoReport(Tail(q))
           /\ OpenThenClosed(q) =>
                  Head(q).m = "atlOpen" /\ OneReport(Tail(q), "atlClosed")
  <1> DEFINE r == Tail(q)
  <1>1. /\ Len(q) \in Nat \ {0} /\ Len(r) = Len(q) - 1
        /\ \A i \in 1..Len(r) : r[i] = q[i + 1] /\ i + 1 \in 1..Len(q)
        /\ \A i \in 1..Len(q) : i = 1 \/ i - 1 \in 1..Len(r)
        /\ \A i \in 1..Len(q) : i # 1 => r[i - 1] = q[i]
        /\ 1 \in 1..Len(q) /\ Report(q[1]) /\ Head(q) = q[1]
    BY TailPlaces
  <1> HIDE DEF r
  <1>2. ~NoReport(q)
    BY <1>1 DEF NoReport
  <1>3. ASSUME NEW kind, OneReport(q, kind)
        PROVE  Head(q).m = kind /\ NoReport(r)
    <2>1. q[1].m = kind /\ \A j \in 1..Len(q) : Report(q[j]) => j = 1
      BY <1>1, <1>3 DEF OneReport
    <2> QED
      BY <2>1, <1>1 DEF NoReport
  <1>4. ASSUME OpenThenClosed(q)
        PROVE  Head(q).m = "atlOpen" /\ OneReport(r, "atlClosed")
    <2>1. PICK k \in 1..Len(q) :
             /\ 1 < k /\ q[1].m = "atlOpen"
             /\ Report(q[k]) /\ q[k].m = "atlClosed"
             /\ \A j \in 1..Len(q) : Report(q[j]) => j = 1 \/ j = k
      BY <1>1, <1>4 DEF OpenThenClosed
    <2>2. k - 1 \in 1..Len(r) /\ Report(r[k - 1]) /\ r[k - 1].m = "atlClosed"
      BY <2>1, <1>1
    <2>3. \A j \in 1..Len(r) : Report(r[j]) => j = k - 1
      BY <2>1, <1>1
    <2> QED
      BY <2>1, <2>2, <2>3, <1>1 DEF OneReport
  <1> QED
    BY <1>2, <1>3, <1>4 DEF r

LEMMA ReportAppend ==
    ASSUME NEW q \in Seq(Msg), NEW x \in Msg, Report(x)
    PROVE  /\ NoReport(q) => OneReport(Append(q, x), x.m)
           /\ OneReport(q, "atlOpen") /\ x.m = "atlClosed" =>
                  OpenThenClosed(Append(q, x))
  <1> DEFINE r == Append(q, x)
  <1>1. /\ Len(q) \in Nat /\ Len(r) = Len(q) + 1
        /\ \A i \in 1..Len(q) : r[i] = q[i] /\ i \in 1..Len(r) /\ i < Len(q) + 1
        /\ r[Len(q) + 1] = x /\ Len(q) + 1 \in 1..Len(r)
        /\ \A i \in 1..Len(r) : i \in 1..Len(q) \/ i = Len(q) + 1
    OBVIOUS
  <1> HIDE DEF r
  <1>2. NoReport(q) => OneReport(r, x.m)
    BY <1>1 DEF NoReport, OneReport
  <1>3. ASSUME OneReport(q, "atlOpen"), x.m = "atlClosed" PROVE OpenThenClosed(r)
    <2>1. PICK i \in 1..Len(q) :
             /\ Report(q[i]) /\ q[i].m = "atlOpen"
             /\ \A j \in 1..Len(q) : Report(q[j]) => j = i
      BY <1>3 DEF OneReport
    <2>2. \A j \in 1..Len(r) : Report(r[j]) => j = i \/ j = Len(q) + 1
      BY <2>1, <1>1
    <2> QED
      BY <2>1, <2>2, <1>1, <1>3 DEF OpenThenClosed
  <1> QED
    BY <1>2, <1>3 DEF r

-----------------------------------------------------------------------------
(* State machine and framework.  A session begins when the state machine     *)
(* sends its request and ends with the one report that says that the         *)
(* connection failed or is closed: sessions do not overlap, and at most the  *)
(* release of an earlier one is still to be handled when the next begins.    *)

Req == <<"request">>
Rel == <<"release">>
RelReq == <<"release", "request">>
ReqRel == <<"request", "release">>
RelReqRel == <<"release", "request", "release">>

\* The state machine has not been told that the connection is up.  early: the
\* framework's queue as long as it holds the request, late: after.
Unanswered(early, late) ==
    \/ conn = "closed" /\ NoReport(msgQ) /\ fwQ \in early
    \/ conn = "opening" /\ NoReport(msgQ) /\ fwQ = late
    \/ conn = "open" /\ OneReport(msgQ, "atlOpen") /\ fwQ = late
    \/ /\ conn = "closed"
       /\ OneReport(msgQ, "atlFailed") \/ OpenThenClosed(msgQ)
       /\ fwQ = late

\* It has, and the connection is up, or the report that it is gone is queued.
Up(late) ==
    /\ fwQ = late
    /\ \/ conn = "open" /\ NoReport(msgQ)
       \/ conn = "closed" /\ OneReport(msgQ, "atlClosed")

\* The framework has handled the release.
GivenUp ==
    /\ fwQ = <<>>
    /\ conn = "closed"
    /\ \/ OneReport(msgQ, "atlClosed") \/ OneReport(msgQ, "atlFailed")
       \/ OpenThenClosed(msgQ)

Down ==
    /\ fwQ \in {<<>>, Rel}
    /\ conn = "closed"
    /\ NoReport(msgQ)

ConnInv ==
    /\ wds["agnss"] = 0
    /\ \/ state["agnss"] = "RELEASED" /\ Down
       \/ /\ state["agnss"] = "PENDING"
          /\ Unanswered({Req, RelReq}, <<>>)
       \/ state["agnss"] = "ACQUIRED" /\ Up(<<>>)
       \/ /\ state["agnss"] = "RELEASING"
          /\ \/ Unanswered({ReqRel, RelReqRel}, Rel)
             \/ Up(Rel)
             \/ GivenUp

LEMMA FwAppend ==
    ASSUME NEW s \in Seq({"request", "release"}), NEW t \in Seq({"request", "release"}),
           NEW x \in {"request", "release"}, Len(t) = Len(s) + 1,
           \A i \in 1..Len(s) : t[i] = s[i], t[Len(s) + 1] = x
    PROVE  Append(s, x) = t
  <1>1. /\ Append(s, x) \in Seq({"request", "release"})
        /\ Len(Append(s, x)) = Len(t)
        /\ \A i \in 1..Len(Append(s, x)) : Append(s, x)[i] = t[i]
    BY AppendProperties
  <1> QED
    BY <1>1, SeqEqual

\* The framework's queue as requests and releases follow each other.
LEMMA FwSent ==
    /\ Append(<<>>, "request") = Req
    /\ Append(<<>>, "release") = Rel
    /\ Append(Rel, "request") = RelReq
    /\ Append(Req, "release") = ReqRel
    /\ Append(RelReq, "release") = RelReqRel
  <1>0. /\ Append(<<>>, "request") = Req
        /\ Append(<<>>, "release") = Rel
    BY DEF Req, Rel
  <1>t. /\ Req \in Seq({"request", "release"})
        /\ Rel \in Seq({"request", "release"})
        /\ RelReq \in Seq({"request", "release"})
        /\ ReqRel \in Seq({"request", "release"})
        /\ RelReqRel \in Seq({"request", "release"})
    BY DEF Req, Rel, RelReq, ReqRel, RelReqRel
  <1>1. Append(Rel, "request") = RelReq
    <2>1. /\ Len(Rel) = 1 /\ Len(RelReq) = 2
          /\ Rel[1] = "release"
          /\ RelReq[1] = "release" /\ RelReq[2] = "request"
      BY DEF Rel, RelReq
    <2>2. /\ Len(RelReq) = Len(Rel) + 1
          /\ \A i \in 1..Len(Rel) : RelReq[i] = Rel[i]
          /\ RelReq[Len(Rel) + 1] = "request"
      BY <2>1
    <2> QED
      BY <1>t, <2>2, FwAppend, Zenon
  <1>2. Append(Req, "release") = ReqRel
    <2>1. /\ Len(Req) = 1 /\ Len(ReqRel) = 2
          /\ Req[1] = "request"
          /\ ReqRel[1] = "request" /\ ReqRel[2] = "release"
      BY DEF Req, ReqRel
    <2>2. /\ Len(ReqRel) = Len(Req) + 1
          /\ \A i \in 1..Len(Req) : ReqRel[i] = Req[i]
          /\ ReqRel[Len(Req) + 1] = "release"
      BY <2>1
    <2> QED
      BY <1>t, <2>2, FwAppend, Zenon
  <1>3. Append(RelReq, "release") = RelReqRel
    <2>1. /\ Len(RelReq) = 2 /\ Len(RelReqRel) = 3
          /\ RelReq[1] = "release" /\ RelReq[2] = "request"
          /\ RelReqRel[1] = "release" /\ RelReqRel[2] = "request" /\ RelReqRel[3] = "release"
      BY DEF RelReq, RelReqRel
    <2>2. /\ Len(RelReqRel) = Len(RelReq) + 1
          /\ \A i \in 1..Len(RelReq) : RelReqRel[i] = RelReq[i]
          /\ RelReqRel[Len(RelReq) + 1] = "release"
      BY <2>1
    <2> QED
      BY <1>t, <2>2, FwAppend, Zenon
  <1> QED
    BY <1>0, <1>1, <1>2, <1>3

LEMMA FwHandled ==
    /\ Head(Req) = "request" /\ Tail(Req) = <<>>
    /\ Head(Rel) = "release" /\ Tail(Rel) = <<>>
    /\ Head(RelReq) = "release" /\ Tail(RelReq) = Req
    /\ Head(ReqRel) = "request" /\ Tail(ReqRel) = Rel
    /\ Head(RelReqRel) = "release" /\ Tail(RelReqRel) = ReqRel
  <1>1. Head(Req) = "request" /\ Tail(Req) = <<>>
    BY DEF Req
  <1>2. Head(Rel) = "release" /\ Tail(Rel) = <<>>
    BY DEF Rel
  <1>3. Head(RelReq) = "release" /\ Tail(RelReq) = Req
    BY DEF RelReq, Req
  <1>4. Head(ReqRel) = "request" /\ Tail(ReqRel) = Rel
    BY DEF ReqRel, Rel
  <1>5. Head(RelReqRel) = "release" /\ Tail(RelReqRel) = ReqRel
    BY DEF RelReqRel, ReqRel
  <1> QED
    BY <1>1, <1>2, <1>3, <1>4, <1>5

\* A step that has nothing to do with this state machine's connection.
LEMMA OtherConn ==
    ASSUME ConnInv, SameReports(msgQ, msgQ'), state'["agnss"] = state["agnss"],
           UNCHANGED <<fwQ, conn>>, wds'["agnss"] = wds["agnss"]
    PROVE  ConnInv'
  <1>1. /\ NoReport(msgQ) => NoReport(msgQ')
        /\ OneReport(msgQ, "atlOpen") => OneReport(msgQ', "atlOpen")
        /\ OneReport(msgQ, "atlClosed") => OneReport(msgQ', "atlClosed")
        /\ OneReport(msgQ, "atlFailed") => OneReport(msgQ', "atlFailed")
        /\ OpenThenClosed(msgQ) => OpenThenClosed(msgQ')
    BY DEF SameReports
  <1>2. ASSUME NEW early, NEW late, Unanswered(early, late)
        PROVE  Unanswered(early, late)'
    BY <1>1, <1>2 DEF Unanswered
  <1>3. ASSUME NEW late, Up(late) PROVE Up(late)'
    BY <1>1, <1>3 DEF Up
  <1>4. GivenUp => GivenUp'
    BY <1>1 DEF GivenUp
  <1>5. Down => Down'
    BY <1>1 DEF Down
  <1> QED
    BY <1>2, <1>3, <1>4, <1>5 DEF ConnInv

-----------------------------------------------------------------------------
(* Each event of the agnss state machine, and each step of the framework.    *)

\* Sending a request or a release begins or ends a session.
LEMMA SendRequest ==
    ASSUME wds'["agnss"] = 0, fwQ \in {<<>>, Rel}, fwQ' = Append(fwQ, "request"),
           conn' = "closed", NoReport(msgQ'), state'["agnss"] = "PENDING"
    PROVE  ConnInv'
  <1>1. fwQ' \in {Req, RelReq}
    BY FwSent
  <1>2. Unanswered({Req, RelReq}, <<>>)'
    BY <1>1 DEF Unanswered
  <1> QED
    BY <1>2 DEF ConnInv

LEMMA SendRelease ==
    ASSUME ConnInv, state["agnss"] \in {"PENDING", "ACQUIRED"},
           wds'["agnss"] = wds["agnss"], fwQ' = Append(fwQ, "release"),
           conn' = conn, SameReports(msgQ, msgQ'), state'["agnss"] = "RELEASING"
    PROVE  ConnInv'
  <1>0. /\ NoReport(msgQ) => NoReport(msgQ')
        /\ OneReport(msgQ, "atlOpen") => OneReport(msgQ', "atlOpen")
        /\ OneReport(msgQ, "atlClosed") => OneReport(msgQ', "atlClosed")
        /\ OneReport(msgQ, "atlFailed") => OneReport(msgQ', "atlFailed")
        /\ OpenThenClosed(msgQ) => OpenThenClosed(msgQ')
    BY DEF SameReports
  <1>1. /\ fwQ \in {Req, RelReq} => fwQ' \in {ReqRel, RelReqRel}
        /\ fwQ = <<>> => fwQ' = Rel
    BY FwSent
  <1>2. CASE Unanswered({Req, RelReq}, <<>>)
    <2>1. Unanswered({ReqRel, RelReqRel}, Rel)'
      BY <1>0, <1>1, <1>2 DEF Unanswered
    <2> QED
      BY <2>1 DEF ConnInv
  <1>3. CASE Up(<<>>)
    <2>1. Up(Rel)'
      BY <1>0, <1>1, <1>3 DEF Up
    <2> QED
      BY <2>1 DEF ConnInv
  <1> QED
    BY <1>2, <1>3 DEF ConnInv

\* The grant.
LEMMA OpenConn ==
    ASSUME ConnInv, msgQ \in Seq(Msg), msgQ # <<>>, Report(Head(msgQ)),
           Head(msgQ).m = "atlOpen", msgQ' = Tail(msgQ), UNCHANGED <<fwQ, conn>>,
           wds'["agnss"] = wds["agnss"],
           \/ state["agnss"] = "PENDING" /\ state'["agnss"] = "ACQUIRED"
           \/ state["agnss"] # "PENDING" /\ state'["agnss"] = state["agnss"]
    PROVE  ConnInv'
  <1>1. /\ ~NoReport(msgQ)
        /\ OneReport(msgQ, "atlOpen") => NoReport(msgQ')
        /\ ~OneReport(msgQ, "atlClosed") /\ ~OneReport(msgQ, "atlFailed")
        /\ OpenThenClosed(msgQ) => OneReport(msgQ', "atlClosed")
    BY ReportHead
  <1>2. ASSUME NEW early, NEW late, Unanswered(early, late)
        PROVE  Up(late)'
    BY <1>1, <1>2 DEF Unanswered, Up
  <1>3. ~Down /\ \A late : ~Up(late)
    BY <1>1 DEF Down, Up
  <1>4. GivenUp => GivenUp'
    BY <1>1 DEF GivenUp
  <1> QED
    BY <1>2, <1>3, <1>4 DEF ConnInv

\* The end of a session.
LEMMA SessionOver ==
    ASSUME ConnInv, msgQ \in Seq(Msg), msgQ # <<>>, Report(Head(msgQ)),
           \/ Head(msgQ).m = "atlClosed" /\ state["agnss"] # "PENDING"
           \/ Head(msgQ).m = "atlFailed" /\ state["agnss"] # "ACQUIRED"
    PROVE  /\ state["agnss"] # "RELEASED"
           /\ fwQ \in {<<>>, Rel} /\ conn = "closed" /\ NoReport(Tail(msgQ))
           /\ wds["agnss"] = 0
  <1>1. /\ ~NoReport(msgQ) /\ ~OpenThenClosed(msgQ)
        /\ ~OneReport(msgQ, "atlOpen")
        /\ OneReport(msgQ, "atlClosed") => NoReport(Tail(msgQ))
        /\ OneReport(msgQ, "atlFailed") => NoReport(Tail(msgQ))
    BY ReportHead
  <1>2. ASSUME NEW early, NEW late, Unanswered(early, late)
        PROVE  fwQ = late /\ conn = "closed" /\ NoReport(Tail(msgQ))
    BY <1>1, <1>2 DEF Unanswered
  <1>3. ASSUME NEW late, Up(late)
        PROVE  fwQ = late /\ conn = "closed" /\ NoReport(Tail(msgQ))
    BY <1>1, <1>3 DEF Up
  <1>4. GivenUp => fwQ = <<>> /\ conn = "closed" /\ NoReport(Tail(msgQ))
    BY <1>1 DEF GivenUp
  <1>5. ~Down
    BY <1>1 DEF Down
  <1> QED
    BY <1>2, <1>3, <1>4, <1>5 DEF ConnInv

LEMMA BackToReleased ==
    ASSUME fwQ' \in {<<>>, Rel}, conn' = "closed", NoReport(msgQ'),
           wds'["agnss"] = 0, state'["agnss"] = "RELEASED"
    PROVE  ConnInv'
  BY DEF ConnInv, Down

\* No session ends that way: a close in PENDING comes after the grant, a
\* failure in ACQUIRED does not come.
LEMMA NeverOver ==
    ASSUME ConnInv, msgQ \in Seq(Msg), msgQ # <<>>, Report(Head(msgQ))
    PROVE  /\ Head(msgQ).m = "atlClosed" => state["agnss"] # "PENDING"
           /\ Head(msgQ).m = "atlFailed" => state["agnss"] # "ACQUIRED"
           /\ state["agnss"] # "RELEASED"
  BY ReportHead DEF ConnInv, Down, Up, Unanswered

\* Both reports that end a session do so in the same way.
LEMMA OverConn ==
    ASSUME ConnInv, SmType, "agnss" \in Nifs, msgQ \in Seq(Msg), msgQ # <<>>,
           Report(Head(msgQ)), conn' = conn, wds' = wds,
           \/ Head(msgQ).m = "atlClosed" /\ reportAtlClosed(Rest, "agnss")
           \/ Head(msgQ).m = "atlFailed" /\ reportAtlOpenFailed(Rest, "agnss")
    PROVE  ConnInv'
  <1>1. /\ state["agnss"] # "RELEASED"
        /\ fwQ \in {<<>>, Rel} /\ conn = "closed" /\ NoReport(Rest)
        /\ wds["agnss"] = 0
        /\ Head(msgQ).m = "atlClosed" => state["agnss"] # "PENDING"
        /\ Head(msgQ).m = "atlFailed" => state["agnss"] # "ACQUIRED"
    BY SessionOver, NeverOver DEF Rest
  <1>2. \/ Drain(Rest, "agnss")
        \/ DropAll(Rest, "agnss")
    BY <1>1 DEF reportAtlClosed, reportAtlOpenFailed
  <1>3. CASE DropAll(Rest, "agnss")
    <2>1. state'["agnss"] = "RELEASED" /\ fwQ' = fwQ /\ msgQ' = Rest
      BY <1>3 DEF DropAll, NoDataConn, SmType
    <2> QED
      BY <2>1, <1>1, BackToReleased
  <1>4. CASE Drain(Rest, "agnss")
    <2>1. CASE state' = [state EXCEPT !["agnss"] = "RELEASED"] /\ NoDataConn(Rest)
      <3>1. state'["agnss"] = "RELEASED" /\ fwQ' = fwQ /\ msgQ' = Rest
        BY <2>1 DEF NoDataConn, SmType
      <3> QED
        BY <3>1, <1>1, BackToReleased
    <2>2. CASE /\ state' = [state EXCEPT !["agnss"] = "PENDING"]
               /\ requestOrReleaseDataConn(Rest, "agnss", "request")
      <3>1. /\ state'["agnss"] = "PENDING"
            /\ fwQ' = Append(fwQ, "request") /\ msgQ' = Rest
        BY <2>2 DEF requestOrReleaseDataConn, SmType
      <3> QED
        BY <3>1, <1>1, SendRequest
    <2> QED
      BY <2>1, <2>2, <1>4 DEF Drain
  <1> QED
    BY <1>2, <1>3, <1>4

\* The framework takes a request.
LEMMA FwRequestConn ==
    ASSUME ConnInv, FwRequest
    PROVE  ConnInv'
  <1>1. /\ msgQ' = msgQ /\ wds' = wds /\ state' = state
        /\ fwQ # <<>> /\ Head(fwQ) = "request" /\ fwQ' = Tail(fwQ)
        /\ conn = "closed" => conn' = "opening"
    BY DEF FwRequest, smVars
  <1>2. CASE Unanswered({Req, RelReq}, <<>>) /\ state["agnss"] = "PENDING"
    <2>1. fwQ = Req /\ conn = "closed" /\ NoReport(msgQ)
      BY <1>1, <1>2, FwHandled DEF Unanswered
    <2>2. fwQ' = <<>>
      BY <2>1, <1>1, FwHandled
    <2>3. Unanswered({Req, RelReq}, <<>>)'
      BY <2>1, <2>2, <1>1 DEF Unanswered
    <2> QED
      BY <2>3, <1>1, <1>2 DEF ConnInv
  <1>3. CASE Unanswered({ReqRel, RelReqRel}, Rel) /\ state["agnss"] = "RELEASING"
    <2>1. fwQ = ReqRel /\ conn = "closed" /\ NoReport(msgQ)
      BY <1>1, <1>3, FwHandled DEF Unanswered
    <2>2. fwQ' = Rel
      BY <2>1, <1>1, FwHandled
    <2>3. Unanswered({ReqRel, RelReqRel}, Rel)'
      BY <2>1, <2>2, <1>1 DEF Unanswered
    <2> QED
      BY <2>3, <1>1, <1>3 DEF ConnInv
  <1>4. ~Up(Rel) /\ ~Up(<<>>) /\ ~GivenUp /\ ~Down
    BY <1>1, FwHandled DEF Up, GivenUp, Down
  <1> QED
    BY <1>2, <1>3, <1>4 DEF ConnInv

\* A report is posted.
LEMMA Posted ==
    ASSUME msgQ \in Seq(Msg), "agnss" \in Nifs,
           NEW k \in {"atlOpen", "atlClosed", "atlFailed"},
           Post([m |-> k, n |-> "agnss"])
    PROVE  /\ NoReport(msgQ) => OneReport(msgQ', k)
           /\ OneReport(msgQ, "atlOpen") /\ k = "atlClosed" => OpenThenClosed(msgQ')
  <1> DEFINE x == [m |-> k, n |-> "agnss"]
  <1>1. x \in Msg /\ Report(x) /\ x.m = k
    BY DEF Msg, Report
  <1>2. msgQ' = Append(msgQ, x)
    BY DEF Post
  <1> HIDE DEF x
  <1> QED
    BY <1>1, <1>2, ReportAppend

\* The framework takes a release.
LEMMA FwReleaseConn ==
    ASSUME ConnInv, msgQ \in Seq(Msg), "agnss" \in Nifs, FwRelease
    PROVE  ConnInv'
  <1>1. /\ wds' = wds /\ state' = state
        /\ fwQ # <<>> /\ Head(fwQ) = "release" /\ fwQ' = Tail(fwQ)
        /\ conn' = "closed"
        /\ conn = "closed" => msgQ' = msgQ
        /\ conn # "closed" => Post([m |-> "atlClosed", n |-> "agnss"])
    BY DEF FwRelease, smVars
  <1>p. conn # "closed" =>
           /\ NoReport(msgQ) => OneReport(msgQ', "atlClosed")
           /\ OneReport(msgQ, "atlOpen") => OpenThenClosed(msgQ')
    BY <1>1, Posted
  <1>2. CASE Down /\ state["agnss"] = "RELEASED"
    <2>1. fwQ = Rel /\ msgQ' = msgQ
      BY <1>1, <1>2 DEF Down
    <2>2. fwQ' = <<>>
      BY <2>1, <1>1, FwHandled
    <2>3. Down'
      BY <2>1, <2>2, <1>1, <1>2 DEF Down
    <2> QED
      BY <2>3, <1>1, <1>2 DEF ConnInv
  <1>3. CASE Unanswered({Req, RelReq}, <<>>) /\ state["agnss"] = "PENDING"
    <2>1. fwQ = RelReq /\ conn = "closed" /\ NoReport(msgQ)
      BY <1>1, <1>3, FwHandled DEF Unanswered
    <2>2. fwQ' = Req
      BY <2>1, <1>1, FwHandled
    <2>3. Unanswered({Req, RelReq}, <<>>)'
      BY <2>1, <2>2, <1>1 DEF Unanswered
    <2> QED
      BY <2>3, <1>1, <1>3 DEF ConnInv
  <1>4. CASE Unanswered({ReqRel, RelReqRel}, Rel) /\ state["agnss"] = "RELEASING"
    <2>1. CASE fwQ = Rel
      <3>1. fwQ' = <<>>
        BY <2>1, <1>1, FwHandled
      <3>2. \/ NoReport(msgQ) /\ conn = "opening"
            \/ OneReport(msgQ, "atlOpen") /\ conn = "open"
            \/ conn = "closed" /\ (OneReport(msgQ, "atlFailed") \/ OpenThenClosed(msgQ))
            \/ fwQ \in {ReqRel, RelReqRel}
        BY <1>4 DEF Unanswered
      <3>3. fwQ \notin {ReqRel, RelReqRel}
        <4>1. ReqRel # <<>>
          BY DEF ReqRel
        <4> QED
          BY <4>1, <2>1, FwHandled
      <3>4. GivenUp'
        BY <3>1, <3>2, <3>3, <1>1, <1>p DEF GivenUp
      <3> QED
        BY <3>4, <1>1, <1>4 DEF ConnInv
    <2>2. CASE fwQ # Rel
      <3>1. fwQ = RelReqRel /\ conn = "closed" /\ NoReport(msgQ)
        BY <2>2, <1>1, <1>4, FwHandled DEF Unanswered
      <3>2. fwQ' = ReqRel
        BY <3>1, <1>1, FwHandled
      <3>3. Unanswered({ReqRel, RelReqRel}, Rel)'
        BY <3>1, <3>2, <1>1 DEF Unanswered
      <3> QED
        BY <3>3, <1>1, <1>4 DEF ConnInv
    <2> QED
      BY <2>1, <2>2
  <1>5. CASE Up(Rel) /\ state["agnss"] = "RELEASING"
    <2>1. fwQ' = <<>>
      BY <1>1, <1>5, FwHandled DEF Up
    <2>2. GivenUp'
      BY <2>1, <1>1, <1>5, <1>p DEF Up, GivenUp
    <2> QED
      BY <2>2, <1>1, <1>5 DEF ConnInv
  <1>6. ~Up(<<>>) /\ ~GivenUp
    BY <1>1 DEF Up, GivenUp
  <1> QED
    BY <1>2, <1>3, <1>4, <1>5, <1>6 DEF ConnInv

\* The framework reports on the connection it is setting up, or has.
LEMMA FwReportConn ==
    ASSUME ConnInv, msgQ \in Seq(Msg), "agnss" \in Nifs,
           dataConnOpen \/ dataConnFailed \/ dataConnLost
    PROVE  ConnInv'
  <1>1. wds' = wds /\ state' = state /\ fwQ' = fwQ
    BY DEF dataConnOpen, dataConnFailed, dataConnLost, smVars
  <1>2. /\ NoReport(msgQ) /\ conn = "opening" =>
               \/ conn' = "open" /\ OneReport(msgQ', "atlOpen")
               \/ conn' = "closed" /\ OneReport(msgQ', "atlFailed")
        /\ NoReport(msgQ) /\ conn = "open" =>
               conn' = "closed" /\ OneReport(msgQ', "atlClosed")
        /\ OneReport(msgQ, "atlOpen") /\ conn = "open" =>
               conn' = "closed" /\ OpenThenClosed(msgQ')
        /\ conn # "closed"
    BY Posted DEF dataConnOpen, dataConnFailed, dataConnLost
  <1>3. ASSUME NEW early, NEW late, Unanswered(early, late)
        PROVE  Unanswered(early, late)'
    BY <1>1, <1>2, <1>3 DEF Unanswered
  <1>4. ASSUME NEW late, Up(late) PROVE Up(late)'
    BY <1>1, <1>2, <1>4 DEF Up
  <1>5. ~GivenUp /\ ~Down
    BY <1>2 DEF GivenUp, Down
  <1> QED
    BY <1>1, <1>3, <1>4, <1>5 DEF ConnInv

\* Whatever the other state machine asks of NativeAgpsHandler.
LEMMA ReportsTransitive ==
    ASSUME NEW p, NEW q, NEW r, SameReports(p, q), SameReports(q, r)
    PROVE  SameReports(p, r)
  BY Zenon DEF SameReports

LEMMA InternetReports ==
    ASSUME NEW q \in Seq(Msg), NEW n \in Nifs, n # "agnss",
           NEW r \in {"request", "release"}, requestOrReleaseDataConn(q, n, r)
    PROVE  fwQ' = fwQ /\ SameReports(q, msgQ')
  <1>1. PICK a \in NativeAnswers(r) : msgQ' = q \o a
    BY DEF requestOrReleaseDataConn
  <1>2. fwQ' = fwQ /\ n = "internet"
    BY DEF requestOrReleaseDataConn
  <1>3. ASSUME NEW k \in {"atlOpen", "atlClosed", "atlFailed"},
               msgQ' = q \o <<[m |-> k, n |-> "internet"]>>
        PROVE  SameReports(q, msgQ')
    <2> DEFINE x == [m |-> k, n |-> "internet"]
    <2>1. x \in Msg /\ ~Report(x)
      BY <1>2 DEF Msg, Report
    <2>2. SameReports(q, Append(q, x))
      BY <2>1, OtherAppend
    <2>3. q \o <<x>> = Append(q, x)
      BY <2>1
    <2> QED
      BY <2>2, <2>3, <1>3
  <1>4. CASE msgQ' = q \o <<>>
    <2>1. q \o <<>> = q
      OBVIOUS
    <2>2. msgQ' = q
      BY <2>1, <1>4
    <2>3. SameReports(q, msgQ')
      BY <2>2 DEF SameReports
    <2> QED
      BY <2>3, <1>2
  <1> QED
    BY <1>1, <1>2, <1>3, <1>4 DEF NativeAnswers

\* The handlers of the message thread.
LEMMA ProcConn ==
    ASSUME IInv, ConnInv, ~WdsQuery, "agnss" \in Nifs, Proc
    PROVE  ConnInv'
  <1>0. SmType /\ SmInv /\ msgQ \in Seq(Msg)
    BY Parts DEF RestType
  <1>1. /\ conn' = conn /\ wds' = wds /\ msgQ # <<>>
    BY DEF Proc, ProcRequestATL, ProcReleaseATL, ProcAtlOpen, ProcAtlPdn,
           ProcAtlClosed, ProcAtlFailed, ProcEngineUp, Arrived, envVars
  <1>2. Head(msgQ) \in Msg /\ Rest \in Seq(Msg)
    BY <1>0, <1>1, ArrivedMsg
  <1>3. ~Report(Head(msgQ)) => SameReports(msgQ, Rest)
    BY <1>0, <1>1, OtherTail DEF Rest
  <1>4. CASE ~Report(Head(msgQ))
    \* Nothing is asked of the framework.
    <2>1. ASSUME SameReports(Rest, msgQ'), fwQ' = fwQ,
                 state'["agnss"] = state["agnss"]
          PROVE  ConnInv'
      BY <2>1, <1>1, <1>3, <1>4, OtherConn, ReportsTransitive
    <2>2. ASSUME NoDataConn(Rest), state'["agnss"] = state["agnss"]
          PROVE  ConnInv'
      BY <2>1, <2>2 DEF NoDataConn, SameReports
    \* Nothing is done to the agnss state machine.
    <2>3. ASSUME NEW n \in Nifs, n # "agnss", state'["agnss"] = state["agnss"],
                 \/ \E r \in {"request", "release"} :
                       requestOrReleaseDataConn(Rest, n, r)
                 \/ NoDataConn(Rest)
          PROVE  ConnInv'
      BY <2>1, <2>2, <2>3, <1>2, InternetReports
    <2>4. CASE ProcRequestATL
      <3> DEFINE h == Head(msgQ).h
                 n == Head(msgQ).n
      <3>1. CASE UNCHANGED smVars /\ NoDataConn(Rest)
        BY <3>1, <2>2 DEF smVars
      <3>2. CASE n \in Nifs /\ n # "agnss" /\ Subscribe(n, h)
        <4>1. state'["agnss"] = state["agnss"]
          BY <3>2, <1>0 DEF Subscribe, SmType
        <4>2. NoDataConn(Rest) \/ requestOrReleaseDataConn(Rest, n, "request")
          BY <3>2 DEF Subscribe
        <4> QED
          BY <4>1, <4>2, <3>2, <2>3
      <3>3. CASE n = "agnss" /\ Subscribe(n, h)
        <4>1. CASE state["agnss"] # "RELEASED"
          <5>1. NoDataConn(Rest) /\ state' = state
            BY <3>3, <4>1 DEF Subscribe
          <5> QED
            BY <5>1, <2>2
        <4>2. CASE state["agnss"] = "RELEASED"
          <5>1. /\ state'["agnss"] = "PENDING"
                /\ fwQ' = Append(fwQ, "request") /\ msgQ' = Rest
            BY <3>3, <4>2, <1>0 DEF Subscribe, requestOrReleaseDataConn, SmType
          <5>2. Down /\ wds["agnss"] = 0
            BY <4>2 DEF ConnInv
          <5>3. NoReport(msgQ')
            BY <5>1, <5>2, <1>3, <1>4 DEF Down, SameReports
          <5> QED
            BY <5>1, <5>2, <5>3, <1>1, SendRequest DEF Down
        <4> QED
          BY <4>1, <4>2
      <3> QED
        BY <3>1, <3>2, <3>3, <2>4 DEF ProcRequestATL
    <2>5. CASE ProcReleaseATL
      <3> DEFINE h == Head(msgQ).h
      <3>1. CASE Ignored(Rest)
        BY <3>1, <2>2 DEF Ignored, smVars
      <3>2. ASSUME NEW n \in Nifs, n # "agnss", Unsubscribe(n, h)
            PROVE  ConnInv'
        <4>1. state'["agnss"] = state["agnss"]
          BY <3>2, <1>0 DEF Unsubscribe, SmType
        <4>2. NoDataConn(Rest) \/ requestOrReleaseDataConn(Rest, n, "release")
          BY <3>2 DEF Unsubscribe
        <4> QED
          BY <4>1, <4>2, <3>2, <2>3
      <3>3. CASE Unsubscribe("agnss", h)
        <4>1. CASE NoDataConn(Rest) /\ state' = state
          BY <4>1, <2>2
        <4>2. CASE /\ state["agnss"] \notin {"RELEASED", "RELEASING"}
                   /\ state' = [state EXCEPT !["agnss"] = "RELEASING"]
                   /\ requestOrReleaseDataConn(Rest, "agnss", "release")
          <5>1. /\ state["agnss"] \in {"PENDING", "ACQUIRED"}
                /\ state'["agnss"] = "RELEASING"
                /\ fwQ' = Append(fwQ, "release") /\ msgQ' = Rest
            BY <4>2, <1>0 DEF requestOrReleaseDataConn, SmType, AgpsState
          <5> QED
            BY <5>1, <1>1, <1>3, <1>4, SendRelease
        <4> QED
          BY <4>1, <4>2, <3>3 DEF Unsubscribe
      <3> QED
        BY <3>1, <3>2, <3>3, <2>5 DEF ProcReleaseATL, FoundIn
    <2>6. CASE ProcAtlOpen \/ ProcAtlPdn \/ ProcAtlClosed \/ ProcAtlFailed
      <3> DEFINE n == Head(msgQ).n
      <3>1. n \in Nifs /\ n # "agnss"
        BY <2>6, <1>2, <1>4, ReportMsg
        DEF ProcAtlOpen, ProcAtlPdn, ProcAtlClosed, ProcAtlFailed, Arrived, Report
      <3>2. \/ reportAtlOpenSuccess(n)
            \/ reportAtlClosed(Rest, n)
            \/ reportAtlOpenFailed(Rest, n)
        BY <2>6 DEF ProcAtlOpen, ProcAtlPdn, ProcAtlClosed, ProcAtlFailed
      <3>3. state'["agnss"] = state["agnss"]
        BY <3>1, <3>2, <1>0
        DEF reportAtlOpenSuccess, reportAtlClosed, reportAtlOpenFailed, Drain,
            DropAll, Ignored, smVars, SmType
      <3>4. NoDataConn(Rest) \/ requestOrReleaseDataConn(Rest, n, "request")
        BY <3>2
        DEF reportAtlOpenSuccess, reportAtlClosed, reportAtlOpenFailed, Drain,
            DropAll, Ignored
      <3> QED
        BY <3>1, <3>3, <3>4, <2>3
    <2>7. CASE ProcEngineUp
      BY <2>7, <2>2 DEF ProcEngineUp, Ignored, smVars
    <2> QED
      BY <2>4, <2>5, <2>6, <2>7 DEF Proc
  <1>5. CASE Report(Head(msgQ))
    <2>1. Head(msgQ).n = "agnss"
      BY <1>5 DEF Report
    <2>2. CASE ProcAtlOpen
      <3>1. reportAtlOpenSuccess("agnss") /\ Head(msgQ).m = "atlOpen"
        BY <2>1, <2>2 DEF ProcAtlOpen, Arrived
      <3>2. /\ msgQ' = Tail(msgQ) /\ fwQ' = fwQ
            /\ \/ state["agnss"] = "PENDING" /\ state'["agnss"] = "ACQUIRED"
               \/ state["agnss"] # "PENDING" /\ state'["agnss"] = state["agnss"]
        BY <3>1, <1>0 DEF reportAtlOpenSuccess, NoDataConn, Rest, SmType
      <3> QED
        BY <3>1, <3>2, <1>0, <1>1, <1>5, OpenConn
    <2>3. ~ProcAtlPdn
      <3>1. Head(msgQ).m = "atlPdn" => ~OneReport(msgQ, "atlOpen")
               /\ ~OneReport(msgQ, "atlClosed") /\ ~OneReport(msgQ, "atlFailed")
               /\ ~OpenThenClosed(msgQ) /\ ~NoReport(msgQ)
        BY <1>0, <1>1, <1>5, ReportHead
      <3> QED
        BY <3>1 DEF ProcAtlPdn, Arrived, ConnInv, Unanswered, Up, Down, GivenUp
    <2>4. CASE ProcAtlClosed \/ ProcAtlFailed
      <3>1. \/ Head(msgQ).m = "atlClosed" /\ reportAtlClosed(Rest, "agnss")
            \/ Head(msgQ).m = "atlFailed" /\ reportAtlOpenFailed(Rest, "agnss")
        BY <2>1, <2>4 DEF ProcAtlClosed, ProcAtlFailed, Arrived
      <3> QED
        BY <3>1, <1>0, <1>1, <1>5, OverConn
    <2>5. ~ProcRequestATL /\ ~ProcReleaseATL /\ ~ProcEngineUp
      BY <1>5 DEF Report, ProcRequestATL, ProcReleaseATL, ProcEngineUp, Arrived
    <2> QED
      BY <2>2, <2>3, <2>4, <2>5 DEF Proc
  <1> QED
    BY <1>4, <1>5

LEMMA NextConn ==
    ASSUME IInv, ConnInv, ~WdsQuery, ~BadApn, "agnss" \in Nifs, [Next]_vars
    PROVE  ConnInv'
  <1>0. SmType /\ RestType /\ msgQ \in Seq(Msg)
    BY Parts DEF RestType
  <1>1. CASE Proc
    BY <1>1, ProcConn
  <1>2. ASSUME NEW x \in Msg, ~Report(x), Post(x), UNCHANGED <<smVars, fwQ, conn>>,
               wds'["agnss"] = wds["agnss"]
        PROVE  ConnInv'
    <2>1. SameReports(msgQ, msgQ')
      BY <1>0, <1>2, OtherAppend DEF Post
    <2> QED
      BY <2>1, <1>2, OtherConn DEF smVars
  <1>3. ASSUME NEW h \in Handles, NEW n \in AllNifs, RequestATL(h, n)
        PROVE  ConnInv'
    <2>1. /\ [m |-> "requestATL", h |-> h, n |-> n] \in Msg
          /\ ~Report([m |-> "requestATL", h |-> h, n |-> n])
      BY DEF Msg, Report
    <2> QED
      BY <2>1, <1>2, <1>3 DEF RequestATL, envVars
  <1>4. ASSUME NEW h \in Handles, ReleaseATL(h)
        PROVE  ConnInv'
    <2>1. /\ [m |-> "releaseATL", h |-> h] \in Msg
          /\ ~Report([m |-> "releaseATL", h |-> h])
      BY DEF Msg, Report
    <2> QED
      BY <2>1, <1>2, <1>4 DEF ReleaseATL, envVars
  <1>5. CASE ModemRestart
    <2>1. [m |-> "engineUp"] \in Msg /\ ~Report([m |-> "engineUp"])
      BY DEF Msg, Report
    <2> QED
      BY <2>1, <1>2, <1>5 DEF ModemRestart
  <1>6. ASSUME NEW n \in Nifs, reportPdnTypeFromWds(n)
        PROVE  ConnInv'
    <2>1. n # "agnss"
      BY <1>6 DEF reportPdnTypeFromWds, ConnInv
    <2>2. [m |-> "atlPdn", n |-> n] \in Msg /\ ~Report([m |-> "atlPdn", n |-> n])
      BY <2>1 DEF Msg, Report
    <2>3. wds'["agnss"] = wds["agnss"]
      BY <2>1, <1>0, <1>6 DEF reportPdnTypeFromWds, RestType
    <2> QED
      BY <2>2, <2>3, <1>2, <1>6 DEF reportPdnTypeFromWds, envVars
  <1>7. CASE NetworkNotify \/ UNCHANGED vars
    <2>1. UNCHANGED <<smVars, msgQ, wds, fwQ, conn>>
      BY <1>7 DEF NetworkNotify, vars, smVars
    <2>2. SameReports(msgQ, msgQ')
      BY <2>1 DEF SameReports
    <2> QED
      BY <2>1, <2>2, OtherConn DEF smVars
  <1>8. CASE FwRequest
    BY <1>8, FwRequestConn
  <1>9. CASE FwRelease
    BY <1>0, <1>9, FwReleaseConn
  <1>10. CASE dataConnOpen \/ dataConnFailed \/ dataConnLost
    BY <1>0, <1>10, FwReportConn
  <1> QED
    BY <1>1, <1>3, <1>4, <1>5, <1>6, <1>7, <1>8, <1>9, <1>10
    DEF Next, FwAnswer, dataConnOpenBadApn

LEMMA InitConn == Init /\ "agnss" \in Nifs => ConnInv
  <1> SUFFICES ASSUME Init, "agnss" \in Nifs PROVE ConnInv
    OBVIOUS
  <1>1. NoReport(msgQ)
    BY DEF Init, NoReport
  <1> QED
    BY <1>1 DEF Init, ConnInv, Down

\* Without PDN queries and bad APNs state machine and framework agree: an
\* ACQUIRED state machine has its connection, or is about to hear that it is
\* gone, a RELEASED one has left none behind.  (With them they may not: the
\* grant is then delayed past the close, or the close is not the framework's.)
THEOREM ConnectionAgreesAlways ==
    ASSUME ~WdsQuery, ~BadApn
    PROVE  Spec => []ConnectionAgrees
  <1>1. Init => ("agnss" \in Nifs => ConnInv)
    BY InitConn
  <1>2. IInv /\ ("agnss" \in Nifs => ConnInv) /\ [Next]_vars
            => ("agnss" \in Nifs => ConnInv)'
    BY NextConn
  <1>3. IInv /\ ("agnss" \in Nifs => ConnInv) => ConnectionAgrees
    <2> SUFFICES ASSUME IInv, ConnInv, "agnss" \in Nifs PROVE ConnectionAgrees
      BY DEF ConnectionAgrees
    <2>0. msgQ \in Seq(Msg)
      BY Parts DEF RestType
    <2>1. ASSUME state["agnss"] = "ACQUIRED", conn # "open"
          PROVE  \E i \in 1..Len(msgQ) : msgQ[i] = [m |-> "atlClosed", n |-> "agnss"]
      <3>1. OneReport(msgQ, "atlClosed")
        BY <2>1 DEF ConnInv, Up
      <3>2. PICK i \in 1..Len(msgQ) : Report(msgQ[i]) /\ msgQ[i].m = "atlClosed"
        BY <3>1 DEF OneReport
      <3>3. msgQ[i] \in Msg
        BY <2>0
      <3>4. msgQ[i] = [m |-> "atlClosed", n |-> "agnss"]
        BY <3>2, <3>3 DEF Msg, Report
      <3> QED
        BY <3>4
    <2>2. state["agnss"] = "RELEASED" => conn = "closed"
      BY DEF ConnInv, Down
    <2> QED
      BY <2>1, <2>2 DEF ConnectionAgrees
  <1> QED
    BY <1>1, <1>2, <1>3, Inductive, PTL DEF Spec

=============================================================================
