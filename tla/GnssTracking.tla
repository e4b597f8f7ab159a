---------------------------- MODULE GnssTracking ----------------------------
(***************************************************************************)
(* Tracking sessions of GnssAdapter (gps/gnss/GnssAdapter.cpp): clients    *)
(* start, update and stop sessions; the adapter multiplexes the time based *)
(* ones onto the single fix session of the GNSS engine and hands distance  *)
(* based ones to the engine one by one.                                    *)
(*                                                                         *)
(* Commands are messages of the adapter's queue msgQ.  A handler sends     *)
(* commands to the engine through apiQ and never waits: the rest of the    *)
(* operation is a callback that returns through msgQ when the engine has   *)
(* answered (LocApiResponse), other messages having run in between.        *)
(***************************************************************************)
EXTENDS Integers, Sequences, FiniteSets

CONSTANTS
    Sessions,      \* session ids, each used for one startTracking
    Clients,       \* LocationAPI clients
    ClientOf,      \* ClientOf[s]: the client that owns session s
    Mute,          \* clients without any tracking callback
    Options,       \* the tracking options clients ask for
    MinInterval,   \* MIN_TRACKING_INTERVAL
    DistanceSupported, \* is distance based tracking in the engine
    EngineErrors,  \* may the engine refuse a command while it is up
    BadOptions,    \* may a client pass options of size 0
    AwaitEngine,   \* do clients wait for the capabilities callback to start
    MaxUps,        \* bound: times the engine comes up, the boot included
    MaxNHz,        \* bound: changes of the engine hub's NHz requirement
    MaxQueue,      \* bound: clients send only while msgQ and apiQ are shorter
    MaxOwed        \* bound: answers a session's client waits for at a time

\* What a client may ask for: dist stands for minDistance > 0; power mode 0 is
\* GNSS_POWER_MODE_INVALID, a smaller mode is a more powerful one; interval 0
\* stands for anything below MIN_TRACKING_INTERVAL.
OptionType == [int : Nat, pow : 0..5, dist : BOOLEAN]

None == [int |-> 0, pow |-> 0, dist |-> FALSE]   \* options of size 0

ASSUME SessionAssumption == ClientOf \in [Sessions -> Clients] /\ Mute \subseteq Clients
ASSUME OptionAssumption == /\ MinInterval \in Nat \ {0}
                           /\ Options \subseteq OptionType
                           /\ None \notin Options
ASSUME FlagAssumption == /\ DistanceSupported \in BOOLEAN
                        /\ EngineErrors \in BOOLEAN
                        /\ BadOptions \in BOOLEAN
                        /\ AwaitEngine \in BOOLEAN

VARIABLES
    tb,        \* mTimeBasedTrackingSessions: session -> options
    db,        \* mDistanceBasedTrackingSessions: session -> options
    clients,   \* registered clients, the keys of mClientData
    capsKnown, \* engine capabilities known
    pending,   \* mPendingMsgs
    speHigh,   \* mSPEAlreadyRunningAtHighestInterval
    nhz,       \* mNHzNeeded
    removing,  \* the client stopClientSessions is working on, as a set
    msgQ,      \* the adapter's message queue
    apiQ,      \* commands on their way to the engine
    up,        \* is the engine up
    fix,       \* the engine's fix session: its options, None when stopped
    dfix,      \* distance based sessions running in the engine
    want,      \* want[s]: what the client asked for last, None when stopped
    owed,      \* owed[s]: commands the client has no answer to yet
    ups, nhzs  \* counters for the bounds

adapterVars == <<tb, db, clients, capsKnown, pending, speHigh, nhz, removing>>
engineVars == <<up, fix, dfix, ups, nhzs>>
vars == <<tb, db, clients, capsKnown, pending, speHigh, nhz, removing, msgQ,
          apiQ, up, fix, dfix, want, owed, ups, nhzs>>

Init ==
    /\ tb = << >> /\ db = << >>
    /\ clients = Clients
    /\ capsKnown = FALSE
    /\ pending = <<>>
    /\ speHigh = FALSE /\ nhz = FALSE
    /\ removing = {}
    /\ msgQ = <<>> /\ apiQ = <<>>
    /\ up = FALSE /\ fix = None /\ dfix = {}
    /\ want = [s \in Sessions |-> None]
    /\ owed = [s \in Sessions |-> 0]
    /\ ups = 0 /\ nhzs = 0

-----------------------------------------------------------------------------
(* Session maps. *)

Put(f, s, o) == [x \in DOMAIN f \cup {s} |-> IF x = s THEN o ELSE f[x]]
Drop(f, s) == [x \in DOMAIN f \ {s} |-> f[x]]

IsDistance(o) == o.dist /\ DistanceSupported

\* Mutant: the session stays.
eraseNone(maps, s) == maps

\* saveTrackingSession and eraseTrackingSession on the pair of maps.
save(maps, s, o) ==
    IF IsDistance(o) THEN <<maps[1], Put(maps[2], s, o)>>
    ELSE <<Put(maps[1], s, o), maps[2]>>

erase(maps, s) ==
    IF s \in DOMAIN maps[1] THEN <<Drop(maps[1], s), maps[2]>>
    ELSE <<maps[1], Drop(maps[2], s)>>

Maps == <<tb, db>>
SetMaps(maps) == tb' = maps[1] /\ db' = maps[2]

\* minInterval is raised to MIN_TRACKING_INTERVAL.
Raise(o) == [o EXCEPT !.int = IF @ < MinInterval THEN MinInterval ELSE @]

-----------------------------------------------------------------------------
(***************************************************************************)
(* Commands to the engine.  cb names the callback, with the session s and  *)
(* the options co it has captured; "none" is a callback that does nothing. *)
(* What a step does besides the maps is an effect: the commands it sends,  *)
(* the new value of speHigh, and who reports success to the client: the    *)
(* "caller" at once, startTimeBasedTracking it"self", or nobody until the  *)
(* engine's answer comes ("later").                                        *)
(***************************************************************************)
Callback == {"none", "start", "update", "stop", "dstart", "dstop", "clean",
             "toTimeBased", "restart", "restarted"}

Command == [op : {"startTB", "stopFix", "startDB", "stopDB"}, o : OptionType,
            cb : Callback, s : Sessions, co : OptionType]
           \cup [op : {"open"}]

OpenMsg == [op |-> "open"]

Cmd(op, o, cb, s, co) == [op |-> op, o |-> o, cb |-> cb, s |-> s, co |-> co]

\* Mutant: the client is not told at once.
NothingSaid == [cmds |-> <<>>, spe |-> speHigh, rep |-> "later"]

Nothing == [cmds |-> <<>>, spe |-> speHigh, rep |-> "caller"]

\* startTimeBasedTracking and updateTracking with checkAndSetSPEToRunforNHz.
RunEngine(o, cb, s, co) ==
    IF nhz /\ speHigh
    THEN [cmds |-> <<>>, spe |-> TRUE, rep |-> "self"]
    ELSE LET faster == nhz /\ o.int > MinInterval
             opts == IF faster THEN [o EXCEPT !.int = MinInterval] ELSE o
         IN  [cmds |-> <<Cmd("startTB", opts, cb, s, co)>>,
              spe |-> speHigh \/ faster,
              rep |-> "later"]

\* Mutant: the loop over the sessions keeps any of them.
AnySession(f) == {f[s] : s \in DOMAIN f}

\* The sessions with the smallest interval; which one of several the loop over
\* the map picks depends on the order of client addresses.
Smallest(f) == {f[s] : s \in {t \in DOMAIN f : \A u \in DOMAIN f : f[t].int <= f[u].int}}

\* The multiplexed power mode the loops compute.  A session with the invalid
\* mode makes the result depend on the order of the map.
Powers(f) == {f[s].pow : s \in DOMAIN f}
MuxPower(f) ==
    IF 0 \in Powers(f) THEN Powers(f)
    ELSE {p \in Powers(f) : \A q \in Powers(f) : p <= q}

\* The options the engine gets when o is started or updated next to the others.
Merge(o, small, pow) ==
    [small EXCEPT !.int = IF o.int < @ THEN o.int ELSE @,
                  !.pow = IF o.pow < pow THEN o.pow ELSE @]

\* startTimeBasedTrackingMultiplex(s, o).
startMultiplex(s, o) ==
    IF DOMAIN tb = {} THEN {RunEngine(o, "start", s, None)}
    ELSE {IF o.int < small.int \/ o.pow < pow
          THEN RunEngine(Merge(o, small, pow), "start", s, None)
          ELSE Nothing : small \in Smallest(tb), pow \in MuxPower(tb)}

\* updateTrackingMultiplex(s, o); the callback restores the old options.
updateMultiplex(s, o) ==
    LET old == tb[s]
        others == Drop(tb, s)
    IN  IF old.int = o.int /\ old.pow = o.pow THEN {Nothing}
        ELSE IF DOMAIN others = {} THEN {RunEngine(o, "update", s, old)}
        ELSE {IF o.int < small.int \/ o.pow < pow
              THEN RunEngine(Merge(o, small, pow), "update", s, old)
              ELSE Nothing : small \in Smallest(others), pow \in MuxPower(others)}

\* Mutant: the fix session ends with the last session but one.
stopMultiplexEarly(s) ==
    IF Cardinality(DOMAIN tb) <= 2
    THEN {[cmds |-> <<Cmd("stopFix", None, "stop", s, None)>>,
           spe |-> FALSE, rep |-> "later"]}
    ELSE {Nothing}

\* stopTimeBasedTrackingMultiplex(s), with stopTracking for the last session.
stopMultiplex(s) ==
    LET others == Drop(tb, s)
    IN  IF DOMAIN others = {}
        THEN {[cmds |-> <<Cmd("stopFix", None, "stop", s, None)>>,
               spe |-> FALSE, rep |-> "later"]}
        ELSE {IF tb[s].int < small.int \/ tb[s].pow < pow
              THEN RunEngine([small EXCEPT !.pow = pow], "start", s, None)
              ELSE Nothing : small \in Smallest(others), pow \in MuxPower(others)}

\* checkAndRestartTimeBasedSession, after speHigh has been reset.
RestartOptions ==
    LET valid == Powers(tb) \ {0}
        best == {p \in valid : \A q \in valid : p <= q}
        pows == best \cup (IF 0 \in Powers(tb) THEN {0} ELSE {})
    IN  {[small EXCEPT !.pow = p] : small \in Smallest(tb), p \in pows}

\* Mutant: the time based sessions are not restarted.
RestartNone(hz) == {[cmds |-> <<>>, spe |-> FALSE]}

RestartTimeBased(hz) ==
    IF DOMAIN tb = {} THEN {[cmds |-> <<>>, spe |-> FALSE]}
    ELSE {LET faster == hz /\ o.int > MinInterval
              opts == IF faster THEN [o EXCEPT !.int = MinInterval] ELSE o
          IN  [cmds |-> <<Cmd("startTB", opts, "none", s, None)>>, spe |-> faster] :
          o \in RestartOptions, s \in {CHOOSE t \in Sessions : TRUE}}

\* One command per distance based session, in some order.
DistanceCmds(S, op, cb) ==
    {q \in [1..Cardinality(S) -> {Cmd(op, db[s], cb, s, None) : s \in S}] :
        \A i, j \in 1..Cardinality(S) : q[i].s = q[j].s => i = j}

-----------------------------------------------------------------------------
(* Handlers of client commands. *)

Registered(s) == ClientOf[s] \in clients

\* reportResponse reaches registered clients only.
Report(s) == owed' = IF Registered(s) THEN [owed EXCEPT ![s] = @ - 1] ELSE owed
NoReport == UNCHANGED owed

Apply(e, s) ==
    /\ apiQ' = apiQ \o e.cmds
    /\ speHigh' = e.spe
    /\ IF e.rep = "later" THEN NoReport ELSE Report(s)

Send(cmd) == apiQ' = Append(apiQ, cmd) /\ UNCHANGED speHigh
Idle == UNCHANGED <<apiQ, speHigh>>

Arrived(kind) == removing = {} /\ msgQ # <<>> /\ Head(msgQ).m = kind
Take == msgQ' = Tail(msgQ)
Deferred == ~capsKnown /\ Head(msgQ).o.dist

Defer == /\ pending' = Append(pending, Head(msgQ))
         /\ UNCHANGED <<tb, db>> /\ Idle /\ NoReport

\* MsgStartTracking.  A client without callbacks and options of size 0 get no
\* answer.
ProcStart ==
    /\ Arrived("start") /\ Take
    /\ LET s == Head(msgQ).s
           o == Raise(Head(msgQ).o)
       IN  \/ Deferred /\ Defer
           \/ /\ ~Deferred
              /\ UNCHANGED pending
              /\ \/ /\ ~Registered(s) \/ ClientOf[s] \in Mute \/ Head(msgQ).o = None
                    /\ UNCHANGED <<tb, db>> /\ Idle /\ NoReport
                 \/ /\ Registered(s) /\ ClientOf[s] \notin Mute /\ Head(msgQ).o # None
                    /\ SetMaps(save(Maps, s, o))
                    /\ IF IsDistance(o)
                       THEN Send(Cmd("startDB", o, "dstart", s, None)) /\ NoReport
                       ELSE \E e \in startMultiplex(s, o) : Apply(e, s)
    /\ UNCHANGED <<clients, capsKnown, nhz, removing, want, engineVars>>

\* MsgUpdateTracking.
Update(s, o) ==
    \/ /\ s \in DOMAIN tb /\ o.dist
       /\ SetMaps(save(erase(Maps, s), s, o))
       /\ \E e \in stopMultiplex(s) :
             Apply([e EXCEPT !.cmds = Append(@, Cmd("startDB", o, "none", s, None))], s)
    \/ /\ s \in DOMAIN db /\ ~o.dist
       /\ SetMaps(erase(Maps, s))
       /\ Send(Cmd("stopDB", None, "toTimeBased", s, o))
       /\ NoReport
    \/ /\ s \in DOMAIN tb \ DOMAIN db /\ ~o.dist
       /\ SetMaps(save(Maps, s, o))
       /\ \E e \in updateMultiplex(s, o) : Apply(e, s)
    \/ /\ s \in DOMAIN db \ DOMAIN tb /\ o.dist
       /\ UNCHANGED <<tb, db>>
       /\ Send(Cmd("stopDB", None, "restart", s, o))
       /\ NoReport

ProcUpdate ==
    /\ Arrived("update") /\ Take
    /\ LET s == Head(msgQ).s
           o == Raise(Head(msgQ).o)
       IN  \/ Deferred /\ Defer
           \/ /\ ~Deferred
              /\ UNCHANGED pending
              /\ \/ /\ s \notin DOMAIN tb \cup DOMAIN db \/ Head(msgQ).o = None
                    /\ UNCHANGED <<tb, db>> /\ Idle /\ Report(s)
                 \/ Head(msgQ).o # None /\ Update(s, o)
    /\ UNCHANGED <<clients, capsKnown, nhz, removing, want, engineVars>>

\* MsgStopTracking.
ProcStop ==
    /\ Arrived("stop") /\ Take
    /\ LET s == Head(msgQ).s
       IN  \/ /\ s \in DOMAIN tb
              /\ SetMaps(erase(Maps, s))
              /\ \E e \in stopMultiplex(s) : Apply(e, s)
           \/ /\ s \in DOMAIN db \ DOMAIN tb
              /\ UNCHANGED <<tb, db>>
              /\ Send(Cmd("stopDB", None, "dstop", s, None))
              /\ NoReport
           \/ /\ s \notin DOMAIN tb \cup DOMAIN db
              /\ UNCHANGED <<tb, db>> /\ Idle /\ Report(s)
    /\ UNCHANGED <<clients, capsKnown, pending, nhz, removing, want, engineVars>>

\* MsgRemoveClient: stopClientSessions stops the time based sessions one after
\* the other (the thread takes no other message meanwhile), ...
ProcRemoveClient ==
    /\ Arrived("remove") /\ Take
    /\ removing' = {Head(msgQ).c}
    /\ UNCHANGED <<tb, db, clients, capsKnown, pending, speHigh, nhz, apiQ,
                   want, owed, engineVars>>

Owned(f) == {s \in DOMAIN f : ClientOf[s] \in removing}

RemoveTimeBased ==
    /\ \E s \in Owned(tb) :
          /\ SetMaps(erase(Maps, s))
          /\ \E e \in stopMultiplex(s) :
                Apply([e EXCEPT !.rep = IF @ = "self" THEN @ ELSE "later"], s)
    /\ UNCHANGED <<clients, capsKnown, pending, nhz, removing, msgQ, want,
                   engineVars>>

\* ... then asks for the end of the distance based ones and erases the client.
RemoveRest ==
    /\ removing # {}
    /\ Owned(tb) = {}
    /\ \E q \in DistanceCmds(Owned(db), "stopDB", "clean") : apiQ' = apiQ \o q
    /\ clients' = clients \ removing
    /\ removing' = {}
    /\ UNCHANGED <<tb, db, capsKnown, pending, speHigh, nhz, msgQ, want, owed,
                   engineVars>>

-----------------------------------------------------------------------------
(* The callbacks of engine commands, run as messages. *)

Response(cb) == Arrived("resp") /\ Head(msgQ).cb = cb /\ Take

Frame == UNCHANGED <<clients, capsKnown, pending, nhz, removing, want, engineVars>>

\* startTimeBasedTracking, and startDistanceBasedTracking of MsgStartTracking.
\* The client that is told of an error knows that it has no session.
RespStart ==
    /\ \E cb \in {"start", "dstart"} : Response(cb)
    /\ LET r == Head(msgQ)
       IN  /\ SetMaps(IF r.ok THEN Maps ELSE erase(Maps, r.s))
           /\ want' = IF r.ok THEN want ELSE [want EXCEPT ![r.s] = None]
           /\ Report(r.s)
    /\ Idle
    /\ UNCHANGED <<clients, capsKnown, pending, nhz, removing, engineVars>>

\* updateTracking: a refused update restores the old options.
RespUpdate ==
    /\ Response("update")
    /\ LET r == Head(msgQ)
       IN  /\ SetMaps(IF r.ok THEN Maps ELSE save(Maps, r.s, r.co))
           /\ Report(r.s)
    /\ Idle /\ Frame

\* stopTracking.
RespStop ==
    /\ Response("stop")
    /\ UNCHANGED <<tb, db>>
    /\ Report(Head(msgQ).s)
    /\ Idle /\ Frame

\* stopDistanceBasedTracking of MsgStopTracking and of stopClientSessions.
RespDistanceStop ==
    /\ \E cb \in {"dstop", "clean"} : Response(cb)
    /\ LET r == Head(msgQ)
       IN  /\ SetMaps(IF r.ok THEN erase(Maps, r.s) ELSE Maps)
           /\ IF r.cb = "dstop" THEN Report(r.s) ELSE NoReport
    /\ Idle /\ Frame

\* The distance based session has been stopped to become time based.
RespToTimeBased ==
    /\ Response("toTimeBased")
    /\ LET r == Head(msgQ)
       IN  /\ SetMaps(save(Maps, r.s, r.co))
           /\ \E e \in startMultiplex(r.s, r.co) : Apply(e, r.s)
    /\ Frame

\* The distance based session has been stopped to restart with new options.
RespRestart ==
    /\ Response("restart")
    /\ LET r == Head(msgQ)
       IN  IF r.ok THEN Send(Cmd("startDB", r.co, "restarted", r.s, r.co)) ELSE Idle
    /\ NoReport
    /\ UNCHANGED <<tb, db>> /\ Frame

RespRestarted ==
    /\ Response("restarted")
    /\ LET r == Head(msgQ)
       IN  /\ SetMaps(IF r.ok THEN save(Maps, r.s, r.co) ELSE Maps)
           /\ Report(r.s)
    /\ Idle /\ Frame

-----------------------------------------------------------------------------
(* Engine events. *)

\* checkAndRestartSPESession.
RestartSPE(hz) ==
    \E e \in RestartTimeBased(hz) :
        \E q \in DistanceCmds(DOMAIN db, "startDB", "none") :
            /\ apiQ' = apiQ \o e.cmds \o q
            /\ speHigh' = e.spe

\* MsgHandleEngineUpEvent: restartSessions, then the deferred messages are
\* queued again, behind those that have come in the meantime.
ProcEngineUp ==
    /\ Arrived("engineUp")
    /\ capsKnown' = TRUE
    /\ RestartSPE(nhz)
    /\ msgQ' = Tail(msgQ) \o pending
    /\ pending' = <<>>
    /\ UNCHANGED <<tb, db, clients, nhz, removing, want, owed, engineVars>>

\* The engine hub's updateNHzRequirementCb.
ProcNHz ==
    /\ Arrived("nhz") /\ Take
    /\ nhz' = ~nhz
    /\ RestartSPE(~nhz)
    /\ UNCHANGED <<tb, db, clients, capsKnown, pending, removing, want, owed,
                   engineVars>>

Proc ==
    \/ ProcStart \/ ProcUpdate \/ ProcStop \/ ProcRemoveClient
    \/ RemoveTimeBased \/ RemoveRest
    \/ RespStart \/ RespUpdate \/ RespStop \/ RespDistanceStop
    \/ RespToTimeBased \/ RespRestart \/ RespRestarted
    \/ ProcEngineUp \/ ProcNHz

-----------------------------------------------------------------------------
(* The clients. *)

Post(msg) == msgQ' = Append(msgQ, msg)
Room == Len(msgQ) < MaxQueue /\ Len(apiQ) < MaxQueue
Leaving(c) == c \in removing \/ \E i \in 1..Len(msgQ) :
                 msgQ[i].m = "remove" /\ msgQ[i].c = c

\* A client may send a command for its session.
MaySend(s) == /\ Room
              /\ Registered(s) /\ ~Leaving(ClientOf[s])
              /\ owed[s] < MaxOwed

Sent(s, o) == /\ want' = [want EXCEPT ![s] = o]
              /\ owed' = [owed EXCEPT ![s] = @ + 1]
              /\ UNCHANGED <<adapterVars, apiQ, engineVars>>

\* Session ids are new: the first command of a session is its start.
Unused(s) == want[s] = None /\ owed[s] = 0

startTracking(s, o) ==
    /\ MaySend(s) /\ Unused(s)
    /\ capsKnown \/ ~AwaitEngine
    /\ s \notin DOMAIN tb \cup DOMAIN db
    /\ Post([m |-> "start", s |-> s, o |-> o])
    /\ Sent(s, o)

updateTrackingOptions(s, o) ==
    /\ MaySend(s) /\ want[s] # None
    /\ Post([m |-> "update", s |-> s, o |-> o])
    /\ Sent(s, IF o = None THEN want[s] ELSE o)

stopTracking(s) ==
    /\ MaySend(s) /\ want[s] # None
    /\ Post([m |-> "stop", s |-> s])
    /\ Sent(s, None)

removeClient(c) ==
    /\ Room
    /\ c \in clients /\ ~Leaving(c)
    /\ Post([m |-> "remove", c |-> c])
    /\ want' = [s \in Sessions |-> IF ClientOf[s] = c THEN None ELSE want[s]]
    /\ UNCHANGED <<adapterVars, apiQ, owed, engineVars>>

-----------------------------------------------------------------------------
(* The engine, behind the message queue apiQ of LocApi. *)

Answer(cmd, ok) ==
    IF cmd.cb = "none" THEN UNCHANGED msgQ
    ELSE Post([m |-> "resp", cb |-> cmd.cb, s |-> cmd.s, co |-> cmd.co, ok |-> ok])

\* The next command is a command to the engine, not the message to open it.
Serve == apiQ # <<>> /\ Head(apiQ).op # "open" /\ apiQ' = Tail(apiQ)

EngineDone ==
    /\ up /\ Serve
    /\ LET cmd == Head(apiQ)
       IN  /\ fix' = CASE cmd.op = "startTB" -> cmd.o
                       [] cmd.op = "stopFix" -> None
                       [] OTHER -> fix
           /\ dfix' = CASE cmd.op = "startDB" -> dfix \cup {cmd.s}
                        [] cmd.op = "stopDB" -> dfix \ {cmd.s}
                        [] OTHER -> dfix
           /\ Answer(cmd, TRUE)
    /\ UNCHANGED <<adapterVars, up, want, owed, ups, nhzs>>

EngineRefuses ==
    /\ ~up \/ EngineErrors
    /\ Serve
    /\ Answer(Head(apiQ), FALSE)
    /\ UNCHANGED <<adapterVars, engineVars, want, owed>>

EngineDown ==
    /\ up /\ ups < MaxUps
    /\ up' = FALSE /\ fix' = None /\ dfix' = {}
    /\ UNCHANGED <<adapterVars, msgQ, apiQ, want, owed, ups, nhzs>>

\* LocApiBase::handleEngineDownEvent, and addAdapter at boot: the engine is
\* opened by a message behind the commands already there.
handleEngineDownEvent ==
    /\ ~up /\ ups < MaxUps
    /\ \A i \in 1..Len(apiQ) : apiQ[i].op # "open"
    /\ apiQ' = Append(apiQ, OpenMsg)
    /\ UNCHANGED <<adapterVars, msgQ, want, owed, engineVars>>

\* LocOpenMsg and LocSsrMsg: the engine is open and the adapter hears of it.
EngineUp ==
    /\ apiQ # <<>> /\ Head(apiQ).op = "open"
    /\ apiQ' = Tail(apiQ)
    /\ up' = TRUE /\ ups' = ups + 1
    /\ Post([m |-> "engineUp"])
    /\ UNCHANGED <<adapterVars, fix, dfix, want, owed, nhzs>>

NHzRequirement ==
    /\ Room /\ nhzs < MaxNHz
    /\ nhzs' = nhzs + 1
    /\ Post([m |-> "nhz"])
    /\ UNCHANGED <<adapterVars, apiQ, up, fix, dfix, want, owed, ups>>

Next ==
    \/ Proc
    \/ \E s \in Sessions, o \in Options \cup {None} :
          /\ o # None \/ BadOptions
          /\ startTracking(s, o) \/ updateTrackingOptions(s, o)
    \/ \E s \in Sessions : stopTracking(s)
    \/ \E c \in Clients : removeClient(c)
    \/ EngineDone \/ EngineRefuses \/ EngineDown \/ handleEngineDownEvent
    \/ EngineUp \/ NHzRequirement

Spec == Init /\ [][Next]_vars

-----------------------------------------------------------------------------
(* What tracking promises. *)

\* Nothing is on its way: every effect of what the clients did shows.
Quiet == up /\ capsKnown /\ msgQ = <<>> /\ apiQ = <<>> /\ removing = {}

\* The sessions have not been restarted.  A restart while a start or a stop is
\* under way may leave the engine and the session maps apart, as
\* checkAndRestartSPESession takes the sessions as they are, and the late answer
\* then erases one.
NoRestart == ups <= 1 /\ nhzs = 0

Message ==
    [m : {"start", "update"}, s : Sessions, o : Options \cup {None}]
    \cup [m : {"stop"}, s : Sessions]
    \cup [m : {"remove"}, c : Clients]
    \cup [m : {"resp"}, cb : Callback, s : Sessions, co : OptionType, ok : BOOLEAN]
    \cup [m : {"engineUp", "nhz"}]

TypeOK ==
    /\ DOMAIN tb \subseteq Sessions /\ \A s \in DOMAIN tb : tb[s] \in OptionType
    /\ DOMAIN db \subseteq Sessions /\ \A s \in DOMAIN db : db[s] \in OptionType
    /\ clients \subseteq Clients /\ removing \subseteq clients
    /\ capsKnown \in BOOLEAN /\ speHigh \in BOOLEAN /\ nhz \in BOOLEAN
    /\ up \in BOOLEAN
    /\ pending \in Seq(Message) /\ msgQ \in Seq(Message)
    /\ apiQ \in Seq(Command)
    /\ fix \in OptionType /\ dfix \subseteq Sessions
    /\ want \in [Sessions -> OptionType]
    /\ owed \in [Sessions -> Int]
    /\ ups \in Nat /\ nhzs \in Nat

\* When all is quiet the engine's single fix session runs exactly while there
\* is a time based session: the last stop ends it, whatever other sessions
\* were started meanwhile, and the engine gets it when it comes up.
FixWhenWanted == Quiet /\ NoRestart => (fix = None <=> DOMAIN tb = {})

\* Every time based session is served at its interval or faster ("find the
\* smallest interval and powerMode", GnssAdapter.cpp:3020), and at the highest rate
\* while an NHz measurement is required, whichever session it was started or
\* restarted for.
IntervalServed ==
    Quiet => /\ \A s \in DOMAIN tb : fix # None /\ fix.int <= tb[s].int
             /\ nhz /\ DOMAIN tb # {} => fix.int = MinInterval

\* ... and at its power mode or a more powerful one (the same comment).  Not when
\* a session shortens the interval only (Track_power.cfg).
PowerServed == Quiet => \A s \in DOMAIN tb : fix.pow <= tb[s].pow

\* "The smallest interval, which should be the active one"
\* (GnssAdapter.cpp:2664): the engine is not driven faster than any session
\* or the NHz requirement asks for.  Not when the fastest one slows down
\* (Track_active.cfg).
ActiveIsSmallest ==
    Quiet /\ DOMAIN tb # {} /\ ~nhz => \E s \in DOMAIN tb : fix.int = tb[s].int

\* The engine runs the distance based sessions of the adapter and no others; none
\* of them is time based as well, so that a stop ends all of it.
DistanceServed ==
    /\ Quiet /\ NoRestart => dfix = DOMAIN db
    /\ DOMAIN tb \cap DOMAIN db = {}

\* The adapter's sessions are those that the clients have started and not
\* stopped ("stopTracking stops a tracking session associated with id",
\* LocationAPI.h:75), with the options asked for last; those of a client that has
\* gone are gone.
SessionsAreWanted ==
    Quiet /\ pending = <<>> =>
        /\ DOMAIN tb \cup DOMAIN db = {s \in Sessions : want[s] # None}
        /\ \A s \in DOMAIN tb : tb[s] = Raise(want[s])

\* Every command of a registered client is answered ("responseCallback
\* returns ...", LocationAPI.h:68), and once only: the multiplexing either reports
\* at once or waits for the engine, never both.  (A client that is being removed may
\* be told once more.)
AnsweredOnce ==
    /\ Quiet /\ NoRestart /\ pending = <<>> =>
           \A s \in Sessions : Registered(s) => owed[s] = 0
    /\ \A s \in Sessions : ClientOf[s] \in clients \ removing => owed[s] >= 0
=============================================================================
