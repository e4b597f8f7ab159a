----------------------------- MODULE BatchingHal -----------------------------
(***************************************************************************)
(* The batching HAL, from the framework's calls down to the messages of    *)
(* the batching adapter: gps/android/2.1/GnssBatching.cpp,                 *)
(* location_api/BatchingAPIClient.cpp, the session part of                 *)
(* gps/location/LocationAPIClientBase and the creation and the destruction *)
(* of a client in gps/location/LocationAPI.cpp.                            *)
(*                                                                         *)
(* Calls are messages; an answer names only the session it is about and is *)
(* given to the oldest request of the client, so answers must come in the  *)
(* order of the requests.  The locations of a batch come in messages of    *)
(* their own.  Framework and adapter are two threads; a third one reports  *)
(* an empty batch when there is no session to flush.                       *)
(***************************************************************************)
EXTENDS Naturals, Sequences, FiniteSets, FiniteSetsExt, SequencesExt

CONSTANTS
    MaxClients,  \* bound: clients the framework initialises one after another
    MaxCalls,    \* bound: calls of the framework
    MaxLocs,     \* bound: locations the engine takes
    Refusable,   \* calls the engine may refuse
    Calm         \* see Still and start

ASSUME BoundsAssumption == {MaxClients, MaxCalls, MaxLocs} \subseteq Nat
ASSUME CalmAssumption == Calm \in BOOLEAN /\ Refusable \subseteq {"start", "get", "stop"}

VARIABLES
    fw,       \* where the framework is: what it may call
    gen,      \* the number of the current client, 0 before the first
    todo,     \* the calls to the client base the HAL method under way has yet to make
    base,     \* of the current client: its dictionary and its queue of requests
    mState, cache,    \* of the current client
    popped,   \* the answer whose request has been taken and not been run yet
    threads,  \* detached threads that are about to report an empty batch
    msgs,     \* messages of the adapters' thread
    waiting,  \* destroyClientData: the adapters each destroyed client waits for
    deleted,  \* the LocationAPI objects that are deleted
    registered, sessions,    \* the adapter's mClientData and mBatchingSessions
    eng,      \* calls to the engine, answered in order
    running, fifo,    \* sessions and locations of the engine
    events,   \* batches on their way to the adapter
    hist      \* counters and history

clientVars == <<base, mState, cache>>
adapterVars == <<registered, sessions>>
deathVars == <<waiting, deleted>>
engineVars == <<running, fifo, events>>
vars == <<fw, gen, todo, clientVars, popped, threads, msgs, deathVars, adapterVars,
          eng, engineVars, hist>>

Clients == 1..MaxClients
None == [n |-> 0]
Adapters == {"gnss", "batching"}

Init ==
    /\ fw = "new" /\ gen = 0 /\ todo = <<>>
    /\ base = [session |-> 0, queue |-> <<>>]
    /\ mState = "stopped" /\ cache = <<>>
    /\ popped = None /\ threads = 0 /\ msgs = <<>>
    /\ waiting = [g \in Clients |-> {}] /\ deleted = {}
    /\ registered = {} /\ sessions = {}
    /\ eng = <<>> /\ running = {} /\ fifo = <<>> /\ events = <<>>
    /\ hist = [calls |-> 0, requests |-> 0, ids |-> 0, locs |-> 0, given |-> <<>>,
               reported |-> <<>>, owed |-> FALSE, refused |-> {}]

\* Nothing is on its way between the HAL and the engine.
Settled == todo = <<>> /\ msgs = <<>> /\ eng = <<>> /\ popped = None

\* The framework flushes a stopped session, or cleans it up, only when nothing is on its way.
Still == Calm => Settled

\* The stop of a session has been asked for and not been answered.
StopPending ==
    \/ \E j \in 1..Len(base.queue) : base.queue[j].op = "stop"
    \/ popped # None /\ popped.key[1] = gen /\ popped.req.op = "stop"

-----------------------------------------------------------------------------
(* LocationAPIClientBase: each function runs under mMutex.                   *)

\* Request n of kind op goes into the queue and its call to the adapter.
push(op, s, n) ==
    /\ base' = [session |-> s, queue |-> Append(base.queue, [op |-> op, n |-> n])]
    /\ msgs' = Append(msgs, [op |-> op, key |-> <<gen, s>>, n |-> n])

\* An id that has a session is refused.
locAPIStartSession ==
    LET s == hist.ids + 1
    IN  /\ push("start", s, hist.requests + 1)
        /\ hist' = [hist EXCEPT !.ids = s, !.requests = @ + 1, !.calls = @ + 1]

\* locAPIGetBatchedLocations and locAPIStopSession, of an id that has a session
request(op) ==
    IF base.session = 0
    THEN UNCHANGED <<base, msgs, hist>>
    ELSE /\ push(op, base.session, hist.requests + 1)
         /\ hist' = [hist EXCEPT !.requests = @ + 1]

-----------------------------------------------------------------------------
(* The HAL: GnssBatching and BatchingAPIClient.                              *)

MayCall == todo = <<>> /\ hist.calls < MaxCalls

\* init: the old client is destroyed, in each of the adapters that are loaded.
init ==
    /\ fw \in {"new", "cleaned"} /\ MayCall /\ gen < MaxClients
    /\ fw' = "idle" /\ gen' = gen + 1
    /\ base' = [session |-> 0, queue |-> <<>>]
    /\ mState' = "stopped" /\ cache' = <<>> /\ threads' = 0
    /\ LET remove(a) == [op |-> "remove", key |-> <<gen, 0>>, n |-> 0, adapter |-> a]
           add == [op |-> "add", key |-> <<gen + 1, 0>>, n |-> 0]
       IN  IF gen = 0
           THEN msgs' = <<add>> /\ UNCHANGED waiting
           ELSE /\ msgs' = msgs \o <<remove("gnss"), remove("batching"), add>>
                /\ waiting' = [waiting EXCEPT ![gen] = Adapters]
    /\ hist' = [hist EXCEPT !.calls = @ + 1, !.given = <<>>, !.reported = <<>>,
                            !.owed = FALSE]
    /\ UNCHANGED <<todo, popped, deleted, adapterVars, eng, engineVars>>

\* A start is refused while there is a session.  The state changes all the same, and the
\* framework is told that it has started: the -1 of startSession is true as a bool.  With Calm
\* it starts again only when the stop of the last session is answered.
start ==
    /\ fw = "idle" /\ MayCall
    /\ Calm => ~StopPending
    /\ fw' = "started" /\ mState' = "started"
    /\ IF base.session # 0
       THEN hist' = [hist EXCEPT !.calls = @ + 1] /\ UNCHANGED <<base, msgs>>
       ELSE locAPIStartSession
    /\ UNCHANGED <<gen, todo, cache, popped, threads, deathVars, adapterVars, eng, engineVars>>

\* flushBatchedLocations: without a session a thread reports an empty batch.
flush ==
    /\ fw \in {"idle", "started"} /\ MayCall
    /\ fw = "idle" => Still
    /\ IF base.session = 0
       THEN threads' = threads + 1 /\ UNCHANGED <<base, msgs>>
       ELSE push("get", base.session, hist.requests + 1) /\ UNCHANGED threads
    /\ hist' = [hist EXCEPT !.calls = @ + 1, !.owed = @ \/ fw = "idle",
                            !.requests = IF base.session = 0 THEN @ ELSE @ + 1]
    /\ UNCHANGED <<fw, gen, todo, mState, cache, popped, deathVars, adapterVars, eng, engineVars>>

\* Mutant: the session is stopped before its last locations are fetched.
StopFirst == <<"stop", "get">>

stopSession == <<"get", "stop">>

Leave(from, to, calls) ==
    /\ fw \in from /\ MayCall
    /\ fw' = to /\ todo' = calls
    /\ hist' = [hist EXCEPT !.calls = @ + 1, !.owed = FALSE]
    /\ UNCHANGED <<gen, clientVars, popped, threads, msgs, deathVars, adapterVars, eng, engineVars>>

stop == Leave({"started"}, "idle", stopSession)
cleanup == (fw = "idle" => Still) /\ Leave({"idle", "started"}, "cleaned", stopSession)

\* The framework's process is gone: stop and cleanup.
serviceDied == Leave({"idle", "started"}, "cleaned", stopSession \o stopSession)

\* stopSession: STOPPING and the call for the last locations, then the call to stop
SessionStep ==
    /\ todo # <<>>
    /\ todo' = Tail(todo)
    /\ mState' = IF Head(todo) = "get" THEN "stopping" ELSE mState
    /\ request(Head(todo))
    /\ UNCHANGED <<fw, gen, cache, popped, threads, deathVars, adapterVars, eng, engineVars>>

\* Mutant: the cache waits for a batch that has locations.
NotWhenEmpty(b) ==
    IF mState = "stopping"
    THEN /\ mState' = "stopped" /\ cache' = cache \o b
         /\ hist' = [hist EXCEPT !.given = @ \o b]
    ELSE /\ cache' = IF b = <<>> THEN cache ELSE <<>>
         /\ hist' = [hist EXCEPT !.given = @ \o b,
                                 !.reported = IF b = <<>> THEN @ ELSE @ \o cache \o b]
         /\ UNCHANGED mState

onBatchingCb(b) ==
    IF mState = "stopping"
    THEN /\ mState' = "stopped" /\ cache' = cache \o b
         /\ hist' = [hist EXCEPT !.given = @ \o b]
    ELSE /\ cache' = <<>>
         /\ hist' = [hist EXCEPT !.given = @ \o b, !.reported = @ \o cache \o b]
         /\ UNCHANGED mState

EmptyBatch ==
    /\ threads > 0 /\ threads' = threads - 1
    /\ onBatchingCb(<<>>)
    /\ UNCHANGED <<fw, gen, todo, base, popped, msgs, deathVars, adapterVars, eng, engineVars>>

-----------------------------------------------------------------------------
(* The adapters' thread.                                                     *)

\* reportResponse and onResponseCb: the oldest request, if the session is known.
Answer(key, n, ok) ==
    IF key = <<gen, base.session>> /\ key[1] \in registered /\ base.queue # <<>>
    THEN /\ popped' = [req |-> Head(base.queue), n |-> n, ok |-> ok, key |-> key]
         /\ base' = [base EXCEPT !.queue = Tail(@)]
    ELSE UNCHANGED <<popped, base>>

\* Mutant: a refused stop forgets the session.
StopForgets(req, ok) == req.op = "stop" \/ (req.op = "start" /\ ~ok)

removesSession(req, ok) == (req.op = "stop" /\ ok) \/ (req.op = "start" /\ ~ok)

OnResponse ==
    /\ popped # None
    /\ popped' = None
    /\ base' = IF removesSession(popped.req, popped.ok) /\ popped.key = <<gen, base.session>>
               THEN [base EXCEPT !.session = 0] ELSE base
    /\ UNCHANGED <<fw, gen, todo, mState, cache, threads, msgs, deathVars, adapterVars,
                   eng, engineVars, hist>>

Idle == popped = None
Call(m) == eng' = Append(eng, [op |-> m.op, key |-> m.key, n |-> m.n])

HandleAdd(m) ==
    /\ m.op = "add"
    /\ registered' = registered \cup {m.key[1]}
    /\ UNCHANGED <<base, popped, deathVars, sessions, eng, hist>>

HandleStart(m) ==
    /\ m.op = "start"
    /\ sessions' = sessions \cup {m.key} /\ Call(m)
    /\ UNCHANGED <<base, popped, deathVars, registered, hist>>

HandleGet(m) ==
    /\ m.op = "get"
    /\ IF m.key \in sessions
       THEN Call(m) /\ UNCHANGED <<base, popped>>
       ELSE Answer(m.key, m.n, FALSE) /\ UNCHANGED eng
    /\ UNCHANGED <<deathVars, adapterVars, hist>>

\* A session the adapter does not know is not answered.
HandleStop(m) ==
    /\ m.op = "stop"
    /\ sessions' = sessions \ {m.key}
    /\ IF m.key \in sessions THEN Call(m) ELSE UNCHANGED eng
    /\ UNCHANGED <<base, popped, deathVars, registered, hist>>

\* Mutant: one adapter is enough.
onRemoveClientAny(g, a) ==
    /\ waiting' = [waiting EXCEPT ![g] = @ \ {a}]
    /\ deleted' = deleted \cup {g}

\* onRemoveClientCompleteCb: the last adapter deletes the LocationAPI.
onRemoveClientCompleteCb(g, a) ==
    /\ waiting' = [waiting EXCEPT ![g] = @ \ {a}]
    /\ deleted' = IF waiting'[g] = {} THEN deleted \cup {g} ELSE deleted

\* Mutant: the client's sessions go on.
StopsNone(g) == {}

stopClientSessions(g) == {k \in sessions : k[1] = g}

HandleRemove(m) ==
    /\ m.op = "remove"
    /\ LET g == m.key[1]
           mine == stopClientSessions(g)
       IN  /\ onRemoveClientCompleteCb(g, m.adapter)
           /\ IF m.adapter = "gnss"
              THEN UNCHANGED <<adapterVars, eng, hist>>
              ELSE /\ registered' = registered \ {g}
                   /\ sessions' = sessions \ mine
                   /\ eng' = eng \o SetToSeq({[op |-> "stop", key |-> k, n |-> 0] : k \in mine})
                   /\ hist' = [hist EXCEPT !.refused = {k \in @ : k[1] # g}]
    /\ UNCHANGED <<base, popped>>

HandleMsg ==
    /\ Idle /\ msgs # <<>>
    /\ msgs' = Tail(msgs)
    /\ LET m == Head(msgs)
       IN  \/ HandleAdd(m) \/ HandleStart(m) \/ HandleGet(m) \/ HandleStop(m)
           \/ HandleRemove(m)
    /\ UNCHANGED <<fw, gen, todo, mState, cache, threads, engineVars>>

\* The adapter corrects what it has assumed when it called.
onRefusal(c) == IF c.op = "start" THEN sessions \ {c.key}
                ELSE IF c.op = "stop" THEN sessions \cup {c.key}
                ELSE sessions

\* The engine has done what it was told, or refuses.  Its answer is a message of the
\* adapters' thread, handled here as it comes.
EngineAnswers ==
    /\ Idle /\ eng # <<>>
    /\ eng' = Tail(eng)
    /\ LET c == Head(eng)
       IN  \/ /\ running' = IF c.op = "start" THEN running \cup {c.key}
                            ELSE IF c.op = "stop" THEN running \ {c.key}
                            ELSE running
              /\ events' = IF c.op = "get" THEN Append(events, fifo) ELSE events
              /\ fifo' = IF c.op = "get" \/ running' = {} THEN <<>> ELSE fifo
              /\ Answer(c.key, c.n, TRUE)
              /\ UNCHANGED <<sessions, hist>>
           \/ /\ c.op \in Refusable
              /\ sessions' = onRefusal(c)
              /\ hist' = [hist EXCEPT !.refused = IF c.op = "stop" THEN @ \cup {c.key} ELSE @]
              /\ Answer(c.key, c.n, FALSE)
              /\ UNCHANGED <<running, events, fifo>>
    /\ UNCHANGED <<fw, gen, todo, mState, cache, threads, msgs, deathVars, registered>>

\* reportLocations: to the clients the adapter knows
DeliverBatch ==
    /\ Idle /\ events # <<>>
    /\ events' = Tail(events)
    /\ IF gen \in registered THEN onBatchingCb(Head(events))
                             ELSE UNCHANGED <<mState, cache, hist>>
    /\ UNCHANGED <<fw, gen, todo, base, popped, threads, msgs, deathVars, adapterVars,
                   eng, running, fifo>>

-----------------------------------------------------------------------------
(* The engine by itself: it takes locations, and reports them when it is full. *)

Locate ==
    /\ running # {} /\ hist.locs < MaxLocs
    /\ fifo' = Append(fifo, hist.locs + 1)
    /\ hist' = [hist EXCEPT !.locs = @ + 1]
    /\ UNCHANGED <<fw, gen, todo, clientVars, popped, threads, msgs, deathVars, adapterVars,
                   eng, running, events>>

Full ==
    /\ fifo # <<>>
    /\ events' = Append(events, fifo) /\ fifo' = <<>>
    /\ UNCHANGED <<fw, gen, todo, clientVars, popped, threads, msgs, deathVars, adapterVars,
                   eng, running, hist>>

Next ==
    \/ init \/ start \/ flush \/ stop \/ cleanup \/ serviceDied
    \/ SessionStep \/ EmptyBatch
    \/ OnResponse \/ HandleMsg \/ EngineAnswers \/ DeliverBatch
    \/ Locate \/ Full

Spec == Init /\ [][Next]_vars

-----------------------------------------------------------------------------
(* Properties.                                                               *)

TypeOK ==
    LET Keys == Clients \X (0..MaxCalls)
    IN  /\ fw \in {"new", "idle", "started", "cleaned"} /\ gen \in 0..MaxClients
        /\ todo \in Seq({"get", "stop"}) /\ mState \in {"stopped", "started", "stopping"}
        /\ base.session \in Nat /\ \A i \in DOMAIN base.queue :
                                    base.queue[i].op \in {"start", "get", "stop"}
        /\ cache \in Seq(1..MaxLocs) /\ fifo \in Seq(1..MaxLocs)
        /\ threads \in Nat /\ running \subseteq Keys /\ sessions \subseteq Keys
        /\ waiting \in [Clients -> SUBSET Adapters]
        /\ deleted \subseteq Clients /\ registered \subseteq Clients

\* An answer runs the request it belongs to, though it names only the session and takes
\* whatever is oldest in the queue, as long as the framework still uses the client.
AnswerIsForRequest ==
    popped # None /\ fw # "cleaned" /\ popped.key[1] = gen => popped.req.n = popped.n

\* When all is answered the client's dictionary has the session that runs in the engine
\* and no other: a session can be stopped, and after a stop a new one can be started.
DictionaryIsTrue ==
    Settled /\ fw \in {"idle", "started"} =>
        /\ {k \in running : k[1] = gen} =
               IF base.session = 0 THEN {} ELSE {<<gen, base.session>>}
        /\ base.queue = <<>>

\* The client hands the locations it is given to the framework in their order, the cached
\* ones first, and loses none; and a flush of a stopped session leaves nothing in its
\* cache, whether the batch of the stop comes before the empty one of the flush or after.
FlushReports ==
    /\ hist.reported \o cache = hist.given
    /\ hist.owed /\ Settled /\ events = <<>> /\ threads = 0 => cache = <<>>

\* After cleanup, or the death of the framework, with its stops that follow each other,
\* no session goes on running but those whose last stop the engine has refused: hist.refused,
\* from which the sessions of a client go when it is destroyed and they are stopped again.
CleanupStops == fw = "cleaned" /\ Settled => running \subseteq hist.refused

\* Of a LocationAPI that is deleted the adapters know nothing: no message or registration is
\* left that would call it, and no session, but one whose last stop the engine has refused.
DeletedIsUnknown ==
    \A g \in deleted :
        /\ g \notin registered
        /\ \A k \in sessions : k[1] = g => k \in hist.refused
        /\ \A i \in DOMAIN msgs : msgs[i].key[1] # g
=============================================================================
