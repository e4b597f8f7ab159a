------------------------------- MODULE Batching -------------------------------
(***************************************************************************)
(* The batching sessions of gps/batching/BatchingAdapter.cpp.              *)
(*                                                                         *)
(* Routine and manual ("no auto report") sessions each run in the engine.  *)
(* All the trips share one batch of the engine, which ends after a         *)
(* distance; the adapter keeps the books of every trip and restarts the    *)
(* batch when a trip joins, leaves or is completed.  The BATCH_FULL event  *)
(* is registered while a session wants its locations by itself.  Commands  *)
(* that come before the engine is up are kept and sent again then.         *)
(***************************************************************************)
EXTENDS Naturals, Integers, Sequences, FiniteSets, SequencesExt, TLC

CONSTANTS
    Clients,
    Opts,        \* options of a session: mode, distance and interval
    W,           \* distances are modulo W, for 2^32
    MaxSessions, \* bound: sessions started
    MaxCmds,     \* bound: commands
    MaxMoves,    \* bound: distance travelled
    MaxUps,      \* bound: times the engine comes up
    Refusable,   \* calls the engine may refuse
    Supported,   \* the engine supports distance based batching
    Calm         \* see Patient, Leave and Still

ASSUME NumbersAssumption ==
    {W, MaxSessions, MaxCmds, MaxMoves, MaxUps} \subseteq Nat /\ W > 0
ASSUME OptsAssumption ==
    Opts \subseteq [mode : {"routine", "manual", "trip", "undefined", "empty"},
                   dist : Nat, tbf : Nat]
ASSUME CalmAssumption == {Calm, Supported} \subseteq BOOLEAN

VARIABLES
    ad,       \* the adapter, with the commands it keeps and its calls to the engine, and as
              \* history ad.word[id], what became of the last command of id, ad.from[id],
              \* odo when trip id began, ad.lost, see Drop, and ad.slips, see restartSessions,
              \* Joins and Leaves
    clients,  \* mClientData
    owner,    \* owner[id]: the client that started id
    msgQ,     \* messages of the adapter
    plain,    \* the engine's sessions that are no trips: id -> options
    batch,    \* the engine's batch of the trips
    odo,      \* distance travelled
    asked,    \* asked[id]: what the commands of id that were taken up want, or Off
    early,    \* was a trip completed before its distance
    cmds, ups

engineVars == <<plain, batch, ups>>
history == <<odo, asked, early, cmds>>
vars == <<ad, clients, owner, msgQ, engineVars, history>>

Ids == 1..MaxSessions
Off == [mode |-> "off", dist |-> 0, tbf |-> 0]
NoBatch == [on |-> FALSE, dist |-> 0, tbf |-> 0, acc |-> 0]
Without(f, x) == Restrict(f, DOMAIN f \ {x})
Minus(a, b) == (a - b) % W
Plus(a, b) == (a + b) % W

Init ==
    /\ \E known \in BOOLEAN :
       ad = [known |-> known, pending |-> <<>>, sessions |-> <<>>, trips |-> <<>>,
             ongoing |-> [dist |-> 0, tbf |-> 0],
             dropped |-> [dist |-> FALSE, tbf |-> FALSE],
             full |-> FALSE, apiQ |-> <<>>, word |-> [i \in Ids |-> "none"],
             from |-> [i \in Ids |-> 0], lost |-> FALSE, slips |-> {}]
    /\ clients = Clients /\ owner = <<>> /\ msgQ = <<>>
    /\ plain = <<>> /\ batch = NoBatch /\ ups = 0
    /\ odo = 0 /\ asked = [i \in Ids |-> Off]
    /\ early = FALSE /\ cmds = 0

-----------------------------------------------------------------------------
(* The functions of the adapter, from one state s of it to the next.         *)

\* autoReportBatchingSessionsCount
Count(s) == Cardinality({i \in DOMAIN s.sessions : s.sessions[i].mode # "manual"})
            + Cardinality(DOMAIN s.trips)

Call(s, a, dist, tbf, k) ==
    [s EXCEPT !.apiQ = Append(@, [a |-> a, dist |-> dist, tbf |-> tbf, k |-> k])]
Then(cb, id, opt) == [cb |-> cb, id |-> id, opt |-> opt]
\* to a client that is still there
reportResponse(s, id) ==
    IF owner[id] \in clients THEN [s EXCEPT !.word[id] = "answered"] ELSE s
save(s, id, opt) == [s EXCEPT !.sessions = (id :> opt) @@ @]
erase(s, id) == [s EXCEPT !.sessions = Without(@, id)]

\* BATCH_FULL is registered for the first session that wants it and unregistered after
\* the last.
Register(s, opt) ==
    IF opt.mode # "manual" /\ Count(s) = 0 THEN [s EXCEPT !.full = TRUE] ELSE s

\* Mutant: the other sessions are not counted.
UnregisterAlways(s, opt) ==
    IF opt.mode # "manual" THEN [s EXCEPT !.full = FALSE] ELSE s

Unregister(s, opt) ==
    IF opt.mode # "manual" /\ Count(s) = 0 THEN [s EXCEPT !.full = FALSE] ELSE s

startBatching(s, id, opt) ==
    Call(save(Register(s, opt), id, opt), "start", 0, 0, Then("started", id, opt))

\* Mutant: the books of a new trip do not say what the batch had travelled before it.
TripFromZero(ongoing, this, atRestart, opt) ==
    [ongoingBatch |-> 0, this |-> this, atRestart |-> atRestart,
     dist |-> opt.dist, tbf |-> opt.tbf]

Trip(ongoing, this, atRestart, opt) ==
    [ongoingBatch |-> ongoing, this |-> this, atRestart |-> atRestart,
     dist |-> opt.dist, tbf |-> opt.tbf]

startTrip(s0, id, opt) ==
    LET s == [s0 EXCEPT !.from[id] = odo]
    IN
    IF DOMAIN s.trips = {}
    THEN LET s1 == [save(Register(s, opt), id, opt) EXCEPT
                        !.trips = (id :> Trip(0, 0, 0, opt)) @@ @]
         IN  Call(s1, "startTrip", opt.dist, opt.tbf, Then("tripStarted", id, opt))
    ELSE Call(s, "query", 0, 0, Then("joins", id, opt))

start(s, id, opt) == IF opt.mode = "trip" THEN startTrip(s, id, opt)
                                          ELSE startBatching(s, id, opt)

\* Mutant: the session is not erased.
StopKeeps(s, id, opt) ==
    IF id \notin DOMAIN s.sessions THEN s
    ELSE Call(s, "stop", 0, 0,
              [cb |-> "stopped", id |-> id, opt |-> opt, old |-> s.sessions[id]])

\* opt is what to start afterwards, or Off.
stopBatching(s, id, opt) ==
    IF id \notin DOMAIN s.sessions THEN s
    ELSE Call(erase(s, id), "stop", 0, 0,
              [cb |-> "stopped", id |-> id, opt |-> opt, old |-> s.sessions[id]])

\* What t has travelled when its batch has travelled acc.
Travelled(t, acc) == Plus(t.atRestart, Minus(acc, t.ongoingBatch))
Remaining(t) == Minus(t.dist, t.this)

\* The least of the numbers n[id], as the code finds it: 0 stands for none as yet.
Least(n) == FoldLeft(LAMBDA m, id : IF m = 0 \/ m > n[id] THEN n[id] ELSE m,
                     0, SetToSortSeq(DOMAIN n, <))
LeastRemaining(trips) == Least([id \in DOMAIN trips |-> Remaining(trips[id])])
LeastInterval(trips) == Least([id \in DOMAIN trips |-> trips[id].tbf])

\* restartTripBatching
restartTrips(s, query, acc) ==
    IF DOMAIN s.trips = {}
    THEN LET s1 == Call(s, "stopTrip", 0, 0, Then("ignored", 0, Off))
             s2 == [s1 EXCEPT !.ongoing = [dist |-> 0, tbf |-> 0]]
         IN  IF Count(s2) = 0 THEN [s2 EXCEPT !.full = FALSE] ELSE s2
    ELSE Call(s, "query", 0, 0,
              [cb |-> "leaves", id |-> 0, query |-> query, acc |-> acc,
               dist |-> LeastRemaining(s.trips), tbf |-> LeastInterval(s.trips)])

\* The trip is taken from the map; its data are noise when it is not there.
Noise == {Trip(0, 0, 0, o) : o \in Opts}
Drop(s, id, t) ==
    [s EXCEPT !.trips = Without(@, id),
              !.lost = @ \/ id \notin DOMAIN s.trips,
              !.dropped = [dist |-> @.dist \/ t.dist = s.ongoing.dist,
                           tbf |-> @.tbf \/ t.tbf = s.ongoing.tbf]]

\* stopTripBatchingMultiplexCommon; t is the trip's record.
stopCommon(s, id, opt, t) ==
    LET s1 == Drop(s, id, t)
        s2 == IF DOMAIN s1.trips = {}
              THEN [s1 EXCEPT !.ongoing = [dist |-> 0, tbf |-> 0]]
              ELSE restartTrips(s1, TRUE, 0)
        s3 == IF opt = Off THEN s2 ELSE start(erase(s2, id), id, opt)
    IN  reportResponse(s3, id)

RecordsOf(s, id) == IF id \in DOMAIN s.trips THEN {s.trips[id]} ELSE Noise

\* The set of states that stopTripBatchingMultiplex may lead to.
stopTrip(s, id, opt) ==
    IF Cardinality(DOMAIN s.trips) = 1
    THEN {Call(s, "stopTrip", 0, 0, Then("tripStopped", id, opt))}
    ELSE {stopCommon(s, id, opt, t) : t \in RecordsOf(s, id)}

stop(s, id, opt) == IF id \in DOMAIN s.trips THEN stopTrip(s, id, opt)
                                             ELSE {stopBatching(s, id, opt)}

\* updateClientsEventMask
updateMask(s) == [s EXCEPT !.full = Count(s) > 0]

stopClientSessions(s, ids) ==
    LET one(id, was) == IF was.sessions[id].mode = "trip" THEN stopTrip(was, id, Off)
                          ELSE {stopBatching(was, id, Off)}
    IN  FoldSet(LAMBDA id, S : UNION {one(id, t) : t \in S}, {s}, ids)

-----------------------------------------------------------------------------
(* Commands                                                                  *)

Present(c) == c \in clients /\ \A k \in DOMAIN msgQ : msgQ[k] # [m |-> "leave", c |-> c]
Busy(id) == \/ \E k \in DOMAIN msgQ : msgQ[k].m \in {"cmd", "resp"} /\ msgQ[k].k.id = id
            \/ \E k \in DOMAIN ad.apiQ : ad.apiQ[k].k.id = id
            \/ \E k \in DOMAIN ad.pending : ad.pending[k].id = id
Quiet == msgQ = <<>> /\ ad.apiQ = <<>> /\ ad.pending = <<>>

\* With Calm a client has one command of a session at a time under way, nothing else is under
\* way when trips change, and no trip is updated to another.  It may name a session that the
\* adapter does not know.
PatientWith(opts) == Calm /\ (\E o \in opts : o.mode = "trip") => Quiet
Patient(id) == Calm => ~Busy(id)

Post(k) ==
    /\ cmds < MaxCmds /\ cmds' = cmds + 1
    /\ msgQ' = Append(msgQ, [m |-> "cmd", k |-> k])
    /\ ad' = [ad EXCEPT !.word[k.id] = "waits"]

startBatchingCommand(c, opt) ==
    /\ Present(c) /\ Len(owner) < MaxSessions /\ PatientWith({opt})
    /\ owner' = Append(owner, c)
    /\ Post([op |-> "start", id |-> Len(owner) + 1, opt |-> opt])
    /\ UNCHANGED <<clients, engineVars, odo, asked, early>>

\* updateBatchingOptionsCommand
updateBatchingOptionsCommand(id, opt) ==
    /\ Present(owner[id]) /\ Patient(id) /\ PatientWith({opt, asked[id]})
    /\ Calm => ~(opt.mode = "trip" /\ asked[id].mode = "trip")
    /\ Post([op |-> "update", id |-> id, opt |-> opt])
    /\ UNCHANGED <<owner, clients, engineVars, odo, asked, early>>

stopBatchingCommand(id) ==
    /\ Present(owner[id]) /\ Patient(id) /\ PatientWith({asked[id]})
    /\ Post([op |-> "stop", id |-> id, opt |-> Off])
    /\ UNCHANGED <<owner, clients, engineVars, odo, asked, early>>

getBatchedLocationsCommand(id) ==
    /\ Present(owner[id]) /\ Patient(id)
    /\ Post([op |-> "get", id |-> id, opt |-> Off])
    /\ UNCHANGED <<owner, clients, engineVars, odo, asked, early>>

\* With Calm a client leaves when nothing is under way, and when the adapter's sessions are
\* its own that run: it has no trip that joined others and none that is completed.
Leave(c) ==
    /\ Present(c)
    /\ Calm => /\ Quiet
               /\ \A id \in DOMAIN owner : owner[id] = c =>
                      (asked[id] # Off <=> id \in DOMAIN ad.sessions)
    /\ msgQ' = Append(msgQ, [m |-> "leave", c |-> c])
    /\ UNCHANGED <<ad, owner, clients, engineVars, history>>

-----------------------------------------------------------------------------
(* Messages of the adapter                                                   *)

Arrived(m) == msgQ # <<>> /\ Head(msgQ).m = m /\ msgQ' = Tail(msgQ)

\* Until the engine is up a command is kept.
Defer(k) ==
    /\ ~ad.known
    /\ ad' = [ad EXCEPT !.pending = Append(@, k)]
    /\ UNCHANGED asked

\* err is set and nobody is told of it.
Refuse(k) == ad' = [ad EXCEPT !.word[k.id] = "refused"] /\ UNCHANGED asked

hasBatchingCallback(id) == owner[id] \in clients
isBatchingSession(id) == id \in DOMAIN ad.sessions
Runs(opt) == opt.mode \in {"routine", "manual", "trip"}

ProcStart(k) ==
    /\ ad.known /\ k.op = "start"
    /\ IF ~hasBatchingCallback(k.id) \/ k.opt.mode = "empty" \/ ~Supported
       THEN Refuse(k)
       ELSE IF Runs(k.opt)
       THEN ad' = start(ad, k.id, k.opt) /\ asked' = [asked EXCEPT ![k.id] = k.opt]
       ELSE ad' = reportResponse(ad, k.id) /\ UNCHANGED asked

\* An update is a stop with options to start afterwards.
ProcChange(k) ==
    /\ ad.known /\ k.op \in {"update", "stop"}
    /\ IF ~isBatchingSession(k.id) \/ (k.op = "update" /\ ~Runs(k.opt))
       THEN Refuse(k)
       ELSE ad' \in stop(ad, k.id, k.opt) /\ asked' = [asked EXCEPT ![k.id] = k.opt]

ProcGet(k) ==
    /\ ad.known /\ k.op = "get"
    /\ ad' = IF hasBatchingCallback(k.id) /\ isBatchingSession(k.id)
             THEN Call(ad, "get", 0, 0, Then("got", k.id, Off))
             ELSE reportResponse(ad, k.id)
    /\ UNCHANGED asked

ProcCommand ==
    /\ Arrived("cmd")
    /\ LET k == Head(msgQ).k
       IN  Defer(k) \/ ProcStart(k) \/ ProcChange(k) \/ ProcGet(k)
    /\ UNCHANGED <<clients, owner, engineVars, odo, early, cmds>>

ProcLeave ==
    /\ Arrived("leave")
    /\ LET c == Head(msgQ).c
           mine == {id \in DOMAIN ad.sessions : owner[id] = c}
       IN  /\ \E s \in stopClientSessions(ad, mine) : ad' = updateMask(s)
           /\ clients' = clients \ {c}
           /\ asked' = [id \in Ids |-> IF id \in DOMAIN owner /\ owner[id] = c
                                       THEN Off ELSE asked[id]]
    /\ UNCHANGED <<owner, engineVars, odo, early, cmds>>

\* What a trip has travelled before it joined the batch stays in its books: the loop that
\* forgets it has a copy of each.  Then the books are wrong: slips.
restartSessions(s) ==
    LET again == SetToSeq({id \in DOMAIN s.sessions : s.sessions[id].mode # "trip"})
        s1 == IF Count(s) > 0 THEN [s EXCEPT !.full = TRUE] ELSE s
        s2 == [s1 EXCEPT !.apiQ = @ \o [k \in DOMAIN again |->
                   [a |-> "start", dist |-> 0, tbf |-> 0,
                    k |-> Then("ignored", again[k], s.sessions[again[k]])]]]
        left == LeastRemaining(s.trips)
        tbf == LeastInterval(s.trips)
        slips == \E i \in DOMAIN s.trips : s.trips[i].ongoingBatch # 0
    IN  IF DOMAIN s.trips = {} THEN s2
        ELSE Call([s2 EXCEPT !.ongoing = [dist |-> left, tbf |-> tbf],
                             !.slips = IF slips THEN @ \cup {"up"} ELSE @],
                  "startTrip", left, tbf, Then("tripsAgain", 0, Off))

\* MsgSSREvent
ProcEngineUp ==
    /\ msgQ # <<>> /\ Head(msgQ).m = "engineUp"
    /\ ad' = restartSessions([ad EXCEPT !.known = TRUE, !.pending = <<>>])
    /\ msgQ' = Tail(msgQ) \o [i \in DOMAIN ad.pending |-> [m |-> "cmd", k |-> ad.pending[i]]]
    /\ UNCHANGED <<clients, owner, engineVars, history>>

\* reportCompletedTripsEvent; whether a completed trip set the batch's distance or interval
\* is read from its record after that is erased.
ProcCompleted ==
    /\ Arrived("completed")
    /\ LET acc == Head(msgQ).acc
           now(t) == [t EXCEPT !.this = Travelled(t, acc)]
           trips == [i \in DOMAIN ad.trips |-> now(ad.trips[i])]
           over == {i \in DOMAIN trips : trips[i].dist <= trips[i].this}
           s == [ad EXCEPT !.trips = Restrict(trips, DOMAIN trips \ over)]
           noise(d, t) == [s EXCEPT !.dropped = [dist |-> @.dist \/ d, tbf |-> @.tbf \/ t]]
       IN  /\ IF over = {} THEN ad' = s
              ELSE \E d, t \in BOOLEAN : ad' = restartTrips(noise(d, t), FALSE, acc)
           /\ early' = (early \/ \E i \in over : odo - ad.from[i] < trips[i].dist)
           /\ asked' = [i \in Ids |-> IF i \in over THEN Off ELSE asked[i]]
    /\ UNCHANGED <<clients, owner, engineVars, odo, cmds>>

-----------------------------------------------------------------------------
(* Answers of the engine: k is what was asked, ok the success.               *)

Answered(cb) == /\ Arrived("resp") /\ Head(msgQ).k.cb = cb
                /\ UNCHANGED <<clients, owner, engineVars, odo, early, cmds>>
Key == Head(msgQ).k
Ok == Head(msgQ).ok
Fails(id) == asked' = [asked EXCEPT ![id] = Off]

\* Mutant: a session that does not start is not reported.
StartedSilent ==
    /\ Answered("started")
    /\ ad' = IF Ok THEN reportResponse(ad, Key.id)
                   ELSE Unregister(erase(ad, Key.id), Key.opt)
    /\ IF Ok THEN UNCHANGED asked ELSE Fails(Key.id)

Started ==
    /\ Answered("started")
    /\ LET s == IF Ok THEN ad ELSE Unregister(erase(ad, Key.id), Key.opt)
       IN  ad' = reportResponse(s, Key.id)
    /\ IF Ok THEN UNCHANGED asked ELSE Fails(Key.id)

\* What a plain stop that fails saves was never set.
Stopped ==
    /\ Answered("stopped")
    /\ \E noise \in Opts :
         LET s == IF Ok THEN Unregister(ad, Key.old)
                  ELSE save(ad, Key.id, IF Key.opt = Off THEN noise ELSE Key.opt)
         IN  ad' = reportResponse(IF Ok /\ Key.opt # Off THEN start(s, Key.id, Key.opt)
                                  ELSE s, Key.id)
    /\ UNCHANGED asked

TripStarted ==
    /\ Answered("tripStarted")
    /\ LET id == Key.id
           gone == [erase(ad, id) EXCEPT !.trips = Without(@, id)]
       IN  ad' = reportResponse(
                     IF Ok THEN [ad EXCEPT !.ongoing = [dist |-> Key.opt.dist,
                                                        tbf |-> Key.opt.tbf]]
                     ELSE IF Count(gone) = 0 THEN [gone EXCEPT !.full = FALSE] ELSE gone,
                     id)
    /\ IF Ok THEN UNCHANGED asked ELSE Fails(Key.id)

TripsAgain ==
    /\ Answered("tripsAgain")
    /\ ad' = IF Ok THEN ad ELSE [ad EXCEPT !.ongoing = [dist |-> 0, tbf |-> 0]]
    /\ UNCHANGED asked

\* The trip joins the others; acc is what the batch has travelled.  When the batch is
\* restarted the others' books forget acc: slips.
Joins ==
    /\ Answered("joins")
    /\ LET id == Key.id
           opt == Key.opt
           acc == Head(msgQ).acc
           sooner == ad.ongoing.tbf > opt.tbf
           left == IF Ok THEN Minus(ad.ongoing.dist, acc) ELSE ad.ongoing.dist
           shorter == opt.dist < left
           dist == IF shorter THEN opt.dist ELSE left
           tbf == IF sooner THEN opt.tbf ELSE ad.ongoing.tbf
           s == IF Ok THEN [ad EXCEPT !.trips = (id :> Trip(acc, 0, 0, opt)) @@ @] ELSE ad
           fresh(t) == [t EXCEPT !.ongoingBatch = 0, !.atRestart = t.this]
           slips == \E i \in DOMAIN ad.trips : ad.trips[i].ongoingBatch # acc
       IN  ad' = IF sooner \/ shorter
                 THEN Call([s EXCEPT !.ongoing = [dist |-> dist, tbf |-> tbf],
                                     !.trips = [i \in DOMAIN @ |-> fresh(@[i])],
                                     !.slips = IF slips THEN @ \cup {"join"} ELSE @],
                           "restartTrip", dist, tbf, Then("joined", id, opt))
                 ELSE reportResponse(s, id)
    /\ UNCHANGED asked

Reports ==
    /\ \/ Answered("joined") \/ Answered("got")
    /\ ad' = reportResponse(ad, Key.id)
    /\ UNCHANGED asked

Ignored == Answered("ignored") /\ UNCHANGED <<ad, asked>>

TripStopped ==
    /\ Answered("tripStopped")
    /\ LET s == IF Ok /\ Count(ad) = 1 THEN [ad EXCEPT !.full = FALSE] ELSE ad
       IN  \E t \in RecordsOf(s, Key.id) : ad' = stopCommon(s, Key.id, Key.opt, t)
    /\ UNCHANGED asked

\* A trip has left: does the batch need another distance or interval?  When it goes on and
\* is shorter than any trip needs, it will end with no trip completed: slips.
Leaves ==
    /\ Answered("leaves")
    /\ LET acc == IF Key.query THEN Head(msgQ).acc ELSE Key.acc
           left == Minus(ad.ongoing.dist, acc)
           goesOn == ~ad.dropped.dist /\ left # 0
           newDist == IF goesOn THEN Key.dist < left ELSE Key.dist # 0
           newTbf == \/ Key.tbf < ad.ongoing.tbf
                     \/ Key.tbf # ad.ongoing.tbf /\ ad.dropped.tbf
           dist == IF newDist THEN Key.dist ELSE ad.ongoing.dist
           tbf == IF newTbf THEN Key.tbf ELSE ad.ongoing.tbf
           length == IF newDist \/ newTbf THEN dist ELSE left
           slips == \A i \in DOMAIN ad.trips :
                        Minus(ad.trips[i].dist, Travelled(ad.trips[i], acc)) > length
           s == [ad EXCEPT !.slips = IF slips THEN @ \cup {"leave"} ELSE @]
       IN  ad' = IF newDist \/ newTbf
                 THEN Call(s, "restartTrip", dist, tbf,
                           [cb |-> "left", id |-> 0, acc |-> acc, dist |-> dist, tbf |-> tbf])
                 ELSE s
    /\ UNCHANGED asked

\* The distance of the batch before the restart is added to every trip.
Credit(t, acc) ==
    LET this == Travelled(t, acc)
    IN  [t EXCEPT !.this = this, !.ongoingBatch = 0, !.atRestart = this]

Left ==
    /\ Answered("left")
    /\ ad' = IF ~Ok THEN ad
             ELSE [ad EXCEPT !.trips = [i \in DOMAIN @ |-> Credit(@[i], Key.acc)],
                             !.ongoing = [dist |-> Key.dist, tbf |-> Key.tbf]]
    /\ UNCHANGED asked

Proc == \/ ProcCommand \/ ProcLeave \/ ProcEngineUp \/ ProcCompleted
        \/ Started \/ Stopped \/ TripStarted \/ TripsAgain \/ Joins \/ Reports \/ Ignored
        \/ TripStopped \/ Leaves \/ Left

-----------------------------------------------------------------------------
(* The engine, external                                                      *)

Serve(a) == ad.apiQ # <<>> /\ Head(ad.apiQ).a \in a

\* The answer to the first call, with the distance of the batch before it.
Answer(ok) ==
    /\ msgQ' = Append(msgQ, [m |-> "resp", k |-> Head(ad.apiQ).k, ok |-> ok,
                             acc |-> batch.acc])
    /\ ad' = [ad EXCEPT !.apiQ = Tail(@)]
    /\ UNCHANGED <<clients, owner, ups, history>>

\* With Calm it does not refuse what it had accepted before a restart.
EngineRefuses ==
    /\ Serve(Refusable)
    /\ Calm => Head(ad.apiQ).k.cb \notin {"ignored", "tripsAgain"}
    /\ Answer(FALSE)
    /\ UNCHANGED <<plain, batch>>

EnginePlain ==
    /\ Serve({"start", "stop", "get"})
    /\ LET h == Head(ad.apiQ)
       IN  plain' = CASE h.a = "start" -> (h.k.id :> h.k.opt) @@ plain
                      [] h.a = "stop" -> Without(plain, h.k.id)
                      [] h.a = "get" -> plain
    /\ Answer(TRUE)
    /\ UNCHANGED batch

EngineTrip ==
    /\ Serve({"startTrip", "restartTrip", "stopTrip", "query"})
    /\ LET h == Head(ad.apiQ)
       IN  batch' = CASE h.a \in {"startTrip", "restartTrip"} ->
                           [on |-> TRUE, dist |-> h.dist, tbf |-> h.tbf, acc |-> 0]
                      [] h.a = "stopTrip" -> NoBatch
                      [] h.a = "query" -> batch
    /\ Answer(TRUE)
    /\ UNCHANGED plain

\* With Calm nothing is travelled while the adapter reckons and the engine does not
\* restart while calls are under way.
Still == Calm => Quiet

Move ==
    /\ odo < MaxMoves /\ Still /\ odo' = odo + 1
    /\ IF batch.on /\ batch.acc < batch.dist
       THEN /\ batch' = [batch EXCEPT !.acc = @ + 1]
            /\ msgQ' = IF batch.acc + 1 = batch.dist
                       THEN Append(msgQ, [m |-> "completed", acc |-> batch.dist]) ELSE msgQ
       ELSE UNCHANGED <<batch, msgQ>>
    /\ UNCHANGED <<ad, clients, owner, plain, ups, asked, early, cmds>>

\* The engine comes up, for the first time or again.
EngineUp ==
    /\ ups < MaxUps /\ ups' = ups + 1 /\ (ad.known => Still)
    /\ plain' = <<>> /\ batch' = NoBatch
    /\ msgQ' = Append(msgQ, [m |-> "engineUp"])
    /\ UNCHANGED <<ad, clients, owner, history>>

Next ==
    \/ Proc \/ EngineRefuses \/ EnginePlain \/ EngineTrip \/ Move \/ EngineUp
    \/ \E c \in Clients : Leave(c) \/ \E opt \in Opts : startBatchingCommand(c, opt)
    \/ \E id \in DOMAIN owner :
          \/ \E opt \in Opts : updateBatchingOptionsCommand(id, opt)
          \/ stopBatchingCommand(id) \/ getBatchedLocationsCommand(id)

Spec == Init /\ [][Next]_vars

-----------------------------------------------------------------------------
TypeOK ==
    /\ DOMAIN ad.sessions \subseteq Ids /\ DOMAIN ad.trips \subseteq Ids
    /\ \A id \in DOMAIN ad.sessions : ad.sessions[id] \in Opts
    /\ ad.ongoing.dist \in 0..W /\ ad.ongoing.tbf \in Nat
    /\ ad.full \in BOOLEAN /\ clients \subseteq Clients

\* The trips have a batch that the adapter knows, and it ends when the first of them may.
TripsRun ==
    /\ DOMAIN ad.trips # {} <=> batch.on /\ batch.acc < batch.dist
    /\ batch.on => /\ ad.ongoing = [dist |-> batch.dist, tbf |-> batch.tbf]
                   /\ \A id \in DOMAIN ad.trips : batch.tbf <= ad.trips[id].tbf

\* When nothing is under way the engine runs the sessions the clients want, with the options
\* of the last command that was taken up, and no others; a trip runs or has been completed;
\* and while the books have not slipped the trips have a batch that has not ended, of the
\* length and the interval the adapter thinks, which are enough for each of them.
RunsWhatIsAsked == Quiet /\ ad.known =>
    /\ \A id \in Ids : asked[id].mode \in {"routine", "manual"} =>
           id \in DOMAIN plain /\ plain[id] = asked[id]
    /\ \A id \in DOMAIN plain : asked[id] = plain[id]
    /\ DOMAIN ad.trips = {id \in Ids : asked[id].mode = "trip"}
    /\ ad.slips = {} => TripsRun

\* With books that slipped a batch may end with no trip completed and none after it.
NeverStalls == Quiet /\ ad.known => TripsRun

\* BATCH_FULL is registered while a session that wants it runs.
FullWhenNeeded == Quiet =>
    (batch.on \/ (\E id \in DOMAIN plain : plain[id].mode # "manual") => ad.full)

\* The comment at BatchingAdapter.cpp:871: ... and unregistered after the last one.
FullOnlyWhenNeeded == Quiet =>
    (ad.full => batch.on \/ \E id \in DOMAIN plain : plain[id].mode # "manual")

\* No trip is completed before its distance has been travelled, until the engine comes up
\* again while the batch has a trip that joined it.
NotEarly == "up" \notin ad.slips => ~early

NeverEarly == ~early

\* The comment at BatchingAdapter.cpp:838: the books hold what every trip has travelled.
BooksBalance == Quiet => \A id \in DOMAIN ad.trips :
    ad.trips[id].atRestart + batch.acc - ad.trips[id].ongoingBatch = odo - ad.from[id]

\* Every command of a client that is there is answered, or refused by its first checks.
AllAnswered == Quiet => \A id \in DOMAIN owner : owner[id] \in clients => ad.word[id] # "waits"

\* A client is told of every refusal.
RefusalsAreTold == \A id \in DOMAIN owner : owner[id] \in clients => ad.word[id] # "refused"

\* The record of a trip is read only while it is there.
NoneLost == ~ad.lost
=============================================================================
