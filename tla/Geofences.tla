------------------------------ MODULE Geofences ------------------------------
(***************************************************************************)
(* The geofences of gps/geofence/GeofenceAdapter.cpp.                      *)
(*                                                                         *)
(* A client names a geofence by the session id it got when it added it,    *)
(* the engine by a hardware id of its own; the adapter translates with two *)
(* maps.  A command may be about several geofences.  Each is taken through *)
(* the engine's call queue once before it is looked up and once more to be *)
(* carried out, and the answer for the last one reports them all together. *)
(* After a restart of the engine the adapter adds again what it knew.      *)
(***************************************************************************)
EXTENDS Naturals, Sequences, FiniteSets, TLC, Functions

CONSTANTS
    Clients,
    Opts,        \* options of a geofence
    MaxFences,   \* bound: geofences added
    MaxCmds,     \* bound: commands
    AddCounts,   \* how many geofences are added at once
    Counts,      \* how many another command may be about
    MaxRestarts, \* bound: restarts of the engine
    Refusable,   \* operations the engine may refuse
    ReuseIds,    \* does the engine hand out a hardware id again
    Calm,        \* see below
    MaxBreaches  \* bound: breaches in the queue

ASSUME NumbersAssumption ==
    /\ {MaxFences, MaxCmds, MaxRestarts, MaxBreaches} \subseteq Nat
    /\ AddCounts \cup Counts \subseteq Nat \ {0}
ASSUME FlagsAssumption == ReuseIds \in BOOLEAN /\ Calm \in BOOLEAN
ASSUME OptsAssumption == Opts # {}

VARIABLES
    fences,     \* mGeofences: hardware id -> id, options, paused
    ids,        \* mGeofenceIds: id of a client -> hardware id
    clients,    \* mClientData
    owner,      \* owner[id]: the client that added id
    cmd,        \* the commands with the arrays their messages share
    msgQ,       \* messages of the adapter
    apiQ,       \* calls on their way to the engine
    engine,     \* hardware id -> id, options, paused
    used,       \* hardware ids handed out
    up,         \* is the engine up
    restarts,
    told        \* told[id]: what the client was told of its geofence

mapVars == <<fences, ids>>
engineVars == <<engine, used, up, restarts>>
vars == <<mapVars, clients, owner, cmd, msgQ, apiQ, engineVars, told>>

Ids == 1..MaxFences
HwIds == 1..(MaxFences * (MaxRestarts + 1))
Nothing == [on |-> FALSE]
Fence(id, opt, paused) == [id |-> id, opt |-> opt, paused |-> paused]

With(f, x, y) == [z \in DOMAIN f \cup {x} |-> IF z = x THEN y ELSE f[z]]
Without(f, x) == Restrict(f, DOMAIN f \ {x})

Init ==
    /\ fences = <<>> /\ ids = <<>>
    /\ clients = Clients
    /\ owner = <<>> /\ cmd = <<>>
    /\ msgQ = <<>> /\ apiQ = <<>>
    /\ engine = <<>> /\ used = {}
    /\ up = TRUE /\ restarts = 0
    /\ told = [i \in Ids |-> Nothing]

-----------------------------------------------------------------------------
(* Commands of the clients                                                   *)

\* The client's LocationAPI is there and has not been destroyed.
Present(c) == c \in clients /\ \A k \in DOMAIN msgQ : msgQ[k] # [m |-> "leave", c |-> c]

\* Nothing is under way.
Quiet == msgQ = <<>> /\ apiQ = <<>> /\ up

\* The geofences are being added again.
Restarting == \/ \E k \in DOMAIN msgQ : msgQ[k].m \in {"engineUp", "readded"}
              \/ \E k \in DOMAIN apiQ : apiQ[k].a \in {"readd", "pause"}

\* A client is being removed, a geofence modified.  With Calm the engine does not restart
\* meanwhile and a client leaves when nothing is under way: what the code does otherwise
\* breaks WatchesWhatIsTold.
Delicate == \/ \E k \in DOMAIN msgQ : msgQ[k].m \in {"leave", "dropped"}
            \/ \E k \in DOMAIN apiQ : apiQ[k].a = "drop"
            \/ \E b \in DOMAIN cmd : cmd[b].live /\ cmd[b].op = "modify"

Post(op, c, list, opt) ==
    /\ Len(cmd) < MaxCmds
    /\ cmd' = Append(cmd, [op |-> op, c |-> c, ids |-> list, opt |-> opt,
                           errs |-> [i \in DOMAIN list |-> "unset"],
                           live |-> TRUE])
    /\ msgQ' = Append(msgQ, [m |-> "cmd", b |-> Len(cmd) + 1])

\* The session ids are the client's at once.
addGeofencesCommand(c, n, opt) ==
    /\ Present(c)
    /\ Len(owner) + n <= MaxFences
    /\ owner' = owner \o [i \in 1..n |-> c]
    /\ Post("add", c, [i \in 1..n |-> Len(owner) + i], opt)
    /\ UNCHANGED <<mapVars, clients, apiQ, engineVars, told>>

\* remove, pause, resume or modify geofences of the client's own.
otherCommand(op, c, list, opt) ==
    /\ Present(c)
    /\ \A i \in DOMAIN list : owner[list[i]] = c
    /\ Calm /\ op = "modify" => up /\ ~Restarting
    /\ Post(op, c, list, opt)
    /\ UNCHANGED <<mapVars, clients, owner, apiQ, engineVars, told>>

Leave(c) ==
    /\ Present(c)
    /\ Calm => Quiet
    /\ msgQ' = Append(msgQ, [m |-> "leave", c |-> c])
    /\ UNCHANGED <<mapVars, clients, owner, cmd, apiQ, engineVars, told>>

-----------------------------------------------------------------------------
(* The two maps                                                              *)

saveGeofenceItem(id, hw, opt) ==
    /\ fences' = With(fences, hw, Fence(id, opt, FALSE))
    /\ ids' = With(ids, id, hw)

removeGeofenceItem(hw) ==
    IF hw \in DOMAIN fences /\ fences[hw].id \in DOMAIN ids
    THEN /\ ids' = Without(ids, fences[hw].id)
         /\ fences' = Without(fences, hw)
    ELSE UNCHANGED mapVars

\* pauseGeofenceItem, resumeGeofenceItem, modifyGeofenceItem.
changeItem(hw, op, opt) ==
    /\ fences' = IF hw \notin DOMAIN fences THEN fences
                 ELSE CASE op = "pause" -> [fences EXCEPT ![hw].paused = TRUE]
                        [] op = "resume" -> [fences EXCEPT ![hw].paused = FALSE]
                        [] op = "modify" -> [fences EXCEPT ![hw].opt = opt]
    /\ UNCHANGED ids

-----------------------------------------------------------------------------
(* Messages of the adapter.  b is the command, i the place in its arrays.    *)

Arrived(m) == msgQ # <<>> /\ Head(msgQ).m = m

\* What the client knows of geofence id after op has succeeded.
Learn(id, op, opt) ==
    CASE op = "add" -> [on |-> TRUE, opt |-> opt, paused |-> FALSE]
      [] op = "remove" -> Nothing
      [] op = "pause" -> IF told[id].on THEN [told[id] EXCEPT !.paused = TRUE]
                                        ELSE told[id]
      [] op = "resume" -> IF told[id].on THEN [told[id] EXCEPT !.paused = FALSE]
                                         ELSE told[id]
      [] op = "modify" -> IF told[id].on THEN [told[id] EXCEPT !.opt = opt]
                                         ELSE told[id]

\* reportResponse to a client that is still there, and delete[] of the arrays.
Report(b, errs) ==
    LET k == cmd[b]
        item(id) == CHOOSE i \in DOMAIN k.ids : k.ids[i] = id
    IN  /\ cmd' = [cmd EXCEPT ![b].errs = errs, ![b].live = FALSE]
        /\ told' = [id \in Ids |->
                IF /\ k.c \in clients
                   /\ \E i \in DOMAIN k.ids : k.ids[i] = id /\ errs[i] = "ok"
                THEN Learn(id, k.op, k.opt) ELSE told[id]]

\* Mutant: the first item reports them all.
AnswerFirst(b, i, errs) ==
    IF i = 1 THEN Report(b, errs)
    ELSE cmd' = [cmd EXCEPT ![b].errs = errs] /\ UNCHANGED told

\* The error of item i is noted; the last item reports them all.
Answer(b, i, errs) ==
    IF i = Len(cmd[b].ids) THEN Report(b, errs)
    ELSE cmd' = [cmd EXCEPT ![b].errs = errs] /\ UNCHANGED told

\* MsgAddGeofences and its like: each item goes through the call queue.
ProcCommand ==
    /\ Arrived("cmd")
    /\ LET b == Head(msgQ).b
       IN  apiQ' = apiQ \o [i \in DOMAIN cmd[b].ids |->
                                [a |-> "queue", b |-> b, i |-> i]]
    /\ msgQ' = Tail(msgQ)
    /\ UNCHANGED <<mapVars, clients, owner, cmd, engineVars, told>>

\* Mutant: the item is removed before the engine has done so.
LookupRemoves ==
    /\ Arrived("lookup")
    /\ LET b == Head(msgQ).b
           i == Head(msgQ).i
           id == cmd[b].ids[i]
           call(hw) == [a |-> "do", b |-> b, i |-> i, hw |-> hw]
       IN  \/ /\ cmd[b].op = "add"
              /\ apiQ' = Append(apiQ, call(0))
              /\ UNCHANGED <<mapVars, cmd, told>>
           \/ /\ cmd[b].op # "add" /\ id \in DOMAIN ids
              /\ apiQ' = Append(apiQ, call(ids[id]))
              /\ IF cmd[b].op = "remove" THEN removeGeofenceItem(ids[id])
                                         ELSE UNCHANGED mapVars
              /\ cmd' = [cmd EXCEPT ![b].errs[i] = "ok"]
              /\ UNCHANGED told
    /\ msgQ' = Tail(msgQ)
    /\ UNCHANGED <<clients, owner, engineVars>>

\* The call queue's turn: the id is looked up and the engine called.
Lookup ==
    /\ Arrived("lookup")
    /\ LET b == Head(msgQ).b
           i == Head(msgQ).i
           id == cmd[b].ids[i]
           call(hw) == [a |-> "do", b |-> b, i |-> i, hw |-> hw]
       IN  \/ /\ cmd[b].op = "add"
              /\ apiQ' = Append(apiQ, call(0))
              /\ UNCHANGED <<cmd, told>>
           \/ /\ cmd[b].op # "add" /\ id \in DOMAIN ids
              /\ apiQ' = Append(apiQ, call(ids[id]))
              /\ cmd' = [cmd EXCEPT ![b].errs[i] = "ok"]
              /\ UNCHANGED told
           \/ /\ cmd[b].op # "add" /\ id \notin DOMAIN ids
              /\ Answer(b, i, [cmd[b].errs EXCEPT ![i] = "unknown"])
              /\ UNCHANGED apiQ
    /\ msgQ' = Tail(msgQ)
    /\ UNCHANGED <<mapVars, clients, owner, engineVars>>

\* The engine's answer about one item.  A resume that is refused is not reported, a
\* modify that is refused keeps the error of the lookup.
Done ==
    /\ Arrived("done")
    /\ LET b == Head(msgQ).b
           i == Head(msgQ).i
           hw == Head(msgQ).hw
           ok == Head(msgQ).ok
           k == cmd[b]
           noted == [k.errs EXCEPT ![i] = IF ok THEN "ok" ELSE "refused"]
       IN  /\ IF ~ok THEN UNCHANGED mapVars
              ELSE CASE k.op = "add" -> saveGeofenceItem(k.ids[i], hw, k.opt)
                     [] k.op = "remove" -> removeGeofenceItem(hw)
                     [] OTHER -> changeItem(hw, k.op, k.opt)
           /\ IF k.op = "resume" /\ ~ok THEN UNCHANGED <<cmd, told>>
              ELSE IF k.op = "modify" /\ ~ok THEN Answer(b, i, k.errs)
              ELSE Answer(b, i, noted)
    /\ msgQ' = Tail(msgQ)
    /\ UNCHANGED <<clients, owner, apiQ, engineVars>>

\* stopClientSessions: the ids go at once, the geofences when the engine agrees.
stopClientSessions(c) ==
    LET mine == {id \in DOMAIN ids : owner[id] = c}
        order == CHOOSE s \in [1..Cardinality(mine) -> mine] : IsInjective(s)
    IN  /\ ids' = RestrictDomain(ids, LAMBDA id : owner[id] # c)
        /\ apiQ' = apiQ \o [k \in DOMAIN order |->
                                [a |-> "drop", hw |-> ids[order[k]]]]

ProcLeave ==
    /\ Arrived("leave")
    /\ LET c == Head(msgQ).c
       IN  /\ stopClientSessions(c)
           /\ clients' = clients \ {c}
           /\ told' = [id \in Ids |-> IF id \in DOMAIN owner /\ owner[id] = c
                                      THEN Nothing ELSE told[id]]
    /\ msgQ' = Tail(msgQ)
    /\ UNCHANGED <<fences, owner, cmd, engineVars>>

Dropped ==
    /\ Arrived("dropped")
    /\ fences' = IF Head(msgQ).ok THEN Without(fences, Head(msgQ).hw) ELSE fences
    /\ msgQ' = Tail(msgQ)
    /\ UNCHANGED <<ids, clients, owner, cmd, apiQ, engineVars, told>>

\* Everything known is forgotten and added again.
restartGeofences ==
    /\ LET n == Cardinality(DOMAIN fences)
           order == CHOOSE s \in [1..n -> DOMAIN fences] : IsInjective(s)
       IN  apiQ' = apiQ \o [k \in 1..n |-> [a |-> "readd", old |-> fences[order[k]]]]
    /\ fences' = <<>> /\ ids' = <<>>

ProcEngineUp ==
    /\ Arrived("engineUp")
    /\ restartGeofences
    /\ msgQ' = Tail(msgQ)
    /\ UNCHANGED <<clients, owner, cmd, engineVars, told>>

\* Mutant: a geofence that was paused is not paused again.
pauseAgainNot(old, hw) == UNCHANGED apiQ

pauseAgain(old, hw) ==
    apiQ' = IF old.paused THEN Append(apiQ, [a |-> "pause", hw |-> hw]) ELSE apiQ

\* The answer to an addition after a restart.
Readded ==
    /\ Arrived("readded")
    /\ LET old == Head(msgQ).old
           hw == Head(msgQ).hw
       IN  IF Head(msgQ).ok
           THEN saveGeofenceItem(old.id, hw, old.opt) /\ pauseAgain(old, hw)
           ELSE UNCHANGED <<mapVars, apiQ>>
    /\ msgQ' = Tail(msgQ)
    /\ UNCHANGED <<clients, owner, cmd, engineVars, told>>

\* geofenceBreach: the client that has the geofence is told of it by its id.
ProcBreach ==
    /\ Arrived("breach")
    /\ msgQ' = Tail(msgQ)
    /\ UNCHANGED <<mapVars, clients, owner, cmd, apiQ, engineVars, told>>

Proc == \/ ProcCommand \/ Lookup \/ Done \/ ProcLeave \/ Dropped
        \/ ProcEngineUp \/ Readded \/ ProcBreach

-----------------------------------------------------------------------------
(* The engine, external: calls are carried out in order and answered.        *)

Reply(msg) == msgQ' = Append(msgQ, msg) /\ apiQ' = Tail(apiQ)

\* May the engine refuse op: it does while it is down.
CanRefuse(op) == ~up \/ op \in Refusable

EngineQueue ==
    /\ apiQ # <<>> /\ Head(apiQ).a = "queue"
    /\ Reply([m |-> "lookup", b |-> Head(apiQ).b, i |-> Head(apiQ).i])
    /\ UNCHANGED <<mapVars, clients, owner, cmd, engineVars, told>>

Add(id, opt, hw) ==
    /\ hw \notin DOMAIN engine /\ (hw \in used => ReuseIds)
    /\ \A h \in HwIds : h < hw => h \in used
    /\ engine' = With(engine, hw, Fence(id, opt, FALSE))
    /\ used' = used \cup {hw}

\* A call about the geofence hw; TRUE when the engine has done it.
Change(op, hw, opt) ==
    /\ hw \in DOMAIN engine
    /\ engine' = CASE op = "remove" -> Without(engine, hw)
                   [] op = "pause" -> [engine EXCEPT ![hw].paused = TRUE]
                   [] op = "resume" -> [engine EXCEPT ![hw].paused = FALSE]
                   [] op = "modify" -> [engine EXCEPT ![hw].opt = opt]
    /\ UNCHANGED used

EngineDo ==
    /\ apiQ # <<>> /\ Head(apiQ).a = "do"
    /\ LET h == Head(apiQ)
           k == cmd[h.b]
           answer(hw, ok) == [m |-> "done", b |-> h.b, i |-> h.i, hw |-> hw,
                              ok |-> ok]
       IN  \/ /\ up /\ k.op = "add"
              /\ \E hw \in HwIds : /\ Add(k.ids[h.i], k.opt, hw)
                                   /\ Reply(answer(hw, TRUE))
           \/ /\ up /\ k.op # "add"
              /\ Change(k.op, h.hw, k.opt)
              /\ Reply(answer(h.hw, TRUE))
           \/ /\ CanRefuse(k.op) \/ (k.op # "add" /\ h.hw \notin DOMAIN engine)
              /\ Reply(answer(h.hw, FALSE))
              /\ UNCHANGED <<engine, used>>
    /\ UNCHANGED <<mapVars, clients, owner, cmd, up, restarts, told>>

EngineReadd ==
    /\ apiQ # <<>> /\ Head(apiQ).a = "readd"
    /\ LET old == Head(apiQ).old
           answer(hw, ok) == [m |-> "readded", old |-> old, hw |-> hw, ok |-> ok]
       IN  \/ /\ up
              /\ \E hw \in HwIds : /\ Add(old.id, old.opt, hw)
                                   /\ Reply(answer(hw, TRUE))
           \/ /\ CanRefuse("add")
              /\ Reply(answer(0, FALSE))
              /\ UNCHANGED <<engine, used>>
    /\ UNCHANGED <<mapVars, clients, owner, cmd, up, restarts, told>>

\* The pause after a restart; its answer does nothing.
EnginePause ==
    /\ apiQ # <<>> /\ Head(apiQ).a = "pause"
    /\ apiQ' = Tail(apiQ)
    /\ \/ up /\ Change("pause", Head(apiQ).hw, "none")
       \/ /\ CanRefuse("pause") \/ Head(apiQ).hw \notin DOMAIN engine
          /\ UNCHANGED <<engine, used>>
    /\ UNCHANGED <<mapVars, clients, owner, cmd, msgQ, up, restarts, told>>

EngineDrop ==
    /\ apiQ # <<>> /\ Head(apiQ).a = "drop"
    /\ LET hw == Head(apiQ).hw
           answer(ok) == [m |-> "dropped", hw |-> hw, ok |-> ok]
       IN  \/ /\ up
              /\ Change("remove", hw, "none") /\ Reply(answer(TRUE))
           \/ /\ CanRefuse("remove") \/ hw \notin DOMAIN engine
              /\ Reply(answer(FALSE)) /\ UNCHANGED <<engine, used>>
    /\ UNCHANGED <<mapVars, clients, owner, cmd, up, restarts, told>>

EngineDown ==
    /\ up /\ restarts < MaxRestarts
    /\ Calm => ~Delicate
    /\ up' = FALSE /\ restarts' = restarts + 1
    /\ engine' = <<>>
    /\ UNCHANGED <<mapVars, clients, owner, cmd, msgQ, apiQ, used, told>>

EngineUp ==
    /\ ~up /\ up' = TRUE
    /\ msgQ' = Append(msgQ, [m |-> "engineUp"])
    /\ UNCHANGED <<mapVars, clients, owner, cmd, apiQ, engine, used, restarts,
                   told>>

\* id is history: the geofence that was crossed.
Breach(hw) ==
    /\ up /\ ~engine[hw].paused
    /\ Cardinality({k \in DOMAIN msgQ : msgQ[k].m = "breach"}) < MaxBreaches
    /\ msgQ' = Append(msgQ, [m |-> "breach", hw |-> hw, id |-> engine[hw].id])
    /\ UNCHANGED <<mapVars, clients, owner, cmd, apiQ, engineVars, told>>

EngineStep == EngineQueue \/ EngineDo \/ EngineReadd \/ EnginePause \/ EngineDrop
              \/ EngineUp

\* Geofences are added with it, then modified.
FirstOpt == CHOOSE o \in Opts : TRUE

Lists == {s \in UNION {[1..n -> DOMAIN owner] : n \in Counts} : IsInjective(s)}

Next ==
    \/ Proc \/ EngineStep \/ EngineDown
    \/ \E c \in Clients : Leave(c)
    \/ \E c \in Clients, n \in AddCounts : addGeofencesCommand(c, n, FirstOpt)
    \/ \E c \in Clients, list \in Lists :
          \/ \E op \in {"remove", "pause", "resume"} :
                otherCommand(op, c, list, FirstOpt)
          \/ \E opt \in Opts : otherCommand("modify", c, list, opt)
    \/ \E hw \in DOMAIN engine : Breach(hw)

Spec == Init /\ [][Next]_vars

-----------------------------------------------------------------------------
ClientSymmetry == Permutations(Clients)

TypeOK ==
    /\ DOMAIN fences \subseteq HwIds /\ DOMAIN ids \subseteq Ids
    /\ \A hw \in DOMAIN fences : fences[hw] \in [id : Ids, opt : Opts, paused : BOOLEAN]
    /\ \A id \in DOMAIN ids : ids[id] \in HwIds
    /\ DOMAIN engine \subseteq used /\ used \subseteq HwIds
    /\ clients \subseteq Clients

\* When nothing is under way the engine watches exactly the geofences the clients were
\* told they have, each once, paused and with options as they were told, through pauses,
\* refusals and a restart (saveGeofenceItem, restartGeofences, reportResponse).
WatchesWhatIsTold == Quiet =>
    /\ \A id \in Ids : told[id].on =>
          \E hw \in DOMAIN engine :
              engine[hw] = Fence(id, told[id].opt, told[id].paused)
    /\ \A h1, h2 \in DOMAIN engine : engine[h1].id = engine[h2].id => h1 = h2
    /\ \A hw \in DOMAIN engine : told[engine[hw].id].on

\* A breach is reported for the geofence that was crossed: when the message comes up the
\* adapter knows the hardware id, as that of the same geofence (geofenceBreach).
BreachIsKnown == Arrived("breach") =>
    LET b == Head(msgQ) IN b.hw \in DOMAIN fences /\ fences[b.hw].id = b.id

\* Every command is reported, but for a resume that is refused, and once: no answer comes
\* in for a command that has been reported and its arrays deleted (reportResponse in each
\* command's last callback).
ReportedOnce ==
    /\ \A k \in DOMAIN msgQ : msgQ[k].m \in {"lookup", "done"} => cmd[msgQ[k].b].live
    /\ Quiet => \A b \in DOMAIN cmd : cmd[b].live => cmd[b].op = "resume"
=============================================================================
