-------------------------- MODULE BatchingHalProofs --------------------------
(***************************************************************************)
(* Proofs about BatchingHal: the destruction of clients and the order of   *)
(* the locations, for every use the framework makes of it and whatever the *)
(* engine refuses; and, for a framework that flushes a stopped session     *)
(* only when all is answered and starts again only when the stop is, and   *)
(* an engine that refuses no start, that answers are given to the requests *)
(* they belong to, that the dictionary is true, that a flush reports all   *)
(* (if no flush is refused) and that cleanup stops all.                    *)
(***************************************************************************)
EXTENDS BatchingHal, FiniteSetTheorems, SequenceTheorems, TLAPS

Ops == {"start", "get", "stop"}
Keys == Nat \X Nat

Request == [op : Ops, n : Nat]
EngCall == [op : Ops, key : Keys, n : Nat]
Added == [op : {"add"}, key : Keys, n : {0}]
Removed == [op : {"remove"}, key : Keys, n : {0}, adapter : Adapters]
Message == EngCall \cup Added \cup Removed
Response == [req : Request, n : Nat, ok : BOOLEAN, key : Keys]

History == [calls : Nat, requests : Nat, ids : Nat, locs : Nat, given : Seq(Nat),
            reported : Seq(Nat), owed : BOOLEAN, refused : SUBSET Keys]

Typed ==
    /\ fw \in {"new", "idle", "started", "cleaned"} /\ gen \in 0..MaxClients
    /\ (gen = 0 <=> fw = "new") /\ (gen = 0 => todo = <<>>)
    /\ todo \in Seq({"get", "stop"})
    /\ base \in [session : Nat, queue : Seq(Request)]
    /\ mState \in {"stopped", "started", "stopping"} /\ cache \in Seq(Nat)
    /\ popped # None => popped \in Response
    /\ threads \in Nat /\ msgs \in Seq(Message) /\ eng \in Seq(EngCall)
    /\ waiting \in [Clients -> SUBSET Adapters]
    /\ deleted \subseteq Nat /\ registered \subseteq Nat
    /\ sessions \subseteq Keys /\ IsFiniteSet(sessions) /\ running \subseteq Keys
    /\ fifo \in Seq(Nat) /\ events \in Seq(Seq(Nat))
    /\ hist \in History

-----------------------------------------------------------------------------
(* Lemmas about sequences and messages.                                      *)

\* A set as a sequence has the set's elements.
LEMMA SetAsSeq ==
    ASSUME NEW S, IsFiniteSet(S)
    PROVE  /\ SetToSeq(S) \in Seq(S)
           /\ \A i \in 1..Len(SetToSeq(S)) : SetToSeq(S)[i] \in S
           /\ \A x \in S : \E i \in 1..Len(SetToSeq(S)) : SetToSeq(S)[i] = x
<1> DEFINE n == Cardinality(S)
           f == SetToSeq(S)
<1>1. n \in Nat /\ ExistsBijection(1..n, S)
  BY FS_CardinalityType
<1>2. PICK b \in Bijection(1..n, S) : TRUE
  BY <1>1 DEF ExistsBijection
<1>3. b \in [1..n -> S] /\ IsInjective(b)
  BY <1>2 DEF Bijection, Injection
<1>4. f \in [1..n -> S] /\ IsInjective(f)
  <2> HIDE DEF n
  <2>1. f = CHOOSE g \in [1..n -> S] : IsInjective(g)
    BY DEF SetToSeq, n
  <2> QED
    BY <1>3, <2>1, Zenon
<1> HIDE DEF f, n
<1>5. f \in Injection(1..n, S)
  BY <1>4 DEF Injection
<1>6. IsFiniteSet(1..n) /\ Cardinality(1..n) = n
  BY <1>1, FS_Interval
<1>7. f \in Surjection(1..n, S)
  BY <1>5, <1>6, FS_Injection DEF n
<1>8. f \in Seq(S) /\ Len(f) = n /\ \A i \in 1..Len(f) : f[i] \in S
  BY <1>1, <1>4
<1> QED
  BY <1>7, <1>8 DEF Surjection, f

\* What a message is.
LEMMA MessageParts ==
    ASSUME NEW m \in Message
    PROVE  /\ m.op \in Ops \cup {"add", "remove"} /\ m.key \in Keys /\ m.n \in Nat
           /\ m.op \in Ops => m \in EngCall /\ [op |-> m.op, key |-> m.key, n |-> m.n] = m
           /\ m.op = "remove" => m.adapter \in Adapters
BY DEF Message, EngCall, Added, Removed, Ops

LEMMA HistoryParts ==
    ASSUME NEW h \in History
    PROVE  /\ h.calls \in Nat /\ h.requests \in Nat /\ h.ids \in Nat /\ h.locs \in Nat
           /\ h.given \in Seq(Nat) /\ h.reported \in Seq(Nat)
           /\ h.owed \in BOOLEAN /\ h.refused \in SUBSET Keys
           /\ h.calls + 1 \in Nat /\ h.requests + 1 \in Nat /\ h.ids + 1 \in Nat
           /\ h.locs + 1 \in Nat
BY DEF History

LEMMA HistoryExcept ==
    ASSUME NEW h \in History
    PROVE  /\ \A x \in Nat, s, t \in Seq(Nat), b \in BOOLEAN :
                  [h EXCEPT !.calls = x, !.given = s, !.reported = t, !.owed = b] \in History
           /\ \A x, y, z \in Nat : [h EXCEPT !.ids = y, !.requests = z, !.calls = x] \in History
           /\ \A x, z \in Nat, b \in BOOLEAN :
                  [h EXCEPT !.calls = x, !.owed = b, !.requests = z] \in History
           /\ \A x \in Nat, b \in BOOLEAN : [h EXCEPT !.calls = x, !.owed = b] \in History
           /\ \A x \in Nat : /\ [h EXCEPT !.calls = x] \in History
                            /\ [h EXCEPT !.requests = x] \in History
                            /\ [h EXCEPT !.locs = x] \in History
           /\ \A f \in SUBSET Keys : [h EXCEPT !.refused = f] \in History
BY DEF History

LEMMA KeyParts ==
    ASSUME NEW k \in Keys
    PROVE  k[1] \in Nat /\ k[2] \in Nat /\ k = <<k[1], k[2]>>
BY DEF Keys

StopsOf(g) == SetToSeq({[op |-> "stop", key |-> k, n |-> 0] : k \in stopClientSessions(g)})

\* What the adapter sends to the engine for a client that is removed.
LEMMA StopsSent ==
    ASSUME Typed, NEW g
    PROVE  /\ StopsOf(g) \in Seq(EngCall)
           /\ \A i \in 1..Len(StopsOf(g)) : /\ StopsOf(g)[i].op = "stop" /\ StopsOf(g)[i].n = 0
                                            /\ StopsOf(g)[i].key \in sessions
                                            /\ StopsOf(g)[i].key[1] = g
           /\ \A k \in sessions : k[1] = g =>
                  \E i \in 1..Len(StopsOf(g)) : StopsOf(g)[i] = [op |-> "stop", key |-> k, n |-> 0]
<1> DEFINE mine == stopClientSessions(g)
           S == {[op |-> "stop", key |-> k, n |-> 0] : k \in mine}
<1>1. sessions \subseteq Keys /\ IsFiniteSet(sessions)
  BY DEF Typed
<1>2. mine \subseteq sessions /\ IsFiniteSet(mine)
  BY <1>1, FS_Subset DEF stopClientSessions
<1>3. IsFiniteSet(S)
  <2> DEFINE b == [k \in mine |-> [op |-> "stop", key |-> k, n |-> 0]]
  <2>1. b \in Bijection(mine, S)
    BY DEF Bijection, Injection, Surjection, IsInjective
  <2> QED
    BY <1>2, <2>1, FS_Bijection DEF ExistsBijection
<1>4. S \subseteq EngCall
  BY <1>1, <1>2 DEF EngCall, Ops
<1>5. /\ SetToSeq(S) \in Seq(S)
      /\ \A i \in 1..Len(SetToSeq(S)) : SetToSeq(S)[i] \in S
      /\ \A x \in S : \E i \in 1..Len(SetToSeq(S)) : SetToSeq(S)[i] = x
  BY <1>3, SetAsSeq
<1>6. StopsOf(g) = SetToSeq(S)
  BY DEF StopsOf
<1>7. \A x \in S : x.op = "stop" /\ x.n = 0 /\ x.key \in sessions /\ x.key[1] = g
  BY <1>2 DEF stopClientSessions
<1>8. \A k \in sessions : k[1] = g => [op |-> "stop", key |-> k, n |-> 0] \in S
  BY DEF stopClientSessions
<1> HIDE DEF S, mine
<1>9. StopsOf(g) \in Seq(EngCall)
  BY <1>4, <1>5, <1>6
<1>10. \A i \in 1..Len(StopsOf(g)) : StopsOf(g)[i] \in S
  BY <1>5, <1>6
<1>11. \A x \in S : \E i \in 1..Len(StopsOf(g)) : StopsOf(g)[i] = x
  BY <1>5, <1>6
<1> QED
  BY <1>7, <1>8, <1>9, <1>10, <1>11

-----------------------------------------------------------------------------
(* Types.                                                                    *)

\* The parts of a handler that answers.
LEMMA AnswerTyped ==
    ASSUME Typed, popped = None, NEW k \in Keys, NEW n \in Nat, NEW ok \in BOOLEAN,
           Answer(k, n, ok)
    PROVE  /\ base' \in [session : Nat, queue : Seq(Request)]
           /\ base'.session = base.session
           /\ popped' # None => popped' \in Response
<1>1. base \in [session : Nat, queue : Seq(Request)]
  BY DEF Typed
<1>2. CASE k = <<gen, base.session>> /\ k[1] \in registered /\ base.queue # <<>>
  <2>1. Head(base.queue) \in Request /\ Tail(base.queue) \in Seq(Request)
    BY <1>1, <1>2
  <2>2. base' = [base EXCEPT !.queue = Tail(base.queue)]
    BY <1>2 DEF Answer
  <2>3. popped' \in Response
    BY <1>2, <2>1 DEF Answer, Response
  <2> QED
    BY <1>1, <2>1, <2>2, <2>3
<1>3. CASE ~(k = <<gen, base.session>> /\ k[1] \in registered /\ base.queue # <<>>)
  BY <1>1, <1>3 DEF Answer
<1> QED
  BY <1>2, <1>3

LEMMA HandleTyped ==
    ASSUME Typed, HandleMsg
    PROVE  Typed'
<1>1. popped = None /\ msgs # <<>> /\ msgs' = Tail(msgs) /\ msgs \in Seq(Message)
  BY DEF HandleMsg, Idle, Typed
<1> DEFINE m == Head(msgs)
<1>2. m \in Message /\ Tail(msgs) \in Seq(Message)
  BY <1>1
<1>3. /\ m.op \in Ops \cup {"add", "remove"} /\ m.key \in Keys /\ m.n \in Nat
      /\ m.op \in Ops => m \in EngCall /\ [op |-> m.op, key |-> m.key, n |-> m.n] = m
      /\ m.op = "remove" => m.adapter \in Adapters
  BY <1>2, MessageParts
<1>4. m.key[1] \in Nat /\ m.key[2] \in Nat
  BY <1>3, KeyParts
<1>5. UNCHANGED <<fw, gen, todo, mState, cache, threads, engineVars>>
  BY DEF HandleMsg
<1>6. HandleAdd(m) \/ HandleStart(m) \/ HandleGet(m) \/ HandleStop(m) \/ HandleRemove(m)
  BY DEF HandleMsg
<1>7. Call(m) /\ m.op \in Ops => eng' \in Seq(EngCall)
  BY <1>3 DEF Call, Typed
<1> HIDE DEF m
<1>8. CASE HandleAdd(m)
  BY <1>1, <1>2, <1>4, <1>5, <1>8 DEF HandleAdd, Typed, engineVars, deathVars
<1>9. CASE HandleStart(m)
  <2>1. sessions' \subseteq Keys /\ IsFiniteSet(sessions')
    BY <1>3, <1>9, FS_AddElement DEF HandleStart, Typed
  <2> QED
    BY <1>1, <1>2, <1>5, <1>7, <1>9, <2>1 DEF HandleStart, Typed, engineVars, deathVars, Ops
<1>10. CASE HandleGet(m)
  <2>1. m.key \notin sessions => /\ base' \in [session : Nat, queue : Seq(Request)]
                                 /\ popped' # None => popped' \in Response
    BY <1>1, <1>3, <1>10, AnswerTyped DEF HandleGet
  <2> QED
    BY <1>1, <1>2, <1>5, <1>7, <1>10, <2>1
       DEF HandleGet, Typed, engineVars, deathVars, adapterVars, Ops
<1>11. CASE HandleStop(m)
  <2>1. sessions' \subseteq Keys /\ IsFiniteSet(sessions')
    BY <1>11, FS_Subset DEF HandleStop, Typed
  <2> QED
    BY <1>1, <1>2, <1>5, <1>7, <1>11, <2>1 DEF HandleStop, Typed, engineVars, deathVars, Ops
<1>12. CASE HandleRemove(m)
  <2>1. waiting' \in [Clients -> SUBSET Adapters] /\ deleted' \subseteq Nat
    BY <1>4, <1>12 DEF HandleRemove, onRemoveClientCompleteCb, Typed
  <2>2. /\ registered' \subseteq Nat /\ sessions' \subseteq sessions /\ hist' \in History
        /\ UNCHANGED <<base, popped>>
    <3>1. hist \in History /\ registered \subseteq Nat
      BY DEF Typed
    <3>2. hist' = hist \/ hist' = [hist EXCEPT !.refused = {k \in @ : k[1] # m.key[1]}]
      BY <1>12 DEF HandleRemove
    <3>3. hist' \in History
      BY <3>1, <3>2 DEF History
    <3> QED
      BY <1>12, <3>1, <3>3 DEF HandleRemove, adapterVars
  <2>3. eng' = eng \/ eng' = eng \o StopsOf(m.key[1])
    BY <1>12 DEF HandleRemove, StopsOf
  <2>4. eng' \in Seq(EngCall)
    <3>1. StopsOf(m.key[1]) \in Seq(EngCall) /\ eng \in Seq(EngCall)
      BY StopsSent DEF Typed
    <3>2. eng \o StopsOf(m.key[1]) \in Seq(EngCall)
      BY <3>1, ConcatProperties
    <3> QED
      BY <2>3, <3>1, <3>2
  <2>5. sessions' \subseteq Keys /\ IsFiniteSet(sessions')
    BY <2>2, FS_Subset DEF Typed
  <2> QED
    BY <1>1, <1>2, <1>5, <2>1, <2>2, <2>4, <2>5 DEF Typed, engineVars
<1> QED
  BY <1>6, <1>8, <1>9, <1>10, <1>11, <1>12

LEMMA TypedInit == Init => Typed
<1> SUFFICES ASSUME Init PROVE Typed
  OBVIOUS
<1>1. IsFiniteSet({})
  BY FS_EmptySet
<1>2. hist \in History
  BY DEF Init, History
<1> QED
  BY <1>1, <1>2, BoundsAssumption DEF Init, Typed

\* What a push does to the types.
LEMMA PushTyped ==
    ASSUME Typed, NEW op \in Ops, NEW s \in Nat, NEW n \in Nat, push(op, s, n)
    PROVE  /\ base' \in [session : Nat, queue : Seq(Request)]
           /\ msgs' \in Seq(Message)
<1>1. [op |-> op, n |-> n] \in Request /\ [op |-> op, key |-> <<gen, s>>, n |-> n] \in Message
  BY DEF Typed, Request, Message, EngCall, Keys
<1>2. base \in [session : Nat, queue : Seq(Request)] /\ msgs \in Seq(Message)
  BY DEF Typed
<1>3. Append(base.queue, [op |-> op, n |-> n]) \in Seq(Request)
  BY <1>1, <1>2
<1> QED
  BY <1>1, <1>2, <1>3 DEF push

LEMMA CbTyped ==
    ASSUME Typed, NEW b \in Seq(Nat), onBatchingCb(b)
    PROVE  /\ mState' \in {"stopped", "started", "stopping"} /\ cache' \in Seq(Nat)
           /\ hist' \in History
           /\ hist'.requests = hist.requests /\ hist'.ids = hist.ids
           /\ hist'.owed = hist.owed /\ hist'.refused = hist.refused
<1>1. cache \in Seq(Nat) /\ hist \in History /\ hist.given \in Seq(Nat) /\ hist.reported \in Seq(Nat)
  BY DEF Typed, History
<1>2. /\ cache \o b \in Seq(Nat) /\ hist.given \o b \in Seq(Nat)
      /\ hist.reported \o cache \o b \in Seq(Nat)
  BY <1>1, ConcatProperties
<1>3. hist' \in History /\ hist'.requests = hist.requests /\ hist'.ids = hist.ids
      /\ hist'.owed = hist.owed /\ hist'.refused = hist.refused
  BY <1>1, <1>2 DEF onBatchingCb, History
<1> QED
  <2>1. mState' \in {"stopped", "started", "stopping"}
    BY DEF onBatchingCb, Typed
  <2>2. cache' = <<>> \/ cache' = cache \o b
    BY DEF onBatchingCb
  <2>3. <<>> \in Seq(Nat)
    OBVIOUS
  <2> QED
    BY <1>2, <1>3, <2>1, <2>2, <2>3

LEMMA TypedStep ==
    ASSUME Typed, [Next]_vars
    PROVE  Typed'
<1> USE DEF clientVars, adapterVars, deathVars, engineVars
<1>0. hist \in History /\ base \in [session : Nat, queue : Seq(Request)]
      /\ gen \in 0..MaxClients /\ MaxClients \in Nat /\ msgs \in Seq(Message)
  BY BoundsAssumption DEF Typed
<1>h. /\ hist.owed \in BOOLEAN /\ hist.refused \in SUBSET Keys
      /\ hist.calls + 1 \in Nat /\ hist.requests + 1 \in Nat /\ hist.requests \in Nat
      /\ hist.ids + 1 \in Nat /\ hist.locs + 1 \in Nat
  BY <1>0, HistoryParts
<1>e. <<>> \in Seq(Nat) /\ {TRUE, FALSE} \subseteq BOOLEAN
  OBVIOUS
<1>1. CASE init
  <2>1. hist' \in History
    <3>1. hist' = [hist EXCEPT !.calls = @ + 1, !.given = <<>>, !.reported = <<>>, !.owed = FALSE]
      BY <1>1 DEF init
    <3> QED
      BY <1>0, <1>h, <1>e, <3>1, HistoryExcept
  <2>2. gen' \in 0..MaxClients /\ gen' # 0 /\ waiting' \in [Clients -> SUBSET Adapters]
    <3>1. gen < MaxClients /\ gen' = gen + 1
      BY <1>1 DEF init
    <3>2. waiting' = waiting \/ waiting' = [waiting EXCEPT ![gen] = Adapters]
      BY <1>1 DEF init
    <3>3. waiting \in [Clients -> SUBSET Adapters]
      BY DEF Typed
    <3> QED
      BY <1>0, <3>1, <3>2, <3>3
  <2>3. msgs' \in Seq(Message)
    <3> DEFINE add == [op |-> "add", key |-> <<gen + 1, 0>>, n |-> 0]
               gone(a) == [op |-> "remove", key |-> <<gen, 0>>, n |-> 0, adapter |-> a]
    <3>1. add \in Message /\ gone("gnss") \in Message /\ gone("batching") \in Message
      BY <1>0 DEF Message, Added, Removed, Adapters, Keys
    <3>2. msgs' = <<add>> \/ msgs' = msgs \o <<gone("gnss"), gone("batching"), add>>
      BY <1>1 DEF init
    <3> HIDE DEF add, gone
    <3>3. <<gone("gnss"), gone("batching"), add>> \in Seq(Message) /\ <<add>> \in Seq(Message)
      BY <3>1
    <3> QED
      BY <1>0, <3>2, <3>3, ConcatProperties
  <2>4. fw' = "idle" /\ todo' = todo /\ base' = [session |-> 0, queue |-> <<>>]
        /\ mState' = "stopped" /\ cache' = <<>> /\ threads' = 0
        /\ UNCHANGED <<todo, popped, deleted, registered, sessions, eng, running, fifo, events>>
    BY <1>1 DEF init
  <2> QED
    BY <2>1, <2>2, <2>3, <2>4 DEF Typed
<1>2. CASE start
  <2>1. hist' \in History
    <3>1. \/ hist' = [hist EXCEPT !.calls = @ + 1]
          \/ hist' = [hist EXCEPT !.ids = @ + 1, !.requests = @ + 1, !.calls = @ + 1]
      BY <1>2 DEF start, locAPIStartSession
    <3>2. [hist EXCEPT !.calls = @ + 1] \in History
      BY <1>0, <1>h, HistoryExcept
    <3>3. [hist EXCEPT !.ids = @ + 1, !.requests = @ + 1, !.calls = @ + 1] \in History
      BY <1>0, <1>h, HistoryExcept
    <3> QED
      BY <3>1, <3>2, <3>3
  <2>2. base' \in [session : Nat, queue : Seq(Request)] /\ msgs' \in Seq(Message)
    <3>1. hist.ids + 1 \in Nat /\ hist.requests + 1 \in Nat /\ "start" \in Ops
      BY <1>0 DEF History, Ops
    <3> QED
      BY <1>0, <1>2, <3>1, PushTyped DEF start, locAPIStartSession
  <2> QED
    BY <1>2, <2>1, <2>2 DEF start, locAPIStartSession, Typed
<1>3. CASE flush
  <2>1. hist' \in History
    <3>1. PICK b \in BOOLEAN, z \in Nat :
              hist' = [hist EXCEPT !.calls = @ + 1, !.owed = b, !.requests = z]
      BY <1>h, <1>3 DEF flush
    <3> QED
      BY <1>0, <1>h, <3>1, HistoryExcept
  <2>2. base' \in [session : Nat, queue : Seq(Request)] /\ msgs' \in Seq(Message)
    <3>1. base.session \in Nat /\ hist.requests + 1 \in Nat /\ "get" \in Ops
      BY <1>0 DEF History, Ops
    <3> QED
      BY <1>0, <1>3, <3>1, PushTyped DEF flush
  <2>3. threads' \in Nat
    BY <1>3 DEF flush, Typed
  <2>4. UNCHANGED <<fw, gen, todo, mState, cache, popped, deathVars, adapterVars, eng, engineVars>>
    BY <1>3 DEF flush
  <2> QED
    BY <2>1, <2>2, <2>3, <2>4 DEF Typed
<1>4. CASE stop \/ cleanup \/ serviceDied
  <2>1. hist' \in History
    <3>1. hist' = [hist EXCEPT !.calls = @ + 1, !.owed = FALSE]
      BY <1>4 DEF stop, cleanup, serviceDied, Leave
    <3> QED
      BY <1>0, <1>h, <1>e, <3>1, HistoryExcept
  <2>2. todo' \in Seq({"get", "stop"})
    <3>1. stopSession \in Seq({"get", "stop"})
      BY DEF stopSession
    <3>2. stopSession \o stopSession \in Seq({"get", "stop"})
      BY <3>1, ConcatProperties
    <3> QED
      BY <1>4, <3>1, <3>2 DEF stop, cleanup, serviceDied, Leave
  <2>3. /\ fw' \in {"idle", "cleaned"} /\ fw \in {"idle", "started"}
        /\ UNCHANGED <<gen, clientVars, popped, threads, msgs, deathVars, adapterVars, eng, engineVars>>
    BY <1>4 DEF stop, cleanup, serviceDied, Leave
  <2> QED
    BY <2>1, <2>2, <2>3 DEF Typed
<1>5. CASE SessionStep
  <2>1. todo # <<>> /\ todo \in Seq({"get", "stop"})
    BY <1>5 DEF SessionStep, Typed
  <2>2. Head(todo) \in Ops /\ todo' \in Seq({"get", "stop"})
    BY <1>5, <2>1 DEF SessionStep, Ops
  <2>3. hist' \in History
    <3>1. hist' = hist \/ hist' = [hist EXCEPT !.requests = @ + 1]
      BY <1>5 DEF SessionStep, request
    <3> QED
      BY <1>0, <1>h, <3>1, HistoryExcept
  <2>4. base' \in [session : Nat, queue : Seq(Request)] /\ msgs' \in Seq(Message)
    <3>1. base.session \in Nat /\ hist.requests + 1 \in Nat
      BY <1>0 DEF History
    <3> QED
      BY <1>0, <1>5, <2>2, <3>1, PushTyped DEF SessionStep, request
  <2> QED
    BY <1>5, <2>2, <2>3, <2>4 DEF SessionStep, Typed
<1>6. CASE EmptyBatch
  <2>1. onBatchingCb(<<>>) /\ <<>> \in Seq(Nat)
    BY <1>6 DEF EmptyBatch
  <2>2. threads' \in Nat
    BY <1>6 DEF EmptyBatch, Typed
  <2> QED
    BY <1>6, <2>1, <2>2, CbTyped DEF EmptyBatch, Typed
<1>7. CASE OnResponse
  BY <1>0, <1>7 DEF OnResponse, Typed
<1>8. CASE HandleMsg
  BY <1>8, HandleTyped
<1>9. CASE EngineAnswers
  <2>1. popped = None /\ eng # <<>> /\ eng \in Seq(EngCall) /\ eng' = Tail(eng)
    BY <1>9 DEF EngineAnswers, Idle, Typed
  <2> DEFINE c == Head(eng)
  <2>2. c \in EngCall /\ eng' \in Seq(EngCall)
    BY <2>1
  <2> HIDE DEF c
  <2>3. c.op \in Ops /\ c.key \in Keys /\ c.n \in Nat
    BY <2>2 DEF EngCall
  <2>4. UNCHANGED <<fw, gen, todo, mState, cache, threads, msgs, deathVars, registered>>
    BY <1>9 DEF EngineAnswers
  <2>5. PICK ok \in BOOLEAN : Answer(c.key, c.n, ok)
    BY <1>9 DEF EngineAnswers, c
  <2>6. /\ base' \in [session : Nat, queue : Seq(Request)]
        /\ popped' # None => popped' \in Response
    BY <2>1, <2>3, <2>5, AnswerTyped
  <2>7. sessions' \subseteq Keys /\ IsFiniteSet(sessions') /\ running' \subseteq Keys
    <3>1. /\ sessions' \in {sessions, sessions \ {c.key}, sessions \cup {c.key}}
          /\ running' \in {running, running \ {c.key}, running \cup {c.key}}
      BY <1>9 DEF EngineAnswers, onRefusal, c
    <3>2. IsFiniteSet(sessions \ {c.key}) /\ IsFiniteSet(sessions \cup {c.key})
      BY FS_AddElement, FS_RemoveElement DEF Typed
    <3> QED
      BY <2>3, <3>1, <3>2 DEF Typed
  <2>8. hist' \in History
    <3>1. hist' = hist \/ hist' = [hist EXCEPT !.refused = IF c.op = "stop" THEN @ \cup {c.key} ELSE @]
      BY <1>9 DEF EngineAnswers, c
    <3>2. hist.refused \cup {c.key} \in SUBSET Keys
      BY <1>h, <2>3
    <3>3. hist' = hist \/ hist' = [hist EXCEPT !.refused = hist.refused]
          \/ hist' = [hist EXCEPT !.refused = hist.refused \cup {c.key}]
      BY <3>1
    <3>4. hist \in History /\ hist.refused \in SUBSET Keys
      BY <1>0, <1>h
    <3>5. \A f \in SUBSET Keys : [hist EXCEPT !.refused = f] \in History
      BY <3>4, HistoryExcept
    <3> QED
      BY <3>2, <3>3, <3>4, <3>5
  <2>9. fifo' \in Seq(Nat) /\ events' \in Seq(Seq(Nat))
    <3>1. fifo' \in {fifo, <<>>} /\ events' \in {events, Append(events, fifo)}
      BY <1>9 DEF EngineAnswers
    <3>2. Append(events, fifo) \in Seq(Seq(Nat)) /\ fifo \in Seq(Nat) /\ events \in Seq(Seq(Nat))
      BY DEF Typed
    <3> QED
      BY <1>e, <3>1, <3>2
  <2> QED
    BY <2>2, <2>4, <2>6, <2>7, <2>8, <2>9 DEF Typed
<1>10. CASE DeliverBatch
  <2>1. events # <<>> /\ events \in Seq(Seq(Nat)) /\ events' = Tail(events)
    BY <1>10 DEF DeliverBatch, Typed
  <2>2. Head(events) \in Seq(Nat) /\ events' \in Seq(Seq(Nat))
    BY <2>1
  <2>3. /\ mState' \in {"stopped", "started", "stopping"} /\ cache' \in Seq(Nat)
        /\ hist' \in History
    BY <1>0, <1>10, <2>2, CbTyped DEF DeliverBatch, Typed
  <2> QED
    BY <1>10, <2>2, <2>3 DEF DeliverBatch, Typed
<1>11. CASE Locate
  <2>1. hist' \in History
    <3>1. hist' = [hist EXCEPT !.locs = @ + 1]
      BY <1>11 DEF Locate
    <3> QED
      BY <1>0, <1>h, <3>1, HistoryExcept
  <2>2. fifo' \in Seq(Nat)
    BY <1>h, <1>11 DEF Locate, Typed
  <2> QED
    BY <1>11, <2>1, <2>2 DEF Locate, Typed
<1>12. CASE Full
  <2>1. events' \in Seq(Seq(Nat)) /\ fifo' \in Seq(Nat)
    BY <1>12 DEF Full, Typed
  <2> QED
    BY <1>12, <2>1 DEF Full, Typed
<1>13. CASE UNCHANGED vars
  BY <1>13 DEF vars, Typed
<1> QED
  BY <1>1, <1>2, <1>3, <1>4, <1>5, <1>6, <1>7, <1>8, <1>9, <1>10, <1>11, <1>12, <1>13 DEF Next

-----------------------------------------------------------------------------
(* The order of the locations.                                               *)

InOrder == hist.reported \o cache = hist.given

LEMMA InOrderStep ==
    ASSUME Typed, InOrder, [Next]_vars
    PROVE  InOrder'
<1>1. /\ hist \in History /\ cache \in Seq(Nat)
      /\ hist.given \in Seq(Nat) /\ hist.reported \in Seq(Nat)
  BY HistoryParts DEF Typed
<1>2. ASSUME NEW b \in Seq(Nat), onBatchingCb(b) PROVE InOrder'
  <2>1. hist.reported \o cache = hist.given
    BY DEF InOrder
  <2>2. (hist.reported \o cache) \o b = hist.reported \o (cache \o b)
    <3>1. \A s, t, u \in Seq(Nat) : (s \o t) \o u = s \o (t \o u)
      BY SMTT(30), ConcatAssociative
    <3> QED
      BY <1>1, <3>1, Zenon
  <2>3. (hist.given \o b) \o <<>> = hist.given \o b
    <3>1. hist.given \o b \in Seq(Nat)
      BY <1>1, ConcatProperties
    <3>2. \A u \in Seq(Nat) : u \o <<>> = u
      BY ConcatEmptySeq
    <3> QED
      BY <3>1, <3>2, Zenon
  <2>4. CASE mState = "stopping"
    <3>1. cache' = cache \o b /\ hist' = [hist EXCEPT !.given = @ \o b]
      BY <1>2, <2>4 DEF onBatchingCb
    <3>2. hist'.given = hist.given \o b /\ hist'.reported = hist.reported
      BY <1>1, <3>1 DEF History
    <3> QED
      BY <2>1, <2>2, <3>1, <3>2 DEF InOrder
  <2>5. CASE mState # "stopping"
    <3>1. cache' = <<>>
          /\ hist' = [hist EXCEPT !.given = @ \o b, !.reported = @ \o cache \o b]
      BY <1>2, <2>5 DEF onBatchingCb
    <3>2. hist'.given = hist.given \o b /\ hist'.reported = hist.reported \o cache \o b
      BY <1>1, <3>1 DEF History
    <3> QED
      BY <2>1, <2>3, <3>1, <3>2 DEF InOrder
  <2> QED
    BY <2>4, <2>5
<1>3. CASE UNCHANGED cache /\ hist'.given = hist.given /\ hist'.reported = hist.reported
  BY <1>3 DEF InOrder
<1>4. CASE init
  <2>1. cache' = <<>> /\ hist'.given = <<>> /\ hist'.reported = <<>>
    BY <1>1, <1>4 DEF init, History
  <2> QED
    BY <2>1, ConcatEmptySeq DEF InOrder
<1>5. CASE start \/ flush \/ stop \/ cleanup \/ serviceDied \/ SessionStep \/ Locate
  BY <1>1, <1>3, <1>5
     DEF start, locAPIStartSession, flush, stop, cleanup, serviceDied, Leave, SessionStep, request,
         Locate, clientVars, History
<1>6. CASE EmptyBatch
  <2>1. onBatchingCb(<<>>) /\ <<>> \in Seq(Nat)
    BY <1>6 DEF EmptyBatch
  <2> QED
    BY <1>2, <2>1
<1>7. CASE OnResponse \/ Full \/ UNCHANGED vars
  BY <1>3, <1>7 DEF OnResponse, Full, vars, clientVars
<1>8. CASE HandleMsg
  <2>1. \/ hist' = hist
        \/ hist' = [hist EXCEPT !.refused = {k \in @ : k[1] # Head(msgs).key[1]}]
    BY <1>8 DEF HandleMsg, HandleAdd, HandleStart, HandleGet, HandleStop, HandleRemove
  <2>2. PICK f : hist' = hist \/ hist' = [hist EXCEPT !.refused = f]
    BY <2>1
  <2>3. hist'.given = hist.given /\ hist'.reported = hist.reported
    BY <1>1, <2>2 DEF History
  <2> QED
    BY <1>3, <1>8, <2>3 DEF HandleMsg
<1>9. CASE EngineAnswers
  BY <1>1, <1>3, <1>9 DEF EngineAnswers, History
<1>10. CASE DeliverBatch
  <2>1. Head(events) \in Seq(Nat)
    BY <1>10 DEF DeliverBatch, Typed
  <2> QED
    BY <1>2, <1>3, <1>10, <2>1 DEF DeliverBatch
<1> QED
  BY <1>4, <1>5, <1>6, <1>7, <1>8, <1>9, <1>10 DEF Next

-----------------------------------------------------------------------------
(* Clients that are destroyed.                                               *)

IsRemove(m, a) == m.op = "remove" /\ m.adapter = a

\* Messages are of clients there are or have been, removals of those that have been; a
\* removal in the batching adapter is the last message of its client, it is still waited
\* for, and it comes after the one in the other adapter.
Removals ==
    /\ \A i \in 1..Len(msgs) :
          /\ msgs[i].key[1] \in 1..gen
          /\ msgs[i].op = "remove" => /\ msgs[i].key[1] < gen
                                      /\ "batching" \in waiting[msgs[i].key[1]]
          /\ IsRemove(msgs[i], "gnss") =>
                \E j \in 1..Len(msgs) : IsRemove(msgs[j], "batching") /\ msgs[j].key[1] = msgs[i].key[1]
    /\ \A i, j \in 1..Len(msgs) : i < j /\ IsRemove(msgs[i], "batching")
          => msgs[j].key[1] # msgs[i].key[1]

Unknown(g) ==
    /\ g < gen /\ g \notin registered
    /\ \A k \in sessions : k[1] = g => k \in hist.refused
    /\ \A i \in 1..Len(msgs) : msgs[i].key[1] # g

Gone == \A g \in deleted : Unknown(g)

\* A call to the client base adds one message, of the current client.
LEMMA PushStep ==
    ASSUME Typed, NEW op \in Ops, NEW s, NEW n, push(op, s, n)
    PROVE  /\ Len(msgs') = Len(msgs) + 1
           /\ \A i \in 1..Len(msgs) : msgs'[i] = msgs[i]
           /\ msgs'[Len(msgs) + 1].op \in Ops /\ msgs'[Len(msgs) + 1].key[1] = gen
<1> DEFINE m == [op |-> op, key |-> <<gen, s>>, n |-> n]
<1>1. msgs \in Seq(Message) /\ msgs' = Append(msgs, m)
  BY DEF Typed, push
<1>2. m.op \in Ops /\ m.key[1] = gen
  OBVIOUS
<1> HIDE DEF m
<1> QED
  BY <1>1, <1>2

\* A step of the framework that leaves the clients alone and may send one more message.
LEMMA CallKeepsRemovals ==
    ASSUME Typed, Removals, Gone, gen \in Nat \ {0},
           UNCHANGED <<gen, waiting, deleted, registered, sessions>>,
           hist'.refused = hist.refused,
           \/ msgs' = msgs
           \/ \E op \in Ops : \E s, n : push(op, s, n)
    PROVE  Removals' /\ Gone'
<1>1. CASE msgs' = msgs
  BY <1>1 DEF Removals, Gone, Unknown
<1>2. CASE \E op \in Ops : \E s, n : push(op, s, n)
  <2>1. /\ Len(msgs') = Len(msgs) + 1 /\ Len(msgs) \in Nat
        /\ \A i \in 1..Len(msgs) : msgs'[i] = msgs[i]
        /\ msgs'[Len(msgs) + 1].op \in Ops /\ msgs'[Len(msgs) + 1].key[1] = gen
    BY <1>2, PushStep DEF Typed
  <2>2. msgs'[Len(msgs) + 1].op # "remove"
    BY <2>1 DEF Ops
  <2>3. \A i \in 1..Len(msgs') : i \in 1..Len(msgs) \/ i = Len(msgs) + 1
    BY <2>1
  <2>4. \A i \in 1..Len(msgs) : i \in 1..Len(msgs') /\ i < Len(msgs) + 1
    BY <2>1
  <2>5. ASSUME NEW i \in 1..Len(msgs')
        PROVE  /\ msgs'[i].key[1] \in 1..gen
               /\ msgs'[i].op = "remove" => /\ msgs'[i].key[1] < gen
                                            /\ "batching" \in waiting[msgs'[i].key[1]]
               /\ IsRemove(msgs'[i], "gnss") =>
                    \E j \in 1..Len(msgs') : IsRemove(msgs'[j], "batching")
                                             /\ msgs'[j].key[1] = msgs'[i].key[1]
    <3>1. CASE i \in 1..Len(msgs)
      <4>1. msgs'[i] = msgs[i]
        BY <2>1, <3>1
      <4>2. /\ msgs[i].key[1] \in 1..gen
            /\ msgs[i].op = "remove" => /\ msgs[i].key[1] < gen
                                        /\ "batching" \in waiting[msgs[i].key[1]]
        BY <3>1 DEF Removals
      <4>3. ASSUME IsRemove(msgs[i], "gnss")
            PROVE  \E j \in 1..Len(msgs') : IsRemove(msgs'[j], "batching")
                                             /\ msgs'[j].key[1] = msgs[i].key[1]
        <5>1. PICK j \in 1..Len(msgs) : IsRemove(msgs[j], "batching") /\ msgs[j].key[1] = msgs[i].key[1]
          BY <3>1, <4>3 DEF Removals
        <5>2. msgs'[j] = msgs[j] /\ j \in 1..Len(msgs')
          BY <2>1, <2>4
        <5> QED
          BY <5>1, <5>2
      <4> QED
        BY <4>1, <4>2, <4>3
    <3>2. CASE i = Len(msgs) + 1
      <4>1. gen \in 1..gen
        OBVIOUS
      <4> QED
        BY <2>1, <2>2, <3>2, <4>1 DEF IsRemove
    <3> QED
      BY <2>3, <3>1, <3>2
  <2>6. ASSUME NEW i \in 1..Len(msgs'), NEW j \in 1..Len(msgs'), i < j, IsRemove(msgs'[i], "batching")
        PROVE  msgs'[j].key[1] # msgs'[i].key[1]
    <3>1. i \in 1..Len(msgs) /\ msgs'[i] = msgs[i]
      BY <2>1, <2>2, <2>3, <2>6 DEF IsRemove
    <3>2. CASE j \in 1..Len(msgs)
      BY <2>1, <2>6, <3>1, <3>2 DEF Removals
    <3>3. CASE j = Len(msgs) + 1
      <4>1. msgs[i].key[1] \in 1..gen /\ msgs[i].key[1] < gen
        BY <2>6, <3>1 DEF Removals, IsRemove
      <4> QED
        BY <2>1, <3>1, <3>3, <4>1
    <3> QED
      BY <2>3, <3>2, <3>3
  <2>7. Gone'
    <3> SUFFICES ASSUME NEW g \in deleted PROVE Unknown(g)'
      BY DEF Gone
    <3>1. Unknown(g) /\ g \in Nat
      BY DEF Gone, Typed
    <3>2. \A i \in 1..Len(msgs') : msgs'[i].key[1] # g
      BY <2>1, <2>3, <3>1 DEF Unknown
    <3> QED
      BY <3>1, <3>2 DEF Unknown
  <2> QED
    BY <2>5, <2>6, <2>7 DEF Removals
<1> QED
  BY <1>1, <1>2

\* The old client's removals and the registration of the new one.
LEMMA InitKeepsRemovals ==
    ASSUME Typed, Removals, Gone, init
    PROVE  Removals' /\ Gone'
<1> DEFINE add == [op |-> "add", key |-> <<gen + 1, 0>>, n |-> 0]
           gone(a) == [op |-> "remove", key |-> <<gen, 0>>, n |-> 0, adapter |-> a]
<1>1. /\ gen \in 0..MaxClients /\ gen < MaxClients /\ gen' = gen + 1 /\ MaxClients \in Nat
      /\ msgs \in Seq(Message) /\ Len(msgs) \in Nat
      /\ waiting \in [Clients -> SUBSET Adapters]
      /\ UNCHANGED <<deleted, registered, sessions>> /\ deleted \subseteq Nat
  BY SMTT(30), BoundsAssumption DEF Typed, init, adapterVars
<1>2. hist'.refused = hist.refused
  <2>1. hist' = [hist EXCEPT !.calls = @ + 1, !.given = <<>>, !.reported = <<>>, !.owed = FALSE]
    BY DEF init
  <2> QED
    BY <2>1 DEF Typed, History
<1>3. ASSUME \A i \in 1..Len(msgs') : msgs'[i].key[1] \notin deleted
      PROVE  Gone'
  <2> SUFFICES ASSUME NEW g \in deleted PROVE Unknown(g)'
    BY <1>1 DEF Gone
  <2>1. Unknown(g) /\ g \in Nat
    BY <1>1 DEF Gone
  <2> QED
    BY <1>1, <1>2, <1>3, <2>1 DEF Unknown
<1>4. \A g \in deleted : g < gen /\ g \in Nat
  BY <1>1 DEF Gone, Unknown
<1>5. CASE gen = 0
  <2>1. msgs' = <<add>>
    BY <1>5 DEF init
  <2>2. Len(msgs') = 1 /\ msgs'[1].op = "add" /\ msgs'[1].key[1] = 1
    BY <1>1, <1>5, <2>1
  <2>3. Removals'
    BY <1>1, <1>5, <2>2 DEF Removals, IsRemove
  <2> QED
    BY <1>3, <1>4, <1>5, <2>2, <2>3
<1>6. CASE gen # 0
  <2> DEFINE n == Len(msgs)
             new == <<gone("gnss"), gone("batching"), add>>
  <2>1. msgs' = msgs \o new /\ waiting' = [waiting EXCEPT ![gen] = Adapters]
    BY <1>6 DEF init
  <2>2. /\ IsRemove(gone("gnss"), "gnss") /\ IsRemove(gone("batching"), "batching")
        /\ ~IsRemove(gone("batching"), "gnss") /\ ~IsRemove(gone("gnss"), "batching")
        /\ gone("gnss").key[1] = gen /\ gone("batching").key[1] = gen
        /\ add.key[1] = gen + 1 /\ add.op # "remove"
    BY DEF IsRemove
  <2>3. /\ \A m : IsRemove(m, "gnss") \/ IsRemove(m, "batching") => m.op = "remove"
    BY DEF IsRemove
  <2>m. add \in Message /\ gone("gnss") \in Message /\ gone("batching") \in Message
    BY <1>1 DEF Message, Added, Removed, Adapters, Keys
  <2> HIDE DEF add, gone
  <2>4. Len(new) = 3 /\ new[1] = gone("gnss") /\ new[2] = gone("batching") /\ new[3] = add
        /\ new \in Seq(Message)
    BY <2>m
  <2> HIDE DEF new
  <2>5. /\ Len(msgs') = n + 3 /\ \A i \in 1..n : msgs'[i] = msgs[i]
        /\ msgs'[n + 1] = gone("gnss") /\ msgs'[n + 2] = gone("batching") /\ msgs'[n + 3] = add
    <3>1. \A s, t \in Seq(Message) :
             /\ Len(s \o t) = Len(s) + Len(t)
             /\ \A i \in 1..Len(s) : (s \o t)[i] = s[i]
             /\ \A i \in 1..Len(t) : (s \o t)[Len(s) + i] = t[i]
      BY ConcatProperties
    <3>2. /\ Len(msgs \o new) = n + Len(new)
          /\ \A i \in 1..n : (msgs \o new)[i] = msgs[i]
          /\ \A i \in 1..Len(new) : (msgs \o new)[n + i] = new[i]
      BY <1>1, <2>4, <3>1, Zenon
    <3>3. 1 \in 1..3 /\ 2 \in 1..3 /\ 3 \in 1..3
      OBVIOUS
    <3> QED
      BY <2>1, <2>4, <3>2, <3>3
  <2>6. n \in Nat /\ gen \in Clients /\ waiting'[gen] = Adapters /\ "batching" \in Adapters
        /\ \A g \in Clients \ {gen} : waiting'[g] = waiting[g]
    BY <1>1, <1>6, <2>1 DEF Clients, Adapters
  <2>7. \A i \in 1..Len(msgs') : i \in 1..n \/ i = n + 1 \/ i = n + 2 \/ i = n + 3
    BY <2>5, <2>6
  <2>8. \A i \in 1..n : /\ msgs[i].key[1] \in 1..gen
                        /\ msgs[i].op = "remove" => /\ msgs[i].key[1] < gen
                                                    /\ "batching" \in waiting[msgs[i].key[1]]
    BY DEF Removals
  <2>9. ASSUME NEW i \in 1..Len(msgs')
        PROVE  /\ msgs'[i].key[1] \in 1..gen'
               /\ msgs'[i].op = "remove" => /\ msgs'[i].key[1] < gen'
                                            /\ "batching" \in waiting'[msgs'[i].key[1]]
    <3>1. CASE i \in 1..n
      <4>1. /\ msgs'[i] = msgs[i] /\ msgs[i].key[1] \in 1..gen
            /\ msgs[i].op = "remove" => /\ msgs[i].key[1] < gen
                                        /\ "batching" \in waiting[msgs[i].key[1]]
        BY <2>5, <2>8, <3>1
      <4>2. PICK g \in 1..gen : g = msgs[i].key[1]
        BY <4>1
      <4>3. g < gen => g \in Clients \ {gen}
        BY <1>1 DEF Clients
      <4>4. g \in 1..gen' /\ (g < gen => g < gen')
        BY <1>1
      <4>5. g < gen => waiting'[g] = waiting[g]
        BY <2>6, <4>3
      <4> QED
        BY <4>1, <4>2, <4>4, <4>5
    <3>2. CASE i = n + 1 \/ i = n + 2 \/ i = n + 3
      <4>1. gen \in 1..gen' /\ gen + 1 \in 1..gen' /\ gen < gen'
        BY <1>1, <1>6
      <4>2. msgs'[i].key[1] \in {gen, gen + 1} /\ (msgs'[i].op = "remove" => msgs'[i].key[1] = gen)
        BY <2>2, <2>5, <3>2
      <4> QED
        BY <2>6, <4>1, <4>2
    <3> QED
      BY <2>7, <3>1, <3>2
  <2>10. ASSUME NEW i \in 1..Len(msgs'), IsRemove(msgs'[i], "gnss")
         PROVE  \E j \in 1..Len(msgs') : IsRemove(msgs'[j], "batching") /\ msgs'[j].key[1] = msgs'[i].key[1]
    <3>1. CASE i \in 1..n
      <4>1. msgs'[i] = msgs[i]
        BY <2>5, <3>1
      <4>2. PICK j \in 1..n : IsRemove(msgs[j], "batching") /\ msgs[j].key[1] = msgs[i].key[1]
        BY <2>10, <3>1, <4>1 DEF Removals
      <4>3. msgs'[j] = msgs[j] /\ j \in 1..Len(msgs')
        BY <2>5, <2>6
      <4> QED
        BY <4>1, <4>2, <4>3
    <3>2. CASE i = n + 1
      <4>1. n + 2 \in 1..Len(msgs')
        BY <2>5, <2>6
      <4> QED
        BY <2>2, <2>5, <3>2, <4>1
    <3>3. CASE i = n + 2 \/ i = n + 3
      BY <2>2, <2>3, <2>5, <2>10, <3>3
    <3> QED
      BY <2>7, <3>1, <3>2, <3>3
  <2>11. ASSUME NEW i \in 1..Len(msgs'), NEW j \in 1..Len(msgs'), i < j, IsRemove(msgs'[i], "batching")
         PROVE  msgs'[j].key[1] # msgs'[i].key[1]
    <3>1. CASE i \in 1..n /\ j \in 1..n
      <4>1. msgs'[i] = msgs[i] /\ msgs'[j] = msgs[j]
        BY <2>5, <3>1
      <4> QED
        BY <2>11, <3>1, <4>1 DEF Removals
    <3>2. CASE i \in 1..n /\ j \notin 1..n
      <4>1. msgs'[i] = msgs[i] /\ msgs[i].key[1] \in 1..gen /\ msgs[i].key[1] < gen
        BY <2>3, <2>5, <2>8, <2>11, <3>2
      <4>2. msgs'[j].key[1] \in {gen, gen + 1}
        BY <2>2, <2>5, <2>7, <3>2
      <4> QED
        BY <1>1, <4>1, <4>2
    <3>3. CASE i \notin 1..n
      <4>1. i = n + 2
        BY <2>2, <2>3, <2>5, <2>7, <2>11, <3>3
      <4>2. j = n + 3
        BY <2>6, <2>7, <2>11, <4>1
      <4> QED
        BY <1>1, <2>2, <2>5, <4>1, <4>2
    <3> QED
      BY <3>1, <3>2, <3>3
  <2>12. ASSUME NEW i \in 1..Len(msgs') PROVE msgs'[i].key[1] \notin deleted
    <3>1. CASE i \in 1..n
      BY <2>5, <3>1 DEF Gone, Unknown
    <3>2. CASE i = n + 1 \/ i = n + 2 \/ i = n + 3
      BY <1>1, <1>4, <2>2, <2>5, <3>2
    <3> QED
      BY <2>7, <3>1, <3>2
  <2> QED
    BY <1>3, <2>9, <2>10, <2>11, <2>12 DEF Removals
<1> QED
  BY <1>5, <1>6

\* A message less, the first: what is said of the others stays true, whatever is no longer
\* waited for that no other message removes.
LEMMA TailKeepsRemovals ==
    ASSUME Typed, Removals, msgs # <<>>, msgs' = Tail(msgs), gen' = gen,
           NEW w, waiting' = w,
           \A i \in 2..Len(msgs) : "batching" \in waiting[msgs[i].key[1]]
                                     /\ msgs[i].op = "remove" => "batching" \in w[msgs[i].key[1]]
    PROVE  Removals'
<1>1. /\ Len(msgs) \in Nat \ {0} /\ Len(msgs') = Len(msgs) - 1
      /\ \A i \in 1..Len(msgs') : msgs'[i] = msgs[i + 1] /\ i + 1 \in 2..Len(msgs)
      /\ \A i \in 2..Len(msgs) : msgs'[i - 1] = msgs[i] /\ i - 1 \in 1..Len(msgs')
      /\ \A i \in 2..Len(msgs) : i \in 1..Len(msgs) /\ 1 < i
      /\ 1 \in 1..Len(msgs)
  BY DEF Typed
<1>2. ASSUME NEW i \in 1..Len(msgs')
      PROVE  /\ msgs'[i].key[1] \in 1..gen'
             /\ msgs'[i].op = "remove" => /\ msgs'[i].key[1] < gen'
                                          /\ "batching" \in waiting'[msgs'[i].key[1]]
  <2>1. msgs'[i] = msgs[i + 1] /\ i + 1 \in 2..Len(msgs) /\ i + 1 \in 1..Len(msgs)
    BY <1>1
  <2>2. /\ msgs[i + 1].key[1] \in 1..gen
        /\ msgs[i + 1].op = "remove" => /\ msgs[i + 1].key[1] < gen
                                        /\ "batching" \in waiting[msgs[i + 1].key[1]]
    BY <2>1 DEF Removals
  <2> QED
    BY <2>1, <2>2
<1>3. ASSUME NEW i \in 1..Len(msgs'), IsRemove(msgs'[i], "gnss")
      PROVE  \E j \in 1..Len(msgs') : IsRemove(msgs'[j], "batching") /\ msgs'[j].key[1] = msgs'[i].key[1]
  <2>1. msgs'[i] = msgs[i + 1] /\ i + 1 \in 1..Len(msgs) /\ 1 < i + 1
    BY <1>1
  <2>2. PICK j \in 1..Len(msgs) : IsRemove(msgs[j], "batching") /\ msgs[j].key[1] = msgs[i + 1].key[1]
    BY <1>3, <2>1 DEF Removals
  <2>3. j # 1
    BY <1>1, <2>1, <2>2 DEF Removals
  <2>4. msgs'[j - 1] = msgs[j] /\ j - 1 \in 1..Len(msgs')
    BY <1>1, <2>3
  <2> QED
    BY <2>1, <2>2, <2>4
<1>4. ASSUME NEW i \in 1..Len(msgs'), NEW j \in 1..Len(msgs'), i < j, IsRemove(msgs'[i], "batching")
      PROVE  msgs'[j].key[1] # msgs'[i].key[1]
  <2>1. msgs'[i] = msgs[i + 1] /\ i + 1 \in 1..Len(msgs) /\ msgs'[j] = msgs[j + 1]
        /\ j + 1 \in 1..Len(msgs) /\ i + 1 < j + 1
    BY <1>1, <1>4
  <2> QED
    BY <1>4, <2>1 DEF Removals
<1> QED
  BY <1>2, <1>3, <1>4 DEF Removals

LEMMA HandleKeepsRemovals ==
    ASSUME Typed, Removals, Gone, HandleMsg
    PROVE  Removals' /\ Gone'
<1> DEFINE m == Head(msgs)
<1>1. /\ msgs # <<>> /\ msgs' = Tail(msgs) /\ gen' = gen /\ msgs \in Seq(Message)
      /\ HandleAdd(m) \/ HandleStart(m) \/ HandleGet(m) \/ HandleStop(m) \/ HandleRemove(m)
      /\ hist \in History /\ waiting \in [Clients -> SUBSET Adapters]
      /\ gen \in 0..MaxClients /\ MaxClients \in Nat
  BY BoundsAssumption DEF HandleMsg, Typed
<1>2. /\ Len(msgs) \in Nat \ {0} /\ m = msgs[1] /\ m \in Message
      /\ \A i \in 1..Len(msgs') : msgs'[i] = msgs[i + 1] /\ i + 1 \in 1..Len(msgs) /\ 1 < i + 1
      /\ 1 \in 1..Len(msgs)
  BY <1>1
<1> HIDE DEF m
<1>3. /\ m.key[1] \in 1..gen
      /\ m.op = "remove" => /\ m.key[1] < gen
                            /\ "batching" \in waiting[m.key[1]]
  BY <1>2 DEF Removals
<1>4. \A g \in deleted : \A i \in 1..Len(msgs') : msgs'[i].key[1] # g
  BY <1>2 DEF Gone, Unknown
<1>5. CASE HandleAdd(m) \/ HandleStart(m) \/ HandleGet(m) \/ HandleStop(m)
  <2>1. waiting' = waiting /\ deleted' = deleted /\ hist' = hist
    BY <1>5 DEF HandleAdd, HandleStart, HandleGet, HandleStop, deathVars
  <2>2. Removals'
    BY <1>1, <2>1, TailKeepsRemovals
  <2>3. /\ registered' \subseteq registered \cup {m.key[1]}
        /\ sessions' \subseteq sessions \cup {m.key}
    BY <1>5 DEF HandleAdd, HandleStart, HandleGet, HandleStop, adapterVars
  <2>4. ASSUME NEW g \in deleted PROVE Unknown(g)'
    <3>1. m.key[1] # g /\ Unknown(g)
      BY <1>2 DEF Gone, Unknown
    <3> QED
      BY <1>1, <1>4, <2>1, <2>3, <3>1 DEF Unknown
  <2> QED
    BY <2>1, <2>2, <2>4 DEF Gone
<1>6. CASE HandleRemove(m)
  <2>g. PICK g : g = m.key[1]
    OBVIOUS
  <2>1. /\ m.op = "remove" /\ waiting' = [waiting EXCEPT ![g] = @ \ {m.adapter}]
        /\ deleted' = IF waiting'[g] = {} THEN deleted \cup {g} ELSE deleted
        /\ g \in Clients /\ g < gen /\ "batching" \in waiting[g] /\ m.adapter \in Adapters
    BY SMTT(30), <1>1, <1>2, <1>3, <1>6, <2>g, MessageParts DEF HandleRemove, onRemoveClientCompleteCb, Clients
  <2>2. /\ waiting'[g] = waiting[g] \ {m.adapter}
        /\ \A x \in Clients \ {g} : waiting'[x] = waiting[x]
    BY <1>1, <2>1
  <2>3. CASE m.adapter = "gnss"
    <3>1. UNCHANGED <<adapterVars, eng, hist>>
      BY <1>6, <2>3 DEF HandleRemove
    <3>2. "batching" \in waiting'[g] /\ deleted' = deleted
      BY <2>1, <2>2, <2>3
    <3>3. \A i \in 2..Len(msgs) :
             /\ "batching" \in waiting[msgs[i].key[1]]
             /\ msgs[i].op = "remove"
             => "batching" \in waiting'[msgs[i].key[1]]
      <4> SUFFICES ASSUME NEW i \in 2..Len(msgs), "batching" \in waiting[msgs[i].key[1]]
                   PROVE  "batching" \in waiting'[msgs[i].key[1]]
        OBVIOUS
      <4>1. msgs[i].key[1] \in Clients
        BY <1>1, <1>2 DEF Removals, Clients
      <4> QED
        BY <2>2, <3>2, <4>1
    <3>4. Removals'
      <4> DEFINE w == waiting'
      <4> HIDE DEF w
      <4>1. waiting' = w /\ \A i \in 2..Len(msgs) :
             /\ "batching" \in waiting[msgs[i].key[1]]
             /\ msgs[i].op = "remove"
             => "batching" \in w[msgs[i].key[1]]
        BY <3>3 DEF w
      <4> QED
        BY <1>1, <4>1, TailKeepsRemovals
    <3>5. ASSUME NEW x \in deleted PROVE Unknown(x)'
      <4>1. Unknown(x)
        BY DEF Gone
      <4> QED
        BY <1>1, <1>4, <3>1, <4>1 DEF Unknown, adapterVars
    <3> QED
      BY <3>2, <3>4, <3>5 DEF Gone
  <2>4. CASE m.adapter # "gnss"
    <3>1. /\ m.adapter = "batching" /\ registered' = registered \ {g}
          /\ sessions' = sessions \ stopClientSessions(g)
          /\ hist' = [hist EXCEPT !.refused = {k \in @ : k[1] # g}]
      BY <1>6, <2>g, <2>1, <2>4 DEF HandleRemove, Adapters
    <3>2. hist'.refused = {k \in hist.refused : k[1] # g}
      BY <1>1, <3>1 DEF History
    <3>3. /\ \A k \in sessions' : k \in sessions /\ k[1] # g
          /\ \A k \in hist.refused : k[1] # g => k \in hist'.refused
      BY <3>1, <3>2 DEF stopClientSessions
    <3>4. IsRemove(msgs[1], "batching") /\ msgs[1].key[1] = g
      BY <1>2, <2>g, <2>1, <3>1 DEF IsRemove
    <3>5. \A i \in 2..Len(msgs) : msgs[i].key[1] # g
      <4>1. \A i \in 2..Len(msgs) : i \in 1..Len(msgs) /\ 1 < i
        BY <1>2
      <4> QED
        BY <1>2, <3>4, <4>1 DEF Removals
    <3>6. \A i \in 2..Len(msgs) :
             /\ "batching" \in waiting[msgs[i].key[1]]
             /\ msgs[i].op = "remove"
             => "batching" \in waiting'[msgs[i].key[1]]
      <4> SUFFICES ASSUME NEW i \in 2..Len(msgs), "batching" \in waiting[msgs[i].key[1]]
                   PROVE  "batching" \in waiting'[msgs[i].key[1]]
        OBVIOUS
      <4>1. msgs[i].key[1] \in Clients
        BY <1>1, <1>2 DEF Removals, Clients
      <4> QED
        BY <2>2, <3>5, <4>1
    <3>7. Removals'
      <4> DEFINE w == waiting'
      <4> HIDE DEF w
      <4>1. waiting' = w /\ \A i \in 2..Len(msgs) :
             /\ "batching" \in waiting[msgs[i].key[1]]
             /\ msgs[i].op = "remove"
             => "batching" \in w[msgs[i].key[1]]
        BY <3>6 DEF w
      <4> QED
        BY <1>1, <4>1, TailKeepsRemovals
    <3>8. ASSUME NEW x \in deleted PROVE Unknown(x)'
      <4>1. Unknown(x)
        BY DEF Gone
      <4>2. \A k \in sessions' : k[1] = x => k \in hist'.refused
        BY <3>3, <4>1 DEF Unknown
      <4> QED
        BY <1>1, <1>4, <3>1, <4>1, <4>2 DEF Unknown
    <3>9. Unknown(g)'
      <4>1. \A i \in 1..Len(msgs') : msgs'[i].key[1] # g
        <5>1. \A i \in 1..Len(msgs') : msgs'[i] = msgs[i + 1] /\ i + 1 \in 2..Len(msgs)
          BY <1>1
        <5> QED
          BY <3>5, <5>1
      <4> QED
        BY <1>1, <2>1, <3>1, <3>3, <4>1 DEF Unknown
    <3>10. deleted' \subseteq deleted \cup {g}
      BY <2>1
    <3> QED
      BY <3>7, <3>8, <3>9, <3>10 DEF Gone
  <2> QED
    BY <2>3, <2>4
<1> QED
  BY <1>1, <1>5, <1>6

LEMMA GoneStep ==
    ASSUME Typed, Removals, Gone, [Next]_vars
    PROVE  Removals' /\ Gone'
<1>0. hist \in History
  BY DEF Typed
<1>1. CASE init
  BY <1>1, InitKeepsRemovals
<1>2. CASE start \/ flush \/ SessionStep
  <2>1. gen \in Nat \ {0}
    BY <1>2 DEF start, flush, SessionStep, Typed
  <2>2. hist'.refused = hist.refused
    BY <1>0, <1>2 DEF start, locAPIStartSession, flush, SessionStep, request, History
  <2>3. UNCHANGED <<gen, waiting, deleted, registered, sessions>>
    BY <1>2 DEF start, flush, SessionStep, deathVars, adapterVars
  <2>4. msgs' = msgs \/ \E op \in Ops : \E s, n : push(op, s, n)
    <3>1. todo # <<>> => Head(todo) \in Ops
      BY DEF Typed, Ops
    <3> QED
      BY <1>2, <3>1 DEF start, locAPIStartSession, flush, SessionStep, request, Ops
  <2> QED
    BY <2>1, <2>2, <2>3, <2>4, CallKeepsRemovals
<1>3. CASE HandleMsg
  BY <1>3, HandleKeepsRemovals
<1>4. CASE EngineAnswers
  <2>1. UNCHANGED <<gen, waiting, deleted, registered, msgs>>
    BY <1>4 DEF EngineAnswers, deathVars
  <2> DEFINE c == Head(eng)
  <2>2. \/ UNCHANGED <<sessions, hist>>
        \/ /\ sessions' = onRefusal(c)
           /\ hist' = [hist EXCEPT !.refused = IF c.op = "stop" THEN @ \cup {c.key} ELSE @]
    BY <1>4 DEF EngineAnswers
  <2> HIDE DEF c
  <2>3. /\ hist.refused \subseteq hist'.refused
        /\ \A k \in sessions' : k \in sessions \/ k \in hist'.refused
    BY <1>0, <2>2 DEF onRefusal, History
  <2> QED
    BY <2>1, <2>3 DEF Removals, Gone, Unknown
<1>5. CASE UNCHANGED <<gen, waiting, deleted, registered, sessions, msgs>> /\ hist'.refused = hist.refused
  BY <1>5 DEF Removals, Gone, Unknown
<1>6. CASE stop \/ cleanup \/ serviceDied \/ Locate
  <2>1. hist'.refused = hist.refused
    BY <1>0, <1>6 DEF stop, cleanup, serviceDied, Leave, Locate, History
  <2> QED
    BY <1>5, <1>6, <2>1 DEF stop, cleanup, serviceDied, Leave, Locate, deathVars, adapterVars
<1>7. CASE EmptyBatch \/ DeliverBatch
  <2>1. PICK b, c : \/ hist' = hist
                    \/ hist' = [hist EXCEPT !.given = b]
                    \/ hist' = [hist EXCEPT !.given = b, !.reported = c]
    BY <1>7 DEF EmptyBatch, DeliverBatch, onBatchingCb
  <2>2. hist'.refused = hist.refused
    BY <1>0, <2>1 DEF History
  <2> QED
    BY <1>5, <1>7, <2>2 DEF EmptyBatch, DeliverBatch, deathVars, adapterVars
<1>8. CASE OnResponse \/ Full \/ UNCHANGED vars
  BY <1>5, <1>8 DEF OnResponse, Full, vars, deathVars, adapterVars
<1> QED
  BY <1>1, <1>2, <1>3, <1>4, <1>6, <1>7, <1>8 DEF Next

HalInv == Typed /\ InOrder /\ Removals /\ Gone

LEMMA HalInvInit == Init => HalInv
<1> SUFFICES ASSUME Init PROVE HalInv
  OBVIOUS
<1>1. Typed
  BY TypedInit
<1>2. InOrder
  BY ConcatEmptySeq DEF Init, InOrder
<1>3. Removals /\ Gone
  BY DEF Init, Removals, Gone
<1> QED
  BY <1>1, <1>2, <1>3 DEF HalInv

LEMMA HalInvAlways == Spec => []HalInv
<1>1. HalInv /\ [Next]_vars => HalInv'
  BY TypedStep, InOrderStep, GoneStep DEF HalInv
<1> QED
  BY <1>1, HalInvInit, PTL DEF Spec

\* Whatever the framework calls and the engine refuses, and however many clients there
\* are one after another: of a LocationAPI that is deleted no message or registration is
\* left, and no session but those whose last stop the engine has refused.
THEOREM DeletedIsUnknownAlways == Spec => []DeletedIsUnknown
<1>1. HalInv => DeletedIsUnknown
  <2> SUFFICES ASSUME HalInv PROVE DeletedIsUnknown
    OBVIOUS
  <2>1. DOMAIN msgs = 1..Len(msgs)
    BY DEF HalInv, Typed
  <2> QED
    BY <2>1 DEF HalInv, Gone, Unknown, DeletedIsUnknown
<1> QED
  BY <1>1, HalInvAlways, PTL

\* The framework gets the locations a client is given in their order, the cached ones first,
\* and none is lost: what it has been given and what is cached is what came.
THEOREM LocationsInOrder == Spec => []InOrder
<1>1. HalInv => InOrder
  BY DEF HalInv
<1> QED
  BY <1>1, HalInvAlways, PTL

-----------------------------------------------------------------------------
(* Requests and calls: the queue of the client base is what is left of its   *)
(* calls in the queues of engine and adapter, in their order.                *)

Live == fw \in {"idle", "started"}
key == <<gen, base.session>>
pipe == eng \o msgs

\* A call of client g, and not a stop of a destroyed client's session.
Current(m, g) == m.key[1] = g /\ m.n # 0

\* The queue q of client g with session s, in which the requests after the first low ones
\* wait, and the calls p.
Matches(p, q, g, s, low) ==
    /\ \A j \in 1..Len(q) : q[j].n = low + j
    /\ \A i \in 1..Len(p) : Current(p[i], g) =>
          /\ s # 0 /\ p[i].key = <<g, s>>
          /\ p[i].n - low \in 1..Len(q) /\ q[p[i].n - low].op = p[i].op
    /\ \A j \in 1..Len(q) : \E i \in 1..Len(p) : Current(p[i], g) /\ p[i].n = low + j
    /\ \A i, j \in 1..Len(p) : i < j /\ Current(p[i], g) /\ Current(p[j], g) => p[i].n < p[j].n
    /\ \A j \in 1..Len(q) : (q[j].op = "start" => j = 1) /\ (q[j].op = "stop" => j = Len(q))

\* Calls of others may come and go.
LEMMA MatchesSame ==
    ASSUME NEW p \in Seq(Message), NEW r \in Seq(Message), NEW q, NEW g, NEW s, NEW low,
           Matches(p, q, g, s, low),
           NEW f,
           \A i \in 1..Len(r) : Current(r[i], g) => f[i] \in 1..Len(p) /\ p[f[i]] = r[i],
           \A i, j \in 1..Len(r) : i < j /\ Current(r[i], g) /\ Current(r[j], g) => f[i] < f[j],
           \A k \in 1..Len(p) : Current(p[k], g) => \E i \in 1..Len(r) : r[i] = p[k]
    PROVE  Matches(r, q, g, s, low)
<1>1. \A i \in 1..Len(r) : Current(r[i], g) =>
          /\ s # 0 /\ r[i].key = <<g, s>>
          /\ r[i].n - low \in 1..Len(q) /\ q[r[i].n - low].op = r[i].op
  <2> SUFFICES ASSUME NEW i \in 1..Len(r), Current(r[i], g)
               PROVE  /\ s # 0 /\ r[i].key = <<g, s>>
                      /\ r[i].n - low \in 1..Len(q) /\ q[r[i].n - low].op = r[i].op
    OBVIOUS
  <2>1. PICK k \in 1..Len(p) : p[k] = r[i]
    OBVIOUS
  <2>2. /\ s # 0 /\ p[k].key = <<g, s>>
        /\ p[k].n - low \in 1..Len(q) /\ q[p[k].n - low].op = p[k].op
    BY <2>1 DEF Matches
  <2> QED
    BY <2>1, <2>2
<1>2. \A j \in 1..Len(q) : \E i \in 1..Len(r) : Current(r[i], g) /\ r[i].n = low + j
  <2> SUFFICES ASSUME NEW j \in 1..Len(q)
               PROVE  \E i \in 1..Len(r) : Current(r[i], g) /\ r[i].n = low + j
    OBVIOUS
  <2>1. PICK k \in 1..Len(p) : Current(p[k], g) /\ p[k].n = low + j
    BY DEF Matches
  <2>2. PICK i \in 1..Len(r) : r[i] = p[k]
    BY <2>1
  <2> QED
    BY <2>1, <2>2
<1>3. \A i, j \in 1..Len(r) : i < j /\ Current(r[i], g) /\ Current(r[j], g) => r[i].n < r[j].n
  <2> SUFFICES ASSUME NEW i \in 1..Len(r), NEW j \in 1..Len(r), i < j, Current(r[i], g), Current(r[j], g)
               PROVE  r[i].n < r[j].n
    OBVIOUS
  <2>1. f[i] \in 1..Len(p) /\ p[f[i]] = r[i] /\ f[j] \in 1..Len(p) /\ p[f[j]] = r[j] /\ f[i] < f[j]
    OBVIOUS
  <2> QED
    BY <2>1 DEF Matches
<1> QED
  BY <1>1, <1>2, <1>3 DEF Matches

\* A new request.
LEMMA MatchesPush ==
    ASSUME NEW p \in Seq(Message), NEW q \in Seq(Request), NEW g \in Nat, NEW s \in Nat, NEW low \in Nat,
           Matches(p, q, g, s, low), NEW t \in Nat \ {0}, NEW op \in Ops, NEW n \in Nat,
           n = low + Len(q) + 1, t = s \/ q = <<>>,
           op = "start" => q = <<>>,
           \A j \in 1..Len(q) : q[j].op # "stop"
    PROVE  Matches(Append(p, [op |-> op, key |-> <<g, t>>, n |-> n]),
                   Append(q, [op |-> op, n |-> n]), g, t, low)
<1> DEFINE m == [op |-> op, key |-> <<g, t>>, n |-> n]
           r == Append(p, m)
           new == [op |-> op, n |-> n]
           v == Append(q, new)
<1>1. /\ m.op = op /\ m.key = <<g, t>> /\ m.key[1] = g /\ m.n = n /\ n # 0 /\ Current(m, g)
      /\ new.op = op /\ new.n = n
  BY DEF Current
<1> HIDE DEF m, new
<1>2. /\ Len(r) = Len(p) + 1 /\ Len(p) \in Nat /\ r[Len(p) + 1] = m
      /\ \A i \in 1..Len(p) : r[i] = p[i] /\ i \in 1..Len(r)
      /\ Len(p) + 1 \in 1..Len(r)
      /\ \A i \in 1..Len(r) : i \in 1..Len(p) \/ i = Len(p) + 1
  OBVIOUS
<1>3. /\ Len(v) = Len(q) + 1 /\ Len(q) \in Nat /\ v[Len(q) + 1] = new
      /\ \A i \in 1..Len(q) : v[i] = q[i] /\ i \in 1..Len(v)
      /\ Len(q) + 1 \in 1..Len(v)
      /\ \A i \in 1..Len(v) : i \in 1..Len(q) \/ i = Len(q) + 1
  OBVIOUS
<1> HIDE DEF r, v
<1>4. \A i \in 1..Len(p) : Current(p[i], g) =>
         /\ s = t /\ s # 0 /\ p[i].key = <<g, s>>
         /\ p[i].n - low \in 1..Len(q) /\ q[p[i].n - low].op = p[i].op
  <2>1. q = <<>> => 1..Len(q) = {}
    OBVIOUS
  <2> QED
    BY <2>1 DEF Matches
<1>5. ASSUME NEW j \in 1..Len(v)
      PROVE  v[j].n = low + j
  <2>1. CASE j \in 1..Len(q)
    BY <1>3, <2>1 DEF Matches
  <2>2. CASE j = Len(q) + 1
    <3>1. n = low + j
      BY <1>3, <2>2
    <3> QED
      BY <1>1, <1>3, <2>2, <3>1
  <2> QED
    BY <1>3, <2>1, <2>2
<1>6. ASSUME NEW i \in 1..Len(r), Current(r[i], g)
      PROVE  /\ t # 0 /\ r[i].key = <<g, t>>
             /\ r[i].n - low \in 1..Len(v) /\ v[r[i].n - low].op = r[i].op
  <2>1. CASE i \in 1..Len(p)
    BY <1>2, <1>3, <1>4, <1>6, <2>1
  <2>2. CASE i = Len(p) + 1
    <3>1. n - low = Len(q) + 1
      BY <1>3
    <3> QED
      BY <1>1, <1>2, <1>3, <2>2, <3>1
  <2> QED
    BY <1>2, <2>1, <2>2
<1>7. ASSUME NEW j \in 1..Len(v)
      PROVE  \E i \in 1..Len(r) : Current(r[i], g) /\ r[i].n = low + j
  <2>1. CASE j \in 1..Len(q)
    <3>1. PICK i \in 1..Len(p) : Current(p[i], g) /\ p[i].n = low + j
      BY <2>1 DEF Matches
    <3> QED
      BY <1>2, <3>1
  <2>2. CASE j = Len(q) + 1
    <3>1. n = low + j
      BY <1>3, <2>2
    <3> QED
      BY <1>1, <1>2, <3>1
  <2> QED
    BY <1>3, <2>1, <2>2
<1>8. ASSUME NEW i \in 1..Len(r), NEW j \in 1..Len(r), i < j, Current(r[i], g), Current(r[j], g)
      PROVE  r[i].n < r[j].n
  <2>1. i \in 1..Len(p) /\ r[i] = p[i]
    BY <1>2, <1>8
  <2>2. CASE j \in 1..Len(p)
    <3>1. r[j] = p[j]
      BY <1>2, <2>2
    <3> QED
      BY <1>8, <2>1, <2>2, <3>1 DEF Matches
  <2>3. CASE j = Len(p) + 1
    <3>1. p[i].n - low \in 1..Len(q) /\ p[i].n \in Nat
      BY SMTT(30), <1>4, <1>8, <2>1, MessageParts
    <3>2. p[i].n < n
      BY SMTT(30), <1>3, <3>1
    <3> QED
      BY <1>1, <1>2, <2>1, <2>3, <3>2
  <2> QED
    BY <1>2, <2>2, <2>3
<1>9. ASSUME NEW j \in 1..Len(v)
      PROVE  (v[j].op = "start" => j = 1) /\ (v[j].op = "stop" => j = Len(v))
  <2>1. CASE j \in 1..Len(q)
    BY <1>3, <2>1 DEF Matches
  <2>2. CASE j = Len(q) + 1
    BY <1>1, <1>3, <2>2
  <2> QED
    BY <1>3, <2>1, <2>2
<1>10. Matches(r, v, g, t, low)
  BY <1>5, <1>6, <1>7, <1>8, <1>9 DEF Matches
<1> QED
  BY <1>10 DEF r, v, m, new

\* The answer of the first call is for the first request.
LEMMA MatchesPop ==
    ASSUME NEW p \in Seq(Message), NEW q \in Seq(Request), NEW g \in Nat, NEW s \in Nat, NEW low \in Nat,
           Matches(p, q, g, s, low), p # <<>>, Current(p[1], g)
    PROVE  /\ q # <<>> /\ Head(q).op = p[1].op /\ Head(q).n = p[1].n /\ p[1].key = <<g, s>> /\ s # 0
           /\ Matches(Tail(p), Tail(q), g, s, low + 1)
           /\ p[1].op = "stop" => Tail(q) = <<>>
           /\ \A j \in 1..Len(Tail(q)) : Tail(q)[j].op # "start"
<1> DEFINE r == Tail(p)
           v == Tail(q)
<1>1. /\ Len(p) \in Nat \ {0} /\ 1 \in 1..Len(p) /\ Len(r) = Len(p) - 1
      /\ \A i \in 1..Len(r) : r[i] = p[i + 1] /\ i + 1 \in 1..Len(p) /\ 1 < i + 1
      /\ \A i \in 1..Len(p) : i = 1 \/ (1 < i /\ i - 1 \in 1..Len(r) /\ r[i - 1] = p[i])
  OBVIOUS
<1>2. /\ s # 0 /\ p[1].key = <<g, s>> /\ p[1].n \in Nat
      /\ p[1].n - low \in 1..Len(q) /\ q[p[1].n - low].op = p[1].op
  BY <1>1, MessageParts DEF Matches
<1>3. Len(q) \in Nat \ {0} /\ 1 \in 1..Len(q) /\ q # <<>>
  BY <1>2
<1>4. p[1].n = low + 1
  <2>1. PICK i \in 1..Len(p) : Current(p[i], g) /\ p[i].n = low + 1
    BY <1>3 DEF Matches
  <2>2. CASE i = 1
    BY <2>1, <2>2
  <2>3. CASE i # 1
    <3>1. p[1].n < p[i].n
      BY <1>1, <2>1, <2>3 DEF Matches
    <3> QED
      BY <1>2, <2>1, <3>1
  <2> QED
    BY <2>2, <2>3
<1>5. /\ Len(v) = Len(q) - 1 /\ Head(q) = q[1]
      /\ \A j \in 1..Len(v) : v[j] = q[j + 1] /\ j + 1 \in 1..Len(q) /\ j + 1 # 1
      /\ \A j \in 1..Len(q) : j = 1 \/ (j - 1 \in 1..Len(v) /\ v[j - 1] = q[j])
  BY <1>3
<1>6. q[1].n = low + 1 /\ q[1].op = p[1].op
  <2>1. p[1].n - low = 1
    BY <1>4
  <2> QED
    BY <1>2, <1>3, <2>1 DEF Matches
<1>7. p[1].op = "stop" => v = <<>>
  <2>1. p[1].op = "stop" => Len(q) = 1
    BY <1>3, <1>6 DEF Matches
  <2>2. Len(q) = 1 => Tail(q) = <<>>
    <3>1. Tail(q) \in Seq(Request) /\ Len(Tail(q)) = Len(q) - 1
      BY <1>3
    <3>2. \A u \in Seq(Request) : Len(u) = 0 => u = <<>>
      OBVIOUS
    <3>3. Len(q) = 1 => Len(Tail(q)) = 0
      BY <3>1
    <3> QED
      BY <3>1, <3>2, <3>3, Zenon
  <2> QED
    BY <2>1, <2>2
<1>8. \A j \in 1..Len(v) : v[j].op # "start"
  BY <1>5 DEF Matches
<1> HIDE DEF r, v
<1>9. \A j \in 1..Len(v) : v[j].n = low + 1 + j
  <2> SUFFICES ASSUME NEW j \in 1..Len(v) PROVE v[j].n = low + 1 + j
    OBVIOUS
  <2>1. q[j + 1].n = low + (j + 1)
    BY <1>5 DEF Matches
  <2> QED
    BY SMTT(30), <1>5, <2>1
<1>10. ASSUME NEW i \in 1..Len(r), Current(r[i], g)
       PROVE  /\ s # 0 /\ r[i].key = <<g, s>>
              /\ r[i].n - (low + 1) \in 1..Len(v) /\ v[r[i].n - (low + 1)].op = r[i].op
  <2>1. r[i] = p[i + 1] /\ i + 1 \in 1..Len(p) /\ 1 < i + 1
    BY <1>1
  <2>2. /\ p[i + 1].key = <<g, s>> /\ p[i + 1].n \in Nat
        /\ p[i + 1].n - low \in 1..Len(q) /\ q[p[i + 1].n - low].op = p[i + 1].op
    BY <1>10, <2>1, MessageParts DEF Matches
  <2>3. p[1].n < p[i + 1].n
    BY <1>1, <1>10, <2>1 DEF Matches
  <2>4. p[i + 1].n - low # 1
    BY <1>4, <2>2, <2>3
  <2>5. p[i + 1].n - low - 1 \in 1..Len(v) /\ v[p[i + 1].n - low - 1] = q[p[i + 1].n - low]
    BY <1>5, <2>2, <2>4
  <2>6. p[i + 1].n - low - 1 = p[i + 1].n - (low + 1)
    <3>1. \A x \in Nat : x - low - 1 = x - (low + 1)
      OBVIOUS
    <3> QED
      BY <2>2, <3>1
  <2> QED
    BY <1>2, <2>1, <2>2, <2>5, <2>6
<1>11. ASSUME NEW j \in 1..Len(v)
       PROVE  \E i \in 1..Len(r) : Current(r[i], g) /\ r[i].n = low + 1 + j
  <2>1. PICK i \in 1..Len(p) : Current(p[i], g) /\ p[i].n = low + (j + 1)
    BY <1>5 DEF Matches
  <2>2. i # 1
    BY <1>4, <1>5, <2>1
  <2>3. low + (j + 1) = low + 1 + j
    BY <1>5
  <2> QED
    BY <1>1, <2>1, <2>2, <2>3
<1>12. ASSUME NEW i \in 1..Len(r), NEW j \in 1..Len(r), i < j, Current(r[i], g), Current(r[j], g)
       PROVE  r[i].n < r[j].n
  <2>1. r[i] = p[i + 1] /\ i + 1 \in 1..Len(p) /\ r[j] = p[j + 1] /\ j + 1 \in 1..Len(p) /\ i + 1 < j + 1
    BY <1>1, <1>12
  <2> QED
    BY <1>12, <2>1 DEF Matches
<1>13. ASSUME NEW j \in 1..Len(v)
       PROVE  (v[j].op = "start" => j = 1) /\ (v[j].op = "stop" => j = Len(v))
  BY <1>5, <1>8 DEF Matches
<1>14. Matches(r, v, g, s, low + 1)
  BY <1>9, <1>10, <1>11, <1>12, <1>13 DEF Matches
<1> QED
  BY <1>2, <1>3, <1>4, <1>5, <1>6, <1>7, <1>8, <1>14 DEF r, v

\* Where the elements of two sequences in a row are.
LEMMA ConcatParts ==
    ASSUME NEW a \in Seq(Message), NEW b \in Seq(Message)
    PROVE  /\ a \o b \in Seq(Message) /\ Len(a) \in Nat /\ Len(b) \in Nat
           /\ Len(a \o b) = Len(a) + Len(b)
           /\ \A i \in 1..Len(a) : (a \o b)[i] = a[i] /\ i \in 1..Len(a \o b)
           /\ \A j \in 1..Len(b) : (a \o b)[Len(a) + j] = b[j] /\ Len(a) + j \in 1..Len(a \o b)
           /\ \A i \in 1..Len(a \o b) : \/ i \in 1..Len(a)
                                        \/ /\ i > Len(a) /\ i - Len(a) \in 1..Len(b)
                                           /\ (a \o b)[i] = b[i - Len(a)]
<1>1. /\ a \o b \in Seq(Message) /\ Len(a \o b) = Len(a) + Len(b)
      /\ \A i \in 1..Len(a) + Len(b) : (a \o b)[i] = IF i <= Len(a) THEN a[i] ELSE b[i - Len(a)]
  BY ConcatProperties
<1>2. Len(a) \in Nat /\ Len(b) \in Nat
  OBVIOUS
<1> DEFINE c == a \o b
           k == Len(a)
           n == Len(b)
<1> HIDE DEF c, k, n
<1>3. /\ Len(c) = k + n /\ k \in Nat /\ n \in Nat
      /\ \A i \in 1..k + n : c[i] = IF i <= k THEN a[i] ELSE b[i - k]
  BY <1>1, <1>2 DEF c, k, n
<1>4. \A i \in 1..k : c[i] = a[i] /\ i \in 1..Len(c)
  BY <1>3
<1>5. ASSUME NEW j \in 1..n PROVE c[k + j] = b[j] /\ k + j \in 1..Len(c)
  <2>1. k + j \in 1..k + n /\ ~(k + j <= k) /\ k + j - k = j
    BY <1>3
  <2> QED
    BY <1>3, <2>1
<1>6. ASSUME NEW i \in 1..Len(c), i \notin 1..k
      PROVE  i > k /\ i - k \in 1..n /\ c[i] = b[i - k]
  <2>1. i > k /\ i - k \in 1..n /\ ~(i <= k)
    BY <1>3, <1>6
  <2> QED
    BY <1>3, <2>1
<1> QED
  BY <1>1, <1>2, <1>4, <1>5, <1>6 DEF c, k, n

\* The first call is of another.
LEMMA MatchesSkip ==
    ASSUME NEW p \in Seq(Message), NEW q, NEW g, NEW s, NEW low,
           Matches(p, q, g, s, low), p # <<>>, ~Current(p[1], g)
    PROVE  Matches(Tail(p), q, g, s, low)
<1> DEFINE r == Tail(p)
           f == [i \in 1..Len(r) |-> i + 1]
<1>1. /\ Len(p) \in Nat \ {0} /\ r \in Seq(Message) /\ Len(r) \in Nat
      /\ \A i \in 1..Len(r) : r[i] = p[i + 1] /\ i + 1 \in 1..Len(p)
      /\ \A k \in 1..Len(p) : k = 1 \/ (k - 1 \in 1..Len(r) /\ r[k - 1] = p[k])
  OBVIOUS
<1> HIDE DEF r
<1>2. \A i \in 1..Len(r) : f[i] \in 1..Len(p) /\ p[f[i]] = r[i]
  BY <1>1
<1>3. \A i, j \in 1..Len(r) : i < j => f[i] < f[j]
  BY <1>1
<1>4. \A k \in 1..Len(p) : Current(p[k], g) => \E i \in 1..Len(r) : r[i] = p[k]
  BY <1>1
<1> HIDE DEF f
<1>5. Matches(r, q, g, s, low)
  BY <1>1, <1>2, <1>3, <1>4, MatchesSame
<1> QED
  BY <1>5 DEF r

\* The first call of the second queue is of another, and so are those it becomes.
LEMMA MatchesReplace ==
    ASSUME NEW a \in Seq(Message), NEW b \in Seq(Message), NEW t \in Seq(Message),
           NEW q, NEW g, NEW s, NEW low,
           Matches(a \o b, q, g, s, low), b # <<>>, ~Current(b[1], g),
           \A i \in 1..Len(t) : ~Current(t[i], g)
    PROVE  Matches((a \o t) \o Tail(b), q, g, s, low)
<1> DEFINE p == a \o b
           v == a \o t
           c == Tail(b)
           r == v \o c
           k == Len(a)
           f == [i \in 1..Len(r) |-> IF i <= k THEN i ELSE i - Len(t) + 1]
<1>1. /\ Len(b) \in Nat \ {0} /\ c \in Seq(Message) /\ Len(c) = Len(b) - 1 /\ Len(t) \in Nat
      /\ \A i \in 1..Len(c) : c[i] = b[i + 1] /\ i + 1 \in 1..Len(b)
      /\ \A i \in 1..Len(b) : i = 1 \/ (i - 1 \in 1..Len(c) /\ c[i - 1] = b[i])
  OBVIOUS
<1>2. /\ p \in Seq(Message) /\ k \in Nat /\ Len(p) = k + Len(b)
      /\ \A i \in 1..k : p[i] = a[i] /\ i \in 1..Len(p)
      /\ \A j \in 1..Len(b) : p[k + j] = b[j] /\ k + j \in 1..Len(p)
      /\ \A i \in 1..Len(p) : i \in 1..k \/ (i > k /\ i - k \in 1..Len(b) /\ p[i] = b[i - k])
  BY ConcatParts
<1>3. /\ v \in Seq(Message) /\ Len(v) = k + Len(t)
      /\ \A i \in 1..k : v[i] = a[i] /\ i \in 1..Len(v)
      /\ \A i \in 1..Len(v) : i \in 1..k \/ (i > k /\ i - k \in 1..Len(t) /\ v[i] = t[i - k])
  BY ConcatParts
<1> HIDE DEF p, v, c, k
<1>4. /\ r \in Seq(Message) /\ Len(r) = Len(v) + Len(c)
      /\ \A i \in 1..Len(v) : r[i] = v[i] /\ i \in 1..Len(r)
      /\ \A j \in 1..Len(c) : r[Len(v) + j] = c[j] /\ Len(v) + j \in 1..Len(r)
      /\ \A i \in 1..Len(r) : i \in 1..Len(v) \/ (i > Len(v) /\ i - Len(v) \in 1..Len(c) /\ r[i] = c[i - Len(v)])
  BY <1>1, <1>3, ConcatParts
<1> HIDE DEF r
<1>5. \A i \in 1..Len(r) : /\ i \in 1..k => f[i] = i
                           /\ i > k => f[i] = i - Len(t) + 1
                           /\ i \in Nat
  BY <1>2, <1>4
<1> HIDE DEF f
<1>6. ASSUME NEW i \in 1..Len(r), Current(r[i], g)
      PROVE  /\ f[i] \in 1..Len(p) /\ p[f[i]] = r[i]
             /\ \/ i \in 1..k /\ f[i] = i
                \/ i > k /\ f[i] = i - Len(t) + 1 /\ f[i] > k
  <2>1. CASE i \in 1..k
    <3>1. r[i] = a[i] /\ p[i] = a[i] /\ f[i] = i /\ i \in 1..Len(p)
      BY <1>2, <1>3, <1>4, <1>5, <2>1
    <3> QED
      BY <2>1, <3>1
  <2>2. CASE i \notin 1..k
    <3>1. i > Len(v) /\ i - Len(v) \in 1..Len(c) /\ r[i] = c[i - Len(v)]
      <4>1. i \in 1..Len(v) => r[i] = v[i] /\ i - k \in 1..Len(t) /\ v[i] = t[i - k]
        BY <1>3, <1>4, <2>2
      <4>2. i \notin 1..Len(v)
        BY <1>6, <4>1
      <4> QED
        BY <1>4, <4>2
    <3>2. PICK x \in 1..Len(c) : x = i - Len(v)
      BY <3>1
    <3>3. i = k + Len(t) + x /\ i > k
      BY <1>1, <1>2, <1>3, <3>1, <3>2
    <3>4. f[i] = k + (x + 1)
      BY <1>1, <1>2, <1>5, <3>3
    <3>5. r[i] = b[x + 1] /\ x + 1 \in 1..Len(b)
      BY <1>1, <3>1, <3>2
    <3>6. p[k + (x + 1)] = b[x + 1] /\ k + (x + 1) \in 1..Len(p) /\ k + (x + 1) > k
      BY <1>2, <3>5
    <3>7. f[i] = i - Len(t) + 1
      BY <1>5, <3>3
    <3> QED
      BY <3>3, <3>4, <3>5, <3>6, <3>7
  <2> QED
    BY <2>1, <2>2
<1>7. ASSUME NEW i \in 1..Len(r), NEW j \in 1..Len(r), i < j, Current(r[i], g), Current(r[j], g)
      PROVE  f[i] < f[j]
  <2>1. /\ (i \in 1..k /\ f[i] = i) \/ (i > k /\ f[i] = i - Len(t) + 1)
        /\ (j \in 1..k /\ f[j] = j) \/ (j > k /\ f[j] = j - Len(t) + 1 /\ f[j] > k)
    BY <1>6, <1>7
  <2> QED
    BY SMTT(30), <1>1, <1>2, <1>7, <2>1
<1>8. ASSUME NEW n \in 1..Len(p), Current(p[n], g)
      PROVE  \E i \in 1..Len(r) : r[i] = p[n]
  <2>1. CASE n \in 1..k
    <3>1. r[n] = a[n] /\ n \in 1..Len(r)
      BY <1>3, <1>4, <2>1
    <3> QED
      BY <1>2, <2>1, <3>1
  <2>2. CASE n \notin 1..k
    <3>1. PICK x \in 1..Len(b) : p[n] = b[x]
      BY <1>2, <2>2
    <3>2. x # 1
      BY <1>8, <3>1
    <3>3. x - 1 \in 1..Len(c) /\ c[x - 1] = b[x]
      BY <1>1, <3>2
    <3>4. PICK y \in 1..Len(c) : c[y] = b[x]
      BY <3>3
    <3>5. r[Len(v) + y] = c[y] /\ Len(v) + y \in 1..Len(r)
      BY <1>4
    <3> QED
      BY <3>1, <3>4, <3>5
  <2> QED
    BY <2>1, <2>2
<1>9. Matches(p, q, g, s, low)
  BY DEF p
<1>10. Matches(r, q, g, s, low)
  <2>1. p \in Seq(Message) /\ r \in Seq(Message)
    BY <1>2, <1>4
  <2>2. \A i \in 1..Len(r) : Current(r[i], g) => f[i] \in 1..Len(p) /\ p[f[i]] = r[i]
    BY <1>6
  <2>3. \A i, j \in 1..Len(r) : i < j /\ Current(r[i], g) /\ Current(r[j], g) => f[i] < f[j]
    BY <1>7
  <2>4. \A n \in 1..Len(p) : Current(p[n], g) => \E i \in 1..Len(r) : r[i] = p[n]
    BY <1>8
  <2> QED
    BY <1>9, <2>1, <2>2, <2>3, <2>4, MatchesSame
<1> QED
  BY <1>10 DEF r, v, c

\* A call that moves from one queue to the next, a new one and one that leaves.
LEMMA Moves ==
    ASSUME NEW a \in Seq(Message), NEW b \in Seq(Message), NEW m \in Message
    PROVE  /\ b # <<>> => Append(a, Head(b)) \o Tail(b) = a \o b
           /\ a \o Append(b, m) = Append(a \o b, m)
           /\ a # <<>> => Tail(a) \o b = Tail(a \o b) /\ (a \o b)[1] = a[1] /\ a \o b # <<>>
<1>1. ASSUME b # <<>>
      PROVE  Append(a, Head(b)) \o Tail(b) = a \o b
  <2> DEFINE h == Head(b)
             c == Tail(b)
  <2>1. h \in Message /\ c \in Seq(Message) /\ <<h>> \in Seq(Message)
    BY <1>1
  <2>2. Append(a, h) = a \o <<h>>
    BY <2>1, AppendIsConcat
  <2>3. b = <<h>> \o c
    <3>1. <<h>> \o c \in Seq(Message) /\ Len(<<h>> \o c) = Len(b)
      BY <1>1
    <3>2. \A i \in 1..Len(b) : b[i] = (<<h>> \o c)[i]
      BY <1>1
    <3> HIDE DEF h, c
    <3> QED
      BY <3>1, <3>2, SeqEqual
  <2> HIDE DEF h, c
  <2>4. (a \o <<h>>) \o c = a \o (<<h>> \o c)
    <3>1. \A x, y, z \in Seq(Message) : (x \o y) \o z = x \o (y \o z)
      BY SMTT(30), ConcatAssociative
    <3> QED
      BY <2>1, <3>1, Zenon
  <2>5. Append(a, h) \o c = a \o b
    BY <2>2, <2>3, <2>4, Zenon
  <2> QED
    BY <2>5 DEF h, c
<1>2. a \o Append(b, m) = Append(a \o b, m)
  <2>1. Append(b, m) = b \o <<m>> /\ <<m>> \in Seq(Message) /\ a \o b \in Seq(Message)
    BY AppendIsConcat, ConcatProperties
  <2>2. Append(a \o b, m) = (a \o b) \o <<m>>
    BY <2>1, AppendIsConcat
  <2>3. \A x, y, z \in Seq(Message) : (x \o y) \o z = x \o (y \o z)
    BY SMTT(30), ConcatAssociative
  <2>4. (a \o b) \o <<m>> = a \o (b \o <<m>>)
    BY <2>1, <2>3, Zenon
  <2> QED
    BY <2>1, <2>2, <2>4, Zenon
<1>3. ASSUME a # <<>>
      PROVE  Tail(a) \o b = Tail(a \o b) /\ (a \o b)[1] = a[1] /\ a \o b # <<>>
  <2>1. /\ Tail(a) \in Seq(Message) /\ Len(Tail(a)) = Len(a) - 1 /\ Len(a) \in Nat \ {0}
        /\ \A i \in 1..Len(a) - 1 : Tail(a)[i] = a[i + 1]
    BY <1>3
  <2>2. /\ a \o b \in Seq(Message) /\ Len(a \o b) = Len(a) + Len(b) /\ Len(b) \in Nat
        /\ \A i \in 1..Len(a) + Len(b) : (a \o b)[i] = IF i <= Len(a) THEN a[i] ELSE b[i - Len(a)]
    BY ConcatProperties
  <2>3. /\ Tail(a) \o b \in Seq(Message) /\ Len(Tail(a) \o b) = Len(Tail(a)) + Len(b)
        /\ \A i \in 1..Len(Tail(a)) + Len(b) :
              (Tail(a) \o b)[i] = IF i <= Len(Tail(a)) THEN Tail(a)[i] ELSE b[i - Len(Tail(a))]
    BY <2>1, ConcatProperties
  <2>4. a \o b # <<>> /\ (a \o b)[1] = a[1]
    <3>1. Len(a \o b) # 0 /\ 1 \in 1..Len(a) + Len(b) /\ 1 <= Len(a)
      BY <2>1, <2>2
    <3> QED
      BY <2>2, <3>1
  <2>5. /\ Tail(a \o b) \in Seq(Message) /\ Len(Tail(a \o b)) = Len(a \o b) - 1
        /\ \A i \in 1..Len(a \o b) - 1 : Tail(a \o b)[i] = (a \o b)[i + 1]
    BY <2>2, <2>4
  <2> DEFINE c == a \o b
             x == Tail(a)
             y == x \o b
             z == Tail(c)
  <2> HIDE DEF c, x, y, z
  <2>6. Len(y) = Len(z)
    BY <2>1, <2>2, <2>3, <2>5 DEF c, x, y, z
  <2>7. ASSUME NEW i \in 1..Len(y) PROVE y[i] = z[i]
    <3> DEFINE k == Len(a)
               n == Len(b)
    <3> HIDE DEF k, n
    <3>1. k \in Nat \ {0} /\ n \in Nat /\ Len(x) = k - 1 /\ Len(c) = k + n /\ i \in 1..(k - 1 + n)
      BY <2>1, <2>2, <2>3 DEF c, x, y, k, n
    <3>2. z[i] = c[i + 1] /\ i + 1 \in 1..k + n
      BY <2>5, <3>1 DEF c, z, k, n
    <3>3. c[i + 1] = IF i + 1 <= k THEN a[i + 1] ELSE b[i + 1 - k]
      BY <2>2, <3>2 DEF c, k, n
    <3>4. y[i] = IF i <= k - 1 THEN x[i] ELSE b[i - (k - 1)]
      BY <2>3, <3>1 DEF x, y, k, n
    <3>5. i <= k - 1 => x[i] = a[i + 1]
      BY <2>1, <3>1 DEF x, k
    <3>6. i - (k - 1) = i + 1 - k /\ (i <= k - 1 <=> i + 1 <= k)
      BY <3>1
    <3> QED
      BY <3>2, <3>3, <3>4, <3>5, <3>6
  <2>8. y \in Seq(Message) /\ z \in Seq(Message)
    BY <2>3, <2>5 DEF c, x, y, z
  <2>9. y = z
    BY <2>6, <2>7, <2>8, SeqEqual
  <2> QED
    BY <2>4, <2>9 DEF c, x, y, z
<1> QED
  BY <1>1, <1>2, <1>3

\* A start comes before all that is under way, a stop after it.
LEMMA MatchesOrder ==
    ASSUME NEW p \in Seq(Message), NEW q \in Seq(Request), NEW g, NEW s, NEW low \in Nat,
           Matches(p, q, g, s, low)
    PROVE  /\ \A i, j \in 1..Len(p) : i < j /\ Current(p[i], g) /\ Current(p[j], g) =>
                 p[j].op # "start" /\ p[i].op # "stop"
           /\ \A i \in 1..Len(p) : Current(p[i], g) => s # 0 /\ p[i].key = <<g, s>>
<1>1. ASSUME NEW i \in 1..Len(p), NEW j \in 1..Len(p), i < j, Current(p[i], g), Current(p[j], g)
      PROVE  p[j].op # "start" /\ p[i].op # "stop"
  <2>1. p[i].n < p[j].n /\ p[i].n \in Nat /\ p[j].n \in Nat /\ Len(q) \in Nat
    <3>1. p[i].n \in Nat /\ p[j].n \in Nat /\ Len(q) \in Nat
      BY MessageParts
    <3>2. p[i].n < p[j].n
      BY <1>1 DEF Matches
    <3> QED
      BY <3>1, <3>2
  <2>2. /\ p[i].n - low \in 1..Len(q) /\ q[p[i].n - low].op = p[i].op
        /\ p[j].n - low \in 1..Len(q) /\ q[p[j].n - low].op = p[j].op
    BY <1>1 DEF Matches
  <2>3. p[j].n - low # 1 /\ p[i].n - low # Len(q)
    <3>1. \A x, y, n \in Nat : x < y /\ x - low \in 1..n /\ y - low \in 1..n => y - low # 1 /\ x - low # n
      OBVIOUS
    <3> QED
      BY <2>1, <2>2, <3>1
  <2>4. \A n \in 1..Len(q) : (q[n].op = "start" => n = 1) /\ (q[n].op = "stop" => n = Len(q))
    BY DEF Matches
  <2> QED
    BY <2>2, <2>3, <2>4
<1>2. ASSUME NEW i \in 1..Len(p), Current(p[i], g)
      PROVE  s # 0 /\ p[i].key = <<g, s>>
  BY <1>2 DEF Matches
<1> QED
  BY <1>1, <1>2

\* There is a session as long as there are requests, and a call for each.
LEMMA MatchesFacts ==
    ASSUME NEW p \in Seq(Message), NEW q \in Seq(Request), NEW g, NEW s, NEW low \in Nat,
           Matches(p, q, g, s, low)
    PROVE  /\ q # <<>> => s # 0 /\ \E i \in 1..Len(p) : Current(p[i], g)
           /\ q = <<>> => \A i \in 1..Len(p) : ~Current(p[i], g)
           /\ \A i \in 1..Len(p) : Current(p[i], g) => \E j \in 1..Len(q) : q[j].op = p[i].op
           /\ \A j \in 1..Len(q) : \E i \in 1..Len(p) : Current(p[i], g) /\ q[j].op = p[i].op
<1>1. ASSUME q # <<>> PROVE s # 0 /\ \E i \in 1..Len(p) : Current(p[i], g)
  <2>1. 1 \in 1..Len(q)
    BY <1>1
  <2>2. PICK i \in 1..Len(p) : Current(p[i], g)
    BY <2>1 DEF Matches
  <2> QED
    BY <2>2 DEF Matches
<1>2. ASSUME q = <<>> PROVE \A i \in 1..Len(p) : ~Current(p[i], g)
  <2>1. 1..Len(q) = {}
    BY <1>2
  <2> QED
    BY <2>1 DEF Matches
<1>3. ASSUME NEW i \in 1..Len(p), Current(p[i], g)
      PROVE  \E j \in 1..Len(q) : q[j].op = p[i].op
  BY <1>3 DEF Matches
<1>4. ASSUME NEW j \in 1..Len(q)
      PROVE  \E i \in 1..Len(p) : Current(p[i], g) /\ q[j].op = p[i].op
  <2>1. PICK i \in 1..Len(p) : Current(p[i], g) /\ p[i].n = low + j
    BY DEF Matches
  <2>2. low + j - low = j
    OBVIOUS
  <2>3. q[p[i].n - low].op = p[i].op
    BY <2>1 DEF Matches
  <2>4. p[i].n - low = j
    BY <2>1, <2>2
  <2> QED
    BY <2>1, <2>3, <2>4
<1> QED
  BY <1>1, <1>2, <1>3, <1>4

-----------------------------------------------------------------------------
(* Answers.                                                                  *)

\* Calls of the framework have a number, stops of a destroyed client's sessions have none.
Numbered ==
    /\ \A i \in 1..Len(msgs) : msgs[i].op \in Ops => msgs[i].n # 0
    /\ \A i \in 1..Len(eng) : /\ eng[i].key[1] \in 1..gen
                              /\ eng[i].n = 0 => eng[i].key[1] < gen
    /\ \A k \in running : k[1] \in 1..gen
    /\ popped # None => popped.key[1] \in 1..gen

Aligned == \E low \in Nat : /\ hist.requests = low + Len(base.queue)
                            /\ Matches(pipe, base.queue, gen, base.session, low)

\* The adapter knows the client before it handles its calls.
Announced ==
    gen \in registered
    \/ /\ \E i \in 1..Len(msgs) :
             /\ msgs[i].op = "add" /\ msgs[i].key[1] = gen
             /\ \A j \in 1..Len(msgs) : Current(msgs[j], gen) => i < j
       /\ \A j \in 1..Len(eng) : ~Current(eng[j], gen)

Popped(op) == popped # None /\ popped.key[1] = gen /\ popped.req.op = op
Queued(op) == \E j \in 1..Len(base.queue) : base.queue[j].op = op
Stopped == Popped("stop") /\ popped.ok

\* The adapter has the session, or will have it, or it is stopped.
Known == base.session # 0 =>
    \/ key \in sessions \/ Stopped
    \/ \E i \in 1..Len(msgs) : msgs[i].op = "start" /\ msgs[i].key = key
    \/ \E i \in 1..Len(eng) : eng[i].op = "stop" /\ eng[i].key = key

\* The answer under way is for the request it was given to.
Right == popped # None /\ popped.key[1] = gen =>
    /\ base.session # 0 /\ popped.key = key /\ popped.req.n = popped.n
    /\ popped.req.op = "stop" => base.queue = <<>>
    /\ popped.req.op = "start" => popped.ok

\* No stop is under way as long as the framework has not called for it.
Open ==
    /\ fw = "started" \/ todo # <<>> => base.session # 0 /\ ~Queued("stop") /\ ~Popped("stop")
    /\ todo = <<>> \/ todo = <<"get", "stop">> \/ todo = <<"stop">>
    /\ fw = "started" => todo = <<>>

\* The engine runs the session, from its start to its stop, and no other of the client.
Runs ==
    /\ \A k \in running : k[1] = gen => base.session # 0 /\ k = key
    /\ base.session # 0 /\ ~Queued("start") => key \in running \/ Stopped
    /\ Queued("start") \/ Stopped => key \notin running

Answering == Aligned /\ Announced /\ Known /\ Right /\ Open /\ Runs

AnswerInv == Numbered /\ (Live => Answering)

LEMMA PipeParts ==
    ASSUME Typed
    PROVE  /\ eng \in Seq(Message) /\ msgs \in Seq(Message) /\ pipe \in Seq(Message)
           /\ base.queue \in Seq(Request) /\ base.session \in Nat /\ gen \in Nat
           /\ base \in [session : Nat, queue : Seq(Request)]
           /\ Len(eng) \in Nat /\ Len(msgs) \in Nat /\ Len(pipe) = Len(eng) + Len(msgs)
           /\ \A i \in 1..Len(eng) : pipe[i] = eng[i] /\ i \in 1..Len(pipe)
           /\ \A j \in 1..Len(msgs) : pipe[Len(eng) + j] = msgs[j] /\ Len(eng) + j \in 1..Len(pipe)
           /\ \A i \in 1..Len(pipe) : \/ i \in 1..Len(eng)
                                      \/ /\ i > Len(eng) /\ i - Len(eng) \in 1..Len(msgs)
                                         /\ pipe[i] = msgs[i - Len(eng)]
           /\ hist.requests \in Nat /\ hist.ids \in Nat
<1>1. eng \in Seq(Message) /\ msgs \in Seq(Message)
  BY DEF Typed, Message
<1>2. base.queue \in Seq(Request) /\ base.session \in Nat /\ gen \in Nat
      /\ hist.requests \in Nat /\ hist.ids \in Nat /\ base \in [session : Nat, queue : Seq(Request)]
  BY HistoryParts, BoundsAssumption DEF Typed
<1> QED
  BY <1>1, <1>2, ConcatParts DEF pipe

LEMMA Untouched ==
    ASSUME Typed, AnswerInv, hist'.requests = hist.requests,
           UNCHANGED <<fw, gen, todo, base, popped, msgs, eng, registered, sessions, running>>
    PROVE  AnswerInv'
<1>1. Numbered' = Numbered
  BY DEF Numbered
<1>2. Live' = Live /\ pipe' = pipe /\ key' = key
  BY DEF Live, pipe, key
<1>3. Aligned' = Aligned /\ Announced' = Announced
  BY <1>2 DEF Aligned, Announced
<1>4. \A op : Popped(op)' = Popped(op) /\ Queued(op)' = Queued(op)
  BY DEF Popped, Queued
<1>5. Stopped' = Stopped
  BY DEF Stopped, Popped
<1>6. Known' = Known /\ Right' = Right /\ Open' = Open /\ Runs' = Runs
  BY <1>2, <1>4, <1>5 DEF Known, Right, Open, Runs
<1> QED
  BY <1>1, <1>2, <1>3, <1>6 DEF AnswerInv, Answering

\* A call of the framework: a request in the queue and a message to the adapter.
LEMMA PushNumbered ==
    ASSUME Typed, Numbered, NEW op \in Ops, NEW s \in Nat, NEW n \in Nat \ {0}, push(op, s, n),
           UNCHANGED <<gen, popped, eng, running>>
    PROVE  Numbered'
<1> DEFINE m == [op |-> op, key |-> <<gen, s>>, n |-> n]
<1>1. msgs \in Seq(Message) /\ msgs' = Append(msgs, m) /\ m.n # 0
  BY DEF Typed, push
<1> HIDE DEF m
<1>2. \A i \in 1..Len(msgs') : (i \in 1..Len(msgs) /\ msgs'[i] = msgs[i]) \/ msgs'[i] = m
  BY <1>1
<1>3. \A i \in 1..Len(msgs') : msgs'[i].op \in Ops => msgs'[i].n # 0
  BY <1>1, <1>2 DEF Numbered
<1> QED
  BY <1>3 DEF Numbered

\* A new message comes after the registration.
LEMMA AnnouncedAppend ==
    ASSUME Announced, msgs \in Seq(Message), NEW m \in Message, msgs' = Append(msgs, m),
           UNCHANGED <<gen, eng, registered>>
    PROVE  Announced'
<1>1. CASE gen \in registered
  BY <1>1 DEF Announced
<1>2. CASE gen \notin registered
  <2>1. PICK i \in 1..Len(msgs) :
           /\ msgs[i].op = "add" /\ msgs[i].key[1] = gen
           /\ \A j \in 1..Len(msgs) : Current(msgs[j], gen) => i < j
    BY <1>2 DEF Announced
  <2>2. \A j \in 1..Len(eng) : ~Current(eng[j], gen)
    BY <1>2 DEF Announced
  <2>3. \A j \in 1..Len(msgs') : (j \in 1..Len(msgs) /\ msgs'[j] = msgs[j]) \/ i < j
    OBVIOUS
  <2>4. i \in 1..Len(msgs') /\ msgs'[i] = msgs[i]
    OBVIOUS
  <2>5. \A j \in 1..Len(msgs') : Current(msgs'[j], gen) => i < j
    BY <2>1, <2>3
  <2> QED
    BY <2>1, <2>2, <2>4, <2>5 DEF Announced
<1> QED
  BY <1>1, <1>2

LEMMA PushAnswering ==
    ASSUME Typed, Aligned, Announced, Known, Right, Runs, gen # 0,
           NEW op \in Ops, NEW s \in Nat \ {0}, push(op, s, hist.requests + 1),
           hist'.requests = hist.requests + 1,
           op = "start" <=> base.session = 0, base.session # 0 => s = base.session,
           ~Queued("stop"), ~Popped("stop"),
           UNCHANGED <<gen, popped, eng, registered, sessions, running>>
    PROVE  /\ Aligned' /\ Announced' /\ Known' /\ Right' /\ Runs'
           /\ base'.session = s /\ (op # "stop" => ~Queued("stop")') /\ ~Popped("stop")'
<1> DEFINE n == hist.requests + 1
           m == [op |-> op, key |-> <<gen, s>>, n |-> n]
           r == [op |-> op, n |-> n]
<1>1. PICK low \in Nat : /\ hist.requests = low + Len(base.queue)
                         /\ Matches(pipe, base.queue, gen, base.session, low)
  BY DEF Aligned
<1>2. /\ eng \in Seq(Message) /\ msgs \in Seq(Message) /\ pipe \in Seq(Message)
      /\ base.queue \in Seq(Request) /\ base.session \in Nat /\ gen \in Nat
      /\ hist.requests \in Nat /\ n \in Nat
  BY PipeParts
<1>3. /\ base' = [session |-> s, queue |-> Append(base.queue, r)]
      /\ msgs' = Append(msgs, m)
  BY DEF push
<1>4. /\ m \in Message /\ r \in Request /\ m.op = op /\ m.key = <<gen, s>> /\ m.n = n /\ r.op = op
      /\ m.key[1] = gen
  BY <1>2 DEF Message, EngCall, Request, Keys
<1>5. n = low + Len(base.queue) + 1
  BY <1>1
<1>6. op = "start" => base.queue = <<>>
  BY <1>1, <1>2, MatchesFacts
<1>7. \A j \in 1..Len(base.queue) : base.queue[j].op # "stop"
  BY DEF Queued
<1>8. s = base.session \/ base.queue = <<>>
  BY <1>6
<1>9. Matches(Append(pipe, m), Append(base.queue, r), gen, s, low)
  BY <1>1, <1>2, <1>5, <1>6, <1>7, <1>8, MatchesPush
<1>10. pipe' = Append(pipe, m)
  BY SMTT(30), <1>2, <1>3, <1>4, Moves DEF pipe
<1> HIDE DEF m, r, n
<1>11. base'.session = s /\ base'.queue = Append(base.queue, r) /\ Len(base'.queue) = Len(base.queue) + 1
       /\ Len(base.queue) \in Nat
  BY <1>2, <1>3
<1>12. Aligned'
  <2>1. hist'.requests = low + Len(base'.queue)
    BY <1>1, <1>11
  <2> QED
    BY <1>9, <1>10, <1>11, <2>1 DEF Aligned
<1>13. /\ Len(msgs) \in Nat /\ Len(msgs') = Len(msgs) + 1 /\ msgs'[Len(msgs) + 1] = m
       /\ Len(msgs) + 1 \in 1..Len(msgs')
       /\ \A i \in 1..Len(msgs) : msgs'[i] = msgs[i] /\ i \in 1..Len(msgs') /\ i < Len(msgs) + 1
       /\ \A i \in 1..Len(msgs') : i \in 1..Len(msgs) \/ i = Len(msgs) + 1
  BY <1>2, <1>3
<1>14. Announced'
  BY <1>2, <1>3, <1>4, AnnouncedAppend
<1>15. Stopped' = Stopped /\ ~Stopped /\ ~Popped("stop")'
  BY DEF Stopped, Popped
<1>16. Known'
  <2>1. CASE base.session = 0
    <3>1. m.op = "start" /\ m.key = key'
      BY <1>4, <1>11, <2>1 DEF key
    <3> QED
      BY <1>13, <3>1 DEF Known
  <2>2. CASE base.session # 0
    <3>1. key' = key
      BY <1>11, <2>2 DEF key
    <3>2. \/ key \in sessions
          \/ \E i \in 1..Len(msgs) : msgs[i].op = "start" /\ msgs[i].key = key
          \/ \E i \in 1..Len(eng) : eng[i].op = "stop" /\ eng[i].key = key
      BY <1>15, <2>2 DEF Known
    <3> QED
      BY <1>13, <3>1, <3>2 DEF Known
  <2> QED
    BY <2>1, <2>2
<1>17. Right'
  <2> SUFFICES ASSUME popped # None, popped.key[1] = gen
               PROVE  /\ base'.session # 0 /\ popped.key = key' /\ popped.req.n = popped.n
                      /\ popped.req.op = "stop" => base'.queue = <<>>
                      /\ popped.req.op = "start" => popped.ok
    BY DEF Right
  <2>1. base.session # 0 /\ key' = key
    BY <1>11 DEF Right, key
  <2> QED
    BY <1>11, <2>1 DEF Right, Popped
<1>18. /\ (op # "stop" => ~Queued("stop")')
       /\ Queued("start")' <=> Queued("start") \/ op = "start"
  <2> DEFINE v == base'.queue
             q == base.queue
  <2> HIDE DEF v, q
  <2>1. /\ Len(q) \in Nat /\ Len(v) = Len(q) + 1 /\ v[Len(q) + 1].op = op
        /\ Len(q) + 1 \in 1..Len(v)
        /\ \A j \in 1..Len(q) : v[j] = q[j] /\ j \in 1..Len(v)
        /\ \A j \in 1..Len(v) : j \in 1..Len(q) \/ j = Len(q) + 1
    <3>1. q \in Seq(Request) /\ r \in Request /\ r.op = op /\ v = Append(q, r)
      BY <1>2, <1>4, <1>11 DEF v, q
    <3> QED
      BY <3>1
  <2>2. \A o : /\ Queued(o) <=> \E j \in 1..Len(q) : q[j].op = o
               /\ Queued(o)' <=> \E j \in 1..Len(v) : v[j].op = o
    BY DEF Queued, v, q
  <2>3. \A o : Queued(o)' <=> Queued(o) \/ op = o
    BY <2>1, <2>2
  <2> QED
    BY <2>3
<1>19. Runs'
  <2>1. CASE base.session = 0
    <3>1. \A k \in running : k[1] # gen
      BY <2>1 DEF Runs
    <3>2. Queued("start")' /\ key' \notin running
      BY <1>18, <2>1, <3>1 DEF key
    <3> QED
      BY <1>15, <3>1, <3>2 DEF Runs
  <2>2. CASE base.session # 0
    <3>1. key' = key /\ (Queued("start")' <=> Queued("start"))
      BY <1>11, <1>18, <2>2 DEF key
    <3> QED
      BY <1>11, <1>15, <2>2, <3>1 DEF Runs
  <2> QED
    BY <2>1, <2>2
<1> QED
  BY <1>11, <1>12, <1>14, <1>15, <1>16, <1>17, <1>18, <1>19

-----------------------------------------------------------------------------
(* The framework's calls.                                                    *)

\* The messages by which a client replaces another.
LEMMA InitMessages ==
    ASSUME Typed, Removals, init
    PROVE  /\ msgs \in Seq(Message) /\ msgs' \in Seq(Message) /\ Len(msgs') \in Nat \ {0}
           /\ msgs'[Len(msgs')].op = "add" /\ msgs'[Len(msgs')].key[1] = gen'
           /\ \A i \in 1..Len(msgs) : i \in 1..Len(msgs') /\ msgs'[i] = msgs[i]
           /\ \A i \in 1..Len(msgs') : \/ i \in 1..Len(msgs) /\ msgs'[i] = msgs[i]
                                       \/ msgs'[i].op \notin Ops /\ msgs'[i].n = 0
           /\ gen # 0 => \E i \in 1..Len(msgs') : IsRemove(msgs'[i], "batching") /\ msgs'[i].key[1] = gen
<1> DEFINE add == [op |-> "add", key |-> <<gen + 1, 0>>, n |-> 0]
           gone(a) == [op |-> "remove", key |-> <<gen, 0>>, n |-> 0, adapter |-> a]
<1>1. gen \in Nat /\ gen' = gen + 1 /\ msgs \in Seq(Message)
  BY PipeParts DEF init
<1>2. add.op = "add" /\ add.key[1] = gen' /\ add.n = 0 /\ add \in Message
  BY <1>1 DEF Message, Added, Keys
<1>3. CASE gen = 0
  <2>1. msgs' = <<add>>
    BY <1>3 DEF init
  <2>2. 1..Len(msgs) = {}
    <3>1. 1..gen = {}
      BY <1>3
    <3>2. \A i \in 1..Len(msgs) : msgs[i].key[1] \in 1..gen
      BY DEF Removals
    <3> QED
      BY <3>1, <3>2
  <2> HIDE DEF add
  <2>3. msgs' \in Seq(Message) /\ Len(msgs') = 1 /\ msgs'[1] = add
    BY <1>2, <2>1
  <2> QED
    BY <1>1, <1>2, <1>3, <2>2, <2>3 DEF Ops
<1>4. CASE gen # 0
  <2>1. msgs' = msgs \o <<gone("gnss"), gone("batching"), add>>
    BY <1>4 DEF init
  <2>2. /\ \A a : gone(a).op = "remove" /\ gone(a).n = 0 /\ gone(a).adapter = a /\ gone(a).key[1] = gen
        /\ \A a \in Adapters : gone(a) \in Message
    BY <1>1 DEF Message, Removed, Keys
  <2>3. gone("gnss") \in Message /\ gone("batching") \in Message
    BY <2>2 DEF Adapters
  <2> DEFINE g == gone("gnss")
             b == gone("batching")
             new == <<g, b, add>>
  <2>b. IsRemove(b, "batching") /\ b.key[1] = gen
    BY <2>2 DEF IsRemove
  <2> HIDE DEF add, gone, g, b
  <2>4. new \in Seq(Message) /\ Len(new) = 3 /\ new[1] = g /\ new[2] = b /\ new[3] = add
    BY <1>2, <2>3 DEF g, b
  <2> HIDE DEF new
  <2>5. msgs' = msgs \o new
    BY <2>1 DEF new, g, b
  <2>6. /\ msgs' \in Seq(Message) /\ Len(msgs) \in Nat /\ Len(msgs') = Len(msgs) + 3
        /\ \A i \in 1..Len(msgs) : msgs'[i] = msgs[i] /\ i \in 1..Len(msgs')
        /\ \A j \in 1..3 : msgs'[Len(msgs) + j] = new[j] /\ Len(msgs) + j \in 1..Len(msgs')
        /\ \A i \in 1..Len(msgs') : i \in 1..Len(msgs) \/ (i - Len(msgs) \in 1..3
                                                          /\ msgs'[i] = new[i - Len(msgs)])
    <3>1. /\ msgs \o new \in Seq(Message) /\ Len(msgs) \in Nat /\ Len(msgs \o new) = Len(msgs) + Len(new)
          /\ \A i \in 1..Len(msgs) : (msgs \o new)[i] = msgs[i] /\ i \in 1..Len(msgs \o new)
          /\ \A j \in 1..Len(new) : /\ (msgs \o new)[Len(msgs) + j] = new[j]
                                    /\ Len(msgs) + j \in 1..Len(msgs \o new)
          /\ \A i \in 1..Len(msgs \o new) :
                \/ i \in 1..Len(msgs)
                \/ /\ i > Len(msgs) /\ i - Len(msgs) \in 1..Len(new)
                   /\ (msgs \o new)[i] = new[i - Len(msgs)]
      BY <1>1, <2>4, ConcatParts
    <3> QED
      BY <2>4, <2>5, <3>1
  <2>7. /\ msgs'[Len(msgs')] = add
        /\ \E i \in 1..Len(msgs') : msgs'[i] = b
    <3>1. 3 \in 1..3 /\ 2 \in 1..3
      OBVIOUS
    <3> QED
      BY <2>4, <2>6, <3>1
  <2>8. \A j \in 1..3 : new[j].op \notin Ops /\ new[j].n = 0
    <3>1. \A j \in 1..3 : j = 1 \/ j = 2 \/ j = 3
      OBVIOUS
    <3> QED
      BY <1>2, <2>2, <2>4, <3>1 DEF Ops, g, b
  <2>9. Len(msgs') \in Nat \ {0} /\ msgs'[Len(msgs')].op = "add" /\ msgs'[Len(msgs')].key[1] = gen'
    BY <1>2, <2>6, <2>7
  <2>10. \A i \in 1..Len(msgs') : \/ i \in 1..Len(msgs) /\ msgs'[i] = msgs[i]
                                  \/ msgs'[i].op \notin Ops /\ msgs'[i].n = 0
    <3>1. \A i \in 1..Len(msgs') : i \in 1..Len(msgs) \/ (msgs'[i].op \notin Ops /\ msgs'[i].n = 0)
      BY <2>6, <2>8
    <3> QED
      BY <2>6, <3>1
  <2>11. \E i \in 1..Len(msgs') : IsRemove(msgs'[i], "batching") /\ msgs'[i].key[1] = gen
    BY <2>b, <2>7
  <2>12. /\ msgs' \in Seq(Message)
         /\ \A i \in 1..Len(msgs) : i \in 1..Len(msgs') /\ msgs'[i] = msgs[i]
    BY <2>6
  <2> QED
    BY <1>1, <2>9, <2>10, <2>11, <2>12
<1> QED
  BY <1>3, <1>4

LEMMA AnswerInit ==
    ASSUME Typed, AnswerInv, Removals, init
    PROVE  AnswerInv'
<1>1. /\ gen \in Nat /\ gen' = gen + 1 /\ fw' = "idle" /\ todo' = todo
      /\ base' = [session |-> 0, queue |-> <<>>]
      /\ UNCHANGED <<popped, registered, sessions, eng, running>>
      /\ eng \in Seq(Message) /\ msgs \in Seq(Message) /\ hist.requests \in Nat
  BY PipeParts DEF init, adapterVars, engineVars
<1>2. hist'.requests = hist.requests
  <2>1. hist' = [hist EXCEPT !.calls = @ + 1, !.given = <<>>, !.reported = <<>>, !.owed = FALSE]
    BY DEF init
  <2> QED
    BY <2>1 DEF Typed, History
<1>3. todo = <<>>
  BY DEF init, MayCall
<1>4. /\ msgs' \in Seq(Message) /\ Len(msgs') \in Nat \ {0}
      /\ msgs'[Len(msgs')].op = "add" /\ msgs'[Len(msgs')].key[1] = gen'
      /\ \A i \in 1..Len(msgs') : \/ i \in 1..Len(msgs) /\ msgs'[i] = msgs[i]
                                  \/ msgs'[i].op \notin Ops /\ msgs'[i].n = 0
  BY InitMessages
<1>5. ASSUME NEW i \in 1..Len(msgs') PROVE ~Current(msgs'[i], gen')
  <2>1. CASE i \in 1..Len(msgs) /\ msgs'[i] = msgs[i]
    <3>1. msgs[i].key[1] \in 1..gen
      BY <2>1 DEF Removals
    <3> QED
      BY <1>1, <2>1, <3>1 DEF Current
  <2>2. CASE msgs'[i].n = 0
    BY <2>2 DEF Current
  <2> QED
    BY <1>4, <2>1, <2>2
<1>6. ASSUME NEW i \in 1..Len(eng') PROVE ~Current(eng'[i], gen')
  <2>1. eng[i].key[1] \in 1..gen
    BY <1>1, <1>6 DEF AnswerInv, Numbered
  <2> QED
    BY <1>1, <2>1 DEF Current
<1>7. Numbered'
  <2>1. \A i \in 1..Len(msgs') : msgs'[i].op \in Ops => msgs'[i].n # 0
    BY <1>4 DEF AnswerInv, Numbered
  <2>2. \A x \in 1..gen : x \in 1..gen' /\ x < gen'
    BY <1>1
  <2>3. \A i \in 1..Len(eng) : eng[i].key[1] \in 1..gen' /\ eng[i].key[1] < gen'
    BY <2>2 DEF AnswerInv, Numbered
  <2>4. /\ \A k \in running : k[1] \in 1..gen'
        /\ popped # None => popped.key[1] \in 1..gen'
    BY <2>2 DEF AnswerInv, Numbered
  <2> QED
    BY <1>1, <2>1, <2>3, <2>4 DEF Numbered
<1>8. base'.session = 0 /\ base'.queue = <<>> /\ Len(base'.queue) = 0
  BY <1>1
<1>9. Aligned'
  <2>1. \A i \in 1..Len(pipe') : ~Current(pipe'[i], gen')
    <3>1. eng' \in Seq(Message) /\ msgs' \in Seq(Message) /\ pipe' = eng' \o msgs'
      BY <1>1, <1>4 DEF pipe
    <3>2. \A i \in 1..Len(pipe') : \/ i \in 1..Len(eng') /\ pipe'[i] = eng'[i]
                                   \/ i - Len(eng') \in 1..Len(msgs') /\ pipe'[i] = msgs'[i - Len(eng')]
      BY <3>1, ConcatParts
    <3> QED
      BY <1>5, <1>6, <3>2
  <2>2. 1..Len(base'.queue) = {}
    BY <1>8
  <2>3. Matches(pipe', base'.queue, gen', base'.session, hist'.requests)
    BY <2>1, <2>2 DEF Matches
  <2>4. hist'.requests \in Nat /\ hist'.requests = hist'.requests + Len(base'.queue)
    BY <1>1, <1>2, <1>8
  <2> QED
    BY <2>3, <2>4 DEF Aligned
<1>10. Announced'
  <2>1. Len(msgs') \in 1..Len(msgs')
    BY <1>4
  <2> QED
    BY <1>4, <1>5, <1>6, <2>1 DEF Announced
<1>11. ~(popped' # None /\ popped'.key[1] = gen')
  <2>1. popped # None => popped.key[1] \in 1..gen
    BY DEF AnswerInv, Numbered
  <2> QED
    BY <1>1, <2>1
<1>12. Known' /\ Right' /\ Runs' /\ Open'
  <2>1. Known' /\ Right'
    BY <1>8, <1>11 DEF Known, Right
  <2>2. \A k \in running' : k[1] # gen'
    <3>1. \A k \in running : k[1] \in 1..gen
      BY DEF AnswerInv, Numbered
    <3> QED
      BY <1>1, <3>1
  <2>3. ~Queued("start")' /\ ~Stopped'
    <3>1. 1..Len(base'.queue) = {}
      BY <1>8
    <3> QED
      BY <1>11, <3>1 DEF Queued, Stopped, Popped
  <2>4. Runs'
    BY <1>8, <2>2, <2>3 DEF Runs
  <2>5. Open'
    BY <1>1, <1>3 DEF Open
  <2> QED
    BY <2>1, <2>4, <2>5
<1> QED
  BY <1>7, <1>9, <1>10, <1>12 DEF AnswerInv, Answering

LEMMA AnswerStart ==
    ASSUME Typed, AnswerInv, Calm, start
    PROVE  AnswerInv'
<1>1. /\ fw = "idle" /\ todo = <<>> /\ Live /\ fw' = "started"
      /\ UNCHANGED <<gen, todo, popped, eng, registered, sessions, running>>
  BY DEF start, MayCall, Live, adapterVars, engineVars
<1>2. gen # 0 /\ hist \in History /\ hist.ids \in Nat /\ hist.requests \in Nat
  BY <1>1, PipeParts DEF Typed
<1>3. CASE base.session # 0
  <2>1. hist'.requests = hist.requests
    BY <1>2, <1>3 DEF start, History
  <2>2. UNCHANGED <<base, msgs>>
    BY <1>3 DEF start
  <2>3. ~Queued("stop") /\ ~Popped("stop")
    BY DEF start, StopPending, Queued, Popped
  <2>4. Numbered /\ Answering
    BY <1>1 DEF AnswerInv
  <2>5. pipe' = pipe /\ key' = key
    BY <1>1, <2>2 DEF pipe, key
  <2>6. \A op : Popped(op)' = Popped(op) /\ Queued(op)' = Queued(op)
    BY <1>1, <2>2 DEF Popped, Queued
  <2>7. Stopped' = Stopped
    BY <1>1 DEF Stopped, Popped
  <2>8. Aligned' /\ Announced' /\ Known' /\ Right' /\ Runs'
    BY <1>1, <2>1, <2>2, <2>4, <2>5, <2>6, <2>7
       DEF Answering, Aligned, Announced, Known, Right, Runs
  <2>9. Open'
    BY <1>1, <1>3, <2>2, <2>3, <2>6 DEF Open
  <2>10. Numbered'
    BY <1>1, <2>2, <2>4 DEF Numbered
  <2> QED
    BY <2>8, <2>9, <2>10 DEF AnswerInv, Answering
<1>4. CASE base.session = 0
  <2> DEFINE s == hist.ids + 1
  <2>1. /\ push("start", s, hist.requests + 1) /\ fw' = "started" /\ s \in Nat \ {0}
        /\ hist' = [hist EXCEPT !.ids = s, !.requests = @ + 1, !.calls = @ + 1]
    BY <1>2, <1>4 DEF start, locAPIStartSession
  <2>2. hist'.requests = hist.requests + 1
    BY <1>2, <2>1 DEF History
  <2> HIDE DEF s
  <2>3. Aligned /\ Announced /\ Known /\ Right /\ Runs
    BY <1>1 DEF AnswerInv, Answering
  <2>4. ~Queued("stop") /\ ~Popped("stop")
    <3>1. PICK low \in Nat : Matches(pipe, base.queue, gen, base.session, low)
      BY <2>3 DEF Aligned
    <3>2. base.queue = <<>>
      BY <1>4, <3>1, PipeParts, MatchesFacts
    <3>3. 1..Len(base.queue) = {}
      BY <3>2
    <3> QED
      BY <1>4, <2>3, <3>3 DEF Queued, Popped, Right
  <2>5. "start" \in Ops /\ "start" # "stop" /\ hist.requests + 1 \in Nat \ {0} /\ s \in Nat
    BY <1>2, <2>1 DEF Ops
  <2>6. /\ Aligned' /\ Announced' /\ Known' /\ Right' /\ Runs'
        /\ base'.session = s /\ ~Queued("stop")' /\ ~Popped("stop")'
    BY <1>1, <1>2, <1>4, <2>1, <2>2, <2>3, <2>4, <2>5, PushAnswering
  <2>7. Numbered'
    BY <1>1, <2>1, <2>5, PushNumbered DEF AnswerInv
  <2>8. Open'
    BY <1>1, <2>1, <2>6 DEF Open
  <2> QED
    BY <2>6, <2>7, <2>8 DEF AnswerInv, Answering
<1> QED
  BY <1>3, <1>4

LEMMA AnswerFlush ==
    ASSUME Typed, AnswerInv, Calm, flush
    PROVE  AnswerInv'
<1>1. /\ Live /\ todo = <<>> /\ (fw = "idle" => Settled)
      /\ UNCHANGED <<fw, gen, todo, popped, eng, registered, sessions, running>>
  BY DEF flush, MayCall, Live, adapterVars, engineVars, Still
<1>2. gen # 0 /\ hist \in History /\ hist.requests \in Nat
  BY <1>1, PipeParts DEF Typed, Live
<1>3. CASE base.session = 0
  <2>1. hist'.requests = hist.requests
    <3>1. PICK x, y : hist' = [hist EXCEPT !.calls = x, !.owed = y, !.requests = hist.requests]
      BY <1>3 DEF flush
    <3> QED
      BY <1>2, <3>1 DEF History
  <2>2. UNCHANGED <<base, msgs>>
    BY <1>3 DEF flush
  <2> QED
    BY <1>1, <2>1, <2>2, Untouched
<1>4. CASE base.session # 0
  <2>1. push("get", base.session, hist.requests + 1) /\ base.session \in Nat \ {0}
    BY <1>4, PipeParts DEF flush
  <2>2. hist'.requests = hist.requests + 1
    <3>1. PICK x, y : hist' = [hist EXCEPT !.calls = x, !.owed = y, !.requests = hist.requests + 1]
      BY <1>4 DEF flush
    <3> QED
      BY <1>2, <3>1 DEF History
  <2>3. Aligned /\ Announced /\ Known /\ Right /\ Runs /\ Open
    BY <1>1 DEF AnswerInv, Answering
  <2>4. ~Queued("stop") /\ ~Popped("stop")
    <3>1. CASE fw = "started"
      BY <2>3, <3>1 DEF Open
    <3>2. CASE Settled
      <4>1. PICK low \in Nat : Matches(pipe, base.queue, gen, base.session, low)
        BY <2>3 DEF Aligned
      <4>2. 1..Len(pipe) = {}
        BY <3>2, PipeParts DEF Settled
      <4>3. base.queue = <<>>
        <5>1. base.queue # <<>> => \E i \in 1..Len(pipe) : Current(pipe[i], gen)
          <6>1. pipe \in Seq(Message) /\ base.queue \in Seq(Request)
            BY PipeParts
          <6> QED
            BY <4>1, <6>1, MatchesFacts
        <5> QED
          BY <4>2, <5>1
      <4>4. 1..Len(base.queue) = {}
        BY <4>3
      <4> QED
        BY <3>2, <4>4 DEF Queued, Popped, Settled
    <3> QED
      BY <1>1, <3>1, <3>2 DEF Live
  <2>5. "get" \in Ops /\ "get" # "stop" /\ "get" # "start" /\ hist.requests + 1 \in Nat \ {0}
    BY <1>2 DEF Ops
  <2>6. /\ Aligned' /\ Announced' /\ Known' /\ Right' /\ Runs'
        /\ base'.session = base.session /\ ~Queued("stop")' /\ ~Popped("stop")'
    BY <1>1, <1>2, <1>4, <2>1, <2>2, <2>3, <2>4, <2>5, PushAnswering
  <2>7. Numbered'
    BY <1>1, <2>1, <2>5, PushNumbered DEF AnswerInv
  <2>8. Open'
    BY <1>1, <1>4, <2>3, <2>6 DEF Open
  <2> QED
    BY <2>6, <2>7, <2>8 DEF AnswerInv, Answering
<1> QED
  BY <1>3, <1>4

LEMMA AnswerLeave ==
    ASSUME Typed, AnswerInv, stop \/ cleanup \/ serviceDied
    PROVE  AnswerInv'
<1>1. /\ UNCHANGED <<gen, base, popped, msgs, eng, registered, sessions, running>>
      /\ \/ fw = "started" /\ fw' = "idle" /\ todo' = <<"get", "stop">>
         \/ fw' = "cleaned"
  BY DEF stop, cleanup, serviceDied, Leave, stopSession, clientVars, adapterVars, engineVars
<1>2. hist'.requests = hist.requests
  BY DEF stop, cleanup, serviceDied, Leave, Typed, History
<1>3. Numbered'
  BY <1>1 DEF AnswerInv, Numbered
<1>4. ASSUME Live' PROVE Answering'
  <2>1. fw = "started" /\ todo' = <<"get", "stop">> /\ fw' = "idle" /\ Live
    BY <1>1, <1>4 DEF Live
  <2>2. Answering
    BY <2>1 DEF AnswerInv
  <2>3. pipe' = pipe /\ key' = key
    BY <1>1 DEF pipe, key
  <2>4. \A op : Popped(op)' = Popped(op) /\ Queued(op)' = Queued(op)
    BY <1>1 DEF Popped, Queued
  <2>5. Stopped' = Stopped
    BY <1>1 DEF Stopped, Popped
  <2>6. Aligned' /\ Announced' /\ Known' /\ Right' /\ Runs'
    BY <1>1, <1>2, <2>2, <2>3, <2>4, <2>5 DEF Answering, Aligned, Announced, Known, Right, Runs
  <2>7. Open'
    BY <1>1, <2>1, <2>2, <2>4 DEF Answering, Open
  <2> QED
    BY <2>6, <2>7 DEF Answering
<1> QED
  BY <1>3, <1>4 DEF AnswerInv

LEMMA AnswerSession ==
    ASSUME Typed, AnswerInv, SessionStep
    PROVE  AnswerInv'
<1> DEFINE op == Head(todo)
<1>1. /\ todo # <<>> /\ todo' = Tail(todo) /\ todo \in Seq({"get", "stop"}) /\ request(op)
      /\ UNCHANGED <<fw, gen, popped, eng, registered, sessions, running>>
  BY DEF SessionStep, Typed, adapterVars, engineVars
<1>2. op \in {"get", "stop"}
  BY <1>1
<1>3. gen # 0 /\ hist \in History /\ hist.requests \in Nat /\ base.session \in Nat
  BY <1>1, PipeParts DEF Typed
<1>p. PICK o : o = op
  OBVIOUS
<1> HIDE DEF op
<1>4. ASSUME Live PROVE (o = "get" /\ todo' = <<"stop">>) \/ (o = "stop" /\ todo' = <<>>)
  <2>1. todo = <<"get", "stop">> \/ todo = <<"stop">>
    BY <1>1, <1>4 DEF AnswerInv, Answering, Open
  <2>2. Head(<<"get", "stop">>) = "get" /\ Tail(<<"get", "stop">>) = <<"stop">>
        /\ Head(<<"stop">>) = "stop" /\ Tail(<<"stop">>) = <<>>
    OBVIOUS
  <2> QED
    BY <1>1, <1>p, <2>1, <2>2, Zenon DEF op
<1>5. CASE base.session = 0
  <2>1. UNCHANGED <<base, msgs, hist>>
    BY <1>1, <1>5 DEF request
  <2>2. ~Live
    BY <1>1, <1>5 DEF AnswerInv, Answering, Open
  <2> QED
    BY <1>1, <2>1, <2>2 DEF AnswerInv, Numbered, Live
<1>6. CASE base.session # 0
  <2>1. push(o, base.session, hist.requests + 1) /\ hist' = [hist EXCEPT !.requests = @ + 1]
    BY <1>1, <1>p, <1>6 DEF request
  <2>2. hist'.requests = hist.requests + 1
    BY <1>3, <2>1 DEF History
  <2>3. o \in Ops /\ o # "start" /\ hist.requests + 1 \in Nat \ {0} /\ base.session \in Nat \ {0}
    BY <1>2, <1>3, <1>p, <1>6 DEF Ops
  <2>4. Numbered'
    BY <1>1, <1>3, <2>1, <2>3, PushNumbered DEF AnswerInv
  <2>5. ASSUME Live' PROVE Answering'
    <3>1. Live /\ Answering
      BY <1>1, <2>5 DEF Live, AnswerInv
    <3>2. ~Queued("stop") /\ ~Popped("stop")
      BY <1>1, <3>1 DEF Answering, Open
    <3>3. /\ Aligned' /\ Announced' /\ Known' /\ Right' /\ Runs'
          /\ base'.session = base.session /\ (o # "stop" => ~Queued("stop")') /\ ~Popped("stop")'
      BY <1>1, <1>3, <1>6, <2>1, <2>2, <2>3, <3>1, <3>2, PushAnswering DEF Answering
    <3>4. Open'
      <4>1. fw' # "started"
        BY <1>1, <3>1 DEF Answering, Open
      <4>2. (o = "get" /\ todo' = <<"stop">>) \/ (o = "stop" /\ todo' = <<>>)
        BY <1>4, <3>1
      <4> QED
        BY <1>6, <3>3, <4>1, <4>2 DEF Open
    <3> QED
      BY <3>3, <3>4 DEF Answering
  <2> QED
    BY <2>4, <2>5 DEF AnswerInv
<1> QED
  BY <1>5, <1>6

-----------------------------------------------------------------------------
(* The answers.                                                              *)

LEMMA AnswerOnResponse ==
    ASSUME Typed, AnswerInv, OnResponse
    PROVE  AnswerInv'
<1>1. /\ popped # None /\ popped' = None
      /\ UNCHANGED <<fw, gen, todo, msgs, eng, registered, sessions, running, hist>>
      /\ base \in [session : Nat, queue : Seq(Request)]
  BY DEF OnResponse, adapterVars, engineVars, Typed
<1>2. Numbered'
  BY <1>1 DEF AnswerInv, Numbered
<1>3. ASSUME Live PROVE Answering'
  <2>1. Aligned /\ Announced /\ Known /\ Right /\ Open /\ Runs
    BY <1>3 DEF AnswerInv, Answering
  <2>2. Announced'
    BY <1>1, <2>1 DEF Announced
  <2>3. \A op : ~Popped(op)'
    BY <1>1 DEF Popped
  <2>4. ~Stopped' /\ Right'
    BY <1>1, <2>3 DEF Stopped, Right
  <2>5. pipe' = pipe
    BY <1>1 DEF pipe
  <2>6. PICK low \in Nat : /\ hist.requests = low + Len(base.queue)
                           /\ Matches(pipe, base.queue, gen, base.session, low)
    BY <2>1 DEF Aligned
  <2>7. CASE removesSession(popped.req, popped.ok) /\ popped.key = key
    <3>1. base'.session = 0 /\ base'.queue = base.queue
      BY <1>1, <2>7 DEF OnResponse, key
    <3>2. popped.key[1] = gen
      BY <2>7 DEF key
    <3>3. base.queue = <<>> /\ Stopped
      <4>1. popped.req.op = "stop" /\ popped.ok
        BY <1>1, <2>1, <2>7, <3>2 DEF removesSession, Right
      <4> QED
        BY <1>1, <2>1, <3>2, <4>1 DEF Right, Stopped, Popped
    <3>4. 1..Len(base.queue) = {} /\ Len(base.queue) = 0
      BY <3>3
    <3>5. Aligned'
      <4>1. \A i \in 1..Len(pipe) : ~Current(pipe[i], gen)
        BY <2>6, <3>3, PipeParts, MatchesFacts
      <4>2. Matches(pipe, base.queue, gen, 0, low)
        BY <3>4, <4>1 DEF Matches
      <4> QED
        BY <1>1, <2>5, <2>6, <3>1, <4>2 DEF Aligned
    <3>6. \A op : ~Queued(op)'
      BY <3>1, <3>4 DEF Queued
    <3>7. \A k \in running : k[1] # gen
      BY <2>1, <3>3 DEF Runs
    <3>8. Known' /\ Runs'
      BY <1>1, <2>4, <3>1, <3>6, <3>7 DEF Known, Runs
    <3>9. Open'
      BY <1>1, <2>1, <2>3, <3>3 DEF Open, Stopped
    <3> QED
      BY <2>2, <2>4, <3>5, <3>8, <3>9 DEF Answering
  <2>8. CASE ~(removesSession(popped.req, popped.ok) /\ popped.key = key)
    <3>1. base' = base
      BY <2>8 DEF OnResponse, key
    <3>2. ~Stopped
      BY <2>1, <2>8 DEF Stopped, Popped, Right, removesSession
    <3>3. key' = key /\ \A op : Queued(op)' = Queued(op)
      BY <1>1, <3>1 DEF key, Queued
    <3>4. Aligned'
      BY <1>1, <2>5, <2>6, <3>1 DEF Aligned
    <3>5. Known'
      BY <1>1, <2>1, <3>1, <3>2, <3>3 DEF Known
    <3>6. Runs'
      BY <1>1, <2>1, <2>4, <3>1, <3>2, <3>3 DEF Runs
    <3>7. Open'
      BY <1>1, <2>1, <2>3, <3>1, <3>3 DEF Open
    <3> QED
      BY <2>2, <2>4, <3>4, <3>5, <3>6, <3>7 DEF Answering
  <2> QED
    BY <2>7, <2>8
<1> QED
  BY <1>1, <1>2, <1>3 DEF AnswerInv, Live

\* The first message is handled: the registration is made or still to be handled.
LEMMA AnnouncedTail ==
    ASSUME Typed, Announced, msgs # <<>>, msgs' = Tail(msgs), gen' = gen,
           gen \in registered => gen \in registered',
           msgs[1].op = "add" /\ msgs[1].key[1] = gen => gen \in registered',
           \A j \in 1..Len(eng') : Current(eng'[j], gen) =>
               Current(msgs[1], gen) \/ \E i \in 1..Len(eng) : Current(eng[i], gen)
    PROVE  Announced'
<1>1. CASE gen \in registered'
  BY <1>1 DEF Announced
<1>2. CASE gen \notin registered'
  <2>1. PICK i \in 1..Len(msgs) :
           /\ msgs[i].op = "add" /\ msgs[i].key[1] = gen
           /\ \A j \in 1..Len(msgs) : Current(msgs[j], gen) => i < j
    BY <1>2 DEF Announced
  <2>2. \A j \in 1..Len(eng) : ~Current(eng[j], gen)
    BY <1>2 DEF Announced
  <2>3. i # 1
    BY <1>2, <2>1
  <2>4. /\ Len(msgs) \in Nat /\ 1 \in 1..Len(msgs) /\ ~(i < 1)
        /\ \A j \in 1..Len(msgs') : msgs'[j] = msgs[j + 1] /\ j + 1 \in 1..Len(msgs)
        /\ i - 1 \in 1..Len(msgs') /\ msgs'[i - 1] = msgs[i]
    BY <2>3 DEF Typed
  <2>5. ~Current(msgs[1], gen)
    BY <2>1, <2>4
  <2>6. \A j \in 1..Len(eng') : ~Current(eng'[j], gen)
    BY <2>2, <2>5
  <2>7. ASSUME NEW j \in 1..Len(msgs'), Current(msgs'[j], gen) PROVE i - 1 < j
    <3>1. i < j + 1
      BY <2>1, <2>4, <2>7
    <3> QED
      BY <2>4, <3>1
  <2>8. PICK k \in 1..Len(msgs') : k = i - 1
    BY <2>4
  <2>9. msgs'[k].op = "add" /\ msgs'[k].key[1] = gen
    BY <2>1, <2>4, <2>8
  <2>10. \A j \in 1..Len(msgs') : Current(msgs'[j], gen) => k < j
    BY <2>7, <2>8
  <2> QED
    BY <2>6, <2>9, <2>10 DEF Announced
<1> QED
  BY <1>1, <1>2

\* And so is the session.
LEMMA KnownTail ==
    ASSUME Typed, Known, popped = None, msgs # <<>>, msgs' = Tail(msgs),
           gen' = gen, base' = base,
           \A i \in 1..Len(eng) : \E j \in 1..Len(eng') : eng'[j] = eng[i],
           base.session # 0 /\ key \in sessions =>
               key \in sessions' \/ \E j \in 1..Len(eng') : eng'[j].op = "stop" /\ eng'[j].key = key,
           base.session # 0 /\ msgs[1].op = "start" /\ msgs[1].key = key => key \in sessions'
    PROVE  Known'
<1> SUFFICES ASSUME base.session # 0
             PROVE  \/ key \in sessions'
                    \/ \E i \in 1..Len(msgs') : msgs'[i].op = "start" /\ msgs'[i].key = key
                    \/ \E i \in 1..Len(eng') : eng'[i].op = "stop" /\ eng'[i].key = key
  BY DEF Known, key
<1>1. ~Stopped
  BY DEF Stopped, Popped
<1>2. CASE key \in sessions
  BY <1>2
<1>3. CASE \E i \in 1..Len(msgs) : msgs[i].op = "start" /\ msgs[i].key = key
  <2>1. PICK i \in 1..Len(msgs) : msgs[i].op = "start" /\ msgs[i].key = key
    BY <1>3
  <2>2. CASE i = 1
    BY <2>1, <2>2
  <2>3. CASE i # 1
    <3>1. i - 1 \in 1..Len(msgs') /\ msgs'[i - 1] = msgs[i]
      BY <2>3 DEF Typed
    <3> QED
      BY <2>1, <3>1
  <2> QED
    BY <2>2, <2>3
<1>4. CASE \E i \in 1..Len(eng) : eng[i].op = "stop" /\ eng[i].key = key
  BY <1>4
<1> QED
  BY <1>1, <1>2, <1>3, <1>4 DEF Known

\* What does not depend on the queues.
LEMMA Quiet ==
    ASSUME Right, Open, Runs, UNCHANGED <<fw, gen, todo, base, popped, running>>
    PROVE  Right' /\ Open' /\ Runs'
<1>1. key' = key /\ \A op : Popped(op)' = Popped(op) /\ Queued(op)' = Queued(op)
  BY DEF key, Popped, Queued
<1>2. Stopped' = Stopped
  BY DEF Stopped, Popped
<1> QED
  BY <1>1, <1>2 DEF Right, Open, Runs

\* A call of the framework that reaches the adapter is one that the adapter expects.
LEMMA CallIsKnown ==
    ASSUME Typed, AnswerInv, Live, popped = None, msgs # <<>>,
           msgs[1].op \in {"get", "stop"}, Current(msgs[1], gen)
    PROVE  msgs[1].key \in sessions
<1>1. Aligned /\ Known
  BY DEF AnswerInv, Answering
<1>2. PICK low \in Nat : Matches(pipe, base.queue, gen, base.session, low)
  BY <1>1 DEF Aligned
<1>3. /\ Len(eng) \in Nat /\ Len(msgs) \in Nat /\ 1 \in 1..Len(msgs)
      /\ \A i \in 1..Len(eng) : pipe[i] = eng[i] /\ i \in 1..Len(pipe)
      /\ \A j \in 1..Len(msgs) : pipe[Len(eng) + j] = msgs[j] /\ Len(eng) + j \in 1..Len(pipe)
      /\ pipe \in Seq(Message) /\ base.queue \in Seq(Request)
  BY PipeParts
<1>4. /\ \A i, j \in 1..Len(pipe) : i < j /\ Current(pipe[i], gen) /\ Current(pipe[j], gen) =>
            pipe[j].op # "start" /\ pipe[i].op # "stop"
      /\ \A i \in 1..Len(pipe) : Current(pipe[i], gen) =>
            base.session # 0 /\ pipe[i].key = <<gen, base.session>>
  <2>1. pipe \in Seq(Message) /\ base.queue \in Seq(Request)
    BY <1>3
  <2> QED
    BY <1>2, <2>1, MatchesOrder
<1> DEFINE p == Len(eng) + 1
<1>5. p \in 1..Len(pipe) /\ pipe[p] = msgs[1]
  BY <1>3
<1>6. base.session # 0 /\ msgs[1].key = key
  BY <1>4, <1>5 DEF key
<1>7. ~Stopped
  BY DEF Stopped, Popped
<1>8. key[1] = gen
  BY DEF key
<1>9. ASSUME NEW i \in 1..Len(msgs), msgs[i].op = "start", msgs[i].key = key
      PROVE  FALSE
  <2>1. i # 1
    BY <1>9
  <2>2. pipe[Len(eng) + i] = msgs[i] /\ Len(eng) + i \in 1..Len(pipe) /\ p < Len(eng) + i
    BY <1>3, <2>1
  <2>3. Current(msgs[i], gen)
    BY <1>8, <1>9 DEF AnswerInv, Numbered, Current, Ops
  <2> QED
    BY <1>4, <1>5, <1>9, <2>2, <2>3
<1>10. ASSUME NEW i \in 1..Len(eng), eng[i].op = "stop", eng[i].key = key
       PROVE  FALSE
  <2>1. pipe[i] = eng[i] /\ i \in 1..Len(pipe) /\ i < p
    BY <1>3
  <2>2. Current(eng[i], gen)
    <3>1. gen \in Nat /\ (eng[i].n = 0 => eng[i].key[1] < gen)
      BY PipeParts DEF AnswerInv, Numbered
    <3> QED
      BY <1>8, <1>10, <3>1 DEF Current
  <2> QED
    BY <1>4, <1>5, <1>10, <2>1, <2>2
<1> QED
  BY <1>1, <1>6, <1>7, <1>9, <1>10 DEF Known

\* A message that is not a call of the framework, or of a client of before.
LEMMA HandleOther ==
    ASSUME Typed, Aligned, Announced, Known, Right, Open, Runs, popped = None,
           msgs # <<>>, msgs' = Tail(msgs), ~Current(msgs[1], gen),
           NEW t \in Seq(EngCall), eng' = eng \o t, \A i \in 1..Len(t) : ~Current(t[i], gen),
           UNCHANGED <<fw, gen, todo, base, popped, running>>, hist'.requests = hist.requests,
           gen \in registered => gen \in registered',
           msgs[1].op = "add" /\ msgs[1].key[1] = gen => gen \in registered',
           key \in sessions => key \in sessions', msgs[1].op \in Ops => msgs[1].n # 0
    PROVE  Answering'
<1>1. eng \in Seq(Message) /\ msgs \in Seq(Message) /\ t \in Seq(Message)
  BY PipeParts DEF Message
<1>2. PICK low \in Nat : /\ hist.requests = low + Len(base.queue)
                         /\ Matches(pipe, base.queue, gen, base.session, low)
  BY DEF Aligned
<1>3. Matches(pipe', base.queue, gen, base.session, low)
  BY <1>1, <1>2, MatchesReplace DEF pipe
<1>4. Aligned'
  BY <1>2, <1>3 DEF Aligned
<1>5. /\ Len(eng) \in Nat
      /\ \A i \in 1..Len(eng) : eng'[i] = eng[i] /\ i \in 1..Len(eng')
      /\ \A i \in 1..Len(eng') : \/ i \in 1..Len(eng)
                                 \/ /\ i > Len(eng) /\ i - Len(eng) \in 1..Len(t)
                                    /\ eng'[i] = t[i - Len(eng)]
  BY <1>1, ConcatParts
<1>6. Announced'
  <2>1. \A j \in 1..Len(eng') : Current(eng'[j], gen) =>
            Current(msgs[1], gen) \/ \E i \in 1..Len(eng) : Current(eng[i], gen)
    BY <1>5
  <2> QED
    BY <2>1, AnnouncedTail
<1>7. Known'
  <2>1. \A i \in 1..Len(eng) : \E j \in 1..Len(eng') : eng'[j] = eng[i]
    BY <1>5
  <2>2. ~(msgs[1].op = "start" /\ msgs[1].key = key)
    BY DEF Current, Ops, key
  <2> QED
    BY <2>1, <2>2, KnownTail
<1>8. Right' /\ Open' /\ Runs'
  BY Quiet
<1> QED
  BY <1>4, <1>6, <1>7, <1>8 DEF Answering

\* A call that the adapter makes of the engine as the framework has asked for it.
LEMMA HandleCall ==
    ASSUME Typed, Aligned, Announced, Known, Right, Open, Runs, popped = None,
           msgs # <<>>, msgs' = Tail(msgs), msgs[1].op \in Ops, Call(msgs[1]),
           UNCHANGED <<fw, gen, todo, base, popped, running, registered>>,
           hist'.requests = hist.requests,
           msgs[1].op # "stop" => sessions \subseteq sessions',
           msgs[1].op = "stop" => sessions' = sessions \ {msgs[1].key},
           msgs[1].op = "start" => msgs[1].key \in sessions'
    PROVE  Answering'
<1> DEFINE m == msgs[1]
<1>1. /\ eng \in Seq(Message) /\ msgs \in Seq(Message) /\ m = Head(msgs) /\ m \in Message
      /\ Len(eng) \in Nat /\ Len(msgs) \in Nat \ {0}
  BY PipeParts
<1>2. eng' = Append(eng, m)
  BY <1>1, MessageParts DEF Call
<1> HIDE DEF m
<1>3. pipe' = pipe
  BY <1>1, <1>2, Moves DEF pipe
<1>4. Aligned'
  BY <1>3 DEF Aligned
<1>5. /\ \A i \in 1..Len(eng) : eng'[i] = eng[i] /\ i \in 1..Len(eng')
      /\ Len(eng) + 1 \in 1..Len(eng') /\ eng'[Len(eng) + 1] = m
      /\ \A i \in 1..Len(eng') : i \in 1..Len(eng) \/ eng'[i] = m
  BY <1>1, <1>2
<1>6. Announced'
  <2>1. \A j \in 1..Len(eng') : Current(eng'[j], gen) =>
            Current(msgs[1], gen) \/ \E i \in 1..Len(eng) : Current(eng[i], gen)
    BY <1>5 DEF m
  <2>2. msgs[1].op # "add"
    BY DEF Ops
  <2> QED
    BY <2>1, <2>2, AnnouncedTail
<1>7. Known'
  <2>1. \A i \in 1..Len(eng) : \E j \in 1..Len(eng') : eng'[j] = eng[i]
    BY <1>5
  <2>2. key \in sessions =>
            key \in sessions' \/ \E j \in 1..Len(eng') : eng'[j].op = "stop" /\ eng'[j].key = key
    BY <1>5 DEF m
  <2> QED
    BY <2>1, <2>2, KnownTail
<1>8. Right' /\ Open' /\ Runs'
  BY Quiet
<1> QED
  BY <1>4, <1>6, <1>7, <1>8 DEF Answering

LEMMA HandleNumbered ==
    ASSUME Typed, Removals, Numbered, HandleMsg
    PROVE  Numbered'
<1> DEFINE m == Head(msgs)
<1>1. /\ popped = None /\ msgs # <<>> /\ msgs' = Tail(msgs) /\ msgs \in Seq(Message)
      /\ UNCHANGED <<gen, running>> /\ eng \in Seq(EngCall)
      /\ HandleAdd(m) \/ HandleStart(m) \/ HandleGet(m) \/ HandleStop(m) \/ HandleRemove(m)
  BY DEF HandleMsg, Idle, Typed, engineVars
<1>2. /\ m \in Message /\ m = msgs[1] /\ m.key[1] \in 1..gen /\ (m.op \in Ops => m.n # 0)
      /\ 1 \in 1..Len(msgs)
      /\ \A i \in 1..Len(msgs') : msgs'[i] = msgs[i + 1] /\ i + 1 \in 1..Len(msgs)
      /\ m.op = "remove" => m.key[1] < gen
  <2>1. m \in Message /\ m = msgs[1] /\ 1 \in 1..Len(msgs)
    BY <1>1
  <2>2. m.key[1] \in 1..gen /\ (m.op = "remove" => m.key[1] < gen)
    BY <2>1 DEF Removals
  <2>3. m.op \in Ops => m.n # 0
    BY <2>1 DEF Numbered
  <2>4. \A i \in 1..Len(msgs') : msgs'[i] = msgs[i + 1] /\ i + 1 \in 1..Len(msgs)
    BY <1>1
  <2> QED
    BY <2>1, <2>2, <2>3, <2>4
<1> HIDE DEF m
<1>3. \A i \in 1..Len(msgs') : msgs'[i].op \in Ops => msgs'[i].n # 0
  BY <1>2 DEF Numbered
<1>4. popped' # None => popped'.key[1] \in 1..gen
  <2>1. popped' = popped \/ popped'.key = m.key
    BY <1>1 DEF HandleAdd, HandleStart, HandleGet, HandleStop, HandleRemove, Answer
  <2> QED
    BY <1>1, <1>2, <2>1
<1>5. \A i \in 1..Len(eng') : /\ eng'[i].key[1] \in 1..gen
                              /\ eng'[i].n = 0 => eng'[i].key[1] < gen
  <2>1. CASE eng' = eng
    BY <2>1 DEF Numbered
  <2>2. CASE m.op \in Ops /\ Call(m)
    <3>1. eng' = Append(eng, m)
      BY <1>2, <2>2, MessageParts DEF Call
    <3>2. \A i \in 1..Len(eng') : (i \in 1..Len(eng) /\ eng'[i] = eng[i]) \/ eng'[i] = m
      BY <1>1, <3>1
    <3> QED
      BY <1>2, <2>2, <3>2 DEF Numbered
  <2>3. CASE HandleRemove(m) /\ eng' = eng \o StopsOf(m.key[1])
    <3>1. PICK g : g = m.key[1]
      OBVIOUS
    <3> DEFINE t == StopsOf(g)
    <3>2. /\ t \in Seq(EngCall) /\ \A i \in 1..Len(t) : t[i].key[1] = g
          /\ g \in 1..gen /\ g < gen
      BY <1>2, <2>3, <3>1, StopsSent DEF HandleRemove
    <3> HIDE DEF t
    <3>3. eng \in Seq(Message) /\ t \in Seq(Message) /\ eng' = eng \o t
      BY <1>1, <2>3, <3>1, <3>2 DEF Message, t
    <3>4. \A i \in 1..Len(eng') : \/ i \in 1..Len(eng) /\ eng'[i] = eng[i]
                                  \/ i - Len(eng) \in 1..Len(t) /\ eng'[i] = t[i - Len(eng)]
      BY <3>3, ConcatParts
    <3> QED
      BY <3>2, <3>4 DEF Numbered
  <2>4. \/ eng' = eng \/ (m.op \in Ops /\ Call(m))
        \/ (HandleRemove(m) /\ eng' = eng \o StopsOf(m.key[1]))
    BY <1>1 DEF HandleAdd, HandleStart, HandleGet, HandleStop, HandleRemove, StopsOf, Ops
  <2> QED
    BY <2>1, <2>2, <2>3, <2>4
<1>6. UNCHANGED <<gen, running>>
  BY <1>1
<1> QED
  BY <1>3, <1>4, <1>5, <1>6 DEF Numbered

LEMMA AnswerHandle ==
    ASSUME Typed, Removals, AnswerInv, HandleMsg
    PROVE  AnswerInv'
<1> DEFINE m == msgs[1]
<1>1. /\ popped = None /\ msgs # <<>> /\ msgs' = Tail(msgs) /\ msgs \in Seq(Message)
      /\ UNCHANGED <<fw, gen, todo, running>> /\ eng \in Seq(EngCall)
      /\ HandleAdd(m) \/ HandleStart(m) \/ HandleGet(m) \/ HandleStop(m) \/ HandleRemove(m)
      /\ 1 \in 1..Len(msgs)
  <2>1. msgs # <<>> /\ msgs \in Seq(Message)
    BY DEF HandleMsg, Typed
  <2>2. Head(msgs) = m /\ 1 \in 1..Len(msgs)
    BY <2>1
  <2> QED
    BY <2>1, <2>2 DEF HandleMsg, Idle, Typed, engineVars
<1>2. Numbered'
  BY HandleNumbered DEF AnswerInv
<1>3. ASSUME Live PROVE Answering'
  <2>1. Aligned /\ Announced /\ Known /\ Right /\ Open /\ Runs
    BY <1>3 DEF AnswerInv, Answering
  <2>2. (m.op \in Ops => m.n # 0) /\ m.key[1] \in 1..gen
        /\ (m.op = "remove" => m.key[1] < gen) /\ m \in Message /\ gen \in Nat
    BY <1>1, PipeParts DEF AnswerInv, Numbered, Removals
  <2>3. m.op \in {"add", "remove"} => ~Current(m, gen)
    BY <2>2 DEF Current, Message, EngCall, Added, Removed, Ops
  <2>4. key[1] = gen
    BY DEF key
  <2>5. hist'.requests = hist.requests
    <3>1. PICK f : hist' = hist \/ hist' = [hist EXCEPT !.refused = f]
      BY <1>1 DEF HandleAdd, HandleStart, HandleGet, HandleStop, HandleRemove
    <3> QED
      BY <3>1 DEF Typed, History
  <2>6. eng \o <<>> = eng /\ <<>> \in Seq(EngCall) /\ 1..Len(<<>>) = {}
    BY <1>1, ConcatEmptySeq
  <2>e. PICK e : e = <<>>
    OBVIOUS
  <2> HIDE DEF m
  <2>7. ASSUME ~Current(m, gen), UNCHANGED <<base, popped, eng>>,
               gen \in registered => gen \in registered', m.op = "add" /\ m.key[1] = gen => gen \in registered',
               key \in sessions => key \in sessions'
        PROVE  Answering'
    <3>1. eng' = eng \o e /\ e \in Seq(EngCall) /\ \A i \in 1..Len(e) : ~Current(e[i], gen)
      BY <2>6, <2>7, <2>e
    <3> QED
      BY <1>1, <2>1, <2>2, <2>5, <2>7, <3>1, HandleOther DEF m
  <2>8. CASE HandleAdd(m)
    BY <2>3, <2>7, <2>8 DEF HandleAdd, Ops
  <2>9. CASE HandleStart(m)
    BY <1>1, <2>1, <2>5, <2>9, HandleCall DEF HandleStart, Ops, m
  <2>10. CASE HandleGet(m)
    <3>1. CASE m.key \in sessions
      BY <1>1, <2>1, <2>5, <2>10, <3>1, HandleCall DEF HandleGet, Ops, m, adapterVars
    <3>2. CASE m.key \notin sessions
      <4>1. ~Current(m, gen)
        BY <1>1, <1>3, <2>10, <3>2, CallIsKnown DEF HandleGet, m
      <4>2. m.key # <<gen, base.session>>
        BY <2>2, <2>10, <4>1 DEF Current, HandleGet, Ops
      <4>3. UNCHANGED <<base, popped, eng>>
        BY <2>10, <3>2, <4>2 DEF HandleGet, Answer
      <4> QED
        BY <2>7, <2>10, <4>1, <4>3 DEF HandleGet, adapterVars
    <3> QED
      BY <3>1, <3>2
  <2>11. CASE HandleStop(m)
    <3>1. CASE m.key \in sessions
      BY <1>1, <2>1, <2>5, <2>11, <3>1, HandleCall DEF HandleStop, Ops, m
    <3>2. CASE m.key \notin sessions
      <4>1. ~Current(m, gen)
        BY <1>1, <1>3, <2>11, <3>2, CallIsKnown DEF HandleStop, m
      <4> QED
        BY <2>7, <2>11, <3>2, <4>1 DEF HandleStop
    <3> QED
      BY <3>1, <3>2
  <2>12. CASE HandleRemove(m)
    <3>1. m.op = "remove" /\ m.key[1] < gen /\ ~Current(m, gen) /\ UNCHANGED <<base, popped>>
      BY <2>2, <2>3, <2>12 DEF HandleRemove
    <3>2. CASE m.adapter = "gnss"
      BY <2>7, <2>12, <3>1, <3>2 DEF HandleRemove, adapterVars
    <3>3. CASE m.adapter # "gnss"
      <4>1. PICK g : g = m.key[1] /\ g < gen
        BY <3>1
      <4> DEFINE t == StopsOf(g)
      <4>2. /\ registered' = registered \ {g} /\ sessions' = sessions \ stopClientSessions(g)
            /\ eng' = eng \o t
        BY <2>12, <3>3, <4>1 DEF HandleRemove, StopsOf
      <4>3. /\ t \in Seq(EngCall) /\ \A i \in 1..Len(t) : t[i].n = 0
        BY StopsSent
      <4> HIDE DEF t
      <4>4. \A i \in 1..Len(t) : ~Current(t[i], gen)
        BY <4>3 DEF Current
      <4>5. /\ gen \in registered => gen \in registered'
            /\ key \in sessions => key \in sessions'
        BY <2>2, <2>4, <4>1, <4>2 DEF stopClientSessions
      <4> QED
        BY <1>1, <2>1, <2>2, <2>5, <3>1, <4>2, <4>3, <4>4, <4>5, HandleOther DEF m
    <3> QED
      BY <3>2, <3>3
  <2> QED
    BY <1>1, <2>8, <2>9, <2>10, <2>11, <2>12
<1> QED
  BY <1>1, <1>2, <1>3 DEF AnswerInv, Live

-----------------------------------------------------------------------------
(* The engine.                                                               *)

\* The call c is taken from the queue of the engine, done or refused.
Taken(c, ok) ==
    /\ popped = None /\ eng # <<>> /\ c = eng[1] /\ c \in EngCall /\ eng' = Tail(eng)
    /\ UNCHANGED <<fw, gen, todo, msgs, registered>> /\ hist'.requests = hist.requests
    /\ hist'.ids = hist.ids
    /\ hist'.refused = IF ~ok /\ c.op = "stop" THEN hist.refused \cup {c.key} ELSE hist.refused
    /\ Answer(c.key, c.n, ok)
    /\ ok => /\ sessions' = sessions
             /\ running' = IF c.op = "start" THEN running \cup {c.key}
                           ELSE IF c.op = "stop" THEN running \ {c.key} ELSE running
    /\ ~ok => /\ c.op # "start" /\ running' = running
              /\ sessions' = IF c.op = "stop" THEN sessions \cup {c.key} ELSE sessions

LEMMA EngineTakes ==
    ASSUME Typed, EngineAnswers, "start" \notin Refusable
    PROVE  \E c \in EngCall, ok \in BOOLEAN : Taken(c, ok)
<1> DEFINE h == Head(eng)
<1>1. h \in EngCall /\ h = eng[1] /\ eng # <<>>
  BY DEF EngineAnswers, Typed
<1>2. popped = None /\ eng' = Tail(eng) /\ UNCHANGED <<fw, gen, todo, msgs, registered>>
  BY DEF EngineAnswers, Idle
<1>3. hist \in History
  BY DEF Typed
<1>4. CASE /\ running' = IF h.op = "start" THEN running \cup {h.key}
                         ELSE IF h.op = "stop" THEN running \ {h.key} ELSE running
           /\ Answer(h.key, h.n, TRUE)
           /\ UNCHANGED <<sessions, hist>>
  <2>1. Taken(h, TRUE)
    BY <1>1, <1>2, <1>4 DEF Taken
  <2> QED
    BY <1>1, <2>1
<1>5. CASE /\ h.op \in Refusable /\ sessions' = onRefusal(h)
           /\ hist' = [hist EXCEPT !.refused = IF h.op = "stop" THEN @ \cup {h.key} ELSE @]
           /\ Answer(h.key, h.n, FALSE)
           /\ UNCHANGED running
  <2>1. /\ hist'.requests = hist.requests /\ hist'.ids = hist.ids
        /\ hist'.refused = IF h.op = "stop" THEN hist.refused \cup {h.key} ELSE hist.refused
    BY <1>3, <1>5 DEF History
  <2>2. h.op # "start"
    BY <1>5
  <2>3. Taken(h, FALSE)
    BY <1>1, <1>2, <1>5, <2>1, <2>2 DEF Taken, onRefusal
  <2> QED
    BY <1>1, <2>3
<1> QED
  BY <1>4, <1>5 DEF EngineAnswers

LEMMA TakenParts ==
    ASSUME Typed, NEW c \in EngCall, NEW ok \in BOOLEAN, Taken(c, ok)
    PROVE  /\ pipe # <<>> /\ pipe[1] = c /\ pipe' = Tail(pipe)
           /\ \A i \in 1..Len(eng') : eng'[i] = eng[i + 1] /\ i + 1 \in 1..Len(eng)
           /\ \A i \in 1..Len(eng) : i = 1 \/ (i - 1 \in 1..Len(eng') /\ eng'[i - 1] = eng[i])
           /\ 1 \in 1..Len(eng) /\ eng[1] = c
<1>1. eng # <<>> /\ eng' = Tail(eng) /\ msgs' = msgs /\ eng[1] = c
  BY DEF Taken
<1>2. eng \in Seq(Message) /\ msgs \in Seq(Message) /\ c \in Message
  BY PipeParts DEF Message
<1>3. Tail(eng) \o msgs = Tail(eng \o msgs) /\ (eng \o msgs)[1] = eng[1] /\ eng \o msgs # <<>>
  BY <1>1, <1>2, Moves
<1>4. /\ \A i \in 1..Len(eng') : eng'[i] = eng[i + 1] /\ i + 1 \in 1..Len(eng)
      /\ \A i \in 1..Len(eng) : i = 1 \/ (i - 1 \in 1..Len(eng') /\ eng'[i - 1] = eng[i])
      /\ 1 \in 1..Len(eng)
  BY <1>1, <1>2
<1> QED
  BY <1>1, <1>3, <1>4 DEF pipe

LEMMA TakenNumbered ==
    ASSUME Typed, Numbered, NEW c \in EngCall, NEW ok \in BOOLEAN, Taken(c, ok)
    PROVE  Numbered'
<1>1. c.key[1] \in 1..gen
  BY TakenParts DEF Numbered
<1>2. UNCHANGED <<gen, msgs>> /\ popped = None
  BY DEF Taken
<1>3. \A i \in 1..Len(eng') : eng'[i].key[1] \in 1..gen /\ (eng'[i].n = 0 => eng'[i].key[1] < gen)
  BY TakenParts DEF Numbered
<1>4. \A k \in running' : k[1] \in 1..gen
  BY <1>1 DEF Taken, Numbered
<1>5. popped' # None => popped'.key[1] \in 1..gen
  <2>1. popped' = popped \/ popped'.key = c.key
    BY DEF Taken, Answer
  <2> QED
    BY <1>1, <1>2, <2>1
<1> QED
  BY <1>2, <1>3, <1>4, <1>5 DEF Numbered

\* An answer to a client of before.
LEMMA TakenOther ==
    ASSUME Typed, AnswerInv, Live, NEW c \in EngCall, NEW ok \in BOOLEAN, Taken(c, ok), ~Current(c, gen)
    PROVE  Answering'
<1>1. Aligned /\ Announced /\ Known /\ Right /\ Open /\ Runs
  BY DEF AnswerInv, Answering
<1>2. c.key[1] # gen
  <2>1. c.n = 0 => c.key[1] < gen
    BY TakenParts DEF AnswerInv, Numbered
  <2>2. gen \in Nat
    BY PipeParts
  <2> QED
    BY <2>1, <2>2 DEF Current
<1>3. UNCHANGED <<fw, gen, todo, msgs, registered, popped, base>> /\ hist'.requests = hist.requests
      /\ popped = None
  <2>1. c.key # <<gen, base.session>>
    BY <1>2
  <2> QED
    BY <2>1 DEF Taken, Answer
<1>4. key' = key /\ key[1] = gen /\ c.key # key
  BY <1>2, <1>3 DEF key
<1>5. Aligned'
  <2>1. PICK low \in Nat : /\ hist.requests = low + Len(base.queue)
                           /\ Matches(pipe, base.queue, gen, base.session, low)
    BY <1>1 DEF Aligned
  <2>2. pipe \in Seq(Message)
    BY PipeParts
  <2>3. pipe # <<>> /\ pipe[1] = c /\ pipe' = Tail(pipe)
    BY TakenParts
  <2>4. Matches(Tail(pipe), base.queue, gen, base.session, low)
    BY <2>1, <2>2, <2>3, MatchesSkip
  <2> QED
    BY <1>3, <2>1, <2>3, <2>4 DEF Aligned
<1>6. Announced'
  <2>1. \A i \in 1..Len(eng') : \E j \in 1..Len(eng) : eng'[i] = eng[j]
    BY TakenParts
  <2> QED
    BY <1>1, <1>3, <2>1 DEF Announced
<1>7. \A op : Popped(op)' = Popped(op) /\ Queued(op)' = Queued(op)
  BY <1>3 DEF Popped, Queued
<1>8. Stopped' = Stopped
  BY <1>3 DEF Stopped, Popped
<1>9. Known'
  <2>1. key \in sessions => key \in sessions'
    BY DEF Taken
  <2>2. ASSUME NEW i \in 1..Len(eng), eng[i].key = key
        PROVE  \E j \in 1..Len(eng') : eng'[j] = eng[i]
    BY <1>4, <2>2, TakenParts
  <2> QED
    BY <1>1, <1>3, <1>4, <1>8, <2>1, <2>2 DEF Known
<1>10. Right'
  BY <1>3 DEF Right
<1>11. Open'
  BY <1>1, <1>3, <1>7 DEF Open
<1>12. Runs'
  <2>1. \A k : k[1] = gen => (k \in running' <=> k \in running)
    BY <1>2 DEF Taken
  <2> QED
    BY <1>1, <1>3, <1>4, <1>7, <1>8, <2>1 DEF Runs
<1> QED
  BY <1>5, <1>6, <1>9, <1>10, <1>11, <1>12 DEF Answering

\* An answer to the framework's client.
LEMMA TakenOwn ==
    ASSUME Typed, AnswerInv, Live, NEW c \in EngCall, NEW ok \in BOOLEAN, Taken(c, ok), Current(c, gen)
    PROVE  Answering'
<1>1. Aligned /\ Announced /\ Known /\ Right /\ Open /\ Runs
  BY DEF AnswerInv, Answering
<1>2. /\ UNCHANGED <<fw, gen, todo, msgs, registered>> /\ hist'.requests = hist.requests
      /\ popped = None /\ ~Stopped
  BY DEF Taken, Stopped, Popped
<1>3. PICK low \in Nat : /\ hist.requests = low + Len(base.queue)
                         /\ Matches(pipe, base.queue, gen, base.session, low)
  BY <1>1 DEF Aligned
<1>4. /\ pipe \in Seq(Message) /\ base.queue \in Seq(Request) /\ base.session \in Nat /\ gen \in Nat
      /\ base \in [session : Nat, queue : Seq(Request)]
  BY PipeParts
<1>5. pipe # <<>> /\ pipe[1] = c /\ pipe' = Tail(pipe)
  BY TakenParts
<1> DEFINE q == base.queue
           s == base.session
<1>6. /\ q # <<>> /\ Head(q).op = c.op /\ Head(q).n = c.n /\ c.key = <<gen, s>> /\ s # 0
      /\ Matches(Tail(pipe), Tail(q), gen, s, low + 1)
      /\ c.op = "stop" => Tail(q) = <<>>
      /\ \A j \in 1..Len(Tail(q)) : Tail(q)[j].op # "start"
  <2>1. Matches(pipe, q, gen, s, low)
    BY <1>3
  <2>2. pipe \in Seq(Message) /\ q \in Seq(Request) /\ s \in Nat /\ gen \in Nat
    BY <1>4
  <2>3. pipe # <<>> /\ Current(pipe[1], gen)
    BY <1>5
  <2> HIDE DEF q, s
  <2>4. /\ q # <<>> /\ Head(q).op = pipe[1].op /\ Head(q).n = pipe[1].n
        /\ pipe[1].key = <<gen, s>> /\ s # 0
        /\ Matches(Tail(pipe), Tail(q), gen, s, low + 1)
        /\ pipe[1].op = "stop" => Tail(q) = <<>>
        /\ \A j \in 1..Len(Tail(q)) : Tail(q)[j].op # "start"
    BY <2>1, <2>2, <2>3, MatchesPop
  <2> QED
    BY <1>5, <2>4
<1>7. gen \in registered
  BY <1>1, TakenParts DEF Announced
<1>8. /\ popped' = [req |-> Head(q), n |-> c.n, ok |-> ok, key |-> c.key]
      /\ base' = [base EXCEPT !.queue = Tail(q)]
  BY <1>6, <1>7 DEF Taken, Answer
<1>9. /\ base'.session = s /\ base'.queue = Tail(q) /\ popped'.req = Head(q)
      /\ popped'.n = c.n /\ popped'.ok = ok /\ popped'.key = c.key
      /\ Len(q) = Len(Tail(q)) + 1 /\ Len(Tail(q)) \in Nat /\ low + 1 \in Nat
      /\ 1 \in 1..Len(q) /\ q[1] = Head(q)
      /\ \A j \in 1..Len(Tail(q)) : Tail(q)[j] = q[j + 1] /\ j + 1 \in 1..Len(q)
      /\ \A j \in 1..Len(q) : j = 1 \/ (j - 1 \in 1..Len(Tail(q)) /\ q[j] = Tail(q)[j - 1])
  BY SMTT(30), <1>4, <1>6, <1>8
<1>10. popped' # None
  BY <1>8 DEF None
<1>11. key' = key /\ c.key = key /\ key[1] = gen
  BY <1>2, <1>6, <1>9 DEF key
<1>12. /\ \A o : Queued(o)' => Queued(o)
       /\ \A o : Queued(o) => Queued(o)' \/ o = c.op
       /\ Queued(c.op) /\ ~Queued("start")'
  BY SMTT(30), <1>6, <1>9 DEF Queued
<1>13. \A o : Popped(o)' <=> o = c.op
  BY <1>2, <1>6, <1>9, <1>10, <1>11 DEF Popped
<1>14. Stopped' <=> c.op = "stop" /\ ok
  BY <1>9, <1>13 DEF Stopped
<1>15. Aligned'
  <2>1. hist.requests = low + 1 + Len(Tail(q))
    <3>1. hist.requests = low + Len(q)
      BY <1>3
    <3>2. Len(q) = Len(Tail(q)) + 1 /\ Len(Tail(q)) \in Nat
      BY <1>9
    <3> HIDE DEF q
    <3>3. \A x \in Nat : low + (x + 1) = low + 1 + x
      OBVIOUS
    <3> QED
      BY <3>1, <3>2, <3>3
  <2> QED
    BY <1>2, <1>5, <1>6, <1>9, <2>1 DEF Aligned
<1>16. Announced'
  BY <1>2, <1>7 DEF Announced
<1>17. Known'
  <2>1. key \in sessions => key \in sessions'
    BY DEF Taken
  <2>2. ASSUME NEW i \in 1..Len(eng), eng[i].op = "stop", eng[i].key = key
        PROVE  Stopped' \/ key \in sessions' \/ \E j \in 1..Len(eng') : eng'[j] = eng[i]
    <3>1. CASE i = 1
      <4>1. c.op = "stop"
        BY <2>2, <3>1, TakenParts
      <4> QED
        BY <1>11, <1>14, <4>1 DEF Taken
    <3>2. CASE i # 1
      BY <3>2, TakenParts
    <3> QED
      BY <3>1, <3>2
  <2> QED
    BY <1>1, <1>2, <1>6, <1>11, <2>1, <2>2 DEF Known
<1>18. Right'
  <2>1. c.op = "start" => ok
    BY DEF Taken
  <2> QED
    BY <1>6, <1>9, <1>11, <2>1 DEF Right
<1>19. Open'
  <2>1. fw = "started" \/ todo # <<>> => c.op # "stop"
    BY <1>1, <1>12 DEF Open
  <2> QED
    BY <1>1, <1>2, <1>9, <1>12, <1>13, <2>1 DEF Open
<1>20. Runs'
  <2>1. \A k \in running' : k[1] = gen => base'.session # 0 /\ k = key'
    <3>1. \A k \in running' : k \in running \/ k = key
      BY <1>11 DEF Taken
    <3> QED
      BY <1>1, <1>6, <1>9, <1>11, <3>1 DEF Runs
  <2>2. key \in running' \/ Stopped'
    <3>1. CASE c.op = "start"
      BY <1>11, <3>1 DEF Taken
    <3>2. CASE c.op # "start"
      <4>1. ~Queued("start")
        BY <1>12, <3>2
      <4>2. key \in running
        BY <1>1, <1>2, <1>6, <4>1 DEF Runs
      <4> QED
        BY <1>14, <3>2, <4>2 DEF Taken
    <3> QED
      BY <3>1, <3>2
  <2>3. Stopped' => key \notin running'
    BY <1>11, <1>14 DEF Taken
  <2> QED
    BY <1>2, <1>11, <1>12, <2>1, <2>2, <2>3 DEF Runs
<1> HIDE DEF q, s
<1> QED
  BY <1>15, <1>16, <1>17, <1>18, <1>19, <1>20 DEF Answering

LEMMA AnswerEngine ==
    ASSUME Typed, AnswerInv, "start" \notin Refusable, EngineAnswers
    PROVE  AnswerInv'
<1>1. PICK c \in EngCall, ok \in BOOLEAN : Taken(c, ok)
  BY EngineTakes
<1>2. Numbered'
  BY <1>1, TakenNumbered DEF AnswerInv
<1>3. Live' => Live
  BY <1>1 DEF Taken, Live
<1>4. Live => Answering'
  BY <1>1, TakenOther, TakenOwn
<1> QED
  BY <1>2, <1>3, <1>4 DEF AnswerInv

-----------------------------------------------------------------------------
(* Every step.                                                               *)

LEMMA AnswerStep ==
    ASSUME Typed, Removals, AnswerInv, Calm, "start" \notin Refusable, [Next]_vars
    PROVE  AnswerInv'
<1>1. CASE init \/ start \/ flush \/ stop \/ cleanup \/ serviceDied
  BY <1>1, AnswerInit, AnswerStart, AnswerFlush, AnswerLeave
<1>2. CASE SessionStep \/ OnResponse \/ HandleMsg \/ EngineAnswers
  BY <1>2, AnswerSession, AnswerOnResponse, AnswerHandle, AnswerEngine
<1>3. CASE EmptyBatch
  <2>1. hist'.requests = hist.requests
    <3>1. PICK b \in Seq(Nat) : onBatchingCb(b)
      <4>1. <<>> \in Seq(Nat)
        OBVIOUS
      <4> QED
        BY <1>3, <4>1 DEF EmptyBatch
    <3> QED
      BY <3>1, CbTyped
  <2>2. UNCHANGED <<fw, gen, todo, base, popped, msgs, eng, registered, sessions, running>>
    BY <1>3 DEF EmptyBatch, adapterVars, engineVars
  <2> QED
    BY <2>1, <2>2, Untouched
<1>4. CASE DeliverBatch
  <2>1. Head(events) \in Seq(Nat)
    BY <1>4 DEF DeliverBatch, Typed
  <2>2. hist'.requests = hist.requests
    BY <1>4, <2>1, CbTyped DEF DeliverBatch
  <2>3. UNCHANGED <<fw, gen, todo, base, popped, msgs, eng, registered, sessions, running>>
    BY <1>4 DEF DeliverBatch, adapterVars
  <2> QED
    BY <2>2, <2>3, Untouched
<1>5. CASE Locate
  <2>1. hist'.requests = hist.requests
    BY <1>5 DEF Locate, Typed, History
  <2>2. UNCHANGED <<fw, gen, todo, base, popped, msgs, eng, registered, sessions, running>>
    BY <1>5 DEF Locate, adapterVars, clientVars
  <2> QED
    BY <2>1, <2>2, Untouched
<1>6. CASE Full \/ UNCHANGED vars
  <2>1. UNCHANGED <<fw, gen, todo, base, popped, msgs, eng, registered, sessions, running, hist>>
    BY <1>6 DEF Full, vars, adapterVars, clientVars, engineVars
  <2> QED
    BY <2>1, Untouched
<1> QED
  BY <1>1, <1>2, <1>3, <1>4, <1>5, <1>6 DEF Next

LEMMA AnswerInvInit == Init => AnswerInv
<1> SUFFICES ASSUME Init PROVE AnswerInv
  OBVIOUS
<1>1. msgs = <<>> /\ eng = <<>> /\ running = {} /\ popped = None /\ fw = "new"
  BY DEF Init
<1>2. 1..Len(<<>>) = {}
  OBVIOUS
<1> QED
  BY <1>1, <1>2 DEF AnswerInv, Numbered, Live

LEMMA AnswerInvAlways ==
    ASSUME Calm, "start" \notin Refusable
    PROVE  Spec => [](Typed /\ AnswerInv)
<1>1. HalInv /\ AnswerInv /\ [Next]_vars => AnswerInv'
  BY AnswerStep DEF HalInv
<1>2. HalInv => Typed
  BY DEF HalInv
<1> QED
  BY <1>1, <1>2, HalInvAlways, AnswerInvInit, PTL DEF Spec

\* An answer runs the request it belongs to, for any number of clients and calls, when the
\* framework flushes a stopped session only when all is answered and starts again only when
\* the stop is, and the engine refuses no start: conditions without which answers are given
\* to the wrong requests.  A start that the client refuses, after a stop that the engine has
\* refused, is told to the framework as a success, and what it does then is included.
THEOREM AnswerIsForRequestAlways ==
    ASSUME Calm, "start" \notin Refusable
    PROVE  Spec => []AnswerIsForRequest
<1>1. Typed /\ AnswerInv => AnswerIsForRequest
  <2> SUFFICES ASSUME Typed, AnswerInv, popped # None, fw # "cleaned", popped.key[1] = gen
               PROVE  popped.req.n = popped.n
    BY DEF AnswerIsForRequest
  <2>1. gen # 0
    BY DEF AnswerInv, Numbered
  <2>2. Live
    BY <2>1 DEF Typed, Live
  <2> QED
    BY <2>2 DEF AnswerInv, Answering, Right
<1> QED
  BY <1>1, AnswerInvAlways, PTL

\* When all is answered the session in the client's dictionary is the one that runs in the
\* engine, under the same conditions and whatever stops and fetches the engine refuses.
THEOREM DictionaryIsTrueAlways ==
    ASSUME Calm, "start" \notin Refusable
    PROVE  Spec => []DictionaryIsTrue
<1>1. Typed /\ AnswerInv => DictionaryIsTrue
  <2> SUFFICES ASSUME Typed, AnswerInv, Settled, Live
               PROVE  /\ {k \in running : k[1] = gen} =
                             IF base.session = 0 THEN {} ELSE {<<gen, base.session>>}
                      /\ base.queue = <<>>
    BY DEF DictionaryIsTrue, Live
  <2>1. Aligned /\ Runs
    BY DEF AnswerInv, Answering
  <2>2. PICK low \in Nat : Matches(pipe, base.queue, gen, base.session, low)
    BY <2>1 DEF Aligned
  <2>3. base.queue = <<>>
    <3>1. 1..Len(pipe) = {}
      BY PipeParts DEF Settled
    <3>2. pipe \in Seq(Message) /\ base.queue \in Seq(Request)
      BY PipeParts
    <3>3. base.queue # <<>> => \E i \in 1..Len(pipe) : Current(pipe[i], gen)
      BY <2>2, <3>2, MatchesFacts
    <3> QED
      BY <3>1, <3>3
  <2>4. ~Stopped /\ ~Queued("start")
    <3>1. 1..Len(base.queue) = {}
      BY <2>3
    <3> QED
      BY <3>1 DEF Settled, Stopped, Popped, Queued
  <2>5. CASE base.session = 0
    BY <2>1, <2>3, <2>5 DEF Runs
  <2>6. CASE base.session # 0
    <3>1. key \in running /\ \A k \in running : k[1] = gen => k = key
      BY <2>1, <2>4, <2>6 DEF Runs
    <3>2. key[1] = gen
      BY DEF key
    <3>3. {k \in running : k[1] = gen} = {key}
      BY <3>1, <3>2
    <3> QED
      BY <2>3, <2>6, <3>3 DEF key
  <2> QED
    BY <2>5, <2>6
<1> QED
  BY <1>1, AnswerInvAlways, PTL


-----------------------------------------------------------------------------
(* The batches of a flush.                                                   *)

Get(m, g) == m.op = "get" /\ Current(m, g)

\* A call for the locations of the framework's client is under way.
Fetch == \/ \E i \in 1..Len(eng) : Get(eng[i], gen)
         \/ \E i \in 1..Len(msgs) : Get(msgs[i], gen)

\* A client that stops gets a batch, and one that has been flushed when stopped another.
Coming ==
    /\ Live /\ mState = "stopping" => (gen \in registered /\ events # <<>>) \/ Fetch
    /\ hist.owed => Live /\ todo = <<>> /\ gen \in registered
    /\ hist.owed /\ mState # "stopping" =>
          cache = <<>> \/ threads > 0 \/ events # <<>> \/ Fetch
    /\ hist.owed /\ mState = "stopping" =>
          Len(events) >= 2 \/ (events # <<>> /\ (threads > 0 \/ Fetch))

\* A step by which batches come nearer, or stay where they are.
LEMMA ComingKept ==
    ASSUME Typed, Coming, UNCHANGED <<fw, gen, todo, mState, cache>>, hist'.owed = hist.owed,
           gen \in registered => gen \in registered', threads > 0 => threads' > 0,
           NEW b \in Seq(Nat), events' = events \/ events' = Append(events, b),
           Fetch => Fetch' \/ (gen \in registered' /\ events' = Append(events, b))
    PROVE  Coming'
<1>1. events \in Seq(Seq(Nat)) /\ Len(events) \in Nat
  BY DEF Typed
<1>2. /\ events # <<>> => events' # <<>>
      /\ Len(events) >= 2 => Len(events') >= 2
      /\ events' = Append(events, b) => events' # <<>>
      /\ events' = Append(events, b) /\ events # <<>> => Len(events') >= 2
  BY <1>1
<1>3. Live' = Live
  BY DEF Live
<1> QED
  BY <1>2, <1>3 DEF Coming

LEMMA FetchKept ==
    ASSUME Fetch, UNCHANGED <<gen, eng>>, msgs \in Seq(Message), NEW m \in Message,
           msgs' = msgs \/ msgs' = Append(msgs, m)
    PROVE  Fetch'
<1>1. CASE msgs' = msgs
  BY <1>1 DEF Fetch
<1>2. CASE msgs' = Append(msgs, m)
  <2>1. \A i \in 1..Len(msgs) : i \in 1..Len(msgs') /\ msgs'[i] = msgs[i]
    BY <1>2
  <2> QED
    BY <2>1 DEF Fetch
<1> QED
  BY <1>1, <1>2

\* A request for locations is a call for them that is under way.
LEMMA PushFetches ==
    ASSUME Typed, NEW s \in Nat, NEW n \in Nat \ {0}, push("get", s, n), UNCHANGED <<gen, eng>>
    PROVE  Fetch'
<1> DEFINE a == [op |-> "get", key |-> <<gen, s>>, n |-> n]
<1>1. PICK m : m = a
  OBVIOUS
<1>2. m.op = "get" /\ m.key[1] = gen /\ m.n # 0 /\ m \in Message
  BY <1>1 DEF Typed, Message, EngCall, Ops, Keys
<1>3. msgs' = Append(msgs, m) /\ msgs \in Seq(Message)
  BY <1>1 DEF push, Typed
<1>4. Len(msgs') \in 1..Len(msgs') /\ msgs'[Len(msgs')] = m
  BY <1>2, <1>3
<1>5. Get(m, gen')
  BY <1>2 DEF Get, Current
<1> QED
  BY <1>4, <1>5 DEF Fetch

\* The framework's calls.
LEMMA ComingCalls ==
    ASSUME Typed, AnswerInv, Coming, Calm, start \/ flush \/ stop \/ cleanup \/ serviceDied
    PROVE  Coming'
<1>0. hist \in History /\ hist.requests \in Nat /\ gen \in Nat /\ base.session \in Nat
  BY PipeParts DEF Typed
<1>1. CASE start
  <2>1. /\ fw = "idle" /\ fw' \in {"idle", "started"} /\ todo = <<>> /\ mState' = "started"
        /\ UNCHANGED <<gen, todo, cache, threads, registered, eng, events>>
    BY <1>1 DEF start, MayCall, adapterVars, engineVars
  <2>2. hist'.owed = hist.owed
    <3>1. PICK x, y, z : hist' = [hist EXCEPT !.calls = x] \/ hist' = [hist EXCEPT !.ids = y, !.requests = z, !.calls = x]
      BY <1>1 DEF start, locAPIStartSession
    <3> QED
      BY <1>0, <3>1 DEF History
  <2>3. Fetch => Fetch'
    <3>1. CASE msgs' = msgs
      BY <2>1, <3>1 DEF Fetch
    <3>2. CASE locAPIStartSession
      <4>1. PICK m : msgs' = Append(msgs, m) /\ m = [op |-> "start", key |-> <<gen, hist.ids + 1>>, n |-> hist.requests + 1]
        BY <3>2 DEF locAPIStartSession, push
      <4>2. m \in Message
        BY <1>0, <4>1, HistoryParts DEF Message, EngCall, Ops, Keys
      <4> QED
        BY <2>1, <4>1, <4>2, FetchKept DEF Typed
    <3> QED
      BY <1>1, <3>1, <3>2 DEF start
  <2>4. Len(events) >= 2 => events # <<>>
    BY DEF Typed
  <2> QED
    BY <2>1, <2>2, <2>3, <2>4 DEF Coming, Live
<1>2. CASE flush /\ base.session = 0
  <2>1. /\ UNCHANGED <<fw, gen, todo, mState, cache, msgs, eng, events, registered>>
        /\ threads' = threads + 1 /\ threads \in Nat /\ Live /\ (fw = "idle" => Settled)
    BY <1>2 DEF flush, adapterVars, engineVars, Typed, Live, Still
  <2>2. fw = "idle"
    BY <1>2, <2>1 DEF AnswerInv, Answering, Open, Live
  <2>3. gen \in registered /\ todo = <<>> /\ ~Fetch
    BY <2>1, <2>2 DEF AnswerInv, Answering, Announced, Settled, Fetch
  <2>4. threads' > 0 /\ Live'
    BY <2>1 DEF Live
  <2> QED
    BY <2>1, <2>3, <2>4 DEF Coming
<1>3. CASE flush /\ base.session # 0
  <2>1. /\ UNCHANGED <<fw, gen, todo, mState, cache, threads, eng, events, registered>>
        /\ Live /\ (fw = "idle" => Settled)
        /\ push("get", base.session, hist.requests + 1) /\ hist.requests + 1 \in Nat \ {0}
    BY <1>0, <1>3 DEF flush, adapterVars, engineVars, Live, Still
  <2>2. Fetch'
    BY <1>0, <2>1, PushFetches
  <2>3. CASE fw = "idle"
    <3>1. gen \in registered /\ todo = <<>> /\ ~Fetch
      BY <2>1, <2>3 DEF AnswerInv, Answering, Announced, Settled, Fetch
    <3> QED
      BY <2>1, <2>2, <3>1 DEF Coming, Live
  <2>4. CASE fw # "idle"
    <3>1. hist'.owed = hist.owed
      <4>1. PICK x, y : hist' = [hist EXCEPT !.calls = x, !.owed = hist.owed \/ fw = "idle", !.requests = y]
        BY <1>3 DEF flush
      <4>2. hist'.owed = (hist.owed \/ fw = "idle")
        BY <1>0, <4>1 DEF History
      <4> QED
        BY <1>0, <2>4, <4>2 DEF History
    <3>2. <<>> \in Seq(Nat)
      OBVIOUS
    <3> QED
      BY <2>1, <2>2, <3>1, <3>2, ComingKept
  <2> QED
    BY <2>3, <2>4
<1>4. CASE stop \/ cleanup \/ serviceDied
  <2>1. ~hist'.owed
    <3>1. PICK x : hist' = [hist EXCEPT !.calls = x, !.owed = FALSE]
      BY <1>4 DEF stop, cleanup, serviceDied, Leave
    <3> QED
      BY <1>0, <3>1 DEF History
  <2>2. UNCHANGED <<gen, mState, msgs, eng, events, registered>> /\ (Live' => Live)
    BY <1>4 DEF stop, cleanup, serviceDied, Leave, clientVars, adapterVars, engineVars, Live
  <2>3. Fetch' = Fetch
    BY <2>2 DEF Fetch
  <2> QED
    BY <2>1, <2>2, <2>3 DEF Coming
<1> QED
  BY <1>1, <1>2, <1>3, <1>4

LEMMA ComingSession ==
    ASSUME Typed, AnswerInv, Coming, SessionStep
    PROVE  Coming'
<1>0. hist \in History /\ hist.requests \in Nat /\ gen \in Nat /\ base.session \in Nat
  BY PipeParts DEF Typed
<1>1. /\ todo # <<>> /\ UNCHANGED <<fw, gen, events, registered, eng>> /\ request(Head(todo))
      /\ mState' = IF Head(todo) = "get" THEN "stopping" ELSE mState
  BY DEF SessionStep, adapterVars, engineVars
<1>2. ~hist'.owed
  <2>1. hist' = hist \/ hist' = [hist EXCEPT !.requests = @ + 1]
    BY <1>1 DEF request
  <2>2. ~hist.owed
    BY <1>1 DEF Coming
  <2> QED
    BY <1>0, <2>1, <2>2 DEF History
<1>3. ASSUME Live', mState' = "stopping"
      PROVE  (gen' \in registered' /\ events' # <<>>) \/ Fetch'
  <2>1. Live /\ base.session # 0
    BY <1>1, <1>3 DEF Live, AnswerInv, Answering, Open
  <2>2. push(Head(todo), base.session, hist.requests + 1)
    BY <1>1, <2>1 DEF request
  <2>3. CASE Head(todo) = "get"
    BY <1>0, <1>1, <2>1, <2>2, <2>3, PushFetches
  <2>4. CASE Head(todo) # "get"
    <3>1. (gen \in registered /\ events # <<>>) \/ Fetch
      BY <1>1, <1>3, <2>1, <2>4 DEF Coming
    <3>2. Head(todo) \in Ops
      BY <1>1 DEF Typed, Ops
    <3>3. PICK m : msgs' = Append(msgs, m) /\ m = [op |-> Head(todo), key |-> <<gen, base.session>>, n |-> hist.requests + 1]
      BY <2>2 DEF push
    <3>4. m \in Message
      BY <1>0, <3>2, <3>3 DEF Message, EngCall, Keys
    <3>5. Fetch => Fetch'
      BY <1>1, <3>3, <3>4, FetchKept DEF Typed
    <3> QED
      BY <1>1, <3>1, <3>5
  <2> QED
    BY <2>3, <2>4
<1> QED
  BY <1>2, <1>3 DEF Coming

\* A batch comes to the client.
LEMMA ComingCb ==
    ASSUME Typed, Coming, NEW b \in Seq(Nat), onBatchingCb(b),
           UNCHANGED <<fw, gen, todo, msgs, eng, registered>>,
           mState = "stopping" /\ hist.owed => threads' > 0 \/ events' # <<>> \/ Fetch
    PROVE  Coming'
<1>1. hist'.owed = hist.owed
  BY CbTyped
<1>2. Fetch' = Fetch /\ Live' = Live
  BY DEF Fetch, Live
<1>3. CASE mState = "stopping"
  <2>1. mState' = "stopped"
    BY <1>3 DEF onBatchingCb
  <2> QED
    BY <1>1, <1>2, <1>3, <2>1 DEF Coming
<1>4. CASE mState # "stopping"
  <2>1. mState' = mState /\ cache' = <<>>
    BY <1>4 DEF onBatchingCb
  <2> QED
    BY <1>1, <1>2, <1>4, <2>1 DEF Coming
<1> QED
  BY <1>3, <1>4

\* A call for locations that the adapter handles is passed on to the engine.
LEMMA ComingHandle ==
    ASSUME Typed, Removals, AnswerInv, Coming, HandleMsg
    PROVE  Coming'
<1> DEFINE m == msgs[1]
<1>1. /\ popped = None /\ msgs # <<>> /\ msgs' = Tail(msgs) /\ msgs \in Seq(Message)
      /\ UNCHANGED <<fw, gen, todo, mState, cache, threads, events>> /\ eng \in Seq(EngCall)
      /\ HandleAdd(m) \/ HandleStart(m) \/ HandleGet(m) \/ HandleStop(m) \/ HandleRemove(m)
      /\ m \in Message /\ m.key[1] \in 1..gen /\ (m.op = "remove" => m.key[1] < gen)
  <2>1. msgs # <<>> /\ msgs \in Seq(Message)
    BY DEF HandleMsg, Typed
  <2>2. Head(msgs) = m /\ 1 \in 1..Len(msgs) /\ m \in Message
    BY <2>1
  <2>3. m.key[1] \in 1..gen /\ (m.op = "remove" => m.key[1] < gen)
    BY <2>2 DEF Removals
  <2> QED
    BY <2>1, <2>2, <2>3 DEF HandleMsg, Idle, Typed, engineVars
<1>2. hist'.owed = hist.owed
  <2>1. PICK f : hist' = hist \/ hist' = [hist EXCEPT !.refused = f]
    BY <1>1 DEF HandleAdd, HandleStart, HandleGet, HandleStop, HandleRemove
  <2> QED
    BY <2>1 DEF Typed, History
<1>3. \A i \in 1..Len(msgs) : i = 1 \/ (i - 1 \in 1..Len(msgs') /\ msgs'[i - 1] = msgs[i])
  BY <1>1
<1> HIDE DEF m
<1>4. gen \in registered => gen \in registered'
  <2>1. m.op = "remove" => m.key[1] # gen
    BY <1>1
  <2> QED
    BY <1>1, <2>1 DEF HandleAdd, HandleStart, HandleGet, HandleStop, HandleRemove, adapterVars
<1>5. \A i \in 1..Len(eng) : i \in 1..Len(eng') /\ eng'[i] = eng[i]
  <2>1. CASE eng' = eng
    BY <2>1
  <2>2. CASE m.op \in Ops /\ Call(m)
    <3>1. eng' = Append(eng, m)
      BY <1>1, <2>2, MessageParts DEF Call
    <3> QED
      BY <1>1, <3>1
  <2>3. CASE eng' = eng \o StopsOf(m.key[1])
    <3>1. PICK t : t = StopsOf(m.key[1])
      OBVIOUS
    <3>2. t \in Seq(EngCall)
      BY <3>1, StopsSent
    <3>3. eng \in Seq(Message) /\ t \in Seq(Message) /\ eng' = eng \o t
      BY <1>1, <2>3, <3>1, <3>2 DEF Message
    <3> QED
      BY <3>3, ConcatParts
  <2> QED
    BY <1>1, <2>1, <2>2, <2>3
       DEF HandleAdd, HandleStart, HandleGet, HandleStop, HandleRemove, StopsOf, Ops, adapterVars
<1>6. ASSUME Live, Get(m, gen)
      PROVE  \E i \in 1..Len(eng') : Get(eng'[i], gen)
  <2>1. HandleGet(m)
    BY <1>1, <1>6 DEF HandleAdd, HandleStart, HandleStop, HandleRemove, Get
  <2>2. m.key \in sessions
    BY <1>1, <1>6, CallIsKnown DEF m, Get
  <2>3. eng' = Append(eng, m)
    BY <1>1, <2>1, <2>2, MessageParts DEF Call, HandleGet, Ops
  <2>4. Len(eng') \in 1..Len(eng') /\ eng'[Len(eng')] = m
    BY <1>1, <2>3
  <2> QED
    BY <1>6, <2>4
<1>7. Live /\ Fetch => Fetch'
  <2>1. ASSUME NEW i \in 1..Len(msgs), Get(msgs[i], gen), i # 1
        PROVE  \E j \in 1..Len(msgs') : Get(msgs'[j], gen)
    BY <1>3, <2>1
  <2>2. ASSUME NEW i \in 1..Len(eng), Get(eng[i], gen)
        PROVE  \E j \in 1..Len(eng') : Get(eng'[j], gen)
    BY <1>5, <2>2
  <2> QED
    BY <1>1, <1>6, <2>1, <2>2 DEF Fetch, m
<1>8. Live' = Live
  BY <1>1 DEF Live
<1> QED
  BY <1>1, <1>2, <1>4, <1>7, <1>8 DEF Coming

\* An engine that refuses no call for locations answers it with a batch.
LEMMA ComingEngine ==
    ASSUME Typed, AnswerInv, Coming, Refusable \subseteq {"stop"}, EngineAnswers
    PROVE  Coming'
<1> DEFINE c == eng[1]
<1>1. /\ UNCHANGED <<fw, gen, todo, mState, cache, threads, msgs, registered>>
      /\ eng # <<>> /\ eng' = Tail(eng) /\ eng \in Seq(EngCall) /\ Head(eng) = c
      /\ fifo \in Seq(Nat)
  <2>1. eng # <<>> /\ eng \in Seq(EngCall)
    BY DEF EngineAnswers, Typed
  <2>2. Head(eng) = c
    BY <2>1
  <2> QED
    BY <2>1, <2>2 DEF EngineAnswers, Typed
<1>2. \A i \in 1..Len(eng) : i = 1 \/ (i - 1 \in 1..Len(eng') /\ eng'[i - 1] = eng[i])
  BY <1>1
<1>3. hist'.owed = hist.owed
  <2>1. PICK f : hist' = hist \/ hist' = [hist EXCEPT !.refused = f]
    BY DEF EngineAnswers
  <2> QED
    BY <2>1 DEF Typed, History
<1>4. /\ events' = events \/ events' = Append(events, fifo)
      /\ c.op = "get" => events' = Append(events, fifo)
  BY <1>1 DEF EngineAnswers
<1> HIDE DEF c
<1>5. CASE Live
  <2>1. Announced
    BY <1>5 DEF AnswerInv, Answering
  <2>2. Fetch => Fetch' \/ (gen \in registered' /\ events' = Append(events, fifo))
    <3>1. ASSUME NEW i \in 1..Len(msgs), Get(msgs[i], gen)
          PROVE  Fetch'
      BY <1>1, <3>1 DEF Fetch
    <3>2. ASSUME NEW i \in 1..Len(eng), Get(eng[i], gen)
          PROVE  Fetch' \/ (gen \in registered' /\ events' = Append(events, fifo))
      <4>1. CASE i = 1
        BY <1>1, <1>4, <2>1, <3>2, <4>1 DEF Announced, Get, c
      <4>2. CASE i # 1
        BY <1>1, <1>2, <3>2, <4>2 DEF Fetch
      <4> QED
        BY <4>1, <4>2
    <3> QED
      BY <3>1, <3>2 DEF Fetch
  <2> QED
    BY <1>1, <1>3, <1>4, <2>2, ComingKept
<1>6. CASE ~Live
  BY <1>1, <1>3, <1>6 DEF Coming, Live
<1> QED
  BY <1>5, <1>6

LEMMA ComingStep ==
    ASSUME Typed, Removals, AnswerInv, Coming, Calm, Refusable \subseteq {"stop"}, [Next]_vars
    PROVE  Coming'
<1>0. /\ hist \in History /\ threads \in Nat /\ events \in Seq(Seq(Nat)) /\ fifo \in Seq(Nat)
      /\ <<>> \in Seq(Nat)
  BY DEF Typed
<1>1. CASE init
  <2>1. mState' = "stopped"
    BY <1>1 DEF init
  <2>2. ~hist'.owed
    <3>1. hist' = [hist EXCEPT !.calls = @ + 1, !.given = <<>>, !.reported = <<>>, !.owed = FALSE]
      BY <1>1 DEF init
    <3> QED
      BY <1>0, <3>1 DEF History
  <2> QED
    BY <2>1, <2>2 DEF Coming
<1>2. CASE start \/ flush \/ stop \/ cleanup \/ serviceDied
  BY <1>2, ComingCalls
<1>3. CASE SessionStep \/ HandleMsg \/ EngineAnswers
  BY <1>3, ComingSession, ComingHandle, ComingEngine
<1>4. CASE EmptyBatch
  <2>1. PICK b \in Seq(Nat) : onBatchingCb(b)
    BY <1>0, <1>4 DEF EmptyBatch
  <2>2. UNCHANGED <<fw, gen, todo, msgs, eng, registered, events>>
    BY <1>4 DEF EmptyBatch, adapterVars, engineVars
  <2>3. Len(events) >= 2 => events # <<>>
    BY <1>0
  <2> QED
    BY <2>1, <2>2, <2>3, ComingCb DEF Coming
<1>5. CASE DeliverBatch /\ gen \in registered
  <2>1. PICK b \in Seq(Nat) : onBatchingCb(b)
    BY <1>0, <1>5 DEF DeliverBatch
  <2>2. UNCHANGED <<fw, gen, todo, msgs, eng, registered, threads>> /\ events' = Tail(events)
    BY <1>5 DEF DeliverBatch, adapterVars
  <2>3. Len(events) >= 2 => events' # <<>>
    <3>1. events # <<>> => Len(Tail(events)) = Len(events) - 1 /\ Len(events) \in Nat
      BY <1>0
    <3>2. events = <<>> => ~(Len(events) >= 2)
      OBVIOUS
    <3>3. PICK n, k : n = Len(events) /\ k = Len(Tail(events))
      OBVIOUS
    <3>4. n >= 2 => k # 0
      BY <3>1, <3>2, <3>3
    <3>5. Tail(events) = <<>> => k = 0
      BY <3>3
    <3> QED
      BY <2>2, <3>3, <3>4, <3>5
  <2> QED
    BY <2>1, <2>2, <2>3, ComingCb DEF Coming
<1>6. CASE DeliverBatch /\ gen \notin registered
  <2>1. UNCHANGED <<fw, gen, todo, msgs, eng, registered, mState, cache, hist>>
    BY <1>6 DEF DeliverBatch, adapterVars
  <2>2. Live' = Live /\ Fetch' = Fetch
    BY <2>1 DEF Live, Fetch
  <2> QED
    BY <1>6, <2>1, <2>2 DEF Coming
<1>7. CASE OnResponse \/ Locate \/ Full \/ UNCHANGED vars
  <2>1. /\ UNCHANGED <<fw, gen, todo, mState, cache, threads, msgs, eng, registered>>
        /\ events' = events \/ events' = Append(events, fifo)
    BY <1>7 DEF OnResponse, Locate, Full, vars, clientVars, adapterVars, engineVars
  <2>2. hist'.owed = hist.owed
    <3>1. hist' = hist \/ hist' = [hist EXCEPT !.locs = @ + 1]
      BY <1>7 DEF OnResponse, Locate, Full, vars
    <3> QED
      BY <1>0, <3>1 DEF History
  <2>3. Fetch' = Fetch
    BY <2>1 DEF Fetch
  <2> QED
    BY <1>0, <2>1, <2>2, <2>3, ComingKept
<1> QED
  BY <1>1, <1>2, <1>3, <1>4, <1>5, <1>6, <1>7 DEF Next

\* The framework loses no location and gets them in their order, and a flush of a stopped
\* session empties the cache, whichever batch comes first: that of the stop, which is kept, or
\* the empty one of the flush.  The framework flushes a stopped session only when all is
\* answered and starts again only when the stop is, and the engine refuses no start and no
\* call for locations.
THEOREM FlushReportsAlways ==
    ASSUME Calm, Refusable \subseteq {"stop"}
    PROVE  Spec => []FlushReports
<1>1. "start" \notin Refusable
  OBVIOUS
<1>2. Init => Coming
  BY DEF Init, Coming, Live
<1>3. HalInv /\ AnswerInv /\ Coming /\ [Next]_vars => Coming'
  BY ComingStep DEF HalInv
<1>4. HalInv /\ AnswerInv /\ Coming => FlushReports
  <2> SUFFICES ASSUME HalInv, AnswerInv, Coming, hist.owed, Settled, events = <<>>, threads = 0
               PROVE  cache = <<>>
    BY DEF HalInv, InOrder, FlushReports
  <2>1. ~Fetch
    BY DEF Settled, Fetch
  <2>2. ~(threads > 0) /\ ~(Len(events) >= 2)
    OBVIOUS
  <2> QED
    BY <2>1, <2>2 DEF Coming
<1> QED
  BY <1>1, <1>2, <1>3, <1>4, HalInvAlways, AnswerInvAlways, PTL DEF Spec

-----------------------------------------------------------------------------
(* Sessions that go on running.                                              *)

In(s, op, k) == \E i \in 1..Len(s) : s[i].op = op /\ s[i].key = k

\* Session k runs or is going to.
Active(k) == k \in running \/ In(eng, "start", k) \/ In(msgs, "start", k)

\* The adapter will pass a stop of session k on to the engine.
Has(k) == k \in sessions \/ In(msgs, "start", k)

\* Its client is going to be removed, or the framework to stop it.
Removing(k) == \E i \in 1..Len(msgs) : IsRemove(msgs[i], "batching") /\ msgs[i].key[1] = k[1]
Wanted(k) == /\ k = key /\ base.session # 0
             /\ Live \/ \E i \in 1..Len(todo) : todo[i] = "stop"

\* A stop of session k is under way, or has been refused.
Secured(k) == Active(k) =>
    In(eng, "stop", k) \/ (Has(k) /\ (k \in hist.refused \/ In(msgs, "stop", k)))

Held(k) == Active(k) =>
    \/ In(eng, "stop", k)
    \/ Has(k) /\ (k \in hist.refused \/ In(msgs, "stop", k) \/ Removing(k) \/ Wanted(k))

\* The start of a session comes before its other calls; ids are not given twice.
StartsFirst ==
    /\ \A i, j \in 1..Len(eng) : i < j /\ eng[j].op = "start" => eng[i].key # eng[j].key
    /\ \A i, j \in 1..Len(msgs) : i < j /\ msgs[i].op \in Ops /\ msgs[j].op = "start" =>
          msgs[i].key # msgs[j].key
    /\ \A i \in 1..Len(eng), j \in 1..Len(msgs) : msgs[j].op = "start" => eng[i].key # msgs[j].key
    /\ \A i \in 1..Len(eng) : eng[i].key[2] <= hist.ids
    /\ \A i \in 1..Len(msgs) : msgs[i].op \in Ops => msgs[i].key[2] <= hist.ids
    /\ \A k \in sessions : k[2] <= hist.ids
    /\ base.session <= hist.ids

\* A session leaves the dictionary only when its stop is under way or has been done or
\* refused, for the first request is the start until its call is answered.
StopsAsked == base.session # 0 =>
    /\ Announced
    /\ Queued("stop") => Secured(key)
    /\ \A j \in 1..Len(base.queue) : base.queue[j].op = "start" => j = 1
    /\ Queued("start") => In(eng, "start", key) \/ In(msgs, "start", key)
    /\ popped # None /\ popped.key = key /\ removesSession(popped.req, popped.ok) => Secured(key)

EndInv == StartsFirst /\ StopsAsked /\ \A k \in Keys : Held(k)

LEMMA InParts ==
    ASSUME NEW s \in Seq(Message), NEW op, NEW k
    PROVE  /\ \A m \in Message : In(Append(s, m), op, k) <=> In(s, op, k) \/ (m.op = op /\ m.key = k)
           /\ s # <<>> => (In(s, op, k) <=> In(Tail(s), op, k) \/ (s[1].op = op /\ s[1].key = k))
           /\ \A t \in Seq(Message) : In(s \o t, op, k) <=> In(s, op, k) \/ In(t, op, k)
<1>1. ASSUME NEW m \in Message
      PROVE  In(Append(s, m), op, k) <=> In(s, op, k) \/ (m.op = op /\ m.key = k)
  <2> DEFINE v == Append(s, m)
  <2>1. /\ \A i \in 1..Len(s) : i \in 1..Len(v) /\ v[i] = s[i]
        /\ Len(s) + 1 \in 1..Len(v) /\ v[Len(s) + 1] = m
        /\ \A i \in 1..Len(v) : i \in 1..Len(s) \/ i = Len(s) + 1
    OBVIOUS
  <2> HIDE DEF v
  <2>2. In(v, op, k) <=> In(s, op, k) \/ (m.op = op /\ m.key = k)
    BY <2>1 DEF In
  <2> QED
    BY <2>2 DEF v
<1>2. ASSUME s # <<>>
      PROVE  In(s, op, k) <=> In(Tail(s), op, k) \/ (s[1].op = op /\ s[1].key = k)
  <2> DEFINE v == Tail(s)
  <2>1. /\ \A i \in 1..Len(v) : i + 1 \in 1..Len(s) /\ v[i] = s[i + 1]
        /\ 1 \in 1..Len(s)
        /\ \A i \in 1..Len(s) : i = 1 \/ (i - 1 \in 1..Len(v) /\ v[i - 1] = s[i])
    BY <1>2
  <2> HIDE DEF v
  <2>2. In(s, op, k) <=> In(v, op, k) \/ (s[1].op = op /\ s[1].key = k)
    BY SMTT(30), <2>1 DEF In
  <2> QED
    BY <2>2 DEF v
<1>3. ASSUME NEW t \in Seq(Message)
      PROVE  In(s \o t, op, k) <=> In(s, op, k) \/ In(t, op, k)
  <2> DEFINE v == s \o t
  <2>1. /\ \A i \in 1..Len(s) : i \in 1..Len(v) /\ v[i] = s[i]
        /\ \A i \in 1..Len(t) : Len(s) + i \in 1..Len(v) /\ v[Len(s) + i] = t[i]
        /\ \A i \in 1..Len(v) : i \in 1..Len(s) \/ (i - Len(s) \in 1..Len(t) /\ v[i] = t[i - Len(s)])
    <3>1. /\ \A i \in 1..Len(s) : (s \o t)[i] = s[i] /\ i \in 1..Len(s \o t)
          /\ \A j \in 1..Len(t) : (s \o t)[Len(s) + j] = t[j] /\ Len(s) + j \in 1..Len(s \o t)
          /\ \A i \in 1..Len(s \o t) : \/ i \in 1..Len(s)
                                       \/ /\ i > Len(s) /\ i - Len(s) \in 1..Len(t)
                                          /\ (s \o t)[i] = t[i - Len(s)]
      BY ConcatParts
    <3> HIDE DEF v
    <3>2. v = s \o t
      BY DEF v
    <3> QED
      BY <3>1, <3>2
  <2> HIDE DEF v
  <2>2. In(v, op, k) => In(s, op, k) \/ In(t, op, k)
    <3>1. ASSUME NEW i \in 1..Len(v), v[i].op = op, v[i].key = k
          PROVE  In(s, op, k) \/ In(t, op, k)
      <4>1. CASE i \in 1..Len(s)
        BY <2>1, <3>1, <4>1 DEF In
      <4>2. CASE ~(i \in 1..Len(s))
        <5>1. PICK j \in 1..Len(t) : v[i] = t[j]
          BY <2>1, <4>2
        <5> QED
          BY <3>1, <5>1 DEF In
      <4> QED
        BY <4>1, <4>2
    <3> QED
      BY <3>1 DEF In
  <2>3. In(s, op, k) => In(v, op, k)
    BY <2>1 DEF In
  <2>4. In(t, op, k) => In(v, op, k)
    <3>1. ASSUME NEW i \in 1..Len(t), t[i].op = op, t[i].key = k
          PROVE  \E j \in 1..Len(v) : v[j].op = op /\ v[j].key = k
      BY <2>1, <3>1
    <3> QED
      BY <3>1 DEF In
  <2> QED
    BY <2>2, <2>3, <2>4 DEF v
<1> QED
  BY <1>1, <1>2, <1>3

\* What a step has to keep of session k.
Kept(k) ==
    /\ Active(k)' => Active(k)
    /\ In(eng, "stop", k) => Secured(k)'
    /\ Has(k) => Has(k)' \/ In(eng', "stop", k)
    /\ Has(k) /\ (In(msgs, "stop", k) \/ k \in hist.refused) => Secured(k)'
    /\ Has(k) /\ Removing(k) => Removing(k)' \/ Secured(k)'
    /\ Has(k) /\ Wanted(k) => Wanted(k)' \/ Removing(k)' \/ Secured(k)'

LEMMA KeptHeld ==
    ASSUME NEW k, Kept(k)
    PROVE  (Held(k) => Held(k)') /\ (Secured(k) => Secured(k)')
<1>1. Secured(k) => Secured(k)'
  BY DEF Kept, Secured
<1>2. Secured(k)' => Held(k)'
  BY DEF Secured, Held
<1>3. ASSUME Held(k), Active(k)' PROVE Held(k)'
  <2>1. \/ In(eng, "stop", k)
        \/ Has(k) /\ (k \in hist.refused \/ In(msgs, "stop", k) \/ Removing(k) \/ Wanted(k))
    BY <1>3 DEF Held, Kept
  <2>2. Secured(k)' \/ (Has(k) /\ (Removing(k)' \/ Wanted(k)'))
    BY <2>1 DEF Kept
  <2>3. Has(k) => Has(k)' \/ In(eng, "stop", k)'
    BY DEF Kept
  <2> QED
    BY <1>2, <2>2, <2>3 DEF Held
<1>4. ~Active(k)' => Held(k)'
  BY DEF Held
<1> QED
  BY <1>1, <1>3, <1>4

\* A step that has to do with no call.
LEMMA EndSame ==
    ASSUME EndInv, hist'.refused = hist.refused, hist'.ids = hist.ids,
           UNCHANGED <<gen, base, msgs, eng, registered, sessions, running>>,
           popped' = popped \/ popped' = None,
           \A k : Wanted(k) => Wanted(k)'
    PROVE  EndInv'
<1>1. StartsFirst'
  BY DEF EndInv, StartsFirst
<1>2. \A k : /\ Active(k)' = Active(k) /\ Has(k)' = Has(k) /\ Removing(k)' = Removing(k)
             /\ Secured(k)' = Secured(k)
  BY DEF Active, Has, Removing, Secured
<1>3. \A k \in Keys : Held(k)'
  BY <1>2 DEF EndInv, Held
<1>4. key' = key /\ Announced' = Announced /\ \A op : Queued(op)' = Queued(op)
  BY DEF key, Announced, Queued
<1>5. StopsAsked'
  BY <1>2, <1>4, Zenon DEF EndInv, StopsAsked
<1> QED
  BY <1>1, <1>3, <1>5 DEF EndInv

\* What a push does to sessions.
LEMMA PushKept ==
    ASSUME Typed, NEW op \in Ops, NEW s \in Nat, NEW n \in Nat, push(op, s, n), NEW k,
           UNCHANGED <<gen, eng, sessions, running>>, hist'.refused = hist.refused,
           op = "start" => k # <<gen, s>>,
           Wanted(k) => Wanted(k)' \/ (op = "stop" /\ k = <<gen, s>>)
    PROVE  /\ Kept(k)
           /\ op = "stop" /\ k = <<gen, s>> /\ Held(k) => Secured(k)'
           /\ \A o : In(msgs', o, k) <=> In(msgs, o, k) \/ (op = o /\ k = <<gen, s>>)
<1> DEFINE a == [op |-> op, key |-> <<gen, s>>, n |-> n]
<1>1. PICK m : m = a
  OBVIOUS
<1>2. m.op = op /\ m.key = <<gen, s>> /\ m \in Message /\ msgs' = Append(msgs, m)
      /\ msgs \in Seq(Message)
  BY SMTT(30), <1>1 DEF Typed, Message, EngCall, Ops, Keys, push
<1> HIDE DEF a
<1>3. \A o : In(msgs', o, k) <=> In(msgs, o, k) \/ (op = o /\ k = <<gen, s>>)
  BY <1>2, InParts
<1>4. Removing(k) => Removing(k)'
  <2>1. \A i \in 1..Len(msgs) : i \in 1..Len(msgs') /\ msgs'[i] = msgs[i]
    BY <1>2
  <2> QED
    BY <2>1 DEF Removing
<1>5. /\ Active(k)' <=> Active(k)
      /\ Has(k)' <=> Has(k)
  BY <1>3 DEF Active, Has
<1>6. /\ In(eng, "stop", k) => Secured(k)'
      /\ Has(k) /\ (In(msgs, "stop", k) \/ k \in hist.refused) => Secured(k)'
      /\ Has(k) /\ op = "stop" /\ k = <<gen, s>> => Secured(k)'
  BY <1>3, <1>5 DEF Secured
<1>7. Kept(k)
  BY <1>4, <1>5, <1>6 DEF Kept
<1>8. op = "stop" /\ k = <<gen, s>> /\ Held(k) => Secured(k)'
  BY <1>5, <1>6 DEF Held, Secured
<1> QED
  BY <1>3, <1>7, <1>8

\* The new call is the last one.
LEMMA PushFirst ==
    ASSUME Typed, StartsFirst, NEW op \in Ops, NEW s \in Nat, NEW n \in Nat, push(op, s, n),
           UNCHANGED <<eng, sessions>>, hist'.ids \in Nat, hist.ids <= hist'.ids,
           s <= hist'.ids, op = "start" => hist.ids < s
    PROVE  StartsFirst'
<1> DEFINE a == [op |-> op, key |-> <<gen, s>>, n |-> n]
<1>1. PICK m : m = a
  OBVIOUS
<1>2. m.op = op /\ m.key = <<gen, s>> /\ m.key[2] = s /\ m \in Message /\ msgs' = Append(msgs, m)
      /\ msgs \in Seq(Message) /\ hist.ids \in Nat /\ base'.session = s /\ base.session \in Nat
  BY <1>1, PipeParts DEF Message, EngCall, Ops, Keys, push
<1> HIDE DEF a
<1>3. /\ \A i \in 1..Len(msgs') : \/ i \in 1..Len(msgs) /\ msgs'[i] = msgs[i]
                                  \/ i = Len(msgs) + 1 /\ msgs'[i] = m
      /\ Len(msgs) \in Nat
  BY <1>2
<1>4. /\ \A i \in 1..Len(eng) : eng[i].key[2] \in Nat
      /\ \A i \in 1..Len(msgs) : msgs[i].key[2] \in Nat
      /\ \A k \in sessions : k[2] \in Nat
  <2>1. \A k \in Keys : k[2] \in Nat
    BY KeyParts
  <2>2. eng \in Seq(Message)
    BY PipeParts
  <2>3. /\ \A i \in 1..Len(eng) : eng[i] \in Message
        /\ \A i \in 1..Len(msgs) : msgs[i] \in Message
    BY <1>2, <2>2
  <2>4. \A x \in Message : x.key \in Keys
    BY MessageParts
  <2> QED
    BY <2>1, <2>3, <2>4 DEF Typed
<1>5. \A x, y \in Nat : /\ x <= hist.ids => x <= hist'.ids
                        /\ x <= hist.ids /\ hist.ids < y => x # y
  BY <1>2
<1>6. /\ \A i \in 1..Len(eng) : eng[i].key[2] <= hist'.ids
      /\ \A k \in sessions : k[2] <= hist'.ids
      /\ \A i \in 1..Len(msgs') : msgs'[i].op \in Ops => msgs'[i].key[2] <= hist'.ids
  <2>1. \A i \in 1..Len(msgs) : msgs[i].op \in Ops => msgs[i].key[2] <= hist'.ids
    BY <1>4, <1>5 DEF StartsFirst
  <2>2. \A i \in 1..Len(eng) : eng[i].key[2] <= hist'.ids
    BY <1>4, <1>5 DEF StartsFirst
  <2>3. \A k \in sessions : k[2] <= hist'.ids
    BY <1>4, <1>5 DEF StartsFirst
  <2> QED
    BY <1>2, <1>3, <2>1, <2>2, <2>3
<1>7. op = "start" => /\ \A i \in 1..Len(eng) : eng[i].key # m.key
                      /\ \A i \in 1..Len(msgs) : msgs[i].op \in Ops => msgs[i].key # m.key
  <2>1. op = "start" => \A i \in 1..Len(eng) : eng[i].key[2] # s
    BY <1>4, <1>5 DEF StartsFirst
  <2>2. op = "start" => \A i \in 1..Len(msgs) : msgs[i].op \in Ops => msgs[i].key[2] # s
    BY <1>4, <1>5 DEF StartsFirst
  <2> QED
    BY <1>2, <2>1, <2>2
<1>8. ASSUME NEW i \in 1..Len(msgs'), NEW j \in 1..Len(msgs'), i < j, msgs'[i].op \in Ops,
             msgs'[j].op = "start"
      PROVE  msgs'[i].key # msgs'[j].key
  <2>1. i \in 1..Len(msgs) /\ msgs'[i] = msgs[i]
    BY <1>3, <1>8
  <2>2. CASE j \in 1..Len(msgs) /\ msgs'[j] = msgs[j]
    BY <1>8, <2>1, <2>2 DEF StartsFirst
  <2>3. CASE msgs'[j] = m
    BY <1>2, <1>7, <1>8, <2>1, <2>3
  <2> QED
    BY <1>3, <2>2, <2>3
<1>9. ASSUME NEW i \in 1..Len(eng), NEW j \in 1..Len(msgs'), msgs'[j].op = "start"
      PROVE  eng[i].key # msgs'[j].key
  <2>1. CASE j \in 1..Len(msgs) /\ msgs'[j] = msgs[j]
    BY <1>9, <2>1 DEF StartsFirst
  <2>2. CASE msgs'[j] = m
    BY <1>2, <1>7, <1>9, <2>2
  <2> QED
    BY <1>3, <2>1, <2>2
<1> QED
  BY <1>2, <1>6, <1>8, <1>9 DEF StartsFirst

\* A call about the session there is.
LEMMA EndCall ==
    ASSUME Typed, EndInv, NEW op \in {"get", "stop"}, NEW n \in Nat, base.session # 0,
           push(op, base.session, n),
           UNCHANGED <<gen, popped, eng, registered, sessions, running>>,
           hist'.refused = hist.refused, hist'.ids = hist.ids,
           \A k : Wanted(k) => Wanted(k)' \/ (op = "stop" /\ k = key)
    PROVE  EndInv'
<1>1. op \in Ops /\ op # "start" /\ base.session \in Nat /\ hist.ids \in Nat
      /\ base.queue \in Seq(Request) /\ msgs \in Seq(Message)
  BY PipeParts DEF Ops
<1>2. StartsFirst'
  <2>1. base.session <= hist.ids
    BY DEF EndInv, StartsFirst
  <2> QED
    BY <1>1, <2>1, PushFirst DEF EndInv
<1>3. \A k : /\ Kept(k)
             /\ op = "stop" /\ k = key /\ Held(k) => Secured(k)'
             /\ \A o : In(msgs', o, k) <=> In(msgs, o, k) \/ (op = o /\ k = key)
  BY <1>1, PushKept DEF key
<1>4. \A k \in Keys : Held(k)'
  BY <1>3, KeptHeld DEF EndInv
<1>5. base'.session = base.session /\ key' = key /\ key \in Keys
      /\ base'.queue = Append(base.queue, [op |-> op, n |-> n])
  BY <1>1 DEF push, key, Keys, Typed
<1>6. /\ \A j \in 1..Len(base'.queue) : \/ j \in 1..Len(base.queue) /\ base'.queue[j] = base.queue[j]
                                        \/ base'.queue[j].op = op
  <2> DEFINE r == [op |-> op, n |-> n]
  <2>1. r \in Request /\ r.op = op
    BY <1>1 DEF Request
  <2> HIDE DEF r
  <2>2. base'.queue = Append(base.queue, r)
    BY <1>5 DEF r
  <2> QED
    BY <1>1, <2>1, <2>2
<1>7. Announced'
  <2> DEFINE a == [op |-> op, key |-> <<gen, base.session>>, n |-> n]
  <2>1. PICK m : m = a
    OBVIOUS
  <2>2. m \in Message /\ msgs' = Append(msgs, m)
    BY <1>1, <2>1, PipeParts DEF push, Message, EngCall, Keys
  <2>3. Announced
    BY DEF EndInv, StopsAsked
  <2> HIDE DEF a
  <2> QED
    BY <1>1, <2>2, <2>3, AnnouncedAppend
<1>8. Queued("stop")' => Secured(key)'
  <2>1. Queued("stop")' => Queued("stop") \/ op = "stop"
    BY <1>6 DEF Queued
  <2>2. Queued("stop") => Secured(key)
    BY DEF EndInv, StopsAsked
  <2>3. Secured(key) => \A k : k = key => Secured(k)'
    BY <1>3, KeptHeld
  <2>4. op = "stop" => \A k : k = key => Secured(k)'
    BY <1>3, <1>5 DEF EndInv
  <2>5. (\A k : k = key => Secured(k)') => Secured(key)'
    BY <1>5
  <2> QED
    BY <2>1, <2>2, <2>3, <2>4, <2>5
<1>9. \A j \in 1..Len(base'.queue) : base'.queue[j].op = "start" => j = 1
  BY <1>1, <1>6 DEF EndInv, StopsAsked
<1>10. Queued("start")' => In(eng', "start", key') \/ In(msgs', "start", key')
  <2>1. Queued("start")' => Queued("start")
    BY <1>1, <1>6 DEF Queued
  <2>2. Queued("start") => In(eng, "start", key) \/ In(msgs, "start", key)
    BY DEF EndInv, StopsAsked
  <2> QED
    BY <1>3, <1>5, <2>1, <2>2
<1>11. popped # None /\ popped.key = key /\ removesSession(popped.req, popped.ok) => Secured(key)'
  <2>1. Secured(key) => \A k : k = key => Secured(k)'
    BY <1>3, KeptHeld
  <2>2. (\A k : k = key => Secured(k)') => Secured(key)'
    BY <1>5
  <2> QED
    BY <2>1, <2>2 DEF EndInv, StopsAsked
<1>12. StopsAsked'
  BY <1>5, <1>7, <1>8, <1>9, <1>10, <1>11 DEF StopsAsked
<1> QED
  BY <1>2, <1>4, <1>12 DEF EndInv

\* The start of a new session.
LEMMA EndStart ==
    ASSUME Typed, EndInv, base.session = 0, base.queue = <<>>, Announced, Live', Live,
           NEW s \in Nat, s = hist.ids + 1, NEW n \in Nat, push("start", s, n),
           UNCHANGED <<gen, popped, eng, registered, sessions, running>>,
           hist'.refused = hist.refused, hist'.ids = s,
           popped # None => popped.key[1] # gen
    PROVE  EndInv'
<1>1. "start" \in Ops /\ hist.ids \in Nat /\ msgs \in Seq(Message) /\ gen \in Nat
  BY PipeParts DEF Ops
<1>2. StartsFirst'
  BY <1>1, PushFirst DEF EndInv
<1>3. \A k : ~Wanted(k)
  BY DEF Wanted
<1>4. base'.session = s /\ s # 0 /\ key' = <<gen, s>> /\ key'[1] = gen
      /\ base'.queue = Append(base.queue, [op |-> "start", n |-> n])
  BY <1>1 DEF push, key
<1>5. \A k : k # <<gen, s>> => Kept(k)
  BY <1>1, <1>3, PushKept
<1>6. In(msgs', "start", <<gen, s>>) /\ Announced'
  <2> DEFINE a == [op |-> "start", key |-> <<gen, s>>, n |-> n]
  <2>1. PICK m : m = a
    OBVIOUS
  <2>2. m \in Message /\ m.op = "start" /\ m.key = <<gen, s>> /\ msgs' = Append(msgs, m)
    BY <1>1, <2>1 DEF push, Message, EngCall, Keys
  <2> HIDE DEF a
  <2>3. Announced'
    BY <1>1, <2>2, AnnouncedAppend
  <2>4. In(msgs', "start", <<gen, s>>)
    BY <1>1, <2>2, InParts
  <2> QED
    BY <2>3, <2>4
<1>7. ASSUME NEW k \in Keys PROVE Held(k)'
  <2>1. CASE k = <<gen, s>>
    <3>1. Has(k)' /\ Wanted(k)'
      BY <1>4, <1>6, <2>1 DEF Has, Wanted
    <3> QED
      BY <3>1 DEF Held
  <2>2. CASE k # <<gen, s>>
    BY <1>5, <2>2, KeptHeld DEF EndInv
  <2> QED
    BY <2>1, <2>2
<1>8. Len(base'.queue) = 1 /\ base'.queue[1].op = "start"
  <2>1. PICK r : r = [op |-> "start", n |-> n]
    OBVIOUS
  <2>2. base'.queue = Append(<<>>, r) /\ r.op = "start"
    BY <1>4, <2>1
  <2> QED
    BY <2>2
<1>9. ~Queued("stop")' /\ \A j \in 1..Len(base'.queue) : j = 1
  BY <1>8 DEF Queued
<1>10. ~(popped' # None /\ popped'.key = key')
  BY <1>4
<1>11. StopsAsked'
  BY <1>4, <1>6, <1>9, <1>10 DEF StopsAsked
<1> QED
  BY <1>2, <1>7, <1>11 DEF EndInv

LEMMA EndInit ==
    ASSUME Typed, Removals, EndInv, init
    PROVE  EndInv'
<1>1. /\ UNCHANGED <<registered, sessions, eng, running>> /\ gen' = gen + 1
      /\ base' = [session |-> 0, queue |-> <<>>] /\ todo = <<>> /\ hist.ids \in Nat
  BY PipeParts DEF init, MayCall, adapterVars, engineVars
<1>2. hist'.ids = hist.ids /\ hist'.refused = hist.refused
  <2>1. hist' = [hist EXCEPT !.calls = @ + 1, !.given = <<>>, !.reported = <<>>, !.owed = FALSE]
    BY DEF init
  <2> QED
    BY <2>1 DEF Typed, History
<1>3. /\ \A i \in 1..Len(msgs) : i \in 1..Len(msgs') /\ msgs'[i] = msgs[i]
      /\ \A i \in 1..Len(msgs') : \/ i \in 1..Len(msgs) /\ msgs'[i] = msgs[i]
                                  \/ msgs'[i].op \notin Ops
      /\ gen # 0 => \E i \in 1..Len(msgs') : IsRemove(msgs'[i], "batching") /\ msgs'[i].key[1] = gen
  BY InitMessages
<1>4. base'.session = 0
  BY <1>1
<1>5. StartsFirst'
  <2>1. \A i \in 1..Len(msgs') : msgs'[i].op \in Ops => i \in 1..Len(msgs) /\ msgs'[i] = msgs[i]
    BY <1>3
  <2>2. "start" \in Ops
    BY DEF Ops
  <2>3. StartsFirst
    BY DEF EndInv
  <2>4. \A i, j \in 1..Len(msgs') : i < j /\ msgs'[i].op \in Ops /\ msgs'[j].op = "start" =>
            msgs'[i].key # msgs'[j].key
    BY <2>1, <2>2, <2>3 DEF StartsFirst
  <2>5. \A i \in 1..Len(eng), j \in 1..Len(msgs') : msgs'[j].op = "start" => eng[i].key # msgs'[j].key
    BY <2>1, <2>2, <2>3 DEF StartsFirst
  <2>6. \A i \in 1..Len(msgs') : msgs'[i].op \in Ops => msgs'[i].key[2] <= hist.ids
    BY <2>1, <2>3 DEF StartsFirst
  <2>7. base'.session <= hist'.ids
    BY <1>1, <1>2, <1>4
  <2>8. eng' = eng /\ sessions' = sessions
    BY <1>1
  <2> QED
    BY <1>2, <2>3, <2>4, <2>5, <2>6, <2>7, <2>8 DEF StartsFirst
<1>6. StopsAsked'
  BY <1>4 DEF StopsAsked
<1>7. ASSUME NEW k \in Keys PROVE Held(k)'
  <2>1. \A o \in Ops : In(msgs', o, k) <=> In(msgs, o, k)
    BY <1>3 DEF In
  <2>2. (In(msgs', "start", k) <=> In(msgs, "start", k)) /\ (In(msgs', "stop", k) <=> In(msgs, "stop", k))
    BY <2>1 DEF Ops
  <2>3. Active(k)' <=> Active(k)
    BY <1>1, <2>2 DEF Active
  <2>4. Has(k)' <=> Has(k)
    BY <1>1, <2>2 DEF Has
  <2>5. Removing(k) => Removing(k)'
    BY <1>3 DEF Removing
  <2>6. Wanted(k) => Removing(k)'
    <3>1. ASSUME Wanted(k) PROVE gen # 0 /\ k[1] = gen
      <4>1. 1..Len(todo) = {}
        BY <1>1
      <4> QED
        BY <3>1, <4>1 DEF Wanted, key, Live, Typed
    <3> QED
      BY <1>3, <3>1 DEF Removing
  <2>7. Kept(k)
    BY <1>1, <1>2, <2>2, <2>3, <2>4, <2>5, <2>6 DEF Kept, Secured
  <2> QED
    BY <2>7, KeptHeld DEF EndInv
<1> QED
  BY <1>5, <1>6, <1>7 DEF EndInv

LEMMA EndFramework ==
    ASSUME Typed, AnswerInv, EndInv, start \/ flush \/ stop \/ cleanup \/ serviceDied \/ SessionStep
    PROVE  EndInv'
<1>0. hist \in History /\ hist.requests \in Nat /\ hist.ids \in Nat /\ base.session \in Nat
  BY PipeParts DEF Typed
<1>1. CASE start
  <2>1. /\ UNCHANGED <<gen, todo, popped, eng, registered, sessions, running>>
        /\ fw = "idle"
    BY <1>1 DEF start, adapterVars, engineVars
  <2>2. CASE base.session # 0
    <3>1. fw' = "started" /\ base' = base /\ msgs' = msgs /\ hist' = [hist EXCEPT !.calls = @ + 1]
      BY <1>1, <2>2 DEF start
    <3>2. hist'.refused = hist.refused /\ hist'.ids = hist.ids
      BY <1>0, <3>1 DEF History
    <3>3. \A k : Wanted(k) => Wanted(k)'
      BY <2>1, <3>1 DEF Wanted, key, Live
    <3> QED
      BY <2>1, <3>1, <3>2, <3>3, EndSame
  <2>3. CASE base.session = 0
    <3>1. locAPIStartSession /\ fw' = "started"
      BY <1>1, <2>3 DEF start
    <3>2. PICK s : s = hist.ids + 1
      OBVIOUS
    <3>3. /\ push("start", s, hist.requests + 1)
          /\ hist' = [hist EXCEPT !.ids = s, !.requests = @ + 1, !.calls = @ + 1]
      BY <3>1, <3>2 DEF locAPIStartSession
    <3>4. hist'.refused = hist.refused /\ hist'.ids = s
      BY <1>0, <3>3 DEF History
    <3>5. Live /\ Live'
      BY <2>1, <3>1 DEF Live
    <3>6. Aligned /\ Announced /\ Right
      BY <3>5 DEF AnswerInv, Answering
    <3>7. base.queue = <<>>
      <4>1. PICK low \in Nat : Matches(pipe, base.queue, gen, base.session, low)
        BY <3>6 DEF Aligned
      <4>2. pipe \in Seq(Message) /\ base.queue \in Seq(Request)
        BY PipeParts
      <4>3. base.queue # <<>> => base.session # 0
        BY <4>1, <4>2, MatchesFacts
      <4> QED
        BY <2>3, <4>3
    <3>8. popped # None => popped.key[1] # gen
      BY <2>3, <3>6 DEF Right
    <3>9. s \in Nat /\ hist.requests + 1 \in Nat
      BY <1>0, <3>2
    <3> QED
      BY <2>1, <2>3, <3>2, <3>3, <3>4, <3>5, <3>6, <3>7, <3>8, <3>9, EndStart
  <2> QED
    BY <2>2, <2>3
<1>2. CASE flush
  <2>1. UNCHANGED <<fw, gen, todo, popped, eng, registered, sessions, running>>
    BY <1>2 DEF flush, adapterVars, engineVars
  <2>2. hist'.refused = hist.refused /\ hist'.ids = hist.ids
    <3>1. PICK x, y, z : hist' = [hist EXCEPT !.calls = x, !.owed = y, !.requests = z]
      BY <1>2 DEF flush
    <3> QED
      BY <1>0, <3>1 DEF History
  <2>3. CASE base.session = 0
    <3>1. base' = base /\ msgs' = msgs
      BY <1>2, <2>3 DEF flush
    <3>2. \A k : Wanted(k) => Wanted(k)'
      BY <2>1, <3>1 DEF Wanted, key, Live
    <3> QED
      BY <2>1, <2>2, <3>1, <3>2, EndSame
  <2>4. CASE base.session # 0
    <3>1. push("get", base.session, hist.requests + 1) /\ hist.requests + 1 \in Nat
      BY <1>0, <1>2, <2>4 DEF flush
    <3>2. base'.session = base.session
      BY <3>1 DEF push
    <3>3. \A k : Wanted(k) => Wanted(k)'
      BY <2>1, <3>2 DEF Wanted, key, Live
    <3> QED
      BY <2>1, <2>2, <2>4, <3>1, <3>3, EndCall
  <2> QED
    BY <2>3, <2>4
<1>3. CASE stop \/ cleanup \/ serviceDied
  <2>1. /\ UNCHANGED <<gen, base, popped, msgs, eng, registered, sessions, running>>
        /\ \/ fw' = "idle"
           \/ todo' = <<"get", "stop">>
           \/ todo' = <<"get", "stop">> \o <<"get", "stop">>
    BY <1>3 DEF stop, cleanup, serviceDied, Leave, stopSession, clientVars, adapterVars, engineVars
  <2>2. hist'.refused = hist.refused /\ hist'.ids = hist.ids
    <3>1. hist' = [hist EXCEPT !.calls = @ + 1, !.owed = FALSE]
      BY <1>3 DEF stop, cleanup, serviceDied, Leave
    <3> QED
      BY <1>0, <3>1 DEF History
  <2>3. Live' \/ \E i \in 1..Len(todo') : todo'[i] = "stop"
    <3>1. CASE fw' = "idle"
      BY <3>1 DEF Live
    <3>2. CASE todo' = <<"get", "stop">>
      <4>1. Len(todo') = 2 /\ todo'[2] = "stop"
        BY <3>2
      <4> QED
        BY <4>1
    <3>3. CASE todo' = <<"get", "stop">> \o <<"get", "stop">>
      <4>1. Len(todo') = 4 /\ todo'[2] = "stop"
        BY <3>3
      <4> QED
        BY <4>1
    <3> QED
      BY <2>1, <3>1, <3>2, <3>3
  <2>4. \A k : Wanted(k) => Wanted(k)'
    BY <2>1, <2>3 DEF Wanted, key
  <2> QED
    BY <2>1, <2>2, <2>4, EndSame
<1>4. CASE SessionStep
  <2> DEFINE op == Head(todo)
  <2>1. /\ todo # <<>> /\ todo' = Tail(todo) /\ todo \in Seq({"get", "stop"}) /\ request(op)
        /\ UNCHANGED <<fw, gen, popped, eng, registered, sessions, running>>
    BY <1>4 DEF SessionStep, Typed, adapterVars, engineVars
  <2>2. op \in {"get", "stop"} /\ op = todo[1]
    BY <2>1
  <2>3. \A i \in 1..Len(todo) : i = 1 \/ (i - 1 \in 1..Len(todo') /\ todo'[i - 1] = todo[i])
    BY <2>1
  <2>4. PICK o \in {"get", "stop"} : o = op
    BY <2>2
  <2> HIDE DEF op
  <2>5. (\E i \in 1..Len(todo) : todo[i] = "stop") =>
            (\E i \in 1..Len(todo') : todo'[i] = "stop") \/ o = "stop"
    BY <2>2, <2>3, <2>4
  <2>6. CASE base.session = 0
    <3>1. UNCHANGED <<base, msgs, hist>>
      BY <2>1, <2>6 DEF request
    <3>2. \A k : ~Wanted(k)
      BY <2>6 DEF Wanted
    <3> QED
      BY <2>1, <3>1, <3>2, EndSame
  <2>7. CASE base.session # 0
    <3>1. push(o, base.session, hist.requests + 1) /\ hist' = [hist EXCEPT !.requests = @ + 1]
      BY <2>1, <2>4, <2>7 DEF request
    <3>2. hist'.refused = hist.refused /\ hist'.ids = hist.ids /\ hist.requests + 1 \in Nat
      BY <1>0, <3>1 DEF History
    <3>3. base'.session = base.session
      BY <3>1 DEF push
    <3>4. \A k : Wanted(k) => Wanted(k)' \/ (o = "stop" /\ k = key)
      BY <2>1, <2>5, <3>3 DEF Wanted, key, Live
    <3> QED
      BY <2>1, <2>7, <3>1, <3>2, <3>4, EndCall
  <2> QED
    BY <2>6, <2>7
<1> QED
  BY <1>1, <1>2, <1>3, <1>4

\* A session leaves the dictionary when its stop is asked for.
LEMMA EndOnResponse ==
    ASSUME Typed, EndInv, OnResponse
    PROVE  EndInv'
<1>1. /\ popped # None /\ popped' = None
      /\ UNCHANGED <<fw, gen, todo, msgs, eng, registered, sessions, running, hist>>
      /\ base \in [session : Nat, queue : Seq(Request)]
  BY DEF OnResponse, adapterVars, engineVars, Typed
<1>2. CASE base' = base
  <2>1. \A k : Wanted(k) => Wanted(k)'
    BY <1>1, <1>2 DEF Wanted, key, Live
  <2> QED
    BY <1>1, <1>2, <2>1, EndSame
<1>3. CASE base' # base
  <2>1. removesSession(popped.req, popped.ok) /\ popped.key = key /\ base'.session = 0
    BY <1>1, <1>3 DEF OnResponse, key
  <2>2. base.session # 0 => Secured(key)
    BY <1>1, <2>1 DEF EndInv, StopsAsked
  <2>3. \A k : /\ Active(k)' = Active(k) /\ Has(k)' = Has(k) /\ Removing(k)' = Removing(k)
               /\ Secured(k)' = Secured(k)
    BY <1>1 DEF Active, Has, Removing, Secured
  <2>4. ASSUME NEW k \in Keys PROVE Held(k)'
    <3>1. CASE k = key /\ base.session # 0
      <4>1. Secured(k)'
        BY <2>2, <2>3, <3>1
      <4> QED
        BY <4>1 DEF Secured, Held
    <3>2. CASE ~(k = key /\ base.session # 0)
      <4>1. Held(k) /\ ~Wanted(k)
        BY <3>2 DEF EndInv, Wanted
      <4> QED
        BY <1>1, <2>3, <4>1 DEF Held
    <3> QED
      BY <3>1, <3>2
  <2>5. StartsFirst'
    <3>1. hist.ids \in Nat
      BY PipeParts
    <3>2. base'.session <= hist'.ids
      BY <1>1, <2>1, <3>1
    <3> QED
      BY SMTT(30), <1>1, <3>2 DEF EndInv, StartsFirst
  <2>6. StopsAsked'
    BY <2>1 DEF StopsAsked
  <2> QED
    BY <2>4, <2>5, <2>6 DEF EndInv
<1> QED
  BY <1>2, <1>3

\* A message is taken.
LEMMA HandledParts ==
    ASSUME Typed, Removals, HandleMsg, NEW m, m = msgs[1]
    PROVE  /\ popped = None /\ msgs # <<>> /\ msgs' = Tail(msgs)
           /\ msgs \in Seq(Message) /\ eng \in Seq(Message) /\ msgs' \in Seq(Message)
           /\ UNCHANGED <<fw, gen, todo, running>>
           /\ HandleAdd(m) \/ HandleStart(m) \/ HandleGet(m) \/ HandleStop(m) \/ HandleRemove(m)
           /\ m \in Message /\ m.key[1] \in 1..gen
           /\ m.op = "remove" => m.key[1] < gen
           /\ IsRemove(m, "batching") =>
                  \A j \in 1..Len(msgs) : 1 < j => msgs[j].key[1] # m.key[1]
           /\ 1 \in 1..Len(msgs)
           /\ \A i \in 1..Len(msgs') : msgs'[i] = msgs[i + 1] /\ i + 1 \in 1..Len(msgs) /\ 1 < i + 1
           /\ \A i \in 1..Len(msgs) : i = 1 \/ (i - 1 \in 1..Len(msgs') /\ msgs'[i - 1] = msgs[i])
           /\ \A o, k : In(msgs, o, k) <=> In(msgs', o, k) \/ (m.op = o /\ m.key = k)
<1>1. msgs # <<>> /\ msgs \in Seq(Message) /\ eng \in Seq(Message) /\ msgs' = Tail(msgs)
  BY PipeParts DEF HandleMsg
<1>2. Head(msgs) = m /\ 1 \in 1..Len(msgs) /\ m \in Message /\ msgs' \in Seq(Message)
  BY <1>1
<1>3. /\ \A i \in 1..Len(msgs') : msgs'[i] = msgs[i + 1] /\ i + 1 \in 1..Len(msgs) /\ 1 < i + 1
      /\ \A i \in 1..Len(msgs) : i = 1 \/ (i - 1 \in 1..Len(msgs') /\ msgs'[i - 1] = msgs[i])
  BY <1>1
<1>4. /\ m.key[1] \in 1..gen /\ (m.op = "remove" => m.key[1] < gen)
      /\ IsRemove(m, "batching") =>
             \A j \in 1..Len(msgs) : 1 < j => msgs[j].key[1] # m.key[1]
  BY <1>2 DEF Removals
<1>5. \A o, k : In(msgs, o, k) <=> In(msgs', o, k) \/ (m.op = o /\ m.key = k)
  BY <1>1, InParts
<1> QED
  BY <1>1, <1>2, <1>3, <1>4, <1>5 DEF HandleMsg, Idle, engineVars

\* What it adds to the calls to the engine.
LEMMA HandleAdds ==
    ASSUME Typed, Removals, HandleMsg, NEW m, m = msgs[1]
    PROVE  /\ \A i \in 1..Len(eng') :
                  \/ i \in 1..Len(eng) /\ eng'[i] = eng[i]
                  \/ ~(i \in 1..Len(eng)) /\ eng'[i] = m /\ m.op \in Ops
                  \/ /\ eng'[i].op = "stop" /\ eng'[i].key \in sessions
                     /\ eng'[i].n = 0
                     /\ eng'[i].key[1] = m.key[1] /\ IsRemove(m, "batching")
           /\ \A i \in 1..Len(eng) : i \in 1..Len(eng') /\ eng'[i] = eng[i]
           /\ IsRemove(m, "batching") =>
                  \A k \in sessions : k[1] = m.key[1] => In(eng', "stop", k)
           /\ HandleStart(m) \/ (HandleStop(m) /\ m.key \in sessions) => In(eng', m.op, m.key)
<1>1. /\ eng \in Seq(Message) /\ m \in Message
      /\ HandleAdd(m) \/ HandleStart(m) \/ HandleGet(m) \/ HandleStop(m) \/ HandleRemove(m)
  BY HandledParts
<1>2. CASE eng' = eng /\ ~IsRemove(m, "batching")
           /\ ~(HandleStart(m) \/ (HandleStop(m) /\ m.key \in sessions))
  BY <1>2
<1>3. CASE m.op \in Ops /\ Call(m)
  <2>1. eng' = Append(eng, m)
    BY <1>1, <1>3, MessageParts DEF Call
  <2>2. /\ \A i \in 1..Len(eng') : i \in 1..Len(eng) \/ i = Len(eng) + 1
        /\ \A i \in 1..Len(eng) : i \in 1..Len(eng') /\ eng'[i] = eng[i]
        /\ Len(eng) + 1 \in 1..Len(eng') /\ eng'[Len(eng) + 1] = m
        /\ ~(Len(eng) + 1 \in 1..Len(eng))
    BY <1>1, <2>1
  <2>3. In(eng', m.op, m.key)
    BY <2>2 DEF In
  <2>4. ~IsRemove(m, "batching")
    BY <1>3 DEF Ops, IsRemove
  <2> QED
    BY <1>3, <2>2, <2>3, <2>4
<1>4. CASE IsRemove(m, "batching") /\ eng' = eng \o StopsOf(m.key[1])
  <2>1. PICK t : t = StopsOf(m.key[1])
    OBVIOUS
  <2>2. /\ t \in Seq(EngCall)
        /\ \A i \in 1..Len(t) : /\ t[i].op = "stop" /\ t[i].n = 0 /\ t[i].key \in sessions
                                /\ t[i].key[1] = m.key[1]
        /\ \A k \in sessions : k[1] = m.key[1] =>
               \E i \in 1..Len(t) : t[i] = [op |-> "stop", key |-> k, n |-> 0]
    BY <2>1, StopsSent
  <2>3. t \in Seq(Message) /\ eng' = eng \o t
    BY <1>4, <2>1, <2>2 DEF Message
  <2>4. /\ \A i \in 1..Len(eng) : i \in 1..Len(eng') /\ eng'[i] = eng[i]
        /\ \A i \in 1..Len(eng') : \/ i \in 1..Len(eng)
                                   \/ i - Len(eng) \in 1..Len(t) /\ eng'[i] = t[i - Len(eng)]
    BY <1>1, <2>3, ConcatParts
  <2>5. ASSUME NEW k \in sessions, k[1] = m.key[1] PROVE In(eng', "stop", k)
    <3>1. PICK i \in 1..Len(t) : t[i] = [op |-> "stop", key |-> k, n |-> 0]
      BY <2>2, <2>5
    <3>2. t[i].op = "stop" /\ t[i].key = k
      BY <3>1
    <3>3. In(t, "stop", k)
      BY <3>2 DEF In
    <3> QED
      BY <1>1, <2>3, <3>3, InParts
  <2>6. ~HandleStart(m) /\ ~HandleStop(m)
    BY <1>4 DEF HandleStart, HandleStop, IsRemove
  <2>7. ASSUME NEW i \in 1..Len(eng'), ~(i \in 1..Len(eng))
        PROVE  /\ eng'[i].op = "stop" /\ eng'[i].key \in sessions
               /\ eng'[i].n = 0 /\ eng'[i].key[1] = m.key[1]
    <3>1. PICK j \in 1..Len(t) : eng'[i] = t[j]
      BY <2>4, <2>7
    <3> QED
      BY <2>2, <3>1
  <2> QED
    BY <1>4, <2>4, <2>5, <2>6, <2>7
<1>5. CASE HandleAdd(m)
  BY <1>2, <1>5 DEF HandleAdd, HandleStart, HandleStop, IsRemove
<1>6. CASE HandleStart(m) \/ HandleGet(m) \/ HandleStop(m)
  BY <1>2, <1>3, <1>6 DEF HandleStart, HandleGet, HandleStop, IsRemove, Ops
<1>7. CASE HandleRemove(m)
  <2>1. m.adapter = "gnss" => eng' = eng
    BY <1>7 DEF HandleRemove
  <2>2. m.adapter # "gnss" => eng' = eng \o StopsOf(m.key[1])
    BY <1>7 DEF HandleRemove, StopsOf
  <2>3. m.op = "remove" /\ m.adapter \in {"gnss", "batching"}
    BY <1>1, <1>7, MessageParts DEF HandleRemove, Adapters
  <2>4. ~HandleStart(m) /\ ~HandleStop(m)
    BY <2>3 DEF HandleStart, HandleStop
  <2> QED
    BY <1>2, <1>4, <2>1, <2>2, <2>3, <2>4 DEF IsRemove
<1> QED
  BY <1>1, <1>5, <1>6, <1>7

\* What is left of sessions, requests and refusals.
LEMMA HandleKept ==
    ASSUME Typed, Removals, EndInv, HandleMsg, NEW k
    PROVE  Kept(k) /\ base'.session = base.session /\ key' = key
<1>p. PICK m : m = msgs[1]
  OBVIOUS
<1>1. /\ popped = None /\ eng \in Seq(Message)
      /\ UNCHANGED <<fw, gen, todo, running>>
      /\ HandleAdd(m) \/ HandleStart(m) \/ HandleGet(m) \/ HandleStop(m) \/ HandleRemove(m)
      /\ m \in Message
      /\ IsRemove(m, "batching") => \A j \in 1..Len(msgs) : 1 < j => msgs[j].key[1] # m.key[1]
      /\ 1 \in 1..Len(msgs)
      /\ \A i \in 1..Len(msgs') : msgs'[i] = msgs[i + 1] /\ i + 1 \in 1..Len(msgs) /\ 1 < i + 1
      /\ \A i \in 1..Len(msgs) : i = 1 \/ (i - 1 \in 1..Len(msgs') /\ msgs'[i - 1] = msgs[i])
      /\ \A o : In(msgs, o, k) <=> In(msgs', o, k) \/ (m.op = o /\ m.key = k)
  BY <1>p, HandledParts
<1>2. base'.session = base.session
  BY <1>1, PipeParts DEF HandleAdd, HandleStart, HandleGet, HandleStop, HandleRemove, Answer
<1>3. key' = key /\ Wanted(k)' = Wanted(k)
  BY <1>1, <1>2 DEF key, Wanted, Live
<1>4. /\ \A o : In(eng', o, k) =>
            \/ In(eng, o, k) \/ (m.op = o /\ m.key = k /\ m.op \in Ops)
            \/ o = "stop"
      /\ \A o : In(eng, o, k) => In(eng', o, k)
      /\ IsRemove(m, "batching") => (k \in sessions /\ k[1] = m.key[1] => In(eng', "stop", k))
      /\ HandleStart(m) \/ (HandleStop(m) /\ m.key \in sessions) => In(eng', m.op, m.key)
  <2>1. /\ \A i \in 1..Len(eng') :
              \/ i \in 1..Len(eng) /\ eng'[i] = eng[i]
              \/ ~(i \in 1..Len(eng)) /\ eng'[i] = m /\ m.op \in Ops
              \/ eng'[i].op = "stop"
        /\ \A i \in 1..Len(eng) : i \in 1..Len(eng') /\ eng'[i] = eng[i]
    BY <1>p, HandleAdds
  <2>2. \A o : In(eng', o, k) =>
            \/ In(eng, o, k) \/ (m.op = o /\ m.key = k /\ m.op \in Ops)
            \/ o = "stop"
    BY <2>1 DEF In
  <2>3. \A o : In(eng, o, k) => In(eng', o, k)
    BY <2>1 DEF In
  <2> QED
    BY <1>p, <2>2, <2>3, HandleAdds
<1>5. /\ m.op = "start" <=> HandleStart(m)
      /\ m.op = "stop" <=> HandleStop(m)
      /\ m.op = "get" <=> HandleGet(m)
      /\ m.op = "remove" <=> HandleRemove(m)
      /\ m.op = "add" <=> HandleAdd(m)
  BY <1>1 DEF HandleAdd, HandleStart, HandleGet, HandleStop, HandleRemove
<1>6. /\ HandleStart(m) => sessions' = sessions \cup {m.key}
      /\ HandleStop(m) => sessions' = sessions \ {m.key}
      /\ HandleGet(m) \/ HandleAdd(m) => sessions' = sessions
      /\ HandleRemove(m) /\ m.adapter = "gnss" => sessions' = sessions /\ hist' = hist
      /\ HandleRemove(m) /\ m.adapter # "gnss" =>
            /\ sessions' = sessions \ stopClientSessions(m.key[1])
            /\ hist' = [hist EXCEPT !.refused = {x \in @ : x[1] # m.key[1]}]
      /\ ~HandleRemove(m) => hist' = hist
  BY <1>1 DEF HandleAdd, HandleStart, HandleGet, HandleStop, HandleRemove, adapterVars
<1>7. m.op = "remove" => m.adapter = "gnss" \/ IsRemove(m, "batching")
  BY <1>1, MessageParts DEF Adapters, IsRemove
\* A client's removal finds the sessions that it has to stop.
<1>8. IsRemove(m, "batching") /\ k[1] = m.key[1] /\ Has(k) => In(eng', "stop", k)
  <2>1. ASSUME IsRemove(m, "batching"), k[1] = m.key[1], NEW j \in 1..Len(msgs),
               msgs[j].op = "start", msgs[j].key = k
        PROVE  FALSE
    <3>1. j # 1
      BY <1>p, <2>1 DEF IsRemove
    <3>2. 1 < j
      BY <3>1
    <3> QED
      BY <1>1, <2>1, <3>2
  <2> QED
    BY <1>4, <2>1 DEF Has, In
\* And a stop finds the session.
<1>9. HandleStop(m) /\ k = m.key /\ Has(k) => In(eng', "stop", k)
  <2>1. ASSUME HandleStop(m), NEW j \in 1..Len(msgs), msgs[j].op = "start", msgs[j].key = m.key
        PROVE  FALSE
    <3>1. j # 1 /\ msgs[1].op \in Ops
      BY <1>p, <2>1 DEF HandleStop, Ops
    <3>2. 1 < j
      BY <3>1
    <3> QED
      BY <1>1, <1>p, <2>1, <3>1, <3>2 DEF EndInv, StartsFirst
  <2> QED
    BY <1>4, <1>5, <2>1 DEF Has, In
<1>10. Active(k)' => Active(k)
  BY <1>1, <1>4, <1>5 DEF Active
<1>11. Has(k) => Has(k)' \/ In(eng', "stop", k)
  <2>1. CASE In(msgs', "start", k) \/ k \in sessions'
    BY <2>1 DEF Has
  <2>2. CASE HandleStart(m) /\ k = m.key
    BY <1>6, <2>2 DEF Has
  <2>3. CASE k \in sessions /\ k \notin sessions'
    <3>1. \/ HandleStop(m) /\ k = m.key
          \/ HandleRemove(m) /\ m.adapter # "gnss" /\ k \in stopClientSessions(m.key[1])
      BY <1>1, <1>6, <2>3
    <3> QED
      BY <1>5, <1>7, <1>8, <1>9, <2>3, <3>1 DEF Has, stopClientSessions
  <2>4. Has(k) => In(msgs', "start", k) \/ (HandleStart(m) /\ k = m.key) \/ k \in sessions
    BY <1>1, <1>5 DEF Has
  <2> QED
    BY <2>1, <2>2, <2>3, <2>4
<1>12. Has(k) /\ (In(msgs, "stop", k) \/ k \in hist.refused) => Secured(k)'
  <2>1. In(eng', "stop", k) => Secured(k)'
    BY DEF Secured
  <2>2. ASSUME Has(k), In(msgs, "stop", k) PROVE In(eng', "stop", k) \/ Secured(k)'
    BY <1>1, <1>5, <1>9, <1>11, <2>2 DEF Secured
  <2>3. ASSUME Has(k), k \in hist.refused PROVE In(eng', "stop", k) \/ k \in hist'.refused
    <3>1. CASE hist' = hist
      BY <2>3, <3>1
    <3>2. CASE HandleRemove(m) /\ m.adapter # "gnss"
      <4>1. hist'.refused = {x \in hist.refused : x[1] # m.key[1]}
        BY <1>6, <3>2 DEF Typed, History
      <4> QED
        BY <1>5, <1>7, <1>8, <2>3, <3>2, <4>1
    <3> QED
      BY <1>6, <3>1, <3>2
  <2> QED
    BY <1>11, <2>1, <2>2, <2>3 DEF Secured
<1>13. Has(k) /\ Removing(k) => Removing(k)' \/ Secured(k)'
  <2>1. ASSUME Has(k), NEW i \in 1..Len(msgs), IsRemove(msgs[i], "batching"), msgs[i].key[1] = k[1]
        PROVE  Removing(k)' \/ In(eng', "stop", k)
    <3>1. CASE i = 1
      BY <1>8, <1>p, <2>1, <3>1
    <3>2. CASE i # 1
      BY <1>1, <2>1, <3>2 DEF Removing
    <3> QED
      BY <3>1, <3>2
  <2> QED
    BY <2>1 DEF Removing, Secured
<1>14. In(eng, "stop", k) => Secured(k)'
  BY <1>4 DEF Secured
<1> QED
  BY <1>2, <1>3, <1>10, <1>11, <1>12, <1>13, <1>14 DEF Kept

LEMMA HandleFirst ==
    ASSUME Typed, Removals, EndInv, HandleMsg
    PROVE  StartsFirst'
<1>p. PICK m : m = msgs[1]
  OBVIOUS
<1>1. /\ HandleAdd(m) \/ HandleStart(m) \/ HandleGet(m) \/ HandleStop(m) \/ HandleRemove(m)
      /\ IsRemove(m, "batching") => \A j \in 1..Len(msgs) : 1 < j => msgs[j].key[1] # m.key[1]
      /\ 1 \in 1..Len(msgs) /\ Len(eng) \in Nat
      /\ \A i \in 1..Len(msgs') : msgs'[i] = msgs[i + 1] /\ i + 1 \in 1..Len(msgs) /\ 1 < i + 1
  BY <1>p, HandledParts, PipeParts
<1>2. /\ \A i \in 1..Len(eng') :
            \/ i \in 1..Len(eng) /\ eng'[i] = eng[i]
            \/ ~(i \in 1..Len(eng)) /\ eng'[i] = m /\ m.op \in Ops
            \/ /\ eng'[i].op = "stop" /\ eng'[i].key \in sessions
               /\ eng'[i].key[1] = m.key[1] /\ IsRemove(m, "batching")
  BY <1>p, HandleAdds
<1>3. StartsFirst
  BY DEF EndInv
<1>4. hist'.ids = hist.ids
  <2>1. PICK f : hist' = hist \/ hist' = [hist EXCEPT !.refused = f]
    BY <1>1 DEF HandleAdd, HandleStart, HandleGet, HandleStop, HandleRemove
  <2> QED
    BY <2>1 DEF Typed, History
<1>5. base'.session = base.session
  BY HandleKept
<1>6. \A k \in sessions' : k \in sessions \/ (k = m.key /\ m.op \in Ops)
  BY <1>1 DEF HandleAdd, HandleStart, HandleGet, HandleStop, HandleRemove, adapterVars, Ops
<1>7. "start" \in Ops /\ "start" # "stop"
  BY DEF Ops
<1>8. ASSUME NEW i \in 1..Len(eng'), NEW j \in 1..Len(eng'), i < j, eng'[j].op = "start"
      PROVE  eng'[i].key # eng'[j].key
  <2>1. CASE j \in 1..Len(eng) /\ eng'[j] = eng[j]
    <3>1. i \in 1..Len(eng)
      BY <1>1, <1>8, <2>1
    <3>2. \A x \in 1..Len(eng) : eng'[x] = eng[x]
      BY <1>p, HandleAdds
    <3> QED
      BY <1>3, <1>8, <2>1, <3>1, <3>2 DEF StartsFirst
  <2>2. CASE ~(j \in 1..Len(eng)) /\ eng'[j] = m /\ m.op \in Ops
    <3>1. HandleStart(m) /\ m.op = "start"
      BY <1>1, <1>8, <2>2 DEF HandleAdd, HandleGet, HandleStop, HandleRemove
    <3>2. eng' = Append(eng, m)
      BY <1>p, <3>1, HandledParts, MessageParts DEF HandleStart, Call, Ops
    <3>3. Len(eng') = Len(eng) + 1
      <4>1. eng \in Seq(Message)
        BY PipeParts
      <4> QED
        BY <3>2, <4>1
    <3>4. i \in 1..Len(eng)
      BY <1>1, <1>8, <3>3
    <3>5. eng'[i] = eng[i]
      BY <1>p, <3>4, HandleAdds
    <3>6. eng[i].key # msgs[1].key
      BY <1>1, <1>3, <1>p, <3>1, <3>4 DEF StartsFirst
    <3> QED
      BY <1>p, <2>2, <3>5, <3>6
  <2> QED
    BY <1>2, <1>7, <1>8, <2>1, <2>2
<1>9. ASSUME NEW i \in 1..Len(msgs'), NEW j \in 1..Len(msgs'), i < j, msgs'[i].op \in Ops,
             msgs'[j].op = "start"
      PROVE  msgs'[i].key # msgs'[j].key
  <2>1. PICK x \in 1..Len(msgs), y \in 1..Len(msgs) :
           x < y /\ msgs'[i] = msgs[x] /\ msgs'[j] = msgs[y]
    <3>1. i + 1 < j + 1
      BY <1>9
    <3> QED
      BY <1>1, <3>1
  <2> QED
    BY <1>3, <1>9, <2>1 DEF StartsFirst
<1>10. ASSUME NEW i \in 1..Len(eng'), NEW j \in 1..Len(msgs'), msgs'[j].op = "start"
       PROVE  eng'[i].key # msgs'[j].key
  <2>1. PICK y \in 1..Len(msgs) : 1 < y /\ msgs'[j] = msgs[y]
    BY <1>1
  <2>2. CASE i \in 1..Len(eng) /\ eng'[i] = eng[i]
    BY <1>3, <1>10, <2>1, <2>2 DEF StartsFirst
  <2>3. CASE eng'[i] = m /\ m.op \in Ops
    BY <1>1, <1>3, <1>p, <1>10, <2>1, <2>3 DEF StartsFirst
  <2>4. CASE eng'[i].key[1] = m.key[1] /\ IsRemove(m, "batching")
    BY <1>1, <2>1, <2>4
  <2> QED
    BY <1>2, <2>2, <2>3, <2>4
<1>11. m.op \in Ops => m.key[2] <= hist.ids
  BY <1>1, <1>3, <1>p DEF StartsFirst
<1>12. \A k \in sessions' : k[2] <= hist.ids
  BY <1>3, <1>6, <1>11 DEF StartsFirst
<1>13. \A i \in 1..Len(eng') : eng'[i].key[2] <= hist.ids
  BY <1>2, <1>3, <1>11 DEF StartsFirst
<1>14. \A i \in 1..Len(msgs') : msgs'[i].op \in Ops => msgs'[i].key[2] <= hist.ids
  BY <1>1, <1>3 DEF StartsFirst
<1>15. base'.session <= hist'.ids
  BY <1>3, <1>4, <1>5 DEF StartsFirst
<1> QED
  BY <1>4, <1>8, <1>9, <1>10, <1>12, <1>13, <1>14, <1>15 DEF StartsFirst

LEMMA EndHandle ==
    ASSUME Typed, Removals, EndInv, HandleMsg
    PROVE  EndInv'
<1>p. PICK m : m = msgs[1]
  OBVIOUS
<1>1. /\ popped = None /\ msgs # <<>> /\ msgs' = Tail(msgs) /\ eng \in Seq(Message)
      /\ UNCHANGED <<fw, gen, todo, running>>
      /\ HandleAdd(m) \/ HandleStart(m) \/ HandleGet(m) \/ HandleStop(m) \/ HandleRemove(m)
      /\ m \in Message
      /\ m.op = "remove" => m.key[1] < gen
      /\ 1 \in 1..Len(msgs) /\ gen \in Nat /\ base.queue \in Seq(Request)
      /\ \A o, k : In(msgs, o, k) <=> In(msgs', o, k) \/ (m.op = o /\ m.key = k)
  BY <1>p, HandledParts, PipeParts
<1>2. /\ \A k : Kept(k)
      /\ base'.session = base.session /\ key' = key
  BY HandleKept
<1>3. \A k \in Keys : Held(k)'
  BY <1>2, KeptHeld DEF EndInv
<1>4. Secured(key) => Secured(key)'
  <2>1. PICK g : g = key
    OBVIOUS
  <2>2. Secured(g) => Secured(g)'
    BY <1>2, KeptHeld
  <2>3. g' = g
    BY <1>2, <2>1
  <2> QED
    BY <2>1, <2>2, <1>2
\* Either the queue of requests is untouched, or a call whose session is not known is answered.
<1>5. \/ base' = base /\ popped' = None
      \/ /\ HandleGet(m) /\ m.key = key /\ key \notin sessions /\ base.queue # <<>>
         /\ base'.queue = Tail(base.queue)
         /\ popped' = [req |-> Head(base.queue), n |-> m.n, ok |-> FALSE, key |-> m.key]
  <2>1. CASE HandleGet(m) /\ m.key \notin sessions
    <3>1. Answer(m.key, m.n, FALSE)
      BY <2>1 DEF HandleGet
    <3>2. base \in [session : Nat, queue : Seq(Request)]
      BY PipeParts
    <3>3. CASE m.key = key /\ base.queue # <<>> /\ m.key[1] \in registered
      <4>1. /\ base' = [base EXCEPT !.queue = Tail(@)]
            /\ popped' = [req |-> Head(base.queue), n |-> m.n, ok |-> FALSE, key |-> m.key]
        BY <3>1, <3>3 DEF Answer, key
      <4>2. base'.queue = Tail(base.queue)
        BY <3>2, <4>1
      <4> QED
        BY <2>1, <3>3, <4>1, <4>2
    <3>4. CASE ~(m.key = key /\ base.queue # <<>> /\ m.key[1] \in registered)
      BY <1>1, <3>1, <3>4 DEF Answer, key
    <3> QED
      BY <3>3, <3>4
  <2>2. CASE ~(HandleGet(m) /\ m.key \notin sessions)
    BY <1>1, <2>2 DEF HandleAdd, HandleStart, HandleGet, HandleStop, HandleRemove
  <2> QED
    BY <2>1, <2>2
<1>6. ASSUME base.session # 0 PROVE StopsAsked'
  <2>1. /\ Announced /\ (Queued("stop") => Secured(key))
        /\ \A j \in 1..Len(base.queue) : base.queue[j].op = "start" => j = 1
        /\ Queued("start") => In(eng, "start", key) \/ In(msgs, "start", key)
    BY <1>6 DEF EndInv, StopsAsked
  <2>2. Announced'
    <3>1. gen \in registered => gen \in registered'
      <4>1. m.op = "remove" => m.key[1] # gen
        BY <1>1
      <4> QED
        BY <1>1, <4>1
           DEF HandleAdd, HandleStart, HandleGet, HandleStop, HandleRemove, adapterVars
    <3>2. msgs[1].op = "add" /\ msgs[1].key[1] = gen => gen \in registered'
      BY <1>1, <1>p DEF HandleAdd, HandleStart, HandleGet, HandleStop, HandleRemove
    <3>3. ASSUME NEW j \in 1..Len(eng'), Current(eng'[j], gen)
          PROVE  Current(msgs[1], gen) \/ \E i \in 1..Len(eng) : Current(eng[i], gen)
      <4>1. \/ j \in 1..Len(eng) /\ eng'[j] = eng[j]
            \/ eng'[j] = m
            \/ eng'[j].n = 0
        BY <1>p, HandleAdds
      <4> QED
        BY <1>p, <3>3, <4>1 DEF Current
    <3> QED
      BY <1>1, <2>1, <3>1, <3>2, <3>3, AnnouncedTail
  <2>3. CASE base' = base /\ popped' = None
    <3>1. \A o : Queued(o)' = Queued(o)
      BY <2>3 DEF Queued
    <3>2. In(eng, "start", key) \/ In(msgs, "start", key) =>
              In(eng', "start", key) \/ In(msgs', "start", key)
      <4>1. In(eng, "start", key) => In(eng', "start", key)
        BY <1>p, HandleAdds DEF In
      <4>2. m.op = "start" => HandleStart(m)
        BY <1>1 DEF HandleAdd, HandleGet, HandleStop, HandleRemove
      <4>3. m.op = "start" /\ m.key = key => In(eng', "start", key)
        BY <1>p, <4>2, HandleAdds
      <4> QED
        BY <1>1, <4>1, <4>3
    <3> QED
      BY <1>2, <1>4, <2>1, <2>2, <2>3, <3>1, <3>2 DEF StopsAsked
  <2>4. CASE /\ HandleGet(m) /\ m.key = key /\ key \notin sessions /\ base.queue # <<>>
             /\ base'.queue = Tail(base.queue)
             /\ popped' = [req |-> Head(base.queue), n |-> m.n, ok |-> FALSE, key |-> m.key]
    <3>1. \A j \in 1..Len(base'.queue) : /\ j + 1 \in 1..Len(base.queue) /\ j + 1 # 1
                                         /\ base'.queue[j] = base.queue[j + 1]
      BY <1>1, <2>4
    <3>2. \A j \in 1..Len(base'.queue) : base'.queue[j].op # "start"
      BY <2>1, <3>1
    <3>3. ~Queued("start")' /\ (Queued("stop")' => Queued("stop"))
      BY <3>1, <3>2 DEF Queued
    <3>4. Secured(key)
      <4>1. ~In(msgs, "start", key)
        <5>1. ASSUME NEW j \in 1..Len(msgs), msgs[j].op = "start", msgs[j].key = key
              PROVE  FALSE
          <6>1. msgs[1].op = "get" /\ msgs[1].key = key /\ msgs[1].op \in Ops
            BY <1>p, <2>4 DEF HandleGet, Ops
          <6>2. 1 < j
            BY <5>1, <6>1
          <6> QED
            BY <1>1, <5>1, <6>1, <6>2 DEF EndInv, StartsFirst
        <5> QED
          BY <5>1 DEF In
      <4>2. ~Has(key)
        BY <2>4, <4>1 DEF Has
      <4>3. key \in Keys
        BY <1>1, PipeParts DEF key, Keys
      <4>4. Held(key)
        BY <4>3 DEF EndInv
      <4> QED
        BY <4>2, <4>4 DEF Held, Secured
    <3> QED
      BY <1>2, <1>4, <2>1, <2>2, <3>2, <3>3, <3>4 DEF StopsAsked
  <2> QED
    BY <1>5, <2>3, <2>4
<1>7. StopsAsked'
  BY <1>2, <1>6 DEF StopsAsked
<1> QED
  BY <1>3, <1>7, HandleFirst DEF EndInv

\* A call is answered: a stop that the engine does ends the session, one that it refuses is noted.
LEMMA TakenKept ==
    ASSUME Typed, EndInv, NEW c \in EngCall, NEW ok \in BOOLEAN, Taken(c, ok), NEW k
    PROVE  /\ Held(k) => Held(k)'
           /\ Secured(k) => Secured(k)'
           /\ base'.session = base.session /\ key' = key
<1>1. /\ UNCHANGED <<fw, gen, todo, msgs, registered>>
      /\ hist'.refused = IF ~ok /\ c.op = "stop" THEN hist.refused \cup {c.key} ELSE hist.refused
      /\ sessions' = IF ~ok /\ c.op = "stop" THEN sessions \cup {c.key} ELSE sessions
      /\ \A x \in running' : x \in running \/ (c.op = "start" /\ x = c.key)
      /\ ok /\ c.op = "stop" => running' = running \ {c.key}
      /\ eng # <<>> /\ eng' = Tail(eng) /\ eng[1] = c
  BY DEF Taken
<1>2. base'.session = base.session /\ key' = key
  <2>1. base \in [session : Nat, queue : Seq(Request)]
    BY PipeParts
  <2>2. base' = base \/ base' = [base EXCEPT !.queue = Tail(@)]
    BY DEF Taken, Answer
  <2>3. base'.session = base.session
    BY <2>1, <2>2
  <2> QED
    BY <1>1, <2>3 DEF key
<1>3. \A o : In(eng, o, k) <=> In(eng', o, k) \/ (c.op = o /\ c.key = k)
  <2>1. eng \in Seq(Message)
    BY PipeParts
  <2> QED
    BY <1>1, <2>1, InParts
<1>4. CASE c.op = "stop" /\ c.key = k
  <2>1. ASSUME ok PROVE ~Active(k)'
    <3>1. ~In(eng', "start", k)
      <4>1. \A i \in 1..Len(eng') : eng'[i] = eng[i + 1] /\ i + 1 \in 1..Len(eng) /\ 1 \in 1..Len(eng)
        BY TakenParts
      <4>2. \A i \in 1..Len(eng') : 1 < i + 1
        OBVIOUS
      <4>3. \A i \in 1..Len(eng') : eng'[i].op = "start" => eng[1].key # eng'[i].key
        BY <4>1, <4>2 DEF EndInv, StartsFirst
      <4> QED
        BY <1>1, <1>4, <4>3 DEF In
    <3>2. ~In(msgs', "start", k)
      <4>1. 1 \in 1..Len(eng)
        BY TakenParts
      <4> QED
        BY <1>1, <1>4, <4>1 DEF EndInv, StartsFirst, In
    <3>3. k \notin running'
      BY <1>1, <1>4, <2>1
    <3> QED
      BY <3>1, <3>2, <3>3 DEF Active
  <2>2. ASSUME ~ok PROVE Has(k)' /\ k \in hist'.refused
    BY <1>1, <1>4, <2>2 DEF Has
  <2>3. Secured(k)'
    BY <2>1, <2>2 DEF Secured
  <2> QED
    BY <1>2, <2>3 DEF Secured, Held
<1>5. CASE ~(c.op = "stop" /\ c.key = k)
  <2>1. Active(k)' => Active(k)
    BY <1>1, <1>3 DEF Active
  <2>2. Has(k) => Has(k)'
    BY <1>1 DEF Has
  <2>3. (In(eng, "stop", k) => In(eng', "stop", k)) /\ (k \in hist.refused => k \in hist'.refused)
    BY <1>1, <1>3, <1>5
  <2>4. Removing(k)' = Removing(k) /\ Wanted(k)' = Wanted(k)
    BY <1>1, <1>2 DEF Removing, Wanted, Live
  <2>5. Kept(k)
    BY <1>1, <2>1, <2>2, <2>3, <2>4 DEF Kept, Secured
  <2> QED
    BY <1>2, <2>5, KeptHeld
<1> QED
  BY <1>4, <1>5

LEMMA EndEngine ==
    ASSUME Typed, AnswerInv, EndInv, "start" \notin Refusable, EngineAnswers
    PROVE  EndInv'
<1>1. PICK c \in EngCall, ok \in BOOLEAN : Taken(c, ok)
  BY EngineTakes
<1>2. /\ \A i \in 1..Len(eng') : eng'[i] = eng[i + 1] /\ i + 1 \in 1..Len(eng)
      /\ \A i \in 1..Len(eng) : i = 1 \/ (i - 1 \in 1..Len(eng') /\ eng'[i - 1] = eng[i])
      /\ 1 \in 1..Len(eng) /\ eng[1] = c
  BY <1>1, TakenParts
<1>3. /\ UNCHANGED <<gen, msgs, registered>> /\ popped = None /\ hist'.ids = hist.ids
      /\ \A x \in sessions' : x \in sessions \/ x = c.key
      /\ Answer(c.key, c.n, ok) /\ (~ok => c.op # "start")
  BY <1>1 DEF Taken
<1>4. /\ base'.session = base.session /\ key' = key
      /\ \A k : (Held(k) => Held(k)') /\ (Secured(k) => Secured(k)')
  BY <1>1, TakenKept
<1>5. \A k \in Keys : Held(k)'
  BY <1>4 DEF EndInv
<1>6. StartsFirst
  BY DEF EndInv
<1>7. StartsFirst'
  <2>1. ASSUME NEW i \in 1..Len(eng'), NEW j \in 1..Len(eng'), i < j, eng'[j].op = "start"
        PROVE  eng'[i].key # eng'[j].key
    <3>1. PICK x \in 1..Len(eng), y \in 1..Len(eng) :
             x < y /\ eng'[i] = eng[x] /\ eng'[j] = eng[y]
      <4>1. i + 1 < j + 1
        BY <2>1
      <4> QED
        BY <1>2, <4>1
    <3> QED
      BY <1>6, <2>1, <3>1 DEF StartsFirst
  <2>2. \A i \in 1..Len(eng'), j \in 1..Len(msgs) : msgs[j].op = "start" => eng'[i].key # msgs[j].key
    BY <1>2, <1>6 DEF StartsFirst
  <2>3. (\A i \in 1..Len(eng') : eng'[i].key[2] <= hist.ids) /\ c.key[2] <= hist.ids
    BY <1>2, <1>6 DEF StartsFirst
  <2>4. \A k \in sessions' : k[2] <= hist.ids
    BY <1>3, <1>6, <2>3 DEF StartsFirst
  <2> QED
    BY <1>3, <1>4, <1>6, <2>1, <2>2, <2>3, <2>4 DEF StartsFirst
<1>8. ASSUME base.session # 0 PROVE StopsAsked'
  <2>1. /\ Announced /\ (Queued("stop") => Secured(key))
        /\ \A j \in 1..Len(base.queue) : base.queue[j].op = "start" => j = 1
        /\ Queued("start") => In(eng, "start", key) \/ In(msgs, "start", key)
    BY <1>8 DEF EndInv, StopsAsked
  <2>2. Announced'
    <3>1. \A i \in 1..Len(eng') : \E j \in 1..Len(eng) : eng'[i] = eng[j]
      BY <1>2
    <3> QED
      BY <1>3, <2>1, <3>1 DEF Announced
  <2>3. Secured(key) => Secured(key)'
    <3>1. PICK g : g = key
      OBVIOUS
    <3>2. Secured(g) => Secured(g)'
      BY <1>4
    <3>3. key' = g
      BY <1>4, <3>1
    <3> QED
      BY <3>1, <3>2, <3>3
  <2>4. base \in [session : Nat, queue : Seq(Request)] /\ gen \in Nat
    BY PipeParts
  <2>5. CASE c.key = key /\ c.key[1] \in registered /\ base.queue # <<>>
    <3>1. /\ popped' = [req |-> Head(base.queue), n |-> c.n, ok |-> ok, key |-> c.key]
          /\ base' = [base EXCEPT !.queue = Tail(@)]
      BY <1>3, <2>5 DEF Answer, key
    <3>2. base'.queue = Tail(base.queue) /\ base.queue \in Seq(Request)
          /\ popped'.req = Head(base.queue) /\ popped'.ok = ok
      BY <2>4, <3>1
    <3>3. /\ \A j \in 1..Len(base'.queue) : /\ j + 1 \in 1..Len(base.queue) /\ j + 1 # 1
                                            /\ base'.queue[j] = base.queue[j + 1]
          /\ 1 \in 1..Len(base.queue) /\ base.queue[1] = Head(base.queue)
      BY <2>5, <3>2
    <3>4. \A j \in 1..Len(base'.queue) : base'.queue[j].op # "start"
      BY <2>1, <3>3
    <3>5. ~Queued("start")' /\ (Queued("stop")' => Queued("stop"))
      BY <3>3, <3>4 DEF Queued
    <3>6. Head(base.queue).op = "stop" => Queued("stop")
      BY <3>3 DEF Queued
    <3>7. ASSUME Head(base.queue).op = "start", ~ok PROVE FALSE
      <4>1. In(eng, "start", key) \/ In(msgs, "start", key)
        BY <2>1, <3>3, <3>7 DEF Queued
      <4>2. ASSUME NEW j \in 1..Len(eng), eng[j].op = "start", eng[j].key = key PROVE FALSE
        <5>1. j # 1
          BY <1>2, <1>3, <3>7, <4>2
        <5>2. 1 < j
          BY <5>1
        <5> QED
          BY <1>2, <1>6, <2>5, <4>2, <5>2 DEF StartsFirst
      <4>3. ~In(msgs, "start", key)
        BY <1>2, <1>6, <2>5 DEF StartsFirst, In
      <4> QED
        BY <4>1, <4>2, <4>3 DEF In
    <3>8. removesSession(popped'.req, popped'.ok) => Secured(key)'
      BY <2>1, <2>3, <3>2, <3>6, <3>7 DEF removesSession
    <3> QED
      BY <1>4, <2>1, <2>2, <2>3, <3>4, <3>5, <3>8 DEF StopsAsked
  <2>6. CASE ~(c.key = key /\ c.key[1] \in registered /\ base.queue # <<>>)
    <3>1. UNCHANGED <<popped, base>>
      BY <1>3, <2>6 DEF Answer, key
    <3>2. \A o : Queued(o)' = Queued(o)
      BY <3>1 DEF Queued
    <3>3. Queued("start") => c.key # key
      <4>1. ASSUME Queued("start"), c.key = key PROVE FALSE
        <5>1. base.queue # <<>>
          <6>1. base.queue = <<>> => 1..Len(base.queue) = {}
            OBVIOUS
          <6> QED
            BY <4>1, <6>1 DEF Queued
        <5>2. c.key[1] = gen
          BY <4>1 DEF key
        <5>3. Current(c, gen)
          <6>1. c.n = 0 => c.key[1] < gen
            BY <1>2 DEF AnswerInv, Numbered
          <6> QED
            BY <2>4, <5>2, <6>1 DEF Current
        <5>4. gen \in registered
          BY <1>2, <2>1, <5>3 DEF Announced
        <5> QED
          BY <2>6, <4>1, <5>1, <5>2, <5>4
      <4> QED
        BY <4>1
    <3>4. Queued("start") => In(eng', "start", key') \/ In(msgs', "start", key')
      <4>1. c.key # key /\ In(eng, "start", key) => In(eng', "start", key)
        BY <1>2 DEF In
      <4> QED
        BY <1>3, <1>4, <2>1, <3>3, <4>1
    <3> QED
      BY <1>3, <1>4, <2>1, <2>2, <2>3, <3>1, <3>2, <3>4 DEF StopsAsked
  <2> QED
    BY <2>5, <2>6
<1>9. StopsAsked'
  BY <1>4, <1>8 DEF StopsAsked
<1> QED
  BY <1>5, <1>7, <1>9 DEF EndInv

LEMMA EndStep ==
    ASSUME Typed, Removals, AnswerInv, EndInv, "start" \notin Refusable, [Next]_vars
    PROVE  EndInv'
<1>0. hist \in History
  BY DEF Typed
<1>1. CASE init
  BY <1>1, EndInit
<1>2. CASE start \/ flush \/ stop \/ cleanup \/ serviceDied \/ SessionStep
  BY <1>2, EndFramework
<1>3. CASE OnResponse \/ HandleMsg \/ EngineAnswers
  BY <1>3, EndOnResponse, EndHandle, EndEngine
<1>4. CASE EmptyBatch \/ DeliverBatch \/ Locate \/ Full \/ UNCHANGED vars
  <2>1. UNCHANGED <<fw, gen, todo, base, popped, msgs, eng, registered, sessions, running>>
    BY <1>4 DEF EmptyBatch, DeliverBatch, Locate, Full, vars, clientVars, adapterVars, engineVars
  <2>2. hist'.refused = hist.refused /\ hist'.ids = hist.ids
    <3>1. PICK x, y, z : hist' = [hist EXCEPT !.given = x, !.reported = y, !.locs = z]
                         \/ hist' = [hist EXCEPT !.given = x, !.reported = y]
                         \/ hist' = [hist EXCEPT !.given = x] \/ hist' = [hist EXCEPT !.locs = z]
                         \/ hist' = hist
      BY <1>4 DEF EmptyBatch, DeliverBatch, onBatchingCb, Locate, Full, vars
    <3> QED
      BY <1>0, <3>1 DEF History
  <2>3. \A k : Wanted(k) => Wanted(k)'
    BY <2>1 DEF Wanted, key, Live
  <2> QED
    BY <2>1, <2>2, <2>3, EndSame
<1> QED
  BY <1>1, <1>2, <1>3, <1>4 DEF Next

\* After cleanup, or when the framework has died, and all calls are answered, the engine
\* runs no session but those whose last stop it has refused: however the stops race starts and
\* answers, of the clients before as well.  The framework flushes or
\* cleans up a stopped session only when all is answered, starts again only when the stop is,
\* and the engine refuses no start.
THEOREM CleanupStopsAlways ==
    ASSUME Calm, "start" \notin Refusable
    PROVE  Spec => []CleanupStops
<1>1. Init => EndInv
  <2> SUFFICES ASSUME Init PROVE EndInv
    OBVIOUS
  <2>1. 1..Len(msgs) = {} /\ 1..Len(eng) = {} /\ base.session = 0 /\ hist.ids = 0
        /\ sessions = {} /\ running = {}
    BY DEF Init
  <2>2. StartsFirst /\ StopsAsked
    BY <2>1 DEF StartsFirst, StopsAsked
  <2>3. \A k \in Keys : Held(k)
    BY <2>1 DEF Held, Active, In
  <2> QED
    BY <2>2, <2>3 DEF EndInv
<1>2. HalInv /\ AnswerInv /\ EndInv /\ [Next]_vars => EndInv'
  BY EndStep DEF HalInv
<1>3. HalInv /\ EndInv => CleanupStops
  <2> SUFFICES ASSUME HalInv, EndInv, fw = "cleaned", Settled, NEW k \in running
               PROVE  k \in hist.refused
    BY DEF CleanupStops
  <2>1. k \in Keys
    BY DEF HalInv, Typed
  <2>2. 1..Len(msgs) = {} /\ 1..Len(eng) = {} /\ 1..Len(todo) = {}
    BY DEF Settled
  <2>3. (\A o : ~In(eng, o, k) /\ ~In(msgs, o, k)) /\ ~Removing(k) /\ ~Wanted(k)
    BY <2>2 DEF In, Removing, Wanted, Live
  <2>4. Active(k)
    BY DEF Active
  <2>5. Held(k)
    BY <2>1 DEF EndInv
  <2> QED
    BY <2>3, <2>4, <2>5 DEF Held
<1> QED
  BY <1>1, <1>2, <1>3, HalInvAlways, AnswerInvAlways, PTL DEF Spec
=============================================================================
