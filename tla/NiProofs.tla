------------------------------ MODULE NiProofs ------------------------------
(* What Ni keeps true for every set of requests, policy and bound.           *)
EXTENDS Ni, SequenceTheorems, TLAPS

-----------------------------------------------------------------------------
(* A request is in one place at a time: in a message, in a session, in a     *)
(* thread that is about to send its answer, or ended.                        *)

How == Answers \cup {"freed"}

\* Message, whatever the ids are.
NiMessage == [m : {"notify"}, r : Requests]
             \cup [m : {"response"}, id : Nat, resp : Answers]
             \cup [m : {"inform"}, r : Requests, resp : Answers]

NiThread == [k : Names, answer : Answers, r : Requests]

NiWrite == [k : Names, resp : Answers]

Typed ==
    /\ requests \in Seq(Kinds)
    /\ raw \in [Names -> {0} \cup Requests]
    /\ resp \in [Names -> Answers \cup {"none"}]
    /\ recvd \in [Names -> BOOLEAN] /\ expired \in [Names -> BOOLEAN]
    /\ leaving \subseteq NiThread
    /\ counter \in Nat
    /\ writes \in Seq(NiWrite)
    /\ msgQ \in Seq(NiMessage)
    /\ shown \in Seq(Nat) /\ Len(shown) = Len(requests)
    /\ ended \in Seq(Seq(How)) /\ Len(ended) = Len(requests)

\* A session that has received a response holds it.
ResponseThere == \A k \in Names : recvd[k] => resp[k] \in Answers

Carries(x, r) == x.m \in {"notify", "inform"} /\ x.r = r

InQueue(q, r) == \E i \in 1..Len(q) : Carries(q[i], r)
InSession(r) == \E k \in Names : raw[k] = r
InThread(r) == \E t \in leaving : t.answer # "IGNORE" /\ t.r = r
Done(r) == ended[r] # <<>>

CarriedOnce(q) ==
    \A i, j \in 1..Len(q), r \in Requests : Carries(q[i], r) /\ Carries(q[j], r) => i = j

OnceInEach ==
    /\ CarriedOnce(msgQ)
    /\ \A k, l \in Names : raw[k] # 0 /\ raw[k] = raw[l] => k = l
    /\ \A t, u \in leaving :
           t.answer # "IGNORE" /\ u.answer # "IGNORE" /\ t.r = u.r => t = u
    /\ EndedOnce

InOnlyOne ==
    \A r \in Requests :
        /\ InQueue(msgQ, r) => ~InSession(r) /\ ~InThread(r) /\ ~Done(r)
        /\ InSession(r) => ~InThread(r) /\ ~Done(r)
        /\ InThread(r) => ~Done(r)

IInv == Typed /\ ResponseThere /\ OnceInEach /\ InOnlyOne

-----------------------------------------------------------------------------
(* Lemmas about the queue of messages and the answers.                       *)

\* What is taken from the queue leaves the other messages as they are.
LEMMA TailCarries ==
    ASSUME NEW q \in Seq(NiMessage), q # <<>>, CarriedOnce(q)
    PROVE  /\ Tail(q) \in Seq(NiMessage) /\ Head(q) \in NiMessage
           /\ CarriedOnce(Tail(q))
           /\ \A r \in Requests : InQueue(Tail(q), r) => InQueue(q, r)
           /\ \A r \in Requests :
                  Carries(Head(q), r) => InQueue(q, r) /\ ~InQueue(Tail(q), r)
<1>1. /\ Tail(q) \in Seq(NiMessage) /\ Head(q) \in NiMessage
      /\ Head(q) = q[1] /\ 1 \in 1..Len(q)
      /\ \A i \in 1..Len(Tail(q)) :
             i + 1 \in 1..Len(q) /\ Tail(q)[i] = q[i + 1] /\ i \in Nat \ {0}
  OBVIOUS
<1>2. CarriedOnce(Tail(q))
  <2> SUFFICES ASSUME NEW i \in 1..Len(Tail(q)), NEW j \in 1..Len(Tail(q)), NEW r \in Requests,
                      Carries(Tail(q)[i], r), Carries(Tail(q)[j], r)
               PROVE  i = j
    BY DEF CarriedOnce
  <2>1. i + 1 = j + 1
    BY <1>1 DEF CarriedOnce
  <2> QED
    BY <1>1, <2>1
<1>3. ASSUME NEW r \in Requests, InQueue(Tail(q), r)
      PROVE  InQueue(q, r) /\ ~Carries(Head(q), r)
  <2>1. PICK i \in 1..Len(Tail(q)) : Carries(Tail(q)[i], r)
    BY <1>3 DEF InQueue
  <2>2. Carries(q[i + 1], r) /\ i + 1 \in 1..Len(q) /\ i + 1 # 1
    BY <1>1, <2>1
  <2> QED
    BY <1>1, <2>2 DEF InQueue, CarriedOnce
<1> QED
  BY <1>1, <1>2, <1>3 DEF InQueue

\* What is put in the queue is added to the messages there.
LEMMA AppendCarries ==
    ASSUME NEW q \in Seq(NiMessage), NEW x \in NiMessage, CarriedOnce(q),
           \A r \in Requests : Carries(x, r) => ~InQueue(q, r)
    PROVE  /\ Append(q, x) \in Seq(NiMessage)
           /\ CarriedOnce(Append(q, x))
           /\ \A r \in Requests : InQueue(Append(q, x), r) <=> InQueue(q, r) \/ Carries(x, r)
<1> DEFINE s == Append(q, x)
<1>1. /\ s \in Seq(NiMessage) /\ Len(q) \in Nat /\ Len(s) = Len(q) + 1 /\ s[Len(s)] = x
      /\ \A i \in 1..Len(q) : i \in 1..Len(s) /\ s[i] = q[i]
      /\ \A i \in 1..Len(s) : i = Len(s) \/ i \in 1..Len(q)
      /\ Len(s) \in 1..Len(s)
  OBVIOUS
<1> HIDE DEF s
<1>2. CarriedOnce(s)
  <2> SUFFICES ASSUME NEW i \in 1..Len(s), NEW j \in 1..Len(s), NEW r \in Requests,
                      Carries(s[i], r), Carries(s[j], r)
               PROVE  i = j
    BY DEF CarriedOnce
  <2>1. CASE i \in 1..Len(q) /\ j \in 1..Len(q)
    BY <1>1, <2>1 DEF CarriedOnce
  <2>2. CASE i = Len(s) \/ j = Len(s)
    BY <1>1, <2>2 DEF InQueue
  <2> QED
    BY <1>1, <2>1, <2>2
<1>3. \A r \in Requests : InQueue(s, r) <=> InQueue(q, r) \/ Carries(x, r)
  BY <1>1 DEF InQueue
<1> QED
  BY <1>1, <1>2, <1>3 DEF s

\* A request that has not ended has ended once afterwards, and no other is touched.
LEMMA EndsOnce ==
    ASSUME Typed, NEW r \in Requests, NEW how \in How, ended[r] = <<>>, End(r, how)
    PROVE  /\ ended' \in Seq(Seq(How)) /\ Len(ended') = Len(ended)
           /\ ended'[r] # <<>> /\ Len(ended'[r]) <= 1
           /\ \A s \in Requests : s # r => ended'[s] = ended[s]
<1>1. ended \in Seq(Seq(How)) /\ r \in 1..Len(ended) /\ Requests = 1..Len(ended)
  BY DEF Typed, Requests
<1>2. ended' = [ended EXCEPT ![r] = <<how>>] /\ <<how>> \in Seq(How) /\ Len(<<how>>) = 1
  BY <1>1 DEF End
<1> QED
  BY <1>1, <1>2

-----------------------------------------------------------------------------
(* Every action keeps the invariant.                                         *)

\* Where a request has no place it did not have, and ends only when it has none left,
\* the invariant is kept.
LEMMA FewerPlaces ==
    ASSUME IInv, Typed', ResponseThere', UNCHANGED requests, CarriedOnce(msgQ)',
           \A r \in Requests : InQueue(msgQ', r) => InQueue(msgQ, r),
           \A k \in Names : raw'[k] \in {0, raw[k]},
           \A t \in leaving' : t.answer # "IGNORE" => t \in leaving,
           \/ UNCHANGED ended
           \/ \E r \in Requests, how \in How :
                 /\ End(r, how) /\ ~Done(r)
                 /\ ~InQueue(msgQ', r) /\ ~InSession(r)' /\ ~InThread(r)'
    PROVE  IInv'
<1>1. Requests' = Requests /\ 0 \notin Requests
  BY DEF Requests
<1>2. /\ \A r \in Requests : InSession(r)' => InSession(r)
      /\ \A r : InThread(r)' => InThread(r)
  BY <1>1 DEF InSession, InThread
<1>3. ASSUME NEW r \in Requests
      PROVE  /\ Len(ended'[r]) <= 1
             /\ Done(r)' => \/ Done(r)
                            \/ ~InQueue(msgQ', r) /\ ~InSession(r)' /\ ~InThread(r)'
  <2>1. CASE UNCHANGED ended
    BY <1>3, <2>1 DEF IInv, OnceInEach, EndedOnce, Done
  <2>2. ASSUME NEW s \in Requests, NEW how \in How, End(s, how), ~Done(s),
               ~InQueue(msgQ', s), ~InSession(s)', ~InThread(s)'
        PROVE  /\ Len(ended'[r]) <= 1
               /\ Done(r)' => Done(r) \/ r = s
    <3>1. /\ Len(ended'[s]) <= 1
          /\ \A t \in Requests : t # s => ended'[t] = ended[t]
      BY <2>2, EndsOnce DEF IInv, Done
    <3>2. Len(ended[r]) <= 1
      BY DEF IInv, OnceInEach, EndedOnce
    <3>3. CASE r = s
      BY <3>1, <3>3
    <3>4. CASE r # s
      BY <3>1, <3>2, <3>4 DEF Done
    <3> QED
      BY <3>3, <3>4
  <2> QED
    BY <2>1, <2>2
<1>4. OnceInEach'
  <2>1. EndedOnce'
    BY <1>1, <1>3 DEF EndedOnce
  <2>2. \A k, l \in Names : raw'[k] # 0 /\ raw'[k] = raw'[l] => k = l
    BY DEF IInv, OnceInEach
  <2>3. \A t, u \in leaving' :
           t.answer # "IGNORE" /\ u.answer # "IGNORE" /\ t.r = u.r => t = u
    BY DEF IInv, OnceInEach
  <2> QED
    BY <2>1, <2>2, <2>3 DEF OnceInEach
<1>5. InOnlyOne'
  <2> SUFFICES ASSUME NEW r \in Requests
               PROVE  /\ InQueue(msgQ', r) => ~InSession(r)' /\ ~InThread(r)' /\ ~Done(r)'
                      /\ InSession(r)' => ~InThread(r)' /\ ~Done(r)'
                      /\ InThread(r)' => ~Done(r)'
    BY <1>1 DEF InOnlyOne, InQueue
  <2>1. /\ InQueue(msgQ, r) => ~InSession(r) /\ ~InThread(r) /\ ~Done(r)
        /\ InSession(r) => ~InThread(r) /\ ~Done(r)
        /\ InThread(r) => ~Done(r)
    BY DEF IInv, InOnlyOne
  <2> QED
    BY <1>2, <1>3, <2>1
<1> QED
  BY <1>4, <1>5 DEF IInv

\* The message that has arrived is taken out of the queue.
LEMMA TakenMessage ==
    ASSUME IInv, NEW kind, Arrived(kind), UNCHANGED requests
    PROVE  /\ UNCHANGED <<Requests, NiMessage>>
           /\ msgQ' \in Seq(NiMessage)' /\ CarriedOnce(msgQ)'
           /\ Head(msgQ) \in NiMessage /\ Head(msgQ).m = kind
           /\ \A s \in Requests : InQueue(msgQ', s) => InQueue(msgQ, s)
           /\ \A s \in Requests :
                  Carries(Head(msgQ), s) => InQueue(msgQ, s) /\ ~InQueue(msgQ', s)
<1>1. UNCHANGED <<Requests, NiMessage>>
  BY DEF Requests, NiMessage
<1>2. msgQ \in Seq(NiMessage) /\ CarriedOnce(msgQ)
  BY DEF IInv, Typed, OnceInEach
<1>3. msgQ # <<>> /\ Head(msgQ).m = kind /\ msgQ' = Tail(msgQ)
  BY DEF Arrived
<1>4. CarriedOnce(msgQ')
  BY <1>2, <1>3, TailCarries
<1>5. CarriedOnce(msgQ)'
  BY <1>1, <1>4 DEF CarriedOnce
<1> QED
  BY <1>1, <1>2, <1>3, <1>5, TailCarries

\* The modem's request comes to an end, is freed, dropped or given a session.
LEMMA NotifyStep == IInv /\ ProcNotify => IInv'
<1> SUFFICES ASSUME IInv, ProcNotify PROVE IInv'
  OBVIOUS
<1>1. /\ UNCHANGED <<requests, resp, recvd, expired, leaving>>
      /\ UNCHANGED Requests /\ UNCHANGED NiMessage
  BY DEF ProcNotify, threadVars, modemVars, Requests, NiMessage
<1>2. PICK r \in Requests :
      /\ r = Head(msgQ).r /\ Carries(Head(msgQ), r)
      /\ msgQ' \in Seq(NiMessage) /\ CarriedOnce(msgQ)'
      /\ \A s \in Requests : InQueue(msgQ', s) => InQueue(msgQ, s)
      /\ InQueue(msgQ, r) /\ ~InQueue(msgQ', r)
  <2>1. Arrived("notify") /\ UNCHANGED requests
    BY <1>1 DEF ProcNotify
  <2>2. PICK r \in Requests : r = Head(msgQ).r /\ Carries(Head(msgQ), r)
    BY <2>1, TakenMessage DEF NiMessage, Carries
  <2> QED
    BY <1>1, <2>1, <2>2, TakenMessage
<1>9. Typed
  BY DEF IInv
<1>3. /\ ~InSession(r) /\ ~InThread(r) /\ ~Done(r)
      /\ r \in Nat \ {0} /\ r \in 1..Len(shown)
  <2>1. ~InSession(r) /\ ~InThread(r) /\ ~Done(r)
    BY <1>2 DEF IInv, InOnlyOne
  <2>2. Requests = 1..Len(shown) /\ Len(shown) \in Nat
    BY <1>9 DEF Requests, Typed
  <2>3. r \in Nat \ {0} /\ r \in 1..Len(shown)
    BY <1>2, <2>2
  <2> QED
    BY <2>1, <2>3
<1>4. ASSUME UNCHANGED <<raw, counter, shown>>,
             writes' \in Seq(NiWrite),
             UNCHANGED ended \/ \E how \in How : End(r, how)
      PROVE  IInv'
  <2>2. ended' \in Seq(Seq(How)) /\ Len(ended') = Len(ended)
    <3>1. CASE UNCHANGED ended
      BY <3>1 DEF IInv, Typed
    <3>2. ASSUME NEW how \in How, End(r, how)
          PROVE  ended' \in Seq(Seq(How)) /\ Len(ended') = Len(ended)
      BY <1>2, <1>3, <3>2, EndsOnce DEF IInv, Done
    <3> QED
      BY <1>4, <3>1, <3>2
  <2>3. Typed'
    <3>1. UNCHANGED <<requests, raw, resp, recvd, expired, leaving, counter, shown, Requests>>
      BY <1>1, <1>4
    <3>2. msgQ' \in Seq(NiMessage)'
      BY <1>1, <1>2
    <3> QED
      BY <1>4, <1>9, <2>2, <3>1, <3>2, Zenon DEF Typed, NiThread, NiWrite
  <2>4. ResponseThere'
    BY <1>1 DEF IInv, ResponseThere
  <2>5. ~InSession(r)' /\ ~InThread(r)'
    BY <1>1, <1>3, <1>4, Zenon DEF InSession, InThread
  <2>6. \A k \in Names : raw'[k] \in {0, raw[k]}
    BY <1>4
  <2>7. \/ UNCHANGED ended
        \/ \E s \in Requests, how \in How :
              /\ End(s, how) /\ ~Done(s)
              /\ ~InQueue(msgQ', s) /\ ~InSession(s)' /\ ~InThread(s)'
    BY <1>2, <1>3, <1>4, <2>5, Zenon
  <2> QED
    BY <1>1, <1>2, <2>3, <2>4, <2>6, <2>7, FewerPlaces
<1>5. CASE Verdict(requests[r]) # "ask" /\ End(r, Verdict(requests[r]))
           /\ UNCHANGED <<raw, counter, writes, shown>>
  <2>1. Verdict(requests[r]) \in How
    BY <1>5 DEF Verdict, How, Answers
  <2> QED
    BY <1>4, <1>5, <1>9, <2>1 DEF Typed
<1>6. CASE Unasked(r)
  <2>1. <<>> \in Seq(NiWrite) /\ <<Ignore>> \in Seq(NiWrite)
    BY DEF Ignore, NiWrite, Names, Answers
  <2>2. "ACCEPT" \in How
    BY DEF How, Answers
  <2>3. writes' \in Seq(NiWrite)
    BY <1>6, <1>9, <2>1 DEF Unasked, Typed
  <2>4. UNCHANGED <<raw, counter, shown>> /\ (UNCHANGED ended \/ \E how \in How : End(r, how))
    BY <1>6, <2>2 DEF Unasked
  <2> QED
    BY <1>4, <2>3, <2>4
<1>7. CASE Ask(r) /\ Busy(SessionOf(r))
  <2>1. "freed" \in How
    BY DEF How
  <2> QED
    BY <1>4, <1>7, <1>9, <2>1 DEF Ask, Typed
<1>8. CASE Ask(r) /\ ~Busy(SessionOf(r))
  <2>1. PICK k \in Names : k = SessionOf(r) /\ raw[k] = 0
    BY <1>8 DEF SessionOf, Busy, Names
  <2>2. /\ raw' = [raw EXCEPT ![k] = r] /\ shown' = [shown EXCEPT ![r] = counter']
        /\ counter' = counter + 1 /\ UNCHANGED <<ended, writes>>
    BY <1>8, <2>1 DEF Ask
  <2>3. Typed' /\ ResponseThere'
    <3>1. shown' \in Seq(Nat) /\ Len(shown') = Len(requests) /\ counter' \in Nat
      BY <1>3, <1>9, <2>2 DEF Typed
    <3>2. raw' \in [Names -> {0} \cup Requests]
      BY <1>2, <1>9, <2>2 DEF Typed
    <3>3. msgQ' \in Seq(NiMessage)'
      BY <1>1, <1>2
    <3>5. Typed'
      BY <1>1, <1>9, <2>2, <3>1, <3>2, <3>3, Zenon DEF Typed, NiThread, NiWrite
    <3>4. ResponseThere'
      BY <1>1 DEF IInv, ResponseThere
    <3> QED
      BY <3>4, <3>5
  <2>4. \A j \in Names : raw'[j] = IF j = k THEN r ELSE raw[j]
    BY <2>1, <2>2 DEF IInv, Typed
  <2>5. /\ \A s : UNCHANGED <<InThread(s), Done(s)>>
        /\ \A s \in Requests : s # r => (InSession(s)' <=> InSession(s))
    BY <1>1, <2>1, <2>2, <2>4 DEF InThread, Done, InSession, Requests
  <2>6. OnceInEach'
    <3>1. EndedOnce'
      BY <1>1, <2>2 DEF IInv, OnceInEach, EndedOnce
    <3>2. \A j, l \in Names : raw'[j] # 0 /\ raw'[j] = raw'[l] => j = l
      BY <1>3, <2>1, <2>4 DEF IInv, OnceInEach, InSession
    <3>3. \A t, u \in leaving' :
             t.answer # "IGNORE" /\ u.answer # "IGNORE" /\ t.r = u.r => t = u
      BY <1>1, Zenon DEF IInv, OnceInEach
    <3> QED
      BY <1>2, <3>1, <3>2, <3>3 DEF OnceInEach
  <2>7. InOnlyOne'
    <3> SUFFICES ASSUME NEW s \in Requests
                 PROVE  /\ InQueue(msgQ', s) => ~InSession(s)' /\ ~InThread(s)' /\ ~Done(s)'
                        /\ InSession(s)' => ~InThread(s)' /\ ~Done(s)'
                        /\ InThread(s)' => ~Done(s)'
      BY <1>1 DEF InOnlyOne, InQueue
    <3>1. CASE s = r
      BY <1>2, <1>3, <2>5, <3>1
    <3>2. CASE s # r
      BY <1>2, <2>5, <3>2 DEF IInv, InOnlyOne
    <3> QED
      BY <3>1, <3>2
  <2> QED
    BY <2>3, <2>6, <2>7 DEF IInv
<1> QED
  BY <1>2, <1>5, <1>6, <1>7, <1>8 DEF ProcNotify

\* The client's response is turned into writes, or dropped.
LEMMA ResponseStep == IInv /\ ProcResponse => IInv'
<1> SUFFICES ASSUME IInv, ProcResponse PROVE IInv'
  OBVIOUS
<1>1. /\ Arrived("response")
      /\ UNCHANGED <<requests, raw, resp, recvd, expired, leaving, counter, shown, ended>>
  BY DEF ProcResponse, sessionVars, threadVars, userVars, pastVars, modemVars
<1>2. Head(msgQ).resp \in Answers
  BY <1>1, TakenMessage DEF NiMessage
<1>3. writes' \in Seq(NiWrite)
  <2>1. /\ Ignore \in NiWrite
        /\ \A k \in Names : [k |-> k, resp |-> Head(msgQ).resp] \in NiWrite
    BY <1>2 DEF Ignore, NiWrite, Names, Answers
  <2>2. "session" \in Names /\ "sessionEs" \in Names
    BY DEF Names
  <2>3. \A x, y \in NiWrite : <<x>> \in Seq(NiWrite) /\ <<x, y>> \in Seq(NiWrite)
    OBVIOUS
  <2> QED
    BY <2>1, <2>2, <2>3 DEF ProcResponse
<1>4. Typed' /\ ResponseThere'
  BY <1>1, <1>3, TakenMessage, Zenon DEF IInv, Typed, ResponseThere, NiThread, NiWrite, Requests
<1> QED
  BY <1>1, <1>4, TakenMessage, FewerPlaces

\* What is decided on is written.
LEMMA WriteStep == IInv /\ Write => IInv'
<1> SUFFICES ASSUME IInv, Write PROVE IInv'
  OBVIOUS
<1>1. UNCHANGED <<requests, raw, expired, leaving, counter, shown, ended, msgQ>>
  BY DEF Write, threadVars, userVars, modemVars
<1>2. PICK w \in NiWrite :
        /\ resp' = [resp EXCEPT ![w.k] = w.resp] /\ recvd' = [recvd EXCEPT ![w.k] = TRUE]
        /\ writes' \in Seq(NiWrite)
  <2>1. writes \in Seq(NiWrite) /\ writes # <<>>
    BY DEF Write, IInv, Typed
  <2>2. Head(writes) \in NiWrite /\ Tail(writes) \in Seq(NiWrite)
    BY <2>1
  <2> QED
    BY <2>2, Zenon DEF Write
<1>3. w.k \in Names /\ w.resp \in Answers
  BY DEF NiWrite
<1>4. /\ resp' \in [Names -> Answers \cup {"none"}] /\ recvd' \in [Names -> BOOLEAN]
      /\ ResponseThere'
  BY <1>2, <1>3 DEF IInv, Typed, ResponseThere
<1>5. Typed'
  BY <1>1, <1>2, <1>4, Zenon DEF IInv, Typed, NiThread, NiWrite, Requests, NiMessage
<1>6. CarriedOnce(msgQ)'
  BY <1>1, Zenon DEF IInv, OnceInEach, CarriedOnce, Requests
<1> QED
  BY <1>1, <1>4, <1>5, <1>6, FewerPlaces

\* The answer that a thread has sent is handed to the modem.
LEMMA InformStep == IInv /\ ProcInform => IInv'
<1> SUFFICES ASSUME IInv, ProcInform PROVE IInv'
  OBVIOUS
<1>1. /\ Arrived("inform") /\ End(Head(msgQ).r, Head(msgQ).resp)
      /\ UNCHANGED <<requests, raw, resp, recvd, expired, leaving, counter, shown, writes>>
  BY DEF ProcInform, sessionVars, threadVars, userVars, modemVars
<1>2. PICK r \in Requests, how \in How :
        r = Head(msgQ).r /\ how = Head(msgQ).resp /\ Carries(Head(msgQ), r)
  BY <1>1, TakenMessage DEF NiMessage, Carries, How
<1>3. InQueue(msgQ, r) /\ ~InQueue(msgQ', r)
  BY <1>1, <1>2, TakenMessage
<1>4. ~InSession(r) /\ ~InThread(r) /\ ~Done(r)
  BY <1>3 DEF IInv, InOnlyOne
<1>5. ended' \in Seq(Seq(How)) /\ Len(ended') = Len(ended)
  BY <1>1, <1>2, <1>4, EndsOnce DEF IInv, Done
<1>6. Typed' /\ ResponseThere'
  BY <1>1, <1>5, TakenMessage, Zenon DEF IInv, Typed, ResponseThere, NiThread, NiWrite, Requests
<1>7. ~InSession(r)' /\ ~InThread(r)'
  BY <1>1, <1>4, Zenon DEF InSession, InThread
<1> QED
  BY <1>1, <1>2, <1>3, <1>4, <1>6, <1>7, TakenMessage, FewerPlaces

\* The thread takes the answer, and its request out of the session.
LEMMA TakeStep == ASSUME IInv, NEW k \in Names, TakeAnswer(k) PROVE IInv'
<1>0. Typed
  BY DEF IInv
<1>1. UNCHANGED <<requests, counter, writes, shown, msgQ>>
  BY DEF TakeAnswer, userVars, modemVars
<1>2. PICK r \in Requests : r = raw[k] /\ r # 0
  BY <1>0 DEF Typed, TakeAnswer
<1>3. PICK answer \in Answers :
        /\ resp' = [resp EXCEPT ![k] = answer]
        /\ leaving' = leaving \cup {[k |-> k, answer |-> answer, r |-> r]}
        /\ IF answer = "IGNORE" THEN End(r, "freed") ELSE UNCHANGED ended
  <2>1. expired[k] \/ resp[k] \in Answers
    BY DEF TakeAnswer, WaitOver, IInv, ResponseThere
  <2>2. "NO_RESPONSE" \in Answers
    BY DEF Answers
  <2> QED
    BY <1>2, <2>1, <2>2 DEF TakeAnswer
<1> DEFINE t == [k |-> k, answer |-> answer, r |-> r]
<1>4. /\ raw' = [raw EXCEPT ![k] = 0] /\ recvd' = [recvd EXCEPT ![k] = FALSE]
      /\ expired' = [expired EXCEPT ![k] = FALSE]
  BY DEF TakeAnswer
<1>5. InSession(r) /\ ~InQueue(msgQ, r) /\ ~InThread(r) /\ ~Done(r)
  <2>1. InSession(r)
    BY <1>2 DEF InSession
  <2> QED
    BY <2>1 DEF IInv, InOnlyOne
<1>6. UNCHANGED <<Requests, NiMessage>> /\ 0 \notin Requests
  BY <1>1 DEF Requests, NiMessage
<1>7. \A j \in Names : raw'[j] = IF j = k THEN 0 ELSE raw[j]
  BY <1>0, <1>4 DEF Typed
<1>8. ~InSession(r)'
  <2>1. \A j \in Names : raw[j] = r => j = k
    BY <1>2 DEF IInv, OnceInEach
  <2> QED
    BY <1>2, <1>7, <2>1 DEF InSession
<1>9. ended' \in Seq(Seq(How)) /\ Len(ended') = Len(ended)
  <2>1. CASE answer = "IGNORE"
    <3>1. "freed" \in How
      BY DEF How
    <3> QED
      BY <1>0, <1>3, <1>5, <2>1, <3>1, EndsOnce DEF Done
  <2>2. CASE answer # "IGNORE"
    BY <1>0, <1>3, <2>2 DEF Typed
  <2> QED
    BY <2>1, <2>2
<1>10. Typed'
  <2>1. /\ raw' \in [Names -> {0} \cup Requests] /\ resp' \in [Names -> Answers \cup {"none"}]
        /\ recvd' \in [Names -> BOOLEAN] /\ expired' \in [Names -> BOOLEAN]
    BY <1>0, <1>3, <1>4 DEF Typed
  <2>2. leaving' \subseteq NiThread
    BY <1>0, <1>3 DEF Typed, NiThread
  <2>3. NiThread' = NiThread
    BY <1>6 DEF NiThread
  <2> QED
    BY <1>0, <1>1, <1>6, <1>9, <2>1, <2>2, <2>3, Zenon DEF Typed, NiWrite
<1>11. ResponseThere'
  BY <1>0, <1>3, <1>4 DEF IInv, ResponseThere, Typed
<1>12. CarriedOnce(msgQ)'
  BY <1>1, <1>6, Zenon DEF IInv, OnceInEach, CarriedOnce
<1>13. CASE answer = "IGNORE"
  <2>1. \A u \in leaving' : u.answer # "IGNORE" => u \in leaving
    BY <1>3, <1>13
  <2>2. ~InThread(r)'
    BY <1>5, <2>1 DEF InThread
  <2>3. End(r, "freed") /\ "freed" \in How
    BY <1>3, <1>13 DEF How
  <2> QED
    BY <1>1, <1>5, <1>7, <1>8, <1>10, <1>11, <1>12, <2>1, <2>2, <2>3, FewerPlaces
<1>14. CASE answer # "IGNORE"
  <2>1. UNCHANGED ended
    BY <1>3, <1>14
  <2>2. /\ \A s \in Requests : s # r => (InThread(s)' <=> InThread(s))
        /\ \A s \in Requests : InSession(s)' => InSession(s)
        /\ \A s : Done(s)' <=> Done(s)
    <3>1. \A s \in Requests : s # r => (InThread(s)' <=> InThread(s))
      BY <1>3 DEF InThread
    <3>2. \A s \in Requests : InSession(s)' => InSession(s)
      BY <1>6, <1>7 DEF InSession
    <3>3. \A s : Done(s)' <=> Done(s)
      BY <2>1 DEF Done
    <3> QED
      BY <3>1, <3>2, <3>3
  <2>3. OnceInEach'
    <3>1. EndedOnce'
      BY <1>6, <2>1, Zenon DEF IInv, OnceInEach, EndedOnce
    <3>2. \A j, l \in Names : raw'[j] # 0 /\ raw'[j] = raw'[l] => j = l
      BY <1>7 DEF IInv, OnceInEach
    <3>3. \A u, v \in leaving' :
             u.answer # "IGNORE" /\ v.answer # "IGNORE" /\ u.r = v.r => u = v
      BY <1>3, <1>5 DEF IInv, OnceInEach, InThread
    <3> QED
      BY <1>12, <3>1, <3>2, <3>3 DEF OnceInEach
  <2>4. InOnlyOne'
    <3> SUFFICES ASSUME NEW s \in Requests
                 PROVE  /\ InQueue(msgQ', s) => ~InSession(s)' /\ ~InThread(s)' /\ ~Done(s)'
                        /\ InSession(s)' => ~InThread(s)' /\ ~Done(s)'
                        /\ InThread(s)' => ~Done(s)'
      BY <1>6 DEF InOnlyOne, InQueue
    <3>1. CASE s = r
      BY <1>1, <1>5, <1>8, <2>2, <3>1
    <3>2. CASE s # r
      BY <1>1, <2>2, <3>2 DEF IInv, InOnlyOne
    <3> QED
      BY <3>1, <3>2
  <2> QED
    BY <1>10, <1>11, <2>3, <2>4 DEF IInv
<1> QED
  BY <1>13, <1>14

\* The thread sends the answer it has taken.
LEMMA LeaveStep == ASSUME IInv, NEW t \in leaving, Leave(t) PROVE IInv'
<1>0. Typed
  BY DEF IInv
<1>1. UNCHANGED <<requests, raw, resp, recvd, expired, counter, writes, shown, ended>>
  BY DEF Leave, userVars, modemVars, pastVars
<1>2. UNCHANGED <<Requests, NiMessage>>
  BY <1>1 DEF Requests, NiMessage
<1>3. leaving' = leaving \ {t} /\ t.r \in Requests /\ t.answer \in Answers
  BY <1>0 DEF Leave, Typed, NiThread
<1>4. PICK r \in Requests : r = t.r
  BY <1>3
<1>5. ASSUME msgQ' \in Seq(NiMessage) PROVE Typed' /\ ResponseThere'
  <2>1. leaving' \subseteq NiThread' /\ NiThread' = NiThread
    BY <1>0, <1>2, <1>3 DEF Typed, NiThread
  <2> QED
    BY <1>0, <1>1, <1>2, <1>5, <2>1, Zenon DEF IInv, Typed, NiWrite, ResponseThere
<1>6. msgQ \in Seq(NiMessage) /\ CarriedOnce(msgQ)
  BY DEF IInv, Typed, OnceInEach
<1>7. CASE t.answer = "IGNORE"
  <2>1. UNCHANGED msgQ
    BY <1>7 DEF Leave, sendResponse
  <2>2. CarriedOnce(msgQ)'
    BY <1>2, <1>6, <2>1 DEF CarriedOnce
  <2> QED
    BY <1>1, <1>3, <1>5, <1>6, <2>1, <2>2, FewerPlaces
<1>8. CASE t.answer # "IGNORE"
  <2>1. PICK x \in NiMessage : x.m = "inform" /\ x.r = r /\ msgQ' = Append(msgQ, x)
    <3>1. [m |-> "inform", r |-> t.r, resp |-> t.answer] \in NiMessage
      BY <1>3 DEF NiMessage
    <3>2. msgQ' = Append(msgQ, [m |-> "inform", r |-> t.r, resp |-> t.answer])
      BY <1>8 DEF Leave, sendResponse
    <3> QED
      BY <1>4, <3>1, <3>2
  <2>2. \A s : Carries(x, s) <=> s = r
    BY <2>1 DEF Carries
  <2>3. InThread(r) /\ ~InQueue(msgQ, r) /\ ~InSession(r) /\ ~Done(r)
    <3>1. InThread(r)
      BY <1>4, <1>8 DEF InThread
    <3> QED
      BY <3>1 DEF IInv, InOnlyOne
  <2>4. /\ msgQ' \in Seq(NiMessage) /\ CarriedOnce(msgQ')
        /\ \A s \in Requests : InQueue(msgQ', s) <=> InQueue(msgQ, s) \/ s = r
    BY <1>6, <2>1, <2>2, <2>3, AppendCarries
  <2>5. /\ ~InThread(r)'
        /\ \A s : InThread(s)' => InThread(s)
        /\ \A s : UNCHANGED <<InSession(s), Done(s)>>
    <3>1. ~InThread(r)'
      BY <1>3, <1>4, <1>8 DEF IInv, OnceInEach, InThread
    <3>2. \A s : InThread(s)' => InThread(s)
      BY <1>3 DEF InThread
    <3>3. \A s : UNCHANGED <<InSession(s), Done(s)>>
      BY <1>1 DEF InSession, Done
    <3> QED
      BY <3>1, <3>2, <3>3
  <2>6. OnceInEach'
    <3>1. EndedOnce'
      BY <1>1, <1>2, Zenon DEF IInv, OnceInEach, EndedOnce
    <3>2. CarriedOnce(msgQ)'
      BY <1>2, <2>4 DEF CarriedOnce
    <3>3. \A j, l \in Names : raw'[j] # 0 /\ raw'[j] = raw'[l] => j = l
      BY <1>1 DEF IInv, OnceInEach
    <3>4. \A u, v \in leaving' :
             u.answer # "IGNORE" /\ v.answer # "IGNORE" /\ u.r = v.r => u = v
      BY <1>3 DEF IInv, OnceInEach
    <3> QED
      BY <3>1, <3>2, <3>3, <3>4 DEF OnceInEach
  <2>7. InOnlyOne'
    <3> SUFFICES ASSUME NEW s \in Requests
                 PROVE  /\ InQueue(msgQ', s) => ~InSession(s)' /\ ~InThread(s)' /\ ~Done(s)'
                        /\ InSession(s)' => ~InThread(s)' /\ ~Done(s)'
                        /\ InThread(s)' => ~Done(s)'
      BY <1>2 DEF InOnlyOne, InQueue
    <3>1. CASE s = r
      BY <2>3, <2>5, <3>1
    <3>2. CASE s # r
      BY <2>4, <2>5, <3>2 DEF IInv, InOnlyOne
    <3> QED
      BY <3>1, <3>2
  <2> QED
    BY <1>5, <2>4, <2>6, <2>7 DEF IInv
<1> QED
  BY <1>7, <1>8

\* A new request is nowhere but in its message.
LEMMA ModemStep == ASSUME IInv, NEW n \in Kinds, ModemNotify(n) PROVE IInv'
<1>0. Typed
  BY DEF IInv
<1>1. UNCHANGED <<raw, resp, recvd, expired, leaving, counter, writes>>
  BY DEF ModemNotify, sessionVars, threadVars
<1>2. PICK r \in Nat : r = Len(requests) + 1
  BY <1>0 DEF Typed
<1>3. /\ requests' = Append(requests, n) /\ shown' = Append(shown, 0)
      /\ ended' = Append(ended, <<>>)
      /\ msgQ' = Append(msgQ, [m |-> "notify", r |-> r])
  BY <1>2 DEF ModemNotify, Post
<1>4. /\ requests' \in Seq(Kinds) /\ Requests' = Requests \cup {r}
      /\ r \notin Requests /\ r # 0 /\ 0 \notin Requests
  BY <1>0, <1>2, <1>3 DEF Typed, Requests
<1>5. /\ shown' \in Seq(Nat) /\ Len(shown') = Len(requests')
      /\ ended' \in Seq(Seq(How)) /\ Len(ended') = Len(requests')
      /\ ended'[r] = <<>> /\ \A s \in Requests : ended'[s] = ended[s]
  <2>1. <<>> \in Seq(How) /\ Requests = 1..Len(ended)
    BY <1>0 DEF Typed, Requests
  <2> QED
    BY <1>0, <1>2, <1>3, <2>1 DEF Typed
<1>6. NiMessage \subseteq NiMessage' /\ [m |-> "notify", r |-> r] \in NiMessage'
  BY <1>4 DEF NiMessage
<1>7. msgQ' \in Seq(NiMessage') /\ leaving \subseteq NiThread'
  BY <1>0, <1>3, <1>4, <1>6 DEF Typed, NiThread
<1>8. Typed' /\ ResponseThere'
  <2>1. raw \in [Names -> {0} \cup Requests'] /\ counter' \in Nat /\ NiWrite' = NiWrite
    BY <1>0, <1>1, <1>4 DEF Typed, NiWrite
  <2> QED
    BY <1>0, <1>1, <1>4, <1>5, <1>7, <2>1, Zenon DEF IInv, Typed, ResponseThere
<1>9. /\ \A i \in 1..Len(msgQ) : msgQ'[i] = msgQ[i] /\ i \in 1..Len(msgQ')
      /\ \A i \in 1..Len(msgQ') : i \in 1..Len(msgQ) \/ i = Len(msgQ')
      /\ Len(msgQ') \in 1..Len(msgQ') /\ msgQ'[Len(msgQ')] = [m |-> "notify", r |-> r]
  BY <1>0, <1>3 DEF Typed
<1>10. /\ \A i \in 1..Len(msgQ) : \A s : Carries(msgQ[i], s) => s \in Requests
       /\ \A s : Carries(msgQ'[Len(msgQ')], s) <=> s = r
  <2>1. ASSUME NEW i \in 1..Len(msgQ), NEW s, Carries(msgQ[i], s) PROVE s \in Requests
    <3>1. msgQ[i] \in NiMessage
      BY <1>0 DEF Typed
    <3> QED
      BY <2>1, <3>1 DEF NiMessage, Carries
  <2> QED
    BY <1>9, <2>1 DEF Carries
<1>11. CarriedOnce(msgQ)'
  <2> SUFFICES ASSUME NEW i \in 1..Len(msgQ'), NEW j \in 1..Len(msgQ'), NEW s,
                      Carries(msgQ'[i], s), Carries(msgQ'[j], s)
               PROVE  i = j
    BY DEF CarriedOnce
  <2>1. CASE i \in 1..Len(msgQ) /\ j \in 1..Len(msgQ)
    BY <1>9, <1>10, <2>1 DEF IInv, OnceInEach, CarriedOnce
  <2>2. CASE i = Len(msgQ') \/ j = Len(msgQ')
    BY <1>4, <1>9, <1>10, <2>2
  <2> QED
    BY <1>9, <2>1, <2>2
<1>12. \A s \in Requests' : InQueue(msgQ', s) => InQueue(msgQ, s) \/ s = r
  BY <1>9, <1>10 DEF InQueue
<1>13. /\ ~InSession(r)' /\ ~InThread(r)' /\ ~Done(r)'
       /\ \A s \in Requests : UNCHANGED <<InSession(s), InThread(s), Done(s)>>
  <2>1. ~InSession(r)'
    BY <1>0, <1>1, <1>4 DEF InSession, Typed
  <2>2. ~InThread(r)'
    BY <1>0, <1>1, <1>4 DEF InThread, Typed, NiThread
  <2>3. \A s \in Requests : UNCHANGED <<InSession(s), InThread(s), Done(s)>>
    BY <1>1, <1>5 DEF InSession, InThread, Done
  <2> QED
    BY <1>5, <2>1, <2>2, <2>3 DEF Done
<1>14. OnceInEach'
  <2>1. EndedOnce'
    <3>1. Len(ended'[r]) <= 1
      BY <1>5
    <3>2. \A s \in Requests : Len(ended'[s]) <= 1
      BY <1>5 DEF IInv, OnceInEach, EndedOnce
    <3> QED
      BY <1>4, <3>1, <3>2 DEF EndedOnce
  <2>2. /\ \A k, l \in Names : raw'[k] # 0 /\ raw'[k] = raw'[l] => k = l
        /\ \A t, u \in leaving' :
               t.answer # "IGNORE" /\ u.answer # "IGNORE" /\ t.r = u.r => t = u
    BY <1>1 DEF IInv, OnceInEach
  <2> QED
    BY <1>11, <2>1, <2>2 DEF OnceInEach
<1>15. InOnlyOne'
  <2> SUFFICES ASSUME NEW s \in Requests'
               PROVE  /\ InQueue(msgQ', s) => ~InSession(s)' /\ ~InThread(s)' /\ ~Done(s)'
                      /\ InSession(s)' => ~InThread(s)' /\ ~Done(s)'
                      /\ InThread(s)' => ~Done(s)'
    BY DEF InOnlyOne, InQueue
  <2>1. CASE s = r
    BY <1>13, <2>1
  <2>2. CASE s # r
    BY <1>4, <1>12, <1>13, <2>2 DEF IInv, InOnlyOne
  <2> QED
    BY <2>1, <2>2
<1> QED
  BY <1>8, <1>14, <1>15 DEF IInv

\* The user's response carries no request.
LEMMA UserStep == ASSUME IInv, NEW r \in Requests, NEW answer \in {"ACCEPT", "DENY"},
                         UserAnswers(r, answer)
                  PROVE  IInv'
<1>0. Typed
  BY DEF IInv
<1>1. UNCHANGED <<requests, raw, resp, recvd, expired, leaving, counter, writes, shown, ended>>
  BY DEF UserAnswers, sessionVars, threadVars, pastVars, modemVars
<1>2. PICK x \in NiMessage : x.m = "response" /\ msgQ' = Append(msgQ, x)
  <2>1. shown[r] \in Nat /\ answer \in Answers
    BY <1>0 DEF Typed, Requests, Answers
  <2>2. [m |-> "response", id |-> shown[r], resp |-> answer] \in NiMessage
    BY <2>1 DEF NiMessage
  <2> QED
    BY <2>2 DEF UserAnswers, Post
<1>3. \A s : ~Carries(x, s)
  BY <1>2 DEF Carries
<1>4. msgQ \in Seq(NiMessage) /\ CarriedOnce(msgQ)
  BY DEF IInv, Typed, OnceInEach
<1>5. /\ msgQ' \in Seq(NiMessage) /\ CarriedOnce(msgQ')
      /\ \A s \in Requests : InQueue(msgQ', s) => InQueue(msgQ, s)
  BY <1>2, <1>3, <1>4, AppendCarries
<1>6. Typed' /\ ResponseThere'
  BY <1>0, <1>1, <1>5, Zenon DEF IInv, Typed, ResponseThere, NiThread, NiWrite, Requests, NiMessage
<1>7. CarriedOnce(msgQ)'
  BY <1>1, <1>5, Zenon DEF CarriedOnce, Requests
<1> QED
  BY <1>1, <1>5, <1>6, <1>7, FewerPlaces

\* A timeout, a restart or the client's coming and going moves no request.
LEMMA OtherStep ==
    ASSUME IInv, (\E k \in Names : WaitExpires(k)) \/ ModemRestart \/ ClientChanges
                 \/ UNCHANGED vars
    PROVE  IInv'
<1>0. Typed
  BY DEF IInv
<1>1. /\ UNCHANGED <<requests, raw, resp, recvd, leaving, counter, writes, shown, ended, msgQ>>
      /\ expired' \in [Names -> BOOLEAN]
  BY <1>0 DEF WaitExpires, ModemRestart, ClientChanges, vars, sessionVars, threadVars,
     userVars, modemVars, pastVars, Typed
<1>2. Typed' /\ ResponseThere'
  BY <1>0, <1>1, Zenon DEF IInv, Typed, ResponseThere, NiThread, NiWrite, Requests, NiMessage
<1>3. CarriedOnce(msgQ)'
  BY <1>1, Zenon DEF IInv, OnceInEach, CarriedOnce, Requests
<1> QED
  BY <1>1, <1>2, <1>3, FewerPlaces

\* The strengthened invariant holds at the start.
LEMMA InvInit == Init => IInv
<1> SUFFICES ASSUME Init PROVE IInv
  OBVIOUS
<1>1. /\ requests = <<>> /\ ended = <<>> /\ shown = <<>> /\ msgQ = <<>> /\ writes = <<>>
      /\ raw = [k \in Names |-> 0] /\ recvd = [k \in Names |-> FALSE] /\ leaving = {}
      /\ resp = [k \in Names |-> "none"] /\ expired = [k \in Names |-> FALSE] /\ counter = 0
  BY DEF Init
<1>2. Requests = {}
  BY <1>1 DEF Requests
<1>3. Typed
  BY <1>1 DEF Typed
<1>4. ResponseThere
  BY <1>1 DEF ResponseThere
<1>5. OnceInEach /\ InOnlyOne
  BY <1>1, <1>2 DEF OnceInEach, InOnlyOne, CarriedOnce, EndedOnce
<1> QED
  BY <1>3, <1>4, <1>5 DEF IInv

\* And every step keeps it.
LEMMA InvStep == IInv /\ [Next]_vars => IInv'
<1> SUFFICES ASSUME IInv, [Next]_vars PROVE IInv'
  OBVIOUS
<1>1. CASE Proc
  BY <1>1, NotifyStep, ResponseStep, WriteStep, InformStep DEF Proc
<1>2. CASE Thread
  BY <1>2, TakeStep, OtherStep DEF Thread
<1>3. CASE \E t \in leaving : Leave(t)
  BY <1>3, LeaveStep
<1>4. CASE \E n \in Kinds : ModemNotify(n)
  BY <1>4, ModemStep
<1>5. CASE \E r \in 1..Len(requests), a \in {"ACCEPT", "DENY"} : UserAnswers(r, a)
  BY <1>5, UserStep DEF Requests
<1>6. CASE ModemRestart \/ ClientChanges \/ UNCHANGED vars
  BY <1>6, OtherStep
<1> QED
  BY <1>1, <1>2, <1>3, <1>4, <1>5, <1>6 DEF Next

-----------------------------------------------------------------------------

\* A request of the modem ends once at most: whatever responses, timeouts, restarts
\* and late threads meet, its buffer is handed over or freed by one of them, for every
\* policy and any number of requests.
THEOREM EndedOnceAlways == Spec => []EndedOnce
<1>1. IInv => EndedOnce
  BY DEF IInv, OnceInEach
<1> QED
  BY InvInit, InvStep, <1>1, PTL DEF Spec

\* And it is never lost sight of in two places: what is in a session, in a thread on its
\* way out or in a message has not ended yet, and is in only one of them.
THEOREM OnePlaceAlways == Spec => [](OnceInEach /\ InOnlyOne)
<1>1. IInv => OnceInEach /\ InOnlyOne
  BY DEF IInv
<1> QED
  BY InvInit, InvStep, <1>1, PTL DEF Spec
=============================================================================
