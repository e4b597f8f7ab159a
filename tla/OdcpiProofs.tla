----------------------------- MODULE OdcpiProofs -----------------------------
(* What Odcpi keeps true for every set of handlers and every period.         *)
EXTENDS Odcpi, SequenceTheorems, TLAPS

-----------------------------------------------------------------------------
(* What the messages in the queue say of the modem's request.                *)

Wish == {"start", "stop", "engineUp"}

\* The request the modem has once it has sent x.
AskedBy(x) == IF x.m = "start" THEN x.mode ELSE "none"

Wishes(q) == {i \in 1..Len(q) : q[i].m \in Wish}

\* The last of them, if there is one, says that the request is w.
Says(q, w) ==
    \A i \in Wishes(q) : (\A j \in Wishes(q) : j <= i) => w = AskedBy(q[i])

Mode == IF emergency THEN "emergency" ELSE "normal"

\* What is on its way, or else what the adapter holds, is what the modem wants.
HeldIsAsked ==
    /\ Says(msgQ, modem)
    /\ active /\ Wishes(msgQ) = {} => modem = Mode

\* Only a handler that is not below the present one has ever been sent a start,
\* and without a restart on its way the present one has been sent a stop.
SentIsActive ==
    /\ active => handler # 0
    /\ \A p \in on : p <= handler
    /\ restarts = 0 => \A i \in 1..Len(msgQ) : msgQ[i].m # "engineUp"
    /\ restarts = 0 /\ handler \in on => active

IInv == TypeOK /\ ActiveIsTimed /\ HeldIsAsked /\ SentIsActive

-----------------------------------------------------------------------------
(* Lemmas about the queue.                                                   *)

ExpireQueued(q) == \E i \in 1..Len(q) : q[i].m = "expire"

\* A message other than an expiration leaves the expirations in the queue.
LEMMA TailKeeps ==
    ASSUME NEW q \in Seq(Message), q # <<>>, Head(q).m # "expire", ExpireQueued(q)
    PROVE  ExpireQueued(Tail(q))
<1>1. PICK i \in 1..Len(q) : q[i].m = "expire"
  BY DEF ExpireQueued
<1>2. i # 1 /\ i - 1 \in 1..Len(Tail(q)) /\ Tail(q)[i - 1] = q[i]
  BY <1>1
<1> QED
  BY <1>1, <1>2 DEF ExpireQueued

LEMMA AppendKeeps ==
    ASSUME NEW q \in Seq(Message), NEW x \in Message
    PROVE  /\ Append(q, x) \in Seq(Message)
           /\ ExpireQueued(q) => ExpireQueued(Append(q, x))
           /\ x.m = "expire" => ExpireQueued(Append(q, x))
  BY DEF ExpireQueued

\* The message taken from the queue leaves what the others say, and when none of
\* the others is a request, it was itself the last word.
LEMMA TailSays ==
    ASSUME NEW q \in Seq(Message), NEW w, q # <<>>, Says(q, w)
    PROVE  /\ Says(Tail(q), w)
           /\ Wishes(Tail(q)) = {} =>
                 IF Head(q).m \in Wish THEN w = AskedBy(Head(q)) ELSE Wishes(q) = {}
<1>1. /\ Len(q) \in Nat \ {0} /\ Len(Tail(q)) = Len(q) - 1
      /\ \A i \in 1..Len(Tail(q)) : Tail(q)[i] = q[i + 1]
  OBVIOUS
<1>2. \A i \in 1..Len(Tail(q)) : i \in Wishes(Tail(q)) <=> i + 1 \in Wishes(q)
  BY <1>1 DEF Wishes
<1>3. \A i \in Wishes(q) : i = 1 \/ i - 1 \in Wishes(Tail(q))
  <2> SUFFICES ASSUME NEW i \in Wishes(q), i # 1 PROVE i - 1 \in Wishes(Tail(q))
    OBVIOUS
  <2>1. i \in 1..Len(q) /\ i - 1 \in 1..Len(Tail(q)) /\ (i - 1) + 1 = i
    BY <1>1 DEF Wishes
  <2> QED
    BY <1>2, <2>1
<1>4. Says(Tail(q), w)
  <2> SUFFICES ASSUME NEW i \in Wishes(Tail(q)), \A j \in Wishes(Tail(q)) : j <= i
               PROVE  w = AskedBy(Tail(q)[i])
    BY DEF Says
  <2>1. i \in 1..Len(Tail(q)) /\ i + 1 \in Wishes(q) /\ Tail(q)[i] = q[i + 1]
    BY <1>1, <1>2 DEF Wishes
  <2>2. ASSUME NEW j \in Wishes(q) PROVE j <= i + 1
    <3>1. j \in Int /\ i \in Nat
      BY <1>1, <2>1 DEF Wishes
    <3> QED
      BY <1>3, <3>1, <2>1
  <2> QED
    BY <2>1, <2>2 DEF Says
<1>5. ASSUME Wishes(Tail(q)) = {}
      PROVE  IF Head(q).m \in Wish THEN w = AskedBy(Head(q)) ELSE Wishes(q) = {}
  <2>1. Wishes(q) \subseteq {1}
    BY <1>3, <1>5
  <2>2. 1 \in 1..Len(q) /\ Head(q) = q[1]
    BY <1>1
  <2>3. 1 \in Wishes(q) <=> Head(q).m \in Wish
    BY <2>2 DEF Wishes
  <2> QED
    BY <2>1, <2>2, <2>3 DEF Says
<1> QED
  BY <1>4, <1>5

\* The message put in the queue is the last word, or leaves what the others say.
LEMMA AppendSays ==
    ASSUME NEW q \in Seq(Message), NEW x \in Message, NEW w
    PROVE  /\ x.m \in Wish => Says(Append(q, x), AskedBy(x)) /\ Wishes(Append(q, x)) # {}
           /\ x.m \notin Wish /\ Says(q, w) => Says(Append(q, x), w)
           /\ x.m \notin Wish => Wishes(Append(q, x)) = Wishes(q)
<1> DEFINE r == Append(q, x)
<1>1. /\ Len(q) \in Nat /\ Len(r) = Len(q) + 1 /\ r[Len(r)] = x
      /\ \A i \in 1..Len(q) : r[i] = q[i] /\ i \in 1..Len(r)
      /\ \A i \in 1..Len(r) : i = Len(r) \/ i \in 1..Len(q)
  OBVIOUS
<1> HIDE DEF r
<1>2. CASE x.m \in Wish
  <2>1. Len(r) \in Wishes(r) /\ Wishes(r) \subseteq 1..Len(r)
    BY <1>1, <1>2 DEF Wishes
  <2>2. ASSUME NEW i \in Wishes(r), \A j \in Wishes(r) : j <= i PROVE r[i] = x
    <3>1. i \in 1..Len(r) /\ Len(r) <= i
      BY <2>1, <2>2
    <3> QED
      BY <1>1, <3>1
  <2> QED
    BY <1>2, <2>1, <2>2 DEF Says, r
<1>3. CASE x.m \notin Wish
  <2>1. Wishes(r) = Wishes(q) /\ \A i \in Wishes(q) : r[i] = q[i]
    BY <1>1, <1>3 DEF Wishes
  <2> QED
    BY <1>3, <2>1 DEF Says, r
<1> QED
  BY <1>2, <1>3

-----------------------------------------------------------------------------
(* Every step keeps the invariant.                                           *)

\* The variables keep their types: a start is only sent when there is a handler.
LEMMA TypeStep == TypeOK /\ SentIsActive /\ [Next]_vars => TypeOK'
<1> SUFFICES ASSUME TypeOK, SentIsActive, [Next]_vars PROVE TypeOK'
  OBVIOUS
<1> USE DEF TypeOK
<1>0. Period \in Nat /\ now + Period \in Nat /\ now + 1 \in Nat
  BY PeriodAssumption
<1>1. ASSUME NEW k, Arrived(k)
      PROVE  /\ msgQ' \in Seq(Message) /\ Head(msgQ) \in Message /\ Head(msgQ).m = k
             /\ k = "init" => Head(msgQ).p \in Handlers
  BY <1>1 DEF Arrived, Message
<1>2. CASE ProcStart
  <2>1. msgQ' \in Seq(Message) /\ UNCHANGED <<now, modem, restarts>>
    BY <1>1, <1>2 DEF ProcStart
  <2>2. CASE NoHandler
    BY <1>2, <2>1, <2>2 DEF ProcStart, adapterVars, sentVars
  <2>3. CASE ~NoHandler
    <3>1. /\ UNCHANGED handler /\ active' \in BOOLEAN /\ emergency' \in BOOLEAN
          /\ \/ SendStart(FALSE) \/ SendStart(TRUE) \/ UNCHANGED sentVars
          /\ timerStart \/ timerRestart \/ UNCHANGED <<timerFlag, due>>
      BY <1>2, <2>3 DEF ProcStart, sentVars
    <3>2. on' \subseteq Handlers /\ lastStart' \subseteq Nat /\ hurried' \in BOOLEAN
      BY <2>3, <3>1 DEF SendStart, sentVars, NoHandler
    <3>3. timerFlag' \in BOOLEAN /\ due' \subseteq Nat
      BY <1>0, <3>1 DEF timerStart, timerRestart
    <3> QED
      BY <2>1, <3>1, <3>2, <3>3
  <2> QED
    BY <2>2, <2>3
<1>3. CASE ProcStop
  BY <1>1, <1>3 DEF ProcStop, sentVars
<1>4. CASE odcpiTimerExpire
  BY <1>0, <1>1, <1>4 DEF odcpiTimerExpire, SendStart, timerRestart, timerStop, sentVars,
     SentIsActive
<1>5. CASE initOdcpi
  BY <1>1, <1>5 DEF initOdcpi, sentVars
<1>6. CASE ProcEngineUp
  BY <1>1, <1>6 DEF ProcEngineUp, sentVars
<1>7. ASSUME NEW mode \in Modes, ModemStart(mode) PROVE TypeOK'
  <2>1. [m |-> "start", mode |-> mode] \in Message
    BY DEF Message
  <2> QED
    BY <1>7, <2>1, AppendKeeps DEF ModemStart, Post, adapterVars, sentVars
<1>8. CASE ModemStop \/ ModemRestart \/ TimerExpires
  <2>1. \A x \in {"stop", "expire", "engineUp"} : [m |-> x] \in Message
    BY DEF Message
  <2>2. ASSUME NEW x \in {"stop", "expire", "engineUp"}, Post([m |-> x])
        PROVE  msgQ' \in Seq(Message)
    BY <2>1, <2>2, AppendKeeps DEF Post
  <2>3. CASE ModemStop
    BY <2>2, <2>3 DEF ModemStop, adapterVars, sentVars
  <2>4. CASE ModemRestart
    BY <2>2, <2>4 DEF ModemRestart, adapterVars, sentVars
  <2>5. CASE TimerExpires
    BY <2>2, <2>5 DEF TimerExpires, adapterVars, sentVars
  <2> QED
    BY <1>8, <2>3, <2>4, <2>5
<1>9. ASSUME NEW p \in Handlers, Register(p) PROVE TypeOK'
  <2>1. [m |-> "init", p |-> p] \in Message
    BY DEF Message
  <2> QED
    BY <1>9, <2>1, AppendKeeps DEF Register, Post, adapterVars, sentVars
<1>10. CASE Tick
  BY <1>0, <1>10 DEF Tick, adapterVars, sentVars
<1>11. CASE UNCHANGED vars
  BY <1>11 DEF vars, adapterVars, sentVars
<1> QED
  BY <1>2, <1>3, <1>4, <1>5, <1>6, <1>7, <1>8, <1>9, <1>10, <1>11 DEF Next, Proc

\* A request that is active or held back always has a timer behind it.
LEMMA TimedStep == IInv /\ [Next]_vars => ActiveIsTimed'
<1> SUFFICES ASSUME IInv, [Next]_vars PROVE ActiveIsTimed'
  OBVIOUS
<1> DEFINE Q == ExpireQueued(msgQ)
<1>0. active \/ timerFlag => due # {} \/ Q
  BY DEF IInv, ActiveIsTimed, Expiring, ExpireQueued
<1>1. ASSUME active' \/ timerFlag' => due' # {} \/ Q' PROVE ActiveIsTimed'
  BY <1>1 DEF ActiveIsTimed, Expiring, ExpireQueued
<1>2. ASSUME NEW k \in {"start", "stop", "init", "engineUp"}, Arrived(k) PROVE Q => Q'
  BY <1>2, TailKeeps DEF Arrived, IInv, TypeOK
<1> HIDE DEF Q
<1>3. CASE ProcStart
  <2>1. Q => Q'
    BY <1>2, <1>3 DEF ProcStart
  <2>2. CASE due' # {}
    BY <1>1, <2>2
  <2>3. CASE due' = {}
    BY <1>0, <1>1, <1>3, <2>1, <2>3
       DEF ProcStart, timerStart, timerRestart, adapterVars
  <2> QED
    BY <2>2, <2>3
<1>4. CASE ProcStop
  BY <1>0, <1>1, <1>2, <1>4 DEF ProcStop
<1>5. CASE odcpiTimerExpire
  BY <1>1, <1>5 DEF odcpiTimerExpire, timerRestart, timerStop
<1>6. CASE initOdcpi
  BY <1>0, <1>1, <1>2, <1>6 DEF initOdcpi
<1>7. CASE ProcEngineUp
  BY <1>0, <1>1, <1>2, <1>7 DEF ProcEngineUp
<1>8. ASSUME NEW x \in Message, Post(x) PROVE (Q => Q') /\ (x.m = "expire" => Q')
  BY <1>8, AppendKeeps DEF Post, Q, IInv, TypeOK
<1>9. ASSUME NEW mode \in Modes, ModemStart(mode) PROVE ActiveIsTimed'
  <2>1. [m |-> "start", mode |-> mode] \in Message
    BY DEF Message
  <2> QED
    BY <1>0, <1>1, <1>8, <1>9, <2>1 DEF ModemStart, adapterVars
<1>10. CASE ModemStop \/ ModemRestart
  <2>1. [m |-> "stop"] \in Message /\ [m |-> "engineUp"] \in Message
    BY DEF Message
  <2> QED
    BY <1>0, <1>1, <1>8, <1>10, <2>1 DEF ModemStop, ModemRestart, adapterVars
<1>11. ASSUME NEW p \in Handlers, Register(p) PROVE ActiveIsTimed'
  <2>1. [m |-> "init", p |-> p] \in Message
    BY DEF Message
  <2> QED
    BY <1>0, <1>1, <1>8, <1>11, <2>1 DEF Register, adapterVars
<1>12. CASE TimerExpires
  <2>1. [m |-> "expire"] \in Message
    BY DEF Message
  <2> QED
    BY <1>1, <1>8, <1>12, <2>1 DEF TimerExpires
<1>13. CASE Tick \/ UNCHANGED vars
  BY <1>0, <1>1, <1>13 DEF Tick, vars, adapterVars, Q
<1> QED
  BY <1>3, <1>4, <1>5, <1>6, <1>7, <1>9, <1>10, <1>11, <1>12, <1>13 DEF Next, Proc

\* What is on its way, or else what the adapter holds, stays what the modem wants.
LEMMA AskedStep == IInv /\ [Next]_vars => HeldIsAsked'
<1> SUFFICES ASSUME IInv, [Next]_vars PROVE HeldIsAsked'
  OBVIOUS
<1>0. /\ msgQ \in Seq(Message) /\ Says(msgQ, modem)
      /\ active /\ Wishes(msgQ) = {} => modem = Mode
      /\ handler = 0 => ~active
  BY DEF IInv, TypeOK, HeldIsAsked, SentIsActive
<1>1. ASSUME NEW k, Arrived(k), UNCHANGED modem
      PROVE  /\ Says(msgQ', modem') /\ Head(msgQ).m = k /\ Head(msgQ) \in Message
             /\ Wishes(msgQ') = {} =>
                   IF k \in Wish THEN modem = AskedBy(Head(msgQ)) ELSE Wishes(msgQ) = {}
  BY <1>0, <1>1, TailSays DEF Arrived
<1>2. CASE ProcStart
  <2>1. /\ Says(msgQ', modem') /\ Head(msgQ) \in Message /\ UNCHANGED modem
        /\ Wishes(msgQ') = {} => modem = Head(msgQ).mode
    BY <1>1, <1>2 DEF ProcStart, Wish, AskedBy
  <2>2. Head(msgQ).mode \in Modes
    BY <1>1, <1>2 DEF ProcStart, Message
  <2>3. active' => emergency' = (Head(msgQ).mode = "emergency")
    BY <1>0, <1>2 DEF ProcStart, NoHandler, adapterVars
  <2> QED
    BY <2>1, <2>2, <2>3 DEF HeldIsAsked, Mode, Modes
<1>3. CASE ProcStop
  BY <1>0, <1>1, <1>3 DEF ProcStop, HeldIsAsked, NoHandler
<1>4. CASE ProcEngineUp
  BY <1>1, <1>4 DEF ProcEngineUp, HeldIsAsked
<1>5. CASE odcpiTimerExpire \/ initOdcpi
  <2>1. UNCHANGED <<active, emergency, modem>> /\ (Arrived("expire") \/ Arrived("init"))
    BY <1>5 DEF odcpiTimerExpire, initOdcpi
  <2>2. /\ Says(msgQ', modem')
        /\ Wishes(msgQ') = {} => Wishes(msgQ) = {}
    BY <1>1, <2>1 DEF Wish
  <2> QED
    BY <1>0, <2>1, <2>2 DEF HeldIsAsked, Mode
<1>6. ASSUME NEW x \in Message, Post(x), x.m \in Wish, modem' = AskedBy(x)
      PROVE  HeldIsAsked'
  BY <1>0, <1>6, AppendSays DEF Post, HeldIsAsked
<1>7. ASSUME NEW x \in Message, Post(x), x.m \notin Wish, UNCHANGED <<modem, adapterVars>>
      PROVE  HeldIsAsked'
  BY <1>0, <1>7, AppendSays DEF Post, HeldIsAsked, adapterVars, Mode
<1>8. ASSUME NEW mode \in Modes, ModemStart(mode) PROVE HeldIsAsked'
  BY <1>6, <1>8 DEF ModemStart, Message, Wish, AskedBy
<1>9. CASE ModemStop
  BY <1>6, <1>9 DEF ModemStop, Message, Wish, AskedBy
<1>10. CASE ModemRestart
  BY <1>6, <1>10 DEF ModemRestart, Message, Wish, AskedBy
<1>11. ASSUME NEW p \in Handlers, Register(p) PROVE HeldIsAsked'
  BY <1>7, <1>11 DEF Register, Message, Wish
<1>12. CASE TimerExpires
  BY <1>7, <1>12 DEF TimerExpires, Message, Wish
<1>13. CASE Tick \/ UNCHANGED vars
  BY <1>0, <1>13 DEF Tick, vars, adapterVars, HeldIsAsked, Mode
<1> QED
  BY <1>2, <1>3, <1>4, <1>5, <1>8, <1>9, <1>10, <1>11, <1>12, <1>13 DEF Next, Proc

\* A handler that has been sent a start stays the one to send the stop to, or gives
\* way to another that has been sent nothing.
LEMMA SentStep == IInv /\ [Next]_vars => SentIsActive'
<1> SUFFICES ASSUME IInv, [Next]_vars PROVE SentIsActive'
  OBVIOUS
<1> DEFINE NoUp(q) == \A i \in 1..Len(q) : q[i].m # "engineUp"
<1>0. /\ msgQ \in Seq(Message) /\ handler \in Nat /\ on \subseteq Nat \ {0}
      /\ restarts \in Nat
      /\ active => handler # 0
      /\ \A p \in on : p <= handler
      /\ restarts = 0 => NoUp(msgQ)
      /\ restarts = 0 /\ handler \in on => active
  <2>1. /\ msgQ \in Seq(Message) /\ handler \in Nat /\ on \subseteq Nat \ {0}
        /\ restarts \in Nat
    BY HandlersAssumption DEF IInv, TypeOK
  <2> QED
    BY <2>1, Zenon DEF IInv, SentIsActive
<1>1. ASSUME NEW k, Arrived(k), UNCHANGED restarts
      PROVE  /\ restarts' = 0 => NoUp(msgQ') /\ k # "engineUp"
             /\ Head(msgQ) \in Message /\ Head(msgQ).m = k
  <2>1. /\ msgQ # <<>> /\ msgQ' = Tail(msgQ) /\ Head(msgQ).m = k
        /\ Len(msgQ) \in Nat \ {0} /\ Head(msgQ) = msgQ[1] /\ Head(msgQ) \in Message
        /\ \A i \in 1..Len(msgQ') : msgQ'[i] = msgQ[i + 1] /\ i + 1 \in 1..Len(msgQ)
        /\ 1 \in 1..Len(msgQ)
    BY <1>0, <1>1 DEF Arrived
  <2> QED
    BY <1>0, <1>1, <2>1
<1>2. ASSUME NEW x \in Message, Post(x), x.m # "engineUp", UNCHANGED restarts
      PROVE  restarts' = 0 => NoUp(msgQ')
  <2>1. \A i \in 1..Len(msgQ') : msgQ'[i] = x \/ (i \in 1..Len(msgQ) /\ msgQ'[i] = msgQ[i])
    BY <1>0, <1>2 DEF Post
  <2> QED
    BY <1>0, <1>2, <2>1
<1>3. ASSUME UNCHANGED <<handler, active, on>>, restarts' = 0 => restarts = 0 /\ NoUp(msgQ')
      PROVE  SentIsActive'
  BY <1>0, <1>3 DEF SentIsActive
<1> HIDE DEF NoUp
<1>4. CASE ProcStart
  <2>1. UNCHANGED <<handler, restarts>> /\ (restarts' = 0 => NoUp(msgQ'))
    BY <1>1, <1>4 DEF ProcStart, adapterVars
  <2>2. CASE NoHandler
    BY <1>3, <1>4, <2>1, <2>2 DEF ProcStart, adapterVars, sentVars
  <2>3. CASE ~NoHandler
    <3>1. active' /\ (on' = on \/ on' = on \cup {handler})
      <4>1. SendStart(FALSE) \/ SendStart(TRUE) \/ UNCHANGED sentVars
        BY <1>4, <2>3 DEF ProcStart, sentVars
      <4>2. active'
        BY <1>4, <2>3 DEF ProcStart
      <4> QED
        BY <4>1, <4>2 DEF SendStart, sentVars
    <3>2. handler # 0
      BY <2>3 DEF NoHandler
    <3>3. handler \in Nat /\ \A p \in on : p <= handler
      BY <1>0
    <3>4. \A p \in on' : p <= handler
      BY <3>1, <3>3
    <3> QED
      BY <2>1, <3>1, <3>2, <3>4 DEF SentIsActive, NoUp
  <2> QED
    BY <2>2, <2>3
<1>5. CASE ProcStop
  <2>1. UNCHANGED <<handler, restarts>> /\ (restarts' = 0 => NoUp(msgQ'))
    BY <1>1, <1>5 DEF ProcStop
  <2>2. CASE NoHandler
    BY <1>3, <1>5, <2>1, <2>2 DEF ProcStop, sentVars
  <2>3. CASE ~NoHandler
    <3>1. ~active' /\ on' = on \ {handler}
      BY <1>5, <2>3 DEF ProcStop
    <3> QED
      BY <1>0, <2>1, <3>1 DEF SentIsActive, NoUp
  <2> QED
    BY <2>2, <2>3
<1>6. CASE odcpiTimerExpire
  <2>1. UNCHANGED <<handler, active, restarts>> /\ (restarts' = 0 => NoUp(msgQ'))
    BY <1>1, <1>6 DEF odcpiTimerExpire
  <2>2. CASE active
    <3>1. on' = on \cup {handler} /\ active' /\ handler' # 0
      BY <1>0, <1>6, <2>1, <2>2 DEF odcpiTimerExpire, SendStart
    <3>2. \A p \in on' : p <= handler
      BY <1>0, <3>1
    <3> QED
      BY <2>1, <3>1, <3>2 DEF SentIsActive, NoUp
  <2>3. CASE ~active
    BY <1>3, <1>6, <2>1, <2>3 DEF odcpiTimerExpire, sentVars
  <2> QED
    BY <2>2, <2>3
<1>7. CASE initOdcpi
  <2>1. /\ UNCHANGED <<active, on, restarts>> /\ (restarts' = 0 => NoUp(msgQ'))
        /\ Head(msgQ) \in Message /\ Head(msgQ).m = "init"
    BY <1>1, <1>7 DEF initOdcpi, sentVars
  <2>2. Head(msgQ).p \in Nat \ {0}
    BY <2>1, HandlersAssumption DEF Message
  <2>3. handler' = handler \/ (handler' \in Nat \ {0} /\ handler' > handler)
    BY <1>0, <1>7, <2>2 DEF initOdcpi
  <2> QED
    BY <1>0, <2>1, <2>3 DEF SentIsActive, NoUp
<1>8. CASE ProcEngineUp
  <2>1. /\ UNCHANGED <<handler, on, restarts>> /\ ~active'
        /\ restarts' = 0 => FALSE
    BY <1>1, <1>8 DEF ProcEngineUp, sentVars
  <2> QED
    BY <1>0, <2>1 DEF SentIsActive
<1>9. ASSUME NEW mode \in Modes, ModemStart(mode) PROVE SentIsActive'
  BY <1>2, <1>3, <1>9 DEF ModemStart, Message, adapterVars, sentVars
<1>10. CASE ModemStop
  BY <1>2, <1>3, <1>10 DEF ModemStop, Message, adapterVars, sentVars
<1>11. CASE ModemRestart
  BY <1>0, <1>3, <1>11 DEF ModemRestart, adapterVars, sentVars
<1>12. ASSUME NEW p \in Handlers, Register(p) PROVE SentIsActive'
  BY <1>2, <1>3, <1>12 DEF Register, Message, adapterVars, sentVars
<1>13. CASE TimerExpires
  BY <1>2, <1>3, <1>13 DEF TimerExpires, Message, adapterVars, sentVars
<1>14. CASE Tick \/ UNCHANGED vars
  BY <1>0, <1>3, <1>14 DEF Tick, vars, adapterVars, sentVars, NoUp
<1> QED
  BY <1>4, <1>5, <1>6, <1>7, <1>8, <1>9, <1>10, <1>11, <1>12, <1>13, <1>14 DEF Next, Proc

\* The strengthened invariant holds at the start.
LEMMA InvInit == Init => IInv
<1> SUFFICES ASSUME Init PROVE IInv
  OBVIOUS
<1>1. TypeOK
  <2>1. <<>> \in Seq(Message) /\ 0 \in Nat
    OBVIOUS
  <2> QED
    BY <2>1, Zenon DEF Init, TypeOK
<1>2. ActiveIsTimed /\ HeldIsAsked
  BY DEF Init, ActiveIsTimed, HeldIsAsked, Says, Wishes
<1>3. SentIsActive
  BY DEF Init, SentIsActive
<1> QED
  BY <1>1, <1>2, <1>3 DEF IInv

\* And every step keeps it.
LEMMA InvStep == IInv /\ [Next]_vars => IInv'
  BY TypeStep, TimedStep, AskedStep, SentStep DEF IInv

-----------------------------------------------------------------------------

\* Nothing but what the code expects is ever in the queue or a variable.
THEOREM TypeCorrect == Spec => []TypeOK
<1>1. IInv => TypeOK
  BY DEF IInv
<1> QED
  BY InvInit, InvStep, <1>1, PTL DEF Spec

\* No request is forgotten: while one is active, or held back by the timer flag,
\* the timer runs or its expiration is in the queue, for every set of handlers,
\* period and bound, modem restarts included.
THEOREM ActiveIsAlwaysTimed == Spec => []ActiveIsTimed
<1>1. IInv => ActiveIsTimed
  BY DEF IInv
<1> QED
  BY InvInit, InvStep, <1>1, PTL DEF Spec

\* No request is mistaken: with an empty queue an active request is the one the
\* modem has last asked for, however starts, stops, restarts, registrations and
\* expirations were ordered in the queue; and as long as the engine has not
\* restarted, the present handler has had its stop once nothing is active.
THEOREM OnlyWhatIsWantedAlways == Spec => []OnlyWhatIsWanted
<1>1. IInv => OnlyWhatIsWanted
  <2> SUFFICES ASSUME IInv PROVE OnlyWhatIsWanted
    OBVIOUS
  <2>1. msgQ = <<>> => Wishes(msgQ) = {}
    BY DEF Wishes
  <2> QED
    BY <2>1 DEF IInv, HeldIsAsked, SentIsActive, Mode, OnlyWhatIsWanted
<1> QED
  BY InvInit, InvStep, <1>1, PTL DEF Spec
=============================================================================
