--------------------------- MODULE LocTimerProofs ---------------------------
(* What LocTimer keeps true for any number of timers, starts and delays, and *)
(* what it relies on of LocHeap.                                             *)
EXTENDS LocTimer, SequenceTheorems, TLAPS

-----------------------------------------------------------------------------
(* The life of a delegate: pushed once, removed once, in this order.         *)

IsPush(x, d) == x.m = "push" /\ x.d = d
IsRemove(x, d) == x.m = "remove" /\ x.d = d

PushQueued(q, d) == \E i \in 1..Len(q) : IsPush(q[i], d)
RemoveQueued(q, d) == \E i \in 1..Len(q) : IsRemove(q[i], d)

\* After the message that removes a delegate no other is about it.
RemovedLast(q) ==
    \A i, j \in 1..Len(q), d \in Delegates :
        i < j /\ IsRemove(q[i], d) => ~IsPush(q[j], d) /\ ~IsRemove(q[j], d)

\* A timer's delegate is its own and linked; a linked one is not being removed.
LinkedIsKept ==
    /\ \A t \in Timers : \A d \in mTimer[t] : owner[d] = t /\ d \in linked
    /\ \A d \in linked : ~RemoveQueued(msgQ, d)

\* Nothing is left of a delegate that has been deleted.
DeletedIsGone ==
    \A d \in deletedD :
        /\ d \notin heap /\ d \notin cur /\ d \notin linked
        /\ ~PushQueued(msgQ, d) /\ ~RemoveQueued(msgQ, d)

\* Only MsgTimerExpire has a delegate in its hands, one that it has popped.
CurIsExpiring == msg \notin {"expire", "stop"} => cur = {}

IInv == TypeOK /\ RemovedLast(msgQ) /\ LinkedIsKept /\ DeletedIsGone /\ CurIsExpiring

-----------------------------------------------------------------------------
(* Lemmas about the queue.                                                   *)

\* What is taken from the queue leaves the other messages as they are, and when it
\* removes a delegate it was the last one about it.
LEMMA TailRemoves ==
    ASSUME NEW q \in Seq(Message), q # <<>>, RemovedLast(q)
    PROVE  /\ Tail(q) \in Seq(Message) /\ Head(q) \in Message
           /\ RemovedLast(Tail(q))
           /\ \A d \in Delegates : /\ PushQueued(Tail(q), d) => PushQueued(q, d)
                                   /\ RemoveQueued(Tail(q), d) => RemoveQueued(q, d)
                                   /\ IsPush(Head(q), d) => PushQueued(q, d)
                                   /\ IsRemove(Head(q), d) =>
                                        /\ RemoveQueued(q, d)
                                        /\ ~PushQueued(Tail(q), d) /\ ~RemoveQueued(Tail(q), d)
<1>1. /\ Tail(q) \in Seq(Message) /\ Head(q) \in Message
      /\ Head(q) = q[1] /\ 1 \in 1..Len(q)
      /\ \A i \in 1..Len(Tail(q)) :
             i + 1 \in 1..Len(q) /\ Tail(q)[i] = q[i + 1] /\ 1 < i + 1
      /\ \A i, j \in 1..Len(Tail(q)) : i < j => i + 1 < j + 1
  OBVIOUS
<1>2. RemovedLast(Tail(q))
  BY <1>1 DEF RemovedLast
<1>3. ASSUME NEW d \in Delegates
      PROVE  /\ PushQueued(Tail(q), d) => PushQueued(q, d) /\ ~IsRemove(Head(q), d)
             /\ RemoveQueued(Tail(q), d) => RemoveQueued(q, d) /\ ~IsRemove(Head(q), d)
  BY <1>1 DEF RemovedLast, PushQueued, RemoveQueued
<1> QED
  BY <1>1, <1>2, <1>3 DEF PushQueued, RemoveQueued

\* What is put in the queue is added to the messages there.
LEMMA AppendRemoves ==
    ASSUME NEW q \in Seq(Message), NEW x \in Message, RemovedLast(q),
           \A d \in Delegates : IsPush(x, d) \/ IsRemove(x, d) => ~RemoveQueued(q, d)
    PROVE  /\ Append(q, x) \in Seq(Message)
           /\ RemovedLast(Append(q, x))
           /\ \A d \in Delegates :
                 /\ PushQueued(Append(q, x), d) <=> PushQueued(q, d) \/ IsPush(x, d)
                 /\ RemoveQueued(Append(q, x), d) <=> RemoveQueued(q, d) \/ IsRemove(x, d)
<1> DEFINE s == Append(q, x)
<1>1. /\ s \in Seq(Message) /\ Len(q) \in Nat /\ Len(s) = Len(q) + 1 /\ s[Len(s)] = x
      /\ \A i \in 1..Len(q) : i \in 1..Len(s) /\ s[i] = q[i]
      /\ \A i \in 1..Len(s) : i = Len(s) \/ i \in 1..Len(q)
      /\ Len(s) \in 1..Len(s)
  OBVIOUS
<1> HIDE DEF s
<1>2. RemovedLast(s)
  <2> SUFFICES ASSUME NEW i \in 1..Len(s), NEW j \in 1..Len(s), NEW d \in Delegates,
                      i < j, IsRemove(s[i], d)
               PROVE  ~IsPush(s[j], d) /\ ~IsRemove(s[j], d)
    BY DEF RemovedLast
  <2>1. i \in 1..Len(q) /\ IsRemove(q[i], d)
    BY <1>1
  <2>2. CASE j \in 1..Len(q)
    BY <1>1, <2>1, <2>2 DEF RemovedLast
  <2>3. CASE j = Len(s)
    BY <1>1, <2>1, <2>3 DEF RemoveQueued
  <2> QED
    BY <1>1, <2>2, <2>3
<1>3. \A d \in Delegates :
        /\ PushQueued(s, d) <=> PushQueued(q, d) \/ IsPush(x, d)
        /\ RemoveQueued(s, d) <=> RemoveQueued(q, d) \/ IsRemove(x, d)
  BY <1>1 DEF PushQueued, RemoveQueued
<1> QED
  BY <1>1, <1>2, <1>3 DEF s

-----------------------------------------------------------------------------
(* What the operators of the service do to a delegate's life.                *)

\* LocHeap::remove and pop leave a heap with one of its own on top.
LEMMA TakeKeeps ==
    ASSUME top \subseteq heap, NEW d, Take(d)
    PROVE  heap' \subseteq heap /\ d \notin heap' /\ top' \subseteq heap'
  BY DEF Take, Soonest

\* updateSoonestTime leaves the message thread to arm the timer, or without work.
LEMMA UpdateKeeps ==
    ASSUME NEW prior, updateSoonestTime(prior), polled \in BOOLEAN
    PROVE  msg' \in {"idle", "settime"} /\ polled' \in BOOLEAN
  BY DEF updateSoonestTime

\* The next delegate to expire is one of those in the heap.
LEMMA PopKeeps ==
    ASSUME TypeOK, PopNext
    PROVE  /\ heap' \subseteq heap /\ top' \subseteq heap' /\ cur' \subseteq heap
           /\ msg' \in {"idle", "settime", "expire"} /\ polled' \in BOOLEAN
           /\ CurIsExpiring'
<1> DEFINE ready == {d \in top : due[d] <= limit}
<1>1. top \subseteq heap /\ polled \in BOOLEAN
  BY DEF TypeOK
<1>2. CASE ready # {}
  <2>1. PICK d \in ready : Take(d) /\ cur' = ready /\ msg' = "expire" /\ UNCHANGED polled
    BY <1>2 DEF PopNext
  <2>2. heap' \subseteq heap /\ top' \subseteq heap'
    BY <1>1, <2>1, TakeKeeps
  <2> QED
    BY <1>1, <2>1, <2>2 DEF CurIsExpiring
<1>3. CASE ready = {}
  <2>1. cur' = {} /\ UNCHANGED <<heap, top>> /\ updateSoonestTime({})
    BY <1>3 DEF PopNext
  <2> QED
    BY <1>1, <2>1, UpdateKeeps DEF CurIsExpiring
<1> QED
  BY <1>2, <1>3

\* A timer that gives up its delegate sends the message that removes it, once.
LEMMA UnlinkKeeps ==
    ASSUME IInv, NEW t \in Timers, mTimer[t] # {}, Unlink(t), UNCHANGED owner
    PROVE  /\ mTimer' \in [Timers -> SUBSET Delegates] /\ linked' \subseteq linked
           /\ msgQ' \in Seq(Message) /\ RemovedLast(msgQ)'
           /\ LinkedIsKept'
           /\ \A d \in Delegates :
                 /\ PushQueued(msgQ', d) => PushQueued(msgQ, d)
                 /\ RemoveQueued(msgQ', d) => RemoveQueued(msgQ, d) \/ d \in linked
<1>1. Delegates' = Delegates
  BY DEF Delegates
<1>2. /\ mTimer \in [Timers -> SUBSET Delegates] /\ msgQ \in Seq(Message)
      /\ linked \subseteq Delegates
  BY DEF IInv, TypeOK
<1>3. PICK d \in mTimer[t] : msgQ' = Append(msgQ, Remove(d))
  BY DEF Unlink
<1>4. d \in Delegates /\ d \in linked /\ owner[d] = t
  BY <1>2, <1>3 DEF IInv, LinkedIsKept
<1>5. /\ mTimer' \in [Timers -> SUBSET Delegates] /\ linked' = linked \ mTimer[t]
      /\ \A u \in Timers : mTimer'[u] = IF u = t THEN {} ELSE mTimer[u]
  BY <1>2 DEF Unlink
<1>6. /\ Remove(d) \in Message
      /\ \A e : ~IsPush(Remove(d), e)
      /\ \A e : IsRemove(Remove(d), e) <=> e = d
  BY <1>4 DEF Message, Remove, IsPush, IsRemove
<1>7. RemovedLast(msgQ) /\ \A e \in linked : ~RemoveQueued(msgQ, e)
  BY DEF IInv, LinkedIsKept
<1>8. /\ msgQ' \in Seq(Message) /\ RemovedLast(msgQ')
      /\ \A e \in Delegates :
            /\ PushQueued(msgQ', e) => PushQueued(msgQ, e)
            /\ RemoveQueued(msgQ', e) => RemoveQueued(msgQ, e) \/ e = d
  BY <1>2, <1>3, <1>4, <1>6, <1>7, AppendRemoves
<1>9. RemovedLast(msgQ)'
  BY <1>1, <1>8 DEF RemovedLast
<1>10. LinkedIsKept'
  <2>1. ASSUME NEW u \in Timers, NEW e \in mTimer'[u] PROVE owner'[e] = u /\ e \in linked'
    <3>1. u # t /\ e \in mTimer[u]
      BY <1>5, <2>1
    <3> QED
      BY <1>5, <3>1 DEF IInv, LinkedIsKept
  <2>2. \A e \in linked' : ~RemoveQueued(msgQ', e)
    BY <1>2, <1>3, <1>5, <1>7, <1>8
  <2> QED
    BY <2>1, <2>2 DEF LinkedIsKept
<1> QED
  BY <1>4, <1>5, <1>8, <1>9, <1>10

-----------------------------------------------------------------------------
(* Every action keeps the invariant.                                         *)

\* What is deleted stays gone as long as nothing of it comes back.
LEMMA StaysGone ==
    ASSUME IInv, UNCHANGED deletedD,
           \A d \in deletedD : /\ d \notin heap' /\ d \notin cur' /\ d \notin linked'
                               /\ PushQueued(msgQ', d) => PushQueued(msgQ, d)
                               /\ RemoveQueued(msgQ', d) => RemoveQueued(msgQ, d) \/ d \in linked
    PROVE  DeletedIsGone'
  BY DEF IInv, DeletedIsGone

\* Where nobody touches a message or a client, they are as they were.
LEMMA SameClients ==
    ASSUME IInv, UNCHANGED <<owner, mTimer, linked, msgQ>>
    PROVE  RemovedLast(msgQ)' /\ LinkedIsKept' /\ Delegates' = Delegates /\ Message' = Message
<1>1. Delegates' = Delegates /\ Message' = Message
  BY DEF Delegates, Message
<1>2. RemovedLast(msgQ)'
  BY <1>1, Zenon DEF IInv, RemovedLast
<1>3. LinkedIsKept'
  BY Zenon DEF IInv, LinkedIsKept
<1> QED
  BY <1>1, <1>2, <1>3

\* A timer is stopped, or deleted and with it stopped.
LEMMA StopStep == ASSUME IInv, NEW t \in Timers, stop(t) \/ delete(t) PROVE IInv'
<1>1. /\ UNCHANGED <<now, owner, due, fired, ub, heap, top, deletedD, armed, polled,
                     poll, msg, cur, limit>>
      /\ deletedT' \subseteq Timers
      /\ \/ UNCHANGED <<mTimer, linked, msgQ>>
         \/ mTimer[t] # {} /\ Unlink(t)
  BY DEF stop, delete, heapVars, fdVars, IInv, TypeOK
<1>2. Delegates' = Delegates /\ Message' = Message
  BY <1>1 DEF Delegates, Message
<1>3. /\ mTimer' \in [Timers -> SUBSET Delegates] /\ linked' \subseteq linked
      /\ msgQ' \in Seq(Message) /\ RemovedLast(msgQ)' /\ LinkedIsKept'
      /\ \A d \in Delegates :
            /\ PushQueued(msgQ', d) => PushQueued(msgQ, d)
            /\ RemoveQueued(msgQ', d) => RemoveQueued(msgQ, d) \/ d \in linked
  <2>1. CASE UNCHANGED <<mTimer, linked, msgQ>>
    BY <1>1, <2>1, SameClients DEF IInv, TypeOK
  <2>2. CASE mTimer[t] # {} /\ Unlink(t)
    BY <1>1, <2>2, UnlinkKeeps
  <2> QED
    BY <1>1, <2>1, <2>2
<1>4. TypeOK'
  BY <1>1, <1>2, <1>3 DEF IInv, TypeOK
<1>5. DeletedIsGone'
  <2>1. \A d \in deletedD : d \in Delegates /\ d \notin heap' /\ d \notin cur' /\ d \notin linked'
    BY <1>1, <1>3 DEF IInv, TypeOK, DeletedIsGone
  <2> QED
    BY <1>1, <1>3, <2>1, StaysGone
<1>6. CurIsExpiring'
  BY <1>1 DEF IInv, CurIsExpiring
<1> QED
  BY <1>3, <1>4, <1>5, <1>6 DEF IInv

\* A new delegate is linked, and its message is the only trace of it.
LEMMA StartStep == ASSUME IInv, NEW t \in Timers, NEW delay \in Delays, start(t, delay)
                   PROVE  IInv'
<1>0. TypeOK
  BY DEF IInv
<1>1. /\ UNCHANGED <<now, deletedT, fired, ub, heap, top, deletedD, armed, polled,
                     poll, msg, cur, limit>>
      /\ mTimer[t] = {}
  BY DEF start, heapVars, fdVars
<1>2. PICK d \in Nat : d = Len(owner) + 1
  BY <1>0 DEF TypeOK
<1>3. /\ owner' = Append(owner, t) /\ due' = Append(due, now + delay)
      /\ mTimer' = [mTimer EXCEPT ![t] = {d}] /\ linked' = linked \cup {d}
      /\ msgQ' = Append(msgQ, Push(d))
  BY <1>2 DEF start
<1>4. /\ owner' \in Seq(Timers) /\ due' \in Seq(Nat) /\ Len(due') = Len(owner')
      /\ Delegates' = Delegates \cup {d} /\ d \notin Delegates
      /\ owner'[d] = t /\ \A e \in Delegates : owner'[e] = owner[e]
  BY <1>0, <1>2, <1>3, DelaysAssumption DEF TypeOK, Delegates
<1>5. /\ mTimer' \in [Timers -> SUBSET Delegates'] /\ linked' \subseteq Delegates'
      /\ \A u \in Timers : mTimer'[u] = IF u = t THEN {d} ELSE mTimer[u]
  BY <1>0, <1>3, <1>4 DEF TypeOK
<1>6. /\ \A x \in Message : \A e : IsPush(x, e) \/ IsRemove(x, e) => e \in Delegates
      /\ Message \subseteq Message' /\ Push(d) \in Message'
      /\ \A e : (IsPush(Push(d), e) <=> e = d) /\ ~IsRemove(Push(d), e)
  BY <1>4 DEF Message, Push, IsPush, IsRemove
<1>7. /\ \A i \in 1..Len(msgQ) : msgQ'[i] = msgQ[i] /\ msgQ[i] \in Message /\ i < Len(msgQ')
      /\ \A i \in 1..Len(msgQ') : i \in 1..Len(msgQ) \/ i = Len(msgQ')
      /\ msgQ'[Len(msgQ')] = Push(d)
  BY <1>0, <1>3 DEF TypeOK
<1>8. msgQ' \in Seq(Message')
  BY <1>0, <1>3, <1>6 DEF TypeOK
<1>9. TypeOK'
  <2>1. heap \subseteq Delegates' /\ cur \subseteq Delegates' /\ fired \subseteq Delegates'
        /\ deletedD \subseteq Delegates'
    BY <1>0, <1>4 DEF TypeOK
  <2> QED
    BY <1>0, <1>1, <1>4, <1>5, <1>8, <2>1 DEF TypeOK
<1>10. /\ \A e : PushQueued(msgQ', e) => PushQueued(msgQ, e) \/ e = d
       /\ \A e : RemoveQueued(msgQ', e) => RemoveQueued(msgQ, e)
       /\ ~RemoveQueued(msgQ, d)
  BY <1>4, <1>6, <1>7 DEF PushQueued, RemoveQueued
<1>11. RemovedLast(msgQ)'
  <2> SUFFICES ASSUME NEW i \in 1..Len(msgQ'), NEW j \in 1..Len(msgQ'), NEW e,
                      i < j, IsRemove(msgQ'[i], e)
               PROVE  ~IsPush(msgQ'[j], e) /\ ~IsRemove(msgQ'[j], e)
    BY DEF RemovedLast
  <2>1. i \in 1..Len(msgQ) /\ e \in Delegates /\ IsRemove(msgQ[i], e)
    BY <1>6, <1>7
  <2>2. CASE j \in 1..Len(msgQ)
    BY <1>7, <2>1, <2>2 DEF IInv, RemovedLast
  <2>3. CASE j = Len(msgQ')
    BY <1>4, <1>6, <1>7, <2>1, <2>3
  <2> QED
    BY <1>7, <2>2, <2>3
<1>12. LinkedIsKept'
  <2>1. ASSUME NEW u \in Timers, NEW e \in mTimer'[u] PROVE owner'[e] = u /\ e \in linked'
    <3>1. CASE u = t
      BY <1>3, <1>4, <1>5, <2>1, <3>1
    <3>2. CASE u # t
      <4>1. e \in mTimer[u] /\ e \in Delegates
        BY <1>0, <1>5, <2>1, <3>2 DEF TypeOK
      <4> QED
        BY <1>3, <1>4, <4>1 DEF IInv, LinkedIsKept
    <3> QED
      BY <3>1, <3>2
  <2>2. \A e \in linked' : ~RemoveQueued(msgQ', e)
    BY <1>3, <1>10 DEF IInv, LinkedIsKept
  <2> QED
    BY <2>1, <2>2 DEF LinkedIsKept
<1>13. DeletedIsGone'
  <2>1. \A e \in deletedD : e \in Delegates /\ e # d
    BY <1>0, <1>4 DEF TypeOK
  <2> QED
    BY <1>1, <1>3, <1>10, <2>1 DEF IInv, DeletedIsGone
<1>14. CurIsExpiring'
  BY <1>1 DEF IInv, CurIsExpiring
<1> QED
  BY <1>9, <1>11, <1>12, <1>13, <1>14 DEF IInv

\* Time and the timerfd touch no delegate; the poll thread only sends the thread off.
LEMMA PollStep == ASSUME IInv, Tick \/ SetTime \/ Poll \/ UNCHANGED vars PROVE IInv'
<1>0. TypeOK /\ RemovedLast(msgQ)
  BY DEF IInv
<1>1. /\ UNCHANGED <<owner, due, mTimer, linked, deletedT, fired, ub, heap, top, deletedD,
                     cur, limit>>
      /\ Delegates' = Delegates /\ Message' = Message
  BY DEF Tick, SetTime, Poll, PollWake, PollDisarm, PollRemove, PollSend, vars, clientVars,
     heapVars, Delegates, Message
<1>2. /\ now' \in Nat /\ armed' \subseteq Nat /\ polled' \in BOOLEAN
      /\ poll' \in {"wait", "woken", "disarmed", "removed"}
      /\ msg' = msg \/ (msg = "settime" /\ msg' = "idle")
  <2>1. \A d \in top : due[d] \in Nat
    BY <1>0 DEF TypeOK, Delegates
  <2>2. now + 1 \in Nat
    BY <1>0 DEF TypeOK
  <2>3. CASE Tick
    BY <1>0, <2>2, <2>3 DEF Tick, fdVars, TypeOK
  <2>4. CASE SetTime
    BY <1>0, <2>1, <2>4 DEF SetTime, TypeOK
  <2>5. CASE Poll
    BY <1>0, <2>5 DEF Poll, PollWake, PollDisarm, PollRemove, PollSend, fdVars, TypeOK
  <2>6. CASE UNCHANGED vars
    BY <1>0, <2>6 DEF vars, fdVars, TypeOK
  <2> QED
    BY <2>3, <2>4, <2>5, <2>6
<1>3. /\ msgQ' \in Seq(Message) /\ RemovedLast(msgQ')
      /\ \A d \in Delegates : /\ PushQueued(msgQ', d) => PushQueued(msgQ, d)
                              /\ RemoveQueued(msgQ', d) => RemoveQueued(msgQ, d)
  <2>1. CASE UNCHANGED msgQ
    BY <1>0, <2>1 DEF TypeOK
  <2>2. CASE PollSend
    <3>1. /\ Expire \in Message /\ msgQ \in Seq(Message)
          /\ \A d : ~IsPush(Expire, d) /\ ~IsRemove(Expire, d)
      BY <1>0 DEF Message, Expire, IsPush, IsRemove, TypeOK
    <3> QED
      BY <1>0, <2>2, <3>1, AppendRemoves DEF PollSend
  <2> QED
    BY <2>1, <2>2 DEF Tick, SetTime, Poll, PollWake, PollDisarm, PollRemove, vars
<1>4. TypeOK'
  <2>1. msg' \in {"idle", "settime", "expire", "stop"}
    BY <1>0, <1>2 DEF TypeOK
  <2> QED
    BY <1>0, <1>1, <1>2, <1>3, <2>1 DEF TypeOK
<1>5. RemovedLast(msgQ)'
  BY <1>1, <1>3 DEF RemovedLast
<1>6. LinkedIsKept'
  <2>1. \A d \in linked : d \in Delegates
    BY <1>0 DEF TypeOK
  <2> QED
    BY <1>1, <1>3, <2>1 DEF IInv, LinkedIsKept
<1>7. DeletedIsGone'
  <2>1. \A d \in deletedD : d \in Delegates
    BY <1>0 DEF TypeOK
  <2> QED
    BY <1>1, <1>3, <2>1 DEF IInv, DeletedIsGone
<1>8. CurIsExpiring'
  BY <1>1, <1>2 DEF IInv, CurIsExpiring
<1> QED
  BY <1>4, <1>5, <1>6, <1>7, <1>8 DEF IInv

\* The message that has arrived is taken out of the queue, by a thread without work.
LEMMA TakenMessage ==
    ASSUME IInv, NEW kind, Arrived(kind), msgQ' = Tail(msgQ), UNCHANGED clientVars
    PROVE  /\ Delegates' = Delegates /\ cur = {} /\ msgQ' \in Seq(Message)
           /\ Head(msgQ) \in Message /\ Head(msgQ).m = kind
           /\ RemovedLast(msgQ)' /\ LinkedIsKept'
           /\ \A d \in Delegates :
                 /\ PushQueued(msgQ', d) => PushQueued(msgQ, d)
                 /\ RemoveQueued(msgQ', d) => RemoveQueued(msgQ, d)
                 /\ IsPush(Head(msgQ), d) => PushQueued(msgQ, d)
                 /\ IsRemove(Head(msgQ), d) => /\ RemoveQueued(msgQ, d)
                                               /\ ~PushQueued(msgQ', d)
                                               /\ ~RemoveQueued(msgQ', d)
<1>1. UNCHANGED <<owner, mTimer, linked>> /\ Delegates' = Delegates
  BY DEF clientVars, Delegates
<1>2. /\ msgQ \in Seq(Message) /\ msgQ # <<>> /\ RemovedLast(msgQ) /\ Head(msgQ).m = kind
      /\ linked \subseteq Delegates
  BY DEF IInv, TypeOK, Arrived
<1>3. cur = {}
  BY DEF IInv, CurIsExpiring, Arrived
<1>4. RemovedLast(msgQ') /\ msgQ' \in Seq(Message) /\ Head(msgQ) \in Message
  BY <1>2, TailRemoves
<1>5. RemovedLast(msgQ)'
  BY <1>1, <1>4 DEF RemovedLast
<1>6. \A d \in Delegates :
         /\ PushQueued(msgQ', d) => PushQueued(msgQ, d)
         /\ RemoveQueued(msgQ', d) => RemoveQueued(msgQ, d)
         /\ IsPush(Head(msgQ), d) => PushQueued(msgQ, d)
         /\ IsRemove(Head(msgQ), d) => /\ RemoveQueued(msgQ, d)
                                       /\ ~PushQueued(msgQ', d) /\ ~RemoveQueued(msgQ', d)
  BY <1>2, TailRemoves
<1>7. LinkedIsKept'
  BY <1>1, <1>2, <1>6 DEF IInv, LinkedIsKept
<1> QED
  BY <1>1, <1>2, <1>3, <1>4, <1>5, <1>6, <1>7

\* A delegate that is pushed has not been deleted.
LEMMA PushStep == IInv /\ MsgTimerPush => IInv'
<1> SUFFICES ASSUME IInv, MsgTimerPush PROVE IInv'
  OBVIOUS
<1>0. TypeOK
  BY DEF IInv
<1>1. /\ Arrived("push") /\ msgQ' = Tail(msgQ) /\ updateSoonestTime(top)
      /\ UNCHANGED <<now, clientVars, deletedD, armed, poll, cur, limit>>
  BY DEF MsgTimerPush
<1>2. PICK d \in Delegates : d = Head(msgQ).d /\ IsPush(Head(msgQ), d)
  BY <1>1, TakenMessage DEF Message, IsPush
<1>3. /\ heap' = heap \cup {d} /\ top' \subseteq heap'
      /\ msg' \in {"idle", "settime"} /\ polled' \in BOOLEAN
  <2>1. heap' = heap \cup {d} /\ (top' = {d} \/ top' = top)
    BY <1>2 DEF MsgTimerPush
  <2> QED
    BY <1>0, <1>1, <2>1, UpdateKeeps DEF TypeOK
<1>4. d \notin deletedD
  BY <1>1, <1>2, TakenMessage DEF IInv, DeletedIsGone
<1>5. TypeOK'
  <2>1. UNCHANGED <<owner, due, mTimer, linked, deletedT, fired, ub, Delegates, Message>>
    BY <1>1 DEF clientVars, Delegates, Message
  <2> QED
    BY <1>0, <1>1, <1>3, <2>1, TakenMessage DEF TypeOK
<1>6. DeletedIsGone'
  <2>1. UNCHANGED <<deletedD, linked, cur>> /\ deletedD \subseteq Delegates
    BY <1>0, <1>1 DEF clientVars, TypeOK
  <2>2. \A e \in deletedD : e \notin heap' /\ e \notin cur' /\ e \notin linked'
    BY <1>3, <1>4, <2>1 DEF IInv, DeletedIsGone
  <2> QED
    BY <1>1, <2>1, <2>2, TakenMessage, StaysGone
<1>7. CurIsExpiring'
  BY <1>1, TakenMessage DEF CurIsExpiring
<1> QED
  BY <1>1, <1>5, <1>6, <1>7, TakenMessage DEF IInv

\* A delegate that is deleted leaves no trace.
LEMMA RemoveStep == IInv /\ MsgTimerRemove => IInv'
<1> SUFFICES ASSUME IInv, MsgTimerRemove PROVE IInv'
  OBVIOUS
<1>0. TypeOK
  BY DEF IInv
<1>1. /\ Arrived("remove") /\ msgQ' = Tail(msgQ)
      /\ UNCHANGED <<now, clientVars, armed, poll, cur, limit>>
  BY DEF MsgTimerRemove
<1>2. PICK d \in Delegates : d = Head(msgQ).d /\ IsRemove(Head(msgQ), d)
  BY <1>1, TakenMessage DEF Message, IsRemove
<1>3. /\ Take(d) /\ deletedD' = deletedD \cup {d}
      /\ updateSoonestTime({}) \/ UNCHANGED <<msg, polled>>
  BY <1>2 DEF MsgTimerRemove
<1>4. /\ heap' \subseteq heap /\ d \notin heap' /\ top' \subseteq heap'
      /\ msg' \in {"idle", "settime"} /\ polled' \in BOOLEAN
  <2>1. msg = "idle" /\ polled \in BOOLEAN /\ top \subseteq heap
    BY <1>0, <1>1 DEF Arrived, TypeOK
  <2> QED
    BY <1>3, <2>1, TakeKeeps, UpdateKeeps
<1>5. d \notin linked
  BY <1>1, <1>2, TakenMessage DEF IInv, LinkedIsKept
<1>6. TypeOK'
  <2>1. UNCHANGED <<owner, due, mTimer, linked, deletedT, fired, ub, Delegates, Message>>
    BY <1>1 DEF clientVars, Delegates, Message
  <2> QED
    BY <1>0, <1>1, <1>3, <1>4, <2>1, TakenMessage DEF TypeOK
<1>7. DeletedIsGone'
  <2>1. UNCHANGED <<linked, cur>> /\ cur = {} /\ deletedD \subseteq Delegates
    BY <1>0, <1>1, TakenMessage DEF clientVars, TypeOK
  <2>2. /\ d \notin heap' /\ d \notin cur' /\ d \notin linked'
        /\ ~PushQueued(msgQ', d) /\ ~RemoveQueued(msgQ', d)
    BY <1>1, <1>2, <1>4, <1>5, <2>1, TakenMessage
  <2>3. ASSUME NEW e \in deletedD
        PROVE  /\ e \notin heap' /\ e \notin cur' /\ e \notin linked'
               /\ ~PushQueued(msgQ', e) /\ ~RemoveQueued(msgQ', e)
    BY <1>1, <1>4, <2>1, TakenMessage DEF IInv, DeletedIsGone
  <2> QED
    BY <1>3, <2>2, <2>3 DEF DeletedIsGone
<1>8. CurIsExpiring'
  BY <1>1, TakenMessage DEF CurIsExpiring
<1> QED
  BY <1>1, <1>6, <1>7, <1>8, TakenMessage DEF IInv

\* What is popped to expire is in the heap, hence not deleted.
LEMMA ExpireStep == IInv /\ MsgTimerExpire => IInv'
<1> SUFFICES ASSUME IInv, MsgTimerExpire PROVE IInv'
  OBVIOUS
<1>0. TypeOK
  BY DEF IInv
<1>1. /\ Arrived("expire") /\ msgQ' = Tail(msgQ) /\ limit' = now /\ cur' = top
      /\ UNCHANGED <<now, clientVars, deletedD, armed, polled, poll>>
  BY DEF MsgTimerExpire, fdVars
<1>2. /\ heap' \subseteq heap /\ top' \subseteq heap' /\ cur' \subseteq heap
      /\ msg' \in {"idle", "expire"} /\ CurIsExpiring'
  <2>1. CASE top = {}
    BY <1>0, <1>1, <2>1 DEF MsgTimerExpire, Arrived, CurIsExpiring, TypeOK
  <2>2. CASE top # {}
    <3>1. PICK d \in top : Take(d) /\ msg' = "expire"
      BY <2>2 DEF MsgTimerExpire
    <3> QED
      BY <1>0, <1>1, <3>1, TakeKeeps DEF CurIsExpiring, TypeOK
  <2> QED
    BY <2>1, <2>2
<1>3. TypeOK'
  <2>1. UNCHANGED <<owner, due, mTimer, linked, deletedT, fired, ub, Delegates, Message>>
    BY <1>1 DEF clientVars, Delegates, Message
  <2> QED
    BY <1>0, <1>1, <1>2, <2>1, TakenMessage DEF TypeOK
<1>4. DeletedIsGone'
  <2>1. UNCHANGED <<deletedD, linked>> /\ deletedD \subseteq Delegates
    BY <1>0, <1>1 DEF clientVars, TypeOK
  <2>2. \A e \in deletedD : e \notin heap' /\ e \notin cur' /\ e \notin linked'
    BY <1>2, <2>1 DEF IInv, DeletedIsGone
  <2> QED
    BY <1>1, <2>1, <2>2, TakenMessage, StaysGone
<1> QED
  BY <1>1, <1>2, <1>3, <1>4, TakenMessage DEF IInv

\* The client is stopped, or nobody is there to be: the next delegate is in the heap.
LEMMA CallbackStep == IInv /\ (ReadClient \/ StopClient) => IInv'
<1> SUFFICES ASSUME IInv, ReadClient \/ StopClient PROVE IInv'
  OBVIOUS
<1>0. TypeOK
  BY DEF IInv
<1>1. UNCHANGED <<now, owner, due, deletedT, deletedD, armed, poll, limit>>
      /\ Delegates' = Delegates /\ Message' = Message
  BY DEF ReadClient, StopClient, clientVars, Delegates, Message
<1>2. /\ mTimer' \in [Timers -> SUBSET Delegates] /\ linked' \subseteq linked
      /\ msgQ' \in Seq(Message) /\ RemovedLast(msgQ)' /\ LinkedIsKept'
      /\ \A d \in Delegates :
            /\ PushQueued(msgQ', d) => PushQueued(msgQ, d)
            /\ RemoveQueued(msgQ', d) => RemoveQueued(msgQ, d) \/ d \in linked
      /\ fired' \subseteq Delegates /\ ub' \in BOOLEAN
  <2>1. CASE ReadClient
    <3>1. UNCHANGED <<mTimer, linked, msgQ, fired, ub>>
      BY <2>1 DEF ReadClient, clientVars
    <3>2. RemovedLast(msgQ)' /\ LinkedIsKept'
      BY <1>1, <3>1, SameClients
    <3> QED
      BY <1>0, <3>1, <3>2 DEF TypeOK
  <2>2. CASE StopClient
    <3>1. PICK d \in cur : LET t == owner[d]
                           IN  /\ ub' = (ub \/ t \in deletedT)
                               /\ fired' = fired \cup mTimer[t]
                               /\ IF mTimer[t] = {} THEN UNCHANGED <<mTimer, linked, msgQ>>
                                  ELSE Unlink(t)
      BY <2>2 DEF StopClient
    <3>2. PICK t \in Timers : t = owner[d]
      BY <1>0 DEF TypeOK, Delegates
    <3>3. fired' \subseteq Delegates /\ ub' \in BOOLEAN
      BY <1>0, <3>1, <3>2 DEF TypeOK
    <3>4. CASE mTimer[t] = {}
      <4>1. UNCHANGED <<mTimer, linked, msgQ>>
        BY <3>1, <3>2, <3>4
      <4>2. RemovedLast(msgQ)' /\ LinkedIsKept'
        BY <1>1, <4>1, SameClients
      <4> QED
        BY <1>0, <3>3, <4>1, <4>2 DEF TypeOK
    <3>5. CASE mTimer[t] # {}
      <4>1. Unlink(t)
        BY <3>1, <3>2, <3>5
      <4> QED
        BY <1>1, <3>3, <3>5, <4>1, UnlinkKeeps
    <3> QED
      BY <3>4, <3>5
  <2> QED
    BY <2>1, <2>2
<1>3. /\ heap' \subseteq heap /\ top' \subseteq heap' /\ cur' \subseteq heap \cup cur
      /\ msg' \in {"idle", "settime", "expire", "stop"} /\ polled' \in BOOLEAN
      /\ CurIsExpiring'
  <2>1. CASE PopNext
    BY <1>0, <2>1, PopKeeps
  <2>2. CASE msg' = "stop" /\ UNCHANGED <<heap, top, polled, cur>>
    BY <1>0, <2>2 DEF TypeOK, CurIsExpiring
  <2> QED
    BY <2>1, <2>2 DEF ReadClient, StopClient
<1>4. TypeOK'
  BY <1>0, <1>1, <1>2, <1>3 DEF TypeOK
<1>5. DeletedIsGone'
  <2>1. UNCHANGED deletedD /\ deletedD \subseteq Delegates
    BY <1>0, <1>1 DEF TypeOK
  <2>2. \A e \in deletedD : e \notin heap' /\ e \notin cur' /\ e \notin linked'
    BY <1>2, <1>3 DEF IInv, DeletedIsGone
  <2> QED
    BY <1>2, <2>1, <2>2, StaysGone
<1> QED
  BY <1>2, <1>3, <1>4, <1>5 DEF IInv

\* The strengthened invariant holds at the start.
LEMMA InvInit == Init => IInv
<1> SUFFICES ASSUME Init PROVE IInv
  OBVIOUS
<1>1. TypeOK
  <2>1. Delegates = {} /\ <<>> \in Seq(Message) /\ <<>> \in Seq(Timers) /\ <<>> \in Seq(Nat)
    BY DEF Init, Delegates
  <2> QED
    BY <2>1 DEF Init, TypeOK
<1>2. RemovedLast(msgQ) /\ LinkedIsKept /\ DeletedIsGone /\ CurIsExpiring
  BY DEF Init, RemovedLast, LinkedIsKept, DeletedIsGone, CurIsExpiring
<1> QED
  BY <1>1, <1>2 DEF IInv

\* And every step keeps it.
LEMMA InvStep == IInv /\ [Next]_vars => IInv'
  BY StartStep, StopStep, PollStep, PushStep, RemoveStep, ExpireStep, CallbackStep
     DEF Next, Msg

-----------------------------------------------------------------------------

\* A delegate that has been deleted is in no heap, no expiration, no timer and no
\* message, for any number of timers that are started, stopped and deleted while
\* the poll and the message thread run: LocTimerDelegate's delete is the last use.
THEOREM NoDeletedDelegateAlways == Spec => []NoDeletedDelegate
<1>1. IInv => NoDeletedDelegate
  <2> SUFFICES ASSUME IInv, NEW d \in deletedD
               PROVE  /\ d \notin heap
                      /\ msg = "expire" => d \notin cur
                      /\ \A t \in Timers : d \notin mTimer[t]
                      /\ \A i \in 1..Len(msgQ) : msgQ[i] # Expire => msgQ[i].d # d
    BY DEF NoDeletedDelegate
  <2>1. d \notin heap /\ d \notin cur /\ \A t \in Timers : d \notin mTimer[t]
    BY DEF IInv, DeletedIsGone, LinkedIsKept
  <2>2. ASSUME NEW i \in 1..Len(msgQ), msgQ[i] # Expire PROVE msgQ[i].d # d
    <3>1. msgQ[i] \in Message
      BY DEF IInv, TypeOK
    <3>2. msgQ[i].m \in {"push", "remove"}
      BY <2>2, <3>1 DEF Message, Expire
    <3> QED
      BY <3>2 DEF IInv, DeletedIsGone, PushQueued, RemoveQueued, IsPush, IsRemove
  <2> QED
    BY <2>1, <2>2
<1> QED
  BY InvInit, InvStep, <1>1, PTL DEF Spec

\* Nothing but what the code expects is ever in a variable or the queue.
THEOREM TypeCorrect == Spec => []TypeOK
<1>1. IInv => TypeOK
  BY DEF IInv
<1> QED
  BY InvInit, InvStep, <1>1, PTL DEF Spec

-----------------------------------------------------------------------------
(* LocHeap, which LocTimer takes for a set with a soonest delegate on top: it *)
(* implements RankedSet (the run heap_tree), and RankedSet is such a set.    *)

CONSTANTS Items, Due
VARIABLES content, best, last

Heap == INSTANCE RankedSet WITH top <- best

heapState == <<content, best, last>>

\* The inductive invariant: the best is one object at most, a soonest one, and
\* there is one unless the set is empty.
HeapInv ==
    /\ content \subseteq Items
    /\ \A i, j \in best : i = j
    /\ Heap!TopIsSoonest

LEMMA HeapTakeKeeps ==
    ASSUME Due \in [Items -> Nat], HeapInv, NEW i \in content, Heap!Take(i)
    PROVE  HeapInv'
<1>1. content' = content \ {i}
  BY DEF Heap!Take
<1>2. CASE i \notin best
  <2>1. best' = best
    BY <1>2 DEF Heap!Take
  <2>2. best' \subseteq content'
    BY <1>1, <1>2, <2>1 DEF HeapInv, Heap!TopIsSoonest, Heap!Soonest
  <2>3. best' \subseteq Heap!Soonest(content)'
    BY <1>1, <2>1, <2>2 DEF HeapInv, Heap!TopIsSoonest, Heap!Soonest
  <2>4. best # {}
    BY DEF HeapInv, Heap!TopIsSoonest
  <2> QED
    BY <1>1, <2>1, <2>2, <2>3, <2>4 DEF HeapInv, Heap!TopIsSoonest
<1>3. CASE i \in best /\ content = {i}
  <2>1. best' = {} /\ content' = {}
    BY <1>1, <1>3 DEF Heap!Take
  <2> QED
    BY <2>1 DEF HeapInv, Heap!TopIsSoonest, Heap!Soonest
<1>4. CASE i \in best /\ content # {i}
  <2>1. PICK j \in Heap!Soonest(content \ {i}) : best' = {j}
    BY <1>4 DEF Heap!Take
  <2>2. j \in content' /\ Heap!Soonest(content)' = Heap!Soonest(content \ {i})
    BY <1>1, <2>1 DEF Heap!Soonest
  <2> QED
    BY <1>1, <2>1, <2>2 DEF HeapInv, Heap!TopIsSoonest
<1> QED
  BY <1>2, <1>3, <1>4

LEMMA HeapPushKeeps ==
    ASSUME Due \in [Items -> Nat], HeapInv, NEW i \in Items, Heap!Push(i)
    PROVE  HeapInv'
<1>1. content' = content \cup {i}
  BY DEF Heap!Push
<1>2. \A j \in content : Due[j] \in Nat
  BY DEF HeapInv
<1>3. Due[i] \in Nat
  OBVIOUS
<1>4. CASE \A j \in best : Due[i] < Due[j]
  <2>1. best' = {i}
    BY <1>4 DEF Heap!Push
  <2>2. \A k \in content : Due[i] <= Due[k]
    <3> SUFFICES ASSUME NEW k \in content PROVE Due[i] <= Due[k]
      OBVIOUS
    <3>1. PICK t \in best : TRUE
      BY DEF HeapInv, Heap!TopIsSoonest
    <3>2. Due[t] <= Due[k] /\ t \in content
      BY <3>1 DEF HeapInv, Heap!TopIsSoonest, Heap!Soonest
    <3>3. Due[i] < Due[t]
      BY <1>4, <3>1
    <3> QED
      BY <1>2, <1>3, <3>2, <3>3
  <2> QED
    BY <1>1, <1>3, <2>1, <2>2 DEF HeapInv, Heap!TopIsSoonest, Heap!Soonest
<1>5. CASE ~ \A j \in best : Due[i] < Due[j]
  <2>1. PICK t \in best : ~ (Due[i] < Due[t])
    BY <1>5
  <2>2. best' = best
    BY <1>5 DEF Heap!Push
  <2>3. t \in content /\ Due[t] <= Due[i]
    BY <1>2, <1>3, <2>1 DEF HeapInv, Heap!TopIsSoonest, Heap!Soonest
  <2>4. best' = {t}
    BY <2>1, <2>2 DEF HeapInv
  <2>5. \A k \in content' : Due[t] <= Due[k]
    BY <1>1, <2>1, <2>3 DEF HeapInv, Heap!TopIsSoonest, Heap!Soonest
  <2> QED
    BY <1>1, <2>3, <2>4, <2>5 DEF HeapInv, Heap!TopIsSoonest, Heap!Soonest
<1> QED
  BY <1>4, <1>5

\* Users of the heap get a timer that is due first, for every set of timers and
\* all due times (LocHeap::peek, LocHeap::pop).
THEOREM TopIsAlwaysSoonest ==
    ASSUME Due \in [Items -> Nat]
    PROVE  Heap!Spec => []Heap!TopIsSoonest
<1>1. Heap!Init => HeapInv
  BY DEF Heap!Init, HeapInv, Heap!TopIsSoonest, Heap!Soonest
<1>2. HeapInv /\ [Heap!Next]_heapState => HeapInv'
  <2> SUFFICES ASSUME HeapInv, [Heap!Next]_heapState PROVE HeapInv'
    OBVIOUS
  <2>1. CASE Heap!Pop
    <3>1. CASE \E i \in best : Heap!Take(i)
      BY <3>1, HeapTakeKeeps DEF HeapInv, Heap!TopIsSoonest, Heap!Soonest
    <3>2. CASE UNCHANGED <<content, best>>
      BY <3>2 DEF HeapInv, Heap!TopIsSoonest, Heap!Soonest
    <3> QED
      BY <2>1, <3>1, <3>2 DEF Heap!Pop
  <2>2. ASSUME NEW i \in Items, Heap!Push(i) PROVE HeapInv'
    BY <2>2, HeapPushKeeps
  <2>3. ASSUME NEW i \in Items, Heap!Remove(i) PROVE HeapInv'
    <3>1. CASE i \in content /\ Heap!Take(i)
      BY <3>1, HeapTakeKeeps
    <3>2. CASE UNCHANGED <<content, best>>
      BY <3>2 DEF HeapInv, Heap!TopIsSoonest, Heap!Soonest
    <3> QED
      BY <2>3, <3>1, <3>2 DEF Heap!Remove
  <2>4. CASE UNCHANGED heapState
    BY <2>4 DEF heapState, HeapInv, Heap!TopIsSoonest, Heap!Soonest
  <2> QED
    BY <2>1, <2>2, <2>3, <2>4 DEF Heap!Next
<1>3. HeapInv => Heap!TopIsSoonest
  BY DEF HeapInv
<1> QED
  BY <1>1, <1>2, <1>3, PTL DEF Heap!Spec, heapState
=============================================================================
