------------------------------ MODULE LocTimer ------------------------------
(***************************************************************************)
(* The timer service of gps/utils/LocTimer.cpp, one container of it.       *)
(*                                                                         *)
(* A client starts and stops its LocTimer in its own thread.  Each start   *)
(* makes a delegate, numbered here, that goes into the container's heap by *)
(* a message and is deleted by another.  The kernel timer (a timerfd) is   *)
(* armed for the soonest delegate; when it expires the poll thread disarms *)
(* it, takes it out of the epoll set and sends the message thread off to   *)
(* pop what is due.  The two threads meet in the timerfd and in epoll, the *)
(* message thread and the clients in the delegate's mClient.               *)
(***************************************************************************)
EXTENDS Integers, Sequences

CONSTANTS
    Timers,     \* LocTimer objects, each used by a thread of its own
    Delays,     \* delays clients ask for
    MaxTime,    \* bound: no timer is due later
    MaxStarts,  \* bound: delegates in a behaviour
    Stops,      \* do clients call stop
    Deletes     \* do clients delete their LocTimer

ASSUME DelaysAssumption == Delays \subseteq Nat \ {0} /\ MaxTime \in Nat
ASSUME FlagsAssumption == Stops \in BOOLEAN /\ Deletes \in BOOLEAN

VARIABLES
    now,        \* CLOCK_BOOTTIME
    owner,      \* owner[d]: the LocTimer that started delegate d
    due,        \* due[d]: mFutureTime
    mTimer,     \* mTimer[t]: the delegate of t as a set, empty for NULL
    linked,     \* delegates whose mClient is not NULL
    deletedT,   \* LocTimers deleted
    deletedD,   \* delegates deleted
    heap, top,  \* the LocHeap: its delegates and the one on top, as a set
    msgQ,       \* queue of LocTimerMsgTask
    armed,      \* the timerfd: its expiration as a set, empty when disarmed
    polled,     \* is the timerfd in the epoll set
    poll,       \* where the poll thread is
    msg,        \* where the message thread is
    cur,        \* the delegate that MsgTimerExpire is expiring, as a set
    limit,      \* the "now" of MsgTimerExpire
    fired,      \* delegates whose timeout has been called back
    ub          \* a deleted LocTimer has been used

clientVars == <<owner, due, mTimer, linked, deletedT, fired, ub>>
heapVars == <<heap, top, deletedD>>
fdVars == <<armed, polled>>
vars == <<now, clientVars, heapVars, fdVars, msgQ, poll, msg, cur, limit>>

Delegates == 1..Len(owner)

Push(d) == [m |-> "push", d |-> d]
Remove(d) == [m |-> "remove", d |-> d]
Expire == [m |-> "expire"]

Init ==
    /\ now = 0
    /\ owner = <<>> /\ due = <<>>
    /\ mTimer = [t \in Timers |-> {}]
    /\ linked = {} /\ deletedT = {} /\ deletedD = {}
    /\ heap = {} /\ top = {}
    /\ msgQ = <<>>
    /\ armed = {} /\ polled = FALSE
    /\ poll = "wait" /\ msg = "idle"
    /\ cur = {} /\ limit = 0
    /\ fired = {} /\ ub = FALSE

Tick == /\ now < MaxTime
        /\ now' = now + 1
        /\ UNCHANGED <<clientVars, heapVars, fdVars, msgQ, poll, msg, cur, limit>>

-----------------------------------------------------------------------------
(* The clients.  start and stop hold the timer's lock throughout.            *)

start(t, delay) ==
    /\ t \notin deletedT
    /\ mTimer[t] = {}
    /\ Len(owner) < MaxStarts /\ now + delay <= MaxTime
    /\ LET d == Len(owner) + 1
       IN  /\ owner' = Append(owner, t)
           /\ due' = Append(due, now + delay)
           /\ mTimer' = [mTimer EXCEPT ![t] = {d}]
           /\ linked' = linked \cup {d}
           /\ msgQ' = Append(msgQ, Push(d))
    /\ UNCHANGED <<now, deletedT, fired, ub, heapVars, fdVars, poll, msg, cur,
                   limit>>

\* Mutant: mTimer is not set to NULL.
UnlinkAgain(t) ==
    /\ UNCHANGED mTimer
    /\ linked' = linked \ mTimer[t]
    /\ \E d \in mTimer[t] : msgQ' = Append(msgQ, Remove(d))

\* Mutant: the delegate is not removed.
UnlinkOnly(t) ==
    /\ mTimer' = [mTimer EXCEPT ![t] = {}]
    /\ linked' = linked \ mTimer[t]
    /\ UNCHANGED msgQ

\* LocTimer::stop with LocTimerDelegate::destroyLocked.
Unlink(t) ==
    /\ mTimer' = [mTimer EXCEPT ![t] = {}]
    /\ linked' = linked \ mTimer[t]
    /\ \E d \in mTimer[t] : msgQ' = Append(msgQ, Remove(d))

stop(t) ==
    /\ Stops
    /\ t \notin deletedT /\ mTimer[t] # {}
    /\ Unlink(t)
    /\ UNCHANGED <<now, owner, due, deletedT, fired, ub, heapVars, fdVars,
                   poll, msg, cur, limit>>

\* ~LocTimer: stop, then the object is gone.
delete(t) ==
    /\ Deletes
    /\ t \notin deletedT
    /\ deletedT' = deletedT \cup {t}
    /\ IF mTimer[t] = {} THEN UNCHANGED <<mTimer, linked, msgQ>> ELSE Unlink(t)
    /\ UNCHANGED <<now, owner, due, fired, ub, heapVars, fdVars, poll, msg,
                   cur, limit>>

-----------------------------------------------------------------------------
(* The poll thread: TimerRunnable::run and LocTimerContainer::expire.        *)

PollWake ==
    /\ poll = "wait"
    /\ polled /\ \E x \in armed : x <= now
    /\ poll' = "woken"
    /\ UNCHANGED <<now, clientVars, heapVars, fdVars, msgQ, msg, cur, limit>>

PollDisarm ==
    /\ poll = "woken"
    /\ armed' = {}
    /\ poll' = "disarmed"
    /\ UNCHANGED <<now, clientVars, heapVars, polled, msgQ, msg, cur, limit>>

PollRemove ==
    /\ poll = "disarmed"
    /\ polled' = FALSE
    /\ poll' = "removed"
    /\ UNCHANGED <<now, clientVars, heapVars, armed, msgQ, msg, cur, limit>>

PollSend ==
    /\ poll = "removed"
    /\ msgQ' = Append(msgQ, Expire)
    /\ poll' = "wait"
    /\ UNCHANGED <<now, clientVars, heapVars, fdVars, msg, cur, limit>>

Poll == PollWake \/ PollDisarm \/ PollRemove \/ PollSend

-----------------------------------------------------------------------------
(* The message thread.                                                       *)

Soonest(S) == {d \in S : \A e \in S : due[d] <= due[e]}

\* LocHeap::remove and pop: any soonest one may come to the top.
Take(d) ==
    /\ heap' = heap \ {d}
    /\ IF d \notin top THEN top' = top
       ELSE IF heap = {d} THEN top' = {}
       ELSE \E e \in Soonest(heap \ {d}) : top' = {e}

\* Mutant: the timerfd is not put back into the epoll set.
updateUnpolled(prior) ==
    /\ UNCHANGED polled
    /\ msg' = IF top' = prior THEN "idle" ELSE "settime"

\* updateSoonestTime up to its timerfd_settime, with the new top; prior is the
\* argument.
updateSoonestTime(prior) ==
    IF top' = prior \/ \E d \in top', e \in prior : due[d] >= due[e]
    THEN msg' = "idle" /\ UNCHANGED polled
    ELSE msg' = "settime" /\ polled' = (top' # {})

\* ... which arms the timerfd for the top, or disarms it.
SetTime ==
    /\ msg = "settime"
    /\ armed' = {due[d] : d \in top}
    /\ msg' = "idle"
    /\ UNCHANGED <<now, clientVars, heapVars, polled, msgQ, poll, cur, limit>>

Arrived(kind) == msg = "idle" /\ msgQ # <<>> /\ Head(msgQ).m = kind

MsgTimerPush ==
    /\ Arrived("push")
    /\ LET d == Head(msgQ).d
       IN  /\ heap' = heap \cup {d}
           /\ top' = IF \A e \in top : due[d] < due[e] THEN {d} ELSE top
    /\ updateSoonestTime(top)
    /\ msgQ' = Tail(msgQ)
    /\ UNCHANGED <<now, clientVars, deletedD, armed, poll, cur, limit>>

MsgTimerRemove ==
    /\ Arrived("remove")
    /\ LET d == Head(msgQ).d
       IN  /\ Take(d)
           /\ IF top = heap \cap {d} THEN updateSoonestTime({})
              ELSE UNCHANGED <<msg, polled>>
           /\ deletedD' = deletedD \cup {d}
    /\ msgQ' = Tail(msgQ)
    /\ UNCHANGED <<now, clientVars, armed, poll, cur, limit>>

\* MsgTimerExpire pops the top, whatever its time, ...
MsgTimerExpire ==
    /\ Arrived("expire")
    /\ limit' = now
    /\ msgQ' = Tail(msgQ)
    /\ cur' = top
    /\ IF top = {} THEN UNCHANGED <<heap, top, msg>>
       ELSE msg' = "expire" /\ \E d \in top : Take(d)
    /\ UNCHANGED <<now, clientVars, deletedD, fdVars, poll>>

\* ... and then those that the time has come for: popIfOutRanks.
PopNext ==
    LET ready == {d \in top : due[d] <= limit}
    IN  /\ cur' = ready
        /\ IF ready # {}
           THEN msg' = "expire" /\ UNCHANGED polled /\ \E d \in ready : Take(d)
           ELSE UNCHANGED <<heap, top>> /\ updateSoonestTime({})

\* LocTimerDelegate::expire reads mClient without the lock, ...
ReadClient ==
    /\ msg = "expire"
    /\ IF cur \subseteq linked
       THEN msg' = "stop" /\ UNCHANGED <<heap, top, polled, cur>>
       ELSE PopNext
    /\ UNCHANGED <<now, clientVars, deletedD, armed, msgQ, poll, limit>>

\* ... then stops the client's timer, the one it has by then, and if it had one
\* calls back.
StopClient ==
    /\ msg = "stop"
    /\ \E d \in cur :
          LET t == owner[d]
          IN  /\ ub' = (ub \/ t \in deletedT)
              /\ fired' = fired \cup mTimer[t]
              /\ IF mTimer[t] = {} THEN UNCHANGED <<mTimer, linked, msgQ>>
                 ELSE Unlink(t)
    /\ PopNext
    /\ UNCHANGED <<now, owner, due, deletedT, deletedD, armed, poll, limit>>

Msg == \/ SetTime \/ MsgTimerPush \/ MsgTimerRemove \/ MsgTimerExpire
       \/ ReadClient \/ StopClient

Next ==
    \/ Tick
    \/ \E t \in Timers, delay \in Delays : start(t, delay)
    \/ \E t \in Timers : stop(t) \/ delete(t)
    \/ Poll \/ Msg

Spec == Init /\ [][Next]_vars

\* Time goes on and the two threads of the service run.
FairSpec == Spec /\ WF_vars(Tick) /\ WF_vars(Poll) /\ WF_vars(Msg)

-----------------------------------------------------------------------------
(* What the service promises. *)

Message == [m : {"push", "remove"}, d : Delegates] \cup [m : {"expire"}]

TypeOK ==
    /\ now \in Nat
    /\ owner \in Seq(Timers) /\ due \in Seq(Nat) /\ Len(due) = Len(owner)
    /\ mTimer \in [Timers -> SUBSET Delegates]
    /\ linked \subseteq Delegates /\ deletedD \subseteq Delegates
    /\ deletedT \subseteq Timers
    /\ heap \subseteq Delegates /\ top \subseteq heap
    /\ msgQ \in Seq(Message)
    /\ armed \subseteq Nat /\ polled \in BOOLEAN
    /\ poll \in {"wait", "woken", "disarmed", "removed"}
    /\ msg \in {"idle", "settime", "expire", "stop"}
    /\ cur \subseteq Delegates /\ limit \in Nat
    /\ fired \subseteq Delegates /\ ub \in BOOLEAN

\* "All timers are deleted here, and only here" (LocTimer.cpp:358): a delegate
\* that is deleted is in no heap, no message and no expiration any more.
NoDeletedDelegate ==
    \A d \in deletedD :
        /\ d \notin heap
        /\ msg = "expire" => d \notin cur
        /\ \A t \in Timers : d \notin mTimer[t]
        /\ \A i \in 1..Len(msgQ) : msgQ[i] # Expire => msgQ[i].d # d

\* A timer's callback comes when its time has come ("pop everything in the heap
\* that outRanks now, i.e. has time older than now", LocTimer.cpp:379).  MsgTimerExpire pops the first
\* one unseen, which breaks it (Timer_early.cfg).
NeverEarly == [][\A d \in fired' \ fired : due[d] <= now]_vars

\* "Nulling this handle so that expire() won't call the callback on the dead
\* handle any more" (LocTimer.cpp:484).  Broken between ReadClient and StopClient
\* (Timer_dead.cfg).
NoDeadClient == ~ub

\* A timer that is running fires or is stopped; none is forgotten in the heap.
TimerEnds ==
    \A t \in Timers : \A d \in 1..MaxStarts : d \in mTimer[t] ~> d \notin mTimer[t]

\* Delegates do not pile up: one that has been stopped or has fired is deleted.
DelegateDeleted ==
    \A d \in 1..MaxStarts :
        d \in Delegates /\ d \notin linked ~> d \in deletedD
=============================================================================
