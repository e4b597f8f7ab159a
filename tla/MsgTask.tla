------------------------------- MODULE MsgTask -------------------------------
(***************************************************************************)
(* A message task: the thread and the queue of gps/utils/MsgTask.cpp, with *)
(* LocThread.cpp, msg_q.c and linked_list.c below it.                      *)
(*                                                                         *)
(* Threads send messages, which the task's own thread takes from the queue *)
(* and handles; a message that is being handled may send others.  Every    *)
(* function of msg_q.c runs under the queue's mutex, which only the wait   *)
(* for the condition gives up in between.  Whoever deletes the task        *)
(* unblocks the queue; thread and owner share the MTRunnable, and the last *)
(* of them to let go of it frees the queue.                                *)
(***************************************************************************)
EXTENDS Naturals, Sequences

CONSTANTS
    Senders,     \* threads that send messages
    Self,        \* the task's own thread as a sender
    MaxSends,    \* bound: messages of a sender
    SendersLeave \* does the owner wait until nobody is inside sendMsg

ASSUME SelfAssumption == Self \notin Senders
ASSUME BoundAssumption == MaxSends \in Nat /\ SendersLeave \in BOOLEAN

VARIABLES
    list,       \* the linked list, oldest message first
    unblocked,  \* msg_q's flag
    freed,      \* msg_q_destroy has freed the queue
    refs,       \* who holds a shared_ptr to the MTRunnable
    pc,         \* where the task's thread is
    owner,      \* where the thread that deletes the MsgTask is
    inside,     \* threads that have entered msg_q_snd and not locked yet
    sent,       \* sent[s]: messages s has sent, refused ones included
    handled     \* messages taken from the queue, in order

queueVars == <<list, unblocked, freed>>
vars == <<queueVars, refs, pc, owner, inside, sent, handled>>

Threads == Senders \cup {Self}
Msgs == Threads \X (1..MaxSends)

Init ==
    /\ list = <<>> /\ unblocked = FALSE /\ freed = FALSE
    /\ refs = {"thread"} /\ pc = "rcv"
    /\ owner = "live"
    /\ inside = {}
    /\ sent = [s \in Threads |-> 0]
    /\ handled = <<>>

-----------------------------------------------------------------------------
(* Sending                                                                   *)

\* Mutant: nobody is woken.
signalNobody == UNCHANGED pc

\* pthread_cond_signal and broadcast: the only waiter is the task's thread.
signal == pc' = IF pc = "wait" THEN "woken" ELSE pc

\* Mutant: the new message becomes the oldest.
addInFront(m) == list' = <<m>> \o list

linked_list_add(m) == list' = Append(list, m)

msg_q_snd(m) ==
    /\ IF unblocked THEN UNCHANGED <<list, pc>>
                    ELSE linked_list_add(m) /\ signal
    /\ UNCHANGED <<unblocked, freed>>

\* A thread calls sendMsg and is about to lock the queue.
EnterSend(s) ==
    /\ s \notin inside
    /\ owner # "gone" /\ (SendersLeave => owner = "live")
    /\ sent[s] < MaxSends
    /\ inside' = inside \cup {s}
    /\ UNCHANGED <<queueVars, refs, pc, owner, sent, handled>>

Send(s) ==
    /\ s \in inside
    /\ inside' = inside \ {s}
    /\ sent' = [sent EXCEPT ![s] = @ + 1]
    /\ msg_q_snd(<<s, sent[s] + 1>>)
    /\ UNCHANGED <<refs, owner, handled>>

\* The message that is being handled sends one to its own task.
SendSelf ==
    /\ pc = "proc" /\ owner # "gone"
    /\ sent[Self] < MaxSends
    /\ sent' = [sent EXCEPT ![Self] = @ + 1]
    /\ msg_q_snd(<<Self, sent[Self] + 1>>)
    /\ UNCHANGED <<refs, owner, inside, handled>>

-----------------------------------------------------------------------------
(* The task's thread                                                         *)

\* The queue is empty and open: the thread waits and gives up the mutex.
Wait == pc' = "wait" /\ UNCHANGED <<list, handled>>

\* linked_list_remove takes the oldest message, which MTRunnable::run handles.
Take ==
    /\ list # <<>>
    /\ handled' = Append(handled, Head(list))
    /\ list' = Tail(list)
    /\ pc' = "proc"

\* msg_q_rcv returns an error, run returns FALSE, the loop of the thread ends.
Leave == pc' = "exit" /\ UNCHANGED <<list, handled>>

\* Mutant: msg_q_rcv waits without looking whether there is a message.
RcvBlind ==
    /\ pc = "rcv"
    /\ IF unblocked THEN Leave ELSE Wait
    /\ UNCHANGED <<unblocked, freed, refs, owner, inside, sent>>

msg_q_rcv ==
    /\ pc = "rcv"
    /\ \/ unblocked /\ Leave
       \/ ~unblocked /\ list = <<>> /\ Wait
       \/ ~unblocked /\ Take
    /\ UNCHANGED <<unblocked, freed, refs, owner, inside, sent>>

\* Mutant: a thread that is woken goes on waiting when the list is empty.
WakeIgnoresUnblock ==
    /\ pc = "woken"
    /\ \/ list = <<>> /\ Wait
       \/ Take
    /\ UNCHANGED <<unblocked, freed, refs, owner, inside, sent>>

\* pthread_cond_wait returns with the mutex: the loop looks again.
WakeUp ==
    /\ pc = "woken"
    /\ \/ list = <<>> /\ ~unblocked /\ Wait
       \/ list = <<>> /\ unblocked /\ Leave
       \/ Take
    /\ UNCHANGED <<unblocked, freed, refs, owner, inside, sent>>

\* POSIX allows the wait to end without a signal.
SpuriousWakeUp ==
    /\ pc = "wait" /\ pc' = "woken"
    /\ UNCHANGED <<queueVars, refs, owner, inside, sent, handled>>

\* proc has returned, the message is deleted.
ProcDone ==
    /\ pc = "proc" /\ pc' = "rcv"
    /\ UNCHANGED <<queueVars, refs, owner, inside, sent, handled>>

\* Mutant: whoever lets go frees the queue.
LetGoFirst(who) ==
    /\ refs' = refs \ {who}
    /\ freed' = TRUE /\ list' = <<>>
    /\ UNCHANGED unblocked

\* The shared_ptr of who is destroyed; ~MTRunnable flushes and frees the queue.
LetGo(who) ==
    /\ refs' = refs \ {who}
    /\ IF refs \subseteq {who} THEN freed' = TRUE /\ list' = <<>>
                               ELSE UNCHANGED <<freed, list>>
    /\ UNCHANGED unblocked

ThreadEnds ==
    /\ pc = "exit" /\ pc' = "ended"
    /\ LetGo("thread")
    /\ UNCHANGED <<owner, inside, sent, handled>>

-----------------------------------------------------------------------------
(* The owner deletes the MsgTask: ~LocThread, stop, ~LocThreadDelegate.      *)

\* mRunnable.lock(): the thread cannot have let go before it is unblocked.
Stop ==
    /\ owner = "live" /\ (SendersLeave => inside = {})
    /\ owner' = "locked"
    /\ refs' = refs \cup {"owner"}
    /\ UNCHANGED <<queueVars, pc, inside, sent, handled>>

\* interrupt: msg_q_unblock.
Interrupt ==
    /\ owner = "locked" /\ owner' = "unblocked"
    /\ unblocked' = TRUE
    /\ signal
    /\ UNCHANGED <<list, freed, refs, inside, sent, handled>>

OwnerEnds ==
    /\ owner = "unblocked" /\ owner' = "gone"
    /\ LetGo("owner")
    /\ UNCHANGED <<pc, inside, sent, handled>>

-----------------------------------------------------------------------------
ThreadStep == msg_q_rcv \/ WakeUp \/ ProcDone \/ ThreadEnds
OwnerStep == Interrupt \/ OwnerEnds

Next ==
    \/ ThreadStep \/ SpuriousWakeUp \/ SendSelf
    \/ Stop \/ OwnerStep
    \/ \E s \in Senders : EnterSend(s) \/ Send(s)

Spec == Init /\ [][Next]_vars

\* A thread that is started runs, and so does the destructor.  Nobody has to send
\* or to stop.
FairSpec == Spec /\ WF_vars(ThreadStep) /\ WF_vars(OwnerStep)

-----------------------------------------------------------------------------
TypeOK ==
    /\ list \in Seq(Msgs) /\ handled \in Seq(Msgs)
    /\ unblocked \in BOOLEAN /\ freed \in BOOLEAN
    /\ refs \subseteq {"thread", "owner"}
    /\ pc \in {"rcv", "wait", "woken", "proc", "exit", "ended"}
    /\ owner \in {"live", "locked", "unblocked", "gone"}
    /\ inside \subseteq Senders
    /\ sent \in [Threads -> 0..MaxSends]

\* The queue is freed when nobody can touch it any more: the thread is out of its
\* loop, the owner has unblocked it, no sender is inside msg_q_snd.  Thread and owner
\* let go in either order (LocThread.cpp).
QueueAlive ==
    freed => /\ pc = "ended" /\ owner = "gone"
             /\ inside = {}

\* No wake-up is lost: a thread that waits without having been woken has nothing to
\* take and nobody has unblocked it, wherever senders and owner are (msg_q.c).
NoLostWakeUp == pc = "wait" => list = <<>> /\ ~unblocked

\* Every message that was accepted is handled or, when the task is stopped, destroyed
\* with the queue.
AllHandled == \A m \in Msgs :
    (\E i \in DOMAIN list : list[i] = m) ~> (\A i \in DOMAIN list : list[i] # m)

\* Once the owner has begun to stop the task its thread ends and the queue is freed.
StopFrees == owner # "live" ~> freed

\* The queue with its thread, owner and condition is a channel.
Channel == INSTANCE MsgChannel WITH
    pending <- list,
    state <- IF ~unblocked THEN "open"
             ELSE IF pc = "woken" THEN "closing" ELSE "closed"

ImplementsChannel == Channel!Spec
=============================================================================
