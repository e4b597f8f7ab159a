---------------------------- MODULE MsgTaskProofs ----------------------------
(***************************************************************************)
(* Proofs about MsgTask, for any number of senders and messages.           *)
(***************************************************************************)
EXTENDS MsgTask, TLAPS

\* What ties the thread, the owner, their references and the queue together.
Holds ==
    /\ unblocked <=> owner \in {"unblocked", "gone"}
    /\ pc \in {"exit", "ended"} => unblocked
    /\ "thread" \in refs <=> pc # "ended"
    /\ "owner" \in refs <=> owner \in {"locked", "unblocked"}
    /\ freed <=> refs = {}
    /\ SendersLeave /\ owner # "live" => inside = {}

SendsBounded == \A s \in inside : sent[s] < MaxSends

IInv == TypeOK /\ Holds /\ NoLostWakeUp /\ SendsBounded

\* The empty list is a list of messages.
LEMMA EmptyTyped == <<>> \in Seq(Msgs)
OBVIOUS

\* The inductive invariant holds when the task has been created.
THEOREM InitInv == Init => IInv
<1> SUFFICES ASSUME Init PROVE IInv
  OBVIOUS
<1>1. sent \in [Threads -> 0..MaxSends]
  BY BoundAssumption DEF Init
<1>2. TypeOK
  BY <1>1, EmptyTyped DEF Init, TypeOK
<1>3. QED
  BY <1>2 DEF Init, IInv, Holds, NoLostWakeUp, SendsBounded

\* What msg_q_snd leaves: the types, and no waiter on a queue that is not empty.
LEMMA SndKeeps ==
    ASSUME IInv, NEW m \in Msgs, msg_q_snd(m)
    PROVE  /\ list' \in Seq(Msgs)
           /\ pc' \in {"rcv", "wait", "woken", "proc", "exit", "ended"}
           /\ pc' \in {"exit", "ended"} <=> pc \in {"exit", "ended"}
           /\ pc' = "ended" <=> pc = "ended"
           /\ pc' = "wait" => list' = <<>> /\ ~unblocked'
           /\ unblocked' = unblocked /\ freed' = freed
<1>1. CASE unblocked
  BY <1>1 DEF IInv, TypeOK, NoLostWakeUp, msg_q_snd
<1>2. CASE ~unblocked
  <2>1. Append(list, m) \in Seq(Msgs)
    BY DEF IInv, TypeOK
  <2>2. QED
    BY <1>2, <2>1 DEF IInv, TypeOK, msg_q_snd, linked_list_add, signal
<1>3. QED
  BY <1>1, <1>2

\* Taking a message leaves well typed lists.
LEMMA TakeKeeps ==
    ASSUME IInv, Take
    PROVE  list' \in Seq(Msgs) /\ handled' \in Seq(Msgs)
<1>1. Head(list) \in Msgs /\ Tail(list) \in Seq(Msgs)
  BY DEF IInv, TypeOK, Take
<1>2. QED
  BY <1>1 DEF IInv, TypeOK, Take

\* Every step of a sender, the thread or the owner keeps the inductive invariant.
THEOREM StepInv == IInv /\ [Next]_vars => IInv'
<1> SUFFICES ASSUME IInv, [Next]_vars PROVE IInv'
  OBVIOUS
<1> USE DEF IInv
<1>1. CASE msg_q_rcv
  BY <1>1, TakeKeeps DEF msg_q_rcv, TypeOK, Holds, NoLostWakeUp, SendsBounded,
     Leave, Wait, Take
<1>2. CASE WakeUp
  BY <1>2, TakeKeeps DEF WakeUp, TypeOK, Holds, NoLostWakeUp, SendsBounded,
     Leave, Wait, Take
<1>3. CASE ProcDone
  BY <1>3 DEF ProcDone, queueVars, TypeOK, Holds, NoLostWakeUp, SendsBounded
<1>4. CASE ThreadEnds
  <2>1. list' \in Seq(Msgs)
    BY <1>4, EmptyTyped DEF ThreadEnds, LetGo, TypeOK
  <2>2. Holds'
    BY <1>4 DEF ThreadEnds, LetGo, TypeOK, Holds
  <2>3. QED
    BY <1>4, <2>1, <2>2 DEF ThreadEnds, LetGo, TypeOK, NoLostWakeUp, SendsBounded
<1>5. CASE SpuriousWakeUp
  BY <1>5 DEF SpuriousWakeUp, queueVars, TypeOK, Holds, NoLostWakeUp, SendsBounded
<1>6. CASE SendSelf
  <2>1. <<Self, sent[Self] + 1>> \in Msgs /\ sent' \in [Threads -> 0..MaxSends]
    BY <1>6, BoundAssumption DEF SendSelf, TypeOK, Threads, Msgs
  <2>2. msg_q_snd(<<Self, sent[Self] + 1>>)
    BY <1>6 DEF SendSelf
  <2>3. SendsBounded'
    BY <1>6, SelfAssumption DEF SendSelf, SendsBounded, TypeOK, Threads
  <2>4. QED
    BY <1>6, <2>1, <2>2, <2>3, SndKeeps DEF SendSelf, TypeOK, Holds, NoLostWakeUp
<1>7. CASE Stop
  BY <1>7 DEF Stop, queueVars, TypeOK, Holds, NoLostWakeUp, SendsBounded
<1>8. CASE Interrupt
  BY <1>8 DEF Interrupt, signal, TypeOK, Holds, NoLostWakeUp, SendsBounded
<1>9. CASE OwnerEnds
  <2>1. list' \in Seq(Msgs)
    BY <1>9, EmptyTyped DEF OwnerEnds, LetGo, TypeOK
  <2>2. Holds'
    BY <1>9 DEF OwnerEnds, LetGo, TypeOK, Holds
  <2>3. QED
    BY <1>9, <2>1, <2>2 DEF OwnerEnds, LetGo, TypeOK, NoLostWakeUp, SendsBounded
<1>10. ASSUME NEW s \in Senders, EnterSend(s) PROVE IInv'
  <2>1. SendsBounded'
    BY <1>10 DEF EnterSend, SendsBounded
  <2>2. QED
    BY <1>10, <2>1 DEF EnterSend, queueVars, TypeOK, Holds, NoLostWakeUp
<1>11. ASSUME NEW s \in Senders, Send(s) PROVE IInv'
  <2>1. <<s, sent[s] + 1>> \in Msgs /\ sent' \in [Threads -> 0..MaxSends]
    BY <1>11, BoundAssumption DEF Send, SendsBounded, TypeOK, Threads, Msgs
  <2>2. msg_q_snd(<<s, sent[s] + 1>>)
    BY <1>11 DEF Send
  <2>3. SendsBounded'
    BY <1>11 DEF Send, SendsBounded, TypeOK, Threads
  <2>4. QED
    BY <1>11, <2>1, <2>2, <2>3, SndKeeps DEF Send, TypeOK, Holds, NoLostWakeUp
<1>12. CASE UNCHANGED vars
  BY <1>12 DEF vars, queueVars, TypeOK, Holds, NoLostWakeUp, SendsBounded
<1>13. QED
  BY <1>1, <1>2, <1>3, <1>4, <1>5, <1>6, <1>7, <1>8, <1>9, <1>10, <1>11, <1>12
     DEF Next, ThreadStep, OwnerStep

\* So it holds always.
THEOREM InvAlways == Spec => []IInv
BY InitInv, StepInv, PTL DEF Spec

\* No wake-up is lost, whatever the number of senders and the moment of the stop.
THEOREM NoWakeUpIsLost == Spec => []NoLostWakeUp
<1>1. IInv => NoLostWakeUp
  BY DEF IInv
<1>2. QED
  BY <1>1, InvAlways, PTL

\* The queue outlives everybody who uses it, provided the owner waits for the
\* senders.
THEOREM QueueOutlivesUsers ==
    ASSUME SendersLeave PROVE Spec => []QueueAlive
<1>1. IInv => QueueAlive
  BY DEF IInv, Holds, TypeOK, QueueAlive
<1>2. QED
  BY <1>1, InvAlways, PTL

-----------------------------------------------------------------------------
(* The refinement                                                            *)

\* A new task is an empty, open channel.
LEMMA InitImplements == Init => Channel!Init
BY DEF Init, Channel!Init

\* msg_q_rcv hands out the channel's oldest message.
LEMMA TakeImplements ==
    ASSUME pc \in {"rcv", "woken"}, ~unblocked \/ pc = "woken", Take,
           UNCHANGED unblocked
    PROVE  Channel!Handle
BY DEF Take, Channel!Handle

\* msg_q_snd puts a message into the channel, or refuses it.
LEMMA SndImplements ==
    ASSUME IInv, NEW m \in Msgs, msg_q_snd(m), UNCHANGED handled
    PROVE  Channel!Put(m) \/ UNCHANGED <<list, handled, unblocked, pc>>
BY DEF msg_q_snd, linked_list_add, signal, Channel!Put, IInv, NoLostWakeUp

\* Every step of the task is a step of the channel or leaves it alone.
THEOREM StepImplements ==
    IInv /\ [Next]_vars =>
        [Channel!Next]_<<list, handled,
            IF ~unblocked THEN "open"
            ELSE IF pc = "woken" THEN "closing" ELSE "closed">>
<1> SUFFICES ASSUME IInv, [Next]_vars
             PROVE  \/ Channel!Next
                    \/ UNCHANGED <<list, handled, IF ~unblocked THEN "open"
                            ELSE IF pc = "woken" THEN "closing" ELSE "closed">>
  OBVIOUS
<1> USE DEF IInv
<1>1. CASE msg_q_rcv
  <2>1. CASE unblocked /\ Leave
    BY <1>1, <2>1 DEF msg_q_rcv, Leave
  <2>2. CASE ~unblocked /\ Wait
    BY <1>1, <2>2 DEF msg_q_rcv, Wait
  <2>3. CASE ~unblocked /\ Take
    BY <1>1, <2>3, TakeImplements DEF msg_q_rcv, Channel!Next
  <2>4. QED
    BY <1>1, <2>1, <2>2, <2>3 DEF msg_q_rcv
<1>2. CASE WakeUp
  <2>1. CASE ~unblocked /\ Wait
    BY <1>2, <2>1 DEF WakeUp, Wait
  <2>2. CASE unblocked /\ Leave
    BY <1>2, <2>2 DEF WakeUp, Leave, Channel!Next, Channel!Settle
  <2>3. CASE Take
    BY <1>2, <2>3, TakeImplements DEF WakeUp, Channel!Next
  <2>4. QED
    BY <1>2, <2>1, <2>2, <2>3 DEF WakeUp
<1>3. CASE ProcDone
  BY <1>3 DEF ProcDone, queueVars
<1>4. CASE ThreadEnds
  BY <1>4 DEF ThreadEnds, LetGo, Holds, Channel!Next, Channel!Discard
<1>5. CASE SpuriousWakeUp
  BY <1>5 DEF SpuriousWakeUp, queueVars, NoLostWakeUp
<1>6. CASE SendSelf
  <2>1. <<Self, sent[Self] + 1>> \in Msgs
    BY <1>6, BoundAssumption DEF SendSelf, TypeOK, Threads, Msgs
  <2>2. QED
    BY <1>6, <2>1, SndImplements DEF SendSelf, Channel!Next
<1>7. CASE Stop
  BY <1>7 DEF Stop, queueVars
<1>8. CASE Interrupt
  BY <1>8 DEF Interrupt, signal, Holds, Channel!Next, Channel!Close
<1>9. CASE OwnerEnds
  BY <1>9 DEF OwnerEnds, LetGo, Holds, TypeOK, Channel!Next, Channel!Discard
<1>10. ASSUME NEW s \in Senders, EnterSend(s)
       PROVE UNCHANGED <<list, handled, unblocked, pc>>
  BY <1>10 DEF EnterSend, queueVars
<1>11. ASSUME NEW s \in Senders, Send(s)
       PROVE Channel!Next \/ UNCHANGED <<list, handled, unblocked, pc>>
  <2>1. <<s, sent[s] + 1>> \in Msgs
    BY <1>11, BoundAssumption DEF Send, SendsBounded, TypeOK, Threads, Msgs
  <2>2. QED
    BY <1>11, <2>1, SndImplements DEF Send, Channel!Next
<1>12. CASE UNCHANGED vars
  BY <1>12 DEF vars, queueVars
<1>13. QED
  BY <1>1, <1>2, <1>3, <1>4, <1>5, <1>6, <1>7, <1>8, <1>9, <1>10, <1>11, <1>12
     DEF Next, ThreadStep, OwnerStep

\* The queue, its thread and its owner together behave as a channel that loses and
\* duplicates nothing.
THEOREM TaskIsChannel == Spec => ImplementsChannel
BY InitImplements, StepImplements, InvAlways, PTL
   DEF Spec, ImplementsChannel, Channel!Spec
=============================================================================
