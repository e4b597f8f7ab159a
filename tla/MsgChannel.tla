------------------------------ MODULE MsgChannel ------------------------------
(***************************************************************************)
(* What the users of a MsgTask rely on: messages are handled one by one in *)
(* the order in which they were sent, none twice and, as long as the task  *)
(* is not stopped, none is lost.  When the task is stopped at most one     *)
(* message is still handled; the others are discarded.                     *)
(***************************************************************************)
EXTENDS Sequences

CONSTANT Msgs

VARIABLES
    pending,    \* sent and not handled
    handled,    \* handled, in order
    state       \* "open", "closing": one may still be handled, "closed"

Init == pending = <<>> /\ handled = <<>> /\ state = "open"

Put(m) ==
    /\ state = "open"
    /\ pending' = Append(pending, m)
    /\ UNCHANGED <<handled, state>>

Handle ==
    /\ state # "closed" /\ pending # <<>>
    /\ handled' = Append(handled, Head(pending))
    /\ pending' = Tail(pending)
    /\ state' = IF state = "open" THEN "open" ELSE "closed"

Close == /\ state = "open" /\ state' \in {"closing", "closed"}
         /\ UNCHANGED <<pending, handled>>

Settle == /\ state = "closing" /\ state' = "closed"
          /\ UNCHANGED <<pending, handled>>

Discard == /\ state = "closed" /\ pending' = <<>>
           /\ UNCHANGED <<handled, state>>

Next == Handle \/ Close \/ Settle \/ Discard \/ \E m \in Msgs : Put(m)

Spec == Init /\ [][Next]_<<pending, handled, state>>
=============================================================================
