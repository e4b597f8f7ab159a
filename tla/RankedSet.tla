------------------------------ MODULE RankedSet ------------------------------
(***************************************************************************)
(* What the users of LocHeap rely on: a set of objects, of which one that  *)
(* no other outranks is on top.  The top changes only when a higher        *)
(* ranking object comes or the top itself goes.                            *)
(***************************************************************************)
EXTENDS Integers

CONSTANTS Items, Due

VARIABLES
    content,    \* the set
    top,        \* the object on top, as a set
    last        \* the last call: method, argument and result

Soonest(S) == {i \in S : \A j \in S : Due[i] <= Due[j]}

Init == content = {} /\ top = {} /\ last = <<"new", {}, {}>>

Push(i) ==
    /\ i \notin content
    /\ content' = content \cup {i}
    /\ top' = IF \A j \in top : Due[i] < Due[j] THEN {i} ELSE top
    /\ last' = <<"push", {i}, {}>>

\* Without i; the top stays unless it is i.
Take(i) ==
    /\ content' = content \ {i}
    /\ IF i \notin top THEN top' = top
       ELSE IF content = {i} THEN top' = {}
       ELSE \E j \in Soonest(content \ {i}) : top' = {j}

Pop ==
    /\ last' = <<"pop", {}, top>>
    /\ \/ \E i \in top : Take(i)
       \/ top = {} /\ UNCHANGED <<content, top>>

Remove(i) ==
    /\ last' = <<"remove", {i}, content \cap {i}>>
    /\ \/ i \in content /\ Take(i)
       \/ i \notin content /\ UNCHANGED <<content, top>>

Next == Pop \/ \E i \in Items : Push(i) \/ Remove(i)

Spec == Init /\ [][Next]_<<content, top, last>>

\* peek and pop give an object that no other outranks, whatever has been pushed
\* and removed in between; they give none only when there is none.
TopIsSoonest ==
    /\ top \subseteq Soonest(content)
    /\ top = {} <=> content = {}
=============================================================================
