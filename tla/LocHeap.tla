------------------------------- MODULE LocHeap -------------------------------
(***************************************************************************)
(* The heap of gps/utils/LocHeap.cpp: a binary tree of nodes, each ranking *)
(* no lower than its children, with the size of its subtree in each node.  *)
(* push sends the new node to the smaller subtree, pop moves data up from  *)
(* the higher ranking child down to a leaf, remove finds a node by the     *)
(* address of its data, skipping subtrees whose top ranks below it.        *)
(***************************************************************************)
EXTENDS Integers, FiniteSets

CONSTANTS
    Items,      \* the rankable objects
    Due         \* Due[i]: the time of a timer; the sooner ranks the higher

ASSUME DueAssumption == Due \in [Items -> Nat]

VARIABLES
    tree,       \* mTree
    last        \* the last call: method, argument and result, {} for NULL

vars == <<tree, last>>

Null == [size |-> 0]
Node(i) == [size |-> 1, data |-> i, left |-> Null, right |-> Null]

outRanks(i, j) == Due[i] < Due[j]

RECURSIVE Contents(_)

Contents(t) ==
    IF t = Null THEN {} ELSE {t.data} \cup Contents(t.left) \cup Contents(t.right)

\* LocHeapNode::push; i is the data of the incoming node, which stays with the
\* higher ranking of the two.
RECURSIVE push(_, _)

push(t, i) ==
    LET keep == IF outRanks(i, t.data) THEN i ELSE t.data
        down == IF outRanks(i, t.data) THEN t.data ELSE i
        u == [t EXCEPT !.data = keep, !.size = @ + 1]
    IN  IF t.left = Null THEN [u EXCEPT !.left = Node(down)]
        ELSE IF t.right = Null THEN [u EXCEPT !.right = Node(down)]
        ELSE IF t.left.size <= t.right.size
             THEN [u EXCEPT !.left = push(@, down)]
             ELSE [u EXCEPT !.right = push(@, down)]

\* LocHeapNode::pop: the tree without the data of its top.
RECURSIVE pop(_)
pop(t) ==
    LET goesUp == IF t.left = Null THEN "right"
                  ELSE IF t.right = Null THEN "left"
                  ELSE IF outRanks(t.left.data, t.right.data) THEN "left"
                  ELSE "right"
    IN  IF t.left = Null /\ t.right = Null THEN Null
        ELSE [t EXCEPT !.size = @ - 1, !.data = t[goesUp].data,
                       ![goesUp] = pop(@)]

\* LocHeapNode::remove: the tree without i, or the same tree if not found.
RECURSIVE remove(_, _)

\* Mutant: nodes below one of equal rank are not looked at.
removeHigher(t, i) ==
    IF t.data = i THEN pop(t)
    ELSE IF ~outRanks(t.data, i) \/ t.left = Null THEN t
    ELSE LET l == remove(t.left, i)
             r == IF l # t.left \/ t.right = Null THEN t.right
                  ELSE remove(t.right, i)
         IN  IF l = t.left /\ r = t.right THEN t
             ELSE [t EXCEPT !.size = @ - 1, !.left = l, !.right = r]

remove(t, i) ==
    IF t.data = i THEN pop(t)
    ELSE IF outRanks(i, t.data) THEN t
    ELSE LET l == IF t.left = Null THEN Null ELSE remove(t.left, i)
             r == IF l # t.left \/ t.right = Null THEN t.right
                  ELSE remove(t.right, i)
         IN  IF l = t.left /\ r = t.right THEN t
             ELSE [t EXCEPT !.size = @ - 1, !.left = l, !.right = r]

-----------------------------------------------------------------------------
(* The methods of LocHeap. *)

Init == tree = Null /\ last = <<"new", {}, {}>>

peek == IF tree = Null THEN {} ELSE {tree.data}

Push(i) ==
    /\ i \notin Contents(tree)
    /\ tree' = IF tree = Null THEN Node(i) ELSE push(tree, i)
    /\ last' = <<"push", {i}, {}>>

Pop ==
    /\ tree' = IF tree = Null THEN Null ELSE pop(tree)
    /\ last' = <<"pop", {}, peek>>

Remove(i) ==
    LET t == IF tree = Null THEN Null ELSE remove(tree, i)
    IN  /\ tree' = t
        /\ last' = <<"remove", {i}, IF t = tree THEN {} ELSE {i}>>

Next ==
    \/ Pop
    \/ \E i \in Items : Push(i) \/ Remove(i)

Spec == Init /\ [][Next]_vars

-----------------------------------------------------------------------------
\* The abstract heap: a set with a highest ranking member on top.
Abstract == INSTANCE RankedSet WITH content <- Contents(tree), top <- peek

\* The tree behaves as the set, for every order of pushes, pops and removes
\* of objects that may rank equally.
ImplementsRankedSet == Abstract!Spec
=============================================================================
