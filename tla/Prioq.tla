-------------------------------- MODULE Prioq ---------------------------------
(***************************************************************************)
(* The priority queue of qmail-send and of the maildir readers: a heap in  *)
(* an array.  QmailSend has a bag in its place.                            *)
(***************************************************************************)
EXTENDS Integers, Sequences

CONSTANTS Times, MaxLen

VARIABLES p,    \* the array, from 0; an element is <<dt, id>>
          len,  \* what is behind it stays in the array
          bag   \* what has been inserted and not been removed

vars == <<p, len, bag>>

Indices == 0 .. MaxLen - 1
None == <<0, 0>>

Init == p = [i \in Indices |-> None] /\ len = 0 /\ bag = {}

\* The elements on a path move up by one, and pe comes last.
Along(path, pe) ==
    [i \in Indices |->
        IF \E k \in DOMAIN path : path[k] = i
        THEN LET k == CHOOSE k \in DOMAIN path : path[k] = i IN
             IF k = Len(path) THEN pe ELSE p[path[k + 1]]
        ELSE p[i]]

Parent(j) == (j - 1) \div 2

\* prioq_insert(): from the end up to the place of dt.
Rise(dt) ==
    LET path[j \in Indices] ==
            IF j = 0 \/ p[Parent(j)][1] <= dt THEN <<j>> ELSE <<j>> \o path[Parent(j)] IN
    path[len]

Insert ==
    /\ len < MaxLen
    /\ \E dt \in Times :
         LET pe == <<dt, CHOOSE id \in 1 .. MaxLen : \A e \in bag : e[2] # id>> IN
         p' = Along(Rise(dt), pe) /\ bag' = bag \cup {pe}
    /\ len' = len + 1

\* The lesser one of two children; element n is the one to be moved.
Child(i, n) ==
    LET j == i + i + 2 IN
    IF j > n THEN -1 ELSE IF p[j - 1][1] <= p[j][1] THEN j - 1 ELSE j

\* prioq_delmin(): from the top down.
Fall(n) ==
    LET path[i \in Indices] ==
            LET j == Child(i, n) IN
            IF j = -1 \/ p[n][1] <= p[j][1] THEN <<i>> ELSE <<i>> \o path[j] IN
    path[0]

Delmin ==
    /\ len > 0
    /\ p' = Along(Fall(len - 1), p[len - 1])
    /\ bag' = bag \ {p[0]} /\ len' = len - 1

\* pqrun(), as for qmail-send: all elements are due.
Pqrun ==
    /\ \E recent \in Times :
         /\ p' = [i \in Indices |-> IF i < len THEN <<recent, p[i][2]>> ELSE p[i]]
         /\ bag' = {<<recent, e[2]>> : e \in bag}
    /\ UNCHANGED len

Next == Insert \/ Delmin \/ Pqrun

Spec == Init /\ [][Next]_vars

-----------------------------------------------------------------------------
(* The heap has exactly what was inserted and not removed, each once, and  *)
(* prioq_min() returns one that comes first, after any history of inserts, *)
(* removals and pqrun(), with times that are equal.                        *)
HeapIsBag ==
    /\ {p[i] : i \in 0 .. len - 1} = bag
    /\ \A i, j \in 0 .. len - 1 : p[i] = p[j] => i = j
    /\ \A e \in bag : p[0][1] <= e[1]
=============================================================================
