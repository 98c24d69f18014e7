------------------------------ MODULE Squareroot ------------------------------
(***************************************************************************)
(* squareroot() of qmail-send, which the retry schedule is made of: one    *)
(* bit of the result in each turn, from the highest one down.  The code    *)
(* has J = 15.                                                             *)
(***************************************************************************)
EXTENDS Integers

CONSTANTS J,        \* the highest bit
          Bit,      \* Bit[j] is 1 << j
          Ages      \* what it is called with

ASSUME SquarerootAssumption ==
    /\ J \in Nat /\ Ages \subseteq Nat
    /\ Bit \in [0 .. J -> Nat] /\ Bit[0] = 1
    /\ \A j \in 1 .. J : Bit[j] = 2 * Bit[j - 1]

VARIABLES x, y, yy, j

vars == <<x, y, yy, j>>

(* Mutant of Taken.                                                        *)
TakenStrictly(a, r, rr, k) == 2 * r * Bit[k] + Bit[k] * Bit[k] < a - rr

\* y21 <= x - yy: (y << (j + 1)) + (1 << (j + j)) is (y + 2^j)^2 - y^2.
Taken(a, r, rr, k) == 2 * r * Bit[k] + Bit[k] * Bit[k] <= a - rr

Init == x \in Ages /\ y = 0 /\ yy = 0 /\ j = J

Turn ==
    /\ j >= 0
    /\ IF Taken(x, y, yy, j)
       THEN y' = y + Bit[j] /\ yy' = yy + 2 * y * Bit[j] + Bit[j] * Bit[j]
       ELSE UNCHANGED <<y, yy>>
    /\ j' = j - 1 /\ UNCHANGED x

Next == Turn

Spec == Init /\ [][Next]_vars

-----------------------------------------------------------------------------
\* The first number whose root has no room in the result.
Limit == 4 * Bit[J] * Bit[J]

(* The comment says result^2 <= x < (result + 1)^2.  The first half holds  *)
(* for every x, the second one below the limit (2^32, 136 years, in the    *)
(* code); from there on the result stays at its greatest value, so a       *)
(* message that old is retried too soon but never before it was tried.     *)
Root ==
    j = -1 => /\ y * y <= x
              /\ x < Limit => x < (y + 1) * (y + 1)
              /\ x >= Limit => y = 2 * Bit[J] - 1

-----------------------------------------------------------------------------
\* What a turn leaves to the lower bits: the root is below y + Room.
Room == IF j = -1 THEN 1 ELSE 2 * Bit[j]

(* The strengthening: yy is the square of y, the root lies between y and   *)
(* y + Room, and an x that is too large has got every bit so far.          *)
Narrowing ==
    /\ x \in Nat /\ y \in Nat /\ yy \in Nat /\ j \in -1 .. J
    /\ yy = y * y /\ yy <= x
    /\ x < Limit => x < (y + Room) * (y + Room)
    /\ x >= Limit => y + Room = 2 * Bit[J]
=============================================================================
