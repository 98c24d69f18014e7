---------------------------------- MODULE Loops -------------------------------
(***************************************************************************)
(* Forwarding among addresses: qmail-local's Delivered-To lines, the       *)
(* senders that lists put in place of the first, and the bounces and       *)
(* double bounces of qmail-send.  A host elsewhere forwards without a line *)
(* of ours.  Copies do not depend on each other, so one is followed: of    *)
(* several that are made, or made again after a crash, any.                *)
(***************************************************************************)
EXTENDS Integers, Sequences, FiniteSets, SequencesExt

CONSTANTS Local, Remote,        \* addresses here, and elsewhere
          OwnerOf,      \* address -> the address of its owner, for those that may have one
          Postmaster,   \* doublebounceto
          Starts,       \* the first copies, with no Delivered-To line
          Forwards      \* the sets of addresses that a .qmail file may name

None == "none"
Nobody == "<>"          \* the sender of a bounce
Double == "#@[]"        \* the sender of a double bounce

VARIABLES file,         \* file[a]: what the .qmail file of a names, or {None} for no file
          copies,       \* the copy on its way, [to, sender, dt], or none
          told          \* the last one that looped

vars == <<file, copies, told>>

Exists(a) == file[a] # {None}

-----------------------------------------------------------------------------
\* NEWSENDER: the owner of a list, for messages that may bounce.
Ueo(m) ==
    IF m.sender \notin {Nobody, Double} /\ m.to \in DOMAIN OwnerOf /\ Exists(OwnerOf[m.to])
    THEN OwnerOf[m.to] ELSE m.sender

\* mailforward(): the Delivered-To line goes before the message.
Mailforward(m, to) == [to |-> to, sender |-> Ueo(m), dt |-> <<m.to>> \o m.dt]

(* Mutant of Looping: the search ends at the first line.                   *)
LoopingNewest(m) == m.dt # <<>> /\ m.dt[1] = m.to

\* bouncexf()
Looping(m) == m.to \in ToSet(m.dt)

\* injectbounce(): a message of its own, with a header of its own.
Bounce(m) ==
    IF m.sender = Double THEN {}
    ELSE IF m.sender = Nobody THEN {[to |-> Postmaster, sender |-> Double, dt |-> <<>>]}
    ELSE {[to |-> m.sender, sender |-> Nobody, dt |-> <<>>]}

Init ==
    /\ file \in [Local -> Forwards \cup {{None}}]
    /\ copies \in {{m} : m \in Starts} /\ told = {}

Delivered(new) == copies' \in IF new = {} THEN {{}} ELSE {{c} : c \in new}

Delivers(m) ==
    /\ m.to \in Local /\ ~Looping(m) /\ Exists(m.to)
    /\ Delivered({Mailforward(m, a) : a \in file[m.to]})
    /\ UNCHANGED <<file, told>>

NoMailbox(m) ==
    /\ m.to \in Local /\ ~Looping(m) /\ ~Exists(m.to)
    /\ Delivered(Bounce(m)) /\ UNCHANGED <<file, told>>

Loops(m) ==
    /\ m.to \in Local /\ Looping(m)
    /\ Delivered(Bounce(m))
    /\ told' = {m}
    /\ UNCHANGED file

\* The other host keeps the header and sends the message back to anyone.
Elsewhere(m) ==
    /\ m.to \in Remote
    /\ \/ \E a \in Local : Delivered({[m EXCEPT !.to = a]})
       \/ Delivered({})
       \/ Delivered(Bounce(m))
    /\ UNCHANGED <<file, told>>

Next == \E m \in copies : Delivers(m) \/ NoMailbox(m) \/ Loops(m) \/ Elsewhere(m)

Spec == Init /\ [][Next]_vars

-----------------------------------------------------------------------------
(* No address is delivered to twice by the same copy of a message.  Its    *)
(* .qmail file may be: addresses share one by defaults and by case.        *)
OncePerAddress == \A m \in copies : IsInjective(m.dt)

\* The addresses that the message passed since it was here before.
Loop(t) == LET n == CHOOSE k \in DOMAIN t.dt : t.dt[k] = t.to IN {t.dt[k] : k \in 1 .. n}

(* If a message loops through lists with owners, the bounce goes to an     *)
(* owner of one of them, unless it was a bounce itself.                    *)
OwnerTold ==
    \A t \in told :
        LET lists == {a \in Loop(t) : a \in DOMAIN OwnerOf /\ Exists(OwnerOf[a])} IN
        lists # {} /\ t.sender \notin {Nobody, Double} => t.sender \in {OwnerOf[a] : a \in lists}
=============================================================================
