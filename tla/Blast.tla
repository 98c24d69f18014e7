-------------------------------- MODULE Blast --------------------------------
(***************************************************************************)
(* A message on its way through SMTP: blast() of qmail-remote puts it on   *)
(* the wire, blast() and put() of qmail-smtpd take it off, count its hops  *)
(* and its bytes.  The client is qmail-remote or some other one that sends *)
(* whatever it likes.  Letters stand for the bytes the two programs tell   *)
(* apart; the two field names are shorter than in the code.                *)
(***************************************************************************)
EXTENDS Integers, Sequences, FiniteSets, SequencesExt

CONSTANTS Bytes,      \* what messages are made of
          Clients,    \* "remote", "any"
          MaxMsg,     \* bytes in a message
          Databytes,  \* control/databytes, 0 for no limit
          Received, Delivered   \* the fields that count as hops

CR == "cr"
LF == "lf"
DOT == "."

VARIABLES client,
          msg,   \* what qmail-remote has read, or the other client has sent
          mode,  \* where qmail-remote stands in a line, or how it has ended
          wire,  \* bytes on their way
          srv    \* qmail-smtpd

vars == <<client, msg, mode, wire, srv>>

Init == /\ client \in Clients
        /\ msg = <<>> /\ mode = "bol" /\ wire = <<>>
        /\ srv = [state |-> 1, inheader |-> TRUE, line |-> <<>>, hops |-> 0,
                  tooverflow |-> IF Databytes = 0 THEN 0 ELSE Databytes + 1,
                  failed |-> FALSE, stored |-> <<>>]

-----------------------------------------------------------------------------
(* blast() of qmail-remote: the bytes for one byte of the message, and     *)
(* where they leave it: at the beginning of a line, in it, or after CR.    *)
Inner(ch) == IF ch = LF THEN [mode |-> "bol", out |-> <<CR, LF>>]
             ELSE IF ch = CR THEN [mode |-> "cr", out |-> <<>>]
             ELSE [mode |-> "in", out |-> <<ch>>]

(* Mutant of Encode: dots are not doubled.                                 *)
EncodeUndoubled(m, ch) ==
    IF m # "cr" THEN Inner(ch)
    ELSE IF ch = LF THEN [mode |-> "bol", out |-> <<CR, LF>>]
    ELSE [mode |-> "in", out |-> <<CR, LF, ch>>]

Encode(m, ch) ==
    CASE m = "bol" -> [Inner(ch) EXCEPT !.out =
                          IF ch = DOT THEN <<DOT>> \o @ ELSE @]
      [] m = "in"  -> Inner(ch)
      [] m = "cr"  -> IF ch = LF THEN [mode |-> "bol", out |-> <<CR, LF>>]
                      ELSE [mode |-> "in", out |-> <<CR, LF, ch>>]

Send ==
    /\ client = "remote" /\ mode \in {"bol", "in", "cr"} /\ Len(msg) < MaxMsg
    /\ \E ch \in Bytes :
         /\ msg' = Append(msg, ch)
         /\ mode' = Encode(mode, ch).mode
         /\ wire' = wire \o Encode(mode, ch).out
    /\ UNCHANGED <<client, srv>>

\* End of the file: a line that does not end is not sent, unless with a CR.
SendEnd ==
    /\ client = "remote" /\ mode \in {"bol", "in", "cr"}
    /\ mode' = IF mode = "in" THEN "partial" ELSE "sent"
    /\ wire' = wire \o CASE mode = "in"  -> <<>>
                         [] mode = "bol" -> <<DOT, CR, LF>>
                         [] mode = "cr"  -> <<CR, LF, DOT, CR, LF>>
    /\ UNCHANGED <<client, msg, srv>>

SendAny ==
    /\ client = "any" /\ Len(msg) < MaxMsg
    /\ \E ch \in Bytes : msg' = Append(msg, ch) /\ wire' = Append(wire, ch)
    /\ UNCHANGED <<client, mode, srv>>

-----------------------------------------------------------------------------
(* put(): the limit is passed with byte Databytes + 1.                     *)

Overflows(left) == left = 1

Put(s, ch) == [s EXCEPT !.tooverflow = IF @ > 0 THEN @ - 1 ELSE 0,
                        !.failed = @ \/ Overflows(s.tooverflow),
                        !.stored = Append(@, ch)]

\* The first bytes of the line take the place of pos and the three flags.
Header(s, ch) ==
    IF ~s.inheader THEN s
    ELSE LET line == IF Len(s.line) < Len(Delivered)
                     THEN Append(s.line, ch) ELSE Append(s.line, LF) IN
         [s EXCEPT !.hops = IF line \in {Received, Delivered} THEN @ + 1 ELSE @,
                   !.inheader = line # <<CR, LF>>,
                   !.line = IF ch = LF THEN <<>>
                            ELSE IF Len(@) < Len(Delivered) THEN line ELSE @]

To(s, state) == [s EXCEPT !.state = state]

\* The switch of blast(); state 5 is its end, and -1 a stray newline.
Decode(s, ch) ==
    CASE s.state = 0 /\ ch = CR -> To(s, 4)
      [] s.state = 1 /\ ch = DOT -> To(s, 2)
      [] s.state = 1 /\ ch = CR -> To(s, 4)
      [] s.state = 2 /\ ch = CR -> To(s, 3)
      [] s.state < 3 /\ ch = LF -> To(s, -1)
      [] s.state < 3 /\ ch \notin {LF, CR} -> To(Put(s, ch), 0)
      [] s.state = 3 /\ ch = LF -> To(s, 5)
      [] s.state = 3 /\ ch = CR -> To(Put(Put(s, DOT), CR), 4)
      [] s.state = 3 /\ ch \notin {LF, CR} ->
             To(Put(Put(Put(s, DOT), CR), ch), 0)
      [] s.state = 4 /\ ch = LF -> To(Put(s, LF), 1)
      [] s.state = 4 /\ ch = CR -> Put(s, CR)
      [] s.state = 4 /\ ch \notin {LF, CR} -> To(Put(Put(s, CR), ch), 0)

Receive ==
    /\ wire # <<>> /\ srv.state \in 0 .. 4
    /\ srv' = Decode(Header(srv, Head(wire)), Head(wire))
    /\ wire' = Tail(wire)
    /\ UNCHANGED <<client, msg, mode>>

Next == Send \/ SendEnd \/ SendAny \/ Receive

Spec == Init /\ [][Next]_vars

-----------------------------------------------------------------------------
\* The CRs that belong to the end of a line: those before LF, and by the rule
\* of the tests (tests/unittest_qmail-remote.c) one that stands alone.  Right
\* after such a one a CR is a byte like others.
Ending(m) ==
    LET ends[k \in 0 .. Len(m)] == k > 0 /\ m[k] = CR /\ ~ends[k - 1] IN ends

\* Lines of a message, with the convention of UNIX.
Unix(m) ==
    FlattenSeq([k \in 1 .. Len(m) |->
        IF Ending(m)[k] THEN IF k < Len(m) /\ m[k + 1] = LF THEN <<>> ELSE <<LF>>
        ELSE <<m[k]>>])

\* A dot at the beginning of a line that follows a CR without LF.
BareDot(m) == \E k \in 1 .. Len(m) - 1 : Ending(m)[k] /\ m[k + 1] = DOT

Arrived == mode = "sent" /\ wire = <<>>

(* A message that qmail-remote has sent to its end is stored by            *)
(* qmail-smtpd line for line: dots at the beginning of a line, empty       *)
(* lines and CRs of all kinds included, and the dialogue goes on right     *)
(* after it.  The exception is a message with a BareDot: blast() does not  *)
(* double this dot (qmail-remote.c:198), so that it is lost, or ends the   *)
(* message, and what follows is taken for commands.  Nothing is said of    *)
(* what is stored then, only that no stray newline is sent.                *)
Transparent ==
    /\ mode = "sent" /\ srv.state = 5 /\ ~BareDot(msg)
         => wire = <<>> /\ srv.stored = Unix(msg)
    /\ Arrived => srv.state = 5
    /\ client = "remote" => srv.state # -1

(* The limit of control/databytes is exact, and counts bytes as they are   *)
(* stored (qmail-smtpd.8:68): neither dots nor CRs that are taken off.     *)
SizeExact == srv.failed <=> Databytes > 0 /\ Len(srv.stored) > Databytes

(* However a message without dots is sent, its hops are the lines of the   *)
(* stored header that start with one of the two names, and no line of the  *)
(* body.  (The names are looked for before dots are taken off.)            *)
HopsRight ==
    srv.state \in {0, 1, 5} =>
        srv.hops = Cardinality({k \in 1 .. Len(srv.stored) :
            /\ k = 1 \/ srv.stored[k - 1] = LF
            /\ \E n \in {Received, Delivered} :
                 IsPrefix(n, SubSeq(srv.stored, k, Len(srv.stored)))
            /\ ~\E e \in 1 .. k - 1 : /\ srv.stored[e] = LF
                                      /\ e = 1 \/ srv.stored[e - 1] = LF})
=============================================================================
