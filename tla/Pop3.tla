--------------------------------- MODULE Pop3 ---------------------------------
(***************************************************************************)
(* A POP3 connection: qmail-popup, which reads a name and a password,      *)
(* checkpassword with qmail-pop3d, and the replies, as a client takes them *)
(* apart.  A line is a pair: its leading dots and what follows.  Maildir   *)
(* has the sessions on one maildir and what they do to it.                 *)
(***************************************************************************)
EXTENDS Integers, Sequences, SequencesExt

CONSTANTS Texts,  \* messages: sequences of lines
          Names   \* names of users, passwords as well

VARIABLES pc,        \* "greet", "auth", "trans", "end"
          seenuser, username,
          upipe,     \* what the subprogram reads from descriptor 3
          said,      \* names that the client gave in USER
          m,         \* messages: [text, flagdeleted, open]
          last,
          cmd, arg,  \* command and argument, of the client
          out        \* the lines of the reply

vars == <<pc, seenuser, username, upipe, said, m, last, cmd, arg, out>>

Empty == <<0, "">>
Dot == <<1, "">>
Ok == <<0, "+OK">>
Err == <<0, "-ERR">>
Item == <<0, "n">>   \* a line of LIST or UIDL

Init ==
    /\ pc = "greet" /\ seenuser = FALSE /\ username = "" /\ upipe = <<>> /\ said = <<>>
    /\ \E t \in Texts : m = <<[text |-> t, flagdeleted |-> FALSE, open |-> TRUE],
                              [text |-> <<>>, flagdeleted |-> FALSE, open |-> FALSE]>>
    /\ last = 0 /\ cmd = "" /\ arg = <<>> /\ out = <<>>

login == <<seenuser, username, upipe, said>>
session == <<m, last>>

\* The client waits for each reply.
Command(c, a) == cmd' = c /\ arg' = a
Reply(lines) == out' = lines

-----------------------------------------------------------------------------
(* qmail-popup.                                                            *)
Greet ==
    /\ pc = "greet" /\ pc' = "auth" /\ Reply(<<Ok>>)
    /\ UNCHANGED <<login, session, cmd, arg>>

Stored(name) == name

User ==
    /\ pc = "auth"
    /\ \/ \E name \in Names :
            /\ Command("user", <<name>>) /\ Reply(<<Ok>>) /\ said' = Append(said, name)
            /\ seenuser' = TRUE /\ username' = Stored(name)
       \/ Command("user", <<>>) /\ Reply(<<Err>>) /\ UNCHANGED <<seenuser, username, said>>
    /\ Len(said') < 3
    /\ UNCHANGED <<pc, upipe, session>>

\* doanddie(): the subprogram may refuse, crash, or become qmail-pop3d.
Doanddie(name, pass) ==
    /\ upipe' = <<name, pass>>
    /\ \/ pc' = "trans" /\ Reply(<<Ok>>)
       \/ pc' = "end" /\ Reply(<<Err>>)
    /\ UNCHANGED <<seenuser, username, said, session>>

Pass ==
    /\ pc = "auth"
    /\ \/ \E pass \in Names : seenuser /\ Command("pass", <<pass>>) /\ Doanddie(username, pass)
       \/ /\ \E a \in {<<>>} \cup {<<n>> : n \in Names} :
               Command("pass", a) /\ (~seenuser \/ a = <<>>)
          /\ Reply(<<Err>>)
          /\ UNCHANGED <<pc, login, session>>

Apop ==
    /\ pc = "auth"
    /\ \/ \E name, pass \in Names : Command("apop", <<name, pass>>) /\ Doanddie(name, pass)
       \/ Command("apop", <<>>) /\ Reply(<<Err>>) /\ UNCHANGED <<pc, login, session>>

OtherAuth ==
    /\ pc = "auth"
    /\ \E c \in {"noop", "quit", "stat"} :
         /\ Command(c, <<>>) /\ Reply(IF c = "stat" THEN <<Err>> ELSE <<Ok>>)
         /\ pc' = IF c = "quit" THEN "end" ELSE pc
    /\ UNCHANGED <<login, session>>

-----------------------------------------------------------------------------
(* qmail-pop3d.  A number is 0 when there is none.                         *)
Msgno(n) == n \in 1 .. Len(m) /\ ~m[n].flagdeleted

Stuffed(line) == IF line[1] > 0 THEN <<line[1] + 1, line[2]>> ELSE line

\* One line in the loop of blast().
Put(a, line) ==
    LET limit == IF a.limit = 0 \/ a.inheaders THEN a.limit ELSE a.limit - 1
        stop == a.stop \/ (a.limit = 1 /\ ~a.inheaders) IN
    IF stop THEN [a EXCEPT !.stop = TRUE]
    ELSE [a EXCEPT !.limit = limit, !.inheaders = @ /\ line # Empty,
                   !.out = Append(@, Stuffed(line))]

Blast(text, limit) ==
    FoldLeft(Put, [limit |-> limit, inheaders |-> TRUE, stop |-> FALSE, out |-> <<>>], text).out
    \o <<Empty, Dot>>

Stays == UNCHANGED <<pc, login, session>>

\* TOP with a number of lines, RETR and TOP without.
Top ==
    /\ pc = "trans"
    /\ \E c \in {"retr", "top"}, n \in 0 .. 3, lines \in {<<>>, <<0>>, <<1>>, <<2>>} :
         /\ c = "retr" => lines = <<>>
         /\ Command(c, <<n>> \o lines)
         /\ Reply(IF ~Msgno(n) \/ ~m[n].open THEN <<Err>>
                  ELSE <<Ok>> \o Blast(m[n].text, IF lines = <<>> THEN 0 ELSE lines[1] + 1))
    /\ Stays

\* LIST, UIDL.
Dolisting ==
    /\ pc = "trans"
    /\ \E n \in 0 .. 3 :
         \/ Command("list1", <<n>>) /\ Reply(<<IF Msgno(n) THEN Ok ELSE Err>>)
         \/ /\ Command("list", <<>>)
            /\ Reply(<<Ok>> \o [k \in 1 .. Len(SelectSeq(m, LAMBDA e : ~e.flagdeleted)) |-> Item] \o <<Dot>>)
    /\ Stays

Dele ==
    /\ pc = "trans"
    /\ \E n \in 0 .. 3 :
         /\ Command("dele", <<n>>) /\ Reply(<<IF Msgno(n) THEN Ok ELSE Err>>)
         /\ m' = [k \in DOMAIN m |-> IF k = n /\ Msgno(n) THEN [m[k] EXCEPT !.flagdeleted = TRUE] ELSE m[k]]
         /\ last' = IF Msgno(n) /\ n > last THEN n ELSE last
    /\ UNCHANGED <<pc, login>>

Rset ==
    /\ pc = "trans" /\ Command("rset", <<>>) /\ Reply(<<Ok>>)
    /\ m' = [k \in DOMAIN m |-> [m[k] EXCEPT !.flagdeleted = FALSE]] /\ last' = 0
    /\ UNCHANGED <<pc, login>>

\* STAT, LAST, NOOP; anything else.
OtherTrans ==
    /\ pc = "trans"
    /\ \E c \in {"stat", "last", "noop", "user"} :
         Command(c, <<>>) /\ Reply(<<IF c = "user" THEN Err ELSE Ok>>)
    /\ Stays

\* An error for a file that cannot be removed, and then the reply as such.
Quit ==
    /\ pc = "trans" /\ Command("quit", <<>>) /\ pc' = "end"
    /\ \E k \in 0 .. Len(m) :
         /\ k <= Len(SelectSeq(m, LAMBDA e : e.flagdeleted))
         /\ Reply([j \in 1 .. k |-> Err] \o <<Ok>>)
    /\ UNCHANGED <<login, session>>

\* The client goes away; qmail-pop3d waits for 1200 seconds.
Ends == pc # "end" /\ pc' = "end" /\ out' = <<>> /\ UNCHANGED <<login, session, cmd, arg>>

Next == \/ Greet \/ User \/ Pass \/ Apop \/ OtherAuth
        \/ Top \/ Dolisting \/ Dele \/ Rset \/ OtherTrans \/ Quit \/ Ends

Spec == Init /\ [][Next]_vars

-----------------------------------------------------------------------------
\* How a client reads what follows +OK: up to a line that is a dot.
Multi == out # <<>> /\ cmd \in {"retr", "top", "list"} /\ Head(out) = Ok
Body == SubSeq(out, 2, Len(out) - 1)
Unstuffed == [k \in DOMAIN Body |-> IF Body[k][1] > 0 THEN <<Body[k][1] - 1, Body[k][2]>> ELSE Body[k]]

(* A client that waits for its replies stays in step: the first line that  *)
(* is a lone dot is the last one of a reply with lines, whatever the       *)
(* message has in it, and the other replies are one line (but for QUIT).   *)
InStep ==
    out # <<>> /\ cmd # "quit" =>
        IF Multi THEN SelectInSeq(out, LAMBDA l : l = Dot) = Len(out) ELSE Len(out) = 1

(* What the client has after RETR is the message and one blank line more   *)
(* (qmail-pop3d.8); after TOP it is the header, the blank line, and the    *)
(* lines of the body he asked for, with the same blank line.               *)
TextTrue ==
    Multi /\ cmd # "list" /\ pc = "trans" =>
        LET text == m[arg[1]].text
            h == SelectInSeq(text, LAMBDA l : l = Empty) IN
        Unstuffed = Append(
            FlattenSeq([k \in 1 .. Len(text) |->
                         IF Len(arg) = 1 \/ h = 0 \/ k <= h + arg[2] THEN <<text[k]>> ELSE <<>>]),
            Empty)

(* A session begins only after the subprogram was asked about a name and   *)
(* password that the client gave together: with APOP, or with PASS after   *)
(* the last of his USERs.                                                  *)
SessionOfClient ==
    pc = "auth" /\ pc' = "trans" =>
         upipe' = IF cmd' = "apop" THEN arg' ELSE <<Last(said), arg'[1]>>
=============================================================================
