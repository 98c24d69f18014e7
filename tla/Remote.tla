------------------------------- MODULE Remote -------------------------------
(***************************************************************************)
(* qmail-remote: smtp() on one connection, and the report it prints for    *)
(* qmail-rspawn; at the other end qmail-smtpd and the queue of its host.   *)
(* The connection may break.  Blast has the bytes that blast() sends.      *)
(* After the properties comes the argument for them, for any recipients.   *)
(***************************************************************************)
EXTENDS Integers, Sequences, FiniteSets, SequencesExt, TLAPS

CONSTANTS From,      \* the sender
          To,        \* the recipients, a sequence
          Allowed,   \* recipients that the other host accepts
          QqCrashes  \* its qmail-queue may crash after it took the message

VARIABLES up, c2s, s2c,  \* the connection, as in Smtpd
          rem,           \* where qmail-remote stands
          report,        \* its output: letters; "Zdup" warns of a duplicate
          ssout, sess, log, queued    \* the other host, as in Smtpd

NUL == "nul"
Say(verb, arg) == [verb |-> verb, arg |-> arg]
NoArg == "none"

RemoteInit ==
    /\ rem = [pc |-> "connect", i |-> 1, bother |-> FALSE, critical |-> FALSE, code |-> 0]
    /\ report = <<>>

-----------------------------------------------------------------------------
(* The ends, after the output of the step so far.                          *)
Die(sofar, letter) ==
    /\ report' = report \o sofar \o <<letter, NUL>>
    /\ rem' = [rem EXCEPT !.pc = "done"]
    /\ up' = FALSE

Dropped(sofar, critical) == Die(sofar, IF critical THEN "Zdup" ELSE "Z")

\* safewrite(): when the connection is gone, writing fails or goes nowhere.
Send(sofar, lines, next) ==
    \/ /\ rem' = next /\ report' = report \o sofar
       /\ c2s' = IF up THEN c2s \o lines ELSE c2s
       /\ UNCHANGED up
    \/ ~up /\ Dropped(sofar, next.critical) /\ UNCHANGED c2s

\* quit(): QUIT first, then the report.
Quit(sofar, letter) ==
    \/ Die(sofar, letter) /\ c2s' = IF up THEN Append(c2s, Say("quit", NoArg)) ELSE c2s
    \/ ~up /\ Dropped(sofar, FALSE) /\ UNCHANGED c2s

-----------------------------------------------------------------------------
(* main() up to smtp(): no such host, no control files, no connection.     *)
Connect == /\ rem.pc = "connect"
           /\ rem' = [rem EXCEPT !.pc = "greeting"] /\ up' = TRUE
           /\ UNCHANGED <<c2s, s2c, report>>

NoConnection == /\ rem.pc = "connect"
                /\ \E letter \in {"Z", "D"} : Die(<<>>, letter)
                /\ UNCHANGED <<c2s, s2c>>

(* smtpcode().                                                             *)
Code == Head(s2c)
Got(pc) == [rem EXCEPT !.pc = pc, !.code = Code]
Await(pc) == rem.pc = pc /\ s2c # <<>> /\ s2c' = Tail(s2c)
Waits == rem.pc \in {"greeting", "helo", "mail", "rcpt", "data", "final"} /\ s2c = <<>>

ReadEof == Waits /\ ~up /\ Dropped(<<>>, rem.critical) /\ UNCHANGED <<c2s, s2c>>
ReadTimeout == Waits /\ up /\ Dropped(<<>>, rem.critical) /\ UNCHANGED <<c2s, s2c>>

Class(code) == IF code >= 500 THEN "D" ELSE IF code >= 400 THEN "Z" ELSE "K"

-----------------------------------------------------------------------------
(* smtp().                                                                 *)
Greeting ==
    /\ Await("greeting")
    /\ IF Code = 220 THEN Send(<<>>, <<Say("helo", NoArg)>>, Got("helo")) ELSE Quit(<<>>, "Z")

Helo ==
    /\ Await("helo")
    /\ IF Code = 250 THEN Send(<<>>, <<Say("mail", From)>>, Got("mail")) ELSE Quit(<<>>, "Z")

Mail ==
    /\ Await("mail")
    /\ IF Class(Code) = "K" THEN Send(<<>>, <<Say("rcpt", To[1])>>, Got("rcpt"))
       ELSE Quit(<<>>, Class(Code))

Recipient(code) == [D |-> "h", Z |-> "s", K |-> "r"][Class(code)]

Rcpt ==
    /\ Await("rcpt")
    /\ LET sofar == <<Recipient(Code), NUL>>
           bother == rem.bother \/ Recipient(Code) = "r"
           next(pc) == [Got(pc) EXCEPT !.i = @ + 1, !.bother = bother] IN
       IF rem.i < Len(To) THEN Send(sofar, <<Say("rcpt", To[rem.i + 1])>>, next("rcpt"))
       ELSE IF bother THEN Send(sofar, <<Say("data", NoArg)>>, next("data"))
       ELSE Quit(sofar, "D")

Data ==
    /\ Await("data")
    /\ IF Class(Code) = "K" THEN UNCHANGED <<up, c2s, report>> /\ rem' = Got("blast")
       ELSE Quit(<<>>, Class(Code))

\* blast(), to the last line.
BlastText == rem.pc = "blast" /\ UNCHANGED s2c
             /\ Send(<<>>, <<Say("text", NoArg)>>, [rem EXCEPT !.pc = "dot"])

\* temp_read(), perm_partialline(), a write that times out.
BlastFails == /\ rem.pc \in {"blast", "dot"}
              /\ \E letter \in {"Z", "D"} : Die(<<>>, letter)
              /\ UNCHANGED <<c2s, s2c>>

(* Mutant of Dot: flagcritical is set when the dot has been sent.          *)
DotLate == [rem EXCEPT !.pc = "final"]

Dot == [rem EXCEPT !.pc = "final", !.critical = TRUE]

BlastDot == rem.pc = "dot" /\ UNCHANGED s2c /\ Send(<<>>, <<Say("dot", NoArg)>>, Dot)

Final == /\ Await("final")
         /\ rem' = [Got("verdict") EXCEPT !.critical = FALSE]
         /\ UNCHANGED <<up, c2s, report>>

Verdict == rem.pc = "verdict" /\ Quit(<<>>, Class(rem.code)) /\ UNCHANGED s2c

Client == Connect \/ ReadEof \/ Greeting \/ Helo \/ Mail \/ Rcpt \/ Data
          \/ BlastText \/ BlastDot \/ Final \/ Verdict
ClientFails == NoConnection \/ ReadTimeout \/ BlastFails

-----------------------------------------------------------------------------
(* The other end: qmail-smtpd and the queue of its host.                   *)
vars == <<up, c2s, s2c, rem, report, ssout, sess, log, queued>>

Smtpd == INSTANCE Smtpd WITH
    Senders <- {From}, Recips <- ToSet(To), Badmailfrom <- {}, Rcpthosts <- Allowed,
    Relayclient <- FALSE, Verbs <- {}, Ahead <- 0, MaxCommands <- 0, MaxMessages <- 1

\* qmail-rspawn sees the letter, not the warning.
Output == [k \in 1 .. Len(report) |-> IF report[k] = "Zdup" THEN "Z" ELSE report[k]]

Rspawn == INSTANCE SpawnReport WITH
    MaxOut <- 0, LocalCodes <- {0, 100, 111},
    agent <- "remote", pc <- "agent", out <- Output, wstat <- 0, uid <- 0

Init == RemoteInit /\ Smtpd!ServerInit /\ up = FALSE /\ c2s = <<>> /\ s2c = <<>>

ClientSteps == Client /\ UNCHANGED <<ssout, sess, log, queued>>

ServerSteps == /\ rem.pc # "connect"
               /\ Smtpd!Server \/ Smtpd!DieRead
               /\ UNCHANGED <<rem, report>>

Faults ==
    \/ ClientFails /\ UNCHANGED <<ssout, sess, log, queued>>
    \/ (Smtpd!Dies \/ Smtpd!Breaks) /\ rem.pc # "connect" /\ UNCHANGED <<rem, report>>

Next == ClientSteps \/ ServerSteps \/ Faults

Spec == Init /\ [][Next]_vars

-----------------------------------------------------------------------------
Done == rem.pc = "done"

\* The letter about recipient i, and the message report.
About(i) == report[2 * i - 1]
Result == report[Len(report) - 1]
Taken(i) == \E k \in 1 .. Len(queued) : To[i] \in ToSet(queued[k].to)

\* to has those of the first k recipients, by their numbers, in their order.
Listed(to, k, those) ==
    \E at \in [1 .. Len(to) -> 1 .. k] :
        /\ \A j, m \in 1 .. Len(to) : j < m => at[j] < at[m]
        /\ \A j \in 1 .. Len(to) : to[j] = To[at[j]]
        /\ \A i \in 1 .. k : i \in those <=> \E j \in 1 .. Len(to) : at[j] = i

(* When qmail-remote prints K, the other host has the message once, with   *)
(* this sender and exactly the recipients reported with r, in their order  *)
(* (smtp(), quit(); smtp_rcpt(), smtp_data()).                             *)
AcceptedIsThere ==
    Done /\ Result = "K" =>
        /\ Len(report) = 2 * Len(To) + 2
        /\ Len(queued) = 1 /\ queued[1].from = From
        /\ Listed(queued[1].to, Len(To), {i \in 1 .. Len(To) : About(i) = "r"})

(* A recipient that is reported to fail for good has not been taken: a     *)
(* bounce never goes out for a message that is delivered too.              *)
RefusedIsNotThere ==
    Done => /\ Result = "D" => queued = <<>>
            /\ \A i \in 1 .. Len(To) :
                 2 * i < Len(report) /\ About(i) = "h" => ~Taken(i)

(* Without the answer to the dot, the report of a message that may have    *)
(* been taken warns of a duplicate (flagcritical).                         *)
WarnsUnanswered ==
    Done /\ ~QqCrashes /\ Result = "Z" /\ rem.code # 250 => queued = <<>>

(* For qmail-rspawn, which gives one recipient: success is reported for a  *)
(* recipient that was taken and failure for one that was not (report()).   *)
VerdictTrue ==
    Done /\ Len(To) = 1 =>
        LET v == Rspawn!RemoteReport(0, Output).letter IN
        /\ v = "K" => Taken(1)
        /\ v = "D" => ~Taken(1)
-----------------------------------------------------------------------------
(* Why: client and server go in step.  One request or one answer is on its *)
(* way, until the connection breaks; from there on the server may go one   *)
(* step further than the client hears of, or be dead after an answer for   *)
(* now that nobody asked for.                                              *)

\* There is a recipient; qmail-remote is called with one at least.
RemoteConstants == To # <<>> /\ To \in Seq(ToSet(To)) /\ QqCrashes \in BOOLEAN

Addresses == ToSet(To) \cup {From, NoArg}
Ok(a) == a \in Allowed /\ a # NoArg
Accepted == {a \in Addresses : Ok(a)}
OkOnes == {i \in 1 .. Len(To) : Ok(To[i])}
Lines == [verb : {"none", "helo", "mail", "rcpt", "data", "text", "dot", "quit"}, arg : Addresses]
Letters == {"r", "s", "h", "K", "Z", "D", "Zdup", NUL}
Asking == {"greeting", "helo", "mail", "rcpt", "data"}
Sessions == [pc : {"commands", "fun", "blast", "close", "exit"}, cmd : Lines, seenmail : BOOLEAN,
             flagbarf : BOOLEAN, mailfrom : Addresses, rcptto : Seq(Accepted)]
Clients == [pc : Asking \cup {"connect", "blast", "dot", "final", "verdict", "done"},
            i : 1 .. Len(To) + 1, bother : BOOLEAN, critical : BOOLEAN, code : Nat]

Empty(s) == Len(s) = 0
Only(s, x) == Len(s) = 1 /\ s[1] = x

\* Recipients are taken only if they are allowed.
ServerTypes ==
    /\ up \in BOOLEAN /\ c2s \in Seq(Lines) /\ s2c \in Seq(Nat) /\ ssout \in Seq(Nat)
    /\ sess \in Sessions /\ ~sess.flagbarf /\ queued \in Seq([from : Addresses, to : Seq(Accepted)])
ClientTypes == rem \in Clients /\ report \in Seq(Letters)

\* 421 and 451 come uninvited.
Neutral(code) == code \in 400 .. 499

Envelope(k) == sess.mailfrom = From /\ Listed(sess.rcptto, k, OkOnes)
Handled(k) == sess.seenmail /\ Envelope(k)
Message == /\ Len(queued) = 1 /\ queued[1].from = From
           /\ Listed(queued[1].to, Len(To), OkOnes)
Answer(code) ==
    IF code < 400 THEN code = 250 /\ Message
    ELSE Empty(queued) \/ (Neutral(code) /\ QqCrashes /\ Message)

Request ==
    CASE rem.pc = "mail" -> Say("mail", From)
      [] rem.pc = "rcpt" -> Say("rcpt", To[rem.i])
      [] OTHER -> Say(rem.pc, NoArg)

\* What the server knows before it handles the request, and after it.
Before == /\ rem.pc = "rcpt" => Handled(rem.i - 1)
          /\ rem.pc = "data" => Handled(Len(To))
Right(code) ==
    /\ rem.pc = "rcpt" => IF code < 400 THEN Ok(To[rem.i])
                          ELSE Neutral(code) \/ ~Ok(To[rem.i])
    /\ rem.pc \in {"blast", "dot"} => Neutral(code)
After(code) ==
    /\ Right(code)
    /\ sess.pc = IF rem.pc = "data" /\ code < 400 THEN "blast" ELSE "commands"
    /\ rem.pc = "mail" /\ code < 400 => Handled(0)
    /\ rem.pc = "rcpt" => ~Neutral(code) /\ Handled(rem.i)
    /\ rem.pc = "data" /\ code < 400 => Envelope(Len(To))

\* Nothing is on its way to the client; or one code is.
Silent == Empty(s2c) /\ (up => Empty(ssout))
OnItsWay(code) ==
    IF up THEN (Only(s2c, code) /\ Empty(ssout)) \/ (Empty(s2c) /\ Only(ssout, code))
    ELSE Empty(s2c) \/ Only(s2c, code)

Asked ==
    /\ rem.pc # "greeting" /\ Silent /\ Before
    /\ \/ sess.pc = "commands" /\ (Only(c2s, Request) \/ (~up /\ Empty(c2s)))
       \/ sess.pc = "fun" /\ sess.cmd = Request /\ Empty(c2s)
Answered == Empty(c2s) /\ \E code \in Nat : OnItsWay(code) /\ After(code)
Dead == /\ sess.pc = "exit" /\ ~up /\ Len(s2c) <= 2
        /\ Len(s2c) = 2 => Neutral(s2c[2])
DeadAsked == Dead /\ (Len(s2c) > 0 => Right(s2c[1]))

\* In the text of the message, or behind it.
Texts == \A j \in 1 .. Len(c2s) : c2s[j].verb = "text"
InText == sess.pc = "blast" /\ Envelope(Len(To)) /\ Silent
Ending == /\ Envelope(Len(To)) /\ Silent /\ Empty(queued)
          /\ \/ /\ sess.pc = "blast"
                /\ \A j \in 1 .. Len(c2s) : \/ c2s[j].verb = "text"
                                            \/ c2s[j].verb = "dot" /\ j = Len(c2s)
             \/ sess.pc = "close" /\ sess.cmd.verb = "dot" /\ Empty(c2s)
Ended == /\ sess.pc = "commands" /\ Empty(c2s)
         /\ \E code \in Nat : OnItsWay(code) /\ Answer(code)
DeadEnded == Dead /\ (Len(s2c) > 0 => Answer(s2c[1]))

\* The dot is not there, or has been answered.
Harmless == \/ sess.pc = "exit"
            \/ sess.pc # "close" /\ \A j \in 1 .. Len(c2s) : c2s[j].verb # "dot"

Told(k) == \A i \in 1 .. k : /\ report[2 * i] = NUL
                             /\ \/ About(i) = "r" /\ Ok(To[i])
                                \/ About(i) = "h" /\ ~Ok(To[i])
                                \/ About(i) = "s"
Deferred == \E i \in 1 .. Len(To) : 2 * i < Len(report) + 1 /\ About(i) = "s"
Lost == sess.pc = "exit" /\ ~up /\ Empty(queued) /\ \A j \in 1 .. Len(s2c) : Neutral(s2c[j])

Reporting ==
    IF Done THEN \E k \in 0 .. Len(To) :
                   Len(report) = 2 * k + 2 /\ report[2 * k + 2] = NUL /\ Told(k)
    ELSE /\ Len(report) = 2 * (rem.i - 1) /\ Told(rem.i - 1)
         /\ rem.pc \in {"connect", "greeting", "helo", "mail"} => rem.i = 1
         /\ rem.pc = "rcpt" => rem.i <= Len(To)
         /\ rem.pc \in {"data", "blast", "dot", "final", "verdict"} => rem.i = Len(To) + 1

InStep ==
    /\ rem.pc \in Asking => Empty(queued) /\ (Asked \/ Answered \/ DeadAsked)
    /\ rem.pc = "blast" => Empty(queued) /\ ((InText /\ Empty(c2s)) \/ DeadAsked)
    /\ rem.pc = "dot" => Empty(queued) /\ ((InText /\ Texts) \/ DeadAsked)
    /\ rem.pc = "final" => rem.critical /\ (Ending \/ Ended \/ DeadEnded)
    /\ rem.pc = "verdict" => Harmless /\ Answer(rem.code)
    /\ rem.pc \notin {"final", "done"} => ~rem.critical
Concluded ==
    \/ Result = "Zdup"
    \/ Harmless /\ Empty(queued) /\ Result \in {"Z", "D"}
    \/ /\ Harmless /\ Answer(rem.code) /\ Result \in {Class(rem.code), "Z"}
       /\ Len(report) = 2 * Len(To) + 2

RemoteInv ==
    /\ ServerTypes /\ ClientTypes
    /\ rem.pc = "connect" =>
         /\ ~up /\ Empty(c2s) /\ Empty(s2c) /\ Only(ssout, 220) /\ Empty(queued)
         /\ sess.pc = "commands"
    /\ InStep /\ Reporting /\ (Deferred => Lost) /\ (Done => Concluded)

-----------------------------------------------------------------------------
(* Sequences of recipients.                                                *)
\* Nobody is listed at first.
LEMMA NobodyListed == Listed(<<>>, 0, OkOnes)
<1> DEFINE at == [j \in 1 .. 0 |-> 0]
<1>1. at \in [1 .. 0 -> 1 .. 0]
  OBVIOUS
<1>2. Len(<<>>) = 0 /\ \A j \in 1 .. 0 : FALSE
  OBVIOUS
<1> HIDE DEF at
<1>3. /\ at \in [1 .. Len(<<>>) -> 1 .. 0]
      /\ \A j, m \in 1 .. Len(<<>>) : j < m => at[j] < at[m]
      /\ \A j \in 1 .. Len(<<>>) : <<>>[j] = To[at[j]]
      /\ \A i \in 1 .. 0 : i \in OkOnes <=> \E j \in 1 .. Len(<<>>) : at[j] = i
  BY <1>1, <1>2
<1> QED
  BY <1>3, Zenon DEF Listed

\* A recipient that is taken is added to those listed.
LEMMA OneMoreListed ==
    ASSUME RemoteConstants, NEW to \in Seq(Accepted), NEW k \in Nat, k < Len(To),
           Ok(To[k + 1]), Listed(to, k, OkOnes)
    PROVE  Listed(Append(to, To[k + 1]), k + 1, OkOnes)
<1> PICK n \in Nat : n = Len(to)
  OBVIOUS
<1> PICK at \in [1 .. n -> 1 .. k] :
        /\ \A j, m \in 1 .. n : j < m => at[j] < at[m]
        /\ \A j \in 1 .. n : to[j] = To[at[j]]
        /\ \A i \in 1 .. k : i \in OkOnes <=> \E j \in 1 .. n : at[j] = i
  BY DEF Listed
<1> DEFINE more == Append(to, To[k + 1])
           longer == [j \in 1 .. n + 1 |-> IF j = n + 1 THEN k + 1 ELSE at[j]]
<1>1. Len(more) = n + 1 /\ more[n + 1] = To[k + 1] /\ \A j \in 1 .. n : more[j] = to[j]
  OBVIOUS
<1>2. longer \in [1 .. n + 1 -> 1 .. k + 1]
  OBVIOUS
<1>a. longer[n + 1] = k + 1 /\ \A j \in 1 .. n : longer[j] = at[j] /\ at[j] \in 1 .. k
  OBVIOUS
<1>b. \A j \in 1 .. n + 1 : j = n + 1 \/ j \in 1 .. n
  OBVIOUS
<1> HIDE DEF more, longer
<1>3. ASSUME NEW j \in 1 .. n + 1, NEW m \in 1 .. n + 1, j < m
      PROVE  longer[j] < longer[m]
  BY <1>3, <1>a, <1>b
<1>4. \A j \in 1 .. n + 1 : more[j] = To[longer[j]]
  BY <1>1, <1>a, <1>b
<1>5. ASSUME NEW i \in 1 .. k + 1
      PROVE  i \in OkOnes <=> \E j \in 1 .. n + 1 : longer[j] = i
  <2>1. CASE i = k + 1
    <3>1. longer[n + 1] = i /\ n + 1 \in 1 .. n + 1
      BY <2>1, <1>a
    <3> QED
      BY <2>1, <3>1 DEF OkOnes, RemoteConstants
  <2>2. CASE i \in 1 .. k
    <3>1. \A j \in 1 .. n : longer[j] = at[j] /\ j \in 1 .. n + 1
      BY <1>a
    <3>2. ASSUME NEW j \in 1 .. n + 1, longer[j] = i
          PROVE  j \in 1 .. n
      BY <2>2, <3>2, <1>a, <1>b
    <3>3. i \in OkOnes <=> \E j \in 1 .. n : at[j] = i
      BY <2>2
    <3> QED
      BY <3>1, <3>2, <3>3
  <2> QED
    BY <2>1, <2>2
<1>6. \A j, m \in 1 .. n + 1 : j < m => longer[j] < longer[m]
  BY <1>3
<1>7. \A i \in 1 .. k + 1 : i \in OkOnes <=> \E j \in 1 .. n + 1 : longer[j] = i
  BY <1>5
<1>8. Len(more) = n + 1
  BY <1>1
<1>9. /\ longer \in [1 .. Len(more) -> 1 .. k + 1]
      /\ \A j, m \in 1 .. Len(more) : j < m => longer[j] < longer[m]
      /\ \A j \in 1 .. Len(more) : more[j] = To[longer[j]]
      /\ \A i \in 1 .. k + 1 : i \in OkOnes <=> \E j \in 1 .. Len(more) : longer[j] = i
  BY <1>2, <1>4, <1>6, <1>7, <1>8
<1>10. Listed(more, k + 1, OkOnes)
  BY <1>9, Zenon DEF Listed
<1> QED
  BY <1>10 DEF more

\* A recipient that is refused is not.
LEMMA SameListed ==
    ASSUME RemoteConstants, NEW to \in Seq(Accepted), NEW k \in Nat, k < Len(To),
           ~Ok(To[k + 1]), Listed(to, k, OkOnes)
    PROVE  Listed(to, k + 1, OkOnes)
<1> PICK n \in Nat : n = Len(to)
  OBVIOUS
<1> PICK at \in [1 .. n -> 1 .. k] :
        /\ \A j, m \in 1 .. n : j < m => at[j] < at[m]
        /\ \A j \in 1 .. n : to[j] = To[at[j]]
        /\ \A i \in 1 .. k : i \in OkOnes <=> \E j \in 1 .. n : at[j] = i
  BY DEF Listed
<1>a. \A j \in 1 .. n : at[j] \in 1 .. k /\ at[j] \in 1 .. k + 1
  OBVIOUS
<1>1. at \in [1 .. n -> 1 .. k + 1] /\ \A j \in 1 .. n : at[j] \in 1 .. k
  BY <1>a
<1>2. ASSUME NEW i \in 1 .. k + 1
      PROVE  i \in OkOnes <=> \E j \in 1 .. n : at[j] = i
  BY <1>1 DEF OkOnes
<1> QED
  BY <1>1, <1>2 DEF Listed

-----------------------------------------------------------------------------
(* The server, and the network.                                            *)
ServerMoves == Smtpd!Server \/ Smtpd!DieRead \/ Smtpd!Dies \/ Smtpd!Breaks

LEMMA EmptySequence ==
    ASSUME NEW S, NEW s \in Seq(S)
    PROVE  s = <<>> <=> Empty(s)
BY DEF Empty

\* A server that has exited takes no step.
LEMMA NothingAfterExit ==
    ASSUME ServerMoves, ServerTypes, sess.pc = "exit", ~up
    PROVE  FALSE
BY DEF ServerMoves, Smtpd!Server, Smtpd!Flush, Smtpd!ReadCommand, Smtpd!OtherCommand,
   Smtpd!SmtpQuit, Smtpd!SmtpHeloRset, Smtpd!SmtpMail, Smtpd!SmtpRcpt, Smtpd!SmtpData,
   Smtpd!ReadText, Smtpd!QqClose, Smtpd!DieRead, Smtpd!Dies, Smtpd!Breaks, Smtpd!Fun

LEMMA Moved ==
    ASSUME NEW s \in Sessions, NEW p \in {"commands", "fun", "blast", "close", "exit"},
           NEW t, t = [s EXCEPT !.pc = p]
    PROVE  /\ t \in Sessions /\ t.pc = p /\ t.cmd = s.cmd /\ t.seenmail = s.seenmail
           /\ t.flagbarf = s.flagbarf /\ t.mailfrom = s.mailfrom /\ t.rcptto = s.rcptto
BY DEF Sessions

\* MAIL begins a new envelope.
LEMMA Renewed ==
    ASSUME NEW s \in Sessions, NEW a \in Addresses, NEW t, t = Smtpd!NewMail(s, a)
    PROVE  /\ t \in Sessions /\ t.seenmail /\ t.mailfrom = a /\ t.rcptto = <<>> /\ ~t.flagbarf
<1> DEFINE b == a \in {}
<1>1. <<>> \in Seq(Accepted)
  OBVIOUS
<1>2. PICK e \in Seq(Accepted) : e = <<>>
  BY <1>1, Zenon
<1>3. t = [s EXCEPT !.seenmail = TRUE, !.mailfrom = a, !.flagbarf = b, !.rcptto = e]
  BY <1>2, Zenon DEF Smtpd!NewMail
<1>4. b \in BOOLEAN /\ ~b
  OBVIOUS
<1>5. t \in Sessions /\ t.seenmail /\ t.mailfrom = a /\ t.flagbarf = b /\ t.rcptto = e
  <2> HIDE DEF b
  <2> QED
    BY <1>3, <1>4 DEF Sessions
<1> QED
  BY <1>2, <1>4, <1>5

\* HELO and RSET forget it.
LEMMA Forgotten ==
    ASSUME NEW s \in Sessions, NEW t, t = [s EXCEPT !.seenmail = FALSE]
    PROVE  /\ t \in Sessions /\ t.pc = s.pc /\ t.cmd = s.cmd /\ ~t.seenmail
           /\ t.flagbarf = s.flagbarf /\ t.mailfrom = s.mailfrom /\ t.rcptto = s.rcptto
BY DEF Sessions

LEMMA Joined ==
    ASSUME NEW S, NEW s \in Seq(S), NEW t \in Seq(S)
    PROVE  /\ s \o t \in Seq(S) /\ Len(s \o t) = Len(s) + Len(t)
           /\ \A j \in 1 .. Len(s) : (s \o t)[j] = s[j]
           /\ \A j \in 1 .. Len(t) : (s \o t)[Len(s) + j] = t[j]
OBVIOUS

\* A code joins those that are on their way.
LEMMA Appended ==
    ASSUME NEW s \in Seq(Nat), NEW t \in Seq(Nat), NEW code \in Nat
    PROVE  /\ Append(t, code) \in Seq(Nat) /\ s \o Append(t, code) \in Seq(Nat)
           /\ Empty(t) => Only(Append(t, code), code)
           /\ Empty(s) /\ Empty(t) => Only(s \o Append(t, code), code)
           /\ \A c \in Nat : \/ Only(s, c) /\ Empty(t)
                             \/ Empty(s) /\ Only(t, c)
                  => /\ Len(s \o Append(t, code)) = 2 /\ (s \o Append(t, code))[1] = c
                     /\ (s \o Append(t, code))[2] = code
<1> PICK n \in Nat : n = Len(s)
  OBVIOUS
<1> PICK m \in Nat : m = Len(t)
  OBVIOUS
<1> DEFINE u == Append(t, code)
           v == s \o u
<1>1. u \in Seq(Nat) /\ Len(u) = m + 1 /\ u[m + 1] = code /\ \A j \in 1 .. m : u[j] = t[j]
  OBVIOUS
<1> HIDE DEF u
<1>2. /\ v \in Seq(Nat) /\ Len(v) = n + (m + 1) /\ \A j \in 1 .. n : v[j] = s[j]
      /\ \A j \in 1 .. m + 1 : v[n + j] = u[j]
  <2> PICK k \in Nat : k = m + 1
    OBVIOUS
  <2>1. Len(u) = k
    BY <1>1
  <2>a. v \in Seq(Nat)
    BY <1>1
  <2>b. Len(v) = Len(s) + Len(u)
    BY <1>1, Joined
  <2>2. v \in Seq(Nat) /\ Len(v) = n + k
    <3> HIDE DEF v
    <3> QED
      BY <2>a, <2>b, <2>1
  <2>3. \A j \in 1 .. n : v[j] = s[j]
    BY <1>1
  <2>4. ASSUME NEW j \in 1 .. k
        PROVE  v[n + j] = u[j]
    BY <1>1, <2>1
  <2> QED
    BY <2>2, <2>3, <2>4
<1>3. v[n + 1] = u[1]
  BY <1>2
<1> HIDE DEF v
<1>4. /\ Empty(t) => Only(u, code)
      /\ Empty(s) /\ Empty(t) => Only(v, code)
  <2>1. Empty(t) => Only(u, code)
    BY <1>1 DEF Empty, Only
  <2>2. Empty(s) => n = 0 /\ v[1] = u[1]
    BY <1>3 DEF Empty
  <2> QED
    BY <2>1, <2>2, <1>1, <1>2 DEF Empty, Only
<1>5. ASSUME NEW c \in Nat, Only(s, c), Empty(t)
      PROVE  Len(v) = 2 /\ v[1] = c /\ v[2] = code
  BY <1>1, <1>2, <1>3, <1>5 DEF Empty, Only
<1>6. ASSUME NEW c \in Nat, Empty(s), Only(t, c)
      PROVE  Len(v) = 2 /\ v[1] = c /\ v[2] = code
  <2>1. v[0 + 2] = u[2] /\ u[1] = t[1]
    BY <1>1, <1>2, <1>6 DEF Empty, Only
  <2> QED
    BY <2>1, <1>1, <1>2, <1>3, <1>6 DEF Empty, Only
<1> QED
  BY <1>1, <1>2, <1>4, <1>5, <1>6 DEF u, v

\* One answer is on its way when none was.
LEMMA ReplyGoes ==
    ASSUME ServerTypes, NEW code \in Nat, Smtpd!Reply(code), UNCHANGED up
    PROVE  /\ s2c' \in Seq(Nat) /\ ssout' \in Seq(Nat)
           /\ Silent => OnItsWay(code)'
<1>1. /\ s2c \in Seq(Nat) /\ ssout \in Seq(Nat) /\ up \in BOOLEAN
      /\ <<>> \in Seq(Nat) /\ Empty(<<>>)
  BY DEF ServerTypes, Empty
<1>2. CASE ssout' = Append(ssout, code) /\ UNCHANGED s2c
  BY <1>1, <1>2, Appended DEF Silent, OnItsWay
<1>3. CASE ssout' = <<>> /\ s2c' = IF up THEN s2c \o Append(ssout, code) ELSE s2c
  BY <1>1, <1>3, Appended DEF Silent, OnItsWay
<1> QED
  BY <1>2, <1>3 DEF Smtpd!Reply

\* What the client may still read when the server has said code and exited.
LastWords(code) ==
    /\ Silent => Empty(s2c') \/ Only(s2c', code)
    /\ \A c \in Nat : OnItsWay(c) => \/ Empty(s2c') \/ Only(s2c', c)
                                     \/ Len(s2c') = 2 /\ s2c'[1] = c /\ s2c'[2] = code

\* The server says a last word and exits.
LEMMA ExitGoes ==
    ASSUME ServerTypes, NEW code \in Nat, Smtpd!ReplyExit(code)
    PROVE  /\ s2c' \in Seq(Nat) /\ ssout' \in Seq(Nat) /\ ~up' /\ up' \in BOOLEAN
           /\ sess'.pc = "exit" /\ sess' \in Sessions /\ ~sess'.flagbarf
           /\ UNCHANGED <<c2s, queued>> /\ LastWords(code)
<1>1. sess' \in Sessions /\ sess'.pc = "exit" /\ ~sess'.flagbarf
  BY DEF ServerTypes, Sessions, Smtpd!ReplyExit
<1>2. /\ s2c \in Seq(Nat) /\ ssout \in Seq(Nat) /\ up \in BOOLEAN
      /\ ssout' = <<>> /\ s2c' = IF up THEN s2c \o Append(ssout, code) ELSE s2c
      /\ ~up' /\ up' \in BOOLEAN /\ UNCHANGED <<c2s, queued>>
  BY DEF ServerTypes, Smtpd!ReplyExit
<1>3. LastWords(code)
  BY <1>2, Appended DEF LastWords, Silent, OnItsWay
<1> QED
  BY <1>1, <1>2, <1>3, Appended

\* What an answer leaves alone.
LEMMA AnswerGoes ==
    ASSUME ServerTypes, NEW code \in Nat, NEW s \in Sessions, ~s.flagbarf, Smtpd!Answer(code, s)
    PROVE  /\ ServerTypes' /\ UNCHANGED <<up, c2s, queued>>
           /\ sess'.pc = "commands" /\ sess'.seenmail = s.seenmail
           /\ sess'.mailfrom = s.mailfrom /\ sess'.rcptto = s.rcptto
           /\ Silent => OnItsWay(code)'
<1>1. UNCHANGED <<up, c2s, queued>> /\ Smtpd!Reply(code) /\ sess' = [s EXCEPT !.pc = "commands"]
  BY DEF Smtpd!Answer
<1>2. /\ sess' \in Sessions /\ sess'.pc = "commands" /\ sess'.seenmail = s.seenmail
      /\ sess'.mailfrom = s.mailfrom /\ sess'.rcptto = s.rcptto /\ ~sess'.flagbarf
  BY <1>1, Moved
<1> QED
  BY <1>1, <1>2, ReplyGoes DEF ServerTypes

\* A request is read.
LEMMA ReadGoes ==
    ASSUME ServerTypes, Smtpd!ReadCommand
    PROVE  /\ ServerTypes' /\ UNCHANGED <<up, s2c, ssout, queued>>
           /\ sess.pc = "commands" /\ Len(c2s) > 0 /\ c2s' = Tail(c2s)
           /\ sess'.pc = "fun" /\ sess'.cmd = c2s[1] /\ sess'.seenmail = sess.seenmail
           /\ sess'.mailfrom = sess.mailfrom /\ sess'.rcptto = sess.rcptto
<1>1. c2s[1] \in Lines /\ Head(c2s) = c2s[1] /\ Tail(c2s) \in Seq(Lines) /\ Len(c2s) > 0
  BY DEF ServerTypes, Smtpd!ReadCommand
<1> QED
  BY <1>1 DEF ServerTypes, Sessions, Smtpd!ReadCommand

\* Flushing changes where the answer is, not whether.
LEMMA FlushGoes ==
    ASSUME ServerTypes, Smtpd!Flush
    PROVE  /\ ServerTypes' /\ UNCHANGED <<up, c2s, sess, queued>> /\ up /\ Empty(c2s) /\ ~Silent
           /\ \A code \in Nat : OnItsWay(code) => OnItsWay(code)'
<1>1. /\ s2c' = s2c \o ssout /\ ssout' = <<>> /\ up /\ c2s = <<>> /\ Len(ssout) > 0
      /\ UNCHANGED <<up, c2s, sess, queued>>
  BY DEF ServerTypes, Smtpd!Flush, Smtpd!Flushed
<1>2. s2c \in Seq(Nat) /\ ssout \in Seq(Nat)
  BY DEF ServerTypes
<1>3. /\ s2c' \in Seq(Nat) /\ ssout' \in Seq(Nat) /\ Empty(ssout') /\ Empty(c2s)
      /\ Len(s2c') = Len(s2c) + Len(ssout) /\ \A j \in 1 .. Len(s2c) : s2c'[j] = s2c[j]
      /\ \A j \in 1 .. Len(ssout) : s2c'[Len(s2c) + j] = ssout[j]
  BY <1>1, <1>2 DEF Empty
<1>4. ASSUME NEW code \in Nat, OnItsWay(code)
      PROVE  Only(s2c', code)
  <2>1. CASE Only(s2c, code) /\ Empty(ssout)
    BY <2>1, <1>1 DEF Empty
  <2>2. CASE Empty(s2c) /\ Only(ssout, code)
    <3>1. s2c'[0 + 1] = ssout[1]
      BY <2>2, <1>3 DEF Empty, Only
    <3> QED
      BY <2>2, <3>1, <1>3 DEF Empty, Only
  <2> QED
    BY <1>1, <1>4, <2>1, <2>2 DEF OnItsWay
<1>5. ServerTypes'
  BY <1>1, <1>3 DEF ServerTypes
<1>6. ~Silent
  BY <1>1 DEF Silent, Empty
<1> QED
  BY <1>1, <1>3, <1>4, <1>5, <1>6 DEF OnItsWay

\* What is cut off at some place.
LEMMA Cut ==
    ASSUME NEW S, NEW s \in Seq(S), NEW n \in 0 .. Len(s), NEW t, t = SubSeq(s, 1, n)
    PROVE  t \in Seq(S) /\ Len(t) = n /\ \A j \in 1 .. n : t[j] = s[j]
OBVIOUS

\* The connection breaks, and some of each direction is lost.
LEMMA BreakGoes ==
    ASSUME ServerTypes, Smtpd!Breaks
    PROVE  /\ ServerTypes' /\ up /\ ~up' /\ UNCHANGED <<ssout, sess, queued>>
           /\ Silent => Silent'
           /\ \A code \in Nat : OnItsWay(code) => OnItsWay(code)'
           /\ Len(c2s') <= Len(c2s) /\ \A j \in 1 .. Len(c2s') : c2s'[j] = c2s[j]
<1>1. PICK n \in 0 .. Len(s2c) : s2c' = SubSeq(s2c, 1, n)
  BY DEF Smtpd!Breaks
<1>2. PICK m \in 0 .. Len(c2s) : c2s' = SubSeq(c2s, 1, m)
  BY DEF Smtpd!Breaks
<1>3. s2c' \in Seq(Nat) /\ Len(s2c') = n /\ \A j \in 1 .. n : s2c'[j] = s2c[j]
  BY <1>1, Cut DEF ServerTypes
<1>4. c2s' \in Seq(Lines) /\ Len(c2s') = m /\ \A j \in 1 .. m : c2s'[j] = c2s[j]
  BY <1>2, Cut DEF ServerTypes
<1>5. up /\ ~up' /\ up' \in BOOLEAN /\ UNCHANGED <<ssout, sess, queued>>
  BY DEF Smtpd!Breaks
<1>6. ASSUME NEW code \in Nat, OnItsWay(code)
      PROVE  Empty(s2c') \/ Only(s2c', code)
  BY <1>3, <1>5, <1>6 DEF OnItsWay, Empty, Only
<1>7. Empty(s2c) => Empty(s2c')
  BY <1>3 DEF Empty
<1> QED
  BY <1>3, <1>4, <1>5, <1>6, <1>7 DEF ServerTypes, Silent, OnItsWay

\* The server reads the end of the connection and exits.
LEMMA DieReadGoes ==
    ASSUME ServerTypes, Smtpd!DieRead
    PROVE  /\ ServerTypes' /\ UNCHANGED <<up, c2s, s2c, ssout, queued>>
           /\ ~up /\ sess.pc \in {"commands", "blast"} /\ sess'.pc = "exit"
BY DEF ServerTypes, Sessions, Smtpd!DieRead, Smtpd!netVars

\* The server dies of a timeout or lack of memory: 451 or 421.
LEMMA DiesGoes ==
    ASSUME ServerTypes, Smtpd!Dies
    PROVE  /\ ServerTypes' /\ ~up' /\ sess'.pc = "exit" /\ UNCHANGED <<c2s, queued>>
           /\ \/ sess.pc = "fun"
              \/ sess.pc \in {"commands", "blast"} /\ up /\ Empty(c2s)
              \/ sess.pc = "blast" /\ ~Empty(c2s)
           /\ \E code \in 400 .. 499 : LastWords(code)
<1>1. PICK code \in {421, 451} : Smtpd!ReplyExit(code)
  BY DEF Smtpd!Dies
<1>2. c2s = <<>> <=> Empty(c2s)
  BY EmptySequence DEF ServerTypes
<1>3. \/ sess.pc = "fun"
      \/ sess.pc \in {"commands", "blast"} /\ up /\ Empty(c2s)
      \/ sess.pc = "blast" /\ ~Empty(c2s)
  BY <1>2 DEF Smtpd!Dies
<1>4. /\ s2c' \in Seq(Nat) /\ ssout' \in Seq(Nat) /\ ~up' /\ up' \in BOOLEAN
      /\ sess'.pc = "exit" /\ sess' \in Sessions /\ ~sess'.flagbarf
      /\ UNCHANGED <<c2s, queued>> /\ LastWords(code)
  BY <1>1, ExitGoes
<1>5. code \in 400 .. 499
  OBVIOUS
<1> QED
  BY <1>3, <1>4, <1>5 DEF ServerTypes

\* A recipient is answered for what it is.
RcptIs(a, code, s) ==
    /\ Smtpd!Answer(code, s) /\ s \in Sessions /\ ~s.flagbarf
    /\ s.seenmail = sess.seenmail /\ s.mailfrom = sess.mailfrom
    /\ IF Ok(a) THEN code = 250 /\ s.rcptto = Append(sess.rcptto, a)
       ELSE code \in {553, 555} /\ s.rcptto = sess.rcptto

LEMMA RcptAnswer ==
    ASSUME RemoteConstants, ServerTypes, Smtpd!SmtpRcpt, sess.seenmail,
           NEW a \in Addresses, a = sess.cmd.arg
    PROVE  \E code \in Nat : \E s : RcptIs(a, code, s)
<1>1. sess \in Sessions /\ ~sess.flagbarf /\ 250 \in Nat /\ 553 \in Nat /\ 555 \in Nat
  BY DEF ServerTypes
<1>2. CASE Ok(a)
  <2>1. Append(sess.rcptto, a) \in Seq(Accepted)
    BY <1>1, <1>2 DEF Sessions, Accepted
  <2>2. PICK r \in Seq(Accepted) : r = Append(sess.rcptto, a)
    BY <2>1
  <2>3. PICK s : s = [sess EXCEPT !.rcptto = r]
    OBVIOUS
  <2>4. /\ s \in Sessions /\ s.seenmail = sess.seenmail /\ ~s.flagbarf
        /\ s.mailfrom = sess.mailfrom /\ s.rcptto = r
    BY <1>1, <2>3 DEF Sessions
  <2>5. Smtpd!Answer(250, [sess EXCEPT !.rcptto = Append(@, a)])
    BY <1>1, <1>2 DEF Smtpd!SmtpRcpt, Ok, NoArg, Smtpd!NoArg
  <2>6. Smtpd!Answer(250, s)
    BY <2>2, <2>3, <2>5, Zenon
  <2>7. RcptIs(a, 250, s)
    BY <1>2, <2>2, <2>4, <2>6, Zenon DEF RcptIs
  <2> QED
    BY <1>1, <2>7, Zenon
<1>3. CASE ~Ok(a)
  <2>1. Smtpd!Answer(555, sess) \/ Smtpd!Answer(553, sess)
    BY <1>1, <1>3 DEF Smtpd!SmtpRcpt, Ok, NoArg, Smtpd!NoArg
  <2>2. ASSUME NEW code \in {553, 555}, Smtpd!Answer(code, sess)
        PROVE  RcptIs(a, code, sess)
    BY <1>1, <1>3, <2>2 DEF RcptIs
  <2> QED
    BY <1>1, <2>1, <2>2
<1> QED
  BY <1>2, <1>3

\* What the client sends is a line.
LEMMA RequestTypes ==
    ASSUME RemoteConstants, rem \in Clients, rem.pc \in Asking \ {"greeting"},
           rem.pc = "rcpt" => rem.i <= Len(To)
    PROVE  Request \in Lines /\ Request.verb = rem.pc
<1>1. rem.pc = "rcpt" => To[rem.i] \in Addresses
  BY DEF RemoteConstants, Clients, Addresses, ToSet
<1> QED
  BY <1>1 DEF Request, Say, Lines, Asking, Addresses

\* The request is handled.
LEMMA RequestHandled ==
    ASSUME RemoteConstants, ServerTypes, rem \in Clients, UNCHANGED rem, rem.pc \in Asking,
           rem.pc = "rcpt" => rem.i <= Len(To), Empty(queued), Asked, sess.pc = "fun",
           Smtpd!Server
    PROVE  ServerTypes' /\ Empty(queued)' /\ Answered'
<1>1. /\ sess \in Sessions /\ ~sess.flagbarf /\ sess.cmd = Request /\ Empty(c2s) /\ Silent
      /\ Before /\ rem.pc # "greeting"
  BY DEF Asked, ServerTypes
<1>2. sess.cmd.verb = rem.pc
  BY <1>1, RequestTypes
<1>0. \/ Smtpd!OtherCommand \/ Smtpd!SmtpQuit \/ Smtpd!SmtpHeloRset
      \/ Smtpd!SmtpMail \/ Smtpd!SmtpRcpt \/ Smtpd!SmtpData
  BY DEF Smtpd!Server, Smtpd!Flush, Smtpd!ReadCommand, Smtpd!ReadText, Smtpd!QqClose
<1>3. CASE rem.pc = "helo"
  <2>1. Smtpd!SmtpHeloRset
    BY <1>0, <1>2, <1>3 DEF Smtpd!OtherCommand, Smtpd!SmtpQuit, Smtpd!SmtpMail, Smtpd!SmtpRcpt,
       Smtpd!SmtpData, Smtpd!Fun
  <2>2. PICK s : s = [sess EXCEPT !.seenmail = FALSE]
    OBVIOUS
  <2>3. Smtpd!Answer(250, s) /\ s \in Sessions /\ ~s.flagbarf
    BY <1>1, <2>1, <2>2, Forgotten DEF Smtpd!SmtpHeloRset
  <2>4. ServerTypes' /\ OnItsWay(250)' /\ Empty(queued)' /\ Empty(c2s)' /\ sess'.pc = "commands"
    BY <1>1, <2>3, AnswerGoes DEF Empty
  <2> QED
    BY <1>3, <2>4 DEF Answered, After, Right
<1>4. CASE rem.pc = "mail"
  <2>1. Smtpd!SmtpMail /\ sess.cmd.arg = From
    BY <1>0, <1>1, <1>2, <1>4 DEF Smtpd!OtherCommand, Smtpd!SmtpQuit, Smtpd!SmtpHeloRset,
       Smtpd!SmtpRcpt, Smtpd!SmtpData, Smtpd!Fun, Request, Say
  <2>2. CASE From = NoArg
    <3>1. Smtpd!Answer(555, sess)
      BY <2>1, <2>2 DEF Smtpd!SmtpMail, NoArg, Smtpd!NoArg
    <3>2. /\ ServerTypes' /\ OnItsWay(555)' /\ Empty(queued)' /\ Empty(c2s)'
          /\ sess'.pc = "commands"
      BY <1>1, <3>1, AnswerGoes DEF Empty
    <3> QED
      BY <1>4, <3>2 DEF Answered, After, Right
  <2>3. CASE From # NoArg
    <3> DEFINE s == Smtpd!NewMail(sess, From)
    <3>1. s \in Sessions /\ s.seenmail /\ s.mailfrom = From /\ s.rcptto = <<>> /\ ~s.flagbarf
      BY <1>1, Renewed DEF Addresses
    <3>2. Smtpd!Answer(250, s)
      BY <2>1, <2>3 DEF Smtpd!SmtpMail, NoArg, Smtpd!NoArg
    <3> HIDE DEF s
    <3>3. /\ ServerTypes' /\ OnItsWay(250)' /\ Empty(queued)' /\ Empty(c2s)'
          /\ sess'.pc = "commands" /\ sess'.seenmail /\ sess'.mailfrom = From
          /\ sess'.rcptto = <<>>
      BY <1>1, <3>1, <3>2, AnswerGoes DEF Empty
    <3>4. Handled(0)'
      BY <3>3, NobodyListed DEF Handled, Envelope
    <3> QED
      BY <1>4, <3>3, <3>4 DEF Answered, After, Right
  <2> QED
    BY <2>2, <2>3
<1>5. CASE rem.pc = "rcpt"
  <2> DEFINE a == To[rem.i]
  <2>1. Smtpd!SmtpRcpt /\ sess.cmd.arg = a
    BY <1>0, <1>1, <1>2, <1>5 DEF Smtpd!OtherCommand, Smtpd!SmtpQuit, Smtpd!SmtpHeloRset,
       Smtpd!SmtpMail, Smtpd!SmtpData, Smtpd!Fun, Request, Say
  <2>2. Handled(rem.i - 1)
    BY <1>1, <1>5 DEF Before
  <2>3. PICK code \in Nat : \E s : RcptIs(a, code, s)
    <3>1. sess.seenmail /\ a \in Addresses
      BY <1>5, <2>2 DEF Handled, RemoteConstants, Clients, Addresses, ToSet
    <3> HIDE DEF a
    <3> QED
      BY <2>1, <3>1, RcptAnswer, Zenon
  <2>4. PICK s : RcptIs(a, code, s)
    BY <2>3
  <2>5. /\ ServerTypes' /\ OnItsWay(code)' /\ Empty(queued)' /\ Empty(c2s)'
        /\ sess'.pc = "commands" /\ sess'.seenmail = s.seenmail
        /\ sess'.mailfrom = s.mailfrom /\ sess'.rcptto = s.rcptto
    BY <1>1, <2>4, AnswerGoes DEF Empty, RcptIs
  <2>6. sess'.seenmail /\ sess'.mailfrom = From
    BY <2>2, <2>4, <2>5 DEF Handled, Envelope, RcptIs
  <2>7. PICK k \in Nat : rem.i = k + 1 /\ k < Len(To) /\ rem.i - 1 = k
    <3>1. rem.i - 1 \in Nat /\ rem.i = (rem.i - 1) + 1 /\ rem.i - 1 < Len(To)
      BY <1>5 DEF Clients, RemoteConstants
    <3> QED
      BY <3>1
  <2>8. Listed(sess.rcptto, k, OkOnes) /\ sess.rcptto \in Seq(Accepted) /\ a = To[k + 1]
    BY <1>1, <2>2, <2>7 DEF Handled, Envelope, Sessions
  <2>9. Listed(s.rcptto, k + 1, OkOnes)
    <3>1. CASE Ok(To[k + 1])
      <4>1. s.rcptto = Append(sess.rcptto, To[k + 1])
        BY <2>4, <2>8, <3>1 DEF RcptIs
      <4>2. Listed(Append(sess.rcptto, To[k + 1]), k + 1, OkOnes)
        BY <2>7, <2>8, <3>1, OneMoreListed
      <4> QED
        BY <4>1, <4>2, Zenon
    <3>2. CASE ~Ok(To[k + 1])
      <4>1. s.rcptto = sess.rcptto
        BY <2>4, <2>8, <3>2 DEF RcptIs
      <4> QED
        BY <2>7, <2>8, <3>2, <4>1, SameListed
    <3> QED
      BY <3>1, <3>2
  <2>10. Handled(rem.i)'
    BY <2>5, <2>6, <2>7, <2>9 DEF Handled, Envelope
  <2>11. rem' = rem /\ rem'.pc = "rcpt"
    BY <1>5
  <2>12. IF Ok(a) THEN code = 250 ELSE code \in {553, 555}
    BY <2>4 DEF RcptIs
  <2>13. ~Neutral(code)
    BY <2>12 DEF Neutral
  <2>14. IF code < 400 THEN Ok(a) ELSE ~Ok(a)
    BY <2>12
  <2>15. Right(code)'
    BY <2>11, <2>14, SMT DEF Right
  <2>16. After(code)'
    BY <2>5, <2>10, <2>11, <2>13, <2>15 DEF After, Neutral
  <2> QED
    BY <2>5, <2>16 DEF Answered
<1>6. CASE rem.pc = "data"
  <2>1. Smtpd!SmtpData /\ Handled(Len(To))
    BY <1>0, <1>1, <1>2, <1>6 DEF Smtpd!OtherCommand, Smtpd!SmtpQuit, Smtpd!SmtpHeloRset,
       Smtpd!SmtpMail, Smtpd!SmtpRcpt, Smtpd!Fun, Before
  <2>2. PICK s : s = Smtpd!DataStarts(sess)
    OBVIOUS
  <2>3. /\ s \in Sessions /\ s.mailfrom = sess.mailfrom /\ s.rcptto = sess.rcptto
        /\ ~s.flagbarf
    BY <1>1, <2>2, Forgotten DEF Smtpd!DataStarts
  <2>4. ASSUME NEW code \in {451, 503}, NEW t \in Sessions, ~t.flagbarf, Smtpd!Answer(code, t)
        PROVE  ServerTypes' /\ Empty(queued)' /\ Answered'
    <3>1. /\ ServerTypes' /\ OnItsWay(code)' /\ Empty(queued)' /\ Empty(c2s)'
          /\ sess'.pc = "commands"
      <4>1. code \in Nat
        OBVIOUS
      <4> QED
        BY <1>1, <2>4, <4>1, AnswerGoes DEF Empty
    <3> QED
      BY <1>6, <3>1 DEF Answered, After, Right
  <2>5. CASE /\ Smtpd!Reply(354) /\ sess' = [s EXCEPT !.pc = "blast"]
             /\ UNCHANGED <<up, c2s, queued>>
    <3>1. /\ sess' \in Sessions /\ sess'.pc = "blast" /\ sess'.mailfrom = sess.mailfrom
          /\ sess'.rcptto = sess.rcptto /\ ~sess'.flagbarf
      BY <2>3, <2>5, Moved
    <3>2. Envelope(Len(To))'
      BY <2>1, <3>1 DEF Handled, Envelope
    <3>3. s2c' \in Seq(Nat) /\ ssout' \in Seq(Nat) /\ OnItsWay(354)'
      BY <1>1, <2>5, ReplyGoes
    <3>4. ServerTypes' /\ Empty(queued)' /\ Empty(c2s)'
      BY <1>1, <2>5, <3>1, <3>3 DEF ServerTypes, Empty
    <3> QED
      BY <1>6, <3>1, <3>2, <3>3, <3>4 DEF Answered, After, Right
  <2>6. \/ Smtpd!Answer(503, sess) \/ Smtpd!Answer(451, s)
        \/ /\ Smtpd!Reply(354) /\ sess' = [s EXCEPT !.pc = "blast"]
           /\ UNCHANGED <<up, c2s, queued>>
    BY <2>1, <2>2 DEF Smtpd!SmtpData
  <2> QED
    BY <1>1, <2>3, <2>4, <2>5, <2>6
<1> QED
  BY <1>1, <1>3, <1>4, <1>5, <1>6 DEF Asking

\* A request stays one, or is answered, or the server dies before that.
LEMMA AskedMoves ==
    ASSUME RemoteConstants, ServerTypes, rem \in Clients, UNCHANGED rem, rem.pc \in Asking,
           rem.pc = "rcpt" => rem.i <= Len(To), Empty(queued), Asked, ServerMoves
    PROVE  ServerTypes' /\ Empty(queued)' /\ (Asked' \/ Answered' \/ DeadAsked')
<1>0. Request' = Request /\ (Before /\ UNCHANGED <<sess>> => Before')
  BY DEF Request, Before, Handled, Envelope
<1>1. CASE Smtpd!Server
  <2>1. CASE sess.pc = "fun"
    BY <1>1, <2>1, RequestHandled
  <2>2. CASE sess.pc = "commands"
    <3>1. Smtpd!ReadCommand
      BY <1>1, <2>2, FlushGoes DEF Smtpd!Server, Smtpd!OtherCommand, Asked,
         Smtpd!SmtpQuit, Smtpd!SmtpHeloRset, Smtpd!SmtpMail, Smtpd!SmtpRcpt, Smtpd!SmtpData,
         Smtpd!ReadText, Smtpd!QqClose, Smtpd!Fun
    <3>2. Only(c2s, Request)
      BY <3>1, <2>2, ReadGoes DEF Asked, Empty
    <3>3. Empty(Tail(c2s))
      BY <3>2 DEF Only, Empty, ServerTypes
    <3>4. Before'
      BY <3>1, ReadGoes DEF Before, Handled, Envelope, Asked
    <3>5. /\ ServerTypes' /\ UNCHANGED <<up, s2c, ssout, queued>> /\ sess'.pc = "fun"
          /\ sess'.cmd = Request /\ Empty(c2s')
      BY <3>1, <3>2, <3>3, ReadGoes DEF Only
    <3>6. Silent'
      BY <3>5 DEF Asked, Silent
    <3>7. Asked'
      BY <1>0, <3>4, <3>5, <3>6 DEF Asked
    <3> QED
      BY <3>5, <3>7
  <2> QED
    BY <2>1, <2>2 DEF Asked
<1>2. CASE Smtpd!DieRead
  BY <1>2, DieReadGoes DEF Asked, Silent, DeadAsked, Dead, Empty
<1>3. CASE Smtpd!Dies
  <2>1. PICK code \in 400 .. 499 : LastWords(code)
    BY <1>3, DiesGoes
  <2>2. Empty(s2c') \/ Only(s2c', code)
    BY <2>1 DEF LastWords, Asked
  <2>3. ServerTypes' /\ ~up' /\ sess'.pc = "exit" /\ UNCHANGED queued
    BY <1>3, DiesGoes
  <2>4. Dead'
    <3>1. PICK n \in Nat : n = Len(s2c')
      BY <2>3 DEF ServerTypes
    <3>2. n = 0 \/ n = 1
      BY <2>2, <3>1 DEF Empty, Only
    <3>3. Len(s2c') <= 2
      BY <3>1, <3>2
    <3>4. ~(Len(s2c') = 2)
      BY <3>1, <3>2
    <3>5. sess'.pc = "exit" /\ ~up'
      BY <2>3
    <3> QED
      BY <3>3, <3>4, <3>5 DEF Dead
  <2>5. (Len(s2c) > 0 => Right(s2c[1]))'
    <3>1. Len(s2c') > 0 => s2c'[1] = code
      BY <2>2 DEF Empty, Only
    <3>2. Right(code)' /\ code \in Nat /\ ~(code < 400)
      BY DEF Right, Neutral
    <3> QED
      BY <3>1, <3>2 DEF Right
  <2> QED
    BY <2>3, <2>4, <2>5 DEF DeadAsked
<1>4. CASE Smtpd!Breaks
  <2>1. /\ ServerTypes' /\ ~up' /\ up /\ UNCHANGED <<ssout, sess, queued>> /\ Silent'
        /\ Len(c2s') <= Len(c2s) /\ \A j \in 1 .. Len(c2s') : c2s'[j] = c2s[j]
    BY <1>4, BreakGoes DEF Asked
  <2>2. Empty(c2s') \/ (Only(c2s, Request) /\ Only(c2s', Request))
    <3>1. PICK n \in Nat : n = Len(c2s)
      BY DEF ServerTypes
    <3>2. PICK m \in Nat : m = Len(c2s')
      BY <2>1 DEF ServerTypes
    <3>3. CASE Only(c2s, Request)
      <4>1. n = 1 /\ c2s[1] = Request /\ (m = 0 \/ m = 1)
        BY <2>1, <3>1, <3>2, <3>3 DEF Only
      <4>2. m = 1 => c2s'[1] = Request
        BY <2>1, <3>2, <4>1
      <4> QED
        BY <3>2, <3>3, <4>1, <4>2 DEF Only, Empty
    <3>4. CASE Empty(c2s)
      BY <2>1, <3>1, <3>2, <3>4 DEF Empty
    <3> QED
      BY <3>3, <3>4 DEF Asked
  <2> QED
    BY <1>0, <2>1, <2>2 DEF Asked, Empty, Only
<1> QED
  BY <1>1, <1>2, <1>3, <1>4 DEF ServerMoves

\* The server has died: what the client may still read.
LEMMA Dying ==
    ASSUME ServerTypes, Smtpd!Dies, Silent \/ \E c \in Nat : OnItsWay(c)
    PROVE  /\ ServerTypes' /\ Dead' /\ UNCHANGED <<c2s, queued>>
           /\ Silent => (Len(s2c) > 0 => Neutral(s2c[1]) /\ s2c[1] \in Nat)'
           /\ \A c \in Nat : OnItsWay(c) => (Len(s2c) > 0 => s2c[1] = c)'
<1>1. PICK code \in 400 .. 499 : LastWords(code)
  BY DiesGoes
<1>2. ServerTypes' /\ ~up' /\ sess'.pc = "exit" /\ UNCHANGED <<c2s, queued>>
  BY DiesGoes
<1>3. PICK n \in Nat : n = Len(s2c')
  BY <1>2 DEF ServerTypes
<1>4. ASSUME Silent
      PROVE  n = 0 \/ (n = 1 /\ s2c'[1] = code)
  BY <1>1, <1>3, <1>4 DEF LastWords, Empty, Only
<1>5. ASSUME NEW c \in Nat, OnItsWay(c)
      PROVE  n = 0 \/ (n \in {1, 2} /\ s2c'[1] = c /\ (n = 2 => s2c'[2] = code))
  <2>1. \/ Empty(s2c') \/ Only(s2c', c)
        \/ Len(s2c') = 2 /\ s2c'[1] = c /\ s2c'[2] = code
    BY <1>1, <1>5 DEF LastWords
  <2>2. Empty(s2c') => n = 0
    BY <1>3 DEF Empty
  <2>3. Only(s2c', c) => n = 1 /\ s2c'[1] = c
    BY <1>3 DEF Only
  <2> QED
    BY <1>3, <2>1, <2>2, <2>3
<1>6. n <= 2 /\ (n = 2 => s2c'[2] = code)
  BY <1>4, <1>5
<1>7. Neutral(code) /\ code \in Nat
  BY DEF Neutral
<1>8. Dead'
  BY <1>2, <1>3, <1>6, <1>7 DEF Dead
<1>9. Silent => (Len(s2c) > 0 => Neutral(s2c[1]) /\ s2c[1] \in Nat)'
  BY <1>3, <1>4, <1>7
<1>10. \A c \in Nat : OnItsWay(c) => (Len(s2c) > 0 => s2c[1] = c)'
  BY <1>3, <1>5
<1> QED
  BY <1>2, <1>8, <1>9, <1>10

\* The server sees the end of the connection.
LEMMA Leaving ==
    ASSUME ServerTypes, Smtpd!DieRead, Silent \/ \E c \in Nat : OnItsWay(c)
    PROVE  /\ ServerTypes' /\ Dead' /\ UNCHANGED <<c2s, queued>>
           /\ Silent => (Len(s2c) = 0)'
           /\ \A c \in Nat : OnItsWay(c) => (Len(s2c) > 0 => s2c[1] = c)'
<1>1. /\ ServerTypes' /\ UNCHANGED <<up, c2s, s2c, ssout, queued>>
      /\ ~up /\ sess'.pc = "exit"
  BY DieReadGoes
<1>2. PICK n \in Nat : n = Len(s2c)
  BY DEF ServerTypes
<1>3. Silent => n = 0
  BY <1>2 DEF Silent, Empty
<1>4. ASSUME NEW c \in Nat, OnItsWay(c)
      PROVE  n = 0 \/ (n = 1 /\ s2c[1] = c)
  BY <1>1, <1>2, <1>4 DEF OnItsWay, Empty, Only
<1>5. n <= 1
  BY <1>3, <1>4
<1>6. Dead'
  BY <1>1, <1>2, <1>5 DEF Dead
<1> QED
  BY <1>1, <1>2, <1>3, <1>4, <1>6

\* Nothing to read: of the server's steps some are left.
LEMMA Idle ==
    ASSUME ServerTypes, Smtpd!Server, Empty(c2s), sess.pc \in {"commands", "blast"}
    PROVE  Smtpd!Flush
<1>1. c2s = <<>>
  BY EmptySequence DEF ServerTypes
<1> QED
  BY <1>1 DEF Smtpd!Server, Smtpd!ReadCommand, Smtpd!OtherCommand,
     Smtpd!SmtpQuit, Smtpd!SmtpHeloRset, Smtpd!SmtpMail, Smtpd!SmtpRcpt, Smtpd!SmtpData,
     Smtpd!ReadText, Smtpd!QqClose, Smtpd!Fun

\* An answer stays one, or the server dies after it.
LEMMA AnsweredMoves ==
    ASSUME ServerTypes, UNCHANGED rem, Empty(queued), Answered, ServerMoves
    PROVE  ServerTypes' /\ Empty(queued)' /\ (Answered' \/ DeadAsked')
<1>1. PICK code \in Nat : OnItsWay(code) /\ After(code)
  BY DEF Answered
<1>2. Empty(c2s) /\ sess.pc \in {"commands", "blast"}
  BY <1>1 DEF Answered, After
<1>3. ASSUME UNCHANGED sess
      PROVE  After(code)'
  BY <1>1, <1>3 DEF After, Right, Handled, Envelope
<1>4. CASE Smtpd!Server
  <2>1. /\ ServerTypes' /\ UNCHANGED <<up, c2s, sess, queued>> /\ OnItsWay(code)'
    BY <1>1, <1>2, <1>4, Idle, FlushGoes
  <2> QED
    BY <1>2, <1>3, <2>1 DEF Answered, Empty
<1>5. CASE Smtpd!DieRead \/ Smtpd!Dies
  <2>1. /\ ServerTypes' /\ Dead' /\ UNCHANGED <<c2s, queued>>
        /\ (Len(s2c) > 0 => s2c[1] = code)'
    BY <1>1, <1>5, Dying, Leaving
  <2>2. Right(code)'
    BY <1>1 DEF After, Right
  <2>3. DeadAsked'
    BY <2>1, <2>2 DEF DeadAsked
  <2> QED
    BY <2>1, <2>3 DEF Empty
<1>6. CASE Smtpd!Breaks
  <2>1. /\ ServerTypes' /\ UNCHANGED <<sess, queued>> /\ OnItsWay(code)' /\ Len(c2s') <= Len(c2s)
    BY <1>1, <1>6, BreakGoes
  <2>2. Empty(c2s)'
    BY <1>2, <2>1 DEF Empty, ServerTypes
  <2> QED
    BY <1>3, <2>1, <2>2 DEF Answered, Empty
<1> QED
  BY <1>4, <1>5, <1>6 DEF ServerMoves

\* A line of the text, or the dot, is read.
LEMMA TextGoes ==
    ASSUME ServerTypes, Smtpd!ReadText
    PROVE  /\ ServerTypes' /\ UNCHANGED <<up, s2c, ssout, queued>>
           /\ sess.pc = "blast" /\ Len(c2s) > 0
           /\ c2s' \in Seq(Lines) /\ Len(c2s') = Len(c2s) - 1
           /\ \A j \in 1 .. Len(c2s') : c2s'[j] = c2s[j + 1]
           /\ IF c2s[1].verb = "dot" THEN sess'.pc = "close" /\ sess'.cmd = c2s[1]
              ELSE sess'.pc = "blast"
           /\ sess'.mailfrom = sess.mailfrom /\ sess'.rcptto = sess.rcptto
<1>1. c2s[1] \in Lines /\ Head(c2s) = c2s[1] /\ Len(c2s) > 0
  BY DEF ServerTypes, Smtpd!ReadText
<1>2. /\ c2s' \in Seq(Lines) /\ Len(c2s') = Len(c2s) - 1
      /\ \A j \in 1 .. Len(c2s') : c2s'[j] = c2s[j + 1]
  BY <1>1 DEF ServerTypes, Smtpd!ReadText
<1>3. CASE c2s[1].verb = "dot"
  <2>1. sess' = [sess EXCEPT !.pc = "close", !.cmd = c2s[1]]
    BY <1>1, <1>3 DEF Smtpd!ReadText
  <2>2. /\ sess' \in Sessions /\ sess'.pc = "close" /\ sess'.cmd = c2s[1] /\ ~sess'.flagbarf
        /\ sess'.mailfrom = sess.mailfrom /\ sess'.rcptto = sess.rcptto
    BY <1>1, <2>1 DEF ServerTypes, Sessions
  <2> QED
    BY <1>1, <1>2, <1>3, <2>2 DEF ServerTypes, Smtpd!ReadText
<1>4. CASE c2s[1].verb # "dot"
  <2>1. sess' = sess
    BY <1>1, <1>4 DEF Smtpd!ReadText
  <2> QED
    BY <1>1, <1>2, <1>4, <2>1 DEF ServerTypes, Smtpd!ReadText
<1> QED
  BY <1>3, <1>4

\* While the text comes the server says nothing, unless it dies.
LEMMA TextMoves ==
    ASSUME ServerTypes, UNCHANGED rem, rem.pc \in {"blast", "dot"}, Empty(queued), InText, Texts,
           ServerMoves
    PROVE  /\ ServerTypes' /\ Empty(queued)'
           /\ \/ InText' /\ Texts' /\ (Empty(c2s) => Empty(c2s)')
              \/ DeadAsked'
<1>1. CASE Smtpd!Server
  <2>1. Smtpd!Flush \/ Smtpd!ReadText
    BY <1>1 DEF Smtpd!Server, Smtpd!ReadCommand, Smtpd!OtherCommand,
       Smtpd!SmtpQuit, Smtpd!SmtpHeloRset, Smtpd!SmtpMail, Smtpd!SmtpRcpt, Smtpd!SmtpData,
       Smtpd!QqClose, Smtpd!Fun, InText
  <2>2. Smtpd!ReadText
    BY <2>1, FlushGoes DEF InText
  <2>3. c2s[1].verb = "text"
    BY <2>2, TextGoes DEF Texts, ServerTypes
  <2>4. /\ ServerTypes' /\ UNCHANGED <<up, s2c, ssout, queued>> /\ sess'.pc = "blast"
        /\ Len(c2s) > 0 /\ Len(c2s') = Len(c2s) - 1
        /\ \A j \in 1 .. Len(c2s') : c2s'[j] = c2s[j + 1]
        /\ sess'.mailfrom = sess.mailfrom /\ sess'.rcptto = sess.rcptto
    BY <2>2, <2>3, TextGoes
  <2>5. InText' /\ Empty(queued)'
    BY <2>4 DEF InText, Envelope, Silent, Empty
  <2>6. Texts'
    <3> PICK n \in Nat : n = Len(c2s)
      BY DEF ServerTypes
    <3> QED
      BY <2>4 DEF Texts
  <2>7. ~Empty(c2s)
    BY <2>4 DEF Empty
  <2> QED
    BY <2>4, <2>5, <2>6, <2>7
<1>2. CASE Smtpd!DieRead \/ Smtpd!Dies
  <2>1. /\ ServerTypes' /\ Dead' /\ UNCHANGED <<c2s, queued>>
        /\ (Len(s2c) > 0 => Neutral(s2c[1]))'
    BY <1>2, Dying, Leaving DEF InText
  <2>2. DeadAsked'
    BY <2>1 DEF DeadAsked, Right
  <2> QED
    BY <2>1, <2>2 DEF Empty
<1>3. CASE Smtpd!Breaks
  <2>1. /\ ServerTypes' /\ UNCHANGED <<sess, queued>> /\ Silent'
        /\ Len(c2s') <= Len(c2s) /\ \A j \in 1 .. Len(c2s') : c2s'[j] = c2s[j]
    BY <1>3, BreakGoes DEF InText
  <2>2. PICK n \in Nat : n = Len(c2s)
    BY DEF ServerTypes
  <2>3. PICK m \in Nat : m = Len(c2s')
    BY <2>1 DEF ServerTypes
  <2>4. Texts' /\ (n = 0 => m = 0)
    BY <2>1, <2>2, <2>3 DEF Texts
  <2> QED
    BY <2>1, <2>2, <2>3, <2>4 DEF InText, Envelope, Empty
<1> QED
  BY <1>1, <1>2, <1>3 DEF ServerMoves

\* The end of the message is answered.
LEMMA ClosingGoes ==
    ASSUME RemoteConstants, ServerTypes, Empty(queued), Ending, sess.pc = "close", Smtpd!QqClose
    PROVE  ServerTypes' /\ Ended'
<1>1. /\ Envelope(Len(To)) /\ Silent /\ sess.cmd.verb = "dot" /\ Empty(c2s)
      /\ sess \in Sessions /\ ~sess.flagbarf /\ Empty(queued)
      /\ queued \in Seq([from : Addresses, to : Seq(Accepted)])
  BY DEF Ending, ServerTypes
<1>2. PICK taken \in BOOLEAN, ok \in BOOLEAN, code \in {250, 451, 552, 554} :
        /\ ok => taken
        /\ taken /\ ~ok => QqCrashes
        /\ queued' = IF taken THEN Append(queued, [from |-> sess.mailfrom, to |-> sess.rcptto])
                     ELSE queued
        /\ IF taken /\ ~ok THEN code = 451 ELSE (code = 250) = ok
        /\ Smtpd!Reply(code)
  <2>1. PICK hops \in BOOLEAN, over \in BOOLEAN, taken \in BOOLEAN, ok \in BOOLEAN :
         /\ ok => taken
         /\ taken /\ ~ok => QqCrashes
         /\ queued' = IF taken THEN Append(queued, [from |-> sess.mailfrom, to |-> sess.rcptto])
                      ELSE queued
         /\ \E code \in (IF taken /\ ~ok THEN {451} ELSE Smtpd!Codes(hops, over, ok)) :
              Smtpd!Reply(code)
    BY DEF Smtpd!QqClose
  <2>2. PICK code \in (IF taken /\ ~ok THEN {451} ELSE Smtpd!Codes(hops, over, ok)) :
              Smtpd!Reply(code)
    BY <2>1
  <2>3. /\ code \in {250, 451, 552, 554}
        /\ IF taken /\ ~ok THEN code = 451 ELSE (code = 250) = ok
    BY <2>2 DEF Smtpd!Codes
  <2> QED
    BY <2>1, <2>2, <2>3
<1>3. sess' = [sess EXCEPT !.pc = "commands"] /\ UNCHANGED <<up, c2s>>
  BY DEF Smtpd!QqClose
<1>4. sess' \in Sessions /\ sess'.pc = "commands" /\ ~sess'.flagbarf
  BY <1>1, <1>3, Moved
<1>5. s2c' \in Seq(Nat) /\ ssout' \in Seq(Nat) /\ OnItsWay(code)' /\ code \in Nat
  BY <1>1, <1>2, <1>3, ReplyGoes
<1>6. PICK q \in [from : Addresses, to : Seq(Accepted)] :
         q = [from |-> sess.mailfrom, to |-> sess.rcptto]
  BY <1>1 DEF Sessions
<1>7. q.from = From /\ q.to = sess.rcptto /\ Listed(sess.rcptto, Len(To), OkOnes)
  BY <1>1, <1>6 DEF Envelope
<1>8. CASE taken
  <2>1. queued' = Append(queued, q)
    BY <1>2, <1>6, <1>8
  <2>2. queued' \in Seq([from : Addresses, to : Seq(Accepted)]) /\ Len(queued') = 1
        /\ queued'[1] = q
    <3> PICK n \in Nat : n = Len(queued)
      BY <1>1
    <3>1. n = 0
      BY <1>1 DEF Empty
    <3>2. Len(queued') = n + 1 /\ queued'[n + 1] = q
      BY <1>1, <2>1
    <3> QED
      BY <1>1, <2>1, <3>1, <3>2
  <2>3. queued'[1].from = From /\ queued'[1].to = sess.rcptto
    BY <1>7, <2>2
  <2>4. Listed(queued'[1].to, Len(To), OkOnes)
    BY <1>7, <2>3, Zenon
  <2>5. Message'
    BY <2>2, <2>3, <2>4 DEF Message
  <2>6. Answer(code)'
    BY <1>2, <1>8, <2>5 DEF Answer, Neutral
  <2> QED
    BY <1>1, <1>3, <1>4, <1>5, <2>2, <2>6 DEF Ended, ServerTypes, Empty
<1>9. CASE ~taken
  <2>1. queued' = queued
    BY <1>2, <1>9
  <2>2. Empty(queued)'
    BY <1>1, <2>1 DEF Empty
  <2>3. Answer(code)'
    BY <1>2, <1>9, <2>2 DEF Answer
  <2> QED
    BY <1>1, <1>3, <1>4, <1>5, <2>1, <2>3 DEF Ended, ServerTypes, Empty
<1> QED
  BY <1>8, <1>9

\* The dot is on its way, or answered, or the server dies before that.
LEMMA EndingMoves ==
    ASSUME RemoteConstants, ServerTypes, Ending, ServerMoves
    PROVE  ServerTypes' /\ (Ending' \/ Ended' \/ DeadEnded')
<1>0. Envelope(Len(To)) /\ Silent /\ Empty(queued)
  BY DEF Ending
<1>1. CASE Smtpd!Server
  <2>1. CASE sess.pc = "close"
    <3>1. Smtpd!QqClose
      BY <1>1, <2>1 DEF Smtpd!Server, Smtpd!Flush, Smtpd!ReadCommand, Smtpd!OtherCommand,
         Smtpd!SmtpQuit, Smtpd!SmtpHeloRset, Smtpd!SmtpMail, Smtpd!SmtpRcpt, Smtpd!SmtpData,
         Smtpd!ReadText, Smtpd!Fun
    <3> QED
      BY <1>0, <2>1, <3>1, ClosingGoes
  <2>2. CASE sess.pc = "blast"
    <3>1. Smtpd!Flush \/ Smtpd!ReadText
      BY <1>1, <2>2 DEF Smtpd!Server, Smtpd!ReadCommand, Smtpd!OtherCommand,
         Smtpd!SmtpQuit, Smtpd!SmtpHeloRset, Smtpd!SmtpMail, Smtpd!SmtpRcpt, Smtpd!SmtpData,
         Smtpd!QqClose, Smtpd!Fun
    <3>2. /\ ServerTypes' /\ UNCHANGED <<up, s2c, ssout, queued>>
          /\ Len(c2s) > 0 /\ Len(c2s') = Len(c2s) - 1
          /\ \A j \in 1 .. Len(c2s') : c2s'[j] = c2s[j + 1]
          /\ IF c2s[1].verb = "dot" THEN sess'.pc = "close" /\ sess'.cmd = c2s[1]
             ELSE sess'.pc = "blast"
          /\ sess'.mailfrom = sess.mailfrom /\ sess'.rcptto = sess.rcptto
      BY <1>0, <3>1, FlushGoes, TextGoes
    <3>3. PICK n \in Nat : n = Len(c2s')
      BY <3>2 DEF ServerTypes
    <3>4. Len(c2s) = n + 1
      BY <3>2, <3>3 DEF ServerTypes
    <3>5. \A j \in 1 .. n + 1 : c2s[j].verb = "text" \/ (c2s[j].verb = "dot" /\ j = n + 1)
      BY <2>2, <3>4 DEF Ending
    <3>6. Envelope(Len(To))' /\ Silent' /\ Empty(queued)'
      BY <1>0, <3>2 DEF Envelope, Silent, Empty
    <3>7. CASE c2s[1].verb = "dot"
      <4>1. n = 0
        BY <3>5, <3>7
      <4>2. Empty(c2s)'
        BY <3>3, <4>1 DEF Empty
      <4> QED
        BY <3>2, <3>6, <3>7, <4>2 DEF Ending
    <3>8. CASE c2s[1].verb # "dot"
      <4>1. \A j \in 1 .. n : c2s'[j].verb = "text" \/ (c2s'[j].verb = "dot" /\ j = n)
        BY <3>2, <3>3, <3>5
      <4>2. (\A j \in 1 .. Len(c2s) : c2s[j].verb = "text" \/ (c2s[j].verb = "dot" /\ j = Len(c2s)))'
        BY <3>3, <4>1
      <4> QED
        BY <3>2, <3>6, <3>8, <4>2 DEF Ending
    <3> QED
      BY <3>7, <3>8
  <2> QED
    BY <2>1, <2>2 DEF Ending
<1>2. CASE Smtpd!DieRead \/ Smtpd!Dies
  <2>1. /\ ServerTypes' /\ Dead' /\ UNCHANGED <<c2s, queued>>
        /\ (Len(s2c) > 0 => Neutral(s2c[1]) /\ s2c[1] \in Nat)'
    BY <1>0, <1>2, Dying, Leaving
  <2>2. Empty(queued)'
    BY <1>0, <2>1 DEF Empty
  <2>3. (Len(s2c) > 0 => Answer(s2c[1]))'
    <3>1. \A code \in Nat : Neutral(code) => Answer(code)'
      BY <2>2 DEF Answer, Neutral
    <3> QED
      BY <2>1, <3>1
  <2> QED
    BY <2>1, <2>3 DEF DeadEnded
<1>3. CASE Smtpd!Breaks
  <2>1. /\ ServerTypes' /\ UNCHANGED <<sess, queued>> /\ Silent'
        /\ Len(c2s') <= Len(c2s) /\ \A j \in 1 .. Len(c2s') : c2s'[j] = c2s[j]
    BY <1>0, <1>3, BreakGoes
  <2>2. Envelope(Len(To))' /\ Empty(queued)'
    BY <1>0, <2>1 DEF Envelope, Empty
  <2>3. PICK n \in Nat : n = Len(c2s)
    BY DEF ServerTypes
  <2>4. PICK m \in Nat : m = Len(c2s')
    BY <2>1 DEF ServerTypes
  <2>5. CASE sess.pc = "blast"
    <3>1. \A j \in 1 .. n : c2s[j].verb = "text" \/ (c2s[j].verb = "dot" /\ j = n)
      BY <2>3, <2>5 DEF Ending
    <3>2. \A j \in 1 .. m : c2s'[j].verb = "text" \/ (c2s'[j].verb = "dot" /\ j = m)
      BY <2>1, <2>3, <2>4, <3>1
    <3>3. (\A j \in 1 .. Len(c2s) : c2s[j].verb = "text" \/ (c2s[j].verb = "dot" /\ j = Len(c2s)))'
      BY <2>4, <3>2
    <3> QED
      BY <2>1, <2>2, <2>5, <3>3 DEF Ending
  <2>6. CASE sess.pc = "close"
    <3>1. n = 0
      BY <2>3, <2>6 DEF Ending, Empty
    <3>2. Empty(c2s)'
      BY <2>1, <2>3, <2>4, <3>1 DEF Empty
    <3> QED
      BY <2>1, <2>2, <2>6, <3>2 DEF Ending
  <2> QED
    BY <2>5, <2>6 DEF Ending
<1> QED
  BY <1>1, <1>2, <1>3 DEF ServerMoves

\* The answer to the dot stays one.
LEMMA EndedMoves ==
    ASSUME ServerTypes, Ended, ServerMoves
    PROVE  ServerTypes' /\ (Ended' \/ DeadEnded')
<1>1. PICK code \in Nat : OnItsWay(code) /\ Answer(code)
  BY DEF Ended
<1>2. Empty(c2s) /\ sess.pc = "commands"
  BY DEF Ended
<1>3. ASSUME UNCHANGED queued
      PROVE  Answer(code)'
  BY <1>1, <1>3 DEF Answer, Empty, Message
<1>4. CASE Smtpd!Server
  <2>1. /\ ServerTypes' /\ UNCHANGED <<up, c2s, sess, queued>> /\ OnItsWay(code)'
    BY <1>1, <1>2, <1>4, Idle, FlushGoes
  <2> QED
    BY <1>2, <1>3, <2>1 DEF Ended, Empty
<1>5. CASE Smtpd!DieRead \/ Smtpd!Dies
  <2>1. /\ ServerTypes' /\ Dead' /\ UNCHANGED <<c2s, queued>>
        /\ (Len(s2c) > 0 => s2c[1] = code)'
    BY <1>1, <1>5, Dying, Leaving
  <2> QED
    BY <1>3, <2>1 DEF DeadEnded
<1>6. CASE Smtpd!Breaks
  <2>1. /\ ServerTypes' /\ UNCHANGED <<sess, queued>> /\ OnItsWay(code)' /\ Len(c2s') <= Len(c2s)
    BY <1>1, <1>6, BreakGoes
  <2>2. Empty(c2s)'
    BY <1>2, <2>1 DEF Empty, ServerTypes
  <2> QED
    BY <1>2, <1>3, <2>1, <2>2 DEF Ended
<1> QED
  BY <1>4, <1>5, <1>6 DEF ServerMoves

\* What an answer of any command leaves.
LEMMA AnswerHarmless ==
    ASSUME ServerTypes, NEW code \in Nat, NEW s \in Sessions, ~s.flagbarf, sess.pc = "fun",
           Smtpd!Answer(code, s)
    PROVE  ServerTypes' /\ UNCHANGED queued /\ (Harmless => Harmless')
<1>1. ServerTypes' /\ UNCHANGED <<up, c2s, queued>> /\ sess'.pc = "commands"
  BY AnswerGoes
<1> QED
  BY <1>1 DEF Harmless

\* No command puts a message into the queue.
LEMMA FunMoves ==
    ASSUME RemoteConstants, ServerTypes, sess.pc = "fun",
           \/ Smtpd!OtherCommand \/ Smtpd!SmtpQuit \/ Smtpd!SmtpHeloRset
           \/ Smtpd!SmtpMail \/ Smtpd!SmtpRcpt \/ Smtpd!SmtpData
    PROVE  ServerTypes' /\ UNCHANGED queued /\ (Harmless => Harmless')
<1>0. /\ sess \in Sessions /\ ~sess.flagbarf /\ sess.cmd.arg \in Addresses
  BY DEF ServerTypes, Sessions, Lines
<1>n. 221 \in Nat /\ 250 \in Nat /\ 354 \in Nat /\ 451 \in Nat /\ 502 \in Nat /\ 503 \in Nat
      /\ 553 \in Nat /\ 555 \in Nat
  OBVIOUS
<1>1. CASE Smtpd!OtherCommand
  <2>1. Smtpd!Answer(250, sess) \/ Smtpd!Answer(502, sess)
    BY <1>1 DEF Smtpd!OtherCommand
  <2> QED
    BY <1>0, <1>n, <2>1, AnswerHarmless
<1>2. CASE Smtpd!SmtpQuit
  <2>1. Smtpd!ReplyExit(221)
    BY <1>2 DEF Smtpd!SmtpQuit
  <2> QED
    BY <1>n, <2>1, ExitGoes DEF ServerTypes, Harmless
<1>3. CASE Smtpd!SmtpHeloRset
  <2>1. PICK s : s = [sess EXCEPT !.seenmail = FALSE]
    OBVIOUS
  <2>2. Smtpd!Answer(250, s) /\ s \in Sessions /\ ~s.flagbarf
    BY <1>0, <1>3, <2>1, Forgotten DEF Smtpd!SmtpHeloRset
  <2> QED
    BY <1>n, <2>2, AnswerHarmless
<1>4. CASE Smtpd!SmtpMail
  <2>1. Smtpd!Answer(555, sess) \/ Smtpd!Answer(250, Smtpd!NewMail(sess, sess.cmd.arg))
    BY <1>4 DEF Smtpd!SmtpMail
  <2>2. PICK s : s = Smtpd!NewMail(sess, sess.cmd.arg)
    OBVIOUS
  <2>3. s \in Sessions /\ ~s.flagbarf
    BY <1>0, <2>2, Renewed
  <2>4. Smtpd!Answer(555, sess) \/ Smtpd!Answer(250, s)
    BY <2>1, <2>2, Zenon
  <2> QED
    BY <1>0, <1>n, <2>3, <2>4, AnswerHarmless
<1>5. CASE Smtpd!SmtpRcpt
  <2>1. CASE sess.seenmail
    <3>1. PICK a \in Addresses : a = sess.cmd.arg
      BY <1>0
    <3>2. PICK code \in Nat : \E s : RcptIs(a, code, s)
      BY <1>5, <2>1, <3>1, RcptAnswer
    <3>3. PICK s : RcptIs(a, code, s)
      BY <3>2
    <3>4. s \in Sessions /\ ~s.flagbarf /\ Smtpd!Answer(code, s)
      BY <3>3 DEF RcptIs
    <3> QED
      BY <3>4, AnswerHarmless
  <2>2. CASE ~sess.seenmail
    <3>1. Smtpd!Answer(503, sess)
      BY <1>5, <2>2 DEF Smtpd!SmtpRcpt
    <3> QED
      BY <1>0, <1>n, <3>1, AnswerHarmless
  <2> QED
    BY <2>1, <2>2
<1>6. CASE Smtpd!SmtpData
  <2>1. PICK s : s = Smtpd!DataStarts(sess)
    OBVIOUS
  <2>2. s \in Sessions /\ ~s.flagbarf
    BY <1>0, <2>1, Forgotten DEF Smtpd!DataStarts
  <2>3. \/ Smtpd!Answer(503, sess) \/ Smtpd!Answer(451, s)
        \/ /\ Smtpd!Reply(354) /\ sess' = [s EXCEPT !.pc = "blast"]
           /\ UNCHANGED <<up, c2s, queued>>
    BY <1>6, <2>1 DEF Smtpd!SmtpData
  <2>4. CASE /\ Smtpd!Reply(354) /\ sess' = [s EXCEPT !.pc = "blast"]
             /\ UNCHANGED <<up, c2s, queued>>
    <3>1. sess' \in Sessions /\ sess'.pc = "blast" /\ ~sess'.flagbarf
      BY <2>2, <2>4, Moved
    <3>2. s2c' \in Seq(Nat) /\ ssout' \in Seq(Nat)
      BY <1>n, <2>4, ReplyGoes
    <3> QED
      BY <2>4, <3>1, <3>2 DEF ServerTypes, Harmless
  <2>5. CASE Smtpd!Answer(503, sess)
    BY <1>0, <1>n, <2>5, AnswerHarmless
  <2>6. CASE Smtpd!Answer(451, s)
    BY <1>n, <2>2, <2>6, AnswerHarmless
  <2> QED
    BY <2>3, <2>4, <2>5, <2>6
<1> QED
  BY <1>1, <1>2, <1>3, <1>4, <1>5, <1>6

\* Types after the end of a message.
LEMMA CloseTypes ==
    ASSUME ServerTypes, Smtpd!QqClose
    PROVE  ServerTypes'
<1>1. PICK code \in {250, 451, 552, 554} : Smtpd!Reply(code)
  BY DEF Smtpd!QqClose, Smtpd!Codes
<1>2. sess \in Sessions /\ ~sess.flagbarf
  BY DEF ServerTypes
<1>3. sess' = [sess EXCEPT !.pc = "commands"] /\ UNCHANGED <<up, c2s>>
  BY DEF Smtpd!QqClose
<1>4. sess' \in Sessions /\ ~sess'.flagbarf
  BY <1>2, <1>3, Moved
<1>5. s2c' \in Seq(Nat) /\ ssout' \in Seq(Nat)
  BY <1>1, <1>3, ReplyGoes
<1>6. PICK q \in [from : Addresses, to : Seq(Accepted)] :
         q = [from |-> sess.mailfrom, to |-> sess.rcptto]
  BY <1>2 DEF Sessions
<1>7. queued' \in {queued, Append(queued, q)}
  BY <1>6 DEF Smtpd!QqClose
<1>8. queued' \in Seq([from : Addresses, to : Seq(Accepted)])
  <2>1. PICK E : E = [from : Addresses, to : Seq(Accepted)]
    OBVIOUS
  <2>2. queued \in Seq(E) /\ q \in E
    BY <2>1 DEF ServerTypes
  <2>3. Append(queued, q) \in Seq(E)
    BY <2>2
  <2>4. queued' = queued \/ queued' = Append(queued, q)
    BY <1>7
  <2>5. CASE queued' = queued
    BY <2>1, <2>2, <2>5
  <2>6. CASE queued' = Append(queued, q)
    BY <2>1, <2>3, <2>6
  <2> QED
    BY <2>4, <2>5, <2>6
<1> QED
  BY <1>3, <1>4, <1>5, <1>8 DEF ServerTypes

\* Only the dot puts a message into the queue.
LEMMA AnyMoves ==
    ASSUME RemoteConstants, ServerTypes, ServerMoves
    PROVE  ServerTypes' /\ (Harmless => Harmless' /\ UNCHANGED queued)
<1>1. CASE Smtpd!QqClose
  BY <1>1, CloseTypes DEF Harmless, Smtpd!QqClose
<1>2. CASE Smtpd!Flush
  BY <1>2, FlushGoes DEF Harmless
<1>3. CASE Smtpd!ReadCommand
  <2>1. /\ ServerTypes' /\ UNCHANGED queued /\ c2s' = Tail(c2s) /\ Len(c2s) > 0
        /\ sess'.pc = "fun" /\ sess.pc = "commands"
    BY <1>3, ReadGoes
  <2>2. PICK n \in Nat : n = Len(c2s')
    <3>1. c2s' \in Seq(Lines)
      BY <2>1 DEF ServerTypes
    <3> QED
      BY <3>1
  <2>3. Len(c2s) = n + 1 /\ \A j \in 1 .. n : c2s'[j] = c2s[j + 1]
    BY <2>1, <2>2 DEF ServerTypes
  <2>4. ASSUME \A j \in 1 .. Len(c2s) : c2s[j].verb # "dot", NEW j \in 1 .. n
        PROVE  c2s'[j].verb # "dot"
    <3>1. j + 1 \in 1 .. Len(c2s)
      BY <2>3
    <3> QED
      BY <2>3, <2>4, <3>1
  <2> QED
    BY <2>1, <2>2, <2>4 DEF Harmless
<1>4. CASE \/ Smtpd!OtherCommand \/ Smtpd!SmtpQuit \/ Smtpd!SmtpHeloRset
           \/ Smtpd!SmtpMail \/ Smtpd!SmtpRcpt \/ Smtpd!SmtpData
  <2>1. sess.pc = "fun"
    BY <1>4 DEF Smtpd!OtherCommand, Smtpd!SmtpQuit, Smtpd!SmtpHeloRset,
       Smtpd!SmtpMail, Smtpd!SmtpRcpt, Smtpd!SmtpData, Smtpd!Fun
  <2> QED
    BY <1>4, <2>1, FunMoves
<1>5. CASE Smtpd!ReadText
  <2>1. /\ ServerTypes' /\ UNCHANGED <<up, s2c, ssout, queued>>
        /\ sess.pc = "blast" /\ Len(c2s) > 0 /\ Len(c2s') = Len(c2s) - 1
        /\ \A j \in 1 .. Len(c2s') : c2s'[j] = c2s[j + 1]
        /\ c2s[1].verb # "dot" => sess'.pc = "blast"
    BY <1>5, TextGoes
  <2>2. PICK n \in Nat : n = Len(c2s')
    BY <2>1 DEF ServerTypes
  <2>3. Len(c2s) = n + 1
    BY <2>1, <2>2 DEF ServerTypes
  <2>4. ASSUME \A j \in 1 .. n + 1 : c2s[j].verb # "dot"
        PROVE  c2s[1].verb # "dot" /\ \A j \in 1 .. n : c2s'[j].verb # "dot"
    BY <2>1, <2>2, <2>4
  <2> QED
    BY <2>1, <2>2, <2>3, <2>4 DEF Harmless
<1>6. CASE Smtpd!DieRead \/ Smtpd!Dies
  BY <1>6, DieReadGoes, DiesGoes DEF Harmless
<1>7. CASE Smtpd!Breaks
  <2>1. /\ ServerTypes' /\ UNCHANGED <<sess, queued>>
        /\ Len(c2s') <= Len(c2s) /\ \A j \in 1 .. Len(c2s') : c2s'[j] = c2s[j]
    BY <1>7, BreakGoes
  <2>2. PICK n \in Nat : n = Len(c2s)
    BY DEF ServerTypes
  <2>3. PICK m \in Nat : m = Len(c2s')
    BY <2>1 DEF ServerTypes
  <2> QED
    BY <2>1, <2>2, <2>3 DEF Harmless
<1> QED
  BY <1>1, <1>2, <1>3, <1>4, <1>5, <1>6, <1>7 DEF ServerMoves, Smtpd!Server

\* From a lost server no step is left.
LEMMA NothingLost ==
    ASSUME ServerTypes, ServerMoves
    PROVE  ~Lost /\ ~Dead
BY NothingAfterExit DEF Lost, Dead

\* The steps of the server and of the network keep the invariant.
LEMMA ServerKeeps ==
    ASSUME RemoteConstants, RemoteInv, rem.pc # "connect", UNCHANGED <<rem, report>>, ServerMoves
    PROVE  RemoteInv'
<1>0. /\ ServerTypes /\ ClientTypes /\ InStep /\ Reporting /\ (Deferred => Lost)
      /\ (Done => Concluded)
  BY DEF RemoteInv
<1>1. ServerTypes'
  BY <1>0, AnyMoves
<1>2. ClientTypes' /\ Reporting' /\ ~Deferred' /\ rem \in Clients
  BY <1>0, NothingLost DEF ClientTypes, Reporting, Told, About, Deferred, Done, Clients
<1>3. CASE rem.pc \in Asking
  <2>1. Empty(queued) /\ (Asked \/ Answered)
    BY <1>0, <1>3, NothingLost DEF InStep, DeadAsked
  <2>2. rem.pc = "rcpt" => rem.i <= Len(To)
    BY <1>0 DEF Reporting, Done
  <2>3. Empty(queued)' /\ (Asked' \/ Answered' \/ DeadAsked')
    BY <1>0, <1>2, <1>3, <2>1, <2>2, AskedMoves, AnsweredMoves
  <2> QED
    BY <1>0, <1>1, <1>2, <1>3, <2>3 DEF RemoteInv, InStep, Asking, Done
<1>4. CASE rem.pc \in {"blast", "dot"}
  <2>1. Empty(queued) /\ InText /\ (rem.pc = "blast" => Empty(c2s)) /\ (rem.pc = "dot" => Texts)
    BY <1>0, <1>4, NothingLost DEF InStep, DeadAsked
  <2>2. Texts
    BY <1>4, <2>1 DEF Texts, Empty, ServerTypes
  <2>3. /\ Empty(queued)'
        /\ \/ InText' /\ Texts' /\ (Empty(c2s) => Empty(c2s)')
           \/ DeadAsked'
    BY <1>0, <1>4, <2>1, <2>2, TextMoves
  <2>4. InStep'
    BY <1>0, <1>4, <2>1, <2>3 DEF InStep, Asking
  <2> QED
    BY <1>1, <1>2, <1>4, <2>4 DEF RemoteInv, Done
<1>5. CASE rem.pc = "final"
  <2>1. Ending \/ Ended
    BY <1>0, <1>5, NothingLost DEF InStep, DeadEnded
  <2>2. Ending' \/ Ended' \/ DeadEnded'
    BY <1>0, <2>1, EndingMoves, EndedMoves
  <2>3. InStep'
    BY <1>0, <1>5, <2>2 DEF InStep, Asking
  <2> QED
    BY <1>1, <1>2, <1>5, <2>3 DEF RemoteInv, Done
<1>6. CASE rem.pc = "verdict"
  <2>1. Harmless' /\ UNCHANGED queued /\ Answer(rem.code)
    BY <1>0, <1>6, AnyMoves DEF InStep
  <2>2. Answer(rem.code)'
    BY <2>1 DEF Answer, Empty, Message
  <2>3. InStep'
    BY <1>0, <1>6, <2>1, <2>2 DEF InStep, Asking
  <2> QED
    BY <1>1, <1>2, <1>6, <2>3 DEF RemoteInv, Done
<1>7. CASE rem.pc = "done"
  <2>1. Concluded
    BY <1>0, <1>7 DEF Done
  <2>2. UNCHANGED queued => (Answer(rem.code) => Answer(rem.code)') /\ (Empty(queued) => Empty(queued)')
    BY DEF Answer, Empty, Message
  <2>3. Result' = Result
    BY DEF Result
  <2>4. Concluded'
    BY <1>0, <2>1, <2>2, <2>3, AnyMoves DEF Concluded
  <2>5. InStep'
    BY <1>7 DEF InStep, Asking
  <2> QED
    BY <1>1, <1>2, <1>7, <2>4, <2>5 DEF RemoteInv
<1> QED
  BY <1>2, <1>3, <1>4, <1>5, <1>6, <1>7 DEF Clients

-----------------------------------------------------------------------------
(* The client: what it has reported.                                       *)
Reports(r, k) ==
    /\ r \in Seq(Letters) /\ Len(r) = 2 * k
    /\ \A i \in 1 .. k : /\ r[2 * i] = NUL
                         /\ \/ r[2 * i - 1] = "r" /\ Ok(To[i])
                            \/ r[2 * i - 1] = "h" /\ ~Ok(To[i])
                            \/ r[2 * i - 1] = "s"
    /\ (\E i \in 1 .. k : r[2 * i - 1] = "s") => Lost

LEMMA Pair ==
    ASSUME NEW S, NEW a \in S, NEW b \in S
    PROVE  <<a, b>> \in Seq(S) /\ Len(<<a, b>>) = 2 /\ <<a, b>>[1] = a /\ <<a, b>>[2] = b
OBVIOUS

Longer(t, r, a, b) ==
    /\ t \in Seq(Letters) /\ Len(t) = Len(r) + 2 /\ \A j \in 1 .. Len(r) : t[j] = r[j]
    /\ t[Len(r) + 1] = a /\ t[Len(r) + 2] = b

\* A letter and its NUL.
LEMMA TwoMore ==
    ASSUME NEW r \in Seq(Letters), NEW a \in Letters, NEW b \in Letters
    PROVE  Longer(r \o <<a, b>>, r, a, b)
<1> PICK u \in Seq(Letters) : u = <<a, b>> /\ Len(u) = 2 /\ u[1] = a /\ u[2] = b
  <2>1. <<a, b>> \in Seq(Letters) /\ Len(<<a, b>>) = 2 /\ <<a, b>>[1] = a /\ <<a, b>>[2] = b
    BY Pair
  <2> QED
    BY <2>1, Zenon
<1> PICK n \in Nat : n = Len(r)
  OBVIOUS
<1> DEFINE t == r \o u
<1>2. /\ t \in Seq(Letters) /\ Len(t) = Len(r) + Len(u)
      /\ \A j \in 1 .. Len(r) : t[j] = r[j]
      /\ \A j \in 1 .. Len(u) : t[Len(r) + j] = u[j]
  BY Joined
<1> HIDE DEF t
<1>3. /\ t \in Seq(Letters) /\ Len(t) = n + Len(u) /\ \A j \in 1 .. n : t[j] = r[j]
      /\ \A j \in 1 .. Len(u) : t[n + j] = u[j]
  BY <1>2
<1>4. Len(t) = n + 2 /\ \A j \in 1 .. 2 : t[n + j] = u[j]
  BY <1>3
<1>5. t[n + 1] = a /\ t[n + 2] = b
  BY <1>4
<1>6. Longer(t, r, a, b)
  BY <1>3, <1>4, <1>5 DEF Longer
<1> QED
  BY <1>6, Zenon DEF t

\* The report has a string for each recipient that was answered.
LEMMA SoFar ==
    ASSUME RemoteConstants, RemoteInv, rem.pc # "done"
    PROVE  rem.i - 1 \in 0 .. Len(To) /\ Reports(report, rem.i - 1)
<1>1. /\ Len(report) = 2 * (rem.i - 1) /\ Told(rem.i - 1) /\ report \in Seq(Letters)
      /\ rem.i \in 1 .. Len(To) + 1 /\ (Deferred => Lost)
  BY DEF RemoteInv, Reporting, Done, ClientTypes, Clients
<1>2. Len(To) \in Nat
  BY DEF RemoteConstants
<1>3. PICK k \in 0 .. Len(To) : k = rem.i - 1
  BY <1>1, <1>2
<1>4. ASSUME NEW i \in 1 .. k, report[2 * i - 1] = "s"
      PROVE  Lost
  <2>1. i \in 1 .. Len(To) /\ 2 * i < 2 * k + 1
    BY <1>2
  <2> QED
    BY <1>1, <1>3, <1>4, <2>1 DEF Deferred, About
<1> QED
  BY <1>1, <1>3, <1>4 DEF Reports, Told, About

\* A recipient is reported on.
LEMMA MoreReported ==
    ASSUME RemoteConstants, NEW k \in Nat, k < Len(To), NEW r, Reports(r, k), NEW c,
           \/ c = "r" /\ Ok(To[k + 1])
           \/ c = "h" /\ ~Ok(To[k + 1])
           \/ c = "s" /\ Lost
    PROVE  Reports(r \o <<c, NUL>>, k + 1)
<1> PICK t : t = r \o <<c, NUL>>
  OBVIOUS
<1>1. r \in Seq(Letters) /\ Len(r) = 2 * k /\ c \in Letters /\ NUL \in Letters
  BY DEF Reports, Letters
<1>2. /\ t \in Seq(Letters) /\ Len(t) = 2 * k + 2 /\ \A j \in 1 .. 2 * k : t[j] = r[j]
      /\ t[2 * k + 1] = c /\ t[2 * k + 2] = NUL
  <2> PICK n \in Nat : n = 2 * k /\ Len(r) = n
    BY <1>1
  <2>1. Longer(r \o <<c, NUL>>, r, c, NUL)
    BY <1>1, TwoMore
  <2>2. Longer(t, r, c, NUL)
    BY <2>1, Zenon
  <2> QED
    BY <2>2 DEF Longer
<1>3. ASSUME NEW i \in 1 .. k
      PROVE  t[2 * i] = r[2 * i] /\ t[2 * i - 1] = r[2 * i - 1]
  <2>1. 2 * i \in 1 .. 2 * k /\ 2 * i - 1 \in 1 .. 2 * k
    OBVIOUS
  <2> QED
    BY <1>2, <2>1
<1>4. \A i \in 1 .. k + 1 : i \in 1 .. k \/ i = k + 1
  OBVIOUS
<1>5. /\ 2 * (k + 1) = 2 * k + 2 /\ 2 * (k + 1) - 1 = 2 * k + 1
  OBVIOUS
<1>6. ASSUME NEW i \in 1 .. k + 1
      PROVE  /\ t[2 * i] = NUL
             /\ \/ t[2 * i - 1] = "r" /\ Ok(To[i])
                \/ t[2 * i - 1] = "h" /\ ~Ok(To[i])
                \/ t[2 * i - 1] = "s" /\ Lost
  <2>1. CASE i \in 1 .. k
    BY <1>3, <2>1 DEF Reports
  <2>2. CASE i = k + 1
    <3>1. t[2 * i] = t[2 * k + 2] /\ t[2 * i - 1] = t[2 * k + 1]
      BY <1>5, <2>2
    <3> QED
      BY <1>2, <2>2, <3>1
  <2> QED
    BY <1>4, <2>1, <2>2
<1>7. Len(t) = 2 * (k + 1)
  BY <1>2
<1>8. Reports(t, k + 1)
  BY <1>2, <1>6, <1>7 DEF Reports
<1> QED
  BY <1>8

\* The last letter.
LEMMA LastReported ==
    ASSUME RemoteConstants, NEW k \in Nat, k <= Len(To), NEW r, Reports(r, k),
           NEW letter \in {"K", "Z", "D", "Zdup"}, report' = r \o <<letter, NUL>>
    PROVE  /\ report' \in Seq(Letters) /\ Len(report') = 2 * k + 2 /\ report'[2 * k + 2] = NUL
           /\ Told(k)' /\ Result' = letter /\ (Deferred' => Lost)
<1>1. r \in Seq(Letters) /\ Len(r) = 2 * k /\ letter \in Letters /\ NUL \in Letters
      /\ Len(To) \in Nat
  BY DEF Reports, Letters, RemoteConstants
<1>2. /\ report' \in Seq(Letters) /\ Len(report') = 2 * k + 2
      /\ \A j \in 1 .. 2 * k : report'[j] = r[j]
      /\ report'[2 * k + 1] = letter /\ report'[2 * k + 2] = NUL
  <2> PICK n \in Nat : n = 2 * k /\ Len(r) = n
    BY <1>1
  <2>1. Longer(r \o <<letter, NUL>>, r, letter, NUL)
    BY <1>1, TwoMore
  <2>2. Longer(report', r, letter, NUL)
    BY <2>1, Zenon
  <2> QED
    BY <2>2 DEF Longer
<1>3. ASSUME NEW i \in 1 .. k
      PROVE  report'[2 * i] = r[2 * i] /\ report'[2 * i - 1] = r[2 * i - 1]
  <2>1. 2 * i \in 1 .. 2 * k /\ 2 * i - 1 \in 1 .. 2 * k
    OBVIOUS
  <2> QED
    BY <1>2, <2>1
<1>4. Told(k)'
  BY <1>3 DEF Told, About, Reports
<1>5. Result' = letter
  BY <1>2 DEF Result
<1>6. ASSUME NEW i \in 1 .. Len(To), 2 * i < Len(report') + 1, report'[2 * i - 1] = "s"
      PROVE  Lost
  <2>1. 2 * i < 2 * k + 3
    BY <1>2, <1>6
  <2>2. i \in 1 .. k \/ i = k + 1
    BY <1>1, <2>1
  <2>3. CASE i = k + 1
    <3>1. 2 * i - 1 = 2 * k + 1
      BY <2>3
    <3>2. letter = "s"
      BY <1>2, <1>6, <3>1
    <3> QED
      BY <3>2
  <2>4. CASE i \in 1 .. k
    BY <1>3, <1>6, <2>4 DEF Reports
  <2> QED
    BY <2>2, <2>3, <2>4
<1>7. Deferred' => Lost
  BY <1>6 DEF Deferred, About
<1> QED
  BY <1>2, <1>4, <1>5, <1>7

-----------------------------------------------------------------------------
(* The client: its steps.                                                  *)
LEMMA NothingMore ==
    ASSUME NEW S, NEW s \in Seq(S)
    PROVE  s \o <<>> = s
OBVIOUS

\* The same, where a step writes nothing.
LEMMA KnownSoFar ==
    ASSUME RemoteConstants, RemoteInv, rem.pc # "done"
    PROVE  rem.i - 1 \in 0 .. Len(To) /\ Reports(report \o <<>>, rem.i - 1)
<1>1. report \o <<>> = report
  BY NothingMore DEF RemoteInv, ClientTypes
<1>2. rem.i - 1 \in 0 .. Len(To) /\ Reports(report, rem.i - 1)
  BY SoFar
<1> QED
  BY <1>1, <1>2, Zenon

\* What has been read is gone.
LEMMA Tails ==
    ASSUME NEW s \in Seq(Nat), s # <<>>
    PROVE  /\ Tail(s) \in Seq(Nat) /\ Len(Tail(s)) = Len(s) - 1 /\ Len(s) > 0 /\ Head(s) = s[1]
           /\ \A j \in 1 .. Len(s) - 1 : Tail(s)[j] = s[j + 1]
OBVIOUS

Less == s2c' = s2c \/ (s2c # <<>> /\ s2c' = Tail(s2c))

\* What was lost stays lost.
LEMMA StillLost ==
    ASSUME ServerTypes, Lost, Less, ~up', UNCHANGED <<sess, queued>>
    PROVE  Lost'
<1>1. PICK n \in Nat : n = Len(s2c)
  BY DEF ServerTypes
<1>2. PICK m \in Nat : m = Len(s2c')
  BY Tails DEF ServerTypes, Less
<1>3. m <= n /\ \A j \in 1 .. m : \E k \in 1 .. n : s2c'[j] = s2c[k]
  <2>1. CASE s2c' = s2c
    BY <1>1, <1>2, <2>1
  <2>2. CASE s2c # <<>> /\ s2c' = Tail(s2c)
    <3>1. m = n - 1 /\ \A j \in 1 .. n - 1 : s2c'[j] = s2c[j + 1]
      BY <1>1, <1>2, <2>2, Tails DEF ServerTypes
    <3>2. \A j \in 1 .. n - 1 : j + 1 \in 1 .. n
      OBVIOUS
    <3> QED
      BY <3>1, <3>2
  <2> QED
    BY <2>1, <2>2 DEF Less
<1>4. \A j \in 1 .. m : Neutral(s2c'[j])
  BY <1>1, <1>3 DEF Lost
<1> QED
  BY <1>2, <1>4 DEF Lost, Empty

Ends(letter, k) ==
    \/ letter = "Zdup"
    \/ Harmless /\ Empty(queued) /\ letter \in {"Z", "D"}
    \/ Harmless /\ Answer(rem.code) /\ letter \in {Class(rem.code), "Z"} /\ k = Len(To)

\* The client ends with a letter that the server bears out.
LEMMA ClientEnds ==
    ASSUME RemoteConstants, RemoteInv, NEW k \in Nat, k <= Len(To), NEW r, Reports(r, k),
           NEW letter, report' = r \o <<letter, NUL>>, rem' = [rem EXCEPT !.pc = "done"],
           up' = FALSE, UNCHANGED <<ssout, sess, queued>>, Less,
           c2s' = c2s \/ c2s' = Append(c2s, Say("quit", NoArg)), Ends(letter, k)
    PROVE  RemoteInv'
<1>0. ServerTypes /\ rem \in Clients
  BY DEF RemoteInv, ClientTypes
<1>1. letter \in {"K", "Z", "D", "Zdup"}
  BY DEF Ends, Class
<1>2. /\ report' \in Seq(Letters) /\ Len(report') = 2 * k + 2 /\ report'[2 * k + 2] = NUL
      /\ Told(k)' /\ Result' = letter /\ (Deferred' => Lost)
  BY <1>1, LastReported
<1>3. rem' \in Clients /\ rem'.pc = "done" /\ rem'.code = rem.code
  BY <1>0 DEF Clients
<1>4. Deferred' => Lost'
  BY <1>0, <1>2, StillLost
<1>q. PICK q \in Lines : q = Say("quit", NoArg) /\ q.verb = "quit"
  BY DEF Say, Lines, Addresses
<1>c. c2s \in Seq(Lines)
  BY <1>0 DEF ServerTypes
<1>d. c2s' = c2s \/ c2s' = Append(c2s, q)
  BY <1>q, Zenon
<1>5. c2s' \in Seq(Lines)
  <2>1. PICK L : L = Lines
    OBVIOUS
  <2>2. c2s \in Seq(L) /\ q \in L
    BY <1>c, <2>1
  <2>3. Append(c2s, q) \in Seq(L)
    BY <2>2
  <2> QED
    BY <1>d, <2>1, <2>2, <2>3, Zenon
<1>6. ServerTypes'
  <2>1. s2c' \in Seq(Nat)
    BY <1>0, Tails DEF ServerTypes, Less
  <2> QED
    BY <1>0, <1>5, <2>1 DEF ServerTypes
<1>7. ASSUME Harmless
      PROVE  Harmless'
  <2>1. PICK n \in Nat : n = Len(c2s)
    BY <1>c
  <2>2. CASE c2s' = c2s
    BY <1>7, <2>2 DEF Harmless
  <2>3. CASE c2s' = Append(c2s, q)
    <3>1. Len(c2s') = n + 1 /\ c2s'[n + 1] = q /\ \A j \in 1 .. n : c2s'[j] = c2s[j]
      BY <1>c, <2>1, <2>3
    <3>2. \A j \in 1 .. n + 1 : j \in 1 .. n \/ j = n + 1
      OBVIOUS
    <3>3. sess.pc # "exit" => \A j \in 1 .. n + 1 : c2s'[j].verb # "dot"
      BY <1>7, <1>q, <2>1, <3>1, <3>2 DEF Harmless
    <3> QED
      BY <1>7, <3>1, <3>3 DEF Harmless
  <2> QED
    BY <1>d, <2>2, <2>3
<1>8. Empty(queued)' = Empty(queued) /\ Answer(rem.code)' = Answer(rem.code)
      /\ Class(rem.code)' = Class(rem.code)
  BY <1>3 DEF Answer, Empty, Message, Class
<1>9. k = Len(To) => Len(report') = 2 * Len(To) + 2
  BY <1>2
<1>10. Concluded'
  BY <1>2, <1>7, <1>8, <1>9 DEF Concluded, Ends
<1>11. Reporting'
  <2>1. k \in 0 .. Len(To)
    BY DEF RemoteConstants
  <2> QED
    BY <1>2, <1>3, <2>1 DEF Reporting, Done
<1>12. InStep'
  BY <1>3 DEF InStep, Asking
<1> QED
  BY <1>2, <1>3, <1>4, <1>6, <1>10, <1>11, <1>12 DEF RemoteInv, ClientTypes

Alone == UNCHANGED <<ssout, sess, log, queued>>

\* It dies.
LEMMA DieEnds ==
    ASSUME RemoteConstants, RemoteInv, NEW k \in Nat, k <= Len(To), NEW sofar,
           Reports(report \o sofar, k), NEW letter, Die(sofar, letter), Alone, Less,
           c2s' = c2s, Ends(letter, k)
    PROVE  RemoteInv'
BY ClientEnds DEF Die, Alone

\* It quits, or dies of quitting.
LEMMA QuitEnds ==
    ASSUME RemoteConstants, RemoteInv, NEW k \in Nat, k <= Len(To), NEW sofar,
           Reports(report \o sofar, k), NEW letter, Quit(sofar, letter), Alone, Less,
           Ends(letter, k), Ends("Z", k)
    PROVE  RemoteInv'
<1>1. CASE Die(sofar, letter) /\ c2s' = IF up THEN Append(c2s, Say("quit", NoArg)) ELSE c2s
  BY <1>1, ClientEnds DEF Die, Alone
<1>2. CASE Dropped(sofar, FALSE) /\ c2s' = c2s
  <2>1. Die(sofar, "Z")
    BY <1>2 DEF Dropped
  <2> QED
    BY <1>2, <2>1, DieEnds
<1> QED
  BY <1>1, <1>2 DEF Quit

\* Until the dot is sent there is no message.
LEMMA NothingYet ==
    ASSUME RemoteConstants, RemoteInv, rem.pc \in Asking \cup {"connect", "blast", "dot"}
    PROVE  /\ Harmless /\ Empty(queued) /\ ~rem.critical
           /\ \A k : Ends("Z", k) /\ Ends("D", k)
<1>0. ServerTypes /\ InStep /\ rem \in Clients /\ (rem.pc = "rcpt" => rem.i <= Len(To))
  BY DEF RemoteInv, ClientTypes, Reporting, Done
<1>1. Empty(queued) /\ ~rem.critical
  BY <1>0 DEF InStep, Asking, RemoteInv
<1>2. rem.pc = "connect" => Harmless
  BY DEF RemoteInv, Harmless, Empty
<1>3. ASSUME rem.pc \in Asking
      PROVE  Harmless
  <2>1. CASE Asked
    <3>1. Request.verb = rem.pc
      BY <1>0, <1>3, <2>1, RequestTypes DEF Asked
    <3> QED
      BY <1>3, <2>1, <3>1 DEF Asked, Harmless, Only, Empty, Asking
  <2>2. CASE Answered
    BY <2>2 DEF Answered, After, Harmless, Empty
  <2>3. CASE DeadAsked
    BY <2>3 DEF DeadAsked, Dead, Harmless
  <2> QED
    BY <1>0, <1>3, <2>1, <2>2, <2>3 DEF InStep
<1>4. ASSUME rem.pc \in {"blast", "dot"}
      PROVE  Harmless
  BY <1>0, <1>4 DEF InStep, DeadAsked, Dead, Harmless, InText, Texts, Empty
<1>5. Harmless
  BY <1>2, <1>3, <1>4
<1> QED
  BY <1>1, <1>5 DEF Ends

\* The client goes on, and has reported on k recipients.
LEMMA GoesOn ==
    ASSUME RemoteConstants, RemoteInv, NEW k \in 0 .. Len(To), Reports(report', k),
           rem' \in Clients, rem'.pc \notin {"connect", "done"}, rem'.i = k + 1,
           rem'.pc \in {"greeting", "helo", "mail"} => k = 0,
           rem'.pc = "rcpt" => k < Len(To),
           rem'.pc \in {"data", "blast", "dot", "final", "verdict"} => k = Len(To),
           ServerTypes', InStep', ~up => ~up', Less, UNCHANGED <<sess, queued>>
    PROVE  RemoteInv'
<1>1. Len(To) \in Nat /\ k \in Nat
  BY DEF RemoteConstants
<1>2. /\ report' \in Seq(Letters) /\ Len(report') = 2 * k
      /\ \A i \in 1 .. k : /\ report'[2 * i] = NUL
                           /\ \/ report'[2 * i - 1] = "r" /\ Ok(To[i])
                              \/ report'[2 * i - 1] = "h" /\ ~Ok(To[i])
                              \/ report'[2 * i - 1] = "s"
      /\ (\E i \in 1 .. k : report'[2 * i - 1] = "s") => Lost
  BY DEF Reports
<1>3. rem'.i - 1 = k /\ ~Done'
  BY <1>1 DEF Done
<1>4. Told(k)'
  BY <1>2 DEF Told, About
<1>5. Reporting'
  BY <1>1, <1>2, <1>3, <1>4 DEF Reporting
<1>6. Lost => Lost'
  BY StillLost DEF Lost, RemoteInv
<1>7. Deferred' => Lost'
  <2>1. ASSUME NEW i \in 1 .. Len(To), 2 * i < Len(report') + 1, report'[2 * i - 1] = "s"
        PROVE  Lost'
    <3>1. i \in 1 .. k
      BY <1>1, <1>2, <2>1
    <3> QED
      BY <1>2, <1>6, <2>1, <3>1
  <2> QED
    BY <2>1 DEF Deferred, About
<1> QED
  BY <1>2, <1>3, <1>5, <1>7 DEF RemoteInv, ClientTypes

-----------------------------------------------------------------------------
(* The client: what it reads.                                              *)
Live(code) == Empty(c2s) /\ Empty(s2c') /\ (up => Empty(ssout)) /\ After(code)
Gone == /\ sess.pc = "exit" /\ ~up
        /\ Empty(s2c') \/ (Len(s2c') = 1 /\ Neutral(s2c'[1]))

\* A code is read.
LEMMA OneFewer ==
    ASSUME NEW s \in Seq(Nat), s # <<>>, NEW t, t = Tail(s)
    PROVE  /\ t \in Seq(Nat) /\ Head(s) = s[1] /\ s[1] \in Nat
           /\ Len(s) = 1 => Len(t) = 0
           /\ Len(s) = 2 => Len(t) = 1 /\ t[1] = s[2]
           /\ Len(s) # 0
OBVIOUS

\* A code that is read answers the request; or the server is gone, and a
\* code for now may have been its last word.
LEMMA Heard ==
    ASSUME RemoteInv, rem.pc \in Asking, s2c # <<>>, s2c' = Tail(s2c)
    PROVE  /\ Code = s2c[1] /\ Code \in Nat /\ s2c' \in Seq(Nat) /\ Right(Code)
           /\ Live(Code) \/ (Gone /\ (Neutral(Code) => Lost))
<1>0. ServerTypes /\ Empty(queued) /\ (Asked \/ Answered \/ DeadAsked) /\ s2c \in Seq(Nat)
  BY DEF RemoteInv, InStep, ServerTypes
<1>1. /\ s2c' \in Seq(Nat) /\ Code = s2c[1] /\ Code \in Nat
      /\ Len(s2c) = 1 => Len(s2c') = 0
      /\ Len(s2c) = 2 => Len(s2c') = 1 /\ s2c'[1] = s2c[2]
      /\ Len(s2c) # 0
  BY <1>0, OneFewer DEF Code
<1>2. ~Silent
  BY <1>1 DEF Silent, Empty
<1>3. CASE Answered
  <2>1. PICK code \in Nat : OnItsWay(code) /\ After(code)
    BY <1>3 DEF Answered
  <2>2. Only(s2c, code) /\ (up => Empty(ssout))
    BY <1>1, <2>1 DEF OnItsWay, Empty
  <2>3. code = Code /\ Empty(s2c')
    BY <1>1, <2>2 DEF Only, Empty
  <2> QED
    BY <1>1, <1>3, <2>1, <2>2, <2>3 DEF Live, Answered, After
<1>4. CASE DeadAsked
  <2>1. PICK n \in Nat : n = Len(s2c)
    BY <1>0
  <2>2. /\ sess.pc = "exit" /\ ~up /\ n <= 2 /\ n # 0 /\ (n = 2 => Neutral(s2c[2]))
        /\ Right(Code)
    BY <1>1, <1>4, <2>1 DEF DeadAsked, Dead
  <2>3. n = 1 \/ n = 2
    BY <2>2
  <2>4. Gone
    BY <1>1, <2>1, <2>2, <2>3 DEF Gone, Empty
  <2>5. \A j \in 1 .. n : j = 1 \/ (n = 2 /\ j = 2)
    BY <2>3
  <2>6. ASSUME Neutral(Code)
        PROVE  Lost
    BY <1>0, <1>1, <2>1, <2>2, <2>5, <2>6 DEF Lost
  <2> QED
    BY <1>1, <2>2, <2>4, <2>6
<1> QED
  BY <1>0, <1>2, <1>3, <1>4 DEF Asked

\* The next request goes out.
LEMMA SendGoes ==
    ASSUME RemoteConstants, RemoteInv, rem.pc \in Asking, Await(rem.pc), Alone,
           NEW k \in 0 .. Len(To), NEW sofar, Reports(report \o sofar, k),
           NEW next \in Clients, next.pc \in Asking \ {"greeting"}, ~next.critical,
           next.i = k + 1, next.pc \in {"helo", "mail"} => k = 0,
           next.pc = "rcpt" => k < Len(To), next.pc = "data" => k = Len(To),
           NEW line, Send(sofar, <<line>>, next),
           rem' = next => /\ line = Request'
                          /\ Live(Code) => sess.pc = "commands" /\ Before'
    PROVE  RemoteInv'
<1>0. /\ ServerTypes /\ Harmless /\ Empty(queued) /\ Ends("Z", k) /\ k \in Nat /\ k <= Len(To)
      /\ s2c # <<>> /\ s2c' = Tail(s2c) /\ Less
  BY NothingYet DEF RemoteInv, RemoteConstants, Await, Less
<1>1. CASE ~up /\ Dropped(sofar, next.critical) /\ UNCHANGED c2s
  <2>1. Die(sofar, "Z")
    BY <1>1 DEF Dropped
  <2> QED
    BY <1>0, <1>1, <2>1, DieEnds
<1>2. CASE /\ rem' = next /\ report' = report \o sofar
           /\ c2s' = IF up THEN c2s \o <<line>> ELSE c2s
           /\ UNCHANGED up
  <2>1. s2c' \in Seq(Nat) /\ (Live(Code) \/ Gone)
    BY <1>0, Heard
  <2>2. rem' \in Clients /\ rem'.pc \in Asking \ {"greeting"} /\ ~rem'.critical /\ rem'.i = k + 1
    BY <1>2
  <2>3. Request' \in Lines
    <3>1. rem'.pc = "rcpt" => rem'.i <= Len(To)
      BY <1>0, <1>2 DEF RemoteConstants
    <3>2. rem'.pc = "rcpt" => To[rem'.i] \in Addresses
      BY <2>2, <3>1 DEF RemoteConstants, Clients, Addresses, ToSet
    <3> QED
      BY <2>2, <3>2 DEF Request, Say, Lines, Asking, Addresses
  <2>4. PICK q \in Lines : q = Request' /\ line = q
    BY <1>2, <2>3
  <2>5. c2s \in Seq(Lines)
    BY <1>0 DEF ServerTypes
  <2>6. /\ c2s' \in Seq(Lines) /\ c2s' = IF up THEN Append(c2s, q) ELSE c2s
        /\ up /\ Empty(c2s) => Only(c2s', q)
    <3>1. c2s \o <<q>> = Append(c2s, q)
      BY <2>5
    <3>2. c2s' = IF up THEN Append(c2s, q) ELSE c2s
      BY <1>2, <2>4, <3>1, Zenon
    <3>3. PICK n \in Nat : n = Len(c2s)
      BY <2>5
    <3>4. up => Len(c2s') = n + 1 /\ c2s'[n + 1] = q
      BY <2>5, <3>2, <3>3
    <3> QED
      BY <2>5, <3>2, <3>3, <3>4 DEF Empty, Only
  <2>7. ServerTypes' /\ Empty(queued)'
    BY <1>0, <1>2, <2>1, <2>6 DEF ServerTypes, Alone, Empty
  <2>8. Asked' \/ DeadAsked'
    <3>1. CASE Live(Code)
      <4>1. Silent' /\ Before' /\ sess'.pc = "commands" /\ rem'.pc # "greeting"
        BY <1>2, <2>2, <3>1 DEF Live, Silent, Alone
      <4>2. Only(c2s, Request)' \/ (~up' /\ Empty(c2s)')
        BY <1>2, <2>4, <2>6, <3>1 DEF Live, Only, Empty
      <4> QED
        BY <4>1, <4>2 DEF Asked
    <3>2. CASE Gone
      <4>1. PICK n \in Nat : n = Len(s2c')
        BY <2>1
      <4>2. n = 0 \/ (n = 1 /\ Neutral(s2c'[1]))
        BY <3>2, <4>1 DEF Gone, Empty
      <4>3. sess'.pc = "exit" /\ ~up' /\ n <= 2 /\ n # 2
        BY <1>2, <3>2, <4>2 DEF Gone, Alone
      <4>4. Dead'
        BY <4>1, <4>3 DEF Dead
      <4>5. n > 0 => Neutral(s2c'[1]) /\ s2c'[1] \in Nat
        BY <2>1, <4>1, <4>2
      <4>6. \A code \in Nat : Neutral(code) => Right(code)'
        BY <2>2 DEF Right, Neutral, Asking
      <4>7. (Len(s2c) > 0 => Right(s2c[1]))'
        BY <4>1, <4>5, <4>6
      <4> QED
        BY <4>4, <4>7 DEF DeadAsked
    <3> QED
      BY <2>1, <3>1, <3>2
  <2>9. InStep'
    BY <2>2, <2>7, <2>8 DEF InStep, Asking
  <2>10. /\ Reports(report', k) /\ rem'.pc \notin {"connect", "done"}
         /\ rem'.pc \in {"greeting", "helo", "mail"} => k = 0
         /\ rem'.pc = "rcpt" => k < Len(To)
         /\ rem'.pc \in {"data", "blast", "dot", "final", "verdict"} => k = Len(To)
    BY <1>2, <2>2, Zenon DEF Asking
  <2> QED
    BY <1>0, <1>2, <2>2, <2>7, <2>9, <2>10, GoesOn DEF Alone
<1> QED
  BY <1>1, <1>2 DEF Send

-----------------------------------------------------------------------------
(* The client: its actions.                                                *)
LEMMA GotGoes ==
    ASSUME rem \in Clients, NEW p \in Asking \cup {"blast"}, Code \in Nat
    PROVE  /\ Got(p) \in Clients /\ Got(p).pc = p /\ Got(p).i = rem.i
           /\ Got(p).critical = rem.critical /\ Got(p).code = Code
BY DEF Got, Clients

\* What holds when the client has read a code.
LEMMA AfterHearing ==
    ASSUME RemoteConstants, RemoteInv, rem.pc \in Asking, Await(rem.pc)
    PROVE  /\ rem \in Clients /\ rem.i - 1 \in 0 .. Len(To) /\ Code \in Nat /\ ~rem.critical
           /\ s2c # <<>> /\ s2c' = Tail(s2c) /\ Less
           /\ rem.pc \in {"greeting", "helo", "mail"} => rem.i = 1
           /\ rem.pc = "rcpt" => rem.i <= Len(To)
           /\ rem.pc = "data" => rem.i = Len(To) + 1
           /\ Reports(report \o <<>>, rem.i - 1)
<1>1. s2c # <<>> /\ s2c' = Tail(s2c) /\ Less
  BY DEF Await, Less
<1>2. Code \in Nat
  BY <1>1, Heard
<1>3. rem.i - 1 \in 0 .. Len(To) /\ Reports(report \o <<>>, rem.i - 1)
  BY KnownSoFar DEF Asking
<1>4. ~rem.critical
  BY NothingYet
<1> QED
  BY <1>1, <1>2, <1>3, <1>4 DEF RemoteInv, ClientTypes, Reporting, Done, Asking

\* The greeting.
LEMMA GreetingKeeps ==
    ASSUME RemoteConstants, RemoteInv, Greeting, Alone
    PROVE  RemoteInv'
<1>1. rem.pc = "greeting" /\ rem.pc \in Asking /\ Await(rem.pc)
  BY DEF Greeting, Await, Asking
<1>2. /\ rem \in Clients /\ rem.i = 1 /\ Code \in Nat /\ ~rem.critical /\ Less
      /\ Reports(report \o <<>>, 0) /\ 0 \in 0 .. Len(To) /\ 0 <= Len(To) /\ Len(To) \in Nat
  BY <1>1, AfterHearing DEF RemoteConstants
<1>3. CASE Quit(<<>>, "Z")
  BY <1>1, <1>2, <1>3, NothingYet, QuitEnds
<1>4. CASE Code = 220 /\ Send(<<>>, <<Say("helo", NoArg)>>, Got("helo"))
  <2>1. PICK next \in Clients : /\ next = Got("helo") /\ next.pc = "helo" /\ next.i = 1
                                /\ ~next.critical
    BY <1>2, GotGoes DEF Asking
  <2>2. PICK line : line = Say("helo", NoArg)
    OBVIOUS
  <2>3. Send(<<>>, <<line>>, next)
    BY <1>4, <2>1, <2>2, Zenon
  <2>4. rem' = next => line = Request'
    BY <2>1, <2>2 DEF Request
  <2>5. rem' = next /\ Live(Code) => sess.pc = "commands" /\ Before'
    BY <1>1, <2>1 DEF Before, Live, After
  <2>6. next.pc \in Asking \ {"greeting"}
    BY <2>1 DEF Asking
  <2>7. next.i = 0 + 1
    BY <2>1
  <2> QED
    BY <1>1, <1>2, <2>1, <2>3, <2>4, <2>5, <2>6, <2>7, SendGoes
<1> QED
  BY <1>3, <1>4 DEF Greeting

\* HELO has been answered.
LEMMA HeloKeeps ==
    ASSUME RemoteConstants, RemoteInv, Helo, Alone
    PROVE  RemoteInv'
<1>1. rem.pc = "helo" /\ rem.pc \in Asking /\ Await(rem.pc)
  BY DEF Helo, Await, Asking
<1>2. /\ rem \in Clients /\ rem.i = 1 /\ Code \in Nat /\ ~rem.critical /\ Less
      /\ Reports(report \o <<>>, 0) /\ 0 \in 0 .. Len(To) /\ 0 <= Len(To) /\ Len(To) \in Nat
  BY <1>1, AfterHearing DEF RemoteConstants
<1>3. CASE Quit(<<>>, "Z")
  BY <1>1, <1>2, <1>3, NothingYet, QuitEnds
<1>4. CASE Code = 250 /\ Send(<<>>, <<Say("mail", From)>>, Got("mail"))
  <2>1. PICK next \in Clients : /\ next = Got("mail") /\ next.pc = "mail" /\ next.i = 1
                                /\ ~next.critical
    BY <1>2, GotGoes DEF Asking
  <2>2. PICK line : line = Say("mail", From)
    OBVIOUS
  <2>3. Send(<<>>, <<line>>, next)
    BY <1>4, <2>1, <2>2, Zenon
  <2>4. rem' = next => line = Request'
    BY <2>1, <2>2 DEF Request
  <2>5. rem' = next /\ Live(Code) => sess.pc = "commands" /\ Before'
    BY <1>1, <2>1 DEF Before, Live, After
  <2>6. next.pc \in Asking \ {"greeting"}
    BY <2>1 DEF Asking
  <2>7. next.i = 0 + 1
    BY <2>1
  <2> QED
    BY <1>1, <1>2, <2>1, <2>3, <2>4, <2>5, <2>6, <2>7, SendGoes
<1> QED
  BY <1>3, <1>4 DEF Helo

\* MAIL has been answered.
LEMMA MailKeeps ==
    ASSUME RemoteConstants, RemoteInv, Mail, Alone
    PROVE  RemoteInv'
<1>1. rem.pc = "mail" /\ rem.pc \in Asking /\ Await(rem.pc)
  BY DEF Mail, Await, Asking
<1>2. /\ rem \in Clients /\ rem.i = 1 /\ Code \in Nat /\ ~rem.critical /\ Less
      /\ Reports(report \o <<>>, 0) /\ 0 \in 0 .. Len(To) /\ 0 <= Len(To) /\ Len(To) \in Nat
      /\ 0 < Len(To)
  BY <1>1, AfterHearing DEF RemoteConstants
<1>3. CASE Class(Code) # "K" /\ Quit(<<>>, Class(Code))
  <2>1. Class(Code) \in {"Z", "D"}
    BY <1>3 DEF Class
  <2>2. Ends(Class(Code), 0) /\ Ends("Z", 0)
    BY <1>1, <2>1, NothingYet
  <2> QED
    BY <1>2, <1>3, <2>2, QuitEnds
<1>4. CASE Class(Code) = "K" /\ Send(<<>>, <<Say("rcpt", To[1])>>, Got("rcpt"))
  <2>1. PICK next \in Clients : /\ next = Got("rcpt") /\ next.pc = "rcpt" /\ next.i = 1
                                /\ ~next.critical
    BY <1>2, GotGoes DEF Asking
  <2>2. PICK line : line = Say("rcpt", To[1])
    OBVIOUS
  <2>3. Send(<<>>, <<line>>, next)
    BY <1>4, <2>1, <2>2, Zenon
  <2>4. rem' = next => line = Request'
    BY <2>1, <2>2 DEF Request
  <2>5. ASSUME rem' = next, Live(Code)
        PROVE  sess.pc = "commands" /\ Before'
    <3>1. Code < 400
      BY <1>2, <1>4 DEF Class
    <3>2. Handled(0) /\ sess.pc = "commands"
      BY <1>1, <2>5, <3>1 DEF Live, After
    <3>3. Handled(0)'
      BY <3>2 DEF Handled, Envelope, Alone
    <3>4. rem'.i - 1 = 0
      BY <2>1, <2>5
    <3> QED
      BY <2>1, <2>5, <3>2, <3>3, <3>4 DEF Before
  <2>6. next.pc \in Asking \ {"greeting"}
    BY <2>1 DEF Asking
  <2>7. next.i = 0 + 1
    BY <2>1
  <2> QED
    BY <1>1, <1>2, <2>1, <2>3, <2>4, <2>5, <2>6, <2>7, SendGoes
<1> QED
  BY <1>3, <1>4 DEF Mail

\* The letter about a recipient is true.
LEMMA LetterRight ==
    ASSUME RemoteConstants, RemoteInv, rem.pc = "rcpt", Await("rcpt")
    PROVE  Reports(report \o <<Recipient(Code), NUL>>, rem.i)
<1>1. rem.pc \in Asking /\ Await(rem.pc)
  BY DEF Asking
<1>2. /\ rem \in Clients /\ rem.i <= Len(To) /\ Code \in Nat /\ s2c # <<>> /\ s2c' = Tail(s2c)
      /\ Len(To) \in Nat
  BY <1>1, AfterHearing DEF RemoteConstants
<1>3. PICK k \in Nat : k = rem.i - 1 /\ k < Len(To) /\ rem.i = k + 1
  BY <1>2 DEF Clients
<1>4. Reports(report, k)
  BY <1>3, SoFar
<1>5. Right(Code) /\ (Live(Code) \/ (Gone /\ (Neutral(Code) => Lost)))
  BY <1>1, <1>2, Heard
<1>6. Neutral(Code) => Lost
  BY <1>5 DEF Live, After
<1>7. PICK c : c = Recipient(Code)
  OBVIOUS
<1>8. \/ c = "r" /\ Ok(To[k + 1])
      \/ c = "h" /\ ~Ok(To[k + 1])
      \/ c = "s" /\ Lost
  <2>1. CASE Code < 400
    BY <1>2, <1>3, <1>5, <1>7, <2>1 DEF Recipient, Class, Right
  <2>2. CASE Code \in 400 .. 499
    BY <1>2, <1>6, <1>7, <2>2 DEF Recipient, Class, Neutral
  <2>3. CASE Code >= 500
    BY <1>2, <1>3, <1>5, <1>7, <2>3 DEF Recipient, Class, Right, Neutral
  <2> QED
    BY <1>2, <2>1, <2>2, <2>3
<1>9. Reports(report \o <<c, NUL>>, k + 1)
  BY <1>3, <1>4, <1>8, MoreReported
<1> QED
  BY <1>3, <1>7, <1>9, Zenon

\* RCPT has been answered: the next one, or DATA, or no recipient is left.
LEMMA RcptKeeps ==
    ASSUME RemoteConstants, RemoteInv, Rcpt, Alone
    PROVE  RemoteInv'
<1>1. rem.pc = "rcpt" /\ rem.pc \in Asking /\ Await(rem.pc)
  BY DEF Rcpt, Await, Asking
<1>2. /\ rem \in Clients /\ rem.i <= Len(To) /\ rem.i \in Nat /\ Code \in Nat /\ ~rem.critical
      /\ Less /\ rem.i \in 0 .. Len(To) /\ Len(To) \in Nat
  BY <1>1, AfterHearing DEF RemoteConstants, Clients
<1>3. PICK sofar : sofar = <<Recipient(Code), NUL>>
  OBVIOUS
<1>4. Reports(report \o sofar, rem.i)
  <2>1. Reports(report \o <<Recipient(Code), NUL>>, rem.i)
    BY <1>1, LetterRight
  <2> QED
    BY <1>3, <2>1, Zenon
<1>5. PICK bother \in BOOLEAN : bother = (rem.bother \/ Recipient(Code) = "r")
  BY <1>2 DEF Clients
<1>6. CASE Quit(sofar, "D")
  BY <1>1, <1>2, <1>4, <1>6, NothingYet, QuitEnds
<1>7. ASSUME NEW p \in {"rcpt", "data"}, NEW line, p = "rcpt" => rem.i < Len(To),
             p = "data" => rem.i = Len(To),
             line = IF p = "rcpt" THEN Say("rcpt", To[rem.i + 1]) ELSE Say("data", NoArg),
             Send(sofar, <<line>>, [Got(p) EXCEPT !.i = @ + 1, !.bother = bother])
      PROVE  RemoteInv'
  <2>1. PICK next \in Clients : /\ next = [Got(p) EXCEPT !.i = @ + 1, !.bother = bother]
                                /\ next.pc = p /\ next.i = rem.i + 1 /\ ~next.critical
    <3>1. PICK got \in Clients : got = Got(p) /\ got.pc = p /\ got.i = rem.i /\ ~got.critical
      BY <1>2, GotGoes DEF Asking
    <3>n. PICK n \in 1 .. Len(To) + 1 : n = rem.i + 1
      BY <1>2
    <3>2. PICK next : next = [got EXCEPT !.i = n, !.bother = bother]
      OBVIOUS
    <3>5. next \in Clients /\ next.pc = p /\ next.i = n /\ ~next.critical
      BY <3>1, <3>2 DEF Clients
    <3>3. next \in Clients /\ next.pc = p /\ next.i = rem.i + 1 /\ ~next.critical
      BY <3>5, <3>n
    <3>4. next = [Got(p) EXCEPT !.i = @ + 1, !.bother = bother]
      BY <3>1, <3>2, <3>n
    <3> QED
      BY <3>3, <3>4
  <2>2. Send(sofar, <<line>>, next)
    BY <1>7, <2>1, Zenon
  <2>3. rem' = next => line = Request'
    BY <1>7, <2>1 DEF Request
  <2>4. ASSUME rem' = next, Live(Code)
        PROVE  sess.pc = "commands" /\ Before'
    <3>n. PICK n \in Nat : n = rem.i
      BY <1>2
    <3>1. Handled(n) /\ sess.pc = "commands"
      BY <1>1, <2>4, <3>n DEF Live, After
    <3>2. Handled(n)'
      BY <3>1 DEF Handled, Envelope, Alone
    <3>3. rem'.pc = p /\ rem'.i - 1 = n
      BY <2>1, <2>4, <3>n
    <3> QED
      BY <1>7, <3>n, <3>1, <3>2, <3>3 DEF Before
  <2>5. next.pc \in Asking \ {"greeting"}
    BY <2>1 DEF Asking
  <2> QED
    BY <1>1, <1>2, <1>4, <1>7, <2>1, <2>2, <2>3, <2>4, <2>5, SendGoes
<1>8. CASE /\ rem.i < Len(To)
           /\ Send(sofar, <<Say("rcpt", To[rem.i + 1])>>,
                   [Got("rcpt") EXCEPT !.i = @ + 1, !.bother = bother])
  BY <1>7, <1>8
<1>9. CASE /\ ~(rem.i < Len(To))
           /\ Send(sofar, <<Say("data", NoArg)>>,
                   [Got("data") EXCEPT !.i = @ + 1, !.bother = bother])
  <2>1. rem.i = Len(To)
    BY <1>2, <1>9
  <2> QED
    BY <1>7, <1>9, <2>1
<1>10. \/ rem.i < Len(To) /\ Send(sofar, <<Say("rcpt", To[rem.i + 1])>>,
                                  [Got("rcpt") EXCEPT !.i = @ + 1, !.bother = bother])
       \/ ~(rem.i < Len(To)) /\ Send(sofar, <<Say("data", NoArg)>>,
                                     [Got("data") EXCEPT !.i = @ + 1, !.bother = bother])
       \/ Quit(sofar, "D")
  BY <1>3, <1>5, Zenon DEF Rcpt
<1> QED
  BY <1>6, <1>8, <1>9, <1>10

\* The client goes on in the message.
LEMMA StepsOn ==
    ASSUME RemoteConstants, RemoteInv, Less, up' = up, sess' = sess, queued' = queued,
           Reports(report \o <<>>, Len(To)), report' = report \o <<>> \/ report' = report,
           rem' \in Clients, rem'.pc \in {"blast", "dot", "final", "verdict"},
           rem'.i = Len(To) + 1, ServerTypes', InStep'
    PROVE  RemoteInv'
<1>1. Len(To) \in 0 .. Len(To)
  BY DEF RemoteConstants
<1>2. report \o <<>> = report
  BY NothingMore DEF RemoteInv, ClientTypes
<1>3. Reports(report', Len(To))
  BY <1>2, Zenon
<1> QED
  BY <1>1, <1>3, GoesOn

\* The lines of a message.
LEMMA Spoken ==
    ASSUME NEW v \in {"text", "dot"}
    PROVE  Say(v, NoArg) \in Lines /\ Say(v, NoArg).verb = v
BY DEF Say, Lines, Addresses

\* DATA has been answered.
LEMMA DataKeeps ==
    ASSUME RemoteConstants, RemoteInv, Data, Alone
    PROVE  RemoteInv'
<1>1. rem.pc = "data" /\ rem.pc \in Asking /\ Await(rem.pc)
  BY DEF Data, Await, Asking
<1>2. /\ rem \in Clients /\ rem.i = Len(To) + 1 /\ Code \in Nat /\ ~rem.critical /\ Less
      /\ Reports(report \o <<>>, Len(To)) /\ Len(To) \in 0 .. Len(To) /\ Len(To) <= Len(To)
      /\ Len(To) \in Nat /\ s2c # <<>> /\ s2c' = Tail(s2c)
  BY <1>1, AfterHearing DEF RemoteConstants
<1>3. CASE Class(Code) # "K" /\ Quit(<<>>, Class(Code))
  <2>1. Class(Code) \in {"Z", "D"}
    BY <1>3 DEF Class
  <2>2. Ends(Class(Code), Len(To)) /\ Ends("Z", Len(To))
    BY <1>1, <2>1, NothingYet
  <2> QED
    BY <1>2, <1>3, <2>2, QuitEnds
<1>4. CASE Class(Code) = "K" /\ UNCHANGED <<up, c2s, report>> /\ rem' = Got("blast")
  <2>1. Code < 400
    BY <1>2, <1>4 DEF Class
  <2>2. rem' \in Clients /\ rem'.pc = "blast" /\ rem'.i = Len(To) + 1 /\ ~rem'.critical
    BY <1>2, <1>4, GotGoes
  <2>3. s2c' \in Seq(Nat) /\ (Live(Code) \/ Gone)
    BY <1>1, <1>2, Heard
  <2>4. ServerTypes /\ Empty(queued)
    BY <1>1, NothingYet DEF RemoteInv
  <2>5. ServerTypes' /\ Empty(queued)'
    BY <1>4, <2>3, <2>4 DEF ServerTypes, Alone, Empty
  <2>6. CASE Live(Code)
    <3>1. sess.pc = "blast" /\ Envelope(Len(To)) /\ Empty(c2s) /\ Empty(s2c') /\ (up => Empty(ssout))
      BY <1>1, <2>1, <2>6 DEF Live, After
    <3>2. InText' /\ Empty(c2s)'
      BY <1>4, <3>1 DEF InText, Envelope, Silent, Alone, Empty
    <3>i. InStep'
      BY <1>2, <1>4, <2>2, <2>5, <3>2 DEF InStep, Asking
    <3> QED
      BY <1>2, <1>4, <2>2, <2>5, <3>2, <3>i, StepsOn DEF Alone
  <2>7. CASE Gone
    <3>1. PICK n \in Nat : n = Len(s2c')
      BY <2>3
    <3>2. n = 0 \/ (n = 1 /\ Neutral(s2c'[1]))
      BY <2>7, <3>1 DEF Gone, Empty
    <3>3. Dead'
      BY <1>4, <2>7, <3>1, <3>2 DEF Dead, Gone, Alone
    <3>4. (Len(s2c) > 0 => Right(s2c[1]))'
      BY <2>2, <3>1, <3>2 DEF Right
    <3>5. DeadAsked'
      BY <3>3, <3>4 DEF DeadAsked
    <3>i. InStep'
      BY <1>2, <1>4, <2>2, <2>5, <3>5 DEF InStep, Asking
    <3> QED
      BY <1>2, <1>4, <2>2, <2>5, <3>5, <3>i, StepsOn DEF Alone
  <2> QED
    BY <2>3, <2>6, <2>7
<1> QED
  BY <1>3, <1>4 DEF Data

\* The text.
LEMMA TextKnown ==
    ASSUME RemoteConstants, RemoteInv, rem.pc \in {"blast", "dot", "final", "verdict"}
    PROVE  /\ rem \in Clients /\ rem.i = Len(To) + 1 /\ ServerTypes /\ InStep
           /\ Reports(report \o <<>>, Len(To)) /\ Len(To) <= Len(To) /\ Len(To) \in Nat
<1>1. rem.i = Len(To) + 1
  BY DEF RemoteInv, Reporting, Done
<1>2. Reports(report \o <<>>, rem.i - 1)
  BY KnownSoFar
<1>3. Len(To) \in Nat
  BY DEF RemoteConstants
<1> QED
  BY <1>1, <1>2, <1>3 DEF RemoteInv, ClientTypes

\* A line is sent, or lost.
LEMMA LineGoes ==
    ASSUME c2s \in Seq(Lines), NEW q \in Lines, c2s' = IF up THEN c2s \o <<q>> ELSE c2s
    PROVE  /\ c2s' \in Seq(Lines)
           /\ \/ c2s' = c2s
              \/ /\ Len(c2s') = Len(c2s) + 1 /\ c2s'[Len(c2s) + 1] = q
                 /\ \A j \in 1 .. Len(c2s) : c2s'[j] = c2s[j]
<1>1. c2s \o <<q>> = Append(c2s, q)
  OBVIOUS
<1>2. c2s' = c2s \/ c2s' = Append(c2s, q)
  BY <1>1
<1> QED
  BY <1>2

\* Text is sent.
LEMMA BlastTextKeeps ==
    ASSUME RemoteConstants, RemoteInv, BlastText, Alone
    PROVE  RemoteInv'
<1>1. rem.pc = "blast" /\ s2c' = s2c /\ Less
  BY DEF BlastText, Less
<1>2. /\ rem \in Clients /\ rem.i = Len(To) + 1 /\ ServerTypes /\ InStep
      /\ Reports(report \o <<>>, Len(To)) /\ Len(To) <= Len(To) /\ Len(To) \in Nat
      /\ ~rem.critical /\ Empty(queued)
  BY <1>1, TextKnown, NothingYet
<1>n. PICK next : next = [rem EXCEPT !.pc = "dot"]
  OBVIOUS
<1>3. next \in Clients /\ next.pc = "dot" /\ next.i = Len(To) + 1 /\ ~next.critical
  BY <1>2, <1>n DEF Clients
<1>4. PICK q \in Lines : q = Say("text", NoArg) /\ q.verb = "text"
  BY Spoken
<1>5. Send(<<>>, <<q>>, next)
  BY <1>n, <1>4, Zenon DEF BlastText
<1>6. CASE ~up /\ Dropped(<<>>, next.critical) /\ UNCHANGED c2s
  <2>1. Die(<<>>, "Z")
    BY <1>3, <1>6 DEF Dropped
  <2> QED
    BY <1>1, <1>2, <1>6, <2>1, DieEnds, NothingYet
<1>7. CASE /\ rem' = next /\ report' = report \o <<>>
           /\ c2s' = IF up THEN c2s \o <<q>> ELSE c2s
           /\ UNCHANGED up
  <2>1. c2s \in Seq(Lines)
    BY <1>2 DEF ServerTypes
  <2>2. /\ c2s' \in Seq(Lines)
        /\ \/ c2s' = c2s
           \/ /\ Len(c2s') = Len(c2s) + 1 /\ c2s'[Len(c2s) + 1] = q
              /\ \A j \in 1 .. Len(c2s) : c2s'[j] = c2s[j]
    BY <1>7, <2>1, LineGoes
  <2>3. ServerTypes' /\ Empty(queued)'
    BY <1>1, <1>2, <1>7, <2>2 DEF ServerTypes, Alone, Empty
  <2>4. CASE InText /\ Empty(c2s)
    <3>1. InText'
      BY <1>1, <1>7, <2>4 DEF InText, Envelope, Silent, Alone, Empty
    <3>2. Texts'
      <4>1. Len(c2s) = 0
        BY <2>4 DEF Empty
      <4>2. Len(c2s') = 0 \/ (Len(c2s') = 1 /\ c2s'[1] = q)
        BY <2>2, <4>1
      <4> QED
        BY <1>4, <4>2 DEF Texts
    <3>i. InStep'
      BY <1>1, <1>2, <1>3, <1>7, <2>3, <3>1, <3>2 DEF InStep, Asking
    <3> QED
      BY <1>1, <1>2, <1>3, <1>7, <2>3, <3>1, <3>2, <3>i, StepsOn DEF Alone
  <2>5. CASE DeadAsked
    <3>1. \A code : Right(code)' <=> Right(code)
      BY <1>1, <1>3, <1>7 DEF Right
    <3>2. (Len(s2c) > 0 => Right(s2c[1]))'
      BY <1>1, <2>5, <3>1 DEF DeadAsked
    <3>3. DeadAsked'
      BY <1>1, <1>7, <2>5, <3>2 DEF DeadAsked, Dead, Alone
    <3>i. InStep'
      BY <1>1, <1>2, <1>3, <1>7, <2>3, <3>3 DEF InStep, Asking
    <3> QED
      BY <1>1, <1>2, <1>3, <1>7, <2>3, <3>3, <3>i, StepsOn DEF Alone
  <2> QED
    BY <1>1, <1>2, <2>4, <2>5 DEF InStep
<1> QED
  BY <1>5, <1>6, <1>7 DEF Send

\* The dot is sent; from here on a message may be there.
LEMMA BlastDotKeeps ==
    ASSUME RemoteConstants, RemoteInv, BlastDot, Alone
    PROVE  RemoteInv'
<1>1. rem.pc = "dot" /\ s2c' = s2c /\ Less
  BY DEF BlastDot, Less
<1>2. /\ rem \in Clients /\ rem.i = Len(To) + 1 /\ ServerTypes /\ InStep
      /\ Reports(report \o <<>>, Len(To)) /\ Len(To) <= Len(To) /\ Len(To) \in Nat
      /\ Empty(queued)
  BY <1>1, TextKnown, NothingYet
<1>n. PICK next : next = Dot
  OBVIOUS
<1>3. next \in Clients /\ next.pc = "final" /\ next.i = Len(To) + 1 /\ next.critical
  BY <1>2, <1>n DEF Clients, Dot
<1>4. PICK q \in Lines : q = Say("dot", NoArg) /\ q.verb = "dot"
  BY Spoken
<1>5. Send(<<>>, <<q>>, next)
  BY <1>n, <1>4, Zenon DEF BlastDot
<1>6. CASE ~up /\ Dropped(<<>>, next.critical) /\ UNCHANGED c2s
  <2>1. Die(<<>>, "Zdup")
    BY <1>3, <1>6 DEF Dropped
  <2> QED
    BY <1>1, <1>2, <1>6, <2>1, DieEnds DEF Ends
<1>7. CASE /\ rem' = next /\ report' = report \o <<>>
           /\ c2s' = IF up THEN c2s \o <<q>> ELSE c2s
           /\ UNCHANGED up
  <2>1. c2s \in Seq(Lines)
    BY <1>2 DEF ServerTypes
  <2>2. /\ c2s' \in Seq(Lines)
        /\ \/ c2s' = c2s
           \/ /\ Len(c2s') = Len(c2s) + 1 /\ c2s'[Len(c2s) + 1] = q
              /\ \A j \in 1 .. Len(c2s) : c2s'[j] = c2s[j]
    BY <1>7, <2>1, LineGoes
  <2>3. ServerTypes' /\ Empty(queued)'
    BY <1>1, <1>2, <1>7, <2>2 DEF ServerTypes, Alone, Empty
  <2>4. CASE InText /\ Texts
    <3>1. Envelope(Len(To))' /\ Silent' /\ sess'.pc = "blast"
      BY <1>1, <1>7, <2>4 DEF InText, Envelope, Silent, Alone, Empty
    <3>2. PICK n \in Nat : n = Len(c2s)
      BY <2>1
    <3>3. \A j \in 1 .. n : c2s[j].verb = "text"
      BY <2>4, <3>2 DEF Texts
    <3>4. PICK m \in Nat : m = Len(c2s')
      BY <2>2
    <3>5. \A j \in 1 .. m : c2s'[j].verb = "text" \/ (c2s'[j].verb = "dot" /\ j = m)
      <4>1. CASE c2s' = c2s
        BY <3>2, <3>3, <3>4, <4>1
      <4>2. CASE /\ m = n + 1 /\ c2s'[n + 1] = q /\ \A j \in 1 .. n : c2s'[j] = c2s[j]
        <5>1. \A j \in 1 .. n + 1 : j \in 1 .. n \/ j = n + 1
          OBVIOUS
        <5> QED
          BY <1>4, <3>3, <4>2, <5>1
      <4> QED
        BY <2>2, <3>2, <3>4, <4>1, <4>2
    <3>6. (\A j \in 1 .. Len(c2s) : c2s[j].verb = "text" \/ (c2s[j].verb = "dot" /\ j = Len(c2s)))'
      BY <3>4, <3>5
    <3>7. Ending'
      BY <2>3, <3>1, <3>6 DEF Ending
    <3>i. InStep'
      BY <1>1, <1>2, <1>3, <1>7, <2>3, <3>7 DEF InStep, Asking
    <3> QED
      BY <1>1, <1>2, <1>3, <1>7, <2>3, <3>7, <3>i, StepsOn DEF Alone
  <2>5. CASE DeadAsked
    <3>1. \A code : Neutral(code) => Answer(code)'
      BY <2>3 DEF Answer, Neutral
    <3>2. (Len(s2c) > 0 => Answer(s2c[1]))'
      BY <1>1, <2>5, <3>1 DEF DeadAsked, Right
    <3>3. DeadEnded'
      BY <1>1, <1>7, <2>5, <3>2 DEF DeadAsked, DeadEnded, Dead, Alone
    <3>i. InStep'
      BY <1>1, <1>2, <1>3, <1>7, <2>3, <3>3 DEF InStep, Asking
    <3> QED
      BY <1>1, <1>2, <1>3, <1>7, <2>3, <3>3, <3>i, StepsOn DEF Alone
  <2> QED
    BY <1>1, <1>2, <2>4, <2>5 DEF InStep
<1> QED
  BY <1>5, <1>6, <1>7 DEF Send

\* The answer to the dot is read.
LEMMA FinalKeeps ==
    ASSUME RemoteConstants, RemoteInv, Final, Alone
    PROVE  RemoteInv'
<1>1. rem.pc = "final" /\ s2c # <<>> /\ s2c' = Tail(s2c) /\ UNCHANGED <<up, c2s, report>> /\ Less
  BY DEF Final, Await, Less
<1>2. /\ rem \in Clients /\ rem.i = Len(To) + 1 /\ ServerTypes /\ InStep
      /\ Reports(report \o <<>>, Len(To)) /\ Len(To) <= Len(To) /\ Len(To) \in Nat
  BY <1>1, TextKnown
<1>3. /\ s2c \in Seq(Nat) /\ s2c' \in Seq(Nat) /\ Code = s2c[1] /\ Code \in Nat /\ Len(s2c) # 0
  BY <1>1, <1>2, OneFewer DEF ServerTypes, Code
<1>4. /\ rem' \in Clients /\ rem'.pc = "verdict" /\ rem'.i = Len(To) + 1 /\ ~rem'.critical
      /\ rem'.code = Code
  <2>1. PICK code \in Nat : code = Code
    BY <1>3
  <2>2. rem' = [[rem EXCEPT !.pc = "verdict", !.code = code] EXCEPT !.critical = FALSE]
    BY <2>1 DEF Final, Got
  <2> QED
    BY <1>2, <2>1, <2>2 DEF Clients
<1>5. Harmless /\ Answer(Code)
  <2>1. CASE Ended
    <3>1. PICK code \in Nat : OnItsWay(code) /\ Answer(code)
      BY <2>1 DEF Ended
    <3>2. code = Code
      BY <1>3, <3>1 DEF OnItsWay, Only, Empty
    <3> QED
      BY <2>1, <3>1, <3>2 DEF Ended, Harmless, Empty
  <2>2. CASE DeadEnded
    <3>1. Len(s2c) > 0
      BY <1>3
    <3> QED
      BY <1>3, <2>2, <3>1 DEF DeadEnded, Dead, Harmless
  <2>3. ~Ending
    BY <1>3 DEF Ending, Silent, Empty
  <2> QED
    BY <1>1, <1>2, <2>1, <2>2, <2>3 DEF InStep
<1>6. ServerTypes'
  BY <1>1, <1>2, <1>3 DEF ServerTypes, Alone
<1>7. Harmless' /\ Answer(rem.code)'
  BY <1>1, <1>4, <1>5 DEF Harmless, Answer, Empty, Message, Alone
<1>8. InStep'
  BY <1>4, <1>7 DEF InStep, Asking
<1> QED
  BY <1>1, <1>2, <1>4, <1>6, <1>8, StepsOn DEF Alone

\* The client says K, Z or D, and quits.
LEMMA VerdictKeeps ==
    ASSUME RemoteConstants, RemoteInv, Verdict, Alone
    PROVE  RemoteInv'
<1>1. rem.pc = "verdict" /\ Quit(<<>>, Class(rem.code)) /\ Less
  BY DEF Verdict, Less
<1>2. /\ InStep /\ Reports(report \o <<>>, Len(To)) /\ Len(To) <= Len(To) /\ Len(To) \in Nat
  BY <1>1, TextKnown
<1>3. Ends(Class(rem.code), Len(To)) /\ Ends("Z", Len(To))
  BY <1>1, <1>2 DEF InStep, Ends
<1> QED
  BY <1>1, <1>2, <1>3, QuitEnds

\* Nothing happens.
LEMMA StandsStill ==
    ASSUME RemoteInv, UNCHANGED vars
    PROVE  RemoteInv'
<1>1. UNCHANGED <<up, c2s, s2c, rem, report, ssout, sess, queued>>
  BY DEF vars
<1>2. ServerTypes' = ServerTypes /\ ClientTypes' = ClientTypes
  BY <1>1 DEF ServerTypes, ClientTypes
<1>3. /\ \A code : /\ OnItsWay(code)' = OnItsWay(code) /\ After(code)' = After(code)
                   /\ Answer(code)' = Answer(code) /\ Right(code)' = Right(code)
      /\ Silent' = Silent /\ Before' = Before /\ Request' = Request
      /\ Dead' = Dead /\ Harmless' = Harmless
  BY <1>1 DEF OnItsWay, Only, Empty, After, Right, Handled, Envelope, Answer, Message, Silent,
     Before, Request, Dead, Harmless
<1>4. /\ Asked' = Asked /\ Answered' = Answered /\ DeadAsked' = DeadAsked
      /\ InText' = InText /\ Texts' = Texts /\ Ending' = Ending /\ Ended' = Ended
      /\ DeadEnded' = DeadEnded
  BY <1>1, <1>3 DEF Asked, Only, Empty, Answered, DeadAsked, InText, Envelope, Texts, Ending, Ended,
     DeadEnded
<1>5. InStep' = InStep /\ Concluded' = Concluded /\ Lost' = Lost
  BY <1>1, <1>3, <1>4 DEF InStep, Concluded, Empty, Result, Class, Lost
<1>6. Reporting' = Reporting /\ Deferred' = Deferred /\ Done' = Done
  BY <1>1 DEF Reporting, Told, About, Deferred, Done
<1> QED
  BY <1>1, <1>2, <1>5, <1>6 DEF RemoteInv, Empty, Only

\* The connection comes about.
LEMMA ConnectKeeps ==
    ASSUME RemoteConstants, RemoteInv, Connect, Alone
    PROVE  RemoteInv'
<1>1. /\ rem.pc = "connect" /\ rem \in Clients /\ ServerTypes /\ report \in Seq(Letters)
      /\ Empty(c2s) /\ Empty(s2c) /\ Only(ssout, 220) /\ Empty(queued) /\ sess.pc = "commands"
      /\ rem.i = 1 /\ Len(report) = 2 * (1 - 1) /\ ~rem.critical
  BY DEF RemoteInv, ClientTypes, Connect, Reporting, Done, InStep
<1>2. /\ rem' = [rem EXCEPT !.pc = "greeting"] /\ up' = TRUE
      /\ UNCHANGED <<c2s, s2c, report, ssout, sess, queued>>
  BY DEF Connect, Alone
<1>3. rem' \in Clients /\ rem'.pc = "greeting" /\ rem'.i = 1 /\ ~rem'.critical
  BY <1>1, <1>2 DEF Clients, Asking
<1>4. ServerTypes' /\ ClientTypes'
  BY <1>1, <1>2, <1>3 DEF ServerTypes, ClientTypes
<1>5. Answered'
  <2>1. OnItsWay(220)' /\ Empty(c2s)'
    BY <1>1, <1>2 DEF OnItsWay, Only, Empty
  <2>2. After(220)'
    BY <1>1, <1>2, <1>3 DEF After, Right
  <2> QED
    BY <2>1, <2>2 DEF Answered
<1>6. InStep'
  BY <1>1, <1>2, <1>3, <1>5 DEF InStep, Asking, Empty
<1>7. Told(0)'
  BY DEF Told
<1>8. Reporting' /\ ~Done'
  BY <1>1, <1>2, <1>3, <1>7 DEF Reporting, Done
<1>9. ~Deferred'
  BY <1>1, <1>2 DEF Deferred
<1> QED
  BY <1>3, <1>4, <1>6, <1>8, <1>9 DEF RemoteInv

\* The client fails: no connection, end of file, timeout, lost while writing.
LEMMA FailsKeep ==
    ASSUME RemoteConstants, RemoteInv, Alone,
           NoConnection \/ ReadEof \/ ReadTimeout \/ BlastFails
    PROVE  RemoteInv'
<1>1. rem.pc # "done" /\ c2s' = c2s /\ Less
  BY DEF NoConnection, ReadEof, ReadTimeout, BlastFails, Waits, Less
<1>2. PICK k \in Nat : k <= Len(To) /\ Reports(report \o <<>>, k)
  <2>1. rem.i - 1 \in Nat /\ rem.i - 1 <= Len(To) /\ Reports(report \o <<>>, rem.i - 1)
    BY <1>1, KnownSoFar DEF RemoteConstants
  <2> QED
    BY <2>1
<1>3. CASE NoConnection \/ BlastFails
  <2>1. PICK letter \in {"Z", "D"} : Die(<<>>, letter)
    BY <1>3 DEF NoConnection, BlastFails
  <2>2. Ends(letter, k)
    BY <1>3, NothingYet DEF NoConnection, BlastFails
  <2> QED
    BY <1>1, <1>2, <2>1, <2>2, DieEnds
<1>4. CASE ReadEof \/ ReadTimeout
  <2>1. PICK letter : letter = IF rem.critical THEN "Zdup" ELSE "Z"
    OBVIOUS
  <2>2. Die(<<>>, letter)
    BY <1>4, <2>1, Zenon DEF ReadEof, ReadTimeout, Dropped
  <2>3. CASE rem.pc = "final"
    <3>1. letter = "Zdup"
      BY <2>1, <2>3 DEF RemoteInv, InStep
    <3> QED
      BY <1>1, <1>2, <2>2, <3>1, DieEnds DEF Ends
  <2>4. CASE rem.pc \in Asking
    <3>1. letter = "Z"
      BY <2>1, <2>4, NothingYet
    <3> QED
      BY <1>1, <1>2, <2>2, <2>4, <3>1, DieEnds, NothingYet
  <2> QED
    BY <1>4, <2>3, <2>4 DEF ReadEof, ReadTimeout, Waits, Asking
<1> QED
  BY <1>3, <1>4

-----------------------------------------------------------------------------
(* All steps.                                                              *)
\* The invariant at the start.
LEMMA InStepInitially ==
    ASSUME RemoteConstants, Init
    PROVE  RemoteInv
<1>1. /\ rem = [pc |-> "connect", i |-> 1, bother |-> FALSE, critical |-> FALSE, code |-> 0]
      /\ report = <<>> /\ up = FALSE /\ c2s = <<>> /\ s2c = <<>> /\ ssout = <<220>>
      /\ queued = <<>>
      /\ sess = [pc |-> "commands", cmd |-> [verb |-> "none", arg |-> "none"],
                 seenmail |-> FALSE, flagbarf |-> FALSE, mailfrom |-> "none", rcptto |-> <<>>]
  BY DEF Init, RemoteInit, Smtpd!ServerInit, Smtpd!Command, Smtpd!NoArg
<1>2. sess \in Sessions /\ ~sess.flagbarf /\ sess.pc = "commands"
  <2>1. PICK line \in Lines : line = [verb |-> "none", arg |-> "none"]
    BY DEF Lines, Addresses, NoArg
  <2>e. <<>> \in Seq(Accepted)
    OBVIOUS
  <2>2. PICK to \in Seq(Accepted) : to = <<>>
    BY <2>e, Zenon
  <2>3. sess = [pc |-> "commands", cmd |-> line,
                seenmail |-> FALSE, flagbarf |-> FALSE, mailfrom |-> "none", rcptto |-> to]
    BY <1>1, <2>1, <2>2, Zenon
  <2> QED
    BY <2>3 DEF Sessions, Addresses, NoArg
<1>3. rem \in Clients /\ rem.pc = "connect" /\ rem.i = 1 /\ ~rem.critical
  BY <1>1 DEF Clients, RemoteConstants
<1>4. ssout \in Seq(Nat) /\ Only(ssout, 220)
  BY <1>1 DEF Only
<1>5. /\ Empty(c2s) /\ Empty(s2c) /\ Empty(queued) /\ Len(report) = 0
      /\ report \in Seq(Letters) /\ c2s \in Seq(Lines) /\ s2c \in Seq(Nat)
      /\ queued \in Seq([from : Addresses, to : Seq(Accepted)])
  BY <1>1 DEF Empty
<1>6. ServerTypes /\ ClientTypes
  BY <1>1, <1>2, <1>3, <1>4, <1>5 DEF ServerTypes, ClientTypes
<1>7. InStep /\ Reporting /\ ~Done /\ ~Deferred
  BY <1>3, <1>5 DEF InStep, Asking, Reporting, Told, Done, Deferred
<1> QED
  BY <1>1, <1>2, <1>4, <1>5, <1>6, <1>7 DEF RemoteInv

\* The inductive step.
LEMMA InStepAlways ==
    ASSUME RemoteConstants, RemoteInv, [Next]_vars
    PROVE  RemoteInv'
<1>1. CASE ClientSteps
  BY <1>1, ConnectKeeps, FailsKeep, GreetingKeeps, HeloKeeps, MailKeeps, RcptKeeps, DataKeeps,
     BlastTextKeeps, BlastDotKeeps, FinalKeeps, VerdictKeeps DEF ClientSteps, Client, Alone
<1>2. CASE ServerSteps
  BY <1>2, ServerKeeps DEF ServerSteps, ServerMoves
<1>3. CASE Faults
  BY <1>3, FailsKeep, ServerKeeps DEF Faults, ClientFails, ServerMoves, Alone
<1>4. CASE UNCHANGED vars
  BY <1>4, StandsStill
<1> QED
  BY <1>1, <1>2, <1>3, <1>4 DEF Next

-----------------------------------------------------------------------------
(* What it says.                                                           *)
LEMMA AtTheEnd ==
    ASSUME RemoteConstants, RemoteInv, Done
    PROVE  /\ ServerTypes /\ report \in Seq(Letters) /\ Concluded
           /\ \E k \in 0 .. Len(To) : /\ Len(report) = 2 * k + 2 /\ report[2 * k + 2] = NUL
                                      /\ Told(k) /\ Result = report[2 * k + 1]
           /\ Deferred => Empty(queued)
<1>1. PICK k \in 0 .. Len(To) : Len(report) = 2 * k + 2 /\ report[2 * k + 2] = NUL /\ Told(k)
  BY DEF RemoteInv, Reporting
<1>2. Len(report) - 1 = 2 * k + 1
  BY <1>1
<1>3. Result = report[2 * k + 1]
  BY <1>2 DEF Result
<1> QED
  BY <1>1, <1>3 DEF RemoteInv, ClientTypes, Lost

\* K: the message is there once, for those reported as accepted.
LEMMA Accepting ==
    ASSUME RemoteConstants, RemoteInv
    PROVE  AcceptedIsThere
<1> SUFFICES ASSUME Done, Result = "K"
             PROVE  /\ Len(report) = 2 * Len(To) + 2
                    /\ Len(queued) = 1 /\ queued[1].from = From
                    /\ Listed(queued[1].to, Len(To), {i \in 1 .. Len(To) : About(i) = "r"})
  BY DEF AcceptedIsThere
<1>1. /\ Harmless /\ Answer(rem.code) /\ Class(rem.code) = "K" /\ Len(report) = 2 * Len(To) + 2
  BY AtTheEnd DEF Concluded
<1>2. rem.code \in Nat /\ Len(To) \in Nat
  BY DEF RemoteInv, ClientTypes, Clients, RemoteConstants
<1>3. Message
  BY <1>1, <1>2 DEF Class, Answer
<1>4. Told(Len(To))
  <2>1. PICK k \in 0 .. Len(To) : Len(report) = 2 * k + 2 /\ Told(k)
    BY AtTheEnd
  <2>2. k = Len(To)
    BY <1>1, <1>2, <2>1
  <2> QED
    BY <2>1, <2>2
<1>5. ~Deferred
  BY <1>3, AtTheEnd DEF Message, Empty
<1>6. ASSUME NEW i \in 1 .. Len(To)
      PROVE  About(i) = "r" <=> i \in OkOnes
  <2>1. 2 * i < Len(report) + 1
    BY <1>1, <1>2
  <2>2. About(i) # "s"
    BY <1>5, <2>1 DEF Deferred
  <2> QED
    BY <1>4, <2>2 DEF Told, OkOnes
<1>7. {i \in 1 .. Len(To) : About(i) = "r"} = OkOnes
  BY <1>6 DEF OkOnes
<1> QED
  BY <1>1, <1>3, <1>7 DEF Message

LEMMA Element ==
    ASSUME NEW S, NEW s \in Seq(S), NEW j \in 1 .. Len(s)
    PROVE  s[j] \in S
OBVIOUS

\* h and D: nobody has it for such a recipient.
LEMMA Refusing ==
    ASSUME RemoteConstants, RemoteInv
    PROVE  RefusedIsNotThere
<1> SUFFICES ASSUME Done
             PROVE  /\ Result = "D" => queued = <<>>
                    /\ \A i \in 1 .. Len(To) :
                         2 * i < Len(report) /\ About(i) = "h" => ~Taken(i)
  BY DEF RefusedIsNotThere
<1>1. ServerTypes /\ Concluded
  BY AtTheEnd
<1>2. queued = <<>> <=> Empty(queued)
  BY <1>1, EmptySequence DEF ServerTypes
<1>3. Result = "D" => queued = <<>>
  <2>1. rem.code \in Nat
    BY DEF RemoteInv, ClientTypes, Clients
  <2>2. Class(rem.code) = "D" => rem.code >= 500
    BY <2>1 DEF Class
  <2>3. rem.code >= 500 /\ Answer(rem.code) => Empty(queued)
    BY <2>1 DEF Answer, Neutral
  <2> QED
    BY <1>1, <1>2, <2>2, <2>3 DEF Concluded
<1>4. ASSUME NEW i \in 1 .. Len(To), 2 * i < Len(report), About(i) = "h", Taken(i)
      PROVE  FALSE
  <2>1. PICK k \in 0 .. Len(To) : Len(report) = 2 * k + 2 /\ Told(k)
    BY AtTheEnd
  <2>2. i \in 1 .. k
    BY <1>4, <2>1 DEF RemoteConstants
  <2>3. ~Ok(To[i])
    BY <1>4, <2>1, <2>2 DEF Told
  <2>4. PICK j \in 1 .. Len(queued) : To[i] \in ToSet(queued[j].to)
    BY <1>4 DEF Taken
  <2>5. queued[j].to \in Seq(Accepted)
    <3>1. queued[j] \in [from : Addresses, to : Seq(Accepted)]
      BY <1>1, Element DEF ServerTypes
    <3> QED
      BY <3>1
  <2>6. To[i] \in Accepted
    BY <2>4, <2>5 DEF ToSet
  <2> QED
    BY <2>3, <2>6 DEF Accepted
<1> QED
  BY <1>3, <1>4

\* Without the answer to the dot the report warns.
LEMMA Warning ==
    ASSUME RemoteConstants, RemoteInv
    PROVE  WarnsUnanswered
<1> SUFFICES ASSUME Done, ~QqCrashes, Result = "Z", rem.code # 250
             PROVE  queued = <<>>
  BY DEF WarnsUnanswered
<1>1. ServerTypes /\ Concluded
  BY AtTheEnd
<1>2. queued = <<>> <=> Empty(queued)
  BY <1>1, EmptySequence DEF ServerTypes
<1> QED
  BY <1>1, <1>2 DEF Concluded, Answer

\* What qmail-rspawn makes of one string, and of two.
LEMMA OneString ==
    ASSUME NEW s \in Seq(Letters), Len(s) = 2, s[1] \in {"Z", "D"}, s[2] = NUL
    PROVE  Rspawn!RemoteReport(0, s).letter = s[1]
<1>1. Rspawn!Starts(s) = {1}
  <2>1. ASSUME NEW j
        PROVE  j \in Rspawn!Starts(s) <=> j = 1
    BY DEF Rspawn!Starts, Rspawn!NUL, NUL
  <2> QED
    BY <2>1
<1>2. {j \in Rspawn!Starts(s) : s[j] \in {"K", "Z", "D"}} = {1}
  BY <1>1
<1>3. Rspawn!Min({1}) = 1
  BY DEF Rspawn!Min
<1>4. Rspawn!Result(s) = IF s[1] = "Z" THEN 0 ELSE -1
  BY <1>2, <1>3 DEF Rspawn!Result
<1>5. Rspawn!Orr(s) = Rspawn!Result(s)
  BY DEF Rspawn!Orr
<1>6. s # <<>>
  OBVIOUS
<1> QED
  BY <1>4, <1>5, <1>6 DEF Rspawn!RemoteReport, Rspawn!Letter

LEMMA TwoStrings ==
    ASSUME NEW s \in Seq(Letters), Len(s) = 4, s[1] \in {"r", "h", "s"}, s[2] = NUL,
           s[3] \in {"K", "Z", "D"}, s[4] = NUL
    PROVE  Rspawn!RemoteReport(0, s).letter =
             IF s[1] = "r" THEN s[3] ELSE IF s[1] = "h" THEN "D" ELSE "Z"
<1>1. Rspawn!Starts(s) = {1, 3}
  <2>1. ASSUME NEW j
        PROVE  j \in Rspawn!Starts(s) <=> j \in {1, 3}
    BY DEF Rspawn!Starts, Rspawn!NUL, NUL
  <2> QED
    BY <2>1
<1>2. {j \in Rspawn!Starts(s) : s[j] \in {"K", "Z", "D"}} = {3}
  BY <1>1
<1>3. Rspawn!Min({3}) = 3
  BY DEF Rspawn!Min
<1>4. Rspawn!Result(s) = IF s[3] = "K" THEN 1 ELSE IF s[3] = "Z" THEN 0 ELSE -1
  BY <1>2, <1>3 DEF Rspawn!Result
<1>5. Rspawn!Orr(s) = IF s[1] = "r" THEN Rspawn!Result(s) ELSE IF s[1] = "h" THEN -1 ELSE 0
  BY DEF Rspawn!Orr
<1>6. s # <<>>
  OBVIOUS
<1> QED
  BY <1>4, <1>5, <1>6 DEF Rspawn!RemoteReport, Rspawn!Letter

\* What qmail-rspawn makes of the report of one recipient.
LEMMA Judged ==
    ASSUME RemoteConstants, RemoteInv
    PROVE  VerdictTrue
<1> DEFINE letter == Rspawn!RemoteReport(0, Output).letter
<1> SUFFICES ASSUME Done, Len(To) = 1
             PROVE  /\ letter = "K" => Taken(1)
                    /\ letter = "D" => ~Taken(1)
  BY DEF VerdictTrue
<1>1. /\ ServerTypes /\ report \in Seq(Letters) /\ Concluded
      /\ AcceptedIsThere /\ RefusedIsNotThere
  BY AtTheEnd, Accepting, Refusing
<1>2. PICK k \in {0, 1} : /\ Len(report) = 2 * k + 2 /\ report[2 * k + 2] = NUL
                          /\ Told(k) /\ Result = report[2 * k + 1]
  BY AtTheEnd
<1>3. /\ Output \in Seq(Letters) /\ Len(Output) = Len(report)
      /\ \A j \in 1 .. Len(report) : Output[j] = IF report[j] = "Zdup" THEN "Z" ELSE report[j]
  <2>1. PICK n \in Nat : n = Len(report)
    BY <1>1
  <2>2. Output = [j \in 1 .. n |-> IF report[j] = "Zdup" THEN "Z" ELSE report[j]]
    BY <2>1 DEF Output
  <2>3. \A j \in 1 .. n : (IF report[j] = "Zdup" THEN "Z" ELSE report[j]) \in Letters
    BY <1>1, <2>1 DEF Letters
  <2> QED
    BY <2>1, <2>2, <2>3
<1>4. queued = <<>> => ~Taken(1)
  BY DEF Taken
<1>5. Result \in {"Zdup", "Z", "D", "K"} /\ (Result = "K" => k = 1)
  BY <1>1, <1>2 DEF Concluded, Class
<1>6. CASE k = 0
  <2>1. /\ Len(Output) = 2 /\ Output[2] = NUL
        /\ Output[1] = IF Result = "Zdup" THEN "Z" ELSE Result
    BY <1>2, <1>3, <1>6 DEF NUL
  <2>2. letter = Output[1]
    BY <1>3, <1>5, <1>6, <2>1, OneString
  <2> QED
    BY <1>1, <1>4, <1>5, <1>6, <2>1, <2>2 DEF RefusedIsNotThere
<1>7. CASE k = 1
  <2>1. About(1) = report[1]
    BY DEF About
  <2>2. /\ report[2] = NUL /\ report[4] = NUL /\ Result = report[3] /\ Len(report) = 4
        /\ \/ report[1] = "r" /\ Ok(To[1])
           \/ report[1] = "h" /\ ~Ok(To[1])
           \/ report[1] = "s"
    BY <1>2, <1>7, <2>1 DEF Told
  <2>3. /\ Len(Output) = 4 /\ Output[1] = report[1] /\ Output[2] = NUL /\ Output[4] = NUL
        /\ Output[3] = IF Result = "Zdup" THEN "Z" ELSE Result
    BY <1>3, <2>2 DEF NUL
  <2>4. letter = IF Output[1] = "r" THEN Output[3] ELSE IF Output[1] = "h" THEN "D" ELSE "Z"
    BY <1>3, <1>5, <2>2, <2>3, TwoStrings
  <2>5. letter = "D" => ~Taken(1)
    BY <1>1, <1>4, <2>1, <2>2, <2>3, <2>4 DEF RefusedIsNotThere
  <2>6. ASSUME letter = "K"
        PROVE  Taken(1)
    <3>1. Result = "K" /\ report[1] = "r"
      BY <2>2, <2>3, <2>4, <2>6
    <3>2. Len(queued) = 1 /\ Listed(queued[1].to, Len(To), {i \in 1 .. Len(To) : About(i) = "r"})
      BY <1>1, <3>1 DEF AcceptedIsThere
    <3>3. PICK to : to = queued[1].to
      OBVIOUS
    <3>4. to \in Seq(Accepted)
      <4>0. 1 \in 1 .. Len(queued)
        BY <3>2
      <4>1. queued[1] \in [from : Addresses, to : Seq(Accepted)]
        BY <1>1, <4>0, Element DEF ServerTypes
      <4> QED
        BY <3>3, <4>1
    <3>5. 1 \in {i \in 1 .. Len(To) : About(i) = "r"}
      BY <2>1, <3>1
    <3>6. PICK j \in 1 .. Len(to) : to[j] = To[1]
      BY <3>2, <3>3, <3>5 DEF Listed
    <3>7. To[1] \in ToSet(to)
      BY <3>4, <3>6 DEF ToSet
    <3> QED
      BY <3>2, <3>3, <3>7 DEF Taken
  <2> QED
    BY <2>5, <2>6
<1> QED
  BY <1>2, <1>6, <1>7

\* The client's report, at any time.
LEMMA Believed ==
    ASSUME RemoteConstants, RemoteInv
    PROVE  AcceptedIsThere /\ RefusedIsNotThere /\ WarnsUnanswered /\ VerdictTrue
BY Accepting, Refusing, Warning, Judged
=============================================================================
