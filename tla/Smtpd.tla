-------------------------------- MODULE Smtpd --------------------------------
(***************************************************************************)
(* A session of qmail-smtpd: commands(), the smtp_*() handlers, its        *)
(* buffered replies, and the message that it hands to qmail-queue.  The    *)
(* client sends what it likes, ahead of the replies too.  Blast has the    *)
(* bytes of a message, QmailC the pipes to qmail-queue.                    *)
(***************************************************************************)
EXTENDS Integers, Sequences, SequencesExt

CONSTANTS Senders, Recips,  \* addresses
          Badmailfrom,      \* senders that bmfcheck() finds
          Rcpthosts,        \* recipients that rcpthosts() allows
          Relayclient,      \* RELAYCLIENT is set
          QqCrashes,        \* qmail-queue may crash after it took a message
          Verbs,            \* of the client
          Ahead,            \* commands that the client sends ahead of replies
          MaxCommands,      \* commands that succeed, after a MAIL
          MaxMessages       \* messages of a session

VARIABLES up,      \* the connection stands
          c2s,     \* what the server has not read
          ssout,   \* replies in the server's buffer
          s2c,     \* replies on their way
          sess,    \* where the server stands, its seenmail, flagbarf, ...
          log,     \* what succeeded since the last MAIL that was accepted
          queued   \* the messages that qmail-queue has taken

netVars == <<up, c2s, s2c>>
vars == <<netVars, ssout, sess, log, queued>>

NoArg == "none"
Command(verb, arg) == [verb |-> verb, arg |-> arg]
\* NoArg is what addrparse() refuses; a text and the dot are lines.
Commands ==
    {Command(v, NoArg) : v \in Verbs}
    \cup {Command("mail", a) : a \in Senders} \cup {Command("rcpt", a) : a \in Recips}

\* main(): the greeting.
ServerInit ==
    /\ ssout = <<220>>
    /\ sess = [pc |-> "commands", cmd |-> Command("none", NoArg),
               seenmail |-> FALSE, flagbarf |-> FALSE,
               mailfrom |-> NoArg, rcptto |-> <<>>]
    /\ log = <<>> /\ queued = <<>>

Init == ServerInit /\ up = TRUE /\ c2s = <<>> /\ s2c = <<>>

-----------------------------------------------------------------------------
(* commands(), and the reply to a command.                                 *)

\* saferead(): what is in the buffer goes out before the server waits.
Flushed == ssout

Flush ==
    /\ up /\ c2s = <<>> /\ sess.pc \in {"commands", "blast"} /\ Flushed # <<>>
    /\ s2c' = s2c \o Flushed /\ ssout' = <<>>
    /\ UNCHANGED <<up, c2s, sess, log, queued>>

ReadCommand ==
    /\ sess.pc = "commands" /\ c2s # <<>>
    /\ sess' = [sess EXCEPT !.pc = "fun", !.cmd = Head(c2s)]
    /\ c2s' = Tail(c2s)
    /\ UNCHANGED <<up, s2c, ssout, log, queued>>

Fun(verbs) == sess.pc = "fun" /\ sess.cmd.verb \in verbs

\* The commands that succeeded and the ends of messages.
Logged(code) ==
    LET entry == [cmd |-> sess.cmd, code |-> code] IN
    log' = IF code >= 400 /\ sess.pc # "close" THEN log
           ELSE IF sess.cmd.verb = "mail" THEN <<entry>> ELSE Append(log, entry)

\* out(), then the flush function of the command, if it has one.
Reply(code) ==
    /\ Logged(code)
    /\ IF sess.cmd.verb \in {"mail", "rcpt", "rset"} \/ code = 354
       THEN ssout' = Append(ssout, code) /\ UNCHANGED s2c
       ELSE /\ ssout' = <<>>
            /\ s2c' = IF up THEN s2c \o Append(ssout, code) ELSE s2c

Answer(code, s) ==
    /\ Reply(code)
    /\ sess' = [s EXCEPT !.pc = "commands"]
    /\ UNCHANGED <<up, c2s, queued>>

\* A reply, flush(), _exit().
ReplyExit(code) ==
    /\ Logged(code)
    /\ ssout' = <<>> /\ s2c' = IF up THEN s2c \o Append(ssout, code) ELSE s2c
    /\ up' = FALSE
    /\ sess' = [sess EXCEPT !.pc = "exit"]
    /\ UNCHANGED <<c2s, queued>>

\* Lines of a message that was refused are commands without a handler.
OtherCommand ==
    /\ Fun({"noop", "text", "dot"})
    /\ Answer(IF sess.cmd.verb = "noop" THEN 250 ELSE 502, sess)

SmtpQuit == Fun({"quit"}) /\ ReplyExit(221)

SmtpHeloRset == Fun({"helo", "rset"}) /\ Answer(250, [sess EXCEPT !.seenmail = FALSE])

(* Mutant of NewMail: the recipients of the last message stay.             *)
NewMailKeeps(s, a) == [s EXCEPT !.seenmail = TRUE, !.mailfrom = a,
                                !.flagbarf = a \in Badmailfrom]

NewMail(s, a) == [s EXCEPT !.seenmail = TRUE, !.mailfrom = a,
                           !.flagbarf = a \in Badmailfrom, !.rcptto = <<>>]

SmtpMail ==
    /\ Fun({"mail"})
    /\ IF sess.cmd.arg = NoArg THEN Answer(555, sess)
       ELSE Answer(250, NewMail(sess, sess.cmd.arg))

SmtpRcpt ==
    LET a == sess.cmd.arg IN
    /\ Fun({"rcpt"})
    /\ IF ~sess.seenmail THEN Answer(503, sess)
       ELSE IF a = NoArg THEN Answer(555, sess)
       ELSE IF sess.flagbarf \/ ~(Relayclient \/ a \in Rcpthosts) THEN Answer(553, sess)
       ELSE Answer(250, [sess EXCEPT !.rcptto = Append(@, a)])

DataStarts(s) == [s EXCEPT !.seenmail = FALSE]

SmtpData ==
    /\ Fun({"data"})
    /\ IF ~sess.seenmail \/ sess.rcptto = <<>> THEN Answer(503, sess)
       ELSE \/ Answer(451, DataStarts(sess))
            \/ /\ Reply(354)
               /\ sess' = [DataStarts(sess) EXCEPT !.pc = "blast"]
               /\ UNCHANGED <<up, c2s, queued>>

\* blast(), to the dot.
ReadText ==
    /\ sess.pc = "blast" /\ c2s # <<>>
    /\ sess' = IF Head(c2s).verb = "dot"
               THEN [sess EXCEPT !.pc = "close", !.cmd = Head(c2s)] ELSE sess
    /\ c2s' = Tail(c2s)
    /\ UNCHANGED <<up, s2c, ssout, log, queued>>

Codes(hops, over, ok) ==
    IF ok THEN {250} ELSE IF hops THEN {554} ELSE IF over THEN {552} ELSE {554, 451}

\* qmail_close(): qmail-queue takes the message or does not, never one that
\* qmail_fail() has marked; then the reply.
QqClose ==
    /\ sess.pc = "close"
    /\ \E hops, over, taken, ok \in BOOLEAN :
         /\ taken => ~hops /\ ~over
         /\ ok => taken
         /\ taken /\ ~ok => QqCrashes
         /\ queued' = IF taken THEN Append(queued, [from |-> sess.mailfrom, to |-> sess.rcptto])
                      ELSE queued
         /\ \E code \in (IF taken /\ ~ok THEN {451} ELSE Codes(hops, over, ok)) : Reply(code)
    /\ sess' = [sess EXCEPT !.pc = "commands"]
    /\ UNCHANGED <<up, c2s>>

Server == Flush \/ ReadCommand \/ OtherCommand \/ SmtpQuit \/ SmtpHeloRset
          \/ SmtpMail \/ SmtpRcpt \/ SmtpData \/ ReadText \/ QqClose

\* die_nomem(), die_control() in a handler; die_alarm(); straynewline().
Dies ==
    \/ sess.pc = "fun" /\ ReplyExit(421)
    \/ sess.pc \in {"commands", "blast"} /\ up /\ c2s = <<>> /\ ReplyExit(451)
    \/ sess.pc = "blast" /\ c2s # <<>> /\ ReplyExit(451)

\* die_read(), and a write that fails.
DieRead ==
    /\ ~up /\ sess.pc \in {"commands", "blast"}
    /\ sess' = [sess EXCEPT !.pc = "exit"]
    /\ UNCHANGED <<netVars, ssout, log, queued>>

-----------------------------------------------------------------------------
(* A client that sends anything, and the network.                          *)
Bounded == Len(log) < MaxCommands /\ Len(queued) < MaxMessages

AnyClient ==
    /\ up /\ Bounded /\ Len(c2s) + Len(ssout) <= Ahead
    /\ \E c \in Commands : c2s' = Append(c2s, c)
    /\ s2c' = <<>>  \* it has read the replies
    /\ UNCHANGED <<up, ssout, sess, log, queued>>

\* What is under way in either direction may be lost, from some byte on.
Breaks ==
    /\ up /\ up' = FALSE
    /\ \E n \in 0 .. Len(c2s) : c2s' = SubSeq(c2s, 1, n)
    /\ \E n \in 0 .. Len(s2c) : s2c' = SubSeq(s2c, 1, n)
    /\ UNCHANGED <<ssout, sess, log, queued>>

Next == Server \/ Dies \/ DieRead \/ AnyClient \/ Breaks

Spec == Init /\ [][Next]_vars

-----------------------------------------------------------------------------
\* to has the recipients that were accepted, in this order; at has where.
Accepted(e) == e.cmd.verb = "rcpt" /\ e.code = 250
Lists(at, to) ==
    /\ \A j, k \in DOMAIN at : j < k => at[j] < at[k]
    /\ \A k \in DOMAIN log : Accepted(log[k]) <=> \E j \in DOMAIN at : at[j] = k
    /\ \A j \in DOMAIN at : to[j] = log[at[j]].cmd.arg

(* A message is queued with the sender of the last MAIL that was accepted  *)
(* and with the recipients that were accepted since, and only those; each  *)
(* was allowed; and since that MAIL there was no HELO, RSET or other DATA, *)
(* whatever commands failed in between (smtp_*()).                         *)
EnvelopeTrue ==
    queued' # queued =>
        LET q == Last(queued') IN
        /\ log # <<>> /\ q.from = log[1].cmd.arg /\ q.from \notin Badmailfrom
        /\ q.to # <<>> /\ \E at \in [1 .. Len(q.to) -> 1 .. Len(log)] : Lists(at, q.to)
        /\ Relayclient \/ ToSet(q.to) \subseteq Rcpthosts
        /\ \A j \in 1 .. Len(log) :
              /\ log[j].cmd.verb \notin {"helo", "rset"}
              /\ log[j].cmd.verb = "data" /\ log[j].code = 354 => j = Len(log)

(* The end of a message is answered with 250 only when qmail-queue took    *)
(* exactly this message, and a message that is refused for good or for now *)
(* is not in the queue, unless qmail-queue crashed (smtp_data()).          *)
AcceptedIsQueued ==
    sess.pc = "close" /\ log' # log =>
        /\ Last(log').code = 250 => Len(queued') = Len(queued) + 1
        /\ Last(log').code # 250 /\ ~QqCrashes => queued' = queued
=============================================================================
