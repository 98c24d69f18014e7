------------------------------- MODULE MCNet --------------------------------
(***************************************************************************)
(* The client of qmail-queue and the protocols behind it, on small         *)
(* instances: QMQP, QMTP and POP3. A behaviour is of one part.             *)
(***************************************************************************)
EXTENDS Integers, Sequences, TLC

VARIABLES part,   \* the component that this behaviour is of
    handPc, todo, ss, flushing, flagerr, errlen, pipe, open, q, wstat, result,   \* QmailC
    env, c, up, sent, s, answer, qmqpcQueued,   \* Qmqp
    qmtpdPc, len, biglen, flagdos, bytestooverflow, flagsenderok, qq, buf, failure,
    given, qmtpdQueued, answers, messages,   \* Qmtpd
    pop3Pc, seenuser, username, upipe, said, m, last, cmd, arg, out   \* Pop3

\* A string of n ordinary bytes, as Qmqp has them.
Xs(n) == [k \in 1 .. n |-> <<"x", 0>>]
MCEnvelopes == [msg : {Xs(0), Xs(2)}, from : {Xs(0), Xs(1)},
                to : {<<>>, <<Xs(1)>>, <<Xs(1), Xs(0)>>, <<Xs(1), Xs(3), Xs(1)>>}]
NoEnvelope == {[msg |-> Xs(0), from |-> Xs(0), to |-> <<>>]}

\* All messages of up to three lines: an empty one, text, and dots.
MCTexts == UNION {[1 .. n -> {<<0, "">>, <<0, "x">>, <<1, "">>, <<2, "x">>}] : n \in 0 .. 3}

Hand == INSTANCE QmailC WITH
    BodyLen <- 5, EnvLen <- 4, BufSize <- 2, PipeSize <- 3, MaxErr <- 4, EarlyErr <- 4,
    ErrStr <- 3,
    ExitCodes <- {11, 40, 53, 71, 82, 100, 115, 120}, pc <- handPc
Qmqpc == INSTANCE Qmqp WITH
    Client <- "qmqpc", Envelopes <- MCEnvelopes, Servers <- 2, MaxAddr <- 3,
    MaxTotal <- 0, queued <- qmqpcQueued
Qmqpd == INSTANCE Qmqp WITH
    Client <- "any", Envelopes <- NoEnvelope, Servers <- 1, MaxAddr <- 2,
    MaxTotal <- 10, queued <- qmqpcQueued
Qmtp == INSTANCE Qmtpd WITH
    Databytes <- 2, MaxAddr <- 2, MaxText <- 4, MaxRcpts <- 2, MaxLen <- 8,
    MaxMessages <- 2, pc <- qmtpdPc, queued <- qmtpdQueued
Popping == INSTANCE Pop3 WITH
    Texts <- MCTexts, Names <- {"u", "v"}, pc <- pop3Pc

handVars == <<handPc, todo, ss, flushing, flagerr, errlen, pipe, open, q, wstat, result>>
qmqpcVars == <<env, c, up, sent, s, answer, qmqpcQueued>>
qmtpdVars == <<qmtpdPc, len, biglen, flagdos, bytestooverflow, flagsenderok, qq, buf, failure,
        given, qmtpdQueued, answers, messages>>
pop3Vars == <<pop3Pc, seenuser, username, upipe, said, m, last, cmd, arg, out>>

Init ==
    /\ part \in {"hand", "qmqpc", "qmqpd", "qmtpd", "pop3"}
    /\ IF part = "hand" THEN Hand!Init
       ELSE handPc = 0 /\ todo = 0 /\ ss = 0 /\ flushing = 0 /\ flagerr = 0
            /\ errlen = 0 /\ pipe = 0 /\ open = 0 /\ q = 0 /\ wstat = 0 /\ result = 0
    /\ IF part = "qmqpc" THEN Qmqpc!Init
       ELSE IF part = "qmqpd" THEN Qmqpd!Init
       ELSE env = 0 /\ c = 0 /\ up = 0 /\ sent = 0 /\ s = 0 /\ answer = 0
            /\ qmqpcQueued = 0
    /\ IF part = "qmtpd" THEN Qmtp!Init
       ELSE qmtpdPc = 0 /\ len = 0 /\ biglen = 0 /\ flagdos = 0 /\ bytestooverflow = 0
            /\ flagsenderok = 0 /\ qq = 0 /\ buf = 0 /\ failure = 0 /\ given = 0
            /\ qmtpdQueued = 0 /\ answers = 0 /\ messages = 0
    /\ IF part = "pop3" THEN Popping!Init
       ELSE pop3Pc = 0 /\ seenuser = 0 /\ username = 0 /\ upipe = 0 /\ said = 0 /\ m = 0
            /\ last = 0 /\ cmd = 0 /\ arg = 0 /\ out = 0

\* All other components are switched off.
Others(which) ==
    /\ part = which /\ UNCHANGED part
    /\ IF which = "hand" THEN TRUE ELSE UNCHANGED handVars
    /\ IF which \in {"qmqpc", "qmqpd"} THEN TRUE ELSE UNCHANGED qmqpcVars
    /\ IF which = "qmtpd" THEN TRUE ELSE UNCHANGED qmtpdVars
    /\ IF which = "pop3" THEN TRUE ELSE UNCHANGED pop3Vars

Next ==
    \/ Others("hand") /\ Hand!Next
    \/ Others("qmqpc") /\ Qmqpc!Next
    \/ Others("qmqpd") /\ Qmqpd!Next
    \/ Others("qmtpd") /\ Qmtp!Next
    \/ Others("pop3") /\ Popping!Next

vars == <<part, handVars, qmqpcVars, qmtpdVars, pop3Vars>>

Spec == Init /\ [][Next]_vars

-----------------------------------------------------------------------------
(* Whatever dies or fails, a message in the queue is the whole message     *)
(* with its envelope, and its client has not called it off, in the message *)
(* or among the recipients (qmail.c:78); qmail_close() tells of success    *)
(* only when it is in the queue, and of failure for good only for the      *)
(* codes of qmail-queue(8).  qmail-qmqpc exits with 0 only when one server *)
(* has the whole message, and with codes other than 71 and 74 only when    *)
(* none has; one run queues it once at most.  qmail-qmqpd queues only what *)
(* was a well-formed request to its last byte, whatever lengths a client   *)
(* claims.                                                                 *)
OnceWhole ==
    /\ part = "hand" => Hand!OnlyWhole /\ Hand!ResultTrue
    /\ part = "qmqpc" => Qmqpc!ExitTrue /\ Qmqpc!OnceWhole
    /\ part = "qmqpd" => Qmqpd!OnlyWellFormed

(* Answers of the servers.  QMTP: each recipient is answered, in order,    *)
(* with K only when qmail-queue took the message for it, and with D only   *)
(* when it did not; Z says that it failed or died, maybe after it took the *)
(* message.  What is queued has the text, the sender and the good          *)
(* recipients that the client sent.  POP3: every command gets exactly one  *)
(* reply, which ends where the client expects it; what the client has      *)
(* after RETR is the message and one blank line more, after TOP the header *)
(* and as much of the body as it asked for; and the session that begins is *)
(* of the name and password that the client gave last (qmail-popup.c).     *)
AnswersTrue ==
    /\ [](part = "qmtpd" => Qmtp!AnswersTrue /\ Qmtp!MessageTrue)
    /\ [](part = "pop3" => Popping!InStep /\ Popping!TextTrue)
    /\ [][part = "pop3" => Popping!SessionOfClient]_pop3Vars
=============================================================================
