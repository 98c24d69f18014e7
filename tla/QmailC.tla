------------------------------- MODULE QmailC --------------------------------
(***************************************************************************)
(* qmail.c: how a program hands a message to qmail-queue, or to a program  *)
(* that QMAILQUEUE names instead.  Three pipes of bounded size connect the *)
(* two; either side may die, and the queue program may stop reading and    *)
(* exit when it likes.  The bytes of the message and of the envelope are   *)
(* numbered; the last byte of the envelope is the NUL that ends it.        *)
(***************************************************************************)
EXTENDS Integers, Sequences, SequencesExt

CONSTANTS BodyLen, EnvLen, \* bytes of message and envelope
          BufSize,         \* sizeof(qq->buf)
          PipeSize,        \* capacity of a pipe
          MaxErr,          \* bytes a queue program writes to descriptor 6
          EarlyErr,        \* how many of them before it has read the message
          ErrStr,          \* bytes that qmail_errstr() takes (255)
          ExitCodes        \* of a queue program that fails

Body == [k \in 1 .. BodyLen |-> k]
Env  == [k \in 1 .. EnvLen |-> k]

VARIABLES pc,       \* where the client stands
          todo,     \* bytes it has still to put
          ss,       \* qq->ss
          flushing, \* it is in substdio_flush()
          flagerr,  \* qq->flagerr
          errlen,   \* bytes read from descriptor 6
          pipe,     \* contents of the pipes
          open,     \* ends of pipes: <<pipe, side>>
          q,        \* the queue program: where it stands, what it has read
          wstat,    \* exit code of the queue program, -1 for a crash
          result    \* what qmail_close() returns, as "", "Z", "D" or "custom"

clientVars == <<pc, todo, ss, flushing, flagerr, errlen, result>>
vars == <<clientVars, pipe, open, q, wstat>>

Pipes == {"m", "e", "err"}

Init ==
    /\ pc = "open" /\ todo = <<>> /\ ss = <<>> /\ flushing = FALSE
    /\ flagerr = FALSE /\ errlen = 0 /\ result = "none"
    /\ pipe = [p \in Pipes |-> <<>>] /\ open = {}
    /\ q = [pc |-> "none", body |-> <<>>, env |-> <<>>, wrote |-> 0]
    /\ wstat = 0

-----------------------------------------------------------------------------
(* The client.                                                             *)
QmailOpen ==
    /\ pc = "open"
    /\ \/ /\ pc' = "body" /\ todo' = Body
          /\ q' = [q EXCEPT !.pc = "body"]
          /\ open' = Pipes \X {"client", "queue"}
       \/ pc' = "failed" /\ UNCHANGED <<todo, q, open>>
    /\ UNCHANGED <<ss, flushing, flagerr, errlen, result, pipe, wstat>>

\* qmail_fail(): in the message, and among the addresses, when one of them is
\* bad (qmail-qmqpd, qmail-qmtpd); always before qmail_close() puts the last NUL.
QmailFail ==
    /\ ~flushing /\ ~flagerr
    /\ pc = "body" \/ (pc = "env" /\ todo # <<>>)
    /\ flagerr' = TRUE
    /\ UNCHANGED <<pc, todo, ss, flushing, errlen, result, pipe, open, q, wstat>>

Silent == flagerr

\* qmail_put(), a byte at a time; nothing is put after an error.
QmailPut ==
    /\ pc \in {"body", "env"} /\ ~flushing /\ todo # <<>>
    /\ IF Silent THEN todo' = Tail(todo) /\ UNCHANGED <<ss, flushing>>
       ELSE IF Len(ss) < BufSize
       THEN /\ ss' = Append(ss, Head(todo))
            /\ todo' = Tail(todo) /\ UNCHANGED flushing
       ELSE flushing' = TRUE /\ UNCHANGED <<todo, ss>>
    /\ UNCHANGED <<pc, flagerr, errlen, result, pipe, open, q, wstat>>

Out == IF pc \in {"body", "from"} THEN "m" ELSE "e"

\* allwrite(): blocks while the pipe is full, fails when nobody reads it.
Write ==
    /\ flushing
    /\ IF <<Out, "queue">> \notin open
       THEN /\ flagerr' = TRUE /\ ss' = <<>> /\ flushing' = FALSE
            /\ UNCHANGED pipe
       ELSE /\ ss # <<>> => Len(pipe[Out]) < PipeSize
            /\ LET n == Min({Len(ss), PipeSize - Len(pipe[Out])}) IN
               /\ pipe' = [pipe EXCEPT ![Out] = @ \o SubSeq(ss, 1, n)]
               /\ ss' = SubSeq(ss, n + 1, Len(ss))
               /\ flushing' = (n < Len(ss))
            /\ UNCHANGED flagerr
    /\ UNCHANGED <<pc, todo, errlen, result, open, q, wstat>>

\* qmail_from(): the rest of the message, its end, and then the envelope.
QmailFrom ==
    /\ pc = "body" /\ todo = <<>> /\ ~flushing
    /\ pc' = "from" /\ flushing' = (ss # <<>>)
    /\ UNCHANGED <<todo, ss, flagerr, errlen, result, pipe, open, q, wstat>>

EndOfMessage ==
    /\ pc = "from" /\ ~flushing
    /\ open' = open \ {<<"m", "client">>}
    /\ pc' = "env" /\ todo' = Env
    /\ UNCHANGED <<ss, flushing, flagerr, errlen, result, pipe, q, wstat>>

\* qmail_close(): flush, close, descriptor 6, and only then wait.
QmailClose ==
    /\ pc = "env" /\ todo = <<>> /\ ~flushing
    /\ pc' = "close" /\ flushing' = (ss # <<>> /\ ~Silent)
    /\ UNCHANGED <<todo, ss, flagerr, errlen, result, pipe, open, q, wstat>>

AfterClose == "errstr"

EndOfEnvelope ==
    /\ pc = "close" /\ ~flushing
    /\ open' = open \ {<<"e", "client">>}
    /\ pc' = AfterClose
    /\ UNCHANGED <<todo, ss, flushing, flagerr, errlen, result, pipe, q, wstat>>

QmailErrstr ==
    /\ pc = "errstr"
    /\ IF pipe["err"] # <<>> /\ errlen < ErrStr
       THEN /\ pipe' = [pipe EXCEPT !["err"] = Tail(@)] /\ errlen' = errlen + 1
            /\ UNCHANGED <<pc, open>>
       ELSE /\ <<"err", "queue">> \notin open \/ errlen = ErrStr
            /\ pc' = "wait" /\ open' = open \ {<<"err", "client">>}
            /\ UNCHANGED <<pipe, errlen>>
    /\ UNCHANGED <<todo, ss, flushing, flagerr, result, q, wstat>>

\* The exit codes.
Verdict(code, len) ==
    IF code \in {11, 31, 115} THEN "D"
    ELSE IF code = 0 /\ ~flagerr THEN ""
    ELSE IF code \in {0, 51, 52, 53, 54, 55, 56, 120, 91, 81} \cup 61 .. 66 \cup 71 .. 74
    THEN "Z"
    ELSE IF code = 82 /\ len > 2 THEN "custom"
    ELSE IF code \in 11 .. 40 THEN "D" ELSE "Z"

Wait ==
    /\ pc = "wait" /\ q.pc = "dead"
    /\ result' = IF wstat = -1 THEN "Z" ELSE Verdict(wstat, errlen)
    /\ pc' = "done"
    /\ UNCHANGED <<todo, ss, flushing, flagerr, errlen, pipe, open, q, wstat>>

ClientDies ==
    /\ pc \notin {"open", "failed", "done", "dead"}
    /\ pc' = "dead" /\ flushing' = FALSE
    /\ open' = open \ (Pipes \X {"client"})
    /\ UNCHANGED <<todo, ss, flagerr, errlen, result, pipe, q, wstat>>

-----------------------------------------------------------------------------
(* The queue program, seen from its descriptors 0, 1 and 6.                *)
Quits(code) ==
    /\ q' = [q EXCEPT !.pc = "dead"]
    /\ wstat' = code
    /\ open' = open \ (Pipes \X {"queue"})
    /\ UNCHANGED pipe

ReadsBody ==
    /\ q.pc = "body"
    /\ \/ /\ pipe["m"] # <<>>
          /\ q' = [q EXCEPT !.body = Append(@, Head(pipe["m"]))]
          /\ pipe' = [pipe EXCEPT !["m"] = Tail(@)]
       \/ /\ pipe["m"] = <<>> /\ <<"m", "client">> \notin open
          /\ q' = [q EXCEPT !.pc = "env"]
          /\ UNCHANGED pipe
    /\ UNCHANGED <<clientVars, open, wstat>>

ReadsEnvelope ==
    /\ q.pc = "env" /\ pipe["e"] # <<>>
    /\ q' = [q EXCEPT !.env = Append(@, Head(pipe["e"]))]
    /\ pipe' = [pipe EXCEPT !["e"] = Tail(@)]
    /\ UNCHANGED <<clientVars, open, wstat>>

\* With the last NUL the message is put into the queue.
Commits ==
    /\ q.pc = "env" /\ q.env # <<>> /\ Last(q.env) = EnvLen
    /\ q' = [q EXCEPT !.pc = "committed"]
    /\ UNCHANGED <<clientVars, pipe, open, wstat>>

\* On descriptor 6.  With EarlyErr <= PipeSize it cannot block there while the
\* client blocks on the message.
WritesError ==
    /\ q.pc \in {"body", "env"} /\ q.wrote < MaxErr
    /\ q.pc = "body" => q.wrote < EarlyErr
    /\ <<"err", "client">> \in open /\ Len(pipe["err"]) < PipeSize
    /\ q' = [q EXCEPT !.wrote = @ + 1]
    /\ pipe' = [pipe EXCEPT !["err"] = Append(@, 0)]
    /\ UNCHANGED <<clientVars, open, wstat>>

\* It exits with 0 only when it has queued the message; a program that has
\* something to say exits when it has said it.
Exits ==
    /\ q.pc \in {"body", "env", "committed"}
    /\ \/ q.pc = "committed" /\ Quits(0)
       \/ /\ q.pc # "committed"
          /\ q.wrote \in {0, MaxErr} \/ <<"err", "client">> \notin open
          /\ \E code \in ExitCodes : Quits(code)
    /\ UNCHANGED clientVars

\* _exit(120) before exec(), an end of file in the wrong place, a signal.
Crashes ==
    /\ q.pc \in {"body", "env", "committed"}
    /\ \/ Quits(-1)
       \/ q.pc = "env" /\ pipe["e"] = <<>> /\ <<"e", "client">> \notin open /\ Quits(54)
    /\ UNCHANGED clientVars

-----------------------------------------------------------------------------
Client == QmailPut \/ Write \/ QmailFrom \/ EndOfMessage
          \/ QmailClose \/ EndOfEnvelope \/ QmailErrstr \/ Wait
Reads == ReadsBody \/ ReadsEnvelope \/ Commits

Next == QmailOpen \/ QmailFail \/ Client \/ ClientDies
        \/ Reads \/ WritesError \/ Exits \/ Crashes

Spec == Init /\ [][Next]_vars

-----------------------------------------------------------------------------
(* Whatever dies or fails, a message that is in the queue is the whole     *)
(* message with the whole envelope, and its client has not called it off.  *)
OnlyWhole ==
    q.pc = "committed" => q.body = Body /\ q.env = Env /\ ~flagerr

(* The client is told of success only when the message is in the queue, of *)
(* a permanent failure only for the codes of qmail-queue(8) and never when *)
(* it has called the message off itself.                                   *)
ResultTrue ==
    pc = "done" =>
        /\ result = "" => wstat = 0 /\ q.env = Env /\ ~flagerr
        /\ result = "D" => wstat \in 11 .. 40 \cup {115}
        /\ result = "custom" => wstat = 82 /\ errlen > 0
=============================================================================
