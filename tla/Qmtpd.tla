-------------------------------- MODULE Qmtpd --------------------------------
(***************************************************************************)
(* qmail-qmtpd: messages one after the other from a client of any kind,    *)
(* each of them a netstring of text, one of the sender, and a netstring of *)
(* netstrings, the recipients.  There is one answer for each recipient.    *)
(***************************************************************************)
EXTENDS Integers, Sequences, SequencesExt, FiniteSetsExt

CONSTANTS Databytes,  \* control/databytes; 0 is no limit
          MaxAddr,    \* an address of this length is too long; 1000 in the code
          MaxText, MaxRcpts, MaxLen, MaxMessages

VARIABLES pc,
          len, biglen,      \* bytes that are still to come
          flagdos, bytestooverflow, flagsenderok,
          qq,               \* what qmail-queue has: text, sender, recipients; and qmail_fail()
          buf,              \* an address
          failure,          \* by recipient
          given,            \* what this message was: its text, sender and recipients
          queued, answers,  \* of this message
          messages          \* that have begun

input == <<len, biglen>>
flags == <<flagdos, bytestooverflow, flagsenderok>>
done == <<queued, answers, messages>>
vars == <<pc, input, flags, qq, buf, failure, given, done>>

\* Tokens: bytes, and lengths of at most two digits with their colons.
Length(n) == <<"len", n>>
Byte(b) == <<b, 0>>
Bytes(tok) == IF tok[1] # "len" THEN 1 ELSE IF tok[2] < 10 THEN 2 ELSE 3

CR == Byte("cr")
LF == Byte("lf")
x == Byte("x")
Nul == Byte("nul")
Bad == Byte("b")   \* an address with it is not in rcpthosts

Nothing == [text |-> <<>>, from |-> <<>>, to |-> <<>>]

Init ==
    /\ pc = "len" /\ len = 0 /\ biglen = 0
    /\ flagdos = FALSE /\ bytestooverflow = 0 /\ flagsenderok = TRUE
    /\ qq = [open |-> FALSE, fail |-> FALSE, text |-> <<>>, from |-> <<>>, to |-> <<>>]
    /\ buf = <<>> /\ failure = <<>> /\ given = Nothing
    /\ queued = {} /\ answers = <<>> /\ messages = 0

\* badproto(), resources(), the alarm, the end of the input, a dead connection.
Exit == pc # "exit" /\ pc' = "exit" /\ UNCHANGED <<input, flags, qq, buf, failure, given, done>>

-----------------------------------------------------------------------------
(* The text.                                                               *)
GetLen ==
    /\ pc = "len" /\ messages < MaxMessages
    /\ len' \in 0 .. MaxText - 1 /\ flagdos' \in BOOLEAN   \* without the first byte
    /\ messages' = messages + 1
    /\ flagsenderok' = TRUE /\ failure' = <<>> /\ given' = Nothing
    /\ LET big == ~flagdos' /\ Databytes > 0 /\ len' > Databytes IN
       /\ bytestooverflow' = IF Databytes = 0 \/ big THEN 0 ELSE Databytes + 1
       /\ qq' = [open |-> TRUE, fail |-> big, text |-> <<>>, from |-> <<>>, to |-> <<>>]
    /\ pc' = "text" /\ queued' = {} /\ answers' = <<>>
    /\ UNCHANGED <<biglen, buf>>

\* Bytes that qmail_put() takes, and the limit.
Limit(n) == IF bytestooverflow <= n THEN 0 ELSE bytestooverflow - n
Reached(n) == bytestooverflow \in 1 .. n

GetText ==
    /\ pc = "text" /\ ~flagdos /\ len > 0
    /\ \E b \in {x, CR, LF} :
         qq' = [qq EXCEPT !.text = Append(@, b)] /\ given' = [given EXCEPT !.text = Append(@, b)]
    /\ len' = len - 1
    /\ UNCHANGED <<pc, biglen, flags, buf, failure, done>>

\* CRs that no newline follows are put as they are.
Held(n) == [k \in 1 .. n |-> CR]

\* CRs, and then another byte, or the end, which leaves the last CR as ch.
GetDosText ==
    /\ pc = "text" /\ flagdos /\ len > 0
    /\ \E n \in 0 .. len, b \in {x, LF} :
         LET end == n = len
             raw == [k \in 1 .. n |-> CR] \o (IF end THEN <<>> ELSE <<b>>)
             put == CASE end -> Held(n)
                      [] ~end /\ n > 0 /\ b = LF -> Held(n - 1) \o <<LF>>
                      [] OTHER -> (IF n = 0 THEN <<>> ELSE Held(n)) \o <<b>> IN
         /\ given' = [given EXCEPT !.text = @ \o raw]
         /\ qq' = [qq EXCEPT !.text = @ \o put, !.fail = @ \/ Reached(Len(put))]
         /\ bytestooverflow' = Limit(Len(put))
         /\ len' = len - Len(raw)
    /\ UNCHANGED <<pc, biglen, flagdos, flagsenderok, buf, failure, done>>

TextEnds ==
    /\ pc = "text" /\ len = 0
    /\ pc' = "from" /\ buf' = <<>> /\ len' \in 0 .. MaxAddr
    /\ UNCHANGED <<biglen, flags, qq, failure, given, done>>

-----------------------------------------------------------------------------
(* The addresses.                                                          *)
GetAddr ==
    /\ pc \in {"from", "to"} /\ len > 0
    /\ \E b \in {x, Nul, Bad} : buf' = Append(buf, b)
    /\ len' = len - 1
    /\ UNCHANGED <<pc, biglen, flags, qq, failure, given, done>>

Acceptable(addr) == Len(addr) < MaxAddr /\ Nul \notin Range(addr)

GotFrom ==
    /\ pc = "from" /\ len = 0
    /\ flagsenderok' = Acceptable(buf)
    /\ given' = [given EXCEPT !.from = buf]
    /\ qq' = [qq EXCEPT !.from = IF Len(buf) < MaxAddr THEN buf ELSE <<>>,
                        !.fail = @ \/ ~Acceptable(buf)]
    /\ biglen' \in 0 .. MaxLen /\ pc' = "rcpts"
    /\ UNCHANGED <<len, flagdos, bytestooverflow, buf, failure, done>>

\* The length of a recipient, inside of what is left of all of them.
GetRcpt ==
    /\ pc = "rcpts" /\ biglen > 0 /\ Len(failure) < MaxRcpts
    /\ \E n \in 0 .. MaxAddr :
         LET left == biglen - Bytes(Length(n)) IN
         IF n >= left THEN pc' = "exit" /\ UNCHANGED input
         ELSE len' = n /\ biglen' = left - (n + 1) /\ pc' = "to"
    /\ buf' = <<>> /\ UNCHANGED <<flags, qq, failure, given, done>>

\* rcpthosts() is asked last.
Failure(addr) == IF Len(addr) >= MaxAddr THEN "L"
                 ELSE IF Bad \in Range(addr) THEN "D"
                 ELSE IF Nul \in Range(addr) THEN "N" ELSE ""

GotRcpt ==
    /\ pc = "to" /\ len = 0
    /\ failure' = Append(failure, Failure(buf))
    /\ given' = [given EXCEPT !.to = Append(@, buf)]
    /\ qq' = [qq EXCEPT !.to = IF Failure(buf) = "" THEN Append(@, buf) ELSE @]
    /\ pc' = "rcpts"
    /\ UNCHANGED <<input, flags, buf, done>>

-----------------------------------------------------------------------------
(* The end of the message: flagbother, qmail_close(), the answers.         *)
Fails == qq.fail \/ qq.to = <<>>
TooBig == Databytes > 0 /\ bytestooverflow = 0

(* Mutant of Answer: the result is for those that qmail-queue has.         *)
AnswerFirst(result, k) ==
    IF k = 1 THEN (IF ~flagsenderok \/ TooBig THEN "D" ELSE result)
    ELSE IF failure[k] = "" THEN "K" ELSE "D"

Answer(result, k) ==
    IF failure[k] # "" THEN "D" ELSE IF ~flagsenderok \/ TooBig THEN "D" ELSE result

\* qmail-queue may die when it has queued the message: then the result is Z.
Close ==
    /\ pc = "rcpts" /\ biglen = 0
    /\ \E result \in {"K", "Z", "D"}, taken \in BOOLEAN :
         /\ result = "K" => taken
         /\ result = "D" => ~taken
         /\ taken => ~Fails
         /\ queued' = IF ~taken THEN {}
                      ELSE {[text |-> qq.text, from |-> qq.from, to |-> qq.to]}
         /\ answers' = [k \in 1 .. Len(failure) |-> Answer(result, k)]
    /\ pc' = "len" /\ qq' = [qq EXCEPT !.open = FALSE]
    /\ UNCHANGED <<input, flags, buf, failure, given, messages>>

Next == \/ GetLen \/ GetText \/ GetDosText \/ TextEnds \/ GetAddr \/ GotFrom
        \/ GetRcpt \/ GotRcpt \/ Close \/ Exit

Spec == Init /\ [][Next]_vars

-----------------------------------------------------------------------------
\* A text with CR LF for its newlines.
Undos(text) ==
    SelectSeq([k \in 1 .. Len(text) |->
                IF k < Len(text) /\ text[k] = CR /\ text[k + 1] = LF THEN <<>> ELSE <<text[k]>>],
              LAMBDA b : b # <<>>)
Text == FlattenSeq(IF flagdos THEN Undos(given.text) ELSE [k \in DOMAIN given.text |-> <<given.text[k]>>])

Closed == pc = "len" /\ messages > 0

\* The recipients that were answered with one of these letters, in order.
Told(letters) ==
    LET those == SelectSeq([k \in 1 .. Len(answers) |-> k], LAMBDA k : answers[k] \in letters) IN
    [k \in DOMAIN those |-> given.to[those[k]]]

(* There is an answer for each recipient, in order.  Those with K are in   *)
(* the queue, and with D is answered nobody who is.  After Z the message   *)
(* may be there or not, because qmail-queue may have died when it had      *)
(* queued it (qmail.c:124); if it is, it has exactly the recipients that   *)
(* were not answered with D, and has some.                                 *)
AnswersTrue ==
    Closed =>
        /\ Len(answers) = Len(given.to)
        /\ \A message \in queued : message.to = Told({"K", "Z"}) /\ message.to # <<>>
        /\ Told({"K"}) # <<>> => queued # {}

(* The message in the queue has the text of the client, with its newlines  *)
(* made qmail's, its sender, and no address that cannot be an address; and *)
(* it is not longer than databytes, while one that fits is not called big. *)
MessageTrue ==
    Closed =>
        /\ \A message \in queued :
             /\ message.text = Text /\ message.from = given.from
             /\ \A k \in DOMAIN message.to : Nul \notin Range(message.to[k])
             /\ Databytes > 0 => Len(Text) <= Databytes
        /\ TooBig <=> Databytes > 0 /\ Len(Text) > Databytes
=============================================================================
