--------------------------------- MODULE Qmqp ---------------------------------
(***************************************************************************)
(* QMQP: qmail-qmqpc, which stands in for qmail-queue on a host without a  *)
(* queue, qmail-qmqpd on its servers, and the connection, which may break  *)
(* anywhere.  With Client "any" the server has to do with a client that    *)
(* sends whatever it likes.                                                *)
(***************************************************************************)
EXTENDS Integers, Sequences, SequencesExt, FiniteSetsExt

CONSTANTS Client,    \* "qmqpc", "any"
          Envelopes, \* records [msg, from, to]
          Servers,   \* how many there are in control/qmqpservers
          MaxAddr,   \* an address of this length is too long; 1000 in the code
          MaxTotal   \* longest netstring of a client of any kind

VARIABLES env,    \* what qmail-qmqpc is given
          c,      \* qmail-qmqpc: where it stands, its exit code
          up,     \* the connection stands
          sent,   \* tokens that the server has read
          s,      \* qmail-qmqpd
          answer, \* of the server, on its way
          queued  \* messages in the queues of the servers

vars == <<env, c, up, sent, s, answer, queued>>

-----------------------------------------------------------------------------
(* Netstrings: a length, a colon, that many bytes, a comma.  A length and  *)
(* its colon are one token here.                                           *)
Length(n) == <<"len", n>>
Byte(b) == <<b, 0>>
Comma == Byte(",")

\* Bytes of a token; lengths have at most two digits.
Bytes(tok) == IF tok[1] # "len" THEN 1 ELSE IF tok[2] < 10 THEN 2 ELSE 3
Size(toks) == MapThenSumSet(LAMBDA k : Bytes(toks[k]), DOMAIN toks)

Net(toks) == <<Length(Size(toks))>> \o toks \o <<Comma>>
Nets(list) == FlattenSeq([k \in 1 .. Len(list) |-> Net(list[k])])

-----------------------------------------------------------------------------
Server == [pc |-> "total", left |-> 100, len |-> 0, buf |-> <<>>, msg |-> <<>>,
           addrs |-> <<>>, flagok |-> TRUE]

\* getmess(), doit(): what the client sends.
Encode(e) == Net(Net(e.msg) \o Net(e.from) \o Nets(e.to))

Init ==
    /\ env \in Envelopes
    /\ c = [pc |-> IF Client = "any" THEN "other" ELSE "getmess", code |-> 55, i |-> 1]
    /\ up = (Client = "any") /\ s = [Server EXCEPT !.pc = IF up THEN @ ELSE "idle"]
    /\ sent = <<>> /\ answer = "" /\ queued = <<>>

-----------------------------------------------------------------------------
(* qmail-qmqpc.                                                            *)
Exit(code) ==
    /\ c' = [c EXCEPT !.pc = "exit", !.code = code] /\ up' = FALSE
    /\ UNCHANGED <<env, sent, s, answer, queued>>

\* die_read(), nomem(); die_format(): the client has died before the end.
Getmess ==
    /\ c.pc = "getmess"
    /\ \/ c' = [c EXCEPT !.pc = "doit"] /\ UNCHANGED <<env, up, sent, s, answer, queued>>
       \/ \E code \in {51, 54, 91} : Exit(code)

\* One server after the other, as long as none of them answers.  What is not an
\* address is passed over, and leaves the code of the server before.
Connect ==
    /\ c.pc = "doit" /\ c.i <= Servers
    /\ \/ \E code \in {72, 73, c.code} :
            c' = [c EXCEPT !.i = @ + 1, !.code = code] /\ UNCHANGED <<up, s>>
       \/ c' = [c EXCEPT !.pc = "wait"] /\ up' = TRUE /\ s' = Server
    /\ UNCHANGED <<env, sent, answer, queued>>

DieSocket == c.pc = "doit" /\ c.i <= Servers /\ Exit(56)

NoServer == c.pc = "doit" /\ c.i > Servers /\ Exit(c.code)

GetAnswer ==
    /\ c.pc = "wait" /\ answer # ""
    /\ Exit(CASE answer = "K" -> 0 [] answer = "Z" -> 71 [] answer = "D" -> 31)

(* Mutant of DieConn: the next server is as good.                          *)
DieConnNext ==
    /\ c.pc = "wait" /\ ~up
    /\ c' = [c EXCEPT !.pc = "doit", !.i = @ + 1] /\ sent' = <<>>
    /\ UNCHANGED <<env, up, s, answer, queued>>

\* The connection breaks, or nothing comes for 60 seconds.
DieConn == c.pc = "wait" /\ ~up /\ Exit(74)
Timeout == c.pc = "wait" /\ up /\ answer = "" /\ Exit(74)

-----------------------------------------------------------------------------
(* qmail-qmqpd.                                                            *)
\* What the client may send next.
Next_token(kinds) ==
    IF Client = "any" THEN kinds \cup {Comma}
    ELSE IF Len(sent) < Len(Encode(env)) THEN {Encode(env)[Len(sent) + 1]} ELSE {}

Gone(state) == s' = [state EXCEPT !.pc = "gone"] /\ up' = FALSE /\ UNCHANGED answer

\* getbyte(), as often as the token has bytes.
Get(tok) == sent' = Append(sent, tok)
Rest(tok) == [s EXCEPT !.left = @ - Bytes(tok)]
Enough(tok) == s.left >= Bytes(tok)

\* getlen(), and what the length is for.
Getlen ==
    /\ s.pc \in {"total", "msglen", "addrlen"}
    /\ \E tok \in Next_token({Length(n) : n \in 0 .. MaxTotal}) :
         /\ Get(tok)
         /\ IF ~Enough(tok) \/ tok[1] # "len" THEN Gone(s)
            ELSE /\ s' = CASE s.pc = "total" -> [s EXCEPT !.pc = "msglen", !.left = tok[2]]
                           [] s.pc = "msglen" -> [Rest(tok) EXCEPT !.pc = "msg", !.len = tok[2]]
                           [] OTHER -> [Rest(tok) EXCEPT !.pc = "addr", !.len = tok[2], !.buf = <<>>]
                 /\ UNCHANGED <<up, answer>>
    /\ UNCHANGED <<env, c, queued>>

\* The message, byte after byte, and addresses in getbuf().
Getbytes ==
    /\ s.pc \in {"msg", "addr"} /\ s.len > 0
    /\ \E tok \in Next_token({Byte("x"), Byte("nul")}) :
         /\ Get(tok)
         /\ IF ~Enough(tok) THEN Gone(s)
            ELSE /\ s' = LET t == [Rest(tok) EXCEPT !.len = @ - Bytes(tok)] IN
                         IF s.pc = "msg" THEN [t EXCEPT !.msg = Append(@, tok)]
                         ELSE [t EXCEPT !.buf = Append(@, tok)]
                 /\ UNCHANGED <<up, answer>>
    /\ UNCHANGED <<env, c, queued>>

Good(buf) == Len(buf) < MaxAddr /\ \A k \in DOMAIN buf : buf[k] # Byte("nul")

\* The end of the message, and of an address: qmail_from(), qmail_to().
Getcomma ==
    /\ s.pc \in {"msg", "addr"} /\ s.len = 0
    /\ \E tok \in Next_token({Byte("x")}) :
         /\ Get(tok)
         /\ IF ~Enough(tok) \/ tok # Comma THEN Gone(s)
            ELSE /\ s' = LET t == Rest(tok) IN
                         IF s.pc = "msg" THEN [t EXCEPT !.pc = "addrlen"]
                         ELSE [t EXCEPT !.pc = IF t.left = 0 THEN "end" ELSE "addrlen",
                                        !.addrs = Append(@, s.buf),
                                        !.flagok = @ /\ Good(s.buf)]
                 /\ UNCHANGED <<up, answer>>
    /\ UNCHANGED <<env, c, queued>>

\* qmail_fail().
Failed == ~s.flagok

\* The last comma and qmail_close().  qmail-queue may die when it is done.
End ==
    /\ s.pc = "end"
    /\ \E tok \in Next_token({Byte("x")}) :
         /\ Get(tok)
         /\ IF tok # Comma THEN Gone(s) /\ UNCHANGED queued
            ELSE \E result \in {"K", "Z", "D"}, done \in BOOLEAN :
                   /\ result = "K" => done
                   /\ result = "D" => ~done
                   /\ done => ~Failed
                   /\ queued' = IF ~done THEN queued ELSE
                                  Append(queued, [msg |-> s.msg, from |-> s.addrs[1], to |-> Tail(s.addrs)])
                   /\ answer' = IF ~up THEN "" ELSE IF s.flagok THEN result ELSE "D"
                   /\ s' = [s EXCEPT !.pc = "gone"] /\ UNCHANGED up
    /\ UNCHANGED <<env, c>>

\* resources(), or the alarm of an hour.
Dies == s.pc \notin {"idle", "gone"} /\ Gone(s) /\ UNCHANGED <<env, c, sent, queued>>

\* The server may still have everything that was sent.
Breaks == c.pc = "wait" /\ up /\ up' = FALSE /\ answer' = "" /\ UNCHANGED <<env, c, sent, s, queued>>

Next == \/ Getmess \/ Connect \/ DieSocket \/ NoServer \/ GetAnswer \/ DieConn \/ Timeout
        \/ Getlen \/ Getbytes \/ Getcomma \/ End \/ Dies \/ Breaks

Spec == Init /\ [][Next]_vars

-----------------------------------------------------------------------------
Exited(codes) == c.pc = "exit" /\ c.code \in codes

(* Exit code 0 says that one server has the whole message with all its     *)
(* recipients; every other code but those of a server's temporary error    *)
(* and of a lost connection says that none has it.                         *)
ExitTrue ==
    Client = "qmqpc" =>
        /\ Exited({0}) => queued = <<env>>
        /\ Exited({31, 51, 54, 55, 56, 72, 73, 91}) => queued = <<>>

(* One run of qmail-qmqpc queues its message once at most, and never       *)
(* without some of its recipients.                                         *)
OnceWhole == Client = "qmqpc" => queued \in {<<>>, <<env>>}

(* What the server takes is one netstring of netstrings, exactly, and no   *)
(* address in it is one that qmail-queue could not be told; whatever the   *)
(* client sends (getbyte(), bytesleft).                                    *)
OnlyWellFormed ==
    \A k \in DOMAIN queued :
        /\ sent = Encode(queued[k])
        /\ \A a \in {queued[k].from} \cup Range(queued[k].to) :
             Len(a) < MaxAddr /\ Byte("nul") \notin Range(a)
=============================================================================
