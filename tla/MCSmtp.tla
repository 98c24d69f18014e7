------------------------------- MODULE MCSmtp -------------------------------
(***************************************************************************)
(* SMTP on small instances: the session between qmail-remote and qmail-    *)
(* smtpd, the bytes of a message, the choice of a relay, and addresses and *)
(* their lookups on both sides. A behaviour is of one part.                *)
(***************************************************************************)
EXTENDS Integers, Sequences, TLC

CONSTANTS
    Senders, Recips, Badmailfrom, Rcpthosts, Relayclient, QqCrashes, Ahead, MaxCommands,
    Verbs, MaxMessages,   \* Smtpd
    MailFrom, MailTo, Allowed,   \* Remote
    Remotes, Ips, Slots, Gap, Hold, Bonus, MaxTime, MaxClean   \* Tcpto

VARIABLES part,   \* the component that this behaviour is of
    threeUp, threeC2s, threeS2c, rem, report, threeSsout, threeSess, threeLog,
    threeQueued,   \* Remote
    smtpdUp, smtpdC2s, smtpdSsout, smtpdS2c, smtpdSess, smtpdLog, smtpdQueued,   \* Smtpd
    client, msg, mode, wire, srv,   \* Blast
    table, lock, now, cleaned, tcptoPc, ip, buf, flagwasthere, flagerr, errs,   \* Tcpto
    mxHost, relay, mxPc, mx, random, ia, flagsoft, prefme, mxI, exit,   \* Mx
    arg, argPc, argI, terminator, argAddr, flagesc, flagquoted,   \* Addrparse
    lookupPc, search, ctl, lookupAddr, lookupHost, lookupJ, answer   \* Lookups

Symmetric == Permutations(Remotes) \cup Permutations(Ips)
MCMailTo == <<"r1", "r2", "r3">>
MCHold == [p \in Remotes |-> 1]

ReceivedField == <<"r", "v">>
DeliveredField == <<"r", "d", "v">>

\* Hosts by name, and all lists of up to three MX records.
Answer(res, ips) == [res |-> res, ips |-> ips]
Zone == [n \in {"a", "b", "me", "soft", "part", "hard", "none", "lit", "self"} |->
    CASE n = "a" -> Answer("ok", <<"A1", "A2">>) [] n = "b" -> Answer("ok", <<"B">>)
      [] n = "me" -> Answer("ok", <<"B2", "Me">>) [] n = "soft" -> Answer("soft", <<>>)
      [] n = "part" -> Answer("soft", <<"P">>) [] n = "hard" -> Answer("hard", <<>>)
      [] n = "none" -> Answer("ok", <<>>) [] n = "lit" -> Answer("ok", <<"L">>)
      [] OTHER -> Answer("ok", <<"Self">>)]
Exchangers == [p : {10, 20}, name : DOMAIN Zone \ {"self"}]
AllHosts == {[res |-> "ok", mx |-> s] : s \in UNION {[1 .. n -> Exchangers] : n \in 0 .. 3}}
            \cup {[res |-> r, mx |-> <<>>] : r \in {"soft", "hard"}}
\* MX records of the same preference; times after September 2001, small process ids.
EqualHosts ==
    {[res |-> "ok", mx |-> [k \in 1 .. n |-> [p |-> 10, name |-> <<"a", "b", "none">>[k]]]] :
        n \in 1 .. 3}
TimeSeeds == {<<t, t, x, 60 + x>> : t \in {17, 202}, x \in {0, 31, 60, 57}}
OneSeed == {<<1, 2, 3, 100, 0, 0, 0, 0>>}

\* Arguments of MAIL and RCPT, with the addresses that they stand for.
Chars == {"a", ".", "e", " ", "@", ":", "<", ">", "(", "\"", "\\"}
Boxes == UNION {[1 .. n -> Chars] : n \in 0 .. 3}
Mailboxes == {x \o h : x \in Boxes,
                       h \in {<<"@", "h">>, <<"@", "[me]">>, <<"@", "h", ".", "h">>}}
Verb == <<"a", "a", "a", ":">>
Unquoted == {<<"a", "@", "h">>, <<"a">>, <<"a", ".", "a", "@", "[me]">>}
Arg(text, want) == [text |-> text, want |-> want]
Arguments(mangle(_)) ==
    {Arg(Verb \o <<"<">> \o mangle(x) \o <<">">>, x) : x \in Mailboxes}
    \cup {Arg(Verb \o <<"<">> \o mangle(x) \o <<">", " ", "a">>, x) : x \in Unquoted \cup {<<>>}}
    \cup {Arg(Verb \o blanks \o x \o more, x) :
            x \in Unquoted, blanks \in {<<>>, <<" ", " ">>}, more \in {<<>>, <<" ", "a", ">">>}}
    \cup {Arg(Verb \o <<"<", "@", "h", ",", "@", "h", ":">> \o mangle(x) \o <<">">>, x) :
            x \in Unquoted \cup Mailboxes}
    \cup {Arg(<<"a", "a">>, <<>>), Arg(Verb \o <<"<", "@", "h", ">">>, <<>>)}

LowerCase(ch) == IF ch = "V" THEN "v" ELSE ch
ShortAddresses == UNION {[1 .. n -> {"u", "v", "V", "@", "."}] : n \in 0 .. 5}
Routes ==
    {[h \in {<<"v">>, <<".", "v">>} |-> IF Len(h) = 1 THEN "a" ELSE "empty"],
     [h \in {<<>>, <<".", "v">>, <<"u", ".", "v">>} |-> IF Len(h) = 2 THEN "empty" ELSE "b"]}
Files ==
    LET Set(rh, mrh, bmf, routes) == [rh |-> rh, mrh |-> mrh, bmf |-> bmf, routes |-> routes]
        barred == {<<"@", "v">>, <<"u", "@", "u">>, <<"@", "u", ".", "v">>, <<"v">>}
        missing == {<<"no file">>}
        some == CHOOSE r \in Routes : TRUE IN
    {Set(missing, missing, barred, r) : r \in Routes}
    \cup {Set(rh, missing, {}, some) : rh \in {{}, {<<"v">>}, {<<".", "v">>}}}
    \cup {Set({<<".", "v">>}, {<<"v">>}, {}, some),
          Set({<<"u">>}, {<<"v">>, <<".", "u", ".", "v">>}, {}, some)}

Mangling == INSTANCE Addrparse WITH
    Args <- {}, liphostok <- TRUE, arg <- part, pc <- part, i <- part, terminator <- part,
    addr <- part, flagesc <- part, flagquoted <- part

Three == INSTANCE Remote WITH
    From <- MailFrom, To <- MailTo, up <- threeUp, c2s <- threeC2s, s2c <- threeS2c,
    ssout <- threeSsout, sess <- threeSess, log <- threeLog, queued <- threeQueued
One == INSTANCE Remote WITH
    From <- MailFrom, To <- <<MailTo[1]>>, QqCrashes <- FALSE, up <- threeUp,
    c2s <- threeC2s, s2c <- threeS2c, ssout <- threeSsout, sess <- threeSess,
    log <- threeLog, queued <- threeQueued
Server == INSTANCE Smtpd WITH
    up <- smtpdUp, c2s <- smtpdC2s, ssout <- smtpdSsout, s2c <- smtpdS2c,
    sess <- smtpdSess, log <- smtpdLog, queued <- smtpdQueued
Text == INSTANCE Blast WITH
    Bytes <- {"x", ".", "cr", "lf"}, Clients <- {"remote"}, MaxMsg <- 7, Databytes <- 3,
    Received <- ReceivedField, Delivered <- DeliveredField
Hopping == INSTANCE Blast WITH
    Bytes <- {"r", "v", "d", "cr", "lf"}, Clients <- {"any"}, MaxMsg <- 7,
    Databytes <- 4, Received <- ReceivedField, Delivered <- DeliveredField
Timeouts == INSTANCE Tcpto WITH
    pc <- tcptoPc
Select == INSTANCE Mx WITH
    Hosts <- AllHosts, Bytes <- 8, Seeds <- OneSeed, Names <- Zone, Literals <- {"lit"},
    Me <- {"Me"}, host <- mxHost, pc <- mxPc, i <- mxI
Equal == INSTANCE Mx WITH
    Hosts <- EqualHosts, Bytes <- 4, Seeds <- TimeSeeds, Names <- Zone,
    Literals <- {"lit"}, Me <- {"Me"}, host <- mxHost, pc <- mxPc, i <- mxI
Parsing == INSTANCE Addrparse WITH
    Args <- Arguments(Mangling!addrmangle), liphostok <- TRUE, pc <- argPc, i <- argI,
    addr <- argAddr
Looking == INSTANCE Lookups WITH
    Chars <- {"u", "v", "V", "@", "."}, Lower <- LowerCase, Addresses <- ShortAddresses,
    Controls <- Files, pc <- lookupPc, addr <- lookupAddr, host <- lookupHost,
    j <- lookupJ

ASSUME RemoteAssumption == Three!RemoteConstants
ASSUME TcptoAssumption ==
    /\ Slots \in Nat /\ Gap \in Nat
    /\ Timeouts!Nobody \notin Remotes /\ Timeouts!NoIp \notin Ips

threeVars == <<threeUp, threeC2s, threeS2c, rem, report, threeSsout, threeSess, threeLog,
        threeQueued>>
smtpdVars == <<smtpdUp, smtpdC2s, smtpdSsout, smtpdS2c, smtpdSess, smtpdLog, smtpdQueued>>
textVars == <<client, msg, mode, wire, srv>>
tcptoVars == <<table, lock, now, cleaned, tcptoPc, ip, buf, flagwasthere, flagerr, errs>>
mxVars == <<mxHost, relay, mxPc, mx, random, ia, flagsoft, prefme, mxI, exit>>
argVars == <<arg, argPc, argI, terminator, argAddr, flagesc, flagquoted>>
lookupVars == <<lookupPc, search, ctl, lookupAddr, lookupHost, lookupJ, answer>>

Init ==
    /\ part \in {"three", "one", "smtpd", "text", "any", "tcpto", "mx", "equal", "arg",
                "lookup"}
    /\ IF part = "three" THEN Three!Init
       ELSE IF part = "one" THEN One!Init
       ELSE threeUp = 0 /\ threeC2s = 0 /\ threeS2c = 0 /\ rem = 0 /\ report = 0
            /\ threeSsout = 0 /\ threeSess = 0 /\ threeLog = 0 /\ threeQueued = 0
    /\ IF part = "smtpd" THEN Server!Init
       ELSE smtpdUp = 0 /\ smtpdC2s = 0 /\ smtpdSsout = 0 /\ smtpdS2c = 0
            /\ smtpdSess = 0 /\ smtpdLog = 0 /\ smtpdQueued = 0
    /\ IF part = "text" THEN Text!Init
       ELSE IF part = "any" THEN Hopping!Init
       ELSE client = 0 /\ msg = 0 /\ mode = 0 /\ wire = 0 /\ srv = 0
    /\ IF part = "tcpto" THEN Timeouts!Init
       ELSE table = 0 /\ lock = 0 /\ now = 0 /\ cleaned = 0 /\ tcptoPc = 0 /\ ip = 0
            /\ buf = 0 /\ flagwasthere = 0 /\ flagerr = 0 /\ errs = 0
    /\ IF part = "mx" THEN Select!Init
       ELSE IF part = "equal" THEN Equal!Init
       ELSE mxHost = 0 /\ relay = 0 /\ mxPc = 0 /\ mx = 0 /\ random = 0 /\ ia = 0
            /\ flagsoft = 0 /\ prefme = 0 /\ mxI = 0 /\ exit = 0
    /\ IF part = "arg" THEN Parsing!Init
       ELSE arg = 0 /\ argPc = 0 /\ argI = 0 /\ terminator = 0 /\ argAddr = 0
            /\ flagesc = 0 /\ flagquoted = 0
    /\ IF part = "lookup" THEN Looking!Init
       ELSE lookupPc = 0 /\ search = 0 /\ ctl = 0 /\ lookupAddr = 0 /\ lookupHost = 0
            /\ lookupJ = 0 /\ answer = 0

\* All other components are switched off.
Others(which) ==
    /\ part = which /\ UNCHANGED part
    /\ IF which \in {"three", "one"} THEN TRUE ELSE UNCHANGED threeVars
    /\ IF which = "smtpd" THEN TRUE ELSE UNCHANGED smtpdVars
    /\ IF which \in {"text", "any"} THEN TRUE ELSE UNCHANGED textVars
    /\ IF which = "tcpto" THEN TRUE ELSE UNCHANGED tcptoVars
    /\ IF which \in {"mx", "equal"} THEN TRUE ELSE UNCHANGED mxVars
    /\ IF which = "arg" THEN TRUE ELSE UNCHANGED argVars
    /\ IF which = "lookup" THEN TRUE ELSE UNCHANGED lookupVars

Next ==
    \/ Others("three") /\ Three!Next
    \/ Others("one") /\ One!Next
    \/ Others("smtpd") /\ Server!Next
    \/ Others("text") /\ Text!Next
    \/ Others("any") /\ Hopping!Next
    \/ Others("tcpto") /\ Timeouts!Next
    \/ Others("mx") /\ Select!Next
    \/ Others("equal") /\ Equal!Next
    \/ Others("arg") /\ Parsing!Next
    \/ Others("lookup") /\ Looking!Next

vars == <<part, threeVars, smtpdVars, textVars, tcptoVars, mxVars, argVars, lookupVars>>

Spec == Init /\ [][Next]_vars

-----------------------------------------------------------------------------
(* What qmail-remote reports.  When it prints K, the other host has the    *)
(* message once, with exactly the recipients that were reported as         *)
(* accepted, and none that was reported to fail for good; for qmail-rspawn *)
(* success is reported only of a recipient that was taken.  Without the    *)
(* answer to the dot, the report warns of a duplicate                      *)
(* (qmail-remote.c:211).                                                   *)
VerdictTrue ==
    /\ part = "three" => Three!AcceptedIsThere /\ Three!RefusedIsNotThere
    /\ part = "one" => One!WarnsUnanswered /\ One!VerdictTrue

(* Nothing without its cause.  qmail-smtpd queues a message with the last  *)
(* accepted sender and exactly the recipients accepted since, each of them *)
(* allowed; it answers the end of a message with 250 only when qmail-queue *)
(* took this message (smtp_*()).  A host is held to be down only after two *)
(* timeouts with the documented gap, recent enough, and no entered success *)
(* between them (tcpto.c).                                                 *)
Founded ==
    /\ [][part = "smtpd" => Server!EnvelopeTrue /\ Server!AcceptedIsQueued]_smtpdVars
    /\ [][part = "tcpto" => Timeouts!HeldForCause]_tcptoVars

(* What qmail-remote's blast() encodes arrives at qmail-smtpd's blast() as *)
(* the same lines, unless a dot follows a CR that stands alone, which      *)
(* blast() takes for the end of a line without doubling the dot            *)
(* (qmail-remote.c:198); of any client's bytes, exactly the Received and   *)
(* Delivered-To fields of the header are counted, and a message is refused *)
(* for its size exactly when it has more than databytes bytes.             *)
Transparent ==
    /\ part = "text" => Text!Transparent
    /\ part = "any" => Hopping!HopsRight /\ Hopping!SizeExact

(* A host is in one slot of the table of timeouts only, whatever the       *)
(* qmail-remotes find and write (tcpto.c).                                 *)
OneSlot == part = "tcpto" => Timeouts!OneSlot

(* Without an entry in smtproutes qmail-remote never connects to this      *)
(* host, nor to a relay of its preference or a worse one; addresses are    *)
(* tried in the order of their preferences, whatever the order of the      *)
(* answer, and those of the same preference share the load (dns.c:372,     *)
(* with 32-bit words).  That a host has no address is final only when      *)
(* every answer was; this host is called the best exchanger only when no   *)
(* address of a better one is known, although the answer for that one may  *)
(* have been a temporary failure (qmail-remote.c:389).                     *)
NoLoop ==
    /\ part = "mx" => Select!NoLoop /\ Select!Ordered /\ Select!FinalAnswers
    /\ part = "equal" => Equal!Balanced

(* addrparse() finds the address that the argument of a MAIL or RCPT       *)
(* stands for, quoted by qmail-remote or in the usual other forms.         *)
(* rcpthosts() allows what rcpthosts and morercpthosts list, by host or by *)
(* a domain's dot, and nothing else; bmfcheck() bars exactly the senders   *)
(* and hosts that badmailfrom lists; the route of a host is that of the    *)
(* longest matching entry of smtproutes.                                   *)
AsMeant ==
    /\ part = "arg" => Parsing!AsMeant
    /\ part = "lookup" => Looking!RcptAllowed /\ Looking!SenderBarred /\ Looking!RouteTaken
=============================================================================
