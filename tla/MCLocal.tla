------------------------------ MODULE MCLocal -------------------------------
(***************************************************************************)
(* What a local user's mail goes through, on small instances: the header   *)
(* and the addresses that qmail-inject reads and rewrites, the search for  *)
(* users and their tables, .qmail files, mailboxes and their readers, and  *)
(* forwarding in circles. A behaviour is of one part.                      *)
(***************************************************************************)
EXTENDS Users, FiniteSets, TLC

CONSTANTS InstrExts, InstrLines, GovernExts, GovernLines, MaxRuns,   \* QmailLocal
    Deliveries, Sessions, Others,   \* Maildir
    Local, Remote, OwnerOf, Postmaster, Starts, Forwards   \* Loops

VARIABLES part,   \* the component that this behaviour is of
    dash, ext, files, home, loops, pc, instrI, forwardonly, flag99, recips, cmds, code,
    runs, died, did,   \* QmailLocal
    mbox, disk, lock, mboxD, taken, scraps, clash, maildir, present, mboxM,   \* Mbox
    tmp, new, cur, data, del, maildirS, deleted, asked,   \* Maildir
    file, copies, told,   \* Loops
    tokensS, tokensI, pass, type, level, numtoks, numchars, tokensCur, tokensTa, ok,
    tokensFirst,   \* Token822
    field, listTa, listT, taout, taaddr, got, ingroup, wordok, res, listFirst,   \* Addrlist
    given, addr, hostPc, rewritten,   \* rwgeneric()
    opt, msg, injectPc, injectN, sender, reciplist, hrlist, tocclist, hrrlist,
    htypeseen, savedh, out, envelope, exit   \* Inject

\* Addresses and names of "-" (45), "A" (65) and "a" (97); keys for them.
LowerOf == [ch \in {65} |-> 97]
UserKeys == {<<>>} \cup {<<33>> \o l : l \in Locals}
                   \cup {<<33>> \o l \o <<0>> : l \in Locals}
                   \cup {<<33>> \o l \o <<45>> : l \in Locals}
AliasUser == <<97, 45>>
UserNames == {AliasUser, <<97>>, <<97, 45, 97>>, <<65>>}
Plain == [n \in UserNames |-> <<n>>]
Defaults == [homestrategy |-> 2, flagnoupper |-> TRUE, incl |-> UserNames,
             excl |-> {}, mailnames |-> Plain, subusers |-> <<>>, append |-> <<>>]
Configurations ==
    {Defaults, [Defaults EXCEPT !.homestrategy = 1],
     [Defaults EXCEPT !.homestrategy = 0, !.flagnoupper = FALSE],
     [Defaults EXCEPT !.flagnoupper = FALSE, !.excl = {<<97, 45, 97>>},
                      !.append = <<[wild |-> TRUE, local |-> <<97, 45, 97>>,
                                    user |-> AliasUser, dash |-> TRUE, pre |-> <<>>]>>],
     [Defaults EXCEPT !.incl = {AliasUser, <<97>>},
        !.mailnames[<<97>>] = <<<<97, 97>>, <<45>>>>,
        !.subusers = <<[sub |-> <<97>>, user |-> AliasUser, pre |-> <<97>>],
                       [sub |-> <<97, 97>>, user |-> <<97>>, pre |-> <<>>]>>]}

\* For the instructions one address; for the search one with two breaks, an
\* uppercase letter and a dot, and others.
OneExtension == {<<"a">>}
Extensions == {<<>>, <<"A", "-", ".", "-", "a">>, <<"a", "-">>}

\* Messages of up to two lines, some of which must be quoted; and some without
\* a newline at the end.
MboxLines == {<<0, "From ">>, <<1, "From ">>, <<0, "">>, <<0, "x">>}
Whole == {[lines |-> t, partial |-> FALSE] : t \in
            {<<>>, <<<<0, "">>>>, <<<<0, "From ">>>>, <<<<0, "x">>, <<1, "From ">>>>,
             <<<<0, "From ">>, <<0, "">>>>, <<<<0, "">>, <<0, "From ">>>>}}
Partial ==
    {[lines |-> <<l>>, partial |-> FALSE] : l \in MboxLines}
    \cup {[lines |-> <<<<0, "From ">>, <<0, "x">>>>, partial |-> end] : end \in BOOLEAN}

\* Lists l and m with owners, any files that forward to one address, and more.
LocalAddrs == {"l", "m", "lo", "mo"}
Owners == [ad \in {"l", "m"} |-> IF ad = "l" THEN "lo" ELSE "mo"]
FileContents == {f \in SUBSET (LocalAddrs \cup {"r"}) : Cardinality(f) <= 1}
                \cup {{"l", "m"}}
FirstCopies == {[to |-> "l", sender |-> who, dt |-> <<>>] : who \in {"m", "lo", "<>"}}

\* Short inputs with every kind of character, longer ones with what nests.
FieldChars == {"a", "e", " ", ",", "@", "<", "(", ")", "[", "]", "\"", "\\", "\r"}
Nesting == {"a", "(", ")", "\"", "\\"}
Texts == UNION {[1 .. n -> FieldChars] : n \in 0 .. 4}
         \cup UNION {[1 .. n -> Nesting] : n \in 0 .. 6}

\* All short sequences of tokens; and lists of the manual's forms with the
\* addresses that are in them.
Unread == << <<"none">> >>
Kinds == {"a", "[1]", "comment", ",", "@", "<", ">", ":", ";"}
Raw == {[toks |-> x, want |-> Unread] : x \in UNION {[1 .. n -> Kinds] : n \in 0 .. 4}}
Specs == {<<"a">>, <<"a", "@", "h">>, <<"a", ".", "b", "@", "h", ".", "d">>, <<"a", "@", "[1]">>}
PlainLists == {[toks |-> x, want |-> <<x>>] : x \in Specs}
         \cup {[toks |-> x \o <<"comment">>, want |-> <<x>>] : x \in {<<"a">>, <<"a", "@", "h">>}}
Phrases == {[toks |-> p \o <<"<">> \o x \o <<">">>, want |-> <<x>>] :
                p \in {<<>>, <<"b">>, <<"b", "b">>}, x \in {<<"a", "@", "h">>, <<>>}}
Groups == {[toks |-> <<"g", ":", ";">>, want |-> <<>>]}
          \cup {[toks |-> <<"g", "g", ":">> \o x.toks \o <<";">>, want |-> x.want] :
                    x \in PlainLists \cup Phrases}
Items == PlainLists \cup Phrases \cup Groups
Followed(x, between, y) == [toks |-> x.toks \o between \o y.toks, want |-> x.want \o y.want]
Pairs == {Followed(x, <<",">>, y) : x, y \in Items}
         \cup {Followed(x, <<>>, y) : x, y \in PlainLists}
Lists == Raw \cup Items \cup Pairs
         \cup {Followed(x, <<",">>, y) : x \in PlainLists \cup Phrases, y \in Pairs}

\* Addresses of short and of long tokens, with plus signs and routes.
AddrsTo(max) ==
    UNION {[1 .. n -> {"b", "h", "h+", ".", "@", ":", "[1]", "empty"}] : n \in 0 .. max}
Unplus == [x \in {"h+", "d+"} |-> IF x = "h+" THEN "h" ELSE "d"]

\* Fields of all kinds, and seventeen combinations of options and arguments.
F(h, addrs, syn) == [h |-> h, addrs |-> addrs, syn |-> syn]
AllFields ==
    {F(h, <<"a", "b">>, syn) : h \in {"to", "bcc"}, syn \in {"ok", "tokens", "list"}}
    \cup {F(h, <<"c", "d">>, "ok") : h \in {"appto", "r_to", "r_bcc", "from", "returnpath"}}
    \cup {F(h, <<"e">>, syn) : h \in {"r_bcc", "returnpath", "from"}, syn \in {"ok", "tokens"}}
    \cup {F("returnpath", <<>>, "ok")}
    \cup {F(h, <<>>, "ok") : h \in {"date", "messageid", "mft", "contentlength", "r_date", "other"}}
Headers == UNION {[1 .. k -> AllFields] : k \in 0 .. 2}
O(st, args, f, drop, queue) ==
    [strategy |-> st, args |-> args, f |-> f, delfrom |-> drop, delmessid |-> drop,
     delsender |-> drop, queue |-> queue, mft |-> {"b"}, default |-> "me"]
Calls ==
    {O(st, args, "unset", FALSE, TRUE) : st \in {"default", "args", "header", "ah"},
                                         args \in {<<>>, <<"x", "y">>, <<"x", "bad">>}}
    \cup {O("header", <<>>, "f", drop, q) : drop, q \in BOOLEAN}
    \cup {O("ah", <<"x">>, "unset", TRUE, TRUE)}

Instructions == INSTANCE QmailLocal WITH
    Exts <- InstrExts, MaxLines <- InstrLines, i <- instrI
Governing == INSTANCE QmailLocal WITH
    Exts <- GovernExts, MaxLines <- GovernLines, i <- instrI
Mailfile == INSTANCE Mbox WITH
    Messages <- Whole, Deliveries <- {"p", "q"}, Ids <- {}, MaxMbox <- 6, d <- mboxD,
    m <- mboxM
Moving == INSTANCE Mbox WITH
    Messages <- Partial, Deliveries <- {}, Ids <- {1, 2}, MaxMbox <- 6, d <- mboxD,
    m <- mboxM
Boxes == INSTANCE Maildir WITH
    s <- maildirS
Looping == INSTANCE Loops

Parsing == INSTANCE Token822 WITH
    Inputs <- Texts, s <- tokensS, i <- tokensI, ta <- tokensTa, first <- tokensFirst,
    cur <- tokensCur
Listing == INSTANCE Addrlist WITH
    Fields <- Lists, ta <- listTa, t <- listT, first <- listFirst,
    Addrs <- AddrsTo(5), defaulthost <- <<"@", "d">>, Plus <- Unplus,
    defaultdomain <- <<".", "e", ".", "f">>, plusdomain <- <<".", "p">>, pc <- hostPc
Plussed == INSTANCE Addrlist WITH
    Fields <- {}, ta <- listTa, t <- listT, first <- listFirst,
    Addrs <- AddrsTo(4), defaulthost <- <<"@", "d+">>, Plus <- Unplus,
    defaultdomain <- <<".", "e", ".", "f">>, plusdomain <- <<".", "p">>, pc <- hostPc
Injecting == INSTANCE Inject WITH
    Messages <- Headers, Options <- Calls, pc <- injectPc, n <- injectN

ASSUME QmailLocalAssumption ==
    /\ InstrLines \in Nat /\ GovernLines \in Nat /\ MaxRuns \in Nat
    /\ \A e \in GovernExts : e \in Seq(STRING)
ASSUME LoopsAssumption == \A m \in Starts : m = [to |-> m.to, sender |-> m.sender, dt |-> <<>>]

instrVars == <<dash, ext, files, home, loops, pc, instrI, forwardonly, flag99, recips, cmds, code,
        runs, died, did>>
mboxVars == <<mbox, disk, lock, mboxD, taken, scraps, clash, maildir, present, mboxM>>
maildirVars == <<tmp, new, cur, data, del, maildirS, deleted, asked>>
loopsVars == <<file, copies, told>>

tokensVars == <<tokensS, tokensI, pass, type, level, numtoks, numchars, tokensCur, tokensTa, ok,
        tokensFirst>>
listVars == <<field, listTa, listT, taout, taaddr, got, ingroup, wordok, res, listFirst>>
hostVars == <<given, addr, hostPc, rewritten>>
injectVars == <<opt, msg, injectPc, injectN, sender, reciplist, hrlist, tocclist, hrrlist,
        htypeseen, savedh, out, envelope, exit>>

MCInit ==
    /\ part \in {"users", "instr", "govern", "mbox", "move", "maildir", "loops",
                "tokens", "list", "host", "plus", "inject"}
    /\ IF part = "users" THEN Init
       ELSE assign = 0 /\ passwd = 0 /\ opts = 0 /\ status = "off"
    /\ IF part = "instr" THEN Instructions!Init
       ELSE IF part = "govern" THEN Governing!Init
       ELSE dash = 0 /\ ext = 0 /\ files = 0 /\ home = 0 /\ loops = 0 /\ pc = 0 /\ instrI = 0
            /\ forwardonly = 0 /\ flag99 = 0 /\ recips = 0 /\ cmds = 0 /\ code = 0
            /\ runs = 0 /\ died = 0 /\ did = 0
    /\ IF part = "mbox" THEN Mailfile!Init
       ELSE IF part = "move" THEN Moving!Init
       ELSE mbox = 0 /\ disk = 0 /\ lock = 0 /\ mboxD = 0 /\ taken = 0 /\ scraps = 0
            /\ clash = 0 /\ maildir = 0 /\ present = 0 /\ mboxM = 0
    /\ IF part = "maildir" THEN Boxes!Init
       ELSE tmp = 0 /\ new = 0 /\ cur = 0 /\ data = 0 /\ del = 0 /\ maildirS = 0
            /\ deleted = 0 /\ asked = 0
    /\ IF part = "loops" THEN Looping!Init
       ELSE file = 0 /\ copies = 0 /\ told = 0
    /\ IF part = "tokens" THEN Parsing!Init
       ELSE tokensS = 0 /\ tokensI = 0 /\ pass = 0 /\ type = 0 /\ level = 0
            /\ numtoks = 0 /\ numchars = 0 /\ tokensCur = 0 /\ tokensTa = 0 /\ ok = 0
            /\ tokensFirst = 0
    /\ IF part = "list" THEN Listing!Init
       ELSE field = 0 /\ listTa = 0 /\ listT = 0 /\ taout = 0 /\ taaddr = 0 /\ got = 0
            /\ ingroup = 0 /\ wordok = 0 /\ res = 0 /\ listFirst = 0
    /\ IF part = "host" THEN Listing!RwInit
       ELSE IF part = "plus" THEN Plussed!RwInit
       ELSE given = 0 /\ addr = 0 /\ hostPc = 0 /\ rewritten = 0
    /\ IF part = "inject" THEN Injecting!Init
       ELSE opt = 0 /\ msg = 0 /\ injectPc = 0 /\ injectN = 0 /\ sender = 0
            /\ reciplist = 0 /\ hrlist = 0 /\ tocclist = 0 /\ hrrlist = 0
            /\ htypeseen = 0 /\ savedh = 0 /\ out = 0 /\ envelope = 0 /\ exit = 0

\* All other components are switched off.
mcOthers(which) ==
    /\ part = which /\ UNCHANGED part
    /\ IF which = "users" THEN TRUE ELSE UNCHANGED vars
    /\ IF which \in {"instr", "govern"} THEN TRUE ELSE UNCHANGED instrVars
    /\ IF which \in {"mbox", "move"} THEN TRUE ELSE UNCHANGED mboxVars
    /\ IF which = "maildir" THEN TRUE ELSE UNCHANGED maildirVars
    /\ IF which = "loops" THEN TRUE ELSE UNCHANGED loopsVars
    /\ IF which = "tokens" THEN TRUE ELSE UNCHANGED tokensVars
    /\ IF which = "list" THEN TRUE ELSE UNCHANGED listVars
    /\ IF which \in {"host", "plus"} THEN TRUE ELSE UNCHANGED hostVars
    /\ IF which = "inject" THEN TRUE ELSE UNCHANGED injectVars

MCNext ==
    \/ mcOthers("users") /\ Next
    \/ mcOthers("instr") /\ Instructions!Next
    \/ mcOthers("govern") /\ Governing!Next
    \/ mcOthers("mbox") /\ Mailfile!Next
    \/ mcOthers("move") /\ Moving!Next
    \/ mcOthers("maildir") /\ Boxes!Next
    \/ mcOthers("loops") /\ Looping!Next
    \/ mcOthers("tokens") /\ Parsing!Next
    \/ mcOthers("list") /\ Listing!Next
    \/ mcOthers("host") /\ Listing!Rwgeneric
    \/ mcOthers("plus") /\ Plussed!Rwgeneric
    \/ mcOthers("inject") /\ Injecting!Next

mcvars == <<part, vars, instrVars, mboxVars, maildirVars, loopsVars, tokensVars,
            listVars, hostVars, injectVars>>

MCSpec == MCInit /\ [][MCNext]_mcvars

-----------------------------------------------------------------------------
(* The user of a local address is that of its own line of users/assign, or *)
(* of the wildcard with the longest prefix (nughde_get()); and after       *)
(* qmail-pw2u every address has the user whom qmail-getpw would name, or   *)
(* the one that its options and files ask for.                             *)
UserRight == part = "users" => LookupRight /\ SameAsGetpw /\ Listed

(* Success means that in one run each instruction up to the end, or up to  *)
(* exit code 99, was carried out; the message is forwarded once at most,   *)
(* unless somebody was killed between the queueing and the report, and a   *)
(* bounce was not forwarded.  No instruction is carried out in a run that  *)
(* finds the home directory sticky or writable, nor when the message       *)
(* loops, and a file that must only forward starts nothing else.  The file *)
(* that governs an address is its own, or else the default with the        *)
(* longest prefix that ends at a break (qmail-local).                      *)
NothingForbidden ==
    /\ part = "instr" => /\ Instructions!SuccessComplete /\ Instructions!ForwardOnce
                         /\ Instructions!NothingForbidden
    /\ part = "govern" => Governing!GovernsRight


(* maildir2mbox.1: it will not remove messages until they have been        *)
(* successfully appended; the same for every message.                      *)
EveryMessageMoved == part = "move" => Moving!EveryMessageMoved

(* What a reader finds in new/ and cur/ is a whole message, even after a   *)
(* crash of the machine (maildir_child()); it stays, once, until its user  *)
(* has deleted it with a DELE that stood when he said QUIT; and nobody     *)
(* cleans away the file of a delivery that still runs (maildir_clean()).   *)
OnlyWholeMessages ==
    part = "maildir" => /\ Boxes!OnlyWholeMessages /\ Boxes!DeliveredStays
                        /\ Boxes!TmpKept

(* No address is delivered to twice by the same copy of a message          *)
(* (Delivered-To); several addresses may share one .qmail file, which then *)
(* is worked through once for each of them.  If a message loops through    *)
(* lists with owners, the bounce goes to an owner of one of them, unless   *)
(* it was a bounce itself.                                                 *)
OncePerAddress ==
    part = "loops" => Looping!OncePerAddress /\ Looping!OwnerTold

(* An address list is read and written back without loss.  What the first  *)
(* pass of token822_parse() counts is what the second one fills, and the   *)
(* text of token822_unparse() is parsed into the same tokens again.        *)
(* token822_addrlist() takes from a list in the manual's forms exactly the *)
(* addresses that a reader sees there; nothing but commas is added and     *)
(* nothing is lost; the next reader finds the same addresses.  Rewriting   *)
(* adds the default host, the plus domain and the default domain where     *)
(* rwgeneric() should and changes nothing else, and a second time nothing. *)
AsRead ==
    /\ part = "tokens" => Parsing!PassesAgree /\ Parsing!Stable
    /\ part = "list" => Listing!AsRead /\ Listing!Kept /\ Listing!Settled
    /\ part = "host" => Listing!Qualified /\ Listing!StaysQualified
    /\ part = "plus" => Plussed!Qualified /\ Plussed!StaysQualified

(* The envelope has the recipients that options, arguments and header ask  *)
(* for and no others (exitnicely()); the sender is that of -f, else of the *)
(* first Return-Path that has one, else of the environment; nobody sees    *)
(* the blind recipients, and each message has one field of each kind that  *)
(* it needs (finishheader()).                                              *)
EnvelopeAsAsked ==
    part = "inject" => /\ Injecting!EnvelopeAsAsked /\ Injecting!SenderAsAsked
                       /\ Injecting!HeaderComplete
=============================================================================
