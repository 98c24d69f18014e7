-------------------------------- MODULE Addrparse -----------------------------
(***************************************************************************)
(* addrparse() of qmail-smtpd: the argument of MAIL or RCPT, as            *)
(* qmail-remote and others write it, becomes an address.                   *)
(***************************************************************************)
EXTENDS Integers, Sequences, SequencesExt, FiniteSetsExt

CONSTANTS Args,         \* records [text, want]: an argument, and its address
          liphostok     \* control/localiphost or me is there

VARIABLES arg, pc, i, terminator, addr, flagesc, flagquoted

vars == <<arg, pc, i, terminator, addr, flagesc, flagquoted>>

-----------------------------------------------------------------------------
(* quote.c: an address as RFC 821 writes it, and the characters of a text  *)
(* one by one.  "a" stands for what never needs quotes, "e" for control    *)
(* characters and those that are not ASCII.                                *)
At(s, c) == {k \in DOMAIN s : s[k] = c}

\* str_rchr() and byte_rchr(): the last "@", or the place behind the end.
Rchr(s) == Max({0} \cup At(s, "@"))
Box(s) == IF Rchr(s) = 0 THEN s ELSE SubSeq(s, 1, Rchr(s) - 1)
Host(s) == IF Rchr(s) = 0 THEN <<>> ELSE SubSeq(s, Rchr(s), Len(s))

quote_need(s) ==
    \/ s = <<>> \/ ToSet(s) \ {"a", "."} # {}
    \/ s[1] = "." \/ Last(s) = "."
    \/ \E k \in 1 .. Len(s) - 1 : s[k] = "." /\ s[k + 1] = "."

doit(s) ==
    <<"\"">> \o FlattenSeq([k \in DOMAIN s |->
        IF s[k] \in {"\r", "\n", "\"", "\\"} THEN <<"\\", s[k]>> ELSE <<s[k]>>]) \o <<"\"">>

quote(s) == IF quote_need(s) THEN doit(s) ELSE s

\* qmail-remote does not quote an address without a host.
addrmangle(s) == IF Rchr(s) = 0 THEN s ELSE quote(Box(s)) \o Host(s)

-----------------------------------------------------------------------------
\* An address of this host in brackets is one character, and so is liphost.
LocalIp == "[me]"
Liphost == "l"

Text == arg.text

Init ==
    /\ arg \in Args /\ pc = "start" /\ i = 1 /\ terminator = ">"
    /\ addr = <<>> /\ flagesc = FALSE /\ flagquoted = FALSE

\* Behind the first "<", or else behind the first colon and blanks.
Start ==
    /\ pc = "start" /\ pc' = "route"
    /\ LET lt == At(Text, "<") colon == At(Text, ":") IN
       IF lt # {} THEN i' = Min(lt) + 1 /\ UNCHANGED terminator
       ELSE LET from == IF colon = {} THEN Len(Text) + 1 ELSE Min(colon) + 1 IN
            /\ terminator' = " "
            /\ i' = Min({k \in from .. Len(Text) : Text[k] # " "} \cup {Len(Text) + 1})
    /\ UNCHANGED <<arg, addr, flagesc, flagquoted>>

(* Mutant of Route: there are no source routes.                            *)
RouteKept ==
    /\ pc = "route" /\ pc' = "copy"
    /\ UNCHANGED <<arg, i, terminator, addr, flagesc, flagquoted>>

Route ==
    /\ pc = "route" /\ pc' = "copy"
    /\ i' = IF i > Len(Text) \/ Text[i] # "@" THEN i
            ELSE LET c == {k \in At(Text, ":") : k > i} IN
                 IF c = {} THEN Len(Text) + 1 ELSE Min(c) + 1
    /\ UNCHANGED <<arg, terminator, addr, flagesc, flagquoted>>

Ended == IF i > Len(Text) THEN TRUE ELSE ~flagesc /\ ~flagquoted /\ Text[i] = terminator

Copy ==
    /\ pc = "copy" /\ ~Ended /\ i' = i + 1
    /\ IF flagesc THEN addr' = Append(addr, Text[i]) /\ flagesc' = FALSE /\ UNCHANGED flagquoted
       ELSE CASE Text[i] = "\\" -> flagesc' = TRUE /\ UNCHANGED <<addr, flagquoted>>
              [] Text[i] = "\"" -> flagquoted' = ~flagquoted /\ UNCHANGED <<addr, flagesc>>
              [] OTHER -> addr' = Append(addr, Text[i]) /\ UNCHANGED <<flagesc, flagquoted>>
    /\ UNCHANGED <<arg, pc, terminator>>

\* user@[address of this host] is user@liphost.
End ==
    /\ pc = "copy" /\ Ended /\ pc' = "done"
    /\ addr' = IF liphostok /\ Rchr(addr) # 0 /\ Host(addr) = <<"@", LocalIp>>
               THEN Box(addr) \o <<"@", Liphost>> ELSE addr
    /\ UNCHANGED <<arg, i, terminator, flagesc, flagquoted>>

Next == Start \/ Route \/ Copy \/ End

Spec == Init /\ [][Next]_vars

-----------------------------------------------------------------------------
Localized(a) ==
    IF liphostok /\ Host(a) = <<"@", LocalIp>> THEN Box(a) \o <<"@", Liphost>> ELSE a

(* The server reads the address that was meant: what qmail-remote quotes,  *)
(* whatever is in the box, one without brackets, and one behind a source   *)
(* route.                                                                  *)
AsMeant == pc = "done" => addr = Localized(arg.want)
=============================================================================
