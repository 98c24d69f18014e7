-------------------------------- MODULE Addrlist ------------------------------
(***************************************************************************)
(* token822_addrlist(): the addresses of a header field, from right to     *)
(* left, and the field as it is written back, with commas where there were *)
(* blanks; and rwgeneric() of qmail-inject, the callback, which gives an   *)
(* address a host and a full domain name.  Each on its own: the list keeps *)
(* the addresses that it was written with.                                 *)
(***************************************************************************)
EXTENDS Integers, Sequences, SequencesExt, FiniteSetsExt

CONSTANTS Fields,       \* records [toks, want]: the tokens behind "To:", and,
                        \* unless it is None, the addresses that a reader sees
          Addrs,        \* addresses, from left to right
          Plus,         \* atoms with a plus sign, and without it
          defaulthost, defaultdomain, plusdomain    \* from left to right too

VARIABLES field, ta,
          t,                    \* how many tokens are left
          taout, taaddr,        \* from right to left
          got,                  \* what the callback has got, the last one first
          ingroup, wordok,
          res,                  \* what it returned, "run" before
          first                 \* what the first of two runs has written and got

VARIABLES given, addr, pc,      \* an address, and how far it has been rewritten
          rewritten             \* what it was in the round before

parser == <<ta, t, taout, taaddr, got, ingroup, wordok, res>>
listvars == <<field, parser, first>>
rwvars == <<given, addr, pc, rewritten>>

None == << <<"none">> >>
Comment == "comment"
Literal == "[1]"
Special == {",", "@", ".", "<", ">", ":", ";"}
\* Every other token is an atom, a quoted string or a literal.
Word(x) == x \notin Special \cup {Comment}

Begin(toks) ==
    /\ ta' = toks /\ t' = Len(toks) /\ taout' = <<>> /\ taaddr' = <<>> /\ got' = <<>>
    /\ ingroup' = FALSE /\ wordok' = TRUE /\ res' = "run"

Init ==
    /\ field \in Fields /\ ta = field.toks /\ t = Len(ta)
    /\ taout = <<>> /\ taaddr = <<>> /\ got = <<>>
    /\ ingroup = FALSE /\ wordok = TRUE /\ res = "run" /\ first = None

At(x) == res = "run" /\ t > 0 /\ ta[t] = x

\* FLUSH and FLUSHCOMMA: the address so far, if there is one, is complete.
Got == IF taaddr = <<>> THEN got ELSE <<Reverse(taaddr)>> \o got
Flush == taout \o taaddr
FlushComma == IF taaddr = <<>> THEN taout ELSE taout \o taaddr \o <<",">>

\* The tokens from the kth down to the lth.
Left(k, l) == Reverse(SubSeq(ta, l, k))

\* A failure leaves what the callback has got.
Bad == res' = "bad" /\ UNCHANGED <<field, ta, t, taout, taaddr, ingroup, wordok, first>>

Semi ==
    /\ At(";") /\ got' = Got
    /\ IF ingroup THEN Bad
       ELSE /\ taout' = Append(FlushComma, ";") /\ taaddr' = <<>> /\ t' = t - 1
            /\ ingroup' = TRUE /\ wordok' = TRUE
            /\ UNCHANGED <<field, ta, res, first>>

\* The name of the group, and the comma before it.
Colon ==
    /\ At(":") /\ got' = Got
    /\ IF ~ingroup THEN Bad
       ELSE LET l == Max({1} \cup {k \in 1 .. t : ta[k] = ","}) IN
            /\ taout' = Flush \o Left(t, l) /\ taaddr' = <<>> /\ t' = l - 1
            /\ ingroup' = FALSE /\ wordok' = TRUE
            /\ UNCHANGED <<field, ta, res, first>>

\* <address>, which may be empty, and the phrase before it.
Right ==
    /\ At(">")
    /\ LET l == Max({0} \cup {k \in 1 .. t - 1 : ta[k] = "<"})
           box == Left(t - 1, l + 1)
           p == Max({0} \cup {k \in 1 .. l - 1 : ~(ta[k] \in {Comment, "@", "."}
                                                    \/ (Word(ta[k]) /\ ta[k] # Literal))}) IN
       /\ got' = <<Reverse(box)>> \o Got
       /\ IF l = 0 THEN Bad
          ELSE /\ taout' = Append(FlushComma, ">") \o box \o Left(l, p + 1)
               /\ taaddr' = <<>> /\ t' = p /\ wordok' = FALSE
               /\ UNCHANGED <<field, ta, ingroup, res, first>>

(* Mutant of Wordy: every word goes to the address before.                 *)
WordyNever == FALSE

\* A word next to a word: the blank between them should be a comma.
Wordy == ~wordok /\ taaddr # <<>>

AWord ==
    /\ res = "run" /\ t > 0 /\ Word(ta[t])
    /\ IF Wordy THEN got' = Got /\ taout' = FlushComma /\ taaddr' = <<ta[t]>>
       ELSE taaddr' = Append(taaddr, ta[t]) /\ UNCHANGED <<got, taout>>
    /\ wordok' = FALSE /\ t' = t - 1
    /\ UNCHANGED <<field, ta, ingroup, res, first>>

AComment ==
    /\ At(Comment) /\ taout' = Append(taout, Comment) /\ t' = t - 1
    /\ UNCHANGED <<field, ta, taaddr, got, ingroup, wordok, res, first>>

Comma ==
    /\ At(",") /\ got' = Got /\ taout' = Append(Flush, ",") /\ taaddr' = <<>>
    /\ wordok' = TRUE /\ t' = t - 1
    /\ UNCHANGED <<field, ta, ingroup, res, first>>

Other ==
    /\ At("@") \/ At(".") \/ At("<")
    /\ taaddr' = Append(taaddr, ta[t]) /\ wordok' = TRUE /\ t' = t - 1
    /\ UNCHANGED <<field, ta, taout, got, ingroup, res, first>>

End ==
    /\ res = "run" /\ t = 0 /\ res' = "ok"
    /\ got' = Got /\ taout' = Flush /\ taaddr' = <<>>
    /\ UNCHANGED <<field, ta, t, ingroup, wordok, first>>

Written == Reverse(taout)

\* The next program reads what has been written.
Again ==
    /\ res = "ok" /\ first = None
    /\ first' = <<Written, got>> /\ Begin(Written) /\ UNCHANGED field

Next ==
    Semi \/ Colon \/ Right \/ AWord \/ AComment \/ Comma \/ Other \/ End \/ Again

Spec == Init /\ [][Next]_listvars

-----------------------------------------------------------------------------
(* rwgeneric() of qmail-inject: an address, as tokens from right to left,  *)
(* gets a host and a full domain name.                                     *)
Empty == "[]"
Unrewritten == <<"none">>

RwInit == given \in Addrs /\ addr = Reverse(given) /\ pc = "start" /\ rewritten = Unrewritten

Places(c) == {k \in DOMAIN addr : addr[k] = c}
RwDone == pc' = "done" /\ UNCHANGED addr

\* <> and foo@[] stay.
Exempt ==
    /\ pc = "start" /\ UNCHANGED <<given, rewritten>>
    /\ IF addr = <<>> \/ (Len(addr) >= 2 /\ addr[2] = "@" /\ addr[1] = Empty)
       THEN RwDone ELSE pc' = "route" /\ UNCHANGED addr

\* A source route, @a,@b: at the left end.
Rwroute ==
    /\ pc = "route" /\ UNCHANGED <<given, rewritten>>
    /\ addr' = IF Last(addr) # "@" THEN addr
               ELSE IF Places(":") = {} THEN <<>>
               ELSE SubSeq(addr, 1, (CHOOSE k \in Places(":") : \A l \in Places(":") : l <= k) - 1)
    /\ pc' = IF addr' = <<>> THEN "done" ELSE "dot"

\* rwextradot() and rwextraat().
Rwextra(c, here, next) ==
    /\ pc = here /\ UNCHANGED <<given, rewritten>>
    /\ addr' = IF addr[1] = c THEN Tail(addr) ELSE addr
    /\ pc' = IF addr' = <<>> THEN "done" ELSE next

Rwnoat ==
    /\ pc = "noat" /\ pc' = "plus" /\ UNCHANGED <<given, rewritten>>
    /\ addr' = IF Places("@") = {} THEN Reverse(defaulthost) \o addr ELSE addr

Rwplus ==
    /\ pc = "plus" /\ pc' = "nodot" /\ UNCHANGED <<given, rewritten>>
    /\ addr' = IF addr[1] \notin DOMAIN Plus THEN addr
               ELSE Reverse(plusdomain) \o <<Plus[addr[1]]>> \o Tail(addr)

\* The last "@".
Host == SelectInSeq(addr, LAMBDA x : x = "@")

Rwnodot ==
    /\ pc = "nodot" /\ pc' = "done" /\ UNCHANGED <<given, rewritten>>
    /\ LET host == IF Host = 0 THEN addr ELSE SubSeq(addr, 1, Host - 1) IN
       addr' = IF \E k \in DOMAIN host : host[k] \in {".", Literal, Empty} THEN addr
               ELSE Reverse(defaultdomain) \o addr

\* Another qmail-inject gets the message.
RwAgain ==
    /\ pc = "done" /\ rewritten = Unrewritten
    /\ rewritten' = addr /\ pc' = "start" /\ UNCHANGED <<given, addr>>

Rwgeneric ==
    \/ Exempt \/ Rwroute \/ Rwnoat \/ Rwplus \/ Rwnodot \/ RwAgain
    \/ Rwextra(".", "dot", "at") \/ Rwextra("@", "at", "noat")

RwSpec == RwInit /\ [][Rwgeneric]_rwvars

-----------------------------------------------------------------------------
(* A list in the manual's forms - addresses, comments, phrases before <>,  *)
(* groups, blanks for commas - has exactly the addresses a reader sees.    *)
AsRead == field.want # None /\ first = None => res # "bad" /\ (res = "ok" => got = field.want)

(* Nothing but commas is added to a field and nothing in it is lost.  Only *)
(* comments may move: one before a word goes behind the address.           *)
Kept ==
    LET Text(x) == SelectSeq(x, LAMBDA y : y \notin {",", Comment})
        Comments(x) == SelectSeq(x, LAMBDA y : y = Comment) IN
    res = "ok" => /\ Text(Written) = Text(ta) /\ Comments(Written) = Comments(ta)
                  /\ Len(Written) >= Len(ta)

(* The field that is written back has the same addresses for whoever reads *)
(* it next, and the next qmail-inject leaves it as it is.                  *)
Settled == first # None => res # "bad" /\ (res = "ok" => <<Written, got>> = first)

-----------------------------------------------------------------------------
\* An address of the manual's form: a box, and perhaps a host of words.
Words(s) == Len(s) % 2 = 1 /\ \A k \in DOMAIN s : (s[k] = ".") = (k % 2 = 0)
                                                  /\ s[k] \notin {"@", ":", Empty}
AtIn(s) == SelectInSeq(s, LAMBDA x : x = "@")
Box(s) == IF AtIn(s) = 0 THEN s ELSE SubSeq(s, 1, AtIn(s) - 1)
HostOf(s) == SubSeq(s, AtIn(s) + 1, Len(s))
Good(s) == Words(Box(s)) /\ (AtIn(s) # 0 => Words(HostOf(s)))

Full(host) ==
    IF Last(host) \in DOMAIN Plus THEN Front(host) \o <<Plus[Last(host)]>> \o plusdomain
    ELSE IF \E k \in DOMAIN host : host[k] \in {".", Literal} THEN host
    ELSE host \o defaultdomain

(* As the manual page says: a lone box gets the default host, a host that  *)
(* ends with a plus sign the plus domain, one without dots the default     *)
(* domain, and nothing else of an address changes.                         *)
Qualified ==
    pc = "done" /\ Good(given) =>
        Reverse(addr) = Box(given) \o <<"@">>
            \o Full(IF AtIn(given) = 0 THEN Tail(defaulthost) ELSE HostOf(given))

\* What the rewriting does in one go only once: more than one dot or "@" at the
\* right end, more than one route.
Repeated(r) == r # <<>> /\ (r[1] \in {".", "@"} \/ Last(r) = "@")

(* An address that has been rewritten is left alone by the next            *)
(* qmail-inject.                                                           *)
StaysQualified == pc = "done" /\ rewritten # Unrewritten /\ ~Repeated(rewritten) => addr = rewritten
=============================================================================
