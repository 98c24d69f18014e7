-------------------------------- MODULE Lookups -------------------------------
(***************************************************************************)
(* Three searches for an address or a host among the lines of a control    *)
(* file: rcpthosts() and bmfcheck() of qmail-smtpd, and the routes of      *)
(* qmail-remote.  The tables are sets and functions of keys without case;  *)
(* Cdb has the lookup in morercpthosts.cdb.                                *)
(***************************************************************************)
EXTENDS Integers, Sequences, SequencesExt, FiniteSetsExt

CONSTANTS Chars,
          Lower(_),     \* of a character
          Addresses,    \* sequences of characters
          Controls      \* records [rh, mrh, bmf, routes]; NoFile for rh and mrh

NoFile == {<<"no file">>}

VARIABLES pc,       \* the search, then "done"
          search,
          ctl, addr,
          host,     \* what is searched for
          j,        \* the position of the next lookup
          answer    \* of rcpthosts() and bmfcheck(), or the relay

vars == <<pc, search, ctl, addr, host, j, answer>>

LowerCase(s) == [k \in DOMAIN s |-> Lower(s[k])]
From(s, k) == SubSeq(s, k + 1, Len(s))
\* byte_rchr(): how many come before the last "@", or all there are.
At(s) == LET ats == {k \in DOMAIN s : s[k] = "@"} IN
         IF ats = {} THEN Len(s) ELSE Max(ats) - 1

Init ==
    /\ search \in {"rcpthosts", "badmailfrom", "smtproutes"} /\ pc = search
    /\ ctl \in Controls /\ addr \in Addresses
    /\ host = <<>> /\ j = 0 /\ answer = "none"

Answered(a) == pc' = "done" /\ answer' = a

-----------------------------------------------------------------------------
\* rcpthosts(), before the first loop.
RcptHost ==
    /\ pc = "rcpthosts"
    /\ IF ctl.rh = NoFile \/ At(addr) = Len(addr)
       THEN Answered("yes") /\ UNCHANGED host
       ELSE /\ pc' = "rh" /\ UNCHANGED answer
            /\ host' = LowerCase(From(addr, At(addr) + 1))
    /\ UNCHANGED <<search, ctl, addr, j>>

\* Where rcpthosts() looks.
Looked(k) == k = 0 \/ host[k + 1] = "."

Rh ==
    /\ pc = "rh"
    /\ IF j = Len(host)
       THEN /\ j' = 0
            /\ IF ctl.mrh = NoFile THEN Answered("no") ELSE pc' = "mrh" /\ UNCHANGED answer
       ELSE IF Looked(j) /\ From(host, j) \in ctl.rh THEN Answered("yes") /\ UNCHANGED j
       ELSE j' = j + 1 /\ UNCHANGED <<pc, answer>>
    /\ UNCHANGED <<search, ctl, addr, host>>

\* cdb_seek() may fail: addrallowed() calls die_control().
Mrh ==
    /\ pc = "mrh"
    /\ IF j = Len(host) THEN Answered("no") /\ UNCHANGED j
       ELSE IF ~Looked(j) THEN j' = j + 1 /\ UNCHANGED <<pc, answer>>
       ELSE \/ Answered("error") /\ UNCHANGED j
            \/ From(host, j) \in ctl.mrh /\ Answered("yes") /\ UNCHANGED j
            \/ From(host, j) \notin ctl.mrh /\ j' = j + 1 /\ UNCHANGED <<pc, answer>>
    /\ UNCHANGED <<search, ctl, addr, host>>

-----------------------------------------------------------------------------
Barred(s) ==
    \/ LowerCase(s) \in ctl.bmf
    \/ At(s) < Len(s) /\ LowerCase(From(s, At(s))) \in ctl.bmf

Bmfcheck ==
    /\ pc = "badmailfrom" /\ Answered(IF Barred(addr) THEN "yes" ELSE "no")
    /\ UNCHANGED <<search, ctl, addr, host, j>>

-----------------------------------------------------------------------------
Routed(key) == key \in DOMAIN ctl.routes

\* main() of qmail-remote; the address is a host here.  An empty relay is none.
Smtproutes ==
    /\ pc = "smtproutes"
    /\ LET key == LowerCase(From(addr, j)) IN
       IF (j \in {0, Len(addr)} \/ addr[j + 1] = ".") /\ Routed(key)
       THEN /\ Answered(IF ctl.routes[key] = "empty" THEN "none" ELSE ctl.routes[key])
            /\ UNCHANGED j
       ELSE IF j = Len(addr) THEN Answered("none") /\ UNCHANGED j
       ELSE j' = j + 1 /\ UNCHANGED <<pc, answer>>
    /\ UNCHANGED <<search, ctl, addr, host>>

Next == RcptHost \/ Rh \/ Mrh \/ Bmfcheck \/ Smtproutes

Spec == Init /\ [][Next]_vars

-----------------------------------------------------------------------------
Done(s) == pc = "done" /\ search = s

\* Whether a line is about a host: it is the host, or what is left of the
\* host from one of its dots.
About(line, h) == line = h \/ (line # <<>> /\ line[1] = "." /\ IsSuffix(line, h))

(* qmail-smtpd.8:123-153: a recipient is accepted if there is no rcpthosts,*)
(* if it has no "@", or if a line of rcpthosts or morercpthosts, a         *)
(* wildcard or not, is about its domain, in any case; a morercpthosts that *)
(* cannot be read lets nothing through and refuses nothing.                *)
RcptAllowed ==
    Done("rcpthosts") =>
    LET domain == LowerCase(From(addr, At(addr) + 1))
        lists == ctl.rh \cup (ctl.mrh \ NoFile) IN
    IF ctl.rh = NoFile \/ "@" \notin ToSet(addr) THEN answer = "yes"
    ELSE \/ answer = "yes" /\ \E line \in lists : About(line, domain)
         \/ answer = "no" /\ ~\E line \in lists : About(line, domain)
         \/ answer = "error" /\ ctl.mrh # NoFile /\ ~\E line \in ctl.rh : About(line, domain)

(* qmail-smtpd.8:40-51: a sender is barred if badmailfrom has it, or has   *)
(* "@" and the host that comes after the last "@" of the sender.           *)
SenderBarred ==
    Done("badmailfrom") =>
    (answer = "yes"
     <=> LowerCase(addr) \in ctl.bmf
         \/ \E line \in ctl.bmf :
               line[1] = "@" /\ "@" \notin ToSet(Tail(line)) /\ IsSuffix(line, LowerCase(addr)))

(* qmail-remote.8:134-182: the longest line of smtproutes about a host     *)
(* decides, one with an empty domain last; an empty relay means its MX.    *)
RouteTaken ==
    Done("smtproutes") =>
    LET h == LowerCase(addr)
        lines == {line \in DOMAIN ctl.routes : About(line, h) \/ line = <<>>} IN
    IF lines = {} THEN answer = "none"
    ELSE \E line \in lines : /\ \A other \in lines : Len(other) <= Len(line)
                             /\ answer = IF ctl.routes[line] = "empty" THEN "none" ELSE ctl.routes[line]
=============================================================================
