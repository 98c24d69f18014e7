-------------------------------- MODULE Rewrite -------------------------------
(***************************************************************************)
(* rewrite() of qmail-send: an envelope recipient becomes a local or a     *)
(* remote one, by percenthack, locals and virtualdomains; and senderadd(). *)
(* The maps are functions, without case, as constmap looks them up.        *)
(***************************************************************************)
EXTENDS Integers, Sequences, SequencesExt, FiniteSetsExt

CONSTANTS Chars,
          Recips,       \* sequences of them
          Senders,
          Controls      \* records [percenthack, locals, vdoms, envnoathost]

VARIABLES pc, recip, sender, ctl,
          addr,         \* addr.len is its length
          i,            \* what comes before the "@" in question; then the
                        \* position of the lookup in virtualdomains
          rwline        \* <<channel, address>>

vars == <<pc, recip, sender, ctl, addr, i, rwline>>

\* byte_rchr(): how many come before the last c, or all there are.
Rchr(s, c) ==
    LET its == {k \in DOMAIN s : s[k] = c} IN IF its = {} THEN Len(s) ELSE Max(its) - 1

From(s, k) == SubSeq(s, k + 1, Len(s))
Before(s, k) == SubSeq(s, 1, k)

Init ==
    /\ pc = "noat" /\ recip \in Recips /\ sender \in Senders /\ ctl \in Controls
    /\ addr = recip /\ i = 0 /\ rwline = <<>>

Noathost ==
    /\ pc = "noat" /\ pc' = "percent"
    /\ i' = Rchr(addr, "@")
    /\ addr' = IF i' = Len(addr) THEN addr \o <<"@">> \o ctl.envnoathost ELSE addr
    /\ UNCHANGED <<recip, sender, ctl, rwline>>

\* One more percent sign before the "@" of a domain in percenthack.
Hacked == From(addr, i + 1) \in ctl.percenthack /\ Rchr(Before(addr, i), "%") # i

Percenthack ==
    /\ pc = "percent" /\ Hacked
    /\ i' = Rchr(Before(addr, i), "%")
    /\ addr' = [Before(addr, i) EXCEPT ![i' + 1] = "@"]
    /\ UNCHANGED <<pc, recip, sender, ctl, rwline>>

At == Rchr(addr, "@")

Local ==
    /\ pc = "percent" /\ ~Hacked
    /\ IF From(addr, At + 1) \in ctl.locals
       THEN pc' = "done" /\ rwline' = <<"local", addr>> /\ UNCHANGED i
       ELSE pc' = "vdoms" /\ i' = 0 /\ UNCHANGED rwline
    /\ UNCHANGED <<recip, sender, ctl, addr>>

(* Mutant of Looked: any end of the domain counts.                         *)
LookedAnywhere(k) == k \in {0, Len(addr)} \/ k > At

Looked(k) == k \in {0, At + 1, Len(addr)} \/ (k > At /\ addr[k + 1] = ".")

Vdom ==
    /\ pc = "vdoms" /\ i <= Len(addr)
    /\ LET key == From(addr, i) IN
       IF Looked(i) /\ key \in DOMAIN ctl.vdoms
       THEN /\ pc' = "done" /\ UNCHANGED i
            /\ rwline' = IF ctl.vdoms[key] = <<>> THEN <<"remote", addr>>
                         ELSE <<"local", ctl.vdoms[key] \o <<"-">> \o addr>>
       ELSE i' = i + 1 /\ UNCHANGED <<pc, rwline>>
    /\ UNCHANGED <<recip, sender, ctl, addr>>

Remote ==
    /\ pc = "vdoms" /\ i > Len(addr)
    /\ pc' = "done" /\ rwline' = <<"remote", addr>>
    /\ UNCHANGED <<recip, sender, ctl, addr, i>>

Next == Noathost \/ Percenthack \/ Local \/ Vdom \/ Remote

Spec == Init /\ [][Next]_vars

-----------------------------------------------------------------------------
Verp == <<"-", "@", "[", "]">>

\* The sender of a delivery to r.
senderadd(s, r) ==
    LET j == Rchr(Before(s, Len(s) - 4), "@")
        k == Rchr(r, "@") IN
    IF IsSuffix(Verp, s) /\ k < Len(r) /\ j + 5 <= Len(s)
    THEN Before(s, j) \o Before(r, k) \o <<"=">> \o From(r, k + 1) \o <<"@">>
         \o SubSeq(s, j + 2, Len(s) - 4)
    ELSE s

-----------------------------------------------------------------------------
\* What qmail-send's manual page says.
HasAt(s) == \E k \in DOMAIN s : s[k] = "@"
Domain(s) == From(s, Rchr(s, "@") + 1)
OneAt == Cardinality({k \in DOMAIN recip : recip[k] = "@"}) <= 1

\* user%fqdn@domain becomes user@fqdn, and so on.
Unhacked[s \in Seq(Chars)] ==
    LET user == Before(s, Rchr(s, "@"))
        p == Rchr(user, "%") IN
    IF Domain(s) \in ctl.percenthack /\ p < Len(user)
    THEN Unhacked[Before(user, p) \o <<"@">> \o From(user, p + 1)]
    ELSE s

Full == Unhacked[IF HasAt(recip) THEN recip ELSE recip \o <<"@">> \o ctl.envnoathost]

\* The entries that apply: a user, a domain, a wildcard; the longest decides.
Applies(key, s) ==
    \/ key = s \/ key = Domain(s) \/ key = <<>>
    \/ key[1] = "." /\ IsSuffix(key, Domain(s))

(* A recipient goes where the manual page says: percenthack before locals, *)
(* locals before virtualdomains, of the entries of virtualdomains that     *)
(* apply the longest, and an empty prepend as an exception to shorter ones.*)
(* For addresses with more than one "@" the page says nothing.             *)
AsDocumented ==
    pc = "done" /\ OneAt =>
        LET keys == {key \in DOMAIN ctl.vdoms : Applies(key, Full)}
            key == CHOOSE k \in keys : \A o \in keys : Len(o) <= Len(k) IN
        rwline = IF Domain(Full) \in ctl.locals THEN <<"local", Full>>
                 ELSE IF keys = {} \/ ctl.vdoms[key] = <<>> THEN <<"remote", Full>>
                 ELSE <<"local", ctl.vdoms[key] \o <<"-">> \o Full>>

(* A VERP sender pre@host-@[] comes back with everything in it: the bounce *)
(* address has host, and between pre and its "@" the recipient, with its   *)
(* last "=" for the "@".  Every other sender stays what it is.             *)
VerpTold ==
    pc = "done" /\ HasAt(recip) =>
        LET s == senderadd(sender, recip)
            core == Before(sender, Len(sender) - 4)
            pre == Before(core, Rchr(core, "@"))
            box == SubSeq(s, Len(pre) + 1, Rchr(s, "@")) IN
        IF IsSuffix(Verp, sender) /\ HasAt(core)
        THEN /\ Domain(s) = Domain(core) /\ IsPrefix(pre, s)
             /\ [box EXCEPT ![Rchr(box, "=") + 1] = "@"] = recip
        ELSE s = sender
=============================================================================
