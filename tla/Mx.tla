------------------------------------ MODULE Mx --------------------------------
(***************************************************************************)
(* qmail-remote's way from a host name to a connection: dns_mxip(), the    *)
(* comparison with the addresses of this host, and the attempts to connect.*)
(* What the resolver answers is an input.                                  *)
(***************************************************************************)
EXTENDS Integers, Sequences, FiniteSets, SequencesExt

CONSTANTS Hosts,        \* records [res, mx], mx a sequence of [p, name]
          Names,        \* a name -> [res, ips]; of a literal the one address
          Literals,     \* names that are addresses
          Me,           \* what ipme_is() knows
          Bytes,        \* of an unsigned long: 4 or 8
          Seeds         \* sequences of bytes, the least significant first

VARIABLES host, relay,  \* relay: host comes from smtproutes
          pc, mx, random,
          ia,           \* a sequence of [ip, pref, p], p the preference in the record
          flagsoft, prefme, i,
          exit

vars == <<host, relay, pc, mx, random, ia, flagsoft, prefme, i, exit>>

Init ==
    /\ host \in Hosts /\ relay \in BOOLEAN /\ (relay => Len(host.mx) = 1)
    /\ pc = "lookup" /\ mx = <<>> /\ random \in Seeds /\ ia = <<>> /\ flagsoft = FALSE
    /\ prefme = 0 /\ i = 1 /\ exit = "none"

Exit(x) == pc' = "exit" /\ exit' = x

\* dns_ipplus(): an address is its own answer, with preference 0; a resolver
\* that fails in the middle leaves the addresses before.
Answer(name, p) ==
    [k \in DOMAIN Names[name].ips |->
        [ip |-> Names[name].ips[k], pref |-> IF name \in Literals THEN 0 ELSE p, p |-> p]]

\* dns_ip().
Ip(name) ==
    /\ ia' = Answer(name, 0)
    /\ CASE Names[name].res = "soft" -> Exit("temp_dns")
         [] Names[name].res = "hard" -> Exit("perm_dns")
         [] OTHER -> pc' = "select" /\ UNCHANGED exit

\* No MX records, or none of that type: the host itself, called "self".
Lookup ==
    /\ pc = "lookup"
    /\ IF relay THEN Ip(host.mx[1].name) /\ UNCHANGED mx
       ELSE CASE host.res = "soft" -> Exit("temp_dns") /\ UNCHANGED <<ia, mx>>
              [] host.res = "hard" \/ host.mx = <<>> -> Ip("self") /\ UNCHANGED mx
              [] OTHER -> mx' = host.mx /\ pc' = "sort" /\ UNCHANGED <<ia, exit>>
    /\ UNCHANGED <<host, relay, random, flagsoft, prefme, i>>

-----------------------------------------------------------------------------
\* What is left of a number in an unsigned long.
Trunc(digits) == SubSeq(digits, 1, Bytes)

\* random * 69069 + 1
Step(r) ==
    LET d == r \o [k \in 1 .. 8 - Len(r) |-> 0]
        carry[k \in 0 .. 8] == IF k = 0 THEN 1 ELSE (d[k] * 69069 + carry[k - 1]) \div 256
    IN Trunc([k \in 1 .. 8 |-> (d[k] * 69069 + carry[k - 1]) % 256])

\* random / 2 < 2147483647 / numsame
Below(r, numsame) ==
    /\ \A k \in DOMAIN r : k > 4 => r[k] = 0
    /\ r[1] \div 2 + 128 * r[2] + 32768 * r[3] + 8388608 * r[4] < 2147483647 \div numsame

\* One round of the inner loop: the record so far, how many are like it.
Choose(a, j) ==
    CASE mx[j].p < mx[a.i].p -> [a EXCEPT !.i = j, !.numsame = 1]
      [] mx[j].p = mx[a.i].p ->
            LET n == a.numsame + 1 r == Step(a.random) IN
            [i |-> IF Below(r, n) THEN j ELSE a.i, numsame |-> n, random |-> r]
      [] OTHER -> a

Best(seed) ==
    FoldLeft(Choose, [i |-> 1, numsame |-> 1, random |-> seed], [j \in 1 .. Len(mx) - 1 |-> j + 1])

\* The last record goes to the place of the best one.
Take ==
    /\ pc = "sort" /\ mx # <<>>
    /\ LET b == Best(random) m == mx[b.i] IN
       /\ ia' = ia \o Answer(m.name, m.p)
       /\ flagsoft' = (flagsoft \/ Names[m.name].res = "soft")
       /\ mx' = SubSeq([mx EXCEPT ![b.i] = Last(mx)], 1, Len(mx) - 1) /\ random' = b.random
    /\ UNCHANGED <<host, relay, pc, prefme, i, exit>>

Sorted ==
    /\ pc = "sort" /\ mx = <<>>
    /\ IF ia = <<>> /\ flagsoft THEN Exit("temp_dns") ELSE pc' = "select" /\ UNCHANGED exit
    /\ UNCHANGED <<host, relay, mx, random, ia, flagsoft, prefme, i>>

-----------------------------------------------------------------------------
Mine == {k \in DOMAIN ia : ia[k].ip \in Me}

(* Mutant of Prefme: the first address decides, not the best one.          *)
PrefmeFirst ==
    IF Mine = {} THEN 100000
    ELSE ia[CHOOSE k \in Mine : \A l \in Mine : ia[l].pref <= ia[k].pref].pref

Prefme ==
    IF relay THEN 300000
    ELSE IF Mine = {} THEN 100000
    ELSE ia[CHOOSE k \in Mine : \A l \in Mine : ia[k].pref <= ia[l].pref].pref

Select ==
    /\ pc = "select" /\ prefme' = Prefme
    /\ IF ia = <<>> THEN Exit("perm_nomx")
       ELSE IF \E k \in DOMAIN ia : ia[k].pref < prefme' THEN pc' = "try" /\ UNCHANGED exit
       ELSE Exit("perm_ambigmx")
    /\ UNCHANGED <<host, relay, mx, random, ia, flagsoft, i>>

\* Not asked: an address that is not better than this host, or times out.
\* Asked in vain; or smtp() takes over; or no socket.
Try ==
    /\ pc = "try" /\ i <= Len(ia) /\ i' = i + 1
    /\ \/ UNCHANGED <<pc, exit>>
       \/ ia[i].pref < prefme /\ \E x \in {"smtp", "temp_oserr"} : Exit(x)
    /\ UNCHANGED <<host, relay, mx, random, ia, flagsoft, prefme>>

TempNoconn ==
    /\ pc = "try" /\ i > Len(ia) /\ Exit("temp_noconn")
    /\ UNCHANGED <<host, relay, mx, random, ia, flagsoft, prefme, i>>

Next == Lookup \/ Take \/ Sorted \/ Select \/ Try \/ TempNoconn

Spec == Init /\ [][Next]_vars

-----------------------------------------------------------------------------
(* The addresses are tried in the order of the preferences: every address  *)
(* of a better record comes before, whatever the order of the answer.      *)
Ordered == pc = "try" => \A k, l \in DOMAIN ia : k < l => ia[k].p <= ia[l].p

(* No mail for a loop: unless smtproutes names the relay, the host that is *)
(* connected to is strictly better than every record that names this host. *)
(* (An address in the place of a name counts as the best record, wherever  *)
(* it is.)                                                                 *)
NoLoop ==
    exit = "smtp" /\ ~relay =>
        \A k \in Mine : ia[i - 1].pref < ia[k].pref /\ ia[i - 1].ip \notin Me

NamesMe(k) == Range(Names[host.mx[k].name].ips) \cap Me # {}

(* No permanent failure for the lack of addresses unless every answer was  *)
(* final.  Of perm_ambigmx ("I'm the best MX") only this holds: none of    *)
(* the records that are better than those of this host has an address.  It *)
(* may well have none because its answer was soft: the code asks flagsoft  *)
(* only when there is no address at all (qmail-remote.c:371), so that a    *)
(* temporary failure of the resolver fails the message for good.           *)
FinalAnswers ==
    /\ exit \in {"perm_nomx", "perm_dns"} =>
         host.res # "soft" /\ \A k \in DOMAIN host.mx : Names[host.mx[k].name].res # "soft"
    /\ exit = "perm_ambigmx" =>
         \A k \in DOMAIN host.mx :
            (\A l \in DOMAIN host.mx : NamesMe(l) => host.mx[k].p < host.mx[l].p)
            => Names[host.mx[k].name].ips = <<>>

(* Hosts with the same preference share the load: each of the best records *)
(* comes first for some time and process id.                               *)
Balanced ==
    pc = "sort" /\ ia = <<>> =>
        \A k \in DOMAIN mx : (\A l \in DOMAIN mx : mx[k].p <= mx[l].p) =>
            \E seed \in Seeds : Best(seed).i = k
=============================================================================
