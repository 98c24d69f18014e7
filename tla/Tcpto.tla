---------------------------------- MODULE Tcpto -------------------------------
(***************************************************************************)
(* The table of hosts that time out, queue/lock/tcpto, shared by all       *)
(* qmail-remotes: tcpto() before a connection, tcpto_err() after it.       *)
(***************************************************************************)
EXTENDS Integers, FiniteSets, FiniteSetsExt

CONSTANTS Remotes,      \* processes
          Ips, Slots,   \* 64 slots in the code
          Gap,          \* 120 seconds
          Hold,         \* Remotes -> 60 to 91 units of 64 seconds, by process id
          Bonus,        \* 1024 seconds for each error
          MaxTime, MaxClean

VARIABLES table,        \* slot -> [ip, n, when]
          lock,         \* who has it, or Nobody
          now, cleaned,
          pc, ip,       \* of each qmail-remote
          buf,          \* tcpto_buf
          flagwasthere, flagerr,
          errs          \* of each address: the first and the last timeout that
                        \* was entered since the last success that was

remotes == <<pc, ip, buf, flagwasthere, flagerr>>
vars == <<table, lock, now, cleaned, remotes, errs>>

Nobody == "nobody"
NoIp == "0.0.0.0"
Never == <<0, -1>>
S == 1 .. Slots
Zero == [s \in S |-> [ip |-> NoIp, n |-> 0, when |-> 0]]

Init ==
    /\ table = Zero /\ lock = Nobody /\ now = 0 /\ cleaned = 0
    /\ pc = [p \in Remotes |-> "next"] /\ ip = [p \in Remotes |-> NoIp]
    /\ buf = [p \in Remotes |-> Zero]
    /\ errs = [i \in Ips |-> Never]
    /\ flagwasthere = [p \in Remotes |-> FALSE] /\ flagerr = [p \in Remotes |-> FALSE]

Go(p, l) == pc' = [pc EXCEPT ![p] = l]

\* A process that goes on to another address has nothing to remember.
Forget(p) ==
    /\ Go(p, "next") /\ ip' = [ip EXCEPT ![p] = NoIp] /\ buf' = [buf EXCEPT ![p] = Zero]
    /\ flagwasthere' = [flagwasthere EXCEPT ![p] = FALSE]
    /\ flagerr' = [flagerr EXCEPT ![p] = FALSE]

SlotOf(b, i) == {s \in S : b[s].ip = i}

\* The first slot with the address decides.
Held(p) ==
    /\ SlotOf(table, ip'[p]) # {}
    /\ LET r == table[Min(SlotOf(table, ip'[p]))] IN r.n >= 2 /\ now - r.when < Hold[p]

\* tcpto() decides about a copy, without the lock; a delay makes it only less
\* likely that the host is held to be down.  The read may fail.
Tcpto(p) ==
    /\ pc[p] = "next"
    /\ \E i \in Ips : ip' = [ip EXCEPT ![p] = i]
    /\ \/ /\ lock = Nobody /\ Go(p, IF Held(p) THEN "held" ELSE "connect")
          /\ flagwasthere' = [flagwasthere EXCEPT ![p] = SlotOf(table, ip'[p]) # {}]
       \/ Go(p, "connect") /\ UNCHANGED flagwasthere
    /\ UNCHANGED <<table, lock, now, cleaned, buf, flagerr, errs>>

Skip(p) == pc[p] = "held" /\ Forget(p) /\ UNCHANGED <<table, lock, now, cleaned, errs>>

\* timeoutconn(); only a timeout counts.  Nothing is said of a success, or of
\* another error, if the address was not there.
Connect(p) ==
    /\ pc[p] = "connect"
    /\ \E res \in {"ok", "timeout", "error"} :
         /\ IF res = "timeout" \/ flagwasthere[p]
            THEN /\ flagerr' = [flagerr EXCEPT ![p] = res = "timeout"] /\ Go(p, "err")
                 /\ UNCHANGED <<ip, buf, flagwasthere>>
            ELSE Forget(p)
    /\ UNCHANGED <<table, lock, now, cleaned, errs>>

(* Mutant of Getbuf: lock_ex() is forgotten.                               *)
GetbufUnlocked(p) ==
    /\ pc[p] = "err"
    /\ \/ /\ Go(p, "write") /\ buf' = [buf EXCEPT ![p] = table]
          /\ UNCHANGED <<ip, flagwasthere, flagerr>>
       \/ Forget(p)
    /\ UNCHANGED <<table, lock, now, cleaned, errs>>

Getbuf(p) ==
    /\ pc[p] = "err"
    /\ \/ /\ lock = Nobody /\ lock' = p /\ Go(p, "write") /\ buf' = [buf EXCEPT ![p] = table]
          /\ UNCHANGED <<ip, flagwasthere, flagerr>>
       \/ Forget(p) /\ UNCHANGED lock
    /\ UNCHANGED <<table, now, cleaned, errs>>

Release(p) == Forget(p) /\ lock' = Nobody

\* An unused slot, or else the oldest; errors make a slot younger.
Victim(p) ==
    LET free == {s \in S : buf[p][s].n = 0}
        age(s) == buf[p][s].when + buf[p][s].n * Bonus
    IN IF free # {} THEN Min(free)
       ELSE CHOOSE s \in S : \A u \in S : age(s) < age(u) \/ (age(s) = age(u) /\ s <= u)

\* The damper: an error so soon after the one before does not count.
Counts(r) == ~(r.n > 0 /\ now < Gap + r.when)

More(n) == IF n >= 10 THEN 10 ELSE n + 1

Enter(p, s, n, when) ==
    table' = [table EXCEPT ![s] = [ip |-> ip[p], n |-> n, when |-> when]]

Entered(p) ==
    errs' = [errs EXCEPT ![ip[p]] = <<IF @ = Never THEN now ELSE @[1], now>>]

TcptoErr(p) ==
    /\ pc[p] = "write" /\ flagerr[p] /\ Release(p)
    /\ IF SlotOf(buf[p], ip[p]) = {}
       THEN Enter(p, Victim(p), 1, now) /\ Entered(p)
       ELSE LET s == Min(SlotOf(buf[p], ip[p])) r == buf[p][s] IN
            IF Counts(r) THEN Enter(p, s, More(r.n), now) /\ Entered(p)
            ELSE UNCHANGED <<table, errs>>
    /\ UNCHANGED <<now, cleaned>>

TcptoOk(p) ==
    /\ pc[p] = "write" /\ ~flagerr[p] /\ Release(p)
    /\ IF SlotOf(buf[p], ip[p]) = {} THEN UNCHANGED <<table, errs>>
       ELSE LET s == Min(SlotOf(buf[p], ip[p])) IN
            /\ Enter(p, s, 0, buf[p][s].when)
            /\ errs' = [errs EXCEPT ![ip[p]] = Never]
    /\ UNCHANGED <<now, cleaned>>

\* It dies; the lock goes with the process.
Exit(p) ==
    /\ pc[p] # "next" /\ Forget(p)
    /\ lock' = IF lock = p THEN Nobody ELSE lock
    /\ UNCHANGED <<table, now, cleaned, errs>>

\* tcpto_clean(), when qmail-rspawn starts, does not ask for the lock; the
\* qmail-remotes of the one before may still be there.
TcptoClean ==
    /\ cleaned < MaxClean /\ cleaned' = cleaned + 1 /\ table' = Zero
    /\ UNCHANGED <<lock, now, remotes, errs>>

\* qmail-tcpok does.
Tcpok ==
    /\ cleaned < MaxClean /\ cleaned' = cleaned + 1 /\ lock = Nobody /\ table' = Zero
    /\ UNCHANGED <<lock, now, remotes, errs>>

Tick == now < MaxTime /\ now' = now + 1
        /\ UNCHANGED <<table, lock, cleaned, remotes, errs>>

Next ==
    \/ \E p \in Remotes : \/ Tcpto(p) \/ Skip(p) \/ Connect(p) \/ Getbuf(p) \/ TcptoErr(p)
                          \/ TcptoOk(p) \/ Exit(p)
    \/ TcptoClean \/ Tcpok \/ Tick

Spec == Init /\ [][Next]_vars

-----------------------------------------------------------------------------
(* A host is in one slot only, whatever the qmail-remotes find and write.  *)
OneSlot == \A s, u \in S : table[s].ip = table[u].ip /\ table[s].ip # NoIp => s = u

(* As the manual page says: a host is held to be down only after two       *)
(* timeouts, the second at least two minutes later and not much more than  *)
(* an hour ago, with no success entered between them.  This survives dead  *)
(* processes, the cleaning without the lock, and slots that are replaced.  *)
HeldForCause ==
    \A p \in Remotes : pc[p] = "next" /\ pc'[p] = "held" =>
        LET e == errs[ip'[p]] IN
        e # Never /\ e[1] + Gap <= e[2] /\ now - e[2] < Hold[p]
=============================================================================
