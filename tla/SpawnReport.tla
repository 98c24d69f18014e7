----------------------------- MODULE SpawnReport -----------------------------
(***************************************************************************)
(* What the two spawners make of an agent: the child of qmail-lspawn until *)
(* it is qmail-local, and report() of qmail-lspawn and of qmail-rspawn.    *)
(* The output of an agent is a sequence of letters that matter, of text    *)
(* (dots) and of NULs.                                                     *)
(***************************************************************************)
EXTENDS Integers, Sequences, FiniteSets, SequencesExt

CONSTANTS MaxOut,    \* bytes of output
          LocalCodes \* exit codes of qmail-local

NUL == "nul"
Bytes == {"r", "h", "s", "K", "Z", "D", ".", NUL}

\* qlx.h
QLX == [usage |-> 112, root |-> 113, nfs |-> 115, noalias |-> 116, cdb |-> 117,
        sys |-> 118, nomem |-> 119, execsoft |-> 120, execpw |-> 121,
        exechard |-> 126]

VARIABLES agent,  \* "remote" or "local"
          pc,     \* the step of the child
          out,    \* what the agent has written
          wstat,  \* exit code, -1 after a crash
          uid     \* the user of qmail-local, 0 for root

vars == <<agent, pc, out, wstat, uid>>

-----------------------------------------------------------------------------
(* report() of qmail-rspawn.                                               *)
Letter(result) == IF result = 1 THEN "K" ELSE IF result = 0 THEN "Z" ELSE "D"

\* Where the strings of the output begin, as far as they are ended by NUL.
Starts(s) == {j \in 1 .. Len(s) : /\ j = 1 \/ s[j - 1] = NUL
                                  /\ \E k \in j .. Len(s) : s[k] = NUL}

Result(s) ==
    LET js == {j \in Starts(s) : s[j] \in {"K", "Z", "D"}} IN
    IF js = {} THEN -1 ELSE CASE s[Min(js)] = "K" -> 1
                              [] s[Min(js)] = "Z" -> 0
                              [] s[Min(js)] = "D" -> -1

Orr(s) == CASE s[1] = "s" -> 0
            [] s[1] = "h" -> -1
            [] OTHER -> Result(s)

TextIncluded(s) == Result(s) <= Orr(s)

\* The letter, and the letter of the message report whose text is added to
\* that of the first string.
RemoteReport(code, s) ==
    IF code = -1 \/ code = 111 THEN [letter |-> "Z", text |-> "none"]
    ELSE IF code # 0 THEN [letter |-> "D", text |-> "none"]
    ELSE IF s = <<>> THEN [letter |-> "Z", text |-> "none"]
    ELSE LET second == {k \in 3 .. Len(s) : /\ s[k - 1] = NUL
                                            /\ \A i \in 2 .. k - 2 : s[i] # NUL} IN
         [letter |-> Letter(Orr(s)),
          text |-> IF TextIncluded(s) /\ \E k \in second : s[k] \in {"K", "Z", "D"}
                   THEN s[Min(second)] ELSE "none"]

\* report() of qmail-lspawn.
LocalReport(code) ==
    IF code \in {-1, 111, 71, 74, 75} \cup
                {QLX[e] : e \in DOMAIN QLX \ {"exechard"}} THEN "Z"
    ELSE IF code = 0 THEN "K" ELSE "D"

-----------------------------------------------------------------------------
Init == /\ agent \in {"remote", "local"}
        /\ pc = IF agent = "remote" THEN "agent" ELSE "forked"
        /\ out = <<>> /\ wstat = 0 /\ uid = 1

Exit(code) == pc' = "done" /\ wstat' = code /\ UNCHANGED <<agent, out, uid>>
GoOn(next) == pc' = next /\ UNCHANGED <<agent, out, wstat, uid>>

\* qmail-remote writes; it may be killed, or never have been started.
RemoteWrites ==
    /\ agent = "remote" /\ pc = "agent" /\ Len(out) < MaxOut
    /\ \E c \in Bytes : out' = Append(out, c)
    /\ UNCHANGED <<agent, pc, wstat, uid>>

RemoteExits ==
    /\ agent = "remote" /\ pc = "agent"
    /\ \/ \E code \in {-1, 0} : Exit(code)
       \/ out = <<>> /\ \E code \in {100, 111} : Exit(code)

(* The child of spawn() in qmail-lspawn: the address <> is for nobody.     *)
Forked ==
    /\ pc = "forked"
    /\ \/ Exit(0) \/ Exit(QLX.usage) \/ GoOn("nughde")

\* nughde_get(), the table.
OpenCdb ==
    /\ pc = "nughde"
    /\ \/ Exit(QLX.nomem) \/ Exit(QLX.cdb)
       \/ GoOn("getpw") \/ GoOn("found")

\* nughde_get(), the answer of qmail-getpw; slurpclose() may get none.
Getpw ==
    /\ pc = "getpw"
    /\ \/ Exit(QLX.sys)
       \/ \E e \in {"usage", "sys", "nfs", "noalias", "execpw"} : Exit(QLX[e])
       \/ GoOn("found")

\* The fields, which may be missing, and the user.
SplitFields ==
    /\ pc = "found"
    /\ \/ Exit(QLX.usage)
       \/ pc' = "prot" /\ uid' \in {0, 1} /\ UNCHANGED <<agent, out, wstat>>

\* Descriptors, prot_gid(), prot_uid(), getuid(), execv().
Prot ==
    /\ pc = "prot"
    /\ \/ Exit(QLX.sys) \/ Exit(QLX.usage)
       \/ uid = 0 /\ Exit(QLX.root)
       \/ uid # 0 /\ (Exit(QLX.execsoft) \/ Exit(QLX.exechard) \/ GoOn("agent"))

LocalExits ==
    /\ agent = "local" /\ pc = "agent"
    /\ \E code \in LocalCodes \cup {-1} : Exit(code)

Crashes == agent = "local" /\ pc \notin {"agent", "done"} /\ Exit(-1)

Next == \/ RemoteWrites \/ RemoteExits
        \/ Forked \/ OpenCdb \/ Getpw \/ SplitFields \/ Prot
        \/ LocalExits \/ Crashes

Spec == Init /\ [][Next]_vars

-----------------------------------------------------------------------------
\* The strings of an output, each ended by NUL, by their first letters.
Strings(s) == [k \in 1 .. Cardinality(Starts(s)) |->
                 s[CHOOSE j \in Starts(s) :
                     Cardinality({i \in Starts(s) : i < j}) = k - 1]]

(* qmail-remote(8): success only when a message report says so in full and *)
(* no recipient report objects; a recipient refused for good is a          *)
(* permanent failure, one refused for now a temporary one, whatever the    *)
(* message report says; and a success in the message report is not quoted  *)
(* in a failure.  A success is safe for any prefix of an output, too.        *)
RemoteVerdict ==
    agent = "remote" /\ pc = "done" =>
        LET r == RemoteReport(wstat, out)
            first == Strings(out) IN
        /\ r.letter = "K" =>
             /\ wstat = 0 /\ "K" \in ToSet(first) /\ out[1] \notin {"s", "h"}
             /\ \A k \in DOMAIN first : \A i \in 1 .. k :
                  first[k] \in {"Z", "D"} => \E m \in 1 .. k - 1 : first[m] = "K"
        /\ wstat = 0 /\ Len(first) = 2 /\ first[1] \in {"r", "h", "s"}
           /\ first[2] \in {"K", "Z", "D"} =>
             /\ r.letter = CASE first[1] = "r" -> first[2]
                             [] first[1] = "h" -> "D"
                             [] first[1] = "s" -> "Z"
             /\ r.letter # "K" => r.text # "K"
        /\ wstat = -1 => r.letter = "Z"

(* A local message is a success only when qmail-local says so (or there is *)
(* no recipient), bounces only when qmail-local says so or can never be    *)
(* started: all that goes wrong on the way to it is tried again.           *)
LocalVerdict ==
    agent = "local" /\ pc' = "done" =>
         /\ LocalReport(wstat') = "K" => pc \in {"agent", "forked"} /\ wstat' = 0
         /\ LocalReport(wstat') = "D" =>
              \/ pc = "agent" /\ wstat' \notin {-1, 0, 111}
              \/ pc = "prot" /\ wstat' = QLX.exechard
=============================================================================
