------------------------------ MODULE QmailLocal ------------------------------
(***************************************************************************)
(* qmail-local: a delivery to one address, as often as qmail-lspawn starts *)
(* it for the same message: the home directory, the .qmail file that       *)
(* governs the address, its instructions, forwarding, and the exit code.   *)
(* Maildir and Mbox have the deliveries to files.                          *)
(***************************************************************************)
EXTENDS Integers, Sequences, FiniteSets, SequencesExt

CONSTANTS Exts,     \* extensions of the address, sequences of tokens
          MaxLines, \* lines of a .qmail file
          MaxRuns   \* times that qmail-lspawn tries

VARIABLES dash,     \* there is something between user and extension
          ext,      \* of the address
          files,    \* .qmail files: name -> [lines, cutable]
          home,     \* "ok", "sticky", "writable"; in this run
          loops,    \* the message has our Delivered-To line
          pc, i, forwardonly, flag99,
          recips,   \* addresses to forward to
          cmds,     \* the lines of the file
          code,     \* how this run has ended
          runs,
          died,     \* runs in which qmail-local or its qmail-queue was killed
          did       \* what was carried out: <<run, line>>; 0 is forwarding

situation == <<dash, ext, files, home, loops>>
run == <<pc, i, forwardonly, flag99, recips, cmds>>
vars == <<situation, run, code, runs, died, did>>

Kinds == {"#", "blank", "file", "|", "+list", "&"}
Aliasempty == <<"file">>   \* ./Mailbox
DASH == "-"

-----------------------------------------------------------------------------
(* The .qmail file.  Uppercase letters are made lowercase, dots are made   *)
(* colons; both tokens stand for any number of bytes.                      *)
Safe(e) == [k \in 1 .. Len(e) |-> IF e[k] = "A" THEN "a" ELSE IF e[k] = "." THEN ":" ELSE e[k]]

Default(prefix) == Append(prefix, "default")

\* Where qmesearch() looks: at the whole, and for defaults, from the right.
Cuts(e) == {k \in 0 .. Len(e) : k = 0 \/ e[k] = DASH}

\* qmesearch(): none or one.
Chosen(e) ==
    LET some == {k \in Cuts(e) : Default(SubSeq(e, 1, k)) \in DOMAIN files} IN
    IF e \in DOMAIN files THEN {e}
    ELSE {Default(SubSeq(e, 1, k)) : k \in {x \in some : \A y \in some : x >= y}}

-----------------------------------------------------------------------------
Lines == UNION {[1 .. n -> Kinds] : n \in 0 .. MaxLines}
Homes == {"ok", "sticky", "writable"}

\* Some files, one of them of interest.
Init ==
    /\ ext \in Exts /\ dash \in BOOLEAN
    /\ \E names \in SUBSET ({Safe(ext)} \cup {Default(SubSeq(Safe(ext), 1, k)) : k \in 0 .. Len(ext)}) :
         \/ names = {} /\ files = <<>>
         \/ \E n \in names, lines \in Lines, x \in BOOLEAN :
              files = [f \in names |-> [lines |-> IF f = n THEN lines ELSE <<"&">>,
                                       cutable |-> f = n /\ x]]
    /\ home \in Homes /\ loops \in BOOLEAN
    /\ pc = "home" /\ i = 1 /\ forwardonly = FALSE /\ flag99 = FALSE
    /\ recips = <<>> /\ cmds = <<>> /\ code = -1 /\ runs = 0 /\ died = {} /\ did = {}

Exit(c) ==
    /\ code' = c /\ pc' = "exit"
    /\ UNCHANGED <<situation, i, forwardonly, flag99, recips, cmds, runs, died>>

Goto(next) == pc' = next /\ UNCHANGED <<situation, code, runs, died>>

(* Mutant of Unsafe: a sticky home is worth a warning, as without flagdoit. *)
UnsafeWarns == home = "writable"

Unsafe == home # "ok"

\* checkhome().
CheckHome ==
    /\ pc = "home"
    /\ IF Unsafe THEN Exit(111)
       ELSE Goto("loop") /\ UNCHANGED <<i, forwardonly, flag99, recips, cmds>>
    /\ UNCHANGED did

\* bouncexf().
Bouncexf ==
    /\ pc = "loop"
    /\ IF loops THEN Exit(100)
       ELSE Goto("search") /\ UNCHANGED <<i, forwardonly, flag99, recips, cmds>>
    /\ UNCHANGED did

\* Without a file only an address without dash goes on; a file that is empty is
\* as good as none then.
Search ==
    /\ pc = "search"
    /\ \/ Exit(111)   \* a file that cannot be read now, or is writable
       \/ /\ Chosen(Safe(ext)) = {} /\ dash /\ Exit(100)
       \/ /\ Chosen(Safe(ext)) # {} \/ ~dash
          /\ LET some == {files[n] : n \in Chosen(Safe(ext))}
                 full == {f \in some : f.lines # <<>>} IN
             /\ cmds' = IF full = {} THEN Aliasempty ELSE (CHOOSE f \in full : TRUE).lines
             /\ forwardonly' = (\E f \in full : f.cutable)
          /\ Goto("lines") /\ UNCHANGED <<i, flag99, recips>>
    /\ UNCHANGED did

Line(kinds) == pc = "lines" /\ ~flag99 /\ i <= Len(cmds) /\ cmds[i] \in kinds
NextLine == i' = i + 1 /\ Goto("lines") /\ UNCHANGED cmds
Done == did' = did \cup {<<runs, i>>}

FirstBlank == Line({"blank"}) /\ i = 1 /\ Exit(111) /\ UNCHANGED did

Skip == /\ Line({"#", "blank"}) /\ (cmds[i] = "blank" => i > 1)
        /\ NextLine /\ UNCHANGED <<forwardonly, flag99, recips, did>>

(* Mutant of Listed: only the mode of the file counts.                     *)
ListedNot == forwardonly

Listed == TRUE

List == /\ Line({"+list"})
        /\ forwardonly' = Listed /\ NextLine /\ UNCHANGED <<flag99, recips, did>>

\* maildir(), mailfile(): all their errors are temporary.
ToFile ==
    /\ Line({"file"})
    /\ IF forwardonly THEN Exit(111) /\ UNCHANGED did
       ELSE \/ Exit(111) /\ UNCHANGED did
            \/ Done /\ NextLine /\ UNCHANGED <<forwardonly, flag99, recips>>

\* mailprogram().
Program ==
    /\ Line({"|"})
    /\ IF forwardonly THEN Exit(111) /\ UNCHANGED did
       ELSE \/ \E c \in {100, 111} : Exit(c) /\ UNCHANGED did
            \/ Done /\ flag99' \in BOOLEAN /\ NextLine /\ UNCHANGED <<forwardonly, recips>>

Forward == /\ Line({"&"})
           /\ recips' = Append(recips, i)
           /\ NextLine /\ UNCHANGED <<forwardonly, flag99, did>>

\* The lines that count for mailforward().
Rest == recips

\* mailforward().
Mailforward ==
    /\ pc = "lines" /\ (flag99 \/ i > Len(cmds))
    /\ \/ Rest = <<>> /\ Goto("end") /\ UNCHANGED did
       \/ Rest # <<>> /\ (\E c \in {100, 111} : Exit(c)) /\ UNCHANGED did
       \/ Rest # <<>> /\ Goto("end") /\ did' = did \cup {<<runs, 0>>}
    /\ UNCHANGED <<i, forwardonly, flag99, recips, cmds>>

\* count_print().
Success == pc = "end" /\ Exit(0) /\ UNCHANGED did

\* qmail-local dies, or qmail-queue does when it has just queued the message.
Killed ==
    /\ pc # "exit" /\ pc' = "exit" /\ code' = 111 /\ died' = died \cup {runs}
    /\ UNCHANGED <<situation, i, forwardonly, flag99, recips, cmds, runs, did>>

\* qmail-send tries again after a temporary failure; the user may have ended
\* his editing, or begun it.
Again ==
    /\ pc = "exit" /\ code = 111 /\ runs < MaxRuns
    /\ runs' = runs + 1 /\ code' = -1 /\ home' \in Homes
    /\ pc' = "home" /\ i' = 1 /\ forwardonly' = FALSE /\ flag99' = FALSE
    /\ recips' = <<>> /\ cmds' = <<>>
    /\ UNCHANGED <<dash, ext, files, loops, died, did>>

Next == CheckHome \/ Bouncexf \/ Search \/ FirstBlank \/ Skip \/ List \/ ToFile \/ Program
        \/ Forward \/ Mailforward \/ Success \/ Killed \/ Again

Spec == Init /\ [][Next]_vars

-----------------------------------------------------------------------------
Ended(c) == pc = "exit" /\ code = c
DidLine(k) == <<runs, k>> \in did

(* Success means that in this one run each file and program line up to the *)
(* end, or up to a program with exit code 99, was carried out, and that    *)
(* the message was forwarded if there was a forward line among them        *)
(* (dot-qmail: error handling).                                            *)
SuccessComplete ==
    Ended(0) =>
        \E stop \in 0 .. Len(cmds) :
            /\ stop = Len(cmds) \/ (flag99 /\ stop > 0 /\ cmds[stop] = "|")
            /\ \A k \in 1 .. stop : cmds[k] \in {"file", "|"} => DidLine(k)
            /\ \A k \in stop + 1 .. Len(cmds) : ~DidLine(k)
            /\ (\E k \in 1 .. stop : cmds[k] = "&") <=> DidLine(0)

(* Over all runs the message is forwarded once at most, unless somebody    *)
(* was killed between the queueing and the report; a bounce means that it  *)
(* was not forwarded: forwarding is the last thing that is done, so that   *)
(* no failure of another instruction can repeat it (mailforward()).        *)
ForwardOnce ==
    \A r \in (0 .. runs) \ died : <<r, 0>> \in did => r = runs /\ code \in {-1, 0}

(* No instruction is carried out in a run that finds the home directory    *)
(* sticky or writable, nor in any run when the message loops; a file that  *)
(* must only forward, because of its mode or from its line +list on,       *)
(* starts nothing else (checkhome(), bouncexf(), main).                    *)
NothingForbidden ==
    /\ loops => did = {}
    /\ home # "ok" => \A k \in 0 .. MaxLines : ~DidLine(k)
    /\ \A r \in 0 .. runs, k \in 1 .. MaxLines :
         <<r, k>> \in did =>
            /\ \A n \in Chosen(Safe(ext)) : files[n].lines # <<>> => ~files[n].cutable
            /\ ~\E l \in 1 .. k : l <= Len(cmds) /\ cmds[l] = "+list"

(* The file that governs an address is its own, or else the default with   *)
(* the longest prefix of the address that ends at a break; an address      *)
(* without any file bounces, except one without dash (dot-qmail: extension *)
(* addresses).                                                             *)
GovernsRight ==
    /\ pc = "lines" /\ i = 1 /\ Safe(ext) \in DOMAIN files /\ files[Safe(ext)].lines # <<>>
         => cmds = files[Safe(ext)].lines
    /\ pc = "lines" /\ Safe(ext) \notin DOMAIN files =>
         \A k \in 0 .. Len(ext) :
            LET name == Default(SubSeq(Safe(ext), 1, k)) IN
            /\ name \in DOMAIN files /\ (k = 0 \/ ext[k] = DASH)
            /\ \A l \in k + 1 .. Len(ext) : ext[l] = DASH =>
                 Default(SubSeq(Safe(ext), 1, l)) \notin DOMAIN files
            => cmds = IF files[name].lines = <<>> THEN Aliasempty ELSE files[name].lines
    /\ pc = "lines" /\ files = <<>> => ~dash /\ cmds = Aliasempty
=============================================================================
