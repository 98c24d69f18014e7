------------------------------- MODULE Maildir -------------------------------
(***************************************************************************)
(* A maildir with all who use it at once: deliveries (maildir_child() of   *)
(* qmail-local), sessions of qmail-pop3d with maildir_clean() and          *)
(* maildir_scan(), and some other mail reader.  Nothing is ever locked.    *)
(* The name of a file is time.pid.host, one for each delivery.  Time is    *)
(* counted in units of twelve hours.                                       *)
(***************************************************************************)
EXTENDS Integers, Sequences, FiniteSets

CONSTANTS Deliveries, Sessions,
          Others    \* TRUE: there is another mail reader

VARIABLES tmp,     \* files of tmp/, with their age
          new,     \* names in new/
          cur,     \* names in cur/, with their info
          data,    \* contents of the files: "none", "part", "whole", "synced"
          del,     \* the deliveries: where they stand, time on their alarm
          s,       \* the sessions
          deleted, \* names that a user has deleted by way of his reader
          asked    \* DELE commands that stand, by session

vars == <<tmp, new, cur, data, del, s, deleted, asked>>

OldAge == 4  \* older files are just as old

\* Entries of a session's list, and of the directories.
File(dir, name, info) == [dir |-> dir, name |-> name, info |-> info]
Files == {File("new", n, "") : n \in new} \cup {File("cur", c[1], c[2]) : c \in cur}

Idle == [pc |-> "idle", list |-> {}, flagdeleted |-> {}, todo |-> {}]

Init ==
    /\ tmp = [n \in {} |-> 0] /\ new = {} /\ cur = {}
    /\ data = [p \in Deliveries |-> "none"]
    /\ del = [p \in Deliveries |-> [pc |-> "start", age |-> 0]]
    /\ s = [u \in Sessions |-> Idle]
    /\ deleted = {} /\ asked = [u \in Sessions |-> {}]

-----------------------------------------------------------------------------
(* maildir_child().                                                        *)
readers == <<cur, s, deleted, asked>>
Without(name) == [n \in DOMAIN tmp \ {name} |-> tmp[n]]
To(p, pc) == del' = [del EXCEPT ![p].pc = pc]

Create(p) ==
    /\ del[p].pc = "start"
    /\ tmp' = [n \in DOMAIN tmp \cup {p} |-> IF n = p THEN 0 ELSE tmp[n]]
    /\ data' = [data EXCEPT ![p] = "part"]
    /\ To(p, "write")
    /\ UNCHANGED <<new, readers>>

WriteAll(p) ==
    /\ del[p].pc = "write"
    /\ data' = [data EXCEPT ![p] = "whole"] /\ To(p, "fsync")
    /\ UNCHANGED <<tmp, new, readers>>

(* Mutant of Synced: the file is linked, and then on disk some time.       *)
SyncedLater == "whole"

Synced == "synced"

Fsync(p) ==
    /\ del[p].pc = "fsync"
    /\ data' = [data EXCEPT ![p] = Synced] /\ To(p, "link")
    /\ UNCHANGED <<tmp, new, readers>>

LinkNew(p) ==
    /\ del[p].pc = "link" /\ p \in DOMAIN tmp
    /\ new' = new \cup {p} /\ To(p, "linked")
    /\ UNCHANGED <<tmp, data, readers>>

\* The end, with the file in tmp/ removed: after link(), an error, sigalrm().
\* Over NFS link() may say that it failed, with error_exist, when it did not.
Exit(p, code) ==
    /\ tmp' = Without(p) /\ To(p, code)
    /\ UNCHANGED <<new, data, readers>>

Live(p) == del[p].pc \in {"write", "fsync", "link", "linked"}

ExitOk(p) == del[p].pc = "linked" /\ Exit(p, "exit0")
Fails(p) == Live(p) /\ Exit(p, "exit1")
Sigalrm(p) == Live(p) /\ del[p].age = 2 /\ Exit(p, "exit3")

Killed(p) == Live(p) /\ To(p, "killed") /\ UNCHANGED <<tmp, new, data, readers>>

-----------------------------------------------------------------------------
(* Sessions of qmail-pop3d.                                                *)
Session(u, new_s) == s' = [s EXCEPT ![u] = new_s]

Old(age) == age > 3

\* maildir_clean().
Clean(u) ==
    /\ s[u].pc = "idle"
    /\ tmp' = [n \in {n \in DOMAIN tmp : ~Old(tmp[n])} |-> tmp[n]]
    /\ Session(u, [Idle EXCEPT !.pc = "new"])
    /\ asked' = [asked EXCEPT ![u] = {}]
    /\ UNCHANGED <<new, cur, data, del, deleted>>

\* maildir_scan(): new/ and then cur/.  Files of this second are left out.
ScanNew(u) ==
    /\ s[u].pc = "new"
    /\ \E fresh \in SUBSET new :
         Session(u, [s[u] EXCEPT !.pc = "cur", !.list = {File("new", n, "") : n \in new \ fresh}])
    /\ UNCHANGED <<tmp, new, cur, data, del, deleted, asked>>

ScanCur(u) ==
    /\ s[u].pc = "cur"
    /\ Session(u, [s[u] EXCEPT !.pc = "commands",
                               !.list = @ \cup {f \in Files : f.dir = "cur"}])
    /\ UNCHANGED <<tmp, new, cur, data, del, deleted, asked>>

Dele(u, f) ==
    /\ s[u].pc = "commands" /\ f \in s[u].list \ s[u].flagdeleted
    /\ Session(u, [s[u] EXCEPT !.flagdeleted = @ \cup {f}])
    /\ asked' = [asked EXCEPT ![u] = @ \cup {f.name}]
    /\ UNCHANGED <<tmp, new, cur, data, del, deleted>>

Undeleted(u) == {}

Rset(u) ==
    /\ s[u].pc = "commands"
    /\ Session(u, [s[u] EXCEPT !.flagdeleted = Undeleted(u)])
    /\ asked' = [asked EXCEPT ![u] = {}]
    /\ UNCHANGED <<tmp, new, cur, data, del, deleted>>

Quit(u) ==
    /\ s[u].pc = "commands"
    /\ Session(u, [s[u] EXCEPT !.pc = "quit", !.todo = s[u].list])
    /\ deleted' = deleted \cup asked[u]
    /\ UNCHANGED <<tmp, new, cur, data, del, asked>>

\* unlink(), or rename() into cur/; what is not there any more is left.
QuitFile(u, f) ==
    /\ s[u].pc = "quit" /\ f \in s[u].todo
    /\ Session(u, [s[u] EXCEPT !.todo = @ \ {f}])
    /\ IF f \notin Files THEN UNCHANGED <<new, cur>>
       ELSE IF f \in s[u].flagdeleted
       THEN /\ new' = IF f.dir = "new" THEN new \ {f.name} ELSE new
            /\ cur' = IF f.dir = "cur" THEN cur \ {<<f.name, f.info>>} ELSE cur
       ELSE IF f.dir = "new"
       THEN new' = new \ {f.name} /\ cur' = cur \cup {<<f.name, "2,">>}
       ELSE UNCHANGED <<new, cur>>
    /\ UNCHANGED <<tmp, data, del, deleted, asked>>

\* The end of QUIT, a timeout, a broken connection, an error in scanning.
SessionEnds(u) ==
    /\ s[u].pc \notin {"idle"} /\ (s[u].pc = "quit" => s[u].todo = {})
    /\ Session(u, Idle)
    /\ UNCHANGED <<tmp, new, cur, data, del, deleted, asked>>

-----------------------------------------------------------------------------
(* Another reader sees messages, and deletes them for its user.            *)
OtherSees(n) ==
    /\ Others /\ \/ n \in new /\ new' = new \ {n} /\ cur' = cur \cup {<<n, "2,S">>}
                 \/ /\ <<n, "2,">> \in cur /\ UNCHANGED new
                    /\ cur' = (cur \ {<<n, "2,">>}) \cup {<<n, "2,S">>}
    /\ UNCHANGED <<tmp, data, del, s, deleted, asked>>

\* The alarms go off in time.
Tick ==
    /\ \A p \in Deliveries : Live(p) => del[p].age < 2
    /\ tmp' = [n \in DOMAIN tmp |-> IF tmp[n] < OldAge THEN tmp[n] + 1 ELSE OldAge]
    /\ del' = [p \in Deliveries |-> IF Live(p) THEN [del[p] EXCEPT !.age = @ + 1] ELSE del[p]]
    /\ UNCHANGED <<new, data, readers>>

\* What was not synced may be lost; the directories are on disk.
Crash ==
    /\ \E p \in Deliveries : Live(p)
    /\ data' \in [Deliveries -> {"none", "part", "whole", "synced"}]
    /\ \A p \in Deliveries : data'[p] = IF data[p] = "whole" THEN "part" ELSE data[p]
    /\ del' = [p \in Deliveries |-> IF Live(p) THEN [del[p] EXCEPT !.pc = "killed"] ELSE del[p]]
    /\ s' = [u \in Sessions |-> Idle]
    /\ UNCHANGED <<tmp, new, cur, deleted, asked>>

Delivery(p) == Create(p) \/ WriteAll(p) \/ Fsync(p) \/ LinkNew(p) \/ ExitOk(p)
               \/ Fails(p) \/ Sigalrm(p) \/ Killed(p)
Pop(u) == \/ Clean(u) \/ ScanNew(u) \/ ScanCur(u) \/ Rset(u) \/ Quit(u) \/ SessionEnds(u)
          \/ \E f \in s[u].list : Dele(u, f) \/ QuitFile(u, f)

Next == \/ \E p \in Deliveries : Delivery(p)
        \/ \E u \in Sessions : Pop(u)
        \/ \E n \in Deliveries : OtherSees(n)
        \/ Tick \/ Crash

Spec == Init /\ [][Next]_vars

-----------------------------------------------------------------------------
(* What a reader finds in new/ and cur/ is a whole message, even after a   *)
(* crash of the machine (maildir_child(): fsync before link).              *)
OnlyWholeMessages ==
    \A f \in Files : data[f.name] = "synced"

(* A message that was delivered stays until its user has deleted it: with  *)
(* a DELE that stood when he said QUIT, whatever other sessions and        *)
(* readers do with the file at the same time; and it is there once.        *)
DeliveredStays ==
    \A p \in Deliveries :
        /\ del[p].pc = "exit0" /\ p \notin deleted => \E f \in Files : f.name = p
        /\ Cardinality({f \in Files : f.name = p}) <= 1

(* Nobody cleans away the file of a delivery that still runs: the alarm    *)
(* of 24 hours comes before the 36 hours of maildir_clean().               *)
TmpKept == \A p \in Deliveries : Live(p) => p \in DOMAIN tmp
=============================================================================
