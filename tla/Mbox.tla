-------------------------------- MODULE Mbox ---------------------------------
(***************************************************************************)
(* An mbox and its two writers: mailfile() of qmail-local, with its lock,  *)
(* and maildir2mbox, which moves a maildir into it.  A line is a pair: how *)
(* many > it starts with, and what follows.  A message is its lines and    *)
(* whether the last one lacks its newline.  In the mbox a line that was    *)
(* cut off is one without its newline: the next one goes on in it.         *)
(***************************************************************************)
EXTENDS Integers, Sequences, FiniteSets, SequencesExt

CONSTANTS Messages,   \* records [lines, partial]
          Deliveries, \* instances of qmail-local
          Ids,        \* files of the maildir
          MaxMbox     \* lines in an mbox when maildir2mbox is run again

VARIABLES mbox,    \* its lines
          disk,    \* as many of them are on disk
          lock,    \* who has it
          d,       \* the deliveries
          taken,   \* what was delivered with success, in order
          scraps,  \* deliveries that have failed and left something in it
          clash,   \* two of them have written at once
          maildir, \* the files of the maildir, as they were
          present, \* those that are still there
          m        \* maildir2mbox

vars == <<mbox, disk, lock, d, taken, scraps, clash, maildir, present, m>>

FromLine == <<0, "From ">>
Blank == <<0, "">>
Cut == <<0, "cut">>

\* gfrom(): any number of >, then From.
Gfrom(line) == line[2] = "From "

Quoted(lines) == [k \in 1 .. Len(lines) |->
    IF Gfrom(lines[k]) THEN <<lines[k][1] + 1, lines[k][2]>> ELSE lines[k]]

\* What mailfile() writes; a partial line gets its newline.
MailfileText(msg) == <<FromLine>> \o Quoted(msg.lines) \o <<Blank>>

\* The loop of maildir2mbox ends when getln() finds no newline.
Copied(msg) == IF msg.partial THEN Front(msg.lines) ELSE msg.lines

MovedText(msg) == <<FromLine>> \o Quoted(Copied(msg)) \o <<Blank>>

\* mbox.5: how a message is read.
Unquoted(lines) == [k \in 1 .. Len(lines) |->
    IF lines[k][1] > 0 /\ lines[k][2] = "From " THEN <<lines[k][1] - 1, lines[k][2]>>
    ELSE lines[k]]

WithoutBlank(lines) == IF lines # <<>> /\ Last(lines) = Blank THEN Front(lines) ELSE lines

ReadMbox(file) ==
    LET from == {k \in 1 .. Len(file) : file[k] = FromLine /\ (k > 1 => file[k - 1] # Cut)}
        starts == SetToSortSeq(from, <)
        next(i) == IF i = Len(starts) THEN Len(file) + 1 ELSE starts[i + 1] IN
    [i \in 1 .. Len(starts) |-> Unquoted(WithoutBlank(SubSeq(file, starts[i] + 1, next(i) - 1)))]

-----------------------------------------------------------------------------
Init ==
    /\ mbox = <<>> /\ disk = 0 /\ lock = "free" /\ taken = <<>>
    /\ scraps = 0 /\ clash = FALSE
    /\ d = [p \in Deliveries |-> [pc |-> "open", msg |-> {}, todo |-> <<>>, pos |-> 0]]
    /\ maildir \in [Ids -> Messages] /\ present = Ids
    /\ m = [pc |-> IF Ids = {} THEN "done" ELSE "scan", list |-> <<>>,
            i |-> 1, tmp |-> <<>>, synced |-> FALSE]

(* mailfile().                                                             *)
Deliver(p, new) == d' = [d EXCEPT ![p] = new] /\ UNCHANGED <<taken, maildir, present, m>>

Writers == {p \in Deliveries : d[p].pc = "write"}

Open(p) ==
    /\ d[p].pc = "open"
    /\ \E msg \in Messages :
         Deliver(p, [d[p] EXCEPT !.pc = "lock", !.msg = msg, !.todo = MailfileText(msg),
                                 !.pos = Len(mbox)])
    /\ UNCHANGED <<mbox, disk, lock, scraps, clash>>


\* seek_end(), seek_cur(), with the lock.
Pos(p) == Len(mbox)

\* With the lock, or without it when lock_ex() fails: flaglocked is lock = p.
Lock(p) ==
    /\ d[p].pc = "lock"
    /\ \/ lock = "free" /\ lock' = p
       \/ UNCHANGED lock
    /\ Deliver(p, [d[p] EXCEPT !.pc = "write", !.pos = Pos(p)])
    /\ clash' = (clash \/ Writers # {})
    /\ UNCHANGED <<mbox, disk, scraps>>

TempSlowlock(p) ==
    /\ d[p].pc = "lock" /\ lock # "free"
    /\ Deliver(p, [d[p] EXCEPT !.pc = "exit111"])
    /\ UNCHANGED <<mbox, disk, lock, scraps, clash>>

Write(p) ==
    /\ d[p].pc = "write" /\ d[p].todo # <<>>
    /\ mbox' = Append(mbox, Head(d[p].todo))
    /\ Deliver(p, [d[p] EXCEPT !.todo = Tail(@)])
    /\ UNCHANGED <<disk, lock, scraps, clash>>

\* It ends here, and a line may have been written in part.
Stops(p, pc) ==
    /\ mbox' = mbox \/ (d[p].todo # <<>> /\ mbox' = Append(mbox, Cut))
    /\ scraps' = IF Len(mbox') > d[p].pos THEN scraps + 1 ELSE scraps
    /\ Deliver(p, [d[p] EXCEPT !.pc = pc])
    /\ UNCHANGED <<disk, clash>>

Unlock(p) == lock' = IF lock = p THEN "free" ELSE lock

\* The message cannot be read, or the mailbox not be written or synced; what
\* seek_trunc() returns is not looked at.
WriteFails(p) ==
    /\ d[p].pc = "write" /\ Unlock(p)
    /\ \/ /\ lock = p
          /\ mbox' = SubSeq(mbox, 1, Min({d[p].pos, Len(mbox)}))
          /\ disk' = Min({disk, Len(mbox')})
          /\ Deliver(p, [d[p] EXCEPT !.pc = "exit111"]) /\ UNCHANGED <<scraps, clash>>
       \/ Stops(p, "exit111")

\* A signal; the kernel gives up the lock.
Killed(p) == d[p].pc = "write" /\ Unlock(p) /\ Stops(p, "killed")

\* After fsync().
Close(p) ==
    /\ d[p].pc = "write" /\ d[p].todo = <<>>
    /\ d' = [d EXCEPT ![p].pc = "exit0"]
    /\ taken' = Append(taken, d[p].msg.lines)
    /\ Unlock(p) /\ disk' = Len(mbox)
    /\ UNCHANGED <<mbox, scraps, clash, maildir, present, m>>

-----------------------------------------------------------------------------
(* maildir2mbox; only one runs at a time.                                  *)
Move(new) == m' = new /\ UNCHANGED <<d, taken, scraps, clash, maildir>>

\* maildir_scan(): in any order, as far as the files are older than now.
Scan ==
    /\ m.pc = "scan"
    /\ \E list \in SetToAllKPermutations(present) : Move([m EXCEPT !.pc = "lock", !.list = list])
    /\ UNCHANGED <<mbox, disk, lock, present>>

LockMail ==
    /\ m.pc = "lock" /\ lock = "free" /\ lock' = "m"
    /\ Move([m EXCEPT !.pc = "copy", !.tmp = mbox, !.i = 1, !.synced = FALSE])
    /\ UNCHANGED <<mbox, disk, present>>

Copy ==
    /\ m.pc = "copy" /\ m.i <= Len(m.list)
    /\ Move([m EXCEPT !.tmp = @ \o MovedText(maildir[m.list[m.i]]), !.i = @ + 1])
    /\ UNCHANGED <<mbox, disk, lock, present>>

Synced == TRUE

Fsync ==
    /\ m.pc = "copy" /\ m.i > Len(m.list)
    /\ Move([m EXCEPT !.pc = "rename", !.synced = Synced])
    /\ UNCHANGED <<mbox, disk, lock, present>>

Rename ==
    /\ m.pc = "rename"
    /\ mbox' = m.tmp /\ disk' = (IF m.synced THEN Len(m.tmp) ELSE 0)
    /\ Move([m EXCEPT !.pc = "unlink", !.i = 1])
    /\ UNCHANGED <<lock, present>>

\* An unlink() that fails is a warning.
Unlink ==
    /\ m.pc = "unlink" /\ m.i <= Len(m.list)
    /\ present' \in {present, present \ {m.list[m.i]}}
    /\ Move([m EXCEPT !.i = @ + 1])
    /\ UNCHANGED <<mbox, disk, lock>>

Over == [m EXCEPT !.pc = "done", !.list = <<>>, !.tmp = <<>>, !.i = 1]

\* The end, an error, or death at any point.
Ends ==
    /\ m.pc \notin {"done", "scan"}
    /\ Move(Over) /\ lock' = (IF lock = "m" THEN "free" ELSE lock)
    /\ UNCHANGED <<mbox, disk, present>>

\* The machine goes down: what was not synced may be cut off.
Crash ==
    /\ Writers # {} \/ m.pc \notin {"done", "scan"}
    /\ \E n \in disk .. Len(mbox) :
         \/ mbox' = SubSeq(mbox, 1, n)
         \/ (n < Len(mbox) \/ Writers # {}) /\ mbox' = Append(SubSeq(mbox, 1, n), Cut)
    /\ scraps' = scraps + Cardinality({p \in Writers : Len(mbox') > d[p].pos})
    /\ d' = [p \in Deliveries |-> IF d[p].pc \in {"lock", "write"}
                                  THEN [d[p] EXCEPT !.pc = "killed"] ELSE d[p]]
    /\ m' = (IF m.pc \in {"done", "scan"} THEN m ELSE Over)
    /\ disk' = Len(mbox') /\ lock' = "free"
    /\ UNCHANGED <<taken, clash, maildir, present>>

\* It is run again some day.
RunAgain ==
    /\ m.pc = "done" /\ present # {} /\ Len(mbox) < MaxMbox
    /\ Move([m EXCEPT !.pc = "scan"])
    /\ UNCHANGED <<mbox, disk, lock, present>>

Next == \/ \E p \in Deliveries : \/ Open(p) \/ Lock(p) \/ TempSlowlock(p) \/ Write(p)
                                \/ WriteFails(p) \/ Killed(p) \/ Close(p)
        \/ Scan \/ LockMail \/ Copy \/ Fsync \/ Rename \/ Unlink \/ Ends \/ Crash \/ RunAgain

Spec == Init /\ [][Next]_vars

-----------------------------------------------------------------------------
Times(lines, seq) == Cardinality({k \in 1 .. Len(seq) : seq[k] = lines})

\* All lines of every message that was delivered, side by side and in order.
AllThere ==
    LET text(k) == MailfileText([lines |-> taken[k]]) IN
    \E at \in [DOMAIN taken -> 0 .. Len(mbox)] : \A k \in DOMAIN taken :
        /\ IsPrefix(text(k), SubSeq(mbox, at[k] + 1, Len(mbox)))
        /\ k < Len(taken) => at[k] + Len(text(k)) <= at[k + 1]


\* The messages of some kind that are gone from the maildir are in the mbox.
Moved(kind(_)) ==
    \A msg \in Messages :
        LET gone == {id \in Ids \ present : kind(maildir[id]) /\ maildir[id].lines = msg.lines} IN
        Times(msg.lines, ReadMbox(mbox)) >= Cardinality(gone)

(* A message that ends with a newline leaves the maildir only when it is   *)
(* in the mbox, as many times, whatever dies, fails or crashes.            *)
MovedWhole == Moved(LAMBDA msg : ~msg.partial)

(* maildir2mbox.1: it will not remove messages until they have been        *)
(* successfully appended; maildir.5: a message might not end with newline. *)
EveryMessageMoved == Moved(LAMBDA msg : TRUE)
=============================================================================
