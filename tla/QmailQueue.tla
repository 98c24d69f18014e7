----------------------------- MODULE QmailQueue -----------------------------
(***************************************************************************)
(* qmail-queue.c: main() as run by any number of concurrent processes.     *)
(* One action per change of the queue directory, in the order of main(),   *)
(* and one action per way of dying.  A process that dies by die_read() or  *)
(* die_write() cleans up; every other death leaves its files behind.       *)
(*                                                                         *)
(* Bouncer is the process that injectbounce() of qmail-send starts and     *)
(* waits for; its exit code is kept until qmail-send has read it.          *)
(***************************************************************************)
EXTENDS QueueDir

CONSTANTS Clients,        \* processes started by users and network daemons
          Bouncer,        \* the process started by qmail-send
          ClientSenders,  \* senders that clients put in an envelope
          Reserve         \* free inodes that clients leave to the Bouncer

ASSUME BouncerAssumption == Bouncer \notin Clients
ASSUME SendersAssumption == ClientSenders \subseteq Senders
ASSUME ReserveAssumption == Reserve \in Nat

Procs == Clients \cup {Bouncer}

VARIABLES qpc,   \* qpc[p]: what process p has done so far
          qid    \* qid[p]: messnum, defined while p lives

queueVars == <<qpc, qid>>

Live == {"pid", "linked", "mess", "body", "intd", "ready", "queued"}

QueueTypeOK ==
    /\ qpc \in [Procs -> Live \cup {"idle", "ok", "err"}]
    /\ qid \in [Procs -> Ids \cup {NoId}]

QueueInit ==
    /\ qpc = [p \in Procs |-> "idle"]
    /\ qid = [p \in Procs |-> NoId]

(* messfd stays open until exit, and with it the inode number.             *)
Held(id) == \E p \in Procs : qid[p] = id
Free(id) == ~Named(files[id]) /\ ~Held(id)
FreeIds == {id \in Ids : Free(id)}
Spare(p) == IF p = Bouncer THEN 0 ELSE Reserve

Step(p, from, to) ==
    /\ qpc[p] = from
    /\ qpc' = [qpc EXCEPT ![p] = to]
    /\ UNCHANGED qid

(* _exit(): only qmail-send looks at the code, its parent waits for it.    *)
Exit(p, code) ==
    /\ qpc' = [qpc EXCEPT ![p] = IF p = Bouncer THEN code ELSE "idle"]
    /\ qid' = [qid EXCEPT ![p] = NoId]

-----------------------------------------------------------------------------
(* alarm(DEATH), then pidopen(): a fresh inode under a pid/ name.          *)
PidOpen(p) ==
    /\ qpc[p] = "idle"
    /\ Cardinality(FreeIds) > Spare(p)
    /\ \E id \in FreeIds :
          /\ qpc' = [qpc EXCEPT ![p] = "pid"]
          /\ qid' = [qid EXCEPT ![p] = id]
          /\ Create(id, "pid")
          /\ age' = [age EXCEPT ![id] = 0]
    /\ UNCHANGED <<safe, faults>>

(* die(51), die(61), die(62), die(63) of pidopen(): nothing was made.  It  *)
(* takes a fault unless the disk has no inode left.                        *)
PidOpenFails(p) ==
    /\ qpc[p] = "idle"
    /\ Exit(p, "err")
    /\ IF FreeIds = {} THEN UNCHANGED faults ELSE Fault(1)
    /\ UNCHANGED <<files, safe, sender, rcpts, undone, done, notes, age>>

(* link(pidfn,messfn)                                                      *)
LinkMess(p) ==
    /\ Step(p, "pid", "linked")
    /\ Create(qid[p], "mess")
    /\ UNCHANGED <<safe, age, faults>>

(* unlink(pidfn); flagmademess = 1                                         *)
UnlinkPid(p) ==
    /\ Step(p, "linked", "mess")
    /\ Unlink(qid[p], {"pid"})
    /\ UNCHANGED faults

(* Mutant of Fsync: the call is forgotten.                                 *)
FsyncForgotten(id, kind) == safe' = safe

Fsync(id, kind) == safe' = [safe EXCEPT ![id] = @ \cup {kind}]

(* the message from descriptor 0, flushed and fsync()ed                    *)
WriteBody(p) ==
    /\ Step(p, "mess", "body")
    /\ Fsync(qid[p], "mess")
    /\ UNCHANGED <<files, sender, rcpts, undone, done, notes, age, faults>>

(* open_excl(intdfn); flagmadeintd = 1                                     *)
OpenIntd(p) ==
    /\ Step(p, "body", "intd")
    /\ Create(qid[p], "intd")
    /\ UNCHANGED <<safe, age, faults>>

(* the envelope from descriptor 1, flushed and fsync()ed                   *)
WriteEnvelope(p, s, rs) ==
    /\ Step(p, "intd", "ready")
    /\ sender' = [sender EXCEPT ![qid[p]] = s]
    /\ rcpts' = [rcpts EXCEPT ![qid[p]] = rs]
    /\ Fsync(qid[p], "intd")
    /\ UNCHANGED <<files, undone, done, notes, age, faults>>

(* link(intdfn,todofn): the message is queued.  todo/ and intd/ are one    *)
(* file, so todo/ has on disk what intd/ has.                              *)
LinkTodo(p) ==
    /\ Step(p, "ready", "queued")
    /\ Create(qid[p], "todo")
    /\ safe' = [safe EXCEPT ![qid[p]] = IF "intd" \in @ THEN @ \cup {"todo"} ELSE @]
    /\ UNCHANGED <<age, faults>>

(* triggerpull(); return 0                                                 *)
ExitOk(p) ==
    /\ qpc[p] = "queued"
    /\ Exit(p, "ok")
    /\ UNCHANGED dirVars

-----------------------------------------------------------------------------
(* What cleanup() may have unlinked when it returns, given the flags:      *)
(* intd/ before mess/, and it stops at the first unlink() that fails.      *)
(* (It also truncates each file first; nobody reads what stays behind.)    *)
CleanedUp(p) ==
    IF qpc[p] = "mess" THEN {{}, {"mess"}} ELSE {{}, {"intd"}, {"intd", "mess"}}

(* die_read(), die_write(): the client went away or a write failed, while  *)
(* the message or the envelope was being copied; cleanup() and exit.  Each *)
(* unlink() that fails is a fault; the death itself is one unless it is    *)
(* the client's decision to stop.                                          *)
DieCleaning(p) ==
    /\ qpc[p] \in {"mess", "intd"}
    /\ \E ks \in CleanedUp(p) :
          /\ Unlink(qid[p], ks)
          /\ IF "mess" \in ks /\ p \in Clients THEN UNCHANGED faults ELSE Fault(1)
    /\ Exit(p, "err")

(* die(63), die(64), die(65), die(66), die(11), die(91), sigbug() and a    *)
(* kill: "thou shalt not clean up" after these either.                     *)
DieLeaving(p) ==
    /\ qpc[p] \in Live
    /\ Fault(1)
    /\ Exit(p, "err")
    /\ UNCHANGED <<files, safe, sender, rcpts, undone, done, notes, age>>

(* sigalrm(): DEATH ticks after the alarm was set, wherever the process    *)
(* is, even after it has queued the message.                               *)
Alarm(p) ==
    /\ qpc[p] \in Live
    /\ age[qid[p]] >= DEATH
    /\ Exit(p, "err")
    /\ UNCHANGED dirVars

-----------------------------------------------------------------------------
(* The files a process has made and still counts on.                       *)
Needs(p) ==
    CASE qpc[p] \in {"linked", "mess", "body"} -> {"mess"}
      [] qpc[p] \in {"intd", "ready"}          -> {"mess", "intd"}
      [] OTHER                                 -> {}

(* No two processes work on one number, and nobody - not cleanup_do() of   *)
(* qmail-send, not a late request to qmail-clean - removes a file of a     *)
(* qmail-queue that is still alive.                                        *)
LiveInjectorSafe ==
    \A p \in Procs : qpc[p] \in Live =>
        /\ qid[p] \in Ids
        /\ Needs(p) \subseteq files[qid[p]]
        /\ \A q \in Procs : qid[q] = qid[p] => q = p
=============================================================================
