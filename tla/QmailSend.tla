----------------------------- MODULE QmailSend ------------------------------
(***************************************************************************)
(* qmail-send.c: the scheduler.  A single process whose main loop calls    *)
(* comm_do, del_do, todo_do, pass_do and cleanup_do in turn; each call     *)
(* does at most one of the actions below, and what a call leaves           *)
(* unfinished it finds again in a later round.  The process blocks in two  *)
(* places only: for an answer of qmail-clean and for the qmail-queue that  *)
(* injectbounce() runs.  Handlers that wait there are split at the wait.   *)
(*                                                                         *)
(* Times are left out: any entry of a priority queue may have become due.  *)
(***************************************************************************)
EXTENDS QueueDir

CONSTANTS Concurrency,  \* Concurrency[c]: concurrency[c] of the source
          NoRecip,      \* not a recipient record
          StatFails     \* may stat() fail while messages are being pqadded?

ASSUME ConcurrencyAssumption == Concurrency \in [Channels -> Nat]
ASSUME NoRecipAssumption == NoRecip \notin Recips
ASSUME StatFailsAssumption == StatFails \in BOOLEAN

Jobs == 1 .. Concurrency["local"] + Concurrency["remote"]
Slots(c) == 1 .. Concurrency[c]

VARIABLES send,        \* where the process is: down, loop, clean or inject
          work,        \* why it waits, and for which message
          pqchan,      \* pqchan[c][id]: entries for id in pqchan[c]
          pqdone,      \* pqdone[id]: entries for id in pqdone
          pqfail,      \* pqfail[id]: entries for id in pqfail
          jo,          \* jo[j]: the job table
          pass,        \* pass[c]: the channel file being read
          del,         \* del[c][i]: the delivery slots, d[c][i]
          spawnalive,  \* flagspawnalive[c]
          exitasap,    \* flagexitasap
          old          \* old[id]: the message has outlived queuelifetime

sendVars == <<send, work, pqchan, pqdone, pqfail, jo, pass, del, spawnalive,
              exitasap, old>>

NoWork == [why |-> "none", id |-> NoId]
NoJob  == [refs |-> 0, id |-> NoId, channel |-> "local", numtodo |-> 0,
           hiteof |-> FALSE, dying |-> FALSE]
NoPass == [j |-> 0, left |-> {}]
NoDel  == [j |-> 0, recip |-> NoRecip, st |-> "unused"]

JobRecords == [refs : Nat, id : Ids \cup {NoId}, channel : Channels,
               numtodo : Int, hiteof : BOOLEAN, dying : BOOLEAN]
PassRecords == {NoPass} \cup [j : Jobs, left : SUBSET Recips]
InUse == {"comm", "spawn", "K", "Z", "D"}
DelRecords == {NoDel} \cup [j : Jobs, recip : Recips, st : InUse]

DelTypeOK(d) ==
    /\ DOMAIN d = Channels
    /\ \A c \in Channels : d[c] \in [Slots(c) -> DelRecords]

SendTypeOK ==
    /\ send \in {"down", "loop", "clean", "inject"}
    /\ work \in [why : {"none", "todo", "done", "cleanup", "bounce"},
                 id : Ids \cup {NoId}]
    /\ pqchan \in [Channels -> [Ids -> Nat]]
    /\ pqdone \in [Ids -> Nat]
    /\ pqfail \in [Ids -> Nat]
    /\ jo \in [Jobs -> JobRecords]
    /\ pass \in [Channels -> PassRecords]
    /\ DelTypeOK(del)
    /\ spawnalive \in [Channels -> BOOLEAN]
    /\ exitasap \in BOOLEAN
    /\ old \in [Ids -> BOOLEAN]

(* Before pqstart(): an empty memory.                                      *)
SendInit ==
    /\ send = "down"
    /\ work = NoWork
    /\ pqchan = [c \in Channels |-> [id \in Ids |-> 0]]
    /\ pqdone = [id \in Ids |-> 0]
    /\ pqfail = [id \in Ids |-> 0]
    /\ jo = [j \in Jobs |-> NoJob]
    /\ pass = [c \in Channels |-> NoPass]
    /\ del = [c \in Channels |-> [i \in Slots(c) |-> NoDel]]
    /\ spawnalive = [c \in Channels |-> TRUE]
    /\ exitasap = FALSE
    /\ old = [id \in Ids |-> FALSE]

contents == <<sender, rcpts, undone, done, notes>>
queues == <<pqchan, pqdone, pqfail>>
tables == <<jo, pass, del>>
flags == <<spawnalive, exitasap, old>>

Other(c) == IF c = "local" THEN "remote" ELSE "local"
Least(S) == CHOOSE x \in S : \A y \in S : x <= y
Push(pq, id) == [pq EXCEPT ![id] = @ + 1]
Pop(pq, id) == [pq EXCEPT ![id] = @ - 1]

Wait(where, why, id) == send' = where /\ work' = [why |-> why, id |-> id]
Resume == send' = "loop" /\ work' = NoWork

-----------------------------------------------------------------------------
(* Priority queues: pqadd(), pqstart() and the retry of pass_do().         *)

(* Mutant of Addable: todo/ is not looked for.                             *)
AddableAnyway(id) == Has(id, "info")

(* pqadd() goes on past its first two stat()s: info/ exists, todo/ does    *)
(* not ("look, ma, dad crashed writing info!").                            *)
Addable(id) == Has(id, "info") /\ ~Has(id, "todo")

(* What pqadd(id) inserts for each id of S when no stat() fails.           *)
AddChan(S) == [c \in Channels |-> [id \in Ids |->
                 IF id \in S /\ Addable(id) /\ Has(id, c)
                 THEN pqchan[c][id] + 1 ELSE pqchan[c][id]]]
AddDone(S) == [id \in Ids |->
                 IF id \in S /\ Addable(id) /\ ~HasChannel(id)
                 THEN pqdone[id] + 1 ELSE pqdone[id]]

(* Mutant of Postponed: a message whose stat() failed is forgotten.        *)
PostponedNever(bad) == [id \in Ids |-> 0]

(* pqadd() of the messages of bad fails: they wait in pqfail.              *)
Postponed(bad) == [id \in Ids |-> IF id \in bad THEN 1 ELSE 0]

(* main() up to the loop: pqstart() reads info/ and adds every message it  *)
(* finds.  A failing stat() puts the message in pqfail instead.            *)
Start ==
    /\ send = "down"
    /\ Resume
    /\ \E bad \in SUBSET {id \in Ids : StatFails /\ Has(id, "info")} :
          /\ Fault(Cardinality(bad))
          /\ pqfail' = Postponed(bad)
          /\ pqchan' = AddChan({id \in Ids : Has(id, "info")} \ bad)
          /\ pqdone' = AddDone({id \in Ids : Has(id, "info")} \ bad)
    /\ UNCHANGED <<tables, flags>>
    /\ UNCHANGED <<files, safe, age, contents>>

(* pass_do(): the next entry of pqfail is pqadded again.                   *)
RetryFailed(id) ==
    /\ send = "loop"
    /\ pqfail[id] > 0
    /\ pqfail' = Pop(pqfail, id)
    /\ pqchan' = AddChan({id})
    /\ pqdone' = AddDone({id})
    /\ UNCHANGED <<send, work, tables, flags>>
    /\ UNCHANGED dirVars

-----------------------------------------------------------------------------
(* Mutant of AllDone: deferred recipients are not counted.                 *)
AtEof(job) == job.hiteof

(* The job has read its channel file to the end, and nothing is left of it.*)
AllDone(job) == job.hiteof /\ job.numtodo = 0

(* "more channels going"                                                   *)
MoreChannels(names, c) == Other(c) \in names

(* Jobs.  job_close() as the last thing a handler does with job j: `job`   *)
(* is jo[j] as the handler has changed it, fl, un and dn are files, undone *)
(* and done likewise, f the calls that have already failed.                *)

(* The last reference to a job whose channel file has nothing left.        *)
Closable(job, fl) == job.refs = 1 /\ AllDone(job) /\ job.channel \in fl[job.id]

(* Other references remain, or there is work left, or (a fault) the        *)
(* channel file cannot be unlinked: the message goes back to pqchan with   *)
(* the last reference.                                                     *)
GoesOn(job, fl, un, dn, f) ==
    /\ pqchan' = IF job.refs > 1 THEN pqchan
                 ELSE [pqchan EXCEPT ![job.channel] = Push(@, job.id)]
    /\ files' = fl
    /\ undone' = un
    /\ done' = dn
    /\ Fault(IF Closable(job, fl) THEN f + 1 ELSE f)
    /\ UNCHANGED <<safe, pqdone>>

(* The channel file is removed.  The message goes to pqdone unless the     *)
(* other channel file is there; a failing stat() cannot tell.              *)
ChannelEnds(job, fl, un, dn, f) ==
    /\ Closable(job, fl)
    /\ files' = [fl EXCEPT ![job.id] = @ \ {job.channel}]
    /\ safe' = [safe EXCEPT ![job.id] = @ \ {job.channel}]
    /\ undone' = [un EXCEPT ![job.id] = Without(@, {job.channel})]
    /\ done' = [dn EXCEPT ![job.id] = Without(@, {job.channel})]
    /\ \/ /\ pqdone' = IF MoreChannels(fl[job.id], job.channel) THEN pqdone
                        ELSE Push(pqdone, job.id)
          /\ Fault(f)
       \/ /\ MoreChannels(fl[job.id], job.channel)
          /\ pqdone' = Push(pqdone, job.id)
          /\ Fault(f + 1)
    /\ UNCHANGED pqchan

JobClose(j, job, fl, un, dn, f) ==
    /\ jo' = [jo EXCEPT ![j] = IF job.refs > 1 THEN [job EXCEPT !.refs = @ - 1]
                               ELSE NoJob]
    /\ GoesOn(job, fl, un, dn, f) \/ ChannelEnds(job, fl, un, dn, f)

-----------------------------------------------------------------------------
(* Passes: pass_dochan().                                                  *)

JobsFree == {j \in Jobs : jo[j].refs = 0}
SlotsFree(c) == {i \in Slots(c) : del[c][i] = NoDel}

(* The command buffer of the channel is empty, and a slot is unused.       *)
DelAvail(c) ==
    /\ spawnalive[c]
    /\ \A i \in Slots(c) : del[c][i].st # "comm"
    /\ SlotsFree(c) # {}

(* A new pass takes an entry of pqchan, opens the channel file and opens a *)
(* job for it.  When the file or info/ cannot be opened the entry goes     *)
(* back for a later try: nothing changes.  `left` holds the records that   *)
(* are still to be read.                                                   *)
PassOpen(c, id) ==
    /\ send = "loop" /\ ~exitasap
    /\ pass[c] = NoPass
    /\ JobsFree # {}
    /\ pqchan[c][id] > 0
    /\ {c, "info"} \subseteq files[id]
    /\ LET j == Least(JobsFree) IN
          /\ pass' = [pass EXCEPT ![c] = [j |-> j, left |-> undone[id][c] \cup done[id][c]]]
          /\ jo' = [jo EXCEPT ![j] =
                [refs |-> 1, id |-> id, channel |-> c, numtodo |-> 0,
                 hiteof |-> FALSE, dying |-> old[id]]]
    /\ pqchan' = [pqchan EXCEPT ![c] = Pop(@, id)]
    /\ UNCHANGED <<send, work, pqdone, pqfail, del, flags>>
    /\ UNCHANGED dirVars

(* D records are skipped.                                                  *)
LeftToDo(c) == pass[c].left \cap undone[jo[pass[c].j].id][c]

(* Mutant of Referred: the delivery does not count as a reference.         *)
ReferredNot(job) == [job EXCEPT !.numtodo = @ + 1]

Referred(job) == [job EXCEPT !.numtodo = @ + 1, !.refs = @ + 1]

(* A T record: del_start() takes the first free slot, which refers to the  *)
(* job, and puts the command in the buffer of the channel.                 *)
PassDeliver(c) ==
    /\ send = "loop" /\ ~exitasap
    /\ pass[c] # NoPass
    /\ DelAvail(c)
    /\ \E r \in LeftToDo(c) :
          /\ pass' = [pass EXCEPT ![c].left = @ \ {r}]
          /\ del' = [del EXCEPT ![c][Least(SlotsFree(c))] =
                        [j |-> pass[c].j, recip |-> r, st |-> "comm"]]
    /\ jo' = [jo EXCEPT ![pass[c].j] = Referred(@)]
    /\ UNCHANGED <<send, work, queues, flags>>
    /\ UNCHANGED dirVars

(* The end of the file, or (a fault) an error while reading it: the pass   *)
(* gives up its reference to the job.                                      *)
PassClose(c) ==
    /\ send = "loop" /\ ~exitasap
    /\ pass[c] # NoPass
    /\ DelAvail(c)
    /\ LET j == pass[c].j IN
          \/ /\ LeftToDo(c) = {}
             /\ JobClose(j, [jo[j] EXCEPT !.hiteof = TRUE], files, undone, done, 0)
          \/ JobClose(j, jo[j], files, undone, done, 1)
    /\ pass' = [pass EXCEPT ![c] = NoPass]
    /\ UNCHANGED <<send, work, pqfail, del, flags>>
    /\ UNCHANGED <<sender, rcpts, notes, age>>

-----------------------------------------------------------------------------
(* Deliveries.                                                             *)

(* comm_do(): the buffered command has been written to qmail-lspawn or     *)
(* qmail-rspawn.                                                           *)
CommWrite(c, i) ==
    /\ send = "loop"
    /\ spawnalive[c]
    /\ del[c][i].st = "comm"
    /\ del' = [del EXCEPT ![c][i].st = "spawn"]
    /\ UNCHANGED <<send, work, queues, jo, pass, flags>>
    /\ UNCHANGED dirVars

(* The delivery agent ends, and its spawner writes the report: success,    *)
(* deferral or failure (spawn.c, report() of qmail-lspawn and -rspawn).    *)
Deliver(c, i, result) ==
    /\ del[c][i].st = "spawn"
    /\ del' = [del EXCEPT ![c][i].st = result]
    /\ UNCHANGED <<send, work, queues, jo, pass, flags>>
    /\ UNCHANGED dirVars

(* Mutant of Verdict: queuelifetime is not enforced.                       *)
VerdictOfAgent(result, dying) == result

(* A deferral of a dying message is a failure.                             *)
Verdict(result, dying) == IF result = "Z" /\ dying THEN "D" ELSE result

(* Mutant of MarkDone: the record keeps its T.                             *)
MarkForgotten(todo, id, c, r) == todo

(* markdone(): the T of the record becomes a D.                            *)
MarkDone(todo, id, c, r) == [todo EXCEPT ![id][c] = @ \ {r}]

(* del_dochan() reads a report.  addbounce() retries until it has         *)
(* appended; markdone() may fail, "message will be delivered twice".       *)
DelReport(c, i) ==
    LET d == del[c][i]
        job == jo[d.j]
        id == job.id
        verdict == Verdict(d.st, job.dying)
    IN
    /\ send = "loop"
    /\ spawnalive[c]
    /\ d.st \in {"K", "Z", "D"}
    /\ del' = [del EXCEPT ![c][i] = NoDel]
    /\ IF verdict = "Z"
       THEN /\ JobClose(d.j, job, files, undone, done, 0)
            /\ UNCHANGED notes
       ELSE \E ok \in BOOLEAN :
            /\ JobClose(d.j, [job EXCEPT !.numtodo = @ - 1],
                        IF verdict = "D" THEN [files EXCEPT ![id] = @ \cup {"bounce"}] ELSE files,
                        IF ok THEN MarkDone(undone, id, c, d.recip) ELSE undone,
                        IF ok THEN [done EXCEPT ![id][c] = @ \cup {d.recip}] ELSE done,
                        IF ok THEN 0 ELSE 1)
            /\ notes' = IF verdict = "D" THEN [notes EXCEPT ![id] = @ \cup {d.recip}] ELSE notes
    /\ UNCHANGED <<send, work, pqfail, pass, flags>>
    /\ UNCHANGED <<sender, rcpts, age>>

-----------------------------------------------------------------------------
(* The end of a message: messdone() and injectbounce().                    *)

(* -todo +info -local -remote                                              *)
Finished(id) == Addable(id) /\ ~HasChannel(id)
Triple(id) == sender[id] = "triple"

(* messdone() takes the first entry of pqdone.  Failing stat()s put it     *)
(* back and change nothing.                                                *)
TakeDone(id) ==
    /\ send = "loop"
    /\ pqdone[id] > 0

(* "false alarm; consequence of HOPEFULLY"                                 *)
MessDoneReturns(id) ==
    /\ TakeDone(id)
    /\ ~Finished(id)
    /\ pqdone' = Pop(pqdone, id)
    /\ UNCHANGED <<send, work, pqchan, pqfail, tables, flags>>
    /\ UNCHANGED dirVars

(* There are failures to report: injectbounce() starts a qmail-queue and   *)
(* waits for it.                                                           *)
MessDoneBounces(id) ==
    /\ TakeDone(id)
    /\ Finished(id)
    /\ Has(id, "bounce") /\ ~Triple(id)
    /\ pqdone' = Pop(pqdone, id)
    /\ Wait("inject", "bounce", id)
    /\ UNCHANGED <<pqchan, pqfail, tables, flags>>
    /\ UNCHANGED dirVars

(* messdone() after injectbounce(): bounce/ is removed by injectbounce(),  *)
(* then info/, then qmail-clean is asked for the rest.                     *)
EndMess(id) ==
    /\ Unlink(id, {"bounce", "info"})
    /\ Wait("clean", "done", id)
    /\ old' = [old EXCEPT ![id] = FALSE]
    /\ UNCHANGED <<tables, spawnalive, exitasap, pqchan, pqfail, faults>>

(* One of the two unlink()s fails: a later messdone() starts again.        *)
EndMessFails(id, pq) ==
    /\ \E ks \in {{}, {"bounce"}} : ks \subseteq files[id] /\ Unlink(id, ks)
    /\ Fault(1)
    /\ Resume
    /\ pqdone' = Push(pq, id)
    /\ UNCHANGED <<pqchan, pqfail, tables, flags>>

(* No failure to report, or a triple bounce that is discarded.             *)
MessDoneEnds(id) ==
    /\ TakeDone(id)
    /\ Finished(id)
    /\ ~Has(id, "bounce") \/ Triple(id)
    /\ pqdone' = Pop(pqdone, id)
    /\ EndMess(id)

MessDoneFails(id) ==
    /\ TakeDone(id)
    /\ Finished(id)
    /\ ~Has(id, "bounce") \/ Triple(id)
    /\ EndMessFails(id, Pop(pqdone, id))

(* qmail_close(): qmail-queue has exited 0 ...                             *)
BounceAccepted(id) ==
    /\ send = "inject" /\ work.id = id
    /\ EndMess(id)
    /\ UNCHANGED pqdone

BounceAcceptedFails(id) ==
    /\ send = "inject" /\ work.id = id
    /\ EndMessFails(id, pqdone)

(* Mutant of BounceRefused: the exit code is ignored.                      *)
BounceAssumed(id) ==
    /\ send = "inject" /\ work.id = id
    /\ EndMess(id)
    /\ UNCHANGED pqdone

(* ... or with an error: "will try later".                                 *)
BounceRefused(id) ==
    /\ send = "inject" /\ work.id = id
    /\ pqdone' = Push(pqdone, id)
    /\ Resume
    /\ UNCHANGED <<pqchan, pqfail, tables, flags>>
    /\ UNCHANGED dirVars

-----------------------------------------------------------------------------
(* Preprocessing: todo_do().                                               *)

Preprocessable(id) == send = "loop" /\ ~exitasap /\ Has(id, "todo")

(* What the C loop removes and makes anew for a message: the two channel   *)
(* files and info/.                                                        *)
Remade == {"info"} \cup Channels

(* Every step succeeds: stale files of an interrupted run are removed,     *)
(* rewrite() sends each recipient to a channel, info/ and the channel      *)
(* files in use are written and fsync()ed, and qmail-clean is asked to     *)
(* remove intd/ and todo/.                                                 *)
Preprocess(id) ==
    /\ Preprocessable(id)
    /\ \E route \in [rcpts[id] -> Channels] :
          LET made == {"info"} \cup {route[r] : r \in rcpts[id]} IN
          /\ files' = [files EXCEPT ![id] = (@ \ Remade) \cup made]
          /\ safe' = [safe EXCEPT ![id] = (@ \ Remade) \cup made]
          /\ undone' = [undone EXCEPT ![id] =
                          [c \in Channels |-> {r \in rcpts[id] : route[r] = c}]]
          /\ done' = [done EXCEPT ![id] = NoRecords]
    /\ old' = [old EXCEPT ![id] = FALSE]
    /\ Wait("clean", "todo", id)
    /\ UNCHANGED <<queues, tables, spawnalive, exitasap>>
    /\ UNCHANGED <<sender, rcpts, notes, age, faults>>

(* Some call of todo_do() fails: among the unlink()s, or when info/ and    *)
(* perhaps channel files have been made anew, none of them complete.  The  *)
(* message stays in todo/.                                                 *)
PreprocessFails(id) ==
    /\ Preprocessable(id)
    /\ \/ \E gone \in {{}, {"local"}, Channels, Remade} : Unlink(id, gone)
       \/ \E cs \in SUBSET Channels :
             /\ Cardinality(cs) <= Cardinality(rcpts[id])
             /\ files' = [files EXCEPT ![id] = (@ \ Remade) \cup {"info"} \cup cs]
             /\ safe' = [safe EXCEPT ![id] = @ \ Remade]
             /\ undone' = [undone EXCEPT ![id] = NoRecords]
             /\ done' = [done EXCEPT ![id] = NoRecords]
             /\ UNCHANGED <<sender, rcpts, notes, age>>
    /\ Fault(1)
    /\ UNCHANGED sendVars

(* "+": todo/ is gone, the message can be delivered.  The channels are     *)
(* those todo_do() has just written to.                                    *)
Preprocessed ==
    LET id == work.id IN
    /\ send = "clean" /\ work.why = "todo"
    /\ Resume
    /\ pqchan' = [c \in Channels |-> IF Has(id, c) THEN Push(pqchan[c], id) ELSE pqchan[c]]
    /\ pqdone' = IF HasChannel(id) THEN pqdone ELSE Push(pqdone, id)
    /\ UNCHANGED <<pqfail, tables, flags>>
    /\ UNCHANGED dirVars

-----------------------------------------------------------------------------
(* The other uses of qmail-clean.                                          *)

(* Mutant of Ossified: a process may still be alive at that age.           *)
OldEnough(id) == age[id] >= DEATH

Ossified(id) == age[id] > OSSIFIED

(* Mutant of Leftover: only S2, not S3.                                    *)
LeftoverMess(id) == files[id] = {"mess"}

Leftover(id) == Has(id, "mess") /\ ~Has(id, "info") /\ ~Has(id, "todo")

(* cleanup_do(): the scan of mess/ has come to an old file without info/   *)
(* and todo/: the leftover of a dead qmail-queue or of a finished message. *)
Cleanup(id) ==
    /\ send = "loop"
    /\ Leftover(id) /\ Ossified(id)
    /\ Wait("clean", "cleanup", id)
    /\ UNCHANGED <<queues, tables, flags>>
    /\ UNCHANGED dirVars

(* An answer that changes nothing: "!" always, "+" except for todo_do().   *)
Answered(answer) ==
    /\ send = "clean"
    /\ answer = "!" \/ work.why # "todo"
    /\ Resume
    /\ UNCHANGED <<queues, tables, flags>>
    /\ UNCHANGED dirVars

(* cleandied()                                                             *)
CleanDied ==
    /\ send = "clean"
    /\ Resume
    /\ exitasap' = TRUE
    /\ UNCHANGED <<queues, tables, spawnalive, old>>
    /\ UNCHANGED dirVars

-----------------------------------------------------------------------------
(* Flags.                                                                  *)

(* recent > birth + lifetime, from some time on                            *)
Expire(id) ==
    /\ Has(id, "info") /\ ~old[id]
    /\ old' = [old EXCEPT ![id] = TRUE]
    /\ UNCHANGED <<send, work, queues, tables, spawnalive, exitasap>>
    /\ UNCHANGED dirVars

(* sigterm()                                                               *)
Term ==
    /\ send # "down" /\ ~exitasap
    /\ Fault(1)
    /\ exitasap' = TRUE
    /\ UNCHANGED <<send, work, queues, tables, spawnalive, old>>
    /\ UNCHANGED <<files, safe, age, contents>>

(* spawndied(c): the spawner of a channel is gone; what it was delivering  *)
(* will never be reported.                                                 *)
SpawnDied(c) ==
    /\ send = "loop" /\ spawnalive[c]
    /\ Fault(1)
    /\ spawnalive' = [spawnalive EXCEPT ![c] = FALSE]
    /\ exitasap' = TRUE
    /\ UNCHANGED <<send, work, queues, tables, old>>
    /\ UNCHANGED <<files, safe, age, contents>>

(* The condition of the main loop, del_canexit().                          *)
CanExit == \A c \in Channels : spawnalive[c] => SlotsFree(c) = Slots(c)

(* The memory of the process is gone; qmail-start is started again.        *)
Forget ==
    /\ send' = "down"
    /\ work' = NoWork
    /\ pqchan' = [c \in Channels |-> [id \in Ids |-> 0]]
    /\ pqdone' = [id \in Ids |-> 0]
    /\ pqfail' = [id \in Ids |-> 0]
    /\ jo' = [j \in Jobs |-> NoJob]
    /\ pass' = [c \in Channels |-> NoPass]
    /\ del' = [c \in Channels |-> [i \in Slots(c) |-> NoDel]]
    /\ spawnalive' = [c \in Channels |-> TRUE]
    /\ exitasap' = FALSE
    /\ UNCHANGED old

SendExit ==
    /\ send = "loop"
    /\ exitasap /\ CanExit
    /\ Forget
    /\ UNCHANGED dirVars
=============================================================================
