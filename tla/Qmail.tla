------------------------------- MODULE Qmail --------------------------------
(***************************************************************************)
(* The mail queue: qmail-queue processes, qmail-send and qmail-clean on    *)
(* one queue directory, the two pipes between qmail-send and qmail-clean,  *)
(* the qmail-queue that injectbounce() waits for, the clock that ages      *)
(* leftovers, and crashes of the machine followed by restarts.             *)
(***************************************************************************)
EXTENDS QmailQueue, QmailClean, QmailSend, TLC

CONSTANT TimePasses   \* does the clock run?

ASSUME TimePassesAssumption == TimePasses \in BOOLEAN

(* History of a message number since its file mess/ was made.              *)
VARIABLES copies,   \* copies[id][r]: times recipient r was delivered to
          noted,    \* noted[id]: recipients ever reported in bounce/
          heard     \* heard[id]: recipients in a bounce that is queued

history == <<copies, noted, heard>>
vars == <<dirVars, queueVars, cleanVars, sendVars, history>>

NoCopies == [r \in Recips |-> 0]

HistoryTypeOK ==
    /\ copies \in [Ids -> [Recips -> Nat]]
    /\ noted \in [Ids -> SUBSET Recips]
    /\ heard \in [Ids -> SUBSET Recips]

TypeOK == DirTypeOK /\ QueueTypeOK /\ CleanTypeOK /\ SendTypeOK /\ HistoryTypeOK

Init ==
    /\ DirInit /\ QueueInit /\ CleanInit /\ SendInit
    /\ copies = [id \in Ids |-> NoCopies]
    /\ noted = [id \in Ids |-> {}]
    /\ heard = [id \in Ids |-> {}]

-----------------------------------------------------------------------------
(* qmail-queue.  The Bouncer runs while qmail-send waits in injectbounce().*)

Runs(p) == p \in Clients \/ send = "inject"

Inject(p) ==
    /\ Runs(p)
    /\ \/ PidOpen(p) \/ LinkMess(p) \/ UnlinkPid(p)
       \/ WriteBody(p) \/ OpenIntd(p) \/ ExitOk(p)
    /\ UNCHANGED <<cleanVars, sendVars, history>>

InjectFails(p) ==
    /\ Runs(p)
    /\ PidOpenFails(p) \/ DieCleaning(p) \/ DieLeaving(p) \/ Alarm(p)
    /\ UNCHANGED <<cleanVars, sendVars, history>>

(* A client names any sender and recipients; injectbounce() the sender of  *)
(* a bounce, or of a double bounce, and one recipient.                     *)
Envelope(p) ==
    /\ IF p = Bouncer
       THEN \E r \in Recips :
              WriteEnvelope(p, IF sender[work.id] = "user" THEN "null" ELSE "triple", {r})
       ELSE \E s \in ClientSenders, rs \in SUBSET Recips : WriteEnvelope(p, s, rs)
    /\ UNCHANGED <<cleanVars, sendVars, history>>

Queue(p) ==
    /\ LinkTodo(p)
    /\ heard' = IF p = Bouncer THEN [heard EXCEPT ![work.id] = notes[work.id]] ELSE heard
    /\ UNCHANGED <<cleanVars, sendVars, copies, noted>>

-----------------------------------------------------------------------------
(* qmail-send and qmail-clean.                                             *)

(* The handlers of qmail-send that involve no other process.               *)
SendAlone ==
    /\ \/ Start
       \/ \E id \in Ids :
             \/ RetryFailed(id) \/ MessDoneReturns(id) \/ MessDoneBounces(id)
             \/ MessDoneFails(id) \/ PreprocessFails(id) \/ Expire(id)
       \/ \E c \in Channels : PassDeliver(c) \/ PassClose(c) \/ SpawnDied(c)
       \/ \E c \in Channels, id \in Ids : PassOpen(c, id)
       \/ \E c \in Channels : \E i \in Slots(c) : CommWrite(c, i)
       \/ Term
    /\ UNCHANGED <<queueVars, cleanVars, history>>

Report(c, i) ==
    /\ DelReport(c, i)
    /\ noted' = [id \in Ids |-> noted[id] \cup notes'[id]]
    /\ UNCHANGED <<queueVars, cleanVars, copies, heard>>

Delivery(c, i, result) ==
    /\ Deliver(c, i, result)
    /\ copies' = IF result = "K"
                 THEN [copies EXCEPT ![jo[del[c][i].j].id][del[c][i].recip] = @ + 1]
                 ELSE copies
    /\ UNCHANGED <<queueVars, cleanVars, noted, heard>>

(* The handlers that send a request to qmail-clean.                        *)
Ask(id) ==
    /\ \/ Preprocess(id) /\ PutRequest("todo", id)
       \/ MessDoneEnds(id) /\ PutRequest("foop", id)
       \/ Cleanup(id) /\ PutRequest("foop", id)
    /\ UNCHANGED <<queueVars, history>>

(* ... and what they do with the answer.                                   *)
Answer ==
    /\ \/ Preprocessed /\ TakeReply("+")
       \/ \E answer \in {"+", "!"} : Answered(answer) /\ TakeReply(answer)
       \/ CleanDied /\ ReplyEof /\ UNCHANGED cleanVars
    /\ UNCHANGED <<queueVars, history>>

(* The qmail-queue of injectbounce() has exited; qmail_close() reaps it.   *)
Reap ==
    /\ qpc' = [qpc EXCEPT ![Bouncer] = "idle"]
    /\ UNCHANGED qid

BounceOver(id) ==
    /\ \/ /\ qpc[Bouncer] = "ok" /\ BounceAccepted(id)
          /\ PutRequest("foop", id)
       \/ /\ qpc[Bouncer] = "ok" /\ BounceAcceptedFails(id)
          /\ UNCHANGED cleanVars
       \/ /\ qpc[Bouncer] = "err" /\ BounceRefused(id)
          /\ UNCHANGED cleanVars
    /\ Reap
    /\ heard' = [heard EXCEPT ![id] = {}]
    /\ UNCHANGED <<copies, noted>>

(* The history of a number ends with its file mess/.                       *)
Clean ==
    /\ CleanNext
    /\ UNCHANGED <<queueVars, sendVars>>
    /\ copies' = [id \in Ids |-> IF "mess" \in files'[id] THEN copies[id] ELSE NoCopies]
    /\ noted' = [id \in Ids |-> IF "mess" \in files'[id] THEN noted[id] ELSE {}]
    /\ UNCHANGED heard

-----------------------------------------------------------------------------
(* Restarts, crashes and the clock.                                        *)

(* qmail-clean sees end of file when qmail-send exits, and is started anew *)
(* with it.                                                                *)
CleanRestarts == cpc' = "top" /\ creq' = NoRequest /\ creply' = "none" /\ cloop' = 0

Exits ==
    /\ SendExit
    /\ CleanRestarts
    /\ UNCHANGED <<queueVars, history>>

(* The machine stops.  Names are on disk; a D mark or a line of bounce/,   *)
(* which nobody fsync()ed, may be lost.                                    *)
Marks == {m \in Ids \X Channels \X Recips : m[3] \in done[m[1]][m[2]]}
Lines == {l \in Ids \X Recips : l[2] \in notes[l[1]]}

Crash ==
    /\ Fault(1)
    /\ \E lost \in SUBSET Marks :
          /\ undone' = [id \in Ids |-> [c \in Channels |->
                          undone[id][c] \cup {r \in Recips : <<id, c, r>> \in lost}]]
          /\ done' = [id \in Ids |-> [c \in Channels |->
                          done[id][c] \ {r \in Recips : <<id, c, r>> \in lost}]]
    /\ \E lost \in SUBSET Lines :
          notes' = [id \in Ids |-> notes[id] \ {r \in Recips : <<id, r>> \in lost}]
    /\ qpc' = [p \in Procs |-> "idle"]
    /\ qid' = [p \in Procs |-> NoId]
    /\ Forget
    /\ CleanRestarts
    /\ heard' = [id \in Ids |-> {}]
    /\ UNCHANGED <<files, safe, sender, rcpts, age, copies, noted>>

(* A tick of the clock.  No process outlives its alarm.  A tick is long:   *)
(* the two calls that turn a pid/ name into a mess/ name, and a bounce     *)
(* that qmail-send feeds to its qmail-queue, take less.  What a process    *)
(* may wait for without end is its client.                                 *)
MayTake(p) == p \in Clients /\ qpc[p] \notin {"pid", "linked"} /\ age[qid[p]] < DEATH

Tick ==
    /\ TimePasses
    /\ \A p \in Procs : qpc[p] \in Live => MayTake(p)
    /\ age' = [id \in Ids |-> IF ~Named(files[id]) /\ ~Held(id) THEN 0
                              ELSE IF age[id] <= OSSIFIED THEN age[id] + 1
                              ELSE age[id]]
    /\ UNCHANGED <<files, safe, sender, rcpts, undone, done, notes, faults>>
    /\ UNCHANGED <<queueVars, cleanVars, sendVars, history>>

Next ==
    \/ \E p \in Procs : Inject(p) \/ InjectFails(p) \/ Envelope(p) \/ Queue(p)
    \/ SendAlone
    \/ \E c \in Channels : \E i \in Slots(c) :
          Report(c, i) \/ \E result \in {"K", "Z", "D"} : Delivery(c, i, result)
    \/ \E id \in Ids : Ask(id) \/ BounceOver(id)
    \/ Answer \/ Clean \/ Exits \/ Crash \/ Tick

Spec == Init /\ [][Next]_vars

(* What keeps going.  Weak fairness: the processes run, qmail-start is     *)
(* started again, the clock ticks, an agent ends.  A client may keep a     *)
(* qmail-queue waiting: its alarm ends it.  Strong fairness for the work   *)
(* on each message: the main loop of qmail-send comes back to every        *)
(* handler and to its exit condition, however often another handler made   *)
(* it wait in between, and a priority queue serves each entry in the end,  *)
(* since what is put back is put back with a later time.                   *)
SlotServes(c, i, id) == del[c][i] # NoDel /\ jo[del[c][i].j].id = id
PassServes(c, id) == pass[c] # NoPass /\ jo[pass[c].j].id = id

WorkOn(id) ==
    \/ Ask(id)
    \/ /\ \/ MessDoneBounces(id) \/ MessDoneReturns(id) \/ RetryFailed(id)
          \/ \E c \in Channels :
                \/ PassOpen(c, id)
                \/ PassServes(c, id) /\ (PassDeliver(c) \/ PassClose(c))
                \/ \E i \in Slots(c) : SlotServes(c, i, id) /\ CommWrite(c, i)
       /\ UNCHANGED <<queueVars, cleanVars, history>>
    \/ \E c \in Channels : \E i \in Slots(c) : SlotServes(c, i, id) /\ Report(c, i)

Waiting ==
    \/ Start /\ UNCHANGED <<queueVars, cleanVars, history>>
    \/ Answer \/ \E id \in Ids : BounceOver(id)

BouncerRuns == Inject(Bouncer) \/ InjectFails(Bouncer) \/ Envelope(Bouncer) \/ Queue(Bouncer)

Fairness ==
    /\ SF_vars(Exits)
    /\ WF_vars(Waiting) /\ WF_vars(BouncerRuns) /\ WF_vars(Clean) /\ WF_vars(Tick)
    /\ \A p \in Clients :
          WF_vars(/\ Alarm(p) \/ LinkMess(p) \/ UnlinkPid(p)
                  /\ UNCHANGED <<cleanVars, sendVars, history>>)
    /\ \A c \in Channels : \A i \in Slots(c) :
          WF_vars(\E result \in {"K", "Z", "D"} : Delivery(c, i, result))
    /\ \A id \in Ids :
          /\ SF_vars(WorkOn(id))
          /\ WF_vars(Expire(id) /\ UNCHANGED <<queueVars, cleanVars, history>>)

FairSpec == Spec /\ Fairness

-----------------------------------------------------------------------------
(* Safety.                                                                 *)

JobsOn(id, c) == {j \in Jobs : jo[j].refs > 0 /\ jo[j].id = id /\ jo[j].channel = c}
Claims(id, c) == pqchan[c][id] + Cardinality(JobsOn(id, c))

(* A channel file is in pqchan or has an open job, never both or twice,    *)
(* and pqchan and the job table name only messages in the state the        *)
(* comments at qmail-send.c:384-386 give: -todo +info +local (or +remote). *)
OneJob ==
    \A id \in Ids, c \in Channels :
        /\ Claims(id, c) <= 1
        /\ Claims(id, c) = 1 => S5(id) /\ Has(id, c)

(* While qmail-send is running and will go on running, every preprocessed  *)
(* message is on its agenda: each channel file in pqchan or in a job, a    *)
(* message without channel files in pqdone or in the handler itself, or    *)
(* the message in pqfail.  Nothing has to wait for the next restart.       *)
InHand(id) == work.id = id /\ work.why \in {"todo", "bounce"}

NothingStranded ==
    send # "down" /\ ~exitasap =>
        \A id \in Ids : S5(id) /\ ~InHand(id) /\ pqfail[id] = 0 =>
            IF HasChannel(id) THEN \A c \in files[id] \cap Channels : Claims(id, c) >= 1
                              ELSE pqdone[id] >= 1

(* Every recipient of a preprocessed message still has a T record in a     *)
(* channel file unless a copy was delivered or a failure was noted.        *)
Served(id, r) == copies[id][r] > 0 \/ r \in noted[id]

NoRecipientLost ==
    \A id \in Ids : S5(id) =>
        \A r \in rcpts[id] : Served(id, r) \/ \E c \in Channels : r \in undone[id][c]

(* A recipient gets a second copy only when something has failed: one more *)
(* for each failing call, kill or crash.                                   *)
NoNeedlessCopies == \A id \in Ids, r \in Recips : copies[id][r] <= 1 + faults

(* "qmail-send may at its leisure try to deliver a message to a NOT DONE   *)
(* address", and "should not attempt further delivery" to a DONE one       *)
(* (INTERNALS.md section 5): a command that waits in the buffer of a       *)
(* channel is for a T record of the channel file.                          *)
OnlyNotDoneTried ==
    \A c \in Channels : \A i \in Slots(c) :
        del[c][i].st = "comm" => del[c][i].recip \in undone[jo[del[c][i].j].id][c]

(* refs counts exactly the delivery slots and the pass that point to the   *)
(* job, and numtodo never falls below its unreported deliveries, so        *)
(* job_close() frees a job neither too early nor too late.                 *)
SlotsOf(j) == {s \in Channels \X Jobs : s[2] \in Slots(s[1]) /\ del[s[1]][s[2]].j = j}
PassesOf(j) == {c \in Channels : pass[c].j = j}

JobTable ==
    \A j \in Jobs :
        /\ jo[j].refs = Cardinality(SlotsOf(j)) + Cardinality(PassesOf(j))
        /\ jo[j].numtodo >= Cardinality(SlotsOf(j))
        /\ \A s \in SlotsOf(j) : s[1] = jo[j].channel

(* info/ of a preprocessed message is removed only when every recipient    *)
(* has been served and every channel file is gone.                         *)
EndsServed ==
    [][\A id \in Ids : S5(id) /\ "info" \notin files'[id] =>
          ~HasChannel(id) /\ \A r \in rcpts[id] : Served(id, r)]_vars

(* A bounce file is removed only when a bounce with all its lines is in    *)
(* the queue, or when it is a triple bounce.                               *)
BounceHeard ==
    [][\A id \in Ids : Has(id, "bounce") /\ "bounce" \notin files'[id] =>
          Triple(id) \/ notes[id] \subseteq heard[id]]_vars

-----------------------------------------------------------------------------
(* The queue implements MailService.  A message is there while it has a    *)
(* todo/ or an info/ file; a recipient is owed something while its record  *)
(* is a T record, or still in the envelope, and no success is about to be  *)
(* reported for it.                                                        *)
Accepted(id) == Has(id, "todo") \/ Has(id, "info")

SuccessPending(id, r) ==
    \E c \in Channels : \E i \in Slots(c) :
        /\ del[c][i].st = "K" /\ del[c][i].recip = r
        /\ jo[del[c][i].j].id = id

Owed(id) ==
    IF Has(id, "todo") THEN rcpts[id]
    ELSE {r \in undone[id]["local"] \cup undone[id]["remote"] : ~SuccessPending(id, r)}

Promise == INSTANCE MailService WITH
               here <- {id \in Ids : Accepted(id)},
               owed <- [id \in Ids |-> Owed(id)],
               refused <- noted

ImplementsService == Promise!Service

-----------------------------------------------------------------------------
(* Liveness.                                                               *)

(* Every accepted message leaves the queue: each recipient is served or    *)
(* given up when the message is too old, the bounce finds its way into the *)
(* queue, and the files go away - however often a process has to be        *)
(* restarted on the way.                                                   *)
Drains == \A id \in Ids : Accepted(id) ~> ~Has(id, "mess")

(* What a dead qmail-queue or an interrupted messdone() has left in mess/  *)
(* and intd/ is removed.  (A stale pid/ file is not: qmail-clean looks at  *)
(* pid/ only when requests come, and it causes none.)                      *)
LeftoversVanish ==
    \A id \in Ids : Has(id, "mess") /\ ~Accepted(id) ~> ~Has(id, "mess") \/ Accepted(id)

-----------------------------------------------------------------------------
(* Values for the constants that a .cfg cannot write.                      *)
OneEach == [c \in Channels |-> 1]
TwoLocal == [c \in Channels |-> IF c = "local" THEN 2 ELSE 1]

(* Message numbers and recipient records are interchangeable.              *)
Symmetry == Permutations(Ids) \cup Permutations(Recips)
=============================================================================
