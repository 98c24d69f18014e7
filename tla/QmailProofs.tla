----------------------------- MODULE QmailProofs -----------------------------
(***************************************************************************)
(* Proofs about the queue (Qmail), in five parts: types; the job table; who *)
(* may remove the files of a message; the five states of a message number; *)
(* and what the programs owe to a message: what is on disk, what is on the *)
(* agenda of qmail-send, and what a bounce has reported.                   *)
(***************************************************************************)
EXTENDS Qmail, FiniteSetTheorems, WellFoundedInduction, TLAPS

-----------------------------------------------------------------------------
(***************************************************************************)
(* Type correctness of Qmail, for every value of the constants: no action  *)
(* of a program, no failing call and no crash gives a variable a value     *)
(* outside its type.  What is not plain in this: counters of the priority  *)
(* queues and reference counts never go below zero, clean-up counters and  *)
(* ages stay in their ranges, and the first free job or slot exists.       *)
(* The lemmas go program by program; TypeOK is inductive as it stands.     *)
(*                                                                         *)
(* After that, the job table of qmail-send.  A job is shared by the        *)
(* pass that reads its channel file and by the delivery slots it has       *)
(* filled; job_close() frees it with the last of them.  JobTable says that *)
(* refs counts them exactly; that the pass is one of the job's own channel *)
(* makes it inductive.                                                     *)
(***************************************************************************)


-----------------------------------------------------------------------------
(* Operators.                                                              *)

(* A non-empty set of naturals has a least element: the loops of           *)
(* job_open() and del_start() find one of the free entries.                *)
LEMMA LeastType ==
  ASSUME NEW S \in SUBSET Nat, S # {}
  PROVE  Least(S) \in S
<1> DEFINE R == OpToRel(<, Nat)
<1>1. PICK x \in S : \A y \in S : ~ (<<y, x>> \in R)
  <2> HIDE DEF R
  <2>1. IsWellFoundedOn(R, Nat)
    BY NatLessThanWellFounded DEF R
  <2> QED BY <2>1, WFMin
<1>2. R = {ss \in Nat \X Nat : ss[1] < ss[2]}
  BY DEF OpToRel
<1>3. ASSUME NEW y \in S PROVE x <= y
  <2>1. x \in Nat /\ y \in Nat
    OBVIOUS
  <2>2. ~ (<<y, x>> \in {ss \in Nat \X Nat : ss[1] < ss[2]})
    BY <1>1, <1>2
  <2>3. ~ (y < x)
    BY <2>1, <2>2
  <2> QED BY <2>1, <2>3
<1> QED BY <1>3 DEF Least

(* prioq_insert() and, on a queue with an entry, prioq_delmin().           *)
LEMMA PushType ==
  ASSUME NEW pq \in [Ids -> Nat], NEW id
  PROVE  Push(pq, id) \in [Ids -> Nat]
<1>1. ASSUME NEW x \in Ids PROVE Push(pq, id)[x] \in Nat
  <2>1. CASE x = id BY <2>1 DEF Push
  <2>2. CASE x # id BY <2>2 DEF Push
  <2> QED BY <2>1, <2>2
<1> QED BY <1>1 DEF Push

LEMMA PopType ==
  ASSUME NEW pq \in [Ids -> Nat], NEW id, pq[id] > 0
  PROVE  Pop(pq, id) \in [Ids -> Nat]
<1>1. ASSUME NEW x \in Ids PROVE Pop(pq, id)[x] \in Nat
  <2>1. CASE x = id BY <2>1 DEF Pop
  <2>2. CASE x # id BY <2>2 DEF Pop
  <2> QED BY <2>1, <2>2
<1> QED BY <1>1 DEF Pop

LEMMA PutType ==
  ASSUME NEW S, NEW T, NEW f \in [S -> T], NEW x, NEW y, x \in S => y \in T
  PROVE  [f EXCEPT ![x] = y] \in [S -> T]
OBVIOUS

(* A delivery slot is set, or its state changed.                           *)
LEMMA PutDelType ==
  ASSUME DelTypeOK(del), NEW c \in Channels, NEW i \in Slots(c), NEW d \in DelRecords
  PROVE  DelTypeOK([del EXCEPT ![c][i] = d])
BY DEF DelTypeOK

LEMMA PutStType ==
  ASSUME DelTypeOK(del), NEW c \in Channels, NEW i \in Slots(c),
         NEW s \in InUse, del[c][i].st # "unused"
  PROVE  DelTypeOK([del EXCEPT ![c][i].st = s])
<1>1. del[c][i] \in [j : Jobs, recip : Recips, st : InUse]
  BY DEF DelTypeOK, DelRecords, NoDel
<1>2. [del[c][i] EXCEPT !.st = s] \in DelRecords
  BY <1>1 DEF DelRecords
<1> QED BY <1>2 DEF DelTypeOK

(* The queue directory: a failing call, link() and unlink().               *)
LEMMA FaultType ==
  ASSUME DirTypeOK, NEW n \in Nat, Fault(n)
  PROVE  faults' \in 0 .. MaxFaults
BY FaultsAssumption DEF Fault, DirTypeOK

LEMMA WithoutType ==
  ASSUME NEW g \in [Channels -> SUBSET Recips], NEW ks
  PROVE  Without(g, ks) \in [Channels -> SUBSET Recips]
BY DEF Without

LEMMA UnlinkType ==
  ASSUME DirTypeOK, NEW id, NEW ks \in SUBSET Kinds, Unlink(id, ks),
         faults' \in 0 .. MaxFaults
  PROVE  DirTypeOK'
BY WithoutType DEF DirTypeOK, Unlink, Senders

LEMMA CreateType ==
  ASSUME DirTypeOK, NEW id, NEW k \in Kinds, Create(id, k),
         safe' \in [Ids -> SUBSET Kinds], age' \in [Ids -> 0 .. OSSIFIED + 1],
         faults' = faults
  PROVE  DirTypeOK'
BY DEF DirTypeOK, Create

-----------------------------------------------------------------------------
(* The initial state.                                                      *)
LEMMA InitType == Init => TypeOK
<1> SUFFICES ASSUME Init PROVE TypeOK
  OBVIOUS
<1> USE DEF Init
<1>1. DirTypeOK
  BY TimesAssumption, FaultsAssumption DEF DirInit, DirTypeOK, NoRecords, Senders
<1>2. QueueTypeOK
  BY DEF QueueInit, QueueTypeOK
<1>3. CleanTypeOK
  BY PidLoopAssumption DEF CleanInit, CleanTypeOK
<1>4. SendTypeOK
  <2> USE DEF SendInit
  <2>1. work \in [why : {"none", "todo", "done", "cleanup", "bounce"}, id : Ids \cup {NoId}]
    BY DEF NoWork
  <2>2. jo \in [Jobs -> JobRecords]
    BY DEF NoJob, JobRecords, Channels
  <2>3. pass \in [Channels -> PassRecords]
    BY DEF NoPass, PassRecords
  <2>4. DelTypeOK(del)
    BY DEF DelTypeOK, NoDel, DelRecords
  <2> QED BY <2>1, <2>2, <2>3, <2>4 DEF SendTypeOK
<1>5. HistoryTypeOK
  BY DEF HistoryTypeOK, NoCopies
<1> QED BY <1>1, <1>2, <1>3, <1>4, <1>5 DEF TypeOK

-----------------------------------------------------------------------------
(* qmail-queue.                                                            *)
LEMMA PidOpenType ==
  ASSUME TypeOK, NEW p \in Procs, PidOpen(p)
  PROVE  DirTypeOK' /\ QueueTypeOK'
<1>1. DirTypeOK'
  BY CreateType, TimesAssumption DEF PidOpen, TypeOK, DirTypeOK, Kinds, FreeIds
<1>2. QueueTypeOK'
  BY DEF PidOpen, TypeOK, QueueTypeOK, Live, FreeIds
<1> QED BY <1>1, <1>2

LEMMA MainStepType ==
  ASSUME TypeOK, NEW p \in Procs,
         LinkMess(p) \/ UnlinkPid(p) \/ WriteBody(p) \/ OpenIntd(p) \/ LinkTodo(p)
           \/ ExitOk(p)
  PROVE  DirTypeOK' /\ QueueTypeOK'
<1>1. DirTypeOK'
  <2>1. CASE LinkMess(p)
    BY <2>1, CreateType DEF LinkMess, TypeOK, DirTypeOK, Kinds
  <2>2. CASE UnlinkPid(p)
    BY <2>2, UnlinkType DEF UnlinkPid, TypeOK, DirTypeOK, Kinds
  <2>3. CASE WriteBody(p)
    BY <2>3 DEF WriteBody, Fsync, TypeOK, DirTypeOK, Kinds
  <2>4. CASE OpenIntd(p)
    BY <2>4, CreateType DEF OpenIntd, TypeOK, DirTypeOK, Kinds
  <2>5. CASE LinkTodo(p)
    BY <2>5, CreateType DEF LinkTodo, TypeOK, DirTypeOK, Kinds
  <2>6. CASE ExitOk(p)
    BY <2>6 DEF ExitOk, TypeOK, DirTypeOK, dirVars
  <2> QED BY <2>1, <2>2, <2>3, <2>4, <2>5, <2>6
<1>2. QueueTypeOK'
  BY DEF LinkMess, UnlinkPid, WriteBody, OpenIntd, LinkTodo, ExitOk, Step, Exit,
         TypeOK, QueueTypeOK, Live
<1> QED BY <1>1, <1>2

LEMMA EnvelopeType ==
  ASSUME TypeOK, NEW p \in Procs, NEW s \in Senders, NEW rs \in SUBSET Recips,
         WriteEnvelope(p, s, rs)
  PROVE  DirTypeOK' /\ QueueTypeOK'
<1>1. DirTypeOK'
  BY DEF WriteEnvelope, Fsync, TypeOK, DirTypeOK, Kinds
<1>2. QueueTypeOK'
  BY DEF WriteEnvelope, Step, TypeOK, QueueTypeOK, Live
<1> QED BY <1>1, <1>2

LEMMA DieType ==
  ASSUME TypeOK, NEW p \in Procs,
         PidOpenFails(p) \/ DieCleaning(p) \/ DieLeaving(p) \/ Alarm(p)
  PROVE  DirTypeOK' /\ QueueTypeOK'
<1>1. DirTypeOK'
  <2>1. CASE PidOpenFails(p)
    BY <2>1, FaultType DEF PidOpenFails, TypeOK, DirTypeOK
  <2>2. CASE DieCleaning(p)
    <3>1. PICK ks \in CleanedUp(p) :
             Unlink(qid[p], ks) /\ (faults' = faults \/ Fault(1))
      BY <2>2 DEF DieCleaning
    <3>2. ks \in SUBSET Kinds
      BY DEF CleanedUp, Kinds
    <3>3. faults' \in 0 .. MaxFaults
      BY <3>1, FaultType DEF TypeOK, DirTypeOK
    <3> QED BY <3>1, <3>2, <3>3, UnlinkType DEF TypeOK
  <2>3. CASE DieLeaving(p)
    BY <2>3, FaultType DEF DieLeaving, TypeOK, DirTypeOK
  <2>4. CASE Alarm(p)
    BY <2>4 DEF Alarm, TypeOK, DirTypeOK, dirVars
  <2> QED BY <2>1, <2>2, <2>3, <2>4
<1>2. QueueTypeOK'
  BY DEF PidOpenFails, DieCleaning, DieLeaving, Alarm, Exit, TypeOK, QueueTypeOK, Live
<1> QED BY <1>1, <1>2

-----------------------------------------------------------------------------
(* qmail-clean.                                                            *)
LEMMA CleanType ==
  ASSUME TypeOK, CleanNext
  PROVE  DirTypeOK' /\ CleanTypeOK'
<1>1. DirTypeOK'
  <2>1. CASE SkipPids \/ ReadRequest
    BY <2>1 DEF SkipPids, ReadRequest, TypeOK, DirTypeOK, dirVars
  <2>2. CASE CleanPids
    BY <2>2 DEF CleanPids, TypeOK, DirTypeOK
  <2>3. CASE UnlinkIntd
    BY <2>3, UnlinkType DEF UnlinkIntd, First, TypeOK, DirTypeOK, Kinds
  <2>4. CASE UnlinkLast
    BY <2>4, UnlinkType DEF UnlinkLast, Last, TypeOK, DirTypeOK, Kinds
  <2>5. CASE UnlinkFails \/ CleanDies
    BY <2>5, FaultType DEF UnlinkFails, CleanDies, TypeOK, DirTypeOK
  <2>6. CASE DiesUnanswered
    BY <2>6, UnlinkType, FaultType DEF DiesUnanswered, Last, TypeOK, Kinds
  <2> QED BY <2>1, <2>2, <2>3, <2>4, <2>5, <2>6 DEF CleanNext
<1>2. CleanTypeOK'
  BY PidLoopAssumption DEF CleanNext, SkipPids, CleanPids, Rewound, ReadRequest,
     UnlinkIntd, UnlinkLast, UnlinkFails, CleanDies, DiesUnanswered, Respond,
     TypeOK, CleanTypeOK
<1> QED BY <1>1, <1>2

-----------------------------------------------------------------------------
(* qmail-send: priority queues.                                            *)
LEMMA StartType ==
  ASSUME TypeOK, Start
  PROVE  DirTypeOK' /\ SendTypeOK'
<1>1. PICK bad \in SUBSET Ids :
         /\ Fault(Cardinality(bad))
         /\ pqfail' = Postponed(bad)
         /\ pqchan' = AddChan({id \in Ids : Has(id, "info")} \ bad)
         /\ pqdone' = AddDone({id \in Ids : Has(id, "info")} \ bad)
  BY DEF Start
<1>2. Cardinality(bad) \in Nat
  BY FS_Subset, FS_CardinalityType, IdsAssumption
<1>3. DirTypeOK'
  BY <1>1, <1>2, FaultType DEF Start, TypeOK, DirTypeOK, contents
<1>4. SendTypeOK'
  BY <1>1 DEF Start, Resume, NoWork, AddChan, AddDone, Postponed, TypeOK, SendTypeOK,
              tables, flags
<1> QED BY <1>3, <1>4

LEMMA RetryFailedType ==
  ASSUME TypeOK, NEW id \in Ids, RetryFailed(id)
  PROVE  DirTypeOK' /\ SendTypeOK'
<1>1. DirTypeOK'
  BY DEF RetryFailed, TypeOK, DirTypeOK, dirVars
<1>2. pqfail' \in [Ids -> Nat]
  BY PopType DEF RetryFailed, TypeOK, SendTypeOK
<1>3. pqchan' \in [Channels -> [Ids -> Nat]]
  BY DEF RetryFailed, AddChan, TypeOK, SendTypeOK
<1>4. pqdone' \in [Ids -> Nat]
  BY DEF RetryFailed, AddDone, TypeOK, SendTypeOK
<1>5. SendTypeOK'
  BY <1>2, <1>3, <1>4 DEF RetryFailed, TypeOK, SendTypeOK, tables, flags
<1> QED BY <1>1, <1>5

(* job_close(): the last reference is given up or counted down.            *)
LEMMA JobCloseType ==
  ASSUME DirTypeOK, SendTypeOK, NEW j, NEW job, j \in Jobs => job \in JobRecords,
         NEW fl \in [Ids -> SUBSET Kinds],
         NEW un \in [Ids -> [Channels -> SUBSET Recips]],
         NEW dn \in [Ids -> [Channels -> SUBSET Recips]],
         NEW f \in Nat, JobClose(j, job, fl, un, dn, f)
  PROVE  /\ files' \in [Ids -> SUBSET Kinds] /\ safe' \in [Ids -> SUBSET Kinds]
         /\ undone' \in [Ids -> [Channels -> SUBSET Recips]]
         /\ done' \in [Ids -> [Channels -> SUBSET Recips]]
         /\ faults' \in 0 .. MaxFaults
         /\ jo' \in [Jobs -> JobRecords]
         /\ pqchan' \in [Channels -> [Ids -> Nat]]
         /\ pqdone' \in [Ids -> Nat]
<1>1. faults' \in 0 .. MaxFaults
  <2>1. (IF Closable(job, fl) THEN f + 1 ELSE f) \in Nat
    OBVIOUS
  <2> QED BY <2>1, FaultType DEF JobClose, GoesOn, ChannelEnds
<1>2. jo' \in [Jobs -> JobRecords]
  <2>1. j \in Jobs =>
          (IF job.refs > 1 THEN [job EXCEPT !.refs = @ - 1] ELSE NoJob) \in JobRecords
    BY DEF JobRecords, NoJob, Channels
  <2> QED BY <2>1 DEF JobClose, SendTypeOK
<1>3. pqchan' \in [Channels -> [Ids -> Nat]]
  <2>1. pqchan \in [Channels -> [Ids -> Nat]]
    BY DEF SendTypeOK
  <2>2. [pqchan EXCEPT ![job.channel] = Push(@, job.id)] \in [Channels -> [Ids -> Nat]]
    <3> DEFINE pq == Push(pqchan[job.channel], job.id)
    <3>1. job.channel \in Channels => pq \in [Ids -> Nat]
      BY <2>1, PushType
    <3> HIDE DEF pq
    <3>2. [pqchan EXCEPT ![job.channel] = pq] \in [Channels -> [Ids -> Nat]]
      BY <2>1, <3>1, PutType
    <3> QED BY <3>2 DEF pq
  <2> QED BY <2>1, <2>2 DEF JobClose, GoesOn, ChannelEnds
<1>4. pqdone' \in [Ids -> Nat]
  <2>1. pqdone \in [Ids -> Nat]
    BY DEF SendTypeOK
  <2>2. Push(pqdone, job.id) \in [Ids -> Nat]
    BY <2>1, PushType
  <2> QED BY <2>1, <2>2 DEF JobClose, GoesOn, ChannelEnds
<1>5. /\ files' \in [Ids -> SUBSET Kinds] /\ safe' \in [Ids -> SUBSET Kinds]
      /\ undone' \in [Ids -> [Channels -> SUBSET Recips]]
      /\ done' \in [Ids -> [Channels -> SUBSET Recips]]
  <2>1. CASE GoesOn(job, fl, un, dn, f)
    BY <2>1 DEF GoesOn, DirTypeOK
  <2>2. CASE ChannelEnds(job, fl, un, dn, f)
    <3>1. \A g \in [Ids -> SUBSET Kinds] :
            [g EXCEPT ![job.id] = @ \ {job.channel}] \in [Ids -> SUBSET Kinds]
      OBVIOUS
    <3>2. \A g \in [Ids -> [Channels -> SUBSET Recips]] :
            [g EXCEPT ![job.id] = Without(@, {job.channel})]
              \in [Ids -> [Channels -> SUBSET Recips]]
      BY WithoutType
    <3>3. /\ files' = [fl EXCEPT ![job.id] = @ \ {job.channel}]
          /\ safe' = [safe EXCEPT ![job.id] = @ \ {job.channel}]
          /\ undone' = [un EXCEPT ![job.id] = Without(@, {job.channel})]
          /\ done' = [dn EXCEPT ![job.id] = Without(@, {job.channel})]
      BY <2>2 DEF ChannelEnds
    <3> QED BY <3>1, <3>2, <3>3 DEF DirTypeOK
  <2> QED BY <2>1, <2>2 DEF JobClose
<1> QED BY <1>1, <1>2, <1>3, <1>4, <1>5

(* del_start() refers to a job.                                            *)
LEMMA ReferredType ==
  ASSUME NEW job \in JobRecords
  PROVE  Referred(job) \in JobRecords
<1> DEFINE counted == [job EXCEPT !.numtodo = job.numtodo + 1]
<1>1. job.refs + 1 \in Nat /\ job.numtodo + 1 \in Int
  BY DEF JobRecords
<1>2. counted \in JobRecords /\ counted.refs = job.refs
  BY <1>1 DEF JobRecords
<1>3. Referred(job) = [counted EXCEPT !.refs = counted.refs + 1]
  BY DEF Referred
<1> HIDE DEF counted
<1>4. [counted EXCEPT !.refs = counted.refs + 1] \in JobRecords
  BY <1>1, <1>2 DEF JobRecords
<1> QED BY <1>3, <1>4

-----------------------------------------------------------------------------
(* qmail-send: passes and deliveries.                                      *)
LEMMA PassOpenType ==
  ASSUME TypeOK, NEW c \in Channels, NEW id \in Ids, PassOpen(c, id)
  PROVE  DirTypeOK' /\ SendTypeOK'
<1>1. DirTypeOK'
  BY DEF PassOpen, TypeOK, DirTypeOK, dirVars
<1>2. Least(JobsFree) \in Jobs
  <2>1. JobsFree \in SUBSET Nat /\ JobsFree # {}
    BY ConcurrencyAssumption DEF PassOpen, JobsFree, Jobs, Channels
  <2> QED BY <2>1, LeastType DEF JobsFree
<1>3. pass' \in [Channels -> PassRecords]
  BY <1>2 DEF PassOpen, TypeOK, SendTypeOK, DirTypeOK, PassRecords
<1>4. jo' \in [Jobs -> JobRecords]
  <2>1. [refs |-> 1, id |-> id, channel |-> c, numtodo |-> 0, hiteof |-> FALSE,
        dying |-> old[id]] \in JobRecords
    <3>1. old[id] \in BOOLEAN
      BY DEF TypeOK, SendTypeOK
    <3> QED BY <3>1 DEF JobRecords
  <2> QED BY <2>1, PutType DEF PassOpen, TypeOK, SendTypeOK
<1>5. pqchan' \in [Channels -> [Ids -> Nat]]
  BY PopType DEF PassOpen, TypeOK, SendTypeOK
<1>6. SendTypeOK'
  BY <1>3, <1>4, <1>5 DEF PassOpen, TypeOK, SendTypeOK, flags
<1> QED BY <1>1, <1>6

LEMMA PassDeliverType ==
  ASSUME TypeOK, NEW c \in Channels, PassDeliver(c)
  PROVE  DirTypeOK' /\ SendTypeOK'
<1>1. DirTypeOK'
  BY DEF PassDeliver, TypeOK, DirTypeOK, dirVars
<1>2. PICK r \in LeftToDo(c) :
         /\ pass' = [pass EXCEPT ![c].left = @ \ {r}]
         /\ del' = [del EXCEPT ![c][Least(SlotsFree(c))] =
                        [j |-> pass[c].j, recip |-> r, st |-> "comm"]]
  BY DEF PassDeliver
<1>3. pass[c] \in [j : Jobs, left : SUBSET Recips] /\ r \in Recips
  BY DEF PassDeliver, TypeOK, SendTypeOK, PassRecords, LeftToDo
<1>4. Least(SlotsFree(c)) \in Slots(c)
  <2>1. SlotsFree(c) \in SUBSET Nat /\ SlotsFree(c) # {}
    BY ConcurrencyAssumption DEF PassDeliver, DelAvail, SlotsFree, Slots
  <2> QED BY <2>1, LeastType DEF SlotsFree
<1>5. DelTypeOK(del')
  <2>1. [j |-> pass[c].j, recip |-> r, st |-> "comm"] \in DelRecords
    BY <1>3 DEF DelRecords, InUse
  <2> QED BY <1>2, <1>4, <2>1, PutDelType DEF TypeOK, SendTypeOK
<1>6. pass' \in [Channels -> PassRecords]
  <2>1. [pass[c] EXCEPT !.left = @ \ {r}] \in PassRecords
    BY <1>3 DEF PassRecords
  <2> QED BY <1>2, <2>1, PutType DEF TypeOK, SendTypeOK
<1>7. jo' \in [Jobs -> JobRecords]
  <2>1. jo[pass[c].j] \in JobRecords
    BY <1>3 DEF TypeOK, SendTypeOK
  <2>2. Referred(jo[pass[c].j]) \in JobRecords
    BY <2>1, ReferredType
  <2> QED BY <2>2, PutType DEF PassDeliver, TypeOK, SendTypeOK
<1>8. SendTypeOK'
  BY <1>5, <1>6, <1>7 DEF PassDeliver, TypeOK, SendTypeOK, queues, flags
<1> QED BY <1>1, <1>8

LEMMA PassCloseType ==
  ASSUME TypeOK, NEW c \in Channels, PassClose(c)
  PROVE  DirTypeOK' /\ SendTypeOK'
<1> DEFINE j == pass[c].j
           read == [jo[j] EXCEPT !.hiteof = TRUE]
<1>1. /\ j \in Jobs => jo[j] \in JobRecords
      /\ j \in Jobs => read \in JobRecords
  <2>1. j \in Jobs => jo[j] \in JobRecords
    BY DEF TypeOK, SendTypeOK
  <2> QED BY <2>1 DEF JobRecords
<1>2. \/ JobClose(j, read, files, undone, done, 0)
      \/ JobClose(j, jo[j], files, undone, done, 1)
  BY DEF PassClose
<1>3. /\ files' \in [Ids -> SUBSET Kinds] /\ safe' \in [Ids -> SUBSET Kinds]
      /\ undone' \in [Ids -> [Channels -> SUBSET Recips]]
      /\ done' \in [Ids -> [Channels -> SUBSET Recips]]
      /\ faults' \in 0 .. MaxFaults
      /\ jo' \in [Jobs -> JobRecords]
      /\ pqchan' \in [Channels -> [Ids -> Nat]]
      /\ pqdone' \in [Ids -> Nat]
  <2> HIDE DEF j, read
  <2>1. DirTypeOK /\ SendTypeOK
    BY DEF TypeOK
  <2>2. /\ files \in [Ids -> SUBSET Kinds]
        /\ undone \in [Ids -> [Channels -> SUBSET Recips]]
        /\ done \in [Ids -> [Channels -> SUBSET Recips]]
    BY <2>1 DEF DirTypeOK
  <2>3. CASE JobClose(j, read, files, undone, done, 0)
    BY <1>1, <2>1, <2>2, <2>3, JobCloseType
  <2>4. CASE JobClose(j, jo[j], files, undone, done, 1)
    BY <1>1, <2>1, <2>2, <2>4, JobCloseType
  <2> QED BY <1>2, <2>3, <2>4
<1>4. DirTypeOK'
  BY <1>3 DEF PassClose, TypeOK, DirTypeOK
<1>5. pass' \in [Channels -> PassRecords]
  BY DEF PassClose, NoPass, TypeOK, SendTypeOK, PassRecords
<1>6. SendTypeOK'
  BY <1>3, <1>5 DEF PassClose, TypeOK, SendTypeOK, flags
<1> QED BY <1>4, <1>6

LEMMA CommWriteType ==
  ASSUME TypeOK, NEW c \in Channels, NEW i \in Slots(c), CommWrite(c, i)
  PROVE  DirTypeOK' /\ SendTypeOK'
<1>1. DirTypeOK'
  BY DEF CommWrite, TypeOK, DirTypeOK, dirVars
<1>2. SendTypeOK'
  BY PutStType DEF CommWrite, InUse, TypeOK, SendTypeOK, queues, flags
<1> QED BY <1>1, <1>2

LEMMA DeliverType ==
  ASSUME TypeOK, NEW c \in Channels, NEW i \in Slots(c), NEW result \in {"K", "Z", "D"},
         Deliver(c, i, result)
  PROVE  DirTypeOK' /\ SendTypeOK'
<1>1. DirTypeOK'
  BY DEF Deliver, TypeOK, DirTypeOK, dirVars
<1>2. SendTypeOK'
  BY PutStType DEF Deliver, InUse, TypeOK, SendTypeOK, queues, flags
<1> QED BY <1>1, <1>2

LEMMA DelReportType ==
  ASSUME TypeOK, NEW c \in Channels, NEW i \in Slots(c), DelReport(c, i)
  PROVE  DirTypeOK' /\ SendTypeOK'
<1> DEFINE d == del[c][i]
           job == jo[d.j]
           counted == [job EXCEPT !.numtodo = @ - 1]
           verdict == Verdict(d.st, job.dying)
           noted1 == [files EXCEPT ![job.id] = @ \cup {"bounce"}]
           marked == [done EXCEPT ![job.id][c] = @ \cup {d.recip}]
<1>1. DirTypeOK /\ SendTypeOK
  BY DEF TypeOK
<1>2. d \in [j : Jobs, recip : Recips, st : InUse]
  <2>1. d \in DelRecords
    BY <1>1 DEF SendTypeOK, DelTypeOK
  <2>2. d # NoDel
    <3>1. del[c][i].st \in {"K", "Z", "D"}
      BY DEF DelReport
    <3> QED BY <3>1 DEF NoDel
  <2> HIDE DEF d
  <2> QED BY <2>1, <2>2 DEF DelRecords
<1>3. job \in JobRecords
  BY <1>1, <1>2 DEF SendTypeOK
<1>4. counted \in JobRecords
  BY <1>3 DEF JobRecords
<1>5. /\ noted1 \in [Ids -> SUBSET Kinds]
      /\ marked \in [Ids -> [Channels -> SUBSET Recips]]
      /\ MarkDone(undone, job.id, c, d.recip) \in [Ids -> [Channels -> SUBSET Recips]]
  <2>1. noted1 \in [Ids -> SUBSET Kinds]
    BY <1>1 DEF DirTypeOK, Kinds
  <2>2. /\ undone \in [Ids -> [Channels -> SUBSET Recips]]
        /\ done \in [Ids -> [Channels -> SUBSET Recips]]
        /\ d.recip \in Recips
    BY <1>1, <1>2 DEF DirTypeOK
  <2> HIDE DEF d, job
  <2>3. [done EXCEPT ![job.id][c] = @ \cup {d.recip}] \in [Ids -> [Channels -> SUBSET Recips]]
    BY <2>2
  <2>4. MarkDone(undone, job.id, c, d.recip) \in [Ids -> [Channels -> SUBSET Recips]]
    BY <2>2 DEF MarkDone
  <2> QED BY <2>1, <2>3, <2>4
<1>6. \E jb \in JobRecords, fl \in [Ids -> SUBSET Kinds],
         un \in [Ids -> [Channels -> SUBSET Recips]],
         dn \in [Ids -> [Channels -> SUBSET Recips]], f \in Nat :
            JobClose(d.j, jb, fl, un, dn, f)
  <2>1. /\ files \in [Ids -> SUBSET Kinds]
        /\ undone \in [Ids -> [Channels -> SUBSET Recips]]
        /\ done \in [Ids -> [Channels -> SUBSET Recips]]
    BY <1>1 DEF DirTypeOK
  <2>2. CASE verdict = "Z"
    <3>1. JobClose(d.j, job, files, undone, done, 0)
      BY <2>2 DEF DelReport
    <3> HIDE DEF d, job
    <3> QED BY <3>1, <2>1, <1>3
  <2>3. CASE verdict # "Z"
    <3>1. PICK ok \in BOOLEAN :
             JobClose(d.j, counted, IF verdict = "D" THEN noted1 ELSE files,
                      IF ok THEN MarkDone(undone, job.id, c, d.recip) ELSE undone,
                      IF ok THEN marked ELSE done, IF ok THEN 0 ELSE 1)
      BY <2>3 DEF DelReport
    <3> HIDE DEF d, job, counted, verdict, noted1, marked
    <3>2. /\ (IF verdict = "D" THEN noted1 ELSE files) \in [Ids -> SUBSET Kinds]
          /\ (IF ok THEN MarkDone(undone, job.id, c, d.recip) ELSE undone)
               \in [Ids -> [Channels -> SUBSET Recips]]
          /\ (IF ok THEN marked ELSE done) \in [Ids -> [Channels -> SUBSET Recips]]
          /\ (IF ok THEN 0 ELSE 1) \in Nat
      BY <2>1, <1>5
    <3> QED BY <3>1, <3>2, <1>4
  <2> QED BY <2>2, <2>3
<1>7. /\ files' \in [Ids -> SUBSET Kinds] /\ safe' \in [Ids -> SUBSET Kinds]
      /\ undone' \in [Ids -> [Channels -> SUBSET Recips]]
      /\ done' \in [Ids -> [Channels -> SUBSET Recips]]
      /\ faults' \in 0 .. MaxFaults
      /\ jo' \in [Jobs -> JobRecords]
      /\ pqchan' \in [Channels -> [Ids -> Nat]]
      /\ pqdone' \in [Ids -> Nat]
  <2> HIDE DEF d
  <2> QED BY <1>1, <1>6, JobCloseType
<1>8. notes' \in [Ids -> SUBSET Recips]
  <2>1. notes \in [Ids -> SUBSET Recips]
    BY <1>1 DEF DirTypeOK
  <2>2. [notes EXCEPT ![job.id] = @ \cup {d.recip}] \in [Ids -> SUBSET Recips]
    <3> HIDE DEF d, job
    <3> QED BY <1>2, <2>1
  <2>3. notes' = notes \/ notes' = [notes EXCEPT ![job.id] = @ \cup {d.recip}]
    BY DEF DelReport
  <2> QED BY <2>1, <2>2, <2>3
<1>9. DirTypeOK'
  BY <1>7, <1>8 DEF DelReport, TypeOK, DirTypeOK
<1>10. DelTypeOK(del')
  BY <1>1, PutDelType DEF DelReport, SendTypeOK, DelRecords
<1>11. SendTypeOK'
  BY <1>7, <1>10 DEF DelReport, TypeOK, SendTypeOK, flags
<1> QED BY <1>9, <1>11

-----------------------------------------------------------------------------
(* qmail-send: the end of a message.                                       *)
LEMMA MessDoneType ==
  ASSUME TypeOK, NEW id \in Ids, MessDoneReturns(id) \/ MessDoneBounces(id)
  PROVE  DirTypeOK' /\ SendTypeOK'
<1>1. DirTypeOK'
  BY DEF MessDoneReturns, MessDoneBounces, TypeOK, DirTypeOK, dirVars
<1>2. SendTypeOK'
  BY PopType DEF MessDoneReturns, MessDoneBounces, TakeDone, Wait, TypeOK, SendTypeOK,
                 tables, flags
<1> QED BY <1>1, <1>2

(* The files of a message go, or one of them does not.                     *)
LEMMA EndMessType ==
  ASSUME TypeOK, NEW id \in Ids, EndMess(id)
  PROVE  /\ DirTypeOK'
         /\ pqdone' \in [Ids -> Nat] => SendTypeOK'
<1>1. DirTypeOK'
  BY UnlinkType DEF EndMess, TypeOK, DirTypeOK, Kinds
<1>2. pqdone' \in [Ids -> Nat] => SendTypeOK'
  BY DEF EndMess, Wait, TypeOK, SendTypeOK, tables
<1> QED BY <1>1, <1>2

LEMMA EndMessFailsType ==
  ASSUME TypeOK, NEW id \in Ids, NEW pq \in [Ids -> Nat], EndMessFails(id, pq)
  PROVE  DirTypeOK' /\ SendTypeOK'
<1>1. PICK ks \in {{}, {"bounce"}} : Unlink(id, ks)
  BY DEF EndMessFails
<1>2. ks \in SUBSET Kinds
  BY DEF Kinds
<1>3. DirTypeOK'
  BY <1>1, <1>2, UnlinkType, FaultType DEF EndMessFails, TypeOK
<1>4. SendTypeOK'
  BY PushType DEF EndMessFails, Resume, NoWork, TypeOK, SendTypeOK, tables, flags
<1> QED BY <1>3, <1>4

LEMMA MessDoneEndsType ==
  ASSUME TypeOK, NEW id \in Ids, MessDoneEnds(id) \/ MessDoneFails(id)
  PROVE  DirTypeOK' /\ SendTypeOK'
<1>1. Pop(pqdone, id) \in [Ids -> Nat]
  BY PopType DEF MessDoneEnds, MessDoneFails, TakeDone, TypeOK, SendTypeOK
<1>2. CASE MessDoneEnds(id)
  BY <1>1, <1>2, EndMessType DEF MessDoneEnds
<1>3. CASE MessDoneFails(id)
  BY <1>1, <1>3, EndMessFailsType DEF MessDoneFails
<1> QED BY <1>2, <1>3

LEMMA BounceType ==
  ASSUME TypeOK, NEW id \in Ids,
         BounceAccepted(id) \/ BounceAcceptedFails(id) \/ BounceRefused(id)
  PROVE  DirTypeOK' /\ SendTypeOK'
<1>1. pqdone \in [Ids -> Nat]
  BY DEF TypeOK, SendTypeOK
<1>2. CASE BounceAccepted(id)
  BY <1>1, <1>2, EndMessType DEF BounceAccepted
<1>3. CASE BounceAcceptedFails(id)
  BY <1>1, <1>3, EndMessFailsType DEF BounceAcceptedFails
<1>4. CASE BounceRefused(id)
  <2>1. DirTypeOK'
    BY <1>4 DEF BounceRefused, TypeOK, DirTypeOK, dirVars
  <2>2. SendTypeOK'
    BY <1>4, PushType DEF BounceRefused, Resume, NoWork, TypeOK, SendTypeOK, tables, flags
  <2> QED BY <2>1, <2>2
<1> QED BY <1>2, <1>3, <1>4

-----------------------------------------------------------------------------
(* qmail-send: preprocessing, clean-up and flags.                          *)
LEMMA PreprocessType ==
  ASSUME TypeOK, NEW id \in Ids, Preprocess(id)
  PROVE  DirTypeOK' /\ SendTypeOK'
<1>1. DirTypeOK'
  BY DEF Preprocess, Remade, NoRecords, TypeOK, DirTypeOK, Kinds
<1>2. SendTypeOK'
  BY DEF Preprocess, Wait, TypeOK, SendTypeOK, queues, tables
<1> QED BY <1>1, <1>2

LEMMA PreprocessFailsType ==
  ASSUME TypeOK, NEW id \in Ids, PreprocessFails(id)
  PROVE  DirTypeOK' /\ SendTypeOK'
<1>1. DirTypeOK /\ faults' \in 0 .. MaxFaults
  BY FaultType DEF PreprocessFails, TypeOK
<1>2. DirTypeOK'
  <2>1. CASE \E gone \in {{}, {"local"}, Channels, Remade} : Unlink(id, gone)
    <3>1. PICK gone \in {{}, {"local"}, Channels, Remade} : Unlink(id, gone)
      BY <2>1
    <3>2. gone \in SUBSET Kinds
      BY DEF Remade, Channels, Kinds
    <3> QED BY <1>1, <3>1, <3>2, UnlinkType
  <2>2. CASE \E cs \in SUBSET Channels :
                /\ files' = [files EXCEPT ![id] = (@ \ Remade) \cup {"info"} \cup cs]
                /\ safe' = [safe EXCEPT ![id] = @ \ Remade]
                /\ undone' = [undone EXCEPT ![id] = NoRecords]
                /\ done' = [done EXCEPT ![id] = NoRecords]
                /\ UNCHANGED <<sender, rcpts, notes, age>>
    BY <1>1, <2>2 DEF DirTypeOK, NoRecords, Kinds
  <2> QED BY <2>1, <2>2 DEF PreprocessFails
<1>3. SendTypeOK'
  BY DEF PreprocessFails, sendVars, TypeOK, SendTypeOK
<1> QED BY <1>2, <1>3

LEMMA PreprocessedType ==
  ASSUME TypeOK, Preprocessed
  PROVE  DirTypeOK' /\ SendTypeOK'
<1>1. DirTypeOK'
  BY DEF Preprocessed, TypeOK, DirTypeOK, dirVars
<1>2. pqchan' \in [Channels -> [Ids -> Nat]]
  BY PushType DEF TypeOK, SendTypeOK, Preprocessed
<1>3. pqdone' \in [Ids -> Nat]
  BY PushType DEF TypeOK, SendTypeOK, Preprocessed
<1>4. SendTypeOK'
  BY <1>2, <1>3 DEF Preprocessed, Resume, NoWork, TypeOK, SendTypeOK, tables, flags
<1> QED BY <1>1, <1>4

LEMMA AnswerType ==
  ASSUME TypeOK, (\E a \in {"+", "!"} : Answered(a)) \/ CleanDied
  PROVE  DirTypeOK' /\ SendTypeOK'
<1>1. DirTypeOK'
  BY DEF Answered, CleanDied, TypeOK, DirTypeOK, dirVars
<1>2. SendTypeOK'
  <2>1. CASE \E a \in {"+", "!"} : Answered(a)
    BY <2>1 DEF Answered, Resume, NoWork, TypeOK, SendTypeOK, queues, tables, flags
  <2>2. CASE CleanDied
    BY <2>2 DEF CleanDied, Resume, NoWork, TypeOK, SendTypeOK, queues, tables
  <2> QED BY <2>1, <2>2
<1> QED BY <1>1, <1>2

LEMMA CleanupExpireType ==
  ASSUME TypeOK, NEW id \in Ids, Cleanup(id) \/ Expire(id)
  PROVE  DirTypeOK' /\ SendTypeOK'
<1>1. DirTypeOK'
  BY DEF Cleanup, Expire, TypeOK, DirTypeOK, dirVars
<1>2. SendTypeOK'
  <2>1. CASE Cleanup(id)
    BY <2>1 DEF Cleanup, Wait, TypeOK, SendTypeOK, queues, tables, flags
  <2>2. CASE Expire(id)
    BY <2>2 DEF Expire, TypeOK, SendTypeOK, queues, tables
  <2> QED BY <2>1, <2>2
<1> QED BY <1>1, <1>2

LEMMA StopType ==
  ASSUME TypeOK, Term \/ \E c \in Channels : SpawnDied(c)
  PROVE  DirTypeOK' /\ SendTypeOK'
<1>1. DirTypeOK'
  BY FaultType DEF Term, SpawnDied, TypeOK, DirTypeOK, contents
<1>2. SendTypeOK'
  BY DEF Term, SpawnDied, TypeOK, SendTypeOK, queues, tables
<1> QED BY <1>1, <1>2

LEMMA ForgetType ==
  ASSUME SendTypeOK, Forget
  PROVE  SendTypeOK'
<1> USE DEF Forget
<1>1. work' \in [why : {"none", "todo", "done", "cleanup", "bounce"}, id : Ids \cup {NoId}]
  BY DEF NoWork
<1>2. /\ pqchan' \in [Channels -> [Ids -> Nat]]
      /\ pqdone' \in [Ids -> Nat] /\ pqfail' \in [Ids -> Nat]
  OBVIOUS
<1>3. jo' \in [Jobs -> JobRecords]
  BY DEF NoJob, JobRecords, Channels
<1>4. pass' \in [Channels -> PassRecords]
  BY DEF PassRecords
<1>5. DelTypeOK(del')
  BY DEF DelTypeOK, DelRecords
<1>6. spawnalive' \in [Channels -> BOOLEAN] /\ exitasap' \in BOOLEAN /\ old' = old
  OBVIOUS
<1> QED BY <1>1, <1>2, <1>3, <1>4, <1>5, <1>6 DEF SendTypeOK

-----------------------------------------------------------------------------
(* The steps of the composition.                                           *)
LEMMA SendAloneType ==
  ASSUME TypeOK, SendAlone
  PROVE  TypeOK'
<1>1. DirTypeOK' /\ SendTypeOK'
  BY StartType, RetryFailedType, MessDoneType, MessDoneEndsType, PreprocessFailsType,
     CleanupExpireType, PassDeliverType, PassCloseType, PassOpenType, CommWriteType,
     StopType DEF SendAlone
<1>2. QueueTypeOK' /\ CleanTypeOK' /\ HistoryTypeOK'
  BY DEF SendAlone, queueVars, cleanVars, history, TypeOK, QueueTypeOK, CleanTypeOK,
         HistoryTypeOK
<1> QED BY <1>1, <1>2 DEF TypeOK

LEMMA InjectionType ==
  ASSUME TypeOK, NEW p \in Procs,
         Inject(p) \/ InjectFails(p) \/ Envelope(p) \/ Queue(p)
  PROVE  TypeOK'
<1>1. DirTypeOK' /\ QueueTypeOK'
  <2>1. CASE Inject(p)
    BY <2>1, PidOpenType, MainStepType DEF Inject
  <2>2. CASE InjectFails(p)
    BY <2>2, DieType DEF InjectFails
  <2>3. CASE Envelope(p)
    <3>1. \E s \in Senders, rs \in SUBSET Recips : WriteEnvelope(p, s, rs)
      BY <2>3, SendersAssumption DEF Envelope, Senders
    <3> QED BY <3>1, EnvelopeType
  <2>4. CASE Queue(p)
    BY <2>4, MainStepType DEF Queue
  <2> QED BY <2>1, <2>2, <2>3, <2>4
<1>2. CleanTypeOK' /\ SendTypeOK'
  BY DEF Inject, InjectFails, Envelope, Queue, cleanVars, sendVars, TypeOK, CleanTypeOK,
         SendTypeOK
<1>3. HistoryTypeOK'
  <2>1. CASE Queue(p)
    <3>1. copies' = copies /\ noted' = noted
      BY <2>1 DEF Queue
    <3>2. notes[work.id] \subseteq Recips \/ work.id \notin Ids
      BY DEF TypeOK, DirTypeOK
    <3>3. heard' \in [Ids -> SUBSET Recips]
      BY <2>1, <3>2 DEF Queue, TypeOK, HistoryTypeOK
    <3> QED BY <3>1, <3>3 DEF TypeOK, HistoryTypeOK
  <2>2. CASE Inject(p) \/ InjectFails(p) \/ Envelope(p)
    BY <2>2 DEF Inject, InjectFails, Envelope, history, TypeOK, HistoryTypeOK
  <2> QED BY <2>1, <2>2
<1> QED BY <1>1, <1>2, <1>3 DEF TypeOK

LEMMA ReportStepType ==
  ASSUME TypeOK, NEW c \in Channels, NEW i \in Slots(c), Report(c, i)
  PROVE  TypeOK'
<1>1. DirTypeOK' /\ SendTypeOK'
  BY DelReportType DEF Report
<1>2. QueueTypeOK' /\ CleanTypeOK'
  BY DEF Report, queueVars, cleanVars, TypeOK, QueueTypeOK, CleanTypeOK
<1>3. HistoryTypeOK'
  BY <1>1 DEF Report, TypeOK, DirTypeOK, HistoryTypeOK
<1> QED BY <1>1, <1>2, <1>3 DEF TypeOK

LEMMA DeliveryType ==
  ASSUME TypeOK, NEW c \in Channels, NEW i \in Slots(c), NEW result \in {"K", "Z", "D"},
         Delivery(c, i, result)
  PROVE  TypeOK'
<1>1. DirTypeOK' /\ SendTypeOK'
  BY DeliverType DEF Delivery
<1>2. QueueTypeOK' /\ CleanTypeOK'
  BY DEF Delivery, queueVars, cleanVars, TypeOK, QueueTypeOK, CleanTypeOK
<1>3. HistoryTypeOK'
  <2>1. ASSUME NEW id, NEW r
        PROVE  [copies EXCEPT ![id][r] = @ + 1] \in [Ids -> [Recips -> Nat]]
    <3>1. copies \in [Ids -> [Recips -> Nat]]
      BY DEF TypeOK, HistoryTypeOK
    <3> DEFINE more == [copies[id] EXCEPT ![r] = copies[id][r] + 1]
    <3>2. CASE id \in Ids
      <4>1. copies[id] \in [Recips -> Nat]
        BY <3>1, <3>2
      <4>2. r \in Recips => copies[id][r] + 1 \in Nat
        BY <4>1
      <4>3. more \in [Recips -> Nat]
        BY <4>1, <4>2, PutType
      <4> HIDE DEF more
      <4>4. [copies EXCEPT ![id] = more] \in [Ids -> [Recips -> Nat]]
        BY <3>1, <4>3
      <4> QED BY <4>4 DEF more
    <3>3. CASE id \notin Ids
      BY <3>1, <3>3
    <3> QED BY <3>2, <3>3
  <2> QED BY <2>1 DEF Delivery, TypeOK, HistoryTypeOK
<1> QED BY <1>1, <1>2, <1>3 DEF TypeOK

LEMMA AskType ==
  ASSUME TypeOK, NEW id \in Ids, Ask(id) \/ BounceOver(id)
  PROVE  TypeOK'
<1>1. DirTypeOK' /\ SendTypeOK'
  BY PreprocessType, MessDoneEndsType, CleanupExpireType, BounceType DEF Ask, BounceOver
<1>2. QueueTypeOK'
  BY DEF Ask, BounceOver, Reap, queueVars, TypeOK, QueueTypeOK
<1>3. CleanTypeOK'
  BY DEF Ask, BounceOver, PutRequest, Request, Requests, cleanVars, TypeOK, CleanTypeOK
<1>4. HistoryTypeOK'
  BY DEF Ask, BounceOver, history, TypeOK, HistoryTypeOK
<1> QED BY <1>1, <1>2, <1>3, <1>4 DEF TypeOK

LEMMA AnswerStepType ==
  ASSUME TypeOK, Answer
  PROVE  TypeOK'
<1>1. DirTypeOK' /\ SendTypeOK'
  BY PreprocessedType, AnswerType DEF Answer
<1>2. QueueTypeOK' /\ HistoryTypeOK'
  BY DEF Answer, queueVars, history, TypeOK, QueueTypeOK, HistoryTypeOK
<1>3. CleanTypeOK'
  BY DEF Answer, TakeReply, cleanVars, TypeOK, CleanTypeOK
<1> QED BY <1>1, <1>2, <1>3 DEF TypeOK

LEMMA CleanStepType ==
  ASSUME TypeOK, Clean
  PROVE  TypeOK'
<1>1. DirTypeOK' /\ CleanTypeOK'
  BY CleanType DEF Clean
<1>2. QueueTypeOK' /\ SendTypeOK'
  BY DEF Clean, queueVars, sendVars, TypeOK, QueueTypeOK, SendTypeOK
<1>3. HistoryTypeOK'
  BY DEF Clean, NoCopies, TypeOK, HistoryTypeOK
<1> QED BY <1>1, <1>2, <1>3 DEF TypeOK

LEMMA ExitsType ==
  ASSUME TypeOK, Exits
  PROVE  TypeOK'
<1>1. SendTypeOK'
  BY ForgetType DEF Exits, SendExit, TypeOK
<1>2. DirTypeOK' /\ QueueTypeOK' /\ HistoryTypeOK'
  BY DEF Exits, SendExit, dirVars, queueVars, history, TypeOK, DirTypeOK, QueueTypeOK,
         HistoryTypeOK
<1>3. CleanTypeOK'
  BY PidLoopAssumption DEF Exits, CleanRestarts, CleanTypeOK
<1> QED BY <1>1, <1>2, <1>3 DEF TypeOK

LEMMA CrashType ==
  ASSUME TypeOK, Crash
  PROVE  TypeOK'
<1>1. SendTypeOK'
  BY ForgetType DEF Crash, TypeOK
<1>2. DirTypeOK'
  <2>1. faults' \in 0 .. MaxFaults
    BY FaultType DEF Crash, TypeOK
  <2>2. /\ undone' \in [Ids -> [Channels -> SUBSET Recips]]
        /\ done' \in [Ids -> [Channels -> SUBSET Recips]]
    BY DEF Crash, TypeOK, DirTypeOK
  <2>3. notes' \in [Ids -> SUBSET Recips]
    BY DEF Crash, TypeOK, DirTypeOK
  <2> QED BY <2>1, <2>2, <2>3 DEF Crash, TypeOK, DirTypeOK
<1>3. QueueTypeOK'
  BY DEF Crash, QueueTypeOK
<1>4. CleanTypeOK'
  BY PidLoopAssumption DEF Crash, CleanRestarts, CleanTypeOK
<1>5. HistoryTypeOK'
  BY DEF Crash, TypeOK, HistoryTypeOK
<1> QED BY <1>1, <1>2, <1>3, <1>4, <1>5 DEF TypeOK

LEMMA TickType ==
  ASSUME TypeOK, Tick
  PROVE  TypeOK'
<1>1. DirTypeOK'
  BY TimesAssumption DEF Tick, TypeOK, DirTypeOK
<1>2. QueueTypeOK' /\ CleanTypeOK' /\ SendTypeOK' /\ HistoryTypeOK'
  BY DEF Tick, queueVars, cleanVars, sendVars, history, TypeOK, QueueTypeOK, CleanTypeOK,
         SendTypeOK, HistoryTypeOK
<1> QED BY <1>1, <1>2 DEF TypeOK

LEMMA StutterType ==
  ASSUME TypeOK, UNCHANGED vars
  PROVE  TypeOK'
BY DEF vars, dirVars, queueVars, cleanVars, sendVars, history, TypeOK, DirTypeOK,
       QueueTypeOK, CleanTypeOK, SendTypeOK, HistoryTypeOK

LEMMA NextType == TypeOK /\ [Next]_vars => TypeOK'
<1> SUFFICES ASSUME TypeOK, [Next]_vars PROVE TypeOK'
  OBVIOUS
<1>1. ASSUME NEW p \in Procs, Inject(p) \/ InjectFails(p) \/ Envelope(p) \/ Queue(p)
      PROVE  TypeOK'
  BY <1>1, InjectionType
<1>2. ASSUME NEW c \in Channels, NEW i \in Slots(c),
             Report(c, i) \/ \E result \in {"K", "Z", "D"} : Delivery(c, i, result)
      PROVE  TypeOK'
  BY <1>2, ReportStepType, DeliveryType
<1>3. ASSUME NEW id \in Ids, Ask(id) \/ BounceOver(id) PROVE TypeOK'
  BY <1>3, AskType
<1>4. CASE SendAlone \/ Answer \/ Clean \/ Exits \/ Crash \/ Tick
  BY <1>4, SendAloneType, AnswerStepType, CleanStepType, ExitsType, CrashType, TickType
<1>5. CASE UNCHANGED vars
  BY <1>5, StutterType
<1> QED BY <1>1, <1>2, <1>3, <1>4, <1>5 DEF Next

(* In every behaviour of the three programs, whatever fails and however    *)
(* often they are restarted, every variable has its type: in particular no *)
(* priority queue gives out an entry it does not have, no reference count  *)
(* of the job table becomes negative, every slot in use names a job and a  *)
(* recipient, and cleanuploop stays in its range.                          *)
THEOREM TypeCorrect == Spec => []TypeOK
<1>1. Init => TypeOK
  BY InitType
<1>2. TypeOK /\ [Next]_vars => TypeOK'
  BY NextType
<1> QED BY <1>1, <1>2, PTL DEF Spec

-----------------------------------------------------------------------------
(* The job table: the pass that has a job is of its channel.               *)
PassChannel == \A j \in Jobs : \A c \in PassesOf(j) : c = jo[j].channel

JobsInv == JobTable /\ PassChannel

-----------------------------------------------------------------------------
(* Slots.  A slot that is in use names a job and a recipient.              *)
LEMMA SlotUsed ==
  ASSUME TypeOK, NEW c \in Channels, NEW i \in Slots(c)
  PROVE  /\ del[c][i] \in DelRecords
         /\ del[c][i] # NoDel => /\ del[c][i].j \in Jobs /\ del[c][i].recip \in Recips
                                 /\ del[c][i].st \in InUse
         /\ del[c][i].st \in InUse => del[c][i] # NoDel
         /\ del[c][i].j \in Jobs => del[c][i] # NoDel
<1>1. del[c][i] \in DelRecords
  BY DEF TypeOK, SendTypeOK, DelTypeOK
<1>2. 0 \notin Jobs
  BY DEF Jobs
<1> QED BY <1>1, <1>2 DEF DelRecords, NoDel, InUse

LEMMA SlotsFinite ==
  ASSUME NEW j
  PROVE  /\ IsFiniteSet(SlotsOf(j)) /\ IsFiniteSet(PassesOf(j)) /\ IsFiniteSet(Jobs)
         /\ Cardinality(SlotsOf(j)) \in Nat /\ Cardinality(PassesOf(j)) \in Nat
         /\ \A c \in Channels : Slots(c) \subseteq Jobs
<1>1. Concurrency["local"] \in Nat /\ Concurrency["remote"] \in Nat
  BY ConcurrencyAssumption DEF Channels
<1>2. IsFiniteSet(Jobs)
  BY <1>1, FS_Interval DEF Jobs
<1>3. IsFiniteSet(Channels)
  <2>1. IsFiniteSet({"local"} \cup {"remote"})
    BY FS_Singleton, FS_AddElement
  <2>2. Channels = {"local"} \cup {"remote"}
    BY DEF Channels
  <2> QED BY <2>1, <2>2
<1>4. IsFiniteSet(Channels \X Jobs)
  BY <1>2, <1>3, FS_Product
<1>5. SlotsOf(j) \in SUBSET (Channels \X Jobs) /\ PassesOf(j) \in SUBSET Channels
  BY DEF SlotsOf, PassesOf
<1>6. IsFiniteSet(SlotsOf(j)) /\ IsFiniteSet(PassesOf(j))
  BY <1>3, <1>4, <1>5, FS_Subset
<1>7. \A c \in Channels : Slots(c) \subseteq Jobs
  BY <1>1 DEF Channels, Slots, Jobs
<1> QED BY <1>2, <1>6, <1>7, FS_CardinalityType

(* del_start() fills a slot, del_dochan() empties one.                     *)
LEMMA SlotFilled ==
  ASSUME TypeOK, NEW c \in Channels, NEW i \in Slots(c), NEW d \in DelRecords, NEW j \in Jobs,
         del' = [del EXCEPT ![c][i] = d]
  PROVE  SlotsOf(j)' = IF d.j = j THEN SlotsOf(j) \cup {<<c, i>>} ELSE SlotsOf(j) \ {<<c, i>>}
<1>1. DelTypeOK(del)
  BY DEF TypeOK, SendTypeOK
<1>2. \A x \in Channels : Slots(x) \subseteq Jobs
  BY SlotsFinite
<1>3. \A x \in Channels : \A k \in Slots(x) :
         del'[x][k] = IF x = c /\ k = i THEN d ELSE del[x][k]
  BY <1>1 DEF DelTypeOK
<1>4. ASSUME NEW s \in Channels \X Jobs
      PROVE  s \in SlotsOf(j)' <=>
                s \in IF d.j = j THEN SlotsOf(j) \cup {<<c, i>>} ELSE SlotsOf(j) \ {<<c, i>>}
  <2>1. CASE s = <<c, i>>
    BY <1>3, <2>1 DEF SlotsOf
  <2>2. CASE s # <<c, i>>
    <3>1. s[2] \in Slots(s[1]) => del'[s[1]][s[2]] = del[s[1]][s[2]]
      BY <1>3, <2>2
    <3> QED BY <2>2, <3>1 DEF SlotsOf
  <2> QED BY <2>1, <2>2
<1>5. <<c, i>> \in Channels \X Jobs
  BY <1>2
<1> QED BY <1>4, <1>5 DEF SlotsOf

LEMMA SlotChanged ==
  ASSUME TypeOK, NEW c \in Channels, NEW i \in Slots(c), NEW s,
         del' = [del EXCEPT ![c][i].st = s], NEW j
  PROVE  /\ SlotsOf(j)' = SlotsOf(j)
         /\ \A x \in Channels : \A k \in Slots(x) :
               del'[x][k].j = del[x][k].j /\ del'[x][k].recip = del[x][k].recip
<1>1. DelTypeOK(del)
  BY DEF TypeOK, SendTypeOK
<1>2. \A x \in Channels : \A k \in Slots(x) :
         del'[x][k] = IF x = c /\ k = i THEN [del[x][k] EXCEPT !.st = s] ELSE del[x][k]
  BY <1>1 DEF DelTypeOK
<1>3. \A x \in Channels : \A k \in Slots(x) : del[x][k] \in DelRecords
  BY SlotUsed
<1>4. \A x \in Channels : \A k \in Slots(x) :
         del'[x][k].j = del[x][k].j /\ del'[x][k].recip = del[x][k].recip
  BY <1>2, <1>3 DEF DelRecords, NoDel
<1> QED BY <1>4 DEF SlotsOf

-----------------------------------------------------------------------------
(* What JobTable says of one job, and what makes a job that nothing refers *)
(* to a free one.                                                          *)
LEMMA JobFree ==
  ASSUME TypeOK, JobsInv, NEW j \in Jobs
  PROVE  /\ jo[j] \in JobRecords /\ jo[j].refs \in Nat
         /\ jo[j].refs = 0 <=> SlotsOf(j) = {} /\ PassesOf(j) = {}
<1>1. jo[j] \in JobRecords
  BY DEF TypeOK, SendTypeOK
<1>2. jo[j].refs = Cardinality(SlotsOf(j)) + Cardinality(PassesOf(j))
  BY DEF JobsInv, JobTable
<1>3. /\ Cardinality(SlotsOf(j)) \in Nat /\ Cardinality(PassesOf(j)) \in Nat
      /\ Cardinality(SlotsOf(j)) = 0 <=> SlotsOf(j) = {}
      /\ Cardinality(PassesOf(j)) = 0 <=> PassesOf(j) = {}
  BY SlotsFinite, FS_EmptySet
<1> QED BY <1>1, <1>2, <1>3 DEF JobRecords

(* A slot in use, or a pass, refers to an open job of its channel.         *)
LEMMA Refers ==
  ASSUME TypeOK, JobsInv, NEW c \in Channels
  PROVE  /\ pass[c] # NoPass => /\ pass[c].j \in Jobs /\ jo[pass[c].j].refs > 0
                                /\ jo[pass[c].j].channel = c
         /\ \A i \in Slots(c) : del[c][i] # NoDel =>
               /\ del[c][i].j \in Jobs /\ jo[del[c][i].j].refs > 0
               /\ jo[del[c][i].j].channel = c
               /\ <<c, i>> \in SlotsOf(del[c][i].j)
<1>1. ASSUME pass[c] # NoPass
      PROVE  /\ pass[c].j \in Jobs /\ jo[pass[c].j].refs > 0 /\ jo[pass[c].j].channel = c
  <2>1. pass[c].j \in Jobs
    BY <1>1 DEF TypeOK, SendTypeOK, PassRecords
  <2>2. c \in PassesOf(pass[c].j)
    BY DEF PassesOf
  <2>3. jo[pass[c].j].refs \in Nat /\ jo[pass[c].j].refs # 0
    BY <2>1, <2>2, JobFree
  <2>4. jo[pass[c].j].channel = c
    BY <2>1, <2>2 DEF JobsInv, PassChannel
  <2> QED BY <2>1, <2>3, <2>4
<1>2. ASSUME NEW i \in Slots(c), del[c][i] # NoDel
      PROVE  /\ del[c][i].j \in Jobs /\ jo[del[c][i].j].refs > 0
             /\ jo[del[c][i].j].channel = c /\ <<c, i>> \in SlotsOf(del[c][i].j)
  <2>1. del[c][i].j \in Jobs /\ i \in Jobs
    BY <1>2, SlotUsed, SlotsFinite
  <2>2. <<c, i>> \in SlotsOf(del[c][i].j)
    BY <2>1 DEF SlotsOf
  <2>3. jo[del[c][i].j].refs \in Nat /\ jo[del[c][i].j].refs # 0
    BY <2>1, <2>2, JobFree
  <2>4. jo[del[c][i].j].channel = c
    BY <2>1, <2>2 DEF JobsInv, JobTable
  <2> QED BY <2>1, <2>2, <2>3, <2>4
<1> QED BY <1>1, <1>2

-----------------------------------------------------------------------------
LEMMA InitJobs == Init => JobsInv
<1> SUFFICES ASSUME Init PROVE JobsInv
  OBVIOUS
<1>1. ASSUME NEW j \in Jobs PROVE SlotsOf(j) = {} /\ PassesOf(j) = {} /\ jo[j] = NoJob
  <2>1. j # 0
    BY DEF Jobs
  <2> QED BY <2>1 DEF Init, SendInit, SlotsOf, PassesOf, NoDel, NoPass
<1> QED BY <1>1, FS_EmptySet DEF JobsInv, JobTable, PassChannel, NoJob

LEMMA SameJobs ==
  ASSUME JobsInv, UNCHANGED tables
  PROVE  JobsInv'
BY DEF JobsInv, JobTable, PassChannel, SlotsOf, PassesOf, tables

(* job_open() takes a job that nothing refers to.                          *)
LEMMA PassOpenJobs ==
  ASSUME TypeOK, JobsInv, NEW c \in Channels, NEW id \in Ids, PassOpen(c, id)
  PROVE  JobsInv'
<1> DEFINE j == Least(JobsFree)
<1>1. JobsFree \in SUBSET Nat /\ JobsFree # {}
  BY DEF PassOpen, JobsFree, Jobs
<1>2. j \in JobsFree
  BY <1>1, LeastType
<1>3. /\ pass' = [pass EXCEPT ![c] = [j |-> j, left |-> undone[id][c] \cup done[id][c]]]
      /\ jo' = [jo EXCEPT ![j] = [refs |-> 1, id |-> id, channel |-> c, numtodo |-> 0,
                                  hiteof |-> FALSE, dying |-> old[id]]]
      /\ del' = del /\ pass[c] = NoPass
  BY DEF PassOpen
<1> HIDE DEF j
<1>4. j \in Jobs /\ jo[j].refs = 0
  BY <1>2 DEF JobsFree
<1>5. /\ jo \in [Jobs -> JobRecords] /\ pass \in [Channels -> PassRecords]
      /\ NoPass.j = 0 /\ 0 \notin Jobs
  BY DEF TypeOK, SendTypeOK, NoPass, Jobs
<1>6. SlotsOf(j) = {} /\ PassesOf(j) = {}
  BY <1>4, JobFree
<1>7. \A k \in Jobs : /\ SlotsOf(k)' = SlotsOf(k)
                      /\ PassesOf(k)' = IF k = j THEN {c} ELSE PassesOf(k)
  BY <1>3, <1>5, <1>6 DEF SlotsOf, PassesOf
<1>8. /\ jo'[j].refs = 1 /\ jo'[j].channel = c /\ jo'[j].numtodo = 0
      /\ \A k \in Jobs : k # j => jo'[k] = jo[k]
  BY <1>3, <1>4, <1>5
<1>9. Cardinality({}) = 0 /\ Cardinality({c}) = 1
  BY FS_EmptySet, FS_Singleton
<1>10. ASSUME NEW k \in Jobs
       PROVE  /\ jo'[k].refs = Cardinality(SlotsOf(k)') + Cardinality(PassesOf(k)')
              /\ jo'[k].numtodo >= Cardinality(SlotsOf(k)')
              /\ \A s \in SlotsOf(k)' : s[1] = jo'[k].channel
              /\ \A x \in PassesOf(k)' : x = jo'[k].channel
  <2>1. CASE k = j
    BY <1>6, <1>7, <1>8, <1>9, <2>1
  <2>2. CASE k # j
    BY <1>7, <1>8, <2>2 DEF JobsInv, JobTable, PassChannel
  <2> QED BY <2>1, <2>2
<1> QED BY <1>10 DEF JobsInv, JobTable, PassChannel

(* del_start(): one more slot, one more reference, one more to report.     *)
LEMMA PassDeliverJobs ==
  ASSUME TypeOK, JobsInv, NEW c \in Channels, PassDeliver(c)
  PROVE  JobsInv'
<1> DEFINE j == pass[c].j
           i == Least(SlotsFree(c))
<1>1. SlotsFree(c) \in SUBSET Nat /\ SlotsFree(c) # {}
  BY DEF PassDeliver, DelAvail, SlotsFree, Slots
<1>2. i \in Slots(c) /\ del[c][i] = NoDel
  BY <1>1, LeastType DEF SlotsFree
<1>3. PICK r \in LeftToDo(c) :
         /\ pass' = [pass EXCEPT ![c].left = @ \ {r}]
         /\ del' = [del EXCEPT ![c][i] = [j |-> j, recip |-> r, st |-> "comm"]]
         /\ jo' = [jo EXCEPT ![j] = Referred(@)]
  BY DEF PassDeliver
<1>4. j \in Jobs /\ jo[j].refs > 0 /\ jo[j].channel = c
  BY Refers DEF PassDeliver
<1>5. r \in Recips
  <2>1. pass[c].left \subseteq Recips
    BY DEF PassDeliver, TypeOK, SendTypeOK, PassRecords
  <2> QED BY <2>1 DEF LeftToDo
<1> DEFINE d == [j |-> j, recip |-> r, st |-> "comm"]
<1> HIDE DEF i
<1>6. /\ jo \in [Jobs -> JobRecords] /\ pass \in [Channels -> PassRecords]
      /\ NoDel.j = 0 /\ 0 \notin Jobs
  BY DEF TypeOK, SendTypeOK, NoDel, Jobs
<1>7. d \in DelRecords /\ d.j = j
  BY <1>4, <1>5 DEF DelRecords, InUse
<1>8. ASSUME NEW k \in Jobs
      PROVE  /\ SlotsOf(k)' = IF k = j THEN SlotsOf(k) \cup {<<c, i>>} ELSE SlotsOf(k)
             /\ PassesOf(k)' = PassesOf(k)
             /\ <<c, i>> \notin SlotsOf(k)
  <2>1. <<c, i>> \notin SlotsOf(k)
    BY <1>2, <1>6 DEF SlotsOf
  <2>2. SlotsOf(k)' = IF j = k THEN SlotsOf(k) \cup {<<c, i>>} ELSE SlotsOf(k) \ {<<c, i>>}
    <3>1. del' = [del EXCEPT ![c][i] = d]
      BY <1>3
    <3>2. d \in DelRecords /\ d.j = j /\ i \in Slots(c)
      BY <1>2, <1>7
    <3> HIDE DEF d, j
    <3>3. SlotsOf(k)' = IF d.j = k THEN SlotsOf(k) \cup {<<c, i>>} ELSE SlotsOf(k) \ {<<c, i>>}
      BY <3>1, <3>2, SlotFilled
    <3> QED BY <3>2, <3>3
  <2>3. \A x \in Channels : pass'[x].j = pass[x].j
    <3>1. pass[c] \in [j : Jobs, left : SUBSET Recips]
      BY <1>6 DEF PassDeliver, PassRecords
    <3>2. [pass[c] EXCEPT !.left = @ \ {r}].j = pass[c].j
      BY <3>1
    <3> QED BY <1>3, <1>6, <3>2
  <2> QED BY <2>1, <2>2, <2>3 DEF PassesOf
<1>9. Cardinality(SlotsOf(j) \cup {<<c, i>>}) = Cardinality(SlotsOf(j)) + 1
  BY <1>4, <1>8, SlotsFinite, FS_AddElement
<1>10. /\ jo'[j].refs = jo[j].refs + 1 /\ jo'[j].numtodo = jo[j].numtodo + 1
       /\ jo'[j].channel = jo[j].channel /\ jo[j].refs \in Nat /\ jo[j].numtodo \in Int
       /\ \A k \in Jobs : k # j => jo'[k] = jo[k]
  <2>1. jo[j] \in JobRecords
    BY <1>4, <1>6
  <2>2. /\ Referred(jo[j]).refs = jo[j].refs + 1 /\ Referred(jo[j]).numtodo = jo[j].numtodo + 1
        /\ Referred(jo[j]).channel = jo[j].channel
    BY <2>1 DEF Referred, JobRecords
  <2>3. jo'[j] = Referred(jo[j])
    BY <1>3, <1>4, <1>6
  <2> QED BY <1>3, <1>4, <1>6, <2>1, <2>2, <2>3 DEF JobRecords
<1>11. Cardinality(SlotsOf(j)) \in Nat /\ Cardinality(PassesOf(j)) \in Nat
  BY SlotsFinite
<1>12. ASSUME NEW k \in Jobs
       PROVE  /\ jo'[k].refs = Cardinality(SlotsOf(k)') + Cardinality(PassesOf(k)')
              /\ jo'[k].numtodo >= Cardinality(SlotsOf(k)')
              /\ \A s \in SlotsOf(k)' : s[1] = jo'[k].channel
              /\ \A x \in PassesOf(k)' : x = jo'[k].channel
  <2> HIDE DEF j
  <2>1. /\ jo[k].refs = Cardinality(SlotsOf(k)) + Cardinality(PassesOf(k))
        /\ jo[k].numtodo >= Cardinality(SlotsOf(k))
        /\ \A s \in SlotsOf(k) : s[1] = jo[k].channel
        /\ \A x \in PassesOf(k) : x = jo[k].channel
    BY DEF JobsInv, JobTable, PassChannel
  <2>2. CASE k = j
    BY <1>4, <1>8, <1>9, <1>10, <1>11, <2>1, <2>2
  <2>3. CASE k # j
    BY <1>8, <1>10, <2>1, <2>3
  <2> QED BY <2>2, <2>3
<1> QED BY <1>12 DEF JobsInv, JobTable, PassChannel

LEMMA SlotStJobs ==
  ASSUME TypeOK, JobsInv, NEW c \in Channels, NEW i \in Slots(c), NEW s,
         del' = [del EXCEPT ![c][i].st = s], jo' = jo, pass' = pass
  PROVE  JobsInv'
<1>1. \A j \in Jobs : SlotsOf(j)' = SlotsOf(j) /\ PassesOf(j)' = PassesOf(j)
  BY SlotChanged DEF PassesOf
<1> QED BY <1>1 DEF JobsInv, JobTable, PassChannel

-----------------------------------------------------------------------------
(* job_close(): one reference less, or the job is free.                    *)
LEMMA CloseJob ==
  ASSUME TypeOK, NEW j \in Jobs, NEW job \in JobRecords, NEW fl, NEW un, NEW dn, NEW f,
         JobClose(j, job, fl, un, dn, f)
  PROVE  /\ \A k \in Jobs : k # j => jo'[k] = jo[k]
         /\ jo'[j] = IF job.refs > 1 THEN [job EXCEPT !.refs = @ - 1] ELSE NoJob
         /\ jo'[j].refs = IF job.refs > 1 THEN job.refs - 1 ELSE 0
         /\ job.refs > 1 => /\ jo'[j].id = job.id /\ jo'[j].channel = job.channel
                            /\ jo'[j].numtodo = job.numtodo /\ jo'[j].hiteof = job.hiteof
<1>1. jo \in [Jobs -> JobRecords]
  BY DEF TypeOK, SendTypeOK
<1>2. jo' = [jo EXCEPT ![j] = IF job.refs > 1 THEN [job EXCEPT !.refs = @ - 1] ELSE NoJob]
  BY DEF JobClose
<1>3. NoJob.refs = 0
  BY DEF NoJob
<1> QED BY <1>1, <1>2, <1>3 DEF JobRecords

LEMMA CloseJobs ==
  ASSUME TypeOK, JobsInv, NEW j \in Jobs, NEW job \in JobRecords, NEW fl, NEW un, NEW dn, NEW f,
         JobClose(j, job, fl, un, dn, f),
         job.refs = jo[j].refs, job.channel = jo[j].channel,
         job.numtodo >= Cardinality(SlotsOf(j)'),
         Cardinality(SlotsOf(j)') + Cardinality(PassesOf(j)') + 1 = job.refs,
         SlotsOf(j)' \subseteq SlotsOf(j), PassesOf(j)' \subseteq PassesOf(j),
         \A k \in Jobs : k # j => SlotsOf(k)' = SlotsOf(k) /\ PassesOf(k)' = PassesOf(k)
  PROVE  JobsInv'
<1>1. /\ \A k \in Jobs : k # j => jo'[k] = jo[k]
      /\ jo'[j] = IF job.refs > 1 THEN [job EXCEPT !.refs = @ - 1] ELSE NoJob
      /\ jo'[j].refs = IF job.refs > 1 THEN job.refs - 1 ELSE 0
      /\ job.refs > 1 => /\ jo'[j].channel = job.channel /\ jo'[j].numtodo = job.numtodo
  BY CloseJob
<1>2. job.refs \in Nat /\ NoJob.numtodo = 0
  BY DEF JobRecords, NoJob
<1>3. ASSUME NEW k \in Jobs
      PROVE  /\ jo'[k].refs = Cardinality(SlotsOf(k)') + Cardinality(PassesOf(k)')
             /\ jo'[k].numtodo >= Cardinality(SlotsOf(k)')
             /\ \A s \in SlotsOf(k)' : s[1] = jo'[k].channel
             /\ \A x \in PassesOf(k)' : x = jo'[k].channel
  <2>1. /\ jo[k].refs = Cardinality(SlotsOf(k)) + Cardinality(PassesOf(k))
        /\ jo[k].numtodo >= Cardinality(SlotsOf(k))
        /\ \A s \in SlotsOf(k) : s[1] = jo[k].channel
        /\ \A x \in PassesOf(k) : x = jo[k].channel
    BY DEF JobsInv, JobTable, PassChannel
  <2>2. CASE k # j
    BY <1>1, <2>1, <2>2
  <2>3. CASE k = j
    <3>1. /\ IsFiniteSet(SlotsOf(j)') /\ IsFiniteSet(PassesOf(j)')
          /\ Cardinality(SlotsOf(j)') \in Nat /\ Cardinality(PassesOf(j)') \in Nat
      <4>1. SlotsOf(j)' \in SUBSET SlotsOf(j) /\ PassesOf(j)' \in SUBSET PassesOf(j)
        OBVIOUS
      <4> QED BY <4>1, SlotsFinite, FS_Subset, FS_CardinalityType
    <3>2. CASE job.refs > 1
      <4>1. /\ jo'[j].refs = job.refs - 1 /\ jo'[j].channel = jo[j].channel
            /\ jo'[j].numtodo = job.numtodo
        BY <1>1, <3>2
      <4>2. jo'[j].refs = Cardinality(SlotsOf(j)') + Cardinality(PassesOf(j)')
        BY <1>2, <3>1, <4>1
      <4>3. /\ \A s \in SlotsOf(j)' : s[1] = jo[j].channel
            /\ \A x \in PassesOf(j)' : x = jo[j].channel
        BY <2>1, <2>3
      <4> QED BY <2>3, <4>1, <4>2, <4>3
    <3>3. CASE ~(job.refs > 1)
      <4>1. Cardinality(SlotsOf(j)') = 0 /\ Cardinality(PassesOf(j)') = 0
        BY <1>2, <3>1, <3>3
      <4>2. SlotsOf(j)' = {} /\ PassesOf(j)' = {}
        BY <3>1, <4>1, FS_EmptySet
      <4> QED BY <1>1, <1>2, <2>3, <3>3, <4>1, <4>2
    <3> QED BY <3>2, <3>3
  <2> QED BY <2>2, <2>3
<1> QED BY <1>3 DEF JobsInv, JobTable, PassChannel

(* The pass gives up its reference.                                        *)
LEMMA PassGone ==
  ASSUME TypeOK, JobsInv, NEW c \in Channels, pass[c] # NoPass,
         pass' = [pass EXCEPT ![c] = NoPass], del' = del, NEW k \in Jobs
  PROVE  /\ SlotsOf(k)' = SlotsOf(k)
         /\ PassesOf(k)' = PassesOf(k) \ {c}
         /\ k # pass[c].j => PassesOf(k)' = PassesOf(k)
         /\ k = pass[c].j => /\ PassesOf(k)' = {} /\ PassesOf(k) = {c}
                             /\ jo[k].refs = Cardinality(SlotsOf(k)) + 1
<1>1. pass \in [Channels -> PassRecords] /\ NoPass.j = 0 /\ 0 \notin Jobs
  BY DEF TypeOK, SendTypeOK, NoPass, Jobs
<1>2. SlotsOf(k)' = SlotsOf(k) /\ PassesOf(k)' = PassesOf(k) \ {c}
  BY <1>1 DEF SlotsOf, PassesOf
<1>3. k = pass[c].j => PassesOf(k) = {c} /\ jo[k].refs = Cardinality(SlotsOf(k)) + 1
  <2> SUFFICES ASSUME k = pass[c].j
               PROVE  PassesOf(k) = {c} /\ jo[k].refs = Cardinality(SlotsOf(k)) + 1
    OBVIOUS
  <2>1. c \in PassesOf(k)
    BY DEF PassesOf
  <2>2. PassesOf(k) = {c}
    BY <2>1 DEF JobsInv, PassChannel
  <2> QED BY <2>2, FS_Singleton DEF JobsInv, JobTable
<1> QED BY <1>2, <1>3 DEF PassesOf

LEMMA PassCloseJobs ==
  ASSUME TypeOK, JobsInv, NEW c \in Channels, PassClose(c)
  PROVE  JobsInv'
<1>0. PICK j : j = pass[c].j
  OBVIOUS
<1> DEFINE read == [jo[j] EXCEPT !.hiteof = TRUE]
<1>1. /\ pass[c] # NoPass /\ pass' = [pass EXCEPT ![c] = NoPass] /\ del' = del
      /\ \/ JobClose(j, read, files, undone, done, 0)
         \/ JobClose(j, jo[j], files, undone, done, 1)
  BY <1>0 DEF PassClose
<1>2. j \in Jobs
  BY <1>0, <1>1, Refers
<1>3. jo[j] \in JobRecords
  BY <1>2, JobFree
<1>4. /\ read \in JobRecords /\ read.refs = jo[j].refs /\ read.channel = jo[j].channel
      /\ read.numtodo = jo[j].numtodo
  BY <1>3 DEF JobRecords
<1>5. /\ SlotsOf(j)' = SlotsOf(j) /\ PassesOf(j)' = {} /\ PassesOf(j) = {c}
      /\ jo[j].refs = Cardinality(SlotsOf(j)) + 1
      /\ \A k \in Jobs : k # j => SlotsOf(k)' = SlotsOf(k) /\ PassesOf(k)' = PassesOf(k)
  BY <1>0, <1>1, <1>2, PassGone
<1>6. /\ jo[j].numtodo >= Cardinality(SlotsOf(j)) /\ Cardinality({}) = 0
      /\ Cardinality(SlotsOf(j)) \in Nat
  BY <1>2, SlotsFinite, FS_EmptySet DEF JobsInv, JobTable
<1>7. /\ Cardinality(SlotsOf(j)') + Cardinality(PassesOf(j)') + 1 = jo[j].refs
      /\ jo[j].numtodo >= Cardinality(SlotsOf(j)')
      /\ SlotsOf(j)' \subseteq SlotsOf(j) /\ PassesOf(j)' \subseteq PassesOf(j)
  BY <1>5, <1>6
<1> HIDE DEF read
<1>8. CASE JobClose(j, read, files, undone, done, 0)
  BY <1>2, <1>4, <1>5, <1>7, <1>8, CloseJobs
<1>9. CASE JobClose(j, jo[j], files, undone, done, 1)
  BY <1>2, <1>3, <1>5, <1>7, <1>9, CloseJobs
<1> QED BY <1>1, <1>8, <1>9

(* A slot gives up its reference.                                          *)
LEMMA SlotGone ==
  ASSUME TypeOK, JobsInv, NEW c \in Channels, NEW i \in Slots(c), del[c][i] # NoDel,
         del' = [del EXCEPT ![c][i] = NoDel], pass' = pass, NEW k \in Jobs
  PROVE  /\ SlotsOf(k)' = SlotsOf(k) \ {<<c, i>>}
         /\ PassesOf(k)' = PassesOf(k)
         /\ k # del[c][i].j => SlotsOf(k)' = SlotsOf(k)
         /\ k = del[c][i].j => Cardinality(SlotsOf(k)) = Cardinality(SlotsOf(k)') + 1
         /\ IsFiniteSet(SlotsOf(k)') /\ Cardinality(SlotsOf(k)') \in Nat
<1>1. NoDel \in DelRecords /\ NoDel.j # k
  BY DEF DelRecords, NoDel, Jobs
<1>2. SlotsOf(k)' = SlotsOf(k) \ {<<c, i>>}
  BY <1>1, SlotFilled
<1>3. /\ IsFiniteSet(SlotsOf(k)) /\ Cardinality(SlotsOf(k)) \in Nat
      /\ IsFiniteSet(SlotsOf(k) \ {<<c, i>>})
      /\ Cardinality(SlotsOf(k) \ {<<c, i>>}) =
            IF <<c, i>> \in SlotsOf(k) THEN Cardinality(SlotsOf(k)) - 1
                                       ELSE Cardinality(SlotsOf(k))
  BY SlotsFinite, FS_RemoveElement
<1>4. Cardinality(SlotsOf(k) \ {<<c, i>>}) \in Nat
  BY <1>3, FS_CardinalityType
<1>5. <<c, i>> \in SlotsOf(k) <=> k = del[c][i].j
  BY Refers DEF SlotsOf
<1> QED BY <1>2, <1>3, <1>4, <1>5 DEF PassesOf

(* What del_dochan() does to the job, for each verdict.                    *)
Reported(c, i, job, fl, un, dn, f) ==
    /\ JobClose(del[c][i].j, job, fl, un, dn, f)
    /\ \/ /\ job = jo[del[c][i].j]
          /\ fl = files /\ un = undone /\ dn = done /\ f = 0 /\ notes' = notes
          /\ Verdict(del[c][i].st, job.dying) = "Z"
       \/ /\ job = [jo[del[c][i].j] EXCEPT !.numtodo = @ - 1]
          /\ \/ /\ Verdict(del[c][i].st, job.dying) = "K"
                /\ fl = files /\ notes' = notes
             \/ /\ Verdict(del[c][i].st, job.dying) = "D"
                /\ fl = [files EXCEPT ![job.id] = @ \cup {"bounce"}]
                /\ notes' = [notes EXCEPT ![job.id] = @ \cup {del[c][i].recip}]
          /\ \/ /\ f = 0 /\ un = MarkDone(undone, job.id, c, del[c][i].recip)
                /\ dn = [done EXCEPT ![job.id][c] = @ \cup {del[c][i].recip}]
             \/ f = 1 /\ un = undone /\ dn = done

LEMMA ReportCase ==
  ASSUME TypeOK, JobsInv, NEW c \in Channels, NEW i \in Slots(c), DelReport(c, i)
  PROVE  /\ del[c][i] # NoDel /\ del[c][i].j \in Jobs /\ jo[del[c][i].j] \in JobRecords
         /\ del[c][i].st \in {"K", "Z", "D"}
         /\ jo[del[c][i].j].refs > 0 /\ jo[del[c][i].j].channel = c
         /\ del[c][i].recip \in Recips
         /\ del' = [del EXCEPT ![c][i] = NoDel] /\ pass' = pass
         /\ \E job \in JobRecords : \E fl, un, dn : \E f \in Nat :
               /\ job.refs = jo[del[c][i].j].refs /\ job.id = jo[del[c][i].j].id
               /\ job.channel = c /\ job.hiteof = jo[del[c][i].j].hiteof
               /\ job.dying = jo[del[c][i].j].dying
               /\ Reported(c, i, job, fl, un, dn, f)
<1> DEFINE d == del[c][i]
           j == d.j
           old0 == jo[j]
           counted == [old0 EXCEPT !.numtodo = @ - 1]
           verdict == Verdict(d.st, old0.dying)
<1>1. /\ d.st \in {"K", "Z", "D"} /\ del' = [del EXCEPT ![c][i] = NoDel] /\ pass' = pass
  BY DEF DelReport
<1>2. d # NoDel /\ d.recip \in Recips
  BY <1>1, SlotUsed DEF InUse
<1>3. j \in Jobs /\ old0.refs > 0 /\ old0.channel = c
  BY <1>2, Refers
<1>4. old0 \in JobRecords
  BY <1>3, JobFree
<1>5. /\ counted \in JobRecords /\ counted.refs = old0.refs /\ counted.id = old0.id
      /\ counted.channel = old0.channel /\ counted.hiteof = old0.hiteof
      /\ counted.dying = old0.dying
  BY <1>4 DEF JobRecords
<1>6. verdict \in {"K", "Z", "D"}
  BY <1>1 DEF Verdict
<1> DEFINE Fl == IF verdict = "D" THEN [files EXCEPT ![old0.id] = @ \cup {"bounce"}] ELSE files
           Un(ok) == IF ok THEN MarkDone(undone, old0.id, c, d.recip) ELSE undone
           Dn(ok) == IF ok THEN [done EXCEPT ![old0.id][c] = @ \cup {d.recip}] ELSE done
           F(ok) == IF ok THEN 0 ELSE 1
<1>7. \/ /\ verdict = "Z" /\ notes' = notes
         /\ JobClose(j, old0, files, undone, done, 0)
      \/ /\ verdict # "Z"
         /\ notes' = IF verdict = "D" THEN [notes EXCEPT ![old0.id] = @ \cup {d.recip}] ELSE notes
         /\ \E ok \in BOOLEAN : JobClose(j, counted, Fl, Un(ok), Dn(ok), F(ok))
  BY DEF DelReport
<1>8. CASE verdict = "Z" /\ notes' = notes /\ JobClose(j, old0, files, undone, done, 0)
  <2>1. Reported(c, i, old0, files, undone, done, 0)
    BY <1>8 DEF Reported
  <2> QED BY <1>1, <1>2, <1>3, <1>4, <2>1
<1>9. ASSUME verdict # "Z", NEW ok \in BOOLEAN,
             notes' = IF verdict = "D" THEN [notes EXCEPT ![old0.id] = @ \cup {d.recip}] ELSE notes,
             JobClose(j, counted, Fl, Un(ok), Dn(ok), F(ok))
      PROVE  Reported(c, i, counted, Fl, Un(ok), Dn(ok), F(ok))
  <2>1. \/ verdict = "K" /\ Fl = files /\ notes' = notes
        \/ /\ verdict = "D" /\ Fl = [files EXCEPT ![old0.id] = @ \cup {"bounce"}]
           /\ notes' = [notes EXCEPT ![old0.id] = @ \cup {d.recip}]
    BY <1>6, <1>9
  <2>2. \/ /\ F(ok) = 0 /\ Un(ok) = MarkDone(undone, old0.id, c, d.recip)
           /\ Dn(ok) = [done EXCEPT ![old0.id][c] = @ \cup {d.recip}]
        \/ F(ok) = 1 /\ Un(ok) = undone /\ Dn(ok) = done
    OBVIOUS
  <2> HIDE DEF Fl, Un, Dn, F
  <2> QED BY <1>5, <1>9, <2>1, <2>2 DEF Reported
<1>10. ASSUME verdict # "Z", NEW ok \in BOOLEAN,
             Reported(c, i, counted, Fl, Un(ok), Dn(ok), F(ok))
       PROVE \E job \in JobRecords : \E fl, un, dn : \E f \in Nat :
               /\ job.refs = old0.refs /\ job.id = old0.id
               /\ job.channel = c /\ job.hiteof = old0.hiteof /\ job.dying = old0.dying
               /\ Reported(c, i, job, fl, un, dn, f)
  <2> HIDE DEF d, old0, counted, verdict, Fl, Un, Dn
  <2>1. F(ok) \in Nat
    OBVIOUS
  <2> HIDE DEF F
  <2> QED BY <1>3, <1>5, <1>10, <2>1
<1> QED BY <1>1, <1>2, <1>3, <1>4, <1>7, <1>8, <1>9, <1>10

LEMMA DelReportJobs ==
  ASSUME TypeOK, JobsInv, NEW c \in Channels, NEW i \in Slots(c), DelReport(c, i)
  PROVE  JobsInv'
<1>0. PICK j : j = del[c][i].j
  OBVIOUS
<1>1. /\ del[c][i] # NoDel /\ j \in Jobs /\ jo[j] \in JobRecords /\ jo[j].channel = c
      /\ del' = [del EXCEPT ![c][i] = NoDel] /\ pass' = pass
  BY <1>0, ReportCase
<1>2. PICK job, fl, un, dn, f :
         /\ job \in JobRecords
         /\ job.refs = jo[j].refs /\ job.channel = c
         /\ Reported(c, i, job, fl, un, dn, f)
  BY <1>0, ReportCase
<1>3. JobClose(j, job, fl, un, dn, f) /\ job.numtodo >= jo[j].numtodo - 1
  BY <1>0, <1>1, <1>2 DEF Reported, JobRecords
<1>4. /\ PassesOf(j)' = PassesOf(j) /\ SlotsOf(j)' \subseteq SlotsOf(j)
      /\ \A k \in Jobs : k # j => SlotsOf(k)' = SlotsOf(k) /\ PassesOf(k)' = PassesOf(k)
      /\ Cardinality(SlotsOf(j)) = Cardinality(SlotsOf(j)') + 1
      /\ Cardinality(SlotsOf(j)') \in Nat
  BY <1>0, <1>1, SlotGone
<1>5. /\ jo[j].refs = Cardinality(SlotsOf(j)) + Cardinality(PassesOf(j))
      /\ jo[j].numtodo >= Cardinality(SlotsOf(j))
      /\ jo[j].numtodo \in Int /\ job.numtodo \in Int
      /\ Cardinality(PassesOf(j)) \in Nat
  BY <1>1, <1>2, SlotsFinite DEF JobsInv, JobTable, JobRecords
<1>6. /\ job.numtodo >= Cardinality(SlotsOf(j)')
      /\ Cardinality(SlotsOf(j)') + Cardinality(PassesOf(j)') + 1 = job.refs
  <2>1. Cardinality(PassesOf(j)') = Cardinality(PassesOf(j))
    BY <1>1, <1>4
  <2> QED BY <1>2, <1>3, <1>4, <1>5, <2>1
<1> QED BY <1>1, <1>2, <1>3, <1>4, <1>6, CloseJobs

-----------------------------------------------------------------------------
LEMMA ForgetJobs ==
  ASSUME Forget
  PROVE  JobsInv'
<1>1. ASSUME NEW j \in Jobs PROVE SlotsOf(j)' = {} /\ PassesOf(j)' = {} /\ jo'[j] = NoJob
  <2>1. j # 0
    BY DEF Jobs
  <2> QED BY <2>1 DEF Forget, SlotsOf, PassesOf, NoDel, NoPass
<1> QED BY <1>1, FS_EmptySet DEF JobsInv, JobTable, PassChannel, NoJob

LEMMA NextJobs == TypeOK /\ JobsInv /\ [Next]_vars => JobsInv'
<1> SUFFICES ASSUME TypeOK, JobsInv, [Next]_vars PROVE JobsInv'
  OBVIOUS
<1>1. ASSUME NEW p \in Procs, Inject(p) \/ InjectFails(p) \/ Envelope(p) \/ Queue(p)
      PROVE  JobsInv'
  <2>1. UNCHANGED tables
    BY <1>1 DEF Inject, InjectFails, Envelope, Queue, sendVars, tables
  <2> QED BY <2>1, SameJobs
<1>2. CASE SendAlone
  <2>1. ASSUME NEW c \in Channels, NEW id \in Ids, PassOpen(c, id) PROVE JobsInv'
    BY <2>1, PassOpenJobs
  <2>2. ASSUME NEW c \in Channels, PassDeliver(c) PROVE JobsInv'
    BY <2>2, PassDeliverJobs
  <2>3. ASSUME NEW c \in Channels, PassClose(c) PROVE JobsInv'
    BY <2>3, PassCloseJobs
  <2>4. ASSUME NEW c \in Channels, NEW i \in Slots(c), CommWrite(c, i) PROVE JobsInv'
    BY <2>4, SlotStJobs DEF CommWrite
  <2>5. ASSUME \/ Start \/ Term
               \/ \E id \in Ids : \/ RetryFailed(id) \/ MessDoneReturns(id) \/ Expire(id)
                                   \/ MessDoneBounces(id) \/ MessDoneFails(id)
                                   \/ PreprocessFails(id)
               \/ \E c \in Channels : SpawnDied(c)
        PROVE  JobsInv'
    <3>1. UNCHANGED tables
      BY <2>5 DEF Start, Term, RetryFailed, MessDoneReturns, Expire, MessDoneBounces,
                  MessDoneFails, EndMessFails, PreprocessFails, SpawnDied, sendVars, tables
    <3> QED BY <3>1, SameJobs
  <2> QED BY <1>2, <2>1, <2>2, <2>3, <2>4, <2>5 DEF SendAlone
<1>3. ASSUME NEW c \in Channels, NEW i \in Slots(c), Report(c, i) PROVE JobsInv'
  BY <1>3, DelReportJobs DEF Report
<1>4. ASSUME NEW c \in Channels, NEW i \in Slots(c), NEW result \in {"K", "Z", "D"},
             Delivery(c, i, result)
      PROVE  JobsInv'
  BY <1>4, SlotStJobs DEF Delivery, Deliver
<1>5. ASSUME NEW id \in Ids, Ask(id) \/ BounceOver(id) PROVE JobsInv'
  <2>1. UNCHANGED tables
    BY <1>5 DEF Ask, Preprocess, MessDoneEnds, EndMess, Cleanup, BounceOver, BounceAccepted,
                BounceAcceptedFails, EndMessFails, BounceRefused, tables
  <2> QED BY <2>1, SameJobs
<1>6. CASE Answer \/ Clean \/ Tick \/ UNCHANGED vars
  <2>1. UNCHANGED tables
    BY <1>6 DEF Answer, Preprocessed, Answered, CleanDied, Clean, Tick, vars, sendVars, tables
  <2> QED BY <2>1, SameJobs
<1>7. CASE Exits \/ Crash
  BY <1>7, ForgetJobs DEF Exits, SendExit, Crash
<1> QED BY <1>1, <1>2, <1>3, <1>4, <1>5, <1>6, <1>7 DEF Next

(* For any concurrency, any number of messages and recipients, and any     *)
(* failures: job_close() frees a job with its last reference, not sooner   *)
(* and not later, and numtodo covers the deliveries under way.             *)
THEOREM JobTableCorrect == Spec => []JobsInv
<1>1. Init => JobsInv
  BY InitJobs
<1>2. TypeOK /\ JobsInv /\ [Next]_vars => JobsInv'
  BY NextJobs
<1> QED BY <1>1, <1>2, TypeCorrect, PTL DEF Spec

(* In every reachable state refs of a job is the number of its pass and    *)
(* its delivery slots, and no slot or pass names a job that is free.       *)
THEOREM ReferencesCounted == Spec => []JobTable
<1>1. JobsInv => JobTable
  BY DEF JobsInv
<1> QED BY <1>1, JobTableCorrect, PTL

-----------------------------------------------------------------------------
(***************************************************************************)
(* The files of a message, who may remove them and who works on them.      *)
(*                                                                         *)
(* Nobody removes a file of a qmail-queue that is still alive.             *)
(* Nothing tells qmail-send and qmail-clean which processes are alive: the *)
(* proof rests on the order in which the three programs make and remove    *)
(* files, on there being one request to qmail-clean at a time, and on      *)
(* DEATH < OSSIFIED.  LiveInjectorSafe is not inductive; InjectorInv is,   *)
(* given TypeOK.                                                           *)
(*                                                                         *)
(* Then the states: INTERNALS.md names five of a message number, and       *)
(* qmail-send.c:384-386 what pqchan and the job table may hold; neither is *)
(* inductive.  What makes them so: a qmail-queue has exactly the files it  *)
(* has made, a request to qmail-clean finds the files it was meant for,    *)
(* and every entry and every open job is for a channel file of a           *)
(* preprocessed message, one for each.  This part needs pqstart() to read  *)
(* every message it finds: when stat() fails there, two jobs can work on   *)
(* one channel file.  So its results are for StatFails = FALSE.            *)
(***************************************************************************)


(* The process has its inode and has not made its todo/ file.              *)
Entering == {"pid", "linked", "mess", "body", "intd", "ready"}

(* A process that lives is the only one on its inode.                      *)
OwnInode ==
    \A p \in Procs : qpc[p] \in Live =>
        /\ qid[p] \in Ids
        /\ \A q \in Procs : qid[q] = qid[p] => q = p

(* Until it makes its todo/ file, what it made is there, nothing looks     *)
(* like a queued message, and it is younger than its alarm.                *)
Hidden ==
    \A p \in Procs : qpc[p] \in Entering =>
        /\ Needs(p) \subseteq files[qid[p]]
        /\ "todo" \notin files[qid[p]] /\ "info" \notin files[qid[p]]
        /\ age[qid[p]] <= DEATH

(* mess/ is the last file of a message to go: its number is not free       *)
(* before todo/ and info/ are gone.                                        *)
MessLast ==
    \A id \in Ids : "todo" \in files[id] \/ "info" \in files[id] => "mess" \in files[id]

(* While qmail-clean has a request, qmail-send waits for it, the number is *)
(* not free, it belongs to no process that is still making the message,    *)
(* and mess/ is asked to be removed only when todo/ and info/ are gone.    *)
RequestSafe ==
    cpc # "dead" /\ creq # NoRequest =>
        /\ send = "clean"
        /\ "mess" \in files[creq.id]
        /\ \A p \in Procs : qpc[p] \in Entering => qid[p] # creq.id
        /\ creq.op = "foop" =>
              "todo" \notin files[creq.id] /\ "info" \notin files[creq.id]

(* An answer is the answer to the one request, and it is waited for.       *)
OneRequest ==
    /\ creply # "none" => creq = NoRequest /\ send = "clean"
    /\ cpc \in {"intd", "last"} => creq # NoRequest

(* The message injectbounce() reports on is a preprocessed one.            *)
BounceInTurn ==
    send = "inject" =>
        /\ work.id \in Ids
        /\ "info" \in files[work.id] /\ "todo" \notin files[work.id]

InjectorInv ==
    /\ OwnInode /\ Hidden /\ MessLast
    /\ RequestSafe /\ OneRequest /\ BounceInTurn

-----------------------------------------------------------------------------
(* What a process needs is in mess/ and intd/.                             *)
LEMMA NeedsFiles ==
  ASSUME NEW p
  PROVE  Needs(p) \subseteq {"mess", "intd"}
BY DEF Needs

LEMMA InitInv == Init => InjectorInv
<1> SUFFICES ASSUME Init PROVE InjectorInv
  OBVIOUS
<1>1. OwnInode /\ Hidden
  BY DEF Init, QueueInit, OwnInode, Hidden, Live, Entering
<1>2. MessLast
  BY DEF Init, DirInit, MessLast
<1>3. RequestSafe /\ OneRequest /\ BounceInTurn
  BY DEF Init, CleanInit, SendInit, RequestSafe, OneRequest, BounceInTurn
<1> QED BY <1>1, <1>2, <1>3 DEF InjectorInv

-----------------------------------------------------------------------------
(* Steps of qmail-send that leave the processes, qmail-clean, and the      *)
(* files mess/, intd/, todo/ and info/ alone.                              *)
QuietFiles ==
    \A id \in Ids, k \in {"mess", "intd", "todo", "info"} :
        k \in files'[id] <=> k \in files[id]

LEMMA QuietInv ==
  ASSUME TypeOK, InjectorInv, UNCHANGED <<queueVars, cleanVars, age>>, QuietFiles,
         \/ send' = send /\ work' = work
         \/ send # "clean" /\ send' = "loop"
  PROVE  InjectorInv'
<1>1. OwnInode'
  BY DEF InjectorInv, OwnInode, queueVars
<1>2. Hidden'
  <2> SUFFICES ASSUME NEW p \in Procs, qpc[p] \in Entering
               PROVE  /\ Needs(p)' \subseteq files'[qid[p]]
                      /\ "todo" \notin files'[qid[p]] /\ "info" \notin files'[qid[p]]
                      /\ age[qid[p]] <= DEATH
    BY DEF Hidden, queueVars
  <2>1. qid[p] \in Ids /\ Needs(p)' = Needs(p)
    BY DEF InjectorInv, OwnInode, Entering, Live, Needs, queueVars
  <2> QED BY <2>1, NeedsFiles DEF InjectorInv, Hidden, QuietFiles
<1>3. MessLast'
  BY DEF InjectorInv, MessLast, QuietFiles
<1>4. RequestSafe'
  <2> SUFFICES ASSUME cpc # "dead", creq # NoRequest
               PROVE  /\ send' = "clean"
                      /\ "mess" \in files'[creq.id]
                      /\ \A p \in Procs : qpc[p] \in Entering => qid[p] # creq.id
                      /\ creq.op = "foop" =>
                            "todo" \notin files'[creq.id] /\ "info" \notin files'[creq.id]
    BY DEF RequestSafe, queueVars, cleanVars
  <2>1. creq.id \in Ids
    BY DEF TypeOK, CleanTypeOK, Requests
  <2> QED BY <2>1 DEF InjectorInv, RequestSafe, QuietFiles
<1>5. OneRequest'
  BY DEF InjectorInv, OneRequest, cleanVars
<1>6. BounceInTurn'
  BY DEF InjectorInv, BounceInTurn, QuietFiles
<1> QED BY <1>1, <1>2, <1>3, <1>4, <1>5, <1>6 DEF InjectorInv

(* job_close() removes at most a channel file.                             *)
LEMMA JobCloseFiles ==
  ASSUME NEW j, NEW job \in JobRecords, NEW fl \in [Ids -> SUBSET Kinds],
         NEW un, NEW dn, NEW f, JobClose(j, job, fl, un, dn, f),
         NEW id \in Ids, NEW k \in {"mess", "intd", "todo", "info"}
  PROVE  k \in files'[id] <=> k \in fl[id]
<1>1. job.channel # k
  BY DEF JobRecords, Channels
<1>2. CASE GoesOn(job, fl, un, dn, f)
  BY <1>2 DEF GoesOn
<1>3. CASE ChannelEnds(job, fl, un, dn, f)
  BY <1>1, <1>3 DEF ChannelEnds
<1> QED BY <1>2, <1>3 DEF JobClose

LEMMA PassCloseFiles ==
  ASSUME TypeOK, NEW c \in Channels, PassClose(c)
  PROVE  QuietFiles
<1> DEFINE j == pass[c].j
           read == [jo[j] EXCEPT !.hiteof = TRUE]
<1>1. files \in [Ids -> SUBSET Kinds]
  BY DEF TypeOK, DirTypeOK
<1>2. jo[j] \in JobRecords
  BY DEF PassClose, TypeOK, SendTypeOK, PassRecords
<1>3. read \in JobRecords
  BY <1>2 DEF JobRecords
<1>4. \/ JobClose(j, read, files, undone, done, 0)
      \/ JobClose(j, jo[j], files, undone, done, 1)
  BY DEF PassClose
<1> HIDE DEF j, read
<1> QED BY <1>1, <1>2, <1>3, <1>4, JobCloseFiles DEF QuietFiles

LEMMA DelReportFiles ==
  ASSUME TypeOK, NEW c \in Channels, NEW i \in Slots(c), DelReport(c, i)
  PROVE  QuietFiles
<1> DEFINE d == del[c][i]
           job == jo[d.j]
           counted == [job EXCEPT !.numtodo = @ - 1]
           noted1 == [files EXCEPT ![job.id] = @ \cup {"bounce"}]
<1>1. files \in [Ids -> SUBSET Kinds] /\ noted1 \in [Ids -> SUBSET Kinds]
  BY DEF TypeOK, DirTypeOK, Kinds
<1>2. job \in JobRecords
  <2>1. d \in DelRecords
    BY DEF TypeOK, SendTypeOK, DelTypeOK
  <2>2. d # NoDel
    <3>1. del[c][i].st \in {"K", "Z", "D"}
      BY DEF DelReport
    <3> QED BY <3>1 DEF NoDel
  <2>3. d.j \in Jobs
    <3> HIDE DEF d
    <3> QED BY <2>1, <2>2 DEF DelRecords
  <2> QED BY <2>3 DEF TypeOK, SendTypeOK
<1>3. counted \in JobRecords
  BY <1>2 DEF JobRecords
<1>4. \A id \in Ids, k \in {"mess", "intd", "todo", "info"} :
         k \in noted1[id] <=> k \in files[id]
  BY <1>1
<1>5. \E jb \in JobRecords, fl \in {files, noted1} : \E un, dn, f :
         JobClose(d.j, jb, fl, un, dn, f)
  <2>1. \/ JobClose(d.j, job, files, undone, done, 0)
        \/ \E ok \in BOOLEAN :
             JobClose(d.j, counted,
                      IF Verdict(d.st, job.dying) = "D" THEN noted1 ELSE files,
                      IF ok THEN MarkDone(undone, job.id, c, d.recip) ELSE undone,
                      IF ok THEN [done EXCEPT ![job.id][c] = @ \cup {d.recip}] ELSE done,
                      IF ok THEN 0 ELSE 1)
    BY DEF DelReport
  <2> DEFINE verdict == Verdict(d.st, job.dying)
             marked == [done EXCEPT ![job.id][c] = @ \cup {d.recip}]
  <2> HIDE DEF d, job, counted, noted1, verdict, marked
  <2>2. CASE JobClose(d.j, job, files, undone, done, 0)
    BY <2>2, <1>2
  <2>3. ASSUME NEW ok \in BOOLEAN,
               JobClose(d.j, counted, IF verdict = "D" THEN noted1 ELSE files,
                        IF ok THEN MarkDone(undone, job.id, c, d.recip) ELSE undone,
                        IF ok THEN marked ELSE done, IF ok THEN 0 ELSE 1)
        PROVE  \E jb \in JobRecords, fl \in {files, noted1} : \E un, dn, f :
                  JobClose(d.j, jb, fl, un, dn, f)
    BY <2>3, <1>3
  <2> QED BY <2>1, <2>2, <2>3 DEF verdict, marked
<1>6. PICK jb \in JobRecords, fl \in {files, noted1} : \E un, dn, f :
         JobClose(d.j, jb, fl, un, dn, f)
  BY <1>5
<1> HIDE DEF d, job, noted1
<1> QED BY <1>1, <1>4, <1>6, JobCloseFiles DEF QuietFiles

LEMMA SendAloneInv ==
  ASSUME TypeOK, InjectorInv, SendAlone
  PROVE  InjectorInv'
<1> USE DEF SendAlone
<1>1. UNCHANGED <<queueVars, cleanVars>>
  OBVIOUS
<1>2. CASE \/ Start \/ Term
           \/ \E id \in Ids : RetryFailed(id) \/ MessDoneReturns(id) \/ Expire(id)
           \/ \E c \in Channels : PassDeliver(c) \/ SpawnDied(c)
           \/ \E c \in Channels, id \in Ids : PassOpen(c, id)
           \/ \E c \in Channels : \E i \in Slots(c) : CommWrite(c, i)
  <2>1. files' = files /\ age' = age
    BY <1>2 DEF Start, Term, RetryFailed, MessDoneReturns, Expire, PassDeliver, SpawnDied,
                PassOpen, CommWrite, dirVars
  <2>2. \/ send' = send /\ work' = work
        \/ send # "clean" /\ send' = "loop"
    BY <1>2 DEF Start, Resume, Term, RetryFailed, MessDoneReturns, Expire, PassDeliver,
                SpawnDied, PassOpen, CommWrite
  <2> QED BY <1>1, <2>1, <2>2, QuietInv DEF QuietFiles
<1>3. ASSUME NEW c \in Channels, PassClose(c) PROVE InjectorInv'
  <2>1. UNCHANGED <<send, work, age>>
    BY <1>3 DEF PassClose
  <2> QED BY <1>1, <1>3, <2>1, PassCloseFiles, QuietInv
<1>4. ASSUME NEW id \in Ids, MessDoneFails(id) PROVE InjectorInv'
  <2>1. PICK ks \in {{}, {"bounce"}} : Unlink(id, ks)
    BY <1>4 DEF MessDoneFails, EndMessFails
  <2>2. QuietFiles /\ age' = age
    BY <2>1 DEF Unlink, QuietFiles, TypeOK, DirTypeOK
  <2>3. send # "clean" /\ send' = "loop"
    BY <1>4 DEF MessDoneFails, EndMessFails, TakeDone, Resume
  <2> QED BY <1>1, <2>2, <2>3, QuietInv
<1>5. ASSUME NEW id \in Ids, MessDoneBounces(id) PROVE InjectorInv'
  <2>1. /\ files' = files /\ age' = age
        /\ send = "loop" /\ send' = "inject" /\ work'.id = id
        /\ "info" \in files[id] /\ "todo" \notin files[id]
    BY <1>5 DEF MessDoneBounces, TakeDone, Finished, Addable, Has, Wait, dirVars
  <2>2. OwnInode' /\ Hidden' /\ MessLast'
    BY <1>1, <2>1 DEF InjectorInv, OwnInode, Hidden, MessLast, Needs, queueVars
  <2>3. RequestSafe' /\ OneRequest' /\ BounceInTurn'
    BY <1>1, <2>1 DEF InjectorInv, RequestSafe, OneRequest, BounceInTurn, cleanVars
  <2> QED BY <2>2, <2>3 DEF InjectorInv
<1>6. ASSUME NEW id \in Ids, PreprocessFails(id) PROVE InjectorInv'
  <2>1. /\ age' = age /\ send' = send /\ work' = work
        /\ send = "loop" /\ "todo" \in files[id]
    BY <1>6 DEF PreprocessFails, Preprocessable, Has, Unlink, sendVars
  <2>2. /\ \A x \in Ids : x # id => files'[x] = files[x]
        /\ \A k \in {"mess", "intd", "todo"} : k \in files'[id] <=> k \in files[id]
    <3>1. CASE \E gone \in {{}, {"local"}, Channels, Remade} : Unlink(id, gone)
      <4>1. PICK gone \in {{}, {"local"}, Channels, Remade} : Unlink(id, gone)
        BY <3>1
      <4>2. gone \cap {"mess", "intd", "todo"} = {}
        BY DEF Remade, Channels
      <4>3. files' = [files EXCEPT ![id] = files[id] \ gone]
        BY <4>1 DEF Unlink
      <4> QED BY <4>2, <4>3 DEF TypeOK, DirTypeOK
    <3>2. CASE \E cs \in SUBSET Channels :
                  files' = [files EXCEPT ![id] = (@ \ Remade) \cup {"info"} \cup cs]
      BY <3>2 DEF Remade, Channels, TypeOK, DirTypeOK
    <3> QED BY <1>6, <3>1, <3>2 DEF PreprocessFails
  <2>3. OwnInode'
    BY <1>1 DEF InjectorInv, OwnInode, queueVars
  <2>4. Hidden'
    <3> SUFFICES ASSUME NEW p \in Procs, qpc[p] \in Entering
                 PROVE  /\ Needs(p)' \subseteq files'[qid[p]]
                        /\ "todo" \notin files'[qid[p]] /\ "info" \notin files'[qid[p]]
                        /\ age[qid[p]] <= DEATH
      BY <1>1, <2>1 DEF Hidden, queueVars
    <3>1. qid[p] \in Ids /\ Needs(p)' = Needs(p)
      BY <1>1 DEF InjectorInv, OwnInode, Entering, Live, Needs, queueVars
    <3>2. qid[p] # id
      BY <2>1 DEF InjectorInv, Hidden
    <3> QED BY <2>2, <3>1, <3>2 DEF InjectorInv, Hidden
  <2>5. MessLast'
    BY <2>1, <2>2 DEF InjectorInv, MessLast
  <2>6. RequestSafe' /\ OneRequest' /\ BounceInTurn'
    BY <1>1, <2>1 DEF InjectorInv, RequestSafe, OneRequest, BounceInTurn, cleanVars
  <2> QED BY <2>3, <2>4, <2>5, <2>6 DEF InjectorInv
<1> QED BY <1>2, <1>3, <1>4, <1>5, <1>6

LEMMA ReportInv ==
  ASSUME TypeOK, InjectorInv, NEW c \in Channels, NEW i \in Slots(c),
         Report(c, i) \/ \E result \in {"K", "Z", "D"} : Delivery(c, i, result)
  PROVE  InjectorInv'
<1>1. CASE Report(c, i)
  <2>1. UNCHANGED <<queueVars, cleanVars, age>> /\ send' = send /\ work' = work
    BY <1>1 DEF Report, DelReport
  <2>2. QuietFiles
    BY <1>1, DelReportFiles DEF Report
  <2> QED BY <2>1, <2>2, QuietInv
<1>2. CASE \E result \in {"K", "Z", "D"} : Delivery(c, i, result)
  <2>1. /\ UNCHANGED <<queueVars, cleanVars, age>> /\ send' = send /\ work' = work
        /\ QuietFiles
    BY <1>2 DEF Delivery, Deliver, dirVars, QuietFiles
  <2> QED BY <2>1, QuietInv
<1> QED BY <1>1, <1>2

-----------------------------------------------------------------------------
(* qmail-queue.  A step of p changes the files of one number: the one p    *)
(* has, or a free one.                                                     *)

(* pidopen(): a free number carries no files, no request and no process.   *)
LEMMA PidOpenInv ==
  ASSUME TypeOK, InjectorInv, NEW p \in Procs, PidOpen(p), UNCHANGED <<cleanVars, sendVars>>
  PROVE  InjectorInv'
<1>1. PICK id \in FreeIds :
         /\ qpc' = [qpc EXCEPT ![p] = "pid"]
         /\ qid' = [qid EXCEPT ![p] = id]
         /\ files' = [files EXCEPT ![id] = @ \cup {"pid"}]
         /\ age' = [age EXCEPT ![id] = 0]
  BY DEF PidOpen, Create
<1>2. /\ id \in Ids /\ "mess" \notin files[id]
      /\ \A q \in Procs : qid[q] # id
  BY DEF FreeIds, Free, Named, Held
<1>3. "todo" \notin files[id] /\ "info" \notin files[id]
  BY <1>2 DEF InjectorInv, MessLast
<1>4. QueueTypeOK /\ DirTypeOK
  BY DEF TypeOK
<1>5. OwnInode'
  BY <1>1, <1>2, <1>4 DEF InjectorInv, OwnInode, QueueTypeOK
<1>6. Hidden'
  <2> SUFFICES ASSUME NEW q \in Procs, qpc'[q] \in Entering
               PROVE  /\ Needs(q)' \subseteq files'[qid'[q]]
                      /\ "todo" \notin files'[qid'[q]] /\ "info" \notin files'[qid'[q]]
                      /\ age'[qid'[q]] <= DEATH
    BY DEF Hidden
  <2>1. CASE q = p
    <3>1. qpc'[q] = "pid" /\ qid'[q] = id
      BY <1>1, <1>4, <2>1 DEF QueueTypeOK
    <3>2. Needs(q)' = {}
      BY <3>1 DEF Needs
    <3>3. age'[id] = 0 /\ files'[id] = files[id] \cup {"pid"}
      BY <1>1, <1>2, <1>4 DEF DirTypeOK
    <3> QED BY <1>3, <3>1, <3>2, <3>3, TimesAssumption
  <2>2. CASE q # p
    <3>1. qpc'[q] = qpc[q] /\ qid'[q] = qid[q] /\ qid[q] # id
      BY <1>1, <1>2, <1>4, <2>2 DEF QueueTypeOK
    <3>2. Needs(q)' = Needs(q)
      BY <3>1 DEF Needs
    <3>3. files'[qid[q]] = files[qid[q]] /\ age'[qid[q]] = age[qid[q]]
      <4>1. qid[q] \in Ids
        BY <3>1 DEF InjectorInv, OwnInode, Entering, Live
      <4> QED BY <1>1, <1>4, <3>1, <4>1 DEF DirTypeOK
    <3> QED BY <3>1, <3>2, <3>3 DEF InjectorInv, Hidden
  <2> QED BY <2>1, <2>2
<1>7. MessLast'
  BY <1>1, <1>4 DEF InjectorInv, MessLast, DirTypeOK
<1>8. RequestSafe'
  <2> SUFFICES ASSUME cpc # "dead", creq # NoRequest
               PROVE  /\ send = "clean"
                      /\ "mess" \in files'[creq.id]
                      /\ \A q \in Procs : qpc'[q] \in Entering => qid'[q] # creq.id
                      /\ creq.op = "foop" =>
                            "todo" \notin files'[creq.id] /\ "info" \notin files'[creq.id]
    BY DEF RequestSafe, cleanVars, sendVars
  <2>1. creq.id \in Ids /\ creq.id # id
    BY <1>2 DEF InjectorInv, RequestSafe, TypeOK, CleanTypeOK, Requests
  <2>2. files'[creq.id] = files[creq.id]
    BY <1>1, <1>4, <2>1 DEF DirTypeOK
  <2>3. \A q \in Procs : qpc'[q] \in Entering => qid'[q] # creq.id
    BY <1>1, <1>4, <2>1 DEF InjectorInv, RequestSafe, QueueTypeOK
  <2> QED BY <2>2, <2>3 DEF InjectorInv, RequestSafe
<1>9. OneRequest'
  BY DEF InjectorInv, OneRequest, cleanVars, sendVars
<1>10. BounceInTurn'
  BY <1>1, <1>4 DEF InjectorInv, BounceInTurn, DirTypeOK, sendVars
<1> QED BY <1>5, <1>6, <1>7, <1>8, <1>9, <1>10 DEF InjectorInv

(* The other steps, in terms of what they do to the number they have.      *)
LEMMA OwnStepInv ==
  ASSUME TypeOK, InjectorInv, NEW p \in Procs, UNCHANGED <<cleanVars, sendVars, age>>,
         qpc[p] \in Live,
         NEW pc, qpc' = [qpc EXCEPT ![p] = pc],
         \/ qid' = qid
         \/ qid' = [qid EXCEPT ![p] = NoId] /\ pc \notin Live,
         \A x \in Ids : x # qid[p] => files'[x] = files[x],
         files' # files => qpc[p] \in Entering /\ "info" \notin files'[qid[p]]
                           /\ ("todo" \in files'[qid[p]] => "mess" \in files'[qid[p]]),
         pc \in Entering => /\ qpc[p] \in Entering
                            /\ "todo" \notin files'[qid[p]]
                            /\ Needs(p)' \subseteq files'[qid[p]]
  PROVE  InjectorInv'
<1>1. QueueTypeOK /\ qid[p] \in Ids /\ qpc'[p] = pc
  BY DEF TypeOK, QueueTypeOK, InjectorInv, OwnInode
<1>2. \A q \in Procs : qpc[q] \in Live /\ q # p => qid[q] # qid[p] /\ qid[q] \in Ids
  BY DEF InjectorInv, OwnInode
<1>3. \A q \in Procs : q # p => qpc'[q] = qpc[q] /\ qid'[q] = qid[q]
  BY <1>1 DEF QueueTypeOK
<1>4. OwnInode'
  <2>1. \A q \in Procs : qid'[q] = qid[q] \/ (q = p /\ qid'[q] = NoId)
    BY <1>1 DEF QueueTypeOK
  <2>2. pc \in Live => qid' = qid
    OBVIOUS
  <2> QED BY <1>1, <1>2, <1>3, <2>1, <2>2, NoIdAssumption DEF InjectorInv, OwnInode
<1>5. Hidden'
  <2> SUFFICES ASSUME NEW q \in Procs, qpc'[q] \in Entering
               PROVE  /\ Needs(q)' \subseteq files'[qid'[q]]
                      /\ "todo" \notin files'[qid'[q]] /\ "info" \notin files'[qid'[q]]
                      /\ age[qid'[q]] <= DEATH
    BY DEF Hidden
  <2>1. CASE q = p
    <3>1. pc \in Entering /\ qpc[p] \in Entering /\ qid'[p] = qid[p]
      BY <1>1, <2>1 DEF Entering, Live
    <3>2. "info" \notin files'[qid[p]] /\ age[qid[p]] <= DEATH
      BY <3>1 DEF InjectorInv, Hidden
    <3> QED BY <2>1, <3>1, <3>2
  <2>2. CASE q # p
    <3>1. /\ qpc'[q] = qpc[q] /\ qid'[q] = qid[q]
          /\ files'[qid[q]] = files[qid[q]]
      BY <1>2, <1>3, <2>2 DEF Entering, Live
    <3>2. Needs(q)' = Needs(q)
      BY <3>1 DEF Needs
    <3> QED BY <3>1, <3>2 DEF InjectorInv, Hidden
  <2> QED BY <2>1, <2>2
<1>6. MessLast'
  BY DEF InjectorInv, MessLast
<1>7. RequestSafe'
  <2> SUFFICES ASSUME cpc # "dead", creq # NoRequest
               PROVE  /\ send = "clean"
                      /\ "mess" \in files'[creq.id]
                      /\ \A q \in Procs : qpc'[q] \in Entering => qid'[q] # creq.id
                      /\ creq.op = "foop" =>
                            "todo" \notin files'[creq.id] /\ "info" \notin files'[creq.id]
    BY DEF RequestSafe, cleanVars, sendVars
  <2>1. creq.id \in Ids
    BY DEF TypeOK, CleanTypeOK, Requests
  <2>2. files'[creq.id] = files[creq.id]
    BY <2>1 DEF InjectorInv, RequestSafe
  <2>3. \A q \in Procs : qpc'[q] \in Entering => qid'[q] # creq.id
    <3> SUFFICES ASSUME NEW q \in Procs, qpc'[q] \in Entering PROVE qid'[q] # creq.id
      OBVIOUS
    <3>1. qpc[q] \in Entering /\ qid'[q] = qid[q]
      BY <1>1, <1>3 DEF Entering, Live
    <3> QED BY <3>1 DEF InjectorInv, RequestSafe
  <2> QED BY <2>2, <2>3 DEF InjectorInv, RequestSafe
<1>8. OneRequest'
  BY DEF InjectorInv, OneRequest, cleanVars, sendVars
<1>9. BounceInTurn'
  BY DEF InjectorInv, BounceInTurn, Hidden, sendVars
<1> QED BY <1>4, <1>5, <1>6, <1>7, <1>8, <1>9 DEF InjectorInv

(* main() after pidopen(): each step has what the next one counts on.      *)
LEMMA MainStepInv ==
  ASSUME TypeOK, InjectorInv, NEW p \in Procs, UNCHANGED <<cleanVars, sendVars>>,
         \/ LinkMess(p) \/ UnlinkPid(p) \/ WriteBody(p) \/ OpenIntd(p)
         \/ \E s \in Senders, rs \in SUBSET Recips : WriteEnvelope(p, s, rs)
  PROVE  InjectorInv'
<1> DEFINE id == qid[p]
<1>1. QueueTypeOK /\ DirTypeOK
  BY DEF TypeOK
<1>2. qpc[p] \in Entering /\ age' = age /\ qid' = qid
  BY DEF LinkMess, UnlinkPid, WriteBody, OpenIntd, WriteEnvelope, Step, Unlink, Entering
<1>3. /\ id \in Ids
      /\ Needs(p) \subseteq files[id] /\ "todo" \notin files[id] /\ "info" \notin files[id]
  BY <1>2 DEF InjectorInv, OwnInode, Hidden, Entering, Live
<1>4. PICK pc \in Entering : qpc' = [qpc EXCEPT ![p] = pc]
  BY DEF LinkMess, UnlinkPid, WriteBody, OpenIntd, WriteEnvelope, Step, Entering
<1>5. qpc'[p] = pc
  BY <1>1, <1>4 DEF QueueTypeOK
<1>6. /\ \A x \in Ids : x # id => files'[x] = files[x]
      /\ "todo" \notin files'[id] /\ "info" \notin files'[id]
      /\ Needs(p)' \subseteq files'[id]
  <2>1. CASE LinkMess(p)
    BY <1>1, <1>3, <2>1 DEF LinkMess, Create, Step, Needs, QueueTypeOK, DirTypeOK
  <2>2. CASE UnlinkPid(p)
    BY <1>1, <1>3, <2>2 DEF UnlinkPid, Unlink, Step, Needs, QueueTypeOK, DirTypeOK
  <2>3. CASE WriteBody(p)
    BY <1>1, <1>3, <2>3 DEF WriteBody, Step, Needs, QueueTypeOK, DirTypeOK
  <2>4. CASE OpenIntd(p)
    BY <1>1, <1>3, <2>4 DEF OpenIntd, Create, Step, Needs, QueueTypeOK, DirTypeOK
  <2>5. CASE \E s \in Senders, rs \in SUBSET Recips : WriteEnvelope(p, s, rs)
    BY <1>1, <1>3, <2>5 DEF WriteEnvelope, Step, Needs, QueueTypeOK, DirTypeOK
  <2> QED BY <2>1, <2>2, <2>3, <2>4, <2>5
<1>7. qpc[p] \in Live
  BY <1>2 DEF Entering, Live
<1> QED BY <1>2, <1>4, <1>6, <1>7, OwnStepInv

(* link(intdfn,todofn): mess/ is there.                                    *)
LEMMA LinkTodoInv ==
  ASSUME TypeOK, InjectorInv, NEW p \in Procs, UNCHANGED <<cleanVars, sendVars>>, LinkTodo(p)
  PROVE  InjectorInv'
<1>1. /\ qpc[p] = "ready" /\ qid' = qid /\ age' = age
      /\ qpc' = [qpc EXCEPT ![p] = "queued"]
      /\ files' = [files EXCEPT ![qid[p]] = @ \cup {"todo"}]
  BY DEF LinkTodo, Step, Create
<1>2. qpc[p] \in Entering /\ qpc[p] \in Live /\ "queued" \notin Entering
  BY <1>1 DEF Entering, Live
<1>3. /\ qid[p] \in Ids /\ "info" \notin files[qid[p]]
      /\ "mess" \in files[qid[p]]
  BY <1>1, <1>2 DEF InjectorInv, OwnInode, Hidden, Needs
<1>4. /\ \A x \in Ids : x # qid[p] => files'[x] = files[x]
      /\ files'[qid[p]] = files[qid[p]] \cup {"todo"}
  BY <1>1, <1>3 DEF TypeOK, DirTypeOK
<1> QED BY <1>1, <1>2, <1>3, <1>4, OwnStepInv

(* However a process ends: what it removes on the way is its own.          *)
LEMMA DieInv ==
  ASSUME TypeOK, InjectorInv, NEW p \in Procs, UNCHANGED <<cleanVars, sendVars>>,
         ExitOk(p) \/ DieCleaning(p) \/ DieLeaving(p) \/ Alarm(p)
  PROVE  InjectorInv'
<1>1. qpc[p] \in Live /\ age' = age
  BY DEF ExitOk, DieCleaning, DieLeaving, Alarm, Unlink, Live, dirVars
<1>2. PICK pc \in {"idle", "ok", "err"} :
         /\ qpc' = [qpc EXCEPT ![p] = pc]
         /\ qid' = [qid EXCEPT ![p] = NoId]
  BY DEF ExitOk, DieCleaning, DieLeaving, Alarm, Exit
<1>3. pc \notin Live /\ pc \notin Entering
  BY DEF Live, Entering
<1>4. CASE ExitOk(p) \/ DieLeaving(p) \/ Alarm(p)
  <2>1. files' = files
    BY <1>4 DEF ExitOk, DieLeaving, Alarm, dirVars
  <2> QED BY <1>1, <1>2, <1>3, <2>1, OwnStepInv
<1>5. CASE DieCleaning(p)
  <2>1. qpc[p] \in Entering
    BY <1>5 DEF DieCleaning, Entering
  <2>2. PICK ks : files' = [files EXCEPT ![qid[p]] = files[qid[p]] \ ks]
    BY <1>5 DEF DieCleaning, Unlink
  <2>3. /\ qid[p] \in Ids
        /\ "todo" \notin files[qid[p]] /\ "info" \notin files[qid[p]]
    BY <1>1, <2>1 DEF InjectorInv, OwnInode, Hidden
  <2>4. /\ \A x \in Ids : x # qid[p] => files'[x] = files[x]
        /\ files'[qid[p]] = files[qid[p]] \ ks
    BY <2>2, <2>3 DEF TypeOK, DirTypeOK
  <2> QED BY <1>1, <1>2, <1>3, <2>1, <2>3, <2>4, OwnStepInv
<1> QED BY <1>4, <1>5

(* pidopen() fails: there is nothing yet.                                  *)
LEMMA PidOpenFailsInv ==
  ASSUME TypeOK, InjectorInv, NEW p \in Procs, UNCHANGED <<cleanVars, sendVars>>,
         PidOpenFails(p)
  PROVE  InjectorInv'
<1>1. /\ files' = files /\ age' = age
      /\ \A q \in Procs : q # p => qpc'[q] = qpc[q] /\ qid'[q] = qid[q]
      /\ qpc'[p] \notin Live /\ qpc'[p] \notin Entering /\ qid'[p] = NoId
  BY DEF PidOpenFails, Exit, TypeOK, QueueTypeOK, Live, Entering
<1>2. \A q \in Procs : qpc'[q] \in Entering => q # p /\ Needs(q)' = Needs(q)
  BY <1>1 DEF Needs
<1>3. OwnInode'
  BY <1>1, NoIdAssumption DEF InjectorInv, OwnInode
<1>4. Hidden' /\ MessLast'
  BY <1>1, <1>2 DEF InjectorInv, Hidden, MessLast
<1>5. RequestSafe' /\ OneRequest' /\ BounceInTurn'
  BY <1>1, <1>2 DEF InjectorInv, RequestSafe, OneRequest, BounceInTurn, cleanVars, sendVars
<1> QED BY <1>3, <1>4, <1>5 DEF InjectorInv

LEMMA InjectionInv ==
  ASSUME TypeOK, InjectorInv, NEW p \in Procs,
         Inject(p) \/ InjectFails(p) \/ Envelope(p) \/ Queue(p)
  PROVE  InjectorInv'
<1>1. CASE Inject(p)
  BY <1>1, PidOpenInv, MainStepInv, DieInv DEF Inject
<1>2. CASE InjectFails(p)
  BY <1>2, PidOpenFailsInv, DieInv DEF InjectFails
<1>3. CASE Envelope(p)
  <2>1. \E s \in Senders, rs \in SUBSET Recips : WriteEnvelope(p, s, rs)
    BY <1>3, SendersAssumption DEF Envelope, Senders
  <2>2. UNCHANGED <<cleanVars, sendVars>>
    BY <1>3 DEF Envelope
  <2> QED BY <2>1, <2>2, MainStepInv
<1>4. CASE Queue(p)
  BY <1>4, LinkTodoInv DEF Queue
<1> QED BY <1>1, <1>2, <1>3, <1>4

-----------------------------------------------------------------------------
(* Requests.  The handlers that ask qmail-clean do so for a message that   *)
(* has todo/ or info/, or for a file older than any process can be: no     *)
(* process is still making it.                                             *)
LEMMA RequestInv ==
  ASSUME TypeOK, InjectorInv, NEW id \in Ids, NEW op \in {"foop", "todo"},
         send \in {"loop", "inject"}, send' = "clean", age' = age,
         qid' = qid, \A p \in Procs : qpc'[p] = qpc[p] \/ qpc'[p] \notin Live,
         PutRequest(op, id),
         "mess" \in files[id], \A p \in Procs : qpc[p] \in Entering => qid[p] # id,
         \A x \in Ids : x # id => files'[x] = files[x],
         "mess" \in files'[id],
         op = "foop" => "todo" \notin files'[id] /\ "info" \notin files'[id]
  PROVE  InjectorInv'
<1>1. creq' = Request(op, id) /\ cpc' = cpc /\ creply' = creply
  BY DEF PutRequest
<1>2. creply = "none"
  BY DEF InjectorInv, OneRequest
<1>3. \A p \in Procs : qpc'[p] \in Entering =>
         qpc[p] \in Entering /\ qpc'[p] = qpc[p] /\ Needs(p)' = Needs(p)
  BY DEF Entering, Live, Needs
<1>4. OwnInode'
  <2>1. \A p \in Procs : qpc'[p] \in Live => qpc[p] \in Live
    OBVIOUS
  <2> QED BY <2>1 DEF InjectorInv, OwnInode
<1>5. Hidden'
  <2> SUFFICES ASSUME NEW p \in Procs, qpc'[p] \in Entering
               PROVE  /\ Needs(p)' \subseteq files'[qid[p]]
                      /\ "todo" \notin files'[qid[p]] /\ "info" \notin files'[qid[p]]
                      /\ age[qid[p]] <= DEATH
    BY DEF Hidden
  <2>1. qid[p] \in Ids /\ qid[p] # id
    BY <1>3 DEF InjectorInv, OwnInode, Entering, Live
  <2> QED BY <1>3, <2>1 DEF InjectorInv, Hidden
<1>6. MessLast'
  BY DEF InjectorInv, MessLast
<1>7. RequestSafe'
  BY <1>1, <1>3 DEF RequestSafe, Request
<1>8. OneRequest'
  <2>1. Request(op, id) # NoRequest
    BY DEF Request, NoRequest
  <2> QED BY <1>1, <1>2, <2>1 DEF OneRequest
<1>9. BounceInTurn'
  BY DEF BounceInTurn
<1> QED BY <1>4, <1>5, <1>6, <1>7, <1>8, <1>9 DEF InjectorInv

LEMMA EndMessFiles ==
  ASSUME TypeOK, NEW id \in Ids, EndMess(id)
  PROVE  /\ send' = "clean" /\ age' = age
         /\ \A x \in Ids : x # id => files'[x] = files[x]
         /\ files'[id] = files[id] \ {"bounce", "info"}
BY DEF EndMess, Unlink, Wait, TypeOK, DirTypeOK

LEMMA AskInv ==
  ASSUME TypeOK, InjectorInv, NEW id \in Ids, Ask(id)
  PROVE  InjectorInv'
<1>1. qpc' = qpc /\ qid' = qid
  BY DEF Ask, queueVars
<1>2. CASE Preprocess(id) /\ PutRequest("todo", id)
  <2>1. /\ send = "loop" /\ send' = "clean" /\ age' = age
        /\ "todo" \in files[id]
    BY <1>2 DEF Preprocess, Preprocessable, Has, Wait
  <2>2. "mess" \in files[id] /\ \A p \in Procs : qpc[p] \in Entering => qid[p] # id
    BY <2>1 DEF InjectorInv, MessLast, Hidden
  <2>3. /\ \A x \in Ids : x # id => files'[x] = files[x]
        /\ "mess" \in files'[id]
    BY <1>2, <2>2 DEF Preprocess, Remade, Channels, TypeOK, DirTypeOK
  <2> QED BY <1>1, <1>2, <2>1, <2>2, <2>3, RequestInv
<1>3. CASE MessDoneEnds(id) /\ PutRequest("foop", id)
  <2>1. send = "loop" /\ "info" \in files[id] /\ "todo" \notin files[id] /\ EndMess(id)
    BY <1>3 DEF MessDoneEnds, TakeDone, Finished, Addable, Has
  <2>2. "mess" \in files[id] /\ \A p \in Procs : qpc[p] \in Entering => qid[p] # id
    BY <2>1 DEF InjectorInv, MessLast, Hidden
  <2>3. /\ send' = "clean" /\ age' = age
        /\ \A x \in Ids : x # id => files'[x] = files[x]
        /\ files'[id] = files[id] \ {"bounce", "info"}
    BY <2>1, EndMessFiles
  <2> QED BY <1>1, <1>3, <2>1, <2>2, <2>3, RequestInv
<1>4. CASE Cleanup(id) /\ PutRequest("foop", id)
  <2>1. /\ send = "loop" /\ send' = "clean" /\ age' = age /\ files' = files
        /\ "mess" \in files[id] /\ "info" \notin files[id] /\ "todo" \notin files[id]
        /\ age[id] > OSSIFIED
    BY <1>4 DEF Cleanup, Leftover, Ossified, Has, Wait, dirVars
  <2>2. age[id] \in Int
    BY TimesAssumption DEF TypeOK, DirTypeOK
  <2>3. \A p \in Procs : qpc[p] \in Entering => qid[p] # id
    BY <2>1, <2>2, TimesAssumption DEF InjectorInv, Hidden
  <2> QED BY <1>1, <1>4, <2>1, <2>3, RequestInv
<1> QED BY <1>2, <1>3, <1>4 DEF Ask

LEMMA BounceOverInv ==
  ASSUME TypeOK, InjectorInv, NEW id \in Ids, BounceOver(id)
  PROVE  InjectorInv'
<1>1. /\ qid' = qid
      /\ \A p \in Procs : qpc'[p] = qpc[p] \/ qpc'[p] \notin Live
      /\ \A p \in Procs : qpc'[p] \in Live \/ qpc'[p] \in Entering => qpc'[p] = qpc[p]
  BY DEF BounceOver, Reap, TypeOK, QueueTypeOK, Live, Entering
<1>2. send = "inject" /\ work.id = id
  BY DEF BounceOver, BounceAccepted, BounceAcceptedFails, BounceRefused
<1>3. /\ "info" \in files[id] /\ "todo" \notin files[id] /\ "mess" \in files[id]
      /\ \A p \in Procs : qpc[p] \in Entering => qid[p] # id
  BY <1>2 DEF InjectorInv, BounceInTurn, MessLast, Hidden
<1>4. CASE BounceAccepted(id) /\ PutRequest("foop", id)
  <2>1. /\ send' = "clean" /\ age' = age
        /\ \A x \in Ids : x # id => files'[x] = files[x]
        /\ files'[id] = files[id] \ {"bounce", "info"}
    BY <1>4, EndMessFiles DEF BounceAccepted
  <2> QED BY <1>1, <1>2, <1>3, <1>4, <2>1, RequestInv
<1>5. CASE (BounceAcceptedFails(id) \/ BounceRefused(id)) /\ UNCHANGED cleanVars
  <2>1. send' = "loop" /\ age' = age /\ QuietFiles
    <3>1. CASE BounceRefused(id)
      BY <3>1 DEF BounceRefused, Resume, dirVars, QuietFiles
    <3>2. CASE BounceAcceptedFails(id)
      <4>1. PICK ks \in {{}, {"bounce"}} : Unlink(id, ks)
        BY <3>2 DEF BounceAcceptedFails, EndMessFails
      <4>2. QuietFiles /\ age' = age
        BY <4>1 DEF Unlink, QuietFiles, TypeOK, DirTypeOK
      <4> QED BY <3>2, <4>2 DEF BounceAcceptedFails, EndMessFails, Resume
    <3> QED BY <1>5, <3>1, <3>2
  <2>2. OwnInode'
    BY <1>1 DEF InjectorInv, OwnInode
  <2>3. Hidden'
    <3> SUFFICES ASSUME NEW p \in Procs, qpc'[p] \in Entering
                 PROVE  /\ Needs(p)' \subseteq files'[qid[p]]
                        /\ "todo" \notin files'[qid[p]] /\ "info" \notin files'[qid[p]]
                        /\ age[qid[p]] <= DEATH
      BY <1>1, <2>1 DEF Hidden
    <3>1. /\ qpc[p] \in Entering
          /\ qid[p] \in Ids /\ Needs(p)' = Needs(p)
      BY <1>1 DEF InjectorInv, OwnInode, Entering, Live, Needs
    <3> QED BY <2>1, <3>1, NeedsFiles DEF InjectorInv, Hidden, QuietFiles
  <2>4. MessLast'
    BY <2>1 DEF InjectorInv, MessLast, QuietFiles
  <2>5. RequestSafe' /\ OneRequest' /\ BounceInTurn'
    BY <1>2, <1>5, <2>1 DEF InjectorInv, RequestSafe, OneRequest, BounceInTurn, cleanVars
  <2> QED BY <2>2, <2>3, <2>4, <2>5 DEF InjectorInv
<1> QED BY <1>4, <1>5 DEF BounceOver

(* The answer is taken when the request is over.                           *)
LEMMA AnswerInv ==
  ASSUME TypeOK, InjectorInv, Answer
  PROVE  InjectorInv'
<1>1. /\ files' = files /\ age' = age /\ qpc' = qpc /\ qid' = qid
      /\ send = "clean" /\ send' = "loop" /\ cpc' = cpc /\ creq' = creq
  BY DEF Answer, Preprocessed, Answered, CleanDied, Resume, TakeReply, queueVars, cleanVars,
         dirVars
<1>2. /\ creply' = "none"
      /\ creply # "none" \/ cpc = "dead"
  <2>1. CASE \E a \in {"+", "!"} : TakeReply(a)
    BY <2>1 DEF TakeReply
  <2>2. CASE ReplyEof /\ UNCHANGED cleanVars
    BY <2>2 DEF ReplyEof, cleanVars
  <2> QED BY <2>1, <2>2 DEF Answer
<1>3. OwnInode' /\ Hidden' /\ MessLast'
  BY <1>1 DEF InjectorInv, OwnInode, Hidden, MessLast, Needs
<1>4. RequestSafe' /\ OneRequest' /\ BounceInTurn'
  BY <1>1, <1>2 DEF InjectorInv, RequestSafe, OneRequest, BounceInTurn
<1> QED BY <1>3, <1>4 DEF InjectorInv

-----------------------------------------------------------------------------
(* qmail-clean: it removes files of the number it was asked for, mess/     *)
(* only on "foop", and stale pid/ names.                                   *)
LEMMA CleanInv ==
  ASSUME TypeOK, InjectorInv, Clean
  PROVE  InjectorInv'
<1>1. qpc' = qpc /\ qid' = qid /\ send' = send /\ work' = work
  BY DEF Clean, queueVars, sendVars
<1>2. CASE SkipPids \/ ReadRequest \/ CleanPids \/ UnlinkFails \/ CleanDies
  <2>1. QuietFiles /\ age' = age
    BY <1>2 DEF SkipPids, ReadRequest, CleanPids, UnlinkFails, CleanDies, dirVars,
                QuietFiles
  <2>2. RequestSafe /\ OneRequest
    BY DEF InjectorInv
  <2>3. OneRequest'
    BY <1>1, <1>2, <2>2 DEF SkipPids, ReadRequest, CleanPids, UnlinkFails, CleanDies,
                            Respond, OneRequest, RequestSafe
  <2>4. OwnInode'
    BY <1>1 DEF InjectorInv, OwnInode
  <2>5. Hidden'
    <3> SUFFICES ASSUME NEW p \in Procs, qpc[p] \in Entering
                 PROVE  /\ Needs(p)' \subseteq files'[qid[p]]
                        /\ "todo" \notin files'[qid[p]] /\ "info" \notin files'[qid[p]]
                        /\ age[qid[p]] <= DEATH
      BY <1>1, <2>1 DEF Hidden
    <3>1. qid[p] \in Ids /\ Needs(p)' = Needs(p)
      BY <1>1 DEF InjectorInv, OwnInode, Entering, Live, Needs
    <3> QED BY <2>1, <3>1, NeedsFiles DEF InjectorInv, Hidden, QuietFiles
  <2>6. MessLast'
    BY <2>1 DEF InjectorInv, MessLast, QuietFiles
  <2>7. RequestSafe'
    <3> SUFFICES ASSUME cpc' # "dead", creq' # NoRequest
                 PROVE  /\ send = "clean"
                        /\ "mess" \in files'[creq'.id]
                        /\ \A p \in Procs : qpc[p] \in Entering => qid[p] # creq'.id
                        /\ creq'.op = "foop" =>
                              "todo" \notin files'[creq'.id] /\ "info" \notin files'[creq'.id]
      BY <1>1 DEF RequestSafe
    <3>1. cpc # "dead" /\ creq' = creq
      BY <1>2 DEF SkipPids, ReadRequest, CleanPids, UnlinkFails, CleanDies, Respond
    <3>2. creq.id \in Ids
      BY <3>1 DEF TypeOK, CleanTypeOK, Requests
    <3> QED BY <2>1, <2>2, <3>1, <3>2 DEF RequestSafe, QuietFiles
  <2>8. BounceInTurn'
    BY <1>1, <2>1 DEF InjectorInv, BounceInTurn, QuietFiles
  <2> QED BY <2>3, <2>4, <2>5, <2>6, <2>7, <2>8 DEF InjectorInv
<1>3. CASE UnlinkIntd \/ UnlinkLast \/ DiesUnanswered
  <2> DEFINE id == creq.id
  <2>1. creq # NoRequest /\ cpc # "dead"
    BY <1>3 DEF UnlinkIntd, UnlinkLast, DiesUnanswered, InjectorInv, OneRequest
  <2>2. creq \in Requests
    BY <2>1 DEF TypeOK, CleanTypeOK
  <2>3. PICK k \in {"intd", "mess", "todo"} :
           /\ Unlink(id, {k})
           /\ k = "mess" => creq.op = "foop"
           /\ k = "intd" \/ creq' = NoRequest \/ cpc' = "dead"
    <3>1. CASE UnlinkIntd
      BY <3>1 DEF UnlinkIntd, First
    <3>2. CASE UnlinkLast \/ DiesUnanswered
      BY <3>2, <2>2 DEF UnlinkLast, DiesUnanswered, Last, Respond, Requests
    <3> QED BY <1>3, <3>1, <3>2
  <2>4. /\ age' = age /\ id \in Ids
        /\ \A x \in Ids : x # id => files'[x] = files[x]
        /\ files'[id] = files[id] \ {k}
    BY <2>2, <2>3 DEF Unlink, Requests, TypeOK, DirTypeOK
  <2>5. RequestSafe
    BY DEF InjectorInv
  <2>6. OwnInode'
    BY <1>1 DEF InjectorInv, OwnInode
  <2>7. Hidden'
    <3> SUFFICES ASSUME NEW p \in Procs, qpc[p] \in Entering
                 PROVE  /\ Needs(p)' \subseteq files'[qid[p]]
                        /\ "todo" \notin files'[qid[p]] /\ "info" \notin files'[qid[p]]
                        /\ age[qid[p]] <= DEATH
      BY <1>1, <2>4 DEF Hidden
    <3>1. qid[p] \in Ids /\ Needs(p)' = Needs(p)
      BY <1>1 DEF InjectorInv, OwnInode, Entering, Live, Needs
    <3>2. qid[p] # id
      BY <2>1, <2>5 DEF RequestSafe
    <3> QED BY <2>4, <3>1, <3>2 DEF InjectorInv, Hidden
  <2>8. MessLast'
    BY <2>1, <2>3, <2>4, <2>5 DEF InjectorInv, MessLast, RequestSafe
  <2>9. OneRequest'
    BY <1>1, <1>3, <2>1, <2>5 DEF UnlinkIntd, UnlinkLast, DiesUnanswered, Respond,
                            InjectorInv, OneRequest, RequestSafe
  <2>10. RequestSafe'
    <3>1. CASE k = "intd"
      <4>1. creq' = creq \/ creq' = NoRequest \/ cpc' = "dead"
        BY <1>3 DEF UnlinkIntd, UnlinkLast, DiesUnanswered, Respond
      <4> QED BY <1>1, <2>1, <2>4, <2>5, <3>1, <4>1 DEF RequestSafe
    <3>2. CASE k # "intd"
      BY <2>3, <3>2 DEF RequestSafe
    <3> QED BY <3>1, <3>2
  <2>11. BounceInTurn'
    BY <1>1, <2>1, <2>5 DEF BounceInTurn, RequestSafe
  <2> QED BY <2>6, <2>7, <2>8, <2>9, <2>10, <2>11 DEF InjectorInv
<1> QED BY <1>2, <1>3 DEF Clean, CleanNext

-----------------------------------------------------------------------------
(* Restarts, crashes and the clock.                                        *)
LEMMA ExitsInv ==
  ASSUME TypeOK, InjectorInv, Exits
  PROVE  InjectorInv'
<1>1. /\ files' = files /\ age' = age /\ qpc' = qpc /\ qid' = qid
      /\ send' = "down" /\ cpc' = "top" /\ creq' = NoRequest /\ creply' = "none"
  BY DEF Exits, SendExit, Forget, CleanRestarts, queueVars, dirVars
<1>2. OwnInode' /\ Hidden' /\ MessLast'
  BY <1>1 DEF InjectorInv, OwnInode, Hidden, MessLast, Needs
<1>3. RequestSafe' /\ OneRequest' /\ BounceInTurn'
  BY <1>1 DEF RequestSafe, OneRequest, BounceInTurn
<1> QED BY <1>2, <1>3 DEF InjectorInv

LEMMA CrashInv ==
  ASSUME TypeOK, InjectorInv, Crash
  PROVE  InjectorInv'
<1>1. /\ files' = files /\ qpc' = [p \in Procs |-> "idle"]
      /\ send' = "down" /\ cpc' = "top" /\ creq' = NoRequest /\ creply' = "none"
  BY DEF Crash, Forget, CleanRestarts
<1>2. OwnInode' /\ Hidden'
  BY <1>1 DEF OwnInode, Hidden, Live, Entering
<1>3. MessLast'
  BY <1>1 DEF InjectorInv, MessLast
<1>4. RequestSafe' /\ OneRequest' /\ BounceInTurn'
  BY <1>1 DEF RequestSafe, OneRequest, BounceInTurn
<1> QED BY <1>2, <1>3, <1>4 DEF InjectorInv

(* A process the clock may pass has not reached its alarm.                 *)
LEMMA TickInv ==
  ASSUME TypeOK, InjectorInv, Tick
  PROVE  InjectorInv'
<1>1. /\ files' = files /\ qpc' = qpc /\ qid' = qid /\ UNCHANGED <<cleanVars, sendVars>>
  BY DEF Tick, queueVars
<1>2. Hidden'
  <2> SUFFICES ASSUME NEW p \in Procs, qpc[p] \in Entering
               PROVE  /\ Needs(p)' \subseteq files[qid[p]]
                      /\ "todo" \notin files[qid[p]] /\ "info" \notin files[qid[p]]
                      /\ age'[qid[p]] <= DEATH
    BY <1>1 DEF Hidden
  <2>1. qid[p] \in Ids /\ Needs(p)' = Needs(p)
    BY <1>1 DEF InjectorInv, OwnInode, Entering, Live, Needs
  <2>2. age[qid[p]] < DEATH
    BY DEF Tick, MayTake, Entering, Live
  <2>3. age[qid[p]] \in Int
    BY <2>1, TimesAssumption DEF TypeOK, DirTypeOK
  <2>4. age'[qid[p]] \in {0, age[qid[p]], age[qid[p]] + 1}
    BY <2>1 DEF Tick
  <2>5. age'[qid[p]] <= DEATH
    BY <2>2, <2>3, <2>4, TimesAssumption
  <2> QED BY <2>1, <2>5 DEF InjectorInv, Hidden
<1>3. OwnInode' /\ MessLast'
  BY <1>1 DEF InjectorInv, OwnInode, MessLast
<1>4. RequestSafe' /\ OneRequest' /\ BounceInTurn'
  BY <1>1 DEF InjectorInv, RequestSafe, OneRequest, BounceInTurn, cleanVars, sendVars
<1> QED BY <1>2, <1>3, <1>4 DEF InjectorInv

-----------------------------------------------------------------------------
LEMMA NextInv == TypeOK /\ InjectorInv /\ [Next]_vars => InjectorInv'
<1> SUFFICES ASSUME TypeOK, InjectorInv, [Next]_vars PROVE InjectorInv'
  OBVIOUS
<1>1. ASSUME NEW p \in Procs, Inject(p) \/ InjectFails(p) \/ Envelope(p) \/ Queue(p)
      PROVE  InjectorInv'
  BY <1>1, InjectionInv
<1>2. ASSUME NEW c \in Channels, NEW i \in Slots(c),
             Report(c, i) \/ \E result \in {"K", "Z", "D"} : Delivery(c, i, result)
      PROVE  InjectorInv'
  BY <1>2, ReportInv
<1>3. ASSUME NEW id \in Ids, Ask(id) \/ BounceOver(id) PROVE InjectorInv'
  BY <1>3, AskInv, BounceOverInv
<1>4. CASE SendAlone \/ Answer \/ Clean \/ Exits \/ Crash \/ Tick
  BY <1>4, SendAloneInv, AnswerInv, CleanInv, ExitsInv, CrashInv, TickInv
<1>5. CASE UNCHANGED vars
  <2>1. UNCHANGED <<queueVars, cleanVars, age>> /\ send' = send /\ work' = work /\ QuietFiles
    BY <1>5 DEF vars, dirVars, sendVars, QuietFiles
  <2> QED BY <2>1, QuietInv
<1> QED BY <1>1, <1>2, <1>3, <1>4, <1>5 DEF Next

(* The strengthened invariant holds in every reachable state.              *)
THEOREM InjectorCorrect == Spec => []InjectorInv
<1>1. Init => InjectorInv
  BY InitInv
<1>2. TypeOK /\ InjectorInv /\ [Next]_vars => InjectorInv'
  BY NextInv
<1> QED BY <1>1, <1>2, TypeCorrect, PTL DEF Spec

(* For any number of clients, inodes, recipients and failures: no two      *)
(* qmail-queue processes work on one message number, and neither           *)
(* cleanup_do() of qmail-send nor a request to qmail-clean, however late   *)
(* it is served, removes a file of a qmail-queue that is still alive.      *)
THEOREM InjectorsSafe == Spec => []LiveInjectorSafe
<1>1. InjectorInv => LiveInjectorSafe
  <2> SUFFICES ASSUME InjectorInv, NEW p \in Procs, qpc[p] \in Live
               PROVE  /\ qid[p] \in Ids
                      /\ Needs(p) \subseteq files[qid[p]]
                      /\ \A q \in Procs : qid[q] = qid[p] => q = p
    BY DEF LiveInjectorSafe
  <2>1. CASE qpc[p] \in Entering
    BY <2>1 DEF InjectorInv, OwnInode, Hidden
  <2>2. CASE qpc[p] = "queued"
    BY <2>2 DEF InjectorInv, OwnInode, Needs
  <2> QED BY <2>1, <2>2 DEF Entering, Live
<1> QED BY <1>1, InjectorCorrect, PTL

-----------------------------------------------------------------------------

(* The job is in use.                                                      *)
Open(j) == jo[j].refs > 0

(* Until it makes todo/, a qmail-queue has the files it has made and no    *)
(* other.                                                                  *)
Exact == \A p \in Procs : qpc[p] \in Entering => files[qid[p]] \ {"pid"} = Needs(p)

(* The request of todo_do() finds todo/ and the new info/; in either       *)
(* request intd/ goes before the other file.                               *)
RequestWhole ==
    cpc # "dead" /\ creq # NoRequest =>
        /\ work.id = creq.id
        /\ creq.op = "todo" <=> work.why = "todo"
        /\ creq.op = "todo" => {"todo", "info"} \subseteq files[creq.id]
        /\ cpc = "last" => "intd" \notin files[creq.id]

(* While todo_do() waits nobody works on the message, and the answer tells *)
(* whether it is preprocessed.                                             *)
AnswerWhole ==
    send = "clean" /\ work.why = "todo" =>
        /\ work.id \in Ids
        /\ \A c \in Channels : pqchan[c][work.id] = 0
        /\ \A j \in Jobs : Open(j) => jo[j].id # work.id
        /\ creply = "+" => S5(work.id)
        /\ creply = "!" => Has(work.id, "todo")

(* injectbounce() reports on a message that is preprocessed and finished.  *)
BounceWhole == send = "inject" => S5(work.id) /\ ~HasChannel(work.id)

(* One entry of pqchan, or one open job, for one channel file.             *)
OneClaim ==
    /\ \A id \in Ids, c \in Channels : pqchan[c][id] # 0 =>
          /\ pqchan[c][id] = 1 /\ S5(id) /\ Has(id, c)
          /\ \A j \in Jobs : Open(j) => jo[j].id # id \/ jo[j].channel # c
    /\ \A j \in Jobs : Open(j) =>
          jo[j].id \in Ids /\ S5(jo[j].id) /\ Has(jo[j].id, jo[j].channel)
    /\ \A j, k \in Jobs :
          /\ Open(j) /\ Open(k)
          /\ jo[j].id = jo[k].id /\ jo[j].channel = jo[k].channel
          => j = k

(* A qmail-send that does not run has no entry and no job.                 *)
Rested ==
    send = "down" => /\ \A id \in Ids, c \in Channels : pqchan[c][id] = 0
                     /\ \A j \in Jobs : ~Open(j)

NoneFailed == ~StatFails /\ \A id \in Ids : pqfail[id] = 0

StatesInv ==
    /\ QueueStates /\ Exact
    /\ RequestWhole /\ AnswerWhole /\ BounceWhole
    /\ OneClaim /\ Rested /\ NoneFailed

-----------------------------------------------------------------------------
(* Frames: what a step must leave alone for a part of StatesInv to stay.   *)

(* Only pid/ names come and go.                                            *)
SameNames(id) == files'[id] \ {"pid"} = files[id] \ {"pid"}

(* No job is opened, and none changes hands.                               *)
NoNewJobs ==
    \A j \in Jobs : Open(j)' =>
        Open(j) /\ jo'[j].id = jo[j].id /\ jo'[j].channel = jo[j].channel

(* Nobody starts a message or gets further with one.                       *)
NoNewProcs ==
    \A p \in Procs : qpc'[p] \in Entering => qpc'[p] = qpc[p] /\ qid'[p] = qid[p]

LEMMA NamesKept ==
  ASSUME NEW id, SameNames(id)
  PROVE  /\ \A k \in {"mess", "intd", "todo", "info", "bounce", "local", "remote"} :
               k \in files'[id] <=> k \in files[id]
         /\ S1(id)' <=> S1(id)
         /\ S2(id)' <=> S2(id)
         /\ S3(id)' <=> S3(id)
         /\ S4(id)' <=> S4(id)
         /\ S5(id)' <=> S5(id)
         /\ HasChannel(id)' <=> HasChannel(id)
<1>1. \A k \in {"mess", "intd", "todo", "info", "bounce", "local", "remote"} :
         k \in files'[id] <=> k \in files[id]
  BY DEF SameNames
<1> QED BY <1>1 DEF SameNames, S1, S2, S3, S4, S5, Has, HasChannel, Channels

LEMMA ExactKept ==
  ASSUME Exact, NoNewProcs,
         \A p \in Procs : qpc[p] \in Entering => SameNames(qid[p])
  PROVE  Exact'
<1> SUFFICES ASSUME NEW p \in Procs, qpc'[p] \in Entering
             PROVE  files'[qid'[p]] \ {"pid"} = Needs(p)'
  BY DEF Exact
<1>1. qpc'[p] = qpc[p] /\ qid'[p] = qid[p]
  BY DEF NoNewProcs
<1>2. Needs(p)' = Needs(p)
  BY <1>1 DEF Needs
<1> QED BY <1>1, <1>2 DEF Exact, SameNames

LEMMA ClaimsKept ==
  ASSUME OneClaim, NoNewJobs, pqchan' = pqchan,
         \A id \in Ids, c \in Channels :
             S5(id) /\ Has(id, c) => S5(id)' /\ Has(id, c)',
         jo \in [Jobs -> JobRecords]
  PROVE  OneClaim'
<1>1. ASSUME NEW id \in Ids, NEW c \in Channels, pqchan'[c][id] # 0
      PROVE  /\ pqchan'[c][id] = 1 /\ S5(id)' /\ Has(id, c)'
             /\ \A j \in Jobs : Open(j)' => jo'[j].id # id \/ jo'[j].channel # c
  BY <1>1 DEF OneClaim, NoNewJobs
<1>2. ASSUME NEW j \in Jobs, Open(j)'
      PROVE  (jo[j].id \in Ids /\ S5(jo[j].id) /\ Has(jo[j].id, jo[j].channel))'
  <2>1. /\ Open(j) /\ jo'[j].id = jo[j].id /\ jo'[j].channel = jo[j].channel
    BY <1>2 DEF NoNewJobs
  <2>2. jo[j].channel \in Channels
    BY DEF JobRecords
  <2>3. jo[j].id \in Ids /\ S5(jo[j].id) /\ Has(jo[j].id, jo[j].channel)
    BY <2>1 DEF OneClaim
  <2>4. PICK id, c : id = jo[j].id /\ c = jo[j].channel
    OBVIOUS
  <2>5. S5(id)' /\ Has(id, c)'
    BY <2>2, <2>3, <2>4
  <2> QED BY <2>1, <2>3, <2>4, <2>5 DEF S5, Has
<1>3. ASSUME NEW j \in Jobs, NEW k \in Jobs, Open(j)', Open(k)',
             jo'[j].id = jo'[k].id, jo'[j].channel = jo'[k].channel
      PROVE  j = k
  BY <1>3 DEF OneClaim, NoNewJobs
<1> QED BY <1>1, <1>2, <1>3 DEF OneClaim

-----------------------------------------------------------------------------
LEMMA InitStates == ~StatFails /\ Init => StatesInv
<1> SUFFICES ASSUME ~StatFails, Init PROVE StatesInv
  OBVIOUS
<1>1. QueueStates
  BY DEF Init, DirInit, QueueStates, S1
<1>2. Exact
  BY DEF Init, QueueInit, Exact, Entering
<1>3. RequestWhole /\ AnswerWhole /\ BounceWhole
  BY DEF Init, CleanInit, SendInit, RequestWhole, AnswerWhole, BounceWhole
<1>4. OneClaim /\ Rested /\ NoneFailed
  BY DEF Init, SendInit, OneClaim, Rested, NoneFailed, Open, NoJob
<1> QED BY <1>1, <1>2, <1>3, <1>4 DEF StatesInv

(* Steps that change no file but pid/ names, and give no work away.        *)
LEMMA QuietStates ==
  ASSUME TypeOK, InjectorInv, StatesInv,
         \A id \in Ids : SameNames(id), NoNewProcs, NoNewJobs,
         UNCHANGED <<pqchan, pqfail, cleanVars>>,
         \/ send' = send /\ work' = work
         \/ send # "clean" /\ send' = "loop"
  PROVE  StatesInv'
<1>1. QueueStates'
  BY NamesKept DEF StatesInv, QueueStates
<1>2. Exact'
  <2>1. \A p \in Procs : qpc[p] \in Entering => qid[p] \in Ids
    BY DEF InjectorInv, OwnInode, Entering, Live
  <2> QED BY <2>1, ExactKept DEF StatesInv
<1>3. RequestWhole'
  <2> SUFFICES ASSUME cpc # "dead", creq # NoRequest
               PROVE  /\ work'.id = creq.id
                      /\ creq.op = "todo" <=> work'.why = "todo"
                      /\ creq.op = "todo" => {"todo", "info"} \subseteq files'[creq.id]
                      /\ cpc = "last" => "intd" \notin files'[creq.id]
    BY DEF RequestWhole, cleanVars
  <2>1. send = "clean" /\ creq.id \in Ids
    BY DEF InjectorInv, RequestSafe, TypeOK, CleanTypeOK, Requests
  <2>2. work' = work
    BY <2>1
  <2> QED BY <2>1, <2>2, NamesKept DEF StatesInv, RequestWhole
<1>4. AnswerWhole' /\ BounceWhole'
  <2>1. CASE send' = send /\ work' = work
    <3>1. work.id \in Ids => /\ S5(work.id)' <=> S5(work.id)
                             /\ Has(work.id, "todo")' <=> Has(work.id, "todo")
                             /\ HasChannel(work.id)' <=> HasChannel(work.id)
      <4> PICK id : id = work.id
        OBVIOUS
      <4>1. id \in Ids => /\ S5(id)' <=> S5(id)
                          /\ Has(id, "todo")' <=> Has(id, "todo")
                          /\ HasChannel(id)' <=> HasChannel(id)
        BY NamesKept DEF Has
      <4> QED BY <2>1, <4>1 DEF S5, Has, HasChannel
    <3>2. AnswerWhole'
      <4> SUFFICES ASSUME send = "clean", work.why = "todo"
                   PROVE  /\ work.id \in Ids
                          /\ \A c \in Channels : pqchan'[c][work.id] = 0
                          /\ \A j \in Jobs : Open(j)' => jo'[j].id # work.id
                          /\ creply = "+" => S5(work.id)'
                          /\ creply = "!" => Has(work.id, "todo")'
        BY <2>1 DEF AnswerWhole, cleanVars
      <4> QED BY <3>1 DEF StatesInv, AnswerWhole, NoNewJobs
    <3>3. BounceWhole'
      BY <2>1, <3>1 DEF StatesInv, BounceWhole, InjectorInv, BounceInTurn
    <3> QED BY <3>2, <3>3
  <2>2. CASE send # "clean" /\ send' = "loop"
    BY <2>2 DEF AnswerWhole, BounceWhole
  <2> QED BY <2>1, <2>2
<1>5. OneClaim' /\ Rested' /\ NoneFailed'
  <2>1. \A id \in Ids, c \in Channels : S5(id) /\ Has(id, c) => S5(id)' /\ Has(id, c)'
    BY NamesKept DEF Has, Channels
  <2>2. jo \in [Jobs -> JobRecords]
    BY DEF TypeOK, SendTypeOK
  <2>3. Rested'
    BY DEF StatesInv, Rested, NoNewJobs
  <2> QED BY <2>1, <2>2, <2>3, ClaimsKept DEF StatesInv, NoneFailed
<1> QED BY <1>1, <1>2, <1>3, <1>4, <1>5 DEF StatesInv

-----------------------------------------------------------------------------
(* qmail-queue.  A step of p changes the names of one message, which       *)
(* nobody else has and which nothing of the queue refers to.               *)
LEMMA InjectStates ==
  ASSUME TypeOK, InjectorInv, StatesInv, NEW p \in Procs, NEW id \in Ids,
         UNCHANGED <<cleanVars, sendVars>>,
         \A x \in Ids : x # id => SameNames(x),
         \A q \in Procs : q # p => qpc'[q] = qpc[q] /\ qid'[q] = qid[q],
         \A q \in Procs : q # p /\ qpc[q] \in Entering => qid[q] # id,
         "todo" \notin files[id], "info" \notin files[id],
         cpc # "dead" /\ creq # NoRequest => creq.id # id,
         qpc'[p] \in Entering => qid'[p] = id /\ files'[id] \ {"pid"} = Needs(p)',
         (S1(id) \/ S2(id) \/ S3(id) \/ S4(id))'
  PROVE  StatesInv'
<1>1. QueueStates'
  <2> SUFFICES ASSUME NEW x \in Ids
               PROVE  (S1(x) \/ S2(x) \/ S3(x) \/ S4(x) \/ S5(x))'
    BY DEF QueueStates
  <2>1. CASE x = id
    BY <2>1
  <2>2. CASE x # id
    BY <2>2, NamesKept DEF StatesInv, QueueStates
  <2> QED BY <2>1, <2>2
<1>2. Exact'
  <2> SUFFICES ASSUME NEW q \in Procs, qpc'[q] \in Entering
               PROVE  files'[qid'[q]] \ {"pid"} = Needs(q)'
    BY DEF Exact
  <2>1. CASE q = p
    BY <2>1
  <2>2. CASE q # p
    <3>1. qpc'[q] = qpc[q] /\ qid'[q] = qid[q] /\ qid[q] # id
      BY <2>2
    <3>2. Needs(q)' = Needs(q)
      BY <3>1 DEF Needs
    <3>3. qid[q] \in Ids
      BY <3>1 DEF InjectorInv, OwnInode, Entering, Live
    <3>4. SameNames(qid[q])
      BY <3>1, <3>3
    <3> QED BY <3>1, <3>2, <3>4 DEF StatesInv, Exact, SameNames
  <2> QED BY <2>1, <2>2
<1>3. RequestWhole'
  <2> SUFFICES ASSUME cpc # "dead", creq # NoRequest
               PROVE  /\ work.id = creq.id
                      /\ creq.op = "todo" <=> work.why = "todo"
                      /\ creq.op = "todo" => {"todo", "info"} \subseteq files'[creq.id]
                      /\ cpc = "last" => "intd" \notin files'[creq.id]
    BY DEF RequestWhole, cleanVars, sendVars
  <2>1. creq.id \in Ids /\ creq.id # id
    BY DEF TypeOK, CleanTypeOK, Requests
  <2> QED BY <2>1, NamesKept DEF StatesInv, RequestWhole
<1>4. /\ \A x \in Ids : Has(x, "todo") => Has(x, "todo")'
      /\ \A x \in Ids : S5(x) => S5(x)' /\ (HasChannel(x)' <=> HasChannel(x))
      /\ \A x \in Ids, c \in Channels : S5(x) /\ Has(x, c) => S5(x)' /\ Has(x, c)'
  <2>1. \A x \in Ids : Has(x, "todo") \/ S5(x) => x # id
    BY DEF Has, S5
  <2> QED BY <2>1, NamesKept DEF Has, Channels
<1>5. AnswerWhole' /\ BounceWhole'
  <2> PICK x : x = work.id
    OBVIOUS
  <2>1. x \in Ids => /\ Has(x, "todo") => Has(x, "todo")'
                     /\ S5(x) => S5(x)' /\ (HasChannel(x)' <=> HasChannel(x))
    BY <1>4
  <2>2. UNCHANGED <<send, work, creply, pqchan, jo>>
    BY DEF sendVars, cleanVars
  <2>3. /\ send = "clean" /\ work.why = "todo" /\ creply = "+" => S5(work.id)'
        /\ send = "clean" /\ work.why = "todo" /\ creply = "!" => Has(work.id, "todo")'
    <3>1. send = "clean" /\ work.why = "todo" => /\ x \in Ids
                                                 /\ creply = "+" => S5(x)
                                                 /\ creply = "!" => Has(x, "todo")
      BY DEF StatesInv, AnswerWhole
    <3>2. /\ S5(x)' => S5(work.id)'
          /\ Has(x, "todo")' => Has(work.id, "todo")'
      BY <2>2 DEF S5, Has
    <3> QED BY <2>1, <3>1, <3>2
  <2>4. AnswerWhole'
    BY <2>2, <2>3 DEF StatesInv, AnswerWhole, Open
  <2>5. send = "inject" => x \in Ids /\ S5(x) /\ ~HasChannel(x)
    BY DEF StatesInv, BounceWhole, InjectorInv, BounceInTurn
  <2>6. BounceWhole'
    BY <2>1, <2>2, <2>5 DEF BounceWhole, S5, Has, HasChannel
  <2> QED BY <2>4, <2>6
<1>6. OneClaim' /\ Rested' /\ NoneFailed'
  <2>1. /\ jo \in [Jobs -> JobRecords] /\ NoNewJobs
        /\ pqchan' = pqchan /\ pqfail' = pqfail /\ send' = send
    BY DEF TypeOK, SendTypeOK, sendVars, NoNewJobs, Open
  <2>2. Rested'
    BY <2>1 DEF StatesInv, Rested, NoNewJobs
  <2> QED BY <1>4, <2>1, <2>2, ClaimsKept DEF StatesInv, NoneFailed
<1> QED BY <1>1, <1>2, <1>3, <1>5, <1>6 DEF StatesInv

LEMMA EnteringOwn ==
  ASSUME TypeOK, InjectorInv, StatesInv, NEW p \in Procs, qpc[p] \in Entering
  PROVE  /\ qid[p] \in Ids
         /\ \A q \in Procs : q # p => qid[q] # qid[p]
         /\ "todo" \notin files[qid[p]] /\ "info" \notin files[qid[p]]
         /\ cpc # "dead" /\ creq # NoRequest => creq.id # qid[p]
         /\ files[qid[p]] \ {"pid"} = Needs(p)
<1>1. qpc[p] \in Live
  BY DEF Entering, Live
<1> QED BY <1>1 DEF InjectorInv, OwnInode, Hidden, RequestSafe, StatesInv, Exact

(* The steps of main() and the deaths that clean up.                       *)
LEMMA MainStepStates ==
  ASSUME TypeOK, InjectorInv, StatesInv, NEW p \in Procs, UNCHANGED <<cleanVars, sendVars>>,
         \/ LinkMess(p) \/ UnlinkPid(p) \/ WriteBody(p) \/ OpenIntd(p) \/ LinkTodo(p)
         \/ \E s, rs : WriteEnvelope(p, s, rs)
         \/ DieCleaning(p)
  PROVE  StatesInv'
<1> PICK id : id = qid[p]
  OBVIOUS
<1>1. qpc[p] \in Entering
  BY DEF LinkMess, UnlinkPid, WriteBody, OpenIntd, LinkTodo, WriteEnvelope, DieCleaning, Step,
         Entering
<1>2. /\ id \in Ids
      /\ \A q \in Procs : q # p => qid[q] # id
      /\ "todo" \notin files[id] /\ "info" \notin files[id]
      /\ cpc # "dead" /\ creq # NoRequest => creq.id # id
      /\ files[id] \ {"pid"} = Needs(p)
  BY <1>1, EnteringOwn
<1>3. /\ \A q \in Procs : q # p => qpc'[q] = qpc[q] /\ qid'[q] = qid[q]
      /\ qpc'[p] \in Entering => qid'[p] = id
  BY DEF LinkMess, UnlinkPid, WriteBody, OpenIntd, LinkTodo, WriteEnvelope, DieCleaning, Step,
         Exit, Entering, TypeOK, QueueTypeOK
<1>4. \E ks, made :
         /\ files' = [files EXCEPT ![id] = (@ \ ks) \cup made]
         /\ \/ qpc[p] = "pid" /\ qpc'[p] = "linked" /\ ks = {} /\ made = {"mess"}
            \/ qpc[p] = "linked" /\ qpc'[p] = "mess" /\ ks = {"pid"} /\ made = {}
            \/ qpc[p] = "mess" /\ qpc'[p] = "body" /\ ks = {} /\ made = {}
            \/ qpc[p] = "body" /\ qpc'[p] = "intd" /\ ks = {} /\ made = {"intd"}
            \/ qpc[p] = "intd" /\ qpc'[p] = "ready" /\ ks = {} /\ made = {}
            \/ qpc[p] = "ready" /\ qpc'[p] = "queued" /\ ks = {} /\ made = {"todo"}
            \/ qpc[p] = "mess" /\ qpc'[p] \in {"idle", "err"} /\ ks \in {{}, {"mess"}} /\ made = {}
            \/ /\ qpc[p] = "intd" /\ qpc'[p] \in {"idle", "err"}
               /\ ks \in {{}, {"intd"}, {"intd", "mess"}} /\ made = {}
  <2>1. files \in [Ids -> SUBSET Kinds] /\ qpc \in [Procs -> Live \cup {"idle", "ok", "err"}]
    BY DEF TypeOK, DirTypeOK, QueueTypeOK
  <2>2. files = [files EXCEPT ![id] = (@ \ {}) \cup {}]
    BY <2>1, <1>2
  <2>3. CASE LinkMess(p)
    BY <2>1, <2>3 DEF LinkMess, Step, Create
  <2>4. CASE UnlinkPid(p)
    BY <2>1, <2>4 DEF UnlinkPid, Step, Unlink
  <2>5. CASE WriteBody(p)
    BY <2>1, <2>2, <2>5 DEF WriteBody, Step
  <2>6. CASE OpenIntd(p)
    BY <2>1, <2>6 DEF OpenIntd, Step, Create
  <2>7. CASE LinkTodo(p)
    BY <2>1, <2>7 DEF LinkTodo, Step, Create
  <2>8. CASE \E s, rs : WriteEnvelope(p, s, rs)
    BY <2>1, <2>2, <2>8 DEF WriteEnvelope, Step
  <2>9. CASE DieCleaning(p)
    <3>1. PICK ks \in CleanedUp(p) : Unlink(id, ks)
      BY <2>9 DEF DieCleaning
    <3>2. files' = [files EXCEPT ![id] = (@ \ ks) \cup {}]
      BY <3>1, <2>1 DEF Unlink
    <3>3. qpc[p] \in {"mess", "intd"} /\ qpc'[p] \in {"idle", "err"}
      BY <2>1, <2>9 DEF DieCleaning, Exit
    <3> QED BY <3>1, <3>2, <3>3 DEF CleanedUp
  <2> QED BY <2>3, <2>4, <2>5, <2>6, <2>7, <2>8, <2>9
<1>5. PICK ks, made :
         /\ files' = [files EXCEPT ![id] = (@ \ ks) \cup made]
         /\ \/ qpc[p] = "pid" /\ qpc'[p] = "linked" /\ ks = {} /\ made = {"mess"}
            \/ qpc[p] = "linked" /\ qpc'[p] = "mess" /\ ks = {"pid"} /\ made = {}
            \/ qpc[p] = "mess" /\ qpc'[p] = "body" /\ ks = {} /\ made = {}
            \/ qpc[p] = "body" /\ qpc'[p] = "intd" /\ ks = {} /\ made = {"intd"}
            \/ qpc[p] = "intd" /\ qpc'[p] = "ready" /\ ks = {} /\ made = {}
            \/ qpc[p] = "ready" /\ qpc'[p] = "queued" /\ ks = {} /\ made = {"todo"}
            \/ qpc[p] = "mess" /\ qpc'[p] \in {"idle", "err"} /\ ks \in {{}, {"mess"}} /\ made = {}
            \/ /\ qpc[p] = "intd" /\ qpc'[p] \in {"idle", "err"}
               /\ ks \in {{}, {"intd"}, {"intd", "mess"}} /\ made = {}
  BY <1>4
<1>6. /\ files'[id] = (files[id] \ ks) \cup made
      /\ \A x \in Ids : x # id => SameNames(x)
  BY <1>2, <1>5 DEF SameNames, TypeOK, DirTypeOK
<1>7. files'[id] \ {"pid"} = ((files[id] \ {"pid"}) \ ks) \cup made
  BY <1>5, <1>6
<1>8. qpc'[p] \in Entering => files'[id] \ {"pid"} = Needs(p)'
  BY <1>2, <1>5, <1>7 DEF Needs, Entering
<1>9. (S1(id) \/ S2(id) \/ S3(id) \/ S4(id))'
  <2>1. CASE qpc'[p] = "queued"
    BY <1>2, <1>5, <1>7, <2>1 DEF Needs, S4, Has, Entering
  <2>2. CASE qpc'[p] # "queued"
    BY <1>2, <1>5, <1>7, <2>2 DEF Needs, S1, S2, S3
  <2> QED BY <2>1, <2>2
<1> QED BY <1>2, <1>3, <1>6, <1>8, <1>9, InjectStates

(* pidopen(): a free number has no names.                                  *)
LEMMA PidOpenStates ==
  ASSUME TypeOK, InjectorInv, StatesInv, NEW p \in Procs, PidOpen(p),
         UNCHANGED <<cleanVars, sendVars>>
  PROVE  StatesInv'
<1>1. PICK id \in FreeIds :
         /\ qpc' = [qpc EXCEPT ![p] = "pid"]
         /\ qid' = [qid EXCEPT ![p] = id]
         /\ files' = [files EXCEPT ![id] = @ \cup {"pid"}]
  BY DEF PidOpen, Create
<1>2. /\ id \in Ids /\ "mess" \notin files[id]
      /\ \A q \in Procs : qid[q] # id
  BY DEF FreeIds, Free, Named, Held
<1>3. S1(id)
  BY <1>2 DEF StatesInv, QueueStates, S2, S3, S4, S5, Has
<1>4. QueueTypeOK /\ DirTypeOK
  BY DEF TypeOK
<1>5. /\ \A x \in Ids : SameNames(x)
      /\ files'[id] \ {"pid"} = {}
  BY <1>1, <1>2, <1>3, <1>4 DEF SameNames, S1, DirTypeOK
<1>6. /\ qpc'[p] = "pid" /\ qid'[p] = id
      /\ \A q \in Procs : q # p => qpc'[q] = qpc[q] /\ qid'[q] = qid[q]
  BY <1>1, <1>2, <1>4 DEF QueueTypeOK
<1>7. Needs(p)' = {} /\ S1(id)'
  BY <1>5, <1>6 DEF Needs, S1
<1>8. /\ "todo" \notin files[id] /\ "info" \notin files[id]
      /\ cpc # "dead" /\ creq # NoRequest => creq.id # id
  BY <1>2, <1>3 DEF S1, InjectorInv, RequestSafe
<1> QED BY <1>2, <1>5, <1>6, <1>7, <1>8, InjectStates

LEMMA InjectionStates ==
  ASSUME TypeOK, InjectorInv, StatesInv, NEW p \in Procs,
         Inject(p) \/ InjectFails(p) \/ Envelope(p) \/ Queue(p)
  PROVE  StatesInv'
<1>1. UNCHANGED <<cleanVars, sendVars>>
  BY DEF Inject, InjectFails, Envelope, Queue
<1>2. CASE PidOpen(p)
  BY <1>1, <1>2, PidOpenStates
<1>3. CASE \/ LinkMess(p) \/ UnlinkPid(p) \/ WriteBody(p) \/ OpenIntd(p) \/ LinkTodo(p)
           \/ \E s, rs : WriteEnvelope(p, s, rs)
           \/ DieCleaning(p)
  BY <1>1, <1>3, MainStepStates
<1>4. CASE ExitOk(p) \/ PidOpenFails(p) \/ DieLeaving(p) \/ Alarm(p)
  <2>1. files' = files /\ qpc' = [qpc EXCEPT ![p] = qpc'[p]] /\ qid' = [qid EXCEPT ![p] = NoId]
        /\ qpc'[p] \notin Entering
    BY <1>4 DEF ExitOk, PidOpenFails, DieLeaving, Alarm, Exit, Entering, dirVars, TypeOK,
                QueueTypeOK
  <2>2. NoNewProcs
    BY <2>1 DEF NoNewProcs, TypeOK, QueueTypeOK
  <2>3. /\ \A id \in Ids : SameNames(id)
        /\ NoNewJobs /\ UNCHANGED <<pqchan, pqfail, cleanVars, send, work>>
    BY <1>1, <2>1 DEF SameNames, NoNewJobs, Open, sendVars
  <2> QED BY <2>2, <2>3, QuietStates
<1>5. \/ PidOpen(p) \/ LinkMess(p) \/ UnlinkPid(p) \/ WriteBody(p) \/ OpenIntd(p) \/ LinkTodo(p)
      \/ \E s, rs : WriteEnvelope(p, s, rs)
      \/ DieCleaning(p) \/ ExitOk(p) \/ PidOpenFails(p) \/ DieLeaving(p) \/ Alarm(p)
  BY DEF Inject, InjectFails, Envelope, Queue
<1> QED BY <1>2, <1>3, <1>4, <1>5

-----------------------------------------------------------------------------
(* qmail-send in its main loop: nothing is asked and nothing answered, so  *)
(* what a handler has to leave right are the files of its message and the  *)
(* entries and jobs.                                                       *)
LEMMA NotAsked ==
  ASSUME InjectorInv, send # "clean"
  PROVE  /\ cpc = "dead" \/ creq = NoRequest
         /\ cpc \notin {"intd", "last"} /\ creply = "none"
BY DEF InjectorInv, RequestSafe, OneRequest

LEMMA NewStates ==
  ASSUME TypeOK, InjectorInv, StatesInv, NoNewProcs,
         \A x \in Ids : \/ SameNames(x)
                        \/ /\ \A p \in Procs : qpc[p] \in Entering => qid[p] # x
                           /\ (S1(x) \/ S2(x) \/ S3(x) \/ S4(x) \/ S5(x))'
  PROVE  QueueStates' /\ Exact'
<1>1. QueueStates'
  BY NamesKept DEF StatesInv, QueueStates
<1>2. Exact'
  <2>1. \A p \in Procs : qpc[p] \in Entering => qid[p] \in Ids
    BY DEF InjectorInv, OwnInode, Entering, Live
  <2> QED BY <2>1, ExactKept DEF StatesInv
<1> QED BY <1>1, <1>2

(* A message in todo/ or info/ is not being made by a qmail-queue.         *)
LEMMA NotEntering ==
  ASSUME InjectorInv, NEW x \in Ids, "todo" \in files[x] \/ "info" \in files[x]
  PROVE  \A p \in Procs : qpc[p] \in Entering => qid[p] # x
BY DEF InjectorInv, Hidden

LEMMA LoopStates ==
  ASSUME TypeOK, InjectorInv, StatesInv, NoNewProcs,
         \A x \in Ids : \/ SameNames(x)
                        \/ /\ "todo" \in files[x] \/ "info" \in files[x]
                           /\ (S4(x) \/ S5(x))',
         send' = "loop", cpc' = "dead" \/ creq' = NoRequest, pqfail' = pqfail,
         OneClaim'
  PROVE  StatesInv'
<1>1. QueueStates' /\ Exact'
  BY NewStates, NotEntering
<1>2. RequestWhole' /\ AnswerWhole' /\ BounceWhole' /\ Rested'
  BY DEF RequestWhole, AnswerWhole, BounceWhole, Rested
<1>3. NoneFailed'
  BY DEF StatesInv, NoneFailed
<1> QED BY <1>1, <1>2, <1>3 DEF StatesInv

(* job_close() gives the message back to pqchan, or removes the file.      *)
LEMMA JobCloseStates ==
  ASSUME TypeOK, InjectorInv, StatesInv, NEW j \in Jobs, NEW job \in JobRecords,
         NEW fl \in [Ids -> SUBSET Kinds], NEW un, NEW dn, NEW f,
         JobClose(j, job, fl, un, dn, f),
         jo[j].refs > 0, job.refs = jo[j].refs, job.id = jo[j].id,
         job.channel = jo[j].channel,
         \A x \in Ids : x # job.id => fl[x] = files[x],
         fl[job.id] \in {files[job.id], files[job.id] \cup {"bounce"}},
         send = "loop", send' = "loop", UNCHANGED <<queueVars, cleanVars, pqfail>>
  PROVE  StatesInv'
<1> PICK id, c : id = job.id /\ c = job.channel
  OBVIOUS
<1>1. /\ id \in Ids /\ c \in Channels /\ S5(id) /\ Has(id, c)
      /\ pqchan[c][id] = 0
      /\ \A k \in Jobs : k # j /\ Open(k) => jo[k].id # id \/ jo[k].channel # c
  BY DEF StatesInv, OneClaim, Open, JobRecords
<1>2. /\ \A k \in Jobs : k # j => jo'[k] = jo[k]
      /\ jo'[j].refs = IF job.refs > 1 THEN job.refs - 1 ELSE 0
      /\ job.refs > 1 => jo'[j].id = id /\ jo'[j].channel = c
  BY CloseJob
<1>3. /\ \A x \in Ids : x # id => files'[x] = files[x]
      /\ \/ GoesOn(job, fl, un, dn, f) /\ files' = fl
         \/ ChannelEnds(job, fl, un, dn, f) /\ files'[id] = fl[id] \ {c}
  BY <1>1 DEF JobClose, GoesOn, ChannelEnds
<1>4. /\ S5(id)'
      /\ \A x \in Channels : x # c /\ Has(id, x) => Has(id, x)'
      /\ GoesOn(job, fl, un, dn, f) => Has(id, c)'
  <2>1. fl[id] \subseteq files[id] \cup {"bounce"} /\ files[id] \subseteq fl[id]
    OBVIOUS
  <2>2. files'[id] = fl[id] \/ files'[id] = fl[id] \ {c}
    BY <1>3
  <2>3. GoesOn(job, fl, un, dn, f) => files' = fl
    BY DEF GoesOn
  <2>4. S5(id)'
    BY <1>1, <2>1, <2>2 DEF S5, Has, Channels
  <2> QED BY <1>1, <2>1, <2>2, <2>3, <2>4 DEF Has
<1>5. \A x \in Ids, k \in Channels : x # id => (S5(x)' <=> S5(x)) /\ (Has(x, k)' <=> Has(x, k))
  BY <1>3 DEF S5, Has
<1>6. NoNewJobs
  <2> SUFFICES ASSUME NEW k \in Jobs, Open(k)'
               PROVE  Open(k) /\ jo'[k].id = jo[k].id /\ jo'[k].channel = jo[k].channel
    BY DEF NoNewJobs
  <2>1. CASE k # j
    BY <1>2, <2>1 DEF Open
  <2>2. CASE k = j
    BY <1>2, <2>2 DEF Open, JobRecords
  <2> QED BY <2>1, <2>2
<1>7. jo \in [Jobs -> JobRecords] /\ pqchan \in [Channels -> [Ids -> Nat]]
  BY DEF TypeOK, SendTypeOK
<1>8. OneClaim'
  <2>1. CASE job.refs > 1
    <3>1. pqchan' = pqchan /\ GoesOn(job, fl, un, dn, f)
      BY <1>3, <2>1 DEF GoesOn, ChannelEnds, Closable
    <3>2. \A x \in Ids, k \in Channels : S5(x) /\ Has(x, k) => S5(x)' /\ Has(x, k)'
      BY <1>4, <1>5, <3>1
    <3> QED BY <1>6, <1>7, <3>1, <3>2, ClaimsKept DEF StatesInv
  <2>2. CASE ~(job.refs > 1)
    <3>1. ~Open(j)'
      BY <1>2, <2>2 DEF Open
    <3>2. /\ \A k \in Channels, x \in Ids : k # c \/ x # id => pqchan'[k][x] = pqchan[k][x]
          /\ GoesOn(job, fl, un, dn, f) => pqchan'[c][id] = 1
          /\ ~GoesOn(job, fl, un, dn, f) => pqchan'[c][id] = 0
      BY <1>1, <1>3, <1>7, <2>2 DEF GoesOn, ChannelEnds, Push
    <3>3. ASSUME NEW k \in Jobs, Open(k)'
          PROVE  /\ k # j /\ Open(k) /\ jo'[k].id = jo[k].id /\ jo'[k].channel = jo[k].channel
                 /\ jo[k].id # id \/ jo[k].channel # c
                 /\ jo[k].id \in Ids /\ jo[k].channel \in Channels
                 /\ S5(jo[k].id) /\ Has(jo[k].id, jo[k].channel)
      BY <1>1, <1>6, <1>7, <3>1, <3>3 DEF NoNewJobs, StatesInv, OneClaim, JobRecords
    <3>4. ASSUME NEW x \in Ids, NEW k \in Channels, pqchan'[k][x] # 0
          PROVE  /\ pqchan'[k][x] = 1 /\ S5(x)' /\ Has(x, k)'
                 /\ \A l \in Jobs : Open(l)' => jo'[l].id # x \/ jo'[l].channel # k
      <4>1. CASE x = id /\ k = c
        BY <1>4, <3>2, <3>3, <3>4, <4>1
      <4>2. CASE x # id \/ k # c
        <5>1. /\ pqchan[k][x] = 1 /\ S5(x) /\ Has(x, k) /\ pqchan'[k][x] = 1
              /\ \A l \in Jobs : Open(l) => jo[l].id # x \/ jo[l].channel # k
          BY <3>2, <3>4, <4>2 DEF StatesInv, OneClaim
        <5>2. S5(x)' /\ Has(x, k)'
          BY <1>4, <1>5, <4>2, <5>1
        <5> QED BY <3>3, <5>1, <5>2
      <4> QED BY <4>1, <4>2
    <3>5. ASSUME NEW k \in Jobs, Open(k)'
          PROVE  (jo[k].id \in Ids /\ S5(jo[k].id) /\ Has(jo[k].id, jo[k].channel))'
      <4> PICK x, l : x = jo[k].id /\ l = jo[k].channel
        OBVIOUS
      <4>1. x \in Ids /\ l \in Channels /\ S5(x) /\ Has(x, l) /\ (x # id \/ l # c)
        BY <3>3, <3>5
      <4>2. S5(x)' /\ Has(x, l)'
        BY <1>4, <1>5, <4>1
      <4>3. jo'[k].id = x /\ jo'[k].channel = l
        BY <3>3, <3>5
      <4> QED BY <4>1, <4>2, <4>3 DEF S5, Has
    <3>6. ASSUME NEW k \in Jobs, NEW l \in Jobs, Open(k)', Open(l)',
                 jo'[k].id = jo'[l].id, jo'[k].channel = jo'[l].channel
          PROVE  k = l
      BY <3>3, <3>6 DEF StatesInv, OneClaim
    <3> QED BY <3>4, <3>5, <3>6 DEF OneClaim
  <2> QED BY <2>1, <2>2
<1>9. \A x \in Ids : x # id => SameNames(x)
  BY <1>3 DEF SameNames
<1>10. NoNewProcs /\ pqfail' = pqfail /\ (cpc' = "dead" \/ creq' = NoRequest)
  BY NotAsked DEF NoNewProcs, queueVars, cleanVars
<1>11. "info" \in files[id]
  BY <1>1 DEF S5, Has
<1> QED BY <1>4, <1>8, <1>9, <1>10, <1>11, LoopStates

(* What is in info/ and not in todo/ is preprocessed.                      *)
LEMMA AddableStates ==
  ASSUME StatesInv, NEW id \in Ids, Addable(id)
  PROVE  S5(id)
BY DEF StatesInv, QueueStates, Addable, S1, S2, S3, S4, S5, Has

(* Nothing of the queue refers to a message that is not preprocessed or    *)
(* has no channel file left.                                               *)
LEMMA Unclaimed ==
  ASSUME TypeOK, StatesInv, NEW id \in Ids, ~S5(id) \/ ~HasChannel(id)
  PROVE  /\ \A c \in Channels : pqchan[c][id] = 0
         /\ \A j \in Jobs : Open(j) => jo[j].id # id
<1>1. ASSUME NEW c \in Channels PROVE pqchan[c][id] = 0
  BY DEF StatesInv, OneClaim, HasChannel, Has
<1>2. ASSUME NEW j \in Jobs, Open(j), jo[j].id = id PROVE FALSE
  <2>1. jo[j].channel \in Channels
    BY DEF TypeOK, SendTypeOK, JobRecords
  <2> QED BY <1>2, <2>1 DEF StatesInv, OneClaim, HasChannel, Has
<1> QED BY <1>1, <1>2

(* pqstart(): no entry and no job is there before.                         *)
LEMMA StartStates ==
  ASSUME TypeOK, InjectorInv, StatesInv, Start, UNCHANGED <<queueVars, cleanVars>>
  PROVE  StatesInv'
<1> DEFINE infos == {id \in Ids : Has(id, "info")}
<1>1. /\ send = "down" /\ send' = "loop" /\ files' = files /\ jo' = jo
      /\ pqchan' = AddChan(infos) /\ pqfail' = Postponed({})
  BY DEF Start, Resume, tables, StatesInv, NoneFailed
<1>2. /\ \A id \in Ids, c \in Channels : pqchan[c][id] = 0
      /\ \A j \in Jobs : ~Open(j) /\ ~Open(j)'
  BY <1>1 DEF StatesInv, Rested, Open
<1>3. ASSUME NEW id \in Ids, NEW c \in Channels, pqchan'[c][id] # 0
      PROVE  pqchan'[c][id] = 1 /\ S5(id)' /\ Has(id, c)'
  <2>1. pqchan'[c][id] = IF id \in infos /\ Addable(id) /\ Has(id, c)
                         THEN pqchan[c][id] + 1 ELSE pqchan[c][id]
    BY <1>1 DEF AddChan
  <2>2. pqchan'[c][id] = 1 /\ Addable(id) /\ Has(id, c)
    BY <1>2, <1>3, <2>1
  <2> QED BY <1>1, <2>2, AddableStates DEF S5, Has
<1>4. OneClaim'
  BY <1>2, <1>3 DEF OneClaim
<1>5. \A id \in Ids : pqfail'[id] = 0
  BY <1>1 DEF Postponed
<1>6. QueueStates' /\ Exact'
  BY <1>1, NewStates DEF SameNames, NoNewProcs, queueVars
<1>7. RequestWhole' /\ AnswerWhole' /\ BounceWhole' /\ Rested' /\ NoneFailed'
  BY <1>1, <1>5, NotAsked DEF cleanVars, RequestWhole, AnswerWhole, BounceWhole, Rested,
     NoneFailed, StatesInv
<1> QED BY <1>4, <1>6, <1>7 DEF StatesInv

(* pass_dochan(): the entry of the message becomes a job.                  *)
LEMMA PassOpenStates ==
  ASSUME TypeOK, JobsInv, InjectorInv, StatesInv, NEW c \in Channels, NEW id \in Ids,
         PassOpen(c, id), UNCHANGED <<queueVars, cleanVars>>
  PROVE  StatesInv'
<1> PICK j : j = Least(JobsFree)
  OBVIOUS
<1>1. j \in Jobs /\ ~Open(j)
  <2>1. JobsFree \in SUBSET Nat /\ JobsFree # {}
    BY DEF PassOpen, JobsFree, Jobs
  <2>2. j \in JobsFree
    BY <2>1, LeastType
  <2> QED BY <2>2 DEF JobsFree, Open
<1>2. /\ send = "loop" /\ send' = "loop" /\ files' = files /\ pqfail' = pqfail
      /\ pqchan[c][id] > 0
      /\ pqchan' = [pqchan EXCEPT ![c] = Pop(@, id)]
      /\ jo' = [jo EXCEPT ![j] = [refs |-> 1, id |-> id, channel |-> c, numtodo |-> 0,
                                  hiteof |-> FALSE, dying |-> old[id]]]
  BY DEF PassOpen, dirVars
<1>3. jo \in [Jobs -> JobRecords] /\ pqchan \in [Channels -> [Ids -> Nat]]
  BY DEF TypeOK, SendTypeOK
<1>4. /\ pqchan[c][id] = 1 /\ S5(id) /\ Has(id, c)
      /\ \A k \in Jobs : Open(k) => jo[k].id # id \/ jo[k].channel # c
  BY <1>2, <1>3 DEF StatesInv, OneClaim
<1>5. /\ pqchan'[c][id] = 0
      /\ \A x \in Ids, k \in Channels : x # id \/ k # c => pqchan'[k][x] = pqchan[k][x]
  BY <1>2, <1>3, <1>4 DEF Pop
<1>6. /\ jo'[j].id = id /\ jo'[j].channel = c
      /\ \A k \in Jobs : k # j => jo'[k] = jo[k]
  BY <1>1, <1>2, <1>3
<1>7. \A x \in Ids, k \in Channels : (S5(x)' <=> S5(x)) /\ (Has(x, k)' <=> Has(x, k))
  BY <1>2 DEF S5, Has
<1>8. ASSUME NEW x \in Ids, NEW k \in Channels, pqchan'[k][x] # 0
      PROVE  /\ pqchan'[k][x] = 1 /\ S5(x)' /\ Has(x, k)'
             /\ \A l \in Jobs : Open(l)' => jo'[l].id # x \/ jo'[l].channel # k
  <2>1. (x # id \/ k # c) /\ pqchan[k][x] # 0 /\ pqchan'[k][x] = pqchan[k][x]
    BY <1>5, <1>8
  <2> QED BY <1>6, <1>7, <2>1 DEF StatesInv, OneClaim, Open
<1>9. ASSUME NEW k \in Jobs, Open(k)'
      PROVE  (jo[k].id \in Ids /\ S5(jo[k].id) /\ Has(jo[k].id, jo[k].channel))'
  <2> PICK x, l : x = jo'[k].id /\ l = jo'[k].channel
    OBVIOUS
  <2>1. x \in Ids /\ l \in Channels /\ S5(x) /\ Has(x, l)
    <3>1. CASE k = j
      BY <1>4, <1>6, <3>1
    <3>2. CASE k # j
      BY <1>3, <1>6, <1>9, <3>2 DEF StatesInv, OneClaim, Open, JobRecords
    <3> QED BY <3>1, <3>2
  <2>2. S5(x)' /\ Has(x, l)'
    BY <1>7, <2>1
  <2> QED BY <2>1, <2>2 DEF S5, Has
<1>10. ASSUME NEW k \in Jobs, NEW l \in Jobs, Open(k)', Open(l)',
              jo'[k].id = jo'[l].id, jo'[k].channel = jo'[l].channel
       PROVE  k = l
  <2>1. CASE k # j /\ l # j
    BY <1>6, <1>10, <2>1 DEF StatesInv, OneClaim, Open
  <2>2. CASE k = j \/ l = j
    BY <1>4, <1>6, <1>10, <2>2 DEF Open
  <2> QED BY <2>1, <2>2
<1>11. OneClaim'
  BY <1>8, <1>9, <1>10 DEF OneClaim
<1> QED BY <1>2, <1>11, LoopStates, NotAsked DEF SameNames, NoNewProcs, queueVars, cleanVars

(* pass_dochan() fills a slot, or the pass is over.                        *)
LEMMA PassStates ==
  ASSUME TypeOK, JobsInv, InjectorInv, StatesInv, NEW c \in Channels,
         PassDeliver(c) \/ PassClose(c), UNCHANGED <<queueVars, cleanVars>>
  PROVE  StatesInv'
<1> PICK j : j = pass[c].j
  OBVIOUS
<1>1. /\ j \in Jobs /\ jo[j].refs > 0 /\ jo \in [Jobs -> JobRecords]
      /\ files \in [Ids -> SUBSET Kinds]
  BY Refers DEF PassDeliver, PassClose, TypeOK, SendTypeOK, DirTypeOK
<1>2. CASE PassDeliver(c)
  <2>1. /\ jo' = [jo EXCEPT ![j] = Referred(@)] /\ files' = files
        /\ UNCHANGED <<send, work, pqchan, pqfail>>
    BY <1>2 DEF PassDeliver, queues, dirVars
  <2>2. NoNewJobs
    BY <1>1, <2>1 DEF NoNewJobs, Open, Referred, JobRecords
  <2> QED BY <2>1, <2>2, QuietStates DEF SameNames, NoNewProcs, queueVars
<1>3. CASE PassClose(c)
  <2> DEFINE read == [jo[j] EXCEPT !.hiteof = TRUE]
  <2>1. /\ send = "loop" /\ send' = "loop" /\ pqfail' = pqfail
        /\ \/ JobClose(j, read, files, undone, done, 0)
           \/ JobClose(j, jo[j], files, undone, done, 1)
    BY <1>3 DEF PassClose
  <2>2. /\ read \in JobRecords /\ jo[j] \in JobRecords
        /\ read.refs = jo[j].refs /\ read.id = jo[j].id /\ read.channel = jo[j].channel
    BY <1>1 DEF JobRecords
  <2> HIDE DEF read
  <2>3. CASE JobClose(j, read, files, undone, done, 0)
    BY <1>1, <2>1, <2>2, <2>3, JobCloseStates
  <2>4. CASE JobClose(j, jo[j], files, undone, done, 1)
    BY <1>1, <2>1, <2>2, <2>4, JobCloseStates
  <2> QED BY <2>1, <2>3, <2>4
<1> QED BY <1>2, <1>3

(* del_dochan(): bounce/ may appear, then job_close().                     *)
LEMMA ReportStates ==
  ASSUME TypeOK, JobsInv, InjectorInv, StatesInv, NEW c \in Channels, NEW i \in Slots(c),
         Report(c, i)
  PROVE  StatesInv'
<1> PICK j : j = del[c][i].j
  OBVIOUS
<1>1. j \in Jobs /\ jo[j].refs > 0 /\ jo[j].channel = c
  BY ReportCase DEF Report
<1>2. PICK job, fl, un, dn, f :
         /\ job \in JobRecords
         /\ job.refs = jo[j].refs /\ job.id = jo[j].id /\ job.channel = c
         /\ Reported(c, i, job, fl, un, dn, f)
  BY ReportCase DEF Report
<1>3. JobClose(j, job, fl, un, dn, f)
  BY <1>2 DEF Reported
<1>4. files \in [Ids -> SUBSET Kinds] /\ job.id \in Ids
  BY <1>1, <1>2 DEF TypeOK, DirTypeOK, StatesInv, OneClaim, Open
<1>5. fl = files \/ fl = [files EXCEPT ![job.id] = @ \cup {"bounce"}]
  BY <1>2 DEF Reported
<1>6. /\ fl \in [Ids -> SUBSET Kinds]
      /\ \A x \in Ids : x # job.id => fl[x] = files[x]
      /\ fl[job.id] \in {files[job.id], files[job.id] \cup {"bounce"}}
  BY <1>4, <1>5 DEF Kinds
<1>7. send = "loop" /\ send' = "loop" /\ UNCHANGED <<queueVars, cleanVars, pqfail>>
  BY DEF Report, DelReport
<1> QED BY <1>1, <1>2, <1>3, <1>6, <1>7, JobCloseStates

(* Handlers that change no file and take no work.                          *)
LEMMA StillStates ==
  ASSUME TypeOK, InjectorInv, StatesInv, UNCHANGED <<queueVars, cleanVars>>,
         \/ Term
         \/ \E id \in Ids : MessDoneReturns(id) \/ Expire(id)
         \/ \E c \in Channels : SpawnDied(c)
         \/ \E c \in Channels : \E i \in Slots(c) :
               CommWrite(c, i) \/ \E result \in {"K", "Z", "D"} : Deliver(c, i, result)
  PROVE  StatesInv'
<1>1. UNCHANGED <<files, send, work, pqchan, pqfail, jo>>
  BY DEF Term, MessDoneReturns, Expire, SpawnDied, CommWrite, Deliver, queues, tables, dirVars
<1>2. NoNewJobs /\ NoNewProcs /\ \A x \in Ids : SameNames(x)
  BY <1>1 DEF NoNewJobs, NoNewProcs, SameNames, Open, queueVars
<1> QED BY <1>1, <1>2, QuietStates

LEMMA RetryStates ==
  ASSUME StatesInv, NEW id \in Ids, RetryFailed(id)
  PROVE  FALSE
BY DEF StatesInv, NoneFailed, RetryFailed

(* messdone() starts injectbounce(), or its unlink()s fail.                *)
LEMMA MessDoneStates ==
  ASSUME TypeOK, InjectorInv, StatesInv, NEW id \in Ids,
         MessDoneBounces(id) \/ MessDoneFails(id), UNCHANGED <<queueVars, cleanVars>>
  PROVE  StatesInv'
<1>1. send = "loop" /\ S5(id) /\ ~HasChannel(id)
  BY AddableStates DEF MessDoneBounces, MessDoneFails, TakeDone, Finished
<1>2. jo \in [Jobs -> JobRecords] /\ files \in [Ids -> SUBSET Kinds]
  BY DEF TypeOK, SendTypeOK, DirTypeOK
<1>3. CASE MessDoneBounces(id)
  <2>1. /\ send' = "inject" /\ work'.id = id
        /\ UNCHANGED <<files, pqchan, pqfail, jo>>
    BY <1>3 DEF MessDoneBounces, Wait, tables, dirVars
  <2>2. NoNewJobs /\ NoNewProcs /\ \A x \in Ids : SameNames(x)
    BY <2>1 DEF NoNewJobs, NoNewProcs, SameNames, Open, queueVars
  <2>3. QueueStates' /\ Exact'
    BY <2>2, NewStates
  <2>4. RequestWhole' /\ AnswerWhole' /\ Rested'
    BY <1>1, <2>1, NotAsked DEF cleanVars, RequestWhole, AnswerWhole, Rested
  <2>5. BounceWhole'
    BY <1>1, <2>1 DEF BounceWhole, S5, Has, HasChannel
  <2>6. OneClaim'
    BY <1>2, <2>1, <2>2, ClaimsKept DEF StatesInv, S5, Has
  <2>7. NoneFailed'
    BY <2>1 DEF StatesInv, NoneFailed
  <2> QED BY <2>3, <2>4, <2>5, <2>6, <2>7 DEF StatesInv
<1>4. CASE MessDoneFails(id)
  <2>1. /\ send' = "loop" /\ UNCHANGED <<pqchan, pqfail, jo>>
        /\ \E ks \in {{}, {"bounce"}} : files' = [files EXCEPT ![id] = @ \ ks]
    BY <1>4 DEF MessDoneFails, EndMessFails, Resume, Unlink, tables
  <2>2. /\ \A x \in Ids : x # id => files'[x] = files[x]
        /\ \A k \in Kinds \ {"bounce"} : k \in files'[id] <=> k \in files[id]
    BY <1>2, <2>1
  <2>3. NoNewJobs /\ NoNewProcs
    BY <2>1 DEF NoNewJobs, NoNewProcs, Open, queueVars
  <2>4. /\ S5(id)' /\ "info" \in files[id]
        /\ \A x \in Ids : x # id => SameNames(x)
        /\ \A x \in Ids, c \in Channels : S5(x) /\ Has(x, c) => S5(x)' /\ Has(x, c)'
    BY <1>1, <2>2 DEF S5, Has, SameNames, Kinds, Channels
  <2>5. OneClaim'
    BY <1>2, <2>1, <2>3, <2>4, ClaimsKept DEF StatesInv
  <2> QED BY <1>1, <2>1, <2>3, <2>4, <2>5, LoopStates, NotAsked DEF cleanVars
<1> QED BY <1>3, <1>4

(* todo_do() fails half way: the message stays in todo/.                   *)
LEMMA PreprocessFailsStates ==
  ASSUME TypeOK, InjectorInv, StatesInv, NEW id \in Ids, PreprocessFails(id),
         UNCHANGED <<queueVars, cleanVars>>
  PROVE  StatesInv'
<1>1. /\ send = "loop" /\ send' = "loop" /\ "todo" \in files[id]
      /\ UNCHANGED <<pqchan, pqfail, jo>>
  BY DEF PreprocessFails, Preprocessable, Has, sendVars
<1>2. jo \in [Jobs -> JobRecords] /\ files \in [Ids -> SUBSET Kinds]
  BY DEF TypeOK, SendTypeOK, DirTypeOK
<1>3. /\ \A x \in Ids : x # id => files'[x] = files[x]
      /\ \A k \in {"mess", "intd", "todo", "bounce"} : k \in files'[id] <=> k \in files[id]
  <2>1. CASE \E gone \in {{}, {"local"}, Channels, Remade} : Unlink(id, gone)
    BY <1>2, <2>1 DEF Unlink, Channels, Remade
  <2>2. CASE \E cs \in SUBSET Channels :
                files' = [files EXCEPT ![id] = (@ \ Remade) \cup {"info"} \cup cs]
    BY <1>2, <2>2 DEF Channels, Remade
  <2> QED BY <2>1, <2>2 DEF PreprocessFails
<1>4. S4(id) /\ ~S5(id) /\ S4(id)'
  <2>1. S4(id) /\ ~S5(id)
    BY <1>1 DEF StatesInv, QueueStates, S1, S2, S3, S4, S5, Has
  <2> QED BY <1>3, <2>1 DEF S4, Has
<1>5. NoNewJobs /\ NoNewProcs /\ \A x \in Ids : x # id => SameNames(x)
  BY <1>1, <1>3 DEF NoNewJobs, NoNewProcs, SameNames, Open, queueVars
<1>6. \A x \in Ids, c \in Channels : S5(x) /\ Has(x, c) => S5(x)' /\ Has(x, c)'
  BY <1>3, <1>4 DEF S5, Has
<1>7. OneClaim'
  BY <1>1, <1>2, <1>5, <1>6, ClaimsKept DEF StatesInv
<1> QED BY <1>1, <1>4, <1>5, <1>7, LoopStates, NotAsked DEF cleanVars

LEMMA SendAloneStates ==
  ASSUME TypeOK, JobsInv, InjectorInv, StatesInv, SendAlone
  PROVE  StatesInv'
<1>1. UNCHANGED <<queueVars, cleanVars>>
  BY DEF SendAlone
<1> QED BY <1>1, StartStates, PassOpenStates, PassStates, StillStates, RetryStates,
           MessDoneStates, PreprocessFailsStates DEF SendAlone

-----------------------------------------------------------------------------
(* A request goes to qmail-clean: for a message nothing refers to.         *)
LEMMA RequestStates ==
  ASSUME TypeOK, InjectorInv, StatesInv, NEW id \in Ids, NEW op \in {"foop", "todo"},
         send # "clean", send' = "clean", work'.id = id, op = "todo" <=> work'.why = "todo",
         PutRequest(op, id), NoNewProcs, UNCHANGED <<pqchan, pqfail, jo>>,
         \A x \in Ids : x # id => files'[x] = files[x],
         \A p \in Procs : qpc[p] \in Entering => qid[p] # id,
         (S2(id) \/ S3(id) \/ S4(id))',
         op = "todo" => {"todo", "info"} \subseteq files'[id],
         ~S5(id) \/ ~HasChannel(id)
  PROVE  StatesInv'
<1>1. /\ \A c \in Channels : pqchan[c][id] = 0
      /\ \A j \in Jobs : Open(j) => jo[j].id # id
  BY Unclaimed
<1>2. NoNewJobs /\ jo \in [Jobs -> JobRecords]
  BY DEF NoNewJobs, Open, TypeOK, SendTypeOK
<1>3. QueueStates' /\ Exact'
  BY NewStates DEF SameNames
<1>4. RequestWhole' /\ AnswerWhole' /\ BounceWhole' /\ Rested'
  BY <1>1, NotAsked DEF PutRequest, Request, RequestWhole, AnswerWhole, BounceWhole, Rested, Open
<1>5. \A x \in Ids, c \in Channels : S5(x) /\ Has(x, c) => S5(x)' /\ Has(x, c)'
  BY DEF S5, Has, HasChannel
<1>6. OneClaim' /\ NoneFailed'
  BY <1>2, <1>5, ClaimsKept DEF StatesInv, NoneFailed
<1> QED BY <1>3, <1>4, <1>6 DEF StatesInv

(* The files of a finished message are removed.                            *)
LEMMA EndMessStates ==
  ASSUME TypeOK, InjectorInv, StatesInv, NEW id \in Ids, S5(id), ~HasChannel(id),
         send # "clean", EndMess(id), PutRequest("foop", id), NoNewProcs
  PROVE  StatesInv'
<1>1. /\ send' = "clean" /\ work'.id = id /\ work'.why = "done"
      /\ UNCHANGED <<pqchan, pqfail, jo>>
      /\ \A x \in Ids : x # id => files'[x] = files[x]
      /\ files'[id] = files[id] \ {"bounce", "info"}
  BY EndMessFiles DEF EndMess, Wait, tables
<1>2. files[id] \subseteq Kinds
  BY DEF TypeOK, DirTypeOK
<1>3. S2(id)'
  BY <1>1, <1>2 DEF S5, S2, Has, HasChannel, Channels, Kinds
<1>4. \A p \in Procs : qpc[p] \in Entering => qid[p] # id
  BY NotEntering DEF S5, Has
<1> QED BY <1>1, <1>3, <1>4, RequestStates

LEMMA AskStates ==
  ASSUME TypeOK, InjectorInv, StatesInv, NEW id \in Ids, Ask(id)
  PROVE  StatesInv'
<1>1. NoNewProcs /\ files \in [Ids -> SUBSET Kinds]
  BY DEF Ask, NoNewProcs, queueVars, TypeOK, DirTypeOK
<1>2. CASE Preprocess(id) /\ PutRequest("todo", id)
  <2>1. PICK route \in [rcpts[id] -> Channels] :
           files' = [files EXCEPT ![id] =
                       (@ \ Remade) \cup ({"info"} \cup {route[r] : r \in rcpts[id]})]
    BY <1>2 DEF Preprocess
  <2>2. /\ send = "loop" /\ send' = "clean" /\ work'.id = id /\ work'.why = "todo"
        /\ UNCHANGED <<pqchan, pqfail, jo>> /\ "todo" \in files[id]
    BY <1>2 DEF Preprocess, Preprocessable, Wait, queues, tables, Has
  <2>3. S4(id) /\ ~S5(id)
    BY <2>2 DEF StatesInv, QueueStates, S1, S2, S3, S4, S5, Has
  <2>4. /\ \A x \in Ids : x # id => files'[x] = files[x]
        /\ \A k \in {"mess", "todo", "bounce"} : k \in files'[id] <=> k \in files[id]
        /\ "info" \in files'[id]
    BY <1>1, <2>1 DEF Remade, Channels
  <2>5. S4(id)'
    BY <2>3, <2>4 DEF S4, Has
  <2>6. {"todo", "info"} \subseteq files'[id]
    BY <2>2, <2>4
  <2> QED BY <1>1, <1>2, <2>2, <2>3, <2>4, <2>5, <2>6, NotEntering, RequestStates
<1>3. CASE MessDoneEnds(id) /\ PutRequest("foop", id)
  <2>1. send = "loop" /\ S5(id) /\ ~HasChannel(id) /\ EndMess(id)
    BY <1>3, AddableStates DEF MessDoneEnds, TakeDone, Finished
  <2> QED BY <1>1, <1>3, <2>1, EndMessStates
<1>4. CASE Cleanup(id) /\ PutRequest("foop", id)
  <2>1. /\ send = "loop" /\ send' = "clean" /\ work'.id = id /\ work'.why = "cleanup"
        /\ UNCHANGED <<files, pqchan, pqfail, jo>>
        /\ Leftover(id) /\ age[id] > OSSIFIED
    BY <1>4 DEF Cleanup, Wait, Ossified, queues, tables, dirVars
  <2>2. S2(id) \/ S3(id)
    BY <2>1 DEF StatesInv, QueueStates, Leftover, S1, S2, S3, S4, S5, Has
  <2>3. (S2(id) \/ S3(id))' /\ ~S5(id)
    BY <2>1, <2>2 DEF S2, S3, S5, Leftover, Has
  <2>4. \A p \in Procs : qpc[p] \in Entering => qid[p] # id
    BY <2>1, TimesAssumption DEF InjectorInv, Hidden, OwnInode, Entering, Live, TypeOK, DirTypeOK
  <2> QED BY <1>1, <1>4, <2>1, <2>3, <2>4, RequestStates
<1> QED BY <1>2, <1>3, <1>4 DEF Ask

(* qmail_close() has told injectbounce() how its qmail-queue ended.        *)
LEMMA BounceOverStates ==
  ASSUME TypeOK, InjectorInv, StatesInv, NEW id \in Ids, BounceOver(id)
  PROVE  StatesInv'
<1>1. NoNewProcs
  BY DEF BounceOver, Reap, NoNewProcs, TypeOK, QueueTypeOK, Entering
<1>2. send = "inject" /\ S5(id) /\ ~HasChannel(id)
  BY DEF BounceOver, BounceAccepted, BounceAcceptedFails, BounceRefused, StatesInv, BounceWhole,
         S5, Has, HasChannel
<1>3. CASE BounceAccepted(id) /\ PutRequest("foop", id)
  BY <1>1, <1>2, <1>3, EndMessStates DEF BounceAccepted
<1>4. CASE (BounceAcceptedFails(id) \/ BounceRefused(id)) /\ UNCHANGED cleanVars
  <2>1. /\ send' = "loop" /\ UNCHANGED <<pqchan, pqfail, jo>>
        /\ \E ks \in {{}, {"bounce"}} : files' = [files EXCEPT ![id] = @ \ ks]
    <3>1. CASE BounceAcceptedFails(id)
      BY <3>1 DEF BounceAcceptedFails, EndMessFails, Resume, Unlink, tables
    <3>2. CASE BounceRefused(id)
      BY <3>2 DEF BounceRefused, Resume, tables, dirVars, TypeOK, DirTypeOK
    <3> QED BY <1>4, <3>1, <3>2
  <2>2. jo \in [Jobs -> JobRecords] /\ files \in [Ids -> SUBSET Kinds]
    BY DEF TypeOK, SendTypeOK, DirTypeOK
  <2>3. /\ \A x \in Ids : x # id => files'[x] = files[x]
        /\ \A k \in Kinds \ {"bounce"} : k \in files'[id] <=> k \in files[id]
    BY <2>1, <2>2
  <2>4. NoNewJobs
    BY <2>1 DEF NoNewJobs, Open
  <2>5. /\ S5(id)' /\ "info" \in files[id]
        /\ \A x \in Ids : x # id => SameNames(x)
        /\ \A x \in Ids, c \in Channels : S5(x) /\ Has(x, c) => S5(x)' /\ Has(x, c)'
    BY <1>2, <2>3 DEF S5, Has, SameNames, Kinds, Channels
  <2>6. OneClaim'
    BY <2>1, <2>2, <2>4, <2>5, ClaimsKept DEF StatesInv
  <2> QED BY <1>1, <1>2, <1>4, <2>1, <2>5, <2>6, LoopStates, NotAsked DEF cleanVars
<1> QED BY <1>3, <1>4 DEF BounceOver

(* The answer of qmail-clean, or its end.  After "+" to todo_do() each     *)
(* channel file of the message has its entry.                              *)
LEMMA AnswerStates ==
  ASSUME TypeOK, InjectorInv, StatesInv, Answer
  PROVE  StatesInv'
<1>1. /\ send = "clean" /\ send' = "loop" /\ UNCHANGED <<files, pqfail, jo>>
      /\ cpc' = "dead" \/ creq' = NoRequest
  BY DEF Answer, Preprocessed, Answered, CleanDied, Resume, TakeReply, ReplyEof, cleanVars, queues,
         tables, dirVars, InjectorInv, OneRequest
<1>2. /\ NoNewProcs /\ NoNewJobs /\ \A x \in Ids : SameNames(x)
      /\ \A x \in Ids, c \in Channels : (S5(x)' <=> S5(x)) /\ (Has(x, c)' <=> Has(x, c))
  BY <1>1 DEF Answer, queueVars, NoNewProcs, NoNewJobs, Open, SameNames, S5, Has
<1>3. jo \in [Jobs -> JobRecords] /\ pqchan \in [Channels -> [Ids -> Nat]]
  BY DEF TypeOK, SendTypeOK
<1>4. CASE pqchan' = pqchan
  <2>1. OneClaim'
    BY <1>2, <1>3, <1>4, ClaimsKept DEF StatesInv
  <2> QED BY <1>1, <1>2, <2>1, LoopStates
<1>5. CASE Preprocessed /\ TakeReply("+")
  <2> PICK id : id = work.id
    OBVIOUS
  <2>1. work.why = "todo" /\ creply = "+"
    BY <1>5 DEF Preprocessed, TakeReply
  <2>2. /\ id \in Ids /\ S5(id)
        /\ \A c \in Channels : pqchan[c][id] = 0
        /\ \A j \in Jobs : Open(j) => jo[j].id # id
    BY <1>1, <2>1 DEF StatesInv, AnswerWhole
  <2>3. pqchan' = [c \in Channels |-> IF Has(id, c) THEN Push(pqchan[c], id) ELSE pqchan[c]]
    BY <1>5 DEF Preprocessed
  <2>4. /\ \A x \in Ids, c \in Channels : x # id => pqchan'[c][x] = pqchan[c][x]
        /\ \A c \in Channels : pqchan'[c][id] = IF Has(id, c) THEN 1 ELSE 0
    BY <1>3, <2>2, <2>3 DEF Push
  <2>5. ASSUME NEW x \in Ids, NEW c \in Channels, pqchan'[c][x] # 0
        PROVE  /\ pqchan'[c][x] = 1 /\ S5(x)' /\ Has(x, c)'
               /\ \A j \in Jobs : Open(j)' => jo'[j].id # x \/ jo'[j].channel # c
    <3>1. CASE x = id
      BY <1>1, <1>2, <2>2, <2>4, <2>5, <3>1 DEF Open
    <3>2. CASE x # id
      BY <1>1, <1>2, <2>4, <2>5, <3>2 DEF Open, StatesInv, OneClaim
    <3> QED BY <3>1, <3>2
  <2>6. ASSUME NEW k \in Jobs, Open(k)'
        PROVE  (jo[k].id \in Ids /\ S5(jo[k].id) /\ Has(jo[k].id, jo[k].channel))'
    BY <1>1, <2>6 DEF StatesInv, OneClaim, Open, S5, Has
  <2>7. \A k, l \in Jobs :
           /\ Open(k)' /\ Open(l)'
           /\ jo'[k].id = jo'[l].id /\ jo'[k].channel = jo'[l].channel
           => k = l
    BY <1>1 DEF StatesInv, OneClaim, Open
  <2>8. OneClaim'
    BY <2>5, <2>6, <2>7 DEF OneClaim
  <2> QED BY <1>1, <1>2, <2>8, LoopStates
<1> QED BY <1>4, <1>5 DEF Answer, Answered, CleanDied, queues

-----------------------------------------------------------------------------
(* qmail-clean.                                                            *)

(* It answers, reads a request or dies, and leaves all but pid/ names.     *)
LEMMA CleanQuietStates ==
  ASSUME TypeOK, InjectorInv, StatesInv, UNCHANGED <<queueVars, sendVars>>,
         \/ SkipPids \/ CleanPids \/ ReadRequest \/ UnlinkFails \/ CleanDies
  PROVE  StatesInv'
<1>1. \A x \in Ids : SameNames(x)
  <2>1. CASE CleanPids
    <3>1. files' = [id \in Ids |-> IF id \in StalePids THEN files[id] \ {"pid"} ELSE files[id]]
      BY <2>1 DEF CleanPids
    <3> QED BY <3>1 DEF SameNames
  <2>2. CASE SkipPids \/ ReadRequest \/ UnlinkFails \/ CleanDies
    BY <2>2 DEF SkipPids, ReadRequest, UnlinkFails, CleanDies, SameNames, dirVars
  <2> QED BY <2>1, <2>2
<1>2. NoNewProcs /\ NoNewJobs /\ jo \in [Jobs -> JobRecords]
  BY DEF queueVars, sendVars, NoNewProcs, NoNewJobs, Open, TypeOK, SendTypeOK
<1>3. QueueStates' /\ Exact'
  BY <1>1, <1>2, NewStates
<1>4. OneClaim' /\ Rested' /\ NoneFailed'
  <2>1. \A x \in Ids, c \in Channels : S5(x) /\ Has(x, c) => S5(x)' /\ Has(x, c)'
    BY <1>1, NamesKept DEF Has, Channels
  <2> QED BY <1>2, <2>1, ClaimsKept DEF StatesInv, Rested, NoneFailed, sendVars, Open
<1>5. UNCHANGED <<send, work, pqchan, jo>>
  BY DEF sendVars
<1> PICK id : id = work.id
  OBVIOUS
<1>6. id \in Ids => /\ S5(id)' <=> S5(id)
                    /\ Has(id, "todo")' <=> Has(id, "todo")
                    /\ HasChannel(id)' <=> HasChannel(id)
  BY <1>1, NamesKept DEF Has
<1>7. BounceWhole'
  <2>1. send = "inject" => id \in Ids /\ S5(id) /\ ~HasChannel(id)
    BY DEF StatesInv, BounceWhole, InjectorInv, BounceInTurn
  <2> QED BY <1>5, <1>6, <2>1 DEF BounceWhole, S5, Has, HasChannel
<1>8. RequestWhole'
  <2> SUFFICES ASSUME cpc' # "dead", creq' # NoRequest
               PROVE  /\ work.id = creq'.id
                      /\ creq'.op = "todo" <=> work.why = "todo"
                      /\ creq'.op = "todo" => {"todo", "info"} \subseteq files'[creq'.id]
                      /\ cpc' = "last" => "intd" \notin files'[creq'.id]
    BY <1>5 DEF RequestWhole
  <2>1. creq' = creq /\ cpc # "dead" /\ creq \in Requests /\ cpc' # "last"
    BY DEF SkipPids, CleanPids, ReadRequest, UnlinkFails, CleanDies, Respond, TypeOK, CleanTypeOK
  <2>2. creq.id \in Ids
    BY <2>1 DEF Requests
  <2> QED BY <1>1, <2>1, <2>2, NamesKept DEF StatesInv, RequestWhole
<1>9. AnswerWhole'
  <2> SUFFICES ASSUME send = "clean", work.why = "todo"
               PROVE  /\ id \in Ids
                      /\ \A c \in Channels : pqchan[c][id] = 0
                      /\ \A j \in Jobs : Open(j) => jo[j].id # id
                      /\ creply' = "+" => S5(id)'
                      /\ creply' = "!" => Has(id, "todo")'
    BY <1>5 DEF AnswerWhole, Open, S5, Has
  <2>1. /\ id \in Ids
        /\ \A c \in Channels : pqchan[c][id] = 0
        /\ \A j \in Jobs : Open(j) => jo[j].id # id
        /\ creply = "+" => S5(id)
        /\ creply = "!" => Has(id, "todo")
    BY DEF StatesInv, AnswerWhole
  <2>2. creply' = creply \/ (creply' = "!" /\ Has(id, "todo"))
    <3>1. CASE UnlinkFails
      <4>1. creply' = "!" /\ cpc # "dead" /\ creq # NoRequest
        BY <3>1 DEF UnlinkFails, Respond, InjectorInv, OneRequest
      <4>2. creq.id = id /\ "todo" \in files[creq.id]
        BY <4>1 DEF StatesInv, RequestWhole, TypeOK, CleanTypeOK, Requests
      <4> QED BY <4>1, <4>2 DEF Has
    <3>2. CASE SkipPids \/ CleanPids \/ ReadRequest \/ CleanDies
      BY <3>2 DEF SkipPids, CleanPids, ReadRequest, CleanDies
    <3> QED BY <3>1, <3>2
  <2> QED BY <1>6, <2>1, <2>2
<1> QED BY <1>3, <1>4, <1>7, <1>8, <1>9 DEF StatesInv

(* It removes a file: intd/ first, then mess/ or todo/.                    *)
LEMMA CleanUnlinkStates ==
  ASSUME TypeOK, InjectorInv, StatesInv, UNCHANGED <<queueVars, sendVars>>,
         UnlinkIntd \/ UnlinkLast \/ DiesUnanswered
  PROVE  StatesInv'
<1> PICK id : id = creq.id
  OBVIOUS
<1>1. cpc \in {"intd", "last"} /\ creq # NoRequest /\ creq \in Requests /\ id \in Ids
  BY DEF UnlinkIntd, UnlinkLast, DiesUnanswered, InjectorInv, OneRequest, TypeOK, CleanTypeOK,
         Requests
<1>2. /\ send = "clean" /\ "mess" \in files[id] /\ creply = "none" /\ work.id = id
      /\ \A p \in Procs : qpc[p] \in Entering => qid[p] # id
      /\ creq.op = "foop" => "todo" \notin files[id] /\ "info" \notin files[id]
      /\ creq.op = "todo" => {"todo", "info"} \subseteq files[id]
      /\ creq.op = "todo" <=> work.why = "todo"
      /\ creq.op \in {"foop", "todo"}
      /\ cpc = "last" => "intd" \notin files[id]
  BY <1>1 DEF InjectorInv, RequestSafe, OneRequest, StatesInv, RequestWhole, Requests
<1>3. files \in [Ids -> SUBSET Kinds] /\ jo \in [Jobs -> JobRecords]
  BY DEF TypeOK, DirTypeOK, SendTypeOK
<1>4. UNCHANGED <<send, work, pqchan, pqfail, jo>> /\ NoNewProcs /\ NoNewJobs
  BY DEF sendVars, queueVars, NoNewProcs, NoNewJobs, Open
<1>5. ~S5(id)
  BY <1>2 DEF S5, Has
<1>6. /\ \A c \in Channels : pqchan[c][id] = 0
      /\ \A j \in Jobs : Open(j) => jo[j].id # id
  BY <1>1, <1>5, Unclaimed
<1>7. \A x \in Ids : x # id => files'[x] = files[x]
  BY <1>3 DEF UnlinkIntd, UnlinkLast, DiesUnanswered, Unlink
<1>8. \A x \in Ids, c \in Channels : S5(x) /\ Has(x, c) => S5(x)' /\ Has(x, c)'
  BY <1>5, <1>7 DEF S5, Has
<1>9. OneClaim' /\ Rested' /\ NoneFailed' /\ BounceWhole'
  BY <1>2, <1>3, <1>4, <1>8, ClaimsKept DEF StatesInv, Rested, NoneFailed, BounceWhole
<1>10. S1(id) \/ S2(id) \/ S3(id) \/ S4(id)
  BY <1>1, <1>5 DEF StatesInv, QueueStates
<1>11. CASE UnlinkIntd
  <2>1. files'[id] = files[id] \ {"intd"} /\ cpc' = "last" /\ creq' = creq /\ creply' = creply
    BY <1>1, <1>3, <1>11 DEF UnlinkIntd, Unlink, First
  <2>2. (S2(id) \/ S4(id))'
    <3>1. CASE creq.op = "foop"
      BY <1>2, <1>10, <2>1, <3>1 DEF S1, S2, S3, S4, Has
    <3>2. CASE creq.op = "todo"
      BY <1>2, <1>10, <2>1, <3>2 DEF S1, S2, S3, S4, Has
    <3> QED BY <1>2, <3>1, <3>2
  <2>3. QueueStates' /\ Exact'
    BY <1>2, <1>4, <1>7, <2>2, NewStates DEF SameNames
  <2>4. RequestWhole'
    BY <1>2, <1>4, <2>1 DEF RequestWhole
  <2>5. AnswerWhole'
    BY <1>1, <1>2, <1>4, <1>6, <2>1 DEF AnswerWhole, Open
  <2> QED BY <1>9, <2>3, <2>4, <2>5 DEF StatesInv
<1>12. CASE UnlinkLast \/ DiesUnanswered
  <2>1. /\ files'[id] = files[id] \ {IF creq.op = "foop" THEN "mess" ELSE "todo"}
        /\ "intd" \notin files[id]
        /\ cpc' = "dead" \/ creq' = NoRequest
        /\ creply' \in {"none", "+"}
    BY <1>1, <1>2, <1>3, <1>12 DEF UnlinkLast, DiesUnanswered, Unlink, Last, Respond
  <2>2. creq.op = "foop" => S1(id)'
    BY <1>2, <1>10, <2>1 DEF S1, S2, S3, S4, Has
  <2>3. creq.op = "todo" => S5(id)'
    BY <1>2, <2>1 DEF S5, Has
  <2>4. QueueStates' /\ Exact'
    BY <1>2, <1>4, <1>7, <2>2, <2>3, NewStates DEF SameNames
  <2>5. RequestWhole'
    BY <2>1 DEF RequestWhole
  <2>6. work.why = "todo" => S5(work.id)'
    BY <1>2, <1>4, <2>3 DEF S5, Has
  <2>7. AnswerWhole'
    BY <1>1, <1>2, <1>4, <1>6, <2>1, <2>6 DEF AnswerWhole, Open
  <2> QED BY <1>9, <2>4, <2>5, <2>7 DEF StatesInv
<1> QED BY <1>11, <1>12

-----------------------------------------------------------------------------
(* A restart of qmail-send, a crash and the clock.                         *)
LEMMA ForgetStates ==
  ASSUME TypeOK, InjectorInv, StatesInv, Forget, CleanRestarts, files' = files, NoNewProcs
  PROVE  StatesInv'
<1>1. /\ send' = "down" /\ creq' = NoRequest
      /\ \A c \in Channels, id \in Ids : pqchan'[c][id] = 0
      /\ \A id \in Ids : pqfail'[id] = 0
      /\ \A j \in Jobs : jo'[j].refs = 0
  BY DEF Forget, CleanRestarts, NoJob
<1>2. QueueStates' /\ Exact'
  BY NewStates DEF SameNames
<1>3. RequestWhole' /\ AnswerWhole' /\ BounceWhole' /\ Rested'
  BY <1>1 DEF RequestWhole, AnswerWhole, BounceWhole, Rested, Open
<1>4. OneClaim' /\ NoneFailed'
  BY <1>1 DEF OneClaim, Open, NoneFailed, StatesInv
<1> QED BY <1>2, <1>3, <1>4 DEF StatesInv

LEMMA NextStates == TypeOK /\ JobsInv /\ InjectorInv /\ StatesInv /\ [Next]_vars => StatesInv'
<1> SUFFICES ASSUME TypeOK, JobsInv, InjectorInv, StatesInv, [Next]_vars PROVE StatesInv'
  OBVIOUS
<1>1. ASSUME NEW p \in Procs, Inject(p) \/ InjectFails(p) \/ Envelope(p) \/ Queue(p)
      PROVE  StatesInv'
  BY <1>1, InjectionStates
<1>2. CASE SendAlone
  BY <1>2, SendAloneStates
<1>3. ASSUME NEW c \in Channels, NEW i \in Slots(c), Report(c, i) PROVE StatesInv'
  BY <1>3, ReportStates
<1>4. ASSUME NEW c \in Channels, NEW i \in Slots(c), NEW result \in {"K", "Z", "D"},
             Delivery(c, i, result)
      PROVE  StatesInv'
  BY <1>4, StillStates DEF Delivery
<1>5. ASSUME NEW id \in Ids, Ask(id) \/ BounceOver(id) PROVE StatesInv'
  BY <1>5, AskStates, BounceOverStates
<1>6. CASE Answer
  BY <1>6, AnswerStates
<1>7. CASE Clean
  BY <1>7, CleanQuietStates, CleanUnlinkStates DEF Clean, CleanNext
<1>8. CASE Exits
  BY <1>8, ForgetStates DEF Exits, SendExit, NoNewProcs, queueVars, dirVars
<1>9. CASE Crash
  BY <1>9, ForgetStates DEF Crash, NoNewProcs, Entering
<1>10. CASE Tick \/ UNCHANGED vars
  <2>1. UNCHANGED <<files, queueVars, cleanVars, sendVars>>
    BY <1>10 DEF Tick, vars, dirVars
  <2>2. /\ \A x \in Ids : SameNames(x)
        /\ NoNewProcs /\ NoNewJobs /\ UNCHANGED <<pqchan, pqfail, send, work>>
    BY <2>1 DEF SameNames, NoNewProcs, NoNewJobs, Open, queueVars, sendVars
  <2> QED BY <2>1, <2>2, QuietStates
<1> QED BY <1>1, <1>2, <1>3, <1>4, <1>5, <1>6, <1>7, <1>8, <1>9, <1>10 DEF Next

(* StatesInv in every reachable state, whatever fails but stat().          *)
THEOREM StatesCorrect == ~StatFails /\ Spec => []StatesInv
<1> SUFFICES ASSUME ~StatFails PROVE Spec => []StatesInv
  OBVIOUS
<1>1. Init => StatesInv
  BY InitStates
<1>2. TypeOK /\ JobsInv /\ InjectorInv /\ StatesInv /\ [Next]_vars => StatesInv'
  BY NextStates
<1> QED BY <1>1, <1>2, TypeCorrect, JobTableCorrect, InjectorCorrect, PTL DEF Spec

(* Whatever any of the programs does, wherever it is stopped: a message    *)
(* number is in one of the five states that INTERNALS.md names.            *)
THEOREM FiveStates == ~StatFails /\ Spec => []QueueStates
<1>1. StatesInv => QueueStates
  BY DEF StatesInv
<1> QED BY <1>1, StatesCorrect, PTL

LEMMA JobsOnOne ==
  ASSUME OneClaim, NEW id \in Ids, NEW c \in Channels
  PROVE  /\ Cardinality(JobsOn(id, c)) \in {0, 1}
         /\ Cardinality(JobsOn(id, c)) = 1 <=>
               \E j \in Jobs : Open(j) /\ jo[j].id = id /\ jo[j].channel = c
<1>1. CASE \E j \in Jobs : Open(j) /\ jo[j].id = id /\ jo[j].channel = c
  <2>1. PICK j \in Jobs : Open(j) /\ jo[j].id = id /\ jo[j].channel = c
    BY <1>1
  <2>2. JobsOn(id, c) = {j}
    BY <2>1 DEF JobsOn, OneClaim, Open
  <2> QED BY <1>1, <2>2, FS_Singleton
<1>2. CASE ~ \E j \in Jobs : Open(j) /\ jo[j].id = id /\ jo[j].channel = c
  <2>1. JobsOn(id, c) = {}
    BY <1>2 DEF JobsOn, Open
  <2> QED BY <1>2, <2>1, FS_EmptySet
<1> QED BY <1>1, <1>2

(* What qmail-send.c:384-386 says of pqchan and the job table, and that no *)
(* channel file has two jobs, or an entry and a job.                       *)
THEOREM OneJobEach == ~StatFails /\ Spec => []OneJob
<1>1. StatesInv => OneJob
  <2> SUFFICES ASSUME StatesInv, NEW id \in Ids, NEW c \in Channels
               PROVE  /\ Claims(id, c) <= 1
                      /\ Claims(id, c) = 1 => S5(id) /\ Has(id, c)
    BY DEF OneJob
  <2>1. OneClaim
    BY DEF StatesInv
  <2>2. CASE \E j \in Jobs : Open(j) /\ jo[j].id = id /\ jo[j].channel = c
    <3>1. pqchan[c][id] = 0 /\ S5(id) /\ Has(id, c)
      BY <2>1, <2>2 DEF OneClaim
    <3> QED BY <2>1, <2>2, <3>1, JobsOnOne DEF Claims
  <2>3. CASE ~ \E j \in Jobs : Open(j) /\ jo[j].id = id /\ jo[j].channel = c
    <3>1. Cardinality(JobsOn(id, c)) = 0
      BY <2>1, <2>3, JobsOnOne
    <3>2. pqchan[c][id] = 0 \/ (pqchan[c][id] = 1 /\ S5(id) /\ Has(id, c))
      BY <2>1 DEF OneClaim
    <3> QED BY <3>1, <3>2 DEF Claims
  <2> QED BY <2>2, <2>3
<1> QED BY <1>1, StatesCorrect, PTL

-----------------------------------------------------------------------------
(***************************************************************************)
(* What the programs owe to a message at every moment: what a promise      *)
(* rests on is on disk; what has to be done is on the agenda of            *)
(* qmail-send; what a bounce reports has been heard before it is thrown    *)
(* away.                                                                   *)
(***************************************************************************)


(* qmail-clean has been asked to end the preprocessing of the message.     *)
TodoAsked(id) == cpc # "dead" /\ creq = Request("todo", id)

(* The message is preprocessed, or will be as soon as todo/ is gone.       *)
Settled(id) == S5(id) \/ TodoAsked(id)

OnDisk(id) ==
    /\ Has(id, "todo") => {"mess", "todo"} \subseteq safe[id]
    /\ Settled(id) => ({"mess", "info"} \cup (files[id] \cap Channels)) \subseteq safe[id]

(* What a qmail-queue has written and fsync()ed.                           *)
Synced ==
    \A p \in Procs :
        /\ qpc[p] \in {"body", "intd", "ready"} => "mess" \in safe[qid[p]]
        /\ qpc[p] = "ready" => "intd" \in safe[qid[p]]

DurableInv == Synced /\ \A id \in Ids : OnDisk(id)

(* What is known of a state and the next one in what follows.              *)
Known == TypeOK /\ JobsInv /\ InjectorInv /\ StatesInv

-----------------------------------------------------------------------------
(* The contents on disk.                                                   *)

(* What stays of the message stays on disk.                                *)
DiskKept(id) == safe[id] \cap files'[id] \subseteq safe'[id]

LEMMA OnDiskKept ==
  ASSUME NEW id \in Ids, OnDisk(id), InjectorInv', StatesInv', DiskKept(id),
         Settled(id)' => Settled(id),
         files'[id] \cap ({"todo"} \cup Channels) \subseteq files[id]
  PROVE  OnDisk(id)'
<1>1. Has(id, "todo")' => {"mess", "todo"} \subseteq safe'[id]
  <2> SUFFICES ASSUME "todo" \in files'[id] PROVE {"mess", "todo"} \subseteq safe'[id]
    BY DEF Has
  <2>1. "mess" \in files'[id]
    BY DEF InjectorInv, MessLast
  <2>2. {"mess", "todo"} \subseteq safe[id]
    BY DEF OnDisk, Has
  <2> QED BY <2>1, <2>2 DEF DiskKept
<1>2. Settled(id)' => ({"mess", "info"} \cup (files'[id] \cap Channels)) \subseteq safe'[id]
  <2> SUFFICES ASSUME Settled(id)'
               PROVE  ({"mess", "info"} \cup (files'[id] \cap Channels)) \subseteq safe'[id]
    OBVIOUS
  <2>1. {"mess", "info"} \subseteq files'[id]
    <3>1. CASE S5(id)'
      BY <3>1 DEF S5, Has
    <3>2. CASE TodoAsked(id)'
      <4>1. (cpc # "dead" /\ creq # NoRequest /\ creq.id = id /\ creq.op = "todo")'
        BY <3>2 DEF TodoAsked, Request, NoRequest
      <4> QED BY <4>1 DEF StatesInv, RequestWhole, InjectorInv, RequestSafe
    <3> QED BY <3>1, <3>2 DEF Settled
  <2>2. ({"mess", "info"} \cup (files'[id] \cap Channels)) \subseteq safe[id]
    BY DEF OnDisk
  <2> QED BY <2>1, <2>2 DEF DiskKept
<1> QED BY <1>1, <1>2 DEF OnDisk

LEMMA SyncedKept ==
  ASSUME Synced, InjectorInv', NoNewProcs,
         \A p \in Procs : qpc[p] \in Entering => DiskKept(qid[p])
  PROVE  Synced'
<1> SUFFICES ASSUME NEW p \in Procs, qpc'[p] \in {"body", "intd", "ready"}
             PROVE  /\ "mess" \in safe'[qid'[p]]
                    /\ qpc'[p] = "ready" => "intd" \in safe'[qid'[p]]
  BY DEF Synced
<1>1. qpc'[p] = qpc[p] /\ qid'[p] = qid[p] /\ qpc[p] \in Entering
  BY DEF NoNewProcs, Entering
<1>2. /\ "mess" \in files'[qid'[p]]
      /\ qpc'[p] = "ready" => "intd" \in files'[qid'[p]]
  BY DEF InjectorInv, Hidden, Entering, Needs
<1> QED BY <1>1, <1>2 DEF Synced, DiskKept

LEMMA InitDurable == Init => DurableInv
<1> SUFFICES ASSUME Init PROVE DurableInv
  OBVIOUS
<1>1. Synced
  BY DEF Init, QueueInit, Synced
<1>2. creq = NoRequest /\ \A id \in Ids : files[id] = {}
  BY DEF Init, CleanInit, DirInit
<1>3. \A id \in Ids : OnDisk(id)
  BY <1>2 DEF OnDisk, Settled, TodoAsked, S5, Has, Request, NoRequest
<1> QED BY <1>1, <1>3 DEF DurableInv

(* Steps that only remove names, add bounce/, pid/, mess/ or intd/, and    *)
(* let no message pass for preprocessed.                                   *)
FilesKept(id) ==
    /\ DiskKept(id)
    /\ files'[id] \cap ({"todo"} \cup Channels) \subseteq files[id]
    /\ Settled(id)' => Settled(id)

LEMMA KeptDurable ==
  ASSUME DurableInv, InjectorInv, InjectorInv', StatesInv', NoNewProcs,
         \A id \in Ids : FilesKept(id)
  PROVE  DurableInv'
<1>1. \A p \in Procs : qpc[p] \in Entering => qid[p] \in Ids
  BY DEF InjectorInv, OwnInode, Entering, Live
<1> QED BY <1>1, OnDiskKept, SyncedKept DEF DurableInv, FilesKept

(* The names that make a message preprocessed, and the request, stay.      *)
LEMMA SettledKept ==
  ASSUME NEW id \in Ids, QuietFiles, cpc' = cpc, creq' = creq
  PROVE  Settled(id)' <=> Settled(id)
BY DEF QuietFiles, Settled, TodoAsked, S5, Has

LEMMA JobCloseDisk ==
  ASSUME TypeOK, NEW j, NEW job, NEW fl, NEW un, NEW dn, NEW f,
         JobClose(j, job, fl, un, dn, f), fl \in [Ids -> SUBSET Kinds], NEW id \in Ids,
         fl[id] \subseteq files[id] \cup {"bounce"}
  PROVE  /\ DiskKept(id)
         /\ files'[id] \cap ({"todo"} \cup Channels) \subseteq files[id]
<1>1. CASE GoesOn(job, fl, un, dn, f)
  BY <1>1 DEF GoesOn, DiskKept, Channels
<1>2. CASE ChannelEnds(job, fl, un, dn, f)
  <2>1. safe \in [Ids -> SUBSET Kinds]
    BY DEF TypeOK, DirTypeOK
  <2> QED BY <1>2, <2>1 DEF ChannelEnds, DiskKept, Channels
<1> QED BY <1>1, <1>2 DEF JobClose

LEMMA SendAloneDurable ==
  ASSUME Known, DurableInv, InjectorInv', StatesInv',
         SendAlone \/ \E c \in Channels : \E i \in Slots(c) : Report(c, i)
  PROVE  DurableInv'
<1> USE DEF Known
<1>1. UNCHANGED <<queueVars, cleanVars>> /\ NoNewProcs
  BY DEF SendAlone, Report, NoNewProcs, queueVars
<1>2. cpc' = cpc /\ creq' = creq
  BY <1>1 DEF cleanVars
<1>3. files \in [Ids -> SUBSET Kinds] /\ safe \in [Ids -> SUBSET Kinds]
  BY DEF TypeOK, DirTypeOK
<1>4. ASSUME NEW c \in Channels, PassClose(c) PROVE \A id \in Ids : FilesKept(id)
  <2>1. QuietFiles
    BY <1>4, PassCloseFiles
  <2>2. PICK j, job, f : JobClose(j, job, files, undone, done, f)
    BY <1>4 DEF PassClose
  <2> QED BY <1>2, <1>3, <2>1, <2>2, JobCloseDisk, SettledKept DEF FilesKept
<1>5. ASSUME NEW c \in Channels, NEW i \in Slots(c), Report(c, i)
      PROVE  \A id \in Ids : FilesKept(id)
  <2>1. QuietFiles
    BY <1>5, DelReportFiles DEF Report
  <2>2. PICK job, fl, un, dn, f : Reported(c, i, job, fl, un, dn, f)
    BY <1>5, ReportCase DEF Report
  <2>3. /\ JobClose(del[c][i].j, job, fl, un, dn, f)
        /\ fl = files \/ fl = [files EXCEPT ![job.id] = @ \cup {"bounce"}]
    BY <2>2 DEF Reported
  <2>4. fl \in [Ids -> SUBSET Kinds] /\ \A id \in Ids : fl[id] \subseteq files[id] \cup {"bounce"}
    BY <1>3, <2>3 DEF Kinds
  <2> QED BY <1>2, <2>1, <2>3, <2>4, JobCloseDisk, SettledKept DEF FilesKept
<1>6. ASSUME NEW id \in Ids, MessDoneFails(id) PROVE \A x \in Ids : FilesKept(x)
  <2>1. \E ks \in {{}, {"bounce"}} : /\ files' = [files EXCEPT ![id] = @ \ ks]
                                     /\ safe' = [safe EXCEPT ![id] = @ \ ks]
    BY <1>6 DEF MessDoneFails, EndMessFails, Unlink
  <2>2. \A x \in Ids : files'[x] \subseteq files[x] /\ DiskKept(x)
    BY <1>3, <2>1 DEF DiskKept
  <2>3. QuietFiles
    BY <1>3, <2>1 DEF QuietFiles
  <2> QED BY <1>2, <2>2, <2>3, SettledKept DEF FilesKept
<1>7. ASSUME \/ Start \/ Term
             \/ \E id \in Ids : \/ RetryFailed(id) \/ MessDoneReturns(id) \/ MessDoneBounces(id)
                                \/ Expire(id)
             \/ \E c \in Channels : PassDeliver(c) \/ SpawnDied(c)
             \/ \E c \in Channels, id \in Ids : PassOpen(c, id)
             \/ \E c \in Channels : \E i \in Slots(c) : CommWrite(c, i)
      PROVE  \A x \in Ids : FilesKept(x)
  <2>1. files' = files /\ safe' = safe
    BY <1>7 DEF Start, Term, RetryFailed, MessDoneReturns, MessDoneBounces, Expire, PassDeliver,
                SpawnDied, PassOpen, CommWrite, dirVars
  <2> QED BY <1>2, <2>1, SettledKept DEF FilesKept, DiskKept, QuietFiles
<1>8. ASSUME NEW id \in Ids, PreprocessFails(id) PROVE DurableInv'
  <2>1. /\ \/ \E gone \in {{}, {"local"}, Channels, Remade} : Unlink(id, gone)
           \/ \E cs \in SUBSET Channels :
                /\ files' = [files EXCEPT ![id] = (@ \ Remade) \cup {"info"} \cup cs]
                /\ safe' = [safe EXCEPT ![id] = @ \ Remade]
        /\ send = "loop" /\ "todo" \in files[id]
    BY <1>8 DEF PreprocessFails, Preprocessable, Has
  <2>2. /\ \A x \in Ids : x # id => files'[x] = files[x] /\ safe'[x] = safe[x]
        /\ safe[id] \ Remade \subseteq safe'[id] /\ "todo" \in files'[id]
    <3>1. CASE \E gone \in {{}, {"local"}, Channels, Remade} : Unlink(id, gone)
      BY <1>3, <2>1, <3>1 DEF Unlink, Remade, Channels
    <3>2. CASE \E cs \in SUBSET Channels :
                  /\ files' = [files EXCEPT ![id] = (@ \ Remade) \cup {"info"} \cup cs]
                  /\ safe' = [safe EXCEPT ![id] = @ \ Remade]
      BY <1>3, <2>1, <3>2 DEF Remade, Channels
    <3> QED BY <2>1, <3>1, <3>2
  <2>3. ~Settled(id)'
    BY <1>2, <2>1, <2>2, NotAsked DEF Settled, S5, Has, TodoAsked, Request, NoRequest
  <2>4. OnDisk(id)'
    BY <2>1, <2>2, <2>3 DEF DurableInv, OnDisk, Has, Remade, Channels
  <2>5. ASSUME NEW x \in Ids, x # id PROVE OnDisk(x)'
    BY <1>2, <2>2, <2>5 DEF DurableInv, OnDisk, Settled, TodoAsked, S5, Has
  <2>6. \A p \in Procs : qpc[p] \in Entering => DiskKept(qid[p])
    BY <2>1, <2>2, NotEntering DEF InjectorInv, OwnInode, Entering, Live, DiskKept
  <2> QED BY <1>1, <2>4, <2>5, <2>6, SyncedKept DEF DurableInv
<1> QED BY <1>1, <1>4, <1>5, <1>6, <1>7, <1>8, KeptDurable DEF SendAlone

(* todo_do() has written and fsync()ed info/ and the channel files before  *)
(* it asks for todo/ to be removed.                                        *)
LEMMA AskDurable ==
  ASSUME Known, DurableInv, InjectorInv', StatesInv', NEW id \in Ids,
         Ask(id) \/ BounceOver(id)
  PROVE  DurableInv'
<1> USE DEF Known
<1>1. NoNewProcs
  BY DEF Ask, BounceOver, Reap, NoNewProcs, queueVars, TypeOK, QueueTypeOK, Entering
<1>2. files \in [Ids -> SUBSET Kinds] /\ safe \in [Ids -> SUBSET Kinds]
  BY DEF TypeOK, DirTypeOK
<1>3. CASE Preprocess(id) /\ PutRequest("todo", id)
  <2>1. "todo" \in files[id] /\ send = "loop"
    BY <1>3 DEF Preprocess, Preprocessable, Has
  <2>2. PICK route \in [rcpts[id] -> Channels] :
           /\ files' = [files EXCEPT ![id] =
                          (@ \ Remade) \cup ({"info"} \cup {route[r] : r \in rcpts[id]})]
           /\ safe' = [safe EXCEPT ![id] =
                          (@ \ Remade) \cup ({"info"} \cup {route[r] : r \in rcpts[id]})]
    BY <1>3 DEF Preprocess
  <2>3. PICK made : made = {"info"} \cup {route[r] : r \in rcpts[id]}
    OBVIOUS
  <2>4. /\ \A x \in Ids : x # id => files'[x] = files[x] /\ safe'[x] = safe[x]
        /\ files'[id] = (files[id] \ Remade) \cup made
        /\ safe'[id] = (safe[id] \ Remade) \cup made
        /\ "info" \in made
    BY <1>2, <2>2, <2>3
  <2>5. {"mess", "todo"} \subseteq safe[id]
    BY <2>1 DEF DurableInv, OnDisk, Has
  <2>6. OnDisk(id)'
    BY <2>4, <2>5 DEF OnDisk, Has, Remade, Channels
  <2>7. ASSUME NEW x \in Ids, x # id PROVE OnDisk(x)'
    <3>1. ~TodoAsked(x)'
      BY <1>3, <2>7 DEF PutRequest, TodoAsked, Request
    <3> QED BY <2>4, <2>7, <3>1 DEF DurableInv, OnDisk, Settled, S5, Has
  <2>8. \A p \in Procs : qpc[p] \in Entering => DiskKept(qid[p])
    BY <2>1, <2>4, NotEntering DEF InjectorInv, OwnInode, Entering, Live, DiskKept
  <2> QED BY <1>1, <2>6, <2>7, <2>8, SyncedKept DEF DurableInv
<1>4. CASE /\ EndMess(id) \/ Cleanup(id)
           /\ PutRequest("foop", id)
  <2>1. \E ks \in {{}, {"bounce", "info"}} : /\ files' = [files EXCEPT ![id] = @ \ ks]
                                             /\ safe' = [safe EXCEPT ![id] = @ \ ks]
    <3>1. CASE EndMess(id)
      BY <3>1 DEF EndMess, Unlink
    <3>2. CASE Cleanup(id)
      BY <1>2, <3>2 DEF Cleanup, dirVars
    <3> QED BY <1>4, <3>1, <3>2
  <2>2. ASSUME NEW x \in Ids PROVE FilesKept(x)
    <3>1. files'[x] \subseteq files[x] /\ DiskKept(x) /\ (S5(x)' => S5(x))
      BY <1>2, <2>1 DEF DiskKept, S5, Has
    <3>2. ~TodoAsked(x)'
      BY <1>4 DEF PutRequest, Request, TodoAsked
    <3> QED BY <3>1, <3>2 DEF FilesKept, Settled
  <2> QED BY <1>1, <2>2, KeptDurable
<1>5. CASE (BounceAcceptedFails(id) \/ BounceRefused(id)) /\ UNCHANGED cleanVars
  <2>1. \E ks \in {{}, {"bounce"}} : /\ files' = [files EXCEPT ![id] = @ \ ks]
                                     /\ safe' = [safe EXCEPT ![id] = @ \ ks]
    <3>1. CASE BounceAcceptedFails(id)
      BY <3>1 DEF BounceAcceptedFails, EndMessFails, Unlink
    <3>2. CASE BounceRefused(id)
      BY <1>2, <3>2 DEF BounceRefused, dirVars
    <3> QED BY <1>5, <3>1, <3>2
  <2>2. \A x \in Ids : files'[x] \subseteq files[x] /\ DiskKept(x)
    BY <1>2, <2>1 DEF DiskKept
  <2>3. QuietFiles
    BY <1>2, <2>1 DEF QuietFiles
  <2>4. \A x \in Ids : FilesKept(x)
    BY <1>5, <2>2, <2>3, SettledKept DEF FilesKept, cleanVars
  <2> QED BY <1>1, <2>4, KeptDurable
<1> QED BY <1>3, <1>4, <1>5 DEF Ask, BounceOver, MessDoneEnds, BounceAccepted

(* qmail-clean, and steps that leave the directory alone.                  *)
LEMMA CleanDurable ==
  ASSUME Known, DurableInv, InjectorInv', StatesInv',
         \/ Clean
         \/ Answer \/ Exits \/ Crash \/ Tick \/ UNCHANGED vars
         \/ \E c \in Channels : \E i \in Slots(c) : \E result \in {"K", "Z", "D"} :
               Delivery(c, i, result)
  PROVE  DurableInv'
<1> USE DEF Known
<1>1. files \in [Ids -> SUBSET Kinds] /\ safe \in [Ids -> SUBSET Kinds]
  BY DEF TypeOK, DirTypeOK
<1>2. CASE /\ UnlinkIntd \/ UnlinkLast \/ DiesUnanswered
           /\ UNCHANGED <<queueVars, sendVars>>
  <2> PICK id : id = creq.id
    OBVIOUS
  <2>1. /\ cpc # "dead" /\ creq # NoRequest /\ creq \in Requests /\ id \in Ids
        /\ creq.op = "foop" => "todo" \notin files[id] /\ "info" \notin files[id]
        /\ creq.op = "todo" /\ UnlinkIntd => "todo" \in files[id]
    BY <1>2 DEF UnlinkIntd, UnlinkLast, DiesUnanswered, InjectorInv, OneRequest, RequestSafe,
       TypeOK, CleanTypeOK, Requests, StatesInv, RequestWhole
  <2>2. PICK k \in {"intd", "mess", "todo"} : /\ files' = [files EXCEPT ![id] = @ \ {k}]
                                              /\ safe' = [safe EXCEPT ![id] = @ \ {k}]
                                              /\ UnlinkIntd => k = "intd"
    <3>1. CASE UnlinkIntd
      BY <3>1 DEF UnlinkIntd, Unlink, First
    <3>2. CASE UnlinkLast \/ DiesUnanswered
      <4>1. cpc = "last"
        BY <3>2 DEF UnlinkLast, DiesUnanswered
      <4>2. ~UnlinkIntd
        BY <4>1 DEF UnlinkIntd
      <4> QED BY <3>2, <4>2 DEF UnlinkLast, DiesUnanswered, Unlink, Last
    <3> QED BY <1>2, <3>1, <3>2
  <2>3. ASSUME NEW x \in Ids PROVE FilesKept(x)
    <3>1. files'[x] \subseteq files[x] /\ DiskKept(x)
      BY <1>1, <2>2 DEF DiskKept
    <3>2. S5(x)' => S5(x) \/ TodoAsked(x)
      <4>1. CASE x # id
        BY <1>1, <2>2, <4>1 DEF S5, Has
      <4>2. CASE x = id
        BY <1>1, <2>1, <2>2, <4>2 DEF S5, Has, TodoAsked, Request, Requests
      <4> QED BY <4>1, <4>2
    <3>3. TodoAsked(x)' => TodoAsked(x)
      BY <1>2 DEF UnlinkIntd, UnlinkLast, DiesUnanswered, Respond, TodoAsked, Request, NoRequest
    <3> QED BY <3>1, <3>2, <3>3 DEF FilesKept, Settled
  <2>4. NoNewProcs
    BY <1>2 DEF NoNewProcs, queueVars
  <2> QED BY <2>3, <2>4, KeptDurable
<1>3. CASE \/ /\ SkipPids \/ CleanPids \/ ReadRequest \/ UnlinkFails \/ CleanDies
              /\ UNCHANGED <<queueVars, sendVars>>
           \/ Answer \/ Exits \/ Crash \/ Tick \/ UNCHANGED vars
           \/ \E c \in Channels : \E i \in Slots(c) : \E result \in {"K", "Z", "D"} :
                 Delivery(c, i, result)
  <2>1. safe' = safe
    BY <1>3 DEF SkipPids, CleanPids, ReadRequest, UnlinkFails, CleanDies, Answer, Preprocessed,
       Answered, CleanDied, Exits, SendExit, Crash, Tick, vars, Delivery, Deliver, dirVars
  <2>2. \A x \in Ids : files'[x] \ {"pid"} = files[x] \ {"pid"}
    <3>1. CASE CleanPids
      <4>1. files' = [id \in Ids |-> IF id \in StalePids THEN files[id] \ {"pid"} ELSE files[id]]
        BY <3>1 DEF CleanPids
      <4> QED BY <4>1
    <3>2. CASE ~CleanPids
      <4>1. files' = files
        BY <1>3, <3>2 DEF SkipPids, ReadRequest, UnlinkFails, CleanDies, Answer, Preprocessed,
           Answered, CleanDied, Exits, SendExit, Crash, Tick, vars, Delivery, Deliver, dirVars
      <4> QED BY <4>1
    <3> QED BY <3>1, <3>2
  <2>3. NoNewProcs
    BY <1>3 DEF Answer, Exits, Crash, Tick, vars, Delivery, NoNewProcs, queueVars, Entering
  <2>4. \A x \in Ids : TodoAsked(x)' => TodoAsked(x)
    <3>1. CASE Exits \/ Crash \/ UnlinkFails
      BY <3>1 DEF Exits, Crash, CleanRestarts, UnlinkFails, Respond, TodoAsked, Request, NoRequest
    <3>2. CASE ~(Exits \/ Crash \/ UnlinkFails)
      <4>1. creq' = creq /\ (cpc' # "dead" => cpc # "dead")
        BY <1>3, <3>2 DEF SkipPids, CleanPids, ReadRequest, CleanDies, Answer, TakeReply, Tick,
           vars, Delivery, cleanVars
      <4> QED BY <4>1 DEF TodoAsked
    <3> QED BY <3>1, <3>2
  <2>5. \A x \in Ids : FilesKept(x)
    BY <2>1, <2>2, <2>4 DEF FilesKept, DiskKept, Settled, S5, Has, Channels
  <2> QED BY <2>3, <2>5, KeptDurable
<1> QED BY <1>2, <1>3 DEF Clean, CleanNext

(* qmail-queue: an fsync() before each step that relies on it.             *)
LEMMA InjectDurable ==
  ASSUME Known, DurableInv, InjectorInv', StatesInv', NEW p \in Procs,
         Inject(p) \/ InjectFails(p) \/ Envelope(p) \/ Queue(p)
  PROVE  DurableInv'
<1> USE DEF Known
<1>1. files \in [Ids -> SUBSET Kinds] /\ safe \in [Ids -> SUBSET Kinds] /\ QueueTypeOK
  BY DEF TypeOK, DirTypeOK
<1>2. cpc' = cpc /\ creq' = creq
  BY DEF Inject, InjectFails, Envelope, Queue, cleanVars
<1> PICK id : id = qid[p]
  OBVIOUS
<1>3. CASE PidOpen(p) \/ LinkMess(p) \/ UnlinkPid(p) \/ ExitOk(p) \/ OpenIntd(p)
           \/ PidOpenFails(p) \/ DieCleaning(p) \/ DieLeaving(p) \/ Alarm(p)
  <2>1. /\ \A q \in Procs : qpc'[q] \in {"body", "intd", "ready"} =>
              /\ qpc'[q] = qpc[q] \/ (qpc[q] = "body" /\ qpc'[q] = "intd")
              /\ qid'[q] = qid[q] /\ qpc[q] \in Entering
    BY <1>1, <1>3 DEF PidOpen, LinkMess, UnlinkPid, ExitOk, OpenIntd, PidOpenFails, DieCleaning,
       DieLeaving, Alarm, Step, Exit, QueueTypeOK, Entering
  <2>2. \A x \in Ids :
           /\ files'[x] \subseteq files[x] \cup {"pid", "mess", "intd"}
           /\ safe[x] \cap files'[x] \subseteq safe'[x]
           /\ "mess" \in files'[x] => "mess" \in files[x] \/ x = id
           /\ "todo" \in files[x] => "todo" \in files'[x]
    <3>1. CASE PidOpen(p) \/ LinkMess(p) \/ OpenIntd(p)
      BY <1>1, <3>1 DEF PidOpen, LinkMess, OpenIntd, Create
    <3>2. CASE UnlinkPid(p)
      BY <1>1, <3>2 DEF UnlinkPid, Unlink
    <3>3. CASE ExitOk(p) \/ PidOpenFails(p) \/ DieLeaving(p) \/ Alarm(p)
      BY <3>3 DEF ExitOk, PidOpenFails, DieLeaving, Alarm, dirVars
    <3>4. CASE DieCleaning(p)
      BY <1>1, <3>4 DEF DieCleaning, CleanedUp, Unlink
    <3> QED BY <1>3, <3>1, <3>2, <3>3, <3>4
  <2>3. ASSUME NEW x \in Ids PROVE FilesKept(x)
    <3>1. S5(x)' => S5(x)
      <4> SUFFICES ASSUME S5(x)' PROVE S5(x)
        OBVIOUS
      <4>1. "info" \in files[x] /\ "todo" \notin files[x]
        BY <2>2 DEF S5, Has
      <4> QED BY <4>1, AddableStates DEF Addable, Has
    <3> QED BY <1>2, <2>2, <3>1 DEF FilesKept, DiskKept, Settled, TodoAsked, Channels
  <2>4. \A x \in Ids : OnDisk(x)'
    BY <2>3, OnDiskKept DEF DurableInv, FilesKept
  <2>5. Synced'
    <3> SUFFICES ASSUME NEW q \in Procs, qpc'[q] \in {"body", "intd", "ready"}
                 PROVE  /\ "mess" \in safe'[qid'[q]]
                        /\ qpc'[q] = "ready" => "intd" \in safe'[qid'[q]]
      BY DEF Synced
    <3> PICK x : x = qid'[q]
      OBVIOUS
    <3>1. /\ x \in Ids /\ "mess" \in safe[x]
          /\ qpc'[q] = "ready" => "intd" \in safe[x]
      BY <2>1 DEF DurableInv, Synced, InjectorInv, OwnInode, Entering, Live
    <3>2. /\ "mess" \in files'[x]
          /\ qpc'[q] = "ready" => "intd" \in files'[x]
      BY DEF InjectorInv, Hidden, Entering, Needs
    <3> QED BY <2>2, <3>1, <3>2
  <2> QED BY <2>4, <2>5 DEF DurableInv
<1>4. CASE WriteBody(p) \/ (\E s, rs : WriteEnvelope(p, s, rs)) \/ LinkTodo(p)
  <2>1. qpc[p] \in {"mess", "intd", "ready"} /\ qpc[p] \in Entering
    BY <1>4 DEF WriteBody, WriteEnvelope, LinkTodo, Step, Entering
  <2>2. /\ id \in Ids
        /\ \A q \in Procs : q # p => qid[q] # id
        /\ "todo" \notin files[id] /\ "info" \notin files[id]
        /\ cpc # "dead" /\ creq # NoRequest => creq.id # id
    BY <2>1, EnteringOwn
  <2>3. ~Settled(id) /\ ~Settled(id)'
    <3>1. ~TodoAsked(id) /\ ~TodoAsked(id)'
      BY <1>2, <2>2 DEF TodoAsked, Request, NoRequest
    <3>2. "info" \notin files'[id]
      BY <1>1, <1>4, <2>2 DEF WriteBody, WriteEnvelope, LinkTodo, Create
    <3> QED BY <2>2, <3>1, <3>2 DEF Settled, S5, Has
  <2>4. /\ \A x \in Ids : x # id => files'[x] = files[x] /\ safe'[x] = safe[x]
        /\ safe[id] \subseteq safe'[id]
        /\ \A q \in Procs : q # p => qpc'[q] = qpc[q] /\ qid'[q] = qid[q]
        /\ qid'[p] = id
    BY <1>1, <1>4, <2>2 DEF WriteBody, WriteEnvelope, LinkTodo, Step, Create, Fsync, QueueTypeOK
  <2>5. \/ qpc'[p] = "body" /\ "mess" \in safe'[id] /\ "todo" \notin files'[id]
        \/ qpc[p] = "intd" /\ qpc'[p] = "ready" /\ "intd" \in safe'[id] /\ "todo" \notin files'[id]
        \/ qpc[p] = "ready" /\ qpc'[p] = "queued" /\ ("intd" \in safe[id] => "todo" \in safe'[id])
    <3>1. CASE WriteBody(p)
      BY <1>1, <2>2, <3>1 DEF WriteBody, Step, Fsync, QueueTypeOK
    <3>2. CASE \E s, rs : WriteEnvelope(p, s, rs)
      BY <1>1, <2>2, <3>2 DEF WriteEnvelope, Step, Fsync, QueueTypeOK
    <3>3. CASE LinkTodo(p)
      BY <1>1, <2>2, <3>3 DEF LinkTodo, Step, QueueTypeOK
    <3> QED BY <1>4, <3>1, <3>2, <3>3
  <2>6. OnDisk(id)'
    BY <2>3, <2>4, <2>5 DEF DurableInv, Synced, OnDisk, Has
  <2>7. ASSUME NEW x \in Ids, x # id PROVE OnDisk(x)'
    BY <1>2, <2>4, <2>7 DEF DurableInv, OnDisk, Settled, TodoAsked, S5, Has
  <2>8. Synced'
    <3> SUFFICES ASSUME NEW q \in Procs, qpc'[q] \in {"body", "intd", "ready"}
                 PROVE  /\ "mess" \in safe'[qid'[q]]
                        /\ qpc'[q] = "ready" => "intd" \in safe'[qid'[q]]
      BY DEF Synced
    <3>1. CASE q = p
      BY <2>4, <2>5, <3>1 DEF DurableInv, Synced
    <3>2. CASE q # p
      <4>1. qid[q] \in Ids /\ qid[q] # id
        BY <2>2, <2>4, <3>2 DEF InjectorInv, OwnInode, Live
      <4> QED BY <2>4, <3>2, <4>1 DEF DurableInv, Synced
    <3> QED BY <3>1, <3>2
  <2> QED BY <2>6, <2>7, <2>8 DEF DurableInv
<1> QED BY <1>3, <1>4 DEF Inject, InjectFails, Envelope, Queue

LEMMA NextDurable ==
  Known /\ DurableInv /\ InjectorInv' /\ StatesInv' /\ [Next]_vars => DurableInv'
<1> SUFFICES ASSUME Known, DurableInv, InjectorInv', StatesInv', [Next]_vars PROVE DurableInv'
  OBVIOUS
<1> QED BY InjectDurable, SendAloneDurable, AskDurable, CleanDurable DEF Next

(* DurableInv in every reachable state: what a qmail-queue has written,    *)
(* and every file that a promise rests on, has been fsync()ed.             *)
THEOREM DurableCorrect == ~StatFails /\ Spec => []DurableInv
<1> SUFFICES ASSUME ~StatFails PROVE Spec => []DurableInv
  OBVIOUS
<1>1. Spec => []StatesInv
  BY StatesCorrect
<1>2. TypeOK /\ JobsInv /\ InjectorInv /\ StatesInv /\ DurableInv /\ InjectorInv' /\ StatesInv'
         /\ [Next]_vars => DurableInv'
  BY NextDurable DEF Known
<1> QED BY <1>1, <1>2, InitDurable, TypeCorrect, JobTableCorrect, InjectorCorrect, PTL DEF Spec

(* Whatever has been promised is on disk: a crash finds the message and    *)
(* the envelope of each todo/ file, and info/ and the channel files of     *)
(* each preprocessed message.                                              *)
THEOREM PromisesDurable == ~StatFails /\ Spec => []Durable
<1>1. DurableInv => Durable
  BY DEF DurableInv, OnDisk, Settled, Durable
<1> QED BY <1>1, DurableCorrect, PTL

-----------------------------------------------------------------------------
(* The agenda of qmail-send.                                               *)

(* What the handler that waits is waiting for.                             *)
Waits ==
    /\ send \in {"down", "loop"} => work.why = "none"
    /\ send = "clean" => work.why \in {"todo", "done", "cleanup"}

Claimed(id, c) ==
    \/ pqchan[c][id] # 0
    \/ \E j \in Jobs : Open(j) /\ jo[j].id = id /\ jo[j].channel = c

OnAgenda(id) ==
    S5(id) /\ ~InHand(id) =>
        IF HasChannel(id) THEN \A c \in files[id] \cap Channels : Claimed(id, c)
                          ELSE pqdone[id] >= 1

AgendaInv ==
    /\ Waits
    /\ send # "down" /\ ~exitasap => \A id \in Ids : OnAgenda(id)

LEMMA InitAgenda == Init => AgendaInv
BY DEF Init, SendInit, NoWork, AgendaInv, Waits

(* Nothing is taken off the agenda.                                        *)
AgendaKept(id) ==
    /\ S5(id)' => S5(id)
    /\ files'[id] \cap Channels = files[id] \cap Channels
    /\ InHand(id) => InHand(id)'
    /\ \A c \in Channels : pqchan'[c][id] = pqchan[c][id]
    /\ pqdone[id] >= 1 => pqdone'[id] >= 1
    /\ \A j \in Jobs : Open(j) /\ jo[j].id = id =>
          Open(j)' /\ jo'[j].id = id /\ jo'[j].channel = jo[j].channel

LEMMA OnAgendaKept ==
  ASSUME NEW id \in Ids, OnAgenda(id), AgendaKept(id)
  PROVE  OnAgenda(id)'
<1> SUFFICES ASSUME S5(id)', ~InHand(id)'
             PROVE  IF HasChannel(id)' THEN \A c \in files'[id] \cap Channels : Claimed(id, c)'
                                       ELSE pqdone'[id] >= 1
  BY DEF OnAgenda
<1>1. S5(id) /\ ~InHand(id) /\ (HasChannel(id)' <=> HasChannel(id))
  BY DEF AgendaKept, HasChannel
<1>2. \A c \in Channels : Claimed(id, c) => Claimed(id, c)'
  BY DEF AgendaKept, Claimed
<1> QED BY <1>1, <1>2 DEF OnAgenda, AgendaKept

(* Steps that leave the entries, the jobs and what is in hand alone.       *)
LEMMA KeptAgenda ==
  ASSUME AgendaInv, TypeOK, \A id \in Ids : SameNames(id),
         UNCHANGED <<send, work, pqchan, pqdone>>, exitasap => exitasap',
         \A j \in Jobs : Open(j) => /\ Open(j)' /\ jo'[j].id = jo[j].id
                                    /\ jo'[j].channel = jo[j].channel
  PROVE  AgendaInv'
<1>1. ASSUME NEW id \in Ids PROVE AgendaKept(id)
  <2>1. files'[id] \cap Channels = files[id] \cap Channels /\ (S5(id)' => S5(id))
    BY DEF SameNames, S5, Has, Channels
  <2>2. InHand(id) => InHand(id)'
    BY DEF InHand
  <2> QED BY <2>1, <2>2 DEF AgendaKept
<1>2. exitasap' \in BOOLEAN \/ exitasap \in BOOLEAN
  BY DEF TypeOK, SendTypeOK
<1> QED BY <1>1, <1>2, OnAgendaKept DEF AgendaInv, Waits

(* In the main loop nothing is in hand.                                    *)
LEMMA NothingInHand ==
  ASSUME AgendaInv, send \in {"down", "loop"}
  PROVE  \A id \in Ids : ~InHand(id)
BY DEF AgendaInv, Waits, InHand

(* pqstart() finds every message that is preprocessed.                     *)
LEMMA StartAgenda ==
  ASSUME Known, AgendaInv, Start
  PROVE  AgendaInv'
<1>1. /\ send' = "loop" /\ work' = NoWork /\ files' = files /\ send = "down"
      /\ pqchan' = AddChan({id \in Ids : Has(id, "info")})
      /\ pqdone' = AddDone({id \in Ids : Has(id, "info")})
  <2>1. StatFails = FALSE
    BY DEF Known, StatesInv, NoneFailed, TypeOK
  <2> QED BY <2>1 DEF Start, Resume
<1>2. pqchan \in [Channels -> [Ids -> Nat]] /\ pqdone \in [Ids -> Nat]
  BY DEF Known, TypeOK, SendTypeOK
<1>3. ASSUME NEW id \in Ids, S5(id)' PROVE OnAgenda(id)'
  <2>1. Has(id, "info") /\ Addable(id) /\ (HasChannel(id)' <=> HasChannel(id))
    BY <1>1, <1>3 DEF S5, Has, Addable, HasChannel
  <2>2. \A c \in Channels : Has(id, c) => pqchan'[c][id] = pqchan[c][id] + 1
    BY <1>1, <2>1 DEF AddChan
  <2>3. ~HasChannel(id) => pqdone'[id] = pqdone[id] + 1
    BY <1>1, <2>1 DEF AddDone
  <2>4. \A c \in files'[id] \cap Channels : Claimed(id, c)'
    BY <1>1, <1>2, <2>2 DEF Claimed, Has
  <2>5. ~HasChannel(id) => pqdone'[id] >= 1
    BY <1>2, <2>3
  <2> QED BY <2>1, <2>4, <2>5 DEF OnAgenda
<1> QED BY <1>1, <1>3 DEF AgendaInv, Waits, NoWork, OnAgenda

LEMMA PassOpenAgenda ==
  ASSUME Known, AgendaInv, NEW c \in Channels, NEW id \in Ids, PassOpen(c, id)
  PROVE  AgendaInv'
<1> USE DEF Known
<1> PICK j : j = Least(JobsFree)
  OBVIOUS
<1>1. j \in Jobs /\ ~Open(j)
  <2>1. JobsFree \in SUBSET Nat /\ JobsFree # {}
    BY DEF PassOpen, JobsFree, Jobs
  <2> QED BY <2>1, LeastType DEF JobsFree, Open
<1>2. /\ UNCHANGED <<send, work, files, pqdone, exitasap>> /\ send = "loop"
      /\ pqchan' = [pqchan EXCEPT ![c] = Pop(@, id)]
      /\ jo' = [jo EXCEPT ![j] = [refs |-> 1, id |-> id, channel |-> c, numtodo |-> 0,
                                  hiteof |-> FALSE, dying |-> old[id]]]
  BY DEF PassOpen, dirVars, flags
<1>3. jo \in [Jobs -> JobRecords] /\ pqchan \in [Channels -> [Ids -> Nat]]
  BY DEF TypeOK, SendTypeOK
<1>4. /\ \A x \in Ids, k \in Channels : x # id \/ k # c => pqchan'[k][x] = pqchan[k][x]
      /\ \A k \in Jobs : k # j => jo'[k] = jo[k]
      /\ jo'[j].refs = 1 /\ jo'[j].id = id /\ jo'[j].channel = c
  BY <1>1, <1>2, <1>3 DEF Pop
<1>5. ASSUME NEW x \in Ids, NEW k \in Channels, Claimed(x, k) PROVE Claimed(x, k)'
  <2>1. CASE x = id /\ k = c
    BY <1>1, <1>4, <2>1 DEF Claimed, Open
  <2>2. CASE x # id \/ k # c
    BY <1>1, <1>4, <1>5, <2>2 DEF Claimed, Open
  <2> QED BY <2>1, <2>2
<1>6. ASSUME NEW x \in Ids, OnAgenda(x) PROVE OnAgenda(x)'
  BY <1>2, <1>5, <1>6 DEF OnAgenda, InHand, S5, Has, HasChannel
<1> QED BY <1>2, <1>6 DEF AgendaInv, Waits

(* job_close(): the message goes back to pqchan, or its channel file is    *)
(* gone and the last one puts it in pqdone.                                *)
LEMMA JobCloseAgenda ==
  ASSUME Known, AgendaInv, NEW j \in Jobs, NEW job \in JobRecords,
         NEW fl \in [Ids -> SUBSET Kinds], NEW un, NEW dn, NEW f,
         JobClose(j, job, fl, un, dn, f),
         jo[j].refs > 0, job.refs = jo[j].refs, job.id = jo[j].id,
         job.channel = jo[j].channel,
         \A x \in Ids : x # job.id => fl[x] = files[x],
         fl[job.id] \in {files[job.id], files[job.id] \cup {"bounce"}},
         send = "loop", UNCHANGED <<send, work, exitasap>>
  PROVE  AgendaInv'
<1> USE DEF Known
<1> PICK id, c : id = job.id /\ c = job.channel
  OBVIOUS
<1>1. /\ id \in Ids /\ c \in Channels /\ S5(id) /\ Has(id, c)
      /\ pqchan[c][id] = 0 /\ ~InHand(id)
  BY NothingInHand DEF StatesInv, OneClaim, Open, JobRecords
<1>2. /\ \A k \in Jobs : k # j => jo'[k] = jo[k]
      /\ jo'[j].refs = IF job.refs > 1 THEN job.refs - 1 ELSE 0
      /\ job.refs > 1 => jo'[j].id = id /\ jo'[j].channel = c
  BY CloseJob
<1>3. pqchan \in [Channels -> [Ids -> Nat]] /\ pqdone \in [Ids -> Nat] /\ job.refs \in Nat
  BY DEF TypeOK, SendTypeOK, JobRecords
<1>4. /\ \A x \in Ids : x # id => files'[x] = files[x]
      /\ \A x \in Ids : pqdone[x] >= 1 => pqdone'[x] >= 1
      /\ \/ GoesOn(job, fl, un, dn, f) /\ files' = fl
         \/ /\ ChannelEnds(job, fl, un, dn, f) /\ files'[id] = fl[id] \ {c}
            /\ Other(c) \notin files[id] => pqdone'[id] >= 1
            /\ pqchan' = pqchan
  <2>1. CASE GoesOn(job, fl, un, dn, f)
    BY <1>1, <1>3, <2>1 DEF GoesOn
  <2>2. CASE ChannelEnds(job, fl, un, dn, f)
    <3>1. pqdone' = pqdone \/ pqdone' = Push(pqdone, id)
      BY <2>2 DEF ChannelEnds
    <3>2. Other(c) \notin files[id] => pqdone' = Push(pqdone, id)
      BY <2>2 DEF ChannelEnds, MoreChannels, Other
    <3>3. \A x \in Ids : Push(pqdone, id)[x] >= pqdone[x] /\ Push(pqdone, id)[id] >= 1
      BY <1>1, <1>3 DEF Push
    <3>4. \A x \in Ids : pqdone[x] >= 1 => pqdone'[x] >= 1
      <4>1. \A x \in Ids : pqdone[x] \in Nat /\ Push(pqdone, id)[x] \in Nat
        BY <1>3, PushType
      <4> QED BY <3>1, <3>3, <4>1
    <3>5. files' = [fl EXCEPT ![id] = @ \ {c}] /\ pqchan' = pqchan
      BY <2>2 DEF ChannelEnds
    <3> QED BY <1>1, <2>2, <3>2, <3>3, <3>4, <3>5
  <2> QED BY <2>1, <2>2 DEF JobClose
<1>5. \A x \in Ids : x # id => AgendaKept(x)
  <2> SUFFICES ASSUME NEW x \in Ids, x # id PROVE AgendaKept(x)
    OBVIOUS
  <2>1. \A k \in Channels : pqchan'[k][x] = pqchan[k][x]
    BY <1>1, <1>3, <1>4 DEF GoesOn, ChannelEnds, Push
  <2>2. \A k \in Jobs : Open(k) /\ jo[k].id = x =>
           Open(k)' /\ jo'[k].id = x /\ jo'[k].channel = jo[k].channel
    BY <1>2 DEF Open
  <2> QED BY <1>4, <2>1, <2>2 DEF AgendaKept, S5, Has, InHand
<1>6. OnAgenda(id) => OnAgenda(id)'
  <2> SUFFICES ASSUME OnAgenda(id)
               PROVE  IF HasChannel(id)' THEN \A k \in files'[id] \cap Channels : Claimed(id, k)'
                                         ELSE pqdone'[id] >= 1
    BY DEF OnAgenda
  <2>1. \A k \in files[id] \cap Channels : Claimed(id, k)
    BY <1>1 DEF OnAgenda, HasChannel, Has
  <2>2. files'[id] \cap Channels \subseteq files[id]
    BY <1>4 DEF Channels
  <2>3. ASSUME NEW k \in files'[id] \cap Channels, k # c PROVE Claimed(id, k)'
    <3>1. Claimed(id, k) /\ pqchan'[k][id] = pqchan[k][id]
      BY <1>1, <1>3, <1>4, <2>1, <2>2, <2>3 DEF GoesOn, ChannelEnds
    <3> QED BY <1>2, <2>3, <3>1 DEF Claimed, Open
  <2>4. CASE GoesOn(job, fl, un, dn, f) /\ files' = fl
    <3>1. Claimed(id, c)'
      <4>1. CASE job.refs > 1
        BY <1>2, <1>3, <4>1 DEF Claimed, Open
      <4>2. CASE ~(job.refs > 1)
        BY <1>1, <1>3, <2>4, <4>2 DEF GoesOn, Push, Claimed
      <4> QED BY <4>1, <4>2
    <3>2. HasChannel(id)'
      BY <1>1, <2>4 DEF HasChannel, Has
    <3> QED BY <2>3, <3>1, <3>2
  <2>5. CASE /\ ChannelEnds(job, fl, un, dn, f) /\ files'[id] = fl[id] \ {c}
             /\ Other(c) \notin files[id] => pqdone'[id] >= 1
    <3>1. HasChannel(id) /\ c \notin files'[id]
      BY <1>1, <2>5 DEF HasChannel, Has
    <3>2. ~HasChannel(id)' => Other(c) \notin files[id]
      BY <1>1, <2>5 DEF HasChannel, Other, Channels
    <3> QED BY <2>3, <2>5, <3>1, <3>2
  <2> QED BY <1>4, <2>4, <2>5
<1>7. \A x \in Ids : OnAgenda(x) => OnAgenda(x)'
  BY <1>5, <1>6, OnAgendaKept
<1> QED BY <1>7 DEF AgendaInv, Waits

LEMMA PassAgenda ==
  ASSUME Known, AgendaInv, NEW c \in Channels, PassDeliver(c) \/ PassClose(c)
  PROVE  AgendaInv'
<1> USE DEF Known
<1> PICK j : j = pass[c].j
  OBVIOUS
<1>1. /\ j \in Jobs /\ jo[j].refs > 0 /\ jo \in [Jobs -> JobRecords]
      /\ files \in [Ids -> SUBSET Kinds]
  BY Refers DEF PassDeliver, PassClose, TypeOK, SendTypeOK, DirTypeOK
<1>2. CASE PassDeliver(c)
  <2>1. /\ jo' = [jo EXCEPT ![j] = Referred(@)]
        /\ UNCHANGED <<files, send, work, pqchan, pqdone, exitasap>>
    BY <1>2 DEF PassDeliver, queues, flags, dirVars
  <2>2. \A k \in Jobs : Open(k) => /\ Open(k)' /\ jo'[k].id = jo[k].id
                                   /\ jo'[k].channel = jo[k].channel
    BY <1>1, <2>1 DEF Open, Referred, JobRecords
  <2> QED BY <2>1, <2>2, KeptAgenda DEF SameNames
<1>3. CASE PassClose(c)
  <2> DEFINE read == [jo[j] EXCEPT !.hiteof = TRUE]
  <2>1. /\ send = "loop" /\ UNCHANGED <<send, work, exitasap>>
        /\ \/ JobClose(j, read, files, undone, done, 0)
           \/ JobClose(j, jo[j], files, undone, done, 1)
    BY <1>3 DEF PassClose, flags
  <2>2. /\ read \in JobRecords /\ jo[j] \in JobRecords
        /\ read.refs = jo[j].refs /\ read.id = jo[j].id /\ read.channel = jo[j].channel
    BY <1>1 DEF JobRecords
  <2> HIDE DEF read
  <2>3. CASE JobClose(j, read, files, undone, done, 0)
    BY <1>1, <2>1, <2>2, <2>3, JobCloseAgenda
  <2>4. CASE JobClose(j, jo[j], files, undone, done, 1)
    BY <1>1, <2>1, <2>2, <2>4, JobCloseAgenda
  <2> QED BY <2>1, <2>3, <2>4
<1> QED BY <1>2, <1>3

LEMMA ReportAgenda ==
  ASSUME Known, AgendaInv, NEW c \in Channels, NEW i \in Slots(c), Report(c, i)
  PROVE  AgendaInv'
<1> USE DEF Known
<1> PICK j : j = del[c][i].j
  OBVIOUS
<1>1. j \in Jobs /\ jo[j].refs > 0 /\ jo[j].channel = c
  BY ReportCase DEF Report
<1>2. PICK job, fl, un, dn, f :
         /\ job \in JobRecords
         /\ job.refs = jo[j].refs /\ job.id = jo[j].id /\ job.channel = c
         /\ Reported(c, i, job, fl, un, dn, f)
  BY ReportCase DEF Report
<1>3. JobClose(j, job, fl, un, dn, f)
  BY <1>2 DEF Reported
<1>4. files \in [Ids -> SUBSET Kinds] /\ job.id \in Ids
  BY <1>1, <1>2 DEF TypeOK, DirTypeOK, StatesInv, OneClaim, Open
<1>5. fl = files \/ fl = [files EXCEPT ![job.id] = @ \cup {"bounce"}]
  BY <1>2 DEF Reported
<1>6. /\ fl \in [Ids -> SUBSET Kinds]
      /\ \A x \in Ids : x # job.id => fl[x] = files[x]
      /\ fl[job.id] \in {files[job.id], files[job.id] \cup {"bounce"}}
  BY <1>4, <1>5 DEF Kinds
<1>7. send = "loop" /\ UNCHANGED <<send, work, exitasap>>
  BY DEF Report, DelReport, flags
<1> QED BY <1>1, <1>2, <1>3, <1>6, <1>7, JobCloseAgenda

(* messdone() and todo_do(): a handler has its message in hand until it    *)
(* has dealt with it or put it back.  A qmail-send that is to exit owes    *)
(* nothing: the next one reads the queue anew.                             *)
LEMMA HandlerAgenda ==
  ASSUME Known, AgendaInv, StatesInv', NEW id \in Ids,
         \/ MessDoneReturns(id) \/ MessDoneBounces(id) \/ MessDoneFails(id)
         \/ PreprocessFails(id) \/ Ask(id) \/ BounceOver(id)
  PROVE  AgendaInv'
<1> USE DEF Known
<1>1. /\ UNCHANGED <<jo, pqchan, exitasap>> /\ send # "down" /\ send # "clean"
      /\ pqdone \in [Ids -> Nat] /\ files \in [Ids -> SUBSET Kinds]
  BY DEF MessDoneReturns, MessDoneBounces, MessDoneFails, TakeDone, PreprocessFails, Preprocessable,
     Ask, MessDoneEnds, Preprocess, Cleanup, BounceOver, BounceAccepted, BounceAcceptedFails,
     BounceRefused, EndMess, EndMessFails, tables, queues, flags, sendVars, TypeOK, SendTypeOK,
     DirTypeOK
<1>2. ASSUME NEW x \in Ids, x # id PROVE AgendaKept(x)
  <2>1. files'[x] = files[x]
    <3>1. CASE PreprocessFails(id)
      BY <1>1, <1>2, <3>1 DEF PreprocessFails, Unlink
    <3>2. CASE \/ MessDoneReturns(id) \/ MessDoneBounces(id) \/ MessDoneFails(id)
               \/ Ask(id) \/ BounceOver(id)
      BY <1>1, <1>2, <3>2 DEF MessDoneReturns, MessDoneBounces, MessDoneFails,
         Ask, Preprocess, MessDoneEnds, Cleanup, BounceOver, BounceAccepted, BounceAcceptedFails,
         BounceRefused, EndMess, EndMessFails, Unlink, dirVars
    <3> QED BY <3>1, <3>2
  <2>2. pqdone'[x] = pqdone[x]
    <3>1. pqdone' \in {pqdone, Pop(pqdone, id), Push(pqdone, id), Push(Pop(pqdone, id), id)}
      BY DEF MessDoneReturns, MessDoneBounces, MessDoneFails, PreprocessFails, Ask, Preprocess,
         MessDoneEnds, Cleanup, BounceOver, BounceAccepted, BounceAcceptedFails, BounceRefused,
         EndMess, EndMessFails, sendVars, queues
    <3> QED BY <1>1, <1>2, <3>1 DEF Push, Pop
  <2>3. ~InHand(x)
    <3>1. CASE send = "loop"
      BY <3>1, NothingInHand
    <3>2. CASE send # "loop"
      <4>1. work.id = id
        BY <3>2 DEF MessDoneReturns, MessDoneBounces, MessDoneFails, TakeDone, PreprocessFails,
           Preprocessable, Ask, MessDoneEnds, Preprocess, Cleanup, BounceOver, BounceAccepted,
           BounceAcceptedFails, BounceRefused
      <4> QED BY <1>2, <4>1 DEF InHand
    <3> QED BY <3>1, <3>2
  <2> QED BY <1>1, <2>1, <2>2, <2>3 DEF AgendaKept, S5, Has, Open
<1>3. ASSUME ~exitasap PROVE OnAgenda(id)'
  <2>1. CASE MessDoneReturns(id)
    <3>1. S5(id) => HasChannel(id)
      BY <2>1 DEF MessDoneReturns, Finished, Addable, S5
    <3>2. OnAgenda(id) /\ ~InHand(id)
      BY <1>1, <1>3, <2>1, NothingInHand DEF AgendaInv, MessDoneReturns, TakeDone
    <3>3. files' = files /\ work' = work
      BY <2>1 DEF MessDoneReturns, dirVars
    <3> QED BY <1>1, <3>1, <3>2, <3>3 DEF OnAgenda, InHand, S5, Has, HasChannel, Claimed, Open
  <2>2. CASE MessDoneBounces(id) \/ (Preprocess(id) /\ PutRequest("todo", id))
    BY <2>2 DEF MessDoneBounces, Preprocess, Wait, OnAgenda, InHand
  <2>3. CASE MessDoneFails(id) \/ BounceAcceptedFails(id) \/ BounceRefused(id)
    <3>1. PICK pq \in [Ids -> Nat] : pqdone' = Push(pq, id)
      <4>1. CASE MessDoneFails(id)
        BY <1>1, <4>1, PopType DEF MessDoneFails, EndMessFails, TakeDone
      <4>2. CASE BounceAcceptedFails(id) \/ BounceRefused(id)
        BY <1>1, <4>2 DEF BounceAcceptedFails, EndMessFails, BounceRefused
      <4> QED BY <2>3, <4>1, <4>2
    <3>3. pqdone'[id] >= 1
      BY <3>1 DEF Push
    <3>4. ~HasChannel(id)
      BY <2>3 DEF MessDoneFails, Finished, BounceAcceptedFails, BounceRefused, StatesInv,
         BounceWhole, HasChannel
    <3>5. files'[id] \subseteq files[id]
      BY <1>1, <2>3 DEF MessDoneFails, BounceAcceptedFails, EndMessFails, Unlink, BounceRefused,
         dirVars
    <3> QED BY <3>3, <3>4, <3>5 DEF OnAgenda, HasChannel
  <2>4. CASE PreprocessFails(id)
    <3>1. "todo" \in files'[id]
      <4>1. CASE \E gone \in {{}, {"local"}, Channels, Remade} : Unlink(id, gone)
        BY <1>1, <2>4, <4>1 DEF PreprocessFails, Preprocessable, Has, Unlink, Remade, Channels
      <4>2. CASE \E cs \in SUBSET Channels :
                    files' = [files EXCEPT ![id] = (@ \ Remade) \cup {"info"} \cup cs]
        BY <1>1, <2>4, <4>2 DEF PreprocessFails, Preprocessable, Has, Remade, Channels
      <4> QED BY <2>4, <4>1, <4>2 DEF PreprocessFails
    <3> QED BY <3>1 DEF OnAgenda, S5, Has
  <2>5. CASE EndMess(id) \/ Cleanup(id)
    <3>1. "info" \notin files'[id]
      BY <1>1, <2>5 DEF EndMess, Unlink, Cleanup, Leftover, Has, dirVars
    <3> QED BY <3>1 DEF OnAgenda, S5, Has
  <2> QED BY <2>1, <2>2, <2>3, <2>4, <2>5 DEF Ask, BounceOver, MessDoneEnds, BounceAccepted
<1>4. Waits'
  <2>1. CASE Preprocess(id) \/ EndMess(id) \/ Cleanup(id) \/ MessDoneBounces(id)
    BY <2>1 DEF Preprocess, EndMess, Cleanup, MessDoneBounces, Wait, Waits
  <2>2. CASE MessDoneFails(id) \/ BounceAcceptedFails(id) \/ BounceRefused(id)
    BY <2>2 DEF MessDoneFails, BounceAcceptedFails, BounceRefused, EndMessFails, Resume, NoWork,
       Waits
  <2>3. CASE MessDoneReturns(id) \/ PreprocessFails(id)
    BY <2>3 DEF MessDoneReturns, PreprocessFails, sendVars, AgendaInv, Waits
  <2> QED BY <2>1, <2>2, <2>3 DEF Ask, BounceOver, MessDoneEnds, BounceAccepted
<1> QED BY <1>1, <1>2, <1>3, <1>4, OnAgendaKept DEF AgendaInv

LEMMA StillAgenda ==
  ASSUME Known, AgendaInv,
         \/ Term
         \/ \E id \in Ids : Expire(id)
         \/ \E c \in Channels : SpawnDied(c)
         \/ \E c \in Channels : \E i \in Slots(c) :
               CommWrite(c, i) \/ \E result \in {"K", "Z", "D"} : Deliver(c, i, result)
  PROVE  AgendaInv'
<1>1. UNCHANGED <<files, send, work, pqchan, pqdone, jo>> /\ (exitasap => exitasap')
  BY DEF Term, Expire, SpawnDied, CommWrite, Deliver, queues, tables, flags, dirVars
<1> QED BY <1>1, KeptAgenda DEF Known, SameNames, Open

(* "+" to todo_do() puts the message where its files are; "!" leaves it    *)
(* in todo/.                                                               *)
LEMMA AnswerAgenda ==
  ASSUME Known, AgendaInv, Answer
  PROVE  AgendaInv'
<1> USE DEF Known
<1>1. send = "clean" /\ send' = "loop" /\ work' = NoWork /\ files' = files /\ jo' = jo
  BY DEF Answer, Preprocessed, Answered, CleanDied, Resume, tables, dirVars
<1>2. Waits'
  BY <1>1 DEF Waits, NoWork
<1>3. pqchan \in [Channels -> [Ids -> Nat]] /\ pqdone \in [Ids -> Nat]
  BY DEF TypeOK, SendTypeOK
<1>4. CASE CleanDied
  BY <1>2, <1>4 DEF CleanDied, AgendaInv
<1>5. CASE \E answer \in {"+", "!"} : Answered(answer) /\ TakeReply(answer)
  <2>1. UNCHANGED <<pqchan, pqdone, exitasap>>
    BY <1>5 DEF Answered, queues, flags
  <2>2. ASSUME NEW id \in Ids, OnAgenda(id) PROVE OnAgenda(id)'
    <3>1. CASE InHand(id)
      <4>1. work.why = "todo" /\ creply = "!"
        BY <1>1, <1>5, <3>1 DEF InHand, AgendaInv, Waits, Answered, TakeReply
      <4>2. "todo" \in files[id]
        BY <1>1, <3>1, <4>1 DEF StatesInv, AnswerWhole, InHand, Has
      <4> QED BY <1>1, <4>2 DEF OnAgenda, S5, Has
    <3>2. CASE ~InHand(id)
      BY <1>1, <2>1, <2>2, <3>2 DEF OnAgenda, S5, Has, HasChannel, Claimed, Open
    <3> QED BY <3>1, <3>2
  <2> QED BY <1>1, <1>2, <2>1, <2>2 DEF AgendaInv
<1>6. CASE Preprocessed
  <2> PICK id : id = work.id
    OBVIOUS
  <2>1. /\ work.why = "todo" /\ exitasap' = exitasap
        /\ pqchan' = [c \in Channels |-> IF Has(id, c) THEN Push(pqchan[c], id) ELSE pqchan[c]]
        /\ pqdone' = IF HasChannel(id) THEN pqdone ELSE Push(pqdone, id)
    BY <1>6 DEF Preprocessed, flags
  <2>2. id \in Ids
    BY <1>1, <2>1 DEF StatesInv, AnswerWhole
  <2>3. OnAgenda(id)'
    <3>1. \A c \in Channels : Has(id, c) => Claimed(id, c)'
      BY <1>3, <2>1, <2>2 DEF Claimed, Push
    <3>2. ~HasChannel(id) => pqdone'[id] >= 1
      BY <1>3, <2>1, <2>2 DEF Push
    <3> QED BY <1>1, <3>1, <3>2 DEF OnAgenda, HasChannel, Has
  <2>4. ASSUME NEW x \in Ids, x # id, OnAgenda(x) PROVE OnAgenda(x)'
    <3>1. pqdone'[x] = pqdone[x] /\ \A c \in Channels : pqchan'[c][x] = pqchan[c][x]
      BY <1>3, <2>1, <2>4 DEF Push
    <3>2. ~InHand(x)
      BY <2>4 DEF InHand
    <3> QED BY <1>1, <2>4, <3>1, <3>2 DEF OnAgenda, S5, Has, HasChannel, Claimed, Open
  <2> QED BY <1>1, <1>2, <2>1, <2>3, <2>4 DEF AgendaInv
<1> QED BY <1>4, <1>5, <1>6 DEF Answer

(* qmail-queue makes no message preprocessed; qmail-clean makes one so     *)
(* that todo_do() has in hand.                                             *)
LEMMA OthersAgenda ==
  ASSUME Known, AgendaInv,
         \/ \E p \in Procs : Inject(p) \/ InjectFails(p) \/ Envelope(p) \/ Queue(p)
         \/ Clean
  PROVE  AgendaInv'
<1> USE DEF Known
<1>1. UNCHANGED sendVars /\ UNCHANGED <<send, work, pqchan, pqdone, jo, exitasap>>
  BY DEF Inject, InjectFails, Envelope, Queue, Clean, sendVars
<1>2. files \in [Ids -> SUBSET Kinds]
  BY DEF TypeOK, DirTypeOK
<1>3. ASSUME NEW x \in Ids
      PROVE  /\ files'[x] \cap Channels = files[x] \cap Channels
             /\ "info" \in files'[x] => "info" \in files[x]
             /\ \/ "todo" \in files[x] => "todo" \in files'[x]
                \/ (UnlinkLast \/ DiesUnanswered) /\ x = creq.id
  <2>1. CASE Clean
    <3>1. CASE UnlinkIntd \/ UnlinkLast \/ DiesUnanswered
      BY <1>2, <3>1 DEF UnlinkIntd, UnlinkLast, DiesUnanswered, Unlink, First, Last, Channels
    <3>2. CASE CleanPids
      <4>1. files' = [id \in Ids |-> IF id \in StalePids THEN files[id] \ {"pid"} ELSE files[id]]
        BY <3>2 DEF CleanPids
      <4> QED BY <1>2, <4>1 DEF Channels
    <3>3. CASE SkipPids \/ ReadRequest \/ UnlinkFails \/ CleanDies
      BY <3>3 DEF SkipPids, ReadRequest, UnlinkFails, CleanDies, dirVars
    <3> QED BY <2>1, <3>1, <3>2, <3>3 DEF Clean, CleanNext
  <2>2. ASSUME NEW p \in Procs, Inject(p) \/ InjectFails(p) \/ Envelope(p) \/ Queue(p)
        PROVE  files'[x] \cup {"pid", "mess", "intd", "todo"} =
               files[x] \cup {"pid", "mess", "intd", "todo"} /\
               ("todo" \in files[x] => "todo" \in files'[x])
    <3>1. CASE PidOpen(p) \/ LinkMess(p) \/ OpenIntd(p) \/ LinkTodo(p)
      BY <1>2, <3>1 DEF PidOpen, LinkMess, OpenIntd, LinkTodo, Create
    <3>2. CASE UnlinkPid(p) \/ DieCleaning(p)
      <4>1. PICK ks \in SUBSET {"pid", "mess", "intd"} : Unlink(qid[p], ks)
        BY <3>2 DEF UnlinkPid, DieCleaning, CleanedUp
      <4>2. files' = [files EXCEPT ![qid[p]] = @ \ ks]
        BY <4>1 DEF Unlink
      <4> QED BY <1>2, <4>2
    <3>3. CASE \/ ExitOk(p) \/ PidOpenFails(p) \/ DieLeaving(p) \/ Alarm(p)
               \/ WriteBody(p) \/ \E s, rs : WriteEnvelope(p, s, rs)
      BY <3>3 DEF ExitOk, PidOpenFails, DieLeaving, Alarm, WriteBody, WriteEnvelope, dirVars
    <3> QED BY <2>2, <3>1, <3>2, <3>3 DEF Inject, InjectFails, Envelope, Queue
  <2>3. ASSUME NEW p \in Procs, Inject(p) \/ InjectFails(p) \/ Envelope(p) \/ Queue(p)
        PROVE  /\ files'[x] \cap Channels = files[x] \cap Channels
               /\ "info" \in files'[x] => "info" \in files[x]
               /\ "todo" \in files[x] => "todo" \in files'[x]
    BY <2>2, <2>3 DEF Channels
  <2> QED BY <2>1, <2>3
<1>4. ASSUME NEW x \in Ids, OnAgenda(x) PROVE OnAgenda(x)'
  <2>1. CASE "todo" \in files[x] => "todo" \in files'[x]
    <3>1. S5(x)' => S5(x)
      BY <1>3, <2>1, AddableStates DEF S5, Addable, Has
    <3> QED BY <1>1, <1>3, <1>4, <3>1, OnAgendaKept DEF AgendaKept, InHand, Open
  <2>2. CASE (UnlinkLast \/ DiesUnanswered) /\ x = creq.id
    <3>1. cpc = "last" /\ creq # NoRequest /\ creq \in Requests
      BY <2>2 DEF UnlinkLast, DiesUnanswered, InjectorInv, OneRequest, TypeOK, CleanTypeOK
    <3>2. /\ work.id = x
          /\ work.why = "todo" \/ (creq.op = "foop" /\ "info" \notin files[x])
      BY <2>2, <3>1 DEF StatesInv, RequestWhole, InjectorInv, RequestSafe, Requests
    <3>3. InHand(x)' \/ "info" \notin files'[x]
      BY <1>1, <1>3, <3>2 DEF InHand
    <3> QED BY <3>3 DEF OnAgenda, S5, Has
  <2> QED BY <1>3, <2>1, <2>2
<1> QED BY <1>1, <1>4 DEF AgendaInv, Waits

LEMMA NextAgenda == Known /\ AgendaInv /\ StatesInv' /\ [Next]_vars => AgendaInv'
<1> SUFFICES ASSUME Known, AgendaInv, StatesInv', [Next]_vars PROVE AgendaInv'
  OBVIOUS
<1>1. CASE SendAlone
  BY <1>1, StartAgenda, PassOpenAgenda, PassAgenda, HandlerAgenda, StillAgenda, RetryStates
     DEF SendAlone, Known
<1>2. ASSUME NEW c \in Channels, NEW i \in Slots(c), NEW result \in {"K", "Z", "D"},
             Delivery(c, i, result)
      PROVE  AgendaInv'
  BY <1>2, StillAgenda DEF Delivery
<1>3. CASE Exits \/ Crash
  <2>1. send' = "down" /\ work' = NoWork
    BY <1>3 DEF Exits, SendExit, Crash, Forget
  <2> QED BY <2>1 DEF AgendaInv, Waits, NoWork
<1>4. CASE Tick \/ UNCHANGED vars
  <2>1. UNCHANGED <<files, send, work, pqchan, pqdone, exitasap, jo>>
    BY <1>4 DEF Tick, vars, sendVars, dirVars
  <2> QED BY <2>1, KeptAgenda DEF Known, SameNames, Open
<1> QED BY <1>1, <1>2, <1>3, <1>4, ReportAgenda, HandlerAgenda, AnswerAgenda, OthersAgenda DEF Next

(* AgendaInv in every reachable state: a preprocessed message is in the    *)
(* queue, the job or the handler that its files call for.                  *)
THEOREM AgendaCorrect == ~StatFails /\ Spec => []AgendaInv
<1> SUFFICES ASSUME ~StatFails PROVE Spec => []AgendaInv
  OBVIOUS
<1>1. Spec => []StatesInv
  BY StatesCorrect
<1>2. TypeOK /\ JobsInv /\ InjectorInv /\ StatesInv /\ AgendaInv /\ StatesInv' /\ [Next]_vars
         => AgendaInv'
  BY NextAgenda DEF Known
<1> QED BY <1>1, <1>2, InitAgenda, TypeCorrect, JobTableCorrect, InjectorCorrect, PTL DEF Spec

(* A qmail-send that goes on running has every preprocessed message on its *)
(* agenda: no message waits for the next restart.                          *)
THEOREM NoneStranded == ~StatFails /\ Spec => []NothingStranded
<1>1. TypeOK /\ StatesInv /\ AgendaInv => NothingStranded
  <2> SUFFICES ASSUME TypeOK, StatesInv, AgendaInv, send # "down", ~exitasap,
                      NEW id \in Ids, S5(id), ~InHand(id), HasChannel(id),
                      NEW c \in files[id] \cap Channels
               PROVE  Claims(id, c) >= 1
    BY DEF NothingStranded, AgendaInv, OnAgenda
  <2>1. Claimed(id, c)
    BY DEF AgendaInv, OnAgenda
  <2>2. pqchan[c][id] \in Nat /\ OneClaim
    BY DEF TypeOK, SendTypeOK, StatesInv
  <2> QED BY <2>1, <2>2, JobsOnOne DEF Claimed, Claims
<1> QED BY <1>1, AgendaCorrect, StatesCorrect, TypeCorrect, PTL

-----------------------------------------------------------------------------
(* The qmail-queue of injectbounce() runs only while qmail-send waits for  *)
(* it, and when it has made its todo/ file the bounce holds all the lines  *)
(* that bounce/ then holds.                                                *)
BouncerInTurn ==
    IF send = "inject"
    THEN qpc[Bouncer] \in {"queued", "ok"} => notes[work.id] \subseteq heard[work.id]
    ELSE qpc[Bouncer] = "idle"

LEMMA InitBouncer == Init => BouncerInTurn
BY DEF Init, SendInit, QueueInit, BouncerInTurn, Procs

(* Steps of the other processes.                                           *)
LEMMA KeptBouncer ==
  ASSUME BouncerInTurn, UNCHANGED <<heard, notes, work>>, qpc'[Bouncer] = qpc[Bouncer],
         \/ send' = send
         \/ send \in {"down", "loop", "clean"} /\ send' \in {"down", "loop", "clean"}
  PROVE  BouncerInTurn'
BY DEF BouncerInTurn

LEMMA ProcsBouncer ==
  ASSUME TypeOK, InjectorInv, BouncerInTurn, NEW p \in Procs,
         Inject(p) \/ InjectFails(p) \/ Envelope(p) \/ Queue(p)
  PROVE  BouncerInTurn'
<1>1. UNCHANGED <<send, work>>
  BY DEF Inject, InjectFails, Envelope, Queue, sendVars
<1>2. qpc \in [Procs -> Live \cup {"idle", "ok", "err"}] /\ Bouncer \in Procs
  BY DEF TypeOK, QueueTypeOK, Procs
<1>3. notes' = notes
  <2>1. notes \in [Ids -> SUBSET Recips]
    BY DEF TypeOK, DirTypeOK
  <2>2. CASE UnlinkPid(p) \/ DieCleaning(p)
    <3>1. PICK ks \in SUBSET {"pid", "mess", "intd"} : Unlink(qid[p], ks)
      BY <2>2 DEF UnlinkPid, DieCleaning, CleanedUp
    <3> QED BY <2>1, <3>1 DEF Unlink
  <2>3. CASE ~(UnlinkPid(p) \/ DieCleaning(p))
    BY <2>3 DEF Inject, InjectFails, Envelope, Queue, PidOpen, LinkMess, WriteBody, OpenIntd,
       WriteEnvelope, LinkTodo, ExitOk, PidOpenFails, DieLeaving, Alarm, Create, dirVars
  <2> QED BY <2>2, <2>3
<1>4. CASE p # Bouncer
  <2>1. qpc'[Bouncer] = qpc[Bouncer] /\ heard' = heard
    BY <1>2, <1>4 DEF Inject, InjectFails, Envelope, Queue, PidOpen, LinkMess, UnlinkPid,
       WriteBody, OpenIntd, WriteEnvelope, LinkTodo, ExitOk, PidOpenFails, DieCleaning,
       DieLeaving, Alarm, Step, Exit, history
  <2> QED BY <1>1, <1>3, <2>1, KeptBouncer
<1>5. CASE p = Bouncer
  <2>1. send = "inject"
    <3>1. Runs(p) \/ qpc[p] # "idle"
      BY DEF Inject, InjectFails, Envelope, Queue, WriteEnvelope, LinkTodo, Step
    <3> QED BY <1>5, <3>1, BouncerAssumption DEF Runs, BouncerInTurn
  <2>2. CASE Queue(p)
    <3>1. heard' = [heard EXCEPT ![work.id] = notes[work.id]]
      BY <1>5, <2>2 DEF Queue
    <3>2. work.id \in Ids
      BY <2>1 DEF InjectorInv, BounceInTurn
    <3>3. heard'[work.id] = notes[work.id]
      BY <3>1, <3>2 DEF TypeOK, HistoryTypeOK
    <3> QED BY <1>1, <1>3, <2>1, <3>3 DEF BouncerInTurn
  <2>3. CASE ExitOk(p)
    <3>1. qpc[p] = "queued" /\ heard' = heard
      BY <2>3 DEF ExitOk, Inject, InjectFails, Envelope, Queue, WriteEnvelope, LinkTodo, Step, history
    <3> QED BY <1>1, <1>3, <1>5, <2>1, <3>1 DEF BouncerInTurn
  <2>4. CASE ~Queue(p) /\ ~ExitOk(p)
    <3>1. qpc'[p] \notin {"queued", "ok"}
      BY <1>2, <1>5, <2>4 DEF Inject, InjectFails, Envelope, PidOpen, LinkMess, UnlinkPid,
         WriteBody, OpenIntd, WriteEnvelope, PidOpenFails, DieCleaning, DieLeaving, Alarm,
         Step, Exit
    <3> QED BY <1>1, <1>5, <2>1, <3>1 DEF BouncerInTurn
  <2> QED BY <2>2, <2>3, <2>4
<1> QED BY <1>4, <1>5

(* Nothing but injectbounce() lets qmail-send wait for the Bouncer.        *)
LEMMA SendAloneBouncer ==
  ASSUME TypeOK, InjectorInv, BouncerInTurn, SendAlone
  PROVE  BouncerInTurn'
<1>1. qpc' = qpc /\ heard' = heard
  BY DEF SendAlone, queueVars, history
<1>2. ASSUME NEW id \in Ids, MessDoneBounces(id) PROVE BouncerInTurn'
  BY <1>1, <1>2 DEF MessDoneBounces, TakeDone, Wait, BouncerInTurn
<1>3. CASE Start
  BY <1>1, <1>3 DEF Start, Resume, BouncerInTurn
<1>4. ASSUME \/ \E id \in Ids : RetryFailed(id) \/ MessDoneReturns(id) \/ Expire(id)
             \/ \E c \in Channels : PassDeliver(c) \/ PassClose(c) \/ SpawnDied(c)
             \/ \E c \in Channels, id \in Ids : PassOpen(c, id)
             \/ \E c \in Channels : \E i \in Slots(c) : CommWrite(c, i)
             \/ Term
      PROVE  BouncerInTurn'
  <2>1. UNCHANGED <<send, work, notes>>
    BY <1>4 DEF RetryFailed, MessDoneReturns, Expire, PassDeliver, PassClose, SpawnDied,
       PassOpen, CommWrite, Term, contents, dirVars
  <2> QED BY <1>1, <2>1, KeptBouncer
<1>5. ASSUME NEW id \in Ids, MessDoneFails(id) PROVE BouncerInTurn'
  BY <1>1, <1>5 DEF MessDoneFails, TakeDone, EndMessFails, Resume, BouncerInTurn
<1>6. ASSUME NEW id \in Ids, PreprocessFails(id) PROVE BouncerInTurn'
  BY <1>1, <1>6 DEF PreprocessFails, Preprocessable, sendVars, BouncerInTurn
<1> QED BY <1>2, <1>3, <1>4, <1>5, <1>6 DEF SendAlone

LEMMA NextBouncer ==
  TypeOK /\ InjectorInv /\ BouncerInTurn /\ [Next]_vars => BouncerInTurn'
<1> SUFFICES ASSUME TypeOK, InjectorInv, BouncerInTurn, [Next]_vars PROVE BouncerInTurn'
  OBVIOUS
<1>1. ASSUME NEW c \in Channels, NEW i \in Slots(c),
             Report(c, i) \/ \E result \in {"K", "Z", "D"} : Delivery(c, i, result)
      PROVE  BouncerInTurn'
  <2>1. CASE Report(c, i)
    BY <2>1 DEF Report, DelReport, queueVars, BouncerInTurn
  <2>2. CASE \E result \in {"K", "Z", "D"} : Delivery(c, i, result)
    BY <2>2, KeptBouncer DEF Delivery, Deliver, dirVars, queueVars
  <2> QED BY <1>1, <2>1, <2>2
<1>2. ASSUME NEW id \in Ids, Ask(id) PROVE BouncerInTurn'
  BY <1>2 DEF Ask, Preprocess, Preprocessable, MessDoneEnds, TakeDone, EndMess, Cleanup, Wait,
     queueVars, BouncerInTurn
<1>3. ASSUME NEW id \in Ids, BounceOver(id) PROVE BouncerInTurn'
  <2>1. send' # "inject"
    BY <1>3 DEF BounceOver, BounceAccepted, EndMess, Wait, BounceAcceptedFails, EndMessFails,
       BounceRefused, Resume
  <2>2. qpc'[Bouncer] = "idle"
    BY <1>3 DEF BounceOver, Reap, TypeOK, QueueTypeOK, Procs
  <2> QED BY <2>1, <2>2 DEF BouncerInTurn
<1>4. CASE Answer
  BY <1>4, KeptBouncer DEF Answer, Preprocessed, Answered, CleanDied, Resume, queueVars, history,
     BouncerInTurn
<1>5. CASE Clean
  <2>1. notes' = notes
    <3>1. CASE UnlinkIntd \/ UnlinkLast \/ DiesUnanswered
      <4>1. PICK k \in {"intd", "mess", "todo"} : Unlink(creq.id, {k})
        BY <3>1 DEF UnlinkIntd, UnlinkLast, DiesUnanswered, First, Last
      <4> QED BY <4>1 DEF Unlink, TypeOK, DirTypeOK
    <3>2. CASE SkipPids \/ CleanPids \/ ReadRequest \/ UnlinkFails \/ CleanDies
      BY <3>2 DEF SkipPids, CleanPids, ReadRequest, UnlinkFails, CleanDies, dirVars
    <3> QED BY <1>5, <3>1, <3>2 DEF Clean, CleanNext
  <2> QED BY <1>5, <2>1, KeptBouncer DEF Clean, queueVars, sendVars
<1>6. CASE Exits
  BY <1>6 DEF Exits, SendExit, Forget, queueVars, BouncerInTurn
<1>7. CASE Crash
  BY <1>7 DEF Crash, Forget, BouncerInTurn, Procs
<1>8. CASE Tick \/ UNCHANGED vars
  BY <1>8, KeptBouncer DEF Tick, vars, dirVars, queueVars, sendVars, history
<1> QED BY <1>1, <1>2, <1>3, <1>4, <1>5, <1>6, <1>7, <1>8, ProcsBouncer, SendAloneBouncer
        DEF Next

LEMMA BouncerCorrect == Spec => []BouncerInTurn
<1> QED BY InitBouncer, NextBouncer, TypeCorrect, InjectorCorrect, PTL DEF Spec

-----------------------------------------------------------------------------
(* Only messdone() and injectbounce() remove bounce/, and info/ of a       *)
(* message without todo/.                                                  *)
LEMMA JobCloseNames ==
  ASSUME NEW j, NEW job \in JobRecords, NEW fl \in [Ids -> SUBSET Kinds],
         NEW un, NEW dn, NEW f, JobClose(j, job, fl, un, dn, f),
         NEW id \in Ids, NEW k \in {"bounce", "info"}, k \in fl[id]
  PROVE  k \in files'[id]
<1>1. job.channel # k
  BY DEF JobRecords, Channels
<1>2. CASE GoesOn(job, fl, un, dn, f)
  BY <1>2 DEF GoesOn
<1>3. CASE ChannelEnds(job, fl, un, dn, f)
  BY <1>1, <1>3 DEF ChannelEnds
<1> QED BY <1>2, <1>3 DEF JobClose

LEMMA NameStays ==
  ASSUME TypeOK, JobsInv, [Next]_vars, NEW id \in Ids, NEW k \in {"bounce", "info"},
         Has(id, k), k = "bounce" \/ ~Has(id, "todo"),
         ~MessDoneEnds(id), ~MessDoneFails(id), ~BounceOver(id)
  PROVE  k \in files'[id]
<1>0. k \in files[id] /\ files \in [Ids -> SUBSET Kinds]
  BY DEF Has, TypeOK, DirTypeOK
<1>1. ASSUME NEW x \in Ids, NEW ks, Unlink(x, ks), k \notin ks \/ x # id
      PROVE  k \in files'[id]
  BY <1>0, <1>1 DEF Unlink
<1>2. ASSUME NEW p \in Procs, Inject(p) \/ InjectFails(p) \/ Envelope(p) \/ Queue(p)
      PROVE  k \in files'[id]
  <2>1. CASE UnlinkPid(p) \/ DieCleaning(p)
    <3>1. PICK ks \in SUBSET {"pid", "mess", "intd"} : Unlink(qid[p], ks)
      BY <2>1 DEF UnlinkPid, DieCleaning, CleanedUp
    <3> QED BY <1>0, <3>1 DEF Unlink
  <2>2. CASE ~(UnlinkPid(p) \/ DieCleaning(p))
    BY <1>0, <1>2, <2>2 DEF Inject, InjectFails, Envelope, Queue, PidOpen, LinkMess, WriteBody,
       OpenIntd, WriteEnvelope, LinkTodo, ExitOk, PidOpenFails, DieLeaving, Alarm, Create, dirVars
  <2> QED BY <2>1, <2>2
<1>3. CASE SendAlone
  <2>1. ASSUME NEW c \in Channels, PassClose(c) PROVE k \in files'[id]
    <3>1. PICK job \in JobRecords, f \in {0, 1} : JobClose(pass[c].j, job, files, undone, done, f)
      <4>1. jo[pass[c].j] \in JobRecords
        BY <2>1 DEF PassClose, TypeOK, SendTypeOK, PassRecords
      <4>2. [jo[pass[c].j] EXCEPT !.hiteof = TRUE] \in JobRecords
        BY <4>1 DEF JobRecords
      <4> QED BY <2>1, <4>1, <4>2 DEF PassClose
    <3> QED BY <1>0, <3>1, JobCloseNames
  <2>2. ASSUME NEW x \in Ids, MessDoneFails(x) PROVE k \in files'[id]
    <3>1. PICK ks : Unlink(x, ks)
      BY <2>2 DEF MessDoneFails, EndMessFails
    <3> QED BY <1>1, <2>2, <3>1
  <2>3. ASSUME NEW x \in Ids, PreprocessFails(x) PROVE k \in files'[id]
    <3>0. k = "bounce" \/ x # id
      BY <2>3 DEF PreprocessFails, Preprocessable
    <3>1. CASE \E gone \in {{}, {"local"}, Channels, Remade} : Unlink(x, gone)
      BY <1>1, <3>0, <3>1 DEF Remade, Channels
    <3>2. CASE \E cs \in SUBSET Channels :
                  files' = [files EXCEPT ![x] = (@ \ Remade) \cup {"info"} \cup cs]
      BY <1>0, <3>2 DEF Remade, Channels
    <3> QED BY <2>3, <3>1, <3>2 DEF PreprocessFails
  <2>4. CASE \/ Start \/ Term
             \/ \E x \in Ids : RetryFailed(x) \/ MessDoneReturns(x) \/ MessDoneBounces(x) \/ Expire(x)
             \/ \E c \in Channels : PassDeliver(c) \/ SpawnDied(c)
             \/ \E c \in Channels, x \in Ids : PassOpen(c, x)
             \/ \E c \in Channels : \E i \in Slots(c) : CommWrite(c, i)
    BY <1>0, <2>4 DEF Start, Term, RetryFailed, MessDoneReturns, MessDoneBounces, Expire,
       PassDeliver, SpawnDied, PassOpen, CommWrite, dirVars
  <2> QED BY <1>3, <2>1, <2>2, <2>3, <2>4 DEF SendAlone
<1>4. ASSUME NEW c \in Channels, NEW i \in Slots(c), Report(c, i) PROVE k \in files'[id]
  <2>1. PICK job \in JobRecords, f \in Nat : \E fl, un, dn : Reported(c, i, job, fl, un, dn, f)
    BY <1>4, ReportCase DEF Report
  <2>2. PICK fl, un, dn : Reported(c, i, job, fl, un, dn, f)
    BY <2>1
  <2>3. JobClose(del[c][i].j, job, fl, un, dn, f)
    BY <2>2 DEF Reported
  <2>4. fl \in [Ids -> SUBSET Kinds] /\ k \in fl[id]
    BY <1>0, <2>2 DEF Reported, Kinds
  <2> QED BY <2>3, <2>4, JobCloseNames
<1>5. ASSUME NEW x \in Ids, Ask(x) PROVE k \in files'[id]
  <2>1. CASE Preprocess(x)
    BY <1>0, <2>1 DEF Preprocess, Remade, Channels
  <2>2. CASE MessDoneEnds(x)
    BY <1>1, <2>2 DEF MessDoneEnds, EndMess
  <2>3. CASE Cleanup(x)
    BY <1>0, <2>3 DEF Cleanup, dirVars
  <2> QED BY <1>5, <2>1, <2>2, <2>3 DEF Ask
<1>6. ASSUME NEW x \in Ids, BounceOver(x) PROVE k \in files'[id]
  <2>1. x # id
    BY <1>6
  <2>2. CASE BounceAccepted(x) \/ BounceAcceptedFails(x)
    BY <1>1, <2>1, <2>2 DEF BounceAccepted, BounceAcceptedFails, EndMess, EndMessFails
  <2>3. CASE BounceRefused(x)
    BY <1>0, <2>3 DEF BounceRefused, dirVars
  <2> QED BY <1>6, <2>2, <2>3 DEF BounceOver
<1>7. CASE Clean
  <2>1. CASE CleanPids
    BY <1>0, <2>1 DEF CleanPids
  <2>2. CASE UnlinkIntd \/ UnlinkLast \/ DiesUnanswered
    <3>1. PICK z \in {"intd", "mess", "todo"} : Unlink(creq.id, {z})
      BY <2>2 DEF UnlinkIntd, UnlinkLast, DiesUnanswered, First, Last
    <3> QED BY <1>0, <3>1 DEF Unlink
  <2>3. CASE SkipPids \/ ReadRequest \/ UnlinkFails \/ CleanDies
    BY <1>0, <2>3 DEF SkipPids, ReadRequest, UnlinkFails, CleanDies, dirVars
  <2> QED BY <1>7, <2>1, <2>2, <2>3 DEF Clean, CleanNext
<1>8. CASE \/ Answer \/ Exits \/ Crash \/ Tick \/ UNCHANGED vars
           \/ \E c \in Channels : \E i \in Slots(c) : \E result \in {"K", "Z", "D"} :
                 Delivery(c, i, result)
  BY <1>0, <1>8 DEF Answer, Preprocessed, Answered, CleanDied, Exits, SendExit, Crash, Tick,
     Delivery, Deliver, vars, dirVars
<1> QED BY <1>2, <1>3, <1>4, <1>5, <1>6, <1>7, <1>8 DEF Next

(* A bounce file is removed only for a triple bounce, or when qmail-queue  *)
(* has taken a bounce with every line of it: for any crash, failing call   *)
(* or death of qmail-queue on the way, no failure goes unreported.         *)
THEOREM BouncesHeard == Spec => BounceHeard
<1>1. TypeOK /\ JobsInv /\ InjectorInv /\ BouncerInTurn /\ [Next]_vars =>
         [\A id \in Ids : Has(id, "bounce") /\ "bounce" \notin files'[id] =>
             Triple(id) \/ notes[id] \subseteq heard[id]]_vars
  <2> SUFFICES ASSUME TypeOK, JobsInv, BouncerInTurn, [Next]_vars,
                      NEW id \in Ids, Has(id, "bounce"), "bounce" \notin files'[id]
               PROVE  Triple(id) \/ notes[id] \subseteq heard[id]
    OBVIOUS
  <2>1. MessDoneEnds(id) \/ MessDoneFails(id) \/ BounceOver(id)
    BY NameStays DEF Has
  <2>2. CASE MessDoneEnds(id) \/ MessDoneFails(id)
    BY <2>2 DEF MessDoneEnds, MessDoneFails
  <2>3. CASE BounceOver(id)
    <3>1. send = "inject" /\ work.id = id
      BY <2>3 DEF BounceOver, BounceAccepted, BounceAcceptedFails, BounceRefused
    <3>2. qpc[Bouncer] = "ok"
      <4>1. CASE BounceRefused(id)
        BY <4>1 DEF BounceRefused, dirVars, Has
      <4> QED BY <2>3, <4>1 DEF BounceOver
    <3> QED BY <3>1, <3>2 DEF BouncerInTurn
  <2> QED BY <2>1, <2>2, <2>3
<1> QED BY <1>1, TypeCorrect, JobTableCorrect, InjectorCorrect, BouncerCorrect, PTL
        DEF Spec, BounceHeard
=============================================================================
