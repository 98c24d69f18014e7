---------------------------- MODULE ServiceProofs ----------------------------
(***************************************************************************)
(* More proofs about the queue (Qmail): no recipient is lost; none gets more *)
(* copies than there are reasons for; and the queue implements MailService. *)
(***************************************************************************)
EXTENDS QmailProofs

-----------------------------------------------------------------------------
(***************************************************************************)
(* No recipient is lost.  The T record of a recipient goes away in three   *)
(* ways: todo_do() makes the channel files anew, markdone() marks it, and  *)
(* job_close() removes the whole file.  job_close() looks at no record; it *)
(* goes by two things del_start(), del_dochan() and pass_dochan() keep in  *)
(* the job: that the file has been read to its end, and numtodo.  So what  *)
(* has to be shown is that numtodo is more than the deliveries under way   *)
(* as long as a record that was read still needs another delivery.         *)
(* The second half counts the copies of each recipient.                    *)
(***************************************************************************)


(* Every recipient in the envelope of a preprocessed message has been      *)
(* served or has a T record.                                               *)
Accounted(id) ==
    Settled(id) => \A r \in rcpts[id] :
        Served(id, r) \/ \E c \in Channels : r \in undone[id][c]

(* Records are in files.                                                   *)
Filed(id) ==
    \A c \in Channels : c \notin files[id] => undone[id][c] = {} /\ done[id][c] = {}

(* A success that waits to be reported is a success.                       *)
SuccessTrue ==
    \A c \in Channels : \A i \in Slots(c) : del[c][i].st = "K" =>
        copies[jo[del[c][i].j].id][del[c][i].recip] > 0

(* The pass has read the record of r; a delivery of job j for r is under   *)
(* way; the delivery of job j for r was put off.                           *)
Reached(j, r) ==
    jo[j].hiteof \/ (pass[jo[j].channel].j = j /\ r \notin pass[jo[j].channel].left)

Tried(j, r) == \E c \in Channels : \E i \in Slots(c) : del[c][i].j = j /\ del[c][i].recip = r

PutOff(j, r) ==
    /\ r \in undone[jo[j].id][jo[j].channel]
    /\ Reached(j, r) /\ ~Tried(j, r) /\ ~Served(jo[j].id, r)

Counted ==
    \A j \in Jobs, r \in Recips :
        Open(j) /\ PutOff(j, r) => jo[j].numtodo > Cardinality(SlotsOf(j))

RecipInv == (\A id \in Ids : Accounted(id) /\ Filed(id)) /\ SuccessTrue /\ Counted

-----------------------------------------------------------------------------
(* What a settled message has: its files, and nobody who starts it.        *)
LEMMA SettledHas ==
  ASSUME TypeOK, InjectorInv, StatesInv, NEW id \in Ids, Settled(id)
  PROVE  "mess" \in files[id] /\ "info" \in files[id]
<1>1. CASE S5(id)
  BY <1>1 DEF S5, Has
<1>2. CASE TodoAsked(id)
  <2>1. cpc # "dead" /\ creq # NoRequest /\ creq.id = id /\ creq.op = "todo"
    BY <1>2 DEF TodoAsked, Request, NoRequest
  <2> QED BY <2>1 DEF StatesInv, RequestWhole, InjectorInv, RequestSafe
<1> QED BY <1>1, <1>2 DEF Settled

LEMMA InitRecips == Init => RecipInv
<1> SUFFICES ASSUME Init PROVE RecipInv
  OBVIOUS
<1>1. ASSUME NEW id \in Ids PROVE Accounted(id) /\ Filed(id)
  <2>1. ~Settled(id)
    BY DEF Init, DirInit, CleanInit, Settled, S5, Has, TodoAsked, Request, NoRequest
  <2>2. \A c \in Channels : undone[id][c] = {} /\ done[id][c] = {}
    BY DEF Init, DirInit, NoRecords
  <2> QED BY <2>1, <2>2 DEF Accounted, Filed
<1>2. SuccessTrue
  BY DEF Init, SendInit, SuccessTrue, NoDel
<1>3. Counted
  BY DEF Init, SendInit, Counted, Open, NoJob
<1> QED BY <1>1, <1>2, <1>3 DEF RecipInv

(* Steps that leave the records and the tables of qmail-send alone.        *)
HistoryKept(id) ==
    /\ rcpts'[id] \subseteq rcpts[id]
    /\ copies'[id] = copies[id] /\ noted'[id] = noted[id]

LEMMA KeptRecips ==
  ASSUME Known, RecipInv, StatesInv', UNCHANGED <<undone, done, jo, pass, del>>,
         \A id \in Ids : \A c \in Channels : c \in files[id] => c \in files'[id],
         \A id \in Ids : Settled(id)' => Settled(id) /\ HistoryKept(id)
  PROVE  RecipInv'
<1>1. ASSUME NEW id \in Ids PROVE Accounted(id)'
  BY DEF RecipInv, Accounted, HistoryKept, Served
<1>2. ASSUME NEW id \in Ids PROVE Filed(id)'
  BY DEF RecipInv, Filed
<1>3. ASSUME NEW j \in Jobs, Open(j)
      PROVE  jo[j].id \in Ids /\ HistoryKept(jo[j].id)
  <2>1. Open(j)'
    BY <1>3 DEF Open
  <2>2. jo[j].id \in Ids /\ S5(jo[j].id)'
    BY <2>1 DEF StatesInv, OneClaim, S5, Has
  <2>3. PICK id : id = jo[j].id
    OBVIOUS
  <2>4. Settled(id)'
    BY <2>2, <2>3 DEF Settled, S5, Has
  <2> QED BY <2>2, <2>3, <2>4
<1>4. SuccessTrue'
  <2> SUFFICES ASSUME NEW c \in Channels, NEW i \in Slots(c), del[c][i].st = "K"
               PROVE  copies'[jo[del[c][i].j].id][del[c][i].recip] > 0
    BY DEF SuccessTrue
  <2>1. del[c][i] # NoDel
    BY DEF NoDel
  <2>2. del[c][i].j \in Jobs /\ Open(del[c][i].j)
    BY <2>1, Refers DEF Known, Open
  <2> QED BY <1>3, <2>2 DEF RecipInv, SuccessTrue, HistoryKept
<1>5. Counted'
  <2> SUFFICES ASSUME NEW j \in Jobs, NEW r \in Recips, Open(j), PutOff(j, r)'
               PROVE  jo[j].numtodo > Cardinality(SlotsOf(j))
    BY DEF Counted, Open, SlotsOf
  <2>1. Served(jo[j].id, r)' <=> Served(jo[j].id, r)
    BY <1>3 DEF Served, HistoryKept
  <2>2. PutOff(j, r)
    BY <2>1 DEF PutOff, Reached, Tried
  <2> QED BY <2>2 DEF RecipInv, Counted
<1> QED BY <1>1, <1>2, <1>4, <1>5 DEF RecipInv

(* A message becomes a settled one only by preprocessing.                  *)
LEMMA KeptSettled ==
  ASSUME StatesInv, NEW id \in Ids,
         "info" \in files'[id] => "info" \in files[id],
         "todo" \in files[id] => "todo" \in files'[id] \/ TodoAsked(id),
         TodoAsked(id)' => TodoAsked(id)
  PROVE  Settled(id)' => Settled(id)
<1>1. CASE S5(id)'
  <2>1. TodoAsked(id) \/ Addable(id)
    BY <1>1 DEF S5, Has, Addable
  <2> QED BY <2>1, AddableStates DEF Settled
<1>2. CASE TodoAsked(id)'
  BY <1>2 DEF Settled
<1> QED BY <1>1, <1>2 DEF Settled

(* unlink() of anything but channel files.                                 *)
LEMMA UnlinkRecords ==
  ASSUME TypeOK, NEW id, NEW ks, ks \cap Channels = {}, Unlink(id, ks)
  PROVE  /\ undone' = undone /\ done' = done
         /\ \A x \in Ids : /\ rcpts'[x] \subseteq rcpts[x]
                           /\ files'[x] \subseteq files[x]
                           /\ \A k : k \in files[x] /\ k \notin ks => k \in files'[x]
                           /\ x # id => files'[x] = files[x]
                           /\ \A c \in Channels : c \in files[x] => c \in files'[x]
<1>1. /\ undone \in [Ids -> [Channels -> SUBSET Recips]]
      /\ done \in [Ids -> [Channels -> SUBSET Recips]]
      /\ rcpts \in [Ids -> SUBSET Recips] /\ files \in [Ids -> SUBSET Kinds]
  BY DEF TypeOK, DirTypeOK
<1>2. \A x \in Ids : Without(undone[x], ks) = undone[x] /\ Without(done[x], ks) = done[x]
  BY <1>1 DEF Without
<1>3. undone' = undone /\ done' = done
  BY <1>1, <1>2 DEF Unlink
<1> QED BY <1>1, <1>3 DEF Unlink

(* qmail-queue changes the envelope of a message it has not queued yet.    *)
LEMMA InjectRecips ==
  ASSUME Known, RecipInv, StatesInv', NEW p \in Procs,
         Inject(p) \/ InjectFails(p) \/ Envelope(p) \/ Queue(p)
  PROVE  RecipInv'
<1> USE DEF Known
<1>1. /\ UNCHANGED <<jo, pass, del, copies, noted, cpc, creq>>
      /\ files \in [Ids -> SUBSET Kinds] /\ rcpts \in [Ids -> SUBSET Recips]
  BY DEF Inject, InjectFails, Envelope, Queue, sendVars, cleanVars, history, TypeOK, DirTypeOK
<1>2. /\ undone' = undone /\ done' = done
      /\ \A x \in Ids :
            /\ \A k \in {"todo", "local", "remote"} : k \in files[x] => k \in files'[x]
            /\ "info" \in files'[x] => "info" \in files[x]
            /\ rcpts'[x] \subseteq rcpts[x] \/ (qpc[p] \in Entering /\ qid[p] = x)
  <2>1. CASE PidOpen(p) \/ LinkMess(p) \/ OpenIntd(p) \/ LinkTodo(p)
    BY <1>1, <2>1 DEF PidOpen, LinkMess, OpenIntd, LinkTodo, Create
  <2>2. CASE UnlinkPid(p) \/ DieCleaning(p)
    <3>1. PICK ks \in SUBSET {"pid", "mess", "intd"} : Unlink(qid[p], ks)
      BY <2>2 DEF UnlinkPid, DieCleaning, CleanedUp
    <3> QED BY <3>1, UnlinkRecords DEF Channels
  <2>3. CASE ExitOk(p) \/ PidOpenFails(p) \/ DieLeaving(p) \/ Alarm(p) \/ WriteBody(p)
    BY <2>3 DEF ExitOk, PidOpenFails, DieLeaving, Alarm, WriteBody, dirVars
  <2>4. CASE \E s, rs : WriteEnvelope(p, s, rs)
    BY <1>1, <2>4 DEF WriteEnvelope, Step, Entering
  <2> QED BY <2>1, <2>2, <2>3, <2>4 DEF Inject, InjectFails, Envelope, Queue
<1>3. ASSUME NEW x \in Ids, Settled(x)' PROVE Settled(x) /\ HistoryKept(x)
  <2>1. Settled(x)
    BY <1>1, <1>2, <1>3, KeptSettled DEF TodoAsked
  <2>2. "info" \in files[x]
    BY <2>1, SettledHas
  <2>3. ~(qpc[p] \in Entering /\ qid[p] = x)
    BY <2>2 DEF InjectorInv, Hidden
  <2> QED BY <1>1, <1>2, <2>1, <2>3 DEF HistoryKept
<1> QED BY <1>1, <1>2, <1>3, KeptRecips DEF Channels

(* qmail-clean removes todo/ of a message that is settled.                 *)
LEMMA CleanRecips ==
  ASSUME Known, RecipInv, TypeOK', InjectorInv', StatesInv', Clean
  PROVE  RecipInv'
<1> USE DEF Known
<1>1. UNCHANGED <<jo, pass, del>> /\ files \in [Ids -> SUBSET Kinds]
  BY DEF Clean, sendVars, TypeOK, DirTypeOK
<1>2. /\ undone' = undone /\ done' = done
      /\ \A x \in Ids :
            /\ rcpts'[x] \subseteq rcpts[x]
            /\ \A c \in Channels : c \in files[x] => c \in files'[x]
            /\ "info" \in files'[x] => "info" \in files[x]
            /\ "todo" \in files[x] => "todo" \in files'[x] \/ TodoAsked(x)
            /\ TodoAsked(x)' => TodoAsked(x)
  <2>1. CASE UnlinkIntd \/ UnlinkLast \/ DiesUnanswered
    <3>1. PICK k \in {"intd", "mess", "todo"} :
             Unlink(creq.id, {k}) /\ (k = "todo" => creq.op # "foop" \/ UnlinkIntd)
      BY <2>1 DEF UnlinkIntd, UnlinkLast, DiesUnanswered, First, Last
    <3>2. /\ creq \in Requests /\ cpc # "dead"
          /\ creq.op = "foop" => "todo" \notin files[creq.id]
      BY <2>1 DEF UnlinkIntd, UnlinkLast, DiesUnanswered, InjectorInv, OneRequest, RequestSafe,
         TypeOK, CleanTypeOK
    <3>3. ASSUME NEW x \in Ids, "todo" \in files[x]
          PROVE  "todo" \in files'[x] \/ TodoAsked(x)
      <4>1. CASE x # creq.id
        BY <3>1, <3>3, <4>1, UnlinkRecords DEF Channels
      <4>2. CASE x = creq.id
        <5>1. creq = Request("todo", x)
          BY <3>2, <3>3, <4>2 DEF Requests, Request
        <5> QED BY <3>2, <5>1 DEF TodoAsked
      <4> QED BY <4>1, <4>2
    <3>4. \A x \in Ids : TodoAsked(x)' => TodoAsked(x)
      BY <2>1 DEF UnlinkIntd, UnlinkLast, DiesUnanswered, Respond, TodoAsked, Request, NoRequest
    <3>5. {k} \cap Channels = {}
      BY DEF Channels
    <3> QED BY <3>1, <3>3, <3>4, <3>5, UnlinkRecords
  <2>2. CASE SkipPids \/ CleanPids \/ ReadRequest \/ UnlinkFails \/ CleanDies
    <3>1. UNCHANGED <<undone, done, rcpts>>
      BY <2>2 DEF SkipPids, CleanPids, ReadRequest, UnlinkFails, CleanDies, dirVars
    <3>2. \A x \in Ids : files'[x] = files[x] \/ files'[x] = files[x] \ {"pid"}
      <4>1. CASE CleanPids
        <5>1. files' = [id \in Ids |-> IF id \in StalePids THEN files[id] \ {"pid"} ELSE files[id]]
          BY <4>1 DEF CleanPids
        <5> QED BY <5>1
      <4> QED BY <2>2, <4>1 DEF SkipPids, ReadRequest, UnlinkFails, CleanDies, dirVars
    <3>3. \A x \in Ids : TodoAsked(x)' => TodoAsked(x)
      BY <2>2 DEF SkipPids, CleanPids, ReadRequest, UnlinkFails, CleanDies, Respond, TodoAsked,
         Request, NoRequest
    <3> QED BY <3>1, <3>2, <3>3 DEF Channels
  <2> QED BY <2>1, <2>2 DEF Clean, CleanNext
<1>3. ASSUME NEW x \in Ids, Settled(x)' PROVE Settled(x) /\ HistoryKept(x)
  <2>1. Settled(x)
    BY <1>2, <1>3, KeptSettled
  <2>2. "mess" \in files'[x]
    <3>1. CASE S5(x)'
      BY <3>1 DEF S5, Has
    <3>2. CASE TodoAsked(x)'
      <4>1. (cpc # "dead" /\ creq # NoRequest /\ creq.id = x)'
        BY <3>2 DEF TodoAsked, Request, NoRequest
      <4> QED BY <4>1 DEF InjectorInv, RequestSafe
    <3> QED BY <1>3, <3>1, <3>2 DEF Settled
  <2>3. copies'[x] = copies[x] /\ noted'[x] = noted[x]
    BY <2>2 DEF Clean
  <2> QED BY <1>2, <2>1, <2>3 DEF HistoryKept
<1> QED BY <1>1, <1>2, <1>3, KeptRecips

(* Handlers of qmail-send that work on no record, the answers of           *)
(* qmail-clean, and the clock.                                             *)
LEMMA StillRecips ==
  ASSUME Known, RecipInv, StatesInv',
         \/ /\ \/ Start \/ Term
               \/ \E id \in Ids : MessDoneReturns(id) \/ MessDoneBounces(id) \/ Expire(id)
               \/ \E c \in Channels : SpawnDied(c)
            /\ UNCHANGED <<queueVars, cleanVars, history>>
         \/ Answer \/ Tick \/ UNCHANGED vars
  PROVE  RecipInv'
<1>1. /\ UNCHANGED <<undone, done, rcpts, copies, noted, jo, pass, del, files>>
      /\ creq' = creq /\ cpc' = cpc
  BY DEF Start, Term, MessDoneReturns, MessDoneBounces, Expire, SpawnDied, Answer, Preprocessed,
     Answered, CleanDied, TakeReply, Tick, vars, cleanVars, sendVars, history, tables, dirVars,
     contents
<1>2. ASSUME NEW x \in Ids, Settled(x)' PROVE Settled(x) /\ HistoryKept(x)
  BY <1>1, <1>2 DEF Settled, S5, Has, TodoAsked, HistoryKept
<1> QED BY <1>1, <1>2, KeptRecips

(* The end of a message.                                                   *)
LEMMA EndRecips ==
  ASSUME Known, RecipInv, StatesInv', NEW id \in Ids,
         \/ MessDoneFails(id) /\ UNCHANGED <<queueVars, cleanVars, history>>
         \/ MessDoneEnds(id) /\ PutRequest("foop", id) /\ UNCHANGED <<queueVars, history>>
         \/ Cleanup(id) /\ PutRequest("foop", id) /\ UNCHANGED <<queueVars, history>>
         \/ BounceOver(id)
  PROVE  RecipInv'
<1> USE DEF Known
<1>1. UNCHANGED <<jo, pass, del, copies, noted>>
  BY DEF MessDoneFails, EndMessFails, MessDoneEnds, EndMess, Cleanup, BounceOver, BounceAccepted,
     BounceAcceptedFails, BounceRefused, tables, history
<1>2. /\ undone' = undone /\ done' = done
      /\ \A x \in Ids : /\ rcpts'[x] \subseteq rcpts[x]
                        /\ files'[x] \subseteq files[x]
                        /\ "todo" \in files[x] => "todo" \in files'[x]
                        /\ \A c \in Channels : c \in files[x] => c \in files'[x]
  <2>1. CASE EndMess(id) \/ \E pq : EndMessFails(id, pq)
    <3>1. PICK ks \in {{}, {"bounce"}, {"bounce", "info"}} : Unlink(id, ks)
      BY <2>1 DEF EndMess, EndMessFails
    <3> QED BY <3>1, UnlinkRecords DEF Channels
  <2>2. CASE Cleanup(id) \/ BounceRefused(id)
    BY <2>2 DEF Cleanup, BounceRefused, dirVars
  <2> QED BY <2>1, <2>2 DEF MessDoneFails, MessDoneEnds, BounceOver, BounceAccepted,
          BounceAcceptedFails
<1>3. ASSUME NEW x \in Ids PROVE TodoAsked(x)' => TodoAsked(x)
  BY DEF MessDoneFails, BounceOver, PutRequest, TodoAsked, Request, cleanVars
<1>4. ASSUME NEW x \in Ids, Settled(x)' PROVE Settled(x) /\ HistoryKept(x)
  BY <1>1, <1>2, <1>3, <1>4, KeptSettled DEF HistoryKept
<1> QED BY <1>1, <1>2, <1>4, KeptRecips

(* Steps that leave nothing in the tables of qmail-send.                   *)
LEMMA EmptyRecips ==
  ASSUME Forget, \A id \in Ids : Accounted(id)' /\ Filed(id)'
  PROVE  RecipInv'
<1>1. SuccessTrue'
  BY DEF Forget, SuccessTrue, NoDel
<1>2. Counted'
  BY DEF Forget, Counted, Open, NoJob
<1> QED BY <1>1, <1>2 DEF RecipInv

LEMMA StopRecips ==
  ASSUME Known, RecipInv, Exits \/ Crash
  PROVE  RecipInv'
<1>1. /\ Forget /\ files' = files /\ rcpts' = rcpts /\ copies' = copies /\ noted' = noted
      /\ creq' = NoRequest
  BY DEF Exits, SendExit, Crash, CleanRestarts, history, dirVars
<1>2. \A id \in Ids : \A c \in Channels : /\ undone[id][c] \subseteq undone'[id][c]
                                          /\ done'[id][c] \subseteq done[id][c]
                                          /\ undone'[id][c] \subseteq undone[id][c] \cup done[id][c]
  <2>1. CASE Exits
    BY <2>1 DEF Exits, SendExit, dirVars
  <2>2. CASE Crash
    <3>1. PICK lost \in SUBSET Marks :
            /\ undone' = [id \in Ids |-> [c \in Channels |->
                            undone[id][c] \cup {r \in Recips : <<id, c, r>> \in lost}]]
            /\ done' = [id \in Ids |-> [c \in Channels |->
                            done[id][c] \ {r \in Recips : <<id, c, r>> \in lost}]]
      BY <2>2 DEF Crash
    <3> QED BY <3>1 DEF Marks
  <2> QED BY <2>1, <2>2
<1>3. ASSUME NEW id \in Ids PROVE Accounted(id)' /\ Filed(id)'
  <2>1. Settled(id)' => Settled(id)
    BY <1>1 DEF Settled, S5, Has, TodoAsked, Request, NoRequest
  <2>2. Accounted(id)'
    BY <1>1, <1>2, <2>1 DEF RecipInv, Accounted, Served
  <2>3. Filed(id)'
    BY <1>1, <1>2 DEF RecipInv, Filed
  <2> QED BY <2>2, <2>3
<1> QED BY <1>1, <1>3, EmptyRecips

(* Steps that change the records of one message that nobody works on.      *)
LEMMA IdleRecips ==
  ASSUME Known, RecipInv, StatesInv', NEW id \in Ids, "todo" \in files[id],
         UNCHANGED <<jo, pass, del, copies, noted>>,
         \A x \in Ids : x # id =>
            /\ files'[x] = files[x] /\ rcpts'[x] = rcpts[x]
            /\ undone'[x] = undone[x] /\ done'[x] = done[x]
            /\ TodoAsked(x)' => TodoAsked(x),
         Accounted(id)', Filed(id)'
  PROVE  RecipInv'
<1>1. ASSUME NEW x \in Ids, x # id PROVE Accounted(x)' /\ Filed(x)'
  <2>1. Settled(x)' => Settled(x)
    BY <1>1 DEF Settled, S5, Has
  <2> QED BY <1>1, <2>1 DEF RecipInv, Accounted, Filed, Served
<1>2. ASSUME NEW j \in Jobs, Open(j)
      PROVE  jo[j].id \in Ids /\ jo[j].id # id
  <2>1. ~S5(id)
    BY DEF S5, Has
  <2>2. jo[j].id # id
    BY <1>2, <2>1, Unclaimed DEF Known
  <2> QED BY <1>2, <2>2 DEF Known, StatesInv, OneClaim
<1>3. SuccessTrue'
  BY DEF RecipInv, SuccessTrue
<1>4. Counted'
  <2> SUFFICES ASSUME NEW j \in Jobs, NEW r \in Recips, Open(j), PutOff(j, r)'
               PROVE  jo[j].numtodo > Cardinality(SlotsOf(j))
    BY DEF Counted, Open, SlotsOf
  <2>1. PutOff(j, r)
    BY <1>2 DEF PutOff, Reached, Tried, Served
  <2> QED BY <2>1 DEF RecipInv, Counted
<1> QED BY <1>1, <1>3, <1>4 DEF RecipInv

(* todo_do() makes the channel files anew, one record for each recipient.  *)
LEMMA PreprocessRecips ==
  ASSUME Known, RecipInv, StatesInv', NEW id \in Ids,
         Preprocess(id), PutRequest("todo", id), UNCHANGED <<queueVars, history>>
  PROVE  RecipInv'
<1>1. /\ files \in [Ids -> SUBSET Kinds] /\ undone \in [Ids -> [Channels -> SUBSET Recips]]
      /\ done \in [Ids -> [Channels -> SUBSET Recips]] /\ "todo" \in files[id]
      /\ UNCHANGED <<jo, pass, del, copies, noted, rcpts>>
  BY DEF Known, TypeOK, DirTypeOK, Preprocess, Preprocessable, Has, tables, history
<1>2. PICK route \in [rcpts[id] -> Channels] :
         /\ files' = [files EXCEPT ![id] =
                        (@ \ Remade) \cup ({"info"} \cup {route[r] : r \in rcpts[id]})]
         /\ undone' = [undone EXCEPT ![id] =
                        [c \in Channels |-> {r \in rcpts[id] : route[r] = c}]]
         /\ done' = [done EXCEPT ![id] = NoRecords]
  BY DEF Preprocess
<1>3. /\ \A c \in Channels : undone'[id][c] = {r \in rcpts[id] : route[r] = c}
      /\ \A c \in Channels : done'[id][c] = {}
      /\ files'[id] = (files[id] \ Remade) \cup ({"info"} \cup {route[r] : r \in rcpts[id]})
  BY <1>1, <1>2 DEF NoRecords
<1>4. Accounted(id)'
  <2> SUFFICES ASSUME NEW r \in rcpts[id] PROVE \E c \in Channels : r \in undone'[id][c]
    BY <1>1 DEF Accounted
  <2>1. route[r] \in Channels /\ r \in undone'[id][route[r]]
    BY <1>3
  <2> QED BY <2>1
<1>5. Filed(id)'
  <2> SUFFICES ASSUME NEW c \in Channels, c \notin files'[id]
               PROVE  undone'[id][c] = {} /\ done'[id][c] = {}
    BY DEF Filed
  <2>1. \A r \in rcpts[id] : route[r] # c
    BY <1>3
  <2> QED BY <1>3, <2>1
<1>6. ASSUME NEW x \in Ids, x # id
      PROVE  /\ files'[x] = files[x] /\ rcpts'[x] = rcpts[x]
             /\ undone'[x] = undone[x] /\ done'[x] = done[x]
             /\ ~TodoAsked(x)'
  BY <1>1, <1>2, <1>6 DEF PutRequest, TodoAsked, Request
<1> QED BY <1>1, <1>4, <1>5, <1>6, IdleRecips

LEMMA PreprocessFailsRecips ==
  ASSUME Known, RecipInv, StatesInv', NEW id \in Ids, PreprocessFails(id),
         UNCHANGED <<queueVars, cleanVars, history>>
  PROVE  RecipInv'
<1>1. /\ files \in [Ids -> SUBSET Kinds] /\ undone \in [Ids -> [Channels -> SUBSET Recips]]
      /\ done \in [Ids -> [Channels -> SUBSET Recips]] /\ rcpts \in [Ids -> SUBSET Recips]
      /\ "todo" \in files[id] /\ send = "loop"
      /\ UNCHANGED <<jo, pass, del, copies, noted, cpc, creq>>
  BY DEF Known, TypeOK, DirTypeOK, PreprocessFails, Preprocessable, Has, sendVars, history,
     cleanVars
<1>2. \A x \in Ids : ~TodoAsked(x)'
  BY <1>1, NotAsked DEF Known, TodoAsked, Request, NoRequest
<1>3. /\ \A x \in Ids : x # id =>
            /\ files'[x] = files[x] /\ rcpts'[x] = rcpts[x]
            /\ undone'[x] = undone[x] /\ done'[x] = done[x]
      /\ "todo" \in files'[id] /\ Filed(id)'
  <2>1. CASE \E gone \in {{}, {"local"}, Channels, Remade} : Unlink(id, gone)
    <3>1. PICK gone \in {{}, {"local"}, Channels, Remade} : Unlink(id, gone)
      BY <2>1
    <3>2. \A c \in Channels : /\ undone'[id][c] = IF c \in gone THEN {} ELSE undone[id][c]
                              /\ done'[id][c] = IF c \in gone THEN {} ELSE done[id][c]
      BY <1>1, <3>1 DEF Unlink, Without
    <3>3. files'[id] = files[id] \ gone /\ "todo" \notin gone
      BY <1>1, <3>1 DEF Unlink, Channels, Remade
    <3>4. Filed(id)'
      BY <3>2, <3>3 DEF RecipInv, Filed
    <3> QED BY <1>1, <3>1, <3>3, <3>4 DEF Unlink
  <2>2. CASE \E cs \in SUBSET Channels :
                /\ files' = [files EXCEPT ![id] = (@ \ Remade) \cup {"info"} \cup cs]
                /\ undone' = [undone EXCEPT ![id] = NoRecords]
                /\ done' = [done EXCEPT ![id] = NoRecords]
                /\ rcpts' = rcpts
    <3>1. Filed(id)'
      BY <1>1, <2>2 DEF Filed, NoRecords
    <3> QED BY <1>1, <2>2, <3>1 DEF Remade, Channels
  <2> QED BY <2>1, <2>2 DEF PreprocessFails
<1>4. Accounted(id)'
  BY <1>2, <1>3 DEF Accounted, Settled, S5, Has
<1> QED BY <1>1, <1>2, <1>3, <1>4, IdleRecips

-----------------------------------------------------------------------------
(* One copy more.                                                          *)
LEMMA MoreCopies ==
  ASSUME NEW before \in [Ids -> [Recips -> Nat]], NEW after, NEW id \in Ids, NEW r \in Recips,
         after = [before EXCEPT ![id][r] = @ + 1], NEW x \in Ids, NEW q \in Recips
  PROVE  /\ before[x][q] \in Nat /\ after[x][q] \in Nat
         /\ after[x][q] = IF x = id /\ q = r THEN before[x][q] + 1 ELSE before[x][q]
<1>1. before[x] \in [Recips -> Nat] /\ before[id] \in [Recips -> Nat]
  OBVIOUS
<1>2. after[x] = IF x = id THEN [before[x] EXCEPT ![r] = before[x][r] + 1] ELSE before[x]
  OBVIOUS
<1>3. after[x][q] = IF x = id /\ q = r THEN before[x][q] + 1 ELSE before[x][q]
  BY <1>1, <1>2
<1>4. before[x][q] \in Nat
  BY <1>1
<1> QED BY <1>3, <1>4

(* Who has been served stays so.                                           *)
MoreServed ==
    \A x \in Ids, q \in Recips : /\ copies[x][q] \in Nat /\ copies'[x][q] \in Nat
                                 /\ copies'[x][q] >= copies[x][q]
                                 /\ q \in noted[x] => q \in noted'[x]

LEMMA ServedStays ==
  ASSUME MoreServed, NEW x \in Ids, NEW q \in Recips, Served(x, q)
  PROVE  Served(x, q)'
<1>1. copies[x][q] \in Nat /\ copies'[x][q] \in Nat /\ copies'[x][q] >= copies[x][q]
  BY DEF MoreServed
<1>2. CASE copies[x][q] > 0
  <2>1. copies'[x][q] > 0
    BY <1>1, <1>2
  <2> QED BY <2>1 DEF Served
<1>3. CASE q \in noted[x]
  BY <1>3 DEF Served, MoreServed
<1> QED BY <1>2, <1>3 DEF Served

(* A slot in use names a message and a recipient.                          *)
LEMMA SlotNames ==
  ASSUME Known, NEW c \in Channels, NEW i \in Slots(c), del[c][i] # NoDel
  PROVE  /\ del[c][i].j \in Jobs /\ Open(del[c][i].j)
         /\ jo[del[c][i].j].id \in Ids /\ del[c][i].recip \in Recips
<1>1. del[c][i].j \in Jobs /\ Open(del[c][i].j)
  BY Refers DEF Known, Open
<1>2. jo[del[c][i].j].id \in Ids
  BY <1>1 DEF Known, StatesInv, OneClaim
<1> QED BY <1>1, <1>2, SlotUsed DEF Known

(* Deliveries: a command is written, an agent ends.                        *)
LEMMA SlotStRecips ==
  ASSUME Known, RecipInv, NEW c \in Channels, NEW i \in Slots(c), MoreServed,
         \A x \in Channels : \A k \in Slots(x) :
            /\ del'[x][k].j = del[x][k].j /\ del'[x][k].recip = del[x][k].recip
            /\ del'[x][k].st = del[x][k].st \/ (x = c /\ k = i),
         del'[c][i].st = "K" => copies'[jo[del[c][i].j].id][del[c][i].recip] > 0,
         UNCHANGED <<files, rcpts, undone, done, jo, pass, noted, cpc, creq>>
  PROVE  RecipInv'
<1>1. ASSUME NEW x \in Ids PROVE Accounted(x)' /\ Filed(x)'
  <2>1. Settled(x)' => Settled(x)
    BY DEF Settled, S5, Has, TodoAsked
  <2>2. rcpts[x] \subseteq Recips
    BY DEF Known, TypeOK, DirTypeOK
  <2>3. \A r \in rcpts[x] : Served(x, r) => Served(x, r)'
    BY <2>2, ServedStays
  <2>4. Accounted(x)'
    BY <2>1, <2>3 DEF RecipInv, Accounted
  <2>5. Filed(x)'
    BY DEF RecipInv, Filed
  <2> QED BY <2>4, <2>5
<1>2. SuccessTrue'
  <2> SUFFICES ASSUME NEW x \in Channels, NEW k \in Slots(x), del'[x][k].st = "K"
               PROVE  copies'[jo[del[x][k].j].id][del[x][k].recip] > 0
    BY DEF SuccessTrue
  <2>1. CASE x = c /\ k = i
    BY <2>1
  <2>2. CASE ~(x = c /\ k = i)
    <3>1. del[x][k].st = "K"
      BY <2>2
    <3>2. del[x][k] # NoDel
      BY <3>1, SlotUsed DEF InUse, Known
    <3>3. PICK y, q : y = jo[del[x][k].j].id /\ q = del[x][k].recip
      OBVIOUS
    <3>4. y \in Ids /\ q \in Recips
      BY <3>2, <3>3, SlotNames
    <3>5. copies[y][q] > 0
      BY <3>1, <3>3 DEF RecipInv, SuccessTrue
    <3>6. copies[y][q] \in Nat /\ copies'[y][q] \in Nat /\ copies'[y][q] >= copies[y][q]
      BY <3>4 DEF MoreServed
    <3>7. copies'[y][q] > 0
      BY <3>5, <3>6
    <3> QED BY <3>3, <3>7
  <2> QED BY <2>1, <2>2
<1>3. \A j : SlotsOf(j)' = SlotsOf(j)
  BY DEF SlotsOf
<1>4. Counted'
  <2> SUFFICES ASSUME NEW j \in Jobs, NEW q \in Recips, Open(j), PutOff(j, q)'
               PROVE  jo[j].numtodo > Cardinality(SlotsOf(j))
    BY <1>3 DEF Counted, Open
  <2>1. ~Served(jo[j].id, q)
    <3>1. PICK x : x = jo[j].id
      OBVIOUS
    <3>2. x \in Ids /\ ~Served(x, q)'
      BY <3>1 DEF Known, StatesInv, OneClaim, PutOff, Served
    <3> QED BY <3>1, <3>2, ServedStays
  <2>2. Tried(j, q)' <=> Tried(j, q)
    BY DEF Tried
  <2>3. Reached(j, q) /\ q \in undone[jo[j].id][jo[j].channel] /\ ~Tried(j, q)
    BY <2>2 DEF PutOff, Reached
  <2>4. PutOff(j, q)
    BY <2>1, <2>3 DEF PutOff
  <2> QED BY <2>4 DEF RecipInv, Counted
<1> QED BY <1>1, <1>2, <1>4 DEF RecipInv

LEMMA DeliveryRecips ==
  ASSUME Known, RecipInv, NEW c \in Channels, NEW i \in Slots(c),
         \/ CommWrite(c, i) /\ UNCHANGED <<queueVars, cleanVars, history>>
         \/ \E result \in {"K", "Z", "D"} : Delivery(c, i, result)
  PROVE  RecipInv'
<1>1. PICK s \in {"spawn", "K", "Z", "D"} : del' = [del EXCEPT ![c][i].st = s]
  BY DEF CommWrite, Delivery, Deliver
<1>2. UNCHANGED <<files, rcpts, undone, done, jo, pass, noted, cpc, creq>>
  BY DEF CommWrite, Delivery, Deliver, dirVars, cleanVars, history
<1>3. PICK id, r : id = jo[del[c][i].j].id /\ r = del[c][i].recip
  OBVIOUS
<1>4. del[c][i].st \in {"comm", "spawn"}
  BY DEF CommWrite, Delivery, Deliver
<1>5. del[c][i] # NoDel /\ del[c][i] \in DelRecords
  BY <1>4, SlotUsed DEF Known, InUse
<1>6. id \in Ids /\ r \in Recips
  BY <1>3, <1>5, SlotNames
<1>7. \A x \in Channels : \A k \in Slots(x) :
         /\ del'[x][k].j = del[x][k].j /\ del'[x][k].recip = del[x][k].recip
         /\ del'[x][k].st = IF x = c /\ k = i THEN s ELSE del[x][k].st
  <2>1. \A x \in Channels : \A k \in Slots(x) :
           del'[x][k] = IF x = c /\ k = i THEN [del[x][k] EXCEPT !.st = s] ELSE del[x][k]
    BY <1>1 DEF Known, TypeOK, SendTypeOK, DelTypeOK
  <2>2. [del[c][i] EXCEPT !.st = s].st = s
    BY <1>5 DEF DelRecords, NoDel
  <2>3. \A x \in Channels : \A k \in Slots(x) :
           del'[x][k].j = del[x][k].j /\ del'[x][k].recip = del[x][k].recip
    BY <1>1, SlotChanged DEF Known
  <2> QED BY <2>1, <2>2, <2>3
<1>8. copies \in [Ids -> [Recips -> Nat]]
  BY DEF Known, TypeOK, HistoryTypeOK
<1>9. copies' = IF s = "K" THEN [copies EXCEPT ![id][r] = @ + 1] ELSE copies
  <2>1. CASE CommWrite(c, i) /\ UNCHANGED history
    <3>1. del' = [del EXCEPT ![c][i].st = "spawn"] /\ copies' = copies
      BY <2>1 DEF CommWrite, history
    <3>2. [del[c][i] EXCEPT !.st = "spawn"].st = "spawn"
      BY <1>5 DEF DelRecords, NoDel
    <3>3. del'[c][i].st = "spawn"
      BY <3>1, <3>2 DEF Known, TypeOK, SendTypeOK, DelTypeOK
    <3> QED BY <1>7, <3>1, <3>3
  <2>2. ASSUME NEW result \in {"K", "Z", "D"}, Delivery(c, i, result) PROVE s = result
    <3>1. del' = [del EXCEPT ![c][i].st = result]
      BY <2>2 DEF Delivery, Deliver
    <3>2. [del[c][i] EXCEPT !.st = result].st = result
      BY <1>5 DEF DelRecords, NoDel
    <3>3. del'[c][i].st = result
      BY <3>1, <3>2 DEF Known, TypeOK, SendTypeOK, DelTypeOK
    <3> QED BY <1>7, <3>3
  <2> QED BY <1>3, <2>1, <2>2 DEF Delivery
<1>10. MoreServed
  <2> SUFFICES ASSUME NEW x \in Ids, NEW q \in Recips
               PROVE  /\ copies[x][q] \in Nat /\ copies'[x][q] \in Nat
                      /\ copies'[x][q] >= copies[x][q]
    BY <1>2 DEF MoreServed
  <2>1. CASE s = "K"
    <3>1. /\ copies[x][q] \in Nat /\ copies'[x][q] \in Nat
          /\ copies'[x][q] = copies[x][q] \/ copies'[x][q] = copies[x][q] + 1
      BY <1>6, <1>8, <1>9, <2>1, MoreCopies
    <3> QED BY <3>1
  <2>2. CASE s # "K"
    <3>1. copies'[x][q] = copies[x][q] /\ copies[x][q] \in Nat
      BY <1>8, <1>9, <2>2
    <3> QED BY <3>1
  <2> QED BY <2>1, <2>2
<1>11. s = "K" => copies'[id][r] > 0
  <2>1. s = "K" => copies'[id][r] = copies[id][r] + 1 /\ copies[id][r] \in Nat
    BY <1>6, <1>8, <1>9, MoreCopies
  <2> QED BY <2>1
<1> QED BY <1>2, <1>3, <1>7, <1>10, <1>11, SlotStRecips

-----------------------------------------------------------------------------
(* Passes.                                                                 *)
LEMMA SameRecords ==
  ASSUME RecipInv, UNCHANGED <<files, rcpts, undone, done, copies, noted, cpc, creq>>,
         NEW id \in Ids
  PROVE  Accounted(id)' /\ Filed(id)'
BY DEF RecipInv, Accounted, Filed, Served, Settled, S5, Has, TodoAsked

(* A new pass has read no T record.                                        *)
LEMMA PassOpenRecips ==
  ASSUME Known, RecipInv, NEW c \in Channels, NEW id \in Ids, PassOpen(c, id),
         UNCHANGED <<queueVars, cleanVars, history>>
  PROVE  RecipInv'
<1> USE DEF Known
<1>1. JobsFree \in SUBSET Nat /\ JobsFree # {}
  BY DEF PassOpen, JobsFree, Jobs
<1>2. PICK j : j = Least(JobsFree)
  OBVIOUS
<1>3. j \in Jobs /\ jo[j].refs = 0
  BY <1>1, <1>2, LeastType DEF JobsFree
<1>4. /\ pass' = [pass EXCEPT ![c] = [j |-> j, left |-> undone[id][c] \cup done[id][c]]]
      /\ jo' = [jo EXCEPT ![j] = [refs |-> 1, id |-> id, channel |-> c, numtodo |-> 0,
                                  hiteof |-> FALSE, dying |-> old[id]]]
      /\ UNCHANGED <<del, files, rcpts, undone, done, copies, noted, cpc, creq>>
  BY <1>2 DEF PassOpen, dirVars, history, cleanVars
<1>5. /\ jo \in [Jobs -> JobRecords] /\ pass \in [Channels -> PassRecords]
  BY DEF TypeOK, SendTypeOK
<1>6. /\ jo'[j].id = id /\ jo'[j].channel = c /\ ~jo'[j].hiteof
      /\ \A k \in Jobs : k # j => jo'[k] = jo[k]
      /\ pass'[c].j = j /\ pass'[c].left = undone[id][c] \cup done[id][c]
      /\ \A x \in Channels : x # c => pass'[x] = pass[x]
  BY <1>3, <1>4, <1>5
<1>7. SuccessTrue'
  <2> SUFFICES ASSUME NEW x \in Channels, NEW k \in Slots(x), del[x][k].st = "K"
               PROVE  copies[jo'[del[x][k].j].id][del[x][k].recip] > 0
    BY <1>4 DEF SuccessTrue
  <2>1. del[x][k] # NoDel
    BY SlotUsed DEF InUse
  <2>2. del[x][k].j \in Jobs /\ del[x][k].j # j
    BY <1>3, <2>1, SlotNames DEF Open
  <2> QED BY <1>6, <2>2 DEF RecipInv, SuccessTrue
<1>8. Counted'
  <2> SUFFICES ASSUME NEW k \in Jobs, NEW r \in Recips, Open(k)', PutOff(k, r)'
               PROVE  jo'[k].numtodo > Cardinality(SlotsOf(k)')
    BY DEF Counted
  <2>1. k # j
    <3>1. ASSUME k = j PROVE FALSE
      <4>1. r \in undone[id][c] /\ r \notin pass'[c].left
        BY <1>4, <1>6, <3>1 DEF PutOff, Reached
      <4> QED BY <1>6, <4>1
    <3> QED BY <3>1
  <2>2. jo'[k] = jo[k] /\ jo[k].channel \in Channels
    BY <1>5, <1>6, <2>1 DEF JobRecords
  <2>3. Reached(k, r)
    BY <1>6, <2>1, <2>2 DEF PutOff, Reached
  <2>4. PutOff(k, r) /\ Open(k)
    BY <1>4, <2>2, <2>3 DEF PutOff, Tried, Served, Open
  <2>5. SlotsOf(k)' = SlotsOf(k)
    BY <1>4 DEF SlotsOf
  <2> QED BY <2>2, <2>4, <2>5 DEF RecipInv, Counted
<1> QED BY <1>4, <1>7, <1>8, SameRecords DEF RecipInv

(* A delivery is started: one more to be reported, and one more slot.      *)
LEMMA PassDeliverRecips ==
  ASSUME Known, RecipInv, NEW c \in Channels, PassDeliver(c),
         UNCHANGED <<queueVars, cleanVars, history>>
  PROVE  RecipInv'
<1> USE DEF Known
<1>1. SlotsFree(c) \in SUBSET Nat /\ SlotsFree(c) # {}
  BY DEF PassDeliver, DelAvail, SlotsFree, Slots
<1>2. PICK i, j : i = Least(SlotsFree(c)) /\ j = pass[c].j
  OBVIOUS
<1>3. i \in Slots(c) /\ del[c][i] = NoDel
  BY <1>1, <1>2, LeastType DEF SlotsFree
<1>4. PICK r \in LeftToDo(c) :
         /\ pass' = [pass EXCEPT ![c].left = @ \ {r}]
         /\ del' = [del EXCEPT ![c][i] = [j |-> j, recip |-> r, st |-> "comm"]]
         /\ jo' = [jo EXCEPT ![j] = Referred(@)]
         /\ UNCHANGED <<files, rcpts, undone, done, copies, noted, cpc, creq>>
  BY <1>2 DEF PassDeliver, dirVars, history, cleanVars
<1>5. /\ j \in Jobs /\ jo[j].refs > 0 /\ jo[j].channel = c /\ pass[c] # NoPass
  BY <1>2, Refers DEF PassDeliver
<1>6. /\ jo \in [Jobs -> JobRecords] /\ pass \in [Channels -> PassRecords] /\ DelTypeOK(del)
      /\ NoDel.j = 0 /\ 0 \notin Jobs
  BY DEF TypeOK, SendTypeOK, NoDel, Jobs
<1>7. r \in Recips
  BY <1>5, <1>6 DEF LeftToDo, PassRecords
<1>8. /\ \A x \in Channels : \A k \in Slots(x) :
            del'[x][k] = IF x = c /\ k = i THEN [j |-> j, recip |-> r, st |-> "comm"]
                                           ELSE del[x][k]
  BY <1>3, <1>4, <1>6 DEF DelTypeOK
<1>9. /\ pass'[c].j = j /\ pass'[c].left = pass[c].left \ {r}
      /\ \A x \in Channels : x # c => pass'[x] = pass[x]
  <2>1. pass[c] \in [j : Jobs, left : SUBSET Recips]
    BY <1>5, <1>6 DEF PassRecords
  <2> QED BY <1>2, <1>4, <1>6, <2>1
<1>10. /\ jo'[j].id = jo[j].id /\ jo'[j].channel = c /\ jo'[j].hiteof = jo[j].hiteof
       /\ jo'[j].numtodo = jo[j].numtodo + 1 /\ jo[j].numtodo \in Int
       /\ \A k \in Jobs : k # j => jo'[k] = jo[k]
  <2>1. jo[j] \in JobRecords
    BY <1>5, <1>6
  <2>2. jo'[j] = Referred(jo[j])
    BY <1>4, <1>5, <1>6
  <2>3. /\ Referred(jo[j]).id = jo[j].id /\ Referred(jo[j]).channel = jo[j].channel
        /\ Referred(jo[j]).hiteof = jo[j].hiteof
        /\ Referred(jo[j]).numtodo = jo[j].numtodo + 1 /\ jo[j].numtodo \in Int
    BY <2>1 DEF Referred, JobRecords
  <2> QED BY <1>4, <1>5, <1>6, <2>2, <2>3
<1>11. \A k \in Jobs : jo'[k].id = jo[k].id
  BY <1>5, <1>10
<1>12. SuccessTrue'
  <2> SUFFICES ASSUME NEW x \in Channels, NEW k \in Slots(x), del'[x][k].st = "K"
               PROVE  copies[jo'[del'[x][k].j].id][del'[x][k].recip] > 0
    BY <1>4 DEF SuccessTrue
  <2>1. del'[x][k] = del[x][k]
    BY <1>8
  <2>2. del[x][k] # NoDel
    BY <2>1, SlotUsed DEF InUse
  <2>3. del[x][k].j \in Jobs
    BY <2>2, SlotNames
  <2> QED BY <1>11, <2>1, <2>3 DEF RecipInv, SuccessTrue
<1>13. ASSUME NEW k \in Jobs
       PROVE  SlotsOf(k)' = IF j = k THEN SlotsOf(k) \cup {<<c, i>>} ELSE SlotsOf(k) \ {<<c, i>>}
  <2>1. PICK d : d = [j |-> j, recip |-> r, st |-> "comm"]
    OBVIOUS
  <2>2. d \in DelRecords /\ d.j = j
    BY <1>5, <1>7, <2>1 DEF DelRecords, InUse
  <2>3. del' = [del EXCEPT ![c][i] = d]
    BY <1>4, <2>1
  <2>4. SlotsOf(k)' = IF d.j = k THEN SlotsOf(k) \cup {<<c, i>>} ELSE SlotsOf(k) \ {<<c, i>>}
    BY <1>3, <2>2, <2>3, SlotFilled
  <2> QED BY <2>2, <2>4
<1>14. ASSUME NEW k \in Jobs, NEW q \in Recips, PutOff(k, q)'
       PROVE  PutOff(k, q)
  <2>1. ~Tried(k, q)
    <3> SUFFICES ASSUME NEW x \in Channels, NEW l \in Slots(x), del[x][l].j = k,
                        del[x][l].recip = q
                 PROVE  FALSE
      BY DEF Tried
    <3>1. del'[x][l] = del[x][l]
      BY <1>3, <1>6, <1>8
    <3>2. Tried(k, q)'
      BY <3>1 DEF Tried
    <3> QED BY <1>14, <3>2 DEF PutOff
  <2>2. k = j => q # r
    <3>1. k = j /\ q = r => Tried(k, q)'
      BY <1>3, <1>8 DEF Tried
    <3> QED BY <1>14, <3>1 DEF PutOff
  <2>3. /\ jo'[k].id = jo[k].id /\ jo'[k].channel = jo[k].channel /\ jo'[k].hiteof = jo[k].hiteof
        /\ jo[k].channel \in Channels
    BY <1>5, <1>6, <1>10 DEF JobRecords
  <2>4. Reached(k, q)
    <3>1. CASE jo[k].hiteof
      BY <3>1 DEF Reached
    <3>2. CASE ~jo[k].hiteof
      <4>1. pass'[jo[k].channel].j = k /\ q \notin pass'[jo[k].channel].left
        BY <1>14, <2>3, <3>2 DEF PutOff, Reached
      <4>2. CASE jo[k].channel = c
        BY <1>2, <1>9, <2>2, <4>1, <4>2 DEF Reached
      <4>3. CASE jo[k].channel # c
        BY <1>9, <2>3, <4>1, <4>3 DEF Reached
      <4> QED BY <4>2, <4>3
    <3> QED BY <3>1, <3>2
  <2>5. q \in undone[jo[k].id][jo[k].channel] /\ ~Served(jo[k].id, q)
    BY <1>4, <1>14, <2>3 DEF PutOff, Served
  <2> QED BY <2>1, <2>4, <2>5 DEF PutOff
<1>15. Counted'
  <2> SUFFICES ASSUME NEW k \in Jobs, NEW q \in Recips, Open(k)', PutOff(k, q)'
               PROVE  jo'[k].numtodo > Cardinality(SlotsOf(k)')
    BY DEF Counted
  <2>1. Open(k)
    BY <1>5, <1>10 DEF Open
  <2>2. jo[k].numtodo > Cardinality(SlotsOf(k))
    BY <1>14, <2>1 DEF RecipInv, Counted
  <2>3. <<c, i>> \notin SlotsOf(k)
    BY <1>3, <1>6 DEF SlotsOf
  <2>4. CASE k = j
    <3>1. /\ Cardinality(SlotsOf(k) \cup {<<c, i>>}) = Cardinality(SlotsOf(k)) + 1
          /\ Cardinality(SlotsOf(k)) \in Nat
      BY <2>3, SlotsFinite, FS_AddElement
    <3> QED BY <1>10, <1>13, <2>2, <2>4, <3>1
  <2>5. CASE k # j
    <3>1. SlotsOf(k)' = SlotsOf(k)
      BY <1>13, <2>3, <2>5
    <3> QED BY <1>10, <2>2, <2>5, <3>1
  <2> QED BY <2>4, <2>5
<1> QED BY <1>4, <1>12, <1>15, SameRecords DEF RecipInv

-----------------------------------------------------------------------------
(* job_close() of job j: the records it finds are un, the references to it *)
(* are already gone.                                                       *)
Leaving(j, job, fl, un, dn) ==
    /\ job \in JobRecords /\ Open(j)
    /\ job.refs = jo[j].refs /\ job.id = jo[j].id /\ job.channel = jo[j].channel
    /\ job.refs = 1 => SlotsOf(j)' = {}
    /\ \A x \in Channels : \A k \in Slots(x) :
          del'[x][k] = del[x][k] \/ (del[x][k].j = j /\ del'[x][k] = NoDel)
    /\ \A x \in Channels : pass'[x] = pass[x] \/ (pass[x].j = j /\ pass'[x].j \notin Jobs)
    /\ fl \in [Ids -> SUBSET Kinds]
    /\ \A x \in Ids : fl[x] \ {"bounce"} = files[x] \ {"bounce"}
    /\ un \in [Ids -> [Channels -> SUBSET Recips]] /\ dn \in [Ids -> [Channels -> SUBSET Recips]]
    /\ \A x \in Ids, y \in Channels : x # job.id \/ y # job.channel =>
          un[x][y] = undone[x][y] /\ dn[x][y] = done[x][y]
    /\ un[job.id][job.channel] \subseteq undone[job.id][job.channel]

(* The records that job_close() leaves.                                    *)
LEMMA CloseRecords ==
  ASSUME Known, NEW j \in Jobs, NEW job, NEW fl, NEW un, NEW dn, NEW f,
         JobClose(j, job, fl, un, dn, f), Leaving(j, job, fl, un, dn),
         NEW x \in Ids, NEW y \in Channels
  PROVE  /\ undone'[x][y] \subseteq un[x][y]
         /\ x # job.id \/ y # job.channel => /\ undone'[x][y] = un[x][y]
                                             /\ done'[x][y] = dn[x][y]
                                             /\ y \in files'[x] <=> y \in fl[x]
         /\ \A k \in {"mess", "intd", "info", "todo"} : k \in files'[x] <=> k \in files[x]
         /\ \/ undone' = un /\ files' = fl
            \/ /\ job.refs = 1 /\ AllDone(job)
               /\ undone'[job.id][job.channel] = {} /\ done'[job.id][job.channel] = {}
<1>1. job.id \in Ids /\ job.channel \in Channels
  BY DEF Leaving, JobRecords, Known, StatesInv, OneClaim
<1>2. /\ fl \in [Ids -> SUBSET Kinds] /\ un \in [Ids -> [Channels -> SUBSET Recips]]
      /\ dn \in [Ids -> [Channels -> SUBSET Recips]]
      /\ \A k \in {"mess", "intd", "info", "todo"} : k \in fl[x] <=> k \in files[x]
  BY DEF Leaving
<1>3. CASE GoesOn(job, fl, un, dn, f)
  BY <1>2, <1>3 DEF GoesOn
<1>4. CASE ChannelEnds(job, fl, un, dn, f)
  <2>1. /\ files' = [fl EXCEPT ![job.id] = @ \ {job.channel}]
        /\ undone' = [un EXCEPT ![job.id] = Without(@, {job.channel})]
        /\ done' = [dn EXCEPT ![job.id] = Without(@, {job.channel})]
        /\ job.refs = 1 /\ AllDone(job) /\ job.channel \in fl[job.id]
    BY <1>4 DEF ChannelEnds, Closable
  <2>2. \A z \in Channels :
           /\ Without(un[x], {job.channel})[z] = IF z = job.channel THEN {} ELSE un[x][z]
           /\ Without(dn[x], {job.channel})[z] = IF z = job.channel THEN {} ELSE dn[x][z]
    BY DEF Without
  <2>3. \A z \in Channels :
           /\ undone'[x][z] = IF x = job.id /\ z = job.channel THEN {} ELSE un[x][z]
           /\ done'[x][z] = IF x = job.id /\ z = job.channel THEN {} ELSE dn[x][z]
    BY <1>2, <2>1, <2>2
  <2>4. undone'[job.id][job.channel] = {} /\ done'[job.id][job.channel] = {}
    BY <1>1, <1>2, <2>1 DEF Without
  <2>5. files'[x] = IF x = job.id THEN fl[x] \ {job.channel} ELSE fl[x]
    BY <1>2, <2>1
  <2>6. job.channel \notin {"mess", "intd", "info", "todo"}
    BY <1>1 DEF Channels
  <2> QED BY <1>2, <2>1, <2>3, <2>4, <2>5, <2>6
<1> QED BY <1>3, <1>4 DEF JobClose

LEMMA CloseRecips ==
  ASSUME Known, RecipInv, NEW j \in Jobs, NEW job, NEW fl, NEW un, NEW dn, NEW f,
         JobClose(j, job, fl, un, dn, f), Leaving(j, job, fl, un, dn), MoreServed,
         UNCHANGED <<rcpts, cpc, creq>>,
         \A r \in undone[job.id][job.channel] : r \in un[job.id][job.channel] \/ Served(job.id, r)',
         \A r \in Recips :
            /\ r \in un[job.id][job.channel] /\ ~Served(job.id, r)' /\ ~Tried(j, r)'
            /\ \/ job.hiteof
               \/ pass'[job.channel].j = j /\ r \notin pass'[job.channel].left
            => job.numtodo > Cardinality(SlotsOf(j)')
  PROVE  RecipInv'
<1>1. /\ job.id \in Ids /\ job.channel \in Channels /\ job.channel \in files[job.id]
      /\ job \in JobRecords
  BY DEF Leaving, JobRecords, Known, StatesInv, OneClaim, Has
<1>2. /\ \A k \in Jobs : k # j => jo'[k] = jo[k]
      /\ jo'[j] = IF job.refs > 1 THEN [job EXCEPT !.refs = @ - 1] ELSE NoJob
      /\ jo'[j].refs = IF job.refs > 1 THEN job.refs - 1 ELSE 0
      /\ job.refs > 1 => /\ jo'[j].id = job.id /\ jo'[j].channel = job.channel
                         /\ jo'[j].numtodo = job.numtodo /\ jo'[j].hiteof = job.hiteof
  BY <1>1, CloseJob DEF Known
<1>3. ASSUME NEW x \in Ids, NEW y \in Channels
      PROVE  /\ undone'[x][y] \subseteq undone[x][y]
             /\ x # job.id \/ y # job.channel => /\ undone'[x][y] = undone[x][y]
                                                 /\ done'[x][y] = done[x][y]
                                                 /\ y \in files'[x] <=> y \in files[x]
             /\ \A k \in {"mess", "intd", "info", "todo"} : k \in files'[x] <=> k \in files[x]
  <2>1. y \in fl[x] <=> y \in files[x]
    BY DEF Leaving, Channels
  <2> QED BY <2>1, CloseRecords DEF Leaving
<1>4. \/ undone' = un /\ files' = fl
      \/ /\ job.refs = 1 /\ AllDone(job)
         /\ undone'[job.id][job.channel] = {} /\ done'[job.id][job.channel] = {}
  BY <1>1, CloseRecords
<1>5. ASSUME NEW r \in undone[job.id][job.channel], r \in Recips
      PROVE  Served(job.id, r)' \/ r \in undone'[job.id][job.channel]
  <2>1. CASE undone' = un
    BY <1>5, <2>1
  <2>2. CASE job.refs = 1 /\ AllDone(job)
    <3>1. SlotsOf(j)' = {} /\ job.hiteof /\ job.numtodo = 0
      BY <2>2 DEF Leaving, AllDone
    <3>2. ~Tried(j, r)'
      <4> SUFFICES ASSUME NEW x \in Channels, NEW k \in Slots(x), del'[x][k].j = j
                   PROVE  FALSE
        BY DEF Tried
      <4>1. <<x, k>> \in SlotsOf(j)'
        BY SlotsFinite DEF SlotsOf
      <4> QED BY <3>1, <4>1
    <3>3. ~(job.numtodo > Cardinality(SlotsOf(j)'))
      BY <3>1, FS_EmptySet
    <3> QED BY <1>5, <3>1, <3>2, <3>3
  <2> QED BY <1>4, <2>1, <2>2
<1>6. ASSUME NEW x \in Ids PROVE Accounted(x)'
  <2>1. Settled(x)' => Settled(x)
    <3>1. "local" \in Channels
      BY DEF Channels
    <3>2. \A k \in {"mess", "intd", "info", "todo"} : k \in files'[x] <=> k \in files[x]
      BY <1>3, <3>1
    <3> QED BY <3>2 DEF Settled, S5, Has, TodoAsked
  <2>2. rcpts[x] \subseteq Recips
    BY DEF Known, TypeOK, DirTypeOK
  <2> SUFFICES ASSUME Settled(x), NEW r \in rcpts[x]
               PROVE  Served(x, r)' \/ \E y \in Channels : r \in undone'[x][y]
    BY <2>1 DEF Accounted
  <2>3. CASE Served(x, r)
    BY <2>2, <2>3, ServedStays
  <2>4. ASSUME NEW y \in Channels, r \in undone[x][y]
        PROVE  Served(x, r)' \/ r \in undone'[x][y]
    BY <1>3, <1>5, <2>2, <2>4
  <2> QED BY <2>3, <2>4 DEF RecipInv, Accounted
<1>7. ASSUME NEW x \in Ids PROVE Filed(x)'
  <2> SUFFICES ASSUME NEW y \in Channels, y \notin files'[x]
               PROVE  undone'[x][y] = {} /\ done'[x][y] = {}
    BY DEF Filed
  <2>1. CASE x = job.id /\ y = job.channel
    <3>1. y \in fl[x]
      BY <1>1, <2>1 DEF Leaving, Channels
    <3> QED BY <1>4, <2>1, <3>1
  <2>2. CASE x # job.id \/ y # job.channel
    BY <1>3, <2>2 DEF RecipInv, Filed
  <2> QED BY <2>1, <2>2
<1>8. SuccessTrue'
  <2> SUFFICES ASSUME NEW x \in Channels, NEW k \in Slots(x), del'[x][k].st = "K"
               PROVE  copies'[jo'[del'[x][k].j].id][del'[x][k].recip] > 0
    BY DEF SuccessTrue
  <2>1. del'[x][k] = del[x][k] /\ del[x][k] # NoDel
    BY DEF Leaving, NoDel
  <2>2. PICK y, q : y = jo[del[x][k].j].id /\ q = del[x][k].recip
    OBVIOUS
  <2>3. y \in Ids /\ q \in Recips /\ del[x][k].j \in Jobs
    BY <2>1, <2>2, SlotNames
  <2>4. jo'[del[x][k].j].id = y
    <3>1. CASE del[x][k].j # j
      BY <1>2, <2>2, <2>3, <3>1
    <3>2. CASE del[x][k].j = j
      <4>1. <<x, k>> \in SlotsOf(j)'
        BY <2>1, <3>2, SlotsFinite DEF SlotsOf
      <4>2. job.refs # 1 /\ job.refs > 0 /\ job.refs \in Nat
        BY <1>1, <4>1 DEF Leaving, Open, JobRecords
      <4>3. job.refs > 1
        BY <4>2
      <4>4. jo'[j].id = job.id /\ job.id = jo[j].id
        BY <1>2, <4>3 DEF Leaving
      <4> QED BY <2>2, <3>2, <4>4
    <3> QED BY <3>1, <3>2
  <2>5. copies[y][q] > 0
    BY <2>1, <2>2 DEF RecipInv, SuccessTrue
  <2>6. copies[y][q] \in Nat /\ copies'[y][q] \in Nat /\ copies'[y][q] >= copies[y][q]
    BY <2>3 DEF MoreServed
  <2>7. copies'[y][q] > 0
    BY <2>5, <2>6
  <2> QED BY <2>1, <2>2, <2>4, <2>7
<1>9. ASSUME NEW k \in Jobs, NEW r \in Recips, Open(k)', PutOff(k, r)', k # j
      PROVE  jo'[k].numtodo > Cardinality(SlotsOf(k)')
  <2>1. jo'[k] = jo[k]
    BY <1>2, <1>9
  <2>2. PICK x, y : x = jo[k].id /\ y = jo[k].channel
    OBVIOUS
  <2>3. Open(k) /\ x \in Ids /\ y \in Channels
    <3>1. Open(k)
      BY <1>9, <2>1 DEF Open
    <3> QED BY <2>2, <3>1 DEF Known, StatesInv, OneClaim, TypeOK, SendTypeOK, JobRecords
  <2>4. r \in undone[x][y] /\ ~Served(x, r)
    <3>1. r \in undone'[x][y] /\ ~Served(x, r)'
      BY <1>9, <2>1, <2>2 DEF PutOff, Served
    <3> QED BY <1>3, <2>3, <3>1, ServedStays
  <2>5. ~Tried(k, r)
    <3> SUFFICES ASSUME NEW z \in Channels, NEW l \in Slots(z), del[z][l].j = k,
                        del[z][l].recip = r
                 PROVE  FALSE
      BY DEF Tried
    <3>1. del'[z][l] = del[z][l]
      BY <1>9 DEF Leaving
    <3>2. Tried(k, r)'
      BY <3>1 DEF Tried
    <3> QED BY <1>9, <3>2 DEF PutOff
  <2>6. Reached(k, r)
    <3>1. jo[k].hiteof \/ (pass'[y].j = k /\ r \notin pass'[y].left)
      BY <1>9, <2>1, <2>2 DEF PutOff, Reached
    <3>2. pass'[y].j = k => pass'[y] = pass[y]
      BY <1>9, <2>3 DEF Leaving
    <3> QED BY <2>2, <3>1, <3>2 DEF Reached
  <2>7. PutOff(k, r)
    BY <2>2, <2>4, <2>5, <2>6 DEF PutOff
  <2>8. SlotsOf(k)' = SlotsOf(k)
    <3>1. \A z \in Channels : \A l \in Slots(z) : del'[z][l].j = k <=> del[z][l].j = k
      BY <1>9 DEF Leaving, NoDel, Jobs
    <3> QED BY <3>1 DEF SlotsOf
  <2> QED BY <2>1, <2>3, <2>7, <2>8 DEF RecipInv, Counted
<1>10. ASSUME NEW r \in Recips, Open(j)', PutOff(j, r)'
       PROVE  jo'[j].numtodo > Cardinality(SlotsOf(j)')
  <2>1. job.refs > 1
    BY <1>2, <1>10 DEF Open
  <2>2. /\ jo'[j].id = job.id /\ jo'[j].channel = job.channel
        /\ jo'[j].numtodo = job.numtodo /\ jo'[j].hiteof = job.hiteof
    BY <1>2, <2>1
  <2>3. undone' = un
    BY <1>4, <2>1
  <2>4. /\ r \in un[job.id][job.channel] /\ ~Served(job.id, r)' /\ ~Tried(j, r)'
        /\ \/ job.hiteof
           \/ pass'[job.channel].j = j /\ r \notin pass'[job.channel].left
    BY <1>10, <2>2, <2>3 DEF PutOff, Reached, Served
  <2> QED BY <2>2, <2>4
<1>11. Counted'
  BY <1>9, <1>10 DEF Counted
<1> QED BY <1>6, <1>7, <1>8, <1>11 DEF RecipInv

LEMMA NobodyNew ==
  ASSUME Known, UNCHANGED <<copies, noted>>
  PROVE  MoreServed
<1> SUFFICES ASSUME NEW x \in Ids, NEW q \in Recips
             PROVE  copies[x][q] \in Nat /\ copies[x][q] >= copies[x][q]
  BY DEF MoreServed
<1>1. copies[x][q] \in Nat
  BY DEF Known, TypeOK, HistoryTypeOK
<1> QED BY <1>1

(* The pass ends.  At the end of the file every T record has been read.    *)
LEMMA PassCloseRecips ==
  ASSUME Known, RecipInv, NEW c \in Channels, PassClose(c),
         UNCHANGED <<queueVars, cleanVars, history>>
  PROVE  RecipInv'
<1>1. PICK j, id, before : j = pass[c].j /\ id = jo[j].id /\ before = jo[j]
  OBVIOUS
<1>2. PICK read, un, dn : read = [before EXCEPT !.hiteof = TRUE] /\ un = undone /\ dn = done
  OBVIOUS
<1>3. /\ pass[c] # NoPass /\ pass' = [pass EXCEPT ![c] = NoPass] /\ del' = del
      /\ \/ LeftToDo(c) = {} /\ JobClose(j, read, files, un, dn, 0)
         \/ JobClose(j, before, files, un, dn, 1)
      /\ UNCHANGED <<rcpts, cpc, creq, copies, noted>>
  BY <1>1, <1>2 DEF PassClose, history, cleanVars
<1>4. j \in Jobs /\ Open(j) /\ before.channel = c /\ before.id = id
  BY <1>1, <1>3, Refers DEF Known, Open
<1>5. before \in JobRecords
  BY <1>1, <1>4, JobFree DEF Known
<1>6. /\ read \in JobRecords /\ read.refs = before.refs /\ read.channel = c
      /\ read.numtodo = before.numtodo /\ read.id = id /\ read.hiteof
  BY <1>2, <1>4, <1>5 DEF JobRecords
<1>7. SlotsOf(j)' = SlotsOf(j) /\ before.refs = Cardinality(SlotsOf(j)) + 1
  BY <1>1, <1>3, <1>4, PassGone DEF Known
<1>8. before.refs = 1 => SlotsOf(j)' = {}
  BY <1>7, SlotsFinite, FS_EmptySet
<1>9. MoreServed
  BY <1>3, NobodyNew
<1>10. \A x \in Channels : pass'[x] = pass[x] \/ (pass[x].j = j /\ pass'[x].j \notin Jobs)
  BY <1>1, <1>3 DEF Known, TypeOK, SendTypeOK, NoPass, Jobs
<1>11. ASSUME NEW job \in {read, before} PROVE Leaving(j, job, files, un, dn)
  <2>1. /\ job \in JobRecords /\ job.refs = jo[j].refs /\ job.channel = jo[j].channel
        /\ job.id = jo[j].id /\ job.refs = before.refs
    BY <1>1, <1>4, <1>5, <1>6, <1>11
  <2> QED BY <1>2, <1>3, <1>4, <1>8, <1>10, <2>1 DEF Leaving, Known, TypeOK, DirTypeOK
<1>12. ASSUME NEW r \in Recips, r \in un[id][c], ~Served(id, r)', ~Tried(j, r)',
              before.hiteof \/ LeftToDo(c) = {}
       PROVE  before.numtodo > Cardinality(SlotsOf(j)')
  <2>1. Reached(j, r)
    <3>1. CASE before.hiteof
      BY <1>1, <3>1 DEF Reached
    <3>2. CASE LeftToDo(c) = {}
      BY <1>1, <1>2, <1>4, <1>12, <3>2 DEF Reached, LeftToDo
    <3> QED BY <1>12, <3>1, <3>2
  <2>2. ~Served(id, r)
    BY <1>3, <1>12 DEF Served
  <2>3. ~Tried(j, r)
    BY <1>3, <1>12 DEF Tried
  <2>4. PutOff(j, r)
    BY <1>1, <1>2, <1>4, <1>12, <2>1, <2>2, <2>3 DEF PutOff
  <2> QED BY <1>1, <1>4, <1>7, <2>4 DEF RecipInv, Counted
<1>13. pass'[c].j # j
  BY <1>3, <1>4 DEF Known, TypeOK, SendTypeOK, NoPass, Jobs
<1>14. \A r \in undone[id][c] : r \in un[id][c]
  BY <1>2
<1>15. CASE LeftToDo(c) = {} /\ JobClose(j, read, files, un, dn, 0)
  <2>1. \A r \in Recips : r \in un[id][c] /\ ~Served(id, r)' /\ ~Tried(j, r)'
           => read.numtodo > Cardinality(SlotsOf(j)')
    BY <1>6, <1>12, <1>15
  <2>2. Leaving(j, read, files, un, dn)
    BY <1>11
  <2> QED BY <1>3, <1>4, <1>6, <1>9, <1>14, <1>15, <2>1, <2>2, CloseRecips
<1>16. CASE JobClose(j, before, files, un, dn, 1)
  <2>1. \A r \in Recips : /\ r \in un[id][c] /\ ~Served(id, r)' /\ ~Tried(j, r)'
                          /\ before.hiteof \/ pass'[c].j = j
           => before.numtodo > Cardinality(SlotsOf(j)')
    BY <1>12, <1>13
  <2>2. Leaving(j, before, files, un, dn)
    BY <1>11
  <2> QED BY <1>3, <1>4, <1>9, <1>14, <1>16, <2>1, <2>2, CloseRecips
<1> QED BY <1>3, <1>15, <1>16

(* A report.  Put off, it leaves one more to be tried than deliveries      *)
(* under way; otherwise the recipient has been served.                     *)
LEMMA ReportRecips ==
  ASSUME Known, RecipInv, NEW c \in Channels, NEW i \in Slots(c), Report(c, i)
  PROVE  RecipInv'
<1>1. PICK j, r, before : j = del[c][i].j /\ r = del[c][i].recip /\ before = jo[j]
  OBVIOUS
<1>2. /\ del[c][i] # NoDel /\ j \in Jobs /\ before \in JobRecords /\ del[c][i].st \in {"K", "Z", "D"}
      /\ Open(j) /\ before.channel = c /\ r \in Recips
      /\ del' = [del EXCEPT ![c][i] = NoDel] /\ pass' = pass
  BY <1>1, ReportCase DEF Known, Report, Open
<1>3. PICK job, fl, un, dn, f :
         /\ job \in JobRecords /\ job.refs = before.refs /\ job.id = before.id
         /\ job.channel = c /\ job.hiteof = before.hiteof
         /\ Reported(c, i, job, fl, un, dn, f)
  BY <1>1, ReportCase DEF Known, Report
<1>4. PICK id : id = job.id
  OBVIOUS
<1>5. /\ id \in Ids /\ copies' = copies
      /\ noted' = [x \in Ids |-> noted[x] \cup notes'[x]]
      /\ UNCHANGED <<rcpts, cpc, creq>>
  BY <1>1, <1>2, <1>3, <1>4 DEF Known, StatesInv, OneClaim, Report, DelReport, cleanVars
<1>6. JobClose(j, job, fl, un, dn, f)
  BY <1>1, <1>3 DEF Reported
<1>7. \/ /\ job = before /\ fl = files /\ un = undone /\ dn = done
      \/ /\ job.numtodo = before.numtodo - 1
         /\ del[c][i].st = "K" \/ r \in notes'[id]
         /\ fl = files \/ fl = [files EXCEPT ![id] = @ \cup {"bounce"}]
         /\ \/ un = undone /\ dn = done
            \/ /\ un = [undone EXCEPT ![id][c] = @ \ {r}]
               /\ dn = [done EXCEPT ![id][c] = @ \cup {r}]
  <2>1. notes \in [Ids -> SUBSET Recips]
    BY DEF Known, TypeOK, DirTypeOK
  <2>2. [before EXCEPT !.numtodo = @ - 1].numtodo = before.numtodo - 1
    BY <1>2 DEF JobRecords
  <2>3. notes' = [notes EXCEPT ![id] = @ \cup {r}] => r \in notes'[id]
    BY <1>5, <2>1
  <2>4. Verdict(del[c][i].st, job.dying) = "K" => del[c][i].st = "K"
    BY DEF Verdict
  <2> QED BY <1>1, <1>3, <1>4, <2>2, <2>3, <2>4 DEF Reported, MarkDone
<1>8. MoreServed
  <2> SUFFICES ASSUME NEW x \in Ids, NEW q \in Recips
               PROVE  /\ copies[x][q] \in Nat /\ copies[x][q] >= copies[x][q]
                      /\ q \in noted[x] => q \in noted'[x]
    BY <1>5 DEF MoreServed
  <2>1. copies[x][q] \in Nat
    BY DEF Known, TypeOK, HistoryTypeOK
  <2> QED BY <1>5, <2>1
<1>9. job.numtodo = before.numtodo - 1 => Served(id, r)'
  <2>1. CASE del[c][i].st = "K"
    <3>1. copies[id][r] > 0
      BY <1>1, <1>3, <1>4, <2>1 DEF RecipInv, SuccessTrue
    <3> QED BY <1>5, <3>1 DEF Served
  <2>2. CASE r \in notes'[id]
    BY <1>5, <2>2 DEF Served
  <2>3. before.numtodo # before.numtodo - 1
    BY <1>2 DEF JobRecords
  <2> QED BY <1>7, <2>1, <2>2, <2>3
<1>10. /\ Cardinality(SlotsOf(j)) = Cardinality(SlotsOf(j)') + 1
       /\ IsFiniteSet(SlotsOf(j)') /\ Cardinality(SlotsOf(j)') \in Nat
       /\ before.refs = Cardinality(SlotsOf(j)) + Cardinality(PassesOf(j))
       /\ before.numtodo >= Cardinality(SlotsOf(j))
       /\ Cardinality(PassesOf(j)) \in Nat
  BY <1>1, <1>2, SlotGone, SlotsFinite DEF Known, JobsInv, JobTable
<1>11. \A x \in Channels : \A k \in Slots(x) :
          del'[x][k] = IF x = c /\ k = i THEN NoDel ELSE del[x][k]
  BY <1>2 DEF Known, TypeOK, SendTypeOK, DelTypeOK
<1>12. Leaving(j, job, fl, un, dn)
  <2>1. job.refs = 1 => SlotsOf(j)' = {}
    <3>1. job.refs = 1 => Cardinality(SlotsOf(j)') = 0
      BY <1>3, <1>10
    <3> QED BY <1>10, <3>1, FS_EmptySet
  <2>2. /\ files \in [Ids -> SUBSET Kinds] /\ undone \in [Ids -> [Channels -> SUBSET Recips]]
        /\ done \in [Ids -> [Channels -> SUBSET Recips]]
    BY DEF Known, TypeOK, DirTypeOK
  <2>3. /\ fl \in [Ids -> SUBSET Kinds]
        /\ \A x \in Ids : fl[x] \ {"bounce"} = files[x] \ {"bounce"}
    <3>1. CASE fl = files
      BY <2>2, <3>1
    <3>2. CASE fl = [files EXCEPT ![id] = @ \cup {"bounce"}]
      <4>1. files[id] \cup {"bounce"} \in SUBSET Kinds
        BY <1>5, <2>2 DEF Kinds
      <4> QED BY <1>5, <2>2, <3>2, <4>1
    <3> QED BY <1>7, <3>1, <3>2
  <2>4. un \in [Ids -> [Channels -> SUBSET Recips]] /\ dn \in [Ids -> [Channels -> SUBSET Recips]]
    <3>1. CASE un = undone /\ dn = done
      BY <2>2, <3>1
    <3>2. CASE un = [undone EXCEPT ![id][c] = @ \ {r}] /\ dn = [done EXCEPT ![id][c] = @ \cup {r}]
      <4>1. undone[id] \in [Channels -> SUBSET Recips] /\ done[id] \in [Channels -> SUBSET Recips]
        BY <1>5, <2>2
      <4>2. /\ [undone[id] EXCEPT ![c] = @ \ {r}] \in [Channels -> SUBSET Recips]
            /\ [done[id] EXCEPT ![c] = @ \cup {r}] \in [Channels -> SUBSET Recips]
        BY <1>2, <4>1
      <4> QED BY <2>2, <3>2, <4>2
    <3> QED BY <1>7, <3>1, <3>2
  <2>5. /\ \A x \in Ids, y \in Channels : x # id \/ y # c =>
              un[x][y] = undone[x][y] /\ dn[x][y] = done[x][y]
        /\ un[id][c] \subseteq undone[id][c]
    BY <1>5, <1>7, <2>2
  <2>6. /\ \A x \in Channels : \A k \in Slots(x) :
              del'[x][k] = del[x][k] \/ (del[x][k].j = j /\ del'[x][k] = NoDel)
        /\ \A x \in Channels : pass'[x] = pass[x]
    BY <1>1, <1>2, <1>11
  <2>7. job.refs = jo[j].refs /\ job.id = jo[j].id /\ job.channel = jo[j].channel
    BY <1>1, <1>2, <1>3
  <2> QED BY <1>2, <1>3, <1>4, <2>1, <2>3, <2>4, <2>5, <2>6, <2>7 DEF Leaving
<1>13. \A q \in undone[id][c] : q \in un[id][c] \/ Served(id, q)'
  <2> SUFFICES ASSUME NEW q \in undone[id][c], q \notin un[id][c] PROVE Served(id, q)'
    OBVIOUS
  <2>1. q = r /\ job.numtodo = before.numtodo - 1
    BY <1>5, <1>7 DEF Known, TypeOK, DirTypeOK
  <2> QED BY <1>9, <2>1
<1>14. ASSUME NEW q \in Recips, q \in un[id][c], ~Served(id, q)', ~Tried(j, q)',
              job.hiteof \/ (pass'[c].j = j /\ q \notin pass'[c].left)
       PROVE  job.numtodo > Cardinality(SlotsOf(j)')
  <2>1. CASE job = before
    BY <1>2, <1>10, <2>1 DEF JobRecords
  <2>2. CASE job.numtodo = before.numtodo - 1
    <3>1. q # r
      BY <1>9, <1>14, <2>2
    <3>2. ~Tried(j, q)
      <4> SUFFICES ASSUME NEW x \in Channels, NEW k \in Slots(x), del[x][k].j = j,
                          del[x][k].recip = q
                   PROVE  FALSE
        BY DEF Tried
      <4>1. del'[x][k] = del[x][k]
        BY <1>1, <1>11, <3>1
      <4>2. Tried(j, q)'
        BY <4>1 DEF Tried
      <4> QED BY <1>14, <4>2
    <3>3. ~Served(id, q)
      BY <1>5, <1>8, <1>14, ServedStays
    <3>4. q \in undone[id][c]
      BY <1>12, <1>3, <1>4, <1>14 DEF Leaving
    <3>5. Reached(j, q)
      BY <1>1, <1>2, <1>3, <1>14 DEF Reached
    <3>6. PutOff(j, q)
      BY <1>1, <1>2, <1>3, <1>4, <3>2, <3>3, <3>4, <3>5 DEF PutOff
    <3>7. before.numtodo > Cardinality(SlotsOf(j))
      BY <1>1, <1>2, <3>6 DEF RecipInv, Counted
    <3> QED BY <1>2, <1>10, <2>2, <3>7 DEF JobRecords
  <2> QED BY <1>7, <2>1, <2>2
<1> HIDE DEF Leaving
<1> QED BY <1>2, <1>3, <1>4, <1>5, <1>6, <1>8, <1>12, <1>13, <1>14, CloseRecips

-----------------------------------------------------------------------------
LEMMA NextRecips ==
  Known /\ RecipInv /\ ~StatFails /\ TypeOK' /\ InjectorInv' /\ StatesInv' /\ [Next]_vars
  => RecipInv'
<1> SUFFICES ASSUME Known, RecipInv, ~StatFails, TypeOK', InjectorInv', StatesInv', [Next]_vars
             PROVE  RecipInv'
  OBVIOUS
<1>1. CASE SendAlone
  <2>1. ASSUME NEW id \in Ids, RetryFailed(id) PROVE FALSE
    BY <2>1 DEF RetryFailed, Known, StatesInv, NoneFailed
  <2> QED BY <1>1, <2>1, StillRecips, EndRecips, PreprocessFailsRecips, PassOpenRecips,
          PassDeliverRecips, PassCloseRecips, DeliveryRecips DEF SendAlone
<1>2. ASSUME NEW id \in Ids, Ask(id) PROVE RecipInv'
  BY <1>2, PreprocessRecips, EndRecips DEF Ask
<1> QED BY <1>1, <1>2, InjectRecips, ReportRecips, DeliveryRecips, EndRecips, StillRecips,
           CleanRecips, StopRecips DEF Next

(* RecipInv in every reachable state: records, slots and counters agree,   *)
(* and numtodo of a job exceeds its deliveries under way as long as a      *)
(* record that was read needs another one.                                 *)
THEOREM RecipsCorrect == ~StatFails /\ Spec => []RecipInv
<1> SUFFICES ASSUME ~StatFails PROVE Spec => []RecipInv
  OBVIOUS
<1>1. Spec => []StatesInv
  BY StatesCorrect
<1>2. TypeOK /\ JobsInv /\ InjectorInv /\ StatesInv /\ RecipInv
         /\ TypeOK' /\ InjectorInv' /\ StatesInv' /\ [Next]_vars => RecipInv'
  BY NextRecips DEF Known
<1> QED BY <1>1, <1>2, InitRecips, TypeCorrect, JobTableCorrect, InjectorCorrect, PTL DEF Spec

(* As long as a message is in the queue, each of its recipients has a T    *)
(* record unless a copy was delivered or a failure noted: whatever fails,  *)
(* dies or crashes, and in whatever order reports come.                    *)
THEOREM NoneLost == ~StatFails /\ Spec => []NoRecipientLost
<1>1. RecipInv => NoRecipientLost
  BY DEF RecipInv, Accounted, Settled, NoRecipientLost
<1> QED BY <1>1, RecipsCorrect, PTL

(* Without channel files, everybody has been served.                       *)
LEMMA SettledServed ==
  ASSUME RecipInv, NEW id \in Ids, S5(id), ~HasChannel(id)
  PROVE  \A r \in rcpts[id] : Served(id, r)
BY DEF RecipInv, Accounted, Filed, Settled, HasChannel, Has

(* info/ goes away only when nobody has to be served any more.             *)
THEOREM EndsWithAllServed == ~StatFails /\ Spec => EndsServed
<1> SUFFICES ASSUME ~StatFails PROVE Spec => EndsServed
  OBVIOUS
<1>1. TypeOK /\ JobsInv /\ StatesInv /\ RecipInv /\ [Next]_vars =>
         [\A id \in Ids : S5(id) /\ "info" \notin files'[id] =>
             ~HasChannel(id) /\ \A r \in rcpts[id] : Served(id, r)]_vars
  <2> SUFFICES ASSUME TypeOK, JobsInv, StatesInv, RecipInv, [Next]_vars,
                      NEW id \in Ids, S5(id), "info" \notin files'[id]
               PROVE  ~HasChannel(id) /\ \A r \in rcpts[id] : Served(id, r)
    OBVIOUS
  <2>1. MessDoneEnds(id) \/ MessDoneFails(id) \/ BounceOver(id)
    BY NameStays DEF S5
  <2>2. CASE MessDoneEnds(id) \/ MessDoneFails(id)
    <3>1. ~HasChannel(id)
      BY <2>2 DEF MessDoneEnds, MessDoneFails, Finished
    <3> QED BY <3>1, SettledServed
  <2>3. CASE BounceOver(id)
    <3>1. send = "inject" /\ work.id = id
      BY <2>3 DEF BounceOver, BounceAccepted, BounceAcceptedFails, BounceRefused
    <3>2. ~HasChannel(id)
      BY <3>1 DEF StatesInv, BounceWhole
    <3> QED BY <3>2, SettledServed
  <2> QED BY <2>1, <2>2, <2>3
<1>2. Spec => []StatesInv /\ []RecipInv
  BY StatesCorrect, RecipsCorrect
<1> QED BY <1>1, <1>2, TypeCorrect, JobTableCorrect, PTL DEF Spec, EndsServed

-----------------------------------------------------------------------------
(* No recipient is served without need.  A delivery that succeeds, fails   *)
(* for good or is put off takes its slot with it only when its report has  *)
(* come, and markdone() is called before; so copies exceed one only by     *)
(* what a failing call, a dead spawner or a crash made qmail-send forget.  *)
(* The invariant counts: a success that waits in the pipe of a spawner is  *)
(* one copy more than the failures so far account for.  It rests on the    *)
(* slots: each is for a T record that the pass has gone past, and no two   *)
(* are for the same one.                                                   *)
(* Nothing has happened yet to the recipients of a message number.         *)
Fresh(id) == copies[id] = NoCopies /\ noted[id] = {}

FreshInv ==
    /\ \A id \in Ids : ~Has(id, "mess") \/ Has(id, "todo") => Fresh(id)
    /\ \A p \in Procs : qpc[p] \in Entering => Fresh(qid[p])

(* Lines are in files.                                                     *)
NotesFiled == \A id \in Ids : ~Has(id, "bounce") => notes[id] = {}

(* A recipient has records in one channel file only.                       *)
Records(id, c) == undone[id][c] \cup done[id][c]

OneFile ==
    \A id \in Ids : \A c, d \in Channels : c # d => Records(id, c) \cap Records(id, d) = {}

(* A slot is for a T record that the pass has gone past, and it is the     *)
(* only one for it.                                                        *)
JobId(c, i) == jo[del[c][i].j].id

SlotsInv ==
    \A c \in Channels : \A i \in Slots(c) : del[c][i] # NoDel =>
        /\ del[c][i].recip \in undone[JobId(c, i)][c]
        /\ pass[c].j = del[c][i].j => del[c][i].recip \notin pass[c].left
        /\ \A k \in Slots(c) :
              del[c][k].j = del[c][i].j /\ del[c][k].recip = del[c][i].recip => k = i

(* How many copies there may be of a recipient.  A success that waits to   *)
(* be reported is one more than the failures so far account for; what a    *)
(* spawner delivers that qmail-send has lost is one less, since nobody     *)
(* will hear of it.                                                        *)
Success(c, i, id, r) == del[c][i].st = "K" /\ JobId(c, i) = id /\ del[c][i].recip = r

Spent(c, i) == (IF del[c][i].st = "K" THEN 1 ELSE 0)
             - (IF ~spawnalive[c] /\ del[c][i].st \in {"spawn", "K"} THEN 1 ELSE 0)

Within == \A id \in Ids, r \in Recips : copies[id][r] <= 1 + faults

UndoneWithin ==
    \A id \in Ids, c \in Channels : \A r \in undone[id][c] :
        copies[id][r] <= faults \/ \E i \in Slots(c) : Success(c, i, id, r)

SlotsWithin ==
    \A c \in Channels : \A i \in Slots(c) : del[c][i] # NoDel =>
        copies[JobId(c, i)][del[c][i].recip] <= faults + Spent(c, i)

Budget == Within /\ UndoneWithin /\ SlotsWithin

CopiesInv == FreshInv /\ NotesFiled /\ OneFile /\ SlotsInv /\ Budget

-----------------------------------------------------------------------------
LEMMA CopiesTypes ==
  ASSUME TypeOK
  PROVE  /\ faults \in Nat /\ \A id \in Ids, r \in Recips : copies[id][r] \in Nat
         /\ undone \in [Ids -> [Channels -> SUBSET Recips]]
         /\ done \in [Ids -> [Channels -> SUBSET Recips]]
         /\ files \in [Ids -> SUBSET Kinds]
<1>1. copies \in [Ids -> [Recips -> Nat]]
  BY DEF TypeOK, HistoryTypeOK
<1> QED BY <1>1, FaultsAssumption DEF TypeOK, DirTypeOK

LEMMA FaultUp ==
  ASSUME TypeOK, NEW n \in Nat, Fault(n)
  PROVE  faults' \in Nat /\ faults' = faults + n /\ faults' >= faults
BY CopiesTypes DEF Fault

LEMMA InitCopies == Init => CopiesInv
<1> SUFFICES ASSUME Init PROVE CopiesInv
  OBVIOUS
<1>1. FreshInv
  BY DEF Init, DirInit, QueueInit, FreshInv, Fresh, Entering
<1>2. NotesFiled
  BY DEF Init, DirInit, NotesFiled
<1>3. \A id \in Ids, c \in Channels : undone[id][c] = {} /\ done[id][c] = {}
  BY DEF Init, DirInit, NoRecords
<1>4. OneFile
  BY <1>3 DEF OneFile, Records
<1>5. SlotsInv /\ SlotsWithin
  BY DEF Init, SendInit, SlotsInv, SlotsWithin
<1>6. Within /\ UndoneWithin
  BY <1>3 DEF Init, DirInit, Within, UndoneWithin, NoCopies
<1> QED BY <1>1, <1>2, <1>4, <1>5, <1>6 DEF CopiesInv, Budget

(* A step that starts no delivery and does not end one.                    *)
SlotKept(c, i) ==
    /\ del'[c][i] = del[c][i]
    /\ JobId(c, i)' = JobId(c, i)
    /\ del[c][i].recip \in undone'[JobId(c, i)][c]
    /\ pass'[c].j = del[c][i].j => pass'[c] = pass[c]
    /\ faults + Spent(c, i) <= faults' + Spent(c, i)'

UndoneKept(id, c, r) ==
    \/ copies'[id][r] <= faults'
    \/ /\ r \in undone[id][c]
       /\ \A i \in Slots(c) : Success(c, i, id, r) => del'[c][i] # NoDel

LEMMA KeptCopies ==
  ASSUME Known, TypeOK', CopiesInv, FreshInv', NotesFiled', OneFile', faults' >= faults,
         \A id \in Ids, r \in Recips : copies'[id][r] <= copies[id][r],
         \A c \in Channels : \A i \in Slots(c) : del'[c][i] # NoDel => SlotKept(c, i),
         \A id \in Ids, c \in Channels : \A r \in undone'[id][c] : UndoneKept(id, c, r)
  PROVE  CopiesInv'
<1> USE DEF Known
<1>1. faults \in Nat /\ \A id \in Ids, r \in Recips : copies[id][r] \in Nat
  BY CopiesTypes
<1>2. faults' \in Nat /\ \A id \in Ids, r \in Recips : copies'[id][r] \in Nat
  <2>1. copies' \in [Ids -> [Recips -> Nat]]
    BY DEF TypeOK, HistoryTypeOK
  <2> QED BY <2>1, FaultsAssumption DEF TypeOK, DirTypeOK
<1>3. Within'
  <2> SUFFICES ASSUME NEW id \in Ids, NEW r \in Recips PROVE copies'[id][r] <= 1 + faults'
    BY DEF Within
  <2>1. copies[id][r] <= 1 + faults
    BY DEF CopiesInv, Budget, Within
  <2> QED BY <1>1, <1>2, <2>1
<1>4. SlotsInv'
  <2> SUFFICES ASSUME NEW c \in Channels, NEW i \in Slots(c), del'[c][i] # NoDel
               PROVE  /\ del'[c][i].recip \in undone'[JobId(c, i)'][c]
                      /\ pass'[c].j = del'[c][i].j => del'[c][i].recip \notin pass'[c].left
                      /\ \A k \in Slots(c) : /\ del'[c][k].j = del'[c][i].j
                                             /\ del'[c][k].recip = del'[c][i].recip
                                             => k = i
    BY DEF SlotsInv
  <2>1. SlotKept(c, i) /\ del[c][i] # NoDel /\ del'[c][i] = del[c][i]
    BY DEF SlotKept
  <2>2. ASSUME NEW k \in Slots(c), del'[c][k].j = del'[c][i].j,
               del'[c][k].recip = del'[c][i].recip
        PROVE  k = i
    <3>1. del'[c][k] # NoDel
      BY <2>1, <2>2, SlotUsed DEF NoDel, Jobs
    <3>2. del'[c][k] = del[c][k]
      BY <3>1 DEF SlotKept
    <3> QED BY <2>1, <2>2, <3>2 DEF CopiesInv, SlotsInv
  <2> QED BY <2>1, <2>2 DEF SlotKept, CopiesInv, SlotsInv
<1>5. UndoneWithin'
  <2> SUFFICES ASSUME NEW id \in Ids, NEW c \in Channels, NEW r \in undone'[id][c]
               PROVE  copies'[id][r] <= faults' \/ \E i \in Slots(c) : Success(c, i, id, r)'
    BY DEF UndoneWithin
  <2>0. r \in Recips
    BY DEF TypeOK, DirTypeOK
  <2>1. CASE copies'[id][r] <= faults'
    BY <2>1
  <2>2. CASE /\ r \in undone[id][c]
             /\ \A i \in Slots(c) : Success(c, i, id, r) => del'[c][i] # NoDel
    <3>1. CASE copies[id][r] <= faults
      BY <1>1, <1>2, <2>0, <3>1
    <3>2. ASSUME NEW i \in Slots(c), Success(c, i, id, r) PROVE Success(c, i, id, r)'
      BY <2>2, <3>2 DEF SlotKept, Success
    <3> QED BY <2>2, <3>1, <3>2 DEF CopiesInv, Budget, UndoneWithin
  <2> QED BY <2>1, <2>2 DEF UndoneKept
<1>6. SlotsWithin'
  <2> SUFFICES ASSUME NEW c \in Channels, NEW i \in Slots(c), del'[c][i] # NoDel
               PROVE  copies'[JobId(c, i)'][del'[c][i].recip] <= faults' + Spent(c, i)'
    BY DEF SlotsWithin
  <2>1. SlotKept(c, i) /\ del[c][i] # NoDel /\ del'[c][i] = del[c][i]
    BY DEF SlotKept
  <2>2. PICK id, r : id = JobId(c, i) /\ r = del[c][i].recip
    OBVIOUS
  <2>3. id \in Ids /\ r \in Recips
    BY <2>1, <2>2, SlotNames DEF JobId
  <2>4. copies[id][r] <= faults + Spent(c, i)
    BY <2>1, <2>2 DEF CopiesInv, Budget, SlotsWithin
  <2>5. Spent(c, i) \in Int /\ Spent(c, i)' \in Int
    BY DEF Spent
  <2>6. faults + Spent(c, i) <= faults' + Spent(c, i)' /\ JobId(c, i)' = id
    BY <2>1, <2>2 DEF SlotKept
  <2>7. copies'[id][r] <= copies[id][r] /\ copies'[id][r] \in Nat /\ copies[id][r] \in Nat
    BY <1>1, <1>2, <2>3
  <2>8. copies'[id][r] <= faults' + Spent(c, i)'
    <3> HIDE DEF Spent
    <3> QED BY <1>1, <1>2, <2>4, <2>5, <2>6, <2>7
  <2> QED BY <2>1, <2>2, <2>6, <2>8
<1> QED BY <1>3, <1>4, <1>5, <1>6 DEF CopiesInv, Budget

(* Steps that leave the tables and the records alone.                      *)
LEMMA QuietCopies ==
  ASSUME Known, TypeOK', CopiesInv, FreshInv', NotesFiled', faults' >= faults,
         UNCHANGED <<undone, done, jo, pass, del>>,
         \A id \in Ids, r \in Recips : copies'[id][r] <= copies[id][r],
         \A c \in Channels : spawnalive'[c] = spawnalive[c] \/ faults' = faults + 1
  PROVE  CopiesInv'
<1> USE DEF Known
<1>1. OneFile'
  BY DEF CopiesInv, OneFile, Records
<1>2. ASSUME NEW c \in Channels, NEW i \in Slots(c), del'[c][i] # NoDel PROVE SlotKept(c, i)
  <2>1. faults \in Nat
    BY CopiesTypes
  <2>2. faults + Spent(c, i) <= faults' + Spent(c, i)'
    <3>1. CASE spawnalive'[c] = spawnalive[c]
      <4>1. Spent(c, i)' = Spent(c, i) /\ Spent(c, i) \in Int
        BY <3>1 DEF Spent
      <4>2. faults' \in Nat
        BY FaultsAssumption DEF TypeOK, DirTypeOK
      <4> HIDE DEF Spent
      <4> QED BY <2>1, <4>1, <4>2
    <3>2. CASE faults' = faults + 1
      BY <2>1, <3>2 DEF Spent
    <3> QED BY <3>1, <3>2
  <2> QED BY <1>2, <2>2 DEF SlotKept, JobId, CopiesInv, SlotsInv
<1>3. ASSUME NEW id \in Ids, NEW c \in Channels, NEW r \in undone'[id][c]
      PROVE  UndoneKept(id, c, r)
  BY DEF UndoneKept, Success, NoDel
<1> QED BY <1>1, <1>2, <1>3, KeptCopies

LEMMA SameCopies ==
  ASSUME TypeOK, UNCHANGED copies
  PROVE  \A id \in Ids, r \in Recips : copies'[id][r] <= copies[id][r]
BY CopiesTypes

(* What becomes of a fresh number.                                         *)
LEMMA KeptFresh ==
  ASSUME FreshInv,
         \A id \in Ids : Fresh(id) => Fresh(id)',
         \A id \in Ids : "mess" \notin files'[id] \/ "todo" \in files'[id] =>
            "mess" \notin files[id] \/ "todo" \in files[id] \/ Fresh(id)',
         \A p \in Procs : qpc'[p] \in Entering =>
            \/ qpc[p] \in Entering /\ qid'[p] = qid[p] /\ qid[p] \in Ids
            \/ \E id \in Ids : qid'[p] = id /\ Fresh(id)'
  PROVE  FreshInv'
<1>1. ASSUME NEW id \in Ids, "mess" \notin files'[id] \/ "todo" \in files'[id]
      PROVE  Fresh(id)'
  BY <1>1 DEF FreshInv, Has
<1>2. ASSUME NEW p \in Procs, qpc'[p] \in Entering
      PROVE  copies'[qid'[p]] = NoCopies /\ noted'[qid'[p]] = {}
  <2>1. PICK id \in Ids : qid'[p] = id /\ Fresh(id)'
    BY <1>2 DEF FreshInv
  <2> QED BY <2>1 DEF Fresh
<1> QED BY <1>1, <1>2 DEF FreshInv, Has, Fresh

LEMMA EnteringIds ==
  ASSUME InjectorInv, NEW p \in Procs, qpc[p] \in Entering
  PROVE  qid[p] \in Ids
BY DEF InjectorInv, OwnInode, Entering, Live

(* qmail-queue.                                                            *)
LEMMA InjectCopies ==
  ASSUME Known, TypeOK', CopiesInv, NEW p \in Procs,
         Inject(p) \/ InjectFails(p) \/ Envelope(p) \/ Queue(p)
  PROVE  CopiesInv'
<1> USE DEF Known
<1>1. /\ UNCHANGED <<jo, pass, del, spawnalive, copies, noted>>
      /\ files \in [Ids -> SUBSET Kinds] /\ notes \in [Ids -> SUBSET Recips]
      /\ qpc \in [Procs -> Live \cup {"idle", "ok", "err"}] /\ qid \in [Procs -> Ids \cup {NoId}]
      /\ faults \in Nat
  BY CopiesTypes DEF Inject, InjectFails, Envelope, Queue, sendVars, history, TypeOK, DirTypeOK,
     QueueTypeOK
<1>2. /\ undone' = undone /\ done' = done
      /\ faults' = faults \/ Fault(1)
      /\ \A x \in Ids : /\ "bounce" \in files[x] => "bounce" \in files'[x]
                        /\ notes'[x] = notes[x]
                        /\ "mess" \notin files'[x] \/ "todo" \in files'[x] =>
                             \/ "mess" \notin files[x] \/ "todo" \in files[x]
                             \/ qpc[p] \in Entering /\ qid[p] = x
      /\ \A q \in Procs : qpc'[q] \in Entering =>
            \/ qpc[q] \in Entering /\ qid'[q] = qid[q]
            \/ qid'[q] \in Ids /\ "mess" \notin files[qid'[q]]
  <2>1. CASE PidOpen(p)
    BY <1>1, <2>1 DEF PidOpen, Create, FreeIds, Free, Named
  <2>2. CASE LinkMess(p) \/ OpenIntd(p) \/ LinkTodo(p)
    BY <1>1, <2>2 DEF LinkMess, OpenIntd, LinkTodo, Create, Step, Entering
  <2>3. CASE UnlinkPid(p)
    BY <1>1, <2>3, UnlinkRecords DEF UnlinkPid, Step, Entering, Unlink, Channels
  <2>4. CASE DieCleaning(p)
    <3>1. PICK ks \in {{}, {"mess"}, {"intd"}, {"intd", "mess"}} :
             Unlink(qid[p], ks) /\ (faults' = faults \/ Fault(1))
      BY <2>4 DEF DieCleaning, CleanedUp
    <3>2. ks \cap Channels = {}
      BY DEF Channels
    <3>3. /\ undone' = undone /\ done' = done
          /\ \A x \in Ids : x # qid[p] => files'[x] = files[x]
          /\ \A x \in Ids : "bounce" \in files[x] => "bounce" \in files'[x]
      BY <3>1, <3>2, UnlinkRecords
    <3>4. \A x \in Ids : notes'[x] = notes[x]
      BY <1>1, <3>1 DEF Unlink
    <3>5. \A x \in Ids : "todo" \in files'[x] => "todo" \in files[x]
      BY <1>1, <3>1 DEF Unlink
    <3>6. qpc[p] \in Entering /\ \A q \in Procs : qpc'[q] \in Entering => qpc'[q] = qpc[q] /\ qid'[q] = qid[q]
      BY <1>1, <2>4 DEF DieCleaning, Exit, Entering
    <3> QED BY <3>1, <3>3, <3>4, <3>5, <3>6
  <2>5. CASE ExitOk(p) \/ PidOpenFails(p) \/ DieLeaving(p) \/ Alarm(p)
    BY <1>1, <2>5 DEF ExitOk, PidOpenFails, DieLeaving, Alarm, Exit, Entering, dirVars
  <2>6. CASE WriteBody(p) \/ \E s, rs : WriteEnvelope(p, s, rs)
    BY <1>1, <2>6 DEF WriteBody, WriteEnvelope, Step, Entering
  <2> QED BY <2>1, <2>2, <2>3, <2>4, <2>5, <2>6 DEF Inject, InjectFails, Envelope, Queue
<1>3. FreshInv'
  <2>1. \A x \in Ids : Fresh(x)' <=> Fresh(x)
    BY <1>1 DEF Fresh
  <2>2. \A q \in Procs : qpc[q] \in Entering => qid[q] \in Ids /\ Fresh(qid[q])
    BY EnteringIds DEF CopiesInv, FreshInv
  <2>3. \A x \in Ids : "mess" \notin files[x] => Fresh(x)
    BY DEF CopiesInv, FreshInv, Has
  <2>4. FreshInv
    BY DEF CopiesInv
  <2> HIDE DEF Fresh
  <2> QED BY <1>2, <2>1, <2>2, <2>3, <2>4, KeptFresh
<1>4. NotesFiled'
  BY <1>2 DEF CopiesInv, NotesFiled, Has
<1>5. faults' >= faults
  BY <1>1, <1>2, FaultUp
<1> QED BY <1>1, <1>2, <1>3, <1>4, <1>5, QuietCopies, SameCopies

(* qmail-clean.  It ends the history of a number with mess/.               *)
LEMMA CleanCopies ==
  ASSUME Known, TypeOK', StatesInv', CopiesInv, Clean
  PROVE  CopiesInv'
<1> USE DEF Known
<1>1. /\ UNCHANGED <<jo, pass, del, spawnalive, qpc, qid>>
      /\ files \in [Ids -> SUBSET Kinds] /\ notes \in [Ids -> SUBSET Recips]
      /\ copies' = [id \in Ids |-> IF "mess" \in files'[id] THEN copies[id] ELSE NoCopies]
      /\ noted' = [id \in Ids |-> IF "mess" \in files'[id] THEN noted[id] ELSE {}]
      /\ copies \in [Ids -> [Recips -> Nat]] /\ noted \in [Ids -> SUBSET Recips]
      /\ faults \in Nat
  BY CopiesTypes DEF Clean, sendVars, queueVars, TypeOK, DirTypeOK, HistoryTypeOK
<1>2. /\ undone' = undone /\ done' = done /\ notes' = notes
      /\ faults' = faults \/ Fault(1)
      /\ \A x \in Ids : /\ "bounce" \in files[x] => "bounce" \in files'[x]
                        /\ "todo" \in files'[x] => "todo" \in files[x]
  <2>1. CASE UnlinkIntd \/ UnlinkLast \/ DiesUnanswered
    <3>1. PICK k \in {"intd", "mess", "todo"} : Unlink(creq.id, {k}) /\ (faults' = faults \/ Fault(1))
      BY <2>1 DEF UnlinkIntd, UnlinkLast, DiesUnanswered, First, Last
    <3>2. {k} \cap Channels = {}
      BY DEF Channels
    <3>3. undone' = undone /\ done' = done
          /\ \A x \in Ids : /\ files'[x] \subseteq files[x]
                            /\ "bounce" \in files[x] => "bounce" \in files'[x]
      BY <3>1, <3>2, UnlinkRecords
    <3>4. notes' = notes
      BY <1>1, <3>1 DEF Unlink
    <3> QED BY <3>1, <3>3, <3>4
  <2>2. CASE SkipPids \/ CleanPids \/ ReadRequest \/ UnlinkFails \/ CleanDies
    BY <1>1, <2>2 DEF SkipPids, CleanPids, ReadRequest, UnlinkFails, CleanDies, dirVars
  <2> QED BY <2>1, <2>2 DEF Clean, CleanNext
<1>3. FreshInv'
  <2>1. ASSUME NEW x \in Ids PROVE /\ Fresh(x) => Fresh(x)'
                                   /\ "mess" \notin files'[x] => Fresh(x)'
    BY <1>1 DEF Fresh
  <2>2. FreshInv
    BY DEF CopiesInv
  <2> HIDE DEF Fresh
  <2> QED BY <1>1, <1>2, <2>1, <2>2, EnteringIds, KeptFresh
<1>4. NotesFiled'
  BY <1>2 DEF CopiesInv, NotesFiled, Has
<1>5. faults' >= faults
  BY <1>1, <1>2, FaultUp
<1>6. ASSUME NEW id \in Ids, NEW r \in Recips PROVE copies'[id][r] <= copies[id][r]
  <2>1. copies'[id] = copies[id] \/ copies'[id] = NoCopies
    BY <1>1
  <2>2. copies[id][r] \in Nat /\ NoCopies[r] = 0
    BY <1>1 DEF NoCopies
  <2> QED BY <2>1, <2>2
<1> QED BY <1>1, <1>2, <1>3, <1>4, <1>5, <1>6, QuietCopies

(* Handlers of qmail-send that work on no record, the answers of           *)
(* qmail-clean, and the clock.                                             *)
LEMMA StillCopies ==
  ASSUME Known, TypeOK', CopiesInv,
         \/ /\ \/ Start \/ Term
               \/ \E id \in Ids : MessDoneReturns(id) \/ MessDoneBounces(id) \/ Expire(id)
               \/ \E c \in Channels : SpawnDied(c)
            /\ UNCHANGED <<queueVars, cleanVars, history>>
         \/ \E id \in Ids : Cleanup(id) /\ UNCHANGED <<queueVars, history>>
         \/ Answer \/ Tick \/ UNCHANGED vars
  PROVE  CopiesInv'
<1> USE DEF Known
<1>1. /\ UNCHANGED <<undone, done, notes, copies, noted, jo, pass, del, files, qpc, qid>>
      /\ \/ spawnalive' = spawnalive /\ (faults' = faults \/ \E n \in Nat : Fault(n))
         \/ Fault(1)
  <2>1. CASE Start /\ UNCHANGED <<queueVars, history>>
    <3>1. \A bad \in SUBSET {id \in Ids : StatFails /\ Has(id, "info")} : Cardinality(bad) \in Nat
      BY IdsAssumption, FS_Subset, FS_CardinalityType
    <3>2. \E n \in Nat : Fault(n)
      BY <2>1, <3>1 DEF Start
    <3> QED BY <2>1, <3>2 DEF Start, queueVars, history, tables, flags, contents
  <2>2. CASE (Term \/ \E c \in Channels : SpawnDied(c)) /\ UNCHANGED <<queueVars, history>>
    BY <2>2 DEF Term, SpawnDied, queueVars, history, tables, contents
  <2>3. CASE /\ \E id \in Ids : MessDoneReturns(id) \/ MessDoneBounces(id) \/ Expire(id) \/ Cleanup(id)
             /\ UNCHANGED <<queueVars, history>>
    BY <2>3 DEF MessDoneReturns, MessDoneBounces, Expire, Cleanup, dirVars, queueVars, history,
       tables, flags
  <2>4. CASE Answer
    BY <2>4 DEF Answer, Preprocessed, Answered, CleanDied, dirVars, queueVars, history,
       tables, flags
  <2>5. CASE Tick \/ UNCHANGED vars
    BY <2>5 DEF Tick, vars, dirVars, queueVars, sendVars, history
  <2> QED BY <2>1, <2>2, <2>3, <2>4, <2>5
<1>2. FreshInv'
  BY <1>1 DEF CopiesInv, FreshInv, Fresh, Has
<1>3. NotesFiled'
  BY <1>1 DEF CopiesInv, NotesFiled, Has
<1>4. /\ faults' >= faults
      /\ \A c \in Channels : spawnalive'[c] = spawnalive[c] \/ faults' = faults + 1
  BY <1>1, FaultUp, CopiesTypes
<1> QED BY <1>1, <1>2, <1>3, <1>4, QuietCopies, SameCopies

(* The end of a message.                                                   *)
LEMMA EndCopies ==
  ASSUME Known, TypeOK', CopiesInv, NEW id \in Ids,
         \/ MessDoneFails(id) /\ UNCHANGED <<queueVars, cleanVars, history>>
         \/ MessDoneEnds(id) /\ UNCHANGED <<queueVars, history>>
         \/ BounceOver(id)
  PROVE  CopiesInv'
<1> USE DEF Known
<1>1. /\ UNCHANGED <<jo, pass, del, copies, noted, spawnalive>>
      /\ files \in [Ids -> SUBSET Kinds] /\ notes \in [Ids -> SUBSET Recips]
      /\ qpc \in [Procs -> Live \cup {"idle", "ok", "err"}]
  BY DEF MessDoneFails, EndMessFails, MessDoneEnds, EndMess, BounceOver, BounceAccepted,
     BounceAcceptedFails, BounceRefused, tables, flags, history, TypeOK, DirTypeOK, QueueTypeOK
<1>2. /\ undone' = undone /\ done' = done
      /\ faults' = faults \/ Fault(1)
      /\ \A x \in Ids : /\ "mess" \in files[x] => "mess" \in files'[x]
                        /\ "todo" \in files'[x] => "todo" \in files[x]
                        /\ \/ notes'[x] = notes[x] /\ ("bounce" \in files[x] => "bounce" \in files'[x])
                           \/ notes'[x] = {}
  <2>1. CASE EndMess(id) \/ \E pq : EndMessFails(id, pq)
    <3>1. PICK ks \in {{}, {"bounce"}, {"bounce", "info"}} :
             Unlink(id, ks) /\ (faults' = faults \/ Fault(1))
      BY <2>1 DEF EndMess, EndMessFails
    <3>2. ks \cap Channels = {} /\ "mess" \notin ks
      BY DEF Channels
    <3>3. /\ undone' = undone /\ done' = done
          /\ \A x \in Ids : /\ files'[x] \subseteq files[x]
                            /\ "mess" \in files[x] => "mess" \in files'[x]
                            /\ "bounce" \notin ks => ("bounce" \in files[x] => "bounce" \in files'[x])
                            /\ x # id => files'[x] = files[x]
      BY <3>1, <3>2, UnlinkRecords
    <3>4. \A x \in Ids : notes'[x] = IF x = id /\ "bounce" \in ks THEN {} ELSE notes[x]
      BY <1>1, <3>1 DEF Unlink
    <3> QED BY <3>1, <3>3, <3>4
  <2>2. CASE BounceRefused(id)
    BY <2>2 DEF BounceRefused, dirVars
  <2> QED BY <2>1, <2>2 DEF MessDoneFails, MessDoneEnds, BounceOver, BounceAccepted,
          BounceAcceptedFails
<1>3. \A p \in Procs : qpc'[p] \in Entering => qpc[p] \in Entering /\ qid'[p] = qid[p]
  BY <1>1 DEF MessDoneFails, MessDoneEnds, BounceOver, Reap, queueVars, Entering
<1>4. FreshInv'
  <2>1. \A x \in Ids : Fresh(x)' <=> Fresh(x)
    BY <1>1 DEF Fresh
  <2>2. FreshInv
    BY DEF CopiesInv
  <2> HIDE DEF Fresh
  <2> QED BY <1>2, <1>3, <2>1, <2>2, EnteringIds, KeptFresh
<1>5. NotesFiled'
  BY <1>2 DEF CopiesInv, NotesFiled, Has
<1>6. faults' >= faults
  BY <1>2, FaultUp, CopiesTypes
<1> QED BY <1>1, <1>2, <1>4, <1>5, <1>6, QuietCopies, SameCopies

(* A recipient of a message has one slot at most, in whichever channel.    *)
LEMMA SlotOnly ==
  ASSUME Known, CopiesInv,
         NEW c \in Channels, NEW i \in Slots(c), del[c][i] # NoDel,
         NEW x \in Channels, NEW k \in Slots(x), del[x][k] # NoDel,
         JobId(x, k) = JobId(c, i), del[x][k].recip = del[c][i].recip
  PROVE  x = c /\ k = i
<1> USE DEF Known
<1>1. /\ del[c][i].recip \in undone[JobId(c, i)][c] /\ del[x][k].recip \in undone[JobId(x, k)][x]
      /\ JobId(c, i) \in Ids
  BY SlotNames DEF CopiesInv, SlotsInv, JobId
<1>2. x = c
  BY <1>1 DEF CopiesInv, OneFile, Records
<1>3. /\ del[x][k].j \in Jobs /\ Open(del[x][k].j) /\ jo[del[x][k].j].channel = x
      /\ del[c][i].j \in Jobs /\ Open(del[c][i].j) /\ jo[del[c][i].j].channel = c
  BY SlotNames, Refers
<1>4. del[x][k].j = del[c][i].j
  BY <1>2, <1>3 DEF StatesInv, OneClaim, JobId
<1> QED BY <1>2, <1>4 DEF CopiesInv, SlotsInv

LEMMA OneFileKept ==
  ASSUME OneFile,
         \A id \in Ids, c \in Channels : undone'[id][c] \cup done'[id][c] \subseteq Records(id, c)
  PROVE  OneFile'
BY DEF OneFile, Records

(* qmail-send exits, or the machine stops.  A success that a live spawner  *)
(* has reported is not left unread by an exit; one that is lost in a crash *)
(* has the crash to account for it.                                        *)
LEMMA StopCopies ==
  ASSUME Known, TypeOK', CopiesInv, Exits \/ Crash
  PROVE  CopiesInv'
<1> USE DEF Known
<1>1. /\ Forget /\ UNCHANGED <<files, copies, noted>>
      /\ faults \in Nat /\ \A id \in Ids, r \in Recips : copies[id][r] \in Nat
      /\ undone \in [Ids -> [Channels -> SUBSET Recips]]
  BY CopiesTypes DEF Exits, SendExit, Crash, history, dirVars
<1>2. /\ \A id \in Ids : notes'[id] \subseteq notes[id]
      /\ \A id \in Ids, c \in Channels :
            /\ undone'[id][c] \cup done'[id][c] \subseteq Records(id, c)
            /\ undone'[id][c] \subseteq Recips
      /\ \A p \in Procs : qpc'[p] \in Entering => qpc[p] \in Entering /\ qid'[p] = qid[p]
  <2>1. CASE Exits
    BY <1>1, <2>1 DEF Exits, SendExit, dirVars, queueVars, Records
  <2>2. CASE Crash
    <3>1. PICK lost \in SUBSET Marks :
            /\ undone' = [id \in Ids |-> [c \in Channels |->
                            undone[id][c] \cup {r \in Recips : <<id, c, r>> \in lost}]]
            /\ done' = [id \in Ids |-> [c \in Channels |->
                            done[id][c] \ {r \in Recips : <<id, c, r>> \in lost}]]
      BY <2>2 DEF Crash
    <3>2. \A p \in Procs : qpc'[p] \notin Entering
      BY <2>2 DEF Crash, Entering
    <3>3. \A id \in Ids : notes'[id] \subseteq notes[id]
      BY <2>2 DEF Crash
    <3> QED BY <1>1, <3>1, <3>2, <3>3 DEF Marks, Records
  <2> QED BY <2>1, <2>2
<1>3. FreshInv'
  <2>1. \A x \in Ids : Fresh(x)' <=> Fresh(x)
    BY <1>1 DEF Fresh
  <2>2. FreshInv
    BY DEF CopiesInv
  <2> HIDE DEF Fresh
  <2> QED BY <1>1, <1>2, <2>1, <2>2, EnteringIds, KeptFresh
<1>4. NotesFiled'
  BY <1>1, <1>2 DEF CopiesInv, NotesFiled, Has
<1>5. OneFile'
  BY <1>2, OneFileKept DEF CopiesInv
<1>6. faults' >= faults
  <2>1. faults' = faults \/ Fault(1)
    BY DEF Exits, SendExit, dirVars, Crash
  <2> QED BY <1>1, <2>1, FaultUp
<1>7. \A c \in Channels : \A i \in Slots(c) : del'[c][i] = NoDel
  BY <1>1 DEF Forget
<1>8. ASSUME NEW id \in Ids, NEW c \in Channels, NEW r \in undone'[id][c]
      PROVE  copies[id][r] <= faults'
  <2>0. r \in Recips
    BY <1>2
  <2>1. CASE Crash
    <3>1. faults' = faults + 1
      BY <2>1, FaultUp DEF Crash
    <3>2. copies[id][r] <= 1 + faults
      BY <2>0 DEF CopiesInv, Budget, Within
    <3> QED BY <1>1, <2>0, <3>1, <3>2
  <2>2. CASE Exits
    <3>1. faults' = faults /\ undone' = undone /\ CanExit
      BY <2>2 DEF Exits, SendExit, dirVars
    <3>2. ASSUME NEW i \in Slots(c), Success(c, i, id, r) PROVE copies[id][r] <= faults
      <4>1. del[c][i] # NoDel /\ del[c][i].st = "K"
        BY <3>2 DEF Success, NoDel
      <4>2. ~spawnalive[c]
        BY <3>1, <4>1 DEF CanExit, SlotsFree
      <4>3. copies[id][r] <= faults + Spent(c, i)
        BY <3>2, <4>1 DEF Success, CopiesInv, Budget, SlotsWithin
      <4>4. Spent(c, i) = 0
        BY <4>1, <4>2 DEF Spent
      <4> QED BY <1>1, <4>3, <4>4
    <3> QED BY <3>1, <3>2 DEF CopiesInv, Budget, UndoneWithin
  <2> QED BY <2>1, <2>2
<1>9. \A id \in Ids, c \in Channels : \A r \in undone'[id][c] : UndoneKept(id, c, r)
  BY <1>1, <1>8 DEF UndoneKept
<1> QED BY <1>1, <1>3, <1>4, <1>5, <1>6, <1>7, <1>9, KeptCopies, SameCopies

-----------------------------------------------------------------------------
(* Preprocessing.  Nothing has been done for the message yet, and no job   *)
(* is open on it.                                                          *)
LEMMA IdleCopies ==
  ASSUME Known, TypeOK', CopiesInv, NEW id \in Ids, "todo" \in files[id], OneFile',
         UNCHANGED <<jo, pass, del, spawnalive, copies, noted, queueVars>>, faults' >= faults,
         \A x \in Ids : x # id => files'[x] = files[x] /\ undone'[x] = undone[x],
         files'[id] \ Remade = files[id] \ Remade,
         \A x \in Ids : notes'[x] \subseteq notes[x]
  PROVE  CopiesInv'
<1> USE DEF Known
<1>1. FreshInv'
  <2>1. \A x \in Ids : Fresh(x)' <=> Fresh(x)
    BY DEF Fresh
  <2>2. FreshInv
    BY DEF CopiesInv
  <2>3. \A x \in Ids : /\ "mess" \in files[x] => "mess" \in files'[x]
                       /\ "todo" \in files'[x] => "todo" \in files[x]
                       /\ "bounce" \in files[x] => "bounce" \in files'[x]
    BY DEF Remade, Channels
  <2> HIDE DEF Fresh
  <2> QED BY <2>1, <2>2, <2>3, EnteringIds, KeptFresh DEF queueVars
<1>2. NotesFiled'
  BY DEF CopiesInv, NotesFiled, Has, Remade, Channels
<1>3. ~S5(id) /\ Fresh(id)
  BY DEF S5, Has, CopiesInv, FreshInv
<1>4. \A c \in Channels : \A i \in Slots(c) : del[c][i] # NoDel => JobId(c, i) \in Ids /\ JobId(c, i) # id
  BY <1>3, SlotNames, Unclaimed DEF JobId
<1>5. ASSUME NEW c \in Channels, NEW i \in Slots(c), del'[c][i] # NoDel PROVE SlotKept(c, i)
  <2>1. JobId(c, i)' = JobId(c, i) /\ Spent(c, i)' = Spent(c, i) /\ Spent(c, i) \in Int
    BY DEF JobId, Spent
  <2>2. faults \in Nat /\ faults' \in Nat
    BY FaultsAssumption DEF TypeOK, DirTypeOK
  <2>3. faults + Spent(c, i) <= faults' + Spent(c, i)'
    <3> HIDE DEF Spent
    <3> QED BY <2>1, <2>2
  <2> QED BY <1>4, <1>5, <2>1, <2>3 DEF SlotKept, CopiesInv, SlotsInv
<1>6. ASSUME NEW x \in Ids, NEW c \in Channels, NEW r \in undone'[x][c]
      PROVE  UndoneKept(x, c, r)
  <2>1. CASE x # id
    BY <1>6, <2>1 DEF UndoneKept, Success, NoDel
  <2>2. CASE x = id
    <3>1. r \in Recips
      BY <1>6 DEF TypeOK, DirTypeOK
    <3>2. copies'[x][r] = 0
      BY <1>3, <2>2, <3>1 DEF Fresh, NoCopies
    <3>3. faults' \in Nat
      BY FaultsAssumption DEF TypeOK, DirTypeOK
    <3> QED BY <3>2, <3>3 DEF UndoneKept
  <2> QED BY <2>1, <2>2
<1> QED BY <1>1, <1>2, <1>5, <1>6, KeptCopies, SameCopies

LEMMA PreprocessCopies ==
  ASSUME Known, TypeOK', CopiesInv, NEW id \in Ids, Preprocess(id), UNCHANGED <<queueVars, history>>
  PROVE  CopiesInv'
<1> USE DEF Known
<1>1. /\ files \in [Ids -> SUBSET Kinds] /\ undone \in [Ids -> [Channels -> SUBSET Recips]]
      /\ done \in [Ids -> [Channels -> SUBSET Recips]] /\ "todo" \in files[id]
      /\ UNCHANGED <<jo, pass, del, spawnalive, copies, noted, notes, faults>>
  BY DEF TypeOK, DirTypeOK, Preprocess, Preprocessable, Has, tables, history
<1>2. PICK route \in [rcpts[id] -> Channels] :
         /\ files' = [files EXCEPT ![id] =
                        (@ \ Remade) \cup ({"info"} \cup {route[r] : r \in rcpts[id]})]
         /\ undone' = [undone EXCEPT ![id] =
                        [c \in Channels |-> {r \in rcpts[id] : route[r] = c}]]
         /\ done' = [done EXCEPT ![id] = NoRecords]
  BY DEF Preprocess
<1>3. /\ \A c \in Channels : undone'[id][c] = {r \in rcpts[id] : route[r] = c}
      /\ \A c \in Channels : done'[id][c] = {}
      /\ files'[id] = (files[id] \ Remade) \cup ({"info"} \cup {route[r] : r \in rcpts[id]})
      /\ \A x \in Ids : x # id => /\ files'[x] = files[x]
                                  /\ undone'[x] = undone[x] /\ done'[x] = done[x]
  BY <1>1, <1>2 DEF NoRecords
<1>4. OneFile'
  <2> SUFFICES ASSUME NEW x \in Ids, NEW c \in Channels, NEW d \in Channels, c # d
               PROVE  (undone'[x][c] \cup done'[x][c]) \cap (undone'[x][d] \cup done'[x][d]) = {}
    BY DEF OneFile, Records
  <2>1. CASE x = id
    BY <1>3, <2>1
  <2>2. CASE x # id
    BY <1>3, <2>2 DEF CopiesInv, OneFile, Records
  <2> QED BY <2>1, <2>2
<1>5. files'[id] \ Remade = files[id] \ Remade
  BY <1>3 DEF Remade
<1>6. faults' >= faults
  BY <1>1, CopiesTypes
<1> QED BY <1>1, <1>3, <1>4, <1>5, <1>6, IdleCopies

LEMMA PreprocessFailsCopies ==
  ASSUME Known, TypeOK', CopiesInv, NEW id \in Ids, PreprocessFails(id),
         UNCHANGED <<queueVars, history>>
  PROVE  CopiesInv'
<1> USE DEF Known
<1>1. /\ files \in [Ids -> SUBSET Kinds] /\ undone \in [Ids -> [Channels -> SUBSET Recips]]
      /\ done \in [Ids -> [Channels -> SUBSET Recips]] /\ notes \in [Ids -> SUBSET Recips]
      /\ "todo" \in files[id] /\ UNCHANGED <<jo, pass, del, spawnalive, copies, noted>>
  BY DEF TypeOK, DirTypeOK, PreprocessFails, Preprocessable, Has, sendVars, history
<1>2. /\ \A x \in Ids : /\ x # id => /\ files'[x] = files[x]
                                     /\ undone'[x] = undone[x] /\ done'[x] = done[x]
                        /\ notes'[x] \subseteq notes[x]
      /\ files'[id] \ Remade = files[id] \ Remade
      /\ \A c \in Channels : undone'[id][c] \cup done'[id][c] \subseteq Records(id, c)
  <2>1. CASE \E gone \in {{}, {"local"}, Channels, Remade} : Unlink(id, gone)
    <3>1. PICK gone \in {{}, {"local"}, Channels, Remade} : Unlink(id, gone)
      BY <2>1
    <3>2. \A c \in Channels : /\ undone'[id][c] = IF c \in gone THEN {} ELSE undone[id][c]
                              /\ done'[id][c] = IF c \in gone THEN {} ELSE done[id][c]
      BY <1>1, <3>1 DEF Unlink, Without
    <3>3. files'[id] = files[id] \ gone /\ gone \subseteq Remade
      BY <1>1, <3>1 DEF Unlink, Channels, Remade
    <3>4. \A x \in Ids : notes'[x] \subseteq notes[x]
      BY <1>1, <3>1 DEF Unlink
    <3> QED BY <1>1, <3>1, <3>2, <3>3, <3>4 DEF Unlink, Records
  <2>2. CASE \E cs \in SUBSET Channels :
                /\ files' = [files EXCEPT ![id] = (@ \ Remade) \cup {"info"} \cup cs]
                /\ undone' = [undone EXCEPT ![id] = NoRecords]
                /\ done' = [done EXCEPT ![id] = NoRecords]
                /\ notes' = notes
    BY <1>1, <2>2 DEF Remade, Records, NoRecords
  <2> QED BY <2>1, <2>2 DEF PreprocessFails
<1>3. OneFile'
  <2>1. OneFile
    BY DEF CopiesInv
  <2>2. \A x \in Ids, c \in Channels : undone'[x][c] \cup done'[x][c] \subseteq Records(x, c)
    BY <1>2 DEF Records
  <2> QED BY <2>1, <2>2, OneFileKept
<1>4. faults' >= faults
  BY FaultUp DEF PreprocessFails
<1> QED BY <1>1, <1>2, <1>3, <1>4, IdleCopies

-----------------------------------------------------------------------------
(* A new pass: no slot refers to the job yet.                              *)
LEMMA PassOpenCopies ==
  ASSUME Known, TypeOK', CopiesInv, NEW c \in Channels, NEW id \in Ids, PassOpen(c, id),
         UNCHANGED <<queueVars, history>>
  PROVE  CopiesInv'
<1> USE DEF Known
<1>1. JobsFree \in SUBSET Nat /\ JobsFree # {}
  BY DEF PassOpen, JobsFree, Jobs
<1>2. PICK j : j = Least(JobsFree)
  OBVIOUS
<1>3. j \in Jobs /\ jo[j].refs = 0
  BY <1>1, <1>2, LeastType DEF JobsFree
<1>4. /\ pass' = [pass EXCEPT ![c] = [j |-> j, left |-> undone[id][c] \cup done[id][c]]]
      /\ jo' = [jo EXCEPT ![j] = [refs |-> 1, id |-> id, channel |-> c, numtodo |-> 0,
                                  hiteof |-> FALSE, dying |-> old[id]]]
      /\ UNCHANGED <<del, spawnalive, files, undone, done, notes, faults, copies, noted, qpc, qid>>
  BY <1>2 DEF PassOpen, dirVars, history, queueVars, flags
<1>5. /\ jo \in [Jobs -> JobRecords] /\ pass \in [Channels -> PassRecords]
  BY DEF TypeOK, SendTypeOK
<1>6. /\ \A k \in Jobs : k # j => jo'[k] = jo[k]
      /\ pass'[c].j = j
      /\ \A x \in Channels : x # c => pass'[x] = pass[x]
  BY <1>3, <1>4, <1>5
<1>7. FreshInv' /\ NotesFiled' /\ OneFile'
  BY <1>4 DEF CopiesInv, FreshInv, Fresh, NotesFiled, OneFile, Records, Has
<1>8. ASSUME NEW x \in Channels, NEW i \in Slots(x), del'[x][i] # NoDel PROVE SlotKept(x, i)
  <2>1. del[x][i] # NoDel
    BY <1>4, <1>8
  <2>2. del[x][i].j \in Jobs /\ del[x][i].j # j
    BY <1>3, <2>1, SlotNames DEF Open
  <2>3. JobId(x, i)' = JobId(x, i)
    BY <1>4, <1>6, <2>2 DEF JobId
  <2>4. faults + Spent(x, i) <= faults' + Spent(x, i)'
    <3>1. Spent(x, i)' = Spent(x, i) /\ Spent(x, i) \in Int
      BY <1>4 DEF Spent
    <3> HIDE DEF Spent
    <3> QED BY <1>4, <3>1, CopiesTypes
  <2>5. del[x][i].recip \in undone[JobId(x, i)][x]
    BY <2>1 DEF CopiesInv, SlotsInv
  <2>6. pass'[x].j = del[x][i].j => pass'[x] = pass[x]
    BY <1>6, <2>2
  <2> QED BY <1>4, <2>3, <2>4, <2>5, <2>6 DEF SlotKept
<1>9. ASSUME NEW x \in Ids, NEW y \in Channels, NEW r \in undone'[x][y] PROVE UndoneKept(x, y, r)
  BY <1>4, <1>9 DEF UndoneKept, Success, NoDel
<1>10. faults' >= faults
  BY <1>4, CopiesTypes
<1> QED BY <1>4, <1>7, <1>8, <1>9, <1>10, KeptCopies, SameCopies

(* job_close().                                                            *)
LEMMA CloseBounces ==
  ASSUME NEW j, NEW job, NEW fl \in [Ids -> SUBSET Kinds], NEW un, NEW dn, NEW f,
         JobClose(j, job, fl, un, dn, f), job.channel \in Channels, NEW x \in Ids,
         "bounce" \in fl[x]
  PROVE  "bounce" \in files'[x]
BY DEF JobClose, GoesOn, ChannelEnds, Channels

LEMMA CloseDone ==
  ASSUME Known, NEW j \in Jobs, NEW job, NEW fl, NEW un, NEW dn, NEW f,
         JobClose(j, job, fl, un, dn, f), Leaving(j, job, fl, un, dn),
         NEW x \in Ids, NEW y \in Channels
  PROVE  done'[x][y] \subseteq dn[x][y]
<1>1. CASE GoesOn(job, fl, un, dn, f)
  BY <1>1 DEF GoesOn
<1>2. CASE ChannelEnds(job, fl, un, dn, f)
  <2>1. /\ done' = [dn EXCEPT ![job.id] = Without(@, {job.channel})]
        /\ dn \in [Ids -> [Channels -> SUBSET Recips]]
    BY <1>2 DEF ChannelEnds, Leaving
  <2>2. Without(dn[x], {job.channel})[y] \subseteq dn[x][y]
    BY DEF Without
  <2> QED BY <2>1, <2>2
<1> QED BY <1>1, <1>2 DEF JobClose

(* A slot that job_close() finds in use keeps its job.                     *)
LEMMA CloseSlots ==
  ASSUME Known, NEW j \in Jobs, NEW job, NEW fl, NEW un, NEW dn, NEW f,
         JobClose(j, job, fl, un, dn, f), Leaving(j, job, fl, un, dn),
         NEW x \in Channels, NEW i \in Slots(x), del'[x][i] # NoDel
  PROVE  /\ del'[x][i] = del[x][i] /\ del[x][i] # NoDel /\ JobId(x, i)' = JobId(x, i)
         /\ del[x][i].j = j => job.refs > 1
<1> USE DEF Known
<1>1. job \in JobRecords
  BY DEF Leaving
<1>2. /\ \A k \in Jobs : k # j => jo'[k] = jo[k]
      /\ job.refs > 1 => jo'[j].id = job.id
  BY <1>1, CloseJob
<1>3. del'[x][i] = del[x][i] /\ del[x][i] # NoDel
  BY DEF Leaving
<1>4. PICK k : k = del[x][i].j
  OBVIOUS
<1>5. k \in Jobs
  BY <1>3, <1>4, SlotNames
<1>6. ASSUME k = j PROVE job.refs > 1
  <2>1. <<x, i>> \in SlotsOf(j)'
    BY <1>3, <1>4, <1>6, SlotsFinite DEF SlotsOf
  <2> QED BY <2>1 DEF Leaving, Open, JobRecords
<1>7. jo'[k].id = jo[k].id
  BY <1>2, <1>5, <1>6 DEF Leaving
<1> QED BY <1>3, <1>4, <1>6, <1>7 DEF JobId

LEMMA CloseCopies ==
  ASSUME Known, TypeOK', CopiesInv, NEW j \in Jobs, NEW job, NEW fl, NEW un, NEW dn, NEW f \in Nat,
         JobClose(j, job, fl, un, dn, f), Leaving(j, job, fl, un, dn),
         UNCHANGED <<copies, spawnalive>>, FreshInv', NotesFiled',
         \A x \in Ids, y \in Channels : un[x][y] \cup dn[x][y] \subseteq Records(x, y),
         \A x \in Channels : \A i \in Slots(x) : del'[x][i] # NoDel =>
            del[x][i].recip \in un[JobId(x, i)][x],
         \A x \in Ids, y \in Channels : \A r \in un[x][y] :
            \/ copies[x][r] <= faults + f
            \/ \A i \in Slots(y) : Success(y, i, x, r) => del'[y][i] # NoDel
  PROVE  CopiesInv'
<1> USE DEF Known
<1>1. /\ job.id \in Ids /\ job.channel \in Channels /\ job \in JobRecords
  BY DEF Leaving, JobRecords, StatesInv, OneClaim
<1>2. faults \in Nat /\ faults' \in Nat /\ faults' >= faults + f
  <2>1. faults' = faults + f \/ faults' = faults + (f + 1)
    BY DEF JobClose, GoesOn, ChannelEnds, Fault
  <2> QED BY <2>1, CopiesTypes
<1>3. \A x \in Ids, y \in Channels : undone'[x][y] \subseteq un[x][y] /\ done'[x][y] \subseteq dn[x][y]
  BY CloseRecords, CloseDone
<1>4. OneFile'
  BY <1>3, OneFileKept DEF CopiesInv
<1>5. ASSUME NEW x \in Channels, NEW i \in Slots(x), del'[x][i] # NoDel PROVE SlotKept(x, i)
  <2>1. /\ del'[x][i] = del[x][i] /\ del[x][i] # NoDel /\ JobId(x, i)' = JobId(x, i)
        /\ del[x][i].j = j => job.refs > 1
    BY <1>5, CloseSlots
  <2>2. PICK id, k, r : id = JobId(x, i) /\ k = del[x][i].j /\ r = del[x][i].recip
    OBVIOUS
  <2>3. id \in Ids /\ k \in Jobs /\ r \in un[id][x] /\ jo[k].channel = x
    BY <1>5, <2>1, <2>2, SlotNames, Refers DEF JobId
  <2>4. r \in undone'[id][x]
    <3>1. \/ undone' = un \/ job.refs = 1
          \/ id # job.id \/ x # job.channel
      BY <1>1, CloseRecords
    <3>2. CASE id # job.id \/ x # job.channel
      BY <2>3, <3>2, CloseRecords
    <3>3. CASE id = job.id /\ x = job.channel
      <4>1. jo[j].id = jo[k].id /\ jo[j].channel = jo[k].channel /\ Open(j) /\ Open(k)
        BY <2>1, <2>2, <2>3, <3>3, SlotNames DEF Leaving, JobId
      <4>2. k = j
        BY <2>3, <4>1 DEF StatesInv, OneClaim
      <4>3. undone' = un
        BY <1>1, <2>1, <2>2, <3>1, <3>3, <4>2 DEF JobRecords
      <4> QED BY <2>3, <4>3
    <3> QED BY <3>2, <3>3
  <2>5. pass'[x].j = k => pass'[x] = pass[x]
    BY <2>3 DEF Leaving
  <2>6. faults + Spent(x, i) <= faults' + Spent(x, i)'
    <3>1. Spent(x, i)' = Spent(x, i) /\ Spent(x, i) \in Int
      BY <2>1 DEF Spent
    <3> HIDE DEF Spent
    <3> QED BY <1>2, <3>1
  <2> QED BY <2>1, <2>2, <2>4, <2>5, <2>6 DEF SlotKept
<1>6. ASSUME NEW x \in Ids, NEW y \in Channels, NEW r \in undone'[x][y] PROVE UndoneKept(x, y, r)
  <2>1. r \in un[x][y] /\ r \in undone[x][y]
    BY <1>1, <1>3, <1>6 DEF Leaving
  <2>2. r \in Recips
    BY <1>6 DEF TypeOK, DirTypeOK
  <2>3. copies[x][r] <= faults + f => copies'[x][r] <= faults'
    <3>1. copies[x][r] \in Nat
      BY <2>2, CopiesTypes
    <3> QED BY <1>2, <3>1
  <2> QED BY <2>1, <2>3 DEF UndoneKept
<1>7. faults' >= faults
  BY <1>2
<1> QED BY <1>4, <1>5, <1>6, <1>7, KeptCopies, SameCopies

(* What the end of a pass leaves to job_close().                           *)
LEMMA PassCloseShape ==
  ASSUME Known, NEW c \in Channels, PassClose(c), NEW j, j = pass[c].j
  PROVE  /\ j \in Jobs /\ del' = del
         /\ \E job : \E f \in Nat : /\ JobClose(j, job, files, undone, done, f)
                                   /\ Leaving(j, job, files, undone, done)
<1> USE DEF Known
<1>1. PICK before, read : before = jo[j] /\ read = [before EXCEPT !.hiteof = TRUE]
  OBVIOUS
<1>2. /\ pass[c] # NoPass /\ pass' = [pass EXCEPT ![c] = NoPass] /\ del' = del
      /\ \/ JobClose(j, read, files, undone, done, 0)
         \/ JobClose(j, before, files, undone, done, 1)
  BY <1>1 DEF PassClose
<1>3. j \in Jobs /\ Open(j) /\ before.channel = c
  BY <1>1, <1>2, Refers DEF Open
<1>4. before \in JobRecords
  BY <1>1, <1>3, JobFree DEF TypeOK
<1>5. read \in JobRecords /\ read.refs = before.refs /\ read.channel = c /\ read.id = before.id
  BY <1>1, <1>3, <1>4 DEF JobRecords
<1>6. before.refs = 1 => SlotsOf(j)' = {}
  <2>1. SlotsOf(j)' = SlotsOf(j) /\ before.refs = Cardinality(SlotsOf(j)) + 1
    BY <1>1, <1>2, <1>3, PassGone
  <2> QED BY <2>1, SlotsFinite, FS_EmptySet
<1>7. \A x \in Channels : pass'[x] = pass[x] \/ (pass[x].j = j /\ pass'[x].j \notin Jobs)
  BY <1>2 DEF TypeOK, SendTypeOK, NoPass, Jobs
<1>8. PICK job \in {read, before} : \E f \in {0, 1} : JobClose(j, job, files, undone, done, f)
  BY <1>2
<1>9. \E f \in Nat : JobClose(j, job, files, undone, done, f)
  BY <1>8
<1>10. Leaving(j, job, files, undone, done)
  <2>1. /\ job \in JobRecords /\ job.refs = jo[j].refs /\ job.channel = jo[j].channel
        /\ job.id = jo[j].id /\ job.refs = before.refs
    BY <1>1, <1>3, <1>4, <1>5, <1>8
  <2> QED BY <1>2, <1>3, <1>6, <1>7, <2>1 DEF Leaving, TypeOK, DirTypeOK
<1> QED BY <1>2, <1>3, <1>9, <1>10

LEMMA PassCloseCopies ==
  ASSUME Known, TypeOK', CopiesInv, NEW c \in Channels, PassClose(c),
         UNCHANGED <<queueVars, history>>
  PROVE  CopiesInv'
<1> USE DEF Known
<1>1. PICK j, un, dn : j = pass[c].j /\ un = undone /\ dn = done
  OBVIOUS
<1>2. UNCHANGED <<del, copies, noted, notes, spawnalive, qpc, qid>> /\ j \in Jobs
  BY <1>1, PassCloseShape DEF PassClose, history, queueVars, flags
<1>3. PICK job : \E f \in Nat : /\ JobClose(j, job, files, un, dn, f)
                                /\ Leaving(j, job, files, un, dn)
  BY <1>1, PassCloseShape
<1>4. PICK f \in Nat : JobClose(j, job, files, un, dn, f) /\ Leaving(j, job, files, un, dn)
  BY <1>3
<1>5. /\ \A x \in Ids : \A k \in {"mess", "todo"} : k \in files'[x] <=> k \in files[x]
      /\ \A x \in Ids : "bounce" \in files[x] => "bounce" \in files'[x]
  <2>1. \A x \in Ids, y \in Channels : \A k \in {"mess", "todo"} : k \in files'[x] <=> k \in files[x]
    BY <1>2, <1>4, CloseRecords
  <2>2. "local" \in Channels /\ job.channel \in Channels /\ files \in [Ids -> SUBSET Kinds]
    BY <1>4 DEF Channels, Leaving, JobRecords
  <2> QED BY <1>4, <2>1, <2>2, CloseBounces
<1>6. FreshInv' /\ NotesFiled'
  BY <1>2, <1>5 DEF CopiesInv, FreshInv, Fresh, NotesFiled, Has
<1>7. /\ \A x \in Ids, y \in Channels : un[x][y] \cup dn[x][y] \subseteq Records(x, y)
      /\ \A x \in Channels : \A i \in Slots(x) : del'[x][i] # NoDel =>
            del[x][i].recip \in un[JobId(x, i)][x]
  BY <1>1, <1>2 DEF Records, CopiesInv, SlotsInv
<1>8. \A x \in Ids, y \in Channels : \A i \in Slots(y) : \A r :
         Success(y, i, x, r) => del'[y][i] # NoDel
  BY <1>2 DEF Success, NoDel
<1> QED BY <1>2, <1>4, <1>6, <1>7, <1>8, CloseCopies

(* What a report leaves to job_close(): the record of the recipient has    *)
(* become a D record, or markdone() has failed, or it is put off.          *)
ReportLeaves(c, i, id, r, job, fl, un, dn, f) ==
    /\ Leaving(del[c][i].j, job, fl, un, dn) /\ JobClose(del[c][i].j, job, fl, un, dn, f)
    /\ job.id = id /\ job.channel = c
    /\ \A x \in Ids : "bounce" \in files[x] => "bounce" \in fl[x]
    /\ \A x \in Ids : x # id => notes'[x] = notes[x]
    /\ \/ notes'[id] = notes[id]
       \/ notes'[id] = notes[id] \cup {r} /\ "bounce" \in fl[id] /\ del[c][i].st # "K"
    /\ \A x \in Ids, y \in Channels : x # id \/ y # c =>
          un[x][y] = undone[x][y] /\ dn[x][y] = done[x][y]
    /\ \/ /\ un[id][c] = undone[id][c] /\ dn[id][c] = done[id][c]
          /\ f = 1 \/ del[c][i].st # "K"
       \/ un[id][c] = undone[id][c] \ {r} /\ dn[id][c] = done[id][c] \cup {r}

LEMMA ReportShape ==
  ASSUME Known, CopiesInv, NEW c \in Channels, NEW i \in Slots(c), Report(c, i),
         NEW id, id = JobId(c, i), NEW r, r = del[c][i].recip
  PROVE  /\ id \in Ids /\ S5(id) /\ r \in Recips /\ r \in undone[id][c]
         /\ del[c][i] # NoDel /\ del[c][i].j \in Jobs /\ Open(del[c][i].j)
         /\ \A x \in Channels : \A k \in Slots(x) :
               del'[x][k] = IF x = c /\ k = i THEN NoDel ELSE del[x][k]
         /\ \E job, fl, un, dn : \E f \in Nat : ReportLeaves(c, i, id, r, job, fl, un, dn, f)
<1> USE DEF Known
<1>1. PICK j, before : j = del[c][i].j /\ before = jo[j]
  OBVIOUS
<1>2. /\ del[c][i] # NoDel /\ j \in Jobs /\ before \in JobRecords /\ del[c][i].st \in {"K", "Z", "D"}
      /\ Open(j) /\ before.channel = c /\ r \in Recips
      /\ del' = [del EXCEPT ![c][i] = NoDel] /\ pass' = pass
  BY <1>1, ReportCase DEF Report, Open
<1>3. PICK job, fl, un, dn : \E f \in Nat :
         /\ job \in JobRecords /\ job.refs = before.refs /\ job.id = before.id
         /\ job.channel = c
         /\ Reported(c, i, job, fl, un, dn, f)
  BY <1>1, ReportCase DEF Report
<1>4. PICK f \in Nat : Reported(c, i, job, fl, un, dn, f)
  BY <1>3
<1>5. id \in Ids /\ S5(id) /\ job.id = id
  BY <1>1, <1>2, <1>3 DEF StatesInv, OneClaim, JobId
<1>6. JobClose(j, job, fl, un, dn, f)
  BY <1>1, <1>4 DEF Reported
<1>7. /\ files \in [Ids -> SUBSET Kinds] /\ notes \in [Ids -> SUBSET Recips]
      /\ undone \in [Ids -> [Channels -> SUBSET Recips]]
      /\ done \in [Ids -> [Channels -> SUBSET Recips]]
      /\ r \in undone[id][c]
  BY <1>2 DEF TypeOK, DirTypeOK, CopiesInv, SlotsInv
<1>8. /\ \/ fl = files /\ notes' = notes
         \/ /\ fl = [files EXCEPT ![id] = @ \cup {"bounce"}]
            /\ notes' = [notes EXCEPT ![id] = @ \cup {r}]
            /\ del[c][i].st # "K"
      /\ \/ un = undone /\ dn = done /\ (f = 1 \/ del[c][i].st # "K")
         \/ /\ un = [undone EXCEPT ![id][c] = @ \ {r}]
            /\ dn = [done EXCEPT ![id][c] = @ \cup {r}]
  <2>1. Verdict(del[c][i].st, job.dying) \in {"Z", "D"} => del[c][i].st # "K"
    BY DEF Verdict
  <2> QED BY <1>1, <1>4, <1>5, <2>1 DEF Reported, MarkDone
<1>9. \A x \in Channels : \A k \in Slots(x) :
         del'[x][k] = IF x = c /\ k = i THEN NoDel ELSE del[x][k]
  BY <1>2 DEF TypeOK, SendTypeOK, DelTypeOK
<1>10. /\ fl \in [Ids -> SUBSET Kinds]
       /\ \A x \in Ids : fl[x] \ {"bounce"} = files[x] \ {"bounce"}
       /\ \A x \in Ids : "bounce" \in files[x] => "bounce" \in fl[x]
       /\ \A x \in Ids : x # id => notes'[x] = notes[x]
       /\ \/ notes'[id] = notes[id]
          \/ notes'[id] = notes[id] \cup {r} /\ "bounce" \in fl[id] /\ del[c][i].st # "K"
  <2>1. CASE fl = files /\ notes' = notes
    BY <1>7, <2>1
  <2>2. CASE /\ fl = [files EXCEPT ![id] = @ \cup {"bounce"}]
             /\ notes' = [notes EXCEPT ![id] = @ \cup {r}]
             /\ del[c][i].st # "K"
    <3>1. files[id] \cup {"bounce"} \in SUBSET Kinds
      BY <1>5, <1>7 DEF Kinds
    <3> QED BY <1>5, <1>7, <2>2, <3>1
  <2> QED BY <1>8, <2>1, <2>2
<1>11. /\ un \in [Ids -> [Channels -> SUBSET Recips]] /\ dn \in [Ids -> [Channels -> SUBSET Recips]]
       /\ \A x \in Ids, y \in Channels : x # id \/ y # c =>
             un[x][y] = undone[x][y] /\ dn[x][y] = done[x][y]
       /\ \/ /\ un[id][c] = undone[id][c] /\ dn[id][c] = done[id][c]
             /\ f = 1 \/ del[c][i].st # "K"
          \/ un[id][c] = undone[id][c] \ {r} /\ dn[id][c] = done[id][c] \cup {r}
  <2>1. CASE un = undone /\ dn = done /\ (f = 1 \/ del[c][i].st # "K")
    BY <1>7, <2>1
  <2>2. CASE un = [undone EXCEPT ![id][c] = @ \ {r}] /\ dn = [done EXCEPT ![id][c] = @ \cup {r}]
    <3>1. undone[id] \in [Channels -> SUBSET Recips] /\ done[id] \in [Channels -> SUBSET Recips]
      BY <1>5, <1>7
    <3>2. /\ [undone[id] EXCEPT ![c] = @ \ {r}] \in [Channels -> SUBSET Recips]
          /\ [done[id] EXCEPT ![c] = @ \cup {r}] \in [Channels -> SUBSET Recips]
      BY <1>2, <3>1
    <3>3. un \in [Ids -> [Channels -> SUBSET Recips]] /\ dn \in [Ids -> [Channels -> SUBSET Recips]]
      BY <1>7, <2>2, <3>2
    <3>4. \A x \in Ids, y \in Channels :
             /\ un[x][y] = IF x = id /\ y = c THEN undone[x][y] \ {r} ELSE undone[x][y]
             /\ dn[x][y] = IF x = id /\ y = c THEN done[x][y] \cup {r} ELSE done[x][y]
      BY <1>5, <1>7, <2>2
    <3> QED BY <1>5, <3>3, <3>4
  <2> QED BY <1>8, <2>1, <2>2
<1>12. Leaving(j, job, fl, un, dn)
  <2>1. job.refs = 1 => SlotsOf(j)' = {}
    <3>1. /\ Cardinality(SlotsOf(j)) = Cardinality(SlotsOf(j)') + 1
          /\ IsFiniteSet(SlotsOf(j)') /\ Cardinality(SlotsOf(j)') \in Nat
          /\ before.refs = Cardinality(SlotsOf(j)) + Cardinality(PassesOf(j))
          /\ Cardinality(PassesOf(j)) \in Nat
      BY <1>1, <1>2, SlotGone, SlotsFinite DEF JobsInv, JobTable
    <3>2. job.refs = 1 => Cardinality(SlotsOf(j)') = 0
      BY <1>3, <3>1
    <3> QED BY <3>1, <3>2, FS_EmptySet
  <2>2. /\ \A x \in Channels : \A k \in Slots(x) :
              del'[x][k] = del[x][k] \/ (del[x][k].j = j /\ del'[x][k] = NoDel)
        /\ \A x \in Channels : pass'[x] = pass[x]
    BY <1>1, <1>2, <1>9
  <2>3. job.refs = jo[j].refs /\ job.id = jo[j].id /\ job.channel = jo[j].channel
    BY <1>1, <1>2, <1>3
  <2>4. /\ \A x \in Ids, y \in Channels : x # job.id \/ y # job.channel =>
              un[x][y] = undone[x][y] /\ dn[x][y] = done[x][y]
        /\ un[job.id][job.channel] \subseteq undone[job.id][job.channel]
    BY <1>3, <1>5, <1>11
  <2> QED BY <1>2, <1>3, <1>10, <1>11, <2>1, <2>2, <2>3, <2>4 DEF Leaving
<1>13. ReportLeaves(c, i, id, r, job, fl, un, dn, f)
  BY <1>1, <1>3, <1>5, <1>6, <1>10, <1>11, <1>12 DEF ReportLeaves
<1> QED BY <1>1, <1>2, <1>5, <1>7, <1>9, <1>13

(* A report.  If the record keeps its T, the failing markdone() pays for   *)
(* the next copy.                                                          *)
LEMMA ReportCopies ==
  ASSUME Known, TypeOK', StatesInv', CopiesInv, NEW c \in Channels, NEW i \in Slots(c), Report(c, i)
  PROVE  CopiesInv'
<1> USE DEF Known
<1>1. PICK j, r, id : j = del[c][i].j /\ r = del[c][i].recip /\ id = JobId(c, i)
  OBVIOUS
<1>2. /\ id \in Ids /\ S5(id) /\ r \in Recips /\ r \in undone[id][c]
      /\ del[c][i] # NoDel /\ j \in Jobs /\ Open(j) /\ jo[j].channel = c
  <2>1. /\ id \in Ids /\ S5(id) /\ r \in Recips /\ r \in undone[id][c]
        /\ del[c][i] # NoDel /\ j \in Jobs /\ Open(j)
    BY <1>1, ReportShape
  <2>2. jo[j].channel = c
    BY <1>1, <2>1, Refers
  <2> QED BY <2>1, <2>2
<1>3. PICK job, fl, un, dn : \E f \in Nat : ReportLeaves(c, i, id, r, job, fl, un, dn, f)
  BY <1>1, ReportShape
<1>4. PICK f \in Nat : ReportLeaves(c, i, id, r, job, fl, un, dn, f)
  BY <1>3
<1>5. /\ copies' = copies /\ spawnalive' = spawnalive
      /\ noted' = [x \in Ids |-> noted[x] \cup notes'[x]]
      /\ UNCHANGED <<qpc, qid>>
  BY DEF Report, DelReport, queueVars, flags
<1>6. JobClose(j, job, fl, un, dn, f) /\ Leaving(j, job, fl, un, dn)
  BY <1>1, <1>4 DEF ReportLeaves
<1>7. \A x \in Channels : \A k \in Slots(x) :
          del'[x][k] = IF x = c /\ k = i THEN NoDel ELSE del[x][k]
  BY <1>1, ReportShape
<1>8. /\ fl \in [Ids -> SUBSET Kinds]
      /\ \A x \in Ids : "bounce" \in files[x] => "bounce" \in fl[x]
      /\ \A x \in Ids : x # id => notes'[x] = notes[x]
      /\ notes'[id] = notes[id] \/ "bounce" \in fl[id]
  BY <1>4, <1>6 DEF ReportLeaves, Leaving
<1>9. /\ \A x \in Ids, y \in Channels :
            /\ x # id \/ y # c => un[x][y] = undone[x][y] /\ dn[x][y] = done[x][y]
            /\ un[x][y] \cup dn[x][y] \subseteq Records(x, y)
            /\ \A q : q # r => (q \in un[x][y] <=> q \in undone[x][y])
      /\ r \in un[id][c] => f = 1 \/ del[c][i].st # "K"
  BY <1>2, <1>4 DEF ReportLeaves, Records
<1>10. /\ \A x \in Ids : \A k \in {"mess", "todo"} : k \in files'[x] <=> k \in files[x]
       /\ \A x \in Ids : "bounce" \in fl[x] => "bounce" \in files'[x]
  <2>1. \A x \in Ids, y \in Channels : \A k \in {"mess", "todo"} : k \in files'[x] <=> k \in files[x]
    BY <1>2, <1>6, CloseRecords
  <2>2. "local" \in Channels /\ job.channel \in Channels
    BY <1>4 DEF Channels, ReportLeaves
  <2> QED BY <1>6, <1>8, <2>1, <2>2, CloseBounces
<1>11. NotesFiled'
  BY <1>8, <1>10 DEF CopiesInv, NotesFiled, Has
<1>12. FreshInv'
  <2>1. ASSUME NEW x \in Ids, x # id, Fresh(x), ~Has(x, "bounce")
        PROVE  copies'[x] = NoCopies /\ noted'[x] = {}
    BY <1>5, <1>8, <2>1 DEF Fresh, CopiesInv, NotesFiled
  <2>2. ASSUME NEW x \in Ids, ~Has(x, "mess")' \/ Has(x, "todo")'
        PROVE  copies'[x] = NoCopies /\ noted'[x] = {}
    <3>1. ~Has(x, "mess") \/ Has(x, "todo")
      BY <1>10, <2>2 DEF Has
    <3>2. x # id
      BY <1>2, <3>1 DEF S5, Has
    <3>3. ~Has(x, "bounce")
      BY <3>1 DEF StatesInv, QueueStates, S1, S2, S3, S4, S5, Has
    <3> QED BY <2>1, <3>1, <3>2, <3>3 DEF CopiesInv, FreshInv
  <2>3. ASSUME NEW p \in Procs, (qpc[p] \in Entering)'
        PROVE  copies'[qid'[p]] = NoCopies /\ noted'[qid'[p]] = {}
    <3>1. qpc[p] \in Entering /\ qid' = qid /\ qid[p] \in Ids
      BY <1>5, <2>3, EnteringIds
    <3>2. "info" \notin files[qid[p]] /\ files[qid[p]] \ {"pid"} = Needs(p)
      BY <3>1 DEF InjectorInv, Hidden, StatesInv, Exact
    <3>3. qid[p] # id /\ ~Has(qid[p], "bounce")
      BY <1>2, <3>1, <3>2 DEF S5, Has, Needs, Entering
    <3> QED BY <2>1, <3>1, <3>3 DEF CopiesInv, FreshInv
  <2> QED BY <2>2, <2>3 DEF FreshInv, Fresh
<1>13. ASSUME NEW x \in Channels, NEW k \in Slots(x), del'[x][k] # NoDel
       PROVE  del[x][k].recip \in un[JobId(x, k)][x]
  <2>1. del[x][k] # NoDel /\ ~(x = c /\ k = i)
    BY <1>7, <1>13
  <2>2. PICK y, q : y = JobId(x, k) /\ q = del[x][k].recip
    OBVIOUS
  <2>3. y \in Ids /\ q \in undone[y][x]
    BY <2>1, <2>2, SlotNames DEF JobId, CopiesInv, SlotsInv
  <2>4. y # id \/ q # r
    BY <1>1, <1>2, <2>1, <2>2, SlotOnly
  <2> QED BY <1>9, <2>2, <2>3, <2>4
<1>14. ASSUME NEW x \in Ids, NEW y \in Channels, NEW q \in un[x][y]
       PROVE  \/ copies[x][q] <= faults + f
              \/ \A k \in Slots(y) : Success(y, k, x, q) => del'[y][k] # NoDel
  <2> SUFFICES ASSUME NEW k \in Slots(y), Success(y, k, x, q), del'[y][k] = NoDel
               PROVE  copies[x][q] <= faults + f
    OBVIOUS
  <2>1. y = c /\ k = i /\ x = id /\ q = r /\ del[c][i].st = "K"
    <3>1. del[y][k] # NoDel
      BY DEF Success, NoDel
    <3>2. y = c /\ k = i
      BY <1>7, <3>1
    <3> QED BY <1>1, <3>2 DEF Success
  <2>2. f = 1
    BY <1>9, <1>14, <2>1
  <2>3. copies[x][q] <= 1 + faults
    BY <1>2, <2>1 DEF CopiesInv, Budget, Within
  <2> QED BY <1>2, <2>1, <2>2, <2>3, CopiesTypes
<1> QED BY <1>2, <1>5, <1>6, <1>9, <1>11, <1>12, <1>13, <1>14, CloseCopies

-----------------------------------------------------------------------------
(* A new delivery.  No success waits for the record: its slot would be of  *)
(* this job, and the pass is not past the record.                          *)
LEMMA PassDeliverCopies ==
  ASSUME Known, TypeOK', CopiesInv, NEW c \in Channels, PassDeliver(c),
         UNCHANGED <<queueVars, history>>
  PROVE  CopiesInv'
<1> USE DEF Known
<1>1. SlotsFree(c) \in SUBSET Nat /\ SlotsFree(c) # {}
  BY DEF PassDeliver, DelAvail, SlotsFree, Slots
<1>2. PICK i, j : i = Least(SlotsFree(c)) /\ j = pass[c].j
  OBVIOUS
<1>3. i \in Slots(c) /\ del[c][i] = NoDel
  BY <1>1, <1>2, LeastType DEF SlotsFree
<1>4. PICK r \in LeftToDo(c) :
         /\ pass' = [pass EXCEPT ![c].left = @ \ {r}]
         /\ del' = [del EXCEPT ![c][i] = [j |-> j, recip |-> r, st |-> "comm"]]
         /\ jo' = [jo EXCEPT ![j] = Referred(@)]
         /\ spawnalive[c]
         /\ UNCHANGED <<files, undone, done, notes, faults, copies, noted, spawnalive, qpc, qid>>
  BY <1>2 DEF PassDeliver, DelAvail, dirVars, history, queueVars, flags
<1>5. /\ j \in Jobs /\ Open(j) /\ jo[j].channel = c /\ pass[c] # NoPass
  BY <1>2, Refers DEF PassDeliver, Open
<1>6. /\ jo \in [Jobs -> JobRecords] /\ pass \in [Channels -> PassRecords] /\ DelTypeOK(del)
  BY DEF TypeOK, SendTypeOK
<1>7. PICK id : id = jo[j].id
  OBVIOUS
<1>8. /\ r \in Recips /\ r \in pass[c].left /\ r \in undone[id][c] /\ id \in Ids
  BY <1>2, <1>5, <1>6, <1>7 DEF LeftToDo, PassRecords, StatesInv, OneClaim
<1>9. PICK d : d = [j |-> j, recip |-> r, st |-> "comm"]
  OBVIOUS
<1>10. d # NoDel /\ d.j = j /\ d.recip = r /\ d.st = "comm"
  BY <1>9 DEF NoDel
<1>11. \A x \in Channels : \A k \in Slots(x) :
          del'[x][k] = IF x = c /\ k = i THEN d ELSE del[x][k]
  BY <1>3, <1>4, <1>6, <1>9 DEF DelTypeOK
<1>12. /\ pass'[c].j = j /\ pass'[c].left = pass[c].left \ {r}
       /\ \A x \in Channels : x # c => pass'[x] = pass[x]
  <2>1. pass[c] \in [j : Jobs, left : SUBSET Recips]
    BY <1>5, <1>6 DEF PassRecords
  <2> QED BY <1>2, <1>4, <1>6, <2>1
<1>13. \A k \in Jobs : jo'[k].id = jo[k].id
  <2>1. Referred(jo[j]).id = jo[j].id
    BY <1>5, <1>6 DEF Referred, JobRecords
  <2> QED BY <1>4, <1>5, <1>6, <2>1
<1>14. ASSUME NEW x \in Channels, NEW k \in Slots(x), del[x][k] # NoDel
       PROVE  /\ del'[x][k] = del[x][k] /\ JobId(x, k)' = JobId(x, k)
              /\ Spent(x, k)' = Spent(x, k) /\ del[x][k].j \in Jobs
  <2>1. del'[x][k] = del[x][k]
    BY <1>3, <1>11, <1>14
  <2> QED BY <1>4, <1>13, <1>14, <2>1, SlotNames DEF JobId, Spent
<1>15. JobId(c, i)' = id /\ Spent(c, i)' = 0
  <2>1. del'[c][i] = d
    BY <1>3, <1>11
  <2>2. JobId(c, i)' = id
    BY <1>5, <1>7, <1>10, <1>13, <2>1 DEF JobId
  <2>3. del'[c][i].st = "comm"
    BY <1>10, <2>1
  <2>4. del'[c][i].st # "K" /\ del'[c][i].st \notin {"spawn", "K"}
    BY <2>3
  <2>5. Spent(c, i)' = 0 - 0
    BY <2>4, SMT DEF Spent
  <2>6. Spent(c, i)' = 0
    BY <2>5
  <2> HIDE DEF Spent
  <2> QED BY <2>2, <2>6
<1>16. ASSUME NEW k \in Slots(c), del[c][k].j = j PROVE del[c][k].recip # r
  <2>1. del[c][k] # NoDel
    BY <1>5, <1>16, SlotUsed
  <2> QED BY <1>2, <1>8, <1>16, <2>1 DEF CopiesInv, SlotsInv
<1>17. SlotsInv'
  <2> SUFFICES ASSUME NEW x \in Channels, NEW k \in Slots(x), del'[x][k] # NoDel
               PROVE  /\ del'[x][k].recip \in undone'[JobId(x, k)'][x]
                      /\ pass'[x].j = del'[x][k].j => del'[x][k].recip \notin pass'[x].left
                      /\ \A l \in Slots(x) : /\ del'[x][l].j = del'[x][k].j
                                             /\ del'[x][l].recip = del'[x][k].recip
                                             => l = k
    BY DEF SlotsInv
  <2>1. CASE x = c /\ k = i
    <3>1. del'[x][k] = d
      BY <1>11, <2>1
    <3>2. \A l \in Slots(c) : del'[c][l].j = j /\ del'[c][l].recip = r => l = i
      BY <1>11, <1>16
    <3> QED BY <1>4, <1>8, <1>10, <1>12, <1>15, <2>1, <3>1, <3>2
  <2>2. CASE ~(x = c /\ k = i)
    <3>1. del[x][k] # NoDel /\ del'[x][k] = del[x][k] /\ JobId(x, k)' = JobId(x, k)
      BY <1>11, <1>14, <2>2
    <3>2. pass'[x].j = pass[x].j /\ pass'[x].left \subseteq pass[x].left
      BY <1>2, <1>12
    <3>3. ASSUME NEW l \in Slots(x), del'[x][l].j = del[x][k].j, del'[x][l].recip = del[x][k].recip
          PROVE  l = k
      <4>1. CASE x = c /\ l = i
        BY <1>10, <1>11, <1>16, <3>3, <4>1
      <4>2. CASE ~(x = c /\ l = i)
        BY <1>11, <3>1, <3>3, <4>2 DEF CopiesInv, SlotsInv
      <4> QED BY <4>1, <4>2
    <3> QED BY <1>4, <3>1, <3>2, <3>3 DEF CopiesInv, SlotsInv
  <2> QED BY <2>1, <2>2
<1>18. copies[id][r] <= faults
  <2> SUFFICES ASSUME NEW k \in Slots(c), Success(c, k, id, r) PROVE FALSE
    BY <1>8 DEF CopiesInv, Budget, UndoneWithin
  <2>1. del[c][k] # NoDel /\ JobId(c, k) = id /\ del[c][k].recip = r
    BY DEF Success, NoDel
  <2>2. del[c][k].j \in Jobs /\ Open(del[c][k].j) /\ jo[del[c][k].j].channel = c
    BY <2>1, SlotNames, Refers
  <2>3. del[c][k].j = j
    BY <1>5, <1>7, <2>1, <2>2 DEF StatesInv, OneClaim, JobId
  <2> QED BY <1>16, <2>1, <2>3
<1>19. UndoneWithin'
  <2> SUFFICES ASSUME NEW x \in Ids, NEW y \in Channels, NEW q \in undone[x][y],
                      NEW k \in Slots(y), Success(y, k, x, q)
               PROVE  Success(y, k, x, q)'
    BY <1>4 DEF UndoneWithin, CopiesInv, Budget
  <2>1. del[y][k] # NoDel
    BY DEF Success, NoDel
  <2> QED BY <1>14, <2>1 DEF Success
<1>20. SlotsWithin'
  <2> SUFFICES ASSUME NEW x \in Channels, NEW k \in Slots(x), del'[x][k] # NoDel
               PROVE  copies[JobId(x, k)'][del'[x][k].recip] <= faults + Spent(x, k)'
    BY <1>4 DEF SlotsWithin
  <2>1. CASE x = c /\ k = i
    <3>1. copies[id][r] <= faults + 0
      BY <1>8, <1>18, CopiesTypes
    <3> QED BY <1>10, <1>11, <1>15, <2>1, <3>1
  <2>2. CASE ~(x = c /\ k = i)
    <3>1. del[x][k] # NoDel
      BY <1>11, <2>2
    <3> QED BY <1>14, <3>1 DEF CopiesInv, Budget, SlotsWithin
  <2> QED BY <2>1, <2>2
<1>21. FreshInv' /\ NotesFiled' /\ OneFile' /\ Within'
  BY <1>4 DEF CopiesInv, FreshInv, Fresh, NotesFiled, OneFile, Records, Has, Budget, Within
<1> QED BY <1>17, <1>19, <1>20, <1>21 DEF CopiesInv, Budget

(* Deliveries: a command is written, an agent ends: a slot changes its     *)
(* state to s.                                                             *)
SlotBecomes(c, i, s) ==
    /\ \/ s = "spawn" /\ del[c][i].st = "comm" /\ spawnalive[c] /\ copies' = copies
       \/ s \in {"Z", "D"} /\ del[c][i].st = "spawn" /\ copies' = copies
       \/ /\ s = "K" /\ del[c][i].st = "spawn"
          /\ copies' = [copies EXCEPT ![JobId(c, i)][del[c][i].recip] = @ + 1]
    /\ \A x \in Channels : \A k \in Slots(x) :
         /\ del'[x][k].j = del[x][k].j /\ del'[x][k].recip = del[x][k].recip
         /\ del'[x][k].st = IF x = c /\ k = i THEN s ELSE del[x][k].st
         /\ (x = c /\ k = i) \/ del'[x][k] = del[x][k]
         /\ JobId(x, k)' = JobId(x, k)

LEMMA DeliveryShape ==
  ASSUME Known, CopiesInv, NEW c \in Channels, NEW i \in Slots(c),
         NEW id, id = JobId(c, i), NEW r, r = del[c][i].recip,
         \/ CommWrite(c, i) /\ UNCHANGED <<queueVars, history>>
         \/ \E result \in {"K", "Z", "D"} : Delivery(c, i, result)
  PROVE  /\ UNCHANGED <<files, rcpts, undone, done, notes, faults>>
         /\ UNCHANGED <<jo, pass, noted, spawnalive, qpc, qid>>
         /\ del[c][i] # NoDel /\ del[c][i] \in DelRecords
         /\ id \in Ids /\ r \in Recips /\ r \in undone[id][c]
         /\ \E s : SlotBecomes(c, i, s)
<1> USE DEF Known
<1>1. PICK s : /\ del' = [del EXCEPT ![c][i].st = s]
               /\ \/ s = "spawn" /\ del[c][i].st = "comm" /\ spawnalive[c] /\ copies' = copies
                  \/ s \in {"Z", "D"} /\ del[c][i].st = "spawn" /\ copies' = copies
                  \/ /\ s = "K" /\ del[c][i].st = "spawn"
                     /\ copies' = [copies EXCEPT ![jo[del[c][i].j].id][del[c][i].recip] = @ + 1]
  <2>1. CASE CommWrite(c, i) /\ UNCHANGED history
    BY <2>1 DEF CommWrite, history
  <2>2. ASSUME NEW result \in {"K", "Z", "D"}, Delivery(c, i, result)
        PROVE  /\ del' = [del EXCEPT ![c][i].st = result] /\ del[c][i].st = "spawn"
               /\ copies' = IF result = "K"
                            THEN [copies EXCEPT ![jo[del[c][i].j].id][del[c][i].recip] = @ + 1]
                            ELSE copies
    BY <2>2 DEF Delivery, Deliver
  <2> QED BY <2>1, <2>2
<1>2. /\ UNCHANGED <<files, rcpts, undone, done, notes, faults>>
      /\ UNCHANGED <<jo, pass, noted, spawnalive, qpc, qid>>
  BY DEF CommWrite, Delivery, Deliver, dirVars, queueVars, flags, history
<1>3. del[c][i] # NoDel /\ del[c][i] \in DelRecords
  BY <1>1, SlotUsed DEF InUse
<1>4. id \in Ids /\ r \in Recips /\ r \in undone[id][c]
  BY <1>3, SlotNames DEF JobId, CopiesInv, SlotsInv
<1>5. \A x \in Channels : \A k \in Slots(x) :
         /\ del'[x][k].j = del[x][k].j /\ del'[x][k].recip = del[x][k].recip
         /\ del'[x][k].st = IF x = c /\ k = i THEN s ELSE del[x][k].st
         /\ (x = c /\ k = i) \/ del'[x][k] = del[x][k]
         /\ JobId(x, k)' = JobId(x, k)
  <2>1. \A x \in Channels : \A k \in Slots(x) :
           del'[x][k] = IF x = c /\ k = i THEN [del[x][k] EXCEPT !.st = s] ELSE del[x][k]
    BY <1>1 DEF TypeOK, SendTypeOK, DelTypeOK
  <2>2. [del[c][i] EXCEPT !.st = s].st = s
    BY <1>3 DEF DelRecords, NoDel
  <2>3. \A x \in Channels : \A k \in Slots(x) :
           del'[x][k].j = del[x][k].j /\ del'[x][k].recip = del[x][k].recip
    BY <1>1, SlotChanged
  <2> QED BY <1>2, <2>1, <2>2, <2>3 DEF JobId
<1>6. SlotBecomes(c, i, s)
  BY <1>1, <1>5 DEF SlotBecomes, JobId
<1> QED BY <1>2, <1>3, <1>4, <1>6

LEMMA DeliveryCopies ==
  ASSUME Known, TypeOK', CopiesInv, NEW c \in Channels, NEW i \in Slots(c),
         \/ CommWrite(c, i) /\ UNCHANGED <<queueVars, history>>
         \/ \E result \in {"K", "Z", "D"} : Delivery(c, i, result)
  PROVE  CopiesInv'
<1> USE DEF Known
<1>1. PICK id, r : id = JobId(c, i) /\ r = del[c][i].recip
  OBVIOUS
<1>2. /\ UNCHANGED <<files, undone, done, notes, faults, jo, pass, noted, spawnalive, qpc, qid>>
      /\ \E s : SlotBecomes(c, i, s)
  BY <1>1, DeliveryShape
<1>3. /\ del[c][i] # NoDel /\ del[c][i] \in DelRecords
      /\ id \in Ids /\ r \in Recips /\ r \in undone[id][c]
  BY <1>1, DeliveryShape
<1>4. PICK s : SlotBecomes(c, i, s)
  BY <1>2
<1>5. \/ s = "spawn" /\ del[c][i].st = "comm" /\ spawnalive[c] /\ copies' = copies
      \/ s \in {"Z", "D"} /\ del[c][i].st = "spawn" /\ copies' = copies
      \/ /\ s = "K" /\ del[c][i].st = "spawn"
         /\ copies' = [copies EXCEPT ![id][r] = @ + 1]
  BY <1>1, <1>4 DEF SlotBecomes
<1>6. \A x \in Channels : \A k \in Slots(x) :
         /\ del'[x][k].j = del[x][k].j /\ del'[x][k].recip = del[x][k].recip
         /\ del'[x][k].st = IF x = c /\ k = i THEN s ELSE del[x][k].st
         /\ (x = c /\ k = i) \/ del'[x][k] = del[x][k]
         /\ JobId(x, k)' = JobId(x, k)
  BY <1>4 DEF SlotBecomes
<1>7. /\ copies \in [Ids -> [Recips -> Nat]] /\ faults \in Nat
      /\ \A x \in Ids, q \in Recips : copies[x][q] \in Nat
  BY CopiesTypes DEF TypeOK, HistoryTypeOK
<1>8. \A x \in Ids, q \in Recips :
         copies'[x][q] = IF s = "K" /\ x = id /\ q = r THEN copies[x][q] + 1 ELSE copies[x][q]
  <2>1. CASE s = "K"
    <3>1. copies' = [copies EXCEPT ![id][r] = @ + 1]
      BY <1>5, <2>1
    <3> QED BY <1>3, <1>7, <2>1, <3>1, MoreCopies
  <2>2. CASE s # "K"
    BY <1>5, <2>2
  <2> QED BY <2>1, <2>2
<1>9. \A x \in Channels : \A k \in Slots(x) :
         del[x][k] # NoDel /\ JobId(x, k) = id /\ del[x][k].recip = r => x = c /\ k = i
  BY <1>1, <1>3, SlotOnly
(* Once nobody will hear of it, it has a failure less to account for it. *)
<1>10. /\ copies'[id][r] <= faults + Spent(c, i)'
       /\ s = "K" => copies'[id][r] <= faults + 1
  <2>1. copies[id][r] <= faults + Spent(c, i)
    BY <1>1, <1>3 DEF CopiesInv, Budget, SlotsWithin
  <2>2. del'[c][i].st = s /\ spawnalive' = spawnalive
    BY <1>2, <1>6
  <2>3. s \in {"Z", "D", "spawn"} => copies'[id][r] = copies[id][r]
    BY <1>3, <1>8
  <2>4. s = "K" => copies'[id][r] = copies[id][r] + 1
    BY <1>3, <1>8
  <2>5. copies[id][r] \in Nat
    BY <1>3, <1>7
  <2>6. CASE s = "K"
    <3>1. del[c][i].st = "spawn"
      BY <1>5, <2>6
    <3>2. /\ Spent(c, i) = IF spawnalive[c] THEN 0 ELSE -1
          /\ Spent(c, i)' = IF spawnalive[c] THEN 1 ELSE 0
      BY <2>2, <2>6, <3>1 DEF Spent
    <3>3. Spent(c, i)' = Spent(c, i) + 1 /\ Spent(c, i) \in {-1, 0}
      BY <3>2
    <3> HIDE DEF Spent
    <3> QED BY <1>7, <2>1, <2>4, <2>5, <2>6, <3>3
  <2>7. CASE s # "K"
    <3>1. /\ del[c][i].st = "comm" \/ del[c][i].st = "spawn"
          /\ s \in {"Z", "D"} \/ (s = "spawn" /\ spawnalive[c])
      BY <1>5, <2>7
    <3>2. Spent(c, i)' = 0 /\ Spent(c, i) \in {-1, 0}
      BY <2>2, <3>1 DEF Spent
    <3> HIDE DEF Spent
    <3> QED BY <1>7, <2>1, <2>3, <2>5, <2>7, <3>1, <3>2
  <2> QED BY <2>6, <2>7
<1>11. Within'
  <2> SUFFICES ASSUME NEW x \in Ids, NEW q \in Recips PROVE copies'[x][q] <= 1 + faults
    BY <1>2 DEF Within
  <2>1. CASE s = "K" /\ x = id /\ q = r
    BY <1>7, <1>8, <1>10, <2>1
  <2>2. CASE ~(s = "K" /\ x = id /\ q = r)
    BY <1>8, <2>2 DEF CopiesInv, Budget, Within
  <2> QED BY <2>1, <2>2
<1>12. UndoneWithin'
  <2> SUFFICES ASSUME NEW x \in Ids, NEW y \in Channels, NEW q \in undone[x][y]
               PROVE  copies'[x][q] <= faults \/ \E k \in Slots(y) : Success(y, k, x, q)'
    BY <1>2 DEF UndoneWithin
  <2>0. q \in Recips
    BY CopiesTypes
  <2>1. CASE s = "K" /\ x = id /\ q = r
    <3>1. y = c
      BY <1>3, <2>1 DEF CopiesInv, OneFile, Records
    <3>2. Success(c, i, id, r)'
      BY <1>1, <1>6, <2>1 DEF Success
    <3> QED BY <2>1, <3>1, <3>2
  <2>2. CASE ~(s = "K" /\ x = id /\ q = r)
    <3>1. copies'[x][q] = copies[x][q]
      BY <1>8, <2>0, <2>2
    <3>2. ASSUME NEW k \in Slots(y), Success(y, k, x, q) PROVE Success(y, k, x, q)'
      <4>1. ~(y = c /\ k = i)
        BY <1>5, <3>2 DEF Success
      <4> QED BY <1>6, <3>2, <4>1 DEF Success
    <3> QED BY <3>1, <3>2 DEF CopiesInv, Budget, UndoneWithin
  <2> QED BY <2>1, <2>2
<1>13. \A x \in Channels : \A k \in Slots(x) : del'[x][k] # NoDel => del[x][k] # NoDel
  BY <1>3, <1>6
<1>14. SlotsWithin'
  <2> SUFFICES ASSUME NEW x \in Channels, NEW k \in Slots(x), del'[x][k] # NoDel
               PROVE  copies'[JobId(x, k)'][del'[x][k].recip] <= faults + Spent(x, k)'
    BY <1>2 DEF SlotsWithin
  <2>1. CASE x = c /\ k = i
    BY <1>1, <1>6, <1>10, <2>1
  <2>2. CASE ~(x = c /\ k = i)
    <3>1. del[x][k] # NoDel /\ del'[x][k] = del[x][k] /\ JobId(x, k)' = JobId(x, k)
      BY <1>6, <1>13, <2>2
    <3>2. PICK y, q : y = JobId(x, k) /\ q = del[x][k].recip
      OBVIOUS
    <3>3. y \in Ids /\ q \in Recips /\ ~(y = id /\ q = r)
      BY <1>9, <2>2, <3>1, <3>2, SlotNames DEF JobId
    <3>4. copies'[y][q] = copies[y][q] /\ Spent(x, k)' = Spent(x, k)
      BY <1>2, <1>8, <3>1, <3>3 DEF Spent
    <3> QED BY <3>1, <3>2, <3>4 DEF CopiesInv, Budget, SlotsWithin
  <2> QED BY <2>1, <2>2
<1>15. SlotsInv'
  BY <1>2, <1>6, <1>13 DEF CopiesInv, SlotsInv
<1>16. FreshInv'
  <2>1. ASSUME NEW x \in Ids, x # id, Fresh(x) PROVE Fresh(x)'
    <3>1. copies' = copies \/ copies' = [copies EXCEPT ![id][r] = @ + 1]
      BY <1>5
    <3>2. copies'[x] = copies[x]
      BY <1>7, <2>1, <3>1
    <3> QED BY <1>2, <2>1, <3>2 DEF Fresh
  <2>2. S5(id)
    BY <1>1, <1>3, SlotNames DEF JobId, StatesInv, OneClaim
  <2>3. \A p \in Procs : qpc[p] \in Entering => qid[p] # id /\ qid[p] \in Ids
    BY <2>2, EnteringIds DEF InjectorInv, Hidden, S5, Has
  <2>4. FreshInv /\ ~(~Has(id, "mess") \/ Has(id, "todo"))
    BY <2>2 DEF CopiesInv, S5
  <2> QED BY <1>2, <2>1, <2>3, <2>4 DEF FreshInv, Has, Fresh
<1>17. NotesFiled' /\ OneFile'
  BY <1>2 DEF CopiesInv, NotesFiled, OneFile, Records, Has
<1> QED BY <1>11, <1>12, <1>14, <1>15, <1>16, <1>17 DEF CopiesInv, Budget

-----------------------------------------------------------------------------
LEMMA NextCopies ==
  Known /\ CopiesInv /\ TypeOK' /\ StatesInv' /\ [Next]_vars => CopiesInv'
<1> SUFFICES ASSUME Known, CopiesInv, TypeOK', StatesInv', [Next]_vars
             PROVE  CopiesInv'
  OBVIOUS
<1>1. CASE SendAlone
  <2>1. ASSUME NEW id \in Ids, RetryFailed(id) PROVE FALSE
    BY <2>1 DEF RetryFailed, Known, StatesInv, NoneFailed
  <2> QED BY <1>1, <2>1, StillCopies, EndCopies, PreprocessFailsCopies, PassOpenCopies,
          PassDeliverCopies, PassCloseCopies, DeliveryCopies DEF SendAlone
<1>2. ASSUME NEW id \in Ids, Ask(id) PROVE CopiesInv'
  BY <1>2, PreprocessCopies, EndCopies, StillCopies DEF Ask
<1> QED BY <1>1, <1>2, InjectCopies, ReportCopies, DeliveryCopies, EndCopies, StillCopies,
           CleanCopies, StopCopies DEF Next

(* CopiesInv in every reachable state.                                     *)
THEOREM CopiesCorrect == ~StatFails /\ Spec => []CopiesInv
<1> SUFFICES ASSUME ~StatFails PROVE Spec => []CopiesInv
  OBVIOUS
<1>1. Spec => []StatesInv
  BY StatesCorrect
<1>2. TypeOK /\ JobsInv /\ InjectorInv /\ StatesInv /\ CopiesInv
         /\ TypeOK' /\ StatesInv' /\ [Next]_vars => CopiesInv'
  BY NextCopies DEF Known
<1> QED BY <1>1, <1>2, InitCopies, TypeCorrect, JobTableCorrect, InjectorCorrect, PTL DEF Spec

(* One copy for each recipient, and one more for each failing call, kill   *)
(* or crash.                                                               *)
THEOREM OnceEach == ~StatFails /\ Spec => []NoNeedlessCopies
<1>1. CopiesInv => NoNeedlessCopies
  BY DEF CopiesInv, Budget, Within, NoNeedlessCopies
<1> QED BY <1>1, CopiesCorrect, PTL

(* Only NOT DONE recipients are tried.                                     *)
THEOREM TriedUndone == ~StatFails /\ Spec => []OnlyNotDoneTried
<1>1. CopiesInv => OnlyNotDoneTried
  BY DEF CopiesInv, SlotsInv, JobId, OnlyNotDoneTried, NoDel
<1> QED BY <1>1, CopiesCorrect, PTL

-----------------------------------------------------------------------------
(***************************************************************************)
(* The queue implements MailService, step by step.  A recipient is owed    *)
(* something while it has a T record and no success waits in the pipe of a *)
(* spawner.  link() of todo/ accepts a message; an agent that succeeds     *)
(* delivers; a report that is noted or marked, and the end of a channel    *)
(* file, settle; a success that is forgotten, because markdone() fails,    *)
(* because qmail-send stops after a spawner has died, or because the       *)
(* machine crashes, opens a recipient again, and something has failed      *)
(* then; messdone() and injectbounce() end a message; qmail-clean makes    *)
(* its number free.  Every other step changes nothing that MailService     *)
(* sees, except perhaps the number of failures.                            *)
(***************************************************************************)


(* What is noted is in noted, a record is one of the envelope, and it is   *)
(* either a T or a D record.                                               *)
RecordsWhole(id) ==
    /\ notes[id] \subseteq noted[id]
    /\ \A c \in Channels : /\ Records(id, c) \subseteq rcpts[id]
                           /\ undone[id][c] \cap done[id][c] = {}

RecordsInv == \A id \in Ids : RecordsWhole(id)

Stands == Known /\ RecipInv /\ CopiesInv

-----------------------------------------------------------------------------
LEMMA InitRecords == Init => RecordsInv
BY DEF Init, DirInit, NoRecords, RecordsInv, RecordsWhole, Records

(* A message without todo/ and info/ has no records.                       *)
LEMMA UnacceptedRecords ==
  ASSUME StatesInv, RecipInv, NEW id \in Ids,
         "mess" \notin files[id] \/ ("todo" \notin files[id] /\ "info" \notin files[id])
  PROVE  \A c \in Channels : undone[id][c] = {} /\ done[id][c] = {}
<1>1. ~S4(id) /\ ~S5(id)
  BY DEF S4, S5, Has
<1>2. S1(id) \/ S2(id) \/ S3(id)
  BY <1>1 DEF StatesInv, QueueStates
<1>3. \A c \in Channels : c \notin files[id]
  BY <1>2 DEF S1, S2, S3, Channels
<1> QED BY <1>3 DEF RecipInv, Filed

(* The envelope, and the records, stay.                                    *)
EnvelopeKept(id) ==
    \/ rcpts'[id] = rcpts[id]
    \/ "mess" \notin files'[id]
    \/ "todo" \notin files'[id] /\ "info" \notin files'[id]

RecordsKept(id) ==
    \A c \in Channels : /\ undone'[id][c] \cup done'[id][c] \subseteq Records(id, c)
                        /\ undone'[id][c] \cap done'[id][c] = {}

LEMMA KeptRecords ==
  ASSUME RecordsInv, StatesInv', RecipInv', CopiesInv',
         \A id \in Ids : notes'[id] \subseteq noted'[id] \/ "mess" \notin files'[id],
         \A id \in Ids : EnvelopeKept(id) /\ RecordsKept(id)
  PROVE  RecordsInv'
<1> SUFFICES ASSUME NEW id \in Ids
             PROVE  /\ notes'[id] \subseteq noted'[id]
                    /\ \A c \in Channels : /\ undone'[id][c] \cup done'[id][c] \subseteq rcpts'[id]
                                           /\ undone'[id][c] \cap done'[id][c] = {}
  BY DEF RecordsInv, RecordsWhole, Records
<1>1. notes'[id] \subseteq noted'[id]
  <2>1. CASE "mess" \notin files'[id]
    <3>1. "bounce" \notin files'[id]
      BY <2>1 DEF StatesInv, QueueStates, S1, S2, S3, S4, S5, Has
    <3> QED BY <3>1 DEF CopiesInv, NotesFiled, Has
  <2> QED BY <2>1
<1>2. CASE rcpts'[id] = rcpts[id]
  BY <1>1, <1>2 DEF RecordsKept, RecordsInv, RecordsWhole, Records
<1>3. CASE "mess" \notin files'[id] \/ ("todo" \notin files'[id] /\ "info" \notin files'[id])
  <2>1. ASSUME StatesInv', RecipInv'
        PROVE  \A c \in Channels : undone'[id][c] = {} /\ done'[id][c] = {}
    <3>1. ~S4(id)' /\ ~S5(id)'
      BY <1>3 DEF S4, S5, Has
    <3>2. S1(id)' \/ S2(id)' \/ S3(id)'
      BY <2>1, <3>1 DEF StatesInv, QueueStates
    <3>3. \A c \in Channels : c \notin files'[id]
      BY <3>2 DEF S1, S2, S3, Channels
    <3> QED BY <2>1, <3>3 DEF RecipInv, Filed
  <2> QED BY <1>1, <2>1
<1> QED BY <1>2, <1>3 DEF EnvelopeKept

(* Steps that leave the records alone.                                     *)
LEMMA QuietRecords ==
  ASSUME RecordsInv, StatesInv', RecipInv', CopiesInv', UNCHANGED <<undone, done>>,
         \A id \in Ids : notes'[id] \subseteq notes[id],
         \A id \in Ids : noted[id] \subseteq noted'[id] \/ "mess" \notin files'[id],
         \A id \in Ids : EnvelopeKept(id)
  PROVE  RecordsInv'
<1>1. \A id \in Ids : RecordsKept(id)
  BY DEF RecordsKept, RecordsInv, RecordsWhole, Records
<1>2. \A id \in Ids : notes'[id] \subseteq noted'[id] \/ "mess" \notin files'[id]
  BY DEF RecordsInv, RecordsWhole
<1> QED BY <1>1, <1>2, KeptRecords

LEMMA UnlinkEnvelope ==
  ASSUME TypeOK, NEW id \in Ids, NEW ks, ks \cap Channels = {}, Unlink(id, ks)
  PROVE  /\ undone' = undone /\ done' = done
         /\ \A x \in Ids : /\ notes'[x] \subseteq notes[x]
                           /\ rcpts'[x] = rcpts[x] \/ "mess" \notin files'[x]
                           /\ files'[x] = IF x = id THEN files[x] \ ks ELSE files[x]
<1>1. /\ rcpts \in [Ids -> SUBSET Recips] /\ files \in [Ids -> SUBSET Kinds]
      /\ notes \in [Ids -> SUBSET Recips]
  BY DEF TypeOK, DirTypeOK
<1>2. undone' = undone /\ done' = done
  BY UnlinkRecords
<1>3. \A x \in Ids : rcpts'[x] = rcpts[x] \/ "mess" \notin files'[x]
  BY <1>1 DEF Unlink, Named
<1>4. \A x \in Ids : notes'[x] \subseteq notes[x]
  BY <1>1 DEF Unlink
<1>5. \A x \in Ids : files'[x] = IF x = id THEN files[x] \ ks ELSE files[x]
  BY <1>1 DEF Unlink
<1> QED BY <1>2, <1>3, <1>4, <1>5

-----------------------------------------------------------------------------
(* What each step does to what the promise sees.                           *)
Unseen ==
    /\ UNCHANGED <<undone, done, jo, del>>
    /\ faults' >= faults
    /\ \A x \in Ids : notes'[x] \subseteq notes[x] /\ EnvelopeKept(x)

LEMMA FaultsGrow ==
  ASSUME TypeOK, faults' = faults \/ \E n \in Nat : Fault(n)
  PROVE  faults' >= faults
BY FaultUp, CopiesTypes

LEMMA InjectSeen ==
  ASSUME Known, NEW p \in Procs,
         Inject(p) \/ InjectFails(p) \/ Envelope(p) \/ Queue(p)
  PROVE  /\ Unseen /\ UNCHANGED <<copies, noted>>
         /\ \A x \in Ids : /\ "info" \in files'[x] <=> "info" \in files[x]
                           /\ "todo" \in files'[x] <=> \/ "todo" \in files[x]
                                                       \/ LinkTodo(p) /\ qid[p] = x
<1> USE DEF Known
<1>1. /\ UNCHANGED <<jo, del, copies, noted>>
      /\ files \in [Ids -> SUBSET Kinds] /\ rcpts \in [Ids -> SUBSET Recips]
      /\ notes \in [Ids -> SUBSET Recips]
      /\ qpc[p] \in Entering => qid[p] \in Ids
  BY EnteringIds DEF Inject, InjectFails, Envelope, Queue, sendVars, history, TypeOK, DirTypeOK
<1>2. CASE PidOpen(p) \/ LinkMess(p) \/ OpenIntd(p)
  <2>1. PICK x \in Ids, k \in {"pid", "mess", "intd"} : Create(x, k) /\ faults' = faults
    BY <1>1, <1>2 DEF PidOpen, FreeIds, LinkMess, OpenIntd, Step, Entering
  <2>2. /\ \A y \in Ids : files'[y] = files[y] \/ files'[y] = files[y] \cup {k}
        /\ faults' >= faults
    BY <1>1, <2>1, FaultsGrow DEF Create
  <2>3. ~LinkTodo(p)
    BY <1>2 DEF LinkTodo, PidOpen, LinkMess, OpenIntd, Step
  <2> QED BY <1>1, <2>1, <2>2, <2>3 DEF Create, Unseen, EnvelopeKept
<1>3. CASE LinkTodo(p)
  <2>1. qid[p] \in Ids /\ Create(qid[p], "todo") /\ faults' = faults
    BY <1>1, <1>3 DEF LinkTodo, Step, Entering
  <2>2. /\ \A y \in Ids : files'[y] = IF y = qid[p] THEN files[y] \cup {"todo"} ELSE files[y]
        /\ faults' >= faults
    BY <1>1, <2>1, FaultsGrow DEF Create
  <2> QED BY <1>1, <1>3, <2>1, <2>2 DEF Create, Unseen, EnvelopeKept
<1>4. CASE UnlinkPid(p) \/ DieCleaning(p)
  <2>1. PICK ks \in SUBSET {"pid", "mess", "intd"} :
           Unlink(qid[p], ks) /\ (faults' = faults \/ Fault(1))
    BY <1>4 DEF UnlinkPid, DieCleaning, CleanedUp
  <2>2. /\ qid[p] \in Ids /\ ~LinkTodo(p)
        /\ ks \cap Channels = {} /\ "todo" \notin ks /\ "info" \notin ks
    BY <1>1, <1>4 DEF LinkTodo, UnlinkPid, DieCleaning, Step, Entering, Channels
  <2>3. faults' >= faults
    BY <2>1, FaultsGrow
  <2>4. /\ undone' = undone /\ done' = done
        /\ \A x \in Ids : /\ notes'[x] \subseteq notes[x]
                          /\ rcpts'[x] = rcpts[x] \/ "mess" \notin files'[x]
                          /\ files'[x] = IF x = qid[p] THEN files[x] \ ks ELSE files[x]
    BY <2>1, <2>2, UnlinkEnvelope
  <2> QED BY <1>1, <2>2, <2>3, <2>4 DEF Unseen, EnvelopeKept
<1>5. CASE ExitOk(p) \/ PidOpenFails(p) \/ DieLeaving(p) \/ Alarm(p) \/ WriteBody(p)
  <2>1. UNCHANGED <<files, rcpts, undone, done, notes>> /\ (faults' = faults \/ Fault(1))
    BY <1>5 DEF ExitOk, PidOpenFails, DieLeaving, Alarm, WriteBody, dirVars
  <2>2. LinkTodo(p) => FALSE
    <3> SUFFICES ASSUME LinkTodo(p) PROVE FALSE
      OBVIOUS
    <3>1. /\ qpc[p] = "ready" /\ qpc' = [qpc EXCEPT ![p] = "queued"]
          /\ files' = [files EXCEPT ![qid[p]] = @ \cup {"todo"}]
      BY DEF LinkTodo, Step, Create
    <3>2. qid[p] \in Ids /\ "todo" \notin files[qid[p]]
      BY <1>1, <3>1 DEF InjectorInv, Hidden, Entering
    <3> QED BY <1>1, <2>1, <3>1, <3>2
  <2>3. faults' >= faults
    BY <2>1, FaultsGrow
  <2> QED BY <1>1, <2>1, <2>2, <2>3 DEF Unseen, EnvelopeKept
<1>6. CASE \E s, rs : WriteEnvelope(p, s, rs)
  <2>1. /\ UNCHANGED <<files, undone, done, notes, faults>> /\ qpc[p] = "intd"
        /\ \E rs : rcpts' = [rcpts EXCEPT ![qid[p]] = rs]
    BY <1>6 DEF WriteEnvelope, Step
  <2>2. "todo" \notin files[qid[p]] /\ "info" \notin files[qid[p]] /\ ~LinkTodo(p)
    BY <2>1 DEF InjectorInv, Hidden, Entering, LinkTodo, Step
  <2>3. faults' >= faults
    BY <2>1, FaultsGrow
  <2> QED BY <1>1, <2>1, <2>2, <2>3 DEF Unseen, EnvelopeKept
<1> QED BY <1>2, <1>3, <1>4, <1>5, <1>6 DEF Inject, InjectFails, Envelope, Queue

(* qmail-clean.                                                            *)
LEMMA CleanSeen ==
  ASSUME Known, Clean
  PROVE  /\ Unseen
         /\ \A x \in Ids : /\ "info" \in files'[x] <=> "info" \in files[x]
                           /\ "todo" \in files'[x] => "todo" \in files[x]
                           /\ "todo" \in files[x] => "todo" \in files'[x] \/ TodoAsked(x)
                           /\ "mess" \in files[x] /\ "mess" \notin files'[x] =>
                                 "todo" \notin files[x] /\ "info" \notin files[x] /\ x = creq.id
<1> USE DEF Known
<1>1. UNCHANGED <<jo, del>> /\ files \in [Ids -> SUBSET Kinds]
  BY DEF Clean, sendVars, TypeOK, DirTypeOK
<1>2. CASE UnlinkIntd \/ UnlinkLast \/ DiesUnanswered
  <2>1. /\ creq \in Requests /\ creq.id \in Ids /\ cpc # "dead" /\ creq # NoRequest
        /\ creq.op = "foop" => "todo" \notin files[creq.id] /\ "info" \notin files[creq.id]
    BY <1>2 DEF UnlinkIntd, UnlinkLast, DiesUnanswered, InjectorInv, OneRequest, RequestSafe,
       TypeOK, CleanTypeOK, Requests
  <2>2. PICK k \in {"intd", "mess", "todo"} :
           /\ Unlink(creq.id, {k}) /\ (faults' = faults \/ Fault(1))
           /\ k = "mess" => creq.op = "foop"
           /\ k = "todo" => creq.op # "foop"
    BY <1>2 DEF UnlinkIntd, UnlinkLast, DiesUnanswered, First, Last
  <2>3. {k} \cap Channels = {}
    BY DEF Channels
  <2>4. k = "todo" => creq = Request("todo", creq.id)
    BY <2>1, <2>2 DEF Requests, Request
  <2>5. faults' >= faults
    BY <2>2, FaultsGrow
  <2>6. /\ undone' = undone /\ done' = done
        /\ \A x \in Ids : /\ notes'[x] \subseteq notes[x]
                          /\ rcpts'[x] = rcpts[x] \/ "mess" \notin files'[x]
                          /\ files'[x] = IF x = creq.id THEN files[x] \ {k} ELSE files[x]
    <3>1. PICK id, ks : id = creq.id /\ ks = {k}
      OBVIOUS
    <3>2. id \in Ids /\ Unlink(id, ks) /\ ks \cap Channels = {}
      BY <2>1, <2>2, <2>3, <3>1
    <3>3. /\ undone' = undone /\ done' = done
          /\ \A x \in Ids : /\ notes'[x] \subseteq notes[x]
                            /\ rcpts'[x] = rcpts[x] \/ "mess" \notin files'[x]
                            /\ files'[x] = IF x = id THEN files[x] \ ks ELSE files[x]
      BY <3>2, UnlinkEnvelope
    <3> QED BY <3>1, <3>3
  <2> QED BY <1>1, <2>1, <2>2, <2>4, <2>5, <2>6 DEF Unseen, EnvelopeKept, TodoAsked
<1>3. CASE SkipPids \/ CleanPids \/ ReadRequest \/ UnlinkFails \/ CleanDies
  <2>1. UNCHANGED <<rcpts, undone, done, notes>> /\ (faults' = faults \/ Fault(1))
    BY <1>3 DEF SkipPids, CleanPids, ReadRequest, UnlinkFails, CleanDies, dirVars
  <2>2. \A x \in Ids : files'[x] = files[x] \/ files'[x] = files[x] \ {"pid"}
    <3>1. CASE CleanPids
      <4>1. files' = [id \in Ids |-> IF id \in StalePids THEN files[id] \ {"pid"} ELSE files[id]]
        BY <3>1 DEF CleanPids
      <4> QED BY <4>1
    <3> QED BY <1>3, <3>1 DEF SkipPids, ReadRequest, UnlinkFails, CleanDies, dirVars
  <2>3. faults' >= faults
    BY <2>1, FaultsGrow
  <2> QED BY <1>1, <2>1, <2>2, <2>3 DEF Unseen, EnvelopeKept
<1> QED BY <1>2, <1>3 DEF Clean, CleanNext

-----------------------------------------------------------------------------
(* The steps of the promise, message by message.                           *)
SameHere == \A x \in Ids : Accepted(x)' <=> Accepted(x)

LEMMA FailService ==
  ASSUME SameHere, \A x \in Ids : Owed(x)' = Owed(x),
         copies' = copies, noted' = noted, faults' >= faults
  PROVE  Promise!ServiceNext
<1>1. {x \in Ids : Accepted(x)}' = {x \in Ids : Accepted(x)}
  BY DEF SameHere
<1>2. [x \in Ids |-> Owed(x)]' = [x \in Ids |-> Owed(x)]
  OBVIOUS
<1> QED BY <1>1, <1>2 DEF Promise!Fail, Promise!ServiceNext

LEMMA OwedRecips ==
  ASSUME TypeOK, NEW id \in Ids
  PROVE  Owed(id) \in SUBSET Recips
<1>1. /\ rcpts[id] \in SUBSET Recips
      /\ undone[id]["local"] \in SUBSET Recips /\ undone[id]["remote"] \in SUBSET Recips
  BY DEF TypeOK, DirTypeOK, Channels
<1> QED BY <1>1 DEF Owed

LEMMA AcceptService ==
  ASSUME TypeOK', NEW id \in Ids, ~Accepted(id), Fresh(id),
         \A x \in Ids : Accepted(x)' <=> x = id \/ Accepted(x),
         \A x \in Ids : x # id => Owed(x)' = Owed(x),
         copies' = copies, noted' = noted, faults' = faults
  PROVE  Promise!ServiceNext
<1>1. PICK rs : rs = Owed(id)'
  OBVIOUS
<1>2. rs \in SUBSET Recips
  <2>1. /\ rcpts'[id] \in SUBSET Recips
        /\ undone'[id]["local"] \in SUBSET Recips /\ undone'[id]["remote"] \in SUBSET Recips
    BY DEF TypeOK, DirTypeOK, Channels
  <2> QED BY <1>1, <2>1 DEF Owed
<1>3. {x \in Ids : Accepted(x)}' = {x \in Ids : Accepted(x)} \cup {id}
  OBVIOUS
<1>4. [x \in Ids |-> Owed(x)]' = [[x \in Ids |-> Owed(x)] EXCEPT ![id] = rs]
  BY <1>1
<1>5. Promise!Accept(id)
  BY <1>2, <1>3, <1>4 DEF Promise!Accept, Fresh, NoCopies
<1> QED BY <1>5 DEF Promise!ServiceNext

LEMMA EndService ==
  ASSUME NEW id \in Ids, Accepted(id), Owed(id) = {},
         \A x \in Ids : Accepted(x)' <=> x # id /\ Accepted(x),
         \A x \in Ids : Owed(x)' = Owed(x),
         copies' = copies, noted' = noted, faults' = faults
  PROVE  Promise!ServiceNext
<1>1. {x \in Ids : Accepted(x)}' = {x \in Ids : Accepted(x)} \ {id}
  OBVIOUS
<1>2. [x \in Ids |-> Owed(x)]' = [x \in Ids |-> Owed(x)]
  OBVIOUS
<1>3. Promise!End(id)
  BY <1>1, <1>2 DEF Promise!End
<1> QED BY <1>3 DEF Promise!ServiceNext

LEMMA RecycleService ==
  ASSUME NEW id \in Ids, ~Accepted(id), SameHere, \A x \in Ids : Owed(x)' = Owed(x),
         copies' = [copies EXCEPT ![id] = NoCopies], noted' = [noted EXCEPT ![id] = {}],
         faults' >= faults
  PROVE  Promise!ServiceNext
<1>1. {x \in Ids : Accepted(x)}' = {x \in Ids : Accepted(x)}
  BY DEF SameHere
<1>2. [x \in Ids |-> Owed(x)]' = [x \in Ids |-> Owed(x)]
  OBVIOUS
<1>3. Promise!Recycle(id)
  BY <1>1, <1>2 DEF Promise!Recycle, NoCopies
<1> QED BY <1>3 DEF Promise!ServiceNext

LEMMA DeliverService ==
  ASSUME NEW id \in Ids, NEW r \in Recips, r \in Owed(id), SameHere,
         \A x \in Ids : Owed(x)' = IF x = id THEN Owed(x) \ {r} ELSE Owed(x),
         copies' = [copies EXCEPT ![id][r] = @ + 1], noted' = noted, faults' = faults
  PROVE  Promise!ServiceNext
<1>1. {x \in Ids : Accepted(x)}' = {x \in Ids : Accepted(x)}
  BY DEF SameHere
<1>2. [x \in Ids |-> Owed(x)]' = [[x \in Ids |-> Owed(x)] EXCEPT ![id] = @ \ {r}]
  OBVIOUS
<1>3. Promise!Deliver(id, r)
  BY <1>1, <1>2 DEF Promise!Deliver
<1> QED BY <1>3 DEF Promise!ServiceNext

LEMMA SettleService ==
  ASSUME TypeOK, NEW id \in Ids, NEW R \in SUBSET Owed(id), SameHere,
         \A x \in Ids : x # id => Owed(x)' = Owed(x),
         \A r \in Owed(id)' : r \in Owed(id),
         \A r \in Owed(id) : r \in Owed(id)' \/ copies[id][r] > 0 \/ r \in noted'[id],
         copies' = copies, noted' = [noted EXCEPT ![id] = @ \cup R], faults' >= faults
  PROVE  Promise!ServiceNext
<1>1. {x \in Ids : Accepted(x)}' = {x \in Ids : Accepted(x)}
  BY DEF SameHere
<1>2. PICK ow, S : ow = Owed(id)' /\ S = Owed(id) \ ow
  OBVIOUS
<1>3. S \in SUBSET Recips /\ R \in SUBSET Recips /\ S \subseteq Owed(id)
  BY <1>2, OwedRecips
<1>4. ow = Owed(id) \ S
  BY <1>2
<1>5. [x \in Ids |-> Owed(x)]' = [[x \in Ids |-> Owed(x)] EXCEPT ![id] = @ \ S]
  BY <1>2, <1>4
<1>6. \A r \in S : copies[id][r] > 0 \/ r \in noted'[id]
  BY <1>2
<1>7. Promise!Settle(id, R, S)
  BY <1>1, <1>3, <1>5, <1>6 DEF Promise!Settle
<1> QED BY <1>3, <1>7 DEF Promise!ServiceNext

LEMMA ReopenService ==
  ASSUME SameHere, faults' >= faults, faults' > 0,
         \A x \in Ids : \A r \in Owed(x) : r \in Owed(x)',
         \A x \in Ids : \A r \in Owed(x)' :
             r \in Owed(x) \/ (Accepted(x) /\ (copies[x][r] > 0 \/ r \in noted[x])),
         copies' = copies, noted' = noted
  PROVE  Promise!ServiceNext
<1>1. {x \in Ids : Accepted(x)}' = {x \in Ids : Accepted(x)}
  BY DEF SameHere
<1>2. Promise!Reopen
  BY <1>1 DEF Promise!Reopen
<1> QED BY <1>2 DEF Promise!ServiceNext

-----------------------------------------------------------------------------
(* A step that leaves the records and the successes alone.                 *)
LEMMA OwedSame ==
  ASSUME NEW id \in Ids, "todo" \in files'[id] <=> "todo" \in files[id],
         "todo" \in files[id] => rcpts'[id] = rcpts[id],
         "todo" \notin files[id] => undone'[id] = undone[id],
         \A r : SuccessPending(id, r)' <=> SuccessPending(id, r)
  PROVE  Owed(id)' = Owed(id)
BY DEF Owed, Has

LEMMA SameSlots ==
  ASSUME UNCHANGED <<jo, del>>
  PROVE  \A id, r : SuccessPending(id, r)' <=> SuccessPending(id, r)
BY DEF SuccessPending

LEMMA UnseenOwed ==
  ASSUME Unseen, InjectorInv', NEW id \in Ids, "todo" \in files'[id] <=> "todo" \in files[id]
  PROVE  Owed(id)' = Owed(id)
<1>1. "todo" \in files[id] => rcpts'[id] = rcpts[id]
  BY DEF Unseen, EnvelopeKept, InjectorInv, MessLast
<1>2. undone'[id] = undone[id] /\ UNCHANGED <<jo, del>>
  BY DEF Unseen
<1> QED BY <1>1, <1>2, SameSlots, OwedSame

LEMMA UnseenService ==
  ASSUME Unseen, InjectorInv', copies' = copies, noted' = noted,
         \A x \in Ids : /\ "info" \in files'[x] <=> "info" \in files[x]
                        /\ "todo" \in files'[x] <=> "todo" \in files[x]
  PROVE  Promise!ServiceNext
<1>1. \A x \in Ids : Owed(x)' = Owed(x)
  BY UnseenOwed
<1>2. SameHere
  BY DEF SameHere, Accepted, Has
<1>3. faults' >= faults
  BY DEF Unseen
<1> QED BY <1>1, <1>2, <1>3, FailService

-----------------------------------------------------------------------------
(* A qmail-queue: link() of todo/ is the promise.                          *)
LEMMA InjectService ==
  ASSUME Stands, TypeOK', InjectorInv', NEW p \in Procs,
         Inject(p) \/ InjectFails(p) \/ Envelope(p) \/ Queue(p)
  PROVE  Promise!ServiceNext
<1> USE DEF Stands
<1>1. /\ Unseen /\ UNCHANGED <<copies, noted>>
      /\ \A x \in Ids : /\ "info" \in files'[x] <=> "info" \in files[x]
                        /\ "todo" \in files'[x] <=> \/ "todo" \in files[x]
                                                    \/ LinkTodo(p) /\ qid[p] = x
  BY InjectSeen
<1>2. CASE ~LinkTodo(p)
  BY <1>1, <1>2, UnseenService
<1>3. CASE LinkTodo(p)
  <2>1. PICK id : id = qid[p]
    OBVIOUS
  <2>2. qpc[p] \in Entering /\ faults' = faults
    BY <1>3 DEF LinkTodo, Step, Entering
  <2>3. id \in Ids /\ "todo" \notin files[id] /\ "info" \notin files[id] /\ Fresh(id)
    BY <2>1, <2>2, EnteringIds DEF Known, InjectorInv, Hidden, CopiesInv, FreshInv
  <2>4. \A x \in Ids : x # id => Owed(x)' = Owed(x)
    BY <1>1, <2>1, UnseenOwed
  <2>5. \A x \in Ids : Accepted(x)' <=> x = id \/ Accepted(x)
    BY <1>1, <1>3, <2>1 DEF Accepted, Has
  <2>6. ~Accepted(id)
    BY <2>3 DEF Accepted, Has
  <2> QED BY <1>1, <2>2, <2>3, <2>4, <2>5, <2>6, AcceptService
<1> QED BY <1>2, <1>3

-----------------------------------------------------------------------------
(* qmail-clean.  While todo/ waits to be removed, the channel files hold   *)
(* the whole envelope.                                                     *)
LEMMA NotPending ==
  ASSUME Known, NEW id \in Ids, ~S5(id) \/ ~HasChannel(id)
  PROVE  \A r : ~SuccessPending(id, r)
<1> SUFFICES ASSUME NEW r, SuccessPending(id, r) PROVE FALSE
  OBVIOUS
<1>0. PICK c \in Channels : \E i \in Slots(c) :
         del[c][i].st = "K" /\ jo[del[c][i].j].id = id
  BY DEF SuccessPending
<1>1. PICK i \in Slots(c) : del[c][i].st = "K" /\ jo[del[c][i].j].id = id
  BY <1>0
<1>2. del[c][i] # NoDel
  BY <1>1 DEF NoDel
<1>3. del[c][i].j \in Jobs /\ Open(del[c][i].j)
  BY <1>2, SlotNames
<1>4. jo[del[c][i].j].channel \in Channels /\ S5(id) /\ Has(id, jo[del[c][i].j].channel)
  BY <1>1, <1>3 DEF Known, StatesInv, OneClaim, TypeOK, SendTypeOK, JobRecords
<1> QED BY <1>4 DEF HasChannel, Has

LEMMA AskedWhole ==
  ASSUME Stands, RecordsInv, NEW id \in Ids, TodoAsked(id)
  PROVE  /\ "todo" \in files[id] /\ "info" \in files[id]
         /\ undone[id]["local"] \cup undone[id]["remote"] = rcpts[id]
         /\ \A r : ~SuccessPending(id, r)
<1> USE DEF Stands, Known
<1>1. cpc # "dead" /\ creq # NoRequest /\ creq.id = id /\ creq.op = "todo"
  BY DEF TodoAsked, Request, NoRequest
<1>2. "todo" \in files[id] /\ "info" \in files[id]
  BY <1>1 DEF StatesInv, RequestWhole
<1>3. Fresh(id)
  BY <1>2 DEF CopiesInv, FreshInv, Has
<1>4. \A r \in Recips : ~Served(id, r)
  BY <1>3 DEF Fresh, Served, NoCopies
<1>5. \A r \in rcpts[id] : \E c \in Channels : r \in undone[id][c]
  <2>1. rcpts[id] \subseteq Recips
    BY DEF TypeOK, DirTypeOK
  <2> QED BY <1>4, <2>1 DEF RecipInv, Accounted, Settled
<1>6. \A c \in Channels : undone[id][c] \subseteq rcpts[id]
  BY DEF RecordsInv, RecordsWhole, Records
<1>7. \A r : ~SuccessPending(id, r)
  BY <1>2, NotPending DEF S5, Has
<1> QED BY <1>2, <1>5, <1>6, <1>7 DEF Channels

LEMMA CleanService ==
  ASSUME Stands, RecordsInv, TypeOK', InjectorInv', Clean
  PROVE  Promise!ServiceNext
<1> USE DEF Stands, Known
<1>1. /\ Unseen
      /\ \A x \in Ids : /\ "info" \in files'[x] <=> "info" \in files[x]
                        /\ "todo" \in files'[x] => "todo" \in files[x]
                        /\ "todo" \in files[x] => "todo" \in files'[x] \/ TodoAsked(x)
                        /\ "mess" \in files[x] /\ "mess" \notin files'[x] =>
                              "todo" \notin files[x] /\ "info" \notin files[x] /\ x = creq.id
  BY CleanSeen
<1>2. /\ copies \in [Ids -> [Recips -> Nat]] /\ noted \in [Ids -> SUBSET Recips]
      /\ copies' = [x \in Ids |-> IF "mess" \in files'[x] THEN copies[x] ELSE NoCopies]
      /\ noted' = [x \in Ids |-> IF "mess" \in files'[x] THEN noted[x] ELSE {}]
      /\ faults' >= faults
  BY <1>1 DEF Clean, TypeOK, HistoryTypeOK, Unseen
<1>3. SameHere
  <2>1. ASSUME NEW x \in Ids PROVE Accepted(x)' <=> Accepted(x)
    BY <1>1, AskedWhole DEF Accepted, Has
  <2> QED BY <2>1 DEF SameHere
<1>4. ASSUME NEW x \in Ids PROVE Owed(x)' = Owed(x)
  <2>1. CASE "todo" \in files'[x] <=> "todo" \in files[x]
    BY <1>1, <2>1, UnseenOwed
  <2>2. CASE "todo" \in files[x] /\ "todo" \notin files'[x]
    <3>1. /\ undone[x]["local"] \cup undone[x]["remote"] = rcpts[x]
          /\ \A r : ~SuccessPending(x, r)
      BY <1>1, <2>2, AskedWhole
    <3>2. undone' = undone /\ \A r : SuccessPending(x, r)' <=> SuccessPending(x, r)
      BY <1>1, SameSlots DEF Unseen
    <3> QED BY <2>2, <3>1, <3>2 DEF Owed, Has
  <2> QED BY <1>1, <2>1, <2>2
<1>5. CASE \A x \in Ids : "mess" \in files[x] => "mess" \in files'[x]
  <2>1. \A x \in Ids : "mess" \notin files'[x] => copies[x] = NoCopies /\ noted[x] = {}
    BY <1>5 DEF CopiesInv, FreshInv, Fresh, Has
  <2>2. copies' = copies /\ noted' = noted
    BY <1>2, <2>1
  <2> QED BY <1>2, <1>3, <1>4, <2>2, FailService
<1>6. ASSUME NEW id \in Ids, "mess" \in files[id], "mess" \notin files'[id]
      PROVE  Promise!ServiceNext
  <2>1. ~Accepted(id) /\ id = creq.id
    BY <1>1, <1>6 DEF Accepted, Has
  <2>2. \A x \in Ids : x # id /\ "mess" \notin files'[x] => copies[x] = NoCopies /\ noted[x] = {}
    BY <1>1, <2>1 DEF CopiesInv, FreshInv, Fresh, Has
  <2>3. copies' = [copies EXCEPT ![id] = NoCopies] /\ noted' = [noted EXCEPT ![id] = {}]
    BY <1>2, <1>6, <2>2
  <2> QED BY <1>2, <1>3, <1>4, <2>1, <2>3, RecycleService
<1> QED BY <1>5, <1>6

-----------------------------------------------------------------------------
(* Steps the promise does not see.                                         *)
LEMMA StillSeen ==
  ASSUME Stands,
         \/ /\ \/ Start \/ Term
               \/ \E id \in Ids : MessDoneReturns(id) \/ MessDoneBounces(id) \/ Expire(id)
               \/ \E c \in Channels : SpawnDied(c)
            /\ UNCHANGED <<queueVars, cleanVars, history>>
         \/ \E id \in Ids : Cleanup(id) /\ PutRequest("foop", id) /\ UNCHANGED <<queueVars, history>>
         \/ Answer \/ Tick \/ UNCHANGED vars
  PROVE  Unseen /\ UNCHANGED <<files, copies, noted>>
<1> USE DEF Stands, Known
<1>1. UNCHANGED <<files, rcpts, undone, done, notes, jo, del, copies, noted>>
  BY DEF Start, Term, MessDoneReturns, MessDoneBounces, Expire, SpawnDied, Cleanup, Answer, Tick,
     Answered, Preprocessed, CleanDied, dirVars, contents, tables, history, sendVars, vars
<1>2. faults' = faults \/ \E n \in Nat : Fault(n)
  <2>1. CASE Start
    <3>1. PICK bad \in SUBSET {id \in Ids : StatFails /\ Has(id, "info")} :
             Fault(Cardinality(bad))
      BY <2>1 DEF Start
    <3>2. bad = {}
      BY DEF StatesInv, NoneFailed
    <3> QED BY <3>1, <3>2, FS_EmptySet
  <2>2. CASE Term \/ \E c \in Channels : SpawnDied(c)
    BY <2>2 DEF Term, SpawnDied
  <2>3. CASE \/ \E id \in Ids : \/ MessDoneReturns(id) \/ MessDoneBounces(id) \/ Expire(id)
                                \/ Cleanup(id)
             \/ Answer \/ Tick \/ UNCHANGED vars
    BY <2>3 DEF MessDoneReturns, MessDoneBounces, Expire, Cleanup, Answer, Tick,
       Answered, Preprocessed, CleanDied, dirVars, vars
  <2> QED BY <2>1, <2>2, <2>3
<1>3. faults' >= faults
  BY <1>2, FaultsGrow
<1>4. Unseen
  BY <1>1, <1>3 DEF Unseen, EnvelopeKept
<1> QED BY <1>1, <1>4

LEMMA UnlinkSeen ==
  ASSUME TypeOK, NEW id \in Ids, NEW ks, ks \cap Channels = {}, Unlink(id, ks),
         UNCHANGED <<jo, del>>, faults' >= faults
  PROVE  /\ Unseen
         /\ \A x \in Ids : files'[x] = IF x = id THEN files[x] \ ks ELSE files[x]
BY UnlinkEnvelope DEF Unseen, EnvelopeKept

(* messdone() without its last unlink().                                   *)
LEMMA EndFailsService ==
  ASSUME Stands, InjectorInv', NEW id \in Ids, copies' = copies, noted' = noted,
         MessDoneFails(id) \/ BounceAcceptedFails(id) \/ BounceRefused(id)
  PROVE  Promise!ServiceNext
<1> USE DEF Stands, Known
<1>1. UNCHANGED <<jo, del>>
  BY DEF MessDoneFails, BounceAcceptedFails, BounceRefused, EndMessFails, tables
<1>2. CASE BounceRefused(id)
  <2>1. faults' = faults
    BY <1>2 DEF BounceRefused, dirVars
  <2>2. faults' >= faults
    BY <2>1, FaultsGrow
  <2>3. Unseen
    BY <1>1, <1>2, <2>2 DEF BounceRefused, dirVars, Unseen, EnvelopeKept
  <2> QED BY <1>2, <2>3, UnseenService DEF BounceRefused, dirVars
<1>3. CASE MessDoneFails(id) \/ BounceAcceptedFails(id)
  <2>1. PICK ks \in {{}, {"bounce"}} : Unlink(id, ks) /\ Fault(1)
    BY <1>3 DEF MessDoneFails, BounceAcceptedFails, EndMessFails
  <2>2. faults' >= faults
    BY <2>1, FaultsGrow
  <2>3. ks \cap Channels = {} /\ "todo" \notin ks /\ "info" \notin ks
    BY DEF Channels
  <2>4. /\ Unseen
        /\ \A x \in Ids : files'[x] = IF x = id THEN files[x] \ ks ELSE files[x]
    BY <1>1, <2>1, <2>2, <2>3, UnlinkSeen
  <2> QED BY <2>3, <2>4, UnseenService
<1> QED BY <1>2, <1>3

(* messdone() to its end: the message is over, and nothing is owed.        *)
LEMMA EndsService ==
  ASSUME Stands, InjectorInv', NEW id \in Ids, S5(id), ~HasChannel(id), EndMess(id),
         copies' = copies, noted' = noted
  PROVE  Promise!ServiceNext
<1> USE DEF Stands, Known
<1>1. PICK ks : ks = {"bounce", "info"}
  OBVIOUS
<1>2. Unlink(id, ks) /\ UNCHANGED <<jo, del>> /\ faults' = faults
  BY <1>1 DEF EndMess, tables
<1>3. faults' >= faults /\ ks \cap Channels = {}
  BY <1>1, <1>2, FaultsGrow DEF Channels
<1>4. /\ Unseen
      /\ \A x \in Ids : files'[x] = IF x = id THEN files[x] \ ks ELSE files[x]
  BY <1>2, <1>3, UnlinkSeen
<1>5. \A x \in Ids : Owed(x)' = Owed(x)
  BY <1>1, <1>4, UnseenOwed
<1>6. Owed(id) = {}
  BY DEF Owed, S5, Has, HasChannel, RecipInv, Filed, Channels
<1>7. Accepted(id) /\ \A x \in Ids : Accepted(x)' <=> x # id /\ Accepted(x)
  BY <1>1, <1>4 DEF Accepted, S5, Has
<1> QED BY <1>2, <1>5, <1>6, <1>7, EndService

LEMMA EndingService ==
  ASSUME Stands, InjectorInv', NEW id \in Ids,
         \/ MessDoneFails(id) /\ UNCHANGED history
         \/ MessDoneEnds(id) /\ UNCHANGED history
         \/ BounceOver(id)
  PROVE  Promise!ServiceNext
<1> USE DEF Stands, Known
<1>1. copies' = copies /\ noted' = noted
  BY DEF BounceOver, history
<1>2. CASE MessDoneEnds(id)
  <2>1. Finished(id) /\ EndMess(id)
    BY <1>2 DEF MessDoneEnds
  <2>2. S5(id) /\ ~HasChannel(id)
    BY <2>1, AddableStates DEF Finished
  <2> QED BY <1>1, <2>1, <2>2, EndsService
<1>3. CASE BounceAccepted(id)
  <2>1. EndMess(id) /\ S5(id) /\ ~HasChannel(id)
    BY <1>3 DEF BounceAccepted, StatesInv, BounceWhole
  <2> QED BY <1>1, <2>1, EndsService
<1>4. CASE MessDoneFails(id) \/ BounceAcceptedFails(id) \/ BounceRefused(id)
  BY <1>1, <1>4, EndFailsService
<1> QED BY <1>2, <1>3, <1>4 DEF BounceOver

-----------------------------------------------------------------------------
(* Preprocessing: the envelope stays what is owed.                         *)
LEMMA PreprocessService ==
  ASSUME Stands, NEW id \in Ids, Preprocess(id) \/ PreprocessFails(id), UNCHANGED history
  PROVE  Promise!ServiceNext
<1> USE DEF Stands, Known
<1>1. /\ UNCHANGED <<jo, del, copies, noted>> /\ "todo" \in files[id]
      /\ files \in [Ids -> SUBSET Kinds] /\ rcpts \in [Ids -> SUBSET Recips]
      /\ undone \in [Ids -> [Channels -> SUBSET Recips]]
  BY DEF Preprocess, PreprocessFails, Preprocessable, Has, sendVars, tables, history,
     TypeOK, DirTypeOK
<1>2. faults' = faults \/ Fault(1)
  BY DEF Preprocess, PreprocessFails
<1>3. faults' >= faults
  BY <1>2, FaultsGrow
<1>4. /\ "todo" \in files'[id] /\ rcpts'[id] = rcpts[id]
      /\ \A x \in Ids : x # id => files'[x] = files[x] /\ rcpts'[x] = rcpts[x]
                                  /\ undone'[x] = undone[x]
  <2>1. CASE Preprocess(id)
    BY <1>1, <2>1 DEF Preprocess, Remade, Channels
  <2>2. CASE PreprocessFails(id)
    <3>1. CASE \E gone \in {{}, {"local"}, Channels, Remade} : Unlink(id, gone)
      <4>1. PICK gone \in {{}, {"local"}, Channels, Remade} : Unlink(id, gone)
        BY <3>1
      <4>2. "mess" \in files[id] \ gone /\ "todo" \notin gone
        BY <1>1 DEF InjectorInv, MessLast, Remade, Channels
      <4> QED BY <1>1, <4>1, <4>2 DEF Unlink, Named
    <3>2. CASE \E cs \in SUBSET Channels :
                 /\ files' = [files EXCEPT ![id] = (@ \ Remade) \cup {"info"} \cup cs]
                 /\ undone' = [undone EXCEPT ![id] = NoRecords]
                 /\ rcpts' = rcpts
      BY <1>1, <3>2 DEF Remade, Channels
    <3> QED BY <2>2, <3>1, <3>2 DEF PreprocessFails
  <2> QED BY <2>1, <2>2
<1>5. ASSUME NEW x \in Ids PROVE Owed(x)' = Owed(x)
  <2>1. \A r : SuccessPending(x, r)' <=> SuccessPending(x, r)
    BY <1>1, SameSlots
  <2> QED BY <1>1, <1>4, <2>1, OwedSame
<1>6. SameHere
  BY <1>1, <1>4 DEF SameHere, Accepted, Has
<1> QED BY <1>1, <1>3, <1>5, <1>6, FailService

-----------------------------------------------------------------------------
(* Passes and deliveries.                                                  *)
LEMMA PendingSuccess ==
  ASSUME NEW id, NEW r
  PROVE  SuccessPending(id, r) <=> \E c \in Channels : \E i \in Slots(c) : Success(c, i, id, r)
BY DEF SuccessPending, Success, JobId

LEMMA PendingKept ==
  ASSUME \A c \in Channels : \A i \in Slots(c) :
            /\ del'[c][i].st = "K" <=> del[c][i].st = "K"
            /\ del[c][i].st = "K" => del'[c][i].recip = del[c][i].recip /\ JobId(c, i)' = JobId(c, i)
  PROVE  \A id, r : SuccessPending(id, r)' <=> SuccessPending(id, r)
BY DEF SuccessPending, JobId

LEMMA SlotsService ==
  ASSUME TypeOK, UNCHANGED <<files, rcpts, undone, copies, noted, faults>>,
         \A id, r : SuccessPending(id, r)' <=> SuccessPending(id, r)
  PROVE  Promise!ServiceNext
<1>1. \A x \in Ids : Owed(x)' = Owed(x)
  BY OwedSame
<1>2. SameHere
  BY DEF SameHere, Accepted, Has
<1>3. faults' >= faults
  BY FaultsGrow
<1> QED BY <1>1, <1>2, <1>3, FailService

LEMMA PassService ==
  ASSUME Stands, NEW c \in Channels, UNCHANGED history,
         PassDeliver(c) \/ \E id \in Ids : PassOpen(c, id)
  PROVE  Promise!ServiceNext
<1> USE DEF Stands, Known
<1>1. UNCHANGED <<files, rcpts, undone, copies, noted, faults>>
  BY DEF PassDeliver, PassOpen, dirVars, history
<1>2. jo \in [Jobs -> JobRecords] /\ DelTypeOK(del)
  BY DEF TypeOK, SendTypeOK
<1>3. CASE \E id \in Ids : PassOpen(c, id)
  <2>1. JobsFree \in SUBSET Nat /\ JobsFree # {}
    BY <1>3 DEF PassOpen, JobsFree, Jobs
  <2>2. PICK j : j = Least(JobsFree)
    OBVIOUS
  <2>3. j \in Jobs /\ jo[j].refs = 0
    BY <2>1, <2>2, LeastType DEF JobsFree
  <2>4. del' = del /\ \A k \in Jobs : k # j => jo'[k] = jo[k]
    BY <1>2, <1>3, <2>2, <2>3 DEF PassOpen
  <2>5. ASSUME NEW x \in Channels, NEW k \in Slots(x), del[x][k].st = "K"
        PROVE  JobId(x, k)' = JobId(x, k)
    <3>1. del[x][k] # NoDel
      BY <2>5 DEF NoDel
    <3>2. del[x][k].j \in Jobs /\ del[x][k].j # j
      BY <2>3, <3>1, SlotNames DEF Open
    <3> QED BY <2>4, <3>2 DEF JobId
  <2> QED BY <1>1, <2>4, <2>5, PendingKept, SlotsService
<1>4. CASE PassDeliver(c)
  <2>1. SlotsFree(c) \in SUBSET Nat /\ SlotsFree(c) # {}
    BY <1>4 DEF PassDeliver, DelAvail, SlotsFree, Slots
  <2>2. PICK i, j : i = Least(SlotsFree(c)) /\ j = pass[c].j
    OBVIOUS
  <2>3. i \in Slots(c) /\ del[c][i] = NoDel
    BY <2>1, <2>2, LeastType DEF SlotsFree
  <2>4. /\ \E r : del' = [del EXCEPT ![c][i] = [j |-> j, recip |-> r, st |-> "comm"]]
        /\ jo' = [jo EXCEPT ![j] = Referred(@)]
    BY <1>4, <2>2 DEF PassDeliver
  <2>5. PICK d : d.st = "comm" /\ del' = [del EXCEPT ![c][i] = d]
    BY <2>4
  <2>6. \A x \in Channels : \A k \in Slots(x) :
           del'[x][k] = IF x = c /\ k = i THEN d ELSE del[x][k]
    BY <1>2, <2>3, <2>5 DEF DelTypeOK
  <2>7. j \in Jobs
    BY <1>4, <2>2, Refers DEF PassDeliver
  <2>8. \A k \in Jobs : jo'[k].id = jo[k].id
    BY <1>2, <2>4, <2>7 DEF Referred, JobRecords
  <2>9. ASSUME NEW x \in Channels, NEW k \in Slots(x)
        PROVE  /\ del'[x][k].st = "K" <=> del[x][k].st = "K"
               /\ del[x][k].st = "K" => del'[x][k].recip = del[x][k].recip
                                        /\ JobId(x, k)' = JobId(x, k)
    <3>1. CASE x = c /\ k = i
      BY <2>3, <2>5, <2>6, <3>1 DEF NoDel
    <3>2. CASE ~(x = c /\ k = i)
      <4>1. del'[x][k] = del[x][k]
        BY <2>6, <3>2
      <4>2. del[x][k].st = "K" => del[x][k].j \in Jobs
        BY SlotNames DEF NoDel
      <4> QED BY <2>8, <4>1, <4>2 DEF JobId
    <3> QED BY <3>1, <3>2
  <2> QED BY <1>1, <2>9, PendingKept, SlotsService
<1> QED BY <1>3, <1>4

LEMMA DeliveryService ==
  ASSUME Stands, NEW c \in Channels, NEW i \in Slots(c),
         \/ CommWrite(c, i) /\ UNCHANGED <<queueVars, history>>
         \/ \E result \in {"K", "Z", "D"} : Delivery(c, i, result)
  PROVE  Promise!ServiceNext
<1> USE DEF Stands
<1>1. PICK id, r : id = JobId(c, i) /\ r = del[c][i].recip
  OBVIOUS
<1>2. /\ UNCHANGED <<files, rcpts, undone, faults, noted>>
      /\ \E s : SlotBecomes(c, i, s)
  BY <1>1, DeliveryShape
<1>3. /\ del[c][i] # NoDel
      /\ id \in Ids /\ r \in Recips /\ r \in undone[id][c]
  BY <1>1, DeliveryShape
<1>4. PICK s : SlotBecomes(c, i, s)
  BY <1>2
<1>5. \A x \in Channels : \A k \in Slots(x) :
         /\ del'[x][k].recip = del[x][k].recip /\ JobId(x, k)' = JobId(x, k)
         /\ del'[x][k].st = IF x = c /\ k = i THEN s ELSE del[x][k].st
  BY <1>4 DEF SlotBecomes
<1>6. CASE s # "K"
  <2>1. copies' = copies /\ del[c][i].st # "K"
    BY <1>4, <1>6 DEF SlotBecomes
  <2>2. \A x \in Channels : \A k \in Slots(x) :
           /\ del'[x][k].st = "K" <=> del[x][k].st = "K"
           /\ del[x][k].st = "K" => del'[x][k].recip = del[x][k].recip
                                    /\ JobId(x, k)' = JobId(x, k)
    BY <1>5, <1>6, <2>1
  <2> QED BY <1>2, <2>1, <2>2, PendingKept, SlotsService DEF Known
<1>7. CASE s = "K"
  <2>1. copies' = [copies EXCEPT ![id][r] = @ + 1] /\ del[c][i].st = "spawn"
    BY <1>1, <1>4, <1>7 DEF SlotBecomes
  <2>2. \A x \in Ids : \A q : SuccessPending(x, q)' <=> SuccessPending(x, q) \/ (x = id /\ q = r)
    <3>1. \A x, q : \A y \in Channels : \A k \in Slots(y) :
             Success(y, k, x, q)' <=> \/ Success(y, k, x, q)
                                      \/ y = c /\ k = i /\ x = id /\ q = r
      BY <1>1, <1>5, <1>7, <2>1 DEF Success
    <3>2. \A x, q : SuccessPending(x, q)' <=>
                       \E y \in Channels : \E k \in Slots(y) : Success(y, k, x, q)'
      BY DEF SuccessPending, Success, JobId
    <3> QED BY <3>1, <3>2, PendingSuccess
  <2>3. ~SuccessPending(id, r)
    <3> SUFFICES ASSUME NEW x \in Channels, NEW k \in Slots(x), Success(x, k, id, r) PROVE FALSE
      BY PendingSuccess
    <3>1. del[x][k] # NoDel /\ JobId(x, k) = id /\ del[x][k].recip = r /\ del[x][k].st = "K"
      BY DEF Success, NoDel
    <3>2. x = c /\ k = i
      BY <1>1, <1>3, <3>1, SlotOnly
    <3> QED BY <2>1, <3>1, <3>2
  <2>4. ~Has(id, "todo")
    <3>1. S5(id)
      BY <1>1, <1>3, SlotNames DEF Known, StatesInv, OneClaim, JobId
    <3> QED BY <3>1 DEF S5
  <2>5. r \in Owed(id)
    BY <1>3, <2>3, <2>4 DEF Owed, Channels
  <2>6. \A x \in Ids : Owed(x)' = IF x = id THEN Owed(x) \ {r} ELSE Owed(x)
    BY <1>2, <2>2, <2>4 DEF Owed, Has
  <2>7. SameHere
    BY <1>2 DEF SameHere, Accepted, Has
  <2> QED BY <1>2, <1>3, <2>1, <2>5, <2>6, <2>7, DeliverService
<1> QED BY <1>6, <1>7

-----------------------------------------------------------------------------
(* job_close(): with the channel file goes what has been served.           *)
LEMMA CloseSuccess ==
  ASSUME Known, NEW j \in Jobs, NEW job, NEW fl, NEW un, NEW dn, NEW f,
         JobClose(j, job, fl, un, dn, f), Leaving(j, job, fl, un, dn)
  PROVE  \A c \in Channels : \A i \in Slots(c) : \A id, r :
            Success(c, i, id, r)' <=> Success(c, i, id, r) /\ del'[c][i] # NoDel
<1> SUFFICES ASSUME NEW c \in Channels, NEW i \in Slots(c), NEW id, NEW r
             PROVE  Success(c, i, id, r)' <=> Success(c, i, id, r) /\ del'[c][i] # NoDel
  OBVIOUS
<1>1. CASE del'[c][i] # NoDel
  <2>1. del'[c][i] = del[c][i] /\ JobId(c, i)' = JobId(c, i)
    BY <1>1, CloseSlots
  <2> QED BY <1>1, <2>1 DEF Success
<1>2. CASE del'[c][i] = NoDel
  BY <1>2 DEF Success, NoDel
<1> QED BY <1>1, <1>2

LEMMA PendingPrime ==
  \A id, r : SuccessPending(id, r)' <=> \E c \in Channels : \E i \in Slots(c) : Success(c, i, id, r)'
BY DEF SuccessPending, Success, JobId

LEMMA CloseSame ==
  ASSUME Known, NEW j \in Jobs, NEW job, NEW fl, NEW un, NEW dn, NEW f \in Nat,
         JobClose(j, job, fl, un, dn, f), Leaving(j, job, fl, un, dn)
  PROVE  /\ job.id \in Ids /\ job.channel \in Channels
         /\ S5(job.id) /\ S5(job.id)' /\ SameHere /\ faults' >= faults + f /\ faults' >= faults
         /\ \A x \in Ids : "todo" \in files'[x] <=> "todo" \in files[x]
         /\ \A x \in Ids, y \in Channels : x # job.id \/ y # job.channel =>
               undone'[x][y] = undone[x][y]
         /\ undone'[job.id][job.channel] \subseteq un[job.id][job.channel]
         /\ un[job.id][job.channel] \subseteq undone[job.id][job.channel]
<1> USE DEF Known
<1>1. /\ job.id \in Ids /\ job.channel \in Channels /\ S5(job.id)
  BY DEF Leaving, JobRecords, StatesInv, OneClaim
<1>2. \A x \in Ids : \A k \in {"mess", "intd", "info", "todo"} : k \in files'[x] <=> k \in files[x]
  BY <1>1, CloseRecords
<1>3. faults' >= faults + f /\ faults' >= faults
  <2>1. faults' = faults + f \/ faults' = faults + (f + 1)
    BY DEF JobClose, GoesOn, ChannelEnds, Fault
  <2> QED BY <2>1, CopiesTypes
<1>4. S5(job.id)' /\ SameHere
  BY <1>1, <1>2 DEF S5, SameHere, Accepted, Has
<1>5. \A x \in Ids, y \in Channels :
         /\ undone'[x][y] \subseteq un[x][y]
         /\ x # job.id \/ y # job.channel => undone'[x][y] = un[x][y]
  BY CloseRecords
<1> QED BY <1>1, <1>2, <1>3, <1>4, <1>5 DEF Leaving

LEMMA CloseService ==
  ASSUME Stands, RecordsInv, RecipInv',
         NEW j \in Jobs, NEW job, NEW fl, NEW un, NEW dn, NEW f \in Nat,
         JobClose(j, job, fl, un, dn, f), Leaving(j, job, fl, un, dn),
         UNCHANGED <<rcpts, copies>>, NEW R \in SUBSET Owed(job.id),
         noted' = [noted EXCEPT ![job.id] = @ \cup R],
         \A x \in Ids : \A y \in Channels : \A q \in undone'[x][y] :
            SuccessPending(x, q)' <=> SuccessPending(x, q)
  PROVE  Promise!ServiceNext
<1> USE DEF Stands
<1>1. PICK id : id = job.id
  OBVIOUS
<1>2. /\ id \in Ids /\ job.channel \in Channels
      /\ S5(id) /\ S5(id)' /\ SameHere /\ faults' >= faults
      /\ \A x \in Ids : "todo" \in files'[x] <=> "todo" \in files[x]
      /\ \A x \in Ids, y \in Channels : x # id \/ y # job.channel =>
            undone'[x][y] = undone[x][y]
      /\ \A y \in Channels : undone'[id][y] \subseteq undone[id][y]
  BY <1>1, CloseSame
<1>4. ASSUME NEW x \in Ids, x # id PROVE Owed(x)' = Owed(x)
  <2>1. undone'[x]["local"] = undone[x]["local"] /\ undone'[x]["remote"] = undone[x]["remote"]
    BY <1>2, <1>4 DEF Channels
  <2>2. \A q \in undone[x]["local"] \cup undone[x]["remote"] :
           SuccessPending(x, q)' <=> SuccessPending(x, q)
    BY <2>1 DEF Channels
  <2> QED BY <1>2, <2>1, <2>2 DEF Owed, Has
<1>5. "todo" \notin files[id] /\ "todo" \notin files'[id]
  BY <1>2 DEF S5, Has
<1>6. /\ Owed(id) = {r \in undone[id]["local"] \cup undone[id]["remote"] : ~SuccessPending(id, r)}
      /\ \A r : r \in Owed(id)' <=> /\ r \in undone'[id]["local"] \cup undone'[id]["remote"]
                                    /\ ~SuccessPending(id, r)'
  BY <1>5 DEF Owed, Has
<1>7. \A r \in Owed(id)' : r \in Owed(id)
  BY <1>2, <1>6 DEF Channels
<1>8. ASSUME NEW r \in Owed(id), r \notin Owed(id)'
      PROVE  copies[id][r] > 0 \/ r \in noted'[id]
  <2>1. r \in rcpts'[id]
    BY <1>2, <1>6, <1>8 DEF RecordsInv, RecordsWhole, Records, Channels
  <2>2. Served(id, r)' \/ \E y \in Channels : r \in undone'[id][y]
    BY <1>2, <2>1 DEF RecipInv, Accounted, Settled
  <2>3. ASSUME SuccessPending(id, r)' PROVE copies'[id][r] > 0
    BY <2>3 DEF RecipInv, SuccessTrue, SuccessPending
  <2> QED BY <1>6, <1>8, <2>2, <2>3 DEF Served, Channels
<1> QED BY <1>1, <1>2, <1>4, <1>7, <1>8, SettleService DEF Known

LEMMA PassCloseService ==
  ASSUME Stands, RecordsInv, TypeOK', RecipInv', NEW c \in Channels, PassClose(c),
         UNCHANGED history
  PROVE  Promise!ServiceNext
<1> USE DEF Stands
<1>1. PICK j, un, dn : j = pass[c].j /\ un = undone /\ dn = done
  OBVIOUS
<1>2. UNCHANGED <<rcpts, copies, noted, del>> /\ j \in Jobs
  BY <1>1, PassCloseShape DEF PassClose, history
<1>3. PICK job : \E f \in Nat : /\ JobClose(j, job, files, un, dn, f)
                                /\ Leaving(j, job, files, un, dn)
  BY <1>1, PassCloseShape
<1>4. PICK f \in Nat : JobClose(j, job, files, un, dn, f) /\ Leaving(j, job, files, un, dn)
  BY <1>3
<1>5. \A x, q : SuccessPending(x, q)' <=> SuccessPending(x, q)
  <2>1. \A x \in Channels : \A i \in Slots(x) : \A id, r :
           Success(x, i, id, r)' <=> Success(x, i, id, r)
    <3>1. \A x \in Channels : \A i \in Slots(x) : \A id, r :
           Success(x, i, id, r)' <=> Success(x, i, id, r) /\ del'[x][i] # NoDel
      BY <1>2, <1>4, CloseSuccess
    <3> QED BY <1>2, <3>1 DEF Success, NoDel
  <2> QED BY <2>1, PendingPrime, PendingSuccess
<1>6. PICK R : R = {}
  OBVIOUS
<1>7. R \in SUBSET Owed(job.id) /\ noted' = [noted EXCEPT ![job.id] = @ \cup R]
  <2>1. noted \in [Ids -> SUBSET Recips]
    BY DEF Known, TypeOK, HistoryTypeOK
  <2> QED BY <1>2, <1>6, <2>1
<1> QED BY <1>2, <1>4, <1>5, <1>7, CloseService

(* A report.                                                               *)
LEMMA ReportService ==
  ASSUME Stands, RecordsInv, TypeOK', RecipInv', NEW c \in Channels, NEW i \in Slots(c), Report(c, i)
  PROVE  Promise!ServiceNext
<1> USE DEF Stands, Known
<1>1. PICK id, r, j : id = JobId(c, i) /\ r = del[c][i].recip /\ j = del[c][i].j
  OBVIOUS
<1>2. /\ id \in Ids /\ S5(id) /\ r \in Recips /\ r \in undone[id][c]
      /\ del[c][i] # NoDel /\ j \in Jobs
      /\ \A x \in Channels : \A k \in Slots(x) :
            del'[x][k] = IF x = c /\ k = i THEN NoDel ELSE del[x][k]
  BY <1>1, ReportShape
<1>3. PICK job, fl, un, dn : \E f \in Nat : ReportLeaves(c, i, id, r, job, fl, un, dn, f)
  BY <1>1, ReportShape
<1>4. PICK f \in Nat : ReportLeaves(c, i, id, r, job, fl, un, dn, f)
  BY <1>3
<1>5. /\ JobClose(j, job, fl, un, dn, f) /\ Leaving(j, job, fl, un, dn)
      /\ job.id = id /\ job.channel = c
  BY <1>1, <1>4 DEF ReportLeaves
<1>6. /\ UNCHANGED <<rcpts, copies>> /\ noted' = [x \in Ids |-> noted[x] \cup notes'[x]]
  BY DEF Report, DelReport
<1>7. PICK R : R = IF notes'[id] = notes[id] THEN {} ELSE {r}
  OBVIOUS
<1>8. /\ notes'[id] \ notes[id] \subseteq R /\ R \subseteq notes'[id] /\ R \subseteq {r}
      /\ R # {} => del[c][i].st # "K"
      /\ \A x \in Ids : x # id => notes'[x] = notes[x]
  BY <1>4, <1>7 DEF ReportLeaves
<1>9. noted' = [noted EXCEPT ![id] = @ \cup R]
  <2>1. noted \in [Ids -> SUBSET Recips] /\ \A x \in Ids : notes[x] \subseteq noted[x]
    BY DEF TypeOK, HistoryTypeOK, RecordsInv, RecordsWhole
  <2>2. \A x \in Ids : noted[x] \cup notes'[x] = IF x = id THEN noted[x] \cup R ELSE noted[x]
    BY <1>8, <2>1
  <2> QED BY <1>2, <1>6, <2>1, <2>2
(* The slot was the only one for the recipient. *)
<1>10. ASSUME NEW x \in Ids, NEW q
       PROVE  SuccessPending(x, q)' <=> SuccessPending(x, q) /\ ~(x = id /\ q = r)
  <2>1. \A y \in Channels : \A k \in Slots(y) :
           Success(y, k, x, q)' <=> Success(y, k, x, q) /\ ~(y = c /\ k = i)
    <3>1. \A y \in Channels : \A k \in Slots(y) :
             Success(y, k, x, q)' <=> Success(y, k, x, q) /\ del'[y][k] # NoDel
      BY <1>2, <1>5, CloseSuccess
    <3> QED BY <1>2, <3>1 DEF Success, NoDel
  <2>2. \A y \in Channels : \A k \in Slots(y) :
           Success(y, k, x, q) => ((y = c /\ k = i) <=> (x = id /\ q = r))
    <3> SUFFICES ASSUME NEW y \in Channels, NEW k \in Slots(y), Success(y, k, x, q)
                 PROVE  (y = c /\ k = i) <=> (x = id /\ q = r)
      OBVIOUS
    <3>1. del[y][k] # NoDel /\ JobId(y, k) = x /\ del[y][k].recip = q
      BY DEF Success, NoDel
    <3>2. x = id /\ q = r => y = c /\ k = i
      BY <1>1, <1>2, <3>1, SlotOnly
    <3> QED BY <1>1, <3>1, <3>2
  <2> QED BY <2>1, <2>2, PendingPrime, PendingSuccess
<1>11. SuccessPending(id, r) <=> del[c][i].st = "K"
  <2>1. ASSUME SuccessPending(id, r) PROVE del[c][i].st = "K"
    <3>1. PICK y \in Channels : \E k \in Slots(y) : Success(y, k, id, r)
      BY <2>1, PendingSuccess
    <3>2. PICK k \in Slots(y) : Success(y, k, id, r)
      BY <3>1
    <3>3. del[y][k] # NoDel /\ JobId(y, k) = id /\ del[y][k].recip = r
      BY <3>2 DEF Success, NoDel
    <3>4. y = c /\ k = i
      BY <1>1, <1>2, <3>3, SlotOnly
    <3> QED BY <3>2, <3>4 DEF Success
  <2>2. ASSUME del[c][i].st = "K" PROVE SuccessPending(id, r)
    BY <1>1, <2>2, PendingSuccess DEF Success
  <2> QED BY <2>1, <2>2
<1>12. R \in SUBSET Owed(job.id)
  <2>1. R # {} => r \in Owed(id)
    BY <1>2, <1>8, <1>11 DEF Owed, S5, Has, Channels
  <2> QED BY <1>5, <1>8, <2>1
<1>13. CASE ~(r \in undone'[id][c] /\ del[c][i].st = "K")
  <2>1. ASSUME NEW x \in Ids, NEW y \in Channels, NEW q \in undone'[x][y]
        PROVE  SuccessPending(x, q)' <=> SuccessPending(x, q)
    <3>1. CASE x = id /\ q = r /\ del[c][i].st = "K"
      <4>1. y # c
        BY <1>13, <2>1, <3>1
      <4>2. r \in undone[id][y]
        BY <1>2, <1>5, <2>1, <3>1, <4>1, CloseSame
      <4> QED BY <1>2, <4>1, <4>2 DEF CopiesInv, OneFile, Records
    <3> QED BY <1>10, <1>11, <3>1
  <2> QED BY <1>2, <1>5, <1>6, <1>9, <1>12, <2>1, CloseService
(* markdone() has failed for a success: the recipient is owed a copy again *)
<1>14. CASE r \in undone'[id][c] /\ del[c][i].st = "K"
  <2>1. /\ r \in un[id][c] /\ S5(id)' /\ SameHere /\ faults' >= faults + f
        /\ \A x \in Ids : "todo" \in files'[x] <=> "todo" \in files[x]
        /\ \A x \in Ids, y \in Channels : x # id \/ y # c => undone'[x][y] = undone[x][y]
        /\ un[id][c] \subseteq undone[id][c]
    BY <1>2, <1>5, <1>14, CloseSame
  <2>2. un[id][c] = undone[id][c] /\ f = 1
    BY <1>4, <1>14, <2>1 DEF ReportLeaves
  <2>3. undone'[id][c] = un[id][c]
    BY <1>2, <1>5, <1>14, CloseRecords
  <2>4. faults' >= faults /\ faults' > 0
    <3>1. faults \in Nat /\ faults' \in Nat
      BY DEF TypeOK, DirTypeOK
    <3> QED BY <2>1, <2>2, <3>1
  <2>5. \A x \in Ids, y \in Channels : undone'[x][y] = undone[x][y]
    BY <2>1, <2>2, <2>3
  <2>6. ASSUME NEW x \in Ids
        PROVE  /\ \A q : q \in Owed(x)' <=> q \in Owed(x) \/ (x = id /\ q = r)
    <3>1. CASE "todo" \in files[x]
      <4>1. x # id
        BY <1>2, <3>1 DEF S5, Has
      <4> QED BY <1>6, <2>1, <3>1, <4>1 DEF Owed, Has
    <3>2. CASE "todo" \notin files[x]
      <4>1. /\ Owed(x) = {q \in undone[x]["local"] \cup undone[x]["remote"] : ~SuccessPending(x, q)}
            /\ \A q : q \in Owed(x)' <=> /\ q \in undone[x]["local"] \cup undone[x]["remote"]
                                         /\ ~SuccessPending(x, q)'
        BY <2>1, <2>5, <3>2 DEF Owed, Has, Channels
      <4>2. r \in undone[id]["local"] \cup undone[id]["remote"]
        BY <1>2 DEF Channels
      <4> QED BY <1>10, <4>1, <4>2
    <3> QED BY <3>1, <3>2
  <2>7. Accepted(id) /\ copies[id][r] > 0
    BY <1>1, <1>2, <1>14 DEF Accepted, S5, RecipInv, SuccessTrue, JobId
  <2>8. copies' = copies /\ noted' = noted
    <3>1. R = {} /\ noted \in [Ids -> SUBSET Recips]
      BY <1>8, <1>14 DEF TypeOK, HistoryTypeOK
    <3> QED BY <1>6, <1>9, <3>1
  <2>9. \A x \in Ids : \A q \in Owed(x) : q \in Owed(x)'
    BY <2>6
  <2>10. \A x \in Ids : \A q \in Owed(x)' :
             q \in Owed(x) \/ (Accepted(x) /\ (copies[x][q] > 0 \/ q \in noted[x]))
    BY <2>6, <2>7
  <2> QED BY <2>1, <2>4, <2>8, <2>9, <2>10, ReopenService
<1> QED BY <1>13, <1>14

-----------------------------------------------------------------------------
(* qmail-send stops: successes that wait to be reported are forgotten.     *)
LEMMA DoneServed ==
  ASSUME Stands, RecordsInv, NEW id \in Ids, NEW c \in Channels, NEW r \in Records(id, c),
         ~Has(id, "todo"), r \notin undone[id][c]
  PROVE  Accepted(id) /\ Served(id, r)
<1> USE DEF Stands, Known
<1>1. "mess" \in files[id] /\ "info" \in files[id]
  BY UnacceptedRecords DEF Records, Has
<1>2. S5(id)
  BY <1>1 DEF StatesInv, QueueStates, S1, S2, S3, S4, S5, Has
<1>3. r \in rcpts[id]
  BY DEF RecordsInv, RecordsWhole
<1>4. Served(id, r) \/ \E d \in Channels : r \in undone[id][d]
  BY <1>2, <1>3 DEF RecipInv, Accounted, Settled
<1>5. \A d \in Channels : r \notin undone[id][d]
  BY DEF CopiesInv, OneFile, Records
<1> QED BY <1>1, <1>4, <1>5 DEF Accepted, Has

LEMMA PendingServed ==
  ASSUME Stands, NEW id \in Ids, NEW r, SuccessPending(id, r)
  PROVE  Accepted(id) /\ copies[id][r] > 0
<1> USE DEF Stands
<1>1. copies[id][r] > 0
  BY DEF RecipInv, SuccessTrue, SuccessPending
<1>2. S5(id)
  BY NotPending
<1> QED BY <1>1, <1>2 DEF S5, Accepted

LEMMA ExitsService ==
  ASSUME Stands, Exits
  PROVE  Promise!ServiceNext
<1> USE DEF Stands
<1>1. UNCHANGED <<files, rcpts, undone, copies, noted, faults>> /\ Forget /\ CanExit
  BY DEF Exits, SendExit, dirVars, history
<1>2. \A id, r : ~SuccessPending(id, r)'
  BY <1>1 DEF Forget, SuccessPending, NoDel
<1>3. SameHere
  BY <1>1 DEF SameHere, Accepted, Has
<1>4. faults \in Nat /\ \A id \in Ids, r \in Recips : copies[id][r] \in Nat
  BY CopiesTypes DEF Known
<1>5. CASE faults > 0
  <2>1. ASSUME NEW x \in Ids
        PROVE  \A r : /\ r \in Owed(x) => r \in Owed(x)'
                      /\ r \in Owed(x)' => r \in Owed(x) \/ SuccessPending(x, r)
    BY <1>1, <1>2 DEF Owed, Has
  <2>2. \A x \in Ids : \A r \in Owed(x) : r \in Owed(x)'
    BY <2>1
  <2>3. \A x \in Ids : \A r \in Owed(x)' :
           r \in Owed(x) \/ (Accepted(x) /\ (copies[x][r] > 0 \/ r \in noted[x]))
    BY <2>1, PendingServed
  <2>4. faults' >= faults /\ faults' > 0
    BY <1>1, <1>4, <1>5
  <2> QED BY <1>1, <1>3, <2>2, <2>3, <2>4, ReopenService
(* del_canexit(): only a dead spawner has deliveries left. *)
<1>6. CASE ~(faults > 0)
  <2>1. \A id, r : ~SuccessPending(id, r)
    <3> SUFFICES ASSUME NEW id, NEW r, NEW c \in Channels, NEW i \in Slots(c), Success(c, i, id, r)
                 PROVE  FALSE
      BY PendingSuccess
    <3>1. del[c][i] # NoDel /\ del[c][i].st = "K" /\ JobId(c, i) = id /\ del[c][i].recip = r
      BY DEF Success, NoDel
    <3>2. ~spawnalive[c]
      BY <1>1, <3>1 DEF CanExit, SlotsFree
    <3>3. copies[id][r] <= faults + Spent(c, i)
      BY <3>1 DEF CopiesInv, Budget, SlotsWithin
    <3>4. Spent(c, i) = 0
      BY <3>1, <3>2 DEF Spent
    <3>5. id \in Ids /\ r \in Recips
      <4>1. id \in Ids /\ r \in undone[id][c]
        BY <3>1, SlotNames DEF JobId, CopiesInv, SlotsInv
      <4> QED BY <4>1, CopiesTypes DEF Known
    <3>6. copies[id][r] > 0
      BY <3>1 DEF RecipInv, SuccessTrue, JobId
    <3> QED BY <1>4, <1>6, <3>3, <3>4, <3>5, <3>6
  <2>2. \A id, r : SuccessPending(id, r)' <=> SuccessPending(id, r)
    BY <1>2, <2>1
  <2> QED BY <1>1, <2>2, SlotsService DEF Known
<1> QED BY <1>5, <1>6

LEMMA CrashService ==
  ASSUME Stands, RecordsInv, Crash
  PROVE  Promise!ServiceNext
<1> USE DEF Stands
<1>1. UNCHANGED <<files, rcpts, copies, noted>> /\ Forget
  BY DEF Crash
<1>2. \A id, r : ~SuccessPending(id, r)'
  BY <1>1 DEF Forget, SuccessPending, NoDel
<1>3. SameHere
  BY <1>1 DEF SameHere, Accepted, Has
<1>4. faults' >= faults /\ faults' > 0
  <2>1. faults \in Nat /\ Fault(1)
    BY CopiesTypes DEF Known, Crash
  <2> QED BY <2>1 DEF Fault
<1>5. \A id \in Ids, c \in Channels : /\ undone[id][c] \subseteq undone'[id][c]
                                      /\ undone'[id][c] \subseteq Records(id, c)
  <2>1. PICK lost \in SUBSET Marks :
          undone' = [id \in Ids |-> [c \in Channels |->
                       undone[id][c] \cup {r \in Recips : <<id, c, r>> \in lost}]]
    BY DEF Crash
  <2> QED BY <2>1 DEF Marks, Records
<1>6. ASSUME NEW x \in Ids
      PROVE  \A r : /\ r \in Owed(x) => r \in Owed(x)'
                    /\ r \in Owed(x)' => \/ r \in Owed(x)
                                         \/ SuccessPending(x, r)
                                         \/ /\ ~Has(x, "todo")
                                            /\ \E c \in Channels : /\ r \in Records(x, c)
                                                                   /\ r \notin undone[x][c]
  <2>1. CASE Has(x, "todo")
    BY <1>1, <2>1 DEF Owed, Has
  <2>2. CASE ~Has(x, "todo")
    <3>1. /\ Owed(x) = {r \in undone[x]["local"] \cup undone[x]["remote"] : ~SuccessPending(x, r)}
          /\ \A r : r \in Owed(x)' <=> r \in undone'[x]["local"] \cup undone'[x]["remote"]
      BY <1>1, <1>2, <2>2 DEF Owed, Has
    <3>2. /\ undone[x]["local"] \subseteq undone'[x]["local"]
          /\ undone[x]["remote"] \subseteq undone'[x]["remote"]
          /\ \A r \in undone'[x]["local"] : r \in Records(x, "local")
          /\ \A r \in undone'[x]["remote"] : r \in Records(x, "remote")
          /\ "local" \in Channels /\ "remote" \in Channels
      BY <1>5 DEF Channels
    <3> QED BY <2>2, <3>1, <3>2
  <2> QED BY <2>1, <2>2
<1>7. \A x \in Ids : \A r \in Owed(x) : r \in Owed(x)'
  BY <1>6
<1>8. \A x \in Ids : \A r \in Owed(x)' :
         r \in Owed(x) \/ (Accepted(x) /\ (copies[x][r] > 0 \/ r \in noted[x]))
  <2> SUFFICES ASSUME NEW x \in Ids, NEW r \in Owed(x)', r \notin Owed(x)
               PROVE  Accepted(x) /\ (copies[x][r] > 0 \/ r \in noted[x])
    OBVIOUS
  <2>1. CASE SuccessPending(x, r)
    BY <2>1, PendingServed
  <2>2. CASE ~SuccessPending(x, r)
    <3>1. PICK c \in Channels : r \in Records(x, c) /\ r \notin undone[x][c] /\ ~Has(x, "todo")
      BY <1>6, <2>2
    <3>2. Accepted(x) /\ Served(x, r)
      BY <3>1, DoneServed
    <3> QED BY <3>2 DEF Served
  <2> QED BY <2>1, <2>2
<1> QED BY <1>1, <1>3, <1>4, <1>7, <1>8, ReopenService

-----------------------------------------------------------------------------
(* RecordsInv in every step.                                               *)
LEMMA UnseenRecords ==
  ASSUME RecordsInv, StatesInv', RecipInv', CopiesInv', Unseen,
         \A x \in Ids : noted[x] \subseteq noted'[x] \/ "mess" \notin files'[x]
  PROVE  RecordsInv'
BY QuietRecords DEF Unseen

LEMMA EndingSeen ==
  ASSUME Stands, NEW id \in Ids,
         \/ MessDoneFails(id) /\ UNCHANGED history
         \/ MessDoneEnds(id) /\ UNCHANGED history
         \/ BounceOver(id)
  PROVE  Unseen /\ copies' = copies /\ noted' = noted
<1> USE DEF Stands, Known
<1>1. UNCHANGED <<jo, del, copies, noted>>
  BY DEF MessDoneFails, MessDoneEnds, BounceOver, BounceAccepted, BounceAcceptedFails,
     BounceRefused, EndMess, EndMessFails, tables, history
<1>2. \/ UNCHANGED dirVars
      \/ \E ks \in {{}, {"bounce"}, {"bounce", "info"}} :
            Unlink(id, ks) /\ (faults' = faults \/ Fault(1))
  BY DEF MessDoneFails, MessDoneEnds, BounceOver, BounceAccepted, BounceAcceptedFails,
     BounceRefused, EndMess, EndMessFails
<1>3. CASE UNCHANGED dirVars
  <2>1. faults' >= faults
    BY <1>3, FaultsGrow DEF dirVars
  <2> QED BY <1>1, <1>3, <2>1 DEF dirVars, Unseen, EnvelopeKept
<1>4. CASE \E ks \in {{}, {"bounce"}, {"bounce", "info"}} :
              Unlink(id, ks) /\ (faults' = faults \/ Fault(1))
  <2>1. PICK ks \in {{}, {"bounce"}, {"bounce", "info"}} :
           Unlink(id, ks) /\ (faults' = faults \/ Fault(1))
    BY <1>4
  <2>2. faults' >= faults /\ ks \cap Channels = {}
    BY <2>1, FaultsGrow DEF Channels
  <2> QED BY <1>1, <2>1, <2>2, UnlinkSeen
<1> QED BY <1>2, <1>3, <1>4

LEMMA SlotsRecords ==
  ASSUME RecordsInv, UNCHANGED <<rcpts, undone, done, notes, noted>>
  PROVE  RecordsInv'
BY DEF RecordsInv, RecordsWhole, Records

LEMMA CloseKept ==
  ASSUME Known, NEW j \in Jobs, NEW job, NEW fl, NEW un, NEW dn, NEW f,
         JobClose(j, job, fl, un, dn, f), Leaving(j, job, fl, un, dn),
         \A x \in Ids, y \in Channels : /\ un[x][y] \cup dn[x][y] \subseteq Records(x, y)
                                        /\ un[x][y] \cap dn[x][y] = {}
  PROVE  \A x \in Ids : RecordsKept(x)
<1>1. \A x \in Ids, y \in Channels : undone'[x][y] \subseteq un[x][y] /\ done'[x][y] \subseteq dn[x][y]
  BY CloseRecords, CloseDone
<1> QED BY <1>1 DEF RecordsKept

LEMMA PassCloseRecords ==
  ASSUME Stands, RecordsInv, StatesInv', RecipInv', CopiesInv',
         NEW c \in Channels, PassClose(c), UNCHANGED history
  PROVE  RecordsInv'
<1> USE DEF Stands
<1>1. PICK j, un, dn : j = pass[c].j /\ un = undone /\ dn = done
  OBVIOUS
<1>2. UNCHANGED <<rcpts, notes, noted>> /\ j \in Jobs
  BY <1>1, PassCloseShape DEF PassClose, history
<1>3. PICK job : \E f \in Nat : /\ JobClose(j, job, files, un, dn, f)
                                /\ Leaving(j, job, files, un, dn)
  BY <1>1, PassCloseShape
<1>4. PICK f \in Nat : JobClose(j, job, files, un, dn, f) /\ Leaving(j, job, files, un, dn)
  BY <1>3
<1>5. \A x \in Ids, y \in Channels : /\ un[x][y] \cup dn[x][y] \subseteq Records(x, y)
                                     /\ un[x][y] \cap dn[x][y] = {}
  BY <1>1 DEF Records, RecordsInv, RecordsWhole
<1>6. \A x \in Ids : RecordsKept(x)
  BY <1>2, <1>4, <1>5, CloseKept
<1>7. \A x \in Ids : notes'[x] \subseteq noted'[x] /\ EnvelopeKept(x)
  BY <1>2 DEF RecordsInv, RecordsWhole, EnvelopeKept
<1> QED BY <1>6, <1>7, KeptRecords

LEMMA ReportRecords ==
  ASSUME Stands, RecordsInv, StatesInv', RecipInv', CopiesInv',
         NEW c \in Channels, NEW i \in Slots(c), Report(c, i)
  PROVE  RecordsInv'
<1> USE DEF Stands
<1>1. PICK id, r, j : id = JobId(c, i) /\ r = del[c][i].recip /\ j = del[c][i].j
  OBVIOUS
<1>2. id \in Ids /\ r \in undone[id][c] /\ j \in Jobs
  BY <1>1, ReportShape
<1>3. PICK job, fl, un, dn : \E f \in Nat : ReportLeaves(c, i, id, r, job, fl, un, dn, f)
  BY <1>1, ReportShape
<1>4. PICK f \in Nat : ReportLeaves(c, i, id, r, job, fl, un, dn, f)
  BY <1>3
<1>5. JobClose(j, job, fl, un, dn, f) /\ Leaving(j, job, fl, un, dn)
  BY <1>1, <1>4 DEF ReportLeaves
<1>6. \A x \in Ids, y \in Channels : /\ un[x][y] \cup dn[x][y] \subseteq Records(x, y)
                                     /\ un[x][y] \cap dn[x][y] = {}
  <2> SUFFICES ASSUME NEW x \in Ids, NEW y \in Channels
               PROVE  /\ un[x][y] \cup dn[x][y] \subseteq Records(x, y)
                      /\ un[x][y] \cap dn[x][y] = {}
    OBVIOUS
  <2>1. undone[x][y] \cap done[x][y] = {}
    BY DEF RecordsInv, RecordsWhole
  <2>2. \/ un[x][y] = undone[x][y] /\ dn[x][y] = done[x][y]
        \/ /\ x = id /\ y = c
           /\ un[x][y] = undone[x][y] \ {r} /\ dn[x][y] = done[x][y] \cup {r}
    BY <1>4 DEF ReportLeaves
  <2> QED BY <1>2, <2>1, <2>2 DEF Records
<1>7. \A x \in Ids : RecordsKept(x)
  BY <1>2, <1>5, <1>6, CloseKept
<1>8. \A x \in Ids : notes'[x] \subseteq noted'[x] /\ EnvelopeKept(x)
  BY DEF Report, DelReport, EnvelopeKept
<1> QED BY <1>7, <1>8, KeptRecords

LEMMA CrashRecords ==
  ASSUME Stands, RecordsInv, StatesInv', RecipInv', CopiesInv', Crash
  PROVE  RecordsInv'
<1>1. UNCHANGED <<rcpts, noted>> /\ \A x \in Ids : notes'[x] \subseteq notes[x]
  BY DEF Crash
<1>2. \A x \in Ids : RecordsKept(x)
  <2>1. PICK lost \in SUBSET Marks :
          /\ undone' = [id \in Ids |-> [c \in Channels |->
                          undone[id][c] \cup {r \in Recips : <<id, c, r>> \in lost}]]
          /\ done' = [id \in Ids |-> [c \in Channels |->
                          done[id][c] \ {r \in Recips : <<id, c, r>> \in lost}]]
    BY DEF Crash
  <2>2. ASSUME NEW x \in Ids, NEW y \in Channels
        PROVE  /\ undone'[x][y] \cup done'[x][y] \subseteq Records(x, y)
               /\ undone'[x][y] \cap done'[x][y] = {}
    BY <2>1 DEF Marks, Records, RecordsInv, RecordsWhole
  <2> QED BY <2>2 DEF RecordsKept
<1>3. \A x \in Ids : notes'[x] \subseteq noted'[x] /\ EnvelopeKept(x)
  BY <1>1 DEF RecordsInv, RecordsWhole, EnvelopeKept
<1> QED BY <1>2, <1>3, KeptRecords

LEMMA PreprocessRecords ==
  ASSUME Stands, RecordsInv, NEW id \in Ids, Preprocess(id) \/ PreprocessFails(id), UNCHANGED history
  PROVE  RecordsInv'
<1> USE DEF Stands, Known
<1>1. /\ noted' = noted /\ "todo" \in files[id]
      /\ files \in [Ids -> SUBSET Kinds] /\ rcpts \in [Ids -> SUBSET Recips]
      /\ undone \in [Ids -> [Channels -> SUBSET Recips]]
      /\ done \in [Ids -> [Channels -> SUBSET Recips]] /\ notes \in [Ids -> SUBSET Recips]
  BY DEF Preprocess, PreprocessFails, Preprocessable, Has, history, TypeOK, DirTypeOK
<1>2. /\ rcpts' = rcpts /\ notes' = notes
      /\ \A x \in Ids : x # id => undone'[x] = undone[x] /\ done'[x] = done[x]
      /\ \A c \in Channels : \/ undone'[id][c] \subseteq rcpts[id] /\ done'[id][c] = {}
                             \/ /\ undone'[id][c] \subseteq undone[id][c]
                                /\ done'[id][c] \subseteq done[id][c]
  <2>1. CASE Preprocess(id)
    BY <1>1, <2>1 DEF Preprocess, NoRecords
  <2>2. CASE PreprocessFails(id)
    <3>1. CASE \E gone \in {{}, {"local"}, Channels, Remade} : Unlink(id, gone)
      <4>1. PICK gone \in {{}, {"local"}, Channels, Remade} : Unlink(id, gone)
        BY <3>1
      <4>2. "mess" \in files[id] \ gone /\ "bounce" \notin gone
        BY <1>1 DEF InjectorInv, MessLast, Remade, Channels
      <4> QED BY <1>1, <4>1, <4>2 DEF Unlink, Named, Without
    <3>2. CASE /\ undone' = [undone EXCEPT ![id] = NoRecords]
               /\ done' = [done EXCEPT ![id] = NoRecords]
               /\ rcpts' = rcpts /\ notes' = notes
      BY <1>1, <3>2 DEF NoRecords
    <3> QED BY <2>2, <3>1, <3>2 DEF PreprocessFails
  <2> QED BY <2>1, <2>2
<1> QED BY <1>1, <1>2 DEF RecordsInv, RecordsWhole, Records

LEMMA NextRecords ==
  /\ Stands /\ RecordsInv /\ StatesInv' /\ RecipInv' /\ CopiesInv' /\ [Next]_vars
  => RecordsInv'
<1> SUFFICES ASSUME Stands, RecordsInv, StatesInv', RecipInv', CopiesInv', [Next]_vars
             PROVE  RecordsInv'
  OBVIOUS
<1>1. ASSUME Unseen, noted' = noted PROVE RecordsInv'
  BY <1>1, UnseenRecords
<1>2. ASSUME NEW p \in Procs, Inject(p) \/ InjectFails(p) \/ Envelope(p) \/ Queue(p)
      PROVE  RecordsInv'
  <2>1. Unseen /\ noted' = noted
    BY <1>2, InjectSeen DEF Stands
  <2> QED BY <1>1, <2>1
<1>3. CASE Clean
  <2>1. Unseen
    BY <1>3, CleanSeen DEF Stands
  <2>2. \A x \in Ids : noted[x] \subseteq noted'[x] \/ "mess" \notin files'[x]
    BY <1>3 DEF Clean
  <2> QED BY <2>1, <2>2, UnseenRecords
<1>4. ASSUME NEW id \in Ids,
             \/ MessDoneFails(id) /\ UNCHANGED history
             \/ MessDoneEnds(id) /\ UNCHANGED history
             \/ BounceOver(id)
      PROVE  RecordsInv'
  BY <1>1, <1>4, EndingSeen
<1>5. CASE \/ /\ \/ Start \/ Term
                 \/ \E id \in Ids : MessDoneReturns(id) \/ MessDoneBounces(id) \/ Expire(id)
                 \/ \E c \in Channels : SpawnDied(c)
              /\ UNCHANGED <<queueVars, cleanVars, history>>
           \/ \E id \in Ids : Cleanup(id) /\ PutRequest("foop", id) /\ UNCHANGED <<queueVars, history>>
           \/ Answer \/ Tick \/ UNCHANGED vars
  BY <1>1, <1>5, StillSeen
<1>6. ASSUME NEW c \in Channels,
             \/ PassDeliver(c) /\ UNCHANGED history
             \/ (\E id \in Ids : PassOpen(c, id)) /\ UNCHANGED history
             \/ \E i \in Slots(c) : CommWrite(c, i) /\ UNCHANGED history
             \/ \E i \in Slots(c) : \E result \in {"K", "Z", "D"} : Delivery(c, i, result)
      PROVE  RecordsInv'
  BY <1>6, SlotsRecords DEF PassDeliver, PassOpen, CommWrite, Delivery, Deliver, dirVars, history
<1>7. CASE Exits
  BY <1>7, SlotsRecords DEF Exits, SendExit, dirVars, history
<1>8. CASE SendAlone
  <2>1. ASSUME NEW id \in Ids, RetryFailed(id) PROVE FALSE
    BY <2>1, RetryStates DEF Stands, Known
  <2>2. UNCHANGED history
    BY <1>8 DEF SendAlone
  <2> QED BY <1>4, <1>5, <1>6, <1>8, <2>1, <2>2, PassCloseRecords, PreprocessRecords DEF SendAlone
<1>9. ASSUME NEW id \in Ids, Ask(id) PROVE RecordsInv'
  <2>1. UNCHANGED history
    BY <1>9 DEF Ask
  <2> QED BY <1>4, <1>5, <1>9, <2>1, PreprocessRecords DEF Ask
<1> QED BY <1>2, <1>3, <1>4, <1>5, <1>6, <1>7, <1>8, <1>9, ReportRecords, CrashRecords DEF Next

LEMMA NextService ==
  Stands /\ RecordsInv /\ TypeOK' /\ InjectorInv' /\ RecipInv' /\ Next => Promise!ServiceNext
<1> SUFFICES ASSUME Stands, RecordsInv, TypeOK', InjectorInv', RecipInv', Next
             PROVE  Promise!ServiceNext
  OBVIOUS
<1>1. CASE \/ /\ \/ Start \/ Term
                 \/ \E id \in Ids : MessDoneReturns(id) \/ MessDoneBounces(id) \/ Expire(id)
                 \/ \E c \in Channels : SpawnDied(c)
              /\ UNCHANGED <<queueVars, cleanVars, history>>
           \/ \E id \in Ids : Cleanup(id) /\ PutRequest("foop", id) /\ UNCHANGED <<queueVars, history>>
           \/ Answer \/ Tick
  <2>1. Unseen /\ UNCHANGED <<files, copies, noted>>
    BY <1>1, StillSeen
  <2> QED BY <2>1, UnseenService
<1>2. CASE SendAlone
  <2>1. ASSUME NEW id \in Ids, RetryFailed(id) PROVE FALSE
    BY <2>1, RetryStates DEF Stands, Known
  <2>2. UNCHANGED <<queueVars, cleanVars, history>>
    BY <1>2 DEF SendAlone
  <2>3. UNCHANGED history
    BY <2>2
  <2> QED BY <1>1, <1>2, <2>1, <2>2, <2>3, EndingService, PassService, PassCloseService,
             PreprocessService, DeliveryService DEF SendAlone
<1>3. ASSUME NEW id \in Ids, Ask(id) PROVE Promise!ServiceNext
  <2>1. UNCHANGED <<queueVars, history>> /\ UNCHANGED history
    BY <1>3 DEF Ask
  <2> QED BY <1>1, <1>3, <2>1, EndingService, PreprocessService DEF Ask
<1> QED BY <1>1, <1>2, <1>3, InjectService, ReportService, DeliveryService, EndingService,
           CleanService, ExitsService, CrashService DEF Next

LEMMA InitService == Init => Promise!ServiceInit
<1> SUFFICES ASSUME Init PROVE Promise!ServiceInit
  OBVIOUS
<1>1. \A id \in Ids : ~Accepted(id) /\ Owed(id) = {}
  BY DEF Init, DirInit, NoRecords, Accepted, Owed, Has, Channels
<1> QED BY <1>1 DEF Init, DirInit, NoCopies, Promise!ServiceInit

LEMMA StutterService ==
  UNCHANGED vars => UNCHANGED Promise!serviceVars
<1> SUFFICES ASSUME UNCHANGED vars PROVE UNCHANGED Promise!serviceVars
  OBVIOUS
<1>1. UNCHANGED <<files, rcpts, undone, jo, del, copies, noted, faults>>
  BY DEF vars, dirVars, sendVars, tables, history
<1>2. \A x \in Ids : (Accepted(x)' <=> Accepted(x)) /\ Owed(x)' = Owed(x)
  BY <1>1 DEF Accepted, Owed, SuccessPending, Has
<1>3. {x \in Ids : Accepted(x)}' = {x \in Ids : Accepted(x)}
  BY <1>2
<1>4. [x \in Ids |-> Owed(x)]' = [x \in Ids |-> Owed(x)]
  BY <1>2
<1> QED BY <1>1, <1>3, <1>4 DEF Promise!serviceVars

(* Every behaviour of the queue is one of MailService: a message that was  *)
(* accepted is owed to each recipient until it is served or its failure is *)
(* noted, a recipient is opened again only by a failure, and a message     *)
(* ends when nothing is owed, unless stat() fails in pqstart().            *)
THEOREM PromiseKept == ~StatFails /\ Spec => ImplementsService
<1> SUFFICES ASSUME ~StatFails PROVE Spec => ImplementsService
  OBVIOUS
<1>1. Spec => []StatesInv /\ []RecipInv /\ []CopiesInv
  BY StatesCorrect, RecipsCorrect, CopiesCorrect
<1>2. /\ TypeOK /\ JobsInv /\ InjectorInv /\ StatesInv /\ RecipInv /\ CopiesInv /\ RecordsInv
      /\ StatesInv' /\ RecipInv' /\ CopiesInv' /\ [Next]_vars
      => RecordsInv'
  BY NextRecords DEF Stands, Known
<1>3. Spec => []RecordsInv
  BY <1>1, <1>2, InitRecords, TypeCorrect, JobTableCorrect, InjectorCorrect, PTL DEF Spec
<1>4. /\ TypeOK /\ JobsInv /\ InjectorInv /\ StatesInv /\ RecipInv /\ CopiesInv /\ RecordsInv
      /\ TypeOK' /\ InjectorInv' /\ RecipInv' /\ [Next]_vars
      => [Promise!ServiceNext]_(Promise!serviceVars)
  BY NextService, StutterService DEF Stands, Known
<1> QED BY <1>1, <1>3, <1>4, InitService, TypeCorrect, JobTableCorrect, InjectorCorrect, PTL
        DEF Spec, ImplementsService, Promise!Service
=============================================================================
