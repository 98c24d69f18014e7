----------------------------- MODULE SendProofs -----------------------------
(***************************************************************************)
(* Proofs about the parts that qmail-send works with, for the values that  *)
(* MCSend gives or leaves to their constants: the trigger and the control  *)
(* files, the retry schedule, the spawners' reports, and squareroot().     *)
(* The argument about the trigger is for any injectors, faults and pipes;  *)
(* those about the schedule and the spawners are in Retry and SpawnProofs, *)
(* for any values, and are applied here to the steps of a behaviour that   *)
(* is of one part.                                                         *)
(***************************************************************************)
EXTENDS MCSend, TLAPS

LEMMA PartKept ==
    ASSUME [MCNext]_mcvars
    PROVE  part' = part
BY DEF MCNext, mcOthers, mcvars

LEMMA PullSteps ==
    ASSUME [MCNext]_mcvars, part = "trigger"
    PROVE  [Pull!Next]_(Pull!vars)
BY DEF MCNext, mcOthers, mcvars, triggerVars, Pull!vars

LEMMA RetrySteps ==
    ASSUME [MCNext]_mcvars, part = "retry"
    PROVE  [Retrying!Next]_(Retrying!vars)
BY DEF MCNext, mcOthers, mcvars, retryVars, Retrying!vars, Retrying!daemon, Retrying!ghosts

LEMMA HupSteps ==
    ASSUME [MCNext]_mcvars, part = "controls"
    PROVE  [Hup!Next]_(Hup!vars)
BY DEF MCNext, mcOthers, mcvars, controlsVars, Hup!vars, Hup!daemon

LEMMA SpawnSteps ==
    ASSUME [MCNext]_mcvars, part = "spawn"
    PROVE  [Spawning!Next]_(Spawning!vars)
BY DEF MCNext, mcOthers, mcvars, spawnVars, Spawning!vars, Spawning!sendVars,
   Spawning!spawnVars, Spawning!childVars

-----------------------------------------------------------------------------
(* Why no wake-up is lost.  As long as nothing fails the pipe has no       *)
(* reader only where a scan is to come, and the first scan is due.         *)
ScanToCome == triggerLoop \in {"init", "start", "open", "opendir"}

ReaderThere ==
    triggerFaults = 0 =>
        /\ fd = "none" => triggerLoop \in {"init", "start", "open"}
        /\ triggerLoop = "start" => due

(* The directory stream that is read is the open one.                      *)
StreamOpen == ~tododir => triggerUnread = {}

(* A message whose qmail-queue has written its byte, or has found no       *)
(* reader, is in a scan, or its byte is there, or a scan is to come.       *)
Noticed(i) ==
    i \in todo /\ ipc[i] \in {"wrote", "done"} =>
        i \in triggerUnread \/ pipe.byte \/ due \/ ScanToCome

TriggerInv ==
    /\ Pull!TypeOK /\ ReaderThere /\ StreamOpen
    /\ triggerFaults = 0 => \A i \in Injectors : Noticed(i)

LEMMA PipeTypes ==
  /\ Pull!EmptyPipe \in Pull!Pipes
  /\ \A q \in Pull!Pipes : \A b \in BOOLEAN :
       [q EXCEPT !.byte = b] \in Pull!Pipes /\ [q EXCEPT !.written = b] \in Pull!Pipes
BY DEF Pull!EmptyPipe, Pull!Pipes

LEMMA InitTrigger == Pull!Init => TriggerInv
<1> SUFFICES ASSUME Pull!Init PROVE TriggerInv
  OBVIOUS
<1>1. pipe \in Pull!Pipes /\ triggerFaults \in Nat /\ ipc \in [Injectors -> Pull!IStates]
  BY PipeTypes DEF Pull!Init, Pull!IStates
<1>2. pulled \in BOOLEAN /\ tododir \in BOOLEAN /\ due \in BOOLEAN
  BY DEF Pull!Init
<1>3. todo = {} /\ triggerUnread = {} /\ fd = "none" /\ triggerLoop = "init"
  BY DEF Pull!Init
<1> QED BY <1>1, <1>2, <1>3 DEF TriggerInv, Pull!TypeOK, ReaderThere, StreamOpen,
   Noticed, ScanToCome

LEMMA TypeStep ==
  ASSUME Pull!TypeOK, [Pull!Next]_(Pull!vars)
  PROVE  Pull!TypeOK'
<1> USE DEF Pull!TypeOK, Pull!IStates
<1>1. ASSUME NEW i \in Injectors, Pull!QmailQueueStep(i) PROVE Pull!TypeOK'
  BY PipeTypes, <1>1 DEF Pull!QmailQueueStep, Pull!Link, Pull!PullOpen,
     Pull!PullWrite, Pull!PullClose, Pull!iVars
<1>2. ASSUME NEW i \in Injectors, Pull!DiesUnpulled(i) PROVE Pull!TypeOK'
  BY PipeTypes, <1>2 DEF Pull!DiesUnpulled, Pull!Fault, Pull!iVars
<1>3. CASE Pull!TodoInit \/ Pull!TodoDo
  BY PipeTypes, <1>3 DEF Pull!TodoInit, Pull!TodoDo, Pull!sVars
<1>4. CASE Pull!Select \/ Pull!SelectOther
  <2>1. pulled' \in BOOLEAN
    BY <1>4 DEF Pull!Select, Pull!SelectOther, Pull!Readable
  <2> QED BY <1>4, <2>1 DEF Pull!Select, Pull!SelectOther, Pull!sVars
<1>5. CASE Pull!TriggerOpen
  <2>1. triggerFaults' \in Nat /\ fd' \in {"none", "open"}
    BY <1>5 DEF Pull!TriggerOpen, Pull!Fault
  <2>2. pipe' = [pipe EXCEPT !.written = FALSE] \/ pipe' = pipe
    BY <1>5 DEF Pull!TriggerOpen
  <2>3. pipe' \in Pull!Pipes
    BY <2>2, PipeTypes
  <2> QED BY <1>5, <2>1, <2>3 DEF Pull!TriggerOpen, Pull!sVars
<1>6. CASE Pull!OpendirFails
  BY <1>6 DEF Pull!OpendirFails, Pull!Fault, Pull!sVars
<1>7. CASE Pull!Opendir \/ Pull!EndOfDir \/ Pull!Tick
  BY <1>7 DEF Pull!Opendir, Pull!EndOfDir, Pull!Tick, Pull!sVars, Pull!Todo
<1>8. CASE Pull!ReadEntry
  BY <1>8 DEF Pull!ReadEntry, Pull!Fault
<1>9. CASE Pull!Dies
  <2>1. pipe' \in Pull!Pipes /\ triggerFaults' \in Nat
    BY PipeTypes, <1>9 DEF Pull!Dies, Pull!Fault
  <2>2. pulled' \in BOOLEAN /\ tododir' \in BOOLEAN
    BY <1>9 DEF Pull!Dies
  <2> QED BY <1>9, <2>1, <2>2 DEF Pull!Dies, Pull!sVars
<1>10. CASE UNCHANGED Pull!vars
  BY <1>10 DEF Pull!vars
<1> QED BY <1>1, <1>2, <1>3, <1>4, <1>5, <1>6, <1>7, <1>8, <1>9, <1>10
   DEF Pull!Next, Pull!Serve

(* No step forgets a failure.                                              *)
LEMMA FaultsGrow ==
  ASSUME Pull!TypeOK, [Pull!Next]_(Pull!vars), triggerFaults' = 0
  PROVE  /\ triggerFaults = 0
         /\ UNCHANGED Pull!vars \/ Pull!Serve \/ Pull!SelectOther \/ Pull!Tick
            \/ \E i \in Injectors : Pull!QmailQueueStep(i)
<1>1. ~Pull!Fault
  BY DEF Pull!Fault, Pull!TypeOK
<1>2. CASE UNCHANGED Pull!vars
  BY <1>2 DEF Pull!vars
<1>3. ASSUME NEW i \in Injectors, Pull!QmailQueueStep(i) PROVE triggerFaults = 0
  BY <1>3 DEF Pull!QmailQueueStep, Pull!Link, Pull!PullOpen, Pull!PullWrite,
     Pull!PullClose
<1>4. ASSUME Pull!Serve \/ Pull!SelectOther \/ Pull!Tick PROVE triggerFaults = 0
  BY <1>1, <1>4 DEF Pull!Serve, Pull!TodoInit, Pull!Select, Pull!SelectOther,
     Pull!TodoDo, Pull!TriggerOpen, Pull!Opendir, Pull!ReadEntry, Pull!EndOfDir,
     Pull!Tick
<1>5. ~Pull!OpendirFails /\ ~Pull!Dies /\ \A i \in Injectors : ~Pull!DiesUnpulled(i)
  BY <1>1 DEF Pull!OpendirFails, Pull!Dies, Pull!DiesUnpulled
<1> QED BY <1>2, <1>3, <1>4, <1>5 DEF Pull!Next

LEMMA ReaderStep ==
  ASSUME TriggerInv, [Pull!Next]_(Pull!vars)
  PROVE  ReaderThere'
<1> SUFFICES ASSUME triggerFaults' = 0
             PROVE  /\ fd' = "none" => triggerLoop' \in {"init", "start", "open"}
                    /\ triggerLoop' = "start" => due'
  BY DEF ReaderThere
<1>1. Pull!TypeOK /\ triggerFaults = 0 /\ ~Pull!Fault
      /\ \/ UNCHANGED Pull!vars \/ Pull!Serve \/ Pull!SelectOther \/ Pull!Tick
         \/ \E i \in Injectors : Pull!QmailQueueStep(i)
  BY FaultsGrow DEF TriggerInv, Pull!Fault, Pull!TypeOK
<1>2. /\ fd = "none" => triggerLoop \in {"init", "start", "open"}
      /\ triggerLoop = "start" => due
  BY <1>1 DEF TriggerInv, ReaderThere
<1>3. ASSUME NEW i \in Injectors, Pull!QmailQueueStep(i)
      PROVE  UNCHANGED <<fd, triggerLoop, due>>
  BY <1>3 DEF Pull!QmailQueueStep, Pull!Link, Pull!PullOpen, Pull!PullWrite,
     Pull!PullClose, Pull!iVars
<1>4. CASE Pull!Serve
  BY <1>1, <1>2, <1>4 DEF Pull!Serve, Pull!TodoInit, Pull!Select, Pull!TodoDo,
     Pull!TriggerOpen, Pull!Opendir, Pull!ReadEntry, Pull!EndOfDir
<1>5. CASE Pull!SelectOther \/ Pull!Tick \/ UNCHANGED Pull!vars
  BY <1>2, <1>5 DEF Pull!SelectOther, Pull!Tick, Pull!vars
<1> QED BY <1>1, <1>2, <1>3, <1>4, <1>5

LEMMA StreamStep ==
  ASSUME TriggerInv, [Pull!Next]_(Pull!vars)
  PROVE  StreamOpen'
<1> USE DEF TriggerInv, StreamOpen
<1>1. ASSUME NEW i \in Injectors, Pull!QmailQueueStep(i) \/ Pull!DiesUnpulled(i)
      PROVE  StreamOpen'
  BY <1>1 DEF Pull!QmailQueueStep, Pull!Link, Pull!PullOpen, Pull!PullWrite,
     Pull!PullClose, Pull!DiesUnpulled, Pull!iVars
<1>2. CASE Pull!Serve
  BY <1>2 DEF Pull!Serve, Pull!TodoInit, Pull!Select, Pull!TodoDo, Pull!TriggerOpen,
     Pull!Opendir, Pull!ReadEntry, Pull!EndOfDir
<1>3. CASE \/ Pull!SelectOther \/ Pull!OpendirFails \/ Pull!Dies \/ Pull!Tick
           \/ UNCHANGED Pull!vars
  BY <1>3 DEF Pull!SelectOther, Pull!OpendirFails, Pull!Dies, Pull!Tick, Pull!vars
<1> QED BY <1>1, <1>2, <1>3 DEF Pull!Next

(* A qmail-queue writes while qmail-send has the pipe open, or finds it    *)
(* closed, and then a scan is to come that opendir() begins after link().  *)
LEMMA PullNoticed ==
  ASSUME TriggerInv, triggerFaults = 0, NEW i \in Injectors, Pull!QmailQueueStep(i),
         NEW k \in Injectors
  PROVE  Noticed(k)'
<1>1. Pull!TypeOK /\ ReaderThere /\ Noticed(k)
  BY DEF TriggerInv
<1>2. UNCHANGED <<fd, triggerLoop, due>> /\ triggerUnread \subseteq triggerUnread'
  BY DEF Pull!QmailQueueStep, Pull!Link, Pull!PullOpen, Pull!PullWrite,
     Pull!PullClose, Pull!iVars
<1>3. CASE fd = "none"
  BY <1>1, <1>2, <1>3 DEF ReaderThere, Noticed, ScanToCome
<1>4. CASE fd = "open"
  <2>1. pipe.byte => pipe'.byte
    BY <1>1, <1>4 DEF Pull!QmailQueueStep, Pull!Link, Pull!PullOpen, Pull!PullWrite,
       Pull!PullClose, Pull!TypeOK, Pull!Pipes
  <2>2. CASE k \in todo /\ ipc[k] \in {"wrote", "done"}
    BY <1>1, <1>2, <2>1, <2>2 DEF Noticed, ScanToCome
  <2>3. CASE /\ k \in todo' /\ ipc'[k] \in {"wrote", "done"}
             /\ ~(k \in todo /\ ipc[k] \in {"wrote", "done"})
    <3>1. pipe'.byte
      BY <1>1, <1>4, <2>3 DEF Pull!QmailQueueStep, Pull!Link, Pull!PullOpen,
         Pull!PullWrite, Pull!PullClose, Pull!TypeOK, Pull!Pipes
    <3> QED BY <3>1 DEF Noticed
  <2> QED BY <2>2, <2>3 DEF Noticed
<1> QED BY <1>1, <1>3, <1>4 DEF Pull!TypeOK

LEMMA ServeNoticed ==
  ASSUME TriggerInv, triggerFaults = 0, triggerFaults' = 0, Pull!Serve, NEW k \in Injectors
  PROVE  Noticed(k)'
<1>1. Pull!TypeOK /\ ReaderThere /\ StreamOpen /\ Noticed(k) /\ ~Pull!Fault
  BY DEF TriggerInv, Pull!Fault, Pull!TypeOK
<1>2. CASE Pull!TodoInit \/ Pull!Select \/ Pull!TodoDo
  BY <1>1, <1>2 DEF Pull!TodoInit, Pull!Select, Pull!TodoDo, Pull!sVars, Noticed,
     ScanToCome
<1>3. CASE Pull!TriggerOpen
  BY <1>1, <1>3 DEF Pull!TriggerOpen, Pull!sVars, ReaderThere, Noticed, ScanToCome,
     Pull!TypeOK
<1>4. CASE Pull!Opendir
  BY <1>1, <1>4 DEF Pull!Opendir, Pull!Todo, Pull!sVars, Noticed
<1>5. CASE Pull!ReadEntry
  BY <1>1, <1>5 DEF Pull!ReadEntry, Noticed, ScanToCome
<1>6. CASE Pull!EndOfDir
  BY <1>1, <1>6 DEF Pull!EndOfDir, Pull!sVars, Noticed, ScanToCome
<1> QED BY <1>2, <1>3, <1>4, <1>5, <1>6 DEF Pull!Serve

LEMMA TriggerStep == TriggerInv /\ [Pull!Next]_(Pull!vars) => TriggerInv'
<1> SUFFICES ASSUME TriggerInv, [Pull!Next]_(Pull!vars) PROVE TriggerInv'
  OBVIOUS
<1>1. Pull!TypeOK' /\ ReaderThere' /\ StreamOpen'
  BY TypeStep, ReaderStep, StreamStep DEF TriggerInv
<1>2. ASSUME triggerFaults' = 0, NEW k \in Injectors PROVE Noticed(k)'
  <2>1. /\ triggerFaults = 0
        /\ \/ UNCHANGED Pull!vars \/ Pull!Serve \/ Pull!SelectOther \/ Pull!Tick
           \/ \E i \in Injectors : Pull!QmailQueueStep(i)
    BY <1>2, FaultsGrow DEF TriggerInv
  <2>2. CASE Pull!SelectOther \/ Pull!Tick \/ UNCHANGED Pull!vars
    BY <2>1, <2>2 DEF TriggerInv, Pull!SelectOther, Pull!Tick, Pull!vars,
       Pull!sVars, Noticed, ScanToCome
  <2> QED BY <1>2, <2>1, <2>2, ServeNoticed, PullNoticed
<1> QED BY <1>1, <1>2 DEF TriggerInv

LEMMA TriggerSafe == TriggerInv => Pull!NoLostWakeup
<1> SUFFICES ASSUME TriggerInv, triggerLoop = "select", ~tododir, ~due, triggerFaults = 0,
                    NEW i \in todo, ipc[i] = "done"
             PROVE  Pull!Readable
  BY DEF Pull!NoLostWakeup
<1>1. Noticed(i) /\ triggerUnread = {} /\ i \in Injectors
  BY DEF TriggerInv, Pull!TypeOK, StreamOpen
<1> QED BY <1>1 DEF Noticed, ScanToCome, Pull!Readable

(* The inductive invariant in every reachable state.                       *)
THEOREM TriggerCorrect == Pull!Spec => []TriggerInv
BY InitTrigger, TriggerStep, PTL DEF Pull!Spec

(* No wake-up is lost, for any number of qmail-queues at once and for both *)
(* settings of HASNAMEDPIPEBUG1: a byte that is written stays until the    *)
(* trigger is reset, and opendir() comes after that.                       *)
THEOREM WakeupKept == Pull!Spec => []Pull!NoLostWakeup
BY TriggerSafe, TriggerCorrect, PTL

-----------------------------------------------------------------------------
(* The control files.                                                      *)

\* Since the last HUP no file has changed and no reread has failed.
Fresh == ~flagreadasap /\ ~controlsUnread /\ ~refused

(* The maps are the two that some reading took together; and what a reread *)
(* has read so far is still what the files have, unless another HUP, an    *)
(* edit or a failure is still to be seen.                                  *)
ControlsInv ==
    /\ Hup!Pair(map) = got
    /\ Fresh =>
         /\ controlsPc \in {"vdoms", "replace"} => newlocals = Hup!Locals
         /\ controlsPc = "replace" => newvdoms = files["vdoms"]
         /\ controlsPc \in {"chdir", "loop"} => Hup!Pair(map) = <<Hup!Locals, files["vdoms"]>>

LEMMA ControlsStep ==
    ASSUME ControlsInv, [Hup!Next]_(Hup!vars)
    PROVE  ControlsInv'
<1> USE DEF ControlsInv, Fresh, Hup!Pair, Hup!Locals
<1>1. CASE Hup!Getcontrols
  BY <1>1 DEF Hup!Getcontrols
<1>2. CASE Hup!GetcontrolsFails
  BY <1>2 DEF Hup!GetcontrolsFails
<1>3. CASE Hup!Reread
  BY <1>3 DEF Hup!Reread
<1>4. CASE Hup!RereadFails
  BY <1>4 DEF Hup!RereadFails
<1>5. CASE Hup!ReadLocals
  BY <1>5 DEF Hup!ReadLocals
<1>6. CASE Hup!ReadVdoms
  BY <1>6 DEF Hup!ReadVdoms
<1>7. CASE Hup!ReadFails
  BY <1>7 DEF Hup!ReadFails
<1>8. CASE Hup!Replace
  BY <1>8 DEF Hup!Replace, Hup!Replaced
<1>9. CASE Hup!Chdir
  BY <1>9 DEF Hup!Chdir
<1>10. CASE Hup!ChdirFails
  BY <1>10 DEF Hup!ChdirFails, Hup!daemon
<1>11. CASE Hup!Stop
  BY <1>11 DEF Hup!Stop
<1>12. CASE Hup!Hup
  BY <1>12 DEF Hup!Hup
<1>13. ASSUME NEW n \in Hup!Names, Hup!Edit(n)
       PROVE  ControlsInv'
  BY <1>13 DEF Hup!Edit, Hup!daemon
<1>14. CASE UNCHANGED Hup!vars
  BY <1>14 DEF Hup!vars, Hup!daemon
<1> QED
  BY <1>1, <1>2, <1>3, <1>4, <1>5, <1>6, <1>7, <1>8, <1>9, <1>10, <1>11, <1>12, <1>13, <1>14
     DEF Hup!Next

LEMMA ControlsStart ==
    ASSUME Hup!Init
    PROVE  ControlsInv
BY DEF Hup!Init, Hup!Names, ControlsInv, Fresh, Hup!Pair

(* What wakes qmail-send is not lost (NoLostWakeup), for any number of     *)
(* qmail-queues, edits, HUPs and errors: a message whose qmail-queue has   *)
(* pulled the trigger is found before qmail-send sleeps, whatever comes    *)
(* between close and open of trigger_set(), and after a HUP it works with  *)
(* what the control files had, both files of the same reading.             *)
THEOREM WakeupsKept == MCSpec => []NoLostWakeup
<1> DEFINE Inv == /\ part = "trigger" => TriggerInv
                  /\ part = "controls" => ControlsInv
<1>1. MCInit => Inv
  BY InitTrigger, ControlsStart DEF MCInit
<1>2. Inv /\ [MCNext]_mcvars => Inv'
  BY PartKept, PullSteps, HupSteps, TriggerStep, ControlsStep
<1>3. Inv => NoLostWakeup
  BY TriggerSafe DEF NoLostWakeup, ControlsInv, Fresh, Hup!Together, Hup!Current
<1> QED
  BY <1>1, <1>2, <1>3, PTL DEF MCSpec

(* The retry schedule keeps its distances, misses no message that is due   *)
(* and goes forward (Scheduled), whatever fails and whatever the clock     *)
(* does: nextretry(), pass_selprep() and the file times of qmail-send.     *)
THEOREM ScheduleKept == MCSpec => Scheduled
<1> DEFINE Inv == part = "retry" => Retrying!RetryInv
           Forward == part = "retry" => Retrying!Later
           OnSchedule == part = "retry" => Retrying!Spaced /\ Retrying!OnTime
<1>1. MCInit => Inv
  BY RetryAssumption, Retrying!Starts DEF MCInit
<1>2. Inv /\ [MCNext]_mcvars => Inv' /\ [Forward]_retryVars
  <2> SUFFICES ASSUME Inv, [MCNext]_mcvars
               PROVE  Inv' /\ [Forward]_retryVars
    OBVIOUS
  <2>1. CASE part = "retry"
    <3>1. Retrying!RetryInv' /\ (Retrying!Later \/ UNCHANGED Retrying!vars)
      BY <2>1, RetryAssumption, RetrySteps, Retrying!Steps
    <3>2. UNCHANGED Retrying!vars => UNCHANGED retryVars
      BY DEF Retrying!vars, Retrying!daemon, Retrying!ghosts, retryVars
    <3> QED
      BY <3>1, <3>2, PartKept
  <2>2. CASE part # "retry"
    BY <2>2, PartKept
  <2> QED
    BY <2>1, <2>2
<1>3. Inv => OnSchedule
  BY RetryAssumption, Retrying!Right
<1> QED
  BY <1>1, <1>2, <1>3, PTL DEF MCSpec, Scheduled

(* A report is of the agent of its own command, there is one for each      *)
(* delivery, and out of memory aborts its own command only (Truthful), for *)
(* any concurrency, size of the pipe and agents that crash (spawn.c).      *)
THEOREM ReportsTrue == MCSpec => []Truthful
<1> DEFINE Inv == part = "spawn" => Spawning!SpawnInv
<1>1. MCInit => Inv
  BY SpawnAssumption, Spawning!Starts DEF MCInit
<1>2. Inv /\ [MCNext]_mcvars => Inv'
  BY SpawnAssumption, PartKept, SpawnSteps, Spawning!Steps
<1>3. Inv => Truthful
  BY SpawnAssumption, Spawning!Right DEF Truthful
<1> QED
  BY <1>1, <1>2, <1>3, PTL DEF MCSpec

-----------------------------------------------------------------------------
(* The square of a sum, which the loop computes without a multiplication.  *)
LEMMA Square ==
    ASSUME NEW a \in Int, NEW b \in Int
    PROVE  (a + b) * (a + b) = a * a + 2 * a * b + b * b
  BY SMT

(* Squares of natural numbers keep their order.                            *)
LEMMA Monotone ==
    ASSUME NEW a \in Nat, NEW b \in Nat, a <= b
    PROVE  a * a <= b * b
<1>1. PICK d \in Nat : b = a + d
  <2>1. b - a \in Nat /\ b = a + (b - a)
    OBVIOUS
  <2>. QED
    BY <2>1
<1>2. b * b = a * a + 2 * a * d + d * d
  BY <1>1, Square
<1>3. 2 * a * d \in Nat /\ d * d \in Nat /\ a * a \in Nat
  OBVIOUS
<1>. QED
  BY <1>2, <1>3

(* Every turn of the loop keeps what the result is known to be.            *)
THEOREM Narrows == Spec => []Narrowing
<1>. USE SquarerootAssumption
<1>1. Init => Narrowing
  <2>. SUFFICES ASSUME Init PROVE Narrowing
    OBVIOUS
  <2>1. Room = 2 * Bit[J] /\ Bit[J] \in Nat
    BY DEF Init, Room
  <2>2. (y + Room) * (y + Room) = Limit
    BY <2>1, Square DEF Init, Limit
  <2>. QED
    BY <2>1, <2>2 DEF Init, Narrowing
<1>2. Narrowing /\ [Next]_vars => Narrowing'
  <2>. SUFFICES ASSUME Narrowing, [Next]_vars PROVE Narrowing'
    OBVIOUS
  <2>1. CASE Turn
    <3>1. /\ j \in 0 .. J /\ j' = j - 1 /\ x' = x /\ Limit' = Limit
          /\ x \in Nat /\ y \in Nat /\ yy \in Nat /\ Bit[j] \in Nat
          /\ Room = 2 * Bit[j]
      BY <2>1 DEF Turn, Narrowing, Room, Limit
    <3>2. Room' = Bit[j]
      BY <3>1 DEF Room
    <3>3. Limit \in Nat /\ Bit[J] \in Nat
      BY DEF Limit
    <3>4. (y + Bit[j]) * (y + Bit[j]) = yy + 2 * y * Bit[j] + Bit[j] * Bit[j]
      BY <3>1, Square DEF Narrowing
    <3>5. CASE Taken(x, y, yy, j)
      <4>1. y' = y + Bit[j] /\ yy' = (y + Bit[j]) * (y + Bit[j])
        BY <2>1, <3>4, <3>5 DEF Turn
      <4>. DEFINE more == 2 * y * Bit[j] + Bit[j] * Bit[j]
      <4>2. more \in Nat /\ yy' = yy + more /\ more <= x - yy
        BY <2>1, <3>1, <3>5 DEF Turn, Taken
      <4>. HIDE DEF more
      <4>4. yy' \in Nat /\ yy' <= x
        BY <3>1, <4>2
      <4>3. y' + Room' = y + Room
        BY <3>1, <3>2, <4>1
      <4>5. y' \in Nat /\ yy' = y' * y' /\ j' \in -1 .. J
        BY <3>1, <4>1
      <4>6. x < Limit => x < (y' + Room') * (y' + Room')
        BY <4>3 DEF Narrowing
      <4>7. x >= Limit => y' + Room' = 2 * Bit[J]
        BY <4>3 DEF Narrowing
      <4>. QED
        BY <3>1, <4>4, <4>5, <4>6, <4>7 DEF Narrowing
    <3>6. CASE ~Taken(x, y, yy, j)
      <4>1. y' = y /\ yy' = yy
        BY <2>1, <3>6 DEF Turn
      <4>. DEFINE more == 2 * y * Bit[j] + Bit[j] * Bit[j]
      <4>0. more \in Int /\ ~(more <= x - yy) /\ (y + Bit[j]) * (y + Bit[j]) = yy + more
        BY <3>1, <3>4, <3>6 DEF Taken
      <4>. HIDE DEF more
      <4>2. x < (y + Bit[j]) * (y + Bit[j])
        BY <3>1, <4>0
      <4>3. x < Limit
        <5>. SUFFICES ASSUME x >= Limit PROVE FALSE
          BY <3>1, <3>3
        <5>1. y + Bit[j] <= 2 * Bit[J] /\ y + Bit[j] \in Nat
          BY <3>1, <3>3 DEF Narrowing
        <5>. DEFINE top == 2 * Bit[J]
                    sum == y + Bit[j]
        <5>2. top \in Nat /\ sum \in Nat /\ sum <= top
          BY <3>3, <5>1
        <5>3. top * top = Limit /\ x < sum * sum
          BY <3>3, <4>2 DEF Limit
        <5>. HIDE DEF top, sum
        <5>4. sum * sum <= top * top
          BY <5>2, Monotone
        <5>. QED
          BY <3>1, <3>3, <5>2, <5>3, <5>4
      <4>4. x < (y' + Room') * (y' + Room') /\ ~(x >= Limit)
        BY <3>1, <3>2, <3>3, <4>1, <4>2, <4>3
      <4>5. yy' = y' * y' /\ yy' <= x' /\ j' \in -1 .. J
        BY <3>1, <4>1 DEF Narrowing
      <4>. QED
        BY <3>1, <4>1, <4>4, <4>5 DEF Narrowing
    <3>. QED
      BY <3>5, <3>6
  <2>2. CASE UNCHANGED vars
    BY <2>2 DEF vars, Narrowing, Room, Limit
  <2>. QED
    BY <2>1, <2>2 DEF Next
<1>. QED
  BY <1>1, <1>2, PTL DEF Spec

(* squareroot() returns the integer square root of every age below the     *)
(* limit, whatever the number of bits, and its greatest value above.       *)
THEOREM RootCorrect == Spec => []Root
<1>1. Narrowing => Root
  BY DEF Narrowing, Root, Room
<1>. QED
  BY <1>1, Narrows, PTL
=============================================================================
