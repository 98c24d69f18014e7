------------------------------ MODULE QueueDir ------------------------------
(***************************************************************************)
(* The queue directory of qmail: the files the programs share, keyed by    *)
(* message number, with as much of their contents as the programs act on.  *)
(* qmail-queue.c, qmail-send.c and qmail-clean.c change it, one link() or  *)
(* unlink() at a time; nothing else synchronises them.                     *)
(*                                                                         *)
(* A message number is the inode number of mess/N (qmail-queue.c:193), so  *)
(* the kernel may hand the number out again once no name and no open       *)
(* descriptor is left on that inode.  Directory operations are taken to be *)
(* durable when they return, as INSTALL asks of the file system; contents  *)
(* are durable only after fsync(), which `safe` records.                   *)
(***************************************************************************)
EXTENDS Integers, FiniteSets

CONSTANTS Ids,        \* inode numbers
          NoId,       \* not one of them
          Recips,     \* recipient records of a message
          DEATH,      \* life of a qmail-queue process, in ticks
          OSSIFIED,   \* age after which a leftover may be removed, in ticks
          MaxFaults   \* bound on failing calls, kills and crashes in a behaviour

(* "_must_ be below q-s's OSSIFIED" (qmail-queue.c:24).                    *)
ASSUME TimesAssumption == DEATH \in Nat /\ OSSIFIED \in Nat /\ DEATH < OSSIFIED
ASSUME FaultsAssumption == MaxFaults \in Nat
ASSUME NoIdAssumption == NoId \notin Ids
ASSUME IdsAssumption == IsFiniteSet(Ids)   \* a file system has so many inodes

Channels == {"local", "remote"}

(* An ordinary sender, the empty sender of a bounce, and the sender        *)
(* "#@[]" of a bounce that reports a failed bounce (qmail-send.c:691).     *)
Senders == {"user", "null", "triple"}

(* One name per directory.  "pid" stands for the pid/ name under which the *)
(* inode is created before it has its number for a name.                   *)
Kinds == {"pid", "mess", "intd", "todo", "info", "bounce"} \cup Channels

VARIABLES files,    \* files[id]: the names that exist for message id
          safe,     \* safe[id]: the files whose complete contents are on disk
          sender,   \* sender[id]: F record of the envelope
          rcpts,    \* rcpts[id]: T records of the envelope
          undone,   \* undone[id][c]: records of channel file c that are T
          done,     \* done[id][c]: records of channel file c marked D
          notes,    \* notes[id]: recipients that bounce/id reports
          age,      \* age[id]: ticks since the inode was made, while in use
          faults    \* failing calls, kills and crashes so far

dirVars == <<files, safe, sender, rcpts, undone, done, notes, age, faults>>

NoRecords == [c \in Channels |-> {}]

DirTypeOK ==
    /\ files  \in [Ids -> SUBSET Kinds]
    /\ safe   \in [Ids -> SUBSET Kinds]
    /\ sender \in [Ids -> Senders]
    /\ rcpts  \in [Ids -> SUBSET Recips]
    /\ undone \in [Ids -> [Channels -> SUBSET Recips]]
    /\ done   \in [Ids -> [Channels -> SUBSET Recips]]
    /\ notes  \in [Ids -> SUBSET Recips]
    /\ age    \in [Ids -> 0 .. OSSIFIED + 1]
    /\ faults \in 0 .. MaxFaults

DirInit ==
    /\ files  = [id \in Ids |-> {}]
    /\ safe   = [id \in Ids |-> {}]
    /\ sender = [id \in Ids |-> "user"]
    /\ rcpts  = [id \in Ids |-> {}]
    /\ undone = [id \in Ids |-> NoRecords]
    /\ done   = [id \in Ids |-> NoRecords]
    /\ notes  = [id \in Ids |-> {}]
    /\ age    = [id \in Ids |-> 0]
    /\ faults = 0

Has(id, kind) == kind \in files[id]
HasChannel(id) == files[id] \cap Channels # {}

(* The inode still has a name.                                             *)
Named(names) == names \cap {"pid", "mess"} # {}

(* One more call fails: the budget of the behaviour allows it.             *)
Fault(n) == faults + n <= MaxFaults /\ faults' = faults + n

(* link() and open_excl(): a name appears; the file is empty or shares     *)
(* what the other name has on disk.                                        *)
Create(id, kind) ==
    /\ files' = [files EXCEPT ![id] = @ \cup {kind}]
    /\ UNCHANGED <<sender, rcpts, undone, done, notes>>

(* The records that are left when the files ks are gone.                   *)
Without(records, ks) == [c \in Channels |-> IF c \in ks THEN {} ELSE records[c]]

(* unlink() of the names ks of message id; the contents go with the last   *)
(* name, and a number without a name carries nothing over to its next use. *)
Unlink(id, ks) ==
    LET left == files[id] \ ks IN
    /\ files'  = [files EXCEPT ![id] = left]
    /\ safe'   = [safe EXCEPT ![id] = @ \ ks]
    /\ sender' = [sender EXCEPT ![id] = IF Named(left) THEN @ ELSE "user"]
    /\ rcpts'  = [rcpts EXCEPT ![id] = IF Named(left) THEN @ ELSE {}]
    /\ undone' = [undone EXCEPT ![id] = Without(@, ks)]
    /\ done'   = [done EXCEPT ![id] = Without(@, ks)]
    /\ notes'  = [notes EXCEPT ![id] = IF "bounce" \in ks THEN {} ELSE @]
    /\ UNCHANGED age

-----------------------------------------------------------------------------
(* The states of a message number, INTERNALS.md section 2: which of the    *)
(* files may exist together.  pid/ is not part of that table.              *)

S1(id) == files[id] \ {"pid"} = {}
S2(id) == files[id] \ {"pid"} = {"mess"}
S3(id) == files[id] \ {"pid"} = {"mess", "intd"}
S4(id) == Has(id, "mess") /\ Has(id, "todo") /\ ~Has(id, "bounce")
S5(id) == Has(id, "mess") /\ Has(id, "info") /\ ~Has(id, "intd") /\ ~Has(id, "todo")

(* Every message number is always in one of the five states: no step of    *)
(* any program, no failing call and no crash leaves another combination.   *)
QueueStates == \A id \in Ids : S1(id) \/ S2(id) \/ S3(id) \/ S4(id) \/ S5(id)

(* What a promise rests on is on disk: mess/ and the envelope once todo/   *)
(* exists (qmail-queue.c:214,260 before 262), info/ and the channel files  *)
(* once todo/ is gone (qmail-send.c:1398,1408 before 1414).                *)
Durable ==
    \A id \in Ids :
        /\ Has(id, "todo") => {"mess", "todo"} \subseteq safe[id]
        /\ S5(id) => ({"mess", "info"} \cup (files[id] \cap Channels)) \subseteq safe[id]
=============================================================================
