------------------------------- MODULE Spawn --------------------------------
(***************************************************************************)
(* spawn.c, the common part of qmail-lspawn and qmail-rspawn, between      *)
(* qmail-send and the delivery agents.  Commands and reports are bytes in  *)
(* two pipes.  A command is a delivery number and three strings, each      *)
(* ended by NUL; a report is a delivery number, a letter and NUL.  Number  *)
(* 0 is a NUL too.                                                         *)
(*                                                                         *)
(* A report needs two events of one child, in whatever order they come:    *)
(* SIGCHLD with its status and end of file on its pipe.  spawn.c holds the *)
(* writing end of that pipe until it has the status.                       *)
(*                                                                         *)
(* What an agent writes into its pipe is left out; SpawnReport has what is *)
(* made of it.                                                             *)
(***************************************************************************)
EXTENDS Integers, Sequences, FiniteSets, SequencesExt

CONSTANTS Auto_spawn,  \* concurrency; slots are numbered from 0
          PipeSize,    \* bytes the command pipe holds
          Fates,       \* how agents may end
          MaxAborts    \* allocations and forks that fail

Slots == 0 .. Auto_spawn - 1
NUL == 0
K == 75
D == 68
Z == 90
X == 120
CMD == -1      \* descriptor 0
SPAWN == -1    \* holders of a writing end that are not children
ORPHAN == -2

VARIABLES del,       \* qmail-send: d[c][i].used
          comm,      \* qmail-send: comm_buf from comm_pos on
          dline,     \* qmail-send: the report read so far
          alive,     \* qmail-send lives
          cmds,      \* the command pipe
          reps,      \* the report pipe
          loop,      \* where main() of spawn.c stands
          rfds,      \* what select() found readable: slots, or CMD
          parse,     \* stage, delnum, flagabort
          flagreading,
          d,         \* used, pid (alive or not), wstat
          child,     \* the process in each slot
          ends,      \* who holds the writing end of each slot's pipe
          fate,      \* how the agent for the slot's command ended
          aborts

sendVars  == <<del, comm, dline, alive>>
spawnVars == <<loop, rfds, parse, flagreading, d>>
childVars == <<child, ends, fate>>
vars == <<sendVars, cmds, reps, spawnVars, childVars, aborts>>

\* wstat is not initialised; the value stands for whatever memory holds.
Init ==
    /\ del = [i \in Slots |-> FALSE]
    /\ comm = <<>> /\ dline = <<>> /\ cmds = <<>> /\ reps = <<>>
    /\ alive = TRUE
    /\ loop = "select" /\ rfds = {}
    /\ parse = [stage |-> 0, delnum |-> 0, flagabort |-> FALSE]
    /\ flagreading = TRUE
    /\ d = [i \in Slots |-> [used |-> FALSE, pid |-> FALSE, wstat |-> "ok"]]
    /\ child = [i \in Slots |-> "none"]
    /\ ends = [i \in Slots |-> {}]
    /\ fate = [i \in Slots |-> "none"]
    /\ aborts = 0

Abort == aborts < MaxAborts /\ aborts' = aborts + 1

-----------------------------------------------------------------------------
(* qmail-send.                                                             *)

\* del_start() and comm_write(): the lowest free slot; a sender may be empty.
Ask ==
    /\ alive /\ comm = <<>>
    /\ \E i \in Slots :
         /\ ~del[i] /\ \A k \in Slots : k < i => del[k]
         /\ del' = [del EXCEPT ![i] = TRUE]
         /\ fate' = [fate EXCEPT ![i] = "none"]
         /\ comm' \in {<<i, X, NUL, NUL, X, NUL>>, <<i, X, NUL, X, NUL, X, NUL>>}
    /\ UNCHANGED <<dline, alive, cmds, reps, child, ends, aborts>>
    /\ UNCHANGED spawnVars

\* comm_do() writes what fits, without blocking.
CommDo ==
    /\ alive /\ comm # <<>> /\ Len(cmds) < PipeSize
    /\ LET n == Min({Len(comm), PipeSize - Len(cmds)}) IN
       /\ cmds' = cmds \o SubSeq(comm, 1, n)
       /\ comm' = SubSeq(comm, n + 1, Len(comm))
    /\ UNCHANGED <<del, dline, alive, reps, aborts>>
    /\ UNCHANGED <<spawnVars, childVars>>

Complete(line) == Len(line) > 1 /\ Last(line) = NUL

\* del_dochan(), a byte at a time; job_close() and the rest are in QmailSend.
DelDochan ==
    /\ alive /\ reps # <<>>
    /\ reps' = Tail(reps)
    /\ LET line == Append(dline, Head(reps)) IN
       IF Complete(line)
       THEN dline' = <<>> /\ del' = [del EXCEPT ![line[1]] = FALSE]
       ELSE dline' = line /\ UNCHANGED del
    /\ UNCHANGED <<comm, alive, cmds, aborts>>
    /\ UNCHANGED <<spawnVars, childVars>>

\* It exits or dies, perhaps with half a command written.
SendDies ==
    /\ alive
    /\ alive' = FALSE
    /\ comm' = <<>> /\ dline' = <<>> /\ reps' = <<>>
    /\ del' = [i \in Slots |-> FALSE]
    /\ UNCHANGED <<cmds, aborts>> /\ UNCHANGED <<spawnVars, childVars>>

-----------------------------------------------------------------------------
(* main() of spawn.c.  SIGCHLD is blocked except around select().          *)

(* Mutant of Unblocked: the signal may come at any time.                   *)
UnblockedAlways == loop # "exit"

Unblocked == loop = "select"

\* sigchld(): the status of every dead child goes to the slot with its pid;
\* the status of a child without a slot is dropped.
Sigchld ==
    /\ Unblocked
    /\ LET dead == {i \in Slots : child[i] = "zombie"}
           known == {i \in dead : d[i].used /\ d[i].pid} IN
       /\ dead # {}
       /\ child' = [i \in Slots |-> IF i \in dead THEN "none" ELSE child[i]]
       /\ d' = [i \in Slots |-> IF i \in known
                  THEN [d[i] EXCEPT !.pid = FALSE, !.wstat = fate[i]] ELSE d[i]]
       /\ ends' = [i \in Slots |-> IF i \in known
                                   THEN ends[i] \ {SPAWN} ELSE ends[i]]
    /\ UNCHANGED <<sendVars, cmds, reps, loop, rfds, parse, flagreading,
                   fate, aborts>>

Eof(i) == d[i].used /\ ends[i] = {}

Readable ==
    {i \in Slots : Eof(i)}
    \cup IF flagreading /\ (cmds # <<>> \/ ~alive) THEN {CMD} ELSE {}

Select ==
    /\ loop = "select" /\ Readable # {}
    /\ rfds' = Readable
    /\ loop' = IF CMD \in Readable THEN "cmd" ELSE "slots"
    /\ UNCHANGED <<parse, flagreading, d, sendVars, cmds, reps, childVars, aborts>>

\* getcmd(): end of file when qmail-send is gone and the pipe is drained.
GetEof ==
    /\ loop = "cmd" /\ CMD \in rfds /\ cmds = <<>>
    /\ flagreading' = FALSE
    /\ rfds' = rfds \ {CMD}
    /\ loop' = "slots"
    /\ UNCHANGED <<parse, d, sendVars, cmds, reps, childVars, aborts>>

NextCommand(p) == [p EXCEPT !.stage = 0, !.flagabort = FALSE]

\* One byte: the delivery number whatever it is, or part of a string, where
\* stralloc_append() may fail.  The last NUL runs the command.
GetByte ==
    /\ loop = "cmd" /\ cmds # <<>>
    /\ cmds' = Tail(cmds)
    /\ rfds' = rfds \ {CMD}
    /\ LET ch == Head(cmds) IN
       IF parse.stage = 0
       THEN /\ parse' = [parse EXCEPT !.stage = 1, !.delnum = ch]
            /\ UNCHANGED <<loop, aborts>>
       ELSE /\ \E failed \in BOOLEAN :
                 /\ IF failed THEN Abort ELSE UNCHANGED aborts
                 /\ parse' = [parse EXCEPT
                       !.stage = IF ch = NUL /\ @ < 3 THEN @ + 1 ELSE @,
                       !.flagabort = @ \/ failed]
            /\ loop' = IF ch = NUL /\ parse.stage = 3 THEN "docmd" ELSE loop
    /\ UNCHANGED <<flagreading, d, sendVars, reps, childVars>>

\* read() may have returned fewer bytes than are there by now.
GetEnds ==
    /\ loop = "cmd" /\ CMD \notin rfds
    /\ loop' = "slots"
    /\ UNCHANGED <<rfds, parse, flagreading, d, sendVars, cmds, reps,
                   childVars, aborts>>

\* okwrite() drops everything once qmail-send is gone.
Write(i, letter) ==
    IF alive THEN /\ Len(reps) + 3 <= PipeSize
                  /\ reps' = reps \o <<i, letter, NUL>>
             ELSE UNCHANGED reps

\* docmd() up to spawn(): a slot in use, no memory, no message, no pipe, no
\* process; all of them are err() at once.
DocmdFails ==
    /\ loop = "docmd"
    /\ IF parse.flagabort \/ d[parse.delnum].used THEN UNCHANGED aborts
                                                  ELSE Abort
    /\ Write(parse.delnum, Z)
    /\ parse' = NextCommand(parse)
    /\ loop' = "cmd"
    /\ UNCHANGED <<rfds, flagreading, d, sendVars, cmds, childVars>>

\* The child starts with copies of every writing end spawn.c still has.
Fork ==
    /\ loop = "docmd"
    /\ ~parse.flagabort /\ ~d[parse.delnum].used
    /\ child' = [child EXCEPT ![parse.delnum] = "forked"]
    /\ ends' = [i \in Slots |->
                  IF i = parse.delnum THEN {SPAWN, i}
                  ELSE IF SPAWN \in ends[i] THEN ends[i] \cup {parse.delnum}
                  ELSE ends[i]]
    /\ loop' = "forked"
    /\ UNCHANGED <<rfds, parse, flagreading, d, sendVars, cmds, reps, fate, aborts>>

(* Mutant of HoldsEnd: docmd() closes the writing end after the fork.      *)
HoldsEndNot == [ends EXCEPT ![parse.delnum] = @ \ {SPAWN}]

HoldsEnd == ends

\* The rest of docmd().
DocmdEnds ==
    /\ loop = "forked"
    /\ d' = [d EXCEPT ![parse.delnum].used = TRUE, ![parse.delnum].pid = TRUE]
    /\ ends' = HoldsEnd
    /\ parse' = NextCommand(parse)
    /\ loop' = "cmd"
    /\ UNCHANGED <<rfds, flagreading, sendVars, cmds, reps, child, fate, aborts>>

\* report() of either program: QLX_EXECHARD and 100 are permanent, 111 and
\* the other QLX codes are not.
Letter(wstat) == CASE wstat = "ok" -> K
                   [] wstat = "perm" -> D
                   [] OTHER -> Z

\* End of file on the pipe of the next slot that select() named.
Report ==
    /\ loop = "slots"
    /\ \E i \in rfds :
         /\ \A k \in rfds : i <= k
         /\ Write(i, Letter(d[i].wstat))
         /\ d' = [d EXCEPT ![i].used = FALSE]
         /\ rfds' = rfds \ {i}
    /\ UNCHANGED <<loop, parse, flagreading, sendVars, cmds, childVars, aborts>>

\* Top of the loop.
Again ==
    /\ loop = "slots" /\ rfds = {}
    /\ loop' = IF ~flagreading /\ \A i \in Slots : ~d[i].used
               THEN "exit" ELSE "select"
    /\ UNCHANGED <<rfds, parse, flagreading, d, sendVars, cmds, reps,
                   childVars, aborts>>

-----------------------------------------------------------------------------
(* The agents.  coe() closes the ends of other slots at exec().            *)
Exec(i) ==
    /\ child[i] = "forked"
    /\ child' = [child EXCEPT ![i] = "running"]
    /\ ends' = [k \in Slots |-> IF k = i THEN ends[k] ELSE ends[k] \ {i}]
    /\ UNCHANGED <<fate, sendVars, cmds, reps, spawnVars, aborts>>

\* An agent may close its output, or leave a descendant that keeps it open.
ClosesOutput(i) ==
    /\ child[i] = "running" /\ i \in ends[i]
    /\ ends' = [ends EXCEPT ![i] = @ \ {i}]
    /\ UNCHANGED <<child, fate, sendVars, cmds, reps, spawnVars, aborts>>

LeavesOrphan(i) ==
    /\ child[i] = "running" /\ i \in ends[i]
    /\ ends' = [ends EXCEPT ![i] = @ \cup {ORPHAN}]
    /\ UNCHANGED <<child, fate, sendVars, cmds, reps, spawnVars, aborts>>

\* It may die before exec() too (_exit(QLX_...)).
Exits(i) ==
    /\ child[i] \in {"forked", "running"}
    /\ child' = [child EXCEPT ![i] = "zombie"]
    /\ ends' = [k \in Slots |-> ends[k] \ {i}]
    /\ \E f \in Fates : fate' = [fate EXCEPT ![i] = f]
    /\ UNCHANGED <<sendVars, cmds, reps, spawnVars, aborts>>

OrphanExits(i) ==
    /\ ORPHAN \in ends[i]
    /\ ends' = [ends EXCEPT ![i] = @ \ {ORPHAN}]
    /\ UNCHANGED <<child, fate, sendVars, cmds, reps, spawnVars, aborts>>

-----------------------------------------------------------------------------
SpawnStep == Sigchld \/ Select \/ GetEof \/ GetByte \/ GetEnds \/ DocmdFails
          \/ Fork \/ DocmdEnds \/ Report \/ Again
AgentStep(i) == Exec(i) \/ ClosesOutput(i) \/ LeavesOrphan(i)
Stopped == loop = "exit" /\ UNCHANGED vars

Next == \/ Ask \/ CommDo \/ DelDochan \/ SendDies
        \/ SpawnStep
        \/ \E i \in Slots : AgentStep(i) \/ Exits(i) \/ OrphanExits(i)
        \/ Stopped

Spec == Init /\ [][Next]_vars

-----------------------------------------------------------------------------
(* What is on its way to qmail-send, as whole reports.                     *)
Pending == dline \o reps
PendingReports == {k \in 1 .. Len(Pending) : k % 3 = 1}

(* A report of success or of permanent failure says how the agent of this  *)
(* very command ended: no status is reported before it is known            *)
(* (spawn.c:30), and none of an earlier delivery in the slot.              *)
Truthful ==
    \A k \in PendingReports :
        LET i == Pending[k] letter == Pending[k + 1] IN
        /\ letter = K <=> fate[i] = "ok"
        /\ letter = D <=> fate[i] = "perm"

(* There is never more than one report for a delivery, and never one for a *)
(* slot that qmail-send does not use (the warning of qmail-send.c:912);    *)
(* and no command names a slot in use (spawn.c:92).                        *)
OneReport ==
    /\ \A k \in PendingReports :
         /\ Pending[k] \in Slots /\ del[Pending[k]]
         /\ ~d[Pending[k]].used
         /\ \A m \in PendingReports : Pending[m] = Pending[k] => m = k
    /\ alive /\ loop = "docmd" => ~d[parse.delnum].used

(* Out of memory aborts the command it happened in and no other one        *)
(* (spawn.c:89): a failure counts for at most one report without an agent. *)
AbortsOne ==
    Cardinality({i \in Slots : /\ fate[i] = "none"
                               /\ \E k \in PendingReports : Pending[k] = i}) <= aborts
=============================================================================
