------------------------------ MODULE Trigger -------------------------------
(***************************************************************************)
(* How qmail-send learns of new messages.  lock/trigger is a named pipe:   *)
(* qmail-queue links todo/ and then, in triggerpull(), opens the pipe,     *)
(* writes a byte and closes it, all without blocking.  qmail-send waits in *)
(* select() for the pipe to become readable; before it scans todo/ it      *)
(* closes and reopens the pipe, so that the wake-up is consumed.  A pull   *)
(* that meets the gap between close() and open() is lost; it must not      *)
(* matter.                                                                 *)
(*                                                                         *)
(* The clock is one flag: due says that nexttodorun has passed.            *)
(***************************************************************************)
EXTENDS Naturals

CONSTANTS Injectors,   \* qmail-queue processes
          HasNamedPipeBug1,  \* hasnpbg1.h: an unwritten pipe selects readable
          MaxFaults    \* failing calls and deaths in a behaviour

VARIABLES todo,      \* injectors whose message lies in todo/
          ipc,       \* where each injector stands
          fd,        \* trigger.c: fd, as "none" or "open"
          pipe,      \* byte: there is something to read; written: a writer came since the open
          loop,      \* where qmail-send stands
          pulled,    \* trigger_pulled() at the last select()
          unread,    \* what readdir() has still to return, {} also if tododir = 0
          tododir,   \* the directory is open
          due,       \* nexttodorun <= recent
          faults

vars == <<todo, ipc, fd, pipe, loop, pulled, unread, tododir, due, faults>>

Pipes == [byte : BOOLEAN, written : BOOLEAN]
IStates == {"idle", "linked", "opened", "wrote", "done"}

TypeOK ==
    /\ todo \subseteq Injectors
    /\ ipc \in [Injectors -> IStates]
    /\ fd \in {"none", "open"}
    /\ pipe \in Pipes
    /\ loop \in {"init", "start", "select", "todo", "open", "opendir", "read"}
    /\ pulled \in BOOLEAN /\ tododir \in BOOLEAN /\ due \in BOOLEAN
    /\ unread \subseteq Injectors
    /\ faults \in Nat

EmptyPipe == [byte |-> FALSE, written |-> FALSE]

Init ==
    /\ todo = {}
    /\ ipc = [i \in Injectors |-> "idle"]
    /\ fd = "none"
    /\ pipe = EmptyPipe
    /\ loop = "init"
    /\ pulled = FALSE /\ tododir = FALSE /\ due = FALSE
    /\ unread = {}
    /\ faults = 0

Fault == faults < MaxFaults /\ faults' = faults + 1

Writers == {i \in Injectors : ipc[i] \in {"opened", "wrote"}}

\* With the bug qmail-send holds a writing end itself (fdw): no end of file.
Readable == pipe.byte
         \/ (~HasNamedPipeBug1 /\ pipe.written /\ Writers = {})

-----------------------------------------------------------------------------
(* qmail-queue.  Link() may show up in a scan that is under way.           *)
iVars == <<fd, loop, pulled, tododir, due>>

Link(i) ==
    /\ ipc[i] = "idle"
    /\ todo' = todo \cup {i}
    /\ ipc' = [ipc EXCEPT ![i] = "linked"]
    /\ unread' \in IF tododir THEN {unread, unread \cup {i}} ELSE {unread}
    /\ UNCHANGED <<pipe, faults>> /\ UNCHANGED iVars

\* open_write() fails without a reader.
PullOpen(i) ==
    /\ ipc[i] = "linked"
    /\ ipc' = [ipc EXCEPT ![i] = IF fd = "open" THEN "opened" ELSE "done"]
    /\ pipe' = IF fd = "open" THEN [pipe EXCEPT !.written = TRUE] ELSE pipe
    /\ UNCHANGED <<todo, unread, faults>> /\ UNCHANGED iVars

\* "if it fails, bummer": the reader may be gone by now.
PullWrite(i) ==
    /\ ipc[i] = "opened"
    /\ ipc' = [ipc EXCEPT ![i] = "wrote"]
    /\ pipe' = IF fd = "open" THEN [pipe EXCEPT !.byte = TRUE] ELSE pipe
    /\ UNCHANGED <<todo, unread, faults>> /\ UNCHANGED iVars

\* The last close() of either end drops what is in the pipe.
PullClose(i) ==
    /\ ipc[i] = "wrote"
    /\ ipc' = [ipc EXCEPT ![i] = "done"]
    /\ pipe' = IF fd = "none" /\ Writers = {i} THEN EmptyPipe ELSE pipe
    /\ UNCHANGED <<todo, unread, faults>> /\ UNCHANGED iVars

\* qmail-queue is killed before it has pulled; an open end is closed for it.
DiesUnpulled(i) ==
    /\ ipc[i] \in {"linked", "opened"}
    /\ Fault
    /\ ipc' = [ipc EXCEPT ![i] = "done"]
    /\ pipe' = IF fd = "none" /\ Writers \subseteq {i} THEN EmptyPipe ELSE pipe
    /\ UNCHANGED <<todo, unread>> /\ UNCHANGED iVars

-----------------------------------------------------------------------------
(* qmail-send: todo_init(), then todo_selprep() and todo_do() of the loop. *)
sVars == <<todo, ipc>>

TodoInit ==
    /\ loop = "init"
    /\ due' = TRUE
    /\ loop' = "start"
    /\ UNCHANGED <<fd, pipe, pulled, tododir, unread, faults>> /\ UNCHANGED sVars

\* select() returns when the trigger is readable, or at once while a scan
\* is under way, or when nexttodorun has come.
Select ==
    /\ loop = "select"
    /\ Readable \/ tododir \/ due
    /\ pulled' = Readable
    /\ loop' = "todo"
    /\ UNCHANGED <<fd, pipe, tododir, unread, due, faults>> /\ UNCHANGED sVars

\* It returns for the sake of another handler.
SelectOther ==
    /\ loop = "select"
    /\ pulled' = Readable
    /\ loop' = "todo"
    /\ UNCHANGED <<fd, pipe, tododir, unread, due, faults>> /\ UNCHANGED sVars

(* Mutant of MustScan: only the trigger counts.                            *)
MustScanPulled == pulled

MustScan == pulled \/ due

\* todo_do(): nothing to do, or close the trigger, or go on reading.
TodoDo ==
    /\ loop = "todo"
    /\ IF tododir THEN loop' = "read" /\ UNCHANGED <<fd, pipe>>
       ELSE IF ~MustScan THEN loop' = "select" /\ UNCHANGED <<fd, pipe>>
       ELSE /\ fd' = "none"
            /\ pipe' = IF Writers = {} THEN EmptyPipe ELSE pipe
            /\ loop' = "open"
    /\ UNCHANGED <<pulled, tododir, unread, due, faults>> /\ UNCHANGED sVars

\* A pipe that is reopened while a writer has it open may or may not select
\* readable when that writer closes; here it does not.  The open() of
\* todo_init() is followed by select(), where due lets the scan begin.
TriggerOpen ==
    /\ loop \in {"start", "open"}
    /\ \/ fd' = "open" /\ UNCHANGED faults
       \/ Fault /\ fd' = "none"
    /\ pipe' = IF fd' = "open" /\ fd = "none"
               THEN [pipe EXCEPT !.written = FALSE] ELSE pipe
    /\ loop' = IF loop = "start" THEN "select" ELSE "opendir"
    /\ UNCHANGED <<pulled, tododir, unread, due>> /\ UNCHANGED sVars

(* Mutant of Todo: opendir() comes before the trigger is reset, and misses *)
(* what is linked and pulled in between.                                   *)
TodoStale == {i \in todo : ipc[i] = "done"}

Todo == todo

\* opendir() sees all that is linked by now.
Opendir ==
    /\ loop = "opendir"
    /\ tododir' = TRUE
    /\ unread' = Todo
    /\ due' = FALSE
    /\ loop' = "read"
    /\ UNCHANGED <<fd, pipe, pulled, faults>> /\ UNCHANGED sVars

\* pausedir() sleeps and nexttodorun stays.
OpendirFails ==
    /\ loop = "opendir"
    /\ Fault
    /\ loop' = "select"
    /\ UNCHANGED <<fd, pipe, pulled, tododir, unread, due>> /\ UNCHANGED sVars

\* One entry is preprocessed and leaves todo/, or fails and stays there.
ReadEntry ==
    /\ loop = "read"
    /\ \E i \in unread :
         /\ unread' = unread \ {i}
         /\ \/ todo' = todo \ {i} /\ UNCHANGED faults
            \/ Fault /\ UNCHANGED todo
    /\ loop' = "select"
    /\ UNCHANGED <<ipc, fd, pipe, pulled, tododir, due>>

EndOfDir ==
    /\ loop = "read"
    /\ unread = {}
    /\ tododir' = FALSE
    /\ loop' = "select"
    /\ UNCHANGED <<fd, pipe, pulled, unread, due, faults>> /\ UNCHANGED sVars

\* qmail-send dies or stops (flagexitasap) and is started again.
Dies ==
    /\ loop # "init"
    /\ Fault
    /\ fd' = "none"
    /\ pipe' = IF Writers = {} THEN EmptyPipe ELSE pipe
    /\ tododir' = FALSE /\ unread' = {} /\ pulled' = FALSE
    /\ loop' = "init"
    /\ UNCHANGED due /\ UNCHANGED sVars

\* SLEEP_TODO passes.
Tick ==
    /\ ~due
    /\ due' = TRUE
    /\ UNCHANGED <<todo, ipc, fd, pipe, loop, pulled, tododir, unread, faults>>

QmailQueueStep(i) == Link(i) \/ PullOpen(i) \/ PullWrite(i) \/ PullClose(i)

Serve == TodoInit \/ Select \/ TodoDo \/ TriggerOpen \/ Opendir \/ ReadEntry
      \/ EndOfDir

Next ==
    \/ \E i \in Injectors : QmailQueueStep(i) \/ DiesUnpulled(i)
    \/ Serve \/ SelectOther \/ OpendirFails \/ Dies \/ Tick

Spec == Init /\ [][Next]_vars

-----------------------------------------------------------------------------
(* While no call has failed and nobody has died, qmail-send never sleeps   *)
(* with a message in todo/ whose qmail-queue has finished pulling: the     *)
(* close and reopen of trigger.c:13 loses no wake-up, because opendir()    *)
(* comes after it.                                                         *)
NoLostWakeup ==
    loop = "select" /\ ~tododir /\ ~due /\ faults = 0
        => \A i \in todo : ipc[i] = "done" => Readable

=============================================================================
