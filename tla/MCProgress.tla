----------------------------- MODULE MCProgress -----------------------------
(***************************************************************************)
(* What must happen in the end, on small instances of the components: a    *)
(* behaviour is of one of them. Fairness is stated here for all of them.   *)
(***************************************************************************)
EXTENDS Integers, Sequences, FiniteSets

VARIABLES part,   \* the component that this behaviour is of
    triggerTodo, ipc, fd, triggerPipe, triggerLoop, pulled, unread, tododir, due,
    triggerFaults,   \* Trigger
    now, phase, left, recent, exitasap, pq, mtime, job, pass, gone, tries,
    undisturbed, retryFaults,   \* Retry
    spawnDel, comm, dline, alive, cmds, reps, spawnLoop, rfds, parse, flagreading,
    spawnD, child, ends, fate, aborts,   \* Spawn
    pc, queueTodo, ss, flushing, flagerr, errlen, queuePipe, open, queueQ, wstat,
    result,   \* QmailC
    smtpdUp, smtpdC2s, smtpdSsout, smtpdS2c, smtpdSess, smtpdLog, smtpdQueued,   \* Smtpd
    remoteUp, remoteC2s, remoteS2c, rem, report, remoteSsout, remoteSess, remoteLog,
    remoteQueued,   \* Remote
    tmp, new, cur, data, maildirDel, maildirS, deleted, asked,   \* Maildir
    logger, fds, pi, script, state, startFaults,   \* Start
    file, copies, told   \* Loops

Three == <<"r1", "r2", "r3">>

\* A message for each channel.
TwoMsgs == {"a", "b"}
ChanOf == [m \in TwoMsgs |-> IF m = "b" THEN 1 ELSE 0]
BirthOf == [m \in TwoMsgs |-> IF m = "a" THEN 0 ELSE 1]

\* Lists l and m; l has an owner.
LocalAddrs == {"l", "m", "lo"}
Owners == [ad \in {"l"} |-> "lo"]
FileContents == {f \in SUBSET (LocalAddrs \cup {"r"}) : Cardinality(f) <= 1} \cup {{"l", "m"}}
FirstCopies == {[to |-> "l", sender |-> who, dt |-> <<>>] : who \in {"m", "lo", "<>"}}

Pull == INSTANCE Trigger WITH
    Injectors <- {"i1", "i2"}, HasNamedPipeBug1 <- FALSE, MaxFaults <- 1,
    todo <- triggerTodo, pipe <- triggerPipe, loop <- triggerLoop,
    faults <- triggerFaults
Ticking == INSTANCE Trigger WITH
    Injectors <- {"i1", "i2"}, HasNamedPipeBug1 <- TRUE, MaxFaults <- 1,
    todo <- triggerTodo, pipe <- triggerPipe, loop <- triggerLoop,
    faults <- triggerFaults
Retrying == INSTANCE Retry WITH
    Msgs <- TwoMsgs, Chan <- ChanOf, Birth <- BirthOf,
    Chanskip <- [c \in {0, 1} |-> c + 1], Lifetime <- 3, NumJobs <- 1,
    SLEEP_SYSFAIL <- 3, SLEEP_FUZZ <- 1, SLEEP_FOREVER <- 5, MaxTime <- 12,
    Faults <- {"open", "term"}, MaxFaults <- 1, faults <- retryFaults
Spawning == INSTANCE Spawn WITH
    Auto_spawn <- 2, PipeSize <- 3, Fates <- {"ok", "perm"}, MaxAborts <- 0,
    del <- spawnDel, loop <- spawnLoop, d <- spawnD
Client == INSTANCE QmailC WITH
    BodyLen <- 3, EnvLen <- 3, BufSize <- 2, PipeSize <- 2, MaxErr <- 4, EarlyErr <- 2,
    ErrStr <- 3,
    ExitCodes <- {53, 82}, todo <- queueTodo, pipe <- queuePipe, q <- queueQ
Server == INSTANCE Smtpd WITH
    Senders <- {"s1"}, Recips <- {"r1"}, Badmailfrom <- {}, Rcpthosts <- {"r1"},
    Relayclient <- FALSE, QqCrashes <- FALSE, Ahead <- 1, MaxCommands <- 2,
    Verbs <- {"rset", "data", "dot"}, MaxMessages <- 1, up <- smtpdUp, c2s <- smtpdC2s,
    ssout <- smtpdSsout, s2c <- smtpdS2c, sess <- smtpdSess, log <- smtpdLog,
    queued <- smtpdQueued
Sending == INSTANCE Remote WITH
    From <- "s1", To <- Three, Allowed <- {"r1", "r3"}, QqCrashes <- TRUE,
    up <- remoteUp, c2s <- remoteC2s, s2c <- remoteS2c, ssout <- remoteSsout,
    sess <- remoteSess, log <- remoteLog, queued <- remoteQueued
Boxes == INSTANCE Maildir WITH
    Deliveries <- {"p"}, Sessions <- {"u"}, Others <- FALSE, del <- maildirDel,
    s <- maildirS
Starting == INSTANCE Start WITH
    Opens <- {{0, 1, 2}}, Loggers <- {FALSE}, MaxFaults <- 1, faults <- startFaults
Looping == INSTANCE Loops WITH
    Local <- LocalAddrs, Remote <- {"r"}, OwnerOf <- Owners, Postmaster <- "m",
    Starts <- FirstCopies, Forwards <- FileContents

triggerVars == <<triggerTodo, ipc, fd, triggerPipe, triggerLoop, pulled, unread, tododir, due,
        triggerFaults>>
retryVars == <<now, phase, left, recent, exitasap, pq, mtime, job, pass, gone, tries,
        undisturbed, retryFaults>>
spawnVars == <<spawnDel, comm, dline, alive, cmds, reps, spawnLoop, rfds, parse, flagreading,
        spawnD, child, ends, fate, aborts>>
queueVars == <<pc, queueTodo, ss, flushing, flagerr, errlen, queuePipe, open, queueQ, wstat,
        result>>
smtpdVars == <<smtpdUp, smtpdC2s, smtpdSsout, smtpdS2c, smtpdSess, smtpdLog, smtpdQueued>>
remoteVars == <<remoteUp, remoteC2s, remoteS2c, rem, report, remoteSsout, remoteSess, remoteLog,
        remoteQueued>>
maildirVars == <<tmp, new, cur, data, maildirDel, maildirS, deleted, asked>>
startVars == <<logger, fds, pi, script, state, startFaults>>
loopsVars == <<file, copies, told>>

Init ==
    /\ part \in {"trigger", "clock", "retry", "spawn", "queue", "smtpd", "remote",
                "maildir", "start", "loops"}
    /\ IF part = "trigger" THEN Pull!Init
       ELSE IF part = "clock" THEN Ticking!Init
       ELSE triggerTodo = 0 /\ ipc = 0 /\ fd = 0 /\ triggerPipe = 0 /\ triggerLoop = 0
            /\ pulled = 0 /\ unread = 0 /\ tododir = 0 /\ due = 0 /\ triggerFaults = 0
    /\ IF part = "retry" THEN Retrying!Init
       ELSE now = 0 /\ phase = 0 /\ left = 0 /\ recent = 0 /\ exitasap = 0 /\ pq = 0
            /\ mtime = 0 /\ job = 0 /\ pass = 0 /\ gone = 0 /\ tries = 0
            /\ undisturbed = 0 /\ retryFaults = 0
    /\ IF part = "spawn" THEN Spawning!Init
       ELSE spawnDel = 0 /\ comm = 0 /\ dline = 0 /\ alive = 0 /\ cmds = 0 /\ reps = 0
            /\ spawnLoop = 0 /\ rfds = 0 /\ parse = 0 /\ flagreading = 0 /\ spawnD = 0
            /\ child = 0 /\ ends = 0 /\ fate = 0 /\ aborts = 0
    /\ IF part = "queue" THEN Client!Init
       ELSE pc = 0 /\ queueTodo = 0 /\ ss = 0 /\ flushing = 0 /\ flagerr = 0
            /\ errlen = 0 /\ queuePipe = 0 /\ open = 0 /\ queueQ = 0 /\ wstat = 0
            /\ result = 0
    /\ IF part = "smtpd" THEN Server!Init
       ELSE smtpdUp = 0 /\ smtpdC2s = 0 /\ smtpdSsout = 0 /\ smtpdS2c = 0
            /\ smtpdSess = 0 /\ smtpdLog = 0 /\ smtpdQueued = 0
    /\ IF part = "remote" THEN Sending!Init
       ELSE remoteUp = 0 /\ remoteC2s = 0 /\ remoteS2c = 0 /\ rem = 0 /\ report = 0
            /\ remoteSsout = 0 /\ remoteSess = 0 /\ remoteLog = 0 /\ remoteQueued = 0
    /\ IF part = "maildir" THEN Boxes!Init
       ELSE tmp = 0 /\ new = 0 /\ cur = 0 /\ data = 0 /\ maildirDel = 0 /\ maildirS = 0
            /\ deleted = 0 /\ asked = 0
    /\ IF part = "start" THEN Starting!Init
       ELSE logger = 0 /\ fds = 0 /\ pi = 0 /\ script = 0 /\ state = 0
            /\ startFaults = 0
    /\ IF part = "loops" THEN Looping!Init
       ELSE file = 0 /\ copies = 0 /\ told = 0

\* All other components are switched off.
Others(which) ==
    /\ part = which /\ UNCHANGED part
    /\ IF which \in {"trigger", "clock"} THEN TRUE ELSE UNCHANGED triggerVars
    /\ IF which = "retry" THEN TRUE ELSE UNCHANGED retryVars
    /\ IF which = "spawn" THEN TRUE ELSE UNCHANGED spawnVars
    /\ IF which = "queue" THEN TRUE ELSE UNCHANGED queueVars
    /\ IF which = "smtpd" THEN TRUE ELSE UNCHANGED smtpdVars
    /\ IF which = "remote" THEN TRUE ELSE UNCHANGED remoteVars
    /\ IF which = "maildir" THEN TRUE ELSE UNCHANGED maildirVars
    /\ IF which = "start" THEN TRUE ELSE UNCHANGED startVars
    /\ IF which = "loops" THEN TRUE ELSE UNCHANGED loopsVars

Next ==
    \/ Others("trigger") /\ Pull!Next
    \/ Others("clock") /\ Ticking!Next
    \/ Others("retry") /\ Retrying!Next
    \/ Others("spawn") /\ Spawning!Next
    \/ Others("queue") /\ Client!Next
    \/ Others("smtpd") /\ Server!Next
    \/ Others("remote") /\ Sending!Next
    \/ Others("maildir") /\ Boxes!Next
    \/ Others("start") /\ Starting!Next
    \/ Others("loops") /\ Looping!Next

vars == <<part, triggerVars, retryVars, spawnVars, queueVars, smtpdVars, remoteVars,
        maildirVars, startVars, loopsVars>>

Spec == Init /\ [][Next]_vars

-----------------------------------------------------------------------------
(* Fairness: a program that can go on goes on.  Nothing is promised of     *)
(* faults, of clients, or of the clock unless it is named.                 *)

\* qmail-send serves its trigger; in the part "clock" time passes too.
TriggerRuns ==
    /\ WF_triggerVars(part = "trigger" /\ Pull!Serve)
    /\ WF_triggerVars(part = "clock" /\ Ticking!Serve)
    /\ WF_triggerVars(part = "clock" /\ Ticking!Tick)

\* The main loop and the reports of the spawners.
RetryRuns == WF_retryVars(part = "retry" /\ Retrying!Works)

\* Each process runs; agents end, and so do their descendants.  A pending
\* signal is delivered when it is unblocked, however briefly.
SpawnRuns ==
    /\ WF_spawnVars(part = "spawn" /\ Spawning!CommDo)
    /\ WF_spawnVars(part = "spawn" /\ Spawning!DelDochan)
    /\ WF_spawnVars(part = "spawn" /\ Spawning!SpawnStep)
    /\ SF_spawnVars(part = "spawn" /\ Spawning!Sigchld)
    /\ \A k \in {0, 1} :
         /\ WF_spawnVars(part = "spawn" /\ Spawning!Exits(k))
         /\ WF_spawnVars(part = "spawn" /\ Spawning!OrphanExits(k))

\* Both run; the queue program reads on, and ends when it has all.
QueueRuns ==
    /\ WF_queueVars(part = "queue" /\ Client!Client)
    /\ WF_queueVars(part = "queue" /\ Client!Reads)
    /\ WF_queueVars(part = "queue" /\ Client!WritesError)
    /\ WF_queueVars(part = "queue" /\ queueQ.pc \in {"env", "committed"} /\ Client!Exits)

\* Servers and qmail-remote go on while they have something to read.
SmtpRuns ==
    /\ WF_smtpdVars(part = "smtpd" /\ Server!Server)
    /\ WF_remoteVars(part = "remote" /\ Sending!ClientSteps)
    /\ WF_remoteVars(part = "remote" /\ Sending!ServerSteps)

\* The user keeps coming to read mail, sessions end, and time passes.
MaildirRuns ==
    /\ WF_maildirVars(part = "maildir" /\ Boxes!Tick)
    /\ WF_maildirVars(part = "maildir" /\ Boxes!Sigalrm("p"))
    /\ SF_maildirVars(part = "maildir" /\ Boxes!Clean("u"))
    /\ WF_maildirVars(part = "maildir" /\ Boxes!SessionEnds("u"))
    /\ WF_maildirVars(part = "maildir" /\ \E f \in maildirS["u"].todo : Boxes!QuitFile("u", f))

\* A process goes on, and notices the end of its input.
StartRuns == \A p \in Starting!Processes : WF_startVars(part = "start" /\ Starting!Step(p))

\* The queue goes on trying.
LoopsRun == WF_loopsVars(part = "loops" /\ Looping!Next)

FairSpec == /\ Spec /\ TriggerRuns /\ RetryRuns /\ SpawnRuns /\ QueueRuns
            /\ SmtpRuns /\ MaildirRuns /\ StartRuns /\ LoopsRun

-----------------------------------------------------------------------------
(* As part never changes, what one part waits for only that part can bring *)
(* about: a formula stands for several parts.                              *)

(* A message whose qmail-queue has pulled the trigger is preprocessed      *)
(* without waiting for nexttodorun while nothing has failed (trigger.c);   *)
(* and whatever fails, opendir() after the trigger is emptied included     *)
(* (qmail-send.c:1274), it is found once SLEEP_TODO has passed.  i1 stands *)
(* for any qmail-queue: they are alike.                                    *)
Preprocessed ==
    \/ part = "trigger" /\ "i1" \in triggerTodo /\ ipc["i1"] = "done"
    \/ part = "clock" /\ "i1" \in triggerTodo
    ~>
    \/ part = "trigger" /\ ("i1" \notin triggerTodo \/ triggerFaults > 0)
    \/ part = "clock" /\ "i1" \notin triggerTodo

(* Mail ends.  Every message leaves the queue: it is delivered, or given   *)
(* up when it is tried after queuelifetime (qmail-send.c:1087); and        *)
(* however .qmail files and hosts elsewhere send a message around, no      *)
(* forwarding and no bouncing goes on for ever (Delivered-To).             *)
MailEnds ==
    part \in {"retry", "loops"} ~> \/ part = "retry" /\ gone = TwoMsgs
                                   \/ part = "loops" /\ copies = {}

(* Whoever waits for an answer gets it.  Every command of qmail-send to a  *)
(* spawner is answered while both live (spawn.c); qmail_close() returns,   *)
(* neither side waiting for ever on a full pipe, descriptor 6 or wait_pid; *)
(* no reply stays in the buffer while qmail-smtpd waits (saferead()); and  *)
(* an SMTP session ends with a report of qmail-remote.                     *)
Answered ==
    \A k \in {0, 1} :
        \/ part = "spawn" /\ spawnDel[k]
        \/ part = "queue" /\ pc = "body"
        \/ part = "smtpd" /\ smtpdSsout # <<>> /\ smtpdUp
        \/ part = "remote"
        ~>
        \/ part = "spawn" /\ ~spawnDel[k]
        \/ part = "queue" /\ pc \in {"done", "dead"}
        \/ part = "smtpd" /\ (smtpdSsout = <<>> \/ ~smtpdUp \/ smtpdC2s # <<>>)
        \/ part = "remote" /\ Sending!Done

(* What is left behind goes away.  Once qmail-send or a spawner has gone,  *)
(* on its way into its program too, nobody whom qmail-start started is     *)
(* left; a spawner without qmail-send ends after its last agent (spawn.c); *)
(* and the files that deliveries left in tmp/ are removed (maildir_clean). *)
NothingLeft ==
    \/ part = "start" /\ \E p \in {"send", "lspawn", "rspawn"} : state[p] = "gone"
    \/ part = "spawn" /\ ~alive
    \/ part = "maildir" /\ "p" \in DOMAIN tmp
    ~>
    \/ part = "start" /\ \A p \in Starting!Processes : ~Starting!Live(p)
    \/ part = "spawn" /\ spawnLoop = "exit" /\ \A k \in {0, 1} : child[k] = "none"
    \/ part = "maildir" /\ "p" \notin DOMAIN tmp
=============================================================================
