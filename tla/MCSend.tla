------------------------------- MODULE MCSend -------------------------------
(***************************************************************************)
(* The parts that qmail-send works with, on small instances: a behaviour   *)
(* is of one of them, and part says which. Squareroot is extended and      *)
(* keeps its names.                                                        *)
(***************************************************************************)
EXTENDS Squareroot, Sequences, TLC

CONSTANTS NoInode, NoKey,
    Injectors, HasNamedPipeBug1, MaxFaults,   \* Trigger
    MaxEdits, MaxHups, MaxErrors,   \* Controls
    Auto_spawn, PipeSize, Fates, MaxAborts   \* Spawn

VARIABLES part,   \* the component that this behaviour is of
    todo, ipc, fd, pipe, triggerLoop, pulled, triggerUnread, tododir, due,
    triggerFaults,   \* Trigger
    now, phase, left, recent, exitasap, pq, mtime, job, pass, gone, tries,
    undisturbed, retryFaults,   \* Retry
    heapP, len, bag,   \* Prioq
    files, meok, controlsPc, flagreadasap, newlocals, newvdoms, map, controlsUnread,
    refused, got, edits, hups, errors,   \* Controls
    source, cdbPc, line, recs, tmp, live, inode, reader, builds,   \* CdbFile
    rewritePc, recip, sender, ctl, addr, rewriteI, rwline,   \* Rewrite
    del, comm, dline, alive, cmds, reps, spawnLoop, rfds, parse, flagreading,
    spawnD, child, ends, fate, aborts,   \* Spawn
    logger, fds, pi, script, state, startFaults,   \* Start
    agent, reportPc, out, wstat, uid   \* SpawnReport

\* One message for each channel.
TwoMsgs == {"a", "b"}
ChanOf == [m \in TwoMsgs |-> IF m = "b" THEN 1 ELSE 0]
BirthOf == [m \in TwoMsgs |-> IF m = "a" THEN 0 ELSE 1]

MCBit == [k \in 0 .. J |-> 2 ^ k]
MCAges == 0 .. 300

\* u: a user; l: in locals; p: in percenthack; v: in virtualdomains.
Letters == {"u", "l", "p", "v", "@", "%", ".", "-"}
RecipsTo(max) == UNION {[1 .. n -> Letters \ {"-"}] : n \in 0 .. max}
Verp == <<"u", "-", "@", "v", "-", "@", "[", "]">>
Verps == {Verp, <<"u", "@", "l", "@", "v", "-", "@", "[", "]">>, <<"-", "@", "[", "]">>,
    <<"u", "-", "@", "[", "]">>, <<"@", "-", "@", "[", "]">>, <<"u", "@", "v">>, <<>>}
\* Entries of every kind, in two sets that meet each other's cases.
Wild == [key \in {<<"v">>, <<".", "v">>, <<"u", "@", "p">>, <<"u", ".", "v">>, <<"l">>} |->
            IF key = <<"u", ".", "v">> THEN <<>> ELSE <<"x", ToString(Len(key))>>]
Catchall == [key \in {<<>>, <<"p", ".", "v">>, <<".", "v">>, <<"u", "@", "v">>, <<"v">>} |->
            IF key \in {<<"v">>, <<".", "v">>} THEN <<>> ELSE <<"x", ToString(Len(key))>>]
ControlSets ==
    {[percenthack |-> h, locals |-> {<<"l">>, <<"u", ".", "l">>}, vdoms |-> v,
      envnoathost |-> <<"p">>] :
        h \in {{<<"p">>, <<"l">>}, {<<"v">>, <<>>}}, v \in {Wild, Catchall}}
\* Keys for a table, as bytes.
CdbKeys == {<<>>, <<97>>, <<98>>, <<97, 98>>, <<99, 98>>}

Pull == INSTANCE Trigger WITH
    loop <- triggerLoop, unread <- triggerUnread, faults <- triggerFaults
Retrying == INSTANCE Retry WITH
    Msgs <- TwoMsgs, Chan <- ChanOf, Birth <- BirthOf,
    Chanskip <- [c \in {0, 1} |-> c + 1], Lifetime <- 3, NumJobs <- 2,
    SLEEP_SYSFAIL <- 3, SLEEP_FUZZ <- 1, SLEEP_FOREVER <- 5, MaxTime <- 10,
    Faults <- {"open", "term", "utimes", "alarm", "crash", "clock"}, MaxFaults <- 2,
    faults <- retryFaults
Heap == INSTANCE Prioq WITH
    Times <- 1 .. 3, MaxLen <- 4, p <- heapP
Hup == INSTANCE Controls WITH
    pc <- controlsPc, unread <- controlsUnread
Building == INSTANCE CdbFile WITH
    Keys <- CdbKeys, Tables <- 2, HashBits <- 4, Inodes <- {"n1", "n2", "n3"},
    NoInode <- NoInode, NoKey <- NoKey, MaxSource <- 2, MaxBuilds <- 2, pc <- cdbPc
Rewriting == INSTANCE Rewrite WITH
    Chars <- Letters, Recips <- RecipsTo(5), Senders <- {Verp}, Controls <- ControlSets,
    pc <- rewritePc, i <- rewriteI
Verping == INSTANCE Rewrite WITH
    Chars <- Letters, Recips <- RecipsTo(3), Senders <- Verps,
    Controls <- {CHOOSE c \in ControlSets : TRUE}, pc <- rewritePc, i <- rewriteI
Spawning == INSTANCE SpawnProofs WITH
    loop <- spawnLoop, d <- spawnD
Starting == INSTANCE Start WITH
    Opens <- {{0, 1, 2}, {0, 1}, {0, 1, 2, 3, 7, 9}, {2, 3}},
    Loggers <- BOOLEAN, faults <- startFaults
Verdict == INSTANCE SpawnReport WITH
    MaxOut <- 5, LocalCodes <- {0, 71, 75, 99, 100, 111, 112}, pc <- reportPc

ASSUME RetryAssumption == Retrying!RetryConstants
ASSUME SpawnAssumption == Spawning!SpawnConstants

triggerVars == <<todo, ipc, fd, pipe, triggerLoop, pulled, triggerUnread, tododir, due,
        triggerFaults>>
retryVars == <<now, phase, left, recent, exitasap, pq, mtime, job, pass, gone, tries,
        undisturbed, retryFaults>>
heapVars == <<heapP, len, bag>>
controlsVars == <<files, meok, controlsPc, flagreadasap, newlocals, newvdoms, map, controlsUnread,
        refused, got, edits, hups, errors>>
cdbVars == <<source, cdbPc, line, recs, tmp, live, inode, reader, builds>>
rewriteVars == <<rewritePc, recip, sender, ctl, addr, rewriteI, rwline>>
spawnVars == <<del, comm, dline, alive, cmds, reps, spawnLoop, rfds, parse, flagreading,
        spawnD, child, ends, fate, aborts>>
startVars == <<logger, fds, pi, script, state, startFaults>>
reportVars == <<agent, reportPc, out, wstat, uid>>

MCInit ==
    /\ part \in {"trigger", "retry", "heap", "root", "controls", "cdb", "rewrite",
                "verp", "spawn", "start", "report"}
    /\ IF part = "trigger" THEN Pull!Init
       ELSE todo = 0 /\ ipc = 0 /\ fd = 0 /\ pipe = 0 /\ triggerLoop = 0 /\ pulled = 0
            /\ triggerUnread = 0 /\ tododir = 0 /\ due = 0 /\ triggerFaults = 0
    /\ IF part = "retry" THEN Retrying!Init
       ELSE now = 0 /\ phase = 0 /\ left = 0 /\ recent = 0 /\ exitasap = 0 /\ pq = 0
            /\ mtime = 0 /\ job = 0 /\ pass = 0 /\ gone = 0 /\ tries = 0
            /\ undisturbed = 0 /\ retryFaults = 0
    /\ IF part = "heap" THEN Heap!Init
       ELSE heapP = 0 /\ len = 0 /\ bag = 0
    /\ IF part = "root" THEN Init
       ELSE x = 0 /\ y = 0 /\ yy = 0 /\ j = 0
    /\ IF part = "controls" THEN Hup!Init
       ELSE files = 0 /\ meok = 0 /\ controlsPc = 0 /\ flagreadasap = 0 /\ newlocals = 0
            /\ newvdoms = 0 /\ map = 0 /\ controlsUnread = 0 /\ refused = 0 /\ got = 0
            /\ edits = 0 /\ hups = 0 /\ errors = 0
    /\ IF part = "cdb" THEN Building!Init
       ELSE source = 0 /\ cdbPc = 0 /\ line = 0 /\ recs = 0 /\ tmp = 0 /\ live = 0
            /\ inode = 0 /\ reader = 0 /\ builds = 0
    /\ IF part = "rewrite" THEN Rewriting!Init
       ELSE IF part = "verp" THEN Verping!Init
       ELSE rewritePc = 0 /\ recip = 0 /\ sender = 0 /\ ctl = 0 /\ addr = 0
            /\ rewriteI = 0 /\ rwline = 0
    /\ IF part = "spawn" THEN Spawning!Init
       ELSE del = 0 /\ comm = 0 /\ dline = 0 /\ alive = 0 /\ cmds = 0 /\ reps = 0
            /\ spawnLoop = 0 /\ rfds = 0 /\ parse = 0 /\ flagreading = 0 /\ spawnD = 0
            /\ child = 0 /\ ends = 0 /\ fate = 0 /\ aborts = 0
    /\ IF part = "start" THEN Starting!Init
       ELSE logger = 0 /\ fds = 0 /\ pi = 0 /\ script = 0 /\ state = 0
            /\ startFaults = 0
    /\ IF part = "report" THEN Verdict!Init
       ELSE agent = 0 /\ reportPc = 0 /\ out = 0 /\ wstat = 0 /\ uid = 0

\* All other components are switched off.
mcOthers(which) ==
    /\ part = which /\ UNCHANGED part
    /\ IF which = "trigger" THEN TRUE ELSE UNCHANGED triggerVars
    /\ IF which = "retry" THEN TRUE ELSE UNCHANGED retryVars
    /\ IF which = "heap" THEN TRUE ELSE UNCHANGED heapVars
    /\ IF which = "root" THEN TRUE ELSE UNCHANGED vars
    /\ IF which = "controls" THEN TRUE ELSE UNCHANGED controlsVars
    /\ IF which = "cdb" THEN TRUE ELSE UNCHANGED cdbVars
    /\ IF which \in {"rewrite", "verp"} THEN TRUE ELSE UNCHANGED rewriteVars
    /\ IF which = "spawn" THEN TRUE ELSE UNCHANGED spawnVars
    /\ IF which = "start" THEN TRUE ELSE UNCHANGED startVars
    /\ IF which = "report" THEN TRUE ELSE UNCHANGED reportVars

MCNext ==
    \/ mcOthers("trigger") /\ Pull!Next
    \/ mcOthers("retry") /\ Retrying!Next
    \/ mcOthers("heap") /\ Heap!Next
    \/ mcOthers("root") /\ Next
    \/ mcOthers("controls") /\ Hup!Next
    \/ mcOthers("cdb") /\ Building!Next
    \/ mcOthers("rewrite") /\ Rewriting!Next
    \/ mcOthers("verp") /\ Verping!Next
    \/ mcOthers("spawn") /\ Spawning!Next
    \/ mcOthers("start") /\ Starting!Next
    \/ mcOthers("report") /\ Verdict!Next

mcvars == <<part, triggerVars, retryVars, heapVars, vars, controlsVars, cdbVars,
        rewriteVars, spawnVars, startVars, reportVars>>

MCSpec == MCInit /\ [][MCNext]_mcvars

-----------------------------------------------------------------------------
(* What wakes qmail-send is not lost.  While nothing has failed, it never  *)
(* sleeps with a message in todo/ whose qmail-queue has pulled the         *)
(* trigger: close and reopen (trigger.c:13) lose no wake-up.  And no HUP   *)
(* is lost: after the last one it has what the control files have, or has  *)
(* said that it cannot, and locals and virtualdomains in use come from the *)
(* same reading although either file may be gone at any time               *)
(* (qmail-send.c:1484, 1575).                                              *)
NoLostWakeup ==
    /\ part = "trigger" => Pull!NoLostWakeup
    /\ part = "controls" => Hup!Together /\ Hup!Current

(* The retry schedule.  The nth try of a message is never made before the  *)
(* age of ((n - 1) * chanskip)^2 unless somebody disturbed its times;      *)
(* select() never sleeps past a message that is due and could be opened;   *)
(* and whatever the clock does, the next try of a message is later than    *)
(* the one that is made (qmail-send.c:1018, 1047).                         *)
Scheduled ==
    /\ [](part = "retry" => Retrying!Spaced /\ Retrying!OnTime)
    /\ [][part = "retry" => Retrying!Later]_retryVars

(* What is made or replaced while it is in use.  What a reader opens is a  *)
(* whole cdb, and stays one while the next is built and when the machine   *)
(* stops (qmail-newu.c); its tables find the first record of every key,    *)
(* and none for another key, wherever a table wraps around (cdb_seek.c).   *)
(* The heap of prioq.c has what was inserted and not removed, its least    *)
(* element first.                                                          *)
AtomicUpdate ==
    /\ part = "cdb" => Building!AtomicUpdate /\ Building!TablesRight
    /\ part = "heap" => Heap!HeapIsBag

(* What the manuals say.  rewrite() sends a recipient where percenthack,   *)
(* locals and virtualdomains together say (qmail-send.8), and the sender   *)
(* of each copy tells the recipient it was for exactly when the envelope   *)
(* sender asks for that (senderadd()).  What qmail-rspawn makes of any     *)
(* output of qmail-remote, cut off or not, is what qmail-remote(8) says of *)
(* it; and a local delivery succeeds or bounces only when qmail-local says *)
(* so, or can never be started (qmail-lspawn.c).                           *)
AsDocumented ==
    /\ [](part = "rewrite" => Rewriting!AsDocumented)
    /\ [](part = "verp" => Verping!VerpTold)
    /\ [](part = "report" => Verdict!RemoteVerdict)
    /\ [][part = "report" => Verdict!LocalVerdict]_reportVars

(* Reports.  One of success or of permanent failure says how the agent of  *)
(* this very command ended; there is one report for a delivery and none    *)
(* for a slot not in use; out of memory aborts the command it happened in  *)
(* and no other one (spawn.c).                                             *)
Truthful ==
    part = "spawn" => Spawning!Truthful /\ Spawning!OneReport /\ Spawning!AbortsOne

(* Every program that qmail-start starts has the ends of the pipes where   *)
(* it looks for them, and no other end.                                    *)
Wired == part = "start" => Starting!Wired
=============================================================================
