----------------------------- MODULE QmailClean -----------------------------
(***************************************************************************)
(* qmail-clean.c: the only process that may remove mess/, intd/ and todo/  *)
(* files, on request of qmail-send.  A request names a message number and  *)
(* a kind: "foop" removes intd/ and then mess/, "todo" removes intd/ and   *)
(* then todo/.  The answer is "+", or "!" at the first unlink() that       *)
(* fails.  Requests and answers travel in two pipes, one at a time.        *)
(***************************************************************************)
EXTENDS QueueDir

CONSTANT PidLoop   \* requests between two scans of pid/ (30 in the source)

ASSUME PidLoopAssumption == PidLoop \in Nat

VARIABLES cpc,      \* where the loop of main() stands
          creq,     \* the request in the pipe or being served
          creply,   \* the answer in the pipe
          cloop     \* cleanuploop

cleanVars == <<cpc, creq, creply, cloop>>

Request(op, id) == [op |-> op, id |-> id]
Requests == [op : {"foop", "todo"}, id : Ids]
NoRequest == Request("none", NoId)

CleanTypeOK ==
    /\ cpc \in {"top", "read", "intd", "last", "dead"}
    /\ creq \in Requests \cup {NoRequest}
    /\ creply \in {"none", "+", "!"}
    /\ cloop \in 0 .. PidLoop

CleanInit ==
    /\ cpc = "top"
    /\ creq = NoRequest
    /\ creply = "none"
    /\ cloop = 0

-----------------------------------------------------------------------------
(* Top of the loop: every so often cleanuppid() removes the pid/ files     *)
(* whose atime is OSSIFIED or more ago.                                    *)
StalePids == {id \in Ids : Has(id, "pid") /\ age[id] >= OSSIFIED}

SkipPids ==
    /\ cpc = "top"
    /\ cloop > 0
    /\ cloop' = cloop - 1
    /\ cpc' = "read"
    /\ UNCHANGED <<creq, creply>>
    /\ UNCHANGED dirVars

(* Mutant of Rewound: one more than the loop counts down from.             *)
RewoundTooFar == PidLoop + 1

Rewound == PidLoop

CleanPids ==
    /\ cpc = "top"
    /\ cloop = 0
    /\ cloop' = Rewound
    /\ cpc' = "read"
    /\ files' = [id \in Ids |-> IF id \in StalePids THEN files[id] \ {"pid"} ELSE files[id]]
    /\ UNCHANGED <<creq, creply>>
    /\ UNCHANGED <<safe, sender, rcpts, undone, done, notes, age, faults>>

(* getln(): a request has come.                                            *)
ReadRequest ==
    /\ cpc = "read"
    /\ creq # NoRequest
    /\ cpc' = "intd"
    /\ UNCHANGED <<creq, creply, cloop>>
    /\ UNCHANGED dirVars

(* respond(): the answer goes into the pipe and the loop starts over.      *)
Respond(answer) ==
    /\ creply' = answer
    /\ creq' = NoRequest
    /\ cpc' = "top"
    /\ UNCHANGED cloop

(* The files a request removes, in this order.                             *)
Last(op) == IF op = "foop" THEN "mess" ELSE "todo"

(* Mutant of First: mess/ or todo/ goes before intd/.                      *)
FirstIsLast(op) == Last(op)

First(op) == "intd"

(* U("intd/",0), for either kind of request                                *)
UnlinkIntd ==
    /\ cpc = "intd"
    /\ cpc' = "last"
    /\ Unlink(creq.id, {First(creq.op)})
    /\ UNCHANGED <<creq, creply, cloop, faults>>

(* U("mess/",1) or U("todo/",0), then "+"                                  *)
UnlinkLast ==
    /\ cpc = "last"
    /\ Unlink(creq.id, {Last(creq.op)})
    /\ Respond("+")
    /\ UNCHANGED faults

(* unlink() fails with anything but error_noent                            *)
UnlinkFails ==
    /\ cpc \in {"intd", "last"}
    /\ Fault(1)
    /\ Respond("!")
    /\ UNCHANGED <<files, safe, sender, rcpts, undone, done, notes, age>>

(* The process is killed, or exits because its pipes are broken: anywhere  *)
(* in the loop, ...                                                        *)
CleanDies ==
    /\ cpc # "dead"
    /\ Fault(1)
    /\ cpc' = "dead"
    /\ UNCHANGED <<creq, creply, cloop>>
    /\ UNCHANGED <<files, safe, sender, rcpts, undone, done, notes, age>>

(* ... or with the request served and the answer not written.              *)
DiesUnanswered ==
    /\ cpc = "last"
    /\ Unlink(creq.id, {Last(creq.op)})
    /\ Fault(1)
    /\ cpc' = "dead"
    /\ UNCHANGED <<creq, creply, cloop>>

CleanNext ==
    \/ SkipPids \/ CleanPids \/ ReadRequest
    \/ UnlinkIntd \/ UnlinkLast \/ UnlinkFails
    \/ CleanDies \/ DiesUnanswered

-----------------------------------------------------------------------------
(* The pipe operations of qmail-send at the other end.                     *)

(* substdio_putflush(&sstoqc,...)                                          *)
PutRequest(op, id) ==
    /\ creq' = Request(op, id)
    /\ UNCHANGED <<cpc, creply, cloop>>

(* substdio_get(&ssfromqc,&ch,1) returns a character ...                   *)
TakeReply(answer) ==
    /\ creply = answer
    /\ creply' = "none"
    /\ UNCHANGED <<cpc, creq, cloop>>

(* ... or end of file.                                                     *)
ReplyEof ==
    /\ cpc = "dead"
    /\ creply = "none"
=============================================================================
