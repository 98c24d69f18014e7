------------------------------ MODULE CdbFile -------------------------------
(***************************************************************************)
(* qmail-newu and qmail-newmrh replace a cdb: they build a new file under  *)
(* a temporary name, fsync it and rename it.  Readers (qmail-lspawn,       *)
(* rcpthosts()) open the file and read it while all this goes on, and the  *)
(* machine may stop.  Files are inodes; a name leads to an inode, and an   *)
(* open descriptor keeps one.                                              *)
(***************************************************************************)
EXTENDS Cdb

CONSTANTS Inodes,
          NoInode,
          NoKey,       \* a line that makes no record: empty, or a comment
          MaxSource,   \* lines of the source file
          MaxBuilds    \* times the program is run

VARIABLES source,   \* users/assign or control/morercpthosts: its lines
          pc, line, \* the program, and the line it reads next
          recs,     \* the records it has added
          tmp, live,\* the inodes that cdb.tmp and cdb name
          inode,    \* contents: a whole cdb, or "part", and whether it is synced
          reader,   \* the inode a reader has open
          builds

vars == <<source, pc, line, recs, tmp, live, inode, reader, builds>>

Part == [recs |-> <<>>, final |-> <<>>]    \* anything that is not a whole cdb
Whole(file) == file.final # <<>>

Free == Inodes \ {tmp, live, reader}

Init ==
    /\ source = <<>> /\ pc = "idle" /\ line = 1 /\ recs = <<>>
    /\ tmp = NoInode
    /\ live \in Inodes
    /\ inode = [n \in Inodes |->
                  IF n = live THEN [file |-> Finish(<<>>), synced |-> TRUE]
                              ELSE [file |-> Part, synced |-> FALSE]]
    /\ reader = NoInode
    /\ builds = 0

-----------------------------------------------------------------------------
Edit ==
    /\ pc = "idle" /\ Len(source) < MaxSource
    /\ \E k \in Keys \cup {NoKey} : source' = Append(source, k)
    /\ UNCHANGED <<pc, line, recs, tmp, live, inode, reader, builds>>

\* open_trunc() makes cdb.tmp, or empties the one a failure has left.
Start ==
    /\ pc = "idle" /\ builds < MaxBuilds
    /\ builds' = builds + 1
    /\ \E n \in IF tmp = NoInode THEN Free ELSE {tmp} :
         /\ tmp' = n
         /\ inode' = [inode EXCEPT ![n] = [file |-> Part, synced |-> FALSE]]
    /\ recs' = <<>> /\ line' = 1
    /\ pc' = "read"
    /\ UNCHANGED <<source, live, reader>>

ReadLine ==
    /\ pc = "read" /\ line <= Len(source)
    /\ recs' = IF source[line] = NoKey THEN recs
               ELSE Added(recs, source[line], line)
    /\ line' = line + 1
    /\ UNCHANGED <<source, pc, tmp, live, inode, reader, builds>>

\* cdbmss_finish(): tables, and the header at last.
FinishFile ==
    /\ pc = "read" /\ line = Len(source) + 1
    /\ inode' = [inode EXCEPT ![tmp].file = Finish(recs)]
    /\ pc' = "written"
    /\ UNCHANGED <<source, line, recs, tmp, live, reader, builds>>

(* Mutant of Synced: the data need not be on disk.                         *)
SyncedNot == inode

Synced == [inode EXCEPT ![tmp].synced = TRUE]

Fsync ==
    /\ pc = "written"
    /\ inode' = Synced
    /\ pc' = "synced"
    /\ UNCHANGED <<source, line, recs, tmp, live, reader, builds>>

Rename ==
    /\ pc = "synced"
    /\ live' = tmp /\ tmp' = NoInode
    /\ pc' = "idle"
    /\ UNCHANGED <<source, line, recs, inode, reader, builds>>

\* die_reada(), die_format(), die_writet(), die_rename(): cdb.tmp stays.
Dies ==
    /\ pc # "idle"
    /\ pc' = "idle"
    /\ UNCHANGED <<source, line, recs, tmp, live, inode, reader, builds>>

\* The machine stops: what is not synced is damaged.
Crash ==
    /\ pc' = "idle" /\ reader' = NoInode
    /\ inode' = [n \in Inodes |-> IF inode[n].synced THEN inode[n]
                                  ELSE [inode[n] EXCEPT !.file = Part]]
    /\ UNCHANGED <<source, line, recs, tmp, live, builds>>

Open ==
    /\ reader = NoInode
    /\ reader' = live
    /\ UNCHANGED <<source, pc, line, recs, tmp, live, inode, builds>>

Close ==
    /\ reader # NoInode
    /\ reader' = NoInode
    /\ UNCHANGED <<source, pc, line, recs, tmp, live, inode, builds>>

Next == Edit \/ Start \/ ReadLine \/ FinishFile \/ Fsync \/ Rename \/ Dies
     \/ Crash \/ Open \/ Close

Spec == Init /\ [][Next]_vars

-----------------------------------------------------------------------------
(* "qmail-newu ensures that users/cdb is updated atomically": what a       *)
(* reader opens is a whole file, and stays one while the next is built and *)
(* when the machine stops.                                                 *)
AtomicUpdate ==
    \A n \in {live, reader} \ {NoInode} :
        Whole(inode[n].file) /\ n # tmp

(* The tables of the live file find the first record of every key and no   *)
(* record for any other key, whatever the hash values are and wherever a   *)
(* table wraps around; and half of every table stays free, so that a seek  *)
(* for a missing key ends at a free slot.                                  *)
TablesRight ==
    LET file == inode[live].file IN
    Whole(file) => SeekRight(file.recs) /\ HalfFull(file.recs)
=============================================================================
