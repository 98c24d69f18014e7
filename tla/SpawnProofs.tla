---------------------------- MODULE SpawnProofs -----------------------------
(***************************************************************************)
(* spawn.c reports truthfully, once, and aborts one command at a time, for *)
(* every concurrency and every size of its pipes.                          *)
(*                                                                         *)
(* The argument follows the bytes.  The command pipe with what qmail-send  *)
(* has not written yet is cut into commands by the parser's own rule; each *)
(* number that starts a command, or that is being parsed, is of a slot     *)
(* that waits for an agent, and no two are the same (Stream, Command).  A  *)
(* slot that has an agent has its status or still holds the end of its     *)
(* pipe, never both, so a slot found at end of file has its status         *)
(* (SlotsRight).  The report pipe with what qmail-send has read is a       *)
(* sequence of whole reports, of slots in use without an agent, that say   *)
(* what the agent's status was (Reports).                                  *)
(***************************************************************************)
EXTENDS Spawn, FiniteSetTheorems, TLAPS

(* What the constants of an instance have to be.                           *)
SpawnConstants ==
    /\ Auto_spawn \in Nat /\ PipeSize \in Nat /\ "none" \notin Fates

\* The bytes of commands that spawn.c has not read yet.
Total == Len(cmds) + Len(comm)
At(k) == IF k <= Len(cmds) THEN cmds[k] ELSE comm[k - Len(cmds)]

Running == loop \in {"docmd", "forked"}
\* A command is being read or run.
Current == Running \/ parse.stage # 0
\* The stage the parser is in when it reads on, and after a byte.
Coming == IF Running THEN 0 ELSE parse.stage
After(s, ch) == IF s = 0 THEN 1 ELSE IF ch # NUL THEN s ELSE IF s = 3 THEN 0 ELSE s + 1

Reported(i) == \E k \in PendingReports : Pending[k] = i
\* A delivery that has been asked for and has had no agent yet.
Awaited(i) ==
    i \in Slots /\ del[i] /\ ~d[i].used /\ fate[i] = "none" /\ child[i] = "none" /\ ~Reported(i)

\* st[k]: the parser's stage after byte k.  Its bytes are whole commands.
Stages(st) ==
    /\ st \in [0 .. Total -> 0 .. 3] /\ st[0] = Coming /\ st[Total] = 0
    /\ \A k \in 1 .. Total : st[k] = After(st[k - 1], At(k))
\* Every number that starts a command is of a delivery of its own.
Named(st) ==
    \A k \in 1 .. Total : st[k - 1] = 0 =>
        /\ Awaited(At(k))
        /\ (Current => At(k) # parse.delnum)
        /\ \A m \in 1 .. Total : st[m - 1] = 0 /\ At(m) = At(k) => m = k
Stream == \E st : Stages(st) /\ Named(st)

SlotTypes == [used : BOOLEAN, pid : BOOLEAN, wstat : Fates \cup {"ok", "none"}]
ParseTypes == [stage : 0 .. 3, delnum : Int, flagabort : BOOLEAN]
Types ==
    /\ del \in [Slots -> BOOLEAN]
    /\ comm \in Seq(Int) /\ dline \in Seq(Int) /\ cmds \in Seq(Int) /\ reps \in Seq(Int)
    /\ parse \in ParseTypes
    /\ d \in [Slots -> SlotTypes]
    /\ child \in [Slots -> {"none", "forked", "running", "zombie"}]
    /\ fate \in [Slots -> Fates \cup {"none"}]
    /\ ends \in [Slots -> SUBSET (Slots \cup {SPAWN, ORPHAN})]
    /\ rfds \in SUBSET (Slots \cup {CMD})

\* An agent in a slot has given its status, or the end of its pipe is held.
Slot(i) ==
    /\ d[i].used => del[i] /\ ~Reported(i) /\ (Current => i # parse.delnum)
    /\ d[i].used /\ d[i].pid => child[i] # "none" /\ SPAWN \in ends[i]
    /\ d[i].used /\ ~d[i].pid => child[i] = "none" /\ SPAWN \notin ends[i]
           /\ d[i].wstat = fate[i] /\ fate[i] # "none"
    /\ child[i] # "none" => (d[i].used /\ d[i].pid) \/ (loop = "forked" /\ i = parse.delnum)
    /\ child[i] = "zombie" => fate[i] # "none"
    /\ i \in rfds => d[i].used /\ ~d[i].pid
SlotsRight == \A i \in Slots : Slot(i)

\* The command that is being read or run.
Command ==
    /\ Current /\ loop # "forked" => Awaited(parse.delnum)
    /\ loop = "forked" => LET i == parse.delnum IN
        /\ i \in Slots /\ del[i] /\ ~d[i].used /\ ~Reported(i)
        /\ child[i] # "none" /\ SPAWN \in ends[i] /\ ~parse.flagabort
    /\ parse.flagabort => Current
    /\ Running => parse.stage = 3
    /\ loop = "slots" => CMD \notin rfds

\* Whole reports, one at most for a delivery.
Reports ==
    /\ Len(dline) < 3 /\ Len(Pending) % 3 = 0
    /\ \A k \in 1 .. Len(Pending) :
        /\ k % 3 = 1 => LET i == Pending[k] IN
            /\ i \in Slots /\ del[i] /\ ~d[i].used /\ child[i] = "none"
            /\ Pending[k + 1] = Letter(fate[i])
        /\ k % 3 = 2 => Pending[k] # NUL
        /\ k % 3 = 0 => Pending[k] = NUL
    /\ \A k, m \in PendingReports : Pending[m] = Pending[k] => m = k

\* Deliveries that ended without an agent.
Aborted == {i \in Slots : fate[i] = "none" /\ Reported(i)}
Aborts ==
    aborts \in Nat /\ Cardinality(Aborted) + (IF parse.flagabort THEN 1 ELSE 0) <= aborts

Live == Types /\ Stream /\ SlotsRight /\ Command /\ Reports /\ Aborts

\* Once qmail-send is gone nothing is reported any more.
SpawnInv == aborts \in Nat /\ IF alive THEN Live ELSE dline = <<>> /\ reps = <<>>

-----------------------------------------------------------------------------
\* Reports: what has been read, then what is in the pipe.
LEMMA PendingLen ==
    ASSUME Types
    PROVE  /\ Len(Pending) = Len(dline) + Len(reps) /\ Len(Pending) \in Nat
           /\ Pending \in Seq(Int)
           /\ \A k \in 1 .. Len(Pending) :
                Pending[k] = IF k <= Len(dline) THEN dline[k] ELSE reps[k - Len(dline)]
BY DEF Types, Pending

LEMMA PendingLenNext ==
    ASSUME Types'
    PROVE  /\ Len(Pending') = Len(dline') + Len(reps') /\ Len(Pending') \in Nat
           /\ Pending' \in Seq(Int)
           /\ \A k \in 1 .. Len(Pending') :
                Pending'[k] = IF k <= Len(dline') THEN dline'[k] ELSE reps'[k - Len(dline')]
BY DEF Types, Pending

LEMMA PendingAt ==
    ASSUME Types, NEW l \in Nat, NEW r \in Nat, l = Len(dline), r = Len(reps)
    PROVE  /\ Len(Pending) = l + r
           /\ \A k \in 1 .. l : Pending[k] = dline[k]
           /\ \A k \in 1 .. r : Pending[l + k] = reps[k]
BY DEF Types, Pending

LEMMA PendingAtNext ==
    ASSUME Types', NEW l \in Nat, NEW r \in Nat, l = Len(dline'), r = Len(reps')
    PROVE  /\ Len(Pending') = l + r
           /\ \A k \in 1 .. l : Pending'[k] = dline'[k]
           /\ \A k \in 1 .. r : Pending'[l + k] = reps'[k]
BY DEF Types, Pending

\* The same reports, of slots that nothing happens to.
LEMMA SameReports ==
    ASSUME Types, Types', Reports,
           Len(dline') < 3, Len(dline') + Len(reps') = Len(dline) + Len(reps),
           \A k \in 1 .. Len(Pending) : Pending'[k] = Pending[k],
           \A i \in Slots : Reported(i) =>
                /\ del'[i] = del[i] /\ d'[i].used = d[i].used /\ child'[i] = child[i]
                /\ fate'[i] = fate[i]
    PROVE  Reports' /\ \A i : Reported(i)' <=> Reported(i)
<1>1. Len(Pending') = Len(Pending) /\ Len(Pending) \in Nat
  BY PendingLen, PendingLenNext
<1>2. PendingReports' = PendingReports
  BY <1>1 DEF PendingReports
<1>3. \A i : Reported(i)' <=> Reported(i)
  BY <1>2, <1>1 DEF Reported, PendingReports
<1>4. ASSUME NEW k \in 1 .. Len(Pending), k % 3 = 1
      PROVE  /\ Pending'[k] \in Slots /\ del'[Pending'[k]] /\ ~d'[Pending'[k]].used
             /\ child'[Pending'[k]] = "none"
             /\ Pending'[k + 1] = Letter(fate'[Pending'[k]])
  <2>1. Reported(Pending[k]) /\ Pending[k] \in Slots
    BY <1>4 DEF Reported, PendingReports, Reports
  <2>2. k + 1 \in 1 .. Len(Pending)
    BY <1>4, <1>1 DEF Reports
  <2>3. /\ del[Pending[k]] /\ ~d[Pending[k]].used /\ child[Pending[k]] = "none"
        /\ Pending[k + 1] = Letter(fate[Pending[k]])
    BY <1>4 DEF Reports
  <2> QED
    BY <2>1, <2>2, <2>3
<1>5. \A k, m \in PendingReports' : Pending'[m] = Pending'[k] => m = k
  <2> SUFFICES ASSUME NEW k \in PendingReports, NEW m \in PendingReports,
                      Pending'[m] = Pending'[k]
               PROVE  m = k
    BY <1>2
  <2>1. Pending'[k] = Pending[k] /\ Pending'[m] = Pending[m]
    BY DEF PendingReports
  <2> QED
    BY <2>1 DEF Reports
<1> QED
  BY <1>1, <1>3, <1>4, <1>5 DEF Reports

\* The same bytes, with the parser at the same place of a command.
LEMMA SameStream ==
    ASSUME Stream, Total' = Total, Total \in Nat,
           \A k \in 1 .. Total : At(k)' = At(k),
           Coming' = Coming, Current' <=> Current,
           Current => parse'.delnum = parse.delnum,
           \A i : Awaited(i) /\ (Current => i # parse.delnum) => Awaited(i)'
    PROVE  Stream'
<1>1. PICK st : Stages(st) /\ Named(st)
  BY DEF Stream
<1>2. Stages(st)'
  BY <1>1 DEF Stages
<1>3. Named(st)'
  <2> SUFFICES ASSUME NEW k \in 1 .. Total, st[k - 1] = 0
               PROVE  /\ Awaited(At(k))'
                      /\ (Current => At(k) # parse.delnum)
                      /\ \A m \in 1 .. Total : st[m - 1] = 0 /\ At(m) = At(k) => m = k
    BY DEF Named
  <2>1. /\ Awaited(At(k))
        /\ Current => At(k) # parse.delnum
        /\ \A m \in 1 .. Total : st[m - 1] = 0 /\ At(m) = At(k) => m = k
    BY <1>1 DEF Named
  <2> QED
    BY <2>1
<1> QED
  BY <1>2, <1>3 DEF Stream

\* The stages of a whole command.
LEMMA WholeCommand ==
    ASSUME NEW i \in Int, NEW c \in Seq(Int),
           c \in {<<i, X, NUL, NUL, X, NUL>>, <<i, X, NUL, X, NUL, X, NUL>>}
    PROVE  /\ c[1] = i
           /\ \E tab \in [0 .. Len(c) -> 0 .. 3] :
                /\ tab[0] = 0 /\ tab[Len(c)] = 0 /\ Len(c) > 0
                /\ \A k \in 1 .. Len(c) : tab[k] = After(tab[k - 1], c[k])
                /\ \A k \in 1 .. Len(c) : tab[k - 1] = 0 => k = 1
<1>1. CASE c = <<i, X, NUL, NUL, X, NUL>>
  <2>1. PICK tab : tab = [k \in 0 .. 6 |-> CASE k \in {0, 6} -> 0 [] k \in {1, 2} -> 1
                                              [] k = 3 -> 2 [] OTHER -> 3]
    OBVIOUS
  <2>2. /\ tab[0] = 0 /\ tab[1] = 1 /\ tab[2] = 1 /\ tab[3] = 2 /\ tab[4] = 3 /\ tab[5] = 3
        /\ tab[6] = 0
    BY <2>1
  <2>3. /\ Len(c) = 6 /\ c[1] = i /\ c[2] = 120 /\ c[3] = 0 /\ c[4] = 0 /\ c[5] = 120 /\ c[6] = 0
    BY <1>1 DEF X, NUL
  <2>4. \A k \in 1 .. 6 : tab[k] = After(tab[k - 1], c[k]) /\ (tab[k - 1] = 0 => k = 1)
    <3> SUFFICES ASSUME NEW k \in 1 .. 6
                 PROVE  tab[k] = After(tab[k - 1], c[k]) /\ (tab[k - 1] = 0 => k = 1)
      OBVIOUS
    <3>1. k = 1 \/ k = 2 \/ k = 3 \/ k = 4 \/ k = 5 \/ k = 6
      OBVIOUS
    <3> QED
      BY <3>1, <2>2, <2>3 DEF After, NUL
  <2>5. tab \in [0 .. 6 -> 0 .. 3]
    BY <2>1
  <2>6. tab \in [0 .. Len(c) -> 0 .. 3] /\ tab[0] = 0 /\ tab[Len(c)] = 0 /\ Len(c) > 0
    BY <2>2, <2>3, <2>5
  <2>7. /\ \A k \in 1 .. Len(c) : tab[k] = After(tab[k - 1], c[k])
        /\ \A k \in 1 .. Len(c) : tab[k - 1] = 0 => k = 1
    BY <2>3, <2>4
  <2> QED
    BY <2>3, <2>6, <2>7
<1>2. CASE c = <<i, X, NUL, X, NUL, X, NUL>>
  <2>1. PICK tab : tab = [k \in 0 .. 7 |-> CASE k \in {0, 7} -> 0 [] k \in {1, 2} -> 1
                                              [] k \in {3, 4} -> 2 [] OTHER -> 3]
    OBVIOUS
  <2>2. /\ tab[0] = 0 /\ tab[1] = 1 /\ tab[2] = 1 /\ tab[3] = 2 /\ tab[4] = 2 /\ tab[5] = 3
        /\ tab[6] = 3 /\ tab[7] = 0
    BY <2>1
  <2>3. /\ Len(c) = 7 /\ c[1] = i /\ c[2] = 120 /\ c[3] = 0 /\ c[4] = 120 /\ c[5] = 0
        /\ c[6] = 120 /\ c[7] = 0
    BY <1>2 DEF X, NUL
  <2>4. \A k \in 1 .. 7 : tab[k] = After(tab[k - 1], c[k]) /\ (tab[k - 1] = 0 => k = 1)
    <3> SUFFICES ASSUME NEW k \in 1 .. 7
                 PROVE  tab[k] = After(tab[k - 1], c[k]) /\ (tab[k - 1] = 0 => k = 1)
      OBVIOUS
    <3>1. k = 1 \/ k = 2 \/ k = 3 \/ k = 4 \/ k = 5 \/ k = 6 \/ k = 7
      OBVIOUS
    <3> QED
      BY <3>1, <2>2, <2>3 DEF After, NUL
  <2>5. tab \in [0 .. 7 -> 0 .. 3]
    BY <2>1
  <2>6. tab \in [0 .. Len(c) -> 0 .. 3] /\ tab[0] = 0 /\ tab[Len(c)] = 0 /\ Len(c) > 0
    BY <2>2, <2>3, <2>5
  <2>7. /\ \A k \in 1 .. Len(c) : tab[k] = After(tab[k - 1], c[k])
        /\ \A k \in 1 .. Len(c) : tab[k - 1] = 0 => k = 1
    BY <2>3, <2>4
  <2> QED
    BY <2>3, <2>6, <2>7
<1>3. c = <<i, X, NUL, NUL, X, NUL>> \/ c = <<i, X, NUL, X, NUL, X, NUL>>
  OBVIOUS
<1> QED
  BY <1>1, <1>2, <1>3

\* del_start().
LEMMA AskTypes ==
    ASSUME SpawnConstants, Types, Ask
    PROVE  Types'
<1>1. PICK i \in Slots :
        /\ ~del[i] /\ \A k \in Slots : k < i => del[k]
        /\ del' = [del EXCEPT ![i] = TRUE]
        /\ fate' = [fate EXCEPT ![i] = "none"]
        /\ comm' \in {<<i, X, NUL, NUL, X, NUL>>, <<i, X, NUL, X, NUL, X, NUL>>}
  BY DEF Ask
<1>2. del' \in [Slots -> BOOLEAN] /\ fate' \in [Slots -> Fates \cup {"none"}]
  BY <1>1 DEF Types
<1>3. comm' \in Seq(Int)
  <2>1. i \in Int /\ X \in Int /\ NUL \in Int
    BY DEF SpawnConstants, X, NUL, Slots
  <2>2. <<i, X, NUL, NUL, X, NUL>> \in Seq(Int) /\ <<i, X, NUL, X, NUL, X, NUL>> \in Seq(Int)
    BY <2>1
  <2> QED
    BY <1>1, <2>2
<1> QED
  BY <1>2, <1>3 DEF Ask, Types, spawnVars

LEMMA AskSteps ==
    ASSUME SpawnConstants, Live, alive, Ask
    PROVE  Live'
<1>1. PICK i \in Slots :
        /\ ~del[i]
        /\ del' = [del EXCEPT ![i] = TRUE]
        /\ fate' = [fate EXCEPT ![i] = "none"]
        /\ comm' \in {<<i, X, NUL, NUL, X, NUL>>, <<i, X, NUL, X, NUL, X, NUL>>}
  BY DEF Ask
<1>2. /\ comm = <<>> /\ dline' = dline /\ cmds' = cmds /\ reps' = reps /\ child' = child
      /\ ends' = ends /\ aborts' = aborts /\ loop' = loop /\ rfds' = rfds
      /\ parse' = parse /\ d' = d
  BY DEF Ask, spawnVars
<1>t. Types /\ Types'
  BY AskTypes DEF Live
<1>3. \A j \in Slots : j # i => del'[j] = del[j] /\ fate'[j] = fate[j]
  BY <1>1, <1>t DEF Types
<1>4. del'[i] /\ fate'[i] = "none"
  BY <1>1, <1>t DEF Types
<1>5. ~Reported(i)
  BY <1>1 DEF Live, Reports, Reported, PendingReports
<1>6. ~d[i].used /\ child[i] = "none"
  BY <1>1 DEF Live, SlotsRight, Slot, Command
<1>7. Current => i # parse.delnum
  BY <1>1 DEF Live, Command, Awaited, Current
<1>8. Reports' /\ \A j : Reported(j)' <=> Reported(j)
  <2>1. Pending' = Pending
    BY <1>2 DEF Pending
  <2> QED
    BY <1>t, <1>2, <1>3, <1>5, <2>1, SameReports DEF Live, Reports
<1>9. \A j : Awaited(j) => Awaited(j)' /\ j # i
  BY <1>1, <1>2, <1>3, <1>8 DEF Awaited
<1>10. Awaited(i)'
  BY <1>2, <1>4, <1>5, <1>6, <1>8 DEF Awaited
<1>11. Stream'
  <2>1. PICK st : Stages(st) /\ Named(st)
    BY DEF Live, Stream
  <2>2. PICK n \in Nat : n = Len(cmds)
    BY <1>t DEF Types
  <2>3. Total = n /\ \A k \in 1 .. n : At(k)' = At(k) /\ At(k) = cmds[k]
    BY <1>2, <2>2 DEF Total, At
  <2>4. Coming' = Coming /\ (Current' <=> Current)
    BY <1>2 DEF Coming, Current, Running
  <2>5. i \in Int /\ comm' \in Seq(Int)
    BY <1>t DEF SpawnConstants, Slots, Types
  <2>6. PICK tab \in [0 .. Len(comm') -> 0 .. 3] :
            /\ tab[0] = 0 /\ tab[Len(comm')] = 0 /\ Len(comm') > 0
            /\ \A k \in 1 .. Len(comm') : tab[k] = After(tab[k - 1], comm'[k])
            /\ \A k \in 1 .. Len(comm') : tab[k - 1] = 0 => k = 1
    BY <1>1, <2>5, WholeCommand
  <2>7. comm'[1] = i
    BY <1>1, <2>5, WholeCommand
  <2>8. PICK l \in Nat : l = Len(comm') /\ l > 0
    BY <2>5, <2>6
  <2>9. PICK tt : tt = [k \in 0 .. n + l |-> IF k <= n THEN st[k] ELSE tab[k - n]]
    OBVIOUS
  <2>10. Total' = n + l /\ \A k \in n + 1 .. n + l : At(k)' = comm'[k - n]
    BY <1>2, <2>2, <2>8 DEF Total, At
  <2>11. \A k \in 0 .. n : tt[k] = st[k]
    BY <2>9, <2>8, <2>2
  <2>12. st[n] = 0
    BY <2>1, <2>3 DEF Stages
  <2>13. \A k \in n .. n + l : tt[k] = tab[k - n]
    BY <2>9, <2>12, <2>6, <2>8, <2>2
  <2>14. Stages(tt)'
    <3>1. tt \in [0 .. n + l -> 0 .. 3]
      <4>1. \A k \in 0 .. n : st[k] \in 0 .. 3
        BY <2>1, <2>3 DEF Stages
      <4>2. \A k \in 0 .. l : tab[k] \in 0 .. 3
        BY <2>6, <2>8
      <4> QED
        BY <2>9, <4>1, <4>2
    <3>2. tt[0] = Coming /\ tt[n + l] = 0
      BY <2>11, <2>13, <2>1, <2>6, <2>8 DEF Stages
    <3>3. \A k \in 1 .. n : tt[k] = After(tt[k - 1], At(k)')
      BY <2>1, <2>3, <2>11 DEF Stages
    <3>4. \A k \in n + 1 .. n + l : tt[k] = After(tt[k - 1], At(k)')
      BY <2>13, <2>10, <2>6, <2>8
    <3> QED
      BY <3>1, <3>2, <3>3, <3>4, <2>10, <2>4 DEF Stages
  <2>15. \A k \in 1 .. n + l : tt[k - 1] = 0 => k = n + 1 \/ (k \in 1 .. n /\ st[k - 1] = 0)
    BY <2>11, <2>13, <2>6, <2>8
  <2>16. At(n + 1)' = i
    BY <2>10, <2>7, <2>8
  <2>17. Named(tt)'
    <3>1. \A k \in 1 .. n : st[k - 1] = 0 =>
              /\ Awaited(At(k))
              /\ (Current => At(k) # parse.delnum)
              /\ \A m \in 1 .. n : st[m - 1] = 0 /\ At(m) = At(k) => m = k
      BY <2>1, <2>3 DEF Named
    <3>2. \A k \in 1 .. n + l : tt[k - 1] = 0 =>
              /\ Awaited(At(k))'
              /\ (Current => At(k)' # parse.delnum)
              /\ \A m \in 1 .. n + l : tt[m - 1] = 0 /\ At(m)' = At(k)' => m = k
      BY <3>1, <2>15, <2>16, <2>3, <1>7, <1>9, <1>10
    <3> QED
      BY <3>2, <2>10, <2>4, <1>2 DEF Named
  <2> QED
    BY <2>14, <2>17 DEF Stream
<1>12. SlotsRight'
  <2>1. \A j \in Slots : Slot(j)
    BY DEF Live, SlotsRight
  <2>2. Current' <=> Current
    BY <1>2 DEF Current, Running
  <2>3. \A j \in Slots : Slot(j)'
    BY <2>1, <2>2, <1>2, <1>3, <1>4, <1>5, <1>6, <1>7, <1>8 DEF Slot
  <2> QED
    BY <2>3 DEF SlotsRight, Slots
<1>13. Command'
  BY <1>1, <1>2, <1>3, <1>8, <1>9 DEF Live, Command, Current, Running
<1>14. Aborts'
  <2>1. Aborted' = Aborted
    BY <1>3, <1>5, <1>8 DEF Aborted
  <2> QED
    BY <2>1, <1>2 DEF Aborts, Live
<1> QED
  BY <1>t, <1>8, <1>11, <1>12, <1>13, <1>14 DEF Live

\* A step that reads and writes no pipe, and lets alone what waits for its number
\* and what has been reported.
LEMMA Quiet ==
    ASSUME SpawnConstants, Live, Types', SlotsRight', Command',
           UNCHANGED <<del, comm, dline, cmds, reps, parse, aborts>>,
           Running' <=> Running,
           \A i \in Slots : child[i] = "none" /\ ~d[i].used /\ ~(Current /\ i = parse.delnum) =>
                d'[i].used = d[i].used /\ child'[i] = child[i] /\ fate'[i] = fate[i]
    PROVE  Live'
<1>1. Types
  BY DEF Live
<1>2. \A i : Reported(i) =>
            i \in Slots /\ child[i] = "none" /\ ~d[i].used /\ ~(Current /\ i = parse.delnum)
  <2>1. \A i : Reported(i) => i \in Slots /\ child[i] = "none" /\ ~d[i].used
    BY DEF Live, Reports, Reported, PendingReports
  <2>2. Current => ~Reported(parse.delnum)
    BY DEF Live, Command, Awaited
  <2> QED
    BY <2>1, <2>2
<1>3. Reports' /\ \A i : Reported(i)' <=> Reported(i)
  <2>1. Pending' = Pending
    BY DEF Pending
  <2> QED
    BY <1>1, <1>2, <2>1, SameReports DEF Live, Reports
<1>4. \A i : Awaited(i) /\ (Current => i # parse.delnum) => Awaited(i)'
  BY <1>3 DEF Awaited
<1>5. /\ Total' = Total /\ Total \in Nat /\ Coming' = Coming /\ (Current' <=> Current)
      /\ \A k \in 1 .. Total : At(k)' = At(k)
  BY <1>1 DEF Types, Total, At, Coming, Current
<1>6. Stream'
  BY <1>4, <1>5, SameStream DEF Live
<1>7. Aborted' = Aborted
  BY <1>2, <1>3 DEF Aborted
<1>8. Aborts'
  BY <1>7 DEF Aborts, Live
<1> QED
  BY <1>3, <1>6, <1>8 DEF Live

\* A dead child: its status is known, its end of the pipe let go.
LEMMA SigchldSteps ==
    ASSUME SpawnConstants, Live, alive, Sigchld
    PROVE  Live'
<1> DEFINE dead == {i \in Slots : child[i] = "zombie"}
           known == {i \in dead : d[i].used /\ d[i].pid}
<1>1. /\ loop = "select" /\ Types
      /\ child' = [i \in Slots |-> IF i \in dead THEN "none" ELSE child[i]]
      /\ d' = [i \in Slots |-> IF i \in known
                  THEN [d[i] EXCEPT !.pid = FALSE, !.wstat = fate[i]] ELSE d[i]]
      /\ ends' = [i \in Slots |-> IF i \in known THEN ends[i] \ {SPAWN} ELSE ends[i]]
  BY DEF Sigchld, Unblocked, Live
<1>2. /\ del' = del /\ comm' = comm /\ dline' = dline /\ cmds' = cmds /\ reps' = reps
      /\ loop' = loop /\ rfds' = rfds /\ parse' = parse /\ fate' = fate /\ aborts' = aborts
  BY DEF Sigchld, sendVars
<1>3. Types'
  BY <1>1, <1>2 DEF Types, SlotTypes
<1>4. known = dead
  BY <1>1 DEF Live, SlotsRight, Slot
<1>5. \A i \in Slots :
        IF child[i] = "zombie"
        THEN /\ d[i].used /\ d'[i].used /\ ~d'[i].pid /\ d'[i].wstat = fate[i]
             /\ child'[i] = "none" /\ SPAWN \notin ends'[i]
        ELSE d'[i] = d[i] /\ child'[i] = child[i] /\ ends'[i] = ends[i]
  <2> SUFFICES ASSUME NEW i \in Slots
               PROVE  IF child[i] = "zombie"
                      THEN /\ d[i].used /\ d'[i].used /\ ~d'[i].pid /\ d'[i].wstat = fate[i]
                           /\ child'[i] = "none" /\ SPAWN \notin ends'[i]
                      ELSE d'[i] = d[i] /\ child'[i] = child[i] /\ ends'[i] = ends[i]
    OBVIOUS
  <2>1. CASE child[i] = "zombie"
    <3>1. i \in dead /\ i \in known
      BY <2>1, <1>4
    <3>2. d[i] \in SlotTypes /\ d[i].used
      BY <1>1, <3>1 DEF Types
    <3>3. d'[i] = [d[i] EXCEPT !.pid = FALSE, !.wstat = fate[i]]
      BY <1>1, <3>1
    <3>4. d'[i].used = d[i].used /\ d'[i].pid = FALSE /\ d'[i].wstat = fate[i]
      BY <3>2, <3>3 DEF SlotTypes
    <3>5. child'[i] = "none" /\ ends'[i] = ends[i] \ {SPAWN}
      BY <1>1, <3>1
    <3> QED
      BY <2>1, <3>2, <3>4, <3>5
  <2>2. CASE child[i] # "zombie"
    <3>1. i \notin dead /\ i \notin known
      BY <2>2
    <3> HIDE DEF dead, known
    <3> QED
      BY <1>1, <2>2, <3>1
  <2> QED
    BY <2>1, <2>2
<1> HIDE DEF dead, known
<1>6. \A i : Reported(i)' <=> Reported(i)
  BY <1>2 DEF Reported, PendingReports, Pending
<1>7. SlotsRight'
  <2>1. \A i \in Slots : Slot(i)
    BY DEF Live, SlotsRight
  <2>2. \A i \in Slots : Slot(i)'
    BY <2>1, <1>2, <1>5, <1>6, <1>1 DEF Slot, Current, Running
  <2> QED
    BY <2>2 DEF SlotsRight, Slots
<1>8. Command'
  BY <1>1, <1>2, <1>5, <1>6 DEF Live, Command, Current, Running, Awaited
<1> QED
  BY <1>2, <1>3, <1>5, <1>7, <1>8, Quiet DEF Running

\* The loop of main().
LEMMA LoopSteps ==
    ASSUME SpawnConstants, Live, alive, Select \/ GetEof \/ GetEnds \/ Again
    PROVE  Live'
<1>1. /\ UNCHANGED <<del, comm, dline, cmds, reps, parse, aborts>>
      /\ UNCHANGED <<d, child, ends, fate>>
      /\ loop \in {"select", "cmd", "slots"} /\ loop' \in {"select", "cmd", "slots", "exit"}
  BY DEF Select, GetEof, GetEnds, Again, sendVars, childVars
<1>2. rfds' \in SUBSET (Slots \cup {CMD}) /\ \A i \in Slots : i \in rfds' => i \in rfds \/ Eof(i)
  <2>1. CASE Select
    <3>1. CMD \notin Slots
      BY DEF SpawnConstants, Slots, CMD
    <3> QED
      BY <2>1, <3>1 DEF Select, Readable
  <2>2. CASE GetEof \/ GetEnds \/ Again
    <3>1. rfds' \subseteq rfds
      BY <2>2 DEF GetEof, GetEnds, Again
    <3> QED
      BY <3>1 DEF Live, Types
  <2> QED
    BY <2>1, <2>2
<1>3. loop' = "slots" => CMD \notin rfds'
  BY DEF Select, GetEof, GetEnds, Again, Live, Command
<1>4. Types'
  BY <1>1, <1>2 DEF Live, Types
<1>5. \A i : Reported(i)' <=> Reported(i)
  BY <1>1 DEF Reported, PendingReports, Pending
<1>6. SlotsRight'
  <2>1. \A i \in Slots : Slot(i)
    BY DEF Live, SlotsRight
  <2>2. \A i \in Slots : Slot(i)'
    BY <2>1, <1>1, <1>2, <1>5 DEF Slot, Current, Running, Eof
  <2> QED
    BY <2>2 DEF SlotsRight, Slots
<1>7. Command'
  BY <1>1, <1>3, <1>5 DEF Live, Command, Current, Running, Awaited
<1> QED
  BY <1>1, <1>4, <1>6, <1>7, Quiet DEF Running

\* The child has every end that spawn.c has.
LEMMA ForkSteps ==
    ASSUME SpawnConstants, Live, alive, Fork
    PROVE  Live'
<1>1. PICK n : n = parse.delnum
  OBVIOUS
<1>2. /\ loop = "docmd" /\ loop' = "forked" /\ ~parse.flagabort
      /\ child' = [child EXCEPT ![n] = "forked"]
      /\ ends' = [i \in Slots |->
                  IF i = n THEN {SPAWN, i}
                  ELSE IF SPAWN \in ends[i] THEN ends[i] \cup {n} ELSE ends[i]]
      /\ UNCHANGED <<del, comm, dline, cmds, reps, rfds, parse, d, fate, aborts>>
  BY <1>1 DEF Fork, sendVars
<1>3. Awaited(n) /\ n \in Slots
  BY <1>1, <1>2 DEF Live, Command, Current, Running, Awaited
<1>4. Types'
  BY <1>2, <1>3 DEF Live, Types
<1>5. /\ \A i \in Slots : SPAWN \in ends'[i] <=> (i = n \/ SPAWN \in ends[i])
      /\ \A i \in Slots : child'[i] = IF i = n THEN "forked" ELSE child[i]
  BY <1>2, <1>3 DEF SpawnConstants, Live, Types, Slots, SPAWN
<1>6. \A i : Reported(i)' <=> Reported(i)
  BY <1>2 DEF Reported, PendingReports, Pending
<1>7. SlotsRight'
  <2>1. \A i \in Slots : Slot(i)
    BY DEF Live, SlotsRight
  <2>2. \A i \in Slots : Slot(i)'
    BY <2>1, <1>1, <1>2, <1>3, <1>5, <1>6 DEF Slot, Current, Running, Awaited
  <2> QED
    BY <2>2 DEF SlotsRight, Slots
<1>8. Command'
  BY <1>1, <1>2, <1>3, <1>5, <1>6 DEF Live, Command, Current, Running, Awaited
<1> QED
  BY <1>1, <1>2, <1>3, <1>4, <1>5, <1>7, <1>8, Quiet DEF Running, Current

\* The agents.
LEMMA AgentSteps ==
    ASSUME SpawnConstants, Live, alive, NEW i \in Slots, AgentStep(i) \/ Exits(i) \/ OrphanExits(i)
    PROVE  Live'
<1>1. /\ UNCHANGED <<del, comm, dline, cmds, reps, loop, rfds, parse, d, aborts>>
  BY DEF AgentStep, Exec, ClosesOutput, LeavesOrphan, Exits, OrphanExits, sendVars, spawnVars
<1>2. \A k \in Slots : /\ ends'[k] \in SUBSET (Slots \cup {SPAWN, ORPHAN})
                       /\ SPAWN \in ends'[k] <=> SPAWN \in ends[k]
  <2>1. i # SPAWN /\ ORPHAN # SPAWN
    BY DEF SpawnConstants, Slots, SPAWN, ORPHAN
  <2>2. ends \in [Slots -> SUBSET (Slots \cup {SPAWN, ORPHAN})]
    BY DEF Live, Types
  <2>3. CASE Exec(i)
    BY <2>1, <2>2, <2>3 DEF Exec
  <2>4. CASE ClosesOutput(i)
    BY <2>1, <2>2, <2>4 DEF ClosesOutput
  <2>5. CASE LeavesOrphan(i)
    BY <2>1, <2>2, <2>5 DEF LeavesOrphan
  <2>6. CASE Exits(i)
    BY <2>1, <2>2, <2>6 DEF Exits
  <2>7. CASE OrphanExits(i)
    BY <2>1, <2>2, <2>7 DEF OrphanExits
  <2> QED
    BY <2>3, <2>4, <2>5, <2>6, <2>7 DEF AgentStep
<1>3. /\ \A k \in Slots : k # i => child'[k] = child[k] /\ fate'[k] = fate[k]
      /\ \/ child'[i] = child[i] /\ fate'[i] = fate[i]
         \/ child[i] # "none" /\ child'[i] = "running" /\ fate'[i] = fate[i]
         \/ child[i] # "none" /\ child'[i] = "zombie" /\ fate'[i] \in Fates /\ fate'[i] # "none"
  BY DEF SpawnConstants, AgentStep, Exec, ClosesOutput, LeavesOrphan, Exits, OrphanExits,
     Live, Types
<1>4. Types'
  <2>1. /\ child' \in [Slots -> {"none", "forked", "running", "zombie"}]
        /\ fate' \in [Slots -> Fates \cup {"none"}]
    BY DEF AgentStep, Exec, ClosesOutput, LeavesOrphan, Exits, OrphanExits, Live, Types
  <2>2. ends' \in [Slots -> SUBSET (Slots \cup {SPAWN, ORPHAN})]
    BY DEF AgentStep, Exec, ClosesOutput, LeavesOrphan, Exits, OrphanExits, Live, Types
  <2> QED
    BY <1>1, <2>1, <2>2 DEF Live, Types
<1>5. \A k : Reported(k)' <=> Reported(k)
  BY <1>1 DEF Reported, PendingReports, Pending
<1>6. SlotsRight'
  <2>1. \A k \in Slots : Slot(k)
    BY DEF Live, SlotsRight
  <2>2. \A k \in Slots : Slot(k)'
    BY <2>1, <1>1, <1>2, <1>3, <1>5 DEF Slot, Current, Running
  <2> QED
    BY <2>2 DEF SlotsRight, Slots
<1>7. Command'
  BY <1>1, <1>2, <1>3, <1>5 DEF Live, Command, Current, Running, Awaited
<1> QED
  BY <1>1, <1>3, <1>4, <1>6, <1>7, Quiet DEF Running

\* Bytes move from comm_buf to the pipe; the stream is the same.
LEMMA CommDoSteps ==
    ASSUME SpawnConstants, Live, alive, CommDo
    PROVE  Live'
<1> DEFINE n == Min({Len(comm), PipeSize - Len(cmds)})
<1>1. /\ comm # <<>> /\ Len(cmds) < PipeSize
      /\ cmds' = cmds \o SubSeq(comm, 1, n)
      /\ comm' = SubSeq(comm, n + 1, Len(comm))
      /\ UNCHANGED <<del, dline, reps, loop, rfds, parse, d, child, ends, fate, aborts>>
  BY DEF CommDo, spawnVars, childVars
<1>2. Types
  BY DEF Live
<1>3. n \in 0 .. Len(comm)
  <2>1. Len(comm) \in Nat /\ PipeSize - Len(cmds) \in Nat
    BY <1>1, <1>2 DEF SpawnConstants, Types
  <2>2. n \in {Len(comm), PipeSize - Len(cmds)} /\ n <= Len(comm)
    BY <2>1 DEF Min
  <2> QED
    BY <2>1, <2>2
<1> HIDE DEF n
<1>4. Types'
  BY <1>1, <1>2, <1>3 DEF Types
<1>5. /\ Total' = Total /\ Total \in Nat /\ \A k \in 1 .. Total : At(k)' = At(k)
  <2>1. /\ Len(comm) \in Nat /\ Len(cmds) \in Nat /\ n \in Nat
    BY <1>2, <1>3 DEF Types
  <2>2. /\ Len(cmds') = Len(cmds) + n
        /\ \A k \in 1 .. Len(cmds) : cmds'[k] = cmds[k]
        /\ \A k \in Len(cmds) + 1 .. Len(cmds) + n : cmds'[k] = comm[k - Len(cmds)]
    BY <1>1, <1>2, <1>3, <2>1 DEF Types
  <2>3. /\ Len(comm') = Len(comm) - n
        /\ \A k \in 1 .. Len(comm) - n : comm'[k] = comm[k + n]
    BY <1>1, <1>2, <1>3, <2>1 DEF Types
  <2> QED
    BY <2>1, <2>2, <2>3 DEF Total, At
<1>6. Reports' /\ \A i : Reported(i)' <=> Reported(i)
  <2>1. Pending' = Pending
    BY <1>1 DEF Pending
  <2> QED
    BY <1>1, <1>2, <1>4, <2>1, SameReports DEF Live, Reports
<1>7. Stream'
  <2>1. Coming' = Coming /\ (Current' <=> Current)
    BY <1>1 DEF Coming, Current, Running
  <2>2. \A i : Awaited(i) => Awaited(i)'
    BY <1>1, <1>6 DEF Awaited
  <2> QED
    BY <1>1, <1>5, <2>1, <2>2, SameStream DEF Live
<1>8. SlotsRight'
  <2>1. \A i \in Slots : Slot(i)
    BY DEF Live, SlotsRight
  <2>2. \A i \in Slots : Slot(i)'
    BY <2>1, <1>1, <1>6 DEF Slot, Current, Running
  <2> QED
    BY <2>2 DEF SlotsRight, Slots
<1>9. Command'
  BY <1>1, <1>6 DEF Live, Command, Current, Running, Awaited
<1>10. Aborts'
  <2>1. Aborted' = Aborted
    BY <1>1, <1>6 DEF Aborted
  <2> QED
    BY <2>1, <1>1 DEF Aborts, Live
<1> QED
  BY <1>4, <1>6, <1>7, <1>8, <1>9, <1>10 DEF Live

LEMMA SlotsFinite ==
    ASSUME SpawnConstants
    PROVE  IsFiniteSet(Slots) /\ IsFiniteSet(Aborted) /\ Cardinality(Aborted) \in Nat
<1>1. IsFiniteSet(Slots)
  BY FS_Interval DEF SpawnConstants, Slots
<1>2. IsFiniteSet(Aborted)
  BY <1>1, FS_Subset DEF Aborted
<1> QED
  BY <1>1, <1>2, FS_CardinalityType

\* A byte of a report is read, or the last one of it.
LEMMA DelDochanSteps ==
    ASSUME SpawnConstants, Live, alive, DelDochan
    PROVE  Live'
<1> DEFINE line == Append(dline, Head(reps))
<1>1. /\ reps # <<>> /\ reps' = Tail(reps)
      /\ UNCHANGED <<comm, cmds, loop, rfds, parse, d, child, ends, fate, aborts>>
      /\ IF Complete(line) THEN dline' = <<>> /\ del' = [del EXCEPT ![line[1]] = FALSE]
         ELSE dline' = line /\ del' = del
  BY DEF DelDochan, spawnVars, childVars
<1>2. Types
  BY DEF Live
<1>l. PICK len \in Nat : len = Len(dline)
  BY <1>2 DEF Types
<1>m. len < 3
  BY <1>l DEF Live, Reports
<1>3. PICK l \in 0 .. 2 : l = Len(dline)
  BY <1>l, <1>m
<1>4. PICK r \in Nat : r = Len(reps) /\ r > 0
  BY <1>1, <1>2 DEF Types
<1>5. /\ Len(Pending) = l + r
      /\ \A k \in 1 .. l : Pending[k] = dline[k]
      /\ \A k \in 1 .. r : Pending[l + k] = reps[k]
  <2>1. l \in Nat
    OBVIOUS
  <2> QED
    BY <2>1, <1>2, <1>3, <1>4, PendingAt
<1>6. Len(line) = l + 1 /\ \A k \in 1 .. l + 1 : line[k] = Pending[k]
  <2>1. Head(reps) = Pending[l + 1]
    <3>1. Head(reps) = reps[1] /\ 1 \in 1 .. r
      BY <1>2, <1>4 DEF Types
    <3> QED
      BY <3>1, <1>5
  <2>2. Len(line) = l + 1 /\ \A k \in 1 .. l : line[k] = dline[k]
    BY <1>2, <1>3 DEF Types
  <2>3. line[l + 1] = Head(reps)
    BY <1>2, <1>3 DEF Types
  <2>4. \A k \in 1 .. l : dline[k] = Pending[k]
    BY <1>3, <1>4, <1>5
  <2> HIDE DEF line
  <2> QED
    BY <1>3, <2>1, <2>2, <2>3, <2>4
<1>7. line \in Seq(Int)
  BY <1>2, <1>4 DEF Types
<1> HIDE DEF line
<1>8. Complete(line) <=> l = 2
  <2>1. Last(line) = Pending[l + 1]
    BY <1>6, <1>3 DEF Last
  <2>2. l + 1 \in 1 .. Len(Pending)
    BY <1>3, <1>4, <1>5
  <2>3. l = 1 => Pending[2] # NUL
    BY <2>2 DEF Live, Reports
  <2>4. l = 2 => Pending[3] = NUL
    BY <2>2 DEF Live, Reports
  <2> QED
    BY <1>6, <1>3, <2>1, <2>3, <2>4 DEF Complete
<1>9. reps' \in Seq(Int) /\ Len(reps') = r - 1 /\ \A k \in 1 .. r - 1 : reps'[k] = reps[k + 1]
  BY <1>1, <1>2, <1>4 DEF Types
<1>10. CASE l # 2
  <2>1. dline' = line /\ del' = del
    BY <1>1, <1>8, <1>10
  <2>2. Types'
    BY <1>1, <1>2, <1>7, <1>9, <2>1 DEF Types
  <2>3. \A k \in 1 .. Len(Pending) : Pending'[k] = Pending[k]
    <3>1. l + 1 \in Nat /\ r - 1 \in Nat /\ l + 1 = Len(dline') /\ r - 1 = Len(reps')
      BY <2>1, <1>3, <1>4, <1>6, <1>9
    <3>2. /\ \A k \in 1 .. l + 1 : Pending'[k] = line[k]
          /\ \A k \in 1 .. r - 1 : Pending'[(l + 1) + k] = reps'[k]
      BY <2>1, <2>2, <3>1, PendingAtNext
    <3>3. \A k \in 1 .. l + 1 : Pending'[k] = Pending[k]
      BY <3>2, <1>6
    <3>4. ASSUME NEW k \in l + 2 .. l + r
          PROVE  Pending'[k] = Pending[k]
      <4>1. PICK q \in 1 .. r - 1 : k = (l + 1) + q /\ k = l + (q + 1) /\ q + 1 \in 1 .. r
        <5>1. k - (l + 1) \in 1 .. r - 1 /\ k = (l + 1) + (k - (l + 1))
              /\ k = l + (k - (l + 1) + 1) /\ k - (l + 1) + 1 \in 1 .. r
          BY <1>3, <1>4
        <5> QED
          BY <5>1
      <4>2. Pending'[k] = reps'[q] /\ Pending[k] = reps[q + 1]
        BY <4>1, <3>2, <1>5
      <4> QED
        BY <4>2, <1>9
    <3>5. \A k \in 1 .. l + r : k \in 1 .. l + 1 \/ k \in l + 2 .. l + r
      BY <1>3, <1>4
    <3> QED
      BY <3>3, <3>4, <3>5, <1>5
  <2>4. Len(dline') < 3 /\ Len(dline') + Len(reps') = Len(dline) + Len(reps)
    BY <2>1, <1>3, <1>4, <1>6, <1>9, <1>10
  <2>5. Reports' /\ \A i : Reported(i)' <=> Reported(i)
    BY <1>1, <1>2, <2>1, <2>2, <2>3, <2>4, SameReports DEF Live
  <2>6. Stream'
    <3>1. /\ Coming' = Coming /\ (Current' <=> Current) /\ Total' = Total /\ Total \in Nat
          /\ \A k \in 1 .. Total : At(k)' = At(k)
      BY <1>1, <1>2 DEF Coming, Current, Running, Total, At, Types
    <3>2. \A i : Awaited(i) => Awaited(i)'
      BY <1>1, <2>1, <2>5 DEF Awaited
    <3> QED
      BY <1>1, <3>1, <3>2, SameStream DEF Live
  <2>7. SlotsRight'
    <3>1. \A i \in Slots : Slot(i)
      BY DEF Live, SlotsRight
    <3>2. \A i \in Slots : Slot(i)'
      BY <3>1, <1>1, <2>1, <2>5 DEF Slot, Current, Running
    <3> QED
      BY <3>2 DEF SlotsRight, Slots
  <2>8. Command'
    BY <1>1, <2>1, <2>5 DEF Live, Command, Current, Running, Awaited
  <2>9. Aborts'
    <3>1. Aborted' = Aborted
      BY <1>1, <2>5 DEF Aborted
    <3> QED
      BY <3>1, <1>1 DEF Aborts, Live
  <2> QED
    BY <2>2, <2>5, <2>6, <2>7, <2>8, <2>9 DEF Live
<1>11. CASE l = 2
  <2>1. PICK i : i = Pending[1]
    OBVIOUS
  <2>2. 1 \in PendingReports /\ i \in Slots /\ Reported(i)
    BY <1>3, <1>4, <1>5, <2>1 DEF PendingReports, Live, Reports, Reported
  <2>3. dline' = <<>> /\ del' = [del EXCEPT ![i] = FALSE]
    BY <1>1, <1>6, <1>8, <1>11, <2>1
  <2>4. Types'
    <3>1. dline' \in Seq(Int) /\ del' \in [Slots -> BOOLEAN]
      BY <1>2, <2>2, <2>3 DEF Types
    <3> QED
      BY <1>1, <1>2, <1>9, <3>1 DEF Types
  <2>5. /\ Len(Pending') = r - 1 /\ Len(Pending) = r + 2
        /\ \A k \in 1 .. r - 1 : Pending'[k] = Pending[k + 3]
    <3>1. 0 \in Nat /\ r - 1 \in Nat /\ 0 = Len(dline') /\ r - 1 = Len(reps')
      BY <1>4, <1>9, <2>3
    <3>2. Len(Pending') = 0 + (r - 1) /\ \A k \in 1 .. r - 1 : Pending'[0 + k] = reps'[k]
      BY <2>4, <3>1, PendingAtNext
    <3>3. Len(Pending') = r - 1 /\ Len(Pending) = r + 2
      BY <3>2, <1>4, <1>5, <1>11
    <3>4. ASSUME NEW k \in 1 .. r - 1
          PROVE  Pending'[k] = Pending[k + 3]
      <4>1. 0 + k = k /\ k + 3 = 2 + (k + 1) /\ k + 1 \in 1 .. r
        BY <1>4
      <4>2. Pending'[k] = reps'[k] /\ Pending[2 + (k + 1)] = reps[k + 1]
        BY <4>1, <3>2, <1>5, <1>11
      <4> QED
        BY <4>1, <4>2, <1>9
    <3> QED
      BY <3>3, <3>4
  <2>6. /\ \A k \in PendingReports' : k + 3 \in PendingReports
        /\ \A k \in PendingReports : k = 1 \/ k - 3 \in PendingReports'
    <3>1. \A k \in 1 .. r - 1 : (k + 3) % 3 = k % 3 /\ k + 3 \in 1 .. r + 2
      BY <1>4
    <3>2. \A k \in 1 .. r + 2 : k % 3 = 1 => k = 1 \/ (k - 3 \in 1 .. r - 1 /\ (k - 3) % 3 = 1)
      BY <1>4
    <3> QED
      BY <2>5, <3>1, <3>2 DEF PendingReports
  <2>7. \A j : Reported(j)' <=> Reported(j) /\ j # i
    <3>1. ASSUME NEW j, Reported(j)'
          PROVE  Reported(j) /\ j # i
      <4>1. PICK k \in PendingReports' : Pending'[k] = j
        BY <3>1 DEF Reported
      <4>2. k + 3 \in PendingReports /\ Pending[k + 3] = j /\ k \in 1 .. r - 1
        BY <4>1, <2>5, <2>6 DEF PendingReports
      <4>3. k + 3 # 1
        BY <4>2
      <4> QED
        BY <4>2, <4>3, <2>1, <2>2 DEF Reported, Live, Reports
    <3>2. ASSUME NEW j, Reported(j), j # i
          PROVE  Reported(j)'
      <4>1. PICK k \in PendingReports : Pending[k] = j
        BY <3>2 DEF Reported
      <4>2. k - 3 \in PendingReports' /\ k - 3 \in 1 .. r - 1
        BY <4>1, <3>2, <2>1, <2>5, <2>6, <1>4 DEF PendingReports
      <4>3. Pending'[k - 3] = j
        <5>1. (k - 3) + 3 = k
          BY DEF PendingReports
        <5> QED
          BY <5>1, <4>1, <4>2, <2>5
      <4> QED
        BY <4>2, <4>3 DEF Reported
    <3> QED
      BY <3>1, <3>2
  <2>8. \A j \in Slots : j # i => del'[j] = del[j]
    BY <2>3, <1>2 DEF Types
  <2>9. Reports'
    <3>1. ASSUME NEW k \in 1 .. r - 1
          PROVE  /\ k % 3 = 1 =>
                    /\ Pending'[k] \in Slots /\ del'[Pending'[k]] /\ ~d'[Pending'[k]].used
                    /\ child'[Pending'[k]] = "none"
                    /\ Pending'[k + 1] = Letter(fate'[Pending'[k]])
                 /\ k % 3 = 2 => Pending'[k] # NUL
                 /\ k % 3 = 0 => Pending'[k] = NUL
      <4>1. k + 3 \in 1 .. Len(Pending) /\ (k + 3) % 3 = k % 3
        BY <2>5, <1>4
      <4>2. /\ k % 3 = 1 =>
                    /\ Pending[k + 3] \in Slots /\ del[Pending[k + 3]] /\ ~d[Pending[k + 3]].used
                    /\ child[Pending[k + 3]] = "none"
                    /\ Pending[(k + 3) + 1] = Letter(fate[Pending[k + 3]])
            /\ k % 3 = 2 => Pending[k + 3] # NUL
            /\ k % 3 = 0 => Pending[k + 3] = NUL
        BY <4>1 DEF Live, Reports
      <4>3. Pending'[k] = Pending[k + 3]
        BY <2>5
      <4>4. ASSUME k % 3 = 1
            PROVE  k + 1 \in 1 .. r - 1 /\ Pending'[k + 1] = Pending[(k + 3) + 1]
        <5>1. (r + 2) % 3 = 0
          BY <2>5 DEF Live, Reports
        <5>2. k + 1 \in 1 .. r - 1
          BY <5>1, <4>4, <1>4
        <5>3. Pending'[k + 1] = Pending[(k + 1) + 3]
          BY <5>2, <2>5
        <5>4. (k + 1) + 3 = (k + 3) + 1
          BY <5>2
        <5> QED
          BY <5>2, <5>3, <5>4
      <4>5. ASSUME k % 3 = 1
            PROVE  Pending'[k] # i
        <5>1. PICK e : e = Pending'[k]
          OBVIOUS
        <5>2. Reported(e)'
          BY <5>1, <4>5, <2>5 DEF Reported, PendingReports
        <5> QED
          BY <5>1, <5>2, <2>7
      <4> QED
        BY <4>2, <4>3, <4>4, <4>5, <2>8, <1>1
    <3>2. \A k, m \in PendingReports' : Pending'[m] = Pending'[k] => m = k
      <4> SUFFICES ASSUME NEW k \in PendingReports', NEW m \in PendingReports',
                          Pending'[m] = Pending'[k]
                   PROVE  m = k
        OBVIOUS
      <4>1. k \in 1 .. r - 1 /\ m \in 1 .. r - 1
        BY <2>5 DEF PendingReports
      <4>2. Pending[m + 3] = Pending[k + 3] /\ m + 3 \in PendingReports /\ k + 3 \in PendingReports
        BY <4>1, <2>5, <2>6
      <4>3. m + 3 = k + 3
        BY <4>2 DEF Live, Reports
      <4> QED
        BY <4>1, <4>3
    <3>3. (r - 1) % 3 = 0
      <4>1. (r + 2) % 3 = 0
        BY <2>5 DEF Live, Reports
      <4> QED
        BY <4>1, <1>4
    <3> QED
      BY <3>1, <3>2, <3>3, <2>5, <2>3 DEF Reports
  <2>10. Stream'
    <3>1. /\ Coming' = Coming /\ (Current' <=> Current) /\ Total' = Total /\ Total \in Nat
          /\ \A k \in 1 .. Total : At(k)' = At(k)
      BY <1>1, <1>2 DEF Coming, Current, Running, Total, At, Types
    <3>2. \A j : Awaited(j) => Awaited(j)'
      BY <1>1, <2>2, <2>7, <2>8 DEF Awaited
    <3> QED
      BY <1>1, <3>1, <3>2, SameStream DEF Live
  <2>11. SlotsRight'
    <3>1. \A j \in Slots : Slot(j)
      BY DEF Live, SlotsRight
    <3>2. ~d[i].used
      BY <3>1, <2>2 DEF Slot
    <3>3. \A j \in Slots : Slot(j)'
      BY <3>1, <3>2, <1>1, <2>7, <2>8 DEF Slot, Current, Running
    <3> QED
      BY <3>3 DEF SlotsRight, Slots
  <2>12. Command'
    <3>1. Current => parse.delnum # i /\ parse.delnum \in Slots
      BY <2>2 DEF Live, Command, Awaited
    <3>2. loop = "forked" => Current
      BY DEF Current, Running
    <3> QED
      BY <1>1, <2>7, <2>8, <3>1, <3>2 DEF Live, Command, Current, Running, Awaited
  <2>13. Aborts'
    <3>1. Aborted' \subseteq Aborted
      BY <1>1, <2>7 DEF Aborted
    <3>2. Cardinality(Aborted') <= Cardinality(Aborted) /\ Cardinality(Aborted') \in Nat
      BY <3>1, SlotsFinite, FS_Subset, FS_CardinalityType
    <3> QED
      BY <3>2, <1>1, SlotsFinite DEF Aborts, Live
  <2> QED
    BY <2>4, <2>9, <2>10, <2>11, <2>12, <2>13 DEF Live
<1> QED
  BY <1>10, <1>11

\* Positions in the report pipe.
LEMMA Thirds ==
    ASSUME NEW n \in Nat, n % 3 = 0
    PROVE  /\ (n + 1) % 3 = 1 /\ (n + 2) % 3 = 2 /\ (n + 3) % 3 = 0
           /\ \A k \in 1 .. n + 3 : k \in 1 .. n \/ k = n + 1 \/ k = n + 2 \/ k = n + 3
           /\ \A k \in 1 .. n : k % 3 = 1 => k + 1 \in 1 .. n
           /\ \A k \in 1 .. n : k \in 1 .. n + 3
           /\ n + 1 \in 1 .. n + 3 /\ n + 1 \notin 1 .. n /\ (n + 1) + 1 = n + 2
           /\ {k \in 1 .. n + 3 : k % 3 = 1} = {k \in 1 .. n : k % 3 = 1} \cup {n + 1}
<1>1. (n + 1) % 3 = 1 /\ (n + 2) % 3 = 2 /\ (n + 3) % 3 = 0
  OBVIOUS
<1>2. \A k \in 1 .. n + 3 : k \in 1 .. n \/ k = n + 1 \/ k = n + 2 \/ k = n + 3
  OBVIOUS
<1>3. \A k \in 1 .. n : k % 3 = 1 => k + 1 \in 1 .. n
  OBVIOUS
<1>4. \A k \in 1 .. n : k \in 1 .. n + 3
  OBVIOUS
<1>5. n + 1 \in 1 .. n + 3 /\ n + 1 \notin 1 .. n /\ (n + 1) + 1 = n + 2
  OBVIOUS
<1>6. \A k : k \in {j \in 1 .. n + 3 : j % 3 = 1} <=>
              k \in {j \in 1 .. n : j % 3 = 1} \cup {n + 1}
  <2> TAKE k
  <2>1. CASE k \in 1 .. n
    BY <2>1, <1>4, <1>5
  <2>2. CASE k = n + 1
    BY <2>2, <1>1, <1>5
  <2>3. CASE k \notin 1 .. n /\ k # n + 1
    <3>1. k \in 1 .. n + 3 => k % 3 # 1
      BY <2>3, <1>1, <1>2
    <3> QED
      BY <2>3, <3>1
  <2> QED
    BY <2>1, <2>2, <2>3
<1> QED
  BY <1>1, <1>2, <1>3, <1>4, <1>5, <1>6

\* One more report, of slot i, which had none.
LEMMA OneMoreReport ==
    ASSUME SpawnConstants, Live, Types', NEW i \in Slots, NEW letter \in Int, ~Reported(i),
           dline' = dline, reps' = reps \o <<i, letter, NUL>>,
           del'[i], ~d'[i].used, child'[i] = "none", letter = Letter(fate'[i]),
           \A j \in Slots : Reported(j) =>
                /\ del'[j] = del[j] /\ d'[j].used = d[j].used /\ child'[j] = child[j]
                /\ fate'[j] = fate[j]
    PROVE  Reports' /\ \A j : Reported(j)' <=> Reported(j) \/ j = i
<1>1. Types
  BY DEF Live
<1>2. PICK n \in Nat : n = Len(Pending)
  BY <1>1, PendingLen
<1>n. n % 3 = 0
  BY <1>2 DEF Live, Reports
<1>3. PICK l \in Nat : l = Len(dline)
  BY <1>1 DEF Types
<1>4. PICK r \in Nat : r = Len(reps)
  BY <1>1 DEF Types
<1>5. /\ n = l + r
      /\ \A k \in 1 .. l : Pending[k] = dline[k]
      /\ \A k \in 1 .. r : Pending[l + k] = reps[k]
  BY <1>1, <1>2, <1>3, <1>4, PendingAt
<1>6. /\ Len(reps') = r + 3 /\ \A k \in 1 .. r : reps'[k] = reps[k]
      /\ reps'[r + 1] = i /\ reps'[r + 2] = letter /\ reps'[r + 3] = NUL
  <2>1. PICK c : c = <<i, letter, NUL>>
    OBVIOUS
  <2>2. c \in Seq(Int) /\ Len(c) = 3 /\ c[1] = i /\ c[2] = letter /\ c[3] = NUL
    BY <2>1 DEF SpawnConstants, NUL, Slots
  <2>3. reps' = reps \o c
    BY <2>1
  <2> QED
    BY <1>1, <1>4, <2>2, <2>3 DEF Types
<1>7. /\ Len(Pending') = l + (r + 3)
      /\ \A k \in 1 .. l : Pending'[k] = dline[k]
      /\ \A k \in 1 .. r + 3 : Pending'[l + k] = reps'[k]
  <2>1. r + 3 \in Nat /\ r + 3 = Len(reps') /\ l = Len(dline')
    BY <1>3, <1>6
  <2> QED
    BY <2>1, PendingAtNext
<1>8. \A k \in 1 .. n : Pending'[k] = Pending[k]
  <2> SUFFICES ASSUME NEW k \in 1 .. n
               PROVE  Pending'[k] = Pending[k]
    OBVIOUS
  <2>1. CASE k \in 1 .. l
    BY <2>1, <1>5, <1>7
  <2>2. CASE k \in l + 1 .. l + r
    <3>1. PICK q \in 1 .. r : k = l + q
      <4>1. k - l \in 1 .. r /\ k = l + (k - l)
        BY <2>2
      <4> QED
        BY <4>1
    <3>2. q \in 1 .. r + 3
      OBVIOUS
    <3> QED
      BY <3>1, <3>2, <1>5, <1>6, <1>7
  <2> QED
    BY <2>1, <2>2, <1>5
<1>9. Len(Pending') = n + 3 /\ Pending'[n + 1] = i /\ Pending'[n + 2] = letter /\ Pending'[n + 3] = NUL
  <2>1. /\ n + 1 = l + (r + 1) /\ n + 2 = l + (r + 2) /\ n + 3 = l + (r + 3)
        /\ r + 1 \in 1 .. r + 3 /\ r + 2 \in 1 .. r + 3 /\ r + 3 \in 1 .. r + 3
    <3>1. n = l + r
      BY <1>5
    <3> QED
      BY <3>1
  <2>2. /\ Pending'[l + (r + 1)] = reps'[r + 1] /\ Pending'[l + (r + 2)] = reps'[r + 2]
        /\ Pending'[l + (r + 3)] = reps'[r + 3] /\ Len(Pending') = l + (r + 3)
    BY <2>1, <1>7
  <2>3. reps'[r + 1] = i /\ reps'[r + 2] = letter /\ reps'[r + 3] = NUL
    BY <1>6
  <2>4. /\ Pending'[n + 1] = Pending'[l + (r + 1)] /\ Pending'[n + 2] = Pending'[l + (r + 2)]
        /\ Pending'[n + 3] = Pending'[l + (r + 3)]
    BY <2>1
  <2> QED
    BY <2>1, <2>2, <2>3, <2>4, Zenon
<1>10. PendingReports = {k \in 1 .. n : k % 3 = 1} /\ PendingReports' = PendingReports \cup {n + 1}
  <2>1. PendingReports = {k \in 1 .. n : k % 3 = 1}
    BY <1>2 DEF PendingReports
  <2>2. PendingReports' = {k \in 1 .. n + 3 : k % 3 = 1}
    BY <1>9 DEF PendingReports
  <2>3. {k \in 1 .. n + 3 : k % 3 = 1} = {k \in 1 .. n : k % 3 = 1} \cup {n + 1}
    BY <1>n, Thirds
  <2> QED
    BY <2>1, <2>2, <2>3
<1>11. \A j : Reported(j)' <=> Reported(j) \/ j = i
  <2>1. \A k \in PendingReports : Pending'[k] = Pending[k]
    BY <1>8, <1>10
  <2>2. PendingReports' = PendingReports \cup {n + 1} /\ Pending'[n + 1] = i
    BY <1>9, <1>10
  <2>3. ASSUME NEW j, Reported(j)'
        PROVE  Reported(j) \/ j = i
    <3>1. PICK k \in PendingReports' : Pending'[k] = j
      BY <2>3 DEF Reported
    <3>2. k \in PendingReports \/ k = n + 1
      BY <2>2
    <3> QED
      BY <3>1, <3>2, <2>1, <2>2 DEF Reported
  <2>4. ASSUME NEW j, Reported(j)
        PROVE  Reported(j)'
    <3>1. PICK k \in PendingReports : Pending[k] = j
      BY <2>4 DEF Reported
    <3>2. k \in PendingReports' /\ Pending'[k] = j
      BY <3>1, <2>1, <2>2
    <3> QED
      BY <3>2 DEF Reported
  <2>5. Reported(i)'
    <3>1. n + 1 \in PendingReports'
      BY <2>2
    <3> QED
      BY <3>1, <2>2 DEF Reported
  <2> QED
    BY <2>3, <2>4, <2>5
<1>12. ASSUME NEW k \in 1 .. n
       PROVE  /\ k % 3 = 1 =>
                    /\ Pending'[k] \in Slots /\ del'[Pending'[k]] /\ ~d'[Pending'[k]].used
                    /\ child'[Pending'[k]] = "none"
                    /\ Pending'[k + 1] = Letter(fate'[Pending'[k]])
              /\ k % 3 = 2 => Pending'[k] # NUL
              /\ k % 3 = 0 => Pending'[k] = NUL
  <2>1. ASSUME k % 3 = 1
        PROVE  k + 1 \in 1 .. n /\ Reported(Pending[k])
    <3>1. k \in PendingReports
      BY <2>1, <1>10
    <3>2. k + 1 \in 1 .. n
      BY <2>1, <1>n, Thirds
    <3> QED
      BY <3>1, <3>2 DEF Reported
  <2>2. /\ k % 3 = 1 => /\ Pending[k] \in Slots /\ del[Pending[k]] /\ ~d[Pending[k]].used
                        /\ child[Pending[k]] = "none"
                        /\ Pending[k + 1] = Letter(fate[Pending[k]])
        /\ k % 3 = 2 => Pending[k] # NUL
        /\ k % 3 = 0 => Pending[k] = NUL
    BY <1>2 DEF Live, Reports
  <2>3. Pending'[k] = Pending[k]
    BY <1>8
  <2>4. k % 3 = 1 => Pending'[k + 1] = Pending[k + 1]
    BY <2>1, <1>8
  <2> QED
    BY <2>1, <2>2, <2>3, <2>4
<1>13. \A k, m \in PendingReports' : Pending'[m] = Pending'[k] => m = k
  <2>1. \A q \in PendingReports : Pending[q] # i /\ Pending'[q] = Pending[q]
    BY <1>8, <1>10 DEF Reported
  <2>2. \A k, m \in PendingReports : Pending[m] = Pending[k] => m = k
    BY DEF Live, Reports
  <2>3. PendingReports' = PendingReports \cup {n + 1} /\ Pending'[n + 1] = i
    BY <1>9, <1>10
  <2> SUFFICES ASSUME NEW k \in PendingReports', NEW m \in PendingReports',
                      Pending'[m] = Pending'[k]
               PROVE  m = k
    OBVIOUS
  <2>4. (k \in PendingReports \/ k = n + 1) /\ (m \in PendingReports \/ m = n + 1)
    BY <2>3
  <2> QED
    BY <2>1, <2>2, <2>3, <2>4
<1>14. letter # NUL
  BY DEF Letter, K, D, Z, NUL
<1>15. \A k \in 1 .. n + 3 :
          /\ k % 3 = 1 =>
                    /\ Pending'[k] \in Slots /\ del'[Pending'[k]] /\ ~d'[Pending'[k]].used
                    /\ child'[Pending'[k]] = "none"
                    /\ Pending'[k + 1] = Letter(fate'[Pending'[k]])
          /\ k % 3 = 2 => Pending'[k] # NUL
          /\ k % 3 = 0 => Pending'[k] = NUL
  <2> SUFFICES ASSUME NEW k \in 1 .. n + 3
               PROVE  /\ k % 3 = 1 =>
                            /\ Pending'[k] \in Slots /\ del'[Pending'[k]] /\ ~d'[Pending'[k]].used
                            /\ child'[Pending'[k]] = "none"
                            /\ Pending'[k + 1] = Letter(fate'[Pending'[k]])
                      /\ k % 3 = 2 => Pending'[k] # NUL
                      /\ k % 3 = 0 => Pending'[k] = NUL
    OBVIOUS
  <2>1. k \in 1 .. n \/ k = n + 1 \/ k = n + 2 \/ k = n + 3
    BY <1>n, Thirds
  <2>2. CASE k \in 1 .. n
    BY <2>2, <1>12
  <2>3. CASE k = n + 1
    <3>1. k % 3 = 1 /\ k + 1 = n + 2
      BY <2>3, <1>n, Thirds
    <3>2. Pending'[k] = i /\ Pending'[n + 2] = letter
      BY <2>3, <1>9
    <3> QED
      BY <3>1, <3>2
  <2>4. CASE k = n + 2
    <3>1. k % 3 = 2 /\ Pending'[k] = letter
      BY <2>4, <1>9, <1>n, Thirds
    <3> QED
      BY <3>1, <1>14
  <2>5. CASE k = n + 3
    <3>1. k % 3 = 0 /\ Pending'[k] = NUL
      BY <2>5, <1>9, <1>n, Thirds
    <3> QED
      BY <3>1
  <2> QED
    BY <2>1, <2>2, <2>3, <2>4, <2>5
<1>16. (n + 3) % 3 = 0 /\ Len(dline') < 3
  BY <1>n, Thirds DEF Live, Reports
<1> QED
  BY <1>9, <1>11, <1>13, <1>15, <1>16 DEF Reports

\* A command fails before it has an agent.
LEMMA DocmdFailsSteps ==
    ASSUME SpawnConstants, Live, alive, DocmdFails
    PROVE  Live'
<1>1. PICK i : i = parse.delnum
  OBVIOUS
<1>2. /\ loop = "docmd" /\ loop' = "cmd" /\ reps' = reps \o <<i, Z, NUL>>
      /\ parse' = [parse EXCEPT !.stage = 0, !.flagabort = FALSE]
      /\ UNCHANGED <<del, comm, dline, cmds, rfds, d, child, ends, fate>>
  BY <1>1 DEF DocmdFails, Write, NextCommand, sendVars, childVars
<1>3. Types /\ Awaited(i) /\ i \in Slots
  BY <1>1, <1>2 DEF Live, Command, Current, Running, Awaited
<1>4. parse'.stage = 0 /\ parse'.flagabort = FALSE
  BY <1>2, <1>3 DEF Types, ParseTypes
<1>5. Types'
  <2>1. parse' \in ParseTypes
    <3>1. parse \in ParseTypes
      BY <1>3 DEF Types
    <3>2. parse' = [parse EXCEPT !.stage = 0, !.flagabort = FALSE] /\ 0 \in 0 .. 3
      BY <1>2
    <3> QED
      BY <3>1, <3>2 DEF ParseTypes
  <2>2. reps' \in Seq(Int)
    <3>1. <<i, Z, NUL>> \in Seq(Int)
      BY <1>3 DEF SpawnConstants, Z, NUL, Slots
    <3> QED
      BY <1>2, <1>3, <3>1 DEF Types
  <2> QED
    BY <1>2, <1>3, <2>1, <2>2 DEF Types
<1>6. Reports' /\ \A j : Reported(j)' <=> Reported(j) \/ j = i
  <2>1. "none" \notin {"ok", "perm"} /\ Z \in Int /\ Z = Letter("none")
    BY DEF Letter, Z
  <2> QED
    BY <1>2, <1>3, <1>5, <2>1, OneMoreReport DEF Awaited
<1>7. Stream'
  <2>1. PICK st : Stages(st) /\ Named(st)
    BY DEF Live, Stream
  <2>2. /\ Total' = Total /\ Coming' = Coming /\ Current /\ ~Current'
        /\ \A k \in 1 .. Total : At(k)' = At(k)
    BY <1>2, <1>4 DEF Total, Coming, Current, Running, At
  <2>3. Stages(st)'
    BY <2>1, <2>2 DEF Stages
  <2>4. \A j : Awaited(j) /\ j # i => Awaited(j)'
    BY <1>2, <1>6 DEF Awaited
  <2>5. Named(st)'
    BY <1>1, <2>1, <2>2, <2>4 DEF Named
  <2> QED
    BY <2>3, <2>5 DEF Stream
<1>8. SlotsRight'
  <2>1. \A j \in Slots : Slot(j)
    BY DEF Live, SlotsRight
  <2>2. \A j \in Slots : Slot(j)'
    BY <2>1, <1>2, <1>3, <1>4, <1>6 DEF Slot, Current, Running, Awaited
  <2> QED
    BY <2>2 DEF SlotsRight, Slots
<1>9. Command'
  BY <1>2, <1>4 DEF Command, Current, Running
<1>10. Aborts'
  <2>1. Aborted' = Aborted \cup {i} /\ i \notin Aborted
    BY <1>2, <1>3, <1>6 DEF Aborted, Awaited
  <2>2. Cardinality(Aborted') = Cardinality(Aborted) + 1 /\ Cardinality(Aborted) \in Nat
    BY <2>1, SlotsFinite, FS_AddElement
  <2>3. CASE parse.flagabort
    <3>1. aborts' = aborts
      BY <1>1, <2>3 DEF DocmdFails
    <3> QED
      BY <1>4, <2>2, <2>3, <3>1 DEF Live, Aborts
  <2>4. CASE ~parse.flagabort
    <3>1. aborts' = aborts + 1
      BY <1>1, <1>3, <2>4 DEF DocmdFails, Abort, Awaited
    <3> QED
      BY <1>4, <2>2, <2>4, <3>1 DEF Live, Aborts
  <2> QED
    BY <2>3, <2>4
<1> QED
  BY <1>5, <1>6, <1>7, <1>8, <1>9, <1>10 DEF Live

\* End of file on a slot's pipe.
LEMMA ReportSteps ==
    ASSUME SpawnConstants, Live, alive, Report
    PROVE  Live'
<1>1. PICK i \in rfds :
        /\ reps' = reps \o <<i, Letter(d[i].wstat), NUL>>
        /\ d' = [d EXCEPT ![i].used = FALSE]
        /\ rfds' = rfds \ {i}
  BY DEF Report, Write
<1>2. /\ loop = "slots"
      /\ UNCHANGED <<del, comm, dline, cmds, loop, parse, child, ends, fate, aborts>>
  BY DEF Report, sendVars, childVars
<1>3. Types /\ i \in Slots
  BY <1>2 DEF Live, Command, Types
<1>4. /\ d[i].used /\ ~d[i].pid /\ del[i] /\ ~Reported(i) /\ child[i] = "none"
      /\ d[i].wstat = fate[i] /\ fate[i] # "none" /\ (Current => i # parse.delnum)
  BY <1>1, <1>3 DEF Live, SlotsRight, Slot
<1>5. /\ ~d'[i].used /\ \A j \in Slots : j # i => d'[j] = d[j]
      /\ d' \in [Slots -> SlotTypes]
  BY <1>1, <1>3 DEF Types, SlotTypes
<1>6. Letter(fate[i]) \in Int
  BY DEF Letter, K, D, Z
<1>7. Types'
  <2>1. reps' \in Seq(Int)
    <3>1. <<i, Letter(d[i].wstat), NUL>> \in Seq(Int)
      BY <1>3, <1>4, <1>6 DEF SpawnConstants, NUL, Slots
    <3> QED
      BY <1>1, <1>3, <3>1 DEF Types
  <2> QED
    BY <1>1, <1>2, <1>3, <1>5, <2>1 DEF Types
<1>8. Reports' /\ \A j : Reported(j)' <=> Reported(j) \/ j = i
  BY <1>1, <1>2, <1>3, <1>4, <1>5, <1>6, <1>7, OneMoreReport
<1>9. Stream'
  <2>1. /\ Coming' = Coming /\ (Current' <=> Current) /\ Total' = Total /\ Total \in Nat
        /\ \A k \in 1 .. Total : At(k)' = At(k)
    BY <1>2, <1>3 DEF Coming, Current, Running, Total, At, Types
  <2>2. \A j : Awaited(j) => Awaited(j)'
    BY <1>2, <1>4, <1>5, <1>8 DEF Awaited
  <2> QED
    BY <1>2, <2>1, <2>2, SameStream DEF Live
<1>10. SlotsRight'
  <2>1. \A j \in Slots : Slot(j)
    BY DEF Live, SlotsRight
  <2>2. \A j \in Slots : Slot(j)'
    BY <2>1, <1>1, <1>2, <1>3, <1>4, <1>5, <1>8 DEF Slot, Current, Running
  <2> QED
    BY <2>2 DEF SlotsRight, Slots
<1>11. Command'
  <2>1. Current => Awaited(parse.delnum)
    BY <1>2 DEF Live, Command
  <2>2. Current => Awaited(parse.delnum)'
    BY <1>2, <1>4, <1>5, <1>8, <2>1 DEF Awaited
  <2> QED
    BY <1>1, <1>2, <2>2 DEF Live, Command, Current, Running
<1>12. Aborts'
  <2>1. Aborted' = Aborted
    BY <1>2, <1>4, <1>8 DEF Aborted
  <2> QED
    BY <2>1, <1>2 DEF Aborts, Live
<1> QED
  BY <1>7, <1>8, <1>9, <1>10, <1>11, <1>12 DEF Live

\* The agent is entered in its slot.
LEMMA DocmdEndsSteps ==
    ASSUME SpawnConstants, Live, alive, DocmdEnds
    PROVE  Live'
<1>1. PICK n : n = parse.delnum
  OBVIOUS
<1>2. /\ loop = "forked" /\ loop' = "cmd"
      /\ d' = [d EXCEPT ![n].used = TRUE, ![n].pid = TRUE]
      /\ parse' = [parse EXCEPT !.stage = 0, !.flagabort = FALSE]
      /\ UNCHANGED <<del, comm, dline, cmds, reps, rfds, child, ends, fate, aborts>>
  BY <1>1 DEF DocmdEnds, HoldsEnd, NextCommand, sendVars
<1>3. /\ Types /\ n \in Slots /\ del[n] /\ ~d[n].used /\ ~Reported(n)
      /\ child[n] # "none" /\ SPAWN \in ends[n] /\ ~parse.flagabort
  BY <1>1, <1>2 DEF Live, Command
<1>4. parse' \in ParseTypes /\ parse'.stage = 0 /\ parse'.flagabort = FALSE
  <2>1. parse \in ParseTypes
    BY <1>3 DEF Types
  <2>2. 0 \in 0 .. 3
    OBVIOUS
  <2> QED
    BY <1>2, <2>1, <2>2 DEF ParseTypes
<1>5. /\ d' \in [Slots -> SlotTypes] /\ d'[n].used /\ d'[n].pid
      /\ \A i \in Slots : i # n => d'[i] = d[i]
  BY <1>2, <1>3 DEF Types, SlotTypes
<1>6. Types'
  BY <1>2, <1>3, <1>4, <1>5 DEF Types
<1>7. Reports' /\ \A i : Reported(i)' <=> Reported(i)
  <2>1. Pending' = Pending
    BY <1>2 DEF Pending
  <2> QED
    BY <1>2, <1>3, <1>5, <1>6, <2>1, SameReports DEF Live, Reports
<1>8. Stream'
  <2>1. PICK st : Stages(st) /\ Named(st)
    BY DEF Live, Stream
  <2>2. /\ Total' = Total /\ Coming' = Coming /\ Current /\ ~Current'
        /\ \A k \in 1 .. Total : At(k)' = At(k)
    BY <1>2, <1>4 DEF Total, Coming, Current, Running, At
  <2>3. Stages(st)'
    BY <2>1, <2>2 DEF Stages
  <2>4. \A j : Awaited(j) /\ j # n => Awaited(j)'
    BY <1>2, <1>5, <1>7 DEF Awaited
  <2>5. Named(st)'
    BY <1>1, <2>1, <2>2, <2>4 DEF Named
  <2> QED
    BY <2>3, <2>5 DEF Stream
<1>9. SlotsRight'
  <2>1. \A j \in Slots : Slot(j)
    BY DEF Live, SlotsRight
  <2>2. \A j \in Slots : Slot(j)'
    BY <2>1, <1>1, <1>2, <1>3, <1>4, <1>5, <1>7 DEF Slot, Current, Running
  <2> QED
    BY <2>2 DEF SlotsRight, Slots
<1>10. Command'
  BY <1>2, <1>4 DEF Command, Current, Running
<1>11. Aborts'
  <2>1. Aborted' = Aborted
    BY <1>2, <1>7 DEF Aborted
  <2> QED
    BY <2>1, <1>2, <1>3, <1>4 DEF Aborts, Live
<1> QED
  BY <1>6, <1>7, <1>8, <1>9, <1>10, <1>11 DEF Live

\* A byte read: the number of a command, or a byte of one of its strings.
LEMMA GetByteSteps ==
    ASSUME SpawnConstants, Live, alive, GetByte
    PROVE  Live'
<1>1. PICK ch : ch = Head(cmds)
  OBVIOUS
<1>2. /\ loop = "cmd" /\ cmds # <<>> /\ cmds' = Tail(cmds) /\ rfds' = rfds \ {CMD}
      /\ UNCHANGED <<del, comm, dline, reps, d, child, ends, fate>>
  BY DEF GetByte, sendVars, childVars
<1>3. Types /\ parse \in ParseTypes
  BY DEF Live, Types
<1>4. PICK n \in Nat : Len(cmds) = n + 1
  <2>1. Len(cmds) - 1 \in Nat /\ Len(cmds) = (Len(cmds) - 1) + 1
    BY <1>2, <1>3 DEF Types
  <2> QED
    BY <2>1
<1>5. PICK l \in Nat : l = Len(comm)
  BY <1>3 DEF Types
<1>6. /\ cmds' \in Seq(Int) /\ Len(cmds') = n /\ \A k \in 1 .. n : cmds'[k] = cmds[k + 1]
      /\ ch = cmds[1] /\ ch \in Int
  BY <1>1, <1>2, <1>3, <1>4 DEF Types
<1>7. /\ Total = (n + l) + 1 /\ Total' = n + l /\ At(1) = ch
      /\ \A k \in 1 .. n + l : At(k)' = At(k + 1)
  <2>1. Total = (n + l) + 1 /\ Total' = n + l
    BY <1>2, <1>4, <1>5, <1>6 DEF Total
  <2>2. At(1) = ch
    BY <1>4, <1>6 DEF At
  <2>3. ASSUME NEW k \in 1 .. n + l
        PROVE  At(k)' = At(k + 1)
    <3>1. CASE k <= n
      <4>1. k \in 1 .. n /\ k + 1 <= n + 1
        BY <3>1
      <4> QED
        BY <4>1, <1>4, <1>6 DEF At
    <3>2. CASE ~(k <= n)
      <4>1. ~(k + 1 <= n + 1) /\ (k + 1) - (n + 1) = k - n
        BY <3>2
      <4> QED
        BY <3>2, <4>1, <1>2, <1>4, <1>6 DEF At
    <3> QED
      BY <3>1, <3>2
  <2> QED
    BY <2>1, <2>2, <2>3
<1>8. PICK st : Stages(st) /\ Named(st)
  BY DEF Live, Stream
<1>9. /\ \A k \in 0 .. n + l : st[k + 1] \in 0 .. 3
      /\ \A k \in 1 .. n + l : st[k + 1] = After(st[k], At(k + 1))
      /\ st[(n + l) + 1] = 0 /\ st[1] = After(parse.stage, ch) /\ st[0] = parse.stage
  <2>1. Coming = parse.stage
    BY <1>2 DEF Coming, Running
  <2>2. st[0] = parse.stage /\ st[(n + l) + 1] = 0
    BY <1>7, <1>8, <2>1 DEF Stages
  <2>3. \A k \in 0 .. n + l : st[k + 1] \in 0 .. 3
    BY <1>7, <1>8 DEF Stages
  <2>4. \A k \in 1 .. (n + l) + 1 : st[k] = After(st[k - 1], At(k))
    BY <1>7, <1>8 DEF Stages
  <2>5. 1 \in 1 .. (n + l) + 1 /\ 1 - 1 = 0
    OBVIOUS
  <2>6. st[1] = After(st[0], At(1))
    BY <2>4, <2>5
  <2>7. \A k \in 1 .. n + l : k + 1 \in 1 .. (n + l) + 1 /\ (k + 1) - 1 = k
    OBVIOUS
  <2>8. \A k \in 1 .. n + l : st[k + 1] = After(st[k], At(k + 1))
    BY <2>4, <2>7
  <2> QED
    BY <1>7, <2>2, <2>3, <2>6, <2>8
<1>10. \A k \in 0 .. n + l : st[k] = 0 =>
          /\ Awaited(At(k + 1))
          /\ (Current => At(k + 1) # parse.delnum)
          /\ \A m \in 0 .. n + l : st[m] = 0 /\ At(m + 1) = At(k + 1) => m = k
  <2> SUFFICES ASSUME NEW k \in 0 .. n + l, st[k] = 0
               PROVE  /\ Awaited(At(k + 1))
                      /\ (Current => At(k + 1) # parse.delnum)
                      /\ \A m \in 0 .. n + l : st[m] = 0 /\ At(m + 1) = At(k + 1) => m = k
    OBVIOUS
  <2>1. k + 1 \in 1 .. (n + l) + 1 /\ (k + 1) - 1 = k
    OBVIOUS
  <2>2. \A m \in 1 .. (n + l) + 1 : st[m - 1] = 0 /\ At(m) = At(k + 1) => m = k + 1
    BY <1>7, <1>8, <2>1 DEF Named
  <2>3. \A m \in 0 .. n + l : m + 1 \in 1 .. (n + l) + 1 /\ (m + 1) - 1 = m
    OBVIOUS
  <2>4. \A m \in 0 .. n + l : st[m] = 0 /\ At(m + 1) = At(k + 1) => m + 1 = k + 1
    BY <2>2, <2>3
  <2>5. Awaited(At(k + 1)) /\ (Current => At(k + 1) # parse.delnum)
    BY <1>7, <1>8, <2>1 DEF Named
  <2> QED
    BY <2>4, <2>5
<1>11. PICK tt : tt = [k \in 0 .. n + l |-> st[k + 1]]
  OBVIOUS
<1>12. ASSUME Coming' = st[1]
       PROVE  Stages(tt)'
  <2>1. tt \in [0 .. n + l -> 0 .. 3]
    BY <1>9, <1>11
  <2>2. tt[0] = Coming' /\ tt[n + l] = 0
    BY <1>9, <1>11, <1>12
  <2>3. \A k \in 1 .. n + l : tt[k] = After(tt[k - 1], At(k)')
    <3> SUFFICES ASSUME NEW k \in 1 .. n + l
                 PROVE  tt[k] = After(tt[k - 1], At(k)')
      OBVIOUS
    <3>1. tt[k] = st[k + 1] /\ tt[k - 1] = st[k]
      BY <1>11
    <3> QED
      BY <3>1, <1>7, <1>9
  <2> QED
    BY <1>7, <2>1, <2>2, <2>3 DEF Stages
<1>13. ASSUME NEW x, Current', parse'.delnum = x,
              \A k \in 1 .. n + l : st[k] = 0 => \A e : e = At(k + 1) => Awaited(e)' /\ e # x
       PROVE  Named(tt)'
  <2> SUFFICES ASSUME NEW k \in 1 .. n + l, tt[k - 1] = 0
               PROVE  /\ Awaited(At(k))'
                      /\ At(k)' # x
                      /\ \A m \in 1 .. n + l : tt[m - 1] = 0 /\ At(m)' = At(k)' => m = k
    BY <1>7, <1>13 DEF Named
  <2>1. \A m \in 1 .. n + l : tt[m - 1] = st[m] /\ At(m)' = At(m + 1) /\ m \in 0 .. n + l
    BY <1>7, <1>11
  <2>2. At(k)' # x
    BY <1>13, <2>1
  <2>3. Awaited(At(k))'
    <3>1. PICK e : e = At(k)'
      OBVIOUS
    <3>2. e = At(k + 1) /\ st[k] = 0
      BY <3>1, <2>1
    <3>3. Awaited(e)'
      BY <3>2, <1>13
    <3> QED
      BY <3>1, <3>3
  <2>4. \A m \in 1 .. n + l : tt[m - 1] = 0 /\ At(m)' = At(k)' => m = k
    BY <2>1, <1>10
  <2> QED
    BY <2>2, <2>3, <2>4
<1>14. ASSUME Types'
       PROVE  Reports' /\ \A i : Reported(i)' <=> Reported(i)
  <2>1. Pending' = Pending
    BY <1>2 DEF Pending
  <2> QED
    BY <1>2, <1>3, <1>14, <2>1, SameReports DEF Live, Reports
<1>15. rfds' \in SUBSET (Slots \cup {CMD}) /\ \A i \in rfds' : i \in rfds
  BY <1>2, <1>3 DEF Types
<1>16. CASE parse.stage = 0
  <2>1. parse' = [parse EXCEPT !.stage = 1, !.delnum = ch] /\ loop' = loop /\ aborts' = aborts
    BY <1>1, <1>16 DEF GetByte
  <2>2. /\ parse' \in ParseTypes /\ parse'.stage = 1 /\ parse'.delnum = ch
        /\ parse'.flagabort = parse.flagabort
    <3>1. 1 \in 0 .. 3
      OBVIOUS
    <3> QED
      BY <1>3, <1>6, <2>1, <3>1 DEF ParseTypes
  <2>3. ~Current /\ ~parse.flagabort
    BY <1>2, <1>16 DEF Live, Command, Current, Running
  <2>4. Types'
    BY <1>2, <1>3, <1>6, <1>15, <2>2 DEF Types
  <2>5. Reports' /\ \A i : Reported(i)' <=> Reported(i)
    BY <2>4, <1>14
  <2>6. \A i : Awaited(i)' <=> Awaited(i)
    BY <1>2, <2>5 DEF Awaited
  <2>7. Awaited(ch)
    <3>1. st[0] = 0 /\ 0 \in 0 .. n + l /\ At(0 + 1) = ch
      BY <1>7, <1>9, <1>16
    <3> QED
      BY <3>1, <1>10
  <2>8. ~Running' /\ Current' /\ Coming' = 1
    BY <1>2, <2>1, <2>2 DEF Running, Current, Coming
  <2>9. Coming' = st[1]
    BY <2>8, <1>9, <1>16 DEF After
  <2>10. \A k \in 1 .. n + l : st[k] = 0 => \A e : e = At(k + 1) => Awaited(e)' /\ e # ch
    <3>1. st[0] = 0 /\ 0 \in 0 .. n + l /\ At(0 + 1) = ch
      BY <1>7, <1>9, <1>16
    <3>2. \A k \in 1 .. n + l : k \in 0 .. n + l /\ k # 0
      OBVIOUS
    <3>3. \A k \in 1 .. n + l : st[k] = 0 => Awaited(At(k + 1)) /\ At(k + 1) # ch
      BY <3>1, <3>2, <1>10
    <3> QED
      BY <3>3, <2>6
  <2>11. Stream'
    BY <2>2, <2>8, <2>9, <2>10, <1>12, <1>13 DEF Stream
  <2>12. SlotsRight'
    <3>1. \A j \in Slots : Slot(j)
      BY DEF Live, SlotsRight
    <3>2. \A j \in Slots : Slot(j)'
      BY <3>1, <1>2, <1>15, <2>1, <2>2, <2>5, <2>7 DEF Slot, Current, Running, Awaited
    <3> QED
      BY <3>2 DEF SlotsRight, Slots
  <2>13. Command'
    <3>1. Awaited(parse.delnum)'
      BY <2>2, <2>6, <2>7
    <3> QED
      BY <3>1, <2>1, <2>2, <2>3, <2>8, <1>2 DEF Command
  <2>14. Aborts'
    <3>1. Aborted' = Aborted
      BY <1>2, <2>5 DEF Aborted
    <3> QED
      BY <3>1, <2>1, <2>2 DEF Aborts, Live
  <2> QED
    BY <2>4, <2>5, <2>11, <2>12, <2>13, <2>14 DEF Live
<1>17. CASE parse.stage # 0
  <2>1. PICK failed \in BOOLEAN :
          /\ IF failed THEN Abort ELSE UNCHANGED aborts
          /\ parse' = [parse EXCEPT
                       !.stage = IF ch = NUL /\ @ < 3 THEN @ + 1 ELSE @,
                       !.flagabort = @ \/ failed]
    BY <1>1, <1>17 DEF GetByte
  <2>2. loop' = IF ch = NUL /\ parse.stage = 3 THEN "docmd" ELSE loop
    BY <1>1, <1>17 DEF GetByte
  <2>3. /\ parse' \in ParseTypes /\ parse'.delnum = parse.delnum
        /\ parse'.stage = IF ch = NUL /\ parse.stage < 3 THEN parse.stage + 1 ELSE parse.stage
        /\ parse'.flagabort <=> (parse.flagabort \/ failed)
    <3>1. parse.stage \in 0 .. 3
      BY <1>3 DEF ParseTypes
    <3>2. (IF ch = NUL /\ parse.stage < 3 THEN parse.stage + 1 ELSE parse.stage) \in 0 .. 3
      BY <3>1
    <3> QED
      BY <1>3, <2>1, <3>2 DEF ParseTypes
  <2>4. Types'
    BY <1>2, <1>3, <1>6, <1>15, <2>3 DEF Types
  <2>5. Reports' /\ \A i : Reported(i)' <=> Reported(i)
    BY <2>4, <1>14
  <2>6. \A i : Awaited(i)' <=> Awaited(i)
    BY <1>2, <2>5 DEF Awaited
  <2>7. Current /\ Awaited(parse.delnum) /\ Current'
    <3>1. Current /\ parse'.stage # 0
      BY <1>3, <1>17, <2>3 DEF Current, ParseTypes
    <3> QED
      BY <3>1, <1>2 DEF Live, Command, Current
  <2>8. Coming' = st[1]
    <3>1. parse.stage \in 0 .. 3
      BY <1>3 DEF ParseTypes
    <3> QED
      BY <3>1, <1>2, <1>9, <1>17, <2>2, <2>3 DEF After, Coming, Running
  <2>9. \A k \in 1 .. n + l : st[k] = 0 =>
            \A e : e = At(k + 1) => Awaited(e)' /\ e # parse.delnum
    <3>1. \A k \in 1 .. n + l : st[k] = 0 => Awaited(At(k + 1)) /\ At(k + 1) # parse.delnum
      BY <1>10, <2>7
    <3> QED
      BY <3>1, <2>6
  <2>10. Stream'
    BY <2>3, <2>7, <2>8, <2>9, <1>12, <1>13 DEF Stream
  <2>11. SlotsRight'
    <3>1. \A j \in Slots : Slot(j)
      BY DEF Live, SlotsRight
    <3>2. loop' # "forked"
      BY <1>2, <2>2
    <3>3. \A j \in Slots : Slot(j)'
      BY <3>1, <3>2, <1>2, <1>15, <2>3, <2>5, <2>7 DEF Slot
    <3> QED
      BY <3>3 DEF SlotsRight, Slots
  <2>12. Command'
    <3>1. Awaited(parse.delnum)'
      BY <2>3, <2>6, <2>7
    <3>2. loop' \in {"cmd", "docmd"} /\ (loop' = "docmd" => parse'.stage = 3)
      BY <1>2, <2>2, <2>3
    <3> QED
      BY <3>1, <3>2, <2>7 DEF Command, Running
  <2>13. Aborts'
    <3>1. Aborted' = Aborted
      BY <1>2, <2>5 DEF Aborted
    <3>2. aborts' = IF failed THEN aborts + 1 ELSE aborts
      BY <2>1 DEF Abort
    <3> QED
      BY <3>1, <3>2, <2>3, SlotsFinite DEF Aborts, Live
  <2> QED
    BY <2>4, <2>5, <2>10, <2>11, <2>12, <2>13 DEF Live
<1> QED
  BY <1>16, <1>17

\* The invariant holds at the start.
LEMMA Starts ==
    ASSUME SpawnConstants, Init
    PROVE  SpawnInv
<1>1. Types
  <2>1. \A i \in Slots : [used |-> FALSE, pid |-> FALSE, wstat |-> "ok"] \in SlotTypes
    BY DEF SlotTypes
  <2> QED
    BY <2>1 DEF Init, Types, ParseTypes
<1>2. Total = 0 /\ Coming = 0 /\ ~Current /\ ~Running
  BY DEF Init, Total, Coming, Current, Running
<1>3. Stream
  <2>1. PICK st : st = [k \in 0 .. 0 |-> 0]
    OBVIOUS
  <2>2. Stages(st) /\ Named(st)
    BY <1>2, <2>1 DEF Stages, Named
  <2> QED
    BY <2>2 DEF Stream
<1>4. Pending = <<>> /\ PendingReports = {}
  BY DEF Init, Pending, PendingReports
<1>5. \A i : ~Reported(i)
  BY <1>4 DEF Reported
<1>6. Reports
  BY <1>4 DEF Init, Reports
<1>7. SlotsRight
  BY DEF Init, SlotsRight, Slot
<1>8. Command
  BY <1>2 DEF Init, Command, Running
<1>9. Aborts
  <2>1. Aborted = {}
    BY <1>5 DEF Aborted
  <2> QED
    BY <2>1, FS_EmptySet DEF Init, Aborts
<1> QED
  BY <1>1, <1>3, <1>6, <1>7, <1>8, <1>9 DEF Init, SpawnInv, Live

\* Without qmail-send.
LEMMA Dead ==
    ASSUME SpawnConstants, SpawnInv, ~alive, Next
    PROVE  SpawnInv'
<1>1. aborts \in Nat /\ dline = <<>> /\ reps = <<>>
  BY DEF SpawnInv
<1>2. ~alive' /\ dline' = dline /\ reps' = reps /\ (aborts' = aborts \/ aborts' = aborts + 1)
  <2>1. CASE Sigchld \/ Select \/ GetEof \/ GetEnds \/ Fork \/ DocmdEnds \/ Again
    <3>1. Sigchld => UNCHANGED <<sendVars, reps, aborts>>
      BY DEF Sigchld
    <3>2. Select \/ GetEof \/ GetEnds \/ Again => UNCHANGED <<sendVars, reps, aborts>>
      BY DEF Select, GetEof, GetEnds, Again
    <3>3. Fork \/ DocmdEnds => UNCHANGED <<sendVars, reps, aborts>>
      BY DEF Fork, DocmdEnds
    <3>4. UNCHANGED <<sendVars, reps, aborts>>
      BY <2>1, <3>1, <3>2, <3>3
    <3> QED
      BY <3>4 DEF sendVars
  <2>2. CASE GetByte
    BY <2>2 DEF GetByte, Abort, sendVars
  <2>3. CASE DocmdFails
    BY <2>3 DEF DocmdFails, Abort, Write, sendVars
  <2>4. CASE Report
    BY <2>4 DEF Report, Write, sendVars
  <2>5. ASSUME NEW i \in Slots, AgentStep(i) \/ Exits(i) \/ OrphanExits(i)
        PROVE  UNCHANGED <<sendVars, reps, aborts>>
    BY <2>5 DEF AgentStep, Exec, ClosesOutput, LeavesOrphan, Exits, OrphanExits
  <2>6. CASE Stopped
    BY <2>6 DEF Stopped, vars, sendVars
  <2> QED
    BY <2>1, <2>2, <2>3, <2>4, <2>5, <2>6
       DEF Next, SpawnStep, Ask, CommDo, DelDochan, SendDies, sendVars
<1> QED
  BY <1>1, <1>2 DEF SpawnInv

\* Every step keeps the invariant.
LEMMA Steps ==
    ASSUME SpawnConstants, SpawnInv, [Next]_vars
    PROVE  SpawnInv'
<1>1. CASE UNCHANGED vars
  <2>1. Stream' <=> Stream
    BY <1>1 DEF vars, sendVars, spawnVars, childVars, Stream, Stages, Named, Total, At, Coming,
        Current, Running, Awaited, Reported, PendingReports, Pending
  <2>2. /\ UNCHANGED <<del, comm, dline, alive, cmds, reps, loop, rfds, parse, flagreading>>
        /\ UNCHANGED <<d, child, ends, fate, aborts>>
    BY <1>1 DEF vars, sendVars, spawnVars, childVars
  <2>3. \A i : Reported(i)' <=> Reported(i)
    BY <2>2 DEF Reported, PendingReports, Pending
  <2>4. Types' <=> Types
    BY <2>2 DEF Types
  <2>5. SlotsRight' <=> SlotsRight
    BY <2>2, <2>3 DEF SlotsRight, Slot, Current, Running
  <2>6. Command' <=> Command
    BY <2>2, <2>3 DEF Command, Current, Running, Awaited
  <2>7. Reports' <=> Reports
    BY <2>2 DEF Reports, PendingReports, Pending
  <2>8. Aborts' <=> Aborts
    <3>1. Aborted' = Aborted
      BY <2>2, <2>3 DEF Aborted
    <3> QED
      BY <2>2, <3>1 DEF Aborts
  <2>9. Live' <=> Live
    BY <2>1, <2>4, <2>5, <2>6, <2>7, <2>8 DEF Live
  <2> QED
    BY <2>2, <2>9 DEF SpawnInv
<1>2. CASE ~alive /\ Next
  BY <1>2, Dead
<1>3. CASE alive /\ Next
  <2>1. Live /\ alive
    BY <1>3 DEF SpawnInv
  <2>2. CASE SendDies
    BY <2>2 DEF SendDies, SpawnInv
  <2>3. CASE Stopped
    BY <2>3, <1>1 DEF Stopped
  <2>4. ASSUME ~SendDies, ~Stopped
        PROVE  Live' /\ alive'
    <3>1. alive'
      BY <2>1, <2>4, <1>3 DEF Next, SpawnStep, AgentStep, Ask, CommDo, DelDochan, Sigchld, Select,
         GetEof, GetByte, GetEnds, DocmdFails, Fork, DocmdEnds, Report, Again, Exec,
         ClosesOutput, LeavesOrphan, Exits, OrphanExits, sendVars
    <3>2. Live'
      <4>1. CASE Ask
        BY <2>1, <4>1, AskSteps
      <4>2. CASE CommDo
        BY <2>1, <4>2, CommDoSteps
      <4>3. CASE DelDochan
        BY <2>1, <4>3, DelDochanSteps
      <4>4. CASE SpawnStep
        BY <2>1, <4>4, SigchldSteps, LoopSteps, GetByteSteps, DocmdFailsSteps, ForkSteps,
           DocmdEndsSteps, ReportSteps DEF SpawnStep
      <4>5. ASSUME NEW i \in Slots, AgentStep(i) \/ Exits(i) \/ OrphanExits(i)
            PROVE  Live'
        BY <2>1, <4>5, AgentSteps
      <4> QED
        BY <1>3, <2>4, <4>1, <4>2, <4>3, <4>4, <4>5 DEF Next
    <3> QED
      BY <3>1, <3>2
  <2>5. Live' => aborts' \in Nat
    BY DEF Live, Aborts
  <2> QED
    BY <2>2, <2>3, <2>4, <2>5 DEF SpawnInv
<1> QED
  BY <1>1, <1>2, <1>3

\* The invariant says what has to be shown.
LEMMA Right ==
    ASSUME SpawnConstants, SpawnInv
    PROVE  Truthful /\ OneReport /\ AbortsOne
<1>1. CASE ~alive
  <2>1. Pending = <<>>
    BY <1>1 DEF SpawnInv, Pending
  <2>2. PendingReports = {}
    BY <2>1 DEF PendingReports
  <2>3. AbortsOne
    <3>1. {i \in Slots : fate[i] = "none" /\ \E k \in PendingReports : Pending[k] = i} = {}
      BY <2>2
    <3> QED
      BY <3>1, FS_EmptySet DEF AbortsOne, SpawnInv
  <2> QED
    BY <1>1, <2>2, <2>3 DEF Truthful, OneReport
<1>2. CASE alive
  <2>1. Live
    BY <1>2 DEF SpawnInv
  <2>2. \A k \in PendingReports : LET i == Pending[k] IN
            /\ i \in Slots /\ del[i] /\ ~d[i].used /\ Pending[k + 1] = Letter(fate[i])
    BY <2>1 DEF Live, Reports, PendingReports
  <2>3. Truthful
    BY <2>2 DEF Truthful, Letter, K, D, Z
  <2>4. OneReport
    BY <2>1, <2>2 DEF OneReport, Live, Reports, Command, Current, Running, Awaited
  <2>5. AbortsOne
    BY <2>1, SlotsFinite DEF AbortsOne, Live, Aborts, Aborted, Reported
  <2> QED
    BY <2>3, <2>4, <2>5
<1> QED
  BY <1>1, <1>2

(* For every concurrency and every size of the pipes: a report of success  *)
(* or of permanent failure says how the agent of this very command ended,  *)
(* there is one report at most for a delivery, and what runs out of memory *)
(* is one command (spawn.c:30, 89, 92).                                    *)
THEOREM SpawnCorrect ==
    SpawnConstants => (Spec => [](Truthful /\ OneReport /\ AbortsOne))
<1> SUFFICES ASSUME SpawnConstants
             PROVE  Spec => [](Truthful /\ OneReport /\ AbortsOne)
  OBVIOUS
<1>1. Init => SpawnInv
  BY Starts
<1>2. SpawnInv /\ [Next]_vars => SpawnInv'
  BY Steps
<1>3. SpawnInv => Truthful /\ OneReport /\ AbortsOne
  BY Right
<1> QED
  BY <1>1, <1>2, <1>3, PTL DEF Spec
=============================================================================
