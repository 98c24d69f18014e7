----------------------------- MODULE LocalProofs ----------------------------
(***************************************************************************)
(* Proofs about local deliveries, for the values that MCLocal leaves to    *)
(* the constants: a maildir with all who use it at once (Boxes is          *)
(* Maildir), forwarding in circles (Looping is Loops), and a delivery      *)
(* (Instructions and Governing are QmailLocal).                            *)
(***************************************************************************)
EXTENDS MCLocal, FiniteSetTheorems, TLAPS

-----------------------------------------------------------------------------
(* A maildir.                                                              *)

Infos == {"2,", "2,S"}
Entries == [dir : {"new", "cur"}, name : Deliveries, info : Infos \cup {""}]
Lives == [pc : {"start", "write", "fsync", "link", "linked", "exit0", "exit1", "exit3", "killed"},
          age : Nat]
Readers == [pc : {"idle", "new", "cur", "commands", "quit"}, list : SUBSET Entries,
          flagdeleted : SUBSET Entries, todo : SUBSET Entries]

MaildirTypes ==
    /\ new \in SUBSET Deliveries /\ cur \in SUBSET (Deliveries \X Infos)
    /\ data \in [Deliveries -> {"none", "part", "whole", "synced"}]
    /\ del \in [Deliveries -> Lives] /\ maildirS \in [Sessions -> Readers]
    /\ deleted \in SUBSET Deliveries /\ asked \in [Sessions -> SUBSET Deliveries]

\* The file in tmp/ is as old as the delivery, which its alarm ends in time.
Young(p) == p \in DOMAIN tmp /\ tmp[p] \in Nat /\ tmp[p] <= del[p].age /\ del[p].age <= 2
AllYoung ==
    /\ \A p \in Deliveries : del[p].pc = "start" => del[p].age = 0
    /\ \A p \in Deliveries : Boxes!Live(p) => Young(p)

\* A file appears once, when it is synced, and stays unless its user asks.
There(p) == p \in new \/ \E i \in Infos : <<p, i>> \in cur
Early == {"start", "write", "fsync", "link"}
Stays ==
    /\ \A p \in Deliveries : del[p].pc \in Early => ~There(p)
    /\ \A p \in Deliveries : del[p].pc = "link" \/ There(p) => data[p] = "synced"
    /\ \A p \in Deliveries : del[p].pc \in {"linked", "exit0"} => There(p) \/ p \in deleted
    /\ \A p \in Deliveries : \A i, j \in Infos :
         /\ ~(p \in new /\ <<p, i>> \in cur)
         /\ <<p, i>> \in cur /\ <<p, j>> \in cur => i = j

\* What a session may unlink.
Marked ==
    \A u \in Sessions : \A f \in maildirS[u].flagdeleted :
        f.name \in asked[u] /\ (maildirS[u].pc = "quit" => f.name \in deleted)

MaildirInv == MaildirTypes /\ AllYoung /\ Stays /\ Marked

LEMMA MaildirStarts ==
    ASSUME Boxes!Init
    PROVE  MaildirInv
<1>1. MaildirTypes
  BY DEF Boxes!Init, MaildirTypes, Lives, Readers, Boxes!Idle
<1>2. AllYoung
  BY DEF Boxes!Init, AllYoung, Boxes!Live
<1>3. Stays
  BY DEF Boxes!Init, Stays, There, Early
<1>4. Marked
  BY DEF Boxes!Init, Marked, Boxes!Idle
<1> QED
  BY <1>1, <1>2, <1>3, <1>4 DEF MaildirInv

\* What a step does to the place of one delivery.
LEMMA Moves ==
    ASSUME MaildirTypes, NEW p \in Deliveries, NEW c \in {"start", "write", "fsync", "link",
             "linked", "exit0", "exit1", "exit3", "killed"}, Boxes!To(p, c)
    PROVE  /\ del' \in [Deliveries -> Lives] /\ del'[p].pc = c /\ del'[p].age = del[p].age
           /\ \A q \in Deliveries : q # p => del'[q] = del[q]
BY DEF Boxes!To, MaildirTypes, Lives

LEMMA DeliverySteps ==
    ASSUME MaildirInv, NEW p \in Deliveries, Boxes!Delivery(p)
    PROVE  MaildirInv'
<1>t. MaildirTypes
  BY DEF MaildirInv
<1>r. UNCHANGED Boxes!readers
  BY DEF Boxes!Delivery, Boxes!Create, Boxes!WriteAll, Boxes!Fsync, Boxes!LinkNew, Boxes!ExitOk,
     Boxes!Fails, Boxes!Sigalrm, Boxes!Killed, Boxes!Exit
<1>m. Marked'
  BY <1>r DEF Boxes!readers, Marked, MaildirInv
<1>1. CASE Boxes!Create(p)
  <2>1. /\ Boxes!To(p, "write") /\ UNCHANGED new /\ data' = [data EXCEPT ![p] = "part"]
        /\ del[p].pc = "start" /\ del[p].age = 0
        /\ tmp' = [n \in DOMAIN tmp \cup {p} |-> IF n = p THEN 0 ELSE tmp[n]]
    BY <1>1 DEF Boxes!Create, MaildirInv, AllYoung
  <2>2. /\ del' \in [Deliveries -> Lives] /\ del'[p].pc = "write" /\ del'[p].age = 0
        /\ \A q \in Deliveries : q # p => del'[q] = del[q]
    BY <1>t, <2>1, Moves
  <2>3. MaildirTypes'
    BY <1>t, <1>r, <2>1, <2>2 DEF MaildirTypes, Boxes!readers
  <2>4. AllYoung'
    BY <2>1, <2>2 DEF MaildirInv, AllYoung, Boxes!Live, Young
  <2>5. Stays'
    BY <1>t, <1>r, <2>1, <2>2 DEF MaildirInv, Stays, There, Early, Boxes!readers, MaildirTypes
  <2> QED
    BY <1>m, <2>3, <2>4, <2>5 DEF MaildirInv
<1>2. CASE Boxes!WriteAll(p) \/ Boxes!Fsync(p)
  <2>1. PICK c \in {"fsync", "link"}, x \in {"whole", "synced"} :
          /\ Boxes!To(p, c) /\ data' = [data EXCEPT ![p] = x] /\ (c = "link" => x = "synced")
          /\ UNCHANGED <<new, tmp>> /\ del[p].pc \in {"write", "fsync"}
    BY <1>2 DEF Boxes!WriteAll, Boxes!Fsync, Boxes!Synced
  <2>2. /\ del' \in [Deliveries -> Lives] /\ del'[p].pc = c /\ del'[p].age = del[p].age
        /\ \A q \in Deliveries : q # p => del'[q] = del[q]
    BY <1>t, <2>1, Moves
  <2>3. MaildirTypes'
    BY <1>t, <1>r, <2>1, <2>2 DEF MaildirTypes, Boxes!readers
  <2>4. AllYoung'
    BY <2>1, <2>2 DEF MaildirInv, AllYoung, Boxes!Live, Young
  <2>5. Stays'
    BY <1>t, <1>r, <2>1, <2>2 DEF MaildirInv, Stays, There, Early, Boxes!readers, MaildirTypes
  <2> QED
    BY <1>m, <2>3, <2>4, <2>5 DEF MaildirInv
<1>3. CASE Boxes!LinkNew(p)
  <2>1. Boxes!To(p, "linked") /\ UNCHANGED <<data, tmp>> /\ del[p].pc = "link"
          /\ new' = new \cup {p}
    BY <1>3 DEF Boxes!LinkNew
  <2>2. /\ del' \in [Deliveries -> Lives] /\ del'[p].pc = "linked" /\ del'[p].age = del[p].age
        /\ \A q \in Deliveries : q # p => del'[q] = del[q]
    BY <1>t, <2>1, Moves
  <2>3. MaildirTypes'
    BY <1>t, <1>r, <2>1, <2>2 DEF MaildirTypes, Boxes!readers
  <2>4. AllYoung'
    BY <2>1, <2>2 DEF MaildirInv, AllYoung, Boxes!Live, Young
  <2>5. Stays'
    <3>1. ~There(p) /\ data[p] = "synced"
      BY <2>1 DEF MaildirInv, Stays, Early
    <3>2. cur' = cur /\ deleted' = deleted
      BY <1>r DEF Boxes!readers
    <3> QED
      BY <2>1, <2>2, <3>1, <3>2 DEF MaildirInv, Stays, There, Early
  <2> QED
    BY <1>m, <2>3, <2>4, <2>5 DEF MaildirInv
<1>4. CASE Boxes!ExitOk(p) \/ Boxes!Fails(p) \/ Boxes!Sigalrm(p) \/ Boxes!Killed(p)
  <2>1. PICK c \in {"exit0", "exit1", "exit3", "killed"} :
          /\ Boxes!To(p, c) /\ UNCHANGED <<new, data>> /\ tmp' \in {Boxes!Without(p), tmp}
          /\ (c = "exit0" => del[p].pc = "linked")
    BY <1>4 DEF Boxes!ExitOk, Boxes!Fails, Boxes!Sigalrm, Boxes!Killed, Boxes!Exit
  <2>2. /\ del' \in [Deliveries -> Lives] /\ del'[p].pc = c /\ del'[p].age = del[p].age
        /\ \A q \in Deliveries : q # p => del'[q] = del[q]
    BY <1>t, <2>1, Moves
  <2>3. MaildirTypes'
    BY <1>t, <1>r, <2>1, <2>2 DEF MaildirTypes, Boxes!readers
  <2>4. AllYoung'
    <3>1. \A q \in Deliveries : q # p /\ q \in DOMAIN tmp => q \in DOMAIN tmp' /\ tmp'[q] = tmp[q]
      BY <2>1 DEF Boxes!Without
    <3> QED
      BY <2>2, <3>1 DEF MaildirInv, AllYoung, Boxes!Live, Young
  <2>5. Stays'
    BY <1>r, <2>1, <2>2 DEF MaildirInv, Stays, There, Early, Boxes!readers
  <2> QED
    BY <1>m, <2>3, <2>4, <2>5 DEF MaildirInv
<1> QED
  BY <1>1, <1>2, <1>3, <1>4 DEF Boxes!Delivery

\* A step of a session, or of another reader, touches no delivery.
LEMMA Undelivered ==
    ASSUME MaildirInv, UNCHANGED <<data, del>>, MaildirTypes', Marked',
           \A p \in Deliveries : Boxes!Live(p) /\ Young(p) => p \in DOMAIN tmp' /\ tmp'[p] = tmp[p],
           Stays'
    PROVE  MaildirInv'
BY DEF MaildirInv, AllYoung, Boxes!Live, Young

\* What a session lists and marks.
LEMMA SessionMoves ==
    ASSUME MaildirTypes, NEW u \in Sessions, NEW r \in Readers, Boxes!Session(u, r)
    PROVE  /\ maildirS' \in [Sessions -> Readers] /\ maildirS'[u] = r
           /\ \A v \in Sessions : v # u => maildirS'[v] = maildirS[v]
BY DEF Boxes!Session, MaildirTypes

LEMMA FilesType ==
    ASSUME MaildirTypes
    PROVE  /\ Boxes!Files \in SUBSET Entries
           /\ \A n \in SUBSET new : {Boxes!File("new", m, "") : m \in n} \in SUBSET Entries
<1>1. \A m \in Deliveries : Boxes!File("new", m, "") \in Entries
  BY DEF Boxes!File, Entries
<1>2. \A c \in Deliveries \X Infos : Boxes!File("cur", c[1], c[2]) \in Entries
  BY DEF Boxes!File, Entries
<1>3. \A m \in new : m \in Deliveries
  BY DEF MaildirTypes
<1>4. \A c \in cur : c \in Deliveries \X Infos
  BY DEF MaildirTypes
<1>5. \A f \in Boxes!Files : f \in Entries
  BY <1>1, <1>2, <1>3, <1>4 DEF Boxes!Files
<1>6. \A n \in SUBSET new : \A f \in {Boxes!File("new", m, "") : m \in n} : f \in Entries
  BY <1>1, <1>3
<1> QED
  BY <1>5, <1>6

LEMMA Looks ==
    ASSUME MaildirInv, NEW u \in Sessions,
           \/ Boxes!Clean(u) \/ Boxes!ScanNew(u) \/ Boxes!ScanCur(u) \/ Boxes!Rset(u)
                \/ Boxes!Quit(u) \/ Boxes!SessionEnds(u)
           \/ \E f \in maildirS[u].list : Boxes!Dele(u, f)
    PROVE  MaildirInv'
<1>t. MaildirTypes /\ Marked /\ maildirS[u] \in Readers
  BY DEF MaildirInv, MaildirTypes
<1>i. Boxes!Idle \in Readers /\ Boxes!Idle.flagdeleted = {}
  BY DEF Boxes!Idle, Readers
<1>1. UNCHANGED <<new, cur, data, del>> /\ (deleted' = deleted \/ deleted' = deleted \cup asked[u])
  BY DEF Boxes!Clean, Boxes!ScanNew, Boxes!ScanCur, Boxes!Rset, Boxes!Quit, Boxes!SessionEnds,
     Boxes!Dele
<1>2. Stays'
  BY <1>1 DEF MaildirInv, Stays, There
<1>3. \A p \in Deliveries : Boxes!Live(p) /\ Young(p) => p \in DOMAIN tmp' /\ tmp'[p] = tmp[p]
  <2>1. CASE Boxes!Clean(u)
    <3> SUFFICES ASSUME NEW p \in Deliveries, Young(p)
                 PROVE  p \in DOMAIN tmp' /\ tmp'[p] = tmp[p]
      OBVIOUS
    <3>1. p \in DOMAIN tmp /\ tmp[p] \in Nat /\ tmp[p] <= 2
      BY <1>t DEF Young, MaildirTypes, Lives
    <3> QED
      BY <2>1, <3>1 DEF Boxes!Clean, Boxes!Old
  <2>2. CASE tmp' = tmp
    BY <2>2 DEF Young
  <2> QED
    BY <2>1, <2>2 DEF Boxes!ScanNew, Boxes!ScanCur, Boxes!Rset, Boxes!Quit, Boxes!SessionEnds,
       Boxes!Dele
<1>4. PICK r \in Readers :
        /\ Boxes!Session(u, r)
        /\ r.flagdeleted = {} \/ r.flagdeleted \in SUBSET maildirS[u].flagdeleted
             \/ \E f \in Entries : r.flagdeleted = maildirS[u].flagdeleted \cup {f}
                  /\ f.name \in asked'[u]
        /\ r.flagdeleted # {} => asked[u] \in SUBSET asked'[u]
        /\ r.pc = "quit" => asked' = asked /\ deleted' = deleted \cup asked[u]
                            /\ r.flagdeleted = maildirS[u].flagdeleted
        /\ asked' \in [Sessions -> SUBSET Deliveries]
        /\ \A v \in Sessions : v # u => asked'[v] = asked[v]
  <2>1. CASE Boxes!Clean(u)
    <3> DEFINE r == [Boxes!Idle EXCEPT !.pc = "new"]
    <3>1. r \in Readers /\ r.flagdeleted = {} /\ r.pc = "new"
      BY <1>i DEF Readers
    <3>2. Boxes!Session(u, r) /\ asked' = [asked EXCEPT ![u] = {}]
      BY <2>1 DEF Boxes!Clean
    <3> HIDE DEF r
    <3> QED
      BY <1>t, <3>1, <3>2 DEF MaildirTypes
  <2>2. CASE Boxes!ScanNew(u)
    <3>1. PICK n \in SUBSET new : maildirS' = [maildirS EXCEPT ![u] =
             [maildirS[u] EXCEPT !.pc = "cur", !.list = {Boxes!File("new", m, "") : m \in n}]]
      <4>1. PICK fresh \in SUBSET new : Boxes!Session(u, [maildirS[u] EXCEPT !.pc = "cur",
                     !.list = {Boxes!File("new", m, "") : m \in new \ fresh}])
        BY <2>2 DEF Boxes!ScanNew
      <4> QED
        BY <4>1 DEF Boxes!Session
    <3> DEFINE l == {Boxes!File("new", m, "") : m \in n}
               r == [maildirS[u] EXCEPT !.pc = "cur", !.list = l]
    <3>2. l \in SUBSET Entries
      BY <1>t, FilesType
    <3>3. Boxes!Session(u, r) /\ asked' = asked
      BY <2>2, <3>1 DEF Boxes!ScanNew, Boxes!Session
    <3> HIDE DEF l
    <3>4. r \in Readers /\ r.flagdeleted = maildirS[u].flagdeleted /\ r.pc = "cur"
      BY <1>t, <3>2 DEF Readers
    <3> HIDE DEF r
    <3> QED
      BY <1>t, <3>3, <3>4 DEF MaildirTypes
  <2>3. CASE Boxes!ScanCur(u)
    <3> DEFINE l == maildirS[u].list \cup {f \in Boxes!Files : f.dir = "cur"}
               r == [maildirS[u] EXCEPT !.pc = "commands", !.list = l]
    <3>2. l \in SUBSET Entries
      BY <1>t, FilesType DEF Readers
    <3>3. Boxes!Session(u, r) /\ asked' = asked
      BY <2>3 DEF Boxes!ScanCur
    <3> HIDE DEF l
    <3>4. r \in Readers /\ r.flagdeleted = maildirS[u].flagdeleted /\ r.pc = "commands"
      BY <1>t, <3>2 DEF Readers
    <3> HIDE DEF r
    <3> QED
      BY <1>t, <3>3, <3>4 DEF MaildirTypes
  <2>4. CASE Boxes!Rset(u)
    <3> DEFINE r == [maildirS[u] EXCEPT !.flagdeleted = {}]
    <3>3. Boxes!Session(u, r) /\ asked' = [asked EXCEPT ![u] = {}] /\ maildirS[u].pc = "commands"
      BY <2>4 DEF Boxes!Rset, Boxes!Undeleted
    <3>4. r \in Readers /\ r.flagdeleted = {} /\ r.pc = "commands"
      BY <1>t, <3>3 DEF Readers
    <3> HIDE DEF r
    <3> QED
      BY <1>t, <3>3, <3>4 DEF MaildirTypes
  <2>5. CASE Boxes!Quit(u)
    <3> DEFINE r == [maildirS[u] EXCEPT !.pc = "quit", !.todo = maildirS[u].list]
    <3>3. Boxes!Session(u, r) /\ asked' = asked /\ deleted' = deleted \cup asked[u]
      BY <2>5 DEF Boxes!Quit
    <3>4. r \in Readers /\ r.flagdeleted = maildirS[u].flagdeleted /\ r.pc = "quit"
      BY <1>t DEF Readers
    <3> HIDE DEF r
    <3> QED
      BY <1>t, <3>3, <3>4 DEF MaildirTypes
  <2>6. CASE Boxes!SessionEnds(u)
    <3>1. Boxes!Session(u, Boxes!Idle) /\ asked' = asked /\ Boxes!Idle.pc = "idle"
      BY <2>6 DEF Boxes!SessionEnds, Boxes!Idle
    <3> QED
      BY <1>t, <1>i, <3>1 DEF MaildirTypes
  <2>7. CASE \E f \in maildirS[u].list : Boxes!Dele(u, f)
    <3>1. PICK f \in maildirS[u].list : Boxes!Dele(u, f)
      BY <2>7
    <3>2. f \in Entries
      BY <1>t DEF Readers
    <3> DEFINE l == maildirS[u].flagdeleted \cup {f}
               r == [maildirS[u] EXCEPT !.flagdeleted = l]
    <3>3. /\ Boxes!Session(u, r) /\ asked' = [asked EXCEPT ![u] = @ \cup {f.name}]
          /\ maildirS[u].pc = "commands"
      BY <3>1 DEF Boxes!Dele
    <3>5. l \in SUBSET Entries
      BY <1>t, <3>2 DEF Readers
    <3>6. l = maildirS[u].flagdeleted \cup {f}
      OBVIOUS
    <3> HIDE DEF l
    <3>4. r \in Readers /\ r.flagdeleted = l /\ r.pc = "commands"
      BY <1>t, <3>3, <3>5 DEF Readers
    <3> HIDE DEF r
    <3>7. f.name \in Deliveries
      BY <3>2 DEF Entries
    <3>8. /\ asked' \in [Sessions -> SUBSET Deliveries] /\ asked'[u] = asked[u] \cup {f.name}
          /\ \A v \in Sessions : v # u => asked'[v] = asked[v]
      BY <1>t, <3>3, <3>7 DEF MaildirTypes
    <3> QED
      BY <3>2, <3>3, <3>4, <3>6, <3>8
  <2> QED
    BY <2>1, <2>2, <2>3, <2>4, <2>5, <2>6, <2>7
<1>5. /\ maildirS' \in [Sessions -> Readers] /\ maildirS'[u] = r
      /\ \A v \in Sessions : v # u => maildirS'[v] = maildirS[v]
  BY <1>t, <1>4, SessionMoves
<1>6. MaildirTypes'
  BY <1>t, <1>1, <1>4, <1>5 DEF MaildirTypes
<1>7. Marked'
  <2> SUFFICES ASSUME NEW v \in Sessions, NEW f \in maildirS'[v].flagdeleted
               PROVE  f.name \in asked'[v] /\ (maildirS'[v].pc = "quit" => f.name \in deleted')
    BY DEF Marked
  <2>1. CASE v = u
    BY <1>t, <1>4, <1>5, <2>1 DEF Marked
  <2>2. CASE v # u
    BY <1>t, <1>1, <1>4, <1>5, <2>2 DEF Marked
  <2> QED
    BY <2>1, <2>2
<1> QED
  BY <1>1, <1>2, <1>3, <1>6, <1>7, Undelivered
\* What QUIT, and another reader, do to the directories: a file goes for its
\* user, or changes its name.
Renames(n, d, e) ==
    /\ d \in {"2,", "2,S"} /\ n \in Deliveries
    /\ \/ e = "" /\ n \in new /\ new' = new \ {n} /\ cur' = cur \cup {<<n, d>>}
       \/ /\ e \in Infos /\ <<n, e>> \in cur /\ new' = new
          /\ cur' = (cur \ {<<n, e>>}) \cup {<<n, d>>}

LEMMA Places ==
    ASSUME MaildirTypes, Stays, UNCHANGED <<data, del, deleted>>,
           \/ UNCHANGED <<new, cur>>
           \/ \E n \in deleted : new' = new \ {n} /\ cur' = cur
           \/ \E n \in deleted, i \in Infos : new' = new /\ cur' = cur \ {<<n, i>>}
           \/ \E n \in Deliveries, d \in Infos, e \in Infos \cup {""} : Renames(n, d, e)
    PROVE  Stays' /\ new' \in SUBSET Deliveries /\ cur' \in SUBSET (Deliveries \X Infos)
<1>1. CASE UNCHANGED <<new, cur>>
  BY <1>1 DEF Stays, There, MaildirTypes
<1>2. CASE \E n \in deleted : new' = new \ {n} /\ cur' = cur
  BY <1>2 DEF Stays, There, MaildirTypes
<1>3. CASE \E n \in deleted, i \in Infos : new' = new /\ cur' = cur \ {<<n, i>>}
  BY <1>3 DEF Stays, There, MaildirTypes
<1>4. ASSUME NEW n \in Deliveries, NEW d \in Infos, NEW e \in Infos \cup {""},
             Renames(n, d, e)
      PROVE  Stays' /\ new' \in SUBSET Deliveries /\ cur' \in SUBSET (Deliveries \X Infos)
  <2>1. /\ \A p \in Deliveries : There(p)' <=> There(p)
        /\ \A p \in Deliveries : \A i, j \in Infos :
              /\ ~(p \in new' /\ <<p, i>> \in cur')
              /\ <<p, i>> \in cur' /\ <<p, j>> \in cur' => i = j
    <3>1. CASE e = "" /\ n \in new /\ new' = new \ {n} /\ cur' = cur \cup {<<n, d>>}
      BY <3>1 DEF Stays, There
    <3>2. CASE /\ e \in Infos /\ <<n, e>> \in cur /\ new' = new
               /\ cur' = (cur \ {<<n, e>>}) \cup {<<n, d>>}
      BY <3>2 DEF Stays, There
    <3> QED
      BY <1>4, <3>1, <3>2 DEF Renames
  <2>2. new' \in SUBSET Deliveries /\ cur' \in SUBSET (Deliveries \X Infos)
    <3>1. <<n, d>> \in Deliveries \X Infos
      OBVIOUS
    <3>2. \A c \in cur' : c \in cur \/ c = <<n, d>>
      BY <1>4 DEF Renames
    <3>3. \A m \in new' : m \in new
      BY <1>4 DEF Renames
    <3> QED
      BY <3>1, <3>2, <3>3 DEF MaildirTypes
  <2> QED
    BY <2>1, <2>2 DEF Stays
<1> QED
  BY <1>1, <1>2, <1>3, <1>4

LEMMA Quits ==
    ASSUME MaildirInv, NEW u \in Sessions, NEW f \in maildirS[u].list, Boxes!QuitFile(u, f)
    PROVE  MaildirInv'
<1>t. MaildirTypes /\ Marked /\ Stays /\ maildirS[u] \in Readers
  BY DEF MaildirInv, MaildirTypes
<1>f. f \in Entries /\ f.name \in Deliveries /\ f.dir \in {"new", "cur"}
      /\ f.info \in Infos \cup {""}
  BY <1>t DEF Readers, Entries
<1>1. UNCHANGED <<tmp, data, del, deleted, asked>> /\ maildirS[u].pc = "quit"
  BY DEF Boxes!QuitFile
<1>2. f \in Boxes!Files => (f.dir = "new" => f.name \in new) /\ (f.dir = "cur" => f.info \in Infos)
  <2>1. ASSUME f \in Boxes!Files
        PROVE  (f.dir = "new" => f.name \in new) /\ (f.dir = "cur" => f.info \in Infos)
    <3>1. CASE \E n \in new : f = Boxes!File("new", n, "")
      <4>1. PICK n \in new : f = Boxes!File("new", n, "")
        BY <3>1
      <4>2. f.dir = "new" /\ f.name = n
        BY <4>1 DEF Boxes!File
      <4> QED
        BY <4>2
    <3>2. CASE \E c \in cur : f = Boxes!File("cur", c[1], c[2])
      <4>1. PICK c \in cur : f = Boxes!File("cur", c[1], c[2])
        BY <3>2
      <4>2. f.dir = "cur" /\ f.info = c[2]
        BY <4>1 DEF Boxes!File
      <4> QED
        BY <1>t, <4>2 DEF MaildirTypes
    <3> QED
      BY <2>1, <3>1, <3>2 DEF Boxes!Files
  <2> QED
    BY <2>1
<1>3. f \in maildirS[u].flagdeleted => f.name \in deleted
  BY <1>t, <1>1 DEF Marked
<1>4. Stays' /\ new' \in SUBSET Deliveries /\ cur' \in SUBSET (Deliveries \X Infos)
  <2>1. CASE UNCHANGED <<new, cur>>
    BY <1>t, <1>1, <2>1, Places
  <2>2. CASE /\ f \in Boxes!Files /\ f \in maildirS[u].flagdeleted
             /\ new' = IF f.dir = "new" THEN new \ {f.name} ELSE new
             /\ cur' = IF f.dir = "cur" THEN cur \ {<<f.name, f.info>>} ELSE cur
    <3>1. \/ \E n \in deleted : new' = new \ {n} /\ cur' = cur
          \/ \E n \in deleted, i \in Infos : new' = new /\ cur' = cur \ {<<n, i>>}
      BY <1>f, <1>2, <1>3, <2>2
    <3> QED
      BY <1>t, <1>1, <3>1, Places
  <2>3. CASE /\ f \in Boxes!Files /\ f.dir = "new"
             /\ new' = new \ {f.name} /\ cur' = cur \cup {<<f.name, "2,">>}
    <3>1. Renames(f.name, "2,", "")
      BY <1>f, <1>2, <2>3 DEF Renames
    <3>2. "2," \in Infos
      BY DEF Infos
    <3> QED
      BY <1>t, <1>f, <1>1, <3>1, <3>2, Places
  <2> QED
    BY <2>1, <2>2, <2>3 DEF Boxes!QuitFile
<1>5. /\ maildirS' \in [Sessions -> Readers] /\ maildirS'[u].flagdeleted = maildirS[u].flagdeleted
      /\ maildirS'[u].pc = maildirS[u].pc /\ \A v \in Sessions : v # u => maildirS'[v] = maildirS[v]
  <2> DEFINE l == maildirS[u].todo \ {f}
             r == [maildirS[u] EXCEPT !.todo = l]
  <2>1. Boxes!Session(u, r)
    BY DEF Boxes!QuitFile
  <2>2. l \in SUBSET Entries
    BY <1>t DEF Readers
  <2> HIDE DEF l
  <2>3. r \in Readers /\ r.flagdeleted = maildirS[u].flagdeleted /\ r.pc = maildirS[u].pc
    BY <1>t, <2>2 DEF Readers
  <2> HIDE DEF r
  <2> QED
    BY <1>t, <2>1, <2>3, SessionMoves
<1>6. MaildirTypes'
  BY <1>t, <1>1, <1>4, <1>5 DEF MaildirTypes
<1>7. Marked'
  BY <1>t, <1>1, <1>5 DEF Marked
<1>8. \A p \in Deliveries : Boxes!Live(p) /\ Young(p) => p \in DOMAIN tmp' /\ tmp'[p] = tmp[p]
  BY <1>1 DEF Young
<1> QED
  BY <1>1, <1>4, <1>6, <1>7, <1>8, Undelivered

LEMMA Sees ==
    ASSUME MaildirInv, NEW n \in Deliveries, Boxes!OtherSees(n)
    PROVE  MaildirInv'
<1>t. MaildirTypes /\ Marked /\ Stays
  BY DEF MaildirInv
<1>1. UNCHANGED <<tmp, data, del, maildirS, deleted, asked>>
  BY DEF Boxes!OtherSees
<1>2. "2," \in Infos /\ "2,S" \in Infos
  BY DEF Infos
<1>3. Renames(n, "2,S", "") \/ Renames(n, "2,S", "2,")
  BY <1>2 DEF Boxes!OtherSees, Renames
<1>4. Stays' /\ new' \in SUBSET Deliveries /\ cur' \in SUBSET (Deliveries \X Infos)
  BY <1>t, <1>1, <1>2, <1>3, Places
<1>5. MaildirTypes' /\ Marked'
  BY <1>t, <1>1, <1>4 DEF MaildirTypes, Marked
<1>6. \A p \in Deliveries : Boxes!Live(p) /\ Young(p) => p \in DOMAIN tmp' /\ tmp'[p] = tmp[p]
  BY <1>1 DEF Young
<1> QED
  BY <1>1, <1>4, <1>5, <1>6, Undelivered

LEMMA Ticks ==
    ASSUME MaildirInv, Boxes!Tick
    PROVE  MaildirInv'
<1>t. MaildirTypes /\ Marked /\ Stays /\ AllYoung
  BY DEF MaildirInv
<1>1. UNCHANGED <<new, cur, data, maildirS, deleted, asked>>
  BY DEF Boxes!Tick, Boxes!readers
<1>2. /\ del' \in [Deliveries -> Lives]
      /\ \A p \in Deliveries :
            /\ del'[p].pc = del[p].pc
            /\ del'[p].age = IF Boxes!Live(p) THEN del[p].age + 1 ELSE del[p].age
  <2>1. \A p \in Deliveries : del[p] \in Lives
    BY <1>t DEF MaildirTypes
  <2>2. \A p \in Deliveries : LET n == [del[p] EXCEPT !.age = @ + 1]
                               IN  n \in Lives /\ n.pc = del[p].pc /\ n.age = del[p].age + 1
    BY <2>1 DEF Lives
  <2> QED
    BY <2>1, <2>2 DEF Boxes!Tick
<1>3. MaildirTypes' /\ Marked' /\ Stays'
  BY <1>t, <1>1, <1>2 DEF MaildirTypes, Marked, Stays, There
<1>4. AllYoung'
  <2>1. \A p \in Deliveries : Boxes!Live(p)' <=> Boxes!Live(p)
    BY <1>2 DEF Boxes!Live
  <2>2. \A p \in Deliveries : del'[p].pc = "start" => del'[p].age = 0
    BY <1>t, <1>2 DEF AllYoung, Boxes!Live
  <2>3. ASSUME NEW p \in Deliveries, Boxes!Live(p)
        PROVE  Young(p)'
    <3>1. Young(p) /\ del[p].age < 2 /\ del[p].age \in Nat
      BY <1>t, <2>3 DEF AllYoung, Boxes!Tick, MaildirTypes, Lives
    <3>2. tmp[p] < Boxes!OldAge
      BY <3>1 DEF Young, Boxes!OldAge
    <3>3. p \in DOMAIN tmp' /\ tmp'[p] = tmp[p] + 1
      BY <3>1, <3>2 DEF Boxes!Tick, Young
    <3> QED
      BY <1>2, <2>3, <3>1, <3>3 DEF Young
  <2> QED
    BY <2>1, <2>2, <2>3 DEF AllYoung
<1> QED
  BY <1>3, <1>4 DEF MaildirInv

LEMMA Crashes ==
    ASSUME MaildirInv, Boxes!Crash
    PROVE  MaildirInv'
<1>t. MaildirTypes /\ Marked /\ Stays /\ AllYoung
  BY DEF MaildirInv
<1>1. UNCHANGED <<tmp, new, cur, deleted, asked>>
  BY DEF Boxes!Crash
<1>2. /\ del' \in [Deliveries -> Lives]
      /\ \A p \in Deliveries : /\ del'[p].age = del[p].age
                                /\ del'[p].pc = IF Boxes!Live(p) THEN "killed" ELSE del[p].pc
  <2>1. \A p \in Deliveries : del[p] \in Lives
    BY <1>t DEF MaildirTypes
  <2>2. \A p \in Deliveries : LET n == [del[p] EXCEPT !.pc = "killed"]
                               IN  n \in Lives /\ n.pc = "killed" /\ n.age = del[p].age
    BY <2>1 DEF Lives
  <2> QED
    BY <2>1, <2>2 DEF Boxes!Crash
<1>3. data' \in [Deliveries -> {"none", "part", "whole", "synced"}]
      /\ \A p \in Deliveries : data[p] = "synced" => data'[p] = "synced"
  BY DEF Boxes!Crash
<1>4. maildirS' \in [Sessions -> Readers] /\ \A u \in Sessions : maildirS'[u].flagdeleted = {}
  BY DEF Boxes!Crash, Boxes!Idle, Readers
<1>5. MaildirTypes' /\ Marked'
  BY <1>t, <1>1, <1>2, <1>3, <1>4 DEF MaildirTypes, Marked
<1>6. AllYoung'
  BY <1>t, <1>2 DEF AllYoung, Boxes!Live
<1>7. Stays'
  BY <1>t, <1>1, <1>2, <1>3 DEF Stays, There, Early, Boxes!Live
<1> QED
  BY <1>5, <1>6, <1>7 DEF MaildirInv

LEMMA MaildirSteps ==
    ASSUME MaildirInv, [Boxes!Next]_(Boxes!vars)
    PROVE  MaildirInv'
<1>1. CASE \E p \in Deliveries : Boxes!Delivery(p)
  BY <1>1, DeliverySteps
<1>2. CASE \E u \in Sessions : Boxes!Pop(u)
  BY <1>2, Looks, Quits DEF Boxes!Pop
<1>3. CASE \E n \in Deliveries : Boxes!OtherSees(n)
  BY <1>3, Sees
<1>4. CASE Boxes!Tick
  BY <1>4, Ticks
<1>5. CASE Boxes!Crash
  BY <1>5, Crashes
<1>6. CASE UNCHANGED Boxes!vars
  BY <1>6 DEF Boxes!vars, MaildirInv, MaildirTypes, AllYoung, Young, Boxes!Live, Stays, There,
     Marked
<1> QED
  BY <1>1, <1>2, <1>3, <1>4, <1>5, <1>6 DEF Boxes!Next

\* What the invariant is for.
LEMMA MaildirRight ==
    ASSUME MaildirInv
    PROVE  Boxes!OnlyWholeMessages /\ Boxes!DeliveredStays /\ Boxes!TmpKept
<1>t. MaildirTypes /\ Stays
  BY DEF MaildirInv
<1>1. \A f \in Boxes!Files : \/ f.name \in new /\ f = Boxes!File("new", f.name, "")
                       \/ \E i \in Infos : <<f.name, i>> \in cur /\ f = Boxes!File("cur", f.name, i)
  <2> TAKE f \in Boxes!Files
  <2>1. CASE \E n \in new : f = Boxes!File("new", n, "")
    <3>1. PICK n \in new : f = Boxes!File("new", n, "")
      BY <2>1
    <3>2. f.name = n
      BY <3>1 DEF Boxes!File
    <3> QED
      BY <3>1, <3>2
  <2>2. CASE \E c \in cur : f = Boxes!File("cur", c[1], c[2])
    <3>1. PICK c \in cur : f = Boxes!File("cur", c[1], c[2])
      BY <2>2
    <3>2. c[1] \in Deliveries /\ c[2] \in Infos /\ c = <<c[1], c[2]>>
      BY <1>t DEF MaildirTypes
    <3>3. f.name = c[1]
      BY <3>1 DEF Boxes!File
    <3> QED
      BY <3>1, <3>2, <3>3
  <2> QED
    BY <2>1, <2>2 DEF Boxes!Files
<1>2. \A f \in Boxes!Files : f.name \in Deliveries /\ There(f.name)
  BY <1>t, <1>1, FilesType DEF There, Entries
<1>3. Boxes!OnlyWholeMessages
  BY <1>t, <1>2 DEF Boxes!OnlyWholeMessages, Stays
<1>4. Boxes!TmpKept
  BY DEF Boxes!TmpKept, MaildirInv, AllYoung, Young
<1>5. ASSUME NEW p \in Deliveries
      PROVE  /\ del[p].pc = "exit0" /\ p \notin deleted => \E f \in Boxes!Files : f.name = p
             /\ Boxes!Cardinality({f \in Boxes!Files : f.name = p}) <= 1
  <2>1. There(p) => \E f \in Boxes!Files : f.name = p
    <3>1. CASE p \in new
      <4>1. Boxes!File("new", p, "") \in Boxes!Files /\ Boxes!File("new", p, "").name = p
        BY <3>1 DEF Boxes!Files, Boxes!File
      <4> QED
        BY <4>1
    <3>2. ASSUME NEW i \in Infos, <<p, i>> \in cur
          PROVE  \E f \in Boxes!Files : f.name = p
      <4>1. Boxes!File("cur", p, i) \in Boxes!Files /\ Boxes!File("cur", p, i).name = p
        <5>1. Boxes!File("cur", p, i) = Boxes!File("cur", <<p, i>>[1], <<p, i>>[2])
          OBVIOUS
        <5>2. Boxes!File("cur", p, i) \in {Boxes!File("cur", c[1], c[2]) : c \in cur}
          BY <3>2, <5>1
        <5>3. Boxes!File("cur", p, i).name = p
          BY DEF Boxes!File
        <5> QED
          BY <5>2, <5>3 DEF Boxes!Files
      <4> QED
        BY <4>1
    <3> QED
      BY <3>1, <3>2 DEF There
  <2>2. \A f, g \in Boxes!Files : f.name = p /\ g.name = p => f = g
    <3> SUFFICES ASSUME NEW f \in Boxes!Files, NEW g \in Boxes!Files, f.name = p, g.name = p
                 PROVE  f = g
      OBVIOUS
    <3>1. \/ p \in new /\ f = Boxes!File("new", p, "")
          \/ \E i \in Infos : <<p, i>> \in cur /\ f = Boxes!File("cur", p, i)
      BY <1>1
    <3>2. \/ p \in new /\ g = Boxes!File("new", p, "")
          \/ \E i \in Infos : <<p, i>> \in cur /\ g = Boxes!File("cur", p, i)
      BY <1>1
    <3> QED
      BY <1>t, <3>1, <3>2 DEF Stays
  <2> DEFINE S == {f \in Boxes!Files : f.name = p}
  <2>3. S = {} \/ \E f \in S : S = {f}
    BY <2>2
  <2> HIDE DEF S
  <2>4. Boxes!Cardinality(S) <= 1
    <3>1. Boxes!Cardinality(S) = Cardinality(S)
      BY DEF Boxes!Cardinality, Cardinality
    <3>2. Cardinality(S) <= 1
      BY <2>3, FS_EmptySet, FS_Singleton
    <3> QED
      BY <3>1, <3>2
  <2> QED
    BY <1>t, <2>1, <2>4 DEF Stays, S
<1> QED
  BY <1>3, <1>4, <1>5 DEF Boxes!DeliveredStays

-----------------------------------------------------------------------------
(* Forwarding.                                                             *)

IsList(a) == a \in DOMAIN OwnerOf /\ Looping!Exists(OwnerOf[a])

\* The Delivered-To lines of a copy, the newest first; and the owner whom the
\* last list with an owner has put in place of the sender.
Lines(m) == /\ m = [to |-> m.to, sender |-> m.sender, dt |-> m.dt]
            /\ m.dt \in Seq(Local)
            /\ \A j, k \in 1 .. Len(m.dt) : m.dt[j] = m.dt[k] => j = k
OwnedBy(m) ==
    \/ m.sender \in {Looping!Nobody, Looping!Double}
    \/ \A k \in 1 .. Len(m.dt) :
         IsList(m.dt[k]) => \E j \in 1 .. k : IsList(m.dt[j]) /\ m.sender = OwnerOf[m.dt[j]]

LoopsInv ==
    /\ \A m \in copies : Lines(m) /\ OwnedBy(m)
    /\ \A t \in told : Lines(t) /\ OwnedBy(t) /\ \E k \in 1 .. Len(t.dt) : t.dt[k] = t.to

LEMMA LoopsStarts ==
    ASSUME Looping!Init
    PROVE  LoopsInv
<1>1. PICK m \in Starts : copies = {m}
  BY DEF Looping!Init
<1>2. m = [to |-> m.to, sender |-> m.sender, dt |-> <<>>]
  BY LoopsAssumption
<1>3. m.dt = <<>>
  BY <1>2
<1>4. m.dt \in Seq(Local) /\ Len(m.dt) = 0
  BY <1>3
<1>5. Lines(m) /\ OwnedBy(m)
  BY <1>2, <1>3, <1>4 DEF Lines, OwnedBy
<1> QED
  BY <1>1, <1>5 DEF Looping!Init, LoopsInv

\* A message of its own has no lines.
LEMMA Bounced ==
    ASSUME NEW m, NEW b \in Looping!Bounce(m)
    PROVE  Lines(b) /\ OwnedBy(b)
<1>1. b = [to |-> b.to, sender |-> b.sender, dt |-> <<>>] /\ b.dt = <<>>
  BY DEF Looping!Bounce
<1> QED
  BY <1>1 DEF Lines, OwnedBy

LEMMA Forwarded ==
    ASSUME NEW m, Lines(m), OwnedBy(m), ~Looping!Looping(m), m.to \in Local, NEW a
    PROVE  Lines(Looping!Mailforward(m, a)) /\ OwnedBy(Looping!Mailforward(m, a))
<1> DEFINE d == <<m.to>> \o m.dt
           f == [to |-> a, sender |-> Looping!Ueo(m), dt |-> d]
<1>1. /\ d \in Seq(Local) /\ Len(d) = Len(m.dt) + 1 /\ Len(m.dt) \in Nat
      /\ d[1] = m.to /\ \A k \in 2 .. Len(d) : d[k] = m.dt[k - 1]
  BY DEF Lines
<1>2. Looping!Mailforward(m, a) = f
  BY DEF Looping!Mailforward
<1>3. \A k \in 1 .. Len(m.dt) : m.dt[k] # m.to
  BY DEF Looping!Looping, Looping!ToSet, Lines
<1> HIDE DEF d
<1>4. \A j, k \in 1 .. Len(d) : d[j] = d[k] => j = k
  <2> SUFFICES ASSUME NEW j \in 1 .. Len(d), NEW k \in 1 .. Len(d), d[j] = d[k]
               PROVE  j = k
    OBVIOUS
  <2>1. CASE j = 1 \/ k = 1
    BY <1>1, <1>3, <2>1
  <2>2. CASE j # 1 /\ k # 1
    <3>1. j - 1 \in 1 .. Len(m.dt) /\ k - 1 \in 1 .. Len(m.dt) /\ m.dt[j - 1] = m.dt[k - 1]
      BY <1>1, <2>2
    <3>2. j - 1 = k - 1
      BY <3>1 DEF Lines
    <3> QED
      BY <3>2
  <2> QED
    BY <2>1, <2>2
<1>5. Lines(f)
  BY <1>1, <1>4 DEF Lines
<1>6. OwnedBy(f)
  <2>1. CASE m.sender \in {Looping!Nobody, Looping!Double}
    BY <2>1 DEF Looping!Ueo, OwnedBy
  <2>2. CASE m.sender \notin {Looping!Nobody, Looping!Double} /\ IsList(m.to)
    <3>1. f.sender = OwnerOf[m.to] /\ f.dt = d
      BY <2>2 DEF Looping!Ueo, IsList
    <3> QED
      BY <1>1, <2>2, <3>1 DEF OwnedBy
  <2>3. CASE m.sender \notin {Looping!Nobody, Looping!Double} /\ ~IsList(m.to)
    <3>1. f.sender = m.sender /\ f.dt = d
      BY <2>3 DEF Looping!Ueo, IsList
    <3>2. \A k \in 1 .. Len(m.dt) :
            IsList(m.dt[k]) => \E j \in 1 .. k : IsList(m.dt[j]) /\ m.sender = OwnerOf[m.dt[j]]
      BY <2>3 DEF OwnedBy
    <3>3. ASSUME NEW k \in 1 .. Len(d), IsList(d[k])
          PROVE  \E j \in 1 .. k : IsList(d[j]) /\ m.sender = OwnerOf[d[j]]
      <4>1. k # 1
        BY <1>1, <2>3, <3>3
      <4>2. k - 1 \in 1 .. Len(m.dt) /\ d[k] = m.dt[k - 1]
        BY <1>1, <4>1
      <4>3. PICK j \in 1 .. k - 1 : IsList(m.dt[j]) /\ m.sender = OwnerOf[m.dt[j]]
        BY <3>2, <3>3, <4>2
      <4>4. j + 1 \in 2 .. Len(d) /\ j + 1 \in 1 .. k /\ d[j + 1] = m.dt[j]
        BY <1>1, <4>2
      <4> QED
        BY <4>3, <4>4
    <3> QED
      BY <3>1, <3>3 DEF OwnedBy
  <2> QED
    BY <2>1, <2>2, <2>3
<1> QED
  BY <1>2, <1>5, <1>6

\* Whatever .qmail files say, and hosts elsewhere do.
LEMMA LoopsSteps ==
    ASSUME LoopsInv, [Looping!Next]_(Looping!vars)
    PROVE  LoopsInv'
<1>1. CASE UNCHANGED Looping!vars
  <2>1. UNCHANGED <<file, copies, told>>
    BY <1>1 DEF Looping!vars
  <2>2. \A x : OwnedBy(x)' = OwnedBy(x)
    BY <2>1 DEF OwnedBy, IsList, Looping!Exists
  <2> QED
    BY <2>1, <2>2 DEF LoopsInv, Lines
<1>2. ASSUME NEW m \in copies, Looping!Delivers(m) \/ Looping!NoMailbox(m) \/ Looping!Loops(m)
             \/ Looping!Elsewhere(m)
      PROVE  LoopsInv'
  <2>1. Lines(m) /\ OwnedBy(m)
    BY DEF LoopsInv
  <2>f. UNCHANGED file
    BY <1>2 DEF Looping!Delivers, Looping!NoMailbox, Looping!Loops, Looping!Elsewhere
  <2>u. \A x : OwnedBy(x)' = OwnedBy(x)
    BY <2>f DEF OwnedBy, IsList, Looping!Exists
  <2>2. PICK made : Looping!Delivered(made) /\ \A c \in made : Lines(c) /\ OwnedBy(c)
    <3>1. CASE Looping!Delivers(m)
      <4>1. Looping!Delivered({Looping!Mailforward(m, a) : a \in file[m.to]}) /\ m.to \in Local
              /\ ~Looping!Looping(m)
        BY <3>1 DEF Looping!Delivers
      <4> QED
        BY <2>1, <4>1, Forwarded
    <3>2. CASE Looping!Delivered(Looping!Bounce(m))
      BY <3>2, Bounced
    <3>3. CASE Looping!Delivered({})
      BY <3>3
    <3>4. CASE \E a \in Local : Looping!Delivered({[m EXCEPT !.to = a]})
      <4>1. PICK a \in Local : Looping!Delivered({[m EXCEPT !.to = a]})
        BY <3>4
      <4> DEFINE c == [m EXCEPT !.to = a]
      <4>2. /\ c = [to |-> c.to, sender |-> c.sender, dt |-> c.dt]
            /\ c.sender = m.sender /\ c.dt = m.dt
        BY <2>1 DEF Lines
      <4> HIDE DEF c
      <4>3. Lines(c) /\ OwnedBy(c)
        BY <2>1, <4>2 DEF Lines, OwnedBy
      <4> QED
        BY <4>1, <4>3 DEF c
    <3> QED
      BY <1>2, <3>1, <3>2, <3>3, <3>4 DEF Looping!NoMailbox, Looping!Loops, Looping!Elsewhere
  <2>3. \A c \in copies' : Lines(c) /\ OwnedBy(c)
    BY <2>2 DEF Looping!Delivered
  <2>4. told' = told \/ (told' = {m} /\ \E k \in 1 .. Len(m.dt) : m.dt[k] = m.to)
    BY <1>2, <2>1 DEF Looping!Delivers, Looping!NoMailbox, Looping!Loops, Looping!Elsewhere,
       Looping!Looping, Looping!ToSet, Lines
  <2>5. \A t \in told' : Lines(t) /\ OwnedBy(t) /\ \E k \in 1 .. Len(t.dt) : t.dt[k] = t.to
    BY <2>1, <2>4 DEF LoopsInv
  <2> QED
    BY <2>3, <2>5, <2>u DEF LoopsInv, Lines
<1> QED
  BY <1>1, <1>2 DEF Looping!Next

LEMMA LoopsRight ==
    ASSUME LoopsInv
    PROVE  Looping!OncePerAddress /\ Looping!OwnerTold
<1>1. Looping!OncePerAddress
  BY DEF LoopsInv, Looping!OncePerAddress, Lines, Looping!IsInjective
<1>2. ASSUME NEW t \in told, NEW a \in Looping!Loop(t), a \in DOMAIN OwnerOf,
             Looping!Exists(OwnerOf[a]),
             t.sender \notin {Looping!Nobody, Looping!Double}
      PROVE  \E b \in Looping!Loop(t) : /\ b \in DOMAIN OwnerOf /\ Looping!Exists(OwnerOf[b])
                                /\ t.sender = OwnerOf[b]
  <2>1. /\ Lines(t) /\ OwnedBy(t) /\ \E k \in 1 .. Len(t.dt) : t.dt[k] = t.to
        /\ DOMAIN t.dt = 1 .. Len(t.dt)
    BY DEF LoopsInv, Lines
  <2> DEFINE n == CHOOSE k \in DOMAIN t.dt : t.dt[k] = t.to
  <2>2. n \in 1 .. Len(t.dt) /\ Looping!Loop(t) = {t.dt[k] : k \in 1 .. n}
    BY <2>1, Zenon DEF Looping!Loop
  <2> HIDE DEF n
  <2>3. PICK k \in 1 .. n : a = t.dt[k]
    BY <1>2, <2>2
  <2>4. k \in 1 .. Len(t.dt) /\ IsList(t.dt[k])
    BY <1>2, <2>1, <2>2, <2>3 DEF IsList
  <2>5. PICK j \in 1 .. k : IsList(t.dt[j]) /\ t.sender = OwnerOf[t.dt[j]]
    BY <1>2, <2>1, <2>4 DEF OwnedBy
  <2>6. j \in 1 .. n /\ t.dt[j] \in Looping!Loop(t)
    BY <2>1, <2>2, <2>5
  <2> QED
    BY <2>5, <2>6 DEF IsList
<1>3. Looping!OwnerTold
  BY <1>2 DEF Looping!OwnerTold
<1> QED
  BY <1>1, <1>3

-----------------------------------------------------------------------------
(* A delivery of qmail-local.                                              *)

DidIt(r, k) == <<r, k>> \in did

\* The file that governs the address, what it says, and whether it only forwards.
Full == {f \in {files[n] : n \in Instructions!Chosen(Instructions!Safe(ext))} : f.lines # <<>>}
Governed == IF Full = {} THEN Instructions!Aliasempty ELSE (CHOOSE f \in Full : TRUE).lines
Cutable == \E f \in Full : f.cutable

\* The message is looked at; or all is done that had to be done.
Ahead == pc \in {"home", "loop", "search"}
Over == pc = "end" \/ (pc = "exit" /\ code = 0)

InstrTypes ==
    /\ pc \in {"home", "loop", "search", "lines", "end", "exit"}
    /\ instrI \in Nat \ {0} /\ runs \in Nat /\ forwardonly \in BOOLEAN /\ flag99 \in BOOLEAN
    /\ cmds \in Seq(Instructions!Kinds) /\ recips \in Seq(Nat)
    /\ \A n \in DOMAIN files : /\ files[n].lines \in Seq(Instructions!Kinds)
                               /\ files[n].cutable \in BOOLEAN

\* What has been done, and noted, in this run up to the present line.
Upto ==
    /\ cmds = Governed /\ instrI <= Len(cmds) + 1
    /\ flag99 => instrI > 1 /\ cmds[instrI - 1] = "|"
    /\ \A k \in 1 .. instrI - 1 : cmds[k] \in {"file", "|"} => DidIt(runs, k)
    /\ \A k \in Nat : k >= instrI => ~DidIt(runs, k)
    /\ Len(recips) > 0 <=> \E k \in 1 .. instrI - 1 : cmds[k] = "&"
    /\ Cutable \/ (\E l \in 1 .. instrI - 1 : cmds[l] = "+list") => forwardonly

\* Where this run is.
Present ==
    /\ IF pc = "exit" THEN code \in {0, 100, 111} ELSE code = -1
    /\ Ahead => /\ instrI = 1 /\ cmds = <<>> /\ recips = <<>> /\ ~flag99
                /\ \A k \in Nat : ~DidIt(runs, k)
    /\ pc = "lines" \/ Over => Upto
    /\ pc = "lines" => ~DidIt(runs, 0)
    /\ Over => (flag99 \/ instrI = Len(cmds) + 1) /\ (DidIt(runs, 0) <=> Len(recips) > 0)
    /\ cmds = <<>> \/ cmds = Governed

\* What all runs have done.
Past ==
    /\ \A r \in Nat : DidIt(r, 0) /\ r \notin died => r = runs /\ Over
    /\ \A r, k \in Nat : DidIt(r, k) => r <= runs
    /\ \A r, k \in Nat : DidIt(r, k) /\ k > 0 =>
         ~Cutable /\ \A l \in 1 .. Len(Governed) : l <= k => Governed[l] # "+list"
    /\ home # "ok" => pc \in {"home", "exit"} /\ \A k \in Nat : ~DidIt(runs, k)
    /\ loops => did = {} /\ pc \in {"home", "loop", "exit"}

InstrInv == InstrTypes /\ Present /\ Past

\* The file stays the same.
LEMMA SameFile ==
    ASSUME UNCHANGED <<ext, files>>
    PROVE  Governed' = Governed /\ (Cutable' <=> Cutable)
<1>1. Instructions!Safe(ext)' = Instructions!Safe(ext)
  BY DEF Instructions!Safe
<1>2. \A e : Instructions!Chosen(e)' = Instructions!Chosen(e)
  BY DEF Instructions!Chosen
<1>3. Full' = Full
  BY <1>1, <1>2 DEF Full
<1> QED
  BY <1>3 DEF Governed, Cutable

LEMMA GovernedType ==
    ASSUME InstrTypes
    PROVE  Governed \in Seq(Instructions!Kinds)
<1>1. Instructions!Chosen(Instructions!Safe(ext)) \subseteq DOMAIN files
  BY DEF Instructions!Chosen
<1>2. \A f \in Full : f.lines \in Seq(Instructions!Kinds)
  BY <1>1 DEF Full, InstrTypes
<1>3. Instructions!Aliasempty \in Seq(Instructions!Kinds)
  BY DEF Instructions!Aliasempty, Instructions!Kinds
<1> QED
  BY <1>2, <1>3 DEF Governed

LEMMA InstrStarts ==
    ASSUME Instructions!Init
    PROVE  InstrInv
<1>1. \A l \in Instructions!Lines : l \in Seq(Instructions!Kinds)
  BY QmailLocalAssumption DEF Instructions!Lines
<1>2. <<"&">> \in Seq(Instructions!Kinds)
  BY DEF Instructions!Kinds
<1>3. \A n \in DOMAIN files : /\ files[n].lines \in Seq(Instructions!Kinds)
                              /\ files[n].cutable \in BOOLEAN
  <2>1. CASE files = <<>>
    BY <2>1
  <2>2. ASSUME NEW names, NEW n \in names, NEW lines \in Instructions!Lines, NEW x \in BOOLEAN,
               files = [f \in names |-> [lines |-> IF f = n THEN lines ELSE <<"&">>,
                                         cutable |-> f = n /\ x]]
        PROVE  \A m \in DOMAIN files : /\ files[m].lines \in Seq(Instructions!Kinds)
                                       /\ files[m].cutable \in BOOLEAN
    BY <1>1, <1>2, <2>2
  <2> QED
    BY <2>1, <2>2 DEF Instructions!Init
<1>4. InstrTypes
  <2>1. /\ pc = "home" /\ instrI = 1 /\ runs = 0 /\ cmds = <<>> /\ recips = <<>>
        /\ forwardonly = FALSE /\ flag99 = FALSE
    BY DEF Instructions!Init
  <2>2. forwardonly \in BOOLEAN /\ flag99 \in BOOLEAN
    BY <2>1
  <2> QED
    BY <1>3, <2>1, <2>2 DEF InstrTypes
<1>5. Present
  BY DEF Instructions!Init, Present, Ahead, Over, DidIt
<1>6. Past
  BY DEF Instructions!Init, Past, DidIt
<1> QED
  BY <1>4, <1>5, <1>6 DEF InstrInv

\* A run that ends without success, and one that is killed.
LEMMA Fails ==
    ASSUME InstrInv, NEW c \in {100, 111}, pc # "exit", pc' = "exit", code' = c,
           UNCHANGED <<dash, ext, files, home, loops, instrI, forwardonly, flag99, recips, cmds,
                       runs, did>>,
           \/ died' = died \cup {runs}
           \/ died' = died /\ pc # "end"
    PROVE  InstrInv'
<1>1. Governed' = Governed /\ (Cutable' <=> Cutable)
  BY SameFile
<1>2. \A r, k : DidIt(r, k)' <=> DidIt(r, k)
  BY DEF DidIt
<1>3. InstrTypes'
  BY DEF InstrInv, InstrTypes
<1>4. Present'
  BY <1>1 DEF InstrInv, Present, Ahead, Over
<1>5. Past'
  <2>1. \A r \in Nat : DidIt(r, 0) => r \in died'
    <3>1. ASSUME died' = died, pc # "end", DidIt(runs, 0)
          PROVE  FALSE
      BY <3>1 DEF InstrInv, InstrTypes, Present, Ahead
    <3> QED
      BY <3>1 DEF InstrInv, Past, Over
  <2> QED
    BY <1>1, <1>2, <2>1 DEF InstrInv, Past
<1> QED
  BY <1>3, <1>4, <1>5 DEF InstrInv

LEMMA SearchSteps ==
    ASSUME InstrInv, Instructions!CheckHome \/ Instructions!Bouncexf \/ Instructions!Search
    PROVE  InstrInv'
<1>1. CASE \E c \in {100, 111} : Instructions!Exit(c) /\ UNCHANGED did /\ Ahead
  BY <1>1, Fails DEF Instructions!Exit, Instructions!situation, Ahead
<1>2. CASE /\ Ahead /\ home = "ok" /\ Instructions!Goto(pc')
           /\ UNCHANGED <<recips, flag99, instrI, did>>
           /\ \/ pc' = "loop" /\ pc = "home" /\ UNCHANGED <<forwardonly, cmds>>
              \/ pc' = "search" /\ ~loops /\ UNCHANGED <<forwardonly, cmds>>
              \/ pc' = "lines" /\ ~loops /\ cmds' = Governed /\ forwardonly' = Cutable
  <2>1. Governed' = Governed /\ (Cutable' <=> Cutable) /\ Governed \in Seq(Instructions!Kinds)
    BY <1>2, SameFile, GovernedType DEF Instructions!Goto, Instructions!situation, InstrInv
  <2>2. \A r, k : DidIt(r, k)' <=> DidIt(r, k)
    BY <1>2 DEF DidIt
  <2>3. InstrTypes'
    BY <1>2, <2>1 DEF InstrInv, InstrTypes, Instructions!Goto, Instructions!situation, Cutable
  <2>4. Present'
    BY <1>2, <2>1, <2>2
    DEF InstrInv, InstrTypes, Present, Ahead, Over, Upto, Instructions!Goto, Instructions!situation
  <2>5. Past'
    BY <1>2, <2>1, <2>2
    DEF InstrInv, InstrTypes, Present, Past, Ahead, Over, Instructions!Goto, Instructions!situation
  <2> QED
    BY <2>3, <2>4, <2>5 DEF InstrInv
<1>3. CASE Instructions!CheckHome
  BY <1>1, <1>2, <1>3 DEF Instructions!CheckHome, Instructions!Unsafe, Instructions!Goto, Ahead
<1>4. CASE Instructions!Bouncexf
  BY <1>1, <1>2, <1>4 DEF Instructions!Bouncexf, Instructions!Goto, Ahead, InstrInv, Past
<1>5. CASE Instructions!Search
  BY <1>1, <1>2, <1>5
  DEF Instructions!Search, Instructions!Goto, Ahead, InstrInv, Past, Governed, Cutable, Full
<1> QED
  BY <1>3, <1>4, <1>5

\* An instruction that was carried out, or was none.
LEMMA NextLines ==
    ASSUME InstrInv, pc = "lines", ~flag99, instrI <= Len(cmds), Instructions!NextLine,
           NEW done \in BOOLEAN, done <=> cmds[instrI] \in {"file", "|"},
           did' = IF done THEN did \cup {<<runs, instrI>>} ELSE did,
           done => ~forwardonly,
           recips' = IF cmds[instrI] = "&" THEN Append(recips, instrI) ELSE recips,
           flag99' \in BOOLEAN, flag99' => cmds[instrI] = "|",
           forwardonly' = (forwardonly \/ cmds[instrI] = "+list")
    PROVE  InstrInv'
<1>1. Governed' = Governed /\ (Cutable' <=> Cutable) /\ Governed \in Seq(Instructions!Kinds)
  BY SameFile, GovernedType
  DEF Instructions!NextLine, Instructions!Goto, Instructions!situation, InstrInv
<1>2. \A r, k : DidIt(r, k)' <=> DidIt(r, k) \/ (done /\ r = runs /\ k = instrI)
  BY DEF DidIt
<1>3. /\ pc' = "lines" /\ instrI' = instrI + 1
      /\ UNCHANGED <<cmds, dash, ext, files, home, loops, code, runs, died>>
  BY DEF Instructions!NextLine, Instructions!Goto, Instructions!situation
<1>4. InstrTypes'
  BY <1>3 DEF InstrInv, InstrTypes
<1>u. Upto /\ instrI \in Nat \ {0} /\ runs \in Nat /\ cmds \in Seq(Instructions!Kinds)
  BY DEF InstrInv, Present, InstrTypes
<1>5. Upto'
  <2>1. cmds' = Governed' /\ instrI' <= Len(cmds') + 1
    BY <1>1, <1>3, <1>u DEF Upto
  <2>2. flag99' => instrI' > 1 /\ cmds'[instrI' - 1] = "|"
    BY <1>3, <1>u
  <2>3. \A k \in 1 .. instrI' - 1 : cmds'[k] \in {"file", "|"} => DidIt(runs, k)'
    BY <1>2, <1>3, <1>u DEF Upto
  <2>4. \A k \in Nat : k >= instrI' => ~DidIt(runs, k)'
    BY <1>2, <1>3, <1>u DEF Upto
  <2>5. Len(recips') > 0 <=> \E k \in 1 .. instrI' - 1 : cmds'[k] = "&"
    <3>1. Len(recips) \in Nat /\ (cmds[instrI] = "&" => Len(recips') = Len(recips) + 1)
      BY DEF InstrInv, InstrTypes
    <3> QED
      BY <1>3, <1>u, <3>1 DEF Upto
  <2>6. Cutable' \/ (\E l \in 1 .. instrI' - 1 : cmds'[l] = "+list") => forwardonly'
    <3>1. forwardonly' <=> forwardonly \/ cmds[instrI] = "+list"
      OBVIOUS
    <3>2. \A l \in 1 .. instrI' - 1 : l \in 1 .. instrI - 1 \/ l = instrI
      BY <1>3, <1>u
    <3> QED
      BY <1>1, <1>3, <1>u, <3>1, <3>2 DEF Upto
  <2> QED
    BY <1>3, <2>1, <2>2, <2>3, <2>4, <2>5, <2>6 DEF Upto, DidIt
<1>6. Present'
  BY <1>1, <1>2, <1>3, <1>5, <1>u DEF InstrInv, Present, Ahead, Over, Upto
<1>7. Past'
  <2>1. done => ~Cutable /\ \A l \in 1 .. Len(Governed) : l <= instrI => Governed[l] # "+list"
    BY <1>u DEF Upto
  <2> QED
    BY <1>1, <1>2, <1>3, <1>u, <2>1 DEF InstrInv, Past, Over
<1> QED
  BY <1>4, <1>6, <1>7 DEF InstrInv

LEMMA LineSteps ==
    ASSUME InstrInv,
           \/ Instructions!FirstBlank \/ Instructions!Skip \/ Instructions!List
           \/ Instructions!ToFile \/ Instructions!Program \/ Instructions!Forward
    PROVE  InstrInv'
<1>1. CASE \E c \in {100, 111} : Instructions!Exit(c) /\ UNCHANGED did /\ pc = "lines"
  BY <1>1, Fails DEF Instructions!Exit, Instructions!situation
<1>t. forwardonly \in BOOLEAN /\ flag99 \in BOOLEAN
  BY DEF InstrInv, InstrTypes
<1>2. CASE Instructions!FirstBlank
  BY <1>1, <1>2 DEF Instructions!FirstBlank, Instructions!Line
<1>3. CASE Instructions!Skip
  BY <1>3, <1>t, NextLines DEF Instructions!Skip, Instructions!Line
<1>4. CASE Instructions!List
  BY <1>4, <1>t, NextLines DEF Instructions!List, Instructions!Line, Instructions!Listed
<1>5. CASE Instructions!ToFile
  BY <1>1, <1>5, <1>t, NextLines DEF Instructions!ToFile, Instructions!Line, Instructions!Done
<1>6. CASE Instructions!Program
  BY <1>1, <1>6, <1>t, NextLines DEF Instructions!Program, Instructions!Line, Instructions!Done
<1>7. CASE Instructions!Forward
  BY <1>7, <1>t, NextLines DEF Instructions!Forward, Instructions!Line
<1> QED
  BY <1>2, <1>3, <1>4, <1>5, <1>6, <1>7

LEMMA EndSteps ==
    ASSUME InstrInv, Instructions!Mailforward \/ Instructions!Success
    PROVE  InstrInv'
<1>t. /\ Governed \in Seq(Instructions!Kinds)
      /\ Len(recips) \in Nat /\ (recips = <<>> <=> Len(recips) = 0)
      /\ runs \in Nat /\ instrI \in Nat /\ cmds \in Seq(Instructions!Kinds)
  BY GovernedType DEF InstrInv, InstrTypes
<1>1. CASE \E c \in {100, 111} : Instructions!Exit(c) /\ UNCHANGED did /\ pc = "lines"
  BY <1>1, Fails DEF Instructions!Exit, Instructions!situation
<1>2. CASE /\ pc = "lines" /\ (flag99 \/ instrI > Len(cmds)) /\ Instructions!Goto("end")
           /\ UNCHANGED <<instrI, forwardonly, flag99, recips, cmds>>
           /\ \/ recips = <<>> /\ UNCHANGED did
              \/ recips # <<>> /\ did' = did \cup {<<runs, 0>>}
  <2>1. /\ Governed' = Governed /\ (Cutable' <=> Cutable) /\ pc' = "end"
        /\ UNCHANGED <<dash, ext, files, home, loops, code, runs, died>>
    BY <1>2, SameFile DEF Instructions!Goto, Instructions!situation
  <2>2. \A r, k : DidIt(r, k)' <=> DidIt(r, k) \/ (Len(recips) > 0 /\ r = runs /\ k = 0)
    BY <1>2, <1>t DEF DidIt
  <2>3. InstrTypes'
    BY <1>2, <2>1 DEF InstrInv, InstrTypes
  <2>4. Upto'
    BY <1>2, <1>t, <2>1, <2>2 DEF InstrInv, Present, Upto, InstrTypes
  <2>5. Present'
    BY <1>2, <1>t, <2>1, <2>2, <2>4 DEF InstrInv, Present, Upto, Ahead, Over
  <2>6. Past'
    BY <1>2, <1>t, <2>1, <2>2 DEF InstrInv, Past, Over
  <2> QED
    BY <2>3, <2>5, <2>6 DEF InstrInv
<1>3. CASE Instructions!Success
  <2>1. /\ Governed' = Governed /\ (Cutable' <=> Cutable) /\ pc = "end" /\ pc' = "exit" /\ code' = 0
        /\ UNCHANGED <<dash, ext, files, home, loops, runs, died, did, instrI, forwardonly, flag99,
                       recips, cmds>>
    BY <1>3, SameFile DEF Instructions!Success, Instructions!Exit, Instructions!situation
  <2>2. \A r, k : DidIt(r, k)' <=> DidIt(r, k)
    BY <2>1 DEF DidIt
  <2>3. InstrTypes'
    BY <2>1 DEF InstrInv, InstrTypes
  <2>4. Upto'
    BY <2>1, <2>2 DEF InstrInv, Present, Upto, Over
  <2>5. Present'
    BY <1>t, <2>1, <2>2, <2>4 DEF InstrInv, Present, Ahead, Over
  <2>6. Past'
    BY <2>1, <2>2 DEF InstrInv, Past, Over
  <2> QED
    BY <2>3, <2>5, <2>6 DEF InstrInv
<1> QED
  BY <1>1, <1>2, <1>3 DEF Instructions!Mailforward, Instructions!Rest

LEMMA AgainSteps ==
    ASSUME InstrInv, Instructions!Again
    PROVE  InstrInv'
<1>1. /\ Governed' = Governed /\ (Cutable' <=> Cutable)
      /\ UNCHANGED <<dash, ext, files, loops, died, did>>
  BY SameFile DEF Instructions!Again
<1>2. \A r, k : DidIt(r, k)' <=> DidIt(r, k)
  BY <1>1 DEF DidIt
<1>3. InstrTypes'
  <2>1. /\ pc' = "home" /\ instrI' = 1 /\ runs' = runs + 1 /\ cmds' = <<>> /\ recips' = <<>>
        /\ forwardonly' = FALSE /\ flag99' = FALSE
    BY DEF Instructions!Again
  <2>2. forwardonly' \in BOOLEAN /\ flag99' \in BOOLEAN
    BY <2>1
  <2> QED
    BY <1>1, <2>1, <2>2 DEF InstrInv, InstrTypes
<1>4. \A k \in Nat : ~DidIt(runs', k)
  BY DEF InstrInv, InstrTypes, Past, Instructions!Again
<1>5. Present'
  BY <1>1, <1>4 DEF Instructions!Again, Present, Ahead, Over, DidIt
<1>6. Past'
  BY <1>1, <1>2 DEF InstrInv, InstrTypes, Past, Over, Instructions!Again
<1> QED
  BY <1>3, <1>5, <1>6 DEF InstrInv

LEMMA InstrSteps ==
    ASSUME InstrInv, [Instructions!Next]_(Instructions!vars)
    PROVE  InstrInv'
<1>1. CASE Instructions!Killed
  BY <1>1, Fails DEF Instructions!Killed, Instructions!situation
<1>2. CASE UNCHANGED Instructions!vars
  <2>1. /\ Governed' = Governed /\ (Cutable' <=> Cutable)
        /\ UNCHANGED <<dash, ext, files, home, loops, pc, instrI, forwardonly, flag99, recips, cmds,
                       code, runs, died, did>>
    BY <1>2, SameFile DEF Instructions!vars, Instructions!situation, Instructions!run
  <2>2. InstrTypes'
    BY <2>1 DEF InstrInv, InstrTypes
  <2>3. \A r, k : DidIt(r, k)' <=> DidIt(r, k)
    BY <2>1 DEF DidIt
  <2>4. Present'
    BY <2>1, <2>3 DEF InstrInv, Present, Ahead, Over, Upto
  <2>5. Past'
    BY <2>1, <2>3 DEF InstrInv, Past, Over
  <2> QED
    BY <2>2, <2>4, <2>5 DEF InstrInv
<1> QED
  BY <1>1, <1>2, SearchSteps, LineSteps, EndSteps, AgainSteps DEF Instructions!Next

LEMMA InstrRight ==
    ASSUME InstrInv
    PROVE  /\ Instructions!SuccessComplete /\ Instructions!ForwardOnce
           /\ Instructions!NothingForbidden
<1>t. /\ Governed \in Seq(Instructions!Kinds) /\ Len(recips) \in Nat
      /\ runs \in Nat /\ instrI \in Nat \ {0} /\ cmds \in Seq(Instructions!Kinds)
  BY GovernedType DEF InstrInv, InstrTypes
<1>1. ASSUME Instructions!Ended(0)
      PROVE  \E stop \in 0 .. Len(cmds) :
            /\ stop = Len(cmds) \/ (flag99 /\ stop > 0 /\ cmds[stop] = "|")
            /\ \A k \in 1 .. stop : cmds[k] \in {"file", "|"} => Instructions!DidLine(k)
            /\ \A k \in stop + 1 .. Len(cmds) : ~Instructions!DidLine(k)
            /\ (\E k \in 1 .. stop : cmds[k] = "&") <=> Instructions!DidLine(0)
  <2>1. \A k : Instructions!DidLine(k) <=> DidIt(runs, k)
    BY DEF Instructions!DidLine, DidIt
  <2>2. Over /\ Upto
    BY <1>1 DEF Instructions!Ended, Over, InstrInv, Present
  <2>3. /\ flag99 \/ instrI = Len(cmds) + 1
        /\ DidIt(runs, 0) <=> Len(recips) > 0
    BY <2>2 DEF InstrInv, Present
  <2>4. PICK stop \in 0 .. Len(cmds) : instrI = stop + 1
    BY <1>t, <2>2 DEF Upto
  <2> WITNESS stop \in 0 .. Len(cmds)
  <2>5. stop = Len(cmds) \/ (flag99 /\ stop > 0 /\ cmds[stop] = "|")
    BY <1>t, <2>2, <2>3, <2>4 DEF Upto
  <2>6. \A k \in 1 .. stop : cmds[k] \in {"file", "|"} => Instructions!DidLine(k)
    BY <1>t, <2>1, <2>2, <2>4 DEF Upto
  <2>7. \A k \in stop + 1 .. Len(cmds) : ~Instructions!DidLine(k)
    BY <1>t, <2>1, <2>2, <2>4 DEF Upto
  <2>8. (\E k \in 1 .. stop : cmds[k] = "&") <=> Instructions!DidLine(0)
    BY <1>t, <2>1, <2>2, <2>3, <2>4 DEF Upto
  <2> QED
    BY <2>5, <2>6, <2>7, <2>8
<1>2. Instructions!ForwardOnce
  <2>1. ASSUME NEW r \in (0 .. runs) \ died, <<r, 0>> \in did
        PROVE  r = runs /\ code \in {-1, 0}
    <3>1. r = runs /\ Over
      BY <1>t, <2>1 DEF InstrInv, Past, DidIt
    <3> QED
      BY <3>1 DEF InstrInv, Present, Over
  <2> QED
    BY <2>1 DEF Instructions!ForwardOnce
<1>3. ASSUME NEW r \in 0 .. runs, NEW k \in 1 .. InstrLines, <<r, k>> \in did
      PROVE  /\ \A n \in Instructions!Chosen(Instructions!Safe(ext)) :
                  files[n].lines # <<>> => ~files[n].cutable
             /\ ~\E l \in 1 .. k : l <= Len(cmds) /\ cmds[l] = "+list"
  <2>1. ~Cutable /\ \A l \in 1 .. Len(Governed) : l <= k => Governed[l] # "+list"
    BY <1>t, <1>3, QmailLocalAssumption DEF InstrInv, Past, DidIt
  <2>2. cmds = <<>> \/ cmds = Governed
    BY DEF InstrInv, Present
  <2>3. ~\E l \in 1 .. k : l <= Len(cmds) /\ cmds[l] = "+list"
    BY <1>t, <2>1, <2>2, QmailLocalAssumption
  <2> QED
    BY <2>1, <2>3 DEF Cutable, Full
<1>4. /\ loops => did = {}
      /\ home # "ok" => \A k \in 0 .. InstrLines : ~Instructions!DidLine(k)
  BY QmailLocalAssumption DEF InstrInv, Past, Instructions!DidLine, DidIt
<1> QED
  BY <1>1, <1>2, <1>3, <1>4 DEF Instructions!SuccessComplete, Instructions!NothingForbidden

\* A file that governs the address was found, or none is needed.
GovFull == {f \in {files[n] : n \in Governing!Chosen(Governing!Safe(ext))} : f.lines # <<>>}
GovLines == IF GovFull = {} THEN Governing!Aliasempty ELSE (CHOOSE f \in GovFull : TRUE).lines
GovernInv ==
    /\ ext \in Seq(STRING)
    /\ pc = "lines" => /\ cmds = GovLines
                       /\ Governing!Chosen(Governing!Safe(ext)) # {} \/ ~dash

LEMMA GovernSteps ==
    ASSUME GovernInv, [Governing!Next]_(Governing!vars)
    PROVE  GovernInv'
<1>1. UNCHANGED <<dash, ext, files>>
  BY DEF Governing!Next, Governing!vars, Governing!CheckHome, Governing!Bouncexf,
     Governing!Search, Governing!FirstBlank, Governing!Skip, Governing!List, Governing!ToFile,
     Governing!Program, Governing!Forward, Governing!Mailforward, Governing!Success,
     Governing!Killed, Governing!Again, Governing!Exit, Governing!Goto, Governing!NextLine,
     Governing!situation
<1>2. \/ pc' # "lines"
      \/ pc = "lines" /\ cmds' = cmds
      \/ cmds' = GovLines /\ (Governing!Chosen(Governing!Safe(ext)) # {} \/ ~dash)
  <2>1. CASE Governing!Search
    BY <2>1 DEF Governing!Search, Governing!Exit, Governing!Goto, GovLines, GovFull
  <2>2. CASE UNCHANGED Governing!vars
    BY <2>2 DEF Governing!vars, Governing!run
  <2>3. CASE \/ Governing!CheckHome \/ Governing!Bouncexf \/ Governing!Killed \/ Governing!Again
             \/ Governing!Mailforward \/ Governing!Success \/ Governing!FirstBlank
    BY <2>3 DEF Governing!CheckHome, Governing!Bouncexf, Governing!Killed, Governing!Again,
       Governing!Mailforward, Governing!Success, Governing!FirstBlank, Governing!Exit,
       Governing!Goto
  <2>4. CASE \/ Governing!Skip \/ Governing!List \/ Governing!ToFile \/ Governing!Program
             \/ Governing!Forward
    BY <2>4 DEF Governing!Skip, Governing!List, Governing!ToFile, Governing!Program,
       Governing!Forward, Governing!Line, Governing!NextLine, Governing!Exit
  <2> QED
    BY <2>1, <2>2, <2>3, <2>4 DEF Governing!Next
<1>3. Governing!Safe(ext)' = Governing!Safe(ext)
  BY <1>1 DEF Governing!Safe
<1>4. \A e : Governing!Chosen(e)' = Governing!Chosen(e)
  BY <1>1 DEF Governing!Chosen
<1>5. GovLines' = GovLines
  <2>1. GovFull' = GovFull
    BY <1>1, <1>3, <1>4 DEF GovFull
  <2> QED
    BY <2>1 DEF GovLines
<1> QED
  BY <1>1, <1>2, <1>3, <1>4, <1>5 DEF GovernInv

\* The name that is chosen governs.
LEMMA OneGoverns ==
    ASSUME NEW name, Governing!Chosen(Governing!Safe(ext)) = {name}
    PROVE  GovLines = IF files[name].lines = <<>> THEN Governing!Aliasempty ELSE files[name].lines
<1>1. GovFull = {f \in {files[name]} : f.lines # <<>>}
  BY DEF GovFull
<1>2. CASE files[name].lines = <<>>
  BY <1>1, <1>2 DEF GovLines
<1>3. CASE files[name].lines # <<>>
  <2>1. GovFull = {files[name]}
    BY <1>1, <1>3
  <2>2. (CHOOSE f \in GovFull : TRUE) = files[name]
    BY <2>1
  <2> QED
    BY <1>3, <2>1, <2>2 DEF GovLines
<1> QED
  BY <1>2, <1>3

LEMMA SafeKeeps ==
    ASSUME ext \in Seq(STRING)
    PROVE  /\ Len(Governing!Safe(ext)) = Len(ext) /\ Len(ext) \in Nat
           /\ \A k \in 1 .. Len(ext) :
                Governing!Safe(ext)[k] = Governing!DASH <=> ext[k] = Governing!DASH
BY DEF Governing!Safe, Governing!DASH

LEMMA GovernRight ==
    ASSUME GovernInv
    PROVE  Governing!GovernsRight
<1> DEFINE safe == Governing!Safe(ext)
           named(k) == Governing!Default(SubSeq(safe, 1, k))
<1>1. ASSUME pc = "lines", safe \in DOMAIN files, files[safe].lines # <<>>
      PROVE  cmds = files[safe].lines
  <2>1. Governing!Chosen(safe) = {safe}
    BY <1>1 DEF Governing!Chosen
  <2> QED
    BY <1>1, <2>1, OneGoverns DEF GovernInv
<1>2. ASSUME pc = "lines", safe \notin DOMAIN files, NEW k \in 0 .. Len(ext),
             named(k) \in DOMAIN files, k = 0 \/ ext[k] = Governing!DASH,
             \A l \in k + 1 .. Len(ext) : ext[l] = Governing!DASH => named(l) \notin DOMAIN files
      PROVE  cmds = IF files[named(k)].lines = <<>> THEN Governing!Aliasempty
                    ELSE files[named(k)].lines
  <2> DEFINE some == {x \in Governing!Cuts(safe) : named(x) \in DOMAIN files}
  <2>1. /\ Len(safe) = Len(ext) /\ Len(ext) \in Nat
        /\ \A x \in 1 .. Len(ext) : safe[x] = Governing!DASH <=> ext[x] = Governing!DASH
    BY SafeKeeps DEF GovernInv
  <2>2. Governing!Chosen(safe) = {named(x) : x \in {y \in some : \A z \in some : y >= z}}
    BY <1>2 DEF Governing!Chosen
  <2> HIDE DEF safe, named
  <2>3. k \in some
    BY <1>2, <2>1 DEF Governing!Cuts
  <2>4. \A z \in some : /\ z \in 0 .. Len(ext) /\ (z = 0 \/ ext[z] = Governing!DASH)
                        /\ named(z) \in DOMAIN files
    BY <2>1 DEF Governing!Cuts
  <2>5. \A z \in some : k >= z
    BY <1>2, <2>1, <2>4
  <2>6. {y \in some : \A z \in some : y >= z} = {k}
    <3> HIDE DEF some
    <3>1. ASSUME NEW y \in some, \A z \in some : y >= z
          PROVE  y = k
      BY <2>1, <2>3, <2>4, <2>5, <3>1
    <3> QED
      BY <2>3, <2>5, <3>1
  <2> HIDE DEF some
  <2>7. Governing!Chosen(safe) = {named(k)}
    BY <2>2, <2>6
  <2> QED
    BY <1>2, <2>7, OneGoverns DEF GovernInv, safe
<1>3. ASSUME pc = "lines", files = <<>>
      PROVE  ~dash /\ cmds = Governing!Aliasempty
  <2>1. DOMAIN files = {}
    BY <1>3
  <2>2. Governing!Chosen(safe) = {}
    BY <2>1 DEF Governing!Chosen
  <2>3. GovFull = {}
    BY <2>2 DEF GovFull
  <2> QED
    BY <1>3, <2>2, <2>3 DEF GovernInv, GovLines
<1> QED
  BY <1>1, <1>2, <1>3 DEF Governing!GovernsRight

-----------------------------------------------------------------------------
(* Together.                                                               *)

LEMMA PartKept ==
    ASSUME [MCNext]_mcvars
    PROVE  part' = part
BY DEF MCNext, mcOthers, mcvars

LEMMA BoxesSteps ==
    ASSUME [MCNext]_mcvars, part = "maildir"
    PROVE  [Boxes!Next]_(Boxes!vars)
BY DEF MCNext, mcOthers, mcvars, maildirVars, Boxes!vars

LEMMA InstructionsSteps ==
    ASSUME [MCNext]_mcvars, part = "instr"
    PROVE  [Instructions!Next]_(Instructions!vars)
BY DEF MCNext, mcOthers, mcvars, instrVars, Instructions!vars, Instructions!situation,
   Instructions!run

LEMMA GoverningSteps ==
    ASSUME [MCNext]_mcvars, part = "govern"
    PROVE  [Governing!Next]_(Governing!vars)
BY DEF MCNext, mcOthers, mcvars, instrVars, Governing!vars, Governing!situation, Governing!run

LEMMA LoopingSteps ==
    ASSUME [MCNext]_mcvars, part = "loops"
    PROVE  [Looping!Next]_(Looping!vars)
BY DEF MCNext, mcOthers, mcvars, loopsVars, Looping!vars

(* OnlyWholeMessages: for any number of deliveries, sessions and readers   *)
(* that use a maildir at once without a lock, what is in new/ and cur/ is  *)
(* whole, after a crash of the machine too (fsync() before link() in       *)
(* maildir_child()); it stays, and is there once, until its user deletes   *)
(* it (pop3_quit()); and maildir_clean() never takes the file of a         *)
(* delivery that still runs away.                                          *)
THEOREM MaildirKept == MCSpec => []OnlyWholeMessages
<1> DEFINE Inv == part = "maildir" => MaildirInv
<1>1. MCInit => Inv
  BY MaildirStarts DEF MCInit
<1>2. Inv /\ [MCNext]_mcvars => Inv'
  BY PartKept, BoxesSteps, MaildirSteps
<1>3. Inv => OnlyWholeMessages
  BY MaildirRight DEF OnlyWholeMessages
<1> QED
  BY <1>1, <1>2, <1>3, PTL DEF MCSpec

(* OncePerAddress: whatever the .qmail files say and hosts elsewhere do    *)
(* with a message, no file is worked through twice by one copy of it (the  *)
(* Delivered-To lines of qmail-local), and the bounce of a loop through    *)
(* lists goes to an owner of one of them (NEWSENDER).                      *)
THEOREM LoopsCut == MCSpec => []OncePerAddress
<1> DEFINE Inv == part = "loops" => LoopsInv
<1>1. MCInit => Inv
  BY LoopsStarts DEF MCInit
<1>2. Inv /\ [MCNext]_mcvars => Inv'
  BY PartKept, LoopingSteps, LoopsSteps
<1>3. Inv => OncePerAddress
  BY LoopsRight DEF OncePerAddress
<1> QED
  BY <1>1, <1>2, <1>3, PTL DEF MCSpec

(* NothingForbidden: whatever the .qmail file says and however often       *)
(* qmail-lspawn starts it, qmail-local reports success only when all the   *)
(* instructions that count were carried out in that run, forwards last and *)
(* once at most unless somebody was killed, starts nothing from a file     *)
(* that only forwards, carries out no instruction in a run that finds the  *)
(* home sticky or writable, nor when the message loops; and qmesearch()    *)
(* finds the file that governs.                                            *)
THEOREM InstructionsObeyed == MCSpec => []NothingForbidden
<1> DEFINE Inv == (part = "instr" => InstrInv) /\ (part = "govern" => GovernInv)
<1>1. MCInit => Inv
  BY InstrStarts, QmailLocalAssumption DEF MCInit, Governing!Init, GovernInv
<1>2. Inv /\ [MCNext]_mcvars => Inv'
  BY PartKept, InstructionsSteps, InstrSteps, GoverningSteps, GovernSteps
<1>3. Inv => NothingForbidden
  BY InstrRight, GovernRight DEF NothingForbidden
<1> QED
  BY <1>1, <1>2, <1>3, PTL DEF MCSpec
=============================================================================
