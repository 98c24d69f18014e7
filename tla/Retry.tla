--------------------------------- MODULE Retry --------------------------------
(***************************************************************************)
(* When qmail-send tries a message again: nextretry(), the timeout of      *)
(* select(), the queue life time, and the times that survive a restart in  *)
(* the files' modification times.  A message has one channel and one       *)
(* recipient.  A turn of the main loop takes no time; deliveries do.       *)
(***************************************************************************)
EXTENDS Integers, FiniteSetsExt, WellFoundedInduction, TLAPS

CONSTANTS Msgs, Chan, Birth,    \* the message's channel; info's time
          Chanskip, Lifetime, NumJobs,
          SLEEP_SYSFAIL, SLEEP_FUZZ, SLEEP_FOREVER,
          MaxTime,              \* the bound of the clock
          Faults, MaxFaults     \* which may happen, and how often

Channels == {0, 1}
Top == 2        \* phases 0 and 1 are pass_dochan() of that channel
Asleep == 3
Down == 4
None == "none"
Out == -1       \* not in the priority queue
NoJob == [retry |-> Out, dying |-> FALSE, todo |-> FALSE, refs |-> 0]

VARIABLES now, phase,
          left,     \* of the timeout of select()
          recent, exitasap,
          pq,       \* pqchan: when m is due
          mtime,    \* of the channel's file
          job, pass,
          gone,     \* messages whose file of recipients has been removed
          tries, undisturbed,   \* for the properties only
          faults

daemon == <<recent, exitasap, pq, job, pass>>
ghosts == <<tries, undisturbed>>
vars == <<now, phase, left, daemon, mtime, gone, ghosts, faults>>

Init ==
    /\ now = Max({Birth[m] : m \in Msgs}) /\ phase = Down /\ left = 0
    /\ recent = 0 /\ exitasap = FALSE
    /\ pq = [m \in Msgs |-> Out] /\ mtime = Birth
    /\ job = [m \in Msgs |-> NoJob] /\ pass = [c \in Channels |-> None]
    /\ gone = {} /\ tries = [m \in Msgs |-> 0] /\ undisturbed = Msgs /\ faults = 0

Fault(f) == f \in Faults /\ faults < MaxFaults /\ faults' = faults + 1

-----------------------------------------------------------------------------
\* What RootCorrect (SendProofs) says of the loop in the code.
squareroot(x) == CHOOSE r \in 0 .. x : r * r <= x /\ x < (r + 1) * (r + 1)

nextretry(m) ==
    LET n == (IF Birth[m] > recent THEN 0 ELSE squareroot(recent - Birth[m]))
             + Chanskip[Chan[m]] IN
    Birth[m] + n * n

\* Of a job's references one is the pass's, one the delivery's.
Delivering(m) == job[m].refs = IF pass[Chan[m]] = m THEN 2 ELSE 1

CanExit == \A m \in Msgs : ~Delivering(m)

JobAvail == Cardinality({m \in Msgs : job[m] # NoJob}) < NumJobs

Queued(c) == {m \in Msgs : Chan[m] = c /\ pq[m] # Out}
\* The channels whose queue the timeout looks at.
Idle == {c \in Channels : pass[c] = None}

\* pass_selprep(): the times that wakeup is the least of.
Wakeup == {now + SLEEP_FOREVER}
          \cup {pq[m] : m \in IF JobAvail THEN UNION {Queued(c) : c \in Idle} ELSE {}}

\* The turn up to select(): sigalrm() was seen, or not.
Select ==
    /\ phase = Top /\ phase' = Asleep /\ recent' = now
    /\ ~(exitasap /\ CanExit)
    /\ LET wakeup == IF exitasap THEN now + SLEEP_FOREVER
                     ELSE IF Idle # Channels THEN 0 ELSE Min(Wakeup) IN
       left' = IF wakeup <= now THEN 0 ELSE wakeup - now + SLEEP_FUZZ
    /\ UNCHANGED <<now, exitasap, pq, job, pass, mtime, gone, ghosts, faults>>

\* pqrun(), before select().
Alarm ==
    /\ phase = Top /\ Fault("alarm")
    /\ pq' = [m \in Msgs |-> IF pq[m] = Out THEN Out ELSE now]
    /\ undisturbed' = {m \in undisturbed : pq[m] = Out}
    /\ recent' = now
    /\ UNCHANGED <<now, phase, left, exitasap, job, pass, mtime, gone, tries>>

\* The time is up.
Wake ==
    /\ phase = Asleep /\ left = 0
    /\ phase' = 0 /\ recent' = now
    /\ UNCHANGED <<now, left, exitasap, pq, job, pass, mtime, gone, ghosts, faults>>

(* Mutant of JobClose: a message that is to be retried is not queued.       *)
JobCloseDrops(m, j) ==
    IF j.refs > 1
    THEN job' = [job EXCEPT ![m] = [j EXCEPT !.refs = @ - 1]] /\ UNCHANGED <<pq, gone>>
    ELSE /\ job' = [job EXCEPT ![m] = NoJob] /\ UNCHANGED pq
         /\ gone' = IF j.todo THEN gone ELSE gone \cup {m}

\* job_close(), with j what is known of m when one reference goes.
JobClose(m, j) ==
    IF j.refs > 1
    THEN job' = [job EXCEPT ![m] = [j EXCEPT !.refs = @ - 1]] /\ UNCHANGED <<pq, gone>>
    ELSE /\ job' = [job EXCEPT ![m] = NoJob]
         /\ IF j.todo THEN pq' = [pq EXCEPT ![m] = j.retry] /\ UNCHANGED gone
            ELSE gone' = gone \cup {m} /\ UNCHANGED pq

\* A delivery ends: it wakes select(), and del_dochan() closes the job.
Report(m) ==
    /\ phase = Asleep /\ Delivering(m)
    /\ phase' = 0 /\ recent' = now
    /\ \E deferred \in BOOLEAN :
         JobClose(m, [job[m] EXCEPT !.todo = deferred /\ ~job[m].dying])
    /\ UNCHANGED <<now, left, exitasap, pass, mtime, ghosts, faults>>

-----------------------------------------------------------------------------
\* pass_dochan() opens the message that is due first, and starts its delivery.
PassOpen(c, m) ==
    /\ phase = c /\ ~exitasap /\ pass[c] = None /\ JobAvail
    /\ m \in Queued(c) /\ pq[m] <= recent /\ \A o \in Queued(c) : pq[m] <= pq[o]
    /\ pass' = [pass EXCEPT ![c] = m] /\ pq' = [pq EXCEPT ![m] = Out]
    /\ job' = [job EXCEPT ![m] = [retry |-> nextretry(m), todo |-> TRUE, refs |-> 2,
                                  dying |-> recent > Birth[m] + Lifetime]]
    /\ tries' = [tries EXCEPT ![m] = @ + 1]
    /\ phase' = c + 1
    /\ UNCHANGED <<now, left, recent, exitasap, mtime, gone, undisturbed, faults>>

PassTrouble(c, m) ==
    /\ phase = c /\ ~exitasap /\ pass[c] = None /\ JobAvail /\ Fault("open")
    /\ m \in Queued(c) /\ pq[m] <= recent /\ \A o \in Queued(c) : pq[m] <= pq[o]
    /\ recent + SLEEP_SYSFAIL + SLEEP_FUZZ <= MaxTime
    /\ pq' = [pq EXCEPT ![m] = recent + SLEEP_SYSFAIL]
    /\ phase' = c + 1
    /\ UNCHANGED <<now, left, recent, exitasap, job, pass, mtime, gone, ghosts>>

\* The end of the file of recipients.
PassClose(c) ==
    /\ phase = c /\ ~exitasap /\ pass[c] # None
    /\ JobClose(pass[c], job[pass[c]])
    /\ pass' = [pass EXCEPT ![c] = None] /\ phase' = c + 1
    /\ UNCHANGED <<now, left, recent, exitasap, mtime, ghosts, faults>>

PassNothing(c) ==
    /\ phase = c /\ phase' = c + 1
    /\ exitasap \/ (pass[c] = None /\ (~JobAvail \/ \A m \in Queued(c) : pq[m] > recent))
    /\ UNCHANGED <<now, left, daemon, mtime, gone, ghosts, faults>>

-----------------------------------------------------------------------------
Term ==
    /\ phase = Asleep /\ ~exitasap /\ Fault("term") /\ exitasap' = TRUE /\ phase' = Top
    /\ UNCHANGED <<now, left, recent, pq, job, pass, mtime, gone, ghosts>>

(* Mutant of Pqfinish: the time of the exit is saved.                      *)
PqfinishRecent(fail) == [m \in Msgs |-> IF pq[m] = Out \/ m \in fail THEN mtime[m] ELSE recent]

\* pqfinish(): the times of the queue go to the files.
Pqfinish(fail) == [m \in Msgs |-> IF pq[m] = Out \/ m \in fail THEN mtime[m] ELSE pq[m]]

\* A message that a pass is in the middle of keeps its old time.
Exit ==
    /\ phase = Top /\ exitasap /\ CanExit /\ phase' = Down
    /\ \E fail \in {{}} \cup {{m} : m \in Msgs} :
         /\ IF fail = {} THEN UNCHANGED faults ELSE Fault("utimes")
         /\ mtime' = Pqfinish(fail)
         /\ undisturbed' = undisturbed \ (fail \cup {m \in Msgs : job[m] # NoJob})
    /\ UNCHANGED <<now, left, daemon, gone, tries>>

Crash ==
    /\ phase # Down /\ Fault("crash") /\ phase' = Down /\ undisturbed' = {}
    /\ UNCHANGED <<now, left, daemon, mtime, gone, tries>>

\* main() and pqstart().
Start ==
    /\ phase = Down /\ phase' = Top /\ exitasap' = FALSE
    /\ pq' = [m \in Msgs |-> IF m \in gone THEN Out ELSE mtime[m]]
    /\ job' = [m \in Msgs |-> NoJob] /\ pass' = [c \in Channels |-> None]
    /\ UNCHANGED <<now, left, recent, mtime, gone, ghosts, faults>>

\* Time passes in select(), or while no qmail-send runs.
Tick ==
    /\ now < MaxTime /\ now' = now + 1
    /\ \/ phase = Asleep /\ left > 0 /\ left' = left - 1
       \/ phase = Down /\ UNCHANGED left
    /\ UNCHANGED <<phase, daemon, mtime, gone, ghosts, faults>>

\* The clock is set back; the timeout goes on.
ClockBack ==
    /\ Fault("clock") /\ now > 2 /\ now' = now - 3 /\ undisturbed' = {}
    /\ UNCHANGED <<phase, left, daemon, mtime, gone, tries>>

\* The main loop and qmail-spawn's reports, without what goes wrong.
Works ==
    \/ Select \/ Wake \/ Exit \/ Start \/ Tick
    \/ \E m \in Msgs : Report(m)
    \/ \E c \in Channels : PassClose(c) \/ PassNothing(c) \/ \E m \in Msgs : PassOpen(c, m)

Next ==
    \/ Works \/ Alarm \/ Term \/ Crash \/ ClockBack
    \/ \E c \in Channels, m \in Msgs : PassTrouble(c, m)

Spec == Init /\ [][Next]_vars

-----------------------------------------------------------------------------
(* The retry schedule of a message whose times nobody disturbed (a signal, *)
(* the clock, a crash, utimes(), an exit in the middle of its recipients): *)
(* the nth try is not made before the age of ((n - 1) * chanskip)^2, with  *)
(* any delays, errors and clean restarts in between.                       *)
Spaced ==
    \A m \in undisturbed :
        LET n == (tries[m] - 1) * Chanskip[Chan[m]] IN
        tries[m] > 0 => now >= Birth[m] + n * n

(* Whatever the clock does, the next try is later than the one that is     *)
(* made: the loop never tries a message again in the same second.          *)
Later == \A m \in Msgs : job[m] = NoJob /\ job'[m] # NoJob => job'[m].retry > recent

(* select() returns in time: it never sleeps past a message that is due    *)
(* and that pass_dochan() could open, by more than SLEEP_FUZZ.             *)
OnTime ==
    phase = Asleep /\ ~exitasap /\ JobAvail =>
        \A c \in Idle : \A m \in Queued(c) :
            now + left <= Max({now, pq[m] + SLEEP_FUZZ})

-----------------------------------------------------------------------------
(***************************************************************************)
(* Proofs: the schedule, for any messages, chanskips and sleeping times.   *)
(*                                                                         *)
(* What makes it hold over restarts is where the time of the next try is   *)
(* kept: in the priority queue, then in the job, then in the queue again,  *)
(* and in the modification time of the file while qmail-send is down.      *)
(* Kept says that it is never before the age that the schedule asks for,   *)
(* wherever it is, and that a message is never nowhere.                    *)
(***************************************************************************)

(* What the constants of an instance have to be.  The least retry time is  *)
(* later than the last one because chanskip is not 0 (qmail-send.c:1018).  *)
RetryConstants ==
    /\ Birth \in [Msgs -> Nat] /\ Chan \in [Msgs -> Channels] /\ None \notin Msgs
    /\ Chanskip \in [Channels -> Nat \ {0}]
    /\ SLEEP_SYSFAIL \in Nat /\ SLEEP_FUZZ \in Nat /\ SLEEP_FOREVER \in Nat
    /\ \E m \in Msgs : \A o \in Msgs : Birth[o] <= Birth[m]

Jobs == [retry : Nat \cup {Out}, dying : BOOLEAN, todo : BOOLEAN, refs : Nat]
Types ==
    /\ now \in Nat /\ phase \in 0 .. 4 /\ left \in Nat /\ recent \in Nat
    /\ pq \in [Msgs -> Nat \cup {Out}] /\ mtime \in [Msgs -> Nat]
    /\ job \in [Msgs -> Jobs] /\ pass \in [Channels -> Msgs \cup {None}]
    /\ gone \in SUBSET Msgs /\ tries \in [Msgs -> Nat] /\ undisturbed \in SUBSET Msgs

\* The age that a message has at its try number n + 1 at least.
Age(m, n) == n * Chanskip[Chan[m]] * (n * Chanskip[Chan[m]])
Bound(m) == Birth[m] + Age(m, tries[m])

\* m is somewhere, and not before time b there.
Due(m, b) ==
    /\ pq[m] # Out => pq[m] >= b
    /\ job[m] # NoJob => job[m].retry >= b
    /\ pq[m] # Out \/ job[m] # NoJob \/ m \in gone

Kept(m) ==
    /\ recent <= now
    /\ tries[m] > 0 => now >= Birth[m] + Age(m, tries[m] - 1)
    /\ phase # Down => Due(m, Bound(m))
    /\ phase = Down => m \in gone \/ mtime[m] >= Bound(m)

RetryInv == Types /\ OnTime /\ \A m \in undisturbed : Kept(m)

-----------------------------------------------------------------------------
LEMMA LeastNat ==
    ASSUME NEW S \in SUBSET Nat, S # {}
    PROVE  \E x \in S : \A y \in S : x <= y
<1> DEFINE R == OpToRel(<, Nat)
<1>1. PICK x \in S : \A y \in S : <<y, x>> \notin R
  <2> HIDE DEF R
  <2>1. IsWellFoundedOn(R, Nat)
    BY NatLessThanWellFounded DEF R
  <2> QED
    BY <2>1, WFMin
<1>2. R = {ss \in Nat \X Nat : ss[1] < ss[2]}
  BY DEF OpToRel
<1>3. ASSUME NEW y \in S
      PROVE  x <= y
  <2>1. <<y, x>> \notin {ss \in Nat \X Nat : ss[1] < ss[2]}
    BY <1>1, <1>2
  <2>2. ~(y < x)
    BY <2>1
  <2> QED
    BY <2>2
<1> QED
  BY <1>3

LEMMA MinNat ==
    ASSUME NEW S \in SUBSET Nat, S # {}
    PROVE  Min(S) \in S /\ \A y \in S : Min(S) <= y
BY LeastNat DEF Min

LEMMA MaxTwo ==
    ASSUME NEW a \in Int, NEW b \in Int
    PROVE  Max({a, b}) = IF a >= b THEN a ELSE b
<1>1. \E x \in {a, b} : \A y \in {a, b} : x >= y
  OBVIOUS
<1>2. Max({a, b}) \in {a, b} /\ \A y \in {a, b} : Max({a, b}) >= y
  BY <1>1 DEF Max
<1> QED
  BY <1>2

LEMMA Squares ==
    ASSUME NEW a \in Nat, NEW b \in Nat, a <= b
    PROVE  a * a <= b * b
OBVIOUS

LEMMA Times ==
    ASSUME NEW n \in Nat, NEW k \in Nat
    PROVE  n * k \in Nat /\ (n + 1) * k = n * k + k
OBVIOUS

\* squareroot() has a value.
LEMMA RootExists ==
    ASSUME NEW x \in Nat
    PROVE  LET r == squareroot(x) IN r \in Nat /\ r * r <= x /\ x < (r + 1) * (r + 1)
<1> DEFINE S == {s \in Nat : x < s * s}
<1>1. x + 1 \in S
  OBVIOUS
<1>2. PICK s \in S : \A y \in S : s <= y
  BY <1>1, LeastNat
<1>3. s \in Nat /\ s # 0 /\ x < s * s
  BY <1>2
<1>4. PICK r \in Nat : s = r + 1
  BY <1>3
<1>5. r * r <= x
  BY <1>2, <1>4
<1>6. r <= x
  <2>1. r <= r * r
    OBVIOUS
  <2> QED
    BY <2>1, <1>5
<1>7. \E q \in 0 .. x : q * q <= x /\ x < (q + 1) * (q + 1)
  BY <1>3, <1>4, <1>5, <1>6
<1>8. squareroot(x) \in 0 .. x /\ squareroot(x) * squareroot(x) <= x
      /\ x < (squareroot(x) + 1) * (squareroot(x) + 1)
  BY <1>7, Zenon DEF squareroot
<1> QED
  BY <1>8

\* The next try: after the present one, and not before its time.
LEMMA NextRetry ==
    ASSUME RetryConstants, NEW m \in Msgs, recent \in Nat
    PROVE  /\ nextretry(m) \in Nat /\ nextretry(m) > recent
           /\ \A n \in Nat : recent >= Birth[m] + Age(m, n) =>
                nextretry(m) >= Birth[m] + Age(m, n + 1)
<1> PICK b \in Nat, k \in Nat : b = Birth[m] /\ k = Chanskip[Chan[m]] /\ k > 0
  BY DEF RetryConstants
<1>1. CASE b > recent
  <2>1. nextretry(m) = b + k * k
    BY <1>1 DEF nextretry
  <2>2. k * k \in Nat
    OBVIOUS
  <2>3. \A n \in Nat : ~(recent >= Birth[m] + Age(m, n))
    <3> SUFFICES ASSUME NEW n \in Nat
                 PROVE  ~(recent >= Birth[m] + Age(m, n))
      OBVIOUS
    <3>1. n * k \in Nat
      OBVIOUS
    <3>2. n * k * (n * k) \in Nat
      BY <3>1
    <3> QED
      BY <3>2, <1>1 DEF Age
  <2> QED
    BY <1>1, <2>1, <2>2, <2>3
<1>2. CASE ~(b > recent)
  <2>1. recent - b \in Nat
    BY <1>2
  <2> PICK r \in Nat : r = squareroot(recent - b) /\ r * r <= recent - b
                       /\ recent - b < (r + 1) * (r + 1)
    BY <2>1, RootExists
  <2>2. nextretry(m) = b + (r + k) * (r + k)
    BY <1>2 DEF nextretry
  <2>3. r + 1 <= r + k /\ r + 1 \in Nat /\ r + k \in Nat
    OBVIOUS
  <2>4. (r + 1) * (r + 1) <= (r + k) * (r + k)
    BY <2>3, Squares
  <2>5. (r + k) * (r + k) \in Nat /\ (r + 1) * (r + 1) \in Nat
    BY <2>3
  <2>6. ASSUME NEW n \in Nat, recent >= Birth[m] + Age(m, n)
        PROVE  nextretry(m) >= Birth[m] + Age(m, n + 1)
    <3> PICK a \in Nat : a = n * k /\ (n + 1) * k = a + k
      BY Times
    <3>1. Age(m, n) = a * a
      BY DEF Age
    <3>2. (n + 1) * k = a + k
      BY Times
    <3>3. Age(m, n + 1) = (a + k) * (a + k)
      BY <3>2 DEF Age
    <3>4. a < r + 1
      <4> SUFFICES ASSUME r + 1 <= a
                   PROVE  FALSE
        OBVIOUS
      <4>1. (r + 1) * (r + 1) <= a * a
        BY Squares, <2>3
      <4>2. a * a \in Nat
        OBVIOUS
      <4> QED
        BY <4>1, <4>2, <2>5, <2>6, <3>1
    <3>5. a + k <= r + k /\ a + k \in Nat
      BY <3>4
    <3>6. (a + k) * (a + k) <= (r + k) * (r + k)
      BY <3>5, <2>3, Squares
    <3>7. (a + k) * (a + k) \in Nat
      BY <3>5, Times
    <3> QED
      BY <3>3, <3>6, <3>7, <2>2, <2>5
  <2> QED
    BY <2>2, <2>4, <2>5, <2>6
<1> QED
  BY <1>1, <1>2

LEMMA BoundNat ==
    ASSUME RetryConstants, NEW m \in Msgs, NEW n \in Nat
    PROVE  Age(m, n) \in Nat /\ Birth[m] \in Nat
<1>1. n * Chanskip[Chan[m]] \in Nat
  BY DEF RetryConstants
<1> QED
  BY <1>1 DEF Age, RetryConstants

\* job_close() keeps what is known of the time of every message.
LEMMA Closing ==
    ASSUME Types, NEW m \in Msgs, NEW j \in Jobs, JobClose(m, j),
           j.retry = job[m].retry, job[m] = NoJob => j = NoJob
    PROVE  /\ pq' \in [Msgs -> Nat \cup {Out}] /\ job' \in [Msgs -> Jobs]
           /\ gone' \in SUBSET Msgs
           /\ \A o \in Msgs, b \in Nat : Due(o, b) => Due(o, b)'
<1>1. CASE j.refs > 1
  <2> DEFINE k == [j EXCEPT !.refs = @ - 1]
  <2>1. job' = [job EXCEPT ![m] = k] /\ pq' = pq /\ gone' = gone
    BY <1>1 DEF JobClose
  <2>2. k \in Jobs /\ k.retry = j.retry
    BY <1>1 DEF Jobs
  <2>3. job[m] # NoJob
    BY <1>1 DEF NoJob
  <2> HIDE DEF k
  <2>4. ASSUME NEW o \in Msgs, NEW b \in Nat, Due(o, b)
        PROVE  Due(o, b)'
    <3>1. CASE o = m
      <4>1. job'[m] = k
        BY <2>1 DEF Types
      <4>2. k.retry >= b
        BY <2>2, <2>3, <2>4, <3>1 DEF Due
      <4>3. k # NoJob
        BY <4>2 DEF NoJob, Out
      <4> QED
        BY <2>1, <2>4, <3>1, <4>1, <4>2, <4>3 DEF Due
    <3>2. CASE o # m
      BY <2>1, <2>4, <3>2 DEF Due, Types
    <3> QED
      BY <3>1, <3>2
  <2> QED
    BY <2>1, <2>2, <2>4 DEF Types
<1>2. CASE ~(j.refs > 1)
  <2>1. /\ job' = [job EXCEPT ![m] = NoJob]
        /\ \/ j.todo /\ pq' = [pq EXCEPT ![m] = j.retry] /\ gone' = gone
           \/ gone' = gone \cup {m} /\ pq' = pq
    BY <1>2 DEF JobClose
  <2>2. NoJob \in Jobs /\ j.retry \in Nat \cup {Out}
    BY DEF NoJob, Jobs
  <2>3. ASSUME NEW o \in Msgs, NEW b \in Nat, Due(o, b)
        PROVE  Due(o, b)'
    <3>1. CASE o = m /\ j.todo /\ pq' = [pq EXCEPT ![m] = j.retry]
      <4>1. job[m] # NoJob
        BY <3>1 DEF NoJob
      <4>2. j.retry >= b
        BY <2>3, <3>1, <4>1 DEF Due
      <4>3. job'[m] = NoJob /\ pq'[m] = j.retry /\ j.retry # Out
        BY <2>1, <3>1, <4>2 DEF Types, Out
      <4> QED
        BY <3>1, <4>2, <4>3 DEF Due
    <3>2. CASE o = m /\ gone' = gone \cup {m} /\ pq' = pq
      BY <2>1, <2>3, <3>2 DEF Due, Types
    <3>3. CASE o # m
      BY <2>1, <2>3, <3>3 DEF Due, Types
    <3> QED
      BY <2>1, <3>1, <3>2, <3>3
  <2> QED
    BY <2>1, <2>2, <2>3 DEF Types
<1> QED
  BY <1>1, <1>2

LEMMA Reporting ==
    ASSUME Types, NEW m \in Msgs, Report(m)
    PROVE  /\ job[m] # NoJob
           /\ \A b \in BOOLEAN : /\ [job[m] EXCEPT !.todo = b] \in Jobs
                                 /\ [job[m] EXCEPT !.todo = b].retry = job[m].retry
<1>1. job[m].refs # 0
  BY DEF Report, Delivering
<1>2. job[m] \in Jobs
  BY DEF Types
<1>3. \A b \in BOOLEAN : /\ [job[m] EXCEPT !.todo = b] \in Jobs
                          /\ [job[m] EXCEPT !.todo = b].retry = job[m].retry
  BY <1>2 DEF Jobs
<1> QED
  BY <1>1, <1>3 DEF NoJob

LEMMA Starts ==
    ASSUME RetryConstants, Init
    PROVE  RetryInv
<1>1. now \in Nat
  <2>1. PICK m \in Msgs : \A o \in Msgs : Birth[o] <= Birth[m]
    BY DEF RetryConstants
  <2>2. \E x \in {Birth[o] : o \in Msgs} : \A y \in {Birth[o] : o \in Msgs} : x >= y
    BY <2>1 DEF RetryConstants
  <2>3. Max({Birth[o] : o \in Msgs}) \in {Birth[o] : o \in Msgs}
    BY <2>2, Zenon DEF Max
  <2> QED
    BY <2>3 DEF Init, RetryConstants
<1>2. Types
  <2>1. NoJob \in Jobs
    BY DEF NoJob, Jobs
  <2>2. mtime \in [Msgs -> Nat] /\ undisturbed \in SUBSET Msgs /\ left \in Nat /\ recent \in Nat
    BY DEF Init, RetryConstants
  <2>3. job \in [Msgs -> Jobs] /\ pq \in [Msgs -> Nat \cup {Out}] /\ tries \in [Msgs -> Nat]
        /\ pass \in [Channels -> Msgs \cup {None}]
    BY <2>1 DEF Init
  <2>4. phase \in 0 .. 4 /\ gone \in SUBSET Msgs
    BY DEF Init, Down
  <2> QED
    BY <1>1, <2>2, <2>3, <2>4 DEF Types
<1>3. OnTime
  BY DEF OnTime, Init, Down, Asleep
<1>4. ASSUME NEW m \in Msgs
      PROVE  Kept(m)
  <2>1. Age(m, 0) = 0 /\ Birth[m] \in Nat
    BY DEF Age, RetryConstants
  <2> QED
    BY <1>1, <2>1 DEF Kept, Init, Bound, Down
<1> QED
  BY <1>2, <1>3, <1>4 DEF RetryInv, Init

LEMMA TypesKept ==
    ASSUME RetryConstants, Types, Next
    PROVE  Types'
<1>1. CASE Select
  <2>1. Wakeup \in SUBSET Nat /\ Wakeup # {}
    BY DEF Wakeup, Types, RetryConstants, Queued
  <2>2. Min(Wakeup) \in Nat
    BY <2>1, MinNat
  <2>3. left' \in Nat
    BY <1>1, <2>2 DEF Select, Types, RetryConstants
  <2> QED
    BY <1>1, <2>3 DEF Select, Types, Asleep, ghosts
<1>2. CASE Alarm
  <2>1. pq' \in [Msgs -> Nat \cup {Out}] /\ undisturbed' \in SUBSET Msgs
    BY <1>2 DEF Alarm, Types
  <2> QED
    BY <1>2, <2>1 DEF Alarm, Types
<1>3. CASE Wake \/ Term \/ Crash \/ ClockBack \/ Tick
  <2>1. CASE Wake \/ Term \/ Crash
    <3>1. phase' \in 0 .. 4 /\ recent' \in Nat
          /\ undisturbed' \in SUBSET Msgs
      BY <2>1 DEF Wake, Term, Crash, Types, Top, Down, daemon, ghosts
    <3>2. UNCHANGED <<now, left, pq, job, pass, mtime, gone, tries>>
      BY <2>1 DEF Wake, Term, Crash, daemon, ghosts
    <3> QED
      BY <3>1, <3>2 DEF Types
  <2>2. CASE ClockBack
    <3>1. now' \in Nat
      BY <2>2 DEF ClockBack, Types
    <3> QED
      BY <2>2, <3>1 DEF ClockBack, Types, daemon
  <2>3. CASE Tick
    <3>1. now' \in Nat /\ left' \in Nat
      BY <2>3 DEF Tick, Types
    <3> QED
      BY <2>3, <3>1 DEF Tick, Types, daemon, ghosts
  <2> QED
    BY <1>3, <2>1, <2>2, <2>3
<1>4. ASSUME NEW m \in Msgs, Report(m)
      PROVE  Types'
  <2>1. PICK b \in BOOLEAN : JobClose(m, [job[m] EXCEPT !.todo = b])
    BY <1>4 DEF Report
  <2>2. [job[m] EXCEPT !.todo = b] \in Jobs /\ [job[m] EXCEPT !.todo = b].retry = job[m].retry
    BY <1>4, Reporting
  <2>3. job[m] # NoJob
    BY <1>4, Reporting
  <2>4. /\ pq' \in [Msgs -> Nat \cup {Out}] /\ job' \in [Msgs -> Jobs]
        /\ gone' \in SUBSET Msgs
    BY <2>1, <2>2, <2>3, Closing
  <2> QED
    BY <1>4, <2>4 DEF Report, Types, ghosts
<1>5. ASSUME NEW c \in Channels, PassClose(c)
      PROVE  Types'
  <2>1. pass[c] \in Msgs /\ job[pass[c]] \in Jobs
    BY <1>5 DEF PassClose, Types
  <2> QED
    BY <1>5, <2>1, Closing DEF PassClose, Types, ghosts, Channels
<1>6. ASSUME NEW c \in Channels, NEW m \in Msgs, PassOpen(c, m)
      PROVE  Types'
  <2>1. nextretry(m) \in Nat
    BY NextRetry DEF Types
  <2>2. [retry |-> nextretry(m), todo |-> TRUE, refs |-> 2,
         dying |-> recent > Birth[m] + Lifetime] \in Jobs
    BY <2>1 DEF Jobs
  <2> QED
    BY <1>6, <2>2 DEF PassOpen, Types, Channels
<1>7. ASSUME NEW c \in Channels, NEW m \in Msgs, PassTrouble(c, m)
      PROVE  Types'
  BY <1>7 DEF PassTrouble, Types, Channels, ghosts, RetryConstants
<1>8. ASSUME NEW c \in Channels, PassNothing(c)
      PROVE  Types'
  BY <1>8 DEF PassNothing, Types, Channels, ghosts, daemon
<1>9. CASE Exit
  <2>1. ASSUME NEW fail
        PROVE  Pqfinish(fail) \in [Msgs -> Nat]
    BY DEF Pqfinish, Types
  <2> QED
    BY <1>9, <2>1 DEF Exit, Types, daemon, Down
<1>10. CASE Start
  <2>1. NoJob \in Jobs
    BY DEF NoJob, Jobs
  <2>2. job' \in [Msgs -> Jobs] /\ pq' \in [Msgs -> Nat \cup {Out}]
        /\ pass' \in [Channels -> Msgs \cup {None}]
    BY <1>10, <2>1 DEF Start, Types
  <2>3. phase' \in 0 .. 4
        /\ UNCHANGED <<now, left, recent, mtime, gone, tries, undisturbed>>
    BY <1>10 DEF Start, Top, ghosts
  <2> QED
    BY <2>2, <2>3 DEF Types
<1> QED
  BY <1>1, <1>2, <1>3, <1>4, <1>5, <1>6, <1>7, <1>8, <1>9, <1>10 DEF Next, Works

\* select() is entered with a timeout that is short enough, and sleeping keeps it so.
LEMMA OnTimeKept ==
    ASSUME RetryConstants, Types, OnTime, Next
    PROVE  OnTime'
<1>1. Types'
  BY TypesKept
<1>2. CASE Select
  <2> SUFFICES ASSUME ~exitasap, JobAvail, NEW c \in Idle, NEW m \in Queued(c)
               PROVE  now + left' <= Max({now, pq[m] + SLEEP_FUZZ})
    BY <1>2 DEF OnTime, Select, JobAvail, Idle, Queued
  <2>1. pq[m] \in Nat /\ now \in Nat /\ SLEEP_FUZZ \in Nat
    BY DEF Queued, Types, RetryConstants
  <2>2. Max({now, pq[m] + SLEEP_FUZZ}) = IF now >= pq[m] + SLEEP_FUZZ THEN now ELSE pq[m] + SLEEP_FUZZ
    BY <2>1, MaxTwo
  <2>3. CASE Idle # Channels
    BY <1>2, <2>1, <2>2, <2>3 DEF Select
  <2>4. CASE Idle = Channels
    <3>1. Wakeup \in SUBSET Nat /\ pq[m] \in Wakeup
      BY <2>1 DEF Wakeup, Types, RetryConstants, Queued
    <3>2. Min(Wakeup) \in Nat /\ Min(Wakeup) <= pq[m]
      BY <3>1, MinNat
    <3> QED
      BY <1>2, <2>1, <2>2, <2>4, <3>2 DEF Select
  <2> QED
    BY <2>3, <2>4
<1>3. CASE Tick /\ phase = Asleep
  <2> SUFFICES ASSUME ~exitasap, JobAvail, NEW c \in Idle, NEW m \in Queued(c)
               PROVE  now' + left' <= Max({now', pq[m] + SLEEP_FUZZ})
    BY <1>3 DEF OnTime, Tick, JobAvail, Idle, Queued, daemon
  <2>1. pq[m] \in Nat /\ now \in Nat /\ SLEEP_FUZZ \in Nat /\ left \in Nat
    BY DEF Queued, Types, RetryConstants
  <2>2. now + left <= Max({now, pq[m] + SLEEP_FUZZ})
    BY <1>3 DEF OnTime
  <2>3. now' = now + 1 /\ left' = left - 1 /\ left > 0
    BY <1>3 DEF Tick, Asleep, Down
  <2> QED
    BY <2>1, <2>2, <2>3, MaxTwo
<1>4. CASE ClockBack /\ phase = Asleep
  <2> SUFFICES ASSUME ~exitasap, JobAvail, NEW c \in Idle, NEW m \in Queued(c)
               PROVE  now' + left <= Max({now', pq[m] + SLEEP_FUZZ})
    BY <1>4 DEF OnTime, ClockBack, JobAvail, Idle, Queued, daemon
  <2>1. pq[m] \in Nat /\ now \in Nat /\ SLEEP_FUZZ \in Nat /\ left \in Nat
    BY DEF Queued, Types, RetryConstants
  <2>2. now + left <= Max({now, pq[m] + SLEEP_FUZZ})
    BY <1>4 DEF OnTime
  <2>3. now' = now - 3
    BY <1>4 DEF ClockBack
  <2> QED
    BY <2>1, <2>2, <2>3, MaxTwo
<1>5. phase' = Asleep => Select \/ (Tick /\ phase = Asleep) \/ (ClockBack /\ phase = Asleep)
  BY DEF Next, Works, Select, Alarm, Wake, Report, PassOpen, PassTrouble, PassClose, PassNothing,
     Term, Exit, Crash, Start, Tick, ClockBack, Channels, Asleep, Top, Down
<1> QED
  BY <1>2, <1>3, <1>4, <1>5 DEF OnTime

\* PassOpen is the one step that makes a job.
LEMMA LaterStep ==
    ASSUME RetryConstants, Types, Next
    PROVE  Later
<1> SUFFICES ASSUME NEW m \in Msgs, job[m] = NoJob, job'[m] # NoJob
             PROVE  job'[m].retry > recent
  BY DEF Later
<1>1. ASSUME NEW o \in Msgs, NEW j \in Jobs, JobClose(o, j), job[o] = NoJob => j.refs = 0
      PROVE  FALSE
  BY <1>1 DEF JobClose, Types
<1>2. ASSUME NEW o \in Msgs, Report(o)
      PROVE  FALSE
  <2>1. PICK b \in BOOLEAN : JobClose(o, [job[o] EXCEPT !.todo = b])
    BY <1>2 DEF Report
  <2>2. [job[o] EXCEPT !.todo = b] \in Jobs /\ job[o] # NoJob
    BY <1>2, Reporting
  <2> QED
    BY <1>1, <2>1, <2>2
<1>3. ASSUME NEW c \in Channels, PassClose(c)
      PROVE  FALSE
  <2>1. pass[c] \in Msgs /\ job[pass[c]] \in Jobs /\ (job[pass[c]] = NoJob => job[pass[c]].refs = 0)
    BY <1>3 DEF PassClose, Types, NoJob
  <2> QED
    BY <1>1, <1>3, <2>1 DEF PassClose
<1>4. ASSUME NEW c \in Channels, NEW o \in Msgs, PassOpen(c, o)
      PROVE  job'[m].retry > recent
  <2>1. o = m /\ job'[m].retry = nextretry(m)
    BY <1>4 DEF PassOpen, Types
  <2> QED
    BY <2>1, NextRetry DEF Types
<1>5. job' = job \/ job'[m] = NoJob \/ (\E o \in Msgs : Report(o))
      \/ \E c \in Channels : PassClose(c) \/ \E o \in Msgs : PassOpen(c, o)
  BY DEF Next, Works, Select, Alarm, Wake, PassTrouble, PassNothing, Term, Exit, Crash, Start,
     Tick, ClockBack, daemon
<1> QED
  BY <1>2, <1>3, <1>4, <1>5

LEMMA KeptSteps ==
    ASSUME RetryConstants, Types, Next, NEW m \in undisturbed', m \in undisturbed, Kept(m)
    PROVE  Kept(m)'
<1> USE DEF Asleep, Top, Down
<1>t. Types'
  BY TypesKept
<1>m. /\ m \in Msgs /\ Age(m, tries[m]) \in Nat /\ Bound(m) \in Nat /\ Birth[m] \in Nat
      /\ tries[m] > 0 => Age(m, tries[m] - 1) \in Nat
  BY BoundNat DEF Types, Bound
<1>0. ASSUME UNCHANGED <<tries[m], pq[m], job[m]>>, gone' = gone
      PROVE  Bound(m)' = Bound(m) /\ (Due(m, Bound(m)) <=> Due(m, Bound(m))')
  BY <1>0 DEF Bound, Age, Due
<1>1. ASSUME UNCHANGED <<tries, pq, job, gone>>, phase # Down, phase' # Down,
             recent' \in {recent, now}, now' >= now
      PROVE  Kept(m)'
  <2>1. Bound(m)' = Bound(m) /\ (Due(m, Bound(m)) <=> Due(m, Bound(m))')
    BY <1>1, <1>0
  <2> QED
    BY <1>1, <1>m, <1>t, <2>1 DEF Kept, Types
<1>2. CASE Select \/ Wake \/ Term \/ \E c \in Channels : PassNothing(c)
  BY <1>1, <1>2 DEF Select, Wake, Term, PassNothing, Types, ghosts, daemon, Channels
<1>3. CASE Tick
  <2>1. CASE phase = Asleep
    BY <1>1, <1>3, <2>1 DEF Tick, Types, ghosts, daemon
  <2>2. CASE phase = Down
    <3>1. UNCHANGED <<tries, mtime, gone, recent, phase>> /\ now' = now + 1
      BY <1>3 DEF Tick, ghosts, daemon
    <3>2. Bound(m)' = Bound(m)
      BY <3>1 DEF Bound, Age
    <3> QED
      BY <1>m, <2>2, <3>1, <3>2 DEF Types, Kept
  <2> QED
    BY <1>3, <2>1, <2>2 DEF Tick
<1>4. CASE Alarm
  <2>1. pq[m] = Out /\ pq'[m] = Out
    BY <1>4, <1>m DEF Alarm, Types
  <2> QED
    BY <1>4, <1>m, <1>t, <2>1 DEF Alarm, Types, Kept, Due, Bound, Age
<1>5. CASE Crash \/ ClockBack
  BY <1>5 DEF Crash, ClockBack
<1>6. ASSUME UNCHANGED <<tries, now>>, phase # Down, phase' # Down,
             recent' \in {recent, now}, Due(m, Bound(m)) => Due(m, Bound(m))'
      PROVE  Kept(m)'
  BY <1>6, <1>m, <1>t DEF Kept, Types, Age
<1>7. ASSUME NEW o \in Msgs, Report(o)
      PROVE  Kept(m)'
  <2>1. PICK b \in BOOLEAN : JobClose(o, [job[o] EXCEPT !.todo = b])
    BY <1>7 DEF Report
  <2>2. /\ [job[o] EXCEPT !.todo = b] \in Jobs /\ job[o] # NoJob
        /\ [job[o] EXCEPT !.todo = b].retry = job[o].retry
    BY <1>7, Reporting
  <2>3. \A n \in Nat : Due(m, n) => Due(m, n)'
    BY <2>1, <2>2, <1>m, Closing
  <2>4. Bound(m)' = Bound(m)
    BY <1>7 DEF Report, ghosts, Bound, Age
  <2> QED
    BY <1>6, <1>7, <1>m, <2>3, <2>4 DEF Report, ghosts
<1>8. ASSUME NEW c \in Channels, PassClose(c)
      PROVE  Kept(m)'
  <2>1. pass[c] \in Msgs /\ job[pass[c]] \in Jobs
    BY <1>8 DEF PassClose, Types
  <2>2. \A n \in Nat : Due(m, n) => Due(m, n)'
    BY <1>8, <2>1, <1>m, Closing DEF PassClose
  <2>3. Bound(m)' = Bound(m)
    BY <1>8 DEF PassClose, ghosts, Bound, Age
  <2> QED
    BY <1>6, <1>8, <1>m, <2>2, <2>3 DEF PassClose, ghosts, Channels
<1>9. ASSUME NEW c \in Channels, NEW o \in Msgs, PassTrouble(c, o)
      PROVE  Kept(m)'
  <2>1. pq'[m] = pq[m] \/ (pq[m] # Out /\ pq[m] <= recent /\ pq'[m] = recent + SLEEP_SYSFAIL)
    BY <1>9, <1>m DEF PassTrouble, Queued, Types
  <2>2. Due(m, Bound(m)) => Due(m, Bound(m))'
    BY <1>9, <1>m, <1>t, <2>1 DEF PassTrouble, ghosts, Due, Types, RetryConstants, Bound, Age, Out
  <2> QED
    BY <1>6, <1>9, <2>2 DEF PassTrouble, ghosts, Channels
<1>10. ASSUME NEW c \in Channels, NEW o \in Msgs, PassOpen(c, o)
      PROVE  Kept(m)'
  <2>1. CASE o # m
    <3>1. UNCHANGED <<pq[m], job[m], tries[m], gone>>
      BY <1>10, <1>m, <2>1 DEF PassOpen, Types
    <3>2. Bound(m)' = Bound(m) /\ (Due(m, Bound(m)) <=> Due(m, Bound(m))')
      BY <1>10, <3>1, <1>0 DEF PassOpen
    <3>3. phase # Down /\ phase' # Down /\ now' = now /\ recent' = recent
      BY <1>10 DEF PassOpen, Channels
    <3> QED
      BY <3>1, <3>2, <3>3 DEF Kept, Age
  <2>2. CASE o = m
    <3> PICK n \in Nat : n = tries[m]
      BY <1>m DEF Types
    <3>1. tries'[m] = n + 1 /\ job'[m].retry = nextretry(m) /\ pq'[m] = Out
          /\ job'[m] # NoJob /\ now' = now /\ recent' = recent /\ phase' # Down
      <4>1. tries'[m] = n + 1 /\ job'[m].retry = nextretry(m) /\ pq'[m] = Out
            /\ job'[m].refs = 2
        BY <1>10, <1>m, <2>2 DEF PassOpen, Types
      <4> QED
        BY <1>10, <4>1 DEF PassOpen, NoJob, Channels
    <3>2. pq[m] # Out /\ pq[m] <= recent /\ phase # Down
      BY <1>10, <2>2 DEF PassOpen, Queued, Channels
    <3>3. pq[m] >= Birth[m] + Age(m, n) /\ recent <= now
      BY <3>2 DEF Kept, Due, Bound
    <3>4. recent >= Birth[m] + Age(m, n) /\ now >= Birth[m] + Age(m, n)
      BY <3>2, <3>3, <1>m, BoundNat DEF Types
    <3>5. nextretry(m) >= Birth[m] + Age(m, n + 1)
      BY <3>4, <1>m, NextRetry DEF Types
    <3>6. Bound(m)' = Birth[m] + Age(m, n + 1)
      BY <3>1 DEF Bound, Age
    <3>7. tries'[m] - 1 = n
      BY <3>1
    <3> QED
      BY <3>1, <3>3, <3>4, <3>5, <3>6, <3>7 DEF Kept, Due, Age
  <2> QED
    BY <2>1, <2>2
<1>11. CASE Exit
  <2>1. PICK fail : /\ mtime' = Pqfinish(fail)
                    /\ undisturbed' = undisturbed \ (fail \cup {o \in Msgs : job[o] # NoJob})
    BY <1>11 DEF Exit
  <2>2. m \notin fail /\ job[m] = NoJob
    BY <2>1, <1>m
  <2>3. pq[m] # Out => mtime'[m] = pq[m]
    BY <2>1, <2>2, <1>m DEF Pqfinish
  <2> QED
    BY <1>11, <1>m, <1>t, <2>2, <2>3 DEF Exit, Kept, Due, daemon, Bound, Age
<1>12. CASE Start
  <2>1. job'[m] = NoJob /\ pq'[m] = IF m \in gone THEN Out ELSE mtime[m]
    BY <1>12, <1>m DEF Start
  <2>2. mtime[m] \in Nat
    BY <1>m DEF Types
  <2> QED
    BY <1>12, <1>m, <1>t, <2>1, <2>2 DEF Start, ghosts, Kept, Due, Out, Bound, Age
<1> QED
  BY <1>2, <1>3, <1>4, <1>5, <1>7, <1>8, <1>9, <1>10, <1>11, <1>12 DEF Next, Works

LEMMA Steps ==
    ASSUME RetryConstants, RetryInv, [Next]_vars
    PROVE  RetryInv' /\ (Later \/ UNCHANGED vars)
<1>1. CASE UNCHANGED vars
  BY <1>1 DEF vars, daemon, ghosts, RetryInv, Types, OnTime, Kept, Due, JobAvail, Idle, Queued,
     Bound, Age
<1>2. CASE Next
  <2>1. undisturbed' \in SUBSET undisturbed
    BY <1>2 DEF Next, Works, Select, Alarm, Wake, Report, PassOpen, PassTrouble, PassClose,
       PassNothing, Term, Exit, Crash, Start, Tick, ClockBack, ghosts
  <2> QED
    BY <1>2, <2>1, TypesKept, OnTimeKept, KeptSteps, LaterStep DEF RetryInv
<1> QED
  BY <1>1, <1>2

LEMMA Right ==
    ASSUME RetryConstants, RetryInv
    PROVE  Spaced /\ OnTime
<1> SUFFICES ASSUME NEW m \in undisturbed, tries[m] > 0
             PROVE  now >= Birth[m] + (tries[m] - 1) * Chanskip[Chan[m]]
                                      * ((tries[m] - 1) * Chanskip[Chan[m]])
  BY DEF Spaced, RetryInv
<1> QED
  BY DEF RetryInv, Kept, Age

(* For any messages, chanskips, life time and sleeping times: no message   *)
(* whose times nobody disturbed is tried before its time, and select()     *)
(* does not sleep past one that is due.                                    *)
THEOREM RetryCorrect == RetryConstants => (Spec => [](Spaced /\ OnTime))
<1> SUFFICES ASSUME RetryConstants
             PROVE  Spec => [](Spaced /\ OnTime)
  OBVIOUS
<1>1. Init => RetryInv
  BY Starts
<1>2. RetryInv /\ [Next]_vars => RetryInv'
  BY Steps
<1>3. RetryInv => Spaced /\ OnTime
  BY Right
<1> QED
  BY <1>1, <1>2, <1>3, PTL DEF Spec

(* The next try of a message is later than the one that is made.           *)
THEOREM RetryLater == RetryConstants => (Spec => [][Later]_vars)
<1> SUFFICES ASSUME RetryConstants
             PROVE  Spec => [][Later]_vars
  OBVIOUS
<1>1. Init => RetryInv
  BY Starts
<1>2. RetryInv /\ [Next]_vars => RetryInv' /\ [Later]_vars
  BY Steps
<1> QED
  BY <1>1, <1>2, PTL DEF Spec
=============================================================================
