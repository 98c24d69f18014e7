----------------------------- MODULE SmtpProofs -----------------------------
(***************************************************************************)
(* Proofs about SMTP, for the values that MCSmtp gives or leaves to the    *)
(* constants: the session of qmail-smtpd (Server is Smtpd), the table of   *)
(* timeouts that qmail-remotes share (Timeouts is Tcpto), and what qmail-  *)
(* remote reports; the argument for the last is in Remote.                 *)
(***************************************************************************)
EXTENDS MCSmtp, WellFoundedInduction, TLAPS

-----------------------------------------------------------------------------
(* A session.                                                              *)

Args == Senders \cup Recips \cup {Server!NoArg}
Cmds == [verb : Verbs \cup {"mail", "rcpt", "none"}, arg : Args]
Entries == [cmd : Cmds, code : Nat]
Sessions == [pc : {"commands", "fun", "blast", "close", "exit"}, cmd : Cmds, seenmail : BOOLEAN,
             flagbarf : BOOLEAN, mailfrom : Args, rcptto : Seq(Args)]
Envelopes == [from : Args, to : Seq(Args)]

\* What an accepted MAIL and what came after it have left.
Since ==
    /\ smtpdLog # <<>> /\ smtpdSess.mailfrom = smtpdLog[1].cmd.arg
    /\ smtpdSess.flagbarf <=> smtpdSess.mailfrom \in Badmailfrom
    /\ smtpdSess.rcptto # <<>> => ~smtpdSess.flagbarf
    /\ Relayclient \/ \A j \in 1 .. Len(smtpdSess.rcptto) : smtpdSess.rcptto[j] \in Rcpthosts
    /\ \E at \in [1 .. Len(smtpdSess.rcptto) -> 1 .. Len(smtpdLog)] :
         Server!Lists(at, smtpdSess.rcptto)
    /\ \A j \in 1 .. Len(smtpdLog) : smtpdLog[j].cmd.verb \notin {"helo", "rset"}

InText == smtpdSess.pc \in {"blast", "close"}
DataAt(j) == smtpdLog[j].cmd.verb = "data" /\ smtpdLog[j].code = 354

SmtpdInv ==
    /\ smtpdSess \in Sessions /\ smtpdLog \in Seq(Entries) /\ smtpdQueued \in Seq(Envelopes)
         /\ smtpdC2s \in Seq(Cmds)
    /\ smtpdSess.pc = "close" => smtpdSess.cmd.verb = "dot"
    /\ smtpdSess.seenmail => ~InText /\ Since /\ \A j \in 1 .. Len(smtpdLog) : ~DataAt(j)
    /\ InText => Since /\ smtpdSess.rcptto # <<>> /\ \A j \in 1 .. Len(smtpdLog) : DataAt(j)
           => j = Len(smtpdLog)

LEMMA SmtpdStarts ==
    ASSUME Server!Init
    PROVE  SmtpdInv
<1>1. smtpdSess \in Sessions
  BY DEF Server!Init, Server!ServerInit, Sessions, Cmds, Args, Server!Command
<1> QED
  BY <1>1 DEF Server!Init, Server!ServerInit, SmtpdInv, InText

\* Nothing but the reply to a RCPT touches the recipients that are listed.
LEMMA SinceKept ==
    ASSUME smtpdLog \in Seq(Entries), NEW e \in Entries, ~Server!Accepted(e),
           smtpdSess \in Sessions,
           e.cmd.verb \notin {"helo", "rset"}, Since, smtpdLog' = Append(smtpdLog, e),
           smtpdSess'.mailfrom = smtpdSess.mailfrom, smtpdSess'.flagbarf = smtpdSess.flagbarf,
           smtpdSess'.rcptto = smtpdSess.rcptto
    PROVE  Since'
<1> PICK to \in Seq(Args) : to = smtpdSess.rcptto
  BY DEF Sessions
<1> PICK n \in Nat : n = Len(smtpdLog)
  OBVIOUS
<1>1. /\ Len(smtpdLog') = n + 1 /\ smtpdLog'[n + 1] = e /\ \A j \in 1 .. n :
           smtpdLog'[j] = smtpdLog[j]
      /\ DOMAIN smtpdLog' = 1 .. n + 1 /\ DOMAIN smtpdLog = 1 .. n
  OBVIOUS
<1>2. n # 0
  BY DEF Since
<1>3. PICK at \in [1 .. Len(to) -> 1 .. n] : Server!Lists(at, to)
  BY DEF Since
<1>4. at \in [1 .. Len(to) -> 1 .. n + 1] /\ Server!Lists(at, to)'
  <2>1. at \in [1 .. Len(to) -> 1 .. n + 1]
    OBVIOUS
  <2>2. \A j \in DOMAIN at : to[j] = smtpdLog'[at[j]].cmd.arg
    BY <1>1, <1>3 DEF Server!Lists
  <2>3. ASSUME NEW k \in 1 .. n + 1
        PROVE  Server!Accepted(smtpdLog'[k]) <=> \E j \in DOMAIN at : at[j] = k
    <3>1. CASE k = n + 1
      <4>1. \A j \in DOMAIN at : at[j] \in 1 .. n
        OBVIOUS
      <4>2. ~Server!Accepted(smtpdLog'[k])
        BY <1>1, <3>1
      <4> QED
        BY <3>1, <4>1, <4>2
    <3>2. CASE k \in 1 .. n
      BY <1>1, <1>3, <3>2 DEF Server!Lists
    <3> QED
      BY <3>1, <3>2
  <2>4. \A j, k \in DOMAIN at : j < k => at[j] < at[k]
    BY <1>3 DEF Server!Lists
  <2> QED
    BY <1>1, <2>1, <2>2, <2>3, <2>4 DEF Server!Lists
<1>5. (\E t \in [1 .. Len(smtpdSess.rcptto) -> 1 .. Len(smtpdLog)] :
        Server!Lists(t, smtpdSess.rcptto))'
  <2>1. smtpdSess'.rcptto = to
    OBVIOUS
  <2>2. \A t : t = smtpdSess'.rcptto
            => (Server!Lists(at, to)' <=> Server!Lists(at, smtpdSess.rcptto)')
    BY <2>1 DEF Server!Lists
  <2> QED
    BY <1>1, <1>4, <2>1, <2>2
<1>6. \A j \in 1 .. Len(smtpdLog') : smtpdLog'[j].cmd.verb \notin {"helo", "rset"}
  BY <1>1 DEF Since
<1>7. smtpdLog' # <<>> /\ smtpdSess'.mailfrom = smtpdLog'[1].cmd.arg
  BY <1>1, <1>2 DEF Since
<1> QED
  BY <1>5, <1>6, <1>7 DEF Since

\* The reply to a RCPT that was accepted.
LEMMA SinceListed ==
    ASSUME smtpdLog \in Seq(Entries), NEW e \in Entries, Server!Accepted(e), smtpdSess \in Sessions,
           Since, smtpdLog' = Append(smtpdLog, e), ~smtpdSess.flagbarf, Relayclient
           \/ e.cmd.arg \in Rcpthosts,
           smtpdSess'.mailfrom = smtpdSess.mailfrom, smtpdSess'.flagbarf = smtpdSess.flagbarf,
           smtpdSess'.rcptto = Append(smtpdSess.rcptto, e.cmd.arg)
    PROVE  Since'
<1> PICK to \in Seq(Args) : to = smtpdSess.rcptto
  BY DEF Sessions
<1> PICK n \in Nat : n = Len(smtpdLog)
  OBVIOUS
<1> PICK m \in Nat : m = Len(to)
  OBVIOUS
<1>0. e.cmd \in Cmds
  BY DEF Entries
<1>a. e.cmd.arg \in Args
  BY <1>0 DEF Cmds
<1>b. Append(to, e.cmd.arg) \in Seq(Args)
  BY <1>a
<1> PICK more \in Seq(Args) : more = Append(to, e.cmd.arg)
  BY <1>b, Zenon
<1>1. /\ Len(smtpdLog') = n + 1 /\ smtpdLog'[n + 1] = e /\ \A j \in 1 .. n :
           smtpdLog'[j] = smtpdLog[j]
      /\ DOMAIN smtpdLog' = 1 .. n + 1 /\ DOMAIN smtpdLog = 1 .. n
  OBVIOUS
<1>2. /\ Len(more) = m + 1 /\ more[m + 1] = e.cmd.arg /\ \A j \in 1 .. m : more[j] = to[j]
  OBVIOUS
<1>3. n # 0
  BY DEF Since
<1>4. PICK at \in [1 .. m -> 1 .. n] : Server!Lists(at, to)
  BY DEF Since
<1> DEFINE new == [j \in 1 .. m + 1 |-> IF j = m + 1 THEN n + 1 ELSE at[j]]
<1>5. new \in [1 .. m + 1 -> 1 .. n + 1] /\ new[m + 1] = n + 1 /\ \A j \in 1 .. m : new[j] = at[j]
  OBVIOUS
<1> HIDE DEF new
<1>6. Server!Lists(new, more)'
  <2>1. DOMAIN new = 1 .. m + 1 /\ DOMAIN at = 1 .. m
    BY <1>5
  <2>z. /\ \A j \in 1 .. m + 1 : j = m + 1 \/ j \in 1 .. m
        /\ \A j \in 1 .. n + 1 : j = n + 1 \/ j \in 1 .. n
    OBVIOUS
  <2>2. ASSUME NEW j \in 1 .. m + 1
        PROVE  more[j] = smtpdLog'[new[j]].cmd.arg
    <3>1. CASE j = m + 1
      BY <1>1, <1>2, <1>5, <3>1
    <3>2. CASE j \in 1 .. m
      <4>1. to[j] = smtpdLog[at[j]].cmd.arg /\ at[j] \in 1 .. n
        BY <1>4, <2>1, <3>2 DEF Server!Lists
      <4> QED
        BY <1>1, <1>2, <1>5, <3>2, <4>1
    <3> QED
      BY <2>z, <3>1, <3>2
  <2>3. ASSUME NEW k \in 1 .. n + 1
        PROVE  Server!Accepted(smtpdLog'[k]) <=> \E j \in 1 .. m + 1 : new[j] = k
    <3>1. CASE k = n + 1
      <4>1. Server!Accepted(smtpdLog'[k]) /\ m + 1 \in 1 .. m + 1 /\ new[m + 1] = k
        BY <1>1, <1>5, <3>1
      <4> QED
        BY <4>1
    <3>2. CASE k \in 1 .. n
      <4>1. Server!Accepted(smtpdLog'[k]) <=> \E j \in 1 .. m : at[j] = k
        BY <1>1, <1>4, <2>1, <3>2 DEF Server!Lists
      <4>2. ASSUME NEW j \in 1 .. m, at[j] = k
            PROVE  \E i \in 1 .. m + 1 : new[i] = k
        BY <1>5, <4>2
      <4>3. ASSUME NEW j \in 1 .. m + 1, new[j] = k
            PROVE  \E i \in 1 .. m : at[i] = k
        BY <1>5, <3>2, <4>3
      <4> QED
        BY <4>1, <4>2, <4>3
    <3> QED
      BY <2>z, <3>1, <3>2
  <2>4. ASSUME NEW j \in 1 .. m + 1, NEW k \in 1 .. m + 1, j < k
        PROVE  new[j] < new[k]
    <3>0. j \in 1 .. m
      BY <2>4
    <3>1. at[j] \in 1 .. n
      BY <3>0
    <3>2. CASE k = m + 1
      BY <1>5, <3>0, <3>1, <3>2
    <3>3. CASE k \in 1 .. m
      <4>1. at[j] < at[k]
        BY <1>4, <2>1, <2>4, <3>0, <3>3 DEF Server!Lists
      <4> QED
        BY <1>5, <3>0, <3>3, <4>1
    <3> QED
      BY <2>z, <3>2, <3>3
  <2> QED
    BY <1>1, <2>1, <2>2, <2>3, <2>4 DEF Server!Lists
<1>7. (\E t \in [1 .. Len(smtpdSess.rcptto) -> 1 .. Len(smtpdLog)] :
        Server!Lists(t, smtpdSess.rcptto))'
  <2>1. smtpdSess'.rcptto = more
    OBVIOUS
  <2>2. Server!Lists(new, more)' <=> Server!Lists(new, smtpdSess.rcptto)'
    BY <2>1 DEF Server!Lists
  <2> QED
    BY <1>1, <1>2, <1>5, <1>6, <2>1, <2>2
<1>8. \A j \in 1 .. Len(smtpdLog') : smtpdLog'[j].cmd.verb \notin {"helo", "rset"}
  BY <1>1 DEF Since, Server!Accepted
<1>9. smtpdLog' # <<>> /\ smtpdSess'.mailfrom = smtpdLog'[1].cmd.arg
  BY <1>1, <1>3 DEF Since
<1>10. Relayclient \/ \A j \in 1 .. Len(smtpdSess'.rcptto) : smtpdSess'.rcptto[j] \in Rcpthosts
  BY <1>2 DEF Since
<1> QED
  BY <1>7, <1>8, <1>9, <1>10 DEF Since

\* An accepted MAIL: no recipients yet.
LEMMA SinceStarts ==
    ASSUME NEW e \in Entries, smtpdLog' = <<e>>, e.cmd.verb = "mail",
           smtpdSess'.mailfrom = e.cmd.arg,
           smtpdSess'.flagbarf <=> e.cmd.arg \in Badmailfrom, smtpdSess'.rcptto = <<>>
    PROVE  Since'
<1>1. <<>> \in [1 .. 0 -> 1 .. 1] /\ DOMAIN <<>> = {} /\ 1 .. 0 = {}
  OBVIOUS
<1>2. smtpdLog' # <<>> /\ Len(smtpdLog') = 1 /\ smtpdLog'[1] = e /\ DOMAIN smtpdLog' = {1}
        /\ Len(smtpdSess'.rcptto) = 0
  OBVIOUS
<1>3. Server!Lists(<<>>, smtpdSess.rcptto)'
  BY <1>1, <1>2 DEF Server!Lists, Server!Accepted
<1>4. (\E t \in [1 .. Len(smtpdSess.rcptto) -> 1 .. Len(smtpdLog)] :
        Server!Lists(t, smtpdSess.rcptto))'
  BY <1>1, <1>2, <1>3
<1>5. (\A k \in 1 .. Len(smtpdSess.rcptto) : smtpdSess.rcptto[k] \in Rcpthosts)'
  BY <1>1, <1>2
<1>6. smtpdSess'.flagbarf <=> smtpdSess'.mailfrom \in Badmailfrom
  OBVIOUS
<1>7. \A k \in 1 .. Len(smtpdLog') : smtpdLog'[k].cmd.verb \notin {"helo", "rset"}
  BY <1>2
<1>8. smtpdLog' # <<>> /\ smtpdSess'.mailfrom = smtpdLog'[1].cmd.arg
  BY <1>2
<1> QED
  BY <1>4, <1>5, <1>6, <1>7, <1>8 DEF Since

\* Nothing that matters changes.
LEMMA SinceSame ==
    ASSUME Since, smtpdLog' = smtpdLog, smtpdSess'.mailfrom = smtpdSess.mailfrom,
           smtpdSess'.flagbarf = smtpdSess.flagbarf,
           smtpdSess'.rcptto = smtpdSess.rcptto
    PROVE  Since'
<1>1. (\E t \in [1 .. Len(smtpdSess.rcptto) -> 1 .. Len(smtpdLog)] :
        Server!Lists(t, smtpdSess.rcptto))'
  <2>1. PICK t \in [1 .. Len(smtpdSess.rcptto) -> 1 .. Len(smtpdLog)] :
             Server!Lists(t, smtpdSess.rcptto)
    BY DEF Since
  <2>2. Server!Lists(t, smtpdSess.rcptto)'
    BY <2>1 DEF Server!Lists
  <2> QED
    BY <2>2
<1> QED
  BY <1>1 DEF Since

\* What EXCEPT makes of a session.
LEMMA Moved ==
    ASSUME NEW s \in Sessions, NEW p \in {"commands", "fun", "blast", "close", "exit"},
           NEW t, t = [s EXCEPT !.pc = p]
    PROVE  /\ t \in Sessions /\ t.pc = p /\ t.cmd = s.cmd /\ t.seenmail = s.seenmail
           /\ t.flagbarf = s.flagbarf /\ t.mailfrom = s.mailfrom /\ t.rcptto = s.rcptto
BY DEF Sessions

LEMMA Renewed ==
    ASSUME NEW s \in Sessions, NEW a \in Args, NEW t, t = Server!NewMail(s, a)
    PROVE  /\ t \in Sessions /\ t.mailfrom = a /\ t.rcptto = <<>>
           /\ (t.flagbarf <=> a \in Badmailfrom)
<1> DEFINE b == a \in Badmailfrom
<1>1. <<>> \in Seq(Args)
  OBVIOUS
<1>2. PICK e \in Seq(Args) : e = <<>>
  BY <1>1, Zenon
<1>3. t = [s EXCEPT !.seenmail = TRUE, !.mailfrom = a, !.flagbarf = b, !.rcptto = e]
  BY <1>2, Zenon DEF Server!NewMail
<1>b. b \in BOOLEAN
  OBVIOUS
<1>4. t \in Sessions /\ t.mailfrom = a /\ t.flagbarf = b /\ t.rcptto = e
  <2> HIDE DEF b
  <2> QED
    BY <1>3, <1>b DEF Sessions
<1> QED
  BY <1>2, <1>4

LEMMA Forgotten ==
    ASSUME NEW s \in Sessions, NEW t, t = [s EXCEPT !.seenmail = FALSE]
    PROVE  /\ t \in Sessions /\ t.pc = s.pc /\ t.cmd = s.cmd /\ ~t.seenmail
           /\ t.flagbarf = s.flagbarf /\ t.mailfrom = s.mailfrom /\ t.rcptto = s.rcptto
BY DEF Sessions

\* What Logged() does to a log.
LEMMA LoggedStep ==
    ASSUME smtpdLog \in Seq(Entries), smtpdSess \in Sessions, NEW code \in Nat, Server!Logged(code)
    PROVE  \E e \in Entries :
             /\ e.cmd = smtpdSess.cmd /\ e.code = code
             /\ smtpdLog' \in Seq(Entries)
             /\ smtpdLog' = IF code >= 400 /\ smtpdSess.pc # "close" THEN smtpdLog
                       ELSE IF smtpdSess.cmd.verb = "mail" THEN <<e>> ELSE Append(smtpdLog, e)
<1> DEFINE e == [cmd |-> smtpdSess.cmd, code |-> code]
<1>1. e \in Entries /\ e.cmd = smtpdSess.cmd /\ e.code = code
  BY DEF Entries, Sessions
<1>2. smtpdLog' = IF code >= 400 /\ smtpdSess.pc # "close" THEN smtpdLog
             ELSE IF smtpdSess.cmd.verb = "mail" THEN <<e>> ELSE Append(smtpdLog, e)
  BY DEF Server!Logged
<1> HIDE DEF e
<1>3. smtpdLog' \in Seq(Entries)
  BY <1>1, <1>2
<1> QED
  BY <1>1, <1>2, <1>3

\* A reply to a command after which the envelope is as it was, or forgotten.
LEMMA Quietly ==
    ASSUME SmtpdInv, NEW code \in Nat, Server!Logged(code), smtpdSess.pc # "close",
           smtpdSess' \in Sessions,
           smtpdSess'.mailfrom = smtpdSess.mailfrom, smtpdSess'.flagbarf = smtpdSess.flagbarf,
           smtpdSess'.rcptto = smtpdSess.rcptto, smtpdSess'.seenmail => smtpdSess.seenmail,
           smtpdSess'.pc \in {"commands", "exit"}, smtpdQueued' = smtpdQueued, smtpdC2s' = smtpdC2s,
           \/ code >= 400
           \/ ~smtpdSess'.seenmail
           \/ smtpdSess.cmd.verb \notin {"mail", "rcpt", "helo", "rset", "data"}
    PROVE  SmtpdInv'
<1>1. PICK e \in Entries :
        /\ e.cmd = smtpdSess.cmd /\ e.code = code
        /\ smtpdLog' \in Seq(Entries)
        /\ smtpdLog' = IF code >= 400 /\ smtpdSess.pc # "close" THEN smtpdLog
                  ELSE IF smtpdSess.cmd.verb = "mail" THEN <<e>> ELSE Append(smtpdLog, e)
  BY LoggedStep DEF SmtpdInv
<1>2. ASSUME smtpdSess'.seenmail
      PROVE  Since' /\ \A k \in 1 .. Len(smtpdLog') : ~DataAt(k)'
  <2>1. smtpdSess.seenmail /\ Since /\ \A k \in 1 .. Len(smtpdLog) : ~DataAt(k)
    BY <1>2 DEF SmtpdInv
  <2>2. CASE code >= 400
    <3>1. smtpdLog' = smtpdLog
      BY <1>1, <2>2
    <3> QED
      BY <2>1, <3>1, SinceSame DEF DataAt
  <2>3. CASE ~(code >= 400)
    <3>1. smtpdSess.cmd.verb \notin {"mail", "rcpt", "helo", "rset", "data"}
            /\ smtpdLog' = Append(smtpdLog, e)
      BY <1>1, <1>2, <2>3
    <3>2. Since'
      BY <1>1, <2>1, <3>1, SinceKept DEF Server!Accepted, SmtpdInv
    <3>3. \A k \in 1 .. Len(smtpdLog') : ~DataAt(k)'
      BY <1>1, <2>1, <3>1 DEF DataAt, SmtpdInv
    <3> QED
      BY <3>2, <3>3
  <2> QED
    BY <2>2, <2>3
<1>3. (InText)' = FALSE /\ smtpdSess'.pc # "close"
  BY DEF InText
<1>4. smtpdQueued' \in Seq(Envelopes) /\ smtpdC2s' \in Seq(Cmds) /\ smtpdLog' \in Seq(Entries)
  BY <1>1 DEF SmtpdInv
<1>5. smtpdSess'.seenmail => ~InText' /\ Since' /\ \A k \in 1 .. Len(smtpdLog') : ~DataAt(k)'
  BY <1>2, <1>3
<1> QED
  BY <1>3, <1>4, <1>5 DEF SmtpdInv

\* A step that leaves the log and the envelope alone.
LEMMA Silently ==
    ASSUME SmtpdInv, smtpdLog' = smtpdLog, smtpdSess' \in Sessions,
           smtpdSess'.mailfrom = smtpdSess.mailfrom, smtpdSess'.flagbarf = smtpdSess.flagbarf,
           smtpdSess'.rcptto = smtpdSess.rcptto, smtpdSess'.seenmail <=> smtpdSess.seenmail,
           smtpdSess'.pc = "close" => smtpdSess'.cmd.verb = "dot",
           InText' => InText, smtpdSess.seenmail => ~InText',
           smtpdQueued' = smtpdQueued, smtpdC2s' \in Seq(Cmds)
    PROVE  SmtpdInv'
<1>1. Since => Since'
  BY SinceSame
<1>2. \A k \in 1 .. Len(smtpdLog) : DataAt(k)' <=> DataAt(k)
  BY DEF DataAt
<1>3. smtpdSess'.seenmail => ~InText' /\ Since' /\ \A k \in 1 .. Len(smtpdLog') : ~DataAt(k)'
  BY <1>1, <1>2 DEF SmtpdInv
<1>4. InText' => Since' /\ smtpdSess'.rcptto # <<>> /\ \A k \in 1 .. Len(smtpdLog') : DataAt(k)'
          => k = Len(smtpdLog')
  BY <1>1, <1>2 DEF SmtpdInv
<1>5. smtpdQueued' \in Seq(Envelopes) /\ smtpdLog' \in Seq(Entries)
  BY DEF SmtpdInv
<1> QED
  BY <1>3, <1>4, <1>5 DEF SmtpdInv

LEMMA MailStep ==
    ASSUME SmtpdInv, Server!SmtpMail
    PROVE  SmtpdInv'
<1>1. CASE smtpdSess.cmd.arg = Server!NoArg
  <2>1. /\ Server!Logged(555) /\ smtpdSess' = [smtpdSess EXCEPT !.pc = "commands"]
             /\ smtpdSess \in Sessions
        /\ smtpdSess.pc = "fun" /\ smtpdC2s' = smtpdC2s /\ smtpdQueued' = smtpdQueued
    BY <1>1 DEF Server!SmtpMail, Server!Answer, Server!Reply, Server!Fun, SmtpdInv
  <2>2. /\ smtpdSess' \in Sessions /\ smtpdSess'.pc = "commands"
             /\ (smtpdSess'.seenmail => smtpdSess.seenmail)
        /\ smtpdSess'.flagbarf = smtpdSess.flagbarf /\ smtpdSess'.mailfrom = smtpdSess.mailfrom
        /\ smtpdSess'.rcptto = smtpdSess.rcptto
    BY <2>1, Moved
  <2> QED
    BY <2>1, <2>2, Quietly
<1>2. CASE smtpdSess.cmd.arg # Server!NoArg
  <2>1. /\ Server!Logged(250) /\ smtpdSess.cmd.verb = "mail" /\ smtpdSess.pc = "fun"
        /\ smtpdSess' = [Server!NewMail(smtpdSess, smtpdSess.cmd.arg) EXCEPT !.pc = "commands"]
        /\ smtpdC2s' = smtpdC2s /\ smtpdQueued' = smtpdQueued
    BY <1>2 DEF Server!SmtpMail, Server!Answer, Server!Reply, Server!Fun
  <2>2. /\ smtpdSess' \in Sessions /\ smtpdSess'.mailfrom = smtpdSess.cmd.arg
             /\ smtpdSess'.rcptto = <<>>
        /\ (smtpdSess'.flagbarf <=> smtpdSess.cmd.arg \in Badmailfrom) /\ smtpdSess'.pc = "commands"
    <3> DEFINE n == Server!NewMail(smtpdSess, smtpdSess.cmd.arg)
    <3>1. /\ n \in Sessions /\ n.mailfrom = smtpdSess.cmd.arg /\ n.rcptto = <<>>
          /\ (n.flagbarf <=> smtpdSess.cmd.arg \in Badmailfrom)
      <4>1. smtpdSess.cmd.arg \in Args /\ smtpdSess \in Sessions
        BY DEF SmtpdInv, Sessions, Cmds
      <4> QED
        BY <4>1, Renewed
    <3>2. smtpdSess' = [n EXCEPT !.pc = "commands"]
      BY <2>1
    <3> HIDE DEF n
    <3> QED
      BY <3>1, <3>2, Moved
  <2>3. PICK e \in Entries : e.cmd = smtpdSess.cmd /\ e.code = 250 /\ smtpdLog' \in Seq(Entries)
             /\ smtpdLog' = <<e>>
    BY <2>1, LoggedStep DEF SmtpdInv
  <2>4. Since'
    BY <2>1, <2>2, <2>3, SinceStarts
  <2>5. \A k \in 1 .. Len(smtpdLog') : ~DataAt(k)'
    BY <2>1, <2>3 DEF DataAt
  <2> QED
    BY <2>1, <2>2, <2>3, <2>4, <2>5 DEF SmtpdInv, InText
<1> QED
  BY <1>1, <1>2

LEMMA RcptStep ==
    ASSUME SmtpdInv, Server!SmtpRcpt
    PROVE  SmtpdInv'
<1> DEFINE a == smtpdSess.cmd.arg
<1>1. smtpdSess.pc = "fun" /\ smtpdSess.cmd.verb = "rcpt" /\ smtpdC2s' = smtpdC2s
        /\ smtpdQueued' = smtpdQueued
  BY DEF Server!SmtpRcpt, Server!Fun, Server!Answer
<1>2. CASE ~smtpdSess.seenmail \/ a = Server!NoArg \/ smtpdSess.flagbarf
           \/ ~(Relayclient \/ a \in Rcpthosts)
  <2>1. \E code \in {503, 555, 553} : Server!Answer(code, smtpdSess)
    BY <1>2 DEF Server!SmtpRcpt
  <2>2. PICK code \in {503, 555, 553} : Server!Answer(code, smtpdSess)
    BY <2>1, Zenon
  <2>3. Server!Logged(code) /\ smtpdSess' = [smtpdSess EXCEPT !.pc = "commands"]
          /\ smtpdSess \in Sessions
    BY <2>2 DEF Server!Answer, Server!Reply, SmtpdInv
  <2>4. /\ smtpdSess' \in Sessions /\ smtpdSess'.pc = "commands"
             /\ (smtpdSess'.seenmail => smtpdSess.seenmail)
        /\ smtpdSess'.flagbarf = smtpdSess.flagbarf /\ smtpdSess'.mailfrom = smtpdSess.mailfrom
        /\ smtpdSess'.rcptto = smtpdSess.rcptto
    BY <2>3, Moved
  <2>5. code \in Nat /\ code >= 400 /\ smtpdSess.pc # "close"
    BY <1>1
  <2> QED
    BY <1>1, <2>3, <2>4, <2>5, Quietly
<1>3. CASE ~(~smtpdSess.seenmail \/ a = Server!NoArg \/ smtpdSess.flagbarf
           \/ ~(Relayclient \/ a \in Rcpthosts))
  <2>1. Server!Logged(250)
          /\ smtpdSess' = [[smtpdSess EXCEPT !.rcptto = Append(@, a)] EXCEPT !.pc = "commands"]
    BY <1>3 DEF Server!SmtpRcpt, Server!Answer, Server!Reply
  <2>2. smtpdSess.rcptto \in Seq(Args) /\ a \in Args
    BY DEF SmtpdInv, Sessions, Cmds
  <2>3. Append(smtpdSess.rcptto, a) \in Seq(Args)
    BY <2>2
  <2>4. /\ smtpdSess' \in Sessions /\ smtpdSess'.mailfrom = smtpdSess.mailfrom
        /\ smtpdSess'.flagbarf = smtpdSess.flagbarf /\ smtpdSess'.pc = "commands"
        /\ smtpdSess'.rcptto = Append(smtpdSess.rcptto, smtpdSess.cmd.arg)
    <3> DEFINE n == [smtpdSess EXCEPT !.rcptto = Append(@, a)]
    <3>1. /\ n \in Sessions /\ n.mailfrom = smtpdSess.mailfrom /\ n.flagbarf = smtpdSess.flagbarf
          /\ n.rcptto = Append(smtpdSess.rcptto, smtpdSess.cmd.arg)
      BY <2>3 DEF SmtpdInv, Sessions
    <3>2. smtpdSess' = [n EXCEPT !.pc = "commands"]
      BY <2>1
    <3> HIDE DEF n
    <3> QED
      BY <3>1, <3>2, Moved
  <2>5. PICK e \in Entries : /\ e.cmd = smtpdSess.cmd /\ e.code = 250 /\ smtpdLog' \in Seq(Entries)
                             /\ smtpdLog' = Append(smtpdLog, e)
    BY <1>1, <2>1, LoggedStep DEF SmtpdInv
  <2>6. Since /\ (\A k \in 1 .. Len(smtpdLog) : ~DataAt(k)) /\ ~smtpdSess.flagbarf
        /\ (Relayclient \/ e.cmd.arg \in Rcpthosts) /\ Server!Accepted(e)
    BY <1>1, <1>3, <2>5 DEF SmtpdInv, Server!Accepted
  <2>7. Since'
    BY <2>4, <2>5, <2>6, SinceListed DEF SmtpdInv
  <2>8. \A k \in 1 .. Len(smtpdLog') : ~DataAt(k)'
    BY <1>1, <2>5, <2>6 DEF DataAt, SmtpdInv
  <2> QED
    <3>1. smtpdC2s' \in Seq(Cmds) /\ smtpdQueued' \in Seq(Envelopes) /\ ~(InText)'
            /\ smtpdSess'.pc # "close"
      BY <1>1, <2>4 DEF SmtpdInv, InText
    <3> QED
      BY <2>4, <2>5, <2>7, <2>8, <3>1 DEF SmtpdInv
<1> QED
  BY <1>2, <1>3

LEMMA DataStep ==
    ASSUME SmtpdInv, Server!SmtpData
    PROVE  SmtpdInv'
<1>1. smtpdSess.pc = "fun" /\ smtpdSess.cmd.verb = "data" /\ smtpdC2s' = smtpdC2s
        /\ smtpdQueued' = smtpdQueued
  BY DEF Server!SmtpData, Server!Fun, Server!Answer
<1>0. LET n == Server!DataStarts(smtpdSess) IN
      /\ n \in Sessions /\ ~n.seenmail
      /\ n.flagbarf = smtpdSess.flagbarf /\ n.mailfrom = smtpdSess.mailfrom
           /\ n.rcptto = smtpdSess.rcptto
  BY Forgotten DEF SmtpdInv, Server!DataStarts
<1>2. CASE Server!Answer(503, smtpdSess)
  <2>1. Server!Logged(503) /\ smtpdSess' = [smtpdSess EXCEPT !.pc = "commands"]
          /\ smtpdSess \in Sessions
    BY <1>2 DEF Server!Answer, Server!Reply, SmtpdInv
  <2>2. /\ smtpdSess' \in Sessions /\ smtpdSess'.pc = "commands"
             /\ (smtpdSess'.seenmail => smtpdSess.seenmail)
        /\ smtpdSess'.flagbarf = smtpdSess.flagbarf /\ smtpdSess'.mailfrom = smtpdSess.mailfrom
        /\ smtpdSess'.rcptto = smtpdSess.rcptto
    BY <2>1, Moved
  <2> QED
    BY <1>1, <2>1, <2>2, Quietly
<1>3. CASE Server!Answer(451, Server!DataStarts(smtpdSess))
  <2>1. Server!Logged(451) /\ smtpdSess' = [Server!DataStarts(smtpdSess) EXCEPT !.pc = "commands"]
    BY <1>3 DEF Server!Answer, Server!Reply
  <2>2. /\ smtpdSess' \in Sessions /\ smtpdSess'.pc = "commands" /\ ~smtpdSess'.seenmail
        /\ smtpdSess'.flagbarf = smtpdSess.flagbarf /\ smtpdSess'.mailfrom = smtpdSess.mailfrom
        /\ smtpdSess'.rcptto = smtpdSess.rcptto
    BY <1>0, <2>1, Moved
  <2> QED
    BY <1>1, <2>1, <2>2, Quietly
<1>4. CASE smtpdSess.seenmail /\ smtpdSess.rcptto # <<>> /\ Server!Reply(354)
           /\ smtpdSess' = [Server!DataStarts(smtpdSess) EXCEPT !.pc = "blast"]
  <2>1. /\ smtpdSess' \in Sessions /\ smtpdSess'.mailfrom = smtpdSess.mailfrom
        /\ smtpdSess'.flagbarf = smtpdSess.flagbarf /\ smtpdSess'.pc = "blast"
        /\ smtpdSess'.rcptto = smtpdSess.rcptto /\ ~smtpdSess'.seenmail
    BY <1>0, <1>4, Moved
  <2>2. PICK e \in Entries : /\ e.cmd = smtpdSess.cmd /\ e.code = 354 /\ smtpdLog' \in Seq(Entries)
                             /\ smtpdLog' = Append(smtpdLog, e)
    <3>1. Server!Logged(354) /\ smtpdLog \in Seq(Entries) /\ smtpdSess \in Sessions
      BY <1>4 DEF SmtpdInv, Server!Reply
    <3> QED
      BY <1>1, <3>1, LoggedStep
  <2>3. Since /\ (\A k \in 1 .. Len(smtpdLog) : ~DataAt(k)) /\ ~Server!Accepted(e)
    BY <1>1, <1>4, <2>2 DEF SmtpdInv, Server!Accepted
  <2>4. Since'
    <3>1. e.cmd.verb \notin {"helo", "rset"} /\ smtpdLog \in Seq(Entries) /\ smtpdSess \in Sessions
      BY <1>1, <2>2 DEF SmtpdInv
    <3> QED
      BY <2>1, <2>2, <2>3, <3>1, SinceKept
  <2>5. \A k \in 1 .. Len(smtpdLog') : DataAt(k)' => k = Len(smtpdLog')
    BY <2>2, <2>3 DEF DataAt, SmtpdInv
  <2> QED
    <3>1. smtpdC2s' \in Seq(Cmds) /\ smtpdQueued' \in Seq(Envelopes) /\ smtpdSess'.pc # "close"
          /\ smtpdSess'.rcptto # <<>>
      BY <1>1, <1>4, <2>1 DEF SmtpdInv
    <3> QED
      BY <2>1, <2>2, <2>4, <2>5, <3>1 DEF SmtpdInv
<1> QED
  BY <1>2, <1>3, <1>4 DEF Server!SmtpData

LEMMA CloseStep ==
    ASSUME SmtpdInv, Server!QqClose
    PROVE  SmtpdInv' /\ Server!EnvelopeTrue /\ Server!AcceptedIsQueued
<1> DEFINE q == [from |-> smtpdSess.mailfrom, to |-> smtpdSess.rcptto]
<1>1. PICK hops \in BOOLEAN, over \in BOOLEAN, taken \in BOOLEAN, ok \in BOOLEAN :
        /\ (ok => taken) /\ (taken /\ ~ok => QqCrashes)
        /\ smtpdQueued' = IF taken THEN Append(smtpdQueued, q) ELSE smtpdQueued
        /\ \E code \in (IF taken /\ ~ok THEN {451} ELSE Server!Codes(hops, over, ok)) :
             Server!Reply(code)
  BY DEF Server!QqClose
<1>2. PICK code \in (IF taken /\ ~ok THEN {451} ELSE Server!Codes(hops, over, ok)) :
           Server!Reply(code)
  BY <1>1
<1>3. /\ smtpdSess.pc = "close" /\ InText /\ smtpdSess.cmd.verb = "dot" /\ smtpdSess \in Sessions
      /\ smtpdSess' = [smtpdSess EXCEPT !.pc = "commands"] /\ smtpdC2s' = smtpdC2s
           /\ smtpdQueued \in Seq(Envelopes)
  BY DEF Server!QqClose, SmtpdInv, InText
<1>4. code \in Nat /\ Server!Logged(code) /\ (code = 250 <=> ok)
  BY <1>1, <1>2 DEF Server!Codes, Server!Reply
<1>5. PICK e \in Entries : e.cmd = smtpdSess.cmd /\ e.code = code /\ smtpdLog' \in Seq(Entries)
                           /\ smtpdLog' = Append(smtpdLog, e)
  BY <1>3, <1>4, LoggedStep DEF SmtpdInv
<1>6. q \in Envelopes /\ q.from = smtpdSess.mailfrom /\ q.to = smtpdSess.rcptto
  BY <1>3 DEF Envelopes, Sessions
<1> HIDE DEF q
<1>7. smtpdQueued' \in Seq(Envelopes)
  BY <1>1, <1>3, <1>6
<1>8. SmtpdInv'
  <2>1. smtpdSess' \in Sessions /\ smtpdSess'.pc = "commands" /\ ~smtpdSess'.seenmail
    BY <1>3 DEF Sessions, SmtpdInv
  <2> QED
    BY <1>3, <1>5, <1>7, <2>1 DEF SmtpdInv, InText
<1>9. Server!EnvelopeTrue
  <2> SUFFICES ASSUME smtpdQueued' # smtpdQueued
               PROVE  LET m == Server!Last(smtpdQueued') IN
                /\ smtpdLog # <<>> /\ m.from = smtpdLog[1].cmd.arg /\ m.from \notin Badmailfrom
                /\ m.to # <<>> /\ \E at \in [1 .. Len(m.to) -> 1 .. Len(smtpdLog)] :
                     Server!Lists(at, m.to)
                /\ Relayclient \/ Server!ToSet(m.to) \subseteq Rcpthosts
                /\ \A k \in 1 .. Len(smtpdLog) :
                      /\ smtpdLog[k].cmd.verb \notin {"helo", "rset"}
                      /\ smtpdLog[k].cmd.verb = "data" /\ smtpdLog[k].code = 354
                             => k = Len(smtpdLog)
    BY DEF Server!EnvelopeTrue
  <2>1. Server!Last(smtpdQueued') = q
    BY <1>1, <1>3, <1>6 DEF Server!Last
  <2>2. Since /\ smtpdSess.rcptto # <<>> /\ \A k \in 1 .. Len(smtpdLog) : DataAt(k)
            => k = Len(smtpdLog)
    BY <1>3 DEF SmtpdInv
  <2>3. Relayclient \/ Server!ToSet(smtpdSess.rcptto) \subseteq Rcpthosts
    <3>1. smtpdSess.rcptto \in Seq(Args)
      BY <1>3 DEF Sessions
    <3> QED
      BY <2>2, <3>1 DEF Since, Server!ToSet
  <2> QED
    BY <1>6, <2>1, <2>2, <2>3 DEF Since, DataAt
<1>10. Server!AcceptedIsQueued
  <2>1. Server!Last(smtpdLog') = e
    BY <1>5 DEF Server!Last, SmtpdInv
  <2> QED
    <3>1. ok => Len(smtpdQueued') = Len(smtpdQueued) + 1
      BY <1>1, <1>3, <1>6
    <3>2. ~ok /\ ~QqCrashes => smtpdQueued' = smtpdQueued
      <4>0. taken /\ ~ok => QqCrashes
        BY <1>1, Zenon
      <4>1. CASE taken
        BY <4>0, <4>1, Zenon
      <4>2. CASE ~taken
        BY <1>1, <4>2
      <4> QED
        BY <4>1, <4>2
    <3>3. Server!Last(smtpdLog').code = 250 <=> ok
      BY <1>4, <1>5, <2>1
    <3> QED
      BY <3>1, <3>2, <3>3 DEF Server!AcceptedIsQueued
<1> QED
  BY <1>8, <1>9, <1>10

LEMMA DiesStep ==
    ASSUME SmtpdInv, Server!Dies
    PROVE  SmtpdInv'
<1>1. PICK code \in {421, 451} : Server!ReplyExit(code) /\ smtpdSess.pc # "close"
  BY DEF Server!Dies
<1>2. /\ Server!Logged(code) /\ smtpdSess' = [smtpdSess EXCEPT !.pc = "exit"]
           /\ smtpdC2s' = smtpdC2s /\ smtpdQueued' = smtpdQueued
      /\ smtpdSess \in Sessions
  BY <1>1 DEF Server!ReplyExit, SmtpdInv
<1>3. /\ smtpdSess' \in Sessions /\ smtpdSess'.pc = "exit"
           /\ (smtpdSess'.seenmail => smtpdSess.seenmail)
      /\ smtpdSess'.flagbarf = smtpdSess.flagbarf /\ smtpdSess'.mailfrom = smtpdSess.mailfrom
      /\ smtpdSess'.rcptto = smtpdSess.rcptto
  BY <1>2, Moved
<1>4. code \in Nat /\ code >= 400
  OBVIOUS
<1> QED
  BY <1>1, <1>2, <1>3, <1>4, Quietly

LEMMA OtherStep ==
    ASSUME SmtpdInv, Server!OtherCommand \/ Server!SmtpQuit \/ Server!SmtpHeloRset
    PROVE  SmtpdInv'
<1>1. CASE Server!OtherCommand
  <2>1. PICK code \in {250, 502} : Server!Answer(code, smtpdSess)
    BY <1>1 DEF Server!OtherCommand
  <2>2. Server!Logged(code) /\ smtpdSess' = [smtpdSess EXCEPT !.pc = "commands"]
          /\ smtpdC2s' = smtpdC2s /\ smtpdQueued' = smtpdQueued
        /\ smtpdSess.pc = "fun" /\ smtpdSess.cmd.verb \in {"noop", "text", "dot"}
    BY <1>1, <2>1 DEF Server!Answer, Server!Reply, Server!OtherCommand, Server!Fun
  <2>3. /\ smtpdSess' \in Sessions /\ smtpdSess'.pc = "commands"
             /\ (smtpdSess'.seenmail => smtpdSess.seenmail)
        /\ smtpdSess'.flagbarf = smtpdSess.flagbarf /\ smtpdSess'.mailfrom = smtpdSess.mailfrom
        /\ smtpdSess'.rcptto = smtpdSess.rcptto
    BY <2>2, Moved DEF SmtpdInv
  <2> QED
    BY <2>2, <2>3, Quietly
<1>2. CASE Server!SmtpQuit
  <2>1. Server!Logged(221) /\ smtpdSess' = [smtpdSess EXCEPT !.pc = "exit"]
          /\ smtpdC2s' = smtpdC2s /\ smtpdQueued' = smtpdQueued
        /\ smtpdSess.pc = "fun" /\ smtpdSess.cmd.verb = "quit"
    BY <1>2 DEF Server!SmtpQuit, Server!ReplyExit, Server!Fun
  <2>3. /\ smtpdSess' \in Sessions /\ smtpdSess'.pc = "exit"
             /\ (smtpdSess'.seenmail => smtpdSess.seenmail)
        /\ smtpdSess'.flagbarf = smtpdSess.flagbarf /\ smtpdSess'.mailfrom = smtpdSess.mailfrom
        /\ smtpdSess'.rcptto = smtpdSess.rcptto
    BY <2>1, Moved DEF SmtpdInv
  <2> QED
    BY <2>1, <2>3, Quietly
<1>3. CASE Server!SmtpHeloRset
  <2>1. /\ Server!Logged(250)
             /\ smtpdSess' = [[smtpdSess EXCEPT !.seenmail = FALSE] EXCEPT !.pc = "commands"]
        /\ smtpdC2s' = smtpdC2s /\ smtpdQueued' = smtpdQueued /\ smtpdSess.pc = "fun"
    BY <1>3 DEF Server!SmtpHeloRset, Server!Answer, Server!Reply, Server!Fun
  <2> DEFINE n == [smtpdSess EXCEPT !.seenmail = FALSE]
  <2>2. /\ n \in Sessions /\ ~n.seenmail
        /\ n.flagbarf = smtpdSess.flagbarf /\ n.mailfrom = smtpdSess.mailfrom
             /\ n.rcptto = smtpdSess.rcptto
    BY Forgotten DEF SmtpdInv
  <2>4. smtpdSess' = [n EXCEPT !.pc = "commands"]
    BY <2>1
  <2> HIDE DEF n
  <2>3. /\ smtpdSess' \in Sessions /\ smtpdSess'.pc = "commands" /\ ~smtpdSess'.seenmail
        /\ smtpdSess'.flagbarf = smtpdSess.flagbarf /\ smtpdSess'.mailfrom = smtpdSess.mailfrom
        /\ smtpdSess'.rcptto = smtpdSess.rcptto
    BY <2>2, <2>4, Moved
  <2> QED
    BY <2>1, <2>3, Quietly
<1> QED
  BY <1>1, <1>2, <1>3

LEMMA ReadStep ==
    ASSUME SmtpdInv, Server!ReadCommand \/ Server!ReadText \/ Server!DieRead
    PROVE  SmtpdInv'
<1>0. ASSUME smtpdC2s # <<>>
      PROVE  Head(smtpdC2s) \in Cmds /\ Tail(smtpdC2s) \in Seq(Cmds)
  BY <1>0 DEF SmtpdInv
<1>1. CASE Server!ReadCommand
  <2>1. smtpdSess' = [smtpdSess EXCEPT !.pc = "fun", !.cmd = Head(smtpdC2s)]
          /\ Head(smtpdC2s) \in Cmds
        /\ smtpdC2s' \in Seq(Cmds) /\ smtpdLog' = smtpdLog /\ smtpdQueued' = smtpdQueued
    BY <1>0, <1>1 DEF Server!ReadCommand
  <2>2. smtpdSess' \in Sessions /\ smtpdSess'.pc = "fun"
    BY <2>1 DEF SmtpdInv, Sessions
  <2> QED
    BY <2>1, <2>2, Silently DEF SmtpdInv, Sessions, InText
<1>2. CASE Server!ReadText
  <2>1. /\ smtpdSess' = IF Head(smtpdC2s).verb = "dot"
                   THEN [smtpdSess EXCEPT !.pc = "close", !.cmd = Head(smtpdC2s)] ELSE smtpdSess
        /\ Head(smtpdC2s) \in Cmds /\ smtpdSess.pc = "blast"
        /\ smtpdC2s' \in Seq(Cmds) /\ smtpdLog' = smtpdLog /\ smtpdQueued' = smtpdQueued
    BY <1>0, <1>2 DEF Server!ReadText
  <2>2. smtpdSess' \in Sessions /\ (smtpdSess'.pc = "close" => smtpdSess'.cmd.verb = "dot")
    BY <2>1 DEF SmtpdInv, Sessions
  <2>3. InText
    BY <2>1 DEF InText
  <2> QED
    BY <2>1, <2>2, <2>3, Silently DEF SmtpdInv, Sessions
<1>3. CASE Server!DieRead
  <2>1. smtpdSess' = [smtpdSess EXCEPT !.pc = "exit"] /\ smtpdC2s' = smtpdC2s
          /\ smtpdLog' = smtpdLog /\ smtpdQueued' = smtpdQueued
    BY <1>3 DEF Server!DieRead, Server!netVars
  <2>2. smtpdSess' \in Sessions /\ smtpdSess'.pc = "exit"
    BY <2>1 DEF SmtpdInv, Sessions
  <2> QED
    BY <2>1, <2>2, Silently DEF SmtpdInv, Sessions, InText
<1> QED
  BY <1>1, <1>2, <1>3

LEMMA OutsideStep ==
    ASSUME SmtpdInv, Server!Flush \/ Server!AnyClient \/ Server!Breaks \/ UNCHANGED Server!vars
    PROVE  SmtpdInv'
<1>1. smtpdSess' = smtpdSess /\ smtpdLog' = smtpdLog /\ smtpdQueued' = smtpdQueued
  BY DEF Server!Flush, Server!AnyClient, Server!Breaks, Server!vars
<1>2. smtpdC2s' \in Seq(Cmds)
  <2>1. Server!Commands \subseteq Cmds
    BY DEF Server!Commands, Server!Command, Cmds, Args
  <2>2. CASE Server!AnyClient
    <3>1. PICK c \in Server!Commands : smtpdC2s' = Append(smtpdC2s, c)
      BY <2>2 DEF Server!AnyClient
    <3> QED
      BY <2>1, <3>1 DEF SmtpdInv
  <2>3. CASE Server!Breaks
    <3>1. PICK n \in 0 .. Len(smtpdC2s) : smtpdC2s' = SubSeq(smtpdC2s, 1, n)
      BY <2>3 DEF Server!Breaks
    <3> QED
      BY <3>1 DEF SmtpdInv
  <2>4. CASE smtpdC2s' = smtpdC2s
    BY <2>4 DEF SmtpdInv
  <2> QED
    BY <2>2, <2>3, <2>4 DEF Server!Flush, Server!vars, Server!netVars
<1> QED
  BY <1>1, <1>2, Silently DEF SmtpdInv, InText

LEMMA SmtpdSteps ==
    ASSUME SmtpdInv, [Server!Next]_(Server!vars)
    PROVE  SmtpdInv' /\ Server!EnvelopeTrue /\ Server!AcceptedIsQueued
<1>1. CASE Server!QqClose
  BY <1>1, CloseStep
<1>2. CASE ~Server!QqClose
  <2>1. SmtpdInv'
    BY <1>2, OutsideStep, MailStep, RcptStep, DataStep, DiesStep, OtherStep, ReadStep
       DEF Server!Next, Server!Server
  <2>2. Server!EnvelopeTrue
    <3>1. smtpdQueued' = smtpdQueued
      BY <1>2 DEF Server!Next, Server!Server, Server!Flush, Server!ReadCommand,
         Server!OtherCommand, Server!SmtpQuit, Server!SmtpHeloRset,
         Server!SmtpMail, Server!SmtpRcpt, Server!SmtpData, Server!ReadText, Server!Dies,
         Server!DieRead, Server!AnyClient, Server!Breaks, Server!Answer,
         Server!ReplyExit, Server!vars
    <3> QED
      BY <3>1 DEF Server!EnvelopeTrue
  <2>3. Server!AcceptedIsQueued
    <3>1. smtpdSess.pc = "close" => smtpdLog' = smtpdLog
      BY <1>2 DEF Server!Next, Server!Server, Server!Flush, Server!ReadCommand,
         Server!OtherCommand, Server!SmtpQuit, Server!SmtpHeloRset, Server!Fun,
         Server!SmtpMail, Server!SmtpRcpt, Server!SmtpData, Server!ReadText, Server!Dies,
         Server!DieRead, Server!AnyClient, Server!Breaks, Server!vars
    <3> QED
      BY <3>1 DEF Server!AcceptedIsQueued
  <2> QED
    BY <2>1, <2>2, <2>3
<1> QED
  BY <1>1, <1>2

-----------------------------------------------------------------------------
(* The table of timeouts.                                                  *)

TcptoConstants ==
    /\ Slots \in Nat /\ Gap \in Nat
    /\ Timeouts!Nobody \notin Remotes /\ Timeouts!NoIp \notin Ips

Records == [ip : Ips \cup {Timeouts!NoIp}, n : Nat, when : Nat]
Tables == [Timeouts!S -> Records]
TcptoTypes ==
    /\ table \in Tables /\ now \in Nat
    /\ ip \in [Remotes -> Ips \cup {Timeouts!NoIp}]
    /\ buf \in [Remotes -> Tables]
    /\ errs \in [Ips -> Nat \X Int]
    /\ tcptoPc \in [Remotes -> {"next", "connect", "held", "err", "write"}]

\* What holds of the table, and of the copy that is about to be changed.
Unique(t) == \A s, u \in Timeouts!S : t[s].ip = t[u].ip /\ t[s].ip # Timeouts!NoIp => s = u
Counted(t) ==
    \A s \in Timeouts!S : t[s].n >= 1 =>
        LET e == errs[t[s].ip] IN
        /\ t[s].ip \in Ips /\ e # Timeouts!Never
        /\ e[1] <= t[s].when /\ e[2] = t[s].when
        /\ t[s].n >= 2 => e[1] + Gap <= e[2]
Sound(t) == Unique(t) /\ Counted(t)

TcptoInv ==
    /\ TcptoTypes
    /\ Sound(table)
    /\ \A i \in Ips : errs[i] # Timeouts!Never => errs[i][1] <= errs[i][2] /\ errs[i][2] <= now
    /\ \A p \in Remotes : tcptoPc[p] = "write" =>
         lock = p /\ ip[p] \in Ips /\ table \in {buf[p], Timeouts!Zero} /\ Sound(buf[p])
    /\ \A p \in Remotes : tcptoPc[p] \in {"connect", "err"} => ip[p] \in Ips

LEMMA MinSlot ==
    ASSUME TcptoConstants, NEW T \in SUBSET Timeouts!S, T # {}
    PROVE  Timeouts!Min(T) \in T
<1> DEFINE R == OpToRel(<, Nat)
<1>0. Timeouts!S \in SUBSET Nat
  BY DEF TcptoConstants, Timeouts!S
<1>1. PICK x \in T : \A y \in T : <<y, x>> \notin R
  <2> HIDE DEF R
  <2>1. IsWellFoundedOn(R, Nat)
    BY NatLessThanWellFounded DEF R
  <2> QED
    BY <1>0, <2>1, WFMin
<1>2. R = {ss \in Nat \X Nat : ss[1] < ss[2]}
  BY DEF OpToRel
<1>3. ASSUME NEW y \in T
      PROVE  x <= y
  <2>1. <<y, x>> \notin {ss \in Nat \X Nat : ss[1] < ss[2]}
    BY <1>1, <1>2
  <2>2. x \in Nat /\ y \in Nat
    BY <1>0
  <2>3. ~(y < x)
    BY <2>1, <2>2
  <2> QED
    BY <2>2, <2>3
<1>4. \E q \in T : \A y \in T : q <= y
  BY <1>3
<1> QED
  BY <1>4, Zenon DEF Timeouts!Min

\* A slot that gets the address i is the one it has, or i has none.
LEMMA EnterUnique ==
    ASSUME NEW t \in Tables, NEW b \in Tables, Unique(b), t \in {b, Timeouts!Zero},
           NEW i \in Ips, NEW s, NEW r \in Records, r.ip = i, Timeouts!NoIp \notin Ips,
           (s \in Timeouts!S /\ b[s].ip = i) \/ Timeouts!SlotOf(b, i) = {},
           NEW new \in Tables, \A u \in Timeouts!S : new[u] = IF u = s THEN r ELSE t[u]
    PROVE  /\ Unique(new)
           /\ \A u \in Timeouts!S : IF u = s THEN new[u] = r ELSE new[u] = t[u] /\ t[u].ip # i
<1>3. ASSUME NEW u \in Timeouts!S, u # s
      PROVE  t[u].ip # i
  <2>1. CASE t = Timeouts!Zero
    BY <2>1 DEF Timeouts!Zero
  <2>2. CASE t = b
    BY <1>3, <2>2 DEF Timeouts!SlotOf, Unique
  <2> QED
    BY <2>1, <2>2
<1>4. Unique(t)
  BY DEF Unique, Timeouts!Zero
<1>5. Unique(new)
  BY <1>3, <1>4 DEF Unique
<1> QED
  BY <1>3, <1>5

LEMMA ZeroTable == Timeouts!Zero \in Tables /\ Unique(Timeouts!Zero) /\ Counted(Timeouts!Zero)
BY DEF Timeouts!Zero, Tables, Records, Unique, Counted

LEMMA TcptoStarts ==
    ASSUME TcptoConstants, Timeouts!Init
    PROVE  TcptoInv
<1>1. TcptoTypes
  BY ZeroTable DEF Timeouts!Init, TcptoTypes, Timeouts!Never
<1> QED
  BY <1>1, ZeroTable DEF Timeouts!Init, TcptoInv, Sound

\* A step of p that leaves the table and does not copy it.
LEMMA Elsewhere ==
    ASSUME TcptoInv, TcptoTypes', NEW p \in Remotes, UNCHANGED <<table, now, errs>>,
           \A q \in Remotes \ {p} : UNCHANGED <<tcptoPc[q], ip[q], buf[q]>>,
           tcptoPc'[p] # "write", tcptoPc'[p] \in {"connect", "err"} => ip'[p] \in Ips,
           lock' = lock \/ lock = p
    PROVE  TcptoInv'
<1>1. \A t : Sound(t)' <=> Sound(t)
  BY DEF Sound, Unique, Counted
<1>2. ASSUME NEW q \in Remotes, tcptoPc'[q] = "write"
      PROVE  lock' = q /\ ip'[q] \in Ips /\ table' \in {buf'[q], Timeouts!Zero} /\ Sound(buf[q])'
  <2>1. q # p /\ tcptoPc[q] = "write" /\ UNCHANGED <<ip[q], buf[q]>>
    BY <1>2
  <2>2. lock = q /\ ip[q] \in Ips /\ table \in {buf[q], Timeouts!Zero} /\ Sound(buf[q])
    BY <2>1 DEF TcptoInv
  <2>3. \A b : b = buf[q] => (Sound(b)' <=> Sound(b))
    BY <1>1
  <2>4. Sound(buf[q])'
    BY <2>1, <2>2 DEF Sound, Unique, Counted
  <2> QED
    BY <2>1, <2>2, <2>4
<1>3. Sound(table)'
  BY DEF TcptoInv, Sound, Unique, Counted
<1>4. \A i \in Ips : errs'[i] # Timeouts!Never => errs'[i][1] <= errs'[i][2] /\ errs'[i][2] <= now'
  BY DEF TcptoInv
<1>5. \A q \in Remotes : tcptoPc'[q] \in {"connect", "err"} => ip'[q] \in Ips
  BY DEF TcptoInv
<1> QED
  BY <1>2, <1>3, <1>4, <1>5 DEF TcptoInv

\* p, which has the lock, writes the slot of its address and lets the lock go.
LEMMA Written ==
    ASSUME TcptoConstants, TcptoInv, TcptoTypes', NEW p \in Remotes, tcptoPc[p] = "write",
           tcptoPc'[p] = "next",
           \A q \in Remotes \ {p} : UNCHANGED <<tcptoPc[q], ip[q], buf[q]>>, now' = now,
           Sound(table)',
           \A i \in Ips : \/ errs'[i] \in {errs[i], Timeouts!Never}
                          \/ errs'[i][1] <= errs'[i][2] /\ errs'[i][2] <= now
    PROVE  TcptoInv'
<1>1. \A q \in Remotes : tcptoPc'[q] # "write"
  BY DEF TcptoInv
<1>2. \A q \in Remotes : tcptoPc'[q] \in {"connect", "err"} => ip'[q] \in Ips
  BY DEF TcptoInv
<1>3. \A i \in Ips : errs'[i] # Timeouts!Never => errs'[i][1] <= errs'[i][2] /\ errs'[i][2] <= now'
  BY DEF TcptoInv
<1> QED
  BY <1>1, <1>2, <1>3 DEF TcptoInv

LEMMA ForgetTypes ==
    ASSUME TcptoTypes, NEW p \in Remotes, Timeouts!Forget(p), now' = now,
           table' \in Tables, errs' \in [Ips -> Nat \X Int]
    PROVE  /\ TcptoTypes' /\ tcptoPc'[p] = "next"
           /\ \A q \in Remotes \ {p} : UNCHANGED <<tcptoPc[q], ip[q], buf[q]>>
BY ZeroTable DEF Timeouts!Forget, Timeouts!Go, TcptoTypes

LEMMA TcptoErrSteps ==
    ASSUME TcptoConstants, TcptoInv, NEW p \in Remotes, Timeouts!TcptoErr(p)
    PROVE  TcptoInv'
<1> DEFINE b == buf[p]
           i == ip[p]
           s == IF Timeouts!SlotOf(b,
           i) = {} THEN Timeouts!Victim(p) ELSE Timeouts!Min(Timeouts!SlotOf(b, i))
           n == IF Timeouts!SlotOf(b, i) = {} THEN 1 ELSE Timeouts!More(b[s].n)
           r == [ip |-> i, n |-> n, when |-> now]
           e == <<IF errs[i] = Timeouts!Never THEN now ELSE errs[i][1], now>>
<1>1. tcptoPc[p] = "write" /\ Timeouts!Forget(p) /\ now' = now
  BY DEF Timeouts!TcptoErr, Timeouts!Release
<1>2. /\ TcptoTypes /\ Sound(table) /\ Sound(b) /\ i \in Ips /\ table \in {b, Timeouts!Zero}
      /\ b \in Tables /\ table \in Tables /\ now \in Nat /\ errs \in [Ips -> Nat \X Int]
  BY <1>1 DEF TcptoInv, TcptoTypes
<1>3. CASE UNCHANGED <<table, errs>>
  <2>1. /\ TcptoTypes' /\ tcptoPc'[p] = "next"
        /\ \A q \in Remotes \ {p} : UNCHANGED <<tcptoPc[q], ip[q], buf[q]>>
    BY <1>1, <1>2, <1>3, ForgetTypes
  <2>2. Sound(table)'
    BY <1>2, <1>3 DEF Sound, Unique, Counted
  <2> QED
    BY <1>1, <1>3, <2>1, <2>2, Written
<1>4. CASE /\ table' = [table EXCEPT ![s] = r] /\ errs' = [errs EXCEPT ![i] = e]
           /\ Timeouts!SlotOf(b, i) # {} => Timeouts!Counts(b[s])
  <2>1. (s \in Timeouts!S /\ b[s].ip = i) \/ Timeouts!SlotOf(b, i) = {}
    <3>1. Timeouts!SlotOf(b, i) \in SUBSET Timeouts!S
      BY DEF Timeouts!SlotOf
    <3>2. Timeouts!SlotOf(b, i) # {}
              => Timeouts!Min(Timeouts!SlotOf(b, i)) \in Timeouts!SlotOf(b, i)
      BY <3>1, MinSlot
    <3> QED
      BY <3>2 DEF Timeouts!SlotOf
  <2>2. n \in Nat
    BY <1>2, <2>1 DEF Tables, Records, Timeouts!More
  <2>3. r \in Records /\ r.ip = i /\ r.n = n /\ r.when = now
    BY <1>2, <2>2 DEF Records
  <2>4. errs[i] # Timeouts!Never => errs[i][1] <= errs[i][2] /\ errs[i][2] <= now
    BY <1>2 DEF TcptoInv
  <2>5. /\ e \in Nat \X Int /\ e[1] <= now /\ e[2] = now /\ e # Timeouts!Never
        /\ errs[i] # Timeouts!Never => e[1] = errs[i][1]
    <3>1. errs[i] \in Nat \X Int
      BY <1>2
    <3> QED
      BY <1>2, <2>4, <3>1 DEF Timeouts!Never
  <2>6. n >= 2 => e[1] + Gap <= now
    <3> SUFFICES ASSUME n >= 2
                 PROVE  e[1] + Gap <= now
      OBVIOUS
    <3>1. Timeouts!SlotOf(b, i) # {} /\ b[s].n >= 1 /\ s \in Timeouts!S /\ b[s].ip = i
      BY <1>2, <2>1 DEF Timeouts!More, Tables, Records
    <3>2. b[s].when \in Nat /\ b[s].n \in Nat /\ Gap \in Nat
      BY <1>2, <3>1 DEF Tables, Records, TcptoConstants
    <3>3. Gap + b[s].when <= now
      BY <1>2, <1>4, <3>1, <3>2 DEF Timeouts!Counts
    <3>4. errs[i] # Timeouts!Never /\ errs[i][1] <= b[s].when
      BY <1>2, <3>1 DEF Sound, Counted
    <3>5. errs[i][1] \in Nat
      BY <1>2
    <3> QED
      BY <2>5, <3>2, <3>3, <3>4, <3>5, <1>2
  <2> HIDE DEF b, i, s, n, r, e
  <2>7. /\ table' \in Tables /\ Unique(table')
        /\ \A u \in Timeouts!S : IF u = s THEN table'[u] = r ELSE table'[u] = table[u]
             /\ table[u].ip # i
    <3>1. Unique(b) /\ Timeouts!NoIp \notin Ips
      BY <1>2 DEF Sound, TcptoConstants
    <3>2. table' \in Tables /\ \A u \in Timeouts!S : table'[u] = IF u = s THEN r ELSE table[u]
      BY <1>2, <1>4, <2>3 DEF Tables
    <3> QED
      BY <1>2, <2>1, <2>3, <3>1, <3>2, EnterUnique
  <2>8. errs' \in [Ips -> Nat \X Int] /\ errs'[i] = e /\ \A k \in Ips : k # i => errs'[k] = errs[k]
    BY <1>2, <1>4, <2>5
  <2>9. Counted(table)'
    <3> SUFFICES ASSUME NEW u \in Timeouts!S, table'[u].n >= 1
                 PROVE  LET f == errs'[table'[u].ip] IN
                        /\ table'[u].ip \in Ips /\ f # Timeouts!Never
                        /\ f[1] <= table'[u].when /\ f[2] = table'[u].when
                        /\ table'[u].n >= 2 => f[1] + Gap <= f[2]
      BY DEF Counted
    <3>1. CASE u = s
      BY <1>2, <2>3, <2>5, <2>6, <2>7, <2>8, <3>1
    <3>2. CASE u # s
      BY <1>2, <2>7, <2>8, <3>2 DEF Sound, Counted
    <3> QED
      BY <3>1, <3>2
  <2>10. /\ TcptoTypes' /\ tcptoPc'[p] = "next"
         /\ \A q \in Remotes \ {p} : UNCHANGED <<tcptoPc[q], ip[q], buf[q]>>
    BY <1>1, <1>2, <2>7, <2>8, ForgetTypes
  <2>11. Sound(table)'
    BY <2>7, <2>9 DEF Sound, Unique
  <2>12. \A k \in Ips : \/ errs'[k] \in {errs[k], Timeouts!Never}
                        \/ errs'[k][1] <= errs'[k][2] /\ errs'[k][2] <= now
    BY <2>5, <2>8, <1>2
  <2> QED
    BY <1>1, <2>10, <2>11, <2>12, Written
<1>5. \/ UNCHANGED <<table, errs>>
      \/ /\ table' = [table EXCEPT ![s] = r] /\ errs' = [errs EXCEPT ![i] = e]
         /\ Timeouts!SlotOf(b, i) # {} => Timeouts!Counts(b[s])
  BY DEF Timeouts!TcptoErr, Timeouts!Enter, Timeouts!Entered
<1> QED
  BY <1>3, <1>4, <1>5

LEMMA TcptoOkSteps ==
    ASSUME TcptoConstants, TcptoInv, NEW p \in Remotes, Timeouts!TcptoOk(p)
    PROVE  TcptoInv'
<1> DEFINE b == buf[p]
           i == ip[p]
           s == Timeouts!Min(Timeouts!SlotOf(b, i))
           r == [ip |-> i, n |-> 0, when |-> b[s].when]
<1>1. tcptoPc[p] = "write" /\ Timeouts!Forget(p) /\ now' = now
  BY DEF Timeouts!TcptoOk, Timeouts!Release
<1>2. /\ TcptoTypes /\ Sound(table) /\ Sound(b) /\ i \in Ips /\ table \in {b, Timeouts!Zero}
      /\ b \in Tables /\ table \in Tables /\ now \in Nat /\ errs \in [Ips -> Nat \X Int]
  BY <1>1 DEF TcptoInv, TcptoTypes
<1>3. CASE UNCHANGED <<table, errs>>
  <2>1. /\ TcptoTypes' /\ tcptoPc'[p] = "next"
        /\ \A q \in Remotes \ {p} : UNCHANGED <<tcptoPc[q], ip[q], buf[q]>>
    BY <1>1, <1>2, <1>3, ForgetTypes
  <2>2. Sound(table)'
    BY <1>2, <1>3 DEF Sound, Unique, Counted
  <2> QED
    BY <1>1, <1>3, <2>1, <2>2, Written
<1>4. CASE /\ table' = [table EXCEPT ![s] = r] /\ errs' = [errs EXCEPT ![i] = Timeouts!Never]
           /\ Timeouts!SlotOf(b, i) # {}
  <2>1. s \in Timeouts!S /\ b[s].ip = i
    <3>1. Timeouts!SlotOf(b, i) \in SUBSET Timeouts!S
      BY DEF Timeouts!SlotOf
    <3>2. Timeouts!Min(Timeouts!SlotOf(b, i)) \in Timeouts!SlotOf(b, i)
      BY <1>4, <3>1, MinSlot
    <3> QED
      BY <3>2 DEF Timeouts!SlotOf
  <2>3. r \in Records /\ r.ip = i /\ r.n = 0
    BY <1>2, <2>1 DEF Records, Tables
  <2> HIDE DEF b, i, s, r
  <2>7. /\ table' \in Tables /\ Unique(table')
        /\ \A u \in Timeouts!S : IF u = s THEN table'[u] = r ELSE table'[u] = table[u]
             /\ table[u].ip # i
    <3>1. Unique(b) /\ Timeouts!NoIp \notin Ips
      BY <1>2 DEF Sound, TcptoConstants
    <3>2. table' \in Tables /\ \A u \in Timeouts!S : table'[u] = IF u = s THEN r ELSE table[u]
      BY <1>2, <1>4, <2>3 DEF Tables
    <3> QED
      BY <1>2, <2>1, <2>3, <3>1, <3>2, EnterUnique
  <2>8. /\ errs' \in [Ips -> Nat \X Int] /\ errs'[i] = Timeouts!Never
        /\ \A k \in Ips : k # i => errs'[k] = errs[k]
    BY <1>2, <1>4 DEF Timeouts!Never
  <2>9. Counted(table)'
    <3> SUFFICES ASSUME NEW u \in Timeouts!S, table'[u].n >= 1
                 PROVE  LET f == errs'[table'[u].ip] IN
                        /\ table'[u].ip \in Ips /\ f # Timeouts!Never
                        /\ f[1] <= table'[u].when /\ f[2] = table'[u].when
                        /\ table'[u].n >= 2 => f[1] + Gap <= f[2]
      BY DEF Counted
    <3>1. u # s
      BY <2>3, <2>7
    <3> QED
      BY <1>2, <2>7, <2>8, <3>1 DEF Sound, Counted
  <2>10. /\ TcptoTypes' /\ tcptoPc'[p] = "next"
         /\ \A q \in Remotes \ {p} : UNCHANGED <<tcptoPc[q], ip[q], buf[q]>>
    BY <1>1, <1>2, <2>7, <2>8, ForgetTypes
  <2>11. Sound(table)'
    BY <2>7, <2>9 DEF Sound, Unique
  <2> QED
    BY <1>1, <1>2, <2>8, <2>10, <2>11, Written
<1> QED
  BY <1>3, <1>4 DEF Timeouts!TcptoOk, Timeouts!Enter

LEMMA RemoteSteps ==
    ASSUME TcptoConstants, TcptoInv, NEW p \in Remotes,
           Timeouts!Tcpto(p) \/ Timeouts!Skip(p) \/ Timeouts!Connect(p) \/ Timeouts!Getbuf(p)
           \/ Timeouts!Exit(p)
    PROVE  TcptoInv'
<1>t. TcptoTypes
  BY DEF TcptoInv
<1>1. CASE Timeouts!Tcpto(p)
  <2>1. PICK i \in Ips : ip' = [ip EXCEPT ![p] = i]
    BY <1>1 DEF Timeouts!Tcpto
  <2>2. PICK l \in {"held", "connect"} : tcptoPc' = [tcptoPc EXCEPT ![p] = l]
    BY <1>1 DEF Timeouts!Tcpto, Timeouts!Go
  <2>3. UNCHANGED <<table, lock, now, buf, errs>>
    BY <1>1 DEF Timeouts!Tcpto
  <2>4. TcptoTypes'
    BY <1>t, <2>1, <2>2, <2>3 DEF TcptoTypes
  <2> QED
    BY <1>t, <2>1, <2>2, <2>3, <2>4, Elsewhere DEF TcptoTypes
<1>2. ASSUME Timeouts!Forget(p), UNCHANGED <<table, now, errs>>, lock' = lock \/ lock = p
      PROVE  TcptoInv'
  <2>1. /\ TcptoTypes' /\ tcptoPc'[p] = "next"
        /\ \A q \in Remotes \ {p} : UNCHANGED <<tcptoPc[q], ip[q], buf[q]>>
    BY <1>t, <1>2, ForgetTypes DEF TcptoTypes
  <2> QED
    BY <1>2, <2>1, Elsewhere
<1>3. CASE Timeouts!Skip(p) \/ Timeouts!Exit(p)
  BY <1>2, <1>3 DEF Timeouts!Skip, Timeouts!Exit
<1>4. CASE Timeouts!Connect(p)
  <2>1. CASE Timeouts!Go(p, "err") /\ UNCHANGED <<ip, buf>>
    <3>1. UNCHANGED <<table, lock, now, errs>> /\ tcptoPc[p] = "connect"
      BY <1>4 DEF Timeouts!Connect
    <3>2. TcptoTypes'
      BY <1>t, <2>1, <3>1 DEF TcptoTypes, Timeouts!Go
    <3>3. tcptoPc' = [tcptoPc EXCEPT ![p] = "err"] /\ ip[p] \in Ips
      BY <2>1, <3>1 DEF Timeouts!Go, TcptoInv
    <3> QED
      BY <1>t, <2>1, <3>1, <3>2, <3>3, Elsewhere DEF TcptoTypes
  <2>2. CASE Timeouts!Forget(p)
    BY <1>2, <1>4, <2>2 DEF Timeouts!Connect
  <2> QED
    BY <1>4, <2>1, <2>2 DEF Timeouts!Connect
<1>5. CASE Timeouts!Getbuf(p)
  <2>1. CASE Timeouts!Forget(p) /\ lock' = lock
    BY <1>2, <1>5, <2>1 DEF Timeouts!Getbuf
  <2>2. CASE /\ lock = Timeouts!Nobody /\ lock' = p /\ Timeouts!Go(p, "write")
             /\ buf' = [buf EXCEPT ![p] = table]
             /\ ip' = ip
    <3>1. UNCHANGED <<table, now, errs>> /\ tcptoPc[p] = "err"
      BY <1>5 DEF Timeouts!Getbuf
    <3>2. TcptoTypes'
      BY <1>t, <2>2, <3>1 DEF TcptoTypes, Timeouts!Go
    <3>3. /\ tcptoPc'[p] = "write" /\ buf'[p] = table /\ ip'[p] \in Ips
          /\ \A q \in Remotes \ {p} : tcptoPc'[q] = tcptoPc[q]
      BY <1>t, <2>2, <3>1 DEF TcptoTypes, Timeouts!Go, TcptoInv
    <3>4. \A q \in Remotes : tcptoPc[q] # "write"
      BY <2>2 DEF TcptoInv, TcptoConstants
    <3>5. Sound(table)' /\ Sound(buf[p])'
      BY <3>1, <3>3 DEF TcptoInv, Sound, Unique, Counted
    <3>6. \A q \in Remotes : tcptoPc'[q] = "write" => q = p
      BY <3>3, <3>4
    <3>7. \A q \in Remotes : tcptoPc'[q] = "write" =>
            lock' = q /\ ip'[q] \in Ips /\ table' \in {buf'[q], Timeouts!Zero} /\ Sound(buf[q])'
      BY <2>2, <3>1, <3>3, <3>5, <3>6
    <3>8. \A q \in Remotes : tcptoPc'[q] \in {"connect", "err"} => ip'[q] \in Ips
      BY <2>2, <3>3 DEF TcptoInv
    <3>9. \A i \in Ips : errs'[i] # Timeouts!Never => errs'[i][1] <= errs'[i][2]
            /\ errs'[i][2] <= now'
      BY <3>1 DEF TcptoInv
    <3> QED
      BY <3>2, <3>5, <3>7, <3>8, <3>9 DEF TcptoInv
  <2> QED
    BY <1>5, <2>1, <2>2 DEF Timeouts!Getbuf
<1> QED
  BY <1>1, <1>3, <1>4, <1>5

\* The table is cleaned with or without the lock, and time passes.
LEMMA WorldSteps ==
    ASSUME TcptoConstants, TcptoInv, Timeouts!TcptoClean \/ Timeouts!Tcpok \/ Timeouts!Tick
    PROVE  TcptoInv'
<1>1. /\ UNCHANGED <<lock, tcptoPc, ip, buf, errs>> /\ table' \in {table, Timeouts!Zero}
      /\ now' \in {now, now + 1}
  BY DEF Timeouts!TcptoClean, Timeouts!Tcpok, Timeouts!Tick, Timeouts!remotes
<1>2. TcptoTypes'
  BY <1>1, ZeroTable DEF TcptoInv, TcptoTypes
<1>3. Counted(Timeouts!Zero)'
  BY DEF Counted, Timeouts!Zero
<1>4. Sound(table)'
  <2>1. CASE table' = table
    BY <1>1, <2>1 DEF TcptoInv, Sound, Unique, Counted
  <2>2. CASE table' = Timeouts!Zero
    BY <1>3, <2>2, ZeroTable DEF Sound, Unique, Counted
  <2> QED
    BY <1>1, <2>1, <2>2
<1>5. \A q \in Remotes : tcptoPc'[q] = "write" =>
         lock' = q /\ ip'[q] \in Ips /\ table' \in {buf'[q], Timeouts!Zero} /\ Sound(buf[q])'
  <2> SUFFICES ASSUME NEW q \in Remotes, tcptoPc[q] = "write"
               PROVE  lock' = q /\ ip'[q] \in Ips /\ table' \in {buf'[q], Timeouts!Zero}
                      /\ Sound(buf[q])'
    BY <1>1
  <2>1. lock = q /\ ip[q] \in Ips /\ table \in {buf[q], Timeouts!Zero} /\ Sound(buf[q])
    BY DEF TcptoInv
  <2>2. Sound(buf[q])'
    BY <1>1, <2>1 DEF Sound, Unique, Counted
  <2> QED
    BY <1>1, <2>1, <2>2
<1>6. \A i \in Ips : errs'[i] # Timeouts!Never => errs'[i][1] <= errs'[i][2] /\ errs'[i][2] <= now'
  <2> SUFFICES ASSUME NEW i \in Ips, errs[i] # Timeouts!Never
               PROVE  errs[i][1] <= errs[i][2] /\ errs[i][2] <= now'
    BY <1>1
  <2>1. errs[i][2] \in Int /\ now \in Nat
    BY DEF TcptoInv, TcptoTypes
  <2> QED
    BY <1>1, <2>1 DEF TcptoInv
<1>7. \A q \in Remotes : tcptoPc'[q] \in {"connect", "err"} => ip'[q] \in Ips
  BY <1>1 DEF TcptoInv
<1> QED
  BY <1>2, <1>4, <1>5, <1>6, <1>7 DEF TcptoInv

LEMMA CauseStep ==
    ASSUME TcptoConstants, TcptoInv, Timeouts!Next
    PROVE  Timeouts!HeldForCause
<1> SUFFICES ASSUME NEW p \in Remotes, tcptoPc[p] = "next", tcptoPc'[p] = "held"
             PROVE  LET e == errs[ip'[p]] IN
                    e # Timeouts!Never /\ e[1] + Gap <= e[2] /\ now - e[2] < Hold[p]
  BY DEF Timeouts!HeldForCause
<1>t. TcptoTypes
  BY DEF TcptoInv
<1>1. ASSUME NEW q \in Remotes, NEW l, tcptoPc' = [tcptoPc EXCEPT ![q] = l], q # p \/ l # "held"
      PROVE  FALSE
  BY <1>t, <1>1 DEF TcptoTypes
<1>2. Timeouts!Tcpto(p)
  <2>1. ASSUME NEW q \in Remotes, Timeouts!Skip(q) \/ Timeouts!Connect(q) \/ Timeouts!Getbuf(q)
               \/ Timeouts!TcptoErr(q)
                                 \/ Timeouts!TcptoOk(q) \/ Timeouts!Exit(q)
        PROVE  FALSE
    BY <1>1, <2>1 DEF Timeouts!Skip, Timeouts!Connect, Timeouts!Getbuf, Timeouts!TcptoErr,
       Timeouts!TcptoOk, Timeouts!Exit, Timeouts!Release, Timeouts!Forget, Timeouts!Go
  <2>2. ASSUME NEW q \in Remotes, Timeouts!Tcpto(q), q # p
        PROVE  FALSE
    BY <1>1, <2>2 DEF Timeouts!Tcpto, Timeouts!Go
  <2>3. ASSUME Timeouts!TcptoClean \/ Timeouts!Tcpok \/ Timeouts!Tick
        PROVE  FALSE
    BY <2>3 DEF Timeouts!TcptoClean, Timeouts!Tcpok, Timeouts!Tick, Timeouts!remotes
  <2> QED
    BY <2>1, <2>2, <2>3 DEF Timeouts!Next
<1>3. PICK i \in Ips : ip'[p] = i
  BY <1>2, <1>t DEF Timeouts!Tcpto, TcptoTypes
<1>4. Timeouts!Held(p)
  BY <1>1, <1>2 DEF Timeouts!Tcpto, Timeouts!Go
<1> PICK s \in Timeouts!S : s = Timeouts!Min(Timeouts!SlotOf(table, i)) /\ table[s].ip = i
  <2>1. Timeouts!SlotOf(table, i) \in SUBSET Timeouts!S /\ Timeouts!SlotOf(table, i) # {}
    BY <1>3, <1>4 DEF Timeouts!Held, Timeouts!SlotOf
  <2>2. Timeouts!Min(Timeouts!SlotOf(table, i)) \in Timeouts!SlotOf(table, i)
    BY <2>1, MinSlot
  <2> QED
    BY <2>2 DEF Timeouts!SlotOf
<1>5. table[s].n >= 2 /\ now - table[s].when < Hold[p]
  BY <1>3, <1>4 DEF Timeouts!Held
<1>6. table[s].n \in Nat
  BY <1>t DEF TcptoTypes, Tables, Records
<1>7. errs[i] # Timeouts!Never /\ errs[i][2] = table[s].when /\ errs[i][1] + Gap <= errs[i][2]
  BY <1>5, <1>6 DEF TcptoInv, Sound, Counted
<1> QED
  BY <1>3, <1>5, <1>7

LEMMA TcptoSteps ==
    ASSUME TcptoConstants, TcptoInv, [Timeouts!Next]_(Timeouts!vars)
    PROVE  TcptoInv' /\ (Timeouts!HeldForCause \/ UNCHANGED Timeouts!vars)
<1>1. CASE UNCHANGED Timeouts!vars
  BY <1>1 DEF Timeouts!vars, Timeouts!remotes, TcptoInv, TcptoTypes, Sound, Unique, Counted
<1>2. CASE Timeouts!Next
  BY <1>2, TcptoErrSteps, TcptoOkSteps, RemoteSteps, WorldSteps, CauseStep DEF Timeouts!Next
<1> QED
  BY <1>1, <1>2

LEMMA TcptoRight ==
    ASSUME TcptoInv
    PROVE  Timeouts!OneSlot
BY DEF TcptoInv, Sound, Unique, Timeouts!OneSlot

-----------------------------------------------------------------------------
(* Together.                                                               *)

LEMMA ServerSteps ==
    ASSUME [Next]_vars, part = "smtpd"
    PROVE  [Server!Next]_(Server!vars)
BY DEF Next, Others, vars, smtpdVars, Server!vars, Server!netVars

LEMMA ThreeSteps ==
    ASSUME [Next]_vars, part = "three"
    PROVE  [Three!Next]_(Three!vars)
BY DEF Next, Others, vars, threeVars, Three!vars

LEMMA OneSteps ==
    ASSUME [Next]_vars, part = "one"
    PROVE  [One!Next]_(One!vars)
BY DEF Next, Others, vars, threeVars, One!vars

LEMMA TimeoutsSteps ==
    ASSUME [Next]_vars, part = "tcpto"
    PROVE  [Timeouts!Next]_(Timeouts!vars)
BY DEF Next, Others, vars, tcptoVars, Timeouts!vars, Timeouts!remotes

LEMMA PartKept ==
    ASSUME [Next]_vars
    PROVE  part' = part
BY DEF Next, Others, vars

(* A host is in one slot of the table of timeouts only (OneSlot), for any  *)
(* number of qmail-remotes, hosts and slots, although each reads the table *)
(* without the lock and it may be cleaned at any time (tcpto.c).           *)
THEOREM SlotsUnique == Spec => []OneSlot
<1> DEFINE Inv == part = "tcpto" => TcptoInv
<1>1. Init => Inv
  BY TcptoAssumption, TcptoStarts DEF Init, TcptoConstants
<1>2. Inv /\ [Next]_vars => Inv'
  BY TcptoAssumption, PartKept, TimeoutsSteps, TcptoSteps DEF TcptoConstants
<1>3. Inv => OneSlot
  BY TcptoRight DEF OneSlot
<1> QED
  BY <1>1, <1>2, <1>3, PTL DEF Spec

\* The first recipient alone is one that qmail-remote may be called with.
LEMMA FirstAlone == One!RemoteConstants
<1>1. MailTo # <<>> /\ MailTo \in Seq(Three!ToSet(MailTo))
  BY RemoteAssumption DEF Three!RemoteConstants
<1>2. <<MailTo[1]>> # <<>> /\ <<MailTo[1]>> \in Seq({MailTo[1]})
  BY <1>1
<1>3. One!ToSet(<<MailTo[1]>>) = {MailTo[1]}
  BY <1>1 DEF One!ToSet
<1> QED
  BY <1>2, <1>3 DEF One!RemoteConstants

(* What qmail-remote says is true (VerdictTrue), for any recipients and    *)
(* any of them that the other host accepts, wherever the connection breaks *)
(* and whenever one of the two ends gives up: K only of a message that is  *)
(* there once with the recipients reported with r, no bounce for one that  *)
(* is taken, and a warning when the answer to the dot is missing           *)
(* (qmail-remote.c, with qmail-smtpd.c at the other end).                  *)
THEOREM VerdictsTrue == Spec => []VerdictTrue
<1> DEFINE Inv == /\ part = "three" => Three!RemoteInv
                  /\ part = "one" => One!RemoteInv
<1>1. Init => Inv
  BY RemoteAssumption, FirstAlone, Three!InStepInitially, One!InStepInitially DEF Init
<1>2. Inv /\ [Next]_vars => Inv'
  BY RemoteAssumption, FirstAlone, PartKept, ThreeSteps, OneSteps, Three!InStepAlways,
     One!InStepAlways
<1>3. Inv => VerdictTrue
  BY RemoteAssumption, FirstAlone, Three!Believed, One!Believed DEF VerdictTrue
<1> QED
  BY <1>1, <1>2, <1>3, PTL DEF Spec

(* Nothing is without its cause (Founded): a queued message has the sender *)
(* and exactly the recipients that were accepted and allowed since, a 250  *)
(* at its end says that qmail-queue has it, whatever the client sends and  *)
(* whenever the connection breaks (qmail-smtpd.c); and a host is held to   *)
(* be down only after two timeouts that are the gap apart (tcpto.c).       *)
THEOREM CausesFound == Spec => Founded
<1> DEFINE Inv == /\ part = "smtpd" => SmtpdInv
                  /\ part = "tcpto" => TcptoInv
           Enveloped == part = "smtpd" => Server!EnvelopeTrue /\ Server!AcceptedIsQueued
           Held == part = "tcpto" => Timeouts!HeldForCause
<1>1. Init => Inv
  BY TcptoAssumption, TcptoStarts, SmtpdStarts DEF Init, TcptoConstants
<1>2. Inv /\ [Next]_vars => Inv' /\ [Enveloped]_smtpdVars /\ [Held]_tcptoVars
  <2> SUFFICES ASSUME Inv, [Next]_vars
               PROVE  Inv' /\ [Enveloped]_smtpdVars /\ [Held]_tcptoVars
    OBVIOUS
  <2>1. CASE part = "smtpd"
    <3>1. SmtpdInv' /\ Server!EnvelopeTrue /\ Server!AcceptedIsQueued
      BY <2>1, ServerSteps, SmtpdSteps
    <3> QED
      BY <2>1, <3>1, PartKept
  <2>2. CASE part = "tcpto"
    <3>1. TcptoInv' /\ (Timeouts!HeldForCause \/ UNCHANGED Timeouts!vars)
      BY <2>2, TcptoAssumption, TimeoutsSteps, TcptoSteps DEF TcptoConstants
    <3>2. UNCHANGED Timeouts!vars => UNCHANGED tcptoVars
      BY DEF Timeouts!vars, Timeouts!remotes, tcptoVars
    <3> QED
      BY <2>2, <3>1, <3>2, PartKept
  <2>3. CASE part \notin {"smtpd", "tcpto"}
    BY <2>3, PartKept
  <2> QED
    BY <2>1, <2>2, <2>3
<1> QED
  BY <1>1, <1>2, PTL DEF Spec, Founded
=============================================================================
