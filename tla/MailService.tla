---------------------------- MODULE MailService -----------------------------
(***************************************************************************)
(* What the queue promises, without files or processes.  A message that    *)
(* has been accepted owes something to each of its recipients: a copy, or  *)
(* a report of failure.  It leaves only when nothing is owed.  A recipient *)
(* that has been served is served again only after something has failed:   *)
(* "At worst a message may be delivered twice" (INTERNALS.md section 6).   *)
(***************************************************************************)
EXTENDS Integers, FiniteSets

CONSTANTS Ids, Recips

VARIABLES here,     \* the messages that have been accepted and not ended
          owed,     \* owed[id]: recipients for which nothing is settled
          copies,   \* copies[id][r]: copies delivered
          refused,  \* refused[id]: recipients reported as failed
          faults    \* failures so far

serviceVars == <<here, owed, copies, refused, faults>>

ServiceInit ==
    /\ here = {}
    /\ owed = [id \in Ids |-> {}]
    /\ copies = [id \in Ids |-> [r \in Recips |-> 0]]
    /\ refused = [id \in Ids |-> {}]
    /\ faults = 0

Accept(id) ==
    /\ id \notin here
    /\ copies[id] = [r \in Recips |-> 0] /\ refused[id] = {}
    /\ here' = here \cup {id}
    /\ \E rs \in SUBSET Recips : owed' = [owed EXCEPT ![id] = rs]
    /\ UNCHANGED <<copies, refused, faults>>

Deliver(id, r) ==
    /\ r \in owed[id]
    /\ owed' = [owed EXCEPT ![id] = @ \ {r}]
    /\ copies' = [copies EXCEPT ![id][r] = @ + 1]
    /\ UNCHANGED <<here, refused, faults>>

(* A failure is reported for the recipients of R; those that are settled   *)
(* have their copy or their report.                                        *)
Settle(id, R, S) ==
    /\ R \subseteq owed[id] /\ S \subseteq owed[id]
    /\ refused' = [refused EXCEPT ![id] = @ \cup R]
    /\ \A r \in S : copies[id][r] > 0 \/ r \in refused'[id]
    /\ owed' = [owed EXCEPT ![id] = @ \ S]
    /\ faults' >= faults
    /\ UNCHANGED <<here, copies>>

(* A failure makes the queue forget that it has served some recipients.    *)
Reopen ==
    /\ faults' >= faults /\ faults' > 0
    /\ \A id \in Ids :
          /\ owed[id] \subseteq owed'[id]
          /\ \A r \in owed'[id] \ owed[id] :
                id \in here /\ (copies[id][r] > 0 \/ r \in refused[id])
    /\ UNCHANGED <<here, copies, refused>>

End(id) ==
    /\ id \in here /\ owed[id] = {}
    /\ here' = here \ {id}
    /\ UNCHANGED <<owed, copies, refused, faults>>

(* The number of a message that has ended is made ready for its next use.  *)
Recycle(id) ==
    /\ id \notin here
    /\ copies' = [copies EXCEPT ![id] = [r \in Recips |-> 0]]
    /\ refused' = [refused EXCEPT ![id] = {}]
    /\ faults' >= faults
    /\ UNCHANGED <<here, owed>>

(* Failures that the promise does not see.                                 *)
Fail == faults' >= faults /\ UNCHANGED <<here, owed, copies, refused>>

ServiceNext ==
    \/ \E id \in Ids : Accept(id) \/ End(id) \/ Recycle(id)
    \/ \E id \in Ids, r \in Recips : Deliver(id, r)
    \/ \E id \in Ids : \E R, S \in SUBSET Recips : Settle(id, R, S)
    \/ Reopen \/ Fail

Service == ServiceInit /\ [][ServiceNext]_serviceVars
=============================================================================
