--------------------------------- MODULE Inject -------------------------------
(***************************************************************************)
(* qmail-inject: from options, arguments and header fields to an envelope  *)
(* and a complete header.  A field is its type, its addresses from left to *)
(* right, and how far it can be parsed; Addrlist has the parsing.  "to"    *)
(* stands for Cc too, "r_to" for Resent-Cc and r_from for the other Resent *)
(* fields with one address.                                                *)
(***************************************************************************)
EXTENDS Integers, Sequences, FiniteSets, SequencesExt

CONSTANTS Messages,     \* sequences of fields
          Options       \* records of what the command line and the environment say

Resent == {"r_from", "r_to", "r_bcc", "r_date", "r_messageid"}
Dropped == {"bcc", "r_bcc", "returnpath", "contentlength"}
Unset == "unset"
None == <<"none">>

VARIABLES opt, msg, pc, n,
          sender, reciplist, hrlist, tocclist, hrrlist,
          htypeseen, savedh,
          out,          \* the types of the fields that go out
          envelope,     \* <<sender, recipients>>, when qmail-queue has it
          exit          \* -1 while it runs

lists == <<reciplist, hrlist, tocclist, hrrlist>>
vars == <<opt, msg, pc, n, sender, lists, htypeseen, savedh, out, envelope, exit>>

Init ==
    /\ opt \in Options /\ msg \in Messages /\ pc = "args" /\ n = 1
    /\ sender = opt.f
    /\ reciplist = <<>> /\ hrlist = <<>> /\ tocclist = <<>> /\ hrrlist = <<>>
    /\ htypeseen = {} /\ savedh = <<>> /\ out = <<>> /\ envelope = None /\ exit = -1

Die(code) == pc' = "dead" /\ exit' = code

Strategy == IF opt.strategy # "default" THEN opt.strategy
            ELSE IF opt.args # <<>> THEN "args" ELSE "header"

\* dorecip() for every argument; "bad" is one that cannot be parsed.
Dorecips ==
    /\ pc = "args"
    /\ IF Strategy = "header" THEN pc' = "header" /\ UNCHANGED <<reciplist, exit>>
       ELSE IF \E k \in DOMAIN opt.args : opt.args[k] = "bad"
       THEN Die(100) /\ UNCHANGED reciplist
       ELSE reciplist' = opt.args /\ pc' = "header" /\ UNCHANGED exit
    /\ UNCHANGED <<opt, msg, n, sender, hrlist, tocclist, hrrlist, htypeseen, savedh, out, envelope>>

-----------------------------------------------------------------------------
Field == msg[n]
Reading == pc = "header" /\ n <= Len(msg)

\* QMAILINJECT: the field is as if it were not there.
Deleted == \/ opt.delfrom /\ Field.h = "from"
           \/ opt.delmessid /\ Field.h = "messageid"
           \/ opt.delsender /\ Field.h = "returnpath"

Skip ==
    /\ Reading /\ Deleted /\ n' = n + 1
    /\ UNCHANGED <<opt, msg, pc, sender, lists, htypeseen, savedh, out, envelope, exit>>

\* The addresses the callback gets, from right to left: all, none if there is
\* no way to make tokens of the field, and the ones behind the error.
Called == CASE Field.syn = "ok" -> Reverse(Field.addrs)
            [] Field.syn = "tokens" -> <<>>
            [] OTHER -> <<Last(Field.addrs)>>

Rwmayfail == {"to", "bcc", "appto", "r_to", "r_bcc"}
Addressed == Rwmayfail \cup {"from", "r_from", "returnpath"}

Save == savedh' = IF Field.h \in Dropped THEN savedh ELSE Append(savedh, Field.h)

Doheaderfield ==
    /\ Reading /\ ~Deleted /\ n' = n + 1
    /\ Field.h \in Addressed /\ Field.syn # "ok" => Field.h \in Rwmayfail
    /\ hrlist' = IF Field.h \in {"to", "bcc", "appto"} THEN hrlist \o Called ELSE hrlist
    /\ tocclist' = IF Field.h = "to" THEN tocclist \o Called ELSE tocclist
    /\ hrrlist' = IF Field.h \in {"r_to", "r_bcc"} THEN hrrlist \o Called ELSE hrrlist
    /\ sender' = IF Field.h = "returnpath" /\ sender = Unset /\ Called # <<>>
                 THEN Head(Called) ELSE sender
    /\ htypeseen' = htypeseen \cup {Field.h} /\ Save
    /\ UNCHANGED <<opt, msg, pc, reciplist, out, envelope, exit>>

DoheaderfieldDies ==
    /\ Reading /\ ~Deleted
    /\ Field.h \in Addressed \ Rwmayfail /\ Field.syn # "ok" /\ Die(100)
    /\ UNCHANGED <<opt, msg, n, sender, lists, htypeseen, savedh, out, envelope>>

ReadError ==
    /\ pc \in {"header", "body"} /\ Die(111)
    /\ UNCHANGED <<opt, msg, n, sender, lists, htypeseen, savedh, out, envelope>>

-----------------------------------------------------------------------------
Flagresent == htypeseen \cap Resent # {}

Missing(h) == IF h \in htypeseen THEN <<>> ELSE <<h>>

Mft == IF htypeseen \cap {"mft"} = {} /\ \E k \in DOMAIN tocclist : tocclist[k] \in opt.mft
       THEN <<"mft">> ELSE <<>>

\* The Cc for a list that is not shown counts as "to".
Stamps ==
    IF Flagresent
    THEN Missing("r_date") \o Missing("r_messageid") \o Missing("r_from") \o Missing("r_to")
    ELSE Missing("date") \o Missing("messageid") \o Missing("from") \o Missing("to") \o Mft

Finishheader ==
    /\ pc = "header" /\ n > Len(msg) /\ pc' = "body"
    /\ sender' = IF sender = Unset THEN opt.default ELSE sender
    /\ out' = (IF opt.queue THEN <<>> ELSE <<"returnpath">>) \o Stamps \o savedh
    /\ UNCHANGED <<opt, msg, n, lists, htypeseen, savedh, envelope, exit>>

\* qmail_open() fails.
FinishheaderDies ==
    /\ pc = "header" /\ n > Len(msg) /\ opt.queue /\ Die(111)
    /\ UNCHANGED <<opt, msg, n, sender, lists, htypeseen, savedh, out, envelope>>

(* Mutant of Recipients: Resent fields are for any message.                *)
RecipientsBoth ==
    reciplist \o IF Strategy = "args" THEN <<>> ELSE hrrlist \o hrlist

Recipients ==
    reciplist \o IF Strategy = "args" THEN <<>> ELSE IF Flagresent THEN hrrlist ELSE hrlist

\* The answer of qmail_close().
Exitnicely ==
    /\ pc = "body"
    /\ IF opt.queue
       THEN \/ Die(0) /\ envelope' = <<sender, Recipients>>
            \/ \E code \in {100, 111} : Die(code) /\ UNCHANGED envelope
       ELSE Die(0) /\ UNCHANGED envelope
    /\ UNCHANGED <<opt, msg, n, sender, lists, htypeseen, savedh, out>>

Next ==
    \/ Dorecips \/ Skip \/ Doheaderfield \/ DoheaderfieldDies \/ ReadError
    \/ Finishheader \/ FinishheaderDies \/ Exitnicely

Spec == Init /\ [][Next]_vars

-----------------------------------------------------------------------------
Fields == {k \in DOMAIN msg :
    ~(msg[k].h = "from" /\ opt.delfrom) /\ ~(msg[k].h = "messageid" /\ opt.delmessid)
    /\ ~(msg[k].h = "returnpath" /\ opt.delsender)}
Count(s, h) == Cardinality({k \in DOMAIN s : s[k] = h})
CountIn(h) == Cardinality({k \in Fields : msg[k].h = h})
IsResent == \E k \in Fields : msg[k].h \in Resent
Addresses(hs, syns) ==
    UNION {ToSet(msg[k].addrs) : k \in {l \in Fields : msg[l].h \in hs /\ msg[l].syn \in syns}}
Want(syns) ==
    (IF Strategy = "header" THEN {} ELSE ToSet(opt.args))
    \cup (IF Strategy = "args" THEN {}
          ELSE Addresses(IF IsResent THEN {"r_to", "r_bcc"} ELSE {"to", "bcc", "appto"}, syns))

(* The envelope has the recipients that the options ask for and no others: *)
(* arguments, header, or both; the Resent fields of a forwarded message    *)
(* and only these; whatever stands in fields that cannot be parsed.        *)
EnvelopeAsAsked ==
    envelope # None => /\ Want({"ok"}) \subseteq ToSet(envelope[2])
                       /\ ToSet(envelope[2]) \subseteq Want({"ok", "list"})

(* -f before Return-Path before the environment; of several addresses in   *)
(* Return-Path the last one of the first field that has one.               *)
SenderAsAsked ==
    LET rps == {k \in Fields : msg[k].h = "returnpath" /\ msg[k].addrs # <<>>} IN
    envelope # None =>
        envelope[1] = IF opt.f # Unset THEN opt.f
                      ELSE IF rps = {} THEN opt.default
                      ELSE Last(msg[CHOOSE k \in rps : \A l \in rps : k <= l].addrs)

(* Nobody sees the blind recipients, and every message that goes out has   *)
(* one field of each kind it needs: what the user gave, or one that is     *)
(* added; of a forwarded message the Resent ones, and the others are left. *)
HeaderComplete ==
    pc = "body" =>
        /\ \A h \in Dropped \ {"returnpath"} : Count(out, h) = 0
        /\ Count(out, "returnpath") = IF opt.queue THEN 0 ELSE 1
        /\ \A h \in {"date", "messageid", "from", "to"} :
             Count(out, h) = IF CountIn(h) = 0 /\ ~IsResent THEN 1 ELSE CountIn(h)
        /\ \A h \in {"r_date", "r_messageid", "r_from", "r_to"} :
             Count(out, h) = IF CountIn(h) = 0 /\ IsResent THEN 1 ELSE CountIn(h)
=============================================================================
