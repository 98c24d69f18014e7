------------------------------- MODULE Controls -------------------------------
(***************************************************************************)
(* The control files of qmail-send: getcontrols() when it starts, and      *)
(* reread() after SIGHUP, while the administrator edits the files one by   *)
(* one.  The contents of a file are a version, 0 for a file that is not    *)
(* there; Me stands for control/me in place of control/locals.             *)
(***************************************************************************)
EXTENDS Integers

CONSTANTS MaxEdits, MaxHups, MaxErrors

Me == -1

VARIABLES files,        \* what the directory has: [locals, vdoms]
          meok,
          pc,           \* where qmail-send is
          flagreadasap,
          newlocals, newvdoms,
          map,          \* maplocals and mapvdoms
          unread,       \* for the properties: files changed since the last HUP,
          refused,      \* a reread that failed since then,
          got,          \* and the contents that a reread has taken together
          edits, hups, errors

daemon == <<meok, pc, flagreadasap, newlocals, newvdoms, map>>
vars == <<files, daemon, unread, refused, got, edits, hups, errors>>

Names == {"locals", "vdoms"}

Init ==
    /\ files \in [Names -> 0 .. 1] /\ meok \in BOOLEAN
    /\ pc = "start" /\ flagreadasap = FALSE
    /\ newlocals = 0 /\ newvdoms = 0 /\ map = [n \in Names |-> 0]
    /\ unread = FALSE /\ refused = FALSE /\ got = <<0, 0>>
    /\ edits = 0 /\ hups = 0 /\ errors = 0

Error == errors < MaxErrors /\ errors' = errors + 1

\* control_readfile() of a file that can be read: its version, and whether the
\* caller goes on.
Locals == IF files["locals"] = 0 /\ meok THEN Me ELSE files["locals"]

\* Without control/locals and control/me qmail-send does not start.
Getcontrols ==
    /\ pc = "start"
    /\ IF Locals = 0
       THEN pc' = "refused" /\ UNCHANGED <<map, got>>
       ELSE /\ map' = [locals |-> Locals, vdoms |-> files["vdoms"]]
            /\ got' = <<Locals, files["vdoms"]>>
            /\ pc' = "loop"
    /\ unread' = FALSE
    /\ UNCHANGED <<files, meok, flagreadasap, newlocals, newvdoms, refused, edits, hups, errors>>

GetcontrolsFails ==
    /\ pc = "start" /\ Error /\ pc' = "refused"
    /\ UNCHANGED <<files, meok, flagreadasap, newlocals, newvdoms, map, unread, refused, got,
                   edits, hups>>

-----------------------------------------------------------------------------
\* The flag is reset before the files are read.
Reread ==
    /\ pc = "loop" /\ flagreadasap /\ flagreadasap' = FALSE
    /\ pc' = "locals"
    /\ UNCHANGED <<files, meok, newlocals, newvdoms, map, unread, refused, got, edits, hups, errors>>

RereadFails ==
    /\ pc = "loop" /\ flagreadasap /\ flagreadasap' = FALSE
    /\ Error /\ refused' = TRUE
    /\ UNCHANGED <<files, meok, pc, newlocals, newvdoms, map, unread, got, edits, hups>>

ReadLocals ==
    /\ pc = "locals" /\ newlocals' = Locals
    /\ IF Locals = 0 THEN pc' = "chdir" /\ refused' = TRUE
       ELSE pc' = "vdoms" /\ UNCHANGED refused
    /\ UNCHANGED <<files, meok, flagreadasap, newvdoms, map, unread, got, edits, hups, errors>>

ReadVdoms ==
    /\ pc = "vdoms" /\ newvdoms' = files["vdoms"] /\ pc' = "replace"
    /\ UNCHANGED <<files, meok, flagreadasap, newlocals, map, unread, refused, got,
                   edits, hups, errors>>

ReadFails ==
    /\ pc \in {"locals", "vdoms"} /\ Error /\ pc' = "chdir" /\ refused' = TRUE
    /\ UNCHANGED <<files, meok, flagreadasap, newlocals, newvdoms, map, unread, got,
                   edits, hups>>

Replaced == [locals |-> newlocals, vdoms |-> newvdoms]

Replace ==
    /\ pc = "replace" /\ map' = Replaced /\ pc' = "chdir"
    /\ got' = <<newlocals, newvdoms>>
    /\ UNCHANGED <<files, meok, flagreadasap, newlocals, newvdoms, unread, refused,
                   edits, hups, errors>>

\* Back to the queue; a chdir() that fails is tried again.
Chdir ==
    /\ pc = "chdir" /\ pc' = "loop"
    /\ UNCHANGED <<files, meok, flagreadasap, newlocals, newvdoms, map, unread, refused, got,
                   edits, hups, errors>>

ChdirFails == pc = "chdir" /\ Error
              /\ UNCHANGED <<files, daemon, unread, refused, got, edits, hups>>

Stop ==
    /\ pc = "loop" /\ edits < MaxEdits /\ pc' = "start" /\ flagreadasap' = FALSE
    /\ edits' = edits + 1 /\ refused' = FALSE
    /\ UNCHANGED <<files, meok, newlocals, newvdoms, map, unread, got, hups, errors>>

-----------------------------------------------------------------------------
\* Another version of a file, or none.
Edit(n) ==
    /\ edits < MaxEdits /\ edits' = edits + 1 /\ unread' = TRUE
    /\ files' \in {[files EXCEPT ![n] = 0], [files EXCEPT ![n] = edits + 2]}
    /\ UNCHANGED <<daemon, refused, got, hups, errors>>

Hup ==
    /\ pc \notin {"start", "refused"} /\ hups < MaxHups /\ hups' = hups + 1
    /\ flagreadasap' = TRUE /\ unread' = FALSE /\ refused' = FALSE
    /\ UNCHANGED <<files, meok, pc, newlocals, newvdoms, map, got, edits, errors>>

Next ==
    \/ Getcontrols \/ GetcontrolsFails \/ Reread \/ RereadFails \/ ReadLocals \/ ReadVdoms
    \/ ReadFails \/ Replace \/ Chdir \/ ChdirFails \/ Stop \/ Hup
    \/ \E n \in Names : Edit(n)

Spec == Init /\ [][Next]_vars

-----------------------------------------------------------------------------
Pair(m) == <<m["locals"], m["vdoms"]>>

(* locals and virtualdomains are replaced together or not at all: whenever *)
(* a message is preprocessed, both come from the same (re)read, although   *)
(* either file may be gone or unreadable at any time.                      *)
Together == pc = "loop" => Pair(map) = got

(* No HUP is lost: with every edit followed by a HUP, however late or      *)
(* early in a reread it comes, qmail-send ends with what the files have,   *)
(* unless it has said that it could not read them.                         *)
Current ==
    pc = "loop" /\ ~flagreadasap /\ ~unread /\ ~refused => Pair(map) = <<Locals, files["vdoms"]>>
=============================================================================
