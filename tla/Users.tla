------------------------------- MODULE Users --------------------------------
(***************************************************************************)
(* Which user a local address belongs to.  qmail-newu turns users/assign   *)
(* into a cdb; nughde_get() of qmail-lspawn looks an address up in it, and *)
(* asks qmail-getpw when nothing is found.  qmail-pw2u writes users/assign *)
(* from the password file, in the place of qmail-getpw.  An address is a   *)
(* sequence of characters; Lower maps a character to its lower case.       *)
(***************************************************************************)
EXTENDS Cdb

CONSTANTS Chars,      \* byte values in addresses, "!" and NUL not among them
          UpperOf,    \* function from some of Chars to their lower case
          Alias,      \* auto_usera
          Userlen,    \* GETPW_USERLEN
          MaxLines,   \* lines in users/assign
          MaxLocal,   \* length of an address
          Names,      \* names of accounts, of one character at least
          Options,    \* configurations of qmail-pw2u
          MaxAccounts \* lines in the password file

Bang == 33
NUL == 0
Dash == 45    \* auto_break

Lower(s) == [i \in 1 .. Len(s) |->
               IF s[i] \in DOMAIN UpperOf THEN UpperOf[s[i]] ELSE s[i]]

Locals == UNION {[1 .. n -> Chars] : n \in 0 .. MaxLocal}

VARIABLES assign,  \* users/assign: lines with a kind, a local part and a user
          passwd,  \* the lines of the password file, one for each name
          opts,    \* options of qmail-pw2u, and its files in users/
          status   \* "hand": users/assign is written by hand; or how the
                   \* last qmail-pw2u ended, or "stale"

vars == <<assign, passwd, opts, status>>

Line == [wild : BOOLEAN, local : Locals]

-----------------------------------------------------------------------------
(* qmail-newu: the keys.  A line names its user; here its own number does. *)
(* Mutant of Key: the NUL after a simple address is forgotten.             *)
KeyUnended(line) == <<Bang>> \o Lower(line.local)

Key(line) == <<Bang>> \o Lower(line.local) \o (IF line.wild THEN <<>> ELSE <<NUL>>)

\* The last character of each wildcard, as it is written in the file.
Wildchars(lines) == {Last(l.local) : l \in {m \in ToSet(lines) :
                                              m.wild /\ m.local # <<>>}}

Record(recs, line) == Added(recs, Key(line), Len(recs) + 1)

\* main(): one record for each line, and at last the wildcard characters.
Newu(lines) ==
    Finish(Added(FoldLeft(Record, <<>>, lines), <<>>, Wildchars(lines)))

-----------------------------------------------------------------------------
(* qmail-lspawn: the whole address first, then ever shorter prefixes, but  *)
(* only those that end in a wildcard character, or are empty.              *)
NoUser == [user |-> 0, ext |-> <<>>]

Wildcard(file, lower, i) ==
    i = Len(lower) \/ i = 1 \/ lower[i] \in file.recs[Seek(file, <<>>)].data

Assigned(file, local, lower, i) ==
    [user |-> file.recs[Seek(file, SubSeq(lower, 1, i))].data,
     ext |-> IF i = Len(lower) THEN <<>> ELSE SubSeq(local, i, Len(local))]

Nughde(file, local) ==
    LET lower == <<Bang>> \o Lower(local) \o <<NUL>>
        found == {i \in 1 .. Len(lower) : /\ Wildcard(file, lower, i)
                                         /\ Seek(file, SubSeq(lower, 1, i)) # 0} IN
    IF found = {} THEN NoUser ELSE Assigned(file, local, lower, Max(found))

\* Who may control mail: not root, and the owner of the home directory.
Usable(accounts) ==
    {a.name : a \in {b \in accounts : b.uid # 0 /\ b.home = "own"}}

\* qmail-getpw, userext(): the longest prefix that ends at a dash, or the
\* whole address, and names an account with a home; else alias.
Userext(accounts, local) ==
    LET user(n) == Lower(SubSeq(local, 1, n))
        ends == {n \in 0 .. Len(local) :
                   /\ n < Userlen
                   /\ n = Len(local) \/ local[n + 1] = Dash
                   /\ user(n) \in Usable(accounts)} IN
    IF ends = {} THEN [user |-> Alias, dash |-> TRUE, ext |-> local]
    ELSE LET n == Max(ends) IN
         [user |-> user(n), dash |-> n < Len(local),
          ext |-> SubSeq(local, n + 2, Len(local))]

-----------------------------------------------------------------------------
(* qmail-pw2u.                                                             *)
Homes == {"own", "foreign", "missing"}

AddAccount ==
    /\ status # "hand" /\ Len(passwd) < MaxAccounts
    /\ \E n \in Names \ {passwd[k].name : k \in DOMAIN passwd},
          u \in 0 .. 1, h \in Homes :
         passwd' = Append(passwd, [name |-> n, uid |-> u, home |-> h])
    /\ status' = "stale"
    /\ UNCHANGED <<opts, assign>>

-----------------------------------------------------------------------------
\* doaccount(), first half: who is passed over, and where -h stops.
Unwanted(a) ==
    \/ a.uid = 0
    \/ opts.flagnoupper /\ Lower(a.name) # a.name
    \/ a.name \notin opts.incl
    \/ a.name \in opts.excl

Skipped(a) == Unwanted(a) \/ (opts.homestrategy > 0 /\ a.home # "own")

DieHome(a) == ~Unwanted(a) /\ opts.homestrategy = 1 /\ a.home = "missing"

Simple(l, u, d, p) == [wild |-> FALSE, local |-> l, user |-> u, dash |-> d, pre |-> p]
Wild(l, u, d, p)   == [wild |-> TRUE, local |-> l, user |-> u, dash |-> d, pre |-> p]

\* An address, and the same address with an extension.
Both(l, u, d, p) ==
    <<Simple(l, u, d, p),
      Wild(l \o <<Dash>>, u, TRUE, IF d THEN p \o <<Dash>> ELSE p)>>

\* doaccount(), second half; the catch-all is printed with the alias account.
Doaccount(a) ==
    IF Skipped(a) THEN <<>>
    ELSE (IF a.name = Alias THEN <<Wild(<<>>, Alias, TRUE, <<>>)>> ELSE <<>>)
         \o FlattenSeq([k \in DOMAIN opts.mailnames[a.name] |->
                          Both(opts.mailnames[a.name][k], a.name, FALSE, <<>>)])

Dosubuser(s) == Both(s.sub, s.user, TRUE, s.pre)

Allusers == {a.name : a \in {b \in ToSet(passwd) : ~Skipped(b)}}

DieUser == \E k \in DOMAIN opts.subusers : opts.subusers[k].user \notin Allusers

\* main() of qmail-pw2u, and the administrator's users/assign.
Pw2u ==
    /\ status # "hand"
    /\ IF \/ \E k \in DOMAIN passwd : DieHome(passwd[k])
          \/ Alias \notin Allusers \/ DieUser
       THEN status' = "died" /\ UNCHANGED assign
       ELSE /\ status' = "done"
            /\ assign' = FlattenSeq([k \in DOMAIN passwd |-> Doaccount(passwd[k])])
                      \o FlattenSeq([k \in DOMAIN opts.subusers |->
                                       Dosubuser(opts.subusers[k])])
                      \o opts.append
    /\ UNCHANGED <<passwd, opts>>

-----------------------------------------------------------------------------
ByHand == "none"

Init ==
    /\ assign = <<>> /\ passwd = <<>>
    /\ \/ status = "hand" /\ opts = ByHand
       \/ status = "stale" /\ opts \in Options

AddLine ==
    /\ status = "hand" /\ Len(assign) < MaxLines
    /\ \E line \in Line : assign' = Append(assign, line)
    /\ UNCHANGED <<passwd, opts, status>>

Next == AddLine \/ AddAccount \/ Pw2u

Spec == Init /\ [][Next]_vars

-----------------------------------------------------------------------------
(* qmail-users(5): the first simple assignment for the address, without    *)
(* regard to case; else the most specific wildcard and its extension.      *)
Applies(line, local) ==
    IF line.wild THEN IsPrefix(Lower(line.local), Lower(local))
                 ELSE Lower(line.local) = Lower(local)

Meaning(lines, local) ==
    LET numbers == {n \in 1 .. Len(lines) : Applies(lines[n], local)}
        simple == {n \in numbers : ~lines[n].wild}
        longest == {n \in numbers : \A m \in numbers :
                      Len(lines[m].local) <= Len(lines[n].local)} IN
    IF simple # {} THEN [user |-> Min(simple), ext |-> <<>>]
    ELSE IF numbers = {} THEN NoUser
    ELSE LET n == Min(longest) IN
         [user |-> n, ext |-> SubSeq(local, Len(lines[n].local) + 1, Len(local))]

LowerCase(lines) == \A l \in ToSet(lines) : Lower(l.local) = l.local

(* The keys with their NUL, the walk over the prefixes, the skipping by    *)
(* wildcard characters and the hash tables together mean what the manual   *)
(* says, for every file in lower case.                                     *)
LookupRight ==
    status = "hand" /\ LowerCase(assign) =>
        LET file == Newu(assign) IN
        \A local \in Locals : Nughde(file, local) = Meaning(assign, local)

\* What qmail-lspawn makes of an address, in the words of qmail-getpw.
Assignment(r) == [user |-> assign[r.user].user, dash |-> assign[r.user].dash,
            ext |-> assign[r.user].pre \o r.ext]

Controlled(r) == IF r = NoUser THEN r ELSE Assignment(r)

Controls(file, local) == Controlled(Nughde(file, local))

Default(o) == /\ o.homestrategy > 0 /\ o.flagnoupper
              /\ o.incl = Names /\ o.excl = {}
              /\ o.subusers = <<>> /\ o.append = <<>>
              /\ \A n \in Names : o.mailnames[n] = <<n>>

(* By default users/assign gives every address the very user, dash and     *)
(* extension that qmail-getpw gives it from the same password file         *)
(* (qmail-pw2u.9:65), where names are short enough for qmail-getpw.        *)
SameAsGetpw ==
    status = "done" /\ Default(opts) =>
        LET file == Newu(assign) IN
        \A local \in Locals :
            Controls(file, local) = Userext(ToSet(passwd), local)

Wanted == Usable(ToSet(passwd)) \cap (opts.incl \ opts.excl)

NamedBy(lower) == {n \in Allusers : lower \in ToSet(opts.mailnames[n])}

SubusersBy(lower) == {s \in ToSet(opts.subusers) : s.sub = lower}

ListedAs(r, named, subs) ==
    /\ r.user \in Wanted
    /\ named # {} => r.user \in named /\ ~r.dash /\ r.ext = <<>>
    /\ named = {} /\ subs # {} =>
         \E s \in subs : r.user = s.user /\ r.dash /\ r.ext = s.pre

(* Nobody gets mail by way of an account with uid 0, a home that is not    *)
(* theirs, or a name that users/include and users/exclude keep out,        *)
(* whatever mailnames and subusers say; and an address listed there goes   *)
(* to an account it is listed for (qmail-pw2u.9:117-165).                  *)
Listed ==
    status = "done" /\ opts.homestrategy > 0 /\ opts.append = <<>> =>
        LET file == Newu(assign) IN
        \A local \in Locals :
            ListedAs(Controls(file, local), NamedBy(Lower(local)), SubusersBy(Lower(local)))
=============================================================================
