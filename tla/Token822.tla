------------------------------- MODULE Token822 -------------------------------
(***************************************************************************)
(* token822_parse(): a header field becomes tokens, in two passes over the *)
(* same characters, the first one to check and to count, the second one to *)
(* fill what was allocated; and token822_unparse() without its folding,    *)
(* whose text is parsed again.                                             *)
(***************************************************************************)
EXTENDS Integers, Sequences, SequencesExt

CONSTANT Inputs         \* sequences of characters

VARIABLES s, i,
          pass,         \* 1, 2; 0 when it has returned
          type, level,  \* the token that the scan is in, "none" between tokens
          numtoks, numchars,
          cur, ta,      \* the token's characters so far; the tokens
          ok,           \* what it returned
          first         \* the tokens that s is the text of, or None

scan == <<i, pass, type, level, numtoks, numchars, cur, ta, ok>>
vars == <<s, scan, first>>

None == <<[type |-> "none", s |-> <<>>]>>

Blanks == {" ", "\t", "\r", "\n"}
Single == {".", ",", "@", "<", ">", ":", ";"}
Opens == [c \in {"(", "\"", "["} |-> CASE c = "(" -> "comment" [] c = "[" -> "literal"
                                       [] OTHER -> "quote"]
Closes(t) == CASE t = "comment" -> ")" [] t = "quote" -> "\"" [] t = "literal" -> "]"
               [] OTHER -> ""

atomok(c) == c \notin Blanks \cup Single \cup DOMAIN Opens

\* "e" is a control character or one that is not ASCII.
atomcheck(t) == IF \E k \in DOMAIN t : t[k] \in {"e", "\r", "\n", ")", "]", "\\"}
                THEN "quote" ELSE "atom"

Init ==
    /\ s \in Inputs /\ i = 1 /\ pass = 1 /\ type = "none" /\ level = 0
    /\ numtoks = 0 /\ numchars = 0 /\ cur = <<>> /\ ta = <<>> /\ ok = FALSE /\ first = None

More == pass # 0 /\ i <= Len(s)

Return(r) == pass' = 0 /\ ok' = r

\* A token of the type t is complete, with the text x.
Tok(t, x) ==
    IF pass = 1 THEN numtoks' = numtoks + 1 /\ UNCHANGED ta
    ELSE ta' = Append(ta, [type |-> t, s |-> x]) /\ UNCHANGED numtoks

\* One more character of the token.
Char(c) ==
    IF pass = 1 THEN numchars' = numchars + 1 /\ UNCHANGED cur
    ELSE cur' = Append(cur, c) /\ UNCHANGED numchars

Special ==
    /\ More /\ type = "none" /\ s[i] \in Single
    /\ Tok(s[i], <<>>) /\ i' = i + 1
    /\ UNCHANGED <<s, pass, type, level, numchars, cur, ok, first>>

Blank ==
    /\ More /\ type = "none" /\ s[i] \in Blanks /\ i' = i + 1
    /\ UNCHANGED <<s, pass, type, level, numtoks, numchars, cur, ta, ok, first>>

\* Only the first pass looks.
Unopened ==
    /\ More /\ type = "none" /\ s[i] \in {")", "]"} /\ pass = 1
    /\ Return(FALSE)
    /\ UNCHANGED <<s, i, type, level, numtoks, numchars, cur, ta, first>>

Open ==
    /\ More /\ type = "none" /\ s[i] \in DOMAIN Opens
    /\ type' = Opens[s[i]] /\ level' = 1 /\ i' = i + 1 /\ cur' = <<>>
    /\ UNCHANGED <<s, pass, numtoks, numchars, ta, ok, first>>

\* The end comes before the closing character, or behind a backslash.
Beyond ==
    /\ type \in {"comment", "quote", "literal"}
    /\ i > Len(s) \/ (i = Len(s) /\ s[i] = "\\")

Unclosed ==
    /\ pass = 1 /\ Beyond /\ Return(FALSE)
    /\ UNCHANGED <<s, i, type, level, numtoks, numchars, cur, ta, first>>

Inside ==
    /\ More /\ type \in {"comment", "quote", "literal"}
    /\ IF s[i] = Closes(type)
       THEN /\ level' = level - 1 /\ i' = i + 1 /\ UNCHANGED <<numchars, cur>>
            /\ IF level = 1 THEN Tok(type, cur) /\ type' = "none"
               ELSE UNCHANGED <<numtoks, ta, type>>
       ELSE IF s[i] = "(" /\ type = "comment"
       THEN level' = level + 1 /\ i' = i + 1 /\ UNCHANGED <<type, numtoks, numchars, cur, ta>>
       ELSE /\ s[i] = "\\" => i < Len(s)
            /\ LET k == IF s[i] = "\\" THEN i + 1 ELSE i IN Char(s[k]) /\ i' = k + 1
            /\ UNCHANGED <<type, level, numtoks, ta>>
    /\ UNCHANGED <<s, pass, ok, first>>

\* The default: no change of i.
Atom ==
    /\ More /\ type = "none" /\ s[i] \notin Single \cup Blanks \cup DOMAIN Opens
    /\ s[i] \in {")", "]"} => pass = 2
    /\ type' = "atom" /\ cur' = <<>>
    /\ UNCHANGED <<s, i, pass, level, numtoks, numchars, ta, ok, first>>

InAtom ==
    /\ More /\ type = "atom" /\ ~(s[i] = "\\" /\ i = Len(s))
    /\ LET k == IF s[i] = "\\" THEN i + 1 ELSE i IN
       /\ Char(s[k]) /\ i' = k + 1
       /\ IF k < Len(s) /\ atomok(s[k + 1]) THEN UNCHANGED <<type, numtoks, ta>>
          ELSE Tok(atomcheck(cur'), cur') /\ type' = "none"
    /\ UNCHANGED <<s, pass, level, ok, first>>

\* A backslash at the very end is the end of the atom.
AtomEnds ==
    /\ More /\ type = "atom" /\ s[i] = "\\" /\ i = Len(s)
    /\ i' = i + 1 /\ Tok(atomcheck(cur), cur) /\ type' = "none"
    /\ UNCHANGED <<s, pass, level, numchars, cur, ok, first>>

Counted ==
    /\ pass = 1 /\ i > Len(s) /\ type = "none"
    /\ pass' = 2 /\ i' = 1
    /\ UNCHANGED <<s, type, level, numtoks, numchars, cur, ta, ok, first>>

Filled ==
    /\ pass = 2 /\ i > Len(s) /\ type = "none" /\ Return(TRUE)
    /\ UNCHANGED <<s, i, type, level, numtoks, numchars, cur, ta, first>>

-----------------------------------------------------------------------------
Words == {"atom", "quote", "literal", "comment"}

\* Between a token of type t and one of type u.
needspace(t, u) ==
    \/ t \in {":", ","} \/ (t # "none" /\ u = "<")
    \/ t \in Words /\ u \in Words

Escaped(t) == FlattenSeq([k \in DOMAIN t |->
    IF t[k] \in {"\"", "[", "]", "(", ")", "\\", "\r", "\n"} THEN <<"\\", t[k]>> ELSE <<t[k]>>])

Word(t) == CASE t.type = "atom" -> Escaped(t.s)
             [] t.type = "quote" -> <<"\"">> \o Escaped(t.s) \o <<"\"">>
             [] t.type = "literal" -> <<"[">> \o Escaped(t.s) \o <<"]">>
             [] OTHER -> <<"(">> \o Escaped(t.s) \o <<")">>

Unparse(t) == FlattenSeq([k \in DOMAIN t |->
    (IF k > 1 /\ needspace(t[k - 1].type, t[k].type) THEN <<" ">> ELSE <<>>)
    \o (IF t[k].type \in Words THEN Word(t[k]) ELSE <<t[k].type>>)])

\* A field that has been rewritten is read again.
Again ==
    /\ pass = 0 /\ ok /\ first = None
    /\ s' = Unparse(ta) /\ first' = ta
    /\ i' = 1 /\ pass' = 1 /\ numtoks' = 0 /\ numchars' = 0 /\ cur' = <<>> /\ ta' = <<>>
    /\ ok' = FALSE /\ UNCHANGED <<type, level>>

Next ==
    \/ Special \/ Blank \/ Unopened \/ Open \/ Unclosed \/ Inside \/ Atom \/ InAtom \/ AtomEnds
    \/ Counted \/ Filled \/ Again

Spec == Init /\ [][Next]_vars

-----------------------------------------------------------------------------
(* What the first pass counts is what the second one fills, to the token   *)
(* and to the character: neither array is overrun, and the assertions of   *)
(* the second pass, that it does not come to the end, hold.                *)
PassesAgree ==
    LET chars == Len(FlattenSeq([k \in DOMAIN ta |-> ta[k].s]))
                 + IF type = "none" THEN 0 ELSE Len(cur) IN
    /\ pass = 2 => Len(ta) <= numtoks /\ chars <= numchars /\ ~Beyond
    /\ pass = 0 /\ ok => Len(ta) = numtoks /\ chars = numchars

\* An atom that a backslash made: one at the end of the field, or one before a
\* special character.
Disguised(t) ==
    t.type = "atom" /\ (t.s = <<>> \/ \E k \in DOMAIN t.s : t.s[k] \in Single \cup Blanks)

(* A field that qmail-inject has rewritten means what it meant: its text   *)
(* can be parsed again, and into the same tokens, whatever quotes,         *)
(* brackets, nested comments and backslashes are in it; but not an atom    *)
(* that is empty, or has a special character, by a backslash.              *)
Stable ==
    pass = 0 /\ first # None =>
        ok /\ ((\A k \in DOMAIN first : ~Disguised(first[k])) => ta = first)
=============================================================================
