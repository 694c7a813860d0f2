------------------------------- MODULE SsnNet -------------------------------
(***************************************************************************)
(* The deterministic net for SSN-shaped values (redaction/anchor.py,       *)
(* ssn_safety_net) over the words of a page.  A character is a digit or a  *)
(* mask ("c"), a hyphen ("-") or an en dash ("dash"); whether a word has a *)
(* digit is kept apart.                                                    *)
(***************************************************************************)
EXTENDS Naturals, Sequences, SequencesExt

CONSTANTS
  MaxNetWords, \* bound: words of a page
  Cuts         \* bound: after how many characters of an identifier a word may end

ASSUME NetAssumption == MaxNetWords \in Nat /\ Cuts \subseteq 0 .. 11

\* _SSN_SHAPE: three, two and four, with a hyphen or an en dash between them.
Separator == {"-", "dash"}

Shape == {<<"c", "c", "c", s, "c", "c", t, "c", "c", "c", "c">> : s \in Separator, t \in Separator}

\* The words are pieces of an identifier; "other" is any other word.
Piece == {SubSeq(s, p[1] + 1, p[2]) : s \in Shape, p \in {q \in Cuts \X Cuts : q[1] < q[2]}}

Word ==
  {w \in [text : Piece, digit : BOOLEAN] : w.digit => Contains(w.text, "c")}
    \cup {[text |-> <<"other">>, digit |-> FALSE]}

VARIABLES
  pieces,  \* the words of the page, without the punctuation around them
  looking, \* the word looked at
  used,    \* the tail of a pair found before
  boxed    \* words that have a detection

netVars == <<pieces, looking, used, boxed>>

NetTypeOK ==
  /\ pieces \in Seq(Word)
  /\ looking \in 1 .. Len(pieces) + 1
  /\ used \subseteq DOMAIN pieces /\ boxed \subseteq DOMAIN pieces

NetInit ==
  /\ pieces \in BoundedSeq(Word, MaxNetWords)
  /\ looking = 1 /\ used = {} /\ boxed = {}

\* The words from the first to the last, joined, are an identifier with at
\* least one digit left.
Identifier(first, last) ==
  /\ FlattenSeq([k \in 1 .. last - first + 1 |-> pieces[first + k - 1].text]) \in Shape
  /\ \E k \in first .. last : pieces[k].digit

\* Mutant: only the word before the cut is looked at for the hyphen.
CutAtHyphenBefore(i) == Last(pieces[i].text) = "-"

\* A word is joined to the next where one of them has a hyphen; an en dash,
\* which the shape allows as well, is not looked for.
CutAtHyphen(i) == Last(pieces[i].text) = "-" \/ Head(pieces[i + 1].text) = "-"

Pair(i) == i < Len(pieces) /\ CutAtHyphen(i) /\ Identifier(i, i + 1)

LookAtWord ==
  /\ looking <= Len(pieces) /\ looking' = looking + 1
  /\ LET whole == Identifier(looking, looking) IN
       IF looking \in used \/ whole
         THEN /\ boxed' = IF looking \in used THEN boxed ELSE boxed \cup {looking}
              /\ UNCHANGED used
         ELSE /\ boxed' = IF Pair(looking) THEN boxed \cup {looking, looking + 1} ELSE boxed
              /\ used' = IF Pair(looking) THEN used \cup {looking + 1} ELSE used
  /\ UNCHANGED pieces

NetSpec == NetInit /\ [][LookAtWord]_netVars

-----------------------------------------------------------------------------

AllLookedAt == looking > Len(pieces)

\* An identifier in two words, cut between two of its groups of digits, just
\* before or just after the hyphen between them.
CutInTwo(i) ==
  /\ i < Len(pieces) /\ Identifier(i, i + 1)
  /\ \E gap \in {4, 7} :
       /\ Len(pieces[i].text) \in {gap - 1, gap}
       /\ (pieces[i].text \o pieces[i + 1].text)[gap] = "-"

\* An identifier in one word, or cut in two between its groups at a hyphen, is
\* boxed whole, whatever stands next to it.  One cut at an en dash is not.
NetCatches ==
  AllLookedAt => \A i \in DOMAIN pieces :
    /\ Identifier(i, i) => i \in boxed
    /\ CutInTwo(i) => {i, i + 1} \subseteq boxed

\* Nothing else is boxed: not an identifier cut among the digits of a group,
\* nor one cut at an en dash.
NetSpares ==
  \A i \in boxed :
    \/ Identifier(i, i) \/ CutInTwo(i)
    \/ i > 1 /\ CutInTwo(i - 1)

\* ssn_safety_net boxes the identifiers it is meant for, and nothing else.
NetSafe == NetTypeOK /\ NetCatches /\ NetSpares

=============================================================================
