---------------------------- MODULE PageAnchors -----------------------------
(***************************************************************************)
(* A string the model named is anchored to the words of a page             *)
(* (redaction/anchor.py, anchor_value): exactly, else by its fragments,    *)
(* else where the words are most alike.  Words and values are sequences of *)
(* the letters that normalization leaves; a word of punctuation is empty.  *)
(* The lengths in the code are constants here, so that they can be scaled. *)
(***************************************************************************)
EXTENDS PixelMath, FiniteSets, Sequences, SequencesExt, FiniteSetsExt

CONSTANTS
  Letter,      \* the letters and digits a page uses
  MaxWords,    \* bound: words of a page
  MaxWord,     \* bound: letters of a word
  MaxValue,    \* bound: letters of a value
  Window,      \* _MAX_WINDOW
  WordPrefix,  \* a word may go on after a value as long as this (4)
  JoinPrefix,  \* so may words put together (8)
  MinFragment, \* a fragment is as long as this (5)
  WordLength,  \* letters a word is taken to have (5)
  Threshold    \* _FUZZY_THRESHOLD, in percent

ASSUME AnchorAssumption ==
  /\ {MaxWords, MaxWord, MaxValue, MinFragment, Threshold} \subseteq Nat
  /\ {Window, WordPrefix, JoinPrefix, WordLength} \subseteq Nat \ {0}

VARIABLES
  words,  \* the words of the page
  value,  \* the fragments of the value
  long,   \* those whose text, punctuation included, is MinFragment long
  trying, \* what is tried: "exact", "fragments", "fuzzy" or "done"
  index,  \* the word the exact scan is at, or the fragment
  found   \* the words boxed

anchorVars == <<words, value, long, trying, index, found>>

Text(max) == BoundedSeq(Letter, max)

\* Fragments are not told apart in the value as a whole.
Target == FlattenSeq(value)

AnchorTypeOK ==
  /\ \A i \in DOMAIN words : words[i] \in Seq(Letter)
  /\ \A i \in DOMAIN value : value[i] \in Seq(Letter)
  /\ long \subseteq DOMAIN value
  /\ trying \in {"exact", "fragments", "fuzzy", "done"}
  /\ index \in 1 .. Len(words) + Len(value) + 1
  /\ found \subseteq DOMAIN words

\* Values shorter than two letters are not anchored.
Values == {v \in BoundedSeq(Text(MaxValue), 2) : Len(FlattenSeq(v)) \in 2 .. MaxValue}

\* A text of enough letters is long, one without letters is tried at its worst.
AnchorInit ==
  /\ words \in BoundedSeq(Text(MaxWord), MaxWords)
  /\ value \in Values /\ long \in SUBSET DOMAIN value
  /\ \A i \in DOMAIN value : Len(value[i]) >= MinFragment \/ value[i] = <<>> => i \in long
  /\ trying = "exact" /\ index = 1 /\ found = {}

-----------------------------------------------------------------------------

Joined(i, j) == FlattenSeq(SubSeq(words, i, j))

\* Words that can be put together: none is empty, no more than the window.
Run(i, j, window) ==
  /\ i <= j /\ j <= Len(words) /\ j < i + window
  /\ \A k \in i .. j : words[k] # <<>>

\* The text is the target, or goes on after a target that is long enough.
Completes(text, target, least) ==
  text = target \/ (Len(target) >= least /\ IsPrefix(target, text))

\* Mutant: a run stops one word before the window.
ExactRunShort(i, j, target) ==
  /\ Run(i, j, Window - 1)
  /\ Completes(Joined(i, j), target, IF i = j THEN WordPrefix ELSE JoinPrefix)
  /\ \A k \in i .. j - 1 : IsStrictPrefix(Joined(i, k), target)

\* From word i on, the words up to j are the first that complete the target.
ExactRun(i, j, target) ==
  /\ Run(i, j, Window)
  /\ Completes(Joined(i, j), target, IF i = j THEN WordPrefix ELSE JoinPrefix)
  /\ \A k \in i .. j - 1 : IsStrictPrefix(Joined(i, k), target)

\* What the exact scan boxes at word i, and on the whole page.
ExactFrom(i, target) ==
  UNION {i .. j : j \in {k \in DOMAIN words : ExactRun(i, k, target)}}

Exact(target) == UNION {ExactFrom(i, target) : i \in DOMAIN words}

\* The longest common subsequence, for the ratio of rapidfuzz.
Common(a, b) ==
  LET lcs[m \in 0 .. Len(a), n \in 0 .. Len(b)] ==
        IF m = 0 \/ n = 0 THEN 0
        ELSE IF a[m] = b[n] THEN lcs[m - 1, n - 1] + 1
        ELSE Max({lcs[m - 1, n], lcs[m, n - 1]})
  IN lcs[Len(a), Len(b)]

Ratio(a, b) == (200 * Common(a, b)) \div (Len(a) + Len(b))

\* Runs of no more words than the target is taken to have, and two.
FuzzyWindow(target) == Max({1, Min({Window, Rounded(Len(target), WordLength)})}) + 2

Alike(target) ==
  {p \in (1 .. Len(words)) \X (1 .. Len(words)) :
     /\ Run(p[1], p[2], FuzzyWindow(target))
     /\ Ratio(Joined(p[1], p[2]), target) >= Threshold}

\* Ratios are compared as the fractions they are.
Closer(a, b, target) ==
  Common(a, target) * (Len(b) + Len(target)) > Common(b, target) * (Len(a) + Len(target))

\* The first of the runs most alike.
Best(target) ==
  CHOOSE p \in Alike(target) : \A q \in Alike(target) :
    LET a == Joined(p[1], p[2]) b == Joined(q[1], q[2]) IN
      \/ Closer(a, b, target)
      \/ /\ ~ Closer(b, a, target)
         /\ p[1] < q[1] \/ (p[1] = q[1] /\ p[2] <= q[2])

Fuzzy(target) == IF Alike(target) = {} THEN {} ELSE Best(target)[1] .. Best(target)[2]

Anchored(target) == IF Exact(target) # {} THEN Exact(target) ELSE Fuzzy(target)

\* A fragment of few letters and much punctuation is kept too.
KeptFragments == LET kept == SetToSortSeq(long, <) IN [n \in DOMAIN kept |-> value[kept[n]]]

-----------------------------------------------------------------------------

ExactStep ==
  /\ trying = "exact" /\ index <= Len(words)
  /\ found' = found \cup ExactFrom(index, Target)
  /\ index' = index + 1
  /\ UNCHANGED <<words, value, long, trying>>

AfterExact ==
  IF found # {} THEN "done" ELSE IF Len(KeptFragments) > 1 THEN "fragments" ELSE "fuzzy"

ExactEnds ==
  /\ trying = "exact" /\ index > Len(words)
  /\ trying' = AfterExact /\ index' = 1
  /\ UNCHANGED <<words, value, long, found>>

FragmentStep ==
  /\ trying = "fragments" /\ index <= Len(KeptFragments)
  /\ found' = found \cup (IF Len(KeptFragments[index]) < 2 THEN {} ELSE Anchored(KeptFragments[index]))
  /\ index' = index + 1
  /\ UNCHANGED <<words, value, long, trying>>

FragmentsEnd ==
  /\ trying = "fragments" /\ index > Len(KeptFragments)
  /\ trying' = IF found # {} THEN "done" ELSE "fuzzy"
  /\ index' = 1
  /\ UNCHANGED <<words, value, long, found>>

FuzzyStep ==
  /\ trying = "fuzzy" /\ trying' = "done"
  /\ found' = Fuzzy(Target)
  /\ UNCHANGED <<words, value, long, index>>

AnchorNext == ExactStep \/ ExactEnds \/ FragmentStep \/ FragmentsEnd \/ FuzzyStep

AnchorSpec == AnchorInit /\ [][AnchorNext]_anchorVars

-----------------------------------------------------------------------------

\* The words from i to j spell the target, with nothing but punctuation
\* between them.
Spells(i, j, target) ==
  /\ i <= j /\ words[i] # <<>> /\ words[j] # <<>>
  /\ Joined(i, j) = target

\* A value printed in words the window holds is boxed wherever it is printed;
\* and where it is not, so are its fragments.
ExactRunsBoxed ==
  trying = "done" =>
    /\ \A i, j \in DOMAIN words :
         Spells(i, j, Target) /\ Run(i, j, Window) => i .. j \subseteq found
    /\ Len(KeptFragments) > 1 /\ Exact(Target) = {} =>
         \A n \in DOMAIN KeptFragments, i, j \in DOMAIN words :
           Len(KeptFragments[n]) >= 2 /\ Spells(i, j, KeptFragments[n]) /\ Run(i, j, Window)
             => i .. j \subseteq found

\* No word is boxed unless it stands in a run that has the value or a fragment
\* of it at its beginning, or is as much like it as the threshold asks.
NothingElseBoxed ==
  \A w \in found : \E i, j \in DOMAIN words, t \in {Target} \cup ToSet(value) :
    /\ w \in i .. j /\ Run(i, j, Max({Window, FuzzyWindow(t)}))
    /\ \/ Joined(i, j) = t
       \/ IsPrefix(t, Joined(i, j)) /\ Len(t) >= (IF i = j THEN WordPrefix ELSE JoinPrefix)
       \/ Ratio(Joined(i, j), t) >= Threshold

\* anchor_value boxes every run that spells the value, and nothing unlike it.
AnchorSafe == AnchorTypeOK /\ ExactRunsBoxed /\ NothingElseBoxed

=============================================================================
