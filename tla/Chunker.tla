------------------------------- MODULE Chunker -------------------------------
(***************************************************************************)
(* The sentence chunker of the reply path (pkg/agent/chunker.go): streamed *)
(* text goes in, phrases for the speech service come out.  Text is a       *)
(* sequence of characters; Terminators, Closing and Blank are the classes  *)
(* the code tells apart, Letters those that make up a word.  The softer    *)
(* lower limit, minChars, is zero in the only constructor.                 *)
(***************************************************************************)
EXTENDS Integers, Sequences, SequencesExt, FiniteSets

CONSTANTS
  Letters,        \* unicode.IsLetter
  Abbreviations,  \* sentenceAbbreviations: words, as sequences
  MaxChunkChars   \* maxChars

Terminators == {".", "!", "?"}
Closing == {"]"}
Blank == " "

\* A blank is not a letter.
ASSUME ChunkerConstants ==
  /\ Blank \notin Letters
  /\ \A w \in Abbreviations : w \in Seq(Letters \cup {"."})
  /\ MaxChunkChars \in Nat

\* The first position from k on that is not in class, possibly past the end.
EndOfRun(r, k, class) ==
  CHOOSE m \in k .. Len(r) + 1 :
    /\ m = Len(r) + 1 \/ r[m] \notin class
    /\ \A l \in k .. m - 1 : r[l] \in class

\* The least position from which on, backwards from k, everything is in class.
StartOfRun(r, k, class) ==
  CHOOSE m \in 1 .. k + 1 :
    /\ m = 1 \/ r[m - 1] \notin class
    /\ \A l \in m .. k : r[l] \in class

TrimLeft(r, class) == SubSeq(r, EndOfRun(r, 1, class), Len(r))
TrimRight(r, class) == SubSeq(r, 1, StartOfRun(r, Len(r), class) - 1)
Trim(r, class) == TrimRight(TrimLeft(r, class), class)
TrimSpace(r) == Trim(r, {Blank})

\* Two periods or more.
IsEllipsis(r, start, end) ==
  end - start >= 2 /\ \A k \in start .. end - 1 : r[k] = "."

\* The word before a period: an initial, or one that is listed.
IsAbbreviation(r, dot) ==
  LET from == StartOfRun(r, dot - 1, Letters \cup {"."})
      word == Trim(SubSeq(r, from, dot - 1), {"."})
  IN Len(word) = 1 \/ word \in Abbreviations

\* Whether a sentence ends with the terminators at position i, and with the
\* closing characters after them.  A terminator at the edge counts only if
\* nothing more will come.
EndsSentence(r, force, i) ==
  LET j   == EndOfRun(r, i, Terminators)
      end == EndOfRun(r, j, Closing)
  IN /\ j > i
     /\ ~IsEllipsis(r, i, j)
     /\ IF end > Len(r) THEN force ELSE r[end] = Blank
     /\ ~(j - i = 1 /\ r[i] = "." /\ IsAbbreviation(r, i))

\* splitSentences' scan: where the sentences of r end.  What follows a
\* terminator at the edge, where the code leaves the loop, has none.
EndsFound(r, force) ==
  LET scan[i \in 1 .. Len(r) + 1] ==
        LET j   == EndOfRun(r, i, Terminators)
            end == EndOfRun(r, j, Closing)
        IN IF i > Len(r) THEN <<>>
           ELSE IF EndsSentence(r, force, i) THEN <<end - 1>> \o scan[end]
           ELSE scan[IF j > i THEN j ELSE i + 1]
  IN scan[1]

\* What lies between the ends, trimmed, and what comes after the last of them.
Pieces(r, ends) ==
  [i \in DOMAIN ends |->
     TrimSpace(SubSeq(r, IF i = 1 THEN 1 ELSE ends[i - 1] + 1, ends[i]))]

Remainder(r, ends) ==
  SubSeq(r, IF ends = <<>> THEN 1 ELSE ends[Len(ends)] + 1, Len(r))

SplitSentences(r, force) ==
  LET ends == EndsFound(r, force)
  IN [chunks |-> Pieces(r, ends), rest |-> Remainder(r, ends)]

\* Where splitAtMax cuts: before the last blank among the first
\* MaxChunkChars + 1 characters, or hard.
CutAt(r) ==
  LET blanks == {k \in 2 .. Len(r) : k <= MaxChunkChars + 1 /\ r[k] = Blank}
  IN IF blanks = {} THEN MaxChunkChars
     ELSE (CHOOSE k \in blanks : \A l \in blanks : l <= k) - 1

CanCut(r) ==
  /\ MaxChunkChars > 0
  /\ Len(r) >= MaxChunkChars
  /\ TrimSpace(SubSeq(r, 1, CutAt(r))) # <<>>

\* Where the loop around splitAtMax cuts.
CutsFound(r) ==
  LET scan[i \in 1 .. Len(r) + 1] ==
        LET s == SubSeq(r, i, Len(r))
        IN IF ~CanCut(s) THEN <<>>
           ELSE <<i + CutAt(s) - 1>>
                  \o scan[EndOfRun(r, i + CutAt(s), {Blank})]
  IN scan[1]

CutLong(chunks, r) ==
  LET cuts == CutsFound(r)
      rest == Remainder(r, cuts)
  IN [chunks |-> chunks \o Pieces(r, cuts),
      rest   |-> IF cuts = <<>> THEN r ELSE TrimLeft(rest, {Blank})]

\* Mutant: a terminator at the edge is taken for the end of a sentence.
PushForces(buf, delta) ==
  LET s == SplitSentences(buf \o delta, TRUE) IN CutLong(s.chunks, s.rest)

\* drain, as push and flush call it.
Push(buf, delta) ==
  LET s == SplitSentences(buf \o delta, FALSE) IN CutLong(s.chunks, s.rest)

Flush(buf) ==
  LET s == SplitSentences(buf, TRUE)
      t == TrimSpace(s.rest)
  IN IF t = <<>> THEN s ELSE [chunks |-> Append(s.chunks, t), rest |-> <<>>]
=============================================================================
