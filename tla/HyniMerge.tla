------------------------------ MODULE HyniMerge ------------------------------
(***************************************************************************)
(* hyni::HyniMerge::mergeStrings (src/stream.wasm/hyni_merge.h): how the    *)
(* transcript of a window of audio is joined to the transcript so far.      *)
(*                                                                         *)
(* A text is the sequence of its words, which is what splitAndNormalize     *)
(* makes of it and what joining with blanks keeps; the punctuation of the   *)
(* part of A that is kept is lost.  The index by hash only speeds up the    *)
(* search: findBestMatch compares the words themselves.                     *)
(***************************************************************************)
EXTENDS Integers, Sequences

-----------------------------------------------------------------------------
\* The three words of base from b on are those of tail from i on.
SameTrigram(base, b, tail, i) == \A k \in 0 .. 2 : base[b + k] = tail[i + k]

\* Where the trigram of tail at i occurs in base.
Occurrences(base, tail, i) ==
  {b \in 1 .. Len(base) - 2 : SameTrigram(base, b, tail, i)}

\* The places of the tail whose trigram occurs in base.
Common(base, tail) == {i \in 1 .. Len(tail) - 2 : Occurrences(base, tail, i) # {}}

IsLeast(x, S) == x \in S /\ \A y \in S : x <= y

\* A faulty variant of findBestMatch, used by no specification: it counts the first
\* word of the match.
FaultyMatch(base, tail) ==
  IF Common(base, tail) = {} THEN -1
  ELSE CHOOSE b \in 1 .. Len(base) - 2 :
         \E i \in Common(base, tail) : b \in Occurrences(base, tail, i)

\* The first trigram of tail that base has, where base has it first; the number of
\* words of base before it, or -1.
findBestMatch(base, tail) ==
  IF Common(base, tail) = {} THEN -1
  ELSE LET i == CHOOSE x \in Common(base, tail) : IsLeast(x, Common(base, tail))
       IN  (CHOOSE b \in Occurrences(base, tail, i) :
              IsLeast(b, Occurrences(base, tail, i))) - 1

\* With a match, what base has from there on gives way to B, though B may begin
\* before the match.
mergeStrings(A, B) ==
  IF A = <<>> \/ B = <<>> THEN A \o B
  ELSE IF findBestMatch(A, B) < 0 THEN A \o B
  ELSE SubSeq(A, 1, findBestMatch(A, B)) \o B

=============================================================================
