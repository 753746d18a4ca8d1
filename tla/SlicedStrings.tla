---------------------------- MODULE SlicedStrings ----------------------------
(***************************************************************************)
(* The string functions of the command line (src/str_utils.c and           *)
(* src/SlicedStrings.c) as operators on sequences of characters; what they *)
(* allocate is in CommandLine.                                             *)
(***************************************************************************)
EXTENDS Integers, Sequences, SequencesExt

CONSTANTS
    SEP,       \* the separator, a space
    NL,        \* the newline
    MaxLine,   \* max_strlen: characters ntrb_getsn reads at most
    SliceMax   \* ntrb_slice_string_max_len

ASSUME SlicedStringsAssumption ==
    SEP # NL /\ MaxLine \in Nat \ {0} /\ SliceMax \in Nat \ {0}

IsNL(c)     == c = NL
IsOfWord(c) == c # SEP

\* A mutation of PieceLen: the line is read to its end, however long.
PieceLen_unbounded(stream) ==
    LET end == SelectInSeq(stream, IsNL) IN IF end # 0 THEN end ELSE Len(stream)

\* A mutation of PieceLen: fgets is given max_strlen, and reads one less.
PieceLen_short(stream) ==
    LET end == SelectInSeq(stream, IsNL)
    IN  IF end \in 1 .. MaxLine - 1 THEN end
        ELSE IF Len(stream) < MaxLine - 1 THEN Len(stream) ELSE MaxLine - 1

\* fgets: characters up to the first newline, itself included, and MaxLine at most.
PieceLen(stream) ==
    LET end == SelectInSeq(stream, IsNL)
    IN  IF end \in 1 .. MaxLine THEN end
        ELSE IF Len(stream) < MaxLine THEN Len(stream) ELSE MaxLine

\* What ntrb_getsn makes of the piece it read: the newline is cut off.
Chomped(piece) == IF Last(piece) = NL THEN Front(piece) ELSE piece

TrimWhitespace(s) ==
    IF \A i \in 1 .. Len(s) : s[i] = SEP THEN <<>>
    ELSE SubSeq(s, SelectInSeq(s, IsOfWord), SelectLastInSeq(s, IsOfWord))

\* A mutation of TrimDuplicates: it compares with the character before, not
\* with the separator.
TrimDuplicates_any(s) ==
    LET Keep(kept, c) == IF kept # <<>> /\ Last(kept) = c THEN kept ELSE Append(kept, c)
    IN  FoldLeft(Keep, <<>>, s)

TrimDuplicates(s) ==
    LET Keep(kept, c) ==
          IF c = SEP /\ kept # <<>> /\ Last(kept) = SEP THEN kept ELSE Append(kept, c)
    IN  FoldLeft(Keep, <<>>, s)

StringCount(s) == 1 + Cardinality({i \in DOMAIN s : s[i] = SEP})

\* The loop of ntrb_SlicedStrings_slice_without_trimming over strings of SliceMax
\* characters: a separator, or a character that does not fit, starts the next.
\* Strings beyond StringCount are not allocated.
Slicing(s) ==
    LET Put(r, c) == IF c # SEP /\ Len(r.strs[r.pos]) < SliceMax
                     THEN [r EXCEPT !.strs[r.pos] = Append(@, c)]
                     ELSE [r EXCEPT !.pos = @ + 1]
    IN  FoldLeft(Put, [pos |-> 1, strs |-> [i \in 1 .. Len(s) + 1 |-> <<>>]], s).strs

Slices(s) == LET strs == Slicing(s) IN [i \in 1 .. StringCount(s) |-> strs[i]]

\* Nothing is written to a string that is not there.
SliceFits(s) ==
    LET strs == Slicing(s)
    IN  \A i \in StringCount(s) + 1 .. Len(s) + 1 : strs[i] = <<>>

\* The strings from index beg to end - 1, counted from 0, with SEP in between.
ConcatStrs(strs, beg, end) ==
    FlattenSeq([i \in 1 .. end - beg |->
                  IF i < end - beg THEN Append(strs[beg + i], SEP) ELSE strs[beg + i]])

-----------------------------------------------------------------------------
(* The reference: the words of a line                                      *)

Begins(s, i) == s[i] # SEP /\ (i = 1 \/ s[i - 1] = SEP)

\* The number of the word that a place is in: as many words begin up to there.
WordNumber(s, i) == Cardinality({j \in 1 .. i : Begins(s, j)})

PlacesOf(s, n) == {i \in 1 .. Len(s) : s[i] # SEP /\ WordNumber(s, i) = n}

Words(s) ==
    [n \in 1 .. WordNumber(s, Len(s)) |-> SubSeq(s, Min(PlacesOf(s, n)), Max(PlacesOf(s, n)))]
=============================================================================
