--------------------------- MODULE MCChunkStream ---------------------------
(* Instances of ChunkStream for TLC.                                       *)
EXTENDS ChunkStream, TLC

\* With five frames to a chunk and a standard rate of 30, a chunk is this many
\* frames of the file: 2, 2.5, 3, 4, 4.5 (as at 44.1 kHz), 5 (48 kHz), and 10.
SomeRates == {11, 12, 13, 15, 18, 20, 24, 27, 30, 60}

\* The floats that are this far apart are far beyond the end of a file.
SomeSpacings == {2 ^ k : k \in 0 .. 16}

SomeLengths == {1, 2, 9, 10, 11, 14, 23, 70}

OneRate   == {27}
OneLength == {14}

\* The rates are such that the proof that a chunk fits applies to them.
ASSUME SomeRatesRoundWell == RoundsWell

\* Of 11 five sixths of a frame are left; that a file ends well at that rate, too, is
\* only checked.
ASSUME SomeRatesPlaceWell == \A rate \in SomeRates \ {11} : PlacesWell(rate)

Symmetry == Permutations(Block)
=============================================================================
