--------------------------- MODULE MCAudioEngine ---------------------------
(* Instances of AudioEngine for TLC.                                       *)
EXTENDS AudioEngineInvariant, TLC

\* Two chunks, the second half full, of each kind; and one full chunk of FLAC.
WavFile   == [kind |-> "wav", len |-> 3]
FlacFile  == [kind |-> "flac", len |-> 3]
ShortFlac == [kind |-> "flac", len |-> 2]

WavFiles   == {WavFile}
FlacFiles  == {FlacFile}
MixedFiles == {WavFile, ShortFlac}

Symmetry == Permutations(Buf) \cup Permutations(Loader)
=============================================================================
