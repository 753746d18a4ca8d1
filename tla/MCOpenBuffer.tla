---------------------------- MODULE MCOpenBuffer ----------------------------
(* Instances of OpenBuffer for TLC.                                        *)
EXTENDS OpenBuffer

Chunk(id, size, format) == [id |-> id, size |-> size, format |-> format]
List(size) == Chunk("LIST", size, NoFormat)

\* What comes before the format, the format, what comes between it and the
\* audio, the audio, and what comes after it.  65482 bytes put the tag of the
\* audio at the last place where it is found.
Before  == {<<>>, <<List(26)>>, <<List(65482)>>, <<List(65484)>>}
Formats == {<<>>} \cup {<<Chunk(fmt, n, f)>> : n \in {16, 18}, f \in {"int16", "float32", "surround"}}
               \cup {<<Chunk(fmt, 16, "int16"), Chunk(fmt, 40, "int24")>>}
Between == {<<>>, <<Chunk("fact", 4, NoFormat)>>, <<Chunk(data, 0, NoFormat)>>}
Audio   == {<<>>} \cup {<<Chunk(data, n, NoFormat)>> : n \in {0, 1, 8, 400000}}
After   == {<<>>, <<List(26)>>}

Whole(chunks) ==
    LET f == [riff |-> TRUE, wave |-> TRUE, chunkSize |-> 0, length |-> 0,
              chunks |-> chunks, stray |-> {}]
    IN  [f EXCEPT !.chunkSize = EndOf(f) - 8, !.length = EndOf(f)]

WholeFiles ==
    {Whole(a \o b \o c \o d \o e) :
       a \in Before, b \in Formats, c \in Between, d \in Audio, e \in After}

\* A usual file, cut off, with a wrong size, or not a WAV file.
Usual == Whole(<<Chunk(fmt, 16, "int16"), Chunk(data, 8, NoFormat)>>)
OddFiles ==
    {[Usual EXCEPT !.length = n] : n \in {0, 20, 36, 43, 44, 45, 51}}
    \cup {[Usual EXCEPT !.chunkSize = n] : n \in {0, 36, 52}}
    \cup {[Usual EXCEPT !.riff = FALSE], [Usual EXCEPT !.wave = FALSE],
          Whole(<<Chunk(data, 8, NoFormat), Chunk(fmt, 16, "int16")>>)}

\* The letters of a tag in a payload: in a list before the format, in what
\* follows its first 16 bytes, in a list between it and the audio, in the audio
\* and behind it; in a usual file and in files whose audio starts just inside
\* and just outside the part that is read.
Stray(at, id) == [at |-> at, id |-> id, size |-> 7, format |-> "float32"]

StrayFiles ==
    {[Whole(<<List(42), Chunk(fmt, 40, "int16"), List(n), Chunk(data, 80, NoFormat), List(26)>>)
       EXCEPT !.stray = strays] :
       n \in {40, 65408, 65410},
       strays \in SUBSET {Stray(20, fmt), Stray(46, data), Stray(86, data),
                          Stray(120, data), Stray(128, fmt), Stray(170, data), Stray(254, fmt)}}

Path(filetype, layout, streaminfo) ==
    [filetype |-> filetype, layout |-> layout, streaminfo |-> streaminfo]

SomePaths ==
    {Path("wav", f, Garbage) : f \in WholeFiles \cup OddFiles \cup StrayFiles}
    \cup {Path("flac", Usual, s) : s \in {"int16", "int24", "surround", Garbage}}
    \cup {Path("mp3", Usual, Garbage), Path("none", Usual, Garbage)}
=============================================================================
