----------------------------- MODULE WavHeader -----------------------------
(***************************************************************************)
(* The reading of a WAV header (src/wav_wrapper.c) from the first elem      *)
(* bytes of a file, against a walk over the chunks of the file.            *)
(*                                                                         *)
(* A file is its layout: the tags and the sizes that are written in it, and *)
(* its length.  Places, offsets and sizes are the real ones, in bytes.  The *)
(* code compares every byte with a tag, so a layout also has, as stray, the *)
(* places where the letters of a tag stand in a payload, with what is read  *)
(* when they are taken for the start of a chunk.                            *)
(***************************************************************************)
EXTENDS Integers, Sequences, FiniteSetsExt

RIFFchunkEnd == 12
TagAndSize   == 8
fmt  == "fmt "
data == "data"

NoFormat == "unknown"

\* Chunk i starts at StartOf(f)[i]; chunks are padded to an even size.
Padded(size) == size + (size % 2)

StartOf(f) ==
    LET start[i \in 1 .. Len(f.chunks)] ==
          IF i = 1 THEN RIFFchunkEnd
          ELSE start[i - 1] + TagAndSize + Padded(f.chunks[i - 1].size)
    IN  start

\* The end of the last chunk: the length of a file that is not truncated.
EndOf(f) ==
    IF f.chunks = <<>> THEN RIFFchunkEnd
    ELSE LET last == Len(f.chunks)
         IN  StartOf(f)[last] + TagAndSize + Padded(f.chunks[last].size)

\* Every place where the letters of a tag stand: the chunks and the strays.
Tags(f) ==
    {[at |-> StartOf(f)[i], id |-> f.chunks[i].id,
      size |-> f.chunks[i].size, format |-> f.chunks[i].format] : i \in DOMAIN f.chunks}
    \cup f.stray

\* riff and wave tell whether these tags are there; what follows the letters of
\* a fmt tag is read as some format.
IsLayout(f) ==
    /\ f.chunkSize \in Nat /\ f.length \in Nat
    /\ f.chunks \in Seq([id : STRING, size : Nat, format : STRING])
    /\ f.stray \subseteq [at : Nat, id : STRING, size : Nat, format : STRING]
    /\ \A s, t \in Tags(f) : s.at = t.at => s = t
    /\ \A t \in Tags(f) : t.id = fmt => t.format # NoFormat

-----------------------------------------------------------------------------
(* The code                                                                *)

\* The first place at or after byte from where the letters of id stand, with
\* more than room bytes to the end of the buffer; 0 if there is none.
Scan(f, id, from, room, elem) ==
    LET found == {t.at : t \in {t \in Tags(f) : t.id = id /\ t.at >= from /\ t.at + room < elem}}
    IN  IF found = {} THEN 0 ELSE Min(found)

\* ntrb_getSubchunk1Start and ntrb_getSubchunk2Start.
Subchunk1(f, elem)       == Scan(f, fmt, RIFFchunkEnd, 8 + 16, elem)
Subchunk2(f, end, elem)  == Scan(f, data, end, 8, elem)

Subchunk1End(start) == start + 24

\* What is read where the letters of a tag stand.
Read(f, at) == CHOOSE t \in Tags(f) : t.at = at

Error(status, format) == [status |-> status, format |-> format, offset |-> 0, size |-> 0]

minWAVheaderSize == 44

\* ntrb_AudioHeader_from_WAVfile_2.  The header is set as soon as the format is
\* found, the offset only on success.
FromWAVfile_2(f, elem) ==
    LET s1 == Subchunk1(f, elem)
        s2 == Subchunk2(f, Subchunk1End(s1), elem)
    IN  IF elem < minWAVheaderSize THEN Error("buffer_too_small", NoFormat)
        ELSE IF ~f.riff THEN Error("invalid_RIFF_ID", NoFormat)
        ELSE IF ~f.wave THEN Error("invalid_WAVE_ID", NoFormat)
        ELSE IF s1 = 0  THEN Error("invalid_fmt_ID", NoFormat)
        ELSE IF s2 = 0  THEN Error("invalid_data_ID", Read(f, s1).format)
        ELSE [status |-> "ok", format |-> Read(f, s1).format,
              offset |-> s2 + TagAndSize, size |-> Read(f, s2).size]

\* A mutation of SizesAgree: the tag and the size are forgotten.
SizesAgree_payload(f, elem) == f.chunkSize = elem

SizesAgree(f, elem) == f.chunkSize + 8 = elem

\* ntrb_AudioHeader_from_WAVfile, which also checks the sizes.
FromWAVfile(f, elem) ==
    LET loose == FromWAVfile_2(f, elem)
        s1    == Subchunk1(f, elem)
    IN  IF elem < minWAVheaderSize \/ ~f.riff THEN loose
        ELSE IF ~SizesAgree(f, elem) THEN Error("invalid_chunk_size", NoFormat)
        ELSE IF f.wave /\ s1 # 0 /\ Read(f, s1).size >= f.chunkSize
        THEN Error("invalid_Subchunk1Size", NoFormat)
        ELSE IF loose.status # "ok" THEN loose
        ELSE IF loose.offset + loose.size > elem
        THEN [Error("invalid_Subchunk2Size", loose.format) EXCEPT !.size = loose.size]
        ELSE loose

-----------------------------------------------------------------------------
(* The reference                                                           *)

\* The chunk that holds the format, and the first one with audio after it.
FmtChunk(f)  == Min({i \in DOMAIN f.chunks : f.chunks[i].id = fmt})
DataChunk(f) == Min({i \in DOMAIN f.chunks : f.chunks[i].id = data /\ i > FmtChunk(f)})

\* A complete file with a format and, after it, audio.
WellFormed(f) ==
    /\ f.riff /\ f.wave /\ f.chunkSize + 8 = f.length /\ f.length = EndOf(f)
    /\ \E i, j \in DOMAIN f.chunks :
         /\ i < j /\ f.chunks[i].id = fmt /\ f.chunks[j].id = data
         /\ i = FmtChunk(f) /\ f.chunks[i].size >= 16
         /\ j = DataChunk(f) /\ f.chunks[j].size > 0

\* What a walk over the chunks finds.
Walk(f) ==
    [status |-> "ok", format |-> f.chunks[FmtChunk(f)].format,
     offset |-> StartOf(f)[DataChunk(f)] + TagAndSize, size |-> f.chunks[DataChunk(f)].size]

\* The letters of the tag of the format stand before it, or those of the tag of
\* the audio between the two: the search stops there.
Misled(f) ==
    LET format == StartOf(f)[FmtChunk(f)]
        audio  == StartOf(f)[DataChunk(f)]
    IN  \E t \in f.stray :
          \/ t.id = fmt  /\ t.at >= RIFFchunkEnd /\ t.at < format
          \/ t.id = data /\ t.at >= format + 24 /\ t.at < audio
=============================================================================
