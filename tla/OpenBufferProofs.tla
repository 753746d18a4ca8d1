-------------------------- MODULE OpenBufferProofs --------------------------
(***************************************************************************)
(* Proofs about the opening of a file: whatever the files are, and          *)
(* whichever of its calls fails, an opening that fails has released what it *)
(* had acquired, and nothing is released twice; and whatever the layout of  *)
(* a WAV file is, its header is read as a walk over its chunks reads it.    *)
(***************************************************************************)
EXTENDS OpenBuffer, SequenceTheorems, WellFoundedInduction, TLAPS

WavSteps  == {"fopen", "read", "parse", "bytes"}
FlacSteps == {"decoder", "init", "metadata", "format", "buffer"}

Source == IF path.filetype = "wav" THEN "aud_file" ELSE "decoder"

\* What is held in each step of an opening.
HeldAt(step) ==
    CASE step = "closed" ->
           IF status = "InvalidAudFiletype" /\ path.filetype = "none" THEN {"rwlock"} ELSE {}
      [] step = "filetype" -> {"rwlock"}
      [] step \in {"fopen", "decoder", "unknown", "sourceFailed"} -> {"rwlock", "filetype"}
      [] step \in {"read", "bytes"} -> {"rwlock", "filetype", "aud_file"}
      [] step = "parse" -> {"rwlock", "filetype", "aud_file", "file_buffer"}
      [] step \in {"init", "metadata", "format", "buffer"} -> {"rwlock", "filetype", "decoder"}
      [] step = "datapoints" -> {"rwlock", "filetype", "read_bytes", Source}
      [] step = "open" -> {"rwlock", "datapoints", "read_bytes", Source}
      [] OTHER -> held

\* The kind of file decides which steps are taken, and the callback, by which
\* the closing chooses what to release, is that of the file.
RightSource ==
    /\ pc \in WavSteps => path.filetype = "wav"
    /\ pc \in FlacSteps => path.filetype = "flac"
    /\ pc \in {"datapoints", "open"} => path.filetype \in {"wav", "flac"}
    /\ pc \in WavSteps \cup FlacSteps \cup {"datapoints", "open"} =>
         load_buffer_callback = path.filetype
    /\ pc \in {"unknown", "sourceFailed"} => path.filetype # "none"

\* The inductive invariant: what is held is known from the step.
IInv == ~misfreed /\ held = HeldAt(pc) /\ RightSource

-----------------------------------------------------------------------------
LEMMA IInvInit == Init => IInv
  BY DEF Init, IInv, HeldAt, RightSource, WavSteps, FlacSteps

\* A source that fails keeps only what ntrb_AudioBuffer_new releases then.
LEMMA SourceFailsIInv ==
  ASSUME IInv, NEW err, NEW rs,
         SourceFails(err, rs), UNCHANGED path,
         path.filetype # "none", rs \subseteq held, held \ rs = {"rwlock", "filetype"}
  PROVE  IInv'
<1>1. ~misfreed /\ pc' = "sourceFailed" /\ held' = {"rwlock", "filetype"} /\ ~misfreed'
  BY DEF IInv, SourceFails, Release, Goto
<1>2. held' = HeldAt(pc)'
  BY <1>1 DEF HeldAt
<1>3. RightSource'
  BY <1>1 DEF RightSource, WavSteps, FlacSteps
<1> QED
  BY <1>1, <1>2, <1>3 DEF IInv

\* One step of the opening of a file at a time.
LEMMA IInvNext == IInv /\ [Next]_vars => IInv'
<1> SUFFICES ASSUME IInv, [Next]_vars PROVE IInv'
  OBVIOUS
<1>1. CASE New
  BY <1>1 DEF New, IInv, HeldAt, RightSource, WavSteps, FlacSteps, Source, Goto,
            Acquire, Release, SourceFails, fields
<1>2. CASE NoFiletype
  BY <1>2 DEF NoFiletype, IInv, HeldAt, RightSource, WavSteps, FlacSteps, Source, Goto,
            Acquire, Release, SourceFails, fields
<1>3. CASE Filetype
  BY <1>3 DEF Filetype, IInv, HeldAt, RightSource, WavSteps, FlacSteps, Source, Goto,
            Acquire, Release, SourceFails, fields
<1>4. CASE FiletypeCrash
  BY <1>4 DEF FiletypeCrash, IInv, HeldAt, RightSource, WavSteps, FlacSteps, Source, Goto,
            Acquire, Release, SourceFails, fields
<1>5. CASE UnknownFiletype
  BY <1>5 DEF UnknownFiletype, IInv, HeldAt, RightSource, WavSteps, FlacSteps, Source, Goto,
            Acquire, Release, SourceFails, fields
<1>6. CASE OpenFile
  <2>1. pc = "fopen" /\ path.filetype = "wav" /\ UNCHANGED <<path, fields>>
    BY <1>6 DEF OpenFile, IInv, RightSource, WavSteps, FlacSteps
  <2>2. held = HeldAt("fopen")
    BY <2>1 DEF IInv
  <2>3. CASE Acquire("aud_file", "read")
    BY <2>1, <2>2, <2>3 DEF Acquire, Goto, IInv, HeldAt, RightSource, WavSteps, FlacSteps,
                            Source, fields
  <2>4. CASE SourceFails("FileOpenError", {})
    BY <2>1, <2>2, <2>4, SourceFailsIInv DEF HeldAt
  <2> QED
    BY <1>6, <2>3, <2>4 DEF OpenFile
<1>7. CASE ReadHeader
  <2>1. pc = "read" /\ path.filetype = "wav" /\ UNCHANGED <<path, fields>>
    BY <1>7 DEF ReadHeader, IInv, RightSource, WavSteps, FlacSteps
  <2>2. held = HeldAt("read")
    BY <2>1 DEF IInv
  <2>3. CASE Elem # 0 /\ Acquire("file_buffer", "parse")
    BY <2>1, <2>2, <2>3 DEF Acquire, Goto, IInv, HeldAt, RightSource, WavSteps, FlacSteps,
                            Source, fields
  <2>4. CASE SourceFails("FileReadError", {"aud_file"})
    BY <2>1, <2>2, <2>4, SourceFailsIInv DEF HeldAt
  <2> QED
    BY <1>7, <2>3, <2>4 DEF ReadHeader
<1>8. CASE ParseHeader
  <2>1. pc = "parse" /\ path.filetype = "wav" /\ UNCHANGED <<path, load_buffer_callback>>
    BY <1>8 DEF ParseHeader, IInv, RightSource, WavSteps
  <2>2. held = {"rwlock", "filetype", "aud_file", "file_buffer"}
    BY <2>1 DEF IInv, HeldAt
  <2>3. CASE Release(HeaderBuffer) /\ Goto("bytes") /\ UNCHANGED status
    BY <2>1, <2>2, <2>3 DEF Release, HeaderBuffer, Goto, IInv, HeldAt, RightSource, WavSteps,
                            FlacSteps
  <2>4. ASSUME NEW err, SourceFails(err, HeaderBuffer \cup {"aud_file"}) PROVE IInv'
    BY <2>1, <2>2, <2>4, SourceFailsIInv DEF HeaderBuffer
  <2> QED
    BY <1>8, <2>3, <2>4 DEF ParseHeader
<1>9. CASE WAVbytes
  <2>1. pc = "bytes" /\ path.filetype = "wav" /\ UNCHANGED <<path, fields>>
    BY <1>9 DEF WAVbytes, IInv, RightSource, WavSteps, FlacSteps
  <2>2. held = HeldAt("bytes")
    BY <2>1 DEF IInv
  <2>3. CASE Acquire("read_bytes", "datapoints")
    BY <2>1, <2>2, <2>3 DEF Acquire, Goto, IInv, HeldAt, RightSource, WavSteps, FlacSteps,
                            Source, fields
  <2>4. CASE SourceFails("AllocError", {"aud_file"})
    BY <2>1, <2>2, <2>4, SourceFailsIInv DEF HeldAt
  <2> QED
    BY <1>9, <2>3, <2>4 DEF WAVbytes
<1>10. CASE NewDecoder
  <2>1. pc = "decoder" /\ path.filetype = "flac" /\ UNCHANGED <<path, fields>>
    BY <1>10 DEF NewDecoder, IInv, RightSource, WavSteps, FlacSteps
  <2>2. held = HeldAt("decoder")
    BY <2>1 DEF IInv
  <2>3. CASE Acquire("decoder", "init")
    BY <2>1, <2>2, <2>3 DEF Acquire, Goto, IInv, HeldAt, RightSource, WavSteps, FlacSteps,
                            Source, fields
  <2>4. CASE SourceFails("AllocError", {})
    BY <2>1, <2>2, <2>4, SourceFailsIInv DEF HeldAt
  <2> QED
    BY <1>10, <2>3, <2>4 DEF NewDecoder
<1>11. CASE InitDecoder
  <2>1. pc = "init" /\ path.filetype = "flac" /\ UNCHANGED <<path, fields>>
    BY <1>11 DEF InitDecoder, IInv, RightSource, FlacSteps
  <2>2. held = {"rwlock", "filetype", "decoder"}
    BY <2>1 DEF IInv, HeldAt
  <2>3. CASE Goto("metadata") /\ UNCHANGED <<status, held, misfreed>>
    BY <2>1, <2>2, <2>3 DEF Goto, IInv, HeldAt, RightSource, WavSteps, FlacSteps, fields
  <2>4. ASSUME NEW err, SourceFails(err, {"decoder"}) PROVE IInv'
    BY <2>1, <2>2, <2>4, SourceFailsIInv
  <2> QED
    BY <1>11, <2>3, <2>4 DEF InitDecoder
<1>12. CASE ReadMetadata
  <2>1. pc = "metadata" /\ path.filetype = "flac" /\ UNCHANGED <<path, load_buffer_callback>>
    BY <1>12 DEF ReadMetadata, fields, IInv, RightSource, FlacSteps
  <2>2. held = {"rwlock", "filetype", "decoder"}
    BY <2>1 DEF IInv, HeldAt
  <2>3. CASE Goto("format") /\ UNCHANGED <<status, held, misfreed>>
    BY <2>1, <2>2, <2>3 DEF Goto, IInv, HeldAt, RightSource, WavSteps, FlacSteps
  <2>4. ASSUME NEW err, SourceFails(err, {"decoder"}) PROVE IInv'
    BY <2>1, <2>2, <2>4, SourceFailsIInv
  <2> QED
    BY <1>12, <2>3, <2>4 DEF ReadMetadata
<1>13. CASE CheckFormat
  <2>1. pc = "format" /\ path.filetype = "flac" /\ UNCHANGED <<path, load_buffer_callback>>
    BY <1>13 DEF CheckFormat, fields, IInv, RightSource, FlacSteps
  <2>2. held = {"rwlock", "filetype", "decoder"}
    BY <2>1 DEF IInv, HeldAt
  <2>3. CASE Goto("buffer") /\ UNCHANGED <<status, held, misfreed>>
    BY <2>1, <2>2, <2>3 DEF Goto, IInv, HeldAt, RightSource, WavSteps, FlacSteps
  <2>4. ASSUME NEW err, SourceFails(err, {"decoder"}) PROVE IInv'
    BY <2>1, <2>2, <2>4, SourceFailsIInv
  <2> QED
    BY <1>13, <2>3, <2>4 DEF CheckFormat
<1>14. CASE FLACbytes
  <2>1. pc = "buffer" /\ path.filetype = "flac" /\ UNCHANGED <<path, fields>>
    BY <1>14 DEF FLACbytes, IInv, RightSource, WavSteps, FlacSteps
  <2>2. held = HeldAt("buffer")
    BY <2>1 DEF IInv
  <2>3. CASE Acquire("read_bytes", "datapoints")
    BY <2>1, <2>2, <2>3 DEF Acquire, Goto, IInv, HeldAt, RightSource, WavSteps, FlacSteps,
                            Source, fields
  <2>4. CASE SourceFails("AllocError", {"decoder"})
    BY <2>1, <2>2, <2>4, SourceFailsIInv DEF HeldAt
  <2> QED
    BY <1>14, <2>3, <2>4 DEF FLACbytes
<1>15. CASE SourceFailed
  BY <1>15 DEF SourceFailed, IInv, HeldAt, RightSource, WavSteps, FlacSteps, Source, Goto,
            Acquire, Release, SourceFails, fields
<1>16. CASE Allocate
  BY <1>16 DEF Allocate, Freed, SourceResources, IInv, HeldAt, RightSource, WavSteps, FlacSteps, Source, Goto,
            Acquire, Release, SourceFails, fields
<1>17. CASE Close
  BY <1>17 DEF Close, Freed, SourceResources, IInv, HeldAt, RightSource, WavSteps, FlacSteps, Source, Goto,
            Acquire, Release, SourceFails, fields
<1>18. CASE Crashed \/ UNCHANGED vars
  BY <1>18 DEF Crashed, vars, IInv, HeldAt, RightSource, Source
<1> QED
  BY <1>1, <1>2, <1>3, <1>4, <1>5, <1>6, <1>7, <1>8, <1>9, <1>10, <1>11, <1>12, <1>13, <1>14,
     <1>15, <1>16, <1>17, <1>18 DEF Next

LEMMA IInvAlways == Spec => []IInv
  BY IInvInit, IInvNext, PTL DEF Spec

\* The error paths and the closing release nothing that is not held, for every
\* set of files (FreesWhatItHolds).
THEOREM ReleasesOnlyHeld == Spec => []FreesWhatItHolds
<1>1. IInv => FreesWhatItHolds
  BY DEF IInv, FreesWhatItHolds
<1> QED
  BY <1>1, IInvAlways, PTL

\* A failed opening and a closing leave nothing behind, a successful opening
\* what the closing releases, for every set of files (HoldsOnlyWhenOpen).
THEOREM NothingLeftBehind == Spec => []HoldsOnlyWhenOpen
<1>1. IInv => HoldsOnlyWhenOpen
  BY DEF IInv, HeldAt, Source, HoldsOnlyWhenOpen
<1> QED
  BY <1>1, IInvAlways, PTL

-----------------------------------------------------------------------------
(* The chunks of a file                                                    *)

LEMMA MinIsLeast ==
  ASSUME NEW S \in SUBSET Nat, S # {}
  PROVE  Min(S) \in S /\ \A x \in S : Min(S) <= x
  <1>1. PICK x \in S : \A y \in S : <<y, x>> \notin OpToRel(<, Nat)
    BY WFMin, NatLessThanWellFounded
  <1>2. ASSUME NEW y \in S PROVE x <= y
    <2>. SUFFICES ASSUME y < x PROVE FALSE
      OBVIOUS
    <2>1. <<y, x>> \in OpToRel(<, Nat)
      BY DEF OpToRel
    <2>. QED BY <1>1, <2>1
  <1>. QED BY <1>2 DEF Min

\* Induction, over the set of the numbers that have the property.
LEMMA Induction ==
  ASSUME NEW S \in SUBSET Nat, 0 \in S, \A n \in S : n + 1 \in S
  PROVE  S = Nat
  <1>. SUFFICES ASSUME Nat \ S # {} PROVE FALSE
    OBVIOUS
  <1>. DEFINE least == Min(Nat \ S)
  <1>1. least \in Nat \ S /\ \A n \in Nat \ S : least <= n
    BY MinIsLeast
  <1>. HIDE DEF least
  <1>2. least - 1 \in S
    BY <1>1
  <1>. QED BY <1>1, <1>2

\* g[i] is c and the sum of the first i - 1 widths.
SumsTo(g, N, c, w) == g = [i \in 1 .. N |-> IF i = 1 THEN c ELSE g[i - 1] + w[i - 1]]

\* These sums exist: the function that a recursive definition names.
LEMMA Sums ==
  ASSUME NEW N \in Nat, NEW c \in Nat, NEW w, \A i \in 1 .. N : w[i] \in Nat
  PROVE  \E g \in [1 .. N -> Nat] : SumsTo(g, N, c, w)
  <1>. DEFINE Is(g, n) == g = [i \in 1 .. n |-> IF i = 1 THEN c ELSE g[i - 1] + w[i - 1]]
              S == {n \in Nat : n <= N => \E g \in [1 .. n -> Nat] : Is(g, n)}
  <1>1. 0 \in S
    <2>. DEFINE g == [i \in 1 .. 0 |-> 0]
    <2>1. g \in [1 .. 0 -> Nat] /\ Is(g, 0)
      OBVIOUS
    <2>. QED BY <2>1
  <1>2. ASSUME NEW n \in S PROVE n + 1 \in S
    <2>. SUFFICES ASSUME n + 1 <= N PROVE \E g \in [1 .. n + 1 -> Nat] : Is(g, n + 1)
      OBVIOUS
    <2>1. PICK g \in [1 .. n -> Nat] : Is(g, n)
      OBVIOUS
    <2>. DEFINE next == IF n = 0 THEN c ELSE g[n] + w[n]
                h == [i \in 1 .. n + 1 |-> IF i = n + 1 THEN next ELSE g[i]]
    <2>2. next \in Nat
      OBVIOUS
    <2>3. h \in [1 .. n + 1 -> Nat]
      BY <2>2
    <2>4. ASSUME NEW i \in 1 .. n + 1
          PROVE  h[i] = IF i = 1 THEN c ELSE h[i - 1] + w[i - 1]
      <3>1. CASE i = n + 1
        BY <3>1
      <3>2. CASE i # n + 1
        <4>1. g[i] = IF i = 1 THEN c ELSE g[i - 1] + w[i - 1]
          BY <2>1, <3>2
        <4>. QED BY <4>1, <3>2
      <3>. QED BY <3>1, <3>2
    <2>5. Is(h, n + 1)
      BY <2>4
    <2>. HIDE DEF h
    <2>. QED BY <2>3, <2>5
  <1>3. S = Nat
    <2>. HIDE DEF Is
    <2>. DEFINE T == S
    <2>1. T \in SUBSET Nat /\ 0 \in T /\ \A n \in T : n + 1 \in T
      BY <1>1, <1>2
    <2>. HIDE DEF T
    <2>2. T = Nat
      BY <2>1, Induction
    <2>. QED BY <2>2 DEF T
  <1>4. \E g \in [1 .. N -> Nat] : Is(g, N)
    <2>. HIDE DEF Is
    <2>. QED BY <1>3
  <1>. QED BY <1>4 DEF SumsTo

\* Even sizes are no smaller.
LEMMA PaddedIs ==
  ASSUME NEW size \in Nat
  PROVE  Padded(size) \in Nat /\ size <= Padded(size)
  BY DEF Padded

\* The fields of a layout.
LEMMA ChunksAre ==
  ASSUME NEW f, IsLayout(f)
  PROVE  /\ f.length \in Nat /\ f.chunkSize \in Nat
         /\ Len(f.chunks) \in Nat /\ DOMAIN f.chunks = 1 .. Len(f.chunks)
         /\ \A i \in DOMAIN f.chunks :
              /\ f.chunks[i].size \in Nat
              /\ Padded(f.chunks[i].size) \in Nat
              /\ f.chunks[i].size <= Padded(f.chunks[i].size)
  <1>. DEFINE chunks == f.chunks
  <1>. DEFINE C == [id : STRING, size : Nat, format : STRING]
  <1>1. chunks \in Seq(C)
    BY DEF IsLayout
  <1>. HIDE DEF chunks
  <1>2. /\ Len(chunks) \in Nat /\ DOMAIN chunks = 1 .. Len(chunks)
        /\ \A i \in DOMAIN chunks : chunks[i] \in C
    <2>. HIDE DEF C
    <2>. QED BY <1>1, LenProperties, ElementOfSeq
  <1>3. \A i \in DOMAIN chunks : chunks[i].size \in Nat
    BY <1>2
  <1>. USE DEF chunks
  <1>. QED BY <1>2, <1>3, PaddedIs DEF IsLayout

\* A chunk starts where the one before it, with its padding, ends.
LEMMA Starts ==
  ASSUME NEW f, IsLayout(f)
  PROVE  \A i \in DOMAIN f.chunks :
           StartOf(f)[i] = IF i = 1 THEN RIFFchunkEnd
                           ELSE StartOf(f)[i - 1] + TagAndSize + Padded(f.chunks[i - 1].size)
  <1>. DEFINE N == Len(f.chunks)
              w == [i \in 1 .. N |-> TagAndSize + Padded(f.chunks[i].size)]
              Next1(g) == [i \in 1 .. Len(f.chunks) |->
                             IF i = 1 THEN RIFFchunkEnd
                             ELSE g[i - 1] + TagAndSize + Padded(f.chunks[i - 1].size)]
  <1>1. N \in Nat /\ DOMAIN f.chunks = 1 .. N
        /\ \A i \in 1 .. N : Padded(f.chunks[i].size) \in Nat
    BY ChunksAre
  <1>2. \A i \in 1 .. N : w[i] \in Nat /\ w[i] = TagAndSize + Padded(f.chunks[i].size)
    BY <1>1 DEF TagAndSize
  <1>3. RIFFchunkEnd \in Nat /\ TagAndSize \in Nat
    BY DEF RIFFchunkEnd, TagAndSize
  <1>4. PICK g \in [1 .. N -> Nat] : SumsTo(g, N, RIFFchunkEnd, w)
    <2>. HIDE DEF w, N
    <2>1. \A i \in 1 .. N : w[i] \in Nat
      BY <1>2
    <2>. QED BY <2>1, <1>1, <1>3, Sums
  <1>5. g = Next1(g)
    <2>. HIDE DEF w, N
    <2>1. ASSUME NEW i \in 1 .. N, i # 1
          PROVE  g[i - 1] + w[i - 1] = g[i - 1] + TagAndSize + Padded(f.chunks[i - 1].size)
      <3>1. i - 1 \in 1 .. N /\ g[i - 1] \in Nat
        BY <1>1, <2>1
      <3>. QED BY <3>1, <1>1, <1>2, <1>3
    <2>2. Next1(g) = [i \in 1 .. N |-> IF i = 1 THEN RIFFchunkEnd ELSE g[i - 1] + w[i - 1]]
      BY <2>1 DEF N
    <2>. QED BY <2>2, <1>4 DEF SumsTo
  <1>6. StartOf(f) = CHOOSE start : start = Next1(start)
    BY DEF StartOf
  <1>7. StartOf(f) = Next1(StartOf(f))
    <2>. HIDE DEF Next1
    <2>. QED BY <1>5, <1>6
  <1>. DEFINE start == StartOf(f)
  <1>. HIDE DEF start
  <1>8. start = Next1(start)
    BY <1>7 DEF start
  <1>9. ASSUME NEW i \in 1 .. N
        PROVE  start[i] = IF i = 1 THEN RIFFchunkEnd
                          ELSE start[i - 1] + TagAndSize + Padded(f.chunks[i - 1].size)
    BY <1>8
  <1>. QED BY <1>1, <1>9 DEF start

\* Chunks follow each other: the later one starts behind the earlier one, and
\* the last one ends where the file does.
LEMMA InOrder ==
  ASSUME NEW f, IsLayout(f)
  PROVE  /\ \A i \in DOMAIN f.chunks : StartOf(f)[i] \in Nat /\ StartOf(f)[i] >= RIFFchunkEnd
         /\ \A i, j \in DOMAIN f.chunks : i < j =>
              StartOf(f)[i] + TagAndSize + Padded(f.chunks[i].size) <= StartOf(f)[j]
         /\ \A i \in DOMAIN f.chunks :
              StartOf(f)[i] + TagAndSize + Padded(f.chunks[i].size) <= EndOf(f)
  <1>. DEFINE start == StartOf(f)
              N == Len(f.chunks)
              width(i) == Padded(f.chunks[i].size)
  <1>1. N \in Nat /\ DOMAIN f.chunks = 1 .. N /\ \A i \in 1 .. N : width(i) \in Nat
    BY ChunksAre
  <1>2. \A i \in 1 .. N : start[i] = IF i = 1 THEN 12 ELSE start[i - 1] + 8 + width(i - 1)
    BY <1>1, Starts DEF RIFFchunkEnd, TagAndSize
  <1>3. f.chunks # <<>> => EndOf(f) = start[N] + 8 + width(N)
    BY DEF EndOf, TagAndSize
  <1>4. f.chunks = <<>> => N = 0
    OBVIOUS
  <1>. HIDE DEF start, N, width
  <1>. DEFINE Behind(n) == n \in 1 .. N =>
                             /\ start[n] \in Nat /\ start[n] >= 12
                             /\ \A i \in 1 .. N : i < n => start[i] + 8 + width(i) <= start[n]
              S == {n \in Nat : \A m \in 0 .. n : Behind(m)}
  <1>5. 0 \in S
    OBVIOUS
  <1>6. ASSUME NEW n \in S PROVE n + 1 \in S
    <2>. SUFFICES ASSUME n + 1 \in 1 .. N PROVE Behind(n + 1)
      OBVIOUS
    <2>1. CASE n = 0
      BY <1>2, <2>1
    <2>2. CASE n # 0
      <3>1. n \in 1 .. N /\ Behind(n) /\ width(n) \in Nat
        BY <1>1, <2>2
      <3>2. start[n + 1] = start[n] + 8 + width(n)
        BY <1>2, <2>2
      <3>3. start[n + 1] \in Nat /\ start[n + 1] >= 12 /\ start[n + 1] >= start[n]
        BY <3>1, <3>2
      <3>4. ASSUME NEW i \in 1 .. N, i < n + 1 PROVE start[i] + 8 + width(i) <= start[n + 1]
        <4>1. CASE i = n
          BY <4>1, <3>1, <3>2
        <4>2. CASE i # n
          <5>1. i < n /\ start[i] + 8 + width(i) <= start[n]
            BY <3>1, <3>4, <4>2
          <5>2. i \in 0 .. n /\ start[i] \in Nat /\ width(i) \in Nat
            BY <1>1, <5>1
          <5>. QED BY <5>1, <5>2, <3>1, <3>3
        <4>. QED BY <4>1, <4>2
      <3>. QED BY <3>3, <3>4
    <2>. QED BY <2>1, <2>2
  <1>7. S = Nat
    <2>. HIDE DEF Behind
    <2>. DEFINE T == S
    <2>1. T \in SUBSET Nat /\ 0 \in T /\ \A n \in T : n + 1 \in T
      BY <1>5, <1>6
    <2>. HIDE DEF T
    <2>2. T = Nat
      BY <2>1, Induction
    <2>. QED BY <2>2 DEF T
  <1>8. ASSUME NEW n \in 1 .. N
        PROVE  /\ start[n] \in Nat /\ start[n] >= 12
               /\ \A i \in 1 .. N : i < n => start[i] + 8 + width(i) <= start[n]
    <2>1. n \in Nat /\ n \in 0 .. n
      OBVIOUS
    <2>2. Behind(n)
      <3>. HIDE DEF Behind
      <3>. QED BY <2>1, <1>7
    <2>. QED BY <2>2
  <1>9. ASSUME NEW i \in 1 .. N PROVE start[i] + 8 + width(i) <= EndOf(f)
    <2>1. N \in 1 .. N /\ f.chunks # <<>>
      BY <1>1, <1>4
    <2>2. CASE i = N
      BY <1>3, <2>1, <2>2, <1>1, <1>8
    <2>3. CASE i < N
      <3>1. start[i] + 8 + width(i) <= start[N]
        BY <1>8, <2>1, <2>3
      <3>2. start[i] \in Nat /\ start[N] \in Nat /\ width(i) \in Nat /\ width(N) \in Nat
        BY <1>1, <1>8, <2>1
      <3>. QED BY <3>1, <3>2, <1>3, <2>1
    <2>. QED BY <1>1, <2>2, <2>3
  <1>. QED BY <1>1, <1>8, <1>9 DEF start, width, RIFFchunkEnd, TagAndSize

-----------------------------------------------------------------------------
(* The reading of a header                                                 *)

\* The tag of a chunk.
Tag(f, i) == [at |-> StartOf(f)[i], id |-> f.chunks[i].id,
              size |-> f.chunks[i].size, format |-> f.chunks[i].format]

LEMMA TagsAre ==
  ASSUME NEW f, IsLayout(f)
  PROVE  /\ \A i \in DOMAIN f.chunks : Tag(f, i) \in Tags(f)
         /\ \A t \in Tags(f) : t \in f.stray \/ \E i \in DOMAIN f.chunks : t = Tag(f, i)
         /\ \A t \in Tags(f) : t.at \in Nat /\ t.size \in Nat
         /\ \A t \in Tags(f) : t.id = fmt => t.format # NoFormat
         /\ \A s, t \in Tags(f) : s.at = t.at => s = t
  <1>1. Tags(f) = {Tag(f, i) : i \in DOMAIN f.chunks} \cup f.stray
    BY DEF Tags, Tag
  <1>2. \A t \in f.stray : t.at \in Nat /\ t.size \in Nat
    BY DEF IsLayout
  <1>3. \A i \in DOMAIN f.chunks : Tag(f, i).at \in Nat /\ Tag(f, i).size \in Nat
    BY ChunksAre, InOrder DEF Tag
  <1>4. \A t \in Tags(f) : t \in f.stray \/ \E i \in DOMAIN f.chunks : t = Tag(f, i)
    BY <1>1
  <1>. QED BY <1>1, <1>2, <1>3, <1>4 DEF IsLayout

\* What is read where a tag stands is that tag.
LEMMA ReadIs ==
  ASSUME NEW f, IsLayout(f), NEW t \in Tags(f)
  PROVE  Read(f, t.at) = t
  <1>1. \A s \in Tags(f) : s.at = t.at => s = t
    BY TagsAre
  <1>. QED BY <1>1 DEF Read

\* The tags a search finds, and the first of them.
Found(f, id, from, room, elem) ==
    {t \in Tags(f) : t.id = id /\ t.at >= from /\ t.at + room < elem}

First(f, id, from, room, elem, t) ==
    /\ t \in Found(f, id, from, room, elem)
    /\ \A s \in Found(f, id, from, room, elem) : t.at <= s.at

\* The search returns the first one.
LEMMA ScanIs ==
  ASSUME NEW f, IsLayout(f), NEW id, NEW from, NEW room, NEW elem
  PROVE  /\ \/ Found(f, id, from, room, elem) = {} /\ Scan(f, id, from, room, elem) = 0
            \/ \E t : /\ First(f, id, from, room, elem, t)
                      /\ Scan(f, id, from, room, elem) = t.at
         /\ \A t : First(f, id, from, room, elem, t) => Scan(f, id, from, room, elem) = t.at
  <1>. DEFINE found == Found(f, id, from, room, elem)
              places == {t.at : t \in found}
              scan == Scan(f, id, from, room, elem)
  <1>1. \A t \in found : t.at \in Nat
    BY TagsAre DEF Found
  <1>2. scan = IF places = {} THEN 0 ELSE Min(places)
    BY DEF Scan, Found
  <1>. HIDE DEF found, scan
  <1>3. places \in SUBSET Nat
    BY <1>1
  <1>4. places # {} => Min(places) \in places /\ \A p \in places : Min(places) <= p
    <2>. HIDE DEF places
    <2>. QED BY <1>3, MinIsLeast
  <1>5. \A t \in found : t.at \in places
    OBVIOUS
  <1>6. ASSUME NEW t \in found, \A s \in found : t.at <= s.at PROVE scan = t.at
    <2>1. places # {} /\ t.at \in places
      BY <1>5
    <2>2. scan \in places /\ \A p \in places : scan <= p
      BY <2>1, <1>2, <1>4
    <2>3. scan <= t.at /\ t.at <= scan
      BY <2>1, <2>2, <1>6
    <2>4. scan \in Nat /\ t.at \in Nat
      BY <2>2, <1>1, <1>3
    <2>. QED BY <2>3, <2>4
  <1>7. CASE found = {}
    <2>1. places = {}
      BY <1>7
    <2>. QED BY <1>2, <1>7, <2>1 DEF found, scan, First
  <1>8. CASE found # {}
    <2>1. places # {}
      BY <1>8
    <2>2. scan \in places /\ \A p \in places : scan <= p
      BY <2>1, <1>2, <1>4
    <2>3. PICK t \in found : t.at = scan
      BY <2>2
    <2>4. \A s \in found : t.at <= s.at
      BY <2>2, <2>3, <1>5
    <2>5. \E u : u \in found /\ (\A s \in found : u.at <= s.at) /\ scan = u.at
      BY <2>3, <2>4
    <2>. QED BY <2>5, <1>6 DEF found, scan, First
  <1>. QED BY <1>7, <1>8

\* The first elem bytes lead to the format at s and the audio at t.
Leads(f, elem, s, t) ==
    /\ f.riff /\ f.wave /\ ~(elem < 44)
    /\ First(f, fmt, RIFFchunkEnd, 8 + 16, elem, s)
    /\ First(f, data, s.at + 24, 8, elem, t)

\* What is found lies in the part that is read, the audio behind the format.
LEMMA LeadsTo ==
  ASSUME NEW f, IsLayout(f), NEW elem, NEW s, NEW t, Leads(f, elem, s, t)
  PROVE  /\ s \in Tags(f) /\ s.id = fmt /\ s.at >= 12 /\ s.at + 24 < elem
         /\ t \in Tags(f) /\ t.id = data /\ t.at >= s.at + 24 /\ t.at + 8 < elem
         /\ s.at \in Nat /\ t.at \in Nat /\ t.size \in Nat /\ s.format # NoFormat
  <1>1. /\ s \in Tags(f) /\ s.id = fmt /\ s.at >= 12 /\ s.at + 24 < elem
        /\ t \in Tags(f) /\ t.id = data /\ t.at >= s.at + 24 /\ t.at + 8 < elem
    <2>1. s \in Found(f, fmt, RIFFchunkEnd, 8 + 16, elem) /\ t \in Found(f, data, s.at + 24, 8, elem)
      BY DEF Leads, First
    <2>. QED BY <2>1 DEF Found, RIFFchunkEnd
  <1>. QED BY <1>1, TagsAre

\* A reading succeeds just when it is led to a format and, behind it, audio.
LEMMA AcceptedIs ==
  ASSUME NEW f, IsLayout(f), NEW elem
  PROVE  /\ FromWAVfile_2(f, elem).status = "ok" => \E s, t : Leads(f, elem, s, t)
         /\ \A s, t : Leads(f, elem, s, t) =>
              /\ FromWAVfile_2(f, elem) = [status |-> "ok", format |-> s.format,
                                          offset |-> t.at + 8, size |-> t.size]
              /\ Subchunk1(f, elem) = s.at
  <1>. DEFINE s1 == Subchunk1(f, elem)
              s2 == Subchunk2(f, Subchunk1End(s1), elem)
              Result == FromWAVfile_2(f, elem)
  <1>1. Result.status = "ok" => f.riff /\ f.wave /\ ~(elem < 44) /\ s1 # 0 /\ s2 # 0
    <2>. HIDE DEF s1, s2
    <2>. QED BY DEF FromWAVfile_2, Error, minWAVheaderSize, s1, s2
  <1>2. f.riff /\ f.wave /\ ~(elem < 44) /\ s1 # 0 /\ s2 # 0 =>
          Result = [status |-> "ok", format |-> Read(f, s1).format,
                    offset |-> s2 + 8, size |-> Read(f, s2).size]
    <2>. HIDE DEF s1, s2
    <2>. QED BY DEF FromWAVfile_2, minWAVheaderSize, TagAndSize, s1, s2
  <1>3. s1 = Scan(f, fmt, RIFFchunkEnd, 8 + 16, elem) /\ s2 = Scan(f, data, s1 + 24, 8, elem)
    BY DEF Subchunk1, Subchunk2, Subchunk1End
  <1>. HIDE DEF s1, s2, Result
  <1>4. ASSUME Result.status = "ok" PROVE \E s, t : Leads(f, elem, s, t)
    <2>1. PICK s : First(f, fmt, RIFFchunkEnd, 8 + 16, elem, s) /\ s1 = s.at
      BY <1>1, <1>3, <1>4, ScanIs
    <2>2. PICK t : First(f, data, s1 + 24, 8, elem, t)
      BY <1>1, <1>3, <1>4, ScanIs
    <2>. QED BY <2>1, <2>2, <1>1, <1>4 DEF Leads
  <1>5. ASSUME NEW s, NEW t, Leads(f, elem, s, t)
        PROVE  /\ Result = [status |-> "ok", format |-> s.format,
                            offset |-> t.at + 8, size |-> t.size]
               /\ s1 = s.at
    <2>1. s1 = s.at
      BY <1>3, <1>5, ScanIs DEF Leads
    <2>2. s2 = t.at
      BY <1>3, <1>5, <2>1, ScanIs DEF Leads
    <2>3. s1 # 0 /\ s2 # 0
      BY <1>5, <2>1, <2>2, LeadsTo
    <2>4. Read(f, s1) = s /\ Read(f, s2) = t
      BY <1>5, <2>1, <2>2, LeadsTo, ReadIs
    <2>5. f.riff /\ f.wave /\ ~(elem < 44)
      BY <1>5 DEF Leads
    <2>. QED BY <1>2, <2>1, <2>2, <2>3, <2>4, <2>5
  <1>. QED BY <1>4, <1>5 DEF Result, s1

\* More of the file leads to the same place, and so does less of it that still
\* has the tag of the audio.
LEMMA LeadsAlike ==
  ASSUME NEW f, IsLayout(f), NEW elem \in Nat, NEW whole \in Nat, elem <= whole,
         NEW s, NEW t
  PROVE  /\ Leads(f, elem, s, t) => Leads(f, whole, s, t)
         /\ Leads(f, whole, s, t) /\ t.at + 8 < elem => Leads(f, elem, s, t)
  <1>1. ASSUME NEW id, NEW from, NEW room \in Nat, NEW u, u.at + room < elem
        PROVE  First(f, id, from, room, elem, u) <=> First(f, id, from, room, whole, u)
    <2>1. \A x \in Tags(f) : x.at \in Nat
      BY TagsAre
    <2>2. \A x \in Tags(f) : x.at + room < elem => x.at + room < whole
      BY <2>1
    <2>3. ASSUME First(f, id, from, room, elem, u) PROVE First(f, id, from, room, whole, u)
      <3>1. u \in Found(f, id, from, room, elem) /\ u.at \in Nat
            /\ \A x \in Found(f, id, from, room, elem) : u.at <= x.at
        BY <2>1, <2>3 DEF First, Found
      <3>2. u \in Found(f, id, from, room, whole)
        BY <3>1, <2>2 DEF Found
      <3>3. ASSUME NEW x \in Found(f, id, from, room, whole) PROVE u.at <= x.at
        <4>1. x \in Tags(f) /\ x.id = id /\ x.at >= from /\ x.at \in Nat
          BY <3>3, <2>1 DEF Found
        <4>2. CASE x.at + room < elem
          BY <4>1, <4>2, <3>1 DEF Found
        <4>3. CASE ~(x.at + room < elem)
          BY <4>1, <4>3, <3>1, <1>1
        <4>. QED BY <4>2, <4>3
      <3>. QED BY <3>2, <3>3 DEF First
    <2>4. ASSUME First(f, id, from, room, whole, u) PROVE First(f, id, from, room, elem, u)
      <3>1. \A x \in Found(f, id, from, room, elem) : x \in Found(f, id, from, room, whole)
        BY <2>2 DEF Found
      <3>2. u \in Found(f, id, from, room, elem)
        BY <2>4, <1>1 DEF First, Found
      <3>. QED BY <2>4, <3>1, <3>2 DEF First
    <2>. QED BY <2>3, <2>4
  <1>2. ASSUME Leads(f, elem, s, t) PROVE Leads(f, whole, s, t)
    <2>1. s.at + (8 + 16) < elem /\ t.at + 8 < elem
      BY <1>2, LeadsTo
    <2>2. ~(whole < 44)
      BY <1>2 DEF Leads
    <2>. QED BY <1>1, <1>2, <2>1, <2>2 DEF Leads
  <1>3. ASSUME Leads(f, whole, s, t), t.at + 8 < elem PROVE Leads(f, elem, s, t)
    <2>1. s.at \in Nat /\ t.at \in Nat /\ s.at >= 12 /\ t.at >= s.at + 24
      BY <1>3, LeadsTo
    <2>2. s.at + (8 + 16) < elem /\ ~(elem < 44)
      BY <1>3, <2>1
    <2>. QED BY <1>1, <1>3, <2>2 DEF Leads
  <1>. QED BY <1>2, <1>3

\* What a walk over the chunks of a complete file finds.
LEMMA WalkIs ==
  ASSUME NEW f, IsLayout(f), WellFormed(f)
  PROVE  /\ f.riff /\ f.wave /\ f.chunkSize + 8 = f.length /\ f.length = EndOf(f)
         /\ FmtChunk(f) \in DOMAIN f.chunks /\ DataChunk(f) \in DOMAIN f.chunks
         /\ FmtChunk(f) < DataChunk(f)
         /\ f.chunks[FmtChunk(f)].id = fmt /\ f.chunks[FmtChunk(f)].size >= 16
         /\ f.chunks[DataChunk(f)].id = data
         /\ \A i \in DOMAIN f.chunks : f.chunks[i].id = fmt => FmtChunk(f) <= i
         /\ \A i \in DOMAIN f.chunks :
              f.chunks[i].id = data /\ i > FmtChunk(f) => DataChunk(f) <= i
  <1>1. PICK a, d \in DOMAIN f.chunks :
          /\ a < d /\ f.chunks[a].id = fmt /\ f.chunks[d].id = data
          /\ a = FmtChunk(f) /\ f.chunks[a].size >= 16 /\ d = DataChunk(f)
    BY DEF WellFormed
  <1>. DEFINE fmts  == {i \in DOMAIN f.chunks : f.chunks[i].id = fmt}
              datas == {i \in DOMAIN f.chunks : f.chunks[i].id = data /\ i > a}
  <1>2. fmts \in SUBSET Nat /\ datas \in SUBSET Nat /\ a \in fmts /\ d \in datas
    BY <1>1, ChunksAre
  <1>3. a = Min(fmts)
    BY <1>1 DEF FmtChunk
  <1>4. d = Min(datas)
    BY <1>1 DEF DataChunk
  <1>5. (\A i \in fmts : a <= i) /\ (\A i \in datas : d <= i)
    <2>. HIDE DEF fmts, datas
    <2>. QED BY <1>2, <1>3, <1>4, MinIsLeast
  <1>. QED BY <1>1, <1>5 DEF WellFormed

\* In a complete file the first elem bytes lead to some place when the audio
\* starts in them; never to one behind the audio; and to what the walk finds
\* when no letters of a tag mislead the search.
LEMMA ReadingIs ==
  ASSUME NEW f, IsLayout(f), WellFormed(f), NEW elem \in Nat
  PROVE  /\ StartOf(f)[DataChunk(f)] + 8 < elem => \E s, t : Leads(f, elem, s, t)
         /\ \A s, t : Leads(f, elem, s, t) =>
              /\ t.at <= StartOf(f)[DataChunk(f)]
              /\ ~Misled(f) => s = Tag(f, FmtChunk(f)) /\ t = Tag(f, DataChunk(f))
  <1>. DEFINE a == FmtChunk(f)
              d == DataChunk(f)
              start == StartOf(f)
              format == Tag(f, a)
              audio == Tag(f, d)
  <1>0. /\ f.riff /\ f.wave
        /\ a \in DOMAIN f.chunks /\ d \in DOMAIN f.chunks /\ a < d
        /\ f.chunks[a].id = fmt /\ f.chunks[a].size >= 16 /\ f.chunks[d].id = data
        /\ \A i \in DOMAIN f.chunks : f.chunks[i].id = fmt => a <= i
        /\ \A i \in DOMAIN f.chunks : f.chunks[i].id = data /\ i > a => d <= i
    BY WalkIs
  <1>1. /\ DOMAIN f.chunks \subseteq Nat
        /\ \A i \in DOMAIN f.chunks :
             start[i] \in Nat /\ start[i] >= 12 /\ Padded(f.chunks[i].size) \in Nat
        /\ \A i, j \in DOMAIN f.chunks :
             i < j => start[i] + 8 + Padded(f.chunks[i].size) <= start[j]
    BY ChunksAre, InOrder DEF RIFFchunkEnd, TagAndSize
  <1>2. Padded(f.chunks[a].size) >= 16
    BY <1>0, <1>1, ChunksAre
  <1>3. start[d] >= start[a] + 24 /\ start[a] >= 12 /\ start[a] \in Nat /\ start[d] \in Nat
    BY <1>0, <1>1, <1>2
  <1>4. /\ format \in Tags(f) /\ format.id = fmt /\ format.at = start[a]
        /\ audio \in Tags(f) /\ audio.id = data /\ audio.at = start[d]
    BY <1>0, TagsAre DEF Tag
  <1>5. \A t \in Tags(f) : t.at \in Nat
    BY TagsAre
  <1>6. Misled(f) <=>
          \E t \in f.stray : \/ t.id = fmt /\ t.at >= 12 /\ t.at < start[a]
                             \/ t.id = data /\ t.at >= start[a] + 24 /\ t.at < start[d]
    BY DEF Misled, RIFFchunkEnd
  <1>7. \A t \in Tags(f) : t \in f.stray \/ \E i \in DOMAIN f.chunks :
           t.at = start[i] /\ t.id = f.chunks[i].id
    BY TagsAre DEF Tag
  <1>8. \A s, t \in Tags(f) : s.at = t.at => s = t
    BY TagsAre
  <1>9. \A t : t \in Tags(f) /\ t.id = fmt /\ t.at >= 12 /\ t.at + 24 < elem
              <=> t \in Found(f, fmt, RIFFchunkEnd, 8 + 16, elem)
    BY DEF Found, RIFFchunkEnd
  <1>10. \A from, t : t \in Tags(f) /\ t.id = data /\ t.at >= from /\ t.at + 8 < elem
                    <=> t \in Found(f, data, from, 8, elem)
    BY DEF Found
  <1>11. ASSUME NEW s, NEW t, Leads(f, elem, s, t)
         PROVE  /\ s \in Tags(f) /\ s.id = fmt /\ s.at >= 12 /\ s.at + 24 < elem
                /\ t \in Tags(f) /\ t.id = data /\ t.at >= s.at + 24 /\ t.at + 8 < elem
                /\ s.at \in Nat /\ t.at \in Nat
    BY <1>11, LeadsTo
  <1>. HIDE DEF a, d, start, format, audio
  <1>12. ASSUME NEW s, NEW t, Leads(f, elem, s, t)
         PROVE  s.at <= start[a]
    <2>1. start[a] + 24 < elem => s.at <= format.at
      BY <1>3, <1>4, <1>9, <1>12 DEF Leads, First
    <2>. QED BY <2>1, <1>3, <1>4, <1>11, <1>12
  <1>13. ASSUME NEW s, NEW t, Leads(f, elem, s, t)
         PROVE  t.at <= start[d]
    <2>1. start[d] >= s.at + 24
      BY <1>3, <1>11, <1>12, <1>13
    <2>2. start[d] + 8 < elem => t.at <= audio.at
      BY <2>1, <1>4, <1>10, <1>13 DEF Leads, First
    <2>. QED BY <2>2, <1>3, <1>4, <1>11, <1>13
  <1>14. ASSUME start[d] + 8 < elem PROVE \E s, t : Leads(f, elem, s, t)
    <2>1. start[a] + 24 < elem /\ ~(elem < 44)
      BY <1>3, <1>14
    <2>2. format \in Found(f, fmt, RIFFchunkEnd, 8 + 16, elem)
      BY <2>1, <1>3, <1>4, <1>9
    <2>3. PICK s : First(f, fmt, RIFFchunkEnd, 8 + 16, elem, s)
      BY <2>2, ScanIs
    <2>4. s.at <= start[a] /\ s.at \in Nat
      BY <2>2, <2>3, <1>4, <1>5, <1>9 DEF First
    <2>5. start[d] >= s.at + 24
      BY <2>4, <1>3
    <2>6. audio \in Found(f, data, s.at + 24, 8, elem)
      BY <2>5, <1>4, <1>10, <1>14
    <2>7. PICK t : First(f, data, s.at + 24, 8, elem, t)
      BY <2>6, ScanIs
    <2>. QED BY <2>1, <2>3, <2>7, <1>0 DEF Leads
  <1>15. ASSUME NEW s, NEW t, Leads(f, elem, s, t), ~Misled(f)
         PROVE  s = format /\ t = audio
    <2>1. s.at = start[a]
      <3>1. CASE s \in f.stray
        BY <3>1, <1>3, <1>6, <1>11, <1>12, <1>15
      <3>2. CASE \E i \in DOMAIN f.chunks : s.at = start[i] /\ s.id = f.chunks[i].id
        <4>1. PICK i \in DOMAIN f.chunks : s.at = start[i] /\ s.id = f.chunks[i].id
          BY <3>2
        <4>2. a <= i
          BY <4>1, <1>0, <1>11, <1>15
        <4>3. a < i => start[a] + 8 + Padded(f.chunks[a].size) <= start[i]
          BY <1>0, <1>1
        <4>4. ~(a < i)
          BY <4>1, <4>3, <1>0, <1>1, <1>3, <1>12, <1>15
        <4>. QED BY <4>1, <4>2, <4>4, <1>0, <1>1
      <3>. QED BY <3>1, <3>2, <1>7, <1>11, <1>15
    <2>2. t.at = start[d]
      <3>1. CASE t \in f.stray
        BY <3>1, <2>1, <1>3, <1>6, <1>11, <1>13, <1>15
      <3>2. CASE \E i \in DOMAIN f.chunks : t.at = start[i] /\ t.id = f.chunks[i].id
        <4>1. PICK i \in DOMAIN f.chunks : t.at = start[i] /\ t.id = f.chunks[i].id
          BY <3>2
        <4>2. t.id = data /\ t.at >= start[a] + 24 /\ t.at <= start[d]
          BY <2>1, <1>11, <1>13, <1>15
        <4>3. i > a
          <5>1. CASE i < a
            <6>1. start[i] + 8 + Padded(f.chunks[i].size) <= start[a]
              BY <5>1, <1>0, <1>1
            <6>. QED BY <6>1, <4>1, <4>2, <1>0, <1>1
          <5>2. CASE i = a
            BY <5>2, <4>1, <4>2, <1>3
          <5>. QED BY <5>1, <5>2, <1>0, <1>1
        <4>4. d <= i
          BY <4>1, <4>2, <4>3, <1>0
        <4>5. d < i => start[d] + 8 + Padded(f.chunks[d].size) <= start[i]
          BY <1>0, <1>1
        <4>6. ~(d < i)
          BY <4>1, <4>2, <4>5, <1>0, <1>1
        <4>. QED BY <4>1, <4>4, <4>6, <1>0, <1>1
      <3>. QED BY <3>1, <3>2, <1>7, <1>11, <1>15
    <2>. QED BY <2>1, <2>2, <1>4, <1>8, <1>11, <1>15
  <1>. QED BY <1>13, <1>14, <1>15 DEF start, d, a, format, audio

\* The strict reading accepts what the other one accepts, when the sizes that
\* are written in the file fit it.
LEMMA StrictIs ==
  ASSUME NEW f, NEW elem
  PROVE  /\ FromWAVfile(f, elem).status = "ok" =>
              /\ FromWAVfile_2(f, elem) = FromWAVfile(f, elem)
              /\ ~(FromWAVfile(f, elem).offset + FromWAVfile(f, elem).size > elem)
         /\ /\ SizesAgree(f, elem)
            /\ ~(Read(f, Subchunk1(f, elem)).size >= f.chunkSize)
            /\ FromWAVfile_2(f, elem).status = "ok"
            /\ ~(FromWAVfile_2(f, elem).offset + FromWAVfile_2(f, elem).size > elem)
            => FromWAVfile(f, elem) = FromWAVfile_2(f, elem)
  <1>. DEFINE loose == FromWAVfile_2(f, elem)
              strict == FromWAVfile(f, elem)
              s1 == Subchunk1(f, elem)
              cut == [Error("invalid_Subchunk2Size", loose.format) EXCEPT !.size = loose.size]
  <1>1. elem < minWAVheaderSize \/ ~f.riff => loose.status # "ok"
    BY DEF FromWAVfile_2, Error
  <1>2. cut.status # "ok" /\ Error("invalid_chunk_size", NoFormat).status # "ok"
        /\ Error("invalid_Subchunk1Size", NoFormat).status # "ok"
    BY DEF Error
  <1>3. strict = IF elem < minWAVheaderSize \/ ~f.riff THEN loose
                 ELSE IF ~SizesAgree(f, elem) THEN Error("invalid_chunk_size", NoFormat)
                 ELSE IF f.wave /\ s1 # 0 /\ Read(f, s1).size >= f.chunkSize
                 THEN Error("invalid_Subchunk1Size", NoFormat)
                 ELSE IF loose.status # "ok" THEN loose
                 ELSE IF loose.offset + loose.size > elem THEN cut ELSE loose
    BY DEF FromWAVfile
  <1>. HIDE DEF loose, strict, s1, cut
  <1>4. strict.status = "ok" => loose = strict /\ ~(loose.offset + loose.size > elem)
    BY <1>1, <1>2, <1>3
  <1>5. /\ SizesAgree(f, elem) /\ ~(Read(f, s1).size >= f.chunkSize)
        /\ loose.status = "ok" /\ ~(loose.offset + loose.size > elem)
        => strict = loose
    BY <1>1, <1>2, <1>3
  <1>. QED BY <1>4, <1>5 DEF loose, strict, s1

\* A complete file that does not mislead is read as the walk reads it by both.
LEMMA CompleteIs ==
  ASSUME NEW f, IsLayout(f), WellFormed(f), ~Misled(f)
  PROVE  FromWAVfile(f, f.length) = Walk(f)
  <1>. DEFINE a == FmtChunk(f)
              d == DataChunk(f)
              start == StartOf(f)
              loose == FromWAVfile_2(f, f.length)
  <1>1. /\ f.length \in Nat /\ f.chunkSize \in Nat
        /\ f.chunks[a].size \in Nat /\ f.chunks[d].size \in Nat
        /\ f.chunks[a].size <= Padded(f.chunks[a].size) /\ Padded(f.chunks[a].size) \in Nat
        /\ f.chunks[d].size <= Padded(f.chunks[d].size) /\ Padded(f.chunks[d].size) \in Nat
        /\ start[a] \in Nat /\ start[d] \in Nat
        /\ start[a] + 8 + Padded(f.chunks[a].size) <= start[d]
        /\ start[d] + 8 + Padded(f.chunks[d].size) <= f.length
        /\ f.chunkSize + 8 = f.length
        /\ f.chunks[d].size > 0
    <2>1. /\ a \in DOMAIN f.chunks /\ d \in DOMAIN f.chunks /\ a < d
          /\ f.length = EndOf(f) /\ f.chunkSize + 8 = f.length
      BY WalkIs
    <2>2. f.chunks[d].size > 0
      BY DEF WellFormed
    <2>. HIDE DEF a, d
    <2>. QED BY <2>1, <2>2, ChunksAre, InOrder DEF TagAndSize
  <1>2. start[d] + 8 < f.length /\ f.chunks[a].size < f.chunkSize
        /\ start[d] + 8 + f.chunks[d].size <= f.length
    <2>. HIDE DEF a, d, start
    <2>. QED BY <1>1
  <1>3. Leads(f, f.length, Tag(f, a), Tag(f, d))
    <2>1. PICK s, t : Leads(f, f.length, s, t)
      BY <1>1, <1>2, ReadingIs
    <2>. QED BY <2>1, <1>1, ReadingIs
  <1>4. /\ loose = Walk(f) /\ Subchunk1(f, f.length) = start[a]
        /\ Walk(f).status = "ok" /\ Walk(f).offset = start[d] + 8
        /\ Walk(f).size = f.chunks[d].size
    BY <1>3, AcceptedIs DEF Walk, Tag, TagAndSize
  <1>5. Read(f, start[a]).size = f.chunks[a].size
    <2>1. Tag(f, a) \in Tags(f)
      BY <1>3, LeadsTo
    <2>2. Read(f, Tag(f, a).at) = Tag(f, a)
      BY <2>1, ReadIs
    <2>. QED BY <2>2 DEF Tag
  <1>6. ~(Read(f, Subchunk1(f, f.length)).size >= f.chunkSize)
    <2>. HIDE DEF a, d, start
    <2>. QED BY <1>1, <1>2, <1>4, <1>5
  <1>7. ~(loose.offset + loose.size > f.length)
    <2>. HIDE DEF a, d, start, loose
    <2>. QED BY <1>1, <1>2, <1>4
  <1>8. SizesAgree(f, f.length)
    BY <1>1 DEF SizesAgree
  <1>. QED BY <1>4, <1>6, <1>7, <1>8, StrictIs

-----------------------------------------------------------------------------
(* What the opening knows of the file                                      *)

\* The file stays; from the reading of its header on a WAV source has what that
\* reading found, and a FLAC source has the format of the stream.
WhatIsRead ==
    /\ path \in Paths
    /\ pc = "bytes" \/ (pc \in {"datapoints", "open"} /\ path.filetype = "wav") =>
         /\ Parsed.status = "ok"
         /\ aud_header = Parsed.format
         /\ audiodata = [offset |-> Parsed.offset, size |-> Parsed.size]
    /\ status = "WAVheaderError" => path.filetype = "wav" /\ Parsed.status # "ok"
    /\ pc = "format" => aud_header = path.streaminfo
    /\ pc = "buffer" \/ (pc \in {"datapoints", "open"} /\ path.filetype = "flac") =>
         aud_header = path.streaminfo /\ aud_header \in {"int16", Garbage}

LEMMA ElemIs ==
  ASSUME path \in Paths
  PROVE  IsLayout(path.layout) /\ Elem \in Nat
  <1>1. IsLayout(path.layout) /\ Boundary \in Nat
    BY OpenBufferAssumption
  <1>2. path.layout.length \in Nat
    BY <1>1, ChunksAre
  <1>. QED BY <1>1, <1>2 DEF Elem

\* What the reading of the first bytes is led to.
LEMMA ParsedIs ==
  ASSUME path \in Paths, Parsed.status = "ok"
  PROVE  \E s, t \in Tags(path.layout) :
           /\ Leads(path.layout, Elem, s, t)
           /\ Parsed = [status |-> "ok", format |-> s.format, offset |-> t.at + 8, size |-> t.size]
           /\ Parsed.format # NoFormat /\ Parsed.size \in Nat
  <1>1. IsLayout(path.layout)
    BY ElemIs
  <1>2. PICK s, t : Leads(path.layout, Elem, s, t)
    BY <1>1, AcceptedIs DEF Parsed
  <1>3. Parsed = [status |-> "ok", format |-> s.format, offset |-> t.at + 8, size |-> t.size]
    BY <1>1, <1>2, AcceptedIs DEF Parsed
  <1>4. s \in Tags(path.layout) /\ t \in Tags(path.layout) /\ s.format # NoFormat /\ t.size \in Nat
    BY <1>1, <1>2, LeadsTo
  <1>. QED BY <1>2, <1>3, <1>4

LEMMA WhatIsReadInit == Init => WhatIsRead
  BY DEF Init, WhatIsRead

\* The reading sets the header and the place of the audio, or fails.
LEMMA WhatIsReadNext == IInv /\ WhatIsRead /\ [Next]_vars => WhatIsRead'
<1> SUFFICES ASSUME IInv, WhatIsRead, [Next]_vars PROVE WhatIsRead'
  OBVIOUS
<1>0. RightSource
  BY DEF IInv
<1>1. path' = path /\ (Parsed' = Parsed) /\ path \in Paths
  <2>1. path' = path
    BY DEF Next, vars, New, NoFiletype, Filetype, FiletypeCrash, UnknownFiletype, OpenFile,
           ReadHeader, ParseHeader, WAVbytes, NewDecoder, InitDecoder, ReadMetadata,
           CheckFormat, FLACbytes, SourceFailed, Allocate, Close, Crashed
  <2> QED
    BY <2>1 DEF Parsed, Elem, WhatIsRead
<1>2. ASSUME status' = status, pc' \notin {"bytes", "datapoints", "open", "format", "buffer"}
      PROVE  WhatIsRead'
  BY <1>1, <1>2 DEF WhatIsRead
<1>3. ASSUME status' # "WAVheaderError",
             pc' \notin {"bytes", "datapoints", "open", "format", "buffer"}
      PROVE  WhatIsRead'
  BY <1>1, <1>3 DEF WhatIsRead
<1>4. ASSUME NEW err, NEW rs, SourceFails(err, rs), err # "WAVheaderError" PROVE WhatIsRead'
  BY <1>3, <1>4 DEF SourceFails, Goto
<1>5. ASSUME NEW r, NEW label, Acquire(r, label),
             label \notin {"bytes", "datapoints", "open", "format", "buffer"}
      PROVE  WhatIsRead'
  BY <1>2, <1>5 DEF Acquire, Goto
<1>6. CASE New
  BY <1>3, <1>6 DEF New, Goto
<1>7. CASE NoFiletype \/ Filetype \/ FiletypeCrash
  BY <1>2, <1>3, <1>7 DEF NoFiletype, Filetype, FiletypeCrash, Acquire, Goto
<1>8. CASE UnknownFiletype
  BY <1>4, <1>8 DEF UnknownFiletype
<1>9. CASE OpenFile \/ ReadHeader
  BY <1>4, <1>5, <1>9 DEF OpenFile, ReadHeader
<1>10. CASE ParseHeader
  <2>1. path.filetype = "wav"
    BY <1>0, <1>10 DEF ParseHeader, RightSource, WavSteps
  <2>2. CASE Parsed.status = "ok" /\ Goto("bytes") /\ UNCHANGED status
    <3>1. Parsed.format # NoFormat
      BY <2>2, <1>1, ElemIs, ParsedIs
    <3>2. aud_header' = Parsed.format
          /\ audiodata' = [offset |-> Parsed.offset, size |-> Parsed.size]
      BY <3>1, <2>2, <1>10 DEF ParseHeader
    <3> QED
      BY <3>2, <2>1, <2>2, <1>1 DEF WhatIsRead, Goto
  <2>3. CASE Parsed.status # "ok" /\ SourceFails("WAVheaderError", HeaderBuffer \cup {"aud_file"})
    BY <2>1, <2>3, <1>1 DEF WhatIsRead, SourceFails, Goto
  <2>4. CASE SourceFails("FileReadError", HeaderBuffer \cup {"aud_file"})
    BY <2>4, <1>4
  <2> QED
    BY <2>2, <2>3, <2>4, <1>10 DEF ParseHeader
<1>11. CASE WAVbytes
  <2>1. pc = "bytes" /\ path.filetype = "wav" /\ UNCHANGED <<path, fields>>
    BY <1>0, <1>11 DEF WAVbytes, RightSource, WavSteps
  <2>2. CASE Acquire("read_bytes", "datapoints")
    BY <2>1, <2>2, <1>1 DEF WhatIsRead, Acquire, Goto, fields
  <2>3. CASE SourceFails("AllocError", {"aud_file"})
    BY <2>3, <1>4
  <2> QED
    BY <2>2, <2>3, <1>11 DEF WAVbytes
<1>12. CASE NewDecoder
  BY <1>4, <1>5, <1>12 DEF NewDecoder
<1>13. CASE InitDecoder
  <2>1. CASE Goto("metadata") /\ UNCHANGED status
    BY <2>1, <1>2 DEF Goto
  <2>2. ASSUME NEW err \in InitError, SourceFails(err, {"decoder"}) PROVE WhatIsRead'
    BY <2>2, <1>4 DEF InitError
  <2> QED
    BY <2>1, <2>2, <1>13 DEF InitDecoder
<1>14. CASE ReadMetadata
  <2>1. CASE aud_header' = path.streaminfo /\ Goto("format") /\ UNCHANGED status
    BY <2>1, <1>1 DEF WhatIsRead, Goto
  <2>2. CASE SourceFails("UnknownError", {"decoder"})
    BY <2>2, <1>4
  <2> QED
    BY <2>1, <2>2, <1>14 DEF ReadMetadata
<1>15. CASE CheckFormat
  <2>1. pc = "format" /\ path.filetype = "flac" /\ UNCHANGED fields
    BY <1>0, <1>15 DEF CheckFormat, RightSource, FlacSteps
  <2>2. CASE SourceFails("InvalidAudFormat", {"decoder"})
    BY <2>2, <1>4
  <2>3. CASE (~Unsupported(aud_header) \/ aud_header = Garbage) /\ Goto("buffer")
             /\ UNCHANGED status
    BY <2>1, <2>3, <1>1 DEF WhatIsRead, Unsupported, Goto, fields
  <2> QED
    BY <2>2, <2>3, <1>15 DEF CheckFormat
<1>16. CASE FLACbytes
  <2>1. pc = "buffer" /\ path.filetype = "flac" /\ UNCHANGED <<path, fields>>
    BY <1>0, <1>16 DEF FLACbytes, RightSource, FlacSteps
  <2>2. CASE Acquire("read_bytes", "datapoints")
    BY <2>1, <2>2, <1>1 DEF WhatIsRead, Acquire, Goto, fields
  <2>3. CASE SourceFails("AllocError", {"decoder"})
    BY <2>3, <1>4
  <2> QED
    BY <2>2, <2>3, <1>16 DEF FLACbytes
<1>17. CASE SourceFailed \/ Close
  BY <1>2, <1>17 DEF SourceFailed, Close, Goto
<1>18. CASE Allocate
  <2>1. pc = "datapoints" /\ UNCHANGED fields
    BY <1>18 DEF Allocate
  <2>2. CASE status' = "OK" /\ Goto("open")
    BY <2>1, <2>2, <1>1 DEF WhatIsRead, Goto, fields
  <2>3. CASE status' = "AllocError" /\ Goto("closed")
    BY <2>3, <1>3 DEF Goto
  <2> QED
    BY <2>2, <2>3, <1>18 DEF Allocate
<1>19. CASE Crashed \/ UNCHANGED vars
  BY <1>19, <1>1 DEF Crashed, vars, WhatIsRead
<1> QED
  BY <1>6, <1>7, <1>8, <1>9, <1>10, <1>11, <1>12, <1>13, <1>14, <1>15, <1>16, <1>17, <1>18,
     <1>19 DEF Next

LEMMA WhatIsReadAlways == Spec => [](IInv /\ WhatIsRead)
  BY IInvInit, IInvNext, WhatIsReadInit, WhatIsReadNext, PTL DEF Spec

\* An open FLAC stream has the one format that its source can read, or began
\* without a STREAMINFO block; an open WAV file has the format and the place of
\* its audio, whatever the layout of the file (KnowsItsFormat).
THEOREM FormatKnown == Spec => []KnowsItsFormat
<1>1. IInv /\ WhatIsRead => KnowsItsFormat
  <2> SUFFICES ASSUME IInv, WhatIsRead, pc = "open" PROVE KnowsItsFormat
    BY DEF KnowsItsFormat
  <2>1. path.filetype \in {"wav", "flac"} /\ path \in Paths
    BY DEF IInv, RightSource, WhatIsRead
  <2>2. CASE path.filetype = "flac"
    BY <2>2 DEF WhatIsRead, KnowsItsFormat
  <2>3. CASE path.filetype = "wav"
    <3> DEFINE f == path.layout
    <3>1. /\ Parsed.status = "ok" /\ aud_header = Parsed.format
          /\ audiodata = [offset |-> Parsed.offset, size |-> Parsed.size]
      BY <2>3 DEF WhatIsRead
    <3>2. PICK s \in Tags(f), t \in Tags(f) :
            Parsed.format = s.format /\ Parsed.size \in Nat
      BY <3>1, <2>1, ParsedIs
    <3>3. aud_header # Garbage
      BY <3>1, <3>2, <2>1, OpenBufferAssumption
    <3>4. audiodata.size # Anywhere.size
      BY <3>1, <3>2 DEF Anywhere
    <3> QED
      BY <3>3, <3>4, <2>3 DEF KnowsItsFormat
  <2> QED
    BY <2>1, <2>2, <2>3
<1> QED
  BY <1>1, WhatIsReadAlways, PTL

\* A complete WAV file, of any number of chunks of any sizes, with the letters of
\* tags in its payloads or not, is opened with what a walk over its chunks finds
\* unless such letters mislead the search; never behind the start of its audio;
\* and is refused for its header only when its audio starts behind the part of it
\* that is read (ReadsHeader).
THEOREM HeaderRead == Spec => []ReadsHeader
<1>1. IInv /\ WhatIsRead => ReadsHeader
  <2> SUFFICES ASSUME IInv, WhatIsRead, path.filetype = "wav", WellFormed(path.layout)
               PROVE  LET walk == Walk(path.layout)
                      IN  /\ pc = "open" =>
                               /\ audiodata.offset <= walk.offset
                               /\ ~Misled(path.layout) =>
                                    /\ aud_header = walk.format
                                    /\ audiodata = [offset |-> walk.offset, size |-> walk.size]
                          /\ status = "WAVheaderError" => walk.offset >= Boundary
    BY DEF ReadsHeader
  <2> DEFINE f == path.layout
             behind == StartOf(f)[DataChunk(f)] + 8
  <2>0. path \in Paths /\ IsLayout(f) /\ WellFormed(f) /\ Elem \in Nat
    BY ElemIs DEF WhatIsRead
  <2>a. DataChunk(f) \in DOMAIN f.chunks
    BY <2>0, WalkIs
  <2>b. StartOf(f)[DataChunk(f)] \in Nat
    BY <2>0, <2>a, InOrder
  <2>c. Walk(f).offset = behind
    BY DEF Walk, TagAndSize
  <2>1. ASSUME pc = "open"
        PROVE  /\ audiodata.offset <= Walk(f).offset
               /\ ~Misled(f) => /\ aud_header = Walk(f).format
                                /\ audiodata = [offset |-> Walk(f).offset, size |-> Walk(f).size]
    <3>1. /\ Parsed.status = "ok" /\ aud_header = Parsed.format
          /\ audiodata = [offset |-> Parsed.offset, size |-> Parsed.size]
      BY <2>1 DEF WhatIsRead
    <3>2. PICK s, t \in Tags(f) :
            /\ Leads(f, Elem, s, t)
            /\ Parsed = [status |-> "ok", format |-> s.format,
                         offset |-> t.at + 8, size |-> t.size]
      BY <3>1, <2>0, ParsedIs
    <3>3. t.at <= StartOf(f)[DataChunk(f)] /\ t.at \in Nat
      <4> HIDE DEF f
      <4> QED
        BY <3>2, <2>0, ReadingIs, LeadsTo
    <3>4. audiodata.offset = t.at + 8
      BY <3>1, <3>2
    <3>5. audiodata.offset <= behind
      BY <3>3, <3>4, <2>b
    <3>6. ASSUME ~Misled(f) PROVE Parsed = Walk(f)
      <4>1. s = Tag(f, FmtChunk(f)) /\ t = Tag(f, DataChunk(f))
        <5> HIDE DEF f
        <5> QED
          BY <3>2, <3>6, <2>0, ReadingIs
      <4> QED
        BY <4>1, <3>2 DEF Walk, Tag, TagAndSize
    <3> QED
      BY <3>1, <3>5, <3>6, <2>c
  <2>2. ASSUME status = "WAVheaderError" PROVE Walk(f).offset >= Boundary
    <3>1. FromWAVfile_2(f, Elem).status # "ok"
      BY <2>2 DEF WhatIsRead, Parsed
    <3>2. ~(behind < Elem)
      <4>1. \A s, t : ~Leads(f, Elem, s, t)
        BY <3>1, <2>0, AcceptedIs
      <4> QED
        BY <4>1, <2>0, ReadingIs
    <3>3. behind < f.length
      <4>1. /\ f.length = EndOf(f) /\ f.chunks[DataChunk(f)].size > 0
        BY <2>0, WalkIs DEF WellFormed
      <4> DEFINE d == DataChunk(f)
                 size == f.chunks[d].size
                 start == StartOf(f)[d]
      <4>2. /\ start \in Nat /\ size \in Nat /\ Padded(size) \in Nat /\ size <= Padded(size)
            /\ start + 8 + Padded(size) <= f.length /\ size > 0 /\ f.length \in Nat
        <5> HIDE DEF d
        <5> QED
          BY <4>1, <2>0, <2>a, ChunksAre, InOrder DEF TagAndSize, d
      <4> HIDE DEF d, size, start
      <4>3. start + 8 < f.length
        BY <4>2
      <4> QED
        BY <4>3 DEF start, d
    <3>4. Elem = Boundary \/ Elem = f.length
      BY DEF Elem
    <3>5. f.length \in Nat /\ Boundary \in Nat
      BY <2>0, ChunksAre, OpenBufferAssumption
    <3> QED
      BY <3>2, <3>3, <3>4, <3>5, <2>b, <2>c
  <2> QED
    BY <2>1, <2>2
<1> QED
  BY <1>1, WhatIsReadAlways, PTL

\* The strict reading of a whole file accepts every complete file that does not
\* mislead the search, and what it accepts is opened from the first bytes with
\* the same result, or has its audio behind them (StrictAgrees).
THEOREM ReadingsAgree == Spec => []StrictAgrees
<1>1. WhatIsRead => StrictAgrees
  <2> SUFFICES ASSUME WhatIsRead, path.filetype = "wav" PROVE StrictAgrees
    BY DEF StrictAgrees
  <2> DEFINE f == path.layout
             whole == FromWAVfile(f, f.length)
             loose == FromWAVfile_2(f, f.length)
  <2>1. IsLayout(f) /\ f.length \in Nat /\ path \in Paths /\ Elem \in Nat /\ Boundary \in Nat
        /\ Elem <= f.length /\ (Elem = f.length \/ Elem = Boundary)
    <3>1. IsLayout(f) /\ path \in Paths /\ Elem \in Nat /\ Boundary \in Nat
      BY ElemIs, OpenBufferAssumption DEF WhatIsRead
    <3>2. f.length \in Nat
      BY <3>1, ChunksAre
    <3> QED
      BY <3>1, <3>2 DEF Elem
  <2>2. WellFormed(f) /\ ~Misled(f) => whole = Walk(f)
    BY <2>1, CompleteIs
  <2>3. ASSUME whole.status = "ok"
        PROVE  /\ pc = "open" => /\ aud_header = whole.format
                                 /\ audiodata = [offset |-> whole.offset, size |-> whole.size]
               /\ status = "WAVheaderError" => whole.offset >= Boundary
    <3>1. loose = whole
      BY <2>3, StrictIs
    <3>2. PICK s, t : Leads(f, f.length, s, t)
      BY <2>1, <2>3, <3>1, AcceptedIs
    <3>3. whole = [status |-> "ok", format |-> s.format, offset |-> t.at + 8, size |-> t.size]
      BY <2>1, <3>1, <3>2, AcceptedIs
    <3>4. t.at \in Nat /\ t.at + 8 < f.length
      <4> HIDE DEF f
      <4> QED
        BY <2>1, <3>2, LeadsTo
    <3>5. ASSUME pc = "open"
          PROVE  /\ aud_header = whole.format
                 /\ audiodata = [offset |-> whole.offset, size |-> whole.size]
      <4>1. /\ Parsed.status = "ok" /\ aud_header = Parsed.format
            /\ audiodata = [offset |-> Parsed.offset, size |-> Parsed.size]
        BY <3>5 DEF WhatIsRead
      <4>2. PICK u, v \in Tags(f) :
              /\ Leads(f, Elem, u, v)
              /\ Parsed = [status |-> "ok", format |-> u.format,
                           offset |-> v.at + 8, size |-> v.size]
        BY <4>1, <2>1, ParsedIs
      <4>3. Leads(f, f.length, u, v)
        BY <4>2, <2>1, LeadsAlike
      <4>4. loose = Parsed
        BY <4>2, <4>3, <2>1, AcceptedIs
      <4> QED
        BY <4>1, <4>4, <3>1
    <3>6. ASSUME status = "WAVheaderError" PROVE whole.offset >= Boundary
      <4>1. FromWAVfile_2(f, Elem).status # "ok"
        BY <3>6 DEF WhatIsRead, Parsed
      <4>2. ~Leads(f, Elem, s, t)
        BY <4>1, <2>1, AcceptedIs
      <4>3. ~(t.at + 8 < Elem)
        BY <4>2, <3>2, <2>1, LeadsAlike
      <4>4. whole.offset = t.at + 8
        BY <3>3
      <4> HIDE DEF whole, f
      <4> QED
        BY <4>3, <4>4, <3>4, <2>1
    <3> QED
      BY <3>5, <3>6
  <2> QED
    BY <2>2, <2>3 DEF StrictAgrees
<1> QED
  BY <1>1, WhatIsReadAlways, PTL
=============================================================================
