---------------------------- MODULE ChunkStream ----------------------------
(***************************************************************************)
(* What the loading routines of the two sources                            *)
(* (ntrb_BufferSource_WAVfile_load_buffer, BufferSource_FLACfile_load_buffer) *)
(* read, in bytes, and what they leave in the datapoints of the buffer.     *)
(* AudioBuffer has the threads and the locks of these routines, and chunks  *)
(* for positions; here one caller loads one file to its end, and the sizes  *)
(* and places of its reads are computed as the code does, in floats.        *)
(*                                                                         *)
(* A float is a number of units of 1 / Scale, a multiple of a power of two  *)
(* by one of Significands numbers; the sample rates and sizes are scaled   *)
(* down with that number.                                                  *)
(***************************************************************************)
EXTENDS StdAudFmt, FiniteSetsExt

CONSTANTS
    FrameCount,  \* stdaud_frame_count, the frames in the datapoints
    Significands, \* the numbers below 2^24, for the 24 bits of a significand
    Spacings,    \* the distances between neighbouring floats, in units
    Lengths      \* the lengths of the files, in frames

ASSUME ChunkStreamAssumption ==
    /\ FrameCount \in Nat \ {0} /\ Significands \in Nat \ {0}
    /\ Lengths \subseteq Nat

Sources == {"wav", "flac"}

VARIABLES
    file,             \* [kind, frames, present]: a WAV file may be truncated
    first_frame,      \* stdaud_buffer_first_frame
    next_first_frame, \* stdaud_next_buffer_first_frame
    bytes_in_buffer,  \* of the FLAC source
    datapoints,
    load_err,
    chunk             \* [start, end): the bytes of the file read last, history

vars == <<conversionVars, file, first_frame, next_first_frame, bytes_in_buffer,
          datapoints, load_err, chunk>>

SampleSize    == header.BitsPerSample \div 8
FrameSize     == header.NumChannels * SampleSize
AudiodataSize == file.frames * FrameSize

-----------------------------------------------------------------------------
(* Floats                                                                  *)

Scale == 4 * Significands
Real(n) == n * Scale

\* n / d rounded to an integer, halves to the even one.
Rounded(n, d) ==
    LET q == n \div d
        r == n % d
    IN  IF 2 * r > d \/ (2 * r = d /\ q % 2 = 1) THEN q + 1 ELSE q

\* A bound of the model: greater floats are no farther apart.
MaxSpacing == Max(Spacings)

\* The powers of two up to one of them.
ASSUME SpacingsAssumption ==
    /\ 1 \in Spacings /\ MaxSpacing \in Spacings /\ Spacings \subseteq 1 .. MaxSpacing
    /\ \A s \in Spacings \ {MaxSpacing} : 2 * s \in Spacings
    /\ \A s \in Spacings \ {1} : s % 2 = 0 /\ s \div 2 \in Spacings
    /\ \A s, t \in Spacings : s <= t => t % s = 0

\* As 2^24 has it: the whole numbers among the floats are multiples of the spacing,
\* and so are the numbers of bytes, where floats are close enough to tell them apart.
ASSUME SignificandsAssumption ==
    /\ Significands % 2 = 0
    /\ \A s \in Spacings, n \in {Scale, Scale \div 2, Scale \div 4, Scale \div 8} :
         n % s = 0 \/ s % n = 0

\* The float nearest to n / d units.
Single(n, d) ==
    LET spacing == Min({s \in Spacings : n \div d < s * Significands \/ s = MaxSpacing})
    IN  Rounded(n, d * spacing) * spacing

FromInt(n)  == Single(Real(n), 1)
Times(a, b) == Single(a * b, Scale)
Floor(a)    == a \div Scale
Ceil(a)     == Ceiling(a, Scale)

-----------------------------------------------------------------------------
(* Sizes and places                                                        *)

FileSamplerateOverStdaud == Single(Real(header.SampleRate), StdRate)

SamplesToRead ==
    Times(Times(FileSamplerateOverStdaud, FromInt(FrameCount)), FromInt(header.NumChannels))

\* A mutation of BytesToRead: the size is rounded up, as that of a FLAC chunk is.
BytesToRead_up == Ceil(SamplesToRead) * SampleSize

BytesToRead == Floor(SamplesToRead) * SampleSize  \* WAV
BufferSize  == Ceil(SamplesToRead) * SampleSize   \* FLAC

\* A mutation of Position: the channels are left out.
Position_mono ==
    Floor(Times(Times(FromInt(next_first_frame), FileSamplerateOverStdaud), FromInt(SampleSize)))

\* The byte of the audio data a WAV chunk starts at, and the frame a FLAC
\* chunk starts at.
Position ==
    Floor(Times(Times(Times(FromInt(next_first_frame), FileSamplerateOverStdaud),
                      FromInt(header.NumChannels)), FromInt(SampleSize)))

StartFrame == Floor(Times(FromInt(next_first_frame), FileSamplerateOverStdaud))

\* A mutation of FramesToFill: the bound is tested after the frame is written.
FramesToFill_late == BufferSize \div FrameSize + 1

\* The frames the decoder writes: whole ones until the buffer is full.
FramesToFill == Ceiling(BufferSize, FrameSize)

\* The samples in n bytes from byte start on.
Input(start, n) ==
    Datapoints([i \in 1 .. n \div SampleSize |-> start + SampleSize * (i - 1)], n % SampleSize)

-----------------------------------------------------------------------------
Init ==
    /\ ConversionInit
    /\ file \in [kind : Sources, frames : Lengths, present : Lengths]
    /\ file.present <= file.frames
    /\ file.kind = "flac" => file.present = file.frames /\ header.BitsPerSample = 16
    /\ first_frame = 0
    /\ next_first_frame = 0
    /\ bytes_in_buffer = 0
    /\ datapoints = [i \in 1 .. FrameCount * StdChannels |-> Silence]
    /\ load_err = "OK"
    /\ chunk = [start |-> 0, end |-> 0]

\* A track is loaded again only while load_err is OK.
Loading(kind) == pc = "idle" /\ load_err = "OK" /\ file.kind = kind

\* A mutation of ZeroFilled: the datapoints of the chunk before stay.
ZeroFilled_not == datapoints

ZeroFilled == [i \in 1 .. FrameCount * StdChannels |-> Silence]

\* The load ends early: only the zero fill has happened.
GiveUp(err) ==
    /\ load_err' = err
    /\ datapoints' = ZeroFilled
    /\ UNCHANGED <<conversionVars, file, first_frame, next_first_frame, chunk>>

\* n bytes from start on have been read: they are converted.
HaveRead(start, n) ==
    /\ datapoints' = ZeroFilled
    /\ first_frame' = next_first_frame
    /\ next_first_frame' = next_first_frame + FrameCount
    /\ chunk' = [start |-> start, end |-> start + n]
    /\ Convert(Input(start, n))
    /\ UNCHANGED <<file, load_err>>

WavStart == Clamp(Position, AudiodataSize)

\* A mutation of WavBytes: the last read is not cut down to what is left.
WavBytes_whole == BytesToRead

WavBytes == Clamp(BytesToRead, AudiodataSize - WavStart)
Truncated == WavStart + WavBytes > file.present * FrameSize

WAV_EOF ==
    /\ Loading("wav")
    /\ AudiodataSize - WavStart = 0
    /\ GiveUp("EOF")
    /\ UNCHANGED bytes_in_buffer

WAV_UnequalRead ==
    /\ Loading("wav")
    /\ AudiodataSize - WavStart # 0
    /\ Truncated
    /\ GiveUp("UnequalRead")
    /\ UNCHANGED bytes_in_buffer

WAV_Read ==
    /\ Loading("wav")
    /\ AudiodataSize - WavStart # 0
    /\ ~Truncated
    /\ HaveRead(WavStart, WavBytes)
    /\ UNCHANGED bytes_in_buffer

\* The frames from where the decoder seeks to; past the end it refuses.
FramesAhead == IF StartFrame >= file.frames THEN 0 ELSE file.frames - StartFrame

\* The buffer is empty when a load starts: the load before succeeded.
FLAC_EOF ==
    /\ Loading("flac")
    /\ FramesAhead < FramesToFill
    /\ bytes_in_buffer' = FramesAhead * FrameSize
    /\ GiveUp("EOF")

FLAC_Read ==
    /\ Loading("flac")
    /\ FramesAhead >= FramesToFill
    /\ bytes_in_buffer' = FramesToFill * FrameSize
    /\ HaveRead(StartFrame * FrameSize, BufferSize)

\* memcpy to the front of the datapoints; a longer result goes on behind them.
Copied(result) ==
    [i \in 1 .. IF Len(result) > Len(datapoints) THEN Len(result) ELSE Len(datapoints) |->
       IF i <= Len(result) THEN result[i] ELSE datapoints[i]]

Deliver ==
    /\ pc = "ok"
    /\ datapoints' = Copied(Content("current").data)
    /\ Free({"current"})
    /\ Goto("idle")
    /\ bytes_in_buffer' = 0
    /\ UNCHANGED <<header, plenty, file, first_frame, next_first_frame, load_err, chunk>>

ConversionError ==
    /\ pc = "failed"
    /\ load_err' = "StdaudConversionError"
    /\ Goto("idle")
    /\ UNCHANGED <<header, var, heap, live, plenty, misfreed, file, first_frame, next_first_frame,
                   bytes_in_buffer, datapoints, chunk>>

Convey ==
    /\ Conversion
    /\ UNCHANGED <<file, first_frame, next_first_frame, bytes_in_buffer, datapoints,
                   load_err, chunk>>

\* The engine is done with the track.
Retired == pc = "idle" /\ load_err # "OK" /\ UNCHANGED vars

Next ==
    \/ WAV_EOF \/ WAV_UnequalRead \/ WAV_Read \/ FLAC_EOF \/ FLAC_Read
    \/ Convey \/ Deliver \/ ConversionError \/ Retired

Spec == Init /\ [][Next]_vars

-----------------------------------------------------------------------------
(* Properties                                                              *)

\* The FLAC decoder, which writes whole frames while the buffer is not full,
\* exceeds read_bytes by less than a frame of the file, and by nothing when it is
\* mono: the size of the buffer is rounded up to whole samples, not to frames
\* (BufferSource_FLACfile.c:39, 117).
ReadBytesFit ==
    /\ bytes_in_buffer < BufferSize + FrameSize
    /\ header.NumChannels = 1 => bytes_in_buffer <= BufferSize

\* A WAV chunk fits the datapoints; a FLAC chunk, whose size is rounded up,
\* exceeds them by less than what one frame of the file becomes
\* (BufferSource_FLACfile.c:177).
Fits ==
    LET surplus == Len(datapoints) \div StdChannels - FrameCount
    IN  surplus > 0 => file.kind = "flac" /\ surplus * header.SampleRate < StdRate

\* Where Fits can be proved: the size of a chunk in floats is never above a whole
\* number of samples that the exact size is not above.
RoundsWell ==
    \A rate \in Rates, channels \in Channels :
      LET exact == rate * FrameCount * channels  \* times StdRate
          float == Times(Times(Single(Real(rate), StdRate), FromInt(FrameCount)), FromInt(channels))
      IN  Floor(float) * StdRate <= exact /\ Ceil(float) <= Ceiling(exact, StdRate)

\* Where EndsWell can be proved: a whole chunk makes a frame at the standard rate, and
\* of mono audio a chunk leaves no three quarters of a frame for the next.
PlacesWell(rate) ==
    LET ratio == Single(Real(rate), StdRate)
        Whole(channels) == Floor(Times(Times(ratio, FromInt(FrameCount)), FromInt(channels)))
    IN  /\ \A channels \in Channels : (Whole(channels) \div channels) * StdRate >= rate
        /\ 4 * (ratio * FrameCount) < Real(4 * Whole(1) + 3)

\* Floats tell the samples up to here, and the frames played so far, apart.
Exact(position) ==
    position \div SampleSize < Significands /\ next_first_frame < Significands

\* Each chunk goes on where the one before it ended: no sample is played twice
\* or left out where a chunk is a whole number of frames of the file, and where
\* it is not at most one frame is left out, or, of a FLAC file, repeated
\* (BufferSource_WAVfile.c:95-98, BufferSource_FLACfile.c:150-151).
ChunksMeet ==
    [][(first_frame' # first_frame /\ Exact(chunk'.start)) =>
         LET gap == chunk'.start - chunk.end
         IN  IF (header.SampleRate * FrameCount) % StdRate = 0 THEN gap = 0
             ELSE gap \in (IF file.kind = "wav" THEN 0 ELSE -FrameSize) .. FrameSize]_vars

\* What is played is the chunk read last, then silence: nothing that lies
\* outside of it, or is left from the chunk before, and nothing once the file
\* has ended (the memset of both loading routines).
PlaysOnlyTheChunk ==
    (pc = "idle" /\ load_err # "StdaudConversionError") =>
      \A i \in DOMAIN datapoints :
        datapoints[i] # Silence =>
          /\ load_err = "OK"
          /\ chunk.start <= datapoints[i].lo
          /\ datapoints[i].hi + SampleSize <= chunk.end

\* How a track may end.  At the end of a WAV file at most one frame is
\* unplayed, of a FLAC file at most a chunk; a read comes up short only when
\* the file is truncated; and with memory to be had a chunk fails to convert
\* only when it is the end of a WAV file and too short to make one frame, or an
\* odd number of bytes that cannot be split into channels.
EndsWell ==
    /\ (load_err = "EOF" /\ Exact(AudiodataSize)) =>
         AudiodataSize - chunk.end <= IF file.kind = "wav" THEN FrameSize ELSE BufferSize
    /\ load_err = "UnequalRead" => file.present < file.frames
    /\ (load_err = "StdaudConversionError" /\ plenty) =>
         /\ file.kind = "wav"
         /\ chunk.end = AudiodataSize
         /\ LET bytes == chunk.end - chunk.start
            IN  \/ (bytes \div FrameSize) * StdRate < header.SampleRate
                \/ bytes % 2 = 1 /\ header.NumChannels = 2 /\ header.BitsPerSample = 32

-----------------------------------------------------------------------------
(* What a comment says and the code does not do                            *)

\* Of the datapoints that are split, those at offset 0 are the left channel
\* (aud_std_fmt.c:57).
ZeroOffsetIsLeft ==
    (header.NumChannels = 2 /\ var["orig_l"] # NULL) =>
      \A i \in DOMAIN Content("orig_l").data : Content("orig_l").data[i].lo % FrameSize = 0
=============================================================================
