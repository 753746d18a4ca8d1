----------------------------- MODULE StdAudFmt -----------------------------
(***************************************************************************)
(* The conversion of a chunk of audio to the standard format               *)
(* (ntrb_to_standard_format, src/aud_std_fmt.c): to floats, to stereo, to   *)
(* the standard sample rate, each step into memory of its own that may not *)
(* be had.  One action is one allocation with the frees that follow it.    *)
(*                                                                         *)
(* A datapoint is not a number here but where it comes from: a sample of   *)
(* the input is its place in the file, in bytes, and a float the places of *)
(* the two it is interpolated between.  Memory holds datapoints and a tail *)
(* of bytes that are not a whole one.  ChunkStream reads the input and     *)
(* calls Convert.                                                          *)
(***************************************************************************)
EXTENDS Integers, Sequences

CONSTANTS
    Block,     \* the addresses calloc can return
    StdRate,   \* ntrb_std_samplerate
    Rates,     \* the sample rates of the inputs
    ORIG,      \* the caller's memory, which holds the input
    NULL

ASSUME StdAudFmtAssumption ==
    /\ NULL \notin Block \cup {ORIG} /\ ORIG \notin Block
    /\ Rates \cup {StdRate} \subseteq Nat \ {0, 1}

Channels == {1, 2}
StdChannels == 2
FloatSize == 4

Local == {"orig", "prev", "current", "orig_l", "dest_l", "orig_r", "dest_r"}

VARIABLES
    header,    \* NumChannels, SampleRate and BitsPerSample of the input
    var,       \* Local -> what the variable points to
    heap,      \* Block and ORIG -> the datapoints there
    live,      \* the blocks that are allocated
    pc,        \* "idle" when no conversion is running
    plenty,    \* the allocator never runs out of memory
    misfreed   \* memory was freed that was not allocated, or not ours

conversionVars == <<header, var, heap, live, pc, plenty, misfreed>>

\* failed_ntrb_AudioDatapoints, and datapoints followed by tail bytes.
Nothing == [data |-> <<>>, tail |-> 0]
Datapoints(data, tail) == [data |-> data, tail |-> tail]
Bytes(d) == FloatSize * Len(d.data) + d.tail

Content(v) == IF var[v] = NULL THEN Nothing ELSE heap[var[v]]

-----------------------------------------------------------------------------
(* The steps of the conversion as functions of the floats                  *)

Sample(lo, hi) == [lo |-> lo, hi |-> hi]
Silence == Sample(-1, -1)  \* 0.0, from no place of the file

\* int16 to float, where a last odd byte does not count, or a copy.
ToF32(d, bits) ==
    Datapoints([i \in 1 .. Len(d.data) |-> Sample(d.data[i], d.data[i])],
               IF bits = 32 THEN d.tail ELSE 0)

\* The test for a trailing incomplete frame is made on the bytes.
SplitRefused(d, channels) == Bytes(d) % channels # 0

\* A mutation of Split: the offset is left out of the index.
Split_first(d, channels, offset) ==
    IF SplitRefused(d, channels) THEN Nothing
    ELSE Datapoints([i \in 1 .. Len(d.data) \div channels |-> d.data[(i - 1) * channels + 1]], 0)

Split(d, channels, offset) ==
    IF SplitRefused(d, channels) THEN Nothing
    ELSE Datapoints([i \in 1 .. Len(d.data) \div channels |->
                       d.data[(i - 1) * channels + offset + 1]], 0)

\* A mutation of MonoToXChannels: one float too many is allocated.
MonoToXChannels_one_more(d, channels) ==
    LET bytes == Bytes(d) * channels + FloatSize
    IN  Datapoints([i \in 1 .. bytes \div FloatSize |->
                      IF i <= Len(d.data) * channels THEN d.data[(i - 1) \div channels + 1]
                      ELSE Silence], bytes % FloatSize)

\* The memory is sized by the bytes; what the tail adds to it stays zero.
MonoToXChannels(d, channels) ==
    LET bytes == Bytes(d) * channels
    IN  Datapoints([i \in 1 .. bytes \div FloatSize |->
                      IF i <= Len(d.data) * channels THEN d.data[(i - 1) \div channels + 1]
                      ELSE Silence], bytes % FloatSize)

MergeToStereo(l, r) ==
    IF Bytes(l) # Bytes(r) THEN Nothing
    ELSE Datapoints([i \in 1 .. 2 * Len(r.data) |->
                       IF i % 2 = 1 THEN l.data[(i + 1) \div 2] ELSE r.data[i \div 2]], 0)

Clamp(i, max) == IF i > max THEN max ELSE i
Ceiling(a, b) == (a + b - 1) \div b

\* Float i of the result lies at i * (orig - 1) / (dest - 1) of the input.
ToSamplerateMono(d, orig, dest) ==
    Datapoints([k \in 1 .. (Len(d.data) * dest) \div orig |->
       LET floor == Clamp(((k - 1) * (orig - 1)) \div (dest - 1), Len(d.data) - 1)
           ceil  == Clamp(Ceiling((k - 1) * (orig - 1), dest - 1), Len(d.data) - 1)
       IN  Sample(d.data[floor + 1].lo, d.data[ceil + 1].hi)], 0)

-----------------------------------------------------------------------------
(* Memory                                                                  *)

\* ntrb_AudioDatapoints_new for the datapoints d, into variable v, after the
\* assignments of mid: it fails for no bytes, and whenever calloc does.
New(v, d, mid) ==
    \/ /\ Bytes(d) # 0
       /\ \E b \in Block :
            /\ b \notin live
            /\ live' = live \cup {b}
            /\ heap' = [heap EXCEPT ![b] = d]
            /\ var' = [mid EXCEPT ![v] = b]
    \/ /\ Bytes(d) = 0 \/ ~plenty
       /\ UNCHANGED <<heap, live>>
       /\ var' = [mid EXCEPT ![v] = NULL]

\* ntrb_AudioDatapoints_free on the variables vs.
Pointers(vs) == {var[v] : v \in vs} \ {NULL}
Nulled(vs)   == [v \in Local |-> IF v \in vs THEN NULL ELSE var[v]]
Misfrees(vs) ==
    \/ ~(Pointers(vs) \subseteq live)
    \/ \E u, v \in vs : u # v /\ var[u] = var[v] /\ var[u] # NULL

FreeMemory(vs) ==
    /\ live' = live \ Pointers(vs)
    /\ heap' = [b \in DOMAIN heap |-> IF b \in Pointers(vs) THEN Nothing ELSE heap[b]]
    /\ misfreed' = (misfreed \/ Misfrees(vs))

Free(vs) == FreeMemory(vs) /\ var' = Nulled(vs)

\* A mutation of PrevIfOurs: prev is freed without the test against orig.
PrevIfOurs_always == {"prev"}

\* prev is freed only when it is not the caller's memory.
PrevIfOurs == IF var["prev"] # var["orig"] THEN {"prev"} ELSE {}

Goto(label) == pc' = label
-----------------------------------------------------------------------------
ConversionInit ==
    /\ header \in [NumChannels : Channels, SampleRate : Rates, BitsPerSample : {16, 32}]
    /\ heap = [b \in Block \cup {ORIG} |-> Nothing]
    /\ live = {}
    /\ var = [v \in Local |-> NULL]
    /\ pc = "idle"
    /\ plenty \in BOOLEAN
    /\ misfreed = FALSE

\* The call: the bytes of the input are in the caller's memory by now.
Convert(input) ==
    /\ heap' = [heap EXCEPT ![ORIG] = input]
    /\ var' = [v \in Local |-> IF v \in {"orig", "prev"} THEN ORIG ELSE NULL]
    /\ Goto("toFloat")
    /\ UNCHANGED <<header, live, plenty, misfreed>>

ToFloat ==
    /\ pc = "toFloat"
    /\ New("current", ToF32(Content("orig"), header.BitsPerSample), var)
    /\ Goto(IF var'["current"] = NULL THEN "failed" ELSE "toStereo")
    /\ UNCHANGED <<header, plenty, misfreed>>

ToStereo ==
    /\ pc = "toStereo"
    /\ header.NumChannels = 1
    /\ New("current", MonoToXChannels(Content("current"), StdChannels),
           [var EXCEPT !["prev"] = var["current"]])
    /\ Goto(IF var'["current"] = NULL THEN "freeFailed" ELSE "toRate")
    /\ UNCHANGED <<header, plenty, misfreed>>

IsStereo ==
    /\ pc = "toStereo"
    /\ header.NumChannels # 1
    /\ Goto("toRate")
    /\ UNCHANGED <<header, var, heap, live, plenty, misfreed>>

IsStdRate ==
    /\ pc = "toRate"
    /\ header.SampleRate = StdRate
    /\ Goto("freePrev")
    /\ UNCHANGED <<header, var, heap, live, plenty, misfreed>>

ToRate ==
    /\ pc = "toRate"
    /\ header.SampleRate # StdRate
    /\ FreeMemory(PrevIfOurs)
    /\ var' = [var EXCEPT !["prev"] = var["current"]]
    /\ Goto("splitLeft")
    /\ UNCHANGED <<header, plenty>>

\* One channel: split it off, and resample what was split off.
SplitChannel(label, orig, offset, next) ==
    /\ pc = label
    /\ New(orig, Split(Content("prev"), StdChannels, offset), var)
    /\ Goto(next)
    /\ UNCHANGED <<header, plenty, misfreed>>

ResampleChannel(label, orig, dest, next) ==
    /\ pc = label
    /\ New(dest, ToSamplerateMono(Content(orig), header.SampleRate, StdRate), var)
    /\ Goto(next)
    /\ UNCHANGED <<header, plenty, misfreed>>

\* The split channel is done with; after a failure the other memory is given
\* back as well, and merging finds two inputs it has to refuse.
DropChannel(label, orig, dest, others, next) ==
    /\ pc = label
    /\ Free(IF var[orig] = NULL \/ var[dest] = NULL THEN {orig, dest} \cup others ELSE {orig})
    /\ Goto(next)
    /\ UNCHANGED <<header, plenty>>

LeftChannel ==
    \/ SplitChannel("splitLeft", "orig_l", 0, "resampleLeft")
    \/ ResampleChannel("resampleLeft", "orig_l", "dest_l", "dropLeft")
    \/ DropChannel("dropLeft", "orig_l", "dest_l", {}, "splitRight")

RightChannel ==
    \/ SplitChannel("splitRight", "orig_r", 1, "resampleRight")
    \/ ResampleChannel("resampleRight", "orig_r", "dest_r", "dropRight")
    \/ DropChannel("dropRight", "orig_r", "dest_r", {"dest_l"}, "merge")

Merge ==
    /\ pc = "merge"
    /\ New("current", MergeToStereo(Content("dest_l"), Content("dest_r")), var)
    /\ Goto("dropBoth")
    /\ UNCHANGED <<header, plenty, misfreed>>

\* A mutation of DropBoth: nothing is dropped when the merge failed.
DropBoth_on_success ==
    /\ pc = "dropBoth"
    /\ Free(IF var["current"] = NULL THEN {} ELSE {"dest_l", "dest_r"})
    /\ Goto(IF var["current"] = NULL THEN "freeFailed" ELSE "freePrev")
    /\ UNCHANGED <<header, plenty>>

DropBoth ==
    /\ pc = "dropBoth"
    /\ Free({"dest_l", "dest_r"})
    /\ Goto(IF var["current"] = NULL THEN "freeFailed" ELSE "freePrev")
    /\ UNCHANGED <<header, plenty>>

\* The last intermediate result is freed, on success and on failure.
FreePrev ==
    /\ pc \in {"freePrev", "freeFailed"}
    /\ Free(PrevIfOurs)
    /\ Goto(IF pc = "freePrev" THEN "ok" ELSE "failed")
    /\ UNCHANGED <<header, plenty>>

Conversion ==
    \/ ToFloat \/ ToStereo \/ IsStereo \/ IsStdRate \/ ToRate
    \/ LeftChannel \/ RightChannel \/ Merge \/ DropBoth \/ FreePrev

-----------------------------------------------------------------------------
(* Properties                                                              *)

\* Wherever an allocation fails, the conversion frees nothing it has not
\* allocated, nothing twice, and never the caller's audio
\* (the tests prev.bytes != orig.bytes in ntrb_to_standard_format).
FreesOnlyItsOwn == ~misfreed

\* When it returns, all that is left allocated is the result, and after a
\* failure, or once the caller has freed the result, nothing is.
LeaksNothing ==
    /\ pc = "ok" => var["current"] # NULL /\ live = {var["current"]}
    /\ pc \in {"failed", "idle"} => live = {}

\* What the standard format of the input is, said without the steps: every
\* output frame has both channels, interpolated at one place of the input.
Reference ==
    LET rate    == header.SampleRate
        frames  == Len(heap[ORIG].data) \div header.NumChannels
        Last(i) == IF i > frames - 1 THEN frames - 1 ELSE i
    IN  IF rate = StdRate
        THEN [frame \in 0 .. frames - 1 |-> <<frame, frame>>]
        ELSE [frame \in 0 .. ((frames * StdRate) \div rate) - 1 |->
                <<Last((frame * (rate - 1)) \div (StdRate - 1)),
                  Last((frame * (rate - 1) + StdRate - 2) \div (StdRate - 1))>>]

\* A conversion that succeeds has the right number of frames, each with the
\* first sample of an input frame at the left, the second at the right, or the
\* mono sample at both, and from the right frames.
ConvertsFaithfully ==
    pc = "ok" =>
      LET input   == heap[ORIG].data
          out     == heap[var["current"]].data
          frames  == Len(out) \div StdChannels
          From(frame, side) == input[frame * header.NumChannels
                                     + (IF header.NumChannels = 1 THEN 0 ELSE side) + 1]
      IN  /\ DOMAIN Reference = 0 .. frames - 1
          /\ \A frame \in 0 .. frames - 1, side \in 0 .. 1 :
               out[frame * StdChannels + side + 1] =
                 Sample(From(Reference[frame][1], side), From(Reference[frame][2], side))

\* A conversion that succeeds returns whole frames, unless the input has stereo
\* at the standard rate and ends in half a frame.  (At other rates that half is
\* dropped: the test meant to refuse it counts bytes, aud_std_fmt.c:60.)
LeavesNoHalfFrame ==
    (pc = "ok" /\ Len(heap[var["current"]].data) % StdChannels # 0) =>
      /\ header.NumChannels = 2 /\ header.SampleRate = StdRate
      /\ Len(heap[ORIG].data) % 2 = 1
=============================================================================
