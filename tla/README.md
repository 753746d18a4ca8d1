# Verification of naturau-base (ntrb)

naturau-base is a small C library that streams audio files to PortAudio: an
audio engine thread opens a stream, PortAudio calls `stream_audio` every 25 ms,
the callback mixes the current chunk of every queued track and starts a detached
thread per track to load the next chunk, and a user thread queues and quits.
This directory holds TLA+ models of that program, TLC configurations that check
them, and TLAPS proofs about them. Paths below are relative to the repository.

## 1. Inventory

| component | source | state it keeps | operations |
|---|---|---|---|
| Audio buffer | `src/AudioBuffer.c`, `AudioBuffer.h` | `buffer_access` (rwlock), `load_err`, `stdaud_next_buffer_first_frame`, datapoints, the source, `load_buffer_callback` | `ntrb_AudioBuffer_new`, `_free` |
| WAV source | `src/BufferSource_WAVfile.c` | `FILE*`, offset and size of the audio data, `bytes_to_read`, `read_bytes` | open and read the header, load a chunk, free |
| FLAC source | `src/BufferSource_FLACfile.c` | decoder, `read_bytes`, `bytes_in_buffer` | open, load a chunk (seek, decode, fill), free |
| Runtime core data | `src/RuntimeCoreData.c` | `audio_tracks`, `audio_track_rwlock`, `requested_exit`, `in_pause_state` | `_new`, `_queue_audio`, `_free_track`, `_free` |
| Audio engine | `src/audeng_wrapper.c` | the PortAudio stream | `ntrb_run_audio_engine`, `stream_audio` |
| Example program | `example/main.c` | the threads | commands p, l, q; start, join, teardown |
| Memory debugger | `src/alloc.c`, `src/_alloc_bytevec.c` | the record, its lock, the initialised flag | init, uninit, malloc, calloc, realloc, free, view |
| Byte vector | `src/bytevec.c` | block, elements, capacity | new, reserve, append, free |
| Standard format | `src/aud_std_fmt.c`, `src/AudioDatapoints.c` | none between calls | int16 to float, mono to stereo, resampling, and their sequence |
| WAV header | `src/wav_wrapper.c`, `src/AudioHeader.c` | none | the walk over the header's chunks |
| Command line | `src/SlicedStrings.c`, `src/str_utils.c`, `example/main.c` | the strings of one round of the loop | reading, trimming, slicing, joining |
| Files, numbers | `src/file_wrapper.c`, `src/utils.c` | none | reading a part of a file, clamping |

How they interact. Five kinds of threads share the buffers. The *user thread*
(`user_input_loop`) creates a buffer, loads its first chunk itself and publishes
it in the first empty track under `audio_track_rwlock`, or frees it again. The
*callback* (`stream_audio`) takes `audio_track_rwlock` for a whole period, tries
the read side of each buffer's `buffer_access`, mixes, unlocks, and then either
frees the track (`load_err` set) or starts a *detached loader* on the raw buffer
pointer. A loader takes the write side, refills, unlocks and stores
`load_err = OK`. The *engine thread* polls `requested_exit` and stops the stream.
*main* joins the user and engine threads and frees all tracks; the loaders are
never joined. Every allocation goes through the memory debugger when it is
compiled in.

What is hard here:
- a loader that has been started but has not taken `buffer_access` is invisible:
  the next period can mix the old chunk again and start a second loader, or
  retire and free the buffer under it, and the address can be reused;
- `load_err` is written after the unlock, and the FLAC routine even keeps its own
  intermediate result in it, so it is shared between loaders without a lock;
- an early return that forgets an unlock leaves a lock no thread can take;
- the callback takes table lock, read lock, then write lock of one buffer, and
  must give up the read lock first;
- the shutdown order: callbacks, user thread, engine thread, teardown, and
  loaders that outlive them all;
- the memory debugger calls `realloc` before it locks its record;
- the place and the size of a chunk are computed in single precision, in samples,
  so a chunk need not begin at a frame, or in sizes of whole frames;
- every function that allocates in several steps has an error path per step.

What makes each component correct, and where it is checked, is in section 4;
every hazard is listed at its line in `PROJECT.json`.

## 2. Modules

    AudioBuffer          one buffer, its lock, the WAV and FLAC routines, _free
      RuntimeCoreData    + the table of tracks: queue, free_track, free
        AudioEngine      + callback, engine, user, main: Spec, FairSpec, properties
          AudioEngineInvariant   the inductive invariant IInv
            AudioEngineProofs        its proof, and the safety theorems
              AudioEngineRefinement  proof that AudioEngine implements TrackTable
            MCAudioEngine            instances for TLC
    TrackTable           the abstract table: allocate, put, take, discard, close
    MemDebug             the memory debugger
      MemDebugProofs     the bound of its record, and what it contains
      MCMemDebug         instances for TLC
    WavHeader            the two readings of a WAV header
      OpenBuffer         opening and closing a buffer, every call failing or not
        OpenBufferProofs   what is released and left, and what is read
        MCOpenBuffer       instances for TLC
    StdAudFmt            the conversion of a chunk to the standard format
      ChunkStream        a file loaded chunk by chunk: sizes, places, conversion
        ChunkStreamProofs  ownership of the conversion's memory
          ConversionProofs   what the conversion computes, what a load delivers,
                             where chunks lie and how a track ends
        MCChunkStream      instances for TLC
    SlicedStrings        the string functions
      CommandLine        the user's loop: read, trim, slice, obey
        CommandLineProofs  what a round frees, reads, writes and obeys
        MCCommandLine      instances for TLC
    ByteLog              a log of bytes
    ByteVec              the growing array that implements it
      ByteVecProofs      its bounds, and the refinement
      MCByteVec          instances for TLC

The threads and their locks are in AudioEngine and what it extends. The other
modules are sequential parts of it seen from close up: OpenBuffer is the step
`QueueNew`, ChunkStream is what happens between `loading` and the unlock,
CommandLine is what happens before a command of the user thread, and MemDebug is
below every allocation.

**AudioBuffer.** A buffer is a heap address (`Buf`). `mem[b]` is `free`, `live`
or `gutted` (contents freed by `ntrb_AudioBuffer_free`, struct not yet freed);
`malloc` may return an address again, which is how a stale pointer meets a new
buffer. `writer`/`readers` are `buffer_access`. `next_first_frame` is
`stdaud_next_buffer_first_frame` in abstract units, `Chunk` of them per buffer
(2 in the runs: one unit is half a buffer, which is what it takes to tell a full
chunk from a partial one). Positions past the end of the file behave alike and
are represented by the first. The labels of a load are `ldStart` (before the
wrlock), `loading`, `decoded` (FLAC only: between storing the decoder's state in
`load_err` and reading it back), `ldOk` (after the unlock, before the final
`load_err = OK`). Each return of the routines is an action. `StrayLoad` and
`StrayCrash` are a loader that reaches freed memory or a buffer of the other
kind: undefined behaviour, so the process may die, or the thread may end with
no visible effect or a wrong `load_err`. Writes of a stray loader to memory
that belongs to something else are not modelled beyond that.

**RuntimeCoreData.** `audio_tracks` with `N` tracks (256 in the program),
`rcd_owner` for `audio_track_rwlock`, the two flags, and `cursor`, the loop
variable of whichever thread holds the lock. `QueueNew` .. `QueueDiscard` are
`ntrb_RuntimeCoreData_queue_audio`, step by step; `FreeTrack` is the tail of
`free_track`; `RcdFree*` is `ntrb_RuntimeCoreData_free`. As in the code,
`queue_audio` refuses a buffer only for some load errors and publishes it for
the others.

**AudioEngine.** `stream_audio` has one action per lock operation and branch
(`CallbackEnter`, `Lock`, `Skip`, `Mix`, `Retire`, `Dispatch`, `DispatchFails`,
`Unlock`, `Return`); the samples themselves are abstracted away. The engine
thread may fail to open a device; `Pa_StopStream` waits for a callback in
progress. main frees the table after both joins and returns, which ends every
loader.

**TrackTable** is what all of this should amount to: a buffer is private to its
creator, then in exactly one track, then gone; the first empty track is used;
closing leaves nothing. `RefinesTrackTable` maps the tracks to the tracks, the
allocated buffers in no track to `private`, and main's return from the teardown
to `closed`.

**MemDebug.** `heap` is what the C heap really holds and where each block was
last allocated, `record` is `_ntrb_memdebug_alloc_data` as a sequence of entries
and holes, `capacity` its room in entries. `malloc` and `realloc` run before the
lock is taken (steps of their own); what a call does under the write lock is one
step, since nothing else reads or writes the record. Callers are correct: they
pass pointers they were given and no other thread is freeing. `missed` remembers
that growing the record has failed, after which the record is known to be
incomplete.

**WavHeader, OpenBuffer.** A WAV file is a list of chunks with sizes, and a set of
places in their payloads where the letters of a tag happen to stand (`stray`), each with
the size and the format that are read there. A header is read by scanning for the
letters `fmt ` and `data`, which the code does at every byte: `Scan` finds the first of `Tags`,
chunk or stray, within the distance the room tests leave. `Walk` is the reference,
from chunk to chunk, and `Misled` says that a stray stands where a search passes
before it reaches the chunk it should find. `OpenBuffer` keeps
the set of resources `held` at each step of `ntrb_AudioBuffer_new`, WAV or FLAC,
and what each error path releases; `misfreed` says that something was released that
was not held. What `malloc` left in the fields is `Garbage`, which a test may read
either way.

**StdAudFmt.** `ntrb_to_standard_format` step by step: `var` is what each local
variable of it and of `ntrb_to_samplerate` points to, `heap` and `live` are the
memory. A datapoint is not a number but where it comes from: a place in the file,
in bytes, or the two places it is interpolated between. So a result can be
compared with a reference that does not go through the steps, and the place of
every sample that is played is known. Every allocation may fail.

**ChunkStream.** One caller loads a WAV or FLAC file to its end. `Position`,
`BytesToRead`, `BufferSize` and `FramesToFill` are the formulas of the sources, in
floats: a float is an integer number of units of `1 / Scale`, rounded after each
operation to the nearest one with fewer than `Significands` units of a power of two,
halves to even. How far apart floats can be is a parameter, `Spacings`, the powers of two
up to a bound beyond any file. The conversion of
StdAudFmt runs on what was read (`Convert`), and the result is copied into the
datapoints (`Deliver`).

**SlicedStrings, CommandLine.** The string functions are operators on sequences
of characters: `fgets` with its limit, the cut-off newline, the trimming, the
slicing into strings of limited length, the joining. `Words`, the reference they are
compared with, says which places of a line are one word, without a loop. `CommandLine` is the loop, with
the memory of each step in `held`: the line, the trimmed line, its copy without duplicate
separators, the strings, the joined name of a file. Every allocation of a round is a step of
its own, which may fail.

**ByteLog, ByteVec.** `heap` maps an address to the bytes there, `Garbage` where
nothing was written; `realloc` may extend in place or move, be refused, or, asked
for zero bytes, free the block and return NULL. `append` takes a step for every
realloc. ByteLog is what a caller is promised of the contents.

## 3. Constants, bounds, symmetry

| constant | in the runs | why it is enough |
|---|---|---|
| `Buf` | 1 or 2 | two buffers: one being queued or reused while the other is played, retired or torn down; the violations need one |
| `Loader` | 2 | two loaders on one buffer is the case that goes wrong; a third one makes `pthread_create` fail (`CallbackDispatchFails`) |
| `N` | 1 or 2 | with 2 (`Playback`): a loop with a next track, "all full", and the first empty track of several; with 1 (`Faults`), more buffers than tracks |
| `File` | len 3 (in `Faults` also a FLAC file of len 2) with `Chunk` = 2 | a full chunk, a partial last chunk and a load after the end |
| `Faults` | per run | `read`, `convert`, `decode`, `thread`, `device`: a short read, a failing conversion, a decoder error, a failing `pthread_create`, no device |
| `DetectsSelfLock` | TRUE | glibc reports EDEADLK when the owner relocks; with FALSE the thread hangs |
| `Ptr`, `Thread`, `Site` | 4, 3, 2 | two reallocs that exchange an address while a third thread allocates or frees |
| `RecordFails` | TRUE | growing the record may fail |
| `Block` | 4 | no more than four blocks are live at once in a conversion |
| `StdRate`, `FrameCount` | 30, 5 | 48000 Hz and 1200 frames scaled down; a chunk is `Rate / 6` frames |
| `Rates` | 11 .. 60, ten of them | a chunk of 1.8, 2, 2.2, 2.5, 3, 3.3, 4, 4.5, 5 and 10 frames of the file: whole, half (44.1 kHz has 1102.5) and neither |
| `Significands` | 128 | positions up to 128 are exact, the longest file has 70 frames of up to 8 bytes: both sides of 2^24, scaled |
| `Spacings` | 2^0 .. 2^16 | greater floats than there are in the run |
| `Lengths` | 1, 2, 9, 10, 11, 14, 23, 70 | one frame, one chunk and one frame less or more at several rates, and several chunks; truncated at any of them |
| `Paths`, `Boundary` | 65535, whole files | the real sizes; chunks that put a tag at the last place where it is found and just beyond; the letters of a tag before, inside and behind the format, in a list before the audio, in the audio and behind it, in every combination, with the audio near the start and just inside and outside the boundary |
| `MaxLine`, `SliceMax`, `MaxInput` | 5, 5, 7 | a line of the program has at most 128 characters and its strings 256; the models take them equal, the tighter case (a word may be as long as the line); an input can hold a line, a line that just fits and one that does not, and a second line |
| `MaxMemory`, `Addr`, `Sizes`, `AllocBytes` | 8, 2, 1..3, 0..2 | an append that grows three times, a move to the other address and back, a vector of capacity zero |

Symmetry over `Buf` and `Loader`, over `Ptr`, `Thread` and `Site`, and over `Block`,
is used in runs of safety properties only; nothing distinguishes their elements.

`Faults.cfg` has `CHECK_DEADLOCK FALSE`: with conversion errors a lock really is
leaked and main waits for it for ever in `ntrb_AudioBuffer_free`. Everywhere else
deadlock is checked; a finished process stutters in `Terminated`, a retired track
in `Retired`, a crashed or ended loop in `Crashed` and `Ended`.

## 4. What the runs show

Passing runs:

- **Faults** (1.4M states, two to three minutes). WAV and FLAC at the same addresses, one
  track, with failing reads, conversions, decoders, threads and devices.
  `MixingExcludesLoading`: mixing, loading and
  freeing a buffer exclude each other even with stray loaders and leaked locks.
  `OneOwner`: every allocated buffer is in exactly one track or in the user
  thread's hands. `NoDanglingTrack`: a track's buffer is in place, but for the one being
  freed under the table lock. `CallbackFreesUnlocked`: the callback never waits for
  the write side of a lock it holds for reading. `TeardownAlone`: the table is
  freed when no callback, engine or user thread can touch it, also when the
  engine ended early. `ExitFreesEverything`: no buffer is leaked at exit.
  `IInv` is the invariant the proofs use, `TypeOK` includes the
  bound on the FLAC buffer.
- **Playback** (103K states, under `FairSpec`). Readable WAV files, two tracks.
  `RefinesTrackTable`: all threads together implement the abstract table, and again
  `NoDanglingTrack`; with faults both are proved (section 6).
  `NoTrackCutShort`: a track is retired only when all of its file has been loaded,
  however loaders overlap or fail to start. `FinishedTrackIsFreed`: a track whose
  file is used up is retired unless the user pauses or quits.
  `ShutdownCompletes`: once `q` is typed the process ends.
- **Record** (118K states). `RecordMatchesHeap`: the record has one entry for each
  live pointer, plus one for each realloc still waiting for the lock, even when
  the address it gave up is in use again. `EntryTellsSite`: while no address has
  been reused that way, the entries tell where each block was last allocated.
  `FreeReleases`: no legitimate free is refused. `RecordInBounds`: an append never
  writes past the record's memory.
- **Chunks** (248K states). `ChunksMeet`: no sample is played twice or left out
  where a chunk is a whole number of frames; elsewhere at most a frame is.
  `ReadBytesFit`, `Fits`: the FLAC buffer and the datapoints are exceeded by less
  than a frame, the first only by stereo files, the second only by FLAC files. (At
  44.1 kHz stereo a buffer of 4410 bytes takes 4412; at 11025 Hz a chunk becomes 1201
  frames of 1200.) `PlaysOnlyTheChunk`: what is
  played is the chunk last read, then silence. `EndsWell`: a track ends at the end
  of its file, or for a reason. `FreesOnlyItsOwn`, `LeaksNothing`: the aliased
  temporaries are freed exactly once and the caller's audio never.
  `ConvertsFaithfully`: the result is the reference conversion. `LeavesNoHalfFrame`:
  it is whole frames, but for stereo audio at the standard rate that ends in half a one.
- **Open** (22K states). `FreesWhatItHolds`, `HoldsOnlyWhenOpen`: whichever call
  fails, everything is released once. `KnowsItsFormat`: an open file has a header of
  its own. `ReadsHeader`: a complete WAV file is read as a walk over its chunks
  reads it, unless the letters of a tag mislead the search; misled or not, no audio is
  skipped, and a file is refused for its header only when its audio starts behind the
  boundary. `StrictAgrees`: the strict reading accepts every complete file that does not
  mislead it, and what it accepts of any file is opened with the same result, or refused
  because the audio starts behind the boundary.
- **Commands** (every input of up to seven characters). `ObeysTheLine`: what is done is
  what the words of the line say, duplicate spaces being joined. `ReadsWholeLines`:
  a line that fits is read alone. `SlicesInBounds`: no character is written outside
  the strings. `FreesEverythingOnce`: no round leaks or frees twice.
- **ByteVec**. `ImplementsLog`: a value is added whole or not at all.
  `MemoryMatchesFields`: a vector with capacity has its block, as large as the fields say, and
  no other block is left (at capacity zero see **ZeroCapacity** below). `CopyFits`: the bytes
  an append copies go to memory that has room for them. `AppendReturns`: the loop of
  append ends; this relies on a realloc to zero bytes returning NULL, as it does in the
  C libraries of Linux and Windows. Where it returned a block, an append to a vector of
  capacity zero would loop for ever.

Runs that find the code at odds with its documentation (each quoted in
`PROJECT.json`, `findings`):

- **Deallocation**: the callback frees a buffer a started loader has yet to lock.
- **LeakedLock**: a WAV conversion error returns without unlocking.
- **FlacFull**: a late `load_err = OK` of another loader makes a FLAC load that
  ran into the end deliver a buffer that is not full.
- **ZeroOffset**: the place of a WAV chunk is computed in samples, so at 44.1 kHz
  stereo (2205 samples to a chunk) every second chunk starts at a right sample and
  the channels are exchanged.
- **ZeroCapacity**: a vector made with zero bytes is grown by its capacity, which is
  nothing: `realloc` frees the block and its NULL is taken for a refusal, so the caller
  is left with a dangling `base_ptr`.

What the models show besides, and the properties are worded around:

- the search for a tag compares every byte, so the letters `data` in a list (in the word
  "metadata", say) or in the extension of the format, before the audio, are taken for the
  audio (`wav_wrapper.c:51-58`), and the file is not opened at its beginning, as
  `BufferSource_WAVfile.h:85-86` says. `ReadsHeader` and `StrictAgrees` say what is left:
  nothing is skipped, and a file without such letters is read as it is;
- an invalid header is reported as `WAVheaderError`, where `BufferSource_WAVfile.h:88`
  says `FileReadError`;
- an append that needs two growths and is refused the second has changed the capacity,
  and perhaps the place, where `bytevec.h:88` says that the state is unchanged; the
  contents are (`ImplementsLog`);
- `queue_audio` takes an error of the FLAC decoder in the first load for a success and
  publishes the buffer; the `FLACBadData` of `RuntimeCoreData.h:104-106` is never returned;
- a granted read lock does not show that the load is done
  (`audeng_wrapper.c:89` says it does), so a chunk may be mixed twice;
- the last, partial chunk of a FLAC file is never delivered
  (`BufferSource_FLACfile.c:160`; the first conjunct of `EndsWell` allows it);
- at 44.1 kHz mono, 16 bit, the second chunk of a WAV file starts at byte 2205, in
  the middle of a sample, because the floor is taken of the position in bytes;
- the last frames of a WAV file may be too few to make one frame of the standard
  rate: the track then ends in a conversion error, which is the one that leaks the
  lock;
- a trailing float of stereo audio is not refused as `aud_std_fmt.c:60` says,
  because the test counts bytes; it is dropped, or kept at the standard rate;
- a realloc that moves its block can overwrite the entry of another thread's
  block at the address it gave up: `EntryTellsSite` is false after that;
- an end of file in the first load, that of a file shorter than a chunk, is taken for a
  success as well; the next period retires the track;
- when `ntrb_AudioBuffer_free` cannot lock because its caller holds the lock (after a WAV
  conversion error in the first load), the struct is freed without its contents;
- a file name without an extension leaves the rwlock of the buffer initialised;
  a FLAC stream without a STREAMINFO block is judged by memory nobody has set.

Each property of a passing run has a mutant in `PROJECT.json`: a plausible bug,
written as an operator next to the definition it replaces (a lock kept, a pointer
not cleared, an off-by-one), that the property catches.

## 5. Fairness

`FairSpec` assumes what the scheduler and PortAudio give:

- weak fairness of the callback (PortAudio calls a started stream again and
  again), the engine thread and main;
- strong fairness of the user thread *inside a call* and of every loader: they
  wait for locks which the callback takes every period but leaves free for most
  of the 25 ms, so a waiter gets in;
- none for the user's commands: nothing makes a user type.

No fairness is assumed for a fault, so no liveness property relies on one.
With conversion errors `ShutdownCompletes` is false, which is what LeakedLock
shows, and if `pthread_create` failed for ever a finished track would stay queued;
so the liveness properties are checked without faults (a load may still find no
loader free).

`ByteVec!Spec` has weak fairness of the steps of `append`, which is a loop of one
thread that nothing blocks; none for its caller.

## 6. What is proved

Checked by TLAPS, for every value of the constants that satisfies
`ThreadAssumption` (the named threads, `Nobody` and `Departed` are not loaders;
NULL is neither a buffer nor a file), `SourceAssumption` (files have a kind and a
length, `Chunk` is positive, the fault sets are what they say) and
`TrackAssumption` (`N` is a positive natural number). No number of buffers,
loaders or tracks is fixed, and no fault is excluded, but in `TracksPlayedOut`.

`AudioEngineProofs`: `Inductive` (`Spec => []IInv`), and from it `TypeCorrect`,
`MixingExclusive`, `TracksValid`, `SingleOwner`, `CallbackUnlocksFirst`,
`TeardownExclusive`, `ExitLeavesNothing`, `TracksPlayedOut`.

None of the safety properties is inductive. `IInv` adds what holds the argument
together: which labels each thread can be at, that a thread has a buffer in hand
exactly at the labels that use one (`Targets`), that the table lock is held
exactly inside the two loops (`TableLock`), that whoever is inside a buffer has
its write lock and finds its contents (`InsideLocked`), that only the mixing
callback reads (`MixLocked`), that the buffer a loop works on is the track at its
cursor (`LoopOwner`), that the user thread's buffer is in no track
(`UserOwner`), that every allocated buffer belongs to one of them (`Owned`), and how far the
shutdown has come (`Shutdown`, `Sweep`). The argument about stale loaders is
`InsideLocked`: whatever pointer a loader was started on, it gets inside only
through the write lock of a live buffer, and `ntrb_AudioBuffer_free` needs the same
lock to gut it; so a stale pointer can crash the program but can neither break
the exclusion nor change who owns what.

The proof first reduces every action to its *effect*: `LoadEffect` and
`FreeEffect` state what any step of the loading and freeing routines may change,
`Quiet` steps touch no buffer, `LoopMoves` and `MixEnds` are the steps of the
callback's loop. Then there is one lemma per conjunct group and action.

`TracksPlayedOut` is `Spec => NoTrackCutShort`, under the conditions `Undisturbed`: WAV
files only, and neither reading nor converting a chunk fails (threads and devices
still may). A FLAC track does end before its last, partial chunk, and a failing
read ends a track, so neither condition can go. Its invariant `EndKnown` says what an error in
`load_err` then means: the file is used up. The loaders share `load_err` without a lock,
and yet this holds, because before the end of the file a load can store nothing but OK, and
because the stale pointer of a loader leads to a WAV buffer if to any.

`AudioEngineRefinement`: `Refinement` is `Spec => RefinesTrackTable`. Each action
is mapped to Allocate, Put, Discard, Take, Close or a stutter.

`MemDebugProofs`: first `MemDebugInductive`, `RecordTypeCorrect` and
`RecordNeverOverflows`. Their invariant is the types, `Len(record) <= capacity`,
and that a thread waits for the lock only while the capacity is not zero, since
doubling zero would get nowhere.

Then `RecordInductive`, and from it `RecordMatches`, `EntriesTellSite` and
`FreesRelease`. The invariant adds to the one above what the calls in progress point to (`Callers`: a pointer to be recorded is allocated, one to
be freed is no other call's), and counts the entries of every pointer: one when it
is settled, and one for each realloc that is leaving it. A step changes one slot
of the record and moves one thread, so the proof compares cardinalities, which is why
`MemDebugAssumption` has finitely many threads. Until an address is reused
(`Sites`), no pointer has two entries and an entry is right or about to be
overwritten. A free is never refused because the pointer it waits with is settled,
hence has an entry.

`ByteVecProofs`: `MemoryMatches`, `CopyStaysInside` and `Refines`, for any addresses,
sizes and memory limit. The invariant adds to the types that the block is as large as
the capacity, holds the elements, and is missing only where there is no capacity and no
append in progress (`BlockMatchesFields`): a refused growth ends the append, and while
there is capacity it is not asked for zero bytes. `CopyFits` follows from it and from the
condition of the loop, and the refinement maps every growth to a stutter because
`Resized` keeps the old bytes.

`CommandLineProofs`: `NothingLeaks`. The invariant says exactly what is held at
each label, which the property says only at two of them.

`NothingOverruns` and `WholeLinesRead` are about the strings, for lines and inputs of
every length. The loops over a string are folds of the community modules, which are
recursive functions over sets of places: that such a function exists and has
the values its definition says is proved by induction over a set of numbers (`FoldExists`,
`FoldIs`), so trimming and slicing may be followed character by character. A slice
begins a new string only behind a separator (`PieceIs`), so there are never more than
`StringCount` of them; and none is longer than the line, which is where `MaxLine <= SliceMax`
is needed: the program reads lines of 128 characters into strings of 256.
`LineFits` is the invariant: what was read has at most `MaxLine` characters.

`LinesObeyed` is `Spec => ObeysTheLine`: the command that is obeyed, and its file name, are
those of the words of the line that was read. The invariant adds to `LineFits` that the line read is
kept from step to step (`LineKept`): trimmed, and then sliced. What it takes is about words. A word is followed
from one more character to the next (`WordsWithOneMore`); neither trimming changes the
words of a line (`TrimWhitespaceKeepsWords`, `TrimDuplicatesKeepsWords`); the slices of a trimmed
line are its words (`SlicesAreWords`); and joining the slices of a file name gives its words with
a space between each two (`JoinedWords`). The loops of the code are the folds of above,
`Words` is none, so the theorem compares two different definitions. It needs that the
letters of the three commands differ, which `CommandLineAssumption` says.

`OpenBufferProofs`: `ReleasesOnlyHeld` and `NothingLeftBehind`. The invariant gives,
for every label and kind of file, the resources held there; in particular that
`load_buffer_callback`, by which `ntrb_AudioBuffer_free` chooses what to release,
is the kind of the file at every label from which it can be called.

`FormatKnown`, `HeaderRead` and `ReadingsAgree` are about what is read, for every
layout of a file: any number of chunks of any sizes, in any order, whole or cut off,
with the letters of tags at any places in them,
and for every `Boundary`. The state adds little (`WhatIsRead`: from the reading of
the header on, the fields have what it found); the argument is about layouts.
`StartOf`, where each chunk starts, is recursive. That its function exists and has the
values its definition says is proved by induction over a set of numbers (`Induction`,
`Sums`), and so is that chunks do not overlap (`InOrder`). From that: a search returns
the first place there is (`ScanIs`), so a reading succeeds just when it is led to a format
and, behind it, to audio (`AcceptedIs`), and more of the file leads to the same place
(`LeadsAlike`), which is why the strict reading of a whole file and the loose one of its
first bytes agree. In a complete file whose audio starts in the part that is read there is
always a place to be led to, chunk or stray, and none behind the audio; when nothing misleads
the search it is the place of the walk, since an earlier chunk starts earlier and would
have been found (`ReadingIs`, `CompleteIs`). `IsLayout` in the assumption says no more than
that a layout is one: sizes and places are natural numbers, one place has one tag, and a
`fmt ` tag is followed by something read as a format. Where the strays stand is free.

`ChunkStreamProofs`: `OwnershipHolds`, `FreesOwnOnly`, `NoBlockLeaks`. The
invariant has the set of variables that own memory at each step (`Holders`), says
that the allocated blocks are theirs, each to one (`Owned`), and where `prev` may
still be the caller's memory (`Aliasing`); the tests `prev.bytes != orig.bytes` of the
code are what keeps it. None of this depends on the rates, the lengths or the
contents, so the arithmetic of the sizes plays no part in it.

`ConversionProofs`: `LoadingHolds`, and from it `ConvertsRight`, `PlaysTheChunk`,
`DecoderFits` and `WholeFrames`; and `ChunksFit`. The invariant says what every pointer of the conversion points to at
each step (`Contents`): the sources as floats, in stereo, one side of them, that side
resampled, written as formulas of the caller's audio and not of the step before. What
the last step leaves is then compared with `Reference`, for every rate, format and
length, an odd number of samples included. `Loaded` says where in the file the load
is, and that what is being converted is the chunk read last; `PlaysTheChunk` follows,
since a sample of the result comes from a sample of the input or from two of them,
and the rest is the silence of the memset. Both keep the allocation failures at every
step. `DecoderFits` counts the bytes the decoder writes: whole frames, the last of
which began inside the buffer. Of the floats these three use nothing but that a rounding is a
natural number (`RoundedNat`).

`WholeFrames` needs more. Half a frame would be made of a mono chunk of 32-bit
samples that is not whole samples, so at the standard rate, where nothing is resampled, the
place of each chunk must be a multiple of four bytes, however far into the file and however
coarse the floats are there. It is: whole numbers stay whole when they are converted and
multiplied (`FromIntWhole`, `TimesWhole`), since the spacing of the floats divides one or
is a multiple of one, and a multiplication by four does not round (`TimesFour`), the
significand being rounded up to its bound included. `SignificandsAssumption` says what this
takes: the bound of the significands is even, and comparable with the spacings, as
a power of two is.

`ChunksFit` is the bound of the `memcpy` into the datapoints, under the condition `RoundsWell`:
the size of a chunk in floats is not above a whole number of samples when the exact size is
not. Some condition is needed: with a rate of 200 Hz, 1200 frames and 24 bits the
float is just above 5 samples, a sixth one is read of a FLAC file, and the surplus is
a whole frame of the file, not less than one. In the floats of C `RoundsWell` holds for
8, 11.025, 12, 16, 22.05, 24, 32, 44.1, 48, 64, 88.2, 96, 176.4 and 192 kHz, mono and
stereo; the instance for TLC has it as an assumption. From it the proof bounds the samples that are read
(`Sized`), and the frames they become through the division by the channels and the
resampling (`FramesFit`).

`EndsRight` is `EndsWell` at every rate for which `PlacesWell` holds. It has to be said how
far the floats are off. Of the three multiplications that give the place of a chunk only
the first rounds, since those by the channels and the size of a sample double (`NotRounded`,
`TimesFour`), so a place is one rounded product, cut down to bytes or frames (`PlacesAre`), and
so is the size of a chunk (`ChunkIs`). `NearIs` bounds how far off it is, by half the
spacing there; the spacing divides, or is a multiple of, a frame, a sample and a byte
(`GrainOrSpacing`). `Exact` keeps it at most a sample, and a difference of a sample is as much
as the property has room for, so that counting errors is not enough: the places are
multiples of the coarser of the byte and the spacing, and of two multiples the smaller
one is smaller by a multiple (`MultipleStep`). The invariant `Placed` says where each
chunk lies. The end of a WAV file is then at most a frame away (`WavEnd`), that of a FLAC file
at most a chunk (`FlacEnd`). For the conversion, `Worth` says that a chunk that is not too short makes
something at every step, and `Full` that while there is memory every variable the
step should have set is set.

`PlacesWell` asks two things of a rate: that a chunk makes a frame at the standard rate, and
that of a mono chunk less than three quarters of a frame is cut off. Some condition is needed: at
14160 Hz, with 1200 frames and 24 bits, the float of the ratio is just below the ratio, so 353 of
the 354 frames of a chunk are read, and a mono WAV file of 1062 frames ends with more than
one of them unplayed. In the floats of C it holds for the fourteen rates named at `RoundsWell` above,
and for three quarters of all rates from 40 Hz to 200 kHz. The instance for TLC has it as
an assumption for all of its rates but 11, of which five sixths of a frame are cut off; there `EndsWell` is only
model-checked.

`ChunksNearlyMeet` and `ChunksExactlyMeet` are about how chunks meet. The first holds at any rate: no
chunk begins more than a frame before the end of the one before it; and where `PlacesWell`
holds, none more than a frame after it. Both follow the argument of `EndsRight` (`WavGap`, `FlacGap` for
what is left out, `WavBack`, `FlacBack` for what is repeated). The second is `ChunksMeet` itself, when
the ratio of the rates is a power of two (`RatioExact`: 12, 24, 48, 96 and 192 kHz), where the
product of the ratio and a number of frames is a float (`NearExact`) and nothing is rounded. At other
rates that no frame at all is lost or repeated depends on the direction in which the ratio
is rounded: in the floats of C it is so at the usual rates from 8 to 192 kHz, and not at some others (8560 and
14160 Hz, for example). So there it is only model-checked.

Assumptions, beyond those above: those named in each module (`NULL` and the caller's
memory are not blocks or addresses, sizes are natural numbers, a value has at least
one byte, a line fits a string, significands are below an even number; the spacings of the
floats are the powers of two up to one of them, and each divides, or is a multiple of, that
number, its half, its double and four times it: as the 24-bit floats of C have it).

Only model-checked: the liveness properties (fairness and ENABLED are out of the
prover's reach); `ChunksMeet` where the ratio of the rates is rounded, and `EndsWell` where
`PlacesWell` does not hold; and the counterexamples.

## 7. Not modelled

- The vendored libraries under `src/dependencies` (PortAudio and FLAC, by far most of
  the lines of the repository): they are external, modelled by the states the
  code looks at. The map covers the project's own sources.
- Failures of `pthread_rwlock_*` calls other than EDEADLK.
- The memory model: `load_err` is a plain variable shared without synchronisation; the
  models interleave whole reads and writes. (`requested_exit` and `in_pause_state` are
  atomic.)
- The values of samples and the volumes, and the rounding of the resampling
  indices in doubles: an index that is a whole number in exact arithmetic is taken
  to be one.
- Formats the sources read as if they were 16-bit or two-channel audio: a WAV file
  is opened whatever its format is. The chunks of ChunkStream have one or two
  channels, of 16-bit integers or 32-bit floats.
- `ntrb_getc`, `AudioHeader_print`, `ntrb_read_entire_file_rb`,
  `verify_WAV_out_of_bounds`, `ntrb_get_WAV_audiodata` and the slicing at other
  separators, which the program does not call.
- A caller of the memory debugger that frees what it does not own, and a realloc to
  zero bytes there.
- The end of standard input, where the command loop spins for ever: reading may fail at
  any time, and no progress of the user is assumed.

## 8. Plan

Done: the engine with all its threads, its proofs and refinement; the memory
debugger; opening and closing; the loading of a file chunk by chunk with the
conversion; the command loop; the byte vector; proofs about each.

Left, in this order:

1. `ChunksMeet` for a ratio that is rounded: how far the rounding of the ratio adds up over the
   frames played, and on which side, is a condition on the rate yet to be found.
2. ChunkStream as a refinement of the loading steps of AudioBuffer, chunk for chunk.
