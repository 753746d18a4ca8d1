---------------------------- MODULE AudioBuffer ----------------------------
(***************************************************************************)
(* ntrb_AudioBuffer (src/AudioBuffer.c) with its two sources, the WAV      *)
(* loader and the FLAC loader: a streaming buffer that one loading routine *)
(* refills chunk by chunk under the write side of buffer_access, that the  *)
(* audio callback reads under the read side, and that ntrb_AudioBuffer_free *)
(* tears down under the write side.                                        *)
(*                                                                         *)
(* A buffer is an address of the heap: malloc may hand out an address that *)
(* was freed before, and a detached loader keeps the raw pointer it was    *)
(* started with.  The actions take the calling thread as a parameter; the  *)
(* procedures return to labels of the callers, in RuntimeCoreData and      *)
(* AudioEngine.                                                            *)
(***************************************************************************)
EXTENDS Integers, FiniteSets

CONSTANTS
    Buf,              \* addresses malloc can return for an ntrb_AudioBuffer
    Loader,           \* detached loading threads that can exist at once
    File,             \* the audio files: [kind : {"wav","flac"}, len : Nat]
    Chunk,            \* audio units in one buffer; len is in the same units
    Faults,           \* which environment failures may happen, see FaultKind
    DetectsSelfLock,  \* wrlock by its own holder fails (EDEADLK) or hangs
    NULL              \* the null pointer

\* The threads of the process: the PortAudio callback, the user input thread,
\* the audio engine thread, main, and the detached loaders.
Callback == "callback"
User     == "user"
Engine   == "engine"
Main     == "main"
Thread   == Loader \cup {Callback, User, Engine, Main}

Nobody   == "nobody"    \* a lock that no thread holds for writing
Departed == "departed"  \* the holder was a loader that has returned since

FaultKind == {"read", "convert", "decode", "thread", "device"}
LoadError == {"OK", "EOF", "UnequalRead", "StdaudConversionError", "DecoderError"}
Kind      == {"wav", "flac"}

ASSUME ThreadAssumption ==
    /\ {Callback, User, Engine, Main, Nobody, Departed} \cap Loader = {}
    /\ NULL \notin Buf \cup File
ASSUME SourceAssumption ==
    /\ File \subseteq [kind : Kind, len : Nat]
    /\ Chunk \in Nat \ {0}
    /\ Faults \subseteq FaultKind
    /\ DetectsSelfLock \in BOOLEAN

VARIABLES
    mem,               \* Buf -> "free", "live", or "gutted" (contents freed)
    writer, readers,   \* Buf -> who holds buffer_access, for writing, reading
    source,            \* Buf -> the opened File
    load_err,          \* Buf -> LoadError
    next_first_frame,  \* Buf -> stdaud_next_buffer_first_frame, in units
    bytes_in_buffer,   \* Buf -> what a FLAC source has decoded of its chunk
    broken,            \* Buf -> the FLAC decoder is in an error state
    pc, target,        \* Thread -> label, and the buffer the label is about
    routine,           \* Loader -> the load_buffer_callback it was started on
    process            \* "running", "exited" or "crashed"

heapVars   == <<mem, source>>
lockVars   == <<writer, readers>>
streamVars == <<load_err, next_first_frame, bytes_in_buffer, broken>>
callVars   == <<pc, target, routine>>
bufferVars == <<heapVars, lockVars, streamVars, callVars, process>>

At(t, label) == process = "running" /\ pc[t] = label
Goto(t, label) == pc' = [pc EXCEPT ![t] = label]

-----------------------------------------------------------------------------
(* pthread_rwlock, as the code uses it *)

\* A mutation of WriteLockFree: the writer does not wait for readers.
WriteLockFree_ignores_readers(b) == writer[b] = Nobody

WriteLockFree(b) == writer[b] = Nobody /\ readers[b] = {}
ReadLockFree(b)  == writer[b] = Nobody

LockWrite(t, b) == writer' = [writer EXCEPT ![b] = t] /\ UNCHANGED readers
UnlockWrite(b)  == writer' = [writer EXCEPT ![b] = Nobody] /\ UNCHANGED readers
LockRead(t, b)   == readers' = [readers EXCEPT ![b] = @ \cup {t}] /\ UNCHANGED writer
UnlockRead(t, b) == readers' = [readers EXCEPT ![b] = @ \ {t}] /\ UNCHANGED writer

-----------------------------------------------------------------------------
(* Creation.  malloc hands the memory to one thread; no other thread is    *)
(* meant to know the address yet.  A failing malloc or ntrb_AudioBuffer_new *)
(* leaves everything as it was and needs no action.                        *)

AudioBuffer_new(t, b, f) ==
    /\ mem[b] = "free"
    /\ mem' = [mem EXCEPT ![b] = "live"]
    /\ source' = [source EXCEPT ![b] = f]
    /\ writer' = [writer EXCEPT ![b] = Nobody]
    /\ readers' = [readers EXCEPT ![b] = {}]
    /\ load_err' = [load_err EXCEPT ![b] = "OK"]
    /\ next_first_frame' = [next_first_frame EXCEPT ![b] = 0]
    /\ bytes_in_buffer' = [bytes_in_buffer EXCEPT ![b] = 0]
    /\ broken' = [broken EXCEPT ![b] = FALSE]
    /\ target' = [target EXCEPT ![t] = b]

-----------------------------------------------------------------------------
(* The loading routines: ldStart -> loading (-> decoded, FLAC) -> ldOk ->   *)
(* return, or a return from within on an error.                            *)

LoadKind(t) == IF t \in Loader THEN routine[t] ELSE source[target[t]].kind

\* The user thread goes on to look at load_err, a detached loader is gone.
Return(t) ==
    /\ Goto(t, IF t = User THEN "uCheck" ELSE "idle")
    /\ target' = IF t = User THEN target ELSE [target EXCEPT ![t] = NULL]
    /\ UNCHANGED routine

LoadAcquire(t) ==
    /\ At(t, "ldStart")
    /\ mem[target[t]] = "live"
    /\ LoadKind(t) = source[target[t]].kind
    /\ WriteLockFree(target[t])
    /\ LockWrite(t, target[t])
    /\ Goto(t, "loading")
    /\ UNCHANGED <<heapVars, streamVars, target, routine, process>>

AtEnd(b) == next_first_frame[b] >= source[b].len

\* Positions past the end of the file are all alike: the first one stands for
\* the others, which keeps the counter finite.
Advanced(b) ==
    LET past == source[b].len + Chunk IN
    IF next_first_frame[b] + Chunk > past THEN past ELSE next_first_frame[b] + Chunk

\* A mutation of Fail: the return leaves buffer_access locked.
Fail_keeps_lock(t, b, err) ==
    /\ load_err' = [load_err EXCEPT ![b] = err]
    /\ UNCHANGED lockVars
    /\ Return(t)

\* Set load_err, release buffer_access and return.
Fail(t, b, err) ==
    /\ load_err' = [load_err EXCEPT ![b] = err]
    /\ UnlockWrite(b)
    /\ Return(t)

\* A mutation of WAV_EOF: the end of the file is reported as a success.
WAV_EOF_as_OK(t) == LET b == target[t] IN
    /\ At(t, "loading") /\ LoadKind(t) = "wav"
    /\ AtEnd(b)
    /\ Fail(t, b, "OK")
    /\ UNCHANGED <<heapVars, next_first_frame, bytes_in_buffer, broken, process>>

WAV_EOF(t) == LET b == target[t] IN
    /\ At(t, "loading") /\ LoadKind(t) = "wav"
    /\ AtEnd(b)
    /\ Fail(t, b, "EOF")
    /\ UNCHANGED <<heapVars, next_first_frame, bytes_in_buffer, broken, process>>

\* A mutation of WAV_UnequalRead: a last chunk that does not fill the buffer is
\* taken for an incomplete read (no clamp of the bytes to read to the file).
WAV_UnequalRead_at_tail(t) == LET b == target[t] IN
    /\ At(t, "loading") /\ LoadKind(t) = "wav"
    /\ "read" \in Faults \/ next_first_frame[b] + Chunk > source[b].len
    /\ ~AtEnd(b)
    /\ Fail(t, b, "UnequalRead")
    /\ UNCHANGED <<heapVars, next_first_frame, bytes_in_buffer, broken, process>>

WAV_UnequalRead(t) == LET b == target[t] IN
    /\ At(t, "loading") /\ LoadKind(t) = "wav"
    /\ "read" \in Faults
    /\ ~AtEnd(b)
    /\ Fail(t, b, "UnequalRead")
    /\ UNCHANGED <<heapVars, next_first_frame, bytes_in_buffer, broken, process>>

\* The conversion of the bytes read fails, for want of memory or because the
\* tail of the file is too short for one frame: the routine returns without
\* releasing buffer_access.
WAV_ConversionError(t) == LET b == target[t] IN
    /\ At(t, "loading") /\ LoadKind(t) = "wav"
    /\ "convert" \in Faults
    /\ ~AtEnd(b)
    /\ next_first_frame' = [next_first_frame EXCEPT ![b] = Advanced(b)]
    /\ load_err' = [load_err EXCEPT ![b] = "StdaudConversionError"]
    /\ writer' = [writer EXCEPT ![b] = IF t \in Loader THEN Departed ELSE t]
    /\ Return(t)
    /\ UNCHANGED <<heapVars, readers, bytes_in_buffer, broken, process>>

WAV_Loaded(t) == LET b == target[t] IN
    /\ At(t, "loading") /\ LoadKind(t) = "wav"
    /\ ~AtEnd(b)
    /\ next_first_frame' = [next_first_frame EXCEPT ![b] = Advanced(b)]
    /\ UnlockWrite(b)
    /\ Goto(t, "ldOk")
    /\ UNCHANGED <<heapVars, load_err, bytes_in_buffer, broken, target, routine, process>>

\* A mutation of Decoded: the decoder's frames are appended without a bound.
Decoded_unbounded(b) ==
    bytes_in_buffer[b] + (IF AtEnd(b) THEN 0 ELSE source[b].len - next_first_frame[b])

\* What read_bytes holds once the decoder has sought to next_first_frame and
\* decoded from there.  Bytes of an earlier load that did not succeed are
\* still in front; a seek past the end of the file is refused.
Decoded(b) ==
    LET ahead  == IF AtEnd(b) THEN 0 ELSE source[b].len - next_first_frame[b]
        filled == bytes_in_buffer[b] + ahead
    IN  IF filled > Chunk THEN Chunk ELSE filled

\* Seek and decode, and store in load_err what state that leaves the decoder in.
FLAC_Decode(t) == LET b == target[t] IN
    /\ At(t, "loading") /\ LoadKind(t) = "flac"
    /\ ~broken[b]
    /\ bytes_in_buffer' = [bytes_in_buffer EXCEPT ![b] = Decoded(b)]
    /\ load_err' = [load_err EXCEPT ![b] = IF Decoded(b) < Chunk THEN "EOF" ELSE "OK"]
    /\ Goto(t, "decoded")
    /\ UNCHANGED <<heapVars, lockVars, next_first_frame, broken, target, routine, process>>

\* The decoder gives up with a seek, allocation or abort error.  It then
\* refuses every later seek and keeps reporting that state.
FLAC_DecoderError(t) == LET b == target[t] IN
    /\ At(t, "loading") /\ LoadKind(t) = "flac"
    /\ \/ broken[b] /\ UNCHANGED bytes_in_buffer
       \/ /\ "decode" \in Faults
          /\ \E n \in bytes_in_buffer[b] .. Decoded(b) :
                bytes_in_buffer' = [bytes_in_buffer EXCEPT ![b] = n]
    /\ broken' = [broken EXCEPT ![b] = TRUE]
    /\ load_err' = [load_err EXCEPT ![b] = "DecoderError"]
    /\ Goto(t, "decoded")
    /\ UNCHANGED <<heapVars, lockVars, next_first_frame, target, routine, process>>

\* load_err is read back from the buffer.  Another loader that has released
\* buffer_access may have stored its OK there in the meantime: then this load
\* goes on with whatever the buffer holds.
FLAC_LoadError(t) == LET b == target[t] IN
    /\ At(t, "decoded")
    /\ load_err[b] # "OK"
    /\ Fail(t, b, load_err[b])
    /\ UNCHANGED <<heapVars, next_first_frame, bytes_in_buffer, broken, process>>

\* The chunk cannot be converted.  bytes_in_buffer is left as it is, so the
\* next load finds these bytes in front of its own.
FLAC_ConversionError(t) == LET b == target[t] IN
    /\ At(t, "decoded")
    /\ load_err[b] = "OK"
    /\ "convert" \in Faults
    /\ next_first_frame' = [next_first_frame EXCEPT ![b] = Advanced(b)]
    /\ Fail(t, b, "StdaudConversionError")
    /\ UNCHANGED <<heapVars, bytes_in_buffer, broken, process>>

FLAC_Loaded(t) == LET b == target[t] IN
    /\ At(t, "decoded")
    /\ load_err[b] = "OK"
    /\ bytes_in_buffer' = [bytes_in_buffer EXCEPT ![b] = 0]
    /\ next_first_frame' = [next_first_frame EXCEPT ![b] = Advanced(b)]
    /\ UnlockWrite(b)
    /\ Goto(t, "ldOk")
    /\ UNCHANGED <<heapVars, load_err, broken, target, routine, process>>

\* Both routines store the OK after they have released buffer_access.
LoadOk(t) == LET b == target[t] IN
    /\ At(t, "ldOk")
    /\ mem[b] # "free"
    /\ load_err' = [load_err EXCEPT ![b] = "OK"]
    /\ Return(t)
    /\ UNCHANGED <<heapVars, lockVars, next_first_frame, bytes_in_buffer, broken, process>>

\* A loader that reaches a buffer whose contents or memory are gone, or a
\* buffer of the other kind at the same address, runs into undefined behaviour:
\* the process dies, or the thread ends with no effect the rest can see, or,
\* on the other kind, with load_err at whatever value.
Dangling(t) ==
    \/ At(t, "ldStart") /\ mem[target[t]] # "live"
    \/ At(t, "ldOk") /\ mem[target[t]] = "free"

Mismatched(t) ==
    /\ At(t, "ldStart")
    /\ mem[target[t]] = "live"
    /\ LoadKind(t) # source[target[t]].kind
    /\ WriteLockFree(target[t])

StrayLoad(t) ==
    /\ Dangling(t) \/ Mismatched(t)
    /\ Return(t)
    /\ \/ UNCHANGED load_err
       \/ /\ Mismatched(t)
          /\ \E err \in LoadError : load_err' = [load_err EXCEPT ![target[t]] = err]
    /\ UNCHANGED <<heapVars, lockVars, next_first_frame, bytes_in_buffer, broken, process>>

StrayCrash(t) ==
    /\ Dangling(t) \/ Mismatched(t)
    /\ process' = "crashed"
    /\ UNCHANGED <<heapVars, lockVars, streamVars, callVars>>

Load(t) ==
    \/ LoadAcquire(t) \/ LoadOk(t) \/ StrayLoad(t) \/ StrayCrash(t)
    \/ WAV_EOF(t) \/ WAV_UnequalRead(t) \/ WAV_ConversionError(t) \/ WAV_Loaded(t)
    \/ FLAC_Decode(t) \/ FLAC_DecoderError(t)
    \/ FLAC_LoadError(t) \/ FLAC_ConversionError(t) \/ FLAC_Loaded(t)

-----------------------------------------------------------------------------
(* ntrb_AudioBuffer_free: frAcquire -> frHeld -> frGone, where the caller   *)
(* releases the memory.                                                    *)

FreeAcquire(t) ==
    /\ At(t, "frAcquire")
    /\ WriteLockFree(target[t])
    /\ LockWrite(t, target[t])
    /\ Goto(t, "frHeld")
    /\ UNCHANGED <<heapVars, streamVars, target, routine, process>>

\* The caller itself left buffer_access locked: wrlock reports a deadlock and
\* ntrb_AudioBuffer_free returns early, freeing nothing.
FreeSelfLocked(t) ==
    /\ At(t, "frAcquire")
    /\ DetectsSelfLock
    /\ writer[target[t]] = t
    /\ Goto(t, "frGone")
    /\ UNCHANGED <<heapVars, lockVars, streamVars, target, routine, process>>

FreeContents(t) ==
    /\ At(t, "frHeld")
    /\ mem' = [mem EXCEPT ![target[t]] = "gutted"]
    /\ UnlockWrite(target[t])
    /\ Goto(t, "frGone")
    /\ UNCHANGED <<source, streamVars, target, routine, process>>

AudioBuffer_free(t) == FreeAcquire(t) \/ FreeSelfLocked(t) \/ FreeContents(t)

\* The caller's ntrb_free(aud).  What the memory held means nothing any more.
FreeMemory(t) == LET b == target[t] IN
    /\ mem' = [mem EXCEPT ![b] = "free"]
    /\ source' = [source EXCEPT ![b] = NULL]
    /\ writer' = [writer EXCEPT ![b] = Nobody]
    /\ readers' = [readers EXCEPT ![b] = {}]
    /\ load_err' = [load_err EXCEPT ![b] = "OK"]
    /\ next_first_frame' = [next_first_frame EXCEPT ![b] = 0]
    /\ bytes_in_buffer' = [bytes_in_buffer EXCEPT ![b] = 0]
    /\ broken' = [broken EXCEPT ![b] = FALSE]
    /\ target' = [target EXCEPT ![t] = NULL]

-----------------------------------------------------------------------------
BufferInit ==
    /\ mem = [b \in Buf |-> "free"]
    /\ source = [b \in Buf |-> NULL]
    /\ writer = [b \in Buf |-> Nobody]
    /\ readers = [b \in Buf |-> {}]
    /\ load_err = [b \in Buf |-> "OK"]
    /\ next_first_frame = [b \in Buf |-> 0]
    /\ bytes_in_buffer = [b \in Buf |-> 0]
    /\ broken = [b \in Buf |-> FALSE]
    /\ target = [t \in Thread |-> NULL]
    /\ routine = [l \in Loader |-> "wav"]
    /\ process = "running"
=============================================================================
