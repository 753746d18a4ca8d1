------------------------- MODULE AudioEngineProofs -------------------------
(***************************************************************************)
(* IInv is an inductive invariant of AudioEngine, and the safety           *)
(* properties follow from it, for any number of buffers, loaders, tracks   *)
(* and files, and whatever faults may happen.                              *)
(*                                                                         *)
(* The steps of a load and of ntrb_AudioBuffer_free are many but look      *)
(* alike from outside: LoadEffect and FreeEffect say what each of them     *)
(* does to the locks and the owners, and the preservation proof is done    *)
(* once for each effect.  Quiet is the effect of the steps of threads that *)
(* are outside the buffers and outside the table.                          *)
(***************************************************************************)
EXTENDS AudioEngineInvariant, TLAPS

\* The thread identities are distinct, and no thread is the holder "nobody" or
\* "departed" of a lock.
LEMMA ThreadFacts ==
  /\ Callback \in Thread /\ User \in Thread /\ Engine \in Thread /\ Main \in Thread
  /\ Loader \subseteq Thread
  /\ Nobody \notin Thread /\ Departed \notin Thread /\ Nobody # Departed
  /\ Callback # User /\ Callback # Main /\ Callback # Engine
  /\ User # Main /\ User # Engine /\ Main # Engine
  /\ \A l \in Loader : l # Callback /\ l # User /\ l # Engine /\ l # Main
  /\ \A t \in Thread : t \in Loader \/ t \in {Callback, User, Engine, Main}
BY ThreadAssumption DEF Thread, Callback, User, Engine, Main, Nobody, Departed

\* NULL is neither a buffer nor a file.
LEMMA NullFacts == NULL \notin Buf /\ NULL \notin File
BY ThreadAssumption

-----------------------------------------------------------------------------
(* The initial states                                                      *)

\* The inductive invariant holds at the start.
LEMMA InitIInv == Init => IInv
<1> SUFFICES ASSUME Init PROVE IInv
  OBVIOUS
<1>1. BufferTypes
  BY DEF Init, BufferInit, BufferTypes
<1>2. StreamTypes
  BY SourceAssumption DEF Init, BufferInit, StreamTypes, LoadError
<1>3. ThreadTypes
  BY DEF Init, BufferInit, ThreadTypes, Kind, Label
<1>4. TableTypes
  BY TrackAssumption DEF Init, RcdInit, TableTypes
<1>5. FlagTypes
  BY DEF Init, BufferInit, RcdInit, FlagTypes
<1>6. Labels
  BY ThreadFacts DEF Init, Labels, FreeLabels, LoadLabels
<1>7. Targets
  BY ThreadFacts DEF Init, BufferInit, Targets, BusyLabels, FreeLabels, LoadLabels
<1>8. TableLock /\ Shutdown
  BY ThreadFacts DEF Init, RcdInit, TableLock, Shutdown, FreeLabels
<1>9. InsideLocked /\ GoneGutted
  BY ThreadFacts DEF Init, InsideLocked, GoneGutted, InsideLabels
<1>10. MixLocked
  BY ThreadFacts DEF Init, BufferInit, MixLocked, Mixing
<1>11. OneTrack /\ TracksAllocated /\ LoopOwner /\ UserOwner /\ Owned
  BY ThreadFacts
     DEF Init, BufferInit, RcdInit, OneTrack, TracksAllocated, LoopOwner, UserOwner, Owned
<1>12. Sweep
  BY ThreadFacts DEF Init, BufferInit, RcdInit, Sweep, FreeLabels
<1> QED
  BY <1>1, <1>2, <1>3, <1>4, <1>5, <1>6, <1>7, <1>8, <1>9, <1>10, <1>11, <1>12
     DEF IInv, TypeOK, Ownership

-----------------------------------------------------------------------------
(* The steps of a load                                                     *)

LoadNext(t) == {"loading", "decoded", "ldOk"} \cup (IF t = User THEN {"uCheck"} ELSE {"idle"})

LoadEffect(t, label) ==
    /\ pc[t] \in LoadLabels
    /\ pc' = [pc EXCEPT ![t] = label]
    /\ target' = [target EXCEPT ![t] = IF label = "idle" THEN NULL ELSE @]
    /\ \/ /\ pc[t] = "ldStart" /\ label = "loading"
          /\ mem[target[t]] = "live" /\ WriteLockFree(target[t])
          /\ writer' = [writer EXCEPT ![target[t]] = t]
       \/ pc[t] = "loading" /\ label = "decoded" /\ UNCHANGED writer
       \/ /\ pc[t] \in InsideLabels /\ label \notin InsideLabels
          /\ \E w \in {Nobody, Departed, t} : writer' = [writer EXCEPT ![target[t]] = w]
       \/ pc[t] \notin InsideLabels /\ label \notin InsideLabels /\ UNCHANGED writer
    /\ UNCHANGED <<mem, source, readers, routine, process,
                   audio_tracks, rcd_owner, cursor, requested_exit, in_pause_state>>

\* The process dies and nothing else changes.
Crash ==
    /\ process' = "crashed"
    /\ UNCHANGED <<mem, source, writer, readers, load_err, next_first_frame,
                   bytes_in_buffer, broken, pc, target, routine,
                   audio_tracks, rcd_owner, cursor, requested_exit, in_pause_state>>

\* The label a load returns to.
LoadEnd(t) == IF t = User THEN "uCheck" ELSE "idle"

\* What a return from a loading routine amounts to.
LEMMA ReturnEffect ==
  ASSUME IInv, NEW t \in Loader \cup {User}, Return(t)
  PROVE  /\ pc' = [pc EXCEPT ![t] = LoadEnd(t)]
         /\ target' = [target EXCEPT ![t] = IF LoadEnd(t) = "idle" THEN NULL ELSE @]
         /\ UNCHANGED routine
         /\ LoadEnd(t) \in LoadNext(t) /\ LoadEnd(t) \notin InsideLabels
<1>1. CASE t = User
  <2>1. target = [target EXCEPT ![t] = target[t]]
    BY ThreadFacts DEF IInv, TypeOK, ThreadTypes
  <2> QED
    BY <1>1, <2>1 DEF Return, Goto, LoadEnd, LoadNext, InsideLabels
<1>2. CASE t # User
  BY <1>2 DEF Return, Goto, LoadEnd, LoadNext, InsideLabels
<1> QED
  BY <1>1, <1>2

\* Each step of a load has the effect LoadEffect, or kills the process.
LEMMA LoadHasEffect ==
  ASSUME IInv, NEW t \in Loader \cup {User}, Load(t), UNCHANGED rcdVars
  PROVE  Crash \/ \E label \in LoadNext(t) : LoadEffect(t, label)
<1> DEFINE b == target[t]
<1>1. UNCHANGED <<audio_tracks, rcd_owner, cursor, requested_exit, in_pause_state>>
  BY DEF rcdVars, tableVars, flagVars
<1>2. target = [target EXCEPT ![t] = @]
  BY ThreadFacts DEF IInv, TypeOK, ThreadTypes
<1>3. {"loading", "decoded", "ldOk"} \subseteq LoadNext(t)
  BY DEF LoadNext
<1>4. ASSUME /\ pc[t] \in {"loading", "decoded"} /\ Return(t)
             /\ \E w \in {Nobody, Departed, t} : writer' = [writer EXCEPT ![b] = w]
             /\ UNCHANGED <<mem, source, readers, process>>
      PROVE  LoadEffect(t, LoadEnd(t)) /\ LoadEnd(t) \in LoadNext(t)
  BY <1>1, <1>4, ReturnEffect DEF LoadEffect, LoadLabels, InsideLabels
<1>5. ASSUME /\ pc[t] \in {"ldStart", "ldOk"} /\ Return(t)
             /\ UNCHANGED <<mem, source, writer, readers, process>>
      PROVE  LoadEffect(t, LoadEnd(t)) /\ LoadEnd(t) \in LoadNext(t)
  BY <1>1, <1>5, ReturnEffect DEF LoadEffect, LoadLabels, InsideLabels
<1>6. CASE LoadAcquire(t)
  <2>1. LoadEffect(t, "loading")
    BY <1>1, <1>2, <1>6
       DEF LoadAcquire, LoadEffect, At, Goto, LockWrite, LoadLabels, heapVars, streamVars
  <2> QED
    BY <1>3, <2>1
<1>7. CASE WAV_Loaded(t) \/ FLAC_Loaded(t)
  <2>1. /\ pc[t] \in {"loading", "decoded"} /\ pc' = [pc EXCEPT ![t] = "ldOk"]
        /\ writer' = [writer EXCEPT ![b] = Nobody]
        /\ UNCHANGED <<mem, source, readers, target, routine, process>>
    BY <1>7 DEF WAV_Loaded, FLAC_Loaded, At, Goto, UnlockWrite, heapVars
  <2>2. LoadEffect(t, "ldOk")
    BY <1>1, <1>2, <2>1 DEF LoadEffect, LoadLabels, InsideLabels
  <2> QED
    BY <1>3, <2>2
<1>8. CASE WAV_EOF(t) \/ WAV_UnequalRead(t) \/ FLAC_LoadError(t) \/ FLAC_ConversionError(t)
  BY <1>4, <1>8 DEF WAV_EOF, WAV_UnequalRead, FLAC_LoadError,
       FLAC_ConversionError, Fail, UnlockWrite, At, heapVars
<1>9. CASE WAV_ConversionError(t)
  BY <1>4, <1>9 DEF WAV_ConversionError, At, heapVars
<1>10. CASE LoadOk(t) \/ StrayLoad(t)
  BY <1>5, <1>10 DEF LoadOk, StrayLoad, Dangling, Mismatched, At, heapVars, lockVars
<1>11. CASE StrayCrash(t)
  BY <1>1, <1>11 DEF StrayCrash, Crash, heapVars, lockVars, streamVars, callVars
<1>12. CASE FLAC_Decode(t) \/ FLAC_DecoderError(t)
  <2>1. /\ pc[t] = "loading" /\ pc' = [pc EXCEPT ![t] = "decoded"]
        /\ UNCHANGED <<mem, source, writer, readers, target, routine, process>>
    BY <1>12 DEF FLAC_Decode, FLAC_DecoderError, At, Goto, heapVars, lockVars
  <2>2. LoadEffect(t, "decoded")
    BY <1>1, <1>2, <2>1 DEF LoadEffect, LoadLabels
  <2> QED
    BY <1>3, <2>2
<1> QED
  BY <1>6, <1>7, <1>8, <1>9, <1>10, <1>11, <1>12 DEF Load

\* Each step of a load keeps the types of the stream's state.
LEMMA LoadStreamTypes ==
  ASSUME IInv, NEW t \in Loader \cup {User}, Load(t)
  PROVE  StreamTypes' /\ broken' \in [Buf -> BOOLEAN]
<1> DEFINE b == target[t]
<1>1. StreamTypes /\ broken \in [Buf -> BOOLEAN] /\ FlagTypes
  BY DEF IInv, TypeOK, FlagTypes
<1>2. {"OK", "EOF", "UnequalRead", "StdaudConversionError", "DecoderError"} = LoadError
  BY DEF LoadError
<1>3. ASSUME pc[t] \in {"loading", "decoded"}
      PROVE  b \in Buf /\ Advanced(b) \in Nat /\ Decoded(b) \in 0 .. Chunk
  <2>1. b \in Buf /\ mem[b] = "live"
    BY <1>3, ThreadFacts
       DEF IInv, Ownership, TypeOK, ThreadTypes, Targets, BusyLabels, LoadLabels, InsideLocked,
           InsideLabels
  <2>2. source[b] \in File
    BY <2>1 DEF IInv, TypeOK, BufferTypes
  <2>3. source[b].len \in Nat /\ Chunk \in Nat \ {0}
    BY <2>2, SourceAssumption
  <2>4. next_first_frame[b] \in Nat /\ bytes_in_buffer[b] \in 0 .. Chunk
    BY <1>1, <2>1 DEF StreamTypes
  <2>5. Advanced(b) \in Nat
    BY <2>3, <2>4 DEF Advanced
  <2>6. Decoded(b) \in 0 .. Chunk
    <3> DEFINE ahead == IF AtEnd(b) THEN 0 ELSE source[b].len - next_first_frame[b]
    <3>1. ahead \in Nat
      BY <2>3, <2>4 DEF AtEnd
    <3>2. Decoded(b) = IF bytes_in_buffer[b] + ahead > Chunk THEN Chunk ELSE bytes_in_buffer[b] + ahead
      BY DEF Decoded
    <3> HIDE DEF ahead
    <3> QED
      BY <2>3, <2>4, <3>1, <3>2
  <2> QED
    BY <2>1, <2>5, <2>6
<1>4. ASSUME UNCHANGED <<next_first_frame, bytes_in_buffer, broken>>,
             \E err \in LoadError : load_err' = [load_err EXCEPT ![b] = err]
      PROVE  StreamTypes' /\ broken' \in [Buf -> BOOLEAN]
  <2>1. StreamTypes'
    BY <1>1, <1>4 DEF StreamTypes
  <2> QED
    BY <1>1, <1>4, <2>1
<1>5. CASE LoadAcquire(t) \/ StrayCrash(t)
  BY <1>1, <1>5 DEF LoadAcquire, StrayCrash, StreamTypes, streamVars
<1>6. CASE WAV_EOF(t) \/ WAV_UnequalRead(t) \/ LoadOk(t)
  BY <1>2, <1>4, <1>6 DEF WAV_EOF, WAV_UnequalRead, LoadOk, Fail
<1>7. CASE StrayLoad(t)
  BY <1>1, <1>4, <1>7 DEF StrayLoad, StreamTypes
<1>8. CASE WAV_ConversionError(t) \/ WAV_Loaded(t)
  <2>1. pc[t] = "loading" /\ UNCHANGED <<bytes_in_buffer, broken>>
    BY <1>8 DEF WAV_ConversionError, WAV_Loaded, At
  <2>2. next_first_frame' = [next_first_frame EXCEPT ![b] = Advanced(b)]
    BY <1>8 DEF WAV_ConversionError, WAV_Loaded
  <2>3. load_err' = load_err \/ load_err' = [load_err EXCEPT ![b] = "StdaudConversionError"]
    BY <1>8 DEF WAV_ConversionError, WAV_Loaded
  <2>4. StreamTypes'
    BY <1>1, <1>2, <1>3, <2>1, <2>2, <2>3 DEF StreamTypes
  <2> QED
    BY <1>1, <2>1, <2>4
<1>9. CASE FLAC_LoadError(t)
  <2>1. pc[t] = "decoded" /\ load_err' = [load_err EXCEPT ![b] = load_err[b]]
        /\ UNCHANGED <<next_first_frame, bytes_in_buffer, broken>>
    BY <1>9 DEF FLAC_LoadError, Fail, At
  <2>2. load_err[b] \in LoadError
    BY <1>1, <1>3, <2>1 DEF StreamTypes
  <2> QED
    BY <1>4, <2>1, <2>2
<1>10. CASE FLAC_ConversionError(t) \/ FLAC_Loaded(t)
  <2>1. /\ pc[t] = "decoded" /\ UNCHANGED broken
        /\ next_first_frame' = [next_first_frame EXCEPT ![b] = Advanced(b)]
    BY <1>10 DEF FLAC_ConversionError, FLAC_Loaded, At
  <2>2. bytes_in_buffer' = bytes_in_buffer \/ bytes_in_buffer' = [bytes_in_buffer EXCEPT ![b] = 0]
    BY <1>10 DEF FLAC_ConversionError, FLAC_Loaded
  <2>3. load_err' = load_err \/ load_err' = [load_err EXCEPT ![b] = "StdaudConversionError"]
    BY <1>10 DEF FLAC_ConversionError, FLAC_Loaded, Fail
  <2>4. 0 \in 0 .. Chunk
    BY SourceAssumption
  <2>5. bytes_in_buffer' \in [Buf -> 0 .. Chunk]
    BY <1>1, <2>2, <2>4 DEF StreamTypes
  <2>6. next_first_frame' \in [Buf -> Nat]
    BY <1>1, <1>3, <2>1 DEF StreamTypes
  <2>7. load_err' \in [Buf -> LoadError]
    BY <1>1, <1>2, <2>3 DEF StreamTypes
  <2> QED
    BY <1>1, <2>1, <2>5, <2>6, <2>7 DEF StreamTypes
<1>11. CASE FLAC_Decode(t) \/ FLAC_DecoderError(t)
  <2>1. pc[t] = "loading" /\ UNCHANGED next_first_frame
    BY <1>11 DEF FLAC_Decode, FLAC_DecoderError, At
  <2>2. broken' = broken \/ broken' = [broken EXCEPT ![b] = TRUE]
    BY <1>11 DEF FLAC_Decode, FLAC_DecoderError
  <2>3. \/ bytes_in_buffer' = bytes_in_buffer
        \/ \E n \in {Decoded(b)} \cup (bytes_in_buffer[b] .. Decoded(b)) :
             bytes_in_buffer' = [bytes_in_buffer EXCEPT ![b] = n]
    BY <1>11 DEF FLAC_Decode, FLAC_DecoderError
  <2>4. {Decoded(b)} \cup (bytes_in_buffer[b] .. Decoded(b)) \subseteq 0 .. Chunk
    BY <1>1, <1>3, <2>1, SourceAssumption DEF StreamTypes
  <2>5. bytes_in_buffer' \in [Buf -> 0 .. Chunk]
    BY <1>1, <2>3, <2>4 DEF StreamTypes
  <2>6. \E err \in LoadError : load_err' = [load_err EXCEPT ![b] = err]
    BY <1>2, <1>11 DEF FLAC_Decode, FLAC_DecoderError
  <2>7. StreamTypes'
    BY <1>1, <2>1, <2>5, <2>6 DEF StreamTypes
  <2>8. broken' \in [Buf -> BOOLEAN]
    BY <1>1, <2>2
  <2> QED
    BY <2>7, <2>8
<1> QED
  BY <1>5, <1>6, <1>7, <1>8, <1>9, <1>10, <1>11 DEF Load

-----------------------------------------------------------------------------
(* Preservation, effect by effect                                          *)

\* What every preservation proof uses of the invariant.
LEMMA Facts ==
  ASSUME IInv
  PROVE  /\ BufferTypes /\ ThreadTypes /\ TableTypes
         /\ Labels /\ Targets /\ TableLock /\ InsideLocked /\ MixLocked /\ GoneGutted
         /\ OneTrack /\ TracksAllocated /\ LoopOwner /\ UserOwner /\ Owned /\ Shutdown /\ Sweep
BY DEF IInv, TypeOK, Ownership

\* A step of a load leaves the locks and the owners in order.
LEMMA LoadKeeps ==
  ASSUME IInv, NEW t \in Loader \cup {User}, NEW label \in LoadNext(t), LoadEffect(t, label)
  PROVE  (BufferTypes /\ ThreadTypes /\ TableTypes /\ Ownership)'
<1> DEFINE b == target[t]
<1>1. /\ t \in Thread /\ t # Callback /\ t # Main /\ t # Engine
      /\ b \in Buf /\ label \in Label
      /\ label \in {"loading", "decoded", "ldOk", "uCheck", "idle"}
      /\ label = "uCheck" => t = User
      /\ label = "idle" => t \in Loader
  <2>1. t \in Thread /\ t # Callback /\ t # Main /\ t # Engine
    BY ThreadFacts
  <2>2. b \in Buf
    BY <2>1, Facts DEF LoadEffect, ThreadTypes, Targets, BusyLabels
  <2>3. /\ label \in {"loading", "decoded", "ldOk", "uCheck", "idle"}
        /\ label = "uCheck" => t = User
        /\ label = "idle" => t \in Loader
    BY DEF LoadNext
  <2> QED
    BY <2>1, <2>2, <2>3 DEF Label
<1>2. /\ pc[t] \in LoadLabels
      /\ pc' = [pc EXCEPT ![t] = label]
      /\ target' = [target EXCEPT ![t] = IF label = "idle" THEN NULL ELSE @]
      /\ UNCHANGED <<mem, source, readers, process, audio_tracks, rcd_owner, cursor>>
      /\ UNCHANGED <<routine, requested_exit>>
  BY DEF LoadEffect
<1>3. \/ /\ pc[t] = "ldStart" /\ label = "loading"
         /\ mem[b] = "live" /\ WriteLockFree(b)
         /\ writer' = [writer EXCEPT ![b] = t]
      \/ pc[t] = "loading" /\ label = "decoded" /\ UNCHANGED writer
      \/ /\ pc[t] \in InsideLabels /\ label \notin InsideLabels
         /\ \E w \in {Nobody, Departed, t} : writer' = [writer EXCEPT ![b] = w]
      \/ pc[t] \notin InsideLabels /\ label \notin InsideLabels /\ UNCHANGED writer
  BY DEF LoadEffect
<1>4. BufferTypes'
  BY <1>1, <1>2, <1>3, ThreadFacts, Facts DEF BufferTypes
<1>5. ThreadTypes'
  BY <1>1, <1>2, Facts DEF ThreadTypes
<1>6. TableTypes'
  BY <1>2, Facts DEF TableTypes
<1>7. Labels'
  BY <1>1, <1>2, ThreadFacts, Facts DEF Labels, ThreadTypes, LoadLabels
<1>8. Targets'
  BY <1>1, <1>2, NullFacts, Facts
     DEF Targets, ThreadTypes, BusyLabels, LoadLabels, FreeLabels
<1>9. TableLock'
  BY <1>1, <1>2, ThreadFacts, Facts DEF TableLock, ThreadTypes
<1>10. InsideLocked'
  BY <1>1, <1>2, <1>3, ThreadFacts, Facts
     DEF InsideLocked, Targets, ThreadTypes, BufferTypes, BusyLabels, LoadLabels, FreeLabels,
         WriteLockFree, InsideLabels
<1>11. MixLocked'
  <2>1. \A c \in Buf : Mixing(c)' <=> Mixing(c)
    BY <1>1, <1>2, ThreadFacts, Facts DEF Mixing, ThreadTypes
  <2>2. pc[t] \in InsideLabels => writer[b] = t
    BY <1>1, Facts DEF InsideLocked
  <2> QED
    BY <1>1, <1>2, <1>3, <2>1, <2>2, ThreadFacts, Facts DEF MixLocked, BufferTypes, WriteLockFree
<1>12. GoneGutted'
  BY <1>1, <1>2, <1>3, ThreadFacts, Facts
     DEF GoneGutted, InsideLocked, Targets, ThreadTypes, BufferTypes, BusyLabels, LoadLabels,
         FreeLabels, WriteLockFree, InsideLabels
<1>13. OneTrack'
  BY <1>2, Facts DEF OneTrack
<1>14. TracksAllocated'
  BY <1>1, <1>2, Facts DEF TracksAllocated, ThreadTypes, TableTypes, LoadLabels
<1>15. LoopOwner'
  BY <1>1, <1>2, Facts DEF LoopOwner, ThreadTypes
<1>16. target'[User] = target[User]
  BY <1>1, <1>2, ThreadFacts, Facts DEF ThreadTypes
<1>17. UserOwner'
  BY <1>1, <1>2, <1>16, ThreadFacts, Facts DEF UserOwner, ThreadTypes, LoadLabels
<1>18. Owned'
  BY <1>2, <1>16, Facts DEF Owned
<1>19. Shutdown'
  BY <1>1, <1>2, ThreadFacts, Facts DEF Shutdown, ThreadTypes, LoadLabels
<1>20. Sweep'
  BY <1>1, <1>2, ThreadFacts, Facts DEF Sweep, ThreadTypes
<1> QED
  BY <1>4, <1>5, <1>6, <1>7, <1>8, <1>9, <1>10, <1>11, <1>12, <1>13, <1>14, <1>15,
     <1>17, <1>18, <1>19, <1>20 DEF Ownership

\* When the process dies nothing else changes.
LEMMA CrashKeeps ==
  ASSUME IInv, Crash
  PROVE  (BufferTypes /\ ThreadTypes /\ TableTypes /\ Ownership)'
<1>1. (BufferTypes /\ ThreadTypes /\ TableTypes)'
  BY Facts DEF Crash, BufferTypes, ThreadTypes, TableTypes
<1>2. (Labels /\ Targets /\ TableLock /\ InsideLocked /\ MixLocked /\ GoneGutted)'
  BY Facts DEF Crash, Labels, Targets, TableLock, InsideLocked, MixLocked, Mixing, GoneGutted
<1>3. (OneTrack /\ TracksAllocated /\ LoopOwner /\ UserOwner /\ Owned /\ Shutdown /\ Sweep)'
  BY Facts DEF Crash, OneTrack, TracksAllocated, LoopOwner, UserOwner, Owned, Shutdown, Sweep
<1> QED
  BY <1>1, <1>2, <1>3 DEF Ownership

\* The buffer that a thread is about to tear down, or that the callback mixes,
\* is in place.
LEMMA InHandLive ==
  ASSUME IInv, NEW t \in {User, Callback, Main}, pc[t] \in {"frAcquire", "frHeld", "cbMix"}
  PROVE  t \in Thread /\ target[t] \in Buf /\ mem[target[t]] = "live"
<1>1. t \in Thread
  BY ThreadFacts
<1>2. target[t] \in Buf /\ target[t] # NULL
  BY <1>1, NullFacts, Facts DEF ThreadTypes, Targets, BusyLabels, FreeLabels
<1>3. CASE t = User
  BY <1>1, <1>2, <1>3, Facts DEF UserOwner
<1>4. CASE t \in {Callback, Main}
  <2>1. cursor \in Track /\ audio_tracks[cursor] = target[t]
    BY <1>2, <1>4, TrackAssumption, Facts DEF LoopOwner, TableTypes, Track
  <2>2. rcd_owner = t
    BY <1>4, ThreadFacts, Facts DEF TableLock, Labels, FreeLabels
  <2> QED
    BY <1>1, <1>2, <2>1, <2>2, Facts DEF TracksAllocated
<1> QED
  BY <1>1, <1>2, <1>3, <1>4

\* The steps of ntrb_AudioBuffer_free.
FreeEffect(t) ==
    LET b == target[t] IN
    /\ \/ /\ pc[t] = "frAcquire"
          /\ pc' = [pc EXCEPT ![t] = "frHeld"]
          /\ WriteLockFree(b)
          /\ writer' = [writer EXCEPT ![b] = t]
          /\ UNCHANGED mem
       \/ /\ pc[t] = "frAcquire"
          /\ pc' = [pc EXCEPT ![t] = "frGone"]
          /\ writer[b] = t
          /\ UNCHANGED <<mem, writer>>
       \/ /\ pc[t] = "frHeld"
          /\ pc' = [pc EXCEPT ![t] = "frGone"]
          /\ mem' = [mem EXCEPT ![b] = "gutted"]
          /\ writer' = [writer EXCEPT ![b] = Nobody]
    /\ UNCHANGED <<source, readers, load_err, next_first_frame, bytes_in_buffer, broken,
                   target, routine, process,
                   audio_tracks, rcd_owner, cursor, requested_exit, in_pause_state>>

\* Each step of ntrb_AudioBuffer_free is one of these.
LEMMA FreeHasEffect ==
  ASSUME NEW t, AudioBuffer_free(t), UNCHANGED rcdVars
  PROVE  FreeEffect(t)
BY DEF AudioBuffer_free, FreeAcquire, FreeSelfLocked, FreeContents, FreeEffect, At, Goto,
       LockWrite, UnlockWrite, heapVars, lockVars, streamVars, rcdVars, tableVars, flagVars

\* A step of ntrb_AudioBuffer_free keeps the inductive invariant.
LEMMA FreeKeeps ==
  ASSUME IInv, NEW t \in {User, Callback, Main}, FreeEffect(t)
  PROVE  IInv'
<1> DEFINE b == target[t]
<1>1. pc[t] \in {"frAcquire", "frHeld"}
  BY DEF FreeEffect
<1>2. t \in Thread /\ b \in Buf /\ mem[b] = "live"
  BY <1>1, InHandLive
<1>3. /\ UNCHANGED <<source, readers, target, routine, process, audio_tracks, rcd_owner, cursor>>
      /\ UNCHANGED <<requested_exit, in_pause_state>>
      /\ UNCHANGED <<load_err, next_first_frame, bytes_in_buffer, broken>>
  BY DEF FreeEffect
<1>4. \E label \in {"frHeld", "frGone"} : pc' = [pc EXCEPT ![t] = label]
  BY DEF FreeEffect
<1>5. \/ /\ pc[t] = "frAcquire"
         /\ pc' = [pc EXCEPT ![t] = "frHeld"]
         /\ writer[b] = Nobody /\ readers[b] = {}
         /\ writer' = [writer EXCEPT ![b] = t]
         /\ UNCHANGED mem
      \/ /\ pc[t] = "frAcquire"
         /\ pc' = [pc EXCEPT ![t] = "frGone"]
         /\ writer[b] = t
         /\ UNCHANGED <<mem, writer>>
      \/ /\ pc[t] = "frHeld"
         /\ pc' = [pc EXCEPT ![t] = "frGone"]
         /\ mem' = [mem EXCEPT ![b] = "gutted"]
         /\ writer' = [writer EXCEPT ![b] = Nobody]
  BY DEF FreeEffect, WriteLockFree
<1>6. pc[t] = "frHeld" => writer[b] = t
  BY <1>2, Facts DEF InsideLocked, InsideLabels
<1>7. TypeOK'
  <2>1. BufferTypes'
    BY <1>2, <1>3, <1>5, ThreadFacts, Facts DEF BufferTypes
  <2>2. ThreadTypes'
    BY <1>2, <1>3, <1>4, Facts DEF ThreadTypes, Label
  <2>3. TableTypes'
    BY <1>3, Facts DEF TableTypes
  <2>4. StreamTypes'
    BY <1>3 DEF IInv, TypeOK, StreamTypes
  <2>5. FlagTypes'
    BY <1>3 DEF IInv, TypeOK, FlagTypes
  <2> QED
    BY <2>1, <2>2, <2>3, <2>4, <2>5 DEF TypeOK
<1>8. Labels'
  BY <1>2, <1>4, ThreadFacts, Facts DEF Labels, ThreadTypes, FreeLabels
<1>9. Targets'
  BY <1>1, <1>2, <1>3, <1>4, Facts DEF Targets, ThreadTypes, BusyLabels, FreeLabels
<1>10. TableLock'
  BY <1>1, <1>2, <1>3, <1>4, ThreadFacts, Facts DEF TableLock, ThreadTypes, FreeLabels
<1>11. InsideLocked'
  <2> SUFFICES ASSUME NEW u \in Thread, pc'[u] \in InsideLabels
               PROVE  writer'[target[u]] = u /\ mem'[target[u]] = "live"
    BY <1>3 DEF InsideLocked
  <2>1. CASE u = t
    BY <1>2, <1>5, <2>1, Facts DEF BufferTypes, ThreadTypes, InsideLabels
  <2>2. CASE u # t
    <3>1. pc[u] \in InsideLabels
      BY <1>2, <1>4, <2>2, Facts DEF ThreadTypes
    <3>2. writer[target[u]] = u /\ mem[target[u]] = "live"
      BY <3>1, Facts DEF InsideLocked
    <3>3. target[u] # b
      BY <1>5, <1>6, <2>2, <3>2, ThreadFacts
    <3>4. target[u] \in Buf
      BY <3>1, NullFacts, Facts DEF Targets, ThreadTypes, BusyLabels, LoadLabels, FreeLabels, InsideLabels
    <3> QED
      BY <1>2, <1>5, <3>2, <3>3, <3>4, Facts DEF BufferTypes
  <2> QED
    BY <2>1, <2>2
<1>12. MixLocked'
  <2>1. \A c \in Buf : Mixing(c)' <=> Mixing(c)
    BY <1>1, <1>2, <1>3, <1>4, ThreadFacts, Facts DEF Mixing, ThreadTypes
  <2>2. \A c \in Buf : readers'[c] = IF Mixing(c)' THEN {Callback} ELSE {}
    BY <1>3, <2>1, Facts DEF MixLocked
  <2>3. \A c \in Buf : writer'[c] # Nobody => readers'[c] = {}
    BY <1>2, <1>3, <1>5, Facts DEF MixLocked, BufferTypes
  <2> QED
    BY <2>2, <2>3 DEF MixLocked
<1>13. GoneGutted'
  <2> SUFFICES ASSUME NEW u \in Thread, pc'[u] = "frGone"
               PROVE  \/ mem'[target[u]] = "gutted"
                      \/ mem'[target[u]] = "live" /\ writer'[target[u]] = u
    BY <1>3 DEF GoneGutted
  <2>1. CASE u = t
    BY <1>2, <1>5, <2>1, Facts DEF BufferTypes, ThreadTypes
  <2>2. CASE u # t
    <3>1. pc[u] = "frGone"
      BY <1>2, <1>4, <2>2, Facts DEF ThreadTypes
    <3>2. target[u] \in Buf
      BY <3>1, NullFacts, Facts DEF Targets, ThreadTypes, BusyLabels, FreeLabels
    <3>3. mem[target[u]] = "gutted" \/ (mem[target[u]] = "live" /\ writer[target[u]] = u)
      BY <3>1, Facts DEF GoneGutted
    <3> QED
      BY <1>2, <1>5, <1>6, <2>2, <3>2, <3>3, ThreadFacts, Facts DEF BufferTypes
  <2> QED
    BY <2>1, <2>2
<1>14. TracksAllocated'
  <2> SUFFICES ASSUME NEW i \in Track, audio_tracks[i] # NULL
               PROVE  \/ mem'[audio_tracks[i]] = "live"
                      \/ /\ mem'[audio_tracks[i]] = "gutted"
                         /\ rcd_owner # Nobody
                         /\ pc'[rcd_owner] = "frGone"
                         /\ i = cursor
    BY <1>3 DEF TracksAllocated
  <2>1. audio_tracks[i] \in Buf
    BY Facts DEF TableTypes
  <2>2. pc[rcd_owner] = "frGone" /\ rcd_owner # Nobody => pc'[rcd_owner] = "frGone"
    BY <1>1, <1>2, <1>4, ThreadFacts, Facts DEF ThreadTypes, TableTypes
  <2>3. CASE audio_tracks[i] # b
    BY <1>2, <1>5, <2>1, <2>2, <2>3, Facts DEF TracksAllocated, BufferTypes
  <2>4. CASE audio_tracks[i] = b
    <3>1. t # User /\ t \in {Callback, Main}
      BY <1>2, <2>4, NullFacts, Facts DEF UserOwner
    <3>2. rcd_owner = t /\ rcd_owner # Nobody
      BY <1>1, <3>1, ThreadFacts, Facts DEF TableLock, FreeLabels
    <3>3. i = cursor
      BY <1>2, <2>4, <3>1, NullFacts, TrackAssumption, Facts
         DEF LoopOwner, OneTrack, TableTypes, Track
    <3> QED
      BY <1>2, <1>5, <2>4, <3>2, <3>3, Facts DEF BufferTypes, ThreadTypes
  <2> QED
    BY <2>3, <2>4
<1>15. OneTrack' /\ LoopOwner'
  BY <1>3, Facts DEF OneTrack, LoopOwner
<1>16. UserOwner'
  <2> SUFFICES ASSUME target[User] # NULL
               PROVE  /\ \A i \in Track : audio_tracks[i] # target[User]
                      /\ mem'[target[User]] # "free"
                      /\ pc'[User] # "frGone" => mem'[target[User]] = "live"
    BY <1>3 DEF UserOwner
  <2>1. target[User] \in Buf
    BY ThreadFacts, Facts DEF ThreadTypes
  <2>2. CASE t = User
    BY <1>2, <1>5, <2>1, <2>2, Facts DEF UserOwner, BufferTypes, ThreadTypes
  <2>3. CASE t # User
    <3>1. b # target[User]
      <4>1. audio_tracks[cursor] = b /\ cursor \in Track
        BY <1>2, <2>3, NullFacts, TrackAssumption, Facts DEF LoopOwner, TableTypes, Track
      <4> QED
        BY <4>1, Facts DEF UserOwner
    <3>2. pc'[User] = pc[User]
      BY <1>2, <1>4, <2>3, ThreadFacts, Facts DEF ThreadTypes
    <3> QED
      BY <1>2, <1>5, <2>1, <3>1, <3>2, Facts DEF UserOwner, BufferTypes
  <2> QED
    BY <2>2, <2>3
<1>17. Owned'
  BY <1>2, <1>3, <1>5, Facts DEF Owned, BufferTypes
<1>18. Shutdown'
  BY <1>1, <1>2, <1>3, <1>4, ThreadFacts, Facts DEF Shutdown, ThreadTypes
<1>19. Sweep'
  BY <1>1, <1>2, <1>3, <1>4, ThreadFacts, Facts DEF Sweep, ThreadTypes, FreeLabels
<1> QED
  BY <1>7, <1>8, <1>9, <1>10, <1>11, <1>12, <1>13, <1>14, <1>15, <1>16, <1>17, <1>18, <1>19
     DEF IInv, Ownership

-----------------------------------------------------------------------------
(* Steps that only move threads, outside the buffers                       *)

\* Labels at which no lock of a buffer is at stake.
Calm == Label \ {"loading", "decoded", "frHeld", "frGone", "cbMix"}

Quiet ==
    /\ UNCHANGED <<mem, source, writer, readers, target, routine, audio_tracks, rcd_owner, cursor>>
    /\ UNCHANGED <<load_err, next_first_frame, bytes_in_buffer, broken>>
    /\ \A t \in Thread :
         \/ pc'[t] = pc[t]
         \/ /\ pc[t] \in Calm /\ pc'[t] \in Calm
            /\ pc[t] \in BusyLabels <=> pc'[t] \in BusyLabels

\* Such a step leaves to be checked only where the threads are.
LEMMA QuietKeeps ==
  ASSUME IInv, Quiet, ThreadTypes', FlagTypes', Labels', TableLock', Shutdown', Sweep'
  PROVE  IInv'
<1>1. /\ UNCHANGED <<mem, source, writer, readers, target, routine, audio_tracks, rcd_owner, cursor>>
      /\ UNCHANGED <<load_err, next_first_frame, bytes_in_buffer, broken>>
  BY DEF Quiet
<1>2. \A t \in Thread : \A label \in {"loading", "decoded", "frHeld", "frGone", "cbMix"} :
        pc'[t] = label <=> pc[t] = label
  BY DEF Quiet, Calm
<1>3. BufferTypes' /\ TableTypes'
  BY <1>1, Facts DEF BufferTypes, TableTypes
<1>4. StreamTypes'
  BY <1>1 DEF IInv, TypeOK, StreamTypes
<1>5. Targets'
  BY <1>1, Facts DEF Targets, Quiet
<1>6. InsideLocked' /\ GoneGutted'
  BY <1>1, <1>2, Facts DEF InsideLocked, GoneGutted, InsideLabels
<1>7. MixLocked'
  BY <1>1, <1>2, ThreadFacts, Facts DEF MixLocked, Mixing
<1>8. OneTrack' /\ LoopOwner' /\ Owned'
  BY <1>1, Facts DEF OneTrack, LoopOwner, Owned
<1>9. TracksAllocated'
  BY <1>1, <1>2, ThreadFacts, Facts DEF TracksAllocated, TableTypes
<1>10. UserOwner'
  BY <1>1, <1>2, ThreadFacts, Facts DEF UserOwner
<1> QED
  BY <1>3, <1>4, <1>5, <1>6, <1>7, <1>8, <1>9, <1>10 DEF IInv, TypeOK, Ownership

\* One thread moves from one calm label to another.
LEMMA MoveQuiet ==
  ASSUME IInv, NEW t \in Thread, NEW label \in Calm, pc[t] \in Calm,
         pc[t] \in BusyLabels <=> label \in BusyLabels,
         pc' = [pc EXCEPT ![t] = label],
         UNCHANGED <<mem, source, writer, readers, target, routine, audio_tracks, rcd_owner, cursor>>,
         UNCHANGED <<load_err, next_first_frame, bytes_in_buffer, broken>>
  PROVE  Quiet
BY Facts DEF Quiet, ThreadTypes

\* The callback enters and leaves a call without the table.
LEMMA CallbackMovesKeep ==
  ASSUME IInv, CallbackEnter \/ CallbackReturn
  PROVE  IInv'
<1>1. \E label \in {"cbReturn", "cbLock", "cbComplete", "cbIdle"} :
        pc' = [pc EXCEPT ![Callback] = label]
  BY DEF CallbackEnter, CallbackReturn, Goto
<1>2. /\ pc[Callback] \in {"cbIdle", "cbReturn"}
      /\ UNCHANGED <<mem, source, writer, readers, target, routine, audio_tracks, rcd_owner, cursor>>
      /\ UNCHANGED <<load_err, next_first_frame, bytes_in_buffer, broken>>
      /\ UNCHANGED <<process, requested_exit, in_pause_state>>
  BY DEF CallbackEnter, CallbackReturn, At, heapVars, lockVars, streamVars,
         rcdVars, tableVars, flagVars
<1>3. Quiet
  BY <1>1, <1>2, MoveQuiet, ThreadFacts
     DEF Calm, Label, BusyLabels, LoadLabels, FreeLabels
<1>4. ThreadTypes'
  BY <1>1, <1>2, Facts DEF ThreadTypes, Label
<1>5. FlagTypes'
  BY <1>2 DEF IInv, TypeOK, FlagTypes
<1>6. Labels'
  BY <1>1, ThreadFacts, Facts DEF Labels, ThreadTypes, FreeLabels
<1>7. TableLock'
  BY <1>1, <1>2, ThreadFacts, Facts DEF TableLock, ThreadTypes, FreeLabels
<1>8. Shutdown'
  BY <1>1, <1>2, ThreadFacts, Facts DEF Shutdown, ThreadTypes
<1>9. Sweep'
  BY <1>1, <1>2, ThreadFacts, Facts DEF Sweep, ThreadTypes
<1> QED
  BY <1>3, <1>4, <1>5, <1>6, <1>7, <1>8, <1>9, QuietKeeps

\* The engine starts and stops the stream.
LEMMA EngineKeeps ==
  ASSUME IInv, RunAudioEngine
  PROVE  IInv'
<1>1. /\ pc[Engine] \in {"eInit", "eRun", "eStop"}
      /\ \/ /\ pc[Engine] = "eInit" /\ pc[Callback] = "cbOff"
            /\ pc' = [pc EXCEPT ![Engine] = "eRun", ![Callback] = "cbIdle"]
         \/ pc[Engine] = "eInit" /\ pc' = [pc EXCEPT ![Engine] = "eDone"]
         \/ pc[Engine] = "eRun" /\ pc' = [pc EXCEPT ![Engine] = "eStop"]
         \/ /\ pc[Engine] = "eStop" /\ pc[Callback] \in {"cbIdle", "cbComplete"}
            /\ pc' = [pc EXCEPT ![Engine] = "eDone", ![Callback] = "cbOff"]
  BY Facts DEF RunAudioEngine, EngineStart, EngineInitFails, EngineSeesExit, EngineStop,
       At, Goto, Shutdown
<1>2. /\ UNCHANGED <<mem, source, writer, readers, target, routine, audio_tracks, rcd_owner, cursor>>
      /\ UNCHANGED <<load_err, next_first_frame, bytes_in_buffer, broken>>
      /\ UNCHANGED <<process, requested_exit, in_pause_state>>
  BY DEF RunAudioEngine, EngineStart, EngineInitFails, EngineSeesExit, EngineStop,
       heapVars, lockVars, streamVars, rcdVars, tableVars, flagVars
<1>3. \A t \in Thread :
        \/ pc'[t] = pc[t]
        \/ /\ pc[t] \in {"eInit", "eRun", "eStop", "cbIdle", "cbComplete", "cbOff"}
           /\ pc'[t] \in {"eRun", "eStop", "eDone", "cbIdle", "cbOff"}
  BY <1>1, ThreadFacts, Facts DEF ThreadTypes
<1>4. Quiet
  BY <1>2, <1>3 DEF Quiet, Calm, Label, BusyLabels, LoadLabels, FreeLabels
<1>5. ThreadTypes'
  BY <1>1, <1>2, Facts DEF ThreadTypes, Label
<1>6. FlagTypes'
  BY <1>2 DEF IInv, TypeOK, FlagTypes
<1>7. Labels'
  BY <1>1, ThreadFacts, Facts DEF Labels, ThreadTypes
<1>8. TableLock'
  BY <1>1, <1>2, ThreadFacts, Facts DEF TableLock, ThreadTypes, FreeLabels
<1>9. Shutdown'
  BY <1>1, <1>2, ThreadFacts, Facts DEF Shutdown, ThreadTypes
<1>10. Sweep'
  BY <1>1, <1>2, ThreadFacts, Facts DEF Sweep, ThreadTypes
<1> QED
  BY <1>4, <1>5, <1>6, <1>7, <1>8, <1>9, <1>10, QuietKeeps

\* The user pauses or quits.
LEMMA UserFlagsKeep ==
  ASSUME IInv, TogglePause \/ Quit
  PROVE  IInv'
<1>1. /\ pc[User] = "uIdle"
      /\ \/ UNCHANGED <<pc, requested_exit>>
         \/ pc' = [pc EXCEPT ![User] = "uDone"] /\ requested_exit' = TRUE
  BY DEF TogglePause, Quit, At, Goto, bufferVars, callVars
<1>2. /\ UNCHANGED <<mem, source, writer, readers, target, routine, audio_tracks, rcd_owner, cursor>>
      /\ UNCHANGED <<load_err, next_first_frame, bytes_in_buffer, broken, process>>
  BY DEF TogglePause, Quit, bufferVars, callVars, heapVars, lockVars, streamVars, tableVars
<1>3. Quiet
  <2>1. CASE pc' = pc
    BY <1>2, <2>1 DEF Quiet
  <2>2. CASE pc' = [pc EXCEPT ![User] = "uDone"]
    BY <1>1, <1>2, <2>2, MoveQuiet, ThreadFacts
       DEF Calm, Label, BusyLabels, LoadLabels, FreeLabels
  <2> QED
    BY <1>1, <2>1, <2>2
<1>4. ThreadTypes'
  BY <1>1, <1>2, Facts DEF ThreadTypes, Label
<1>5. FlagTypes'
  <2>1. FlagTypes
    BY DEF IInv, TypeOK
  <2>2. CASE TogglePause
    BY <2>1, <2>2, <1>2 DEF TogglePause, FlagTypes
  <2>3. CASE Quit
    BY <2>1, <2>3, <1>2 DEF Quit, FlagTypes
  <2> QED
    BY <2>2, <2>3
<1>6. Labels'
  BY <1>1, ThreadFacts, Facts DEF Labels, ThreadTypes
<1>7. TableLock'
  BY <1>1, <1>2, ThreadFacts, Facts DEF TableLock, ThreadTypes
<1>8. Shutdown'
  BY <1>1, <1>2, ThreadFacts, Facts DEF Shutdown, ThreadTypes
<1>9. Sweep'
  BY <1>1, <1>2, ThreadFacts, Facts DEF Sweep, ThreadTypes
<1> QED
  BY <1>3, <1>4, <1>5, <1>6, <1>7, <1>8, <1>9, QuietKeeps

\* main passes its joins and returns.
LEMMA MainMovesKeep ==
  ASSUME IInv, MainJoin \/ MainReturn
  PROVE  IInv'
<1>1. /\ \/ /\ pc[Main] = "mJoin" /\ MainJoined
            /\ pc' = [pc EXCEPT ![Main] = "mLock"] /\ process' = process
         \/ pc[Main] = "mDone" /\ pc' = pc /\ process' = "exited"
      /\ UNCHANGED <<mem, source, writer, readers, target, routine, audio_tracks, rcd_owner, cursor>>
      /\ UNCHANGED <<load_err, next_first_frame, bytes_in_buffer, broken>>
      /\ UNCHANGED <<requested_exit, in_pause_state>>
      /\ process = "running"
  BY DEF MainJoin, MainReturn, At, Goto, callVars, heapVars, lockVars, streamVars,
       rcdVars, tableVars, flagVars
<1>2. Quiet
  <2>1. CASE pc' = pc
    BY <1>1, <2>1 DEF Quiet
  <2>2. CASE pc[Main] = "mJoin" /\ pc' = [pc EXCEPT ![Main] = "mLock"]
    BY <1>1, <2>2, MoveQuiet, ThreadFacts
       DEF Calm, Label, BusyLabels, LoadLabels, FreeLabels
  <2> QED
    BY <1>1, <2>1, <2>2
<1>3. ThreadTypes'
  BY <1>1, Facts DEF ThreadTypes, Label
<1>4. FlagTypes'
  BY <1>1 DEF IInv, TypeOK, FlagTypes
<1>5. Labels'
  BY <1>1, ThreadFacts, Facts DEF Labels, ThreadTypes, FreeLabels
<1>6. TableLock'
  BY <1>1, ThreadFacts, Facts DEF TableLock, ThreadTypes, FreeLabels
<1>7. Shutdown'
  BY <1>1, ThreadFacts, Facts DEF Shutdown, ThreadTypes, MainJoined
<1>8. Sweep'
  BY <1>1, ThreadFacts, Facts DEF Sweep, ThreadTypes, FreeLabels
<1> QED
  BY <1>2, <1>3, <1>4, <1>5, <1>6, <1>7, <1>8, QuietKeeps

\* The user thread looks at the result of the load, or finds no empty track.
LEMMA UserDecisionsKeep ==
  ASSUME IInv, QueueCheck \/ QueueTracksAllFull
  PROVE  IInv'
<1>1. \E label \in {"frAcquire", "uPublish"} : pc' = [pc EXCEPT ![User] = label]
  BY DEF QueueCheck, QueueTracksAllFull, Goto
<1>2. /\ pc[User] \in {"uCheck", "uPublish"}
      /\ UNCHANGED <<mem, source, writer, readers, target, routine, audio_tracks, rcd_owner, cursor>>
      /\ UNCHANGED <<load_err, next_first_frame, bytes_in_buffer, broken>>
      /\ UNCHANGED <<process, requested_exit, in_pause_state>>
  BY DEF QueueCheck, QueueTracksAllFull, At, heapVars, lockVars, streamVars,
       rcdVars, tableVars, flagVars
<1>3. Quiet
  BY <1>1, <1>2, MoveQuiet, ThreadFacts
     DEF Calm, Label, BusyLabels, LoadLabels, FreeLabels
<1>4. ThreadTypes'
  BY <1>1, <1>2, Facts DEF ThreadTypes, Label
<1>5. FlagTypes'
  BY <1>2 DEF IInv, TypeOK, FlagTypes
<1>6. Labels'
  BY <1>1, ThreadFacts, Facts DEF Labels, ThreadTypes, FreeLabels
<1>7. TableLock'
  BY <1>1, <1>2, ThreadFacts, Facts DEF TableLock, ThreadTypes
<1>8. Shutdown'
  BY <1>1, <1>2, ThreadFacts, Facts DEF Shutdown, ThreadTypes
<1>9. Sweep'
  BY <1>1, <1>2, ThreadFacts, Facts DEF Sweep, ThreadTypes
<1> QED
  BY <1>3, <1>4, <1>5, <1>6, <1>7, <1>8, <1>9, QuietKeeps

-----------------------------------------------------------------------------
(* The user thread's buffer                                                *)

\* A new buffer is the user thread's own.
LEMMA QueueNewKeeps ==
  ASSUME IInv, NEW b \in Buf, NEW f \in File, QueueNew(b, f)
  PROVE  IInv'
<1>1. /\ pc[User] = "uIdle" /\ pc' = [pc EXCEPT ![User] = "ldStart"]
      /\ mem[b] = "free" /\ mem' = [mem EXCEPT ![b] = "live"]
      /\ source' = [source EXCEPT ![b] = f]
      /\ writer' = [writer EXCEPT ![b] = Nobody]
      /\ readers' = [readers EXCEPT ![b] = {}]
      /\ target' = [target EXCEPT ![User] = b]
      /\ UNCHANGED <<routine, process, audio_tracks, rcd_owner, cursor>>
      /\ UNCHANGED <<requested_exit, in_pause_state>>
  BY DEF QueueNew, AudioBuffer_new, At, Goto, rcdVars, tableVars, flagVars
<1>2. /\ load_err' = [load_err EXCEPT ![b] = "OK"]
      /\ next_first_frame' = [next_first_frame EXCEPT ![b] = 0]
      /\ bytes_in_buffer' = [bytes_in_buffer EXCEPT ![b] = 0]
      /\ broken' = [broken EXCEPT ![b] = FALSE]
  BY DEF QueueNew, AudioBuffer_new
<1>3. /\ pc'[User] = "ldStart" /\ target'[User] = b
      /\ \A t \in Thread : t # User => pc'[t] = pc[t] /\ target'[t] = target[t]
  BY <1>1, ThreadFacts, Facts DEF ThreadTypes
<1>4. /\ mem'[b] = "live" /\ writer'[b] = Nobody /\ readers'[b] = {}
      /\ \A c \in Buf : c # b => /\ mem'[c] = mem[c] /\ writer'[c] = writer[c]
                                 /\ readers'[c] = readers[c]
  BY <1>1, Facts DEF BufferTypes
<1>5. b # NULL /\ \A i \in Track : audio_tracks[i] # b
  BY <1>1, NullFacts, Facts DEF TracksAllocated
<1>6. \A t \in Thread : pc[t] \in {"loading", "decoded", "frHeld", "frGone", "cbMix"} =>
        target[t] \in Buf
  BY NullFacts, Facts DEF Targets, ThreadTypes, BusyLabels, LoadLabels, FreeLabels
<1>7. TypeOK'
  <2>1. BufferTypes'
    BY <1>1, ThreadFacts, Facts DEF BufferTypes
  <2>2. ThreadTypes'
    BY <1>1, Facts DEF ThreadTypes, Label
  <2>3. TableTypes'
    BY <1>1, Facts DEF TableTypes
  <2>4. StreamTypes'
    BY <1>2, SourceAssumption DEF IInv, TypeOK, StreamTypes, LoadError
  <2>5. FlagTypes'
    BY <1>1, <1>2 DEF IInv, TypeOK, FlagTypes
  <2> QED
    BY <2>1, <2>2, <2>3, <2>4, <2>5 DEF TypeOK
<1>8. Labels'
  BY <1>3, ThreadFacts, Facts DEF Labels, LoadLabels
<1>9. Targets'
  BY <1>3, <1>5, Facts DEF Targets, BusyLabels, LoadLabels
<1>10. TableLock'
  BY <1>1, <1>3, ThreadFacts, Facts DEF TableLock
<1>11. InsideLocked'
  BY <1>1, <1>3, <1>4, <1>6, Facts DEF InsideLocked, InsideLabels
<1>12. MixLocked'
  <2>1. ~Mixing(b)
    BY <1>1, InHandLive, ThreadFacts DEF Mixing
  <2>2. \A c \in Buf : Mixing(c)' <=> Mixing(c)
    BY <1>3, ThreadFacts DEF Mixing
  <2> QED
    BY <1>4, <2>1, <2>2, Facts DEF MixLocked
<1>13. GoneGutted'
  BY <1>1, <1>3, <1>4, <1>6, Facts DEF GoneGutted
<1>14. OneTrack' /\ LoopOwner'
  BY <1>1, <1>3, ThreadFacts, Facts DEF OneTrack, LoopOwner
<1>15. TracksAllocated'
  <2>1. rcd_owner # Nobody => rcd_owner \in Thread /\ rcd_owner # User
    BY ThreadFacts, Facts DEF TableTypes
  <2> QED
    BY <1>1, <1>3, <1>4, <1>5, <2>1, Facts DEF TracksAllocated, TableTypes
<1>16. UserOwner'
  BY <1>1, <1>3, <1>4, <1>5 DEF UserOwner
<1>17. Owned'
  <2>1. target[User] = NULL
    BY <1>1, ThreadFacts, Facts DEF Targets, BusyLabels, LoadLabels, FreeLabels
  <2> QED
    BY <1>1, <1>3, <1>4, <2>1, NullFacts, Facts DEF Owned
<1>18. Shutdown'
  BY <1>1, <1>3, ThreadFacts, Facts DEF Shutdown
<1>19. Sweep'
  BY <1>1, <1>3, ThreadFacts, Facts DEF Sweep
<1> QED
  BY <1>7, <1>8, <1>9, <1>10, <1>11, <1>12, <1>13, <1>14, <1>15, <1>16, <1>17, <1>18, <1>19
     DEF IInv, Ownership

\* The user thread hands its buffer over to a track.
LEMMA QueuePublishKeeps ==
  ASSUME IInv, QueuePublish
  PROVE  IInv'
<1> DEFINE b == target[User]
<1>1. PICK i \in Track : FirstEmpty(i) /\ audio_tracks' = [audio_tracks EXCEPT ![i] = b]
  BY DEF QueuePublish
<1>2. /\ pc[User] = "uPublish" /\ pc' = [pc EXCEPT ![User] = "uIdle"]
      /\ target' = [target EXCEPT ![User] = NULL]
      /\ rcd_owner = Nobody
      /\ UNCHANGED <<mem, source, writer, readers, routine, process, rcd_owner, cursor>>
      /\ UNCHANGED <<load_err, next_first_frame, bytes_in_buffer, broken>>
      /\ UNCHANGED <<requested_exit, in_pause_state>>
  BY DEF QueuePublish, RcdFree, At, Goto, heapVars, lockVars, streamVars, flagVars
<1>3. /\ pc'[User] = "uIdle" /\ target'[User] = NULL
      /\ \A t \in Thread : t # User => pc'[t] = pc[t] /\ target'[t] = target[t]
  BY <1>2, ThreadFacts, Facts DEF ThreadTypes
<1>4. b \in Buf /\ b # NULL
  BY <1>2, NullFacts, ThreadFacts, Facts DEF ThreadTypes, Targets, BusyLabels
<1>5. mem[b] = "live" /\ \A j \in Track : audio_tracks[j] # b
  BY <1>2, <1>4, Facts DEF UserOwner
<1>6. /\ audio_tracks[i] = NULL /\ audio_tracks'[i] = b
      /\ \A j \in Track : j # i => audio_tracks'[j] = audio_tracks[j]
  BY <1>1, Facts DEF FirstEmpty, Empty, TableTypes
<1>7. target[Callback] = NULL /\ target[Main] = NULL
  BY <1>2, ThreadFacts, Facts DEF TableLock, Targets, Labels, BusyLabels, FreeLabels, LoadLabels
<1>8. TypeOK'
  <2>1. BufferTypes'
    BY <1>2, Facts DEF BufferTypes
  <2>2. ThreadTypes'
    BY <1>2, Facts DEF ThreadTypes, Label
  <2>3. TableTypes'
    BY <1>1, <1>2, <1>4, Facts DEF TableTypes
  <2>4. StreamTypes'
    BY <1>2 DEF IInv, TypeOK, StreamTypes
  <2>5. FlagTypes'
    BY <1>2 DEF IInv, TypeOK, FlagTypes
  <2> QED
    BY <2>1, <2>2, <2>3, <2>4, <2>5 DEF TypeOK
<1>9. Labels'
  BY <1>3, ThreadFacts, Facts DEF Labels
<1>10. Targets'
  BY <1>3, Facts DEF Targets, BusyLabels, LoadLabels, FreeLabels
<1>11. TableLock'
  BY <1>2, <1>3, ThreadFacts, Facts DEF TableLock
<1>12. InsideLocked' /\ GoneGutted'
  BY <1>2, <1>3, Facts DEF InsideLocked, GoneGutted, InsideLabels
<1>13. MixLocked'
  BY <1>2, <1>3, ThreadFacts, Facts DEF MixLocked, Mixing
<1>14. OneTrack'
  BY <1>5, <1>6, Facts DEF OneTrack
<1>15. TracksAllocated'
  BY <1>2, <1>5, <1>6, Facts DEF TracksAllocated
<1>16. LoopOwner'
  BY <1>3, <1>7, ThreadFacts DEF LoopOwner
<1>17. UserOwner'
  BY <1>3 DEF UserOwner
<1>18. Owned'
  BY <1>2, <1>3, <1>6, NullFacts, Facts DEF Owned
<1>19. Shutdown'
  BY <1>2, <1>3, ThreadFacts, Facts DEF Shutdown
<1>20. Sweep'
  BY <1>2, <1>3, ThreadFacts, Facts DEF Sweep, Shutdown, FreeLabels
<1> QED
  BY <1>8, <1>9, <1>10, <1>11, <1>12, <1>13, <1>14, <1>15, <1>16, <1>17, <1>18, <1>19, <1>20
     DEF IInv, Ownership

-----------------------------------------------------------------------------
(* Freeing the memory of a buffer that has been torn down                  *)

\* The variables of a buffer's memory after FreeMemory.
FreedEffect(t) == LET b == target[t] IN
    /\ mem' = [mem EXCEPT ![b] = "free"]
    /\ source' = [source EXCEPT ![b] = NULL]
    /\ writer' = [writer EXCEPT ![b] = Nobody]
    /\ readers' = [readers EXCEPT ![b] = {}]
    /\ target' = [target EXCEPT ![t] = NULL]

\* What is freed is neither locked nor mixed by another thread, and no other
\* thread but loaders still at the door has it in hand.
LEMMA FreedAlone ==
  ASSUME IInv, NEW t \in {User, Callback, Main}, pc[t] = "frGone", FreedEffect(t),
         NEW label, pc' = [pc EXCEPT ![t] = label],
         label \in Label \ BusyLabels
  PROVE  /\ t \in Thread /\ target[t] \in Buf
         /\ pc'[t] = label /\ target'[t] = NULL
         /\ \A u \in Thread : u # t => pc'[u] = pc[u] /\ target'[u] = target[u]
         /\ BufferTypes' /\ Targets'
         /\ InsideLocked' /\ MixLocked' /\ GoneGutted'
<1> DEFINE b == target[t]
<1>1. t \in Thread
  BY ThreadFacts
<1>2. b \in Buf
  BY <1>1, NullFacts, Facts DEF ThreadTypes, Targets, BusyLabels, FreeLabels
<1>3. /\ pc'[t] = label /\ target'[t] = NULL
      /\ \A u \in Thread : u # t => pc'[u] = pc[u] /\ target'[u] = target[u]
  BY <1>1, Facts DEF ThreadTypes, FreedEffect
<1>4. /\ mem'[b] = "free" /\ writer'[b] = Nobody /\ readers'[b] = {}
      /\ \A c \in Buf : c # b => /\ mem'[c] = mem[c] /\ writer'[c] = writer[c]
                                 /\ readers'[c] = readers[c]
  BY <1>2, Facts DEF BufferTypes, FreedEffect
<1>5. \A u \in Thread : pc[u] \in {"loading", "decoded", "frHeld", "frGone", "cbMix"} =>
        target[u] \in Buf
  BY NullFacts, Facts DEF Targets, ThreadTypes, BusyLabels, LoadLabels, FreeLabels
<1>6. BufferTypes'
  BY <1>2, ThreadFacts, Facts DEF FreedEffect, BufferTypes
<1>7. Targets'
  BY <1>3, Facts DEF Targets
<1>8. mem[b] = "gutted" \/ (mem[b] = "live" /\ writer[b] = t)
  BY <1>1, Facts DEF GoneGutted
<1>9. InsideLocked'
  <2> SUFFICES ASSUME NEW u \in Thread, pc'[u] \in InsideLabels
               PROVE  writer'[target'[u]] = u /\ mem'[target'[u]] = "live"
    BY DEF InsideLocked
  <2>1. u # t
    BY <1>3 DEF BusyLabels, LoadLabels, FreeLabels, InsideLabels
  <2>2. /\ pc[u] \in InsideLabels /\ target'[u] = target[u]
        /\ writer[target[u]] = u /\ mem[target[u]] = "live"
    BY <1>3, <2>1, Facts DEF InsideLocked
  <2>3. target[u] # b
    BY <1>8, <2>1, <2>2
  <2> QED
    BY <1>4, <1>5, <2>2, <2>3 DEF InsideLabels
<1>10. \A u \in {User, Callback, Main} : u # t /\ pc[u] \in FreeLabels \cup {"cbMix"} => target[u] # b
  <2> SUFFICES ASSUME NEW u \in {User, Callback, Main}, u # t,
                      pc[u] \in FreeLabels \cup {"cbMix"}, target[u] = b
               PROVE  FALSE
    OBVIOUS
  <2>1. u \in Thread /\ b # NULL
    BY <1>2, NullFacts, ThreadFacts
  <2>2. CASE User \in {t, u}
    <3>1. PICK v \in {t, u} : v \in {Callback, Main} /\ target[v] = b
      BY <2>2
    <3>2. cursor \in Track /\ audio_tracks[cursor] = b
      BY <2>1, <3>1, TrackAssumption, Facts DEF LoopOwner, TableTypes, Track
    <3> QED
      BY <2>1, <2>2, <3>2, Facts DEF UserOwner
  <2>3. CASE User \notin {t, u}
    <3>1. \A v \in {t, u} : rcd_owner = v
      <4> SUFFICES ASSUME NEW v \in {t, u} PROVE rcd_owner = v
        OBVIOUS
      <4>1. v \in {Callback, Main} /\ pc[v] \in FreeLabels \cup {"cbMix"}
        BY <2>3 DEF FreeLabels
      <4>2. CASE v = Callback
        BY <4>1, <4>2, Facts DEF TableLock
      <4>3. CASE v = Main
        <5>1. pc[v] # "cbMix"
          BY <4>3, Facts DEF Labels, FreeLabels
        <5> QED
          BY <4>1, <4>3, <5>1, Facts DEF TableLock
      <4> QED
        BY <4>1, <4>2, <4>3
    <3> QED
      BY <3>1
  <2> QED
    BY <2>2, <2>3
<1>11. MixLocked'
  <2>1. ~Mixing(b)
    <3>1. CASE t = Callback
      BY <3>1 DEF Mixing
    <3>2. CASE t # Callback
      <4>1. pc[Callback] = "cbMix" => target[Callback] # b
        BY <1>10, <3>2
      <4> QED
        BY <4>1 DEF Mixing
    <3> QED
      BY <3>1, <3>2
  <2>2. label # "cbMix"
    BY DEF BusyLabels
  <2>3. \A c \in Buf : Mixing(c)' <=> Mixing(c) /\ c # b
    <3>1. CASE t = Callback
      <4>1. pc[Callback] # "cbMix" /\ pc'[Callback] # "cbMix"
        BY <1>3, <2>2, <3>1
      <4> QED
        BY <4>1 DEF Mixing
    <3>2. CASE t # Callback
      BY <1>3, <2>1, <3>2, ThreadFacts DEF Mixing
    <3> QED
      BY <3>1, <3>2
  <2> QED
    BY <1>4, <2>3, Facts DEF MixLocked
<1>12. GoneGutted'
  <2> SUFFICES ASSUME NEW u \in Thread, pc'[u] = "frGone"
               PROVE  \/ mem'[target'[u]] = "gutted"
                      \/ mem'[target'[u]] = "live" /\ writer'[target'[u]] = u
    BY DEF GoneGutted
  <2>1. u # t
    BY <1>3 DEF BusyLabels, FreeLabels
  <2>2. pc[u] = "frGone" /\ target'[u] = target[u]
    BY <1>3, <2>1
  <2>3. u \in {User, Callback, Main}
    BY <2>2, ThreadFacts, Facts DEF Labels, LoadLabels
  <2>4. target[u] # b
    BY <1>10, <2>1, <2>2, <2>3 DEF FreeLabels
  <2> QED
    BY <1>4, <1>5, <2>2, <2>4, Facts DEF GoneGutted
<1> QED
  BY <1>1, <1>2, <1>3, <1>6, <1>7, <1>9, <1>11, <1>12

\* Freeing a buffer's memory resets its stream's state to values of its type.
LEMMA FreeMemoryEffect ==
  ASSUME IInv, NEW t, FreeMemory(t), UNCHANGED <<requested_exit, in_pause_state>>
  PROVE  FreedEffect(t) /\ StreamTypes' /\ FlagTypes'
<1>1. /\ load_err' = [load_err EXCEPT ![target[t]] = "OK"]
      /\ next_first_frame' = [next_first_frame EXCEPT ![target[t]] = 0]
      /\ bytes_in_buffer' = [bytes_in_buffer EXCEPT ![target[t]] = 0]
      /\ broken' = [broken EXCEPT ![target[t]] = FALSE]
  BY DEF FreeMemory
<1>2. FreedEffect(t)
  BY DEF FreeMemory, FreedEffect
<1>3. StreamTypes'
  <2>1. "OK" \in LoadError /\ 0 \in Nat /\ 0 \in 0 .. Chunk
    BY SourceAssumption DEF LoadError
  <2>2. load_err' \in [Buf -> LoadError]
    BY <1>1, <2>1 DEF IInv, TypeOK, StreamTypes
  <2>3. next_first_frame' \in [Buf -> Nat]
    BY <1>1, <2>1 DEF IInv, TypeOK, StreamTypes
  <2>4. bytes_in_buffer' \in [Buf -> 0 .. Chunk]
    BY <1>1, <2>1 DEF IInv, TypeOK, StreamTypes
  <2> QED
    BY <2>2, <2>3, <2>4 DEF StreamTypes
<1>4. FlagTypes'
  BY <1>1 DEF IInv, TypeOK, FlagTypes
<1> QED
  BY <1>2, <1>3, <1>4

\* The user thread frees the buffer it could not queue.
LEMMA QueueDiscardKeeps ==
  ASSUME IInv, QueueDiscard
  PROVE  IInv'
<1> DEFINE b == target[User]
<1>1. /\ pc[User] = "frGone" /\ pc' = [pc EXCEPT ![User] = "uIdle"]
      /\ UNCHANGED <<routine, process, audio_tracks, rcd_owner, cursor>>
      /\ UNCHANGED <<requested_exit, in_pause_state>>
      /\ FreeMemory(User)
  BY DEF QueueDiscard, At, Goto, rcdVars, tableVars, flagVars
<1>2. FreedEffect(User) /\ StreamTypes' /\ FlagTypes'
  BY <1>1, FreeMemoryEffect
<1>3. /\ User \in Thread /\ b \in Buf
      /\ pc'[User] = "uIdle" /\ target'[User] = NULL
      /\ \A u \in Thread : u # User => pc'[u] = pc[u] /\ target'[u] = target[u]
      /\ BufferTypes' /\ Targets'
      /\ InsideLocked' /\ MixLocked' /\ GoneGutted'
  BY <1>1, <1>2, FreedAlone DEF Label, BusyLabels, LoadLabels, FreeLabels
<1>4. /\ mem'[b] = "free"
      /\ \A c \in Buf : c # b => mem'[c] = mem[c]
  BY <1>2, <1>3, Facts DEF BufferTypes, FreedEffect
<1>5. \A i \in Track : audio_tracks[i] # b
  BY <1>3, NullFacts, Facts DEF UserOwner
<1>6. ThreadTypes' /\ TableTypes'
  <2>1. TableTypes'
    BY <1>1, Facts DEF TableTypes
  <2>2. ThreadTypes'
    BY <1>1, <1>2, <1>3, Facts DEF ThreadTypes, FreedEffect, Label
  <2> QED
    BY <2>1, <2>2
<1>7. Labels'
  BY <1>3, ThreadFacts, Facts DEF Labels
<1>8. TableLock'
  BY <1>1, <1>3, ThreadFacts, Facts DEF TableLock
<1>9. OneTrack' /\ LoopOwner'
  BY <1>1, <1>3, ThreadFacts, Facts DEF OneTrack, LoopOwner
<1>10. TracksAllocated'
  <2>1. rcd_owner # Nobody => rcd_owner \in Thread /\ rcd_owner # User
    BY ThreadFacts, Facts DEF TableTypes
  <2> QED
    BY <1>1, <1>3, <1>4, <1>5, <2>1, Facts DEF TracksAllocated, TableTypes
<1>11. UserOwner'
  BY <1>3 DEF UserOwner
<1>12. Owned'
  BY <1>1, <1>3, <1>4, Facts DEF Owned
<1>13. Shutdown'
  BY <1>1, <1>3, ThreadFacts, Facts DEF Shutdown
<1>14. Sweep'
  BY <1>1, <1>3, ThreadFacts, Facts DEF Sweep
<1> QED
  BY <1>2, <1>3, <1>6, <1>7, <1>8, <1>9, <1>10, <1>11, <1>12, <1>13, <1>14
     DEF IInv, TypeOK, Ownership

\* The callback or main frees the track its loop is at.
LEMMA FreeTrackKeeps ==
  ASSUME IInv, NEW t \in {Callback, Main}, FreeTrack(t)
  PROVE  IInv'
<1> DEFINE b == target[t]
<1> DEFINE label == LoopLabel(t)
<1>1. /\ pc[t] = "frGone" /\ pc' = [pc EXCEPT ![t] = label]
      /\ audio_tracks' = [audio_tracks EXCEPT ![cursor] = NULL]
      /\ cursor' = cursor + 1
      /\ UNCHANGED <<routine, process, rcd_owner, requested_exit, in_pause_state>>
      /\ FreeMemory(t)
  BY DEF FreeTrack, At, Goto, flagVars
<1>2. FreedEffect(t) /\ StreamTypes' /\ FlagTypes'
  BY <1>1, FreeMemoryEffect
<1>3. label = (IF t = Callback THEN "cbScan" ELSE "mScan") /\ label \in Label \ BusyLabels
  BY DEF LoopLabel, Label, BusyLabels, LoadLabels, FreeLabels
<1> HIDE DEF label
<1>4. /\ t \in Thread /\ b \in Buf
      /\ pc'[t] = label /\ target'[t] = NULL
      /\ \A u \in Thread : u # t => pc'[u] = pc[u] /\ target'[u] = target[u]
      /\ BufferTypes' /\ Targets'
      /\ InsideLocked' /\ MixLocked' /\ GoneGutted'
  <2>1. t \in {User, Callback, Main} /\ pc[t] = "frGone" /\ FreedEffect(t)
    BY <1>1, <1>2
  <2> QED
    BY <1>1, <1>3, <2>1, FreedAlone
<1>5. /\ mem'[b] = "free"
      /\ \A c \in Buf : c # b => mem'[c] = mem[c]
  BY <1>2, <1>4, Facts DEF BufferTypes, FreedEffect
<1>6. cursor \in Track /\ cursor + 1 \in 0 .. N /\ audio_tracks[cursor] = b
  BY <1>4, NullFacts, TrackAssumption, Facts DEF LoopOwner, TableTypes, Track
<1>7. rcd_owner = t
  BY <1>1, ThreadFacts, Facts DEF TableLock, FreeLabels
<1>8. /\ audio_tracks'[cursor] = NULL
      /\ \A i \in Track : i # cursor => audio_tracks'[i] = audio_tracks[i]
  BY <1>1, <1>6, Facts DEF TableTypes
<1>9. \A i \in Track : i # cursor => audio_tracks[i] # b
  BY <1>4, <1>6, NullFacts, Facts DEF OneTrack
<1>10. \A u \in {Callback, Main} : u # t => target[u] = NULL
  BY <1>7, ThreadFacts, Facts DEF TableLock, Targets, Labels, BusyLabels, FreeLabels, LoadLabels
<1>11. ThreadTypes' /\ TableTypes'
  <2>1. TableTypes'
    BY <1>1, <1>6, Facts DEF TableTypes
  <2>2. ThreadTypes'
    BY <1>1, <1>2, <1>3, <1>4, Facts DEF ThreadTypes, FreedEffect
  <2> QED
    BY <2>1, <2>2
<1>12. Labels'
  BY <1>3, <1>4, ThreadFacts, Facts DEF Labels
<1>13. TableLock'
  BY <1>1, <1>3, <1>4, <1>7, ThreadFacts, Facts DEF TableLock, FreeLabels
<1>14. OneTrack'
  BY <1>8, Facts DEF OneTrack
<1>15. LoopOwner'
  BY <1>4, <1>10, ThreadFacts DEF LoopOwner
<1>16. TracksAllocated'
  BY <1>4, <1>5, <1>8, <1>9, Facts DEF TracksAllocated, TableTypes
<1>17. target'[User] = target[User] /\ target[User] # b /\ pc'[User] = pc[User]
  BY <1>4, <1>6, ThreadFacts, NullFacts, Facts DEF UserOwner
<1>18. UserOwner'
  <2>1. target[User] \in Buf \cup {NULL}
    BY ThreadFacts, Facts DEF ThreadTypes
  <2> QED
    BY <1>5, <1>8, <1>17, <2>1, Facts DEF UserOwner
<1>19. Owned'
  BY <1>5, <1>6, <1>8, <1>17, Facts DEF Owned
<1>20. Shutdown'
  BY <1>1, <1>4, ThreadFacts, Facts DEF Shutdown
<1>21. Sweep'
  <2>1. CASE t = Callback
    <3>1. pc[Main] = "mJoin" /\ pc'[Main] = "mJoin"
      BY <1>1, <1>4, <2>1, ThreadFacts, Facts DEF Shutdown
    <3> QED
      BY <1>1, <3>1, Facts DEF Sweep, FreeLabels
  <2>2. CASE t = Main
    <3>1. pc'[Main] = "mScan" /\ pc[Main] \in FreeLabels /\ pc[Main] # "mDone"
      BY <1>1, <1>3, <1>4, <2>2, ThreadFacts DEF FreeLabels
    <3>2. \A i \in Track : i < cursor' => audio_tracks'[i] = NULL
      BY <1>1, <1>6, <1>8, <3>1, Facts DEF Sweep, Track
    <3> QED
      BY <1>1, <3>1, <3>2, Facts DEF Sweep
  <2> QED
    BY <2>1, <2>2
<1> QED
  BY <1>2, <1>4, <1>11, <1>12, <1>13, <1>14, <1>15, <1>16, <1>18, <1>19, <1>20, <1>21
     DEF IInv, TypeOK, Ownership

-----------------------------------------------------------------------------
(* The loops over the tracks                                               *)

\* A loop that holds the table lock, or takes it, and has no buffer in hand:
\* every track is in place, and the other loop has no buffer in hand either.
LEMMA LoopAlone ==
  ASSUME IInv, NEW t \in {Callback, Main}, rcd_owner \in {Nobody, t}, pc[t] \notin BusyLabels
  PROVE  /\ \A u \in {Callback, Main} : target[u] = NULL
         /\ \A i \in Track : audio_tracks[i] # NULL => mem[audio_tracks[i]] = "live"
<1>1. t \in Thread /\ target[t] = NULL /\ pc[t] # "frGone"
  BY ThreadFacts, Facts DEF Targets, BusyLabels, FreeLabels
<1>2. \A i \in Track : audio_tracks[i] # NULL => mem[audio_tracks[i]] = "live"
  BY <1>1, Facts DEF TracksAllocated
<1>3. \A u \in {Callback, Main} : u # t => target[u] = NULL
  BY ThreadFacts, Facts DEF TableLock, Targets, Labels, BusyLabels, FreeLabels, LoadLabels
<1> QED
  BY <1>1, <1>2, <1>3

\* A step of a loop that takes no buffer in hand: locking and unlocking the
\* table, and passing over a track.
LEMMA LoopMovesKeep ==
  ASSUME IInv, NEW t \in {Callback, Main}, NEW label \in Calm \ BusyLabels,
         rcd_owner \in {Nobody, t}, pc[t] \in Calm \ BusyLabels,
         pc' = [pc EXCEPT ![t] = label],
         UNCHANGED <<mem, source, writer, readers, target, routine, audio_tracks, process>>,
         UNCHANGED <<load_err, next_first_frame, bytes_in_buffer, broken>>,
         TableTypes', FlagTypes', Labels', TableLock', Shutdown', Sweep'
  PROVE  IInv'
<1>1. /\ t \in Thread /\ pc'[t] = label
      /\ \A u \in Thread : u # t => pc'[u] = pc[u]
  BY ThreadFacts, Facts DEF ThreadTypes
<1>2. /\ \A u \in {Callback, Main} : target[u] = NULL
      /\ \A i \in Track : audio_tracks[i] # NULL => mem[audio_tracks[i]] = "live"
  BY LoopAlone
<1>3. /\ pc[t] \notin {"loading", "decoded", "frHeld", "frGone", "cbMix"}
      /\ label \notin {"loading", "decoded", "frHeld", "frGone", "cbMix"}
  BY DEF Calm
<1>4. BufferTypes'
  BY Facts DEF BufferTypes
<1>5. ThreadTypes'
  BY Facts DEF ThreadTypes, Calm
<1>6. StreamTypes'
  BY DEF IInv, TypeOK, StreamTypes
<1>7. Targets'
  BY <1>1, Facts DEF Targets
<1>8. InsideLocked' /\ GoneGutted'
  BY <1>1, <1>3, Facts DEF InsideLocked, GoneGutted, InsideLabels
<1>9. MixLocked'
  <2>1. pc'[Callback] = "cbMix" <=> pc[Callback] = "cbMix"
    BY <1>1, <1>3, ThreadFacts
  <2> QED
    BY <2>1, Facts DEF MixLocked, Mixing
<1>10. OneTrack' /\ LoopOwner' /\ Owned'
  BY <1>2, Facts DEF OneTrack, LoopOwner, Owned
<1>11. TracksAllocated'
  BY <1>2 DEF TracksAllocated
<1>12. UserOwner'
  BY <1>1, ThreadFacts, Facts DEF UserOwner
<1> QED
  BY <1>4, <1>5, <1>6, <1>7, <1>8, <1>9, <1>10, <1>11, <1>12 DEF IInv, TypeOK, Ownership

\* Taking the table lock.
LEMMA TableLockKeeps ==
  ASSUME IInv, CallbackLock \/ RcdFreeLock
  PROVE  IInv'
<1> DEFINE t == IF CallbackLock THEN Callback ELSE Main
<1> DEFINE label == IF CallbackLock THEN "cbScan" ELSE "mScan"
<1>1. /\ t \in {Callback, Main} /\ label = (IF t = Callback THEN "cbScan" ELSE "mScan")
      /\ pc[t] = (IF t = Callback THEN "cbLock" ELSE "mLock")
      /\ pc' = [pc EXCEPT ![t] = label]
      /\ rcd_owner = Nobody /\ rcd_owner' = t /\ cursor' = 0
      /\ UNCHANGED <<mem, source, writer, readers, target, routine, audio_tracks, process>>
      /\ UNCHANGED <<load_err, next_first_frame, bytes_in_buffer, broken>>
      /\ UNCHANGED <<requested_exit, in_pause_state>>
  <2>1. CASE CallbackLock
    BY <2>1 DEF CallbackLock, RcdFree, RcdLock, At, Goto,
       heapVars, lockVars, streamVars, flagVars
  <2>2. CASE ~CallbackLock
    BY <2>2, ThreadFacts DEF RcdFreeLock, RcdFree, RcdLock, At, Goto,
       heapVars, lockVars, streamVars, flagVars
  <2> QED
    BY <2>1, <2>2
<1> HIDE DEF t, label
<1>2. /\ t \in Thread /\ pc'[t] = label
      /\ \A u \in Thread : u # t => pc'[u] = pc[u]
  BY <1>1, ThreadFacts, Facts DEF ThreadTypes
<1>3. label \in Calm \ BusyLabels /\ pc[t] \in Calm \ BusyLabels
  BY <1>1 DEF Calm, Label, BusyLabels, LoadLabels, FreeLabels
<1>4. TableTypes'
  BY <1>1, TrackAssumption, Facts DEF TableTypes
<1>5. FlagTypes'
  BY <1>1 DEF IInv, TypeOK, FlagTypes
<1>6. Labels'
  BY <1>1, <1>2, ThreadFacts, Facts DEF Labels
<1>7. TableLock'
  BY <1>1, <1>2, ThreadFacts, Facts DEF TableLock, FreeLabels
<1>8. Shutdown'
  BY <1>1, <1>2, ThreadFacts, Facts DEF Shutdown
<1>9. Sweep'
  <2>1. CASE t = Callback
    BY <1>1, <1>2, <2>1, ThreadFacts, Facts DEF Sweep, Shutdown, FreeLabels
  <2>2. CASE t = Main
    <3>1. pc'[Main] = "mScan" /\ pc[Main] # "mDone"
      BY <1>1, <1>2, <2>2, ThreadFacts
    <3>2. \A i \in Track : ~ i < cursor'
      BY <1>1 DEF Track
    <3> QED
      BY <1>1, <3>1, <3>2, Facts DEF Sweep
  <2> QED
    BY <1>1, <2>1, <2>2
<1> QED
  BY <1>1, <1>3, <1>4, <1>5, <1>6, <1>7, <1>8, <1>9, LoopMovesKeep

\* Passing over a track.
LEMMA SkipKeeps ==
  ASSUME IInv, NEW t \in {Callback, Main}, pc[t] = LoopLabel(t),
         cursor < N, cursor' = cursor + 1,
         t = Main => audio_tracks[cursor] = NULL,
         UNCHANGED <<mem, source, writer, readers, target, routine, audio_tracks, process>>,
         UNCHANGED <<load_err, next_first_frame, bytes_in_buffer, broken>>,
         UNCHANGED <<pc, rcd_owner, requested_exit, in_pause_state>>
  PROVE  IInv'
<1>1. rcd_owner = t
  BY ThreadFacts, Facts DEF TableLock, LoopLabel
<1>2. pc[t] \in Calm \ BusyLabels /\ pc' = [pc EXCEPT ![t] = pc[t]]
  BY Facts DEF LoopLabel, Calm, Label, BusyLabels, LoadLabels, FreeLabels, ThreadTypes
<1>3. TableTypes'
  BY TrackAssumption, Facts DEF TableTypes
<1>4. FlagTypes'
  BY DEF IInv, TypeOK, FlagTypes
<1>5. Labels' /\ TableLock' /\ Shutdown'
  BY Facts DEF Labels, TableLock, Shutdown
<1>6. Sweep'
  <2>1. CASE t = Callback
    <3>1. pc[Main] = "mJoin"
      BY <2>1, Facts DEF Shutdown, LoopLabel
    <3> QED
      BY <3>1, Facts DEF Sweep, FreeLabels
  <2>2. CASE t = Main
    <3>1. pc[Main] = "mScan"
      BY <2>2, ThreadFacts DEF LoopLabel
    <3>2. \A i \in Track : i < cursor' => audio_tracks[i] = NULL
      BY <2>2, <3>1, TrackAssumption, Facts DEF Sweep, Track, TableTypes
    <3> QED
      BY <3>1, <3>2, Facts DEF Sweep
  <2> QED
    BY <2>1, <2>2
<1> QED
  BY <1>1, <1>2, <1>3, <1>4, <1>5, <1>6, LoopMovesKeep

\* Leaving the loop and releasing the table lock.
LEMMA TableUnlockKeeps ==
  ASSUME IInv, CallbackUnlock \/ RcdFreeEnd
  PROVE  IInv'
<1> DEFINE t == IF CallbackUnlock THEN Callback ELSE Main
<1> DEFINE label == IF CallbackUnlock THEN "cbReturn" ELSE "mDone"
<1>1. /\ t \in {Callback, Main} /\ label = (IF t = Callback THEN "cbReturn" ELSE "mDone")
      /\ pc[t] = (IF t = Callback THEN "cbScan" ELSE "mScan")
      /\ pc' = [pc EXCEPT ![t] = label]
      /\ cursor = N /\ rcd_owner' = Nobody /\ cursor' = 0
      /\ UNCHANGED <<mem, source, writer, readers, target, routine, audio_tracks, process>>
      /\ UNCHANGED <<load_err, next_first_frame, bytes_in_buffer, broken>>
      /\ \/ UNCHANGED <<requested_exit, in_pause_state>>
         \/ requested_exit' = TRUE /\ in_pause_state' = TRUE
  <2>1. CASE CallbackUnlock
    BY <2>1 DEF CallbackUnlock, RcdUnlock, At, Goto, heapVars, lockVars, streamVars, flagVars
  <2>2. CASE ~CallbackUnlock
    BY <2>2, ThreadFacts DEF RcdFreeEnd, RcdUnlock, At, Goto, heapVars, lockVars, streamVars
  <2> QED
    BY <2>1, <2>2
<1> HIDE DEF t, label
<1>2. /\ t \in Thread /\ pc'[t] = label
      /\ \A u \in Thread : u # t => pc'[u] = pc[u]
  BY <1>1, ThreadFacts, Facts DEF ThreadTypes
<1>3. label \in Calm \ BusyLabels /\ pc[t] \in Calm \ BusyLabels
  BY <1>1 DEF Calm, Label, BusyLabels, LoadLabels, FreeLabels
<1>4. rcd_owner = t
  BY <1>1, ThreadFacts, Facts DEF TableLock
<1>5. TableTypes'
  BY <1>1, TrackAssumption, Facts DEF TableTypes
<1>6. FlagTypes'
  <2>1. CASE UNCHANGED <<requested_exit, in_pause_state>>
    BY <1>1, <2>1 DEF IInv, TypeOK, FlagTypes
  <2>2. CASE requested_exit' = TRUE /\ in_pause_state' = TRUE
    BY <1>1, <2>2 DEF IInv, TypeOK, FlagTypes
  <2> QED
    BY <1>1, <2>1, <2>2
<1>7. Labels'
  BY <1>1, <1>2, ThreadFacts, Facts DEF Labels
<1>8. TableLock'
  BY <1>1, <1>2, <1>4, ThreadFacts, Facts DEF TableLock, FreeLabels
<1>9. Shutdown'
  BY <1>1, <1>2, ThreadFacts, Facts DEF Shutdown
<1>10. Sweep'
  <2>1. CASE t = Callback
    BY <1>1, <1>2, <2>1, ThreadFacts, Facts DEF Sweep, Shutdown, FreeLabels
  <2>2. CASE t = Main
    <3>1. pc'[Main] = "mDone" /\ pc[Main] = "mScan"
      BY <1>1, <1>2, <2>2, ThreadFacts
    <3>2. \A i \in Track : audio_tracks[i] = NULL
      BY <1>1, <3>1, TrackAssumption, Facts DEF Sweep, Track
    <3> QED
      BY <1>1, <3>1, <3>2 DEF Sweep, FreeLabels
  <2> QED
    BY <1>1, <2>1, <2>2
<1> QED
  BY <1>1, <1>3, <1>4, <1>5, <1>6, <1>7, <1>8, <1>9, <1>10, LoopMovesKeep

\* main takes the buffer of a track in hand.
LEMMA PickKeeps ==
  ASSUME IInv, RcdFreeNext, audio_tracks[cursor] # NULL
  PROVE  IInv'
<1> DEFINE b == audio_tracks[cursor]
<1>1. /\ pc[Main] = "mScan" /\ pc' = [pc EXCEPT ![Main] = "frAcquire"]
      /\ cursor < N /\ target' = [target EXCEPT ![Main] = b]
      /\ UNCHANGED <<mem, source, writer, readers, routine, audio_tracks, process>>
      /\ UNCHANGED <<load_err, next_first_frame, bytes_in_buffer, broken>>
      /\ UNCHANGED <<rcd_owner, cursor, requested_exit, in_pause_state>>
  BY DEF RcdFreeNext, At, Goto, heapVars, lockVars, streamVars, flagVars
<1>2. /\ Main \in Thread /\ pc'[Main] = "frAcquire" /\ target'[Main] = b
      /\ \A u \in Thread : u # Main => pc'[u] = pc[u] /\ target'[u] = target[u]
  BY <1>1, ThreadFacts, Facts DEF ThreadTypes
<1>3. rcd_owner = Main
  BY <1>1, Facts DEF TableLock
<1>4. cursor \in Track /\ b \in Buf /\ b # NULL
  BY <1>1, TrackAssumption, Facts DEF TableTypes, Track
<1>5. /\ \A u \in {Callback, Main} : target[u] = NULL
      /\ \A i \in Track : audio_tracks[i] # NULL => mem[audio_tracks[i]] = "live"
  BY <1>1, <1>3, LoopAlone DEF BusyLabels, LoadLabels, FreeLabels
<1>6. BufferTypes' /\ TableTypes' /\ OneTrack'
  BY <1>1, Facts DEF BufferTypes, TableTypes, OneTrack
<1>7. ThreadTypes'
  BY <1>1, <1>4, Facts DEF ThreadTypes, Label
<1>8. StreamTypes'
  BY <1>1 DEF IInv, TypeOK, StreamTypes
<1>9. FlagTypes'
  BY <1>1 DEF IInv, TypeOK, FlagTypes
<1>10. Labels'
  BY <1>2, ThreadFacts, Facts DEF Labels, FreeLabels
<1>11. Targets'
  BY <1>2, <1>4, Facts DEF Targets, BusyLabels, FreeLabels
<1>12. TableLock'
  BY <1>1, <1>2, <1>3, ThreadFacts, Facts DEF TableLock, FreeLabels
<1>13. InsideLocked' /\ GoneGutted'
  BY <1>1, <1>2, Facts DEF InsideLocked, GoneGutted, InsideLabels
<1>14. MixLocked'
  BY <1>1, <1>2, ThreadFacts, Facts DEF MixLocked, Mixing
<1>15. TracksAllocated'
  BY <1>1, <1>5 DEF TracksAllocated
<1>16. LoopOwner'
  BY <1>1, <1>2, <1>5, ThreadFacts DEF LoopOwner
<1>17. UserOwner' /\ Owned'
  BY <1>1, <1>2, ThreadFacts, Facts DEF UserOwner, Owned
<1>18. Shutdown'
  BY <1>1, <1>2, ThreadFacts, Facts DEF Shutdown
<1>19. Sweep'
  BY <1>1, <1>2, Facts DEF Sweep
<1> QED
  BY <1>6, <1>7, <1>8, <1>9, <1>10, <1>11, <1>12, <1>13, <1>14, <1>15, <1>16, <1>17, <1>18, <1>19
     DEF IInv, TypeOK, Ownership

\* The callback starts to mix a track.
LEMMA MixKeeps ==
  ASSUME IInv, CallbackMix
  PROVE  IInv'
<1> DEFINE b == audio_tracks[cursor]
<1>1. /\ pc[Callback] = "cbScan" /\ pc' = [pc EXCEPT ![Callback] = "cbMix"]
      /\ cursor < N /\ target' = [target EXCEPT ![Callback] = b]
      /\ b # NULL /\ writer[b] = Nobody
      /\ readers' = [readers EXCEPT ![b] = @ \cup {Callback}]
      /\ UNCHANGED <<mem, source, writer, routine, audio_tracks, process>>
      /\ UNCHANGED <<load_err, next_first_frame, bytes_in_buffer, broken>>
      /\ UNCHANGED <<rcd_owner, cursor, requested_exit, in_pause_state>>
  BY DEF CallbackMix, CanRead, ReadLockFree, LockRead, At, Goto, heapVars, streamVars,
         rcdVars, tableVars, flagVars
<1>2. /\ Callback \in Thread /\ pc'[Callback] = "cbMix" /\ target'[Callback] = b
      /\ \A u \in Thread : u # Callback => pc'[u] = pc[u] /\ target'[u] = target[u]
  BY <1>1, ThreadFacts, Facts DEF ThreadTypes
<1>3. rcd_owner = Callback
  BY <1>1, Facts DEF TableLock
<1>4. cursor \in Track /\ b \in Buf
  BY <1>1, TrackAssumption, Facts DEF TableTypes, Track
<1>5. /\ \A u \in {Callback, Main} : target[u] = NULL
      /\ \A i \in Track : audio_tracks[i] # NULL => mem[audio_tracks[i]] = "live"
  BY <1>1, <1>3, LoopAlone DEF BusyLabels, LoadLabels, FreeLabels
<1>6. BufferTypes'
  BY <1>1, <1>2, <1>4, Facts DEF BufferTypes
<1>7. TableTypes' /\ OneTrack'
  BY <1>1, Facts DEF TableTypes, OneTrack
<1>8. ThreadTypes'
  BY <1>1, <1>4, Facts DEF ThreadTypes, Label
<1>9. StreamTypes'
  BY <1>1 DEF IInv, TypeOK, StreamTypes
<1>10. FlagTypes'
  BY <1>1 DEF IInv, TypeOK, FlagTypes
<1>11. Labels'
  BY <1>2, ThreadFacts, Facts DEF Labels
<1>12. Targets'
  BY <1>1, <1>2, Facts DEF Targets, BusyLabels
<1>13. TableLock'
  BY <1>1, <1>2, <1>3, ThreadFacts, Facts DEF TableLock
<1>14. InsideLocked' /\ GoneGutted'
  BY <1>1, <1>2, Facts DEF InsideLocked, GoneGutted, InsideLabels
<1>15. MixLocked'
  <2>1. \A c \in Buf : readers[c] = {}
    BY <1>1, Facts DEF MixLocked, Mixing
  <2>2. \A c \in Buf : readers'[c] = IF c = b THEN {Callback} ELSE {}
    BY <1>1, <1>4, <2>1, Facts DEF BufferTypes
  <2>3. \A c \in Buf : Mixing(c)' <=> c = b
    BY <1>2 DEF Mixing
  <2> QED
    BY <1>1, <2>2, <2>3 DEF MixLocked
<1>16. TracksAllocated'
  BY <1>1, <1>5 DEF TracksAllocated
<1>17. LoopOwner'
  BY <1>1, <1>2, <1>5, ThreadFacts DEF LoopOwner
<1>18. UserOwner' /\ Owned'
  BY <1>1, <1>2, ThreadFacts, Facts DEF UserOwner, Owned
<1>19. Shutdown'
  BY <1>1, <1>2, ThreadFacts, Facts DEF Shutdown
<1>20. Sweep'
  BY <1>1, <1>2, ThreadFacts, Facts DEF Sweep
<1> QED
  BY <1>6, <1>7, <1>8, <1>9, <1>10, <1>11, <1>12, <1>13, <1>14, <1>15, <1>16, <1>17, <1>18, <1>19, <1>20
     DEF IInv, TypeOK, Ownership

\* The callback stops mixing: it keeps the buffer to free it, or gives it up
\* for the next track and may start a loader on it.
MixEnds(label, l) == LET b == target[Callback] IN
    /\ pc[Callback] = "cbMix"
    /\ readers' = [readers EXCEPT ![b] = @ \ {Callback}]
    /\ \/ /\ label = "frAcquire"
          /\ pc' = [pc EXCEPT ![Callback] = label]
          /\ UNCHANGED <<target, routine, cursor>>
       \/ /\ label = "cbScan"
          /\ cursor' = cursor + 1
          /\ \/ /\ pc' = [pc EXCEPT ![Callback] = label]
                /\ target' = [target EXCEPT ![Callback] = NULL]
                /\ UNCHANGED routine
             \/ /\ l \in Loader /\ pc[l] = "idle"
                /\ pc' = [pc EXCEPT ![Callback] = label, ![l] = "ldStart"]
                /\ target' = [target EXCEPT ![Callback] = NULL, ![l] = b]
                /\ routine' = [routine EXCEPT ![l] = source[b].kind]
    /\ UNCHANGED <<mem, source, writer, audio_tracks, process, rcd_owner>>
    /\ UNCHANGED <<load_err, next_first_frame, bytes_in_buffer, broken>>
    /\ UNCHANGED <<requested_exit, in_pause_state>>

\* The three ways the callback ends the mixing of a track.
LEMMA MixHasEnd ==
  ASSUME IInv, \/ CallbackRetire \/ CallbackDispatchFails
               \/ \E l \in Loader : CallbackDispatch(l)
  PROVE  \E label \in {"frAcquire", "cbScan"}, l \in Loader \cup {Callback} : MixEnds(label, l)
<1>1. CASE CallbackRetire
  <2>1. MixEnds("frAcquire", Callback)
    BY <1>1 DEF CallbackRetire, MixEnds, UnlockRead, At, Goto, heapVars, streamVars,
       rcdVars, tableVars, flagVars
  <2> QED
    BY <2>1
<1>2. CASE CallbackDispatchFails
  <2>1. MixEnds("cbScan", Callback)
    BY <1>2 DEF CallbackDispatchFails, MixEnds, UnlockRead, At, Goto, heapVars, streamVars, flagVars
  <2> QED
    BY <2>1
<1>3. CASE \E l \in Loader : CallbackDispatch(l)
  <2>1. PICK l \in Loader : CallbackDispatch(l)
    BY <1>3
  <2>2. MixEnds("cbScan", l)
    BY <2>1 DEF CallbackDispatch, IdleLoader, MixEnds, UnlockRead, At, heapVars, streamVars, flagVars
  <2> QED
    BY <2>2
<1> QED
  BY <1>1, <1>2, <1>3

\* The end of mixing keeps the inductive invariant.
LEMMA MixEndsKeeps ==
  ASSUME IInv, NEW label \in {"frAcquire", "cbScan"}, NEW l \in Loader \cup {Callback},
         MixEnds(label, l)
  PROVE  IInv'
<1> DEFINE b == target[Callback]
<1>1. /\ pc[Callback] = "cbMix"
      /\ readers' = [readers EXCEPT ![b] = @ \ {Callback}]
      /\ UNCHANGED <<mem, source, writer, audio_tracks, process, rcd_owner>>
      /\ UNCHANGED <<load_err, next_first_frame, bytes_in_buffer, broken>>
      /\ UNCHANGED <<requested_exit, in_pause_state>>
  BY DEF MixEnds
<1>2. b \in Buf /\ mem[b] = "live" /\ b # NULL /\ Callback \in Thread
  BY <1>1, InHandLive, NullFacts
<1>3. /\ pc'[Callback] = label
      /\ \/ label = "frAcquire" /\ target'[Callback] = b /\ cursor' = cursor
         \/ label = "cbScan" /\ target'[Callback] = NULL /\ cursor' = cursor + 1
      /\ \A u \in Thread : u # Callback =>
           \/ pc'[u] = pc[u] /\ target'[u] = target[u]
           \/ /\ u \in Loader /\ pc[u] = "idle"
              /\ pc'[u] = "ldStart" /\ target'[u] = b
  BY <1>2, ThreadFacts, Facts DEF MixEnds, ThreadTypes
<1>4. rcd_owner = Callback
  BY <1>1, Facts DEF TableLock
<1>5. cursor \in Track /\ audio_tracks[cursor] = b /\ cursor + 1 \in 0 .. N
  BY <1>2, TrackAssumption, Facts DEF LoopOwner, TableTypes, Track
<1>6. target[Main] = NULL /\ pc[Main] = "mJoin"
  BY <1>1, ThreadFacts, Facts DEF Shutdown, Targets, BusyLabels, LoadLabels, FreeLabels
<1>7. /\ pc'[Main] = pc[Main] /\ target'[Main] = target[Main]
      /\ pc'[User] = pc[User] /\ target'[User] = target[User]
      /\ pc'[Engine] = pc[Engine]
  BY <1>3, ThreadFacts
<1>8. BufferTypes'
  BY <1>1, <1>2, Facts DEF BufferTypes
<1>9. TableTypes' /\ OneTrack'
  <2>1. cursor' \in 0 .. N
    BY <1>3, <1>5, Facts DEF TableTypes
  <2> QED
    BY <1>1, <2>1, Facts DEF TableTypes, OneTrack
<1>10. ThreadTypes'
  <2>1. source[b].kind \in Kind
    BY <1>2, SourceAssumption, Facts DEF BufferTypes
  <2>2. pc' \in [Thread -> Label]
    BY ThreadFacts, Facts DEF MixEnds, ThreadTypes, Label
  <2>3. target' \in [Thread -> Buf \cup {NULL}]
    BY <1>2, ThreadFacts, Facts DEF MixEnds, ThreadTypes
  <2>4. routine' \in [Loader -> Kind]
    BY <2>1, Facts DEF MixEnds, ThreadTypes
  <2> QED
    BY <1>1, <2>2, <2>3, <2>4, Facts DEF ThreadTypes
<1>11. StreamTypes'
  BY <1>1 DEF IInv, TypeOK, StreamTypes
<1>12. FlagTypes'
  BY <1>1 DEF IInv, TypeOK, FlagTypes
<1>13. Labels'
  BY <1>3, <1>7, ThreadFacts, Facts DEF Labels, LoadLabels, FreeLabels
<1>14. Targets'
  BY <1>2, <1>3, Facts DEF Targets, BusyLabels, LoadLabels, FreeLabels
<1>15. TableLock'
  BY <1>1, <1>3, <1>4, <1>7, ThreadFacts, Facts DEF TableLock, FreeLabels
<1>16. InsideLocked' /\ GoneGutted'
  <2>1. \A u \in Thread : pc'[u] \in {"loading", "decoded", "frHeld", "frGone"} =>
          pc'[u] = pc[u] /\ target'[u] = target[u]
    BY <1>3
  <2> QED
    BY <1>1, <2>1, Facts DEF InsideLocked, GoneGutted, InsideLabels
<1>17. MixLocked'
  <2>1. \A c \in Buf : Mixing(c) <=> c = b
    BY <1>1 DEF Mixing
  <2>2. \A c \in Buf : readers'[c] = {}
    BY <1>1, <1>2, <2>1, Facts DEF MixLocked, BufferTypes
  <2>3. \A c \in Buf : ~ Mixing(c)'
    BY <1>3 DEF Mixing
  <2> QED
    BY <2>2, <2>3 DEF MixLocked
<1>18. TracksAllocated'
  <2>1. \A i \in Track : audio_tracks[i] # NULL => mem[audio_tracks[i]] = "live"
    BY <1>1, <1>4, Facts DEF TracksAllocated
  <2> QED
    BY <1>1, <2>1 DEF TracksAllocated
<1>19. LoopOwner'
  <2>1. target'[Callback] # NULL => cursor' < N /\ audio_tracks'[cursor'] = target'[Callback]
    BY <1>1, <1>2, <1>3, <1>5, Facts DEF LoopOwner
  <2> QED
    BY <1>6, <1>7, <2>1 DEF LoopOwner
<1>20. UserOwner' /\ Owned'
  BY <1>1, <1>7, Facts DEF UserOwner, Owned
<1>21. Shutdown'
  <2>1. pc[Callback] # "cbOff" /\ pc[Engine] \notin {"eInit", "eDone"}
    BY <1>1, Facts DEF Shutdown
  <2> QED
    BY <1>1, <1>6, <1>7, <2>1, Facts DEF Shutdown
<1>22. Sweep'
  BY <1>1, <1>6, <1>7, Facts DEF Sweep, FreeLabels
<1> QED
  BY <1>8, <1>9, <1>10, <1>11, <1>12, <1>13, <1>14, <1>15, <1>16, <1>17, <1>18, <1>19, <1>20, <1>21, <1>22
     DEF IInv, TypeOK, Ownership

-----------------------------------------------------------------------------
(* The theorems                                                            *)

\* A step of a load, by a loader or by the user thread.
LEMMA LoadStepKeeps ==
  ASSUME IInv, NEW t \in Loader \cup {User}, Load(t), UNCHANGED rcdVars
  PROVE  IInv'
<1>1. StreamTypes' /\ broken' \in [Buf -> BOOLEAN]
  BY LoadStreamTypes
<1>2. (BufferTypes /\ ThreadTypes /\ TableTypes /\ Ownership)'
  BY LoadHasEffect, LoadKeeps, CrashKeeps
<1>3. FlagTypes'
  BY <1>1 DEF IInv, TypeOK, FlagTypes, rcdVars, flagVars
<1> QED
  BY <1>1, <1>2, <1>3 DEF IInv, TypeOK

\* A step of the callback.
LEMMA CallbackStepKeeps ==
  ASSUME IInv, StreamAudio
  PROVE  IInv'
<1>1. CASE CallbackEnter \/ CallbackReturn
  BY <1>1, CallbackMovesKeep
<1>2. CASE CallbackLock \/ CallbackUnlock
  BY <1>2, TableLockKeeps, TableUnlockKeeps
<1>3. CASE CallbackSkip
  BY <1>3, SkipKeeps, ThreadFacts
     DEF CallbackSkip, LoopLabel, At, bufferVars, callVars, heapVars, lockVars, streamVars, flagVars
<1>4. CASE CallbackMix
  BY <1>4, MixKeeps
<1>5. CASE CallbackRetire \/ CallbackDispatchFails \/ \E l \in Loader : CallbackDispatch(l)
  BY <1>5, MixHasEnd, MixEndsKeeps
<1>6. CASE FreeTrack(Callback)
  BY <1>6, FreeTrackKeeps
<1>7. CASE AudioBuffer_free(Callback) /\ UNCHANGED rcdVars
  BY <1>7, FreeHasEffect, FreeKeeps
<1> QED
  BY <1>1, <1>2, <1>3, <1>4, <1>5, <1>6, <1>7 DEF StreamAudio

\* A step of the user thread.
LEMMA UserStepKeeps ==
  ASSUME IInv, UserCommand \/ UserInCall
  PROVE  IInv'
<1>1. CASE TogglePause \/ Quit
  BY <1>1, UserFlagsKeep
<1>2. CASE \E b \in Buf, f \in File : QueueNew(b, f)
  BY <1>2, QueueNewKeeps
<1>3. CASE QueueCheck \/ QueueTracksAllFull
  BY <1>3, UserDecisionsKeep
<1>4. CASE QueuePublish
  BY <1>4, QueuePublishKeeps
<1>5. CASE QueueDiscard
  BY <1>5, QueueDiscardKeeps
<1>6. CASE Load(User) /\ UNCHANGED rcdVars
  BY <1>6, LoadStepKeeps
<1>7. CASE AudioBuffer_free(User) /\ UNCHANGED rcdVars
  BY <1>7, FreeHasEffect, FreeKeeps
<1> QED
  BY <1>1, <1>2, <1>3, <1>4, <1>5, <1>6, <1>7 DEF UserCommand, UserInCall, QueueAudio

\* A step of main.
LEMMA MainStepKeeps ==
  ASSUME IInv, MainThread
  PROVE  IInv'
<1>1. CASE MainJoin \/ MainReturn
  BY <1>1, MainMovesKeep
<1>2. CASE RcdFreeLock \/ RcdFreeEnd
  BY <1>2, TableLockKeeps, TableUnlockKeeps
<1>3. CASE RcdFreeNext /\ audio_tracks[cursor] = NULL
  BY <1>3, SkipKeeps, ThreadFacts
     DEF RcdFreeNext, LoopLabel, At, heapVars, lockVars, streamVars, flagVars
<1>4. CASE RcdFreeNext /\ audio_tracks[cursor] # NULL
  BY <1>4, PickKeeps
<1>5. CASE FreeTrack(Main)
  BY <1>5, FreeTrackKeeps
<1>6. CASE AudioBuffer_free(Main) /\ UNCHANGED rcdVars
  BY <1>6, FreeHasEffect, FreeKeeps
<1> QED
  BY <1>1, <1>2, <1>3, <1>4, <1>5, <1>6 DEF MainThread, RcdFreeStep

\* A step that changes nothing.
LEMMA StutterKeeps ==
  ASSUME IInv, UNCHANGED vars
  PROVE  IInv'
<1>1. UNCHANGED <<mem, source, writer, readers, load_err, next_first_frame, bytes_in_buffer,
                  broken, pc, target, routine, process,
                  audio_tracks, rcd_owner, cursor, requested_exit, in_pause_state>>
  BY DEF vars, bufferVars, heapVars, lockVars, streamVars, callVars, rcdVars, tableVars, flagVars
<1>2. Quiet
  BY <1>1 DEF Quiet
<1>3. ThreadTypes' /\ Labels' /\ TableLock' /\ Shutdown' /\ Sweep'
  BY <1>1, Facts DEF ThreadTypes, Labels, TableLock, Shutdown, Sweep
<1>4. FlagTypes'
  BY <1>1 DEF IInv, TypeOK, FlagTypes
<1> QED
  BY <1>2, <1>3, <1>4, QuietKeeps

\* IInv holds in every reachable state, for any number of tracks, buffers and
\* loaders, any files and any of the faults.
THEOREM Inductive == Spec => []IInv
<1>1. IInv /\ [Next]_vars => IInv'
  <2> SUFFICES ASSUME IInv, [Next]_vars PROVE IInv'
    OBVIOUS
  <2>1. CASE StreamAudio
    BY <2>1, CallbackStepKeeps
  <2>2. CASE RunAudioEngine
    BY <2>2, EngineKeeps
  <2>3. CASE UserCommand \/ UserInCall
    BY <2>3, UserStepKeeps
  <2>4. CASE MainThread
    BY <2>4, MainStepKeeps
  <2>5. CASE \E l \in Loader : LoaderThread(l)
    BY <2>5, LoadStepKeeps DEF LoaderThread
  <2>6. CASE Terminated \/ UNCHANGED vars
    BY <2>6, StutterKeeps DEF Terminated
  <2> QED
    BY <2>1, <2>2, <2>3, <2>4, <2>5, <2>6 DEF Next
<1> QED
  BY <1>1, InitIInv, PTL DEF Spec

\* Type correctness: in particular an allocated buffer has an opened source, no
\* loop runs past the last track, and a FLAC source never holds more than one
\* chunk of decoded bytes.
THEOREM TypeCorrect == Spec => []TypeOK
<1>1. IInv => TypeOK
  BY DEF IInv
<1> QED
  BY <1>1, Inductive, PTL

\* While the callback mixes a buffer no thread is inside its loading routine or
\* tearing it down, and two threads are never inside one buffer.
THEOREM MixingExclusive == Spec => []MixingExcludesLoading
<1>1. IInv => MixingExcludesLoading
  <2> SUFFICES ASSUME IInv, NEW b \in Buf
               PROVE  /\ Mixing(b) => \A t \in Thread : ~Inside(t, b)
                      /\ \A t, u \in Thread : Inside(t, b) /\ Inside(u, b) => t = u
    BY DEF MixingExcludesLoading
  <2>1. \A t \in Thread : Inside(t, b) => writer[b] = t
    BY Facts DEF InsideLocked, Inside
  <2>2. Mixing(b) => writer[b] = Nobody
    BY Facts DEF MixLocked
  <2> QED
    BY <2>1, <2>2, ThreadFacts
<1> QED
  BY <1>1, Inductive, PTL

\* Every track points to a buffer in place, but for the one the holder of the
\* table lock is just freeing.
THEOREM TracksValid == Spec => []NoDanglingTrack
<1>1. IInv => NoDanglingTrack
  BY Facts DEF TracksAllocated, NoDanglingTrack
<1> QED
  BY <1>1, Inductive, PTL

\* A buffer that is allocated is in exactly one track or in the user thread's
\* hands: none leaks, and none is freed by two owners.
THEOREM SingleOwner == Spec => []OneOwner
<1>1. IInv => OneOwner
  <2> SUFFICES ASSUME IInv, NEW b \in Buf
               PROVE  LET tracksOf == {i \in Track : audio_tracks[i] = b} IN
                      IF mem[b] = "free" \/ target[User] = b
                      THEN tracksOf = {}
                      ELSE \E i \in tracksOf : tracksOf = {i}
    BY DEF OneOwner
  <2>1. CASE mem[b] = "free"
    BY <2>1, NullFacts, Facts DEF TracksAllocated
  <2>2. CASE target[User] = b
    BY <2>2, NullFacts, Facts DEF UserOwner
  <2>3. CASE mem[b] # "free" /\ target[User] # b
    <3>1. PICK i \in Track : audio_tracks[i] = b
      BY <2>3, Facts DEF Owned
    <3>2. \A j \in Track : audio_tracks[j] = b => j = i
      BY <3>1, NullFacts, Facts DEF OneTrack
    <3> QED
      BY <2>3, <3>1, <3>2
  <2> QED
    BY <2>1, <2>2, <2>3
<1> QED
  BY <1>1, Inductive, PTL

\* The callback never waits for the write side of a lock it holds for reading.
THEOREM CallbackUnlocksFirst == Spec => []CallbackFreesUnlocked
<1>1. IInv => CallbackFreesUnlocked
  <2> SUFFICES ASSUME IInv, pc[Callback] = "frAcquire"
               PROVE  Callback \notin readers[target[Callback]]
    BY DEF CallbackFreesUnlocked
  <2>1. target[Callback] \in Buf
    BY InHandLive
  <2> QED
    BY <2>1, Facts DEF MixLocked, Mixing
<1> QED
  BY <1>1, Inductive, PTL

\* main frees the table only when no other thread can use it any more.
THEOREM TeardownExclusive == Spec => []TeardownAlone
<1>1. IInv => TeardownAlone
  BY Facts DEF Shutdown, TeardownAlone
<1> QED
  BY <1>1, Inductive, PTL

\* Nothing is left allocated when main has returned.
THEOREM ExitLeavesNothing == Spec => []ExitFreesEverything
<1>1. IInv => ExitFreesEverything
  <2> SUFFICES ASSUME IInv, process = "exited", NEW b \in Buf, mem[b] # "free" PROVE FALSE
    BY DEF ExitFreesEverything
  <2>1. pc[Main] = "mDone" /\ \A i \in Track : audio_tracks[i] = NULL
    BY Facts DEF Sweep
  <2>2. target[User] = NULL
    BY <2>1, ThreadFacts, Facts DEF Shutdown, Targets, BusyLabels, LoadLabels, FreeLabels
  <2> QED
    BY <2>1, <2>2, NullFacts, Facts DEF Owned
<1> QED
  BY <1>1, Inductive, PTL

-----------------------------------------------------------------------------
(* No track is cut short.  The proof is by an invariant of its own, which    *)
(* says what an error in load_err means when nothing but the end of a file  *)
(* can cause one.                                                          *)

\* The conditions under which a track ends only with its file: the files are WAV
\* files, and neither the reading nor the converting of a chunk fails.  Threads
\* and devices still may.
Undisturbed ==
    /\ \A f \in File : f.kind = "wav"
    /\ "read" \notin Faults /\ "convert" \notin Faults

\* Every loader runs the WAV routine, and a load error, or the freeing of a
\* track, shows that the file is used up.
EndKnown ==
    /\ \A l \in Loader : routine[l] = "wav"
    /\ \A t \in Thread : pc[t] # "decoded"
    /\ \A b \in Buf : load_err[b] # "OK" => AtEnd(b)
    /\ pc[Callback] \in FreeLabels => AtEnd(target[Callback])

\* What the proofs below use of the types.
LEMMA StreamFacts ==
  ASSUME IInv
  PROVE  /\ DOMAIN load_err = Buf /\ DOMAIN next_first_frame = Buf /\ DOMAIN source = Buf
         /\ DOMAIN pc = Thread /\ DOMAIN target = Thread /\ DOMAIN routine = Loader
BY DEF IInv, TypeOK, BufferTypes, StreamTypes, ThreadTypes

\* The buffer the callback is freeing is one, and it is allocated.
LEMMA FreeingAllocated ==
  ASSUME IInv, pc[Callback] \in FreeLabels
  PROVE  target[Callback] \in Buf /\ mem[target[Callback]] # "free"
<1>1. CASE pc[Callback] = "frGone"
  BY <1>1, ThreadFacts, Facts DEF GoneGutted, ThreadTypes, Targets, BusyLabels, FreeLabels
<1>2. CASE pc[Callback] # "frGone"
  BY <1>2, InHandLive DEF FreeLabels
<1> QED
  BY <1>1, <1>2

\* A step that touches no stream, starts no load and retires no track keeps what
\* is known of the ends.
LEMMA EndKept ==
  ASSUME IInv, EndKnown, UNCHANGED <<source, load_err, next_first_frame, routine>>,
         \A t \in Thread : pc'[t] # "decoded",
         pc'[Callback] \in FreeLabels =>
           pc[Callback] \in FreeLabels /\ target'[Callback] = target[Callback]
  PROVE  EndKnown'
BY DEF EndKnown, AtEnd

\* Whatever buffer a pointer of a live load leads to, the load is a WAV load.
LEMMA OnlyWav ==
  ASSUME Undisturbed, IInv, EndKnown, NEW t \in Loader \cup {User},
         pc[t] = "loading" \/ mem[target[t]] = "live", pc[t] \in LoadLabels
  PROVE  LoadKind(t) = "wav" /\ target[t] \in Buf /\ source[target[t]].kind = "wav"
<1>1. t \in Thread
  BY ThreadFacts
<1>2. target[t] \in Buf
  BY <1>1, Facts DEF ThreadTypes, Targets, BusyLabels
<1>3. mem[target[t]] = "live"
  BY <1>1, Facts DEF InsideLocked, InsideLabels
<1>4. source[target[t]].kind = "wav"
  BY <1>2, <1>3, Facts DEF BufferTypes, Undisturbed
<1> QED
  BY <1>2, <1>4 DEF LoadKind, EndKnown

\* A load stores an error only at the end of the file.
LEMMA LoadKnows ==
  ASSUME Undisturbed, IInv, EndKnown, NEW t \in Loader \cup {User}, Load(t)
  PROVE  EndKnown'
<1> DEFINE b == target[t]
<1>1. t \in Thread /\ t # Callback
  BY ThreadFacts
<1>2. pc[t] \in LoadLabels /\ b \in Buf
  <2>1. pc[t] \in LoadLabels
    BY DEF Load, LoadAcquire, LoadOk, StrayLoad, StrayCrash, Dangling, Mismatched, WAV_EOF,
           WAV_UnequalRead, WAV_ConversionError, WAV_Loaded, FLAC_Decode, FLAC_DecoderError,
           FLAC_LoadError, FLAC_ConversionError, FLAC_Loaded, At, LoadLabels
  <2> QED
    BY <1>1, <2>1, Facts DEF ThreadTypes, Targets, BusyLabels
<1>3. Return(t) => /\ UNCHANGED routine
                   /\ \A u \in Thread : pc'[u] # "decoded"
                   /\ pc'[Callback] = pc[Callback] /\ target'[Callback] = target[Callback]
  BY <1>1, ThreadFacts, StreamFacts DEF Return, Goto, EndKnown
<1>4. ASSUME Return(t), UNCHANGED <<source, next_first_frame>>,
             \E err : load_err' = [load_err EXCEPT ![b] = err] /\ (err # "OK" => AtEnd(b))
      PROVE  EndKnown'
  <2>1. UNCHANGED routine /\ \A u \in Thread : pc'[u] # "decoded"
    BY <1>3, <1>4
  <2>2. \A c \in Buf : AtEnd(c)' <=> AtEnd(c)
    BY <1>4 DEF AtEnd
  <2>3. \A c \in Buf : load_err'[c] # "OK" => AtEnd(c)'
    BY <1>4, <2>2, <1>2, StreamFacts DEF EndKnown
  <2>4. pc'[Callback] \in FreeLabels => AtEnd(target[Callback])'
    BY <1>3, <1>4, <2>2, FreeingAllocated DEF EndKnown, AtEnd
  <2> QED
    BY <2>1, <2>3, <2>4 DEF EndKnown
<1>5. CASE LoadAcquire(t)
  BY <1>1, <1>5, EndKept, StreamFacts, ThreadFacts
     DEF LoadAcquire, Goto, heapVars, streamVars, EndKnown
<1>6. CASE WAV_EOF(t)
  BY <1>4, <1>6 DEF WAV_EOF, Fail, heapVars
<1>7. CASE LoadOk(t)
  BY <1>4, <1>7 DEF LoadOk, heapVars
<1>8. CASE StrayLoad(t)
  <2>1. ~Mismatched(t)
    BY OnlyWav, <1>2 DEF Mismatched
  <2>2. UNCHANGED <<source, load_err, next_first_frame>> /\ Return(t)
    BY <1>8, <2>1 DEF StrayLoad, heapVars
  <2> QED
    BY <1>3, <2>2, EndKept
<1>9. CASE StrayCrash(t)
  BY <1>9, EndKept DEF StrayCrash, heapVars, streamVars, callVars, EndKnown
<1>10. CASE WAV_Loaded(t)
  <2>1. /\ ~AtEnd(b) /\ next_first_frame' = [next_first_frame EXCEPT ![b] = Advanced(b)]
        /\ UNCHANGED <<source, load_err, target, routine>>
        /\ pc' = [pc EXCEPT ![t] = "ldOk"]
    BY <1>10 DEF WAV_Loaded, Goto, heapVars
  <2>2. \A c \in Buf : AtEnd(c) => AtEnd(c)'
    BY <1>2, <2>1, StreamFacts DEF AtEnd
  <2>3. \A u \in Thread : pc'[u] # "decoded"
    BY <1>1, <2>1, StreamFacts DEF EndKnown
  <2>4. pc'[Callback] = pc[Callback]
    BY <1>1, <2>1, ThreadFacts, StreamFacts
  <2>5. pc'[Callback] \in FreeLabels => AtEnd(target[Callback])'
    <3> SUFFICES ASSUME pc'[Callback] \in FreeLabels PROVE AtEnd(target[Callback])'
      OBVIOUS
    <3>1. target[Callback] \in Buf /\ AtEnd(target[Callback])
      BY <2>4, FreeingAllocated DEF EndKnown
    <3> QED
      BY <2>1, <2>2, <3>1 DEF AtEnd
  <2> QED
    BY <2>1, <2>2, <2>3, <2>5 DEF EndKnown
<1>11. CASE WAV_UnequalRead(t) \/ WAV_ConversionError(t)
  BY <1>11 DEF WAV_UnequalRead, WAV_ConversionError, Undisturbed
<1>12. CASE FLAC_Decode(t) \/ FLAC_DecoderError(t)
  BY <1>12, <1>2, OnlyWav DEF FLAC_Decode, FLAC_DecoderError, At
<1>13. CASE FLAC_LoadError(t) \/ FLAC_ConversionError(t) \/ FLAC_Loaded(t)
  BY <1>1, <1>13 DEF FLAC_LoadError, FLAC_ConversionError, FLAC_Loaded, At, EndKnown
<1> QED
  BY <1>5, <1>6, <1>7, <1>8, <1>9, <1>10, <1>11, <1>12, <1>13 DEF Load

\* Freeing the memory of a buffer forgets its error with its file.
LEMMA FreeKnows ==
  ASSUME IInv, EndKnown, NEW t \in {User, Callback, Main}, pc[t] = "frGone", FreeMemory(t),
         NEW label \in Label \ BusyLabels, pc' = [pc EXCEPT ![t] = label], UNCHANGED routine
  PROVE  EndKnown'
<1> DEFINE b == target[t]
<1>1. t \in Thread /\ b \in Buf
  BY ThreadFacts, Facts DEF ThreadTypes, Targets, BusyLabels, FreeLabels
<1>2. /\ source' = [source EXCEPT ![b] = NULL]
      /\ load_err' = [load_err EXCEPT ![b] = "OK"]
      /\ next_first_frame' = [next_first_frame EXCEPT ![b] = 0]
      /\ target' = [target EXCEPT ![t] = NULL]
  BY DEF FreeMemory
<1>3. \A c \in Buf \ {b} : AtEnd(c)' <=> AtEnd(c)
  BY <1>1, <1>2, StreamFacts DEF AtEnd
<1>4. \A c \in Buf : load_err'[c] # "OK" => AtEnd(c)'
  BY <1>1, <1>2, <1>3, StreamFacts DEF EndKnown
<1>5. \A u \in Thread : pc'[u] # "decoded"
  BY <1>1, StreamFacts DEF EndKnown, BusyLabels, LoadLabels
<1>6. pc'[Callback] \in FreeLabels => AtEnd(target[Callback])'
  <2> SUFFICES ASSUME pc'[Callback] \in FreeLabels PROVE AtEnd(target[Callback])'
    OBVIOUS
  <2>1. t # Callback
    BY StreamFacts, ThreadFacts DEF BusyLabels
  <2>2. pc[Callback] \in FreeLabels /\ target'[Callback] = target[Callback]
    BY <1>1, <1>2, <2>1, StreamFacts, ThreadFacts
  <2>3. t = User
    BY <2>1, <2>2, Facts DEF Shutdown, FreeLabels, Labels
  <2>4. target[Callback] # b
    <3>1. cursor \in Track /\ audio_tracks[cursor] = target[Callback]
      BY <2>2, FreeingAllocated, NullFacts, TrackAssumption, Facts DEF LoopOwner, TableTypes, Track
    <3> QED
      BY <1>1, <2>3, <3>1, NullFacts, Facts DEF UserOwner
  <2> QED
    BY <1>3, <2>2, <2>4, FreeingAllocated DEF EndKnown, AtEnd
<1> QED
  BY <1>4, <1>5, <1>6 DEF EndKnown

\* The steps of the callback: it frees a track only for an error it has read, and
\* starts loaders on the routine of the file.
LEMMA CallbackKnows ==
  ASSUME Undisturbed, IInv, EndKnown, StreamAudio
  PROVE  EndKnown'
<1> USE DEF At
<1>1. Callback \in Thread
  BY ThreadFacts
<1>2. CASE CallbackEnter \/ CallbackLock \/ CallbackSkip \/ CallbackUnlock \/ CallbackReturn
  <2>1. /\ UNCHANGED <<source, load_err, next_first_frame, routine>>
        /\ UNCHANGED pc \/ \E label \in {"cbReturn", "cbLock", "cbScan", "cbComplete", "cbIdle"} :
                             pc' = [pc EXCEPT ![Callback] = label]
        /\ UNCHANGED target
    BY <1>2 DEF CallbackEnter, CallbackLock, CallbackSkip, CallbackUnlock, CallbackReturn, Goto,
                heapVars, streamVars, bufferVars, callVars
  <2> QED
    BY <1>1, <2>1, EndKept, StreamFacts DEF FreeLabels, EndKnown
<1>3. CASE CallbackMix \/ CallbackDispatchFails
  BY <1>1, <1>3, EndKept, StreamFacts
     DEF CallbackMix, CallbackDispatchFails, Goto, heapVars, streamVars, FreeLabels, EndKnown
<1>4. CASE CallbackRetire
  <2>1. AtEnd(target[Callback])
    BY <1>4, InHandLive DEF CallbackRetire, EndKnown
  <2> QED
    BY <1>1, <1>4, <2>1, StreamFacts
       DEF CallbackRetire, Goto, heapVars, streamVars, EndKnown, AtEnd
<1>5. CASE \E l \in Loader : CallbackDispatch(l)
  <2>1. PICK l \in Loader : CallbackDispatch(l)
    BY <1>5
  <2>2. source[target[Callback]].kind = "wav"
    BY <2>1, InHandLive, Facts DEF CallbackDispatch, BufferTypes, Undisturbed
  <2>3. \A m \in Loader : routine'[m] = "wav"
    BY <2>1, <2>2, StreamFacts DEF CallbackDispatch, EndKnown
  <2>4. /\ \A t \in Thread : pc'[t] # "decoded"
        /\ pc'[Callback] = "cbScan"
    BY <1>1, <2>1, ThreadFacts, StreamFacts DEF CallbackDispatch, EndKnown
  <2> QED
    BY <2>1, <2>3, <2>4
       DEF CallbackDispatch, EndKnown, AtEnd, heapVars, streamVars, FreeLabels
<1>6. CASE FreeTrack(Callback)
  <2>1. "cbScan" \in Label \ BusyLabels
    BY DEF Label, BusyLabels, LoadLabels, FreeLabels
  <2> QED
    BY <1>6, <2>1, FreeKnows DEF FreeTrack, Goto, LoopLabel
<1>7. CASE AudioBuffer_free(Callback) /\ UNCHANGED rcdVars
  BY <1>1, <1>7, FreeHasEffect, EndKept, StreamFacts DEF FreeEffect, FreeLabels, EndKnown
<1> QED
  BY <1>2, <1>3, <1>4, <1>5, <1>6, <1>7 DEF StreamAudio

\* The steps of the user thread: a new buffer starts without an error.
LEMMA UserKnows ==
  ASSUME Undisturbed, IInv, EndKnown, UserCommand \/ UserInCall
  PROVE  EndKnown'
<1> USE DEF At
<1>1. User \in Thread /\ User # Callback
  BY ThreadFacts
<1>2. CASE TogglePause \/ Quit \/ QueueCheck \/ QueuePublish \/ QueueTracksAllFull
  <2>1. /\ UNCHANGED <<source, load_err, next_first_frame, routine>>
        /\ UNCHANGED pc \/ \E label \in {"uDone", "uIdle", "uPublish", "frAcquire"} :
                             pc' = [pc EXCEPT ![User] = label]
        /\ UNCHANGED target \/ target' = [target EXCEPT ![User] = NULL]
    BY <1>2 DEF TogglePause, Quit, QueueCheck, QueuePublish, QueueTracksAllFull, Goto,
                heapVars, streamVars, bufferVars, callVars
  <2> QED
    BY <1>1, <2>1, EndKept, ThreadFacts, StreamFacts DEF EndKnown
<1>3. CASE \E b \in Buf, f \in File : QueueNew(b, f)
  <2>1. PICK b \in Buf, f \in File : QueueNew(b, f)
    BY <1>3
  <2>2. /\ mem[b] = "free"
        /\ source' = [source EXCEPT ![b] = f]
        /\ load_err' = [load_err EXCEPT ![b] = "OK"]
        /\ next_first_frame' = [next_first_frame EXCEPT ![b] = 0]
        /\ target' = [target EXCEPT ![User] = b]
        /\ pc' = [pc EXCEPT ![User] = "ldStart"]
        /\ UNCHANGED routine
    BY <2>1 DEF QueueNew, AudioBuffer_new, Goto
  <2>3. \A c \in Buf \ {b} : AtEnd(c)' <=> AtEnd(c)
    BY <2>2, StreamFacts DEF AtEnd
  <2>4. \A c \in Buf : load_err'[c] # "OK" => AtEnd(c)'
    BY <2>2, <2>3, StreamFacts DEF EndKnown
  <2>5. \A t \in Thread : pc'[t] # "decoded"
    BY <1>1, <2>2, StreamFacts DEF EndKnown
  <2>6. pc'[Callback] = pc[Callback] /\ target'[Callback] = target[Callback]
    BY <1>1, <2>2, ThreadFacts, StreamFacts
  <2>7. pc'[Callback] \in FreeLabels => AtEnd(target[Callback])'
    BY <2>2, <2>3, <2>6, FreeingAllocated DEF EndKnown, AtEnd
  <2> QED
    BY <2>2, <2>4, <2>5, <2>7 DEF EndKnown
<1>4. CASE QueueDiscard
  <2>1. "uIdle" \in Label \ BusyLabels
    BY DEF Label, BusyLabels, LoadLabels, FreeLabels
  <2> QED
    BY <1>4, <2>1, FreeKnows DEF QueueDiscard, Goto
<1>5. CASE Load(User)
  BY <1>5, LoadKnows
<1>6. CASE AudioBuffer_free(User) /\ UNCHANGED rcdVars
  BY <1>1, <1>6, FreeHasEffect, EndKept, ThreadFacts, StreamFacts DEF FreeEffect, EndKnown
<1> QED
  BY <1>2, <1>3, <1>4, <1>5, <1>6 DEF UserCommand, UserInCall, QueueAudio

\* The steps of main and of the engine thread.
LEMMA MainKnows ==
  ASSUME IInv, EndKnown, MainThread \/ RunAudioEngine
  PROVE  EndKnown'
<1> USE DEF At
<1>1. Main \in Thread /\ Engine \in Thread /\ Callback \in Thread
  BY ThreadFacts
<1>2. CASE MainJoin \/ MainReturn \/ RcdFreeLock \/ RcdFreeNext \/ RcdFreeEnd
  <2>1. /\ UNCHANGED <<source, load_err, next_first_frame, routine>>
        /\ UNCHANGED pc \/ \E label \in {"mLock", "mScan", "frAcquire", "mDone"} :
                             pc' = [pc EXCEPT ![Main] = label]
        /\ UNCHANGED target \/ \E b : target' = [target EXCEPT ![Main] = b]
    BY <1>2 DEF MainJoin, MainReturn, RcdFreeLock, RcdFreeNext, RcdFreeEnd, Goto,
                heapVars, streamVars, callVars
  <2> QED
    BY <1>1, <2>1, EndKept, ThreadFacts, StreamFacts DEF EndKnown
<1>3. CASE FreeTrack(Main)
  <2>1. "mScan" \in Label \ BusyLabels
    BY DEF Label, BusyLabels, LoadLabels, FreeLabels
  <2> QED
    BY <1>3, <2>1, FreeKnows, ThreadFacts DEF FreeTrack, Goto, LoopLabel
<1>4. CASE AudioBuffer_free(Main) /\ UNCHANGED rcdVars
  BY <1>1, <1>4, FreeHasEffect, EndKept, ThreadFacts, StreamFacts DEF FreeEffect, EndKnown
<1>5. CASE RunAudioEngine
  BY <1>1, <1>5, EndKept, ThreadFacts, StreamFacts
     DEF RunAudioEngine, EngineStart, EngineInitFails, EngineSeesExit, EngineStop, Goto,
         heapVars, streamVars, FreeLabels, EndKnown
<1> QED
  BY <1>2, <1>3, <1>4, <1>5 DEF MainThread, RcdFreeStep

\* A step that empties a track under the table lock of the callback is the end of
\* RuntimeCoreData_free_track there, and frees what the callback has in hand.
LEMMA RetiresInHand ==
  ASSUME IInv, [Next]_vars, NEW i \in Track,
         audio_tracks[i] # NULL, audio_tracks'[i] = NULL, rcd_owner = Callback
  PROVE  pc[Callback] = "frGone" /\ target[Callback] = audio_tracks[i]
<1> USE DEF At
<1>1. audio_tracks' # audio_tracks
  OBVIOUS
<1>2. QueuePublish \/ FreeTrack(Callback) \/ FreeTrack(Main)
  BY <1>1
     DEF Next, StreamAudio, CallbackEnter, CallbackLock, CallbackSkip, CallbackMix, CallbackRetire,
         CallbackDispatch, CallbackDispatchFails, CallbackUnlock, CallbackReturn,
         RunAudioEngine, EngineStart, EngineInitFails, EngineSeesExit, EngineStop,
         UserCommand, TogglePause, Quit, QueueNew, UserInCall, QueueAudio, QueueCheck,
         QueueTracksAllFull, QueueDiscard, MainThread, MainJoin, MainReturn, RcdFreeStep,
         RcdFreeLock, RcdFreeNext, RcdFreeEnd, LoaderThread, Terminated,
         vars, rcdVars, tableVars
<1>3. ~QueuePublish
  BY ThreadFacts DEF QueuePublish, RcdFree
<1>4. ~FreeTrack(Main)
  BY ThreadFacts, Facts DEF FreeTrack, TableLock, FreeLabels
<1>5. FreeTrack(Callback)
  BY <1>2, <1>3, <1>4
<1>6. pc[Callback] = "frGone" /\ i = cursor
  BY <1>5, Facts DEF FreeTrack, TableTypes
<1> QED
  BY <1>6, FreeingAllocated, NullFacts, Facts DEF LoopOwner, FreeLabels

\* While no read and no conversion of a WAV file fails, the callback retires a
\* track only when the whole file has been read, for any number of tracks and
\* loaders and however the loads overlap, even on buffers that were freed.
THEOREM TracksPlayedOut ==
  ASSUME Undisturbed
  PROVE  Spec => NoTrackCutShort
<1>1. Init => EndKnown
  BY ThreadFacts DEF Init, BufferInit, EndKnown, FreeLabels
<1>2. IInv /\ EndKnown /\ [Next]_vars => EndKnown'
  <2> SUFFICES ASSUME IInv, EndKnown, [Next]_vars PROVE EndKnown'
    OBVIOUS
  <2>1. CASE \E l \in Loader : LoaderThread(l)
    BY <2>1, LoadKnows DEF LoaderThread
  <2>2. CASE Terminated \/ UNCHANGED vars
    BY <2>2, EndKept
       DEF Terminated, vars, bufferVars, heapVars, streamVars, callVars, EndKnown
  <2> QED
    BY <2>1, <2>2, CallbackKnows, UserKnows, MainKnows DEF Next
<1>3. IInv /\ EndKnown /\ [Next]_vars =>
        \A i \in Track :
          audio_tracks[i] # NULL /\ audio_tracks'[i] = NULL /\ rcd_owner = Callback
            => next_first_frame[audio_tracks[i]] >= source[audio_tracks[i]].len
  BY RetiresInHand DEF EndKnown, AtEnd, FreeLabels
<1> QED
  BY <1>1, <1>2, <1>3, Inductive, PTL DEF Spec, NoTrackCutShort
=============================================================================
