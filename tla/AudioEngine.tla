---------------------------- MODULE AudioEngine ----------------------------
(***************************************************************************)
(* The running program: the PortAudio callback stream_audio and the engine *)
(* thread (src/audeng_wrapper.c), the user input thread and main           *)
(* (example/main.c), and the detached loaders the callback starts.         *)
(*                                                                         *)
(* PortAudio itself is external: it calls stream_audio over and over from  *)
(* a thread of its own while the stream is started, and Pa_StopStream waits *)
(* for the call in progress.                                               *)
(***************************************************************************)
EXTENDS RuntimeCoreData

vars == <<bufferVars, rcdVars>>

IdleLoader == {l \in Loader : pc[l] = "idle"}

-----------------------------------------------------------------------------
(* stream_audio                                                            *)

CallbackEnter ==
    /\ At(Callback, "cbIdle")
    /\ Goto(Callback, IF in_pause_state THEN "cbReturn" ELSE "cbLock")
    /\ UNCHANGED <<heapVars, lockVars, streamVars, target, routine, process, rcdVars>>

CallbackLock ==
    /\ At(Callback, "cbLock")
    /\ RcdFree
    /\ RcdLock(Callback)
    /\ cursor' = 0
    /\ Goto(Callback, "cbScan")
    /\ UNCHANGED <<heapVars, lockVars, streamVars, target, routine, process,
                   audio_tracks, flagVars>>

CanRead(i) == audio_tracks[i] # NULL /\ ReadLockFree(audio_tracks[i])

\* The track is empty, or its buffer is being loaded: "Track missed".
CallbackSkip ==
    /\ At(Callback, "cbScan")
    /\ cursor < N
    /\ ~CanRead(cursor)
    /\ cursor' = cursor + 1
    /\ UNCHANGED <<bufferVars, audio_tracks, rcd_owner, flagVars>>

\* pthread_rwlock_tryrdlock succeeds; the datapoints are mixed under it.
CallbackMix ==
    /\ At(Callback, "cbScan")
    /\ cursor < N
    /\ CanRead(cursor)
    /\ LockRead(Callback, audio_tracks[cursor])
    /\ target' = [target EXCEPT ![Callback] = audio_tracks[cursor]]
    /\ Goto(Callback, "cbMix")
    /\ UNCHANGED <<heapVars, streamVars, routine, process, rcdVars>>

\* A mutation of CallbackRetire: the track is freed under the read lock.
CallbackRetire_read_locked ==
    /\ At(Callback, "cbMix")
    /\ load_err[target[Callback]] # "OK"
    /\ Goto(Callback, "frAcquire")
    /\ UNCHANGED <<heapVars, lockVars, streamVars, target, routine, process, rcdVars>>

\* A load error, the end of the file being one: unlock and free the track.
CallbackRetire == LET b == target[Callback] IN
    /\ At(Callback, "cbMix")
    /\ load_err[b] # "OK"
    /\ UnlockRead(Callback, b)
    /\ Goto(Callback, "frAcquire")
    /\ UNCHANGED <<heapVars, streamVars, target, routine, process, rcdVars>>

\* Unlock and start a detached thread on the buffer.
CallbackDispatch(l) == LET b == target[Callback] IN
    /\ At(Callback, "cbMix")
    /\ load_err[b] = "OK"
    /\ l \in IdleLoader
    /\ UnlockRead(Callback, b)
    /\ pc' = [pc EXCEPT ![Callback] = "cbScan", ![l] = "ldStart"]
    /\ target' = [target EXCEPT ![Callback] = NULL, ![l] = b]
    /\ routine' = [routine EXCEPT ![l] = source[b].kind]
    /\ cursor' = cursor + 1
    /\ UNCHANGED <<heapVars, streamVars, process, audio_tracks, rcd_owner, flagVars>>

\* pthread_create fails and the callback goes on without a load.
CallbackDispatchFails ==
    /\ At(Callback, "cbMix")
    /\ load_err[target[Callback]] = "OK"
    /\ IdleLoader = {} \/ "thread" \in Faults
    /\ UnlockRead(Callback, target[Callback])
    /\ Goto(Callback, "cbScan")
    /\ target' = [target EXCEPT ![Callback] = NULL]
    /\ cursor' = cursor + 1
    /\ UNCHANGED <<heapVars, streamVars, routine, process, audio_tracks, rcd_owner, flagVars>>

\* A mutation of CallbackUnlock: the table stays locked.
CallbackUnlock_keeps_lock ==
    /\ At(Callback, "cbScan")
    /\ cursor = N
    /\ cursor' = 0
    /\ Goto(Callback, "cbReturn")
    /\ UNCHANGED <<heapVars, lockVars, streamVars, target, routine, process,
                   audio_tracks, rcd_owner, flagVars>>

CallbackUnlock ==
    /\ At(Callback, "cbScan")
    /\ cursor = N
    /\ cursor' = 0
    /\ RcdUnlock
    /\ Goto(Callback, "cbReturn")
    /\ UNCHANGED <<heapVars, lockVars, streamVars, target, routine, process,
                   audio_tracks, flagVars>>

\* paComplete ends the stream, paContinue has the callback called again.
CallbackReturn ==
    /\ At(Callback, "cbReturn")
    /\ Goto(Callback, IF requested_exit THEN "cbComplete" ELSE "cbIdle")
    /\ UNCHANGED <<heapVars, lockVars, streamVars, target, routine, process, rcdVars>>

StreamAudio ==
    \/ CallbackEnter \/ CallbackLock \/ CallbackSkip \/ CallbackMix
    \/ CallbackRetire \/ (\E l \in Loader : CallbackDispatch(l))
    \/ CallbackDispatchFails \/ CallbackUnlock \/ CallbackReturn
    \/ FreeTrack(Callback)
    \/ AudioBuffer_free(Callback) /\ UNCHANGED rcdVars

-----------------------------------------------------------------------------
(* ntrb_run_audio_engine                                                   *)

EngineStart ==
    /\ At(Engine, "eInit")
    /\ pc' = [pc EXCEPT ![Engine] = "eRun", ![Callback] = "cbIdle"]
    /\ UNCHANGED <<heapVars, lockVars, streamVars, target, routine, process, rcdVars>>

\* Pa_Initialize, the device query, Pa_OpenStream or Pa_StartStream fails: the
\* thread ends and no callback ever runs.
EngineInitFails ==
    /\ At(Engine, "eInit")
    /\ "device" \in Faults
    /\ Goto(Engine, "eDone")
    /\ UNCHANGED <<heapVars, lockVars, streamVars, target, routine, process, rcdVars>>

EngineSeesExit ==
    /\ At(Engine, "eRun")
    /\ requested_exit
    /\ Goto(Engine, "eStop")
    /\ UNCHANGED <<heapVars, lockVars, streamVars, target, routine, process, rcdVars>>

\* Pa_StopStream returns once no call of stream_audio is in progress.
EngineStop ==
    /\ At(Engine, "eStop")
    /\ pc[Callback] \in {"cbIdle", "cbComplete"}
    /\ pc' = [pc EXCEPT ![Engine] = "eDone", ![Callback] = "cbOff"]
    /\ UNCHANGED <<heapVars, lockVars, streamVars, target, routine, process, rcdVars>>

RunAudioEngine == EngineStart \/ EngineInitFails \/ EngineSeesExit \/ EngineStop

-----------------------------------------------------------------------------
(* user_input_loop: the commands p, l and q                                *)

TogglePause ==
    /\ At(User, "uIdle")
    /\ in_pause_state' = ~in_pause_state
    /\ UNCHANGED <<bufferVars, tableVars, requested_exit>>

Quit ==
    /\ At(User, "uIdle")
    /\ requested_exit' = TRUE
    /\ Goto(User, "uDone")
    /\ UNCHANGED <<heapVars, lockVars, streamVars, target, routine, process,
                   tableVars, in_pause_state>>

UserCommand ==
    TogglePause \/ Quit \/ \E b \in Buf, f \in File : QueueNew(b, f)

\* What the thread does within a queue command.
UserInCall ==
    \/ QueueAudio
    \/ Load(User) /\ UNCHANGED rcdVars
    \/ AudioBuffer_free(User) /\ UNCHANGED rcdVars

-----------------------------------------------------------------------------
(* main                                                                    *)

\* A mutation of MainJoined: main does not join the engine thread.
MainJoined_user_only == pc[User] = "uDone"

MainJoined == pc[User] = "uDone" /\ pc[Engine] = "eDone"

MainJoin ==
    /\ At(Main, "mJoin")
    /\ MainJoined
    /\ Goto(Main, "mLock")
    /\ UNCHANGED <<heapVars, lockVars, streamVars, target, routine, process, rcdVars>>

\* main returns, and with it every loader still there ends.
MainReturn ==
    /\ At(Main, "mDone")
    /\ process' = "exited"
    /\ UNCHANGED <<heapVars, lockVars, streamVars, callVars, rcdVars>>

MainThread ==
    \/ MainJoin \/ RcdFreeStep \/ MainReturn
    \/ AudioBuffer_free(Main) /\ UNCHANGED rcdVars

-----------------------------------------------------------------------------
LoaderThread(l) == Load(l) /\ UNCHANGED rcdVars

Terminated == process # "running" /\ UNCHANGED vars

Init ==
    /\ BufferInit
    /\ RcdInit
    /\ pc = [t \in Thread |-> IF t = Callback THEN "cbOff"
                              ELSE IF t = User THEN "uIdle"
                              ELSE IF t = Engine THEN "eInit"
                              ELSE IF t = Main THEN "mJoin" ELSE "idle"]

Next ==
    \/ StreamAudio \/ RunAudioEngine \/ UserCommand \/ UserInCall \/ MainThread
    \/ \E l \in Loader : LoaderThread(l)
    \/ Terminated

Spec == Init /\ [][Next]_vars

(* Every thread that can run does run in the end (the operating system     *)
(* schedules preemptively), and PortAudio keeps calling a started stream.  *)
(* The user thread waits for the table lock, and a loader for its buffer,  *)
(* against a callback that takes them again and again but leaves them free *)
(* for most of its 25 ms period: strong fairness says the waiter gets in.  *)
(* Nothing makes the user type a command.                                  *)
Fairness ==
    /\ WF_vars(StreamAudio)
    /\ WF_vars(RunAudioEngine)
    /\ SF_vars(UserInCall)
    /\ WF_vars(MainThread)
    /\ \A l \in Loader : SF_vars(LoaderThread(l))

FairSpec == Spec /\ Fairness

-----------------------------------------------------------------------------
(* Properties                                                              *)

InsideLabels == {"loading", "decoded", "frHeld"}
Inside(t, b) == pc[t] \in InsideLabels /\ target[t] = b
Mixing(b)    == pc[Callback] = "cbMix" /\ target[Callback] = b
Queued       == {audio_tracks[i] : i \in Track} \ {NULL}

Label == {"idle", "ldStart", "loading", "decoded", "ldOk", "frAcquire", "frHeld", "frGone",
          "uIdle", "uCheck", "uPublish", "uDone",
          "cbOff", "cbIdle", "cbLock", "cbScan", "cbMix", "cbReturn", "cbComplete",
          "eInit", "eRun", "eStop", "eDone", "mJoin", "mLock", "mScan", "mDone"}

BufferTypes ==
    /\ mem \in [Buf -> {"free", "live", "gutted"}]
    /\ source \in [Buf -> File \cup {NULL}]
    /\ \A b \in Buf : mem[b] # "free" => source[b] \in File
    /\ writer \in [Buf -> Thread \cup {Nobody, Departed}]
    /\ readers \in [Buf -> SUBSET Thread]

StreamTypes ==
    /\ load_err \in [Buf -> LoadError]
    /\ next_first_frame \in [Buf -> Nat]
    /\ bytes_in_buffer \in [Buf -> 0 .. Chunk]

ThreadTypes ==
    /\ pc \in [Thread -> Label]
    /\ target \in [Thread -> Buf \cup {NULL}]
    /\ routine \in [Loader -> Kind]
    /\ process \in {"running", "exited", "crashed"}

TableTypes ==
    /\ audio_tracks \in [Track -> Buf \cup {NULL}]
    /\ rcd_owner \in {Nobody, Callback, Main}
    /\ cursor \in 0 .. N

FlagTypes ==
    /\ broken \in [Buf -> BOOLEAN]
    /\ requested_exit \in BOOLEAN
    /\ in_pause_state \in BOOLEAN

\* The variables keep their types.  In particular an allocated buffer has an
\* opened source, a loop over the tracks never runs past their end, and a FLAC
\* source never holds more than one chunk (the bound read_FLAC_frame keeps).
TypeOK == BufferTypes /\ StreamTypes /\ ThreadTypes /\ TableTypes /\ FlagTypes

\* While the callback mixes a buffer's datapoints no thread is refilling or
\* tearing down that buffer, and two threads are never inside one buffer
\* together, even when loaders reach it through stale pointers
\* (tryrdlock at audeng_wrapper.c:63 against the wrlocks of the routines).
MixingExcludesLoading ==
    \A b \in Buf :
      /\ Mixing(b) => \A t \in Thread : ~Inside(t, b)
      /\ \A t, u \in Thread : Inside(t, b) /\ Inside(u, b) => t = u

\* Every track points to a buffer that is allocated, with its contents in
\* place; the exception is the one track whose buffer the holder of the table
\* lock is just freeing (RuntimeCoreData_free_track).
NoDanglingTrack ==
    \A i \in Track :
      \/ audio_tracks[i] = NULL
      \/ mem[audio_tracks[i]] = "live"
      \/ /\ rcd_owner # Nobody
         /\ pc[rcd_owner] = "frGone"
         /\ i = cursor

\* A buffer that is allocated belongs to exactly one track or to the queueing
\* user thread, never to both and never to nobody: none leaks, none is freed by
\* two owners.
OneOwner ==
    \A b \in Buf :
      LET tracksOf == {i \in Track : audio_tracks[i] = b} IN
      IF mem[b] = "free" \/ target[User] = b
      THEN tracksOf = {}
      ELSE \E i \in tracksOf : tracksOf = {i}

\* ntrb_AudioBuffer_free blocks until it can write, so the callback must have
\* given up its read lock before (the comment at audeng_wrapper.c:77).
CallbackFreesUnlocked ==
    pc[Callback] = "frAcquire" => Callback \notin readers[target[Callback]]

\* main tears the table down alone: no callback is running or can start, and
\* the user thread, which could queue into the freed table, has ended.
TeardownAlone ==
    pc[Main] # "mJoin" =>
      /\ pc[Callback] = "cbOff" /\ pc[Engine] = "eDone" /\ pc[User] = "uDone"
      /\ requested_exit

\* When the process has returned from main every buffer has been freed.
ExitFreesEverything ==
    process = "exited" => \A b \in Buf : mem[b] = "free"

\* The buffers allocated and not in a track.
Private == {b \in Buf : mem[b] # "free" /\ b \notin Queued}

\* The table and its buffers behave like TrackTable.
Table == INSTANCE TrackTable WITH
    tracks  <- audio_tracks,
    private <- Private,
    closed  <- pc[Main] = "mDone"

RefinesTrackTable == Table!TableSpec

\* The callback retires a WAV track only when a loader has read all of the
\* file: no track is cut short, whatever loaders overlap.
NoTrackCutShort ==
    [][\A i \in Track :
         audio_tracks[i] # NULL /\ audio_tracks'[i] = NULL /\ rcd_owner = Callback
           => next_first_frame[audio_tracks[i]] >= source[audio_tracks[i]].len]_vars

\* Once quitting is requested the process ends.
ShutdownCompletes == requested_exit ~> process # "running"

\* A track whose file is used up is retired, unless the user pauses or quits.
FinishedTrackIsFreed ==
    \A i \in Track :
      (audio_tracks[i] # NULL /\ AtEnd(audio_tracks[i]))
        ~> \/ audio_tracks[i] = NULL
           \/ in_pause_state \/ requested_exit \/ process # "running"

-----------------------------------------------------------------------------
(* What the documentation says and the code does not do                    *)

\* A track that has been played through is ready for deallocation: no loader
\* still has the buffer to work on when the callback frees its contents
\* (RuntimeCoreData.h:36).
ReadyForDeallocation ==
    pc[Callback] = "frHeld" => \A l \in Loader : target[l] # target[Callback]

\* Whoever holds buffer_access for writing is at work on the buffer: the
\* loading routines unlock after writing (AudioBuffer.h:136).
LoadersUnlock ==
    \A b \in Buf : writer[b] # Nobody => \E t \in Thread : writer[b] = t /\ Inside(t, b)

\* A FLAC load that ends well has filled its buffer: the buffer is guaranteed to
\* be filled where bytes_in_buffer is reset (BufferSource_FLACfile.c:180).
FullChunkDelivered ==
    [][\A t \in Thread :
         pc[t] = "decoded" /\ pc'[t] = "ldOk" => bytes_in_buffer[target[t]] = Chunk]_vars
=============================================================================
