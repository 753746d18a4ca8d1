-------------------------- MODULE RuntimeCoreData --------------------------
(***************************************************************************)
(* ntrb_RuntimeCoreData (src/RuntimeCoreData.c): the table of audio tracks *)
(* under audio_track_rwlock, the two flags the user sets for the audio     *)
(* engine, ntrb_RuntimeCoreData_queue_audio, which the user thread runs,   *)
(* and ntrb_RuntimeCoreData_free, which main runs at the end.              *)
(*                                                                         *)
(* audio_track_rwlock is only ever taken for writing, so it is a mutex:    *)
(* rcd_owner names its holder.                                             *)
(***************************************************************************)
EXTENDS AudioBuffer

CONSTANT N     \* audio_track_count; the code keeps it in 16 bits
ASSUME TrackAssumption == N \in Nat \ {0}

Track == 0 .. N - 1

VARIABLES
    audio_tracks,     \* Track -> Buf or NULL
    rcd_owner,        \* holder of audio_track_rwlock
    cursor,           \* the track the holder's loop is at
    requested_exit,
    in_pause_state

tableVars == <<audio_tracks, rcd_owner, cursor>>
flagVars  == <<requested_exit, in_pause_state>>
rcdVars   == <<tableVars, flagVars>>

Empty == {i \in Track : audio_tracks[i] = NULL}

RcdFree == rcd_owner = Nobody
RcdLock(t) == rcd_owner' = t
RcdUnlock  == rcd_owner' = Nobody

-----------------------------------------------------------------------------
(* ntrb_RuntimeCoreData_queue_audio, on the user thread                    *)

\* Allocate and open the buffer, then call its loading routine directly.
QueueNew(b, f) ==
    /\ At(User, "uIdle")
    /\ AudioBuffer_new(User, b, f)
    /\ Goto(User, "ldStart")
    /\ UNCHANGED <<routine, process, rcdVars>>

\* The load errors that queue_audio reports; it takes the others, the end of
\* the file and the errors of the FLAC decoder, for a success.
Refused(err) == err \in {"UnequalRead", "StdaudConversionError"}

QueueCheck ==
    /\ At(User, "uCheck")
    /\ Goto(User, IF Refused(load_err[target[User]]) THEN "frAcquire" ELSE "uPublish")
    /\ UNCHANGED <<heapVars, lockVars, streamVars, target, routine, process, rcdVars>>

\* Two mutations of FirstEmpty: any empty track, and the first track at all.
FirstEmpty_any(i) == i \in Empty
FirstEmpty_overwrites(i) == \A j \in Empty : i <= j

FirstEmpty(i) == i \in Empty /\ \A j \in Empty : i <= j

\* Lock the table, scan it and store the buffer.  Every variable the scan
\* touches is protected by the lock, so the critical section is one step.
QueuePublish ==
    /\ At(User, "uPublish")
    /\ RcdFree
    /\ \E i \in Track :
         /\ FirstEmpty(i)
         /\ audio_tracks' = [audio_tracks EXCEPT ![i] = target[User]]
    /\ Goto(User, "uIdle")
    /\ target' = [target EXCEPT ![User] = NULL]
    /\ UNCHANGED <<heapVars, lockVars, streamVars, routine, process,
                   rcd_owner, cursor, flagVars>>

QueueTracksAllFull ==
    /\ At(User, "uPublish")
    /\ RcdFree
    /\ Empty = {}
    /\ Goto(User, "frAcquire")
    /\ UNCHANGED <<heapVars, lockVars, streamVars, target, routine, process, rcdVars>>

\* The buffer that could not be queued has been torn down; free its memory.
QueueDiscard ==
    /\ At(User, "frGone")
    /\ FreeMemory(User)
    /\ Goto(User, "uIdle")
    /\ UNCHANGED <<routine, process, rcdVars>>

QueueAudio ==
    \/ QueueCheck \/ QueuePublish \/ QueueTracksAllFull \/ QueueDiscard

-----------------------------------------------------------------------------
(* ntrb_RuntimeCoreData_free_track, inside the loop of the callback or of  *)
(* ntrb_RuntimeCoreData_free                                               *)

LoopLabel(t) == IF t = Callback THEN "cbScan" ELSE "mScan"

\* A mutation of FreeTrack: the track keeps its pointer.
FreeTrack_keeps_pointer(t) ==
    /\ At(t, "frGone")
    /\ FreeMemory(t)
    /\ cursor' = cursor + 1
    /\ Goto(t, LoopLabel(t))
    /\ UNCHANGED <<routine, process, audio_tracks, rcd_owner, flagVars>>

FreeTrack(t) ==
    /\ At(t, "frGone")
    /\ FreeMemory(t)
    /\ audio_tracks' = [audio_tracks EXCEPT ![cursor] = NULL]
    /\ cursor' = cursor + 1
    /\ Goto(t, LoopLabel(t))
    /\ UNCHANGED <<routine, process, rcd_owner, flagVars>>

-----------------------------------------------------------------------------
(* ntrb_RuntimeCoreData_free, on main                                      *)

RcdFreeLock ==
    /\ At(Main, "mLock")
    /\ RcdFree
    /\ RcdLock(Main)
    /\ cursor' = 0
    /\ Goto(Main, "mScan")
    /\ UNCHANGED <<heapVars, lockVars, streamVars, target, routine, process,
                   audio_tracks, flagVars>>

RcdFreeNext ==
    /\ At(Main, "mScan")
    /\ cursor < N
    /\ IF audio_tracks[cursor] = NULL
       THEN cursor' = cursor + 1 /\ UNCHANGED <<pc, target>>
       ELSE /\ target' = [target EXCEPT ![Main] = audio_tracks[cursor]]
            /\ Goto(Main, "frAcquire")
            /\ UNCHANGED cursor
    /\ UNCHANGED <<heapVars, lockVars, streamVars, routine, process,
                   audio_tracks, rcd_owner, flagVars>>

\* A mutation of RcdFreeEnd: the loop stops one track short.
RcdFreeEnd_one_short ==
    /\ At(Main, "mScan")
    /\ cursor + 1 >= N
    /\ cursor' = 0
    /\ RcdUnlock
    /\ requested_exit' = TRUE
    /\ in_pause_state' = TRUE
    /\ Goto(Main, "mDone")
    /\ UNCHANGED <<heapVars, lockVars, streamVars, target, routine, process, audio_tracks>>

\* Free the table, set both flags, release and destroy the lock.
RcdFreeEnd ==
    /\ At(Main, "mScan")
    /\ cursor = N
    /\ cursor' = 0
    /\ RcdUnlock
    /\ requested_exit' = TRUE
    /\ in_pause_state' = TRUE
    /\ Goto(Main, "mDone")
    /\ UNCHANGED <<heapVars, lockVars, streamVars, target, routine, process, audio_tracks>>

RcdFreeStep == RcdFreeLock \/ RcdFreeNext \/ FreeTrack(Main) \/ RcdFreeEnd

-----------------------------------------------------------------------------
RcdInit ==
    /\ audio_tracks = [i \in Track |-> NULL]
    /\ rcd_owner = Nobody
    /\ cursor = 0
    /\ requested_exit = FALSE
    /\ in_pause_state = TRUE
=============================================================================
