------------------------ MODULE AudioEngineInvariant ------------------------
(***************************************************************************)
(* The inductive invariant behind the safety properties of AudioEngine: at *)
(* which labels each thread can be, what it holds there, and who owns each *)
(* buffer.                                                                 *)
(***************************************************************************)
EXTENDS AudioEngine

FreeLabels == {"frAcquire", "frHeld", "frGone"}
LoadLabels == {"ldStart", "loading", "decoded", "ldOk"}

\* Each thread stays in its own code.
Labels ==
    /\ \A l \in Loader : pc[l] \in LoadLabels \cup {"idle"}
    /\ pc[User] \in LoadLabels \cup FreeLabels \cup {"uIdle", "uCheck", "uPublish", "uDone"}
    /\ pc[Callback] \in FreeLabels
         \cup {"cbOff", "cbIdle", "cbLock", "cbScan", "cbMix", "cbReturn", "cbComplete"}
    /\ pc[Engine] \in {"eInit", "eRun", "eStop", "eDone"}
    /\ pc[Main] \in FreeLabels \cup {"mJoin", "mLock", "mScan", "mDone"}

\* A thread has a buffer in hand exactly where its code uses one.
BusyLabels == LoadLabels \cup FreeLabels \cup {"uCheck", "uPublish", "cbMix"}
Targets == \A t \in Thread : pc[t] \in BusyLabels <=> target[t] # NULL

\* audio_track_rwlock is held exactly inside the two loops over the tracks.
TableLock ==
    /\ rcd_owner = Callback <=> pc[Callback] \in FreeLabels \cup {"cbScan", "cbMix"}
    /\ rcd_owner = Main <=> pc[Main] \in FreeLabels \cup {"mScan"}

\* Who is inside a buffer holds its lock for writing, and the contents are in
\* place.
InsideLocked ==
    \A t \in Thread : pc[t] \in InsideLabels =>
      writer[target[t]] = t /\ mem[target[t]] = "live"

\* Only the mixing callback holds a lock for reading, and never a lock that is
\* held for writing.
MixLocked ==
    /\ \A b \in Buf : readers[b] = IF Mixing(b) THEN {Callback} ELSE {}
    /\ \A b \in Buf : writer[b] # Nobody => readers[b] = {}

\* After ntrb_AudioBuffer_free the contents are gone, unless it could not lock
\* because the caller held the lock itself.
GoneGutted ==
    \A t \in Thread : pc[t] = "frGone" =>
      \/ mem[target[t]] = "gutted"
      \/ mem[target[t]] = "live" /\ writer[target[t]] = t

\* A buffer is in one track at most.
OneTrack ==
    \A i, j \in Track : audio_tracks[i] # NULL /\ audio_tracks[i] = audio_tracks[j] => i = j

\* The buffer of a track is in place, or its owner's loop is just freeing it.
TracksAllocated ==
    \A i \in Track : audio_tracks[i] # NULL =>
      \/ mem[audio_tracks[i]] = "live"
      \/ /\ mem[audio_tracks[i]] = "gutted"
         /\ rcd_owner # Nobody
         /\ pc[rcd_owner] = "frGone"
         /\ i = cursor

\* The buffer a loop works on is the track at its cursor.
LoopOwner ==
    \A t \in {Callback, Main} : target[t] # NULL =>
      cursor < N /\ audio_tracks[cursor] = target[t]

\* The buffer the user thread works on is in no track.
UserOwner ==
    target[User] # NULL =>
      /\ \A i \in Track : audio_tracks[i] # target[User]
      /\ mem[target[User]] # "free"
      /\ pc[User] # "frGone" => mem[target[User]] = "live"

\* Every allocated buffer is the user thread's or in a track.
Owned ==
    \A b \in Buf : mem[b] # "free" =>
      target[User] = b \/ \E i \in Track : audio_tracks[i] = b

\* main works alone, a callback runs only on a started stream, and the user
\* thread ends by requesting the exit.
Shutdown ==
    /\ pc[Main] # "mJoin" =>
         pc[User] = "uDone" /\ pc[Engine] = "eDone" /\ pc[Callback] = "cbOff"
    /\ pc[Engine] \in {"eInit", "eDone"} => pc[Callback] = "cbOff"
    /\ pc[User] = "uDone" => requested_exit

\* main empties the tracks from the first to the last, and does not return
\* before they are empty.
Sweep ==
    /\ pc[Main] \in FreeLabels \cup {"mScan"} =>
         \A i \in Track : i < cursor => audio_tracks[i] = NULL
    /\ pc[Main] = "mDone" => \A i \in Track : audio_tracks[i] = NULL
    /\ process = "exited" => pc[Main] = "mDone"

\* Where the threads are and who owns and who locks what.
Ownership ==
    /\ Labels /\ Targets /\ TableLock
    /\ InsideLocked /\ MixLocked /\ GoneGutted
    /\ OneTrack /\ TracksAllocated
    /\ LoopOwner /\ UserOwner /\ Owned /\ Shutdown /\ Sweep

\* The inductive invariant: the safety properties of AudioEngine follow from
\* it, and every step of every thread keeps it.
IInv == TypeOK /\ Ownership
=============================================================================
