----------------------- MODULE AudioEngineRefinement -----------------------
(***************************************************************************)
(* AudioEngine implements TrackTable: the table's tracks are audio_tracks,  *)
(* its private buffers those in no track, and it is closed when main has   *)
(* freed it.  The steps of the threads that store, free or discard a       *)
(* buffer are steps of the table; all others are invisible to it.          *)
(***************************************************************************)
EXTENDS AudioEngineProofs

\* The buffers allocated and not in a track are the one the user thread has
\* in hand.
LEMMA UserHolds ==
  ASSUME IInv
  PROVE  Private = {target[User]} \ {NULL}
<1>1. target[User] \in Buf \cup {NULL}
  BY ThreadFacts, Facts DEF ThreadTypes
<1>2. \A b \in Buf : mem[b] # "free" /\ b \notin Queued => target[User] = b
  BY NullFacts, Facts DEF Owned, Queued
<1>3. target[User] # NULL => mem[target[User]] # "free" /\ target[User] \notin Queued
  BY Facts DEF UserOwner, Queued
<1> QED
  BY <1>1, <1>2, <1>3, NullFacts DEF Private

\* The initial states are those of the abstract table.
LEMMA TableStart == Init => Table!TableInit
<1> SUFFICES ASSUME Init PROVE Table!TableInit
  OBVIOUS
<1>1. audio_tracks = [i \in Track |-> NULL]
  BY DEF Init, RcdInit
<1>2. Private = {}
  BY DEF Init, BufferInit, Private
<1>3. (pc[Main] = "mDone") = FALSE
  BY ThreadFacts DEF Init
<1> QED
  BY <1>1, <1>2, <1>3 DEF Table!TableInit

\* A step that leaves the tracks and the user thread's buffer alone and does
\* not end the teardown is invisible to the table.
LEMMA TableStutters ==
  ASSUME IInv, IInv', audio_tracks' = audio_tracks, target'[User] = target[User],
         pc'[Main] = "mDone" <=> pc[Main] = "mDone"
  PROVE  UNCHANGED Table!tableState
<1>1. Private = {target[User]} \ {NULL}
  BY UserHolds
<1>2. (Private = {target[User]} \ {NULL})'
  BY UserHolds, PTL
<1> QED
  BY <1>1, <1>2 DEF Table!tableState

\* The steps of a load and of ntrb_AudioBuffer_free leave the table as it is.
LEMMA InsideStutters ==
  ASSUME IInv, IInv', UNCHANGED rcdVars,
         \/ \E t \in Loader \cup {User} : Load(t)
         \/ \E t \in {User, Callback, Main} : AudioBuffer_free(t)
  PROVE  UNCHANGED Table!tableState
<1>1. audio_tracks' = audio_tracks
  BY DEF rcdVars, tableVars
<1>2. ASSUME NEW t \in Loader \cup {User}, Load(t)
      PROVE  target'[User] = target[User] /\ pc'[Main] = pc[Main]
  <2>1. CASE Crash
    BY <2>1 DEF Crash
  <2>2. ASSUME NEW label \in LoadNext(t), LoadEffect(t, label)
        PROVE  target'[User] = target[User] /\ pc'[Main] = pc[Main]
    <3>1. t # Main /\ (label = "idle" => t # User)
      BY ThreadFacts DEF LoadNext
    <3> QED
      BY <2>2, <3>1, ThreadFacts, Facts DEF LoadEffect, ThreadTypes
  <2> QED
    BY <1>2, <2>1, <2>2, LoadHasEffect
<1>3. ASSUME NEW t \in {User, Callback, Main}, AudioBuffer_free(t)
      PROVE  target'[User] = target[User] /\ (pc'[Main] = "mDone" <=> pc[Main] = "mDone")
  <2>1. FreeEffect(t)
    BY <1>3, FreeHasEffect
  <2> QED
    BY <2>1, ThreadFacts, Facts DEF FreeEffect, ThreadTypes
<1> QED
  BY <1>1, <1>2, <1>3, TableStutters

\* The user thread's steps on the table.
LEMMA QueueNewAllocates ==
  ASSUME IInv, IInv', NEW b \in Buf, NEW f \in File, QueueNew(b, f)
  PROVE  Table!Allocate(b)
<1>1. /\ pc[User] = "uIdle" /\ mem[b] = "free" /\ target' = [target EXCEPT ![User] = b]
      /\ pc' = [pc EXCEPT ![User] = "ldStart"] /\ audio_tracks' = audio_tracks
  BY DEF QueueNew, AudioBuffer_new, At, Goto, rcdVars, tableVars
<1>2. target[User] = NULL /\ target'[User] = b
  BY <1>1, ThreadFacts, Facts DEF Targets, ThreadTypes, BusyLabels, LoadLabels, FreeLabels
<1>3. Private = {}
  BY <1>2, UserHolds
<1>4. Private' = {b}
  <2>1. (Private = {target[User]} \ {NULL})'
    BY UserHolds, PTL
  <2> QED
    BY <1>2, <2>1, NullFacts
<1>5. pc[Main] # "mDone" /\ pc'[Main] # "mDone"
  BY <1>1, ThreadFacts, Facts DEF Shutdown, ThreadTypes
<1>6. b \notin Queued
  BY <1>1, Facts DEF TracksAllocated, Queued
<1> QED
  BY <1>1, <1>3, <1>4, <1>5, <1>6 DEF Table!Allocate, Table!Queued, Queued

\* Storing the buffer in the first empty track is the table's Put.
LEMMA QueuePublishPuts ==
  ASSUME IInv, IInv', QueuePublish
  PROVE  \E i \in Track : Table!Put(target[User], i)
<1> DEFINE b == target[User]
<1>1. PICK i \in Track : FirstEmpty(i) /\ audio_tracks' = [audio_tracks EXCEPT ![i] = b]
  BY DEF QueuePublish
<1>2. /\ pc[User] = "uPublish" /\ pc' = [pc EXCEPT ![User] = "uIdle"]
      /\ target' = [target EXCEPT ![User] = NULL]
  BY DEF QueuePublish, At, Goto
<1>3. b \in Buf /\ b # NULL /\ target'[User] = NULL
  BY <1>2, NullFacts, ThreadFacts, Facts DEF ThreadTypes, Targets, BusyLabels
<1>4. Private = {b}
  BY <1>3, UserHolds
<1>5. Private' = {}
  <2>1. (Private = {target[User]} \ {NULL})'
    BY UserHolds, PTL
  <2> QED
    BY <1>3, <2>1
<1>6. pc[Main] # "mDone" /\ pc'[Main] # "mDone"
  BY <1>2, ThreadFacts, Facts DEF Shutdown, ThreadTypes
<1>7. audio_tracks[i] = NULL /\ \A j \in Track : j < i => audio_tracks[j] # NULL
  BY <1>1 DEF FirstEmpty, Empty, Track
<1> QED
  BY <1>1, <1>4, <1>5, <1>6, <1>7 DEF Table!Put

\* Freeing the buffer that could not be queued is the table's Discard.
LEMMA QueueDiscardDiscards ==
  ASSUME IInv, IInv', QueueDiscard
  PROVE  Table!Discard(target[User])
<1> DEFINE b == target[User]
<1>1. /\ pc[User] = "frGone" /\ pc' = [pc EXCEPT ![User] = "uIdle"]
      /\ target' = [target EXCEPT ![User] = NULL] /\ audio_tracks' = audio_tracks
  BY DEF QueueDiscard, FreeMemory, At, Goto, rcdVars, tableVars
<1>2. b \in Buf /\ b # NULL /\ target'[User] = NULL
  BY <1>1, NullFacts, ThreadFacts, Facts DEF ThreadTypes, Targets, BusyLabels, FreeLabels
<1>3. Private = {b}
  BY <1>2, UserHolds
<1>4. Private' = {}
  <2>1. (Private = {target[User]} \ {NULL})'
    BY UserHolds, PTL
  <2> QED
    BY <1>2, <2>1
<1>5. pc[Main] # "mDone" /\ pc'[Main] # "mDone"
  BY <1>1, ThreadFacts, Facts DEF Shutdown, ThreadTypes
<1> QED
  BY <1>1, <1>3, <1>4, <1>5 DEF Table!Discard

\* Freeing the track at the cursor is the table's Take.
LEMMA FreeTrackTakes ==
  ASSUME IInv, IInv', NEW t \in {Callback, Main}, FreeTrack(t)
  PROVE  cursor \in Track /\ Table!Take(cursor)
<1>1. /\ pc[t] = "frGone" /\ pc' = [pc EXCEPT ![t] = LoopLabel(t)]
      /\ target' = [target EXCEPT ![t] = NULL]
      /\ audio_tracks' = [audio_tracks EXCEPT ![cursor] = NULL]
  BY DEF FreeTrack, FreeMemory, At, Goto
<1>2. target[t] # NULL /\ t \in Thread
  BY <1>1, ThreadFacts, Facts DEF Targets, BusyLabels, FreeLabels
<1>3. cursor \in Track /\ audio_tracks[cursor] # NULL
  BY <1>2, TrackAssumption, Facts DEF LoopOwner, TableTypes, Track
<1>4. target'[User] = target[User]
  BY <1>1, <1>2, ThreadFacts, Facts DEF ThreadTypes
<1>5. Private = {target[User]} \ {NULL}
  BY UserHolds
<1>6. (Private = {target[User]} \ {NULL})'
  BY UserHolds, PTL
<1>7. pc[Main] # "mDone" /\ pc'[Main] # "mDone"
  <2>1. CASE t = Main
    BY <1>1, <2>1, ThreadFacts, Facts DEF ThreadTypes, LoopLabel
  <2>2. CASE t = Callback
    BY <1>1, <2>2, ThreadFacts, Facts DEF ThreadTypes, Shutdown
  <2> QED
    BY <2>1, <2>2
<1> QED
  BY <1>1, <1>3, <1>4, <1>5, <1>6, <1>7 DEF Table!Take

\* The end of the teardown closes an empty table.
LEMMA RcdFreeEndCloses ==
  ASSUME IInv, IInv', RcdFreeEnd
  PROVE  Table!Close
<1>1. /\ pc[Main] = "mScan" /\ pc' = [pc EXCEPT ![Main] = "mDone"] /\ cursor = N
      /\ audio_tracks' = audio_tracks /\ target' = target
  BY DEF RcdFreeEnd, At, Goto
<1>2. pc'[Main] = "mDone"
  BY <1>1, ThreadFacts, Facts DEF ThreadTypes
<1>3. target[User] = NULL
  BY <1>1, ThreadFacts, Facts DEF Shutdown, Targets, BusyLabels, LoadLabels, FreeLabels
<1>4. \A i \in Track : audio_tracks[i] = NULL
  BY <1>1, TrackAssumption, Facts DEF Sweep, Track
<1>5. Private = {}
  BY <1>3, UserHolds
<1>6. Private' = {}
  <2>1. (Private = {target[User]} \ {NULL})'
    BY UserHolds, PTL
  <2> QED
    BY <1>1, <1>3, <2>1
<1> QED
  BY <1>1, <1>2, <1>4, <1>5, <1>6 DEF Table!Close, Table!Queued

\* Every step of the program is a step of the abstract table or leaves it
\* unchanged.
LEMMA TableStep ==
  ASSUME IInv, IInv', Next
  PROVE  [Table!TableNext]_(Table!tableState)
<1>1. CASE \E b \in Buf, f \in File : QueueNew(b, f)
  BY <1>1, QueueNewAllocates DEF Table!TableNext
<1>2. CASE QueuePublish
  <2>1. target[User] \in Buf
    BY <1>2, NullFacts, ThreadFacts, Facts
       DEF QueuePublish, At, ThreadTypes, Targets, BusyLabels
  <2> QED
    BY <1>2, <2>1, QueuePublishPuts DEF Table!TableNext
<1>3. CASE QueueDiscard
  <2>1. target[User] \in Buf
    BY <1>3, NullFacts, ThreadFacts, Facts
       DEF QueueDiscard, At, ThreadTypes, Targets, BusyLabels, FreeLabels
  <2> QED
    BY <1>3, <2>1, QueueDiscardDiscards DEF Table!TableNext, Table!Discard
<1>4. CASE FreeTrack(Callback) \/ FreeTrack(Main)
  BY <1>4, FreeTrackTakes DEF Table!TableNext
<1>5. CASE RcdFreeEnd
  BY <1>5, RcdFreeEndCloses DEF Table!TableNext
<1>6. CASE \/ Load(User) /\ UNCHANGED rcdVars
           \/ \E l \in Loader : LoaderThread(l)
           \/ \E t \in {User, Callback, Main} : AudioBuffer_free(t) /\ UNCHANGED rcdVars
  <2>1. /\ UNCHANGED rcdVars
        /\ \/ \E t \in Loader \cup {User} : Load(t)
           \/ \E t \in {User, Callback, Main} : AudioBuffer_free(t)
    BY <1>6 DEF LoaderThread
  <2> QED
    BY <2>1, InsideStutters
<1>7. CASE CallbackEnter \/ CallbackLock \/ CallbackSkip \/ CallbackUnlock \/ CallbackReturn
  <2>1. /\ audio_tracks' = audio_tracks /\ target' = target
        /\ \E label : pc' = [pc EXCEPT ![Callback] = label]
    BY <1>7, Facts DEF CallbackEnter, CallbackLock, CallbackSkip, CallbackUnlock, CallbackReturn,
       At, Goto, rcdVars, tableVars, bufferVars, callVars, ThreadTypes
  <2>2. pc'[Main] = pc[Main]
    BY <2>1, ThreadFacts, Facts DEF ThreadTypes
  <2> QED
    BY <2>1, <2>2, TableStutters
<1>8. CASE \/ CallbackMix \/ CallbackRetire \/ CallbackDispatchFails
           \/ \E l \in Loader : CallbackDispatch(l)
  <2>1. /\ audio_tracks' = audio_tracks
        /\ target'[User] = target[User] /\ pc'[Main] = pc[Main]
    <3>1. CASE CallbackMix
      BY <3>1, ThreadFacts, Facts DEF CallbackMix, Goto, rcdVars, tableVars, ThreadTypes
    <3>2. CASE CallbackRetire \/ CallbackDispatchFails \/ \E l \in Loader : CallbackDispatch(l)
      BY <3>2, MixHasEnd, ThreadFacts, Facts DEF MixEnds, ThreadTypes
    <3> QED
      BY <1>8, <3>1, <3>2
  <2> QED
    BY <2>1, TableStutters
<1>9. CASE RunAudioEngine
  <2>1. /\ audio_tracks' = audio_tracks /\ target' = target
        /\ pc'[Main] = pc[Main]
    BY <1>9, ThreadFacts, Facts DEF RunAudioEngine, EngineStart, EngineInitFails,
       EngineSeesExit, EngineStop, Goto, rcdVars, tableVars, ThreadTypes
  <2> QED
    BY <2>1, TableStutters
<1>10. CASE TogglePause \/ Quit \/ QueueCheck \/ QueueTracksAllFull
  <2>1. /\ audio_tracks' = audio_tracks /\ target' = target
        /\ pc'[Main] = pc[Main]
    BY <1>10, ThreadFacts, Facts DEF TogglePause, Quit, QueueCheck, QueueTracksAllFull,
       Goto, rcdVars, tableVars, bufferVars, callVars, ThreadTypes
  <2> QED
    BY <2>1, TableStutters
<1>11. CASE MainJoin \/ MainReturn \/ RcdFreeLock \/ RcdFreeNext
  <2>1. audio_tracks' = audio_tracks /\ target'[User] = target[User]
    BY <1>11, ThreadFacts, Facts DEF MainJoin, MainReturn, RcdFreeLock, RcdFreeNext,
       rcdVars, tableVars, callVars, ThreadTypes
  <2>2. pc'[Main] = "mDone" <=> pc[Main] = "mDone"
    BY <1>11, ThreadFacts, Facts DEF MainJoin, MainReturn, RcdFreeLock, RcdFreeNext,
       At, Goto, callVars, ThreadTypes
  <2> QED
    BY <2>1, <2>2, TableStutters
<1>12. CASE Terminated
  <2>1. audio_tracks' = audio_tracks /\ target' = target /\ pc' = pc
    BY <1>12 DEF Terminated, vars, bufferVars, callVars, rcdVars, tableVars
  <2> QED
    BY <2>1, TableStutters
<1> QED
  BY <1>1, <1>2, <1>3, <1>4, <1>5, <1>6, <1>7, <1>8, <1>9, <1>10, <1>11, <1>12
     DEF Next, StreamAudio, UserCommand, UserInCall, QueueAudio, MainThread, RcdFreeStep

\* The table and its buffers, with all threads, locks and loaders, implement
\* the abstract table: no buffer is lost, freed twice or put in two tracks.
THEOREM Refinement == Spec => RefinesTrackTable
<1>1. IInv /\ IInv' /\ [Next]_vars => [Table!TableNext]_(Table!tableState)
  <2> SUFFICES ASSUME IInv, IInv', [Next]_vars
               PROVE  [Table!TableNext]_(Table!tableState)
    OBVIOUS
  <2>1. CASE UNCHANGED vars
    <3>1. audio_tracks' = audio_tracks /\ target' = target /\ pc' = pc
      BY <2>1 DEF vars, bufferVars, callVars, rcdVars, tableVars
    <3> QED
      BY <3>1, TableStutters
  <2> QED
    BY <2>1, TableStep
<1> QED
  BY <1>1, TableStart, Inductive, PTL DEF Spec, RefinesTrackTable, Table!TableSpec
=============================================================================
