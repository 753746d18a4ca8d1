----------------------------- MODULE TrackTable -----------------------------
(***************************************************************************)
(* What the audio tracks promise, with no threads and no locks: a buffer   *)
(* is allocated, put into the first empty track or discarded, and a track  *)
(* that has been put is taken out once, which frees its buffer.  No buffer *)
(* is lost, freed twice or in two tracks, and closing the table leaves     *)
(* nothing allocated.                                                      *)
(***************************************************************************)
EXTENDS Integers

CONSTANTS
    Buf,    \* the buffers
    Track,  \* the indices of the tracks
    NULL    \* the content of an empty track

VARIABLES
    tracks,   \* Track -> Buf or NULL
    private,  \* the buffers allocated and not in a track
    closed

tableState == <<tracks, private, closed>>

Queued == {tracks[i] : i \in Track} \ {NULL}

TableInit ==
    /\ tracks = [i \in Track |-> NULL]
    /\ private = {}
    /\ closed = FALSE

Allocate(b) ==
    /\ ~closed
    /\ b \notin private \cup Queued
    /\ private' = private \cup {b}
    /\ UNCHANGED <<tracks, closed>>

Discard(b) ==
    /\ ~closed
    /\ b \in private
    /\ private' = private \ {b}
    /\ UNCHANGED <<tracks, closed>>

Put(b, i) ==
    /\ ~closed
    /\ b \in private
    /\ tracks[i] = NULL
    /\ \A j \in Track : j < i => tracks[j] # NULL
    /\ tracks' = [tracks EXCEPT ![i] = b]
    /\ private' = private \ {b}
    /\ UNCHANGED closed

Take(i) ==
    /\ ~closed
    /\ tracks[i] # NULL
    /\ tracks' = [tracks EXCEPT ![i] = NULL]
    /\ UNCHANGED <<private, closed>>

Close ==
    /\ private = {} /\ Queued = {}
    /\ closed' = TRUE
    /\ UNCHANGED <<tracks, private>>

TableNext ==
    \/ \E b \in Buf : Allocate(b) \/ Discard(b)
    \/ \E b \in Buf, i \in Track : Put(b, i)
    \/ \E i \in Track : Take(i)
    \/ Close

TableSpec == TableInit /\ [][TableNext]_tableState
=============================================================================
