----------------------------- MODULE CommandLine -----------------------------
(***************************************************************************)
(* The loop of the user's thread (user_input_loop, src/example/main.c): a  *)
(* line is read, trimmed, sliced into words and obeyed, each step with     *)
(* memory of its own that may not be had.  What the commands do to the     *)
(* engine is in AudioEngine.                                               *)
(***************************************************************************)
EXTENDS SlicedStrings

CONSTANTS
    Char,          \* the characters that can be typed
    P, L, Q,       \* those of the commands
    MaxInput,      \* bound: characters typed
    NULL

\* The line fits a string of SlicedStrings: 128 characters of 256.
ASSUME CommandLineAssumption ==
    /\ {SEP, NL, P, L, Q} \subseteq Char /\ P # L /\ P # Q /\ L # Q
    /\ NULL \notin Seq(Char)
    /\ MaxLine <= SliceMax /\ MaxInput \in Nat

VARIABLES
    stdin,      \* what is left to read
    text,       \* the string the loop works on
    slices,     \* sliced_strs
    held,       \* what is allocated
    pc,
    rcd,        \* in_pause_state, and the file last passed to queue_audio
    line,       \* the line this round of the loop read (not a variable of the code)
    misuse      \* "free": of what was not allocated; "write": outside an array

vars == <<stdin, text, slices, held, pc, rcd, line, misuse>>

Init ==
    /\ stdin \in BoundedSeq(Char, MaxInput)
    /\ text = <<>> /\ slices = <<>> /\ held = {} /\ line = <<>>
    /\ pc = "read"
    /\ rcd = [in_pause_state |-> TRUE, queued |-> NULL]
    /\ misuse = {}

\* Memory alloc is had and memory free given back.
Memory(alloc, free) ==
    /\ held' = (held \cup alloc) \ free
    /\ misuse' = IF free \subseteq held \cup alloc THEN misuse ELSE misuse \cup {"free"}

\* The loop starts over; what is left of the round is no longer reachable.
Continue ==
    /\ pc' = "read"
    /\ text' = <<>> /\ slices' = <<>> /\ line' = <<>>

\* ntrb_getsn with a whole piece of the input.
ReadLine ==
    /\ pc = "read" /\ stdin # <<>>
    /\ LET n == PieceLen(stdin) IN
         /\ stdin' = SubSeq(stdin, n + 1, Len(stdin))
         /\ text' = Chomped(SubSeq(stdin, 1, n))
    /\ line' = text'
    /\ Memory({"input"}, {})
    /\ pc' = "trim"
    /\ UNCHANGED <<slices, rcd>>

\* It fails: no memory for the line, an error of the stream, or its end.  The
\* memory for the line is given back and the loop tries again.
ReadLineFails == pc = "read" /\ UNCHANGED vars

\* A realloc to a smaller size that fails, in ntrb_getsn or in slice_sep: its
\* NULL is used all the same.
Crash ==
    /\ pc' = "crashed"
    /\ UNCHANGED <<stdin, text, slices, held, rcd, line, misuse>>

ReadLineCrashes == pc = "read" /\ stdin # <<>> /\ Crash

TrimLine ==
    /\ pc = "trim"
    /\ text' = TrimWhitespace(text)
    /\ Memory({"trimmed"}, {"input"})
    /\ pc' = "slice"
    /\ UNCHANGED <<stdin, slices, rcd, line>>

TrimLineFails ==
    /\ pc = "trim"
    /\ Memory({}, {"input"})
    /\ Continue
    /\ UNCHANGED <<stdin, rcd>>

\* ntrb_SlicedStrings_slice copies the line without its duplicate separators.
CopyLine ==
    /\ pc = "slice"
    /\ text' = TrimDuplicates(text)
    /\ Memory({"copy"}, {})
    /\ pc' = "cut"
    /\ UNCHANGED <<stdin, slices, rcd, line>>

CopyLineFails ==
    /\ pc = "slice"
    /\ Memory({}, {"trimmed"})
    /\ Continue
    /\ UNCHANGED <<stdin, rcd>>

\* It cuts the copy at its separators and frees it, and the loop the line.
SliceLine ==
    /\ pc = "cut"
    /\ slices' = Slices(text)
    /\ held' = (held \cup {"slices"}) \ {"copy", "trimmed"}
    /\ misuse' = misuse \cup (IF {"copy", "trimmed"} \subseteq held THEN {} ELSE {"free"})
                        \cup (IF SliceFits(text) THEN {} ELSE {"write"})
    /\ pc' = "obey"
    /\ UNCHANGED <<stdin, text, rcd, line>>

\* A mutation of SliceFails: the trimmed line is freed only when slicing worked.
SliceFails_keeps_trimmed ==
    /\ pc = "cut" /\ text = <<>>
    /\ Memory({}, {"copy"})
    /\ Continue
    /\ UNCHANGED <<stdin, rcd>>

\* No memory for the strings, which goes unnoticed until the end when there is
\* nothing to write to them.
SliceFails ==
    /\ pc = "cut" /\ text = <<>>
    /\ Memory({}, {"copy", "trimmed"})
    /\ Continue
    /\ UNCHANGED <<stdin, rcd>>

\* No memory for the strings, or none to shorten one.
SliceCrashes == pc = "cut" /\ Crash

-----------------------------------------------------------------------------
(* The commands.  There is always one string, if need be an empty one.     *)

EndRound ==
    /\ Memory({}, {"slices"})
    /\ Continue
    /\ UNCHANGED stdin

Command(c) == pc = "obey" /\ slices[1] = <<c>>

ObeyPause ==
    /\ Command(P)
    /\ rcd' = [rcd EXCEPT !.in_pause_state = ~@]
    /\ EndRound

\* The name of the file is joined,
JoinName ==
    /\ Command(L) /\ Len(slices) >= 2
    /\ text' = ConcatStrs(slices, 1, Len(slices))
    /\ Memory({"name"}, {})
    /\ pc' = "queue"
    /\ UNCHANGED <<stdin, slices, rcd, line>>

\* passed to queue_audio and freed.
LoadAudio ==
    /\ pc = "queue"
    /\ rcd' = [rcd EXCEPT !.queued = text]
    /\ Memory({}, {"name", "slices"})
    /\ Continue
    /\ UNCHANGED stdin

\* No name was typed, or there is no memory to join it.
LoadFails == Command(L) /\ EndRound /\ UNCHANGED rcd

ObeyQuit ==
    /\ Command(Q)
    /\ Memory({}, {"slices"})
    /\ pc' = "exited"
    /\ UNCHANGED <<stdin, text, slices, rcd, line>>

InvalidCommand ==
    /\ pc = "obey" /\ slices[1] \notin {<<P>>, <<L>>, <<Q>>}
    /\ EndRound
    /\ UNCHANGED rcd

Ended == pc \in {"exited", "crashed"} /\ UNCHANGED vars

Next ==
    \/ ReadLine \/ ReadLineFails \/ ReadLineCrashes
    \/ TrimLine \/ TrimLineFails
    \/ CopyLine \/ CopyLineFails \/ SliceLine \/ SliceFails \/ SliceCrashes
    \/ ObeyPause \/ JoinName \/ LoadAudio \/ LoadFails \/ ObeyQuit \/ InvalidCommand
    \/ Ended

Spec == Init /\ [][Next]_vars

-----------------------------------------------------------------------------
(* Properties                                                              *)

\* Wherever an allocation fails, nothing is freed twice or without having been
\* allocated, and no round of the loop, nor the quit, leaves memory behind.
FreesEverythingOnce ==
    /\ "free" \notin misuse
    /\ pc \in {"read", "exited"} => held = {}

\* No character is written outside the strings that were allocated for it: what
\* ntrb_getsn returns is no longer than a string of SlicedStrings.
SlicesInBounds == "write" \notin misuse

\* A line that is shorter than the buffer is read whole and alone: the loop is at
\* the start of the next line after it.
ReadsWholeLines ==
    [][LET end == SelectInSeq(stdin, IsNL) IN
         pc = "read" /\ pc' = "trim" /\ end \in 1 .. MaxLine =>
           /\ line' = SubSeq(stdin, 1, end - 1)
           /\ stdin' = SubSeq(stdin, end + 1, Len(stdin))]_vars

\* What is done is what the words of the line say: the state of pause changes
\* on p alone, the loop ends on q alone, and the file that is queued on l is the
\* one named, with one space where the user typed one or more.
ObeysTheLine ==
    [][LET words == Words(line) IN
         /\ rcd'.in_pause_state # rcd.in_pause_state <=> pc = "obey" /\ words # <<>> /\ words[1] = <<P>>
         /\ pc' = "exited" /\ pc # "exited" <=> pc = "obey" /\ words # <<>> /\ words[1] = <<Q>>
         /\ rcd'.queued # rcd.queued =>
              /\ pc = "queue" /\ words[1] = <<L>>
              /\ Words(rcd'.queued) = Tail(words)
              /\ Len(rcd'.queued) = Len(FlattenSeq(Tail(words))) + Len(words) - 2]_vars
=============================================================================
