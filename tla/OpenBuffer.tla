----------------------------- MODULE OpenBuffer -----------------------------
(***************************************************************************)
(* The opening of an audio file (ntrb_AudioBuffer_new, src/AudioBuffer.c,   *)
(* with ntrb_BufferSource_WAVfile_new and ntrb_BufferSource_FLACfile_new)   *)
(* and its closing (ntrb_AudioBuffer_free).  AudioBuffer takes the opening  *)
(* for one step that succeeds; here every call in it may fail, and the      *)
(* model keeps what is held at each step and what is released.              *)
(*                                                                         *)
(* The file is opened again and again, in memory as malloc hands it out:   *)
(* what the opening does not set is garbage.                               *)
(***************************************************************************)
EXTENDS WavHeader

CONSTANTS
    Paths,    \* the files: [filetype, layout (WAV), streaminfo (FLAC)]
    Boundary  \* max_header_boundary_bytes

Filetypes == {"wav", "flac", "mp3", "none"}  \* none: no extension in the name
Resources == {"rwlock", "filetype", "aud_file", "file_buffer", "decoder",
              "read_bytes", "datapoints"}
Garbage   == "garbage"
Anywhere  == [offset |-> -1, size |-> -1]  \* garbage, for a place in a file

ASSUME OpenBufferAssumption ==
    /\ \A path \in Paths :
         /\ path.filetype \in Filetypes
         /\ IsLayout(path.layout)
         /\ \A t \in Tags(path.layout) : t.format # Garbage
    /\ Boundary \in Nat

VARIABLES
    path,                 \* the file being opened
    pc,
    status,               \* what the last opening has returned
    held,                 \* the resources in hand
    misfreed,             \* something was released that was not held
    load_buffer_callback, \* the kind of source
    aud_header,           \* the format in it
    audiodata             \* [offset, size] of the WAV source

vars == <<path, pc, status, held, misfreed, load_buffer_callback, aud_header, audiodata>>
fields == <<load_buffer_callback, aud_header, audiodata>>

Goto(label) == pc' = label

\* Acquire r and go on, or fail with an error.
Acquire(r, label) == held' = held \cup {r} /\ Goto(label) /\ UNCHANGED <<status, misfreed>>

Release(rs) ==
    /\ held' = held \ rs
    /\ misfreed' = (misfreed \/ ~(rs \subseteq held))

\* A source returns an error, with these resources released.
SourceFails(err, rs) ==
    /\ status' = err
    /\ Release(rs)
    /\ Goto("sourceFailed")
-----------------------------------------------------------------------------
Init ==
    /\ path \in Paths
    /\ pc = "closed"
    /\ status = "none"
    /\ held = {}
    /\ misfreed = FALSE
    /\ load_buffer_callback = Garbage
    /\ aud_header = Garbage
    /\ audiodata = Anywhere

\* The ntrb_AudioBuffer of the opening before, and what it left, are gone.
New ==
    /\ pc = "closed"
    /\ \/ /\ status' = "opening" /\ held' = {"rwlock"} /\ Goto("filetype")
       \/ /\ status' = "RwlockInitError" /\ held' = {} /\ Goto("closed")
    /\ load_buffer_callback' = Garbage /\ aud_header' = Garbage /\ audiodata' = Anywhere
    /\ UNCHANGED <<path, misfreed>>

\* No filetype: the early return, which leaves the rwlock initialised.
NoFiletype ==
    /\ pc = "filetype"
    /\ path.filetype = "none"
    /\ status' = "InvalidAudFiletype"
    /\ Goto("closed")
    /\ UNCHANGED <<path, held, misfreed, fields>>

Filetype ==
    /\ pc = "filetype"
    /\ path.filetype # "none"
    /\ Acquire("filetype", IF path.filetype = "wav" THEN "fopen"
                           ELSE IF path.filetype = "flac" THEN "decoder" ELSE "unknown")
    /\ load_buffer_callback' =
         IF path.filetype \in {"wav", "flac"} THEN path.filetype ELSE load_buffer_callback
    /\ UNCHANGED <<path, aud_header, audiodata>>

\* ntrb_get_filetype copies the name into memory it has not checked.
FiletypeCrash ==
    /\ pc = "filetype"
    /\ path.filetype # "none"
    /\ Goto("crashed")
    /\ UNCHANGED <<path, status, held, misfreed, fields>>

UnknownFiletype ==
    /\ pc = "unknown"
    /\ SourceFails("InvalidAudFiletype", {})
    /\ UNCHANGED <<path, fields>>

-----------------------------------------------------------------------------
(* ntrb_BufferSource_WAVfile_new                                           *)

OpenFile ==
    /\ pc = "fopen"
    /\ \/ Acquire("aud_file", "read")
       \/ SourceFails("FileOpenError", {})
    /\ UNCHANGED <<path, fields>>

Elem == IF path.layout.length > Boundary THEN Boundary ELSE path.layout.length

\* ntrb_readsome_from_file_rb, which gives its memory back when it fails; an
\* empty file is an error too.
ReadHeader ==
    /\ pc = "read"
    /\ \/ Elem # 0 /\ Acquire("file_buffer", "parse")
       \/ SourceFails("FileReadError", {"aud_file"})
    /\ UNCHANGED <<path, fields>>

\* A mutation of Parsed: the reading that wants the whole file in the buffer.
Parsed_strict == FromWAVfile(path.layout, Elem)

Parsed == FromWAVfile_2(path.layout, Elem)

\* A mutation of HeaderBuffer: it is freed on success only.
HeaderBuffer_on_success == IF Parsed.status = "ok" THEN {"file_buffer"} ELSE {}

HeaderBuffer == {"file_buffer"}

\* The header is read, its buffer freed, and the file moved to the audio: with
\* no audio found the offset is what was in memory, and the seek may fail.
ParseHeader ==
    /\ pc = "parse"
    /\ aud_header' = IF Parsed.format = NoFormat THEN aud_header ELSE Parsed.format
    /\ audiodata' = IF Parsed.status = "ok"
                    THEN [offset |-> Parsed.offset, size |-> Parsed.size] ELSE audiodata
    /\ \/ /\ Parsed.status = "ok"
          /\ Release(HeaderBuffer) /\ Goto("bytes") /\ UNCHANGED status
       \/ /\ Parsed.status # "ok"
          /\ SourceFails("WAVheaderError", HeaderBuffer \cup {"aud_file"})
       \/ SourceFails("FileReadError", HeaderBuffer \cup {"aud_file"})
    /\ UNCHANGED <<path, load_buffer_callback>>

WAVbytes ==
    /\ pc = "bytes"
    /\ \/ Acquire("read_bytes", "datapoints")
       \/ SourceFails("AllocError", {"aud_file"})
    /\ UNCHANGED <<path, fields>>

-----------------------------------------------------------------------------
(* ntrb_BufferSource_FLACfile_new.  The decoder opens the file and closes  *)
(* it when it is finished or deleted.                                      *)

NewDecoder ==
    /\ pc = "decoder"
    /\ \/ Acquire("decoder", "init")
       \/ SourceFails("AllocError", {})
    /\ UNCHANGED <<path, fields>>

InitError == {"FLACcontainerError", "AllocError", "FileOpenError", "UnknownError"}

InitDecoder ==
    /\ pc = "init"
    /\ \/ Goto("metadata") /\ UNCHANGED <<status, held, misfreed>>
       \/ \E err \in InitError : SourceFails(err, {"decoder"})
    /\ UNCHANGED <<path, fields>>

\* The callback sets the header when the stream has a STREAMINFO block; a
\* stream without one leaves it as it was.  It may fail before it or after it.
ReadMetadata ==
    /\ pc = "metadata"
    /\ \/ /\ aud_header' = path.streaminfo
          /\ Goto("format") /\ UNCHANGED <<status, held, misfreed>>
       \/ /\ aud_header' \in {aud_header, path.streaminfo}
          /\ SourceFails("UnknownError", {"decoder"})
    /\ UNCHANGED <<path, load_buffer_callback, audiodata>>

\* A mutation of Unsupported: only the number of channels is looked at.
Unsupported_channels(format) == format = "surround"

\* Another format than int16, or more than two channels; memory that no file
\* has set may read as either.
Unsupported(format) == format # "int16"

CheckFormat ==
    /\ pc = "format"
    /\ \/ /\ Unsupported(aud_header)
          /\ SourceFails("InvalidAudFormat", {"decoder"})
       \/ /\ ~Unsupported(aud_header) \/ aud_header = Garbage
          /\ Goto("buffer") /\ UNCHANGED <<status, held, misfreed>>
    /\ UNCHANGED <<path, fields>>

FLACbytes ==
    /\ pc = "buffer"
    /\ \/ Acquire("read_bytes", "datapoints")
       \/ SourceFails("AllocError", {"decoder"})
    /\ UNCHANGED <<path, fields>>

-----------------------------------------------------------------------------
SourceFailed ==
    /\ pc = "sourceFailed"
    /\ Release({"rwlock", "filetype"})
    /\ Goto("closed")
    /\ UNCHANGED <<path, status, fields>>

\* A mutation of SourceResources: every source is taken for a WAV file.
SourceResources_wav == {"read_bytes", "aud_file"}

\* ntrb_AudioBuffer_free; datapoints that were not allocated are NULL.
SourceResources ==
    CASE load_buffer_callback = "wav"  -> {"read_bytes", "aud_file"}
      [] load_buffer_callback = "flac" -> {"read_bytes", "decoder"}
      [] OTHER -> {}

Freed == {"rwlock"} \cup SourceResources \cup (held \cap {"datapoints"})

Allocate ==
    /\ pc = "datapoints"
    /\ \/ /\ held' = (held \ {"filetype"}) \cup {"datapoints"}
          /\ misfreed' = (misfreed \/ "filetype" \notin held)
          /\ status' = "OK"
          /\ Goto("open")
       \/ /\ Release({"filetype"} \cup Freed)
          /\ status' = "AllocError"
          /\ Goto("closed")
    /\ UNCHANGED <<path, fields>>

Close ==
    /\ pc = "open"
    /\ Release(Freed)
    /\ Goto("closed")
    /\ UNCHANGED <<path, status, fields>>

Crashed == pc = "crashed" /\ UNCHANGED vars

Next ==
    \/ New \/ NoFiletype \/ Filetype \/ FiletypeCrash \/ UnknownFiletype
    \/ OpenFile \/ ReadHeader \/ ParseHeader \/ WAVbytes
    \/ NewDecoder \/ InitDecoder \/ ReadMetadata \/ CheckFormat \/ FLACbytes
    \/ SourceFailed \/ Allocate \/ Close \/ Crashed

Spec == Init /\ [][Next]_vars

-----------------------------------------------------------------------------
(* Properties                                                              *)

\* Whichever call fails, the error paths and ntrb_AudioBuffer_free release
\* nothing that is not held and nothing twice (AudioBuffer.c:59-63, 71-74,
\* BufferSource_WAVfile.c:35-57, BufferSource_FLACfile.c:82-123).
FreesWhatItHolds == ~misfreed

\* An opening that returns an error, and a closing, leave nothing behind; one
\* that returns OK leaves what the closing releases.  (The exception is a name
\* without an extension: the rwlock stays initialised, AudioBuffer.c:40-41.)
HoldsOnlyWhenOpen ==
    /\ pc = "closed" =>
         held = IF status = "InvalidAudFiletype" /\ path.filetype = "none" THEN {"rwlock"} ELSE {}
    /\ pc = "open" =>
         held = {"rwlock", "datapoints", "read_bytes",
                 IF path.filetype = "wav" THEN "aud_file" ELSE "decoder"}

\* A FLAC stream is open only in the format its source can read, unless it
\* began without a STREAMINFO block and the format is what was in memory; the
\* header and the place of the audio of an open WAV file are its own
\* (BufferSource_FLACfile.c:108, BufferSource_WAVfile.c:73-79).
KnowsItsFormat ==
    pc = "open" =>
      \/ path.filetype = "flac" /\ path.streaminfo = Garbage
      \/ path.filetype = "flac" /\ aud_header = path.streaminfo /\ aud_header = "int16"
      \/ path.filetype = "wav" /\ aud_header # Garbage /\ audiodata # Anywhere

\* A complete WAV file is opened with the format, the place and the size of the
\* audio that a walk over its chunks finds, unless the letters of a tag mislead
\* the search: those before the audio are taken for a chunk (wav_wrapper.c:39-43,
\* 51-58), and it is opened there, not where the audio begins as
\* BufferSource_WAVfile.h:85-86 says.  Misled or not, none of the audio is skipped,
\* and the file is refused for its header, with WAVheaderError where
\* BufferSource_WAVfile.h:88 says FileReadError, only when its audio starts too far
\* behind for the part that is read (BufferSource_WAVfile.c:64-82, wav_wrapper.c:112-150).
ReadsHeader ==
    (path.filetype = "wav" /\ WellFormed(path.layout)) =>
      LET walk == Walk(path.layout)
      IN  /\ pc = "open" =>
               /\ audiodata.offset <= walk.offset
               /\ ~Misled(path.layout) =>
                    /\ aud_header = walk.format
                    /\ audiodata = [offset |-> walk.offset, size |-> walk.size]
          /\ status = "WAVheaderError" => walk.offset >= Boundary

\* The strict reading of a whole file in memory accepts every complete file that
\* does not mislead the search.  A file that it accepts, complete or not, is
\* opened with what it has found, although the opening looks only at the first
\* Boundary bytes, or is refused because its audio starts behind them
\* (wav_wrapper.c:63-109, 112-150).
StrictAgrees ==
    path.filetype = "wav" =>
      LET whole == FromWAVfile(path.layout, path.layout.length)
      IN  /\ WellFormed(path.layout) /\ ~Misled(path.layout) => whole = Walk(path.layout)
          /\ whole.status = "ok" =>
               /\ pc = "open" => /\ aud_header = whole.format
                                 /\ audiodata = [offset |-> whole.offset, size |-> whole.size]
               /\ status = "WAVheaderError" => whole.offset >= Boundary

=============================================================================
