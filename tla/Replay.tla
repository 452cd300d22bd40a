-------------------------------- MODULE Replay --------------------------------
(***************************************************************************)
(* src/services/replay.cpp and its use in src/main.cpp: --record keeps the *)
(* frame arguments of a session in memory and writes them at the end,      *)
(* --replay feeds them to the plugin of another session in their place.    *)
(* One file is recorded to and replayed from, session after session, and   *)
(* a session may end at any time without having written it whole.          *)
(*                                                                         *)
(* Files are sequences of 32-bit words: a magic word, then for each frame  *)
(* Head words (time, size, dt), the length of its input, and the input.    *)
(***************************************************************************)
EXTENDS Naturals, Sequences

CONSTANTS
  NoFile,
  Inputs,     \* what can distinguish one frame from another
  HeadWords,  \* words before the length: 5 in the code
  InputWords, \* words of sizeof(GPI_InputV1)
  MaxFrames   \* bound on the frames of a session

ASSUME ReplayAssumption ==
  HeadWords \in Nat /\ InputWords \in Nat /\ MaxFrames \in Nat

Magic == "PRLY"

VARIABLES
  phase,      \* "off", "running", "writing": where the session is
  recording,  \* recorder.active()
  rec_buf,    \* Recorder::buf_
  replaying,  \* replayer.active()
  rep_buf,    \* Replayer::buf_
  off,        \* Replayer::off_, in words
  file,       \* the words of the file
  fed,        \* history: what the plugin's gpi_update got in this session,
              \* and whether the replayer was the source
  live,       \* history: the frames the user gave in this session
  taped,      \* history: the frames of the session whose recording is in file
  whole       \* history: that recording was written to its end

sessionVars == <<recording, rec_buf, replaying, rep_buf, off, fed, live>>
vars == <<phase, sessionVars, file, taped, whole>>

\* Recorder::add appends one of these.
FrameWords == HeadWords + 1 + InputWords

Frame(i) == [w \in 1..FrameWords |-> IF w = HeadWords + 1 THEN InputWords ELSE <<i, w>>]

Init ==
  /\ phase = "off"
  /\ recording = FALSE
  /\ rec_buf = <<>>
  /\ replaying = FALSE
  /\ rep_buf = <<>>
  /\ off = 0
  /\ file = NoFile
  /\ fed = <<>>
  /\ live = <<>>
  /\ taped = <<>>
  /\ whole = TRUE

\* Recorder::start clears the buffer and leaves the file alone; Replayer::load
\* refuses a missing file and one without the magic word.
Start(record, replay) ==
  /\ phase = "off"
  /\ phase' = "running"
  /\ recording' = record
  /\ rec_buf' = IF record THEN <<Magic>> ELSE <<>>
  /\ replaying' = (replay /\ file # NoFile /\ file # <<>>)
  /\ rep_buf' = IF replaying' THEN file ELSE <<>>
  /\ off' = IF replaying' THEN 1 ELSE 0
  /\ fed' = <<>>
  /\ live' = <<>>
  /\ UNCHANGED <<file, taped, whole>>

\* Replayer::next: whether another frame can be read, and its words.
HasHead == off + HeadWords <= Len(rep_buf)
HasLength == off + HeadWords + 1 <= Len(rep_buf)
NextLength == HeadWords + 1 + rep_buf[off + HeadWords + 1]

\* Mutant: the length of the input is not held against the end of the buffer.
HasNextUnchecked == replaying /\ HasHead /\ HasLength

\* Mutant: the last frame of a file is taken for one that was cut off.
HasNextShort ==
  /\ replaying
  /\ HasHead
  /\ HasLength
  /\ off + NextLength < Len(rep_buf)

HasNext ==
  /\ replaying
  /\ HasHead
  /\ HasLength
  /\ off + NextLength <= Len(rep_buf)

\* What memory reads as.
Word(n) == IF n <= Len(rep_buf) THEN rep_buf[n] ELSE <<"past the end", n>>

FromReplayer ==
  [from |-> "replayer", words |-> [n \in 1..NextLength |-> Word(off + n)]]
FromUser(i) == [from |-> "live", words |-> Frame(i)]

\* Mutant: the offset moves a word too far.
ReplayFrameSkips ==
  /\ phase = "running"
  /\ Len(fed) < MaxFrames
  /\ HasNext
  /\ fed' = Append(fed, FromReplayer)
  /\ off' = off + NextLength + 1
  /\ UNCHANGED <<phase, recording, rec_buf, replaying, rep_buf, file, live, taped, whole>>

\* Replay mode: the frame's arguments are the recorded ones, and they are not
\* recorded again.  The replayer gives up its frame whether or not a plugin is
\* loaded to get it: fed is what the frame loop has at hand for gpi_update.
ReplayFrame ==
  /\ phase = "running"
  /\ Len(fed) < MaxFrames
  /\ HasNext
  /\ fed' = Append(fed, FromReplayer)
  /\ off' = off + NextLength
  /\ UNCHANGED <<phase, recording, rec_buf, replaying, rep_buf, file, live, taped, whole>>

\* Mutant: a session that replays does not record.
LiveFrameUnrecorded(i) ==
  /\ phase = "running"
  /\ Len(fed) < MaxFrames
  /\ ~HasNext
  /\ fed' = Append(fed, FromUser(i))
  /\ live' = Append(live, Frame(i))
  /\ rec_buf' = IF recording /\ ~replaying THEN rec_buf \o Frame(i) ELSE rec_buf
  /\ UNCHANGED <<phase, recording, replaying, rep_buf, off, file, taped, whole>>

\* Live mode, also after the last frame of a replay.
LiveFrame(i) ==
  /\ phase = "running"
  /\ Len(fed) < MaxFrames
  /\ ~HasNext
  /\ fed' = Append(fed, FromUser(i))
  /\ live' = Append(live, Frame(i))
  /\ rec_buf' = IF recording THEN rec_buf \o Frame(i) ELSE rec_buf
  /\ UNCHANGED <<phase, recording, replaying, rep_buf, off, file, taped, whole>>

\* Recorder::stop at the normal end: the file is opened and truncated, then
\* written.  Without --record the session is over.  A file that cannot be opened
\* stays as it is, which is what Abandon does.
Stop ==
  /\ phase = "running"
  /\ IF recording
       THEN /\ phase' = "writing"
            /\ file' = <<>>
            /\ taped' = live
            /\ whole' = FALSE
       ELSE /\ phase' = "off"
            /\ UNCHANGED <<file, taped, whole>>
  /\ UNCHANGED sessionVars

Written ==
  /\ phase = "writing"
  /\ file' = rec_buf
  /\ whole' = TRUE
  /\ phase' = "off"
  /\ UNCHANGED <<sessionVars, taped>>

\* The process dies while it writes, or the disk fills up, which it does not
\* notice: what was written by then stays.
CutOff ==
  /\ phase = "writing"
  /\ \E n \in 0..Len(rec_buf) : file' = SubSeq(rec_buf, 1, n)
  /\ phase' = "off"
  /\ UNCHANGED <<sessionVars, taped, whole>>

\* A crash in the frame loop, the end of a run with --frames, which returns from
\* main() without Recorder::stop, or a stop() whose file cannot be opened.
Abandon ==
  /\ phase = "running"
  /\ phase' = "off"
  /\ UNCHANGED <<sessionVars, file, taped, whole>>

Next ==
  \/ \E record, replay \in BOOLEAN : Start(record, replay)
  \/ ReplayFrame
  \/ \E i \in Inputs : LiveFrame(i)
  \/ Stop \/ Written \/ CutOff \/ Abandon

Spec == Init /\ [][Next]_vars
-----------------------------------------------------------------------------
(* Correctness. *)

TypeOK ==
  /\ phase \in {"off", "running", "writing"}
  /\ recording \in BOOLEAN
  /\ replaying \in BOOLEAN
  /\ off \in Nat
  /\ off <= Len(rep_buf)
  /\ whole \in BOOLEAN

\* Whatever became of the file, a replay gives the plugin the frames the
\* recording session gave its own, from the first on, each whole and in order,
\* and never one that was cut off.
ReplayIsFaithful ==
  phase = "running" =>
    \A n \in DOMAIN fed :
      fed[n].from = "replayer" => n \in DOMAIN taped /\ fed[n].words = taped[n]

\* The replay of a recording that was written to its end goes live only after
\* its last frame, and then stays live.
ReplayIsComplete ==
  phase = "running" /\ replaying =>
    \A n \in DOMAIN fed :
      fed[n].from = "live" =>
        /\ whole => n > Len(taped)
        /\ \A m \in n..Len(fed) : fed[m].from = "live"

\* A buffer that holds these frames, one after the other, and nothing else.
HoldsFrames(buf, frames) ==
  /\ Len(buf) = 1 + Len(frames) * FrameWords
  /\ buf[1] = Magic
  /\ \A n \in DOMAIN frames : \A w \in 1..FrameWords :
       buf[1 + (n - 1) * FrameWords + w] = frames[n][w]

\* A recording holds exactly the live frames, with those that follow a replay
\* in the same session.
RecordsLiveFrames == recording => HoldsFrames(rec_buf, live)
=============================================================================
