------------------------------ MODULE AudioOut ------------------------------
(***************************************************************************)
(* The I2S audio output: src/src/system/AudioOutEsp32.cpp together with    *)
(* the two dispatcher cases that command it.                               *)
(*                                                                         *)
(* Two threads.  The main loop takes commands (a station, a stored MP3, a  *)
(* stop) and drains what the task parked for it (tick).  The audio task    *)
(* plays one source at a time: an MP3 interrupts the stream, and the       *)
(* stream reconnects once it is over.  They share atomics and the strings  *)
(* under lock_.  A critical section is one step; LockHeld says when a      *)
(* try-lock of the main loop can find it open.                             *)
(*                                                                         *)
(* Data is abstract: a title or an error is the URL of the stream it came  *)
(* from, an MP3 is its name (the path is a function of it), a delay is a   *)
(* step that may happen at any time.                                       *)
(***************************************************************************)
EXTENDS Naturals

CONSTANTS
  Stations,   \* URLs a user can tune to
  Urls,       \* those, and the URLs playlists point at
  Playlists,  \* the URLs that answer with a playlist content type
  Resolve,    \* what parsePlaylist() makes of a playlist body
  Mp3s,       \* names of the stored MP3 files
  MaxPlays,   \* bound on playStream() calls
  MaxMp3,     \* bound on playMp3() calls
  MaxRequests, \* bound on both together
  TaskMayFail,\* whether creating the audio task can fail
  None        \* the empty string

ASSUME AudioAssumption ==
  /\ Stations \subseteq Urls
  /\ Playlists \subseteq Urls
  /\ None \notin Urls \cup Mp3s
  /\ Resolve \in [Playlists -> Urls \cup {None}]
  /\ MaxPlays \in Nat
  /\ MaxMp3 \in Nat
  /\ MaxRequests \in Nat
  /\ TaskMayFail \in BOOLEAN

VARIABLES
  pendingUrl, urlSeq, stopRequested,     \* the station asked for
  playing,                               \* playing_
  pendingMp3, mp3Seq, mp3Stop,           \* the MP3 asked for
  mp3Playing,                            \* mp3Playing_
  pendingTitle, pendingError,            \* parked for the main loop
  pendingStarted, pendingEnded,
  unseen,                                \* handoffSeq_ # seenSeq_
  tuning,                                \* main: playStream() past its lock
  radio, mp3Shown,                       \* main: the RuntimeState fields
  pc, url, seq, mp3Seen, path, startSeq, \* the audio task and its locals
  pub,                                   \* the publish call it is in
  i2s                                    \* i2sStarted_

request == <<pendingUrl, urlSeq, stopRequested>>
mp3Request == <<pendingMp3, mp3Seq, mp3Stop>>
handoff == <<pendingTitle, pendingError, pendingStarted, pendingEnded, unseen>>
main == <<tuning, radio, mp3Shown>>
task == <<pc, url, seq, mp3Seen, path, startSeq, pub, i2s>>
vars == <<request, playing, mp3Request, mp3Playing, handoff, main, task>>

Labels == {"none", "top", "decide", "connect", "body", "save", "open",
           "stream", "pass", "reject", "leave", "backoff", "file",
           "fileStart", "fileLoop", "publish", "bump"}

\* What a publish call parks, and where the task goes on after it.
Publication ==
  [kind: {"title", "error", "started", "ended"},
   val: Urls \cup Mp3s \cup {None}, then: Labels]

NoPub == [kind |-> "title", val |-> None, then |-> "top"]

Radio == [station: Stations \cup {None}, title: Urls \cup {None},
          error: Urls \cup {None}, playing: BOOLEAN]

Init ==
  /\ pendingUrl = None /\ urlSeq = 0 /\ stopRequested = FALSE
  /\ playing = FALSE
  /\ pendingMp3 = None /\ mp3Seq = 0 /\ mp3Stop = FALSE
  /\ mp3Playing = FALSE
  /\ pendingTitle = None /\ pendingError = None
  /\ pendingStarted = None /\ pendingEnded = FALSE /\ unseen = FALSE
  /\ tuning = None
  /\ radio = [station |-> None, title |-> None, error |-> None, playing |-> FALSE]
  /\ mp3Shown = None
  /\ pc = "none" /\ url = None /\ seq = 0
  /\ mp3Seen = 0 /\ path = None /\ startSeq = 0
  /\ pub = NoPub
  /\ i2s = FALSE

-----------------------------------------------------------------------------
(* The main loop *)

\* The lock_ sections of the task are single steps; a try-lock can meet one.
LockHeld == pc \in {"top", "save", "publish"}

\* ensureTask(): creates the task once, and creating it can fail.
EnsureTask(ok) ==
  /\ ok \/ (TaskMayFail /\ pc = "none")
  /\ pc' = IF ok /\ pc = "none" THEN "top" ELSE pc
  /\ UNCHANGED <<url, seq, mp3Seen, path, startSeq, pub, i2s>>

\* playStream() up to the release of the lock.
PlayStream(u) ==
  /\ tuning = None
  /\ urlSeq < MaxPlays /\ urlSeq + mp3Seq < MaxRequests
  /\ pendingUrl' = u
  /\ pendingError' = None
  /\ urlSeq' = urlSeq + 1
  /\ tuning' = u
  /\ UNCHANGED <<stopRequested, playing, mp3Request, mp3Playing, pendingTitle,
                 pendingStarted, pendingEnded, unseen, radio, mp3Shown, task>>

\* The rest of playStream(), and what the dispatcher records on success.
TuneDone(ok) ==
  /\ tuning # None
  /\ stopRequested' = FALSE
  /\ EnsureTask(ok)
  /\ radio' = IF ok THEN [station |-> tuning, title |-> None, error |-> None,
                          playing |-> TRUE]
                    ELSE radio
  /\ tuning' = None
  /\ UNCHANGED <<pendingUrl, urlSeq, playing, mp3Request, mp3Playing, handoff,
                 mp3Shown>>

\* playMp3()
PlayMp3(m) ==
  /\ tuning = None
  /\ mp3Seq < MaxMp3 /\ urlSeq + mp3Seq < MaxRequests
  /\ pendingMp3' = m
  /\ mp3Stop' = FALSE
  /\ mp3Seq' = mp3Seq + 1
  /\ \E ok \in BOOLEAN : EnsureTask(ok)
  /\ UNCHANGED <<request, playing, mp3Playing, handoff, main>>

\* StopAudio: the one-shots, the stream, or both.
StopAudio(sounds, stream) ==
  /\ tuning = None
  /\ mp3Stop' = (mp3Stop \/ sounds)
  /\ stopRequested' = (stopRequested \/ stream)
  /\ playing' = (playing /\ ~stream)
  /\ radio' = IF stream THEN [radio EXCEPT !.playing = FALSE, !.title = None]
                        ELSE radio
  /\ UNCHANGED <<pendingUrl, urlSeq, pendingMp3, mp3Seq, mp3Playing, handoff,
                 tuning, mp3Shown, task>>

\* The MP3 line of the status after draining what is parked.
Drained(started, ended, shown) ==
  IF ended THEN None ELSE IF started # None THEN started ELSE shown

\* tick(): drains the hand-off, or rewinds when the lock is busy.
TickDrain ==
  /\ ~LockHeld
  /\ unseen' = FALSE
  /\ pendingTitle' = None /\ pendingError' = None
  /\ pendingStarted' = None /\ pendingEnded' = FALSE
  /\ mp3Shown' = Drained(pendingStarted, pendingEnded, mp3Shown)
  /\ radio' = IF pendingError # None
                THEN [radio EXCEPT !.error = pendingError, !.playing = FALSE]
              ELSE IF pendingTitle # None
                THEN [radio EXCEPT !.title = pendingTitle, !.playing = playing]
              ELSE radio
  /\ UNCHANGED <<request, playing, mp3Request, mp3Playing, tuning, task>>

\* Mutant of TickBusy: no rewind, the report it could not fetch counts as seen.
TickBusyNoRewind ==
  /\ LockHeld
  /\ unseen' = FALSE
  /\ UNCHANGED <<request, playing, mp3Request, mp3Playing, pendingTitle,
                 pendingError, pendingStarted, pendingEnded, main, task>>

TickBusy == LockHeld /\ UNCHANGED vars

Tick == tuning = None /\ unseen /\ (TickDrain \/ TickBusy)

-----------------------------------------------------------------------------
(* The audio task *)

Goto(label) == pc' = label
Publish(kind, val, then) ==
  /\ pub' = [kind |-> kind, val |-> val, then |-> then]
  /\ Goto("publish")

\* Mutants of PublishWrite: a start leaves an older end in place; an error is
\* parked in the slot of the started MP3.
PublishWriteKeepsEnded ==
  /\ pc = "publish"
  /\ pendingTitle' = IF pub.kind = "title" THEN pub.val ELSE pendingTitle
  /\ pendingError' = IF pub.kind = "error" THEN pub.val ELSE pendingError
  /\ pendingStarted' = IF pub.kind = "started" THEN pub.val ELSE pendingStarted
  /\ pendingEnded' = (pub.kind = "ended" \/ pendingEnded)
  /\ Goto("bump")
  /\ UNCHANGED <<request, playing, mp3Request, mp3Playing, unseen, main, url, seq,
                 mp3Seen, path, startSeq, pub, i2s>>

\* Under the lock: the value is parked.
PublishWrite ==
  /\ pc = "publish"
  /\ pendingTitle' = IF pub.kind = "title" THEN pub.val ELSE pendingTitle
  /\ pendingError' = IF pub.kind = "error" THEN pub.val ELSE pendingError
  /\ pendingStarted' = IF pub.kind = "started" THEN pub.val ELSE pendingStarted
  /\ pendingEnded' = IF pub.kind = "started" THEN FALSE
                     ELSE (pub.kind = "ended" \/ pendingEnded)
  /\ Goto("bump")
  /\ UNCHANGED <<request, playing, mp3Request, mp3Playing, unseen, main, url, seq,
                 mp3Seen, path, startSeq, pub, i2s>>

\* After it: handoffSeq_.fetch_add(1).
PublishBump ==
  /\ pc = "bump"
  /\ unseen' = TRUE
  /\ Goto(pub.then)
  /\ pub' = NoPub
  /\ UNCHANGED <<request, playing, mp3Request, mp3Playing, pendingTitle,
                 pendingError, pendingStarted, pendingEnded, main, url, seq,
                 mp3Seen, path, startSeq, i2s>>

\* Mutant of PickMp3: the request is not marked as seen.
PickMp3Unmarked ==
  /\ pc = "top" /\ mp3Seq # mp3Seen
  /\ path' = pendingMp3
  /\ Goto("file")
  /\ UNCHANGED <<request, playing, mp3Request, mp3Playing, handoff, main, url, seq,
                 mp3Seen, startSeq, pub, i2s>>

\* The head of the loop: a new MP3 goes first, otherwise the URL is read.
PickMp3 ==
  /\ pc = "top" /\ mp3Seq # mp3Seen
  /\ path' = pendingMp3
  /\ mp3Seen' = mp3Seq
  /\ Goto("file")
  /\ UNCHANGED <<request, playing, mp3Request, mp3Playing, handoff, main, url, seq,
                 startSeq, pub, i2s>>

PickUrl ==
  /\ pc = "top" /\ mp3Seq = mp3Seen
  /\ url' = pendingUrl
  /\ seq' = urlSeq
  /\ Goto("decide")
  /\ UNCHANGED <<request, playing, mp3Request, mp3Playing, handoff, main,
                 mp3Seen, path, startSeq, pub, i2s>>

Rest ==
  /\ pc = "decide" /\ (stopRequested \/ url = None)
  /\ i2s' = FALSE
  /\ playing' = FALSE
  /\ Goto("top")
  /\ UNCHANGED <<request, mp3Request, mp3Playing, handoff, main, url, seq, mp3Seen,
                 path, startSeq, pub>>

Connect ==
  /\ pc = "decide" /\ ~stopRequested /\ url # None
  /\ Goto("connect")
  /\ UNCHANGED <<request, playing, mp3Request, mp3Playing, handoff, main, url, seq,
                 mp3Seen, path, startSeq, pub, i2s>>

\* An MP3 asked for while connecting wins; the stream is tried again after it.
Preempted ==
  /\ pc = "connect" /\ mp3Seq # mp3Seen
  /\ Goto("top")
  /\ UNCHANGED <<request, playing, mp3Request, mp3Playing, handoff, main, url, seq,
                 mp3Seen, path, startSeq, pub, i2s>>

ConnectFails ==
  /\ pc = "connect" /\ mp3Seq = mp3Seen
  /\ Publish("error", url, "backoff")
  /\ UNCHANGED <<request, playing, mp3Request, mp3Playing, handoff, main, url, seq,
                 mp3Seen, path, startSeq, i2s>>

\* A 200 answer: a playlist is read and resolved, anything else is a stream.
ConnectOk ==
  /\ pc = "connect" /\ mp3Seq = mp3Seen
  /\ Goto(IF url \in Playlists THEN "body" ELSE "open")
  /\ UNCHANGED <<request, playing, mp3Request, mp3Playing, handoff, main, url, seq,
                 mp3Seen, path, startSeq, pub, i2s>>

\* The body may also be cut short by the read timeout.
PlaylistRead(complete) ==
  /\ pc = "body"
  /\ IF complete /\ Resolve[url] # None THEN Goto("save") /\ UNCHANGED pub
     ELSE Publish("error", url, "backoff")
  /\ UNCHANGED <<request, playing, mp3Request, mp3Playing, handoff, main, url, seq,
                 mp3Seen, path, startSeq, i2s>>

PlaylistSave ==
  /\ pc = "save"
  /\ pendingUrl' = Resolve[url]
  /\ Goto("top")
  /\ UNCHANGED <<urlSeq, stopRequested, playing, mp3Request, mp3Playing, handoff,
                 main, url, seq, mp3Seen, path, startSeq, pub, i2s>>

Open ==
  /\ pc = "open"
  /\ playing' = TRUE
  /\ Goto("stream")
  /\ UNCHANGED <<request, mp3Request, mp3Playing, handoff, main, url, seq, mp3Seen,
                 path, startSeq, pub, i2s>>

\* The condition of the streaming loop.
StreamOn == ~stopRequested /\ urlSeq = seq /\ mp3Seq = mp3Seen

\* Mutant of StreamCheck: a stop is not looked at.
StreamCheckNoStop ==
  /\ pc = "stream"
  /\ Goto(IF urlSeq = seq /\ mp3Seq = mp3Seen THEN "pass" ELSE "leave")
  /\ UNCHANGED <<request, playing, mp3Request, mp3Playing, handoff, main, url, seq,
                 mp3Seen, path, startSeq, pub, i2s>>

StreamCheck ==
  /\ pc = "stream"
  /\ Goto(IF StreamOn THEN "pass" ELSE "leave")
  /\ UNCHANGED <<request, playing, mp3Request, mp3Playing, handoff, main, url, seq,
                 mp3Seen, path, startSeq, pub, i2s>>

\* One pass: data and frames, a title, a lost connection, or a verdict that
\* the stream cannot be played (no MP3 in it, or no I2S driver).
StreamFrame ==
  /\ pc = "pass"
  /\ i2s' = TRUE
  /\ Goto("stream")
  /\ UNCHANGED <<request, playing, mp3Request, mp3Playing, handoff, main, url, seq,
                 mp3Seen, path, startSeq, pub>>

StreamTitle ==
  /\ pc = "pass"
  /\ Publish("title", url, "stream")
  /\ UNCHANGED <<request, playing, mp3Request, mp3Playing, handoff, main, url, seq,
                 mp3Seen, path, startSeq, i2s>>

StreamLost ==
  /\ pc = "pass"
  /\ Goto("leave")
  /\ UNCHANGED <<request, playing, mp3Request, mp3Playing, handoff, main, url, seq,
                 mp3Seen, path, startSeq, pub, i2s>>

StreamUnplayable ==
  /\ pc = "pass"
  /\ Publish("error", url, "reject")
  /\ UNCHANGED <<request, playing, mp3Request, mp3Playing, handoff, main, url, seq,
                 mp3Seen, path, startSeq, i2s>>

StreamReject ==
  /\ pc = "reject"
  /\ stopRequested' = TRUE
  /\ Goto("stream")
  /\ UNCHANGED <<pendingUrl, urlSeq, playing, mp3Request, mp3Playing, handoff, main,
                 url, seq, mp3Seen, path, startSeq, pub, i2s>>

StreamLeave ==
  /\ pc = "leave"
  /\ i2s' = FALSE
  /\ playing' = FALSE
  /\ Goto(IF StreamOn THEN "backoff" ELSE "top")
  /\ UNCHANGED <<request, mp3Request, mp3Playing, handoff, main, url, seq, mp3Seen,
                 path, startSeq, pub>>

\* waitMs(): over when the time is up or an MP3 came in.
Backoff ==
  /\ pc = "backoff"
  /\ Goto("top")
  /\ UNCHANGED <<request, playing, mp3Request, mp3Playing, handoff, main, url, seq,
                 mp3Seen, path, startSeq, pub, i2s>>

\* playMp3File()
FileOpen(there) ==
  /\ pc = "file"
  /\ IF there THEN Publish("started", path, "fileStart")
              ELSE Goto("top") /\ UNCHANGED pub
  /\ UNCHANGED <<request, playing, mp3Request, mp3Playing, handoff, main, url, seq,
                 mp3Seen, path, startSeq, i2s>>

FileStart ==
  /\ pc = "fileStart"
  /\ mp3Playing' = TRUE
  /\ startSeq' = mp3Seq
  /\ Goto("fileLoop")
  /\ UNCHANGED <<request, playing, mp3Request, handoff, main, url, seq, mp3Seen,
                 path, pub, i2s>>

FileFrame ==
  /\ pc = "fileLoop" /\ ~mp3Stop /\ mp3Seq = startSeq
  /\ i2s' = TRUE
  /\ UNCHANGED <<request, playing, mp3Request, mp3Playing, handoff, main, pc, url,
                 seq, mp3Seen, path, startSeq, pub>>

\* Stopped, superseded, at the end of the file, or not decodable.
FileEnd ==
  /\ pc = "fileLoop"
  /\ i2s' = FALSE
  /\ mp3Playing' = FALSE
  /\ Publish("ended", None, "top")
  /\ UNCHANGED <<request, playing, mp3Request, handoff, main, url, seq, mp3Seen,
                 path, startSeq>>

-----------------------------------------------------------------------------

Main ==
  \/ \E u \in Stations : PlayStream(u)
  \/ \E ok \in BOOLEAN : TuneDone(ok)
  \/ \E m \in Mp3s : PlayMp3(m)
  \/ StopAudio(TRUE, FALSE) \/ StopAudio(FALSE, TRUE) \/ StopAudio(TRUE, TRUE)
  \/ Tick

Streaming ==
  \/ Open \/ StreamCheck \/ StreamFrame \/ StreamTitle \/ StreamLost
  \/ StreamUnplayable \/ StreamReject \/ StreamLeave \/ Backoff

Tuning ==
  \/ PickUrl \/ Rest \/ Connect \/ Preempted \/ ConnectFails \/ ConnectOk
  \/ (\E complete \in BOOLEAN : PlaylistRead(complete)) \/ PlaylistSave

File ==
  \/ PickMp3 \/ (\E there \in BOOLEAN : FileOpen(there)) \/ FileStart
  \/ FileFrame \/ FileEnd

Task == PublishWrite \/ PublishBump \/ Tuning \/ Streaming \/ File

Next == Main \/ Task

Spec == Init /\ [][Next]_vars

\* The task never returns and is scheduled by the RTOS; a file is finite; the
\* main loop runs every few milliseconds and the lock is held for microseconds;
\* a station that keeps being tried answers in the end.  No command is fair.
Fairness ==
  /\ WF_vars(Task)
  /\ SF_vars(Tick)
  /\ WF_vars(\E ok \in BOOLEAN : TuneDone(ok))
  /\ SF_vars(ConnectOk)

FairSpec == Spec /\ Fairness

-----------------------------------------------------------------------------

TypeOK ==
  /\ pendingUrl \in Urls \cup {None} /\ urlSeq \in 0..MaxPlays
  /\ stopRequested \in BOOLEAN /\ playing \in BOOLEAN
  /\ pendingMp3 \in Mp3s \cup {None} /\ mp3Seq \in 0..MaxMp3
  /\ mp3Stop \in BOOLEAN /\ mp3Playing \in BOOLEAN
  /\ pendingTitle \in Urls \cup {None} /\ pendingError \in Urls \cup {None}
  /\ pendingStarted \in Mp3s \cup {None} /\ pendingEnded \in BOOLEAN
  /\ unseen \in BOOLEAN
  /\ tuning \in Stations \cup {None} /\ radio \in Radio
  /\ mp3Shown \in Mp3s \cup {None}
  /\ pc \in Labels /\ url \in Urls \cup {None} /\ seq \in 0..MaxPlays
  /\ mp3Seen \in 0..MaxMp3 /\ path \in Mp3s \cup {None}
  /\ startSeq \in 0..MaxMp3 /\ pub \in Publication /\ i2s \in BOOLEAN

\* Once nothing is left to drain, the reported MP3 is the file being played:
\* started and ended reports may be merged, never mixed up (tick, publishMp3*).
Mp3StatusAgrees ==
  ~unseen /\ pc \notin {"publish", "bump"} =>
    mp3Shown = IF pc \in {"fileStart", "fileLoop"} THEN path ELSE None

\* A starved I2S repeats its tail: while the task connects, waits or rests, the
\* driver is uninstalled (playMp3File's and run's closeStream calls).
DriverQuiet ==
  pc \in {"connect", "body", "save", "open", "backoff", "file", "fileStart"}
    => ~i2s

\* A frame is scaled by the volume of the source it comes from: stream passes
\* run with mp3Playing_ clear, file passes with it set (writeDecodedFrame).
GainOfSource ==
  /\ pc \in {"stream", "pass"} => ~mp3Playing
  /\ pc = "fileLoop" => mp3Playing

\* The parts that make these three inductive, by what they are about.
FilePhase == {"fileStart", "fileLoop"}

\* What is parked and what is shown, read together, is the file being played.
ReportInv ==
  /\ Drained(pendingStarted, pendingEnded, mp3Shown) =
       IF \/ pc \in FilePhase
          \/ pc = "bump" /\ pub.kind = "started"
          \/ pc = "publish" /\ pub.kind = "ended"
       THEN path ELSE None
  /\ ~unseen /\ pc # "bump" => pendingStarted = None /\ ~pendingEnded

\* A publish call in flight knows what it carries and where it returns to.
PubInv ==
  pc \in {"publish", "bump"} =>
    \/ pub.kind = "title" /\ pub.then = "stream" /\ pub.val = url /\ url \in Urls
    \/ pub.kind = "error" /\ pub.then \in {"backoff", "reject"} /\ pub.val = url
       /\ url \in Urls
    \/ pub.kind = "started" /\ pub.then = "fileStart" /\ pub.val = path /\ path # None
    \/ pub.kind = "ended" /\ pub.then = "top"

\* The task never holds an empty URL or path where it uses one.
LocalsInv ==
  /\ pc \in {"connect", "body", "save", "open", "stream", "pass", "reject", "leave"}
       => url \in Urls
  /\ pc \in {"body", "save"} => url \in Playlists
  /\ pc \in {"file"} \cup FilePhase => path # None
  /\ mp3Seen <= mp3Seq
  /\ mp3Seq > 0 => pendingMp3 # None
  /\ pc = "none" => mp3Seen = 0

DriverInv ==
  /\ i2s =>
       \/ pc \in {"stream", "pass", "reject", "leave", "fileLoop"}
       \/ pc \in {"publish", "bump"} /\ pub.then \in {"stream", "reject"}
  /\ mp3Playing <=> pc = "fileLoop"

IInv == TypeOK /\ ReportInv /\ PubInv /\ LocalsInv /\ DriverInv

\* Two threads that share flags and one hand-off never show another file than
\* the one that plays, leave the amplifier on for nothing, or scale one source
\* by the volume of the other; with all it takes to show so.
AudioSafe == IInv /\ Mp3StatusAgrees /\ DriverQuiet /\ GainOfSource

\* A tuned station that streams is played, after any MP3 and any lost
\* connection, unless it is stopped or replaced (run).
StreamComesBack ==
  \A u \in Urls \ Playlists :
    (pendingUrl = u /\ ~stopRequested /\ pc # "none")
      ~> (pc = "stream" /\ url = u) \/ pendingUrl # u \/ stopRequested

\* A stop takes effect wherever the task is: the stream goes silent (stopStream).
StopSilences ==
  stopRequested ~> (~playing /\ pc \notin {"stream", "pass"}) \/ ~stopRequested

\* Every accepted MP3 request is picked up, if only to be found superseded.
Mp3Served ==
  \A n \in 1..MaxMp3 : (mp3Seq = n /\ pc # "none") ~> mp3Seen >= n

\* The status line is the abstract register: reports reach the main loop in
\* order, merged but never mixed, and every change is shown in the end.
Register == INSTANCE StatusRegister WITH
  Values <- Mp3s,
  published <- Drained(pendingStarted, pendingEnded, mp3Shown),
  shown <- mp3Shown

RegisterSafe == Register!Spec
RegisterSpec == Register!FairSpec

=============================================================================
