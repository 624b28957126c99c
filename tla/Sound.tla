------------------------------- MODULE Sound -------------------------------
(***************************************************************************)
(* The one-shot sounds: AudioRouter.cpp, which lets at most one of the     *)
(* outputs sound, and DfTrackSink.h, which drives a DFPlayer Mini over a   *)
(* UART that may lose, delay or refuse a frame.  The buzzer and the stored *)
(* MP3s are there as what the router starts and stops (AudioOut has the    *)
(* I2S side); the player is external, modelled from what DfTrackSink       *)
(* expects of it.                                                          *)
(***************************************************************************)
EXTENDS Naturals, Sequences

CONSTANTS
  Tracks,           \* the numbers that can be asked for
  NoTrack,          \* pendingTrack_ = 0, a silent player
  StopReplyTimeout, \* kStopReplyTimeoutMs, in units of kPostStopMs
  MaxRetries,       \* kMaxRetries
  FramesPerTick,    \* kRxBytesPerTick / 10
  MaxCommands,      \* bound on the commands of a behaviour
  MaxErrors,        \* bound on the 0x40 replies
  MaxLost           \* bound on frames lost or answered too late

ASSUME SoundAssumption ==
  /\ NoTrack \notin Tracks
  /\ {MaxCommands, MaxErrors, MaxLost} \subseteq Nat
  /\ {StopReplyTimeout, MaxRetries, FramesPerTick} \subseteq Nat \ {0}

VARIABLES
  df,       \* the driver: playing_, pendingTrack_, playAtMs_ as the time left,
            \* retries_, lastAckCmd_ with its parameter, and what is on the wire
  replies,  \* the frames the player sent back
  sounding, \* the track the player plays
  buzzer, mp3, stream, \* what the other outputs play
  muted,    \* muted_ of the router
  asked,    \* the track last asked for, NoTrack once told to stop
  heard,    \* it has sounded since
  commands, errors, lost

driver == <<df, replies>>
others == <<buzzer, mp3, stream, muted>>
promise == <<asked, heard>>
bounds == <<commands, errors, lost>>
soundVars == <<driver, sounding, others, promise, bounds>>

-----------------------------------------------------------------------------
(* Frames *)

Stop(ack) == [cmd |-> "stop", track |-> NoTrack, ack |-> ack]
Play(t) == [cmd |-> "play", track |-> t, ack |-> TRUE]
Volume == [cmd |-> "volume", track |-> NoTrack, ack |-> FALSE]
NoFrame == [cmd |-> "none", track |-> NoTrack, ack |-> FALSE]

Frames == {Stop(TRUE), Stop(FALSE), Volume} \cup {Play(t) : t \in Tracks}

\* sendCmd(): what asks for an acknowledgement is what an error repeats.
Send(d, f) ==
  [d EXCEPT !.line = Append(@, f), !.last = IF f.ack THEN f ELSE @]

(* DfTrackSink *)

PlayTrack(t) ==
  Send([df EXCEPT !.retries = MaxRetries, !.pending = t,
                  !.wait = StopReplyTimeout, !.playing = TRUE], Stop(TRUE))

\* Mutants: the held track survives the stop; no stop is sent.
StopUnsent == [df EXCEPT !.pending = NoTrack, !.playing = FALSE]

StopKeepingPending == Send([df EXCEPT !.playing = FALSE], Stop(FALSE))

StopTrack == Send([df EXCEPT !.pending = NoTrack, !.playing = FALSE], Stop(FALSE))

Repeat(d) ==
  Send([d EXCEPT !.retries = @ - 1,
                 !.wait = IF d.pending # NoTrack THEN StopReplyTimeout ELSE @],
       d.last)

\* Mutant: an error repeats nothing.
OnFrameDeaf(d, reply) ==
  CASE reply = "finished" -> [d EXCEPT !.playing = FALSE]
    [] reply = "ack" -> [d EXCEPT !.wait = IF d.pending # NoTrack THEN 1 ELSE @]
    [] reply = "error" -> d

OnFrame(d, reply) ==
  CASE reply = "finished" -> [d EXCEPT !.playing = FALSE]
    [] reply = "ack" ->
         [d EXCEPT !.wait = IF d.pending # NoTrack THEN 1 ELSE @]
    [] reply = "error" ->
         IF d.retries > 0 /\ d.last # NoFrame THEN Repeat(d) ELSE d

\* Mutant: the flag is left as playTrack() set it.
SendPendingOnly(d) == Send([d EXCEPT !.pending = NoTrack], Play(d.pending))

SendPending(d) ==
  Send([d EXCEPT !.pending = NoTrack, !.playing = TRUE], Play(d.pending))

Due(d) == d.pending # NoTrack /\ d.wait = 0

SoundInit ==
  /\ df = [playing |-> FALSE, pending |-> NoTrack, wait |-> 0, retries |-> 0,
           last |-> NoFrame, line |-> <<>>]
  /\ replies = <<>>
  /\ sounding = NoTrack
  /\ buzzer = FALSE /\ mp3 = FALSE /\ stream = FALSE /\ muted = FALSE
  /\ asked = NoTrack /\ heard = TRUE
  /\ commands = 0 /\ errors = 0 /\ lost = 0

-----------------------------------------------------------------------------
(* The router: the new sound starts, then the other outputs are stopped *)

Commanded ==
  /\ commands < MaxCommands
  /\ commands' = commands + 1
  /\ UNCHANGED <<replies, sounding, errors, lost>>

PlayOnTrack(t) ==
  /\ Commanded
  /\ ~muted
  /\ df' = PlayTrack(t)
  /\ buzzer' = FALSE /\ mp3' = FALSE
  /\ asked' = t /\ heard' = FALSE
  /\ UNCHANGED <<stream, muted>>

\* A melody or an MP3; stopOthersThan() stops the player either way.
PlayOnBuzzer ==
  /\ Commanded
  /\ ~muted
  /\ df' = StopTrack
  /\ buzzer' = TRUE /\ mp3' = FALSE
  /\ asked' = NoTrack /\ heard' = TRUE
  /\ UNCHANGED <<stream, muted>>

PlayOnMp3 ==
  /\ Commanded
  /\ ~muted
  /\ df' = StopTrack
  /\ buzzer' = FALSE /\ mp3' = TRUE
  /\ asked' = NoTrack /\ heard' = TRUE
  /\ UNCHANGED <<stream, muted>>

\* Neither muted_ nor the one-shots matter to a stream.
PlayOnStream ==
  /\ Commanded
  /\ stream' = TRUE
  /\ UNCHANGED <<df, buzzer, mp3, muted, promise>>

StopSounds ==
  /\ df' = StopTrack
  /\ buzzer' = FALSE /\ mp3' = FALSE
  /\ asked' = NoTrack /\ heard' = TRUE

StopScope(scope) ==
  /\ Commanded
  /\ IF scope = "stream" THEN UNCHANGED <<df, buzzer, mp3, promise>>
                         ELSE StopSounds
  /\ stream' = (stream /\ scope = "sounds")
  /\ UNCHANGED muted

SetMuted ==
  /\ Commanded
  /\ muted' = ~muted
  /\ UNCHANGED <<df, buzzer, mp3, stream, promise>>

\* setVolumes() with another percentage for the player.
SetVolume ==
  /\ Commanded
  /\ df' = Send(df, Volume)
  /\ UNCHANGED <<others, promise>>

-----------------------------------------------------------------------------
(* tick(), and time *)

Take(d, n) ==
  LET taken[k \in 0..n] ==
        IF k = 0 THEN d ELSE OnFrame(taken[k - 1], replies[k])
  IN taken[n]

\* What has arrived is read, up to the budget; then a held track goes out.
TickTrack ==
  LET n == IF Len(replies) < FramesPerTick THEN Len(replies) ELSE FramesPerTick
      d == Take(df, n)
  IN /\ n > 0 \/ Due(df)
     /\ df' = IF Due(d) THEN SendPending(d) ELSE d
     /\ replies' = SubSeq(replies, n + 1, Len(replies))
     /\ UNCHANGED <<sounding, others, promise, bounds>>

\* Time runs on only when nothing is on its way, unless the player is late.
Pass ==
  /\ df.pending # NoTrack /\ df.wait > 0
  /\ df' = [df EXCEPT !.wait = @ - 1]
  /\ \/ df.line = <<>> /\ replies = <<>> /\ UNCHANGED lost
     \/ /\ df.line # <<>> \/ replies # <<>>
        /\ lost < MaxLost /\ lost' = lost + 1
  /\ UNCHANGED <<replies, sounding, others, promise, commands, errors>>

-----------------------------------------------------------------------------
(* The player *)

Received == df' = [df EXCEPT !.line = Tail(@)]
Reply(f, r) == replies' = IF f.ack THEN Append(replies, r) ELSE replies

\* It drops a play command while a track runs (DfTrackSink.h:37).
Obey ==
  /\ df.line # <<>>
  /\ LET f == Head(df.line)
         dropped == f.cmd = "play" /\ sounding # NoTrack
     IN /\ sounding' = CASE f.cmd = "stop" -> NoTrack
                         [] f.cmd = "play" /\ ~dropped -> f.track
                         [] OTHER -> sounding
        /\ IF dropped THEN UNCHANGED replies ELSE Reply(f, "ack")
        /\ heard' = (heard \/ (f.cmd = "play" /\ ~dropped /\ f.track = asked))
  /\ Received
  /\ UNCHANGED <<others, asked, bounds>>

Refuse ==
  /\ df.line # <<>>
  /\ errors < MaxErrors /\ errors' = errors + 1
  /\ replies' = Append(replies, "error")
  /\ Received
  /\ UNCHANGED <<sounding, others, promise, commands, lost>>

LoseCommand ==
  /\ df.line # <<>>
  /\ lost < MaxLost /\ lost' = lost + 1
  /\ Received
  /\ UNCHANGED <<replies, sounding, others, promise, commands, errors>>

LoseReply ==
  /\ replies # <<>>
  /\ lost < MaxLost /\ lost' = lost + 1
  /\ replies' = Tail(replies)
  /\ UNCHANGED <<df, sounding, others, promise, commands, errors>>

FinishTrack ==
  /\ sounding # NoTrack
  /\ sounding' = NoTrack
  /\ replies' = Append(replies, "finished")
  /\ UNCHANGED <<df, others, promise, bounds>>

\* A melody and a stored MP3 end by themselves.
FinishOther ==
  /\ \/ buzzer /\ buzzer' = FALSE /\ UNCHANGED mp3
     \/ mp3 /\ mp3' = FALSE /\ UNCHANGED buzzer
  /\ UNCHANGED <<driver, sounding, stream, muted, promise, bounds>>

-----------------------------------------------------------------------------
Command ==
  \/ \E t \in Tracks : PlayOnTrack(t)
  \/ PlayOnBuzzer
  \/ PlayOnMp3
  \/ PlayOnStream
  \/ \E scope \in {"sounds", "stream", "all"} : StopScope(scope)
  \/ SetMuted
  \/ SetVolume

Player == Obey \/ Refuse \/ LoseCommand \/ LoseReply \/ FinishTrack

SoundNext == Command \/ TickTrack \/ Pass \/ Player \/ FinishOther

SoundSpec == SoundInit /\ [][SoundNext]_soundVars

\* The loop ticks the driver, time passes, and the player takes what it is sent.
FairSoundSpec ==
  SoundSpec /\ WF_soundVars(TickTrack) /\ WF_soundVars(Pass) /\ WF_soundVars(Obey)

-----------------------------------------------------------------------------
SoundTypeOK ==
  /\ df \in [playing : BOOLEAN, pending : Tracks \cup {NoTrack},
             wait : 0..StopReplyTimeout, retries : 0..MaxRetries,
             last : {NoFrame, Stop(TRUE)} \cup {Play(t) : t \in Tracks},
             line : Seq(Frames)]
  /\ replies \in Seq({"ack", "error", "finished"})
  /\ {sounding, asked} \subseteq Tracks \cup {NoTrack}
  /\ {buzzer, mp3, stream, muted, heard} \subseteq BOOLEAN
  /\ commands \in 0..MaxCommands /\ errors \in 0..MaxErrors /\ lost \in 0..MaxLost

Quiet == df.line = <<>> /\ replies = <<>> /\ df.pending = NoTrack

(* The router commands one output at most: a track that is still held back     *)
(* counts, so a sound started while it waits may not find it sent out later.   *)
OneCommanded ==
  /\ ~(buzzer /\ mp3)
  /\ df.pending # NoTrack \/ df.playing \/ asked # NoTrack => ~buzzer /\ ~mp3

(* A stop is on its way behind the first i frames of the line. *)
StopFollows(i) == \E j \in (i + 1)..Len(df.line) : df.line[j].cmd = "stop"

(* At most one output sounds: while no track is asked for, because a melody or *)
(* an MP3 plays or all was stopped, the player is silent or has a stop on its  *)
(* way, behind whatever play command is still there too.  Not so once a frame  *)
(* was lost or refused: the error reply that comes in after stop(), which asks *)
(* for no acknowledgement, repeats the play of before, and that track sounds   *)
(* after all, beside the other output and with neither playing_ nor            *)
(* pendingTrack_ set (DfTrackSink.h:43, 78).                                   *)
OneSound ==
  asked = NoTrack /\ errors = 0 /\ lost = 0 =>
    /\ sounding # NoTrack => StopFollows(0)
    /\ \A i \in DOMAIN df.line : df.line[i].cmd = "play" => StopFollows(i)

(* Checked as one: SoundTypeOK bounds the retries and the time left of a held  *)
(* track, OneCommanded and OneSound relate the driver, its wire and what the   *)
(* player plays to the other outputs.                                          *)
SoundInv == SoundTypeOK /\ OneCommanded /\ OneSound

(* Once the wire is silent and if the player has refused and lost nothing,     *)
(* the player sounds the track last asked for or nothing, and isPlaying() says *)
(* which: the end of the track before, which may be on its way while the next  *)
(* one is asked for, clears the flag and does not leave it cleared.            *)
SettledTruth ==
  Quiet /\ errors = 0 /\ lost = 0 =>
    /\ sounding \in {asked, NoTrack}
    /\ df.playing <=> sounding # NoTrack

(* A track that is asked for is heard or superseded, though the player refuses *)
(* up to kMaxRetries frames: the stop that must come first and the play that   *)
(* follows are repeated from one budget.                                       *)
TrackIsHeard ==
  \A t \in Tracks : asked = t ~> heard \/ asked # t \/ lost > 0

=============================================================================
