SPECIFICATION FairSoundSpec
CONSTANTS
  Tracks = {t1, t2}
  NoTrack = NoTrack
  StopReplyTimeout = 3
  MaxRetries = 2
  FramesPerTick = 4
  MaxCommands = 3
  MaxErrors = 2
  MaxLost = 1
INVARIANTS SoundInv SettledTruth
PROPERTIES TrackIsHeard
CHECK_DEADLOCK FALSE
