SPECIFICATION FairSpec
CONSTANTS
  direct = direct
  list = list
  target = target
  Stations <- LiveStations
  Urls <- MCUrls
  Playlists <- MCPlaylists
  Resolve <- MCResolve
  Mp3s = {m1}
  MaxPlays = 2
  MaxMp3 = 2
  MaxRequests = 3
  TaskMayFail = TRUE
  None = None
INVARIANT AudioSafe
PROPERTIES StreamComesBack StopSilences Mp3Served RegisterSpec
