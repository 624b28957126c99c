----------------------------- MODULE MCAudioOut -----------------------------
(***************************************************************************)
(* Instances of AudioOut: a station that streams directly, one that is a   *)
(* playlist, and the URL its playlist names.                               *)
(***************************************************************************)
EXTENDS AudioOut

CONSTANTS direct, list, target

LiveStations == {list}
MCStations == {direct, list}
MCUrls == {direct, list, target}
MCPlaylists == {list}
MCResolve == [p \in {list} |-> target]
=============================================================================
