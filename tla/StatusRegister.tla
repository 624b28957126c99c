--------------------------- MODULE StatusRegister ---------------------------
(***************************************************************************)
(* What the audio output promises about its MP3 status: a player begins    *)
(* and ends files, an observer sees snapshots of what was published last.  *)
(* Snapshots may skip a file, never show one that has ended for good.      *)
(***************************************************************************)
CONSTANTS Values, None

VARIABLES published, shown

vars == <<published, shown>>

Init == published = None /\ shown = None

Begin(v) == published = None /\ published' = v /\ UNCHANGED shown

End == published # None /\ published' = None /\ UNCHANGED shown

Observe == shown' = published /\ UNCHANGED published

Next == (\E v \in Values : Begin(v)) \/ End \/ Observe

Spec == Init /\ [][Next]_vars

\* The observer never stops looking.
FairSpec == Spec /\ SF_vars(Observe)
=============================================================================
