----------------------------- MODULE WriteBack -----------------------------
(***************************************************************************)
(* What scripts are promised of their stores on flash: a script has one    *)
(* latest store, and what is saved for it only ever changes to that one,   *)
(* as a whole.                                                             *)
(***************************************************************************)
CONSTANTS Names, Values

VARIABLES latest, saved

wvars == <<latest, saved>>

\* A script or a user changes a store, a deletion drops it, or a restart goes
\* back to what is saved.
Put ==
  /\ latest' \in [Names -> Values]
  /\ UNCHANGED saved

Save(n) ==
  /\ saved' = [saved EXCEPT ![n] = latest[n]]
  /\ UNCHANGED latest

WriteBackNext == Put \/ \E n \in Names : Save(n)

WriteBackSpec == latest = saved /\ [][WriteBackNext]_wvars
============================================================================
