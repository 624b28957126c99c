------------------------- MODULE DeviceStore_proofs -------------------------
(***************************************************************************)
(* StoreInv and ToldIsStored hold for every set of values, every save      *)
(* delay, every length of the power animation and every bound.  Together   *)
(* they are inductive: a restore is followed through the part it has read  *)
(* (RestoreInPlace) up to the answer, a save through the keys that are     *)
(* left, a reset through what it has still to clear.                       *)
(***************************************************************************)
EXTENDS DeviceStore, TLAPS

USE StoreAssumption DEF Kept, Items, Config, ram, session, system, ghosts, bounds

Session == OneAtATime /\ RestoreInPlace
Data == ConfigIsSaved /\ RunsWhatWasTold /\ ToldIsStored

LEMMA NoRestoreTyped == NoRestore \in Sessions
  BY DEF NoRestore, NewRestore, Sessions

LEMMA UpdateTyped == ASSUME NEW pw \in Powers PROVE Update(pw) \in Powers
<1>1. ASSUME NEW end \in {"off", "live"} PROVE Advance(pw, end) \in Powers
  <2>1. CASE pw.at + 1 >= Fade
    <3>1. 0 \in 0..Fade /\ end \in {"live", "out", "off", "in"}
      OBVIOUS
    <3>2. [pw EXCEPT !.fade = end, !.at = 0] \in Powers
      BY <3>1, Zenon DEF Powers
    <3> QED
      BY <2>1, <3>2 DEF Advance
  <2>2. CASE ~(pw.at + 1 >= Fade)
    <3>1. pw.at + 1 \in 0..Fade
      BY <2>2 DEF Powers
    <3>2. [pw EXCEPT !.at = pw.at + 1] \in Powers
      BY <3>1 DEF Powers
    <3> QED
      BY <2>2, <3>2 DEF Advance
  <2> QED
    BY <2>1, <2>2
<1>2. CASE pw.fade = "live" \/ pw.fade = "off"
  BY <1>2 DEF Update, Powers
<1>3. CASE pw.fade = "out" \/ pw.fade = "in"
  <2>1. Fade - pw.at \in 0..Fade
    BY DEF Powers
  <2>2. /\ [pw EXCEPT !.fade = "in", !.at = Fade - pw.at] \in Powers
        /\ [pw EXCEPT !.fade = "out", !.at = Fade - pw.at] \in Powers
    BY <2>1 DEF Powers
  <2>3. Advance(pw, "off") \in Powers /\ Advance(pw, "live") \in Powers
    BY <1>1
  <2> QED
    BY <1>3, <2>2, <2>3 DEF Update
<1> QED
  BY <1>2, <1>3 DEF Powers

LEMMA TypeKeeps == TypeOK /\ Session /\ Next => TypeOK'
<1> SUFFICES ASSUME TypeOK /\ Session, Next PROVE TypeOK'
  OBVIOUS
<1> USE DEF TypeOK, Session, OneAtATime
<1>1. CASE ChangeSettings
  BY <1>1 DEF ChangeSettings, Free
<1>2. CASE ChangeOrder
  BY <1>2 DEF ChangeOrder, Free
<1>3. CASE ChangeConfig
  BY <1>3 DEF ChangeConfig, Free
<1>4. CASE SaveKey
  <2>1. PICK c \in saving :
          /\ c = "system" => saving = {"system"}
          /\ flash' = [flash EXCEPT ![c] = live[c]]
          /\ saving' = saving \ {c}
          /\ \/ /\ told' = [k \in Kept |-> IF k \in Config THEN live[k] ELSE told[k]]
                /\ excused' = excused \ Config
             \/ UNCHANGED ghosts
          /\ UNCHANGED <<phase, ram, session, system, bounds>>
    BY <1>4 DEF SaveKey
  <2>2. saving' \in {{}, {"system"}, Config}
    BY <2>1
  <2>3. c \in Items /\ live[c] \in Values
    BY <2>1
  <2>4. /\ flash' \in [Kept -> Values \cup {NoFile, Part}]
        /\ \A i \in Items : flash'[i] \in Values
    BY <2>1, <2>3
  <2>5. /\ told' \in [Kept -> Values \cup {NoFile}] /\ excused' \subseteq Kept
        /\ \A i \in Items : told'[i] \in Values
    BY <2>1
  <2> QED
    BY <2>1, <2>2, <2>4, <2>5
<1>5. CASE FileStart
  BY <1>5 DEF FileStart, Free
<1>6. CASE FileDone
  BY <1>6 DEF FileDone
<1>7. CASE FileRefused
  BY <1>7 DEF FileRefused
<1>8. CASE RestoreStart
  BY <1>8 DEF RestoreStart, Free, NewRestore, Sessions
<1>9. CASE Fail
  BY <1>9 DEF Fail, Reading, Sessions
<1>10. CASE Manifest
  BY <1>10 DEF Manifest, Reading, Sessions
<1>11. CASE EntryConfig
  <2>1. PICK c \in Config :
          restore' = [Apply(c, {}) EXCEPT !.working[c] = restore.value, !.touched = TRUE]
    BY <1>11 DEF EntryConfig
  <2>2. Apply(c, {}) \in Sessions
    BY DEF Apply, Sessions
  <2>3. ASSUME NEW r \in Sessions PROVE
          [r EXCEPT !.working[c] = restore.value, !.touched = TRUE] \in Sessions
    BY DEF Sessions
  <2>4. restore' \in Sessions
    BY <2>1, <2>2, <2>3
  <2> QED
    BY <1>11, <2>4 DEF EntryConfig
<1>12. CASE EntrySettings
  BY <1>12 DEF EntrySettings, Entry, Reading, Apply, Sessions
<1>13. CASE EntryOrder
  BY <1>13 DEF EntryOrder, Entry, Reading, Apply, Sessions
<1>14. CASE EntryFile
  BY <1>14 DEF EntryFile, Entry, Reading, Sessions
<1>15. CASE EntryFileEnd
  <2>1. restore' \in Sessions
    <3>1. [restore EXCEPT !.open = FALSE] \in Sessions
      BY DEF Sessions
    <3>2. [restore EXCEPT !.open = FALSE, !.applied = @ \cup {"file"}] \in Sessions
      BY DEF Sessions
    <3> QED
      BY <1>15, <3>1, <3>2 DEF EntryFileEnd
  <2>2. /\ flash' \in [Kept -> Values \cup {NoFile, Part}]
        /\ \A i \in Items : flash'[i] = flash[i]
    <3>1. restore.value \in Values
      BY DEF Sessions
    <3> QED
      BY <1>15, <3>1 DEF EntryFileEnd
  <2> QED
    BY <1>15, <2>1, <2>2 DEF EntryFileEnd
<1>16. CASE ArchiveEnd
  BY <1>16 DEF ArchiveEnd, Reading, Sessions
<1>17. CASE Malformed
  BY <1>17 DEF Malformed, Reading
<1>18. CASE RestoreDone
  <2>1. restore.value \in Values /\ restore.applied \subseteq Kept /\ restore.written \subseteq Kept
    BY DEF Sessions
  <2>2. CASE reader = "ended"
    <3>1. told' = [k \in Kept |-> IF k \in restore.applied THEN restore.value ELSE told[k]]
      BY <1>18, <2>2 DEF RestoreDone
    <3>2. excused' = (excused \ restore.applied) \cup (restore.written \ restore.applied)
      BY <1>18, <2>2 DEF RestoreDone
    <3>3. told' \in [Kept -> Values \cup {NoFile}] /\ \A i \in Items : told'[i] \in Values
      BY <2>1, <3>1
    <3> QED
      BY <1>18, <2>1, <3>2, <3>3, NoRestoreTyped DEF RestoreDone
  <2>3. CASE reader # "ended"
    BY <1>18, <2>1, <2>3, NoRestoreTyped DEF RestoreDone
  <2> QED
    BY <2>2, <2>3
<1>19. CASE RestoreAborted
  BY <1>19, NoRestoreTyped DEF RestoreAborted, Sessions
<1>20. CASE Request
  <2>1. power' \in Powers
    <3>1. power' = power \/ power' = [power EXCEPT !.on = FALSE]
      BY <1>20 DEF Request
    <3> QED
      BY <3>1 DEF Powers
  <2> QED
    BY <1>20, <2>1 DEF Request, Free
<1>21. CASE Flip
  <2>1. power' \in Powers
    BY <1>21 DEF Flip, Powers
  <2> QED
    BY <1>21, <2>1 DEF Flip, Free
<1>22. CASE Turn
  <2>1. power' \in Powers
    BY <1>22, UpdateTyped DEF Turn
  <2>2. CASE MayRun(Update(power))
    <3>1. /\ wipe' \subseteq Kept /\ excused' \subseteq Kept
          /\ told' \in [Kept -> Values \cup {NoFile}]
          /\ \A i \in Items : told'[i] \in Values
      BY <1>22, <2>2 DEF Turn, ToClear, Promised, Blank
    <3> QED
      BY <1>22, <2>1, <2>2, <3>1 DEF Turn, Free
  <2>3. CASE ~MayRun(Update(power))
    <3>1. \/ UNCHANGED flash
          \/ flash' = [flash EXCEPT !["settings"] = live["settings"]]
      BY <1>22, <2>3 DEF Turn
    <3>2. /\ flash' \in [Kept -> Values \cup {NoFile, Part}]
          /\ \A i \in Items : flash'[i] \in Values
      BY <3>1
    <3>3. dirty' \in BOOLEAN /\ (sinceSave' = 1 \/ sinceSave' = sinceSave
             \/ (sinceSave' = sinceSave + 1 /\ ~(sinceSave > SaveDelay)))
      BY <1>22, <2>3 DEF Turn
    <3>4. sinceSave' \in 0..(SaveDelay + 1)
      BY <3>3
    <3> QED
      BY <1>22, <2>1, <2>3, <3>2, <3>3, <3>4 DEF Turn, Free
  <2> QED
    BY <2>2, <2>3
<1>23. CASE Wipe
  BY <1>23 DEF Wipe, WipeFirst, Blank
<1>24. CASE Restart
  BY <1>24 DEF Restart, Unsaved
<1>25. CASE PowerCut
  <2>1. excused' \subseteq Kept
    BY <1>25 DEF PowerCut, Unanswered, Unsaved, Sessions
  <2> QED
    BY <1>25, <2>1, NoRestoreTyped DEF PowerCut
<1>26. CASE Boot
  BY <1>26 DEF Boot, StartUp, Powers
<1>27. CASE ChangePart
  BY <1>27 DEF ChangePart, Free
<1>28. CASE MelodyCutShort
  BY <1>28 DEF MelodyCutShort
<1>29. CASE DeleteFile
  BY <1>29 DEF DeleteFile, Free
<1>30. CASE RescueBoot
  BY <1>30 DEF RescueBoot, StartUp, Powers
<1> QED
  BY <1>1, <1>2, <1>3, <1>4, <1>5, <1>6, <1>7, <1>8, <1>9, <1>10, <1>11, <1>12, <1>13, <1>14, <1>15, <1>16, <1>17, <1>18, <1>19, <1>20, <1>21, <1>22, <1>23, <1>24, <1>25, <1>26,
     <1>27, <1>28, <1>29, <1>30 DEF Next, RestoreStep, UploadEnds

LEMMA SessionKeeps == TypeOK /\ Session /\ Data /\ Next => Session'
<1> SUFFICES ASSUME TypeOK /\ Session /\ Data, Next PROVE Session'
  OBVIOUS
<1> USE DEF TypeOK, Sessions, Session, OneAtATime, RestoreInPlace, Data, ConfigIsSaved, RunsWhatWasTold, Unanswered
<1>1. CASE ChangeSettings
  BY <1>1 DEF ChangeSettings, Free
<1>2. CASE ChangeOrder
  BY <1>2 DEF ChangeOrder, Free
<1>3. CASE ChangeConfig
  BY <1>3 DEF ChangeConfig, Free
<1>4. CASE SaveKey
  BY <1>4 DEF SaveKey
<1>5. CASE FileStart
  BY <1>5 DEF FileStart, Free
<1>6. CASE FileDone
  BY <1>6 DEF FileDone
<1>7. CASE FileRefused
  BY <1>7 DEF FileRefused
<1>8. CASE RestoreStart
  BY <1>8 DEF RestoreStart, Free, NewRestore
<1>9. CASE Fail
  BY <1>9 DEF Fail, Reading
<1>10. CASE Manifest
  BY <1>10 DEF Manifest, Reading
<1>11. CASE EntryConfig
  BY <1>11 DEF EntryConfig, Entry, Reading, Apply
<1>12. CASE EntrySettings
  BY <1>12 DEF EntrySettings, Entry, Reading, Apply
<1>13. CASE EntryOrder
  BY <1>13 DEF EntryOrder, Entry, Reading, Apply
<1>14. CASE EntryFile
  BY <1>14 DEF EntryFile, Entry, Reading
<1>15. CASE EntryFileEnd
  <2>1. /\ restore'.open = FALSE /\ restore'.working = restore.working
        /\ restore'.touched = restore.touched /\ restore'.written = restore.written
        /\ restore'.value = restore.value
        /\ \/ /\ restore'.applied = restore.applied \cup {"file"}
              /\ flash' = [flash EXCEPT !["file"] = restore.value]
           \/ /\ restore'.applied = restore.applied
              /\ flash' = [flash EXCEPT !["file"] = NoFile]
    <3>1. CASE /\ restore' = [restore EXCEPT !.open = FALSE, !.applied = @ \cup {"file"}]
               /\ flash' = [flash EXCEPT !["file"] = restore.value]
      BY <3>1 DEF Sessions
    <3>2. CASE /\ restore' = [restore EXCEPT !.open = FALSE]
               /\ flash' = [flash EXCEPT !["file"] = NoFile]
      BY <3>2 DEF Sessions
    <3> QED
      BY <1>15, <3>1, <3>2 DEF EntryFileEnd
  <2>2. restore.open /\ reader = "reading" /\ upload = "restore"
    BY <1>15 DEF EntryFileEnd, Reading
  <2>3. UNCHANGED <<phase, ram, saving, upload, reader, system, ghosts, bounds>>
    BY <1>15 DEF EntryFileEnd
  <2>4. OneAtATime'
    BY <2>1, <2>3
  <2>5. \A k \in restore'.applied \ Config : flash'[k] = restore'.value
    BY <2>1, <2>2
  <2> QED
    BY <2>1, <2>2, <2>3, <2>4, <2>5
<1>16. CASE ArchiveEnd
  BY <1>16 DEF ArchiveEnd, Reading
<1>17. CASE Malformed
  BY <1>17 DEF Malformed, Reading
<1>18. CASE RestoreDone
  BY <1>18 DEF RestoreDone, NoRestore, NewRestore
<1>19. CASE RestoreAborted
  BY <1>19 DEF RestoreAborted, NoRestore, NewRestore
<1>20. CASE Request
  BY <1>20 DEF Request, Free, Requests
<1>21. CASE Flip
  BY <1>21 DEF Flip, Free
<1>22. CASE Turn
  BY <1>22 DEF Turn, Free, MayRun, ToClear, Promised, Blank
<1>23. CASE Wipe
  BY <1>23 DEF Wipe, WipeFirst, Blank
<1>24. CASE Restart
  BY <1>24 DEF Restart, Unsaved
<1>25. CASE PowerCut
  BY <1>25 DEF PowerCut, NoRestore, NewRestore, Unsaved
<1>26. CASE Boot
  BY <1>26 DEF Boot, StartUp
<1>27. CASE ChangePart
  BY <1>27 DEF ChangePart, Free
<1>28. CASE MelodyCutShort
  BY <1>28 DEF MelodyCutShort
<1>29. CASE DeleteFile
  BY <1>29 DEF DeleteFile, Free
<1>30. CASE RescueBoot
  BY <1>30 DEF RescueBoot, StartUp
<1> QED
  BY <1>1, <1>2, <1>3, <1>4, <1>5, <1>6, <1>7, <1>8, <1>9, <1>10, <1>11, <1>12, <1>13, <1>14, <1>15, <1>16, <1>17, <1>18, <1>19, <1>20, <1>21, <1>22, <1>23, <1>24, <1>25, <1>26,
     <1>27, <1>28, <1>29, <1>30 DEF Next, RestoreStep, UploadEnds

LEMMA DataKeeps == TypeOK /\ Session /\ Data /\ Next => Data'
<1> SUFFICES ASSUME TypeOK /\ Session /\ Data, Next PROVE Data'
  OBVIOUS
<1> USE DEF TypeOK, Sessions, Session, OneAtATime, RestoreInPlace, Data, ConfigIsSaved, RunsWhatWasTold, ToldIsStored, Unanswered
<1>1. CASE ChangeSettings
  BY <1>1 DEF ChangeSettings, Free
<1>2. CASE ChangeOrder
  BY <1>2 DEF ChangeOrder, Free
<1>3. CASE ChangeConfig
  BY <1>3 DEF ChangeConfig, Free
<1>4. CASE SaveKey
  BY <1>4 DEF SaveKey
<1>5. CASE FileStart
  BY <1>5 DEF FileStart, Free
<1>6. CASE FileDone
  BY <1>6 DEF FileDone
<1>7. CASE FileRefused
  BY <1>7 DEF FileRefused
<1>8. CASE RestoreStart
  BY <1>8 DEF RestoreStart, Free, NewRestore
<1>9. CASE Fail
  BY <1>9 DEF Fail, Reading
<1>10. CASE Manifest
  BY <1>10 DEF Manifest, Reading
<1>11. CASE EntryConfig
  BY <1>11 DEF EntryConfig, Entry, Reading, Apply
<1>12. CASE EntrySettings
  BY <1>12 DEF EntrySettings, Entry, Reading, Apply
<1>13. CASE EntryOrder
  BY <1>13 DEF EntryOrder, Entry, Reading, Apply
<1>14. CASE EntryFile
  BY <1>14 DEF EntryFile, Entry, Reading
<1>15. CASE EntryFileEnd
  <2>1. restore'.written = restore.written
    BY <1>15 DEF EntryFileEnd
  <2>4. \/ flash' = [flash EXCEPT !["file"] = restore.value]
        \/ flash' = [flash EXCEPT !["file"] = NoFile]
    BY <1>15 DEF EntryFileEnd
  <2>5. \A k \in Items : flash'[k] = flash[k]
    BY <2>4
  <2>2. "file" \in restore.written /\ upload = "restore"
    BY <1>15 DEF EntryFileEnd, Reading
  <2>3. UNCHANGED <<phase, ram, saving, upload, reader, system, ghosts, bounds>>
    BY <1>15 DEF EntryFileEnd
  <2> QED
    BY <2>1, <2>2, <2>3, <2>5
<1>16. CASE ArchiveEnd
  BY <1>16 DEF ArchiveEnd, Reading
<1>17. CASE Malformed
  BY <1>17 DEF Malformed, Reading
<1>18. CASE RestoreDone
  BY <1>18 DEF RestoreDone, NoRestore, NewRestore
<1>19. CASE RestoreAborted
  BY <1>19 DEF RestoreAborted, NoRestore, NewRestore
<1>20. CASE Request
  BY <1>20 DEF Request, Free, Requests
<1>21. CASE Flip
  BY <1>21 DEF Flip, Free
<1>22. CASE Turn
  BY <1>22 DEF Turn, Free, MayRun, ToClear, Promised, Blank
<1>23. CASE Wipe
  <2>1. /\ wipe' = wipe \ WipeFirst /\ WipeFirst \subseteq wipe
        /\ UNCHANGED <<phase, ram, saving, session, ghosts, bounds>>
        /\ phase = "ending"
        /\ \A k \in Kept : flash'[k] = IF k \in WipeFirst THEN Blank(k) ELSE flash[k]
    BY <1>23 DEF Wipe, WipeFirst
  <2> QED
    BY <2>1
<1>24. CASE Restart
  BY <1>24 DEF Restart, Unsaved
<1>25. CASE PowerCut
  BY <1>25 DEF PowerCut, NoRestore, NewRestore, Unsaved
<1>26. CASE Boot
  BY <1>26 DEF Boot, StartUp
<1>27. CASE ChangePart
  BY <1>27 DEF ChangePart, Free
<1>28. CASE MelodyCutShort
  BY <1>28 DEF MelodyCutShort
<1>29. CASE DeleteFile
  BY <1>29 DEF DeleteFile, Free
<1>30. CASE RescueBoot
  BY <1>30 DEF RescueBoot, StartUp
<1> QED
  BY <1>1, <1>2, <1>3, <1>4, <1>5, <1>6, <1>7, <1>8, <1>9, <1>10, <1>11, <1>12, <1>13, <1>14, <1>15, <1>16, <1>17, <1>18, <1>19, <1>20, <1>21, <1>22, <1>23, <1>24, <1>25, <1>26,
     <1>27, <1>28, <1>29, <1>30 DEF Next, RestoreStep, UploadEnds

LEMMA InitHolds == Init => TypeOK /\ Session /\ Data
<1> SUFFICES ASSUME Init PROVE TypeOK /\ Session /\ Data
  OBVIOUS
<1>1. TypeOK
  BY NoRestoreTyped DEF Init, TypeOK, Blank, Powers
<1> QED
  BY <1>1 DEF Init, Session, Data, OneAtATime, RestoreInPlace, ConfigIsSaved,
     RunsWhatWasTold, ToldIsStored, Unanswered, Blank, NoRestore, NewRestore

LEMMA Stutters == TypeOK /\ Session /\ Data /\ UNCHANGED vars => (TypeOK /\ Session /\ Data)'
  BY DEF vars, TypeOK, Session, Data, OneAtATime, RestoreInPlace, ConfigIsSaved,
     RunsWhatWasTold, ToldIsStored, Unanswered

LEMMA Invariance == Spec => [](TypeOK /\ Session /\ Data)
<1>1. Init => TypeOK /\ Session /\ Data
  BY InitHolds
<1>2. TypeOK /\ Session /\ Data /\ [Next]_vars => (TypeOK /\ Session /\ Data)'
  BY TypeKeeps, SessionKeeps, DataKeeps, Stutters
<1> QED
  BY <1>1, <1>2, PTL DEF Spec

\* The configuration on flash is the running one, no restore touches it before
\* it has read the whole archive, and the device runs what answered requests and
\* restores said (FsRestoreSink.cpp, HttpApiServer.cpp, main.cpp).
THEOREM StoreCorrect == Spec => []StoreInv
<1>1. TypeOK /\ Session /\ Data => StoreInv
  BY DEF Session, Data, StoreInv
<1> QED
  BY <1>1, Invariance, PTL

\* What was answered with a success is found after the next start, through every
\* power cut, rejected restore, reset and reboot (Restore.h, DeviceServices.h).
THEOREM ToldKept == Spec => []ToldIsStored
<1>1. TypeOK /\ Session /\ Data => ToldIsStored
  BY DEF Data
<1> QED
  BY <1>1, Invariance, PTL
=============================================================================
