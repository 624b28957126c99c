---------------------------- MODULE DeviceStore ----------------------------
(***************************************************************************)
(* What the device keeps over a restart and what writes it: the settings   *)
(* and their debounced save (main.cpp: loop), the app order, which users   *)
(* arrange and a removed script leaves (CoreEngine.cpp, AppOrderStore.cpp),*)
(* the configuration, which a request or the rescue combo at the start     *)
(* saves (DeviceConfig.cpp), an asset file, its upload and removal, the    *)
(* restore of a backup (RestoreApplier.cpp, FsRestoreSink.cpp,             *)
(* ZipReader.cpp, HttpApiServer.cpp), and the system actions               *)
(* (DeviceServices.h), which wait for the power animation                  *)
(* (PowerAnimator.cpp).  The power may be cut at any step.                 *)
(*                                                                         *)
(* Radio stations are saved and restored as the app order is and are left  *)
(* out, scripts are in ScriptStorage.  A write to NVS is one step and      *)
(* succeeds: the code looks at the result of none.                         *)
(*                                                                         *)
(* A turn of the loop is one step: the frame it ends with and the save the *)
(* next one starts with.  Between two turns requests are served; an upload *)
(* keeps the loop inside one of them, so nothing else runs then.  `told`   *)
(* is what the last request on an item that was answered with a success    *)
(* said, and `excused` names the items the answer promises nothing of.     *)
(***************************************************************************)
EXTENDS Naturals

CONSTANTS
  Values,      \* what an item can be
  Default,     \* its value out of the box
  NoFile,      \* no such file
  Part,        \* a file cut short
  SaveDelay,   \* turns that fit the 1500 ms between two saves
  Fade,        \* turns of the power animation
  MaxEvents,   \* bound on requests, uploads, flips of the switch and power cuts
  MaxRestores  \* bound on the restores among them

ASSUME StoreAssumption ==
  /\ Default \in Values
  /\ NoFile \notin Values /\ Part \notin Values /\ NoFile # Part
  /\ {SaveDelay, Fade} \subseteq Nat \ {0} /\ {MaxEvents, MaxRestores} \subseteq Nat

Config == {"wifi", "system"}     \* NVS keys of DeviceConfig, written in this order
Items == Config \cup {"settings", "order"}
Kept == Items \cup {"file"}

VARIABLES
  phase,     \* "up", "ending" (an action is at work), "down"
  live,      \* Items in RAM
  flash,     \* Kept on flash
  dirty, sinceSave,   \* g_settingsDirty, turns since g_lastSettingsSaveMs
  saving,    \* keys DeviceConfig::save() has still to write
  upload,    \* whose upload is being received: "none", "restore", "file"
  reader,    \* ZipReader: "reading", "ended", "bad"
  restore,   \* RestoreApplier and the sink
  pending,   \* DeviceSystem::pending_
  wipe,      \* what a reset has still to clear
  power,     \* the switch and the animator
  told, excused,
  events, restores

ram == <<live, dirty, sinceSave>>
session == <<upload, reader, restore>>
system == <<pending, wipe, power>>
ghosts == <<told, excused>>
bounds == <<events, restores>>
vars == <<phase, ram, flash, saving, session, system, ghosts, bounds>>

-----------------------------------------------------------------------------
Requests == {"reboot", "sleep", "factory", "settings"}

\* A fresh RestoreApplier over a fresh sink, which copies the configuration.
\* Between two restores the session is kept as a fresh one for Default.
NewRestore(value, config) ==
  [value |-> value, manifest |-> FALSE, open |-> FALSE,
   working |-> [c \in Config |-> config[c]], touched |-> FALSE, applied |-> {}, written |-> {}]

NoRestore == NewRestore(Default, [c \in Config |-> Default])

\* update(): a switch flipped half way enters the other phase mirrored.
Advance(pw, end) ==
  IF pw.at + 1 >= Fade THEN [pw EXCEPT !.fade = end, !.at = 0]
  ELSE [pw EXCEPT !.at = @ + 1]

Update(pw) ==
  CASE pw.fade = "live" -> IF pw.on THEN pw ELSE [pw EXCEPT !.fade = "out"]
    [] pw.fade = "off" -> IF pw.on THEN [pw EXCEPT !.fade = "in"] ELSE pw
    [] pw.fade = "out" /\ pw.on -> [pw EXCEPT !.fade = "in", !.at = Fade - pw.at]
    [] pw.fade = "in" /\ ~pw.on -> [pw EXCEPT !.fade = "out", !.at = Fade - pw.at]
    [] pw.fade = "out" /\ ~pw.on -> Advance(pw, "off")
    [] OTHER -> Advance(pw, "live")

Busy(pw) == pw.fade \in {"out", "in"}

\* Mutant: a pending action waits until the panel is shown again.
MayRunWhenLive(pw) == pending # "none" /\ pw.fade = "live"

MayRun(pw) == pending # "none" /\ ~Busy(pw)

\* Mutant: a factory reset leaves the namespace of the configuration.
ToClearButConfig ==
  CASE pending = "factory" -> {"settings", "order", "file"}
    [] pending = "settings" -> {"settings"}
    [] OTHER -> {}

\* runPending(): the namespaces and the filesystem a reset clears.
ToClear ==
  CASE pending = "factory" -> Kept
    [] pending = "settings" -> {"settings"}
    [] OTHER -> {}

\* What the reset was asked to clear (docs/reference/system.md: the table of
\* resets), and what it leaves there.
Promised ==
  IF pending = "factory" THEN Kept
  ELSE IF pending = "settings" THEN {"settings"} ELSE {}

Blank(k) == IF k = "file" THEN NoFile ELSE Default

\* What an unfinished request or reset has written, or may have.
Unanswered ==
  (IF upload = "restore" THEN restore.written ELSE {})
    \cup (IF upload = "file" THEN {"file"} ELSE {})
    \cup (IF saving = {} THEN {} ELSE Config)
    \cup wipe

\* Settings the debounce has not saved yet.
Unsaved == IF dirty /\ told["settings"] # flash["settings"] THEN {"settings"} ELSE {}

-----------------------------------------------------------------------------
\* Nothing else of the loop runs while a request is being served.
Free == phase = "up" /\ upload = "none" /\ saving = {}

\* PATCH settings: published at once, saved by the loop.
ChangeSettings ==
  /\ Free /\ events < MaxEvents
  /\ \E v \in Values :
       /\ live' = [live EXCEPT !["settings"] = v]
       /\ told' = [told EXCEPT !["settings"] = v]
  /\ dirty' = TRUE
  /\ excused' = excused \ {"settings"}
  /\ events' = events + 1
  /\ UNCHANGED <<phase, sinceSave, flash, saving, session, system, restores>>

\* PUT apps/order that names the whole arrangement: kept only if the file could
\* be replaced.
ChangeOrder ==
  /\ Free /\ events < MaxEvents
  /\ \E v \in Values :
       /\ live' = [live EXCEPT !["order"] = v]
       /\ flash' = [flash EXCEPT !["order"] = v]
       /\ told' = [told EXCEPT !["order"] = v]
  /\ excused' = excused \ {"order"}
  /\ events' = events + 1
  /\ UNCHANGED <<phase, dirty, sinceSave, saving, session, system, restores>>

\* A change of part of the arrangement in RAM, which is then saved as a whole: a
\* script that had a place is removed and the arrangement stays changed though the
\* save fails, or a PUT names some of its parts.  An order that was restored waits
\* on flash for the next start and is overwritten with the one before it.
ChangePart ==
  /\ Free /\ events < MaxEvents
  /\ \E v \in Values, saved \in BOOLEAN :
       /\ live' = [live EXCEPT !["order"] = v]
       /\ flash' = IF saved THEN [flash EXCEPT !["order"] = v] ELSE flash
       /\ told' = IF live["order"] = told["order"]
                  THEN [told EXCEPT !["order"] = v] ELSE told
       /\ excused' = IF saved /\ live["order"] = told["order"]
                     THEN excused \ {"order"} ELSE excused \cup {"order"}
  /\ events' = events + 1
  /\ UNCHANGED <<phase, dirty, sinceSave, saving, session, system, restores>>

\* PUT system: merged, checked and assigned as a whole, then saved key by key.
ChangeConfig ==
  /\ Free /\ events < MaxEvents
  /\ \E v \in [Config -> Values] :
       live' = [i \in Items |-> IF i \in Config THEN v[i] ELSE live[i]]
  /\ saving' = Config
  /\ events' = events + 1
  /\ UNCHANGED <<phase, dirty, sinceSave, flash, session, system, ghosts, restores>>

\* One key of DeviceConfig::save(); with the last one a PUT is answered.
SaveKey ==
  \E c \in saving :
    /\ c = "system" => saving = {"system"}
    /\ flash' = [flash EXCEPT ![c] = live[c]]
    /\ saving' = saving \ {c}
    /\ IF saving = {c} /\ upload = "none"
       THEN /\ told' = [k \in Kept |-> IF k \in Config THEN live[k] ELSE told[k]]
            /\ excused' = excused \ Config
       ELSE UNCHANGED ghosts
    /\ UNCHANGED <<phase, ram, session, system, bounds>>

-----------------------------------------------------------------------------
\* POST files (handleFileUpload) or PUT of a melody: the old file is gone as soon
\* as the new one is opened.
FileStart ==
  /\ Free /\ events < MaxEvents
  /\ upload' = "file"
  /\ flash' = [flash EXCEPT !["file"] = Part]
  /\ events' = events + 1
  /\ UNCHANGED <<phase, ram, saving, reader, restore, system, ghosts, restores>>

FileDone ==
  /\ upload = "file"
  /\ upload' = "none"
  /\ \E v \in Values :
       /\ flash' = [flash EXCEPT !["file"] = v]
       /\ told' = [told EXCEPT !["file"] = v]
  /\ excused' = excused \ {"file"}
  /\ UNCHANGED <<phase, ram, saving, reader, restore, system, bounds>>

\* Wrong content, a full filesystem, or the client is gone.
FileRefused ==
  /\ upload = "file"
  /\ upload' = "none"
  /\ flash' = [flash EXCEPT !["file"] = NoFile]
  /\ excused' = excused \cup {"file"}
  /\ UNCHANGED <<phase, ram, saving, reader, restore, system, told, bounds>>

\* A melody that does not fit is refused with 507 and what was written stays.
MelodyCutShort ==
  /\ upload = "file"
  /\ upload' = "none"
  /\ excused' = excused \cup {"file"}
  /\ UNCHANGED <<phase, ram, flash, saving, reader, restore, system, told, bounds>>

\* DELETE of a file that is there.
DeleteFile ==
  /\ Free /\ events < MaxEvents /\ flash["file"] # NoFile
  /\ flash' = [flash EXCEPT !["file"] = NoFile]
  /\ told' = [told EXCEPT !["file"] = NoFile]
  /\ excused' = excused \ {"file"}
  /\ events' = events + 1
  /\ UNCHANGED <<phase, ram, saving, session, system, restores>>

-----------------------------------------------------------------------------
\* POST restore, UPLOAD_FILE_START.  An archive holds one value for all it has.
RestoreStart ==
  /\ Free /\ events < MaxEvents /\ restores < MaxRestores
  /\ upload' = "restore"
  /\ reader' = "reading"
  /\ \E v \in Values \ {Default} : restore' = NewRestore(v, live)
  /\ events' = events + 1 /\ restores' = restores + 1
  /\ UNCHANGED <<phase, ram, flash, saving, system, ghosts>>

Reading == upload = "restore" /\ reader = "reading"

\* fail(): an entry before the manifest, or a manifest that does not check out.
\* The rest of the archive is read and changes nothing.
Fail ==
  /\ Reading
  /\ reader' = "bad"
  /\ restore' = [restore EXCEPT !.open = FALSE]
  /\ flash' = IF restore.open THEN [flash EXCEPT !["file"] = NoFile] ELSE flash
  /\ UNCHANGED <<phase, ram, saving, upload, system, ghosts, bounds>>

Manifest ==
  /\ Reading /\ ~restore.open
  /\ restore' = [restore EXCEPT !.manifest = TRUE]
  /\ UNCHANGED <<phase, ram, flash, saving, upload, reader, system, ghosts, bounds>>

\* An entry that is unknown, unsafe, invalid or corrupt is skipped: no step.
Entry == Reading /\ restore.manifest /\ ~restore.open

Apply(k, writes) ==
  [restore EXCEPT !.applied = @ \cup {k}, !.written = @ \cup writes]

\* Mutant: an entry of the configuration goes to the running one at once.
EntryConfigAtOnce ==
  /\ Entry
  /\ \E c \in Config :
       /\ restore' = [Apply(c, {}) EXCEPT !.working[c] = restore.value,
                                          !.touched = TRUE]
       /\ live' = [live EXCEPT ![c] = restore.value]
  /\ UNCHANGED <<phase, dirty, sinceSave, flash, saving, upload, reader, system,
                 ghosts, bounds>>

\* applyWifi(), applySystem(): staged.
EntryConfig ==
  /\ Entry
  /\ \E c \in Config :
       restore' = [Apply(c, {}) EXCEPT !.working[c] = restore.value,
                                       !.touched = TRUE]
  /\ UNCHANGED <<phase, ram, flash, saving, upload, reader, system, ghosts, bounds>>

\* applySettings(): saved and published at once.
EntrySettings ==
  /\ Entry
  /\ restore' = Apply("settings", {"settings"})
  /\ live' = [live EXCEPT !["settings"] = restore.value]
  /\ flash' = [flash EXCEPT !["settings"] = restore.value]
  /\ dirty' = TRUE
  /\ UNCHANGED <<phase, sinceSave, saving, upload, reader, system, ghosts, bounds>>

\* applyAppLoop(): the file only, for the next start.
EntryOrder ==
  /\ Entry
  /\ restore' = Apply("order", {"order"})
  /\ flash' = [flash EXCEPT !["order"] = restore.value]
  /\ UNCHANGED <<phase, ram, saving, upload, reader, system, ghosts, bounds>>

\* An asset: beginFile(), then its end, or abortFile() for what it held or for
\* its CRC.
EntryFile ==
  /\ Entry
  /\ restore' = [restore EXCEPT !.open = TRUE, !.applied = @ \ {"file"},
                                !.written = @ \cup {"file"}]
  /\ flash' = [flash EXCEPT !["file"] = Part]
  /\ UNCHANGED <<phase, ram, saving, upload, reader, system, ghosts, bounds>>

EntryFileEnd ==
  /\ Reading /\ restore.open
  /\ \/ /\ restore' = [restore EXCEPT !.open = FALSE, !.applied = @ \cup {"file"}]
        /\ flash' = [flash EXCEPT !["file"] = restore.value]
     \/ /\ restore' = [restore EXCEPT !.open = FALSE]
        /\ flash' = [flash EXCEPT !["file"] = NoFile]
  /\ UNCHANGED <<phase, ram, saving, upload, reader, system, ghosts, bounds>>

\* onArchiveEnd(), from a central directory or a clean end, and commit().
ArchiveEnd ==
  /\ Reading /\ ~restore.open
  /\ IF restore.manifest
     THEN /\ reader' = "ended"
          /\ live' = [i \in Items |-> IF i \in Config THEN restore.working[i]
                                      ELSE live[i]]
          /\ saving' = IF restore.touched THEN Config ELSE {}
          /\ restore' = [restore EXCEPT
                           !.written = @ \cup (restore.applied \cap Config)]
     ELSE reader' = "bad" /\ UNCHANGED <<live, saving, restore>>
  /\ UNCHANGED <<phase, dirty, sinceSave, flash, upload, system, ghosts, bounds>>

\* Not a zip any more, or it ended inside an entry: onArchiveEnd() never comes.
Malformed ==
  /\ Reading
  /\ reader' = "bad"
  /\ UNCHANGED <<phase, ram, flash, saving, upload, restore, system, ghosts, bounds>>

\* handleRestoreDone()
RestoreDone ==
  /\ upload = "restore" /\ reader # "reading" /\ saving = {}
  /\ upload' = "none"
  /\ IF reader = "ended"
     THEN /\ told' = [k \in Kept |-> IF k \in restore.applied THEN restore.value
                                     ELSE told[k]]
          /\ excused' = (excused \ restore.applied)
                          \cup (restore.written \ restore.applied)
     ELSE /\ excused' = excused \cup restore.written
          /\ UNCHANGED told
  /\ reader' = "ended" /\ restore' = NoRestore
  /\ UNCHANGED <<phase, ram, flash, saving, system, bounds>>

\* The client is gone: handleRestoreUpload() has no case for it.
RestoreAborted ==
  /\ upload = "restore" /\ saving = {}
  /\ upload' = "none"
  /\ excused' = excused \cup restore.written
  /\ reader' = "ended" /\ restore' = NoRestore
  /\ UNCHANGED <<phase, ram, flash, saving, system, told, bounds>>

RestoreStep ==
  \/ Fail \/ Manifest \/ EntryConfig \/ EntrySettings \/ EntryOrder
  \/ EntryFile \/ EntryFileEnd

UploadEnds ==
  \/ FileDone \/ FileRefused \/ MelodyCutShort
  \/ ArchiveEnd \/ Malformed \/ RestoreDone \/ RestoreAborted

-----------------------------------------------------------------------------
\* reboot(), sleep(), factoryReset(), resetSettings(): the last one counts.
Request ==
  /\ Free /\ events < MaxEvents
  /\ \E r \in Requests :
       /\ pending' = r
       /\ power' = IF r = "sleep" THEN [power EXCEPT !.on = FALSE] ELSE power
  /\ events' = events + 1
  /\ UNCHANGED <<phase, ram, flash, saving, session, wipe, ghosts, restores>>

\* PATCH display, or a notification that wakes the panel.
Flip ==
  /\ Free /\ events < MaxEvents
  /\ power' = [power EXCEPT !.on = ~@]
  /\ events' = events + 1
  /\ UNCHANGED <<phase, ram, flash, saving, session, pending, wipe, ghosts, restores>>

\* The end of loop() and the head of the next: runPending(), or the debounce.
Turn ==
  /\ Free
  /\ power' = Update(power)
  /\ IF MayRun(Update(power))
     THEN /\ phase' = "ending"
          /\ wipe' = ToClear
          /\ told' = [k \in Kept |-> IF k \in Promised THEN Blank(k) ELSE told[k]]
          /\ excused' = excused \ Promised
          /\ pending' = "none"
          /\ UNCHANGED <<ram, flash>>
     ELSE /\ UNCHANGED <<phase, wipe, pending, live, ghosts>>
          /\ IF dirty /\ sinceSave > SaveDelay
             THEN /\ flash' = [flash EXCEPT !["settings"] = live["settings"]]
                  /\ dirty' = FALSE
                  /\ sinceSave' = 1
             ELSE /\ UNCHANGED <<flash, dirty>>
                  /\ sinceSave' = IF sinceSave > SaveDelay THEN sinceSave
                                  ELSE sinceSave + 1
  /\ UNCHANGED <<saving, session, bounds>>

\* clearNvs() of the settings, then of the configuration, then the format.
WipeFirst ==
  IF "settings" \in wipe THEN {"settings"}
  ELSE IF Config \subseteq wipe THEN Config ELSE wipe

Wipe ==
  /\ phase = "ending" /\ wipe # {}
  /\ flash' = [k \in Kept |-> IF k \in WipeFirst THEN Blank(k) ELSE flash[k]]
  /\ wipe' = wipe \ WipeFirst
  /\ UNCHANGED <<phase, ram, saving, session, pending, power, ghosts, bounds>>

\* ESP.restart() or deep sleep: what the debounce has not saved is lost.
Restart ==
  /\ phase = "ending" /\ wipe = {}
  /\ phase' = "down"
  /\ excused' = excused \cup Unsaved
  /\ UNCHANGED <<ram, flash, saving, session, system, told, bounds>>

\* The power fails, or a join from the provisioning mode restarts the device.
PowerCut ==
  /\ phase # "down" /\ events < MaxEvents
  /\ phase' = "down"
  /\ excused' = excused \cup Unanswered \cup Unsaved
  /\ events' = events + 1
  /\ saving' = {} /\ upload' = "none" /\ pending' = "none" /\ wipe' = {}
  /\ reader' = "ended" /\ restore' = NoRestore
  /\ UNCHANGED <<ram, flash, power, told, restores>>

\* setup(): everything is read back, and a first save of the settings is due.
StartUp(config) ==
  /\ phase = "down"
  /\ phase' = "up"
  /\ live' = [i \in Items |-> IF i = "system" THEN config ELSE flash[i]]
  /\ dirty' = TRUE
  /\ sinceSave' = SaveDelay + 1
  /\ power' = [on |-> TRUE, fade |-> "live", at |-> 0]
  /\ UNCHANGED <<flash, session, pending, wipe, ghosts, restores>>

Boot == StartUp(flash["system"]) /\ UNCHANGED <<saving, events>>

\* holdingRescueAtBoot(): scripting is turned off and the configuration saved.
RescueBoot ==
  /\ events < MaxEvents
  /\ \E v \in Values : StartUp(v)
  /\ saving' = Config
  /\ events' = events + 1

Init ==
  /\ phase = "up"
  /\ live = [i \in Items |-> Default]
  /\ flash = [k \in Kept |-> Blank(k)]
  /\ dirty = TRUE /\ sinceSave = SaveDelay + 1
  /\ saving = {}
  /\ upload = "none" /\ reader = "ended" /\ restore = NoRestore
  /\ pending = "none" /\ wipe = {}
  /\ power = [on |-> TRUE, fade |-> "live", at |-> 0]
  /\ told = flash /\ excused = {}
  /\ events = 0 /\ restores = 0

Next ==
  \/ ChangeSettings \/ ChangeOrder \/ ChangePart \/ ChangeConfig \/ SaveKey
  \/ FileStart \/ DeleteFile \/ RestoreStart \/ RestoreStep \/ UploadEnds
  \/ Request \/ Flip \/ Turn \/ Wipe \/ Restart \/ PowerCut \/ Boot \/ RescueBoot

Spec == Init /\ [][Next]_vars

\* The loop runs, a save and a reset go on, and an upload ends: the read
\* timeout of the server ends one that stalls.
FairSpec ==
  /\ Spec
  /\ WF_vars(Turn) /\ WF_vars(SaveKey) /\ WF_vars(Wipe) /\ WF_vars(Restart)
  /\ WF_vars(UploadEnds)

-----------------------------------------------------------------------------
Sessions ==
  [value : Values, manifest : BOOLEAN, open : BOOLEAN, working : [Config -> Values],
   touched : BOOLEAN, applied : SUBSET Kept, written : SUBSET Kept]

Powers == [on : BOOLEAN, fade : {"live", "out", "off", "in"}, at : 0..Fade]

TypeOK ==
  /\ phase \in {"up", "ending", "down"}
  /\ live \in [Items -> Values]
  /\ flash \in [Kept -> Values \cup {NoFile, Part}]
  /\ told \in [Kept -> Values \cup {NoFile}]
  /\ \A i \in Items : flash[i] \in Values /\ told[i] \in Values
  /\ dirty \in BOOLEAN /\ sinceSave \in 0..(SaveDelay + 1)
  /\ saving \in {{}, {"system"}, Config}
  /\ upload \in {"none", "restore", "file"}
  /\ reader \in {"reading", "ended", "bad"}
  /\ restore \in Sessions
  /\ pending \in Requests \cup {"none"}
  /\ wipe \subseteq Kept
  /\ power \in Powers
  /\ excused \subseteq Kept
  /\ events \in 0..MaxEvents /\ restores \in 0..MaxRestores

\* The configuration the device runs is the one on flash, except while it is
\* being saved: a restore changes neither before it has read the whole archive
\* (FsRestoreSink.h).
ConfigIsSaved ==
  phase = "up" => \A c \in Config \ saving : live[c] = flash[c]

\* What an answered request or a restore said is what the device runs, settings
\* and configuration; an app order that was restored waits for a restart.
RunsWhatWasTold ==
  phase = "up" =>
    \A i \in (Config \cup {"settings"}) \ (excused \cup Unanswered) : live[i] = told[i]

\* What goes on keeps the loop in one request, and only while the device is up.
OneAtATime ==
  /\ phase # "up" => upload = "none" /\ saving = {}
  /\ phase # "ending" => wipe = {}
  /\ wipe \in {{}, {"settings"}, Kept, Kept \ {"settings"}, {"order", "file"}}
  /\ \A k \in wipe : told[k] = Blank(k)
  /\ upload = "file" => saving = {}
  /\ phase = "up" /\ ~dirty => live["settings"] = flash["settings"]

\* How far a restore has got: the configuration is staged, settings, app order
\* and a file are in place as soon as they are counted.
RestoreInPlace ==
  upload = "restore" =>
    /\ restore.applied \cap Config # {} => restore.touched
    /\ restore.applied \ Config \subseteq restore.written
    /\ restore.open => "file" \in restore.written \ restore.applied
    /\ reader # "ended" => saving = {} /\ restore.written \cap Config = {}
    /\ reader = "ended" => restore.applied \subseteq restore.written
    /\ \A c \in Config :
         /\ reader = "reading" =>
              restore.working[c] = IF c \in restore.applied THEN restore.value
                                   ELSE live[c]
         /\ reader = "ended" /\ c \in restore.applied => live[c] = restore.value
         /\ c \notin excused \cup restore.written => live[c] = told[c]
    /\ "settings" \in restore.applied => live["settings"] = restore.value
    /\ \A k \in restore.applied \ Config : flash[k] = restore.value

StoreInv == TypeOK /\ ConfigIsSaved /\ RunsWhatWasTold /\ OneAtATime /\ RestoreInPlace

\* Whatever a request or a restore that was answered with a success said, or a
\* reset promised, is on flash, and so is there after the next start, unless a
\* later one replaced it.  Settings may still wait for the debounce.  Nothing is
\* promised of an item (`excused`) whose last write failed half way: an upload
\* that was refused or cut, a restore that was rejected after it had written
\* settings, app order or a file, and a save or reset the power failed in.  The
\* configuration is never among these for a rejected restore.  Nor is anything
\* promised of a restored app order once part of the arrangement is changed before
\* the restart, or of an order whose removed script could not be saved
\* (CoreEngine.cpp:219, FsRestoreSink.cpp:64).
ToldIsStored ==
  \A k \in Kept \ (excused \cup Unanswered) :
    \/ flash[k] = told[k]
    \/ k = "settings" /\ dirty /\ phase # "down"

\* Restore.h, of the sink: "nothing is persisted until commit(), which only runs
\* once the whole archive has parsed.  A failed restore must therefore leave the
\* device untouched."
FailedRestoreChangesNothing ==
  upload = "restore" /\ reader = "bad" => restore.written = {}

\* A reboot, sleep or reset that was answered happens, however the power
\* animation is turned round (main.cpp: loop, DeviceServices.h: runPending).
RequestRuns == pending # "none" ~> phase # "up"
============================================================================
