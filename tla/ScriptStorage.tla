--------------------------- MODULE ScriptStorage ---------------------------
(***************************************************************************)
(* What scripts keep: the path of a store.set() from the interpreter to    *)
(* flash, and what an upload, a settings change, a deletion and a restart  *)
(* do to it.  ScriptBindings.cpp (the one parked write), ScriptHost.cpp    *)
(* (who drains it when), ScriptService.h (the management calls),           *)
(* ScriptStore.cpp and AtomicFile.h (flash), in the order of main.cpp's    *)
(* loop().                                                                 *)
(*                                                                         *)
(* One thread; the hard parts are the order of the loop and a power cut    *)
(* between two steps on flash.  A store is a map with two keys: one the    *)
(* script writes and one setting the user writes, each with the number of  *)
(* its last change.  A source is known by whether it declares the setting. *)
(* Scripts are apps; modules and their reloads are left out.               *)
(***************************************************************************)
EXTENDS Naturals, FiniteSets

CONSTANTS
  Scripts,       \* install names
  Sources,       \* what can be uploaded
  Configurable,  \* the sources that declare the setting
  NoSource,      \* no such file, or not installed
  NoStore,       \* no such file, or no such entry
  FlushInterval, \* kFlushIntervalMs in turns of the loop
  MaxWrites,     \* bound on the script writes of a behaviour
  MaxConfigs,    \* bound on the settings changes
  MaxUploads,    \* bound on the uploads
  MaxFails,      \* bound on the flash writes that fail
  MaxRestarts    \* bound on power cuts and reboots

\* The script's key and the user's setting, each by the number of its change.
Store == [own: Nat, cfg: Nat]

ASSUME StorageAssumption ==
  /\ Configurable \subseteq Sources
  /\ NoSource \notin Sources \cup Scripts
  /\ NoStore \notin Store
  /\ FlushInterval \in Nat \ {0}
  /\ {MaxWrites, MaxConfigs, MaxUploads, MaxFails, MaxRestarts} \subseteq Nat

VARIABLES
  installed,         \* apps_, by the source they were compiled from
  mem,               \* _stores of the prelude: what store.get() sees
  parked,            \* g_ctx.storeFlush, storeOwner, storeDirty
  dirty,             \* dirty_ of ScriptStore
  since,             \* turns since lastFlushMs_
  srcFile, storeFile,\* /SCRIPTS/<name>.ax and .store.json
  queue,             \* the map a flush has moved out of dirty_
  job,               \* the file being written
  after,             \* what follows the flush
  phase, turn,       \* where the loop is, and the scripts it still has to drive
  told,              \* what the store was last told of each script
  age,               \* turns the oldest write has waited for its first flush
  writes, configs, uploads, fails, restarts

ram == <<installed, mem, parked, dirty>>
flash == <<srcFile, storeFile>>
flushing == <<queue, job, after>>
loop == <<phase, turn>>
bounds == <<writes, configs, uploads, fails, restarts>>
vars == <<ram, since, flash, flushing, loop, told, age, bounds>>

-----------------------------------------------------------------------------
(* Stores *)

Empty == [own |-> 0, cfg |-> 0]
Default == 1          \* the setting at its declared default
MapOf(v) == IF v = NoStore THEN Empty ELSE v

\* seedConfigDefaults(): what is missing of the declared settings.
Seed(src, v) ==
  IF src \in Configurable /\ MapOf(v).cfg = 0
  THEN [MapOf(v) EXCEPT !.cfg = Default] ELSE v

\* dropUndeclaredValues()
Prune(old, new, v) ==
  IF v # NoStore /\ old \in Configurable /\ new \notin Configurable
  THEN [v EXCEPT !.cfg = 0] ELSE v

\* readStore(): the pending map wins over the file.
Stored(n) == IF dirty[n] # NoStore THEN dirty[n] ELSE storeFile[n]

NoWrite == [owner |-> NoSource, data |-> NoStore]
NoJob == [file |-> "none", name |-> NoSource, data |-> NoStore, tmp |-> "none"]
Nothing == [op |-> "none", name |-> NoSource, source |-> NoSource]

\* drainStoreFlush() into storeChanged()
Drained(p, d) ==
  IF p = NoWrite THEN d ELSE [d EXCEPT ![p.owner] = p.data]

\* A hook that does not write, writes, or writes more than the limit.
Hooks == {"quiet", "set", "oversized"}
MapAfter(v, h) ==
  IF h = "quiet" THEN v ELSE [MapOf(v) EXCEPT !.own = writes + 1]
ParkedAfter(n, v, h) ==
  IF h = "set" THEN [owner |-> n, data |-> MapAfter(v, h)] ELSE parked
Counted(h) ==
  /\ h # "quiet" => writes < MaxWrites
  /\ writes' = IF h = "quiet" THEN writes ELSE writes + 1

Idle == queue = [n \in Scripts |-> NoStore] /\ job = NoJob /\ after = Nothing

Init ==
  /\ installed = [n \in Scripts |-> NoSource]
  /\ mem = [n \in Scripts |-> NoStore]
  /\ parked = NoWrite
  /\ dirty = [n \in Scripts |-> NoStore]
  /\ since = 0
  /\ srcFile = [n \in Scripts |-> NoSource]
  /\ storeFile = [n \in Scripts |-> NoStore]
  /\ queue = [n \in Scripts |-> NoStore]
  /\ job = NoJob
  /\ after = Nothing
  /\ phase = "commands"
  /\ turn = {}
  /\ told = [n \in Scripts |-> NoStore]
  /\ age = 0
  /\ writes = 0 /\ configs = 0 /\ uploads = 0 /\ fails = 0 /\ restarts = 0

-----------------------------------------------------------------------------
(* Commands: what the loop does before the scripts' turn *)

\* ScriptHost::set() of an app that is not refused: purge, load the store, run
\* the body and setup(), drain.
Compiled(n, src, v, h) ==
  /\ Counted(h)
  /\ installed' = [installed EXCEPT ![n] = src]
  /\ mem' = [mem EXCEPT ![n] = MapAfter(Seed(src, v), h)]
  /\ parked' = NoWrite

DirtyAfter(n, src, v, h, d) == Drained(ParkedAfter(n, Seed(src, v), h), d)

\* dropSettingsTheSourceNoLongerDeclares(): saved before the install is tried.
Kept(n, src) == Prune(srcFile[n], src, Stored(n))
WithKept(n, src, d) ==
  IF Kept(n, src) = Stored(n) THEN d ELSE [d EXCEPT ![n] = Kept(n, src)]

\* flush() moves the whole map out before it writes the first file.
StartFlush(d, then) ==
  /\ queue' = d
  /\ dirty' = [n \in Scripts |-> NoStore]
  /\ after' = then
  /\ UNCHANGED job

\* setScript(), installed; the source is saved behind a flush.
Upload(n, src, h) ==
  /\ phase = "commands" /\ Idle
  /\ uploads < MaxUploads
  /\ uploads' = uploads + 1
  /\ Compiled(n, src, Kept(n, src), h)
  /\ StartFlush(DirtyAfter(n, src, Kept(n, src), h, WithKept(n, src, dirty)),
                [op |-> "save", name |-> n, source |-> src])
  /\ told' = DirtyAfter(n, src, Kept(n, src), h, WithKept(n, src, told))
  /\ age' = 0
  /\ UNCHANGED <<since, flash, loop, configs, fails, restarts>>

\* Mutant: a refused upload is stored all the same.
UploadRefusedSaved(n, src) ==
  /\ phase = "commands" /\ Idle
  /\ uploads < MaxUploads
  /\ uploads' = uploads + 1
  /\ StartFlush(WithKept(n, src, dirty), [op |-> "save", name |-> n, source |-> src])
  /\ told' = WithKept(n, src, told)
  /\ age' = 0
  /\ UNCHANGED <<installed, mem, parked, since, flash, loop, writes, configs,
                 fails, restarts>>

\* setScript(), refused: no room, no memory, too many scripts.
UploadRefused(n, src) ==
  /\ phase = "commands" /\ Idle
  /\ uploads < MaxUploads
  /\ uploads' = uploads + 1
  /\ dirty' = WithKept(n, src, dirty)
  /\ told' = WithKept(n, src, told)
  /\ UNCHANGED <<installed, mem, parked, since, flash, flushing, loop, age,
                 writes, configs, fails, restarts>>

\* setScriptConfig(): a refused one changes nothing and is no step.
Configure(n, h) ==
  /\ phase = "commands" /\ Idle
  /\ srcFile[n] \in Configurable
  /\ configs < MaxConfigs
  /\ configs' = configs + 1
  /\ LET patch == [MapOf(Stored(n)) EXCEPT !.cfg = Default + configs + 1] IN
       /\ Compiled(n, srcFile[n], patch, h)
       /\ dirty' = [DirtyAfter(n, srcFile[n], patch, h, dirty) EXCEPT ![n] = patch]
       /\ told' = [DirtyAfter(n, srcFile[n], patch, h, told) EXCEPT ![n] = patch]
  /\ UNCHANGED <<since, flash, flushing, loop, age, uploads, fails, restarts>>

\* removeScript(): the host forgets it, then the files go, one by one.
Delete(n) ==
  /\ phase = "commands" /\ Idle
  /\ \/ installed[n] # NoSource \/ srcFile[n] # NoSource
     \/ dirty[n] # NoStore \/ storeFile[n] # NoStore   \* else it changes nothing
  /\ installed' = [installed EXCEPT ![n] = NoSource]
  /\ mem' = [mem EXCEPT ![n] = NoStore]
  /\ dirty' = [dirty EXCEPT ![n] = NoStore]
  /\ told' = [told EXCEPT ![n] = NoStore]
  /\ after' = [op |-> "dropSource", name |-> n, source |-> NoSource]
  /\ UNCHANGED <<parked, since, flash, queue, job, loop, age, bounds>>

DropSource ==
  /\ after.op = "dropSource"
  /\ srcFile' = [srcFile EXCEPT ![after.name] = NoSource]
  /\ after' = [after EXCEPT !.op = "dropStore"]
  /\ UNCHANGED <<told, ram, since, storeFile, queue, job, loop, age, bounds>>

DropStore ==
  /\ after.op = "dropStore"
  /\ storeFile' = [storeFile EXCEPT ![after.name] = NoStore]
  /\ StartFlush(dirty, [op |-> "removed", name |-> after.name, source |-> NoSource])
  /\ age' = IF parked = NoWrite THEN 0 ELSE age
  /\ UNCHANGED <<told, installed, mem, parked, since, srcFile, loop, bounds>>

\* A button or should_show before the scripts' turn, a loop(), a callback or a
\* change of visibility in it: the host drains after each.
Hook(n, h) ==
  /\ phase \in {"commands", "scripts"} /\ Idle
  /\ installed[n] # NoSource
  /\ h # "quiet" \/ parked # NoWrite
  /\ Counted(h)
  /\ mem' = [mem EXCEPT ![n] = MapAfter(mem[n], h)]
  /\ dirty' = Drained(ParkedAfter(n, mem[n], h), dirty)
  /\ told' = Drained(ParkedAfter(n, mem[n], h), told)
  /\ parked' = NoWrite
  /\ UNCHANGED <<installed, since, flash, flushing, loop, age, configs, uploads,
                 fails, restarts>>

-----------------------------------------------------------------------------
(* The rest of the loop *)

\* ScriptHost::tick() drains before it drives anybody.
ScriptsTurn ==
  /\ phase = "commands" /\ Idle
  /\ phase' = "scripts"
  /\ dirty' = Drained(parked, dirty)
  /\ told' = Drained(parked, told)
  /\ parked' = NoWrite
  /\ UNCHANGED <<installed, mem, since, flash, flushing, turn, age, bounds>>

\* Mutant: tick() starts its clock again whenever it looks.
StoreTurnRestarts(pages) ==
  /\ phase = "scripts" /\ Idle
  /\ phase' = "draw"
  /\ turn' = pages
  /\ since' = 0
  /\ IF dirty # [n \in Scripts |-> NoStore] /\ since >= FlushInterval
     THEN /\ StartFlush(dirty, [op |-> "tick", name |-> NoSource, source |-> NoSource])
          /\ age' = 0
     ELSE UNCHANGED <<dirty, flushing, age>>
  /\ UNCHANGED <<told, installed, mem, parked, flash, bounds>>

\* ScriptStore::tick(), and the page or the two pages renderFrame() draws.
StoreTurn(pages) ==
  /\ phase = "scripts" /\ Idle
  /\ phase' = "draw"
  /\ turn' = pages
  /\ IF dirty # [n \in Scripts |-> NoStore] /\ since >= FlushInterval
     THEN /\ StartFlush(dirty, [op |-> "tick", name |-> NoSource, source |-> NoSource])
          /\ age' = 0
          /\ UNCHANGED since
     ELSE /\ since' = IF dirty = [n \in Scripts |-> NoStore] THEN 0 ELSE since
          /\ UNCHANGED <<dirty, flushing, age>>
  /\ UNCHANGED <<told, installed, mem, parked, flash, bounds>>

\* ScriptApp::render(): the one entry nothing drains behind.
Draw(n, h) ==
  /\ phase = "draw" /\ Idle /\ n \in turn
  /\ Counted(h)
  /\ mem' = [mem EXCEPT ![n] = MapAfter(mem[n], h)]
  /\ parked' = ParkedAfter(n, mem[n], h)
  /\ turn' = turn \ {n}
  /\ UNCHANGED <<told, installed, dirty, since, flash, flushing, phase, age, configs,
                 uploads, fails, restarts>>

AgeCap == FlushInterval + 2

Waiting == parked # NoWrite \/ dirty # [n \in Scripts |-> NoStore]

\* The frame is shown; time passes.
LoopEnd ==
  /\ phase = "draw" /\ Idle /\ turn = {}
  /\ phase' = "commands"
  /\ since' = IF since < FlushInterval THEN since + 1 ELSE since
  /\ age' = IF ~Waiting THEN 0 ELSE IF age < AgeCap THEN age + 1 ELSE age
  /\ UNCHANGED <<told, ram, flash, flushing, turn, bounds>>

\* A pending reboot: what is queued is written first.
Reboot ==
  /\ phase = "draw" /\ Idle /\ turn = {}
  /\ restarts < MaxRestarts
  /\ StartFlush(dirty, [op |-> "reboot", name |-> NoSource, source |-> NoSource])
  /\ UNCHANGED <<told, installed, mem, parked, since, flash, loop, age, bounds>>

-----------------------------------------------------------------------------
(* Flash *)

\* The next file of the flush.
PickStore(n) ==
  /\ job = NoJob /\ queue[n] # NoStore
  /\ job' = [file |-> "store", name |-> n, data |-> queue[n], tmp |-> "none"]
  /\ UNCHANGED <<told, ram, since, flash, queue, after, loop, age, bounds>>

\* save() writes the source behind the flush.
PickSource ==
  /\ job = NoJob /\ queue = [n \in Scripts |-> NoStore] /\ after.op = "save"
  /\ job' = [file |-> "source", name |-> after.name, data |-> NoStore, tmp |-> "none"]
  /\ UNCHANGED <<told, ram, since, flash, queue, after, loop, age, bounds>>

\* atomicfile::write() fills <path>.tmp.  A failing open, write or rename counts
\* as a file cut short: the old file stays, and write() says so.
FillTmp(whole) ==
  /\ job.file # "none" /\ job.tmp = "none"
  /\ ~whole => fails < MaxFails
  /\ fails' = IF whole THEN fails ELSE fails + 1
  /\ job' = [job EXCEPT !.tmp = IF whole THEN "whole" ELSE "short"]
  /\ UNCHANGED <<told, ram, since, flash, queue, after, loop, age, writes, configs,
                 uploads, restarts>>

JobDone ==
  /\ job' = NoJob
  /\ queue' = IF job.file = "store" THEN [queue EXCEPT ![job.name] = NoStore] ELSE queue
  /\ after' = IF job.file = "source" THEN Nothing ELSE after

\* Mutant: the file is renamed without being read back; a short one reads as empty.
RenameUnverified ==
  /\ job.tmp \in {"whole", "short"}
  /\ storeFile' = IF job.file = "store"
                  THEN [storeFile EXCEPT ![job.name] =
                          IF job.tmp = "whole" THEN job.data ELSE Empty]
                  ELSE storeFile
  /\ srcFile' = IF job.file = "source"
                THEN [srcFile EXCEPT ![job.name] = after.source] ELSE srcFile
  /\ JobDone
  /\ UNCHANGED <<ram, since, loop, told, age, bounds>>

\* It reads the file back, and renames it over the old one only when whole.
Rename ==
  /\ job.tmp = "whole"
  /\ storeFile' = IF job.file = "store"
                  THEN [storeFile EXCEPT ![job.name] = job.data] ELSE storeFile
  /\ srcFile' = IF job.file = "source"
                THEN [srcFile EXCEPT ![job.name] = after.source] ELSE srcFile
  /\ JobDone
  /\ UNCHANGED <<told, ram, since, loop, age, bounds>>

\* Mutant: flush() forgets what it could not write.
WriteFailsForgets ==
  /\ job.tmp = "short"
  /\ JobDone
  /\ UNCHANGED <<told, ram, since, flash, loop, age, bounds>>

\* A store that could not be written is queued again; a source is not.
WriteFails ==
  /\ job.tmp = "short"
  /\ dirty' = IF job.file = "store" THEN [dirty EXCEPT ![job.name] = job.data] ELSE dirty
  /\ JobDone
  /\ UNCHANGED <<told, installed, mem, parked, since, flash, loop, age, bounds>>

\* flush() returns.
FlushEnds ==
  /\ job = NoJob /\ queue = [n \in Scripts |-> NoStore]
  /\ after.op \in {"tick", "removed"}
  /\ after' = Nothing
  /\ since' = IF after.op = "tick" THEN 0 ELSE since
  /\ UNCHANGED <<told, ram, flash, queue, job, loop, age, bounds>>

-----------------------------------------------------------------------------
(* Restarts *)

\* RAM is lost, and setup() goes through the stored scripts.
Restart ==
  /\ restarts' = restarts + 1
  /\ installed' = [n \in Scripts |-> NoSource]
  /\ mem' = [n \in Scripts |-> NoStore]
  /\ parked' = NoWrite
  /\ dirty' = [n \in Scripts |-> NoStore]
  /\ queue' = [n \in Scripts |-> NoStore]
  /\ job' = NoJob
  /\ after' = Nothing
  /\ since' = 0
  /\ told' = storeFile
  /\ age' = 0
  /\ phase' = "boot"
  /\ turn' = {n \in Scripts : srcFile[n] # NoSource}
  /\ UNCHANGED <<flash, writes, configs, uploads, fails>>

PowerCut == restarts < MaxRestarts /\ Restart

RebootNow ==
  /\ job = NoJob /\ queue = [n \in Scripts |-> NoStore] /\ after.op = "reboot"
  /\ Restart

\* loadAll(): each stored script is installed, or refused.
Load(n, h) ==
  /\ phase = "boot" /\ n \in turn
  /\ turn' = turn \ {n}
  /\ Compiled(n, srcFile[n], storeFile[n], h)
  /\ dirty' = DirtyAfter(n, srcFile[n], storeFile[n], h, dirty)
  /\ told' = DirtyAfter(n, srcFile[n], storeFile[n], h, told)
  /\ UNCHANGED <<since, flash, flushing, phase, age, configs, uploads, fails,
                 restarts>>

LoadRefused(n) ==
  /\ phase = "boot" /\ n \in turn
  /\ turn' = turn \ {n}
  /\ UNCHANGED <<told, ram, since, flash, flushing, phase, age, bounds>>

Booted ==
  /\ phase = "boot" /\ turn = {}
  /\ phase' = "commands"
  /\ UNCHANGED <<told, ram, since, flash, flushing, turn, age, bounds>>

Commands ==
  \E n \in Scripts :
    \/ \E src \in Sources : (\E h \in Hooks : Upload(n, src, h)) \/ UploadRefused(n, src)
    \/ \E h \in Hooks : Configure(n, h) \/ Hook(n, h)
    \/ Delete(n)

Flashing ==
  \/ DropSource \/ DropStore
  \/ \E n \in Scripts : PickStore(n)
  \/ PickSource
  \/ \E whole \in BOOLEAN : FillTmp(whole)
  \/ Rename \/ WriteFails \/ FlushEnds \/ RebootNow

Looping ==
  \/ ScriptsTurn
  \/ \E pages \in SUBSET {n \in Scripts : installed[n] # NoSource} :
       Cardinality(pages) <= 2 /\ StoreTurn(pages)
  \/ \E n \in Scripts, h \in Hooks : Draw(n, h)
  \/ LoopEnd
  \/ \E n \in Scripts : (\E h \in Hooks : Load(n, h)) \/ LoadRefused(n)
  \/ Booted

Next == Commands \/ Flashing \/ Looping \/ Reboot \/ PowerCut

Spec == Init /\ [][Next]_vars

\* The loop runs; commands, reboots and power cuts need not come.
FairSpec == Spec /\ WF_vars(Flashing \/ Looping)

-----------------------------------------------------------------------------
(* Properties *)

Flushes == {"save", "removed", "tick", "reboot"}

TypeOK ==
  /\ installed \in [Scripts -> Sources \cup {NoSource}]
  /\ mem \in [Scripts -> Store \cup {NoStore}]
  /\ parked \in [owner: Scripts, data: Store] \cup {NoWrite}
  /\ dirty \in [Scripts -> Store \cup {NoStore}]
  /\ queue \in [Scripts -> Store \cup {NoStore}]
  /\ told \in [Scripts -> Store \cup {NoStore}]
  /\ storeFile \in [Scripts -> Store \cup {NoStore}]
  /\ srcFile \in [Scripts -> Sources \cup {NoSource}]
  /\ \/ job = NoJob
     \/ job \in [file: {"store"}, name: Scripts, data: Store,
                 tmp: {"none", "whole", "short"}]
     \/ job \in [file: {"source"}, name: Scripts, data: {NoStore},
                 tmp: {"none", "whole", "short"}]
  /\ \/ after = Nothing
     \/ after \in [op: {"save"}, name: Scripts, source: Sources]
     \/ after \in [op: {"dropSource", "dropStore", "removed"}, name: Scripts,
                   source: {NoSource}]
     \/ after \in [op: {"tick", "reboot"}, name: {NoSource}, source: {NoSource}]
  /\ writes \in Nat /\ configs \in Nat

Deleting(n) == after.op \in {"dropSource", "dropStore"} /\ after.name = n

\* What readStore() answers, or will once the call under way is over: the
\* write being flushed, the one queued, or the file.
Latest ==
  [n \in Scripts |-> IF Deleting(n) THEN NoStore
                     ELSE IF queue[n] # NoStore THEN queue[n]
                     ELSE Stored(n)]

\* What was handed to the store last is what readStore() answers, whatever
\* flush failed or is half done, so an upload or a settings change never
\* starts from an older map (ScriptStore.cpp: readStore, flush).
ReadsWhatWasTold == Latest = told

NoneQueued == queue = [n \in Scripts |-> NoStore]

\* A flush owns what it has moved out of dirty_; the file being written is one
\* of its entries; a deletion has dropped the entry of its script first.
FlushInv ==
  /\ \A n \in Scripts : queue[n] # NoStore => dirty[n] = NoStore
  /\ job.file = "store" => queue[job.name] = job.data
  /\ job.file = "source" => after.op = "save" /\ NoneQueued
  /\ ~NoneQueued \/ job # NoJob => after.op \in Flushes
  /\ \A n \in Scripts : Deleting(n) => dirty[n] = NoStore
  /\ phase = "boot" => Idle

\* The inductive invariant.
IInv == TypeOK /\ FlushInv /\ ReadsWhatWasTold

\* Whatever fails or loses power, a store file only ever changes to the whole
\* map the store was told last (ScriptStore.cpp: flush; AtomicFile.h).
Storage == INSTANCE WriteBack WITH
  Names <- Scripts, Values <- Store \cup {NoStore},
  latest <- told, saved <- storeFile

StorageIsWriteBack == Storage!WriteBackSpec

\* The interval is a throttle, not a debounce: however often scripts write, a
\* power cut costs at most the interval, the turn a drawing app's write waits
\* for the next loop included (ScriptStore.cpp: tick).
LossWindow == age <= FlushInterval

\* Between two calls, and as long as flash did not fail, each running script
\* is the one a restart would load (ScriptService.h: setScript, removeScript).
RunsWhatIsStored ==
  Idle /\ fails = 0 =>
    \A n \in Scripts : installed[n] # NoSource => installed[n] = srcFile[n]

\* Every write handed to the store leaves RAM for flash, failed attempts and
\* commands in between included, unless a restart takes it first.
WritesLand ==
  \A n \in Scripts : dirty[n] # NoStore ~> dirty[n] = NoStore /\ queue[n] = NoStore

=============================================================================
