# AWTRIX NG firmware: TLA+ models and proofs

This directory holds formal models of the AWTRIX NG firmware (an ESP32 driving
an LED matrix), the TLC configurations that check them, and proofs for the TLA+
proof system. Paths are relative to `src/src/` of the repository unless they
start with `docs/` or `test/`. `PROJECT.json` maps every definition to the lines
it stands for and lists runs, mutants, hazards, findings and theorems.

## 1. Inventory

### How the program runs

`main.cpp` has one **main loop**. Each turn, in this order: settings save, network,
discovery, HTTP API, MQTT, buttons and sensors, audio hand-off, `CoreEngine::tick`,
`ScriptHost::tick`, `ScriptStore::tick`, power animation or a rendered frame, OTA
health check, a pending reboot or reset. Almost all state belongs to it and
needs no lock. Beside it run

| task | file | shares with the loop |
| --- | --- | --- |
| audio | `system/AudioOutEsp32.cpp` | atomics, and strings under `lock_`, taken from the loop by try-lock |
| script HTTP worker | `system/ScriptHttpWorker.cpp` | a lossy request queue, a lossy result queue, a counter |
| resolver worker | `transport/net/HostResolverEsp32.cpp` | a query under a mutex, an answer in atomics |
| boot animation | `system/BootAnimator.cpp` | the panel, until it is stopped |
| sensor bus | `hal/SensorBus.cpp` | the last readings |

The environment moves on its own: Wi-Fi, the broker, DNS, web servers, radio
stations, users of the API, scripts, and the power supply.

### Components

| component | state | operations | what is hard | what makes it correct |
| --- | --- | --- | --- | --- |
| audio output | station and MP3 requested, stop flags, parked reports, the task's place | tune, play, stop, `tick`, the task's loop | two threads, requests that interrupt each other, a try-lock that fails | the tuned station comes back; a stop silences; status names what plays; the amplifier is off when nothing does |
| script HTTP | who asked, until when, callbacks, two bounded queues | ask, worker loop, drain, sweep, purge | loss when full, timeouts racing answers, scripts replaced while waiting | each request answered or failed exactly once, in the install that asked |
| host resolver | one query, a generation, an answer | `resolve`, `forget`, worker loop | cancellation, lookups that hang | no lost query, a deadline that holds |
| MQTT link | phase, cached server, failure count, backoff | `tick` | a moved broker, stale caches, loss between two checks | comes up by itself; status of one piece |
| script storage | RAM store of the interpreter, one parked write, the pending map, files | upload, settings, delete, hooks, flush, boot | failing flash, power cuts, order of flush and delete | reads what was told; files change whole; writes land |
| app rotation | list, current and target index, phase, direction | list change, next, previous, switch, tick | list changes under a transition, apps that decline | indices stay valid, the showing app stays, each app gets its turn |
| notifications | queue, start time, generation | push, dismiss, dismiss by name, update | late reports of the renderer, replaced fronts | none is cut short, the queue drains |
| core engine | pushed apps, scripts, arrangement, reports of the renderer, pause | API calls, install and removal of scripts, start, `tick` | a save that fails, a restart, reports of an earlier frame | what rotates is what is on flash; a removed script leaves nothing behind |
| render pipeline | last page, two page slots, scroll | `renderFrame` | handing a page over after a transition, dark panel | reports belong to the page drawn |
| script host and runtime | installed scripts, shared state, callbacks | install, remove, hooks | code that calls back into the host | isolation of scripts, order of hooks |
| script configuration | what a source declares | seed, merge, drop, patch | a source that changes under a store | user values survive, undeclared ones go |
| dispatch and command bus | a ring of commands | execute, push, pop | the ring is full | no command half done |
| MQTT session, HA discovery | flags of what is due, the prefix announced | connect, receive, publish, announce | a connection that is dead and not yet known to be | what the broker retains is what the device last said; one entry in Home Assistant |
| script MQTT bridge | topics, a bounded queue | subscribe, message, drain | three lists of subscriptions, limits, replay | the lists agree, no message is dropped |
| script modules | installed sources, the VM's cache, the depth of the recursion | install, remove, reload of dependents | code that calls back into the host, circular imports, flash read while RAM is ahead of it | nobody runs against a replaced module; what runs is what is stored |
| backup and restore | staged configuration, open file | entries, commit, abort | failure after files were written, power cuts | a failed restore leaves the configuration alone |
| settings, device configuration | dirty flag, time of the last save | set, debounce, save key by key | power cut between keys, reboot before the debounce | what was answered is stored |
| power animation | phase, progress | on, off, reverse | reversal half way | it ends, and lets a pending action run |
| DFPlayer | pending track, retries, reply parser | play, stop, serial replies | lost, late and refused frames | the track asked for is heard, `isPlaying()` is true of it |
| audio routing, buzzer | which sink plays | play, stop, volume | several sinks, a track still held back | one sound at a time |
| network service | mode, join attempt, access point | `tick` | loss while provisioning | back on the network by itself |
| system actions | one pending action | reboot, sleep, reset | two requests in one turn | flash is flushed first |
| boot animation | running, exited | start, stop | a task that does not stop | the panel has one owner |
| discovery, Art-Net, HTTP API, payload parsing, sensors, MP3 decoding, rendering, simulator, board support | mostly none | pure functions and I/O | formats | tests of the repository |

How they interact: the API, MQTT, buttons and scripts all end in `Dispatcher` or
`CoreEngine` calls on the main loop. `CoreEngine` asks scripts whether they want to
show, the renderer reports to `CoreEngine` what it drew, and the scripts reach HTTP,
MQTT, the rotation and flash through the callbacks of `ScriptServices`.

## 2. The modules

| module | models | state and actions |
| --- | --- | --- |
| `StatusRegister` | abstract | a status that shows each published value or a later one |
| `AudioOut` | `system/AudioOutEsp32.cpp` | one action per critical section or atomic access; `pc` is where the task is; `unseen` is `handoffSeq_ != seenSeq_` |
| `AsyncQueue` | `core/script/AsyncQueue.h` | `Push`, which drops the oldest |
| `ScriptHttp` | `ScriptHost.cpp`, `ScriptHttpWorker.cpp`, `Prelude.h` | a request is its id; `owned` are the keys of `httpOwner_`, `cbs` of `_http_cbs`; hooks run inside a tick |
| `FetchWindow` | the clock of one https request | grace after joining, retries when the heap is tight, the window of the host |
| `HostResolver` | `HostResolverEsp32.cpp` | a copy of the generation is known by whether it is current |
| `MqttLink` | `MqttLink.cpp` on top of `HostResolver` | one `tick()` in several steps, so that the other actors move in between |
| `WriteBack` | abstract | a write-back store: what is saved changes only to what was told last |
| `ScriptStorage` | `ScriptBindings.cpp`, `ScriptHost.cpp`, `ScriptService.h`, `ScriptStore.cpp`, `AtomicFile.h`, `main.cpp` | the path of a store to flash, one action per file step |
| `AppHost`, `NotificationManager` | the classes of these names | a record per object, an operator per method |
| `CoreEngine` | `CoreEngine.cpp`, `RenderPipeline.cpp`, `AppOrderStore.cpp`, `main.cpp` | commands, the engine's tick, the frame, in the order of the loop; the start that loads the arrangement, then the scripts |
| `Sound` | `AudioRouter.cpp`, `DfTrackSink.h`; the player is external | `df` is the driver with its wire; one action per command of the router, per tick, and per thing the player may do with a frame |
| `ScriptModules` | `ScriptHost.cpp`, `ScriptService.h`, `BerryVM.cpp`, `main.cpp` | the recursion of `reloadDependents()` is `stack`, one entry per level with the dependents left; one action per reload |
| `MqttSession` | `MqttService.cpp`, `StatePublishCadence.h`, `HaAnnouncer.cpp`, `ScriptMqttBridge.cpp`, `ScriptHost.cpp`; the broker is external | a turn of the loop in three steps (link and packet, publishing, scripts); users, scripts and the network between any two |
| `DeviceStore` | `RestoreApplier.cpp`, `FsRestoreSink.cpp`, `ZipReader.cpp`, `HttpApiServer.cpp`, `CoreEngine.cpp`, `AppOrderStore.cpp`, `DeviceServices.h`, `DeviceConfig.cpp`, `PowerAnimator.cpp`, `main.cpp` | RAM and flash per item; one action per writer: a request, a removed script, an entry of an archive, a key saved, a namespace cleared, a turn, the rescue combo at the start |
| `MCAudioOut`, `MCCoreEngine`, `MCScriptModules` | | small instances |
| `*_proofs` | | theorems about the module of that name; `MqttLink_proofs` has those of `HostResolver` too, `AudioOut_proofs` those of `Sound`, `ScriptHttp_proofs` those of `FetchWindow` |

`MqttSession` starts where `MqttLink` ends, at a link that is up, and adds what
`MqttLink` leaves out: that the client may believe so when it no longer is. `Sound`
has the outputs beside `AudioOut`'s. `DeviceStore` and `ScriptStorage` divide flash
between them. `MqttLink` composes resolver and link by extension: the link's actions call the
resolver's operators. `AudioOut` implements `StatusRegister` and `ScriptStorage`
implements `WriteBack`, each by an `INSTANCE` with a refinement mapping. `ResolverSpec`
is the resolver alone, with a caller that polls and forgets as it likes; the theorems
about it do not depend on the link.

A definition commented "Mutant" is a plausible bug of the one it stands before.
Nothing uses it; `PROJECT.json` says which property fails when it takes the place
of the original.

## 3. The runs

| run | config | bounds | what it shows |
| --- | --- | --- | --- |
| `audio` | `MCAudioOut.cfg` | one playlist station, 3 requests of which at most 2 tune it and at most 2 are MP3s, the task may fail to start | typing, status, driver, gain (`AudioSafe`); the station comes back, a stop silences, each MP3 is looked at, the hand-off is a status register |
| `http` | `ScriptHttp.cfg` | one name, 2 requests, 2 installs, queues of 2 and 1 | no request lost, none sent twice, each callback called once at most and never in a later install (`HttpInv`), slots freed, scripts hear, nobody waits behind a requeued request |
| `window` | `FetchWindow.cfg` | the code's own constants in units of 500 ms | either delay alone fits the window (`WindowInv`); no request stays for ever |
| `link` | `MqttLink.cfg` | `kReresolveAfterFailures`; nothing else to bound | both components' invariants (`LinkSafe`), the deadline, recovery, from stale addresses too |
| `storage` | `ScriptStorage.cfg` | 2 scripts, 2 sources, 2 writes, a settings change, 2 uploads, a failing flash write, a restart, interval of 2 turns | read-your-writes (`IInv`), the loss window, what runs is what is stored, write-back, writes land |
| `panel` | `MCCoreEngine.cfg` | 4 apps: one of the firmware, one pushed, two scripts of which one is headless and the other switched off at the start; 2 arrangements; 3 kinds of notification, 2 of them at a time; 2 moves, a restart being one | indices, pages, the saved list and what a removed script leaves (`IInv`), nothing cut short, the showing app stays, every app is shown, the queue drains |
| `sound` | `Sound.cfg` | 2 tracks, 3 commands, 2 refusals (`kMaxRetries`), a frame lost or late | one output commanded at a time, a silenced player silent or about to be (`SoundInv`), `isPlaying()` tells the truth once the wire is silent, a track is heard or superseded |
| `modules` | `MCScriptModules.cfg` | 3 modules and an app, 9 sources, the code's depth of 3, a refusal for want of heap, a restart | cache and names, and always a step to go on with (`ModulesInv`), importers are fresh, what runs is stored, each call ends |
| `session` | `MqttSession.cfg` | 2 scripts, 3 filters against a bridge and a queue of 2, 2 prefixes, 3 events, 2 packets on their way | subscriptions agree, nothing dropped, retained state, one entry in Home Assistant, catching up |
| `session_deaf` | `MqttSession_deaf.cfg` | the same, with the command filter among the scripts' | finding 1 |
| `store` | `DeviceStore.cfg` | 2 values per item, 3 events, a restore, debounce and animation of 2 turns | staged configuration (`StoreInv`), what was told is stored, a pending action runs |
| `store_failed` | `DeviceStore_failed.cfg` | the same | finding 2 |

The mutants of `PROJECT.json` show that each of these can fail: there is one for
every property of a passing run.

Why the bounds are enough. Most are one above the number at which the interesting
case begins: two requests against a result queue of one overflow it; two installs are an old and a new script; one restart at
any step is every power cut, because what follows depends on flash alone; two moves
and two notifications are a list change under a transition under a front that
changes. Durations of one or two turns put every order of expiry, report and
command within reach. The sets of scripts and apps contain one of each
kind the code tells apart. Two bounds are lower, for the sake of time. `http` has no
more requests than its request queue has places, so that queue never overflows in the
run; `RequestsKept` proves for any capacity that it loses nothing. `audio` tunes one
station, twice: a request may replace another one at any step of the task, but the two
name the same station, so that an older one played in place of a newer one (section 6)
is not told apart; its safety properties are proved for any stations and any number of
requests. Theorems lift the safety properties to all values
(section 5). Counters that only identify (ids, generations, serials) are bounded
by `Max...` constants in the guards; `AppHost` and `NotificationManager` let time
stop at `Limit`, which no duration exceeds, because time is only ever compared.
Three filters are one more than the bridge
holds; three events are a break, a change meanwhile and another one after; a chain of
three imports is as deep as a reload goes, and module 1 importing 2 back closes a
circle. `NothingDropped` relies on `MaxTopics <= QueueCap`, which is 32 and 32 in the
code. Only `sound` switches the deadlock check off: an idle driver with no command
left (`MaxCommands`) waits for nothing, as the code does; the loop of the other models
keeps turning when all bounds are used up.

## 4. Fairness

Assumed of the program: the loop turns (`WF` of its steps) and each task is
scheduled (`WF` of its steps). Neither the order of commands, nor the outcome of
flash, Wi-Fi or a server, nor a power cut is fair, except where a property says
so in its own premise:

- `AudioOut`: `SF_vars(Tick)` because the loop finds the lock open again and
  again, as the task holds it for a few instructions; `SF_vars(ConnectOk)` says
  that a station that keeps being tried is reached in the end, without which "it
  comes back" could not hold.
- `MqttLink`: `Recovers` is stated under `WorkingNet` and a net that has become
  quiet (`QuietNet`: no more sessions that end, deadlines that pass or hosts that move;
  addresses that became stale before may still be cached anywhere); `QueryEnds` needs neither and holds with a worker that hangs for ever.
- `ScriptHttp`: the worker need not answer; what a script hears is then the sweep.
- `CoreEngine`: the loop's own `Turn`, and the start, which goes on to the next script
  until all are loaded (`Booting`).
- `Sound`: ticks, time, and a player that goes on taking frames; it need not
  accept them, reply or play to the end.
- `ScriptModules`: a management call or a start, once begun, runs to its end.
- `MqttSession`: the loop and time; `SF` of `Connect` and `Notice`, because a broker
  that keeps being tried is reached and a dead connection noticed (the keep-alive) in
  the end. Nothing is assumed of users, scripts or deliveries.
- `DeviceStore`: the loop, the saving of the next key and the next step of a reset;
  an upload ends, if only by the read timeout of the server. Requests, entries of an
  archive and flips of the switch are not fair; the number of flips is bounded, as a
  switch turned round for ever does hold a reboot back for ever.

## 5. Proofs

All proofs are checked leaf by leaf; the assumptions are those named in the modules
(`AudioAssumption`, `HttpAssumption`, `LinkAssumption`, `StorageAssumption`,
`EngineAssumption`, `StoreAssumption`, `SessionAssumption`, `ModulesAssumption`,
`WindowAssumption`, `SoundAssumption`):
constants have their types, `None` and its like are neither values nor names, the
flush interval is not zero, a queue has room for the bridge's filters, a request
outlives the grace and all its retries together, and the driver's timeout, retries and
budget are not zero.

- `AudioOut_proofs`: `TypeCorrect`, `StatusCorrect`, `DriverCorrect`,
  `GainCorrect`, their conjunction `AudioCorrect`, `StatusRefines`. The status claim
  is not inductive: `IInv` adds `ReportInv`, `PubInv`, `LocalsInv` and `DriverInv`,
  which relate the reports still parked, the publish call the task is in and its
  locals to the flags the main loop reads.
- The same module, for `Sound`: `SoundCorrect`, `SettledCorrect`. `OneCommanded`, the part of
  `SoundInv` about the router, is inductive once it is known what the frames read in one tick can do to the driver:
  `TakeReads` unfolds the recursion of `Take` and `TakeType` goes through the frames
  one by one (`AllNaturals` is the induction, from the least counterexample).
  `SettledTruth` speaks of a silent wire only, `OneSound` of the stops on their way;
  both follow from `ToldInv`, which says what a wire that is not
  silent may hold while nothing was refused or lost: a held track has its stop before
  it (`Held`), a play command is on the line only with the player silent and nothing
  but volume frames before it (`PlayComesFirst`), and the flag is set exactly while the
  command, the sound or the report of the end of the track asked for is there (`Sent`). One lemma per step
  shows that it is kept, for lines of any length.
- `ScriptHttp_proofs`: `Invariance`, `RequestsKept`, `CallbacksKept`, `HttpCorrect`. No request is
  lost in a queue that drops its oldest entry *because* the counter of pending
  requests is exact (`PendingExact`) and checked before a push; the callback claim
  rests on `HeldByItsInstall`, every request in flight of an app belonging to the
  present install. `HttpCorrect` adds that a request goes out once and is heard of once:
  with the room the exact counter keeps (`QueueHasRoom`), what the worker puts back
  joins a queue of distinct requests it is not in, and what is answered is in neither
  queue nor hands (`OnceInv`).
- The same module, for `FetchWindow`: `WindowCorrect`. `WindowIInv` accounts for the
  age of a request: what was not held owes it to its retries, what was not retried to
  the time since the join, and the last retry fits (`RetriesFit`). This is what the
  assertion at `ScriptServices.h:75` should say; the run shows it for the code's
  constants, the theorem for all that meet the assumption.
- `MqttLink_proofs`: `QueriesKept`, `AnswersCome`, `LinkCorrect`,
  `ServerKept`, `StatusWhole`. The resolver is proved for every caller that follows its
  rules; `StepIsCall` shows that the link does, so that its invariant may rest on the
  resolver's.
- `ScriptStorage_proofs`: `Invariance`, `ReadsCorrect`, `StorageRefines`,
  `LossBounded`, `RunsCorrect`. The
  strengthening `FlushInv` says what the three places of a store (flushing map,
  file being written, pending map) hold while a flush is under way; the refinement
  needs that a file being renamed was verified whole. `LossInv` compares the age of
  the oldest write that waits with the time since the last flush, which restarts only
  when nothing waits or all of it is taken. `RunsInv` names the one script that may run
  without being on flash, the one whose save is under way.
- `CoreEngine_proofs`: `Invariance`, `DrawnCorrect`, `RotationCorrect`,
  `RotationComplete`, `RemovalCorrect`, `NoneCutShort`, `ShowingKept`. Each method of `AppHost` keeps `GoodHost`; each
  method of `NotificationManager` keeps its front or counts its generation up
  (`Follows`), so what the renderer knows by generation stays true. `NotCutShort`
  follows from `ReadIsFront`, the part of `IInv` about reports. `IndexOf` and
  `Pick` choose the first of several places, which exists by `LeastNatural`. The list
  that rotates is built by `Keep`, which numbers the places it keeps; that each number
  has a place (`PlaceExists`, by a least counterexample) and no two places the same
  number (`PlacesDiffer`) makes its members exactly those kept (`KeepMembers`).
  `RotationComplete` follows for lists of any length (`LoopMembers`); `RemovalCorrect`
  needs that a start takes the arrangement from flash, and that flash names no script
  removed but those in `unsaved`.
- `DeviceStore_proofs`: `StoreCorrect`, `ToldKept`. Typing, `Session` (what a
  restore has got to) and `Data` (what is told, live and on flash) are each shown to
  be kept by every action. `RestoreInPlace` is the strengthening: without it the
  answer to a restore could promise an entry that is not in place. What `ToldIsStored`
  excepts is kept in `excused`, and the theorem says no more of those items than the run.
- `MqttSession_proofs`: `SessionCorrect`, `NothingIsDropped`, `RetainedCorrect`,
  `AdvertCorrect`. `NothingDropped` needs that the queue is empty whenever a packet is
  taken and that the bridge's filters fit it; `OneAdvert` needs that what is
  announced is the prefix configured, or a retraction is still to come; over a dead
  connection the document may also have failed at once (`HaAnnouncer.cpp:61`).
- `ScriptModules_proofs`: `ModulesCorrect`, `FreshInvariance`, `FreshCorrect`,
  `SavedCorrect`, `CallsShrink`. `Install` is the step that an upload, a
  reload and a start take, so it is proved once, for any source and any stack
  (`InstallKeeps`); what the cache keeps when a module is dropped is what the others
  provide, because a name has one owner (`KeptIsTheOthers`). `BootStored` strengthens
  the invariant: what a start has still to load is in flash. `Fresh` is behind the other
  three: whoever holds a replaced import is listed on some level of the recursion, and
  the levels follow one chain of imports from the module that was saved (`Branch`). As
  long as imports are not tangled the chain can neither be longer than the recursion is
  deep (`PathTangles`) nor come back to its start (`LoopTangles`), so nobody is missed
  and no source is put back that flash has and RAM no longer. `Chain` is a recursive
  function; what it computes for a length is unfolded by `ChainLink`. `ReloadEnds` is
  liveness, but what it rests on is proved for every depth and every import graph: a call
  that has not ended has a step to take (`NeverStuck`), each step takes one from what is
  left to do and adds only to what comes after it (`CallsShrink`, on the list `Work`),
  and no such list gets less for ever (`NoEndlessDescent`, a lemma of arithmetic). Only the last step, from
  fairness to `~>`, is left to TLC.

Only model-checked: the liveness properties, which are beyond the prover, and
`RegisterSpec`, which states fairness too; its safety is `StatusRefines`. Every
invariant and every action property the passing runs check is stated by a theorem.

## 6. Where code and promises differ

Shown by a run:

1. `session_deaf`: a script that subscribes to `<prefix>/cmd/#` and is removed
   unsubscribes the device, which hears no command until its next connect
   (`ScriptMqttBridge.cpp:35`, `MqttService.cpp:107`; `docs/guides/mqtt.md:5`).
2. `store_failed`: a restore that is rejected late has written settings, app order
   and files (`FsRestoreSink.cpp:55`, 64, `HttpApiServer.cpp:208`; the comment at
   `core/backup/Restore.h:18` says it must leave the device untouched).

Read off the code while modelling, without a run of their own. The properties are
stated so that they hold beside these, each exception being named at the property:

*Audio.* A station tuned while a playlist is read is overwritten by the entry of
the playlist (`AudioOutEsp32.cpp:463`; `docs/guides/radio.md:137`). The verdict on
a dead stream may stop the station tuned meanwhile (599); a title parked by the last
station is shown for the next (218); an error drained late clears `playing` of a
stream that plays (212); a playlist that points to a playlist is followed
(463, `docs/guides/radio.md:70`). A late error reply repeats the play after a stop
that asked for no acknowledgement: the stopped track starts again, beside the melody or
the MP3 it was stopped for, and `isPlaying()` says no (`DfTrackSink.h:43`, 78;
`docs/guides/sounds.md:165`). `OneSound` and `SettledTruth` speak of a player that has
refused and lost nothing.

*Script HTTP.* A script inactive when its answer arrives keeps a callback nothing
calls (`ScriptHost.cpp:433`, comment at 439). A module's request is answered after
the module was replaced (`ScriptHost.cpp:223`; `docs/reference/http.md:910`). Grace and
retries add up: 15 s held and five retries of 4 s end after the 30 s window, so the
worker may give up on, or fetch, a request whose script was told long ago that it
failed, although `ScriptServices.h:75` asserts that "retries must give up before the
request expires" (`ScriptHttpWorker.cpp:121`); `WindowFitsOneDelay` excepts a request
that met both. The worker learns of joins only when it looks at an https request, so
the grace period starts late (`ScriptHttpWorker.cpp:106`, 150;
`docs/guides/scripting.md:1087`).

*MQTT.* A link that outlives a short Wi-Fi loss reports `offline`
(`MqttLink.cpp:107`; `docs/reference/device.md:276`). The resolver's worker stores its
answer after it let go of the lock (`HostResolverEsp32.cpp:187`); with one name per
boot the link survives it. `failuresAgainstAddress_` outlives a successful reconnect of
Wi-Fi (`MqttLink.cpp:115`, `docs/reference/device.md:308`). A `haPrefix` changed over a
dead connection, or before a restart, leaves the old document at the broker
(`HaAnnouncer.cpp:44`; `docs/reference/system.md:172`): `forgotten` names those.
`state/apps/active` is not published on connect while no app shows, so an old name
stays (`StatePublishCadence.h:39`; `docs/reference/mqtt.md:369`). A subscription refused
for want of room in the bridge is neither reported nor tried again when there is
(`ScriptMqttBridge.cpp:26`): `refused` names those.

*Scripts and their stores.* A write parked in `draw()` brings the store of a deleted
script back (`ScriptHost.cpp:416`; `docs/reference/http.md:1006`).
`setScriptConfig()` saves the store it computed before `setup()` ran, over what
`setup()` wrote (`ScriptService.h:57`). A refused upload has already pruned the
store of the script that stays (`ScriptService.h:105`). A source that could not
be written is still answered with success (`ScriptStore.cpp:61`). Two apps
drawing in one frame share one parked write (`ScriptBindings.cpp:786`). A reboot
flushes the pending map, not the parked write (`main.cpp:740`).

*Modules.* With circular imports, saving one of them reinstalls its *old* source: the
reload of the other leads back to it while flash still holds that, and the new one is
stored but does not run (`ScriptHost.cpp:350`, `ScriptService.h:29`;
`docs/guides/scripting.md:1002`). Importers more than three imports away stay on the old
code (`ScriptHost.h:163`; `docs/guides/scripting.md:1059`). Renaming a module, or
turning it into an app, reloads nobody. Two modules that import each other, saved one
after the other, do not both load after a restart (`docs/guides/scripting.md:999`).
`tangled` and `excused` name these.

*Panel.* On a dark panel the hold of a notification outlives it, and a notification
without one stays in front until the panel is lit (`CoreEngine.cpp:65`;
`docs/reference/payload.md:315`). A list change during `previous()` leaves the
direction backward (`AppHost.cpp:37`, `docs/guides/pushed-apps.md:364`), and gives an
app that becomes current by it what is left of the old turn
(`docs/guides/scripting.md:346`). An app named twice in the order is found at its first
place after any list change (`AppHost.cpp:30`, `docs/reference/http.md:721`). The
removal of a script takes it off the arrangement for good
(`docs/reference/http.md:808`), but a save that fails then goes unnoticed
(`CoreEngine.cpp:219`): after a restart the name is back, and a script installed again
under it takes the old place or stays switched off. `unsaved` names these. A removed
script that had paused the rotation leaves it paused until the user moves
(`CoreEngine.cpp:213`).

*What the device keeps.* A reboot that is asked for within 1.5 s of the last save
loses a settings change (`main.cpp:662`, 739; `docs/reference/settings.md:13`). An entry
that is skipped for what it holds or for its CRC has already replaced the file of that
name, which is then removed (`HttpApiServer.cpp:208`, 225;
`docs/reference/http.md:1895`). An upload of a backup that is cut off leaves half a file
behind (`HttpApiServer.cpp:360` has no case for it). A second system action replaces
one that has not run (`DeviceServices.h:42`). A power cut between two keys of
`DeviceConfig::save()` leaves a mix (`DeviceConfig.cpp:59`). A restored app order is
not looked at before the next start (`FsRestoreSink.cpp:64`): if an arranged script is
removed before, or a `PUT` names part of the arrangement only, what is saved is the
order of before the restore with that change, and the restored one is lost
(`CoreEngine.cpp:219`, 444; `docs/getting-started/web-ui.md:357` only offers the reboot).
A melody that does not fit is refused with 507 and its beginning stays
(`HttpApiServer.cpp:1119`). A running script may
write its store over one that was restored, before the reboot a user is told to do.
`excused` names these.

## 7. Not modelled

Formats and drawing (JSON, payload parsing, the bytes of ZIP, MP3, ICY headers, fonts,
effects, icons), drivers, the simulator and the vendored Berry VM: pure functions and
I/O the tests of the repository cover case by case, or code that is not the program's.
They are most of the lines of the repository, and their outcomes are choices of the
environment in the models. In the modelled parts: URLs, bodies, texts and volumes are
abstract; `CoreEngine` leaves out array payloads, scenes, durations of single apps, what
a script holds while it scrolls by itself, and the limit on pushed apps; `ScriptStorage` has no modules and
`ScriptModules` no stores; `HostResolver` one host name; an archive of `DeviceStore`
has one value for all its entries, one asset file, and no stations, which are written
like the app order; its app order is one value, of which a change of part is another
one. Writes to NVS succeed, each as a whole, and a save of the settings is one of them
(`NvsSettings.cpp` looks at no result); a save of the configuration is one per group of
keys. `MqttSession` has one retained topic for settings, audio and
buttons, all of which are marked and sent alike. The OTA health check, the boot
animation, provisioning, Art-Net and the sensors are single-purpose code around a
driver. `PROJECT.json` gives the reason for each component.

## 8. Plan

What would add most next, in order:

1. `CoreEngine`: scenes, which `forgetArrangement()` does not touch, and array
   payloads.
2. `DeviceStore`'s animator in place of the three-valued `screen` of `CoreEngine`;
   `BootAnimator`'s hand-over of the panel; `NetworkService` with the fallback access
   point.
3. `ScriptHost`: the visibility hooks and shared state.

Proofs still to do: `ScriptHttp` as the refinement of an abstract request, which
`HttpCorrect` gives the safety of; that an entry of `DeviceStore` is on flash whole or
not at all, per item.
