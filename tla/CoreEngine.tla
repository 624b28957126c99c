---------------------------- MODULE CoreEngine ----------------------------
(***************************************************************************)
(* What the panel shows: the rotation of apps (AppHost), the notifications *)
(* over it (NotificationManager), the lists they are built from            *)
(* (CoreEngine.cpp) and what the renderer reports back of each frame       *)
(* (RenderPipeline.cpp), in the order of main.cpp's loop(): commands, the  *)
(* engine's tick, the frame.                                               *)
(*                                                                         *)
(* One thread.  What is hard is that tick() judges by what an earlier      *)
(* frame reported, of a page that may have left since, or that no frame    *)
(* was drawn at all.                                                       *)
(*                                                                         *)
(* A text is known by whether it has to be read to its end (repeat > 0),   *)
(* which takes ReadTime frames.  Left out: arrays of apps and the limit on *)
(* their number, durations of single apps, what a script holds by its own  *)
(* scrolling, scenes, autoTransition off (a pause without an end), and the *)
(* command queue, whose commands are those of the other sources.           *)
(***************************************************************************)
EXTENDS Integers, Sequences, FiniteSets, AppHost, NotificationManager

CONSTANTS
  Builtins,      \* the apps of the firmware, in their order
  Pushable,      \* names others push apps under
  Scripts,       \* scripts, in the order a start finds them in flash
  Headless,      \* those that never draw
  Arrangements,  \* what an order call may say: [order, disabled]
  Booted,        \* the arrangement a device starts with
  Kinds,         \* notifications: [stack, hold, wakeup, repeats, duration]
  Dwell,         \* appDurationMs in turns of the loop
  Transition,    \* transitionDurationMs
  ReadTime,      \* frames in which a text is read
  Capacity,      \* kMaxNotifications
  MaxMoves,      \* bound on what a user or a script does to the rotation, and restarts
  MaxNotifs,     \* bound on the notifications of a behaviour
  Limit          \* no duration is longer

ASSUME EngineAssumption ==
  /\ {Dwell, Transition, ReadTime, Capacity, MaxMoves, MaxNotifs, Limit} \subseteq Nat
  /\ Kinds \subseteq [stack: BOOLEAN, hold: BOOLEAN, wakeup: BOOLEAN,
                       repeats: BOOLEAN, duration: Nat]
  /\ \A s \in {Builtins, Scripts} \cup {a.order : a \in Arrangements} :
       s \in Seq({s[i] : i \in DOMAIN s})
  /\ Booted \in Arrangements

VARIABLES
  host,          \* appHost_
  notifs,        \* notifs_
  pushed,        \* pushedApps_, by arrival
  installed,     \* scriptApps_
  loading,       \* the scripts a start has still to install
  arranged,      \* order_ and disabled_
  saved,         \* the arrangement on flash
  gone,          \* the scripts removed that no order call has named since
  unsaved,       \* those of them whose removal flash does not know of
  paused,        \* scriptRotationPaused_
  declines,      \* the scripts whose should_show() says no
  reported,      \* rotationHold_, notificationHold_, notifPassesDone_, its
                 \* generation, rotationPassesDonePage_
  page,          \* lastRenderId_
  cycles,        \* frames the page's text has been scrolled
  screen,        \* "on", "off", or "taken": moodlight, provisioning, Art-Net
  step,          \* where the loop is, or "boot"
  drawn,         \* the notification the renderer drew last
  read,          \* the notification the renderer reported as read
  serial,        \* notifications so far
  moves,         \* moves so far
  restarts       \* restarts so far

scripts == <<installed, loading>>
arrangement == <<arranged, saved, gone, unsaved>>
lists == <<pushed, scripts, arrangement, restarts>>
rotation == <<host, lists, paused, declines>>
renderer == <<reported, page, cycles, drawn, read>>
vars == <<rotation, notifs, renderer, screen, step, serial, moves>>

-----------------------------------------------------------------------------
(* Lists *)

Members(s) == {s[i] : i \in DOMAIN s}

\* s without what is not in S: the k-th of its entries in S comes k-th.
Keep(s, S) ==
  LET kept == {i \in DOMAIN s : s[i] \in S}
  IN [k \in 1..Cardinality(kept) |->
        s[CHOOSE i \in kept : Cardinality({j \in kept : j <= i}) = k]]

PushedNames(apps) == [i \in DOMAIN apps |-> apps[i].name]

\* knownApps(): a pushed app hides the one of the firmware, and a script rotates
\* at the place of the other app that has its name.
Known(apps, progs) ==
  LET names == Members(PushedNames(apps))
  IN Keep(Builtins, Members(Builtins) \ names) \o PushedNames(apps)
       \o Keep(progs, Members(progs) \ (Members(Builtins) \cup names))

\* rebuildAppList(): the arranged ones first, as often as they are named, then
\* the others.
Running(apps, progs, a) ==
  LET on == Members(Known(apps, progs)) \ a.disabled
      first == Keep(a.order, on)
  IN first \o Keep(Known(apps, progs), on \ Members(first))

Loop(apps, progs, a) ==
  Keep(Running(apps, progs, a), Members(Running(apps, progs, a)) \ Headless)

Rebuild(apps, progs, a) == host' = SetApps(host, Loop(apps, progs, a))

Named(a) == Members(a.order) \cup a.disabled

\* Mutant: a script that is switched off stays so.
ForgetOrder(a, n) ==
  [order |-> Keep(a.order, Members(a.order) \ {n}), disabled |-> a.disabled]

\* forgetArrangement()
Forget(a, n) ==
  [order |-> Keep(a.order, Members(a.order) \ {n}), disabled |-> a.disabled \ {n}]

IsPushed(n) == \E i \in DOMAIN pushed : pushed[i].name = n
Repeats(n) ==
  /\ n \notin Members(installed)
  /\ \E i \in DOMAIN pushed : pushed[i] = [name |-> n, repeats |-> TRUE]

Default == [order |-> <<>>, disabled |-> {}]
Silence ==
  [rotationHold |-> FALSE, notificationHold |-> FALSE, done |-> FALSE,
   generation |-> 0, donePage |-> NoApp]
NoPage == [kind |-> "none", of |-> 0]

\* The constructor, apporder::load(), and no script yet.
Started(a) ==
  SetApps(SetApps(NewHost, Loop(<<>>, <<>>, Default)), Loop(<<>>, <<>>, a))

StepOf(names) == IF names = {} THEN "commands" ELSE "boot"

Init ==
  /\ host = Started(Booted)
  /\ notifs = NewManager
  /\ pushed = <<>>
  /\ installed = <<>>
  /\ loading = Members(Scripts)
  /\ arranged = Booted
  /\ saved = Booted
  /\ gone = {} /\ unsaved = {}
  /\ paused = FALSE
  /\ declines = {}
  /\ reported = Silence
  /\ page = NoPage
  /\ cycles = 0
  /\ screen = "on"
  /\ step = StepOf(Members(Scripts))
  /\ drawn = 0 /\ read = 0 /\ serial = 0 /\ moves = 0 /\ restarts = 0

-----------------------------------------------------------------------------
(* Commands and scripts, between two ticks *)

Moved == moves < MaxMoves /\ moves' = moves + 1

\* setPushedApp(): an app that is there keeps its arrival; another text
\* scrolls from its beginning.
PushApp(n, repeats) ==
  /\ step = "commands" /\ Moved
  /\ pushed' = IF IsPushed(n)
               THEN [i \in DOMAIN pushed |->
                       IF pushed[i].name = n THEN [name |-> n, repeats |-> repeats]
                       ELSE pushed[i]]
               ELSE Append(pushed, [name |-> n, repeats |-> repeats])
  /\ Rebuild(pushed', installed, arranged)
  /\ cycles' = IF page = [kind |-> "app", of |-> n] THEN 0 ELSE cycles
  /\ UNCHANGED <<notifs, scripts, arrangement, restarts, paused, declines, reported,
                 page, screen, step, drawn, read, serial>>

\* deletePushedApp(), or its lifetime is over.
DeleteApp(n) ==
  /\ step = "commands" /\ Moved
  /\ IsPushed(n)
  /\ pushed' = Keep(pushed, {p \in Members(pushed) : p.name # n})
  /\ Rebuild(pushed', installed, arranged)
  /\ UNCHANGED <<notifs, scripts, arrangement, restarts, paused, declines, renderer,
                 screen, step, serial>>

\* applyAppOrder(): taken back when it cannot be saved.
Arrange(a, saves) ==
  /\ step = "commands" /\ Moved
  /\ arranged' = IF saves THEN a ELSE arranged
  /\ saved' = IF saves THEN a ELSE saved
  /\ gone' = IF saves THEN gone \ Named(a) ELSE gone
  /\ unsaved' = IF saves THEN {} ELSE unsaved
  /\ IF saves THEN Rebuild(pushed, installed, a) ELSE UNCHANGED host
  /\ UNCHANGED <<notifs, pushed, scripts, restarts, paused, declines, renderer, screen,
                 step, serial>>

\* syncScriptApp(): of a script that is there it changes nothing.
Sync(n) ==
  /\ n \notin Members(installed)
  /\ installed' = Append(installed, n)
  /\ Rebuild(pushed, Append(installed, n), arranged)

InstallScript(n) ==
  /\ step = "commands" /\ Moved
  /\ Sync(n)
  /\ UNCHANGED <<notifs, pushed, loading, arrangement, restarts, paused, declines,
                 renderer, screen, step, serial>>

\* removeScriptApp(): what could not be saved is not taken back, and nothing is
\* saved when the arrangement did not name it.
RemoveScript(n, saves) ==
  /\ step = "commands" /\ Moved
  /\ n \in Members(installed)
  /\ installed' = Keep(installed, Members(installed) \ {n})
  /\ arranged' = Forget(arranged, n)
  /\ Rebuild(pushed, installed', arranged')
  /\ saved' = IF saves /\ arranged' # arranged THEN arranged' ELSE saved
  /\ gone' = gone \cup {n}
  /\ unsaved' = IF saved' = arranged' THEN {} ELSE unsaved \cup {n}
  /\ declines' = declines \ {n}
  /\ cycles' = IF page = [kind |-> "app", of |-> n] THEN 0 ELSE cycles
  /\ UNCHANGED <<notifs, pushed, loading, restarts, paused, reported, page, drawn,
                 read, screen, step, serial>>

\* nextApp(), previousApp(), switchApp(): a move of the user ends a pause.
UserMove(h) ==
  /\ step = "commands" /\ Moved
  /\ h # host \/ paused        \* else it changes nothing
  /\ host' = h
  /\ paused' = FALSE
  /\ UNCHANGED <<notifs, lists, declines, renderer, screen, step, serial>>

\* rotation.next(), previous(), show() of a script.
ScriptMove(h) ==
  /\ Moved
  /\ h # host
  /\ host' = h
  /\ UNCHANGED <<notifs, lists, paused, declines, renderer, screen, step, serial>>

\* rotation.pause() and resume()
ScriptPause(p) ==
  /\ Moved
  /\ paused # p
  /\ paused' = p
  /\ UNCHANGED <<host, notifs, lists, declines, renderer, screen, step, serial>>

\* A script thinks otherwise of its should_show().
Decline(n) ==
  /\ Moved
  /\ n \notin Headless
  /\ declines' = IF n \in declines THEN declines \ {n} ELSE declines \cup {n}
  /\ UNCHANGED <<host, notifs, lists, paused, renderer, screen, step, serial>>

\* The power switch, moodlight, an Art-Net sender.
Screen(s) ==
  /\ step = "commands" /\ Moved
  /\ s # screen
  /\ screen' = s
  /\ UNCHANGED <<rotation, notifs, renderer, step, serial>>

Moves ==
  \/ \E n \in Pushable, r \in BOOLEAN : PushApp(n, r)
  \/ \E n \in Pushable : DeleteApp(n)
  \/ \E a \in Arrangements, saves \in BOOLEAN : Arrange(a, saves)
  \/ \E dir \in {-1, 1} : \/ UserMove(BeginTransition(host, dir, declines))
                          \/ ScriptMove(BeginTransition(host, dir, declines))
  \/ \E n \in Members(host.apps) : \/ UserMove(SwitchTo(host, n))
                                   \/ UserMove(TransitionTo(host, n))
  \/ \E n \in Members(Scripts) : InstallScript(n)
  \/ \E n \in Members(Scripts), saves \in BOOLEAN : RemoveScript(n, saves)
  \/ \E n \in Members(installed) : ScriptMove(TransitionTo(host, n)) \/ Decline(n)
  \/ \E p \in BOOLEAN : ScriptPause(p)
  \/ \E s \in {"on", "off", "taken"} : Screen(s)

\* notify(): refused only when it stacks and the queue is full.
Notify(k) ==
  /\ step = "commands"
  /\ serial < MaxNotifs
  /\ k.stack => ~Full(notifs, Capacity)
  /\ serial' = serial + 1
  /\ notifs' = PushOn(notifs, [id |-> serial + 1, stack |-> k.stack, hold |-> k.hold,
                               wakeup |-> k.wakeup, repeats |-> k.repeats,
                               duration |-> k.duration])
  /\ UNCHANGED <<rotation, renderer, screen, step, moves>>

Dismiss ==
  /\ step = "commands"
  /\ HasCurrent(notifs)
  /\ notifs' = DismissFront(notifs)
  /\ UNCHANGED <<rotation, renderer, screen, step, serial, moves>>

\* dismissNamed(), the name being that of the notification at place k.
DismissNamed(k) ==
  /\ step = "commands"
  /\ k \in DOMAIN notifs.queue
  /\ notifs' = DismissPlace(notifs, k)
  /\ UNCHANGED <<rotation, renderer, screen, step, serial, moves>>

-----------------------------------------------------------------------------
(* The loop *)

\* A page whose text has been read goes at once.
DwellOf(id) == IF IsPushed(id) /\ reported.donePage = id THEN 0 ELSE Dwell

\* Mutant: what was reported of an earlier notification counts for this one.
EngineTickAnyReport ==
  /\ step = "commands"
  /\ step' = "frame"
  /\ notifs' = Update(Wait(notifs, Limit), Dwell, reported.notificationHold, reported.done)
  /\ host' = TickHost(Elapse(host, Limit), DwellOf(CurrentId(host)), Transition,
                      ~(reported.rotationHold \/ paused), declines)
  /\ UNCHANGED <<lists, paused, declines, renderer, screen, serial, moves>>

\* Mutant: an app that has to be read holds the rotation for ever.
EngineTickHeld ==
  /\ step = "commands"
  /\ step' = "frame"
  /\ notifs' = Update(Wait(notifs, Limit), Dwell, reported.notificationHold,
                      reported.done /\ reported.generation = notifs.generation)
  /\ host' = TickHost(Elapse(host, Limit), Dwell, Transition,
                      ~(Repeats(CurrentId(host)) \/ paused), declines)
  /\ UNCHANGED <<lists, paused, declines, renderer, screen, serial, moves>>

\* tick(): the notification first, then the rotation below it.
EngineTick ==
  /\ step = "commands"
  /\ step' = "frame"
  /\ notifs' = Update(Wait(notifs, Limit), Dwell, reported.notificationHold,
                      reported.done /\ reported.generation = notifs.generation)
  /\ host' = TickHost(Elapse(host, Limit), DwellOf(CurrentId(host)), Transition,
                      ~(reported.rotationHold \/ paused), declines)
  /\ UNCHANGED <<lists, paused, declines, renderer, screen, serial, moves>>

Lit ==
  \/ screen = "on"
  \/ screen = "off" /\ HasCurrent(notifs) /\ Current(notifs).wakeup

PageNow ==
  IF HasCurrent(notifs) THEN [kind |-> "notification", of |-> notifs.generation]
  ELSE [kind |-> "app", of |-> CurrentId(host)]

\* Mutant: a notification that has been read still holds.
ReportHeld(c) ==
  LET isNotif == HasCurrent(notifs)
      counts == IF isNotif THEN Current(notifs).repeats ELSE Repeats(CurrentId(host))
  IN [rotationHold |-> ~isNotif /\ counts /\ c < ReadTime,
      notificationHold |-> isNotif /\ counts,
      done |-> isNotif /\ counts /\ c >= ReadTime,
      generation |-> notifs.generation,
      donePage |-> IF ~isNotif /\ counts /\ c >= ReadTime THEN CurrentId(host) ELSE NoApp]

\* What the renderer reports of a page whose text has been scrolled c frames.
Report(c) ==
  LET isNotif == HasCurrent(notifs)
      counts == IF isNotif THEN Current(notifs).repeats ELSE Repeats(CurrentId(host))
  IN [rotationHold |-> ~isNotif /\ counts /\ c < ReadTime,
      notificationHold |-> isNotif /\ counts /\ c < ReadTime,
      done |-> isNotif /\ counts /\ c >= ReadTime,
      generation |-> notifs.generation,
      donePage |-> IF ~isNotif /\ counts /\ c >= ReadTime THEN CurrentId(host) ELSE NoApp]

\* renderFrame(): a new page starts its text, an app that a transition brought
\* in goes on with it.
Frame(c) ==
  /\ step = "frame" /\ Lit
  /\ step' = "commands"
  /\ \/ page = PageNow /\ c = IF cycles < ReadTime THEN cycles + 1 ELSE cycles
     \/ page # PageNow /\ c = 0
     \/ page # PageNow /\ page.kind = "app" /\ PageNow.kind = "app" /\ c \in 0..ReadTime
  /\ page' = PageNow
  /\ cycles' = c
  /\ reported' = Report(c)
  /\ drawn' = IF HasCurrent(notifs) THEN Current(notifs).id ELSE drawn
  /\ read' = IF Report(c).done THEN Current(notifs).id ELSE read
  /\ UNCHANGED <<rotation, notifs, screen, serial, moves>>

\* The panel is dark, or something else draws on it: nothing is reported.
NoFrame ==
  /\ step = "frame" /\ ~Lit
  /\ step' = "commands"
  /\ UNCHANGED <<rotation, notifs, renderer, screen, serial, moves>>

-----------------------------------------------------------------------------
(* A restart *)

Restart ==
  /\ Moved /\ restarts' = restarts + 1
  /\ host' = Started(saved)
  /\ notifs' = NewManager
  /\ pushed' = <<>>
  /\ installed' = <<>>
  /\ loading' = loading \cup Members(installed)
  /\ arranged' = saved
  /\ gone' = gone \ unsaved /\ unsaved' = {}
  /\ paused' = FALSE
  /\ declines' = {}
  /\ reported' = Silence
  /\ page' = NoPage /\ cycles' = 0
  /\ drawn' = 0 /\ read' = 0
  /\ screen' = "on"
  /\ step' = StepOf(loading \cup Members(installed))
  /\ UNCHANGED <<saved, serial>>

\* ScriptStore::loadAll(), before the loop starts.
TakeScript(i) ==
  /\ step = "boot"
  /\ Scripts[i] \in loading
  /\ \A j \in 1..(i - 1) : Scripts[j] \notin loading
  /\ loading' = loading \ {Scripts[i]}

LoadScript(i) ==
  /\ TakeScript(i)
  /\ step' = StepOf(loading \ {Scripts[i]})
  /\ Sync(Scripts[i])
  /\ UNCHANGED <<notifs, pushed, arrangement, restarts, paused, declines, renderer,
                 screen, serial, moves>>

Boot == \E i \in DOMAIN Scripts : LoadScript(i)
Booting == \E i \in DOMAIN Scripts : TakeScript(i)

Turn == EngineTick \/ (\E c \in 0..ReadTime : Frame(c)) \/ NoFrame

Next ==
  \/ Moves
  \/ \E k \in Kinds : Notify(k)
  \/ Dismiss
  \/ \E k \in DOMAIN notifs.queue : DismissNamed(k)
  \/ Turn
  \/ Restart
  \/ Boot

Spec == Init /\ [][Next]_vars

\* setup() ends and the loop runs.
FairSpec == Spec /\ WF_loading(Booting) /\ WF_vars(Turn)

-----------------------------------------------------------------------------
(* Properties *)

\* What the renderer took for the page it knows, by the number of the front, is
\* the same notification: the next one never inherits its scroll, icon or sound
\* (NotificationManager.h: generation; RenderPipeline.cpp: renderFrame).
DrawnIsFront ==
  page = [kind |-> "notification", of |-> notifs.generation] =>
    HasCurrent(notifs) /\ drawn = Current(notifs).id

\* A report that the front has been read is of the front.
ReadIsFront ==
  reported.done /\ reported.generation = notifs.generation =>
    HasCurrent(notifs) /\ read = Current(notifs).id

\* A notification leaves the front by itself only when its time is over or its
\* own text has been read; a late report of the one before does not cut it short
\* (CoreEngine.h: setNotificationPassesDone; CoreEngine.cpp: tick).
NotCutShort ==
  [][step = "commands" /\ step' = "frame" /\ HasCurrent(notifs) /\ notifs'.queue # notifs.queue =>
       \/ read = Current(notifs).id
       \/ notifs.shown + 1 >= Dwell
       \/ Current(notifs).duration > 0 /\ notifs.shown + 1 >= Current(notifs).duration]_vars

\* A list change moves the showing app, never replaces it (AppHost.cpp: setApps).
KeepsShowing ==
  [][(/\ restarts' = restarts
      /\ host'.apps # host.apps
      /\ CurrentId(host) \in Members(host'.apps))
       => CurrentId(host') = CurrentId(host)]_vars

\* What rotates is what the arrangement on flash makes of the apps there are,
\* whatever fails to be saved, but for a removal (CoreEngine.cpp: applyAppOrder,
\* rebuildAppList, removeScriptApp).
LoopIsSaved ==
  /\ host.apps = Loop(pushed, installed, arranged)
  /\ unsaved = {} => arranged = saved

\* A removed script is gone for good: neither a restart nor its installation
\* brings back its place or that it was switched off, before an order call names
\* it again.  A removal that flash never heard of is excused (CoreEngine.cpp:
\* forgetArrangement, removeScriptApp).
GoneForGood ==
  /\ \A n \in gone : n \notin Named(arranged)
  /\ \A n \in gone \ unsaved : n \notin Named(saved)

Notification ==
  [id: Nat, stack: BOOLEAN, hold: BOOLEAN, wakeup: BOOLEAN, repeats: BOOLEAN, duration: Nat]

TypeOK ==
  /\ notifs \in [queue: Seq(Notification), shown: Nat, generation: Nat]
  /\ serial \in Nat
  /\ page \in [kind: {"notification"}, of: 0..notifs.generation]
             \cup [kind: {"app"}, of: {page.of}] \cup {NoPage}
  /\ reported.done \in BOOLEAN /\ reported.generation \in 0..notifs.generation
  /\ pushed \in Seq(Members(pushed))
  /\ installed \in Seq(Members(installed))
  /\ restarts \in Nat
  /\ \A a \in {arranged, saved} : a.order \in Seq(Members(a.order))

\* The inductive invariant.  With GoodHost, the renderer finds both pages of a
\* transition by index, through any list change and any move (AppHost.cpp:
\* setApps, pick; RenderPipeline.cpp: renderFrame).
IInv ==
  /\ GoodHost(host) /\ TypeOK /\ LoopIsSaved /\ GoneForGood /\ DrawnIsFront
  /\ ReadIsFront

Names == Members(Builtins) \cup Pushable \cup Members(Scripts)

\* With the panel on, no app that wants to show is starved by the others, by
\* texts that have to be read, or by notifications (AppHost.cpp: tick, pick).
EveryAppIsShown ==
  \A n \in Names \ Headless :
    <>[](screen = "on" /\ ~paused /\ n \in Members(host.apps) \ declines)
      => []<>(CurrentId(host) = n)

\* With the panel on, notifications make way for each other until there is none
\* left or one that holds (NotificationManager.cpp: update).
QueueDrains ==
  <>[](screen = "on") => []<>(HasCurrent(notifs) => Current(notifs).hold)

=============================================================================
