----------------------------- MODULE ScriptHttp -----------------------------
(***************************************************************************)
(* How a script's HTTP request is answered.                                *)
(*                                                                         *)
(* The main loop runs the scripts: a hook asks for a URL, the host notes   *)
(* who asked and until when (core/script/ScriptHost.cpp), the prelude      *)
(* keeps the callback (core/script/Prelude.h).  The worker task takes the  *)
(* requests one at a time, puts those back it cannot fetch yet, and hands  *)
(* its results over through a lossy queue (system/ScriptHttpWorker.cpp).   *)
(* Once per tick the host drains the results and sweeps the overdue.       *)
(* Meanwhile scripts are installed, replaced, removed, deactivated, and    *)
(* latch broken when a hook raises.                                        *)
(*                                                                         *)
(* A request is its id; URL, body and status are left out.  What a hook    *)
(* does is nondeterministic; "vm" is the script whose code is running      *)
(* inside a tick or an install.                                            *)
(***************************************************************************)
EXTENDS AsyncQueue, FiniteSets

CONSTANTS
  Scripts,
  QueueCap,     \* ScriptHttpWorker::kQueueCap
  ResultCap,    \* capacity of httpQueue_
  MaxPending,   \* kMaxPendingHttp
  MaxId,        \* bound on requests
  MaxGen,       \* bound on installs per script
  None

ASSUME HttpAssumption ==
  /\ None \notin Scripts
  /\ QueueCap \in Nat \ {0} /\ ResultCap \in Nat \ {0} /\ MaxPending \in Nat
  /\ MaxId \in Nat /\ MaxGen \in Nat

VARIABLES
  kind, gen,    \* what is installed under a name, and the how-manieth it is
  broken,       \* broken_ of each app
  running,      \* running_: the active scripts
  made,         \* for each id: who asked, as what, in which install, for https or http
  owned,        \* the keys of httpOwner_
  overdue,      \* ids up to this one have passed their dueMs
  cbs,          \* the keys of _http_cbs
  phase, vm,    \* where tick() or an install is, whose code it runs
  expired,      \* sweepHttp's list
  sending,      \* the script between pending_.fetch_add and queue_.push
  queue, pending, results,
  wpc, cur,     \* the worker and the request it holds
  accepted, answered, fired  \* history: queued, handed over, called back

scripts == <<kind, gen, broken, running>>
host == <<made, owned, overdue, cbs, phase, vm, expired, sending, accepted, fired>>
vars == <<scripts, host, queue, pending, results, wpc, cur, answered>>

Ids == 1..MaxId
Request == [script: Scripts, kind: {"app", "module"}, gen: 0..MaxGen, https: BOOLEAN]

Init ==
  /\ kind = [s \in Scripts |-> "none"] /\ gen = [s \in Scripts |-> 0]
  /\ broken = [s \in Scripts |-> FALSE] /\ running = Scripts
  /\ made = <<>> /\ owned = {} /\ overdue = 0 /\ cbs = {}
  /\ phase = "idle" /\ vm = None /\ expired = {} /\ sending = None
  /\ queue = <<>> /\ pending = 0 /\ results = <<>>
  /\ wpc = "idle" /\ cur = 0
  /\ accepted = {} /\ answered = {} /\ fired = [i \in Ids |-> 0]

-----------------------------------------------------------------------------
(* A script asks *)

\* Hooks run between ticks; a callback or a module body inside one.
Executing(s) ==
  /\ sending = None
  /\ \/ vm = s
     \/ phase = "idle" /\ kind[s] = "app" /\ ~broken[s]

RequestOf(s, https) ==
  [script |-> s, kind |-> kind[s], gen |-> gen[s], https |-> https]
PendingOf(s) == {i \in owned : made[i].script = s}

\* Refused by the adapter or the worker: the callback hears (nil, 0) at once.
AskRefused(s, https) ==
  /\ Executing(s) /\ Len(made) < MaxId
  /\ made' = Append(made, RequestOf(s, https))
  /\ fired' = [fired EXCEPT ![Len(made) + 1] = gen[s]]
  /\ UNCHANGED <<scripts, owned, overdue, cbs, phase, vm, expired, sending,
                 accepted, queue, pending, results, wpc, cur, answered>>

\* ScriptHttpWorker::request up to pending_.fetch_add(1).
AskReserve(s) ==
  /\ Executing(s) /\ Len(made) < MaxId
  /\ Cardinality(PendingOf(s)) < MaxPending
  /\ pending < QueueCap
  /\ pending' = pending + 1
  /\ sending' = s
  /\ UNCHANGED <<scripts, made, owned, overdue, cbs, phase, vm, expired, accepted,
                 fired, queue, results, wpc, cur, answered>>

\* queue_.push; then the host and the prelude enter the request.
AskPush(https) ==
  /\ sending # None
  /\ LET id == Len(made) + 1 IN
       /\ queue' = Push(queue, id, QueueCap)
       /\ owned' = owned \cup {id}
       /\ cbs' = cbs \cup {id}
       /\ accepted' = accepted \cup {id}
  /\ made' = Append(made, RequestOf(sending, https))
  /\ sending' = None
  /\ UNCHANGED <<scripts, overdue, phase, vm, expired, fired, pending, results, wpc,
                 cur, answered>>

\* A hook or a callback raises: the app is retired (ScriptApp::enter).
HookFails(s) ==
  /\ Executing(s) /\ kind[s] = "app"
  /\ broken' = [broken EXCEPT ![s] = TRUE]
  /\ vm' = None
  /\ UNCHANGED <<kind, gen, running, made, owned, overdue, cbs, phase, expired,
                 sending, accepted, fired, queue, pending, results, wpc, cur, answered>>

-----------------------------------------------------------------------------
(* Installing and removing, between ticks *)

AtRest == phase = "idle" /\ sending = None

RequestsOf(s) == {i \in cbs : made[i].script = s}

\* purge(): the host's half and the prelude's half.
Purge(s) ==
  /\ owned' = owned \ RequestsOf(s)
  /\ cbs' = cbs \ RequestsOf(s)

\* Mutant of InstallApp: the replaced app is not purged.
InstallAppUnpurged(s) ==
  /\ AtRest /\ gen[s] < MaxGen
  /\ UNCHANGED <<owned, cbs>>
  /\ kind' = [kind EXCEPT ![s] = "app"]
  /\ gen' = [gen EXCEPT ![s] = @ + 1]
  /\ broken' = [broken EXCEPT ![s] = FALSE]
  /\ UNCHANGED <<running, made, overdue, phase, vm, expired, sending, accepted, fired,
                 queue, pending, results, wpc, cur, answered>>

\* set() of an app; only an app it replaces is purged, not a module.
InstallApp(s) ==
  /\ AtRest /\ gen[s] < MaxGen
  /\ IF kind[s] = "app" THEN Purge(s) ELSE UNCHANGED <<owned, cbs>>
  /\ kind' = [kind EXCEPT ![s] = "app"]
  /\ gen' = [gen EXCEPT ![s] = @ + 1]
  /\ broken' = [broken EXCEPT ![s] = FALSE]
  /\ UNCHANGED <<running, made, overdue, phase, vm, expired, sending, accepted, fired,
                 queue, pending, results, wpc, cur, answered>>

\* set() of a module: its body runs at once, under its own name.
InstallModule(s) ==
  /\ AtRest /\ gen[s] < MaxGen
  /\ IF kind[s] = "app" THEN Purge(s) ELSE UNCHANGED <<owned, cbs>>
  /\ kind' = [kind EXCEPT ![s] = "module"]
  /\ gen' = [gen EXCEPT ![s] = @ + 1]
  /\ broken' = [broken EXCEPT ![s] = FALSE]
  /\ phase' = "load" /\ vm' = s
  /\ UNCHANGED <<running, made, overdue, expired, sending, accepted, fired,
                 queue, pending, results, wpc, cur, answered>>

ModuleLoaded ==
  /\ phase = "load" /\ sending = None
  /\ phase' = "idle" /\ vm' = None
  /\ UNCHANGED <<scripts, made, owned, overdue, cbs, expired, sending, accepted, fired,
                 queue, pending, results, wpc, cur, answered>>

Remove(s) ==
  /\ AtRest /\ kind[s] # "none"
  /\ Purge(s)
  /\ kind' = [kind EXCEPT ![s] = "none"]
  /\ broken' = [broken EXCEPT ![s] = FALSE]
  /\ UNCHANGED <<gen, running, made, overdue, phase, vm, expired, sending, accepted,
                 fired, queue, pending, results, wpc, cur, answered>>

\* setRunningScripts(): the user activates or deactivates a script.
SetRunning(s) ==
  /\ AtRest
  /\ running' = IF s \in running THEN running \ {s} ELSE running \cup {s}
  /\ UNCHANGED <<kind, gen, broken, host, queue, pending, results, wpc, cur, answered>>

-----------------------------------------------------------------------------
(* A tick *)

TickStart ==
  /\ AtRest
  /\ phase' = "drain"
  /\ UNCHANGED <<scripts, made, owned, overdue, cbs, vm, expired, sending, accepted,
                 fired, queue, pending, results, wpc, cur, answered>>

\* The two conditions around dispatchHttp, and its own.
Reachable(s) == kind[s] = "app" /\ s \in running /\ ~broken[s]

\* _dispatch_http: the callback is removed, then called.
Call(id) ==
  LET s == made[id].script IN
  /\ cbs' = cbs \ {id}
  /\ fired' = [fired EXCEPT ![id] = gen[s]]
  /\ vm' = s

Dispatch(id) ==
  IF Reachable(made[id].script) /\ id \in cbs THEN Call(id)
  ELSE vm' = None /\ UNCHANGED <<cbs, fired>>

\* drainHttp(): an id nobody owns any more is ignored.
DrainOne ==
  /\ phase = "drain" /\ sending = None /\ results # <<>>
  /\ results' = Tail(results)
  /\ owned' = owned \ {Head(results)}
  /\ IF Head(results) \in owned THEN Dispatch(Head(results))
     ELSE vm' = None /\ UNCHANGED <<cbs, fired>>
  /\ UNCHANGED <<scripts, made, overdue, phase, expired, sending, accepted, queue,
                 pending, wpc, cur, answered>>

\* Mutant of SweepStart: requests of inactive scripts are left alone.
SweepStartActiveOnly ==
  /\ phase = "drain" /\ sending = None /\ results = <<>>
  /\ phase' = "sweep" /\ vm' = None
  /\ expired' = {i \in owned : i <= overdue /\ made[i].script \in running}
  /\ owned' = owned \ expired'
  /\ UNCHANGED <<scripts, made, overdue, cbs, sending, accepted, fired, queue, pending,
                 results, wpc, cur, answered>>

\* sweepHttp(): every overdue request first loses its owner entry.
SweepStart ==
  /\ phase = "drain" /\ sending = None /\ results = <<>>
  /\ phase' = "sweep" /\ vm' = None
  /\ expired' = {i \in owned : i <= overdue}
  /\ owned' = owned \ expired'
  /\ UNCHANGED <<scripts, made, overdue, cbs, sending, accepted, fired, queue, pending,
                 results, wpc, cur, answered>>

First(id) == id \in expired /\ \A j \in expired : id <= j

\* Mutant of SweepOne: the script is not told.
SweepOneSilent(id) ==
  /\ phase = "sweep" /\ sending = None /\ First(id)
  /\ expired' = expired \ {id}
  /\ vm' = None
  /\ UNCHANGED <<scripts, made, owned, overdue, cbs, phase, sending, accepted, fired,
                 queue, pending, results, wpc, cur, answered>>

\* Then each callback hears the failure, in the order of the ids.
SweepOne(id) ==
  /\ phase = "sweep" /\ sending = None /\ First(id)
  /\ expired' = expired \ {id}
  /\ Dispatch(id)
  /\ UNCHANGED <<scripts, made, owned, overdue, phase, sending, accepted, queue,
                 pending, results, wpc, cur, answered>>

TickEnd ==
  /\ phase = "sweep" /\ sending = None /\ expired = {}
  /\ phase' = "idle" /\ vm' = None
  /\ UNCHANGED <<scripts, made, owned, overdue, cbs, expired, sending, accepted, fired,
                 queue, pending, results, wpc, cur, answered>>

\* kHttpTimeoutMs pass: all requests have the same term, so they fall due in order.
TimePasses ==
  /\ overdue < Len(made)
  /\ overdue' = overdue + 1
  /\ UNCHANGED <<scripts, made, owned, cbs, phase, vm, expired, sending, accepted,
                 fired, queue, pending, results, wpc, cur, answered>>

-----------------------------------------------------------------------------
(* The worker task *)

IsHttps(id) == made[id].https

WorkerPop ==
  /\ wpc = "idle" /\ queue # <<>>
  /\ cur' = Head(queue)
  /\ queue' = Tail(queue)
  /\ wpc' = "popped"
  /\ UNCHANGED <<scripts, host, pending, results, answered>>

\* Mutant of WorkerRequeue: what cannot be fetched yet goes back in front.
WorkerRequeueFront ==
  /\ wpc = "popped" /\ IsHttps(cur)
  /\ queue' = <<cur>> \o queue
  /\ cur' = 0
  /\ wpc' = "idle"
  /\ UNCHANGED <<scripts, host, pending, results, answered>>

\* In the grace time after a join, before notBeforeMs, or with the heap too
\* tight: only https is put back.
WorkerRequeue ==
  /\ wpc = "popped" /\ IsHttps(cur)
  /\ queue' = Push(queue, cur, QueueCap)
  /\ cur' = 0
  /\ wpc' = "idle"
  /\ UNCHANGED <<scripts, host, pending, results, answered>>

\* Fetched, or given up after kMaxTightRetries: onResult_ hands it over.
WorkerAnswer ==
  /\ wpc = "popped"
  /\ results' = Push(results, cur, ResultCap)
  /\ answered' = answered \cup {cur}
  /\ wpc' = "answered"
  /\ UNCHANGED <<scripts, host, queue, pending, cur>>

WorkerRelease ==
  /\ wpc = "answered"
  /\ pending' = pending - 1
  /\ cur' = 0
  /\ wpc' = "idle"
  /\ UNCHANGED <<scripts, host, queue, results, answered>>

-----------------------------------------------------------------------------

Ask ==
  \/ \E s \in Scripts : AskReserve(s) \/ HookFails(s)
  \/ \E https \in BOOLEAN :
       AskPush(https) \/ \E s \in Scripts : AskRefused(s, https)

Manage ==
  \/ \E s \in Scripts : InstallApp(s) \/ InstallModule(s) \/ Remove(s) \/ SetRunning(s)
  \/ ModuleLoaded

Tick ==
  \/ TickStart \/ DrainOne \/ SweepStart \/ TickEnd
  \/ \E id \in expired : SweepOne(id)

Worker == WorkerPop \/ WorkerRequeue \/ WorkerAnswer \/ WorkerRelease

Next == Ask \/ Manage \/ Tick \/ TimePasses \/ Worker

Spec == Init /\ [][Next]_vars

\* The main loop goes round, the worker is scheduled, time passes.  No script
\* and no user is fair, and the worker may put an https request back for ever.
FairSpec ==
  /\ Spec
  /\ WF_vars(Tick \/ ModuleLoaded \/ \E https \in BOOLEAN : AskPush(https))
  /\ WF_vars(Worker)
  /\ WF_vars(TimePasses)

-----------------------------------------------------------------------------

TypeOK ==
  /\ kind \in [Scripts -> {"none", "app", "module"}] /\ gen \in [Scripts -> 0..MaxGen]
  /\ broken \in [Scripts -> BOOLEAN] /\ running \in SUBSET Scripts
  /\ made \in Seq(Request) /\ Len(made) <= MaxId
  /\ owned \in SUBSET Ids /\ cbs \in SUBSET Ids /\ expired \in SUBSET Ids
  /\ overdue \in 0..MaxId
  /\ phase \in {"idle", "load", "drain", "sweep"}
  /\ vm \in Scripts \cup {None} /\ sending \in Scripts \cup {None}
  /\ queue \in Seq(Ids) /\ results \in Seq(Ids) /\ pending \in 0..QueueCap
  /\ wpc \in {"idle", "popped", "answered"} /\ cur \in 0..MaxId
  /\ accepted \in SUBSET Ids /\ answered \in SUBSET Ids
  /\ fired \in [Ids -> 0..MaxGen]

\* The worker's queue is lossy, yet no accepted request is ever lost in it: it
\* is queued, in the worker's hands, or answered (request, run, push).
NoRequestLost ==
  accepted \subseteq Elements(queue) \cup answered
                       \cup (IF wpc = "popped" THEN {cur} ELSE {})

\* pending_ counts what is queued, held or about to be queued; that is why a
\* request put back always finds its place.
PendingExact ==
  pending = Len(queue) + (IF wpc = "idle" THEN 0 ELSE 1)
                       + (IF sending = None THEN 0 ELSE 1)

\* An answer, a failure and a replacement race: a callback of an app runs in
\* the install that registered it or not at all (drainHttp, sweepHttp, purge).
CallbackInItsInstall ==
  \A i \in 1..Len(made) :
    made[i].kind = "app" => fired[i] \in {0, made[i].gen}

\* What makes it inductive: a callback that is still held belongs to the app
\* installed now, and what the host knows of, the prelude knows of.
HeldByItsInstall ==
  \A i \in cbs : made[i].kind = "app" =>
    kind[made[i].script] = "app" /\ gen[made[i].script] = made[i].gen

HostInv ==
  /\ owned \cup expired \subseteq cbs
  /\ owned \cap expired = {}
  /\ cbs \cup accepted \subseteq 1..Len(made)
  /\ expired # {} => phase = "sweep"
  /\ vm # None => kind[vm] # "none" /\ phase # "idle"
  /\ sending # None => kind[sending] # "none" /\ Len(made) < MaxId
  /\ \A i \in Ids : i > Len(made) => fired[i] = 0

WorkerInv ==
  /\ wpc = "popped" => cur \in Ids
  /\ Elements(queue) \cup (IF wpc = "popped" THEN {cur} ELSE {}) \subseteq 1..Len(made)

IInv ==
  /\ TypeOK /\ PendingExact /\ NoRequestLost
  /\ HostInv /\ WorkerInv /\ HeldByItsInstall /\ CallbackInItsInstall

\* A request that is put back, waits beside others or is given up goes out once:
\* the worker never takes up what it has answered, so no POST is repeated (run).
FetchedOnce ==
  /\ \A i, j \in 1..Len(queue) : queue[i] = queue[j] => i = j
  /\ wpc # "idle" => cur \notin Elements(queue)
  /\ answered \cap Elements(queue) = {}
  /\ wpc = "popped" => cur \notin answered

\* An answer, the sweep and a refusal call each callback at most once: one that
\* is still held has heard nothing (_dispatch_http).
CalledOnce == \A i \in cbs : fired[i] = 0

\* What the run checks of the life of a request.
HttpInv == IInv /\ FetchedOnce /\ CalledOnce

\* Whatever the worker does, a request frees its slot of MaxPending in the end
\* (drainHttp, sweepHttp).
SlotsFreed == \A i \in Ids : i \in owned ~> i \notin owned

\* A script that stays active and whole hears of each request, answer or
\* failure; results the queue dropped are made up for by the sweep.
ScriptHears ==
  \A i \in Ids :
    (i \in owned /\ made[i].kind = "app")
      ~> i \notin cbs \/ made[i].script \notin running \/ broken[made[i].script]

\* Requests held back do not keep the others waiting (run's put-backs).
OthersServed ==
  \A i \in Ids : (i \in accepted /\ ~IsHttps(i)) ~> i \in answered

=============================================================================
