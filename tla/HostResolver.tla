---------------------------- MODULE HostResolver ----------------------------
(***************************************************************************)
(* The host name resolver: transport/net/HostResolverEsp32.cpp.            *)
(*                                                                         *)
(* The caller on the main loop polls resolve(); a worker task does the     *)
(* lookups that block.  They share the query under a mutex and the answer  *)
(* through atomics.  A query is cancelled by bumping generation_: the      *)
(* worker finishes and throws its result away.                             *)
(*                                                                         *)
(* The only caller asks for one configured name per boot, so the host is   *)
(* left out.  Generations are only ever compared with generation_: of each *)
(* copy the model keeps whether it equals it.  Of an address it keeps      *)
(* whether the host is still there.                                        *)
(***************************************************************************)
EXTENDS Naturals

VARIABLES
  wifi,          \* WiFi.isConnected()
  have, address, error, inFlight,   \* main: the members of these names
  late,          \* kResolveDeadlineMs have passed since startedMs_
  starting,      \* main: start() between its lock and its stores
  queryCurrent,  \* queryGeneration_ = generation_
  queued, done, result,             \* the atomics
  w, mineCurrent, found             \* the worker, its mine = generation_

resolver == <<have, address, error, inFlight, late, starting, queryCurrent, queued,
              done, result, w, mineCurrent, found>>
resolverVars == <<wifi, resolver>>

Addresses == {"none", "good", "stale"}

ResolverInit ==
  /\ wifi = FALSE
  /\ have = FALSE /\ address = "none" /\ error = "None" /\ inFlight = FALSE
  /\ late = FALSE /\ starting = FALSE
  /\ queryCurrent = FALSE /\ queued = FALSE
  /\ done = "pending" /\ result = "none"
  /\ w = "idle" /\ mineCurrent = FALSE /\ found = "none"

-----------------------------------------------------------------------------
(* The main loop *)

\* ++generation_: no copy equals it any more.
Bump == mineCurrent' = FALSE

\* forget()
Forget ==
  /\ have' = FALSE
  /\ IF inFlight THEN inFlight' = FALSE /\ queryCurrent' = FALSE /\ Bump
     ELSE UNCHANGED <<inFlight, queryCurrent, mineCurrent>>

ForgetCall ==
  /\ Forget
  /\ UNCHANGED <<address, error, late, starting, queued, done, result, w, found>>

\* resolve(), one action for each way through it.
ResolveCached == have /\ UNCHANGED resolver

ResolveOffline ==
  /\ ~have /\ ~wifi
  /\ error' = "NoWifi"
  /\ UNCHANGED <<have, address, inFlight, late, starting, queryCurrent, queued, done,
                 result, w, mineCurrent, found>>

Polling == ~have /\ wifi /\ inFlight

\* start() under its lock.
ResolveStart ==
  /\ ~have /\ wifi /\ ~inFlight
  /\ Bump
  /\ queryCurrent' = TRUE
  /\ starting' = TRUE
  /\ UNCHANGED <<have, address, error, inFlight, late, queued, done, result, w, found>>

\* The rest of start(): an answer that came in between is wiped out.
StartPublish ==
  /\ starting
  /\ done' = "pending"
  /\ late' = FALSE
  /\ inFlight' = TRUE
  /\ queued' = TRUE
  /\ starting' = FALSE
  /\ UNCHANGED <<have, address, error, queryCurrent, result, w, mineCurrent, found>>

ResolveWait == Polling /\ done = "pending" /\ ~late /\ UNCHANGED resolver

\* Mutant of ResolveTimeout: the failure is reported, the query stays in flight.
ResolveTimeoutKeeps ==
  /\ Polling /\ done = "pending" /\ late
  /\ error' = "Timeout"
  /\ UNCHANGED <<have, address, inFlight, late, starting, queryCurrent, queued, done,
                 result, w, mineCurrent, found>>

ResolveTimeout ==
  /\ Polling /\ done = "pending" /\ late
  /\ Forget
  /\ error' = "Timeout"
  /\ UNCHANGED <<address, late, starting, queued, done, result, w, found>>

ResolveFailed ==
  /\ Polling /\ done = "failed"
  /\ inFlight' = FALSE
  /\ error' = "HostNotFound"
  /\ UNCHANGED <<have, address, late, starting, queryCurrent, queued, done, result,
                 w, mineCurrent, found>>

ResolveReady ==
  /\ Polling /\ done = "ready"
  /\ inFlight' = FALSE
  /\ address' = result
  /\ error' = "None"
  /\ have' = TRUE
  /\ UNCHANGED <<late, starting, queryCurrent, queued, done, result, w,
                 mineCurrent, found>>

\* How a call ends: with an address, with an error, or not yet.
Ready == ResolveCached \/ ResolveReady
Failed == ResolveOffline \/ ResolveTimeout \/ ResolveFailed
Pending == ResolveStart \/ ResolveWait

-----------------------------------------------------------------------------
(* The worker *)

WorkerTake ==
  /\ w = "idle" /\ queued
  /\ queued' = FALSE
  /\ w' = "read"
  /\ UNCHANGED <<have, address, error, inFlight, late, starting, queryCurrent, done,
                 result, mineCurrent, found>>

WorkerRead ==
  /\ w = "read"
  /\ mineCurrent' = queryCurrent
  /\ w' = "lookup"
  /\ UNCHANGED <<have, address, error, inFlight, late, starting, queryCurrent, queued,
                 done, result, found>>

\* Mutant of WorkerLookup: the flag is cleared only once the lookup is done.
WorkerLookupClears(a) ==
  /\ w = "lookup"
  /\ found' = a
  /\ queued' = FALSE
  /\ w' = "check"
  /\ UNCHANGED <<have, address, error, inFlight, late, starting, queryCurrent, done,
                 result, mineCurrent>>

\* mDNS and DNS together: an address or none.
WorkerLookup(a) ==
  /\ w = "lookup"
  /\ found' = a
  /\ w' = "check"
  /\ UNCHANGED <<have, address, error, inFlight, late, starting, queryCurrent, queued,
                 done, result, mineCurrent>>

\* Under the lock: cancelled meanwhile?  The lock is released before the stores.
WorkerCheck ==
  /\ w = "check"
  /\ w' = IF mineCurrent THEN "store" ELSE "idle"
  /\ UNCHANGED <<have, address, error, inFlight, late, starting, queryCurrent, queued,
                 done, result, mineCurrent, found>>

WorkerStore ==
  /\ w = "store"
  /\ result' = IF found = "none" THEN result ELSE found
  /\ done' = IF found = "none" THEN "failed" ELSE "ready"
  /\ w' = "idle"
  /\ UNCHANGED <<have, address, error, inFlight, late, starting, queryCurrent, queued,
                 mineCurrent, found>>

Worker ==
  \/ WorkerTake \/ WorkerRead \/ WorkerCheck \/ WorkerStore
  \/ \E a \in {"none", "good"} : WorkerLookup(a)

-----------------------------------------------------------------------------
(* The surroundings *)

DeadlinePasses ==
  /\ inFlight /\ ~late
  /\ late' = TRUE
  /\ UNCHANGED <<have, address, error, inFlight, starting, queryCurrent, queued, done,
                 result, w, mineCurrent, found>>

Outdated(a) == IF a = "good" THEN "stale" ELSE a

\* The host gets another address: those found so far no longer reach it.
HostMoves ==
  /\ "good" \in {address, result, found}
  /\ address' = Outdated(address)
  /\ result' = Outdated(result)
  /\ found' = Outdated(found)
  /\ UNCHANGED <<have, error, inFlight, late, starting, queryCurrent, queued, done,
                 w, mineCurrent>>

WifiChanges == wifi' = ~wifi /\ UNCHANGED resolver

Elsewhere == (Worker \/ DeadlinePasses \/ HostMoves) /\ UNCHANGED wifi

\* Any caller: it polls and forgets as it likes.
Caller ==
  /\ \/ ~starting /\ (Ready \/ Failed \/ Pending \/ ForgetCall)
     \/ StartPublish
  /\ UNCHANGED wifi

ResolverNext == Caller \/ Elsewhere \/ WifiChanges

ResolverSpec == ResolverInit /\ [][ResolverNext]_resolverVars

-----------------------------------------------------------------------------

ResolverTypeOK ==
  /\ wifi \in BOOLEAN /\ have \in BOOLEAN /\ inFlight \in BOOLEAN
  /\ address \in Addresses /\ result \in Addresses /\ found \in Addresses
  /\ error \in {"None", "NoWifi", "HostNotFound", "Timeout"}
  /\ late \in BOOLEAN /\ starting \in BOOLEAN /\ queryCurrent \in BOOLEAN
  /\ queued \in BOOLEAN /\ done \in {"pending", "ready", "failed"}
  /\ mineCurrent \in BOOLEAN
  /\ w \in {"idle", "read", "lookup", "check", "store"}

\* A query in flight is never lost between the two threads: while nothing is
\* answered, the worker is told of it, is about to read it, or looks it up
\* (start, run); cancelled and superseded lookups do not get in the way.
AnswerComes ==
  inFlight /\ done = "pending" =>
    queued \/ w = "read" \/ (w \in {"lookup", "check", "store"} /\ mineCurrent)

\* An address the caller may use has been looked up (resolve).
AddressUsable == have => address # "none"

\* What makes them inductive.
QueryInv ==
  /\ inFlight \/ starting => queryCurrent
  /\ ~(inFlight /\ starting)
  /\ have => ~inFlight /\ ~starting
  /\ done = "ready" => result # "none"
  /\ mineCurrent => queryCurrent

ResolverInv == ResolverTypeOK /\ QueryInv /\ AnswerComes /\ AddressUsable
=============================================================================
