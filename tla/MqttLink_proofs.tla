-------------------------- MODULE MqttLink_proofs --------------------------
(***************************************************************************)
(* No query of the resolver is lost, whatever its caller does; the link    *)
(* keeps the resolver's rules, and its own flags agree.                    *)
(***************************************************************************)
EXTENDS MqttLink, TLAPS

-----------------------------------------------------------------------------
(* The resolver, for any caller *)

LEMMA ResolverStarts == ResolverInit => ResolverInv
  BY DEF ResolverInit, ResolverInv, ResolverTypeOK, QueryInv, AnswerComes,
         AddressUsable, Addresses

\* A call of resolve() or forget(), outside start(), keeps the invariant.
LEMMA CallKeeps ==
  ASSUME ResolverInv, wifi' = wifi, ~starting,
         Ready \/ Failed \/ Pending \/ ForgetCall
  PROVE  ResolverInv'
<1> USE DEF ResolverInv, ResolverTypeOK, QueryInv, AnswerComes, AddressUsable, Addresses
<1>1. CASE ResolveCached
  BY <1>1 DEF ResolveCached, resolver
<1>2. CASE ResolveReady
  BY <1>2 DEF ResolveReady, Polling
<1>3. CASE ResolveOffline
  BY <1>3 DEF ResolveOffline
<1>4. CASE ResolveTimeout
  BY <1>4 DEF ResolveTimeout, Polling, Forget, Bump
<1>5. CASE ResolveFailed
  <2>1. /\ inFlight /\ done = "failed" /\ inFlight' = FALSE /\ error' = "HostNotFound"
        /\ UNCHANGED <<wifi, have, address, late, starting, queryCurrent, queued, done,
                      result, w, mineCurrent, found>>
    BY <1>5 DEF ResolveFailed, Polling
  <2>2. ResolverTypeOK' /\ QueryInv'
    BY <2>1
  <2>3. AnswerComes' /\ AddressUsable'
    BY <2>1
  <2> QED
    BY <2>2, <2>3
<1>6. CASE ResolveStart
  <2>1. ResolverTypeOK'
    <3>1. /\ wifi' \in BOOLEAN /\ have' \in BOOLEAN /\ inFlight' \in BOOLEAN
          /\ late' \in BOOLEAN /\ starting' \in BOOLEAN /\ queryCurrent' \in BOOLEAN
          /\ queued' \in BOOLEAN /\ mineCurrent' \in BOOLEAN
      BY <1>6 DEF ResolveStart, Bump
    <3>2. /\ address' \in Addresses /\ result' \in Addresses /\ found' \in Addresses
          /\ error' \in {"None", "NoWifi", "HostNotFound", "Timeout"}
          /\ done' \in {"pending", "ready", "failed"}
          /\ w' \in {"idle", "read", "lookup", "check", "store"}
      BY <1>6 DEF ResolveStart, Bump
    <3> QED
      BY <3>1, <3>2
  <2>2. QueryInv' /\ AddressUsable'
    BY <1>6 DEF ResolveStart, Bump
  <2>3. AnswerComes'
    BY <1>6 DEF ResolveStart, Bump
  <2> QED
    BY <2>1, <2>2, <2>3
<1>7. CASE ResolveWait
  BY <1>7 DEF ResolveWait, resolver, Polling
<1>8. CASE ForgetCall
  <2>1. ResolverTypeOK'
    <3>1. /\ wifi' \in BOOLEAN /\ have' \in BOOLEAN /\ inFlight' \in BOOLEAN
          /\ late' \in BOOLEAN /\ starting' \in BOOLEAN /\ queryCurrent' \in BOOLEAN
          /\ queued' \in BOOLEAN /\ mineCurrent' \in BOOLEAN
      BY <1>8 DEF ForgetCall, Forget, Bump
    <3>2. /\ address' \in Addresses /\ result' \in Addresses /\ found' \in Addresses
          /\ error' \in {"None", "NoWifi", "HostNotFound", "Timeout"}
          /\ done' \in {"pending", "ready", "failed"}
          /\ w' \in {"idle", "read", "lookup", "check", "store"}
      BY <1>8 DEF ForgetCall, Forget, Bump
    <3> QED
      BY <3>1, <3>2
  <2>2. QueryInv' /\ AddressUsable'
    BY <1>8 DEF ForgetCall, Forget, Bump
  <2>3. AnswerComes'
    BY <1>8 DEF ForgetCall, Forget, Bump
  <2> QED
    BY <2>1, <2>2, <2>3
<1> QED
  BY <1>1, <1>2, <1>3, <1>4, <1>5, <1>6, <1>7, <1>8 DEF Ready, Failed, Pending

\* The stores of start() complete the query its lock section began.
LEMMA StartKeeps ==
  ASSUME ResolverInv, wifi' = wifi, StartPublish
  PROVE  ResolverInv'
<1> USE DEF ResolverInv, StartPublish
<1>1. ResolverTypeOK'
  BY DEF ResolverTypeOK
<1>2. QueryInv'
  BY DEF QueryInv, ResolverTypeOK
<1>3. AnswerComes' /\ AddressUsable'
  BY DEF AnswerComes, AddressUsable
<1> QED
  BY <1>1, <1>2, <1>3

\* The worker, the clock and the network keep it.
LEMMA ElsewhereKeeps ==
  ASSUME ResolverInv, Elsewhere \/ WifiChanges
  PROVE  ResolverInv'
<1> USE DEF ResolverInv, ResolverTypeOK, QueryInv, AnswerComes, AddressUsable, Addresses
<1>1. CASE WorkerTake /\ UNCHANGED wifi
  <2>1. ResolverTypeOK'
    <3>1. /\ wifi' \in BOOLEAN /\ have' \in BOOLEAN /\ inFlight' \in BOOLEAN
          /\ late' \in BOOLEAN /\ starting' \in BOOLEAN /\ queryCurrent' \in BOOLEAN
          /\ queued' \in BOOLEAN /\ mineCurrent' \in BOOLEAN
      BY <1>1 DEF WorkerTake
    <3>2. /\ address' \in Addresses /\ result' \in Addresses /\ found' \in Addresses
          /\ error' \in {"None", "NoWifi", "HostNotFound", "Timeout"}
          /\ done' \in {"pending", "ready", "failed"}
          /\ w' \in {"idle", "read", "lookup", "check", "store"}
      BY <1>1 DEF WorkerTake
    <3> QED
      BY <3>1, <3>2
  <2>2. QueryInv' /\ AddressUsable'
    BY <1>1 DEF WorkerTake
  <2>3. AnswerComes'
    BY <1>1 DEF WorkerTake
  <2> QED
    BY <2>1, <2>2, <2>3
<1>2. CASE WorkerRead /\ UNCHANGED wifi
  BY <1>2 DEF WorkerRead
<1>3. CASE WorkerCheck /\ UNCHANGED wifi
  BY <1>3 DEF WorkerCheck
<1>4. CASE WorkerStore /\ UNCHANGED wifi
  BY <1>4 DEF WorkerStore
<1>5. CASE \E a \in {"none", "good"} : WorkerLookup(a) /\ UNCHANGED wifi
  BY <1>5 DEF WorkerLookup
<1>6. CASE DeadlinePasses /\ UNCHANGED wifi
  BY <1>6 DEF DeadlinePasses
<1>7. CASE HostMoves /\ UNCHANGED wifi
  BY <1>7 DEF HostMoves, Outdated
<1>8. CASE WifiChanges
  BY <1>8 DEF WifiChanges, resolver
<1> QED
  BY <1>1, <1>2, <1>3, <1>4, <1>5, <1>6, <1>7, <1>8 DEF Elsewhere, Worker

LEMMA ResolverKeeps == ResolverInv /\ [ResolverNext]_resolverVars => ResolverInv'
<1> SUFFICES ASSUME ResolverInv, [ResolverNext]_resolverVars
             PROVE  ResolverInv'
  OBVIOUS
<1>1. CASE Caller
  BY <1>1, CallKeeps, StartKeeps DEF Caller
<1>2. CASE Elsewhere \/ WifiChanges
  BY <1>2, ElsewhereKeeps
<1>3. CASE UNCHANGED resolverVars
  BY <1>3 DEF resolverVars, resolver, ResolverInv, ResolverTypeOK, QueryInv, AnswerComes,
              AddressUsable
<1> QED
  BY <1>1, <1>2, <1>3 DEF ResolverNext

\* A query in flight is queued, about to be read, being looked up or answered:
\* none is lost between start() and run(), whoever calls and whenever it is
\* cancelled; and an address that may be used has been looked up.
THEOREM QueriesKept == ResolverSpec => []ResolverInv
<1>1. ResolverInit => ResolverInv
  BY ResolverStarts
<1>2. ResolverInv /\ [ResolverNext]_resolverVars => ResolverInv'
  BY ResolverKeeps
<1> QED
  BY <1>1, <1>2, PTL DEF ResolverSpec

\* A query in flight has its answer, is being looked up, or is about to be:
\* cancelled and superseded lookups do not lose it (start, run).
THEOREM AnswersCome == ResolverSpec => []AnswerComes
<1>1. ResolverInv => AnswerComes
  BY DEF ResolverInv
<1> QED
  BY <1>1, QueriesKept, PTL

-----------------------------------------------------------------------------
(* The link *)

LEMMA LinkStarts == Init => ResolverInv /\ LinkInv
<1> SUFFICES ASSUME Init PROVE ResolverInv /\ LinkInv
  OBVIOUS
<1>1. ResolverInv
  BY ResolverStarts DEF Init
<1>2. LinkTypeOK
  <2>1. failures \in 0..(ReresolveAfter - 1)
    BY LinkAssumption DEF Init, LinkInit
  <2>2. /\ m \in {"idle", "check", "starting", "connect"}
        /\ phase \in {"offline", "connecting", "connected"}
        /\ shownError \in Refusals \cup {"None", "NoWifi", "HostNotFound"}
        /\ attempts \in 0..1
    BY DEF Init, LinkInit
  <2>3. /\ sawWifi \in BOOLEAN /\ haveServer \in BOOLEAN /\ wasConnected \in BOOLEAN
        /\ session \in BOOLEAN /\ armed \in BOOLEAN /\ due \in BOOLEAN
    BY DEF Init, LinkInit
  <2> QED
    BY <2>1, <2>2, <2>3 DEF LinkTypeOK
<1>3. TickInv /\ ServerCached /\ ConnectedIsWhole
  BY DEF Init, ResolverInit, LinkInit, TickInv, ServerCached, ConnectedIsWhole
<1> QED
  BY <1>1, <1>2, <1>3 DEF LinkInv

\* Every step of the link is one the resolver expects, or none of its business:
\* a query half started is completed before anything else is asked.
LEMMA StepIsCall ==
  ASSUME LinkInv, [Next]_vars
  PROVE  [ResolverNext]_resolverVars
<1>1. m # "starting" => ~starting
  BY DEF LinkInv, TickInv
<1>2. CASE TickOffline
  BY <1>2 DEF TickOffline
<1>3. CASE TickJoin
  BY <1>1, <1>3 DEF TickJoin, Caller, ResolverNext
<1>4. CASE TickOn
  BY <1>4 DEF TickOn
<1>5. CASE Online
  BY <1>5 DEF Online
<1>6. CASE NoticeLoss
  BY <1>6 DEF NoticeLoss
<1>7. CASE AwaitBackoff
  BY <1>7 DEF AwaitBackoff
<1>8. CASE ResolvePending
  BY <1>1, <1>8 DEF ResolvePending, Try, Down, Caller, ResolverNext
<1>9. CASE ResolveStarted
  BY <1>1, <1>9 DEF ResolveStarted, Caller, ResolverNext
<1>10. CASE ResolveError
  BY <1>1, <1>10 DEF ResolveError, Try, Down, Caller, ResolverNext
<1>11. CASE ResolveDone
  BY <1>1, <1>11 DEF ResolveDone, Try, Down, Caller, ResolverNext
<1>12. CASE KnownServer
  BY <1>12 DEF KnownServer
<1>13. CASE \E why \in Refusals : ConnectFails(why)
  BY <1>1, <1>13 DEF ConnectFails, Caller, ResolverNext
<1>14. CASE ConnectOk
  BY <1>14 DEF ConnectOk
<1>15. CASE SessionEnds
  BY <1>15 DEF SessionEnds
<1>16. CASE BackoffPasses
  BY <1>16 DEF BackoffPasses
<1>17. CASE Around
  BY <1>1, <1>17 DEF Around, ResolverNext
<1>18. CASE UNCHANGED vars
  BY <1>18 DEF vars
<1> QED
  BY <1>2, <1>3, <1>4, <1>5, <1>6, <1>7, <1>8, <1>9, <1>10, <1>11, <1>12, <1>13,
     <1>14, <1>15, <1>16, <1>17, <1>18
     DEF Next, Tick

LEMMA TickOfflineKeeps ==
  ASSUME ResolverInv, LinkInv, ResolverInv', TickOffline
  PROVE  LinkInv'
<1> USE LinkAssumption DEF LinkInv, LinkTypeOK, TickInv, ServerCached, ConnectedIsWhole, Refusals
<1>1. LinkTypeOK'
  BY DEF TickOffline, status, resolverVars, resolver
<1>2. TickInv'
  BY DEF TickOffline, status, resolverVars, resolver, ResolverInv, QueryInv
<1>3. ServerCached'
  BY DEF TickOffline, status, resolverVars, resolver, ResolverInv, QueryInv
<1>4. ConnectedIsWhole'
  BY DEF TickOffline, status, resolverVars, resolver
<1> QED
  BY <1>1, <1>2, <1>3, <1>4

LEMMA TickJoinKeeps ==
  ASSUME ResolverInv, LinkInv, ResolverInv', TickJoin
  PROVE  LinkInv'
<1> USE LinkAssumption DEF LinkInv, LinkTypeOK, TickInv, ServerCached, ConnectedIsWhole, Refusals
<1>1. LinkTypeOK'
  BY DEF TickJoin, status, ForgetCall, Forget, Bump
<1>2. TickInv'
  BY DEF TickJoin, status, ForgetCall, Forget, Bump, ResolverInv, QueryInv
<1>3. ServerCached'
  BY DEF TickJoin, status, ForgetCall, Forget, Bump, ResolverInv, QueryInv
<1>4. ConnectedIsWhole'
  BY DEF TickJoin, status, ForgetCall, Forget, Bump
<1> QED
  BY <1>1, <1>2, <1>3, <1>4

LEMMA TickOnKeeps ==
  ASSUME ResolverInv, LinkInv, ResolverInv', TickOn
  PROVE  LinkInv'
<1> USE LinkAssumption DEF LinkInv, LinkTypeOK, TickInv, ServerCached, ConnectedIsWhole, Refusals
<1>1. LinkTypeOK'
  BY DEF TickOn, status, resolverVars, resolver
<1>2. TickInv'
  BY DEF TickOn, status, resolverVars, resolver, ResolverInv, QueryInv
<1>3. ServerCached'
  BY DEF TickOn, status, resolverVars, resolver, ResolverInv, QueryInv
<1>4. ConnectedIsWhole'
  BY DEF TickOn, status, resolverVars, resolver
<1> QED
  BY <1>1, <1>2, <1>3, <1>4

LEMMA OnlineKeeps ==
  ASSUME ResolverInv, LinkInv, ResolverInv', Online
  PROVE  LinkInv'
<1> USE LinkAssumption DEF LinkInv, LinkTypeOK, TickInv, ServerCached, ConnectedIsWhole, Refusals
<1>1. LinkTypeOK'
  BY DEF Online, status, resolverVars, resolver
<1>2. TickInv'
  BY DEF Online, status, resolverVars, resolver, ResolverInv, QueryInv
<1>3. ServerCached'
  BY DEF Online, status, resolverVars, resolver, ResolverInv, QueryInv
<1>4. ConnectedIsWhole'
  BY DEF Online, status, resolverVars, resolver
<1> QED
  BY <1>1, <1>2, <1>3, <1>4

LEMMA NoticeLossKeeps ==
  ASSUME ResolverInv, LinkInv, ResolverInv', NoticeLoss
  PROVE  LinkInv'
<1> USE LinkAssumption DEF LinkInv, LinkTypeOK, TickInv, ServerCached, ConnectedIsWhole, Refusals
<1>1. LinkTypeOK'
  BY DEF NoticeLoss, status, resolverVars, resolver
<1>2. TickInv'
  BY DEF NoticeLoss, status, resolverVars, resolver, ResolverInv, QueryInv
<1>3. ServerCached'
  BY DEF NoticeLoss, status, resolverVars, resolver, ResolverInv, QueryInv
<1>4. ConnectedIsWhole'
  BY DEF NoticeLoss, status, resolverVars, resolver
<1> QED
  BY <1>1, <1>2, <1>3, <1>4

LEMMA AwaitBackoffKeeps ==
  ASSUME ResolverInv, LinkInv, ResolverInv', AwaitBackoff
  PROVE  LinkInv'
<1> USE LinkAssumption DEF LinkInv, LinkTypeOK, TickInv, ServerCached, ConnectedIsWhole, Refusals
<1>1. LinkTypeOK'
  BY DEF AwaitBackoff, Down, status, resolverVars, resolver
<1>2. TickInv'
  BY DEF AwaitBackoff, Down, status, resolverVars, resolver, ResolverInv, QueryInv
<1>3. ServerCached'
  BY DEF AwaitBackoff, Down, status, resolverVars, resolver, ResolverInv, QueryInv
<1>4. ConnectedIsWhole'
  BY DEF AwaitBackoff, Down, status, resolverVars, resolver
<1> QED
  BY <1>1, <1>2, <1>3, <1>4

LEMMA ResolvePendingKeeps ==
  ASSUME ResolverInv, LinkInv, ResolverInv', ResolvePending
  PROVE  LinkInv'
<1> USE LinkAssumption DEF LinkInv, LinkTypeOK, TickInv, ServerCached, ConnectedIsWhole, Refusals
<1>1. LinkTypeOK'
  BY DEF ResolvePending, Try, Down, Connecting, Pending, ResolveStart, ResolveWait,
         Polling, resolver, Bump
<1>2. TickInv'
  BY DEF ResolvePending, Try, Down, Connecting, Pending, ResolveStart, ResolveWait,
         Polling, resolver, Bump, ResolverInv, QueryInv
<1>3. ServerCached'
  BY DEF ResolvePending, Try, Down, Connecting, Pending, ResolveStart, ResolveWait,
         Polling, resolver, Bump, ResolverInv, QueryInv
<1>4. ConnectedIsWhole'
  BY DEF ResolvePending, Try, Down, Connecting, Pending, ResolveStart, ResolveWait,
         Polling, resolver, Bump
<1> QED
  BY <1>1, <1>2, <1>3, <1>4

LEMMA ResolveStartedKeeps ==
  ASSUME ResolverInv, LinkInv, ResolverInv', ResolveStarted
  PROVE  LinkInv'
<1> USE LinkAssumption DEF LinkInv, LinkTypeOK, TickInv, ServerCached, ConnectedIsWhole, Refusals
<1>1. LinkTypeOK'
  BY DEF ResolveStarted, StartPublish, status
<1>2. TickInv'
  BY DEF ResolveStarted, StartPublish, status, ResolverInv, QueryInv
<1>3. ServerCached'
  BY DEF ResolveStarted, StartPublish, status, ResolverInv, QueryInv
<1>4. ConnectedIsWhole'
  BY DEF ResolveStarted, StartPublish, status
<1> QED
  BY <1>1, <1>2, <1>3, <1>4

LEMMA ResolveErrorKeeps ==
  ASSUME ResolverInv, LinkInv, ResolverInv', ResolveError
  PROVE  LinkInv'
<1> USE LinkAssumption DEF LinkInv, LinkTypeOK, TickInv, ServerCached, ConnectedIsWhole, Refusals
<1>0. error' \in {"None", "NoWifi", "HostNotFound", "Timeout"}
  BY DEF ResolverInv, ResolverTypeOK
<1>1. LinkTypeOK'
  <2>1. /\ sawWifi' \in BOOLEAN /\ haveServer' \in BOOLEAN /\ wasConnected' \in BOOLEAN
        /\ session' \in BOOLEAN /\ armed' \in BOOLEAN /\ due' \in BOOLEAN
    BY <1>0 DEF ResolveError, Try, Down, NoteFailure, Failed, ResolveOffline,
       ResolveTimeout, ResolveFailed, Polling, Forget, Bump
  <2>2. failures' \in 0..(ReresolveAfter - 1)
    BY <1>0 DEF ResolveError, Try, Down, NoteFailure, Failed, ResolveOffline,
       ResolveTimeout, ResolveFailed, Polling, Forget, Bump
  <2>3. attempts' \in 0..1
    BY <1>0 DEF ResolveError, Try, Down, NoteFailure, Failed, ResolveOffline,
       ResolveTimeout, ResolveFailed, Polling, Forget, Bump
  <2>4. /\ m' \in {"idle", "check", "starting", "connect"}
        /\ phase' \in {"offline", "connecting", "connected"}
        /\ shownError' \in Refusals \cup {"None", "NoWifi", "HostNotFound"}
    BY <1>0 DEF ResolveError, Try, Down, NoteFailure, Failed, ResolveOffline,
       ResolveTimeout, ResolveFailed, Polling, Forget, Bump
  <2> QED
    BY <2>1, <2>2, <2>3, <2>4
<1>2. TickInv'
  BY DEF ResolveError, Try, Down, NoteFailure, Failed, ResolveOffline, ResolveTimeout,
         ResolveFailed, Polling, Forget, Bump, ResolverInv, QueryInv
<1>3. ServerCached'
  BY DEF ResolveError, Try, Down, NoteFailure, Failed, ResolveOffline, ResolveTimeout,
         ResolveFailed, Polling, Forget, Bump, ResolverInv, QueryInv
<1>4. ConnectedIsWhole'
  BY DEF ResolveError, Try, Down, NoteFailure, Failed, ResolveOffline, ResolveTimeout,
         ResolveFailed, Polling, Forget, Bump
<1> QED
  BY <1>1, <1>2, <1>3, <1>4

LEMMA ResolveDoneKeeps ==
  ASSUME ResolverInv, LinkInv, ResolverInv', ResolveDone
  PROVE  LinkInv'
<1> USE LinkAssumption DEF LinkInv, LinkTypeOK, TickInv, ServerCached, ConnectedIsWhole, Refusals
<1>1. LinkTypeOK'
  BY DEF ResolveDone, Try, Down, Connecting, Ready, ResolveCached, ResolveReady,
         Polling, resolver
<1>2. TickInv'
  BY DEF ResolveDone, Try, Down, Connecting, Ready, ResolveCached, ResolveReady,
         Polling, resolver, ResolverInv, QueryInv
<1>3. ServerCached'
  BY DEF ResolveDone, Try, Down, Connecting, Ready, ResolveCached, ResolveReady,
         Polling, resolver, ResolverInv, QueryInv
<1>4. ConnectedIsWhole'
  BY DEF ResolveDone, Try, Down, Connecting, Ready, ResolveCached, ResolveReady,
         Polling, resolver
<1> QED
  BY <1>1, <1>2, <1>3, <1>4

LEMMA KnownServerKeeps ==
  ASSUME ResolverInv, LinkInv, ResolverInv', KnownServer
  PROVE  LinkInv'
<1> USE LinkAssumption DEF LinkInv, LinkTypeOK, TickInv, ServerCached, ConnectedIsWhole, Refusals
<1>1. LinkTypeOK'
  BY DEF KnownServer, Try, Down, Connecting, resolverVars, resolver
<1>2. TickInv'
  BY DEF KnownServer, Try, Down, Connecting, resolverVars, resolver, ResolverInv,
         QueryInv
<1>3. ServerCached'
  BY DEF KnownServer, Try, Down, Connecting, resolverVars, resolver, ResolverInv,
         QueryInv
<1>4. ConnectedIsWhole'
  BY DEF KnownServer, Try, Down, Connecting, resolverVars, resolver
<1> QED
  BY <1>1, <1>2, <1>3, <1>4

LEMMA ConnectFailsKeeps ==
  ASSUME ResolverInv, LinkInv, ResolverInv', \E why \in Refusals : ConnectFails(why)
  PROVE  LinkInv'
<1> USE LinkAssumption DEF LinkInv, LinkTypeOK, TickInv, ServerCached, ConnectedIsWhole, Refusals
<1> PICK why \in Refusals : ConnectFails(why)
  OBVIOUS
<1>1. LinkTypeOK'
  <2>1. /\ sawWifi' \in BOOLEAN /\ haveServer' \in BOOLEAN /\ wasConnected' \in BOOLEAN
        /\ session' \in BOOLEAN /\ armed' \in BOOLEAN /\ due' \in BOOLEAN
    BY DEF ConnectFails, NoteFailure, GiveUpAddress, ForgetCall, Forget, Bump, status,
       resolverVars, resolver
  <2>2. failures' \in 0..(ReresolveAfter - 1)
    <3>1. failures' = IF GiveUpAddress THEN 0 ELSE failures + 1
      BY DEF ConnectFails
    <3> QED
      BY <3>1 DEF GiveUpAddress
  <2>3. attempts' \in 0..1
    BY DEF ConnectFails, NoteFailure, GiveUpAddress, ForgetCall, Forget, Bump, status,
       resolverVars, resolver
  <2>4. /\ m' \in {"idle", "check", "starting", "connect"}
        /\ phase' \in {"offline", "connecting", "connected"}
        /\ shownError' \in Refusals \cup {"None", "NoWifi", "HostNotFound"}
    BY DEF ConnectFails, NoteFailure, GiveUpAddress, ForgetCall, Forget, Bump, status,
       resolverVars, resolver
  <2> QED
    BY <2>1, <2>2, <2>3, <2>4
<1>2. TickInv'
  BY DEF ConnectFails, NoteFailure, GiveUpAddress, ForgetCall, Forget, Bump, status,
         resolverVars, resolver, ResolverInv, QueryInv
<1>3. ServerCached'
  BY DEF ConnectFails, NoteFailure, GiveUpAddress, ForgetCall, Forget, Bump, status,
         resolverVars, resolver, ResolverInv, QueryInv
<1>4. ConnectedIsWhole'
  BY DEF ConnectFails, NoteFailure, GiveUpAddress, ForgetCall, Forget, Bump, status,
         resolverVars, resolver
<1> QED
  BY <1>1, <1>2, <1>3, <1>4

LEMMA ConnectOkKeeps ==
  ASSUME ResolverInv, LinkInv, ResolverInv', ConnectOk
  PROVE  LinkInv'
<1> USE LinkAssumption DEF LinkInv, LinkTypeOK, TickInv, ServerCached, ConnectedIsWhole, Refusals
<1>1. LinkTypeOK'
  <2>1. /\ sawWifi' \in BOOLEAN /\ haveServer' \in BOOLEAN /\ wasConnected' \in BOOLEAN
        /\ session' \in BOOLEAN /\ armed' \in BOOLEAN /\ due' \in BOOLEAN
    BY DEF ConnectOk, resolverVars, resolver
  <2>2. failures' \in 0..(ReresolveAfter - 1)
    BY DEF ConnectOk, resolverVars, resolver
  <2>3. attempts' \in 0..1
    BY DEF ConnectOk, resolverVars, resolver
  <2>4. /\ m' \in {"idle", "check", "starting", "connect"}
        /\ phase' \in {"offline", "connecting", "connected"}
        /\ shownError' \in Refusals \cup {"None", "NoWifi", "HostNotFound"}
    BY DEF ConnectOk, resolverVars, resolver
  <2> QED
    BY <2>1, <2>2, <2>3, <2>4
<1>2. TickInv'
  BY DEF ConnectOk, resolverVars, resolver, ResolverInv, QueryInv
<1>3. ServerCached'
  BY DEF ConnectOk, resolverVars, resolver, ResolverInv, QueryInv
<1>4. ConnectedIsWhole'
  BY DEF ConnectOk, resolverVars, resolver
<1> QED
  BY <1>1, <1>2, <1>3, <1>4

LEMMA SessionEndsKeeps ==
  ASSUME ResolverInv, LinkInv, ResolverInv', SessionEnds
  PROVE  LinkInv'
<1> USE LinkAssumption DEF LinkInv, LinkTypeOK, TickInv, ServerCached, ConnectedIsWhole, Refusals
<1>1. LinkTypeOK'
  BY DEF SessionEnds, status, resolverVars, resolver
<1>2. TickInv'
  BY DEF SessionEnds, status, resolverVars, resolver, ResolverInv, QueryInv
<1>3. ServerCached'
  BY DEF SessionEnds, status, resolverVars, resolver, ResolverInv, QueryInv
<1>4. ConnectedIsWhole'
  BY DEF SessionEnds, status, resolverVars, resolver
<1> QED
  BY <1>1, <1>2, <1>3, <1>4

LEMMA BackoffPassesKeeps ==
  ASSUME ResolverInv, LinkInv, ResolverInv', BackoffPasses
  PROVE  LinkInv'
<1> USE LinkAssumption DEF LinkInv, LinkTypeOK, TickInv, ServerCached, ConnectedIsWhole, Refusals
<1>1. LinkTypeOK'
  BY DEF BackoffPasses, status, resolverVars, resolver
<1>2. TickInv'
  BY DEF BackoffPasses, status, resolverVars, resolver, ResolverInv, QueryInv
<1>3. ServerCached'
  BY DEF BackoffPasses, status, resolverVars, resolver, ResolverInv, QueryInv
<1>4. ConnectedIsWhole'
  BY DEF BackoffPasses, status, resolverVars, resolver
<1> QED
  BY <1>1, <1>2, <1>3, <1>4

LEMMA AroundKeeps ==
  ASSUME ResolverInv, LinkInv, ResolverInv', Around
  PROVE  LinkInv'
<1> USE LinkAssumption DEF LinkInv, LinkTypeOK, TickInv, ServerCached, ConnectedIsWhole, Refusals
<1>1. LinkTypeOK'
  BY DEF Around, Elsewhere, Worker, WorkerTake, WorkerRead, WorkerCheck, WorkerStore,
         WorkerLookup, DeadlinePasses, HostMoves, Outdated, WifiChanges, linkVars,
         status, resolver
<1>2. TickInv'
  BY DEF Around, Elsewhere, Worker, WorkerTake, WorkerRead, WorkerCheck, WorkerStore,
         WorkerLookup, DeadlinePasses, HostMoves, Outdated, WifiChanges, linkVars,
         status, resolver, ResolverInv, QueryInv
<1>3. ServerCached'
  BY DEF Around, Elsewhere, Worker, WorkerTake, WorkerRead, WorkerCheck, WorkerStore,
         WorkerLookup, DeadlinePasses, HostMoves, Outdated, WifiChanges, linkVars,
         status, resolver, ResolverInv, QueryInv
<1>4. ConnectedIsWhole'
  BY DEF Around, Elsewhere, Worker, WorkerTake, WorkerRead, WorkerCheck, WorkerStore,
         WorkerLookup, DeadlinePasses, HostMoves, Outdated, WifiChanges, linkVars,
         status, resolver
<1> QED
  BY <1>1, <1>2, <1>3, <1>4

LEMMA LinkKeeps == ResolverInv /\ LinkInv /\ [Next]_vars => (ResolverInv /\ LinkInv)'
<1> SUFFICES ASSUME ResolverInv, LinkInv, [Next]_vars
             PROVE  (ResolverInv /\ LinkInv)'
  OBVIOUS
<1>1. ResolverInv'
  BY StepIsCall, ResolverKeeps
<1>2. CASE UNCHANGED vars
  BY <1>1, <1>2 DEF vars, linkVars, status, resolverVars, resolver, LinkInv, LinkTypeOK, TickInv, ServerCached,
     ConnectedIsWhole
<1>3. CASE Next
  BY <1>1, <1>3, TickOfflineKeeps, TickJoinKeeps, TickOnKeeps, OnlineKeeps,
     NoticeLossKeeps, AwaitBackoffKeeps, ResolvePendingKeeps, ResolveStartedKeeps,
     ResolveErrorKeeps, ResolveDoneKeeps, KnownServerKeeps, ConnectFailsKeeps,
     ConnectOkKeeps, SessionEndsKeeps, BackoffPassesKeeps, AroundKeeps
     DEF Next, Tick
<1> QED
  BY <1>1, <1>2, <1>3

\* For every number of failures that drops an address: the link and the resolver
\* drop it together, and the status of a connected link is of one piece.
THEOREM LinkCorrect == Spec => []LinkSafe
<1>1. Init => LinkSafe
  BY LinkStarts DEF LinkSafe
<1>2. LinkSafe /\ [Next]_vars => LinkSafe'
  BY LinkKeeps DEF LinkSafe
<1> QED
  BY <1>1, <1>2, PTL DEF Spec

\* The link never uses an address the resolver has dropped: what it caches is
\* forgotten with it (MqttLink::tick).
THEOREM ServerKept == Spec => []ServerCached
<1>1. LinkSafe => ServerCached
  BY DEF LinkSafe, LinkInv
<1> QED
  BY <1>1, LinkCorrect, PTL

\* A status that says connected carries no error and no failed attempts of an
\* earlier connection (MqttLink::tick).
THEOREM StatusWhole == Spec => []ConnectedIsWhole
<1>1. LinkSafe => ConnectedIsWhole
  BY DEF LinkSafe, LinkInv
<1> QED
  BY <1>1, LinkCorrect, PTL
=============================================================================
