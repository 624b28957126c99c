------------------------------ MODULE MqttLink ------------------------------
(***************************************************************************)
(* The connection to the MQTT broker: transport/mqtt/MqttLink.cpp on top   *)
(* of the host resolver.  One tick() of the main loop is a few steps here, *)
(* so that Wi-Fi, the resolver's worker and the broker can move between    *)
(* the places where it looks at them.                                      *)
(*                                                                         *)
(* The backoff is abstract: armed or not, and due at any time after that.  *)
(* The outcome of a connect attempt is the broker's; it can only succeed   *)
(* where the broker is.                                                    *)
(***************************************************************************)
EXTENDS HostResolver

CONSTANTS
  Tls,                  \* mqttTls: the client then connects by name
  ReresolveAfter        \* kReresolveAfterFailures

ASSUME LinkAssumption == Tls \in BOOLEAN /\ ReresolveAfter \in Nat \ {0}

VARIABLES
  m,                    \* where tick() is
  sawWifi, haveServer, wasConnected, failures,
  session,              \* client_->connected()
  armed, due,           \* the backoff
  phase, shownError, attempts \* the LinkStatus

status == <<phase, shownError, attempts>>
linkVars == <<m, sawWifi, haveServer, wasConnected, failures, session, armed, due,
              status>>
vars == <<resolverVars, linkVars>>

LinkInit ==
  /\ m = "idle" /\ sawWifi = FALSE /\ haveServer = FALSE /\ wasConnected = FALSE
  /\ failures = 0 /\ session = FALSE
  /\ armed = FALSE /\ due = FALSE
  /\ phase = "offline" /\ shownError = "None" /\ attempts = 0

Init == ResolverInit /\ LinkInit

-----------------------------------------------------------------------------
(* tick() *)

TickOffline ==
  /\ m = "idle" /\ ~wifi
  /\ sawWifi' = FALSE /\ haveServer' = FALSE
  /\ phase' = "offline" /\ shownError' = "NoWifi"
  /\ UNCHANGED <<resolverVars, m, wasConnected, failures, session, armed, due, attempts>>

\* A fresh association: look the broker up again, at once.
TickJoin ==
  /\ m = "idle" /\ wifi /\ ~sawWifi
  /\ sawWifi' = TRUE
  /\ ForgetCall /\ UNCHANGED wifi
  /\ haveServer' = FALSE
  /\ armed' = FALSE /\ due' = FALSE
  /\ m' = "check"
  /\ UNCHANGED <<wasConnected, failures, session, status>>

TickOn ==
  /\ m = "idle" /\ wifi /\ sawWifi
  /\ m' = "check"
  /\ UNCHANGED <<resolverVars, sawWifi, haveServer, wasConnected, failures, session, armed, due,
                 status>>

Online ==
  /\ m = "check" /\ session
  /\ m' = "idle"
  /\ UNCHANGED <<resolverVars, sawWifi, haveServer, wasConnected, failures, session, armed, due,
                 status>>

NoticeLoss ==
  /\ m = "check" /\ ~session /\ wasConnected
  /\ wasConnected' = FALSE
  /\ phase' = "offline" /\ shownError' = "Lost"
  /\ UNCHANGED <<resolverVars, m, sawWifi, haveServer, failures, session, armed, due,
                 attempts>>

Down == m = "check" /\ ~session /\ ~wasConnected

AwaitBackoff ==
  /\ Down /\ armed /\ ~due
  /\ m' = "idle"
  /\ UNCHANGED <<resolverVars, sawWifi, haveServer, wasConnected, failures, session, armed, due,
                 status>>

Try == Down /\ (armed => due)

\* noteFailure(): the backoff is armed, the reason shown.
NoteFailure(why) ==
  /\ armed' = TRUE /\ due' = FALSE
  /\ phase' = "offline" /\ shownError' = why
  /\ attempts' = 1
  /\ m' = "idle"

Connecting(then) == phase' = "connecting" /\ m' = then

ResolvePending ==
  /\ Try /\ ~haveServer
  /\ Pending /\ UNCHANGED wifi
  /\ Connecting(IF starting' THEN "starting" ELSE "idle")
  /\ UNCHANGED <<sawWifi, haveServer, wasConnected, failures, session, armed, due, shownError, attempts>>

ResolveStarted ==
  /\ m = "starting"
  /\ StartPublish /\ UNCHANGED wifi
  /\ m' = "idle"
  /\ UNCHANGED <<sawWifi, haveServer, wasConnected, failures, session, armed, due,
                 status>>

ResolveError ==
  /\ Try /\ ~haveServer
  /\ Failed /\ UNCHANGED wifi
  /\ NoteFailure(error')
  /\ UNCHANGED <<sawWifi, haveServer, wasConnected, failures, session>>

ResolveDone ==
  /\ Try /\ ~haveServer
  /\ Ready /\ UNCHANGED wifi
  /\ haveServer' = TRUE
  /\ Connecting("connect")
  /\ UNCHANGED <<sawWifi, wasConnected, failures, session, armed, due, shownError, attempts>>

KnownServer ==
  /\ Try /\ haveServer
  /\ Connecting("connect")
  /\ UNCHANGED <<resolverVars, sawWifi, haveServer, wasConnected, failures, session, armed, due,
                 shownError, attempts>>

\* The attempt failed; the third in a row drops the address.
Refusals == {"Timeout", "Lost", "Refused", "Rejected", "BadCredentials"}

GiveUpAddress == failures + 1 >= ReresolveAfter

\* Mutant of ConnectFails: the resolver keeps its cache.
ConnectFailsCached(why) ==
  /\ m = "connect"
  /\ IF GiveUpAddress THEN failures' = 0 /\ haveServer' = FALSE
     ELSE failures' = failures + 1 /\ UNCHANGED haveServer
  /\ NoteFailure(why)
  /\ UNCHANGED <<resolverVars, sawWifi, wasConnected, session>>

ConnectFails(why) ==
  /\ m = "connect"
  /\ IF GiveUpAddress
     THEN failures' = 0 /\ ForgetCall /\ UNCHANGED wifi /\ haveServer' = FALSE
     ELSE failures' = failures + 1 /\ UNCHANGED <<resolverVars, haveServer>>
  /\ NoteFailure(why)
  /\ UNCHANGED <<sawWifi, wasConnected, session>>

ConnectOk ==
  /\ m = "connect" /\ wifi
  /\ address = "good" \/ Tls
  /\ session' = TRUE
  /\ armed' = FALSE /\ due' = FALSE
  /\ failures' = 0
  /\ wasConnected' = TRUE
  /\ phase' = "connected" /\ shownError' = "None" /\ attempts' = 0
  /\ m' = "idle"
  /\ UNCHANGED <<resolverVars, sawWifi, haveServer>>

Tick ==
  \/ TickOffline \/ TickJoin \/ TickOn
  \/ Online \/ NoticeLoss \/ AwaitBackoff
  \/ ResolvePending \/ ResolveStarted \/ ResolveError \/ ResolveDone \/ KnownServer
  \/ (\E why \in Refusals : ConnectFails(why)) \/ ConnectOk

-----------------------------------------------------------------------------
(* The surroundings *)

\* The session ends: the broker, the network or the keep-alive.  It may well
\* outlive a short loss of Wi-Fi.
SessionEnds ==
  /\ session
  /\ session' = FALSE
  /\ UNCHANGED <<resolverVars, m, sawWifi, haveServer, wasConnected, failures, armed, due,
                 status>>

BackoffPasses ==
  /\ armed /\ ~due
  /\ due' = TRUE
  /\ UNCHANGED <<resolverVars, m, sawWifi, haveServer, wasConnected, failures, session, armed,
                 status>>

Around == (Elsewhere \/ WifiChanges) /\ UNCHANGED linkVars

Next == Tick \/ SessionEnds \/ BackoffPasses \/ Around

Spec == Init /\ [][Next]_vars

\* The main loop and the clock can be relied on.  The worker may hang.
FairSpec ==
  /\ Spec
  /\ WF_vars(Tick) /\ WF_vars(BackoffPasses)
  /\ WF_vars(DeadlinePasses /\ UNCHANGED wifi /\ UNCHANGED linkVars)

-----------------------------------------------------------------------------

LinkTypeOK ==
  /\ m \in {"idle", "check", "starting", "connect"}
  /\ sawWifi \in BOOLEAN /\ haveServer \in BOOLEAN /\ wasConnected \in BOOLEAN
  /\ failures \in 0..(ReresolveAfter - 1) /\ session \in BOOLEAN
  /\ armed \in BOOLEAN /\ due \in BOOLEAN
  /\ phase \in {"offline", "connecting", "connected"}
  /\ shownError \in Refusals \cup {"None", "NoWifi", "HostNotFound"}
  /\ attempts \in 0..1

\* The link never uses an address the resolver has dropped: both forget together
\* (TickJoin, ConnectFails), though each keeps its own flag.
ServerCached == haveServer => have

\* What the status says of a link it calls connected is of one piece (tick).
ConnectedIsWhole ==
  phase = "connected" => wasConnected /\ shownError = "None" /\ attempts = 0

\* What makes them inductive.
TickInv ==
  /\ starting <=> m = "starting"
  /\ m = "connect" => haveServer
  /\ m = "connect" => ~wasConnected
  /\ session => wasConnected
  /\ inFlight => ~haveServer

LinkInv == LinkTypeOK /\ TickInv /\ ServerCached /\ ConnectedIsWhole

\* Link and resolver together: no query is lost between the threads, no dropped
\* address is used, and a connected status is of one piece, whatever moves
\* between the steps of a tick.
LinkSafe == ResolverInv /\ LinkInv

\* A worker that never reports back does not wedge the link: with Wi-Fi up, each
\* query ends (resolve's deadline).
QueryEnds == <>[]wifi => (inFlight ~> ~inFlight)

\* A worker that is scheduled, a name that is found in the end if it keeps being
\* looked up, and a broker that accepts in the end if it keeps being asked,
WorkingNet ==
  /\ <>[]wifi
  /\ WF_vars(Worker /\ UNCHANGED wifi /\ UNCHANGED linkVars)
  /\ SF_vars(WorkerLookup("good") /\ UNCHANGED wifi /\ UNCHANGED linkVars)
  /\ SF_vars(ConnectOk)

\* that stay where they are, keep sessions, and answer within the deadline.
QuietNet == <>[][~HostMoves /\ ~SessionEnds /\ ~DeadlinePasses]_vars

\* Whatever happened before, such a net is enough for the link to come up by
\* itself: a stale address, whichever way it got there, is given up and looked up
\* again (tick).
Recovers == WorkingNet /\ QuietNet => <>[]session

=============================================================================
