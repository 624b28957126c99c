----------------------------- MODULE FetchWindow -----------------------------
(***************************************************************************)
(* One https request against the clock: the worker of                      *)
(* system/ScriptHttpWorker.cpp holds it back after a join, retries it when *)
(* the heap is tight, and the host stops waiting after kHttpTimeoutMs.     *)
(*                                                                         *)
(* Time is discrete, in units of kRequeueTicks (500 ms): the worker looks  *)
(* at a queued request once per unit.  Clocks that are only compared with  *)
(* a limit saturate at it.  When one request is over the script may make   *)
(* the next.                                                               *)
(***************************************************************************)
EXTENDS Naturals

CONSTANTS
  Grace,      \* kTlsBootGraceMs
  Timeout,    \* kHttpTimeoutMs
  RetryDelay, \* kTightRetryDelayMs
  MaxRetries, \* kMaxTightRetries
  NoJoin      \* Wi-Fi has not been found up

\* The static_asserts of ScriptServices.h.
ASSUME WindowAssumption ==
  /\ Grace \in Nat /\ Timeout \in Nat /\ RetryDelay \in Nat \ {0} /\ MaxRetries \in Nat
  /\ NoJoin \notin Nat
  /\ Grace < Timeout
  /\ MaxRetries * RetryDelay < Timeout

VARIABLES
  wifi,          \* joined
  connectedFor,  \* since connectedAtMs_, as far as the worker knows
  req,           \* where the request is
  age,           \* how long ago the script asked
  tries, wait,   \* tightTries, and the time left until notBeforeMs
  looked,        \* the worker has looked at it in this unit
  told,          \* what the callback has heard
  held, dropped  \* history of this request: held back, Wi-Fi lost

windowVars == <<wifi, connectedFor, req, age, tries, wait, looked, told, held, dropped>>

WindowInit ==
  /\ wifi = FALSE /\ connectedFor = NoJoin
  /\ req = "none" /\ age = 0 /\ tries = 0 /\ wait = 0 /\ looked = FALSE
  /\ told = "nothing" /\ held = FALSE /\ dropped = FALSE

Join ==
  /\ ~wifi
  /\ wifi' = TRUE
  /\ UNCHANGED <<connectedFor, req, age, tries, wait, looked, told, held, dropped>>

Drop ==
  /\ wifi
  /\ wifi' = FALSE
  /\ dropped' = TRUE
  /\ UNCHANGED <<connectedFor, req, age, tries, wait, looked, told, held>>

\* request() takes nothing without Wi-Fi.
AskHttps ==
  /\ req \in {"none", "over"} /\ wifi
  /\ req' = "queued"
  /\ age' = 0 /\ tries' = 0 /\ wait' = 0 /\ looked' = FALSE
  /\ told' = "nothing" /\ held' = FALSE /\ dropped' = FALSE
  /\ UNCHANGED <<wifi, connectedFor>>

\* connectedForMs(): counted from the first look that finds Wi-Fi up.
Noticed == IF ~wifi THEN NoJoin ELSE IF connectedFor = NoJoin THEN 0 ELSE connectedFor
InGrace == (IF Noticed = NoJoin THEN 0 ELSE Noticed) < Grace

Looking == req = "queued" /\ ~looked

\* Mutant of Hold: a pause forgets how long Wi-Fi has been up.
HoldForgets ==
  /\ Looking /\ InGrace
  /\ connectedFor' = NoJoin
  /\ looked' = TRUE /\ held' = TRUE
  /\ UNCHANGED <<wifi, req, age, tries, wait, told, dropped>>

Hold ==
  /\ Looking /\ InGrace
  /\ connectedFor' = Noticed
  /\ looked' = TRUE /\ held' = TRUE
  /\ UNCHANGED <<wifi, req, age, tries, wait, told, dropped>>

AwaitRetry ==
  /\ Looking /\ ~InGrace /\ wait > 0
  /\ connectedFor' = Noticed
  /\ looked' = TRUE
  /\ UNCHANGED <<wifi, req, age, tries, wait, told, held, dropped>>

\* The heap is too tight for a handshake: try again, a few times.
Due == Looking /\ ~InGrace /\ wait = 0

\* Mutant of Retry: an attempt is not counted.
RetryUncounted ==
  /\ Due /\ tries < MaxRetries
  /\ wait' = RetryDelay
  /\ connectedFor' = Noticed
  /\ looked' = TRUE
  /\ UNCHANGED <<wifi, req, age, tries, told, held, dropped>>

Retry ==
  /\ Due /\ tries < MaxRetries
  /\ tries' = tries + 1
  /\ wait' = RetryDelay
  /\ connectedFor' = Noticed
  /\ looked' = TRUE
  /\ UNCHANGED <<wifi, req, age, told, held, dropped>>

\* What the callback has heard after an answer: the first word stands.
Hear(what) == told' = IF told = "nothing" THEN what ELSE told

GiveUp ==
  /\ Due /\ tries >= MaxRetries
  /\ req' = "over"
  /\ Hear("failure")
  /\ connectedFor' = Noticed
  /\ UNCHANGED <<wifi, age, tries, wait, looked, held, dropped>>

Fetch ==
  /\ Due
  /\ req' = "fetching"
  /\ connectedFor' = Noticed
  /\ UNCHANGED <<wifi, age, tries, wait, looked, told, held, dropped>>

FetchEnds ==
  /\ req = "fetching"
  /\ req' = "over"
  /\ \/ Hear("answer") \/ Hear("failure")
  /\ UNCHANGED <<wifi, connectedFor, age, tries, wait, looked, held, dropped>>

\* sweepHttp() of the next tick.
Overdue == req \in {"queued", "fetching"} /\ age = Timeout /\ told = "nothing"

Sweep ==
  /\ Overdue
  /\ told' = "failure"
  /\ UNCHANGED <<wifi, connectedFor, req, age, tries, wait, looked, held, dropped>>

Grown(t, limit) == IF t < limit THEN t + 1 ELSE t

\* A unit passes; what is due at once is done before it does.
Pass ==
  /\ ~Looking /\ ~Overdue
  /\ connectedFor' = IF connectedFor = NoJoin THEN NoJoin ELSE Grown(connectedFor, Grace)
  /\ age' = Grown(age, Timeout)
  /\ wait' = IF wait = 0 THEN 0 ELSE wait - 1
  /\ looked' = FALSE
  /\ UNCHANGED <<wifi, req, tries, told, held, dropped>>

Look == Hold \/ AwaitRetry \/ Retry \/ GiveUp \/ Fetch

WindowNext == Join \/ Drop \/ AskHttps \/ Look \/ FetchEnds \/ Sweep \/ Pass

WindowSpec == WindowInit /\ [][WindowNext]_windowVars

\* Time passes, the worker and the main loop are scheduled, a fetch has socket
\* timeouts.
FairWindowSpec ==
  /\ WindowSpec
  /\ WF_windowVars(Look) /\ WF_windowVars(FetchEnds)
  /\ WF_windowVars(Sweep) /\ WF_windowVars(Pass)

-----------------------------------------------------------------------------

WindowTypeOK ==
  /\ wifi \in BOOLEAN /\ connectedFor \in (0..Grace) \cup {NoJoin}
  /\ req \in {"none", "queued", "fetching", "over"}
  /\ age \in 0..Timeout /\ tries \in 0..MaxRetries /\ wait \in 0..RetryDelay
  /\ looked \in BOOLEAN /\ told \in {"nothing", "answer", "failure"}
  /\ held \in BOOLEAN /\ dropped \in BOOLEAN

\* The request is looked at, held, retried and dropped within its bounds, and
\* being held back alone, or a tight heap alone, never costs a request its
\* answer window; only both together, or Wi-Fi lost meanwhile, do.
WindowFitsOneDelay ==
  req = "queued" /\ told # "nothing" => dropped \/ (held /\ tries > 0)

WindowInv == WindowTypeOK /\ WindowFitsOneDelay

\* With Wi-Fi up for good, no request stays in the worker for ever (run).
RequestLeaves == <>[]wifi => (req = "queued" ~> req # "queued")
=============================================================================
