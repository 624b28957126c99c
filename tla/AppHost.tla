------------------------------ MODULE AppHost ------------------------------
(***************************************************************************)
(* core/apps/AppHost.cpp: which app of the rotation shows, and the         *)
(* transition to the next.  An AppHost is a record; each operator is one   *)
(* method and answers the host it leaves behind.  Indices count from 1 and *)
(* 0 is the code's -1.  shown is the time since phaseStartMs_.             *)
(***************************************************************************)
EXTENDS Integers, Sequences

CONSTANT NoApp     \* no id

NewHost ==
  [apps |-> <<>>, current |-> 1, target |-> 0, direction |-> 1,
   phase |-> "fixed", shown |-> 0, started |-> FALSE]

\* The first place of id in the list, 0 if it has none.
IndexOf(apps, id) ==
  IF \E i \in DOMAIN apps : apps[i] = id
  THEN CHOOSE i \in DOMAIN apps : apps[i] = id /\ \A j \in 1..(i - 1) : apps[j] # id
  ELSE 0

CurrentId(h) == IF h.current \in DOMAIN h.apps THEN h.apps[h.current] ELSE NoApp

IncomingId(h) ==
  IF h.phase = "transition" /\ h.target \in DOMAIN h.apps THEN h.apps[h.target] ELSE NoApp

\* Mutant: the place is kept, not the app.
SetAppsByIndex(h, ids) ==
  IF ids = h.apps THEN h
  ELSE [h EXCEPT !.apps = ids, !.target = 0, !.phase = "fixed",
                 !.current = IF Len(ids) = 0 THEN 1
                             ELSE IF @ > Len(ids) THEN Len(ids) ELSE @]

\* The showing app and the target of a running transition are kept by id; a
\* transition that loses an end stops, and its clock runs on.
SetApps(h, ids) ==
  LET found == IndexOf(ids, CurrentId(h))
      current == IF found # 0 THEN found
                 ELSE IF Len(ids) = 0 THEN 1
                 ELSE IF h.current > Len(ids) THEN Len(ids) ELSE h.current
      target == IF found # 0 THEN IndexOf(ids, IncomingId(h)) ELSE 0
      kept == target # 0 /\ target # current
  IN IF ids = h.apps THEN h
     ELSE [h EXCEPT !.apps = ids, !.current = current,
                    !.target = IF kept THEN target ELSE 0,
                    !.phase = IF kept THEN "transition" ELSE "fixed"]

\* The place s steps from another, around the end of the list.
Around(h, from, s) ==
  LET i == from + s IN
    IF i > Len(h.apps) THEN i - Len(h.apps) ELSE IF i < 1 THEN i + Len(h.apps) ELSE i

\* The next app in direction dir that wants to show; 0 when no other does.
Pick(h, dir, declines) ==
  LET n == Len(h.apps)
      Wants(s) == h.apps[Around(h, h.current, dir * s)] \notin declines
  IN IF \E s \in 1..(n - 1) : Wants(s)
     THEN Around(h, h.current,
                 dir * (CHOOSE s \in 1..(n - 1) :
                          Wants(s) /\ \A r \in 1..(s - 1) : ~Wants(r)))
     ELSE 0

StartPhase(h, phase) == [h EXCEPT !.phase = phase, !.shown = 0, !.started = TRUE]

Settle(h) ==
  IF h.phase = "transition"
  THEN [StartPhase(h, "fixed") EXCEPT
          !.current = IF h.target \in DOMAIN h.apps THEN h.target ELSE @,
          !.target = 0, !.direction = 1]
  ELSE h

BeginTransition(h, dir, declines) ==
  LET s == Settle(h)
      t == Pick(s, dir, declines)
  IN IF Len(h.apps) < 2 THEN h
     ELSE IF t = 0 THEN StartPhase(s, "fixed")
     ELSE [StartPhase(s, "transition") EXCEPT !.direction = dir, !.target = t]

TickHost(h, dwell, transition, auto, declines) ==
  LET c == IF h.started THEN h ELSE StartPhase(h, h.phase) IN
    IF Len(h.apps) = 0 THEN h
    ELSE IF c.phase = "fixed"
    THEN IF auto /\ Len(c.apps) >= 2 /\ c.shown >= dwell
         THEN BeginTransition(c, c.direction, declines) ELSE c
    ELSE IF c.shown >= transition THEN Settle(c) ELSE c

\* A jump keeps the direction of the transition it cuts off.
SwitchTo(h, id) ==
  IF IndexOf(h.apps, id) = 0 THEN h
  ELSE [StartPhase(h, "fixed") EXCEPT !.current = IndexOf(h.apps, id), !.target = 0]

TransitionTo(h, id) ==
  LET i == IndexOf(h.apps, id)
      s == Settle(h)
  IN IF i = 0 \/ (h.phase = "transition" /\ i = h.target) THEN h
     ELSE IF i = s.current THEN s
     ELSE [StartPhase(s, "transition") EXCEPT !.direction = 1, !.target = i]

\* What every method keeps: the place that shows is one of the list, and a
\* transition leads from there to another.
GoodHost(h) ==
  /\ h \in [apps: {h.apps}, current: Nat \ {0}, target: Nat, direction: {-1, 1},
            phase: {"fixed", "transition"}, shown: Nat, started: BOOLEAN]
  /\ Len(h.apps) \in Nat /\ DOMAIN h.apps = 1..Len(h.apps)
  /\ h.phase = "fixed" <=> h.target = 0
  /\ Len(h.apps) # 0 => h.current <= Len(h.apps)
  /\ h.target # 0 => h.target <= Len(h.apps) /\ h.target # h.current

\* Time since the phase began, counted up to a limit no duration exceeds.
Elapse(h, limit) == [h EXCEPT !.shown = IF h.started /\ @ < limit THEN @ + 1 ELSE @]
=============================================================================
