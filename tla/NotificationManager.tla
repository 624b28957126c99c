------------------------ MODULE NotificationManager ------------------------
(***************************************************************************)
(* core/notify/NotificationManager.cpp: the queue of notifications.  A     *)
(* manager is a record; each operator is one method and answers the        *)
(* manager it leaves behind.  shown is the time since currentStartMs_.     *)
(***************************************************************************)
EXTENDS Naturals, Sequences

NewManager == [queue |-> <<>>, shown |-> 0, generation |-> 0]

HasCurrent(m) == m.queue # <<>>
Current(m) == Head(m.queue)

\* The front is another one: its time starts, and the renderer is told.
Fronted(m, queue) ==
  [queue |-> queue, shown |-> 0, generation |-> m.generation + 1]

Full(m, capacity) == Len(m.queue) >= capacity

\* push(): a notification that does not stack replaces the front.
PushOn(m, n) ==
  IF ~n.stack
  THEN Fronted(m, <<n>> \o (IF HasCurrent(m) THEN Tail(m.queue) ELSE <<>>))
  ELSE IF HasCurrent(m) THEN [m EXCEPT !.queue = Append(@, n)]
  ELSE Fronted(m, <<n>>)

DismissFront(m) == IF HasCurrent(m) THEN Fronted(m, Tail(m.queue)) ELSE m

Without(queue, k) ==
  [i \in 1..(Len(queue) - 1) |-> IF i < k THEN queue[i] ELSE queue[i + 1]]

\* dismissNamed() of the notification at place k.
DismissPlace(m, k) ==
  IF k = 1 THEN Fronted(m, Without(m.queue, k))
  ELSE [m EXCEPT !.queue = Without(@, k)]

\* update(): without a duration of its own, a text that has been read goes now,
\* any other notification after the default.
Update(m, default, hold, passesDone) ==
  LET n == Current(m)
      due == IF n.duration > 0 \/ passesDone THEN n.duration ELSE default
  IN IF HasCurrent(m) /\ ~n.hold /\ ~hold /\ m.shown >= due
     THEN DismissFront(m) ELSE m

Wait(m, limit) == [m EXCEPT !.shown = IF @ < limit THEN @ + 1 ELSE @]
=============================================================================
