----------------------------- MODULE AsyncQueue -----------------------------
(***************************************************************************)
(* src/src/core/script/AsyncQueue.h: the bounded, lossy FIFO between a     *)
(* network task and the main loop.  Both operations hold the queue's       *)
(* mutex, so each is one step of the module that uses it.                  *)
(***************************************************************************)
EXTENDS Naturals, Sequences

\* push(): at the bound the oldest entry makes room.
Push(q, v, cap) ==
  IF Len(q) >= cap THEN Append(Tail(q), v) ELSE Append(q, v)

Elements(q) == {q[i] : i \in 1..Len(q)}
=============================================================================
