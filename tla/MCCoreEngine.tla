---------------------------- MODULE MCCoreEngine ----------------------------
(* Small instances of CoreEngine. *)
EXTENDS CoreEngine

CONSTANTS time, news, clock, alarm

MCBuiltins == <<time>>
MCPushable == {news}
MCScripts == <<clock, alarm>>
MCHeadless == {alarm}
MCArrangements ==
  {[order |-> <<clock, time, clock>>, disabled |-> {}],
   [order |-> <<news>>, disabled |-> {clock}]}
MCBooted == [order |-> <<news>>, disabled |-> {clock}]

Kind(stack, hold, repeats, duration) ==
  [stack |-> stack, hold |-> hold, wakeup |-> ~stack, repeats |-> repeats,
   duration |-> duration]
MCKinds ==
  {Kind(TRUE, FALSE, FALSE, 1),   \* plain, with a duration of its own
   Kind(TRUE, FALSE, TRUE, 0),    \* to be read to its end
   Kind(FALSE, TRUE, FALSE, 0)}   \* an alarm: replaces, holds, wakes the panel
=============================================================================
