-------------------------- MODULE MCScriptModules --------------------------
\* Three modules and an app: 1 may be imported by 2, 2 by 3 and 3 by 4, which
\* is as deep as a reload goes; 1 may import 2 back, be saved broken or become
\* an app; 2 may be saved under another import name, which 4 also imports.
EXTENDS ScriptModules

Module(as, imports) ==
  [kind |-> "module", as |-> as, imports |-> imports, sound |-> TRUE]
App(imports) == [kind |-> "app", as |-> "a", imports |-> imports, sound |-> TRUE]

MCNames == 1..4
MCSourcesOf ==
  << {Module("a", {}), [Module("a", {}) EXCEPT !.sound = FALSE],
      Module("a", {"b"}), App({})},
     {Module("b", {"a"}), Module("c", {})},
     {Module("c", {"b"}), Module("c", {"a", "b"})},
     {App({"c"}), App({"a", "c"})} >>

=============================================================================
