--------------------------- MODULE ScriptModules ---------------------------
(***************************************************************************)
(* Scripts that import scripts: ScriptHost::set(), remove() and            *)
(* reloadDependents(), the module cache of the VM, and what ScriptService  *)
(* does around them.  Installing a module reinstalls what imports it, from *)
(* flash, which reinstalls what imports that, down to kMaxReloadDepth; the *)
(* recursion is a stack of the dependents each level has left.             *)
(*                                                                         *)
(* A source stands for a script's text and its settings: both are saved    *)
(* after the install, both are read back by a reload.  `stale` is what     *)
(* nobody in the code knows: the imports of a script that have been        *)
(* replaced or dropped in the cache since it was loaded.                   *)
(***************************************************************************)
EXTENDS Naturals, FiniteSets, Sequences

CONSTANTS
  Names,         \* install names, numbered in the order of std::map
  SourcesOf,     \* what is uploaded under each name: [kind, as, imports, sound]
  None,          \* no such file, not installed
  ReloadDepth,   \* kMaxReloadDepth
  Limit,         \* scriptLimit
  MaxRefusals,   \* bound on the installs refused for want of heap
  MaxRestarts    \* bound on restarts

Sources == UNION {SourcesOf[n] : n \in Names}
ImportNames == UNION ({{s.as} : s \in Sources} \cup {s.imports : s \in Sources})

ASSUME ModulesAssumption ==
  /\ Names \subseteq Nat /\ IsFiniteSet(Names)
  /\ \A s \in Sources : s.kind \in {"app", "module"} /\ s.sound \in BOOLEAN
  /\ None \notin Sources /\ None \notin Names
  /\ {ReloadDepth, Limit, MaxRefusals, MaxRestarts} \subseteq Nat

VARIABLES
  installed,  \* apps_, modules_ and imports_: the source each name runs
  cache,      \* the import names the VM resolves
  failed,     \* the names whose body threw
  file,       \* /SCRIPTS
  stack,      \* per level of reloadDependents(), the dependents left
  job,        \* the save or removal that follows the install
  boot,       \* the names a start has still to load
  stale,      \* per name, its imports that changed since it was loaded
  excused,    \* the names a reload was refused, or that lost an import by renaming
  tangled,    \* imports were circular, or deeper than ReloadDepth
  refusals, restarts

ram == <<installed, cache, failed>>
ghosts == <<stale, excused, tangled>>
bounds == <<refusals, restarts>>
vars == <<ram, file, stack, job, boot, ghosts, bounds>>

-----------------------------------------------------------------------------
IsModule(s) == s # None /\ s.kind = "module"
ImportsOf(s) == IF s = None THEN {} ELSE s.imports
Provides(s) == IF IsModule(s) THEN {s.as} ELSE {}

NoJob == [name |-> None, source |-> None]
Idle == stack = <<>> /\ job = NoJob /\ boot = {}

\* Modules are put in front of the list one by one, apps behind it.
Frames == [modules : SUBSET Names, apps : SUBSET Names]
NoFrame == [modules |-> {}, apps |-> {}]

Dependents(inst, import, skip) ==
  LET deps == {n \in Names \ {skip} : import \in ImportsOf(inst[n])}
      modules == {n \in deps : IsModule(inst[n])}
  IN [modules |-> modules, apps |-> deps \ modules]

\* Refused by name, or for being one too many.
Refused(n, s) ==
  \/ \E k \in Names \ {n} : Provides(s) \cap Provides(installed[k]) # {}
  \/ installed[n] = None
     /\ Cardinality({k \in Names : installed[k] # None}) >= Limit

Importers(inst, names) == {k \in Names : ImportsOf(inst[k]) \cap names # {}}

\* Want of heap is counted, a refusal that follows from the names is not.
CountRefusal(n) ==
  /\ ~Refused(n, file[n]) => refusals < MaxRefusals
  /\ refusals' = IF Refused(n, file[n]) THEN refusals ELSE refusals + 1

\* The names at the far end of a chain of k imports.
Chain(inst) ==
  LET f[k \in 0..(ReloadDepth + 1)] ==
        IF k = 0 THEN Names
        ELSE LET names == UNION {Provides(inst[d]) : d \in f[k - 1]}
             IN Importers(inst, names)
  IN f

Tangled(inst) == Chain(inst)[ReloadDepth + 1] # {}

\* Whoever else imports one of these holds what the cache no longer has.
Touched(inst, n, changed) ==
  [k \in Names |-> IF k = n \/ inst[k] = None THEN {}
                   ELSE stale[k] \cup (inst[k].imports \cap changed)]

\* Mutant: one level is reloaded less than kMaxReloadDepth says.
PushLess(frames, import, inst, skip) ==
  LET deps == Dependents(inst, import, skip)
  IN IF Len(frames) + 1 < ReloadDepth /\ deps # NoFrame
     THEN Append(frames, deps) ELSE frames

Push(frames, import, inst, skip) ==
  LET deps == Dependents(inst, import, skip)
  IN IF Len(frames) < ReloadDepth /\ deps # NoFrame
     THEN Append(frames, deps) ELSE frames

\* What the cache still holds once the old n has been dropped from it.
\* Mutant: a module that is replaced is left in the cache until it loads anew.
CacheKept(n) == cache

CacheWithout(n) == cache \ Provides(installed[n])

-----------------------------------------------------------------------------
Init ==
  /\ installed = [n \in Names |-> None]
  /\ cache = {}
  /\ failed = {}
  /\ file = [n \in Names |-> None]
  /\ stack = <<>>
  /\ job = NoJob
  /\ boot = {}
  /\ stale = [n \in Names |-> {}]
  /\ excused = {}
  /\ tangled = FALSE
  /\ refusals = 0 /\ restarts = 0

\* set(), not refused.  What n was is dropped from the cache first; an import
\* that is not there fails the body, and a module that fails is not cached.
Install(n, s, frames) ==
  LET kept == CacheWithout(n)
      dropped == cache \ kept
      inst == [installed EXCEPT ![n] = s]
      ok == s.sound /\ s.imports \subseteq kept
      new == IF ok THEN Provides(s) ELSE {}
      lost == dropped \ Provides(s)
  IN /\ installed' = inst
     /\ cache' = kept \cup new
     /\ failed' = IF ok THEN failed \ {n} ELSE failed \cup {n}
     /\ stack' = IF IsModule(s) THEN Push(frames, s.as, inst, n) ELSE frames
     /\ stale' = Touched(inst, n, dropped \cup new)
     /\ excused' = (excused \ {n}) \cup (Importers(inst, lost) \ {n})

TangledBy(n, s) == tangled' = (tangled \/ Tangled([installed EXCEPT ![n] = s]))

\* setScript() and setScriptConfig(): saved only once installed, and that is
\* after every reload the install has led to.
Upload(n, s) ==
  /\ Idle
  /\ ~Refused(n, s)
  /\ Install(n, s, <<>>)
  /\ TangledBy(n, s)
  /\ job' = [name |-> n, source |-> s]
  /\ UNCHANGED <<file, boot, bounds>>

\* removeScript() of a module: ScriptHost::remove() reloads what imported it.
RemoveModule(n) ==
  LET inst == [installed EXCEPT ![n] = None]
  IN /\ Idle
     /\ IsModule(installed[n])
     /\ installed' = inst
     /\ cache' = CacheWithout(n)
     /\ failed' = failed \ {n}
     /\ stack' = Push(<<>>, installed[n].as, inst, None)
     /\ job' = [name |-> n, source |-> None]
     /\ stale' = Touched(inst, n, cache \cap Provides(installed[n]))
     /\ excused' = excused \ {n}
     /\ UNCHANGED <<file, boot, tangled, bounds>>

RemoveApp(n) ==
  /\ Idle
  /\ installed[n] # None /\ ~IsModule(installed[n])
  /\ installed' = [installed EXCEPT ![n] = None]
  /\ failed' = failed \ {n}
  /\ job' = [name |-> n, source |-> None]
  /\ stale' = [stale EXCEPT ![n] = {}]
  /\ excused' = excused \ {n}
  /\ UNCHANGED <<cache, file, stack, boot, tangled, bounds>>

-----------------------------------------------------------------------------
(* reloadDependents() *)

Top == stack[Len(stack)]
Left == IF stack = <<>> THEN NoFrame ELSE Top

\* n is at the head of the list: the last module, else the first app.
NextUp(n) ==
  \/ n \in Left.modules /\ \A k \in Left.modules : k <= n
  \/ Left.modules = {} /\ n \in Left.apps /\ \A k \in Left.apps : n <= k

\* Mutant: the list is not advanced.
Unadvanced(n) == stack

Without(n) ==
  [stack EXCEPT ![Len(stack)] = [modules |-> Top.modules \ {n},
                                 apps |-> Top.apps \ {n}]]

\* The next dependent is set from what is stored.
Reload(n) ==
  /\ NextUp(n)
  /\ file[n] # None /\ ~Refused(n, file[n])
  /\ Install(n, file[n], Without(n))
  /\ UNCHANGED <<file, job, boot, tangled, bounds>>

\* Refused by name or by set()'s looks at the heap: it still runs the previous.
ReloadRefused(n) ==
  /\ NextUp(n)
  /\ file[n] # None
  /\ CountRefusal(n)
  /\ stack' = Without(n)
  /\ excused' = excused \cup {n}
  /\ UNCHANGED <<ram, file, job, boot, stale, tangled, restarts>>

\* readSource() finds nothing.
ReloadGone(n) ==
  /\ NextUp(n)
  /\ file[n] = None
  /\ stack' = Without(n)
  /\ excused' = excused \cup {n}
  /\ UNCHANGED <<ram, file, job, boot, stale, tangled, bounds>>

Return ==
  /\ stack # <<>> /\ Top = NoFrame
  /\ stack' = SubSeq(stack, 1, Len(stack) - 1)
  /\ UNCHANGED <<ram, file, job, boot, ghosts, bounds>>

\* Mutant: a source whose body threw is not kept.
SaveSound ==
  /\ stack = <<>> /\ job # NoJob
  /\ file' = IF job.name \in failed THEN file ELSE [file EXCEPT ![job.name] = job.source]
  /\ job' = NoJob
  /\ UNCHANGED <<ram, stack, boot, ghosts, bounds>>

\* save_() or remove_()
Save ==
  /\ stack = <<>> /\ job # NoJob
  /\ file' = [file EXCEPT ![job.name] = job.source]
  /\ job' = NoJob
  /\ UNCHANGED <<ram, stack, boot, ghosts, bounds>>

-----------------------------------------------------------------------------
(* A restart: modules first, then the apps (main.cpp) *)

Restart ==
  /\ restarts < MaxRestarts /\ restarts' = restarts + 1
  /\ installed' = [n \in Names |-> None]
  /\ cache' = {} /\ failed' = {}
  /\ stack' = <<>> /\ job' = NoJob
  /\ boot' = {n \in Names : file[n] # None}
  /\ stale' = [n \in Names |-> {}]
  /\ excused' = {} /\ tangled' = FALSE
  /\ UNCHANGED <<file, refusals>>

Turn(n) ==
  /\ stack = <<>> /\ n \in boot
  /\ IsModule(file[n]) \/ \A k \in boot : ~IsModule(file[k])

Load(n) ==
  /\ Turn(n)
  /\ ~Refused(n, file[n])
  /\ boot' = boot \ {n}
  /\ Install(n, file[n], <<>>)
  /\ TangledBy(n, file[n])
  /\ UNCHANGED <<file, job, bounds>>

NotRestored(n) ==
  /\ Turn(n)
  /\ CountRefusal(n)
  /\ boot' = boot \ {n}
  /\ UNCHANGED <<ram, file, stack, job, ghosts, restarts>>

-----------------------------------------------------------------------------
Reloading ==
  Return \/ \E n \in Names : Reload(n) \/ ReloadRefused(n) \/ ReloadGone(n)
Booting == \E n \in Names : Load(n) \/ NotRestored(n)
Managing ==
  \E n \in Names :
    \/ \E s \in SourcesOf[n] : Upload(n, s)
    \/ RemoveModule(n)
    \/ RemoveApp(n)

Next == Managing \/ Reloading \/ Save \/ Booting \/ Restart

Spec == Init /\ [][Next]_vars

\* One call on the loop task: once begun it runs to its end.
FairSpec == Spec /\ WF_vars(Reloading \/ Save \/ Booting)

-----------------------------------------------------------------------------
TypeOK ==
  /\ installed \in [Names -> Sources \cup {None}]
  /\ cache \subseteq ImportNames
  /\ failed \subseteq Names
  /\ file \in [Names -> Sources \cup {None}]
  /\ stack \in Seq(Frames)
  /\ job \in [name : Names \cup {None}, source : Sources \cup {None}]
  /\ boot \subseteq Names
  /\ stale \in [Names -> SUBSET ImportNames]
  /\ excused \subseteq Names
  /\ tangled \in BOOLEAN
  /\ refusals \in 0..MaxRefusals /\ restarts \in 0..MaxRestarts

(* An import name belongs to one installed module, at every step of a reload   *)
(* that takes modules out and puts them back.                                  *)
OneOwner ==
  \A n, k \in Names :
    n # k => Provides(installed[n]) \cap Provides(installed[k]) = {}

(* The VM resolves the import names of the modules that run, and no other:     *)
(* nothing a module provided outlives its removal, its renaming, its turning   *)
(* into an app or a body that fails.                                           *)
CacheOwned ==
  cache = UNION {Provides(installed[n]) :
                   n \in {k \in Names : installed[k] # None} \ failed}

(* The recursion is never deeper than kMaxReloadDepth, circular imports or not.*)
StackBounded == Len(stack) <= ReloadDepth

(* Until a call has ended there is a step for it to take: a level returns, a   *)
(* dependent is next, a source is to be loaded or the save is due.             *)
NeverStuck ==
  ~Idle => \/ stack # <<>> /\ Top = NoFrame
           \/ \E n \in Names : NextUp(n) \/ Turn(n)
           \/ stack = <<>> /\ job # NoJob

ModulesInv == TypeOK /\ OneOwner /\ CacheOwned /\ StackBounded /\ NeverStuck

(* Once a management call or a start is over, no script runs against a module  *)
(* that has been replaced or removed since it was loaded, if imports are       *)
(* neither circular nor deeper than kMaxReloadDepth, its reload was not        *)
(* refused and the module kept its import name.  That includes the script that *)
(* failed for want of a module that is there now.                              *)
ImportersAreFresh ==
  Idle /\ ~tangled => \A n \in Names \ excused : stale[n] = {}

(* What runs is what is stored, once a management call is over: a reload reads *)
(* flash while the new source is only in RAM, and may not put the old one back.*)
RunsWhatIsSaved ==
  Idle /\ ~tangled =>
    \A n \in Names : installed[n] # None => installed[n] = file[n]

(* Every management call and every start ends, circular imports or not.        *)
ReloadEnds == ~Idle ~> Idle

(* Why it ends: of what is left to load, of the dependents left on each level  *)
(* of the recursion and of the save, in that order, a step takes one away and  *)
(* adds at most to what comes after it.                                        *)
LeftOn(k) ==
  IF k > Len(stack) THEN 0 ELSE 1 + Cardinality(stack[k].modules \cup stack[k].apps)

Places == 0..(ReloadDepth + 1)
Work ==
  [k \in Places |-> IF k = 0 THEN Cardinality(boot)
                    ELSE IF k <= ReloadDepth THEN LeftOn(k)
                    ELSE IF job = NoJob THEN 0 ELSE 1]

Less(w, v) == \E k \in Places : w[k] < v[k] /\ \A j \in 0..(k - 1) : w[j] = v[j]

WorkShrinks == [][Reloading \/ Save \/ Booting => Less(Work', Work)]_vars

=============================================================================
