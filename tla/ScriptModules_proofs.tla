----------------------- MODULE ScriptModules_proofs -----------------------
(***************************************************************************)
(* What a management call, a reload and a start leave of the VM's module   *)
(* cache and of what runs, for any names, sources and depth.  Install is   *)
(* the step all of them take, so it is proved once for any source and any  *)
(* stack, for the cache (Safe) and for the sources that run (Fresh).       *)
(***************************************************************************)
EXTENDS ScriptModules, SequenceTheorems, FiniteSetTheorems, WellFoundedInduction, TLAPS

(* What a start has still to load is stored: nothing is saved or removed       *)
(* before it is over.                                                          *)
BootStored ==
  /\ boot # {} => job = NoJob
  /\ \A n \in boot : file[n] # None

Safe == TypeOK /\ OneOwner /\ CacheOwned /\ StackBounded /\ BootStored

\* A module provides its own import name and an app none.
LEMMA ProvidesType ==
  ASSUME NEW s \in Sources \cup {None}
  PROVE  Provides(s) \subseteq ImportNames
BY DEF Provides, IsModule, ImportNames

LEMMA ImportsType ==
  ASSUME NEW s \in Sources \cup {None}
  PROVE  ImportsOf(s) \subseteq ImportNames
BY DEF ImportsOf, ImportNames

LEMMA DependentsType ==
  ASSUME NEW inst, NEW import, NEW skip
  PROVE  Dependents(inst, import, skip) \in Frames
BY DEF Dependents, Frames

\* A level is added only where there is room for one (reloadDependents).
LEMMA PushBounds ==
  ASSUME NEW frames \in Seq(Frames), Len(frames) <= ReloadDepth,
         NEW import, NEW inst, NEW skip
  PROVE  /\ Push(frames, import, inst, skip) \in Seq(Frames)
         /\ Len(Push(frames, import, inst, skip)) <= ReloadDepth
<1> DEFINE deps == Dependents(inst, import, skip)
<1>1. deps \in Frames
  BY DependentsType
<1>2. ReloadDepth \in Nat
  BY ModulesAssumption
<1>3. CASE Len(frames) < ReloadDepth /\ deps # NoFrame
  <2>1. Push(frames, import, inst, skip) = Append(frames, deps)
    BY <1>3 DEF Push
  <2> HIDE DEF deps
  <2> QED
    BY <2>1, <1>1, <1>2, <1>3
<1>4. CASE ~(Len(frames) < ReloadDepth /\ deps # NoFrame)
  BY <1>4 DEF Push
<1> QED
  BY <1>3, <1>4

\* A dependent that has been dealt with leaves the list of its level.
LEMMA WithoutBounds ==
  ASSUME TypeOK, StackBounded, NEW n \in Names, NextUp(n)
  PROVE  /\ Without(n) \in Seq(Frames)
         /\ Len(Without(n)) <= ReloadDepth
<1>1. stack # <<>>
  BY DEF NextUp, Left, NoFrame
<1>2. stack \in Seq(Frames) /\ Len(stack) \in 1..Len(stack)
  BY <1>1 DEF TypeOK
<1>3. Top \in Frames
  BY <1>2 DEF Top
<1>4. [modules |-> Top.modules \ {n}, apps |-> Top.apps \ {n}] \in Frames
  BY <1>3 DEF Frames
<1>5. Without(n) \in Seq(Frames) /\ Len(Without(n)) = Len(stack)
  BY <1>2, <1>4 DEF Without
<1> QED
  BY <1>5 DEF StackBounded

\* What the cache keeps when n is dropped from it is what the others provide.
LEMMA KeptIsTheOthers ==
  ASSUME TypeOK, OneOwner, CacheOwned, NEW n \in Names
  PROVE  CacheWithout(n) =
           UNION {Provides(installed[k]) :
                    k \in {m \in Names : m # n /\ installed[m] # None} \ failed}
<1>1. \A k \in Names : k # n => Provides(installed[k]) \cap Provides(installed[n]) = {}
  BY DEF OneOwner
<1> QED
  BY <1>1 DEF CacheOwned, CacheWithout

\* One name more adds what it provides.
LEMMA UnionWith ==
  ASSUME NEW f, NEW S, NEW n
  PROVE  UNION {f[k] : k \in S \cup {n}} = (UNION {f[k] : k \in S}) \cup f[n]
OBVIOUS

\* set() with a source that is not refused, from any place of the recursion.
LEMMA InstallKeeps ==
  ASSUME TypeOK, OneOwner, CacheOwned,
         NEW n \in Names, NEW s \in Sources, ~Refused(n, s),
         NEW frames \in Seq(Frames), Len(frames) <= ReloadDepth,
         Install(n, s, frames)
  PROVE  /\ installed' \in [Names -> Sources \cup {None}]
         /\ cache' \subseteq ImportNames
         /\ failed' \subseteq Names
         /\ stack' \in Seq(Frames)
         /\ stale' \in [Names -> SUBSET ImportNames]
         /\ excused' \subseteq Names
         /\ OneOwner' /\ CacheOwned' /\ StackBounded'
<1> DEFINE kept == CacheWithout(n)
           inst == [installed EXCEPT ![n] = s]
           ok == s.sound /\ s.imports \subseteq kept
           new == IF ok THEN Provides(s) ELSE {}
<1>1. /\ installed' = inst
      /\ cache' = kept \cup new
      /\ failed' = IF ok THEN failed \ {n} ELSE failed \cup {n}
      /\ stack' = IF IsModule(s) THEN Push(frames, s.as, inst, n) ELSE frames
      /\ stale' = Touched(inst, n, (cache \ kept) \cup new)
      /\ excused' = (excused \ {n})
                      \cup (Importers(inst, (cache \ kept) \ Provides(s)) \ {n})
  BY DEF Install
<1>2. inst \in [Names -> Sources \cup {None}]
  BY DEF TypeOK
<1>3. kept \subseteq cache /\ cache \subseteq ImportNames
  BY DEF TypeOK, CacheWithout
<1>4. new \subseteq ImportNames
  BY ProvidesType
<1>5. cache' \subseteq ImportNames
  BY <1>1, <1>3, <1>4
<1>6. failed' \subseteq Names
  BY <1>1 DEF TypeOK
<1>7. stack' \in Seq(Frames) /\ StackBounded'
  BY <1>1, PushBounds DEF StackBounded
<1>8. stale' \in [Names -> SUBSET ImportNames]
  <2>1. \A k \in Names : stale[k] \subseteq ImportNames
    BY DEF TypeOK
  <2>2. \A k \in Names : inst[k] # None => inst[k].imports \subseteq ImportNames
    BY <1>2, ImportsType DEF ImportsOf
  <2> QED
    BY <1>1, <2>1, <2>2 DEF Touched
<1>9. excused' \subseteq Names
  BY <1>1 DEF TypeOK, Importers
<1>10. \A k \in Names \ {n} : Provides(s) \cap Provides(installed[k]) = {}
  BY DEF Refused
<1>11. OneOwner'
  <2> SUFFICES ASSUME NEW i \in Names, NEW k \in Names, i # k
               PROVE  Provides(inst[i]) \cap Provides(inst[k]) = {}
    BY <1>1 DEF OneOwner
  <2>1. inst[n] = s /\ \A m \in Names \ {n} : inst[m] = installed[m]
    BY DEF TypeOK
  <2>2. CASE i = n
    BY <2>1, <2>2, <1>10
  <2>3. CASE k = n
    BY <2>1, <2>3, <1>10
  <2>4. CASE i # n /\ k # n
    BY <2>1, <2>4 DEF OneOwner
  <2> QED
    BY <2>2, <2>3, <2>4
<1>12. CacheOwned'
  <2>1. inst[n] = s /\ \A m \in Names \ {n} : inst[m] = installed[m]
    BY DEF TypeOK
  <2>2. s # None
    BY ModulesAssumption
  <2>3. kept = UNION {Provides(installed[k]) :
                        k \in {m \in Names : m # n /\ installed[m] # None} \ failed}
    BY KeptIsTheOthers
  <2> DEFINE Others == {m \in Names : m # n /\ installed[m] # None} \ failed
             After == {m \in Names : inst[m] # None} \ failed'
  <2>4. \A k \in Others : Provides(inst[k]) = Provides(installed[k])
    BY <2>1
  <2>5. UNION {Provides(inst[k]) : k \in Others} = kept
    BY <2>3, <2>4
  <2>6. UNION {Provides(inst[k]) : k \in After} = kept \cup new
    <3>1. CASE ~ok
      <4>1. After = Others /\ new = {}
        BY <1>1, <2>1, <2>2, <3>1
      <4> HIDE DEF After, Others, new, kept, inst
      <4> QED
        BY <2>5, <4>1
    <3>2. CASE ok
      <4>1. After = Others \cup {n} /\ new = Provides(s)
        BY <1>1, <2>1, <2>2, <3>2
      <4> DEFINE f == [k \in Others \cup {n} |-> Provides(inst[k])]
      <4> HIDE DEF After, Others, new, kept, inst
      <4>2. UNION {f[k] : k \in Others \cup {n}} = (UNION {f[k] : k \in Others}) \cup f[n]
        BY UnionWith
      <4>3. UNION {Provides(inst[k]) : k \in Others \cup {n}} = UNION {f[k] : k \in Others \cup {n}}
        OBVIOUS
      <4>4. UNION {Provides(inst[k]) : k \in Others} = UNION {f[k] : k \in Others}
        OBVIOUS
      <4> QED
        BY <2>1, <2>5, <4>1, <4>2, <4>3, <4>4
    <3> QED
      BY <3>1, <3>2
  <2>7. CacheOwned' <=> cache' = UNION {Provides(inst[k]) : k \in After}
    BY <1>1 DEF CacheOwned
  <2> HIDE DEF After, Others, new, kept, inst
  <2> QED
    BY <1>1, <2>6, <2>7
<1> QED
  BY <1>1, <1>2, <1>5, <1>6, <1>7, <1>8, <1>9, <1>11, <1>12

-----------------------------------------------------------------------------
LEMMA Starts == Init => Safe
<1> SUFFICES ASSUME Init PROVE Safe
  OBVIOUS
<1>1. /\ installed = [n \in Names |-> None]
      /\ cache = {} /\ failed = {}
      /\ file = [n \in Names |-> None]
      /\ stack = <<>> /\ job = NoJob /\ boot = {}
      /\ stale = [n \in Names |-> {}]
      /\ excused = {} /\ tangled = FALSE
      /\ refusals = 0 /\ restarts = 0
  BY DEF Init
<1>2. {ReloadDepth, MaxRefusals, MaxRestarts} \subseteq Nat
  BY ModulesAssumption
<1>3. \A n \in Names : Provides(installed[n]) = {}
  BY <1>1 DEF Provides, IsModule
<1>4. TypeOK
  <2>1. stack \in Seq(Frames) /\ job \in [name : Names \cup {None}, source : Sources \cup {None}]
    BY <1>1 DEF NoJob
  <2>2. /\ installed \in [Names -> Sources \cup {None}]
        /\ file \in [Names -> Sources \cup {None}]
        /\ stale \in [Names -> SUBSET ImportNames]
    BY <1>1
  <2>3. refusals \in 0..MaxRefusals /\ restarts \in 0..MaxRestarts
    BY <1>1, <1>2
  <2> QED
    BY <1>1, <2>1, <2>2, <2>3 DEF TypeOK
<1>5. OneOwner
  BY <1>3 DEF OneOwner
<1>6. CacheOwned
  BY <1>1, <1>3 DEF CacheOwned
<1>7. StackBounded
  BY <1>1, <1>2 DEF StackBounded
<1>8. BootStored
  BY <1>1 DEF BootStored
<1> QED
  BY <1>4, <1>5, <1>6, <1>7, <1>8 DEF Safe

LEMMA UploadKeeps ==
  ASSUME Safe, NEW n \in Names, NEW s \in SourcesOf[n], Upload(n, s)
  PROVE  Safe'
<1>1. s \in Sources
  BY DEF Sources
<1>2. <<>> \in Seq(Frames) /\ Len(<<>>) <= ReloadDepth
  BY ModulesAssumption
<1>3. /\ ~Refused(n, s) /\ Install(n, s, <<>>) /\ TangledBy(n, s)
      /\ job' = [name |-> n, source |-> s]
      /\ UNCHANGED <<file, boot, refusals, restarts>>
  BY DEF Upload, bounds
<1>4. /\ installed' \in [Names -> Sources \cup {None}]
      /\ cache' \subseteq ImportNames
      /\ failed' \subseteq Names
      /\ stack' \in Seq(Frames)
      /\ stale' \in [Names -> SUBSET ImportNames]
      /\ excused' \subseteq Names
      /\ OneOwner' /\ CacheOwned' /\ StackBounded'
  BY <1>1, <1>2, <1>3, InstallKeeps DEF Safe
<1>5. tangled' \in BOOLEAN
  BY <1>3 DEF TangledBy, Tangled, Safe, TypeOK
<1>6. TypeOK'
  BY <1>1, <1>3, <1>4, <1>5 DEF Safe, TypeOK
<1>7. BootStored'
  BY <1>3 DEF Upload, Idle, BootStored
<1> QED
  BY <1>4, <1>6, <1>7 DEF Safe

LEMMA ReloadKeeps ==
  ASSUME Safe, NEW n \in Names, Reload(n)
  PROVE  Safe'
<1>1. /\ NextUp(n) /\ ~Refused(n, file[n]) /\ file[n] # None
      /\ Install(n, file[n], Without(n))
      /\ UNCHANGED <<file, job, boot, tangled, refusals, restarts>>
  BY DEF Reload, bounds
<1>2. file[n] \in Sources
  BY <1>1 DEF Safe, TypeOK
<1>3. Without(n) \in Seq(Frames) /\ Len(Without(n)) <= ReloadDepth
  BY <1>1, WithoutBounds DEF Safe
<1>4. /\ installed' \in [Names -> Sources \cup {None}]
      /\ cache' \subseteq ImportNames
      /\ failed' \subseteq Names
      /\ stack' \in Seq(Frames)
      /\ stale' \in [Names -> SUBSET ImportNames]
      /\ excused' \subseteq Names
      /\ OneOwner' /\ CacheOwned' /\ StackBounded'
  BY <1>1, <1>2, <1>3, InstallKeeps DEF Safe
<1>5. TypeOK'
  BY <1>1, <1>4 DEF Safe, TypeOK
<1>6. BootStored'
  BY <1>1 DEF Safe, BootStored
<1> QED
  BY <1>4, <1>5, <1>6 DEF Safe

LEMMA LoadKeeps ==
  ASSUME Safe, NEW n \in Names, Load(n)
  PROVE  Safe'
<1>1. /\ Turn(n) /\ ~Refused(n, file[n]) /\ boot' = boot \ {n}
      /\ Install(n, file[n], <<>>) /\ TangledBy(n, file[n])
      /\ UNCHANGED <<file, job, refusals, restarts>>
  BY DEF Load, bounds
<1>2. <<>> \in Seq(Frames) /\ Len(<<>>) <= ReloadDepth
  BY ModulesAssumption
<1>3. file[n] \in Sources
  BY <1>1 DEF Turn, Safe, BootStored, TypeOK
<1>4. /\ installed' \in [Names -> Sources \cup {None}]
      /\ cache' \subseteq ImportNames
      /\ failed' \subseteq Names
      /\ stack' \in Seq(Frames)
      /\ stale' \in [Names -> SUBSET ImportNames]
      /\ excused' \subseteq Names
      /\ OneOwner' /\ CacheOwned' /\ StackBounded'
  BY <1>1, <1>2, <1>3, InstallKeeps DEF Safe
<1>5. tangled' \in BOOLEAN
  BY <1>1 DEF TangledBy, Tangled, Safe, TypeOK
<1>6. TypeOK'
  BY <1>1, <1>4, <1>5 DEF Safe, TypeOK
<1>7. BootStored'
  BY <1>1 DEF Safe, BootStored
<1> QED
  BY <1>4, <1>6, <1>7 DEF Safe

\* ScriptHost::remove() drops the module before anything is reloaded.
LEMMA RemovalKeeps ==
  ASSUME TypeOK, OneOwner, CacheOwned, NEW n \in Names,
         installed' = [installed EXCEPT ![n] = None],
         cache' = CacheWithout(n),
         failed' = failed \ {n}
  PROVE  /\ installed' \in [Names -> Sources \cup {None}]
         /\ cache' \subseteq ImportNames
         /\ failed' \subseteq Names
         /\ OneOwner' /\ CacheOwned'
<1>1. installed'[n] = None /\ \A m \in Names \ {n} : installed'[m] = installed[m]
  BY DEF TypeOK
<1>2. OneOwner'
  <2>1. Provides(installed'[n]) = {}
    BY <1>1 DEF Provides, IsModule
  <2>2. \A m \in Names \ {n} : Provides(installed'[m]) = Provides(installed[m])
    BY <1>1
  <2> QED
    BY <2>1, <2>2 DEF OneOwner
<1>3. CacheOwned'
  <2> DEFINE Others == {m \in Names : m # n /\ installed[m] # None} \ failed
  <2>1. {m \in Names : installed'[m] # None} \ failed' = Others
    BY <1>1
  <2>2. \A k \in Others : Provides(installed'[k]) = Provides(installed[k])
    BY <1>1
  <2>3. cache' = UNION {Provides(installed[k]) : k \in Others}
    BY KeptIsTheOthers
  <2>4. cache' = UNION {Provides(installed'[k]) : k \in Others}
    BY <2>2, <2>3
  <2> QED
    BY <2>1, <2>4 DEF CacheOwned
<1> QED
  BY <1>2, <1>3 DEF TypeOK, CacheWithout

LEMMA RemoveModuleKeeps ==
  ASSUME Safe, NEW n \in Names, RemoveModule(n)
  PROVE  Safe'
<1> DEFINE inst == [installed EXCEPT ![n] = None]
<1>1. /\ Idle /\ installed' = inst /\ cache' = CacheWithout(n) /\ failed' = failed \ {n}
      /\ stack' = Push(<<>>, installed[n].as, inst, None)
      /\ job' = [name |-> n, source |-> None]
      /\ stale' = Touched(inst, n, cache \cap Provides(installed[n]))
      /\ excused' = excused \ {n}
      /\ UNCHANGED <<file, boot, tangled, refusals, restarts>>
  BY DEF RemoveModule, bounds
<1>2. /\ installed' \in [Names -> Sources \cup {None}]
      /\ cache' \subseteq ImportNames
      /\ failed' \subseteq Names
      /\ OneOwner' /\ CacheOwned'
  BY <1>1, RemovalKeeps DEF Safe
<1>3. <<>> \in Seq(Frames) /\ Len(<<>>) <= ReloadDepth
  BY ModulesAssumption
<1>4. stack' \in Seq(Frames) /\ StackBounded'
  <2> HIDE DEF inst
  <2> QED
    BY <1>1, <1>3, PushBounds DEF StackBounded
<1>5. stale' \in [Names -> SUBSET ImportNames]
  <2>1. inst \in [Names -> Sources \cup {None}]
    BY <1>1, <1>2
  <2>2. \A k \in Names : stale[k] \subseteq ImportNames
    BY DEF Safe, TypeOK
  <2>3. \A k \in Names : inst[k] # None => inst[k].imports \subseteq ImportNames
    BY <2>1, ImportsType DEF ImportsOf
  <2> QED
    BY <1>1, <2>2, <2>3 DEF Touched
<1>6. TypeOK'
  BY <1>1, <1>2, <1>4, <1>5 DEF Safe, TypeOK
<1>7. BootStored'
  BY <1>1 DEF Idle, BootStored
<1> QED
  BY <1>2, <1>4, <1>6, <1>7 DEF Safe

LEMMA RemoveAppKeeps ==
  ASSUME Safe, NEW n \in Names, RemoveApp(n)
  PROVE  Safe'
<1>1. /\ Idle /\ ~IsModule(installed[n])
      /\ installed' = [installed EXCEPT ![n] = None] /\ failed' = failed \ {n}
      /\ job' = [name |-> n, source |-> None]
      /\ stale' = [stale EXCEPT ![n] = {}]
      /\ excused' = excused \ {n}
      /\ UNCHANGED <<cache, file, stack, boot, tangled, refusals, restarts>>
  BY DEF RemoveApp, bounds
<1>2. cache' = CacheWithout(n)
  BY <1>1 DEF CacheWithout, Provides
<1>3. /\ installed' \in [Names -> Sources \cup {None}]
      /\ cache' \subseteq ImportNames
      /\ failed' \subseteq Names
      /\ OneOwner' /\ CacheOwned'
  BY <1>1, <1>2, RemovalKeeps DEF Safe
<1>4. StackBounded'
  BY <1>1 DEF Safe, StackBounded
<1>5. TypeOK'
  BY <1>1, <1>3 DEF Safe, TypeOK
<1>6. BootStored'
  BY <1>1 DEF Idle, BootStored
<1> QED
  BY <1>3, <1>4, <1>5, <1>6 DEF Safe

\* A dependent that is not reloaded, or the end of a level: the VM is as it was.
LEMMA StackMoves ==
  ASSUME Safe, stack' \in Seq(Frames), Len(stack') <= ReloadDepth,
         excused' \subseteq Names, refusals' \in 0..MaxRefusals,
         UNCHANGED <<ram, file, job, boot, stale, tangled, restarts>>
  PROVE  Safe'
<1>1. UNCHANGED <<installed, cache, failed>>
  BY DEF ram
<1>2. TypeOK'
  BY <1>1 DEF Safe, TypeOK
<1>3. OneOwner' /\ CacheOwned'
  BY <1>1 DEF Safe, OneOwner, CacheOwned
<1>4. StackBounded' /\ BootStored'
  BY DEF Safe, StackBounded, BootStored
<1> QED
  BY <1>2, <1>3, <1>4 DEF Safe

LEMMA RefusalCounted ==
  ASSUME Safe, NEW n \in Names, CountRefusal(n)
  PROVE  refusals' \in 0..MaxRefusals
<1>1. MaxRefusals \in Nat
  BY ModulesAssumption
<1> QED
  BY <1>1 DEF CountRefusal, Safe, TypeOK

LEMMA ReloadingKeeps ==
  ASSUME Safe, Reloading
  PROVE  Safe'
<1>1. CASE Return
  <2>1. /\ stack # <<>> /\ stack' = SubSeq(stack, 1, Len(stack) - 1)
        /\ UNCHANGED <<ram, file, job, boot, stale, excused, tangled, refusals, restarts>>
    BY <1>1 DEF Return, ghosts, bounds
  <2>2. stack \in Seq(Frames) /\ Len(stack) <= ReloadDepth
    BY DEF Safe, TypeOK, StackBounded
  <2>3. ReloadDepth \in Nat
    BY ModulesAssumption
  <2>4. stack' \in Seq(Frames) /\ Len(stack') <= ReloadDepth
    BY <2>1, <2>2, <2>3
  <2> QED
    BY <2>1, <2>4, StackMoves DEF Safe, TypeOK
<1>2. ASSUME NEW n \in Names, Reload(n)
      PROVE  Safe'
  BY <1>2, ReloadKeeps
<1>3. ASSUME NEW n \in Names, ReloadRefused(n)
      PROVE  Safe'
  <2>1. /\ NextUp(n) /\ CountRefusal(n)
        /\ stack' = Without(n) /\ excused' = excused \cup {n}
        /\ UNCHANGED <<ram, file, job, boot, stale, tangled, restarts>>
    BY <1>3 DEF ReloadRefused
  <2>2. refusals' \in 0..MaxRefusals
    BY <2>1, RefusalCounted
  <2>3. stack' \in Seq(Frames) /\ Len(stack') <= ReloadDepth
    BY <2>1, WithoutBounds DEF Safe
  <2>4. excused' \subseteq Names
    BY <2>1 DEF Safe, TypeOK
  <2> QED
    BY <2>1, <2>2, <2>3, <2>4, StackMoves
<1>4. ASSUME NEW n \in Names, ReloadGone(n)
      PROVE  Safe'
  <2>1. /\ NextUp(n) /\ stack' = Without(n) /\ excused' = excused \cup {n}
        /\ UNCHANGED <<ram, file, job, boot, stale, tangled, refusals, restarts>>
    BY <1>4 DEF ReloadGone, bounds
  <2>2. stack' \in Seq(Frames) /\ Len(stack') <= ReloadDepth
    BY <2>1, WithoutBounds DEF Safe
  <2>3. excused' \subseteq Names /\ refusals' \in 0..MaxRefusals
    BY <2>1 DEF Safe, TypeOK
  <2> QED
    BY <2>1, <2>2, <2>3, StackMoves
<1> QED
  BY <1>1, <1>2, <1>3, <1>4 DEF Reloading

LEMMA SaveKeeps ==
  ASSUME Safe, Save
  PROVE  Safe'
<1>1. /\ job # NoJob /\ job' = NoJob
      /\ file' = [file EXCEPT ![job.name] = job.source]
      /\ UNCHANGED <<installed, cache, failed, stack, boot, stale, excused, tangled,
                     refusals, restarts>>
  BY DEF Save, ram, ghosts, bounds
<1>2. file' \in [Names -> Sources \cup {None}] /\ job' \in [name : Names \cup {None}, source : Sources \cup {None}]
  BY <1>1 DEF Safe, TypeOK, NoJob
<1>3. TypeOK'
  BY <1>1, <1>2 DEF Safe, TypeOK
<1>4. OneOwner' /\ CacheOwned' /\ StackBounded'
  BY <1>1 DEF Safe, OneOwner, CacheOwned, StackBounded
<1>5. BootStored'
  BY <1>1 DEF Safe, BootStored
<1> QED
  BY <1>3, <1>4, <1>5 DEF Safe

LEMMA RestartKeeps ==
  ASSUME Safe, Restart
  PROVE  Safe'
<1>1. /\ installed' = [n \in Names |-> None]
      /\ cache' = {} /\ failed' = {}
      /\ stack' = <<>> /\ job' = NoJob
      /\ boot' = {n \in Names : file[n] # None}
      /\ stale' = [n \in Names |-> {}]
      /\ excused' = {} /\ tangled' = FALSE
      /\ file' = file /\ refusals' = refusals
  BY DEF Restart
<1>2. ReloadDepth \in Nat /\ MaxRestarts \in Nat
  BY ModulesAssumption
<1>3. restarts' \in 0..MaxRestarts
  BY <1>2 DEF Restart, Safe, TypeOK
<1>4. \A n \in Names : Provides(installed'[n]) = {}
  BY <1>1 DEF Provides, IsModule
<1>5. TypeOK'
  <2>1. stack' \in Seq(Frames) /\ job' \in [name : Names \cup {None}, source : Sources \cup {None}]
    BY <1>1 DEF NoJob
  <2>2. installed' \in [Names -> Sources \cup {None}] /\ stale' \in [Names -> SUBSET ImportNames]
    BY <1>1
  <2> QED
    BY <1>1, <1>3, <2>1, <2>2 DEF Safe, TypeOK
<1>6. OneOwner'
  BY <1>4 DEF OneOwner
<1>7. CacheOwned'
  BY <1>1, <1>4 DEF CacheOwned
<1>8. StackBounded'
  BY <1>1, <1>2 DEF StackBounded
<1>9. BootStored'
  BY <1>1 DEF BootStored
<1> QED
  BY <1>5, <1>6, <1>7, <1>8, <1>9 DEF Safe

LEMMA NotRestoredKeeps ==
  ASSUME Safe, NEW n \in Names, NotRestored(n)
  PROVE  Safe'
<1>1. /\ CountRefusal(n) /\ boot' = boot \ {n}
      /\ UNCHANGED <<installed, cache, failed, file, stack, job, stale, excused,
                     tangled, restarts>>
  BY DEF NotRestored, ram, ghosts
<1>2. refusals' \in 0..MaxRefusals
  BY <1>1, RefusalCounted
<1>3. TypeOK'
  BY <1>1, <1>2 DEF Safe, TypeOK
<1>4. OneOwner' /\ CacheOwned' /\ StackBounded'
  BY <1>1 DEF Safe, OneOwner, CacheOwned, StackBounded
<1>5. BootStored'
  BY <1>1 DEF Safe, BootStored
<1> QED
  BY <1>3, <1>4, <1>5 DEF Safe

LEMMA StutterKeeps ==
  ASSUME Safe, UNCHANGED vars
  PROVE  Safe'
BY DEF vars, ram, ghosts, bounds, Safe, TypeOK, OneOwner, CacheOwned, StackBounded,
       BootStored

LEMMA SafeKeeps == Safe /\ [Next]_vars => Safe'
<1> SUFFICES ASSUME Safe, [Next]_vars PROVE Safe'
  OBVIOUS
<1>1. ASSUME NEW n \in Names, NEW s \in SourcesOf[n], Upload(n, s)
      PROVE  Safe'
  BY <1>1, UploadKeeps
<1>2. ASSUME NEW n \in Names, RemoveModule(n) \/ RemoveApp(n)
      PROVE  Safe'
  BY <1>2, RemoveModuleKeeps, RemoveAppKeeps
<1>3. CASE Reloading
  BY <1>3, ReloadingKeeps
<1>4. CASE Save
  BY <1>4, SaveKeeps
<1>5. ASSUME NEW n \in Names, Load(n) \/ NotRestored(n)
      PROVE  Safe'
  BY <1>5, LoadKeeps, NotRestoredKeeps
<1>6. CASE Restart
  BY <1>6, RestartKeeps
<1>7. CASE UNCHANGED vars
  BY <1>7, StutterKeeps
<1> QED
  BY <1>1, <1>2, <1>3, <1>4, <1>5, <1>6, <1>7 DEF Next, Managing, Booting

-----------------------------------------------------------------------------
(* Sets of numbers *)

\* The order of the numbers, as a relation induction can be done over.
LEMMA LessIsWellFounded ==
  \E R : /\ \A x, y \in Nat : y < x => <<y, x>> \in R
         /\ \A T \in SUBSET Nat : T # {} => \E x \in T : \A y \in T : <<y, x>> \notin R
<1> DEFINE R == OpToRel(<, Nat)
<1>1. IsWellFoundedOn(R, Nat)
  BY NatLessThanWellFounded
<1>2. \A x, y \in Nat : y < x => <<y, x>> \in R
  BY DEF OpToRel
<1> HIDE DEF R
<1>3. \A T \in SUBSET Nat : T # {} => \E x \in T : \A y \in T : <<y, x>> \notin R
  BY <1>1, WFMin
<1> QED
  BY <1>2, <1>3

\* Induction over a set of numbers: what holds at 0 and at every successor is
\* all of Nat.
LEMMA AllNaturals ==
  ASSUME NEW T, 0 \in T, \A j \in Nat : j \in T => j + 1 \in T
  PROVE  Nat \subseteq T
<1> SUFFICES ASSUME Nat \ T # {}
             PROVE  FALSE
  OBVIOUS
<1>1. PICK R : /\ \A x, y \in Nat : y < x => <<y, x>> \in R
               /\ \A S \in SUBSET Nat : S # {} => \E x \in S : \A y \in S : <<y, x>> \notin R
  BY LessIsWellFounded
<1>2. PICK x \in Nat \ T : \A y \in Nat \ T : <<y, x>> \notin R
  BY <1>1
<1>3. x # 0
  BY <1>2
<1>4. x - 1 \in Nat /\ x - 1 < x
  BY <1>2, <1>3
<1>5. x - 1 \in T
  BY <1>1, <1>2, <1>4
<1>6. (x - 1) + 1 \in T
  BY <1>4, <1>5
<1> QED
  BY <1>2, <1>4, <1>6

\* A set of numbers that is not empty has a first one, a finite one a last one.
LEMMA FirstOf ==
  ASSUME NEW S \in SUBSET Nat, S # {}
  PROVE  \E x \in S : \A y \in S : x <= y
<1>1. PICK R : /\ \A x, y \in Nat : y < x => <<y, x>> \in R
               /\ \A T \in SUBSET Nat : T # {} => \E x \in T : \A y \in T : <<y, x>> \notin R
  BY LessIsWellFounded
<1>2. PICK x \in S : \A y \in S : <<y, x>> \notin R
  BY <1>1
<1>3. \A y \in S : ~(y < x)
  BY <1>1, <1>2
<1> QED
  BY <1>2, <1>3

LEMMA LastOf ==
  ASSUME NEW S \in SUBSET Nat, IsFiniteSet(S), S # {}
  PROVE  \E x \in S : \A y \in S : y <= x
<1> DEFINE Above(x) == {y \in S : y > x}
           sizes == {n \in Nat : \E x \in S : n = Cardinality(Above(x))}
<1>1. \A x \in S : IsFiniteSet(Above(x)) /\ Cardinality(Above(x)) \in Nat
  BY FS_Subset, FS_CardinalityType
<1>2. sizes # {} /\ sizes \in SUBSET Nat
  BY <1>1
<1>3. PICK n \in sizes : \A m \in sizes : n <= m
  <2> HIDE DEF sizes
  <2> QED
    BY <1>2, FirstOf
<1>4. PICK x \in S : n = Cardinality(Above(x))
  BY <1>3
<1>5. ASSUME NEW y \in S, y > x
      PROVE  FALSE
  <2>1. Above(y) \subseteq Above(x) /\ y \in Above(x) /\ y \notin Above(y)
    <3>1. \A z \in S : z \in Nat
      OBVIOUS
    <3>2. \A z \in S : z > y => z > x
      BY <1>5, <3>1
    <3>3. Above(y) \subseteq Above(x) /\ y \in Above(x)
      BY <1>5, <3>2
    <3>4. ~(y > y)
      BY <3>1
    <3> QED
      BY <3>3, <3>4
  <2>2. Cardinality(Above(y)) <= Cardinality(Above(x)) /\ Above(y) # Above(x)
    BY <1>1, <2>1, FS_Subset
  <2>3. Cardinality(Above(y)) # Cardinality(Above(x))
    BY <1>1, <2>1, <2>2, FS_Subset
  <2>4. Cardinality(Above(y)) \in sizes
    BY <1>1
  <2>5. Cardinality(Above(y)) \in Nat /\ n \in Nat
    BY <1>1
  <2>6. n <= Cardinality(Above(y))
    BY <1>3, <2>4
  <2> HIDE DEF Above, sizes
  <2> QED
    BY <1>4, <2>2, <2>3, <2>5, <2>6
<1> QED
  BY <1>4, <1>5

-----------------------------------------------------------------------------
\* A list that is not empty has a head, and a start a name to load.
LEMMA NextIsThere ==
  ASSUME TypeOK
  PROVE  NeverStuck
<1>1. CASE stack # <<>> /\ Top # NoFrame
  <2>1. Top \in Frames /\ Left = Top
    BY <1>1 DEF TypeOK, Top, Left
  <2>2. CASE Top.modules # {}
    <3>1. Top.modules \in SUBSET Nat /\ IsFiniteSet(Top.modules) /\ Top.modules \subseteq Names
      BY <2>1, ModulesAssumption, FS_Subset DEF Frames
    <3>2. PICK n \in Top.modules : \A k \in Top.modules : k <= n
      BY <2>2, <3>1, LastOf
    <3> QED
      BY <2>1, <3>1, <3>2 DEF NextUp, NeverStuck
  <2>3. CASE Top.modules = {}
    <3>1. Top.apps # {}
      BY <1>1, <2>1, <2>3 DEF Frames, NoFrame
    <3>2. Top.apps \in SUBSET Nat /\ Top.apps \subseteq Names
      BY <2>1, ModulesAssumption DEF Frames
    <3>3. PICK n \in Top.apps : \A k \in Top.apps : n <= k
      BY <3>1, <3>2, FirstOf
    <3> QED
      BY <2>1, <2>3, <3>2, <3>3 DEF NextUp, NeverStuck
  <2> QED
    BY <2>2, <2>3
<1>2. CASE stack = <<>> /\ boot # {}
  <2>1. \E n \in boot : IsModule(file[n]) \/ \A k \in boot : ~IsModule(file[k])
    BY <1>2
  <2> QED
    BY <1>2, <2>1 DEF Turn, NeverStuck, TypeOK
<1> QED
  BY <1>1, <1>2 DEF NeverStuck, Idle

(* Whatever is uploaded, removed, refused or restarted, and however deep or    *)
(* circular the imports: every import name belongs to one installed module,    *)
(* the VM resolves the names of the modules that run and no other, also in     *)
(* the middle of a reload, and reloadDependents() is never deeper than         *)
(* kMaxReloadDepth.                                                            *)
THEOREM ModulesCorrect == Spec => []ModulesInv
<1>1. Safe => ModulesInv
  BY NextIsThere DEF Safe, ModulesInv
<1> QED
  BY <1>1, Starts, SafeKeeps, PTL DEF Spec

-----------------------------------------------------------------------------
(* Chains of imports *)

\* k imports what m provides.
Feeds(inst, m, k) == ImportsOf(inst[k]) \cap Provides(inst[m]) # {}

\* One link further.
Fed(inst, names) == Importers(inst, UNION {Provides(inst[d]) : d \in names})

Deepest == ReloadDepth + 1

Link(inst, f, k) == IF k = 0 THEN Names ELSE Fed(inst, f[k - 1])
IsChain(inst, f, j) == f = [k \in 0..j |-> Link(inst, f, k)]

\* The function Chain defines exists, so it is what its definition says.
LEMMA ChainRecursion ==
  ASSUME NEW inst
  PROVE  /\ Chain(inst)[0] = Names
         /\ \A j \in 0..ReloadDepth : Chain(inst)[j + 1] = Fed(inst, Chain(inst)[j])
<1> DEFINE T == {j \in Nat : \E f : IsChain(inst, f, j)}
<1>1. 0 \in T
  <2>1. IsChain(inst, [k \in 0..0 |-> Names], 0)
    BY DEF IsChain, Link
  <2> QED
    BY <2>1
<1>2. ASSUME NEW j \in Nat, j \in T
      PROVE  j + 1 \in T
  <2>1. PICK f : IsChain(inst, f, j)
    BY <1>2
  <2> DEFINE g == [k \in 0..(j + 1) |-> IF k <= j THEN f[k] ELSE Fed(inst, f[j])]
  <2>2. \A k \in 0..j : g[k] = f[k] /\ f[k] = Link(inst, f, k)
    <3>1. f = [k \in 0..j |-> Link(inst, f, k)]
      BY <2>1 DEF IsChain
    <3> QED
      BY <3>1
  <2>3. g[j + 1] = Fed(inst, f[j]) /\ g = [k \in 0..(j + 1) |-> g[k]]
    OBVIOUS
  <2> HIDE DEF g
  <2>4. ASSUME NEW k \in 0..(j + 1)
        PROVE  g[k] = Link(inst, g, k)
    <3>1. CASE k = 0
      BY <2>2, <3>1 DEF Link
    <3>2. CASE k # 0
      <4>1. k - 1 \in 0..j /\ g[k - 1] = f[k - 1]
        BY <2>2, <3>2
      <4>2. CASE k <= j
        <5>1. k \in 0..j
          BY <4>2
        <5>2. g[k] = f[k] /\ f[k] = Link(inst, f, k)
          BY <2>2, <5>1
        <5> QED
          BY <3>2, <4>1, <5>2 DEF Link
      <4>3. CASE k = j + 1
        <5>1. k - 1 = j
          BY <4>3
        <5> QED
          BY <2>3, <3>2, <4>1, <4>3, <5>1 DEF Link
      <4> QED
        BY <4>2, <4>3
    <3> QED
      BY <3>1, <3>2
  <2>5. [k \in 0..(j + 1) |-> g[k]] = [k \in 0..(j + 1) |-> Link(inst, g, k)]
    BY <2>4
  <2>6. IsChain(inst, g, j + 1)
    BY <2>3, <2>5 DEF IsChain
  <2> QED
    BY <2>6
<1>3. ReloadDepth \in Nat /\ Deepest \in Nat
  BY ModulesAssumption DEF Deepest
<1>4. \E f : IsChain(inst, f, Deepest)
  <2> HIDE DEF T
  <2>1. Deepest \in T
    BY <1>1, <1>2, <1>3, AllNaturals
  <2> QED
    BY <2>1 DEF T
<1>5. Chain(inst) = CHOOSE f : IsChain(inst, f, Deepest)
  BY DEF Chain, Fed, Deepest, IsChain, Link
<1> DEFINE c == Chain(inst)
<1>6. IsChain(inst, c, Deepest)
  BY <1>4, <1>5
<1> HIDE DEF c
<1>7. \A k \in 0..Deepest : c[k] = Link(inst, c, k)
  BY <1>6 DEF IsChain
<1>8. 0 \in 0..Deepest /\ c[0] = Names
  BY <1>3, <1>7 DEF Deepest, Link
<1>9. ASSUME NEW j \in 0..ReloadDepth
      PROVE  c[j + 1] = Fed(inst, c[j])
  <2>1. j + 1 \in 0..Deepest /\ j + 1 # 0 /\ (j + 1) - 1 = j
    BY <1>3 DEF Deepest
  <2> QED
    BY <1>7, <2>1 DEF Link
<1> QED
  BY <1>8, <1>9 DEF c

LEMMA ChainLink ==
  ASSUME NEW inst, NEW j \in 0..ReloadDepth, NEW k
  PROVE  k \in Chain(inst)[j + 1] <=>
           k \in Names /\ \E d \in Chain(inst)[j] : Feeds(inst, d, k)
BY ChainRecursion DEF Fed, Importers, Feeds

LEMMA ChainNames ==
  ASSUME NEW inst, NEW j \in 0..Deepest
  PROVE  Chain(inst)[j] \subseteq Names
<1>1. CASE j = 0
  BY <1>1, ChainRecursion
<1>2. CASE j # 0
  <2>1. j - 1 \in 0..ReloadDepth /\ (j - 1) + 1 = j
    BY <1>2, ModulesAssumption DEF Deepest
  <2> QED
    BY <2>1, ChainLink
<1> QED
  BY <1>1, <1>2

\* Taking scripts away tangles nothing.
LEMMA LessTangles ==
  ASSUME NEW more, NEW less, \A n \in Names : less[n] = more[n] \/ less[n] = None,
         Tangled(less)
  PROVE  Tangled(more)
<1>1. \A m, k \in Names : Feeds(less, m, k) => Feeds(more, m, k)
  BY DEF Feeds, ImportsOf, Provides, IsModule
<1> DEFINE T == {j \in Nat : j <= Deepest => Chain(less)[j] \subseteq Chain(more)[j]}
<1>2. 0 \in T
  BY ChainRecursion
<1>3. ASSUME NEW j \in Nat, j \in T
      PROVE  j + 1 \in T
  <2> SUFFICES ASSUME j + 1 <= Deepest, NEW k \in Chain(less)[j + 1]
               PROVE  k \in Chain(more)[j + 1]
    OBVIOUS
  <2>1. j \in 0..ReloadDepth /\ j \in 0..Deepest /\ j <= Deepest
    BY ModulesAssumption DEF Deepest
  <2>2. k \in Names /\ \E d \in Chain(less)[j] : Feeds(less, d, k)
    BY <2>1, ChainLink
  <2>3. PICK d \in Chain(less)[j] : Feeds(less, d, k)
    BY <2>2
  <2>4. d \in Names /\ d \in Chain(more)[j]
    BY <1>3, <2>1, <2>3, ChainNames
  <2> QED
    BY <1>1, <2>1, <2>2, <2>3, <2>4, ChainLink
<1>4. Deepest \in Nat
  BY ModulesAssumption DEF Deepest
<1>5. Deepest \in T
  <2> HIDE DEF T
  <2> QED
    BY <1>2, <1>3, <1>4, AllNaturals
<1> QED
  BY <1>4, <1>5 DEF Tangled, Deepest

\* A circle of imports tangles, however long.
LEMMA LoopTangles ==
  ASSUME NEW inst, NEW C \in SUBSET Names, C # {},
         \A k \in C : \E d \in C : Feeds(inst, d, k)
  PROVE  Tangled(inst)
<1> DEFINE T == {j \in Nat : j <= Deepest => C \subseteq Chain(inst)[j]}
<1>1. 0 \in T
  BY ChainRecursion
<1>2. ASSUME NEW j \in Nat, j \in T
      PROVE  j + 1 \in T
  <2> SUFFICES ASSUME j + 1 <= Deepest, NEW k \in C
               PROVE  k \in Chain(inst)[j + 1]
    OBVIOUS
  <2>1. j \in 0..ReloadDepth /\ j <= Deepest
    BY ModulesAssumption DEF Deepest
  <2>2. PICK d \in C : Feeds(inst, d, k)
    OBVIOUS
  <2> QED
    BY <1>2, <2>1, <2>2, ChainLink
<1>3. Deepest \in Nat
  BY ModulesAssumption DEF Deepest
<1>4. Deepest \in T
  <2> HIDE DEF T
  <2> QED
    BY <1>1, <1>2, <1>3, AllNaturals
<1> QED
  BY <1>3, <1>4 DEF Tangled, Deepest

\* So does a chain that is one link longer than a reload is deep.
LEMMA PathTangles ==
  ASSUME NEW inst, NEW p, \A i \in 0..Deepest : p[i] \in Names,
         \A i \in 0..ReloadDepth : Feeds(inst, p[i], p[i + 1])
  PROVE  Tangled(inst)
<1> DEFINE T == {j \in Nat : j <= Deepest => p[j] \in Chain(inst)[j]}
<1>1. Deepest \in Nat
  BY ModulesAssumption DEF Deepest
<1>2. 0 \in T
  BY <1>1, ChainRecursion
<1>3. ASSUME NEW j \in Nat, j \in T
      PROVE  j + 1 \in T
  <2> SUFFICES ASSUME j + 1 <= Deepest
               PROVE  p[j + 1] \in Chain(inst)[j + 1]
    OBVIOUS
  <2>1. j \in 0..ReloadDepth /\ j <= Deepest /\ j + 1 \in 0..Deepest
    BY ModulesAssumption DEF Deepest
  <2> QED
    BY <1>3, <2>1, ChainLink
<1>4. Deepest \in T
  <2> HIDE DEF T
  <2> QED
    BY <1>1, <1>2, <1>3, AllNaturals
<1> QED
  BY <1>1, <1>4 DEF Tangled, Deepest

-----------------------------------------------------------------------------
(* What is reloaded, and from what *)

\* The imports as they were when the call under way began: what is being
\* removed is still on flash.
Graph ==
  IF job # NoJob /\ job.source = None
  THEN [installed EXCEPT ![job.name] = file[job.name]] ELSE installed

Members(frame) == frame.modules \cup frame.apps
Listed(frames) == UNION {Members(frames[i]) : i \in 1..Len(frames)}

\* Level i reloads importers of u[i], which is itself an importer of u[i - 1].
Branch(inst, frames, u) ==
  /\ u \in [1..Len(frames) -> Names]
  /\ \A i \in 1..Len(frames) :
       /\ i > 1 => Feeds(inst, u[i - 1], u[i])
       /\ \A k \in Members(frames[i]) : Feeds(inst, u[i], k)

\* The first level reloads the importers of what the call is about.
Rooted(u) == job # NoJob /\ stack # <<>> => u[1] = job.name

Saved ==
  \A n \in Names : n # job.name /\ installed[n] # None => installed[n] = file[n]
Running == job # NoJob => job.name \in Names /\ installed[job.name] = job.source
StaleIsListed == \A k \in Names \ excused : stale[k] # {} => k \in Listed(stack)

(* As long as imports are not tangled: whoever holds a replaced import is in   *)
(* the list of some level, and the levels follow a chain of imports, which     *)
(* cannot come back to what is being uploaded or removed; so all that is       *)
(* reloaded is what flash has and runs already.                                *)
Fresh ==
  ~tangled =>
    /\ ~Tangled(Graph)
    /\ Saved /\ Running /\ StaleIsListed
    /\ \E u : Branch(Graph, stack, u) /\ Rooted(u)

\* A branch u that has grown, or begun with n.
Grown(inst, frames, u, n, grown) ==
  \E v : /\ Branch(inst, grown, v)
         /\ frames # <<>> => v[1] = u[1]
         /\ frames = <<>> /\ grown # <<>> => v[1] = n

LEMMA EmptyBranch ==
  ASSUME NEW inst
  PROVE  /\ \E u : Branch(inst, <<>>, u)
         /\ Listed(<<>>) = {}
<1>1. Branch(inst, <<>>, <<>>)
  BY DEF Branch
<1> QED
  BY <1>1 DEF Listed

\* A level is added below the others, and there is room for it: if there were
\* none, the imports would be deeper than ReloadDepth.
LEMMA PushBranch ==
  ASSUME NEW inst, NEW frames, NEW u, NEW n, NEW import, NEW after, NEW skip,
         ~Tangled(inst), frames \in Seq(Frames), Len(frames) <= ReloadDepth,
         Branch(inst, frames, u), n \in Names,
         Len(frames) > 0 => Feeds(inst, u[Len(frames)], n),
         \A k \in Members(Dependents(after, import, skip)) : Feeds(inst, n, k)
  PROVE  /\ Listed(Push(frames, import, after, skip)) =
              Listed(frames) \cup Members(Dependents(after, import, skip))
         /\ Grown(inst, frames, u, n, Push(frames, import, after, skip))
<1> DEFINE D == Dependents(after, import, skip)
           L == Len(frames)
<1>1. D \in Frames /\ L \in Nat /\ ReloadDepth \in Nat
  BY DependentsType, ModulesAssumption
<1>2. Members(D) \subseteq Names
  BY <1>1 DEF Members, Frames
<1>3. D = NoFrame \/ \E k \in Members(D) : TRUE
  BY <1>1 DEF Members, Frames, NoFrame
<1>4. D = NoFrame => Members(D) = {}
  BY DEF NoFrame, Members
<1>5. Push(frames, import, after, skip) =
        IF L < ReloadDepth /\ D # NoFrame THEN Append(frames, D) ELSE frames
  BY DEF Push
<1>6. \A k \in Members(D) : Feeds(inst, n, k)
  OBVIOUS
<1> HIDE DEF D
<1>7. CASE D = NoFrame
  BY <1>4, <1>5, <1>7 DEF D, Grown
<1>8. CASE D # NoFrame
  <2>1. L < ReloadDepth
    <3> SUFFICES ASSUME L = ReloadDepth
                 PROVE  FALSE
      BY <1>1
    <3>1. PICK k \in Members(D) : TRUE
      BY <1>3, <1>8
    <3> DEFINE p == [i \in 0..Deepest |->
                       IF i < L THEN u[i + 1] ELSE IF i = L THEN n ELSE k]
    <3>2. \A i \in 0..Deepest : p[i] = IF i < L THEN u[i + 1] ELSE IF i = L THEN n ELSE k
      OBVIOUS
    <3>3. \A i \in 1..L : u[i] \in Names /\ (i > 1 => Feeds(inst, u[i - 1], u[i]))
      BY DEF Branch
    <3> HIDE DEF p
    <3>4. \A i \in 0..Deepest : p[i] \in Names
      <4> SUFFICES ASSUME NEW i \in 0..Deepest PROVE p[i] \in Names
        OBVIOUS
      <4>1. CASE i < L
        <5>1. i + 1 \in 1..L
          BY <1>1, <4>1
        <5> QED
          BY <3>2, <3>3, <4>1, <5>1
      <4>2. CASE ~(i < L)
        BY <1>2, <3>1, <3>2, <4>2
      <4> QED
        BY <4>1, <4>2
    <3>5. \A i \in 0..ReloadDepth : Feeds(inst, p[i], p[i + 1])
      <4> SUFFICES ASSUME NEW i \in 0..ReloadDepth PROVE Feeds(inst, p[i], p[i + 1])
        OBVIOUS
      <4>1. i \in 0..Deepest /\ i + 1 \in 0..Deepest
        BY <1>1 DEF Deepest
      <4>2. CASE i + 1 < L
        <5>1. i + 2 \in 1..L /\ i + 2 > 1 /\ (i + 2) - 1 = i + 1
          BY <1>1, <4>2
        <5>2. p[i] = u[i + 1] /\ p[i + 1] = u[i + 2]
          <6>1. i < L /\ (i + 1) + 1 = i + 2
            BY <1>1, <4>2
          <6> QED
            BY <3>2, <4>1, <4>2, <6>1
        <5> QED
          BY <3>3, <5>1, <5>2
      <4>3. CASE i + 1 = L
        <5>1. i < L /\ L > 0 /\ p[i] = u[L] /\ p[i + 1] = n
          BY <1>1, <3>2, <4>1, <4>3
        <5> QED
          BY <5>1
      <4>4. CASE i = L
        <5>1. p[i] = n /\ p[i + 1] = k
          BY <1>1, <3>2, <4>1, <4>4
        <5> QED
          BY <1>6, <3>1, <5>1
      <4> QED
        BY <1>1, <4>2, <4>3, <4>4
    <3> QED
      BY <3>4, <3>5, PathTangles
  <2> DEFINE pushed == Append(frames, D)
             v == [i \in 1..(L + 1) |-> IF i <= L THEN u[i] ELSE n]
  <2>2. Push(frames, import, after, skip) = pushed
    BY <1>5, <1>8, <2>1
  <2>3. Len(pushed) = L + 1 /\ pushed[L + 1] = D /\ \A i \in 1..L : pushed[i] = frames[i]
    BY <1>1
  <2>4. v[L + 1] = n /\ \A i \in 1..L : v[i] = u[i]
    BY <1>1
  <2>5. v \in [1..(L + 1) -> Names]
    BY <1>1 DEF Branch
  <2> HIDE DEF pushed, v
  <2>6. Listed(pushed) = Listed(frames) \cup Members(D)
    <3>1. 1..(L + 1) = (1..L) \cup {L + 1}
      BY <1>1
    <3>2. \A x : x \in Listed(pushed) <=> \E i \in 1..(L + 1) : x \in Members(pushed[i])
      BY <2>3 DEF Listed
    <3>3. \A x : x \in Listed(frames) <=> \E i \in 1..L : x \in Members(frames[i])
      BY DEF Listed
    <3> QED
      BY <2>3, <3>1, <3>2, <3>3
  <2>7. Branch(inst, pushed, v)
    <3> SUFFICES ASSUME NEW i \in 1..(L + 1)
                 PROVE  /\ i > 1 => Feeds(inst, v[i - 1], v[i])
                        /\ \A k \in Members(pushed[i]) : Feeds(inst, v[i], k)
      BY <2>3, <2>5 DEF Branch
    <3>1. CASE i \in 1..L
      <4>1. i > 1 => i - 1 \in 1..L
        BY <1>1, <3>1
      <4> QED
        BY <2>3, <2>4, <3>1, <4>1 DEF Branch
    <3>2. CASE i = L + 1
      <4>1. i > 1 => i - 1 = L /\ L \in 1..L /\ L > 0
        BY <1>1, <3>2
      <4> QED
        BY <1>6, <2>3, <2>4, <3>2, <4>1
    <3> QED
      BY <1>1, <3>1, <3>2
  <2>8. frames # <<>> => v[1] = u[1]
    <3>1. frames # <<>> => 1 \in 1..L
      OBVIOUS
    <3> QED
      BY <2>4, <3>1
  <2>9. frames = <<>> => v[1] = n
    <3>1. frames = <<>> => L = 0
      OBVIOUS
    <3> QED
      BY <2>4, <3>1
  <2> QED
    BY <2>2, <2>6, <2>7, <2>8, <2>9 DEF D, Grown
<1> QED
  BY <1>7, <1>8

\* The first level of a call.
LEMMA PushFirst ==
  ASSUME NEW inst, ~Tangled(inst), NEW n \in Names, NEW import, NEW after, NEW skip,
         \A k \in Members(Dependents(after, import, skip)) : Feeds(inst, n, k)
  PROVE  /\ Listed(Push(<<>>, import, after, skip)) = Members(Dependents(after, import, skip))
         /\ \E v : /\ Branch(inst, Push(<<>>, import, after, skip), v)
                   /\ Push(<<>>, import, after, skip) # <<>> => v[1] = n
<1>1. PICK u : Branch(inst, <<>>, u)
  BY EmptyBranch
<1>2. PICK frames : frames = <<>>
  OBVIOUS
<1>3. /\ frames \in Seq(Frames) /\ Len(frames) <= ReloadDepth
      /\ Len(frames) > 0 => Feeds(inst, u[Len(frames)], n)
      /\ Branch(inst, frames, u) /\ Listed(frames) = {}
  BY <1>1, <1>2, ModulesAssumption, EmptyBranch
<1>4. /\ Listed(Push(frames, import, after, skip)) =
           Listed(frames) \cup Members(Dependents(after, import, skip))
      /\ Grown(inst, frames, u, n, Push(frames, import, after, skip))
  BY <1>3, PushBranch
<1> QED
  BY <1>2, <1>3, <1>4 DEF Grown

\* set(), from any level: who holds what it replaces is listed or excused.
LEMMA InstallFresh ==
  ASSUME Safe, NEW n \in Names, NEW s \in Sources,
         NEW frames \in Seq(Frames), Len(frames) <= ReloadDepth, Install(n, s, frames),
         NEW inst, ~Tangled(inst), inst[n] = s,
         \A k \in Names : installed'[k] # None => inst[k] = installed'[k],
         NEW u, Branch(inst, frames, u),
         Len(frames) > 0 => Feeds(inst, u[Len(frames)], n),
         \A k \in Names \ excused : k # n /\ stale[k] # {} => k \in Listed(frames)
  PROVE  /\ StaleIsListed'
         /\ Grown(inst, frames, u, n, stack')
<1> DEFINE kept == CacheWithout(n)
           dropped == cache \ kept
           now == [installed EXCEPT ![n] = s]
           ok == s.sound /\ s.imports \subseteq kept
           new == IF ok THEN Provides(s) ELSE {}
           lost == dropped \ Provides(s)
           D == Dependents(now, s.as, n)
<1>1. /\ installed' = now
      /\ stack' = IF IsModule(s) THEN Push(frames, s.as, now, n) ELSE frames
      /\ stale' = Touched(now, n, dropped \cup new)
      /\ excused' = (excused \ {n}) \cup (Importers(now, lost) \ {n})
  BY DEF Install
<1>2. new \subseteq Provides(s)
  OBVIOUS
<1>3. \A k \in Names : now[k] # None => inst[k] = now[k]
  BY <1>1
<1>4. \A k \in Names : k \in Members(D) <=> k # n /\ s.as \in ImportsOf(now[k])
  BY DEF Dependents, Members
<1>5. Members(D) \subseteq Names
  BY DEF Dependents, Members
<1> HIDE DEF now, new, dropped, D
<1>6. IsModule(s) => \A k \in Members(D) : Feeds(inst, n, k)
  <2> SUFFICES ASSUME IsModule(s), NEW k \in Members(D)
               PROVE  Feeds(inst, n, k)
    OBVIOUS
  <2>1. k \in Names /\ s.as \in ImportsOf(now[k])
    BY <1>4, <1>5
  <2>2. now[k] # None
    BY <2>1 DEF ImportsOf
  <2>3. inst[k] = now[k] /\ Provides(inst[n]) = {s.as}
    BY <1>3, <2>1, <2>2 DEF Provides
  <2> QED
    BY <2>1, <2>3 DEF Feeds
<1>7. /\ Listed(frames) \subseteq Listed(stack')
      /\ IsModule(s) => Members(D) \subseteq Listed(stack')
      /\ Grown(inst, frames, u, n, stack')
  <2>1. CASE IsModule(s)
    <3>1. stack' = Push(frames, s.as, now, n)
      BY <1>1, <2>1
    <3>2. \A k \in Members(Dependents(now, s.as, n)) : Feeds(inst, n, k)
      BY <1>6, <2>1 DEF D
    <3>3. /\ Listed(Push(frames, s.as, now, n)) = Listed(frames) \cup Members(D)
          /\ Grown(inst, frames, u, n, Push(frames, s.as, now, n))
      BY <3>2, PushBranch DEF D
    <3> QED
      BY <3>1, <3>3
  <2>2. CASE ~IsModule(s)
    BY <1>1, <2>2 DEF Grown
  <2> QED
    BY <2>1, <2>2
<1>8. StaleIsListed'
  <2> SUFFICES ASSUME NEW k \in Names \ excused', stale'[k] # {}
               PROVE  k \in Listed(stack')
    BY DEF StaleIsListed
  <2>1. k # n /\ now[k] # None
        /\ stale'[k] = stale[k] \cup (now[k].imports \cap (dropped \cup new))
    BY <1>1 DEF Touched
  <2>2. k \notin excused /\ k \notin Importers(now, lost)
    BY <1>1, <2>1
  <2>3. CASE stale[k] # {}
    BY <1>7, <2>1, <2>2, <2>3
  <2>4. CASE stale[k] = {}
    <3>1. PICK x \in now[k].imports : x \in dropped \cup new
      BY <2>1, <2>4
    <3>2. x \in ImportsOf(now[k])
      BY <2>1, <3>1 DEF ImportsOf
    <3>3. x \in Provides(s)
      BY <1>2, <2>2, <3>1, <3>2 DEF Importers
    <3>4. IsModule(s) /\ x = s.as
      BY <3>3 DEF Provides
    <3> QED
      BY <1>4, <1>7, <2>1, <3>2, <3>4
  <2> QED
    BY <2>3, <2>4
<1> QED
  BY <1>7, <1>8

\* The same of an install that begins a call, or that a start makes.
LEMMA InstallFirst ==
  ASSUME Safe, NEW n \in Names, NEW s \in Sources, Install(n, s, <<>>),
         NEW inst, ~Tangled(inst), inst = installed', inst[n] = s,
         \A k \in Names \ excused : stale[k] = {}
  PROVE  /\ StaleIsListed'
         /\ \E v : Branch(inst, stack', v) /\ (stack' # <<>> => v[1] = n)
<1>1. PICK u : Branch(inst, <<>>, u)
  BY EmptyBranch
<1> DEFINE frames == <<>>
<1>2. /\ frames \in Seq(Frames) /\ Len(frames) <= ReloadDepth
      /\ Len(frames) > 0 => Feeds(inst, u[Len(frames)], n)
  BY ModulesAssumption
<1>3. \A k \in Names : installed'[k] # None => inst[k] = installed'[k]
  OBVIOUS
<1>4. Install(n, s, frames) /\ Branch(inst, frames, u)
  BY <1>1
<1>5. \A k \in Names \ excused : k # n /\ stale[k] # {} => k \in Listed(frames)
  OBVIOUS
<1>6. frames = <<>>
  OBVIOUS
<1> HIDE DEF frames
<1>7. /\ StaleIsListed'
      /\ Grown(inst, frames, u, n, stack')
  BY <1>2, <1>3, <1>4, <1>5, InstallFresh
<1> QED
  BY <1>6, <1>7 DEF Grown

LEMMA NoName == NoJob.name \notin Names /\ \A n \in Names : \A s : [name |-> n, source |-> s] # NoJob
BY ModulesAssumption DEF NoJob

LEMMA UploadFresh ==
  ASSUME Safe, Fresh, NEW n \in Names, NEW s \in SourcesOf[n], Upload(n, s)
  PROVE  Fresh'
<1> SUFFICES ASSUME ~tangled'
             PROVE  /\ ~Tangled(Graph')
                    /\ Saved' /\ Running' /\ StaleIsListed'
                    /\ \E v : Branch(Graph', stack', v) /\ Rooted(v)'
  BY DEF Fresh
<1>1. /\ stack = <<>> /\ job = NoJob
      /\ Install(n, s, <<>>) /\ TangledBy(n, s)
      /\ job' = [name |-> n, source |-> s] /\ file' = file
  BY DEF Upload, Idle
<1>2. installed' = [installed EXCEPT ![n] = s]
  BY <1>1 DEF Install
<1>3. s \in Sources /\ s # None /\ job' # NoJob
  BY <1>1, NoName, ModulesAssumption DEF Sources
<1>4. Graph' = installed'
  BY <1>1, <1>3 DEF Graph
<1>5. ~tangled /\ ~Tangled(installed')
  BY <1>1, <1>2 DEF TangledBy
<1>6. installed'[n] = s /\ \A k \in Names \ {n} : installed'[k] = installed[k]
  BY <1>2 DEF Safe, TypeOK
<1>7. Saved' /\ Running'
  BY <1>1, <1>3, <1>5, <1>6, NoName DEF Fresh, Saved, Running
<1>9. \A k \in Names \ excused : stale[k] = {}
  BY <1>1, <1>5, EmptyBranch DEF Fresh, StaleIsListed
<1>10. /\ StaleIsListed'
       /\ \E v : Branch(installed', stack', v) /\ (stack' # <<>> => v[1] = n)
  BY <1>1, <1>3, <1>5, <1>6, <1>9, InstallFirst
<1>11. \E v : Branch(Graph', stack', v) /\ Rooted(v)'
  <2>1. PICK v : Branch(installed', stack', v) /\ (stack' # <<>> => v[1] = n)
    BY <1>10
  <2>2. Rooted(v)'
    BY <1>1, <2>1 DEF Rooted
  <2> QED
    BY <1>4, <2>1, <2>2
<1> QED
  BY <1>4, <1>5, <1>7, <1>10, <1>11

LEMMA LoadFresh ==
  ASSUME Safe, Fresh, NEW n \in Names, Load(n)
  PROVE  Fresh'
<1> SUFFICES ASSUME ~tangled'
             PROVE  /\ ~Tangled(Graph')
                    /\ Saved' /\ Running' /\ StaleIsListed'
                    /\ \E v : Branch(Graph', stack', v) /\ Rooted(v)'
  BY DEF Fresh
<1>1. /\ stack = <<>> /\ n \in boot
      /\ Install(n, file[n], <<>>) /\ TangledBy(n, file[n])
      /\ job' = job /\ file' = file
  BY DEF Load, Turn
<1>2. job = NoJob /\ file[n] \in Sources
  BY <1>1 DEF Safe, BootStored, TypeOK
<1>3. installed' = [installed EXCEPT ![n] = file[n]]
  BY <1>1 DEF Install
<1>4. Graph' = installed'
  BY <1>1, <1>2 DEF Graph
<1>5. ~tangled /\ ~Tangled(installed')
  BY <1>1, <1>3 DEF TangledBy
<1>6. installed'[n] = file[n] /\ \A k \in Names \ {n} : installed'[k] = installed[k]
  BY <1>3 DEF Safe, TypeOK
<1>7. Saved' /\ Running'
  BY <1>1, <1>2, <1>5, <1>6, NoName DEF Fresh, Saved, Running
<1>9. \A k \in Names \ excused : stale[k] = {}
  BY <1>1, <1>5, EmptyBranch DEF Fresh, StaleIsListed
<1>10. StaleIsListed' /\ \E v : Branch(installed', stack', v)
  BY <1>1, <1>2, <1>5, <1>6, <1>9, InstallFirst
<1>11. \A v : Rooted(v)'
  BY <1>1, <1>2 DEF Rooted
<1> QED
  BY <1>4, <1>5, <1>7, <1>10, <1>11

\* What is reloaded is not what the call is about, or imports would be circular.
LEMMA NotTheRoot ==
  ASSUME Safe, Fresh, ~tangled, NEW n \in Names, NextUp(n)
  PROVE  /\ n # job.name
         /\ installed[n] # None /\ installed[n] = file[n]
         /\ Graph[n] = installed[n]
         /\ \E u : /\ Branch(Graph, stack, u) /\ Rooted(u)
                   /\ Feeds(Graph, u[Len(stack)], n)
<1> DEFINE L == Len(stack)
<1>1. stack # <<>> /\ n \in Members(Top)
  BY DEF NextUp, Left, NoFrame, Members
<1>2. stack \in Seq(Frames) /\ L \in Nat /\ L \in 1..L /\ 1 \in 1..L
  BY <1>1 DEF Safe, TypeOK
<1>3. PICK u : Branch(Graph, stack, u) /\ Rooted(u)
  BY DEF Fresh
<1>4. u \in [1..L -> Names]
      /\ \A i \in 1..L : /\ i > 1 => Feeds(Graph, u[i - 1], u[i])
                         /\ \A k \in Members(stack[i]) : Feeds(Graph, u[i], k)
  BY <1>3 DEF Branch
<1>5. Feeds(Graph, u[L], n)
  BY <1>1, <1>2, <1>4 DEF Top
<1>6. n # job.name
  <2> SUFFICES ASSUME n = job.name
               PROVE  FALSE
    OBVIOUS
  <2>1. job # NoJob
    BY NoName
  <2>2. u[1] = n
    BY <1>1, <1>3, <2>1 DEF Rooted
  <2> DEFINE C == {u[i] : i \in 1..L}
  <2>3. C \in SUBSET Names /\ C # {}
    BY <1>2, <1>4
  <2>4. ASSUME NEW k \in C
        PROVE  \E d \in C : Feeds(Graph, d, k)
    <3>1. PICK i \in 1..L : k = u[i]
      OBVIOUS
    <3>2. CASE i = 1
      BY <1>2, <1>5, <2>2, <3>1, <3>2
    <3>3. CASE i > 1
      <4>1. i - 1 \in 1..L
        BY <1>2, <3>3
      <4> QED
        BY <1>4, <3>1, <3>3, <4>1
    <3> QED
      BY <1>2, <3>2, <3>3
  <2>5. Tangled(Graph)
    <3> HIDE DEF C
    <3> QED
      BY <2>3, <2>4, LoopTangles
  <2> QED
    BY <2>5 DEF Fresh
<1>7. Graph[n] = installed[n]
  BY <1>6 DEF Graph, Safe, TypeOK
<1>8. Graph[n] # None
  BY <1>5 DEF Feeds, ImportsOf
<1>9. installed[n] = file[n]
  BY <1>6, <1>7, <1>8 DEF Fresh, Saved
<1> QED
  BY <1>3, <1>5, <1>6, <1>7, <1>8, <1>9

LEMMA WithoutLists ==
  ASSUME NEW n, stack # <<>>, stack \in Seq(Frames)
  PROVE  /\ Len(Without(n)) = Len(stack)
         /\ \A i \in 1..Len(stack) :
              /\ Members(Without(n)[i]) \subseteq Members(stack[i])
              /\ Members(stack[i]) \ {n} \subseteq Members(Without(n)[i])
<1> DEFINE L == Len(stack)
           rest == [modules |-> Top.modules \ {n}, apps |-> Top.apps \ {n}]
<1>1. L \in 1..L /\ DOMAIN stack = 1..L
  OBVIOUS
<1>2. Without(n) = [stack EXCEPT ![L] = rest]
  BY DEF Without
<1>3. Members(rest) = Members(stack[L]) \ {n}
  BY DEF Members, Top
<1> HIDE DEF rest
<1> DEFINE w == [stack EXCEPT ![L] = rest]
<1>4. w[L] = rest /\ DOMAIN w = 1..L /\ \A i \in 1..L : i # L => w[i] = stack[i]
  BY <1>1
<1>5. Len(w) = L
  <2>1. stack[L] \in Frames
    BY <1>1
  <2>2. rest \in Frames
    BY <2>1 DEF Frames, Top, rest
  <2> QED
    BY <1>1, <2>2
<1> HIDE DEF w
<1> QED
  BY <1>2, <1>3, <1>4, <1>5 DEF w

LEMMA ReloadFresh ==
  ASSUME Safe, Fresh, NEW n \in Names, Reload(n)
  PROVE  Fresh'
<1> SUFFICES ASSUME ~tangled'
             PROVE  /\ ~Tangled(Graph')
                    /\ Saved' /\ Running' /\ StaleIsListed'
                    /\ \E v : Branch(Graph', stack', v) /\ Rooted(v)'
  BY DEF Fresh
<1>1. /\ NextUp(n) /\ file[n] # None
      /\ Install(n, file[n], Without(n))
      /\ UNCHANGED <<file, job, tangled>>
  BY DEF Reload
<1>2. /\ n # job.name /\ installed[n] # None /\ installed[n] = file[n]
      /\ Graph[n] = installed[n]
  BY <1>1, NotTheRoot
<1>3. PICK u : /\ Branch(Graph, stack, u) /\ Rooted(u)
               /\ Feeds(Graph, u[Len(stack)], n)
  BY <1>1, NotTheRoot
<1>4. installed' = installed
  <2>1. installed' = [installed EXCEPT ![n] = file[n]]
    BY <1>1 DEF Install
  <2> QED
    BY <1>2, <2>1 DEF Safe, TypeOK
<1>5. Graph' = Graph
  BY <1>1, <1>4 DEF Graph
<1>6. Saved' /\ Running'
  BY <1>1, <1>4 DEF Fresh, Saved, Running
<1>7. stack # <<>> /\ stack \in Seq(Frames) /\ Len(stack) \in 1..Len(stack)
  BY <1>1 DEF NextUp, Left, NoFrame, Safe, TypeOK
<1> DEFINE frames == Without(n)
<1>8. /\ frames \in Seq(Frames) /\ Len(frames) <= ReloadDepth
      /\ Len(frames) = Len(stack) /\ frames # <<>>
      /\ \A i \in 1..Len(stack) : /\ Members(frames[i]) \subseteq Members(stack[i])
                                  /\ Members(stack[i]) \ {n} \subseteq Members(frames[i])
  <2>1. Without(n) \in Seq(Frames) /\ Len(Without(n)) <= ReloadDepth
    BY <1>1, WithoutBounds DEF Safe
  <2>2. Len(Without(n)) = Len(stack) /\ \A i \in 1..Len(stack) :
          /\ Members(Without(n)[i]) \subseteq Members(stack[i])
          /\ Members(stack[i]) \ {n} \subseteq Members(Without(n)[i])
    BY <1>7, WithoutLists
  <2>3. Without(n) # <<>>
    BY <1>7, <2>2
  <2> QED
    BY <2>1, <2>2, <2>3
<1> HIDE DEF frames
<1>9. \A k \in Names \ excused : k # n /\ stale[k] # {} => k \in Listed(frames)
  <2> SUFFICES ASSUME NEW k \in Names \ excused, k # n, stale[k] # {}
               PROVE  k \in Listed(frames)
    OBVIOUS
  <2>1. PICK i \in 1..Len(stack) : k \in Members(stack[i])
    BY <1>1 DEF Fresh, StaleIsListed, Listed
  <2> QED
    BY <1>8, <2>1 DEF Listed
<1> DEFINE inst == Graph
<1>10. /\ inst = Graph /\ ~Tangled(inst) /\ inst[n] = file[n]
       /\ Branch(inst, frames, u) /\ Feeds(inst, u[Len(frames)], n)
  BY <1>1, <1>2, <1>3, <1>8 DEF Fresh, Branch
<1>11. \A k \in Names : installed'[k] # None => inst[k] = installed'[k]
  BY <1>1, <1>4 DEF Graph, Fresh, Running, Safe, TypeOK
<1>12. file[n] \in Sources /\ Install(n, file[n], frames)
  BY <1>1 DEF Safe, TypeOK, frames
<1> HIDE DEF inst
<1>13. /\ StaleIsListed'
       /\ \E v : Branch(inst, stack', v) /\ v[1] = u[1]
  <2>1. StaleIsListed' /\ Grown(inst, frames, u, n, stack')
    BY <1>8, <1>9, <1>10, <1>11, <1>12, InstallFresh
  <2> QED
    BY <1>8, <2>1 DEF Grown
<1>14. PICK v : Branch(inst, stack', v) /\ v[1] = u[1]
  BY <1>13
<1>15. Rooted(v)'
  BY <1>1, <1>3, <1>7, <1>14 DEF Rooted
<1> QED
  BY <1>1, <1>5, <1>6, <1>10, <1>13, <1>14, <1>15 DEF Fresh

LEMMA RemoveModuleFresh ==
  ASSUME Safe, Fresh, NEW n \in Names, RemoveModule(n)
  PROVE  Fresh'
<1> SUFFICES ASSUME ~tangled'
             PROVE  /\ ~Tangled(Graph')
                    /\ Saved' /\ Running' /\ StaleIsListed'
                    /\ \E v : Branch(Graph', stack', v) /\ Rooted(v)'
  BY DEF Fresh
<1> DEFINE now == [installed EXCEPT ![n] = None]
           import == installed[n].as
           D == Dependents(now, import, None)
<1>1. /\ stack = <<>> /\ job = NoJob /\ IsModule(installed[n]) /\ installed' = now
      /\ stack' = Push(<<>>, import, now, None)
      /\ job' = [name |-> n, source |-> None]
      /\ stale' = Touched(now, n, cache \cap Provides(installed[n]))
      /\ excused' = excused \ {n}
      /\ UNCHANGED <<file, tangled>>
  BY DEF RemoveModule, Idle
<1>2. now[n] = None /\ \A k \in Names \ {n} : now[k] = installed[k]
  BY DEF Safe, TypeOK
<1>3. installed[n] # None /\ installed[n] = file[n]
  BY <1>1, NoName DEF Fresh, Saved, IsModule
<1>4. job' # NoJob
  BY <1>1, NoName
<1>5. Graph = installed /\ Graph' = installed
  <2>1. Graph = installed
    BY <1>1 DEF Graph
  <2>2. Graph' = [now EXCEPT ![n] = file[n]]
    BY <1>1, <1>4 DEF Graph
  <2> QED
    BY <1>3, <2>1, <2>2 DEF Safe, TypeOK
<1>6. Saved' /\ Running'
  BY <1>1, <1>2, NoName DEF Fresh, Saved, Running
<1>7. \A k \in Names : k \in Members(D) <=> import \in ImportsOf(now[k])
  BY <1>1, ModulesAssumption DEF Dependents, Members
<1>8. Members(D) \subseteq Names
  BY DEF Dependents, Members
<1> HIDE DEF now, D
<1>9. \A k \in Members(D) : Feeds(installed, n, k)
  <2> SUFFICES ASSUME NEW k \in Members(D)
               PROVE  Feeds(installed, n, k)
    OBVIOUS
  <2>1. k \in Names /\ import \in ImportsOf(now[k])
    BY <1>7, <1>8
  <2>2. k # n /\ Provides(installed[n]) = {import}
    BY <1>1, <1>2, <2>1 DEF ImportsOf, Provides
  <2> QED
    BY <1>2, <2>1, <2>2 DEF Feeds
<1>10. Listed(stack') = Members(D)
       /\ \E v : Branch(Graph', stack', v) /\ (stack' # <<>> => v[1] = n)
  <2> DEFINE inst == installed
  <2>1. inst = installed /\ ~Tangled(inst)
    BY <1>1, <1>5 DEF Fresh
  <2>2. \A k \in Members(Dependents(now, import, None)) : Feeds(inst, n, k)
    BY <1>9 DEF D
  <2> HIDE DEF inst, import
  <2>3. /\ Listed(Push(<<>>, import, now, None)) = Members(D)
        /\ \E v : /\ Branch(inst, Push(<<>>, import, now, None), v)
                  /\ Push(<<>>, import, now, None) # <<>> => v[1] = n
    BY <2>1, <2>2, PushFirst DEF D
  <2> QED
    BY <1>1, <1>5, <2>1, <2>3
<1>11. StaleIsListed'
  <2> SUFFICES ASSUME NEW k \in Names \ excused', stale'[k] # {}
               PROVE  k \in Listed(stack')
    BY DEF StaleIsListed
  <2>1. k # n /\ now[k] # None
        /\ stale'[k] = stale[k] \cup (now[k].imports \cap (cache \cap Provides(installed[n])))
    BY <1>1 DEF Touched
  <2>2. stale[k] = {}
    BY <1>1, <2>1, EmptyBranch DEF Fresh, StaleIsListed
  <2>3. import \in ImportsOf(now[k])
    BY <1>1, <2>1, <2>2 DEF Provides, ImportsOf
  <2> QED
    BY <1>7, <1>10, <2>3
<1>12. PICK v : Branch(Graph', stack', v) /\ (stack' # <<>> => v[1] = n)
  BY <1>10
<1>13. Rooted(v)'
  BY <1>1, <1>12 DEF Rooted
<1> QED
  BY <1>1, <1>5, <1>6, <1>11, <1>12, <1>13 DEF Fresh

LEMMA RemoveAppFresh ==
  ASSUME Safe, Fresh, NEW n \in Names, RemoveApp(n)
  PROVE  Fresh'
<1> SUFFICES ASSUME ~tangled'
             PROVE  /\ ~Tangled(Graph')
                    /\ Saved' /\ Running' /\ StaleIsListed'
                    /\ \E v : Branch(Graph', stack', v) /\ Rooted(v)'
  BY DEF Fresh
<1>1. /\ stack = <<>> /\ job = NoJob /\ installed[n] # None
      /\ installed' = [installed EXCEPT ![n] = None]
      /\ job' = [name |-> n, source |-> None]
      /\ stale' = [stale EXCEPT ![n] = {}]
      /\ excused' = excused \ {n}
      /\ UNCHANGED <<file, stack, tangled>>
  BY DEF RemoveApp, Idle
<1>2. installed[n] = file[n] /\ job' # NoJob
  BY <1>1, NoName DEF Fresh, Saved
<1>3. Graph = installed /\ Graph' = installed
  BY <1>1, <1>2 DEF Graph, Safe, TypeOK
<1>4. Saved' /\ Running'
  BY <1>1, NoName DEF Fresh, Saved, Running, Safe, TypeOK
<1>5. StaleIsListed'
  BY <1>1 DEF Fresh, StaleIsListed, Safe, TypeOK
<1>6. \E v : Branch(Graph', stack', v)
  BY <1>1, EmptyBranch
<1>7. \A v : Rooted(v)'
  BY <1>1 DEF Rooted
<1> QED
  BY <1>1, <1>3, <1>4, <1>5, <1>6, <1>7 DEF Fresh

\* A dependent that is not reloaded is excused, and the end of a level has none.
LEMMA StackMovesFresh ==
  ASSUME Fresh, stack \in Seq(Frames), stack' \in Seq(Frames), Len(stack') <= Len(stack),
         UNCHANGED <<installed, file, job, stale, tangled>>,
         excused \subseteq excused',
         \A i \in 1..Len(stack') : Members(stack'[i]) \subseteq Members(stack[i]),
         \A i \in 1..Len(stack) : \A k \in Members(stack[i]) :
           k \in excused' \/ (i <= Len(stack') /\ k \in Members(stack'[i]))
  PROVE  Fresh'
<1> SUFFICES ASSUME ~tangled'
             PROVE  /\ ~Tangled(Graph')
                    /\ Saved' /\ Running' /\ StaleIsListed'
                    /\ \E v : Branch(Graph', stack', v) /\ Rooted(v)'
  BY DEF Fresh
<1>1. Graph' = Graph
  BY DEF Graph
<1>2. Saved' /\ Running'
  BY DEF Fresh, Saved, Running
<1>3. StaleIsListed'
  <2> SUFFICES ASSUME NEW k \in Names \ excused', stale[k] # {}
               PROVE  k \in Listed(stack')
    BY DEF StaleIsListed
  <2>1. PICK i \in 1..Len(stack) : k \in Members(stack[i])
    BY DEF Fresh, StaleIsListed, Listed
  <2>2. i \in 1..Len(stack') /\ k \in Members(stack'[i])
    BY <2>1
  <2> QED
    BY <2>2 DEF Listed
<1>4. PICK u : Branch(Graph, stack, u) /\ Rooted(u)
  BY DEF Fresh
<1>5. 1..Len(stack') \subseteq 1..Len(stack)
  OBVIOUS
<1>6. PICK v \in [1..Len(stack') -> Names] : \A i \in 1..Len(stack') : v[i] = u[i]
  <2> DEFINE w == [i \in 1..Len(stack') |-> u[i]]
  <2>1. w \in [1..Len(stack') -> Names] /\ \A i \in 1..Len(stack') : w[i] = u[i]
    BY <1>4, <1>5 DEF Branch
  <2> QED
    BY <2>1
<1>7. Branch(Graph', stack', v)
  <2> SUFFICES ASSUME NEW i \in 1..Len(stack')
               PROVE  /\ i > 1 => Feeds(Graph, v[i - 1], v[i])
                      /\ \A k \in Members(stack'[i]) : Feeds(Graph, v[i], k)
    BY <1>1, <1>6 DEF Branch
  <2>1. i \in 1..Len(stack) /\ (i > 1 => i - 1 \in 1..Len(stack'))
    BY <1>5
  <2> QED
    BY <1>4, <1>6, <2>1 DEF Branch
<1>8. Rooted(v)'
  <2>1. stack' # <<>> => stack # <<>> /\ 1 \in 1..Len(stack')
    OBVIOUS
  <2> QED
    BY <1>4, <1>6, <2>1 DEF Rooted
<1> QED
  BY <1>1, <1>2, <1>3, <1>7, <1>8 DEF Fresh

LEMMA ReloadingFresh ==
  ASSUME Safe, Fresh, Reloading
  PROVE  Fresh'
<1>1. CASE Return
  <2>1. /\ stack # <<>> /\ Top = NoFrame /\ stack' = SubSeq(stack, 1, Len(stack) - 1)
        /\ UNCHANGED <<installed, file, job, stale, excused, tangled>>
    BY <1>1 DEF Return, ghosts, ram
  <2> DEFINE L == Len(stack)
  <2>2. stack \in Seq(Frames) /\ L \in Nat /\ L - 1 \in Nat
    BY <2>1 DEF Safe, TypeOK
  <2>3. stack' \in Seq(Frames) /\ Len(stack') = L - 1
        /\ \A i \in 1..(L - 1) : stack'[i] = stack[i]
    <3>1. 1 \in Int /\ L - 1 \in Int /\ \A i \in 1..(L - 1) : stack[i] \in Frames
      BY <2>2
    <3>2. /\ SubSeq(stack, 1, L - 1) \in Seq(Frames)
          /\ Len(SubSeq(stack, 1, L - 1)) = IF 1 <= L - 1 THEN (L - 1) - 1 + 1 ELSE 0
          /\ \A i \in 1..((L - 1) - 1 + 1) : SubSeq(stack, 1, L - 1)[i] = stack[1 + i - 1]
      BY <3>1, SubSeqProperties
    <3>3. stack' = SubSeq(stack, 1, L - 1)
      BY <2>1
    <3>4. L \in Nat /\ L - 1 \in Nat
      BY <2>2
    <3> HIDE DEF L
    <3>5. ASSUME NEW m \in Nat
          PROVE  m - 1 + 1 = m /\ (IF 1 <= m THEN m ELSE 0) = m
                 /\ \A i \in 1..m : 1 + i - 1 = i
      BY <3>5
    <3>6. (L - 1) - 1 + 1 = L - 1 /\ (IF 1 <= L - 1 THEN L - 1 ELSE 0) = L - 1
          /\ \A i \in 1..(L - 1) : 1 + i - 1 = i
      BY <3>4, <3>5
    <3>7. stack' \in Seq(Frames) /\ Len(stack') = L - 1
      BY <3>2, <3>6, <3>3
    <3>8. \A i \in 1..(L - 1) : SubSeq(stack, 1, L - 1)[i] = stack[i]
      BY <3>2, <3>6
    <3> QED
      BY <3>3, <3>7, <3>8
  <2>4. Members(stack[L]) = {}
    BY <2>1 DEF Top, NoFrame, Members
  <2>5. \A i \in 1..L : \A k \in Members(stack[i]) :
          i <= Len(stack') /\ k \in Members(stack'[i])
    <3> SUFFICES ASSUME NEW i \in 1..L, NEW k \in Members(stack[i])
                 PROVE  i <= Len(stack') /\ k \in Members(stack'[i])
      OBVIOUS
    <3>1. i # L
      BY <2>4
    <3>2. i \in 1..(L - 1)
      BY <2>2, <3>1
    <3> QED
      BY <2>2, <2>3, <3>2
  <2>6. \A i \in 1..Len(stack') : Members(stack'[i]) \subseteq Members(stack[i])
    BY <2>3
  <2>7. Len(stack') <= L /\ excused \subseteq excused'
    BY <2>1, <2>2, <2>3
  <2>8. \A i \in 1..Len(stack) : \A k \in Members(stack[i]) :
          k \in excused' \/ (i <= Len(stack') /\ k \in Members(stack'[i]))
    BY <2>5
  <2> QED
    BY <2>1, <2>2, <2>3, <2>6, <2>7, <2>8, StackMovesFresh
<1>2. ASSUME NEW n \in Names, Reload(n)
      PROVE  Fresh'
  BY <1>2, ReloadFresh
<1>3. ASSUME NEW n \in Names, ReloadRefused(n) \/ ReloadGone(n)
      PROVE  Fresh'
  <2>1. /\ NextUp(n) /\ stack' = Without(n) /\ excused' = excused \cup {n}
        /\ UNCHANGED <<installed, file, job, stale, tangled>>
    BY <1>3 DEF ReloadRefused, ReloadGone, ram
  <2>2. stack # <<>> /\ stack \in Seq(Frames) /\ stack' \in Seq(Frames)
    BY <2>1, WithoutBounds DEF NextUp, Left, NoFrame, Safe, TypeOK
  <2>3. /\ Len(stack') = Len(stack)
        /\ \A i \in 1..Len(stack) :
             /\ Members(stack'[i]) \subseteq Members(stack[i])
             /\ Members(stack[i]) \ {n} \subseteq Members(stack'[i])
    BY <2>1, <2>2, WithoutLists
  <2>4. \A i \in 1..Len(stack) : \A k \in Members(stack[i]) :
          k \in excused' \/ (i <= Len(stack') /\ k \in Members(stack'[i]))
    BY <2>1, <2>3
  <2> QED
    BY <2>1, <2>2, <2>3, <2>4, StackMovesFresh
<1> QED
  BY <1>1, <1>2, <1>3 DEF Reloading

\* Saving makes flash what runs.
LEMMA SaveFresh ==
  ASSUME Safe, Fresh, Save
  PROVE  Fresh'
<1> SUFFICES ASSUME ~tangled'
             PROVE  /\ ~Tangled(Graph')
                    /\ Saved' /\ Running' /\ StaleIsListed'
                    /\ \E v : Branch(Graph', stack', v) /\ Rooted(v)'
  BY DEF Fresh
<1>1. /\ stack = <<>> /\ job # NoJob /\ job' = NoJob
      /\ file' = [file EXCEPT ![job.name] = job.source]
      /\ UNCHANGED <<installed, stack, stale, excused, tangled>>
  BY DEF Save, ram, ghosts
<1>2. Running /\ Saved /\ StaleIsListed /\ ~Tangled(Graph)
  BY <1>1 DEF Fresh
<1>3. Graph' = installed
  BY <1>1 DEF Graph
<1>4. \A n \in Names : installed[n] = Graph[n] \/ installed[n] = None
  BY <1>1, <1>2 DEF Graph, Running, Safe, TypeOK
<1>5. ~Tangled(installed)
  BY <1>2, <1>4, LessTangles
<1>6. file'[job.name] = job.source /\ \A n \in Names \ {job.name} : file'[n] = file[n]
  BY <1>1, <1>2 DEF Running, Safe, TypeOK
<1>7. Saved' /\ Running' /\ StaleIsListed'
  BY <1>1, <1>2, <1>6 DEF Saved, Running, StaleIsListed
<1>8. \E v : Branch(Graph', stack', v) /\ Rooted(v)'
  BY <1>1, EmptyBranch DEF Rooted
<1> QED
  BY <1>3, <1>5, <1>7, <1>8

\* Nothing imports where nothing is installed.
LEMMA NoneTangles == ~Tangled([n \in Names |-> None])
<1> DEFINE inst == [n \in Names |-> None]
<1>1. ReloadDepth \in 0..ReloadDepth
  BY ModulesAssumption
<1>2. \A d, k : k \in Names => ~Feeds(inst, d, k)
  BY DEF Feeds, ImportsOf
<1> HIDE DEF inst
<1>3. Chain(inst)[ReloadDepth + 1] = {}
  BY <1>1, <1>2, ChainLink
<1> QED
  BY <1>3 DEF Tangled, inst

\* A start has loaded nothing yet.
LEMMA BlankIsFresh ==
  ASSUME installed = [n \in Names |-> None], stack = <<>>, job = NoJob,
         stale = [n \in Names |-> {}]
  PROVE  Fresh
<1>1. Graph = installed
  BY DEF Graph
<1>2. Saved /\ Running /\ StaleIsListed
  BY DEF Saved, Running, StaleIsListed
<1>3. \E u : Branch(Graph, stack, u) /\ Rooted(u)
  BY EmptyBranch DEF Rooted
<1> QED
  BY <1>1, <1>2, <1>3, NoneTangles DEF Fresh

\* A restart runs nothing yet.
LEMMA RestartFresh ==
  ASSUME Restart
  PROVE  Fresh'
<1>1. /\ installed' = [n \in Names |-> None] /\ stack' = <<>> /\ job' = NoJob
      /\ stale' = [n \in Names |-> {}]
  BY DEF Restart
<1>2. Graph' = installed'
  BY <1>1 DEF Graph
<1>3. Saved' /\ Running' /\ StaleIsListed'
  BY <1>1 DEF Saved, Running, StaleIsListed
<1>4. \E u : Branch(Graph', stack', u) /\ Rooted(u)'
  BY <1>1, EmptyBranch DEF Rooted
<1> QED
  BY <1>1, <1>2, <1>3, <1>4, NoneTangles DEF Fresh

\* Every step of a call, a reload or a start keeps it.
LEMMA FreshKeeps == Safe /\ Fresh /\ [Next]_vars => Fresh'
<1> SUFFICES ASSUME Safe, Fresh, [Next]_vars
             PROVE  Fresh'
  OBVIOUS
<1>1. ASSUME NEW n \in Names, NEW s \in SourcesOf[n], Upload(n, s)
      PROVE  Fresh'
  BY <1>1, UploadFresh
<1>2. ASSUME NEW n \in Names, RemoveModule(n) \/ RemoveApp(n)
      PROVE  Fresh'
  BY <1>2, RemoveModuleFresh, RemoveAppFresh
<1>3. CASE Reloading
  BY <1>3, ReloadingFresh
<1>4. CASE Save
  BY <1>4, SaveFresh
<1>5. ASSUME NEW n \in Names, Load(n)
      PROVE  Fresh'
  BY <1>5, LoadFresh
<1>6. CASE UNCHANGED <<ram, file, stack, job, ghosts>>
  BY <1>6 DEF ram, ghosts, Fresh, Graph, Saved, Running, StaleIsListed, Rooted
<1>7. CASE Restart
  BY <1>7, RestartFresh
<1> QED
  BY <1>1, <1>2, <1>3, <1>4, <1>5, <1>6, <1>7 DEF Next, Managing, Booting, NotRestored, vars

(* Through every upload, removal, start and refusal, each importer of what was *)
(* replaced is still listed for its reload, along a chain of imports           *)
(* (reloadDependents).                                                         *)
THEOREM FreshInvariance == Spec => [](Safe /\ Fresh)
<1>1. Init => Fresh
  BY BlankIsFresh DEF Init
<1> QED
  BY <1>1, Starts, SafeKeeps, FreshKeeps, PTL DEF Spec

(* Once a management call or a start is over, no script runs against a module  *)
(* that was replaced or removed since it was loaded, unless its reload was     *)
(* refused, the module was renamed, or imports are circular or deeper than     *)
(* kMaxReloadDepth (reloadDependents).                                         *)
THEOREM FreshCorrect == Spec => []ImportersAreFresh
<1>1. Fresh => ImportersAreFresh
  BY EmptyBranch DEF Fresh, StaleIsListed, ImportersAreFresh, Idle
<1> QED
  BY <1>1, FreshInvariance, PTL

(* What runs is what is stored, once the call is over: a reload, which reads   *)
(* flash before the new source is saved, never puts an old source back, since  *)
(* the chain of importers cannot lead back to what is being uploaded.          *)
THEOREM SavedCorrect == Spec => []RunsWhatIsSaved
<1>1. Fresh => RunsWhatIsSaved
  BY NoName DEF Fresh, Saved, RunsWhatIsSaved, Idle
<1> QED
  BY <1>1, FreshInvariance, PTL

-----------------------------------------------------------------------------
(* Every call ends *)

\* The level a dependent is taken from has one less, those below it what they had.
LEMMA TopShrinks ==
  ASSUME TypeOK, StackBounded, NEW n \in Names, NextUp(n)
  PROVE  /\ Len(stack) \in 1..ReloadDepth
         /\ Len(Without(n)) = Len(stack)
         /\ \A k \in 1..(Len(stack) - 1) : Without(n)[k] = stack[k]
         /\ LET left == Without(n)[Len(stack)] IN
              /\ left \in Frames
              /\ Cardinality(left.modules \cup left.apps)
                   < Cardinality(Top.modules \cup Top.apps)
<1>1. stack # <<>>
  BY DEF NextUp, Left, NoFrame
<1>2. stack \in Seq(Frames) /\ Len(stack) \in 1..Len(stack) /\ ReloadDepth \in Nat
  BY <1>1, ModulesAssumption DEF TypeOK
<1>3. Top \in Frames /\ n \in Top.modules \cup Top.apps
  BY <1>1, <1>2 DEF Top, NextUp, Left
<1> DEFINE left == [modules |-> Top.modules \ {n}, apps |-> Top.apps \ {n}]
<1>4. /\ Len(Without(n)) = Len(stack) /\ Without(n)[Len(stack)] = left
      /\ \A k \in 1..(Len(stack) - 1) : Without(n)[k] = stack[k]
  <2> HIDE DEF left
  <2>1. Without(n) = [stack EXCEPT ![Len(stack)] = left]
    BY DEF Without, left
  <2>2. left \in Frames
    BY <1>3 DEF left, Frames
  <2> QED
    BY <1>2, <2>1, <2>2
<1>5. left \in Frames /\ left.modules \cup left.apps = (Top.modules \cup Top.apps) \ {n}
  BY <1>3 DEF Frames
<1>6. IsFiniteSet(Top.modules \cup Top.apps)
  BY <1>3, ModulesAssumption, FS_Subset DEF Frames
<1>7. Cardinality(left.modules \cup left.apps) < Cardinality(Top.modules \cup Top.apps)
  <2>1. Cardinality(Top.modules \cup Top.apps) \in Nat
    BY <1>6, FS_CardinalityType
  <2>2. Cardinality((Top.modules \cup Top.apps) \ {n})
          = Cardinality(Top.modules \cup Top.apps) - 1
    BY <1>3, <1>6, FS_RemoveElement
  <2> QED
    BY <1>5, <2>1, <2>2
<1> QED
  BY <1>2, <1>4, <1>5, <1>7 DEF StackBounded

\* What comes before it in the order of Work has not changed.
LEMMA LevelLess ==
  ASSUME NEW k \in 1..ReloadDepth, boot' = boot, LeftOn(k)' < LeftOn(k),
         \A j \in 1..(k - 1) : LeftOn(j)' = LeftOn(j)
  PROVE  Less(Work', Work)
<1>1. ReloadDepth \in Nat
  BY ModulesAssumption
<1>2. k \in Places /\ \A j \in 0..(k - 1) : j \in Places /\ (j = 0 \/ j \in 1..(k - 1))
  BY <1>1 DEF Places
<1>3. Work'[k] < Work[k]
  <2>1. Work[k] = LeftOn(k) /\ Work'[k] = LeftOn(k)'
    BY <1>1, <1>2 DEF Work
  <2> QED
    BY <2>1
<1>4. ASSUME NEW j \in 0..(k - 1)
      PROVE  Work'[j] = Work[j]
  <2>1. CASE j = 0
    BY <1>2, <2>1 DEF Work
  <2>2. CASE j \in 1..(k - 1)
    <3>1. j # 0 /\ j <= ReloadDepth /\ j \in Places
      BY <1>1, <1>2, <2>2
    <3>2. Work[j] = LeftOn(j) /\ Work'[j] = LeftOn(j)'
      BY <3>1 DEF Work
    <3> QED
      BY <2>2, <3>2
  <2> QED
    BY <1>2, <2>1, <2>2
<1> QED
  BY <1>2, <1>3, <1>4 DEF Less

\* A dependent is taken from its level, whatever level its reload adds.
LEMMA DependentLess ==
  ASSUME TypeOK, StackBounded, NEW n \in Names, NextUp(n), boot' = boot,
         stack' = Without(n) \/ \E deps \in Frames : stack' = Append(Without(n), deps)
  PROVE  Less(Work', Work)
<1>k. PICK k : k = Len(stack)
  OBVIOUS
<1>1. /\ k \in 1..ReloadDepth /\ Len(Without(n)) = k
      /\ \A j \in 1..(k - 1) : Without(n)[j] = stack[j]
      /\ Without(n)[k] \in Frames
      /\ Cardinality(Without(n)[k].modules \cup Without(n)[k].apps)
           < Cardinality(stack[k].modules \cup stack[k].apps)
  BY <1>k, TopShrinks DEF Top
<1>2. Without(n) \in Seq(Frames) /\ ReloadDepth \in Nat
  BY WithoutBounds, ModulesAssumption
<1>3. Len(stack') >= k /\ Len(stack') \in Nat /\ \A j \in 1..k : stack'[j] = Without(n)[j]
  <2>1. CASE stack' = Without(n)
    BY <1>1, <1>2, <2>1
  <2>2. ASSUME NEW deps \in Frames, stack' = Append(Without(n), deps)
        PROVE  Len(stack') >= k /\ Len(stack') \in Nat
               /\ \A j \in 1..k : stack'[j] = Without(n)[j]
    BY <1>1, <1>2, <2>2
  <2> QED
    BY <2>1, <2>2
<1>4. LeftOn(k)' < LeftOn(k)
  <2>1. /\ LeftOn(k) = 1 + Cardinality(stack[k].modules \cup stack[k].apps)
        /\ LeftOn(k)' = 1 + Cardinality(Without(n)[k].modules \cup Without(n)[k].apps)
    <3>1. k \in 1..k /\ ~(k > Len(stack)) /\ ~(k > Len(stack')) /\ stack'[k] = Without(n)[k]
      BY <1>k, <1>1, <1>3
    <3> QED
      BY <3>1 DEF LeftOn
  <2>2. /\ Cardinality(stack[k].modules \cup stack[k].apps) \in Nat
        /\ Cardinality(Without(n)[k].modules \cup Without(n)[k].apps) \in Nat
    <3>1. stack[k] \in Frames
      BY <1>k, <1>1 DEF TypeOK
    <3>2. /\ IsFiniteSet(stack[k].modules \cup stack[k].apps)
          /\ IsFiniteSet(Without(n)[k].modules \cup Without(n)[k].apps)
      BY <1>1, <3>1, ModulesAssumption, FS_Subset DEF Frames
    <3> QED
      BY <3>2, FS_CardinalityType
  <2> QED
    BY <1>1, <2>1, <2>2
<1>5. \A j \in 1..(k - 1) : LeftOn(j)' = LeftOn(j)
  <2> SUFFICES ASSUME NEW j \in 1..(k - 1)
               PROVE  LeftOn(j)' = LeftOn(j)
    OBVIOUS
  <2>1. j \in 1..k /\ ~(j > Len(stack)) /\ ~(j > Len(stack')) /\ stack'[j] = stack[j]
    BY <1>k, <1>1, <1>3
  <2> QED
    BY <2>1 DEF LeftOn
<1> QED
  BY <1>1, <1>4, <1>5, LevelLess

LEMMA ReloadingLess ==
  ASSUME TypeOK, StackBounded, Reloading
  PROVE  Less(Work', Work)
<1>1. CASE Return
  <2>k. PICK k : k = Len(stack)
    OBVIOUS
  <2>1. stack # <<>> /\ stack' = SubSeq(stack, 1, k - 1) /\ boot' = boot
    BY <1>1, <2>k DEF Return
  <2>2. stack \in Seq(Frames) /\ ReloadDepth \in Nat
    BY ModulesAssumption DEF TypeOK
  <2>3. /\ k \in 1..ReloadDepth /\ Len(stack') = k - 1
        /\ \A j \in 1..(k - 1) : stack'[j] = stack[j]
    BY <2>k, <2>1, <2>2 DEF StackBounded
  <2>4. LeftOn(k)' < LeftOn(k)
    <3>1. LeftOn(k)' = 0 /\ LeftOn(k) = 1 + Cardinality(stack[k].modules \cup stack[k].apps)
      BY <2>k, <2>2, <2>3 DEF LeftOn
    <3>2. stack[k] \in Frames
      BY <2>k, <2>2, <2>3
    <3>3. IsFiniteSet(stack[k].modules \cup stack[k].apps)
      BY <3>2, ModulesAssumption, FS_Subset DEF Frames
    <3> QED
      BY <3>1, <3>3, FS_CardinalityType
  <2>5. \A j \in 1..(k - 1) : LeftOn(j)' = LeftOn(j)
    <3> SUFFICES ASSUME NEW j \in 1..(k - 1)
                 PROVE  LeftOn(j)' = LeftOn(j)
      OBVIOUS
    <3>1. ~(j > Len(stack)) /\ ~(j > Len(stack')) /\ stack'[j] = stack[j]
      BY <2>k, <2>3
    <3> QED
      BY <3>1 DEF LeftOn
  <2> QED
    BY <2>1, <2>3, <2>4, <2>5, LevelLess
<1>2. ASSUME NEW n \in Names, Reload(n)
      PROVE  Less(Work', Work)
  <2>1. NextUp(n) /\ boot' = boot /\ Install(n, file[n], Without(n))
    BY <1>2 DEF Reload
  <2>2. stack' = Without(n) \/ \E deps \in Frames : stack' = Append(Without(n), deps)
    BY <2>1, DependentsType DEF Install, Push
  <2> QED
    BY <2>1, <2>2, DependentLess
<1>3. ASSUME NEW n \in Names, ReloadRefused(n) \/ ReloadGone(n)
      PROVE  Less(Work', Work)
  <2>1. NextUp(n) /\ boot' = boot /\ stack' = Without(n)
    BY <1>3 DEF ReloadRefused, ReloadGone
  <2> QED
    BY <2>1, DependentLess
<1> QED
  BY <1>1, <1>2, <1>3 DEF Reloading

LEMMA SaveLess ==
  ASSUME Save
  PROVE  Less(Work', Work)
<1> DEFINE k == ReloadDepth + 1
<1>1. ReloadDepth \in Nat
  BY ModulesAssumption
<1>2. k \in Places /\ k # 0 /\ ~(k <= ReloadDepth) /\ \A j \in 0..(k - 1) : j \in Places /\ j # k
  BY <1>1 DEF Places
<1>3. job # NoJob /\ job' = NoJob /\ boot' = boot /\ stack' = stack
  BY DEF Save
<1>4. Work[k] = 1 /\ Work'[k] = 0
  BY <1>2, <1>3 DEF Work
<1>5. \A j \in 0..(k - 1) : Work'[j] = Work[j]
  <2>1. \A j \in 0..(k - 1) : j <= ReloadDepth
    BY <1>1
  <2> QED
    BY <1>2, <1>3, <2>1 DEF Work, LeftOn
<1> HIDE DEF k
<1> QED
  BY <1>2, <1>4, <1>5 DEF Less

LEMMA BootingLess ==
  ASSUME TypeOK, Booting
  PROVE  Less(Work', Work)
<1>1. PICK n \in boot : boot' = boot \ {n}
  BY DEF Booting, Load, NotRestored, Turn
<1>2. IsFiniteSet(boot)
  BY ModulesAssumption, FS_Subset DEF TypeOK
<1>3. Cardinality(boot') < Cardinality(boot)
  <2>1. Cardinality(boot) \in Nat /\ Cardinality(boot \ {n}) = Cardinality(boot) - 1
    BY <1>2, FS_CardinalityType, FS_RemoveElement
  <2> QED
    BY <1>1, <2>1
<1>4. 0 \in Places /\ 0..(0 - 1) = {}
  BY ModulesAssumption DEF Places
<1>5. Work[0] = Cardinality(boot) /\ Work'[0] = Cardinality(boot')
  BY <1>4 DEF Work
<1> QED
  BY <1>3, <1>4, <1>5 DEF Less

\* Work is a list of numbers.
LEMMA WorkType ==
  ASSUME TypeOK
  PROVE  Work \in [Places -> Nat]
<1>1. Cardinality(boot) \in Nat
  BY ModulesAssumption, FS_Subset, FS_CardinalityType DEF TypeOK
<1>2. ASSUME NEW k \in Places, k # 0
      PROVE  LeftOn(k) \in Nat
  <2>1. CASE k > Len(stack)
    BY <2>1 DEF LeftOn
  <2>2. CASE ~(k > Len(stack))
    <3>1. stack[k] \in Frames
      BY <1>2, <2>2, ModulesAssumption DEF TypeOK, Places
    <3>2. IsFiniteSet(stack[k].modules \cup stack[k].apps)
      BY <3>1, ModulesAssumption, FS_Subset DEF Frames
    <3> QED
      BY <2>2, <3>2, FS_CardinalityType DEF LeftOn
  <2> QED
    BY <2>1, <2>2
<1> QED
  BY <1>1, <1>2 DEF Work

\* Each step of a call or a start leaves it less to do, as the order of Work
\* counts it, though the reload of one dependent adds a level of others
\* (reloadDependents).
THEOREM CallsShrink == Spec => WorkShrinks
<1>1. Safe /\ (Reloading \/ Save \/ Booting) => Less(Work', Work)
  BY ReloadingLess, SaveLess, BootingLess DEF Safe
<1>2. Safe /\ UNCHANGED vars => (Reloading \/ Save \/ Booting => Less(Work', Work))
  BY <1>1
<1> QED
  BY <1>1, Starts, SafeKeeps, PTL DEF Spec, WorkShrinks

\* The arithmetic behind CallsShrink: no list of numbers can go on getting less
\* for ever; position by position, the lists stop changing.  With CallsShrink it
\* leaves no room for a call or a start without end.
LEMMA NoEndlessDescent ==
  \A f \in [Nat -> [Places -> Nat]] : \E i \in Nat : ~Less(f[i + 1], f[i])
<1> SUFFICES ASSUME NEW f \in [Nat -> [Places -> Nat]], \A i \in Nat : Less(f[i + 1], f[i])
             PROVE  FALSE
  OBVIOUS
<1> DEFINE Settled(k, i) == \A l \in Nat : l >= i => \A j \in 0..(k - 1) : f[l][j] = f[i][j]
           T == {k \in Nat : k <= ReloadDepth + 2 => \E i \in Nat : Settled(k, i)}
<1>1. ReloadDepth \in Nat
  BY ModulesAssumption
<1>n. \A l \in Nat, p \in Places : f[l][p] \in Nat
  OBVIOUS
<1>2. 0 \in T
  <2>1. 0..(0 - 1) = {}
    OBVIOUS
  <2> QED
    BY <2>1
<1>3. ASSUME NEW k \in T, k + 1 <= ReloadDepth + 2
      PROVE  \E i \in Nat : Settled(k + 1, i)
  <2>1. k \in Nat /\ k \in Places /\ \A j \in 0..(k - 1) : j \in Places
    BY <1>1, <1>3 DEF Places
  <2>2. PICK i \in Nat : Settled(k, i)
    BY <1>1, <1>3, <2>1
  <2>3. ASSUME NEW l \in Nat, l >= i
        PROVE  f[l + 1][k] <= f[l][k]
    <3>1. PICK p \in Places : /\ f[l + 1][p] < f[l][p]
                              /\ \A j \in 0..(p - 1) : f[l + 1][j] = f[l][j]
      BY <2>3 DEF Less
    <3>2. f[l + 1][p] \in Nat /\ f[l][p] \in Nat /\ f[l + 1][k] \in Nat /\ f[l][k] \in Nat
      <4>1. l + 1 \in Nat
        OBVIOUS
      <4> HIDE DEF Settled, T
      <4> QED
        BY <1>n, <2>1, <4>1
    <3>3. p \in Nat
      BY <1>1 DEF Places
    <3>4. ~(p \in 0..(k - 1))
      <4>1. SUFFICES ASSUME p \in 0..(k - 1) PROVE FALSE
        OBVIOUS
      <4>2. f[l][p] = f[i][p] /\ f[l + 1][p] = f[i][p]
        BY <2>2, <2>3, <4>1
      <4> QED
        BY <3>1, <3>2, <4>2
    <3>5. p = k \/ k \in 0..(p - 1)
      BY <2>1, <3>3, <3>4
    <3> QED
      BY <3>1, <3>2, <3>5
  <2> DEFINE S == {m \in Nat : \E l \in Nat : l >= i /\ m = f[l][k]}
  <2>4. f[i][k] \in S
    BY <2>1
  <2>5. PICK m \in S : \A y \in S : m <= y
    <3>1. S \in SUBSET Nat /\ S # {}
      BY <2>4
    <3> HIDE DEF S
    <3> QED
      BY <3>1, FirstOf
  <2>6. PICK o \in Nat : o >= i /\ m = f[o][k]
    BY <2>5
  <2> DEFINE U == {d \in Nat : f[o + d][k] = m}
  <2>7. 0 \in U
    BY <2>6
  <2>8. ASSUME NEW d \in Nat, d \in U
        PROVE  d + 1 \in U
    <3>1. o + d \in Nat /\ o + d >= i /\ (o + d) + 1 = o + (d + 1) /\ o + (d + 1) \in Nat
          /\ o + (d + 1) >= i
      BY <2>6
    <3>2. PICK v : v = f[o + (d + 1)][k]
      OBVIOUS
    <3>3. v <= m
      BY <2>3, <2>8, <3>1, <3>2
    <3>4. v \in Nat /\ m \in Nat /\ v \in S
      BY <2>1, <3>1, <3>2
    <3>5. m <= v
      BY <2>5, <3>4
    <3>6. v = m
      <4> HIDE DEF S, U
      <4> QED
        BY <3>3, <3>4, <3>5
    <3>7. f[o + (d + 1)][k] = m /\ d + 1 \in Nat
      BY <3>2, <3>6
    <3> HIDE DEF S
    <3> QED
      BY ONLY <3>7
  <2>9. Nat \subseteq U
    <3> HIDE DEF U
    <3> QED
      BY <2>7, <2>8, AllNaturals
  <2>10. ASSUME NEW l \in Nat, l >= o
         PROVE  f[l][k] = f[o][k]
    <3>1. l - o \in Nat /\ o + (l - o) = l
      BY <2>6, <2>10
    <3> QED
      BY <2>6, <2>9, <3>1
  <2>11. ASSUME NEW l \in Nat, l >= o, NEW j \in 0..(k - 1)
         PROVE  f[l][j] = f[o][j]
    <3>1. l >= i
      BY <2>6, <2>11
    <3>2. f[l][j] = f[i][j] /\ f[o][j] = f[i][j]
      BY <2>2, <2>6, <2>11, <3>1
    <3> QED
      BY <3>2
  <2>12. Settled(k + 1, o)
    <3>1. \A j \in 0..((k + 1) - 1) : j = k \/ j \in 0..(k - 1)
      BY <2>1
    <3> QED
      BY <2>10, <2>11, <3>1
  <2> QED
    BY <2>6, <2>12
<1>4. Nat \subseteq T
  <2>1. ASSUME NEW k \in Nat, k \in T
        PROVE  k + 1 \in T
    <3>1. k + 1 <= ReloadDepth + 2 => \E i \in Nat : Settled(k + 1, i)
      BY <1>3, <2>1
    <3> HIDE DEF Settled
    <3> QED
      BY <3>1
  <2> HIDE DEF T
  <2> QED
    BY <1>2, <2>1, AllNaturals
<1>5. PICK i \in Nat : Settled(ReloadDepth + 2, i)
  <2>1. ReloadDepth + 2 \in Nat
    BY <1>1
  <2>2. ReloadDepth + 2 \in T
    BY <1>4, <2>1
  <2> HIDE DEF Settled
  <2> QED
    BY <1>1, <2>1, <2>2
<1>6. PICK p \in Places : f[i + 1][p] < f[i][p]
  BY DEF Less
<1>7. p \in 0..((ReloadDepth + 2) - 1)
  BY <1>1 DEF Places
<1>8. f[i + 1][p] = f[i][p]
  BY <1>5, <1>7
<1> QED
  BY <1>6, <1>8

=============================================================================
