------------------------ MODULE ScriptStorage_proofs ------------------------
(***************************************************************************)
(* A script's store reads as it was last handed in, and flash is a         *)
(* write-back copy of it, late by no more than the interval; and what runs *)
(* is what is stored: for any scripts, sources, interval and bounds.       *)
(***************************************************************************)
EXTENDS ScriptStorage, TLAPS

Maps == [Scripts -> Store \cup {NoStore}]
NoEntries == [n \in Scripts |-> NoStore]

\* What readStore() answers from a pending map and the files.
Over(d, f) == [n \in Scripts |-> IF d[n] # NoStore THEN d[n] ELSE f[n]]

-----------------------------------------------------------------------------
(* The operators on stores *)

LEMMA MapOfType == \A v \in Store \cup {NoStore} : MapOf(v) \in Store
  BY DEF MapOf, Empty, Store

LEMMA SeedType ==
  \A src, v : v \in Store \cup {NoStore} => Seed(src, v) \in Store \cup {NoStore}
  BY MapOfType DEF Seed, Store, Default

LEMMA MapAfterType ==
  ASSUME writes \in Nat, NEW v \in Store \cup {NoStore}, NEW h
  PROVE  /\ MapAfter(v, h) \in Store \cup {NoStore}
         /\ h = "set" => MapAfter(v, h) \in Store
  BY MapOfType DEF MapAfter, Store

LEMMA ParkedAfterType ==
  ASSUME TypeOK, NEW n \in Scripts, NEW v \in Store \cup {NoStore}, NEW h
  PROVE  ParkedAfter(n, v, h) \in [owner: Scripts, data: Store] \cup {NoWrite}
  BY MapAfterType DEF TypeOK, ParkedAfter

\* Draining hands one whole store to the map, or nothing.
LEMMA DrainedType ==
  ASSUME NEW p \in [owner: Scripts, data: Store] \cup {NoWrite}, NEW d \in Maps
  PROVE  Drained(p, d) \in Maps
  BY DEF Drained, Maps

\* What a map is told reads the same in front of the files and behind them.
LEMMA OverOne ==
  ASSUME NEW d \in Maps, NEW f \in Maps, NEW n \in Scripts, NEW v \in Store
  PROVE  Over([d EXCEPT ![n] = v], f) = [Over(d, f) EXCEPT ![n] = v]
  BY StorageAssumption DEF Over, Maps

LEMMA OverDrained ==
  ASSUME NEW p \in [owner: Scripts, data: Store] \cup {NoWrite},
         NEW d \in Maps, NEW f \in Maps
  PROVE  Over(Drained(p, d), f) = Drained(p, Over(d, f))
<1>1. CASE p = NoWrite
  BY <1>1 DEF Drained
<1>2. CASE p # NoWrite
  <2>1. p.owner \in Scripts /\ p.data \in Store
    BY <1>2
  <2> QED
    BY <1>2, <2>1, OverOne DEF Drained
<1> QED
  BY <1>1, <1>2

LEMMA OverType ==
  ASSUME NEW d \in Maps, NEW f \in Maps
  PROVE  Over(d, f) \in Maps
  BY DEF Over, Maps

LEMMA KeptType ==
  ASSUME TypeOK, NEW n \in Scripts, NEW src
  PROVE  /\ Kept(n, src) \in Store \cup {NoStore}
         /\ Kept(n, src) # Stored(n) => Kept(n, src) \in Store
  BY DEF TypeOK, Kept, Prune, Stored, Store

LEMMA WithKeptType ==
  ASSUME TypeOK, NEW n \in Scripts, NEW src, NEW d \in Maps
  PROVE  WithKept(n, src, d) \in Maps
  BY KeptType DEF WithKept, Maps

LEMMA OverWithKept ==
  ASSUME TypeOK, NEW n \in Scripts, NEW src, NEW d \in Maps, NEW f \in Maps
  PROVE  Over(WithKept(n, src, d), f) = WithKept(n, src, Over(d, f))
<1>1. CASE Kept(n, src) = Stored(n)
  BY <1>1 DEF WithKept
<1>2. CASE Kept(n, src) # Stored(n)
  BY <1>2, KeptType, OverOne DEF WithKept
<1> QED
  BY <1>1, <1>2

-----------------------------------------------------------------------------
(* The invariant *)

\* Between two calls, what the store answers is the queued map over the files.
LEMMA IdleLatest ==
  ASSUME IInv, Idle
  PROVE  told = Over(dirty, storeFile) /\ dirty \in Maps /\ storeFile \in Maps
  BY DEF IInv, TypeOK, ReadsWhatWasTold, Latest, Idle, Deleting, Nothing, Over,
         Stored, Maps

\* Telling the store without starting a flush keeps the invariant.
LEMMA TellKeeps ==
  ASSUME IInv, Idle, dirty' \in Maps, told' = Over(dirty', storeFile),
         UNCHANGED <<storeFile, flushing>>, TypeOK'
  PROVE  IInv'
<1>1. ReadsWhatWasTold'
  BY DEF ReadsWhatWasTold, Latest, Idle, Deleting, Nothing, Over, Stored, flushing
<1>2. FlushInv'
  BY DEF FlushInv, IInv, Idle, Deleting, Nothing, NoJob, NoneQueued, flushing, TypeOK, Maps
<1> QED
  BY <1>1, <1>2 DEF IInv

\* So does starting one.
LEMMA FlushKeeps ==
  ASSUME IInv, NEW d \in Maps, NEW then, then.op \in Flushes,
         StartFlush(d, then), job = NoJob, phase' # "boot",
         told' = Over(d, storeFile'), TypeOK'
  PROVE  IInv'
<1>1. queue' = d /\ dirty' = NoEntries /\ after' = then /\ job' = NoJob
  BY DEF StartFlush, NoEntries
<1>2. \A n \in Scripts : ~Deleting(n)'
  BY <1>1 DEF Deleting, Flushes
<1>3. ReadsWhatWasTold'
  BY <1>1, <1>2 DEF ReadsWhatWasTold, Latest, Over, Stored, NoEntries
<1>4. FlushInv'
  BY <1>1, <1>2 DEF FlushInv, NoJob, NoneQueued, NoEntries
<1> QED
  BY <1>3, <1>4 DEF IInv

\* The first start, with empty flash.
THEOREM Starts == Init => IInv
  BY StorageAssumption
     DEF Init, IInv, TypeOK, FlushInv, ReadsWhatWasTold, Latest, Deleting, Stored,
         Idle, NoneQueued, Nothing, NoJob, NoWrite, Flushes

\* Commands -----------------------------------------------------------------

\* What an install leaves in RAM, with the map d it has told.
LEMMA CompiledType ==
  ASSUME TypeOK, NEW n \in Scripts, NEW src \in Sources \cup {NoSource},
         NEW v \in Store \cup {NoStore}, NEW h, Compiled(n, src, v, h)
  PROVE  /\ installed' \in [Scripts -> Sources \cup {NoSource}]
         /\ mem' \in [Scripts -> Store \cup {NoStore}]
         /\ parked' \in [owner: Scripts, data: Store] \cup {NoWrite}
         /\ writes' \in Nat
<1>1. MapAfter(Seed(src, v), h) \in Store \cup {NoStore}
  BY SeedType, MapAfterType DEF TypeOK
<1> QED
  BY <1>1 DEF TypeOK, Compiled, Counted

LEMMA DirtyAfterTold ==
  ASSUME TypeOK, NEW n \in Scripts, NEW src, NEW v \in Store \cup {NoStore},
         NEW h, NEW d \in Maps, NEW f \in Maps
  PROVE  /\ DirtyAfter(n, src, v, h, d) \in Maps
         /\ Over(DirtyAfter(n, src, v, h, d), f) = DirtyAfter(n, src, v, h, Over(d, f))
<1>1. ParkedAfter(n, Seed(src, v), h) \in [owner: Scripts, data: Store] \cup {NoWrite}
  BY SeedType, ParkedAfterType
<1> QED
  BY <1>1, DrainedType, OverDrained DEF DirtyAfter

LEMMA UploadKeeps ==
  ASSUME IInv, NEW n \in Scripts, NEW src \in Sources, NEW h, Upload(n, src, h)
  PROVE  IInv'
<1> DEFINE v == Kept(n, src)
<1> DEFINE e == DirtyAfter(n, src, v, h, WithKept(n, src, dirty))
<1>1. TypeOK /\ Idle
  BY DEF IInv, Upload
<1>2. told = Over(dirty, storeFile) /\ dirty \in Maps /\ storeFile \in Maps
  BY <1>1, IdleLatest
<1>3. v \in Store \cup {NoStore}
  BY <1>1, KeptType
<1>4. WithKept(n, src, dirty) \in Maps
  BY <1>1, <1>2, WithKeptType
<1>5. e \in Maps /\ Over(e, storeFile) = told'
  <2>1. told' = DirtyAfter(n, src, v, h, WithKept(n, src, told))
    BY DEF Upload
  <2>2. WithKept(n, src, told) = Over(WithKept(n, src, dirty), storeFile)
    BY <1>1, <1>2, OverWithKept
  <2> HIDE DEF v
  <2>3. /\ e \in Maps
        /\ Over(e, storeFile)
             = DirtyAfter(n, src, v, h, Over(WithKept(n, src, dirty), storeFile))
    BY <1>1, <1>2, <1>3, <1>4, DirtyAfterTold
  <2> QED
    BY <2>1, <2>2, <2>3
<1>6. told' \in Maps
  BY <1>2, <1>5, OverType
<1>7. StartFlush(e, [op |-> "save", name |-> n, source |-> src])
  BY DEF Upload
<1>8. UNCHANGED <<storeFile, srcFile, phase, configs>> /\ phase = "commands"
  BY DEF Upload, flash, loop
<1>9. TypeOK'
  <2>1. Compiled(n, src, v, h)
    BY DEF Upload
  <2>2. /\ installed' \in [Scripts -> Sources \cup {NoSource}]
        /\ mem' \in [Scripts -> Store \cup {NoStore}]
        /\ parked' \in [owner: Scripts, data: Store] \cup {NoWrite}
        /\ writes' \in Nat
    <3> HIDE DEF v
    <3> QED
      BY <1>1, <1>3, <2>1, CompiledType
  <2> HIDE DEF e
  <2> QED
    BY <1>1, <1>5, <1>6, <1>7, <1>8, <2>2
       DEF TypeOK, StartFlush, Maps, NoWrite, Idle
<1> HIDE DEF e
<1>10. job = NoJob /\ told' = Over(e, storeFile') /\ phase' # "boot"
  BY <1>1, <1>5, <1>8 DEF Idle
<1>11. [op |-> "save", name |-> n, source |-> src].op \in Flushes
  BY DEF Flushes
<1> QED
  BY <1>5, <1>7, <1>9, <1>10, <1>11, FlushKeeps

LEMMA UploadRefusedKeeps ==
  ASSUME IInv, NEW n \in Scripts, NEW src \in Sources, UploadRefused(n, src)
  PROVE  IInv'
<1>1. TypeOK /\ Idle
  BY DEF IInv, UploadRefused
<1>2. told = Over(dirty, storeFile) /\ dirty \in Maps /\ storeFile \in Maps
  BY <1>1, IdleLatest
<1>3. dirty' = WithKept(n, src, dirty) /\ told' = WithKept(n, src, told)
  BY DEF UploadRefused
<1>4. dirty' \in Maps /\ told' = Over(dirty', storeFile)
  BY <1>1, <1>2, <1>3, WithKeptType, OverWithKept
<1>5. UNCHANGED <<storeFile, flushing>>
  BY DEF UploadRefused, flash
<1>6. TypeOK'
  BY <1>1, <1>2, <1>4, OverType DEF UploadRefused, flash, flushing, TypeOK, Maps
<1>7. told' = Over(dirty', storeFile')
  BY <1>4, <1>5
<1> QED
  BY <1>1, <1>4, <1>5, <1>6, <1>7, TellKeeps

LEMMA ConfigureKeeps ==
  ASSUME IInv, NEW n \in Scripts, NEW h, Configure(n, h)
  PROVE  IInv'
<1> DEFINE p == [MapOf(Stored(n)) EXCEPT !.cfg = Default + configs + 1]
<1> DEFINE src == srcFile[n]
<1>1. TypeOK /\ Idle
  BY DEF IInv, Configure
<1>2. told = Over(dirty, storeFile) /\ dirty \in Maps /\ storeFile \in Maps
  BY <1>1, IdleLatest
<1>3. p \in Store /\ src \in Sources \cup {NoSource}
  BY <1>1, MapOfType DEF Stored, TypeOK, Store, Default
<1>4. /\ Compiled(n, src, p, h)
      /\ dirty' = [DirtyAfter(n, src, p, h, dirty) EXCEPT ![n] = p]
      /\ told' = [DirtyAfter(n, src, p, h, told) EXCEPT ![n] = p]
      /\ configs' = configs + 1
      /\ UNCHANGED <<flash, flushing, loop>>
  BY DEF Configure
<1> HIDE DEF p, src
<1>5. /\ DirtyAfter(n, src, p, h, dirty) \in Maps
      /\ Over(DirtyAfter(n, src, p, h, dirty), storeFile)
           = DirtyAfter(n, src, p, h, told)
  BY <1>1, <1>2, <1>3, DirtyAfterTold
<1>6. dirty' \in Maps /\ told' = Over(dirty', storeFile)
  <2> DEFINE d == DirtyAfter(n, src, p, h, dirty)
  <2>1. d \in Maps /\ Over(d, storeFile) = DirtyAfter(n, src, p, h, told)
    BY <1>5
  <2>2. dirty' = [d EXCEPT ![n] = p] /\ told' = [Over(d, storeFile) EXCEPT ![n] = p]
    BY <1>4, <1>5
  <2> HIDE DEF d
  <2>3. [d EXCEPT ![n] = p] \in Maps
    BY <1>3, <2>1 DEF Maps
  <2>4. Over([d EXCEPT ![n] = p], storeFile) = [Over(d, storeFile) EXCEPT ![n] = p]
    BY <1>2, <1>3, <2>1, OverOne
  <2> QED
    BY <2>2, <2>3, <2>4
<1>7. /\ installed' \in [Scripts -> Sources \cup {NoSource}]
      /\ mem' \in [Scripts -> Store \cup {NoStore}]
      /\ parked' \in [owner: Scripts, data: Store] \cup {NoWrite}
      /\ writes' \in Nat
  BY <1>1, <1>3, <1>4, CompiledType
<1>8. TypeOK'
  <2>1. told' \in Maps
    BY <1>2, <1>6, OverType
  <2> QED
    BY <1>1, <1>4, <1>6, <1>7, <2>1 DEF flash, flushing, TypeOK, Maps, NoWrite
<1>9. UNCHANGED storeFile
  BY <1>4 DEF flash
<1> QED
  BY <1>1, <1>4, <1>6, <1>8, <1>9, TellKeeps

LEMMA DeleteKeeps ==
  ASSUME IInv, NEW n \in Scripts, Delete(n)
  PROVE  IInv'
<1>1. TypeOK /\ Idle
  BY DEF IInv, Delete
<1>2. told = Over(dirty, storeFile) /\ dirty \in Maps /\ storeFile \in Maps
  BY <1>1, IdleLatest
<1>3. after'.op = "dropSource" /\ after'.name = n /\ queue' = NoEntries /\ job' = NoJob
      /\ dirty' = [dirty EXCEPT ![n] = NoStore] /\ told' = [told EXCEPT ![n] = NoStore]
      /\ storeFile' = storeFile /\ phase' = "commands"
  BY <1>1 DEF Delete, Idle, NoEntries, flash, loop
<1>4. TypeOK'
  BY <1>1 DEF Delete, TypeOK, flash, loop, bounds
<1>5. ReadsWhatWasTold'
  BY <1>2, <1>3 DEF ReadsWhatWasTold, Latest, Deleting, Over, Stored, Maps, NoEntries
<1>6. FlushInv'
  BY <1>2, <1>3 DEF FlushInv, Deleting, NoneQueued, NoEntries, NoJob, Maps
<1> QED
  BY <1>4, <1>5, <1>6 DEF IInv

LEMMA DropSourceKeeps ==
  ASSUME IInv, DropSource
  PROVE  IInv'
<1>1. TypeOK /\ after.op = "dropSource" /\ after.name \in Scripts
      /\ after' = [after EXCEPT !.op = "dropStore"]
  BY DEF IInv, TypeOK, DropSource, Nothing
<1>2. TypeOK'
  BY <1>1 DEF DropSource, TypeOK, ram, bounds, Nothing
<1>3. after'.op = "dropStore" /\ after'.name = after.name
  BY <1>1 DEF TypeOK, Nothing
<1>4. \A n \in Scripts : Deleting(n)' <=> Deleting(n)
  BY <1>1, <1>3 DEF Deleting
<1>5. ReadsWhatWasTold'
  BY <1>4 DEF IInv, ReadsWhatWasTold, Latest, Stored, DropSource, ram
<1>6. FlushInv'
  BY <1>1, <1>3, <1>4
     DEF IInv, FlushInv, DropSource, ram, loop, NoneQueued, Idle, Flushes, Nothing
<1> QED
  BY <1>2, <1>5, <1>6 DEF IInv

LEMMA DropStoreKeeps ==
  ASSUME IInv, DropStore
  PROVE  IInv'
<1> DEFINE s == after.name
<1>1. TypeOK /\ after.op = "dropStore" /\ s \in Scripts /\ Deleting(s)
  BY DEF IInv, TypeOK, DropStore, Nothing, Deleting
<1>2. queue = NoEntries /\ job = NoJob /\ dirty[s] = NoStore
  BY <1>1 DEF IInv, FlushInv, NoneQueued, NoEntries, Flushes
<1>3. told = [n \in Scripts |-> IF n = s THEN NoStore
                                ELSE IF dirty[n] # NoStore THEN dirty[n] ELSE storeFile[n]]
  BY <1>1, <1>2 DEF IInv, ReadsWhatWasTold, Latest, Deleting, Stored, NoEntries
<1>4. storeFile' = [storeFile EXCEPT ![s] = NoStore] /\ UNCHANGED <<told, loop>>
      /\ StartFlush(dirty, [op |-> "removed", name |-> s, source |-> NoSource])
  BY DEF DropStore
<1>5. dirty \in Maps /\ told' = Over(dirty, storeFile')
  BY <1>1, <1>2, <1>3, <1>4 DEF TypeOK, Maps, Over
<1>6. TypeOK'
  BY <1>1, <1>2 DEF DropStore, TypeOK, StartFlush, bounds
<1>7. phase' # "boot"
  BY <1>1, <1>4 DEF IInv, FlushInv, Idle, Nothing, loop
<1>8. [op |-> "removed", name |-> s, source |-> NoSource].op \in Flushes
  BY DEF Flushes
<1> QED
  BY <1>2, <1>4, <1>5, <1>6, <1>7, <1>8, FlushKeeps

LEMMA HookKeeps ==
  ASSUME IInv, NEW n \in Scripts, NEW h, Hook(n, h)
  PROVE  IInv'
<1> DEFINE p == ParkedAfter(n, mem[n], h)
<1>1. TypeOK /\ Idle /\ mem[n] \in Store \cup {NoStore}
  BY DEF IInv, Hook, TypeOK
<1>2. told = Over(dirty, storeFile) /\ dirty \in Maps /\ storeFile \in Maps
  BY <1>1, IdleLatest
<1>3. p \in [owner: Scripts, data: Store] \cup {NoWrite}
  BY <1>1, ParkedAfterType
<1>4. dirty' = Drained(p, dirty) /\ told' = Drained(p, told)
      /\ UNCHANGED <<flash, flushing>>
  BY DEF Hook
<1>5. MapAfter(mem[n], h) \in Store \cup {NoStore}
  BY <1>1, MapAfterType DEF TypeOK
<1> HIDE DEF p
<1>6. dirty' \in Maps /\ told' = Over(dirty', storeFile)
  BY <1>2, <1>3, <1>4, DrainedType, OverDrained
<1>7. TypeOK'
  BY <1>1, <1>2, <1>5, <1>6, OverType
     DEF Hook, flash, flushing, TypeOK, Maps, Counted, NoWrite
<1>8. UNCHANGED storeFile
  BY <1>4 DEF flash
<1> QED
  BY <1>1, <1>4, <1>6, <1>7, <1>8, TellKeeps

\* The loop -----------------------------------------------------------------

LEMMA ScriptsTurnKeeps ==
  ASSUME IInv, ScriptsTurn
  PROVE  IInv'
<1>1. TypeOK /\ Idle /\ parked \in [owner: Scripts, data: Store] \cup {NoWrite}
  BY DEF IInv, ScriptsTurn, TypeOK
<1>2. told = Over(dirty, storeFile) /\ dirty \in Maps /\ storeFile \in Maps
  BY <1>1, IdleLatest
<1>3. dirty' = Drained(parked, dirty) /\ told' = Drained(parked, told)
      /\ UNCHANGED <<flash, flushing>>
  BY DEF ScriptsTurn
<1>4. dirty' \in Maps /\ told' = Over(dirty', storeFile)
  BY <1>1, <1>2, <1>3, DrainedType, OverDrained
<1>5. told' \in Maps
  BY <1>2, <1>4, OverType
<1>6. TypeOK'
  BY <1>1, <1>4, <1>5 DEF ScriptsTurn, flash, flushing, TypeOK, Maps, NoWrite, bounds
<1>7. UNCHANGED storeFile
  BY <1>3 DEF flash
<1> QED
  BY <1>1, <1>3, <1>4, <1>6, <1>7, TellKeeps

\* Steps that tell the store nothing and start no flush.
LEMMA QuietKeeps ==
  ASSUME IInv, Idle, UNCHANGED <<told, dirty, storeFile, flushing>>, TypeOK'
  PROVE  IInv'
<1>1. told = Over(dirty, storeFile) /\ dirty \in Maps
  BY IdleLatest
<1> QED
  BY <1>1, TellKeeps

LEMMA StoreTurnKeeps ==
  ASSUME IInv, NEW pages, StoreTurn(pages)
  PROVE  IInv'
<1>1. TypeOK /\ Idle /\ UNCHANGED <<told, flash>> /\ phase' = "draw"
  BY DEF IInv, StoreTurn
<1>2. told = Over(dirty, storeFile) /\ dirty \in Maps /\ storeFile \in Maps
  BY <1>1, IdleLatest
<1>3. CASE dirty # NoEntries /\ since >= FlushInterval
  <2> DEFINE then == [op |-> "tick", name |-> NoSource, source |-> NoSource]
  <2>1. StartFlush(dirty, then)
    BY <1>3 DEF StoreTurn, NoEntries
  <2>2. TypeOK'
    BY <1>1, <2>1 DEF StoreTurn, StartFlush, TypeOK, flash, bounds
  <2>3. then.op \in Flushes /\ job = NoJob /\ told' = Over(dirty, storeFile')
    BY <1>1, <1>2 DEF Flushes, Idle, flash
  <2> HIDE DEF then
  <2> QED
    BY <1>1, <1>2, <2>1, <2>2, <2>3, FlushKeeps
<1>4. CASE ~(dirty # NoEntries /\ since >= FlushInterval)
  <2>1. UNCHANGED <<dirty, flushing>>
    BY <1>4 DEF StoreTurn, NoEntries
  <2>2. TypeOK'
    BY <1>1, <2>1 DEF StoreTurn, TypeOK, flash, flushing, bounds, NoWrite
  <2>3. UNCHANGED storeFile
    BY <1>1 DEF flash
  <2> QED
    BY <1>1, <2>1, <2>2, <2>3, QuietKeeps
<1> QED
  BY <1>3, <1>4

LEMMA DrawKeeps ==
  ASSUME IInv, NEW n \in Scripts, NEW h, Draw(n, h)
  PROVE  IInv'
<1>1. TypeOK /\ Idle /\ mem[n] \in Store \cup {NoStore}
  BY DEF IInv, Draw, TypeOK
<1>2. MapAfter(mem[n], h) \in Store \cup {NoStore}
  BY <1>1, MapAfterType DEF TypeOK
<1>3. parked' \in [owner: Scripts, data: Store] \cup {NoWrite}
  BY <1>1, ParkedAfterType DEF Draw
<1>4. TypeOK'
  BY <1>1, <1>2, <1>3 DEF Draw, TypeOK, Counted, flash, flushing, NoWrite
<1> QED
  BY <1>1, <1>4, QuietKeeps DEF Draw, flash

LEMMA LoopEndKeeps ==
  ASSUME IInv, LoopEnd \/ Booted
  PROVE  IInv'
<1>1. UNCHANGED <<told, ram, flash, flushing, bounds>> /\ TypeOK /\ Idle
  BY DEF LoopEnd, Booted, IInv, FlushInv
<1>2. TypeOK'
  BY <1>1 DEF TypeOK, ram, flash, flushing, bounds, NoWrite
<1> QED
  BY <1>1, <1>2, QuietKeeps DEF ram, flash

LEMMA RebootKeeps ==
  ASSUME IInv, Reboot
  PROVE  IInv'
<1> DEFINE then == [op |-> "reboot", name |-> NoSource, source |-> NoSource]
<1>1. TypeOK /\ Idle /\ UNCHANGED <<told, flash, loop>> /\ phase = "draw"
      /\ StartFlush(dirty, then)
  BY DEF IInv, Reboot
<1>2. told = Over(dirty, storeFile) /\ dirty \in Maps
  BY <1>1, IdleLatest
<1>3. TypeOK'
  BY <1>1 DEF Reboot, StartFlush, TypeOK, flash, bounds
<1>4. then.op \in Flushes /\ job = NoJob /\ told' = Over(dirty, storeFile') /\ phase' # "boot"
  BY <1>1, <1>2 DEF Flushes, Idle, flash, loop
<1> HIDE DEF then
<1> QED
  BY <1>1, <1>2, <1>3, <1>4, FlushKeeps

\* Flash --------------------------------------------------------------------

\* Picking a file and filling the temporary one move no map.
LEMMA PickKeeps ==
  ASSUME IInv, (\E n \in Scripts : PickStore(n)) \/ PickSource
  PROVE  IInv'
<1>1. TypeOK /\ UNCHANGED <<told, ram, flash, queue, after, loop, bounds>>
  BY DEF IInv, PickStore, PickSource
<1>2. job = NoJob /\ ~Idle /\ after.op \in Flushes
  BY DEF PickStore, PickSource, IInv, FlushInv, NoneQueued, Idle, Flushes, Nothing
<1>3. TypeOK' /\ (job'.file = "store" => queue[job'.name] = job'.data)
      /\ (job'.file = "source" => after.op = "save" /\ NoneQueued)
  <2>1. CASE \E n \in Scripts : PickStore(n)
    BY <1>1, <2>1 DEF PickStore, TypeOK, ram, flash, bounds, NoWrite
  <2>2. CASE PickSource
    BY <1>1, <2>2 DEF PickSource, TypeOK, NoneQueued, ram, flash, bounds, NoWrite, Nothing
  <2> QED
    BY <2>1, <2>2
<1>4. ReadsWhatWasTold'
  BY <1>1 DEF IInv, ReadsWhatWasTold, Latest, Deleting, Stored, ram, flash
<1>5. FlushInv'
  BY <1>1, <1>2, <1>3 DEF IInv, FlushInv, Deleting, NoneQueued, ram, loop, Idle
<1> QED
  BY <1>3, <1>4, <1>5 DEF IInv

LEMMA FillTmpKeeps ==
  ASSUME IInv, NEW whole \in BOOLEAN, FillTmp(whole)
  PROVE  IInv'
<1>1. TypeOK /\ UNCHANGED <<told, ram, flash, queue, after, loop>> /\ job # NoJob
  BY DEF IInv, FillTmp, NoJob
<1>2. job' = [job EXCEPT !.tmp = IF whole THEN "whole" ELSE "short"]
  BY DEF FillTmp
<1>3. job'.file = job.file /\ job'.name = job.name /\ job'.data = job.data
  BY <1>1, <1>2 DEF TypeOK
<1>4. TypeOK'
  <2>1. job' \in [file: {"store"}, name: Scripts, data: Store, tmp: {"none", "whole", "short"}]
        \/ job' \in [file: {"source"}, name: Scripts, data: {NoStore},
                     tmp: {"none", "whole", "short"}]
    BY <1>1, <1>2 DEF TypeOK
  <2> QED
    BY <1>1, <2>1 DEF TypeOK, FillTmp, ram, flash, NoWrite
<1>5. ReadsWhatWasTold'
  BY <1>1 DEF IInv, ReadsWhatWasTold, Latest, Deleting, Stored, ram, flash
<1>6. FlushInv'
  BY <1>1, <1>3 DEF IInv, FlushInv, Deleting, NoneQueued, ram, loop, Idle
<1> QED
  BY <1>4, <1>5, <1>6 DEF IInv

\* What FlushInv says of the file being written.
LEMMA JobFacts ==
  ASSUME IInv, job # NoJob
  PROVE  /\ after.op \in Flushes
         /\ \A n \in Scripts : ~Deleting(n)
         /\ phase # "boot"
         /\ \/ /\ job.file = "store" /\ job.name \in Scripts /\ job.data \in Store
               /\ queue[job.name] = job.data /\ dirty[job.name] = NoStore
            \/ /\ job.file = "source" /\ job.name \in Scripts /\ NoneQueued
               /\ after \in [op: {"save"}, name: Scripts, source: Sources]
<1>1. after.op \in Flushes
  BY DEF IInv, FlushInv
<1>2. \A n \in Scripts : ~Deleting(n)
  BY <1>1 DEF Deleting, Flushes
<1>3. phase # "boot"
  BY DEF IInv, FlushInv, Idle
<1>4. \/ job.file = "store" /\ job.name \in Scripts /\ job.data \in Store
      \/ job.file = "source" /\ job.name \in Scripts
  BY DEF IInv, TypeOK
<1>5. CASE job.file = "store"
  BY <1>1, <1>2, <1>3, <1>4, <1>5, StorageAssumption DEF IInv, FlushInv
<1>6. CASE job.file = "source"
  BY <1>1, <1>2, <1>3, <1>4, <1>6 DEF IInv, FlushInv, TypeOK, Nothing
<1> QED
  BY <1>4, <1>5, <1>6

LEMMA RenameKeeps ==
  ASSUME IInv, Rename
  PROVE  IInv'
<1>1. TypeOK /\ job # NoJob /\ UNCHANGED <<told, ram, loop, bounds>>
  BY DEF IInv, Rename, NoJob
<1>2. CASE job.file = "store"
  <2> DEFINE s == job.name
  <2>1. s \in Scripts /\ job.data \in Store /\ queue[s] = job.data /\ dirty[s] = NoStore
        /\ after.op \in Flushes /\ (\A n \in Scripts : ~Deleting(n)) /\ phase # "boot"
    BY <1>1, <1>2, JobFacts
  <2>2. storeFile' = [storeFile EXCEPT ![s] = job.data] /\ srcFile' = srcFile
        /\ queue' = [queue EXCEPT ![s] = NoStore] /\ after' = after /\ job' = NoJob
    BY <1>2 DEF Rename, JobDone
  <2>3. TypeOK'
    BY <1>1, <2>1, <2>2 DEF TypeOK, ram, bounds, NoWrite
  <2>4. ReadsWhatWasTold'
    BY <1>1, <2>1, <2>2, StorageAssumption
       DEF IInv, TypeOK, ReadsWhatWasTold, Latest, Deleting, Stored, ram
  <2>5. FlushInv'
    BY <1>1, <2>1, <2>2
       DEF IInv, TypeOK, FlushInv, Deleting, NoneQueued, NoJob, ram, loop
  <2> QED
    BY <2>3, <2>4, <2>5 DEF IInv
<1>3. CASE job.file = "source"
  <2>1. (\A n \in Scripts : ~Deleting(n)) /\ phase # "boot" /\ job.name \in Scripts
        /\ after \in [op: {"save"}, name: Scripts, source: Sources] /\ NoneQueued
    BY <1>1, <1>3, JobFacts
  <2>2. storeFile' = storeFile /\ srcFile' = [srcFile EXCEPT ![job.name] = after.source]
        /\ queue' = queue /\ after' = Nothing /\ job' = NoJob
    BY <1>3 DEF Rename, JobDone
  <2>3. TypeOK'
    BY <1>1, <2>1, <2>2 DEF TypeOK, ram, bounds, NoWrite
  <2>4. ReadsWhatWasTold'
    BY <1>1, <2>1, <2>2
       DEF IInv, ReadsWhatWasTold, Latest, Deleting, Stored, ram, Nothing
  <2>5. FlushInv'
    BY <1>1, <2>1, <2>2
       DEF IInv, FlushInv, Deleting, NoneQueued, NoJob, Nothing, ram, loop
  <2> QED
    BY <2>3, <2>4, <2>5 DEF IInv
<1> QED
  BY <1>1, <1>2, <1>3, JobFacts

LEMMA WriteFailsKeeps ==
  ASSUME IInv, WriteFails
  PROVE  IInv'
<1>1. TypeOK /\ job # NoJob
      /\ UNCHANGED <<told, installed, mem, parked, flash, loop, bounds>>
  BY DEF IInv, WriteFails, NoJob
<1>2. CASE job.file = "store"
  <2> DEFINE s == job.name
  <2>1. s \in Scripts /\ job.data \in Store /\ queue[s] = job.data /\ dirty[s] = NoStore
        /\ after.op \in Flushes /\ (\A n \in Scripts : ~Deleting(n)) /\ phase # "boot"
    BY <1>1, <1>2, JobFacts
  <2>2. dirty' = [dirty EXCEPT ![s] = job.data]
        /\ queue' = [queue EXCEPT ![s] = NoStore] /\ after' = after /\ job' = NoJob
    BY <1>2 DEF WriteFails, JobDone
  <2>3. TypeOK'
    BY <1>1, <2>1, <2>2 DEF TypeOK, flash, bounds, NoWrite
  <2>4. ReadsWhatWasTold'
    BY <1>1, <2>1, <2>2, StorageAssumption
       DEF IInv, TypeOK, ReadsWhatWasTold, Latest, Deleting, Stored, flash
  <2>5. FlushInv'
    BY <1>1, <2>1, <2>2
       DEF IInv, TypeOK, FlushInv, Deleting, NoneQueued, NoJob, loop
  <2> QED
    BY <2>3, <2>4, <2>5 DEF IInv
<1>3. CASE job.file = "source"
  <2>1. (\A n \in Scripts : ~Deleting(n)) /\ phase # "boot" /\ NoneQueued
    BY <1>1, <1>3, JobFacts
  <2>2. dirty' = dirty /\ queue' = queue /\ after' = Nothing /\ job' = NoJob
    BY <1>3 DEF WriteFails, JobDone
  <2>3. TypeOK'
    BY <1>1, <2>1, <2>2 DEF TypeOK, flash, bounds, NoWrite
  <2>4. ReadsWhatWasTold'
    BY <1>1, <2>1, <2>2
       DEF IInv, ReadsWhatWasTold, Latest, Deleting, Stored, flash, Nothing
  <2>5. FlushInv'
    BY <1>1, <2>1, <2>2
       DEF IInv, FlushInv, Deleting, NoneQueued, NoJob, Nothing, loop
  <2> QED
    BY <2>3, <2>4, <2>5 DEF IInv
<1> QED
  BY <1>1, <1>2, <1>3, JobFacts

LEMMA FlushEndsKeeps ==
  ASSUME IInv, FlushEnds
  PROVE  IInv'
<1>1. TypeOK /\ job = NoJob /\ NoneQueued /\ after.op \in Flushes /\ after' = Nothing
      /\ UNCHANGED <<told, ram, flash, queue, job, loop, bounds>>
  BY DEF IInv, FlushEnds, NoneQueued, Flushes
<1>2. TypeOK'
  BY <1>1 DEF TypeOK, ram, flash, bounds, NoWrite
<1>3. \A n \in Scripts : ~Deleting(n) /\ ~Deleting(n)'
  BY <1>1 DEF Deleting, Flushes, Nothing
<1>4. ReadsWhatWasTold'
  BY <1>1, <1>3 DEF IInv, ReadsWhatWasTold, Latest, Stored, ram, flash
<1>5. FlushInv'
  BY <1>1, <1>3
     DEF IInv, FlushInv, NoneQueued, NoJob, Nothing, Idle, ram, loop
<1> QED
  BY <1>2, <1>4, <1>5 DEF IInv

\* Restarts -----------------------------------------------------------------

LEMMA RestartKeeps ==
  ASSUME IInv, Restart
  PROVE  IInv'
<1>1. TypeOK' /\ NoneQueued' /\ after' = Nothing /\ job' = NoJob /\ dirty' = NoEntries
      /\ told' = storeFile /\ storeFile' = storeFile
  BY DEF IInv, TypeOK, Restart, flash, NoneQueued, NoEntries
<1>2. \A n \in Scripts : ~Deleting(n)'
  BY <1>1 DEF Deleting, Nothing
<1>3. storeFile \in Maps
  BY DEF IInv, TypeOK, Maps
<1>4. ReadsWhatWasTold'
  BY <1>1, <1>2, <1>3
     DEF ReadsWhatWasTold, Latest, Stored, NoneQueued, NoEntries, Maps
<1>5. FlushInv'
  BY <1>1, <1>2 DEF FlushInv, NoneQueued, NoJob, Idle, Nothing
<1> QED
  BY <1>1, <1>4, <1>5 DEF IInv

LEMMA LoadKeeps ==
  ASSUME IInv, NEW n \in Scripts, NEW h, Load(n, h)
  PROVE  IInv'
<1> DEFINE src == srcFile[n]
<1> DEFINE v == storeFile[n]
<1>1. TypeOK /\ Idle
  BY DEF IInv, FlushInv, Load
<1>2. told = Over(dirty, storeFile) /\ dirty \in Maps /\ storeFile \in Maps
  BY <1>1, IdleLatest
<1>3. src \in Sources \cup {NoSource} /\ v \in Store \cup {NoStore}
  BY <1>1 DEF TypeOK
<1>4. /\ Compiled(n, src, v, h)
      /\ dirty' = DirtyAfter(n, src, v, h, dirty)
      /\ told' = DirtyAfter(n, src, v, h, told)
      /\ UNCHANGED <<flash, flushing, configs>>
  BY DEF Load
<1> HIDE DEF src, v
<1>5. dirty' \in Maps /\ told' = Over(dirty', storeFile)
  BY <1>1, <1>2, <1>3, <1>4, DirtyAfterTold
<1>6. /\ installed' \in [Scripts -> Sources \cup {NoSource}]
      /\ mem' \in [Scripts -> Store \cup {NoStore}]
      /\ parked' \in [owner: Scripts, data: Store] \cup {NoWrite}
      /\ writes' \in Nat
  BY <1>1, <1>3, <1>4, CompiledType
<1>7. told' \in Maps
  BY <1>2, <1>5, OverType
<1>8. TypeOK'
  BY <1>1, <1>4, <1>5, <1>6, <1>7 DEF flash, flushing, TypeOK, Maps, NoWrite
<1>9. UNCHANGED storeFile
  BY <1>4 DEF flash
<1> QED
  BY <1>1, <1>4, <1>5, <1>8, <1>9, TellKeeps

LEMMA LoadRefusedKeeps ==
  ASSUME IInv, NEW n \in Scripts, LoadRefused(n)
  PROVE  IInv'
<1>1. UNCHANGED <<told, ram, flash, flushing, bounds>> /\ TypeOK /\ Idle
  BY DEF LoadRefused, IInv, FlushInv
<1>2. TypeOK'
  BY <1>1 DEF TypeOK, ram, flash, flushing, bounds, NoWrite
<1> QED
  BY <1>1, <1>2, QuietKeeps DEF ram, flash

-----------------------------------------------------------------------------

\* Every step keeps the stores in order.
LEMMA Keeps == IInv /\ [Next]_vars => IInv'
<1> SUFFICES ASSUME IInv, [Next]_vars
             PROVE  IInv'
  OBVIOUS
<1>1. CASE Commands
  <2> SUFFICES ASSUME NEW n \in Scripts,
                      \/ \E src \in Sources : (\E h \in Hooks : Upload(n, src, h))
                                              \/ UploadRefused(n, src)
                      \/ \E h \in Hooks : Configure(n, h) \/ Hook(n, h)
                      \/ Delete(n)
               PROVE  IInv'
    BY <1>1 DEF Commands
  <2> QED
    BY UploadKeeps, UploadRefusedKeeps, ConfigureKeeps, HookKeeps, DeleteKeeps
<1>2. CASE Flashing
  BY <1>2, DropSourceKeeps, DropStoreKeeps, PickKeeps, FillTmpKeeps, RenameKeeps,
     WriteFailsKeeps, FlushEndsKeeps, RestartKeeps DEF Flashing, RebootNow
<1>3. CASE Looping
  <2>1. CASE ScriptsTurn
    BY <2>1, ScriptsTurnKeeps
  <2>2. CASE \E pages \in SUBSET {n \in Scripts : installed[n] # NoSource} :
               Cardinality(pages) <= 2 /\ StoreTurn(pages)
    BY <2>2, StoreTurnKeeps
  <2>3. CASE \E n \in Scripts, h \in Hooks : Draw(n, h)
    BY <2>3, DrawKeeps
  <2>4. CASE LoopEnd \/ Booted
    BY <2>4, LoopEndKeeps
  <2>5. CASE \E n \in Scripts : (\E h \in Hooks : Load(n, h)) \/ LoadRefused(n)
    BY <2>5, LoadKeeps, LoadRefusedKeeps
  <2> QED
    BY <1>3, <2>1, <2>2, <2>3, <2>4, <2>5 DEF Looping
<1>4. CASE Reboot
  BY <1>4, RebootKeeps
<1>5. CASE PowerCut
  BY <1>5, RestartKeeps DEF PowerCut
<1>6. CASE UNCHANGED vars
  <2>1. UNCHANGED <<ram, flash, flushing, loop, told, bounds>>
    BY <1>6 DEF vars
  <2> QED
    BY <2>1 DEF ram, flash, flushing, loop, bounds, IInv, TypeOK, FlushInv,
         ReadsWhatWasTold, Latest, Deleting, Stored, NoneQueued, Idle, NoWrite, Waiting
<1> QED
  BY <1>1, <1>2, <1>3, <1>4, <1>5, <1>6 DEF Next

\* The inductive invariant of the store and its flush, for any scripts.
THEOREM Invariance == Spec => []IInv
<1>1. Init => IInv
  BY Starts
<1>2. IInv /\ [Next]_vars => IInv'
  BY Keeps
<1> QED
  BY <1>1, <1>2, PTL DEF Spec

\* readStore() answers what was handed in last, through every flush that is
\* half done or failed, so no upload starts from an older store.
THEOREM ReadsCorrect == Spec => []ReadsWhatWasTold
<1>1. IInv => ReadsWhatWasTold
  BY DEF IInv
<1> QED
  BY <1>1, Invariance, PTL

-----------------------------------------------------------------------------
(* The loss window *)

\* A write that waits has waited no longer than the interval has run: tick()
\* restarts the interval only when nothing waits or a flush takes it all.
LossInv ==
  /\ age \in Nat /\ since \in 0..FlushInterval
  /\ age <= since
  /\ phase = "scripts" => parked = NoWrite
  /\ age > 0 => Waiting \/ after.op \in {"dropSource", "dropStore", "reboot"}
  /\ after.op = "tick" => age = 0
  /\ phase = "draw" => since < FlushInterval \/ age = 0

\* Draining loses nothing that waits.
LEMMA DrainedWaits ==
  ASSUME NEW p \in [owner: Scripts, data: Store] \cup {NoWrite}, NEW d \in Maps,
         p # NoWrite \/ d # NoEntries
  PROVE  Drained(p, d) # NoEntries
<1>1. CASE p = NoWrite
  BY <1>1 DEF Drained
<1>2. CASE p # NoWrite
  <2>1. p.owner \in Scripts /\ p.data \in Store
    BY <1>2
  <2>2. Drained(p, d)[p.owner] = p.data /\ p.data # NoStore
    BY <1>2, <2>1, StorageAssumption DEF Drained, Maps
  <2> QED
    BY <2>1, <2>2 DEF NoEntries
<1> QED
  BY <1>1, <1>2

LEMMA PutWaits ==
  ASSUME NEW d \in Maps, NEW n \in Scripts, NEW v \in Store
  PROVE  [d EXCEPT ![n] = v] # NoEntries
<1>1. [d EXCEPT ![n] = v][n] = v /\ v # NoStore
  BY StorageAssumption DEF Maps
<1> QED
  BY <1>1 DEF NoEntries

\* A step that takes no time and lets what waits wait.
LEMMA WaitsOn ==
  ASSUME LossInv, UNCHANGED <<age, since>>,
         Waiting => Waiting' \/ after'.op \in {"dropSource", "dropStore", "reboot"},
         after.op \in {"dropSource", "dropStore", "reboot"} =>
           after'.op \in {"dropSource", "dropStore", "reboot"},
         after'.op = "tick" => after.op = "tick",
         phase' = phase,
         phase = "scripts" => parked' = NoWrite
  PROVE  LossInv'
  BY DEF LossInv

\* Starting a flush of all that is dirty.
LEMMA WindowClosed ==
  ASSUME age' = 0, since' = since, LossInv, phase' # "scripts" \/ parked' = NoWrite
  PROVE  LossInv'
  BY DEF LossInv

LEMMA CommandsKeepLoss ==
  ASSUME IInv, LossInv, NEW n \in Scripts,
         \/ \E src \in Sources : (\E h \in Hooks : Upload(n, src, h))
                                 \/ UploadRefused(n, src)
         \/ \E h \in Hooks : Configure(n, h) \/ Hook(n, h)
         \/ Delete(n)
  PROVE  LossInv'
<1> USE StorageAssumption
<1>1. TypeOK /\ dirty \in Maps /\ NoEntries = [k \in Scripts |-> NoStore]
      /\ parked \in [owner: Scripts, data: Store] \cup {NoWrite}
  BY DEF IInv, TypeOK, Maps, NoEntries
<1>2. ASSUME NEW src \in Sources, NEW h \in Hooks, Upload(n, src, h)
      PROVE  LossInv'
  BY <1>2, WindowClosed DEF Upload, Compiled, loop
<1>3. ASSUME NEW src \in Sources, UploadRefused(n, src)
      PROVE  LossInv'
  <2>1. dirty # NoEntries => WithKept(n, src, dirty) # NoEntries
    BY <1>1, KeptType, PutWaits DEF WithKept
  <2>2. Waiting => Waiting'
    BY <1>1, <1>3, <2>1 DEF UploadRefused, Waiting
  <2> QED
    BY <1>3, <2>2, WaitsOn DEF UploadRefused, flushing, loop
<1>4. ASSUME NEW h \in Hooks, Configure(n, h)
      PROVE  LossInv'
  <2> DEFINE patch == [MapOf(Stored(n)) EXCEPT !.cfg = Default + configs + 1]
             d == DirtyAfter(n, srcFile[n], patch, h, dirty)
  <2>1. patch \in Store
    <3>1. MapOf(Stored(n)) \in Store
      BY <1>1, MapOfType DEF TypeOK, Stored
    <3> QED
      BY <1>1, <3>1 DEF TypeOK, Store, Default
  <2>2. d \in Maps
    BY <1>1, <2>1, SeedType, ParkedAfterType, DrainedType DEF DirtyAfter
  <2>3. dirty' = [d EXCEPT ![n] = patch]
    BY <1>4 DEF Configure
  <2> HIDE DEF d, patch
  <2>4. Waiting'
    BY <1>1, <2>1, <2>2, <2>3, PutWaits DEF Waiting
  <2> QED
    BY <1>4, <2>4, WaitsOn DEF Configure, flushing, loop, Idle, Compiled
<1>5. ASSUME NEW h \in Hooks, Hook(n, h)
      PROVE  LossInv'
  <2>1. ParkedAfter(n, mem[n], h) \in [owner: Scripts, data: Store] \cup {NoWrite}
    BY <1>1, ParkedAfterType DEF TypeOK
  <2>2. parked # NoWrite => ParkedAfter(n, mem[n], h) # NoWrite
    BY <1>1, <2>1 DEF ParkedAfter, NoWrite
  <2>3. Waiting => Waiting'
    BY <1>1, <1>5, <2>1, <2>2, DrainedWaits DEF Hook, Waiting
  <2> QED
    BY <1>5, <2>3, WaitsOn DEF Hook, flushing, loop
<1>6. ASSUME Delete(n)
      PROVE  LossInv'
  BY <1>6, WaitsOn DEF Delete, loop
<1> QED
  BY <1>2, <1>3, <1>4, <1>5, <1>6

LEMMA FlashingKeepsLoss ==
  ASSUME IInv, LossInv, Flashing
  PROVE  LossInv'
<1> USE StorageAssumption
<1>1. TypeOK /\ FlushInv /\ dirty \in Maps /\ NoEntries = [k \in Scripts |-> NoStore]
  BY DEF IInv, TypeOK, Maps, NoEntries
<1>2. CASE DropSource
  BY <1>2, WaitsOn DEF DropSource, ram, loop, Waiting, LossInv
<1>3. CASE DropStore
  BY <1>3 DEF DropStore, StartFlush, loop, Waiting, LossInv
<1>4. CASE (\E n \in Scripts : PickStore(n)) \/ PickSource
           \/ \E whole \in BOOLEAN : FillTmp(whole)
  BY <1>4, WaitsOn DEF PickStore, PickSource, FillTmp, ram, loop, Waiting, LossInv
<1>5. CASE Rename
  <2>1. after' = after \/ (after.op = "save" /\ after' = Nothing)
    <3>1. CASE job.file = "source"
      BY <1>1, <1>5, <3>1 DEF Rename, JobDone, FlushInv
    <3>2. CASE job.file # "source"
      BY <1>5, <3>2 DEF Rename, JobDone
    <3> QED
      BY <3>1, <3>2
  <2> QED
    BY <1>5, <2>1, WaitsOn DEF Rename, ram, loop, Waiting, LossInv, Nothing
<1>6. CASE WriteFails
  <2>1. after' = after \/ (after.op = "save" /\ after' = Nothing)
    <3>1. CASE job.file = "source"
      BY <1>1, <1>6, <3>1 DEF WriteFails, JobDone, FlushInv
    <3>2. CASE job.file # "source"
      BY <1>6, <3>2 DEF WriteFails, JobDone
    <3> QED
      BY <3>1, <3>2
  <2>2. Waiting => Waiting'
    <3>1. CASE job.file = "store"
      <4>1. job.name \in Scripts /\ job.data \in Store
        BY <1>1, <3>1 DEF TypeOK, NoJob
      <4> QED
        BY <1>1, <1>6, <3>1, <4>1, PutWaits DEF WriteFails, Waiting
    <3>2. CASE job.file # "store"
      BY <1>6, <3>2 DEF WriteFails, Waiting
    <3> QED
      BY <3>1, <3>2
  <2> QED
    BY <1>6, <2>1, <2>2, WaitsOn DEF WriteFails, loop, LossInv, Nothing
<1>7. CASE FlushEnds
  BY <1>7 DEF FlushEnds, ram, loop, Waiting, LossInv, Nothing
<1>8. CASE RebootNow
  BY <1>8 DEF RebootNow, Restart, LossInv, Nothing
<1> QED
  BY <1>2, <1>3, <1>4, <1>5, <1>6, <1>7, <1>8 DEF Flashing

LEMMA LoopingKeepsLoss ==
  ASSUME IInv, LossInv, Looping
  PROVE  LossInv'
<1> USE StorageAssumption
<1>1. TypeOK /\ dirty \in Maps /\ NoEntries = [k \in Scripts |-> NoStore]
      /\ parked \in [owner: Scripts, data: Store] \cup {NoWrite}
  BY DEF IInv, TypeOK, Maps, NoEntries
<1>2. CASE ScriptsTurn
  <2>1. Waiting => Waiting'
    BY <1>1, <1>2, DrainedWaits DEF ScriptsTurn, Waiting
  <2> QED
    BY <1>2, <2>1 DEF ScriptsTurn, LossInv, flushing
<1>3. ASSUME NEW pages, StoreTurn(pages)
      PROVE  LossInv'
  <2>1. parked = NoWrite /\ phase = "scripts" /\ Idle
    BY <1>3 DEF StoreTurn, LossInv
  <2>2. CASE dirty = NoEntries
    <3>1. age = 0
      BY <1>1, <2>1, <2>2 DEF LossInv, Waiting, Idle, Nothing
    <3> QED
      BY <1>1, <1>3, <2>1, <2>2, <3>1 DEF StoreTurn, LossInv, flushing, Idle, Nothing
  <2>3. CASE dirty # NoEntries /\ since >= FlushInterval
    BY <1>1, <1>3, <2>3 DEF StoreTurn, StartFlush, LossInv
  <2>4. CASE dirty # NoEntries /\ ~(since >= FlushInterval)
    BY <1>1, <1>3, <2>1, <2>4 DEF StoreTurn, LossInv, flushing, Waiting
  <2> QED
    BY <2>2, <2>3, <2>4
<1>4. ASSUME NEW n \in Scripts, NEW h \in Hooks, Draw(n, h)
      PROVE  LossInv'
  <2>1. Waiting => Waiting'
    <3>1. ParkedAfter(n, mem[n], h) = parked
          \/ ParkedAfter(n, mem[n], h).owner \in Scripts
      BY DEF ParkedAfter
    <3> QED
      BY <1>4, <3>1 DEF Draw, Waiting, NoWrite
  <2> QED
    BY <1>4, <2>1, WaitsOn DEF Draw, flushing
<1>5. CASE LoopEnd
  BY <1>5 DEF LoopEnd, LossInv, Waiting, ram, flushing, Idle, Nothing, AgeCap
<1>6. ASSUME NEW n \in Scripts, NEW h \in Hooks, Load(n, h)
      PROVE  LossInv'
  <2> DEFINE v == Seed(srcFile[n], storeFile[n])
  <2>1. v \in Store \cup {NoStore}
    BY <1>1, SeedType DEF TypeOK
  <2> HIDE DEF v
  <2>2. ParkedAfter(n, v, h) \in [owner: Scripts, data: Store] \cup {NoWrite}
    BY <1>1, <2>1, ParkedAfterType
  <2>3. parked # NoWrite => ParkedAfter(n, v, h) # NoWrite
    BY <1>1 DEF ParkedAfter, NoWrite
  <2>4. dirty' = Drained(ParkedAfter(n, v, h), dirty)
    BY <1>6 DEF Load, DirtyAfter, v
  <2>5. Waiting => Waiting'
    BY <1>1, <2>2, <2>3, <2>4, DrainedWaits DEF Waiting
  <2> QED
    BY <1>6, <2>5, WaitsOn DEF Load, Compiled, flushing
<1>7. ASSUME NEW n \in Scripts, LoadRefused(n)
      PROVE  LossInv'
  BY <1>7, WaitsOn DEF LoadRefused, ram, flushing, Waiting, LossInv
<1>8. CASE Booted
  BY <1>8 DEF Booted, LossInv, ram, flushing, Waiting
<1> QED
  BY <1>2, <1>3, <1>4, <1>5, <1>6, <1>7, <1>8 DEF Looping

\* Every step keeps a waiting write within the interval.
LEMMA LossKeeps == IInv /\ LossInv /\ [Next]_vars => LossInv'
<1> SUFFICES ASSUME IInv, LossInv, [Next]_vars
             PROVE  LossInv'
  OBVIOUS
<1>1. CASE Commands
  BY <1>1, CommandsKeepLoss DEF Commands
<1>2. CASE Flashing
  BY <1>2, FlashingKeepsLoss
<1>3. CASE Looping
  BY <1>3, LoopingKeepsLoss
<1>4. CASE Reboot
  BY <1>4 DEF Reboot, StartFlush, LossInv, loop
<1>5. CASE PowerCut
  BY <1>5, StorageAssumption DEF PowerCut, Restart, LossInv, Nothing
<1>6. CASE UNCHANGED vars
  BY <1>6 DEF vars, ram, flushing, loop, LossInv, Waiting
<1> QED
  BY <1>1, <1>2, <1>3, <1>4, <1>5, <1>6 DEF Next

\* No write waits in RAM for longer than the interval, however often scripts
\* write, whatever fails and whenever the user steps in (ScriptStore.cpp: tick).
THEOREM LossBounded == Spec => []LossWindow
<1>1. Init => LossInv
  BY StorageAssumption DEF Init, LossInv, Nothing
<1>2. LossInv => LossWindow
  BY StorageAssumption DEF LossInv, LossWindow
<1> QED
  BY <1>1, <1>2, LossKeeps, Invariance, PTL DEF Spec

-----------------------------------------------------------------------------
(* What runs is what is stored *)

\* The only running script that flash does not have is the one whose save is
\* under way; one that is being deleted does not run.
RunsInv ==
  /\ fails \in Nat
  /\ job.file = "source" => job.name = after.name
  /\ fails = 0 =>
       /\ job.tmp # "short"
       /\ after.op = "dropSource" => installed[after.name] = NoSource
       /\ \A n \in Scripts : installed[n] # NoSource =>
            installed[n] = IF after.op = "save" /\ after.name = n
                           THEN after.source ELSE srcFile[n]

\* A step that neither installs nor writes a source.
LEMMA RunsOn ==
  ASSUME RunsInv, UNCHANGED <<installed, srcFile, after, fails>>,
         job' = job \/ job' = NoJob
  PROVE  RunsInv'
  BY DEF RunsInv, NoJob

LEMMA CommandsKeepRuns ==
  ASSUME IInv, RunsInv, NEW n \in Scripts,
         \/ \E src \in Sources : (\E h \in Hooks : Upload(n, src, h))
                                 \/ UploadRefused(n, src)
         \/ \E h \in Hooks : Configure(n, h) \/ Hook(n, h)
         \/ Delete(n)
  PROVE  RunsInv'
<1>1. TypeOK
  BY DEF IInv
<1>2. ASSUME NEW src \in Sources, NEW h \in Hooks, Upload(n, src, h)
      PROVE  RunsInv'
  BY <1>1, <1>2 DEF Upload, Compiled, StartFlush, Idle, Nothing, NoJob, flash, RunsInv,
     TypeOK
<1>3. ASSUME NEW src \in Sources, UploadRefused(n, src)
      PROVE  RunsInv'
  BY <1>3, RunsOn DEF UploadRefused, flash, flushing
<1>4. ASSUME NEW h \in Hooks, Configure(n, h)
      PROVE  RunsInv'
  BY <1>1, <1>4 DEF Configure, Compiled, Idle, Nothing, NoJob, flash, flushing, RunsInv,
     TypeOK
<1>5. ASSUME NEW h \in Hooks, Hook(n, h)
      PROVE  RunsInv'
  BY <1>5, RunsOn DEF Hook, flash, flushing
<1>6. ASSUME Delete(n)
      PROVE  RunsInv'
  BY <1>1, <1>6 DEF Delete, Idle, Nothing, NoJob, flash, bounds, RunsInv, TypeOK
<1> QED
  BY <1>2, <1>3, <1>4, <1>5, <1>6

LEMMA FlashingKeepsRuns ==
  ASSUME IInv, RunsInv, Flashing
  PROVE  RunsInv'
<1> USE StorageAssumption
<1>1. TypeOK /\ FlushInv
  BY DEF IInv
<1>2. CASE DropSource
  <2>1. after.name \in Scripts
    BY <1>1, <1>2 DEF DropSource, TypeOK, Nothing
  <2>2. job = NoJob
    BY <1>1, <1>2 DEF DropSource, FlushInv, Flushes
  <2> QED
    BY <1>1, <1>2, <2>1, <2>2 DEF DropSource, ram, bounds, RunsInv, TypeOK, NoJob
<1>3. CASE DropStore
  <2>1. job = NoJob
    BY <1>1, <1>3 DEF DropStore, FlushInv, Flushes
  <2> QED
    BY <1>3, <2>1 DEF DropStore, StartFlush, bounds, RunsInv, NoJob
<1>4. CASE (\E n \in Scripts : PickStore(n)) \/ PickSource
  BY <1>4 DEF PickStore, PickSource, ram, flash, bounds, RunsInv
<1>5. ASSUME NEW whole \in BOOLEAN, FillTmp(whole)
      PROVE  RunsInv'
  <2>1. job'.file = job.file /\ job'.name = job.name
        /\ job'.tmp = IF whole THEN "whole" ELSE "short"
    BY <1>1, <1>5 DEF FillTmp, TypeOK, NoJob
  <2> QED
    BY <1>5, <2>1 DEF FillTmp, ram, flash, RunsInv
<1>6. CASE Rename
  <2>1. UNCHANGED <<installed, fails>> /\ job' = NoJob
    BY <1>6 DEF Rename, JobDone, ram, bounds
  <2>2. CASE job.file = "source"
    <3>1. after.op = "save" /\ after.name = job.name /\ after.name \in Scripts
      BY <1>1, <2>2 DEF FlushInv, RunsInv, TypeOK, NoJob
    <3>2. srcFile' = [srcFile EXCEPT ![after.name] = after.source] /\ after' = Nothing
      BY <1>6, <2>2, <3>1 DEF Rename, JobDone
    <3>3. srcFile'[after.name] = after.source
          /\ \A n \in Scripts \ {after.name} : srcFile'[n] = srcFile[n]
      BY <1>1, <3>1, <3>2 DEF TypeOK
    <3>4. after'.op = "none" /\ job'.tmp = "none" /\ job'.file = "none"
      BY <2>1, <3>2 DEF Nothing, NoJob
    <3>5. ASSUME NEW n \in Scripts, fails = 0, installed[n] # NoSource
          PROVE  installed[n] = srcFile'[n]
      <4>1. CASE n = after.name
        <5>1. after.source = installed[n]
          BY <3>1, <3>5, <4>1 DEF RunsInv
        <5> QED
          BY <5>1, <4>1, <3>3
      <4>2. CASE n # after.name
        BY <4>2, <3>3, <3>5 DEF RunsInv
      <4> QED
        BY <4>1, <4>2
    <3> QED
      BY <2>1, <3>4, <3>5 DEF RunsInv
  <2>3. CASE job.file # "source"
    <3>1. UNCHANGED <<srcFile, after>>
      BY <1>6, <2>3 DEF Rename, JobDone
    <3> QED
      BY <2>1, <3>1, RunsOn
  <2> QED
    BY <2>2, <2>3
<1>7. CASE WriteFails
  BY <1>7 DEF WriteFails, JobDone, flash, bounds, RunsInv, NoJob, Nothing
<1>8. CASE FlushEnds
  BY <1>8 DEF FlushEnds, ram, flash, bounds, RunsInv, Nothing, NoJob
<1>9. CASE RebootNow
  BY <1>9 DEF RebootNow, Restart, flash, RunsInv, Nothing, NoJob
<1> QED
  BY <1>2, <1>3, <1>4, <1>5, <1>6, <1>7, <1>8, <1>9 DEF Flashing

LEMMA LoopingKeepsRuns ==
  ASSUME IInv, RunsInv, Looping
  PROVE  RunsInv'
<1>1. CASE ScriptsTurn \/ (\E pages : StoreTurn(pages))
           \/ (\E n \in Scripts, h \in Hooks : Draw(n, h)) \/ LoopEnd \/ Booted
  <2>1. UNCHANGED <<installed, srcFile, fails>>
    BY <1>1 DEF ScriptsTurn, StoreTurn, Draw, LoopEnd, Booted, ram, flash, bounds
  <2>2. UNCHANGED <<job, after>>
        \/ (job' = NoJob /\ after.op = "none" /\ after'.op = "tick")
    <3>1. ASSUME NEW pages, StoreTurn(pages)
          PROVE  UNCHANGED <<job, after>>
                 \/ (job' = NoJob /\ after.op = "none" /\ after'.op = "tick")
      BY <3>1 DEF StoreTurn, StartFlush, flushing, Idle, Nothing
    <3>2. CASE ScriptsTurn \/ (\E n \in Scripts, h \in Hooks : Draw(n, h))
               \/ LoopEnd \/ Booted
      BY <3>2 DEF ScriptsTurn, Draw, LoopEnd, Booted, flushing
    <3> QED
      BY <1>1, <3>1, <3>2
  <2> QED
    BY <2>1, <2>2 DEF RunsInv, NoJob
<1>2. ASSUME NEW n \in Scripts, NEW h \in Hooks, Load(n, h)
      PROVE  RunsInv'
  <2>1. installed' = [installed EXCEPT ![n] = srcFile[n]]
        /\ UNCHANGED <<srcFile, after, job, fails>>
    BY <1>2 DEF Load, Compiled, flash, flushing
  <2>2. after = Nothing
    BY <1>2 DEF IInv, FlushInv, Load, Idle
  <2>3. installed'[n] = srcFile[n]
        /\ \A k \in Scripts \ {n} : installed'[k] = installed[k]
    BY <2>1 DEF IInv, TypeOK
  <2> QED
    BY <2>1, <2>2, <2>3 DEF RunsInv, Nothing
<1>3. ASSUME NEW n \in Scripts, LoadRefused(n)
      PROVE  RunsInv'
  BY <1>3, RunsOn DEF LoadRefused, ram, flash, flushing, bounds
<1> QED
  BY <1>1, <1>2, <1>3 DEF Looping

\* Every step leaves what runs stored, or its save under way.
LEMMA RunsKeeps == IInv /\ RunsInv /\ [Next]_vars => RunsInv'
<1> SUFFICES ASSUME IInv, RunsInv, [Next]_vars
             PROVE  RunsInv'
  OBVIOUS
<1>1. CASE Commands
  BY <1>1, CommandsKeepRuns DEF Commands
<1>2. CASE Flashing
  BY <1>2, FlashingKeepsRuns
<1>3. CASE Looping
  BY <1>3, LoopingKeepsRuns
<1>4. CASE Reboot
  BY <1>4 DEF Reboot, StartFlush, Idle, Nothing, NoJob, flash, bounds, RunsInv
<1>5. CASE PowerCut
  BY <1>5 DEF PowerCut, Restart, flash, RunsInv, Nothing, NoJob
<1>6. CASE UNCHANGED vars
  BY <1>6, RunsOn DEF vars, ram, flash, flushing, bounds
<1> QED
  BY <1>1, <1>2, <1>3, <1>4, <1>5, <1>6 DEF Next

\* As long as flash has not failed, a restart between two calls would load just
\* what runs: uploads, refusals, settings and deletions leave nothing behind
\* (ScriptService.h: setScript, removeScript).
THEOREM RunsCorrect == Spec => []RunsWhatIsStored
<1>1. Init => RunsInv
  BY DEF Init, RunsInv, Nothing, NoJob
<1>2. RunsInv => RunsWhatIsStored
  BY DEF RunsInv, RunsWhatIsStored, Idle, Nothing
<1> QED
  BY <1>1, <1>2, RunsKeeps, Invariance, PTL DEF Spec

-----------------------------------------------------------------------------
(* Refinement *)

\* A step that leaves the store files alone and is no restart only tells.
LEMMA PutStep ==
  ASSUME IInv', UNCHANGED storeFile
  PROVE  Storage!Put
  BY DEF IInv, TypeOK, Storage!Put

LEMMA Steps ==
  IInv /\ IInv' /\ [Next]_vars => [Storage!WriteBackNext]_(Storage!wvars)
<1> SUFFICES ASSUME IInv, IInv', [Next]_vars
             PROVE  Storage!WriteBackNext
  OBVIOUS
<1>1. CASE UNCHANGED storeFile
  BY <1>1, PutStep DEF Storage!WriteBackNext
<1>2. CASE DropStore
  <2> DEFINE s == after.name
  <2>1. s \in Scripts /\ Deleting(s) /\ told' = told
        /\ storeFile' = [storeFile EXCEPT ![s] = NoStore]
    BY <1>2 DEF IInv, TypeOK, DropStore, Deleting, Nothing
  <2>2. told[s] = NoStore
    BY <2>1 DEF IInv, ReadsWhatWasTold, Latest
  <2>3. Storage!Save(s)
    BY <2>1, <2>2 DEF Storage!Save
  <2> QED
    BY <2>1, <2>3 DEF Storage!WriteBackNext
<1>3. CASE Rename /\ job.file = "store"
  <2> DEFINE s == job.name
  <2>1. s \in Scripts /\ job.data \in Store /\ queue[s] = job.data /\ ~Deleting(s)
    BY <1>3, JobFacts DEF Rename, NoJob
  <2>2. told[s] = job.data
    BY <2>1, StorageAssumption DEF IInv, ReadsWhatWasTold, Latest
  <2>3. told' = told /\ storeFile' = [storeFile EXCEPT ![s] = job.data]
    BY <1>3 DEF Rename
  <2>4. Storage!Save(s)
    BY <2>2, <2>3 DEF Storage!Save
  <2> QED
    BY <2>1, <2>4 DEF Storage!WriteBackNext
<1>4. Rename /\ job.file # "store" => UNCHANGED storeFile
  BY DEF Rename
<1>5. Commands \/ Looping \/ Reboot \/ PowerCut \/ UNCHANGED vars => UNCHANGED storeFile
  <2>1. Commands => UNCHANGED storeFile
    <3>1. \A n \in Scripts, src \in Sources, h \in Hooks :
            Upload(n, src, h) \/ UploadRefused(n, src) => UNCHANGED storeFile
      BY DEF Upload, UploadRefused, flash
    <3>2. \A n \in Scripts, h \in Hooks :
            Configure(n, h) \/ Hook(n, h) \/ Delete(n) => UNCHANGED storeFile
      BY DEF Configure, Hook, Delete, flash
    <3> QED
      BY <3>1, <3>2 DEF Commands, Hooks
  <2>2. Looping => UNCHANGED storeFile
    BY DEF Looping, ScriptsTurn, StoreTurn, Draw, LoopEnd, Load, LoadRefused, Booted, flash
  <2>3. Reboot \/ PowerCut \/ UNCHANGED vars => UNCHANGED storeFile
    BY DEF Reboot, PowerCut, Restart, vars, flash
  <2> QED
    BY <2>1, <2>2, <2>3
<1>6. Flashing => DropStore \/ Rename \/ UNCHANGED storeFile
  BY DEF Flashing, DropSource, PickStore, PickSource, FillTmp, WriteFails, FlushEnds,
     RebootNow, Restart, flash
<1> QED
  BY <1>1, <1>2, <1>3, <1>4, <1>5, <1>6 DEF Next

\* Flash is a write-back copy: a store file only ever changes to the whole map
\* that was handed in last.
THEOREM StorageRefines == Spec => StorageIsWriteBack
<1>1. Init => told = storeFile
  BY DEF Init
<1>2. IInv /\ IInv' /\ [Next]_vars => [Storage!WriteBackNext]_(Storage!wvars)
  BY Steps
<1> QED
  BY <1>1, <1>2, Invariance, PTL DEF Spec, StorageIsWriteBack, Storage!WriteBackSpec

=============================================================================
