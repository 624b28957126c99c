------------------------- MODULE MqttSession_proofs -------------------------
(***************************************************************************)
(* The invariants of the session hold for every set of scripts and filters *)
(* and for every bound.  They need three things more to be inductive:      *)
(* between two turns the queue is empty, a topic marked as sent is the one *)
(* the broker has, and an advert nobody will retract is a forgotten one.   *)
(***************************************************************************)
EXTENDS MqttSession, FiniteSetTheorems, TLAPS

USE SessionAssumption DEF link, broker, state, cadence, ha, scripts, ghosts

\* What the broker may still show under another prefix.
Adverts ==
  /\ ads \ forgotten \subseteq {announced, haPrefix}
  /\ online => ads \ forgotten \subseteq {announced}
  /\ online /\ alive /\ haOn => announced = haPrefix

Shown == OneAdvert /\ Adverts

Told ==
  /\ RetainedIsCurrent
  /\ online /\ alive /\ lastApp # None => kept.app = lastApp

Drained == NothingDropped /\ (phase = "mqtt" => queue = <<>>)

IInv == SessionInv /\ Drained /\ Told /\ Shown

-----------------------------------------------------------------------------
(* Announcing *)

LEMMA AnnounceShows ==
  ASSUME TypeOK, Adverts, NEW on \in BOOLEAN, NEW prefix \in HaPrefixes,
         NEW reaches \in BOOLEAN, Announce(on, prefix, reaches),
         prefix = haPrefix \/ online
  PROVE /\ ads' \subseteq HaPrefixes /\ forgotten' \subseteq HaPrefixes
        /\ announced' \in HaPrefixes \cup {None}
        /\ ads' \ forgotten' \subseteq {announced'} \/ (~reaches /\ ~online)
        /\ on /\ reaches => announced' = prefix
        /\ reaches => ads' \ forgotten' = IF on THEN {prefix} ELSE {}
  BY DEF Announce, Retracted, TypeOK, Adverts

LEMMA ShownKeeps == TypeOK /\ Shown /\ [Next]_vars => Shown'
<1> SUFFICES ASSUME TypeOK, Shown, [Next]_vars PROVE Shown'
  OBVIOUS
<1> USE DEF Shown, OneAdvert, Adverts
<1>1. CASE Connect
  <2>1. haOn \in BOOLEAN /\ haPrefix \in HaPrefixes
    BY DEF TypeOK
  <2>2. Announce(haOn, haPrefix, TRUE) /\ haOn' = haOn /\ haPrefix' = haPrefix
    BY <1>1 DEF Connect
  <2> QED
    BY <2>1, <2>2, AnnounceShows
<1>2. ASSUME NEW on \in BOOLEAN, NEW prefix \in HaPrefixes, ConfigureHa(on, prefix)
      PROVE Shown'
  <2>1. haOn' = on /\ haPrefix' = prefix /\ online' = online /\ alive' = alive
    BY <1>2 DEF ConfigureHa
  <2>2. CASE online
    <3>1. Announce(on, prefix, alive) /\ alive \in BOOLEAN
      BY <1>2, <2>2 DEF ConfigureHa, TypeOK
    <3> QED
      BY <2>1, <2>2, <3>1, AnnounceShows
  <2>3. CASE ~online
    BY <1>2, <2>1, <2>3 DEF ConfigureHa
  <2> QED
    BY <2>2, <2>3
<1>3. CASE Restart
  BY <1>3 DEF Restart, Retracted, TypeOK
<1>4. CASE Notice \/ Break
  BY <1>4 DEF Notice, Break
<1>5. CASE UNCHANGED <<online, alive, ads, ha, forgotten>>
  BY <1>5
<1>6. \/ Connect \/ Restart \/ Notice \/ Break
      \/ \E on \in BOOLEAN, prefix \in HaPrefixes : ConfigureHa(on, prefix)
      \/ UNCHANGED <<online, alive, ads, ha, forgotten>>
  BY DEF Next, Loop, Users, Network, vars, Unreachable, NothingIn, Receive, Offer,
     Publish, RunScripts, Pass, ChangeSettings, ShowApp, ChangeDevice, Install, Deliver
<1> QED
  BY <1>1, <1>2, <1>3, <1>4, <1>5, <1>6

-----------------------------------------------------------------------------
(* The retained topics *)

LEMMA ToldKeeps == TypeOK /\ Told /\ [Next]_vars => Told'
<1> SUFFICES ASSUME TypeOK, Told, [Next]_vars PROVE Told'
  OBVIOUS
<1> USE DEF Told, RetainedIsCurrent
<1>1. CASE Connect
  <2>1. /\ dirty' = TRUE /\ lastApp' = None /\ app' = app
        /\ kept' = [kept EXCEPT !.availability = "online"]
    BY <1>1 DEF Connect, Marked
  <2>2. kept'.availability = "online"
    BY <2>1 DEF TypeOK
  <2> QED
    BY <2>1, <2>2
<1>2. CASE Publish
  <2>1. /\ UNCHANGED <<online, alive, app, settings>> /\ lastApp' = app
        /\ alive => /\ kept'.settings = IF dirty THEN settings ELSE kept.settings
                    /\ kept'.app = IF AppDue THEN app ELSE kept.app
                    /\ kept'.availability = kept.availability
    BY <1>2 DEF Publish, TypeOK
  <2> QED
    BY <2>1 DEF AppDue
<1>3. CASE Receive
  BY <1>3 DEF Receive
<1>4. CASE ChangeSettings
  BY <1>4 DEF ChangeSettings
<1>5. ASSUME NEW a, ShowApp(a) PROVE Told'
  BY <1>5 DEF ShowApp
<1>6. CASE Restart \/ Break \/ Notice
  BY <1>6 DEF Restart, Break, Notice
<1>7. CASE UNCHANGED <<online, alive, kept, settings, app, dirty, lastApp>>
  BY <1>7
<1>8. \/ Connect \/ Publish \/ Receive \/ ChangeSettings \/ (\E a : ShowApp(a))
      \/ Restart \/ Break \/ Notice
      \/ UNCHANGED <<online, alive, kept, settings, app, dirty, lastApp>>
  BY DEF Next, Loop, Users, Network, vars, Unreachable, NothingIn, RunScripts, Pass,
     ChangeDevice, ConfigureHa, Install, Deliver
<1> QED
  BY <1>1, <1>2, <1>3, <1>4, <1>5, <1>6, <1>7, <1>8

-----------------------------------------------------------------------------
(* The scripts' filters and their queue *)

LEMMA OfferFits ==
  ASSUME TypeOK, Mirrored, queue = <<>>, NEW fs, Offer(fs), ~overflowed
  PROVE overflowed' = FALSE /\ queue' \in Seq(Filters)
<1>1. IsFiniteSet(topics)
  BY FS_Subset DEF TypeOK
<1>2. /\ IsFiniteSet(fs \cap topics) /\ Cardinality(fs \cap topics) \in Nat
      /\ Cardinality(fs \cap topics) <= Cardinality(topics) /\ Cardinality(topics) \in Nat
  BY <1>1, FS_Subset, FS_CardinalityType
<1>3. Cardinality(fs \cap topics) <= QueueCap
  BY <1>2 DEF Mirrored
<1>4. PICK entries \in SetToSeqs(fs \cap topics) :
        LET all == queue \o entries
            over == Len(all) - QueueCap
        IN /\ queue' = IF over > 0 THEN SubSeq(all, over + 1, Len(all)) ELSE all
           /\ overflowed' = (overflowed \/ over > 0)
  BY DEF Offer
<1>5. entries \in [1..Cardinality(fs \cap topics) -> fs \cap topics]
  BY DEF SetToSeqs
<1>6. entries \in Seq(fs \cap topics) /\ Len(entries) = Cardinality(fs \cap topics)
  <2>1. ASSUME NEW n \in Nat, NEW S, NEW e \in [1..n -> S]
        PROVE e \in Seq(S) /\ Len(e) = n
    OBVIOUS
  <2> QED
    BY <1>2, <1>5, <2>1
<1>7. fs \cap topics \subseteq Filters
  BY DEF TypeOK
<1>8. entries \in Seq(Filters)
  BY <1>6, <1>7
<1>9. <<>> \o entries = entries
  BY <1>8
<1>10. ~(Len(entries) - QueueCap > 0)
  BY <1>2, <1>3, <1>6
<1> QED
  BY <1>4, <1>8, <1>9, <1>10

LEMMA DrainedKeeps == TypeOK /\ Mirrored /\ Drained /\ [Next]_vars => Drained'
<1> SUFFICES ASSUME TypeOK, Mirrored, Drained, [Next]_vars PROVE Drained'
  OBVIOUS
<1> USE DEF Drained, NothingDropped
<1>1. CASE Receive
  <2>1. Offer(Head(inbound).filters) /\ phase' = "publish" /\ queue = <<>>
    BY <1>1 DEF Receive
  <2> QED
    BY <2>1, OfferFits
<1>2. CASE RunScripts
  BY <1>2 DEF RunScripts, Drain
<1>3. CASE Restart
  BY <1>3 DEF Restart
<1>4. CASE UNCHANGED <<queue, overflowed>> /\ (phase' = "mqtt" => phase = "mqtt")
  BY <1>4
<1>5. \/ Receive \/ RunScripts \/ Restart
      \/ UNCHANGED <<queue, overflowed>> /\ (phase' = "mqtt" => phase = "mqtt")
  BY DEF Next, Loop, Users, Network, vars, Connect, Unreachable, Notice, NothingIn,
     Publish, Pass, ChangeSettings, ShowApp, ChangeDevice, ConfigureHa, Install,
     Deliver, Break
<1> QED
  BY <1>1, <1>2, <1>3, <1>4, <1>5

LEMMA InstallMirrors ==
  ASSUME TypeOK, Mirrored, NEW s \in Scripts, NEW fs \in SUBSET Filters, Install(s, fs)
  PROVE Mirrored' /\ topics' \subseteq Filters /\ refused' \subseteq Filters
        /\ owners' \in [Filters -> SUBSET Scripts]
<1> DEFINE left == [f \in Filters |-> owners[f] \ {s}]
           stay == topics \cap Held(left)
           new == {f \in fs : left[f] = {}}
<1>1. /\ owners' = [f \in Filters |-> IF f \in fs THEN left[f] \cup {s} ELSE left[f]]
      /\ topics' \in Added(stay, new)
      /\ subscribed' = IF online /\ alive
                       THEN (subscribed \ (topics \ stay)) \cup (topics' \ stay)
                       ELSE subscribed
      /\ refused' = (refused \cap Held(left)) \cup (new \ topics')
      /\ UNCHANGED <<online, alive>>
  BY DEF Install
<1>2. /\ stay \subseteq topics' /\ topics' \subseteq stay \cup new
      /\ Cardinality(topics') <= MaxTopics
  <2>1. CASE Cardinality(stay \cup new) <= MaxTopics
    BY <1>1, <2>1 DEF Added
  <2>2. CASE ~(Cardinality(stay \cup new) <= MaxTopics)
    BY <1>1, <2>2 DEF Added
  <2> QED
    BY <2>1, <2>2
<1>3. /\ left \in [Filters -> SUBSET Scripts]
      /\ owners' \in [Filters -> SUBSET Scripts]
      /\ Held(left) \subseteq Held(owners)
      /\ new \cap Held(left) = {} /\ fs \subseteq new \cup Held(left)
      /\ Held(owners') = Held(left) \cup fs
  BY <1>1 DEF Held, TypeOK
<1>4. Held(owners') = topics' \cup refused' /\ topics' \cap refused' = {}
  BY <1>1, <1>2, <1>3 DEF Mirrored
<1>5. topics' \subseteq Filters /\ refused' \subseteq Filters
  BY <1>1, <1>2 DEF TypeOK
<1>6. online' /\ alive' =>
        /\ subscribed' \ {CommandFilter} = topics' \ {CommandFilter}
        /\ CommandFilter \in topics' \/ CommandFilter \notin Filters
             => CommandFilter \in subscribed'
  BY <1>1, <1>2, <1>5 DEF Mirrored, TypeOK
<1> QED
  BY <1>2, <1>3, <1>4, <1>5, <1>6 DEF Mirrored

LEMMA MirroredKeeps == TypeOK /\ Mirrored /\ [Next]_vars => Mirrored'
<1> SUFFICES ASSUME TypeOK, Mirrored, [Next]_vars PROVE Mirrored'
  OBVIOUS
<1>1. CASE Connect
  BY <1>1 DEF Connect, SessionFilters, Mirrored
<1>2. ASSUME NEW s \in Scripts, NEW fs \in SUBSET Filters, Install(s, fs) PROVE Mirrored'
  BY <1>2, InstallMirrors
<1>3. CASE Restart
  <2>1. topics' = {} /\ refused' = {} /\ ~online' /\ Held(owners') = {}
    BY <1>3 DEF Restart, Held
  <2> QED
    BY <2>1, FS_EmptySet DEF Mirrored
<1>4. CASE Break \/ Notice
  BY <1>4 DEF Break, Notice, Mirrored
<1>5. CASE UNCHANGED <<online, alive, subscribed, owners, topics, refused>>
  BY <1>5 DEF Mirrored
<1>6. \/ Connect \/ Restart \/ Break \/ Notice
      \/ \E s \in Scripts, fs \in SUBSET Filters : Install(s, fs)
      \/ UNCHANGED <<online, alive, subscribed, owners, topics, refused>>
  BY DEF Next, Loop, Users, Network, vars, Unreachable, NothingIn, Receive, Offer,
     Publish, RunScripts, Pass, ChangeSettings, ShowApp, ChangeDevice, ConfigureHa,
     Deliver
<1> QED
  BY <1>1, <1>2, <1>3, <1>4, <1>5, <1>6

-----------------------------------------------------------------------------
(* Types *)

LEMMA TypeKeeps == TypeOK /\ Mirrored /\ Drained /\ Adverts /\ [Next]_vars => TypeOK'
<1> SUFFICES ASSUME TypeOK, Mirrored, Drained, Adverts, [Next]_vars PROVE TypeOK'
  OBVIOUS
<1>1. CASE Connect
  <2>1. Announce(haOn, haPrefix, TRUE) /\ haOn \in BOOLEAN /\ haPrefix \in HaPrefixes
    BY <1>1 DEF Connect, TypeOK
  <2>2. /\ ads' \subseteq HaPrefixes /\ forgotten' \subseteq HaPrefixes
        /\ announced' \in HaPrefixes \cup {None}
    BY <2>1, AnnounceShows
  <2>3. kept' = [kept EXCEPT !.availability = "online"]
    BY <1>1 DEF Connect
  <2> QED
    BY <1>1, <2>2, <2>3 DEF Connect, TypeOK, SessionFilters, Marked
<1>2. CASE Unreachable \/ Notice \/ NothingIn
  <2>1. /\ phase' \in {"scripts", "publish"} /\ online' \in BOOLEAN
        /\ UNCHANGED <<alive, broker, state, cadence, ha, scripts, ghosts, events>>
    BY <1>2 DEF Unreachable, Notice, NothingIn, TypeOK
  <2> QED
    BY <2>1 DEF TypeOK
<1>3. CASE Receive
  <2>1. Offer(Head(inbound).filters) /\ queue = <<>>
    BY <1>3 DEF Receive, Drained
  <2>2. queue' \in Seq(Filters) /\ overflowed' = FALSE
    BY <2>1, OfferFits DEF Drained, NothingDropped
  <2>3. inbound' \in Seq(Packets)
    <3>1. Result \in Packets
      BY DEF Packets
    <3> HIDE DEF Packets
    <3>2. inbound \in Seq(Packets) /\ inbound # <<>>
      BY <1>3 DEF Receive, TypeOK
    <3>3. Tail(inbound) \in Seq(Packets)
      BY <3>2
    <3>4. Append(Tail(inbound), Result) \in Seq(Packets)
      BY <3>1, <3>3
    <3> QED
      BY <1>3, <3>3, <3>4 DEF Receive
  <2>4. settings' \in {0, 1} /\ dirty' \in BOOLEAN
    BY <1>3 DEF Receive, TypeOK
  <2>5. /\ phase' = "publish"
        /\ UNCHANGED <<online, alive, subscribed, kept, ads, app, device, stateDirty,
                       lastApp, since, ha, owners, topics, refused, forgotten, events>>
    BY <1>3 DEF Receive
  <2>6. overflowed' \in BOOLEAN
    BY <2>2
  <2> QED
    BY <2>2, <2>3, <2>4, <2>5, <2>6 DEF TypeOK
<1>4. CASE Publish
  <2>1. kept' \in [settings : {0, 1, None}, app : Apps \cup {None},
                   device : {0, 1, None}, availability : {"online", "offline"}]
    BY <1>4 DEF Publish, TypeOK
  <2>2. since' \in 0..Interval
    <3>1. since' = 0 \/ since' = since
      BY <1>4 DEF Publish
    <3> QED
      BY <3>1 DEF TypeOK
  <2> QED
    BY <1>4, <2>1, <2>2 DEF Publish, TypeOK
<1>5. CASE RunScripts
  BY <1>5 DEF RunScripts, Drain, TypeOK
<1>6. CASE Pass
  BY <1>6 DEF Pass, TypeOK
<1>7. CASE ChangeSettings
  BY <1>7 DEF ChangeSettings, Event, TypeOK
<1>8. ASSUME NEW a \in Apps \cup {None}, ShowApp(a) PROVE TypeOK'
  BY <1>8 DEF ShowApp, Event, TypeOK
<1>9. ASSUME NEW said \in BOOLEAN, ChangeDevice(said) PROVE TypeOK'
  BY <1>9 DEF ChangeDevice, Event, TypeOK
<1>10. ASSUME NEW on \in BOOLEAN, NEW prefix \in HaPrefixes, ConfigureHa(on, prefix)
       PROVE TypeOK'
  <2>1. /\ ads' \subseteq HaPrefixes /\ forgotten' \subseteq HaPrefixes
        /\ announced' \in HaPrefixes \cup {None}
    <3>1. CASE online
      <4>1. Announce(on, prefix, alive) /\ alive \in BOOLEAN
        BY <1>10, <3>1 DEF ConfigureHa, TypeOK
      <4> QED
        BY <3>1, <4>1, AnnounceShows
    <3>2. CASE ~online
      BY <1>10, <3>2 DEF ConfigureHa, TypeOK
    <3> QED
      BY <3>1, <3>2
  <2> QED
    BY <1>10, <2>1 DEF ConfigureHa, Event, TypeOK
<1>11. ASSUME NEW s \in Scripts, NEW fs \in SUBSET Filters, Install(s, fs) PROVE TypeOK'
  <2>1. /\ topics' \subseteq Filters /\ refused' \subseteq Filters
        /\ owners' \in [Filters -> SUBSET Scripts]
    BY <1>11, InstallMirrors
  <2>2. subscribed' \subseteq subscribed \cup topics'
    BY <1>11 DEF Install
  <2> QED
    BY <1>11, <2>1, <2>2 DEF Install, Event, TypeOK
<1>12. ASSUME NEW p \in Packets, Deliver(p) PROVE TypeOK'
  <2>1. inbound' \in Seq(Packets)
    BY <1>12 DEF Deliver, TypeOK
  <2> QED
    BY <1>12, <2>1 DEF Deliver, Event, TypeOK
<1>13. CASE Break
  <2>1. kept' \in [settings : {0, 1, None}, app : Apps \cup {None},
                   device : {0, 1, None}, availability : {"online", "offline"}]
    BY <1>13 DEF Break, TypeOK
  <2>2. inbound' \in Seq(Packets)
    BY <1>13 DEF Break
  <2>3. events' \in 0..MaxEvents
    BY <1>13 DEF Break, Event, TypeOK
  <2>4. /\ alive' = FALSE /\ subscribed' = {}
        /\ UNCHANGED <<online, phase, ads, state, cadence, ha, scripts, ghosts>>
    BY <1>13 DEF Break
  <2>5. /\ online' \in BOOLEAN /\ alive' \in BOOLEAN
        /\ dirty' \in BOOLEAN /\ stateDirty' \in BOOLEAN
        /\ haOn' \in BOOLEAN /\ overflowed' \in BOOLEAN
    BY <2>4 DEF TypeOK
  <2>6. /\ settings' \in {0, 1} /\ device' \in {0, 1} /\ since' \in 0..Interval
        /\ app' \in Apps \cup {None} /\ lastApp' \in Apps \cup {None}
        /\ owners' \in [Filters -> SUBSET Scripts] /\ queue' \in Seq(Filters)
    BY <2>4 DEF TypeOK
  <2> QED
    BY <2>1, <2>2, <2>3, <2>4, <2>5, <2>6 DEF TypeOK
<1>14. CASE Restart
  <2>1. kept' \in [settings : {0, 1, None}, app : Apps \cup {None},
                   device : {0, 1, None}, availability : {"online", "offline"}]
    BY <1>14 DEF Restart, TypeOK
  <2>2. inbound' \in Seq(Packets) /\ queue' \in Seq(Filters)
    BY <1>14 DEF Restart
  <2>3. events' \in 0..MaxEvents
    BY <1>14 DEF Restart, Event, TypeOK
  <2>4. owners' \in [Filters -> SUBSET Scripts] /\ since' \in 0..Interval
    BY <1>14 DEF Restart
  <2>5. forgotten' \subseteq HaPrefixes
    BY <1>14 DEF Restart, TypeOK
  <2> QED
    BY <1>14, <2>1, <2>2, <2>3, <2>4, <2>5 DEF Restart, TypeOK
<1>15. CASE UNCHANGED vars
  BY <1>15 DEF vars, TypeOK
<1> QED
  BY <1>1, <1>2, <1>3, <1>4, <1>5, <1>6, <1>7, <1>8, <1>9, <1>10, <1>11, <1>12, <1>13,
     <1>14, <1>15 DEF Next, Loop, Users, Network

-----------------------------------------------------------------------------

LEMMA InitHolds == Init => IInv
<1> SUFFICES ASSUME Init PROVE IInv
  OBVIOUS
<1>1. TypeOK
  <2>1. kept \in [settings : {0, 1, None}, app : Apps \cup {None},
                  device : {0, 1, None}, availability : {"online", "offline"}]
    BY DEF Init
  <2>2. inbound \in Seq(Packets) /\ queue \in Seq(Filters)
    BY DEF Init
  <2>3. owners \in [Filters -> SUBSET Scripts] /\ since \in 0..Interval
        /\ events \in 0..MaxEvents
    BY DEF Init
  <2> QED
    BY <2>1, <2>2, <2>3 DEF Init, TypeOK
<1>2. Held(owners) = {} /\ Cardinality(topics) = 0
  BY FS_EmptySet DEF Init, Held
<1>3. Mirrored
  <2>1. topics = {} /\ refused = {} /\ online = FALSE
    BY DEF Init
  <2>2. MaxTopics \in Nat /\ 0 <= MaxTopics
    OBVIOUS
  <2> QED
    BY <1>2, <2>1, <2>2 DEF Mirrored
<1>4. Drained /\ Told /\ Shown
  BY DEF Init, Drained, NothingDropped, Told, RetainedIsCurrent, Shown, OneAdvert, Adverts
<1> QED
  BY <1>1, <1>3, <1>4 DEF IInv, SessionInv

LEMMA Invariance == Spec => []IInv
<1>1. IInv /\ [Next]_vars => IInv'
  BY TypeKeeps, MirroredKeeps, DrainedKeeps, ToldKeeps, ShownKeeps
     DEF IInv, SessionInv, Shown
<1> QED
  BY <1>1, InitHolds, PTL DEF Spec

\* The host's owners, the bridge's filters and the broker's session agree
\* (ScriptHost.cpp: forgetScript, ScriptMqttBridge.cpp).
THEOREM SessionCorrect == Spec => []SessionInv
<1>1. IInv => SessionInv
  BY DEF IInv
<1> QED
  BY <1>1, Invariance, PTL

\* No message to a script is dropped (ScriptHost.cpp: the queue between the
\* bridge and drainMqtt).
THEOREM NothingIsDropped == Spec => []NothingDropped
<1>1. IInv => NothingDropped
  BY DEF IInv, Drained
<1> QED
  BY <1>1, Invariance, PTL

\* A topic that is not marked is up to date at the broker
\* (StatePublishCadence.h, MqttService.cpp: tick and onOnline).
THEOREM RetainedCorrect == Spec => []RetainedIsCurrent
<1>1. IInv => RetainedIsCurrent
  BY DEF IInv, Told
<1> QED
  BY <1>1, Invariance, PTL

\* Home Assistant is shown the device once (HaAnnouncer.cpp: announce).
THEOREM AdvertCorrect == Spec => []OneAdvert
<1>1. IInv => OneAdvert
  BY DEF IInv, Shown
<1> QED
  BY <1>1, Invariance, PTL
=============================================================================
