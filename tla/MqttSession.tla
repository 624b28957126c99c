---------------------------- MODULE MqttSession ----------------------------
(***************************************************************************)
(* What the device keeps on the broker over a link that comes and goes:    *)
(* MqttService.cpp (a session, the state topics, the commands),            *)
(* StatePublishCadence.h (when a topic is due), HaAnnouncer.cpp (the       *)
(* discovery document), ScriptMqttBridge.cpp and the MQTT side of          *)
(* ScriptHost.cpp (the scripts' subscriptions and what they are sent).     *)
(*                                                                         *)
(* MqttLink has how the link comes up; here it is up, and `alive` says if  *)
(* the broker really gets what is sent.  The broker is external: it keeps  *)
(* the retained topics, and the subscriptions of the session only.  One    *)
(* retained topic stands for those published on change (settings, audio,   *)
(* buttons), all of which a connect marks.                                 *)
(***************************************************************************)
EXTENDS Naturals, FiniteSets, Sequences, SequencesExt

CONSTANTS
  Scripts,    \* install names
  CommandFilter, \* <prefix>/cmd/#, which the device subscribes to
  Filters,    \* what scripts subscribe to
  HaPrefixes,   \* values of haPrefix
  Apps,       \* names an app can have
  None,       \* nothing announced, nothing retained, no app on screen
  MaxTopics,  \* kMaxTopics of the bridge
  QueueCap,   \* capacity of mqttQueue_
  Interval,   \* statsInterval, in units of kMinForcedGapMs
  MaxEvents,  \* bound on what users, scripts, the network and the power do
  MaxPackets  \* bound on the packets on their way to the device

ASSUME SessionAssumption ==
  /\ None \notin Apps \cup HaPrefixes
  /\ IsFiniteSet(Filters)
  /\ {MaxTopics, QueueCap, Interval} \subseteq Nat \ {0}
  /\ MaxTopics <= QueueCap
  /\ {MaxEvents, MaxPackets} \subseteq Nat

VARIABLES
  online, alive,   \* the client's belief, and whether it is true
  phase,           \* where the loop is
  subscribed,      \* the broker's list for this session
  inbound,         \* packets on their way to the device
  kept,            \* what the broker retains: settings, app, device, availability
  ads,             \* the prefixes with a discovery document at the broker
  settings, app, device,             \* the state the topics tell of
  dirty, stateDirty, lastApp, since, \* StatePublishCadence
  haOn, haPrefix, announced,         \* HaAnnouncer
  owners,          \* mqttSubs_, and the callbacks the prelude keeps
  topics,          \* topics_ of the bridge
  queue,           \* mqttQueue_
  refused,         \* held filters the bridge had no room for
  forgotten,       \* prefixes whose retraction was lost, or nobody knows to send
  overflowed,      \* the queue has dropped a message
  events

link == <<online, alive, phase>>
broker == <<subscribed, inbound, kept, ads>>
state == <<settings, app, device>>
cadence == <<dirty, stateDirty, lastApp, since>>
ha == <<haOn, haPrefix, announced>>
scripts == <<owners, topics, queue>>
ghosts == <<refused, forgotten, overflowed>>
vars == <<link, broker, state, cadence, ha, scripts, ghosts, events>>

-----------------------------------------------------------------------------
\* A packet, and the script filters that match its topic.
Command == [kind |-> "command", filters |-> {CommandFilter} \cap Filters]
Result == [kind |-> "result", filters |-> {CommandFilter} \cap Filters]
Message(fs) == [kind |-> "message", filters |-> fs]
Packets == {Command, Result} \cup {Message(fs) : fs \in SUBSET Filters \ {{}}}

Held(o) == {f \in Filters : o[f] # {}}

\* ScriptMqttBridge::subscribe(), of several filters in any order.
Added(old, new) ==
  IF Cardinality(old \cup new) <= MaxTopics THEN {old \cup new}
  ELSE {t \in SUBSET (old \cup new) :
          old \subseteq t /\ Cardinality(t) = MaxTopics}

Init ==
  /\ online = FALSE /\ alive = FALSE /\ phase = "mqtt"
  /\ subscribed = {} /\ inbound = <<>>
  /\ kept = [settings |-> None, app |-> None, device |-> None,
             availability |-> "offline"]
  /\ ads = {}
  /\ settings = 0 /\ app = None /\ device = 0
  /\ dirty = TRUE /\ stateDirty = FALSE /\ lastApp = None /\ since = 0
  /\ haOn = TRUE /\ haPrefix \in HaPrefixes /\ announced = None
  /\ owners = [f \in Filters |-> {}]
  /\ topics = {} /\ queue = <<>>
  /\ refused = {} /\ forgotten = {} /\ overflowed = FALSE
  /\ events = 0

-----------------------------------------------------------------------------
(* HaAnnouncer::announce(): the retraction comes first, and is not repeated *)

\* Mutant: nothing is retracted.
RetractedNever(prefix) == {}

Retracted(prefix) ==
  IF announced # None /\ announced # prefix THEN {announced} ELSE {}

\* The document of a dead connection may fail at once, in beginPublish(), and then
\* does not count as announced.
Announce(on, prefix, reaches) ==
  LET cleared == Retracted(prefix) \cup {prefix}
      left == IF Retracted(prefix) # {} THEN None ELSE announced
  IN /\ announced' \in (IF on THEN {prefix} ELSE {left})
                        \cup (IF reaches THEN {} ELSE {left})
     /\ ads' = IF ~reaches THEN ads
               ELSE (ads \ cleared) \cup (IF on THEN {prefix} ELSE {})
     /\ forgotten' = IF reaches THEN forgotten \ cleared
                     ELSE forgotten \cup (Retracted(prefix) \cap ads)

-----------------------------------------------------------------------------
(* MqttService::tick() *)

\* Mutant: the bridge's filters are not replayed.
SessionOfDevice == {CommandFilter}

SessionFilters == {CommandFilter} \cup topics

\* Mutant: onConnect() marks nothing.
Unmarked == UNCHANGED <<dirty, lastApp>>

Marked == dirty' = TRUE /\ lastApp' = None

\* onOnline(): a new session, in which nothing of the last one holds.
Connect ==
  /\ phase = "mqtt" /\ ~online
  /\ online' = TRUE /\ alive' = TRUE /\ phase' = "publish"
  /\ subscribed' = SessionFilters
  /\ kept' = [kept EXCEPT !.availability = "online"]
  /\ Announce(haOn, haPrefix, TRUE)
  /\ Marked
  /\ UNCHANGED <<inbound, state, stateDirty, since, haOn, haPrefix, scripts,
                 refused, overflowed, events>>

Unreachable ==
  /\ phase = "mqtt" /\ ~online
  /\ phase' = "scripts"
  /\ UNCHANGED <<online, alive, broker, state, cadence, ha, scripts, ghosts,
                 events>>

Notice ==
  /\ phase = "mqtt" /\ online /\ ~alive
  /\ online' = FALSE /\ phase' = "scripts"
  /\ UNCHANGED <<alive, broker, state, cadence, ha, scripts, ghosts, events>>

NothingIn ==
  /\ phase = "mqtt" /\ online
  /\ inbound = <<>>
  /\ phase' = "publish"
  /\ UNCHANGED <<online, alive, broker, state, cadence, ha, scripts, ghosts,
                 events>>

\* offer(): one entry per filter that matches; a full queue drops its oldest.
Offer(fs) ==
  \E entries \in SetToSeqs(fs \cap topics) :
    LET all == queue \o entries
        over == Len(all) - QueueCap
    IN /\ queue' = IF over > 0 THEN SubSeq(all, over + 1, Len(all)) ELSE all
       /\ overflowed' = (overflowed \/ over > 0)

\* The client's loop() hands on one packet.  A command is executed, and answered
\* under the prefix the device itself listens to; an answer is passed over.
Receive ==
  /\ phase = "mqtt" /\ online
  /\ inbound # <<>>
  /\ phase' = "publish"
  /\ LET p == Head(inbound)
         executed == p.kind = "command"
     IN /\ Offer(p.filters)
        /\ settings' = IF executed THEN 1 - settings ELSE settings
        /\ dirty' = (dirty \/ executed)
        /\ inbound' = IF executed THEN Append(Tail(inbound), Result)
                                  ELSE Tail(inbound)
  /\ UNCHANGED <<online, alive, subscribed, kept, ads, app, device, stateDirty,
                 lastApp, since, ha, owners, topics, refused, forgotten, events>>

AppDue == app # lastApp
\* Mutant: only what says so is sent.
StateDueWhenSaid == stateDirty /\ since >= 1

StateDue == since >= Interval \/ (stateDirty /\ since >= 1)

\* What is due is sent and marked as sent, whether or not it gets there.
Publish ==
  /\ phase = "publish"
  /\ phase' = "scripts"
  /\ lastApp' = app
  /\ dirty' = FALSE
  /\ since' = IF StateDue THEN 0 ELSE since
  /\ stateDirty' = IF StateDue THEN FALSE ELSE stateDirty
  /\ kept' = IF ~alive THEN kept
             ELSE [kept EXCEPT !.app = IF AppDue THEN app ELSE @,
                               !.settings = IF dirty THEN settings ELSE @,
                               !.device = IF StateDue THEN device ELSE @]
  /\ UNCHANGED <<online, alive, subscribed, inbound, ads, state, ha, scripts,
                 ghosts, events>>

\* Mutant: one message a turn.
DrainOne == queue' = IF queue = <<>> THEN queue ELSE Tail(queue)

Drain == queue' = <<>>

\* ScriptHost::tick(): drainMqtt() empties the queue.
RunScripts ==
  /\ phase = "scripts"
  /\ phase' = "mqtt"
  /\ Drain
  /\ UNCHANGED <<online, alive, broker, state, cadence, ha, owners, topics,
                 ghosts, events>>

Pass ==
  /\ since < Interval
  /\ since' = since + 1
  /\ UNCHANGED <<link, broker, state, dirty, stateDirty, lastApp, ha, scripts,
                 ghosts, events>>

-----------------------------------------------------------------------------
(* What users and scripts do *)

Event == events < MaxEvents /\ events' = events + 1

\* Commands over HTTP and the scripts' own run outside mqtt.tick().
ChangeSettings ==
  /\ Event
  /\ settings' = 1 - settings
  /\ dirty' = TRUE
  /\ UNCHANGED <<link, broker, app, device, stateDirty, lastApp, since, ha,
                 scripts, ghosts>>

ShowApp(a) ==
  /\ Event
  /\ a # app /\ app' = a
  /\ UNCHANGED <<link, broker, settings, device, cadence, ha, scripts, ghosts>>

\* Power and indicators say so, brightness and sensors do not.
ChangeDevice(said) ==
  /\ Event
  /\ device' = 1 - device
  /\ stateDirty' = (stateDirty \/ said)
  /\ UNCHANGED <<link, broker, settings, app, dirty, lastApp, since, ha, scripts,
                 ghosts>>

\* applyHaConfig() configures, and announces if the client is online.
ConfigureHa(on, prefix) ==
  /\ Event
  /\ <<on, prefix>> # <<haOn, haPrefix>>
  /\ haOn' = on /\ haPrefix' = prefix
  /\ IF online THEN Announce(on, prefix, alive)
               ELSE /\ forgotten' = forgotten
                         \cup ((ads \cap {haPrefix}) \ {announced, prefix})
                    /\ UNCHANGED <<announced, ads>>
  /\ UNCHANGED <<link, subscribed, inbound, kept, state, cadence, scripts, refused,
                 overflowed>>

\* forgetScript(), and what the new body subscribes to; with nothing, a removal.
Install(s, fs) ==
  LET left == [f \in Filters |-> owners[f] \ {s}]
      stay == topics \cap Held(left)
      new == {f \in fs : left[f] = {}}
  IN /\ Event
     /\ owners' = [f \in Filters |-> IF f \in fs THEN left[f] \cup {s} ELSE left[f]]
     /\ topics' \in Added(stay, new)
     /\ subscribed' = IF online /\ alive
                      THEN (subscribed \ (topics \ stay)) \cup (topics' \ stay)
                      ELSE subscribed
     /\ refused' = (refused \cap Held(left)) \cup (new \ topics')
     /\ UNCHANGED <<link, inbound, kept, ads, state, cadence, ha, queue,
                    forgotten, overflowed>>

-----------------------------------------------------------------------------
(* The broker and the network *)

Deliver(p) ==
  /\ Event
  /\ alive /\ Len(inbound) < MaxPackets
  /\ IF p.kind = "command" THEN CommandFilter \in subscribed
                            ELSE p.filters \cap subscribed # {}
  /\ inbound' = Append(inbound, p)
  /\ UNCHANGED <<link, subscribed, kept, ads, state, cadence, ha, scripts, ghosts>>

\* The broker ends the session and publishes the will; the client has yet to see.
Break ==
  /\ Event
  /\ alive /\ alive' = FALSE
  /\ subscribed' = {} /\ inbound' = <<>>
  /\ kept' = [kept EXCEPT !.availability = "offline"]
  /\ UNCHANGED <<online, phase, ads, state, cadence, ha, scripts, ghosts>>

\* What was announced is known in RAM only.  Scripts are installed anew.
Restart ==
  /\ Event
  /\ online' = FALSE /\ alive' = FALSE /\ phase' = "mqtt"
  /\ subscribed' = {} /\ inbound' = <<>>
  /\ kept' = [kept EXCEPT !.availability = "offline"]
  /\ app' = None
  /\ dirty' = TRUE /\ stateDirty' = FALSE /\ lastApp' = None /\ since' = 0
  /\ announced' = None
  /\ forgotten' = forgotten \cup (Retracted(haPrefix) \cap ads)
  /\ owners' = [f \in Filters |-> {}]
  /\ topics' = {} /\ queue' = <<>> /\ refused' = {}
  /\ UNCHANGED <<ads, settings, device, haOn, haPrefix, overflowed>>

-----------------------------------------------------------------------------
Loop ==
  \/ Connect \/ Unreachable \/ Notice \/ NothingIn \/ Receive
  \/ Publish \/ RunScripts

Users ==
  \/ ChangeSettings
  \/ \E a \in Apps \cup {None} : ShowApp(a)
  \/ \E said \in BOOLEAN : ChangeDevice(said)
  \/ \E on \in BOOLEAN, prefix \in HaPrefixes : ConfigureHa(on, prefix)
  \/ \E s \in Scripts, fs \in SUBSET Filters : Install(s, fs)

Network == Break \/ Restart \/ \E p \in Packets \ {Result} : Deliver(p)

Next == Loop \/ Pass \/ Users \/ Network

Spec == Init /\ [][Next]_vars

\* The loop turns and time passes; the broker is reached again in the end, and a
\* dead connection noticed.
FairSpec ==
  Spec /\ WF_vars(Loop) /\ WF_vars(Pass) /\ SF_vars(Connect) /\ SF_vars(Notice)
-----------------------------------------------------------------------------
TypeOK ==
  /\ online \in BOOLEAN /\ alive \in BOOLEAN
  /\ dirty \in BOOLEAN /\ stateDirty \in BOOLEAN
  /\ haOn \in BOOLEAN /\ overflowed \in BOOLEAN
  /\ phase \in {"mqtt", "publish", "scripts"}
  /\ subscribed \subseteq Filters \cup {CommandFilter}
  /\ inbound \in Seq(Packets)
  /\ kept \in [settings : {0, 1, None}, app : Apps \cup {None},
               device : {0, 1, None}, availability : {"online", "offline"}]
  /\ ads \subseteq HaPrefixes /\ forgotten \subseteq HaPrefixes
  /\ settings \in {0, 1} /\ device \in {0, 1}
  /\ app \in Apps \cup {None} /\ lastApp \in Apps \cup {None}
  /\ since \in 0..Interval
  /\ haPrefix \in HaPrefixes /\ announced \in HaPrefixes \cup {None}
  /\ owners \in [Filters -> SUBSET Scripts]
  /\ topics \subseteq Filters /\ refused \subseteq Filters
  /\ queue \in Seq(Filters)
  /\ events \in 0..MaxEvents

(* The three lists of what scripts listen to agree: the host's owners, the     *)
(* bridge's filters and, while the connection is there, the broker's session,  *)
(* though scripts come and go while it is not.  A filter with an owner and     *)
(* without a subscription is one the bridge had no room for.  The device's own *)
(* subscription may go with a script's, if the script's is the same.           *)
Mirrored ==
  /\ online /\ alive =>
       /\ subscribed \ {CommandFilter} = topics \ {CommandFilter}
       /\ CommandFilter \in topics \/ CommandFilter \notin Filters
            => CommandFilter \in subscribed
  /\ Held(owners) = topics \cup refused
  /\ topics \cap refused = {}
  /\ Cardinality(topics) <= MaxTopics

SessionInv == TypeOK /\ Mirrored

(* The queue between the bridge and the scripts never drops a message: it is   *)
(* emptied every turn of the loop, a turn takes one packet, and the bridge     *)
(* has no more filters for it than the queue has places.                       *)
NothingDropped == ~overflowed

(* While the connection is there, what the broker retains is what the device   *)
(* last had to say: a topic not marked is up to date, though its last message  *)
(* may have been sent into a dead connection.  The active app is held back     *)
(* after a connect when there is none.                                         *)
RetainedIsCurrent ==
  online /\ alive =>
    /\ kept.availability = "online"
    /\ dirty \/ kept.settings = settings
    /\ lastApp = app /\ app # None => kept.app = app

(* And Home Assistant is shown the device under its prefix and no other, but   *)
(* for retractions lost in a dead connection or in a restart.                  *)
OneAdvert ==
  online /\ alive =>
    ads \ forgotten = IF haOn THEN {haPrefix} ELSE {}

(* docs/guides/mqtt.md:5 says "AWTRIX subscribes to `<prefix>/cmd/#` and       *)
(* answers every command", whatever the scripts subscribe to.                  *)
CommandsAreHeard == online /\ alive => CommandFilter \in subscribed

(* However the connection breaks, the retained state comes to be the device's  *)
(* again, what came in has been dealt with, and no answer to a command is      *)
(* taken for one.                                                              *)
CatchesUp ==
  []<>(/\ online /\ alive /\ inbound = <<>> /\ queue = <<>>
       /\ kept.settings = settings /\ kept.device = device
       /\ app = None \/ kept.app = app)
=============================================================================
