---------------------------- MODULE SystemStates ----------------------------
(***************************************************************************)
(* The system states of the apartment (handler/system_states.cpp): alarms, *)
(* presence, wind, rain and the states combined from binary inputs.        *)
(* Scene calls, undos, reports of inputs and signals of the bus pass the   *)
(* thread of ModelMaintenance and the event queue, in order, and are       *)
(* handled by the one thread of the plugin.  That thread itself calls      *)
(* scenes, which come back the same way with the origin coSystem.  The     *)
(* states are kept in files (model/state.cpp); the dSS may be restarted at *)
(* any time, which loses what is queued.                                   *)
(***************************************************************************)
EXTENDS Integers, Sequences, FiniteSets, SequencesExt

CONSTANTS
  Inputs,       \* binary inputs: records of type, target group and zone
  UserGroups,   \* IDs from GroupIDAppUserMin to GroupIDAppUserMax
  Blinds,       \* the user groups of application type Blinds
  Fresh,        \* the inputs that have never reported
  LastScenes,   \* sets of scenes that dSMs may report as last called
  Offers,       \* sets of messages, one of which the bus sends from
  MaxMessages,  \* bound: messages of the bus
  MaxRestarts   \* bound: restarts of the dSS

ASSUME StatesAssumption ==
  /\ IsFiniteSet(Inputs) /\ Fresh \subseteq Inputs
  /\ \A i \in Inputs :
       /\ i.type \in {"motion", "presence", "wind", "rain", "frost", "heating_system",
                     "heating_system_mode", "smoke", "thermostat"}
       /\ i.group \in Nat /\ i.zone \in Nat
  /\ \A last \in LastScenes : last \subseteq {"absent", "sleeping", "panic", "alarm"}
  /\ UserGroups \subseteq 16 .. 39 /\ Blinds \subseteq UserGroups
  /\ MaxMessages \in Nat /\ MaxRestarts \in Nat

Active   == 1
Inactive == 2
Unknown  == 3
Invalid  == 0
None     == 9      \* not registered; no file

At(name) == <<name, 0>>
(* "cluster.<group>.motion", "rain.group<group>" or "zone.<zone>.motion" *)
InGroup(name, g) == <<name, g>>
InZone(name, z)  == <<name, 1000 + z>>

Bootstrapped == {At(n) : n \in {"presence", "hibernation", "alarm", "alarm2", "alarm3",
  "alarm4", "panic", "fire", "wind", "rain", "frost", "heating_system",
  "heating_system_mode", "heating_water_system"}}

(* the state an input is combined into *)
KeyOf(i) ==
  IF i.type \in {"motion", "presence"}
  THEN IF i.group \in UserGroups THEN InGroup(i.type, i.group) ELSE InZone(i.type, i.zone)
  ELSE IF i.type \in {"wind", "rain"} /\ i.group \in UserGroups
  THEN InGroup(i.type, i.group) ELSE At(i.type)
Combined == {"motion", "presence", "wind", "rain", "frost", "heating_system",
             "heating_system_mode"}

StateKeys == Bootstrapped \cup {At("building_service")}
  \cup {KeyOf(i) : i \in Inputs} \cup {InGroup(n, g) : n \in {"wind", "rain", "frost"}, g \in UserGroups}
CounterKeys == {<<KeyOf(i), i.group>> : i \in Inputs}

VARIABLES
  m_states,   \* the states, of those that are registered
  files,      \* what State::save has written
  inputs,     \* the states of the binary inputs, kept in files as well
  counters,   \* "/scripts/system_state/<state>.<group>"
  modelQueue, \* m_ModelEvents
  eventQueue, \* the event queue and the plugin's tasks
  ready,      \* the event model_ready was raised
  offered, messages, restarts,
  onBus,      \* history: the last scene on the bus for wind and rain
  overridden, \* history: states for which a scene or a signal has come
  doubtful,   \* history: inputs that were not known, or the dSS restarted
  cleared,    \* history: alarms the last command was to clear
  before      \* history: states before a restart, until a message comes

stateVars == <<m_states, files, inputs, counters, modelQueue, eventQueue, ready, offered,
               messages, restarts, onBus, overridden, doubtful, cleared, before>>
histVars == <<onBus, overridden, doubtful, cleared, before>>

SceneCall(kind, s, g, o) ==
  [kind |-> kind, scene |-> s, group |-> g, origin |-> o, button |-> FALSE]
Changed(k, v, o) == [kind |-> "service", key |-> k, value |-> v, origin |-> o]
Signal(k, v)     == [kind |-> "signal", key |-> k, value |-> v]

(* what comes from the bus: never with the origin coSystem *)
SceneMessages == [kind : {"call", "undo"}, scene : STRING, group : Nat,
                  origin : {"dsmApi", "other"}, button : BOOLEAN]
Reported      == [kind : {"report"}, input : Inputs, value : 1 .. 3]
SystemSignals == [kind : {"signal"}, value : 0 .. 3,
                  key : {At("frost"), At("heating_water_system"), At("building_service")}]
Messages      == SceneMessages \cup Reported \cup SystemSignals
ASSUME OffersAssumption == \A bus \in Offers : bus \subseteq Messages

(* a function with one value; f where it is defined, and g elsewhere *)
Only(k, v) == [x \in {k} |-> v]
Over(f, g) == [x \in DOMAIN f \cup DOMAIN g |-> IF x \in DOMAIN f THEN f[x] ELSE g[x]]

StatesTypeOK ==
  /\ m_states \in [StateKeys -> 0 .. 3 \cup {None}]
  /\ files \in [StateKeys -> 0 .. 3 \cup {None}]
  /\ inputs \in [Inputs -> 0 .. 3]
  /\ counters \in [CounterKeys -> Nat]
  /\ \A j \in DOMAIN modelQueue : modelQueue[j].kind \in {"call", "undo", "report", "signal"}
  /\ \A j \in DOMAIN eventQueue :
       eventQueue[j].kind \in {"call", "undo", "device", "service", "signal", "running", "model_ready"}
  /\ messages \in 0 .. MaxMessages /\ restarts \in 0 .. MaxRestarts

(* State::load, for a state that is allocated; State_Inactive without file *)
NotLoaded(k) == Inactive
Loaded(k)  == IF files[k] # None THEN files[k] ELSE Inactive
(* getOrRegisterState *)
Current(k) == IF m_states[k] # None THEN m_states[k] ELSE Loaded(k)

(* Only changes of these service states have an effect in this plugin *)
IsHeeded(k) == k[1] \in {"fire", "wind", "rain"}

(* State::setState of each state in sets: a change is saved, and raised as *)
(* an event                                                                *)
NoState == [k \in {} |-> 0]
Differing(sets) == {k \in DOMAIN sets : sets[k] # Current(k)}
setState(sets) ==
  /\ m_states' = [k \in StateKeys |-> IF k \in DOMAIN sets THEN sets[k] ELSE m_states[k]]
  /\ files' = [k \in StateKeys |->
       IF k \in DOMAIN sets /\ sets[k] # Current(k) THEN sets[k] ELSE files[k]]
Changes(sets, o) ==
  LET keys == SetToSeq({k \in Differing(sets) : IsHeeded(k)})
  IN [j \in DOMAIN keys |-> Changed(keys[j], sets[keys[j]], o)]

(* The scenes and what they set; those of wind and rain also for a group *)
GroupScenes == [windActive |-> <<"wind", Active>>, windInactive |-> <<"wind", Inactive>>,
                rainActive |-> <<"rain", Active>>, rainInactive |-> <<"rain", Inactive>>]
AlarmScenes == {"panic", "fire", "alarm", "alarm2", "alarm3", "alarm4"}
SetBy(s) ==
  IF s \in AlarmScenes THEN <<s, Active>>
  ELSE IF s \in DOMAIN GroupScenes THEN GroupScenes[s]
  ELSE [absent |-> <<"presence", 2>>, present |-> <<"presence", 1>>,
        sleeping |-> <<"hibernation", 2>>, wakeup |-> <<"hibernation", 1>>][s]
ApartmentScenes == AlarmScenes \cup DOMAIN GroupScenes
                     \cup {"absent", "present", "sleeping", "wakeup"}

(* Group::callScene and undoScene: what is sent on the bus comes back as a *)
(* model event                                                             *)
Seen(ob, m) ==
  IF m.kind = "call" /\ m.scene \in DOMAIN GroupScenes
  THEN [ob EXCEPT ![InGroup(GroupScenes[m.scene][1], m.group)] = GroupScenes[m.scene][2]]
  ELSE ob
Handling(kind) == eventQueue # <<>> /\ Head(eventQueue).kind = kind
TheEvent == Head(eventQueue)
Handled(sets, o, raised, sent) ==
  /\ \E s \in {sets} :
       /\ setState(s)
       /\ eventQueue' = Tail(eventQueue) \o Changes(s, o) \o raised
  /\ modelQueue' = modelQueue \o sent
  /\ onBus' = IF sent = <<>> THEN onBus ELSE Seen(onBus, Last(sent))
  /\ cleared' = IF TheEvent.kind = "model_ready"     \* may restore an alarm
                THEN {s \in cleared : m_states'[At(s)] # Active} ELSE cleared
  /\ UNCHANGED <<inputs, offered, messages, restarts, overridden, doubtful, before>>

-----------------------------------------------------------------------------
(* The handlers of SystemState::run                                        *)

NeverSystem(o) == FALSE
FromSystem(o) == o = "system"

(* the user groups with a rain state follow RainInactive of group 0 *)
RainStates == {InGroup("rain", g) : g \in {u \in UserGroups : m_states[InGroup("rain", u)] # None}}
CallSets(e) ==
  IF e.group = 0 /\ e.scene \in ApartmentScenes
  THEN Over(Only(At(SetBy(e.scene)[1]), SetBy(e.scene)[2]),
            [k \in IF e.scene = "rainInactive" THEN RainStates ELSE {} |-> Inactive])
  ELSE IF e.group \in UserGroups /\ e.scene \in DOMAIN GroupScenes
  THEN Only(InGroup(SetBy(e.scene)[1], e.group), SetBy(e.scene)[2])
  ELSE NoState
(* #2561: auto-clear panic and fire *)
ClearedBy(s) ==
  IF m_states[At(s)] = Active THEN <<SceneCall("undo", s, 0, "system")>> ELSE <<>>
callscene ==
  /\ Handling("call")
  /\ LET e == TheEvent
     IN IF FromSystem(e.origin) THEN Handled(NoState, "system", <<>>, <<>>)
        ELSE Handled(CallSets(e), "system", <<>>,
               IF e.scene = "absent" /\ e.group = 0 THEN ClearedBy("panic") \o ClearedBy("fire") ELSE <<>>)
  /\ UNCHANGED <<counters, ready>>

(* the other one is reset too, if a button has reset this *)
Partner == [panic |-> "fire", fire |-> "panic"]
IgnoresSystem(e) == e.group = 0 /\ e.scene \in AlarmScenes /\ ~FromSystem(e.origin)
Undoes(e) == e.group = 0 /\ e.scene \in AlarmScenes
undoscene ==
  /\ Handling("undo")
  /\ LET e == TheEvent
     IN IF Undoes(e)
        THEN Handled(Only(At(e.scene), Inactive), "system", <<>>,
               IF e.button /\ e.origin = "dsmApi" /\ e.scene \in DOMAIN Partner
               THEN ClearedBy(Partner[e.scene]) ELSE <<>>)
        ELSE Handled(NoState, "system", <<>>, <<>>)
  /\ UNCHANGED <<counters, ready>>

(* stateBinaryInputGeneric counts the inputs of a target group that are on *)
Counter(i) == <<KeyOf(i), i.group>>
BelowZero(i, v) ==
  IF v = Active THEN counters[Counter(i)] + 1 ELSE counters[Counter(i)] - 1
OffAtOnce(i, v) == IF v = Active THEN counters[Counter(i)] + 1 ELSE 0
CountAfter(i, v) ==
  IF v = Active THEN counters[Counter(i)] + 1
  ELSE IF v = Inactive /\ counters[Counter(i)] > 0 THEN counters[Counter(i)] - 1
  ELSE counters[Counter(i)]
CombinedSets(i, v) ==
  Only(KeyOf(i), IF v = Active THEN Active
                 ELSE IF v = Inactive /\ CountAfter(i, v) = 0 THEN Inactive
                 ELSE Current(KeyOf(i)))

HeatingMode(heating, mode) ==
  IF heating = Inactive THEN <<0>>
  ELSE IF heating = Active /\ mode \in {Active, Inactive} THEN <<mode>>
  ELSE <<>>
HeatingModeOf(states) ==
  HeatingMode(states[At("heating_system")], states[At("heating_system_mode")])
(* evaluate heating mode, from the states as the input has just set them *)
ModeAfter(i, sets)  == HeatingModeOf(Over(sets, m_states))
HeatingSignals(i, sets) ==
  IF i.type \in {"heating_system", "heating_system_mode"}
  THEN [j \in DOMAIN ModeAfter(i, sets) |->
          Signal(At("heating_water_system"), ModeAfter(i, sets)[j])]
  ELSE <<>>

stateBinaryinput ==
  /\ Handling("device")
  /\ LET i == TheEvent.input
         v == TheEvent.value
     IN \/ /\ i.type \in Combined
           /\ counters' = [counters EXCEPT ![Counter(i)] = CountAfter(i, v)]
           /\ Handled(CombinedSets(i, v), "binaryInput",
                      HeatingSignals(i, CombinedSets(i, v)), <<>>)
        \/ /\ i.type = "smoke"
           /\ Handled(IF v = Active THEN Only(At("fire"), Active) ELSE NoState,
                      "binaryInput", <<>>, <<>>)
           /\ UNCHANGED counters
        \/ /\ i.type = "thermostat"
           /\ Handled(NoState, "binaryInput", <<>>,
                <<SceneCall("call", IF v = Active THEN "preset1" ELSE "off", 3, "binaryInput")>>)
           /\ UNCHANGED counters
  /\ UNCHANGED ready

(* the group of "rain.group<id>" *)
GroupOf(k) == k[2]
(* what a change of a state sends to the bus *)
ChangeSent(k, v) ==
  IF v \notin {Active, Inactive} THEN <<>>
  ELSE IF k = At("fire")
  THEN <<SceneCall(IF v = Active THEN "call" ELSE "undo", "fire", 0, "system")>>
  ELSE <<SceneCall("call", CHOOSE s \in DOMAIN GroupScenes : GroupScenes[s] = <<k[1], v>>,
                   GroupOf(k), "system")>>
stateApartment ==
  /\ Handling("service")
  /\ Handled(NoState, "system", <<>>,
             IF FromSystem(TheEvent.origin) THEN <<>>
             ELSE ChangeSent(TheEvent.key, TheEvent.value))
  /\ UNCHANGED <<counters, ready>>

(* FrostProtection, HeatingModeSwitch, BuildingService *)
HandleSignal ==
  /\ Handling("signal")
  /\ Handled(Only(TheEvent.key, TheEvent.value), "dsmApi", <<>>, <<>>)
  /\ UNCHANGED <<counters, ready>>

(* Present by default; the heating states have defaults without a file *)
BootValue(k) ==
  IF k = At("presence") THEN 1
  ELSE IF k[1] \in {"heating_system", "heating_system_mode", "heating_water_system"}
          /\ files[k] = None THEN 1
  ELSE Loaded(k)
bootstrap ==
  /\ Handling("running")
  /\ Handled([k \in Bootstrapped |-> BootValue(k)], "system", <<>>, <<>>)
  /\ UNCHANGED <<counters, ready>>

(* model_ready.  last: the scenes that groups of a zone have called last,  *)
(* as the dSMs report them.  allocateState throws for a state that is      *)
(* registered already, which ends the handler: for the wind state of a     *)
(* group before the states are restored, for that of a cluster after it.   *)
RestoredAlarm(last, s) ==
  IF s \notin last THEN Inactive
  ELSE IF m_states[At(s)] = Inactive THEN Active ELSE m_states[At(s)]
Restored(last) ==
  [k \in {At("presence"), At("hibernation"), At("panic"), At("alarm")} |->
     CASE k = At("presence")    -> IF "absent" \in last THEN m_states[k] ELSE 1
       [] k = At("hibernation") -> IF "sleeping" \in last THEN m_states[k] ELSE 1
       [] OTHER                 -> RestoredAlarm(last, k[1])]
InputStates ==
  {KeyOf(i) : i \in {j \in Inputs : \/ j.type \in {"motion", "presence"}
                                    \/ j.type \in {"wind", "rain"} /\ j.group \in UserGroups}}
  \cup {InGroup("frost", i.group) :      \* registered, but never set
          i \in {j \in Inputs : j.type = "frost" /\ j.group \in UserGroups}}
Duplicates ==
  {g \in Blinds : m_states[InGroup("wind", g)] # None \/ InGroup("wind", g) \in InputStates}
WindStates == {InGroup("wind", g) : g \in {b \in Blinds : \A d \in Duplicates : b < d}}
startup ==
  /\ Handling("model_ready")
  /\ \E last \in LastScenes :
       LET service == IF files[At("building_service")] # None
                         /\ \A g \in Blinds : files[InGroup("wind", g)] = None
                      THEN {At("building_service")} ELSE {}
           Registered(keys) == [k \in keys |-> Current(k)]
       IN Handled(IF Duplicates = {}
                  THEN Over(Restored(last), Registered(InputStates \cup WindStates \cup service))
                  ELSE Registered(InputStates \cup WindStates), "other", <<>>, <<>>)
  /\ UNCHANGED <<counters, ready>>

-----------------------------------------------------------------------------
(* The bus, the thread of ModelMaintenance and a restart                   *)

Raises(m, s) ==
  \/ m.kind = "call" /\ m.scene = s /\ m.group = 0
  \/ m.kind = "report" /\ s = "fire" /\ m.input.type = "smoke" /\ m.value = Active
Clears(m, s) ==
  \/ m.kind = "call" /\ m.scene = "absent" /\ m.group = 0
  \/ m.kind = "undo" /\ m.group = 0
     /\ \/ m.scene = s
        \/ m.button /\ m.origin = "dsmApi" /\ m.scene \in DOMAIN Partner /\ s = Partner[m.scene]
Overrides(m) ==
  IF m.kind = "signal" THEN {m.key}
  ELSE IF m.kind = "call" /\ m.scene \in DOMAIN GroupScenes
  THEN {k \in StateKeys : k[1] = GroupScenes[m.scene][1] /\ m.group \in {0, k[2]}}
  ELSE {}

Receive(m) ==
  /\ messages < MaxMessages
  /\ messages' = messages + 1
  /\ modelQueue' = Append(modelQueue, m)
  /\ onBus' = Seen(onBus, m)
  /\ overridden' = overridden \cup Overrides(m)
  /\ cleared' = {s \in {"panic", "fire"} : Clears(m, s) \/ (s \in cleared /\ ~Raises(m, s))}
  /\ before' = [k \in StateKeys |-> None]
  /\ UNCHANGED <<m_states, files, inputs, counters, eventQueue, ready, offered, restarts, doubtful>>

(* DeviceBinaryInput::handleEvent: State_Unknown for what it does not know *)
handleBinaryInputEvent(i, v) ==
  /\ inputs' = [inputs EXCEPT ![i] = v]
  /\ eventQueue' = IF inputs[i] = v THEN eventQueue
                   ELSE Append(eventQueue, [kind |-> "device", input |-> i, value |-> v])
  /\ doubtful' = IF {inputs[i], v} \subseteq {Active, Inactive} THEN doubtful
                 ELSE doubtful \cup {i}

HandleMessage ==
  /\ modelQueue # <<>>
  /\ modelQueue' = Tail(modelQueue)
  /\ LET m == Head(modelQueue)
     IN \/ m.kind = "report" /\ handleBinaryInputEvent(m.input, m.value)
        \/ m.kind # "report" /\ eventQueue' = Append(eventQueue, m)
           /\ UNCHANGED <<inputs, doubtful>>
  /\ UNCHANGED <<m_states, files, counters, ready, offered, messages, restarts, onBus,
                 overridden, cleared, before>>

RaiseModelReady ==
  /\ ~ready
  /\ ready' = TRUE
  /\ eventQueue' = Append(eventQueue, [kind |-> "model_ready"])
  /\ UNCHANGED <<m_states, files, inputs, counters, modelQueue, offered, messages, restarts,
                 histVars>>

(* A crash or a stop, and the start of the dSS *)
Restart ==
  /\ restarts < MaxRestarts
  /\ restarts' = restarts + 1
  /\ m_states' = [k \in StateKeys |-> None]
  /\ counters' = [c \in CounterKeys |-> 0]
  /\ modelQueue' = <<>> /\ eventQueue' = <<[kind |-> "running"]>> /\ ready' = FALSE
  /\ before' = [k \in StateKeys |-> IF m_states[k] # None THEN m_states[k] ELSE before[k]]
  /\ overridden' = StateKeys /\ doubtful' = Inputs /\ cleared' = {}
  /\ UNCHANGED <<files, inputs, offered, messages, onBus>>

(* the event "running" starts the plugin *)
StatesCleared ==
  /\ m_states = [k \in StateKeys |-> None] /\ files = [k \in StateKeys |-> None]
  /\ inputs = [i \in Inputs |-> IF i \in Fresh THEN Invalid ELSE Inactive]
  /\ counters = [c \in CounterKeys |-> 0]
  /\ modelQueue = <<>> /\ ready = FALSE
  /\ offered \in Offers /\ messages = 0 /\ restarts = 0
  /\ onBus = [k \in StateKeys |-> None]
  /\ overridden = {} /\ doubtful = {} /\ cleared = {}
  /\ before = [k \in StateKeys |-> None]
StatesInit == StatesCleared /\ eventQueue = <<[kind |-> "running"]>>

RunSystemState ==
  \/ bootstrap \/ startup \/ callscene \/ undoscene
  \/ stateBinaryinput \/ stateApartment \/ HandleSignal

StatesNext ==
  \/ \E m \in offered : Receive(m)
  \/ HandleMessage \/ RunSystemState \/ RaiseModelReady \/ Restart

(* The threads of ModelMaintenance and of the plugin run; the initialization ends *)
StatesFairness == /\ WF_stateVars(HandleMessage) /\ WF_stateVars(RunSystemState)
                  /\ WF_stateVars(RaiseModelReady)
StatesSpec == StatesInit /\ [][StatesNext]_stateVars /\ StatesFairness

-----------------------------------------------------------------------------
Quiet == modelQueue = <<>> /\ eventQueue = <<>>

(* What the plugin calls because of a state, and the states it sets because *)
(* of a call, do not keep each other going: "to avoid loops".               *)
FeedbackEnds == <>[]Quiet

(* #2561: after the call of Absent, an undo, or the undo of the other one   *)
(* by a button, panic and fire are not active, whatever was called, undone  *)
(* or detected before and is still on its way.                              *)
AlarmIsCleared ==
  Quiet => \A s \in cleared : m_states[At(s)] # Active

(* Where only sensors tell, the last scene called for wind or rain on the  *)
(* bus, in the sensor's group, is the one of the state.                    *)
BusFollowsState ==
  Quiet => \A k \in StateKeys \ overridden : k[1] \in {"wind", "rain"} =>
    \/ onBus[k] = m_states[k]
    \/ onBus[k] = None /\ m_states[k] \in {None, Inactive}

(* "logical or combination of multiple binary inputs": where all inputs of *)
(* a state were known and have the same target group, and nothing else has *)
(* set it, it is active when one of them is.                               *)
Feeding(k) == {i \in Inputs : i.type \in Combined /\ KeyOf(i) = k}
OneTarget(k) == \A i, j \in Feeding(k) : i.group = j.group
CombinedIsOr ==
  Quiet => \A k \in StateKeys \ overridden :
    k[1] \in {"motion", "presence", "wind", "rain", "frost"} /\ Feeding(k) # {}
      /\ Feeding(k) \cap doubtful = {} /\ OneTarget(k)
    => (m_states[k] = Active <=> \E i \in Feeding(k) : inputs[i] = Active)

(* The heating mode that is signalled is the one of the two heating states *)
(* in the end, whichever of the inputs came last.                          *)
HeatingModeFollows ==
  Quiet /\ At("heating_water_system") \notin overridden =>
    HeatingModeOf(m_states) \in {<<>>, <<m_states[At("heating_water_system")]>>}

(* A restart, at any moment, does not change an alarm, wind, rain or frost: *)
(* what was set was saved, and is loaded; model_ready does not reset it.    *)
AlarmSurvivesRestart ==
  \A s \in {"fire", "alarm2", "alarm3", "alarm4", "wind", "rain", "frost"} :
    before[At(s)] # None /\ m_states[At(s)] # None => m_states[At(s)] = before[At(s)]

(* When all messages were handled the states agree with what they depend   *)
(* on and with what was sent because of them: inputs, bus, heating mode    *)
StatesAgree == BusFollowsState /\ CombinedIsOr /\ HeatingModeFollows
=============================================================================
