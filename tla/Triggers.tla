------------------------------ MODULE Triggers ------------------------------
(***************************************************************************)
(* The triggers of user-defined actions (handler/system_triggers.cpp,      *)
(* systemcondition.cpp): an event is compared with each trigger under      *)
(* /usr/triggers; one that matches and whose conditions hold is relayed as *)
(* an event, at once or after a delay (lag).  While a delayed event is     *)
(* pending a further match may put it off (reschedule), and matches may be *)
(* suppressed for an interval (damping).  Both keep what they need in the  *)
(* property tree.  The thread of the interpreter runs the triggers for     *)
(* most events, the thread of the highlevelevent plugin for high-level     *)
(* events: two threads that share those nodes.                             *)
(***************************************************************************)
EXTENDS Integers, Sequences, FiniteSets

CONSTANTS
  Setups,      \* triggers, and the events and states of the world there are;
               \* max: bound, events raised
  DayLength,   \* seconds of a day
  MaxTrigTime  \* bound: seconds

ASSUME TriggersAssumption ==
  /\ DayLength \in Nat \ {0} /\ MaxTrigTime \in Nat
  /\ \A s \in Setups :
       /\ s.max \in Nat
       /\ Len(s.triggers) \in Nat \ {0} /\ DOMAIN s.triggers = 1 .. Len(s.triggers)
       /\ \A t \in DOMAIN s.triggers :
            /\ s.triggers[t].reschedule \in BOOLEAN /\ s.triggers[t].rewind \in BOOLEAN
            /\ s.triggers[t].delay \in Int /\ s.triggers[t].interval \in Int

AnyValue     == "-1"
Missing == -1000   \* a property node that does not exist
Never   == -1000   \* no time stamp yet
Highlevel == "highlevelevent"

VARIABLES
  setup,
  trigNow,
  world,        \* what conditions look at: system states
  raised, eventsQueued, tasksQueued,
  tpc, tev, tidx,          \* of a thread: step, event, trigger
  tlast,        \* of a thread: the time stamp it has read, or the ID it got
  lastTrigger,  \* damping/lastTrigger
  scheduledAt,  \* lag/last_event_scheduled_at
  eventid,      \* lag/eventid
  scheduled,    \* timed events of the runner: [id, trigger, due]
  nextID,
  acted,        \* history: when the last action was due that was executed
  relayedAt,    \* history: when a trigger was last relayed
  passedAt,     \* history: when a match was last not suppressed
  matchedAt,    \* history: when the event a thread works on was found to match
  settledAt     \* history: when a match of a trigger was last dealt with

trigVars == <<setup, trigNow, world, raised, eventsQueued, tasksQueued, tpc, tev, tidx, tlast,
              lastTrigger, scheduledAt, eventid, scheduled, nextID, acted, relayedAt,
              passedAt, matchedAt, settledAt>>
nodeVars == <<lastTrigger, scheduledAt, eventid>>
historyVars == <<acted, relayedAt, passedAt, matchedAt, settledAt>>
inputVars == <<setup, trigNow, world, raised, eventsQueued, tasksQueued>>

TrigThreads == {"interpreter", "task"}
TrigSteps   == {"idle", "check", "lag", "remove", "stamp", "push", "saveId", "saveTs",
                "damping", "interval"}
Trig(t)  == setup.triggers[t]
TrigIds  == DOMAIN setup.triggers
Times    == 0 .. MaxTrigTime \cup {Never}

TriggersTypeOK ==
  /\ setup \in Setups /\ trigNow \in 0 .. MaxTrigTime /\ raised \in 0 .. setup.max
  /\ tpc \in [TrigThreads -> TrigSteps]
  /\ \A th \in TrigThreads : tpc[th] # "idle" => tidx[th] \in TrigIds
  /\ lastTrigger \in [TrigIds -> Times] /\ scheduledAt \in [TrigIds -> Times]
  /\ \A s \in scheduled : s.id < nextID /\ s.trigger \in TrigIds
  /\ \A t \in TrigIds : eventid[t] \in 0 .. nextID - 1 \cup {Missing}

-----------------------------------------------------------------------------
(* Does an event match?  A criterion gives values to some fields.          *)

Equal(c, e, f)    == f \in DOMAIN c /\ c[f] = e[f]
Wildcard(c, e, f) == f \in DOMAIN c /\ c[f] \in {AnyValue, e[f]}
Optional(c, e, f) ==
  f \in DOMAIN c => c[f] \in {AnyValue, e[f]} \/ (f = "dsuid" /\ c[f] = "")
Flag(c, e, f)     == f \in DOMAIN c => c[f] = e[f]

(* The event that a type of criterion is about, where it must be raised,   *)
(* and how each of its fields is compared                                  *)
Kind(event, at, equal, wildcard, optional, flag) ==
  [event |-> event, at |-> at, equal |-> equal, wildcard |-> wildcard,
   optional |-> optional, flag |-> flag]
Anywhere == {"group", "device", "state", "apartment"}
SceneZone(event) == Kind(event, {"group"}, {"scene"}, {"zone", "group"}, {"dsuid"}, {"forced"})
OnDevice(event, at, wildcard, optional) ==
  Kind(event, at, {}, {"dsuid"} \cup wildcard, optional, {})
Kinds == [
  zone_scene |-> SceneZone("callScene"),
  bus_zone_scene |-> SceneZone("callSceneBus"),
  undo_zone_scene |->
    Kind("undoScene", {"group"}, {}, {"zone"}, {"group", "scene", "dsuid"}, {}),
  device_scene |-> Kind("callScene", {"device"}, {"scene"}, {"dsuid"}, {}, {}),
  device_msg |-> OnDevice("buttonClick", {"device"}, {"msg"}, {"buttonIndex"}),
  device_action |-> OnDevice("buttonDeviceAction", {"device"}, {"action"}, {}),
  device_sensor |-> OnDevice("deviceSensorEvent", Anywhere, {}, {}),
  device_binary_input |->
    Kind("deviceBinaryInputEvent", Anywhere, {"state"}, {}, {}, {}),
  device_named_action |-> OnDevice("deviceActionEvent", {"device"}, {"id"}, {}),
  device_named_event |-> OnDevice("deviceEventEvent", {"device"}, {"id"}, {}),
  device_sensor_value |->
    Kind("deviceSensorValue", Anywhere, {"dsuid", "sensor"}, {}, {}, {}),
  zone_sensor_value |-> Kind("zoneSensorValue", Anywhere, {"zone", "sensor"}, {}, {}, {}),
  custom_event |-> Kind(Highlevel, Anywhere, {"event"}, {}, {}, {}),
  state_change |-> Kind("stateChange", Anywhere, {"name"}, {}, {}, {}),
  addon_state_change |->
    Kind("addonStateChange", Anywhere, {"addon", "name"}, {}, {}, {})]

(* what the table does not say *)
checkDeviceSensor(c, e) ==
  IF "eventid" \in DOMAIN c THEN Wildcard(c, e, "eventid") ELSE Wildcard(c, e, "evt")
checkDeviceBinaryInput(c, e) ==
  /\ Flag(c, e, "stype")
  /\ \/ Wildcard(c, e, "dsuid") /\ (Equal(c, e, "index") \/ "stype" \in DOMAIN c)
     \/ "dsuid" \notin DOMAIN c /\ "stype" \in DOMAIN c
(* a criterion without state (or value) has "" to compare with *)
checkState(c, e) ==
  /\ {"state", "value"} \cap DOMAIN c # {}
  /\ \/ e.state = (IF "state" \in DOMAIN c THEN c.state ELSE "")
     \/ e.value = (IF "value" \in DOMAIN c THEN c.value ELSE "")
  /\ "oldvalue" \in DOMAIN c => c.oldvalue \in {"", e.oldvalue}
checkSensorValue(c, e) ==
  /\ {"value", "operator"} \subseteq DOMAIN c
  /\ \/ c.operator = "greater" /\ e.value > c.value
     \/ c.operator = "lower" /\ e.value < c.value
(* any other event *)
checkEvent(c, e) ==
  /\ e.name \notin {Kinds[k].event : k \in DOMAIN Kinds}
  /\ Equal(c, e, "name")
  /\ \A p \in DOMAIN c.parameter :
       p \in DOMAIN e.parameter /\ e.parameter[p] = c.parameter[p]

checkTriggerNode(c, e) ==
  IF c.type = "event" THEN checkEvent(c, e)
  ELSE LET k == Kinds[c.type]
       IN /\ e.name = k.event /\ e.at \in k.at
          /\ \A f \in k.equal : Equal(c, e, f)
          /\ \A f \in k.wildcard : Wildcard(c, e, f)
          /\ \A f \in k.optional : Optional(c, e, f)
          /\ \A f \in k.flag : Flag(c, e, f)
          /\ c.type = "device_sensor" => checkDeviceSensor(c, e)
          /\ c.type = "device_binary_input" => checkDeviceBinaryInput(c, e)
          /\ c.type \in {"state_change", "addon_state_change"} => checkState(c, e)
          /\ c.type \in {"device_sensor_value", "zone_sensor_value"} => checkSensorValue(c, e)
checkTrigger(t, e) == \E c \in Trig(t).criteria : checkTriggerNode(c, e)

-----------------------------------------------------------------------------
(* Conditions.  world.states[n]: the value and the description of a state  *)

secNow  == trigNow % DayLength
weekday == (trigNow \div DayLength) % 7
checkTimeCondition(start, end) ==
  IF start < end THEN ~(secNow < start \/ secNow > end)
  ELSE ~(secNow < start /\ secNow > end)

StatesHold(c) ==
  \A n \in DOMAIN c.states : n \in DOMAIN world.states
    /\ (world.states[n] = {} \/ c.states[n] \in world.states[n])
AddonStatesHold(c) ==
  \A n \in DOMAIN c.addon : n \in DOMAIN world.addon /\ c.addon[n] = world.addon[n]
OneAddonStateHolds(c) ==
  \E n \in DOMAIN c.orAddon : n \in DOMAIN world.addon /\ c.orAddon[n] = world.addon[n]
OneZoneHolds(c) ==
  \E z \in DOMAIN c.zones : z \in DOMAIN world.scenes /\ c.zones[z] = world.scenes[z]

(* a condition that is not given is not in the record *)
Given(c, f, holds) == f \in DOMAIN c => holds
checkSystemCondition(c) ==
  /\ Given(c, "enabled", c.enabled)
  /\ Given(c, "states", StatesHold(c))
  /\ Given(c, "addon", AddonStatesHold(c))
  /\ Given(c, "orAddon", OneAddonStateHolds(c))
  /\ Given(c, "zones", OneZoneHolds(c))
  /\ Given(c, "weekdays", c.weekdays = {} \/ weekday \in c.weekdays)
  /\ Given(c, "time", checkTimeCondition(c.time[1], c.time[2]))
  /\ Given(c, "dates", \E d \in c.dates : trigNow \in d)    \* ICalEvent

-----------------------------------------------------------------------------
(* SystemTrigger::run, on one of the threads                               *)

TAt(th, step) == tpc[th] = step
TrigOf(th)    == tidx[th]
TGo(th, step)  == tpc' = [tpc EXCEPT ![th] = step] /\ UNCHANGED <<tev, tidx>>
NoEvent == [name |-> ""]
Leave(th) == /\ tpc' = [tpc EXCEPT ![th] = "idle"] /\ tidx' = [tidx EXCEPT ![th] = 1]
             /\ tev' = [tev EXCEPT ![th] = NoEvent]
(* the loop goes on with the next trigger *)
Continue(th) ==
  IF tidx[th] < Len(setup.triggers)
  THEN /\ tpc' = [tpc EXCEPT ![th] = "check"]
       /\ tidx' = [tidx EXCEPT ![th] = @ + 1] /\ UNCHANGED tev
  ELSE Leave(th)
(* history; a time is only kept where a property looks at it *)
Settled(th)  ==
  /\ settledAt' = [settledAt EXCEPT ![TrigOf(th)] = IF Trig(TrigOf(th)).interval >= 0 THEN trigNow ELSE @]
  /\ matchedAt' = [matchedAt EXCEPT ![th] = Never]
Relaying(th) ==
  relayedAt' = [relayedAt EXCEPT ![TrigOf(th)] = IF Trig(TrigOf(th)).delay > 0 THEN trigNow ELSE @]

(* A property of the wrong type throws, which ends the loop *)
CheckTrigger(th) ==
  /\ TAt(th, "check")
  /\ LET t == TrigOf(th)
     IN \/ /\ checkTrigger(t, tev[th]) /\ ~Trig(t).mistyped
           /\ checkSystemCondition(Trig(t).conditions)
           /\ TGo(th, "lag")
           /\ matchedAt' = [matchedAt EXCEPT ![th] = trigNow]
        \/ /\ checkTrigger(t, tev[th]) /\ Trig(t).mistyped
           /\ Leave(th) /\ UNCHANGED matchedAt
        \/ /\ ~(checkTrigger(t, tev[th]) /\ (Trig(t).mistyped
                    \/ checkSystemCondition(Trig(t).conditions)))
           /\ Continue(th) /\ UNCHANGED matchedAt
  /\ UNCHANGED <<inputVars, tlast, nodeVars, scheduled, nextID, acted, relayedAt, passedAt,
                 settledAt>>

(* "assume action was executed, or let it execute" *)
Reschedules(t) == Trig(t).reschedule /\ Trig(t).delay # Missing /\ eventid[t] # Missing
rescheduleAction(th) ==
  /\ TAt(th, "lag")
  /\ LET t == TrigOf(th)
     IN IF Reschedules(t) /\ trigNow - scheduledAt[t] <= Trig(t).delay
        THEN TGo(th, "remove") /\ Relaying(th)
        ELSE TGo(th, "damping") /\ UNCHANGED relayedAt
  /\ UNCHANGED <<inputVars, tlast, nodeVars, scheduled, nextID, acted, passedAt, matchedAt,
                 settledAt>>

NotRemoved(t)  == scheduled
removeEvent(t) == {s \in scheduled : s.id # eventid[t]}
RemoveEvent(th) ==
  /\ TAt(th, "remove")
  /\ scheduled' = removeEvent(TrigOf(th))
  /\ TGo(th, "stamp")
  /\ UNCHANGED <<inputVars, tlast, nodeVars, nextID, historyVars>>
OnlyRemoved(th) == Continue(th)
ThenRelay(th)   == TGo(th, "push")
StampEvent(th) ==
  /\ TAt(th, "stamp")
  /\ scheduledAt' = [scheduledAt EXCEPT ![TrigOf(th)] = trigNow]
  /\ ThenRelay(th)
  /\ UNCHANGED <<inputVars, tlast, lastTrigger, eventid, scheduled, nextID, historyVars>>

(* damping: the first match ever passes; else the last time stamp is read *)
Passed(th) ==
  /\ passedAt' = [passedAt EXCEPT ![TrigOf(th)] = IF Trig(TrigOf(th)).interval >= 0 THEN trigNow ELSE @]
  /\ Relaying(th) /\ UNCHANGED <<settledAt, matchedAt>>
damping(th) ==
  /\ TAt(th, "damping")
  /\ LET t == TrigOf(th)
     IN \/ /\ Trig(t).interval = Missing
           /\ TGo(th, "push") /\ Passed(th) /\ UNCHANGED <<lastTrigger, tlast>>
        \/ /\ Trig(t).interval # Missing /\ lastTrigger[t] = Never
           /\ lastTrigger' = [lastTrigger EXCEPT ![t] = trigNow]
           /\ TGo(th, "push") /\ Passed(th) /\ UNCHANGED tlast
        \/ /\ Trig(t).interval # Missing /\ lastTrigger[t] # Never
           /\ tlast' = [tlast EXCEPT ![th] = lastTrigger[t]]
           /\ TGo(th, "interval")
           /\ UNCHANGED <<lastTrigger, relayedAt, passedAt, settledAt, matchedAt>>
  /\ UNCHANGED <<inputVars, scheduledAt, eventid, scheduled, nextID, acted>>

Damps(th, t) == trigNow - tlast[th] < Trig(t).interval
dampInterval(th) ==
  /\ TAt(th, "interval")
  /\ LET t == TrigOf(th)
     IN IF Trig(t).interval < 0
        THEN TGo(th, "push") /\ Passed(th) /\ UNCHANGED lastTrigger
        ELSE IF Damps(th, t)
        THEN /\ lastTrigger' = IF Trig(t).rewind THEN [lastTrigger EXCEPT ![t] = trigNow]
                               ELSE lastTrigger
             /\ Continue(th) /\ Settled(th) /\ UNCHANGED <<relayedAt, passedAt>>
        ELSE /\ lastTrigger' = [lastTrigger EXCEPT ![t] = trigNow]
             /\ TGo(th, "push") /\ Passed(th)
  /\ tlast' = [tlast EXCEPT ![th] = Never]
  /\ UNCHANGED <<inputVars, scheduledAt, eventid, scheduled, nextID, acted>>

(* relayTrigger: at once, not at all, or as a timed event *)
relayTrigger(th) ==
  /\ TAt(th, "push")
  /\ LET t == TrigOf(th)
         delay == Trig(t).delay
     IN \/ /\ delay \in {Missing, 0}
           /\ acted' = [acted EXCEPT ![t] = trigNow]
           /\ Continue(th) /\ Settled(th) /\ UNCHANGED <<scheduled, nextID, tlast>>
        \/ /\ delay < 0 /\ delay # Missing
           /\ Continue(th) /\ Settled(th) /\ UNCHANGED <<scheduled, nextID, tlast, acted>>
        \/ /\ delay > 0
           /\ scheduled' = scheduled
                \cup {[id |-> nextID, trigger |-> t, due |-> trigNow + delay]}
           /\ nextID' = nextID + 1
           /\ tlast' = [tlast EXCEPT ![th] = nextID]
           /\ TGo(th, "saveId") /\ UNCHANGED <<acted, settledAt, matchedAt>>
  /\ UNCHANGED <<inputVars, nodeVars, relayedAt, passedAt>>
SaveId(th) ==
  /\ TAt(th, "saveId")
  /\ eventid' = [eventid EXCEPT ![TrigOf(th)] = tlast[th]]
  /\ tlast' = [tlast EXCEPT ![th] = Never]
  /\ TGo(th, "saveTs")
  /\ UNCHANGED <<inputVars, lastTrigger, scheduledAt, scheduled, nextID, historyVars>>
SaveTs(th) ==
  /\ TAt(th, "saveTs")
  /\ scheduledAt' = [scheduledAt EXCEPT ![TrigOf(th)] = trigNow]
  /\ Continue(th) /\ Settled(th)
  /\ UNCHANGED <<inputVars, tlast, lastTrigger, eventid, scheduled, nextID, acted, relayedAt,
                 passedAt>>

TriggerStep(th) ==
  \/ CheckTrigger(th) \/ rescheduleAction(th) \/ RemoveEvent(th) \/ StampEvent(th)
  \/ damping(th) \/ dampInterval(th) \/ relayTrigger(th) \/ SaveId(th) \/ SaveTs(th)

-----------------------------------------------------------------------------
(* The interpreter hands high-level events to the other thread             *)

Start(th, e) ==
  /\ tpc' = [tpc EXCEPT ![th] = "check"]
  /\ tev' = [tev EXCEPT ![th] = e]
  /\ tidx' = [tidx EXCEPT ![th] = 1]
HandleEvent ==
  /\ TAt("interpreter", "idle") /\ eventsQueued # <<>>
  /\ eventsQueued' = Tail(eventsQueued)
  /\ LET e == Head(eventsQueued)
     IN IF e.name = Highlevel
        THEN tasksQueued' = Append(tasksQueued, e) /\ UNCHANGED <<tpc, tev, tidx>>
        ELSE Start("interpreter", e) /\ UNCHANGED tasksQueued
  /\ UNCHANGED <<setup, trigNow, world, raised, tlast, nodeVars, scheduled, nextID, historyVars>>
StartTask ==
  /\ TAt("task", "idle") /\ tasksQueued # <<>>
  /\ tasksQueued' = Tail(tasksQueued)
  /\ Start("task", Head(tasksQueued))
  /\ UNCHANGED <<setup, trigNow, world, raised, eventsQueued, tlast, nodeVars, scheduled, nextID,
                 historyVars>>

RaiseTrigEvent(e) ==
  /\ raised < setup.max
  /\ raised' = raised + 1
  /\ eventsQueued' = Append(eventsQueued, e)
  /\ UNCHANGED <<setup, trigNow, world, tasksQueued, tpc, tev, tidx, tlast, nodeVars, scheduled,
                 nextID, historyVars>>
ChangeWorld(w) ==
  /\ world' = w /\ w # world
  /\ UNCHANGED <<setup, trigNow, raised, eventsQueued, tasksQueued, tpc, tev, tidx, tlast, nodeVars,
                 scheduled, nextID, historyVars>>

(* EventRunner: the events that are due, in the order they were added *)
RunTimed(s) ==
  /\ s.due <= trigNow /\ \A r \in scheduled : r.due <= trigNow => s.id <= r.id
  /\ scheduled' = scheduled \ {s}
  /\ acted' = [acted EXCEPT ![s.trigger] = s.due]
  /\ UNCHANGED <<inputVars, tpc, tev, tidx, tlast, nodeVars, nextID, relayedAt, passedAt,
                 matchedAt, settledAt>>
TrigTick ==
  /\ trigNow < MaxTrigTime
  /\ trigNow' = trigNow + 1
  /\ UNCHANGED <<setup, world, raised, eventsQueued, tasksQueued, tpc, tev, tidx, tlast, nodeVars,
                 scheduled, nextID, historyVars>>

TriggersInit ==
  /\ setup \in Setups /\ trigNow = 0 /\ world \in setup.worlds /\ raised = 0
  /\ eventsQueued = <<>> /\ tasksQueued = <<>>
  /\ tpc = [th \in TrigThreads |-> "idle"] /\ tidx = [th \in TrigThreads |-> 1]
  /\ tev = [th \in TrigThreads |-> NoEvent] /\ tlast = [th \in TrigThreads |-> Never]
  /\ lastTrigger = [t \in TrigIds |-> Never] /\ scheduledAt = [t \in TrigIds |-> Never]
  /\ eventid = [t \in TrigIds |-> Missing] /\ scheduled = {} /\ nextID = 0
  /\ acted = [t \in TrigIds |-> Never] /\ relayedAt = [t \in TrigIds |-> Never]
  /\ passedAt = [t \in TrigIds |-> Never] /\ settledAt = [t \in TrigIds |-> Never]
  /\ matchedAt = [th \in TrigThreads |-> Never]

RunDue == \E s \in scheduled : RunTimed(s)
TriggersNext ==
  \/ \E th \in TrigThreads : TriggerStep(th)
  \/ HandleEvent \/ StartTask \/ RunDue \/ TrigTick
  \/ \E e \in setup.events : RaiseTrigEvent(e)
  \/ \E w \in setup.worlds : ChangeWorld(w)

(* The threads of the interpreter, the plugin and the runner run; time passes *)
TriggersFairness ==
  /\ \A th \in TrigThreads : WF_trigVars(TriggerStep(th))
  /\ WF_trigVars(HandleEvent) /\ WF_trigVars(StartTask)
  /\ WF_trigVars(RunDue) /\ WF_trigVars(TrigTick)
TriggersSpec == TriggersInit /\ [][TriggersNext]_trigVars /\ TriggersFairness

-----------------------------------------------------------------------------
(* One thread runs the trigger *)
Alone(t) == Cardinality({e.name = Highlevel : e \in {f \in setup.events : checkTrigger(t, f)}}) <= 1

(* "no new actions spawned while rescheduling a pending event": the actions *)
(* of a trigger that reschedules are at least the delay apart, although the *)
(* code cannot find out whether the pending event was executed.             *)
Debounced ==
  [][\A t \in TrigIds :
       Alone(t) /\ Trig(t).reschedule /\ Trig(t).delay > 0 /\ acted'[t] # acted[t]
         => acted'[t] >= acted[t] + Trig(t).delay]_trigVars

(* The matches of a damped trigger that are relayed, rescheduling aside,    *)
(* are at least the interval apart, with and without rewindTimer.           *)
DampedApart ==
  [][\A th \in TrigThreads : LET t == TrigOf(th) IN
       Alone(t) /\ passedAt[t] # Never
         /\ tpc[th] \in {"damping", "interval"} /\ tpc'[th] = "push"
         => trigNow >= passedAt[t] + Trig(t).interval]_trigVars

(* A match that comes at least the interval after the last one was dealt    *)
(* with is not suppressed, however often that timer was rewound before.     *)
SilenceIsHonoured ==
  [][\A th \in TrigThreads : LET t == TrigOf(th) IN
       Alone(t) /\ tpc[th] = "interval" /\ tpc'[th] \notin {"interval", "push"}
         => matchedAt[th] < settledAt[t] + Trig(t).interval]_trigVars

(* What was relayed or put off is executed in the end, the delay after the  *)
(* match, also when both threads remove and schedule events of a trigger.   *)
ActionFollows ==
  <>[](\A t \in TrigIds : relayedAt[t] # Never /\ Trig(t).delay > 0 =>
         \/ acted[t] >= relayedAt[t] + Trig(t).delay
         \/ \E s \in scheduled : s.trigger = t /\ s.due > MaxTrigTime)

(* The timing of triggers: neither too early, after a delay or an interval, *)
(* nor suppressed for longer than the interval                              *)
TriggerTiming == Debounced /\ DampedApart /\ SilenceIsHonoured
=============================================================================
