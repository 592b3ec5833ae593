----------------------------- MODULE MCServices -----------------------------
(***************************************************************************)
(* Three services around the event interpreter that do not meet, checked   *)
(* in one run: the upload of events to a hub (SensorUpload), the events of *)
(* web clients (WebEvents) and the triggers of user-defined actions        *)
(* (Triggers).  service says which one a behaviour is about; the others    *)
(* stay in their initial state.                                            *)
(***************************************************************************)
EXTENDS SensorUpload, WebEvents, Triggers, TLC

CONSTANTS s1, s2, n1

PrioEvent   == [prio |-> TRUE,  converts |-> TRUE]
NormalEvent == [prio |-> FALSE, converts |-> TRUE]
BadEvent    == [prio |-> FALSE, converts |-> FALSE]
AllKinds    == {PrioEvent, NormalEvent, BadEvent}
Names       == s1 :> {n1}
BothNames   == s1 :> {n1} @@ s2 :> {n1}

(* Events for triggers, and criteria that match them *)
SceneCall1 == [name |-> "callScene", at |-> "group", zone |-> "1", group |-> "1",
               scene |-> "5", dsuid |-> "d1", forced |-> "false"]
Undo1    == [SceneCall1 EXCEPT !.name = "undoScene"]
Sensor1  == [name |-> "deviceSensorValue", at |-> "device", dsuid |-> "d1", sensor |-> "9",
             value |-> 21]
Input1   == [name |-> "deviceBinaryInputEvent", at |-> "device", dsuid |-> "d1",
             index |-> "0", stype |-> "5", state |-> "1"]
Custom   == [name |-> Highlevel, at |-> "apartment", event |-> "7"]
OnScene  == [type |-> "zone_scene", zone |-> "1", group |-> AnyValue, scene |-> "5"]
OnCustom == [type |-> "custom_event", event |-> "7"]
OnUndo   == [type |-> "undo_zone_scene", zone |-> AnyValue, dsuid |-> ""]
OnSensor == [type |-> "device_sensor_value", dsuid |-> "d1", sensor |-> "9",
             operator |-> "greater", value |-> 20]
OnInput  == [type |-> "device_binary_input", dsuid |-> AnyValue, index |-> "0", state |-> "1"]
Trigger(criteria, delay, reschedule, interval, rewind) ==
  [criteria |-> criteria, conditions |-> [enabled |-> TRUE], mistyped |-> FALSE,
   delay |-> delay, reschedule |-> reschedule, interval |-> interval, rewind |-> rewind]
NoFire == [states |-> [fire |-> {"2", "inactive"}], addon |-> <<>>, scenes |-> <<>>]
Fire   == [NoFire EXCEPT !.states = [fire |-> {"1", "active"}]]
OneTrigger(trigger, events, max) ==
  [triggers |-> <<trigger>>, events |-> events, worlds |-> {NoFire}, max |-> max]
Lagging == OneTrigger(Trigger({OnScene}, 2, TRUE, Missing, FALSE), {SceneCall1}, 3)
(* a delay; a delay and damping; a timer that is rewound; two threads;     *)
(* triggers with conditions, odd parameters or a property of a wrong type  *)
AllSetups ==
  {Lagging,
   OneTrigger(Trigger({OnScene}, 1, TRUE, 2, FALSE), {SceneCall1}, 3),
   OneTrigger(Trigger({OnScene}, 0, FALSE, 2, TRUE), {SceneCall1}, 3),
   OneTrigger(Trigger({OnScene, OnCustom}, 2, TRUE, Missing, FALSE), {SceneCall1, Custom}, 2),
   [triggers |-> <<Trigger({OnScene, OnUndo}, -1, FALSE, -1, FALSE),
                   [Trigger({OnSensor}, 0, FALSE, Missing, FALSE)
                     EXCEPT !.conditions = [states |-> [fire |-> "1"], time |-> <<1, 0>>]],
                   [Trigger({OnInput}, 0, FALSE, Missing, FALSE) EXCEPT !.mistyped = TRUE]>>,
    events |-> {Undo1, Sensor1, Input1}, worlds |-> {NoFire, Fire}, max |-> 2]}

VARIABLE service

(* Two clients that log in and subscribe to the same event, which comes    *)
(* once                                                                    *)
Two == INSTANCE WebEvents WITH Tokens <- {s1, s2}, NamesOf <- BothNames, MaxSessions <- 2,
         MaxDelivered <- 1, MaxWebTime <- 0

(* the type invariants of the three *)
ServicesTypeOK ==
  /\ UploadTypeOK /\ TriggersTypeOK
  /\ IF service = "clients" THEN Two!WebTypeOK ELSE WebTypeOK

Services == {"upload", "web", "clients", "triggers"}
ServicesInit ==
  /\ service \in Services /\ UploadInit /\ TriggersInit
  /\ IF service = "clients" THEN Two!WebInit ELSE WebInit
  /\ service # "triggers" => setup = Lagging

ServicesNext ==
  /\ UNCHANGED service
  /\ \/ service = "upload" /\ UploadNext /\ UNCHANGED <<webVars, trigVars>>
     \/ service = "web" /\ WebNext /\ UNCHANGED <<uploadVars, trigVars>>
     \/ /\ service = "clients" /\ Two!WebNext /\ UNCHANGED <<uploadVars, trigVars>>
        /\ \A w \in Workers : wreq'[w] \in {"login", "subscribe"}
     \/ service = "triggers" /\ TriggersNext /\ UNCHANGED <<uploadVars, webVars>>

InUpload(A)   == service = "upload" /\ A /\ UNCHANGED <<webVars, trigVars, service>>
InWeb(A)      == service = "web" /\ A /\ UNCHANGED <<uploadVars, trigVars, service>>
InTriggers(A) == service = "triggers" /\ A /\ UNCHANGED <<uploadVars, webVars, service>>

ServicesFairness ==
  /\ WF_uploadVars(InUpload(InterpStep))
  /\ WF_uploadVars(InUpload(TaskStep))
  /\ WF_uploadVars(InUpload(RaiseBatch))
  /\ \A w \in Workers : WF_webVars(InWeb(Handle(w)))
  /\ WF_webVars(InWeb(InterpDelivers))
  /\ SF_webVars(InWeb(cleanupSessions))
  /\ \A th \in TrigThreads : WF_trigVars(InTriggers(TriggerStep(th)))
  /\ WF_trigVars(InTriggers(HandleEvent)) /\ WF_trigVars(InTriggers(StartTask))
  /\ WF_trigVars(InTriggers(RunDue)) /\ WF_trigVars(InTriggers(TrigTick))

ServicesSpec ==
  /\ ServicesInit
  /\ [][ServicesNext]_<<uploadVars, webVars, trigVars, service>>
  /\ ServicesFairness
=============================================================================
