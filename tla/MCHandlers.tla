----------------------------- MODULE MCHandlers -----------------------------
(***************************************************************************)
(* Three parts that do not meet, checked in one run: the filters for       *)
(* scenes and buttons (SceneFilter), setApartmentState (ApartmentState)    *)
(* and the system states (SystemStates).  handler says which one a         *)
(* behaviour is about; the others stay in their initial state.             *)
(***************************************************************************)
EXTENDS SceneFilter, ApartmentState, SystemStates

CONSTANT dSM1

Button1    == [source |-> dSM1, device |-> 1]
Unknown2   == [source |-> dSM1, device |-> 2]   \* not in the apartment
TheDSS     == [source |-> Myself, device |-> 0]
AllOrigins == {Button1, Unknown2, TheDSS}
NotInApartment == {Unknown2}
WithButton == {Button1}

Input(no, type, g) == [no |-> no, type |-> type, group |-> g, zone |-> 1]
Rain1      == Input(1, "rain", 0)
Rain2      == Input(2, "rain", 0)
Wind16     == Input(3, "wind", 16)
Smoke      == Input(4, "smoke", 0)
Heating5   == Input(5, "heating_system", 0)
Mode6      == Input(6, "heating_system_mode", 0)
Thermostat == Input(7, "thermostat", 0)
AllInputs  == {Rain1, Rain2, Wind16, Smoke, Heating5, Mode6, Thermostat}
NewInputs  == {Thermostat}
PanicLast  == {{"absent", "panic"}}

Reports(is) == [kind : {"report"}, input : is, value : {Active, Inactive}]
Call(s, g)  == SceneCall("call", s, g, "dsmApi")
ButtonUndo(s) == [SceneCall("undo", s, 0, "dsmApi") EXCEPT !.button = TRUE]
(* two sensors; a sensor and calls; groups; the start; alarms; heating *)
AllOffers ==
  {Reports({Rain1, Rain2}),
   Reports({Rain1}) \cup {Call("rainActive", 0), Call("rainInactive", 0)},
   Reports({Wind16}) \cup {Call("windActive", 17)},
   {Call("sleeping", 0), Signal(At("building_service"), Active)},
   {Call("panic", 0), Call("absent", 0), ButtonUndo("panic"),
    [kind |-> "report", input |-> Smoke, value |-> Active]},
   Reports({Heating5, Mode6}),
   Reports({Thermostat})}

VARIABLE handler

(* the type invariants of the three *)
HandlersTypeOK == SceneTypeOK /\ PresenceTypeOK /\ StatesTypeOK

(* the variables of the others *)
NoPresence == PresenceInit /\ meters = <<>> /\ stored = UNKNOWN
NoStates   == StatesCleared /\ eventQueue = <<>> /\ offered = Reports({Thermostat})

HandlersInit ==
  \/ handler = "scenes"   /\ SceneInit /\ NoPresence   /\ NoStates
  \/ handler = "presence" /\ SceneInit /\ PresenceInit /\ NoStates
  \/ handler = "states"   /\ SceneInit /\ NoPresence   /\ StatesInit

HandlersNext ==
  /\ UNCHANGED handler
  /\ \/ handler = "scenes" /\ SceneNext /\ UNCHANGED <<presenceVars, stateVars>>
     \/ handler = "presence" /\ PresenceNext /\ UNCHANGED <<sceneVars, stateVars>>
     \/ handler = "states" /\ StatesNext /\ UNCHANGED <<sceneVars, presenceVars>>

ScenesOnly(A) == handler = "scenes" /\ A /\ UNCHANGED <<presenceVars, stateVars, handler>>
StatesOnly(A) == handler = "states" /\ A /\ UNCHANGED <<presenceVars, sceneVars, handler>>

HandlersFairness ==
  /\ WF_sceneVars(ScenesOnly(Deferring))
  /\ SF_sceneVars(ScenesOnly(Tick))
  /\ WF_stateVars(StatesOnly(HandleMessage))
  /\ WF_stateVars(StatesOnly(RunSystemState))
  /\ WF_stateVars(StatesOnly(RaiseModelReady))

HandlersSpec ==
  /\ HandlersInit
  /\ [][HandlersNext]_<<sceneVars, presenceVars, stateVars, handler>>
  /\ HandlersFairness
=============================================================================
