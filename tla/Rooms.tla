------------------------------- MODULE Rooms -------------------------------
(***************************************************************************)
(* Rooms (class Zone) and the devices in them: web requests move devices,  *)
(* remove rooms and remove devices (structuremanipulator.cpp,              *)
(* web/handler/structurerequesthandler.cpp), the thread of                 *)
(* ModelMaintenance reads a device that appears and puts it where the dSM  *)
(* says (model/busscanner.cpp), the thread of MeterMaintenance             *)
(* synchronizes the sensors.  A request has the mutex of the apartment     *)
(* while it moves a device or removes a room from the dSM; the checks      *)
(* before that, the removal of a device and the scanner only have it       *)
(* while they look something up.                                           *)
(*                                                                         *)
(* There is one dSM, which is present.  A room may be the object of its    *)
(* number that the apartment has now, or an older one that a thread still  *)
(* points to.  All devices are visible, and one type of sensor stands for  *)
(* all.  A call to the dSM works, fails, or works and its answer is lost.  *)
(***************************************************************************)
EXTENDS Integers, Sequences, FiniteSets

CONSTANTS
  RoomDevices, RoomSensors,  \* devices, and those with a sensor
  RoomIds,                   \* zone numbers but 0
  NoRoom, NoDevice,          \* zone 0, no sensor
  RoomWorkers,               \* threads of the web server
  Unlocked,                  \* nobody has the mutex of the apartment
  MaxAllocs,                 \* bound: objects of one number
  MaxRoomRequests,           \* bound: requests
  MaxOthers,                 \* bound: devices plugged in or out, and rooms synchronized
  MaxRoomFaults              \* bound: calls to the dSM that fail

ASSUME RoomsAssumption ==
  /\ RoomSensors \subseteq RoomDevices /\ NoRoom \notin RoomIds /\ NoDevice \notin RoomDevices
  /\ IsFiniteSet(RoomWorkers)
  /\ Unlocked \notin RoomWorkers /\ NoDevice \notin RoomWorkers \cup {Unlocked}
  /\ {MaxRoomRequests, MaxOthers, MaxRoomFaults} \subseteq Nat
  /\ MaxAllocs \in Nat /\ MaxAllocs > MaxRoomRequests  \* an object is never missing

VARIABLES
  live,       \* m_Zones of the apartment, as numbers
  allocs,     \* objects made so far, per number
  room,       \* of an object: m_Devices, m_DSMeters # {}, m_MainSensors
  device,     \* in the apartment or not, m_ZoneID, present
  dsm,        \* what the dSM knows: its zones, devices and which are active
  deviceEvents,  \* etNewDevice and etLostDevice in the queue
  roomMutex,
  worker,     \* of a thread of the web server: step, request and locals
  scan,       \* of the thread of ModelMaintenance: step and locals
  sync,       \* of the thread of MeterMaintenance: step and locals
  roomInputs, roomFaults,  \* what is left of the bounds
  died,       \* an exception has left a thread, or an iterator was not valid
  excused,    \* history: devices that two threads handled at once, see Overlap
  unsure      \* history: devices of which an answer of the dSM was lost

roomVars == <<live, allocs, room, device, dsm, deviceEvents, roomMutex, worker, scan, sync,
              roomInputs, roomFaults, died, excused, unsure>>

Objects   == RoomIds \X (1 .. MaxAllocs)
Object(z) == <<z, allocs[z]>>
Nowhere   == <<NoRoom, 1>>

MoveSteps   == {"move", "setZone", "enter", "reset", "refill", "shrink", "assign"}
RemoveSteps == {"unregister", "dsmRemove", "erase"}
DeleteSteps == {"dsmDelete", "deleteReset", "deleteRefill", "delete"}
ScanPoints  == {"idle", "find", "detach", "find2", "attach", "assign", "set"}
WorkerType ==
  [pc : {"idle"} \cup MoveSteps \cup RemoveSteps \cup DeleteSteps,
   d : RoomDevices \cup {NoDevice}, o : Objects \cup {Nowhere}, oldZoneID : RoomIds \cup {NoRoom}]
ScanType ==
  [pc : ScanPoints, d : RoomDevices \cup {NoDevice}, event : RoomIds \cup {NoRoom},
   zone : RoomIds \cup {NoRoom}, o : Objects \cup {Nowhere}, old : Objects \cup {Nowhere}, active : BOOLEAN]
RoomType ==
  [members : SUBSET RoomDevices, onMeter : BOOLEAN, sensor : RoomSensors \cup {NoDevice}]
SyncType ==
  [pc : {"idle", "set", "clean"}, d : RoomDevices \cup {NoDevice}, o : Objects \cup {Nowhere}]
IdleWorker == [pc |-> "idle", d |-> NoDevice, o |-> Nowhere, oldZoneID |-> NoRoom]
IdleScan   == [pc |-> "idle", d |-> NoDevice, event |-> NoRoom, zone |-> NoRoom,
               o |-> Nowhere, old |-> Nowhere, active |-> FALSE]
IdleSync   == [pc |-> "idle", d |-> NoDevice, o |-> Nowhere]
NewRoom    == [members |-> {}, onMeter |-> FALSE, sensor |-> NoDevice]

RoomsTypeOK ==
  /\ live \subseteq RoomIds /\ allocs \in [RoomIds -> 1 .. MaxAllocs]
  /\ \A o \in Objects : room[o] \in RoomType
  /\ device \in [RoomDevices -> [known : BOOLEAN, zone : RoomIds \cup {NoRoom},
                                 present : BOOLEAN]]
  /\ dsm \in [zones : SUBSET RoomIds, zoneOf : [RoomDevices -> RoomIds \cup {NoRoom}],
              active : SUBSET RoomDevices]
  /\ deviceEvents \in Seq({"new", "lost"} \X RoomDevices \X RoomIds)
  /\ roomMutex \in RoomWorkers \cup {Unlocked}
  /\ worker \in [RoomWorkers -> WorkerType] /\ scan \in ScanType /\ sync \in SyncType
  /\ roomInputs \in [{"requests", "others"} -> Nat] /\ roomFaults \in Nat
  /\ died \in BOOLEAN /\ excused \subseteq RoomDevices /\ unsure \subseteq RoomDevices

(* A start with apartment.xml and the dSM in agreement: every device is in *)
(* a room, a room with a present sensor has one of its sensors assigned.   *)
RoomsInit ==
  /\ live = RoomIds /\ allocs = [z \in RoomIds |-> 1]
  /\ \E zoneOf \in [RoomDevices -> RoomIds], active \in SUBSET RoomDevices,
        sensor \in [RoomIds -> RoomSensors \cup {NoDevice}] :
       LET In(z) == {d \in RoomDevices : zoneOf[d] = z}
       IN  /\ \A z \in RoomIds : IF sensor[z] = NoDevice THEN In(z) \cap RoomSensors \cap active = {}
                                                         ELSE sensor[z] \in In(z)
           /\ dsm = [zones |-> {zoneOf[d] : d \in RoomDevices}, zoneOf |-> zoneOf, active |-> active]
           /\ device = [d \in RoomDevices |->
                          [known |-> TRUE, zone |-> zoneOf[d], present |-> d \in active]]
           /\ room = [o \in Objects |->
                        IF o[2] = 1 THEN [members |-> In(o[1]), onMeter |-> In(o[1]) # {},
                                          sensor |-> sensor[o[1]]]
                                    ELSE NewRoom]
  /\ deviceEvents = << >> /\ roomMutex = Unlocked
  /\ worker = [w \in RoomWorkers |-> IdleWorker] /\ scan = IdleScan /\ sync = IdleSync
  /\ roomInputs = [requests |-> MaxRoomRequests, others |-> MaxOthers]
  /\ roomFaults = MaxRoomFaults
  /\ died = FALSE /\ excused = {} /\ unsure = {}

-----------------------------------------------------------------------------
(* Helpers *)

(* A call to the dSM that it would carry out; result is "ok", "failed" or  *)
(* "lost" (carried out, and the answer did not come).                      *)
Call(result) ==
  \/ result = "ok" /\ UNCHANGED roomFaults
  \/ result \in {"failed", "lost"} /\ roomFaults > 0 /\ roomFaults' = roomFaults - 1
Results == {"ok", "failed", "lost"}

Input(what) ==
  /\ roomInputs[what] > 0 /\ roomInputs' = [roomInputs EXCEPT ![what] = @ - 1]

InZone(z)     == {d \in RoomDevices : dsm.zoneOf[d] = z}
Goto(w, step) == worker' = [worker EXCEPT ![w].pc = step]
Finish(w)     == /\ worker' = [worker EXCEPT ![w] = IdleWorker]
                 /\ roomMutex' = IF roomMutex = w THEN Unlocked ELSE roomMutex
(* a reference to a device that is not in the apartment any more           *)
Dangling(o)   == \E d \in room[o].members : ~device[d].known

(* Mutant of ResetSensors: the sensor stays assigned *)
KeepsSensors(o, d) == UNCHANGED room

(* Zone::resetSensor of the sensors that are in device d *)
ResetSensors(o, d) ==
  room' = [room EXCEPT ![o].sensor = IF @ = d THEN NoDevice ELSE @]

(* StructureManipulator::autoAssignZoneSensors, with the call it makes;    *)
(* throws says that an exception leaves it.                                *)
Candidates(o) ==
  IF room[o].sensor = NoDevice
  THEN {d \in room[o].members \cap RoomSensors : device[d].present} ELSE {}
autoAssignZoneSensors(o, throws) ==
  \/ Dangling(o) /\ throws /\ UNCHANGED <<room, roomFaults>>
  \/ ~Dangling(o) /\ Candidates(o) = {} /\ ~throws /\ UNCHANGED <<room, roomFaults>>
  \/ /\ ~Dangling(o)
     /\ \E d \in Candidates(o), result \in Results :
          /\ room' = [room EXCEPT ![o].sensor = d]
          /\ Call(result) /\ throws = (result # "ok")

-----------------------------------------------------------------------------
(* Moving a device *)

MovesUnchanged == UNCHANGED <<live, allocs, deviceEvents, scan, sync, died>>

(* StructureRequestHandler::zoneAddDevice up to addDeviceToZone; a request *)
(* that is refused changes nothing.                                        *)
zoneAddDevice(w, d, z) ==
  /\ worker[w].pc = "idle" /\ Input("requests")
  /\ device[d].known /\ device[d].present /\ device[d].zone # z /\ z \in live
  /\ worker' = [worker EXCEPT ![w] = [IdleWorker EXCEPT !.pc = "move", !.d = d, !.o = Object(z)]]
  /\ UNCHANGED <<room, device, dsm, roomMutex>> /\ MovesUnchanged

(* StructureManipulator::createZone, and what addDeviceToZone makes of     *)
(* ERROR_ZONE_ALREADY_EXISTS: in both cases the room is registered.        *)
createZone(o, result) ==
  /\ Call(result)
  /\ dsm' = IF result = "failed" THEN dsm ELSE [dsm EXCEPT !.zones = @ \cup {o[1]}]
  /\ room' = IF result = "ok" THEN [room EXCEPT ![o].onMeter = TRUE] ELSE room

(* addDeviceToZone: from the lock to the room on the dSM *)
BeginMove(w) ==
  LET d == worker[w].d
      o == worker[w].o
  IN
  /\ worker[w].pc = "move" /\ roomMutex = Unlocked
  /\ \E result \in Results :
       /\ IF device[d].present /\ ~room[o].onMeter THEN createZone(o, result)
          ELSE result = "ok" /\ UNCHANGED <<room, dsm, roomFaults>>
       /\ IF device[d].present /\ result = "ok"
          THEN /\ roomMutex' = w
               /\ worker' = [worker EXCEPT ![w].pc = "setZone", ![w].oldZoneID = device[d].zone]
          ELSE Finish(w)
  /\ UNCHANGED device /\ MovesUnchanged

(* addDeviceToZone: m_Interface.setZoneID *)
SetZoneID(w) ==
  LET d == worker[w].d
      z == worker[w].o[1]
  IN
  /\ worker[w].pc = "setZone"
  /\ \/ /\ z \in dsm.zones /\ dsm.zoneOf[d] # NoRoom
        /\ \E result \in Results :
             /\ Call(result)
             /\ dsm' = IF result = "failed" THEN dsm ELSE [dsm EXCEPT !.zoneOf[d] = z]
             /\ IF result = "ok" THEN Goto(w, "enter") /\ UNCHANGED roomMutex ELSE Finish(w)
     \/ /\ z \notin dsm.zones \/ dsm.zoneOf[d] = NoRoom
        /\ Finish(w) /\ UNCHANGED <<dsm, roomFaults>>
  /\ UNCHANGED <<room, device>> /\ MovesUnchanged

(* Zone::addDevice of d to o: here is the object in the apartment that the *)
(* m_ZoneID of d names, if any.                                            *)
addDevice(o, here, d) ==
  [p \in Objects |-> [room[p] EXCEPT !.members = IF p = o THEN @ \cup {d}
                                                 ELSE IF p = here THEN @ \ {d} ELSE @]]
Lookup(z) == IF z \in live THEN Object(z) ELSE Nowhere

(* addDeviceToZone: from Device::setZoneID, which makes Zone::addDevice    *)
(* look at the new room for the device, to oldZone->removeDevice.          *)
EnterRoom(w) ==
  LET d   == worker[w].d
      o   == worker[w].o
      old == worker[w].oldZoneID
      entered == addDevice(o, Lookup(o[1]), d)
  IN
  /\ worker[w].pc = "enter"
  /\ device' = [device EXCEPT ![d].zone = o[1]]
  /\ \/ ~device[d].known /\ Finish(w) /\ UNCHANGED room
     \/ /\ device[d].known /\ old \notin live
        /\ room' = entered
        /\ IF old = NoRoom THEN Goto(w, "assign") /\ UNCHANGED roomMutex ELSE Finish(w)
     \/ /\ device[d].known /\ old \in live
        /\ room' = [entered EXCEPT ![Object(old)].members = @ \ {d}]
        /\ Goto(w, "reset") /\ UNCHANGED roomMutex
  /\ UNCHANGED <<dsm, roomFaults>> /\ MovesUnchanged

(* checkSensorsOnDeviceRemoval: the first loop.  The room is still in the  *)
(* apartment, since only a thread that has the mutex erases one.           *)
ResetStep(w, o, next) ==
  /\ ResetSensors(o, worker[w].d)
  /\ \/ room[o].sensor # worker[w].d /\ Goto(w, next) /\ UNCHANGED <<roomMutex, roomFaults>>
     \/ /\ room[o].sensor = worker[w].d
        /\ \E result \in Results :
             /\ Call(result)
             /\ IF result = "ok" THEN Goto(w, next) /\ UNCHANGED roomMutex ELSE Finish(w)

LeaveReset(w) ==
  /\ worker[w].pc = "reset" /\ ResetStep(w, Object(worker[w].oldZoneID), "refill")
  /\ UNCHANGED <<device, dsm>> /\ MovesUnchanged

(* its autoAssignZoneSensors *)
LeaveRefill(w) ==
  /\ worker[w].pc = "refill"
  /\ \E throws \in BOOLEAN :
       /\ autoAssignZoneSensors(Object(worker[w].oldZoneID), throws)
       /\ IF throws THEN Finish(w) ELSE Goto(w, "shrink") /\ UNCHANGED roomMutex
  /\ UNCHANGED <<device, dsm>> /\ MovesUnchanged

(* addDeviceToZone: removeZoneOnDSMeter, if the old room has no present    *)
(* devices.  It gives up when the dSM has devices of this room that are    *)
(* not active.  Zone::removeFromDSMeter erases what find returns, without  *)
(* a look whether it has found it.                                         *)
removeZoneOnDSMeter(w) ==
  LET z == worker[w].oldZoneID
      o == Object(z)
      wanted == ~\E d \in room[o].members : device[d].present
      can    == wanted /\ z \in dsm.zones /\ InZone(z) = {}
  IN
  /\ worker[w].pc = "shrink"
  /\ \/ Dangling(o) /\ Finish(w) /\ UNCHANGED <<room, dsm, roomFaults, died>>
     \/ ~Dangling(o) /\ ~can /\ Goto(w, "assign")
        /\ UNCHANGED <<room, dsm, roomFaults, roomMutex, died>>
     \/ /\ ~Dangling(o) /\ can
        /\ \E result \in Results :
             /\ Call(result)
             /\ dsm' = IF result = "failed" THEN dsm ELSE [dsm EXCEPT !.zones = @ \ {z}]
             /\ room' = IF result = "ok" THEN [room EXCEPT ![o].onMeter = FALSE] ELSE room
             /\ died' = (result = "ok" /\ ~room[o].onMeter)
        /\ Goto(w, "assign") /\ UNCHANGED roomMutex
  /\ UNCHANGED <<live, allocs, device, deviceEvents, scan, sync>>

(* addDeviceToZone: autoAssignZoneSensors of the new room *)
EndMove(w) ==
  /\ worker[w].pc = "assign"
  /\ \E throws \in BOOLEAN : autoAssignZoneSensors(worker[w].o, throws)
  /\ Finish(w)
  /\ UNCHANGED <<device, dsm>> /\ MovesUnchanged

addDeviceToZone(w) ==
  \/ BeginMove(w) \/ SetZoneID(w) \/ EnterRoom(w)
  \/ LeaveReset(w) \/ LeaveRefill(w) \/ removeZoneOnDSMeter(w) \/ EndMove(w)

-----------------------------------------------------------------------------
(* Adding and removing a room *)

(* StructureRequestHandler::addZone, Apartment::allocateZone *)
addZone(z) ==
  /\ Input("requests") /\ roomMutex = Unlocked /\ z \notin live
  /\ live' = live \cup {z} /\ allocs' = [allocs EXCEPT ![z] = @ + 1]
  /\ UNCHANGED <<room, device, dsm, deviceEvents, roomMutex, worker, scan, sync, died>>

(* StructureRequestHandler::removeZone up to removeZoneOnDSMeters: a room  *)
(* with visible devices is not removed.  It is looked at without the mutex *)
(* and not again.                                                          *)
removeZone(w, z) ==
  /\ worker[w].pc = "idle" /\ Input("requests")
  /\ z \in live /\ room[Object(z)].members = {}
  /\ worker' = [worker EXCEPT ![w] = [IdleWorker EXCEPT !.pc = "unregister", !.o = Object(z)]]
  /\ UNCHANGED <<room, device, dsm, roomMutex>> /\ MovesUnchanged

(* removeZoneOnDSMeters: the room is taken off its meters first, and its   *)
(* controller is switched off.  A failure is logged.                       *)
Unregister(w) ==
  LET o == worker[w].o IN
  /\ worker[w].pc = "unregister" /\ roomMutex = Unlocked
  /\ room' = [room EXCEPT ![o].onMeter = FALSE]
  /\ \E result \in Results :
       /\ Call(result)
       /\ IF result = "ok" /\ room[o].onMeter THEN roomMutex' = w /\ Goto(w, "dsmRemove")
                                              ELSE Goto(w, "erase") /\ UNCHANGED roomMutex
  /\ UNCHANGED <<device, dsm>> /\ MovesUnchanged

(* removeZoneOnDSMeters: m_Interface.removeZone, and wipeZoneOnMeter when  *)
(* the dSM says that the room is not empty.  Devices that are active make  *)
(* the request fail; of the other errors nothing follows.                  *)
removeZoneOnDSMeters(w) ==
  LET z == worker[w].o[1] IN
  /\ worker[w].pc = "dsmRemove"
  /\ \/ /\ InZone(z) \cap dsm.active # {} /\ z \in dsm.zones
        /\ Finish(w) /\ UNCHANGED <<dsm, roomFaults>>
     \/ /\ InZone(z) \cap dsm.active = {} \/ z \notin dsm.zones
        /\ \E result \in Results :
             /\ Call(result)
             /\ dsm' = IF result = "failed" \/ z \notin dsm.zones THEN dsm
                       ELSE [dsm EXCEPT !.zones = @ \ {z},
                                        !.zoneOf = [d \in RoomDevices |->
                                                      IF @[d] = z THEN NoRoom ELSE @[d]]]
        /\ Goto(w, "erase") /\ roomMutex' = Unlocked
  /\ UNCHANGED <<room, device>> /\ MovesUnchanged

(* Apartment::removeZone erases the room of this number, whatever is in it *)
EraseRoom(w) ==
  /\ worker[w].pc = "erase" /\ roomMutex = Unlocked
  /\ live' = live \ {worker[w].o[1]} /\ Finish(w)
  /\ UNCHANGED <<allocs, room, device, dsm, deviceEvents, scan, sync, roomFaults, died>>

RemoveRoom(w) == Unregister(w) \/ removeZoneOnDSMeters(w) \/ EraseRoom(w)

-----------------------------------------------------------------------------
(* Removing a device *)

(* StructureRequestHandler::removeDevice up to the manipulator *)
requestRemoveDevice(w, d) ==
  /\ worker[w].pc = "idle" /\ Input("requests")
  /\ device[d].known /\ ~device[d].present
  /\ worker' = [worker EXCEPT ![w] = [IdleWorker EXCEPT !.pc = "dsmDelete", !.d = d]]
  /\ UNCHANGED <<room, device, dsm, roomMutex>> /\ MovesUnchanged

(* removeDeviceFromDSMeter, whose errors are logged; the dSM keeps devices *)
(* that are active                                                         *)
removeDeviceFromDSMeter(w) ==
  LET d == worker[w].d IN
  /\ worker[w].pc = "dsmDelete"
  /\ \E result \in Results :
       /\ Call(result)
       /\ dsm' = IF result = "failed" \/ d \in dsm.active THEN dsm
                 ELSE [dsm EXCEPT !.zoneOf[d] = NoRoom]
  /\ Goto(w, "deleteReset")
  /\ UNCHANGED <<room, device, roomMutex>> /\ MovesUnchanged

(* checkSensorsOnDeviceRemoval, while the device still is in its room.  A  *)
(* room that is not in the apartment is an exception.                      *)
DeleteReset(w) ==
  LET z == device[worker[w].d].zone IN
  /\ worker[w].pc = "deleteReset" /\ roomMutex = Unlocked
  /\ \/ z = NoRoom /\ Goto(w, "delete") /\ UNCHANGED <<room, roomMutex, roomFaults>>
     \/ z \in RoomIds \ live /\ Finish(w) /\ UNCHANGED <<room, roomFaults>>
     \/ /\ z \in live
        /\ \E result \in Results :
             /\ ResetSensors(Object(z), worker[w].d)
             /\ IF room[Object(z)].sensor = worker[w].d THEN Call(result)
                ELSE result = "ok" /\ UNCHANGED roomFaults
             /\ IF result # "ok" THEN Finish(w)
                ELSE /\ worker' = [worker EXCEPT ![w].pc = "deleteRefill", ![w].o = Object(z)]
                     /\ UNCHANGED roomMutex
  /\ UNCHANGED <<device, dsm>> /\ MovesUnchanged

DeleteRefill(w) ==
  /\ worker[w].pc = "deleteRefill"
  /\ \E throws \in BOOLEAN :
       /\ autoAssignZoneSensors(worker[w].o, throws)
       /\ IF throws THEN Finish(w) ELSE Goto(w, "delete") /\ UNCHANGED roomMutex
  /\ UNCHANGED <<device, dsm>> /\ MovesUnchanged

(* Apartment::removeDevice *)
removeDevice(w) ==
  LET d == worker[w].d
      z == device[d].zone
  IN
  /\ worker[w].pc = "delete" /\ roomMutex = Unlocked
  /\ \/ /\ device[d].known /\ z \notin RoomIds \ live
        /\ room' = [o \in Objects |-> IF o = Lookup(z) THEN [room[o] EXCEPT !.members = @ \ {d}]
                                                       ELSE room[o]]
        /\ device' = [device EXCEPT ![d].known = FALSE]
     \/ (~device[d].known \/ z \in RoomIds \ live) /\ UNCHANGED <<room, device>>
  /\ Finish(w)
  /\ UNCHANGED <<dsm, roomFaults>> /\ MovesUnchanged

RemoveDevice(w) ==
  removeDeviceFromDSMeter(w) \/ DeleteReset(w) \/ DeleteRefill(w) \/ removeDevice(w)

-----------------------------------------------------------------------------
(* The dSM and the thread of ModelMaintenance *)

(* A device is plugged in or out and the dSM reports it, with its room     *)
(* (eventDeviceAccessibilityOn and -Off); a new device gets a room.        *)
(* Reports without a room (eventDevicePresence) are left out.              *)
PlugIn(d, z) ==
  /\ Input("others") /\ d \notin dsm.active
  /\ z = dsm.zoneOf[d] \/ dsm.zoneOf[d] = NoRoom
  /\ dsm' = [zones |-> dsm.zones \cup {z}, zoneOf |-> [dsm.zoneOf EXCEPT ![d] = z],
             active |-> dsm.active \cup {d}]
  /\ deviceEvents' = Append(deviceEvents, <<"new", d, z>>)
  /\ UNCHANGED <<live, allocs, room, device, roomMutex, worker, scan, sync, died>>

PlugOut(d) ==
  /\ Input("others") /\ d \in dsm.active
  /\ dsm' = [dsm EXCEPT !.active = @ \ {d}]
  /\ deviceEvents' = Append(deviceEvents, <<"lost", d, dsm.zoneOf[d]>>)
  /\ UNCHANGED <<live, allocs, room, device, roomMutex, worker, scan, sync, died>>

ScanUnchangedRooms == UNCHANGED <<dsm, roomMutex, worker, sync>>

(* onRemoveDevice *)
onRemoveDevice ==
  /\ scan.pc = "idle" /\ deviceEvents # << >> /\ Head(deviceEvents)[1] = "lost"
  /\ deviceEvents' = Tail(deviceEvents)
  /\ LET d == Head(deviceEvents)[2]
     IN  device' = IF device[d].known THEN [device EXCEPT ![d].present = FALSE] ELSE device
  /\ UNCHANGED <<live, allocs, room, scan, roomInputs, roomFaults, died>>
  /\ ScanUnchangedRooms

(* onAddDevice, scanDeviceOnBus: the spec is read from the dSM *)
onAddDevice ==
  /\ scan.pc = "idle" /\ deviceEvents # << >> /\ Head(deviceEvents)[1] = "new"
  /\ deviceEvents' = Tail(deviceEvents)
  /\ LET d == Head(deviceEvents)[2]
         z == dsm.zoneOf[d]
     IN  \E result \in Results :
           /\ Call(result)
           /\ scan' = [IdleScan EXCEPT
                         !.pc = IF result = "ok" /\ z # NoRoom THEN "find" ELSE "assign",
                         !.d = d, !.event = Head(deviceEvents)[3], !.zone = z,
                         !.active = d \in dsm.active]
  /\ UNCHANGED <<live, allocs, room, device, roomInputs, died>> /\ ScanUnchangedRooms

(* scanDeviceOnBus, initializeDeviceFromSpec: the room and the device are  *)
(* looked up, or made                                                      *)
FindRoom ==
  LET d == scan.d
      z == scan.zone
      n == IF z \in live THEN allocs[z] ELSE allocs[z] + 1
  IN
  /\ scan.pc = "find" /\ roomMutex = Unlocked
  /\ live' = live \cup {z} /\ allocs' = [allocs EXCEPT ![z] = n]
  /\ scan' = [scan EXCEPT !.pc = IF device[d].known /\ device[d].present /\ ~scan.active
                                 THEN "assign" ELSE "detach",
                          !.o = <<z, n>>,
                          !.old = IF device[d].known THEN Lookup(device[d].zone) ELSE Nowhere]
  /\ device' = IF device[d].known THEN device
               ELSE [device EXCEPT ![d] = [known |-> TRUE, zone |-> NoRoom, present |-> FALSE]]
  /\ UNCHANGED <<room, deviceEvents, died, roomInputs, roomFaults>> /\ ScanUnchangedRooms

(* Mutant of Detach: the device stays in the list of its old room *)
DetachKeeps ==
  /\ scan.pc = "detach"
  /\ device' = [device EXCEPT ![scan.d].zone = scan.zone]
  /\ scan' = [scan EXCEPT !.pc = "find2"]
  /\ UNCHANGED <<live, allocs, room, deviceEvents, died, roomInputs, roomFaults>>
  /\ ScanUnchangedRooms

(* initializeDeviceFromSpec: oldZone->removeDevice, Device::setZoneID *)
Detach ==
  /\ scan.pc = "detach"
  /\ room' = [o \in Objects |-> IF o = scan.old THEN [room[o] EXCEPT !.members = @ \ {scan.d}]
                                                ELSE room[o]]
  /\ device' = [device EXCEPT ![scan.d].zone = scan.zone]
  /\ scan' = [scan EXCEPT !.pc = "find2"]
  /\ UNCHANGED <<live, allocs, deviceEvents, died, roomInputs, roomFaults>>
  /\ ScanUnchangedRooms

(* initializeDeviceFromSpec: addToDSMeter, and what Zone::addDevice looks  *)
(* up                                                                      *)
FindAgain ==
  /\ scan.pc = "find2" /\ roomMutex = Unlocked
  /\ room' = [room EXCEPT ![scan.o].onMeter = TRUE]
  /\ scan' = [scan EXCEPT !.pc = IF device[scan.d].known THEN "attach" ELSE "assign",
                          !.old = Lookup(device[scan.d].zone)]
  /\ UNCHANGED <<live, allocs, device, deviceEvents, died, roomInputs, roomFaults>>
  /\ ScanUnchangedRooms

(* initializeDeviceFromSpec: the rest of Zone::addDevice, and the flags *)
Attach ==
  /\ scan.pc = "attach"
  /\ room' = addDevice(scan.o, scan.old, scan.d)
  /\ device' = IF device[scan.d].known
               THEN [device EXCEPT ![scan.d] = [known |-> TRUE, zone |-> scan.zone,
                                                present |-> scan.active]]
               ELSE device
  /\ scan' = [scan EXCEPT !.pc = "assign"]
  /\ UNCHANGED <<live, allocs, deviceEvents, died, roomInputs, roomFaults>>
  /\ ScanUnchangedRooms

(* onAddDevice: autoAssignZoneSensors of the room of the event, which may  *)
(* not be the one that was read.  Nothing catches an exception here: the   *)
(* process ends.                                                           *)
AssignNew ==
  LET o    == Lookup(scan.event)
      ends == IF o = Nowhere THEN TRUE ELSE Dangling(o)
      choice == IF ~device[scan.d].known \/ ends THEN {} ELSE Candidates(o)
  IN
  /\ scan.pc = "assign" /\ roomMutex = Unlocked
  /\ died' = (device[scan.d].known /\ ends)
  /\ \/ choice = {} /\ scan' = IdleScan
     \/ \E d \in choice :
          scan' = [IdleScan EXCEPT !.pc = "set", !.d = d, !.zone = scan.event, !.o = o]
  /\ UNCHANGED <<live, allocs, room, device, deviceEvents, roomInputs, roomFaults>>
  /\ ScanUnchangedRooms

(* its setZoneSensor *)
SetNew ==
  /\ scan.pc = "set" /\ scan' = IdleScan
  /\ \E result \in Results : Call(result) /\ died' = (result # "ok")
  /\ room' = [room EXCEPT ![scan.o].sensor = scan.d]
  /\ UNCHANGED <<live, allocs, device, deviceEvents, roomInputs>> /\ ScanUnchangedRooms

-----------------------------------------------------------------------------
(* The thread of MeterMaintenance *)

SyncUnchanged ==
  UNCHANGED <<live, allocs, device, dsm, deviceEvents, roomMutex, worker, scan>>

(* synchronizeMeters, for one room: the choice of autoAssignZoneSensors *)
SyncAssign(z) ==
  LET o == Object(z) IN
  /\ sync.pc = "idle" /\ Input("others") /\ z \in live /\ roomMutex = Unlocked
  /\ died' = Dangling(o)
  /\ \/ /\ Dangling(o) \/ Candidates(o) = {}
        /\ sync' = [pc |-> "clean", d |-> NoDevice, o |-> o]
     \/ /\ ~Dangling(o)
        /\ \E d \in Candidates(o) : sync' = [pc |-> "set", d |-> d, o |-> o]
  /\ UNCHANGED <<room, roomFaults>> /\ SyncUnchanged

(* its setZoneSensor; nothing catches an exception here either *)
SyncSet ==
  /\ sync.pc = "set" /\ sync' = [sync EXCEPT !.pc = "clean"]
  /\ \E result \in Results : Call(result) /\ died' = (result # "ok")
  /\ room' = [room EXCEPT ![sync.o].sensor = sync.d]
  /\ UNCHANGED roomInputs /\ SyncUnchanged

(* Zone::removeInvalidZoneSensors; that the dSM is told is left out *)
synchronizeZoneSensorAssignment ==
  /\ sync.pc = "clean" /\ sync' = IdleSync
  /\ room' = [room EXCEPT ![sync.o].sensor =
                IF @ \in room[sync.o].members THEN @ ELSE NoDevice]
  /\ UNCHANGED <<roomInputs, roomFaults, died>> /\ SyncUnchanged

-----------------------------------------------------------------------------

(* nothing to do: everything waits for inputs, of which there are no more  *)
AtRest ==
  roomMutex = Unlocked /\ scan.pc = "idle" /\ sync.pc = "idle" /\ deviceEvents = << >>
  /\ \A w \in RoomWorkers : worker[w].pc = "idle"
RoomsEnd == (died \/ AtRest) /\ UNCHANGED roomVars

RoomsRequest(w) ==
  \/ \E d \in RoomDevices, z \in RoomIds : zoneAddDevice(w, d, z)
  \/ \E z \in RoomIds : removeZone(w, z)
  \/ \E d \in RoomDevices : requestRemoveDevice(w, d)

(* History.  Two threads handle one device, or a thread brings a device    *)
(* to a room that another one is removing.  The scanner and the assignment *)
(* of sensors do not get in each other's way.                              *)
Handled(d) ==
  {<<w, worker[w].o[1]>> : w \in {v \in RoomWorkers : worker[v].pc # "idle" /\ worker[v].d = d}}
  \cup (IF scan.pc # "idle" /\ scan.d = d THEN {<<Unlocked, scan.zone>>}
        ELSE IF sync.d = d THEN {<<NoDevice, sync.o[1]>>} ELSE {})
Removed == {worker[w].o[1] : w \in {v \in RoomWorkers : worker[v].pc \in RemoveSteps}}
Overlap(d) == Cardinality(Handled(d)) > 1 \/ \E h \in Handled(d) : h[2] \in Removed

History ==
  /\ excused' = excused \cup {d \in RoomDevices : Overlap(d)'}
  /\ unsure' = unsure \cup {d \in RoomDevices : roomFaults' # roomFaults /\ Handled(d) # {}}

RoomsNext ==
  \/ /\ ~died
     /\ \/ (\E z \in RoomIds : addZone(z)) /\ UNCHANGED roomFaults
        \/ \E w \in RoomWorkers :
             \/ RoomsRequest(w) /\ UNCHANGED roomFaults
             \/ (addDeviceToZone(w) \/ RemoveRoom(w) \/ RemoveDevice(w)) /\ UNCHANGED roomInputs
        \/ \E d \in RoomDevices : \/ (\E z \in RoomIds : PlugIn(d, z)) /\ UNCHANGED roomFaults
                                  \/ PlugOut(d) /\ UNCHANGED roomFaults
        \/ onRemoveDevice \/ onAddDevice \/ FindRoom \/ Detach \/ FindAgain \/ Attach \/ AssignNew \/ SetNew
        \/ (\E z \in RoomIds : SyncAssign(z))
        \/ SyncSet \/ synchronizeZoneSensorAssignment
     /\ History
  \/ RoomsEnd

RoomsSpec == RoomsInit /\ [][RoomsNext]_roomVars

-----------------------------------------------------------------------------
(* When nothing is under way, a device of the apartment is in the list of  *)
(* one room, which is in the apartment and is the one its m_ZoneID names,  *)
(* whatever moved it: a request, or the scanner after an answer to a move  *)
(* was lost.  If it is present, the dSM has it in the same room.  Devices  *)
(* that two threads handled at once are left out.                          *)
DeviceInItsRoom ==
  ~died /\ AtRest =>
    \A d \in RoomDevices \ excused : device[d].known =>
      /\ device[d].zone \in live
      /\ \A z \in live : d \in room[Object(z)].members <=> z = device[d].zone
      /\ device[d].present /\ d \notin unsure => dsm.zoneOf[d] = device[d].zone

(* When nothing is under way, the sensor of a room is a device of it:      *)
(* whoever takes a device out of a room takes its sensors off it, or puts  *)
(* another in their place, and no other thread assigns them again.         *)
SensorInRoom ==
  ~died /\ AtRest =>
    \A z \in live : LET d == room[Object(z)].sensor
                    IN  d \in room[Object(z)].members \cup excused \cup unsure \cup {NoDevice}
=============================================================================
