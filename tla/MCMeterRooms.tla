---------------------------- MODULE MCMeterRooms ----------------------------
(***************************************************************************)
(* The readout of the dSMs (MeterSync) and the rooms of the devices        *)
(* (Rooms), checked in one run: theme says which one a behaviour is about; *)
(* nothing happens in the other.                                           *)
(***************************************************************************)
EXTENDS MeterSync, Rooms, TLC

VARIABLE theme

(* Devices, rooms and web threads are alike, and no property is about      *)
(* liveness.                                                               *)
RoomSymmetry ==
  Permutations(RoomDevices) \cup Permutations(RoomIds) \cup Permutations(RoomWorkers)

(* the type invariants of both, each of the behaviours that are about it *)
MeterRoomsTypeOK == IF theme = "meters" THEN TypeOK ELSE RoomsTypeOK

(* values for the variables of Rooms where nothing reads them; a server    *)
(* that has ended has no property to keep                                  *)
NoRooms ==
  /\ died = TRUE
  /\ live = {} /\ allocs = {} /\ room = {} /\ device = {} /\ dsm = {} /\ deviceEvents = {}
  /\ roomMutex = {} /\ worker = {} /\ scan = {} /\ sync = {} /\ roomInputs = {}
  /\ roomFaults = {} /\ excused = {} /\ unsure = {}

MeterRoomsInit ==
  \/ theme = "meters" /\ Init /\ NoRooms
  \/ theme = "rooms" /\ Init /\ onBus = {} /\ RoomsInit

MeterRoomsNext ==
  /\ UNCHANGED theme
  /\ \/ theme = "meters" /\ Next /\ UNCHANGED roomVars
     \/ theme = "rooms" /\ RoomsNext /\ UNCHANGED vars

MeterRoomsSpec == MeterRoomsInit /\ [][MeterRoomsNext]_<<vars, roomVars, theme>>
=============================================================================
