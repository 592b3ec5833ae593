CONSTANTS
  Meters = {m1}
  Outdated = {}
  MaxRetry = 2
  MaxChanges = 2
  MaxInputs = 2
  MaxFaults = 1
  MaxQueue = 2
  Prompt = FALSE
  RoomDevices = {d1, d2}
  RoomSensors = {d1, d2}
  RoomIds = {z1, z2}
  NoRoom = NoRoom
  NoDevice = NoDevice
  RoomWorkers = {w1, w2}
  Unlocked = Unlocked
  MaxAllocs = 3
  MaxRoomRequests = 2
  MaxOthers = 2
  MaxRoomFaults = 1
SPECIFICATION MeterRoomsSpec
SYMMETRY RoomSymmetry
INVARIANTS MeterRoomsTypeOK HashIsNotAhead LostIsNotPresent DeviceInItsRoom SensorInRoom
