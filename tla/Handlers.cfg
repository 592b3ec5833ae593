CONSTANTS
  dSM1 = dSM1
  Myself = Myself
  Origins <- AllOrigins
  Missing <- NotInApartment
  Buttons <- WithButton
  Turbo = {}
  CallZones = {1}
  CallGroups = {0, 1}
  CalledScenes = {0, 5, 12}
  Clicks = {0, 1, 4, 5, 6}
  MaxCalls = 3
  UNKNOWN = UNKNOWN
  PRESENT = PRESENT
  ABSENT = ABSENT
  MaxMeters = 3
  Inputs <- AllInputs
  UserGroups = {16, 17}
  Blinds = {17}
  Fresh <- NewInputs
  LastScenes <- PanicLast
  Offers <- AllOffers
  MaxMessages = 3
  MaxRestarts = 1
SPECIFICATION HandlersSpec
INVARIANTS HandlersTypeOK DeferredIsExact InOrder LightFollowsScene FollowsRule
  AlarmIsCleared StatesAgree AlarmSurvivesRestart
PROPERTIES CallsAreSettled FeedbackEnds
CHECK_DEADLOCK FALSE
