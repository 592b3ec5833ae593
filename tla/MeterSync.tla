----------------------------- MODULE MeterSync -----------------------------
(***************************************************************************)
(* How the dSMs on the dS485 bus get into the model: the thread of         *)
(* MeterMaintenance reads out the meters that are present and not valid    *)
(* (src/model/modelmaintenance.cpp, src/model/busscanner.cpp), while the   *)
(* thread of ModelMaintenance changes the flags of the meters when meters  *)
(* join and leave (src/ds485/dsbusinterface.cpp) and web requests ask for  *)
(* a new readout.  The flags are written without a lock.                   *)
(*                                                                         *)
(* Meters are the bus members that busMemberIsLogicDSM accepts.  What can  *)
(* be read from a meter is a version number, which stands for its hash and *)
(* modification count too.  The bus is external: a call to a meter fails   *)
(* when the meter or the link is away, and sometimes for no reason.        *)
(***************************************************************************)
EXTENDS Integers, Sequences, FiniteSets, SequencesExt

CONSTANTS
  Meters,
  Outdated,   \* meters whose API version is 0x300 .. 0x302
  MaxRetry,   \* MAX_RETRY_COUNT (30 in the code)
  MaxChanges, \* bound: meters that join or leave, links that go up or down
  MaxInputs,  \* bound: changes of what can be read from a meter, and
              \*   readouts asked for by web requests
  MaxFaults,  \* bound: calls that fail for no reason
  Prompt,     \* ModelMaintenance handles its events within METER_DELAY_TIME
  MaxQueue    \* bound: length of the queue at which other threads post

ASSUME MeterSyncAssumption ==
  /\ IsFiniteSet(Meters) /\ Outdated \subseteq Meters
  /\ MaxRetry \in Nat \ {0} /\ MaxQueue \in Nat \ {0} /\ Prompt \in BOOLEAN
  /\ MaxChanges \in Nat /\ MaxInputs \in Nat /\ MaxFaults \in Nat

VARIABLES
  onBus, link, version,         \* the bus
  m_ModelEvents,                \* the queue, of <<type, meter>>
  known,                        \* m_DSMeters, in their order
  m_IsPresent, m_IsConnected, m_IsValid, m_IsInitialized,
                                \* the meters whose flag is set
  datamodelHash, data,          \* hash kept, and version of what was read
  lpc, todo,                    \* ModelMaintenance: control, meters to go
  modelInitializing,            \* its m_IsInitializing
  spc, meters, hadToUpdate,     \* MeterMaintenance: control, meters to go
  hash, counted,                \* its locals
  m_IsInitializing, m_retryCount, m_triggerSynchronize,
  requested,                    \* meters discovered, no readout begun since
  lost,                         \* meters lost and not announced since
  missed,                       \* the last discovery has failed
  budget                        \* what is left of the bounds

busVars   == <<onBus, link, version>>
flagVars  == <<m_IsPresent, m_IsConnected, m_IsValid>>
dataVars  == <<m_IsInitialized, datamodelHash, data>>
ghostVars == <<requested, lost, missed>>
modelVars == <<m_ModelEvents, known, lpc, todo, modelInitializing>>
scanVars  == <<spc, meters, hadToUpdate, hash, counted>>
initVars  == <<m_IsInitializing, m_retryCount>>
vars == <<busVars, flagVars, dataVars, ghostVars, modelVars, scanVars, initVars,
          m_triggerSynchronize, budget>>

EventTypes == {"joined", "lost", "dsMeterReady", "busReady", "busDown",
               "meterReady"}
NoMeter == "-"
ScanSteps == {"hash", "spec", "data", "finish", "devices"}

isPresent == m_IsPresent \cap m_IsConnected
Known == ToSet(known)

TypeOK ==
  /\ onBus \subseteq Meters /\ link \in BOOLEAN /\ version \in [Meters -> Nat]
  /\ m_ModelEvents \in Seq(EventTypes \X (Meters \cup {NoMeter}))
  /\ known \in Seq(Meters) /\ Len(known) = Cardinality(Known)
  /\ m_IsPresent \subseteq Known /\ m_IsConnected \subseteq Known
  /\ m_IsValid \subseteq Known /\ m_IsInitialized \subseteq Known
  /\ datamodelHash \in [Meters -> Nat] /\ data \in [Meters -> Nat]
  /\ lpc \in {"start", "idle", "discover"} /\ todo \subseteq Meters
  /\ spc \in {"turn", "test", "begin", "decide", "count", "members", "monitor",
              "retry", "synchronize"} \cup ScanSteps
  /\ meters \in Seq(Meters)
  /\ hadToUpdate \in BOOLEAN /\ modelInitializing \in BOOLEAN
  /\ m_IsInitializing \in BOOLEAN /\ m_triggerSynchronize \in BOOLEAN
  /\ missed \in BOOLEAN
  /\ hash \in Nat /\ counted \in Nat
  /\ m_retryCount \in 0 .. MaxRetry
  /\ requested \subseteq Meters /\ lost \subseteq Meters

Init ==
  /\ onBus \in SUBSET Meters /\ link = TRUE
  /\ version = [m \in Meters |-> 1]
  /\ m_ModelEvents = <<<<"busReady", NoMeter>>>>
  /\ known = << >>
  /\ m_IsPresent = {} /\ m_IsConnected = {} /\ m_IsValid = {}
  /\ m_IsInitialized = {}
  /\ datamodelHash = [m \in Meters |-> 0] /\ data = [m \in Meters |-> 0]
  /\ lpc = "start" /\ todo = {} /\ modelInitializing = TRUE
  /\ spc = "turn" /\ meters = << >> /\ hadToUpdate = FALSE
  /\ hash = 0 /\ counted = 0
  /\ m_IsInitializing = TRUE /\ m_retryCount = 0 /\ m_triggerSynchronize = FALSE
  /\ requested = {} /\ lost = {} /\ missed = FALSE
  /\ budget = [changes |-> MaxChanges, inputs |-> MaxInputs, faults |-> MaxFaults]

-----------------------------------------------------------------------------
Spend(what) == budget[what] > 0 /\ budget' = [budget EXCEPT ![what] = @ - 1]
Post(e, m)  == m_ModelEvents' = Append(m_ModelEvents, <<e, m>>)
PostMore(e, m) == Len(m_ModelEvents) < MaxQueue /\ Post(e, m)    \* bound

(* The bus, and DSBusInterface::handleBusChange and handleLinkState, which *)
(* its callbacks call                                                      *)

BusUnchanged == UNCHANGED <<flagVars, dataVars, ghostVars, known, lpc, todo,
                            modelInitializing, scanVars, initVars,
                            m_triggerSynchronize>>

handleBusChange(m) ==
  /\ Spend("changes")
  /\ \/ m \notin onBus /\ onBus' = onBus \cup {m} /\ PostMore("joined", m)
     \/ m \in onBus /\ onBus' = onBus \ {m} /\ PostMore("lost", m)
  /\ UNCHANGED <<link, version>> /\ BusUnchanged

handleLinkState ==
  /\ Spend("changes")
  /\ link' = ~link
  /\ PostMore(IF link' THEN "busReady" ELSE "busDown", NoMeter)
  /\ UNCHANGED <<onBus, version>> /\ BusUnchanged

UpdateMeter(m) ==
  /\ Spend("inputs")
  /\ version' = [version EXCEPT ![m] = @ + 1]
  /\ UNCHANGED <<onBus, link, m_ModelEvents>> /\ BusUnchanged

(* circuit/rescan and apartment/rescan *)
Rescan(m) ==
  /\ m \in Known
  /\ Spend("inputs")
  /\ m_IsValid' = m_IsValid \ {m}
  /\ UNCHANGED <<busVars, m_IsPresent, m_IsConnected, dataVars, ghostVars, modelVars,
                 scanVars, initVars, m_triggerSynchronize>>

(* a call to meter m: it answers, or not *)
Answers(m) == link /\ m \in onBus
CallSucceeds(m) == Answers(m) /\ UNCHANGED budget
CallFails(m)    == IF Answers(m) THEN Spend("faults") ELSE UNCHANGED budget

-----------------------------------------------------------------------------
(* ModelMaintenance *)

ModelUnchanged == UNCHANGED <<busVars, dataVars, scanVars, initVars>>

TakeEvent(e, m) ==
  /\ lpc = "idle"
  /\ m_ModelEvents # << >>
  /\ Head(m_ModelEvents) = <<e, m>>
  /\ m_ModelEvents' = Tail(m_ModelEvents)

(* the members that getBusMembers answers, or BusApiError *)
discoverDS485Devices ==
  \/ /\ link /\ UNCHANGED budget
     /\ todo' = onBus
     /\ lpc' = IF onBus = {} THEN "idle" ELSE "discover"
     /\ missed' = FALSE
  \/ /\ IF link THEN Spend("faults") ELSE UNCHANGED budget
     /\ lpc' = "idle" /\ todo' = {} /\ missed' = TRUE

(* at the start of execute, and when the link is there *)
StartDiscovery ==
  /\ \/ lpc = "start" /\ UNCHANGED m_ModelEvents
     \/ TakeEvent("busReady", NoMeter)
  /\ discoverDS485Devices
  /\ ModelUnchanged
  /\ UNCHANGED <<known, flagVars, requested, lost, modelInitializing,
                 m_triggerSynchronize>>

(* flags of a meter that has been found or has joined *)
Announce(m) ==
  /\ m_IsPresent' = m_IsPresent \cup {m}
  /\ m_IsConnected' = m_IsConnected \cup {m}
  /\ m_IsValid' = m_IsValid \ {m}
  /\ lost' = lost \ {m}

AllocatesTwice(m) == known' = Append(known, m)
allocateDSMeter(m) == known' = IF m \in Known THEN known ELSE Append(known, m)

DiscoverMeter(m) ==
  /\ lpc = "discover"
  /\ m \in todo
  /\ todo' = todo \ {m}
  /\ lpc' = IF todo' = {} THEN "idle" ELSE "discover"
  /\ allocateDSMeter(m)
  /\ Announce(m)
  /\ requested' = requested \cup {m}
  /\ Post("dsMeterReady", m)
  /\ ModelUnchanged
  /\ UNCHANGED <<missed, modelInitializing, m_triggerSynchronize, budget>>

(* a meter that is not known is looked for *)
DiscoverUnknown(m) ==
  /\ m \notin Known
  /\ discoverDS485Devices
  /\ UNCHANGED <<flagVars, requested, lost, m_triggerSynchronize>>

onJoinedDSMeter(m) ==
  /\ TakeEvent("joined", m)
  /\ \/ DiscoverUnknown(m)
     \/ /\ m \in Known
        /\ Announce(m)
        /\ m_triggerSynchronize' = TRUE
        /\ UNCHANGED <<requested, missed, lpc, todo, budget>>
  /\ ModelUnchanged
  /\ UNCHANGED <<known, modelInitializing>>

HandleDSMeterReady(m) ==
  /\ TakeEvent("dsMeterReady", m)
  /\ \/ DiscoverUnknown(m)
     \/ /\ m \in Known
        /\ m_IsConnected' = m_IsConnected \cup {m}
        /\ m_IsValid' = m_IsValid \ {m}
        /\ lost' = lost \ {m}
        /\ UNCHANGED <<m_IsPresent, requested, missed, lpc, todo, budget,
                       m_triggerSynchronize>>
  /\ ModelUnchanged
  /\ UNCHANGED <<known, modelInitializing>>

(* flags of the meters that are gone *)
StaysConnected(gone) ==
  /\ m_IsPresent' = m_IsPresent \ gone
  /\ lost' = lost \cup gone
  /\ UNCHANGED <<m_IsConnected, m_IsValid, requested, missed>>
onLostDSMeter(gone) ==
  /\ m_IsPresent' = m_IsPresent \ gone
  /\ m_IsConnected' = m_IsConnected \ gone
  /\ lost' = lost \cup gone
  /\ UNCHANGED <<m_IsValid, requested, missed>>

HandleLost ==
  /\ \/ \E m \in Meters : TakeEvent("lost", m) /\ onLostDSMeter({m} \cap Known)
     \/ TakeEvent("busDown", NoMeter) /\ onLostDSMeter(Known)
  /\ ModelUnchanged
  /\ UNCHANGED <<known, lpc, todo, modelInitializing, m_triggerSynchronize,
                 budget>>

onMeterReady ==
  /\ TakeEvent("meterReady", NoMeter)
  /\ modelInitializing' = FALSE
  /\ ModelUnchanged
  /\ UNCHANGED <<known, lpc, todo, flagVars, ghostVars, m_triggerSynchronize,
                 budget>>

-----------------------------------------------------------------------------
(* MeterMaintenance::readOutPendingMeter and BusScanner::scanDSMeter *)

ScanGoto(l) == spc' = l
ScanUnchanged == UNCHANGED <<busVars, known, lpc, todo, modelInitializing>>
NoWrites == UNCHANGED <<flagVars, dataVars, ghostVars, m_ModelEvents, initVars,
                        m_triggerSynchronize>>
meter == Head(meters)

(* after METER_DELAY_TIME *)
StartTurn ==
  /\ spc = "turn"
  /\ Prompt => m_ModelEvents = << >> /\ lpc = "idle"
  /\ meters' = known
  /\ hadToUpdate' = FALSE
  /\ ScanGoto("test")
  /\ UNCHANGED <<hash, counted, budget>> /\ NoWrites /\ ScanUnchanged

(* a meter that is present and not valid is read *)
TestMeter ==
  /\ spc = "test"
  /\ IF meters = << >>
       THEN ScanGoto("decide") /\ UNCHANGED meters
       ELSE IF meter \in isPresent \ m_IsValid
              THEN ScanGoto("begin") /\ UNCHANGED meters
              ELSE ScanGoto("test") /\ meters' = Tail(meters)
  /\ UNCHANGED <<hadToUpdate, hash, counted, budget>> /\ NoWrites /\ ScanUnchanged

BeginScan ==
  /\ spc = "begin"
  /\ m_IsPresent' = m_IsPresent \cup {meter}
  /\ m_IsValid' = m_IsValid \ {meter}
  /\ requested' = requested \ {meter}
  /\ ScanGoto("hash")
  /\ UNCHANGED <<meters, hadToUpdate, hash, counted, budget, m_IsConnected,
                 dataVars, lost, missed, m_ModelEvents, initVars, m_triggerSynchronize>>
  /\ ScanUnchanged

(* After one meter, read or not, the turn is over *)
EndReadout == hadToUpdate' = TRUE /\ ScanGoto("decide")

(* scanDSMeter returns false *)
ScanFails ==
  /\ spc \in {"hash", "spec", "data"}
  /\ CallFails(meter)
  /\ EndReadout
  /\ UNCHANGED <<meters, hash, counted>> /\ NoWrites /\ ScanUnchanged

getMeterHash ==
  /\ spc = "hash"
  /\ CallSucceeds(meter)
  /\ hash' = version[meter]
  /\ ScanGoto("spec")
  /\ UNCHANGED <<meters, hadToUpdate, counted>> /\ NoWrites /\ ScanUnchanged

KeepHash == datamodelHash' = [datamodelHash EXCEPT ![meter] = hash]

(* "dSMeter is incompatible": it is kept as not present *)
applyMeterSpec ==
  /\ spc = "spec"
  /\ CallSucceeds(meter)
  /\ IF meter \in Outdated
       THEN /\ KeepHash
            /\ m_IsPresent' = m_IsPresent \ {meter}
            /\ m_IsValid' = m_IsValid \cup {meter}
            /\ ScanGoto("devices")
       ELSE /\ ScanGoto("data")
            /\ UNCHANGED <<datamodelHash, m_IsPresent, m_IsValid>>
  /\ UNCHANGED <<meters, hadToUpdate, hash, counted, m_IsConnected,
                 m_IsInitialized, data, ghostVars, m_ModelEvents,
                 initVars, m_triggerSynchronize>>
  /\ ScanUnchanged

(* All of the meter is read, or only which devices it has when the model   *)
(* is as new as the meter.  Of zone 0, of the clusters and of the power    *)
(* states an error is logged and the readout goes on.                      *)
NeedsFullScan == \/ modelInitializing \/ meter \notin m_IsInitialized
                 \/ hash # datamodelHash[meter]

ReadData ==
  /\ spc = "data"
  /\ \/ /\ NeedsFullScan
        /\ data' = [data EXCEPT ![meter] = version[meter]]
        /\ m_IsInitialized' = m_IsInitialized \cup {meter}
        /\ \/ CallSucceeds(meter)
           \/ Spend("faults") /\ Answers(meter)   \* clusters, power states: ignored
     \/ /\ ~NeedsFullScan
        /\ CallSucceeds(meter)
        /\ UNCHANGED <<data, m_IsInitialized>>
  /\ ScanGoto("finish")
  /\ UNCHANGED <<meters, hadToUpdate, hash, counted, flagVars, datamodelHash,
                 ghostVars, m_ModelEvents, initVars, m_triggerSynchronize>>
  /\ ScanUnchanged

KeepLateHash ==
  /\ spc = "finish"
  /\ datamodelHash' = [datamodelHash EXCEPT ![meter] = version[meter]]
  /\ m_IsValid' = m_IsValid \cup {meter}
  /\ ScanGoto("devices")
  /\ UNCHANGED <<meters, hadToUpdate, hash, counted, budget, m_IsPresent,
                 m_IsConnected, m_IsInitialized, data, ghostVars,
                 m_ModelEvents, initVars, m_triggerSynchronize>>
  /\ ScanUnchanged
FinishScan ==
  /\ spc = "finish"
  /\ KeepHash
  /\ m_IsValid' = m_IsValid \cup {meter}
  /\ ScanGoto("devices")
  /\ UNCHANGED <<meters, hadToUpdate, hash, counted, budget, m_IsPresent,
                 m_IsConnected, m_IsInitialized, data, ghostVars,
                 m_ModelEvents, initVars, m_triggerSynchronize>>
  /\ ScanUnchanged

(* the devices of the meter are connected and valid, dsMeter_ready is raised *)
dsMeterReady ==
  /\ spc = "devices"
  /\ EndReadout
  /\ UNCHANGED <<meters, hash, counted, budget>> /\ NoWrites /\ ScanUnchanged

-----------------------------------------------------------------------------
(* The end of the initialization *)

(* "If we didn't have to update for one cycle, assume that we're done" *)
DecideInitialized ==
  /\ spc = "decide"
  /\ ScanGoto(IF m_IsInitializing /\ ~hadToUpdate THEN "count" ELSE "synchronize")
  /\ hash' = 0 /\ meters' = << >>
  /\ UNCHANGED <<hadToUpdate, counted, budget>> /\ NoWrites /\ ScanUnchanged

getNumValiddSMeters ==
  /\ spc = "count"
  /\ counted' = Cardinality(Known \cap isPresent \cap m_IsValid)
  /\ ScanGoto("members")
  /\ UNCHANGED <<meters, hadToUpdate, hash, budget>> /\ NoWrites /\ ScanUnchanged

(* getdSMBusMemberCount, -1 when the call fails *)
MemberCount(n) ==
  \/ link /\ UNCHANGED budget /\ n = Cardinality(onBus)
  \/ n = -1 /\ IF link THEN Spend("faults") ELSE UNCHANGED budget

setupInitializedState ==
  /\ m_IsInitializing' = FALSE
  /\ m_triggerSynchronize' = TRUE
  /\ PostMore("meterReady", NoMeter)
  /\ ScanGoto("synchronize")

CompareMembers ==
  /\ spc = "members"
  /\ \E n \in -1 .. Cardinality(Meters) :
       /\ MemberCount(n)
       /\ IF n > 0 /\ counted = n
            THEN setupInitializedState
            ELSE /\ ScanGoto("monitor")
                 /\ UNCHANGED <<m_IsInitializing, m_triggerSynchronize,
                                m_ModelEvents>>
  /\ counted' = 0
  /\ UNCHANGED <<meters, hadToUpdate, hash, m_retryCount, flagVars, dataVars,
                 ghostVars>>
  /\ ScanUnchanged

monitorInitialization ==
  /\ spc = "monitor"
  /\ m_retryCount' = m_retryCount + 1
  /\ ScanGoto(IF m_retryCount' >= MaxRetry THEN "retry" ELSE "synchronize")
  /\ UNCHANGED <<meters, hadToUpdate, hash, counted, budget, flagVars, dataVars,
                 ghostVars, m_ModelEvents, m_IsInitializing,
                 m_triggerSynchronize>>
  /\ ScanUnchanged

GivesUp     == UNCHANGED m_ModelEvents
SearchAgain == PostMore("busReady", NoMeter)

(* there is no dSM, or the bus is searched again *)
RetryInitialization ==
  /\ spc = "retry"
  /\ \E n \in -1 .. Cardinality(Meters) :
       /\ MemberCount(n)
       /\ IF n = 0
            THEN setupInitializedState /\ UNCHANGED m_retryCount
            ELSE /\ SearchAgain
                 /\ m_retryCount' = 0
                 /\ ScanGoto("synchronize")
                 /\ UNCHANGED <<m_IsInitializing, m_triggerSynchronize>>
  /\ UNCHANGED <<meters, hadToUpdate, hash, counted, flagVars, dataVars,
                 ghostVars>>
  /\ ScanUnchanged

synchronizeMeters ==
  /\ spc = "synchronize"
  /\ m_triggerSynchronize' = FALSE
  /\ ScanGoto("turn")
  /\ UNCHANGED <<meters, hadToUpdate, hash, counted, budget, flagVars, dataVars,
                 ghostVars, m_ModelEvents, initVars>>
  /\ ScanUnchanged

-----------------------------------------------------------------------------
Bus == \/ \E m \in Meters : handleBusChange(m) \/ UpdateMeter(m) \/ Rescan(m)
       \/ handleLinkState

Model == \/ StartDiscovery \/ HandleLost \/ onMeterReady
         \/ \E m \in Meters : \/ DiscoverMeter(m) \/ onJoinedDSMeter(m)
                              \/ HandleDSMeterReady(m)

Readout == \/ StartTurn \/ TestMeter \/ BeginScan \/ ScanFails \/ getMeterHash
           \/ applyMeterSpec \/ ReadData \/ FinishScan \/ dsMeterReady
           \/ DecideInitialized \/ getNumValiddSMeters \/ CompareMembers
           \/ monitorInitialization \/ RetryInitialization \/ synchronizeMeters

Next == Bus \/ Model \/ Readout

(* Both threads run; the bus does what it wants *)
Spec == Init /\ [][Next]_vars /\ WF_vars(Model) /\ WF_vars(Readout)

-----------------------------------------------------------------------------
(* Safety *)

(* A change of a meter is found at the next readout: the hash that is kept *)
(* is never newer than what was read, whenever in a readout the meter      *)
(* changes and wherever the readout fails.  data is what a failing call    *)
(* ends the readout for; errors of the clusters, of the power states and   *)
(* of the groups of zone 0 are ignored.                                    *)
HashIsNotAhead ==
  \A m \in m_IsInitialized : m \notin Outdated => datamodelHash[m] <= data[m]

(* A meter that was lost is not present until it is announced again, also  *)
(* when a readout that runs at the same time sets m_IsPresent.             *)
LostIsNotPresent == lost \cap isPresent = {}

(* A meter that was discovered is read again ("force a rescan              *)
(* unconditionally", modelmaintenance.cpp): when it is valid, and nothing  *)
(* is on its way that changes this, a readout of it has begun since.       *)
ReadoutOwed(m) ==
  /\ m \in requested \cap m_IsValid \cap isPresent
  /\ <<"dsMeterReady", m>> \notin ToSet(m_ModelEvents)
  /\ ~(spc \in ScanSteps /\ meter = m)
RescanIsForced == \A m \in Meters : ~ReadoutOwed(m)

(* Liveness *)

(* The link stays, and no meter that is not on the bus stays present *)
BusAtRest == <>[](link /\ isPresent \subseteq onBus)

(* The initialization ends: failed calls are made again, and the bus is    *)
(* searched again after MAX_RETRY_COUNT turns.                             *)
InitializationEnds == BusAtRest => <>~m_IsInitializing

(* All meters of a bus at rest get present and valid, and stay so.  This   *)
(* needs a discovery that succeeds: one that has failed after the          *)
(* initialization is not made again.                                       *)
MetersAreRead ==
  BusAtRest /\ <>[]~missed
    => <>[](onBus \ Outdated \subseteq isPresent \cap m_IsValid)

(* With a bus at rest synchronizing the dSMs comes to an end, in both ways *)
MetersSettle == InitializationEnds /\ MetersAreRead
=============================================================================
