------------------------- MODULE MeterRoomsProofs -------------------------
(***************************************************************************)
(* Proofs about MeterSync, for every set of meters and every number of     *)
(* changes, failing calls and retries; and about Rooms, for every set of   *)
(* devices, rooms and web threads and every number of requests, of events  *)
(* and of failing calls.                                                   *)
(***************************************************************************)
EXTENDS MeterSync, Rooms, FiniteSetTheorems, SequenceTheorems, TLAPS

-----------------------------------------------------------------------------
(* The readout of the meters                                               *)

(* MeterMaintenance reads out a meter that the model knows. *)
ScanOK ==
  /\ ToSet(meters) \subseteq Known
  /\ spc \in {"begin"} \cup ScanSteps => meters # << >>

(* The retries are counted only while MeterMaintenance initializes. *)
RetryOK ==
  /\ spc \in {"count", "members", "monitor", "retry"} => m_IsInitializing
  /\ m_retryCount = MaxRetry => spc = "retry" \/ ~m_IsInitializing

(* No hash, read or kept, is newer than what can be read from the meter;   *)
(* what a readout is about to keep is not newer than what it has read.     *)
(* Of an outdated meter no data is read.                                   *)
HashOK ==
  /\ \A m \in Meters : datamodelHash[m] <= version[m]
  /\ spc \in {"spec", "data", "finish"} => hash <= version[meter]
  /\ spc \in {"data", "finish"} => meter \notin Outdated
  /\ spc = "finish" => meter \in m_IsInitialized /\ hash <= data[meter]

(* A lost meter is not connected. *)
LostOK == lost \cap m_IsConnected = {}

MeterInv == TypeOK /\ ScanOK /\ RetryOK /\ HashOK /\ LostOK /\ HashIsNotAhead

(***************************************************************************)
(* Meters that the model knows                                             *)
(***************************************************************************)

(* the elements of a sequence of meters *)
LEMMA SeqFacts ==
  ASSUME NEW s \in Seq(Meters)
  PROVE  /\ ToSet(s) \subseteq Meters /\ IsFiniteSet(ToSet(s)) /\ Len(s) \in Nat
         /\ s # << >> => /\ Head(s) \in ToSet(s) /\ Tail(s) \in Seq(Meters)
                         /\ ToSet(Tail(s)) \subseteq ToSet(s)
         /\ \A m \in Meters : /\ Append(s, m) \in Seq(Meters) /\ Len(Append(s, m)) = Len(s) + 1
                              /\ ToSet(Append(s, m)) = ToSet(s) \cup {m}
<1>1. DOMAIN s = 1 .. Len(s) /\ Len(s) \in Nat /\ \A i \in 1 .. Len(s) : s[i] \in Meters
  BY LenProperties, ElementOfSeq
<1>2. ToSet(s) \subseteq Meters
  BY <1>1 DEF ToSet
<1>3. IsFiniteSet(ToSet(s))
  BY <1>2, FS_Subset, MeterSyncAssumption
<1>4. ASSUME s # << >>
      PROVE  /\ Head(s) \in ToSet(s) /\ Tail(s) \in Seq(Meters)
             /\ ToSet(Tail(s)) \subseteq ToSet(s)
  <2>1. /\ Tail(s) \in Seq(Meters) /\ Len(Tail(s)) = Len(s) - 1 /\ Len(s) >= 1
        /\ \A i \in 1 .. Len(Tail(s)) : Tail(s)[i] = s[i + 1]
    BY <1>1, <1>4, HeadTailProperties, EmptySeq
  <2>2. DOMAIN Tail(s) = 1 .. Len(s) - 1
    BY <2>1, LenProperties
  <2>3. \A i \in 1 .. Len(s) - 1 : i + 1 \in 1 .. Len(s)
    BY <1>1
  <2>4. Head(s) \in ToSet(s)
    BY <1>1, <2>1 DEF ToSet
  <2>5. ToSet(Tail(s)) \subseteq ToSet(s)
    BY <1>1, <2>1, <2>2, <2>3 DEF ToSet
  <2>6. QED BY <2>1, <2>4, <2>5
<1>5. ASSUME NEW m \in Meters
      PROVE  /\ Append(s, m) \in Seq(Meters) /\ Len(Append(s, m)) = Len(s) + 1
             /\ ToSet(Append(s, m)) = ToSet(s) \cup {m}
  <2>1. /\ Append(s, m) \in Seq(Meters) /\ Len(Append(s, m)) = Len(s) + 1
        /\ DOMAIN Append(s, m) = 1 .. Len(s) + 1
        /\ \A i \in 1 .. Len(s) : Append(s, m)[i] = s[i]
        /\ Append(s, m)[Len(s) + 1] = m
    BY AppendProperties, LenProperties
  <2>2. \A i \in 1 .. Len(s) + 1 : i \in 1 .. Len(s) \/ i = Len(s) + 1
    BY <1>1
  <2>3. Len(s) + 1 \in 1 .. Len(s) + 1 /\ \A i \in 1 .. Len(s) : i \in 1 .. Len(s) + 1
    BY <1>1
  <2>4. ToSet(Append(s, m)) \subseteq ToSet(s) \cup {m}
    BY <1>1, <2>1, <2>2 DEF ToSet
  <2>5. ToSet(s) \cup {m} \subseteq ToSet(Append(s, m))
    BY <1>1, <2>1, <2>3 DEF ToSet
  <2>6. QED BY <2>1, <2>4, <2>5
<1>6. QED BY <1>1, <1>2, <1>3, <1>4, <1>5

(***************************************************************************)
(* Types                                                                   *)
(***************************************************************************)

(* the types of the bus and the queue, of the meters and their flags, of   *)
(* what is read from them, and of the control of the threads               *)
BusTypes ==
  /\ onBus \subseteq Meters /\ link \in BOOLEAN /\ version \in [Meters -> Nat]
  /\ m_ModelEvents \in Seq(EventTypes \X (Meters \cup {NoMeter}))
FlagTypes ==
  /\ known \in Seq(Meters) /\ Len(known) = Cardinality(Known)
  /\ m_IsPresent \subseteq Known /\ m_IsConnected \subseteq Known
  /\ m_IsValid \subseteq Known /\ m_IsInitialized \subseteq Known
ValueTypes ==
  /\ datamodelHash \in [Meters -> Nat] /\ data \in [Meters -> Nat]
  /\ hash \in Nat /\ counted \in Nat
ModelTypes ==
  /\ lpc \in {"start", "idle", "discover"} /\ todo \subseteq Meters
  /\ modelInitializing \in BOOLEAN /\ missed \in BOOLEAN /\ m_triggerSynchronize \in BOOLEAN
  /\ requested \subseteq Meters /\ lost \subseteq Meters
ScanTypes ==
  /\ spc \in {"turn", "test", "begin", "decide", "count", "members", "monitor",
              "retry", "synchronize"} \cup ScanSteps
  /\ meters \in Seq(Meters) /\ hadToUpdate \in BOOLEAN
  /\ m_IsInitializing \in BOOLEAN /\ m_retryCount \in 0 .. MaxRetry

(* TypeOK, in parts *)
LEMMA TypeParts ==
  /\ TypeOK <=> BusTypes /\ FlagTypes /\ ValueTypes /\ ModelTypes /\ ScanTypes
  /\ TypeOK' <=> BusTypes' /\ FlagTypes' /\ ValueTypes' /\ ModelTypes' /\ ScanTypes'
BY DEF TypeOK, BusTypes, FlagTypes, ValueTypes, ModelTypes, ScanTypes

(* The bus and the web requests change no flag but m_IsValid. *)
LEMMA BusFrame ==
  ASSUME Bus
  PROVE  UNCHANGED <<m_IsPresent, m_IsConnected, dataVars, ghostVars, known, lpc, todo,
                     modelInitializing, scanVars, initVars, m_triggerSynchronize>>
BY DEF Bus, handleBusChange, UpdateMeter, Rescan, handleLinkState, BusUnchanged, modelVars, flagVars

(* ModelMaintenance changes nothing of what is read from the meters. *)
LEMMA ModelFrame ==
  ASSUME Model
  PROVE  UNCHANGED <<busVars, dataVars, scanVars, initVars>>
BY DEF Model, StartDiscovery, HandleLost, onMeterReady, DiscoverMeter, onJoinedDSMeter,
   HandleDSMeterReady, ModelUnchanged

(* MeterMaintenance neither finds nor loses a meter. *)
LEMMA ReadoutFrame ==
  ASSUME Readout
  PROVE  UNCHANGED <<busVars, known, lpc, todo, modelInitializing, m_IsConnected, lost, missed>>
BY DEF Readout, StartTurn, TestMeter, BeginScan, ScanFails, getMeterHash, applyMeterSpec, ReadData,
   FinishScan, dsMeterReady, DecideInitialized, getNumValiddSMeters, CompareMembers,
   monitorInitialization, RetryInitialization, synchronizeMeters, ScanUnchanged, NoWrites,
   flagVars, ghostVars

(* the entries of the queue *)
QueueEntries == EventTypes \X (Meters \cup {NoMeter})

(* The queue is appended to or its head is taken. *)
LEMMA QueueStep ==
  ASSUME TypeOK, [Next]_vars
  PROVE  m_ModelEvents' \in Seq(QueueEntries)
<1>q. m_ModelEvents \in Seq(QueueEntries)
  BY DEF TypeOK, QueueEntries
<1>1. ASSUME NEW e \in EventTypes, NEW m \in Meters \cup {NoMeter}, Post(e, m)
      PROVE  m_ModelEvents' \in Seq(QueueEntries)
  <2>1. <<e, m>> \in QueueEntries
    BY DEF QueueEntries
  <2>2. QED BY <1>q, <1>1, <2>1, AppendProperties DEF Post
<1>2. ASSUME NEW e, NEW m, TakeEvent(e, m) PROVE m_ModelEvents' \in Seq(QueueEntries)
  <2>1. QED BY <1>q, <1>2, HeadTailProperties DEF TakeEvent
<1>3. CASE UNCHANGED m_ModelEvents
  BY <1>q, <1>3
<1>4. CASE Bus
  <2>1. \/ UNCHANGED m_ModelEvents
        \/ \E e \in EventTypes, m \in Meters \cup {NoMeter} : Post(e, m)
    BY <1>4 DEF Bus, handleBusChange, UpdateMeter, Rescan, handleLinkState, modelVars,
       PostMore, EventTypes
  <2>2. QED BY <1>1, <1>3, <2>1
<1>5. CASE Model
  <2>1. \/ UNCHANGED m_ModelEvents
        \/ \E e \in EventTypes, m \in Meters \cup {NoMeter} : Post(e, m)
        \/ \E e, m : TakeEvent(e, m)
    BY <1>5 DEF Model, StartDiscovery, HandleLost, onMeterReady, DiscoverMeter, onJoinedDSMeter,
       HandleDSMeterReady, EventTypes
  <2>2. QED BY <1>1, <1>2, <1>3, <2>1
<1>6. CASE Readout
  <2>1. \/ UNCHANGED m_ModelEvents
        \/ \E e \in EventTypes, m \in Meters \cup {NoMeter} : Post(e, m)
    BY <1>6 DEF Readout, StartTurn, TestMeter, BeginScan, ScanFails, getMeterHash, applyMeterSpec,
       ReadData, FinishScan, dsMeterReady, DecideInitialized, getNumValiddSMeters, CompareMembers,
       monitorInitialization, RetryInitialization, synchronizeMeters, NoWrites,
       setupInitializedState, SearchAgain, PostMore, EventTypes
  <2>2. QED BY <1>1, <1>3, <2>1
<1>7. QED BY <1>3, <1>4, <1>5, <1>6 DEF Next, vars, modelVars

(* The model forgets no meter. *)
LEMMA KnownStep ==
  ASSUME TypeOK, [Next]_vars
  PROVE  /\ known' \in Seq(Meters) /\ Len(known') = Cardinality(Known') /\ Known \subseteq Known'
         /\ \A m \in Meters : DiscoverMeter(m) => m \in Known'
<1>q. FlagTypes
  BY TypeParts
<1>1. ASSUME UNCHANGED known
      PROVE  known' \in Seq(Meters) /\ Len(known') = Cardinality(Known') /\ Known \subseteq Known'
  BY <1>q, <1>1 DEF FlagTypes, Known
<1>2. ASSUME NEW m \in Meters, DiscoverMeter(m)
      PROVE  /\ known' \in Seq(Meters) /\ Len(known') = Cardinality(Known') /\ Known \subseteq Known'
             /\ m \in Known'
  <2>1. CASE m \in Known
    BY <1>q, <1>2, <2>1 DEF DiscoverMeter, allocateDSMeter, FlagTypes, Known
  <2>2. CASE m \notin Known
    <3>1. known' = Append(known, m)
      BY <1>2, <2>2 DEF DiscoverMeter, allocateDSMeter
    <3>2. known' \in Seq(Meters) /\ Len(known') = Len(known) + 1 /\ Known' = Known \cup {m}
          /\ IsFiniteSet(Known)
      BY <1>q, <3>1, SeqFacts DEF FlagTypes, Known
    <3>3. Cardinality(Known') = Cardinality(Known) + 1
      BY <2>2, <3>2, FS_AddElement
    <3>4. QED BY <1>q, <3>2, <3>3 DEF FlagTypes
  <2>3. QED BY <2>1, <2>2
<1>3. UNCHANGED known \/ \E m \in Meters : DiscoverMeter(m)
  BY BusFrame, ReadoutFrame DEF Next, Model, StartDiscovery, HandleLost, onMeterReady,
     onJoinedDSMeter, HandleDSMeterReady, vars, modelVars
<1>4. QED BY <1>1, <1>2, <1>3

(* the meter that is read out is known *)
LEMMA MeterIsKnown ==
  ASSUME TypeOK, ScanOK, spc \in {"begin"} \cup ScanSteps
  PROVE  meter \in Known /\ meter \in Meters /\ Known \subseteq Meters
<1>q. FlagTypes /\ ScanTypes
  BY TypeParts
<1>1. Head(meters) \in ToSet(meters)
  BY <1>q, SeqFacts DEF ScanOK, ScanTypes
<1>2. Known \subseteq Meters
  BY <1>q, SeqFacts DEF FlagTypes, Known
<1>3. QED BY <1>1, <1>2 DEF ScanOK, meter

(* Every step keeps the types. *)
LEMMA TypeStep ==
  ASSUME TypeOK, ScanOK, RetryOK, [Next]_vars
  PROVE  TypeOK'
<1>q. BusTypes /\ FlagTypes /\ ValueTypes /\ ModelTypes /\ ScanTypes
  BY TypeParts
<1>k. known' \in Seq(Meters) /\ Len(known') = Cardinality(Known') /\ Known \subseteq Known'
  BY KnownStep
<1>m. Known \subseteq Meters
  BY <1>q, SeqFacts DEF FlagTypes, Known
<1>1. BusTypes'
  <2>1. onBus' \subseteq Meters
    <3>1. CASE Bus
      BY <1>q, <3>1 DEF BusTypes, Bus, handleBusChange, UpdateMeter, Rescan, handleLinkState, busVars
    <3>2. QED BY <1>q, <3>1, ModelFrame, ReadoutFrame DEF BusTypes, Next, vars, busVars
  <2>2. link' \in BOOLEAN
    <3>1. CASE Bus
      BY <1>q, <3>1 DEF BusTypes, Bus, handleBusChange, UpdateMeter, Rescan, handleLinkState, busVars
    <3>2. QED BY <1>q, <3>1, ModelFrame, ReadoutFrame DEF BusTypes, Next, vars, busVars
  <2>3. version' \in [Meters -> Nat]
    <3>1. CASE Bus
      BY <1>q, <3>1 DEF BusTypes, Bus, handleBusChange, UpdateMeter, Rescan, handleLinkState, busVars
    <3>2. QED BY <1>q, <3>1, ModelFrame, ReadoutFrame DEF BusTypes, Next, vars, busVars
  <2>4. QED BY <2>1, <2>2, <2>3, QueueStep DEF BusTypes, QueueEntries
<1>2. FlagTypes'
  <2>1. CASE Bus
    <3>1. m_IsValid' \subseteq m_IsValid
      BY <2>1 DEF Bus, handleBusChange, UpdateMeter, Rescan, handleLinkState, BusUnchanged, flagVars
    <3>2. QED BY <1>q, <1>k, <2>1, <3>1, BusFrame DEF FlagTypes, dataVars
  <2>2. CASE Model
    <3>1. ASSUME NEW m \in Meters, DiscoverMeter(m)
          PROVE  m_IsPresent' \subseteq Known' /\ m_IsConnected' \subseteq Known'
      <4>1. m \in Known'
        BY <3>1, KnownStep
      <4>2. m_IsPresent' = m_IsPresent \cup {m} /\ m_IsConnected' = m_IsConnected \cup {m}
        BY <3>1 DEF DiscoverMeter, Announce
      <4>3. QED BY <1>q, <1>k, <4>1, <4>2 DEF FlagTypes
    <3>2. ASSUME ~\E m \in Meters : DiscoverMeter(m)
          PROVE  m_IsPresent' \subseteq Known' /\ m_IsConnected' \subseteq Known'
      <4>1. m_IsPresent' \subseteq Known /\ m_IsConnected' \subseteq Known
        BY <1>q, <2>2, <3>2 DEF Model, StartDiscovery, HandleLost, onLostDSMeter, onMeterReady,
           onJoinedDSMeter, HandleDSMeterReady, DiscoverUnknown, Announce, FlagTypes, flagVars
      <4>2. QED BY <1>k, <4>1
    <3>3. m_IsValid' \subseteq Known'
      BY <1>q, <1>k, <2>2 DEF Model, StartDiscovery, HandleLost, onLostDSMeter, onMeterReady,
         DiscoverMeter, onJoinedDSMeter, HandleDSMeterReady, DiscoverUnknown, Announce, FlagTypes, flagVars
    <3>4. QED BY <1>q, <1>k, <2>2, <3>1, <3>2, <3>3, ModelFrame DEF FlagTypes, dataVars
  <2>3. CASE Readout
    <3>1. UNCHANGED <<known, m_IsConnected>>
      BY <2>3, ReadoutFrame
    <3>2. Known' = Known
      BY <3>1 DEF Known
    <3>3. CASE BeginScan \/ applyMeterSpec \/ ReadData \/ FinishScan
      <4>1. meter \in Known
        BY <3>3, MeterIsKnown DEF BeginScan, applyMeterSpec, ReadData, FinishScan, ScanSteps
      <4>2. m_IsPresent' \subseteq Known /\ m_IsValid' \subseteq Known /\ m_IsInitialized' \subseteq Known
        BY <1>q, <3>3, <4>1 DEF BeginScan, applyMeterSpec, ReadData, FinishScan, FlagTypes, flagVars, dataVars
      <4>3. QED BY <1>q, <1>k, <3>1, <3>2, <4>2 DEF FlagTypes
    <3>4. CASE ~(BeginScan \/ applyMeterSpec \/ ReadData \/ FinishScan)
      <4>1. UNCHANGED <<flagVars, dataVars>>
        BY <2>3, <3>4 DEF Readout, StartTurn, TestMeter, ScanFails, getMeterHash, dsMeterReady,
           DecideInitialized, getNumValiddSMeters, CompareMembers, monitorInitialization,
           RetryInitialization, synchronizeMeters, NoWrites
      <4>2. QED BY <1>q, <1>k, <3>2, <4>1 DEF FlagTypes, flagVars, dataVars
    <3>5. QED BY <3>3, <3>4
  <2>4. CASE UNCHANGED vars
    BY <1>q, <1>k, <2>4 DEF FlagTypes, vars, flagVars, dataVars
  <2>5. QED BY <2>1, <2>2, <2>3, <2>4 DEF Next
<1>3. ValueTypes'
  <2>1. CASE Readout
    <3>1. CASE getMeterHash \/ applyMeterSpec \/ ReadData \/ FinishScan
      <4>1. meter \in Meters
        BY <3>1, MeterIsKnown DEF getMeterHash, applyMeterSpec, ReadData, FinishScan, ScanSteps
      <4>2. version[meter] \in Nat
        BY <1>q, <4>1 DEF BusTypes
      <4>3. QED
        BY <1>q, <3>1, <4>1, <4>2 DEF getMeterHash, applyMeterSpec, ReadData, FinishScan, KeepHash,
           NoWrites, ValueTypes, dataVars
    <3>2. CASE getNumValiddSMeters
      <4>1. IsFiniteSet(Known)
        BY <1>q, SeqFacts DEF FlagTypes, Known
      <4>2. Known \cap isPresent \cap m_IsValid \subseteq Known
        OBVIOUS
      <4>3. Cardinality(Known \cap isPresent \cap m_IsValid) \in Nat
        BY <4>1, <4>2, FS_Subset, FS_CardinalityType
      <4>4. QED BY <1>q, <3>2, <4>3 DEF getNumValiddSMeters, NoWrites, ValueTypes, dataVars
    <3>3. CASE ~(getMeterHash \/ applyMeterSpec \/ ReadData \/ FinishScan \/ getNumValiddSMeters)
      BY <1>q, <2>1, <3>3 DEF Readout, StartTurn, TestMeter, BeginScan, ScanFails, dsMeterReady,
         DecideInitialized, CompareMembers, monitorInitialization, RetryInitialization,
         synchronizeMeters, NoWrites, ValueTypes, dataVars
    <3>4. QED BY <3>1, <3>2, <3>3
  <2>2. QED BY <1>q, <2>1, BusFrame, ModelFrame DEF Next, vars, scanVars, dataVars, ValueTypes
<1>4. ModelTypes'
  <2>1. CASE Model
    <3>1. lpc' \in {"start", "idle", "discover"} /\ todo' \subseteq Meters
      BY <1>q, <2>1 DEF Model, StartDiscovery, HandleLost, onMeterReady, DiscoverMeter,
         onJoinedDSMeter, HandleDSMeterReady, DiscoverUnknown, discoverDS485Devices, ModelTypes, BusTypes
    <3>2. requested' \subseteq Meters /\ lost' \subseteq Meters
      BY <1>q, <1>m, <2>1 DEF Model, StartDiscovery, HandleLost, onLostDSMeter, onMeterReady, DiscoverMeter,
         onJoinedDSMeter, HandleDSMeterReady, DiscoverUnknown, Announce, ModelTypes, ghostVars
    <3>3. /\ missed' \in BOOLEAN /\ modelInitializing' \in BOOLEAN /\ m_triggerSynchronize' \in BOOLEAN
      BY <1>q, <2>1 DEF Model, StartDiscovery, HandleLost, onLostDSMeter, onMeterReady, DiscoverMeter,
         onJoinedDSMeter, HandleDSMeterReady, DiscoverUnknown, discoverDS485Devices, ModelTypes, ghostVars
    <3>4. QED BY <3>1, <3>2, <3>3 DEF ModelTypes
  <2>2. CASE Readout
    <3>1. requested' \subseteq requested
      BY <2>2 DEF Readout, StartTurn, TestMeter, BeginScan, ScanFails, getMeterHash, applyMeterSpec,
         ReadData, FinishScan, dsMeterReady, DecideInitialized, getNumValiddSMeters, CompareMembers,
         monitorInitialization, RetryInitialization, synchronizeMeters, NoWrites, ghostVars
    <3>2. m_triggerSynchronize' \in BOOLEAN
      BY <1>q, <2>2 DEF Readout, StartTurn, TestMeter, BeginScan, ScanFails, getMeterHash, applyMeterSpec,
         ReadData, FinishScan, dsMeterReady, DecideInitialized, getNumValiddSMeters, CompareMembers,
         monitorInitialization, RetryInitialization, synchronizeMeters, NoWrites,
         setupInitializedState, ModelTypes
    <3>3. QED BY <1>q, <2>2, <3>1, <3>2, ReadoutFrame DEF ModelTypes
  <2>3. QED BY <1>q, <2>1, <2>2, BusFrame DEF Next, vars, modelVars, ghostVars, ModelTypes
<1>5. ScanTypes'
  <2>1. CASE Readout
    <3>1. meters' \in Seq(Meters)
      <4>1. << >> \in Seq(Meters) /\ known \in Seq(Meters) /\ meters \in Seq(Meters)
        BY <1>q DEF FlagTypes, ScanTypes
      <4>2. meters # << >> => Tail(meters) \in Seq(Meters)
        BY <4>1, SeqFacts
      <4>3. meters' \in {meters, known, << >>} \/ (meters # << >> /\ meters' = Tail(meters))
        BY <2>1 DEF Readout, StartTurn, TestMeter, BeginScan, ScanFails, getMeterHash, applyMeterSpec,
           ReadData, FinishScan, dsMeterReady, DecideInitialized, getNumValiddSMeters, CompareMembers,
           monitorInitialization, RetryInitialization, synchronizeMeters
      <4>4. QED BY <4>1, <4>2, <4>3
    <3>2. spc' \in {"turn", "test", "begin", "decide", "count", "members", "monitor",
                    "retry", "synchronize"} \cup ScanSteps
      BY <2>1 DEF Readout, StartTurn, TestMeter, BeginScan, ScanFails, getMeterHash, applyMeterSpec,
         ReadData, FinishScan, dsMeterReady, DecideInitialized, getNumValiddSMeters, CompareMembers,
         monitorInitialization, RetryInitialization, synchronizeMeters, ScanGoto, EndReadout,
         setupInitializedState, ScanSteps
    <3>3. hadToUpdate' \in BOOLEAN /\ m_IsInitializing' \in BOOLEAN
      BY <1>q, <2>1 DEF Readout, StartTurn, TestMeter, BeginScan, ScanFails, getMeterHash, applyMeterSpec,
         ReadData, FinishScan, dsMeterReady, DecideInitialized, getNumValiddSMeters, CompareMembers,
         monitorInitialization, RetryInitialization, synchronizeMeters, EndReadout, NoWrites,
         setupInitializedState, initVars, ScanTypes
    <3>4. m_retryCount' \in 0 .. MaxRetry
      <4>1. MaxRetry \in Nat /\ m_retryCount \in 0 .. MaxRetry /\ 0 \in 0 .. MaxRetry
        BY <1>q, MeterSyncAssumption DEF ScanTypes
      <4>2. CASE monitorInitialization
        <5>1. m_retryCount # MaxRetry /\ m_retryCount' = m_retryCount + 1
          BY <4>2 DEF monitorInitialization, RetryOK
        <5>2. QED BY <4>1, <5>1
      <4>3. CASE ~monitorInitialization
        <5>1. m_retryCount' \in {m_retryCount, 0}
          BY <2>1, <4>3 DEF Readout, StartTurn, TestMeter, BeginScan, ScanFails, getMeterHash,
             applyMeterSpec, ReadData, FinishScan, dsMeterReady, DecideInitialized,
             getNumValiddSMeters, CompareMembers, RetryInitialization, synchronizeMeters, NoWrites,
             initVars
        <5>2. QED BY <4>1, <5>1
      <4>4. QED BY <4>2, <4>3
    <3>5. QED BY <3>1, <3>2, <3>3, <3>4 DEF ScanTypes
  <2>2. QED BY <1>q, <2>1, BusFrame, ModelFrame DEF Next, vars, scanVars, initVars, ScanTypes
<1>6. QED BY <1>1, <1>2, <1>3, <1>4, <1>5, TypeParts

(***************************************************************************)
(* The readout                                                             *)
(***************************************************************************)

(* A readout ends with a meter that is known, whatever else is going on. *)
LEMMA ScanStep ==
  ASSUME TypeOK, ScanOK, [Next]_vars
  PROVE  ScanOK'
<1>q. FlagTypes /\ ScanTypes
  BY TypeParts
<1>k. Known \subseteq Known'
  BY KnownStep
<1>1. CASE UNCHANGED <<spc, meters>>
  BY <1>k, <1>1 DEF ScanOK
<1>2. CASE Readout
  <2>1. ToSet(meters') \subseteq Known
    <3>1. ToSet(<< >>) = {} /\ Known = ToSet(known)
      BY DEF ToSet, Known
    <3>2. meters # << >> => ToSet(Tail(meters)) \subseteq ToSet(meters)
      BY <1>q, SeqFacts DEF ScanTypes
    <3>3. meters' \in {meters, known, << >>} \/ (meters # << >> /\ meters' = Tail(meters))
      BY <1>2 DEF Readout, StartTurn, TestMeter, BeginScan, ScanFails, getMeterHash, applyMeterSpec,
         ReadData, FinishScan, dsMeterReady, DecideInitialized, getNumValiddSMeters, CompareMembers,
         monitorInitialization, RetryInitialization, synchronizeMeters
    <3>4. QED BY <3>1, <3>2, <3>3 DEF ScanOK
  <2>2. spc' \in {"begin"} \cup ScanSteps => meters' # << >>
    BY <1>2 DEF Readout, StartTurn, TestMeter, BeginScan, ScanFails, getMeterHash, applyMeterSpec,
       ReadData, FinishScan, dsMeterReady, DecideInitialized, getNumValiddSMeters, CompareMembers,
       monitorInitialization, RetryInitialization, synchronizeMeters, ScanGoto, EndReadout,
       setupInitializedState, ScanSteps, ScanOK
  <2>3. QED BY <1>k, <2>1, <2>2 DEF ScanOK
<1>3. QED BY <1>1, <1>2, BusFrame, ModelFrame DEF Next, vars, scanVars

(* The retries are counted up to MAX_RETRY_COUNT, and then start again or  *)
(* end with the initialization.                                            *)
LEMMA RetryStep ==
  ASSUME TypeOK, RetryOK, [Next]_vars
  PROVE  RetryOK'
<1>q. ScanTypes /\ MaxRetry \in Nat \ {0}
  BY TypeParts, MeterSyncAssumption
<1>1. CASE UNCHANGED <<spc, initVars>>
  BY <1>1 DEF RetryOK, initVars
<1>2. CASE Readout
  <2>1. CASE monitorInitialization
    <3>1. m_retryCount' = m_retryCount + 1 /\ m_IsInitializing' /\ m_IsInitializing
      BY <2>1 DEF monitorInitialization, RetryOK
    <3>2. spc' = (IF m_retryCount' >= MaxRetry THEN "retry" ELSE "synchronize")
      BY <2>1 DEF monitorInitialization, ScanGoto
    <3>3. m_retryCount' = MaxRetry => m_retryCount' >= MaxRetry
      BY <1>q
    <3>4. QED BY <3>1, <3>2, <3>3 DEF RetryOK
  <2>2. CASE RetryInitialization
    <3>1. spc' = "synchronize" /\ (m_retryCount' = 0 \/ ~m_IsInitializing')
      BY <2>2 DEF RetryInitialization, setupInitializedState, ScanGoto
    <3>2. QED BY <1>q, <3>1 DEF RetryOK
  <2>3. CASE CompareMembers
    BY <1>q, <2>3 DEF CompareMembers, setupInitializedState, ScanGoto, RetryOK
  <2>4. CASE ~(monitorInitialization \/ RetryInitialization \/ CompareMembers)
    <3>1. /\ UNCHANGED <<m_IsInitializing, m_retryCount>> /\ spc # "retry"
          /\ spc' \in {"members", "count", "monitor", "retry"} =>
               spc' # "retry" /\ (spc = "count" \/ m_IsInitializing)
      BY <1>2, <2>4 DEF Readout, StartTurn, TestMeter, BeginScan, ScanFails, getMeterHash,
         applyMeterSpec, ReadData, FinishScan, dsMeterReady, DecideInitialized,
         getNumValiddSMeters, synchronizeMeters, NoWrites, initVars, ScanGoto, EndReadout
    <3>2. QED BY <3>1 DEF RetryOK
  <2>5. QED BY <2>1, <2>2, <2>3, <2>4
<1>3. QED BY <1>1, <1>2, BusFrame, ModelFrame DEF Next, vars, scanVars, initVars

(* What can be read from a meter only gets newer. *)
LEMMA VersionStep ==
  ASSUME TypeOK, [Next]_vars
  PROVE  /\ \A m \in Meters : version[m] \in Nat /\ version'[m] \in Nat /\ version[m] <= version'[m]
         /\ Readout \/ Model => UNCHANGED version
<1>q. BusTypes
  BY TypeParts
<1>1. CASE UNCHANGED version
  BY <1>q, <1>1 DEF BusTypes
<1>2. ASSUME NEW x \in Meters, UpdateMeter(x)
      PROVE  \A m \in Meters : version'[m] = version[m] \/ version'[m] = version[m] + 1
  BY <1>q, <1>2 DEF UpdateMeter, BusTypes
<1>3. UNCHANGED version \/ \E x \in Meters : UpdateMeter(x)
  BY ModelFrame, ReadoutFrame DEF Next, Bus, handleBusChange, Rescan, handleLinkState, vars, busVars
<1>4. \A m \in Meters : version[m] \in Nat
  BY <1>q DEF BusTypes
<1>5. Readout \/ Model => UNCHANGED version
  BY ModelFrame, ReadoutFrame DEF busVars
<1>6. QED BY <1>1, <1>2, <1>3, <1>4, <1>5

(* the hashes: what is kept, and what a readout is about to keep *)
KeptOK == \A m \in Meters : datamodelHash[m] <= version[m]
ReadOK == /\ spc \in {"spec", "data", "finish"} => hash <= version[meter]
          /\ spc \in {"data", "finish"} => meter \notin Outdated
          /\ spc = "finish" => meter \in m_IsInitialized /\ hash <= data[meter]

(* A readout keeps the hash it has read before the data. *)
LEMMA KeptStep ==
  ASSUME TypeOK, ScanOK, HashOK, [Next]_vars
  PROVE  KeptOK'
<1>q. BusTypes /\ ValueTypes
  BY TypeParts
<1>v. /\ \A m \in Meters : version[m] \in Nat /\ version'[m] \in Nat /\ version[m] <= version'[m]
      /\ \A m \in Meters : datamodelHash[m] \in Nat /\ datamodelHash[m] <= version[m]
  BY <1>q, VersionStep DEF ValueTypes, HashOK
<1>1. CASE UNCHANGED datamodelHash
  BY <1>v, <1>1 DEF KeptOK
<1>2. CASE applyMeterSpec \/ FinishScan
  <2>1. meter \in Meters /\ hash <= version[meter] /\ UNCHANGED version
    BY <1>2, MeterIsKnown DEF applyMeterSpec, FinishScan, HashOK, ScanSteps, ScanUnchanged, busVars
  <2>2. UNCHANGED datamodelHash \/ KeepHash
    BY <1>2 DEF applyMeterSpec, FinishScan
  <2>3. CASE KeepHash
    <3>1. \A m \in Meters : datamodelHash'[m] = IF m = meter THEN hash ELSE datamodelHash[m]
      BY <1>q, <2>1, <2>3 DEF KeepHash, ValueTypes
    <3>2. QED BY <1>v, <2>1, <3>1 DEF KeptOK
  <2>4. QED BY <1>1, <2>2, <2>3
<1>3. UNCHANGED datamodelHash \/ applyMeterSpec \/ FinishScan
  BY BusFrame, ModelFrame DEF Next, Readout, StartTurn, TestMeter, BeginScan, ScanFails, getMeterHash,
     ReadData, dsMeterReady, DecideInitialized, getNumValiddSMeters, CompareMembers,
     monitorInitialization, RetryInitialization, synchronizeMeters, NoWrites, dataVars, vars
<1>4. QED BY <1>1, <1>2, <1>3

(* What a readout has read is at least as new as the hash it began with:   *)
(* either the data is read now, or the hash is the one that is kept.       *)
LEMMA ReadStep ==
  ASSUME TypeOK, ScanOK, HashOK, HashIsNotAhead, [Next]_vars
  PROVE  ReadOK'
<1>q. BusTypes /\ ValueTypes /\ ScanTypes
  BY TypeParts
<1>v. \A m \in Meters : version[m] \in Nat /\ version'[m] \in Nat /\ version[m] <= version'[m]
  BY VersionStep
<1>r. ReadOK /\ hash \in Nat
  BY <1>q DEF HashOK, ReadOK, ValueTypes
<1>1. CASE UNCHANGED <<spc, meters, hash, m_IsInitialized, data>>
  <2>1. meter' = meter
    BY <1>1 DEF meter
  <2>2. CASE spc \in {"spec", "data", "finish"}
    <3>1. meter \in Meters
      BY <2>2, MeterIsKnown DEF ScanSteps
    <3>2. hash <= version'[meter]
      BY <1>r, <1>v, <2>2, <3>1 DEF ReadOK
    <3>3. QED BY <1>1, <1>r, <2>1, <3>2 DEF ReadOK
  <2>3. CASE spc \notin {"spec", "data", "finish"}
    BY <1>1, <2>3 DEF ReadOK
  <2>4. QED BY <2>2, <2>3
<1>2. CASE Readout
  <2>0. UNCHANGED version
    BY <1>2, VersionStep
  <2>1. CASE getMeterHash
    <3>1. spc' = "spec" /\ hash' = version[meter] /\ UNCHANGED meters
      BY <2>1 DEF getMeterHash, ScanGoto
    <3>2. meter \in Meters /\ meter' = meter
      BY <2>1, <3>1, MeterIsKnown DEF getMeterHash, meter, ScanSteps
    <3>3. QED BY <1>v, <2>0, <3>1, <3>2 DEF ReadOK
  <2>2. CASE applyMeterSpec
    <3>1. spc = "spec" /\ spc' \in {"data", "devices"} /\ UNCHANGED <<meters, hash>>
          /\ (spc' = "data" => meter \notin Outdated)
      BY <2>2 DEF applyMeterSpec, ScanGoto
    <3>2. meter' = meter
      BY <3>1 DEF meter
    <3>3. QED BY <1>r, <2>0, <3>1, <3>2 DEF ReadOK
  <2>3. CASE ReadData
    <3>1. spc = "data" /\ spc' = "finish" /\ UNCHANGED <<meters, hash>>
      BY <2>3 DEF ReadData, ScanGoto
    <3>2. meter \in Meters /\ meter' = meter
      BY <3>1, MeterIsKnown DEF meter, ScanSteps
    <3>3. hash <= version[meter] /\ version[meter] \in Nat
      BY <1>r, <1>v, <3>1, <3>2 DEF ReadOK
    <3>4. CASE NeedsFullScan
      <4>1. data' = [data EXCEPT ![meter] = version[meter]] /\ meter \in m_IsInitialized'
        BY <2>3, <3>4 DEF ReadData
      <4>2. data'[meter] = version[meter]
        BY <1>q, <3>2, <4>1 DEF ValueTypes
      <4>3. QED BY <1>r, <2>0, <3>1, <3>2, <3>3, <4>1, <4>2 DEF ReadOK
    <3>5. CASE ~NeedsFullScan
      <4>1. UNCHANGED <<data, m_IsInitialized>> /\ meter \in m_IsInitialized /\ hash = datamodelHash[meter]
        BY <2>3, <3>5 DEF ReadData, NeedsFullScan
      <4>2. hash <= data[meter]
        BY <1>r, <3>1, <4>1 DEF HashIsNotAhead, ReadOK
      <4>3. QED BY <1>r, <2>0, <3>1, <3>2, <3>3, <4>1, <4>2 DEF ReadOK
    <3>6. QED BY <3>4, <3>5
  <2>4. CASE ~(getMeterHash \/ applyMeterSpec \/ ReadData)
    <3>1. spc' \notin {"spec", "data", "finish"}
      BY <1>2, <2>4 DEF Readout, StartTurn, TestMeter, BeginScan, ScanFails, FinishScan, dsMeterReady,
         DecideInitialized, getNumValiddSMeters, CompareMembers, monitorInitialization,
         RetryInitialization, synchronizeMeters, ScanGoto, EndReadout, setupInitializedState
    <3>2. QED BY <3>1 DEF ReadOK
  <2>5. QED BY <2>1, <2>2, <2>3, <2>4
<1>3. QED BY <1>1, <1>2, BusFrame, ModelFrame DEF Next, vars, scanVars, dataVars

(* The hashes that are read and kept are no newer than the meter. *)
LEMMA HashStep ==
  ASSUME TypeOK, ScanOK, HashOK, HashIsNotAhead, [Next]_vars
  PROVE  HashOK'
BY KeptStep, ReadStep DEF HashOK, KeptOK, ReadOK

(* A hash is kept when data at least as new has been read. *)
LEMMA AheadStep ==
  ASSUME TypeOK, ScanOK, HashOK, HashIsNotAhead, [Next]_vars
  PROVE  HashIsNotAhead'
<1>q. BusTypes /\ FlagTypes /\ ValueTypes
  BY TypeParts
<1>m. m_IsInitialized \subseteq Meters
  BY <1>q, SeqFacts DEF FlagTypes, Known
<1>v. \A m \in Meters : /\ version[m] \in Nat /\ datamodelHash[m] \in Nat /\ data[m] \in Nat
                        /\ datamodelHash[m] <= version[m]
  BY <1>q DEF BusTypes, ValueTypes, HashOK
<1>1. CASE UNCHANGED <<m_IsInitialized, datamodelHash, data>>
  BY <1>1 DEF HashIsNotAhead
<1>2. CASE applyMeterSpec
  <2>1. meter \in Meters /\ UNCHANGED <<m_IsInitialized, data>>
    BY <1>2, MeterIsKnown DEF applyMeterSpec, ScanSteps
  <2>2. UNCHANGED datamodelHash \/ (meter \in Outdated /\ KeepHash)
    BY <1>2 DEF applyMeterSpec
  <2>3. CASE meter \in Outdated /\ KeepHash
    <3>1. \A m \in m_IsInitialized : m \notin Outdated => datamodelHash'[m] = datamodelHash[m]
      BY <1>q, <1>m, <2>1, <2>3 DEF KeepHash, ValueTypes
    <3>2. QED BY <2>1, <3>1 DEF HashIsNotAhead
  <2>4. QED BY <1>1, <2>1, <2>2, <2>3
<1>3. CASE ReadData
  <2>1. meter \in Meters /\ UNCHANGED datamodelHash
    BY <1>3, MeterIsKnown DEF ReadData, ScanSteps
  <2>2. \/ UNCHANGED <<m_IsInitialized, data>>
        \/ /\ data' = [data EXCEPT ![meter] = version[meter]]
           /\ m_IsInitialized' = m_IsInitialized \cup {meter}
    BY <1>3 DEF ReadData
  <2>3. ASSUME data' = [data EXCEPT ![meter] = version[meter]],
               m_IsInitialized' = m_IsInitialized \cup {meter}
        PROVE  HashIsNotAhead'
    <3>1. \A m \in Meters : data'[m] = IF m = meter THEN version[m] ELSE data[m]
      BY <1>q, <2>1, <2>3 DEF ValueTypes
    <3>2. QED BY <1>m, <1>v, <2>1, <2>3, <3>1 DEF HashIsNotAhead
  <2>4. QED BY <1>1, <2>1, <2>2, <2>3
<1>4. CASE FinishScan
  <2>1. meter \in Meters /\ UNCHANGED <<m_IsInitialized, data>> /\ hash <= data[meter] /\ KeepHash
    BY <1>4, MeterIsKnown DEF FinishScan, ScanSteps, HashOK
  <2>2. \A m \in Meters : datamodelHash'[m] = IF m = meter THEN hash ELSE datamodelHash[m]
    BY <1>q, <2>1 DEF KeepHash, ValueTypes
  <2>3. QED BY <1>m, <2>1, <2>2 DEF HashIsNotAhead
<1>5. UNCHANGED <<m_IsInitialized, datamodelHash, data>> \/ applyMeterSpec \/ ReadData \/ FinishScan
  BY BusFrame, ModelFrame DEF Next, Readout, StartTurn, TestMeter, BeginScan, ScanFails, getMeterHash,
     dsMeterReady, DecideInitialized, getNumValiddSMeters, CompareMembers,
     monitorInitialization, RetryInitialization, synchronizeMeters, NoWrites, dataVars, vars
<1>6. QED BY <1>1, <1>2, <1>3, <1>4, <1>5

(* Only ModelMaintenance connects meters, and none that stays lost. *)
LEMMA LostStep ==
  ASSUME LostOK, [Next]_vars
  PROVE  LostOK'
<1>1. CASE UNCHANGED <<lost, m_IsConnected>>
  BY <1>1 DEF LostOK
<1>2. CASE Model
  BY <1>2 DEF Model, StartDiscovery, HandleLost, onLostDSMeter, onMeterReady, DiscoverMeter,
     onJoinedDSMeter, HandleDSMeterReady, DiscoverUnknown, Announce, LostOK, flagVars, ghostVars
<1>3. QED BY <1>1, <1>2, BusFrame, ReadoutFrame DEF Next, vars, flagVars, ghostVars

-----------------------------------------------------------------------------
(* The invariant holds in the beginning. *)
LEMMA InitMeterInv == Init => MeterInv
<1> SUFFICES ASSUME Init PROVE MeterInv
  OBVIOUS
<1>1. Known = {} /\ ToSet(meters) = {} /\ Len(known) = 0 /\ Cardinality(Known) = 0
  <2>1. known = << >> /\ meters = << >>
    BY DEF Init
  <2>2. ToSet(<< >>) = {} /\ Len(<< >>) = 0
    BY DEF ToSet
  <2>3. Cardinality({}) = 0
    BY FS_EmptySet
  <2>4. QED BY <2>1, <2>2, <2>3 DEF Known
<1>2. << >> \in Seq(Meters) /\ 0 \in 0 .. MaxRetry /\ 0 # MaxRetry
  BY MeterSyncAssumption
<1>3. BusTypes
  <2>1. <<"busReady", NoMeter>> \in EventTypes \X (Meters \cup {NoMeter})
    BY DEF EventTypes
  <2>2. m_ModelEvents \in Seq(EventTypes \X (Meters \cup {NoMeter}))
    BY <2>1 DEF Init
  <2>3. QED BY <2>2 DEF Init, BusTypes
<1>4. FlagTypes /\ ValueTypes
  BY <1>1, <1>2 DEF Init, FlagTypes, ValueTypes
<1>5. ModelTypes /\ ScanTypes
  BY <1>2 DEF Init, ModelTypes, ScanTypes
<1>6. ScanOK /\ RetryOK /\ LostOK /\ HashIsNotAhead
  BY <1>1, <1>2 DEF Init, ScanOK, RetryOK, LostOK, HashIsNotAhead, ScanSteps
<1>7. HashOK
  BY DEF Init, HashOK
<1>8. QED BY <1>3, <1>4, <1>5, <1>6, <1>7, TypeParts DEF MeterInv

(* Every step keeps the invariant. *)
LEMMA NextMeterInv == MeterInv /\ [Next]_vars => MeterInv'
BY TypeStep, ScanStep, RetryStep, HashStep, AheadStep, LostStep DEF MeterInv

(* MeterInv holds in every reachable state. *)
THEOREM Invariance == Spec => []MeterInv
BY InitMeterInv, NextMeterInv, PTL DEF Spec

(* The variables keep their types: among others, no meter is in m_DSMeters *)
(* twice, every flag belongs to a meter that is known, and the retries of  *)
(* monitorInitialization stay within MAX_RETRY_COUNT.                      *)
THEOREM TypeCorrect == Spec => []TypeOK
<1>1. MeterInv => TypeOK
  BY DEF MeterInv
<1>2. QED BY <1>1, Invariance, PTL

(* A change of a meter is found at the next readout: the hash kept of a    *)
(* meter is never newer than what scanDSMeter has read from it, with       *)
(* changes of the meter and failing calls at every point of the readout.   *)
THEOREM HashNotAhead == Spec => []HashIsNotAhead
<1>1. MeterInv => HashIsNotAhead
  BY DEF MeterInv
<1>2. QED BY <1>1, Invariance, PTL

(* A meter that onLostDSMeter or a bus that is down has taken away is not  *)
(* present until it is announced again, although scanDSMeter sets          *)
(* m_IsPresent in another thread and without a lock.                       *)
THEOREM LostNotPresent == Spec => []LostIsNotPresent
<1>1. MeterInv => LostIsNotPresent
  BY DEF MeterInv, LostOK, LostIsNotPresent, isPresent
<1>2. QED BY <1>1, Invariance, PTL

-----------------------------------------------------------------------------
(* Rooms                                                                   *)

Locked == {"setZone", "enter", "reset", "refill", "shrink", "assign", "dsmRemove"}

RoomShapeOK ==
  /\ RoomsTypeOK /\ room \in [Objects -> RoomType]
  /\ \A w \in RoomWorkers :
       /\ worker[w].pc \in MoveSteps \cup DeleteSteps => worker[w].d \in RoomDevices
       /\ worker[w].pc \in MoveSteps \cup RemoveSteps \cup {"deleteRefill"} => worker[w].o \in Objects
       /\ worker[w].pc \in {"reset", "refill", "shrink"} => worker[w].oldZoneID \in RoomIds
       /\ worker[w].pc \in Locked => roomMutex = w
  /\ scan.pc # "idle" => scan.d \in RoomDevices
  /\ scan.pc \in {"find", "detach", "find2", "attach"} => scan.zone \in RoomIds
  /\ scan.pc \in {"detach", "find2", "attach", "set"} => scan.o \in Objects
  /\ scan.pc = "set" => scan.d \in RoomSensors
  /\ sync.pc = "set" => sync.d \in RoomSensors
  /\ sync.pc = "idle" => sync.d = NoDevice
  /\ sync.pc # "idle" => sync.o \in Objects
  /\ \A d \in dsm.active : dsm.zoneOf[d] # NoRoom

(* A room is made anew only after it was erased, and every request can     *)
(* erase a room once.                                                      *)
Removers == {w \in RoomWorkers : worker[w].pc \in RemoveSteps}
AllocsOK ==
  \A z \in RoomIds :
    allocs[z] + (IF z \in live THEN 0 ELSE 1) + Cardinality(Removers) + roomInputs["requests"]
      <= MaxRoomRequests + 1

WorkerActs(w) ==
  \/ RoomsRequest(w) /\ UNCHANGED roomFaults
  \/ (addDeviceToZone(w) \/ RemoveRoom(w) \/ RemoveDevice(w)) /\ UNCHANGED roomInputs
InputActs ==
  \/ (\E z \in RoomIds : addZone(z)) /\ UNCHANGED roomFaults
  \/ \E d \in RoomDevices : \/ (\E z \in RoomIds : PlugIn(d, z)) /\ UNCHANGED roomFaults
                            \/ PlugOut(d) /\ UNCHANGED roomFaults
ScanActs ==
  \/ onRemoveDevice \/ onAddDevice \/ FindRoom \/ Detach \/ FindAgain \/ Attach \/ AssignNew \/ SetNew
SyncActs == (\E z \in RoomIds : SyncAssign(z)) \/ SyncSet \/ synchronizeZoneSensorAssignment

(* A step is one of a web thread, an input, or one of the two threads of   *)
(* the model.                                                              *)
LEMMA RoomsSteps ==
  ASSUME [RoomsNext]_roomVars
  PROVE  \/ /\ (\E w \in RoomWorkers : WorkerActs(w)) \/ InputActs \/ ScanActs \/ SyncActs
            /\ History
         \/ UNCHANGED roomVars
BY DEF RoomsNext, RoomsEnd, WorkerActs, InputActs, ScanActs, SyncActs

-----------------------------------------------------------------------------
(* Types of Rooms                                                          *)

(* A call leaves the number of faults natural. *)
LEMMA CallTypes ==
  ASSUME NEW result, roomFaults \in Nat, Call(result)
  PROVE  roomFaults' \in Nat
BY DEF Call

(* An input is counted. *)
LEMMA InputTypes ==
  ASSUME NEW what \in {"requests", "others"}, roomInputs \in [{"requests", "others"} -> Nat], Input(what)
  PROVE  /\ roomInputs' \in [{"requests", "others"} -> Nat]
         /\ roomInputs'[what] = roomInputs[what] - 1
         /\ \A other \in {"requests", "others"} \ {what} : roomInputs'[other] = roomInputs[other]
BY DEF Input

(* The history are sets of devices. *)
LEMMA HistoryTypes ==
  ASSUME RoomShapeOK, History
  PROVE  excused' \subseteq RoomDevices /\ unsure' \subseteq RoomDevices
BY DEF History, RoomShapeOK, RoomsTypeOK

(* An object of the apartment is an object. *)
LEMMA ObjectFacts ==
  ASSUME RoomShapeOK, NEW z \in RoomIds
  PROVE  /\ Object(z) \in Objects /\ Object(z)[1] = z /\ Object(z) # Nowhere
         /\ Lookup(z) = IF z \in live THEN Object(z) ELSE Nowhere
BY RoomsAssumption DEF RoomShapeOK, RoomsTypeOK, Object, Objects, Lookup, Nowhere

(* The assignment of a sensor sets one, to a candidate. *)
LEMMA AssignEffect ==
  ASSUME RoomShapeOK, NEW o \in Objects, NEW throws, autoAssignZoneSensors(o, throws)
  PROVE  /\ room' \in [Objects -> RoomType] /\ roomFaults' \in Nat
         /\ \A p \in Objects : room'[p].members = room[p].members
         /\ \A p \in Objects : room'[p].sensor # room[p].sensor =>
              p = o /\ room'[p].sensor \in Candidates(o)
<1>1. Candidates(o) \subseteq RoomSensors
  BY DEF Candidates
<1>2. CASE \E d \in Candidates(o), result \in Results :
             room' = [room EXCEPT ![o].sensor = d] /\ Call(result)
  <2>1. PICK d \in Candidates(o), result \in Results :
             room' = [room EXCEPT ![o].sensor = d] /\ Call(result)
    BY <1>2
  <2>2. roomFaults' \in Nat
    BY <2>1, CallTypes DEF RoomShapeOK, RoomsTypeOK
  <2> QED BY <1>1, <2>1, <2>2 DEF RoomShapeOK, RoomType
<1>3. CASE UNCHANGED <<room, roomFaults>>
  BY <1>3 DEF RoomShapeOK, RoomsTypeOK
<1> QED BY <1>2, <1>3 DEF autoAssignZoneSensors

(* Resetting sensors sets none. *)
LEMMA ResetEffect ==
  ASSUME RoomShapeOK, NEW o \in Objects, NEW d, ResetSensors(o, d)
  PROVE  /\ room' \in [Objects -> RoomType]
         /\ \A p \in Objects : room'[p].members = room[p].members
         /\ \A p \in Objects : room'[p].sensor \in {room[p].sensor, NoDevice}
         /\ room'[o].sensor = d => d = NoDevice
BY DEF ResetSensors, RoomShapeOK, RoomType

-----------------------------------------------------------------------------
(* Where the web threads are                                               *)

PcOrder ==
  {<<"move", "setZone">>, <<"setZone", "enter">>, <<"enter", "reset">>, <<"enter", "assign">>,
   <<"reset", "refill">>, <<"refill", "shrink">>, <<"shrink", "assign">>,
   <<"unregister", "dsmRemove">>, <<"unregister", "erase">>, <<"dsmRemove", "erase">>,
   <<"dsmDelete", "deleteReset">>, <<"deleteReset", "deleteRefill">>, <<"deleteReset", "delete">>,
   <<"deleteRefill", "delete">>}

(* a request begins, goes on, or ends *)
Starts(w) ==
  /\ worker[w].pc = "idle" /\ UNCHANGED roomMutex
  /\ \/ /\ worker'[w].pc = "move" /\ worker'[w].d \in RoomDevices /\ worker'[w].o[1] \in live
        /\ worker'[w].o = Object(worker'[w].o[1]) /\ device[worker'[w].d].known
        /\ device[worker'[w].d].zone # worker'[w].o[1]
     \/ /\ worker'[w].pc = "unregister" /\ worker'[w].d = NoDevice /\ worker'[w].o[1] \in live
        /\ worker'[w].o = Object(worker'[w].o[1]) /\ room[worker'[w].o].members = {}
     \/ /\ worker'[w].pc = "dsmDelete" /\ worker'[w].d \in RoomDevices
        /\ device[worker'[w].d].known /\ ~device[worker'[w].d].present
Advances(w) ==
  /\ <<worker[w].pc, worker'[w].pc>> \in PcOrder /\ worker'[w].d = worker[w].d
  /\ \/ worker'[w].o = worker[w].o
     \/ worker[w].pc = "deleteReset" /\ worker'[w].o = Object(device[worker[w].d].zone)
        /\ device[worker[w].d].zone \in live
  /\ worker'[w].oldZoneID = IF worker[w].pc = "move" THEN device[worker[w].d].zone
                                                     ELSE worker[w].oldZoneID
  /\ roomMutex' = IF worker'[w].pc \in {"setZone", "dsmRemove"} THEN w
                  ELSE IF worker[w].pc = "dsmRemove" THEN Unlocked ELSE roomMutex
  /\ worker'[w].pc \in {"setZone", "dsmRemove"} => roomMutex = Unlocked
  /\ worker'[w].pc = "deleteRefill" => worker'[w].o \in Objects
  /\ worker'[w].pc = "reset" => worker[w].oldZoneID \in live
Ends(w) ==
  /\ worker[w].pc # "idle" /\ worker'[w] = IdleWorker
  /\ roomMutex' = IF roomMutex = w THEN Unlocked ELSE roomMutex

WorkersMove(w) ==
  /\ worker' \in [RoomWorkers -> WorkerType] /\ \A v \in RoomWorkers \ {w} : worker'[v] = worker[v]
  /\ Starts(w) \/ Advances(w) \/ Ends(w)

(* Going to the next step changes only the step. *)
LEMMA GotoEffect ==
  ASSUME RoomShapeOK, NEW w \in RoomWorkers, NEW step \in {"idle"} \cup MoveSteps \cup RemoveSteps \cup DeleteSteps,
         Goto(w, step)
  PROVE  /\ worker' \in [RoomWorkers -> WorkerType] /\ \A v \in RoomWorkers \ {w} : worker'[v] = worker[v]
         /\ worker'[w].pc = step /\ worker'[w].d = worker[w].d /\ worker'[w].o = worker[w].o
         /\ worker'[w].oldZoneID = worker[w].oldZoneID
BY DEF RoomShapeOK, RoomsTypeOK, WorkerType, Goto

(* Going to the next step with another room changes these two. *)
LEMMA GotoAtEffect ==
  ASSUME RoomShapeOK, NEW w \in RoomWorkers, NEW o \in Objects,
         worker' = [worker EXCEPT ![w].pc = "deleteRefill", ![w].o = o]
  PROVE  /\ worker' \in [RoomWorkers -> WorkerType] /\ \A v \in RoomWorkers \ {w} : worker'[v] = worker[v]
         /\ worker'[w].pc = "deleteRefill" /\ worker'[w].o = o /\ worker'[w].d = worker[w].d
         /\ worker'[w].oldZoneID = worker[w].oldZoneID
<1>1. worker \in [RoomWorkers -> WorkerType]
  BY DEF RoomShapeOK, RoomsTypeOK
<1>2. "deleteRefill" \in DeleteSteps
  BY DEF DeleteSteps
<1> QED BY <1>1, <1>2 DEF WorkerType

(* A request that ends gives back the mutex. *)
LEMMA FinishEffect ==
  ASSUME RoomShapeOK, NEW w \in RoomWorkers, Finish(w), worker[w].pc # "idle"
  PROVE  /\ worker' \in [RoomWorkers -> WorkerType] /\ \A v \in RoomWorkers \ {w} : worker'[v] = worker[v]
         /\ Ends(w)
BY DEF RoomShapeOK, RoomsTypeOK, WorkerType, Finish, IdleWorker, Ends, Nowhere

(* What a web thread does next. *)
LEMMA WorkerControl ==
  ASSUME RoomShapeOK, NEW w \in RoomWorkers, WorkerActs(w)
  PROVE  WorkersMove(w)
<1> USE DEF MoveSteps, RemoveSteps, DeleteSteps
<1>1. ASSUME NEW d \in RoomDevices, NEW z \in RoomIds, zoneAddDevice(w, d, z) PROVE WorkersMove(w)
  BY <1>1, ObjectFacts DEF zoneAddDevice, WorkersMove, Starts, IdleWorker, RoomShapeOK, RoomsTypeOK, WorkerType
<1>2. ASSUME NEW z \in RoomIds, removeZone(w, z) PROVE WorkersMove(w)
  BY <1>2, ObjectFacts DEF removeZone, WorkersMove, Starts, IdleWorker, RoomShapeOK, RoomsTypeOK, WorkerType
<1>3. ASSUME NEW d \in RoomDevices, requestRemoveDevice(w, d) PROVE WorkersMove(w)
  BY <1>3 DEF requestRemoveDevice, WorkersMove, Starts, IdleWorker, RoomShapeOK, RoomsTypeOK, WorkerType, Nowhere
<1>4. CASE BeginMove(w)
  <2> DEFINE zone == device[worker[w].d].zone
  <2>1. /\ worker[w].pc = "move" /\ roomMutex = Unlocked
        /\ \/ Finish(w)
           \/ roomMutex' = w /\ worker' = [worker EXCEPT ![w].pc = "setZone", ![w].oldZoneID = zone]
    BY <1>4 DEF BeginMove
  <2>2. worker \in [RoomWorkers -> WorkerType] /\ zone \in RoomIds \cup {NoRoom}
    <3>1. worker[w].d \in RoomDevices
      BY <2>1 DEF RoomShapeOK
    <3> QED BY <3>1 DEF RoomShapeOK, RoomsTypeOK
  <2>3. CASE Finish(w)
    BY <2>1, <2>3, FinishEffect DEF WorkersMove
  <2>4. CASE roomMutex' = w /\ worker' = [worker EXCEPT ![w].pc = "setZone", ![w].oldZoneID = zone]
    <3> HIDE DEF zone
    <3>1. /\ worker' \in [RoomWorkers -> WorkerType] /\ \A v \in RoomWorkers \ {w} : worker'[v] = worker[v]
          /\ worker'[w].pc = "setZone" /\ worker'[w].d = worker[w].d /\ worker'[w].o = worker[w].o
          /\ worker'[w].oldZoneID = zone
      BY <2>2, <2>4 DEF WorkerType
    <3>2. Advances(w)
      BY <2>1, <2>4, <3>1 DEF Advances, PcOrder, zone
    <3> QED BY <3>1, <3>2 DEF WorkersMove
  <2> QED BY <2>1, <2>3, <2>4
<1>5. CASE SetZoneID(w)
  BY <1>5, GotoEffect, FinishEffect DEF SetZoneID, WorkersMove, Advances, PcOrder
<1>6. CASE EnterRoom(w)
  <2>1. /\ worker[w].pc = "enter"
        /\ \/ Finish(w)
           \/ Goto(w, "assign") /\ UNCHANGED roomMutex
           \/ Goto(w, "reset") /\ UNCHANGED roomMutex /\ worker[w].oldZoneID \in live
    BY <1>6 DEF EnterRoom
  <2> QED BY <2>1, GotoEffect, FinishEffect DEF WorkersMove, Advances, PcOrder
<1>7. CASE LeaveReset(w)
  BY <1>7, GotoEffect, FinishEffect DEF LeaveReset, ResetStep, WorkersMove, Advances, PcOrder
<1>8. CASE LeaveRefill(w)
  BY <1>8, GotoEffect, FinishEffect DEF LeaveRefill, WorkersMove, Advances, PcOrder
<1>9. CASE removeZoneOnDSMeter(w)
  BY <1>9, GotoEffect, FinishEffect DEF removeZoneOnDSMeter, WorkersMove, Advances, PcOrder
<1>10. CASE EndMove(w)
  BY <1>10, GotoEffect, FinishEffect DEF EndMove, WorkersMove, Advances, PcOrder
<1>11. CASE Unregister(w)
  BY <1>11, GotoEffect, FinishEffect DEF Unregister, WorkersMove, Advances, PcOrder
<1>12. CASE removeZoneOnDSMeters(w)
  <2>1. worker[w].pc = "dsmRemove" /\ (Finish(w) \/ (Goto(w, "erase") /\ roomMutex' = Unlocked))
    BY <1>12 DEF removeZoneOnDSMeters
  <2> QED BY <2>1, GotoEffect, FinishEffect DEF WorkersMove, Advances, PcOrder
<1>13. CASE EraseRoom(w)
  BY <1>13, GotoEffect, FinishEffect DEF EraseRoom, WorkersMove, Advances, PcOrder
<1>14. CASE removeDeviceFromDSMeter(w)
  BY <1>14, GotoEffect, FinishEffect DEF removeDeviceFromDSMeter, WorkersMove, Advances, PcOrder
<1>15. CASE DeleteRefill(w)
  BY <1>15, GotoEffect, FinishEffect DEF DeleteRefill, WorkersMove, Advances, PcOrder
<1>16. CASE removeDevice(w)
  BY <1>16, GotoEffect, FinishEffect DEF removeDevice, WorkersMove, Advances, PcOrder
<1>17. CASE DeleteReset(w)
  <2> DEFINE z == device[worker[w].d].zone
  <2>1. /\ worker[w].pc = "deleteReset"
        /\ \/ Finish(w)
           \/ Goto(w, "delete") /\ UNCHANGED roomMutex
           \/ /\ z \in live /\ UNCHANGED roomMutex
              /\ worker' = [worker EXCEPT ![w].pc = "deleteRefill", ![w].o = Object(z)]
    BY <1>17 DEF DeleteReset
  <2>2. CASE Finish(w) \/ (Goto(w, "delete") /\ UNCHANGED roomMutex)
    BY <2>1, <2>2, GotoEffect, FinishEffect DEF WorkersMove, Advances, PcOrder
  <2>3. CASE /\ z \in live /\ UNCHANGED roomMutex
             /\ worker' = [worker EXCEPT ![w].pc = "deleteRefill", ![w].o = Object(z)]
    <3>1. z \in RoomIds /\ Object(z) \in Objects
      BY <2>3, ObjectFacts DEF RoomShapeOK, RoomsTypeOK
    <3>2. /\ worker' \in [RoomWorkers -> WorkerType] /\ \A v \in RoomWorkers \ {w} : worker'[v] = worker[v]
          /\ worker'[w].pc = "deleteRefill" /\ worker'[w].o = Object(z) /\ worker'[w].d = worker[w].d
          /\ worker'[w].oldZoneID = worker[w].oldZoneID
      BY <2>3, <3>1, GotoAtEffect
    <3>3. Advances(w)
      BY <2>1, <2>3, <3>1, <3>2 DEF Advances, PcOrder
    <3> QED BY <3>2, <3>3 DEF WorkersMove
  <2> QED BY <2>1, <2>2, <2>3
<1> QED BY <1>1, <1>2, <1>3, <1>4, <1>5, <1>6, <1>7, <1>8, <1>9, <1>10, <1>11, <1>12, <1>13, <1>14,
           <1>15, <1>16, <1>17
        DEF WorkerActs, RoomsRequest, addDeviceToZone, RemoveRoom, RemoveDevice

-----------------------------------------------------------------------------
(* What the web threads do to rooms, devices and the dSM                   *)

(* Zone::addDevice puts the device in one room and takes it out of another. *)
LEMMA AddEffect ==
  ASSUME RoomShapeOK, NEW o \in Objects, NEW here, NEW d \in RoomDevices
  PROVE  /\ addDevice(o, here, d) \in [Objects -> RoomType]
         /\ \A p \in Objects : addDevice(o, here, d)[p].sensor = room[p].sensor
         /\ \A p \in Objects, e \in RoomDevices :
              e \in addDevice(o, here, d)[p].members <=>
                \/ p = o /\ e = d
                \/ e \in room[p].members /\ (p = o \/ p # here \/ e # d)
BY DEF addDevice, RoomShapeOK, RoomType

RoomsChange(w) ==
  /\ room' \in [Objects -> RoomType]
  /\ \A p \in Objects, d \in RoomDevices :
       d # worker[w].d \/ worker[w].pc \notin {"enter", "delete"} =>
         (d \in room'[p].members <=> d \in room[p].members)
  /\ \A p \in Objects : room'[p].sensor \in {room[p].sensor, NoDevice} \cup Candidates(p)
  /\ worker[w].pc \in {"enter", "delete"} => \A p \in Objects : room'[p].sensor = room[p].sensor

(* A web thread changes the rooms of its own device only, and assigns only *)
(* candidates.                                                             *)
LEMMA WorkerRooms ==
  ASSUME RoomShapeOK, NEW w \in RoomWorkers, WorkerActs(w)
  PROVE  RoomsChange(w)
<1> USE DEF MoveSteps, RemoveSteps, DeleteSteps
<1>0. /\ room \in [Objects -> RoomType] /\ live \subseteq RoomIds
      /\ \A z \in RoomIds : Object(z) \in Objects
  BY ObjectFacts DEF RoomShapeOK, RoomsTypeOK
<1>1. CASE UNCHANGED room
  BY <1>0, <1>1 DEF RoomsChange
<1>2. CASE \E o \in Objects, onMeter \in BOOLEAN : room' = [room EXCEPT ![o].onMeter = onMeter]
  BY <1>0, <1>2 DEF RoomsChange, RoomType
<1>3. ASSUME NEW o \in Objects, NEW throws, autoAssignZoneSensors(o, throws), worker[w].pc \notin {"enter", "delete"}
      PROVE  RoomsChange(w)
  BY <1>0, <1>3, AssignEffect DEF RoomsChange
<1>4. ASSUME NEW o \in Objects, ResetSensors(o, worker[w].d), worker[w].pc \notin {"enter", "delete"}
      PROVE  RoomsChange(w)
  BY <1>0, <1>4, ResetEffect DEF RoomsChange
<1>5. CASE RoomsRequest(w)
  BY <1>1, <1>5 DEF RoomsRequest, zoneAddDevice, removeZone, requestRemoveDevice
<1>6. CASE BeginMove(w)
  <2>1. worker[w].o \in Objects
    BY <1>6 DEF BeginMove, RoomShapeOK
  <2> QED BY <1>1, <1>2, <1>6, <2>1 DEF BeginMove, createZone
<1>7. CASE EnterRoom(w)
  <2>1. worker[w].o \in Objects /\ worker[w].d \in RoomDevices /\ worker[w].pc = "enter"
    BY <1>7 DEF EnterRoom, RoomShapeOK
  <2> DEFINE entered == addDevice(worker[w].o, Lookup(worker[w].o[1]), worker[w].d)
  <2>2. /\ entered \in [Objects -> RoomType]
        /\ \A p \in Objects : /\ entered[p].sensor = room[p].sensor
                              /\ \A d \in RoomDevices \ {worker[w].d} :
                                   d \in entered[p].members <=> d \in room[p].members
    BY <2>1, AddEffect
  <2>3. CASE room' = entered
    BY <2>1, <2>2, <2>3 DEF RoomsChange
  <2>4. CASE \E o \in Objects : room' = [entered EXCEPT ![o].members = @ \ {worker[w].d}]
    <3> HIDE DEF entered
    <3>1. /\ room' \in [Objects -> RoomType]
          /\ \A p \in Objects : /\ room'[p].sensor = entered[p].sensor
                                /\ \A d \in RoomDevices \ {worker[w].d} :
                                     d \in room'[p].members <=> d \in entered[p].members
      BY <2>2, <2>4 DEF RoomType
    <3> QED BY <2>1, <2>2, <3>1 DEF RoomsChange
  <2>5. worker[w].oldZoneID \in live => Object(worker[w].oldZoneID) \in Objects
    BY <1>0 DEF RoomShapeOK, RoomsTypeOK
  <2> QED BY <1>1, <1>7, <2>3, <2>4, <2>5 DEF EnterRoom
<1>8. CASE LeaveReset(w)
  <2>1. Object(worker[w].oldZoneID) \in Objects /\ ResetSensors(Object(worker[w].oldZoneID), worker[w].d)
    BY <1>0, <1>8 DEF LeaveReset, ResetStep, RoomShapeOK
  <2> QED BY <1>4, <1>8, <2>1 DEF LeaveReset
<1>9. CASE LeaveRefill(w)
  <2>1. Object(worker[w].oldZoneID) \in Objects
    BY <1>0, <1>9 DEF LeaveRefill, RoomShapeOK
  <2> QED BY <1>3, <1>9, <2>1 DEF LeaveRefill
<1>10. CASE removeZoneOnDSMeter(w)
  <2>1. Object(worker[w].oldZoneID) \in Objects
    BY <1>0, <1>10 DEF removeZoneOnDSMeter, RoomShapeOK
  <2> QED BY <1>1, <1>2, <1>10, <2>1 DEF removeZoneOnDSMeter
<1>11. CASE EndMove(w)
  <2>1. worker[w].o \in Objects
    BY <1>11 DEF EndMove, RoomShapeOK
  <2> QED BY <1>3, <1>11, <2>1 DEF EndMove
<1>12. CASE Unregister(w)
  <2>1. worker[w].o \in Objects
    BY <1>12 DEF Unregister, RoomShapeOK
  <2> QED BY <1>2, <1>12, <2>1 DEF Unregister
<1>13. CASE SetZoneID(w) \/ removeZoneOnDSMeters(w) \/ EraseRoom(w) \/ removeDeviceFromDSMeter(w)
  BY <1>1, <1>13 DEF SetZoneID, removeZoneOnDSMeters, EraseRoom, removeDeviceFromDSMeter
<1>14. CASE DeleteReset(w)
  BY <1>0, <1>1, <1>4, <1>14 DEF DeleteReset
<1>15. CASE DeleteRefill(w)
  <2>1. worker[w].o \in Objects
    BY <1>15 DEF DeleteRefill, RoomShapeOK
  <2> QED BY <1>3, <1>15, <2>1 DEF DeleteRefill
<1>16. CASE removeDevice(w)
  <2> DEFINE here == Lookup(device[worker[w].d].zone)
  <2>1. CASE room' = [o \in Objects |-> IF o = here THEN [room[o] EXCEPT !.members = @ \ {worker[w].d}]
                                                   ELSE room[o]]
    <3> HIDE DEF here
    <3>1. \A p \in Objects : /\ room'[p] \in RoomType /\ room'[p].sensor = room[p].sensor
                             /\ room'[p].members = IF p = here THEN room[p].members \ {worker[w].d}
                                                               ELSE room[p].members
      BY <1>0, <2>1 DEF RoomType
    <3>2. room' \in [Objects -> RoomType]
      BY <2>1, <3>1
    <3>3. \A p \in Objects, d \in RoomDevices \ {worker[w].d} :
            d \in room'[p].members <=> d \in room[p].members
      BY <3>1
    <3> QED BY <1>16, <3>1, <3>2, <3>3 DEF RoomsChange, removeDevice
  <2> QED BY <1>1, <1>16, <2>1 DEF removeDevice
<1> QED BY <1>5, <1>6, <1>7, <1>8, <1>9, <1>10, <1>11, <1>12, <1>13, <1>14, <1>15, <1>16
        DEF WorkerActs, addDeviceToZone, RemoveRoom, RemoveDevice

(* The step of a web thread says which action it takes. *)
LEMMA WorkerActions ==
  ASSUME NEW w \in RoomWorkers, WorkerActs(w)
  PROVE  \/ worker[w].pc = "idle" /\ RoomsRequest(w) /\ UNCHANGED roomFaults
         \/ /\ UNCHANGED roomInputs
            /\ \/ worker[w].pc = "move" /\ BeginMove(w)
               \/ worker[w].pc = "setZone" /\ SetZoneID(w)
               \/ worker[w].pc = "enter" /\ EnterRoom(w)
               \/ worker[w].pc = "reset" /\ LeaveReset(w)
               \/ worker[w].pc = "refill" /\ LeaveRefill(w)
               \/ worker[w].pc = "shrink" /\ removeZoneOnDSMeter(w)
               \/ worker[w].pc = "assign" /\ EndMove(w)
               \/ worker[w].pc = "unregister" /\ Unregister(w)
               \/ worker[w].pc = "dsmRemove" /\ removeZoneOnDSMeters(w)
               \/ worker[w].pc = "erase" /\ EraseRoom(w)
               \/ worker[w].pc = "dsmDelete" /\ removeDeviceFromDSMeter(w)
               \/ worker[w].pc = "deleteReset" /\ DeleteReset(w)
               \/ worker[w].pc = "deleteRefill" /\ DeleteRefill(w)
               \/ worker[w].pc = "delete" /\ removeDevice(w)
<1>1. RoomsRequest(w) => worker[w].pc = "idle"
  BY DEF RoomsRequest, zoneAddDevice, removeZone, requestRemoveDevice
<1>2. /\ BeginMove(w) => worker[w].pc = "move"
      /\ SetZoneID(w) => worker[w].pc = "setZone"
      /\ EnterRoom(w) => worker[w].pc = "enter"
      /\ LeaveReset(w) => worker[w].pc = "reset"
      /\ LeaveRefill(w) => worker[w].pc = "refill"
      /\ removeZoneOnDSMeter(w) => worker[w].pc = "shrink"
      /\ EndMove(w) => worker[w].pc = "assign"
  BY DEF BeginMove, SetZoneID, EnterRoom, LeaveReset, LeaveRefill, removeZoneOnDSMeter, EndMove
<1>3. /\ Unregister(w) => worker[w].pc = "unregister"
      /\ removeZoneOnDSMeters(w) => worker[w].pc = "dsmRemove"
      /\ EraseRoom(w) => worker[w].pc = "erase"
      /\ removeDeviceFromDSMeter(w) => worker[w].pc = "dsmDelete"
      /\ DeleteReset(w) => worker[w].pc = "deleteReset"
      /\ DeleteRefill(w) => worker[w].pc = "deleteRefill"
      /\ removeDevice(w) => worker[w].pc = "delete"
  BY DEF Unregister, removeZoneOnDSMeters, EraseRoom, removeDeviceFromDSMeter, DeleteReset,
         DeleteRefill, removeDevice
<1> QED BY <1>1, <1>2, <1>3 DEF WorkerActs, addDeviceToZone, RemoveRoom, RemoveDevice

DeviceTypes ==
  device \in [RoomDevices -> [known : BOOLEAN, zone : RoomIds \cup {NoRoom}, present : BOOLEAN]]
DsmTypes ==
  dsm \in [zones : SUBSET RoomIds, zoneOf : [RoomDevices -> RoomIds \cup {NoRoom}],
           active : SUBSET RoomDevices]

(* A web thread changes its own device only, to enter a room or to remove  *)
(* the device.                                                             *)
LEMMA WorkerDevices ==
  ASSUME RoomShapeOK, NEW w \in RoomWorkers, WorkerActs(w)
  PROVE  /\ DeviceTypes'
         /\ \A d \in RoomDevices :
              d # worker[w].d \/ worker[w].pc \notin {"enter", "delete"} => device'[d] = device[d]
<1>0. DeviceTypes
  BY DEF RoomShapeOK, RoomsTypeOK, DeviceTypes
<1>1. CASE UNCHANGED device
  BY <1>0, <1>1 DEF DeviceTypes
<1>2. CASE EnterRoom(w)
  <2>1. worker[w].pc = "enter" /\ worker[w].d \in RoomDevices /\ worker[w].o[1] \in RoomIds
        /\ device' = [device EXCEPT ![worker[w].d].zone = worker[w].o[1]]
    BY <1>2 DEF EnterRoom, RoomShapeOK, MoveSteps, Objects
  <2> QED BY <1>0, <2>1 DEF DeviceTypes
<1>3. CASE removeDevice(w)
  <2>1. worker[w].pc = "delete" /\ worker[w].d \in RoomDevices
    BY <1>3 DEF removeDevice, RoomShapeOK, DeleteSteps
  <2>2. CASE device' = [device EXCEPT ![worker[w].d].known = FALSE]
    BY <1>0, <2>1, <2>2 DEF DeviceTypes
  <2> QED BY <1>1, <1>3, <2>2 DEF removeDevice
<1>4. CASE ~EnterRoom(w) /\ ~removeDevice(w)
  <2>1. UNCHANGED device
    BY <1>4, WorkerActions DEF RoomsRequest, zoneAddDevice, removeZone, requestRemoveDevice, BeginMove,
       SetZoneID, LeaveReset, LeaveRefill, removeZoneOnDSMeter, EndMove, Unregister, removeZoneOnDSMeters,
       EraseRoom, removeDeviceFromDSMeter, DeleteReset, DeleteRefill
  <2> QED BY <1>1, <2>1
<1> QED BY <1>2, <1>3, <1>4

(* What a device is after it has entered a room *)
LEMMA EnterEffect ==
  ASSUME RoomShapeOK, NEW w \in RoomWorkers, WorkerActs(w), worker[w].pc = "enter",
         NEW d \in RoomDevices, d = worker[w].d
  PROVE  /\ device'[d].zone = worker[w].o[1] /\ device'[d].known = device[d].known
         /\ device'[d].present = device[d].present
         /\ device[d].known /\ worker[w].oldZoneID \in live =>
              /\ worker'[w].pc = "reset"
              /\ \A p \in Objects : d \in room'[p].members <=>
                   /\ p = worker[w].o \/ (p # Lookup(worker[w].o[1]) /\ d \in room[p].members)
                   /\ p # Object(worker[w].oldZoneID)
<1> DEFINE old     == worker[w].oldZoneID
           entered == addDevice(worker[w].o, Lookup(worker[w].o[1]), d)
<1>1. EnterRoom(w) /\ worker[w].o \in Objects
  BY WorkerActions DEF RoomShapeOK, MoveSteps
<1>2. /\ device'[d].zone = worker[w].o[1] /\ device'[d].known = device[d].known
      /\ device'[d].present = device[d].present
  BY <1>1 DEF EnterRoom, RoomShapeOK, RoomsTypeOK
<1>3. ASSUME device[d].known, old \in live
      PROVE  /\ worker'[w].pc = "reset"
             /\ \A p \in Objects : d \in room'[p].members <=>
                   /\ p = worker[w].o \/ (p # Lookup(worker[w].o[1]) /\ d \in room[p].members)
                   /\ p # Object(old)
  <2>1. /\ room' = [entered EXCEPT ![Object(old)].members = @ \ {d}]
        /\ Goto(w, "reset") /\ Object(old) \in Objects
    BY <1>1, <1>3, ObjectFacts DEF EnterRoom, RoomShapeOK, RoomsTypeOK
  <2>2. worker'[w].pc = "reset"
    BY <2>1, GotoEffect DEF MoveSteps
  <2>3. /\ entered \in [Objects -> RoomType]
        /\ \A p \in Objects : d \in entered[p].members <=>
             \/ p = worker[w].o
             \/ d \in room[p].members /\ p # Lookup(worker[w].o[1])
    BY <1>1, AddEffect
  <2> HIDE DEF entered
  <2>4. \A p \in Objects : d \in room'[p].members <=> p # Object(old) /\ d \in entered[p].members
    BY <2>1, <2>3 DEF RoomType
  <2> QED BY <2>2, <2>3, <2>4
<1> QED BY <1>2, <1>3

(* What a device is after it was removed *)
LEMMA DeleteEffect ==
  ASSUME RoomShapeOK, NEW w \in RoomWorkers, WorkerActs(w), worker[w].pc = "delete",
         NEW d \in RoomDevices, d = worker[w].d
  PROVE  /\ device'[d].zone = device[d].zone /\ device'[d].present = device[d].present
         /\ device[d].known /\ device[d].zone \in live =>
              /\ ~device'[d].known
              /\ \A p \in Objects : d \in room'[p].members <=>
                   d \in room[p].members /\ p # Object(device[d].zone)
<1>1. removeDevice(w)
  BY WorkerActions
<1>2. /\ device'[d].zone = device[d].zone /\ device'[d].present = device[d].present
  BY <1>1 DEF removeDevice, RoomShapeOK, RoomsTypeOK
<1>3. ASSUME device[d].known, device[d].zone \in live
      PROVE  /\ ~device'[d].known
             /\ \A p \in Objects : d \in room'[p].members <=>
                  d \in room[p].members /\ p # Object(device[d].zone)
  <2>1. /\ device' = [device EXCEPT ![d].known = FALSE]
        /\ room' = [o \in Objects |-> IF o = Object(device[d].zone)
                                      THEN [room[o] EXCEPT !.members = @ \ {d}] ELSE room[o]]
    BY <1>1, <1>3, ObjectFacts DEF removeDevice, RoomShapeOK, RoomsTypeOK
  <2>2. ~device'[d].known
    BY <2>1 DEF RoomShapeOK, RoomsTypeOK
  <2>3. \A p \in Objects : room'[p].members = IF p = Object(device[d].zone) THEN room[p].members \ {d}
                                              ELSE room[p].members
    BY <2>1 DEF RoomShapeOK, RoomType
  <2> QED BY <2>2, <2>3
<1> QED BY <1>2, <1>3

(* The dSM has another room for a device when its own request says so, when *)
(* the request deletes it, or when its room is removed; the last two are    *)
(* for devices that are not active.                                         *)
DsmChange(w) ==
  /\ DsmTypes' /\ dsm'.active = dsm.active
  /\ \A d \in RoomDevices :
       \/ dsm'.zoneOf[d] = dsm.zoneOf[d]
       \/ worker[w].d = d /\ worker[w].pc = "setZone" /\ dsm'.zoneOf[d] = worker[w].o[1]
       \/ worker[w].d = d /\ worker[w].pc = "dsmDelete" /\ dsm'.zoneOf[d] = NoRoom /\ d \notin dsm.active
       \/ /\ worker[w].pc = "dsmRemove" /\ dsm.zoneOf[d] = worker[w].o[1]
          /\ dsm'.zoneOf[d] = NoRoom /\ d \notin dsm.active
  /\ worker[w].pc = "setZone" =>
       IF worker'[w].pc = "enter" THEN dsm'.zoneOf[worker[w].d] = worker[w].o[1]
       ELSE dsm'.zoneOf[worker[w].d] = dsm.zoneOf[worker[w].d] \/ roomFaults' # roomFaults

(* What a web thread does to the dSM. *)
LEMMA WorkerDsm ==
  ASSUME RoomShapeOK, NEW w \in RoomWorkers, WorkerActs(w)
  PROVE  DsmChange(w)
<1>0. DsmTypes
  BY DEF RoomShapeOK, RoomsTypeOK, DsmTypes
<1>1. ASSUME worker[w].pc # "setZone", dsm' = dsm \/ (\E zones \in SUBSET RoomIds : dsm' = [dsm EXCEPT !.zones = zones])
      PROVE  DsmChange(w)
  BY <1>0, <1>1 DEF DsmChange, DsmTypes
<1>2. CASE RoomsRequest(w)
  BY <1>1, <1>2 DEF RoomsRequest, zoneAddDevice, removeZone, requestRemoveDevice
<1>3. CASE BeginMove(w)
  <2>1. worker[w].o[1] \in RoomIds
    BY <1>3 DEF BeginMove, RoomShapeOK, MoveSteps, Objects
  <2>2. dsm' = dsm \/ dsm' = [dsm EXCEPT !.zones = @ \cup {worker[w].o[1]}]
    BY <1>3 DEF BeginMove, createZone
  <2>3. dsm.zones \cup {worker[w].o[1]} \in SUBSET RoomIds
    BY <1>0, <2>1 DEF DsmTypes
  <2> QED BY <1>1, <1>3, <2>2, <2>3 DEF BeginMove
<1>4. CASE SetZoneID(w)
  <2>1. worker[w].o[1] \in RoomIds /\ worker[w].d \in RoomDevices /\ worker[w].pc = "setZone"
    BY <1>4 DEF SetZoneID, RoomShapeOK, MoveSteps, Objects
  <2>2. \/ dsm' = [dsm EXCEPT !.zoneOf[worker[w].d] = worker[w].o[1]] /\ roomFaults' # roomFaults
        \/ dsm' = [dsm EXCEPT !.zoneOf[worker[w].d] = worker[w].o[1]] /\ Goto(w, "enter")
        \/ dsm' = dsm /\ Finish(w)
    BY <1>4 DEF SetZoneID, Call, Results, RoomShapeOK, RoomsTypeOK
  <2>3. /\ Goto(w, "enter") => worker'[w].pc = "enter"
        /\ Finish(w) => worker'[w].pc # "enter"
    BY <2>1, GotoEffect, FinishEffect DEF MoveSteps, Ends, IdleWorker
  <2>4. CASE dsm' = dsm
    BY <1>0, <2>1, <2>2, <2>3, <2>4 DEF DsmChange, DsmTypes
  <2>5. CASE dsm' = [dsm EXCEPT !.zoneOf[worker[w].d] = worker[w].o[1]]
    <3>1. /\ DsmTypes' /\ dsm'.active = dsm.active /\ dsm'.zoneOf[worker[w].d] = worker[w].o[1]
          /\ \A d \in RoomDevices \ {worker[w].d} : dsm'.zoneOf[d] = dsm.zoneOf[d]
      BY <1>0, <2>1, <2>5 DEF DsmTypes
    <3>2. worker'[w].pc # "enter" => roomFaults' # roomFaults \/ dsm' = dsm
      BY <2>2, <2>3
    <3> QED BY <2>1, <3>1, <3>2 DEF DsmChange
  <2> QED BY <2>2, <2>4, <2>5
<1>5. CASE EnterRoom(w) \/ LeaveReset(w) \/ LeaveRefill(w) \/ EndMove(w) \/ Unregister(w) \/ EraseRoom(w)
  BY <1>1, <1>5 DEF EnterRoom, LeaveReset, LeaveRefill, EndMove, Unregister, EraseRoom
<1>6. CASE removeZoneOnDSMeter(w)
  <2>1. dsm' = dsm \/ dsm' = [dsm EXCEPT !.zones = @ \ {worker[w].oldZoneID}]
    BY <1>6 DEF removeZoneOnDSMeter
  <2>2. dsm.zones \ {worker[w].oldZoneID} \in SUBSET RoomIds
    BY <1>0 DEF DsmTypes
  <2> QED BY <1>1, <1>6, <2>1, <2>2 DEF removeZoneOnDSMeter
<1>7. CASE removeZoneOnDSMeters(w)
  <2> DEFINE z == worker[w].o[1]
  <2>1. worker[w].pc = "dsmRemove"
    BY <1>7 DEF removeZoneOnDSMeters
  <2>2. \/ dsm' = dsm
        \/ /\ z \in dsm.zones /\ InZone(z) \cap dsm.active = {}
           /\ dsm' = [dsm EXCEPT !.zones = @ \ {z},
                                 !.zoneOf = [d \in RoomDevices |-> IF @[d] = z THEN NoRoom ELSE @[d]]]
    BY <1>7 DEF removeZoneOnDSMeters
  <2>3. CASE /\ z \in dsm.zones /\ InZone(z) \cap dsm.active = {}
             /\ dsm' = [dsm EXCEPT !.zones = @ \ {z},
                                   !.zoneOf = [d \in RoomDevices |-> IF @[d] = z THEN NoRoom ELSE @[d]]]
    <3> HIDE DEF z
    <3>1. /\ DsmTypes' /\ dsm'.active = dsm.active
          /\ \A d \in RoomDevices : dsm'.zoneOf[d] = IF dsm.zoneOf[d] = z THEN NoRoom ELSE dsm.zoneOf[d]
      BY <1>0, <2>3 DEF DsmTypes
    <3>2. \A d \in RoomDevices : dsm.zoneOf[d] = z => d \notin dsm.active
      BY <2>3 DEF InZone
    <3> QED BY <2>1, <3>1, <3>2 DEF DsmChange, z
  <2> QED BY <1>1, <2>1, <2>2, <2>3
<1>8. CASE removeDeviceFromDSMeter(w)
  <2>1. worker[w].d \in RoomDevices /\ worker[w].pc = "dsmDelete"
    BY <1>8 DEF removeDeviceFromDSMeter, RoomShapeOK, DeleteSteps
  <2>2. \/ dsm' = dsm
        \/ worker[w].d \notin dsm.active /\ dsm' = [dsm EXCEPT !.zoneOf[worker[w].d] = NoRoom]
    BY <1>8 DEF removeDeviceFromDSMeter
  <2>3. CASE worker[w].d \notin dsm.active /\ dsm' = [dsm EXCEPT !.zoneOf[worker[w].d] = NoRoom]
    BY <1>0, <2>1, <2>3 DEF DsmChange, DsmTypes
  <2> QED BY <1>1, <2>1, <2>2, <2>3
<1>9. CASE DeleteReset(w) \/ DeleteRefill(w) \/ removeDevice(w)
  BY <1>1, <1>9 DEF DeleteReset, DeleteRefill, removeDevice
<1> QED BY <1>2, <1>3, <1>4, <1>5, <1>6, <1>7, <1>8, <1>9
        DEF WorkerActs, addDeviceToZone, RemoveRoom, RemoveDevice

(* Only the removal of a room takes one from the apartment.                *)
WorkersRest(w) ==
  /\ allocs' = allocs /\ scan' = scan /\ sync' = sync /\ deviceEvents' = deviceEvents
  /\ live' = IF worker[w].pc = "erase" THEN live \ {worker[w].o[1]} ELSE live
  /\ worker[w].pc = "erase" => roomMutex = Unlocked
  /\ roomInputs' \in [{"requests", "others"} -> Nat] /\ roomFaults' \in Nat /\ died' \in BOOLEAN
  /\ roomInputs'["requests"] =
       IF worker[w].pc = "idle" THEN roomInputs["requests"] - 1 ELSE roomInputs["requests"]
  /\ worker[w].pc = "idle" => roomFaults' = roomFaults

(* What else a web thread does. *)
LEMMA WorkerRest ==
  ASSUME RoomShapeOK, NEW w \in RoomWorkers, WorkerActs(w)
  PROVE  WorkersRest(w)
<1> USE DEF MovesUnchanged
<1>0. /\ roomInputs \in [{"requests", "others"} -> Nat] /\ roomFaults \in Nat /\ died \in BOOLEAN
      /\ \A z \in RoomIds : Object(z) \in Objects
  BY ObjectFacts DEF RoomShapeOK, RoomsTypeOK
<1>1. ASSUME worker[w].pc \notin {"idle", "erase"}, MovesUnchanged, UNCHANGED roomInputs, roomFaults' \in Nat
      PROVE  WorkersRest(w)
  BY <1>0, <1>1 DEF WorkersRest
<1>2. CASE worker[w].pc = "idle" /\ RoomsRequest(w) /\ UNCHANGED roomFaults
  <2>1. Input("requests") /\ MovesUnchanged
    BY <1>2 DEF RoomsRequest, zoneAddDevice, removeZone, requestRemoveDevice
  <2> QED BY <1>0, <1>2, <2>1, InputTypes DEF WorkersRest
<1>3. CASE worker[w].pc = "move" /\ BeginMove(w) /\ UNCHANGED roomInputs
  BY <1>0, <1>1, <1>3, CallTypes DEF BeginMove, createZone
<1>4. CASE worker[w].pc = "setZone" /\ SetZoneID(w) /\ UNCHANGED roomInputs
  BY <1>0, <1>1, <1>4, CallTypes DEF SetZoneID
<1>5. CASE worker[w].pc = "enter" /\ EnterRoom(w) /\ UNCHANGED roomInputs
  BY <1>0, <1>1, <1>5 DEF EnterRoom
<1>6. CASE worker[w].pc = "reset" /\ LeaveReset(w) /\ UNCHANGED roomInputs
  BY <1>0, <1>1, <1>6, CallTypes DEF LeaveReset, ResetStep
<1>7. CASE worker[w].pc = "refill" /\ LeaveRefill(w) /\ UNCHANGED roomInputs
  <2>1. Object(worker[w].oldZoneID) \in Objects
    BY <1>0, <1>7 DEF RoomShapeOK
  <2> QED BY <1>1, <1>7, <2>1, AssignEffect DEF LeaveRefill
<1>8. CASE worker[w].pc = "shrink" /\ removeZoneOnDSMeter(w) /\ UNCHANGED roomInputs
  <2>1. roomFaults' \in Nat
    BY <1>0, <1>8, CallTypes DEF removeZoneOnDSMeter
  <2>2. died' \in BOOLEAN /\ UNCHANGED <<live, allocs, deviceEvents, scan, sync>>
    BY <1>0, <1>8 DEF removeZoneOnDSMeter
  <2> QED BY <1>0, <1>8, <2>1, <2>2 DEF WorkersRest
<1>9. CASE worker[w].pc = "assign" /\ EndMove(w) /\ UNCHANGED roomInputs
  <2>1. worker[w].o \in Objects
    BY <1>9 DEF RoomShapeOK, MoveSteps
  <2> QED BY <1>1, <1>9, <2>1, AssignEffect DEF EndMove
<1>10. CASE worker[w].pc = "unregister" /\ Unregister(w) /\ UNCHANGED roomInputs
  BY <1>0, <1>1, <1>10, CallTypes DEF Unregister
<1>11. CASE worker[w].pc = "dsmRemove" /\ removeZoneOnDSMeters(w) /\ UNCHANGED roomInputs
  <2>1. roomFaults' \in Nat
    BY <1>0, <1>11, CallTypes DEF removeZoneOnDSMeters
  <2> QED BY <1>1, <1>11, <2>1 DEF removeZoneOnDSMeters
<1>12. CASE worker[w].pc = "erase" /\ EraseRoom(w) /\ UNCHANGED roomInputs
  BY <1>0, <1>12 DEF EraseRoom, WorkersRest
<1>13. CASE worker[w].pc = "dsmDelete" /\ removeDeviceFromDSMeter(w) /\ UNCHANGED roomInputs
  <2>1. roomFaults' \in Nat
    BY <1>0, <1>13, CallTypes DEF removeDeviceFromDSMeter
  <2> QED BY <1>1, <1>13, <2>1 DEF removeDeviceFromDSMeter
<1>14. CASE worker[w].pc = "deleteReset" /\ DeleteReset(w) /\ UNCHANGED roomInputs
  BY <1>0, <1>1, <1>14, CallTypes DEF DeleteReset
<1>15. CASE worker[w].pc = "deleteRefill" /\ DeleteRefill(w) /\ UNCHANGED roomInputs
  <2>1. worker[w].o \in Objects
    BY <1>15 DEF RoomShapeOK
  <2> QED BY <1>1, <1>15, <2>1, AssignEffect DEF DeleteRefill
<1>16. CASE worker[w].pc = "delete" /\ removeDevice(w) /\ UNCHANGED roomInputs
  BY <1>0, <1>1, <1>16 DEF removeDevice
<1> QED BY WorkerActions, <1>2, <1>3, <1>4, <1>5, <1>6, <1>7, <1>8, <1>9, <1>10, <1>11, <1>12, <1>13,
           <1>14, <1>15, <1>16

-----------------------------------------------------------------------------
(* What the inputs and the two threads of the model do                     *)

EventTypesOK == deviceEvents \in Seq({"new", "lost"} \X RoomDevices \X RoomIds)

(* A room is added, or a device is plugged in or out. *)
InputsChange ==
  /\ UNCHANGED <<room, device, roomMutex, worker, scan, sync, roomFaults, died>>
  /\ DsmTypes' /\ EventTypesOK' /\ roomInputs' \in [{"requests", "others"} -> Nat]
  /\ \A d \in RoomDevices : dsm'.zoneOf[d] = dsm.zoneOf[d] \/ dsm.zoneOf[d] = NoRoom
  /\ \A d \in dsm'.active : dsm'.zoneOf[d] # NoRoom
  /\ \/ UNCHANGED <<live, allocs>> /\ roomInputs'["requests"] = roomInputs["requests"]
     \/ /\ roomInputs'["requests"] = roomInputs["requests"] - 1 /\ roomMutex = Unlocked
        /\ \E z \in RoomIds \ live : live' = live \cup {z} /\ allocs' = [allocs EXCEPT ![z] = @ + 1]

(* Inputs change the dSM, or add a room. *)
LEMMA InputEffect ==
  ASSUME RoomShapeOK, InputActs
  PROVE  InputsChange
<1>0. /\ roomInputs \in [{"requests", "others"} -> Nat] /\ DsmTypes /\ EventTypesOK
      /\ \A d \in dsm.active : dsm.zoneOf[d] # NoRoom
  BY DEF RoomShapeOK, RoomsTypeOK, DsmTypes, EventTypesOK
<1>1. ASSUME NEW z \in RoomIds, addZone(z), UNCHANGED roomFaults PROVE InputsChange
  <2>1. Input("requests") /\ UNCHANGED <<room, device, dsm, deviceEvents, roomMutex, worker, scan, sync, died>>
    BY <1>1 DEF addZone
  <2>2. DsmTypes' /\ EventTypesOK'
    BY <1>0, <2>1 DEF DsmTypes, EventTypesOK
  <2> QED BY <1>0, <1>1, <2>1, <2>2, InputTypes DEF addZone, InputsChange
<1>2. ASSUME NEW d \in RoomDevices, NEW z \in RoomIds, PlugIn(d, z), UNCHANGED roomFaults PROVE InputsChange
  <2>1. /\ Input("others") /\ UNCHANGED <<live, allocs, room, device, roomMutex, worker, scan, sync, died>>
        /\ z = dsm.zoneOf[d] \/ dsm.zoneOf[d] = NoRoom
        /\ dsm' = [zones |-> dsm.zones \cup {z}, zoneOf |-> [dsm.zoneOf EXCEPT ![d] = z],
                   active |-> dsm.active \cup {d}]
        /\ deviceEvents' = Append(deviceEvents, <<"new", d, z>>)
    BY <1>2 DEF PlugIn
  <2>2. EventTypesOK'
    BY <1>0, <2>1 DEF EventTypesOK
  <2>3. DsmTypes'
    BY <1>0, <2>1 DEF DsmTypes
  <2>4. /\ \A e \in RoomDevices : dsm'.zoneOf[e] = dsm.zoneOf[e] \/ dsm.zoneOf[e] = NoRoom
        /\ \A e \in dsm'.active : dsm'.zoneOf[e] # NoRoom
    BY <1>0, <2>1, RoomsAssumption DEF DsmTypes
  <2> QED BY <1>0, <1>2, <2>1, <2>2, <2>3, <2>4, InputTypes DEF InputsChange
<1>3. ASSUME NEW d \in RoomDevices, PlugOut(d), UNCHANGED roomFaults PROVE InputsChange
  <2>1. /\ Input("others") /\ UNCHANGED <<live, allocs, room, device, roomMutex, worker, scan, sync, died>>
        /\ d \in dsm.active /\ dsm' = [dsm EXCEPT !.active = @ \ {d}]
        /\ deviceEvents' = Append(deviceEvents, <<"lost", d, dsm.zoneOf[d]>>)
    BY <1>3 DEF PlugOut
  <2>2. dsm.zoneOf[d] \in RoomIds
    BY <1>0, <2>1 DEF DsmTypes
  <2>3. EventTypesOK'
    BY <1>0, <2>1, <2>2 DEF EventTypesOK
  <2>4. DsmTypes' /\ dsm'.zoneOf = dsm.zoneOf /\ dsm'.active \subseteq dsm.active
    BY <1>0, <2>1 DEF DsmTypes
  <2> QED BY <1>0, <1>3, <2>1, <2>3, <2>4, InputTypes DEF InputsChange
<1> QED BY <1>1, <1>2, <1>3 DEF InputActs

(* The first event of the queue is one of a device and a room. *)
LEMMA HeadEvent ==
  ASSUME RoomShapeOK, deviceEvents # << >>
  PROVE  /\ Head(deviceEvents)[2] \in RoomDevices /\ Head(deviceEvents)[3] \in RoomIds
         /\ Tail(deviceEvents) \in Seq({"new", "lost"} \X RoomDevices \X RoomIds)
<1>1. /\ Head(deviceEvents) \in {"new", "lost"} \X RoomDevices \X RoomIds
      /\ Tail(deviceEvents) \in Seq({"new", "lost"} \X RoomDevices \X RoomIds)
  BY HeadTailProperties DEF RoomShapeOK, RoomsTypeOK
<1> QED BY <1>1

(* What a step of the thread of ModelMaintenance leaves alone *)
ScansKeep ==
  /\ UNCHANGED <<dsm, roomMutex, worker, sync, roomInputs>>
  /\ scan' \in ScanType /\ DeviceTypes' /\ EventTypesOK' /\ roomFaults' \in Nat /\ died' \in BOOLEAN
  /\ room' \in [Objects -> RoomType]

(* A device is not active any more. *)
LEMMA LostEffect ==
  ASSUME RoomShapeOK, onRemoveDevice
  PROVE  /\ ScansKeep /\ UNCHANGED <<live, allocs, room, scan, roomFaults>>
         /\ \A d \in RoomDevices : /\ device'[d].known = device[d].known /\ device'[d].zone = device[d].zone
                                   /\ device'[d].present => device[d].present
<1>1. /\ deviceEvents # << >> /\ deviceEvents' = Tail(deviceEvents)
      /\ device' = device \/ device' = [device EXCEPT ![Head(deviceEvents)[2]].present = FALSE]
      /\ UNCHANGED <<dsm, roomMutex, worker, sync, roomInputs, live, allocs, room, scan, roomFaults, died>>
  BY DEF onRemoveDevice, ScanUnchangedRooms
<1>2. EventTypesOK' /\ Head(deviceEvents)[2] \in RoomDevices
  BY <1>1, HeadEvent DEF EventTypesOK
<1>3. /\ DeviceTypes'
      /\ \A d \in RoomDevices : /\ device'[d].known = device[d].known /\ device'[d].zone = device[d].zone
                                /\ device'[d].present => device[d].present
  <2>1. PICK e \in RoomDevices : device' = device \/ device' = [device EXCEPT ![e].present = FALSE]
    BY <1>1, <1>2
  <2>2. DeviceTypes
    BY DEF DeviceTypes, RoomShapeOK, RoomsTypeOK
  <2>3. CASE device' = device
    BY <2>2, <2>3 DEF DeviceTypes
  <2>4. CASE device' = [device EXCEPT ![e].present = FALSE]
    BY <2>2, <2>4 DEF DeviceTypes
  <2> QED BY <2>1, <2>3, <2>4
<1> QED BY <1>1, <1>2, <1>3 DEF ScansKeep, RoomShapeOK, RoomsTypeOK

(* A device that is active is read from the dSM. *)
LEMMA NewEffect ==
  ASSUME RoomShapeOK, onAddDevice
  PROVE  /\ ScansKeep /\ UNCHANGED <<live, allocs, room, device>>
         /\ scan.pc = "idle" /\ scan'.pc \in {"find", "assign"} /\ scan'.d \in RoomDevices
         /\ scan'.pc = "find" => scan'.zone \in RoomIds /\ scan'.zone = dsm.zoneOf[scan'.d]
<1>1. PICK result \in Results :
        /\ scan.pc = "idle" /\ deviceEvents # << >> /\ deviceEvents' = Tail(deviceEvents)
        /\ Call(result)
        /\ scan' = [IdleScan EXCEPT
                      !.pc = IF result = "ok" /\ dsm.zoneOf[Head(deviceEvents)[2]] # NoRoom THEN "find" ELSE "assign",
                      !.d = Head(deviceEvents)[2], !.event = Head(deviceEvents)[3],
                      !.zone = dsm.zoneOf[Head(deviceEvents)[2]],
                      !.active = Head(deviceEvents)[2] \in dsm.active]
        /\ UNCHANGED <<dsm, roomMutex, worker, sync, roomInputs, live, allocs, room, device, died>>
  BY DEF onAddDevice, ScanUnchangedRooms
<1>2. EventTypesOK' /\ Head(deviceEvents)[2] \in RoomDevices /\ Head(deviceEvents)[3] \in RoomIds
  BY <1>1, HeadEvent DEF EventTypesOK
<1>3. dsm.zoneOf[Head(deviceEvents)[2]] \in RoomIds \cup {NoRoom}
  BY <1>2 DEF RoomShapeOK, RoomsTypeOK
<1>4. roomFaults' \in Nat
  BY <1>1, CallTypes DEF RoomShapeOK, RoomsTypeOK
<1>5. /\ scan' \in ScanType /\ scan'.pc \in {"find", "assign"} /\ scan'.d \in RoomDevices
      /\ scan'.pc = "find" => scan'.zone \in RoomIds /\ scan'.zone = dsm.zoneOf[scan'.d]
  <2>1. PICK d \in RoomDevices, event \in RoomIds, zone \in RoomIds \cup {NoRoom}, ok \in BOOLEAN, active \in BOOLEAN :
          /\ zone = dsm.zoneOf[d]
          /\ scan' = [IdleScan EXCEPT !.pc = IF ok /\ zone # NoRoom THEN "find" ELSE "assign",
                                      !.d = d, !.event = event, !.zone = zone, !.active = active]
    <3> DEFINE h == Head(deviceEvents)  ok == result = "ok"  active == h[2] \in dsm.active
    <3>1. /\ ok \in BOOLEAN /\ active \in BOOLEAN /\ h[2] \in RoomDevices /\ h[3] \in RoomIds
          /\ dsm.zoneOf[h[2]] \in RoomIds \cup {NoRoom}
          /\ scan' = [IdleScan EXCEPT !.pc = IF ok /\ dsm.zoneOf[h[2]] # NoRoom THEN "find" ELSE "assign",
                                      !.d = h[2], !.event = h[3], !.zone = dsm.zoneOf[h[2]], !.active = active]
      BY <1>1, <1>2, <1>3
    <3> HIDE DEF h, ok, active
    <3> QED BY <3>1
  <2> QED BY <2>1 DEF IdleScan, ScanType, ScanPoints, Nowhere
<1> QED BY <1>1, <1>2, <1>4, <1>5 DEF ScansKeep, RoomShapeOK, RoomsTypeOK, DeviceTypes

(* There is an object left for a room that is not in the apartment. *)
LEMMA ObjectsLeft ==
  ASSUME RoomShapeOK, AllocsOK, NEW z \in RoomIds \ live
  PROVE  /\ allocs[z] + 1 \in 1 .. MaxAllocs
         /\ [allocs EXCEPT ![z] = @ + 1] \in [RoomIds -> 1 .. MaxAllocs]
<1>1. IsFiniteSet(Removers)
  BY RoomsAssumption, FS_Subset DEF Removers
<1>2. Cardinality(Removers) \in Nat
  BY <1>1, FS_CardinalityType
<1>3. allocs \in [RoomIds -> 1 .. MaxAllocs] /\ roomInputs["requests"] \in Nat
  BY DEF RoomShapeOK, RoomsTypeOK
<1>4. allocs[z] + 1 + Cardinality(Removers) + roomInputs["requests"] <= MaxRoomRequests + 1
  BY DEF AllocsOK
<1>5. /\ MaxRoomRequests \in Nat /\ MaxAllocs \in Nat /\ MaxAllocs > MaxRoomRequests
      /\ allocs[z] \in 1 .. MaxAllocs
  BY <1>3, RoomsAssumption
<1>6. allocs[z] + 1 \in 1 .. MaxAllocs
  BY <1>2, <1>3, <1>4, <1>5
<1> QED BY <1>3, <1>6

(* The room that was read is found or made, and the device. *)
LEMMA FindEffect ==
  ASSUME RoomShapeOK, AllocsOK, FindRoom
  PROVE  /\ ScansKeep /\ UNCHANGED <<room, roomFaults>>
         /\ scan.pc = "find" /\ roomMutex = Unlocked
         /\ \/ scan.zone \in live /\ UNCHANGED <<live, allocs>>
            \/ /\ scan.zone \in RoomIds \ live /\ live' = live \cup {scan.zone}
               /\ allocs' = [allocs EXCEPT ![scan.zone] = @ + 1]
         /\ scan'.d = scan.d /\ scan'.zone = scan.zone /\ scan'.o = Object(scan.zone)'
         /\ scan'.pc \in {"assign", "detach"} /\ scan'.o \in Objects
         /\ scan'.pc = "assign" => device[scan.d].known
         /\ scan'.old = IF device[scan.d].known THEN Lookup(device[scan.d].zone) ELSE Nowhere
         /\ \A d \in RoomDevices \ {scan.d} : device'[d] = device[d]
         /\ IF device[scan.d].known THEN device' = device
            ELSE device'[scan.d] = [known |-> TRUE, zone |-> NoRoom, present |-> FALSE]
<1>1. /\ scan.d \in RoomDevices /\ scan.zone \in RoomIds /\ scan \in ScanType
      /\ DeviceTypes /\ EventTypesOK /\ roomFaults \in Nat /\ died \in BOOLEAN
      /\ allocs \in [RoomIds -> 1 .. MaxAllocs] /\ scan.pc = "find" /\ roomMutex = Unlocked
  BY DEF FindRoom, RoomShapeOK, RoomsTypeOK, DeviceTypes, EventTypesOK
<1> DEFINE n == IF scan.zone \in live THEN allocs[scan.zone] ELSE allocs[scan.zone] + 1
           pc == IF device[scan.d].known /\ device[scan.d].present /\ ~scan.active THEN "assign" ELSE "detach"
           old == IF device[scan.d].known THEN Lookup(device[scan.d].zone) ELSE Nowhere
<1>2. /\ live' = live \cup {scan.zone} /\ allocs' = [allocs EXCEPT ![scan.zone] = n]
      /\ scan' = [scan EXCEPT !.pc = pc, !.o = <<scan.zone, n>>, !.old = old]
      /\ device' = IF device[scan.d].known THEN device
                   ELSE [device EXCEPT ![scan.d] = [known |-> TRUE, zone |-> NoRoom, present |-> FALSE]]
      /\ UNCHANGED <<room, deviceEvents, died, roomInputs, roomFaults, dsm, roomMutex, worker, sync>>
  BY DEF FindRoom, ScanUnchangedRooms
<1>3. n \in 1 .. MaxAllocs
  BY <1>1, ObjectsLeft
<1>4. old \in Objects \cup {Nowhere}
  BY <1>1, ObjectFacts DEF Lookup, RoomShapeOK, RoomsTypeOK
<1>5. pc \in {"assign", "detach"} /\ (pc = "assign" => device[scan.d].known)
  OBVIOUS
<1>6. \/ scan.zone \in live /\ UNCHANGED <<live, allocs>>
      \/ /\ scan.zone \in RoomIds \ live /\ live' = live \cup {scan.zone}
         /\ allocs' = [allocs EXCEPT ![scan.zone] = @ + 1]
  BY <1>1, <1>2
<1>7. allocs'[scan.zone] = n
  BY <1>1, <1>2
<1> HIDE DEF n, pc, old
<1>8. /\ scan' \in ScanType /\ scan'.d = scan.d /\ scan'.zone = scan.zone /\ scan'.o = <<scan.zone, n>>
      /\ scan'.pc = pc /\ scan'.old = old /\ <<scan.zone, n>> \in Objects
  BY <1>1, <1>2, <1>3, <1>4, <1>5 DEF ScanType, ScanPoints, Objects
<1>9. /\ DeviceTypes' /\ \A d \in RoomDevices \ {scan.d} : device'[d] = device[d]
      /\ IF device[scan.d].known THEN device' = device
         ELSE device'[scan.d] = [known |-> TRUE, zone |-> NoRoom, present |-> FALSE]
  BY <1>1, <1>2 DEF DeviceTypes
<1>10. ScansKeep
  BY <1>1, <1>2, <1>8, <1>9 DEF ScansKeep, EventTypesOK, RoomShapeOK
<1>11. Object(scan.zone)' = <<scan.zone, n>>
  BY <1>2, <1>7 DEF Object
<1> QED BY <1>1, <1>2, <1>5, <1>6, <1>8, <1>9, <1>10, <1>11 DEF old

(* The device is taken out of its old room. *)
LEMMA DetachEffect ==
  ASSUME RoomShapeOK, Detach
  PROVE  /\ ScansKeep /\ UNCHANGED <<live, allocs, roomFaults>>
         /\ scan.pc = "detach" /\ scan'.pc = "find2" /\ scan'.d = scan.d /\ scan'.zone = scan.zone
         /\ scan'.o = scan.o
         /\ \A d \in RoomDevices \ {scan.d} : device'[d] = device[d]
         /\ device'[scan.d].known = device[scan.d].known /\ device'[scan.d].present = device[scan.d].present
         /\ device'[scan.d].zone = scan.zone
         /\ \A p \in Objects :
              /\ room'[p].sensor = room[p].sensor
              /\ \A d \in RoomDevices : d \in room'[p].members <=>
                   d \in room[p].members /\ (p # scan.old \/ d # scan.d)
<1>1. /\ scan.d \in RoomDevices /\ scan.zone \in RoomIds /\ scan \in ScanType
      /\ DeviceTypes /\ EventTypesOK /\ roomFaults \in Nat /\ died \in BOOLEAN
      /\ scan.pc = "detach" /\ room \in [Objects -> RoomType]
  BY DEF Detach, RoomShapeOK, RoomsTypeOK, DeviceTypes, EventTypesOK
<1>2. /\ room' = [o \in Objects |-> IF o = scan.old THEN [room[o] EXCEPT !.members = @ \ {scan.d}] ELSE room[o]]
      /\ device' = [device EXCEPT ![scan.d].zone = scan.zone] /\ scan' = [scan EXCEPT !.pc = "find2"]
      /\ UNCHANGED <<live, allocs, deviceEvents, died, roomInputs, roomFaults, dsm, roomMutex, worker, sync>>
  BY DEF Detach, ScanUnchangedRooms
<1>3. /\ scan' \in ScanType /\ scan'.pc = "find2" /\ scan'.d = scan.d /\ scan'.zone = scan.zone
      /\ scan'.o = scan.o
  BY <1>1, <1>2 DEF ScanType, ScanPoints
<1>4. /\ DeviceTypes' /\ \A d \in RoomDevices \ {scan.d} : device'[d] = device[d]
      /\ device'[scan.d].known = device[scan.d].known /\ device'[scan.d].present = device[scan.d].present
      /\ device'[scan.d].zone = scan.zone
  BY <1>1, <1>2 DEF DeviceTypes
<1>5. \A p \in Objects : /\ room'[p] \in RoomType /\ room'[p].sensor = room[p].sensor
                         /\ room'[p].members = IF p = scan.old THEN room[p].members \ {scan.d}
                                               ELSE room[p].members
  BY <1>1, <1>2 DEF RoomType
<1>6. room' \in [Objects -> RoomType]
  BY <1>2, <1>5
<1>7. \A p \in Objects, d \in RoomDevices :
        d \in room'[p].members <=> d \in room[p].members /\ (p # scan.old \/ d # scan.d)
  BY <1>5
<1>8. ScansKeep
  BY <1>1, <1>2, <1>3, <1>4, <1>6 DEF ScansKeep, EventTypesOK
<1> QED BY <1>1, <1>2, <1>3, <1>4, <1>5, <1>7, <1>8

(* The room is marked as one of the dSM. *)
LEMMA FindAgainEffect ==
  ASSUME RoomShapeOK, FindAgain
  PROVE  /\ ScansKeep /\ UNCHANGED <<live, allocs, device, roomFaults>>
         /\ scan.pc = "find2" /\ scan'.d = scan.d /\ scan'.zone = scan.zone /\ scan'.o = scan.o
         /\ scan'.pc = IF device[scan.d].known THEN "attach" ELSE "assign"
         /\ \A p \in Objects : room'[p].sensor = room[p].sensor /\ room'[p].members = room[p].members
<1>1. /\ scan.d \in RoomDevices /\ scan.o \in Objects /\ scan \in ScanType
      /\ DeviceTypes /\ EventTypesOK /\ roomFaults \in Nat /\ died \in BOOLEAN
      /\ scan.pc = "find2" /\ room \in [Objects -> RoomType]
  BY DEF FindAgain, RoomShapeOK, RoomsTypeOK, DeviceTypes, EventTypesOK
<1>2. /\ room' = [room EXCEPT ![scan.o].onMeter = TRUE]
      /\ scan' = [scan EXCEPT !.pc = IF device[scan.d].known THEN "attach" ELSE "assign",
                              !.old = Lookup(device[scan.d].zone)]
      /\ UNCHANGED <<live, allocs, device, deviceEvents, died, roomInputs, roomFaults, dsm, roomMutex, worker, sync>>
  BY DEF FindAgain, ScanUnchangedRooms
<1>3. Lookup(device[scan.d].zone) \in Objects \cup {Nowhere}
  BY <1>1, ObjectFacts DEF Lookup, RoomShapeOK, RoomsTypeOK
<1>4. /\ scan' \in ScanType /\ scan'.d = scan.d /\ scan'.zone = scan.zone /\ scan'.o = scan.o
      /\ scan'.pc = IF device[scan.d].known THEN "attach" ELSE "assign"
  BY <1>1, <1>2, <1>3 DEF ScanType, ScanPoints
<1>5. /\ room' \in [Objects -> RoomType]
      /\ \A p \in Objects : room'[p].sensor = room[p].sensor /\ room'[p].members = room[p].members
  BY <1>1, <1>2 DEF RoomType
<1> QED BY <1>1, <1>2, <1>4, <1>5 DEF ScansKeep, EventTypesOK, DeviceTypes

(* The device is put into the room. *)
LEMMA AttachEffect ==
  ASSUME RoomShapeOK, Attach
  PROVE  /\ ScansKeep /\ UNCHANGED <<live, allocs, roomFaults>>
         /\ scan.pc = "attach" /\ scan'.pc = "assign" /\ scan'.d = scan.d
         /\ \A d \in RoomDevices \ {scan.d} : device'[d] = device[d]
         /\ device[scan.d].known => device'[scan.d].known /\ device'[scan.d].zone = scan.zone
         /\ \A p \in Objects :
              /\ room'[p].sensor = room[p].sensor
              /\ \A d \in RoomDevices : d \in room'[p].members <=>
                   \/ p = scan.o /\ d = scan.d
                   \/ d \in room[p].members /\ (p = scan.o \/ p # scan.old \/ d # scan.d)
<1>1. /\ scan.d \in RoomDevices /\ scan.o \in Objects /\ scan \in ScanType
      /\ DeviceTypes /\ EventTypesOK /\ roomFaults \in Nat /\ died \in BOOLEAN
      /\ scan.pc = "attach" /\ room \in [Objects -> RoomType]
  BY DEF Attach, RoomShapeOK, RoomsTypeOK, DeviceTypes, EventTypesOK
<1>2. /\ room' = addDevice(scan.o, scan.old, scan.d)
      /\ device' = IF device[scan.d].known
                   THEN [device EXCEPT ![scan.d] = [known |-> TRUE, zone |-> scan.zone, present |-> scan.active]]
                   ELSE device
      /\ scan' = [scan EXCEPT !.pc = "assign"]
      /\ UNCHANGED <<live, allocs, deviceEvents, died, roomInputs, roomFaults, dsm, roomMutex, worker, sync>>
  BY DEF Attach, ScanUnchangedRooms
<1>3. /\ scan' \in ScanType /\ scan'.pc = "assign" /\ scan'.d = scan.d
  BY <1>1, <1>2 DEF ScanType, ScanPoints
<1>4. /\ DeviceTypes' /\ \A d \in RoomDevices \ {scan.d} : device'[d] = device[d]
      /\ device[scan.d].known => device'[scan.d].known /\ device'[scan.d].zone = scan.zone
  BY <1>1, <1>2 DEF DeviceTypes, ScanType
<1>5. /\ room' \in [Objects -> RoomType]
      /\ \A p \in Objects : room'[p].sensor = room[p].sensor
      /\ \A p \in Objects, d \in RoomDevices : d \in room'[p].members <=>
           \/ p = scan.o /\ d = scan.d
           \/ d \in room[p].members /\ (p = scan.o \/ p # scan.old \/ d # scan.d)
  BY <1>1, <1>2, AddEffect
<1> QED BY <1>1, <1>2, <1>3, <1>4, <1>5 DEF ScansKeep, EventTypesOK

(* A sensor is chosen for the room of the event, if it has none. *)
LEMMA ChooseEffect ==
  ASSUME RoomShapeOK, AssignNew
  PROVE  /\ ScansKeep /\ UNCHANGED <<live, allocs, device, room, roomFaults>>
         /\ scan.pc = "assign" /\ scan'.pc \in {"idle", "set"}
         /\ scan'.pc = "set" => /\ scan'.o \in Objects /\ scan'.d \in Candidates(scan'.o)
                                /\ scan'.d \in RoomSensors
<1>1. /\ scan.d \in RoomDevices /\ scan \in ScanType /\ scan.pc = "assign"
      /\ DeviceTypes /\ EventTypesOK /\ roomFaults \in Nat /\ died \in BOOLEAN
      /\ room \in [Objects -> RoomType] /\ live \subseteq RoomIds
  BY DEF AssignNew, RoomShapeOK, RoomsTypeOK, DeviceTypes, EventTypesOK
<1>2. /\ died' \in BOOLEAN
      /\ UNCHANGED <<live, allocs, room, device, deviceEvents, roomInputs, roomFaults, dsm, roomMutex, worker, sync>>
      /\ \/ scan' = IdleScan
         \/ /\ Lookup(scan.event) # Nowhere
            /\ \E d \in Candidates(Lookup(scan.event)) :
                 scan' = [IdleScan EXCEPT !.pc = "set", !.d = d, !.zone = scan.event, !.o = Lookup(scan.event)]
  BY <1>1 DEF AssignNew, ScanUnchangedRooms, DeviceTypes
<1>3. CASE scan' = IdleScan
  <2>1. scan' \in ScanType /\ scan'.pc = "idle"
    BY <1>3 DEF IdleScan, ScanType, ScanPoints, Nowhere
  <2> QED BY <1>1, <1>2, <2>1 DEF ScansKeep, EventTypesOK, DeviceTypes
<1>4. ASSUME NEW d \in Candidates(Lookup(scan.event)), Lookup(scan.event) # Nowhere,
             scan' = [IdleScan EXCEPT !.pc = "set", !.d = d, !.zone = scan.event, !.o = Lookup(scan.event)]
      PROVE  /\ scan' \in ScanType /\ scan'.pc = "set" /\ scan'.o \in Objects
             /\ scan'.d \in Candidates(scan'.o) /\ scan'.d \in RoomSensors
  <2>1. Lookup(scan.event) \in Objects
    BY <1>1, <1>4, ObjectFacts DEF Lookup
  <2>2. d \in RoomSensors /\ scan.event \in RoomIds \cup {NoRoom}
    BY <1>1 DEF Candidates, ScanType
  <2>3. scan'.pc = "set" /\ scan'.o = Lookup(scan.event) /\ scan'.d = d
    BY <1>4 DEF IdleScan
  <2>4. scan' \in ScanType
    BY <1>4, <2>1, <2>2, RoomsAssumption DEF IdleScan, ScanType, ScanPoints
  <2> QED BY <2>1, <2>2, <2>3, <2>4
<1> QED BY <1>1, <1>2, <1>3, <1>4 DEF ScansKeep, EventTypesOK, DeviceTypes

(* The sensor that was chosen is set. *)
LEMMA SetEffect ==
  ASSUME RoomShapeOK, SetNew
  PROVE  /\ ScansKeep /\ UNCHANGED <<live, allocs, device>>
         /\ scan.pc = "set" /\ scan'.pc = "idle"
         /\ \A p \in Objects : /\ room'[p].members = room[p].members
                               /\ room'[p].sensor = IF p = scan.o THEN scan.d ELSE room[p].sensor
<1>1. /\ scan.d \in RoomSensors /\ scan.o \in Objects /\ scan.pc = "set"
      /\ DeviceTypes /\ EventTypesOK /\ room \in [Objects -> RoomType]
  BY DEF SetNew, RoomShapeOK, RoomsTypeOK, DeviceTypes, EventTypesOK
<1>2. /\ room' = [room EXCEPT ![scan.o].sensor = scan.d] /\ scan' = IdleScan
      /\ UNCHANGED <<live, allocs, device, deviceEvents, roomInputs, dsm, roomMutex, worker, sync>>
      /\ died' \in BOOLEAN /\ \E result \in Results : Call(result)
  BY DEF SetNew, ScanUnchangedRooms
<1>3. roomFaults' \in Nat
  BY <1>2, CallTypes DEF RoomShapeOK, RoomsTypeOK
<1>4. scan' \in ScanType /\ scan'.pc = "idle"
  BY <1>2 DEF IdleScan, ScanType, ScanPoints, Nowhere
<1>5. /\ room' \in [Objects -> RoomType]
      /\ \A p \in Objects : /\ room'[p].members = room[p].members
                            /\ room'[p].sensor = IF p = scan.o THEN scan.d ELSE room[p].sensor
  BY <1>1, <1>2 DEF RoomType
<1> QED BY <1>1, <1>2, <1>3, <1>4, <1>5 DEF ScansKeep, EventTypesOK, DeviceTypes

(* The thread of MeterMaintenance chooses and sets sensors, and takes them *)
(* from rooms.                                                             *)
SyncsChange ==
  /\ UNCHANGED <<live, allocs, device, dsm, deviceEvents, roomMutex, worker, scan>>
  /\ sync' \in SyncType /\ roomInputs' \in [{"requests", "others"} -> Nat] /\ roomFaults' \in Nat
  /\ died' \in BOOLEAN /\ room' \in [Objects -> RoomType]
  /\ roomInputs'["requests"] = roomInputs["requests"]
  /\ \A p \in Objects : room'[p].members = room[p].members
  /\ \/ /\ sync.pc = "idle" /\ sync'.pc \in {"set", "clean"} /\ sync'.o \in Objects /\ room' = room
        /\ sync'.pc = "set" => sync'.d \in Candidates(sync'.o) /\ sync'.d \in RoomSensors
     \/ /\ sync.pc = "set" /\ sync'.pc = "clean" /\ sync'.d = sync.d /\ sync'.o = sync.o
        /\ \A p \in Objects : room'[p].sensor = IF p = sync.o THEN sync.d ELSE room[p].sensor
     \/ /\ sync.pc = "clean" /\ sync' = IdleSync
        /\ \A p \in Objects : room'[p].sensor \in {room[p].sensor, NoDevice}

(* What it does. *)
LEMMA SyncEffect ==
  ASSUME RoomShapeOK, SyncActs
  PROVE  SyncsChange
<1>1. /\ room \in [Objects -> RoomType] /\ live \subseteq RoomIds /\ sync \in SyncType
      /\ roomInputs \in [{"requests", "others"} -> Nat] /\ roomFaults \in Nat
  BY DEF RoomShapeOK, RoomsTypeOK
<1>2. ASSUME NEW z \in RoomIds, SyncAssign(z) PROVE SyncsChange
  <2>1. /\ Input("others") /\ died' \in BOOLEAN /\ sync.pc = "idle"
        /\ UNCHANGED <<live, allocs, device, dsm, deviceEvents, roomMutex, worker, scan, room, roomFaults>>
        /\ \/ sync' = [pc |-> "clean", d |-> NoDevice, o |-> Object(z)]
           \/ \E d \in Candidates(Object(z)) : sync' = [pc |-> "set", d |-> d, o |-> Object(z)]
    BY <1>2 DEF SyncAssign, SyncUnchanged, Dangling
  <2>2. Object(z) \in Objects /\ Candidates(Object(z)) \subseteq RoomSensors
    BY ObjectFacts DEF Candidates
  <2>3. /\ sync' \in SyncType /\ sync'.pc \in {"set", "clean"} /\ sync'.o \in Objects
        /\ sync'.pc = "set" => sync'.d \in Candidates(sync'.o) /\ sync'.d \in RoomSensors
    BY <2>1, <2>2, RoomsAssumption DEF SyncType
  <2> QED BY <1>1, <2>1, <2>3, InputTypes DEF SyncsChange
<1>3. CASE SyncSet
  <2>1. /\ sync.pc = "set" /\ sync' = [sync EXCEPT !.pc = "clean"] /\ died' \in BOOLEAN
        /\ room' = [room EXCEPT ![sync.o].sensor = sync.d] /\ roomFaults' \in Nat
        /\ UNCHANGED <<live, allocs, device, dsm, deviceEvents, roomMutex, worker, scan, roomInputs>>
    BY <1>1, <1>3, CallTypes DEF SyncSet, SyncUnchanged
  <2>2. sync.o \in Objects /\ sync.d \in RoomSensors
    BY <2>1 DEF RoomShapeOK
  <2>3. /\ room' \in [Objects -> RoomType]
        /\ \A p \in Objects : /\ room'[p].members = room[p].members
                              /\ room'[p].sensor = IF p = sync.o THEN sync.d ELSE room[p].sensor
    BY <1>1, <2>1, <2>2 DEF RoomType
  <2>4. sync' \in SyncType /\ sync'.pc = "clean" /\ sync'.d = sync.d /\ sync'.o = sync.o
    BY <1>1, <2>1 DEF SyncType
  <2> QED BY <1>1, <2>1, <2>3, <2>4 DEF SyncsChange
<1>4. CASE synchronizeZoneSensorAssignment
  <2>1. /\ sync.pc = "clean" /\ sync' = IdleSync
        /\ room' = [room EXCEPT ![sync.o].sensor = IF @ \in room[sync.o].members THEN @ ELSE NoDevice]
        /\ UNCHANGED <<live, allocs, device, dsm, deviceEvents, roomMutex, worker, scan, roomInputs, roomFaults, died>>
    BY <1>4 DEF synchronizeZoneSensorAssignment, SyncUnchanged
  <2>2. sync.o \in Objects
    BY <2>1 DEF RoomShapeOK
  <2>3. /\ room' \in [Objects -> RoomType]
        /\ \A p \in Objects : /\ room'[p].members = room[p].members
                              /\ room'[p].sensor \in {room[p].sensor, NoDevice}
    BY <1>1, <2>1, <2>2 DEF RoomType
  <2>4. sync' \in SyncType /\ died' \in BOOLEAN
    BY <2>1 DEF SyncType, IdleSync, Nowhere, RoomShapeOK, RoomsTypeOK
  <2> QED BY <1>1, <2>1, <2>3, <2>4 DEF SyncsChange
<1> QED BY <1>2, <1>3, <1>4 DEF SyncActs

-----------------------------------------------------------------------------
(* The shape of the state is kept                                          *)

WorkerShapeOK ==
  /\ worker \in [RoomWorkers -> WorkerType] /\ roomMutex \in RoomWorkers \cup {Unlocked}
  /\ \A w \in RoomWorkers :
       /\ worker[w].pc \in MoveSteps \cup DeleteSteps => worker[w].d \in RoomDevices
       /\ worker[w].pc \in MoveSteps \cup RemoveSteps \cup {"deleteRefill"} => worker[w].o \in Objects
       /\ worker[w].pc \in {"reset", "refill", "shrink"} => worker[w].oldZoneID \in RoomIds
       /\ worker[w].pc \in Locked => roomMutex = w
ScanShapeOK ==
  /\ scan \in ScanType
  /\ scan.pc # "idle" => scan.d \in RoomDevices
  /\ scan.pc \in {"find", "detach", "find2", "attach"} => scan.zone \in RoomIds
  /\ scan.pc \in {"detach", "find2", "attach", "set"} => scan.o \in Objects
  /\ scan.pc = "set" => scan.d \in RoomSensors
SyncShapeOK ==
  /\ sync \in SyncType
  /\ sync.pc = "set" => sync.d \in RoomSensors
  /\ sync.pc = "idle" => sync.d = NoDevice
  /\ sync.pc # "idle" => sync.o \in Objects
RestShapeOK ==
  /\ live \subseteq RoomIds /\ allocs \in [RoomIds -> 1 .. MaxAllocs]
  /\ room \in [Objects -> RoomType] /\ DeviceTypes /\ DsmTypes /\ EventTypesOK
  /\ roomInputs \in [{"requests", "others"} -> Nat] /\ roomFaults \in Nat /\ died \in BOOLEAN
  /\ excused \subseteq RoomDevices /\ unsure \subseteq RoomDevices
  /\ \A d \in dsm.active : dsm.zoneOf[d] # NoRoom

(* The parts of the shape are all of it. *)
LEMMA ShapeParts ==
  RoomShapeOK <=> WorkerShapeOK /\ ScanShapeOK /\ SyncShapeOK /\ RestShapeOK
BY DEF RoomShapeOK, RoomsTypeOK, WorkerShapeOK, ScanShapeOK, SyncShapeOK, RestShapeOK,
       DeviceTypes, DsmTypes, EventTypesOK

(* The same of the next state. *)
LEMMA ShapePartsNext ==
  WorkerShapeOK' /\ ScanShapeOK' /\ SyncShapeOK' /\ RestShapeOK' => RoomShapeOK'
BY DEF RoomShapeOK, RoomsTypeOK, WorkerShapeOK, ScanShapeOK, SyncShapeOK, RestShapeOK,
       DeviceTypes, DsmTypes, EventTypesOK

(* A web thread keeps the shape. *)
LEMMA WorkerShape ==
  ASSUME RoomShapeOK, NEW w \in RoomWorkers, WorkerActs(w), History
  PROVE  RoomShapeOK'
<1>1. WorkersMove(w) /\ RoomsChange(w) /\ DsmChange(w) /\ WorkersRest(w)
  BY WorkerControl, WorkerRooms, WorkerDsm, WorkerRest
<1>2. WorkerShapeOK /\ ScanShapeOK /\ SyncShapeOK /\ RestShapeOK
  BY ShapeParts
<1>3. WorkerShapeOK'
  <2>1. ASSUME NEW v \in RoomWorkers \ {w}
        PROVE  worker'[v] = worker[v] /\ (roomMutex = v => roomMutex' = v)
    BY <1>1, <1>2, RoomsAssumption DEF WorkersMove, Starts, Advances, Ends, WorkerShapeOK, Locked, PcOrder
  <2>2. CASE Starts(w)
    BY <1>1, <1>2, <2>1, <2>2, ObjectFacts DEF WorkersMove, Starts, WorkerShapeOK, RestShapeOK, Locked,
       MoveSteps, RemoveSteps, DeleteSteps
  <2>3. CASE Ends(w)
    BY <1>1, <1>2, <2>1, <2>3 DEF WorkersMove, Ends, WorkerShapeOK, Locked, IdleWorker,
       MoveSteps, RemoveSteps, DeleteSteps
  <2>4. CASE Advances(w)
    <3>1. /\ worker[w].pc \in MoveSteps \cup RemoveSteps \cup DeleteSteps
          /\ worker'[w].pc \in MoveSteps \cup DeleteSteps => worker'[w].d \in RoomDevices
      BY <1>2, <2>4 DEF Advances, PcOrder, WorkerShapeOK, MoveSteps, RemoveSteps, DeleteSteps
    <3>2. worker'[w].pc \in MoveSteps \cup RemoveSteps \cup {"deleteRefill"} => worker'[w].o \in Objects
      BY <1>2, <2>4 DEF Advances, PcOrder, WorkerShapeOK, MoveSteps, RemoveSteps, DeleteSteps
    <3>3. worker'[w].pc \in {"reset", "refill", "shrink"} => worker'[w].oldZoneID \in RoomIds
      BY <1>2, <2>4 DEF Advances, PcOrder, WorkerShapeOK, RestShapeOK
    <3>4. /\ worker'[w].pc \in Locked => roomMutex' = w
          /\ roomMutex' \in RoomWorkers \cup {Unlocked}
      BY <1>2, <2>4 DEF Advances, PcOrder, WorkerShapeOK, Locked
    <3> QED BY <1>1, <1>2, <2>1, <3>1, <3>2, <3>3, <3>4 DEF WorkersMove, WorkerShapeOK
  <2> QED BY <1>1, <2>2, <2>3, <2>4 DEF WorkersMove
<1>4. ScanShapeOK' /\ SyncShapeOK'
  BY <1>1, <1>2 DEF WorkersRest, ScanShapeOK, SyncShapeOK
<1>5. \A d \in dsm'.active : dsm'.zoneOf[d] # NoRoom
  <2>1. worker[w].pc = "setZone" => worker[w].o[1] \in RoomIds
    BY <1>2 DEF WorkerShapeOK, MoveSteps, Objects
  <2>2. dsm.active \subseteq RoomDevices
    BY <1>2 DEF RestShapeOK, DsmTypes
  <2> QED BY <1>1, <1>2, <2>1, <2>2, RoomsAssumption DEF DsmChange, RestShapeOK
<1>6. RestShapeOK'
  BY <1>1, <1>2, <1>5, WorkerDevices, HistoryTypes
  DEF WorkersRest, RoomsChange, DsmChange, RestShapeOK, EventTypesOK
<1> QED BY <1>3, <1>4, <1>6, ShapePartsNext

(* Inputs keep the shape. *)
LEMMA InputShape ==
  ASSUME RoomShapeOK, AllocsOK, InputActs, History
  PROVE  RoomShapeOK'
<1>1. InputsChange
  BY InputEffect
<1>2. WorkerShapeOK /\ ScanShapeOK /\ SyncShapeOK /\ RestShapeOK
  BY ShapeParts
<1>3. WorkerShapeOK' /\ ScanShapeOK' /\ SyncShapeOK'
  BY <1>1, <1>2 DEF InputsChange, WorkerShapeOK, ScanShapeOK, SyncShapeOK
<1>4. live' \subseteq RoomIds /\ allocs' \in [RoomIds -> 1 .. MaxAllocs]
  BY <1>1, <1>2, ObjectsLeft DEF InputsChange, RestShapeOK
<1>5. RestShapeOK'
  BY <1>1, <1>2, <1>4, HistoryTypes DEF InputsChange, RestShapeOK, DeviceTypes
<1> QED BY <1>3, <1>5, ShapePartsNext

(* The thread of ModelMaintenance keeps the shape. *)
LEMMA ScanShape ==
  ASSUME RoomShapeOK, AllocsOK, ScanActs, History
  PROVE  RoomShapeOK'
<1>1. WorkerShapeOK /\ ScanShapeOK /\ SyncShapeOK /\ RestShapeOK
  BY ShapeParts
<1>2. ASSUME ScansKeep, UNCHANGED <<live, allocs>>, ScanShapeOK' PROVE RoomShapeOK'
  <2>1. WorkerShapeOK' /\ SyncShapeOK'
    BY <1>1, <1>2 DEF ScansKeep, WorkerShapeOK, SyncShapeOK
  <2>2. RestShapeOK'
    BY <1>1, <1>2, HistoryTypes DEF ScansKeep, RestShapeOK, DsmTypes
  <2> QED BY <1>2, <2>1, <2>2, ShapePartsNext
<1>3. CASE onRemoveDevice
  BY <1>1, <1>2, <1>3, LostEffect DEF ScanShapeOK
<1>4. CASE onAddDevice
  BY <1>1, <1>2, <1>4, NewEffect DEF ScanShapeOK, ScansKeep
<1>5. CASE FindRoom
  <2>1. /\ ScansKeep /\ scan.pc = "find" /\ scan'.d = scan.d /\ scan'.zone = scan.zone
        /\ scan'.pc \in {"assign", "detach"} /\ scan'.o \in Objects
    BY <1>5, FindEffect
  <2>2. ScanShapeOK'
    BY <1>1, <2>1 DEF ScanShapeOK, ScansKeep
  <2>3. live' \subseteq RoomIds /\ allocs' \in [RoomIds -> 1 .. MaxAllocs]
    BY <1>1, <1>5, FindEffect, ObjectsLeft DEF RestShapeOK
  <2>4. WorkerShapeOK' /\ SyncShapeOK'
    BY <1>1, <2>1 DEF ScansKeep, WorkerShapeOK, SyncShapeOK
  <2>5. RestShapeOK'
    BY <1>1, <2>1, <2>3, HistoryTypes DEF ScansKeep, RestShapeOK, DsmTypes
  <2> QED BY <2>2, <2>4, <2>5, ShapePartsNext
<1>6. CASE Detach
  BY <1>1, <1>2, <1>6, DetachEffect DEF ScanShapeOK, ScansKeep
<1>7. CASE FindAgain
  BY <1>1, <1>2, <1>7, FindAgainEffect DEF ScanShapeOK, ScansKeep
<1>8. CASE Attach
  BY <1>1, <1>2, <1>8, AttachEffect DEF ScanShapeOK, ScansKeep
<1>9. CASE AssignNew
  BY <1>1, <1>2, <1>9, ChooseEffect, RoomsAssumption DEF ScanShapeOK, ScansKeep
<1>10. CASE SetNew
  BY <1>1, <1>2, <1>10, SetEffect DEF ScanShapeOK, ScansKeep
<1> QED BY <1>3, <1>4, <1>5, <1>6, <1>7, <1>8, <1>9, <1>10 DEF ScanActs

(* The thread of MeterMaintenance keeps the shape. *)
LEMMA SyncShape ==
  ASSUME RoomShapeOK, SyncActs, History
  PROVE  RoomShapeOK'
<1>1. SyncsChange
  BY SyncEffect
<1>2. WorkerShapeOK /\ ScanShapeOK /\ SyncShapeOK /\ RestShapeOK
  BY ShapeParts
<1>3. WorkerShapeOK' /\ ScanShapeOK'
  BY <1>1, <1>2 DEF SyncsChange, WorkerShapeOK, ScanShapeOK
<1>4. SyncShapeOK'
  BY <1>1, <1>2 DEF SyncsChange, SyncShapeOK, IdleSync
<1>5. RestShapeOK'
  BY <1>1, <1>2, HistoryTypes DEF SyncsChange, RestShapeOK, DeviceTypes, DsmTypes, EventTypesOK
<1> QED BY <1>3, <1>4, <1>5, ShapePartsNext

(* The number of requests that remove a room *)
LEMMA RemoversCount ==
  /\ IsFiniteSet(Removers) /\ Cardinality(Removers) \in Nat
  /\ IsFiniteSet(Removers') /\ Cardinality(Removers') \in Nat
<1>1. IsFiniteSet(Removers) /\ IsFiniteSet(Removers')
  BY RoomsAssumption, FS_Subset DEF Removers
<1> QED BY <1>1, FS_CardinalityType

(* Every object a room has got was paid for by a request. *)
LEMMA AllocsStep ==
  ASSUME RoomShapeOK, AllocsOK, [RoomsNext]_roomVars
  PROVE  AllocsOK'
<1>0. allocs \in [RoomIds -> 1 .. MaxAllocs] /\ roomInputs["requests"] \in Nat /\ MaxRoomRequests \in Nat
  BY RoomsAssumption DEF RoomShapeOK, RoomsTypeOK
<1>1. ASSUME NEW w \in RoomWorkers, WorkerActs(w) PROVE AllocsOK'
  <2>1. WorkersMove(w) /\ WorkersRest(w)
    BY <1>1, WorkerControl, WorkerRest
  <2>2. roomInputs'["requests"] \in Nat
    BY <2>1 DEF WorkersRest
  <2>3. CASE Starts(w)
    <3>1. Removers' = Removers \/ (Removers' = Removers \cup {w} /\ w \notin Removers)
      BY <2>1, <2>3 DEF WorkersMove, Starts, Removers, RemoveSteps
    <3>2. Cardinality(Removers') <= Cardinality(Removers) + 1
      BY <3>1, RemoversCount, FS_AddElement
    <3>3. roomInputs'["requests"] = roomInputs["requests"] - 1 /\ live' = live /\ allocs' = allocs
      BY <2>1, <2>3 DEF Starts, WorkersRest
    <3> QED BY <1>0, <3>2, <3>3, RemoversCount DEF AllocsOK
  <2>4. CASE Advances(w)
    <3>1. Removers' = Removers
      BY <2>1, <2>4 DEF WorkersMove, Advances, PcOrder, Removers, RemoveSteps
    <3>2. roomInputs'["requests"] = roomInputs["requests"] /\ live' = live /\ allocs' = allocs
      BY <2>1, <2>4 DEF Advances, PcOrder, WorkersRest
    <3> QED BY <1>0, <3>1, <3>2, RemoversCount DEF AllocsOK
  <2>5. CASE Ends(w)
    <3>1. Removers' = Removers \ {w}
      BY <2>1, <2>5 DEF WorkersMove, Ends, IdleWorker, Removers, RemoveSteps
    <3>2. /\ Cardinality(Removers') <= Cardinality(Removers)
          /\ w \in Removers => Cardinality(Removers') = Cardinality(Removers) - 1
      BY <3>1, RemoversCount, FS_RemoveElement
    <3>3. roomInputs'["requests"] = roomInputs["requests"] /\ allocs' = allocs
      BY <2>1, <2>5 DEF Ends, WorkersRest
    <3>4. CASE worker[w].pc = "erase"
      <4>1. w \in Removers
        BY <3>4 DEF Removers, RemoveSteps
      <4> QED BY <1>0, <3>2, <3>3, <4>1, RemoversCount DEF AllocsOK
    <3>5. CASE worker[w].pc # "erase"
      <4>1. live' = live
        BY <2>1, <3>5 DEF WorkersRest
      <4> QED BY <1>0, <3>2, <3>3, <4>1, RemoversCount DEF AllocsOK
    <3> QED BY <3>4, <3>5
  <2> QED BY <2>1, <2>3, <2>4, <2>5 DEF WorkersMove
<1>2. CASE InputActs
  <2>1. InputsChange
    BY <1>2, InputEffect
  <2>2. Removers' = Removers
    BY <2>1 DEF InputsChange, Removers
  <2>3. roomInputs'["requests"] \in Nat
    BY <2>1 DEF InputsChange
  <2> QED BY <1>0, <2>1, <2>2, <2>3, RemoversCount DEF InputsChange, AllocsOK
<1>3. CASE ScanActs
  <2>1. ScansKeep
    BY <1>3, LostEffect, NewEffect, FindEffect, DetachEffect, FindAgainEffect, AttachEffect, ChooseEffect,
       SetEffect DEF ScanActs
  <2>2. Removers' = Removers /\ roomInputs' = roomInputs
    BY <2>1 DEF ScansKeep, Removers
  <2>3. \/ UNCHANGED <<live, allocs>>
        \/ /\ scan.zone \in RoomIds \ live /\ live' = live \cup {scan.zone}
           /\ allocs' = [allocs EXCEPT ![scan.zone] = @ + 1]
    BY <1>3, LostEffect, NewEffect, FindEffect, DetachEffect, FindAgainEffect, AttachEffect, ChooseEffect,
       SetEffect DEF ScanActs
  <2> QED BY <1>0, <2>2, <2>3, RemoversCount DEF AllocsOK
<1>4. CASE SyncActs
  <2>1. SyncsChange
    BY <1>4, SyncEffect
  <2>2. Removers' = Removers
    BY <2>1 DEF SyncsChange, Removers
  <2> QED BY <1>0, <2>1, <2>2, RemoversCount DEF SyncsChange, AllocsOK
<1>5. CASE UNCHANGED roomVars
  BY <1>5 DEF roomVars, AllocsOK, Removers
<1> QED BY <1>1, <1>2, <1>3, <1>4, <1>5, RoomsSteps

(* Every step keeps the shape. *)
LEMMA RoomShapeStep ==
  ASSUME RoomShapeOK, AllocsOK, [RoomsNext]_roomVars
  PROVE  RoomShapeOK'
<1>1. CASE UNCHANGED roomVars
  BY <1>1 DEF roomVars, RoomShapeOK, RoomsTypeOK
<1> QED BY <1>1, RoomsSteps, WorkerShape, InputShape, ScanShape, SyncShape

-----------------------------------------------------------------------------
(* Devices that one thread at most handles                                 *)

(* of the states of the threads *)
OneHandlerOf(W, S, Y, d) ==
  /\ \A v, w \in RoomWorkers :
       W[v].pc # "idle" /\ W[v].d = d /\ W[w].pc # "idle" /\ W[w].d = d => v = w
  /\ \A w \in RoomWorkers : W[w].pc # "idle" /\ W[w].d = d =>
       /\ S.pc = "idle" \/ S.d # d
       /\ Y.d # d
NotRemovedOf(W, S, d) ==
  \A v \in RoomWorkers : W[v].pc \in RemoveSteps =>
    /\ \A w \in RoomWorkers : W[w].pc # "idle" /\ W[w].d = d => W[w].o[1] # W[v].o[1]
    /\ S.pc # "idle" /\ S.d = d => S.zone # W[v].o[1]

OneHandler(d) == OneHandlerOf(worker, scan, sync, d)
NotRemoved(d) == NotRemovedOf(worker, scan, d)

(* A set of more than one element has a cardinality of more than one. *)
LEMMA TwoElements ==
  ASSUME NEW S, IsFiniteSet(S), NEW x \in S, NEW y \in S, x # y
  PROVE  Cardinality(S) > 1
<1>1. IsFiniteSet({x}) /\ Cardinality({x}) = 1
  BY FS_Singleton
<1>2. IsFiniteSet({x, y}) /\ Cardinality({x, y}) = 2
  <2>1. {x, y} = {x} \cup {y} /\ y \notin {x}
    OBVIOUS
  <2> QED BY <1>1, <2>1, FS_AddElement
<1>3. Cardinality({x, y}) <= Cardinality(S)
  BY FS_Subset
<1>4. Cardinality(S) \in Nat
  BY FS_CardinalityType
<1> QED BY <1>2, <1>3, <1>4

(* A device without Overlap has one handler at most, and its room is not  *)
(* being removed.                                                         *)
LEMMA SingleOf ==
  ASSUME NEW W, NEW S, NEW Y, NEW d \in RoomDevices,
         NEW H, H = {<<w, W[w].o[1]>> : w \in {v \in RoomWorkers : W[v].pc # "idle" /\ W[v].d = d}}
                    \cup (IF S.pc # "idle" /\ S.d = d THEN {<<Unlocked, S.zone>>}
                          ELSE IF Y.d = d THEN {<<NoDevice, Y.o[1]>>} ELSE {}),
         ~(Cardinality(H) > 1),
         \A h \in H : h[2] \notin {W[w].o[1] : w \in {v \in RoomWorkers : W[v].pc \in RemoveSteps}}
  PROVE  OneHandlerOf(W, S, Y, d) /\ NotRemovedOf(W, S, d)
<1> DEFINE R == {W[w].o[1] : w \in {v \in RoomWorkers : W[v].pc \in RemoveSteps}}
           V == {v \in RoomWorkers : W[v].pc # "idle" /\ W[v].d = d}
           A == {<<w, W[w].o[1]>> : w \in V}
           B == IF S.pc # "idle" /\ S.d = d THEN {<<Unlocked, S.zone>>}
                ELSE IF Y.d = d THEN {<<NoDevice, Y.o[1]>>} ELSE {}
<1>1. H = A \cup B
  OBVIOUS
<1>2. IsFiniteSet(H)
  <2>1. IsFiniteSet(V)
    BY RoomsAssumption, FS_Subset
  <2>2. IsFiniteSet(A)
    <3> DEFINE f == [w \in V |-> <<w, W[w].o[1]>>]
    <3>1. f \in Surjection(V, A)
      BY DEF Surjection
    <3> QED BY <2>1, <3>1, FS_Surjection
  <2>3. IsFiniteSet(B)
    BY FS_Singleton, FS_EmptySet
  <2> HIDE DEF A, B
  <2>4. IsFiniteSet(A \cup B)
    BY <2>2, <2>3, FS_Union
  <2> QED BY <1>1, <2>4
<1>3. \A x, y \in H : x = y
  BY <1>2, TwoElements
<1>4. \A w \in RoomWorkers : W[w].pc # "idle" /\ W[w].d = d => <<w, W[w].o[1]>> \in H
  BY <1>1
<1>5. S.pc # "idle" /\ S.d = d => <<Unlocked, S.zone>> \in H
  BY <1>1
<1>6. Y.d = d /\ (S.pc = "idle" \/ S.d # d) => <<NoDevice, Y.o[1]>> \in H
  BY <1>1
<1>7. \A w \in RoomWorkers : w # Unlocked /\ w # NoDevice
  BY RoomsAssumption
<1>8. Unlocked # NoDevice
  BY RoomsAssumption
<1>9. \A v \in RoomWorkers : W[v].pc \in RemoveSteps => W[v].o[1] \in R
  OBVIOUS
<1>10. \A h \in H : h[2] \notin R
  OBVIOUS
<1> HIDE DEF A, B, V, R
<1>11. OneHandlerOf(W, S, Y, d)
  BY <1>3, <1>4, <1>5, <1>6, <1>7, <1>8 DEF OneHandlerOf
<1>12. NotRemovedOf(W, S, d)
  BY <1>4, <1>5, <1>6, <1>9, <1>10 DEF NotRemovedOf
<1> QED BY <1>11, <1>12

(* No device that is not excused has two handlers now, or in the next state. *)
LEMMA Single ==
  ASSUME NEW d \in RoomDevices, ~Overlap(d)
  PROVE  OneHandler(d) /\ NotRemoved(d)
<1>1. /\ ~(Cardinality(Handled(d)) > 1)
      /\ \A h \in Handled(d) : h[2] \notin Removed
  BY DEF Overlap
<1> QED BY <1>1, SingleOf DEF Handled, Removed, OneHandler, NotRemoved

(* The same of the next state. *)
LEMMA SingleNext ==
  ASSUME NEW d \in RoomDevices, ~Overlap(d)'
  PROVE  OneHandler(d)' /\ NotRemoved(d)'
<1>1. /\ ~(Cardinality(Handled(d)') > 1)
      /\ \A h \in Handled(d)' : h[2] \notin Removed'
  BY DEF Overlap
<1> QED BY <1>1, SingleOf DEF Handled, Removed, OneHandler, NotRemoved

-----------------------------------------------------------------------------
(* Where the devices are                                                   *)

Holds(w, d, steps) == worker[w].d = d /\ worker[w].pc \in steps
(* the scanner has found the device and its room; it has taken the device  *)
(* out of its old room                                                     *)
InHand(d) == scan.d = d /\ scan.pc \in {"detach", "find2", "attach"}
Loose(d)  == scan.d = d /\ scan.pc \in {"find2", "attach"}
In(d, o)  == d \in room[o].members

(* A device is in the list of the room of its m_ZoneID and in no other     *)
ListedOK(d) ==
  \A o \in Objects :
    In(d, o) <=> /\ device[d].known /\ ~Loose(d)
                 /\ device[d].zone # NoRoom /\ o = Object(device[d].zone)
HomeOK(d) ==
  /\ device[d].known => \/ device[d].zone \in live
                        \/ InHand(d) /\ ~Loose(d) /\ device[d].zone = NoRoom
  /\ device[d].present => device[d].zone # NoRoom
(* What the scanner and the requests have looked up still is so            *)
BroughtOK(d) ==
  /\ InHand(d) => device[d].known /\ scan.zone \in live /\ scan.o = Object(scan.zone)
  /\ Loose(d) => device[d].zone = scan.zone
  /\ InHand(d) /\ ~Loose(d) => scan.old = IF device[d].zone = NoRoom THEN Nowhere
                                          ELSE Object(device[d].zone)
MovedBy(w, d) ==
  /\ Holds(w, d, MoveSteps) =>
       device[d].known /\ worker[w].o[1] \in live /\ worker[w].o = Object(worker[w].o[1])
  /\ Holds(w, d, {"move", "setZone", "enter"}) => device[d].zone # worker[w].o[1]
  /\ Holds(w, d, {"setZone", "enter"}) => worker[w].oldZoneID = device[d].zone
  /\ Holds(w, d, DeleteSteps) => device[d].known /\ ~device[d].present
(* A room that is being removed is no device's room                        *)
EmptiedBy(w, d) == worker[w].pc \in RemoveSteps /\ device[d].known => device[d].zone # worker[w].o[1]
PlaceOK(d) ==
  /\ ListedOK(d) /\ HomeOK(d) /\ BroughtOK(d)
  /\ \A w \in RoomWorkers : MovedBy(w, d) /\ EmptiedBy(w, d)

(* A step that does nothing to a device, and one that starts nothing with it *)
Kept(d) ==
  /\ \A o \in Objects : In(d, o)' <=> In(d, o)
  /\ device'[d].known = device[d].known /\ device'[d].zone = device[d].zone
  /\ device'[d].present => device[d].present
  /\ \A z \in live : /\ allocs'[z] = allocs[z]
                     /\ \/ z \in live'
                        \/ \E v \in RoomWorkers : worker[v].pc = "erase" /\ worker[v].o[1] = z
  /\ scan' = scan \/ (~InHand(d) /\ ~InHand(d)')
KeptBy(w, d) ==
  /\ Holds(w, d, MoveSteps)' => Holds(w, d, MoveSteps) /\ worker'[w].o = worker[w].o
  /\ Holds(w, d, {"move", "setZone", "enter"})' => Holds(w, d, {"move", "setZone", "enter"})
  /\ Holds(w, d, {"setZone", "enter"})' =>
       \/ Holds(w, d, {"setZone", "enter"}) /\ worker'[w].oldZoneID = worker[w].oldZoneID
       \/ Holds(w, d, {"move"}) /\ worker'[w].oldZoneID = device[d].zone
  /\ Holds(w, d, DeleteSteps)' => Holds(w, d, DeleteSteps)
  /\ worker'[w].pc \in RemoveSteps => worker[w].pc \in RemoveSteps /\ worker'[w].o = worker[w].o

(* A device that nothing is done to stays where it is. *)
LEMMA PlaceKept ==
  ASSUME RoomShapeOK, NEW d \in RoomDevices, PlaceOK(d), NotRemoved(d), Kept(d)
  PROVE  /\ ListedOK(d)' /\ HomeOK(d)' /\ BroughtOK(d)'
         /\ \A w \in RoomWorkers : KeptBy(w, d) => MovedBy(w, d)' /\ EmptiedBy(w, d)'
<1>1. \A z \in live : allocs'[z] = allocs[z]
  BY DEF Kept
<1>2. /\ InHand(d)' <=> InHand(d)
      /\ Loose(d)' <=> Loose(d)
      /\ InHand(d) => scan' = scan
  BY DEF Kept, InHand, Loose
<1>3. device[d].known => \/ device[d].zone \in live /\ device[d].zone \in live'
                         \/ InHand(d) /\ ~Loose(d) /\ device[d].zone = NoRoom
  BY DEF Kept, PlaceOK, HomeOK, EmptiedBy, RemoveSteps
<1>4. InHand(d) => scan.zone \in live'
  BY DEF Kept, PlaceOK, BroughtOK, InHand, NotRemoved, NotRemovedOf, RemoveSteps
<1>5. \A w \in RoomWorkers : Holds(w, d, MoveSteps) => worker[w].o[1] \in live'
  BY DEF Kept, PlaceOK, MovedBy, Holds, MoveSteps, NotRemoved, NotRemovedOf, RemoveSteps
<1>6. ListedOK(d)'
  BY <1>1, <1>2, <1>3 DEF Kept, PlaceOK, ListedOK, Object
<1>7. HomeOK(d)'
  BY <1>2, <1>3 DEF Kept, PlaceOK, HomeOK
<1>8. BroughtOK(d)'
  <2>1. CASE InHand(d)
    <3>1. /\ device[d].known /\ scan.zone \in live /\ scan.o = Object(scan.zone)
          /\ Loose(d) => device[d].zone = scan.zone
          /\ ~Loose(d) => scan.old = IF device[d].zone = NoRoom THEN Nowhere ELSE Object(device[d].zone)
      BY <2>1 DEF PlaceOK, BroughtOK
    <3>2. /\ scan' = scan /\ allocs'[scan.zone] = allocs[scan.zone]
          /\ device'[d].zone = device[d].zone /\ device'[d].known
      BY <1>1, <1>2, <2>1, <3>1 DEF Kept
    <3>3. device[d].zone # NoRoom => allocs'[device[d].zone] = allocs[device[d].zone]
      BY <1>1, <1>3, <3>1
    <3>5. /\ InHand(d)' => device'[d].known /\ scan'.zone \in live' /\ scan'.o = Object(scan.zone)'
          /\ Loose(d)' => device'[d].zone = scan'.zone
          /\ InHand(d)' /\ ~Loose(d)' => scan'.old = IF device'[d].zone = NoRoom THEN Nowhere
                                                     ELSE Object(device[d].zone)'
      BY <1>2, <1>4, <2>1, <3>1, <3>2, <3>3 DEF Object
    <3> QED BY <3>5 DEF BroughtOK
  <2>2. CASE ~InHand(d)
    BY <1>2, <2>2 DEF BroughtOK, InHand, Loose
  <2> QED BY <2>1, <2>2
<1>9. ASSUME NEW w \in RoomWorkers, KeptBy(w, d) PROVE MovedBy(w, d)'
  <2>1. Holds(w, d, MoveSteps)' =>
          device'[d].known /\ worker'[w].o[1] \in live' /\ worker'[w].o = Object(worker[w].o[1])'
    <3>1. SUFFICES ASSUME Holds(w, d, MoveSteps)'
          PROVE device'[d].known /\ worker'[w].o[1] \in live' /\ worker'[w].o = Object(worker[w].o[1])'
      OBVIOUS
    <3>2. Holds(w, d, MoveSteps) /\ worker'[w].o = worker[w].o
      BY <1>9, <3>1 DEF KeptBy
    <3>3. device[d].known /\ worker[w].o[1] \in live /\ worker[w].o = Object(worker[w].o[1])
      BY <3>2 DEF PlaceOK, MovedBy
    <3> QED BY <1>1, <1>5, <3>2, <3>3 DEF Kept, Object
  <2>2. Holds(w, d, {"move", "setZone", "enter"})' => device'[d].zone # worker'[w].o[1]
    <3>1. Holds(w, d, {"move", "setZone", "enter"})' => Holds(w, d, MoveSteps)'
      BY DEF Holds, MoveSteps
    <3> QED BY <1>9, <3>1 DEF Kept, KeptBy, PlaceOK, MovedBy
  <2>3. Holds(w, d, {"setZone", "enter"})' => worker'[w].oldZoneID = device'[d].zone
    BY <1>9 DEF Kept, KeptBy, PlaceOK, MovedBy
  <2>4. Holds(w, d, DeleteSteps)' => device'[d].known /\ ~device'[d].present
    BY <1>9 DEF Kept, KeptBy, PlaceOK, MovedBy
  <2> QED BY <2>1, <2>2, <2>3, <2>4 DEF MovedBy
<1>10. ASSUME NEW w \in RoomWorkers, KeptBy(w, d) PROVE EmptiedBy(w, d)'
  BY <1>10 DEF Kept, KeptBy, PlaceOK, EmptiedBy
<1> QED BY <1>6, <1>7, <1>8, <1>9, <1>10

(* A web thread that goes on with a device does not begin something with it. *)
LEMMA GoesOn ==
  ASSUME RoomShapeOK, NEW w \in RoomWorkers, WorkersMove(w), ~Starts(w), NEW d \in RoomDevices
  PROVE  \A v \in RoomWorkers : KeptBy(v, d)
<1> USE DEF MoveSteps, RemoveSteps, DeleteSteps
<1>1. ASSUME NEW v \in RoomWorkers \ {w} PROVE KeptBy(v, d)
  BY <1>1 DEF WorkersMove, KeptBy, Holds
<1>2. CASE Advances(w)
  <2>1. Holds(w, d, MoveSteps)' => Holds(w, d, MoveSteps) /\ worker'[w].o = worker[w].o
    BY <1>2 DEF Advances, PcOrder, Holds
  <2>2. Holds(w, d, {"move", "setZone", "enter"})' => Holds(w, d, {"move", "setZone", "enter"})
    BY <1>2 DEF Advances, PcOrder, Holds
  <2>3. Holds(w, d, {"setZone", "enter"})' =>
          \/ Holds(w, d, {"setZone", "enter"}) /\ worker'[w].oldZoneID = worker[w].oldZoneID
          \/ Holds(w, d, {"move"}) /\ worker'[w].oldZoneID = device[d].zone
    BY <1>2 DEF Advances, PcOrder, Holds
  <2>4. Holds(w, d, DeleteSteps)' => Holds(w, d, DeleteSteps)
    BY <1>2 DEF Advances, PcOrder, Holds
  <2>5. worker'[w].pc \in RemoveSteps => worker[w].pc \in RemoveSteps /\ worker'[w].o = worker[w].o
    BY <1>2 DEF Advances, PcOrder
  <2> QED BY <1>1, <2>1, <2>2, <2>3, <2>4, <2>5 DEF KeptBy
<1>3. CASE Ends(w)
  BY <1>1, <1>3 DEF Ends, IdleWorker, KeptBy, Holds
<1> QED BY <1>2, <1>3 DEF WorkersMove

(* A web thread keeps the device in its room, or takes it to another one. *)
LEMMA WorkerPlace ==
  ASSUME RoomShapeOK, NEW w \in RoomWorkers, WorkerActs(w), NEW d \in RoomDevices, PlaceOK(d),
         OneHandler(d), NotRemoved(d), NotRemoved(d)'
  PROVE  PlaceOK(d)'
<1>1. WorkersMove(w) /\ RoomsChange(w) /\ WorkersRest(w)
  BY WorkerControl, WorkerRooms, WorkerRest
<1>2. CASE worker[w].pc \notin {"enter", "delete"} \/ worker[w].d # d
  <2>1. device'[d] = device[d] /\ \A o \in Objects : In(d, o)' <=> In(d, o)
    BY <1>1, <1>2, WorkerDevices DEF RoomsChange, In
  <2>2. Kept(d)
    BY <1>1, <2>1 DEF WorkersRest, Kept
  <2>3. CASE ~Starts(w)
    BY <1>1, <2>2, <2>3, GoesOn, PlaceKept DEF PlaceOK
  <2>4. CASE Starts(w)
    <3> USE DEF MoveSteps, RemoveSteps, DeleteSteps
    <3>1. \A v \in RoomWorkers \ {w} : KeptBy(v, d)
      BY <1>1 DEF WorkersMove, KeptBy, Holds
    <3>2. /\ ListedOK(d)' /\ HomeOK(d)' /\ BroughtOK(d)'
          /\ \A v \in RoomWorkers \ {w} : MovedBy(v, d)' /\ EmptiedBy(v, d)'
      BY <2>2, <3>1, PlaceKept
    <3>3. live' = live /\ allocs' = allocs /\ scan' = scan
      BY <1>1, <2>4 DEF Starts, WorkersRest
    <3>4. MovedBy(w, d)'
      BY <2>1, <2>4, <3>3 DEF Starts, MovedBy, Holds, Object
    <3>5. EmptiedBy(w, d)'
      <4>1. SUFFICES ASSUME worker'[w].pc \in RemoveSteps, device[d].known, device[d].zone = worker'[w].o[1]
                     PROVE FALSE
        BY <2>1 DEF EmptiedBy
      <4>2. /\ worker'[w].o[1] \in live /\ worker'[w].o = Object(worker'[w].o[1])
            /\ room[worker'[w].o].members = {}
        BY <2>4, <4>1 DEF Starts
      <4>3. worker'[w].o \in Objects /\ device[d].zone # NoRoom
        BY <4>1, <4>2, ObjectFacts, RoomsAssumption DEF RoomShapeOK, RoomsTypeOK
      <4>4. ~In(d, worker'[w].o) /\ worker'[w].o = Object(device[d].zone)
        BY <4>1, <4>2 DEF In
      <4>5. Loose(d)
        BY <4>1, <4>3, <4>4 DEF PlaceOK, ListedOK
      <4>6. device[d].zone = scan.zone /\ scan.pc # "idle" /\ scan.d = d
        BY <4>5 DEF PlaceOK, BroughtOK, Loose
      <4>7. scan'.zone # worker'[w].o[1]
        BY <3>3, <4>1, <4>6 DEF NotRemoved, NotRemovedOf
      <4> QED BY <3>3, <4>1, <4>6, <4>7
    <3> QED BY <3>2, <3>4, <3>5 DEF PlaceOK
  <2> QED BY <2>3, <2>4
<1>3. ASSUME worker[w].pc \in {"enter", "delete"}, worker[w].d = d
      PROVE  /\ device[d].known /\ device[d].zone \in live /\ device[d].zone # NoRoom
             /\ \A p \in Objects : In(d, p) <=> p = Object(device[d].zone)
             /\ ~InHand(d)' /\ ~Loose(d)' /\ live' = live /\ allocs' = allocs
             /\ \A v \in RoomWorkers \ {w} : worker'[v] = worker[v] /\ (worker[v].pc # "idle" => worker[v].d # d)
  <2>1. ~InHand(d) /\ ~Loose(d)
    BY <1>3 DEF OneHandler, OneHandlerOf, InHand, Loose
  <2>2. device[d].known
    BY <1>3 DEF PlaceOK, MovedBy, Holds, MoveSteps, DeleteSteps
  <2>3. device[d].zone \in live /\ device[d].zone # NoRoom
    BY <2>1, <2>2, RoomsAssumption DEF PlaceOK, HomeOK, RoomShapeOK, RoomsTypeOK
  <2>4. scan' = scan /\ live' = live /\ allocs' = allocs
    BY <1>1, <1>3 DEF WorkersRest
  <2>5. \A v \in RoomWorkers \ {w} : worker'[v] = worker[v] /\ (worker[v].pc # "idle" => worker[v].d # d)
    BY <1>1, <1>3 DEF WorkersMove, OneHandler, OneHandlerOf
  <2> QED BY <2>1, <2>2, <2>3, <2>4, <2>5 DEF PlaceOK, ListedOK, InHand, Loose
<1>4. CASE worker[w].pc = "enter" /\ worker[w].d = d
  <2> DEFINE o == worker[w].o
  <2>1. /\ o \in Objects /\ o[1] \in live /\ o = Object(o[1]) /\ device[d].zone # o[1]
        /\ worker[w].oldZoneID = device[d].zone
    BY <1>4 DEF PlaceOK, MovedBy, Holds, MoveSteps, RoomShapeOK
  <2>2. /\ device'[d].zone = o[1] /\ device'[d].known /\ worker'[w].pc = "reset"
        /\ \A p \in Objects : In(d, p)' <=>
             /\ p = o \/ (p # Lookup(o[1]) /\ In(d, p))
             /\ p # Object(device[d].zone)
    BY <1>3, <1>4, <2>1, EnterEffect DEF In
  <2>3. o # Object(device[d].zone)
    BY <2>1 DEF Object
  <2>4. \A p \in Objects : In(d, p)' <=> p = o
    BY <1>3, <1>4, <2>2, <2>3
  <2>5. o[1] # NoRoom
    BY <2>1, RoomsAssumption DEF RoomShapeOK, RoomsTypeOK
  <2>6. worker'[w].o = o /\ worker'[w].d = d
    BY <1>1, <1>4, <2>2 DEF WorkersMove, Starts, Advances, Ends, IdleWorker
  <2> HIDE DEF o
  <2>7. ListedOK(d)'
    BY <1>3, <1>4, <2>1, <2>2, <2>4, <2>5 DEF ListedOK, Object
  <2>8. HomeOK(d)' /\ BroughtOK(d)'
    BY <1>3, <1>4, <2>1, <2>2, <2>5 DEF HomeOK, BroughtOK, InHand, Loose
  <2>9. ASSUME NEW v \in RoomWorkers PROVE MovedBy(v, d)' /\ EmptiedBy(v, d)'
    <3>1. CASE v = w
      BY <1>3, <1>4, <2>1, <2>2, <2>6, <3>1 DEF MovedBy, EmptiedBy, Holds, MoveSteps, DeleteSteps, RemoveSteps, Object
    <3>2. CASE v # w
      <4>1. worker'[v] = worker[v] /\ (worker[v].pc # "idle" => worker[v].d # d)
        BY <1>3, <1>4, <3>2
      <4>2. worker[v].pc \in RemoveSteps => o[1] # worker[v].o[1]
        BY <1>4 DEF NotRemoved, NotRemovedOf, o
      <4> QED BY <2>2, <4>1, <4>2 DEF MovedBy, EmptiedBy, Holds, MoveSteps, DeleteSteps
    <3> QED BY <3>1, <3>2
  <2> QED BY <2>7, <2>8, <2>9 DEF PlaceOK
<1>5. CASE worker[w].pc = "delete" /\ worker[w].d = d
  <2>1. ~device[d].present
    BY <1>5 DEF PlaceOK, MovedBy, Holds, DeleteSteps
  <2>2. ~device'[d].known /\ ~device'[d].present /\ \A p \in Objects : ~In(d, p)'
    BY <1>3, <1>5, <2>1, DeleteEffect DEF In
  <2>3. worker'[w].pc = "idle"
    BY <1>1, <1>5 DEF WorkersMove, Starts, Advances, PcOrder, Ends, IdleWorker
  <2>4. ListedOK(d)' /\ HomeOK(d)' /\ BroughtOK(d)'
    BY <1>3, <1>5, <2>2 DEF ListedOK, HomeOK, BroughtOK, InHand, Loose
  <2>5. ASSUME NEW v \in RoomWorkers PROVE MovedBy(v, d)' /\ EmptiedBy(v, d)'
    <3>1. worker'[v].pc # "idle" => worker'[v].d # d
      BY <1>3, <1>5, <2>3
    <3> QED BY <2>2, <3>1 DEF MovedBy, EmptiedBy, Holds, MoveSteps, DeleteSteps
  <2> QED BY <2>4, <2>5 DEF PlaceOK
<1> QED BY <1>2, <1>4, <1>5

(* Inputs leave the devices where they are. *)
LEMMA InputPlace ==
  ASSUME RoomShapeOK, InputActs, NEW d \in RoomDevices, PlaceOK(d), NotRemoved(d)
  PROVE  PlaceOK(d)'
<1>1. InputsChange
  BY InputEffect
<1>2. Kept(d)
  <2>1. \A z \in live : allocs'[z] = allocs[z] /\ z \in live'
    BY <1>1 DEF InputsChange, RoomShapeOK, RoomsTypeOK
  <2> QED BY <1>1, <2>1 DEF InputsChange, Kept, In
<1>3. \A w \in RoomWorkers : KeptBy(w, d)
  BY <1>1 DEF InputsChange, KeptBy, Holds
<1> QED BY <1>2, <1>3, PlaceKept DEF PlaceOK

(* The assignment of sensors leaves the devices where they are. *)
LEMMA SyncPlace ==
  ASSUME RoomShapeOK, SyncActs, NEW d \in RoomDevices, PlaceOK(d), NotRemoved(d)
  PROVE  PlaceOK(d)'
<1>1. SyncsChange
  BY SyncEffect
<1>2. Kept(d)
  BY <1>1 DEF SyncsChange, Kept, In
<1>3. \A w \in RoomWorkers : KeptBy(w, d)
  BY <1>1 DEF SyncsChange, KeptBy, Holds
<1> QED BY <1>2, <1>3, PlaceKept DEF PlaceOK

(* A device that the scanner handles and no request *)
Scanned(d) ==
  /\ \A w \in RoomWorkers : worker'[w] = worker[w] /\ (worker[w].pc # "idle" => worker[w].d # d)
  /\ \A w \in RoomWorkers : worker[w].pc \in RemoveSteps =>
       worker[w].o[1] # NoRoom /\ worker[w].o[1] # scan.zone

(* No request moves a device that the scanner has, or removes its room. *)
LEMMA ScannedBy ==
  ASSUME NEW d \in RoomDevices, Scanned(d)
  PROVE  \A w \in RoomWorkers :
           /\ MovedBy(w, d)'
           /\ device'[d].zone \in {NoRoom, scan.zone} => EmptiedBy(w, d)'
BY DEF Scanned, MovedBy, EmptiedBy, Holds, MoveSteps, DeleteSteps

(* The scanner takes a device out of its room and puts it into another. *)
LEMMA ScanPlace ==
  ASSUME RoomShapeOK, AllocsOK, ScanActs, NEW d \in RoomDevices, PlaceOK(d), OneHandler(d), NotRemoved(d)
  PROVE  PlaceOK(d)'
<1>0. ScansKeep
  BY LostEffect, NewEffect, FindEffect, DetachEffect, FindAgainEffect, AttachEffect, ChooseEffect, SetEffect
  DEF ScanActs
<1>1. ASSUME Kept(d) PROVE PlaceOK(d)'
  <2>1. \A w \in RoomWorkers : KeptBy(w, d)
    BY <1>0 DEF ScansKeep, KeptBy, Holds
  <2> QED BY <1>1, <2>1, PlaceKept DEF PlaceOK
<1>2. scan.pc # "idle" /\ scan.d = d => Scanned(d)
  BY <1>0, RoomsAssumption
  DEF Scanned, ScansKeep, OneHandler, OneHandlerOf, NotRemoved, NotRemovedOf, RoomShapeOK, Objects, RemoveSteps
<1>3. allocs \in [RoomIds -> 1 .. MaxAllocs] /\ live \subseteq RoomIds /\ NoRoom \notin RoomIds
  BY RoomsAssumption DEF RoomShapeOK, RoomsTypeOK
<1>4. CASE onRemoveDevice
  <2>1. Kept(d)
    BY <1>4, LostEffect DEF Kept, In
  <2> QED BY <1>1, <2>1
<1>5. CASE onAddDevice
  <2>1. Kept(d)
    BY <1>5, NewEffect DEF Kept, In, InHand
  <2> QED BY <1>1, <2>1
<1>6. CASE AssignNew
  <2>1. Kept(d)
    BY <1>6, ChooseEffect DEF Kept, In, InHand
  <2> QED BY <1>1, <2>1
<1>7. CASE SetNew
  <2>1. Kept(d)
    BY <1>7, SetEffect DEF Kept, In, InHand
  <2> QED BY <1>1, <2>1
<1>8. CASE FindRoom
  <2>1. /\ room' = room /\ scan.pc = "find" /\ scan'.d = scan.d /\ scan'.zone = scan.zone
        /\ scan'.o = Object(scan.zone)' /\ scan'.pc \in {"assign", "detach"}
        /\ scan'.pc = "assign" => device[scan.d].known
        /\ scan'.old = IF device[scan.d].known THEN Lookup(device[scan.d].zone) ELSE Nowhere
        /\ \A e \in RoomDevices \ {scan.d} : device'[e] = device[e]
        /\ IF device[scan.d].known THEN device' = device
           ELSE device'[scan.d] = [known |-> TRUE, zone |-> NoRoom, present |-> FALSE]
    BY <1>8, FindEffect
  <2>2. scan.zone \in live' /\ \A z \in live : allocs'[z] = allocs[z] /\ z \in live'
    BY <1>3, <1>8, FindEffect
  <2>3. ~InHand(d) /\ ~Loose(d) /\ ~Loose(d)' /\ (InHand(d)' <=> scan.d = d /\ scan'.pc = "detach")
    BY <2>1 DEF InHand, Loose
  <2>4. CASE ~InHand(d)'
    <3>1. device'[d] = device[d]
      BY <2>1, <2>3, <2>4
    <3>2. Kept(d)
      BY <2>1, <2>2, <2>3, <2>4, <3>1 DEF Kept, In
    <3> QED BY <1>1, <3>2
  <2>5. CASE InHand(d)' /\ device[d].known
    <3>1. device' = device /\ device[d].zone \in live
      BY <2>1, <2>3, <2>5 DEF PlaceOK, HomeOK
    <3>2. /\ device[d].zone # NoRoom /\ Object(device[d].zone)' = Object(device[d].zone)
          /\ scan'.old = Object(device[d].zone)
      BY <1>3, <2>1, <2>2, <2>3, <2>5, <3>1 DEF Object, Lookup
    <3>3. ListedOK(d)'
      BY <2>1, <2>3, <3>1, <3>2 DEF PlaceOK, ListedOK, In
    <3>4. HomeOK(d)' /\ BroughtOK(d)'
      BY <2>1, <2>2, <2>3, <2>5, <3>1, <3>2 DEF PlaceOK, HomeOK, BroughtOK, Object
    <3>5. \A w \in RoomWorkers : MovedBy(w, d)' /\ EmptiedBy(w, d)'
      <4>1. Scanned(d)
        BY <1>2, <2>1, <2>3, <2>5
      <4>2. \A w \in RoomWorkers : EmptiedBy(w, d)'
        BY <3>1, <4>1 DEF PlaceOK, EmptiedBy, Scanned
      <4> QED BY <4>1, <4>2, ScannedBy
    <3> QED BY <3>3, <3>4, <3>5 DEF PlaceOK
  <2>6. CASE InHand(d)' /\ ~device[d].known
    <3>1. /\ device'[d].known /\ device'[d].zone = NoRoom /\ ~device'[d].present
          /\ scan.d = d /\ scan'.pc = "detach" /\ scan'.old = Nowhere
      BY <2>1, <2>3, <2>6
    <3>2. ListedOK(d)' /\ HomeOK(d)' /\ BroughtOK(d)'
      BY <2>1, <2>2, <2>3, <2>6, <3>1 DEF PlaceOK, ListedOK, HomeOK, BroughtOK, In, Object
    <3>3. \A w \in RoomWorkers : MovedBy(w, d)' /\ EmptiedBy(w, d)'
      BY <1>2, <2>1, <3>1, ScannedBy
    <3> QED BY <3>2, <3>3 DEF PlaceOK
  <2> QED BY <2>4, <2>5, <2>6
<1>9. CASE Detach
  <2>1. /\ live' = live /\ allocs' = allocs
        /\ scan.pc = "detach" /\ scan'.pc = "find2" /\ scan'.d = scan.d /\ scan'.zone = scan.zone
        /\ scan'.o = scan.o
        /\ \A e \in RoomDevices \ {scan.d} : device'[e] = device[e]
        /\ device'[scan.d].known = device[scan.d].known /\ device'[scan.d].present = device[scan.d].present
        /\ device'[scan.d].zone = scan.zone
        /\ \A p \in Objects : In(d, p)' <=> In(d, p) /\ (p # scan.old \/ d # scan.d)
    BY <1>9, DetachEffect DEF In
  <2>2. CASE scan.d # d
    <3>1. Kept(d)
      BY <2>1, <2>2 DEF Kept, InHand
    <3> QED BY <1>1, <3>1
  <2>3. CASE scan.d = d
    <3>1. InHand(d) /\ ~Loose(d) /\ InHand(d)' /\ Loose(d)'
      BY <2>1, <2>3 DEF InHand, Loose
    <3>2. /\ device[d].known /\ scan.zone \in live /\ scan.o = Object(scan.zone)
          /\ device[d].zone # NoRoom => scan.old = Object(device[d].zone)
      BY <3>1 DEF PlaceOK, BroughtOK
    <3>3. \A p \in Objects : ~In(d, p)'
      BY <2>1, <2>3, <3>1, <3>2 DEF PlaceOK, ListedOK
    <3>4. ListedOK(d)' /\ HomeOK(d)' /\ BroughtOK(d)'
      BY <1>3, <2>1, <2>3, <3>1, <3>2, <3>3 DEF ListedOK, HomeOK, BroughtOK, Object
    <3>5. \A w \in RoomWorkers : MovedBy(w, d)' /\ EmptiedBy(w, d)'
      BY <1>2, <2>1, <2>3, ScannedBy
    <3> QED BY <3>4, <3>5 DEF PlaceOK
  <2> QED BY <2>2, <2>3
<1>10. CASE FindAgain
  <2>1. /\ live' = live /\ allocs' = allocs /\ device' = device
        /\ scan.pc = "find2" /\ scan'.d = scan.d /\ scan'.zone = scan.zone /\ scan'.o = scan.o
        /\ scan'.pc = IF device[scan.d].known THEN "attach" ELSE "assign"
        /\ \A p \in Objects : In(d, p)' <=> In(d, p)
    BY <1>10, FindAgainEffect DEF In
  <2>2. CASE scan.d # d
    <3>1. Kept(d)
      BY <2>1, <2>2 DEF Kept, InHand
    <3> QED BY <1>1, <3>1
  <2>3. CASE scan.d = d
    <3>1. InHand(d) /\ Loose(d)
      BY <2>1, <2>3 DEF InHand, Loose
    <3>2. device[d].known /\ scan.zone \in live /\ scan.o = Object(scan.zone) /\ device[d].zone = scan.zone
      BY <3>1 DEF PlaceOK, BroughtOK
    <3>3. InHand(d)' /\ Loose(d)'
      BY <2>1, <2>3, <3>2 DEF InHand, Loose
    <3>4. ListedOK(d)' /\ HomeOK(d)' /\ BroughtOK(d)'
      BY <1>3, <2>1, <2>3, <3>1, <3>2, <3>3 DEF PlaceOK, ListedOK, HomeOK, BroughtOK, Object
    <3>5. \A w \in RoomWorkers : MovedBy(w, d)' /\ EmptiedBy(w, d)'
      BY <1>2, <2>1, <2>3, <3>2, ScannedBy
    <3> QED BY <3>4, <3>5 DEF PlaceOK
  <2> QED BY <2>2, <2>3
<1>11. CASE Attach
  <2>1. /\ live' = live /\ allocs' = allocs
        /\ scan.pc = "attach" /\ scan'.pc = "assign" /\ scan'.d = scan.d
        /\ \A e \in RoomDevices \ {scan.d} : device'[e] = device[e]
        /\ device[scan.d].known => device'[scan.d].known /\ device'[scan.d].zone = scan.zone
        /\ \A p \in Objects : In(d, p)' <=>
             \/ p = scan.o /\ d = scan.d
             \/ In(d, p) /\ (p = scan.o \/ p # scan.old \/ d # scan.d)
    BY <1>11, AttachEffect DEF In
  <2>2. CASE scan.d # d
    <3>1. Kept(d)
      BY <2>1, <2>2 DEF Kept, InHand
    <3> QED BY <1>1, <3>1
  <2>3. CASE scan.d = d
    <3>1. InHand(d) /\ Loose(d) /\ ~InHand(d)' /\ ~Loose(d)'
      BY <2>1, <2>3 DEF InHand, Loose
    <3>2. device[d].known /\ scan.zone \in live /\ scan.o = Object(scan.zone)
      BY <3>1 DEF PlaceOK, BroughtOK
    <3>3. /\ device'[d].known /\ device'[d].zone = scan.zone /\ scan.zone # NoRoom
          /\ \A p \in Objects : In(d, p)' <=> p = Object(scan.zone)
      BY <1>3, <2>1, <2>3, <3>1, <3>2 DEF PlaceOK, ListedOK
    <3>4. ListedOK(d)' /\ HomeOK(d)' /\ BroughtOK(d)'
      BY <2>1, <3>1, <3>2, <3>3 DEF ListedOK, HomeOK, BroughtOK, Object
    <3>5. \A w \in RoomWorkers : MovedBy(w, d)' /\ EmptiedBy(w, d)'
      BY <1>2, <2>1, <2>3, <3>3, ScannedBy
    <3> QED BY <3>4, <3>5 DEF PlaceOK
  <2> QED BY <2>2, <2>3
<1> QED BY <1>4, <1>5, <1>6, <1>7, <1>8, <1>9, <1>10, <1>11 DEF ScanActs

(* Every step keeps the place of a device that one thread at most handles. *)
LEMMA PlaceStep ==
  ASSUME RoomShapeOK, AllocsOK, [RoomsNext]_roomVars, NEW d \in RoomDevices, PlaceOK(d),
         OneHandler(d), NotRemoved(d), NotRemoved(d)'
  PROVE  PlaceOK(d)'
<1>1. CASE UNCHANGED roomVars
  BY <1>1 DEF roomVars, PlaceOK, ListedOK, HomeOK, BroughtOK, MovedBy, EmptiedBy, In, InHand, Loose, Holds, Object
<1> QED BY <1>1, RoomsSteps, WorkerPlace, InputPlace, ScanPlace, SyncPlace

-----------------------------------------------------------------------------
(* The room the dSM has a device in                                        *)

Entering(d) == \E w \in RoomWorkers : Holds(w, d, {"enter"})
Read(d)     == scan.d = d /\ scan.pc \in {"find", "detach", "find2", "attach"}
(* A sensor of the device has been chosen for a room and is not set yet    *)
ChosenBySync(d) == sync.d = d /\ sync.pc = "set"
ChosenByScan(d) == scan.d = d /\ scan.pc = "set"

DsmOK(d) ==
  /\ device[d].known /\ device[d].present /\ ~Entering(d) => dsm.zoneOf[d] = device[d].zone
  /\ \A w \in RoomWorkers : Holds(w, d, {"enter"}) => dsm.zoneOf[d] = worker[w].o[1]
  /\ Read(d) => dsm.zoneOf[d] = scan.zone
  /\ ChosenBySync(d) \/ ChosenByScan(d) => device[d].known /\ dsm.zoneOf[d] = device[d].zone

(* No call for the device fails in the step. *)
Undisturbed(d) ==
  roomFaults' = roomFaults \/ \A w \in RoomWorkers : worker[w].pc # "idle" => worker[w].d # d

(* What a device is brought to is a room. *)
LEMMA RoomFacts ==
  ASSUME RoomShapeOK, NEW d \in RoomDevices, PlaceOK(d)
  PROVE  /\ NoRoom \notin live /\ NoRoom \notin RoomIds
         /\ \A w \in RoomWorkers : Holds(w, d, {"enter"}) => worker[w].o[1] # NoRoom
         /\ Read(d) => scan.zone # NoRoom
         /\ device[d].known /\ device[d].zone = NoRoom => InHand(d) /\ ~Loose(d)
<1>1. NoRoom \notin live /\ NoRoom \notin RoomIds
  BY RoomsAssumption DEF RoomShapeOK, RoomsTypeOK
<1>2. \A w \in RoomWorkers : Holds(w, d, {"enter"}) => worker[w].o[1] # NoRoom
  BY <1>1 DEF PlaceOK, MovedBy, Holds, MoveSteps
<1>3. Read(d) => scan.zone # NoRoom
  BY <1>1 DEF RoomShapeOK, Read
<1>4. device[d].known /\ device[d].zone = NoRoom => InHand(d) /\ ~Loose(d)
  BY <1>1 DEF PlaceOK, HomeOK
<1> QED BY <1>1, <1>2, <1>3, <1>4

(* A device that a thread chooses for a sensor is where the dSM has it. *)
LEMMA CandidateFacts ==
  ASSUME NEW d \in RoomDevices, PlaceOK(d), NEW o \in Objects, d \in Candidates(o)
  PROVE  /\ In(d, o) /\ device[d].present /\ device[d].known
         /\ DsmOK(d) /\ ~Entering(d) => dsm.zoneOf[d] = device[d].zone
<1>1. In(d, o) /\ device[d].present
  BY DEF Candidates, In
<1>2. device[d].known
  BY <1>1 DEF PlaceOK, ListedOK
<1> QED BY <1>1, <1>2 DEF DsmOK

(* A web thread changes the room of the dSM with the room of the device. *)
LEMMA WorkerDsmStep ==
  ASSUME RoomShapeOK, NEW w \in RoomWorkers, WorkerActs(w), NEW d \in RoomDevices, PlaceOK(d), DsmOK(d),
         OneHandler(d), NotRemoved(d), Undisturbed(d)
  PROVE  DsmOK(d)'
<1>1. /\ WorkersMove(w) /\ DsmChange(w) /\ scan' = scan /\ sync' = sync
      /\ d # worker[w].d \/ worker[w].pc \notin {"enter", "delete"} => device'[d] = device[d]
  BY WorkerControl, WorkerDsm, WorkerRest, WorkerDevices DEF WorkersRest
<1>2. /\ Read(d)' <=> Read(d)
      /\ ChosenBySync(d)' <=> ChosenBySync(d)
      /\ ChosenByScan(d)' <=> ChosenByScan(d)
  BY <1>1 DEF Read, ChosenBySync, ChosenByScan
<1>3. \A v \in RoomWorkers \ {w} : worker'[v] = worker[v] /\ (Holds(v, d, {"enter"})' <=> Holds(v, d, {"enter"}))
  BY <1>1 DEF WorkersMove, Holds
<1>4. worker[w].d = d /\ worker[w].pc # "idle" =>
        /\ ~Read(d) /\ ~ChosenBySync(d) /\ ~ChosenByScan(d)
        /\ \A v \in RoomWorkers \ {w} : ~Holds(v, d, {"enter"})
  BY DEF OneHandler, OneHandlerOf, Read, ChosenBySync, ChosenByScan, Holds
<1>5. Holds(w, d, {"enter"})' => worker[w].pc = "setZone" /\ worker[w].d = d /\ worker'[w].o = worker[w].o
  BY <1>1 DEF WorkersMove, Starts, Advances, PcOrder, Ends, IdleWorker, Holds
<1>6. CASE worker[w].d = d /\ worker[w].pc \in {"enter", "delete"}
  <2>1. /\ dsm'.zoneOf[d] = dsm.zoneOf[d]
        /\ worker[w].pc = "enter" => device'[d].zone = worker[w].o[1]
        /\ worker[w].pc = "delete" => ~device'[d].known
    <3>1. dsm'.zoneOf[d] = dsm.zoneOf[d]
      BY <1>1, <1>6 DEF DsmChange
    <3>2. CASE worker[w].pc = "enter"
      BY <1>6, <3>1, <3>2, EnterEffect
    <3>3. CASE worker[w].pc = "delete"
      <4>1. device[d].known /\ ~InHand(d)
        BY <1>4, <1>6, <3>3 DEF PlaceOK, MovedBy, Holds, DeleteSteps, Read, InHand
      <4>2. device[d].zone \in live
        BY <4>1 DEF PlaceOK, HomeOK
      <4> QED BY <1>6, <3>1, <3>3, <4>1, <4>2, DeleteEffect
    <3> QED BY <1>6, <3>2, <3>3
  <2>2. worker[w].pc = "enter" => dsm.zoneOf[d] = worker[w].o[1]
    BY <1>6 DEF DsmOK, Holds
  <2>3. ~Entering(d)'
    BY <1>3, <1>4, <1>5, <1>6 DEF Entering
  <2> QED BY <1>2, <1>4, <1>6, <2>1, <2>2, <2>3 DEF DsmOK, Entering
<1>7. CASE worker[w].d = d /\ worker[w].pc = "setZone"
  <2>1. device'[d] = device[d] /\ (worker'[w].pc = "enter" => dsm'.zoneOf[d] = worker[w].o[1])
    BY <1>1, <1>7 DEF DsmChange
  <2>2. worker'[w].pc # "enter" => dsm'.zoneOf[d] = dsm.zoneOf[d]
    BY <1>1, <1>7 DEF DsmChange, Undisturbed
  <2>3. worker'[w].pc = "enter" => Holds(w, d, {"enter"})'
    BY <1>1, <1>7 DEF WorkersMove, Starts, Advances, Ends, IdleWorker, Holds
  <2>4. ~Entering(d) /\ (worker'[w].pc # "enter" => ~Entering(d)')
    BY <1>3, <1>4, <1>7 DEF Entering, Holds
  <2> QED BY <1>2, <1>3, <1>4, <1>5, <1>7, <2>1, <2>2, <2>3, <2>4 DEF DsmOK, Entering
<1>8. CASE worker[w].d # d \/ worker[w].pc \notin {"enter", "delete", "setZone"}
  <2>1. /\ device'[d] = device[d]
        /\ \A v \in RoomWorkers : Holds(v, d, {"enter"})' <=> Holds(v, d, {"enter"})
        /\ \A v \in RoomWorkers : Holds(v, d, {"enter"}) => worker'[v] = worker[v]
    <3>1. ~Holds(w, d, {"enter"})' /\ ~Holds(w, d, {"enter"})
      BY <1>5, <1>8 DEF Holds
    <3>2. device'[d] = device[d]
      BY <1>1, <1>8
    <3> QED BY <1>3, <3>1, <3>2
  <2>2. CASE dsm'.zoneOf[d] = dsm.zoneOf[d]
    BY <1>2, <1>1, <2>1, <2>2 DEF DsmOK, Entering
  <2>3. CASE worker[w].pc = "dsmDelete" /\ worker[w].d = d
    <3>1. ~device[d].present
      BY <2>3 DEF PlaceOK, MovedBy, Holds, DeleteSteps
    <3>2. ~Holds(w, d, {"enter"})
      BY <2>3 DEF Holds
    <3> QED BY <1>2, <1>4, <2>1, <2>3, <3>1, <3>2 DEF DsmOK
  <2>4. CASE worker[w].pc = "dsmRemove" /\ dsm.zoneOf[d] = worker[w].o[1]
    <3>1. device[d].known => device[d].zone # dsm.zoneOf[d]
      BY <2>4 DEF PlaceOK, EmptiedBy, RemoveSteps
    <3>2. \A v \in RoomWorkers : Holds(v, d, {"enter"}) => dsm.zoneOf[d] # worker[v].o[1]
      BY <2>4 DEF NotRemoved, NotRemovedOf, Holds, RemoveSteps
    <3>3. Read(d) => dsm.zoneOf[d] # scan.zone
      BY <2>4 DEF NotRemoved, NotRemovedOf, Read, RemoveSteps
    <3> QED BY <1>2, <2>1, <3>1, <3>2, <3>3 DEF DsmOK, Entering
  <2> QED BY <1>1, <1>8, <2>2, <2>3, <2>4 DEF DsmChange
<1> QED BY <1>6, <1>7, <1>8

(* Inputs give a room only to a device the dSM does not have. *)
LEMMA InputDsmStep ==
  ASSUME RoomShapeOK, InputActs, NEW d \in RoomDevices, PlaceOK(d), DsmOK(d)
  PROVE  DsmOK(d)'
<1>1. InputsChange
  BY InputEffect
<1>2. /\ Entering(d)' <=> Entering(d)
      /\ Read(d)' <=> Read(d)
      /\ ChosenBySync(d)' <=> ChosenBySync(d)
      /\ ChosenByScan(d)' <=> ChosenByScan(d)
      /\ \A w \in RoomWorkers : Holds(w, d, {"enter"})' <=> Holds(w, d, {"enter"})
  BY <1>1 DEF InputsChange, Entering, Read, ChosenBySync, ChosenByScan, Holds
<1>3. CASE dsm'.zoneOf[d] = dsm.zoneOf[d]
  BY <1>1, <1>2, <1>3 DEF InputsChange, DsmOK
<1>4. CASE dsm.zoneOf[d] = NoRoom
  <2>1. device[d].present => device[d].zone # NoRoom
    BY DEF PlaceOK, HomeOK
  <2>2. device[d].known /\ device[d].zone = NoRoom => Read(d)
    BY RoomFacts DEF InHand, Read
  <2>3. ~Read(d) /\ \A w \in RoomWorkers : ~Holds(w, d, {"enter"})
    BY <1>4, RoomFacts DEF DsmOK
  <2>4. device[d].known => device[d].zone # NoRoom
    BY <2>2, <2>3
  <2> QED BY <1>1, <1>2, <1>4, <2>1, <2>3, <2>4 DEF InputsChange, DsmOK, Entering
<1> QED BY <1>1, <1>3, <1>4 DEF InputsChange

(* The scanner brings a device to the room the dSM has it in. *)
LEMMA ScanDsmStep ==
  ASSUME RoomShapeOK, AllocsOK, ScanActs, NEW d \in RoomDevices, PlaceOK(d), DsmOK(d), OneHandler(d), OneHandler(d)'
  PROVE  DsmOK(d)'
<1>0. ScansKeep
  BY LostEffect, NewEffect, FindEffect, DetachEffect, FindAgainEffect, AttachEffect, ChooseEffect, SetEffect
  DEF ScanActs
<1>1. /\ dsm' = dsm /\ worker' = worker /\ sync' = sync
      /\ ChosenBySync(d)' <=> ChosenBySync(d)
      /\ Entering(d)' <=> Entering(d)
      /\ \A w \in RoomWorkers : Holds(w, d, {"enter"})' <=> Holds(w, d, {"enter"})
  BY <1>0 DEF ScansKeep, ChosenBySync, Entering, Holds
<1>2. ASSUME /\ device'[d].known = device[d].known /\ device'[d].zone = device[d].zone
             /\ device'[d].present => device[d].present,
             Read(d)' => Read(d) /\ scan'.zone = scan.zone,
             ~ChosenByScan(d)'
      PROVE  DsmOK(d)'
  BY <1>1, <1>2 DEF DsmOK
<1>3. CASE onRemoveDevice
  <2>1. scan' = scan /\ scan.pc = "idle"
    BY <1>3, LostEffect DEF onRemoveDevice
  <2> QED BY <1>2, <1>3, <2>1, LostEffect DEF Read, ChosenByScan
<1>4. CASE onAddDevice
  <2>1. /\ device' = device /\ scan.pc = "idle" /\ scan'.pc \in {"find", "assign"}
        /\ scan'.pc = "find" => scan'.zone = dsm.zoneOf[scan'.d]
    BY <1>4, NewEffect
  <2> QED BY <1>1, <2>1 DEF DsmOK, Read, ChosenByScan
<1>5. CASE AssignNew
  <2>1. /\ device' = device /\ scan'.pc \in {"idle", "set"}
        /\ scan'.pc = "set" => scan'.o \in Objects /\ scan'.d \in Candidates(scan'.o)
    BY <1>5, ChooseEffect
  <2>2. ~Read(d)'
    BY <2>1 DEF Read
  <2>3. CASE ChosenByScan(d)'
    <3>1. ~Entering(d)
      BY <1>1, <2>3 DEF OneHandler, OneHandlerOf, ChosenByScan, Entering, Holds
    <3>2. device[d].known /\ dsm.zoneOf[d] = device[d].zone
      BY <2>1, <2>3, <3>1, CandidateFacts DEF ChosenByScan
    <3> QED BY <1>1, <2>1, <2>2, <3>2 DEF DsmOK
  <2>4. CASE ~ChosenByScan(d)'
    BY <1>2, <2>1, <2>2, <2>4
  <2> QED BY <2>3, <2>4
<1>6. CASE SetNew
  <2>1. device' = device /\ scan'.pc = "idle"
    BY <1>6, SetEffect
  <2> QED BY <1>2, <2>1 DEF Read, ChosenByScan
<1>7. CASE FindRoom
  <2>1. /\ scan.pc = "find" /\ scan'.d = scan.d /\ scan'.zone = scan.zone /\ scan'.pc \in {"assign", "detach"}
        /\ \A e \in RoomDevices \ {scan.d} : device'[e] = device[e]
        /\ IF device[scan.d].known THEN device' = device
           ELSE device'[scan.d] = [known |-> TRUE, zone |-> NoRoom, present |-> FALSE]
    BY <1>7, FindEffect
  <2>2. (Read(d)' => Read(d)) /\ ~ChosenByScan(d)'
    BY <2>1 DEF Read, ChosenByScan
  <2>3. CASE device'[d] = device[d]
    BY <1>2, <2>1, <2>2, <2>3
  <2>4. CASE d = scan.d /\ ~device[d].known
    <3>1. ~device'[d].present /\ ~ChosenBySync(d)
      BY <2>1, <2>4 DEF DsmOK
    <3> QED BY <1>1, <2>1, <2>2, <3>1 DEF DsmOK
  <2> QED BY <2>1, <2>3, <2>4
<1>8. CASE FindAgain
  <2>1. /\ device' = device /\ scan.pc = "find2" /\ scan'.d = scan.d /\ scan'.zone = scan.zone
        /\ scan'.pc \in {"attach", "assign"}
    BY <1>8, FindAgainEffect
  <2> QED BY <1>2, <2>1 DEF Read, ChosenByScan
<1>9. CASE Detach \/ Attach
  <2>1. /\ scan.pc \in {"detach", "attach"} /\ scan'.d = scan.d /\ scan'.pc \in {"find2", "assign"}
        /\ \A e \in RoomDevices \ {scan.d} : device'[e] = device[e]
        /\ device[scan.d].known => device'[scan.d].known /\ device'[scan.d].zone = scan.zone
        /\ scan'.pc = "find2" => scan'.zone = scan.zone
    BY <1>9, DetachEffect, AttachEffect
  <2>2. CASE scan.d # d
    BY <1>2, <2>1, <2>2 DEF Read, ChosenByScan
  <2>3. CASE scan.d = d
    <3>1. Read(d) /\ device[d].known
      BY <2>1, <2>3 DEF Read, PlaceOK, BroughtOK, InHand
    <3>2. device'[d].known /\ device'[d].zone = dsm.zoneOf[d] /\ dsm.zoneOf[d] = scan.zone
      BY <2>1, <2>3, <3>1 DEF DsmOK
    <3> QED BY <1>1, <2>1, <3>2 DEF DsmOK, Read, ChosenByScan
  <2> QED BY <2>2, <2>3
<1> QED BY <1>3, <1>4, <1>5, <1>6, <1>7, <1>8, <1>9 DEF ScanActs

(* MeterMaintenance chooses a device that is where the dSM has it. *)
LEMMA SyncDsmStep ==
  ASSUME RoomShapeOK, SyncActs, NEW d \in RoomDevices, PlaceOK(d), DsmOK(d), OneHandler(d)'
  PROVE  DsmOK(d)'
<1>1. SyncsChange
  BY SyncEffect
<1>2. /\ dsm' = dsm /\ device' = device /\ worker' = worker /\ scan' = scan
      /\ Entering(d)' <=> Entering(d)
      /\ Read(d)' <=> Read(d)
      /\ ChosenByScan(d)' <=> ChosenByScan(d)
      /\ \A w \in RoomWorkers : Holds(w, d, {"enter"})' <=> Holds(w, d, {"enter"})
  BY <1>1 DEF SyncsChange, Entering, Read, ChosenByScan, Holds
<1>3. CASE ChosenBySync(d)'
  <2>1. sync'.o \in Objects /\ d \in Candidates(sync'.o)
    BY <1>1, <1>3 DEF SyncsChange, ChosenBySync, IdleSync
  <2>2. ~Entering(d)
    BY <1>2, <1>3 DEF OneHandler, OneHandlerOf, ChosenBySync, Entering, Holds
  <2>3. device[d].known /\ dsm.zoneOf[d] = device[d].zone
    BY <2>1, <2>2, CandidateFacts
  <2> QED BY <1>2, <2>3 DEF DsmOK
<1>4. CASE ~ChosenBySync(d)'
  BY <1>2, <1>4 DEF DsmOK
<1> QED BY <1>3, <1>4

(* Every step keeps that the dSM has the device in its room. *)
LEMMA DsmStep ==
  ASSUME RoomShapeOK, AllocsOK, [RoomsNext]_roomVars, NEW d \in RoomDevices, PlaceOK(d), DsmOK(d),
         OneHandler(d), NotRemoved(d), OneHandler(d)', Undisturbed(d)
  PROVE  DsmOK(d)'
<1>1. CASE UNCHANGED roomVars
  BY <1>1 DEF roomVars, DsmOK, Entering, Read, ChosenBySync, ChosenByScan, Holds
<1> QED BY <1>1, RoomsSteps, WorkerDsmStep, InputDsmStep, ScanDsmStep, SyncDsmStep

-----------------------------------------------------------------------------
(* The sensors of the rooms                                                *)

Free(d) == \A o \in Objects : room[o].sensor # d
(* The request that took the device out of room o has not reset its        *)
(* sensors yet; the dSM may know of the request and m_ZoneID not            *)
Leaving(d, o)  == \E w \in RoomWorkers : Holds(w, d, {"reset"}) /\ o = Object(worker[w].oldZoneID)
Withdrawn(d)   == \E w \in RoomWorkers : Holds(w, d, {"enter", "deleteReset"})
Deleting(d)    == \E w \in RoomWorkers : Holds(w, d, {"deleteRefill", "delete"})

SensorOK(d) ==
  /\ \A o \in Objects : room[o].sensor = d => In(d, o) \/ Leaving(d, o) \/ (Loose(d) /\ o = scan.o)
  /\ device[d].known /\ dsm.zoneOf[d] # device[d].zone /\ ~Withdrawn(d) => Free(d)
  /\ Deleting(d) => Free(d)
  /\ ChosenBySync(d) => In(d, sync.o) \/ (Loose(d) /\ sync.o = scan.o)
  /\ ChosenByScan(d) => In(d, scan.o)

(* Where the sensors of a room are reset, the device has none of them.     *)
LEMMA ResetsSensor ==
  ASSUME RoomShapeOK, NEW w \in RoomWorkers, WorkerActs(w), NEW z \in RoomIds, worker[w].d \in RoomDevices,
         \/ worker[w].pc = "reset" /\ z = worker[w].oldZoneID
         \/ worker[w].pc = "deleteReset" /\ z = device[worker[w].d].zone /\ z \in live
  PROVE  room'[Object(z)].sensor # worker[w].d
<1>1. Object(z) \in Objects /\ worker[w].d # NoDevice
  BY ObjectFacts, RoomsAssumption
<1>2. ResetSensors(Object(z), worker[w].d) => room'[Object(z)].sensor # worker[w].d
  BY <1>1, ResetEffect
<1>3. CASE worker[w].pc = "reset" /\ z = worker[w].oldZoneID
  <2>1. LeaveReset(w)
    BY <1>3, WorkerActions
  <2> QED BY <1>2, <1>3, <2>1 DEF LeaveReset, ResetStep
<1>4. CASE worker[w].pc = "deleteReset" /\ z = device[worker[w].d].zone /\ z \in live
  <2>1. DeleteReset(w)
    BY <1>4, WorkerActions
  <2>2. z # NoRoom
    BY RoomsAssumption
  <2> QED BY <1>2, <1>4, <2>1, <2>2 DEF DeleteReset
<1> QED BY <1>3, <1>4

(* A request to remove a device goes on whatever the dSM says. *)
LEMMA DeletesAnyway ==
  ASSUME RoomShapeOK, NEW w \in RoomWorkers, WorkerActs(w), worker[w].pc = "dsmDelete"
  PROVE  worker'[w].pc = "deleteReset" /\ worker'[w].d = worker[w].d
<1>1. Goto(w, "deleteReset")
  BY WorkerActions DEF removeDeviceFromDSMeter
<1> QED BY <1>1, GotoEffect DEF DeleteSteps

(* A web thread that assigns a sensor takes a device of the room. *)
LEMMA WorkerSensors ==
  ASSUME RoomShapeOK, NEW w \in RoomWorkers, WorkerActs(w), NEW d \in RoomDevices, PlaceOK(d), NEW o \in Objects,
         room'[o].sensor = d
  PROVE  \/ room[o].sensor = d
         \/ /\ In(d, o) /\ device[d].present /\ device[d].known
            /\ \A v \in RoomWorkers : ~Holds(v, d, DeleteSteps)
<1>1. RoomsChange(w) /\ d # NoDevice
  BY WorkerRooms, RoomsAssumption
<1>2. room[o].sensor = d \/ d \in Candidates(o)
  BY <1>1 DEF RoomsChange
<1>3. CASE d \in Candidates(o)
  <2>1. In(d, o) /\ device[d].present /\ device[d].known
    BY <1>3, CandidateFacts
  <2> QED BY <2>1 DEF PlaceOK, MovedBy
<1> QED BY <1>2, <1>3

(* A web thread takes the sensors of a device off the room it leaves. *)
LEMMA WorkerSensorStep ==
  ASSUME RoomShapeOK, NEW w \in RoomWorkers, WorkerActs(w), NEW d \in RoomDevices, PlaceOK(d), DsmOK(d), SensorOK(d),
         OneHandler(d), NotRemoved(d), Undisturbed(d), DsmOK(d)'
  PROVE  SensorOK(d)'
<1>1. /\ WorkersMove(w) /\ RoomsChange(w) /\ DsmChange(w)
      /\ scan' = scan /\ sync' = sync /\ allocs' = allocs
      /\ d # worker[w].d \/ worker[w].pc \notin {"enter", "delete"} => device'[d] = device[d]
  BY WorkerControl, WorkerRooms, WorkerDsm, WorkerRest, WorkerDevices DEF WorkersRest
<1>2. /\ Loose(d)' <=> Loose(d)
      /\ ChosenBySync(d)' <=> ChosenBySync(d)
      /\ ChosenByScan(d)' <=> ChosenByScan(d)
  BY <1>1 DEF Loose, ChosenBySync, ChosenByScan
<1>3. \A o \in Objects : room'[o].sensor = d =>
        \/ room[o].sensor = d
        \/ /\ In(d, o) /\ device[d].present /\ device[d].known
           /\ \A v \in RoomWorkers : ~Holds(v, d, DeleteSteps)
  BY WorkerSensors
<1>4. /\ \A v \in RoomWorkers : Holds(v, d, DeleteSteps) => ~device[d].present
      /\ Free(d) => \A o \in Objects : room'[o].sensor = d => device[d].present /\ device[d].known
  BY <1>3 DEF Free, PlaceOK, MovedBy
<1>5. CASE worker[w].d # d \/ worker[w].pc \notin
             {"setZone", "enter", "reset", "dsmDelete", "deleteReset", "deleteRefill", "delete"}
  <2>1. device'[d] = device[d] /\ \A o \in Objects : In(d, o)' <=> In(d, o)
    BY <1>1, <1>5 DEF RoomsChange, In
  <2>2. \A v \in RoomWorkers :
          /\ Holds(v, d, {"reset"})' <=> Holds(v, d, {"reset"})
          /\ Holds(v, d, {"enter", "deleteReset"})' <=> Holds(v, d, {"enter", "deleteReset"})
          /\ Holds(v, d, {"deleteRefill", "delete"})' <=> Holds(v, d, {"deleteRefill", "delete"})
          /\ Holds(v, d, {"reset"}) => worker'[v] = worker[v]
    <3>1. \A v \in RoomWorkers \ {w} : worker'[v] = worker[v]
      BY <1>1 DEF WorkersMove
    <3>2. /\ ~Holds(w, d, {"reset"}) /\ ~Holds(w, d, {"reset"})'
          /\ ~Holds(w, d, {"enter", "deleteReset"}) /\ ~Holds(w, d, {"enter", "deleteReset"})'
          /\ ~Holds(w, d, {"deleteRefill", "delete"}) /\ ~Holds(w, d, {"deleteRefill", "delete"})'
      BY <1>1, <1>5 DEF WorkersMove, Starts, Advances, PcOrder, Ends, IdleWorker, Holds
    <3> QED BY <3>1, <3>2 DEF Holds
  <2>3. /\ Withdrawn(d)' <=> Withdrawn(d)
        /\ Deleting(d)' <=> Deleting(d)
        /\ \A o : Leaving(d, o)' <=> Leaving(d, o)
    BY <1>1, <2>2 DEF Withdrawn, Deleting, Leaving, Object
  <2>4. device'[d].known /\ dsm'.zoneOf[d] # device'[d].zone /\ ~Withdrawn(d)' => Free(d)'
    <3>1. SUFFICES ASSUME device[d].known, dsm'.zoneOf[d] # device[d].zone, ~Withdrawn(d) PROVE Free(d)'
      BY <2>1, <2>3
    <3>2. dsm.zoneOf[d] # device[d].zone
      <4>1. CASE dsm'.zoneOf[d] = dsm.zoneOf[d]
        BY <3>1, <4>1
      <4>2. CASE worker[w].pc = "dsmRemove" /\ dsm.zoneOf[d] = worker[w].o[1]
        BY <3>1, <4>2 DEF PlaceOK, EmptiedBy, RemoveSteps
      <4> QED BY <1>1, <1>5, <4>1, <4>2 DEF DsmChange
    <3>3. Free(d)
      BY <3>1, <3>2 DEF SensorOK
    <3>4. ~Entering(d)'
      BY <2>2, <3>1 DEF Entering, Withdrawn, Holds
    <3>5. ~device[d].present
      BY <2>1, <3>1, <3>4 DEF DsmOK
    <3> QED BY <1>4, <3>3, <3>5 DEF Free
  <2>5. Deleting(d)' => Free(d)'
    BY <1>4, <2>3 DEF SensorOK, Deleting, Holds, Free, DeleteSteps
  <2>6. \A o \in Objects : room'[o].sensor = d => In(d, o)' \/ Leaving(d, o)' \/ (Loose(d)' /\ o = scan'.o)
    BY <1>1, <1>2, <1>3, <2>1, <2>3 DEF SensorOK
  <2>7. ChosenBySync(d)' => In(d, sync.o)' \/ (Loose(d)' /\ sync'.o = scan'.o)
    <3>1. sync.o \in Objects \/ ~ChosenBySync(d)
      BY DEF RoomShapeOK, ChosenBySync
    <3> QED BY <1>1, <1>2, <2>1, <3>1 DEF SensorOK, In
  <2>8. ChosenByScan(d)' => In(d, scan.o)'
    <3>1. scan.o \in Objects \/ ~ChosenByScan(d)
      BY DEF RoomShapeOK, ChosenByScan
    <3> QED BY <1>1, <1>2, <2>1, <3>1 DEF SensorOK, In
  <2> QED BY <2>4, <2>5, <2>6, <2>7, <2>8 DEF SensorOK
<1>6. ASSUME worker[w].d = d, worker[w].pc # "idle"
      PROVE  /\ ~ChosenBySync(d)' /\ ~ChosenByScan(d)' /\ ~Loose(d) /\ ~InHand(d)
             /\ \A v \in RoomWorkers \ {w} : worker'[v] = worker[v] /\ (worker[v].pc # "idle" => worker[v].d # d)
  BY <1>1, <1>2, <1>6 DEF OneHandler, OneHandlerOf, ChosenBySync, ChosenByScan, Loose, InHand, WorkersMove
<1>7. ASSUME worker[w].d = d, worker[w].pc \in MoveSteps \cup DeleteSteps
      PROVE  /\ device[d].known /\ device[d].zone \in live /\ device[d].zone \in RoomIds
             /\ \A o \in Objects : In(d, o) <=> o = Object(device[d].zone)
             /\ worker[w].pc # "reset" => \A o \in Objects : room[o].sensor = d => o = Object(device[d].zone)
  <2>1. worker[w].pc # "idle" /\ device[d].known
    BY <1>7 DEF PlaceOK, MovedBy, Holds, MoveSteps, DeleteSteps
  <2>2. ~InHand(d) /\ ~Loose(d)
    BY <1>6, <1>7, <2>1
  <2>3. device[d].zone \in live /\ device[d].zone \in RoomIds
    BY <2>1, <2>2 DEF PlaceOK, HomeOK, RoomShapeOK, RoomsTypeOK
  <2>4. \A o \in Objects : In(d, o) <=> o = Object(device[d].zone)
    BY <2>1, <2>2, <2>3, RoomsAssumption DEF PlaceOK, ListedOK
  <2>5. worker[w].pc # "reset" => \A o : ~Leaving(d, o)
    BY <1>6, <1>7, <2>1 DEF Leaving, Holds
  <2> QED BY <2>1, <2>2, <2>3, <2>4, <2>5 DEF SensorOK
<1> USE DEF MoveSteps, DeleteSteps
<1>8. CASE worker[w].d = d /\ worker[w].pc = "enter"
  <2>1. /\ worker[w].oldZoneID = device[d].zone /\ dsm.zoneOf[d] = worker[w].o[1]
    BY <1>8 DEF PlaceOK, MovedBy, DsmOK, Holds
  <2>2. device'[d].zone = worker[w].o[1] /\ worker'[w].pc = "reset" /\ dsm'.zoneOf[d] = dsm.zoneOf[d]
    BY <1>1, <1>7, <1>8, <2>1, EnterEffect DEF DsmChange
  <2>3. worker'[w].oldZoneID = device[d].zone /\ worker'[w].d = d
    BY <1>1, <1>8, <2>1, <2>2 DEF WorkersMove, Starts, Advances, Ends, IdleWorker
  <2>5. ~Deleting(d)'
    BY <1>6, <1>8, <2>2 DEF Deleting, Holds
  <2>6. \A o \in Objects : room'[o].sensor = d => Leaving(d, o)'
    BY <1>1, <1>3, <1>7, <1>8, <2>2, <2>3 DEF RoomsChange, Leaving, Holds, Object
  <2> QED BY <1>6, <1>8, <2>1, <2>2, <2>5, <2>6 DEF SensorOK
<1>9. CASE worker[w].d = d /\ worker[w].pc = "reset"
  <2>1. /\ device'[d] = device[d] /\ dsm'.zoneOf[d] = dsm.zoneOf[d]
        /\ \A o \in Objects : In(d, o)' <=> In(d, o)
    BY <1>1, <1>9 DEF RoomsChange, DsmChange, In
  <2>2. ~Withdrawn(d) /\ ~Withdrawn(d)' /\ ~Deleting(d)' /\ ~Entering(d)'
    <3>1. worker'[w].pc \in {"refill", "idle"}
      BY <1>1, <1>9 DEF WorkersMove, Starts, Advances, PcOrder, Ends, IdleWorker
    <3> QED BY <1>6, <1>9, <3>1 DEF Withdrawn, Deleting, Entering, Holds
  <2>3. \A o \in Objects : room'[o].sensor = d => In(d, o)'
    <3>1. \A o : Leaving(d, o) => o = Object(worker[w].oldZoneID)
      BY <1>6, <1>9 DEF Leaving, Holds
    <3>2. room'[Object(worker[w].oldZoneID)].sensor # d
      BY <1>9, ResetsSensor DEF RoomShapeOK
    <3> QED BY <1>3, <1>6, <1>9, <2>1, <3>1, <3>2 DEF SensorOK
  <2>4. device'[d].known /\ dsm'.zoneOf[d] # device'[d].zone => Free(d)'
    BY <1>4, <2>1, <2>2 DEF SensorOK, DsmOK, Free
  <2> QED BY <1>6, <1>9, <2>2, <2>3, <2>4 DEF SensorOK
<1>10. CASE worker[w].d = d /\ worker[w].pc \in {"setZone", "dsmDelete"}
  <2>1. device'[d] = device[d] /\ \A o \in Objects : In(d, o)' <=> In(d, o)
    BY <1>1, <1>10 DEF RoomsChange, In
  <2>2. \A o \in Objects : room'[o].sensor = d => In(d, o)'
    BY <1>3, <1>7, <1>10, <2>1
  <2>3. ~Deleting(d)' /\ ~Withdrawn(d)
    <3>1. worker'[w].pc \in {"enter", "deleteReset", "idle"}
      BY <1>1, <1>10 DEF WorkersMove, Starts, Advances, PcOrder, Ends, IdleWorker
    <3> QED BY <1>6, <1>10, <3>1 DEF Deleting, Withdrawn, Holds
  <2>4. Withdrawn(d)' \/ dsm'.zoneOf[d] = dsm.zoneOf[d]
    <3>1. worker'[w].pc \in {"enter", "deleteReset"} => Withdrawn(d)'
      BY <1>1, <1>10 DEF WorkersMove, Starts, Advances, Ends, IdleWorker, Withdrawn, Holds
    <3>2. worker[w].pc = "dsmDelete" => worker'[w].pc = "deleteReset"
      BY DeletesAnyway
    <3> QED BY <1>1, <1>10, <3>1, <3>2 DEF DsmChange, Undisturbed
  <2>5. device'[d].known /\ dsm'.zoneOf[d] # device'[d].zone /\ ~Withdrawn(d)' => Free(d)'
    <3>1. SUFFICES ASSUME device[d].known, dsm.zoneOf[d] # device[d].zone, dsm'.zoneOf[d] # device'[d].zone,
                          ~Withdrawn(d)'
                   PROVE Free(d)'
      BY <2>1, <2>4
    <3>2. Free(d) /\ ~Entering(d)'
      BY <2>3, <3>1 DEF SensorOK, Withdrawn, Entering, Holds
    <3>3. ~device[d].present
      BY <2>1, <3>1, <3>2 DEF DsmOK
    <3> QED BY <1>4, <3>2, <3>3 DEF Free
  <2> QED BY <1>6, <1>10, <2>2, <2>3, <2>5 DEF SensorOK
<1>11. CASE worker[w].d = d /\ worker[w].pc \in {"deleteReset", "deleteRefill", "delete"}
  <2>1. ~device[d].present
    BY <1>4, <1>11 DEF Holds
  <2>2. CASE worker[w].pc = "deleteReset"
    <3>1. room'[Object(device[d].zone)].sensor # d
      BY <1>7, <1>11, <2>2, ResetsSensor
    <3>2. Free(d)'
      BY <1>3, <1>7, <1>11, <2>1, <2>2, <3>1 DEF Free
    <3> QED BY <1>6, <1>11, <3>2 DEF SensorOK, Free
  <2>3. CASE worker[w].pc \in {"deleteRefill", "delete"}
    <3>1. Free(d)
      BY <1>11, <2>3 DEF SensorOK, Deleting, Holds
    <3>2. Free(d)'
      BY <1>4, <2>1, <3>1 DEF Free
    <3> QED BY <1>6, <1>11, <3>2 DEF SensorOK, Free
  <2> QED BY <1>11, <2>2, <2>3
<1> QED BY <1>5, <1>8, <1>9, <1>10, <1>11

(* A thread of the model that does not move the device and sets none of its *)
(* sensors leaves them alone.                                               *)
LEMMA SensorsKept ==
  ASSUME RoomShapeOK, NEW d \in RoomDevices, SensorOK(d), worker' = worker,
         allocs' = allocs \/ (roomMutex = Unlocked /\ \A z \in live : allocs'[z] = allocs[z]),
         \A o \in Objects : room'[o].sensor = d => room[o].sensor = d,
         \A o \in Objects : In(d, o)' <=> In(d, o),
         Loose(d)' <=> Loose(d), Loose(d) => scan'.o = scan.o,
         device'[d].known /\ dsm'.zoneOf[d] # device'[d].zone /\ ~Withdrawn(d) => Free(d),
         ChosenBySync(d)' => \/ ChosenBySync(d) /\ sync'.o = sync.o
                             \/ sync'.o \in Objects /\ In(d, sync'.o),
         ChosenByScan(d)' => \/ ChosenByScan(d) /\ scan'.o = scan.o
                             \/ scan'.o \in Objects /\ In(d, scan'.o)
  PROVE  SensorOK(d)'
<1>1. /\ Withdrawn(d)' <=> Withdrawn(d)
      /\ Deleting(d)' <=> Deleting(d)
      /\ Free(d) => Free(d)'
  BY DEF Withdrawn, Deleting, Holds, Free
<1>2. \A o : Leaving(d, o)' <=> Leaving(d, o)
  <2>1. CASE allocs' = allocs
    BY <2>1 DEF Leaving, Holds, Object
  <2>2. CASE roomMutex = Unlocked
    <3>1. \A w \in RoomWorkers : worker[w].pc # "reset"
      BY <2>2, RoomsAssumption DEF RoomShapeOK, Locked
    <3> QED BY <3>1 DEF Leaving, Holds
  <2> QED BY <2>1, <2>2
<1>3. /\ ChosenBySync(d) => sync.o \in Objects
      /\ ChosenByScan(d) => scan.o \in Objects
  BY DEF RoomShapeOK, ChosenBySync, ChosenByScan
<1>4. \A o \in Objects : room'[o].sensor = d => In(d, o)' \/ Leaving(d, o)' \/ (Loose(d)' /\ o = scan'.o)
  BY <1>2 DEF SensorOK
<1>5. ChosenBySync(d)' => In(d, sync.o)' \/ (Loose(d)' /\ sync'.o = scan'.o)
  BY <1>3 DEF SensorOK, In
<1>6. ChosenByScan(d)' => In(d, scan.o)'
  BY <1>3 DEF SensorOK, In
<1> QED BY <1>1, <1>4, <1>5, <1>6 DEF SensorOK

(* Inputs leave the sensors alone. *)
LEMMA InputSensorStep ==
  ASSUME RoomShapeOK, InputActs, NEW d \in RoomDevices, PlaceOK(d), DsmOK(d), SensorOK(d)
  PROVE  SensorOK(d)'
<1>1. InputsChange
  BY InputEffect
<1>2. allocs' = allocs \/ (roomMutex = Unlocked /\ \A z \in live : allocs'[z] = allocs[z])
  BY <1>1 DEF InputsChange, RoomShapeOK, RoomsTypeOK
<1>3. device[d].known /\ device[d].zone = NoRoom => dsm.zoneOf[d] # NoRoom
  BY RoomFacts DEF DsmOK, Read, InHand
<1>4. device'[d].known /\ dsm'.zoneOf[d] # device'[d].zone /\ ~Withdrawn(d) => Free(d)
  BY <1>1, <1>3 DEF InputsChange, SensorOK
<1> QED BY <1>1, <1>2, <1>4, SensorsKept DEF InputsChange, In, Loose, ChosenBySync, ChosenByScan

(* MeterMaintenance assigns the sensor of a device of the room. *)
LEMMA SyncSensorStep ==
  ASSUME RoomShapeOK, SyncActs, NEW d \in RoomDevices, PlaceOK(d), DsmOK(d), SensorOK(d), OneHandler(d)
  PROVE  SensorOK(d)'
<1>1. SyncsChange /\ d # NoDevice
  BY SyncEffect, RoomsAssumption
<1>2. /\ \A o \in Objects : In(d, o)' <=> In(d, o)
      /\ Loose(d)' <=> Loose(d)
      /\ ChosenByScan(d)' <=> ChosenByScan(d)
  BY <1>1 DEF SyncsChange, In, Loose, ChosenByScan
<1>3. ChosenBySync(d)' => sync'.o \in Objects /\ In(d, sync'.o)
  BY <1>1, CandidateFacts DEF SyncsChange, ChosenBySync, IdleSync
<1>4. device'[d].known /\ dsm'.zoneOf[d] # device'[d].zone /\ ~Withdrawn(d) => Free(d)
  BY <1>1 DEF SyncsChange, SensorOK
<1>5. CASE \A o \in Objects : room'[o].sensor = d => room[o].sensor = d
  BY <1>1, <1>2, <1>3, <1>4, <1>5, SensorsKept DEF SyncsChange
<1>6. CASE /\ ChosenBySync(d) /\ ~ChosenBySync(d)'
           /\ \A p \in Objects : room'[p].sensor = IF p = sync.o THEN d ELSE room[p].sensor
  <2>1. \A w \in RoomWorkers : worker[w].pc # "idle" => worker[w].d # d
    BY <1>6 DEF OneHandler, OneHandlerOf, ChosenBySync
  <2>2. ~Deleting(d)' /\ \A o : ~Leaving(d, o)
    BY <1>1, <2>1 DEF SyncsChange, Deleting, Leaving, Holds
  <2>3. dsm'.zoneOf[d] = device'[d].zone
    BY <1>1, <1>6 DEF SyncsChange, DsmOK
  <2>4. \A o \in Objects : room'[o].sensor = d => In(d, o)' \/ (Loose(d)' /\ o = scan'.o)
    BY <1>1, <1>2, <1>6, <2>2 DEF SensorOK, SyncsChange
  <2>5. ChosenByScan(d)' => In(d, scan.o)'
    BY <1>1, <1>2 DEF SensorOK, SyncsChange, RoomShapeOK, ChosenByScan, In
  <2> QED BY <1>6, <2>2, <2>3, <2>4, <2>5 DEF SensorOK
<1> QED BY <1>1, <1>5, <1>6 DEF SyncsChange, ChosenBySync

(* The scanner takes a device with its sensors to a room, unless it has none. *)
LEMMA ScanSensorStep ==
  ASSUME RoomShapeOK, AllocsOK, ScanActs, NEW d \in RoomDevices, PlaceOK(d), DsmOK(d), SensorOK(d), OneHandler(d)
  PROVE  SensorOK(d)'
<1>0. ScansKeep
  BY LostEffect, NewEffect, FindEffect, DetachEffect, FindAgainEffect, AttachEffect, ChooseEffect, SetEffect
  DEF ScanActs
<1>1. /\ dsm' = dsm /\ worker' = worker /\ sync' = sync
      /\ ChosenBySync(d)' <=> ChosenBySync(d)
      /\ Withdrawn(d)' <=> Withdrawn(d)
      /\ Deleting(d)' <=> Deleting(d)
  BY <1>0 DEF ScansKeep, ChosenBySync, Withdrawn, Deleting, Holds
<1>2. scan.pc # "idle" /\ scan.d = d => \A w \in RoomWorkers : worker[w].pc # "idle" => worker[w].d # d
  BY DEF OneHandler, OneHandlerOf
<1>3. scan.pc # "idle" /\ scan.d = d => /\ ~Withdrawn(d) /\ ~Deleting(d)
                                        /\ \A o : ~Leaving(d, o)
  BY <1>2 DEF Withdrawn, Deleting, Leaving, Holds
<1>4. CASE onRemoveDevice \/ onAddDevice
  <2>1. /\ scan.pc = "idle" /\ (scan'.pc \in {"find", "assign"} \/ scan' = scan)
        /\ UNCHANGED <<room, allocs>>
        /\ \A e \in RoomDevices : device'[e].known = device[e].known /\ device'[e].zone = device[e].zone
    BY <1>4, LostEffect, NewEffect DEF onRemoveDevice
  <2>2. /\ \A o \in Objects : In(d, o)' <=> In(d, o)
        /\ ~Loose(d)' /\ ~Loose(d) /\ ~ChosenByScan(d)'
    BY <2>1 DEF In, Loose, ChosenByScan
  <2>3. device'[d].known /\ dsm'.zoneOf[d] # device'[d].zone /\ ~Withdrawn(d) => Free(d)
    BY <1>1, <2>1 DEF SensorOK
  <2> QED BY <1>1, <2>1, <2>2, <2>3, SensorsKept
<1>5. CASE FindRoom
  <2>1. /\ scan.pc = "find" /\ scan'.d = scan.d /\ scan'.pc \in {"assign", "detach"} /\ room' = room
        /\ \A e \in RoomDevices \ {scan.d} : device'[e] = device[e]
        /\ device[scan.d].known => device' = device
        /\ roomMutex = Unlocked /\ \A z \in live : allocs'[z] = allocs[z]
    BY <1>5, FindEffect DEF RoomShapeOK, RoomsTypeOK
  <2>2. /\ \A o \in Objects : In(d, o)' <=> In(d, o)
        /\ ~Loose(d)' /\ ~Loose(d) /\ ~ChosenByScan(d)'
    BY <2>1 DEF In, Loose, ChosenByScan
  <2>3. device'[d].known /\ dsm'.zoneOf[d] # device'[d].zone /\ ~Withdrawn(d) => Free(d)
    <3>1. CASE device'[d] = device[d]
      BY <1>1, <3>1 DEF SensorOK
    <3>2. CASE d = scan.d /\ ~device[d].known
      <4>1. \A o : ~Leaving(d, o)
        BY <1>3, <2>1, <3>2
      <4>2. \A o \in Objects : ~In(d, o)
        BY <3>2 DEF PlaceOK, ListedOK
      <4> QED BY <2>2, <4>1, <4>2 DEF SensorOK, Free
    <3> QED BY <2>1, <3>1, <3>2
  <2> QED BY <1>1, <2>1, <2>2, <2>3, SensorsKept
<1>6. CASE AssignNew
  <2>1. /\ UNCHANGED <<device, room, allocs>> /\ scan.pc = "assign" /\ scan'.pc \in {"idle", "set"}
        /\ scan'.pc = "set" => scan'.o \in Objects /\ scan'.d \in Candidates(scan'.o)
    BY <1>6, ChooseEffect
  <2>2. /\ \A o \in Objects : In(d, o)' <=> In(d, o)
        /\ ~Loose(d)' /\ ~Loose(d)
        /\ ChosenByScan(d)' => scan'.o \in Objects /\ In(d, scan'.o)
    BY <2>1, CandidateFacts DEF In, Loose, ChosenByScan
  <2>3. device'[d].known /\ dsm'.zoneOf[d] # device'[d].zone /\ ~Withdrawn(d) => Free(d)
    BY <1>1, <2>1 DEF SensorOK
  <2> QED BY <1>1, <2>1, <2>2, <2>3, SensorsKept
<1>7. CASE SetNew
  <2>1. /\ UNCHANGED <<device, allocs>> /\ scan.pc = "set" /\ scan'.pc = "idle"
        /\ \A p \in Objects : /\ room'[p].members = room[p].members
                              /\ room'[p].sensor = IF p = scan.o THEN scan.d ELSE room[p].sensor
    BY <1>7, SetEffect
  <2>2. /\ \A o \in Objects : In(d, o)' <=> In(d, o)
        /\ ~Loose(d)' /\ ~Loose(d) /\ ~ChosenByScan(d)'
    BY <2>1 DEF In, Loose, ChosenByScan
  <2>3. device'[d].known /\ dsm'.zoneOf[d] # device'[d].zone /\ ~Withdrawn(d) => Free(d)
    BY <1>1, <2>1 DEF SensorOK
  <2>4. CASE scan.d # d
    <3>1. \A o \in Objects : room'[o].sensor = d => room[o].sensor = d
      BY <2>1, <2>4
    <3> QED BY <1>1, <2>1, <2>2, <2>3, <3>1, SensorsKept
  <2>5. CASE scan.d = d
    <3>1. ChosenByScan(d)
      BY <2>1, <2>5 DEF ChosenByScan
    <3>2. ~Deleting(d)' /\ dsm'.zoneOf[d] = device'[d].zone
      BY <1>1, <1>3, <2>1, <2>5, <3>1 DEF DsmOK
    <3>3. \A o \in Objects : room'[o].sensor = d => In(d, o)'
      BY <1>3, <2>1, <2>2, <2>5, <3>1 DEF SensorOK
    <3>4. ChosenBySync(d)' => In(d, sync.o)'
      BY <1>1, <2>2 DEF SensorOK, RoomShapeOK, ChosenBySync, In
    <3> QED BY <2>2, <3>2, <3>3, <3>4 DEF SensorOK
  <2> QED BY <2>4, <2>5
<1>8. CASE Detach
  <2>1. /\ allocs' = allocs
        /\ scan.pc = "detach" /\ scan'.pc = "find2" /\ scan'.d = scan.d /\ scan'.zone = scan.zone
        /\ scan'.o = scan.o
        /\ \A e \in RoomDevices \ {scan.d} : device'[e] = device[e]
        /\ device'[scan.d].zone = scan.zone
        /\ \A p \in Objects : /\ room'[p].sensor = room[p].sensor
                              /\ In(d, p)' <=> In(d, p) /\ (p # scan.old \/ d # scan.d)
    BY <1>8, DetachEffect DEF In
  <2>2. CASE scan.d # d
    <3>1. ~Loose(d)' /\ ~Loose(d) /\ ~ChosenByScan(d)'
      BY <2>1, <2>2 DEF Loose, ChosenByScan
    <3>2. device'[d].known /\ dsm'.zoneOf[d] # device'[d].zone /\ ~Withdrawn(d) => Free(d)
      BY <1>1, <2>1, <2>2 DEF SensorOK
    <3> QED BY <1>1, <2>1, <2>2, <3>1, <3>2, SensorsKept
  <2>3. CASE scan.d = d
    <3>1. InHand(d) /\ ~Loose(d) /\ Read(d) /\ Loose(d)' /\ ~ChosenByScan(d)'
      BY <2>1, <2>3 DEF InHand, Loose, Read, ChosenByScan
    <3>2. device[d].known /\ scan.o = Object(scan.zone) /\ dsm.zoneOf[d] = scan.zone /\ scan.o \in Objects
      BY <2>1, <3>1 DEF PlaceOK, BroughtOK, DsmOK, RoomShapeOK
    <3>3. \A o \in Objects : In(d, o) => o = Object(device[d].zone)
      BY DEF PlaceOK, ListedOK
    <3>4. \A o \in Objects : room[o].sensor = d => In(d, o)
      BY <1>3, <2>1, <2>3, <3>1 DEF SensorOK
    <3>5. device[d].zone # scan.zone => Free(d)
      BY <1>3, <2>1, <2>3, <3>2 DEF SensorOK
    <3>6. \A o \in Objects : room'[o].sensor = d => o = scan'.o
      BY <2>1, <3>2, <3>3, <3>4, <3>5 DEF Free
    <3>7. ChosenBySync(d)' => sync'.o = scan'.o
      <4>1. SUFFICES ASSUME ChosenBySync(d) PROVE sync.o = scan.o
        BY <1>1, <2>1
      <4>2. In(d, sync.o) /\ sync.o \in Objects /\ device[d].zone = scan.zone
        BY <3>1, <3>2, <4>1 DEF SensorOK, DsmOK, RoomShapeOK, ChosenBySync
      <4> QED BY <3>2, <3>3, <4>2
    <3>8. dsm'.zoneOf[d] = device'[d].zone /\ ~Deleting(d)'
      BY <1>1, <1>3, <2>1, <2>3, <3>2
    <3> QED BY <3>1, <3>6, <3>7, <3>8 DEF SensorOK
  <2> QED BY <2>2, <2>3
<1>9. CASE FindAgain
  <2>1. /\ allocs' = allocs /\ device' = device
        /\ scan.pc = "find2" /\ scan'.d = scan.d /\ scan'.o = scan.o
        /\ scan'.pc = IF device[scan.d].known THEN "attach" ELSE "assign"
        /\ \A p \in Objects : room'[p].sensor = room[p].sensor /\ (In(d, p)' <=> In(d, p))
    BY <1>9, FindAgainEffect DEF In
  <2>2. Loose(d) => device[d].known
    BY DEF PlaceOK, BroughtOK, InHand, Loose
  <2>3. (Loose(d)' <=> Loose(d)) /\ ~ChosenByScan(d)'
    BY <2>1, <2>2 DEF Loose, ChosenByScan
  <2>4. device'[d].known /\ dsm'.zoneOf[d] # device'[d].zone /\ ~Withdrawn(d) => Free(d)
    BY <1>1, <2>1 DEF SensorOK
  <2> QED BY <1>1, <2>1, <2>3, <2>4, SensorsKept
<1>10. CASE Attach
  <2>1. /\ allocs' = allocs
        /\ scan.pc = "attach" /\ scan'.pc = "assign" /\ scan'.d = scan.d
        /\ \A e \in RoomDevices \ {scan.d} : device'[e] = device[e]
        /\ device[scan.d].known => device'[scan.d].zone = scan.zone
        /\ \A p \in Objects : /\ room'[p].sensor = room[p].sensor
                              /\ In(d, p)' <=> \/ p = scan.o /\ d = scan.d
                                               \/ In(d, p) /\ (p = scan.o \/ p # scan.old \/ d # scan.d)
    BY <1>10, AttachEffect DEF In
  <2>2. CASE scan.d # d
    <3>1. ~Loose(d)' /\ ~Loose(d) /\ ~ChosenByScan(d)'
      BY <2>1, <2>2 DEF Loose, ChosenByScan
    <3>2. device'[d].known /\ dsm'.zoneOf[d] # device'[d].zone /\ ~Withdrawn(d) => Free(d)
      BY <1>1, <2>1, <2>2 DEF SensorOK
    <3> QED BY <1>1, <2>1, <2>2, <3>1, <3>2, SensorsKept
  <2>3. CASE scan.d = d
    <3>1. Loose(d) /\ InHand(d) /\ Read(d) /\ ~Loose(d)' /\ ~ChosenByScan(d)'
      BY <2>1, <2>3 DEF InHand, Loose, Read, ChosenByScan
    <3>2. device[d].known /\ dsm.zoneOf[d] = scan.zone /\ scan.o \in Objects
      BY <2>1, <3>1 DEF PlaceOK, BroughtOK, DsmOK, RoomShapeOK
    <3>3. \A o \in Objects : ~In(d, o)
      BY <3>1 DEF PlaceOK, ListedOK
    <3>4. \A o \in Objects : In(d, o)' <=> o = scan.o
      BY <2>1, <2>3, <3>3
    <3>5. \A o \in Objects : room'[o].sensor = d => In(d, o)'
      BY <1>3, <2>1, <2>3, <3>3, <3>4 DEF SensorOK
    <3>6. ChosenBySync(d)' => In(d, sync.o)'
      <4>1. SUFFICES ASSUME ChosenBySync(d) PROVE In(d, sync.o)'
        BY <1>1
      <4>2. sync.o \in Objects /\ sync.o = scan.o
        BY <3>3, <4>1 DEF SensorOK, RoomShapeOK, ChosenBySync
      <4>3. \A o \in Objects : o = scan.o => d \in room'[o].members
        BY <3>4 DEF In
      <4> QED BY <1>1, <4>2, <4>3 DEF In
    <3>7. dsm'.zoneOf[d] = device'[d].zone /\ ~Deleting(d)'
      BY <1>1, <1>3, <2>1, <2>3, <3>2
    <3> QED BY <3>1, <3>5, <3>6, <3>7 DEF SensorOK
  <2> QED BY <2>2, <2>3
<1> QED BY <1>4, <1>5, <1>6, <1>7, <1>8, <1>9, <1>10 DEF ScanActs

(* Every step keeps the sensors with their rooms. *)
LEMMA SensorStep ==
  ASSUME RoomShapeOK, AllocsOK, [RoomsNext]_roomVars, NEW d \in RoomDevices, PlaceOK(d), DsmOK(d), SensorOK(d),
         OneHandler(d), NotRemoved(d), Undisturbed(d), DsmOK(d)'
  PROVE  SensorOK(d)'
<1>1. CASE UNCHANGED roomVars
  BY <1>1 DEF roomVars, SensorOK, Withdrawn, Deleting, Leaving, Free, In, Loose, ChosenBySync, ChosenByScan,
     Holds, Object
<1> QED BY <1>1, RoomsSteps, WorkerSensorStep, InputSensorStep, ScanSensorStep, SyncSensorStep

-----------------------------------------------------------------------------
(* The invariant of Rooms                                                  *)

RoomsInv ==
  /\ RoomShapeOK /\ AllocsOK
  /\ \A d \in RoomDevices \ excused :
       /\ ~Overlap(d) /\ PlaceOK(d)
       /\ d \notin unsure => DsmOK(d) /\ SensorOK(d)

(* The history keeps the devices about which nothing is said. *)
LEMMA HistoryEffect ==
  ASSUME History, NEW d \in RoomDevices, d \notin excused'
  PROVE  /\ d \notin excused /\ ~Overlap(d)'
         /\ d \notin unsure' => d \notin unsure /\ Undisturbed(d)
<1>1. d \notin excused /\ ~Overlap(d)'
  BY DEF History
<1>2. ASSUME d \notin unsure' PROVE d \notin unsure /\ Undisturbed(d)
  <2>1. d \notin unsure /\ (roomFaults' = roomFaults \/ Handled(d) = {})
    BY <1>2 DEF History
  <2>2. ASSUME NEW w \in RoomWorkers, worker[w].pc # "idle", worker[w].d = d
        PROVE  <<w, worker[w].o[1]>> \in Handled(d)
    BY <2>2 DEF Handled
  <2> QED BY <2>1, <2>2 DEF Undisturbed
<1> QED BY <1>1, <1>2

(* Every step keeps the invariant. *)
LEMMA RoomsInvStep ==
  ASSUME RoomsInv, [RoomsNext]_roomVars
  PROVE  RoomsInv'
<1>1. RoomShapeOK' /\ AllocsOK'
  BY RoomShapeStep, AllocsStep DEF RoomsInv
<1>2. CASE UNCHANGED roomVars
  <2>1. ASSUME NEW d \in RoomDevices
        PROVE  /\ Overlap(d)' <=> Overlap(d)
               /\ PlaceOK(d) => PlaceOK(d)'
               /\ DsmOK(d) => DsmOK(d)'
               /\ SensorOK(d) => SensorOK(d)'
    <3>1. Overlap(d)' <=> Overlap(d)
      BY <1>2 DEF roomVars, Overlap, Handled, Removed
    <3>2. PlaceOK(d) => PlaceOK(d)'
      BY <1>2 DEF roomVars, PlaceOK, ListedOK, HomeOK, BroughtOK, MovedBy, EmptiedBy, In, InHand, Loose, Holds, Object
    <3>3. DsmOK(d) => DsmOK(d)'
      BY <1>2 DEF roomVars, DsmOK, Entering, Read, ChosenBySync, ChosenByScan, Holds
    <3>4. SensorOK(d) => SensorOK(d)'
      BY <1>2 DEF roomVars, SensorOK, Withdrawn, Deleting, Leaving, Free, In, Loose, ChosenBySync, ChosenByScan,
         Holds, Object
    <3> QED BY <3>1, <3>2, <3>3, <3>4
  <2> QED BY <1>1, <1>2, <2>1 DEF roomVars, RoomsInv
<1>3. CASE History
  <2>1. ASSUME NEW d \in RoomDevices, d \notin excused'
        PROVE  /\ ~Overlap(d)' /\ PlaceOK(d)'
               /\ d \notin unsure' => DsmOK(d)' /\ SensorOK(d)'
    <3>1. /\ d \notin excused /\ ~Overlap(d)'
          /\ d \notin unsure' => d \notin unsure /\ Undisturbed(d)
      BY <1>3, <2>1, HistoryEffect
    <3>2. /\ RoomShapeOK /\ AllocsOK /\ ~Overlap(d) /\ PlaceOK(d)
          /\ d \notin unsure => DsmOK(d) /\ SensorOK(d)
      BY <3>1 DEF RoomsInv
    <3>3. OneHandler(d) /\ NotRemoved(d) /\ OneHandler(d)' /\ NotRemoved(d)'
      BY <3>1, <3>2, Single, SingleNext
    <3>4. PlaceOK(d)'
      BY <3>2, <3>3, PlaceStep
    <3>5. ASSUME d \notin unsure' PROVE DsmOK(d)' /\ SensorOK(d)'
      <4>1. DsmOK(d)'
        BY <3>1, <3>2, <3>3, <3>5, DsmStep
      <4> QED BY <3>1, <3>2, <3>3, <3>5, <4>1, SensorStep
    <3> QED BY <3>1, <3>4, <3>5
  <2> QED BY <1>1, <2>1 DEF RoomsInv
<1> QED BY <1>2, <1>3, RoomsSteps

(* The invariant holds at the start. *)
LEMMA RoomsInvInit ==
  ASSUME RoomsInit
  PROVE  RoomsInv
<1> USE RoomsAssumption
<1>1. PICK zoneOf \in [RoomDevices -> RoomIds], active \in SUBSET RoomDevices,
           sensor \in [RoomIds -> RoomSensors \cup {NoDevice}] :
        /\ \A z \in RoomIds :
             IF sensor[z] = NoDevice
             THEN {d \in RoomDevices : zoneOf[d] = z} \cap RoomSensors \cap active = {}
             ELSE sensor[z] \in {d \in RoomDevices : zoneOf[d] = z}
        /\ dsm = [zones |-> {zoneOf[d] : d \in RoomDevices}, zoneOf |-> zoneOf, active |-> active]
        /\ device = [d \in RoomDevices |-> [known |-> TRUE, zone |-> zoneOf[d], present |-> d \in active]]
        /\ room = [o \in Objects |->
                     IF o[2] = 1 THEN [members |-> {d \in RoomDevices : zoneOf[d] = o[1]},
                                       onMeter |-> {d \in RoomDevices : zoneOf[d] = o[1]} # {},
                                       sensor |-> sensor[o[1]]]
                                 ELSE NewRoom]
  BY DEF RoomsInit
<1>2. /\ live = RoomIds /\ allocs = [z \in RoomIds |-> 1]
      /\ deviceEvents = << >> /\ roomMutex = Unlocked
      /\ worker = [w \in RoomWorkers |-> IdleWorker] /\ scan = IdleScan /\ sync = IdleSync
      /\ roomInputs = [requests |-> MaxRoomRequests, others |-> MaxOthers]
      /\ roomFaults = MaxRoomFaults /\ died = FALSE /\ excused = {} /\ unsure = {}
  BY DEF RoomsInit
<1>3. /\ \A w \in RoomWorkers : worker[w].pc = "idle" /\ worker[w].d = NoDevice
      /\ scan.pc = "idle" /\ sync.pc = "idle" /\ sync.d = NoDevice
      /\ worker \in [RoomWorkers -> WorkerType] /\ scan \in ScanType /\ sync \in SyncType
  BY <1>2 DEF IdleWorker, IdleScan, IdleSync, WorkerType, ScanType, SyncType, ScanPoints, Nowhere
<1>4. /\ DeviceTypes /\ DsmTypes
      /\ \A d \in RoomDevices : /\ dsm.zoneOf[d] = zoneOf[d] /\ device[d].zone = zoneOf[d] /\ device[d].known
                                /\ zoneOf[d] \in RoomIds /\ zoneOf[d] # NoRoom
  BY <1>1 DEF DeviceTypes, DsmTypes
<1>5. /\ room \in [Objects -> RoomType]
      /\ \A o \in Objects, d \in RoomDevices : In(d, o) <=> o[2] = 1 /\ zoneOf[d] = o[1]
      /\ \A o \in Objects, d \in RoomDevices : room[o].sensor = d => o[2] = 1 /\ zoneOf[d] = o[1]
  <2>1. \A o \in Objects : o[1] \in RoomIds
    BY DEF Objects
  <2>2. ASSUME NEW o \in Objects
        PROVE  /\ room[o] \in RoomType
               /\ \A d \in RoomDevices : In(d, o) <=> o[2] = 1 /\ zoneOf[d] = o[1]
               /\ \A d \in RoomDevices : room[o].sensor = d => o[2] = 1 /\ zoneOf[d] = o[1]
    <3>1. CASE o[2] = 1
      <4>1. room[o] = [members |-> {d \in RoomDevices : zoneOf[d] = o[1]},
                       onMeter |-> {d \in RoomDevices : zoneOf[d] = o[1]} # {}, sensor |-> sensor[o[1]]]
        BY <1>1, <3>1
      <4>2. sensor[o[1]] \in RoomSensors \cup {NoDevice}
        BY <2>1
      <4> QED BY <1>1, <2>1, <3>1, <4>1, <4>2 DEF RoomType, In
    <3>2. CASE o[2] # 1
      <4>1. room[o] = NewRoom
        BY <1>1, <3>2
      <4> QED BY <3>2, <4>1 DEF RoomType, NewRoom, In
    <3> QED BY <3>1, <3>2
  <2>3. room \in [Objects -> RoomType]
    BY <1>1, <2>2
  <2> QED BY <2>2, <2>3
<1>6. RoomShapeOK
  <2>1. allocs \in [RoomIds -> 1 .. MaxAllocs]
    BY <1>2
  <2>2. roomInputs \in [{"requests", "others"} -> Nat]
    BY <1>2
  <2>3. RestShapeOK
    <3>1. EventTypesOK
      BY <1>2 DEF EventTypesOK
    <3>2. \A d \in dsm.active : dsm.zoneOf[d] # NoRoom
      BY <1>4 DEF DsmTypes
    <3>3. live \subseteq RoomIds /\ roomFaults \in Nat /\ died \in BOOLEAN
          /\ excused \subseteq RoomDevices /\ unsure \subseteq RoomDevices
      BY <1>2
    <3> QED BY <1>4, <1>5, <2>1, <2>2, <3>1, <3>2, <3>3 DEF RestShapeOK
  <2>4. WorkerShapeOK /\ ScanShapeOK /\ SyncShapeOK
    BY <1>2, <1>3 DEF WorkerShapeOK, ScanShapeOK, SyncShapeOK, MoveSteps, RemoveSteps, DeleteSteps, Locked
  <2> QED BY <2>3, <2>4, ShapeParts
<1>7. AllocsOK
  <2>1. Removers = {}
    BY <1>3 DEF Removers, RemoveSteps
  <2>2. Cardinality(Removers) = 0
    BY <2>1, FS_EmptySet
  <2> QED BY <1>2, <2>2 DEF AllocsOK
<1>8. ASSUME NEW d \in RoomDevices PROVE ~Overlap(d) /\ PlaceOK(d) /\ DsmOK(d) /\ SensorOK(d)
  <2>1. Handled(d) = {}
    BY <1>3 DEF Handled
  <2>2. ~Overlap(d)
    <3>1. Cardinality(Handled(d)) = 0
      BY <2>1, FS_EmptySet
    <3> QED BY <2>1, <3>1 DEF Overlap
  <2>3. \A o \in Objects : In(d, o) <=> o = Object(zoneOf[d])
    <3>1. Object(zoneOf[d]) = <<zoneOf[d], 1>>
      BY <1>2, <1>4 DEF Object
    <3> QED BY <1>5, <3>1 DEF Objects
  <2>4. PlaceOK(d)
    BY <1>2, <1>3, <1>4, <2>3 DEF PlaceOK, ListedOK, HomeOK, BroughtOK, MovedBy, EmptiedBy, InHand, Loose, Holds,
       MoveSteps, RemoveSteps, DeleteSteps
  <2>5. DsmOK(d)
    BY <1>3, <1>4 DEF DsmOK, Entering, Read, ChosenBySync, ChosenByScan, Holds
  <2>6. SensorOK(d)
    BY <1>3, <1>4, <1>5 DEF SensorOK, Withdrawn, Deleting, Leaving, Free, In, ChosenBySync, ChosenByScan, Holds
  <2> QED BY <2>2, <2>4, <2>5, <2>6
<1> QED BY <1>6, <1>7, <1>8 DEF RoomsInv

(* The invariant holds always. *)
THEOREM RoomsInvariance == RoomsSpec => []RoomsInv
BY RoomsInvInit, RoomsInvStep, PTL DEF RoomsSpec

(* Rooms, devices and threads keep their types, and a room that is made    *)
(* anew always finds an object left, whatever the requests were.           *)
THEOREM RoomsTypeCorrect == RoomsSpec => []RoomsTypeOK
<1>1. RoomsInv => RoomsTypeOK
  BY DEF RoomsInv, RoomShapeOK
<1> QED BY <1>1, RoomsInvariance, PTL

(* With nothing under way, every device is in the list of the one room its *)
(* m_ZoneID names, which the apartment has, and a present device is there  *)
(* on the dSM too, for any number of devices, rooms, web threads, requests *)
(* and failing calls.                                                      *)
THEOREM DevicesInTheirRooms == RoomsSpec => []DeviceInItsRoom
<1>1. ASSUME RoomsInv PROVE DeviceInItsRoom
  <2>1. SUFFICES ASSUME AtRest, NEW d \in RoomDevices \ excused, device[d].known
                 PROVE  /\ device[d].zone \in live
                        /\ \A z \in live : d \in room[Object(z)].members <=> z = device[d].zone
                        /\ device[d].present /\ d \notin unsure => dsm.zoneOf[d] = device[d].zone
    BY DEF DeviceInItsRoom
  <2>2. PlaceOK(d) /\ (d \notin unsure => DsmOK(d)) /\ RoomShapeOK
    BY <1>1 DEF RoomsInv
  <2>3. ~InHand(d) /\ ~Loose(d) /\ ~Entering(d)
    BY <2>1 DEF AtRest, InHand, Loose, Entering, Holds
  <2>4. device[d].zone \in live /\ device[d].zone # NoRoom
    BY <2>1, <2>2, <2>3, RoomFacts DEF PlaceOK, HomeOK
  <2>5. ASSUME NEW z \in live PROVE d \in room[Object(z)].members <=> z = device[d].zone
    <3>1. Object(z) \in Objects /\ (Object(z) = Object(device[d].zone) <=> z = device[d].zone)
      BY <2>2, <2>4, ObjectFacts DEF RoomShapeOK, RoomsTypeOK
    <3> QED BY <2>1, <2>2, <2>3, <2>4, <3>1 DEF PlaceOK, ListedOK, In
  <2> QED BY <2>1, <2>2, <2>3, <2>4, <2>5 DEF DsmOK
<1> QED BY <1>1, RoomsInvariance, PTL

(* With nothing under way, the sensor of a room is a device of the room,   *)
(* whichever thread chose it and whoever moved or removed the device while *)
(* the choice was made.                                                    *)
THEOREM SensorsInTheirRooms == RoomsSpec => []SensorInRoom
<1>1. ASSUME RoomsInv PROVE SensorInRoom
  <2>1. SUFFICES ASSUME AtRest, NEW z \in live, NEW d, d = room[Object(z)].sensor,
                        d \notin excused, d \notin unsure, d # NoDevice
                 PROVE  d \in room[Object(z)].members
    BY DEF SensorInRoom
  <2>2. Object(z) \in Objects
    BY <1>1, ObjectFacts DEF RoomsInv, RoomShapeOK, RoomsTypeOK
  <2>3. d \in RoomDevices
    BY <1>1, <2>1, <2>2, RoomsAssumption DEF RoomsInv, RoomShapeOK, RoomType
  <2>4. SensorOK(d)
    BY <1>1, <2>1, <2>3 DEF RoomsInv
  <2>5. ~Loose(d) /\ \A o : ~Leaving(d, o)
    BY <2>1 DEF AtRest, Loose, Leaving, Holds
  <2> QED BY <2>1, <2>2, <2>4, <2>5 DEF SensorOK, In
<1> QED BY <1>1, RoomsInvariance, PTL
=============================================================================
