---------------------------- MODULE AutoClusters ----------------------------
(***************************************************************************)
(* Automatic clusters (model/autoclustermaintenance.cpp): blinds that look *)
(* in the same direction and have the same wind protection class are put   *)
(* into one cluster, which is taken from a fixed number of clusters and    *)
(* given back when it has no devices.  A user may lock the configuration   *)
(* of a cluster.                                                           *)
(*                                                                         *)
(* Three threads maintain the clusters, under the mutex of the apartment:  *)
(* the model thread for a device that was changed, a task that looks at    *)
(* all devices some time after the start, and the meter thread that joins  *)
(* identical clusters.  Requests change devices and locks meanwhile,       *)
(* without that mutex.                                                     *)
(***************************************************************************)
EXTENDS Integers, Sequences, FiniteSets, FiniteSetsExt, SequencesExt

CONSTANTS
  BlindDevices,          \* the devices
  NumClusters,
  Placements,      \* direction and class, as one value
  NoPlacement,     \* cd_none and wpc_none
  ClusterStarts,   \* clusters, groups and placements that apartment.xml may hold
  MaxRequests      \* bound: requests

ClusterIds   == 1 .. NumClusters
ClusterTypes ==
  [used : BOOLEAN, automatic : BOOLEAN, locked : BOOLEAN, placement : Placements]

ASSUME ClustersAssumption ==
  /\ NumClusters \in Nat \ {0, 1} /\ MaxRequests \in Nat /\ NoPlacement \in Placements
  /\ 0 \notin BlindDevices     \* stands for no device
  /\ \A s \in ClusterStarts :
       /\ s.clusters \in [ClusterIds -> ClusterTypes]
       /\ \A c \in ClusterIds : s.clusters[c].automatic => s.clusters[c].used
       /\ s.groups \in [BlindDevices -> SUBSET ClusterIds]
       /\ s.placement \in [BlindDevices -> Placements]

VARIABLES
  clusters,     \* used: getApplicationType is not None
  groups,       \* of a device: the clusters it is in
  placement,    \* of a device
  devices,      \* in the apartment
  requests,
  posting,      \* model events that a request is about to post
  modelEvents,
  loopDevice,   \* the device the model thread wants to check
  taskDevices,  \* the devices the task has still to check
  taskStarted, joinStarted,
  holder,       \* the thread that has the mutex
  cpc,          \* its step,
  cdev,         \* the device it checks,
  cidx, jidx,   \* the clusters it compares,
  inLocked,     \* getFirstLockedClusterAssignment() # 0,
  todo,         \* the clusters or devices still to deal with
  checked,      \* history: devices that were checked, and not moved since then
                \*   from a cluster whose lock was changed
  refused,      \* history: devices that found no cluster in their last check
  strayed,      \* history: devices that were moved to a cluster just given back,
                \*   by this program or by the one that wrote apartment.xml
  lockTouched,  \* history: clusters whose lock was changed
  lockRaced,    \* history: a lock was changed while a thread had the mutex
  staleCheck    \* history: the task checked a device that was removed

clusterVars == <<clusters, groups, placement, devices, requests, posting, modelEvents, loopDevice,
                 taskDevices, taskStarted, joinStarted, holder, cpc, cdev, cidx, jidx, inLocked,
                 todo, checked, refused, strayed, lockTouched, lockRaced, staleCheck>>
worldVars   == <<placement, devices, requests, posting>>
threadVars  == <<modelEvents, loopDevice, taskDevices, taskStarted, joinStarted>>
localVars   == <<cdev, cidx, jidx, inLocked, todo>>
clusterHist == <<checked, refused, strayed, lockTouched, lockRaced, staleCheck>>

NoDevice   == 0
Dirty(d)   == <<"etDeviceDirty", d>>
Cleanup(d) == <<"etClusterCleanup", d>>   \* d tells the posts apart, the event has no argument

(* A cluster that is given back is not automatic, else it would be found   *)
(* again by its old direction                                              *)
ClustersTypeOK ==
  /\ clusters \in [ClusterIds -> ClusterTypes] /\ groups \in [BlindDevices -> SUBSET ClusterIds]
  /\ placement \in [BlindDevices -> Placements] /\ devices \subseteq BlindDevices
  /\ requests \in 0 .. MaxRequests /\ cidx \in ClusterIds
  /\ holder = "none" <=> cpc = "free"
  /\ \A c \in ClusterIds : clusters[c].automatic => clusters[c].used

-----------------------------------------------------------------------------
(* Clusters                                                                *)

DevicesIn(g, c) == {d \in devices : c \in g[d]}

StaysAutomatic == [used |-> FALSE, automatic |-> TRUE, locked |-> FALSE, placement |-> NoPlacement]
ResetCluster   == [used |-> FALSE, automatic |-> FALSE, locked |-> FALSE, placement |-> NoPlacement]
UpToOne(g, c)    == Cardinality(DevicesIn(g, c)) <= 1
HasNoDevice(g, c) == DevicesIn(g, c) = {}
Unlocked(c) == clusters[c].automatic /\ ~clusters[c].locked
removeEmptyAutomaticCluster(g) ==
  [c \in ClusterIds |-> IF Unlocked(c) /\ HasNoDevice(g, c) THEN ResetCluster ELSE clusters[c]]

Without(g, d, c) == [g EXCEPT ![d] = @ \ {c}]
With(g, d, c)    == [g EXCEPT ![d] = @ \cup {c}]
removeDeviceFromCluster(d, c) ==
  /\ groups' = Without(groups, d, c)
  /\ clusters' = removeEmptyAutomaticCluster(Without(groups, d, c))

-----------------------------------------------------------------------------
(* consistencyCheck of cdev, in the mutex                                  *)

CheckAt(step)  == cpc = step
CheckGo(step)  == cpc' = step /\ UNCHANGED <<holder, cdev>>
Release == /\ cpc' = "free" /\ holder' = "none"
           /\ cdev' = NoDevice /\ cidx' = 1 /\ jidx' = 1 /\ inLocked' = FALSE /\ todo' = {}

Fits(c, d) == clusters[c].placement = placement[d]
InvalidIfNone(c, d) == Unlocked(c) /\ placement[d] = NoPlacement
IsInvalid(c, d)     == Unlocked(c) /\ (~Fits(c, d) \/ placement[d] = NoPlacement)
removeInvalidAssignments ==
  /\ CheckAt("invalid")
  /\ IF IsInvalid(cidx, cdev) THEN removeDeviceFromCluster(cdev, cidx)
                              ELSE UNCHANGED <<groups, clusters>>
  /\ IF cidx < NumClusters THEN cidx' = cidx + 1 /\ CheckGo("invalid")
                           ELSE cidx' = 1 /\ CheckGo("locked")
  /\ UNCHANGED <<worldVars, threadVars, jidx, inLocked, todo, clusterHist>>

Assigned(d) == {c \in groups[d] : clusters[c].automatic /\ Fits(c, d)}
getFirstLockedClusterAssignment ==
  /\ CheckAt("locked")
  /\ inLocked' = \E c \in Assigned(cdev) : clusters[c].locked
  /\ CheckGo("unlocked")
  /\ UNCHANGED <<clusters, groups, worldVars, threadVars, cidx, jidx, todo, clusterHist>>
getUnlockedClusterAssignment ==
  /\ CheckAt("unlocked")
  /\ todo' = {c \in Assigned(cdev) : ~clusters[c].locked}
  /\ CheckGo("decide")
  /\ UNCHANGED <<clusters, groups, worldVars, threadVars, cidx, jidx, inLocked, clusterHist>>

KeepNone(d, cs) == cs
Surplus(d, cs)  == IF placement[d] = NoPlacement THEN cs ELSE cs \ {Min(cs)}
ChooseSurplus ==
  /\ CheckAt("decide")
  /\ \/ /\ inLocked
        /\ CheckGo("remove") /\ UNCHANGED <<cidx, jidx, inLocked, todo>>
     \/ /\ ~inLocked /\ todo # {}
        /\ todo' = Surplus(cdev, todo)
        /\ CheckGo("remove") /\ UNCHANGED <<cidx, jidx, inLocked>>
     \/ /\ ~inLocked /\ todo = {} /\ placement[cdev] = NoPlacement
        /\ Release
     \/ /\ ~inLocked /\ todo = {} /\ placement[cdev] # NoPlacement
        /\ CheckGo("find") /\ UNCHANGED <<cidx, jidx, inLocked, todo>>
  /\ UNCHANGED <<clusters, groups, worldVars, threadVars, clusterHist>>

RemoveSurplus ==
  /\ CheckAt("remove")
  /\ IF todo = {}
     THEN Release /\ UNCHANGED <<groups, clusters>>
     ELSE /\ removeDeviceFromCluster(cdev, Min(todo))
          /\ todo' = todo \ {Min(todo)}
          /\ CheckGo("remove") /\ UNCHANGED <<cidx, jidx, inLocked>>
  /\ UNCHANGED <<worldVars, threadVars, clusterHist>>

(* findOrCreateCluster finds locked clusters too, and takes any cluster    *)
(* without an application                                                  *)
MatchingClusters(d) == {c \in ClusterIds : clusters[c].used /\ clusters[c].automatic /\ Fits(c, d)}
FreeClusters        == {c \in ClusterIds : ~clusters[c].used}
findOrCreateCluster ==
  /\ CheckAt("find")
  /\ LET d == cdev
     IN \/ /\ MatchingClusters(d) # {}
           /\ cidx' = Min(MatchingClusters(d))
           /\ CheckGo("assign") /\ UNCHANGED <<clusters, refused, jidx, inLocked, todo>>
        \/ /\ MatchingClusters(d) = {} /\ FreeClusters # {}
           /\ cidx' = Min(FreeClusters)
           /\ clusters' = [clusters EXCEPT ![Min(FreeClusters)] =
                [@ EXCEPT !.used = TRUE, !.automatic = TRUE, !.placement = placement[d]]]
           /\ CheckGo("assign") /\ UNCHANGED <<refused, jidx, inLocked, todo>>
        \/ /\ MatchingClusters(d) = {} /\ FreeClusters = {}
           /\ refused' = refused \cup {d}
           /\ Release /\ UNCHANGED clusters
  /\ UNCHANGED <<groups, worldVars, threadVars, checked, strayed, lockTouched, lockRaced,
                 staleCheck>>
assignDeviceToCluster ==
  /\ CheckAt("assign")
  /\ IF clusters[cidx].locked
     THEN refused' = refused \cup {cdev} /\ UNCHANGED groups
     ELSE groups' = With(groups, cdev, cidx) /\ UNCHANGED refused
  /\ Release
  /\ UNCHANGED <<clusters, worldVars, threadVars, checked, strayed, lockTouched, lockRaced,
                 staleCheck>>

CheckStep ==
  \/ removeInvalidAssignments \/ getFirstLockedClusterAssignment \/ getUnlockedClusterAssignment
  \/ ChooseSurplus \/ RemoveSurplus \/ findOrCreateCluster \/ assignDeviceToCluster

-----------------------------------------------------------------------------
(* joinIdenticalClusters, in the mutex: cidx is ctr, jidx is index         *)

NextOuter ==
  \/ /\ cidx + 1 < NumClusters
     /\ cidx' = cidx + 1 /\ jidx' = 1 /\ CheckGo("outer") /\ UNCHANGED <<inLocked, todo>>
  \/ /\ cidx + 1 >= NumClusters
     /\ Release
JoinOuter ==
  /\ CheckAt("outer")
  /\ \/ /\ Unlocked(cidx)
        /\ jidx' = cidx + 1 /\ CheckGo("inner") /\ UNCHANGED <<cidx, inLocked, todo>>
     \/ /\ ~Unlocked(cidx)
        /\ NextOuter
  /\ UNCHANGED <<clusters, groups, worldVars, threadVars, clusterHist>>
Identical(c1, c2) == Unlocked(c2) /\ clusters[c1].placement = clusters[c2].placement
JoinInner ==
  /\ CheckAt("inner")
  /\ \/ /\ jidx > NumClusters
        /\ NextOuter
     \/ /\ jidx <= NumClusters /\ Identical(cidx, jidx)
        /\ todo' = DevicesIn(groups, jidx)
        /\ CheckGo("move") /\ UNCHANGED <<cidx, jidx, inLocked>>
     \/ /\ jidx <= NumClusters /\ ~Identical(cidx, jidx)
        /\ jidx' = jidx + 1
        /\ CheckGo("inner") /\ UNCHANGED <<cidx, inLocked, todo>>
  /\ UNCHANGED <<clusters, groups, worldVars, threadVars, clusterHist>>
(* removing a device from the source gives back every empty cluster, the   *)
(* destination included                                                    *)
moveClusterDevices ==
  /\ CheckAt("move")
  /\ IF todo = {}
     THEN /\ jidx' = jidx + 1 /\ CheckGo("inner")
          /\ UNCHANGED <<groups, clusters, todo, checked, strayed>>
     ELSE \E d \in todo :
            /\ groups' = With(Without(groups, d, jidx), d, cidx)
            /\ clusters' = removeEmptyAutomaticCluster(Without(groups, d, jidx))
            /\ strayed' = IF clusters'[cidx].used THEN strayed ELSE strayed \cup {d}
            /\ checked' = IF jidx \in lockTouched THEN checked \ {d} ELSE checked
            /\ todo' = todo \ {d} /\ CheckGo("move") /\ UNCHANGED jidx
  /\ UNCHANGED <<worldVars, threadVars, cidx, inLocked, refused, lockTouched, lockRaced,
                 staleCheck>>

JoinStep == JoinOuter \/ JoinInner \/ moveClusterDevices

-----------------------------------------------------------------------------
(* The threads that take the mutex                                         *)

LockFor(thread, step) == holder = "none" /\ holder' = thread /\ cpc' = step
StartCheck(thread, d) ==
  /\ LockFor(thread, "invalid") /\ cdev' = d /\ cidx' = 1
  /\ checked' = checked \cup {d} /\ refused' = refused \ {d}
  /\ UNCHANGED <<jidx, inLocked, todo, strayed, lockTouched, lockRaced>>

LoopFree == loopDevice = NoDevice /\ holder # "model"

(* the model thread looks the device up before it takes the mutex *)
onAutoClusterMaintenance ==
  /\ modelEvents # <<>> /\ LoopFree /\ Head(modelEvents)[1] = "etDeviceDirty"
  /\ modelEvents' = Tail(modelEvents)
  /\ loopDevice' = IF Head(modelEvents)[2] \in devices THEN Head(modelEvents)[2] ELSE NoDevice
  /\ UNCHANGED <<clusters, groups, worldVars, taskDevices, taskStarted, joinStarted, holder, cpc,
                 localVars, clusterHist>>
LoopChecks ==
  /\ loopDevice # NoDevice
  /\ StartCheck("model", loopDevice) /\ loopDevice' = NoDevice
  /\ UNCHANGED <<clusters, groups, worldVars, modelEvents, taskDevices, taskStarted, joinStarted,
                 staleCheck>>
onAutoClusterCleanup ==
  /\ modelEvents # <<>> /\ LoopFree /\ Head(modelEvents)[1] = "etClusterCleanup"
  /\ holder = "none"
  /\ modelEvents' = Tail(modelEvents)
  /\ clusters' = removeEmptyAutomaticCluster(groups)
  /\ UNCHANGED <<groups, worldVars, loopDevice, taskDevices, taskStarted, joinStarted, holder, cpc,
                 localVars, clusterHist>>

(* the list of devices is copied before the first check *)
globalConsistencyCheck ==
  /\ ~taskStarted /\ taskStarted' = TRUE /\ taskDevices' = devices
  /\ UNCHANGED <<clusters, groups, worldVars, modelEvents, loopDevice, joinStarted, holder, cpc,
                 localVars, clusterHist>>
TaskChecks ==
  \E d \in taskDevices :
    /\ StartCheck("task", d)
    /\ taskDevices' = taskDevices \ {d}
    /\ staleCheck' = (staleCheck \/ d \notin devices)
    /\ UNCHANGED <<clusters, groups, worldVars, modelEvents, loopDevice, taskStarted, joinStarted>>
joinIdenticalClusters ==
  /\ ~joinStarted /\ joinStarted' = TRUE
  /\ LockFor("meter", "outer") /\ cidx' = 1
  /\ UNCHANGED <<clusters, groups, worldVars, modelEvents, loopDevice, taskDevices, taskStarted,
                 cdev, jidx, inLocked, todo, clusterHist>>

-----------------------------------------------------------------------------
(* Requests                                                                *)

Requests == requests < MaxRequests /\ requests' = requests + 1

(* setCardinalDirection and setWindProtectionClass, which keep the mutex of *)
(* the device until the event is posted; a check reads without it           *)
setPlacement(d, p) ==
  /\ Requests /\ d \in devices /\ p # placement[d] /\ Dirty(d) \notin posting
  /\ placement' = [placement EXCEPT ![d] = p]
  /\ posting' = posting \cup {Dirty(d)}
  /\ UNCHANGED <<clusters, groups, devices, threadVars, holder, cpc, localVars, clusterHist>>
removeDevice(d) ==
  /\ Requests /\ d \in devices /\ holder = "none"
  /\ devices' = devices \ {d}
  /\ posting' = posting \cup {Cleanup(d)}
  /\ UNCHANGED <<clusters, groups, placement, threadVars, holder, cpc, localVars, clusterHist>>
(* by a request, or by another server through the bus *)
setConfigurationLocked(c) ==
  /\ Requests
  /\ clusters' = [clusters EXCEPT ![c].locked = ~@]
  /\ lockTouched' = lockTouched \cup {c} /\ lockRaced' = (lockRaced \/ holder # "none")
  /\ UNCHANGED <<groups, placement, devices, posting, threadVars, holder, cpc, localVars, checked,
                 refused, strayed, staleCheck>>
PostModelEvent(e) ==
  /\ e \in posting /\ posting' = posting \ {e}
  /\ modelEvents' = Append(modelEvents, e)
  /\ UNCHANGED <<clusters, groups, placement, devices, requests, loopDevice, taskDevices,
                 taskStarted, joinStarted, holder, cpc, localVars, clusterHist>>

-----------------------------------------------------------------------------
ClustersInit ==
  /\ \E s \in ClusterStarts :
       clusters = s.clusters /\ groups = s.groups /\ placement = s.placement
  /\ devices = BlindDevices /\ requests = 0 /\ posting = {} /\ modelEvents = <<>>
  /\ loopDevice = NoDevice /\ taskDevices = {} /\ taskStarted = FALSE /\ joinStarted = FALSE
  /\ holder = "none" /\ cpc = "free" /\ cdev = NoDevice /\ cidx = 1 /\ jidx = 1
  /\ inLocked = FALSE /\ todo = {}
  /\ checked = {} /\ refused = {} /\ lockTouched = {}
  /\ strayed = {d \in BlindDevices : \E c \in groups[d] : ~clusters[c].used}
  /\ lockRaced = FALSE /\ staleCheck = FALSE

ChangeRequest ==
  \/ \E d \in BlindDevices : removeDevice(d) \/ \E p \in Placements : setPlacement(d, p)
  \/ \E c \in ClusterIds : setConfigurationLocked(c)
ClusterLoopStep == onAutoClusterMaintenance \/ onAutoClusterCleanup \/ LoopChecks
PostNext == \E e \in posting : PostModelEvent(e)
ClustersNext ==
  \/ CheckStep \/ JoinStep \/ ClusterLoopStep \/ globalConsistencyCheck \/ TaskChecks
  \/ joinIdenticalClusters \/ ChangeRequest \/ PostNext

ClustersSpec == ClustersInit /\ [][ClustersNext]_clusterVars

-----------------------------------------------------------------------------
(* Once a device was checked and no change of it is on its way, it is in   *)
(* no unlocked automatic cluster of another placement, and in one at most: *)
(* a change that comes during a check is not lost.  Clusters whose lock    *)
(* was changed are left out, they keep what they had, and devices that     *)
(* joining moved from one: they get the placement of the cluster.          *)
FollowsDevice ==
  \A d \in (devices \cap checked) \ strayed :
    LET mine == {c \in groups[d] \ lockTouched : Unlocked(c)}
        onItsWay == \/ Dirty(d) \in posting \cup ToSet(modelEvents)
                    \/ loopDevice = d
                    \/ holder \in {"model", "task"} /\ cdev = d
    IN ~onItsWay /\ ~lockRaced =>
         /\ \A c \in mine : Fits(c, d) /\ placement[d] # NoPlacement
         /\ Cardinality(mine) <= 1

(* No device is in a cluster that is free to be taken for another          *)
(* placement, except where joining gave the destination back (strayed)     *)
FreeIsEmpty ==
  \A c \in ClusterIds : ~clusters[c].used => DevicesIn(groups, c) \subseteq strayed

(* The clusters of a device are those of its placement (FollowsDevice),    *)
(* and a free cluster has none (FreeIsEmpty).                              *)
ClustersAreExact == FollowsDevice /\ FreeIsEmpty

(* In the end every unlocked automatic cluster without devices was given   *)
(* back, unless the task made it for a device that is gone                 *)
ClustersAreFreed ==
  <>[](\A c \in ClusterIds \ lockTouched :
         Unlocked(c) /\ HasNoDevice(groups, c) => staleCheck)

(* In the end every checked device with a placement is in a cluster for    *)
(* it, unless there was none to take or a lock forbids it                  *)
AssignedInTheEnd ==
  <>[](lockRaced \/ \A d \in devices \cap checked :
         \/ placement[d] = NoPlacement \/ d \in refused \cup strayed
         \/ \E c \in groups[d] : clusters[c].automatic /\ Fits(c, d))

(* In the end the clusters fit the devices: no cluster is empty, and no     *)
(* device is without one                                                    *)
ClustersSettle == ClustersAreFreed /\ AssignedInTheEnd
=============================================================================
