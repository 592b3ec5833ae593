------------------------- MODULE AutoClustersProofs -------------------------
(***************************************************************************)
(* Proofs about AutoClusters, for any devices, clusters, directions and    *)
(* classes, and any number of requests.                                    *)
(***************************************************************************)
EXTENDS AutoClusters, FiniteSetTheorems, NaturalsInduction, WellFoundedInduction, TLAPS

CheckSteps == {"invalid", "locked", "unlocked", "decide", "remove", "find", "assign"}
JoinSteps  == {"outer", "inner", "move"}
Posts      == {"etDeviceDirty", "etClusterCleanup"} \X BlindDevices

ShapeOK ==
  /\ clusters \in [ClusterIds -> ClusterTypes] /\ groups \in [BlindDevices -> SUBSET ClusterIds]
  /\ placement \in [BlindDevices -> Placements] /\ devices \subseteq BlindDevices
  /\ requests \in 0 .. MaxRequests /\ cidx \in ClusterIds
  /\ \A c \in ClusterIds : clusters[c].automatic => clusters[c].used
QueuesOK ==
  /\ posting \subseteq Posts /\ modelEvents \in Seq(Posts)
  /\ loopDevice \in BlindDevices \cup {NoDevice} /\ taskDevices \subseteq BlindDevices

(* The mutex: who has it and where he is *)
HolderOK ==
  \/ holder = "none" /\ cpc = "free"
  \/ holder \in {"model", "task"} /\ cpc \in CheckSteps /\ cdev \in BlindDevices
  \/ holder = "meter" /\ cpc \in JoinSteps
TargetOK == cpc = "assign" => clusters[cidx].used

(* A device whose placement has changed is on its way to another check *)
Pending(d) == Dirty(d) \in posting \cup ToSet(modelEvents) \/ loopDevice = d

(* the clusters that a check would move the device out of *)
Mine(d) == {c \in groups[d] : Unlocked(c)}
Fitting(c, d) == Fits(c, d) /\ placement[d] # NoPlacement

(* What a check has achieved so far.  It holds as long as the placement     *)
(* and the locks stay as they are.                                          *)
CheckedSoFar(d) ==
  /\ \A c \in Mine(d) : (cpc = "invalid" /\ c >= cidx) \/ Fitting(c, d)
  /\ cpc = "decide" => todo = Mine(d)
  /\ cpc = "remove" => \A c1, c2 \in Mine(d) \ todo : c1 = c2
  /\ cpc \in {"find", "assign"} => Mine(d) = {} /\ placement[d] # NoPlacement
  /\ cpc = "assign" => Fits(cidx, d)
Undisturbed(d) == ~lockRaced /\ ~Pending(d) /\ d \in devices \ strayed
CheckOK == cpc \in CheckSteps /\ Undisturbed(cdev) => CheckedSoFar(cdev)

(* Where devices are moved from, as long as there are any, and where to *)
JoinOK ==
  /\ cpc = "inner" => jidx \in Nat \ {0}
  /\ cpc = "move" =>
       /\ jidx \in ClusterIds /\ todo \subseteq DevicesIn(groups, jidx)
       /\ todo # {} /\ ~lockRaced =>
            /\ Unlocked(jidx)
            /\ clusters[cidx].used => clusters[cidx].placement = clusters[jidx].placement

(* FollowsDevice, without counting *)
Settled(d) ==
  /\ \A c \in Mine(d) \ lockTouched : Fitting(c, d)
  /\ \A c1, c2 \in Mine(d) \ lockTouched : c1 = c2
InCheck(d) == cpc \in CheckSteps /\ cdev = d
SettledOK ==
  \A d \in checked : Undisturbed(d) /\ ~InCheck(d) => Settled(d)

ClustersInv ==
  /\ ShapeOK /\ QueuesOK /\ HolderOK /\ TargetOK
  /\ FreeIsEmpty /\ CheckOK /\ JoinOK /\ SettledOK

-----------------------------------------------------------------------------
(* Facts about the operators                                               *)

(* The first of a set of clusters is one of them *)
LEMMA MinOfClusters ==
  ASSUME NEW S \in SUBSET ClusterIds, S # {}
  PROVE  Min(S) \in S
<1> DEFINE R == {ss \in Nat \X Nat : ss[1] < ss[2]}
<1>1. IsWellFoundedOn(R, Nat)
  BY NatLessThanWellFounded, Zenon DEF OpToRel
<1>2. S \subseteq Nat
  BY DEF ClusterIds
<1>3. PICK x \in S : \A y \in S : <<y, x>> \notin R
  <2> HIDE DEF R
  <2> QED BY <1>1, <1>2, WFMin
<1>4. ASSUME NEW y \in S PROVE x <= y
  <2>1. x \in Nat /\ y \in Nat /\ ~(y < x)
    BY <1>2, <1>3
  <2> QED BY <2>1
<1> QED BY <1>3, <1>4 DEF Min

(* A set without two elements has at most one *)
LEMMA AtMostOne ==
  ASSUME NEW S, \A x, y \in S : x = y
  PROVE  Cardinality(S) <= 1
<1>1. CASE S = {}
  BY <1>1, FS_EmptySet
<1>2. CASE S # {}
  <2>1. PICK x \in S : S = {x}
    BY <1>2
  <2> QED BY <2>1, FS_Singleton
<1> QED BY <1>1, <1>2

(* The events in the queue of the model thread *)
LEMMA PostedEvents ==
  ASSUME NEW q \in Seq(Posts)
  PROVE  /\ ToSet(q) \subseteq Posts
         /\ \A e \in Posts : Append(q, e) \in Seq(Posts) /\ ToSet(Append(q, e)) = ToSet(q) \cup {e}
         /\ q # <<>> => /\ Tail(q) \in Seq(Posts) /\ Head(q) \in Posts
                        /\ ToSet(q) = ToSet(Tail(q)) \cup {Head(q)}
<1>1. ToSet(q) \subseteq Posts
  BY DEF ToSet
<1>2. ASSUME NEW e \in Posts
      PROVE  Append(q, e) \in Seq(Posts) /\ ToSet(Append(q, e)) = ToSet(q) \cup {e}
  <2>1. DOMAIN Append(q, e) = 1 .. Len(q) + 1 /\ DOMAIN q = 1 .. Len(q) /\ Len(q) \in Nat
    OBVIOUS
  <2>2. \A k \in 1 .. Len(q) : Append(q, e)[k] = q[k]
    OBVIOUS
  <2>3. Append(q, e)[Len(q) + 1] = e
    OBVIOUS
  <2>4. ToSet(Append(q, e)) \subseteq ToSet(q) \cup {e}
    BY <2>1, <2>2, <2>3 DEF ToSet
  <2>5. ToSet(q) \cup {e} \subseteq ToSet(Append(q, e))
    <3>1. Len(q) + 1 \in DOMAIN Append(q, e) /\ \A k \in DOMAIN q : k \in DOMAIN Append(q, e)
      BY <2>1
    <3> QED BY <2>1, <2>2, <2>3, <3>1 DEF ToSet
  <2> QED BY <2>4, <2>5
<1>3. ASSUME q # <<>>
      PROVE  /\ Tail(q) \in Seq(Posts) /\ Head(q) \in Posts
             /\ ToSet(q) = ToSet(Tail(q)) \cup {Head(q)}
  <2>1. Len(q) \in Nat \ {0} /\ DOMAIN q = 1 .. Len(q) /\ DOMAIN Tail(q) = 1 .. Len(q) - 1
    BY <1>3
  <2>2. \A k \in 1 .. Len(q) - 1 : Tail(q)[k] = q[k + 1]
    BY <1>3
  <2>3. Head(q) = q[1]
    BY <1>3
  <2>4. ToSet(q) \subseteq ToSet(Tail(q)) \cup {Head(q)}
    <3> SUFFICES ASSUME NEW k \in DOMAIN q, k # 1 PROVE q[k] \in ToSet(Tail(q))
      BY <2>3 DEF ToSet
    <3>1. k - 1 \in DOMAIN Tail(q) /\ Tail(q)[k - 1] = q[k]
      BY <2>1, <2>2
    <3> QED BY <3>1 DEF ToSet
  <2>5. ToSet(Tail(q)) \cup {Head(q)} \subseteq ToSet(q)
    <3>1. 1 \in DOMAIN q /\ \A k \in DOMAIN Tail(q) : k + 1 \in DOMAIN q
      BY <2>1
    <3> QED BY <2>1, <2>2, <2>3, <3>1 DEF ToSet
  <2>6. Tail(q) \in Seq(Posts) /\ Head(q) \in Posts
    BY <1>3
  <2> QED BY <2>4, <2>5, <2>6
<1> QED BY <1>1, <1>2, <1>3

(* A step is one of a check, of joining or none *)
LEMMA StepsDistinct == /\ CheckSteps \cap JoinSteps = {}
                       /\ "free" \notin CheckSteps \cup JoinSteps
BY DEF CheckSteps, JoinSteps

(* What is known of a device depends on these variables only *)
LEMMA DeviceFrame ==
  ASSUME UNCHANGED <<clusters, groups, placement, devices, strayed, lockTouched, lockRaced>>,
         UNCHANGED <<posting, modelEvents, loopDevice>>
  PROVE  \A d : /\ Mine(d)' = Mine(d) /\ Settled(d)' = Settled(d)
                /\ Undisturbed(d)' = Undisturbed(d)
                /\ \A c : Fitting(c, d)' = Fitting(c, d) /\ Fits(c, d)' = Fits(c, d)
BY DEF Mine, Settled, Undisturbed, Fitting, Fits, Pending, Unlocked

(* Clusters and devices as they are are in order *)
LEMMA WorldFrame ==
  ASSUME ClustersInv, cidx' \in ClusterIds,
         UNCHANGED <<clusters, groups, placement, devices, requests, strayed>>,
         UNCHANGED <<posting, modelEvents, loopDevice, taskDevices>>
  PROVE  ShapeOK' /\ QueuesOK' /\ FreeIsEmpty'
BY DEF ClustersInv, ShapeOK, QueuesOK, FreeIsEmpty, DevicesIn

(* A cluster is given back only when it is empty *)
LEMMA GiveBack ==
  ASSUME ClustersInv, NEW g \in [BlindDevices -> SUBSET ClusterIds],
         clusters' = removeEmptyAutomaticCluster(g)
  PROVE  /\ clusters' \in [ClusterIds -> ClusterTypes]
         /\ \A c \in ClusterIds : /\ clusters'[c].automatic => clusters'[c].used
                                  /\ \/ clusters'[c] = clusters[c]
                                     \/ /\ Unlocked(c) /\ HasNoDevice(g, c)
                                        /\ clusters'[c] = ResetCluster
<1>1. clusters \in [ClusterIds -> ClusterTypes]
  BY DEF ClustersInv, ShapeOK
<1>2. ResetCluster \in ClusterTypes
  BY ClustersAssumption DEF ResetCluster, ClusterTypes
<1>3. \A c \in ClusterIds : clusters'[c] =
        IF Unlocked(c) /\ HasNoDevice(g, c) THEN ResetCluster ELSE clusters[c]
  BY DEF removeEmptyAutomaticCluster
<1>4. \A c \in ClusterIds : clusters[c].automatic => clusters[c].used
  BY DEF ClustersInv, ShapeOK
<1>5. clusters' \in [ClusterIds -> ClusterTypes]
  BY <1>1, <1>2 DEF removeEmptyAutomaticCluster
<1>6. ~ResetCluster.automatic
  BY DEF ResetCluster
<1> QED BY <1>3, <1>4, <1>5, <1>6

(* Taking a device out of a cluster, no device gets into another one *)
LEMMA RemovalIsExact ==
  ASSUME ClustersInv, NEW d \in BlindDevices, NEW k, removeDeviceFromCluster(d, k),
         UNCHANGED <<devices, strayed, lockTouched, placement>>
  PROVE  /\ groups' \in [BlindDevices -> SUBSET ClusterIds]
         /\ clusters' \in [ClusterIds -> ClusterTypes]
         /\ \A c \in ClusterIds : clusters'[c].automatic => clusters'[c].used
         /\ FreeIsEmpty'
         /\ \A e \in BlindDevices : Mine(e)' \subseteq Mine(e)
         /\ k \notin Mine(d)'
         /\ \A c \in ClusterIds : Unlocked(c)' => clusters'[c] = clusters[c]
         /\ \A e \in BlindDevices : Settled(e) => Settled(e)'
<1> DEFINE g == Without(groups, d, k)
<1>1. groups \in [BlindDevices -> SUBSET ClusterIds]
  BY DEF ClustersInv, ShapeOK
<1>2. g \in [BlindDevices -> SUBSET ClusterIds] /\ k \notin g[d]
         /\ \A e \in BlindDevices : g[e] \subseteq groups[e]
  BY <1>1 DEF Without
<1>3. groups' = g /\ clusters' = removeEmptyAutomaticCluster(g)
  BY DEF removeDeviceFromCluster
<1> HIDE DEF g
<1>4. /\ clusters' \in [ClusterIds -> ClusterTypes]
      /\ \A c \in ClusterIds : /\ clusters'[c].automatic => clusters'[c].used
                               /\ \/ clusters'[c] = clusters[c]
                                  \/ /\ Unlocked(c) /\ HasNoDevice(g, c)
                                     /\ clusters'[c] = ResetCluster
  BY <1>2, <1>3, GiveBack
<1>5. \A c \in ClusterIds : Unlocked(c)' => clusters'[c] = clusters[c] /\ Unlocked(c)
  BY <1>4 DEF Unlocked, ResetCluster
<1>6. \A e \in BlindDevices : Mine(e)' \subseteq Mine(e)
  BY <1>2, <1>3, <1>5 DEF Mine
<1>7. k \notin Mine(d)'
  BY <1>2, <1>3 DEF Mine
<1>8. FreeIsEmpty'
  <2> SUFFICES ASSUME NEW c \in ClusterIds, ~clusters'[c].used, NEW e \in devices, c \in g[e]
               PROVE  e \in strayed
    BY <1>3 DEF FreeIsEmpty, DevicesIn
  <2>1. e \in BlindDevices /\ c \in groups[e]
    BY <1>2 DEF ClustersInv, ShapeOK
  <2>2. ~HasNoDevice(g, c)
    BY DEF HasNoDevice, DevicesIn
  <2>3. clusters'[c] = clusters[c]
    BY <1>4, <2>2
  <2> QED BY <2>1, <2>3 DEF ClustersInv, FreeIsEmpty, DevicesIn
<1>9. ASSUME NEW e \in BlindDevices, Settled(e) PROVE Settled(e)'
  <2>1. \A c \in Mine(e)' : c \in Mine(e) /\ c \in ClusterIds /\ Unlocked(c)'
    BY <1>2, <1>3, <1>6 DEF Mine
  <2>2. \A c \in Mine(e)' : Fitting(c, e) => Fitting(c, e)'
    BY <1>5, <2>1 DEF Fitting, Fits
  <2> QED BY <1>9, <2>1, <2>2 DEF Settled
<1> QED BY <1>2, <1>3, <1>4, <1>5, <1>6, <1>7, <1>8, <1>9

-----------------------------------------------------------------------------
(* The check of a device                                                   *)

(* Where the clusters stay as they are, a device stays settled; one that    *)
(* leaves its check has to be settled by then.                              *)
LEMMA SettledFrame ==
  ASSUME SettledOK, checked' = checked,
         UNCHANGED <<clusters, groups, placement, devices, strayed, lockTouched, lockRaced>>,
         UNCHANGED <<posting, modelEvents, loopDevice>>,
         \A d : InCheck(d) /\ ~InCheck(d)' /\ Undisturbed(d) => Settled(d)
  PROVE  SettledOK'
BY DeviceFrame DEF SettledOK

(* A step of a check that changes its local variables only *)
LEMMA CheckFrame ==
  ASSUME ClustersInv, cpc \in CheckSteps, cpc' \in CheckSteps, cidx' \in ClusterIds,
         cpc' = "assign" => clusters[cidx'].used,
         UNCHANGED <<clusters, groups, placement, devices, requests, strayed, lockTouched, lockRaced>>,
         UNCHANGED <<posting, modelEvents, loopDevice, taskDevices, checked, holder, cdev>>,
         Undisturbed(cdev) => CheckedSoFar(cdev)'
  PROVE  ClustersInv'
<1>1. ShapeOK' /\ QueuesOK' /\ FreeIsEmpty'
  BY WorldFrame
<1>2. HolderOK' /\ TargetOK'
  BY StepsDistinct DEF ClustersInv, HolderOK, TargetOK
<1>3. CheckOK'
  <2>1. Undisturbed(cdev)' = Undisturbed(cdev)
    BY DEF Undisturbed, Pending
  <2> QED BY <2>1 DEF CheckOK
<1>4. JoinOK'
  BY StepsDistinct DEF JoinOK, JoinSteps
<1>5. SettledOK'
  BY SettledFrame DEF ClustersInv, InCheck
<1> QED BY <1>1, <1>2, <1>3, <1>4, <1>5 DEF ClustersInv

(* A check ends with a device that is where it belongs *)
LEMMA CheckEnds ==
  ASSUME ClustersInv, cpc \in CheckSteps, Release,
         UNCHANGED <<clusters, groups, placement, devices, requests, strayed, lockTouched, lockRaced>>,
         UNCHANGED <<posting, modelEvents, loopDevice, taskDevices, checked>>,
         Undisturbed(cdev) => Settled(cdev)
  PROVE  ClustersInv'
<1>1. cidx' \in ClusterIds
  BY ClustersAssumption DEF Release, ClusterIds
<1>2. ShapeOK' /\ QueuesOK' /\ FreeIsEmpty'
  BY <1>1, WorldFrame
<1>3. HolderOK' /\ TargetOK' /\ CheckOK' /\ JoinOK'
  BY StepsDistinct DEF Release, HolderOK, TargetOK, CheckOK, JoinOK
<1>4. SettledOK'
  BY SettledFrame DEF ClustersInv, InCheck
<1> QED BY <1>2, <1>3, <1>4 DEF ClustersInv

(* The rest of the invariant after a device was taken out of a cluster *)
LEMMA RemovalKeeps ==
  ASSUME ClustersInv, cpc \in CheckSteps, cpc' \in CheckSteps \ {"assign"}, cidx' \in ClusterIds,
         NEW k, removeDeviceFromCluster(cdev, k),
         UNCHANGED <<placement, devices, requests, strayed, lockTouched, lockRaced>>,
         UNCHANGED <<posting, modelEvents, loopDevice, taskDevices, checked, holder, cdev>>,
         Undisturbed(cdev) => CheckedSoFar(cdev)'
  PROVE  ClustersInv'
<1>1. cdev \in BlindDevices
  BY StepsDistinct DEF ClustersInv, HolderOK
<1>2. ShapeOK' /\ FreeIsEmpty'
  BY <1>1, RemovalIsExact DEF ClustersInv, ShapeOK
<1>3. QueuesOK' /\ HolderOK' /\ TargetOK'
  BY StepsDistinct DEF ClustersInv, QueuesOK, HolderOK, TargetOK
<1>4. \A d : Undisturbed(d)' = Undisturbed(d) /\ InCheck(d)' = InCheck(d)
  BY DEF Undisturbed, Pending, InCheck
<1>5. CheckOK' /\ JoinOK'
  BY <1>4, StepsDistinct DEF CheckOK, JoinOK, JoinSteps
<1>6. SettledOK'
  <2> SUFFICES ASSUME NEW d \in checked, Undisturbed(d), ~InCheck(d) PROVE Settled(d)'
    BY <1>4 DEF SettledOK
  <2>1. d \in BlindDevices /\ Settled(d)
    BY DEF ClustersInv, ShapeOK, SettledOK, Undisturbed
  <2> QED BY <1>1, <2>1, RemovalIsExact
<1> QED BY <1>2, <1>3, <1>5, <1>6 DEF ClustersInv

(* removeInvalidAssignments: the clusters it has passed fit *)
LEMMA InvalidInv == ClustersInv /\ removeInvalidAssignments => ClustersInv'
<1> SUFFICES ASSUME ClustersInv, removeInvalidAssignments PROVE ClustersInv'
  OBVIOUS
<1>1. /\ cpc = "invalid" /\ cpc' \in {"invalid", "locked"} /\ UNCHANGED <<holder, cdev>>
      /\ UNCHANGED <<placement, devices, requests, strayed, lockTouched, lockRaced>>
      /\ UNCHANGED <<posting, modelEvents, loopDevice, taskDevices, checked>>
  BY DEF removeInvalidAssignments, CheckAt, CheckGo, worldVars, threadVars, clusterHist
<1>2. /\ cidx \in ClusterIds /\ NumClusters \in Nat \ {0} /\ cidx' \in ClusterIds
      /\ cpc' = "invalid" => cidx' = cidx + 1
      /\ cpc' = "locked" => cidx = NumClusters
  BY ClustersAssumption DEF ClustersInv, ShapeOK, ClusterIds, removeInvalidAssignments, CheckGo
<1>3. cdev \in BlindDevices /\ groups[cdev] \subseteq ClusterIds
  BY <1>1, StepsDistinct DEF ClustersInv, HolderOK, ShapeOK, CheckSteps
<1>4. /\ Mine(cdev)' \subseteq Mine(cdev)
      /\ \A c \in Mine(cdev)' : c \in ClusterIds /\ clusters'[c] = clusters[c]
      /\ \A c \in Mine(cdev)' : c = cidx => Fitting(c, cdev)
  <2>1. CASE IsInvalid(cidx, cdev)
    <3>1. removeDeviceFromCluster(cdev, cidx)
      BY <2>1 DEF removeInvalidAssignments
    <3>2. /\ Mine(cdev)' \subseteq Mine(cdev) /\ cidx \notin Mine(cdev)'
          /\ \A c \in ClusterIds : Unlocked(c)' => clusters'[c] = clusters[c]
      BY <1>1, <1>3, <3>1, RemovalIsExact
    <3> QED BY <1>1, <1>3, <3>2 DEF Mine
  <2>2. CASE ~IsInvalid(cidx, cdev)
    <3>1. UNCHANGED <<groups, clusters>>
      BY <2>2 DEF removeInvalidAssignments
    <3> QED BY <1>1, <1>3, <2>2, <3>1 DEF Mine, Unlocked, IsInvalid, Fitting
  <2> QED BY <2>1, <2>2
<1>5. ASSUME Undisturbed(cdev) PROVE CheckedSoFar(cdev)'
  <2>1. \A c \in Mine(cdev) : c >= cidx \/ Fitting(c, cdev)
    BY <1>1, <1>5 DEF ClustersInv, CheckOK, CheckedSoFar, CheckSteps
  <2>2. \A c \in Mine(cdev)' : Fitting(c, cdev) => Fitting(c, cdev)'
    BY <1>1, <1>4 DEF Fitting, Fits
  <2>3. ASSUME NEW c \in Mine(cdev)' PROVE (cpc' = "invalid" /\ c >= cidx') \/ Fitting(c, cdev)'
    <3>1. c \in ClusterIds /\ (c >= cidx \/ Fitting(c, cdev)) /\ (c = cidx => Fitting(c, cdev))
      BY <1>4, <2>1
    <3>2. c \in Int /\ c <= NumClusters /\ cidx \in Int
      BY <1>2, <3>1 DEF ClusterIds
    <3>3. c = cidx \/ c >= cidx + 1 \/ Fitting(c, cdev)
      BY <3>1, <3>2
    <3> QED BY <1>1, <1>2, <2>2, <3>1, <3>2, <3>3
  <2> QED BY <1>1, <2>3 DEF CheckedSoFar
<1>6. cpc \in CheckSteps /\ cpc' \in CheckSteps \ {"assign"}
  BY <1>1 DEF CheckSteps
<1>7. CASE IsInvalid(cidx, cdev)
  <2>1. removeDeviceFromCluster(cdev, cidx)
    BY <1>7 DEF removeInvalidAssignments
  <2> QED BY <1>1, <1>2, <1>5, <1>6, <2>1, RemovalKeeps
<1>8. CASE ~IsInvalid(cidx, cdev)
  <2>1. UNCHANGED <<groups, clusters>>
    BY <1>8 DEF removeInvalidAssignments
  <2> QED BY <1>1, <1>2, <1>5, <1>6, <2>1, CheckFrame
<1> QED BY <1>7, <1>8

(* getFirstLockedClusterAssignment and getUnlockedClusterAssignment: the    *)
(* clusters that are left all fit, so those found are all there are.        *)
LEMMA FoundInv ==
  ClustersInv /\ (getFirstLockedClusterAssignment \/ getUnlockedClusterAssignment)
    => ClustersInv'
<1> SUFFICES ASSUME ClustersInv,
                    getFirstLockedClusterAssignment \/ getUnlockedClusterAssignment
             PROVE  ClustersInv'
  OBVIOUS
<1>1. /\ \/ cpc = "locked" /\ cpc' = "unlocked"
         \/ /\ cpc = "unlocked" /\ cpc' = "decide"
            /\ todo' = {c \in Assigned(cdev) : ~clusters[c].locked}
      /\ UNCHANGED <<holder, cdev, cidx>>
      /\ UNCHANGED <<clusters, groups, placement, devices, requests, strayed, lockTouched, lockRaced>>
      /\ UNCHANGED <<posting, modelEvents, loopDevice, taskDevices, checked>>
  BY DEF getFirstLockedClusterAssignment, getUnlockedClusterAssignment, CheckAt, CheckGo, worldVars,
         threadVars, clusterHist
<1>2. cpc \in CheckSteps /\ cpc' \in CheckSteps /\ cpc' # "assign" /\ cpc # "invalid"
  BY <1>1 DEF CheckSteps
<1>3. ASSUME Undisturbed(cdev) PROVE CheckedSoFar(cdev)'
  <2>1. \A c \in Mine(cdev) : Fitting(c, cdev)
    BY <1>2, <1>3 DEF ClustersInv, CheckOK, CheckedSoFar
  <2>2. Mine(cdev)' = Mine(cdev) /\ \A c : Fitting(c, cdev)' = Fitting(c, cdev)
    BY <1>1 DEF Mine, Unlocked, Fitting, Fits
  <2>3. {c \in Assigned(cdev) : ~clusters[c].locked} = Mine(cdev)
    BY <2>1 DEF Assigned, Mine, Unlocked, Fitting
  <2> QED BY <1>1, <2>1, <2>2, <2>3 DEF CheckedSoFar
<1> QED BY <1>1, <1>2, <1>3, CheckFrame DEF ClustersInv, ShapeOK

(* One of the clusters found is kept, or none beside a locked one *)
LEMMA SurplusInv == ClustersInv /\ ChooseSurplus => ClustersInv'
<1> SUFFICES ASSUME ClustersInv, ChooseSurplus PROVE ClustersInv'
  OBVIOUS
<1>1. /\ cpc = "decide"
      /\ UNCHANGED <<clusters, groups, placement, devices, requests, strayed, lockTouched, lockRaced>>
      /\ UNCHANGED <<posting, modelEvents, loopDevice, taskDevices, checked>>
  BY DEF ChooseSurplus, CheckAt, worldVars, threadVars, clusterHist
<1>2. cpc \in CheckSteps /\ "remove" \in CheckSteps /\ "find" \in CheckSteps
  BY <1>1 DEF CheckSteps
<1>3. ASSUME Undisturbed(cdev)
      PROVE  todo = Mine(cdev) /\ \A c \in Mine(cdev) : Fitting(c, cdev)
  BY <1>1, <1>2, <1>3 DEF ClustersInv, CheckOK, CheckedSoFar
<1>4. UNCHANGED cdev => /\ Mine(cdev)' = Mine(cdev)
                        /\ \A c : Fitting(c, cdev)' = Fitting(c, cdev)
  BY <1>1 DEF Mine, Unlocked, Fitting, Fits
<1>5. CASE Release
  <2>1. todo = {}
    BY <1>1, <1>5, <1>2 DEF ChooseSurplus, Release, CheckGo
  <2>2. Undisturbed(cdev) => Settled(cdev)
    BY <1>3, <2>1 DEF Settled
  <2> QED BY <1>1, <1>2, <1>5, <2>2, CheckEnds
<1>6. CASE CheckGo("remove") /\ UNCHANGED cidx
  <2>1. todo' = todo \/ (todo # {} /\ todo' = Surplus(cdev, todo))
    BY <1>6 DEF ChooseSurplus, CheckGo, Release
  <2>2. ASSUME Undisturbed(cdev) PROVE \A c1, c2 \in Mine(cdev) \ todo' : c1 = c2
    <3>1. CASE todo' = todo
      BY <1>3, <2>2, <3>1
    <3>2. CASE todo # {} /\ todo' = Surplus(cdev, todo)
      <4>1. placement[cdev] # NoPlacement
        BY <1>3, <2>2, <3>2 DEF Fitting
      <4>2. todo' = todo \ {Min(todo)}
        BY <3>2, <4>1 DEF Surplus
      <4> QED BY <1>3, <2>2, <4>2
    <3> QED BY <2>1, <3>1, <3>2
  <2>3. Undisturbed(cdev) => CheckedSoFar(cdev)'
    BY <1>3, <1>4, <1>6, <2>2 DEF CheckedSoFar, CheckGo
  <2> QED BY <1>1, <1>2, <1>6, <2>3, CheckFrame DEF CheckGo, ClustersInv, ShapeOK
<1>7. CASE CheckGo("find") /\ UNCHANGED cidx
  <2>1. todo = {} /\ placement[cdev] # NoPlacement
    BY <1>7 DEF ChooseSurplus, CheckGo, Release
  <2>2. Undisturbed(cdev) => CheckedSoFar(cdev)'
    BY <1>1, <1>3, <1>4, <1>7, <2>1 DEF CheckedSoFar, CheckGo
  <2> QED BY <1>1, <1>2, <1>7, <2>2, CheckFrame DEF CheckGo, ClustersInv, ShapeOK
<1> QED BY <1>5, <1>6, <1>7 DEF ChooseSurplus

(* The device leaves the clusters it is not to keep *)
LEMMA RemoveInv == ClustersInv /\ RemoveSurplus => ClustersInv'
<1> SUFFICES ASSUME ClustersInv, RemoveSurplus PROVE ClustersInv'
  OBVIOUS
<1>1. /\ cpc = "remove"
      /\ UNCHANGED <<placement, devices, requests, strayed, lockTouched, lockRaced>>
      /\ UNCHANGED <<posting, modelEvents, loopDevice, taskDevices, checked>>
  BY DEF RemoveSurplus, CheckAt, worldVars, threadVars, clusterHist
<1>2. cpc \in CheckSteps
  BY <1>1 DEF CheckSteps
<1>3. ASSUME Undisturbed(cdev)
      PROVE  /\ \A c1, c2 \in Mine(cdev) \ todo : c1 = c2
             /\ \A c \in Mine(cdev) : Fitting(c, cdev)
  BY <1>1, <1>2, <1>3 DEF ClustersInv, CheckOK, CheckedSoFar
<1>4. CASE todo = {}
  <2>1. Release /\ UNCHANGED <<groups, clusters>>
    BY <1>4 DEF RemoveSurplus
  <2>2. Undisturbed(cdev) => Settled(cdev)
    BY <1>3, <1>4 DEF Settled
  <2> QED BY <1>1, <1>2, <2>1, <2>2, CheckEnds
<1>5. CASE todo # {}
  <2> DEFINE k == Min(todo)
  <2>1. /\ removeDeviceFromCluster(cdev, k) /\ todo' = todo \ {k} /\ cpc' = "remove"
        /\ UNCHANGED <<holder, cdev, cidx>>
    BY <1>5 DEF RemoveSurplus, CheckGo
  <2> HIDE DEF k
  <2>2. cdev \in BlindDevices /\ groups \in [BlindDevices -> SUBSET ClusterIds]
    BY <1>2, StepsDistinct DEF ClustersInv, HolderOK, ShapeOK
  <2>3. /\ Mine(cdev)' \subseteq Mine(cdev) /\ k \notin Mine(cdev)'
        /\ \A c \in ClusterIds : Unlocked(c)' => clusters'[c] = clusters[c]
    BY <1>1, <2>1, <2>2, RemovalIsExact
  <2>4. ASSUME Undisturbed(cdev) PROVE CheckedSoFar(cdev)'
    <3>1. \A c \in Mine(cdev)' : Fitting(c, cdev)'
      <4>1. \A c \in Mine(cdev)' : c \in ClusterIds /\ Unlocked(c)' /\ Fitting(c, cdev)
        BY <1>3, <2>2, <2>3, <2>4 DEF Mine
      <4> QED BY <1>1, <2>1, <2>3, <4>1 DEF Fitting, Fits
    <3>2. \A c1, c2 \in Mine(cdev)' \ todo' : c1 = c2
      BY <1>3, <2>1, <2>3, <2>4
    <3> QED BY <2>1, <3>1, <3>2 DEF CheckedSoFar
  <2>5. cpc' \in CheckSteps \ {"assign"} /\ cidx' \in ClusterIds
    BY <2>1 DEF CheckSteps, ClustersInv, ShapeOK
  <2> QED BY <1>1, <1>2, <2>1, <2>4, <2>5, RemovalKeeps
<1> QED BY <1>4, <1>5

(* A cluster that is not used has no device that counts *)
LEMMA FreeHasNone ==
  ASSUME ClustersInv, NEW c \in ClusterIds, ~clusters[c].used, NEW d, Undisturbed(d)
  PROVE  c \notin groups[d]
BY DEF ClustersInv, FreeIsEmpty, DevicesIn, Undisturbed

(* A new cluster for the device is one that nobody is in *)
LEMMA CreateInv ==
  ASSUME ClustersInv, cpc = "find", cpc' = "assign", UNCHANGED <<holder, cdev>>,
         NEW k \in ClusterIds, ~clusters[k].used, cidx' = k,
         clusters' = [clusters EXCEPT ![k] =
           [@ EXCEPT !.used = TRUE, !.automatic = TRUE, !.placement = placement[cdev]]],
         UNCHANGED <<groups, placement, devices, requests, strayed, lockTouched, lockRaced>>,
         UNCHANGED <<posting, modelEvents, loopDevice, taskDevices, checked>>
  PROVE  ClustersInv'
<1>1. cpc \in CheckSteps /\ cpc' \in CheckSteps
  BY DEF CheckSteps
<1>2. cdev \in BlindDevices
  BY <1>1, StepsDistinct DEF ClustersInv, HolderOK
<1>3. clusters \in [ClusterIds -> ClusterTypes] /\ placement[cdev] \in Placements
  BY <1>2 DEF ClustersInv, ShapeOK
<1>4. clusters[k] \in ClusterTypes
  BY <1>3
<1>5. /\ clusters'[k] = [used |-> TRUE, automatic |-> TRUE, locked |-> clusters[k].locked,
                         placement |-> placement[cdev]]
      /\ clusters' \in [ClusterIds -> ClusterTypes]
      /\ \A c \in ClusterIds \ {k} : clusters'[c] = clusters[c]
  BY <1>3, <1>4 DEF ClusterTypes
<1>6. ShapeOK' /\ QueuesOK' /\ HolderOK' /\ TargetOK'
  BY <1>1, <1>5, StepsDistinct DEF ClustersInv, ShapeOK, QueuesOK, HolderOK, TargetOK
<1>7. FreeIsEmpty'
  BY <1>5 DEF ClustersInv, FreeIsEmpty, DevicesIn
<1>8. \A d : Undisturbed(d)' = Undisturbed(d) /\ InCheck(d)' = InCheck(d)
  BY <1>1 DEF Undisturbed, Pending, InCheck
<1>9. ASSUME NEW d, Undisturbed(d)
      PROVE  /\ Mine(d)' = Mine(d) /\ k \notin Mine(d) /\ d \in BlindDevices
             /\ \A c \in Mine(d) : c \in ClusterIds \ {k}
  <2>1. k \notin groups[d] /\ d \in BlindDevices
    BY <1>9, FreeHasNone DEF ClustersInv, ShapeOK, Undisturbed
  <2>2. groups[d] \subseteq ClusterIds
    BY <2>1 DEF ClustersInv, ShapeOK
  <2> QED BY <1>5, <2>1, <2>2 DEF Mine, Unlocked
<1>10. CheckOK'
  <2> SUFFICES ASSUME Undisturbed(cdev) PROVE CheckedSoFar(cdev)'
    BY <1>8 DEF CheckOK
  <2>1. Mine(cdev) = {} /\ placement[cdev] # NoPlacement
    BY <1>1 DEF ClustersInv, CheckOK, CheckedSoFar
  <2>2. Fits(cidx, cdev)'
    BY <1>5 DEF Fits
  <2> QED BY <1>9, <2>1, <2>2 DEF CheckedSoFar
<1>11. JoinOK'
  BY DEF JoinOK
<1>12. SettledOK'
  <2> SUFFICES ASSUME NEW d \in checked, Undisturbed(d), ~InCheck(d) PROVE Settled(d)'
    BY <1>8 DEF SettledOK
  <2>1. Settled(d)
    BY DEF ClustersInv, SettledOK
  <2>2. \A c \in Mine(d) : Fitting(c, d)' = Fitting(c, d)
    BY <1>5, <1>9 DEF Fitting, Fits
  <2> QED BY <1>9, <2>1, <2>2 DEF Settled
<1> QED BY <1>6, <1>7, <1>10, <1>11, <1>12 DEF ClustersInv

(* findOrCreateCluster: the cluster found is used and fits *)
LEMMA FindInv == ClustersInv /\ findOrCreateCluster => ClustersInv'
<1> SUFFICES ASSUME ClustersInv, findOrCreateCluster PROVE ClustersInv'
  OBVIOUS
<1>1. /\ cpc = "find"
      /\ UNCHANGED <<groups, placement, devices, requests, strayed, lockTouched, lockRaced>>
      /\ UNCHANGED <<posting, modelEvents, loopDevice, taskDevices, checked>>
  BY DEF findOrCreateCluster, CheckAt, worldVars, threadVars
<1>2. cpc \in CheckSteps /\ "assign" \in CheckSteps
  BY <1>1 DEF CheckSteps
<1>3. Undisturbed(cdev) => Mine(cdev) = {} /\ placement[cdev] # NoPlacement
  BY <1>1, <1>2 DEF ClustersInv, CheckOK, CheckedSoFar
<1>4. CASE /\ MatchingClusters(cdev) # {} /\ cidx' = Min(MatchingClusters(cdev))
           /\ CheckGo("assign") /\ UNCHANGED clusters
  <2>1. cidx' \in MatchingClusters(cdev)
    BY <1>4, MinOfClusters DEF MatchingClusters
  <2>2. cidx' \in ClusterIds /\ clusters[cidx'].used /\ Fits(cidx', cdev)
    BY <2>1 DEF MatchingClusters
  <2>3. Undisturbed(cdev) => CheckedSoFar(cdev)'
    BY <1>1, <1>3, <1>4, <2>2 DEF CheckedSoFar, CheckGo, Mine, Unlocked, Fits
  <2> QED BY <1>1, <1>2, <1>4, <2>2, <2>3, CheckFrame DEF CheckGo
<1>5. CASE /\ FreeClusters # {} /\ cidx' = Min(FreeClusters)
           /\ clusters' = [clusters EXCEPT ![Min(FreeClusters)] =
                [@ EXCEPT !.used = TRUE, !.automatic = TRUE, !.placement = placement[cdev]]]
           /\ CheckGo("assign")
  <2> DEFINE k == Min(FreeClusters)
  <2>1. k \in FreeClusters
    BY <1>5, MinOfClusters DEF FreeClusters
  <2>2. k \in ClusterIds /\ ~clusters[k].used
    BY <2>1 DEF FreeClusters
  <2>3. /\ cidx' = k /\ cpc' = "assign" /\ UNCHANGED <<holder, cdev>>
        /\ clusters' = [clusters EXCEPT ![k] =
             [@ EXCEPT !.used = TRUE, !.automatic = TRUE, !.placement = placement[cdev]]]
    BY <1>5 DEF CheckGo
  <2> HIDE DEF k
  <2> QED BY <1>1, <2>2, <2>3, CreateInv
<1>6. CASE Release /\ UNCHANGED clusters
  <2>1. Undisturbed(cdev) => Settled(cdev)
    BY <1>3 DEF Settled
  <2> QED BY <1>1, <1>2, <1>6, <2>1, CheckEnds
<1> QED BY <1>4, <1>5, <1>6 DEF findOrCreateCluster

(* assignDeviceToCluster: the only one of the device, and it fits *)
LEMMA AssignInv == ClustersInv /\ assignDeviceToCluster => ClustersInv'
<1> SUFFICES ASSUME ClustersInv, assignDeviceToCluster PROVE ClustersInv'
  OBVIOUS
<1>1. /\ cpc = "assign" /\ Release
      /\ UNCHANGED <<clusters, placement, devices, requests, strayed, lockTouched, lockRaced>>
      /\ UNCHANGED <<posting, modelEvents, loopDevice, taskDevices, checked>>
  BY DEF assignDeviceToCluster, CheckAt, worldVars, threadVars
<1>2. cpc \in CheckSteps /\ clusters[cidx].used /\ cidx \in ClusterIds
  BY <1>1 DEF CheckSteps, ClustersInv, TargetOK, ShapeOK
<1>3. Undisturbed(cdev) => Mine(cdev) = {} /\ placement[cdev] # NoPlacement /\ Fits(cidx, cdev)
  BY <1>1, <1>2 DEF ClustersInv, CheckOK, CheckedSoFar
<1>4. CASE UNCHANGED groups
  <2>1. Undisturbed(cdev) => Settled(cdev)
    BY <1>3 DEF Settled
  <2> QED BY <1>1, <1>2, <1>4, <2>1, CheckEnds
<1>5. CASE groups' = With(groups, cdev, cidx)
  <2>1. cdev \in BlindDevices /\ groups \in [BlindDevices -> SUBSET ClusterIds]
    BY <1>2, StepsDistinct DEF ClustersInv, HolderOK, ShapeOK
  <2>2. /\ groups' \in [BlindDevices -> SUBSET ClusterIds]
        /\ groups'[cdev] = groups[cdev] \cup {cidx}
        /\ \A d \in BlindDevices \ {cdev} : groups'[d] = groups[d]
    BY <1>2, <1>5, <2>1 DEF With
  <2>3. cidx' \in ClusterIds
    BY <1>1, ClustersAssumption DEF Release, ClusterIds
  <2>4. ShapeOK' /\ QueuesOK'
    BY <1>1, <2>2, <2>3 DEF ClustersInv, ShapeOK, QueuesOK
  <2>5. HolderOK' /\ TargetOK' /\ CheckOK' /\ JoinOK'
    BY <1>1, StepsDistinct DEF Release, HolderOK, TargetOK, CheckOK, JoinOK
  <2>6. FreeIsEmpty'
    <3> SUFFICES ASSUME NEW c \in ClusterIds, ~clusters[c].used, NEW d \in devices, c \in groups'[d]
                 PROVE  d \in strayed
      BY <1>1 DEF FreeIsEmpty, DevicesIn
    <3>1. d \in BlindDevices /\ c # cidx
      BY <1>2 DEF ClustersInv, ShapeOK
    <3>2. c \in groups[d]
      BY <2>2, <3>1
    <3> QED BY <3>2 DEF ClustersInv, FreeIsEmpty, DevicesIn
  <2>7. SettledOK'
    <3>1. \A d : Undisturbed(d)' = Undisturbed(d) /\ ~InCheck(d)'
      BY <1>1, StepsDistinct DEF Undisturbed, Pending, InCheck, Release
    <3> SUFFICES ASSUME NEW d \in checked, Undisturbed(d) PROVE Settled(d)'
      BY <1>1, <3>1 DEF SettledOK
    <3>2. d \in BlindDevices /\ \A c : Fitting(c, d)' = Fitting(c, d)
      BY <1>1 DEF ClustersInv, ShapeOK, Undisturbed, Fitting, Fits
    <3>3. CASE d = cdev
      <4>1. Mine(d)' \subseteq {cidx} /\ Fitting(cidx, d)
        BY <1>1, <1>3, <2>2, <3>3 DEF Mine, Unlocked, Fitting
      <4> QED BY <3>2, <4>1 DEF Settled
    <3>4. CASE d # cdev
      <4>1. Settled(d)
        BY <3>4 DEF ClustersInv, SettledOK, InCheck
      <4>2. Mine(d)' = Mine(d)
        BY <1>1, <2>2, <3>2, <3>4 DEF Mine, Unlocked
      <4> QED BY <1>1, <3>2, <4>1, <4>2 DEF Settled
    <3> QED BY <3>3, <3>4
  <2> QED BY <2>4, <2>5, <2>6, <2>7 DEF ClustersInv
<1> QED BY <1>4, <1>5 DEF assignDeviceToCluster

-----------------------------------------------------------------------------
(* Joining clusters                                                        *)

(* A step of joining that changes its local variables only *)
LEMMA JoinFrame ==
  ASSUME ClustersInv, cpc \in JoinSteps, cidx' \in ClusterIds,
         \/ cpc' \in JoinSteps /\ holder' = holder
         \/ cpc' = "free" /\ holder' = "none",
         UNCHANGED <<clusters, groups, placement, devices, requests, strayed, lockTouched, lockRaced>>,
         UNCHANGED <<posting, modelEvents, loopDevice, taskDevices, checked>>,
         JoinOK'
  PROVE  ClustersInv'
<1>1. ShapeOK' /\ QueuesOK' /\ FreeIsEmpty'
  BY WorldFrame
<1>2. HolderOK' /\ TargetOK' /\ CheckOK'
  BY StepsDistinct DEF ClustersInv, HolderOK, TargetOK, CheckOK, CheckSteps
<1>3. SettledOK'
  BY SettledFrame, StepsDistinct DEF ClustersInv, InCheck
<1> QED BY <1>1, <1>2, <1>3 DEF ClustersInv

(* The loops over the clusters stay in their bounds *)
LEMMA JoinLoopsInv == ClustersInv /\ (JoinOuter \/ JoinInner) => ClustersInv'
<1> SUFFICES ASSUME ClustersInv, JoinOuter \/ JoinInner PROVE ClustersInv'
  OBVIOUS
<1>1. /\ cpc \in {"outer", "inner"}
      /\ UNCHANGED <<clusters, groups, placement, devices, requests, strayed, lockTouched, lockRaced>>
      /\ UNCHANGED <<posting, modelEvents, loopDevice, taskDevices, checked>>
  BY DEF JoinOuter, JoinInner, CheckAt, worldVars, threadVars, clusterHist
<1>2. cpc \in JoinSteps /\ {"outer", "inner", "move"} \subseteq JoinSteps
  BY <1>1 DEF JoinSteps
<1>3. cidx \in ClusterIds /\ NumClusters \in Nat \ {0} /\ (cpc = "inner" => jidx \in Nat \ {0})
  BY ClustersAssumption DEF ClustersInv, ShapeOK, JoinOK
<1>4. CASE NextOuter
  <2>1. CASE cidx + 1 < NumClusters /\ cidx' = cidx + 1 /\ CheckGo("outer")
    <3>1. cidx' \in ClusterIds
      BY <1>3, <2>1 DEF ClusterIds
    <3>2. JoinOK'
      BY <2>1 DEF CheckGo, JoinOK
    <3> QED BY <1>1, <1>2, <2>1, <3>1, <3>2, JoinFrame DEF CheckGo
  <2>2. CASE Release
    <3>1. cidx' \in ClusterIds
      BY <1>3, <2>2 DEF ClusterIds, Release
    <3>2. JoinOK'
      BY <2>2 DEF Release, JoinOK
    <3> QED BY <1>1, <1>2, <2>2, <3>1, <3>2, JoinFrame DEF Release
  <2> QED BY <1>4, <2>1, <2>2 DEF NextOuter
<1>5. CASE CheckGo("inner") /\ UNCHANGED cidx /\ (jidx' = cidx + 1 \/ (cpc = "inner" /\ jidx' = jidx + 1))
  <2>1. jidx' \in Nat \ {0}
    BY <1>3, <1>5 DEF ClusterIds
  <2>2. JoinOK'
    BY <1>5, <2>1 DEF CheckGo, JoinOK
  <2> QED BY <1>1, <1>2, <1>3, <1>5, <2>2, JoinFrame DEF CheckGo
<1>6. CASE /\ cpc = "inner" /\ jidx <= NumClusters /\ Identical(cidx, jidx)
           /\ todo' = DevicesIn(groups, jidx) /\ CheckGo("move") /\ UNCHANGED <<cidx, jidx>>
  <2>1. jidx \in ClusterIds
    BY <1>3, <1>6 DEF ClusterIds
  <2>2. JoinOK'
    BY <1>1, <1>6, <2>1 DEF CheckGo, JoinOK, Identical, DevicesIn, Unlocked
  <2> QED BY <1>1, <1>2, <1>3, <1>6, <2>2, JoinFrame DEF CheckGo
<1> QED BY <1>4, <1>5, <1>6 DEF JoinOuter, JoinInner, CheckAt

(* moveClusterDevices: a device of the source goes to the destination, which *)
(* has the same placement or was given back                                  *)
LEMMA MoveInv == ClustersInv /\ moveClusterDevices => ClustersInv'
<1> SUFFICES ASSUME ClustersInv, moveClusterDevices PROVE ClustersInv'
  OBVIOUS
<1>1. /\ cpc = "move" /\ UNCHANGED cidx
      /\ UNCHANGED <<placement, devices, requests, lockTouched, lockRaced>>
      /\ UNCHANGED <<posting, modelEvents, loopDevice, taskDevices>>
  BY DEF moveClusterDevices, CheckAt, worldVars, threadVars
<1>2. cpc \in JoinSteps /\ {"inner", "move"} \subseteq JoinSteps
  BY <1>1 DEF JoinSteps
<1>3. /\ cidx \in ClusterIds /\ jidx \in ClusterIds /\ todo \subseteq DevicesIn(groups, jidx)
      /\ todo # {} /\ ~lockRaced =>
           /\ Unlocked(jidx)
           /\ clusters[cidx].used => clusters[cidx].placement = clusters[jidx].placement
  BY <1>1 DEF ClustersInv, ShapeOK, JoinOK
<1>4. CASE todo = {}
  <2>1. jidx' = jidx + 1 /\ CheckGo("inner") /\ UNCHANGED <<groups, clusters, checked, strayed>>
    BY <1>4 DEF moveClusterDevices
  <2>2. jidx' \in Nat \ {0}
    BY <1>3, <2>1, ClustersAssumption DEF ClusterIds
  <2>3. JoinOK'
    BY <2>1, <2>2 DEF CheckGo, JoinOK
  <2> QED BY <1>1, <1>2, <1>3, <2>1, <2>3, JoinFrame DEF CheckGo
<1>5. CASE todo # {}
  <2>1. PICK d \in todo :
          /\ groups' = With(Without(groups, d, jidx), d, cidx)
          /\ clusters' = removeEmptyAutomaticCluster(Without(groups, d, jidx))
          /\ strayed' = IF clusters'[cidx].used THEN strayed ELSE strayed \cup {d}
          /\ checked' = IF jidx \in lockTouched THEN checked \ {d} ELSE checked
          /\ todo' = todo \ {d} /\ CheckGo("move") /\ UNCHANGED jidx
    BY <1>5 DEF moveClusterDevices
  <2> DEFINE g == Without(groups, d, jidx)
  <2>2. /\ groups \in [BlindDevices -> SUBSET ClusterIds] /\ d \in devices /\ d \in BlindDevices
        /\ jidx \in groups[d] /\ devices \subseteq BlindDevices
    BY <1>3, <2>1 DEF ClustersInv, ShapeOK, DevicesIn
  <2>3. /\ g \in [BlindDevices -> SUBSET ClusterIds] /\ g[d] = groups[d] \ {jidx}
        /\ \A e \in BlindDevices \ {d} : g[e] = groups[e]
    BY <2>2 DEF Without
  <2>4. /\ groups' \in [BlindDevices -> SUBSET ClusterIds] /\ groups'[d] = g[d] \cup {cidx}
        /\ \A e \in BlindDevices \ {d} : groups'[e] = groups[e]
    BY <1>3, <2>1, <2>2, <2>3 DEF With
  <2>5. clusters' = removeEmptyAutomaticCluster(g)
    BY <2>1
  <2> HIDE DEF g
  <2>6. /\ clusters' \in [ClusterIds -> ClusterTypes]
        /\ \A c \in ClusterIds : /\ clusters'[c].automatic => clusters'[c].used
                                 /\ \/ clusters'[c] = clusters[c]
                                    \/ /\ Unlocked(c) /\ HasNoDevice(g, c)
                                       /\ clusters'[c] = ResetCluster
    BY <2>3, <2>5, GiveBack
  <2>7. ~ResetCluster.used /\ ~ResetCluster.automatic
    BY DEF ResetCluster
  <2>8. ShapeOK' /\ QueuesOK'
    BY <1>1, <2>4, <2>6 DEF ClustersInv, ShapeOK, QueuesOK
  <2>9. HolderOK' /\ TargetOK' /\ CheckOK' /\ cpc' = "move"
    BY <1>2, <2>1, StepsDistinct DEF ClustersInv, HolderOK, TargetOK, CheckOK, CheckGo, CheckSteps
  <2>10. FreeIsEmpty'
    <3> SUFFICES ASSUME NEW c \in ClusterIds, ~clusters'[c].used, NEW e \in devices, c \in groups'[e]
                 PROVE  e \in strayed'
      BY <1>1 DEF FreeIsEmpty, DevicesIn
    <3>1. CASE e = d /\ c = cidx
      BY <2>1, <3>1
    <3>2. CASE ~(e = d /\ c = cidx)
      <4>1. c \in g[e] /\ c \in groups[e]
        BY <2>2, <2>3, <2>4, <3>2
      <4>2. ~HasNoDevice(g, c)
        BY <4>1 DEF HasNoDevice, DevicesIn
      <4>3. ~clusters[c].used
        BY <2>6, <4>2
      <4>4. e \in strayed
        BY <4>1, <4>3 DEF ClustersInv, FreeIsEmpty, DevicesIn
      <4> QED BY <2>1, <4>4
    <3> QED BY <3>1, <3>2
  <2>11. JoinOK'
    <3>1. todo' \subseteq DevicesIn(groups, jidx)'
      BY <1>1, <1>3, <2>1, <2>2, <2>4 DEF DevicesIn
    <3>2. ASSUME todo' # {}, ~lockRaced
          PROVE  /\ Unlocked(jidx)'
                 /\ clusters'[cidx].used => clusters'[cidx].placement = clusters'[jidx].placement
      <4>1. PICK e \in todo : e # d
        BY <2>1, <3>2
      <4>2. e \in devices /\ jidx \in g[e]
        BY <1>3, <2>2, <2>3, <4>1 DEF DevicesIn
      <4>3. ~HasNoDevice(g, jidx)
        BY <4>2 DEF HasNoDevice, DevicesIn
      <4>4. clusters'[jidx] = clusters[jidx]
        BY <1>3, <2>6, <4>3
      <4>5. clusters'[cidx].used => clusters'[cidx] = clusters[cidx]
        BY <1>3, <2>6, <2>7
      <4> QED BY <1>3, <1>5, <2>1, <3>2, <4>4, <4>5 DEF Unlocked
    <3> QED BY <1>1, <1>3, <2>1, <2>9, <3>1, <3>2 DEF JoinOK
  <2>12. SettledOK'
    <3> SUFFICES ASSUME NEW e \in checked', Undisturbed(e)' PROVE Settled(e)'
      BY DEF SettledOK
    <3>1. e \in checked /\ Undisturbed(e) /\ (e = d => jidx \notin lockTouched /\ clusters'[cidx].used)
      BY <1>1, <2>1 DEF Undisturbed, Pending
    <3>2. Settled(e) /\ e \in BlindDevices
      BY <1>2, <2>2, <3>1, StepsDistinct DEF ClustersInv, SettledOK, InCheck, Undisturbed
    <3>3. \A c \in ClusterIds : Unlocked(c)' => clusters'[c] = clusters[c]
      BY <2>6, <2>7 DEF Unlocked
    <3>4. \A c \in ClusterIds : Unlocked(c)' => Unlocked(c) /\ Fits(c, e)' = Fits(c, e)
                                                /\ Fitting(c, e)' = Fitting(c, e)
      BY <1>1, <3>3 DEF Unlocked, Fits, Fitting
    <3>5. CASE e # d
      <4>1. \A c \in Mine(e)' : c \in Mine(e) /\ Fitting(c, e)' = Fitting(c, e)
        BY <2>2, <2>4, <3>2, <3>4, <3>5 DEF Mine
      <4> QED BY <1>1, <3>2, <4>1 DEF Settled
    <3>6. CASE e = d
      <4>1. ~lockRaced /\ Unlocked(jidx) /\ jidx \in Mine(d) \ lockTouched
        BY <1>3, <1>5, <2>2, <3>1, <3>6 DEF Undisturbed, Mine
      <4>2. Fitting(jidx, d) /\ \A c \in Mine(d) \ lockTouched : c = jidx
        BY <3>2, <3>6, <4>1 DEF Settled
      <4>3. clusters'[cidx] = clusters[cidx] /\ clusters[cidx].placement = clusters[jidx].placement
        BY <1>3, <1>5, <2>6, <2>7, <3>1, <3>6, <4>1
      <4>4. Fitting(cidx, d)'
        BY <1>1, <4>2, <4>3 DEF Fitting, Fits
      <4>5. ASSUME NEW c \in Mine(d)' \ lockTouched PROVE c = cidx
        <5>1. c = cidx \/ (c \in groups[d] /\ c # jidx /\ c \in ClusterIds /\ Unlocked(c)')
          BY <2>2, <2>3, <2>4 DEF Mine
        <5>2. c = cidx \/ (c \in Mine(d) /\ c # jidx)
          BY <3>4, <5>1 DEF Mine
        <5> QED BY <4>2, <5>2
      <4> QED BY <1>1, <3>6, <4>4, <4>5 DEF Settled
    <3> QED BY <3>5, <3>6
  <2> QED BY <2>8, <2>9, <2>10, <2>11, <2>12 DEF ClustersInv
<1> QED BY <1>4, <1>5

-----------------------------------------------------------------------------
(* The threads and the requests                                            *)

(* A step that leaves the clusters and the mutex alone, and after which no  *)
(* device is undisturbed that was not                                       *)
LEMMA QueueFrame ==
  ASSUME ClustersInv, QueuesOK',
         UNCHANGED <<clusters, groups, placement, devices, requests, strayed, lockTouched, lockRaced>>,
         UNCHANGED <<holder, cpc, cdev, cidx, jidx, todo, checked>>,
         \A d : Undisturbed(d)' => Undisturbed(d)
  PROVE  ClustersInv'
<1>1. ShapeOK' /\ HolderOK' /\ TargetOK' /\ FreeIsEmpty'
  BY DEF ClustersInv, ShapeOK, HolderOK, TargetOK, FreeIsEmpty, DevicesIn
<1>2. \A d : /\ Mine(d)' = Mine(d) /\ Settled(d)' = Settled(d) /\ InCheck(d)' = InCheck(d)
             /\ CheckedSoFar(d)' = CheckedSoFar(d)
  BY DEF Mine, Settled, InCheck, CheckedSoFar, Fitting, Fits, Unlocked
<1>3. CheckOK' /\ SettledOK'
  BY <1>2 DEF ClustersInv, CheckOK, SettledOK
<1>4. JoinOK'
  BY DEF ClustersInv, JoinOK, DevicesIn, Unlocked
<1> QED BY <1>1, <1>3, <1>4 DEF ClustersInv

(* The event of a device is taken from the queue, and the device is checked *)
LEMMA MaintenanceInv == ClustersInv /\ onAutoClusterMaintenance => ClustersInv'
<1> SUFFICES ASSUME ClustersInv, onAutoClusterMaintenance PROVE ClustersInv'
  OBVIOUS
<1> DEFINE h == Head(modelEvents)
<1>1. /\ modelEvents # <<>> /\ loopDevice = NoDevice /\ modelEvents' = Tail(modelEvents)
      /\ loopDevice' = IF h[2] \in devices THEN h[2] ELSE NoDevice
      /\ UNCHANGED <<clusters, groups, placement, devices, requests, strayed, lockTouched, lockRaced>>
      /\ UNCHANGED <<posting, taskDevices, holder, cpc, cdev, cidx, jidx, todo, checked>>
  BY DEF onAutoClusterMaintenance, LoopFree, worldVars, localVars, clusterHist
<1>2. /\ Tail(modelEvents) \in Seq(Posts) /\ h \in Posts
      /\ ToSet(modelEvents) = ToSet(modelEvents') \cup {h}
  BY <1>1, PostedEvents DEF ClustersInv, QueuesOK
<1> HIDE DEF h
<1>3. QueuesOK'
  BY <1>1, <1>2 DEF ClustersInv, QueuesOK, ShapeOK
<1>4. ASSUME NEW d, Undisturbed(d)' PROVE Undisturbed(d)
  <2>1. d \in devices /\ d # NoDevice
    BY <1>1, <1>4, ClustersAssumption DEF Undisturbed, ClustersInv, ShapeOK, NoDevice
  <2>2. h # Dirty(d)
    BY <1>1, <1>4, <2>1 DEF Undisturbed, Pending, Dirty
  <2>3. ~Pending(d)
    BY <1>1, <1>2, <1>4, <2>1, <2>2 DEF Undisturbed, Pending
  <2> QED BY <1>1, <1>4, <2>3 DEF Undisturbed
<1> QED BY <1>1, <1>3, <1>4, QueueFrame

(* A task copies the devices, a request posts its event *)
LEMMA PostInv ==
  ClustersInv /\ (globalConsistencyCheck \/ PostNext) => ClustersInv'
<1> SUFFICES ASSUME ClustersInv, globalConsistencyCheck \/ PostNext PROVE ClustersInv'
  OBVIOUS
<1>1. CASE globalConsistencyCheck
  <2>1. /\ taskDevices' = devices
        /\ UNCHANGED <<clusters, groups, placement, devices, requests, strayed, lockTouched, lockRaced>>
        /\ UNCHANGED <<posting, modelEvents, loopDevice, holder, cpc, cdev, cidx, jidx, todo, checked>>
    BY <1>1 DEF globalConsistencyCheck, worldVars, localVars, clusterHist
  <2>2. QueuesOK' /\ \A d : Undisturbed(d)' => Undisturbed(d)
    BY <2>1 DEF ClustersInv, QueuesOK, ShapeOK, Undisturbed, Pending
  <2> QED BY <2>1, <2>2, QueueFrame
<1>2. CASE PostNext
  <2>1. PICK e \in posting : PostModelEvent(e)
    BY <1>2 DEF PostNext
  <2>2. /\ posting' = posting \ {e} /\ modelEvents' = Append(modelEvents, e)
        /\ UNCHANGED <<clusters, groups, placement, devices, requests, strayed, lockTouched, lockRaced>>
        /\ UNCHANGED <<loopDevice, taskDevices, holder, cpc, cdev, cidx, jidx, todo, checked>>
    BY <2>1 DEF PostModelEvent, localVars, clusterHist
  <2>3. modelEvents' \in Seq(Posts) /\ ToSet(modelEvents') = ToSet(modelEvents) \cup {e}
    BY <2>2, PostedEvents DEF ClustersInv, QueuesOK
  <2>4. QueuesOK' /\ \A d : Undisturbed(d)' => Undisturbed(d)
    BY <2>2, <2>3 DEF ClustersInv, QueuesOK, Undisturbed, Pending
  <2> QED BY <2>2, <2>4, QueueFrame
<1> QED BY <1>1, <1>2

(* A check begins with nothing achieved *)
LEMMA StartInv ==
  ASSUME ClustersInv, NEW t \in {"model", "task"}, NEW d \in BlindDevices, StartCheck(t, d), QueuesOK',
         UNCHANGED <<clusters, groups, placement, devices, requests>>,
         \A e : e # d /\ Undisturbed(e)' => Undisturbed(e)
  PROVE  ClustersInv'
<1>1. /\ holder = "none" /\ holder' = t /\ cpc' = "invalid" /\ cdev' = d /\ cidx' = 1
      /\ checked' = checked \cup {d} /\ UNCHANGED <<jidx, todo, strayed, lockTouched, lockRaced>>
  BY DEF StartCheck, LockFor
<1>2. cpc = "free" /\ cpc' \in CheckSteps /\ cidx' \in ClusterIds /\ 1 \in ClusterIds
  BY <1>1, ClustersAssumption DEF ClustersInv, HolderOK, CheckSteps, ClusterIds
<1>3. ShapeOK' /\ HolderOK' /\ TargetOK' /\ FreeIsEmpty' /\ JoinOK'
  BY <1>1, <1>2 DEF ClustersInv, ShapeOK, HolderOK, TargetOK, FreeIsEmpty, DevicesIn, JoinOK
<1>4. CheckOK'
  <2>1. \A c \in groups[d] : c >= 1
    BY DEF ClustersInv, ShapeOK, ClusterIds
  <2> QED BY <1>1, <2>1 DEF CheckOK, CheckedSoFar, Mine
<1>5. SettledOK'
  <2> SUFFICES ASSUME NEW e \in checked', Undisturbed(e)', ~InCheck(e)' PROVE Settled(e)'
    BY DEF SettledOK
  <2>1. e # d /\ e \in checked /\ Undisturbed(e) /\ ~InCheck(e)
    BY <1>1, <1>2, StepsDistinct DEF InCheck
  <2> QED BY <1>1, <2>1 DEF ClustersInv, SettledOK, Settled, Mine, Unlocked, Fitting, Fits
<1> QED BY <1>3, <1>4, <1>5 DEF ClustersInv

(* The model thread and the task begin a check *)
LEMMA ThreadsCheckInv == ClustersInv /\ (LoopChecks \/ TaskChecks) => ClustersInv'
<1> SUFFICES ASSUME ClustersInv, LoopChecks \/ TaskChecks PROVE ClustersInv'
  OBVIOUS
<1>1. CASE LoopChecks
  <2>1. /\ StartCheck("model", loopDevice) /\ loopDevice' = NoDevice /\ loopDevice \in BlindDevices
        /\ UNCHANGED <<clusters, groups, placement, devices, requests, posting, modelEvents, taskDevices>>
    BY <1>1 DEF LoopChecks, worldVars, ClustersInv, QueuesOK
  <2>2. QueuesOK'
    BY <2>1 DEF ClustersInv, QueuesOK
  <2>3. \A e : e # loopDevice /\ Undisturbed(e)' => Undisturbed(e)
    BY <2>1 DEF Undisturbed, Pending, StartCheck
  <2> QED BY <2>1, <2>2, <2>3, StartInv
<1>2. CASE TaskChecks
  <2>1. PICK d \in taskDevices :
          /\ StartCheck("task", d) /\ taskDevices' = taskDevices \ {d}
          /\ UNCHANGED <<clusters, groups, worldVars, modelEvents, loopDevice>>
    BY <1>2 DEF TaskChecks
  <2>2. d \in BlindDevices /\ QueuesOK' /\ UNCHANGED <<clusters, groups, placement, devices, requests>>
    BY <2>1 DEF worldVars, ClustersInv, QueuesOK
  <2>3. \A e : e # d /\ Undisturbed(e)' => Undisturbed(e)
    BY <2>1 DEF Undisturbed, Pending, StartCheck, worldVars
  <2> QED BY <2>1, <2>2, <2>3, StartInv
<1> QED BY <1>1, <1>2

(* The meter thread begins to join *)
LEMMA JoinStartInv == ClustersInv /\ joinIdenticalClusters => ClustersInv'
<1> SUFFICES ASSUME ClustersInv, joinIdenticalClusters PROVE ClustersInv'
  OBVIOUS
<1>1. /\ holder = "none" /\ holder' = "meter" /\ cpc' = "outer" /\ cidx' = 1
      /\ UNCHANGED <<clusters, groups, placement, devices, requests, strayed, lockTouched, lockRaced>>
      /\ UNCHANGED <<posting, modelEvents, loopDevice, taskDevices, checked>>
  BY DEF joinIdenticalClusters, LockFor, worldVars, clusterHist
<1>2. cpc = "free" /\ cpc' \in JoinSteps /\ cidx' \in ClusterIds
  BY <1>1, ClustersAssumption DEF ClustersInv, HolderOK, JoinSteps, ClusterIds
<1>3. ShapeOK' /\ QueuesOK' /\ FreeIsEmpty'
  BY <1>1, <1>2, WorldFrame
<1>4. HolderOK' /\ TargetOK' /\ CheckOK' /\ JoinOK'
  BY <1>1, <1>2, StepsDistinct DEF HolderOK, TargetOK, CheckOK, JoinOK
<1>5. SettledOK'
  BY <1>1, <1>2, StepsDistinct, SettledFrame DEF ClustersInv, InCheck
<1> QED BY <1>3, <1>4, <1>5 DEF ClustersInv

(* onAutoClusterCleanup gives back what is empty *)
LEMMA CleanupInv == ClustersInv /\ onAutoClusterCleanup => ClustersInv'
<1> SUFFICES ASSUME ClustersInv, onAutoClusterCleanup PROVE ClustersInv'
  OBVIOUS
<1>1. /\ modelEvents # <<>> /\ Head(modelEvents)[1] = "etClusterCleanup" /\ holder = "none"
      /\ modelEvents' = Tail(modelEvents) /\ clusters' = removeEmptyAutomaticCluster(groups)
      /\ UNCHANGED <<groups, placement, devices, requests, strayed, lockTouched, lockRaced>>
      /\ UNCHANGED <<posting, loopDevice, taskDevices, holder, cpc, cdev, cidx, jidx, todo, checked>>
  BY DEF onAutoClusterCleanup, worldVars, localVars, clusterHist
<1>2. /\ Tail(modelEvents) \in Seq(Posts)
      /\ ToSet(modelEvents) = ToSet(modelEvents') \cup {Head(modelEvents)}
  BY <1>1, PostedEvents DEF ClustersInv, QueuesOK
<1>3. cpc = "free"
  BY <1>1 DEF ClustersInv, HolderOK
<1>4. groups \in [BlindDevices -> SUBSET ClusterIds]
  BY DEF ClustersInv, ShapeOK
<1>5. /\ clusters' \in [ClusterIds -> ClusterTypes]
      /\ \A c \in ClusterIds : /\ clusters'[c].automatic => clusters'[c].used
                               /\ \/ clusters'[c] = clusters[c]
                                  \/ /\ Unlocked(c) /\ HasNoDevice(groups, c)
                                     /\ clusters'[c] = ResetCluster
  BY <1>1, <1>4, GiveBack
<1>6. ShapeOK' /\ QueuesOK' /\ HolderOK' /\ TargetOK' /\ CheckOK' /\ JoinOK'
  BY <1>1, <1>2, <1>3, <1>5, StepsDistinct
     DEF ClustersInv, ShapeOK, QueuesOK, HolderOK, TargetOK, CheckOK, JoinOK
<1>7. FreeIsEmpty'
  <2> SUFFICES ASSUME NEW c \in ClusterIds, ~clusters'[c].used
               PROVE  DevicesIn(groups, c) \subseteq strayed
    BY <1>1 DEF FreeIsEmpty, DevicesIn
  <2> QED BY <1>5 DEF ClustersInv, FreeIsEmpty, HasNoDevice
<1>8. SettledOK'
  <2> SUFFICES ASSUME NEW d \in checked, Undisturbed(d)' PROVE Settled(d)'
    BY <1>1 DEF SettledOK
  <2>1. Head(modelEvents) # Dirty(d)
    BY <1>1 DEF Dirty
  <2>2. Undisturbed(d) /\ ~InCheck(d) /\ d \in BlindDevices
    BY <1>1, <1>2, <1>3, <2>1, StepsDistinct DEF Undisturbed, Pending, InCheck, ClustersInv, ShapeOK
  <2>3. Settled(d)
    BY <2>2 DEF ClustersInv, SettledOK
  <2>4. \A c \in ClusterIds : Unlocked(c)' => clusters'[c] = clusters[c] /\ Unlocked(c)
    BY <1>5 DEF Unlocked, ResetCluster
  <2>5. \A c \in Mine(d)' : c \in Mine(d) /\ Fitting(c, d)' = Fitting(c, d)
    BY <1>1, <1>4, <2>2, <2>4 DEF Mine, Fitting, Fits
  <2> QED BY <1>1, <2>3, <2>5 DEF Settled
<1> QED BY <1>6, <1>7, <1>8 DEF ClustersInv

(* A change of a device sends it to another check; no device is like before *)
LEMMA PlacementInv ==
  ASSUME ClustersInv, NEW d \in BlindDevices, NEW p \in Placements, setPlacement(d, p)
  PROVE  ClustersInv'
<1>1. /\ requests < MaxRequests /\ requests' = requests + 1
      /\ placement' = [placement EXCEPT ![d] = p] /\ posting' = posting \cup {Dirty(d)}
      /\ UNCHANGED <<clusters, groups, devices, modelEvents, loopDevice, taskDevices>>
      /\ UNCHANGED <<holder, cpc, cdev, cidx, jidx, todo>>
      /\ UNCHANGED <<checked, strayed, lockTouched, lockRaced>>
  BY DEF setPlacement, Requests, threadVars, localVars, clusterHist
<1>2. ShapeOK' /\ FreeIsEmpty'
  BY <1>1, ClustersAssumption DEF ClustersInv, ShapeOK, FreeIsEmpty, DevicesIn
<1>3. QueuesOK' /\ HolderOK' /\ TargetOK'
  BY <1>1 DEF ClustersInv, QueuesOK, HolderOK, TargetOK, Posts, Dirty
<1>4. ASSUME NEW e, Undisturbed(e)'
      PROVE  Undisturbed(e) /\ placement'[e] = placement[e] /\ Mine(e)' = Mine(e)
  <2>1. e # d /\ Undisturbed(e)
    BY <1>1, <1>4 DEF Undisturbed, Pending
  <2>2. e \in BlindDevices /\ placement \in [BlindDevices -> Placements]
    BY <2>1 DEF Undisturbed, ClustersInv, ShapeOK
  <2> QED BY <1>1, <2>1, <2>2 DEF Mine, Unlocked
<1>5. CheckOK'
  <2> SUFFICES ASSUME cpc \in CheckSteps, Undisturbed(cdev)' PROVE CheckedSoFar(cdev)'
    BY <1>1 DEF CheckOK
  <2>1. CheckedSoFar(cdev)
    BY <1>1, <1>4 DEF ClustersInv, CheckOK
  <2> QED BY <1>1, <1>4, <2>1 DEF CheckedSoFar, Fitting, Fits
<1>6. JoinOK'
  BY <1>1 DEF ClustersInv, JoinOK, DevicesIn, Unlocked
<1>7. SettledOK'
  <2> SUFFICES ASSUME NEW e \in checked, Undisturbed(e)', ~InCheck(e)' PROVE Settled(e)'
    BY <1>1 DEF SettledOK
  <2>1. Settled(e)
    BY <1>1, <1>4 DEF ClustersInv, SettledOK, InCheck
  <2> QED BY <1>1, <1>4, <2>1 DEF Settled, Fitting, Fits
<1> QED BY <1>2, <1>3, <1>5, <1>6, <1>7 DEF ClustersInv

(* A device is removed while nobody has the mutex *)
LEMMA RemoveDeviceInv ==
  ASSUME ClustersInv, NEW d \in BlindDevices, removeDevice(d)
  PROVE  ClustersInv'
<1>1. /\ requests < MaxRequests /\ requests' = requests + 1 /\ holder = "none"
      /\ devices' = devices \ {d} /\ posting' = posting \cup {Cleanup(d)}
      /\ UNCHANGED <<clusters, groups, placement, modelEvents, loopDevice, taskDevices>>
      /\ UNCHANGED <<holder, cpc, cdev, cidx, jidx, todo>>
      /\ UNCHANGED <<checked, strayed, lockTouched, lockRaced>>
  BY DEF removeDevice, Requests, threadVars, localVars, clusterHist
<1>2. cpc = "free"
  BY <1>1 DEF ClustersInv, HolderOK
<1>3. ShapeOK' /\ FreeIsEmpty'
  BY <1>1, ClustersAssumption DEF ClustersInv, ShapeOK, FreeIsEmpty, DevicesIn
<1>4. QueuesOK' /\ HolderOK' /\ TargetOK' /\ CheckOK' /\ JoinOK'
  BY <1>1, <1>2, StepsDistinct
     DEF ClustersInv, QueuesOK, HolderOK, TargetOK, CheckOK, JoinOK, Posts, Cleanup
<1>5. SettledOK'
  <2> SUFFICES ASSUME NEW e \in checked, Undisturbed(e)' PROVE Settled(e)'
    BY <1>1 DEF SettledOK
  <2>1. Undisturbed(e) /\ ~InCheck(e)
    BY <1>1, <1>2, StepsDistinct DEF Undisturbed, Pending, InCheck
  <2> QED BY <1>1, <2>1 DEF ClustersInv, SettledOK, Settled, Mine, Unlocked, Fitting, Fits
<1> QED BY <1>3, <1>4, <1>5 DEF ClustersInv

(* Nothing is claimed of a cluster whose lock is changed, and nothing at    *)
(* all once that happens while a thread has the mutex                       *)
LEMMA LockInv ==
  ASSUME ClustersInv, NEW k \in ClusterIds, setConfigurationLocked(k)
  PROVE  ClustersInv'
<1>1. /\ requests < MaxRequests /\ requests' = requests + 1
      /\ clusters' = [clusters EXCEPT ![k].locked = ~@]
      /\ lockTouched' = lockTouched \cup {k} /\ lockRaced' = (lockRaced \/ holder # "none")
      /\ UNCHANGED <<groups, placement, devices, posting, modelEvents, loopDevice, taskDevices>>
      /\ UNCHANGED <<holder, cpc, cdev, cidx, jidx, todo, checked, strayed>>
  BY DEF setConfigurationLocked, Requests, threadVars, localVars
<1>2. clusters \in [ClusterIds -> ClusterTypes] /\ clusters[k] \in ClusterTypes
  BY DEF ClustersInv, ShapeOK
<1>3. /\ clusters' \in [ClusterIds -> ClusterTypes]
      /\ \A c \in ClusterIds \ {k} : clusters'[c] = clusters[c]
      /\ \A c \in ClusterIds : /\ clusters'[c].used = clusters[c].used
                               /\ clusters'[c].automatic = clusters[c].automatic
                               /\ clusters'[c].placement = clusters[c].placement
  BY <1>1, <1>2 DEF ClusterTypes
<1>4. ShapeOK' /\ FreeIsEmpty' /\ TargetOK'
  BY <1>1, <1>3, ClustersAssumption DEF ClustersInv, ShapeOK, FreeIsEmpty, DevicesIn, TargetOK
<1>5. QueuesOK' /\ HolderOK'
  BY <1>1 DEF ClustersInv, QueuesOK, HolderOK
<1>6. ASSUME ~lockRaced' PROVE ~lockRaced /\ cpc = "free"
  BY <1>1, <1>6 DEF ClustersInv, HolderOK
<1>7. CheckOK'
  BY <1>1, <1>6, StepsDistinct DEF CheckOK, Undisturbed
<1>8. JoinOK'
  BY <1>1, <1>6 DEF ClustersInv, JoinOK, DevicesIn
<1>9. SettledOK'
  <2> SUFFICES ASSUME NEW e \in checked, Undisturbed(e)' PROVE Settled(e)'
    BY <1>1 DEF SettledOK
  <2>1. Undisturbed(e) /\ ~InCheck(e) /\ e \in BlindDevices
    BY <1>1, <1>6, StepsDistinct DEF Undisturbed, Pending, InCheck, ClustersInv, ShapeOK
  <2>2. Settled(e) /\ groups[e] \subseteq ClusterIds
    BY <2>1 DEF ClustersInv, SettledOK, ShapeOK
  <2>3. \A c \in Mine(e)' \ lockTouched' : c \in Mine(e) \ lockTouched /\ Fitting(c, e)' = Fitting(c, e)
    BY <1>1, <1>3, <2>2 DEF Mine, Unlocked, Fitting, Fits
  <2> QED BY <2>2, <2>3 DEF Settled
<1> QED BY <1>4, <1>5, <1>7, <1>8, <1>9 DEF ClustersInv

-----------------------------------------------------------------------------
(* The theorems                                                            *)

(* Nothing was checked yet; who is in a free cluster has strayed *)
LEMMA InitInv == ClustersInit => ClustersInv
<1> SUFFICES ASSUME ClustersInit PROVE ClustersInv
  OBVIOUS
<1>1. PICK s \in ClusterStarts :
        clusters = s.clusters /\ groups = s.groups /\ placement = s.placement
  BY DEF ClustersInit
<1>2. ShapeOK
  BY <1>1, ClustersAssumption DEF ClustersInit, ShapeOK, ClusterIds
<1>3. QueuesOK /\ HolderOK /\ TargetOK /\ CheckOK /\ JoinOK /\ SettledOK
  BY StepsDistinct DEF ClustersInit, QueuesOK, HolderOK, TargetOK, CheckOK, JoinOK, SettledOK
<1>4. FreeIsEmpty
  BY <1>2 DEF ClustersInit, FreeIsEmpty, DevicesIn
<1> QED BY <1>2, <1>3, <1>4 DEF ClustersInv

(* Every step keeps the invariant *)
LEMMA StepInv == ClustersInv /\ [ClustersNext]_clusterVars => ClustersInv'
<1> SUFFICES ASSUME ClustersInv, [ClustersNext]_clusterVars PROVE ClustersInv'
  OBVIOUS
<1>1. CASE CheckStep
  BY <1>1, InvalidInv, FoundInv, SurplusInv, RemoveInv, FindInv, AssignInv DEF CheckStep
<1>2. CASE JoinStep
  BY <1>2, JoinLoopsInv, MoveInv DEF JoinStep
<1>3. CASE ClusterLoopStep \/ globalConsistencyCheck \/ TaskChecks \/ joinIdenticalClusters \/ PostNext
  BY <1>3, MaintenanceInv, CleanupInv, ThreadsCheckInv, PostInv, JoinStartInv DEF ClusterLoopStep
<1>4. CASE ChangeRequest
  BY <1>4, PlacementInv, RemoveDeviceInv, LockInv DEF ChangeRequest
<1>5. CASE UNCHANGED clusterVars
  <2>1. /\ UNCHANGED <<clusters, groups, placement, devices, requests, strayed, lockTouched, lockRaced>>
        /\ UNCHANGED <<posting, modelEvents, loopDevice, taskDevices>>
        /\ UNCHANGED <<holder, cpc, cdev, cidx, jidx, todo, checked>>
    BY <1>5 DEF clusterVars
  <2>2. QueuesOK' /\ \A d : Undisturbed(d)' => Undisturbed(d)
    BY <2>1 DEF ClustersInv, QueuesOK, Undisturbed, Pending
  <2> QED BY <2>1, <2>2, QueueFrame
<1> QED BY <1>1, <1>2, <1>3, <1>4, <1>5 DEF ClustersNext

(* At every moment, whatever threads and requests have done: who has the   *)
(* mutex, what a check or joining has achieved so far, and what holds of   *)
(* every device that no change is on its way for                           *)
THEOREM Invariance == ClustersSpec => []ClustersInv
BY InitInv, StepInv, PTL DEF ClustersSpec

(* The clusters keep their types, and a cluster that was given back is not *)
(* automatic                                                               *)
THEOREM TypeCorrect == ClustersSpec => []ClustersTypeOK
<1>1. ClustersInv => ClustersTypeOK
  BY StepsDistinct DEF ClustersInv, ShapeOK, HolderOK, ClustersTypeOK, CheckSteps, JoinSteps
<1> QED BY <1>1, Invariance, PTL

(* A device that was checked is in the clusters of its placement only, and *)
(* in one at most; nobody is in a free cluster except who has strayed      *)
THEOREM DevicesInTheirClusters == ClustersSpec => []ClustersAreExact
<1>1. ClustersInv => ClustersAreExact
  <2> SUFFICES ASSUME ClustersInv PROVE FollowsDevice /\ FreeIsEmpty
    BY DEF ClustersAreExact
  <2>1. ASSUME NEW d \in (devices \cap checked) \ strayed,
               ~(\/ Dirty(d) \in posting \cup ToSet(modelEvents)
                 \/ loopDevice = d
                 \/ holder \in {"model", "task"} /\ cdev = d),
               ~lockRaced
        PROVE  /\ \A c \in {k \in groups[d] \ lockTouched : Unlocked(k)} :
                     Fits(c, d) /\ placement[d] # NoPlacement
               /\ Cardinality({k \in groups[d] \ lockTouched : Unlocked(k)}) <= 1
    <3>1. Undisturbed(d) /\ ~InCheck(d)
      BY <2>1, StepsDistinct DEF Undisturbed, Pending, InCheck, ClustersInv, HolderOK
    <3>2. Settled(d)
      BY <2>1, <3>1 DEF ClustersInv, SettledOK
    <3>3. {k \in groups[d] \ lockTouched : Unlocked(k)} = Mine(d) \ lockTouched
      BY DEF Mine
    <3>4. Cardinality(Mine(d) \ lockTouched) <= 1
      BY <3>2, AtMostOne DEF Settled
    <3> QED BY <3>2, <3>3, <3>4 DEF Settled, Fitting
  <2> QED BY <2>1 DEF FollowsDevice, ClustersInv
<1> QED BY <1>1, Invariance, PTL

=============================================================================
