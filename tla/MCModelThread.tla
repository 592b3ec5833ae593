--------------------------- MODULE MCModelThread ---------------------------
(***************************************************************************)
(* Two duties of the model thread that do not meet, checked in one run: to *)
(* save the apartment (ModelLoop) and to maintain the automatic clusters   *)
(* (AutoClusters).  duty says which one a behaviour is about; the other    *)
(* stays in its initial state.                                             *)
(***************************************************************************)
EXTENDS ModelLoop, AutoClusters

NotUsed   == [used |-> FALSE, automatic |-> FALSE, locked |-> FALSE, placement |-> NoPlacement]
Auto(p)   == [used |-> TRUE, automatic |-> TRUE, locked |-> FALSE, placement |-> p]
Locked(p) == [Auto(p) EXCEPT !.locked = TRUE]
Start(c1, c2, of1, of2, p1, p2) ==
  [clusters |-> <<c1, c2>>, groups |-> <<of1, of2>>, placement |-> <<p1, p2>>]
(* no cluster; twice the same, with a device in both; one of two is locked *)
(* and a device is in the wrong one; a device is in a locked one that      *)
(* joining might empty                                                     *)
AllClusterStarts ==
  {Start(NotUsed, NotUsed, {}, {}, "south", "north"),
   Start(Auto("south"), Auto("south"), {1, 2}, {2}, "south", "south"),
   Start(Locked("south"), Auto("south"), {1}, {2}, "south", "north"),
   Start(Auto("south"), Locked("south"), {2}, {1}, "north", "none")}

VARIABLE duty

(* the type invariants of both *)
ModelThreadTypeOK == TypeOK /\ ClustersTypeOK

NoClusters == ClustersInit /\ groups = <<{}, {}>>
ModelThreadInit ==
  /\ Init
  /\ \/ duty = "save" /\ NoClusters
     \/ duty = "clusters" /\ ClustersInit

ModelThreadNext ==
  /\ UNCHANGED duty
  /\ \/ duty = "save" /\ Next /\ UNCHANGED clusterVars
     \/ duty = "clusters" /\ ClustersNext /\ UNCHANGED vars

SaveOnly(A)     == duty = "save" /\ A /\ UNCHANGED <<clusterVars, duty>>
ClustersOnly(A) == duty = "clusters" /\ A /\ UNCHANGED <<vars, duty>>

(* ModelLoop's fairness, without waiters, and that of the threads that     *)
(* have the mutex, of the model thread and of the requests                 *)
ModelThreadFairness ==
  /\ \A w \in Posters : SF_vars(SaveOnly(AddModelEvent(w)))
  /\ WF_vars(SaveOnly(setupInitializedState)) /\ SF_vars(SaveOnly(LoopStep))
  /\ WF_vars(SaveOnly(Tick)) /\ WF_vars(SaveOnly(Shutdown))
  /\ WF_clusterVars(ClustersOnly(CheckStep \/ JoinStep))
  /\ WF_clusterVars(ClustersOnly(ClusterLoopStep))
  /\ WF_clusterVars(ClustersOnly(PostNext))

ModelThreadSpec ==
  /\ ModelThreadInit
  /\ [][ModelThreadNext]_<<vars, clusterVars, duty>>
  /\ ModelThreadFairness
=============================================================================
