-------------------------- MODULE ModelLoopProofs --------------------------
(***************************************************************************)
(* Proofs about ModelLoop, for every set of writers and of callers of      *)
(* pendingChangesBarrier, every delay and every number of changes and      *)
(* events below half the range of the counters.                            *)
(***************************************************************************)
EXTENDS ModelLoop, FiniteSetTheorems, SequenceTheorems, WellFoundedInduction, TLAPS

(***************************************************************************)
(* Counters.  Events are numbered from 1; Wrap(n) is what m_processedEvents *)
(* is after n of them, as it starts 3 below its range.                     *)
(***************************************************************************)
Wrap(n) == IF n < 3 THEN Mod - 3 + n ELSE n - 3

(* a bound on the events of a behaviour *)
AllEvents == MaxChanges + 2 * MaxPosts + 3

(* the remainder of numbers between -Mod and 2 * Mod *)
LEMMA ModFacts ==
  /\ \A x \in 0 .. Mod - 1 : x % Mod = x
  /\ \A x \in Mod .. 2 * Mod - 1 : x % Mod = x - Mod
  /\ \A x \in (1 - Mod) .. (-1) : x % Mod = x + Mod
<1>1. Mod \in Nat /\ Mod > 0
  BY ModelLoopAssumption
<1>2. ASSUME NEW x \in 0 .. Mod - 1 PROVE x % Mod = x
  BY <1>1
<1>3. ASSUME NEW x \in Mod .. 2 * Mod - 1 PROVE x % Mod = x - Mod
  BY <1>1
<1>4. ASSUME NEW x \in (1 - Mod) .. (-1) PROVE x % Mod = x + Mod
  BY <1>1
<1>5. QED BY <1>2, <1>3, <1>4

(* All events together are less than half the range of the counters. *)
LEMMA HalfFacts ==
  /\ Mod \in Nat /\ Mod \div 2 \in Nat /\ Mod = 2 * (Mod \div 2)
  /\ AllEvents \in Nat /\ AllEvents < Mod \div 2
  /\ Mod > 6
BY ModelLoopAssumption DEF AllEvents

(***************************************************************************)
(* The inductive invariant                                                 *)
(***************************************************************************)

(* who posts has an event, the loop has one while it handles it *)
ControlOK ==
  /\ \A w \in Posters : /\ wpc[w] = "idle" <=> warg[w] = None
                        /\ wpc[w] = "mark" => warg[w] = "dirty"
  /\ lpc = "handle" => event # None
  /\ lpc = "consistent" => event \in {"dirty", "mode"}
  /\ lpc \notin {"handle", "consistent"} => event = None

(* etMeterReady is posted once, after an etModelDirty that finds the       *)
(* initialization under way and so sets m_IsDirty.                         *)
ReadyOK ==
  /\ \A w \in Writers : warg[w] # "meterReady"
  /\ setup # "done" => /\ m_IsInitializing /\ event # "meterReady"
                       /\ \A i \in DOMAIN m_ModelEvents : m_ModelEvents[i] # "meterReady"
  /\ setup = "dirty" => wpc[Meter] = "idle"
  /\ setup = "meterReady" => /\ wpc[Meter] \in {"idle", "test", "mark"}
                             /\ wpc[Meter] # "idle" => warg[Meter] = "dirty"
                             /\ wpc[Meter] = "idle" => m_IsDirty
  /\ setup = "done" => /\ warg[Meter] \in {None, "meterReady"}
                       /\ m_IsInitializing => m_IsDirty
  /\ lpc = "deliver" => m_IsDirty /\ ~m_IsInitializing

(* OnTheWay without the writers that found the initialization under way    *)
(* and are about to set m_IsDirty when it is over: nobody looks at it then. *)
Coming(types) ==
  \/ \E w \in Posters : /\ wpc[w] # "idle" /\ warg[w] \in types
                        /\ wpc[w] = "mark" => m_IsInitializing
  \/ \E i \in DOMAIN m_ModelEvents : m_ModelEvents[i] \in types
  \/ m_IsDirty /\ (m_IsInitializing \/ lpc = "deliver")

(* what the write under way leaves out is still to come *)
SaveOK ==
  /\ apartment > saved =>
       m_pendingSaveRequest \/ event \in {"dirty", "mode"} \/ Coming({"dirty", "mode"})
  /\ lpc = "writing" /\ apartment > snapshot => Coming({"dirty", "mode"})

(* m_suppressSaveRequestNotify is the number of an earlier event *)
NotesOK ==
  /\ announced <= apartment
  /\ announced > informed => (lpc = "handle" /\ event = "dirty") \/ Coming({"dirty"})
  /\ \E n \in 0 .. dequeued : /\ m_suppressSaveRequestNotify = Wrap(n)
                              /\ lpc = "handle" => n < dequeued

(* A request is not older than the last write. *)
AgeOK == requestAge <= sinceWrite

(* events to come: each poster has one, and each "change" leads to another *)
Active        == {w \in Posters : wpc[w] # "idle"}
ActiveChanges == {w \in Posters : warg[w] = "change"}
ChangesIn(q)  == {i \in DOMAIN q : q[i] = "change"}
SetupEvents   == IF setup = "dirty" THEN 0 ELSE IF setup = "meterReady" THEN 1 ELSE 2
Started       == (IF apartment < MaxChanges THEN apartment ELSE MaxChanges)
                   + 2 * posted + SetupEvents + 1
Events        == dequeued + Len(m_ModelEvents) + Cardinality(ChangesIn(m_ModelEvents))
                   + Cardinality(Active) + Cardinality(ActiveChanges)
                   + (IF event = "change" THEN 1 ELSE 0)
                   + (IF m_IsInitializing \/ lpc = "deliver" THEN 1 ELSE 0)
CountOK ==
  /\ IsFiniteSet(Active)
  /\ Events <= Started
  /\ m_processedEvents = Wrap(dequeued)

(* The event a barrier waits for is an etModelDirty in the queue, or has   *)
(* left it.                                                                *)
SyncOK ==
  /\ \A b \in Waiters : bpc[b] \in {"index", "compare"} <=> m_rvMut = b
  /\ \A b \in Waiters : bpc[b] \in {"compare", "waiting"} =>
       /\ syncState[b] = Wrap(target[b])
       /\ target[b] <= dequeued + Len(m_ModelEvents)
       /\ target[b] > dequeued => m_ModelEvents[target[b] - dequeued] = "dirty"

IndInv ==
  /\ TypeOK /\ ControlOK /\ ReadyOK /\ SaveOK /\ NotesOK /\ AgeOK /\ CountOK /\ SyncOK
  /\ BarrierNotEarly /\ NoLostWakeup

(***************************************************************************)
(* Facts about the queue                                                   *)
(***************************************************************************)

(* what Append does to a queue of events *)
LEMMA AppendFacts ==
  ASSUME NEW q \in Seq(EventTypes), NEW e \in EventTypes
  PROVE  /\ Append(q, e) \in Seq(EventTypes)
         /\ Len(Append(q, e)) = Len(q) + 1
         /\ DOMAIN Append(q, e) = 1 .. Len(q) + 1
         /\ \A i \in 1 .. Len(q) : Append(q, e)[i] = q[i]
         /\ Append(q, e)[Len(q) + 1] = e
BY AppendProperties, LenProperties

(* what Head and Tail do to a queue of events *)
LEMMA TailFacts ==
  ASSUME NEW q \in Seq(EventTypes), q # << >>
  PROVE  /\ Head(q) \in EventTypes /\ Head(q) = q[1] /\ Len(q) >= 1
         /\ Tail(q) \in Seq(EventTypes)
         /\ Len(Tail(q)) = Len(q) - 1
         /\ DOMAIN Tail(q) = 1 .. Len(q) - 1
         /\ \A i \in 1 .. Len(q) - 1 : Tail(q)[i] = q[i + 1]
<1>1. Head(q) \in EventTypes /\ Tail(q) \in Seq(EventTypes) /\ Len(Tail(q)) = Len(q) - 1
  BY HeadTailProperties
<1>2. DOMAIN Tail(q) = 1 .. Len(Tail(q)) /\ Len(q) \in Nat \ {0}
  BY <1>1, LenProperties, EmptySeq
<1>3. QED BY <1>1, <1>2

(* the number of "change" events in a queue, when one is appended *)
LEMMA ChangesInAppend ==
  ASSUME NEW q \in Seq(EventTypes), NEW e \in EventTypes
  PROVE  /\ IsFiniteSet(ChangesIn(q)) /\ Cardinality(ChangesIn(q)) \in Nat
         /\ Cardinality(ChangesIn(Append(q, e)))
              = Cardinality(ChangesIn(q)) + (IF e = "change" THEN 1 ELSE 0)
<1>1. Len(q) \in Nat /\ DOMAIN q = 1 .. Len(q)
  BY LenProperties
<1>2. ChangesIn(q) \in SUBSET (1 .. Len(q))
  BY <1>1 DEF ChangesIn
<1>3. IsFiniteSet(ChangesIn(q)) /\ Cardinality(ChangesIn(q)) \in Nat
  <2>1. IsFiniteSet(1 .. Len(q))
    BY <1>1, FS_Interval
  <2>2. QED BY <1>2, <2>1, FS_Subset, FS_CardinalityType
<1>4. CASE e = "change"
  <2>1. ChangesIn(Append(q, e)) = ChangesIn(q) \cup {Len(q) + 1}
    BY <1>1, <1>4, AppendFacts DEF ChangesIn
  <2>2. Len(q) + 1 \notin ChangesIn(q)
    BY <1>1, <1>2
  <2>3. QED BY <1>3, <1>4, <2>1, <2>2, FS_AddElement
<1>5. CASE e # "change"
  <2>1. ChangesIn(Append(q, e)) = ChangesIn(q)
    BY <1>1, <1>5, AppendFacts DEF ChangesIn
  <2>2. QED BY <1>3, <1>5, <2>1
<1>6. QED BY <1>3, <1>4, <1>5

(* the number of "change" events in a queue, when one is taken *)
LEMMA ChangesInTail ==
  ASSUME NEW q \in Seq(EventTypes), q # << >>
  PROVE  /\ Cardinality(ChangesIn(q)) \in Nat /\ Cardinality(ChangesIn(Tail(q))) \in Nat
         /\ Cardinality(ChangesIn(q))
              = Cardinality(ChangesIn(Tail(q))) + (IF Head(q) = "change" THEN 1 ELSE 0)
<1> DEFINE S == ChangesIn(Tail(q))
           T == ChangesIn(q) \ {1}
           f == [i \in S |-> i + 1]
<1>1. Len(q) \in Nat /\ DOMAIN q = 1 .. Len(q)
  BY LenProperties
<1>2. S \in SUBSET (1 .. Len(q) - 1) /\ ChangesIn(q) \in SUBSET (1 .. Len(q))
  BY <1>1, TailFacts DEF ChangesIn
<1>3. /\ IsFiniteSet(S) /\ Cardinality(S) \in Nat
      /\ IsFiniteSet(ChangesIn(q)) /\ Cardinality(ChangesIn(q)) \in Nat
  <2>1. IsFiniteSet(1 .. Len(q) - 1) /\ IsFiniteSet(1 .. Len(q))
    BY <1>1, FS_Interval
  <2> HIDE DEF S
  <2> QED BY <1>2, <2>1, FS_Subset, FS_CardinalityType
<1>4. f \in Bijection(S, T)
  <2>1. \A i \in S : i + 1 \in T
    BY <1>1, TailFacts DEF ChangesIn
  <2>2. \A j \in T : j - 1 \in S /\ f[j - 1] = j
    BY <1>1, TailFacts DEF ChangesIn
  <2>3. \A i, j \in S : f[i] = f[j] => i = j
    BY <1>2
  <2> HIDE DEF S, T
  <2>4. f \in [S -> T] /\ \A j \in T : \E i \in S : f[i] = j
    BY <2>1, <2>2
  <2> HIDE DEF f
  <2>5. QED BY <2>3, <2>4 DEF Bijection, Injection, Surjection, IsInjective
<1>5. Cardinality(T) = Cardinality(S)
  <2> HIDE DEF S, T, f
  <2> QED BY <1>3, <1>4, FS_Bijection DEF ExistsBijection
<1>6. 1 \in ChangesIn(q) <=> Head(q) = "change"
  BY <1>1, TailFacts DEF ChangesIn
<1>7. QED
  <2> HIDE DEF S
  <2>1. Cardinality(T) = IF 1 \in ChangesIn(q) THEN Cardinality(ChangesIn(q)) - 1
                                               ELSE Cardinality(ChangesIn(q))
    BY <1>3, FS_RemoveElement
  <2> HIDE DEF T
  <2>2. QED BY <1>3, <1>5, <1>6, <2>1 DEF S

(***************************************************************************)
(* The steps, by thread, and what each thread leaves alone                 *)
(***************************************************************************)
WaiterStep(b) ==
  \/ pendingChangesBarrier(b) \/ BarrierStep(b)
  \/ WakeBarrier(b) \/ TimeoutBarrier(b) \/ ReturnFromBarrier(b)
ShutdownStep == shutdown \/ Shutdown

(* A barrier only changes its own locals, m_rvMut and who is woken. *)
LEMMA WaiterFrame ==
  ASSUME NEW b \in Waiters, WaiterStep(b)
  PROVE  UNCHANGED <<queueVars, countVars, noteVars, initVars, saveVars, writerVars, stopVars,
                     loopVars, apartment>>
BY DEF WaiterStep, BarrierStep, pendingChangesBarrier, LockBarrier, ReadSyncState,
   CompareSyncState, WakeBarrier, TimeoutBarrier, ReturnFromBarrier, WaiterUnchanged

(* The shutdown changes its flag and what is in the file. *)
LEMMA ShutdownFrame ==
  ASSUME ShutdownStep
  PROVE  /\ UNCHANGED <<queueVars, countVars, noteVars, initVars, m_pendingSaveRequest, requestAge,
                        snapshot, sinceWrite, writerVars, waitVars, loopVars, apartment>>
         /\ saved' \in {saved, apartment} /\ (lpc = "writing" => saved' = saved)
         /\ mpc' \in {"write", "terminate", "join", "stopped"}
         /\ m_Terminated' \in {m_Terminated, TRUE}
BY DEF ShutdownStep, shutdown, Shutdown, SaveAtShutdown, TerminateLoop, JoinLoop, StopUnchanged

(* A thread that posts changes its control, and one of the queue, m_IsDirty *)
(* and the apartment.                                                      *)
LEMMA PosterFrame ==
  /\ \A w \in Writers : Writer(w) =>
       UNCHANGED <<queueVars, countVars, noteVars, initVars, saveVars, setup, waitVars, stopVars,
                   loopVars>>
  /\ setupInitializedState =>
       UNCHANGED <<queueVars, countVars, noteVars, initVars, saveVars, posted, announced, waitVars,
                   stopVars, loopVars, apartment>>
  /\ \A w \in Posters : AddModelEvent(w) =>
       UNCHANGED <<m_ModelEventsMutex, countVars, noteVars, m_IsInitializing, saveVars, posted,
                   setup, announced, waitVars, stopVars, loopVars, apartment>>
BY DEF Writer, ChangeApartment, PostEvent, setupInitializedState, AddModelEvent,
   TestInitializing, MarkDirty, PushEvent, queueVars, initVars

(* The loop leaves the other threads alone, except whom it wakes. *)
LEMMA LoopFrame ==
  ASSUME LoopStep \/ LoopSpuriousWake
  PROVE  UNCHANGED <<wpc, warg, posted, setup, bpc, syncState, target, m_rvMut, stopVars>>
BY DEF LoopStep, LoopSpuriousWake, LoopTop, LoopWake, LoopTimeout, NotifyAfterTimeout, LoopIdle,
   HandleDirty, HandleMode, FinishDirty, HandleChange, HandleOther, onMeterReady,
   DeliverDelayedDirty, SkipWrite, BeginWrite, EndWrite,
   writerVars, waitVars

(***************************************************************************)
(* Types and control                                                       *)
(***************************************************************************)

(* LastDirty is the position of an etModelDirty, or 0. *)
LEMMA LastDirtyFacts ==
  ASSUME m_ModelEvents \in Seq(EventTypes)
  PROVE  /\ LastDirty \in 0 .. Len(m_ModelEvents)
         /\ LastDirty > 0 => m_ModelEvents[LastDirty] = "dirty"
<1> DEFINE L == Len(m_ModelEvents)
           D == {L - i : i \in DirtyIndices}
           R == {ss \in Nat \X Nat : ss[1] < ss[2]}
<1>1. L \in Nat /\ DirtyIndices \subseteq 1 .. L
  BY LenProperties DEF DirtyIndices
<1>2. CASE DirtyIndices = {}
  BY <1>1, <1>2 DEF LastDirty
<1>3. CASE DirtyIndices # {}
  <2>1. D \subseteq Nat /\ D # {}
    BY <1>1, <1>3
  <2>2. IsWellFoundedOn(R, Nat)
    BY NatLessThanWellFounded, Zenon DEF OpToRel
  <2>3. PICK x \in D : \A y \in D : <<y, x>> \notin R
    <3> HIDE DEF R, D
    <3> QED BY <2>1, <2>2, WFMin
  <2>4. PICK i \in DirtyIndices : x = L - i
    OBVIOUS
  <2>5. ASSUME NEW j \in DirtyIndices PROVE j <= i
    <3>1. <<L - j, x>> \notin R
      BY <2>3
    <3>2. L - j \in Nat /\ x \in Nat /\ ~(L - j < x)
      BY <2>1, <3>1
    <3>3. QED BY <1>1, <2>4, <3>2
  <2>6. LastDirty \in DirtyIndices
    BY <1>3, <2>5 DEF LastDirty
  <2>7. QED BY <1>1, <2>6 DEF DirtyIndices
<1>4. QED BY <1>2, <1>3

(* the types of the variables of the posters, of the barriers, of the loop *)
(* and of what it saves                                                    *)
PosterTypes ==
  /\ wpc \in [Posters -> {"idle", "test", "mark", "push"}]
  /\ warg \in [Posters -> EventTypes \cup {None}]
  /\ setup \in {"dirty", "meterReady", "done"}
  /\ posted \in 0 .. MaxPosts /\ announced \in Nat /\ apartment \in Nat
WaiterTypes ==
  /\ bpc \in [Waiters -> {"idle", "lock", "index", "compare", "waiting", "passed", "timedOut"}]
  /\ syncState \in [Waiters -> 0 .. Mod - 1] /\ target \in [Waiters -> Nat]
  /\ woken \in SUBSET Waiters /\ m_rvMut \in Waiters \cup {Free}
QueueTypes ==
  /\ m_ModelEvents \in Seq(EventTypes) /\ m_ModelEventsMutex \in {Free, Loop}
  /\ m_processedEvents \in 0 .. Mod - 1 /\ dequeued \in Nat
  /\ m_suppressSaveRequestNotify \in 0 .. Mod - 1 /\ informed \in Nat
LoopTypes ==
  /\ m_IsInitializing \in BOOLEAN /\ m_IsDirty \in BOOLEAN
  /\ lpc \in {"top", "waiting", "notify", "handle", "deliver",
             "consistent", "save", "writing", "done"}
  /\ event \in EventTypes \cup {None}
  /\ mpc \in {"running", "write", "terminate", "join", "stopped"} /\ m_Terminated \in BOOLEAN
SaveTypes ==
  /\ m_pendingSaveRequest \in BOOLEAN /\ saved \in Nat /\ snapshot \in Nat
  /\ requestAge \in 0 .. Delay /\ sinceWrite \in 0 .. Delay

(* TypeOK, in parts *)
LEMMA TypeParts ==
  /\ TypeOK <=> PosterTypes /\ WaiterTypes /\ QueueTypes /\ LoopTypes /\ SaveTypes
  /\ TypeOK' <=> PosterTypes' /\ WaiterTypes' /\ QueueTypes' /\ LoopTypes' /\ SaveTypes'
BY DEF TypeOK, PosterTypes, WaiterTypes, QueueTypes, LoopTypes, SaveTypes

(* Every step keeps the types. *)
LEMMA TypeStep ==
  ASSUME TypeOK, ControlOK, [Next]_vars
  PROVE  TypeOK'
<1>q. PosterTypes /\ WaiterTypes /\ QueueTypes /\ LoopTypes /\ SaveTypes
  BY TypeParts
<1>1. ASSUME NEW w \in Writers, Writer(w) PROVE TypeOK'
  <2>1. UNCHANGED <<queueVars, countVars, noteVars, initVars, saveVars, waitVars, stopVars, loopVars>>
    BY <1>1, PosterFrame
  <2>2. WaiterTypes' /\ QueueTypes' /\ LoopTypes' /\ SaveTypes'
    BY <1>q, <2>1 DEF WaiterTypes, QueueTypes, LoopTypes, SaveTypes, queueVars, countVars,
       noteVars, initVars, saveVars, waitVars, stopVars, loopVars
  <2>3. PosterTypes'
    <3>1. CASE \E e \in {"dirty", "mode"} : ChangeApartment(w, e)
      BY <1>q, <3>1 DEF PosterTypes, ChangeApartment, WriterGoto, Posters, EventTypes
    <3>2. CASE \E e \in {"change", "other"} : PostEvent(w, e)
      BY <1>q, <3>2, ModelLoopAssumption
      DEF PosterTypes, PostEvent, WriterGoto, Posters, EventTypes
    <3>3. QED BY <1>1, <3>1, <3>2 DEF Writer
  <2>4. QED BY <2>2, <2>3, TypeParts
<1>2. CASE setupInitializedState
  <2>1. WaiterTypes' /\ QueueTypes' /\ LoopTypes' /\ SaveTypes'
    BY <1>q, <1>2, PosterFrame DEF WaiterTypes, QueueTypes, LoopTypes, SaveTypes, queueVars,
       countVars, noteVars, initVars, saveVars, waitVars, stopVars, loopVars
  <2>2. PosterTypes'
    BY <1>q, <1>2 DEF PosterTypes, setupInitializedState, WriterGoto, Posters, EventTypes
  <2>3. QED BY <2>1, <2>2, TypeParts
<1>3. ASSUME NEW w \in Posters, AddModelEvent(w) PROVE TypeOK'
  <2>1. UNCHANGED <<m_ModelEventsMutex, countVars, noteVars, m_IsInitializing, saveVars, posted,
                    setup, announced, waitVars, stopVars, loopVars, apartment>>
    BY <1>3, PosterFrame
  <2>2. WaiterTypes' /\ SaveTypes'
    BY <1>q, <2>1 DEF WaiterTypes, SaveTypes, saveVars, waitVars
  <2>3. LoopTypes'
    <3>1. m_IsDirty' \in BOOLEAN
      BY <1>q, <1>3 DEF LoopTypes, AddModelEvent, TestInitializing, MarkDirty, PushEvent, initVars
    <3>2. QED BY <1>q, <2>1, <3>1 DEF LoopTypes, stopVars, loopVars
  <2>4. PosterTypes'
    BY <1>q, <1>3, <2>1 DEF PosterTypes, AddModelEvent, TestInitializing, MarkDirty, PushEvent,
       WriterGoto
  <2>5. m_ModelEvents' \in Seq(EventTypes)
    <3>1. wpc[w] = "push" => warg[w] \in EventTypes
      BY <1>q DEF ControlOK, PosterTypes
    <3>2. CASE PushEvent(w)
      BY <1>q, <3>1, <3>2, AppendFacts DEF QueueTypes, PushEvent
    <3>3. CASE TestInitializing(w) \/ MarkDirty(w)
      BY <1>q, <3>3 DEF QueueTypes, TestInitializing, MarkDirty, queueVars
    <3>4. QED BY <1>3, <3>2, <3>3 DEF AddModelEvent
  <2>6. QueueTypes'
    BY <1>q, <2>1, <2>5 DEF QueueTypes, countVars, noteVars
  <2>7. QED BY <2>2, <2>3, <2>4, <2>6, TypeParts
<1>4. ASSUME NEW b \in Waiters, WaiterStep(b) PROVE TypeOK'
  <2>0. UNCHANGED <<queueVars, countVars, noteVars, initVars, saveVars, writerVars, stopVars,
                    loopVars, apartment>>
    BY <1>4, WaiterFrame
  <2>1. PosterTypes' /\ QueueTypes' /\ LoopTypes' /\ SaveTypes'
    BY <1>q, <2>0 DEF PosterTypes, QueueTypes, LoopTypes, SaveTypes, queueVars,
       countVars, noteVars, initVars, saveVars, writerVars, stopVars, loopVars
  <2>2. indexOfNextSyncState \in 0 .. Mod - 1 /\ dequeued + LastDirty \in Nat /\ 0 \in 0 .. Mod - 1
    <3>1. LastDirty \in Nat /\ dequeued \in Nat /\ m_processedEvents \in Nat
      <4>1. m_ModelEvents \in Seq(EventTypes) /\ m_processedEvents \in 0 .. Mod - 1 /\ dequeued \in Nat
        BY <1>q DEF QueueTypes
      <4>2. QED BY <4>1, LastDirtyFacts, LenProperties, HalfFacts
    <3>2. QED BY <3>1, HalfFacts DEF indexOfNextSyncState
  <2>3. WaiterTypes'
    BY <1>q, <1>4, <2>2 DEF WaiterTypes, WaiterStep, BarrierStep, pendingChangesBarrier,
       LockBarrier, ReadSyncState, CompareSyncState, WakeBarrier, TimeoutBarrier,
       ReturnFromBarrier, WaiterGoto
  <2>4. QED BY <2>1, <2>3, TypeParts
<1>5. CASE LoopStep \/ LoopSpuriousWake
  <2>1. UNCHANGED <<wpc, warg, posted, setup, bpc, syncState, target, m_rvMut, stopVars>>
    BY <1>5, LoopFrame
  <2>2. WaiterTypes'
    <3>1. woken' \in SUBSET Waiters
      BY <1>q, <1>5 DEF WaiterTypes, LoopStep, LoopSpuriousWake, LoopTop, LoopWake, LoopTimeout,
         NotifyAfterTimeout, LoopIdle, HandleDirty, HandleMode, FinishDirty, HandleChange,
         HandleOther, onMeterReady, DeliverDelayedDirty, SkipWrite, BeginWrite, EndWrite, waitVars,
         notifyModelConsistent
    <3>2. QED BY <1>q, <2>1, <3>1 DEF WaiterTypes
  <2>3. apartment' \in Nat /\ announced' \in Nat
    BY <1>q, <1>5 DEF PosterTypes, LoopStep, LoopSpuriousWake, LoopTop, LoopWake, LoopTimeout,
       NotifyAfterTimeout, LoopIdle, HandleDirty, HandleMode, FinishDirty, HandleChange,
       HandleOther, onMeterReady, DeliverDelayedDirty, SkipWrite, BeginWrite, EndWrite, writerVars
  <2>4. PosterTypes'
    BY <1>q, <2>1, <2>3 DEF PosterTypes
  <2>5. SaveTypes'
    <3>1. CASE FinishDirty
      BY <1>q, <3>1, ModelLoopAssumption DEF SaveTypes, FinishDirty, scheduleConfigWrite
    <3>2. CASE BeginWrite
      BY <1>q, <3>2 DEF SaveTypes, PosterTypes, BeginWrite
    <3>3. CASE EndWrite
      <4>1. 0 \in 0 .. Delay
        BY ModelLoopAssumption
      <4>2. QED BY <1>q, <3>3, <4>1 DEF SaveTypes, EndWrite
    <3>4. CASE ~(FinishDirty \/ BeginWrite \/ EndWrite)
      BY <1>q, <1>5, <3>4 DEF SaveTypes, LoopStep, LoopSpuriousWake, LoopTop, LoopWake, LoopTimeout,
         NotifyAfterTimeout, LoopIdle, HandleDirty, HandleMode, HandleChange,
         HandleOther, onMeterReady, DeliverDelayedDirty, SkipWrite, saveVars
    <3>5. QED BY <3>1, <3>2, <3>3, <3>4
  <2>6. ASSUME TakeEvent
        PROVE  /\ m_ModelEvents' \in Seq(EventTypes) /\ m_processedEvents' \in 0 .. Mod - 1
               /\ dequeued' \in Nat /\ lpc' = "handle" /\ event' \in EventTypes
    <3>1. m_ModelEvents' \in Seq(EventTypes) /\ event' \in EventTypes
      BY <1>q, <2>6, TailFacts DEF QueueTypes, TakeEvent, LoopGoto
    <3>2. QED BY <1>q, <2>6, <3>1, HalfFacts DEF QueueTypes, TakeEvent, LoopGoto
  <2>7. QueueTypes' /\ LoopTypes'
    <3>1. CASE LoopTop \/ LoopWake \/ LoopSpuriousWake \/ LoopTimeout \/ NotifyAfterTimeout
      BY <1>q, <2>1, <2>6, <3>1 DEF LoopTop, LoopWake, LoopSpuriousWake, LoopTimeout,
         NotifyAfterTimeout, LoopIdle, QueueTypes, LoopTypes, LoopGoto, countVars, noteVars, initVars, stopVars
    <3>2. CASE HandleDirty
      BY <1>q, <2>1, <3>2 DEF HandleDirty, NotifyObservers, SuppressUpTo, PosterTypes,
         QueueTypes, LoopTypes, LoopGoto, queueVars, countVars, noteVars, initVars, stopVars
    <3>3. CASE HandleMode \/ FinishDirty \/ HandleOther \/ SkipWrite \/ BeginWrite \/ EndWrite
      BY <1>q, <2>1, <3>3 DEF HandleMode, FinishDirty, HandleOther, SkipWrite, BeginWrite, EndWrite,
         QueueTypes, LoopTypes, LoopGoto, queueVars, countVars, noteVars, initVars, stopVars
    <3>4. CASE HandleChange \/ onMeterReady \/ DeliverDelayedDirty
      <4>1. Append(m_ModelEvents, "dirty") \in Seq(EventTypes)
        BY <1>q, AppendFacts DEF QueueTypes, EventTypes
      <4>2. QED
        BY <1>q, <2>1, <3>4, <4>1 DEF HandleChange, AddDirty, onMeterReady, DeliverDelayedDirty,
           QueueTypes, LoopTypes, LoopGoto, queueVars, countVars, noteVars, initVars, stopVars
    <3>5. QED BY <1>5, <3>1, <3>2, <3>3, <3>4 DEF LoopStep
  <2>8. QED BY <2>2, <2>4, <2>5, <2>7, TypeParts
<1>6. CASE ShutdownStep
  <2>1. PosterTypes' /\ WaiterTypes' /\ QueueTypes'
    BY <1>q, <1>6, ShutdownFrame DEF PosterTypes, WaiterTypes, QueueTypes, queueVars, countVars,
       noteVars, writerVars, waitVars
  <2>2. LoopTypes' /\ SaveTypes'
    BY <1>q, <1>6, ShutdownFrame DEF PosterTypes, LoopTypes, SaveTypes, initVars, loopVars
  <2>3. QED BY <2>1, <2>2, TypeParts
<1>7. CASE Tick
  <2>1. PosterTypes' /\ WaiterTypes' /\ QueueTypes' /\ LoopTypes'
    BY <1>q, <1>7 DEF Tick, PosterTypes, WaiterTypes, QueueTypes, LoopTypes, queueVars, countVars,
       noteVars, initVars, writerVars, waitVars, stopVars, loopVars
  <2>2. SaveTypes'
    BY <1>q, <1>7, ModelLoopAssumption DEF Tick, SaveTypes
  <2>3. QED BY <2>1, <2>2, TypeParts
<1>8. CASE UNCHANGED vars
  BY <1>q, <1>8, TypeParts DEF PosterTypes, WaiterTypes, QueueTypes, LoopTypes, SaveTypes,
     vars, queueVars, countVars, noteVars, initVars, saveVars, writerVars, waitVars,
     stopVars, loopVars
<1>9. QED
  BY <1>1, <1>2, <1>3, <1>4, <1>5, <1>6, <1>7, <1>8 DEF Next, WaiterStep, ShutdownStep

(* Every step keeps the control in order. *)
LEMMA ControlStep ==
  ASSUME TypeOK, ControlOK, [Next]_vars
  PROVE  ControlOK'
<1>q. PosterTypes /\ QueueTypes /\ LoopTypes
  BY TypeParts
<1>1. ASSUME NEW w \in Writers, Writer(w) PROVE ControlOK'
  BY <1>q, <1>1, PosterFrame DEF Writer, ChangeApartment, PostEvent, WriterGoto, ControlOK,
     PosterTypes, Posters, None, loopVars
<1>2. CASE setupInitializedState
  BY <1>q, <1>2 DEF setupInitializedState, WriterGoto, ControlOK, PosterTypes, Posters, None,
     loopVars
<1>3. ASSUME NEW w \in Posters, AddModelEvent(w) PROVE ControlOK'
  BY <1>q, <1>3, PosterFrame DEF AddModelEvent, TestInitializing, MarkDirty, PushEvent, WriterGoto,
     ControlOK, PosterTypes, None, loopVars
<1>4. ASSUME NEW b \in Waiters, WaiterStep(b) PROVE ControlOK'
  BY <1>4, WaiterFrame DEF ControlOK, writerVars, loopVars
<1>5. CASE LoopStep \/ LoopSpuriousWake
  <2>1. UNCHANGED <<wpc, warg>>
    BY <1>5, LoopFrame
  <2>2. TakeEvent => lpc' = "handle" /\ event' \in EventTypes
    BY <1>q, TailFacts DEF QueueTypes, TakeEvent, LoopGoto
  <2>3. CASE LoopTop \/ LoopWake \/ LoopSpuriousWake \/ LoopTimeout \/ NotifyAfterTimeout
    BY <2>1, <2>2, <2>3 DEF ControlOK, LoopTop, LoopWake, LoopSpuriousWake, LoopTimeout,
       NotifyAfterTimeout, LoopGoto, EventTypes, None
  <2>4. CASE ~(LoopTop \/ LoopWake \/ LoopSpuriousWake \/ LoopTimeout \/ NotifyAfterTimeout)
    BY <1>5, <2>1, <2>4 DEF LoopStep, ControlOK, HandleDirty, HandleMode, FinishDirty, HandleChange,
       HandleOther, onMeterReady, DeliverDelayedDirty, SkipWrite, BeginWrite, EndWrite, LoopGoto
  <2>5. QED BY <2>3, <2>4
<1>6. CASE ShutdownStep
  BY <1>6, ShutdownFrame DEF ControlOK, writerVars, loopVars
<1>7. CASE Tick
  BY <1>7 DEF Tick, ControlOK, writerVars, loopVars
<1>8. CASE UNCHANGED vars
  BY <1>8 DEF ControlOK, vars, writerVars, loopVars
<1>9. QED
  BY <1>1, <1>2, <1>3, <1>4, <1>5, <1>6, <1>7, <1>8 DEF Next, WaiterStep, ShutdownStep

(* A request is never older than the last write: a write ends both. *)
LEMMA AgeStep ==
  ASSUME TypeOK, AgeOK, [Next]_vars
  PROVE  AgeOK'
<1>q. SaveTypes
  BY TypeParts
<1>1. CASE Tick
  BY <1>q, <1>1, ModelLoopAssumption DEF Tick, AgeOK, SaveTypes
<1>2. CASE FinishDirty
  BY <1>q, <1>2, ModelLoopAssumption DEF FinishDirty, scheduleConfigWrite, AgeOK, SaveTypes
<1>3. CASE EndWrite
  BY <1>3 DEF EndWrite, AgeOK
<1>4. CASE (LoopStep \/ LoopSpuriousWake) /\ ~FinishDirty /\ ~EndWrite
  BY <1>4 DEF AgeOK, LoopStep, LoopSpuriousWake, LoopTop, LoopWake, LoopTimeout,
     NotifyAfterTimeout, LoopIdle, HandleDirty, HandleMode, HandleChange,
     HandleOther, onMeterReady, DeliverDelayedDirty, SkipWrite, BeginWrite, saveVars
<1>5. ASSUME NEW w \in Posters, setupInitializedState \/ AddModelEvent(w) \/ (w \in Writers /\ Writer(w))
      PROVE  AgeOK'
  BY <1>5, PosterFrame DEF AgeOK, saveVars
<1>6. ASSUME NEW b \in Waiters, WaiterStep(b) PROVE AgeOK'
  BY <1>6, WaiterFrame DEF AgeOK, saveVars
<1>7. CASE ShutdownStep
  BY <1>7, ShutdownFrame DEF AgeOK
<1>8. CASE UNCHANGED vars
  BY <1>8 DEF AgeOK, vars, saveVars
<1>9. QED
  BY <1>1, <1>2, <1>3, <1>4, <1>5, <1>6, <1>7, <1>8 DEF Next, WaiterStep, ShutdownStep, Posters

(* Every step keeps the order of the initialization: m_IsDirty is set      *)
(* before etMeterReady is posted.                                          *)
LEMMA ReadyStep ==
  ASSUME TypeOK, ControlOK, ReadyOK, [Next]_vars
  PROVE  ReadyOK'
<1>q. PosterTypes /\ QueueTypes /\ LoopTypes
  BY TypeParts
<1>m. Meter \notin Writers
  BY ModelLoopAssumption
<1>1. ASSUME NEW w \in Writers, Writer(w) PROVE ReadyOK'
  BY <1>q, <1>m, <1>1, PosterFrame DEF Writer, ChangeApartment, PostEvent, WriterGoto, ReadyOK,
     PosterTypes, Posters, queueVars, initVars, loopVars
<1>2. CASE setupInitializedState
  BY <1>q, <1>m, <1>2 DEF setupInitializedState, WriterGoto, ReadyOK, PosterTypes, Posters, None,
     queueVars, initVars, loopVars
<1>3. ASSUME NEW w \in Posters, AddModelEvent(w) PROVE ReadyOK'
  <2>1. CASE PushEvent(w)
    <3>1. warg[w] \in EventTypes
      BY <1>q, <2>1 DEF PushEvent, ControlOK, PosterTypes
    <3>2. QED
      BY <1>q, <1>m, <2>1, <3>1, AppendFacts, LenProperties DEF PushEvent, WriterGoto, ReadyOK,
         ControlOK, PosterTypes, QueueTypes, Posters, None, initVars, loopVars
  <2>2. CASE TestInitializing(w) \/ MarkDirty(w)
    BY <1>q, <1>m, <2>2 DEF TestInitializing, MarkDirty, WriterGoto, ReadyOK, ControlOK,
       PosterTypes, Posters, None, queueVars, initVars, loopVars
  <2>3. QED BY <1>3, <2>1, <2>2 DEF AddModelEvent
<1>4. ASSUME NEW b \in Waiters, WaiterStep(b) PROVE ReadyOK'
  <2>1. UNCHANGED <<queueVars, initVars, writerVars, loopVars>>
    BY <1>4, WaiterFrame
  <2>2. QED BY <2>1 DEF ReadyOK, queueVars, initVars, writerVars, loopVars
<1>5. CASE LoopStep \/ LoopSpuriousWake
  <2>1. UNCHANGED <<wpc, warg, setup>>
    BY <1>5, LoopFrame
  <2>2. CASE TakeEvent /\ (LoopTop \/ LoopWake)
    BY <1>q, <2>1, <2>2, TailFacts, LenProperties DEF ReadyOK, QueueTypes, TakeEvent, LoopGoto,
       LoopTop, LoopWake, LoopIdle, initVars
  <2>3. CASE \/ LoopTop /\ ~TakeEvent
             \/ LoopSpuriousWake \/ LoopTimeout \/ NotifyAfterTimeout
    BY <2>1, <2>3 DEF ReadyOK, LoopTop, LoopIdle, LoopSpuriousWake, LoopTimeout,
       NotifyAfterTimeout, LoopGoto, initVars, None
  <2>4. CASE HandleDirty \/ HandleMode \/ FinishDirty \/ HandleOther \/ SkipWrite \/ BeginWrite \/ EndWrite
    BY <2>1, <2>4 DEF ReadyOK, HandleDirty, HandleMode, FinishDirty,
       HandleOther, SkipWrite, BeginWrite, EndWrite, LoopGoto, None, queueVars, initVars
  <2>5. CASE HandleChange
    BY <1>q, <2>1, <2>5, AppendFacts, LenProperties DEF ReadyOK, HandleChange, AddDirty, LoopGoto,
       QueueTypes, EventTypes, None
  <2>6. CASE onMeterReady
    BY <2>1, <2>6 DEF ReadyOK, onMeterReady, LoopGoto, queueVars, None
  <2>7. CASE DeliverDelayedDirty
    BY <1>q, <2>1, <2>7, AppendFacts, LenProperties DEF ReadyOK, DeliverDelayedDirty, LoopGoto,
       QueueTypes, EventTypes, None
  <2>8. QED BY <1>5, <2>2, <2>3, <2>4, <2>5, <2>6, <2>7 DEF LoopStep, LoopWake
<1>6. CASE ShutdownStep
  BY <1>6, ShutdownFrame DEF ReadyOK, queueVars, initVars, writerVars, loopVars
<1>7. CASE Tick
  BY <1>7 DEF Tick, ReadyOK, queueVars, initVars, writerVars, loopVars
<1>8. CASE UNCHANGED vars
  BY <1>8 DEF ReadyOK, vars, queueVars, initVars, writerVars, loopVars
<1>9. QED
  BY <1>1, <1>2, <1>3, <1>4, <1>5, <1>6, <1>7, <1>8 DEF Next, WaiterStep, ShutdownStep

(***************************************************************************)
(* Changes and observers                                                   *)
(***************************************************************************)

(* An event that is to come is still to come after every step, unless the  *)
(* loop has just taken it from the queue.                                  *)
LEMMA ComingStep ==
  ASSUME TypeOK, ControlOK, ReadyOK, [Next]_vars, NEW T, "dirty" \in T, Coming(T)
  PROVE  Coming(T)' \/ (TakeEvent /\ event' \in T)
<1>q. PosterTypes /\ QueueTypes /\ LoopTypes
  BY TypeParts
<1>1. ASSUME NEW w \in Writers, Writer(w) PROVE Coming(T)'
  BY <1>q, <1>1, PosterFrame DEF Writer, ChangeApartment, PostEvent, WriterGoto, Coming,
     PosterTypes, Posters, queueVars, initVars, loopVars
<1>2. CASE setupInitializedState
  BY <1>q, <1>2 DEF setupInitializedState, WriterGoto, Coming, PosterTypes, Posters,
     queueVars, initVars, loopVars
<1>3. ASSUME NEW w \in Posters, AddModelEvent(w) PROVE Coming(T)'
  <2>1. CASE PushEvent(w)
    <3>1. warg[w] \in EventTypes
      BY <1>q, <2>1 DEF PushEvent, ControlOK, PosterTypes
    <3>2. DOMAIN m_ModelEvents = 1 .. Len(m_ModelEvents) /\ Len(m_ModelEvents) \in Nat
      BY <1>q, LenProperties DEF QueueTypes
    <3>3. /\ DOMAIN m_ModelEvents' = 1 .. Len(m_ModelEvents) + 1
          /\ \A i \in 1 .. Len(m_ModelEvents) : m_ModelEvents'[i] = m_ModelEvents[i]
          /\ m_ModelEvents'[Len(m_ModelEvents) + 1] = warg[w]
      BY <1>q, <2>1, <3>1, AppendFacts DEF PushEvent, QueueTypes
    <3>4. Len(m_ModelEvents) + 1 \in DOMAIN m_ModelEvents'
          /\ DOMAIN m_ModelEvents \subseteq DOMAIN m_ModelEvents'
      BY <3>2, <3>3
    <3>5. QED
      BY <1>q, <2>1, <3>2, <3>3, <3>4 DEF PushEvent, WriterGoto, Coming, PosterTypes, initVars, loopVars
  <2>2. CASE TestInitializing(w)
    BY <1>q, <2>2 DEF TestInitializing, WriterGoto, Coming, PosterTypes, queueVars, initVars, loopVars
  <2>3. CASE MarkDirty(w)
    BY <1>q, <2>3 DEF MarkDirty, WriterGoto, Coming, PosterTypes, queueVars, loopVars
  <2>4. QED BY <1>3, <2>1, <2>2, <2>3 DEF AddModelEvent
<1>4. ASSUME NEW b \in Waiters, WaiterStep(b) PROVE Coming(T)'
  <2>1. UNCHANGED <<queueVars, initVars, writerVars, loopVars>>
    BY <1>4, WaiterFrame
  <2>2. QED BY <2>1 DEF Coming, queueVars, initVars, writerVars, loopVars
<1>5. CASE LoopStep \/ LoopSpuriousWake
  <2>1. UNCHANGED <<wpc, warg>>
    BY <1>5, LoopFrame
  <2>2. CASE TakeEvent /\ (LoopTop \/ LoopWake)
    <3>1. ASSUME NEW i \in DOMAIN m_ModelEvents, m_ModelEvents[i] \in T
          PROVE  event' \in T \/ \E j \in DOMAIN m_ModelEvents' : m_ModelEvents'[j] \in T
      <4>1. i \in 1 .. Len(m_ModelEvents) /\ Len(m_ModelEvents) \in Nat
        BY <1>q, LenProperties DEF QueueTypes
      <4>2. CASE i = 1
        BY <1>q, <2>2, <3>1, <4>2, TailFacts DEF QueueTypes, TakeEvent, LoopGoto
      <4>3. CASE i # 1
        <5>1. i - 1 \in 1 .. Len(m_ModelEvents) - 1 /\ (i - 1) + 1 = i
          BY <4>1, <4>3
        <5>2. i - 1 \in DOMAIN m_ModelEvents' /\ m_ModelEvents'[i - 1] = m_ModelEvents[i]
          BY <1>q, <2>2, <5>1, TailFacts DEF QueueTypes, TakeEvent
        <5>3. QED BY <3>1, <5>2
      <4>4. QED BY <4>2, <4>3
    <3>2. QED
      BY <2>1, <2>2, <3>1 DEF Coming, LoopTop, LoopWake, LoopIdle, initVars
  <2>3. CASE \/ LoopTop /\ ~TakeEvent
             \/ LoopSpuriousWake \/ LoopTimeout \/ NotifyAfterTimeout
    BY <2>1, <2>3 DEF Coming, LoopTop, LoopIdle, LoopSpuriousWake, LoopTimeout,
       NotifyAfterTimeout, initVars
  <2>4. CASE HandleDirty \/ HandleMode \/ FinishDirty \/ HandleOther \/ SkipWrite \/ BeginWrite \/ EndWrite
    BY <2>1, <2>4 DEF Coming, HandleDirty, HandleMode, FinishDirty,
       HandleOther, SkipWrite, BeginWrite, EndWrite, queueVars, initVars
  <2>5. ASSUME m_ModelEvents' = Append(m_ModelEvents, "dirty") PROVE Coming(T)'
    <3>1. Len(m_ModelEvents) + 1 \in DOMAIN m_ModelEvents'
          /\ m_ModelEvents'[Len(m_ModelEvents) + 1] = "dirty"
      BY <1>q, <2>5, AppendFacts, LenProperties DEF QueueTypes, EventTypes
    <3>2. QED BY <3>1 DEF Coming
  <2>6. CASE HandleChange
    BY <2>1, <2>5, <2>6 DEF Coming, HandleChange, AddDirty
  <2>7. CASE onMeterReady
    <3>1. m_IsInitializing => Coming(T)'
      BY <2>1, <2>7 DEF Coming, onMeterReady, LoopGoto, ReadyOK
    <3>2. ~m_IsInitializing => Coming(T)'
      BY <2>1, <2>7 DEF Coming, onMeterReady, queueVars
    <3>3. QED BY <3>1, <3>2
  <2>8. CASE DeliverDelayedDirty
    BY <2>5, <2>8 DEF DeliverDelayedDirty, ReadyOK
  <2>9. QED BY <1>5, <2>2, <2>3, <2>4, <2>6, <2>7, <2>8 DEF LoopStep, LoopWake
<1>6. CASE ShutdownStep
  BY <1>6, ShutdownFrame DEF Coming, queueVars, initVars, writerVars, loopVars
<1>7. CASE Tick
  BY <1>7 DEF Tick, Coming, queueVars, initVars, writerVars, loopVars
<1>8. CASE UNCHANGED vars
  BY <1>8 DEF Coming, vars, queueVars, initVars, writerVars, loopVars
<1>9. QED
  BY <1>1, <1>2, <1>3, <1>4, <1>5, <1>6, <1>7, <1>8 DEF Next, WaiterStep, ShutdownStep

(* Who changes the apartment posts the event that saves it and, unless it  *)
(* is the mode of operation, informs the observers.                        *)
LEMMA NewChange ==
  ASSUME TypeOK, [Next]_vars
  PROVE  /\ apartment' # apartment => Coming({"dirty", "mode"})'
         /\ announced' # announced => Coming({"dirty"})' /\ announced' = apartment'
         /\ apartment' \in {apartment, apartment + 1}
<1>q. PosterTypes /\ QueueTypes
  BY TypeParts
<1>1. ASSUME NEW w \in Writers, NEW e \in {"dirty", "mode"}, ChangeApartment(w, e)
      PROVE  /\ Coming({"dirty", "mode"})' /\ apartment' = apartment + 1
             /\ announced' # announced => Coming({"dirty"})' /\ announced' = apartment'
  BY <1>q, <1>1 DEF ChangeApartment, WriterGoto, Coming, PosterTypes, Posters
<1>2. CASE HandleChange
  <2>1. ASSUME m_ModelEvents' = Append(m_ModelEvents, "dirty")
        PROVE  Coming({"dirty", "mode"})' /\ Coming({"dirty"})'
    <3>1. Len(m_ModelEvents) + 1 \in DOMAIN m_ModelEvents'
          /\ m_ModelEvents'[Len(m_ModelEvents) + 1] = "dirty"
      BY <1>q, <2>1, AppendFacts, LenProperties DEF QueueTypes, EventTypes
    <3>2. QED BY <3>1 DEF Coming
  <2>2. QED BY <1>2, <2>1 DEF HandleChange, AddDirty, Coming
<1>3. CASE (LoopStep \/ LoopSpuriousWake) /\ ~HandleChange
  BY <1>3 DEF LoopStep, LoopSpuriousWake, LoopTop, LoopWake, LoopTimeout, NotifyAfterTimeout,
     LoopIdle, HandleDirty, HandleMode, FinishDirty, HandleOther, onMeterReady,
     DeliverDelayedDirty, SkipWrite, BeginWrite, EndWrite, writerVars
<1>4. ASSUME NEW w \in Posters, setupInitializedState \/ AddModelEvent(w)
      PROVE  UNCHANGED <<apartment, announced>>
  BY <1>4, PosterFrame
<1>5. ASSUME NEW w \in Writers, NEW e \in {"change", "other"}, PostEvent(w, e)
      PROVE  UNCHANGED <<apartment, announced>>
  BY <1>5 DEF PostEvent
<1>6. ASSUME NEW b \in Waiters, WaiterStep(b) PROVE UNCHANGED <<apartment, announced>>
  BY <1>6, WaiterFrame DEF writerVars
<1>7. CASE ShutdownStep \/ Tick \/ UNCHANGED vars
  BY <1>7, ShutdownFrame DEF Tick, vars, writerVars
<1>8. QED
  BY <1>1, <1>2, <1>3, <1>4, <1>5, <1>6, <1>7 DEF Next, Writer, WaiterStep, ShutdownStep, Posters

(* Who changes what SaveOK is about *)
LEMMA SaveFrame ==
  ASSUME ControlOK, [Next]_vars
  PROVE  /\ EndWrite \/ saved' \in {saved, apartment}
         /\ EndWrite \/ ~m_pendingSaveRequest \/ m_pendingSaveRequest'
         /\ event \in {"dirty", "mode"} => event' = event \/ m_pendingSaveRequest'
         /\ lpc' = "writing" => BeginWrite \/ (lpc = "writing" /\ snapshot' = snapshot)
<1>1. CASE LoopStep \/ LoopSpuriousWake
  <2>1. CASE LoopTop \/ LoopWake \/ LoopSpuriousWake \/ LoopTimeout \/ NotifyAfterTimeout
    <3>1. event = None
      BY <2>1 DEF ControlOK, LoopTop, LoopWake, LoopSpuriousWake, LoopTimeout, NotifyAfterTimeout
    <3>2. lpc' # "writing"
      BY <2>1 DEF LoopTop, LoopWake, LoopSpuriousWake, LoopTimeout, NotifyAfterTimeout, TakeEvent,
         LoopGoto
    <3>3. UNCHANGED saveVars
      BY <2>1 DEF LoopTop, LoopWake, LoopSpuriousWake, LoopTimeout, NotifyAfterTimeout, LoopIdle
    <3>4. QED BY <3>1, <3>2, <3>3 DEF saveVars, None
  <2>2. CASE HandleDirty \/ HandleMode \/ HandleChange \/ HandleOther
    BY <2>2 DEF ControlOK, HandleDirty, HandleMode, HandleChange, HandleOther, LoopGoto, saveVars
  <2>3. CASE FinishDirty
    BY <2>3 DEF FinishDirty, scheduleConfigWrite, LoopGoto
  <2>4. CASE onMeterReady \/ DeliverDelayedDirty \/ SkipWrite \/ BeginWrite \/ EndWrite
    BY <2>4 DEF ControlOK, onMeterReady, DeliverDelayedDirty, SkipWrite, BeginWrite, EndWrite,
       LoopGoto, saveVars
  <2>5. QED BY <1>1, <2>1, <2>2, <2>3, <2>4 DEF LoopStep
<1>2. ASSUME NEW w \in Posters, setupInitializedState \/ AddModelEvent(w) \/ (w \in Writers /\ Writer(w))
      PROVE  UNCHANGED <<saveVars, loopVars>>
  BY <1>2, PosterFrame
<1>3. ASSUME NEW b \in Waiters, WaiterStep(b) PROVE UNCHANGED <<saveVars, loopVars>>
  BY <1>3, WaiterFrame
<1>4. CASE ShutdownStep
  BY <1>4, ShutdownFrame DEF loopVars
<1>5. CASE Tick
  BY <1>5 DEF Tick, loopVars
<1>6. CASE UNCHANGED vars
  BY <1>6 DEF vars, saveVars, loopVars
<1>7. CASE UNCHANGED <<saveVars, loopVars>>
  BY <1>7 DEF saveVars, loopVars
<1>8. QED
  BY <1>1, <1>2, <1>3, <1>4, <1>5, <1>6, <1>7 DEF Next, WaiterStep, ShutdownStep, Posters

(* No step forgets a change. *)
LEMMA SaveStep ==
  ASSUME TypeOK, ControlOK, ReadyOK, SaveOK, [Next]_vars
  PROVE  SaveOK'
<1> DEFINE DM == {"dirty", "mode"}
<1>q. PosterTypes /\ SaveTypes
  BY TypeParts
<1>1. apartment' # apartment => Coming(DM)'
  BY NewChange
<1>2. Coming(DM) => Coming(DM)' \/ (lpc' = "handle" /\ event' \in DM)
  <2>1. Coming(DM) => Coming(DM)' \/ (TakeEvent /\ event' \in DM)
    BY ComingStep
  <2>2. QED BY <2>1 DEF TakeEvent, LoopGoto
<1>3. ASSUME lpc' = "writing", apartment' > snapshot' PROVE Coming(DM)'
  <2>1. CASE apartment' # apartment
    BY <1>1, <2>1
  <2>2. CASE apartment' = apartment
    <3>1. ~BeginWrite
      BY <1>q, <1>3, <2>2 DEF BeginWrite, PosterTypes
    <3>2. lpc = "writing" /\ snapshot' = snapshot
      BY <1>3, <3>1, SaveFrame
    <3>3. Coming(DM)
      BY <1>3, <2>2, <3>2 DEF SaveOK
    <3>4. QED BY <1>2, <1>3, <3>3
  <2>3. QED BY <2>1, <2>2
<1>4. ASSUME apartment' > saved'
      PROVE  m_pendingSaveRequest' \/ event' \in DM \/ Coming(DM)'
  <2>1. CASE apartment' # apartment
    BY <1>1, <2>1
  <2>2. CASE apartment' = apartment /\ EndWrite
    <3>1. Coming(DM)
      BY <1>4, <2>2 DEF SaveOK, EndWrite
    <3>2. QED BY <1>2, <3>1
  <2>3. CASE apartment' = apartment /\ ~EndWrite
    <3>1. saved' = saved
      BY <1>4, <1>q, <2>3, SaveFrame DEF PosterTypes
    <3>2. m_pendingSaveRequest \/ event \in DM \/ Coming(DM)
      BY <1>4, <2>3, <3>1 DEF SaveOK
    <3>3. QED BY <1>2, <2>3, <3>2, SaveFrame
  <2>4. QED BY <2>1, <2>2, <2>3
<1>5. QED BY <1>3, <1>4 DEF SaveOK

(* Comparing the wrapped numbers of two events compares the events. *)
LEMMA WrapAfter ==
  ASSUME NEW a \in 0 .. AllEvents, NEW b \in 0 .. AllEvents
  PROVE  /\ Wrap(a) \in 0 .. Mod - 1
         /\ After(Wrap(a), Wrap(b)) <=> a > b
<1> DEFINE H == Mod \div 2
<1>1. H \in Nat /\ Mod = 2 * H /\ AllEvents \in Nat /\ AllEvents < H /\ H > 3 /\ a \in Nat /\ b \in Nat /\ Mod \in Nat
  BY HalfFacts
<1>2. a <= AllEvents /\ b <= AllEvents
  BY <1>1
<1> HIDE DEF H
<1>3. Wrap(a) \in 0 .. Mod - 1 /\ Wrap(b) \in 0 .. Mod - 1
  BY <1>1, <1>2 DEF Wrap
<1>4. Wrap(a) - Wrap(b) \in {a - b, a - b + Mod, a - b - Mod}
  BY <1>1, <1>2 DEF Wrap
<1>5. Wrap(a) - Wrap(b) \in (1 - Mod) .. Mod - 1
  BY <1>1, <1>3
<1>6. (Wrap(a) - Wrap(b)) % Mod = IF a >= b THEN a - b ELSE a - b + Mod
  <2>1. CASE Wrap(a) - Wrap(b) >= 0
    <3>1. (Wrap(a) - Wrap(b)) % Mod = Wrap(a) - Wrap(b)
      <4>1. Wrap(a) - Wrap(b) \in 0 .. Mod - 1
        BY <1>1, <1>5, <2>1
      <4>2. QED BY <4>1, ModFacts
    <3>2. QED BY <1>1, <1>2, <1>4, <1>5, <2>1, <3>1
  <2>2. CASE Wrap(a) - Wrap(b) < 0
    <3>1. (Wrap(a) - Wrap(b)) % Mod = Wrap(a) - Wrap(b) + Mod
      <4>1. Wrap(a) - Wrap(b) \in (1 - Mod) .. (-1)
        BY <1>1, <1>5, <2>2
      <4>2. QED BY <4>1, ModFacts
    <3>2. QED BY <1>1, <1>2, <1>4, <1>5, <2>2, <3>1
  <2>3. QED BY <1>1, <1>5, <2>1, <2>2
<1>7. QED BY <1>1, <1>2, <1>3, <1>6 DEF After, H

(* Adding to a wrapped number wraps. *)
LEMMA WrapPlus ==
  ASSUME NEW a \in Nat, NEW k \in Nat, a + k <= AllEvents
  PROVE  (Wrap(a) + k) % Mod = Wrap(a + k)
<1>1. Mod \in Nat /\ Mod > 6 /\ AllEvents \in Nat /\ 2 * AllEvents < Mod
  BY HalfFacts
<1>2. CASE a < 3 /\ a + k >= 3
  <2> DEFINE x == Wrap(a) + k
  <2>1. x \in Mod .. 2 * Mod - 1 /\ x - Mod = Wrap(a + k)
    BY <1>1, <1>2 DEF Wrap
  <2> HIDE DEF x
  <2>2. x % Mod = Wrap(a + k)
    BY <2>1, ModFacts
  <2>3. QED BY <2>2 DEF x
<1>3. CASE ~(a < 3 /\ a + k >= 3)
  <2>1. Wrap(a) + k \in 0 .. Mod - 1 /\ Wrap(a) + k = Wrap(a + k)
    BY <1>1, <1>3 DEF Wrap
  <2>2. QED BY <2>1, ModFacts
<1>4. QED BY <1>2, <1>3

(* There are never more events than the writers, the end of the            *)
(* initialization and the handlers can have posted.                        *)
LEMMA EventsBounded ==
  ASSUME TypeOK, ControlOK, CountOK
  PROVE  /\ dequeued + Len(m_ModelEvents) <= AllEvents
         /\ dequeued \in 0 .. AllEvents /\ Len(m_ModelEvents) \in Nat
<1>q. PosterTypes /\ QueueTypes
  BY TypeParts
<1>1. Len(m_ModelEvents) \in Nat /\ dequeued \in Nat
  BY <1>q, LenProperties DEF QueueTypes
<1>2. Cardinality(ChangesIn(m_ModelEvents)) \in Nat
  BY <1>q, ChangesInAppend DEF QueueTypes, EventTypes
<1>3. Cardinality(Active) \in Nat
  BY FS_CardinalityType DEF CountOK
<1>4. Cardinality(ActiveChanges) \in Nat
  <2>1. ActiveChanges \in SUBSET Active
    BY DEF ActiveChanges, Active, ControlOK, None
  <2>2. QED BY <2>1, FS_Subset, FS_CardinalityType DEF CountOK
<1>5. Started <= AllEvents /\ Started \in Nat
  BY <1>q, ModelLoopAssumption DEF Started, SetupEvents, AllEvents, PosterTypes
<1>6. dequeued + Len(m_ModelEvents) <= Started
  BY <1>1, <1>2, <1>3, <1>4, <1>5 DEF CountOK, Events
<1>7. QED BY <1>1, <1>5, <1>6, HalfFacts

(* The event an observer still has to learn of is not taken for one it has *)
(* been informed of: every etModelDirty is younger than the last one.      *)
LEMMA ObserversAreDue ==
  ASSUME TypeOK, ControlOK, CountOK, NotesOK, lpc = "handle"
  PROVE  After(m_processedEvents, m_suppressSaveRequestNotify)
<1>1. PICK n \in 0 .. dequeued : m_suppressSaveRequestNotify = Wrap(n) /\ n < dequeued
  BY DEF NotesOK
<1>2. dequeued \in 0 .. AllEvents
  BY EventsBounded
<1>3. n \in 0 .. AllEvents /\ dequeued > n
  BY <1>1, <1>2, HalfFacts
<1>4. QED BY <1>1, <1>2, <1>3, WrapAfter DEF CountOK

(* Who changes what NotesOK is about *)
LEMMA NotesFrame ==
  ASSUME ControlOK, [Next]_vars
  PROVE  /\ HandleDirty \/ UNCHANGED noteVars
         /\ lpc = "handle" /\ event = "dirty" => HandleDirty \/ UNCHANGED <<lpc, event>>
         /\ lpc' = "handle" => TakeEvent \/ UNCHANGED lpc
         /\ TakeEvent \/ UNCHANGED countVars
<1>1. CASE LoopStep \/ LoopSpuriousWake
  <2>1. CASE LoopTop \/ LoopWake \/ LoopSpuriousWake \/ LoopTimeout \/ NotifyAfterTimeout
    BY <2>1 DEF LoopTop, LoopWake, LoopSpuriousWake, LoopTimeout, NotifyAfterTimeout,
       LoopIdle, LoopGoto
  <2>2. CASE HandleDirty
    BY <2>2 DEF HandleDirty, LoopGoto
  <2>3. CASE HandleMode \/ HandleChange \/ HandleOther \/ onMeterReady
    BY <2>3 DEF HandleMode, HandleChange, HandleOther, onMeterReady, LoopGoto
  <2>4. CASE FinishDirty \/ DeliverDelayedDirty \/ SkipWrite \/ BeginWrite \/ EndWrite
    BY <2>4 DEF FinishDirty, DeliverDelayedDirty, SkipWrite, BeginWrite, EndWrite, LoopGoto
  <2>5. QED BY <1>1, <2>1, <2>2, <2>3, <2>4 DEF LoopStep
<1>2. ASSUME NEW w \in Posters, setupInitializedState \/ AddModelEvent(w) \/ (w \in Writers /\ Writer(w))
      PROVE  UNCHANGED <<noteVars, countVars, loopVars>>
  BY <1>2, PosterFrame
<1>3. ASSUME NEW b \in Waiters, WaiterStep(b) PROVE UNCHANGED <<noteVars, countVars, loopVars>>
  BY <1>3, WaiterFrame
<1>4. CASE ShutdownStep \/ Tick \/ UNCHANGED vars
  BY <1>4, ShutdownFrame DEF Tick, vars, loopVars
<1>5. CASE UNCHANGED <<noteVars, countVars, loopVars>>
  BY <1>5 DEF loopVars
<1>6. QED
  BY <1>1, <1>2, <1>3, <1>4, <1>5 DEF Next, WaiterStep, ShutdownStep, Posters

(* No step forgets to inform the observers. *)
LEMMA NotesStep ==
  ASSUME TypeOK, ControlOK, ReadyOK, CountOK, NotesOK, [Next]_vars
  PROVE  NotesOK'
<1>q. PosterTypes /\ QueueTypes
  BY TypeParts
<1>1. announced' <= apartment'
  BY <1>q, NewChange DEF NotesOK, PosterTypes
<1>2. ASSUME announced' > informed'
      PROVE  (lpc' = "handle" /\ event' = "dirty") \/ Coming({"dirty"})'
  <2>1. CASE announced' # announced
    BY <2>1, NewChange
  <2>2. CASE announced' = announced
    <3>1. ~HandleDirty
      <4>1. HandleDirty => informed' = apartment
        BY ObserversAreDue DEF HandleDirty, NotifyObservers
      <4>2. QED BY <1>q, <1>2, <2>2, <4>1 DEF NotesOK, PosterTypes
    <3>2. announced > informed
      BY <1>2, <2>2, <3>1, NotesFrame DEF noteVars
    <3>3. CASE lpc = "handle" /\ event = "dirty"
      BY <3>1, <3>3, NotesFrame
    <3>4. CASE Coming({"dirty"})
      <4>1. Coming({"dirty"})' \/ (TakeEvent /\ event' \in {"dirty"})
        BY <3>4, ComingStep
      <4>2. QED BY <4>1 DEF TakeEvent, LoopGoto
    <3>5. QED BY <3>2, <3>3, <3>4 DEF NotesOK
  <2>3. QED BY <2>1, <2>2
<1>3. \E n \in 0 .. dequeued' : /\ m_suppressSaveRequestNotify' = Wrap(n)
                                /\ lpc' = "handle" => n < dequeued'
  <2>1. PICK n \in 0 .. dequeued : /\ m_suppressSaveRequestNotify = Wrap(n)
                                   /\ lpc = "handle" => n < dequeued
    BY DEF NotesOK
  <2>2. CASE HandleDirty
    <3>1. dequeued' = dequeued /\ lpc' = "consistent"
      BY <2>2 DEF HandleDirty, LoopGoto, countVars
    <3>2. m_suppressSaveRequestNotify' = m_processedEvents \/ m_suppressSaveRequestNotify' = m_suppressSaveRequestNotify
      BY <2>2 DEF HandleDirty, NotifyObservers, SuppressUpTo, noteVars
    <3>3. dequeued \in 0 .. dequeued
      BY <1>q DEF QueueTypes
    <3>4. QED BY <2>1, <3>1, <3>2, <3>3 DEF CountOK
  <2>3. CASE TakeEvent /\ ~HandleDirty
    <3>1. dequeued' = dequeued + 1 /\ m_suppressSaveRequestNotify' = m_suppressSaveRequestNotify
      BY <2>3, NotesFrame DEF TakeEvent, noteVars
    <3>2. n \in 0 .. dequeued' /\ n < dequeued'
      BY <1>q, <3>1 DEF QueueTypes
    <3>3. QED BY <2>1, <3>1, <3>2
  <2>4. CASE ~TakeEvent /\ ~HandleDirty
    <3>1. dequeued' = dequeued /\ m_suppressSaveRequestNotify' = m_suppressSaveRequestNotify
      BY <2>4, NotesFrame DEF countVars, noteVars
    <3>2. QED BY <2>1, <2>4, <3>1, NotesFrame
  <2>5. QED BY <2>2, <2>3, <2>4
<1>4. QED BY <1>1, <1>2, <1>3 DEF NotesOK

(***************************************************************************)
(* The number of events                                                    *)
(***************************************************************************)

(* the numbers that Events adds up are numbers *)
LEMMA CountTypes ==
  ASSUME TypeOK, ControlOK, CountOK
  PROVE  /\ IsFiniteSet(ActiveChanges)
         /\ Cardinality(Active) \in Nat /\ Cardinality(ActiveChanges) \in Nat
         /\ Cardinality(ChangesIn(m_ModelEvents)) \in Nat /\ Len(m_ModelEvents) \in Nat
         /\ Started \in Nat
<1>q. PosterTypes /\ QueueTypes
  BY TypeParts
<1>1. ActiveChanges \in SUBSET Active
  BY DEF ActiveChanges, Active, ControlOK, None
<1>2. Cardinality(ChangesIn(m_ModelEvents)) \in Nat
  BY <1>q, ChangesInAppend DEF QueueTypes, EventTypes
<1>3. Len(m_ModelEvents) \in Nat
  BY <1>q, LenProperties DEF QueueTypes
<1>4. Started \in Nat
  BY <1>q, ModelLoopAssumption DEF Started, SetupEvents, PosterTypes
<1>5. QED BY <1>1, <1>2, <1>3, <1>4, FS_Subset, FS_CardinalityType DEF CountOK

(* A poster that starts to post e adds itself, and one that has ended is   *)
(* not counted any more.                                                   *)
LEMMA PosterCount ==
  ASSUME TypeOK, ControlOK, CountOK, NEW w \in Posters
  PROVE  /\ \A e \in EventTypes : wpc[w] = "idle" /\ WriterGoto(w, "test", e) =>
              /\ IsFiniteSet(Active') /\ Cardinality(Active') = Cardinality(Active) + 1
              /\ Cardinality(ActiveChanges')
                   = Cardinality(ActiveChanges) + (IF e = "change" THEN 1 ELSE 0)
         /\ wpc[w] # "idle" /\ WriterGoto(w, "idle", None) =>
              /\ IsFiniteSet(Active') /\ Cardinality(Active') = Cardinality(Active) - 1
              /\ Cardinality(ActiveChanges')
                   = Cardinality(ActiveChanges) - (IF warg[w] = "change" THEN 1 ELSE 0)
<1>q. PosterTypes
  BY TypeParts
<1>0. IsFiniteSet(Active) /\ IsFiniteSet(ActiveChanges)
      /\ Cardinality(Active) \in Nat /\ Cardinality(ActiveChanges) \in Nat
  BY CountTypes DEF CountOK
<1>1. ASSUME NEW e \in EventTypes, wpc[w] = "idle", WriterGoto(w, "test", e)
      PROVE  /\ IsFiniteSet(Active') /\ Cardinality(Active') = Cardinality(Active) + 1
             /\ Cardinality(ActiveChanges')
                  = Cardinality(ActiveChanges) + (IF e = "change" THEN 1 ELSE 0)
  <2>1. w \notin Active /\ w \notin ActiveChanges
    BY <1>1 DEF Active, ActiveChanges, ControlOK, None
  <2>2. Active' = Active \cup {w}
    BY <1>q, <1>1 DEF Active, PosterTypes, WriterGoto
  <2>3. ActiveChanges' = IF e = "change" THEN ActiveChanges \cup {w} ELSE ActiveChanges
    <3>1. warg' = [warg EXCEPT ![w] = e] /\ warg[w] = None
      BY <1>1 DEF WriterGoto, ControlOK
    <3>2. QED BY <1>q, <3>1 DEF ActiveChanges, PosterTypes, None
  <2>4. IsFiniteSet(Active') /\ Cardinality(Active') = Cardinality(Active) + 1
    BY <1>0, <2>1, <2>2, FS_AddElement
  <2>5. Cardinality(ActiveChanges \cup {w}) = Cardinality(ActiveChanges) + 1
    BY <1>0, <2>1, FS_AddElement
  <2>6. QED BY <1>0, <2>3, <2>4, <2>5
<1>2. ASSUME wpc[w] # "idle", WriterGoto(w, "idle", None)
      PROVE  /\ IsFiniteSet(Active') /\ Cardinality(Active') = Cardinality(Active) - 1
             /\ Cardinality(ActiveChanges')
                  = Cardinality(ActiveChanges) - (IF warg[w] = "change" THEN 1 ELSE 0)
  <2>1. w \in Active /\ (w \in ActiveChanges <=> warg[w] = "change")
    BY <1>2 DEF Active, ActiveChanges
  <2>2. Active' = Active \ {w}
    BY <1>q, <1>2 DEF Active, PosterTypes, WriterGoto
  <2>3. ActiveChanges' = ActiveChanges \ {w}
    BY <1>q, <1>2 DEF ActiveChanges, PosterTypes, WriterGoto, None
  <2>4. IsFiniteSet(Active') /\ Cardinality(Active') = Cardinality(Active) - 1
    BY <1>0, <2>1, <2>2, FS_RemoveElement
  <2>5. Cardinality(ActiveChanges \ {w})
          = IF w \in ActiveChanges THEN Cardinality(ActiveChanges) - 1 ELSE Cardinality(ActiveChanges)
    BY <1>0, FS_RemoveElement
  <2>6. QED BY <1>0, <2>1, <2>3, <2>4, <2>5
<1>3. QED BY <1>1, <1>2

(* Every step keeps the count: an event that was counted when it was       *)
(* started is not counted again when it gets into the queue or leaves it.  *)
LEMMA CountStep ==
  ASSUME TypeOK, ControlOK, ReadyOK, CountOK, [Next]_vars
  PROVE  CountOK'
<1>q. PosterTypes /\ QueueTypes /\ LoopTypes
  BY TypeParts
<1>n. /\ Cardinality(Active) \in Nat /\ Cardinality(ActiveChanges) \in Nat
      /\ Cardinality(ChangesIn(m_ModelEvents)) \in Nat /\ Len(m_ModelEvents) \in Nat
      /\ Started \in Nat /\ dequeued \in Nat
  BY <1>q, CountTypes DEF QueueTypes
<1>c. IsFiniteSet(Active) /\ Events <= Started /\ m_processedEvents = Wrap(dequeued)
  BY DEF CountOK
<1>e. Events \in Nat
  BY <1>n DEF Events
<1>1. ASSUME NEW w \in Writers, Writer(w) PROVE CountOK'
  <2>1. UNCHANGED <<m_ModelEvents, countVars, m_IsInitializing, loopVars, setup>>
    BY <1>1, PosterFrame DEF queueVars, initVars
  <2>2. w \in Posters
    BY DEF Posters
  <2>3. ASSUME NEW e \in {"dirty", "mode"}, ChangeApartment(w, e) PROVE CountOK'
    <3>1. IsFiniteSet(Active') /\ Cardinality(Active') = Cardinality(Active) + 1
          /\ Cardinality(ActiveChanges') = Cardinality(ActiveChanges)
      BY <1>n, <2>2, <2>3, PosterCount DEF ChangeApartment, EventTypes
    <3>2. Started' = Started + 1
      BY <1>q, <2>1, <2>3, ModelLoopAssumption DEF ChangeApartment, Started, SetupEvents, PosterTypes
    <3>3. Events' = Events + 1
      BY <1>n, <2>1, <3>1 DEF Events, countVars, loopVars
    <3>4. QED BY <1>c, <1>e, <1>n, <2>1, <3>1, <3>2, <3>3 DEF CountOK, countVars
  <2>4. ASSUME NEW e \in {"change", "other"}, PostEvent(w, e) PROVE CountOK'
    <3>1. /\ IsFiniteSet(Active') /\ Cardinality(Active') = Cardinality(Active) + 1
          /\ Cardinality(ActiveChanges') \in {Cardinality(ActiveChanges), Cardinality(ActiveChanges) + 1}
      BY <1>n, <2>2, <2>4, PosterCount DEF PostEvent, EventTypes
    <3>2. Started' = Started + 2
      BY <1>q, <2>1, <2>4, ModelLoopAssumption DEF PostEvent, Started, SetupEvents, PosterTypes
    <3>3. Events' \in {Events + 1, Events + 2}
      BY <1>n, <2>1, <3>1 DEF Events, countVars, loopVars
    <3>4. QED BY <1>c, <1>e, <1>n, <2>1, <3>1, <3>2, <3>3 DEF CountOK, countVars
  <2>5. QED BY <1>1, <2>3, <2>4 DEF Writer
<1>2. CASE setupInitializedState
  <2>1. UNCHANGED <<m_ModelEvents, countVars, m_IsInitializing, loopVars, posted, apartment>>
    BY <1>2, PosterFrame DEF queueVars, initVars
  <2>2. /\ IsFiniteSet(Active') /\ Cardinality(Active') = Cardinality(Active) + 1
        /\ Cardinality(ActiveChanges') = Cardinality(ActiveChanges)
    <3>1. setup \in EventTypes /\ setup # "change" /\ Meter \in Posters
      BY <1>q, <1>2 DEF PosterTypes, setupInitializedState, EventTypes, Posters
    <3>2. QED BY <1>n, <1>2, <3>1, PosterCount DEF setupInitializedState
  <2>3. Started' = Started + 1
    BY <1>q, <1>2, <2>1, ModelLoopAssumption DEF setupInitializedState, Started, SetupEvents, PosterTypes
  <2>4. Events' = Events + 1
    BY <1>n, <2>1, <2>2 DEF Events, countVars, loopVars
  <2>5. QED BY <1>c, <1>e, <1>n, <2>1, <2>2, <2>3, <2>4 DEF CountOK, countVars
<1>3. ASSUME NEW w \in Posters, AddModelEvent(w) PROVE CountOK'
  <2>1. UNCHANGED <<countVars, m_IsInitializing, loopVars, posted, setup, apartment>>
    BY <1>3, PosterFrame
  <2>2. Started' = Started
    BY <2>1 DEF Started, SetupEvents
  <2>3. CASE TestInitializing(w)
    <3>1. Active' = Active /\ ActiveChanges' = ActiveChanges /\ UNCHANGED m_ModelEvents
      BY <1>q, <2>3 DEF TestInitializing, WriterGoto, Active, ActiveChanges, PosterTypes, queueVars
    <3>2. QED BY <1>c, <2>1, <2>2, <3>1 DEF CountOK, Events, countVars, loopVars
  <2>4. CASE MarkDirty(w)
    <3>1. /\ IsFiniteSet(Active') /\ Cardinality(Active') = Cardinality(Active) - 1
          /\ Cardinality(ActiveChanges') = Cardinality(ActiveChanges) /\ UNCHANGED m_ModelEvents
      BY <1>n, <2>4, PosterCount DEF MarkDirty, queueVars, ControlOK
    <3>2. Events' = Events - 1
      BY <1>n, <2>1, <3>1 DEF Events, countVars, loopVars
    <3>3. QED BY <1>c, <1>e, <1>n, <2>1, <2>2, <3>1, <3>2 DEF CountOK, countVars
  <2>5. CASE PushEvent(w)
    <3>1. /\ IsFiniteSet(Active') /\ Cardinality(Active') = Cardinality(Active) - 1
          /\ Cardinality(ActiveChanges')
               = Cardinality(ActiveChanges) - (IF warg[w] = "change" THEN 1 ELSE 0)
      BY <2>5, PosterCount DEF PushEvent
    <3>2. warg[w] \in EventTypes /\ m_ModelEvents' = Append(m_ModelEvents, warg[w])
      BY <1>q, <2>5 DEF PushEvent, ControlOK, PosterTypes
    <3>3. /\ Len(m_ModelEvents') = Len(m_ModelEvents) + 1
          /\ Cardinality(ChangesIn(m_ModelEvents'))
               = Cardinality(ChangesIn(m_ModelEvents)) + (IF warg[w] = "change" THEN 1 ELSE 0)
      BY <1>q, <3>2, AppendFacts, ChangesInAppend DEF QueueTypes
    <3>4. Events' = Events
      BY <1>n, <2>1, <3>1, <3>3 DEF Events, countVars, loopVars
    <3>5. QED BY <1>c, <2>1, <2>2, <3>1, <3>4 DEF CountOK, countVars
  <2>6. QED BY <1>3, <2>3, <2>4, <2>5 DEF AddModelEvent
<1>4. ASSUME UNCHANGED <<m_ModelEvents, countVars, wpc, warg, posted, setup, apartment, loopVars>>,
             m_IsInitializing' = m_IsInitializing
      PROVE  CountOK'
  BY <1>4 DEF CountOK, Events, Started, Active, ActiveChanges, SetupEvents, countVars, loopVars
<1>5. CASE LoopStep \/ LoopSpuriousWake
  <2>1. UNCHANGED <<wpc, warg, posted, setup>>
    BY <1>5, LoopFrame
  <2>2. Active' = Active /\ ActiveChanges' = ActiveChanges /\ SetupEvents' = SetupEvents
    BY <2>1 DEF Active, ActiveChanges, SetupEvents
  <2>3. CASE TakeEvent /\ (LoopTop \/ LoopWake)
    <3>1. UNCHANGED <<m_IsInitializing, apartment>> /\ event = None /\ lpc # "deliver"
      BY <2>3 DEF LoopTop, LoopWake, LoopIdle, initVars, ControlOK
    <3>2. /\ Len(m_ModelEvents') = Len(m_ModelEvents) - 1 /\ Len(m_ModelEvents) >= 1
          /\ Cardinality(ChangesIn(m_ModelEvents')) \in Nat
          /\ Cardinality(ChangesIn(m_ModelEvents))
               = Cardinality(ChangesIn(m_ModelEvents')) + (IF event' = "change" THEN 1 ELSE 0)
      BY <1>q, <2>3, TailFacts, ChangesInTail DEF QueueTypes, TakeEvent, LoopGoto
    <3>3. dequeued' = dequeued + 1 /\ lpc' = "handle" /\ m_processedEvents' = (m_processedEvents + 1) % Mod
      BY <2>3 DEF TakeEvent, LoopGoto
    <3>4. Events' = Events
      BY <1>n, <2>2, <3>1, <3>2, <3>3 DEF Events, None
    <3>5. m_processedEvents' = Wrap(dequeued')
      <4>1. dequeued + 1 <= AllEvents
        BY <1>n, <3>2, EventsBounded, HalfFacts
      <4>2. (Wrap(dequeued) + 1) % Mod = Wrap(dequeued + 1)
        BY <1>n, <4>1, WrapPlus
      <4>3. QED BY <1>c, <3>3, <4>2
    <3>6. QED BY <1>c, <2>1, <2>2, <3>1, <3>4, <3>5 DEF CountOK, Started
  <2>4. CASE \/ LoopTop /\ ~TakeEvent
             \/ LoopSpuriousWake \/ LoopTimeout \/ NotifyAfterTimeout
    <3>1. UNCHANGED <<m_ModelEvents, countVars, m_IsInitializing, apartment>>
      BY <2>4 DEF LoopTop, LoopIdle, LoopSpuriousWake, LoopTimeout, NotifyAfterTimeout, initVars
    <3>2. event' # "change" /\ lpc # "deliver" /\ lpc' # "deliver" /\ event # "change"
      BY <2>4 DEF LoopTop, LoopSpuriousWake, LoopTimeout, NotifyAfterTimeout, LoopGoto, ControlOK, None
    <3>3. QED BY <1>c, <2>1, <2>2, <3>1, <3>2 DEF CountOK, Events, Started, countVars
  <2>5. CASE HandleDirty \/ HandleMode \/ FinishDirty \/ HandleOther \/ SkipWrite \/ BeginWrite \/ EndWrite
    <3>1. UNCHANGED <<m_ModelEvents, countVars, m_IsInitializing, apartment>>
      BY <2>5 DEF HandleDirty, HandleMode, FinishDirty, HandleOther, SkipWrite, BeginWrite, EndWrite,
         queueVars, initVars
    <3>2. event' # "change" /\ lpc # "deliver" /\ lpc' # "deliver" /\ event # "change"
      BY <2>5 DEF HandleDirty, HandleMode, FinishDirty, HandleOther, SkipWrite, BeginWrite, EndWrite,
         LoopGoto, ControlOK, None
    <3>3. QED BY <1>c, <2>1, <2>2, <3>1, <3>2 DEF CountOK, Events, Started, countVars
  <2>6. ASSUME m_ModelEvents' = Append(m_ModelEvents, "dirty")
        PROVE  /\ Len(m_ModelEvents') = Len(m_ModelEvents) + 1
               /\ Cardinality(ChangesIn(m_ModelEvents')) = Cardinality(ChangesIn(m_ModelEvents))
    BY <1>q, <1>n, <2>6, AppendFacts, ChangesInAppend DEF QueueTypes, EventTypes
  <2>7. CASE HandleChange
    <3>1. /\ UNCHANGED <<countVars, m_IsInitializing>>
          /\ event = "change" /\ event' = None /\ lpc = "handle" /\ lpc' = "save"
          /\ apartment' \in {apartment, apartment + 1}
      BY <2>7 DEF HandleChange, LoopGoto
    <3>2. m_ModelEvents' = m_ModelEvents \/ m_ModelEvents' = Append(m_ModelEvents, "dirty")
      BY <2>7 DEF HandleChange, AddDirty
    <3>3. Started' \in {Started, Started + 1}
      <4>1. SetupEvents \in Nat /\ posted \in Nat /\ apartment \in Nat /\ MaxChanges \in Nat
        BY <1>q, ModelLoopAssumption DEF SetupEvents, PosterTypes
      <4>2. CASE apartment' = apartment
        BY <2>1, <2>2, <4>1, <4>2 DEF Started
      <4>3. CASE apartment' = apartment + 1
        <5>1. SetupEvents' = SetupEvents /\ posted' = posted
          BY <2>1, <2>2
        <5>2. CASE apartment < MaxChanges
          BY <4>1, <4>3, <5>1, <5>2 DEF Started
        <5>3. CASE ~(apartment < MaxChanges)
          BY <4>1, <4>3, <5>1, <5>3 DEF Started
        <5>4. QED BY <5>2, <5>3
      <4>4. QED BY <3>1, <4>2, <4>3
    <3>4. Events' \in {Events, Events - 1}
      <4>1. dequeued' = dequeued
        BY <3>1 DEF countVars
      <4>2. CASE m_ModelEvents' = m_ModelEvents
        BY <1>n, <2>2, <3>1, <4>1, <4>2 DEF Events, None
      <4>3. CASE m_ModelEvents' = Append(m_ModelEvents, "dirty")
        BY <1>n, <2>2, <2>6, <3>1, <4>1, <4>3 DEF Events, None
      <4>4. QED BY <3>2, <4>2, <4>3
    <3>5. QED BY <1>c, <1>e, <1>n, <2>2, <3>1, <3>3, <3>4 DEF CountOK, countVars
  <2>8. CASE onMeterReady
    <3>1. UNCHANGED <<m_ModelEvents, countVars, apartment>> /\ event' = None /\ event # "change"
          /\ lpc # "deliver" /\ m_IsInitializing' = FALSE
          /\ lpc' = IF m_IsInitializing THEN "deliver" ELSE "save"
      BY <2>8 DEF onMeterReady, LoopGoto, queueVars
    <3>2. QED BY <1>c, <2>1, <2>2, <3>1 DEF CountOK, Events, Started, countVars, None
  <2>9. CASE DeliverDelayedDirty
    <3>1. /\ UNCHANGED <<countVars, m_IsInitializing, apartment>>
          /\ event = None /\ event' = None /\ lpc = "deliver" /\ lpc' = "save" /\ ~m_IsInitializing
      BY <2>9 DEF DeliverDelayedDirty, LoopGoto, ControlOK, ReadyOK
    <3>2. m_ModelEvents' = Append(m_ModelEvents, "dirty")
      BY <2>9 DEF DeliverDelayedDirty, ReadyOK
    <3>3. Events' = Events
      BY <1>n, <2>2, <2>6, <3>1, <3>2 DEF Events, None, countVars
    <3>4. QED BY <1>c, <2>1, <2>2, <3>1, <3>3 DEF CountOK, Started, countVars
  <2>10. QED BY <1>5, <2>3, <2>4, <2>5, <2>7, <2>8, <2>9 DEF LoopStep, LoopWake
<1>6. ASSUME NEW b \in Waiters, WaiterStep(b) PROVE CountOK'
  BY <1>4, <1>6, WaiterFrame DEF queueVars, initVars, writerVars
<1>7. CASE ShutdownStep \/ Tick \/ UNCHANGED vars
  BY <1>4, <1>7, ShutdownFrame DEF Tick, vars, queueVars, initVars, writerVars
<1>8. QED
  BY <1>1, <1>2, <1>3, <1>5, <1>6, <1>7 DEF Next, WaiterStep, ShutdownStep

(***************************************************************************)
(* The barrier                                                             *)
(***************************************************************************)

(* The queue is appended to, or the loop takes its head and counts it. *)
LEMMA QueueStep ==
  ASSUME TypeOK, ControlOK, [Next]_vars
  PROVE  \/ UNCHANGED <<m_ModelEvents, dequeued>>
         \/ \E e \in EventTypes : m_ModelEvents' = Append(m_ModelEvents, e) /\ dequeued' = dequeued
         \/ TakeEvent
<1>q. PosterTypes /\ QueueTypes
  BY TypeParts
<1>c. TakeEvent \/ dequeued' = dequeued
  BY NotesFrame DEF countVars
<1>1. ASSUME NEW w \in Posters, AddModelEvent(w)
      PROVE  UNCHANGED m_ModelEvents \/ \E e \in EventTypes : m_ModelEvents' = Append(m_ModelEvents, e)
  <2>1. wpc[w] = "push" => warg[w] \in EventTypes
    BY <1>q DEF ControlOK, PosterTypes
  <2>2. QED BY <1>1, <2>1 DEF AddModelEvent, TestInitializing, MarkDirty, PushEvent, queueVars
<1>2. CASE LoopStep \/ LoopSpuriousWake
  <2>1. "dirty" \in EventTypes
    BY DEF EventTypes
  <2>2. CASE LoopTop \/ LoopWake \/ LoopSpuriousWake \/ LoopTimeout \/ NotifyAfterTimeout
    BY <1>c, <2>2 DEF LoopTop, LoopWake, LoopSpuriousWake, LoopTimeout, NotifyAfterTimeout
  <2>3. CASE HandleDirty \/ HandleMode \/ FinishDirty \/ HandleOther \/ onMeterReady
    BY <1>c, <2>3 DEF HandleDirty, HandleMode, FinishDirty, HandleOther, onMeterReady, queueVars
  <2>4. CASE HandleChange \/ DeliverDelayedDirty
    BY <1>c, <2>1, <2>4 DEF HandleChange, AddDirty, DeliverDelayedDirty
  <2>5. CASE SkipWrite \/ BeginWrite \/ EndWrite
    BY <1>c, <2>5 DEF SkipWrite, BeginWrite, EndWrite, queueVars
  <2>6. QED BY <1>2, <2>2, <2>3, <2>4, <2>5 DEF LoopStep
<1>3. CASE setupInitializedState \/ \E w \in Writers : Writer(w)
  BY <1>c, <1>3, PosterFrame DEF queueVars
<1>4. ASSUME NEW b \in Waiters, WaiterStep(b) PROVE UNCHANGED m_ModelEvents
  BY <1>4, WaiterFrame DEF queueVars
<1>5. CASE ShutdownStep \/ Tick \/ UNCHANGED vars
  BY <1>c, <1>5, ShutdownFrame DEF Tick, vars, queueVars
<1>6. QED
  BY <1>c, <1>1, <1>2, <1>3, <1>4, <1>5 DEF Next, WaiterStep, ShutdownStep

(* Only the callers of the barrier change what they wait for. *)
LEMMA WaitFrame ==
  ASSUME [Next]_vars
  PROVE  \/ UNCHANGED <<bpc, syncState, target, m_rvMut>> /\ woken \subseteq woken'
         \/ \E b \in Waiters : WaiterStep(b)
<1>1. CASE LoopStep \/ LoopSpuriousWake
  <2>1. UNCHANGED <<bpc, syncState, target, m_rvMut>>
    BY <1>1, LoopFrame
  <2>2. CASE NotifyAfterTimeout \/ FinishDirty
    BY <2>1, <2>2 DEF NotifyAfterTimeout, FinishDirty, notifyModelConsistent
  <2>3. CASE ~(NotifyAfterTimeout \/ FinishDirty)
    BY <1>1, <2>1, <2>3 DEF LoopStep, LoopSpuriousWake, LoopTop, LoopWake, LoopTimeout, LoopIdle,
       HandleDirty, HandleMode, HandleChange, HandleOther, onMeterReady, DeliverDelayedDirty,
       SkipWrite, BeginWrite, EndWrite, waitVars
  <2>4. QED BY <2>2, <2>3
<1>2. ASSUME NEW w \in Posters, setupInitializedState \/ AddModelEvent(w) \/ (w \in Writers /\ Writer(w))
      PROVE  UNCHANGED waitVars
  BY <1>2, PosterFrame
<1>3. CASE ShutdownStep \/ Tick \/ UNCHANGED vars
  BY <1>3, ShutdownFrame DEF Tick, vars, waitVars
<1>4. QED
  BY <1>1, <1>2, <1>3 DEF Next, WaiterStep, ShutdownStep, Posters, waitVars

(* Every step keeps what the barriers wait for an etModelDirty. *)
LEMMA SyncStep ==
  ASSUME TypeOK, ControlOK, CountOK, SyncOK, [Next]_vars
  PROVE  SyncOK'
<1>q. QueueTypes /\ WaiterTypes
  BY TypeParts
<1>n. Len(m_ModelEvents) \in Nat /\ dequeued \in Nat /\ m_ModelEvents \in Seq(EventTypes)
  BY <1>q, LenProperties DEF QueueTypes
<1>f. Free \notin Waiters
  BY ModelLoopAssumption
<1>1. CASE UNCHANGED <<bpc, syncState, target, m_rvMut>>
  <2>1. ASSUME NEW b \in Waiters, bpc[b] \in {"compare", "waiting"}
        PROVE  /\ target[b] <= dequeued' + Len(m_ModelEvents')
               /\ target[b] > dequeued' => m_ModelEvents'[target[b] - dequeued'] = "dirty"
    <3>1. /\ target[b] <= dequeued + Len(m_ModelEvents) /\ target[b] \in Nat
          /\ target[b] > dequeued => m_ModelEvents[target[b] - dequeued] = "dirty"
      BY <1>q, <2>1 DEF SyncOK, WaiterTypes
    <3>2. CASE UNCHANGED <<m_ModelEvents, dequeued>>
      BY <3>1, <3>2
    <3>3. CASE \E e \in EventTypes : m_ModelEvents' = Append(m_ModelEvents, e) /\ dequeued' = dequeued
      <4>1. /\ Len(m_ModelEvents') = Len(m_ModelEvents) + 1 /\ dequeued' = dequeued
            /\ \A i \in 1 .. Len(m_ModelEvents) : m_ModelEvents'[i] = m_ModelEvents[i]
        BY <1>n, <3>3, AppendFacts
      <4>2. target[b] > dequeued => target[b] - dequeued \in 1 .. Len(m_ModelEvents)
        BY <1>n, <3>1
      <4>3. QED BY <1>n, <3>1, <4>1, <4>2
    <3>4. CASE TakeEvent
      <4>1. /\ Len(m_ModelEvents') = Len(m_ModelEvents) - 1 /\ dequeued' = dequeued + 1
            /\ \A i \in 1 .. Len(m_ModelEvents) - 1 : m_ModelEvents'[i] = m_ModelEvents[i + 1]
        BY <1>n, <3>4, TailFacts DEF TakeEvent
      <4>2. target[b] > dequeued' =>
              /\ target[b] - dequeued' \in 1 .. Len(m_ModelEvents) - 1
              /\ (target[b] - dequeued') + 1 = target[b] - dequeued /\ target[b] > dequeued
        BY <1>n, <3>1, <4>1
      <4>3. QED BY <1>n, <3>1, <4>1, <4>2
    <3>5. QED BY <3>2, <3>3, <3>4, QueueStep
  <2>2. QED BY <1>1, <2>1 DEF SyncOK
<1>2. ASSUME NEW b \in Waiters, WaiterStep(b) PROVE SyncOK'
  <2>1. UNCHANGED <<m_ModelEvents, dequeued>>
    BY <1>2, WaiterFrame DEF queueVars, countVars
  <2>2. CASE ~ReadSyncState(b)
    BY <1>q, <1>f, <1>2, <2>1, <2>2 DEF SyncOK, WaiterTypes, WaiterStep, BarrierStep,
       pendingChangesBarrier, LockBarrier, CompareSyncState, WakeBarrier, TimeoutBarrier,
       ReturnFromBarrier, WaiterGoto
  <2>3. CASE ReadSyncState(b)
    <3>1. /\ LastDirty \in 0 .. Len(m_ModelEvents)
          /\ LastDirty > 0 => m_ModelEvents[LastDirty] = "dirty"
      BY <1>n, LastDirtyFacts
    <3>2. indexOfNextSyncState = Wrap(dequeued + LastDirty)
      <4>1. LastDirty \in Nat /\ dequeued + LastDirty <= AllEvents
        BY <1>n, <3>1, EventsBounded, HalfFacts
      <4>2. QED BY <1>n, <4>1, WrapPlus DEF indexOfNextSyncState, CountOK
    <3>3. /\ syncState' = [syncState EXCEPT ![b] = Wrap(dequeued + LastDirty)]
          /\ target' = [target EXCEPT ![b] = dequeued + LastDirty]
          /\ bpc' = [bpc EXCEPT ![b] = "compare"] /\ bpc[b] = "index" /\ m_rvMut' = m_rvMut
      BY <2>3, <3>2 DEF ReadSyncState, WaiterGoto
    <3>4. /\ dequeued + LastDirty <= dequeued + Len(m_ModelEvents)
          /\ dequeued + LastDirty > dequeued => m_ModelEvents[(dequeued + LastDirty) - dequeued] = "dirty"
      <4>1. (dequeued + LastDirty) - dequeued = LastDirty
        BY <1>n, <3>1
      <4>2. QED BY <1>n, <3>1, <4>1
    <3> DEFINE t == dequeued + LastDirty
    <3> HIDE DEF t
    <3>5. /\ t <= dequeued + Len(m_ModelEvents)
          /\ t > dequeued => m_ModelEvents[t - dequeued] = "dirty"
          /\ syncState' = [syncState EXCEPT ![b] = Wrap(t)] /\ target' = [target EXCEPT ![b] = t]
      BY <3>3, <3>4 DEF t
    <3>6. \A c \in Waiters : bpc'[c] \in {"index", "compare"} <=> m_rvMut' = c
      BY <1>q, <3>3 DEF SyncOK, WaiterTypes
    <3>7. ASSUME NEW c \in Waiters, bpc'[c] \in {"compare", "waiting"}
          PROVE  /\ syncState'[c] = Wrap(target'[c])
                 /\ target'[c] <= dequeued' + Len(m_ModelEvents')
                 /\ target'[c] > dequeued' => m_ModelEvents'[target'[c] - dequeued'] = "dirty"
      <4>1. CASE c = b
        <5>1. syncState'[c] = Wrap(t) /\ target'[c] = t
          BY <1>q, <3>5, <4>1 DEF WaiterTypes
        <5>2. QED BY <2>1, <3>5, <5>1
      <4>2. CASE c # b
        <5>1. syncState'[c] = syncState[c] /\ target'[c] = target[c] /\ bpc'[c] = bpc[c]
          BY <1>q, <3>3, <3>5, <4>2 DEF WaiterTypes
        <5>2. QED BY <2>1, <3>7, <5>1 DEF SyncOK
      <4>3. QED BY <4>1, <4>2
    <3>8. QED BY <3>6, <3>7 DEF SyncOK
  <2>4. QED BY <2>2, <2>3
<1>3. QED BY <1>1, <1>2, WaitFrame

(* No step lets a caller pass too early. *)
LEMMA EarlyStep ==
  ASSUME TypeOK, ControlOK, CountOK, SyncOK, BarrierNotEarly, [Next]_vars
  PROVE  BarrierNotEarly'
<1>q. QueueTypes /\ WaiterTypes
  BY TypeParts
<1>1. CASE UNCHANGED <<bpc, syncState, target, m_rvMut>>
  <2>1. dequeued' \in Nat /\ dequeued' >= dequeued
    BY <1>q, QueueStep DEF QueueTypes, TakeEvent
  <2>2. QED BY <1>1, <1>q, <2>1 DEF BarrierNotEarly, QueueTypes, WaiterTypes
<1>2. ASSUME NEW b \in Waiters, WaiterStep(b) PROVE BarrierNotEarly'
  <2>1. UNCHANGED dequeued
    BY <1>2, WaiterFrame DEF countVars
  <2>2. CASE CompareSyncState(b)
    <3>1. /\ syncState[b] = Wrap(target[b]) /\ m_processedEvents = Wrap(dequeued)
          /\ target[b] \in 0 .. AllEvents /\ dequeued \in 0 .. AllEvents
      <4>1. /\ syncState[b] = Wrap(target[b]) /\ target[b] <= dequeued + Len(m_ModelEvents)
            /\ target[b] \in Nat
        BY <1>q, <2>2 DEF SyncOK, CompareSyncState, WaiterTypes
      <4>2. QED BY <4>1, EventsBounded, HalfFacts DEF CountOK
    <3>2. After(syncState[b], m_processedEvents) <=> target[b] > dequeued
      BY <3>1, WrapAfter
    <3>3. QED
      BY <1>q, <2>1, <2>2, <3>1, <3>2 DEF BarrierNotEarly, CompareSyncState, WaiterGoto, WaiterTypes,
         QueueTypes
  <2>3. CASE ~CompareSyncState(b)
    BY <1>q, <1>2, <2>1, <2>3 DEF BarrierNotEarly, WaiterTypes, WaiterStep, BarrierStep,
       pendingChangesBarrier, LockBarrier, ReadSyncState, WakeBarrier, TimeoutBarrier,
       ReturnFromBarrier, WaiterGoto
  <2>4. QED BY <2>2, <2>3
<1>3. QED BY <1>1, <1>2, WaitFrame

(* No step loses a wake-up. *)
LEMMA WakeupStep ==
  ASSUME TypeOK, ControlOK, CountOK, SyncOK, NoLostWakeup, [Next]_vars
  PROVE  NoLostWakeup'
<1>q. QueueTypes /\ WaiterTypes
  BY TypeParts
<1>n. Len(m_ModelEvents) \in Nat /\ dequeued \in Nat /\ m_ModelEvents \in Seq(EventTypes)
  BY <1>q, LenProperties DEF QueueTypes
<1>1. CASE UNCHANGED <<bpc, syncState, target, m_rvMut>> /\ woken \subseteq woken'
  <2>1. SUFFICES ASSUME NEW b \in Waiters, bpc[b] = "waiting"
                 PROVE  \/ b \in woken'
                        \/ dequeued' < target[b]
                        \/ lpc' \in {"handle", "consistent"} /\ event' = "dirty"
    BY <1>1 DEF NoLostWakeup
  <2>2. CASE b \in woken
    BY <1>1, <2>2
  <2>3. CASE dequeued < target[b]
    <3>1. CASE TakeEvent
      <4>1. CASE dequeued + 1 < target[b]
        BY <3>1, <4>1 DEF TakeEvent
      <4>2. CASE ~(dequeued + 1 < target[b])
        <5>1. target[b] - dequeued = 1
          BY <1>q, <1>n, <2>3, <4>2 DEF WaiterTypes
        <5>2. m_ModelEvents[1] = "dirty"
          BY <1>q, <2>1, <2>3, <5>1 DEF SyncOK, WaiterTypes
        <5>3. QED BY <1>n, <3>1, <5>2, TailFacts DEF TakeEvent, LoopGoto
      <4>3. QED BY <4>1, <4>2
    <3>2. CASE ~TakeEvent
      BY <2>3, <3>2, QueueStep
    <3>3. QED BY <3>1, <3>2
  <2>4. CASE lpc \in {"handle", "consistent"} /\ event = "dirty"
    <3>1. CASE HandleDirty
      BY <3>1, <2>4 DEF HandleDirty, LoopGoto
    <3>2. CASE FinishDirty
      BY <2>1, <3>2 DEF FinishDirty, notifyModelConsistent
    <3>3. CASE (LoopStep \/ LoopSpuriousWake) /\ ~HandleDirty /\ ~FinishDirty
      BY <2>4, <3>3 DEF LoopStep, LoopSpuriousWake, LoopTop, LoopWake, LoopTimeout,
         NotifyAfterTimeout, HandleMode, HandleChange, HandleOther, onMeterReady,
         DeliverDelayedDirty, SkipWrite, BeginWrite, EndWrite
    <3>4. ASSUME NEW w \in Posters, setupInitializedState \/ AddModelEvent(w) \/ (w \in Writers /\ Writer(w))
          PROVE  UNCHANGED loopVars
      BY <3>4, PosterFrame
    <3>5. ASSUME NEW c \in Waiters, WaiterStep(c) PROVE UNCHANGED loopVars
      BY <3>5, WaiterFrame
    <3>6. CASE ShutdownStep \/ Tick \/ UNCHANGED vars
      BY <2>4, <3>6, ShutdownFrame DEF Tick, vars, loopVars
    <3>7. QED
      BY <2>4, <3>1, <3>2, <3>3, <3>4, <3>5, <3>6
      DEF Next, WaiterStep, ShutdownStep, Posters, loopVars
  <2>5. QED BY <2>1, <2>2, <2>3, <2>4 DEF NoLostWakeup
<1>2. ASSUME NEW b \in Waiters, WaiterStep(b) PROVE NoLostWakeup'
  <2>1. UNCHANGED <<dequeued, lpc, event>>
    BY <1>2, WaiterFrame DEF countVars, loopVars
  <2>2. CASE CompareSyncState(b)
    <3>1. /\ syncState[b] = Wrap(target[b]) /\ m_processedEvents = Wrap(dequeued)
          /\ target[b] \in 0 .. AllEvents /\ dequeued \in 0 .. AllEvents
      <4>1. /\ syncState[b] = Wrap(target[b]) /\ target[b] <= dequeued + Len(m_ModelEvents)
            /\ target[b] \in Nat
        BY <1>q, <2>2 DEF SyncOK, CompareSyncState, WaiterTypes
      <4>2. QED BY <4>1, EventsBounded, HalfFacts DEF CountOK
    <3>2. After(syncState[b], m_processedEvents) => dequeued < target[b]
      BY <3>1, WrapAfter
    <3>3. QED
      BY <1>q, <2>1, <2>2, <3>2 DEF NoLostWakeup, CompareSyncState, WaiterGoto, WaiterTypes
  <2>3. CASE ~CompareSyncState(b)
    BY <1>q, <1>2, <2>1, <2>3 DEF NoLostWakeup, WaiterTypes, WaiterStep, BarrierStep,
       pendingChangesBarrier, LockBarrier, ReadSyncState, WakeBarrier, TimeoutBarrier,
       ReturnFromBarrier, WaiterGoto
  <2>4. QED BY <2>2, <2>3
<1>3. QED BY <1>1, <1>2, WaitFrame

(***************************************************************************)
(* The theorems                                                            *)
(***************************************************************************)

(* ModelLoop starts in the invariant. *)
LEMMA InitIndInv == Init => IndInv
<1> SUFFICES ASSUME Init PROVE IndInv
  OBVIOUS
<1>1. TypeOK
  <2>1. PosterTypes
    BY ModelLoopAssumption DEF Init, PosterTypes
  <2>2. WaiterTypes
    BY HalfFacts DEF Init, WaiterTypes
  <2>3. QueueTypes
    BY HalfFacts DEF Init, QueueTypes
  <2>4. LoopTypes
    BY DEF Init, LoopTypes
  <2>5. SaveTypes
    <3>1. 0 \in 0 .. Delay /\ Delay \in 0 .. Delay
      BY ModelLoopAssumption
    <3>2. QED BY <3>1 DEF Init, SaveTypes
  <2>6. QED BY <2>1, <2>2, <2>3, <2>4, <2>5, TypeParts
<1>2. ControlOK
  BY DEF Init, ControlOK, None
<1>3. ReadyOK
  BY DEF Init, ReadyOK, None, Posters
<1>4. SaveOK
  BY DEF Init, SaveOK
<1>5. NotesOK
  <2>1. 0 \in 0 .. dequeued /\ m_suppressSaveRequestNotify = Wrap(0)
    BY HalfFacts DEF Init, Wrap
  <2>2. QED BY <2>1 DEF Init, NotesOK
<1>6. AgeOK
  BY ModelLoopAssumption DEF Init, AgeOK
<1>7. CountOK
  <2>1. Active = {} /\ ActiveChanges = {} /\ ChangesIn(m_ModelEvents) = {} /\ Len(m_ModelEvents) = 0
    BY DEF Init, Active, ActiveChanges, ChangesIn, None
  <2>2. Events = 1
    BY <2>1, FS_EmptySet DEF Init, Events, None
  <2>3. Started = 1
    BY ModelLoopAssumption DEF Init, Started, SetupEvents
  <2>4. m_processedEvents = Wrap(dequeued)
    BY HalfFacts DEF Init, Wrap
  <2>5. QED BY <2>1, <2>2, <2>3, <2>4, FS_EmptySet DEF CountOK
<1>8. SyncOK
  BY ModelLoopAssumption DEF Init, SyncOK
<1>9. BarrierNotEarly /\ NoLostWakeup
  BY DEF Init, BarrierNotEarly, NoLostWakeup
<1>10. QED BY <1>1, <1>2, <1>3, <1>4, <1>5, <1>6, <1>7, <1>8, <1>9 DEF IndInv

(* Every step of ModelLoop keeps the invariant. *)
LEMMA NextIndInv == IndInv /\ [Next]_vars => IndInv'
<1> SUFFICES ASSUME IndInv, [Next]_vars PROVE IndInv'
  OBVIOUS
<1>1. /\ TypeOK /\ ControlOK /\ ReadyOK /\ SaveOK /\ NotesOK /\ AgeOK /\ CountOK /\ SyncOK
      /\ BarrierNotEarly /\ NoLostWakeup
  BY DEF IndInv
<1>2. TypeOK' /\ ControlOK' /\ ReadyOK'
  BY <1>1, TypeStep, ControlStep, ReadyStep
<1>3. SaveOK' /\ NotesOK' /\ AgeOK'
  BY <1>1, SaveStep, NotesStep, AgeStep
<1>4. CountOK' /\ SyncOK' /\ BarrierNotEarly' /\ NoLostWakeup'
  BY <1>1, CountStep, SyncStep, EarlyStep, WakeupStep
<1>5. QED BY <1>2, <1>3, <1>4 DEF IndInv

(* The inductive invariant holds always: the main loop, the posters, the   *)
(* barriers and the shutdown keep it in whatever order their steps come.   *)
THEOREM Invariance == Spec => []IndInv
<1>1. QED BY InitIndInv, NextIndInv, PTL DEF Spec

(* Every variable keeps its type; the counters stay in the range of        *)
(* unsigned though they wrap.                                              *)
THEOREM TypeCorrect == Spec => []TypeOK
<1>1. IndInv => TypeOK
  BY DEF IndInv
<1>2. QED BY <1>1, Invariance, PTL

(* pendingChangesBarrier lets no caller pass before the etModelDirty that  *)
(* was queued when it was called, though m_processedEvents wraps, and no   *)
(* notification of a caller that waits is lost.                            *)
THEOREM BarrierExact == Spec => []BarrierIsExact
<1>1. IndInv => BarrierIsExact
  BY DEF IndInv, BarrierIsExact
<1>2. QED BY <1>1, Invariance, PTL

(* what is coming is on its way *)
LEMMA ComingIsOnTheWay == ASSUME NEW T, Coming(T) PROVE OnTheWay(T)
BY DEF Coming, OnTheWay

(* No interleaving of changes, of the end of the initialization and of a   *)
(* write of apartment.xml forgets a change.                                *)
THEOREM NothingForgotten == Spec => []NoChangeForgotten
<1>1. IndInv => NoChangeForgotten
  BY ComingIsOnTheWay DEF IndInv, SaveOK, NoChangeForgotten
<1>2. QED BY <1>1, Invariance, PTL

(* The observers are not left without a change that was posted with        *)
(* etModelDirty, though events already handled are skipped.                *)
THEOREM ObserversLearn == Spec => []ObserversInformed
<1>1. IndInv => ObserversInformed
  BY ComingIsOnTheWay DEF IndInv, NotesOK, ObserversInformed
<1>2. QED BY <1>1, Invariance, PTL

(* delayedConfigWrite writes apartment.xml at most once every Delay. *)
THEOREM WritesApart == Spec => WritesAreApart
<1>1. IndInv /\ [Next]_vars => [lpc = "save" /\ lpc' = "writing" => sinceWrite >= Delay]_vars
  <2>1. SUFFICES ASSUME IndInv, [Next]_vars, lpc = "save", lpc' = "writing" PROVE sinceWrite >= Delay
    OBVIOUS
  <2>2. BeginWrite
    BY <2>1, SaveFrame DEF IndInv
  <2>3. requestAge >= Delay /\ requestAge <= sinceWrite /\ requestAge \in 0 .. Delay /\ sinceWrite \in 0 .. Delay
    BY <2>1, <2>2 DEF BeginWrite, WriteDue, IndInv, AgeOK, TypeOK
  <2>4. QED BY <2>3, ModelLoopAssumption
<1>2. QED BY <1>1, Invariance, PTL DEF Spec, WritesAreApart
=============================================================================
