----------------------------- MODULE ModelLoop -----------------------------
(***************************************************************************)
(* The main loop of ModelMaintenance (src/model/modelmaintenance.cpp): the *)
(* queue of model events, the delayed writing of apartment.xml, the        *)
(* notification of observers and the barrier pendingChangesBarrier.        *)
(*                                                                         *)
(* Writers are the threads that change the apartment and post model events *)
(* (web requests, scripts, bus callbacks).  Meter is the thread of         *)
(* MeterMaintenance, which ends the initialization.  Waiters call          *)
(* pendingChangesBarrier.  Loop is the thread of                           *)
(* ModelMaintenance::execute; another thread shuts it down.                *)
(*                                                                         *)
(* The apartment is the number of changes made to it; apartment.xml holds  *)
(* the number of changes that were in it when it was written.  Of the      *)
(* model events five kinds are told apart: etModelDirty ("dirty");         *)
(* etModelOperationModeChanged ("mode"); etMeterReady ("meterReady");      *)
(* "change", an event whose handler changes the apartment and then posts   *)
(* etModelDirty; and "other".  The web service is enabled.                 *)
(*                                                                         *)
(* m_ModelEventsMutex and m_rvMut are variables since one is asked for     *)
(* while the other is held.  Counters are unsigned and wrap at Mod.        *)
(***************************************************************************)
EXTENDS Integers, Sequences

CONSTANTS
  Writers, Waiters,  \* threads
  Loop, Meter,       \* the threads of the two maintenance classes
  Mod,               \* the range of unsigned (2^32 in the code)
  Delay,             \* ticks a save request waits (30 s in the code)
  MaxChanges,        \* bound: changes made by writers
  MaxPosts           \* bound: other model events posted by writers

Free == "free"

ASSUME ModelLoopAssumption ==
  /\ Loop \notin Waiters /\ Free \notin Waiters \cup {Loop}
  /\ Meter \notin Writers
  /\ Mod \in Nat /\ Mod % 2 = 0
  /\ Mod \div 2 > MaxChanges + 2 * MaxPosts + 3  \* events in all
  /\ Delay \in Nat \ {0} /\ MaxChanges \in Nat /\ MaxPosts \in Nat

EventTypes == {"dirty", "mode", "change", "meterReady", "other"}
Posters == Writers \cup {Meter}
None == "none"

VARIABLES
  m_ModelEvents,       \* the queue, of types
  m_processedEvents,   \* events taken from the queue, modulo Mod
  m_suppressSaveRequestNotify,
  m_IsInitializing, m_IsDirty,
  m_pendingSaveRequest,
  requestAge,          \* ticks since m_pendingSaveRequestTS, up to Delay
  m_ModelEventsMutex,  \* Free or Loop (while it notifies after a timeout)
  m_rvMut,             \* Free or the waiter that holds it
  m_Terminated,
  wpc, warg,           \* control of the posters and the event they post
  setup,               \* how far setupInitializedState has come
  bpc, syncState,      \* control of the waiters, and their local
  woken,               \* waiters that m_rvCond has woken
  lpc, event,          \* control of the loop and the event it handles
  snapshot,            \* what the write under way puts into the file
  mpc,                 \* control of shutdown
  apartment, saved,    \* changes made, changes in apartment.xml
  dequeued,            \* events taken from the queue
  target,              \* number of the event a waiter has to wait for
  announced,           \* changes the observers have to learn of
  informed,            \* changes the observers know of
  sinceWrite,          \* ticks since the last delayed write, up to Delay
  posted               \* events posted by writers

queueVars == <<m_ModelEvents, m_ModelEventsMutex>>
countVars == <<m_processedEvents, dequeued>>
noteVars  == <<m_suppressSaveRequestNotify, informed>>
initVars  == <<m_IsInitializing, m_IsDirty>>
saveVars  == <<m_pendingSaveRequest, requestAge, snapshot, saved, sinceWrite>>
writerVars == <<wpc, warg, posted, setup, announced>>
waitVars  == <<bpc, syncState, target, m_rvMut, woken>>
stopVars  == <<m_Terminated, mpc>>
loopVars  == <<lpc, event>>
vars == <<queueVars, countVars, noteVars, initVars, saveVars, writerVars,
          waitVars, stopVars, loopVars, apartment>>

TypeOK ==
  /\ m_ModelEvents \in Seq(EventTypes)
  /\ m_processedEvents \in 0 .. Mod - 1
  /\ m_suppressSaveRequestNotify \in 0 .. Mod - 1
  /\ m_IsInitializing \in BOOLEAN /\ m_IsDirty \in BOOLEAN
  /\ m_pendingSaveRequest \in BOOLEAN /\ m_Terminated \in BOOLEAN
  /\ requestAge \in 0 .. Delay /\ sinceWrite \in 0 .. Delay
  /\ m_ModelEventsMutex \in {Free, Loop}
  /\ m_rvMut \in Waiters \cup {Free}
  /\ wpc \in [Posters -> {"idle", "test", "mark", "push"}]
  /\ warg \in [Posters -> EventTypes \cup {None}]
  /\ setup \in {"dirty", "meterReady", "done"}
  /\ bpc \in [Waiters -> {"idle", "lock", "index", "compare", "waiting",
                          "passed", "timedOut"}]
  /\ syncState \in [Waiters -> 0 .. Mod - 1]
  /\ woken \in SUBSET Waiters
  /\ lpc \in {"top", "waiting", "notify", "handle", "deliver",
             "consistent", "save", "writing", "done"}
  /\ event \in EventTypes \cup {None}
  /\ mpc \in {"running", "write", "terminate", "join", "stopped"}
  /\ apartment \in Nat /\ saved \in Nat /\ snapshot \in Nat /\ dequeued \in Nat
  /\ announced \in Nat /\ informed \in Nat
  /\ target \in [Waiters -> Nat]
  /\ posted \in 0 .. MaxPosts

Init ==
  /\ m_ModelEvents = << >> /\ m_ModelEventsMutex = Free
  /\ m_processedEvents = Mod - 3 /\ dequeued = 0
  /\ m_suppressSaveRequestNotify = Mod - 3
  /\ informed = 0
  /\ m_IsInitializing = TRUE /\ m_IsDirty = FALSE
  /\ m_pendingSaveRequest = FALSE /\ requestAge = 0 /\ snapshot = 0
  /\ saved = 0 /\ sinceWrite = Delay
  /\ wpc = [w \in Posters |-> "idle"] /\ warg = [w \in Posters |-> None]
  /\ posted = 0 /\ setup = "dirty" /\ announced = 0
  /\ bpc = [b \in Waiters |-> "idle"] /\ syncState = [b \in Waiters |-> 0]
  /\ target = [b \in Waiters |-> 0] /\ m_rvMut = Free /\ woken = {}
  /\ m_Terminated = FALSE /\ mpc = "running"
  /\ lpc = "top" /\ event = None
  /\ apartment = 0

-----------------------------------------------------------------------------
(* static_cast<int>(a - b) > 0, for unsigned a and b *)
PlainGreater(a, b) == a > b
After(a, b) == (a - b) % Mod \in 1 .. Mod \div 2 - 1

(* number of the last etModelDirty in the queue, counted from its head *)
DirtyIndices == {i \in DOMAIN m_ModelEvents : m_ModelEvents[i] = "dirty"}
LastDirty == IF DirtyIndices = {} THEN 0
             ELSE CHOOSE i \in DirtyIndices : \A j \in DirtyIndices : j <= i

indexOfNextSyncState == (m_processedEvents + LastDirty) % Mod

-----------------------------------------------------------------------------
(* addModelEvent, by a writer.  m_IsInitializing is read without a lock.   *)

WriterGoto(w, l, e) == /\ wpc'  = [wpc  EXCEPT ![w] = l]
                       /\ warg' = [warg EXCEPT ![w] = e]

(* A writer changes the apartment and posts etModelDirty, or               *)
(* etModelOperationModeChanged, of which the observers are not informed.   *)
ChangeApartment(w, e) ==
  /\ wpc[w] = "idle"
  /\ apartment < MaxChanges                                       \* bound
  /\ apartment' = apartment + 1
  /\ announced' = IF e = "dirty" THEN apartment' ELSE announced
  /\ WriterGoto(w, "test", e)
  /\ UNCHANGED <<queueVars, countVars, noteVars, initVars, saveVars, posted,
                 setup, waitVars, stopVars, loopVars>>

(* A writer posts another event *)
PostEvent(w, e) ==
  /\ wpc[w] = "idle"
  /\ posted < MaxPosts                                            \* bound
  /\ posted' = posted + 1
  /\ WriterGoto(w, "test", e)
  /\ UNCHANGED <<queueVars, countVars, noteVars, initVars, saveVars, setup,
                 announced, waitVars, stopVars, loopVars, apartment>>

(* MeterMaintenance has read all meters: it posts etModelDirty, and then   *)
(* etMeterReady.                                                           *)
PostsOnlyReady ==
  /\ wpc[Meter] = "idle"
  /\ setup = "dirty"
  /\ setup' = "done"
  /\ WriterGoto(Meter, "test", "meterReady")
  /\ UNCHANGED <<queueVars, countVars, noteVars, initVars, saveVars, posted,
                 announced, waitVars, stopVars, loopVars, apartment>>
setupInitializedState ==
  /\ wpc[Meter] = "idle"
  /\ setup # "done"
  /\ setup' = IF setup = "dirty" THEN "meterReady" ELSE "done"
  /\ WriterGoto(Meter, "test", setup)
  /\ UNCHANGED <<queueVars, countVars, noteVars, initVars, saveVars, posted,
                 announced, waitVars, stopVars, loopVars, apartment>>

TestInitializing(w) ==
  /\ wpc[w] = "test"
  /\ WriterGoto(w, IF m_IsInitializing /\ warg[w] = "dirty" THEN "mark" ELSE "push",
                warg[w])
  /\ UNCHANGED <<queueVars, countVars, noteVars, initVars, saveVars, posted,
                 setup, announced, waitVars, stopVars, loopVars, apartment>>

MarkDirty(w) ==
  /\ wpc[w] = "mark"
  /\ m_IsDirty' = TRUE
  /\ WriterGoto(w, "idle", None)
  /\ UNCHANGED <<queueVars, countVars, noteVars, m_IsInitializing, saveVars,
                 posted, setup, announced, waitVars, stopVars, loopVars, apartment>>

(* notify_one finds the loop, when it waits, with a queue that is not empty *)
PushEvent(w) ==
  /\ wpc[w] = "push"
  /\ m_ModelEventsMutex = Free
  /\ m_ModelEvents' = Append(m_ModelEvents, warg[w])
  /\ WriterGoto(w, "idle", None)
  /\ UNCHANGED <<m_ModelEventsMutex, countVars, noteVars, initVars, saveVars,
                 posted, setup, announced, waitVars, stopVars, loopVars, apartment>>

(* the events the loop adds itself when its handler posts etModelDirty *)
AddDirty(initializing) ==
  IF initializing
    THEN m_IsDirty' = TRUE /\ UNCHANGED m_ModelEvents
    ELSE m_ModelEvents' = Append(m_ModelEvents, "dirty") /\ UNCHANGED m_IsDirty

-----------------------------------------------------------------------------
(* handleModelEvents *)

LoopGoto(l, e) == lpc' = l /\ event' = e

(* pop_front and m_processedEvents++ *)
TakeEvent ==
  /\ m_ModelEvents # << >>
  /\ m_ModelEvents' = Tail(m_ModelEvents)
  /\ m_processedEvents' = (m_processedEvents + 1) % Mod
  /\ dequeued' = dequeued + 1
  /\ LoopGoto("handle", Head(m_ModelEvents))

LoopIdle == UNCHANGED <<m_ModelEventsMutex, noteVars, initVars, saveVars,
                        writerVars, waitVars, stopVars, apartment>>

LoopTop ==
  /\ lpc = "top"
  /\ m_ModelEventsMutex = Free
  /\ \/ ~m_Terminated /\ TakeEvent
     \/ /\ m_Terminated \/ m_ModelEvents = << >>
        /\ LoopGoto(IF m_Terminated THEN "done" ELSE "waiting", None)
        /\ UNCHANGED <<m_ModelEvents, countVars>>
  /\ LoopIdle

(* m_NewModelEvent was notified: the queue is not empty *)
LoopWake ==
  /\ lpc = "waiting"
  /\ m_ModelEventsMutex = Free
  /\ TakeEvent
  /\ LoopIdle

(* "observed wait to return without a prior notify call" *)
LoopSpuriousWake ==
  /\ lpc = "waiting"
  /\ m_ModelEventsMutex = Free
  /\ m_ModelEvents = << >>
  /\ LoopGoto("save", None)
  /\ UNCHANGED <<m_ModelEvents, countVars>>
  /\ LoopIdle

(* The wait timed out.  The lock is taken again and held in                *)
(* notifyModelConsistent; an event that has come meanwhile has to wait.    *)
WaitsForEver == FALSE
LoopTimeout ==
  /\ lpc = "waiting"
  /\ m_ModelEventsMutex = Free
  /\ m_ModelEventsMutex' = Loop
  /\ LoopGoto("notify", None)
  /\ UNCHANGED <<m_ModelEvents, countVars, noteVars, initVars, saveVars,
                 writerVars, waitVars, stopVars, apartment>>

(* m_rvCond.notify_all, with m_rvMut *)
NotifiesOne ==
  /\ m_rvMut = Free
  /\ LET waiting == {b \in Waiters : bpc[b] = "waiting"} \ woken
     IN  IF waiting = {} THEN UNCHANGED woken
                         ELSE \E b \in waiting : woken' = woken \cup {b}
notifyModelConsistent ==
  /\ m_rvMut = Free
  /\ woken' = {b \in Waiters : bpc[b] = "waiting"} \cup woken

NotifyAfterTimeout ==
  /\ lpc = "notify"
  /\ notifyModelConsistent
  /\ m_ModelEventsMutex' = Free
  /\ LoopGoto("save", None)
  /\ UNCHANGED <<m_ModelEvents, countVars, noteVars, initVars, saveVars,
                 writerVars, bpc, syncState, target, m_rvMut, stopVars,
                 apartment>>

(* "skip etModelDirty events already on the queue" *)
SkipsNext    == m_suppressSaveRequestNotify' = (m_processedEvents + 1) % Mod
SuppressUpTo == m_suppressSaveRequestNotify' = m_processedEvents

NotifyObservers ==
  \/ /\ After(m_processedEvents, m_suppressSaveRequestNotify)
     /\ informed' = apartment
     /\ SuppressUpTo
  \/ /\ ~After(m_processedEvents, m_suppressSaveRequestNotify)
     /\ UNCHANGED noteVars

scheduleConfigWrite ==
  /\ m_pendingSaveRequest' = TRUE
  /\ requestAge' = IF m_pendingSaveRequest THEN requestAge ELSE 0

HandleDirty ==
  /\ lpc = "handle" /\ event = "dirty"
  /\ NotifyObservers
  /\ LoopGoto("consistent", event)
  /\ UNCHANGED <<queueVars, countVars, initVars, saveVars, writerVars, waitVars,
                 stopVars, apartment>>

HandleMode ==
  /\ lpc = "handle" /\ event = "mode"
  /\ LoopGoto("consistent", event)
  /\ UNCHANGED <<queueVars, countVars, noteVars, initVars, saveVars, writerVars,
                 waitVars, stopVars, apartment>>

(* what follows for both *)
FinishDirty ==
  /\ lpc = "consistent"
  /\ notifyModelConsistent
  /\ scheduleConfigWrite
  /\ LoopGoto("save", None)
  /\ UNCHANGED <<queueVars, countVars, noteVars, initVars, snapshot, saved,
                 sinceWrite, writerVars, bpc, syncState, target, m_rvMut,
                 stopVars, apartment>>

(* Handlers that change the apartment, or do not find what they look for *)
HandleChange ==
  /\ lpc = "handle" /\ event = "change"
  /\ \/ /\ apartment' = apartment + 1
        /\ announced' = apartment'
        /\ AddDirty(m_IsInitializing)
     \/ UNCHANGED <<apartment, announced, m_ModelEvents, m_IsDirty>>
  /\ LoopGoto("save", None)
  /\ UNCHANGED <<m_ModelEventsMutex, countVars, noteVars, m_IsInitializing,
                 saveVars, wpc, warg, posted, setup, waitVars, stopVars>>

onMeterReady ==
  /\ lpc = "handle" /\ event = "meterReady"
  /\ m_IsInitializing' = FALSE
  /\ LoopGoto(IF m_IsInitializing THEN "deliver" ELSE "save", None)
  /\ UNCHANGED <<queueVars, countVars, noteVars, m_IsDirty, saveVars,
                 writerVars, waitVars, stopVars, apartment>>

(* "handle delayed model dirty" *)
DeliverDelayedDirty ==
  /\ lpc = "deliver"
  /\ IF m_IsDirty
       THEN m_IsDirty' = FALSE /\ m_ModelEvents' = Append(m_ModelEvents, "dirty")
       ELSE UNCHANGED <<m_IsDirty, m_ModelEvents>>
  /\ LoopGoto("save", None)
  /\ UNCHANGED <<m_ModelEventsMutex, countVars, noteVars, m_IsInitializing,
                 saveVars, writerVars, waitVars, stopVars, apartment>>

HandleOther ==
  /\ lpc = "handle" /\ event = "other"
  /\ LoopGoto("save", None)
  /\ UNCHANGED <<queueVars, countVars, noteVars, initVars, saveVars, writerVars,
                 waitVars, stopVars, apartment>>

(* delayedConfigWrite, with m_SaveRequestMutex held.  The file gets the    *)
(* apartment as it was when the write began, or later changes too; the     *)
(* former is what may go wrong.                                            *)
WritesAtOnce == m_pendingSaveRequest
WriteDue == m_pendingSaveRequest /\ requestAge >= Delay

SkipWrite ==
  /\ lpc = "save"
  /\ ~WriteDue
  /\ LoopGoto("top", None)
  /\ UNCHANGED <<queueVars, countVars, noteVars, initVars, saveVars, writerVars,
                 waitVars, stopVars, apartment>>

BeginWrite ==
  /\ lpc = "save"
  /\ WriteDue
  /\ snapshot' = apartment
  /\ LoopGoto("writing", None)
  /\ UNCHANGED <<queueVars, countVars, noteVars, initVars, m_pendingSaveRequest,
                 requestAge, saved, sinceWrite, writerVars, waitVars, stopVars,
                 apartment>>

EndWrite ==
  /\ lpc = "writing"
  /\ saved' = snapshot /\ snapshot' = 0
  /\ m_pendingSaveRequest' = FALSE /\ requestAge' = 0
  /\ sinceWrite' = 0
  /\ LoopGoto("top", None)
  /\ UNCHANGED <<queueVars, countVars, noteVars, initVars, writerVars, waitVars,
                 stopVars, apartment>>

-----------------------------------------------------------------------------
(* pendingChangesBarrier *)

WaiterGoto(b, l) == bpc' = [bpc EXCEPT ![b] = l]
WaiterUnchanged == UNCHANGED <<queueVars, countVars, noteVars, initVars,
                               saveVars, writerVars, stopVars, loopVars,
                               apartment>>

pendingChangesBarrier(b) ==
  /\ bpc[b] = "idle"
  /\ WaiterGoto(b, "lock")
  /\ UNCHANGED <<syncState, target, m_rvMut, woken>> /\ WaiterUnchanged

LockBarrier(b) ==
  /\ bpc[b] = "lock"
  /\ m_rvMut = Free
  /\ m_rvMut' = b
  /\ WaiterGoto(b, "index")
  /\ UNCHANGED <<syncState, target, woken>> /\ WaiterUnchanged

(* takes m_ModelEventsMutex with m_rvMut held *)
ReadSyncState(b) ==
  /\ bpc[b] = "index"
  /\ m_ModelEventsMutex = Free
  /\ syncState' = [syncState EXCEPT ![b] = indexOfNextSyncState]
  /\ target' = [target EXCEPT ![b] = dequeued + LastDirty]
  /\ WaiterGoto(b, "compare")
  /\ UNCHANGED <<m_rvMut, woken>> /\ WaiterUnchanged

(* the condition of the loop, read without m_ModelEventsMutex *)
CompareSyncState(b) ==
  /\ bpc[b] = "compare"
  /\ m_rvMut' = Free
  /\ WaiterGoto(b, IF After(syncState[b], m_processedEvents) THEN "waiting"
                                                             ELSE "passed")
  /\ UNCHANGED <<syncState, target, woken>> /\ WaiterUnchanged

(* m_rvCond was notified, or the wait ended for no reason *)
WakeBarrier(b) ==
  /\ bpc[b] = "waiting"
  /\ m_rvMut = Free
  /\ m_rvMut' = b
  /\ woken' = woken \ {b}
  /\ WaiterGoto(b, "compare")
  /\ UNCHANGED <<syncState, target>> /\ WaiterUnchanged

TimeoutBarrier(b) ==
  /\ bpc[b] = "waiting"
  /\ m_rvMut = Free
  /\ woken' = woken \ {b}
  /\ WaiterGoto(b, "timedOut")
  /\ UNCHANGED <<syncState, target, m_rvMut>> /\ WaiterUnchanged

ReturnFromBarrier(b) ==
  /\ bpc[b] \in {"passed", "timedOut"}
  /\ WaiterGoto(b, "idle")
  /\ syncState' = [syncState EXCEPT ![b] = 0]
  /\ target' = [target EXCEPT ![b] = 0]
  /\ UNCHANGED <<m_rvMut, woken>> /\ WaiterUnchanged

-----------------------------------------------------------------------------
(* shutdown, on another thread *)

StopUnchanged == UNCHANGED <<queueVars, countVars, noteVars, initVars,
                             m_pendingSaveRequest, requestAge, snapshot,
                             sinceWrite, writerVars, waitVars, loopVars,
                             apartment>>

shutdown ==
  /\ mpc = "running"
  /\ mpc' = IF m_pendingSaveRequest THEN "write" ELSE "terminate"
  /\ UNCHANGED <<saved, m_Terminated>> /\ StopUnchanged

(* writeConfigurationToXML locks the apartment: one write at a time *)
SaveAtShutdown ==
  /\ mpc = "write"
  /\ lpc # "writing"
  /\ saved' = apartment
  /\ mpc' = "terminate"
  /\ UNCHANGED m_Terminated /\ StopUnchanged

TerminateLoop ==
  /\ mpc = "terminate"
  /\ m_Terminated' = TRUE
  /\ mpc' = "join"
  /\ UNCHANGED saved /\ StopUnchanged

JoinLoop ==
  /\ mpc = "join"
  /\ lpc = "done"
  /\ mpc' = "stopped"
  /\ UNCHANGED <<saved, m_Terminated>> /\ StopUnchanged

Tick ==
  /\ requestAge' = IF m_pendingSaveRequest /\ requestAge < Delay
                     THEN requestAge + 1 ELSE requestAge
  /\ sinceWrite' = IF sinceWrite < Delay THEN sinceWrite + 1 ELSE sinceWrite
  /\ <<requestAge, sinceWrite>>' # <<requestAge, sinceWrite>>
  /\ UNCHANGED <<queueVars, countVars, noteVars, initVars, m_pendingSaveRequest,
                 snapshot, saved, writerVars, waitVars, stopVars, loopVars,
                 apartment>>

-----------------------------------------------------------------------------
Writer(w) ==
  \/ \E e \in {"dirty", "mode"} : ChangeApartment(w, e)
  \/ \E e \in {"change", "other"} : PostEvent(w, e)
AddModelEvent(w) == TestInitializing(w) \/ MarkDirty(w) \/ PushEvent(w)

LoopStep ==
  \/ LoopTop \/ LoopWake \/ LoopTimeout \/ NotifyAfterTimeout
  \/ HandleDirty \/ HandleMode \/ FinishDirty \/ HandleChange \/ HandleOther
  \/ onMeterReady \/ DeliverDelayedDirty
  \/ SkipWrite \/ BeginWrite \/ EndWrite

BarrierStep(b) ==
  \/ LockBarrier(b) \/ ReadSyncState(b) \/ CompareSyncState(b)

Shutdown == SaveAtShutdown \/ TerminateLoop \/ JoinLoop

Next ==
  \/ \E w \in Writers : Writer(w)
  \/ setupInitializedState
  \/ \E w \in Posters : AddModelEvent(w)
  \/ \E b \in Waiters : \/ pendingChangesBarrier(b) \/ BarrierStep(b)
                        \/ WakeBarrier(b) \/ TimeoutBarrier(b)
                        \/ ReturnFromBarrier(b)
  \/ LoopStep \/ LoopSpuriousWake \/ shutdown \/ Shutdown \/ Tick

(* Threads run, and a thread that waits for a lock others give back gets   *)
(* it.  A wait on a condition variable ends when it is notified, and at    *)
(* its timeout at the latest; it need not end for no reason.               *)
Fairness ==
  /\ \A w \in Posters : SF_vars(AddModelEvent(w))
  /\ WF_vars(setupInitializedState)
  /\ \A b \in Waiters : /\ SF_vars(BarrierStep(b))
                         /\ SF_vars(b \in woken /\ WakeBarrier(b))
                         /\ SF_vars(TimeoutBarrier(b))
  /\ SF_vars(LoopStep) /\ WF_vars(Tick) /\ WF_vars(Shutdown)

Spec == Init /\ [][Next]_vars /\ Fairness

-----------------------------------------------------------------------------
(* Safety *)

(* A barrier that lets its caller pass has seen the etModelDirty events    *)
(* that were queued when it was called leave the queue, also when the      *)
(* counter has wrapped meanwhile.                                          *)
BarrierNotEarly ==
  \A b \in Waiters : bpc[b] = "passed" => dequeued >= target[b]

(* A barrier that waits will be woken in time: the event it waits for is   *)
(* still to be handled, or m_rvCond has been notified since.  No wake-up   *)
(* is lost between the test, made without m_ModelEventsMutex, and the wait. *)
NoLostWakeup ==
  \A b \in Waiters :
    bpc[b] = "waiting" =>
      \/ b \in woken
      \/ dequeued < target[b]
      \/ lpc \in {"handle", "consistent"} /\ event = "dirty"

(* A barrier lets its caller pass not too early (BarrierNotEarly), and no  *)
(* wake-up of it is lost (NoLostWakeup).                                   *)
BarrierIsExact == BarrierNotEarly /\ NoLostWakeup

(* an event that leads to a save is posted, queued, or being handled;      *)
(* m_IsDirty leads to one only as long as onMeterReady is to come          *)
OnTheWay(types) ==
  \/ \E w \in Posters : wpc[w] # "idle" /\ warg[w] \in types
  \/ \E i \in DOMAIN m_ModelEvents : m_ModelEvents[i] \in types
  \/ m_IsDirty /\ (m_IsInitializing \/ lpc = "deliver")

(* A change that is not in apartment.xml will get there: an event is on    *)
(* its way that leads to a save, or a save is pending.  No interleaving of *)
(* the writers, of the end of the initialization (m_IsInitializing is read *)
(* without a lock) and of a write under way forgets it.                    *)
NoChangeForgotten ==
  apartment > saved =>
    m_pendingSaveRequest \/ event \in {"dirty", "mode"} \/ OnTheWay({"dirty", "mode"})

(* Observers learn of a change without the delay of the file: none that    *)
(* was posted with etModelDirty is unknown to them when no etModelDirty is *)
(* on its way.                                                             *)
ObserversInformed ==
  announced > informed =>
    (lpc = "handle" /\ event = "dirty") \/ OnTheWay({"dirty"})

(* The loop writes apartment.xml at most once every Delay, however the     *)
(* changes come (tests/model-mainloop_tests.cpp, testEraseBreaksEventCounter). *)
WritesAreApart ==
  [][lpc = "save" /\ lpc' = "writing" => sinceWrite >= Delay]_vars

(* Liveness *)

(* Every change gets into apartment.xml in the end, unless the dSS is shut *)
(* down, however the changes meet the writes and the delay                 *)
ChangeIsSaved == <>[](saved = apartment \/ mpc # "running")

(* pendingChangesBarrier returns: "It will then block until that event has *)
(* been processed" (modelmaintenance.h), or the time is over.              *)
BarrierReturns ==
  \A b \in Waiters : bpc[b] = "lock" ~> bpc[b] \in {"passed", "timedOut"}

=============================================================================
