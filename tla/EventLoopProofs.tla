-------------------------- MODULE EventLoopProofs --------------------------
(***************************************************************************)
(* Proofs about EventLoop, for every set of producers, every set of        *)
(* templates and every bound.                                              *)
(***************************************************************************)
EXTENDS EventLoop, TLAPS, NaturalsInduction, WellFoundedInduction, SequenceTheorems

(***************************************************************************)
(* Schedules                                                               *)
(***************************************************************************)

(* Min of a nonempty set of naturals is one of them. *)
LEMMA MinIsElement ==
  ASSUME NEW S \in SUBSET Nat, S # {}
  PROVE  Min(S) \in S
<1> DEFINE R == {ss \in Nat \X Nat : ss[1] < ss[2]}
<1>1. IsWellFoundedOn(R, Nat)
  BY NatLessThanWellFounded, Zenon DEF OpToRel
<1>2. PICK x \in S : \A y \in S : <<y, x>> \notin R
  <2> HIDE DEF R
  <2> QED BY <1>1, WFMin
<1>3. ASSUME NEW y \in S PROVE x =< y
  <2>1. x \in Nat /\ y \in Nat
    OBVIOUS
  <2>2. ~(y < x)
    BY <1>2, <2>1
  <2>3. QED BY <2>1, <2>2
<1>4. QED BY <1>3 DEF Min

(* Moving the iterator of a schedule keeps it a schedule of its kind. *)
LEMMA AdvanceByType ==
  ASSUME NEW s \in Schedules, s.next # NullDate, NEW k \in Nat
  PROVE  AdvanceBy(s, k) \in Schedules /\ AdvanceBy(s, k).recur = s.recur
<1>1. s.next \in Nat /\ s.left \in Nat /\ s.next + k * Interval \in Nat
  <2>1. s.next \in Nat /\ s.left \in Nat
    BY DEF Schedules, NullDate
  <2>2. Interval \in Nat /\ k * Interval \in Nat
    BY IntervalAssumption
  <2>3. QED BY <2>1, <2>2
<1>2. CASE k > s.left
  BY <1>1, <1>2 DEF AdvanceBy, Schedules, NullDate
<1>3. CASE ~(k > s.left)
  <2>1. s.left - k \in Nat
    BY <1>1, <1>3
  <2>2. QED BY <1>1, <1>3, <2>1 DEF AdvanceBy, Schedules
<1>4. QED BY <1>2, <1>3

(* leapAdjust keeps a schedule a schedule of its kind. *)
LEMMA LeapAdjustType ==
  ASSUME NEW s \in Schedules, NEW endTime \in Int
  PROVE  LeapAdjust(s, endTime) \in Schedules /\ LeapAdjust(s, endTime).recur = s.recur
<1>1. CASE ~s.recur \/ s.next = NullDate
  BY <1>1 DEF LeapAdjust
<1>2. CASE ~(~s.recur \/ s.next = NullDate)
  <2> DEFINE K == {k \in 0 .. s.left + 1 :
                     \/ k = s.left + 1
                     \/ Written(s.next + k * Interval) >= endTime}
  <2>1. s.left \in Nat
    BY DEF Schedules
  <2>2. K \in SUBSET Nat /\ s.left + 1 \in K
    <3>1. s.left + 1 \in 0 .. s.left + 1
      BY <2>1
    <3>2. 0 .. s.left + 1 \subseteq Nat
      BY <2>1
    <3>3. QED BY <3>1, <3>2, Zenon
  <2>3. Min(K) \in Nat
    BY <2>2, MinIsElement
  <2>4. LeapAdjust(s, endTime) = AdvanceBy(s, Min(K))
    BY <1>2 DEF LeapAdjust
  <2>5. QED BY <1>2, <2>3, <2>4, AdvanceByType
<1>3. QED BY <1>1, <1>2

(* Asking for the next occurrence keeps a schedule a schedule of its kind. *)
LEMMA AfterNextType ==
  ASSUME NEW s \in Schedules, NEW from \in Nat
  PROVE  /\ AfterNextOccurrence(s, from) \in Schedules
         /\ AfterNextOccurrence(s, from).recur = s.recur
BY AdvanceByType DEF AfterNextOccurrence

(* scheduleFromEvent yields schedules; an event without timer properties  *)
(* gets none.                                                             *)
LEMMA ScheduleFromEventType ==
  ASSUME NEW ev, ev.time \in Nat \cup {Unset, BadTime}, ev.ical \in Nat,
         NEW t \in Nat
  PROVE  /\ scheduleFromEvent(ev, t) \subseteq Schedules
         /\ ev.time = Unset /\ ev.ical = 0 => scheduleFromEvent(ev, t) = {}
<1>1. \A n \in Nat : StaticSchedule(n) \in Schedules
  BY DEF StaticSchedule, Schedules
<1>2. ev.ical > 0 => ICalSchedule(t, ev.ical, t) \in Schedules
  <2> SUFFICES ASSUME ev.ical > 0
               PROVE  ICalSchedule(t, ev.ical, t) \in Schedules
    OBVIOUS
  <2>1. [recur |-> TRUE, next |-> t, left |-> ev.ical - 1] \in Schedules
    BY DEF Schedules
  <2>2. Written(t) \in Int
    BY TimezoneAssumption DEF Written, Local
  <2>3. QED BY <2>1, <2>2, LeapAdjustType DEF ICalSchedule
<1>3. QED BY <1>1, <1>2 DEF scheduleFromEvent, Unset, BadTime

(***************************************************************************)
(* The inductive invariant.                                                *)
(*                                                                         *)
(* The named properties are not inductive.  They rest on what m_EventsMutex*)
(* protects (nothing leaves the list while a pass runs, so the events it   *)
(* has still to look at are scheduled), on the bookkeeping of the runner   *)
(* (a one-shot event that was forwarded and still is scheduled is on the   *)
(* runner's way to removing it), and on event objects being new when they  *)
(* are scheduled.                                                          *)
(***************************************************************************)

(* a thread works on an event, the interpreter handles one *)
Busy == {"addEvent", "merge", "append", "signal", "removeChild",
         "removeInternal", "pushed"}
ArgsOK ==
  /\ \A t \in Threads : pc[t] \in Busy => arg[t] \in EventIds
  /\ ipc = "handle" => current \in EventIds
  /\ \A p \in Producers : pc[p] # "pushed"

(* m_EventsMutex is held exactly during a pass *)
InPass  == {"scan", "merge", "append", "signal", "pushed"}
InPush  == {"merge", "append", "signal", "pushed"}
MutexOK ==
  /\ m_EventsMutex = Runner <=> pc[Runner] \in InPass
  /\ pc[Runner] # "addEvent"
  /\ m_EventsMutex = Free => unscanned = {}
  /\ pc[Runner] \in {"lock", "waiting"} => removeIDs = {}

(* nothing knows event e, threads T excepted *)
Untouched(e, T) ==
  /\ raises[e] = 0
  /\ e \notin m_ScheduledEvents /\ e \notin m_MonitorNode
  /\ e \notin cancelled /\ e \notin removeIDs
  /\ \A u \in Threads \ T : arg[u] # e
Entry == {"addEvent", "merge", "append"}
FreshOK ==
  /\ \A e \in EventIds : e > created => Untouched(e, {})
  /\ \A p \in Producers : pc[p] \in Entry => Untouched(arg[p], {p})

(* the pass looks at scheduled events, and at each of them once *)
PassOK ==
  /\ unscanned \subseteq m_ScheduledEvents
  /\ pc[Runner] \in InPush => arg[Runner] \in m_ScheduledEvents \ unscanned

(* a forwarded one-shot event that still is scheduled is being dealt with *)
Pending(e) ==
  \/ e \in removeIDs
  \/ pc[Runner] \in InPush \cup {"removeChild", "removeInternal"} /\ arg[Runner] = e
PendingOK ==
  \A e \in m_ScheduledEvents :
     ~schedule[e].recur /\ raises[e] > 0 => Pending(e) /\ e \notin unscanned

CancelledOK == cancelled \cap m_ScheduledEvents = {}

IndInv == TypeOK /\ ArgsOK /\ MutexOK /\ PassOK /\ FreshOK /\ PendingOK
          /\ RaisedOnce /\ CancelledOK /\ ScheduledIsMonitored

(***************************************************************************)
(* Steps that leave new events alone.                                      *)
(***************************************************************************)

(* what thread t and the runner may touch *)
Known(t) == m_ScheduledEvents \cup m_MonitorNode \cup removeIDs
            \cup {arg[t], NoEvent}

(* Thread t goes to l with event x, touching known events only *)
Frame(t, l, x) ==
  /\ pc' = [pc EXCEPT ![t] = l] /\ arg' = [arg EXCEPT ![t] = x]
  /\ l # "addEvent" /\ x \in Known(t)
  /\ t \in Producers /\ l \in Entry =>
       /\ pc[t] \in Entry /\ x = arg[t]
       /\ UNCHANGED <<raises, m_ScheduledEvents, m_MonitorNode, removeIDs, cancelled>>
  /\ created' = created
  /\ \A e \in EventIds : e \notin Known(t) => raises'[e] = raises[e]
  /\ m_ScheduledEvents' \subseteq Known(t) /\ m_MonitorNode' \subseteq Known(t)
  /\ removeIDs' \subseteq Known(t) /\ cancelled' \subseteq cancelled \cup Known(t)

(* Such a step keeps new events untouched. *)
LEMMA FreshFrame ==
  ASSUME IndInv, NEW t \in Threads, NEW l, NEW x, Frame(t, l, x)
  PROVE  FreshOK'
<1> USE DEF IndInv, TypeOK, ArgsOK, Busy, FreshOK, Threads
<1>1. \A e \in EventIds : e # NoEvent
  BY DEF EventIds, NoEvent
<1>2. ASSUME NEW e \in EventIds, e > created' PROVE Untouched(e, {})'
  <2>1. Untouched(e, {}) /\ e \notin Known(t)
    BY <1>1, <1>2 DEF Frame, Untouched, Known
  <2>2. QED BY <2>1 DEF Untouched, Frame
<1>3. ASSUME NEW p \in Producers, pc'[p] \in Entry
      PROVE  Untouched(arg[p], {p})'
  <2>1. pc[p] \in Entry /\ arg'[p] = arg[p] /\ arg[p] \in EventIds /\ Untouched(arg[p], {p})
    BY <1>3 DEF Frame, Entry
  <2>2. CASE p = t
    BY <1>3, <2>1, <2>2 DEF Untouched, Frame
  <2>3. CASE p # t
    <3>1. arg[p] \notin Known(t)
      BY <1>1, <2>1, <2>3 DEF Untouched, Known
    <3>2. QED BY <2>1, <2>3, <3>1 DEF Untouched, Frame
  <2>4. QED BY <2>2, <2>3
<1>4. QED BY <1>2, <1>3

(* The properties of one event object put into another one. *)
LEMMA ReplaceType ==
  ASSUME TypeOK, NEW o \in EventIds, NEW e \in EventIds
  PROVE  ReplaceProperties(o, e) \in [EventIds -> EventType]
<1>1. \A x, y \in EventType : TakeOver(x, y) \in EventType
  BY DEF TakeOver, EventType
<1>2. QED BY <1>1 DEF TypeOK, ReplaceProperties

(* Clearing the timer properties of an event object... *)
LEMMA ClearTimerType ==
  ASSUME TypeOK, NEW e \in EventIds
  PROVE  /\ ClearTimer(evt[e]) \in EventType
         /\ ClearTimer(evt[e]).time = Unset /\ ClearTimer(evt[e]).ical = 0
BY DEF TypeOK, EventType, ClearTimer

(* ... leaves it without a schedule. *)
LEMMA ClearedHasNoSchedule ==
  ASSUME TypeOK, NEW e \in EventIds
  PROVE  scheduleFromEvent(ClearTimer(evt[e]), now) = {}
<1>1. now \in Nat
  BY DEF TypeOK
<1> DEFINE c == ClearTimer(evt[e])
<1>2. c.time = Unset /\ c.ical = 0 /\ c.time \in Nat \cup {Unset, BadTime} /\ c.ical \in Nat
  BY ClearTimerType DEF EventType
<1> HIDE DEF c
<1>3. scheduleFromEvent(c, now) = {}
  BY <1>1, <1>2, ScheduleFromEventType
<1>4. QED BY <1>3 DEF c

(* Forwarding an event moves its iterator but not the kind of its schedule. *)
LEMMA ScanEventKind ==
  ASSUME IndInv, NEW e \in EventIds, ScanEvent(e)
  PROVE  /\ schedule' \in [EventIds -> Schedules]
         /\ \A x \in EventIds : schedule'[x].recur = schedule[x].recur
<1> DEFINE s1 == AfterNextOccurrence(schedule[e], passNow)
<1>1. s1 \in Schedules /\ s1.recur = schedule[e].recur
  BY AfterNextType DEF IndInv, TypeOK
<1>2. schedule' = [schedule EXCEPT ![e] = s1]
  BY DEF ScanEvent
<1> HIDE DEF s1
<1>3. QED BY <1>1, <1>2 DEF IndInv, TypeOK

(* Nor does the question whether it will be raised again. *)
LEMMA AfterRaiseKind ==
  ASSUME IndInv, AfterRaise
  PROVE  /\ schedule' \in [EventIds -> Schedules]
         /\ \A x \in EventIds : schedule'[x].recur = schedule[x].recur
<1> DEFINE e  == arg[Runner]
           s1 == AfterNextOccurrence(schedule[e], passNow + 1)
           s2 == LeapAdjust(s1, passNow + 1)
<1>1. e \in EventIds /\ passNow + 1 \in Nat
  BY DEF IndInv, TypeOK, ArgsOK, Busy, Threads, AfterRaise, RunnerAt
<1>2. s1 \in Schedules /\ s1.recur = schedule[e].recur
  BY <1>1, AfterNextType DEF IndInv, TypeOK
<1>3. s2 \in Schedules /\ s2.recur = schedule[e].recur
  BY <1>1, <1>2, LeapAdjustType
<1>4. schedule' = [schedule EXCEPT ![e] = s2]
  BY DEF AfterRaise
<1> HIDE DEF s2
<1>5. QED BY <1>1, <1>3, <1>4 DEF IndInv, TypeOK

-----------------------------------------------------------------------------
(* One lemma per action: it keeps the invariant. *)

USE DEF loopVars, runnerVars, passVars, stopVars, interpVars, histVars, Entry

(* removeEvent, up to the lock it takes next. *)
LEMMA removeEventStep ==
  ASSUME IndInv, NEW p \in Producers, NEW e \in EventIds, removeEvent(p, e)
  PROVE  IndInv'
<1>1. TypeOK'
  BY LoopAssumption DEF IndInv, TypeOK, ArgsOK, Busy, MutexOK, PC, IPC,
     NoEvent, EventIds, Threads, removeEvent, StartRemove, Goto
<1>2. ArgsOK'
  BY LoopAssumption DEF IndInv, TypeOK, ArgsOK, Busy, MutexOK, Threads,
     removeEvent, StartRemove, Goto
<1>3. MutexOK'
  BY LoopAssumption DEF IndInv, TypeOK, ArgsOK, Busy, MutexOK, InPass, Threads,
     removeEvent, StartRemove, Goto
<1>4. PassOK'
  BY LoopAssumption DEF IndInv, TypeOK, ArgsOK, Busy, MutexOK, PassOK, InPass,
     InPush, Threads, removeEvent, StartRemove, Goto
<1>5. FreshOK'
  <2>1. Frame(p,
              IF e \in m_MonitorNode THEN "removeChild" ELSE "removeInternal",
              e)
    BY LoopAssumption DEF IndInv, TypeOK, ArgsOK, Busy, MutexOK, InPass,
       PassOK, InPush, Frame, Known, Threads, removeEvent, StartRemove, Goto
  <2>2. QED BY <2>1, FreshFrame DEF Threads
<1>6. PendingOK'
  BY LoopAssumption DEF IndInv, TypeOK, ArgsOK, Busy, MutexOK, PassOK,
     PendingOK, Pending, InPush, InPass, Threads, removeEvent, StartRemove,
     Goto
<1>7. RaisedOnce'
  BY LoopAssumption DEF IndInv, TypeOK, ArgsOK, Busy, MutexOK, RaisedOnce,
     PassOK, Threads, removeEvent, StartRemove, Goto
<1>8. CancelledOK'
  BY LoopAssumption DEF IndInv, TypeOK, ArgsOK, Busy, MutexOK, CancelledOK,
     Threads, removeEvent, StartRemove, Goto
<1>9. ScheduledIsMonitored'
  BY LoopAssumption DEF IndInv, TypeOK, ArgsOK, Busy, MutexOK,
     ScheduledIsMonitored, BeingRemoved, Threads, removeEvent, StartRemove,
     Goto
<1> QED BY <1>1, <1>2, <1>3, <1>4, <1>5, <1>6, <1>7, <1>8, <1>9 DEF IndInv

(* removeEventByName cancels what it removes. *)
LEMMA removeEventByNameStep ==
  ASSUME IndInv, NEW p \in Producers, NEW k \in Keys, removeEventByName(p, k)
  PROVE  IndInv'
<1>1. TypeOK'
  BY LoopAssumption DEF IndInv, TypeOK, ArgsOK, Busy, MutexOK, PC, IPC,
     NoEvent, EventIds, Threads, removeEventByName, TakeEventsMutex
<1>2. ArgsOK'
  BY LoopAssumption DEF IndInv, TypeOK, ArgsOK, Busy, MutexOK, Threads,
     removeEventByName, TakeEventsMutex
<1>3. MutexOK'
  BY LoopAssumption DEF IndInv, TypeOK, ArgsOK, Busy, MutexOK, InPass, Threads,
     removeEventByName, TakeEventsMutex
<1>4. PassOK'
  BY LoopAssumption DEF IndInv, TypeOK, ArgsOK, Busy, MutexOK, PassOK, InPass,
     InPush, Threads, removeEventByName, TakeEventsMutex
<1>5. FreshOK'
  <2>1. Frame(p, pc[p], arg[p])
    BY LoopAssumption DEF IndInv, TypeOK, ArgsOK, Busy, MutexOK, InPass,
       PassOK, InPush, Frame, Known, Threads, removeEventByName,
       TakeEventsMutex
  <2>2. QED BY <2>1, FreshFrame DEF Threads
<1>6. PendingOK'
  BY LoopAssumption DEF IndInv, TypeOK, ArgsOK, Busy, MutexOK, PassOK,
     PendingOK, Pending, InPush, InPass, Threads, removeEventByName,
     TakeEventsMutex
<1>7. RaisedOnce'
  BY LoopAssumption DEF IndInv, TypeOK, ArgsOK, Busy, MutexOK, RaisedOnce,
     PassOK, Threads, removeEventByName, TakeEventsMutex
<1>8. CancelledOK'
  BY LoopAssumption DEF IndInv, TypeOK, ArgsOK, Busy, MutexOK, CancelledOK,
     Threads, removeEventByName, TakeEventsMutex
<1>9. ScheduledIsMonitored'
  BY LoopAssumption DEF IndInv, TypeOK, ArgsOK, Busy, MutexOK,
     ScheduledIsMonitored, BeingRemoved, Threads, removeEventByName,
     TakeEventsMutex
<1> QED BY <1>1, <1>2, <1>3, <1>4, <1>5, <1>6, <1>7, <1>8, <1>9 DEF IndInv

(* The first critical section of pushEvent. *)
LEMMA MergeIntoQueueStep ==
  ASSUME IndInv, NEW t \in Threads, MergeIntoQueue(t)
  PROVE  IndInv'
<1>1. TypeOK'
  <2> DEFINE same == {i \in DOMAIN m_EventQueue : isReplacementFor(arg[t], m_EventQueue[i])}
             o    == m_EventQueue[Min(same)]
  <2>1. arg[t] \in EventIds
    BY DEF IndInv, ArgsOK, Busy, MergeIntoQueue
  <2>2. CASE same # {}
    <3>1. same \in SUBSET Nat /\ same \subseteq DOMAIN m_EventQueue
      BY DEF IndInv, TypeOK
    <3>2. Min(same) \in DOMAIN m_EventQueue
      BY <2>2, <3>1, MinIsElement
    <3>3. o \in EventIds
      BY <3>2 DEF IndInv, TypeOK
    <3>4. evt' = ReplaceProperties(o, arg[t])
          /\ replaced' \subseteq replaced \cup {evt[o].payload}
      BY <2>2 DEF MergeIntoQueue
    <3> HIDE DEF o
    <3>5. evt' \in [EventIds -> EventType] /\ evt[o].payload \in Nat
      BY <2>1, <3>3, <3>4, ReplaceType DEF IndInv, TypeOK, EventType
    <3>6. QED BY <2>1, <3>4, <3>5 DEF IndInv, TypeOK, PC, NoEvent,
             MergeIntoQueue, Goto, AfterPush, Leaving
  <2>3. CASE same = {}
    BY <2>1, <2>3 DEF IndInv, TypeOK, PC, NoEvent, MergeIntoQueue, Goto,
       AfterPush, Leaving
  <2>4. QED BY <2>2, <2>3
<1>2. ArgsOK'
  BY LoopAssumption DEF IndInv, TypeOK, ArgsOK, Busy, MutexOK, Threads,
     MergeIntoQueue, Goto, AfterPush, Leaving
<1>3. MutexOK'
  BY LoopAssumption DEF IndInv, TypeOK, ArgsOK, Busy, MutexOK, InPass, Threads,
     MergeIntoQueue, Goto, AfterPush, Leaving
<1>4. PassOK'
  BY LoopAssumption DEF IndInv, TypeOK, ArgsOK, Busy, MutexOK, PassOK, InPass,
     InPush, Threads, MergeIntoQueue, Goto, AfterPush, Leaving
<1>5. FreshOK'
  <2>1. Frame(t, AfterPush(t), Leaving(t)) \/ Frame(t, "append", arg[t])
    BY LoopAssumption DEF Frame, Known, IndInv, TypeOK, Threads,
       MergeIntoQueue, Goto, AfterPush, Leaving
  <2>2. QED BY <2>1, FreshFrame
<1>6. PendingOK'
  BY LoopAssumption DEF IndInv, TypeOK, ArgsOK, Busy, MutexOK, PassOK,
     PendingOK, Pending, InPush, InPass, Threads, MergeIntoQueue, Goto,
     AfterPush, Leaving
<1>7. RaisedOnce'
  BY LoopAssumption DEF IndInv, TypeOK, ArgsOK, Busy, MutexOK, RaisedOnce,
     PassOK, Threads, MergeIntoQueue, Goto, AfterPush, Leaving
<1>8. CancelledOK'
  BY LoopAssumption DEF IndInv, TypeOK, ArgsOK, Busy, MutexOK, CancelledOK,
     Threads, MergeIntoQueue, Goto, AfterPush, Leaving
<1>9. ScheduledIsMonitored'
  BY LoopAssumption DEF IndInv, TypeOK, ArgsOK, Busy, MutexOK,
     ScheduledIsMonitored, BeingRemoved, Threads, MergeIntoQueue, Goto,
     AfterPush, Leaving
<1> QED BY <1>1, <1>2, <1>3, <1>4, <1>5, <1>6, <1>7, <1>8, <1>9 DEF IndInv

(* The second critical section of pushEvent. *)
LEMMA AppendToQueueStep ==
  ASSUME IndInv, NEW t \in Threads, AppendToQueue(t)
  PROVE  IndInv'
<1>1. TypeOK'
  <2>1. arg[t] \in EventIds /\ m_EventQueue \in Seq(EventIds)
    BY DEF IndInv, TypeOK, ArgsOK, Busy, AppendToQueue
  <2>2. m_EventQueue' \in Seq(EventIds)
    BY <2>1 DEF AppendToQueue
  <2>3. QED BY <2>2 DEF IndInv, TypeOK, PC, AppendToQueue, Goto
<1>2. ArgsOK'
  BY LoopAssumption DEF IndInv, TypeOK, ArgsOK, Busy, MutexOK, Threads,
     AppendToQueue, Goto
<1>3. MutexOK'
  BY LoopAssumption DEF IndInv, TypeOK, ArgsOK, Busy, MutexOK, InPass, Threads,
     AppendToQueue, Goto
<1>4. PassOK'
  BY LoopAssumption DEF IndInv, TypeOK, ArgsOK, Busy, MutexOK, PassOK, InPass,
     InPush, Threads, AppendToQueue, Goto
<1>5. FreshOK'
  <2>1. Frame(t, "signal", arg[t])
    BY LoopAssumption DEF IndInv, TypeOK, ArgsOK, Busy, MutexOK, InPass,
       PassOK, InPush, Frame, Known, Threads, AppendToQueue, Goto
  <2>2. QED BY <2>1, FreshFrame DEF Threads
<1>6. PendingOK'
  BY LoopAssumption DEF IndInv, TypeOK, ArgsOK, Busy, MutexOK, PassOK,
     PendingOK, Pending, InPush, InPass, Threads, AppendToQueue, Goto
<1>7. RaisedOnce'
  BY LoopAssumption DEF IndInv, TypeOK, ArgsOK, Busy, MutexOK, RaisedOnce,
     PassOK, Threads, AppendToQueue, Goto
<1>8. CancelledOK'
  BY LoopAssumption DEF IndInv, TypeOK, ArgsOK, Busy, MutexOK, CancelledOK,
     Threads, AppendToQueue, Goto
<1>9. ScheduledIsMonitored'
  BY LoopAssumption DEF IndInv, TypeOK, ArgsOK, Busy, MutexOK,
     ScheduledIsMonitored, BeingRemoved, Threads, AppendToQueue, Goto
<1> QED BY <1>1, <1>2, <1>3, <1>4, <1>5, <1>6, <1>7, <1>8, <1>9 DEF IndInv

(* The signal of pushEvent; the runner comes back to its pass. *)
LEMMA SignalQueueStep ==
  ASSUME IndInv, NEW t \in Threads, SignalQueue(t)
  PROVE  IndInv'
<1>1. TypeOK'
  BY LoopAssumption DEF IndInv, TypeOK, ArgsOK, Busy, MutexOK, PC, IPC,
     NoEvent, EventIds, Threads, SignalQueue, Goto, AfterPush, Leaving
<1>2. ArgsOK'
  BY LoopAssumption DEF IndInv, TypeOK, ArgsOK, Busy, MutexOK, Threads,
     SignalQueue, Goto, AfterPush, Leaving
<1>3. MutexOK'
  BY LoopAssumption DEF IndInv, TypeOK, ArgsOK, Busy, MutexOK, InPass, Threads,
     SignalQueue, Goto, AfterPush, Leaving
<1>4. PassOK'
  BY LoopAssumption DEF IndInv, TypeOK, ArgsOK, Busy, MutexOK, PassOK, InPass,
     InPush, Threads, SignalQueue, Goto, AfterPush, Leaving
<1>5. FreshOK'
  <2>1. Frame(t, AfterPush(t), Leaving(t))
    BY LoopAssumption DEF IndInv, TypeOK, ArgsOK, Busy, MutexOK, InPass,
       PassOK, InPush, Frame, Known, Threads, SignalQueue, Goto, AfterPush,
       Leaving
  <2>2. QED BY <2>1, FreshFrame DEF Threads
<1>6. PendingOK'
  BY LoopAssumption DEF IndInv, TypeOK, ArgsOK, Busy, MutexOK, PassOK,
     PendingOK, Pending, InPush, InPass, Threads, SignalQueue, Goto, AfterPush,
     Leaving
<1>7. RaisedOnce'
  BY LoopAssumption DEF IndInv, TypeOK, ArgsOK, Busy, MutexOK, RaisedOnce,
     PassOK, Threads, SignalQueue, Goto, AfterPush, Leaving
<1>8. CancelledOK'
  BY LoopAssumption DEF IndInv, TypeOK, ArgsOK, Busy, MutexOK, CancelledOK,
     Threads, SignalQueue, Goto, AfterPush, Leaving
<1>9. ScheduledIsMonitored'
  BY LoopAssumption DEF IndInv, TypeOK, ArgsOK, Busy, MutexOK,
     ScheduledIsMonitored, BeingRemoved, Threads, SignalQueue, Goto, AfterPush,
     Leaving
<1> QED BY <1>1, <1>2, <1>3, <1>4, <1>5, <1>6, <1>7, <1>8, <1>9 DEF IndInv

(* addEvent: the event is new, or its properties go to another one. *)
LEMMA addEventStep ==
  ASSUME IndInv, NEW t \in Threads, addEvent(t)
  PROVE  IndInv'
<1>1. TypeOK'
  <2>1. t \in Producers /\ arg[t] \in EventIds /\ Untouched(arg[t], {t})
    BY DEF IndInv, ArgsOK, Busy, MutexOK, FreshOK, Threads, addEvent
  <2>2. evt' \in [EventIds -> EventType]
    BY <2>1, ReplaceType DEF IndInv, TypeOK, addEvent
  <2>3. \A o \in m_ScheduledEvents : evt[o].payload \in Nat
    BY DEF IndInv, TypeOK, EventType
  <2>4. replaced' \in SUBSET Nat
    <3>1. \/ replaced' = replaced
          \/ \E o \in m_ScheduledEvents : replaced' = replaced \cup {evt[o].payload}
      BY DEF addEvent
    <3>2. replaced \in SUBSET Nat
      BY DEF IndInv, TypeOK
    <3>3. CASE replaced' = replaced
      BY <3>2, <3>3
    <3>4. ASSUME NEW o \in m_ScheduledEvents, replaced' = replaced \cup {evt[o].payload}
          PROVE  replaced' \in SUBSET Nat
      <4>1. evt[o].payload \in Nat
        BY <2>3
      <4>2. QED BY <3>2, <3>4, <4>1
    <3>5. QED BY <3>1, <3>3, <3>4
  <2>5. m_ScheduledEvents' \in SUBSET EventIds /\ m_MonitorNode' \in SUBSET EventIds
    BY <2>1 DEF IndInv, TypeOK, addEvent
  <2>6. QED BY <2>2, <2>4, <2>5 DEF IndInv, TypeOK, PC, addEvent, Goto,
           AfterPush, Leaving, TakeEventsMutex
<1>2. ArgsOK'
  BY LoopAssumption DEF IndInv, TypeOK, ArgsOK, Busy, MutexOK, Threads,
     addEvent, Goto, AfterPush, Leaving, TakeEventsMutex
<1>3. MutexOK'
  BY LoopAssumption DEF IndInv, TypeOK, ArgsOK, Busy, MutexOK, InPass, Threads,
     addEvent, Goto, AfterPush, Leaving, TakeEventsMutex
<1>4. PassOK'
  BY LoopAssumption DEF IndInv, TypeOK, ArgsOK, Busy, MutexOK, PassOK, InPass,
     InPush, Threads, addEvent, Goto, AfterPush, Leaving, TakeEventsMutex
<1>5. FreshOK'
  <2>1. Frame(t, AfterPush(t), Leaving(t))
    BY LoopAssumption DEF IndInv, TypeOK, ArgsOK, Busy, MutexOK, InPass,
       PassOK, InPush, Frame, Known, Threads, addEvent, Goto, AfterPush,
       Leaving, TakeEventsMutex
  <2>2. QED BY <2>1, FreshFrame DEF Threads
<1>6. PendingOK'
  <2>1. t \in Producers /\ arg[t] \in EventIds /\ Untouched(arg[t], {t})
    BY DEF IndInv, ArgsOK, Busy, MutexOK, FreshOK, Threads, addEvent
  <2>2. t # Runner
    BY <2>1, LoopAssumption
  <2>3. QED BY <2>1, <2>2 DEF IndInv, MutexOK, Untouched, PendingOK, Pending,
           addEvent, Goto, AfterPush, Leaving, TakeEventsMutex
<1>7. RaisedOnce'
  BY LoopAssumption DEF IndInv, TypeOK, ArgsOK, Busy, MutexOK, RaisedOnce,
     PassOK, Threads, addEvent, Goto, AfterPush, Leaving, TakeEventsMutex
<1>8. CancelledOK'
  <2>1. t \in Producers /\ arg[t] \in EventIds /\ Untouched(arg[t], {t})
    BY DEF IndInv, ArgsOK, Busy, MutexOK, FreshOK, Threads, addEvent
  <2>2. QED BY <2>1 DEF IndInv, Untouched, CancelledOK, addEvent, Goto,
           AfterPush, Leaving, TakeEventsMutex
<1>9. ScheduledIsMonitored'
  BY LoopAssumption DEF IndInv, TypeOK, ArgsOK, Busy, MutexOK,
     ScheduledIsMonitored, BeingRemoved, Threads, addEvent, Goto, AfterPush,
     Leaving, TakeEventsMutex
<1> QED BY <1>1, <1>2, <1>3, <1>4, <1>5, <1>6, <1>7, <1>8, <1>9 DEF IndInv

(* The monitor node goes first; the thread then is on its way to removing  *)
(* the event.                                                              *)
LEMMA RemoveMonitorChildStep ==
  ASSUME IndInv, NEW t \in Threads, RemoveMonitorChild(t)
  PROVE  IndInv'
<1>1. TypeOK'
  BY LoopAssumption DEF IndInv, TypeOK, ArgsOK, Busy, MutexOK, PC, IPC,
     NoEvent, EventIds, Threads, RemoveMonitorChild, Goto, propertyRemoved
<1>2. ArgsOK'
  BY LoopAssumption DEF IndInv, TypeOK, ArgsOK, Busy, MutexOK, Threads,
     RemoveMonitorChild, Goto, propertyRemoved
<1>3. MutexOK'
  BY LoopAssumption DEF IndInv, TypeOK, ArgsOK, Busy, MutexOK, InPass, Threads,
     RemoveMonitorChild, Goto, propertyRemoved
<1>4. PassOK'
  BY LoopAssumption DEF IndInv, TypeOK, ArgsOK, Busy, MutexOK, PassOK, InPass,
     InPush, Threads, RemoveMonitorChild, Goto, propertyRemoved
<1>5. FreshOK'
  <2>1. Frame(t, "removeInternal", arg[t])
    BY LoopAssumption DEF IndInv, TypeOK, ArgsOK, Busy, MutexOK, InPass,
       PassOK, InPush, Frame, Known, Threads, RemoveMonitorChild, Goto,
       propertyRemoved
  <2>2. QED BY <2>1, FreshFrame DEF Threads
<1>6. PendingOK'
  BY LoopAssumption DEF IndInv, TypeOK, ArgsOK, Busy, MutexOK, PassOK,
     PendingOK, Pending, InPush, InPass, Threads, RemoveMonitorChild, Goto,
     propertyRemoved
<1>7. RaisedOnce'
  BY LoopAssumption DEF IndInv, TypeOK, ArgsOK, Busy, MutexOK, RaisedOnce,
     PassOK, Threads, RemoveMonitorChild, Goto, propertyRemoved
<1>8. CancelledOK'
  BY LoopAssumption DEF IndInv, TypeOK, ArgsOK, Busy, MutexOK, CancelledOK,
     Threads, RemoveMonitorChild, Goto, propertyRemoved
<1>9. ScheduledIsMonitored'
  BY LoopAssumption DEF IndInv, TypeOK, ArgsOK, Busy, MutexOK,
     ScheduledIsMonitored, BeingRemoved, Threads, RemoveMonitorChild, Goto,
     propertyRemoved
<1> QED BY <1>1, <1>2, <1>3, <1>4, <1>5, <1>6, <1>7, <1>8, <1>9 DEF IndInv

(* The end of a removal. The runner's own removals end the pending state   *)
(* of an event, a producer's cancel it.                                    *)
LEMMA removeEventInternalStep ==
  ASSUME IndInv, NEW t \in Threads, removeEventInternal(t)
  PROVE  IndInv'
<1>1. TypeOK'
  BY LoopAssumption DEF IndInv, TypeOK, ArgsOK, Busy, MutexOK, PC, IPC,
     NoEvent, EventIds, Threads, removeEventInternal, Goto, AfterRemove,
     TakeEventsMutex
<1>2. ArgsOK'
  BY LoopAssumption DEF IndInv, TypeOK, ArgsOK, Busy, MutexOK, Threads,
     removeEventInternal, Goto, AfterRemove, TakeEventsMutex
<1>3. MutexOK'
  BY LoopAssumption DEF IndInv, TypeOK, ArgsOK, Busy, MutexOK, InPass, Threads,
     removeEventInternal, Goto, AfterRemove, TakeEventsMutex
<1>4. PassOK'
  BY LoopAssumption DEF IndInv, TypeOK, ArgsOK, Busy, MutexOK, PassOK, InPass,
     InPush, Threads, removeEventInternal, Goto, AfterRemove, TakeEventsMutex
<1>5. FreshOK'
  <2>1. Frame(t, AfterRemove(t), NoEvent)
    BY LoopAssumption DEF IndInv, TypeOK, ArgsOK, Busy, MutexOK, InPass,
       PassOK, InPush, Frame, Known, Threads, removeEventInternal, Goto,
       AfterRemove, TakeEventsMutex
  <2>2. QED BY <2>1, FreshFrame DEF Threads
<1>6. PendingOK'
  BY LoopAssumption DEF IndInv, TypeOK, ArgsOK, Busy, MutexOK, PassOK,
     PendingOK, Pending, InPush, InPass, Threads, removeEventInternal, Goto,
     AfterRemove, TakeEventsMutex
<1>7. RaisedOnce'
  BY LoopAssumption DEF IndInv, TypeOK, ArgsOK, Busy, MutexOK, RaisedOnce,
     PassOK, Threads, removeEventInternal, Goto, AfterRemove, TakeEventsMutex
<1>8. CancelledOK'
  BY LoopAssumption DEF IndInv, TypeOK, ArgsOK, Busy, MutexOK, CancelledOK,
     Threads, removeEventInternal, Goto, AfterRemove, TakeEventsMutex
<1>9. ScheduledIsMonitored'
  BY LoopAssumption DEF IndInv, TypeOK, ArgsOK, Busy, MutexOK,
     ScheduledIsMonitored, BeingRemoved, Threads, removeEventInternal, Goto,
     AfterRemove, TakeEventsMutex
<1> QED BY <1>1, <1>2, <1>3, <1>4, <1>5, <1>6, <1>7, <1>8, <1>9 DEF IndInv

(* A pass begins: it will look at every scheduled event. *)
LEMMA LockEventsStep ==
  ASSUME IndInv, LockEvents
  PROVE  IndInv'
<1>1. TypeOK'
  BY LoopAssumption DEF IndInv, TypeOK, ArgsOK, Busy, MutexOK, PC, IPC,
     NoEvent, EventIds, Threads, LockEvents, Goto, RunnerAt
<1>2. ArgsOK'
  BY LoopAssumption DEF IndInv, TypeOK, ArgsOK, Busy, MutexOK, Threads,
     LockEvents, Goto, RunnerAt
<1>3. MutexOK'
  BY LoopAssumption DEF IndInv, TypeOK, ArgsOK, Busy, MutexOK, InPass, Threads,
     LockEvents, Goto, RunnerAt
<1>4. PassOK'
  BY LoopAssumption DEF IndInv, TypeOK, ArgsOK, Busy, MutexOK, PassOK, InPass,
     InPush, Threads, LockEvents, Goto, RunnerAt
<1>5. FreshOK'
  <2>1. Frame(Runner, "scan", NoEvent)
    BY LoopAssumption DEF IndInv, TypeOK, ArgsOK, Busy, MutexOK, InPass,
       PassOK, InPush, Frame, Known, Threads, LockEvents, Goto, RunnerAt
  <2>2. QED BY <2>1, FreshFrame DEF Threads
<1>6. PendingOK'
  BY LoopAssumption DEF IndInv, TypeOK, ArgsOK, Busy, MutexOK, PassOK,
     PendingOK, Pending, InPush, InPass, Threads, LockEvents, Goto, RunnerAt
<1>7. RaisedOnce'
  BY LoopAssumption DEF IndInv, TypeOK, ArgsOK, Busy, MutexOK, RaisedOnce,
     PassOK, Threads, LockEvents, Goto, RunnerAt
<1>8. CancelledOK'
  BY LoopAssumption DEF IndInv, TypeOK, ArgsOK, Busy, MutexOK, CancelledOK,
     Threads, LockEvents, Goto, RunnerAt
<1>9. ScheduledIsMonitored'
  BY LoopAssumption DEF IndInv, TypeOK, ArgsOK, Busy, MutexOK,
     ScheduledIsMonitored, BeingRemoved, Threads, LockEvents, Goto, RunnerAt
<1> QED BY <1>1, <1>2, <1>3, <1>4, <1>5, <1>6, <1>7, <1>8, <1>9 DEF IndInv

(* One event of the pass. It was not forwarded before: otherwise it would  *)
(* be pending, and a pending event is not looked at.                       *)
LEMMA ScanEventStep ==
  ASSUME IndInv, NEW e \in EventIds, ScanEvent(e)
  PROVE  IndInv'
<1>1. TypeOK'
  <2>1. evt' \in [EventIds -> EventType]
    BY ClearTimerType DEF IndInv, TypeOK, ScanEvent
  <2>2. raises' \in [EventIds -> Nat]
    <3>1. raises' = raises \/ raises' = [raises EXCEPT ![e] = @ + 1]
      BY DEF ScanEvent
    <3>2. raises \in [EventIds -> Nat]
      BY DEF IndInv, TypeOK
    <3>3. QED BY <3>1, <3>2
  <2>3. /\ pc' \in [Threads -> PC]
        /\ arg' \in [Threads -> EventIds \cup {NoEvent}]
    BY DEF IndInv, TypeOK, PC, ScanEvent, Goto, RunnerAt, QueuePath
  <2>4. /\ m_MonitorNode' \in SUBSET EventIds /\ removeIDs' \in SUBSET EventIds
        /\ unscanned' \in SUBSET EventIds
    BY DEF IndInv, TypeOK, ScanEvent
  <2>5. QED BY <2>1, <2>2, <2>3, <2>4, ScanEventKind DEF IndInv, TypeOK,
           ScanEvent
<1>2. ArgsOK'
  BY LoopAssumption DEF IndInv, TypeOK, ArgsOK, Busy, MutexOK, Threads,
     ScanEvent, Goto, RunnerAt, QueuePath
<1>3. MutexOK'
  <2>1. scheduleFromEvent(ClearTimer(evt[e]), now) = {}
    BY ClearedHasNoSchedule DEF IndInv
  <2>2. QED BY <2>1, LoopAssumption DEF IndInv, TypeOK, ArgsOK, Busy, MutexOK,
           InPass, Threads, ScanEvent, Goto, RunnerAt, QueuePath
<1>4. PassOK'
  BY LoopAssumption
  DEF IndInv, TypeOK, MutexOK, InPass, InPush, PassOK, Threads, ScanEvent,
     Goto, RunnerAt, QueuePath
<1>5. FreshOK'
  <2>1. scheduleFromEvent(ClearTimer(evt[e]), now) = {}
    BY ClearedHasNoSchedule DEF IndInv
  <2>2. e \in m_ScheduledEvents
    BY DEF IndInv, PassOK, ScanEvent
  <2>3. Frame(Runner, pc[Runner], arg[Runner]) \/ Frame(Runner, QueuePath(ClearTimer(evt[e])), e)
    BY <2>1, <2>2, LoopAssumption DEF IndInv, TypeOK, MutexOK, Frame, Known,
       Threads, ScanEvent, Goto, RunnerAt, QueuePath
  <2>4. QED BY <2>3, FreshFrame DEF Threads
<1>6. PendingOK'
  <2>1. scheduleFromEvent(ClearTimer(evt[e]), now) = {}
    BY ClearedHasNoSchedule DEF IndInv
  <2>2. \A x \in EventIds : schedule'[x].recur = schedule[x].recur
    BY ScanEventKind
  <2>3. QED BY <2>1, <2>2, LoopAssumption
            DEF IndInv, TypeOK, PassOK, PendingOK, Pending, InPush, Threads,
               ScanEvent, Goto, RunnerAt, QueuePath
<1>7. RaisedOnce'
  <2>1. ~schedule[e].recur => raises[e] = 0
    BY DEF IndInv, TypeOK, PassOK, PendingOK, ScanEvent
  <2>2. \A x \in EventIds : x # e => raises'[x] = raises[x]
    BY DEF IndInv, TypeOK, ScanEvent
  <2>3. raises'[e] \in {raises[e], raises[e] + 1}
    BY DEF IndInv, TypeOK, ScanEvent
  <2>4. QED BY <2>1, <2>2, <2>3, ScanEventKind DEF IndInv, RaisedOnce
<1>8. CancelledOK'
  BY LoopAssumption DEF IndInv, TypeOK, ArgsOK, Busy, MutexOK, CancelledOK,
     Threads, ScanEvent, Goto, RunnerAt, QueuePath
<1>9. ScheduledIsMonitored'
  BY LoopAssumption DEF IndInv, TypeOK, ArgsOK, Busy, MutexOK,
     ScheduledIsMonitored, BeingRemoved, Threads, ScanEvent, Goto, RunnerAt,
     QueuePath
<1> QED BY <1>1, <1>2, <1>3, <1>4, <1>5, <1>6, <1>7, <1>8, <1>9 DEF IndInv

(* A one-shot event that was forwarded goes to removeIDs. *)
LEMMA AfterRaiseStep ==
  ASSUME IndInv, AfterRaise
  PROVE  IndInv'
<1>1. TypeOK'
  <2>1. arg[Runner] \in EventIds /\ passNow + 1 \in Nat
    BY DEF IndInv, TypeOK, ArgsOK, Busy, Threads, AfterRaise, RunnerAt
  <2>2. QED BY <2>1, AfterRaiseKind DEF IndInv, TypeOK, PC, NoEvent,
           AfterRaise, Goto, RunnerAt
<1>2. ArgsOK'
  BY LoopAssumption DEF IndInv, TypeOK, ArgsOK, Busy, MutexOK, Threads,
     AfterRaise, Goto, RunnerAt
<1>3. MutexOK'
  BY LoopAssumption DEF IndInv, TypeOK, ArgsOK, Busy, MutexOK, InPass, Threads,
     AfterRaise, Goto, RunnerAt
<1>4. PassOK'
  BY LoopAssumption DEF IndInv, TypeOK, ArgsOK, Busy, MutexOK, PassOK, InPass,
     InPush, Threads, AfterRaise, Goto, RunnerAt
<1>5. FreshOK'
  <2>1. Frame(Runner, "scan", NoEvent)
    BY LoopAssumption DEF IndInv, TypeOK, ArgsOK, Busy, MutexOK, InPass,
       PassOK, InPush, Frame, Known, Threads, AfterRaise, Goto, RunnerAt
  <2>2. QED BY <2>1, FreshFrame DEF Threads
<1>6. PendingOK'
  <2>1. m_ScheduledEvents \subseteq EventIds /\ pc[Runner] = "pushed"
    BY DEF IndInv, TypeOK, AfterRaise, RunnerAt
  <2>2. ~schedule[arg[Runner]].recur => arg[Runner] \in removeIDs'
    BY DEF AfterRaise, NoFurtherSchedule
  <2>3. removeIDs \subseteq removeIDs'
    BY DEF AfterRaise
  <2>4. QED BY <2>1, <2>2, <2>3, AfterRaiseKind
            DEF IndInv, PendingOK, Pending, AfterRaise
<1>7. RaisedOnce'
  BY AfterRaiseKind DEF IndInv, RaisedOnce, AfterRaise
<1>8. CancelledOK'
  BY LoopAssumption DEF IndInv, TypeOK, ArgsOK, Busy, MutexOK, CancelledOK,
     Threads, AfterRaise, Goto, RunnerAt
<1>9. ScheduledIsMonitored'
  BY LoopAssumption DEF IndInv, TypeOK, ArgsOK, Busy, MutexOK,
     ScheduledIsMonitored, BeingRemoved, Threads, AfterRaise, Goto, RunnerAt
<1> QED BY <1>1, <1>2, <1>3, <1>4, <1>5, <1>6, <1>7, <1>8, <1>9 DEF IndInv

(* A pass ends with everything looked at. *)
LEMMA UnlockEventsStep ==
  ASSUME IndInv, UnlockEvents
  PROVE  IndInv'
<1>1. TypeOK'
  BY LoopAssumption DEF IndInv, TypeOK, ArgsOK, Busy, MutexOK, PC, IPC,
     NoEvent, EventIds, Threads, UnlockEvents, Goto, RunnerAt
<1>2. ArgsOK'
  BY LoopAssumption DEF IndInv, TypeOK, ArgsOK, Busy, MutexOK, Threads,
     UnlockEvents, Goto, RunnerAt
<1>3. MutexOK'
  BY LoopAssumption DEF IndInv, TypeOK, ArgsOK, Busy, MutexOK, InPass, Threads,
     UnlockEvents, Goto, RunnerAt
<1>4. PassOK'
  BY LoopAssumption DEF IndInv, TypeOK, ArgsOK, Busy, MutexOK, PassOK, InPass,
     InPush, Threads, UnlockEvents, Goto, RunnerAt
<1>5. FreshOK'
  <2>1. Frame(Runner, "cleanup", NoEvent)
    BY LoopAssumption DEF IndInv, TypeOK, ArgsOK, Busy, MutexOK, InPass,
       PassOK, InPush, Frame, Known, Threads, UnlockEvents, Goto, RunnerAt
  <2>2. QED BY <2>1, FreshFrame DEF Threads
<1>6. PendingOK'
  BY LoopAssumption DEF IndInv, TypeOK, ArgsOK, Busy, MutexOK, PassOK,
     PendingOK, Pending, InPush, InPass, Threads, UnlockEvents, Goto, RunnerAt
<1>7. RaisedOnce'
  BY LoopAssumption DEF IndInv, TypeOK, ArgsOK, Busy, MutexOK, RaisedOnce,
     PassOK, Threads, UnlockEvents, Goto, RunnerAt
<1>8. CancelledOK'
  BY LoopAssumption DEF IndInv, TypeOK, ArgsOK, Busy, MutexOK, CancelledOK,
     Threads, UnlockEvents, Goto, RunnerAt
<1>9. ScheduledIsMonitored'
  BY LoopAssumption DEF IndInv, TypeOK, ArgsOK, Busy, MutexOK,
     ScheduledIsMonitored, BeingRemoved, Threads, UnlockEvents, Goto, RunnerAt
<1> QED BY <1>1, <1>2, <1>3, <1>4, <1>5, <1>6, <1>7, <1>8, <1>9 DEF IndInv

(* The runner removes one of the events the pass has collected. *)
LEMMA CleanupEventStep ==
  ASSUME IndInv, NEW e \in EventIds, CleanupEvent(e)
  PROVE  IndInv'
<1>1. TypeOK'
  BY LoopAssumption DEF IndInv, TypeOK, ArgsOK, Busy, MutexOK, PC, IPC,
     NoEvent, EventIds, Threads, CleanupEvent, StartRemove, Goto, RunnerAt
<1>2. ArgsOK'
  BY LoopAssumption DEF IndInv, TypeOK, ArgsOK, Busy, MutexOK, Threads,
     CleanupEvent, StartRemove, Goto, RunnerAt
<1>3. MutexOK'
  BY LoopAssumption DEF IndInv, TypeOK, ArgsOK, Busy, MutexOK, InPass, Threads,
     CleanupEvent, StartRemove, Goto, RunnerAt
<1>4. PassOK'
  BY LoopAssumption DEF IndInv, TypeOK, ArgsOK, Busy, MutexOK, PassOK, InPass,
     InPush, Threads, CleanupEvent, StartRemove, Goto, RunnerAt
<1>5. FreshOK'
  <2>1. Frame(Runner,
              IF e \in m_MonitorNode THEN "removeChild" ELSE "removeInternal",
              e)
    BY LoopAssumption DEF IndInv, TypeOK, ArgsOK, Busy, MutexOK, InPass,
       PassOK, InPush, Frame, Known, Threads, CleanupEvent, StartRemove, Goto,
       RunnerAt
  <2>2. QED BY <2>1, FreshFrame DEF Threads
<1>6. PendingOK'
  BY LoopAssumption DEF IndInv, TypeOK, ArgsOK, Busy, MutexOK, PassOK,
     PendingOK, Pending, InPush, InPass, Threads, CleanupEvent, StartRemove,
     Goto, RunnerAt
<1>7. RaisedOnce'
  BY LoopAssumption DEF IndInv, TypeOK, ArgsOK, Busy, MutexOK, RaisedOnce,
     PassOK, Threads, CleanupEvent, StartRemove, Goto, RunnerAt
<1>8. CancelledOK'
  BY LoopAssumption DEF IndInv, TypeOK, ArgsOK, Busy, MutexOK, CancelledOK,
     Threads, CleanupEvent, StartRemove, Goto, RunnerAt
<1>9. ScheduledIsMonitored'
  BY LoopAssumption DEF IndInv, TypeOK, ArgsOK, Busy, MutexOK,
     ScheduledIsMonitored, BeingRemoved, Threads, CleanupEvent, StartRemove,
     Goto, RunnerAt
<1> QED BY <1>1, <1>2, <1>3, <1>4, <1>5, <1>6, <1>7, <1>8, <1>9 DEF IndInv

(* The runner goes to sleep when nothing is left to remove. *)
LEMMA RunnerEnterWaitStep ==
  ASSUME IndInv, RunnerEnterWait
  PROVE  IndInv'
<1>1. TypeOK'
  BY LoopAssumption DEF IndInv, TypeOK, ArgsOK, Busy, MutexOK, PC, IPC,
     NoEvent, EventIds, Threads, RunnerEnterWait, Goto, RunnerAt
<1>2. ArgsOK'
  BY LoopAssumption DEF IndInv, TypeOK, ArgsOK, Busy, MutexOK, Threads,
     RunnerEnterWait, Goto, RunnerAt
<1>3. MutexOK'
  BY LoopAssumption DEF IndInv, TypeOK, ArgsOK, Busy, MutexOK, InPass, Threads,
     RunnerEnterWait, Goto, RunnerAt
<1>4. PassOK'
  BY LoopAssumption DEF IndInv, TypeOK, ArgsOK, Busy, MutexOK, PassOK, InPass,
     InPush, Threads, RunnerEnterWait, Goto, RunnerAt
<1>5. FreshOK'
  <2>1. Frame(Runner, "waiting", NoEvent)
    BY LoopAssumption DEF IndInv, TypeOK, ArgsOK, Busy, MutexOK, InPass,
       PassOK, InPush, Frame, Known, Threads, RunnerEnterWait, Goto, RunnerAt
  <2>2. QED BY <2>1, FreshFrame DEF Threads
<1>6. PendingOK'
  BY LoopAssumption DEF IndInv, TypeOK, ArgsOK, Busy, MutexOK, PassOK,
     PendingOK, Pending, InPush, InPass, Threads, RunnerEnterWait, Goto,
     RunnerAt
<1>7. RaisedOnce'
  BY LoopAssumption DEF IndInv, TypeOK, ArgsOK, Busy, MutexOK, RaisedOnce,
     PassOK, Threads, RunnerEnterWait, Goto, RunnerAt
<1>8. CancelledOK'
  BY LoopAssumption DEF IndInv, TypeOK, ArgsOK, Busy, MutexOK, CancelledOK,
     Threads, RunnerEnterWait, Goto, RunnerAt
<1>9. ScheduledIsMonitored'
  BY LoopAssumption DEF IndInv, TypeOK, ArgsOK, Busy, MutexOK,
     ScheduledIsMonitored, BeingRemoved, Threads, RunnerEnterWait, Goto,
     RunnerAt
<1> QED BY <1>1, <1>2, <1>3, <1>4, <1>5, <1>6, <1>7, <1>8, <1>9 DEF IndInv

(* The runner wakes up. *)
LEMMA RunnerTimeoutStep ==
  ASSUME IndInv, RunnerTimeout
  PROVE  IndInv'
<1>1. TypeOK'
  BY LoopAssumption DEF IndInv, TypeOK, ArgsOK, Busy, MutexOK, PC, IPC,
     NoEvent, EventIds, Threads, RunnerTimeout, NextTurn, Goto, RunnerAt
<1>2. ArgsOK'
  BY LoopAssumption DEF IndInv, TypeOK, ArgsOK, Busy, MutexOK, Threads,
     RunnerTimeout, NextTurn, Goto, RunnerAt
<1>3. MutexOK'
  BY LoopAssumption DEF IndInv, TypeOK, ArgsOK, Busy, MutexOK, InPass, Threads,
     RunnerTimeout, NextTurn, Goto, RunnerAt
<1>4. PassOK'
  BY LoopAssumption DEF IndInv, TypeOK, ArgsOK, Busy, MutexOK, PassOK, InPass,
     InPush, Threads, RunnerTimeout, NextTurn, Goto, RunnerAt
<1>5. FreshOK'
  <2>1. Frame(Runner, "stopQueue", NoEvent) \/ Frame(Runner, "lock", NoEvent)
    BY LoopAssumption DEF IndInv, TypeOK, Frame, Known, Threads, RunnerTimeout,
       NextTurn, Goto, RunnerAt
  <2>2. QED BY <2>1, FreshFrame DEF Threads
<1>6. PendingOK'
  BY LoopAssumption DEF IndInv, TypeOK, ArgsOK, Busy, MutexOK, PassOK,
     PendingOK, Pending, InPush, InPass, Threads, RunnerTimeout, NextTurn,
     Goto, RunnerAt
<1>7. RaisedOnce'
  BY LoopAssumption DEF IndInv, TypeOK, ArgsOK, Busy, MutexOK, RaisedOnce,
     PassOK, Threads, RunnerTimeout, NextTurn, Goto, RunnerAt
<1>8. CancelledOK'
  BY LoopAssumption DEF IndInv, TypeOK, ArgsOK, Busy, MutexOK, CancelledOK,
     Threads, RunnerTimeout, NextTurn, Goto, RunnerAt
<1>9. ScheduledIsMonitored'
  BY LoopAssumption DEF IndInv, TypeOK, ArgsOK, Busy, MutexOK,
     ScheduledIsMonitored, BeingRemoved, Threads, RunnerTimeout, NextTurn,
     Goto, RunnerAt
<1> QED BY <1>1, <1>2, <1>3, <1>4, <1>5, <1>6, <1>7, <1>8, <1>9 DEF IndInv

(* EventQueue::shutdown. *)
LEMMA StopQueueStep ==
  ASSUME IndInv, StopQueue
  PROVE  IndInv'
<1>1. TypeOK'
  BY LoopAssumption DEF IndInv, TypeOK, ArgsOK, Busy, MutexOK, PC, IPC,
     NoEvent, EventIds, Threads, StopQueue, Goto, RunnerAt
<1>2. ArgsOK'
  BY LoopAssumption DEF IndInv, TypeOK, ArgsOK, Busy, MutexOK, Threads,
     StopQueue, Goto, RunnerAt
<1>3. MutexOK'
  BY LoopAssumption DEF IndInv, TypeOK, ArgsOK, Busy, MutexOK, InPass, Threads,
     StopQueue, Goto, RunnerAt
<1>4. PassOK'
  BY LoopAssumption DEF IndInv, TypeOK, ArgsOK, Busy, MutexOK, PassOK, InPass,
     InPush, Threads, StopQueue, Goto, RunnerAt
<1>5. FreshOK'
  <2>1. Frame(Runner, "terminate", NoEvent)
    BY LoopAssumption DEF IndInv, TypeOK, ArgsOK, Busy, MutexOK, InPass,
       PassOK, InPush, Frame, Known, Threads, StopQueue, Goto, RunnerAt
  <2>2. QED BY <2>1, FreshFrame DEF Threads
<1>6. PendingOK'
  BY LoopAssumption DEF IndInv, TypeOK, ArgsOK, Busy, MutexOK, PassOK,
     PendingOK, Pending, InPush, InPass, Threads, StopQueue, Goto, RunnerAt
<1>7. RaisedOnce'
  BY LoopAssumption DEF IndInv, TypeOK, ArgsOK, Busy, MutexOK, RaisedOnce,
     PassOK, Threads, StopQueue, Goto, RunnerAt
<1>8. CancelledOK'
  BY LoopAssumption DEF IndInv, TypeOK, ArgsOK, Busy, MutexOK, CancelledOK,
     Threads, StopQueue, Goto, RunnerAt
<1>9. ScheduledIsMonitored'
  BY LoopAssumption DEF IndInv, TypeOK, ArgsOK, Busy, MutexOK,
     ScheduledIsMonitored, BeingRemoved, Threads, StopQueue, Goto, RunnerAt
<1> QED BY <1>1, <1>2, <1>3, <1>4, <1>5, <1>6, <1>7, <1>8, <1>9 DEF IndInv

(* The interpreter is told to stop. *)
LEMMA TerminateInterpreterStep ==
  ASSUME IndInv, TerminateInterpreter
  PROVE  IndInv'
<1>1. TypeOK'
  BY LoopAssumption DEF IndInv, TypeOK, ArgsOK, Busy, MutexOK, PC, IPC,
     NoEvent, EventIds, Threads, TerminateInterpreter, Goto, RunnerAt
<1>2. ArgsOK'
  BY LoopAssumption DEF IndInv, TypeOK, ArgsOK, Busy, MutexOK, Threads,
     TerminateInterpreter, Goto, RunnerAt
<1>3. MutexOK'
  BY LoopAssumption DEF IndInv, TypeOK, ArgsOK, Busy, MutexOK, InPass, Threads,
     TerminateInterpreter, Goto, RunnerAt
<1>4. PassOK'
  BY LoopAssumption DEF IndInv, TypeOK, ArgsOK, Busy, MutexOK, PassOK, InPass,
     InPush, Threads, TerminateInterpreter, Goto, RunnerAt
<1>5. FreshOK'
  <2>1. Frame(Runner, "join", NoEvent)
    BY LoopAssumption DEF IndInv, TypeOK, ArgsOK, Busy, MutexOK, InPass,
       PassOK, InPush, Frame, Known, Threads, TerminateInterpreter, Goto,
       RunnerAt
  <2>2. QED BY <2>1, FreshFrame DEF Threads
<1>6. PendingOK'
  BY LoopAssumption DEF IndInv, TypeOK, ArgsOK, Busy, MutexOK, PassOK,
     PendingOK, Pending, InPush, InPass, Threads, TerminateInterpreter, Goto,
     RunnerAt
<1>7. RaisedOnce'
  BY LoopAssumption DEF IndInv, TypeOK, ArgsOK, Busy, MutexOK, RaisedOnce,
     PassOK, Threads, TerminateInterpreter, Goto, RunnerAt
<1>8. CancelledOK'
  BY LoopAssumption DEF IndInv, TypeOK, ArgsOK, Busy, MutexOK, CancelledOK,
     Threads, TerminateInterpreter, Goto, RunnerAt
<1>9. ScheduledIsMonitored'
  BY LoopAssumption DEF IndInv, TypeOK, ArgsOK, Busy, MutexOK,
     ScheduledIsMonitored, BeingRemoved, Threads, TerminateInterpreter, Goto,
     RunnerAt
<1> QED BY <1>1, <1>2, <1>3, <1>4, <1>5, <1>6, <1>7, <1>8, <1>9 DEF IndInv

(* The interpreter has stopped. *)
LEMMA JoinInterpreterStep ==
  ASSUME IndInv, JoinInterpreter
  PROVE  IndInv'
<1>1. TypeOK'
  BY LoopAssumption DEF IndInv, TypeOK, ArgsOK, Busy, MutexOK, PC, IPC,
     NoEvent, EventIds, Threads, JoinInterpreter, Goto, RunnerAt
<1>2. ArgsOK'
  BY LoopAssumption DEF IndInv, TypeOK, ArgsOK, Busy, MutexOK, Threads,
     JoinInterpreter, Goto, RunnerAt
<1>3. MutexOK'
  BY LoopAssumption DEF IndInv, TypeOK, ArgsOK, Busy, MutexOK, InPass, Threads,
     JoinInterpreter, Goto, RunnerAt
<1>4. PassOK'
  BY LoopAssumption DEF IndInv, TypeOK, ArgsOK, Busy, MutexOK, PassOK, InPass,
     InPush, Threads, JoinInterpreter, Goto, RunnerAt
<1>5. FreshOK'
  <2>1. Frame(Runner, "stopped", NoEvent)
    BY LoopAssumption DEF IndInv, TypeOK, ArgsOK, Busy, MutexOK, InPass,
       PassOK, InPush, Frame, Known, Threads, JoinInterpreter, Goto, RunnerAt
  <2>2. QED BY <2>1, FreshFrame DEF Threads
<1>6. PendingOK'
  BY LoopAssumption DEF IndInv, TypeOK, ArgsOK, Busy, MutexOK, PassOK,
     PendingOK, Pending, InPush, InPass, Threads, JoinInterpreter, Goto,
     RunnerAt
<1>7. RaisedOnce'
  BY LoopAssumption DEF IndInv, TypeOK, ArgsOK, Busy, MutexOK, RaisedOnce,
     PassOK, Threads, JoinInterpreter, Goto, RunnerAt
<1>8. CancelledOK'
  BY LoopAssumption DEF IndInv, TypeOK, ArgsOK, Busy, MutexOK, CancelledOK,
     Threads, JoinInterpreter, Goto, RunnerAt
<1>9. ScheduledIsMonitored'
  BY LoopAssumption DEF IndInv, TypeOK, ArgsOK, Busy, MutexOK,
     ScheduledIsMonitored, BeingRemoved, Threads, JoinInterpreter, Goto,
     RunnerAt
<1> QED BY <1>1, <1>2, <1>3, <1>4, <1>5, <1>6, <1>7, <1>8, <1>9 DEF IndInv

(* A shutdown only raises a flag. *)
LEMMA initiateShutdownStep ==
  ASSUME IndInv, initiateShutdown
  PROVE  IndInv'
<1>1. TypeOK'
  BY LoopAssumption DEF IndInv, TypeOK, ArgsOK, Busy, MutexOK, PC, IPC,
     NoEvent, EventIds, Threads, initiateShutdown
<1>2. ArgsOK'
  BY LoopAssumption DEF IndInv, TypeOK, ArgsOK, Busy, MutexOK, Threads,
     initiateShutdown
<1>3. MutexOK'
  BY LoopAssumption DEF IndInv, TypeOK, ArgsOK, Busy, MutexOK, InPass, Threads,
     initiateShutdown
<1>4. PassOK'
  BY LoopAssumption DEF IndInv, TypeOK, ArgsOK, Busy, MutexOK, PassOK, InPass,
     InPush, Threads, initiateShutdown
<1>5. FreshOK'
  <2>1. Frame(Runner, pc[Runner], arg[Runner])
    BY LoopAssumption DEF IndInv, TypeOK, ArgsOK, Busy, MutexOK, InPass,
       PassOK, InPush, Frame, Known, Threads, initiateShutdown
  <2>2. QED BY <2>1, FreshFrame DEF Threads
<1>6. PendingOK'
  BY LoopAssumption DEF IndInv, TypeOK, ArgsOK, Busy, MutexOK, PassOK,
     PendingOK, Pending, InPush, InPass, Threads, initiateShutdown
<1>7. RaisedOnce'
  BY LoopAssumption DEF IndInv, TypeOK, ArgsOK, Busy, MutexOK, RaisedOnce,
     PassOK, Threads, initiateShutdown
<1>8. CancelledOK'
  BY LoopAssumption DEF IndInv, TypeOK, ArgsOK, Busy, MutexOK, CancelledOK,
     Threads, initiateShutdown
<1>9. ScheduledIsMonitored'
  BY LoopAssumption DEF IndInv, TypeOK, ArgsOK, Busy, MutexOK,
     ScheduledIsMonitored, BeingRemoved, Threads, initiateShutdown
<1> QED BY <1>1, <1>2, <1>3, <1>4, <1>5, <1>6, <1>7, <1>8, <1>9 DEF IndInv

(* Time passes. *)
LEMMA TickStep ==
  ASSUME IndInv, Tick
  PROVE  IndInv'
<1>1. TypeOK'
  BY LoopAssumption DEF IndInv, TypeOK, ArgsOK, Busy, MutexOK, PC, IPC,
     NoEvent, EventIds, Threads, Tick
<1>2. ArgsOK'
  BY LoopAssumption DEF IndInv, TypeOK, ArgsOK, Busy, MutexOK, Threads, Tick
<1>3. MutexOK'
  BY LoopAssumption DEF IndInv, TypeOK, ArgsOK, Busy, MutexOK, InPass, Threads,
     Tick
<1>4. PassOK'
  BY LoopAssumption DEF IndInv, TypeOK, ArgsOK, Busy, MutexOK, PassOK, InPass,
     InPush, Threads, Tick
<1>5. FreshOK'
  <2>1. Frame(Runner, pc[Runner], arg[Runner])
    BY LoopAssumption DEF IndInv, TypeOK, ArgsOK, Busy, MutexOK, InPass,
       PassOK, InPush, Frame, Known, Threads, Tick
  <2>2. QED BY <2>1, FreshFrame DEF Threads
<1>6. PendingOK'
  BY LoopAssumption DEF IndInv, TypeOK, ArgsOK, Busy, MutexOK, PassOK,
     PendingOK, Pending, InPush, InPass, Threads, Tick
<1>7. RaisedOnce'
  BY LoopAssumption DEF IndInv, TypeOK, ArgsOK, Busy, MutexOK, RaisedOnce,
     PassOK, Threads, Tick
<1>8. CancelledOK'
  BY LoopAssumption DEF IndInv, TypeOK, ArgsOK, Busy, MutexOK, CancelledOK,
     Threads, Tick
<1>9. ScheduledIsMonitored'
  BY LoopAssumption DEF IndInv, TypeOK, ArgsOK, Busy, MutexOK,
     ScheduledIsMonitored, BeingRemoved, Threads, Tick
<1> QED BY <1>1, <1>2, <1>3, <1>4, <1>5, <1>6, <1>7, <1>8, <1>9 DEF IndInv

(* What pushEvent and pushTimedEvent have in common: thread p creates the  *)
(* next event object and goes on at l with event x.                        *)
Pushes(p, l, x) ==
  /\ pc[p] = "idle" /\ created < MaxEvents
  /\ pc' = [pc EXCEPT ![p] = l] /\ arg' = [arg EXCEPT ![p] = x]
  /\ \/ l \in {"addEvent", "merge", "append"} /\ x = created + 1
     \/ l = "idle" /\ x = arg[p]
  /\ created' = created + 1
  /\ evt' \in [EventIds -> EventType]
  /\ schedule' \in [EventIds -> Schedules]
  /\ \A e \in EventIds : e # created + 1 => schedule'[e] = schedule[e]
  /\ UNCHANGED <<now, loopVars, m_ScheduledEvents, m_MonitorNode, newItem,
                 passVars, stopVars, interpVars, histVars>>

(* Creating an event object, with the schedule it gets when it gets one. *)
LEMMA CreateType ==
  ASSUME TypeOK, NEW tpl \in Templates, Create(tpl)
  PROVE  /\ created + 1 \in EventIds
         /\ evt' \in [EventIds -> EventType]
         /\ scheduleFromEvent(tpl, now) # {} =>
              (CHOOSE x \in scheduleFromEvent(tpl, now) : TRUE) \in Schedules
<1>1. tpl \in TemplateType /\ now \in Nat /\ created \in Nat /\ MaxEvents \in Nat
  BY LoopAssumption DEF TypeOK
<1>2. created + 1 \in EventIds
  BY <1>1 DEF Create, EventIds
<1>3. evt' \in [EventIds -> EventType]
  <2> DEFINE new == [key |-> tpl.key, unique |-> tpl.unique, time |-> tpl.time,
                     ical |-> tpl.ical, payload |-> created + 1]
  <2>1. new \in EventType
    BY <1>1 DEF TemplateType, EventType
  <2>2. evt' = [evt EXCEPT ![created + 1] = new]
    BY DEF Create
  <2> HIDE DEF new
  <2>3. QED BY <1>2, <2>1, <2>2 DEF TypeOK
<1>4. scheduleFromEvent(tpl, now) \subseteq Schedules
  BY <1>1, ScheduleFromEventType DEF TemplateType
<1>5. QED BY <1>2, <1>3, <1>4

(* Both calls are of that form. *)
LEMMA pushEventPushes ==
  ASSUME IndInv, NEW p \in Producers, NEW tpl \in Templates,
         pushEvent(p, tpl) \/ pushTimedEvent(p, tpl)
  PROVE  \E l, x : Pushes(p, l, x)
<1> DEFINE s == scheduleFromEvent(tpl, now)
           f == CHOOSE x \in s : TRUE
<1>1. TypeOK /\ Create(tpl)
  BY DEF IndInv, pushEvent, pushTimedEvent
<1>2. /\ created + 1 \in EventIds /\ evt' \in [EventIds -> EventType]
      /\ s # {} => f \in Schedules
  BY <1>1, CreateType
<1>3. created < MaxEvents /\ created' = created + 1
  BY <1>1 DEF Create
<1>4. CASE /\ s # {} /\ schedule' = [schedule EXCEPT ![created + 1] = f]
           /\ Goto(p, "addEvent", created + 1)
  <2>1. schedule' \in [EventIds -> Schedules]
    <3> HIDE DEF f, s
    <3> QED BY <1>1, <1>2, <1>4 DEF TypeOK
  <2>2. \A e \in EventIds : e # created + 1 => schedule'[e] = schedule[e]
    <3> HIDE DEF f, s
    <3> QED BY <1>1, <1>4 DEF TypeOK
  <2>3. Pushes(p, "addEvent", created + 1)
    BY <1>2, <1>3, <1>4, <2>1, <2>2 DEF Pushes, Goto, pushEvent, pushTimedEvent
  <2>4. QED BY <2>3
<1>5. CASE s = {} /\ UNCHANGED schedule /\ Goto(p, QueuePath(tpl), created + 1)
  <2>1. Pushes(p, QueuePath(tpl), created + 1)
    BY <1>1, <1>2, <1>3, <1>5
    DEF TypeOK, Pushes, Goto, QueuePath, pushEvent, pushTimedEvent
  <2>2. QED BY <2>1
<1>6. CASE s = {} /\ UNCHANGED <<arg, schedule, pc>>
  <2>1. pc[p] = "idle"
    BY DEF pushEvent, pushTimedEvent
  <2>2. pc' = [pc EXCEPT ![p] = "idle"] /\ arg' = [arg EXCEPT ![p] = arg[p]]
    BY <1>1, <1>6, <2>1 DEF TypeOK, Threads
  <2>3. Pushes(p, "idle", arg[p])
    BY <1>1, <1>2, <1>3, <1>6, <2>1, <2>2 DEF TypeOK, Pushes, pushEvent,
       pushTimedEvent
  <2>4. QED BY <2>3
<1>7. QED BY <1>4, <1>5, <1>6 DEF pushEvent, pushTimedEvent

(* pushEvent and pushTimedEvent, up to the lock they take next. *)
LEMMA PushesStep ==
  ASSUME IndInv, NEW p \in Producers, NEW l, NEW x, Pushes(p, l, x)
  PROVE  IndInv'
<1> DEFINE n == created + 1
<1>1. n \in EventIds /\ p # Runner /\ p \in Threads
  BY LoopAssumption DEF IndInv, TypeOK, Pushes, EventIds, Threads
<1>2. Untouched(n, {})
  BY <1>1 DEF IndInv, TypeOK, FreshOK
<1>3. TypeOK'
  <2>1. created' \in 0 .. MaxEvents
    BY LoopAssumption DEF IndInv, TypeOK, Pushes
  <2>2. l \in PC /\ x \in EventIds \cup {NoEvent}
    BY <1>1 DEF IndInv, TypeOK, PC, Pushes
  <2>3. pc' \in [Threads -> PC] /\ arg' \in [Threads -> EventIds \cup {NoEvent}]
    BY <1>1, <2>2 DEF IndInv, TypeOK, Pushes
  <2>4. evt' \in [EventIds -> EventType] /\ schedule' \in [EventIds -> Schedules]
    BY DEF Pushes
  <2>5. UNCHANGED <<now, loopVars, m_ScheduledEvents, m_MonitorNode, newItem,
                    passVars, stopVars, interpVars, histVars>>
    BY DEF Pushes
  <2>6. TypeOK
    BY DEF IndInv
  <2>7. QED
    BY <2>1, <2>3, <2>4, <2>5, <2>6 DEF TypeOK, loopVars, passVars, stopVars,
       interpVars, histVars
<1>4. ArgsOK'
  BY <1>1 DEF IndInv, TypeOK, ArgsOK, Busy, Threads, Pushes
<1>5. MutexOK'
  BY <1>1 DEF IndInv, TypeOK, MutexOK, Pushes
<1>6. PassOK'
  BY <1>1 DEF IndInv, TypeOK, PassOK, Pushes
<1>7. FreshOK'
  <2>1. \A e : raises'[e] = raises[e]
    BY DEF Pushes
  <2>2. ASSUME NEW e \in EventIds, e > created' PROVE Untouched(e, {})'
    <3>1. e > created /\ e # n
      BY <2>2 DEF Pushes, IndInv, TypeOK, EventIds
    <3>2. Untouched(e, {})
      BY <3>1 DEF IndInv, FreshOK
    <3>3. QED BY <1>1, <2>1, <3>1, <3>2 DEF IndInv, TypeOK, Untouched, Pushes
  <2>3. ASSUME NEW q \in Producers, pc'[q] \in Entry
        PROVE  Untouched(arg[q], {q})'
    <3>1. CASE q = p
      BY <1>1, <1>2, <2>1, <2>3, <3>1 DEF IndInv, TypeOK, Untouched, Pushes
    <3>2. CASE q # p
      <4>1. pc[q] \in Entry /\ arg'[q] = arg[q] /\ arg[q] # n
        BY <1>1, <1>2, <2>3, <3>2 DEF IndInv, TypeOK, Untouched, Pushes,
           Threads
      <4>2. Untouched(arg[q], {q})
        BY <4>1 DEF IndInv, FreshOK
      <4>3. QED BY <1>1, <2>1, <4>1, <4>2 DEF IndInv, TypeOK, Untouched, Pushes
    <3>3. QED BY <3>1, <3>2
  <2>4. QED BY <2>2, <2>3 DEF FreshOK
<1>8. PendingOK'
  <2>1. \A e \in m_ScheduledEvents : schedule'[e] = schedule[e]
    BY <1>2 DEF IndInv, TypeOK, Untouched, Pushes
  <2>2. pc'[Runner] = pc[Runner] /\ arg'[Runner] = arg[Runner]
    BY <1>1 DEF IndInv, TypeOK, Pushes, Threads
  <2>3. QED BY <2>1, <2>2 DEF IndInv, PendingOK, Pending, Pushes
<1>9. RaisedOnce'
  <2>1. raises' = raises /\ raises[n] = 0
    BY <1>2 DEF Untouched, Pushes
  <2>2. \A e \in EventIds : e # n => schedule'[e] = schedule[e]
    BY DEF Pushes
  <2>3. QED BY <2>1, <2>2 DEF IndInv, RaisedOnce
<1>10. CancelledOK'
  BY DEF IndInv, CancelledOK, Pushes
<1>11. ScheduledIsMonitored'
  BY <1>1 DEF IndInv, TypeOK, ScheduledIsMonitored, BeingRemoved, Threads,
     Pushes
<1> QED BY <1>3, <1>4, <1>5, <1>6, <1>7, <1>8, <1>9, <1>10, <1>11 DEF IndInv

(* The invariant does not speak of the interpreter's half of the state but *)
(* for its types.                                                          *)
LEMMA InterpreterStep ==
  ASSUME IndInv, Interpreter
  PROVE  IndInv'
<1>1. InterpUnchanged
  BY DEF Interpreter, WaitForEventTest, WaitForEventEnter, WaitForEventWake,
         WaitForEventTimeout, WaitForEventResult, popEvent, HandleEvent
<1>2. /\ UNCHANGED <<created, m_ScheduledEvents, schedule, m_MonitorNode, pc, arg>>
      /\ UNCHANGED <<m_EventsMutex, unscanned, removeIDs, raises, cancelled>>
  BY <1>1 DEF InterpUnchanged
<1>3. /\ m_EventQueue' \in Seq(EventIds) /\ entryInQueue' \in BOOLEAN
      /\ ipc' \in IPC /\ current' \in EventIds \cup {NoEvent}
      /\ ipc' = "handle" => current' \in EventIds
  <2>1. CASE popEvent
    BY <2>1 DEF IndInv, TypeOK, IPC, popEvent
  <2>2. CASE ~popEvent
    BY <2>2 DEF IndInv, TypeOK, IPC, Interpreter, WaitForEventTest,
       WaitForEventEnter,
         WaitForEventWake, WaitForEventTimeout, WaitForEventResult, HandleEvent
  <2>3. QED BY <2>1, <2>2
<1>4. handled' \in SUBSET (EventIds \X Nat)
  <2>1. CASE HandleEvent
    <3>1. current \in EventIds /\ evt[current].payload \in Nat
      BY <2>1 DEF IndInv, TypeOK, ArgsOK, EventType, HandleEvent
    <3>2. QED BY <2>1, <3>1 DEF IndInv, TypeOK, HandleEvent
  <2>2. CASE ~HandleEvent
    <3>1. handled' = handled
      BY <2>2 DEF Interpreter, WaitForEventTest, WaitForEventEnter,
         WaitForEventWake,
           WaitForEventTimeout, WaitForEventResult, popEvent
    <3>2. QED BY <3>1 DEF IndInv, TypeOK
  <2>3. QED BY <2>1, <2>2
<1>5. TypeOK'
  BY <1>1, <1>3, <1>4 DEF IndInv, TypeOK, InterpUnchanged
<1>6. ArgsOK' /\ MutexOK' /\ PassOK'
  BY <1>2, <1>3 DEF IndInv, ArgsOK, MutexOK, PassOK
<1>7. FreshOK' /\ PendingOK'
  BY <1>2 DEF IndInv, FreshOK, Untouched, PendingOK, Pending
<1>8. RaisedOnce' /\ CancelledOK' /\ ScheduledIsMonitored'
  BY <1>2 DEF IndInv, RaisedOnce, CancelledOK, ScheduledIsMonitored,
     BeingRemoved
<1> QED BY <1>5, <1>6, <1>7, <1>8 DEF IndInv

(* A step that changes nothing. *)
LEMMA StutterStep ==
  ASSUME IndInv, UNCHANGED vars
  PROVE  IndInv'
<1>1. UNCHANGED <<now, evt, created, m_EventQueue, entryInQueue, m_ScheduledEvents,
                  schedule, m_MonitorNode, newItem>>
  BY DEF vars
<1>2. UNCHANGED <<m_EventsMutex, passNow, unscanned, removeIDs, m_ShutdownFlag,
                  m_Terminated, pc, arg, ipc, current, raises, cancelled, replaced, handled>>
  BY DEF vars
<1>3. TypeOK' /\ ArgsOK' /\ MutexOK' /\ PassOK'
  BY <1>1, <1>2 DEF IndInv, TypeOK, ArgsOK, MutexOK, PassOK
<1>4. FreshOK' /\ PendingOK' /\ RaisedOnce'
  BY <1>1, <1>2 DEF IndInv, FreshOK, Untouched, PendingOK, Pending, RaisedOnce
<1>5. CancelledOK' /\ ScheduledIsMonitored'
  BY <1>1, <1>2 DEF IndInv, CancelledOK, ScheduledIsMonitored, BeingRemoved
<1>6. QED BY <1>3, <1>4, <1>5 DEF IndInv

(* The dSS starts with nothing scheduled. *)
LEMMA InitIndInv ==
  ASSUME Init
  PROVE  IndInv
<1>1. StaticSchedule(0) \in Schedules /\ StaticSchedule(0).recur = FALSE
  BY DEF StaticSchedule, Schedules
<1>2. Unborn \in EventType
  <2>1. (CHOOSE k \in Keys : TRUE) \in Keys
    BY LoopAssumption
  <2>2. QED BY <2>1 DEF Unborn, EventType, Unset
<1>3. TypeOK
  <2>1. evt \in [EventIds -> EventType] /\ schedule \in [EventIds -> Schedules]
    BY <1>1, <1>2 DEF Init
  <2>2. pc \in [Threads -> PC] /\ arg \in [Threads -> EventIds \cup {NoEvent}]
    BY DEF Init, PC
  <2>3. created \in 0 .. MaxEvents /\ raises \in [EventIds -> Nat]
    BY LoopAssumption DEF Init
  <2>4. m_EventQueue \in Seq(EventIds) /\ handled \in SUBSET (EventIds \X Nat)
    BY DEF Init
  <2>5. /\ now \in Nat /\ entryInQueue \in BOOLEAN /\ newItem \in BOOLEAN
        /\ m_ScheduledEvents \in SUBSET EventIds /\ m_MonitorNode \in SUBSET EventIds
        /\ m_EventsMutex \in {Free, Runner}
        /\ m_ShutdownFlag \in BOOLEAN /\ m_Terminated \in BOOLEAN
        /\ passNow \in Nat /\ unscanned \in SUBSET EventIds
        /\ removeIDs \in SUBSET EventIds /\ ipc \in IPC
        /\ current \in EventIds \cup {NoEvent}
        /\ cancelled \in SUBSET EventIds /\ replaced \in SUBSET Nat
    BY DEF Init, IPC
  <2>6. QED BY <2>1, <2>2, <2>3, <2>4, <2>5 DEF TypeOK
<1>4. ArgsOK /\ MutexOK /\ PassOK
  BY LoopAssumption DEF Init, ArgsOK, Busy, MutexOK, InPass, PassOK, InPush,
     Threads
<1>5. FreshOK
  BY LoopAssumption DEF Init, FreshOK, Untouched, Threads, NoEvent, EventIds
<1>6. PendingOK /\ RaisedOnce /\ CancelledOK /\ ScheduledIsMonitored
  BY DEF Init, PendingOK, RaisedOnce, CancelledOK, ScheduledIsMonitored
<1> QED BY <1>3, <1>4, <1>5, <1>6 DEF IndInv

(* Every step keeps the invariant. *)
LEMMA NextIndInv ==
  ASSUME IndInv, [Next]_vars
  PROVE  IndInv'
<1>1. ASSUME NEW p \in Producers, Call(p) PROVE IndInv'
  BY <1>1, pushEventPushes, PushesStep, removeEventStep,
     removeEventByNameStep DEF Call
<1>2. ASSUME NEW t \in Threads, Continue(t) PROVE IndInv'
  BY <1>2, MergeIntoQueueStep, AppendToQueueStep, SignalQueueStep,
     addEventStep,
     RemoveMonitorChildStep, removeEventInternalStep DEF Continue
<1>3. CASE RunnerLoop
  <2>1. RunnerWake => RunnerTimeout
    BY DEF RunnerWake, RunnerTimeout
  <2>2. QED BY <1>3, <2>1, LockEventsStep, AfterRaiseStep, UnlockEventsStep,
     RunnerEnterWaitStep, ScanEventStep, CleanupEventStep, RunnerTimeoutStep,
     StopQueueStep, TerminateInterpreterStep, JoinInterpreterStep DEF RunnerLoop
<1>4. CASE Stopped \/ UNCHANGED vars
  BY <1>4, StutterStep DEF Stopped
<1>5. QED BY <1>1, <1>2, <1>3, <1>4, InterpreterStep, initiateShutdownStep,
         TickStep DEF Next

(***************************************************************************)
(* The theorems                                                            *)
(***************************************************************************)

(* The invariant holds throughout every behaviour of the event loop. *)
THEOREM Invariance == Spec => []IndInv
<1>1. Init => IndInv
  BY InitIndInv
<1>2. IndInv /\ [Next]_vars => IndInv'
  BY NextIndInv
<1>3. QED BY <1>1, <1>2, PTL DEF Spec

(* Type correctness: in particular every thread inside pushEvent, addEvent *)
(* or removeEvent works on an event object that exists.                    *)
THEOREM TypeCorrect == Spec => []TypeOK
<1>1. IndInv => TypeOK
  BY DEF IndInv
<1>2. QED BY <1>1, Invariance, PTL

(* EventRunner never waits for the m_EventsMutex it holds itself, however  *)
(* many producers push whatever events: raisePendingEvents has cleared the *)
(* timer properties, so pushEvent does not come back to addEvent.          *)
THEOREM RunnerNeverSelfDeadlocks == Spec => []NoSelfDeadlock
<1>1. IndInv => NoSelfDeadlock
  BY DEF IndInv, MutexOK, NoSelfDeadlock, RunnerAt
<1>2. QED BY <1>1, Invariance, PTL

(* A one-shot event is forwarded to the queue at most once. *)
THEOREM OneShotRaisedOnce == Spec => []RaisedOnce
<1>1. IndInv => RaisedOnce
  BY DEF IndInv
<1>2. QED BY <1>1, Invariance, PTL

(* A scheduled event has its monitor node, or is being removed. *)
THEOREM Monitored == Spec => []ScheduledIsMonitored
<1>1. IndInv => ScheduledIsMonitored
  BY DEF IndInv
<1>2. QED BY <1>1, Invariance, PTL

(* Only the pass of raisePendingEvents forwards an event, and only one     *)
(* that is scheduled.                                                      *)
LEMMA OnlyScheduledIsRaised ==
  ASSUME IndInv, [Next]_vars, NEW e \in EventIds, e \notin m_ScheduledEvents
  PROVE  raises'[e] = raises[e]
<1>1. ASSUME NEW x \in EventIds, ScanEvent(x) PROVE raises'[e] = raises[e]
  <2>1. x # e
    BY <1>1 DEF IndInv, PassOK, ScanEvent
  <2>2. QED BY <1>1, <2>1 DEF IndInv, TypeOK, ScanEvent
<1>2. CASE \E p \in Producers : Call(p)
  BY <1>2 DEF Call, pushEvent, pushTimedEvent, removeEvent, removeEventByName
<1>3. CASE \E t \in Threads : Continue(t)
  BY <1>3 DEF Continue, MergeIntoQueue, AppendToQueue, SignalQueue, addEvent,
     RemoveMonitorChild, removeEventInternal
<1>4. CASE RunnerLoop
  BY <1>1, <1>4 DEF RunnerLoop, LockEvents, AfterRaise, UnlockEvents,
     RunnerEnterWait,
     CleanupEvent, RunnerWake, RunnerTimeout, StopQueue, TerminateInterpreter,
     JoinInterpreter
<1>5. CASE Interpreter
  BY <1>5 DEF Interpreter, WaitForEventTest, WaitForEventEnter,
     WaitForEventWake,
     WaitForEventTimeout, WaitForEventResult, popEvent, HandleEvent, InterpUnchanged
<1>6. CASE initiateShutdown \/ Tick \/ Stopped \/ UNCHANGED vars
  BY <1>6 DEF initiateShutdown, Tick, Stopped, vars
<1>7. QED BY <1>2, <1>3, <1>4, <1>5, <1>6 DEF Next

(* Once a removal has returned its events are never forwarded again,       *)
(* although the removal takes m_EventsMutex only after it has looked the   *)
(* monitor node up, and a pass may have started in between.                *)
THEOREM NoRaiseAfterCancel == Spec => CancelledIsNotRaised
<1>1. IndInv /\ [Next]_vars => [\A e \in cancelled : raises'[e] = raises[e]]_vars
  <2> SUFFICES ASSUME IndInv, [Next]_vars, NEW e \in cancelled
               PROVE  raises'[e] = raises[e]
    OBVIOUS
  <2>1. e \in EventIds /\ e \notin m_ScheduledEvents
    BY DEF IndInv, TypeOK, CancelledOK
  <2>2. QED BY <2>1, OnlyScheduledIsRaised
<1>2. QED BY <1>1, Invariance, PTL DEF Spec, CancelledIsNotRaised

(***************************************************************************)
(* EventLoop implements EventLifecycle                                     *)
(*                                                                         *)
(* What the refinement rests on, besides IndInv: an event is in the queue  *)
(* or was handled only when it was put there, and a one-shot event is put  *)
(* there once, by the producer that has created it or by the pass that has *)
(* raised it.                                                              *)
(***************************************************************************)

OneShot(e) == ~schedule[e].recur
Handled(e) == \E h \in handled : h[1] = e
Seen(e)    == e \in ToSet(LifeQueue) \/ Handled(e)

CurrentOK == current # NoEvent => ipc = "handle"
NewOK ==
  /\ \A e \in EventIds : e > created => ~Seen(e)
  /\ \A p \in Producers : pc[p] \in Entry => arg[p] <= created /\ ~Seen(arg[p])
RaiseOK ==
  /\ \A e \in m_ScheduledEvents : OneShot(e) /\ raises[e] = 0 => ~Seen(e)
  /\ pc[Runner] \in {"merge", "append"} =>
       /\ raises[arg[Runner]] > 0
       /\ OneShot(arg[Runner]) => ~Seen(arg[Runner])
OnceOK ==
  \A i, j \in DOMAIN LifeQueue :
     LifeQueue[i] = LifeQueue[j] /\ OneShot(LifeQueue[i]) => i = j

LifeInv == CurrentOK /\ NewOK /\ RaiseOK /\ OnceOK

(* the sequences of events *)
LEMMA QueueFacts ==
  ASSUME NEW S, NEW s \in Seq(S)
  PROVE  /\ Len(s) \in Nat /\ DOMAIN s = 1 .. Len(s)
         /\ s # << >> => /\ Head(s) \in S /\ Tail(s) \in Seq(S) /\ <<Head(s)>> \o Tail(s) = s
         /\ \A e \in S : /\ <<e>> \o s \in Seq(S) /\ <<e>> \o s # << >>
                         /\ Head(<<e>> \o s) = e /\ Tail(<<e>> \o s) = s
                         /\ Append(s, e) \in Seq(S) /\ ToSet(Append(s, e)) = ToSet(s) \cup {e}
<1>1. Len(s) \in Nat /\ DOMAIN s = 1 .. Len(s)
  BY LenProperties
<1>2. ASSUME s # << >>
      PROVE  Head(s) \in S /\ Tail(s) \in Seq(S) /\ <<Head(s)>> \o Tail(s) = s
  <2>1. /\ Head(s) \in S /\ Tail(s) \in Seq(S) /\ Len(Tail(s)) = Len(s) - 1 /\ Len(s) >= 1
        /\ \A i \in 1 .. Len(Tail(s)) : Tail(s)[i] = s[i + 1]
    BY <1>1, <1>2, HeadTailProperties, EmptySeq
  <2>2. QED BY <1>1, <2>1
<1>3. ASSUME NEW e \in S
      PROVE  /\ <<e>> \o s \in Seq(S) /\ <<e>> \o s # << >>
             /\ Head(<<e>> \o s) = e /\ Tail(<<e>> \o s) = s
  BY <1>1
<1>4. ASSUME NEW e \in S
      PROVE  Append(s, e) \in Seq(S) /\ ToSet(Append(s, e)) = ToSet(s) \cup {e}
  <2>1. /\ Append(s, e) \in Seq(S) /\ DOMAIN Append(s, e) = 1 .. Len(s) + 1
        /\ \A i \in 1 .. Len(s) : Append(s, e)[i] = s[i]
        /\ Append(s, e)[Len(s) + 1] = e
    BY AppendProperties, LenProperties
  <2>2. \A i \in 1 .. Len(s) + 1 : i \in 1 .. Len(s) \/ i = Len(s) + 1
    BY <1>1
  <2>3. Len(s) + 1 \in 1 .. Len(s) + 1 /\ \A i \in 1 .. Len(s) : i \in 1 .. Len(s) + 1
    BY <1>1
  <2>4. ToSet(Append(s, e)) \subseteq ToSet(s) \cup {e}
    BY <1>1, <2>1, <2>2 DEF ToSet
  <2>5. ToSet(s) \cup {e} \subseteq ToSet(Append(s, e))
    BY <1>1, <2>1, <2>3 DEF ToSet
  <2>6. QED BY <2>1, <2>4, <2>5
<1>5. QED BY <1>1, <1>2, <1>3, <1>4

(* the queue, with the event that is being handled *)
LEMMA LifeQueueType ==
  ASSUME IndInv
  PROVE  LifeQueue \in Seq(EventIds) /\ ToSet(LifeQueue) \subseteq EventIds
<1>1. m_EventQueue \in Seq(EventIds) /\ current \in EventIds \cup {NoEvent}
  BY DEF IndInv, TypeOK
<1>2. LifeQueue \in Seq(EventIds)
  BY <1>1, QueueFacts DEF LifeQueue
<1>3. QED BY <1>2, QueueFacts, ElementOfSeq DEF ToSet

(* An event is appended behind the one that is being handled. *)
LEMMA AppendedLast ==
  ASSUME IndInv, LifeInv, NEW t \in Threads, AppendToQueue(t)
  PROVE  LifeQueue' = Append(LifeQueue, arg[t]) /\ handled' = handled /\ CurrentOK'
<1>q. m_EventQueue \in Seq(EventIds) /\ current \in EventIds \cup {NoEvent}
  BY DEF IndInv, TypeOK
<1>c. CurrentOK
  BY DEF LifeInv
<1>1. m_EventQueue' = Append(m_EventQueue, arg[t]) /\ UNCHANGED <<current, ipc, handled>>
  BY DEF AppendToQueue
<1>2. arg[t] \in EventIds
  BY DEF AppendToQueue, IndInv, ArgsOK, Busy
<1>3. CASE current = NoEvent
  BY <1>c, <1>1, <1>3 DEF LifeQueue, CurrentOK
<1>4. CASE current # NoEvent
  <2>1. <<current>> \o Append(m_EventQueue, arg[t]) = Append(<<current>> \o m_EventQueue, arg[t])
    BY <1>q, <1>2, <1>4
  <2>2. QED BY <1>c, <1>1, <1>4, <2>1 DEF LifeQueue, CurrentOK
<1>5. QED BY <1>3, <1>4

(* the event is handled and leaves the queue of EventLifecycle *)
Handles(e) == /\ e = Head(LifeQueue) /\ LifeQueue # << >> /\ LifeQueue' = Tail(LifeQueue)
              /\ handled' = handled \cup {<<e, evt[e].payload>>}
              /\ UNCHANGED <<created, m_ScheduledEvents, schedule, pc, arg, raises>>
(* Popping an event leaves the queue of EventLifecycle as it is; this      *)
(* changes only where an event is appended or was handled.                 *)
LEMMA LifeQueueStep ==
  ASSUME IndInv, LifeInv, [Next]_vars
  PROVE  /\ \/ UNCHANGED <<LifeQueue, handled>>
            \/ \E t \in Threads : /\ AppendToQueue(t)
                                  /\ LifeQueue' = Append(LifeQueue, arg[t]) /\ handled' = handled
            \/ \E e \in EventIds : HandleEvent /\ Handles(e)
         /\ CurrentOK'
<1>q. m_EventQueue \in Seq(EventIds) /\ current \in EventIds \cup {NoEvent} /\ NoEvent \notin EventIds
  BY DEF IndInv, TypeOK, NoEvent, EventIds
<1>c. CurrentOK
  BY DEF LifeInv
<1>1. ASSUME UNCHANGED <<m_EventQueue, current, ipc, handled>>
      PROVE  UNCHANGED <<LifeQueue, handled>> /\ CurrentOK'
  BY <1>1, <1>c DEF LifeQueue, CurrentOK
<1>2. ASSUME NEW t \in Threads, AppendToQueue(t)
      PROVE  /\ LifeQueue' = Append(LifeQueue, arg[t]) /\ handled' = handled /\ CurrentOK'
  BY <1>2, AppendedLast
<1>3. CASE HandleEvent
  <2>1. current \in EventIds /\ current' = NoEvent /\ UNCHANGED m_EventQueue
    BY <1>3 DEF HandleEvent, IndInv, ArgsOK
  <2>2. LifeQueue = <<current>> \o m_EventQueue /\ LifeQueue' = m_EventQueue
    BY <1>q, <2>1 DEF LifeQueue
  <2>3. current = Head(LifeQueue) /\ LifeQueue # << >> /\ LifeQueue' = Tail(LifeQueue)
    BY <1>q, <2>1, <2>2, QueueFacts
  <2>4. Handles(current)
    BY <1>3, <2>3 DEF HandleEvent, Handles, InterpUnchanged
  <2>5. QED BY <1>3, <2>1, <2>4 DEF CurrentOK
<1>4. ASSUME popEvent, ipc # "handle" PROVE UNCHANGED <<LifeQueue, handled>> /\ CurrentOK'
  <2>1. current = NoEvent /\ current' = Head(m_EventQueue) /\ m_EventQueue' = Tail(m_EventQueue)
        /\ m_EventQueue # << >> /\ handled' = handled /\ ipc' = "handle"
    BY <1>4, <1>c DEF popEvent, CurrentOK
  <2>2. Head(m_EventQueue) \in EventIds /\ <<Head(m_EventQueue)>> \o Tail(m_EventQueue) = m_EventQueue
    BY <1>q, <2>1, QueueFacts
  <2>3. QED BY <1>q, <2>1, <2>2 DEF LifeQueue, CurrentOK
<1>5. CASE Interpreter
  <2>1. HandleEvent \/ (popEvent /\ ipc # "handle") \/
        (UNCHANGED <<m_EventQueue, current, handled>> /\ ipc # "handle")
    BY <1>5 DEF Interpreter, WaitForEventTest, WaitForEventEnter, WaitForEventWake,
       WaitForEventTimeout, WaitForEventResult
  <2>2. ASSUME UNCHANGED <<m_EventQueue, current, handled>>, ipc # "handle"
        PROVE  UNCHANGED <<LifeQueue, handled>> /\ CurrentOK'
    BY <2>2, <1>c DEF LifeQueue, CurrentOK
  <2>3. QED BY <1>3, <1>4, <2>1, <2>2
<1>6. CASE \E p \in Producers : Call(p)
  <2>1. UNCHANGED <<m_EventQueue, current, ipc, handled>>
    BY <1>6 DEF Call, pushEvent, pushTimedEvent, removeEvent, removeEventByName
  <2>2. QED BY <1>1, <2>1
<1>7. ASSUME NEW t \in Threads, Continue(t), ~AppendToQueue(t)
      PROVE  UNCHANGED <<m_EventQueue, current, ipc, handled>>
  BY <1>7 DEF Continue, MergeIntoQueue, SignalQueue, addEvent, RemoveMonitorChild, removeEventInternal
<1>8. CASE RunnerLoop
  <2>1. UNCHANGED <<m_EventQueue, current, ipc, handled>>
    BY <1>8 DEF RunnerLoop, LockEvents, AfterRaise, UnlockEvents, RunnerEnterWait, ScanEvent,
       CleanupEvent, RunnerWake, RunnerTimeout, StopQueue, TerminateInterpreter, JoinInterpreter
  <2>2. QED BY <1>1, <2>1
<1>9. CASE initiateShutdown \/ Tick \/ Stopped \/ UNCHANGED vars
  <2>1. UNCHANGED <<m_EventQueue, current, ipc, handled>>
    BY <1>9 DEF initiateShutdown, Tick, Stopped, vars
  <2>2. QED BY <1>1, <2>1
<1>10. QED BY <1>1, <1>2, <1>5, <1>6, <1>7, <1>8, <1>9 DEF Next

(* The kind of an event's schedule is settled when the event is created;   *)
(* events are created one by one.                                          *)
LEMMA KindStep ==
  ASSUME IndInv, [Next]_vars
  PROVE  /\ \A e \in EventIds : e <= created => schedule'[e].recur = schedule[e].recur
         /\ created' = created \/ \E p \in Producers : \E l, x : Pushes(p, l, x)
<1>t. created \in Nat /\ \A e \in EventIds : e \in Nat
  BY DEF IndInv, TypeOK, EventIds
<1>1. ASSUME NEW p \in Producers, NEW l, NEW x, Pushes(p, l, x)
      PROVE  \A e \in EventIds : e <= created => schedule'[e].recur = schedule[e].recur
  <2>1. \A e \in EventIds : e <= created => e # created + 1
    BY <1>t
  <2>2. QED BY <1>1, <2>1 DEF Pushes
<1>2. CASE \E p \in Producers : Call(p)
  <2>1. (\E p \in Producers : \E l, x : Pushes(p, l, x)) \/ UNCHANGED <<schedule, created>>
    BY <1>2, pushEventPushes DEF Call, removeEvent, removeEventByName
  <2>2. QED BY <1>1, <2>1
<1>3. CASE \E t \in Threads : Continue(t)
  BY <1>3 DEF Continue, MergeIntoQueue, AppendToQueue, SignalQueue, addEvent,
     RemoveMonitorChild, removeEventInternal
<1>4. CASE RunnerLoop
  <2>1. created' = created
    BY <1>4 DEF RunnerLoop, LockEvents, AfterRaise, UnlockEvents, RunnerEnterWait, ScanEvent,
       CleanupEvent, RunnerWake, RunnerTimeout, StopQueue, TerminateInterpreter, JoinInterpreter
  <2>2. (\E e \in EventIds : ScanEvent(e)) \/ AfterRaise \/ UNCHANGED schedule
    BY <1>4 DEF RunnerLoop, LockEvents, UnlockEvents, RunnerEnterWait,
       CleanupEvent, RunnerWake, RunnerTimeout, StopQueue, TerminateInterpreter, JoinInterpreter
  <2>3. QED BY <2>1, <2>2, ScanEventKind, AfterRaiseKind
<1>5. CASE Interpreter
  BY <1>5 DEF Interpreter, WaitForEventTest, WaitForEventEnter, WaitForEventWake,
     WaitForEventTimeout, WaitForEventResult, popEvent, HandleEvent, InterpUnchanged
<1>6. CASE initiateShutdown \/ Tick \/ Stopped \/ UNCHANGED vars
  BY <1>6 DEF initiateShutdown, Tick, Stopped, vars
<1>7. QED BY <1>2, <1>3, <1>4, <1>5, <1>6 DEF Next

(* An event gets into the queue only where one is appended. *)
LEMMA SeenStep ==
  ASSUME IndInv, LifeInv, [Next]_vars, NEW e \in EventIds, ~Seen(e), Seen(e)'
  PROVE  \E t \in Threads : AppendToQueue(t) /\ arg[t] = e
<1>q. LifeQueue \in Seq(EventIds)
  BY LifeQueueType
<1>1. ASSUME UNCHANGED <<LifeQueue, handled>> PROVE FALSE
  BY <1>1 DEF Seen, Handled
<1>2. ASSUME NEW t \in Threads, AppendToQueue(t), LifeQueue' = Append(LifeQueue, arg[t]),
             handled' = handled
      PROVE  arg[t] = e
  <2>1. arg[t] \in EventIds
    BY <1>2 DEF AppendToQueue, IndInv, ArgsOK, Busy
  <2>2. ToSet(LifeQueue') = ToSet(LifeQueue) \cup {arg[t]}
    BY <1>2, <1>q, <2>1, QueueFacts
  <2>3. ToSet(LifeQueue)' = ToSet(LifeQueue')
    BY DEF ToSet
  <2>4. QED BY <1>2, <2>2, <2>3 DEF Seen, Handled
<1>3. ASSUME NEW x \in EventIds, HandleEvent, Handles(x) PROVE FALSE
  <2>1. Len(LifeQueue) \in Nat /\ Len(LifeQueue) >= 1 /\ DOMAIN LifeQueue = 1 .. Len(LifeQueue)
    BY <1>3, <1>q, QueueFacts, EmptySeq DEF Handles
  <2>2. /\ Tail(LifeQueue) \in Seq(EventIds) /\ Len(Tail(LifeQueue)) = Len(LifeQueue) - 1
        /\ \A i \in 1 .. Len(Tail(LifeQueue)) : Tail(LifeQueue)[i] = LifeQueue[i + 1]
        /\ Head(LifeQueue) = LifeQueue[1]
    BY <1>3, <1>q, HeadTailProperties DEF Handles
  <2>3. DOMAIN Tail(LifeQueue) = 1 .. Len(LifeQueue) - 1
    BY <2>2, QueueFacts
  <2>4. \A i \in 1 .. Len(LifeQueue) - 1 : i + 1 \in 1 .. Len(LifeQueue)
    BY <2>1
  <2>5. ToSet(LifeQueue)' \subseteq ToSet(LifeQueue) /\ x \in ToSet(LifeQueue)
    BY <1>3, <2>1, <2>2, <2>3, <2>4 DEF Handles, ToSet
  <2>6. Handled(e)' => Handled(e) \/ e = x
    BY <1>3 DEF Handled, Handles
  <2>7. QED BY <2>5, <2>6 DEF Seen
<1>4. QED BY <1>1, <1>2, <1>3, LifeQueueStep

(* A producer comes to a push with the event it has just created. *)
LEMMA EntryStep ==
  ASSUME IndInv, [Next]_vars, NEW p \in Producers, pc'[p] \in Entry
  PROVE  \/ pc[p] \in Entry /\ arg'[p] = arg[p] /\ created' = created
         \/ pc[p] \in Entry /\ arg'[p] = arg[p] /\ \E q \in Producers : \E l, x : Pushes(q, l, x) /\ q # p
         \/ \E l \in Entry : Pushes(p, l, created + 1)
<1>t. p # Runner /\ p \in Threads /\ pc \in [Threads -> PC] /\ Producers \subseteq Threads
  BY LoopAssumption DEF IndInv, TypeOK, Threads
<1>1. CASE \E q \in Producers : Call(q)
  <2>1. ASSUME NEW q \in Producers, NEW l, NEW x, Pushes(q, l, x)
        PROVE  \/ pc[p] \in Entry /\ arg'[p] = arg[p] /\ q # p
               \/ l \in Entry /\ q = p /\ x = created + 1
    BY <1>t, <2>1 DEF Pushes, IndInv, TypeOK
  <2>2. ASSUME NEW q \in Producers, NEW e \in EventIds, removeEvent(q, e)
        PROVE  pc[p] \in Entry /\ arg'[p] = arg[p] /\ created' = created
    BY <1>t, <2>2 DEF removeEvent, StartRemove, Goto, IndInv, TypeOK
  <2>3. ASSUME NEW q \in Producers, NEW k \in Keys, removeEventByName(q, k)
        PROVE  pc[p] \in Entry /\ arg'[p] = arg[p] /\ created' = created
    BY <2>3 DEF removeEventByName
  <2>4. QED BY <1>1, <2>1, <2>2, <2>3, pushEventPushes DEF Call
<1>2. CASE \E t \in Threads : Continue(t)
  BY <1>2, <1>t DEF Continue, MergeIntoQueue, AppendToQueue, SignalQueue, addEvent,
     RemoveMonitorChild, removeEventInternal, Goto, AfterPush, AfterRemove, propertyRemoved,
     IndInv, TypeOK
<1>3. CASE RunnerLoop
  BY <1>3, <1>t DEF RunnerLoop, LockEvents, AfterRaise, UnlockEvents, RunnerEnterWait, ScanEvent,
     CleanupEvent, RunnerWake, RunnerTimeout, NextTurn, StopQueue, TerminateInterpreter,
     JoinInterpreter, Goto, StartRemove, IndInv, TypeOK
<1>4. CASE Interpreter
  BY <1>4 DEF Interpreter, WaitForEventTest, WaitForEventEnter, WaitForEventWake,
     WaitForEventTimeout, WaitForEventResult, popEvent, HandleEvent, InterpUnchanged
<1>5. CASE initiateShutdown \/ Tick \/ Stopped \/ UNCHANGED vars
  BY <1>5 DEF initiateShutdown, Tick, Stopped, vars
<1>6. QED BY <1>1, <1>2, <1>3, <1>4, <1>5 DEF Next

(* An event object that is new is in no queue. *)
LEMMA NewOKStep ==
  ASSUME IndInv, LifeInv, [Next]_vars
  PROVE  NewOK'
<1>t. created \in Nat /\ created' \in Nat /\ created' >= created /\ \A e \in EventIds : e \in Nat
  <2>1. created \in Nat /\ \A e \in EventIds : e \in Nat
    BY DEF IndInv, TypeOK, EventIds
  <2>2. created' = created \/ created' = created + 1
    BY KindStep DEF Pushes
  <2>3. QED BY <2>1, <2>2
<1>1. ASSUME NEW e \in EventIds, e > created PROVE ~Seen(e) /\ ~Seen(e)'
  <2>1. ~Seen(e) /\ \A t \in Threads : arg[t] # e
    BY <1>1 DEF LifeInv, NewOK, IndInv, FreshOK, Untouched
  <2>2. QED BY <2>1, SeenStep
<1>2. ASSUME NEW e \in EventIds, e > created' PROVE ~Seen(e)'
  BY <1>1, <1>2, <1>t
<1>3. ASSUME NEW p \in Producers, pc'[p] \in Entry
      PROVE  arg'[p] <= created' /\ ~Seen(arg[p])'
  <2>t. p # Runner /\ p \in Threads
    BY LoopAssumption DEF Threads
  <2>1. CASE pc[p] \in Entry /\ arg'[p] = arg[p]
    <3>1. arg[p] \in EventIds /\ arg[p] <= created /\ ~Seen(arg[p]) /\ Untouched(arg[p], {p})
      BY <2>1, <2>t DEF LifeInv, NewOK, IndInv, FreshOK, ArgsOK, Busy
    <3>e. PICK e \in EventIds : e = arg[p]
      BY <3>1
    <3>2. ~\E t \in Threads : AppendToQueue(t) /\ arg[t] = e
      <4>1. \A t \in Threads : t # p => arg[t] # e
        BY <3>1, <3>e DEF Untouched
      <4>2. ~AppendToQueue(p)
        <5>1. AppendToQueue(p) => pc'[p] = "signal"
          BY <2>t DEF AppendToQueue, Goto, IndInv, TypeOK
        <5>2. QED BY <5>1, <1>3
      <4>3. QED BY <4>1, <4>2
    <3>3. ~Seen(e)'
      BY <3>1, <3>2, <3>e, SeenStep
    <3>4. arg[p] <= created'
      BY <1>t, <3>1
    <3>5. QED BY <2>1, <3>3, <3>4, <3>e DEF Seen, Handled
  <2>2. CASE \E l \in Entry : Pushes(p, l, created + 1)
    <3>1. arg'[p] = created + 1 /\ created' = created + 1 /\ created + 1 \in EventIds
      BY <2>2, <2>t, LoopAssumption DEF Pushes, IndInv, TypeOK, EventIds
    <3>2. PICK e \in EventIds : e = created + 1
      BY <3>1
    <3>3. ~Seen(e)'
      BY <1>1, <1>t, <3>2
    <3>4. QED BY <1>t, <3>1, <3>2, <3>3 DEF Seen, Handled
  <2>3. QED BY <1>3, <2>1, <2>2, EntryStep
<1>4. QED BY <1>2, <1>3 DEF NewOK

(* Events are added to m_ScheduledEvents by the producers that have        *)
(* created them; only the pass of the runner raises events.                *)
LEMMA ScheduledStep ==
  ASSUME IndInv, [Next]_vars, NEW e \in EventIds
  PROVE  /\ e \in m_ScheduledEvents' =>
              e \in m_ScheduledEvents \/ \E p \in Producers : addEvent(p) /\ arg[p] = e
         /\ raises[e] \in Nat /\ raises'[e] \in Nat /\ raises'[e] >= raises[e]
<1>t. raises \in [EventIds -> Nat] /\ pc[Runner] # "addEvent"
  BY DEF IndInv, TypeOK, MutexOK
<1>r. ASSUME raises' = raises PROVE raises'[e] \in Nat /\ raises'[e] >= raises[e]
  BY <1>r, <1>t
<1>1. CASE \E p \in Producers : Call(p)
  <2>1. m_ScheduledEvents' \subseteq m_ScheduledEvents /\ raises' = raises
    BY <1>1 DEF Call, pushEvent, pushTimedEvent, removeEvent, removeEventByName
  <2>2. QED BY <1>t, <1>r, <2>1
<1>2. CASE \E t \in Threads : Continue(t)
  <2>1. raises' = raises
    BY <1>2 DEF Continue, MergeIntoQueue, AppendToQueue, SignalQueue, addEvent,
       RemoveMonitorChild, removeEventInternal
  <2>2. e \in m_ScheduledEvents' =>
          e \in m_ScheduledEvents \/ \E p \in Producers : addEvent(p) /\ arg[p] = e
    BY <1>2, <1>t DEF Continue, MergeIntoQueue, AppendToQueue, SignalQueue, addEvent,
       RemoveMonitorChild, removeEventInternal, Threads
  <2>3. QED BY <1>t, <1>r, <2>1, <2>2
<1>3. CASE RunnerLoop
  <2>1. m_ScheduledEvents' = m_ScheduledEvents
    BY <1>3 DEF RunnerLoop, LockEvents, AfterRaise, UnlockEvents, RunnerEnterWait, ScanEvent,
       CleanupEvent, RunnerWake, RunnerTimeout, StopQueue, TerminateInterpreter, JoinInterpreter
  <2>2. raises' = raises \/ \E x \in EventIds : raises' = [raises EXCEPT ![x] = @ + 1]
    BY <1>3 DEF RunnerLoop, LockEvents, AfterRaise, UnlockEvents, RunnerEnterWait, ScanEvent,
       CleanupEvent, RunnerWake, RunnerTimeout, StopQueue, TerminateInterpreter, JoinInterpreter
  <2>3. raises'[e] = raises[e] \/ raises'[e] = raises[e] + 1
    BY <1>t, <2>2
  <2>4. QED BY <1>t, <2>1, <2>3
<1>4. CASE Interpreter
  <2>1. m_ScheduledEvents' = m_ScheduledEvents /\ raises' = raises
    BY <1>4 DEF Interpreter, WaitForEventTest, WaitForEventEnter, WaitForEventWake,
       WaitForEventTimeout, WaitForEventResult, popEvent, HandleEvent, InterpUnchanged
  <2>2. QED BY <1>t, <1>r, <2>1
<1>5. CASE initiateShutdown \/ Tick \/ Stopped \/ UNCHANGED vars
  <2>1. m_ScheduledEvents' = m_ScheduledEvents /\ raises' = raises
    BY <1>5 DEF initiateShutdown, Tick, Stopped, vars
  <2>2. QED BY <1>t, <1>r, <2>1
<1>6. QED BY <1>1, <1>2, <1>3, <1>4, <1>5 DEF Next

(* The runner comes to a push from its pass, with an event it has just     *)
(* raised.                                                                 *)
LEMMA RunnerPushStep ==
  ASSUME IndInv, [Next]_vars, pc'[Runner] \in {"merge", "append"}
  PROVE  \/ pc[Runner] \in {"merge", "append"} /\ arg'[Runner] = arg[Runner]
         \/ \E e \in EventIds : /\ ScanEvent(e) /\ arg'[Runner] = e /\ e \in unscanned
                                /\ raises'[e] = raises[e] + 1
<1>t. /\ Runner \in Threads /\ Runner \notin Producers /\ pc \in [Threads -> PC]
      /\ arg \in [Threads -> EventIds \cup {NoEvent}] /\ raises \in [EventIds -> Nat]
      /\ Producers \subseteq Threads
  BY LoopAssumption DEF IndInv, TypeOK, Threads
<1>1. CASE \E p \in Producers : Call(p)
  BY <1>1, <1>t DEF Call, pushEvent, pushTimedEvent, removeEvent, removeEventByName, Goto, StartRemove
<1>2. CASE \E t \in Threads : Continue(t)
  BY <1>2, <1>t DEF Continue, MergeIntoQueue, AppendToQueue, SignalQueue, addEvent,
     RemoveMonitorChild, removeEventInternal, Goto, AfterPush, AfterRemove, propertyRemoved
<1>3. CASE RunnerLoop
  <2>1. ASSUME NEW e \in EventIds, ScanEvent(e)
        PROVE  /\ e \in unscanned /\ pc[Runner] = "scan"
               /\ UNCHANGED <<pc, arg>> \/ (arg'[Runner] = e /\ raises'[e] = raises[e] + 1)
    BY <2>1, <1>t DEF ScanEvent, RunnerAt, Goto
  <2>2. CASE ~\E e \in EventIds : ScanEvent(e)
    <3>1. pc'[Runner] \notin {"merge", "append"}
      BY <1>3, <2>2, <1>t DEF RunnerLoop, LockEvents, AfterRaise, UnlockEvents, RunnerEnterWait,
         CleanupEvent, RunnerWake, RunnerTimeout, NextTurn, StopQueue, TerminateInterpreter,
         JoinInterpreter, Goto, StartRemove
    <3>2. QED BY <3>1
  <2>3. QED BY <2>1, <2>2
<1>4. CASE Interpreter
  BY <1>4 DEF Interpreter, WaitForEventTest, WaitForEventEnter, WaitForEventWake,
     WaitForEventTimeout, WaitForEventResult, popEvent, HandleEvent, InterpUnchanged
<1>5. CASE initiateShutdown \/ Tick \/ Stopped \/ UNCHANGED vars
  BY <1>5 DEF initiateShutdown, Tick, Stopped, vars
<1>6. QED BY <1>1, <1>2, <1>3, <1>4, <1>5 DEF Next

(* A one-shot event that is appended was in no queue before. *)
LEMMA AppendIsFirst ==
  ASSUME IndInv, LifeInv, NEW t \in Threads, AppendToQueue(t)
  PROVE  /\ arg[t] \in EventIds /\ arg[t] <= created
         /\ OneShot(arg[t]) => ~Seen(arg[t])
         /\ t \in Producers => arg[t] \notin m_ScheduledEvents /\ arg[t] # arg[Runner]
         /\ t = Runner => raises[arg[t]] > 0
<1>1. arg[t] \in EventIds /\ pc[t] = "append" /\ Runner \in Threads /\ Runner \notin Producers
      /\ created \in Nat /\ (arg[t] \in Nat)
  BY LoopAssumption DEF AppendToQueue, IndInv, ArgsOK, Busy, Threads, TypeOK, EventIds
<1>2. arg[t] <= created
  BY <1>1 DEF IndInv, FreshOK, Untouched
<1>3. CASE t \in Producers
  BY <1>1, <1>2, <1>3 DEF LifeInv, NewOK, IndInv, FreshOK, Untouched
<1>4. CASE t = Runner
  BY <1>1, <1>2, <1>4 DEF LifeInv, RaiseOK
<1>5. QED BY <1>3, <1>4 DEF Threads

(* A scheduled one-shot event was not in the queue before it is raised, and *)
(* not before the pass that has raised it appends it.                       *)
LEMMA RaiseOKStep ==
  ASSUME IndInv, LifeInv, [Next]_vars
  PROVE  RaiseOK'
<1>t. /\ created \in Nat /\ \A e \in EventIds : e \in Nat
      /\ m_ScheduledEvents \subseteq EventIds /\ unscanned \subseteq m_ScheduledEvents
      /\ Runner \in Threads
  BY DEF IndInv, TypeOK, EventIds, PassOK, Threads
<1>k. \A e \in m_ScheduledEvents : e \in EventIds /\ e <= created
  BY <1>t DEF IndInv, FreshOK, Untouched
<1>1. ASSUME NEW e \in m_ScheduledEvents', OneShot(e)', raises'[e] = 0
      PROVE  ~Seen(e)'
  <2>0. e \in EventIds
    BY NextIndInv DEF IndInv, TypeOK
  <2>1. raises[e] = 0
    BY <1>1, <2>0, ScheduledStep
  <2>2. CASE e \in m_ScheduledEvents
    <3>1. OneShot(e)
      BY <1>1, <1>k, <2>2, KindStep DEF OneShot
    <3>2. ~Seen(e)
      BY <2>1, <2>2, <3>1 DEF LifeInv, RaiseOK
    <3>3. ASSUME NEW t \in Threads, AppendToQueue(t), arg[t] = e PROVE FALSE
      BY <2>1, <2>2, <3>3, AppendIsFirst DEF Threads
    <3>4. QED BY <2>0, <3>2, <3>3, SeenStep
  <2>3. ASSUME NEW p \in Producers, addEvent(p), arg[p] = e PROVE ~Seen(e)'
    <3>1. ~Seen(e)
      BY <2>3 DEF LifeInv, NewOK, addEvent
    <3>2. UNCHANGED <<m_EventQueue, current, handled>>
      BY <2>3 DEF addEvent
    <3>3. QED BY <3>1, <3>2 DEF Seen, Handled, LifeQueue
  <2>4. QED BY <1>1, <2>0, <2>2, <2>3, ScheduledStep
<1>2. ASSUME pc'[Runner] \in {"merge", "append"}
      PROVE  raises'[arg'[Runner]] > 0 /\ (OneShot(arg[Runner])' => ~Seen(arg[Runner])')
  <2>1. ASSUME pc[Runner] \in {"merge", "append"}, arg'[Runner] = arg[Runner]
        PROVE  raises'[arg'[Runner]] > 0 /\ (OneShot(arg[Runner])' => ~Seen(arg[Runner])')
    <3>1. PICK e \in EventIds : e = arg[Runner]
      BY <2>1, <1>t DEF IndInv, ArgsOK, Busy
    <3>2. e <= created /\ raises[e] > 0 /\ (OneShot(e) => ~Seen(e))
      BY <1>t, <2>1, <3>1 DEF LifeInv, RaiseOK, IndInv, FreshOK, Untouched
    <3>3. raises'[e] > 0
      BY <3>2, ScheduledStep
    <3>4. ASSUME NEW t \in Threads, AppendToQueue(t), arg[t] = e PROVE FALSE
      <4>1. t = Runner
        BY <3>1, <3>4, AppendIsFirst DEF Threads
      <4>2. pc'[Runner] = "signal"
        BY <1>t, <3>4, <4>1 DEF AppendToQueue, Goto, IndInv, TypeOK
      <4>3. QED BY <1>2, <4>2
    <3>5. OneShot(e)' => ~Seen(e)'
      BY <3>2, <3>4, SeenStep, KindStep DEF OneShot
    <3>6. QED BY <2>1, <3>1, <3>3, <3>5 DEF OneShot, Seen, Handled
  <2>2. ASSUME NEW e \in EventIds, ScanEvent(e), arg'[Runner] = e, e \in unscanned,
               raises'[e] = raises[e] + 1
        PROVE  raises'[arg'[Runner]] > 0 /\ (OneShot(arg[Runner])' => ~Seen(arg[Runner])')
    <3>1. raises[e] \in Nat
      BY ScheduledStep
    <3>2. OneShot(e) => raises[e] = 0
      BY <1>t, <2>2, <3>1 DEF IndInv, PendingOK, OneShot
    <3>3. OneShot(e) => ~Seen(e)
      BY <1>t, <2>2, <3>2 DEF LifeInv, RaiseOK
    <3>4. UNCHANGED <<m_EventQueue, current, handled>>
      BY <2>2 DEF ScanEvent
    <3>5. OneShot(e)' => OneShot(e)
      BY <1>k, <1>t, <2>2, KindStep DEF OneShot
    <3>6. OneShot(e)' => ~Seen(e)'
      BY <3>3, <3>4, <3>5 DEF Seen, Handled, LifeQueue
    <3>7. QED BY <2>2, <3>1, <3>6 DEF OneShot, Seen, Handled
  <2>3. QED BY <1>2, <2>1, <2>2, RunnerPushStep
<1>3. QED BY <1>1, <1>2 DEF RaiseOK

(* A one-shot event is in the queue once. *)
LEMMA OnceOKStep ==
  ASSUME IndInv, LifeInv, [Next]_vars
  PROVE  OnceOK'
<1> DEFINE Q == LifeQueue
<1>q. Q \in Seq(EventIds) /\ Len(Q) \in Nat /\ DOMAIN Q = 1 .. Len(Q)
      /\ \A i \in DOMAIN Q : Q[i] \in EventIds
  BY LifeQueueType, QueueFacts, ElementOfSeq
<1>o. \A i, j \in DOMAIN Q : Q[i] = Q[j] /\ OneShot(Q[i]) => i = j
  BY DEF LifeInv, OnceOK
<1>k. \A e \in EventIds : e \in ToSet(Q) \/ e <= created => (OneShot(e)' <=> OneShot(e))
  <2>1. \A e \in EventIds : e \in ToSet(Q) => e <= created
    <3>1. created \in Nat /\ \A e \in EventIds : e \in Nat
      BY DEF IndInv, TypeOK, EventIds
    <3>2. QED BY <3>1 DEF LifeInv, NewOK, Seen
  <2>2. QED BY <2>1, KindStep DEF OneShot
<1>d. \A i \in DOMAIN Q : Q[i] \in ToSet(Q)
  BY DEF ToSet
<1> HIDE DEF Q
<1>1. ASSUME Q' = Q PROVE \A i, j \in DOMAIN Q' : Q'[i] = Q'[j] /\ OneShot(Q[i])' => i = j
  BY <1>1, <1>q, <1>o, <1>k, <1>d DEF OneShot
<1>2. ASSUME NEW t \in Threads, AppendToQueue(t), Q' = Append(Q, arg[t])
      PROVE  \A i, j \in DOMAIN Q' : Q'[i] = Q'[j] /\ OneShot(Q[i])' => i = j
  <2>1. PICK e \in EventIds : e = arg[t]
    BY <1>2, AppendIsFirst
  <2>2. e <= created /\ (OneShot(e) => e \notin ToSet(Q))
    BY <1>2, <2>1, AppendIsFirst DEF Seen, Q
  <2>3. /\ DOMAIN Q' = 1 .. Len(Q) + 1 /\ Q'[Len(Q) + 1] = e
        /\ \A i \in 1 .. Len(Q) : Q'[i] = Q[i]
    BY <1>q, <1>2, <2>1, AppendProperties, LenProperties
  <2>4. \A i \in 1 .. Len(Q) + 1 : i \in 1 .. Len(Q) \/ i = Len(Q) + 1
    BY <1>q
  <2>5. SUFFICES ASSUME NEW i \in 1 .. Len(Q) + 1, NEW j \in 1 .. Len(Q) + 1,
                        Q'[i] = Q'[j], OneShot(Q[i])'
                 PROVE  i = j
    BY <2>3
  <2>6. CASE i \in 1 .. Len(Q) /\ j \in 1 .. Len(Q)
    <3>1. OneShot(Q[i])
      BY <1>q, <1>d, <1>k, <2>3, <2>5, <2>6 DEF OneShot
    <3>2. QED BY <1>q, <1>o, <2>3, <2>5, <2>6, <3>1
  <2>7. CASE i = Len(Q) + 1 \/ j = Len(Q) + 1
    <3>1. Q'[i] = e
      BY <2>3, <2>5, <2>7
    <3>2. e \notin ToSet(Q)
      BY <1>k, <2>2, <2>5, <3>1 DEF OneShot
    <3>3. i \notin 1 .. Len(Q) /\ j \notin 1 .. Len(Q)
      BY <1>q, <1>d, <2>3, <2>5, <3>1, <3>2
    <3>4. QED BY <2>4, <3>3
  <2>8. QED BY <2>4, <2>6, <2>7
<1>3. ASSUME Q # << >>, Q' = Tail(Q)
      PROVE  \A i, j \in DOMAIN Q' : Q'[i] = Q'[j] /\ OneShot(Q[i])' => i = j
  <2>1. /\ Len(Q) >= 1 /\ DOMAIN Q' = 1 .. Len(Q) - 1
        /\ \A i \in 1 .. Len(Q) - 1 : Q'[i] = Q[i + 1]
    BY <1>q, <1>3, HeadTailProperties, LenProperties, EmptySeq
  <2>2. SUFFICES ASSUME NEW i \in 1 .. Len(Q) - 1, NEW j \in 1 .. Len(Q) - 1,
                        Q'[i] = Q'[j], OneShot(Q[i])'
                 PROVE  i = j
    BY <2>1
  <2>3. i + 1 \in DOMAIN Q /\ j + 1 \in DOMAIN Q
    BY <1>q
  <2>4. Q[i + 1] = Q[j + 1] /\ Q'[i] = Q[i + 1]
    BY <2>1, <2>2
  <2>5. OneShot(Q[i + 1])
    BY <1>q, <1>d, <1>k, <2>2, <2>3, <2>4 DEF OneShot
  <2>6. i + 1 = j + 1
    BY <1>o, <2>3, <2>4, <2>5
  <2>7. QED BY <1>q, <2>6
<1>4. QED BY <1>1, <1>2, <1>3, LifeQueueStep DEF OnceOK, Q, Handles

(* LifeInv holds in the beginning and is kept by every step. *)
LEMMA LifeInvariant ==
  /\ Init => LifeInv
  /\ IndInv /\ LifeInv /\ [Next]_vars => LifeInv'
<1>1. Init => LifeInv
  <2> SUFFICES ASSUME Init PROVE LifeInv
    OBVIOUS
  <2>1. LifeQueue = << >> /\ handled = {} /\ current = NoEvent
    BY DEF Init, LifeQueue
  <2>2. ToSet(LifeQueue) = {} /\ DOMAIN LifeQueue = {}
    BY <2>1 DEF ToSet
  <2>3. \A e : ~Seen(e)
    BY <2>1, <2>2 DEF Seen, Handled
  <2>4. \A p \in Producers : pc[p] = "idle"
    BY LoopAssumption DEF Init, Threads
  <2>5. pc[Runner] = "lock" /\ m_ScheduledEvents = {}
    BY DEF Init, Threads
  <2>6. QED BY <2>1, <2>2, <2>3, <2>4, <2>5 DEF LifeInv, CurrentOK, NewOK, RaiseOK, OnceOK
<1>2. IndInv /\ LifeInv /\ [Next]_vars => LifeInv'
  BY LifeQueueStep, NewOKStep, RaiseOKStep, OnceOKStep DEF LifeInv
<1>3. QED BY <1>1, <1>2

(* the steps of EventLifecycle, in terms of the life of each event *)
LifeMap == [e \in EventIds |-> LifeOf(e)]
LifeNext == [Lifecycle!Next]_<<LifeMap, LifeQueue>>
Moves(a, b) ==
  \/ a = b
  \/ a = "new" /\ b \in {"recurring", "scheduled"}
  \/ a \in {"new", "scheduled"} /\ b = "gone"

(* Only one event changes, and the queue does not. *)
LEMMA LifeMoves ==
  ASSUME NEW e \in EventIds, UNCHANGED LifeQueue,
         \A x \in EventIds \ {e} : LifeMap'[x] = LifeMap[x], Moves(LifeMap[e], LifeMap'[e])
  PROVE  LifeNext
<1>1. LifeMap' = [LifeMap EXCEPT ![e] = LifeMap'[e]]
  BY DEF LifeMap
<1>2. CASE LifeMap'[e] = LifeMap[e]
  <2>1. LifeMap' = LifeMap
    BY <1>2 DEF LifeMap
  <2>2. QED BY <2>1 DEF LifeNext
<1>3. CASE LifeMap[e] = "new" /\ LifeMap'[e] = "recurring"
  <2>1. Lifecycle!Recur(e)
    BY <1>1, <1>3 DEF Lifecycle!Recur, Lifecycle!Becomes, LifeMap
  <2>2. QED BY <2>1 DEF LifeNext, Lifecycle!Next
<1>4. CASE LifeMap[e] = "new" /\ LifeMap'[e] = "scheduled"
  <2>1. Lifecycle!Schedule(e)
    BY <1>1, <1>4 DEF Lifecycle!Schedule, Lifecycle!Becomes, LifeMap
  <2>2. QED BY <2>1 DEF LifeNext, Lifecycle!Next
<1>5. CASE LifeMap[e] \in {"new", "scheduled"} /\ LifeMap'[e] = "gone"
  <2>1. LifeMap' = [x \in EventIds |-> IF x \in {e} THEN "gone" ELSE LifeMap[x]]
    BY <1>1, <1>5 DEF LifeMap
  <2>2. Lifecycle!GiveUp({e})
    BY <1>5, <2>1 DEF Lifecycle!GiveUp, LifeMap
  <2>3. QED BY <2>2 DEF LifeNext, Lifecycle!Next
<1>6. QED BY <1>2, <1>3, <1>4, <1>5 DEF Moves

(* A scheduled event or several are removed. *)
LEMMA LifeGivenUp ==
  ASSUME UNCHANGED LifeQueue,
         \A x \in EventIds : \/ LifeMap'[x] = LifeMap[x]
                             \/ LifeMap[x] = "scheduled" /\ LifeMap'[x] = "gone"
  PROVE  LifeNext
<1> DEFINE E == {x \in EventIds : LifeMap[x] = "scheduled" /\ LifeMap'[x] = "gone"}
<1>1. LifeMap' = [x \in EventIds |-> IF x \in E THEN "gone" ELSE LifeMap[x]]
  BY DEF LifeMap
<1>2. CASE E = {}
  <2>1. LifeMap' = LifeMap
    BY <1>1, <1>2 DEF LifeMap
  <2>2. QED BY <2>1 DEF LifeNext
<1>3. CASE E # {}
  <2>1. \A x \in E : LifeMap[x] \in {"new", "scheduled"}
    OBVIOUS
  <2>2. E \subseteq EventIds
    OBVIOUS
  <2> HIDE DEF E
  <2>3. Lifecycle!GiveUp(E)
    BY <1>1, <1>3, <2>1, <2>2 DEF Lifecycle!GiveUp, LifeMap
  <2>4. QED BY <2>2, <2>3 DEF LifeNext, Lifecycle!Next
<1>4. QED BY <1>2, <1>3

(* An event is appended to the queue. *)
LEMMA LifeQueued ==
  ASSUME NEW e \in EventIds, LifeQueue' = Append(LifeQueue, e),
         \A x \in EventIds \ {e} : LifeMap'[x] = LifeMap[x],
         \/ LifeMap[e] \in {"new", "scheduled"} /\ LifeMap'[e] = "queued"
         \/ LifeMap[e] = "recurring" /\ LifeMap'[e] = "recurring"
  PROVE  LifeNext
<1>1. LifeMap' = [LifeMap EXCEPT ![e] = LifeMap'[e]]
  BY DEF LifeMap
<1>2. LifeMap'[e] = IF LifeMap[e] = "recurring" THEN "recurring" ELSE "queued"
  OBVIOUS
<1>3. Lifecycle!Enqueue(e)
  BY <1>1, <1>2 DEF Lifecycle!Enqueue, Lifecycle!Advances, Lifecycle!Becomes, LifeMap
<1>4. QED BY <1>3 DEF LifeNext, Lifecycle!Next

(* The first event of the queue was handled. *)
LEMMA LifeHandled ==
  ASSUME NEW e \in EventIds, LifeQueue # << >>, e = Head(LifeQueue), LifeQueue' = Tail(LifeQueue),
         \A x \in EventIds \ {e} : LifeMap'[x] = LifeMap[x],
         LifeMap'[e] = IF LifeMap[e] = "recurring" THEN "recurring" ELSE "handled"
  PROVE  LifeNext
<1>1. LifeMap' = [LifeMap EXCEPT ![e] = LifeMap'[e]]
  BY DEF LifeMap
<1>2. Lifecycle!Handle
  BY <1>1 DEF Lifecycle!Handle, Lifecycle!Advances, Lifecycle!Becomes, LifeMap
<1>3. QED BY <1>2 DEF LifeNext, Lifecycle!Next

(* What the life of an event depends on. *)
LEMMA LifeSame ==
  ASSUME NEW e \in EventIds, e > created' <=> e > created,
         ~(e > created) => schedule'[e].recur = schedule[e].recur,
         Entering(e)' <=> Entering(e), (e \in ToSet(LifeQueue))' <=> e \in ToSet(LifeQueue),
         Handled(e)' <=> Handled(e), e \in m_ScheduledEvents' <=> e \in m_ScheduledEvents
  PROVE  LifeMap'[e] = LifeMap[e]
<1>1. LifeOf(e)' = LifeOf(e)
  <2>1. Handled(e) <=> \E h \in handled : h[1] = e
    BY DEF Handled
  <2>2. Handled(e)' <=> \E h \in handled' : h[1] = e
    BY DEF Handled
  <2> HIDE DEF Entering, Handled
  <2>3. QED BY <2>1, <2>2 DEF LifeOf
<1>2. QED BY <1>1 DEF LifeMap

(* the producers that are about to push or add an event, those in T excepted *)
EntrySame(T) ==
  \A p \in Producers \ T : /\ pc'[p] \in Entry <=> pc[p] \in Entry
                           /\ pc[p] \in Entry => arg'[p] = arg[p]

(* A producer that is not about to push an event does not tell of it. *)
LEMMA EnteringSame ==
  ASSUME NEW e, NEW T, EntrySame(T),
         \A p \in Producers \cap T : /\ pc[p] \in Entry => arg[p] # e
                                     /\ pc'[p] \in Entry => arg'[p] # e
  PROVE  Entering(e)' <=> Entering(e)
BY DEF EntrySame, Entering

(* Steps that only remove scheduled events, or none. *)
LEMMA LifeRemoves ==
  ASSUME IndInv, LifeInv, [Next]_vars, UNCHANGED <<created, LifeQueue, handled>>, EntrySame({}),
         m_ScheduledEvents' \subseteq m_ScheduledEvents
  PROVE  LifeNext
<1>1. ASSUME NEW x \in EventIds
      PROVE  \/ LifeMap'[x] = LifeMap[x]
             \/ LifeMap[x] = "scheduled" /\ LifeMap'[x] = "gone"
  <2>t. x \in Nat /\ created \in Nat
    BY DEF IndInv, TypeOK, EventIds
  <2>1. Entering(x)' <=> Entering(x)
    BY EnteringSame
  <2>2. (x \in ToSet(LifeQueue))' <=> x \in ToSet(LifeQueue)
    BY DEF ToSet
  <2>3. Handled(x)' <=> Handled(x)
    BY DEF Handled
  <2>4. ~(x > created) => schedule'[x].recur = schedule[x].recur
    BY <2>t, KindStep
  <2>5. CASE x \in m_ScheduledEvents' <=> x \in m_ScheduledEvents
    BY <2>1, <2>2, <2>3, <2>4, <2>5, LifeSame
  <2>6. CASE x \in m_ScheduledEvents /\ x \notin m_ScheduledEvents'
    <3>1. ~(x > created) /\ ~Entering(x)
      BY <2>6 DEF IndInv, FreshOK, Untouched, Entering
    <3>2. LifeOf(x)' = LifeOf(x) \/ (LifeOf(x) = "scheduled" /\ LifeOf(x)' = "gone")
      <4>1. /\ ~(x > created') /\ ~Entering(x)' /\ schedule'[x].recur = schedule[x].recur
            /\ (x \in ToSet(LifeQueue))' <=> x \in ToSet(LifeQueue)
            /\ (\E h \in handled' : h[1] = x) <=> \E h \in handled : h[1] = x
        BY <2>1, <2>2, <2>3, <2>4, <3>1 DEF Handled
      <4>2. LifeOf(x) = IF schedule[x].recur THEN "recurring"
                        ELSE IF x \in ToSet(LifeQueue) THEN "queued"
                        ELSE IF \E h \in handled : h[1] = x THEN "handled" ELSE "scheduled"
        BY <2>6, <3>1 DEF LifeOf
      <4>3. LifeOf(x)' = IF schedule[x].recur THEN "recurring"
                         ELSE IF x \in ToSet(LifeQueue) THEN "queued"
                         ELSE IF \E h \in handled : h[1] = x THEN "handled" ELSE "gone"
        BY <2>6, <4>1 DEF LifeOf
      <4>4. QED BY <4>2, <4>3
    <3>3. QED BY <3>2 DEF LifeMap
  <2>7. QED BY <2>5, <2>6
<1>2. QED BY <1>1, LifeGivenUp

(* A producer hands its event over, to the list of scheduled events or to  *)
(* an event that replaces it.                                              *)
LEMMA LifeHandsOver ==
  ASSUME IndInv, LifeInv, [Next]_vars, NEW p \in Producers, pc[p] \in Entry, pc'[p] \notin Entry,
         UNCHANGED <<created, LifeQueue, handled>>, EntrySame({p}),
         m_ScheduledEvents' \in {m_ScheduledEvents, m_ScheduledEvents \cup {arg[p]}}
  PROVE  LifeNext
<1>1. PICK e \in EventIds : e = arg[p]
  BY DEF IndInv, ArgsOK, Busy, Threads
<1>t. p \in Threads /\ created \in Nat /\ (\A x \in EventIds : x \in Nat)
  BY DEF IndInv, TypeOK, EventIds, Threads
<1>k. \A x \in EventIds : ~(x > created) => schedule'[x].recur = schedule[x].recur
  BY <1>t, KindStep
<1>2. ASSUME NEW x \in EventIds \ {e} PROVE LifeMap'[x] = LifeMap[x]
  <2>1. Entering(x)' <=> Entering(x)
    BY <1>1, EnteringSame
  <2>2. (x \in ToSet(LifeQueue))' <=> x \in ToSet(LifeQueue)
    BY DEF ToSet
  <2>3. Handled(x)' <=> Handled(x)
    BY DEF Handled
  <2>4. x \in m_ScheduledEvents' <=> x \in m_ScheduledEvents
    BY <1>1
  <2>5. QED BY <1>k, <2>1, <2>2, <2>3, <2>4, LifeSame
<1>3. e <= created /\ ~(e > created) /\ ~Seen(e) /\ Untouched(e, {p})
  BY <1>1, <1>t DEF LifeInv, NewOK, IndInv, FreshOK
<1>4. Entering(e)
  BY <1>1 DEF Entering
<1>5. ~Entering(e)'
  <2>1. \A q \in Producers : q # p /\ pc'[q] \in Entry => arg'[q] # e
    BY <1>3 DEF EntrySame, Untouched, Threads
  <2>2. QED BY <2>1 DEF Entering
<1>6. ~Seen(e)'
  BY <1>3 DEF Seen, Handled, ToSet
<1>7. Moves(LifeOf(e), LifeOf(e)')
  <2> HIDE DEF Entering
  <2>1. /\ e \notin ToSet(LifeQueue)' /\ ~(\E h \in handled' : h[1] = e)
        /\ ~(e > created') /\ schedule'[e].recur = schedule[e].recur
    BY <1>3, <1>6, <1>k DEF Seen, Handled
  <2>2. LifeOf(e) = IF schedule[e].recur THEN "recurring" ELSE "new"
    BY <1>3, <1>4 DEF LifeOf
  <2>3. LifeOf(e)' = IF schedule[e].recur THEN "recurring"
                     ELSE IF e \in m_ScheduledEvents' THEN "scheduled" ELSE "gone"
    BY <1>5, <2>1 DEF LifeOf
  <2>4. QED BY <2>2, <2>3 DEF Moves
<1>8. QED BY <1>2, <1>7, LifeMoves DEF LifeMap

(* An event is created. *)
LEMMA LifePushes ==
  ASSUME IndInv, LifeInv, [Next]_vars, NEW p \in Producers, NEW l, NEW y, Pushes(p, l, y)
  PROVE  LifeNext
<1>t. /\ p \in Threads /\ created \in Nat /\ (\A x \in EventIds : x \in Nat) /\ MaxEvents \in Nat
      /\ pc \in [Threads -> PC] /\ arg \in [Threads -> EventIds \cup {NoEvent}]
  BY LoopAssumption DEF IndInv, TypeOK, EventIds, Threads
<1>1. PICK e \in EventIds : e = created + 1
  BY <1>t DEF Pushes, EventIds
<1>2. /\ created' = created + 1 /\ pc[p] = "idle"
      /\ UNCHANGED <<m_EventQueue, current, handled, m_ScheduledEvents>>
  BY DEF Pushes
<1>3. UNCHANGED LifeQueue
  BY <1>2 DEF LifeQueue
<1>4. EntrySame({p}) /\ pc[p] \notin Entry /\ (pc'[p] \in Entry => arg'[p] = e)
  BY <1>t, <1>1 DEF Pushes, EntrySame
<1>5. ASSUME NEW x \in EventIds \ {e} PROVE LifeMap'[x] = LifeMap[x]
  <2>1. Entering(x)' <=> Entering(x)
    BY <1>4, EnteringSame
  <2>2. (x \in ToSet(LifeQueue))' <=> x \in ToSet(LifeQueue)
    BY <1>3 DEF ToSet
  <2>3. Handled(x)' <=> Handled(x)
    BY <1>2 DEF Handled
  <2>4. x > created' <=> x > created
    BY <1>1, <1>2, <1>t
  <2>5. ~(x > created) => schedule'[x].recur = schedule[x].recur
    BY <1>t, KindStep
  <2>6. QED BY <1>2, <2>1, <2>2, <2>3, <2>4, <2>5, LifeSame
<1>6. e > created /\ ~(e > created')
  BY <1>1, <1>2, <1>t
<1>7. ~Seen(e) /\ Untouched(e, {})
  BY <1>6 DEF LifeInv, NewOK, IndInv, FreshOK
<1>8. ~Seen(e)'
  BY <1>2, <1>3, <1>7 DEF Seen, Handled, ToSet
<1>9. LifeOf(e) = "new" /\ LifeOf(e)' \in {"new", "recurring", "gone"}
  <2>1. e \notin ToSet(LifeQueue)' /\ ~(\E h \in handled' : h[1] = e) /\ e \notin m_ScheduledEvents'
    BY <1>2, <1>7, <1>8 DEF Seen, Handled, Untouched
  <2>2. LifeOf(e) = "new"
    BY <1>6 DEF LifeOf
  <2>3. LifeOf(e)' \in {"new", "recurring", "gone"}
    BY <1>6, <2>1 DEF LifeOf
  <2>4. QED BY <2>2, <2>3
<1>10. Moves(LifeOf(e), LifeOf(e)')
  BY <1>9 DEF Moves
<1>11. QED BY <1>3, <1>5, <1>10, LifeMoves DEF LifeMap

(* An event is appended: by the producer that has created it, or by the    *)
(* pass that has raised it.                                                *)
LEMMA LifeAppends ==
  ASSUME IndInv, LifeInv, [Next]_vars, NEW t \in Threads, AppendToQueue(t),
         LifeQueue' = Append(LifeQueue, arg[t]), handled' = handled
  PROVE  LifeNext
<1>t. /\ created \in Nat /\ (\A x \in EventIds : x \in Nat) /\ Producers \subseteq Threads
      /\ Runner \notin Producers /\ pc \in [Threads -> PC]
      /\ arg \in [Threads -> EventIds \cup {NoEvent}] /\ LifeQueue \in Seq(EventIds)
  <2>1. created \in Nat /\ (\A x \in EventIds : x \in Nat)
    BY DEF IndInv, TypeOK, EventIds
  <2>2. Producers \subseteq Threads /\ Runner \notin Producers
    BY LoopAssumption DEF Threads
  <2>3. pc \in [Threads -> PC] /\ arg \in [Threads -> EventIds \cup {NoEvent}]
    BY DEF IndInv, TypeOK
  <2>4. QED BY <2>1, <2>2, <2>3, LifeQueueType
<1>1. PICK e \in EventIds : e = arg[t]
  BY AppendIsFirst
<1>2. e <= created /\ ~(e > created) /\ (OneShot(e) => ~Seen(e))
  BY <1>1, <1>t, AppendIsFirst
<1>3. UNCHANGED <<created, m_ScheduledEvents, schedule>> /\ pc[t] = "append"
  BY DEF AppendToQueue
<1>4. EntrySame({t}) /\ pc'[t] = "signal" /\ arg'[t] = arg[t]
  BY <1>t DEF AppendToQueue, Goto, EntrySame
<1>5. ToSet(LifeQueue)' = ToSet(LifeQueue) \cup {e}
  <2>1. ToSet(Append(LifeQueue, e)) = ToSet(LifeQueue) \cup {e}
    BY <1>t, QueueFacts
  <2>2. QED BY <1>1, <2>1 DEF ToSet
<1>6. ASSUME NEW x \in EventIds \ {e} PROVE LifeMap'[x] = LifeMap[x]
  <2>1. Entering(x)' <=> Entering(x)
    BY <1>1, <1>4, EnteringSame
  <2>2. Handled(x)' <=> Handled(x)
    BY DEF Handled
  <2>3. QED BY <1>3, <1>5, <2>1, <2>2, LifeSame
<1>7. CASE schedule[e].recur
  <2>1. LifeOf(e) = "recurring" /\ LifeOf(e)' = "recurring"
    BY <1>2, <1>3, <1>7 DEF LifeOf
  <2>2. QED BY <1>1, <1>6, <2>1, LifeQueued DEF LifeMap
<1>8. CASE ~schedule[e].recur
  <2>1. ~Seen(e) /\ e \notin ToSet(LifeQueue) /\ ~\E h \in handled : h[1] = e
    BY <1>2, <1>8 DEF OneShot, Seen, Handled
  <2>2. CASE t \in Producers
    <3>1. Entering(e)
      BY <1>1, <1>3, <2>2 DEF Entering
    <3>2. Untouched(e, {t})
      BY <1>1, <1>3, <2>2 DEF IndInv, FreshOK
    <3>3. \A q \in Producers : pc'[q] \in Entry => arg'[q] # e
      BY <1>4, <1>t, <3>2 DEF EntrySame, Untouched
    <3>4. ~Entering(e)'
      BY <3>3 DEF Entering
    <3>5. LifeOf(e) = "new"
      BY <1>2, <1>8, <3>1 DEF LifeOf
    <3>6. LifeOf(e)' = "queued"
      BY <1>2, <1>3, <1>5, <1>8, <3>4 DEF LifeOf
    <3>7. QED BY <1>1, <1>6, <3>5, <3>6, LifeQueued DEF LifeMap
  <2>3. CASE t = Runner
    <3>1. e \in m_ScheduledEvents
      BY <1>1, <1>3, <2>3 DEF IndInv, PassOK, InPush
    <3>2. ~Entering(e)
      BY <3>1 DEF Entering, IndInv, FreshOK, Untouched
    <3>3. ~Entering(e)'
      BY <1>4, <1>t, <2>3, <3>2, EnteringSame
    <3>4. LifeOf(e) = "scheduled"
      BY <1>2, <1>8, <2>1, <3>1, <3>2 DEF LifeOf
    <3>5. LifeOf(e)' = "queued"
      BY <1>2, <1>3, <1>5, <1>8, <3>3 DEF LifeOf
    <3>6. QED BY <1>1, <1>6, <3>4, <3>5, LifeQueued DEF LifeMap
  <2>4. QED BY <2>2, <2>3 DEF Threads
<1>9. QED BY <1>7, <1>8

(* The first event of the queue was handled, and is not in it again. *)
LEMMA LifeHandles ==
  ASSUME IndInv, LifeInv, [Next]_vars, NEW e \in EventIds, Handles(e)
  PROVE  LifeNext
<1> DEFINE Q == LifeQueue
<1>q. /\ Q \in Seq(EventIds) /\ Len(Q) \in Nat /\ Len(Q) >= 1 /\ DOMAIN Q = 1 .. Len(Q)
      /\ Q[1] = e /\ DOMAIN Q' = 1 .. Len(Q) - 1
      /\ \A i \in 1 .. Len(Q) - 1 : Q'[i] = Q[i + 1]
  BY LifeQueueType, HeadTailProperties, LenProperties, EmptySeq DEF Handles
<1>o. \A i, j \in DOMAIN Q : Q[i] = Q[j] /\ OneShot(Q[i]) => i = j
  BY DEF LifeInv, OnceOK
<1>t. created \in Nat /\ (\A x \in EventIds : x \in Nat)
  BY DEF IndInv, TypeOK, EventIds
<1>1. /\ UNCHANGED <<created, m_ScheduledEvents, schedule, pc, arg>>
      /\ handled' = handled \cup {<<e, evt[e].payload>>}
  BY DEF Handles
<1> HIDE DEF Q
<1>2. ToSet(Q') \subseteq ToSet(Q) /\ ToSet(Q) \subseteq ToSet(Q') \cup {e} /\ e \in ToSet(Q)
  <2>1. \A i \in 1 .. Len(Q) - 1 : i + 1 \in 1 .. Len(Q)
    BY <1>q
  <2>2. \A i \in 1 .. Len(Q) : i = 1 \/ (i - 1 \in 1 .. Len(Q) - 1 /\ (i - 1) + 1 = i)
    BY <1>q
  <2>3. 1 \in DOMAIN Q
    BY <1>q
  <2>4. ToSet(Q') \subseteq ToSet(Q) /\ e \in ToSet(Q)
    BY <1>q, <2>1, <2>3 DEF ToSet
  <2>5. \A i \in DOMAIN Q : Q[i] = e \/ \E j \in DOMAIN Q' : Q'[j] = Q[i]
    BY <1>q, <2>2
  <2>6. QED BY <2>4, <2>5 DEF ToSet
<1>3. OneShot(e) => e \notin ToSet(Q')
  <2> SUFFICES ASSUME OneShot(e), NEW i \in DOMAIN Q', Q'[i] = e
               PROVE  FALSE
    BY DEF ToSet
  <2>1. i \in Int /\ i + 1 \in DOMAIN Q /\ 1 \in DOMAIN Q /\ Q[i + 1] = e /\ i + 1 # 1
    BY <1>q
  <2>2. QED BY <1>o, <1>q, <2>1
<1>4. ToSet(LifeQueue)' = ToSet(Q') /\ ToSet(LifeQueue) = ToSet(Q)
  BY DEF ToSet, Q
<1>5. ASSUME NEW x \in EventIds \ {e} PROVE LifeMap'[x] = LifeMap[x]
  <2>1. Entering(x)' <=> Entering(x)
    BY <1>1 DEF Entering
  <2>2. Handled(x)' <=> Handled(x)
    BY <1>1 DEF Handled
  <2>3. QED BY <1>1, <1>2, <1>4, <2>1, <2>2, LifeSame
<1>6. ~(e > created)
  BY <1>2, <1>4, <1>t DEF LifeInv, NewOK, Seen
<1>7. LifeOf(e)' = IF LifeOf(e) = "recurring" THEN "recurring" ELSE "handled"
  <2>1. CASE schedule[e].recur
    BY <1>1, <1>6, <2>1 DEF LifeOf
  <2>2. CASE ~schedule[e].recur
    <3>1. ~Entering(e)
      BY <1>2, <1>4 DEF LifeInv, NewOK, Seen, Entering
    <3>2. ~Entering(e)'
      BY <1>1, <3>1 DEF Entering
    <3>3. \E h \in handled' : h[1] = e
      <4>1. <<e, evt[e].payload>> \in handled' /\ <<e, evt[e].payload>>[1] = e
        BY <1>1
      <4>2. QED BY <4>1
    <3>4. LifeOf(e) = "queued"
      BY <1>2, <1>4, <1>6, <2>2, <3>1 DEF LifeOf
    <3>5. LifeOf(e)' = "handled"
      BY <1>1, <1>3, <1>4, <1>6, <2>2, <3>2, <3>3 DEF LifeOf, OneShot
    <3>6. QED BY <3>4, <3>5
  <2>3. QED BY <2>1, <2>2
<1>8. QED BY <1>5, <1>7, LifeHandled DEF LifeMap, Handles

(* Every step of the event loop is a step of EventLifecycle, or one that   *)
(* EventLifecycle does not see.                                            *)
LEMMA Simulation ==
  ASSUME IndInv, LifeInv, [Next]_vars
  PROVE  LifeNext
<1>t. /\ Producers \subseteq Threads /\ Runner \in Threads /\ Runner \notin Producers
      /\ pc \in [Threads -> PC] /\ arg \in [Threads -> EventIds \cup {NoEvent}]
  BY LoopAssumption DEF IndInv, TypeOK, Threads
<1>h. ASSUME UNCHANGED <<m_EventQueue, current, handled>> PROVE UNCHANGED <<LifeQueue, handled>>
  BY <1>h DEF LifeQueue
<1>1. CASE \E p \in Producers : Call(p)
  <2>1. ASSUME NEW p \in Producers, NEW e \in EventIds, removeEvent(p, e) PROVE LifeNext
    <3>1. UNCHANGED <<m_EventQueue, current, handled, created, m_ScheduledEvents>>
      BY <2>1 DEF removeEvent
    <3>2. EntrySame({})
      BY <2>1, <1>t DEF removeEvent, StartRemove, Goto, EntrySame
    <3>3. QED BY <1>h, <3>1, <3>2, LifeRemoves
  <2>2. ASSUME NEW p \in Producers, NEW k \in Keys, removeEventByName(p, k) PROVE LifeNext
    <3>1. /\ UNCHANGED <<m_EventQueue, current, handled, created, pc, arg>>
          /\ m_ScheduledEvents' \subseteq m_ScheduledEvents
      BY <2>2 DEF removeEventByName
    <3>2. EntrySame({})
      BY <3>1 DEF EntrySame
    <3>3. QED BY <1>h, <3>1, <3>2, LifeRemoves
  <2>3. QED BY <1>1, <2>1, <2>2, pushEventPushes, LifePushes DEF Call
<1>2. ASSUME NEW t \in Threads, Continue(t), ~AppendToQueue(t) PROVE LifeNext
  <2>1. UNCHANGED <<m_EventQueue, current, handled, created>>
    BY <1>2 DEF Continue, MergeIntoQueue, SignalQueue, addEvent, RemoveMonitorChild, removeEventInternal
  <2>2. CASE SignalQueue(t) \/ RemoveMonitorChild(t) \/ removeEventInternal(t)
    <3>1. m_ScheduledEvents' \subseteq m_ScheduledEvents
      BY <2>2 DEF SignalQueue, RemoveMonitorChild, removeEventInternal
    <3>2. EntrySame({})
      BY <2>2, <1>t DEF SignalQueue, RemoveMonitorChild, removeEventInternal, Goto, AfterPush,
         AfterRemove, propertyRemoved, EntrySame
    <3>3. QED BY <1>h, <2>1, <3>1, <3>2, LifeRemoves
  <2>3. CASE MergeIntoQueue(t)
    <3>1. UNCHANGED m_ScheduledEvents /\ pc[t] = "merge"
      BY <2>3 DEF MergeIntoQueue
    <3>2. CASE t \in Producers /\ pc'[t] \notin Entry
      <4>1. EntrySame({t})
        BY <2>3, <1>t DEF MergeIntoQueue, Goto, EntrySame
      <4>2. QED BY <1>h, <2>1, <3>1, <3>2, <4>1, LifeHandsOver
    <3>3. CASE ~(t \in Producers /\ pc'[t] \notin Entry)
      <4>1. EntrySame({})
        BY <2>3, <3>3, <1>t DEF MergeIntoQueue, Goto, AfterPush, EntrySame
      <4>2. QED BY <1>h, <2>1, <3>1, <4>1, LifeRemoves
    <3>4. QED BY <3>2, <3>3
  <2>4. CASE addEvent(t)
    <3>1. t \in Producers /\ pc[t] \in Entry
      BY <2>4 DEF addEvent, IndInv, MutexOK, Threads
    <3>2. m_ScheduledEvents' \in {m_ScheduledEvents, m_ScheduledEvents \cup {arg[t]}}
      BY <2>4 DEF addEvent
    <3>3. EntrySame({t}) /\ pc'[t] \notin Entry
      BY <2>4, <3>1, <1>t DEF addEvent, Goto, AfterPush, EntrySame
    <3>4. QED BY <1>h, <2>1, <3>1, <3>2, <3>3, LifeHandsOver
  <2>5. QED BY <1>2, <2>2, <2>3, <2>4 DEF Continue
<1>3. CASE RunnerLoop
  <2>1. UNCHANGED <<m_EventQueue, current, handled, created, m_ScheduledEvents>>
    BY <1>3 DEF RunnerLoop, LockEvents, AfterRaise, UnlockEvents, RunnerEnterWait, ScanEvent,
       CleanupEvent, RunnerWake, RunnerTimeout, StopQueue, TerminateInterpreter, JoinInterpreter
  <2>2. EntrySame({})
    BY <1>3, <1>t DEF RunnerLoop, LockEvents, AfterRaise, UnlockEvents, RunnerEnterWait, ScanEvent,
       CleanupEvent, RunnerWake, RunnerTimeout, NextTurn, StopQueue, TerminateInterpreter,
       JoinInterpreter, Goto, StartRemove, EntrySame
  <2>3. QED BY <1>h, <2>1, <2>2, LifeRemoves
<1>4. ASSUME Interpreter, UNCHANGED <<LifeQueue, handled>> PROVE LifeNext
  <2>1. InterpUnchanged
    BY <1>4 DEF Interpreter, WaitForEventTest, WaitForEventEnter, WaitForEventWake,
       WaitForEventTimeout, WaitForEventResult, popEvent, HandleEvent
  <2>2. UNCHANGED <<created, m_ScheduledEvents, pc, arg>>
    BY <2>1 DEF InterpUnchanged
  <2>3. EntrySame({})
    BY <2>2 DEF EntrySame
  <2>4. QED BY <1>4, <2>2, <2>3, LifeRemoves
<1>5. CASE initiateShutdown \/ Tick \/ Stopped \/ UNCHANGED vars
  <2>1. UNCHANGED <<m_EventQueue, current, handled, created, m_ScheduledEvents, pc, arg>>
    BY <1>5 DEF initiateShutdown, Tick, Stopped, vars
  <2>2. EntrySame({})
    BY <2>1 DEF EntrySame
  <2>3. QED BY <1>h, <2>1, <2>2, LifeRemoves
<1>6. ASSUME NEW t \in Threads, AppendToQueue(t) PROVE LifeNext
  BY <1>6, AppendedLast, LifeAppends
<1>7. ASSUME NEW e \in EventIds, Handles(e) PROVE LifeNext
  BY <1>7, LifeHandles
<1>8. CASE Interpreter
  BY <1>4, <1>6, <1>7, <1>8, LifeQueueStep
<1>9. QED BY <1>1, <1>2, <1>3, <1>5, <1>6, <1>8 DEF Next

(* In the beginning no event is there. *)
LEMMA InitSimulation ==
  ASSUME Init
  PROVE  Lifecycle!Init
<1>1. created = 0 /\ LifeQueue = << >>
  BY DEF Init, LifeQueue
<1>2. \A e \in EventIds : e > created
  BY <1>1 DEF EventIds
<1>3. \A e \in EventIds : LifeOf(e) = "new"
  BY <1>2 DEF LifeOf
<1>4. QED BY <1>1, <1>3 DEF Lifecycle!Init

(* The event loop keeps the promise of EventLifecycle, for any number of   *)
(* producers pushing, replacing and removing whatever events: the queue is *)
(* first come first served, a one-shot event enters it at most once and is *)
(* handled at most once, and an event that was handled, replaced or        *)
(* removed does not come back.                                             *)
THEOREM LoopImplementsLifecycle == Spec => ImplementsLifecycle
<1>1. Init => IndInv /\ LifeInv /\ Lifecycle!Init
  BY InitIndInv, LifeInvariant, InitSimulation
<1>2. IndInv /\ LifeInv /\ [Next]_vars => IndInv' /\ LifeInv'
  BY NextIndInv, LifeInvariant
<1>3. IndInv /\ LifeInv /\ [Next]_vars
        => [Lifecycle!Next]_<<[e \in EventIds |-> LifeOf(e)], LifeQueue>>
  BY Simulation DEF LifeNext, LifeMap
<1>4. QED BY <1>1, <1>2, <1>3, PTL DEF Spec, ImplementsLifecycle, Lifecycle!Spec
=============================================================================
