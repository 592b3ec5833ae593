----------------------------- MODULE EventLoop -----------------------------
(***************************************************************************)
(* The event loop of the dSS (src/event.cpp, src/syncevent.cpp and the     *)
(* start and stop of it in src/dss.cpp): EventQueue, EventRunner and the   *)
(* loop of the EventInterpreter thread.                                    *)
(*                                                                         *)
(* Threads.  Producers are the callers of the queue and of the runner (web *)
(* requests, scripts, the model, event handlers).  Runner is the main      *)
(* thread, inside EventRunner::run.  The interpreter thread is the single  *)
(* consumer; its control is in ipc.  A critical section of m_QueueMutex or *)
(* of the property tree is one step.  m_EventsMutex is held by the runner  *)
(* over a whole pass of raisePendingEvents, so it is a variable; the       *)
(* sections in which a producer holds it are single steps.                 *)
(*                                                                         *)
(* Event objects are shared between the list of scheduled events and the   *)
(* queue and are changed in place, so they live in a heap, evt.  They are  *)
(* numbered in the order of their creation and payload is the number of    *)
(* the event whose properties an object carries.  A key stands for the     *)
(* name, the context and the location that isReplacementFor compares.  An  *)
(* event is scheduled at most once, so its number also is the ID of its    *)
(* ScheduledEvent (m_ScheduledEventCounter is atomic: IDs are distinct).   *)
(*                                                                         *)
(* The vector m_ScheduledEvents is a set: its order only decides which of  *)
(* the events due in one pass is queued first and which of several         *)
(* replaceable events is replaced; both are left open here.                *)
(***************************************************************************)
EXTENDS Schedule, Sequences

CONSTANTS
  Producers,    \* threads that push and remove events
  Runner,       \* the thread of EventRunner::run
  Keys,         \* name, context and location of an event
  Templates,    \* the events producers may push
  MaxEvents,    \* bound: events pushed by producers
  MaxTime       \* bound: the clock stops here

Unset   == -1   \* no time property
BadTime == -2   \* a time property that scheduleFromEvent cannot parse

EventIds == 1 .. MaxEvents
Threads  == Producers \cup {Runner}
Free     == "free"

(* time: Unset, BadTime or the offset of "+offset"; ical: the number of    *)
(* occurrences of the rule, 0 when the iCal properties are not set         *)
TemplateType == [key : Keys, unique : BOOLEAN,
                 time : Nat \cup {Unset, BadTime}, ical : Nat]

ASSUME LoopAssumption ==
  /\ Runner \notin Producers /\ Runner # Free
  /\ Keys # {}
  /\ MaxEvents \in Nat /\ MaxTime \in Nat
  /\ Templates \subseteq TemplateType

EventType == [key : Keys, unique : BOOLEAN, time : Nat \cup {Unset, BadTime},
              ical : Nat, payload : Nat]

VARIABLES
  now,               \* the wall clock, in seconds
  evt,               \* the event objects
  created,           \* number of event objects created
  m_EventQueue,      \* EventQueue: events waiting for the interpreter
  entryInQueue,      \* EventQueue::m_EntryInQueueEvt.m_State
  m_ScheduledEvents, \* EventRunner: the scheduled events
  schedule,          \* the Schedule of each scheduled event
  m_MonitorNode,     \* children of the runner's monitor property node
  newItem,           \* EventRunner::m_NewItem.m_State
  m_EventsMutex,     \* Free or Runner
  m_ShutdownFlag,    \* EventRunner::m_ShutdownFlag
  m_Terminated,      \* Thread::m_Terminated of the interpreter
  pc, arg,           \* control of the threads and the event they work on
  passNow,           \* "now" of the current pass of raisePendingEvents
  unscanned,         \* scheduled events the current pass has not looked at
  removeIDs,         \* events the current pass has to remove
  ipc, current,      \* control of the interpreter and the event it handles
  raises, cancelled, replaced, handled   \* history

loopVars   == <<m_EventQueue, entryInQueue>>
runnerVars == <<m_ScheduledEvents, schedule, m_MonitorNode, newItem>>
passVars   == <<m_EventsMutex, passNow, unscanned, removeIDs>>
stopVars   == <<m_ShutdownFlag, m_Terminated>>
interpVars == <<ipc, current>>
histVars   == <<raises, cancelled, replaced, handled>>
vars == <<now, evt, created, loopVars, runnerVars, passVars, stopVars,
          pc, arg, interpVars, histVars>>

NoEvent == 0
Unborn  == [key |-> CHOOSE k \in Keys : TRUE, unique |-> FALSE,
            time |-> Unset, ical |-> 0, payload |-> 0]

ToSet(s) == {s[i] : i \in DOMAIN s}

-----------------------------------------------------------------------------
PC  == {"idle", "addEvent", "merge", "append", "signal",
        "removeChild", "removeInternal", "lock", "scan", "pushed", "cleanup",
        "waiting", "stopQueue", "terminate", "join", "stopped"}
IPC == {"check", "enterWait", "waiting", "handle", "done"}

TypeOK ==
  /\ now \in Nat
  /\ created \in 0 .. MaxEvents
  /\ evt \in [EventIds -> EventType]
  /\ m_EventQueue \in Seq(EventIds)
  /\ entryInQueue \in BOOLEAN /\ newItem \in BOOLEAN
  /\ m_ScheduledEvents \in SUBSET EventIds
  /\ schedule \in [EventIds -> Schedules]
  /\ m_MonitorNode \in SUBSET EventIds
  /\ m_EventsMutex \in {Free, Runner}
  /\ m_ShutdownFlag \in BOOLEAN /\ m_Terminated \in BOOLEAN
  /\ pc \in [Threads -> PC] /\ arg \in [Threads -> EventIds \cup {NoEvent}]
  /\ passNow \in Nat
  /\ unscanned \in SUBSET EventIds /\ removeIDs \in SUBSET EventIds
  /\ ipc \in IPC /\ current \in EventIds \cup {NoEvent}
  /\ raises \in [EventIds -> Nat]
  /\ cancelled \in SUBSET EventIds
  /\ replaced \in SUBSET Nat /\ handled \in SUBSET (EventIds \X Nat)

Init ==
  /\ now = 0 /\ created = 0
  /\ evt = [e \in EventIds |-> Unborn]
  /\ m_EventQueue = << >> /\ entryInQueue = FALSE
  /\ m_ScheduledEvents = {} /\ m_MonitorNode = {} /\ newItem = FALSE
  /\ schedule = [e \in EventIds |-> StaticSchedule(0)]
  /\ m_EventsMutex = Free
  /\ m_ShutdownFlag = FALSE /\ m_Terminated = FALSE
  /\ pc = [t \in Threads |-> IF t = Runner THEN "lock" ELSE "idle"]
  /\ arg = [t \in Threads |-> NoEvent]
  /\ passNow = 0 /\ unscanned = {} /\ removeIDs = {}
  /\ ipc = "check" /\ current = NoEvent
  /\ raises = [e \in EventIds |-> 0]
  /\ cancelled = {} /\ replaced = {} /\ handled = {}

-----------------------------------------------------------------------------
(* Helpers of EventQueue and Event *)

(* Event::isReplacementFor *)
isReplacementFor(e, other) == evt[e].key = evt[other].key

(* Event object o takes over the properties of event e, and its time when  *)
(* e has one.                                                              *)
TakeOver(old, new) ==
  [old EXCEPT !.unique  = new.unique,
              !.ical    = new.ical,
              !.payload = new.payload,
              !.time    = IF new.time # Unset THEN new.time ELSE @]
ReplaceProperties(o, e) == [evt EXCEPT ![o] = TakeOver(@, evt[e])]

(* EventQueue::scheduleFromEvent: NULL (the empty set) or one schedule.  A *)
(* time that cannot be parsed and "+0" both give NULL.                     *)
scheduleFromEvent(ev, t) ==
  IF ev.time # Unset
    THEN IF ev.time > 0 THEN {StaticSchedule(t + ev.time)} ELSE {}
    ELSE IF ev.ical > 0 THEN {ICalSchedule(t, ev.ical, t)} ELSE {}

(* Where pushEvent goes with an event it does not schedule *)
QueuePath(ev) == IF ev.unique THEN "merge" ELSE "append"

(* raisePendingEvents clears the timer properties before it pushes *)
KeepTimer(ev)  == ev
ClearTimer(ev) == [ev EXCEPT !.time = Unset, !.ical = 0]

(* raisePendingEvents: "check if the event will be raised again" *)
NoRecurrenceLost(s, from) == s.recur /\ NextOccurrence(s, from) = NullDate
NoFurtherSchedule(s, from) == ~s.recur \/ NextOccurrence(s, from) = NullDate

(* scoped_lock lock(m_EventsMutex) of a short critical section *)
IgnoreEventsMutex == TRUE
TakeEventsMutex == m_EventsMutex = Free

AfterPush(t)   == IF t = Runner THEN "pushed"  ELSE "idle"
AfterRemove(t) == IF t = Runner THEN "cleanup" ELSE "idle"

(* Thread t goes on at l, working on event e *)
Goto(t, l, e) == /\ pc'  = [pc  EXCEPT ![t] = l]
                 /\ arg' = [arg EXCEPT ![t] = e]
Leaving(t) == IF t = Runner THEN arg[t] ELSE NoEvent

(* Producer p has created the next event object from template tpl *)
Create(tpl) ==
  /\ created < MaxEvents
  /\ now + Max({tpl.time, (tpl.ical - 1) * Interval, 0}) <= MaxTime  \* bound
  /\ created' = created + 1
  /\ evt' = [evt EXCEPT ![created + 1] =
               [key |-> tpl.key, unique |-> tpl.unique, time |-> tpl.time,
                ical |-> tpl.ical, payload |-> created + 1]]

-----------------------------------------------------------------------------
(* EventQueue, called by producers; the part below scheduleFromEvent also  *)
(* by the runner, from raisePendingEvents                                  *)

pushEvent(p, tpl) ==
  LET s == scheduleFromEvent(tpl, now) IN
  /\ pc[p] = "idle"
  /\ Create(tpl)
  /\ \/ /\ s # {}
        /\ schedule' = [schedule EXCEPT ![created + 1] = CHOOSE x \in s : TRUE]
        /\ Goto(p, "addEvent", created + 1)
     \/ /\ s = {}
        /\ UNCHANGED schedule
        /\ Goto(p, QueuePath(tpl), created + 1)
  /\ UNCHANGED <<now, loopVars, m_ScheduledEvents, m_MonitorNode, newItem,
                 passVars, stopVars, interpVars, histVars>>

(* An event that gets no schedule is dropped and "" returned *)
pushTimedEvent(p, tpl) ==
  LET s == scheduleFromEvent(tpl, now) IN
  /\ pc[p] = "idle"
  /\ Create(tpl)
  /\ \/ /\ s # {}
        /\ schedule' = [schedule EXCEPT ![created + 1] = CHOOSE x \in s : TRUE]
        /\ Goto(p, "addEvent", created + 1)
     \/ /\ s = {}
        /\ UNCHANGED <<arg, schedule, pc>>
  /\ UNCHANGED <<now, loopVars, m_ScheduledEvents, m_MonitorNode, newItem,
                 passVars, stopVars, interpVars, histVars>>

(* pushEvent, first section of m_QueueMutex: only for a unique event *)
MergeIntoQueue(t) ==
  LET e    == arg[t]
      same == {i \in DOMAIN m_EventQueue : isReplacementFor(e, m_EventQueue[i])}
  IN
  /\ pc[t] = "merge"
  /\ \/ /\ same # {}
        /\ LET o == m_EventQueue[Min(same)] IN
             /\ evt' = ReplaceProperties(o, e)
             /\ replaced' = IF o = e THEN replaced
                            ELSE replaced \cup {evt[o].payload}
        /\ Goto(t, AfterPush(t), Leaving(t))
     \/ /\ same = {}
        /\ UNCHANGED <<evt, replaced>>
        /\ Goto(t, "append", e)
  /\ UNCHANGED <<now, created, loopVars, runnerVars, passVars, stopVars,
                 interpVars, raises, cancelled, handled>>

(* pushEvent, second section of m_QueueMutex *)
AppendToQueue(t) ==
  /\ pc[t] = "append"
  /\ m_EventQueue' = Append(m_EventQueue, arg[t])
  /\ Goto(t, "signal", arg[t])
  /\ UNCHANGED <<now, evt, created, entryInQueue, runnerVars, passVars,
                 stopVars, interpVars, histVars>>

SignalQueue(t) ==
  /\ pc[t] = "signal"
  /\ entryInQueue' = TRUE
  /\ Goto(t, AfterPush(t), Leaving(t))
  /\ UNCHANGED <<now, evt, created, m_EventQueue, runnerVars, passVars,
                 stopVars, interpVars, histVars>>

-----------------------------------------------------------------------------
(* EventRunner, called by producers; removeEvent also by the runner *)

(* addEvent.  Replacing a scheduled event keeps that event's ID and        *)
(* schedule; the new ScheduledEvent is deleted.                            *)
addEvent(t) ==
  LET e    == arg[t]
      same == {o \in m_ScheduledEvents : isReplacementFor(e, o)}
  IN
  /\ pc[t] = "addEvent"
  /\ TakeEventsMutex
  /\ \/ /\ evt[e].unique
        /\ \E o \in same :
             /\ evt' = ReplaceProperties(o, e)
             /\ replaced' = replaced \cup {evt[o].payload}
        /\ UNCHANGED <<m_ScheduledEvents, m_MonitorNode>>
     \/ /\ ~evt[e].unique \/ same = {}
        /\ m_MonitorNode' = m_MonitorNode \cup {e}
        /\ m_ScheduledEvents' = m_ScheduledEvents \cup {e}
        /\ UNCHANGED <<evt, replaced>>
  /\ newItem' = TRUE
  /\ Goto(t, AfterPush(t), Leaving(t))
  /\ UNCHANGED <<now, created, loopVars, schedule, passVars,
                 stopVars, interpVars, raises, cancelled, handled>>

(* removeEvent of thread t for ID e: look the monitor node up *)
StartRemove(t, e) ==
  Goto(t, IF e \in m_MonitorNode THEN "removeChild" ELSE "removeInternal", e)

(* An ID in neither place finds nothing to remove *)
removeEvent(p, e) ==
  /\ pc[p] = "idle"
  /\ e \in m_MonitorNode \cup m_ScheduledEvents
  /\ StartRemove(p, e)
  /\ UNCHANGED <<now, evt, created, loopVars, runnerVars, passVars, stopVars,
                 interpVars, histVars>>

(* The listener of the monitor node, EventRunner::propertyRemoved *)
NoListener(t)      == AfterRemove(t)
propertyRemoved(t) == "removeInternal"

(* PropertyNode::removeChild.  The listener (propertyRemoved) is called    *)
(* after the tree is unlocked, also when another thread was faster.        *)
RemoveMonitorChild(t) ==
  /\ pc[t] = "removeChild"
  /\ m_MonitorNode' = m_MonitorNode \ {arg[t]}
  /\ Goto(t, propertyRemoved(t), arg[t])
  /\ UNCHANGED <<now, evt, created, loopVars, m_ScheduledEvents, schedule,
                 newItem, passVars, stopVars, interpVars, histVars>>

removeEventInternal(t) ==
  /\ pc[t] = "removeInternal"
  /\ TakeEventsMutex
  /\ m_ScheduledEvents' = m_ScheduledEvents \ {arg[t]}
  /\ cancelled' = IF t = Runner THEN cancelled ELSE cancelled \cup {arg[t]}
  /\ Goto(t, AfterRemove(t), NoEvent)
  /\ UNCHANGED <<now, evt, created, loopVars, schedule, m_MonitorNode, newItem,
                 passVars, stopVars, interpVars, raises,
                 replaced, handled>>

(* The monitor nodes of the events stay *)
removeEventByName(p, k) ==
  LET named == {e \in m_ScheduledEvents : evt[e].key = k} IN
  /\ pc[p] = "idle"
  /\ TakeEventsMutex
  /\ m_ScheduledEvents' = m_ScheduledEvents \ named
  /\ cancelled' = cancelled \cup named
  /\ UNCHANGED <<now, evt, created, loopVars, schedule, m_MonitorNode, newItem,
                 passVars, stopVars, pc, arg, interpVars, raises,
                 replaced, handled>>

-----------------------------------------------------------------------------
(* EventRunner::run, on the main thread *)

RunnerAt(l) == pc[Runner] = l

(* The end of a turn of while(!m_ShutdownFlag).  A pass reads the clock    *)
(* before it takes the lock.                                               *)
NextTurn ==
  \/ m_ShutdownFlag /\ Goto(Runner, "stopQueue", NoEvent) /\ UNCHANGED passNow
  \/ ~m_ShutdownFlag /\ Goto(Runner, "lock", NoEvent) /\ passNow' = now

LockEvents ==
  /\ RunnerAt("lock")
  /\ m_EventsMutex = Free
  /\ m_EventsMutex' = Runner
  /\ unscanned' = m_ScheduledEvents
  /\ removeIDs' = {}
  /\ Goto(Runner, "scan", NoEvent)
  /\ UNCHANGED <<now, evt, created, loopVars, runnerVars, passNow, stopVars,
                 interpVars, histVars>>

(* One scheduled event of the pass: without a further occurrence it is to  *)
(* be removed; when it is due its timer properties are cleared and it is   *)
(* pushed to the queue, with m_EventsMutex held.                           *)
ScanEvent(e) ==
  LET next    == NextOccurrence(schedule[e], passNow)
      cleared == ClearTimer(evt[e])
      s       == scheduleFromEvent(cleared, now)
  IN
  /\ RunnerAt("scan")
  /\ e \in unscanned
  /\ unscanned' = unscanned \ {e}
  /\ schedule' = [schedule EXCEPT ![e] = AfterNextOccurrence(@, passNow)]
  /\ \/ /\ next = NullDate
        /\ removeIDs' = removeIDs \cup {e}
        /\ UNCHANGED <<evt, m_MonitorNode, raises, pc, arg>>
     \/ /\ next # NullDate
        /\ m_MonitorNode' = m_MonitorNode \cup {e}
        /\ UNCHANGED removeIDs
        /\ IF next <= passNow
             THEN /\ evt' = [evt EXCEPT ![e] = cleared]
                  /\ raises' = [raises EXCEPT ![e] = @ + 1]
                  /\ Goto(Runner, IF s # {} THEN "addEvent" ELSE QueuePath(cleared), e)
             ELSE UNCHANGED <<evt, raises, pc, arg>>
  /\ UNCHANGED <<now, created, loopVars, m_ScheduledEvents, newItem,
                 m_EventsMutex, passNow, stopVars, interpVars,
                 cancelled, replaced, handled>>

(* After pushEvent: will the event be raised again?  The question moves    *)
(* the iterator once more.                                                 *)
AfterRaise ==
  LET e    == arg[Runner]
      s    == schedule[e]
      last == NoFurtherSchedule(s, passNow + 1)
  IN
  /\ RunnerAt("pushed")
  /\ removeIDs' = IF last THEN removeIDs \cup {e} ELSE removeIDs
  /\ schedule' = [schedule EXCEPT ![e] =   \* leapAdjust is given seconds of UTC
                    LeapAdjust(AfterNextOccurrence(s, passNow + 1), passNow + 1)]
  /\ Goto(Runner, "scan", NoEvent)
  /\ UNCHANGED <<now, evt, created, loopVars, m_ScheduledEvents, m_MonitorNode,
                 newItem, m_EventsMutex, passNow, unscanned, stopVars,
                 interpVars, histVars>>

UnlockEvents ==
  /\ RunnerAt("scan")
  /\ unscanned = {}
  /\ m_EventsMutex' = Free
  /\ passNow' = 0
  /\ Goto(Runner, "cleanup", NoEvent)
  /\ UNCHANGED <<now, evt, created, loopVars, runnerVars, unscanned, removeIDs,
                 stopVars, interpVars, histVars>>

(* removeEvent for each of removeIDs, then m_NewItem.waitFor(500) *)
CleanupEvent(e) ==
  /\ RunnerAt("cleanup")
  /\ e \in removeIDs
  /\ removeIDs' = removeIDs \ {e}
  /\ StartRemove(Runner, e)
  /\ UNCHANGED <<now, evt, created, loopVars, runnerVars, m_EventsMutex, passNow,
                 unscanned, stopVars, interpVars, histVars>>

(* SyncEvent::waitFor forgets a signal that came before it *)
RunnerEnterWait ==
  /\ RunnerAt("cleanup")
  /\ removeIDs = {}
  /\ newItem' = FALSE
  /\ Goto(Runner, "waiting", NoEvent)
  /\ UNCHANGED <<now, evt, created, loopVars, m_ScheduledEvents, schedule,
                 m_MonitorNode, passVars, stopVars, interpVars, histVars>>

RunnerWake ==
  /\ RunnerAt("waiting")
  /\ newItem
  /\ NextTurn
  /\ UNCHANGED <<now, evt, created, loopVars, runnerVars, m_EventsMutex,
                 unscanned, removeIDs, stopVars, interpVars, histVars>>

RunnerTimeout ==
  /\ RunnerAt("waiting")
  /\ NextTurn
  /\ UNCHANGED <<now, evt, created, loopVars, runnerVars, m_EventsMutex,
                 unscanned, removeIDs, stopVars, interpVars, histVars>>

-----------------------------------------------------------------------------
(* Stopping: DSS::initiateShutdown, from another thread, and the end of    *)
(* DSS::run, on the main thread                                            *)

initiateShutdown ==
  /\ ~m_ShutdownFlag
  /\ m_ShutdownFlag' = TRUE
  /\ newItem' = TRUE
  /\ UNCHANGED <<now, evt, created, loopVars, m_ScheduledEvents, schedule,
                 m_MonitorNode, passVars, m_Terminated, pc, arg, interpVars,
                 histVars>>

StopQueue ==
  /\ RunnerAt("stopQueue")
  /\ entryInQueue' = TRUE
  /\ Goto(Runner, "terminate", NoEvent)
  /\ UNCHANGED <<now, evt, created, m_EventQueue, runnerVars, passVars,
                 stopVars, interpVars, histVars>>

TerminateInterpreter ==
  /\ RunnerAt("terminate")
  /\ m_Terminated' = TRUE
  /\ Goto(Runner, "join", NoEvent)
  /\ UNCHANGED <<now, evt, created, loopVars, runnerVars, passVars,
                 m_ShutdownFlag, interpVars, histVars>>

JoinInterpreter ==
  /\ RunnerAt("join")
  /\ ipc = "done"
  /\ Goto(Runner, "stopped", NoEvent)
  /\ UNCHANGED <<now, evt, created, loopVars, runnerVars, passVars, stopVars,
                 interpVars, histVars>>

-----------------------------------------------------------------------------
(* EventInterpreter::execute *)

InterpUnchanged == UNCHANGED <<now, evt, created, runnerVars, passVars,
                               stopVars, pc, arg, raises, cancelled,
                               replaced>>

(* EventQueue::popEvent.  The interpreter is the only consumer: nothing    *)
(* leaves the queue between its test and its pop, they are one step.       *)
PopNewest ==
  /\ m_EventQueue # << >>
  /\ current' = m_EventQueue[Len(m_EventQueue)]
  /\ m_EventQueue' = SubSeq(m_EventQueue, 1, Len(m_EventQueue) - 1)
  /\ ipc' = "handle"
  /\ UNCHANGED <<entryInQueue, handled>> /\ InterpUnchanged
popEvent ==
  /\ m_EventQueue # << >>
  /\ current' = Head(m_EventQueue)
  /\ m_EventQueue' = Tail(m_EventQueue)
  /\ ipc' = "handle"
  /\ UNCHANGED <<entryInQueue, handled>> /\ InterpUnchanged

(* while(!m_Terminated), and the test of EventQueue::waitForEvent *)
WaitForEventTest ==
  /\ ipc = "check"
  /\ \/ ~m_Terminated /\ popEvent
     \/ /\ m_Terminated \/ m_EventQueue = << >>
        /\ ipc' = IF m_Terminated THEN "done" ELSE "enterWait"
        /\ UNCHANGED <<loopVars, current, handled>> /\ InterpUnchanged

(* SyncEvent::waitFor forgets a signal that came before it *)
WaitForEventEnter ==
  /\ ipc = "enterWait"
  /\ entryInQueue' = FALSE
  /\ ipc' = "waiting"
  /\ UNCHANGED <<m_EventQueue, current, handled>> /\ InterpUnchanged

WaitForEventResult ==
  \/ popEvent
  \/ /\ m_EventQueue = << >>
     /\ ipc' = "check"
     /\ UNCHANGED <<loopVars, current, handled>> /\ InterpUnchanged

WaitForEventWake ==
  /\ ipc = "waiting"
  /\ entryInQueue
  /\ WaitForEventResult

UntimedWait ==
  /\ ipc = "waiting"
  /\ entryInQueue
  /\ WaitForEventResult
WaitForEventTimeout ==
  /\ ipc = "waiting"
  /\ WaitForEventResult

(* The handlers of the event run (module EventInterpreter) *)
HandleEvent ==
  /\ ipc = "handle"
  /\ handled' = handled \cup {<<current, evt[current].payload>>}
  /\ current' = NoEvent
  /\ ipc' = "check"
  /\ UNCHANGED loopVars /\ InterpUnchanged

-----------------------------------------------------------------------------
Tick ==
  /\ now < MaxTime
  /\ now' = now + 1
  /\ UNCHANGED <<evt, created, loopVars, runnerVars, passVars, stopVars, pc,
                 arg, interpVars, histVars>>

(* The dSS has stopped; producers may be left with nothing to do *)
Stopped ==
  /\ RunnerAt("stopped")
  /\ UNCHANGED vars

(* One call of a producer begins *)
Call(p) ==
  \/ \E tpl \in Templates : pushEvent(p, tpl) \/ pushTimedEvent(p, tpl)
  \/ \E e \in EventIds : removeEvent(p, e)
  \/ \E k \in Keys : removeEventByName(p, k)

(* The rest of pushEvent, pushTimedEvent and removeEvent *)
Continue(t) ==
  \/ MergeIntoQueue(t) \/ AppendToQueue(t) \/ SignalQueue(t)
  \/ addEvent(t)
  \/ RemoveMonitorChild(t) \/ removeEventInternal(t)

RunnerLoop ==
  \/ LockEvents \/ AfterRaise \/ UnlockEvents \/ RunnerEnterWait
  \/ \E e \in EventIds : ScanEvent(e) \/ CleanupEvent(e)
  \/ RunnerWake \/ RunnerTimeout
  \/ StopQueue \/ TerminateInterpreter \/ JoinInterpreter

Interpreter ==
  \/ WaitForEventTest \/ WaitForEventEnter \/ WaitForEventWake
  \/ WaitForEventTimeout \/ HandleEvent

Next ==
  \/ \E p \in Producers : Call(p)
  \/ \E t \in Threads : Continue(t)
  \/ RunnerLoop \/ Interpreter \/ initiateShutdown \/ Tick \/ Stopped

(* Threads that run are scheduled, a timed wait ends, the clock advances;  *)
(* a thread that waits for m_EventsMutex gets it, since the runner sleeps  *)
(* without it between two passes.  Nothing forces a producer to call, or   *)
(* the dSS to be shut down.                                                *)
Fairness ==
  /\ WF_vars(RunnerLoop) /\ WF_vars(Interpreter) /\ WF_vars(Tick)
  /\ \A t \in Threads : SF_vars(Continue(t))

Spec == Init /\ [][Next]_vars /\ Fairness

-----------------------------------------------------------------------------
(* Safety *)

(* raisePendingEvents calls pushEvent with m_EventsMutex held, and         *)
(* pushEvent calls addEvent, which takes it, for an event that has a       *)
(* schedule.  The runner never gets there: it would wait for itself.       *)
NoSelfDeadlock == ~RunnerAt("addEvent")

(* A one-shot event is forwarded to the queue at most once, although it    *)
(* stays in m_ScheduledEvents after m_EventsMutex is released and until    *)
(* removeEvent has found its monitor node and come back as a listener.     *)
RaisedOnce ==
  \A e \in EventIds : ~schedule[e].recur => raises[e] <= 1

(* Every scheduled event can be seen and cancelled through its monitor     *)
(* node, or a thread is already removing it.                               *)
BeingRemoved(e) == \E t \in Threads : pc[t] = "removeInternal" /\ arg[t] = e
ScheduledIsMonitored ==
  \A e \in m_ScheduledEvents : e \in m_MonitorNode \/ BeingRemoved(e)

(* Once a removeEvent or removeEventByName has returned, the events it     *)
(* removed are not forwarded any more, whatever pass is under way.         *)
CancelledIsNotRaised ==
  [][\A e \in cancelled : raises'[e] = raises[e]]_vars

(* The life of an event as EventLifecycle tells it.  The event that is     *)
(* being handled still is the first of the queue.  Between the pass that   *)
(* forwards it and the end of its removal a one-shot event still is in     *)
(* m_ScheduledEvents; that is not seen from outside.                       *)
LifeQueue == IF current = NoEvent THEN m_EventQueue ELSE <<current>> \o m_EventQueue
Entering(e) == \E p \in Producers :
                 pc[p] \in {"addEvent", "merge", "append"} /\ arg[p] = e
LifeOf(e) ==
  IF e > created THEN "new"
  ELSE IF schedule[e].recur THEN "recurring"
  ELSE IF Entering(e) THEN "new"
  ELSE IF e \in ToSet(LifeQueue) THEN "queued"
  ELSE IF \E h \in handled : h[1] = e THEN "handled"
  ELSE IF e \in m_ScheduledEvents THEN "scheduled"
  ELSE "gone"

Lifecycle == INSTANCE EventLifecycle WITH
               Event <- EventIds, queue <- LifeQueue,
               life <- [e \in EventIds |-> LifeOf(e)]

(* Events are handled in the order of the queue, a one-shot event is       *)
(* forwarded once and handled once, and it never comes back after it was   *)
(* handled, replaced or removed.                                           *)
ImplementsLifecycle == Lifecycle!Spec

(* Liveness *)

(* An event in the queue is handled, also when the signal of its push came *)
(* before the interpreter went to sleep and was forgotten.                 *)
QueuedIsHandled ==
  \A e \in EventIds :
     e \in ToSet(m_EventQueue) ~> (m_ShutdownFlag \/ e \notin ToSet(m_EventQueue))

(* A scheduled event is forwarded once its timer expires, unless it is     *)
(* removed before or the dSS is shut down.                                 *)
ScheduledIsForwarded ==
  \A e \in EventIds :
     e \in m_ScheduledEvents ~> (raises[e] > 0 \/ e \in cancelled \/ m_ShutdownFlag)

(* What a producer has handed over with a timer reaches the handlers, in   *)
(* its own event or in the one that took over its properties, unless       *)
(* a later one replaced it (doc/event-loop.txt: "Once timer expires,       *)
(* EventRunner forwards it to EventQueue").                                *)
TimedIsForwarded ==
  \A e \in EventIds, p \in Producers :
     (pc[p] = "addEvent" /\ arg[p] = e)
       ~> (\/ \E h \in handled : h[2] = e
           \/ e \in replaced \/ cancelled # {} \/ m_ShutdownFlag)

(* A shutdown comes to its end: the broadcast of EventQueue::shutdown may  *)
(* be forgotten by an interpreter that is about to sleep.                  *)
ShutdownCompletes == m_ShutdownFlag ~> RunnerAt("stopped")

(* Nothing waits for ever, although SyncEvent::waitFor forgets signals that *)
(* were given before: not a queued event, not a due one, not a shutdown.    *)
EventsGoOn == QueuedIsHandled /\ ScheduledIsForwarded /\ ShutdownCompletes
=============================================================================
