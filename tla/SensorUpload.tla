---------------------------- MODULE SensorUpload ----------------------------
(***************************************************************************)
(* The upload of events to a hub (sensor_data_uploader.cpp): a plugin of   *)
(* the event interpreter appends events to a SensorLog, which sends them   *)
(* in packets through the TaskProcessor of a WebserviceConnection.         *)
(*                                                                         *)
(* Two threads work on the log.  The event interpreter appends events and  *)
(* starts uploads; the task thread runs the HTTP request and calls done()  *)
(* with the answer.  What SensorLog does with m_lock held is one step; the *)
(* gaps between unlocking and locking again are the pc labels.  A third    *)
(* thread, a web request or a script, sets the token of the web service.   *)
(***************************************************************************)
EXTENDS Naturals, Sequences, FiniteSets

CONSTANTS
  MaxPost,      \* max_post_events
  MaxElements,  \* max_elements
  MaxPrio,      \* max_prio_elements
  LogKinds,     \* the events that are raised: [prio, converts]
  MaxLogged,    \* bound: events raised
  MaxFaults,    \* bound: requests that fail
  MaxToggles    \* bound: changes of the token

ASSUME UploadAssumption ==
  /\ MaxPost \in Nat \ {0} /\ MaxElements \in Nat /\ MaxPrio \in Nat
  /\ LogKinds \subseteq [prio : BOOLEAN, converts : BOOLEAN]
  /\ MaxLogged \in Nat /\ MaxFaults \in Nat /\ MaxToggles \in Nat

LogIds == 1 .. MaxLogged
Nothing == 0
Running == MaxLogged + 1   \* the event "running", raised once
Batch   == MaxLogged + 2   \* upload_ms_hub_event_log, the recurring event

VARIABLES
  kindOf,            \* the events raised so far: id -> kind
  m_events, m_eventsHighPrio, m_packet,   \* sequences of ids
  m_pending_upload,
  m_upload_run,      \* its remainder modulo max_post_events
  upc,               \* where the two threads are
  current, todo,     \* event being handled; subscriptions that still get it
  tasks, request,    \* queue of the TaskProcessor, the POST being sent: sets of ids
  websvcActive,      \* property /system/mshub/eventlog/active
  m_subscribed,
  subscriptions,     \* IDs of the plugin's subscriptions, by their index
  timers,            \* recurring batch events that are scheduled
  wasRunning, faults, toggles,   \* what has happened, for the bounds
  appended,          \* history: how often an event was put into the log
  answered           \* history: events of a POST that was answered with 200

logVars    == <<m_events, m_eventsHighPrio, m_packet, m_pending_upload,
                m_upload_run>>
dispVars   == <<kindOf, current, todo, wasRunning>>
postVars   == <<tasks, request, faults, answered>>
pluginVars == <<websvcActive, m_subscribed, subscriptions, timers, toggles>>
uploadVars == <<logVars, dispVars, postVars, pluginVars, upc, appended>>

UploadThreads == {"interp", "task"}
UploadPC == {"idle", "handle", "trigger", "send", "upload", "failed", "request"}
(* the labels at which a thread answers for m_pending_upload *)
Posting(t) == upc[t] \in {"send", "upload", "failed", "request"}

UploadTypeOK ==
  /\ kindOf \in Seq(LogKinds) /\ Len(kindOf) <= MaxLogged
  /\ m_events \in Seq(LogIds) /\ Len(m_events) <= MaxElements
  /\ m_eventsHighPrio \in Seq(LogIds) /\ Len(m_eventsHighPrio) <= MaxPrio
  /\ m_packet \in Seq(LogIds) /\ Len(m_packet) <= MaxPost
  /\ m_pending_upload \in BOOLEAN
  /\ m_upload_run \in 0 .. MaxPost - 1
  /\ upc \in [UploadThreads -> UploadPC]
  /\ upc["interp"] # "request" /\ upc["task"] \notin {"handle", "trigger"}
  /\ current \in Nothing .. Batch
  /\ todo \in SUBSET Nat
  /\ tasks \in Seq(SUBSET LogIds) /\ request \in SUBSET LogIds
  /\ websvcActive \in BOOLEAN /\ m_subscribed \in BOOLEAN
  /\ subscriptions \in SUBSET Nat /\ timers \in Nat
  /\ wasRunning \in BOOLEAN /\ faults \in Nat /\ toggles \in Nat
  /\ appended \in [LogIds -> Nat] /\ answered \in SUBSET LogIds

UploadInit ==
  /\ kindOf = <<>>
  /\ m_events = <<>> /\ m_eventsHighPrio = <<>> /\ m_packet = <<>>
  /\ m_pending_upload = FALSE /\ m_upload_run = 0
  /\ upc = [t \in UploadThreads |-> "idle"]
  /\ current = Nothing /\ todo = {}
  /\ tasks = <<>> /\ request = {}
  /\ websvcActive = FALSE /\ m_subscribed = FALSE /\ subscriptions = {}
  /\ timers = 0
  /\ wasRunning = FALSE /\ faults = 0 /\ toggles = 0
  /\ appended = [e \in LogIds |-> 0] /\ answered = {}

At(t, l)   == upc[t] = l
Jump(t, l) == upc' = [upc EXCEPT ![t] = l]
(* where SensorLog returns to: the loop over the subscriptions, or the     *)
(* loop of TaskProcessor                                                   *)
Return(t)  == Jump(t, IF t = "interp" THEN "handle" ELSE "idle")

-----------------------------------------------------------------------------
(* The web service's token and the plugin's subscriptions.                 *)

(* EventInterpreter::uniqueSubscriptionID: the first index that is free *)
uniqueSubscriptionID(ids) ==
  {i \in 0 .. Cardinality(ids) : i \notin ids /\ \A j \in 0 .. i - 1 : j \in ids}

(* A new EventSubscription, with an ID of its own, is made to subscribe    *)
(* and again to unsubscribe.                                               *)
doSubscribe ==
  /\ m_subscribed' = TRUE
  /\ IF m_subscribed
     THEN UNCHANGED subscriptions
     ELSE \E id \in uniqueSubscriptionID(subscriptions) :
            subscriptions' = subscriptions \cup {id}
doUnsubscribe ==
  /\ m_subscribed' = FALSE
  /\ IF m_subscribed
     THEN \E id \in uniqueSubscriptionID(subscriptions) :
            subscriptions' = subscriptions \ {id}
     ELSE UNCHANGED subscriptions

(* WebserviceTokenConverter, and propertyChanged of the plugin: the token  *)
(* is set (also when there was one already) or removed.                    *)
SetToken ==
  /\ toggles < MaxToggles /\ toggles' = toggles + 1
  /\ websvcActive' = TRUE
  /\ doSubscribe
  /\ timers' = timers + 1                              \* scheduleBatchUploader
  /\ UNCHANGED <<logVars, dispVars, postVars, upc, appended>>

RemoveToken ==
  /\ toggles < MaxToggles /\ toggles' = toggles + 1
  /\ websvcActive' = FALSE
  /\ timers' = 0                                       \* removeEventByName
  /\ doUnsubscribe
  /\ UNCHANGED <<logVars, dispVars, postVars, upc, appended>>

-----------------------------------------------------------------------------
(* The event interpreter hands an event to each of the subscriptions it    *)
(* has copied.                                                             *)

Dispatch(e) ==
  /\ At("interp", "idle")
  /\ current' = e /\ todo' = subscriptions
  /\ Jump("interp", "handle")
  /\ UNCHANGED <<logVars, postVars, pluginVars, appended>>

RaiseEvent(k) ==
  /\ Len(kindOf) < MaxLogged
  /\ kindOf' = Append(kindOf, k)
  /\ Dispatch(Len(kindOf) + 1)
  /\ UNCHANGED wasRunning

RaiseRunning ==
  /\ ~wasRunning /\ wasRunning' = TRUE
  /\ Dispatch(Running)
  /\ UNCHANGED kindOf

RaiseBatch ==
  /\ timers > 0
  /\ Dispatch(Batch)
  /\ UNCHANGED <<kindOf, wasRunning>>

EventHandled ==
  /\ At("interp", "handle") /\ todo = {}
  /\ Jump("interp", "idle") /\ current' = Nothing
  /\ UNCHANGED <<logVars, postVars, pluginVars, kindOf, todo, wasRunning,
                 appended>>

(* handleEvent of the plugin begins for one of the subscriptions *)
NextSubscription ==
  /\ At("interp", "handle") /\ todo # {}
  /\ \E i \in todo : todo' = todo \ {i}
  /\ UNCHANGED <<kindOf, current, wasRunning, postVars>>

(* no upload when the web service is disabled *)
HandleDisabled ==
  /\ NextSubscription /\ ~websvcActive
  /\ UNCHANGED <<logVars, pluginVars, upc, appended>>

HandleRunning ==
  /\ NextSubscription /\ websvcActive /\ current = Running
  /\ timers' = timers + 1
  /\ UNCHANGED <<logVars, websvcActive, m_subscribed, subscriptions, toggles,
                 upc, appended>>

HandleBatch ==
  /\ NextSubscription /\ websvcActive /\ current = Batch
  /\ Jump("interp", "trigger")
  /\ UNCHANGED <<logVars, pluginVars, appended>>

(* SensorLog::append; a prioritised event triggers an upload, after m_lock *)
(* was released.                                                           *)
PrioOverFull == Len(m_eventsHighPrio) > MaxPrio
PrioFull   == Len(m_eventsHighPrio) >= MaxPrio
NormalFull == Len(m_events) + Len(m_packet) >= MaxElements

append ==
  /\ NextSubscription /\ websvcActive /\ current \in LogIds
  /\ LET prio == kindOf[current].prio
         full == IF prio THEN PrioFull ELSE NormalFull
     IN  /\ IF full
            THEN UNCHANGED <<m_events, m_eventsHighPrio, appended, upc>>
            ELSE /\ appended' = [appended EXCEPT ![current] = @ + 1]
                 /\ IF prio
                    THEN /\ m_eventsHighPrio' = Append(m_eventsHighPrio, current)
                         /\ UNCHANGED m_events /\ Jump("interp", "trigger")
                    ELSE /\ m_events' = Append(m_events, current)
                         /\ UNCHANGED <<m_eventsHighPrio, upc>>
  /\ UNCHANGED <<m_packet, m_pending_upload, m_upload_run, pluginVars>>

-----------------------------------------------------------------------------
(* SensorLog                                                               *)

AllEmpty == m_packet = <<>> /\ m_eventsHighPrio = <<>> /\ m_events = <<>>

TriggerAlways ==
  /\ At("interp", "trigger")
  /\ IF AllEmpty
     THEN Return("interp") /\ UNCHANGED m_pending_upload
     ELSE Jump("interp", "send") /\ m_pending_upload' = TRUE
  /\ UNCHANGED <<m_events, m_eventsHighPrio, m_packet, m_upload_run, dispVars,
                 postVars, pluginVars, appended>>
triggerUpload ==
  /\ At("interp", "trigger")
  /\ IF m_pending_upload \/ AllEmpty
     THEN Return("interp") /\ UNCHANGED m_pending_upload
     ELSE Jump("interp", "send") /\ m_pending_upload' = TRUE
  /\ UNCHANGED <<m_events, m_eventsHighPrio, m_packet, m_upload_run, dispVars,
                 postVars, pluginVars, appended>>

(* how much of a queue packet_append moves into a packet *)
Space(queue, packet) ==
  IF Len(queue) < MaxPost - Len(packet) THEN Len(queue) ELSE MaxPost - Len(packet)
Taken(queue, packet) == SubSeq(queue, 1, Space(queue, packet))
Left(queue, packet)  == SubSeq(queue, Space(queue, packet) + 1, Len(queue))

(* triggerUpload calls send_packet(false), which is perhaps a retry;       *)
(* done() calls send_packet(true)                                          *)
Followup(t) == t = "task"
ClearsAlways(t) == <<>>
PacketOf(t) == IF Followup(t) THEN <<>> ELSE m_packet
RunGoesOn(t) == (m_upload_run + IF Followup(t) THEN Len(m_packet) ELSE 0) % MaxPost
RunOf(t) == IF Followup(t) THEN (m_upload_run + Len(m_packet)) % MaxPost ELSE 0

NothingToUpload(t) == m_events = <<>> /\ PacketOf(t) = <<>>
TricklePrevention(t) == RunOf(t) # 0 /\ Len(m_events) < MaxPost
StopsUpload(t) ==
  m_eventsHighPrio = <<>> /\ (NothingToUpload(t) \/ TricklePrevention(t))

send_packet(t) ==
  /\ At(t, "send")
  /\ m_upload_run' = RunOf(t)
  /\ LET withPrio == PacketOf(t) \o Taken(m_eventsHighPrio, PacketOf(t))
     IN  IF StopsUpload(t)
         THEN /\ m_packet' = PacketOf(t)
              /\ m_pending_upload' = FALSE
              /\ Return(t)
              /\ UNCHANGED <<m_events, m_eventsHighPrio>>
         ELSE /\ m_packet' = withPrio \o Taken(m_events, withPrio)
              /\ m_eventsHighPrio' = Left(m_eventsHighPrio, PacketOf(t))
              /\ m_events' = Left(m_events, withPrio)
              /\ Jump(t, "upload")
              /\ UNCHANGED m_pending_upload
  /\ UNCHANGED <<dispVars, postVars, pluginVars, appended>>

Converts(e) == kindOf[e].converts
IdsIn(q) == {q[i] : i \in DOMAIN q}
Body == {e \in IdsIn(m_packet) : Converts(e)}

(* doUploadSensorData and WebserviceConnection::request, without m_lock:   *)
(* events that cannot be converted are left out; with none left there is   *)
(* no request.                                                             *)
upload(t) ==
  /\ At(t, "upload")
  /\ IF Body = {}
     THEN Jump(t, "failed") /\ UNCHANGED tasks
     ELSE Return(t) /\ tasks' = Append(tasks, Body)
  /\ UNCHANGED <<logVars, dispVars, request, faults, answered, pluginVars,
                 appended>>

UploadFailed(t) ==
  /\ At(t, "failed")
  /\ m_pending_upload' = FALSE
  /\ Return(t)
  /\ UNCHANGED <<m_events, m_eventsHighPrio, m_packet, m_upload_run, dispVars,
                 postVars, pluginVars, appended>>

-----------------------------------------------------------------------------
(* The task thread: TaskProcessor, URLRequestTask, the reply checkers and  *)
(* SensorLog::done.                                                        *)

TakeTask ==
  /\ At("task", "idle") /\ tasks # <<>>
  /\ request' = Head(tasks) /\ tasks' = Tail(tasks)
  /\ Jump("task", "request")
  /\ UNCHANGED <<logVars, dispVars, faults, answered, pluginVars, appended>>

(* code 200: REST_OK and, when the reply cannot be parsed, JSON_ERROR *)
Answered ==
  /\ At("task", "request")
  /\ answered' = answered \cup request
  /\ request' = {}
  /\ Jump("task", "send")
  /\ UNCHANGED <<logVars, dispVars, tasks, faults, pluginVars, appended>>

(* any other code: NETWORK_ERROR, the packet is kept for the next trigger *)
NetworkError ==
  /\ At("task", "request")
  /\ faults < MaxFaults /\ faults' = faults + 1
  /\ request' = {}
  /\ m_pending_upload' = FALSE
  /\ Jump("task", "idle")
  /\ UNCHANGED <<m_events, m_eventsHighPrio, m_packet, m_upload_run, dispVars,
                 tasks, answered, pluginVars, appended>>

-----------------------------------------------------------------------------
LogSend(t) == send_packet(t) \/ upload(t) \/ UploadFailed(t)
InterpStep == \/ EventHandled \/ HandleDisabled \/ HandleRunning \/ HandleBatch
              \/ append \/ triggerUpload \/ LogSend("interp")
TaskStep   == TakeTask \/ Answered \/ LogSend("task")

UploadNext ==
  \/ SetToken \/ RemoveToken
  \/ \E k \in LogKinds : RaiseEvent(k)
  \/ RaiseRunning \/ RaiseBatch
  \/ EventHandled \/ HandleDisabled \/ HandleRunning \/ HandleBatch \/ append
  \/ triggerUpload
  \/ \E t \in UploadThreads : send_packet(t) \/ upload(t) \/ UploadFailed(t)
  \/ TakeTask \/ Answered \/ NetworkError

(* Both threads run, the event runner raises the recurring event, and a    *)
(* request is answered unless it is one of the MaxFaults that fail.        *)
UploadFairness == /\ WF_uploadVars(InterpStep)
                  /\ WF_uploadVars(TaskStep)
                  /\ WF_uploadVars(RaiseBatch)

UploadSpec == UploadInit /\ [][UploadNext]_uploadVars /\ UploadFairness

-----------------------------------------------------------------------------
(* Properties                                                              *)

InLog(e) == \E q \in {m_events, m_eventsHighPrio, m_packet} : e \in IdsIn(q)

(* m_pending_upload is the right to send: it is set exactly while one      *)
(* thread is between triggerUpload and the end of the upload, or one       *)
(* request waits for its answer, and never two of them.  It is tested, set *)
(* and cleared by two threads in five places, with m_lock released between *)
(* them.                                                                   *)
OneUpload ==
  /\ m_pending_upload <=> tasks # <<>> \/ \E t \in UploadThreads : Posting(t)
  /\ ~(Posting("interp") /\ Posting("task"))
  /\ tasks # <<>> => Len(tasks) = 1 /\ \A t \in UploadThreads : ~Posting(t)

(* No event is lost between the queues, the packet and the network: an     *)
(* event that append has taken is in the log until a request that carried  *)
(* it was answered; only events that cannot be converted go unsent.  So    *)
(* the packet, which upload() reads without m_lock and done() clears, is   *)
(* not changed in between.                                                 *)
NoEventLost ==
  \A e \in LogIds : appended[e] > 0 /\ Converts(e) => InLog(e) \/ e \in answered

(* Every event that append has taken and that can be converted leaves the  *)
(* log, however prioritised events, retries and the prevention of          *)
(* trickling are mixed, as long as the web service stays active; unless a  *)
(* full packet holds nothing that can be converted, which upload() refuses *)
(* again and again.                                                        *)
Blocked == Len(m_packet) = MaxPost /\ Body = {}
LogIsEmptied ==
  <>[]websvcActive => <>[](\A e \in LogIds : InLog(e) /\ Converts(e) => Blocked)
=============================================================================
