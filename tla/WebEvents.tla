----------------------------- MODULE WebEvents ------------------------------
(***************************************************************************)
(* Web sessions and the events clients subscribe to: SessionManager,       *)
(* Session, EventSubscriptionSession, EventCollector, EventRequestHandler  *)
(* and the internal relay of the event interpreter.                        *)
(*                                                                         *)
(* The workers are the threads of the web server; each handles one request *)
(* at a time.  The event interpreter delivers events to the collectors and *)
(* cleans up the sessions.  An EventSubscriptionSession and its            *)
(* EventCollector are one object here, a collector.  A session and a       *)
(* collector live as long as somebody holds a shared_ptr to them; the last *)
(* one to let go destroys them and cancels their subscriptions.            *)
(***************************************************************************)
EXTENDS Naturals, Sequences, FiniteSets

CONSTANTS
  Workers,
  Tokens,        \* tokens that createSession can generate
  OldTokens,     \* tokens of an earlier run of the program
  EventNames,
  NamesOf,       \* the event names the client of a session asks for
  MaxSessions,   \* m_maxSessionCount
  SessionTimeout,
  MaxRequests, MaxCollectors, MaxDelivered, MaxWebTime   \* bounds

NoToken == "none"

ASSUME WebAssumption ==
  /\ IsFiniteSet(Workers) /\ EventNames # {}
  /\ Tokens \cap OldTokens = {} /\ NoToken \notin Tokens \cup OldTokens
  /\ NamesOf \in [Tokens -> SUBSET EventNames]
  /\ MaxSessions \in Nat /\ SessionTimeout \in Nat
  /\ MaxRequests \in Nat /\ MaxCollectors \in Nat /\ MaxDelivered \in Nat
  /\ MaxWebTime \in Nat

AllTokens  == Tokens \cup OldTokens
Collectors == 1 .. MaxCollectors
None       == 0
(* subscription IDs: the event's name and a number, when the name is taken *)
SubIDs     == EventNames \X (0 .. MaxCollectors)
Subscription == [id : SubIDs, target : Collectors]

VARIABLES
  webNow,
  m_Sessions,       \* token -> "absent", "null" or "live"
  generated,        \* tokens createSession has given out
  relaySet,         \* m_pRelayTarget: the cleanup event has been scheduled
  touched, usage,   \* m_LastTouched, m_UsageCount of a session
  m_subscription,   \* the collector a session holds, or None
  subMutex,         \* m_SubscriptionMutex of a session is held
  collectors,       \* number of collectors created so far
  destroyed,        \* collectors whose destructor has run
  relayIDs,         \* EventRelayTarget::m_Subscriptions of a collector
  m_PendingEvents, m_EventArrived,  \* of a collector: queue, SyncEvent state
  m_Subscriptions,  \* of the interpreter: sequence of [id, target]
  m_IDTargetMap,    \* of the relay: ID -> collector or None
  wpc, wreq, wtoken, wcol, wname, wid,   \* of a worker
  ipcWeb, toDeliver, target,                  \* of the interpreter
  mixed,            \* history: collectors that have shared an ID with another
  waitEnded,        \* history: when the last wait of a session in event/get
                    \* ended, 0 when none has
  requests, delivered, crashed

sessVars == <<m_Sessions, generated, relaySet, touched, usage, waitEnded>>
colVars  == <<m_subscription, collectors, destroyed, relayIDs>>
evtVars  == <<m_PendingEvents, m_EventArrived>>
relVars  == <<m_Subscriptions, m_IDTargetMap>>
wrkVars  == <<wpc, wreq, wtoken, wcol, wname, wid>>
intVars  == <<ipcWeb, toDeliver, target, delivered, mixed>>
webVars  == <<webNow, sessVars, colVars, subMutex, evtVars, relVars, wrkVars,
              intVars, requests, crashed>>

Requests == {"login", "logout", "subscribe", "unsubscribe", "get"}
(* a get after use() and before unuse() *)
Polling  == {"loop", "enter", "waiting", "leave"}
WebPC    == {"idle", "touch", "register", "newid", "relay", "assert", "push",
             "build", "pop", "finish"} \cup Requests \cup Polling

WebTypeOK ==
  /\ webNow \in 0 .. MaxWebTime
  /\ m_Sessions \in [AllTokens -> {"absent", "null", "live"}]
  /\ generated \subseteq Tokens /\ relaySet \in BOOLEAN
  /\ touched \in [Tokens -> 0 .. MaxWebTime]
  /\ usage \in [Tokens -> 0 .. Cardinality(Workers)]
  /\ waitEnded \in [Tokens -> 0 .. MaxWebTime]
  /\ m_subscription \in [Tokens -> Collectors \cup {None}]
  /\ subMutex \subseteq Tokens
  /\ collectors \in 0 .. MaxCollectors /\ destroyed \subseteq 1 .. collectors
  /\ relayIDs \in [Collectors -> SUBSET SubIDs]
  /\ m_PendingEvents \in [Collectors -> Seq(1 .. MaxDelivered)]
  /\ m_EventArrived \in [Collectors -> BOOLEAN]
  /\ m_Subscriptions \in Seq(Subscription)
  /\ m_IDTargetMap \in [SubIDs -> Collectors \cup {None}]
  /\ wpc \in [Workers -> WebPC] /\ wreq \in [Workers -> Requests]
  /\ wtoken \in [Workers -> Tokens \cup {NoToken}]
  /\ wcol \in [Workers -> Collectors \cup {None}]
  /\ wname \in [Workers -> EventNames] /\ wid \in [Workers -> SubIDs]
  /\ ipcWeb \in {"idle", "lookup", "deliver", "signal"}
  /\ toDeliver \in Seq(Subscription) /\ target \in Collectors \cup {None}
  /\ mixed \subseteq Collectors
  /\ requests \in 0 .. MaxRequests /\ delivered \in 0 .. MaxDelivered
  /\ crashed \in BOOLEAN

AnyID == <<CHOOSE n \in EventNames : TRUE, 0>>

WebInit ==
  /\ webNow = 0
  /\ m_Sessions = [t \in AllTokens |-> "absent"]
  /\ generated = {} /\ relaySet = FALSE
  /\ touched = [t \in Tokens |-> 0] /\ usage = [t \in Tokens |-> 0]
  /\ waitEnded = [t \in Tokens |-> 0]
  /\ m_subscription = [t \in Tokens |-> None] /\ subMutex = {}
  /\ collectors = 0 /\ destroyed = {}
  /\ relayIDs = [c \in Collectors |-> {}]
  /\ m_PendingEvents = [c \in Collectors |-> <<>>]
  /\ m_EventArrived = [c \in Collectors |-> FALSE]
  /\ m_Subscriptions = <<>> /\ m_IDTargetMap = [i \in SubIDs |-> None]
  /\ wpc = [w \in Workers |-> "idle"] /\ wreq = [w \in Workers |-> "login"]
  /\ wtoken = [w \in Workers |-> NoToken] /\ wcol = [w \in Workers |-> None]
  /\ wname = [w \in Workers |-> AnyID[1]] /\ wid = [w \in Workers |-> AnyID]
  /\ ipcWeb = "idle" /\ toDeliver = <<>> /\ target = None /\ mixed = {}
  /\ requests = 0 /\ delivered = 0 /\ crashed = FALSE

WAt(w, l) == wpc[w] = l /\ ~crashed
WGo(w, l) == wpc' = [wpc EXCEPT ![w] = l]
Crash     == crashed' = TRUE /\ UNCHANGED <<webNow, sessVars, colVars, subMutex,
               evtVars, relVars, wrkVars, intVars, requests>>

-----------------------------------------------------------------------------
(* EventRelayTarget and EventInterpreter: subscriptions                    *)

SubscribedIDs == {m_Subscriptions[i].id : i \in DOMAIN m_Subscriptions}

(* the entries of a vector at the positions in at, in their order *)
Kept(s, at) ==
  LET Nth(j) == CHOOSE k \in at : Cardinality({m \in at : m < k}) = j - 1
  IN  [j \in 1 .. Cardinality(at) |-> s[Nth(j)]]

(* unsubscribeFrom for each of the IDs in released[c], and what            *)
(* ~EventRelayTarget does: the ID leads nowhere, and the interpreter       *)
(* removes the first subscription with it.                                 *)
Removed(released) ==
  {k \in DOMAIN m_Subscriptions :
     LET i == m_Subscriptions[k].id
     IN  Cardinality({j \in 1 .. k - 1 : m_Subscriptions[j].id = i})
           < Cardinality({c \in Collectors : i \in released[c]})}
CancelKeepsTarget(released) ==
  /\ m_Subscriptions' = Kept(m_Subscriptions, DOMAIN m_Subscriptions \ Removed(released))
  /\ relayIDs' = [c \in Collectors |-> relayIDs[c] \ released[c]]
  /\ UNCHANGED m_IDTargetMap
Cancel(released) ==
  /\ m_Subscriptions' = Kept(m_Subscriptions, DOMAIN m_Subscriptions \ Removed(released))
  /\ relayIDs' = [c \in Collectors |-> relayIDs[c] \ released[c]]
  /\ m_IDTargetMap' = [i \in SubIDs |-> IF \E c \in Collectors : i \in released[c]
                                        THEN None ELSE m_IDTargetMap[i]]

(* What is destroyed when worker w lets go of its session and collector,   *)
(* or the maps of sessions and subscriptions become sess and subs.         *)
LostSessions(sess, ws) ==
  {t \in Tokens : /\ t \in generated /\ sess[t] # "live"
                  /\ \A v \in ws : wtoken[v] # t}
LostCollectors(sess, subs, ws) ==
  {c \in 1 .. collectors :
     /\ c \notin destroyed
     /\ \A t \in Tokens \ LostSessions(sess, ws) : subs[t] # c
     /\ \A v \in ws : wcol[v] # c}
Destroy(sess, subs, ws, released) ==
  LET lost == LostCollectors(sess, subs, ws) IN
  /\ destroyed' = destroyed \cup lost
  /\ Cancel([c \in Collectors |-> IF c \in lost THEN relayIDs[c] ELSE released[c]])

NoneReleased == [c \in Collectors |-> {}]

-----------------------------------------------------------------------------
(* The beginning of a request: httpRequestCallback, jsonHandler            *)

(* for the bound on collectors *)
Subscribing == Cardinality({w \in Workers : wpc[w] # "idle" /\ wreq[w] = "subscribe"})

(* getSession makes an entry for a token that is not known; without a      *)
(* session only a login goes on.                                           *)
Receive(w, r, t, n) ==
  /\ WAt(w, "idle") /\ requests < MaxRequests
  /\ r = "subscribe" => collectors + Subscribing < MaxCollectors
  /\ requests' = requests + 1
  /\ wreq' = [wreq EXCEPT ![w] = r] /\ wname' = [wname EXCEPT ![w] = n]
  /\ IF t # NoToken /\ m_Sessions[t] = "live"
     THEN /\ wtoken' = [wtoken EXCEPT ![w] = t]
          /\ WGo(w, "touch")
          /\ UNCHANGED m_Sessions
     ELSE /\ m_Sessions' = IF t = NoToken THEN m_Sessions
                           ELSE [m_Sessions EXCEPT ![t] = "null"]
          /\ WGo(w, IF r = "login" THEN "register" ELSE "idle")
          /\ UNCHANGED wtoken
  /\ UNCHANGED <<webNow, generated, relaySet, touched, usage, waitEnded, colVars,
                 subMutex, evtVars, relVars, wcol, wid, intVars, crashed>>

touch(w) ==
  /\ WAt(w, "touch")
  /\ touched' = [touched EXCEPT ![wtoken[w]] = webNow]
  /\ WGo(w, IF wreq[w] = "login" THEN "finish" ELSE wreq[w])
  /\ UNCHANGED <<webNow, m_Sessions, generated, relaySet, usage, waitEnded,
                 colVars, subMutex, evtVars, relVars, wreq, wtoken, wcol, wname, wid,
                 intVars, requests, crashed>>

(* registerSession and registerApplicationSession; the user is inherited   *)
(* before anybody else knows the token                                     *)
LimitReached == Cardinality({t \in AllTokens : m_Sessions[t] # "absent"})
                  >= MaxSessions
registerSession(w) ==
  /\ WAt(w, "register")
  /\ IF LimitReached \/ generated = Tokens
     THEN UNCHANGED sessVars
     ELSE \E t \in Tokens \ generated :
            /\ m_Sessions' = [m_Sessions EXCEPT ![t] = "live"]
            /\ generated' = generated \cup {t} /\ relaySet' = TRUE
            /\ touched' = [touched EXCEPT ![t] = webNow]
            /\ UNCHANGED <<usage, waitEnded>>
  /\ WGo(w, "idle")
  /\ UNCHANGED <<webNow, colVars, subMutex, evtVars, relVars, wreq, wtoken,
                 wcol, wname, wid, intVars, requests, crashed>>

removeSession(w) ==
  /\ WAt(w, "logout")
  /\ m_Sessions' = [m_Sessions EXCEPT ![wtoken[w]] = "absent"]
  /\ WGo(w, "finish")
  /\ UNCHANGED <<webNow, generated, relaySet, touched, usage, waitEnded, colVars,
                 subMutex, evtVars, relVars, wreq, wtoken, wcol, wname, wid, intVars,
                 requests, crashed>>

(* The request is answered and the worker lets go of what it holds.        *)
Finish(w) ==
  /\ WAt(w, "finish")
  /\ WGo(w, "idle")
  /\ wtoken' = [wtoken EXCEPT ![w] = NoToken]
  /\ wcol' = [wcol EXCEPT ![w] = None]
  /\ Destroy(m_Sessions, m_subscription, Workers \ {w}, NoneReleased)
  /\ UNCHANGED <<webNow, sessVars, m_subscription, collectors, subMutex,
                 evtVars, wreq, wname, wid, intVars, requests,
                 crashed>>

-----------------------------------------------------------------------------
(* event/subscribe and event/unsubscribe.  ID, relay and interpreter are   *)
(* looked at under m_SubscriptionsMutex each for itself.                   *)

Named(c, n) == {i \in relayIDs[c] : i[1] = n}
NamedOf(c, n) == [d \in Collectors |-> IF d = c THEN Named(d, n) ELSE {}]

(* the collector is made if there is none; no double subscriptions *)
subscribe(w) ==
  LET t == wtoken[w]
      c == IF m_subscription[t] = None THEN collectors + 1 ELSE m_subscription[t]
  IN
  /\ WAt(w, "subscribe") /\ t \notin subMutex
  /\ subMutex' = subMutex \cup {t}
  /\ collectors' = IF c > collectors THEN c ELSE collectors
  /\ m_subscription' = [m_subscription EXCEPT ![t] = c]
  /\ wcol' = [wcol EXCEPT ![w] = c]
  /\ Cancel(NamedOf(c, wname[w]))
  /\ WGo(w, "newid")
  /\ UNCHANGED <<webNow, sessVars, destroyed, evtVars, wreq, wtoken, wname, wid,
                 intVars, requests, crashed>>

(* the first number with which the name is not subscribed *)
FreeIDs(n) == {i \in SubIDs : /\ i[1] = n /\ i \notin SubscribedIDs
                              /\ \A k \in 0 .. i[2] - 1 : <<n, k>> \in SubscribedIDs}
NewID(w) ==
  /\ WAt(w, "newid")
  /\ \E i \in FreeIDs(wname[w]) : wid' = [wid EXCEPT ![w] = i]
  /\ WGo(w, "relay")
  /\ UNCHANGED <<webNow, sessVars, colVars, subMutex, evtVars, relVars, wreq,
                 wtoken, wcol, wname, intVars, requests, crashed>>

(* other collectors with the ID, or with an entry of it that the           *)
(* interpreter has or still has to deliver to                              *)
SharedWith(c, i) ==
  {d \in Collectors \ {c} :
     \/ i \in relayIDs[d]
     \/ \E k \in DOMAIN m_Subscriptions : m_Subscriptions[k] = [id |-> i, target |-> d]
     \/ \E k \in DOMAIN toDeliver : toDeliver[k] = [id |-> i, target |-> d]}

registerSubscription(w) ==
  /\ WAt(w, "relay")
  /\ m_IDTargetMap' = [m_IDTargetMap EXCEPT ![wid[w]] = wcol[w]]
  /\ relayIDs' = [relayIDs EXCEPT ![wcol[w]] = @ \cup {wid[w]}]
  /\ mixed' = LET others == SharedWith(wcol[w], wid[w])
              IN  IF others = {} THEN mixed ELSE mixed \cup others \cup {wcol[w]}
  /\ WGo(w, "assert")
  /\ UNCHANGED <<webNow, sessVars, m_subscription, collectors, destroyed,
                 subMutex, evtVars, m_Subscriptions, wreq, wtoken, wcol, wname,
                 wid, ipcWeb, toDeliver, target, delivered, requests, crashed>>

(* assert(subscriptionByID(_subscription->getID()) == NULL) *)
AssertNew(w) ==
  /\ WAt(w, "assert")
  /\ IF wid[w] \in SubscribedIDs
     THEN Crash
     ELSE /\ WGo(w, "push")
          /\ UNCHANGED <<webNow, sessVars, colVars, subMutex, evtVars, relVars,
                         wreq, wtoken, wcol, wname, wid, intVars, requests,
                         crashed>>

AddSubscription(w) ==
  /\ WAt(w, "push")
  /\ m_Subscriptions' = Append(m_Subscriptions, [id |-> wid[w], target |-> wcol[w]])
  /\ subMutex' = subMutex \ {wtoken[w]}
  /\ WGo(w, "finish")
  /\ UNCHANGED <<webNow, sessVars, colVars, evtVars, m_IDTargetMap, wreq, wtoken,
                 wcol, wname, wid, intVars, requests, crashed>>

(* the name is unsubscribed, if it was subscribed; the collector is let go *)
(* with all its other names                                                *)
unsubscribe(w) ==
  LET t    == wtoken[w]
      c    == m_subscription[t]
      subs == [m_subscription EXCEPT ![t] = None]
  IN
  /\ WAt(w, "unsubscribe") /\ t \notin subMutex
  /\ m_subscription' = subs
  /\ Destroy(m_Sessions, subs, Workers, NamedOf(c, wname[w]))
  /\ WGo(w, "finish")
  /\ UNCHANGED <<webNow, sessVars, collectors, subMutex, evtVars, wreq, wtoken,
                 wcol, wname, wid, intVars, requests, crashed>>

-----------------------------------------------------------------------------
(* event/get                                                               *)

GetUnchanged == UNCHANGED <<webNow, m_Sessions, generated, relaySet, colVars,
                            subMutex, relVars, wreq, wtoken, wname, wid, intVars,
                            requests, crashed>>

use(t) == [usage EXCEPT ![t] = @ + 1]
(* getEventSubscription takes no lock *)
get(w) ==
  /\ WAt(w, "get")
  /\ LET c == m_subscription[wtoken[w]] IN
     IF c = None
     THEN WGo(w, "finish") /\ UNCHANGED <<wcol, usage>>
     ELSE /\ wcol' = [wcol EXCEPT ![w] = c]
          /\ usage' = use(wtoken[w])
          /\ WGo(w, "loop")
  /\ GetUnchanged /\ UNCHANGED <<touched, waitEnded, evtVars>>

Pending(w) == m_PendingEvents[wcol[w]] # <<>>

(* One round of the loop: the connection may be gone, the timeout may be   *)
(* over; otherwise waitForEvent.                                           *)
PollRound(w) ==
  /\ WAt(w, "loop")
  /\ \/ WGo(w, "leave")
     \/ ~Pending(w) /\ WGo(w, "enter")
  /\ GetUnchanged /\ UNCHANGED <<touched, usage, waitEnded, evtVars, wcol>>

(* SyncEvent::waitFor begins *)
EnterWait(w) ==
  /\ WAt(w, "enter")
  /\ m_EventArrived' = [m_EventArrived EXCEPT ![wcol[w]] = FALSE]
  /\ WGo(w, "waiting")
  /\ GetUnchanged /\ UNCHANGED <<touched, usage, waitEnded, m_PendingEvents, wcol>>

WaitEnds(w) ==
  /\ WGo(w, IF Pending(w) THEN "leave" ELSE "loop")
  /\ GetUnchanged /\ UNCHANGED <<touched, usage, waitEnded, evtVars, wcol>>

Signalled(w) == WAt(w, "waiting") /\ m_EventArrived[wcol[w]] /\ WaitEnds(w)
(* kSocketDisconnectTimeoutMS, or what is left of the request's timeout *)
TimedOut(w) == WAt(w, "waiting") /\ WaitEnds(w)

Unused(t) == [usage EXCEPT ![t] = IF @ = 0 THEN 0 ELSE @ - 1]
UnuseKeepsTime(w) ==
  /\ WAt(w, "leave")
  /\ usage' = Unused(wtoken[w])
  /\ waitEnded' = [waitEnded EXCEPT ![wtoken[w]] = webNow]
  /\ WGo(w, "build")
  /\ GetUnchanged /\ UNCHANGED <<touched, evtVars, wcol>>
unuse(w) ==
  /\ WAt(w, "leave")
  /\ usage' = Unused(wtoken[w])
  /\ touched' = [touched EXCEPT ![wtoken[w]] = webNow]
  /\ waitEnded' = [waitEnded EXCEPT ![wtoken[w]] = webNow]
  /\ WGo(w, "build")
  /\ GetUnchanged /\ UNCHANGED <<evtVars, wcol>>

(* buildEventResponse: hasEvent takes no lock *)
hasEvent(w) ==
  /\ WAt(w, "build")
  /\ WGo(w, IF Pending(w) THEN "pop" ELSE "finish")
  /\ GetUnchanged /\ UNCHANGED <<touched, usage, waitEnded, evtVars, wcol>>

popEvent(w) ==
  /\ WAt(w, "pop")
  /\ IF ~Pending(w)
     THEN Crash                       \* front() of an empty vector
     ELSE /\ m_PendingEvents' = [m_PendingEvents EXCEPT ![wcol[w]] = Tail(@)]
          /\ WGo(w, "build")
          /\ GetUnchanged /\ UNCHANGED <<touched, usage, waitEnded, m_EventArrived, wcol>>

-----------------------------------------------------------------------------
(* The event interpreter                                                   *)

IAt(l) == ipcWeb = l /\ ~crashed
InterpUnchangedWeb == UNCHANGED <<webNow, sessVars, colVars, subMutex, relVars,
                                  wrkVars, requests, mixed>>

(* executePendingEvent copies the subscriptions *)
DispatchName(n) ==
  /\ IAt("idle") /\ delivered < MaxDelivered
  /\ delivered' = delivered + 1
  /\ toDeliver' = Kept(m_Subscriptions, {k \in DOMAIN m_Subscriptions : m_Subscriptions[k].id[1] = n})
  /\ ipcWeb' = "lookup"
  /\ InterpUnchangedWeb /\ UNCHANGED <<evtVars, target, crashed>>

(* the relay looks up the target of a subscription ... *)
LookupTarget ==
  /\ IAt("lookup")
  /\ IF toDeliver = <<>>
     THEN ipcWeb' = "idle" /\ UNCHANGED <<toDeliver, target>>
     ELSE /\ target' = m_IDTargetMap[Head(toDeliver).id]
          /\ toDeliver' = Tail(toDeliver)
          /\ ipcWeb' = IF target' = None THEN "lookup" ELSE "deliver"
  /\ InterpUnchangedWeb /\ UNCHANGED <<evtVars, delivered, crashed>>

(* ... and calls it.  The collector may have been destroyed since: the     *)
(* call then ends the program or has no effect.                            *)
Deliver ==
  /\ IAt("deliver")
  /\ IF target \in destroyed
     THEN /\ crashed' \in BOOLEAN /\ ipcWeb' = "lookup" /\ UNCHANGED evtVars
     ELSE /\ m_PendingEvents' = [m_PendingEvents EXCEPT ![target] =
                                   Append(@, delivered)]
          /\ ipcWeb' = "signal" /\ UNCHANGED <<m_EventArrived, crashed>>
  /\ InterpUnchangedWeb /\ UNCHANGED <<toDeliver, target, delivered>>

SignalArrival ==
  /\ IAt("signal")
  /\ IF target \in destroyed
     THEN crashed' \in BOOLEAN /\ UNCHANGED m_EventArrived
     ELSE /\ m_EventArrived' = [m_EventArrived EXCEPT ![target] = TRUE]
          /\ UNCHANGED crashed
  /\ ipcWeb' = "lookup"
  /\ InterpUnchangedWeb
  /\ UNCHANGED <<m_PendingEvents, toDeliver, target, delivered>>

isStillValid(t) == usage[t] # 0 \/ touched[t] + SessionTimeout > webNow

(* the event webSessionCleanup; a session nobody holds is destroyed *)
NullsAreKept == [t \in AllTokens |->
                   IF m_Sessions[t] # "live" \/ isStillValid(t)
                   THEN m_Sessions[t] ELSE "absent"]
CleanedUp == [t \in AllTokens |->
                IF m_Sessions[t] = "live" /\ isStillValid(t) THEN "live"
                ELSE "absent"]
cleanupSessions ==
  /\ IAt("idle") /\ relaySet
  /\ m_Sessions' = CleanedUp
  /\ Destroy(CleanedUp, m_subscription, Workers, NoneReleased)
  /\ UNCHANGED <<webNow, generated, relaySet, touched, usage, waitEnded,
                 m_subscription, collectors, subMutex, evtVars, wrkVars, intVars,
                 requests, crashed>>

(* A unit of time passes while no request is handled, other than one that  *)
(* waits for events: SessionTimeout is long against the rest.              *)
PassTime ==
  /\ webNow < MaxWebTime /\ ~crashed
  /\ \A w \in Workers : wpc[w] \in {"idle", "loop", "enter", "waiting"}
  /\ webNow' = webNow + 1
  /\ UNCHANGED <<sessVars, colVars, subMutex, evtVars, relVars, wrkVars, intVars,
                 requests, crashed>>

-----------------------------------------------------------------------------
(* the client of a session asks for the names of that session *)
NamesAsked(r, t) == IF r \in {"subscribe", "unsubscribe"} /\ t \in Tokens
                    THEN NamesOf[t] ELSE {AnyID[1]}
Arrive(w) ==
  \E r \in Requests : \E t \in generated \cup OldTokens \cup {NoToken} :
    \E n \in NamesAsked(r, t) : Receive(w, r, t, n)

Handle(w) ==
  \/ touch(w) \/ registerSession(w) \/ removeSession(w) \/ Finish(w)
  \/ subscribe(w) \/ NewID(w) \/ registerSubscription(w) \/ AssertNew(w)
  \/ AddSubscription(w) \/ unsubscribe(w)
  \/ get(w) \/ PollRound(w) \/ EnterWait(w) \/ Signalled(w) \/ TimedOut(w)
  \/ unuse(w) \/ hasEvent(w) \/ popEvent(w)
InterpDelivers == LookupTarget \/ Deliver \/ SignalArrival

WebNext ==
  \/ \E w \in Workers : Arrive(w) \/ Handle(w)
  \/ \E n \in EventNames : DispatchName(n)
  \/ LookupTarget \/ Deliver \/ SignalArrival
  \/ cleanupSessions \/ PassTime

(* The threads run, the wait for an event ends after its timeout, and the  *)
(* recurring cleanup event is handled.                                     *)
WebFairness == /\ \A w \in Workers : WF_webVars(Handle(w))
               /\ WF_webVars(InterpDelivers)
               /\ SF_webVars(cleanupSessions)

WebSpec == WebInit /\ [][WebNext]_webVars /\ WebFairness

-----------------------------------------------------------------------------
(* Properties                                                              *)

(* The relay keeps raw pointers to collectors: none is left when a         *)
(* collector is destroyed, by an unsubscribe, a logout, the cleanup of     *)
(* sessions or the end of a get that held it last.  What the interpreter   *)
(* has subscribed leads to the collector that asked for it, unless two     *)
(* were given the same ID: uniqueSubscriptionID, registerSubscription and  *)
(* subscribe take the lock each for itself.                                *)
NoDanglingTarget ==
  /\ \A i \in SubIDs : m_IDTargetMap[i] \notin destroyed
  /\ \A k \in DOMAIN m_Subscriptions :
       m_Subscriptions[k].target \notin mixed
         => m_IDTargetMap[m_Subscriptions[k].id] = m_Subscriptions[k].target

(* A client gets no event twice, also when it subscribes again while       *)
(* events are delivered, unless it was given an ID of another client.      *)
PendingOnce ==
  \A c \in Collectors \ mixed : \A i, j \in DOMAIN m_PendingEvents[c] :
    i < j => m_PendingEvents[c][i] < m_PendingEvents[c][j]

(* The cleanup never takes a session away while a client waits in          *)
(* event/get with it, however long, nor before the timeout is over after   *)
(* the last of these waits: several requests of the session use() and      *)
(* unuse() it, and may have touched it long before they end.               *)
LoggedOut(t) == \E w \in Workers : wpc[w] = "logout" /\ wtoken[w] = t
WaitedFor(t) == \E w \in Workers : wpc[w] \in Polling /\ wtoken[w] = t
WaitingKeepsSession ==
  [][\A t \in Tokens :
       m_Sessions[t] = "live" /\ m_Sessions'[t] = "absent"
         => \/ LoggedOut(t)
            \/ ~WaitedFor(t) /\ waitEnded[t] + SessionTimeout <= webNow]_webVars

(* An event that is pending when a client begins to wait, or arrives while *)
(* it does, is returned, also when the signal falls between the test of    *)
(* m_PendingEvents and waitFor, which resets the SyncEvent.                *)
PendingIsReturned ==
  <>[](\A w \in Workers, c \in Collectors :
         wcol[w] = c /\ wpc[w] \in {"enter", "waiting"}
           => m_PendingEvents[c] = <<>> \/ crashed)

(* The entries that getSession makes for unknown tokens, and sessions that *)
(* have expired, are removed, so that the limit on sessions does not lock  *)
(* clients out for good; once there has been a session, because the first  *)
(* one schedules the cleanup.                                              *)
Useless(t) == \/ m_Sessions[t] = "null"
              \/ m_Sessions[t] = "live" /\ ~isStillValid(t)
EntriesAreFreed ==
  <>[](\A t \in AllTokens : relaySet /\ Useless(t) => crashed)

(* Requests that wait and entries of sessions come to an end *)
WebEventsGoOn == PendingIsReturned /\ EntriesAreFreed

(* The relay leads to living collectors and gives each of them an event     *)
(* once                                                                     *)
RelayIsExact == NoDanglingTarget /\ PendingOnce
=============================================================================
