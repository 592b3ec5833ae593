--------------------------- MODULE WebEventsProofs --------------------------
(***************************************************************************)
(* Proofs about WebEvents, for every set of workers, sessions and event    *)
(* names, and any number of requests, collectors and events.               *)
(***************************************************************************)
EXTENDS WebEvents, FiniteSetTheorems, FunctionTheorems, SequenceTheorems,
        NaturalsInduction, WellFoundedInduction, TLAPS

Living == 1 .. collectors \ destroyed
(* A session object exists as long as the map or a request has it. *)
Held(t) == t \in generated /\ (m_Sessions[t] = "live" \/ \E w \in Workers : wtoken[w] = t)

SessionsOK ==
  /\ \A t \in OldTokens : m_Sessions[t] # "live"
  /\ \A t \in Tokens : m_Sessions[t] = "live" \/ m_subscription[t] # None => t \in generated
  /\ \A w \in Workers : wtoken[w] = NoToken <=> wpc[w] \in {"idle", "register"}
  /\ \A w \in Workers : wtoken[w] # NoToken => wtoken[w] \in generated
  /\ \A w \in Workers : wpc[w] \in Requests => wreq[w] = wpc[w]

PollingWith(t) == {w \in Workers : wpc[w] \in Polling /\ wtoken[w] = t}
UsageOK == usage = [t \in Tokens |-> Cardinality(PollingWith(t))]

(* The end of a wait extends the session, as a touch() does, to the time   *)
(* that has come.                                                          *)
LeaseOK == \A t \in Tokens : waitEnded[t] <= touched[t] /\ touched[t] <= webNow

ToSubscribe == {w \in Workers : wpc[w] \in {"touch", "subscribe"} /\ wreq[w] = "subscribe"}
RoomOK == collectors + Cardinality(ToSubscribe) <= MaxCollectors

(* A collector belongs to one session; who has a session or a collector    *)
(* keeps it alive.                                                         *)
InMutex   == {"newid", "relay", "assert", "push"}
HasColl   == Polling \cup InMutex \cup {"build", "pop"}
OwnersOK ==
  /\ \A s, t \in Tokens : m_subscription[s] = m_subscription[t] /\ m_subscription[s] # None
       => s = t
  /\ \A t \in Tokens : m_subscription[t] <= collectors
  /\ \A t \in Tokens : Held(t) /\ m_subscription[t] # None => m_subscription[t] \in Living
  /\ \A w \in Workers : wpc[w] \in HasColl => wcol[w] # None
  /\ \A w \in Workers : wcol[w] # None => wcol[w] \in Living

(* One request at a time changes the subscriptions of a session.           *)
MutexOK ==
  /\ \A w \in Workers : wpc[w] \in InMutex =>
       wtoken[w] \in subMutex /\ m_subscription[wtoken[w]] = wcol[w]
  /\ \A v, w \in Workers : wpc[v] \in InMutex /\ wpc[w] \in InMutex /\ wtoken[v] = wtoken[w]
       => v = w
  /\ \A w \in Workers : wpc[w] \in {"newid", "relay"} => Named(wcol[w], wname[w]) = {}
  /\ \A w \in Workers : wpc[w] = "relay" => wid[w][1] = wname[w]
  /\ \A w \in Workers : wpc[w] \in {"assert", "push"} => wid[w] \in relayIDs[wcol[w]]

(* The IDs of a collector lead to it, and its entries are the only ones    *)
(* with them, unless it has shared one.                                    *)
Leads(c, i) ==
  /\ m_IDTargetMap[i] = c
  /\ \A k \in DOMAIN m_Subscriptions : m_Subscriptions[k].id = i => m_Subscriptions[k].target = c
  /\ \A j, k \in DOMAIN m_Subscriptions :
       m_Subscriptions[j].id = i /\ m_Subscriptions[k].id = i => j = k
RelayOK ==
  /\ \A c \in Collectors : relayIDs[c] # {} => c \in Living
  /\ \A i \in SubIDs : m_IDTargetMap[i] # None => i \in relayIDs[m_IDTargetMap[i]]
  /\ \A c \in Collectors : \A i, j \in relayIDs[c] : i[1] = j[1] => i = j
  /\ \A c, d \in Collectors : c # d /\ relayIDs[c] \cap relayIDs[d] # {} => c \in mixed
EntriesOK ==
  /\ \A c \in Collectors \ mixed : \A i \in relayIDs[c] : Leads(c, i)
  /\ \A k \in DOMAIN m_Subscriptions :
       m_Subscriptions[k].target \notin mixed
         => m_Subscriptions[k].id \in relayIDs[m_Subscriptions[k].target]
  /\ \A w \in Workers : wpc[w] \in {"assert", "push"} /\ wcol[w] \notin mixed
       => wid[w] \notin SubscribedIDs

(* What is still to be delivered of an event                               *)
Served(c) == \/ \E k \in DOMAIN m_PendingEvents[c] : m_PendingEvents[c][k] = delivered
             \/ ipcWeb = "deliver" /\ target = c
TodoOK ==
  /\ \A c \in Collectors \ mixed : \A k \in DOMAIN toDeliver :
       toDeliver[k].id \in relayIDs[c] => toDeliver[k].target = c
  /\ \A j, k \in DOMAIN toDeliver : j # k /\ toDeliver[j].target = toDeliver[k].target => toDeliver[j].target \in mixed
  /\ \A c \in Collectors \ mixed : Served(c) => \A k \in DOMAIN toDeliver : toDeliver[k].target # c

EventsOK ==
  /\ ipcWeb # "idle" => delivered >= 1
  /\ ipcWeb \in {"deliver", "signal"} => target # None
  /\ \A c \in Collectors : \A k \in DOMAIN m_PendingEvents[c] : m_PendingEvents[c][k] <= delivered
  /\ ipcWeb = "deliver" /\ target \notin mixed =>
       \A k \in DOMAIN m_PendingEvents[target] : m_PendingEvents[target][k] # delivered
  /\ PendingOnce

WebInv ==
  /\ WebTypeOK /\ SessionsOK /\ UsageOK /\ LeaseOK /\ RoomOK /\ OwnersOK /\ MutexOK
  /\ RelayOK /\ EntriesOK /\ TodoOK /\ EventsOK

-----------------------------------------------------------------------------
(* The entries of a vector that are kept                                   *)

(* the ranks of the elements of a finite set of numbers *)
LEMMA Ranks ==
  ASSUME NEW at \in SUBSET Nat, IsFiniteSet(at), NEW k \in at, NEW l \in at, k < l
  PROVE  /\ Cardinality({m \in at : m < k}) \in 0 .. Cardinality(at) - 1
         /\ Cardinality({m \in at : m < k}) < Cardinality({m \in at : m < l})
<1> DEFINE K == {m \in at : m < k}
           L == {m \in at : m < l}
<1>1. K \in SUBSET L /\ L \in SUBSET at /\ k \notin K /\ k \in L
  <2>1. k \in Nat /\ l \in Nat /\ k < l /\ \A m \in at : m \in Nat
    OBVIOUS
  <2>2. \A m \in K : m \in L
    BY <2>1
  <2>3. k \notin K
    BY <2>1
  <2>4. k \in L /\ L \in SUBSET at
    BY <2>1
  <2>5. QED BY <2>2, <2>3, <2>4
<1> HIDE DEF K, L
<1>2. IsFiniteSet(L) /\ Cardinality(L) \in Nat /\ Cardinality(at) \in Nat /\ Cardinality(L) <= Cardinality(at)
  BY <1>1, FS_Subset, FS_CardinalityType
<1>3. IsFiniteSet(K) /\ Cardinality(K) \in Nat /\ Cardinality(K) <= Cardinality(L)
      /\ (Cardinality(L) = Cardinality(K) => L = K)
  BY <1>1, <1>2, FS_Subset, FS_CardinalityType
<1>4. QED BY <1>1, <1>2, <1>3 DEF K, L

(* What is kept of a vector are the entries at these positions, each once. *)
LEMMA KeptFacts ==
  ASSUME NEW S, NEW s \in Seq(S), NEW at \in SUBSET (DOMAIN s)
  PROVE  /\ Kept(s, at) \in Seq(S)
         /\ \A j \in DOMAIN Kept(s, at) : \E k \in at : Kept(s, at)[j] = s[k]
         /\ \A i, j \in DOMAIN Kept(s, at) : i # j =>
              \E k, l \in at : k # l /\ Kept(s, at)[i] = s[k] /\ Kept(s, at)[j] = s[l]
<1> DEFINE n       == Cardinality(at)
           rank(k) == Cardinality({m \in at : m < k})
           r       == [k \in at |-> rank(k)]
           Nth(j)  == CHOOSE k \in at : rank(k) = j - 1
<1>1. Len(s) \in Nat /\ DOMAIN s = 1 .. Len(s)
  BY LenProperties
<1>2. at \in SUBSET Nat /\ IsFiniteSet(at) /\ n \in Nat
  <2>1. IsFiniteSet(1 .. Len(s))
    BY <1>1, FS_Interval
  <2>2. at \in SUBSET (1 .. Len(s))
    BY <1>1
  <2>3. QED BY <1>1, <2>1, <2>2, FS_Subset, FS_CardinalityType
<1>3. \A k \in at : rank(k) \in 0 .. n - 1
  <2> TAKE k \in at
  <2> DEFINE K == {m \in at : m < k}
  <2>1. K \subseteq at /\ k \notin K
    BY <1>2
  <2>2. Cardinality(K) \in Nat /\ Cardinality(K) <= n /\ (Cardinality(at) = Cardinality(K) => at = K)
    BY <1>2, <2>1, FS_Subset, FS_CardinalityType
  <2>3. QED BY <1>2, <2>1, <2>2
<1>4. \A k, l \in at : rank(k) = rank(l) => k = l
  <2> SUFFICES ASSUME NEW k \in at, NEW l \in at, k # l
               PROVE  rank(k) # rank(l)
    OBVIOUS
  <2>1. CASE k < l
    <3>1. rank(k) < rank(l)
      BY <1>2, <2>1, Ranks
    <3> HIDE DEF rank, n
    <3>2. QED BY <1>2, <1>3, <3>1
  <2>2. CASE l < k
    <3>1. rank(l) < rank(k)
      BY <1>2, <2>2, Ranks
    <3> HIDE DEF rank, n
    <3>2. QED BY <1>2, <1>3, <3>1
  <2>3. QED BY <1>2, <2>1, <2>2
<1>5. r \in Injection(at, 0 .. n - 1)
  <2> HIDE DEF rank, n
  <2> QED BY <1>3, <1>4, Fun_IsInj
<1>6. IsFiniteSet(0 .. n - 1) /\ Cardinality(0 .. n - 1) = n
  <2> HIDE DEF n
  <2>1. IsFiniteSet(0 .. n - 1) /\ Cardinality(0 .. n - 1) = IF 0 > n - 1 THEN 0 ELSE (n - 1) - 0 + 1
    BY <1>2, FS_Interval
  <2>2. QED BY <1>2, <2>1
<1>7. r \in Surjection(at, 0 .. n - 1)
  <2> HIDE DEF r
  <2> QED BY <1>5, <1>6, FS_Injection
<1>8. \A j \in 1 .. n : \E k \in at : rank(k) = j - 1
  <2> TAKE j \in 1 .. n
  <2>1. j - 1 \in 0 .. n - 1
    BY <1>2
  <2>2. \E k \in at : r[k] = j - 1
    <3> HIDE DEF r, n
    <3> QED BY <1>7, <2>1 DEF Surjection
  <2>3. QED BY <2>2
<1>9. \A j \in 1 .. n : Nth(j) \in at /\ rank(Nth(j)) = j - 1
  <2> HIDE DEF rank
  <2> QED BY <1>8
<1>10. Kept(s, at) = [j \in 1 .. n |-> s[Nth(j)]]
  BY DEF Kept
<1> HIDE DEF rank, Nth, n
<1>11. \A i, j \in 1 .. n : i # j => Nth(i) # Nth(j)
  BY <1>2, <1>9
<1>12. \A k \in at : s[k] \in S
  BY <1>1, ElementOfSeq
<1>13. Kept(s, at) \in Seq(S)
  BY <1>2, <1>9, <1>10, <1>12, IsASeq
<1>14. QED BY <1>9, <1>10, <1>11, <1>13

-----------------------------------------------------------------------------
(* Types                                                                   *)

(* what a request asks for *)
LEMMA AskedNames ==
  ASSUME NEW r \in Requests, NEW t
  PROVE  /\ NamesAsked(r, t) \subseteq EventNames
         /\ AnyID[1] \in EventNames /\ AnyID \in SubIDs
BY WebAssumption DEF NamesAsked, AnyID, SubIDs

(* taking, adding and removing subscriptions and IDs *)
LEMMA CancelTypes ==
  ASSUME WebTypeOK, NEW released \in [Collectors -> SUBSET SubIDs], Cancel(released)
  PROVE  /\ m_Subscriptions' \in Seq(Subscription)
         /\ relayIDs' \in [Collectors -> SUBSET SubIDs]
         /\ m_IDTargetMap' \in [SubIDs -> Collectors \cup {None}]
<1>1. m_Subscriptions' \in Seq(Subscription)
  <2>1. m_Subscriptions \in Seq(Subscription)
    BY DEF WebTypeOK
  <2>2. DOMAIN m_Subscriptions \ Removed(released) \in SUBSET (DOMAIN m_Subscriptions)
    OBVIOUS
  <2>3. QED BY <2>1, <2>2, KeptFacts DEF Cancel
<1>2. relayIDs' \in [Collectors -> SUBSET SubIDs]
  BY DEF Cancel, WebTypeOK
<1>3. m_IDTargetMap' \in [SubIDs -> Collectors \cup {None}]
  BY DEF Cancel, WebTypeOK
<1>4. QED BY <1>1, <1>2, <1>3

(* The destructor of a collector takes back its IDs. *)
LEMMA DestroyTypes ==
  ASSUME WebTypeOK, NEW released \in [Collectors -> SUBSET SubIDs], NEW sess, NEW subs, NEW ws,
         Destroy(sess, subs, ws, released)
  PROVE  /\ m_Subscriptions' \in Seq(Subscription)
         /\ relayIDs' \in [Collectors -> SUBSET SubIDs]
         /\ m_IDTargetMap' \in [SubIDs -> Collectors \cup {None}]
         /\ destroyed' \subseteq 1 .. collectors
<1> DEFINE rel == [c \in Collectors |-> IF c \in LostCollectors(sess, subs, ws)
                                       THEN relayIDs[c] ELSE released[c]]
<1>1. rel \in [Collectors -> SUBSET SubIDs]
  BY DEF WebTypeOK
<1>2. Cancel(rel)
  BY DEF Destroy
<1>3. destroyed' \subseteq 1 .. collectors
  BY DEF Destroy, LostCollectors, WebTypeOK
<1> HIDE DEF rel
<1>4. QED BY <1>1, <1>2, <1>3, CancelTypes

(* the IDs of a name *)
LEMMA NamedTypes ==
  ASSUME WebTypeOK, NEW c, NEW n
  PROVE  /\ NamedOf(c, n) \in [Collectors -> SUBSET SubIDs]
         /\ NoneReleased \in [Collectors -> SUBSET SubIDs]
BY DEF NamedOf, Named, NoneReleased, WebTypeOK

(* Who is about to subscribe keeps room for a collector.                   *)
LEMMA RoomForOne ==
  ASSUME WebTypeOK, SessionsOK, RoomOK, NEW w \in Workers, wpc[w] = "subscribe"
  PROVE  collectors + 1 \in Collectors
<1>1. w \in ToSubscribe
  BY DEF SessionsOK, ToSubscribe, Requests
<1>2. IsFiniteSet(ToSubscribe)
  BY WebAssumption, FS_Subset DEF ToSubscribe
<1>3. Cardinality(ToSubscribe) \in Nat /\ Cardinality(ToSubscribe) # 0
  BY <1>1, <1>2, FS_CardinalityType, FS_EmptySet
<1>4. QED BY <1>3, WebAssumption DEF RoomOK, WebTypeOK, Collectors

(* the collector of a session that subscribes: its own, or a new one *)
CollectorOf(t) == IF m_subscription[t] = None THEN collectors + 1 ELSE m_subscription[t]

(* what subscribe does *)
LEMMA SubscribeShape ==
  ASSUME WebTypeOK, SessionsOK, RoomOK, NEW w \in Workers, subscribe(w)
  PROVE  /\ wtoken[w] \in Tokens /\ CollectorOf(wtoken[w]) \in Collectors
         /\ collectors' \in collectors .. MaxCollectors
         /\ collectors' = IF CollectorOf(wtoken[w]) > collectors THEN CollectorOf(wtoken[w])
                          ELSE collectors
         /\ m_subscription' = [m_subscription EXCEPT ![wtoken[w]] = CollectorOf(wtoken[w])]
         /\ wcol' = [wcol EXCEPT ![w] = CollectorOf(wtoken[w])]
         /\ Cancel(NamedOf(CollectorOf(wtoken[w]), wname[w]))
<1>1. wtoken[w] \in Tokens
  BY DEF subscribe, WAt, SessionsOK, WebTypeOK
<1>2. CollectorOf(wtoken[w]) \in Collectors
  BY <1>1, RoomForOne DEF subscribe, WAt, WebTypeOK, CollectorOf
<1>3. collectors \in 0 .. MaxCollectors
  BY DEF WebTypeOK
<1>4. QED BY <1>1, <1>2, <1>3, WebAssumption DEF subscribe, CollectorOf, Collectors

-----------------------------------------------------------------------------
(* Who waits for events, counted by use() and unuse()                      *)

(* The workers that poll are finitely many. *)
LEMMA PollersFinite ==
  \A t : /\ IsFiniteSet(PollingWith(t))' /\ Cardinality(PollingWith(t))' \in 0 .. Cardinality(Workers)
         /\ IsFiniteSet(PollingWith(t)) /\ Cardinality(PollingWith(t)) \in 0 .. Cardinality(Workers)
<1> TAKE t
<1>1. PollingWith(t) \in SUBSET Workers /\ PollingWith(t)' \in SUBSET Workers
  BY DEF PollingWith
<1> HIDE DEF PollingWith
<1>2. IsFiniteSet(Workers) /\ Cardinality(Workers) \in Nat
  BY WebAssumption, FS_CardinalityType
<1>3. IsFiniteSet(PollingWith(t)) /\ Cardinality(PollingWith(t)) <= Cardinality(Workers)
      /\ Cardinality(PollingWith(t)) \in Nat
  BY <1>1, <1>2, FS_Subset, FS_CardinalityType
<1>4. IsFiniteSet(PollingWith(t)') /\ Cardinality(PollingWith(t)') <= Cardinality(Workers)
      /\ Cardinality(PollingWith(t)') \in Nat
  BY <1>1, <1>2, FS_Subset, FS_CardinalityType
<1>5. QED BY <1>2, <1>3, <1>4

(* Only get and unuse change who polls. *)
LEMMA PollersStay ==
  ASSUME WebTypeOK, SessionsOK, WebNext, \A w \in Workers : ~get(w) /\ ~unuse(w)
  PROVE  /\ usage' = usage
         /\ \A v \in Workers : /\ wpc'[v] \in Polling <=> wpc[v] \in Polling
                               /\ wpc[v] \in Polling => wtoken'[v] = wtoken[v]
<1> DEFINE Same == /\ usage' = usage
                   /\ \A v \in Workers : /\ wpc'[v] \in Polling <=> wpc[v] \in Polling
                                         /\ wpc[v] \in Polling => wtoken'[v] = wtoken[v]
<1> USE DEF webVars, sessVars, colVars, evtVars, relVars, wrkVars, intVars, WGo, WAt, IAt, Polling
<1>a. wpc \in [Workers -> WebPC] /\ wtoken \in [Workers -> Tokens \cup {NoToken}]
      /\ \A w \in Workers : wreq[w] \in Requests
  BY DEF WebTypeOK
<1>b. ASSUME Crash PROVE Same
  BY <1>b DEF Crash
<1>1. ASSUME NEW w \in Workers, Arrive(w) PROVE Same
  BY <1>a, <1>1 DEF Arrive, Receive
<1>2. ASSUME NEW w \in Workers, Handle(w) PROVE Same
  <2>1. CASE touch(w)
    BY <1>a, <2>1 DEF touch, Requests
  <2>2. CASE registerSession(w) \/ removeSession(w) \/ Finish(w)
    BY <1>a, <2>2 DEF registerSession, removeSession, Finish
  <2>3. CASE subscribe(w) \/ NewID(w) \/ registerSubscription(w) \/ AddSubscription(w) \/ unsubscribe(w)
    BY <1>a, <2>3 DEF subscribe, NewID, registerSubscription, AddSubscription, unsubscribe
  <2>4. CASE AssertNew(w) \/ popEvent(w)
    BY <1>a, <1>b, <2>4 DEF AssertNew, popEvent, GetUnchanged
  <2>5. CASE PollRound(w) \/ EnterWait(w) \/ Signalled(w) \/ TimedOut(w) \/ hasEvent(w)
    BY <1>a, <2>5 DEF PollRound, EnterWait, Signalled, TimedOut, WaitEnds, hasEvent, GetUnchanged
  <2>6. QED BY <1>2, <2>1, <2>2, <2>3, <2>4, <2>5 DEF Handle
<1>3. CASE (\E n \in EventNames : DispatchName(n)) \/ LookupTarget \/ Deliver \/ SignalArrival
  BY <1>3 DEF DispatchName, LookupTarget, Deliver, SignalArrival, InterpUnchangedWeb
<1>4. CASE cleanupSessions \/ PassTime
  BY <1>4 DEF cleanupSessions, PassTime
<1>5. QED BY <1>1, <1>2, <1>3, <1>4 DEF WebNext

(* use() and unuse() count who polls with a session. *)
LEMMA UsageStep == WebInv /\ WebNext => UsageOK'
<1> SUFFICES ASSUME WebInv, WebNext PROVE UsageOK'
  OBVIOUS
<1>a. WebTypeOK /\ SessionsOK /\ UsageOK
  BY DEF WebInv
<1>b. wpc \in [Workers -> WebPC] /\ wtoken \in [Workers -> Tokens \cup {NoToken}]
      /\ usage \in [Tokens -> 0 .. Cardinality(Workers)]
  BY <1>a DEF WebTypeOK
<1>1. ASSUME \A w \in Workers : ~get(w) /\ ~unuse(w) PROVE UsageOK'
  <2>0. /\ usage' = usage
        /\ \A v \in Workers : /\ wpc'[v] \in Polling <=> wpc[v] \in Polling
                              /\ wpc[v] \in Polling => wtoken'[v] = wtoken[v]
    BY <1>a, <1>1, PollersStay, Zenon
  <2>1. \A t \in Tokens : PollingWith(t)' = PollingWith(t)
    <3> HIDE DEF Polling
    <3>1. TAKE t \in Tokens
    <3>2. \A v \in Workers : wpc'[v] \in Polling /\ wtoken'[v] = t <=> wpc[v] \in Polling /\ wtoken[v] = t
      BY <2>0
    <3>3. QED BY <3>2, Zenon DEF PollingWith
  <2>2. usage' = usage
    BY <2>0
  <2>3. QED BY <1>a, <2>1, <2>2 DEF UsageOK
<1>2. ASSUME NEW w \in Workers, get(w) PROVE UsageOK'
  <2>1. wtoken' = wtoken /\ wpc[w] = "get" /\ wtoken[w] \in Tokens
    BY <1>a, <1>b, <1>2 DEF get, GetUnchanged, WAt, SessionsOK
  <2>2. CASE m_subscription[wtoken[w]] = None
    <3>1. usage' = usage /\ wpc' = [wpc EXCEPT ![w] = "finish"]
      BY <1>2, <2>2 DEF get, WGo
    <3>2. \A t \in Tokens : PollingWith(t)' = PollingWith(t)
      BY <1>b, <2>1, <3>1 DEF PollingWith, Polling
    <3>3. QED BY <1>a, <3>1, <3>2 DEF UsageOK
  <2>3. CASE m_subscription[wtoken[w]] # None
    <3>1. usage' = [usage EXCEPT ![wtoken[w]] = @ + 1] /\ wpc' = [wpc EXCEPT ![w] = "loop"]
      BY <1>2, <2>3 DEF get, WGo, use
    <3>2. \A t \in Tokens : PollingWith(t)' = IF t = wtoken[w] THEN PollingWith(t) \cup {w}
                                            ELSE PollingWith(t)
      BY <1>b, <2>1, <3>1 DEF PollingWith, Polling
    <3>3. \A t \in Tokens : w \notin PollingWith(t)
      BY <2>1 DEF PollingWith, Polling
    <3> HIDE DEF PollingWith
    <3>4. Cardinality(PollingWith(wtoken[w]) \cup {w}) = Cardinality(PollingWith(wtoken[w])) + 1
      BY <2>1, <3>3, PollersFinite, FS_AddElement
    <3>5. \A t \in Tokens : usage'[t] = Cardinality(PollingWith(t)')
      BY <1>a, <1>b, <2>1, <3>1, <3>2, <3>4 DEF UsageOK
    <3>6. usage' = [t \in Tokens |-> usage'[t]]
      BY <1>b, <3>1
    <3>7. QED BY <3>5, <3>6 DEF UsageOK
  <2>4. QED BY <2>2, <2>3
<1>3. ASSUME NEW w \in Workers, unuse(w) PROVE UsageOK'
  <2>1. wtoken' = wtoken /\ wpc[w] = "leave" /\ wtoken[w] \in Tokens
    BY <1>a, <1>b, <1>3 DEF unuse, GetUnchanged, WAt, SessionsOK
  <2>p. PICK u \in Tokens : u = wtoken[w]
    BY <2>1
  <2>2. usage' = [usage EXCEPT ![u] = IF @ = 0 THEN 0 ELSE @ - 1]
        /\ wpc' = [wpc EXCEPT ![w] = "build"]
    BY <1>3, <2>p DEF unuse, Unused, WGo
  <2>3. \A t \in Tokens : PollingWith(t)' = IF t = u THEN PollingWith(t) \ {w}
                                          ELSE PollingWith(t)
    BY <1>b, <2>1, <2>p, <2>2 DEF PollingWith, Polling
  <2>4. w \in PollingWith(u)
    BY <2>1, <2>p DEF PollingWith, Polling
  <2> HIDE DEF PollingWith
  <2>5. Cardinality(PollingWith(u) \ {w}) = Cardinality(PollingWith(u)) - 1
        /\ Cardinality(PollingWith(u)) # 0
    BY <2>4, PollersFinite, FS_RemoveElement, FS_EmptySet
  <2>6. \A t \in Tokens : usage'[t] = Cardinality(PollingWith(t)')
    <3>1. usage[u] = Cardinality(PollingWith(u)) /\ usage[u] # 0
          /\ usage'[u] = usage[u] - 1
      BY <1>a, <1>b, <2>1, <2>2, <2>5 DEF UsageOK
    <3>2. PollingWith(u)' = PollingWith(u) \ {w}
      BY <2>1, <2>3
    <3>3. usage'[u] = Cardinality(PollingWith(u)')
      BY <2>5, <3>1, <3>2
    <3>4. \A t \in Tokens : t # u => usage'[t] = usage[t] /\ PollingWith(t)' = PollingWith(t)
      BY <1>b, <2>2, <2>3
    <3>5. \A t \in Tokens : usage[t] = Cardinality(PollingWith(t))
      BY <1>a DEF UsageOK
    <3>6. TAKE t \in Tokens
    <3>7. CASE t = u
      BY <3>3, <3>7
    <3>8. CASE t # u
      <4>1. usage'[t] = usage[t] /\ PollingWith(t)' = PollingWith(t)
        BY <3>4, <3>8
      <4>2. QED BY <3>5, <4>1, Zenon
    <3>9. QED BY <3>7, <3>8
  <2>7. usage' = [t \in Tokens |-> usage'[t]]
    BY <1>b, <2>2
  <2>8. QED BY <2>6, <2>7 DEF UsageOK
<1>4. QED BY <1>1, <1>2, <1>3

(* Every step keeps the types. *)
LEMMA TypeStep == WebInv /\ WebNext => WebTypeOK'
<1> SUFFICES ASSUME WebInv, WebNext PROVE WebTypeOK'
  OBVIOUS
<1> USE DEF webVars, sessVars, colVars, evtVars, relVars, wrkVars, intVars, WGo, WAt, IAt
<1>a. WebTypeOK /\ SessionsOK /\ RoomOK /\ OwnersOK /\ MutexOK /\ EventsOK
  BY DEF WebInv
<1>b. ASSUME Crash PROVE WebTypeOK'
  BY <1>a, <1>b DEF Crash, WebTypeOK
<1>c. usage' \in [Tokens -> 0 .. Cardinality(Workers)]
  BY UsageStep, PollersFinite DEF UsageOK
<1>1. ASSUME NEW w \in Workers, Arrive(w) PROVE WebTypeOK'
  <2>1. PICK r \in Requests, t \in generated \cup OldTokens \cup {NoToken} :
          \E n \in NamesAsked(r, t) : Receive(w, r, t, n)
    BY <1>1 DEF Arrive
  <2>2. PICK n \in EventNames : Receive(w, r, t, n)
    BY <2>1, AskedNames
  <2>3. t # NoToken /\ m_Sessions[t] = "live" => t \in Tokens
    BY <1>a, WebAssumption DEF SessionsOK, WebTypeOK
  <2>4. t # NoToken => t \in AllTokens
    BY <1>a DEF WebTypeOK, AllTokens
  <2>5. m_Sessions' \in [AllTokens -> {"absent", "null", "live"}]
    BY <1>a, <2>2, <2>4 DEF Receive, WebTypeOK
  <2>6. wpc' \in [Workers -> WebPC] /\ wtoken' \in [Workers -> Tokens \cup {NoToken}]
    BY <1>a, <2>2, <2>3 DEF Receive, WebTypeOK, WebPC, Requests
  <2>7. wreq' \in [Workers -> Requests] /\ wname' \in [Workers -> EventNames]
    BY <1>a, <2>2 DEF Receive, WebTypeOK
  <2>8. requests' \in 0 .. MaxRequests
    BY <1>a, <2>2, WebAssumption DEF Receive, WebTypeOK
  <2>9. QED BY <1>a, <2>2, <2>5, <2>6, <2>7, <2>8 DEF Receive, WebTypeOK
<1>2. ASSUME NEW w \in Workers, Handle(w) PROVE WebTypeOK'
  <2>a. wtoken[w] = NoToken <=> wpc[w] \in {"idle", "register"}
    BY <1>a DEF SessionsOK
  <2>b. wtoken[w] \in Tokens \cup {NoToken} /\ wcol[w] \in Collectors \cup {None}
        /\ wreq[w] \in Requests /\ wid[w] \in SubIDs /\ wname[w] \in EventNames
    BY <1>a DEF WebTypeOK
  <2>c. wpc[w] \in HasColl => wcol[w] \in Collectors
    BY <1>a, <2>b DEF OwnersOK, None
  <2>1. CASE touch(w)
    <3>1. wtoken[w] \in Tokens
      BY <2>1, <2>a, <2>b DEF touch
    <3>2. QED BY <1>a, <2>1, <2>b, <3>1 DEF touch, WebTypeOK, WebPC
  <2>2. CASE registerSession(w)
    <3>1. /\ m_Sessions' \in [AllTokens -> {"absent", "null", "live"}]
          /\ generated' \subseteq Tokens /\ relaySet' \in BOOLEAN
          /\ touched' \in [Tokens -> 0 .. MaxWebTime]
          /\ usage' = usage /\ waitEnded' = waitEnded
          /\ m_subscription' = m_subscription
      <4>1. CASE UNCHANGED sessVars
        BY <1>a, <2>2, <4>1 DEF registerSession, sessVars, colVars, WebTypeOK
      <4>2. CASE ~UNCHANGED sessVars
        <5>1. PICK t \in Tokens \ generated :
                /\ m_Sessions' = [m_Sessions EXCEPT ![t] = "live"]
                /\ generated' = generated \cup {t} /\ relaySet' = TRUE
                /\ touched' = [touched EXCEPT ![t] = webNow]
                /\ UNCHANGED <<usage, waitEnded>>
          BY <2>2, <4>2 DEF registerSession
        <5>2. QED BY <1>a, <2>2, <5>1 DEF registerSession, WebTypeOK, AllTokens, colVars
      <4>3. QED BY <4>1, <4>2
    <3>2. wpc' \in [Workers -> WebPC]
      BY <1>a, <2>2 DEF registerSession, WebTypeOK, WebPC
    <3>3. QED BY <1>a, <2>2, <3>1, <3>2 DEF registerSession, WebTypeOK
  <2>3. CASE removeSession(w)
    <3>1. wtoken[w] \in AllTokens
      BY <2>3, <2>a, <2>b DEF removeSession, AllTokens
    <3>2. QED BY <1>a, <2>3, <2>b, <3>1 DEF removeSession, WebTypeOK, WebPC
  <2>4. CASE Finish(w)
    BY <1>a, <2>4, DestroyTypes, NamedTypes DEF Finish, WebTypeOK, WebPC
  <2>5. CASE subscribe(w)
    <3>1. wtoken[w] \in Tokens /\ CollectorOf(wtoken[w]) \in Collectors
          /\ collectors' \in collectors .. MaxCollectors
          /\ m_subscription' = [m_subscription EXCEPT ![wtoken[w]] = CollectorOf(wtoken[w])]
          /\ wcol' = [wcol EXCEPT ![w] = CollectorOf(wtoken[w])]
          /\ Cancel(NamedOf(CollectorOf(wtoken[w]), wname[w]))
      BY <1>a, <2>5, SubscribeShape
    <3>2. /\ m_Subscriptions' \in Seq(Subscription)
          /\ relayIDs' \in [Collectors -> SUBSET SubIDs]
          /\ m_IDTargetMap' \in [SubIDs -> Collectors \cup {None}]
      BY <1>a, <3>1, CancelTypes, NamedTypes
    <3>3. collectors' \in 0 .. MaxCollectors /\ destroyed' \subseteq 1 .. collectors'
      <4>1. collectors \in Nat /\ destroyed \subseteq 1 .. collectors /\ destroyed' = destroyed
        BY <1>a, <2>5, WebAssumption DEF subscribe, WebTypeOK
      <4>2. QED BY <3>1, <4>1, WebAssumption
    <3>4. /\ m_subscription' \in [Tokens -> Collectors \cup {None}]
          /\ wcol' \in [Workers -> Collectors \cup {None}]
      BY <1>a, <3>1 DEF WebTypeOK
    <3>5. wpc' \in [Workers -> WebPC] /\ subMutex' \subseteq Tokens
      BY <1>a, <2>5, <3>1 DEF subscribe, WebTypeOK, WebPC
    <3>6. UNCHANGED <<webNow, sessVars, evtVars, wreq, wtoken, wname, wid, intVars,
                      requests, crashed>>
          /\ mixed' = mixed
      BY <2>5 DEF subscribe, intVars
    <3>7. QED BY <1>a, <3>2, <3>3, <3>4, <3>5, <3>6
      DEF WebTypeOK, sessVars, evtVars, intVars
  <2>6. CASE NewID(w)
    BY <1>a, <2>6 DEF NewID, WebTypeOK, WebPC, FreeIDs
  <2>7. CASE registerSubscription(w)
    <3>1. wcol[w] \in Collectors
      BY <2>7, <2>c DEF registerSubscription, HasColl, InMutex
    <3>2. mixed' \subseteq Collectors
      BY <1>a, <2>7, <3>1 DEF registerSubscription, SharedWith, WebTypeOK
    <3>3. QED BY <1>a, <2>7, <2>b, <3>1, <3>2 DEF registerSubscription, WebTypeOK, WebPC
  <2>8. CASE AssertNew(w)
    BY <1>a, <1>b, <2>8 DEF AssertNew, WebTypeOK, WebPC
  <2>9. CASE AddSubscription(w)
    <3>1. wcol[w] \in Collectors
      BY <2>9, <2>c DEF AddSubscription, HasColl, InMutex
    <3>2. m_Subscriptions' \in Seq(Subscription)
      BY <1>a, <2>9, <2>b, <3>1, AppendProperties DEF AddSubscription, WebTypeOK, Subscription
    <3>3. QED BY <1>a, <2>9, <3>2 DEF AddSubscription, WebTypeOK, WebPC
  <2>10. CASE unsubscribe(w)
    <3> DEFINE subs == [m_subscription EXCEPT ![wtoken[w]] = None]
    <3>1. /\ m_subscription' = subs
          /\ Destroy(m_Sessions, subs, Workers, NamedOf(m_subscription[wtoken[w]], wname[w]))
      BY <2>10 DEF unsubscribe
    <3>2. m_subscription' \in [Tokens -> Collectors \cup {None}]
      BY <1>a, <3>1 DEF WebTypeOK
    <3> HIDE DEF subs
    <3>3. /\ m_Subscriptions' \in Seq(Subscription)
          /\ relayIDs' \in [Collectors -> SUBSET SubIDs]
          /\ m_IDTargetMap' \in [SubIDs -> Collectors \cup {None}]
          /\ destroyed' \subseteq 1 .. collectors
      BY <1>a, <3>1, DestroyTypes, NamedTypes
    <3>4. QED BY <1>a, <2>10, <3>2, <3>3 DEF unsubscribe, WebTypeOK, WebPC
  <2>11. CASE get(w)
    <3>1. wtoken[w] \in Tokens
      BY <2>11, <2>a, <2>b DEF get
    <3>2. usage' \in [Tokens -> 0 .. Cardinality(Workers)]
      BY <1>c
    <3>3. QED BY <1>a, <2>11, <2>b, <3>1, <3>2 DEF get, GetUnchanged, WebTypeOK, WebPC, Polling
  <2>12. CASE PollRound(w)
    BY <1>a, <2>12 DEF PollRound, GetUnchanged, WebTypeOK, WebPC, Polling
  <2>13. CASE EnterWait(w)
    BY <1>a, <2>13 DEF EnterWait, GetUnchanged, WebTypeOK, WebPC, Polling
  <2>14. CASE Signalled(w) \/ TimedOut(w)
    BY <1>a, <2>14 DEF Signalled, TimedOut, WaitEnds, GetUnchanged, WebTypeOK, WebPC, Polling
  <2>16. CASE unuse(w)
    <3>1. wtoken[w] \in Tokens
      BY <2>16, <2>a, <2>b DEF unuse
    <3>2. usage' \in [Tokens -> 0 .. Cardinality(Workers)]
      BY <1>c
    <3>3. QED BY <1>a, <2>16, <3>1, <3>2 DEF unuse, GetUnchanged, WebTypeOK, WebPC
  <2>17. CASE hasEvent(w)
    BY <1>a, <2>17 DEF hasEvent, GetUnchanged, WebTypeOK, WebPC
  <2>18. CASE popEvent(w)
    <3>1. ASSUME Pending(w) PROVE WebTypeOK'
      <4>1. wcol[w] \in Collectors
        BY <2>18, <2>c DEF popEvent, HasColl
      <4>2. m_PendingEvents[wcol[w]] \in Seq(1 .. MaxDelivered) /\ m_PendingEvents[wcol[w]] # <<>>
        BY <1>a, <3>1, <4>1 DEF WebTypeOK, Pending
      <4>3. Tail(m_PendingEvents[wcol[w]]) \in Seq(1 .. MaxDelivered)
        BY <4>2, HeadTailProperties
      <4>4. QED BY <1>a, <2>18, <3>1, <4>1, <4>3 DEF popEvent, GetUnchanged, WebTypeOK, WebPC
    <3>2. QED BY <1>b, <2>18, <3>1 DEF popEvent
  <2>19. QED
    BY <1>2, <2>1, <2>2, <2>3, <2>4, <2>5, <2>6, <2>7, <2>8, <2>9, <2>10, <2>11, <2>12, <2>13,
       <2>14, <2>16, <2>17, <2>18 DEF Handle
<1>3. ASSUME NEW n \in EventNames, DispatchName(n) PROVE WebTypeOK'
  <2> DEFINE at == {k \in DOMAIN m_Subscriptions : m_Subscriptions[k].id[1] = n}
  <2>1. m_Subscriptions \in Seq(Subscription) /\ at \in SUBSET (DOMAIN m_Subscriptions)
    BY <1>a DEF WebTypeOK
  <2>2. toDeliver' = Kept(m_Subscriptions, at)
    BY <1>3 DEF DispatchName
  <2> HIDE DEF at
  <2>3. toDeliver' \in Seq(Subscription)
    BY <2>1, <2>2, KeptFacts
  <2>4. delivered' \in 0 .. MaxDelivered
    BY <1>a, <1>3, WebAssumption DEF DispatchName, WebTypeOK
  <2>5. QED BY <1>a, <1>3, <2>3, <2>4 DEF DispatchName, InterpUnchangedWeb, WebTypeOK
<1>4. CASE LookupTarget
  <2>1. ASSUME toDeliver # <<>>
        PROVE  Head(toDeliver).id \in SubIDs /\ Tail(toDeliver) \in Seq(Subscription)
    <3>1. Head(toDeliver) \in Subscription /\ Tail(toDeliver) \in Seq(Subscription)
      BY <1>a, <2>1, HeadTailProperties DEF WebTypeOK
    <3>2. QED BY <3>1 DEF Subscription
  <2>2. QED BY <1>a, <1>4, <2>1 DEF LookupTarget, InterpUnchangedWeb, WebTypeOK
<1>5. CASE Deliver
  <2>1. target \in Collectors /\ delivered \in 1 .. MaxDelivered
    BY <1>a, <1>5, WebAssumption DEF Deliver, EventsOK, WebTypeOK
  <2>2. m_PendingEvents[target] \in Seq(1 .. MaxDelivered)
    BY <1>a, <2>1 DEF WebTypeOK
  <2>3. Append(m_PendingEvents[target], delivered) \in Seq(1 .. MaxDelivered)
    BY <2>1, <2>2, AppendProperties
  <2>4. m_PendingEvents' \in [Collectors -> Seq(1 .. MaxDelivered)]
    BY <1>a, <1>5, <2>1, <2>3 DEF Deliver, WebTypeOK
  <2>5. QED BY <1>a, <1>5, <2>4 DEF Deliver, InterpUnchangedWeb, WebTypeOK
<1>6. CASE SignalArrival
  BY <1>a, <1>6 DEF SignalArrival, InterpUnchangedWeb, WebTypeOK
<1>7. CASE cleanupSessions
  <2>1. /\ m_Subscriptions' \in Seq(Subscription)
        /\ relayIDs' \in [Collectors -> SUBSET SubIDs]
        /\ m_IDTargetMap' \in [SubIDs -> Collectors \cup {None}]
        /\ destroyed' \subseteq 1 .. collectors
    BY <1>a, <1>7, DestroyTypes, NamedTypes DEF cleanupSessions
  <2>2. m_Sessions' \in [AllTokens -> {"absent", "null", "live"}]
    BY <1>7 DEF cleanupSessions, CleanedUp
  <2>3. QED BY <1>a, <1>7, <2>1, <2>2 DEF cleanupSessions, WebTypeOK
<1>8. CASE PassTime
  BY <1>a, <1>8, WebAssumption DEF PassTime, WebTypeOK
<1>9. QED BY <1>1, <1>2, <1>3, <1>4, <1>5, <1>6, <1>7, <1>8 DEF WebNext

-----------------------------------------------------------------------------
(* Sessions and requests                                                   *)

(* A request has a token that was given out as long as it is handled.      *)
LEMMA SessionsStep == WebInv /\ WebNext => SessionsOK'
<1> SUFFICES ASSUME WebInv, WebNext PROVE SessionsOK'
  OBVIOUS
<1> USE DEF webVars, sessVars, colVars, evtVars, relVars, wrkVars, intVars, WGo, WAt, IAt
<1>a. SessionsOK
  BY DEF WebInv
<1>b. /\ wpc \in [Workers -> WebPC] /\ wtoken \in [Workers -> Tokens \cup {NoToken}]
      /\ wreq \in [Workers -> Requests] /\ generated \subseteq Tokens
      /\ m_Sessions \in [AllTokens -> {"absent", "null", "live"}]
      /\ m_subscription \in [Tokens -> Collectors \cup {None}]
  BY DEF WebInv, WebTypeOK
<1>c. Tokens \cap OldTokens = {} /\ NoToken \notin AllTokens /\ AllTokens = Tokens \cup OldTokens
  BY WebAssumption DEF AllTokens
<1> DEFINE Rest == UNCHANGED <<m_Sessions, generated, m_subscription, wtoken, wreq>>
<1>d. ASSUME Rest, NEW w \in Workers, NEW l, wpc' = [wpc EXCEPT ![w] = l],
             wpc[w] \notin {"idle", "register"}, l \notin {"idle", "register"},
             l \in Requests => wreq[w] = l
      PROVE  SessionsOK'
  BY <1>a, <1>b, <1>d DEF SessionsOK
<1>e. ASSUME Rest, wpc' = wpc PROVE SessionsOK'
  BY <1>a, <1>b, <1>e DEF SessionsOK
<1>1. ASSUME NEW w \in Workers, Arrive(w) PROVE SessionsOK'
  <2>1. PICK r, t, n : /\ r \in Requests /\ t \in generated \cup OldTokens \cup {NoToken}
                       /\ Receive(w, r, t, n)
    BY <1>1 DEF Arrive
  <2>2. t \in generated \/ t \in OldTokens \/ t = NoToken
    BY <2>1
  <2>3. QED BY <1>a, <1>b, <1>c, <2>1, <2>2 DEF Receive, SessionsOK, Requests
<1>2. ASSUME NEW w \in Workers, Handle(w) PROVE SessionsOK'
  <2>1. CASE touch(w)
    <3>1. PICK l : l = IF wreq[w] = "login" THEN "finish" ELSE wreq[w]
      OBVIOUS
    <3>2. Rest /\ wpc' = [wpc EXCEPT ![w] = l] /\ wpc[w] = "touch"
      BY <2>1, <3>1 DEF touch
    <3>3. l \notin {"idle", "register"} /\ (l \in Requests => wreq[w] = l)
      BY <1>b, <3>1 DEF Requests
    <3>4. QED BY <1>d, <3>2, <3>3
  <2>2. CASE registerSession(w)
    BY <1>a, <1>b, <1>c, <2>2 DEF registerSession, SessionsOK, Requests
  <2>3. CASE removeSession(w)
    BY <1>a, <1>b, <1>c, <2>3 DEF removeSession, SessionsOK, Requests
  <2>4. CASE Finish(w)
    BY <1>a, <1>b, <1>c, <2>4 DEF Finish, SessionsOK, Requests
  <2>5. CASE subscribe(w)
    <3>1. wtoken[w] \in generated
      BY <1>a, <2>5 DEF subscribe, SessionsOK
    <3>2. UNCHANGED <<m_Sessions, generated, wtoken, wreq>> /\ wpc' = [wpc EXCEPT ![w] = "newid"]
          /\ wpc[w] = "subscribe"
      BY <2>5 DEF subscribe
    <3>5. \A t \in Tokens : t # wtoken[w] => m_subscription'[t] = m_subscription[t]
      BY <1>b, <2>5 DEF subscribe
    <3>3. \A t \in Tokens : m_Sessions'[t] = "live" \/ m_subscription'[t] # None => t \in generated'
      BY <1>a, <3>1, <3>2, <3>5 DEF SessionsOK
    <3>4. \A v \in Workers : /\ wtoken'[v] = NoToken <=> wpc'[v] \in {"idle", "register"}
                             /\ wtoken'[v] # NoToken => wtoken'[v] \in generated'
      BY <1>a, <1>b, <3>2 DEF SessionsOK
    <3>6. \A v \in Workers : wpc'[v] \in Requests => wreq'[v] = wpc'[v]
      BY <1>a, <1>b, <3>2 DEF SessionsOK, Requests
    <3>7. \A t \in OldTokens : m_Sessions'[t] # "live"
      BY <1>a, <3>2 DEF SessionsOK
    <3>8. QED BY <3>3, <3>4, <3>6, <3>7 DEF SessionsOK
  <2>6. CASE NewID(w) \/ registerSubscription(w) \/ AddSubscription(w)
    <3>1. PICK l \in {"relay", "assert", "finish"} : wpc' = [wpc EXCEPT ![w] = l]
      BY <2>6 DEF NewID, registerSubscription, AddSubscription
    <3>2. Rest /\ wpc[w] \notin {"idle", "register"}
      BY <2>6 DEF NewID, registerSubscription, AddSubscription
    <3>3. l \notin {"idle", "register"} /\ l \notin Requests
      BY <3>1 DEF Requests
    <3>4. QED BY <1>d, <3>1, <3>2, <3>3
  <2>7. CASE unsubscribe(w)
    BY <1>a, <1>b, <1>c, <2>7 DEF unsubscribe, SessionsOK, Requests
  <2>8. CASE AssertNew(w) \/ popEvent(w)
    BY <1>d, <1>e, <2>8 DEF AssertNew, popEvent, GetUnchanged, Crash, Requests
  <2>9. CASE get(w) \/ PollRound(w) \/ EnterWait(w) \/ Signalled(w) \/ TimedOut(w)
    BY <1>d, <2>9 DEF get, PollRound, EnterWait, Signalled, TimedOut, WaitEnds, GetUnchanged, Requests
  <2>10. CASE unuse(w) \/ hasEvent(w)
    BY <1>d, <2>10 DEF unuse, hasEvent, GetUnchanged, Requests
  <2>11. QED BY <1>2, <2>1, <2>2, <2>3, <2>4, <2>5, <2>6, <2>7, <2>8, <2>9, <2>10 DEF Handle
<1>3. CASE (\E n \in EventNames : DispatchName(n)) \/ LookupTarget \/ Deliver \/ SignalArrival
  BY <1>e, <1>3 DEF DispatchName, LookupTarget, Deliver, SignalArrival, InterpUnchangedWeb
<1>4. CASE cleanupSessions
  BY <1>a, <1>b, <1>c, <1>4 DEF cleanupSessions, CleanedUp, SessionsOK
<1>5. CASE PassTime
  BY <1>e, <1>5 DEF PassTime
<1>6. QED BY <1>1, <1>2, <1>3, <1>4, <1>5 DEF WebNext

(* What touches a session sets the time that has come; nothing else        *)
(* changes when it was touched and when a wait for it ended.               *)
LEMMA LeaseStep == WebInv /\ WebNext => LeaseOK'
<1> SUFFICES ASSUME WebInv, WebNext PROVE LeaseOK'
  OBVIOUS
<1> USE DEF webVars, sessVars, colVars, evtVars, relVars, wrkVars, intVars, WGo, WAt, IAt
<1>a. /\ LeaseOK /\ webNow \in Nat
      /\ touched \in [Tokens -> Nat] /\ waitEnded \in [Tokens -> Nat]
  BY WebAssumption DEF WebInv, WebTypeOK
<1>b. ASSUME UNCHANGED <<webNow, touched, waitEnded>> PROVE LeaseOK'
  BY <1>a, <1>b DEF LeaseOK
<1>c. ASSUME NEW t, touched' = [touched EXCEPT ![t] = webNow],
             UNCHANGED <<webNow, waitEnded>>
      PROVE  LeaseOK'
  BY <1>a, <1>c DEF LeaseOK
<1>1. ASSUME NEW w \in Workers, Arrive(w) PROVE LeaseOK'
  BY <1>b, <1>1 DEF Arrive, Receive
<1>2. ASSUME NEW w \in Workers, Handle(w) PROVE LeaseOK'
  <2>1. CASE touch(w)
    BY <1>c, <2>1 DEF touch
  <2>2. CASE registerSession(w)
    BY <1>b, <1>c, <2>2 DEF registerSession
  <2>3. CASE removeSession(w) \/ Finish(w) \/ subscribe(w) \/ NewID(w) \/ registerSubscription(w)
    BY <1>b, <2>3 DEF removeSession, Finish, subscribe, NewID, registerSubscription
  <2>4. CASE AssertNew(w) \/ AddSubscription(w) \/ unsubscribe(w) \/ popEvent(w)
    BY <1>b, <2>4 DEF AssertNew, AddSubscription, unsubscribe, popEvent, GetUnchanged, Crash
  <2>5. CASE get(w) \/ PollRound(w) \/ EnterWait(w) \/ Signalled(w) \/ TimedOut(w) \/ hasEvent(w)
    BY <1>b, <2>5 DEF get, PollRound, EnterWait, Signalled, TimedOut, WaitEnds, hasEvent, GetUnchanged
  <2>6. CASE unuse(w)
    <3>1. /\ touched' = [touched EXCEPT ![wtoken[w]] = webNow]
          /\ waitEnded' = [waitEnded EXCEPT ![wtoken[w]] = webNow] /\ webNow' = webNow
      BY <2>6 DEF unuse, GetUnchanged
    <3>2. QED BY <1>a, <3>1 DEF LeaseOK
  <2>7. QED BY <1>2, <2>1, <2>2, <2>3, <2>4, <2>5, <2>6 DEF Handle
<1>3. CASE (\E n \in EventNames : DispatchName(n)) \/ LookupTarget \/ Deliver \/ SignalArrival
  BY <1>b, <1>3 DEF DispatchName, LookupTarget, Deliver, SignalArrival, InterpUnchangedWeb
<1>4. CASE cleanupSessions
  BY <1>b, <1>4 DEF cleanupSessions
<1>5. CASE PassTime
  BY <1>a, <1>5 DEF PassTime, LeaseOK
<1>6. QED BY <1>1, <1>2, <1>3, <1>4, <1>5 DEF WebNext

(* There is room for the collectors of the requests that are under way.    *)
LEMMA RoomStep == WebInv /\ WebNext => RoomOK'
<1> SUFFICES ASSUME WebInv, WebNext PROVE RoomOK'
  OBVIOUS
<1> USE DEF webVars, sessVars, colVars, evtVars, relVars, wrkVars, intVars, WGo, WAt, IAt
<1>a. RoomOK /\ SessionsOK /\ WebTypeOK
  BY DEF WebInv
<1>b. /\ wpc \in [Workers -> WebPC] /\ wreq \in [Workers -> Requests]
      /\ collectors \in Nat /\ MaxCollectors \in Nat
  BY <1>a, WebAssumption DEF WebTypeOK
<1>c. IsFiniteSet(ToSubscribe) /\ Cardinality(ToSubscribe) \in Nat
      /\ IsFiniteSet(ToSubscribe') /\ Cardinality(ToSubscribe') \in Nat
  <2>1. ToSubscribe \in SUBSET Workers /\ ToSubscribe' \in SUBSET Workers
    BY DEF ToSubscribe
  <2> HIDE DEF ToSubscribe
  <2>2. QED BY <2>1, WebAssumption, FS_Subset, FS_CardinalityType
<1>d. ASSUME collectors' = collectors, ToSubscribe' \subseteq ToSubscribe PROVE RoomOK'
  <2>1. ToSubscribe' \in SUBSET ToSubscribe
    BY <1>d
  <2>2. Cardinality(ToSubscribe') <= Cardinality(ToSubscribe)
    BY <1>c, <2>1, FS_Subset
  <2>3. QED BY <1>a, <1>b, <1>c, <1>d, <2>2 DEF RoomOK
<1>1. ASSUME NEW w \in Workers, Arrive(w) PROVE RoomOK'
  <2>1. PICK r, t, n : r \in Requests /\ Receive(w, r, t, n)
    BY <1>1 DEF Arrive
  <2>2. collectors' = collectors /\ wpc[w] = "idle" /\ wreq' = [wreq EXCEPT ![w] = r]
        /\ \E l \in WebPC : wpc' = [wpc EXCEPT ![w] = l]
    BY <2>1 DEF Receive, WebPC
  <2>3. CASE r # "subscribe"
    <3>1. ToSubscribe' \subseteq ToSubscribe
      BY <1>b, <2>2, <2>3 DEF ToSubscribe
    <3>2. QED BY <1>d, <2>2, <3>1
  <2>4. CASE r = "subscribe"
    <3> DEFINE Sub == {v \in Workers : wpc[v] # "idle" /\ wreq[v] = "subscribe"}
    <3>1. collectors + Cardinality(Sub) < MaxCollectors
      BY <2>1, <2>4 DEF Receive, Subscribing
    <3>2. ToSubscribe' \in SUBSET (Sub \cup {w}) /\ Sub \in SUBSET Workers /\ w \notin Sub
      BY <1>b, <2>2, <2>4 DEF ToSubscribe
    <3> HIDE DEF Sub
    <3>3. IsFiniteSet(Sub) /\ Cardinality(Sub) \in Nat
      BY <3>2, WebAssumption, FS_Subset, FS_CardinalityType
    <3>4. IsFiniteSet(Sub \cup {w}) /\ Cardinality(Sub \cup {w}) = Cardinality(Sub) + 1
      BY <3>2, <3>3, FS_AddElement
    <3>5. Cardinality(ToSubscribe') <= Cardinality(Sub) + 1
      BY <3>2, <3>4, FS_Subset
    <3>6. QED BY <1>b, <1>c, <2>2, <3>1, <3>3, <3>5 DEF RoomOK
  <2>5. QED BY <2>3, <2>4
<1>2. ASSUME NEW w \in Workers, Handle(w) PROVE RoomOK'
  <2>1. CASE subscribe(w)
    <3>1. w \in ToSubscribe
      BY <1>a, <2>1 DEF subscribe, SessionsOK, ToSubscribe, Requests
    <3>2. ToSubscribe' \in SUBSET (ToSubscribe \ {w})
      BY <1>b, <2>1 DEF subscribe, ToSubscribe
    <3>3. CollectorOf(wtoken[w]) \in 1 .. collectors + 1
      <4>1. wtoken[w] \in Tokens
        BY <1>a, <2>1, SubscribeShape
      <4>2. m_subscription[wtoken[w]] \in Collectors \cup {None} /\ m_subscription[wtoken[w]] <= collectors
        BY <1>a, <4>1 DEF WebTypeOK, OwnersOK, WebInv
      <4>3. QED BY <1>b, <4>2 DEF CollectorOf, Collectors, None
    <3>4. collectors' <= collectors + 1 /\ collectors' \in Nat
      BY <1>a, <1>b, <2>1, <3>3, SubscribeShape
    <3> HIDE DEF ToSubscribe
    <3>5. IsFiniteSet(ToSubscribe \ {w}) /\ Cardinality(ToSubscribe \ {w}) = Cardinality(ToSubscribe) - 1
      BY <1>c, <3>1, FS_RemoveElement
    <3>6. Cardinality(ToSubscribe') <= Cardinality(ToSubscribe) - 1
      BY <3>2, <3>5, FS_Subset
    <3>7. QED BY <1>a, <1>b, <1>c, <3>4, <3>6 DEF RoomOK
  <2>2. ASSUME collectors' = collectors, wreq' = wreq, NEW l, wpc' = [wpc EXCEPT ![w] = l],
               l # "touch", l = "subscribe" => wpc[w] = "touch"
        PROVE  RoomOK'
    <3>1. ToSubscribe' \subseteq ToSubscribe
      BY <1>b, <2>2 DEF ToSubscribe
    <3>2. QED BY <1>d, <2>2, <3>1
  <2>3. CASE touch(w) \/ registerSession(w) \/ removeSession(w) \/ Finish(w)
    BY <1>b, <2>2, <2>3 DEF touch, registerSession, removeSession, Finish, Requests
  <2>4. CASE NewID(w) \/ registerSubscription(w) \/ AddSubscription(w) \/ unsubscribe(w)
    BY <2>2, <2>4 DEF NewID, registerSubscription, AddSubscription, unsubscribe
  <2>5. CASE AssertNew(w) \/ popEvent(w)
    <3>1. ASSUME Crash PROVE RoomOK'
      BY <1>d, <3>1 DEF Crash, ToSubscribe
    <3>2. QED BY <2>2, <2>5, <3>1 DEF AssertNew, popEvent, GetUnchanged
  <2>6. CASE get(w) \/ PollRound(w) \/ EnterWait(w) \/ Signalled(w) \/ TimedOut(w)
    BY <2>2, <2>6 DEF get, PollRound, EnterWait, Signalled, TimedOut, WaitEnds, GetUnchanged
  <2>7. CASE unuse(w) \/ hasEvent(w)
    BY <2>2, <2>7 DEF unuse, hasEvent, GetUnchanged
  <2>8. QED BY <1>2, <2>1, <2>3, <2>4, <2>5, <2>6, <2>7 DEF Handle
<1>3. ASSUME UNCHANGED <<collectors, wpc, wreq>> PROVE RoomOK'
  BY <1>d, <1>3 DEF ToSubscribe
<1>4. CASE (\E n \in EventNames : DispatchName(n)) \/ LookupTarget \/ Deliver \/ SignalArrival
  BY <1>3, <1>4 DEF DispatchName, LookupTarget, Deliver, SignalArrival, InterpUnchangedWeb
<1>5. CASE cleanupSessions \/ PassTime
  BY <1>3, <1>5 DEF cleanupSessions, PassTime
<1>6. QED BY <1>1, <1>2, <1>4, <1>5 DEF WebNext

-----------------------------------------------------------------------------
(* Collectors and who keeps them                                           *)

(* What is destroyed is neither held by a worker of ws nor by a session    *)
(* that stays.                                                             *)
LEMMA DestroySpares ==
  ASSUME NEW sess, NEW subs, NEW ws, NEW released, Destroy(sess, subs, ws, released)
  PROVE  /\ \A v \in ws : wcol[v] \in Living => wcol[v] \notin destroyed'
         /\ \A t \in Tokens : /\ subs[t] \in Living
                              /\ t \in generated
                              /\ sess[t] = "live" \/ \E v \in ws : wtoken[v] = t
                              => subs[t] \notin destroyed'
         /\ destroyed \subseteq destroyed'
BY DEF Destroy, LostCollectors, LostSessions, Living

(* Steps that change no collector and no subscription of a session         *)
LEMMA OwnersStay ==
  ASSUME OwnersOK, UNCHANGED <<collectors, destroyed, m_subscription, wcol>>,
         \A t \in Tokens : Held(t)' => Held(t) \/ m_subscription[t] = None,
         \A w \in Workers : wpc'[w] \in HasColl => wpc[w] \in HasColl
  PROVE  OwnersOK'
<1>1. Living' = Living
  BY DEF Living
<1> HIDE DEF Held, Living
<1>2. QED BY <1>1 DEF OwnersOK

(* Steps that destroy what nobody holds                                    *)
LEMMA OwnersOfDestroyed ==
  ASSUME WebTypeOK, OwnersOK, NEW sess, NEW subs \in [Tokens -> Collectors \cup {None}],
         NEW ws \in SUBSET Workers, NEW released,
         Destroy(sess, subs, ws, released), collectors' = collectors, m_subscription' = subs,
         generated' = generated,
         \A t \in Tokens : subs[t] \in {m_subscription[t], None},
         \A t \in Tokens : Held(t)' =>
           Held(t) /\ (sess[t] = "live" \/ \E v \in ws : wtoken[v] = t),
         \A v \in Workers : wcol'[v] # None => v \in ws /\ wcol'[v] = wcol[v],
         \A v \in Workers : wpc'[v] \in HasColl => wcol'[v] # None
  PROVE  OwnersOK'
<1>1. /\ \A v \in ws : wcol[v] \in Living => wcol[v] \notin destroyed'
      /\ \A t \in Tokens : /\ subs[t] \in Living
                           /\ t \in generated
                           /\ sess[t] = "live" \/ \E v \in ws : wtoken[v] = t
                           => subs[t] \notin destroyed'
  BY DestroySpares
<1>2. \A t \in Tokens : Held(t)' => t \in generated
  BY DEF Held
<1>3. \A c \in Living : c \notin destroyed' => c \in Living'
  BY DEF Living
<1>4. \A t \in Tokens : Held(t)' /\ m_subscription'[t] # None => m_subscription'[t] \in Living'
  <2> HIDE DEF Held, Living
  <2>1. SUFFICES ASSUME NEW t \in Tokens, Held(t)', subs[t] # None PROVE subs[t] \in Living'
    OBVIOUS
  <2>2. subs[t] \in Living
    BY <2>1 DEF OwnersOK
  <2>3. subs[t] \notin destroyed'
    BY <1>1, <1>2, <2>1, <2>2
  <2>4. QED BY <1>3, <2>2, <2>3
<1>5. \A w \in Workers : wcol'[w] # None => wcol'[w] \in Living'
  <2> HIDE DEF Held, Living
  <2>1. QED BY <1>1, <1>3 DEF OwnersOK
<1>6. \A s, t \in Tokens : m_subscription'[s] = m_subscription'[t] /\ m_subscription'[s] # None
        => s = t
  BY DEF OwnersOK
<1>7. \A t \in Tokens : m_subscription'[t] <= collectors'
  <2>1. collectors \in Nat /\ \A t \in Tokens : m_subscription[t] <= collectors
    BY WebAssumption DEF OwnersOK, WebTypeOK
  <2>2. QED BY <2>1 DEF None
<1> HIDE DEF Held, Living
<1>8. QED BY <1>4, <1>5, <1>6, <1>7 DEF OwnersOK

(* A session that appears has no collector yet; one that is used existed.  *)
LEMMA HeldBefore ==
  ASSUME WebInv, WebNext, \A w \in Workers : ~subscribe(w)
  PROVE  \A t \in Tokens : Held(t)' => Held(t) \/ m_subscription[t] = None
<1> USE DEF webVars, sessVars, colVars, evtVars, relVars, wrkVars, intVars, WGo, WAt, IAt
<1> DEFINE Good == \A t \in Tokens : Held(t)' => Held(t) \/ m_subscription[t] = None
<1>a. SessionsOK
  BY DEF WebInv
<1>b. /\ wpc \in [Workers -> WebPC] /\ wtoken \in [Workers -> Tokens \cup {NoToken}]
      /\ generated \subseteq Tokens /\ m_Sessions \in [AllTokens -> {"absent", "null", "live"}]
  BY DEF WebInv, WebTypeOK
<1>c. NoToken \notin AllTokens /\ AllTokens = Tokens \cup OldTokens
  BY WebAssumption DEF AllTokens
<1>d. ASSUME UNCHANGED <<m_Sessions, generated, wtoken>> PROVE Good
  BY <1>d DEF Held
<1>1. ASSUME NEW w \in Workers, Arrive(w) PROVE Good
  <2>1. PICK r, t, n : /\ r \in Requests /\ t \in generated \cup OldTokens \cup {NoToken}
                       /\ Receive(w, r, t, n)
    BY <1>1 DEF Arrive
  <2>2. generated' = generated
    BY <2>1 DEF Receive
  <2>3. CASE t # NoToken /\ m_Sessions[t] = "live"
    <3>1. m_Sessions' = m_Sessions /\ wtoken' = [wtoken EXCEPT ![w] = t]
      BY <2>1, <2>3 DEF Receive
    <3>2. QED BY <1>b, <2>2, <2>3, <3>1 DEF Held
  <2>4. CASE ~(t # NoToken /\ m_Sessions[t] = "live")
    <3>1. wtoken' = wtoken /\ \A u \in Tokens : m_Sessions'[u] = "live" => m_Sessions[u] = "live"
      BY <1>b, <1>c, <2>1, <2>4 DEF Receive
    <3>2. QED BY <2>2, <3>1 DEF Held
  <2>5. QED BY <2>3, <2>4
<1>2. ASSUME NEW w \in Workers, Handle(w) PROVE Good
  <2>1. CASE touch(w)
    BY <1>d, <2>1 DEF touch
  <2>2. CASE registerSession(w)
    BY <1>a, <1>b, <1>c, <2>2 DEF registerSession, Held, SessionsOK
  <2>3. CASE removeSession(w)
    BY <1>b, <1>c, <2>3 DEF removeSession, Held
  <2>4. CASE Finish(w)
    BY <1>b, <1>c, <2>4 DEF Finish, Held
  <2>5. CASE NewID(w) \/ registerSubscription(w) \/ AddSubscription(w) \/ unsubscribe(w)
    BY <1>d, <2>5 DEF NewID, registerSubscription, AddSubscription, unsubscribe
  <2>6. CASE AssertNew(w) \/ popEvent(w)
    BY <1>d, <2>6 DEF AssertNew, popEvent, GetUnchanged, Crash
  <2>7. CASE get(w) \/ PollRound(w) \/ EnterWait(w) \/ Signalled(w) \/ TimedOut(w)
    BY <1>d, <2>7 DEF get, PollRound, EnterWait, Signalled, TimedOut, WaitEnds, GetUnchanged
  <2>8. CASE unuse(w) \/ hasEvent(w)
    BY <1>d, <2>8 DEF unuse, hasEvent, GetUnchanged
  <2>9. QED BY <1>2, <2>1, <2>2, <2>3, <2>4, <2>5, <2>6, <2>7, <2>8 DEF Handle
<1>3. CASE (\E n \in EventNames : DispatchName(n)) \/ LookupTarget \/ Deliver \/ SignalArrival
  BY <1>d, <1>3 DEF DispatchName, LookupTarget, Deliver, SignalArrival, InterpUnchangedWeb
<1>4. CASE cleanupSessions
  BY <1>b, <1>4 DEF cleanupSessions, CleanedUp, Held, AllTokens
<1>5. CASE PassTime
  BY <1>d, <1>5 DEF PassTime
<1>6. QED BY <1>1, <1>2, <1>3, <1>4, <1>5 DEF WebNext

(* Whoever uses a session or a collector finds it alive.                   *)
LEMMA OwnersStep == WebInv /\ WebNext => OwnersOK'
<1> SUFFICES ASSUME WebInv, WebNext PROVE OwnersOK'
  OBVIOUS
<1> USE DEF webVars, sessVars, colVars, evtVars, relVars, wrkVars, intVars, WGo, WAt, IAt
<1>a. OwnersOK /\ SessionsOK /\ WebTypeOK /\ RoomOK
  BY DEF WebInv
<1>b. /\ wpc \in [Workers -> WebPC] /\ wtoken \in [Workers -> Tokens \cup {NoToken}]
      /\ wreq \in [Workers -> Requests] /\ wcol \in [Workers -> Collectors \cup {None}]
      /\ m_subscription \in [Tokens -> Collectors \cup {None}] /\ generated \subseteq Tokens
      /\ collectors \in Nat /\ destroyed \subseteq 1 .. collectors
  BY <1>a DEF WebTypeOK
<1> DEFINE Kept1 == /\ UNCHANGED <<collectors, destroyed, m_subscription, wcol>>
                    /\ \A v \in Workers : wpc'[v] \in HasColl => wpc[v] \in HasColl
<1>c. ASSUME Kept1, \A w \in Workers : ~subscribe(w) PROVE OwnersOK'
  BY <1>a, <1>c, HeldBefore, OwnersStay
<1> USE DEF HasColl, Polling, InMutex
<1>1. ASSUME NEW w \in Workers, Arrive(w), \A v \in Workers : ~subscribe(v) PROVE OwnersOK'
  <2>1. Kept1
    BY <1>b, <1>1 DEF Arrive, Receive
  <2>2. QED BY <1>c, <1>1, <2>1
<1>2. ASSUME NEW w \in Workers, Handle(w), \A v \in Workers : ~subscribe(v) PROVE OwnersOK'
  <2>a. \A t \in Tokens : Held(t)' => Held(t) \/ m_subscription[t] = None
    BY <1>2, HeldBefore
  <2>1. CASE touch(w) \/ registerSession(w) \/ removeSession(w)
    <3>1. Kept1
      BY <1>b, <2>1 DEF touch, registerSession, removeSession, Requests
    <3>2. QED BY <1>c, <1>2, <3>1
  <2>2. CASE NewID(w) \/ registerSubscription(w) \/ AddSubscription(w)
    <3>1. Kept1
      BY <1>b, <2>2 DEF NewID, registerSubscription, AddSubscription
    <3>2. QED BY <1>c, <1>2, <3>1
  <2>3. CASE AssertNew(w) \/ popEvent(w)
    <3>1. Kept1
      BY <1>b, <2>3 DEF AssertNew, popEvent, GetUnchanged, Crash
    <3>2. QED BY <1>c, <1>2, <3>1
  <2>4. CASE PollRound(w) \/ EnterWait(w) \/ Signalled(w) \/ TimedOut(w)
    <3>1. Kept1
      BY <1>b, <2>4 DEF PollRound, EnterWait, Signalled, TimedOut, WaitEnds, GetUnchanged
    <3>2. QED BY <1>c, <1>2, <3>1
  <2>5. CASE unuse(w) \/ hasEvent(w)
    <3>1. Kept1
      BY <1>b, <2>5 DEF unuse, hasEvent, GetUnchanged
    <3>2. QED BY <1>c, <1>2, <3>1
  <2>6. CASE get(w)
    <3>1. wtoken[w] \in Tokens /\ Held(wtoken[w])
      BY <1>a, <1>b, <2>6 DEF get, SessionsOK, Held
    <3>2. CASE m_subscription[wtoken[w]] = None
      <4>1. Kept1
        BY <1>b, <2>6, <3>2 DEF get, GetUnchanged
      <4>2. QED BY <1>c, <1>2, <4>1
    <3>3. CASE m_subscription[wtoken[w]] # None
      <4>1. m_subscription[wtoken[w]] \in Living
        BY <1>a, <3>1, <3>3 DEF OwnersOK
      <4>2. /\ wcol' = [wcol EXCEPT ![w] = m_subscription[wtoken[w]]]
            /\ wpc' = [wpc EXCEPT ![w] = "loop"]
            /\ UNCHANGED <<collectors, destroyed, m_subscription>>
        BY <2>6, <3>3 DEF get, GetUnchanged
      <4>3. Living' = Living
        BY <4>2 DEF Living
      <4>4. \A v \in Workers : /\ wpc'[v] \in HasColl => wcol'[v] # None
                               /\ wcol'[v] # None => wcol'[v] \in Living
        <5> HIDE DEF Living
        <5>1. QED BY <1>a, <1>b, <3>3, <4>1, <4>2 DEF OwnersOK
      <4>5. \A t \in Tokens : Held(t)' /\ m_subscription'[t] # None => m_subscription'[t] \in Living'
        <5> HIDE DEF Living, Held
        <5>1. QED BY <1>a, <2>a, <4>2, <4>3 DEF OwnersOK
      <4> HIDE DEF Living, Held, HasColl
      <4>6. QED BY <1>a, <4>2, <4>3, <4>4, <4>5 DEF OwnersOK
    <3>4. QED BY <3>2, <3>3
  <2>7. CASE Finish(w)
    <3>1. /\ Destroy(m_Sessions, m_subscription, Workers \ {w}, NoneReleased)
          /\ collectors' = collectors /\ m_subscription' = m_subscription /\ generated' = generated
          /\ wpc' = [wpc EXCEPT ![w] = "idle"] /\ wtoken' = [wtoken EXCEPT ![w] = NoToken]
          /\ wcol' = [wcol EXCEPT ![w] = None] /\ m_Sessions' = m_Sessions
      BY <2>7 DEF Finish
    <3>2. \A t \in Tokens : Held(t)' =>
            Held(t) /\ (m_Sessions[t] = "live" \/ \E v \in Workers \ {w} : wtoken[v] = t)
      BY <1>b, <3>1, WebAssumption DEF Held
    <3>3. \A v \in Workers : wcol'[v] # None => v \in Workers \ {w} /\ wcol'[v] = wcol[v]
      BY <1>b, <3>1
    <3>4. \A v \in Workers : wpc'[v] \in HasColl => wcol'[v] # None
      BY <1>a, <1>b, <3>1 DEF OwnersOK
    <3>5. \A t \in Tokens : Held(t)' => Held(t) /\ m_subscription'[t] = m_subscription[t]
      BY <3>1, <3>2
    <3> HIDE DEF HasColl, Held
    <3>6. QED BY <1>a, <1>b, <3>1, <3>2, <3>3, <3>4, <3>5, OwnersOfDestroyed
  <2>8. CASE unsubscribe(w)
    <3> DEFINE subs == [m_subscription EXCEPT ![wtoken[w]] = None]
    <3>1. /\ Destroy(m_Sessions, subs, Workers, NamedOf(m_subscription[wtoken[w]], wname[w]))
          /\ collectors' = collectors /\ m_subscription' = subs /\ generated' = generated
          /\ wpc' = [wpc EXCEPT ![w] = "finish"] /\ wtoken' = wtoken
          /\ wcol' = wcol /\ m_Sessions' = m_Sessions
      BY <2>8 DEF unsubscribe
    <3>2. \A t \in Tokens : Held(t)' =>
            Held(t) /\ (m_Sessions[t] = "live" \/ \E v \in Workers : wtoken[v] = t)
      BY <3>1 DEF Held
    <3>3. \A v \in Workers : wcol'[v] # None => v \in Workers /\ wcol'[v] = wcol[v]
      BY <3>1
    <3>4. \A v \in Workers : wpc'[v] \in HasColl => wcol'[v] # None
      BY <1>a, <1>b, <3>1 DEF OwnersOK
    <3>5. subs \in [Tokens -> Collectors \cup {None}] /\ \A t \in Tokens : subs[t] \in {m_subscription[t], None}
      BY <1>b
    <3> HIDE DEF HasColl, subs
    <3>6. QED BY <1>a, <1>b, <3>1, <3>2, <3>3, <3>4, <3>5, OwnersOfDestroyed
  <2>9. QED BY <1>2, <2>1, <2>2, <2>3, <2>4, <2>5, <2>6, <2>7, <2>8 DEF Handle
<1>3. ASSUME NEW w \in Workers, subscribe(w) PROVE OwnersOK'
  <2> DEFINE c == CollectorOf(wtoken[w])
  <2>1. /\ wtoken[w] \in Tokens /\ c \in Collectors
        /\ collectors' = IF c > collectors THEN c ELSE collectors
        /\ m_subscription' = [m_subscription EXCEPT ![wtoken[w]] = c]
        /\ wcol' = [wcol EXCEPT ![w] = c]
    BY <1>a, <1>3, SubscribeShape
  <2>2. /\ UNCHANGED <<m_Sessions, generated, destroyed, wtoken>> /\ wpc[w] = "subscribe"
        /\ wpc' = [wpc EXCEPT ![w] = "newid"]
    BY <1>3 DEF subscribe
  <2>3. \A t \in Tokens : Held(t)' <=> Held(t)
    BY <2>2 DEF Held
  <2>4. Held(wtoken[w])
    BY <1>a, <2>1, <2>2 DEF SessionsOK, Held
  <2>5. c \in Living'
    <3>1. CASE m_subscription[wtoken[w]] = None
      BY <1>b, <2>1, <2>2, <3>1 DEF CollectorOf, Living
    <3>2. CASE m_subscription[wtoken[w]] # None
      BY <1>a, <1>b, <2>1, <2>2, <2>4, <3>2 DEF CollectorOf, Living, OwnersOK
    <3>3. QED BY <3>1, <3>2
  <2>c. collectors' \in collectors .. MaxCollectors
    BY <1>a, <1>3, SubscribeShape
  <2>6. \A d \in Living : d \in Living'
    <3>1. collectors' \in Nat /\ collectors <= collectors'
      BY <1>b, <2>c
    <3> HIDE DEF c
    <3>2. QED BY <1>b, <2>2, <3>1 DEF Living
  <2>7. \A t \in Tokens : m_subscription'[t] <= collectors'
    BY <1>a, <1>b, <2>1 DEF OwnersOK, Collectors, None
  <2>8. \A s, t \in Tokens : m_subscription'[s] = m_subscription'[t] /\ m_subscription'[s] # None
          => s = t
    <3>1. \A t \in Tokens \ {wtoken[w]} : m_subscription[t] # c
      <4>1. CASE m_subscription[wtoken[w]] = None
        <5>1. c = collectors + 1
          BY <4>1 DEF CollectorOf
        <5>2. QED BY <1>a, <1>b, <5>1 DEF OwnersOK, Collectors, None
      <4>2. CASE m_subscription[wtoken[w]] # None
        <5>1. c = m_subscription[wtoken[w]]
          BY <4>2 DEF CollectorOf
        <5>2. QED BY <1>a, <2>1, <4>2, <5>1 DEF OwnersOK
      <4>3. QED BY <4>1, <4>2
    <3> HIDE DEF c
    <3>2. QED BY <1>a, <1>b, <2>1, <3>1 DEF OwnersOK
  <2> HIDE DEF c, Living, Held
  <2>9. \A t \in Tokens : Held(t)' /\ m_subscription'[t] # None => m_subscription'[t] \in Living'
    BY <1>a, <1>b, <2>1, <2>3, <2>5, <2>6 DEF OwnersOK
  <2>10. \A v \in Workers : wcol'[v] # None => wcol'[v] \in Living'
    BY <1>a, <1>b, <2>1, <2>5, <2>6 DEF OwnersOK
  <2>11. \A v \in Workers : wpc'[v] \in HasColl => wcol'[v] # None
    BY <1>a, <1>b, <2>1, <2>2 DEF OwnersOK, Collectors, None
  <2> HIDE DEF HasColl
  <2>12. QED BY <2>7, <2>8, <2>9, <2>10, <2>11 DEF OwnersOK
<1>4. ASSUME \/ \E n \in EventNames : DispatchName(n)
             \/ LookupTarget \/ Deliver \/ SignalArrival \/ PassTime,
             \A v \in Workers : ~subscribe(v)
      PROVE  OwnersOK'
  <2>1. Kept1
    BY <1>4 DEF DispatchName, LookupTarget, Deliver, SignalArrival, InterpUnchangedWeb, PassTime
  <2>2. QED BY <1>c, <1>4, <2>1
<1>5. ASSUME cleanupSessions, \A v \in Workers : ~subscribe(v) PROVE OwnersOK'
  <2>1. /\ Destroy(CleanedUp, m_subscription, Workers, NoneReleased)
        /\ m_Sessions' = CleanedUp
        /\ UNCHANGED <<collectors, m_subscription, generated, wpc, wtoken, wcol>>
    BY <1>5 DEF cleanupSessions
  <2>2. \A t \in Tokens : CleanedUp[t] = "live" => m_Sessions[t] = "live"
    BY DEF CleanedUp, AllTokens
  <2>3. \A t \in Tokens : Held(t)' =>
          Held(t) /\ (CleanedUp[t] = "live" \/ \E v \in Workers : wtoken[v] = t)
    <3> HIDE DEF CleanedUp
    <3>1. QED BY <2>1, <2>2 DEF Held
  <2>4. /\ \A v \in Workers : wcol'[v] # None => v \in Workers /\ wcol'[v] = wcol[v]
        /\ \A v \in Workers : wpc'[v] \in HasColl => wcol'[v] # None
    BY <1>a, <2>1 DEF OwnersOK
  <2>5. \A t \in Tokens : m_subscription[t] \in {m_subscription[t], None}
    OBVIOUS
  <2> HIDE DEF HasColl
  <2>6. QED BY <1>a, <1>b, <2>1, <2>3, <2>4, <2>5, OwnersOfDestroyed
<1>6. QED BY <1>1, <1>2, <1>3, <1>4, <1>5 DEF WebNext

-----------------------------------------------------------------------------
(* The mutex of a session's subscriptions                                  *)

(* Workers that subscribe for different sessions have different collectors. *)
LEMMA MutexApart ==
  ASSUME WebTypeOK, SessionsOK, OwnersOK, MutexOK, NEW v \in Workers, wpc[v] \in InMutex
  PROVE  /\ wtoken[v] \in Tokens /\ wtoken[v] \in subMutex
         /\ wcol[v] \in Collectors /\ wcol[v] \in Living /\ m_subscription[wtoken[v]] = wcol[v]
         /\ \A t \in Tokens : t # wtoken[v] => m_subscription[t] # wcol[v]
         /\ \A w \in Workers : w # v /\ wpc[w] \in InMutex =>
              wtoken[w] # wtoken[v] /\ wcol[w] # wcol[v]
<1>1. wtoken[v] \in Tokens /\ wtoken[v] \in subMutex /\ m_subscription[wtoken[v]] = wcol[v]
  BY DEF MutexOK, SessionsOK, WebTypeOK, InMutex
<1>2. wcol[v] # None /\ wcol[v] \in Living
  BY DEF OwnersOK, HasColl
<1>3. wcol[v] \in Collectors
  BY <1>2 DEF WebTypeOK
<1>4. \A t \in Tokens : t # wtoken[v] => m_subscription[t] # wcol[v]
  BY <1>1, <1>2 DEF OwnersOK
<1>5. ASSUME NEW w \in Workers, w # v, wpc[w] \in InMutex
      PROVE  wtoken[w] # wtoken[v] /\ wcol[w] # wcol[v]
  <2>1. wtoken[w] # wtoken[v]
    BY <1>5 DEF MutexOK
  <2>2. wtoken[w] \in Tokens /\ m_subscription[wtoken[w]] = wcol[w]
    BY <1>5 DEF MutexOK, SessionsOK, WebTypeOK, InMutex
  <2>3. QED BY <1>4, <2>1, <2>2
<1>6. QED BY <1>1, <1>2, <1>3, <1>4, <1>5

(* Steps that leave those alone who hold a mutex                           *)
LEMMA MutexStays ==
  ASSUME MutexOK,
         \A v \in Workers : wpc'[v] \in InMutex =>
           /\ wpc'[v] = wpc[v] /\ wtoken'[v] = wtoken[v] /\ wcol'[v] = wcol[v]
           /\ wname'[v] = wname[v] /\ wid'[v] = wid[v] /\ wtoken[v] \in subMutex'
           /\ m_subscription'[wtoken[v]] = m_subscription[wtoken[v]]
           /\ relayIDs'[wcol[v]] = relayIDs[wcol[v]]
  PROVE  MutexOK'
<1>1. \A v \in Workers : wpc'[v] \in {"newid", "relay", "assert", "push"} => wpc'[v] \in InMutex
  BY DEF InMutex
<1>2. \A v \in Workers : wpc'[v] \in InMutex =>
        wtoken'[v] \in subMutex' /\ m_subscription'[wtoken'[v]] = wcol'[v]
  BY DEF MutexOK
<1>3. \A v, w \in Workers : wpc'[v] \in InMutex /\ wpc'[w] \in InMutex /\ wtoken'[v] = wtoken'[w]
        => v = w
  BY DEF MutexOK
<1>4. \A w \in Workers : wpc'[w] \in {"newid", "relay"} => Named(wcol[w], wname[w])' = {}
  <2>1. TAKE w \in Workers
  <2>2. HAVE wpc'[w] \in {"newid", "relay"}
  <2>3. wpc[w] \in {"newid", "relay"} /\ relayIDs'[wcol'[w]] = relayIDs[wcol[w]] /\ wname'[w] = wname[w]
    BY <1>1, <2>2
  <2>4. Named(wcol[w], wname[w]) = {}
    BY <2>3 DEF MutexOK
  <2>5. QED BY <2>3, <2>4 DEF Named
<1>5. \A w \in Workers : wpc'[w] = "relay" => wid'[w][1] = wname'[w]
  BY <1>1 DEF MutexOK
<1>6. \A w \in Workers : wpc'[w] \in {"assert", "push"} => wid'[w] \in relayIDs'[wcol'[w]]
  BY <1>1 DEF MutexOK
<1>7. QED BY <1>2, <1>3, <1>4, <1>5, <1>6 DEF MutexOK

(* The IDs of a collector that a worker of ws has are taken back only if    *)
(* they are released.                                                      *)
LEMMA DestroyReleases ==
  ASSUME NEW sess, NEW subs, NEW ws, NEW released, Destroy(sess, subs, ws, released),
         NEW v \in ws, wcol[v] \in Collectors, released[wcol[v]] = {}
  PROVE  relayIDs'[wcol[v]] = relayIDs[wcol[v]]
<1>1. wcol[v] \notin LostCollectors(sess, subs, ws)
  BY DEF LostCollectors
<1>2. QED BY <1>1 DEF Destroy, Cancel

(* One request at a time subscribes for a session, with an ID of its own.  *)
LEMMA MutexStep == WebInv /\ WebNext => MutexOK'
<1> SUFFICES ASSUME WebInv, WebNext PROVE MutexOK'
  OBVIOUS
<1> USE DEF webVars, sessVars, colVars, evtVars, relVars, wrkVars, intVars, WGo, WAt, IAt
<1>a. MutexOK /\ OwnersOK /\ SessionsOK /\ WebTypeOK /\ RoomOK
  BY DEF WebInv
<1>b. /\ wpc \in [Workers -> WebPC] /\ wtoken \in [Workers -> Tokens \cup {NoToken}]
      /\ wreq \in [Workers -> Requests] /\ wcol \in [Workers -> Collectors \cup {None}]
      /\ wname \in [Workers -> EventNames] /\ wid \in [Workers -> SubIDs]
      /\ m_subscription \in [Tokens -> Collectors \cup {None}]
      /\ relayIDs \in [Collectors -> SUBSET SubIDs]
  BY <1>a DEF WebTypeOK
<1>c. \A v \in Workers : wpc[v] \in InMutex =>
        wtoken[v] \in subMutex /\ m_subscription[wtoken[v]] = wcol[v]
  BY <1>a DEF MutexOK
<1> DEFINE Quiet(v) == /\ wpc'[v] = wpc[v] /\ wtoken'[v] = wtoken[v] /\ wcol'[v] = wcol[v]
                       /\ wname'[v] = wname[v] /\ wid'[v] = wid[v]
<1>d. ASSUME UNCHANGED <<subMutex, m_subscription, relayIDs>>,
             \A v \in Workers : wpc'[v] \in InMutex => Quiet(v)
      PROVE  MutexOK'
  <2>1. \A v \in Workers : wpc'[v] \in InMutex => wtoken[v] \in subMutex'
    BY <1>c, <1>d
  <2>2. QED BY <1>a, <1>d, <2>1, MutexStays
<1>1. ASSUME NEW w \in Workers, Arrive(w) PROVE MutexOK'
  <2>1. \A v \in Workers : wpc'[v] \in InMutex => Quiet(v)
    BY <1>b, <1>1 DEF Arrive, Receive, InMutex
  <2>2. QED BY <1>d, <1>1, <2>1 DEF Arrive, Receive
<1>2. ASSUME NEW w \in Workers, Handle(w) PROVE MutexOK'
  <2>1. CASE touch(w) \/ registerSession(w) \/ removeSession(w)
    <3>1. \A v \in Workers : wpc'[v] \in InMutex => Quiet(v)
      BY <1>b, <2>1 DEF touch, registerSession, removeSession, Requests, InMutex
    <3>2. QED BY <1>d, <2>1, <3>1 DEF touch, registerSession, removeSession
  <2>2. CASE Finish(w)
    <3>1. /\ Destroy(m_Sessions, m_subscription, Workers \ {w}, NoneReleased)
          /\ UNCHANGED <<subMutex, m_subscription, wname, wid>>
          /\ wpc' = [wpc EXCEPT ![w] = "idle"] /\ wtoken' = [wtoken EXCEPT ![w] = NoToken]
          /\ wcol' = [wcol EXCEPT ![w] = None]
      BY <2>2 DEF Finish
    <3>2. \A v \in Workers : wpc'[v] \in InMutex => v # w /\ wpc[v] \in InMutex /\ Quiet(v)
      BY <1>b, <3>1 DEF InMutex
    <3>3. ASSUME NEW v \in Workers \ {w}, wpc[v] \in InMutex PROVE relayIDs'[wcol[v]] = relayIDs[wcol[v]]
      <4>1. wcol[v] \in Collectors /\ wcol[v] # None
        BY <1>a, <3>3, MutexApart DEF Collectors, None
      <4>2. NoneReleased[wcol[v]] = {}
        BY <4>1 DEF NoneReleased
      <4>3. QED BY <3>1, <4>1, <4>2, DestroyReleases
    <3>4. QED BY <1>a, <1>c, <3>1, <3>2, <3>3, MutexStays
  <2>3. CASE subscribe(w)
    <3>0. PICK c, n : c = CollectorOf(wtoken[w]) /\ n = wname[w]
      OBVIOUS
    <3>1. /\ wtoken[w] \in Tokens /\ c \in Collectors
          /\ m_subscription' = [m_subscription EXCEPT ![wtoken[w]] = c]
          /\ wcol' = [wcol EXCEPT ![w] = c]
          /\ Cancel(NamedOf(c, n))
      BY <1>a, <2>3, <3>0, SubscribeShape
    <3>2. /\ wpc[w] = "subscribe" /\ wtoken[w] \notin subMutex
          /\ subMutex' = subMutex \cup {wtoken[w]} /\ wpc' = [wpc EXCEPT ![w] = "newid"]
          /\ UNCHANGED <<wtoken, wname, wid>>
      BY <2>3 DEF subscribe
    <3>3. ASSUME NEW v \in Workers, v # w, wpc'[v] \in InMutex
          PROVE  /\ wpc[v] \in InMutex /\ Quiet(v) /\ wtoken[v] # wtoken[w]
                 /\ wtoken[v] \in subMutex' /\ m_subscription'[wtoken[v]] = wcol[v]
                 /\ wcol[v] \in Collectors /\ wcol[v] # c
      <4>1. wpc[v] \in InMutex /\ Quiet(v)
        BY <1>b, <3>1, <3>2, <3>3
      <4>2. /\ wtoken[v] \in Tokens /\ wtoken[v] \in subMutex
            /\ wcol[v] \in Collectors /\ wcol[v] \in Living /\ m_subscription[wtoken[v]] = wcol[v]
            /\ \A t \in Tokens : t # wtoken[v] => m_subscription[t] # wcol[v]
        BY <1>a, <4>1, MutexApart
      <4>3. wtoken[v] # wtoken[w]
        BY <3>2, <4>2
      <4>4. wcol[v] # c
        <5>1. CASE m_subscription[wtoken[w]] = None
          <6>1. c = collectors + 1 /\ collectors \in Nat
            BY <1>a, <3>0, <5>1, WebAssumption DEF CollectorOf, WebTypeOK
          <6>2. wcol[v] <= collectors /\ wcol[v] \in Nat
            BY <4>2, <6>1 DEF Living
          <6>3. QED BY <6>1, <6>2
        <5>2. CASE m_subscription[wtoken[w]] # None
          BY <3>0, <3>1, <4>2, <4>3, <5>2 DEF CollectorOf
        <5>3. QED BY <5>1, <5>2
      <4>5. QED BY <1>b, <3>1, <3>2, <4>1, <4>2, <4>3, <4>4
    <3>4. relayIDs' = [d \in Collectors |-> relayIDs[d] \ NamedOf(c, n)[d]]
      BY <3>1 DEF Cancel
    <3>5. Named(c, n)' = {}
      BY <3>1, <3>2, <3>4 DEF Named, NamedOf
    <3>6. \A d \in Collectors : d # c => relayIDs'[d] = relayIDs[d]
      BY <3>4 DEF NamedOf
    <3>7. /\ wpc'[w] = "newid" /\ wtoken'[w] \in subMutex' /\ wcol'[w] = c
          /\ m_subscription'[wtoken'[w]] = wcol'[w] /\ wname'[w] = wname[w]
      BY <1>b, <3>1, <3>2
    <3>8. \A v \in Workers : wpc'[v] \in InMutex =>
            wtoken'[v] \in subMutex' /\ m_subscription'[wtoken'[v]] = wcol'[v]
      BY <3>3, <3>7
    <3>9. \A v, u \in Workers : wpc'[v] \in InMutex /\ wpc'[u] \in InMutex /\ wtoken'[v] = wtoken'[u]
            => v = u
      BY <1>a, <3>2, <3>3 DEF MutexOK
    <3>10. ASSUME NEW v \in Workers, wpc'[v] \in {"newid", "relay"}
           PROVE  Named(wcol[v], wname[v])' = {}
      <4>1. CASE v = w
        BY <3>0, <3>5, <3>7, <4>1 DEF Named
      <4>2. CASE v # w
        <5>1. wpc[v] = wpc'[v] /\ wcol'[v] = wcol[v] /\ wname'[v] = wname[v]
              /\ relayIDs'[wcol[v]] = relayIDs[wcol[v]]
          BY <3>3, <3>6, <3>10, <4>2 DEF InMutex
        <5>2. Named(wcol[v], wname[v]) = {}
          BY <1>a, <3>10, <5>1 DEF MutexOK
        <5>3. QED BY <5>1, <5>2 DEF Named
      <4>3. QED BY <4>1, <4>2
    <3>11. \A v \in Workers : wpc'[v] = "relay" => wid'[v][1] = wname'[v]
      BY <1>a, <3>3, <3>7 DEF MutexOK, InMutex
    <3>12. \A v \in Workers : wpc'[v] \in {"assert", "push"} => wid'[v] \in relayIDs'[wcol'[v]]
      BY <1>a, <3>3, <3>6, <3>7 DEF MutexOK, InMutex
    <3>13. QED BY <3>8, <3>9, <3>10, <3>11, <3>12 DEF MutexOK
  <2>4. CASE NewID(w)
    <3>1. /\ wpc[w] = "newid" /\ wpc' = [wpc EXCEPT ![w] = "relay"]
          /\ \E i \in FreeIDs(wname[w]) : wid' = [wid EXCEPT ![w] = i]
          /\ UNCHANGED <<relayIDs, subMutex, m_subscription, wtoken, wcol, wname>>
      BY <2>4 DEF NewID
    <3>2. wid'[w][1] = wname[w] /\ \A v \in Workers : v # w => wid'[v] = wid[v] /\ wpc'[v] = wpc[v]
      BY <1>b, <3>1 DEF FreeIDs
    <3>3. wpc'[w] = "relay"
      BY <1>b, <3>1
    <3>4. \A v \in Workers : /\ wpc'[v] \in InMutex <=> wpc[v] \in InMutex
                             /\ wpc'[v] \in {"newid", "relay"} <=> wpc[v] \in {"newid", "relay"}
                             /\ wpc'[v] \in {"assert", "push"} => v # w /\ wpc[v] \in {"assert", "push"}
      BY <3>1, <3>2, <3>3 DEF InMutex
    <3>5. \A v \in Workers : Named(wcol[v], wname[v])' = Named(wcol[v], wname[v])
      BY <3>1 DEF Named
    <3>6. QED BY <1>a, <3>1, <3>2, <3>3, <3>4, <3>5 DEF MutexOK
  <2>5. CASE registerSubscription(w)
    <3>1. /\ wpc[w] = "relay" /\ wpc' = [wpc EXCEPT ![w] = "assert"]
          /\ relayIDs' = [relayIDs EXCEPT ![wcol[w]] = @ \cup {wid[w]}]
          /\ UNCHANGED <<subMutex, m_subscription, wtoken, wcol, wname, wid>>
      BY <2>5 DEF registerSubscription
    <3>2. wcol[w] \in Collectors /\ \A v \in Workers : v # w /\ wpc[v] \in InMutex => wcol[v] # wcol[w]
      BY <1>a, <3>1, MutexApart DEF InMutex
    <3>3. wpc'[w] = "assert" /\ \A v \in Workers : v # w => wpc'[v] = wpc[v]
      BY <1>b, <3>1
    <3>4. /\ wid[w] \in relayIDs'[wcol[w]]
          /\ \A d \in Collectors : relayIDs[d] \subseteq relayIDs'[d]
          /\ \A d \in Collectors : d # wcol[w] => relayIDs'[d] = relayIDs[d]
      BY <1>b, <3>1, <3>2
    <3>5. \A v \in Workers : wpc'[v] \in InMutex <=> wpc[v] \in InMutex
      BY <3>1, <3>3 DEF InMutex
    <3>6. ASSUME NEW v \in Workers, wpc'[v] \in {"newid", "relay"}
          PROVE  Named(wcol[v], wname[v])' = {}
      <4>1. v # w /\ wpc[v] \in {"newid", "relay"}
        BY <3>3, <3>6
      <4>2. Named(wcol[v], wname[v]) = {} /\ wcol[v] \in Collectors /\ wcol[v] # wcol[w]
        BY <1>a, <3>2, <4>1, MutexApart DEF MutexOK, InMutex
      <4>3. QED BY <3>1, <3>4, <4>2 DEF Named
    <3>7. ASSUME NEW v \in Workers, wpc'[v] \in {"assert", "push"}
          PROVE  wid'[v] \in relayIDs'[wcol'[v]]
      <4>1. CASE v = w
        BY <3>1, <3>4, <4>1
      <4>2. CASE v # w
        <5>1. wid[v] \in relayIDs[wcol[v]] /\ wcol[v] \in Collectors
          BY <1>a, <3>3, <3>7, <4>2, MutexApart DEF MutexOK, InMutex
        <5>2. QED BY <3>1, <3>4, <5>1
      <4>3. QED BY <4>1, <4>2
    <3>8. QED BY <1>a, <3>1, <3>3, <3>5, <3>6, <3>7 DEF MutexOK
  <2>6. CASE AssertNew(w)
    <3>1. CASE Crash
      <4>1. \A v \in Workers : wpc'[v] \in InMutex => Quiet(v)
        BY <3>1 DEF Crash
      <4>2. QED BY <1>d, <3>1, <4>1 DEF Crash
    <3>2. CASE ~Crash
      <4>1. /\ wpc[w] = "assert" /\ wpc' = [wpc EXCEPT ![w] = "push"]
            /\ UNCHANGED <<relayIDs, subMutex, m_subscription, wtoken, wcol, wname, wid>>
        BY <2>6, <3>2 DEF AssertNew
      <4>2. wpc'[w] = "push" /\ \A v \in Workers : v # w => wpc'[v] = wpc[v]
        BY <1>b, <4>1
      <4>3. \A v \in Workers : /\ wpc'[v] \in InMutex <=> wpc[v] \in InMutex
                               /\ wpc'[v] \in {"assert", "push"} <=> wpc[v] \in {"assert", "push"}
                               /\ wpc'[v] \in {"newid", "relay"} => wpc'[v] = wpc[v]
        BY <4>1, <4>2 DEF InMutex
      <4>4. \A v \in Workers : Named(wcol[v], wname[v])' = Named(wcol[v], wname[v])
        BY <4>1 DEF Named
      <4>5. QED BY <1>a, <4>1, <4>3, <4>4 DEF MutexOK
    <3>3. QED BY <3>1, <3>2
  <2>7. CASE AddSubscription(w)
    <3>1. /\ wpc[w] = "push" /\ wpc' = [wpc EXCEPT ![w] = "finish"]
          /\ subMutex' = subMutex \ {wtoken[w]}
          /\ UNCHANGED <<relayIDs, m_subscription, wtoken, wcol, wname, wid>>
      BY <2>7 DEF AddSubscription
    <3>2. \A v \in Workers : wpc'[v] \in InMutex => v # w /\ wpc[v] \in InMutex /\ Quiet(v)
      BY <1>b, <3>1 DEF InMutex
    <3>3. \A v \in Workers : v # w /\ wpc[v] \in InMutex => wtoken[v] \in subMutex'
      BY <1>a, <3>1, MutexApart DEF InMutex
    <3>4. QED BY <1>a, <3>1, <3>2, <3>3, MutexStays
  <2>8. CASE unsubscribe(w)
    <3> DEFINE subs == [m_subscription EXCEPT ![wtoken[w]] = None]
               c    == m_subscription[wtoken[w]]
    <3>1. /\ Destroy(m_Sessions, subs, Workers, NamedOf(c, wname[w]))
          /\ m_subscription' = subs /\ subMutex' = subMutex
          /\ wpc' = [wpc EXCEPT ![w] = "finish"] /\ wtoken[w] \notin subMutex
          /\ UNCHANGED <<wtoken, wcol, wname, wid>>
      BY <2>8 DEF unsubscribe
    <3>2. \A v \in Workers : wpc'[v] \in InMutex => v # w /\ wpc[v] \in InMutex /\ Quiet(v)
      BY <1>b, <3>1 DEF InMutex
    <3>3. ASSUME NEW v \in Workers, wpc[v] \in InMutex
          PROVE  /\ m_subscription'[wtoken[v]] = m_subscription[wtoken[v]]
                 /\ relayIDs'[wcol[v]] = relayIDs[wcol[v]]
      <4>1. /\ wtoken[v] \in Tokens /\ wtoken[v] \in subMutex /\ wcol[v] \in Collectors
            /\ \A t \in Tokens : t # wtoken[v] => m_subscription[t] # wcol[v]
        BY <1>a, <3>3, MutexApart
      <4>2. wtoken[w] # wtoken[v]
        BY <3>1, <4>1
      <4>3. wtoken[w] \in Tokens
        BY <1>a, <1>b, <2>8 DEF SessionsOK, unsubscribe
      <4>4. c # wcol[v]
        BY <4>1, <4>2, <4>3
      <4>5. m_subscription'[wtoken[v]] = m_subscription[wtoken[v]]
        BY <1>b, <3>1, <4>1, <4>2
      <4>6. NamedOf(c, wname[w])[wcol[v]] = {}
        BY <4>1, <4>4 DEF NamedOf
      <4> HIDE DEF c, subs
      <4>7. QED BY <3>1, <4>1, <4>5, <4>6, DestroyReleases
    <3> HIDE DEF subs, c
    <3>4. QED BY <1>a, <1>c, <3>1, <3>2, <3>3, MutexStays
  <2>9. CASE get(w) \/ PollRound(w) \/ EnterWait(w) \/ Signalled(w) \/ TimedOut(w)
    <3>1. \A v \in Workers : wpc'[v] \in InMutex => Quiet(v)
      BY <1>b, <2>9 DEF get, PollRound, EnterWait, Signalled, TimedOut, WaitEnds, GetUnchanged, InMutex
    <3>2. QED BY <1>d, <2>9, <3>1
            DEF get, PollRound, EnterWait, Signalled, TimedOut, WaitEnds, GetUnchanged
  <2>10. CASE unuse(w) \/ hasEvent(w) \/ popEvent(w)
    <3>1. \A v \in Workers : wpc'[v] \in InMutex => Quiet(v)
      BY <1>b, <2>10 DEF unuse, hasEvent, popEvent, GetUnchanged, Crash, InMutex
    <3>2. QED BY <1>d, <2>10, <3>1 DEF unuse, hasEvent, popEvent, GetUnchanged, Crash
  <2>11. QED BY <1>2, <2>1, <2>2, <2>3, <2>4, <2>5, <2>6, <2>7, <2>8, <2>9, <2>10 DEF Handle
<1>3. CASE (\E n \in EventNames : DispatchName(n)) \/ LookupTarget \/ Deliver \/ SignalArrival
  BY <1>d, <1>3 DEF DispatchName, LookupTarget, Deliver, SignalArrival, InterpUnchangedWeb
<1>4. CASE cleanupSessions
  <2>1. /\ Destroy(CleanedUp, m_subscription, Workers, NoneReleased)
        /\ UNCHANGED <<subMutex, m_subscription, wpc, wtoken, wcol, wname, wid>>
    BY <1>4 DEF cleanupSessions
  <2>2. ASSUME NEW v \in Workers, wpc[v] \in InMutex PROVE relayIDs'[wcol[v]] = relayIDs[wcol[v]]
    <3>1. wcol[v] \in Collectors /\ wcol[v] # None
      BY <1>a, <2>2, MutexApart DEF Collectors, None
    <3>2. NoneReleased[wcol[v]] = {}
      BY <3>1 DEF NoneReleased
    <3>3. QED BY <2>1, <3>1, <3>2, DestroyReleases
  <2>3. QED BY <1>a, <1>c, <2>1, <2>2, MutexStays
<1>5. CASE PassTime
  BY <1>d, <1>5 DEF PassTime
<1>6. QED BY <1>1, <1>2, <1>3, <1>4, <1>5 DEF WebNext

-----------------------------------------------------------------------------
(* The relay and what the interpreter has subscribed                       *)

EntriesLead ==
  /\ \A c \in Collectors \ mixed : \A i \in relayIDs[c] : Leads(c, i)
  /\ \A k \in DOMAIN m_Subscriptions :
       m_Subscriptions[k].target \notin mixed
         => m_Subscriptions[k].id \in relayIDs[m_Subscriptions[k].target]

(* Subscriptions have an ID and a collector.                               *)
LEMMA EntryTypes ==
  ASSUME WebTypeOK, NEW k \in DOMAIN m_Subscriptions
  PROVE  /\ m_Subscriptions[k].id \in SubIDs /\ m_Subscriptions[k].target \in Collectors
         /\ k \in 1 .. Len(m_Subscriptions) /\ Len(m_Subscriptions) \in Nat
         /\ DOMAIN m_Subscriptions = 1 .. Len(m_Subscriptions)
<1>1. m_Subscriptions \in Seq(Subscription)
  BY DEF WebTypeOK
<1>2. m_Subscriptions[k] \in Subscription
  BY <1>1, ElementOfSeq, LenProperties
<1>3. QED BY <1>1, <1>2, LenProperties DEF Subscription

(* what is left of the subscriptions when IDs are taken back *)
LEMMA CancelLeaves ==
  ASSUME WebTypeOK, NEW released, Cancel(released)
  PROVE  /\ \A j \in DOMAIN m_Subscriptions' :
              \E k \in DOMAIN m_Subscriptions \ Removed(released) : m_Subscriptions'[j] = m_Subscriptions[k]
         /\ \A i, j \in DOMAIN m_Subscriptions' : i # j =>
              \E k, l \in DOMAIN m_Subscriptions :
                k # l /\ m_Subscriptions'[i] = m_Subscriptions[k] /\ m_Subscriptions'[j] = m_Subscriptions[l]
         /\ SubscribedIDs' \subseteq SubscribedIDs
<1> DEFINE at == DOMAIN m_Subscriptions \ Removed(released)
<1>1. m_Subscriptions \in Seq(Subscription) /\ at \in SUBSET (DOMAIN m_Subscriptions)
  BY DEF WebTypeOK
<1>2. m_Subscriptions' = Kept(m_Subscriptions, at)
  BY DEF Cancel
<1> HIDE DEF at
<1>3. /\ \A j \in DOMAIN Kept(m_Subscriptions, at) : \E k \in at :
           Kept(m_Subscriptions, at)[j] = m_Subscriptions[k]
      /\ \A i, j \in DOMAIN Kept(m_Subscriptions, at) : i # j =>
           \E k, l \in at : /\ k # l /\ Kept(m_Subscriptions, at)[i] = m_Subscriptions[k]
                            /\ Kept(m_Subscriptions, at)[j] = m_Subscriptions[l]
  BY <1>1, KeptFacts
<1>4. \A j \in DOMAIN m_Subscriptions' : \E k \in at : m_Subscriptions'[j] = m_Subscriptions[k]
  BY <1>2, <1>3
<1>5. \A i, j \in DOMAIN m_Subscriptions' : i # j =>
        \E k, l \in DOMAIN m_Subscriptions :
          k # l /\ m_Subscriptions'[i] = m_Subscriptions[k] /\ m_Subscriptions'[j] = m_Subscriptions[l]
  BY <1>1, <1>2, <1>3
<1>6. SubscribedIDs' \subseteq SubscribedIDs
  BY <1>1, <1>4 DEF SubscribedIDs
<1>7. QED BY <1>4, <1>5, <1>6 DEF at

(* An ID that only one collector has is removed with its only entry.       *)
LEMMA OnlyEntryRemoved ==
  ASSUME WebTypeOK, NEW released \in [Collectors -> SUBSET SubIDs], NEW c \in Collectors,
         NEW k \in DOMAIN m_Subscriptions, m_Subscriptions[k].id \in released[c],
         \A j \in DOMAIN m_Subscriptions : m_Subscriptions[j].id = m_Subscriptions[k].id => j = k
  PROVE  k \in Removed(released)
<1> DEFINE i       == m_Subscriptions[k].id
           earlier == {j \in 1 .. k - 1 : m_Subscriptions[j].id = i}
           by      == {d \in Collectors : i \in released[d]}
<1>1. k \in 1 .. Len(m_Subscriptions) /\ Len(m_Subscriptions) \in Nat
      /\ DOMAIN m_Subscriptions = 1 .. Len(m_Subscriptions)
  BY EntryTypes
<1>2. earlier = {}
  BY <1>1
<1>3. Cardinality(earlier) = 0
  BY <1>2, FS_EmptySet
<1>4. by \in SUBSET Collectors /\ IsFiniteSet(Collectors) /\ c \in by
  BY FS_Interval, WebAssumption DEF Collectors
<1>5. Cardinality(by) \in Nat /\ Cardinality(by) # 0
  <2> HIDE DEF by
  <2>1. QED BY <1>4, FS_Subset, FS_CardinalityType, FS_EmptySet
<1>6. Cardinality(earlier) < Cardinality(by)
  <2> HIDE DEF earlier, by
  <2>1. QED BY <1>3, <1>5
<1>7. QED BY <1>6 DEF Removed

(* Taking IDs back leaves the others as they were.                         *)
LEMMA CancelKeepsRelay ==
  ASSUME WebTypeOK, RelayOK, EntriesLead, NEW released \in [Collectors -> SUBSET SubIDs],
         \A c \in Collectors : released[c] \subseteq relayIDs[c],
         Cancel(released), mixed' = mixed
  PROVE  /\ EntriesLead'
         /\ \A i \in SubIDs : m_IDTargetMap'[i] # None => i \in relayIDs'[m_IDTargetMap'[i]]
         /\ \A c \in Collectors : \A i, j \in relayIDs'[c] : i[1] = j[1] => i = j
         /\ \A c, d \in Collectors : c # d /\ relayIDs'[c] \cap relayIDs'[d] # {} => c \in mixed'
         /\ \A c \in Collectors : relayIDs'[c] = relayIDs[c] \ released[c]
         /\ SubscribedIDs' \subseteq SubscribedIDs
<1>1. \A c \in Collectors : relayIDs'[c] = relayIDs[c] \ released[c]
  BY DEF Cancel
<1>2. \A i \in SubIDs : m_IDTargetMap'[i] = IF \E c \in Collectors : i \in released[c]
                                           THEN None ELSE m_IDTargetMap[i]
  BY DEF Cancel
<1>3. /\ \A j \in DOMAIN m_Subscriptions' :
           \E k \in DOMAIN m_Subscriptions \ Removed(released) : m_Subscriptions'[j] = m_Subscriptions[k]
      /\ \A i, j \in DOMAIN m_Subscriptions' : i # j =>
           \E k, l \in DOMAIN m_Subscriptions :
             k # l /\ m_Subscriptions'[i] = m_Subscriptions[k] /\ m_Subscriptions'[j] = m_Subscriptions[l]
      /\ SubscribedIDs' \subseteq SubscribedIDs
  BY CancelLeaves
<1>4. \A c \in Collectors : relayIDs[c] \subseteq SubIDs
  BY DEF WebTypeOK
<1>5. \A i \in SubIDs : m_IDTargetMap'[i] # None => i \in relayIDs'[m_IDTargetMap'[i]]
  <2>1. \A i \in SubIDs : m_IDTargetMap[i] \in Collectors \cup {None}
    BY DEF WebTypeOK
  <2>2. QED BY <1>1, <1>2, <2>1 DEF RelayOK
<1>6. \A c \in Collectors : \A i, j \in relayIDs'[c] : i[1] = j[1] => i = j
  BY <1>1 DEF RelayOK
<1>7. \A c, d \in Collectors : c # d /\ relayIDs'[c] \cap relayIDs'[d] # {} => c \in mixed'
  BY <1>1 DEF RelayOK
<1>8. ASSUME NEW c \in Collectors \ mixed, NEW i \in relayIDs'[c] PROVE Leads(c, i)'
  <2>1. i \in relayIDs[c] /\ i \notin released[c] /\ i \in SubIDs
    BY <1>1, <1>4, <1>8
  <2>2. Leads(c, i)
    BY <2>1 DEF EntriesLead
  <2>3. \A d \in Collectors : i \notin released[d]
    BY <2>1 DEF RelayOK
  <2>4. m_IDTargetMap'[i] = c
    BY <1>2, <2>1, <2>2, <2>3 DEF Leads
  <2>5. \A k \in DOMAIN m_Subscriptions' : m_Subscriptions'[k].id = i => m_Subscriptions'[k].target = c
    BY <1>3, <2>2 DEF Leads
  <2>6. \A j, k \in DOMAIN m_Subscriptions' : m_Subscriptions'[j].id = i /\ m_Subscriptions'[k].id = i => j = k
    BY <1>3, <2>2 DEF Leads
  <2>7. QED BY <2>4, <2>5, <2>6 DEF Leads
<1>9. ASSUME NEW j \in DOMAIN m_Subscriptions', m_Subscriptions'[j].target \notin mixed
      PROVE  m_Subscriptions'[j].id \in relayIDs'[m_Subscriptions'[j].target]
  <2>1. PICK k \in DOMAIN m_Subscriptions \ Removed(released) : m_Subscriptions'[j] = m_Subscriptions[k]
    BY <1>3
  <2> DEFINE i == m_Subscriptions[k].id
             c == m_Subscriptions[k].target
  <2>2. c \in Collectors \ mixed /\ i \in relayIDs[c]
    BY <1>9, <2>1, EntryTypes DEF EntriesLead
  <2>3. \A l \in DOMAIN m_Subscriptions : m_Subscriptions[l].id = i => l = k
    BY <2>2 DEF EntriesLead, Leads
  <2>4. i \notin released[c]
    BY <2>1, <2>2, <2>3, OnlyEntryRemoved
  <2>5. QED BY <1>1, <2>1, <2>2, <2>4
<1>10. EntriesLead'
  BY <1>8, <1>9 DEF EntriesLead
<1>11. QED BY <1>1, <1>3, <1>5, <1>6, <1>7, <1>10

(* who is between registerSubscription and the end of subscribe *)
Registered(w) == wpc[w] \in {"assert", "push"}

(* Steps that change nothing of the relay and the subscriptions            *)
LEMMA RelayStays ==
  ASSUME RelayOK, EntriesOK,
         UNCHANGED <<collectors, destroyed, relayIDs, m_IDTargetMap, m_Subscriptions, mixed>>,
         \A v \in Workers : Registered(v)' =>
           Registered(v) /\ wcol'[v] = wcol[v] /\ wid'[v] = wid[v]
  PROVE  RelayOK' /\ EntriesOK'
<1>1. Living' = Living /\ SubscribedIDs' = SubscribedIDs
  BY DEF Living, SubscribedIDs
<1>2. \A c, i : Leads(c, i)' = Leads(c, i)
  BY DEF Leads
<1> HIDE DEF Living, Leads, SubscribedIDs
<1>3. RelayOK'
  BY <1>1 DEF RelayOK
<1>4. \A w \in Workers : Registered(w)' /\ wcol'[w] \notin mixed' => wid'[w] \notin SubscribedIDs'
  BY <1>1 DEF EntriesOK, Registered
<1>5. QED BY <1>2, <1>3, <1>4 DEF EntriesOK, Registered

(* Steps that take back IDs and destroy collectors                         *)
LEMMA RelayOfDestroyed ==
  ASSUME WebTypeOK, RelayOK, EntriesOK, NEW sess, NEW subs, NEW ws,
         NEW released \in [Collectors -> SUBSET SubIDs],
         \A c \in Collectors : released[c] \subseteq relayIDs[c],
         Destroy(sess, subs, ws, released), collectors' = collectors, mixed' = mixed,
         \A v \in Workers : Registered(v)' =>
           Registered(v) /\ wcol'[v] = wcol[v] /\ wid'[v] = wid[v]
  PROVE  RelayOK' /\ EntriesOK'
<1> DEFINE lost == LostCollectors(sess, subs, ws)
           rel  == [c \in Collectors |-> IF c \in lost THEN relayIDs[c] ELSE released[c]]
<1>1. Cancel(rel) /\ destroyed' = destroyed \cup lost
  BY DEF Destroy
<1>2. /\ rel \in [Collectors -> SUBSET SubIDs]
      /\ \A c \in Collectors : rel[c] \subseteq relayIDs[c]
      /\ \A c \in lost : c \in Collectors => rel[c] = relayIDs[c]
  BY DEF WebTypeOK
<1> HIDE DEF lost, rel
<1>3. EntriesLead
  BY DEF EntriesOK, EntriesLead
<1>4. /\ EntriesLead'
      /\ \A i \in SubIDs : m_IDTargetMap'[i] # None => i \in relayIDs'[m_IDTargetMap'[i]]
      /\ \A c \in Collectors : \A i, j \in relayIDs'[c] : i[1] = j[1] => i = j
      /\ \A c, d \in Collectors : c # d /\ relayIDs'[c] \cap relayIDs'[d] # {} => c \in mixed'
      /\ \A c \in Collectors : relayIDs'[c] = relayIDs[c] \ rel[c]
      /\ SubscribedIDs' \subseteq SubscribedIDs
  BY <1>1, <1>2, <1>3, CancelKeepsRelay
<1>5. \A c \in Collectors : relayIDs'[c] # {} => c \in Living'
  <2>1. TAKE c \in Collectors
  <2>2. HAVE relayIDs'[c] # {}
  <2>3. relayIDs[c] # {} /\ c \notin lost
    BY <1>2, <1>4, <2>2
  <2>4. QED BY <1>1, <2>3 DEF RelayOK, Living
<1>6. \A w \in Workers : Registered(w)' /\ wcol'[w] \notin mixed' => wid'[w] \notin SubscribedIDs'
  <2> HIDE DEF SubscribedIDs
  <2>1. QED BY <1>4 DEF EntriesOK, Registered
<1> HIDE DEF Living, Leads, SubscribedIDs
<1>7. RelayOK'
  BY <1>4, <1>5 DEF RelayOK
<1>8. QED BY <1>4, <1>6, <1>7 DEF EntriesOK, EntriesLead, Registered

(* registerSubscription: an ID that nobody has shared leads to its         *)
(* collector; one that is shared is of collectors that mix.                *)
LEMMA RelayOfRegister ==
  ASSUME WebInv, NEW w \in Workers, registerSubscription(w)
  PROVE  RelayOK' /\ EntriesOK'
<1> USE DEF webVars, sessVars, colVars, evtVars, relVars, wrkVars, intVars, WGo, WAt, IAt
<1>a. RelayOK /\ EntriesOK /\ MutexOK /\ OwnersOK /\ SessionsOK /\ WebTypeOK
  BY DEF WebInv
<1>b. /\ relayIDs \in [Collectors -> SUBSET SubIDs] /\ wid[w] \in SubIDs
      /\ m_IDTargetMap \in [SubIDs -> Collectors \cup {None}] /\ mixed \subseteq Collectors
      /\ wpc \in [Workers -> WebPC]
  BY <1>a DEF WebTypeOK
<1>0. PICK c, i : c = wcol[w] /\ i = wid[w]
  OBVIOUS
<1> DEFINE others == SharedWith(c, i)
<1>1. /\ wpc[w] = "relay" /\ wpc' = [wpc EXCEPT ![w] = "assert"]
      /\ m_IDTargetMap' = [m_IDTargetMap EXCEPT ![i] = c]
      /\ relayIDs' = [relayIDs EXCEPT ![c] = @ \cup {i}]
      /\ mixed' = IF others = {} THEN mixed ELSE mixed \cup others \cup {c}
      /\ UNCHANGED <<m_Subscriptions, collectors, destroyed, wcol, wid>>
  BY <1>0 DEF registerSubscription
<1>2. c \in Collectors /\ c \in Living /\ i \in SubIDs
  BY <1>0, <1>1, <1>a, <1>b, MutexApart DEF InMutex
<1>3. \A j \in relayIDs[c] : j[1] # i[1]
  BY <1>0, <1>1, <1>a DEF MutexOK, Named
<1>4. /\ relayIDs'[c] = relayIDs[c] \cup {i}
      /\ \A d \in Collectors : d # c => relayIDs'[d] = relayIDs[d]
      /\ m_IDTargetMap'[i] = c
      /\ \A j \in SubIDs : j # i => m_IDTargetMap'[j] = m_IDTargetMap[j]
  BY <1>1, <1>2, <1>b
<1>5. mixed \subseteq mixed' /\ others \subseteq mixed' /\ (others # {} => c \in mixed')
  BY <1>1
<1>6. /\ \A d \in Collectors : d # c /\ i \in relayIDs[d] => d \in others
      /\ \A k \in DOMAIN m_Subscriptions :
           m_Subscriptions[k].id = i /\ m_Subscriptions[k].target # c
             => m_Subscriptions[k].target \in others
  <2>1. \A k \in DOMAIN m_Subscriptions :
          /\ m_Subscriptions[k].target \in Collectors
          /\ m_Subscriptions[k] = [id |-> m_Subscriptions[k].id, target |-> m_Subscriptions[k].target]
    <3>1. TAKE k \in DOMAIN m_Subscriptions
    <3>2. m_Subscriptions[k] \in Subscription
      BY <1>a, ElementOfSeq, LenProperties DEF WebTypeOK
    <3>3. QED BY <3>2 DEF Subscription
  <2>2. QED BY <2>1 DEF SharedWith
<1> HIDE DEF others, Living
<1>7. Living' = Living
  BY <1>1 DEF Living
<1>8. RelayOK'
  <2>1. \A d \in Collectors : relayIDs'[d] # {} => d \in Living'
    BY <1>2, <1>4, <1>7, <1>a DEF RelayOK
  <2>2. ASSUME NEW j \in SubIDs, m_IDTargetMap'[j] # None
        PROVE  j \in relayIDs'[m_IDTargetMap'[j]]
    <3>1. CASE j = i
      BY <1>4, <3>1
    <3>2. CASE j # i
      <4>1. m_IDTargetMap'[j] = m_IDTargetMap[j] /\ m_IDTargetMap[j] \in Collectors
            /\ j \in relayIDs[m_IDTargetMap[j]]
        BY <1>4, <1>a, <1>b, <2>2, <3>2 DEF RelayOK
      <4>2. QED BY <1>4, <4>1
    <3>3. QED BY <3>1, <3>2
  <2>3. ASSUME NEW d \in Collectors, NEW j \in relayIDs'[d], NEW k \in relayIDs'[d], j[1] = k[1]
        PROVE  j = k
    <3>1. CASE d = c
      BY <1>3, <1>4, <1>a, <2>3, <3>1 DEF RelayOK
    <3>2. CASE d # c
      BY <1>4, <1>a, <2>3, <3>2 DEF RelayOK
    <3>3. QED BY <3>1, <3>2
  <2>4. ASSUME NEW d \in Collectors, NEW e \in Collectors, d # e, NEW j \in relayIDs'[d], j \in relayIDs'[e]
        PROVE  d \in mixed'
    <3>1. CASE j \in relayIDs[d] /\ j \in relayIDs[e]
      BY <1>5, <1>a, <2>4, <3>1 DEF RelayOK
    <3>2. CASE j \notin relayIDs[d]
      BY <1>4, <1>5, <1>6, <2>4, <3>2
    <3>3. CASE j \notin relayIDs[e]
      BY <1>4, <1>5, <1>6, <2>4, <3>3
    <3>4. QED BY <3>1, <3>2, <3>3
  <2>5. QED BY <2>1, <2>2, <2>3, <2>4 DEF RelayOK
<1>9. c \notin mixed' => \A k \in DOMAIN m_Subscriptions : m_Subscriptions[k].id # i
  <2>1. SUFFICES ASSUME c \notin mixed', NEW k \in DOMAIN m_Subscriptions, m_Subscriptions[k].id = i
                 PROVE  FALSE
    OBVIOUS
  <2>2. m_Subscriptions[k].target = c
    BY <1>5, <1>6, <2>1
  <2>3. i \in relayIDs[c]
    BY <1>5, <1>a, <2>1, <2>2 DEF EntriesOK
  <2>4. QED BY <1>3, <2>3
<1>10. ASSUME NEW d \in Collectors \ mixed', NEW j \in relayIDs'[d] PROVE Leads(d, j)'
  <2>0. d \notin mixed
    BY <1>5
  <2>1. CASE j = i
    <3>1. d = c
      BY <1>4, <1>5, <1>6, <1>10, <2>1
    <3>2. QED BY <1>1, <1>4, <1>9, <1>10, <2>1, <3>1 DEF Leads
  <2>2. CASE j # i
    <3>1. j \in relayIDs[d]
      BY <1>4, <1>10, <2>2
    <3>2. Leads(d, j) /\ j \in SubIDs
      BY <1>a, <1>b, <2>0, <3>1 DEF EntriesOK
    <3>3. QED BY <1>1, <1>4, <2>2, <3>2 DEF Leads
  <2>3. QED BY <2>1, <2>2
<1>11. \A k \in DOMAIN m_Subscriptions' :
         m_Subscriptions'[k].target \notin mixed'
           => m_Subscriptions'[k].id \in relayIDs'[m_Subscriptions'[k].target]
  <2>1. \A k \in DOMAIN m_Subscriptions : m_Subscriptions[k].target \in Collectors
    BY <1>a, EntryTypes
  <2>2. QED BY <1>1, <1>4, <1>5, <1>a, <2>1 DEF EntriesOK
<1>12. ASSUME NEW v \in Workers, wpc'[v] \in {"assert", "push"}, wcol'[v] \notin mixed'
       PROVE  wid'[v] \notin SubscribedIDs'
  <2>1. CASE v = w
    BY <1>0, <1>1, <1>9, <1>12, <2>1 DEF SubscribedIDs
  <2>2. CASE v # w
    <3>1. SubscribedIDs' = SubscribedIDs /\ wpc'[v] = wpc[v] /\ wcol[v] \notin mixed
      BY <1>1, <1>5, <1>b, <1>12, <2>2 DEF SubscribedIDs
    <3>2. QED BY <1>1, <1>12, <1>a, <3>1 DEF EntriesOK
  <2>3. QED BY <2>1, <2>2
<1>13. QED BY <1>8, <1>10, <1>11, <1>12 DEF EntriesOK

(* addSubscription: the entry leads to the collector that asked for it.    *)
LEMMA RelayOfAdd ==
  ASSUME WebInv, NEW w \in Workers, AddSubscription(w)
  PROVE  RelayOK' /\ EntriesOK'
<1> USE DEF webVars, sessVars, colVars, evtVars, relVars, wrkVars, intVars, WGo, WAt, IAt
<1>a. RelayOK /\ EntriesOK /\ MutexOK /\ OwnersOK /\ SessionsOK /\ WebTypeOK
  BY DEF WebInv
<1>b. wpc \in [Workers -> WebPC] /\ m_Subscriptions \in Seq(Subscription)
  BY <1>a DEF WebTypeOK
<1>0. PICK c, i : c = wcol[w] /\ i = wid[w]
  OBVIOUS
<1> DEFINE e == [id |-> i, target |-> c]
<1>1. /\ wpc[w] = "push" /\ wpc' = [wpc EXCEPT ![w] = "finish"]
      /\ m_Subscriptions' = Append(m_Subscriptions, e)
      /\ UNCHANGED <<m_IDTargetMap, relayIDs, mixed, collectors, destroyed, wcol, wid>>
  BY <1>0 DEF AddSubscription
<1>2. c \in Collectors /\ i \in relayIDs[c] /\ (c \notin mixed => i \notin SubscribedIDs)
  BY <1>0, <1>1, <1>a, MutexApart DEF InMutex, MutexOK, EntriesOK
<1>3. Living' = Living
  BY <1>1 DEF Living
<1>4. RelayOK'
  <2> HIDE DEF Living
  <2>1. QED BY <1>1, <1>3, <1>a DEF RelayOK
<1>5. PICK n \in Nat : n = Len(m_Subscriptions)
  BY <1>b, LenProperties
<1>6. /\ DOMAIN m_Subscriptions = 1 .. n /\ DOMAIN m_Subscriptions' = 1 .. n + 1
      /\ m_Subscriptions'[n + 1] = e
      /\ \A k \in 1 .. n : m_Subscriptions'[k] = m_Subscriptions[k]
  BY <1>1, <1>5, <1>b, LenProperties, AppendProperties DEF Subscription
<1>7. e.id = i /\ e.target = c
  OBVIOUS
<1> HIDE DEF e
<1>8. \A k \in 1 .. n + 1 : k \in 1 .. n \/ k = n + 1
  OBVIOUS
<1>9. ASSUME NEW d \in Collectors \ mixed', NEW j \in relayIDs'[d] PROVE Leads(d, j)'
  <2>1. Leads(d, j) /\ j \in relayIDs[d] /\ d \notin mixed
    BY <1>1, <1>9, <1>a DEF EntriesOK
  <2>2. CASE j = i
    <3>1. d = c
      BY <1>2, <1>a, <2>1, <2>2 DEF RelayOK
    <3>2. \A k \in 1 .. n : m_Subscriptions[k].id # i
      BY <1>2, <1>6, <2>1, <3>1 DEF SubscribedIDs
    <3>3. QED BY <1>1, <1>6, <1>7, <1>8, <2>1, <2>2, <3>1, <3>2 DEF Leads
  <2>3. CASE j # i
    BY <1>1, <1>6, <1>7, <1>8, <2>1, <2>3 DEF Leads
  <2>4. QED BY <2>2, <2>3
<1>10. \A k \in DOMAIN m_Subscriptions' :
         m_Subscriptions'[k].target \notin mixed'
           => m_Subscriptions'[k].id \in relayIDs'[m_Subscriptions'[k].target]
  BY <1>1, <1>2, <1>6, <1>7, <1>8, <1>a DEF EntriesOK
<1>11. SubscribedIDs' \subseteq SubscribedIDs \cup {i}
  BY <1>6, <1>7, <1>8 DEF SubscribedIDs
<1>12. ASSUME NEW v \in Workers, wpc'[v] \in {"assert", "push"}, wcol'[v] \notin mixed'
       PROVE  wid'[v] \notin SubscribedIDs'
  <2> HIDE DEF SubscribedIDs
  <2>1. v # w /\ wpc[v] \in {"assert", "push"} /\ wcol[v] \notin mixed
    BY <1>1, <1>12, <1>b
  <2>2. wcol[v] \in Collectors /\ wcol[v] # c /\ wid[v] \in relayIDs[wcol[v]]
    <3>1. wpc[v] \in InMutex /\ wpc[w] \in InMutex
      BY <1>1, <2>1 DEF InMutex
    <3>2. wcol[v] \in Collectors /\ wcol[v] # wcol[w]
      BY <1>a, <2>1, <3>1, MutexApart
    <3>3. QED BY <1>0, <1>a, <2>1, <3>2 DEF MutexOK
  <2>3. wid[v] # i
    BY <1>2, <1>a, <2>1, <2>2 DEF RelayOK
  <2>4. wid[v] \notin SubscribedIDs
    BY <1>a, <2>1 DEF EntriesOK
  <2>5. QED BY <1>1, <1>11, <2>3, <2>4
<1>13. QED BY <1>4, <1>9, <1>10, <1>12 DEF EntriesOK

(* what NamedOf takes back, a collector has *)
LEMMA NamedOfHas ==
  ASSUME WebTypeOK, NEW c, NEW n
  PROVE  /\ NamedOf(c, n) \in [Collectors -> SUBSET SubIDs] /\ NoneReleased \in [Collectors -> SUBSET SubIDs]
         /\ \A d \in Collectors : NamedOf(c, n)[d] \subseteq relayIDs[d] /\ NoneReleased[d] \subseteq relayIDs[d]
BY NamedTypes DEF NamedOf, Named, NoneReleased

(* subscribe takes back the ID that its collector has for the name.        *)
LEMMA RelayOfSubscribe ==
  ASSUME WebInv, NEW w \in Workers, subscribe(w)
  PROVE  RelayOK' /\ EntriesOK'
<1> USE DEF webVars, sessVars, colVars, evtVars, relVars, wrkVars, intVars, WGo, WAt, IAt
<1>a. RelayOK /\ EntriesOK /\ RoomOK /\ SessionsOK /\ WebTypeOK
  BY DEF WebInv
<1>0. PICK c, n : c = CollectorOf(wtoken[w]) /\ n = wname[w]
  OBVIOUS
<1> DEFINE released == NamedOf(c, n)
<1>1. /\ Cancel(released) /\ wcol' = [wcol EXCEPT ![w] = c] /\ collectors' \in collectors .. MaxCollectors
      /\ wpc' = [wpc EXCEPT ![w] = "newid"] /\ UNCHANGED <<destroyed, mixed, wid>>
  BY <1>0, <1>a, SubscribeShape DEF subscribe
<1>2. /\ released \in [Collectors -> SUBSET SubIDs]
      /\ \A d \in Collectors : released[d] \subseteq relayIDs[d]
  BY <1>a, NamedOfHas
<1>3. EntriesLead
  BY <1>a DEF EntriesOK, EntriesLead
<1> HIDE DEF released
<1>4. /\ EntriesLead'
      /\ \A i \in SubIDs : m_IDTargetMap'[i] # None => i \in relayIDs'[m_IDTargetMap'[i]]
      /\ \A d \in Collectors : \A i, j \in relayIDs'[d] : i[1] = j[1] => i = j
      /\ \A d, e \in Collectors : d # e /\ relayIDs'[d] \cap relayIDs'[e] # {} => d \in mixed'
      /\ \A d \in Collectors : relayIDs'[d] = relayIDs[d] \ released[d]
      /\ SubscribedIDs' \subseteq SubscribedIDs
  BY <1>1, <1>2, <1>3, <1>a, CancelKeepsRelay
<1>5. Living \subseteq Living'
  BY <1>1, <1>a DEF Living, WebTypeOK
<1>6. \A v \in Workers : wpc'[v] \in {"assert", "push"} =>
        wpc[v] \in {"assert", "push"} /\ wcol'[v] = wcol[v]
  BY <1>1, <1>a DEF WebTypeOK
<1> HIDE DEF Living, Leads, SubscribedIDs
<1>7. \A v \in Workers : wpc'[v] \in {"assert", "push"} /\ wcol'[v] \notin mixed'
        => wid'[v] \notin SubscribedIDs'
  BY <1>1, <1>4, <1>6, <1>a DEF EntriesOK
<1>8. \A d \in Collectors : relayIDs'[d] # {} => d \in Living'
  BY <1>4, <1>5, <1>a DEF RelayOK
<1>9. RelayOK'
  BY <1>4, <1>8 DEF RelayOK
<1>10. QED BY <1>4, <1>7, <1>9 DEF EntriesOK, EntriesLead

(* An ID leads to the collector that has it, which lives.                  *)
LEMMA RelayStep == WebInv /\ WebNext => RelayOK' /\ EntriesOK'
<1> SUFFICES ASSUME WebInv, WebNext PROVE RelayOK' /\ EntriesOK'
  OBVIOUS
<1> USE DEF webVars, sessVars, colVars, evtVars, relVars, wrkVars, intVars, WGo, WAt, IAt
<1>a. RelayOK /\ EntriesOK /\ WebTypeOK
  BY DEF WebInv
<1>b. wpc \in [Workers -> WebPC] /\ wreq \in [Workers -> Requests] /\ wid \in [Workers -> SubIDs]
      /\ wcol \in [Workers -> Collectors \cup {None}]
  BY <1>a DEF WebTypeOK
<1> DEFINE Quiet == \A v \in Workers : Registered(v)' =>
                      Registered(v) /\ wcol'[v] = wcol[v] /\ wid'[v] = wid[v]
           Still == UNCHANGED <<collectors, destroyed, relayIDs, m_IDTargetMap, m_Subscriptions, mixed>>
<1>c. ASSUME Still, Quiet PROVE RelayOK' /\ EntriesOK'
  BY <1>a, <1>c, RelayStays
<1>d. ASSUME Still, wpc' = wpc, wcol' = wcol, wid' = wid PROVE RelayOK' /\ EntriesOK'
  BY <1>c, <1>d DEF Registered
<1> USE DEF Registered
<1>1. ASSUME NEW w \in Workers, Arrive(w) PROVE RelayOK' /\ EntriesOK'
  <2>1. Still /\ Quiet
    BY <1>b, <1>1 DEF Arrive, Receive
  <2>2. QED BY <1>c, <2>1
<1>2. ASSUME NEW w \in Workers, Handle(w) PROVE RelayOK' /\ EntriesOK'
  <2>1. CASE touch(w) \/ registerSession(w) \/ removeSession(w)
    <3>1. Still /\ Quiet
      BY <1>b, <2>1 DEF touch, registerSession, removeSession, Requests
    <3>2. QED BY <1>c, <3>1
  <2>2. CASE Finish(w)
    <3>1. /\ Destroy(m_Sessions, m_subscription, Workers \ {w}, NoneReleased)
          /\ UNCHANGED <<collectors, mixed, wid>>
          /\ wpc' = [wpc EXCEPT ![w] = "idle"] /\ wcol' = [wcol EXCEPT ![w] = None]
      BY <2>2 DEF Finish
    <3>2. Quiet
      BY <1>b, <3>1
    <3> HIDE DEF Registered
    <3>3. QED BY <1>a, <3>1, <3>2, NamedOfHas, RelayOfDestroyed
  <2>3. CASE subscribe(w)
    BY <2>3, RelayOfSubscribe
  <2>4. CASE registerSubscription(w)
    BY <2>4, RelayOfRegister
  <2>5. CASE AddSubscription(w)
    BY <2>5, RelayOfAdd
  <2>6. CASE NewID(w)
    <3>1. /\ wpc[w] = "newid" /\ wpc' = [wpc EXCEPT ![w] = "relay"] /\ Still /\ wcol' = wcol
          /\ \E i \in FreeIDs(wname[w]) : wid' = [wid EXCEPT ![w] = i]
      BY <2>6 DEF NewID
    <3>2. Quiet
      BY <1>b, <3>1
    <3>3. QED BY <1>c, <3>1, <3>2
  <2>7. CASE AssertNew(w) \/ popEvent(w)
    <3>1. Still /\ Quiet
      BY <1>b, <2>7 DEF AssertNew, popEvent, GetUnchanged, Crash
    <3>2. QED BY <1>c, <3>1
  <2>8. CASE unsubscribe(w)
    <3> DEFINE subs == [m_subscription EXCEPT ![wtoken[w]] = None]
               c    == m_subscription[wtoken[w]]
    <3>1. /\ Destroy(m_Sessions, subs, Workers, NamedOf(c, wname[w]))
          /\ UNCHANGED <<collectors, mixed, wcol, wid>> /\ wpc' = [wpc EXCEPT ![w] = "finish"]
      BY <2>8 DEF unsubscribe
    <3>2. Quiet
      BY <1>b, <3>1
    <3> HIDE DEF subs, c, Registered
    <3>3. QED BY <1>a, <3>1, <3>2, NamedOfHas, RelayOfDestroyed
  <2>9. CASE get(w) \/ PollRound(w) \/ EnterWait(w) \/ Signalled(w) \/ TimedOut(w)
    <3>1. Still /\ Quiet
      BY <1>b, <2>9 DEF get, PollRound, EnterWait, Signalled, TimedOut, WaitEnds, GetUnchanged
    <3>2. QED BY <1>c, <3>1
  <2>10. CASE unuse(w) \/ hasEvent(w)
    <3>1. Still /\ Quiet
      BY <1>b, <2>10 DEF unuse, hasEvent, GetUnchanged
    <3>2. QED BY <1>c, <3>1
  <2>11. QED BY <1>2, <2>1, <2>2, <2>3, <2>4, <2>5, <2>6, <2>7, <2>8, <2>9, <2>10 DEF Handle
<1>3. CASE (\E n \in EventNames : DispatchName(n)) \/ LookupTarget \/ Deliver \/ SignalArrival
  BY <1>d, <1>3 DEF DispatchName, LookupTarget, Deliver, SignalArrival, InterpUnchangedWeb
<1>4. CASE cleanupSessions
  <2>1. /\ Destroy(CleanedUp, m_subscription, Workers, NoneReleased)
        /\ UNCHANGED <<collectors, mixed, wpc, wcol, wid>>
    BY <1>4 DEF cleanupSessions
  <2>2. QED BY <1>a, <2>1, NamedOfHas, RelayOfDestroyed
<1>5. CASE PassTime
  BY <1>d, <1>5 DEF PassTime
<1>6. QED BY <1>1, <1>2, <1>3, <1>4, <1>5 DEF WebNext

-----------------------------------------------------------------------------
(* The events of a collector                                               *)

(* the types of what is delivered *)
LEMMA EventTypes ==
  ASSUME WebTypeOK
  PROVE  /\ delivered \in Nat /\ Len(toDeliver) \in Nat /\ DOMAIN toDeliver = 1 .. Len(toDeliver)
         /\ \A k \in DOMAIN toDeliver : /\ toDeliver[k] \in Subscription
                                        /\ toDeliver[k].id \in SubIDs /\ toDeliver[k].target \in Collectors
                                        /\ toDeliver[k] = [id |-> toDeliver[k].id, target |-> toDeliver[k].target]
         /\ \A c \in Collectors :
              /\ m_PendingEvents[c] \in Seq(1 .. MaxDelivered)
              /\ Len(m_PendingEvents[c]) \in Nat
              /\ DOMAIN m_PendingEvents[c] = 1 .. Len(m_PendingEvents[c])
              /\ \A k \in DOMAIN m_PendingEvents[c] : m_PendingEvents[c][k] \in Nat
<1>1. toDeliver \in Seq(Subscription) /\ delivered \in Nat
  BY WebAssumption DEF WebTypeOK
<1>2. Len(toDeliver) \in Nat /\ DOMAIN toDeliver = 1 .. Len(toDeliver)
  BY <1>1, LenProperties
<1>3. \A k \in DOMAIN toDeliver : toDeliver[k] \in Subscription
  BY <1>1, <1>2, ElementOfSeq
<1>4. \A s \in Subscription : s.id \in SubIDs /\ s.target \in Collectors /\ s = [id |-> s.id, target |-> s.target]
  BY DEF Subscription
<1>5. ASSUME NEW c \in Collectors
      PROVE  /\ m_PendingEvents[c] \in Seq(1 .. MaxDelivered)
             /\ Len(m_PendingEvents[c]) \in Nat
             /\ DOMAIN m_PendingEvents[c] = 1 .. Len(m_PendingEvents[c])
             /\ \A k \in DOMAIN m_PendingEvents[c] : m_PendingEvents[c][k] \in Nat
  <2>1. m_PendingEvents[c] \in Seq(1 .. MaxDelivered)
    BY DEF WebTypeOK
  <2>2. \A k \in 1 .. Len(m_PendingEvents[c]) : m_PendingEvents[c][k] \in 1 .. MaxDelivered
    BY <2>1, ElementOfSeq
  <2>3. QED BY <2>1, <2>2, LenProperties
<1>6. QED BY <1>1, <1>2, <1>3, <1>4, <1>5

(* the rest of what is to be delivered *)
LEMMA RestOfTodo ==
  ASSUME WebTypeOK, toDeliver # <<>>
  PROVE  /\ Head(toDeliver) = toDeliver[1] /\ 1 \in DOMAIN toDeliver
         /\ \A k \in DOMAIN Tail(toDeliver) : /\ k + 1 \in DOMAIN toDeliver /\ k + 1 # 1
                                              /\ Tail(toDeliver)[k] = toDeliver[k + 1]
         /\ \A j, k \in DOMAIN Tail(toDeliver) : j # k => j + 1 # k + 1
<1>1. toDeliver \in Seq(Subscription)
  BY DEF WebTypeOK
<1>2. Tail(toDeliver) \in Seq(Subscription) /\ Len(Tail(toDeliver)) = Len(toDeliver) - 1
  BY <1>1, HeadTailProperties
<1>3. DOMAIN Tail(toDeliver) = 1 .. Len(toDeliver) - 1 /\ DOMAIN toDeliver = 1 .. Len(toDeliver)
  BY <1>1, <1>2, LenProperties
<1>4. Len(toDeliver) \in Nat /\ Len(toDeliver) >= 1
  BY <1>1, EmptySeq, LenProperties
<1>5. \A k \in 1 .. Len(toDeliver) - 1 : Tail(toDeliver)[k] = toDeliver[k + 1]
  BY <1>1, <1>4
<1>6. QED BY <1>1, <1>3, <1>4, <1>5, HeadTailProperties

(* Steps after which no collector is served that was not, and no ID is of  *)
(* a collector that it was not of                                          *)
LEMMA TodoStays ==
  ASSUME WebTypeOK, TodoOK, toDeliver' = toDeliver, mixed \subseteq mixed',
         \A c \in Collectors : relayIDs'[c] \subseteq relayIDs[c],
         \A c \in Collectors : Served(c)' => Served(c)
  PROVE  TodoOK'
<1> HIDE DEF Served
<1>1. \A c \in Collectors \ mixed' : c \in Collectors \ mixed
  OBVIOUS
<1>2. \A c \in Collectors \ mixed' : \A k \in DOMAIN toDeliver' :
        toDeliver'[k].id \in relayIDs'[c] => toDeliver'[k].target = c
  BY DEF TodoOK
<1>3. \A j, k \in DOMAIN toDeliver' : j # k /\ toDeliver'[j].target = toDeliver'[k].target
        => toDeliver'[j].target \in mixed'
  BY DEF TodoOK
<1>4. \A c \in Collectors \ mixed' : Served(c)' => \A k \in DOMAIN toDeliver' : toDeliver'[k].target # c
  BY DEF TodoOK
<1>5. QED BY <1>2, <1>3, <1>4 DEF TodoOK

(* what a collector has it had before *)
FewerIDs == \A c \in Collectors : relayIDs'[c] \subseteq relayIDs[c]

(* Steps that deliver nothing                                              *)
LEMMA EventsStay ==
  ASSUME WebTypeOK, TodoOK, EventsOK, mixed \subseteq mixed', FewerIDs,
         UNCHANGED <<toDeliver, target, delivered, m_PendingEvents>>,
         ipcWeb' = ipcWeb \/ (ipcWeb' \in {"lookup", "idle"} /\ ipcWeb # "idle")
  PROVE  TodoOK' /\ EventsOK'
<1>1. \A c \in Collectors : Served(c)' => Served(c)
  BY DEF Served
<1>2. TodoOK'
  BY <1>1, TodoStays DEF FewerIDs
<1>3. PendingOnce'
  BY DEF EventsOK, PendingOnce
<1>4. QED BY <1>2, <1>3 DEF EventsOK

(* getEvents takes the first event.                                        *)
LEMMA EventsPopped ==
  ASSUME WebTypeOK, TodoOK, EventsOK, NEW c \in Collectors, m_PendingEvents[c] # <<>>,
         UNCHANGED <<toDeliver, target, delivered, ipcWeb, relayIDs, mixed>>,
         m_PendingEvents' = [m_PendingEvents EXCEPT ![c] = Tail(@)]
  PROVE  TodoOK' /\ EventsOK'
<1>1. /\ m_PendingEvents[c] \in Seq(1 .. MaxDelivered) /\ Len(m_PendingEvents[c]) \in Nat
      /\ DOMAIN m_PendingEvents[c] = 1 .. Len(m_PendingEvents[c])
  BY EventTypes
<1>2. /\ Tail(m_PendingEvents[c]) \in Seq(1 .. MaxDelivered)
      /\ Len(Tail(m_PendingEvents[c])) = Len(m_PendingEvents[c]) - 1
  BY <1>1, HeadTailProperties
<1>3. /\ DOMAIN Tail(m_PendingEvents[c]) = 1 .. Len(m_PendingEvents[c]) - 1
      /\ \A k \in 1 .. Len(m_PendingEvents[c]) - 1 : Tail(m_PendingEvents[c])[k] = m_PendingEvents[c][k + 1]
  BY <1>1, <1>2, LenProperties
<1>4. m_PendingEvents'[c] = Tail(m_PendingEvents[c]) /\ \A d \in Collectors : d # c => m_PendingEvents'[d] = m_PendingEvents[d]
  BY DEF WebTypeOK
<1>5. ASSUME NEW d \in Collectors, NEW j \in DOMAIN m_PendingEvents'[d], NEW k \in DOMAIN m_PendingEvents'[d]
      PROVE  \E l, m \in DOMAIN m_PendingEvents[d] :
               /\ m_PendingEvents'[d][j] = m_PendingEvents[d][l] /\ m_PendingEvents'[d][k] = m_PendingEvents[d][m]
               /\ j < k => l < m
  <2>1. CASE d = c
    <3>1. j \in 1 .. Len(m_PendingEvents[c]) - 1 /\ k \in 1 .. Len(m_PendingEvents[c]) - 1
      BY <1>3, <1>4, <1>5, <2>1
    <3>2. /\ j + 1 \in DOMAIN m_PendingEvents[d] /\ k + 1 \in DOMAIN m_PendingEvents[d]
          /\ j < k => j + 1 < k + 1
      BY <1>1, <2>1, <3>1
    <3>3. /\ m_PendingEvents'[d][j] = m_PendingEvents[d][j + 1]
          /\ m_PendingEvents'[d][k] = m_PendingEvents[d][k + 1]
      BY <1>3, <1>4, <2>1, <3>1
    <3>4. QED BY <3>2, <3>3
  <2>2. CASE d # c
    BY <1>4, <1>5, <2>2
  <2>3. QED BY <2>1, <2>2
<1>6. \A d \in Collectors : \A k \in DOMAIN m_PendingEvents'[d] :
        \E l \in DOMAIN m_PendingEvents[d] : m_PendingEvents'[d][k] = m_PendingEvents[d][l]
  BY <1>5
<1>7. \A d \in Collectors : Served(d)' => Served(d)
  BY <1>6 DEF Served
<1>8. TodoOK'
  BY <1>7, TodoStays
<1>9. PendingOnce'
  BY <1>5 DEF EventsOK, PendingOnce
<1>10. target' \in Collectors \cup {None}
  BY DEF WebTypeOK
<1>11. ipcWeb' = "deliver" /\ target' \notin mixed' =>
         \A k \in DOMAIN m_PendingEvents'[target'] : m_PendingEvents'[target'][k] # delivered'
  BY <1>6, <1>10 DEF EventsOK
<1>12. \A d \in Collectors : \A k \in DOMAIN m_PendingEvents'[d] : m_PendingEvents'[d][k] <= delivered'
  BY <1>6 DEF EventsOK
<1> HIDE DEF PendingOnce
<1>13. QED BY <1>8, <1>9, <1>11, <1>12 DEF EventsOK

(* registerSubscription: a collector whose ID is still to be delivered to  *)
(* another one mixes with it.                                              *)
LEMMA TodoOfRegister ==
  ASSUME WebInv, NEW w \in Workers, registerSubscription(w)
  PROVE  TodoOK' /\ EventsOK'
<1> USE DEF webVars, sessVars, colVars, evtVars, relVars, wrkVars, intVars, WGo, WAt, IAt
<1>a. TodoOK /\ EventsOK /\ MutexOK /\ OwnersOK /\ SessionsOK /\ WebTypeOK
  BY DEF WebInv
<1>0. PICK c, i : c = wcol[w] /\ i = wid[w]
  OBVIOUS
<1> DEFINE others == SharedWith(c, i)
<1>1. /\ wpc[w] = "relay"
      /\ relayIDs' = [relayIDs EXCEPT ![c] = @ \cup {i}]
      /\ mixed' = IF others = {} THEN mixed ELSE mixed \cup others \cup {c}
      /\ UNCHANGED <<toDeliver, ipcWeb, target, delivered, m_PendingEvents>>
  BY <1>0 DEF registerSubscription
<1>2. c \in Collectors
  BY <1>0, <1>1, <1>a, MutexApart DEF InMutex
<1>3. relayIDs'[c] = relayIDs[c] \cup {i} /\ \A d \in Collectors : d # c => relayIDs'[d] = relayIDs[d]
  BY <1>1, <1>2, <1>a DEF WebTypeOK
<1>4. \A k \in DOMAIN toDeliver : toDeliver[k].id = i /\ toDeliver[k].target # c => toDeliver[k].target \in others
  BY <1>a, EventTypes DEF SharedWith
<1>5. mixed \subseteq mixed' /\ (others # {} => c \in mixed')
  BY <1>1
<1> HIDE DEF others
<1>6. \A d : Served(d)' = Served(d)
  BY <1>1 DEF Served
<1> HIDE DEF Served
<1>7. ASSUME NEW d \in Collectors \ mixed', NEW k \in DOMAIN toDeliver, toDeliver[k].id \in relayIDs'[d]
      PROVE  toDeliver[k].target = d
  <2>1. CASE toDeliver[k].id \in relayIDs[d]
    BY <1>5, <1>7, <1>a, <2>1 DEF TodoOK
  <2>2. CASE toDeliver[k].id \notin relayIDs[d]
    BY <1>3, <1>4, <1>5, <1>7, <2>2
  <2>3. QED BY <2>1, <2>2
<1>8. \A j, k \in DOMAIN toDeliver : j # k /\ toDeliver[j].target = toDeliver[k].target
        => toDeliver[j].target \in mixed'
  BY <1>5, <1>a DEF TodoOK
<1>9. \A d \in Collectors \ mixed' : Served(d)' => \A k \in DOMAIN toDeliver : toDeliver[k].target # d
  BY <1>5, <1>6, <1>a DEF TodoOK
<1>10. TodoOK'
  BY <1>1, <1>7, <1>8, <1>9 DEF TodoOK
<1>11. PendingOnce'
  BY <1>1, <1>5, <1>a DEF EventsOK, PendingOnce
<1>12. QED BY <1>1, <1>5, <1>10, <1>11, <1>a DEF EventsOK

(* executePendingEvent: of a name each collector has one subscription.     *)
LEMMA EventsOfDispatch ==
  ASSUME WebInv, NEW n \in EventNames, DispatchName(n)
  PROVE  TodoOK' /\ EventsOK'
<1> USE DEF webVars, sessVars, colVars, evtVars, relVars, wrkVars, intVars, IAt
<1>a. TodoOK /\ EventsOK /\ RelayOK /\ EntriesOK /\ WebTypeOK
  BY DEF WebInv
<1> DEFINE at == {k \in DOMAIN m_Subscriptions : m_Subscriptions[k].id[1] = n}
<1>1. /\ ipcWeb' = "lookup" /\ delivered' = delivered + 1 /\ toDeliver' = Kept(m_Subscriptions, at)
      /\ UNCHANGED <<target, m_PendingEvents, relayIDs, mixed>>
  BY DEF DispatchName, InterpUnchangedWeb
<1>2. /\ \A j \in DOMAIN toDeliver' : \E k \in at : toDeliver'[j] = m_Subscriptions[k]
      /\ \A i, j \in DOMAIN toDeliver' : i # j =>
           \E k, l \in at : k # l /\ toDeliver'[i] = m_Subscriptions[k] /\ toDeliver'[j] = m_Subscriptions[l]
  <2>1. m_Subscriptions \in Seq(Subscription) /\ at \in SUBSET (DOMAIN m_Subscriptions)
    BY <1>a DEF WebTypeOK
  <2> HIDE DEF at
  <2>2. QED BY <1>1, <2>1, KeptFacts
<1>3. \A c \in Collectors \ mixed' : \A k \in DOMAIN toDeliver' :
        toDeliver'[k].id \in relayIDs'[c] => toDeliver'[k].target = c
  <2>1. SUFFICES ASSUME NEW c \in Collectors \ mixed, NEW k \in DOMAIN toDeliver', toDeliver'[k].id \in relayIDs[c]
                 PROVE  toDeliver'[k].target = c
    BY <1>1
  <2>2. PICK l \in DOMAIN m_Subscriptions : toDeliver'[k] = m_Subscriptions[l]
    BY <1>2, <2>1
  <2>3. Leads(c, m_Subscriptions[l].id)
    BY <1>a, <2>1, <2>2 DEF EntriesOK
  <2>4. QED BY <2>2, <2>3 DEF Leads
<1>4. ASSUME NEW i \in DOMAIN toDeliver', NEW j \in DOMAIN toDeliver', i # j,
             toDeliver'[i].target = toDeliver'[j].target, toDeliver'[i].target \notin mixed
      PROVE  FALSE
  <2>1. PICK k \in at, l \in at :
          k # l /\ toDeliver'[i] = m_Subscriptions[k] /\ toDeliver'[j] = m_Subscriptions[l]
    BY <1>2, <1>4
  <2>2. PICK c : c = m_Subscriptions[k].target
    OBVIOUS
  <2>3. /\ c \in Collectors \ mixed /\ c = m_Subscriptions[l].target
        /\ m_Subscriptions[k].id \in relayIDs[c] /\ m_Subscriptions[l].id \in relayIDs[c]
    BY <1>4, <1>a, <2>1, <2>2, EntryTypes DEF EntriesOK
  <2>4. m_Subscriptions[k].id = m_Subscriptions[l].id
    BY <1>a, <2>1, <2>3 DEF RelayOK
  <2>5. Leads(c, m_Subscriptions[k].id)
    BY <1>a, <2>3 DEF EntriesOK
  <2>6. QED BY <2>1, <2>4, <2>5 DEF Leads
<1>5. \A c \in Collectors : \A k \in DOMAIN m_PendingEvents[c] : m_PendingEvents[c][k] < delivered + 1
  BY <1>a, EventTypes DEF EventsOK
<1>6. \A c \in Collectors : ~Served(c)'
  BY <1>1, <1>5 DEF Served
<1>7. TodoOK'
  <2> HIDE DEF Served, at
  <2>1. QED BY <1>1, <1>3, <1>4, <1>6 DEF TodoOK
<1>8. PendingOnce'
  BY <1>1, <1>a DEF EventsOK, PendingOnce
<1>9. delivered' >= 1 /\ \A c \in Collectors : \A k \in DOMAIN m_PendingEvents'[c] : m_PendingEvents'[c][k] <= delivered'
  BY <1>1, <1>5, <1>a, EventTypes
<1> HIDE DEF PendingOnce
<1>10. QED BY <1>1, <1>7, <1>8, <1>9 DEF EventsOK

(* The relay looks up the collector of a subscription; no other            *)
(* subscription is of this collector, and it has not been served.          *)
LEMMA EventsOfLookup ==
  ASSUME WebInv, LookupTarget
  PROVE  TodoOK' /\ EventsOK'
<1> USE DEF webVars, sessVars, colVars, evtVars, relVars, wrkVars, intVars, IAt
<1>a. TodoOK /\ EventsOK /\ RelayOK /\ EntriesOK /\ WebTypeOK
  BY DEF WebInv
<1>1. ipcWeb = "lookup" /\ UNCHANGED <<m_PendingEvents, relayIDs, mixed, delivered>>
  BY DEF LookupTarget, InterpUnchangedWeb
<1>2. CASE toDeliver = <<>>
  <2>1. ipcWeb' = "idle" /\ UNCHANGED <<toDeliver, target>>
    BY <1>2 DEF LookupTarget
  <2>2. QED BY <1>1, <1>a, <2>1, EventsStay DEF FewerIDs
<1>3. CASE toDeliver # <<>>
  <2>1. /\ target' = m_IDTargetMap[toDeliver[1].id] /\ toDeliver' = Tail(toDeliver)
        /\ ipcWeb' = IF target' = None THEN "lookup" ELSE "deliver"
    BY <1>3, <1>a, RestOfTodo DEF LookupTarget
  <2>2. /\ 1 \in DOMAIN toDeliver
        /\ \A k \in DOMAIN toDeliver' : /\ k + 1 \in DOMAIN toDeliver /\ k + 1 # 1
                                        /\ toDeliver'[k] = toDeliver[k + 1]
        /\ \A j, k \in DOMAIN toDeliver' : j # k => j + 1 # k + 1
    BY <1>3, <1>a, <2>1, RestOfTodo
  <2>3. toDeliver[1].id \in SubIDs /\ target' \in Collectors \cup {None}
    BY <1>a, <2>1, <2>2, EventTypes DEF WebTypeOK
  <2>4. ASSUME target' \in Collectors \ mixed
        PROVE  /\ toDeliver[1].target = target' /\ ~Served(target')
               /\ \A k \in DOMAIN toDeliver : k # 1 => toDeliver[k].target # target'
    <3>1. target' # None
      BY <2>4 DEF Collectors, None
    <3>2. toDeliver[1].id \in relayIDs[target']
      BY <1>a, <2>1, <2>3, <3>1 DEF RelayOK
    <3>3. toDeliver[1].target = target'
      BY <1>a, <2>2, <2>4, <3>2 DEF TodoOK
    <3> HIDE DEF Served
    <3>4. QED BY <1>a, <2>2, <2>4, <3>3 DEF TodoOK
  <2>5. \A c \in Collectors : Served(c)' => Served(c) \/ c = target'
    BY <1>1, <2>1 DEF Served
  <2>6. ASSUME NEW c \in Collectors \ mixed, Served(c)', NEW k \in DOMAIN toDeliver'
        PROVE  toDeliver'[k].target # c
    <3> HIDE DEF Served
    <3>1. CASE Served(c)
      BY <1>a, <2>2, <2>6, <3>1 DEF TodoOK
    <3>2. CASE c = target'
      BY <2>2, <2>4, <2>6, <3>2
    <3>3. QED BY <2>5, <2>6, <3>1, <3>2
  <2>7. \A c \in Collectors \ mixed : \A k \in DOMAIN toDeliver' :
          toDeliver'[k].id \in relayIDs[c] => toDeliver'[k].target = c
    BY <1>a, <2>2 DEF TodoOK
  <2>8. \A j, k \in DOMAIN toDeliver' : j # k /\ toDeliver'[j].target = toDeliver'[k].target
          => toDeliver'[j].target \in mixed
    BY <1>a, <2>2 DEF TodoOK
  <2>9. TodoOK'
    <3> HIDE DEF Served
    <3>1. QED BY <1>1, <2>6, <2>7, <2>8 DEF TodoOK
  <2>10. PendingOnce'
    BY <1>1, <1>a DEF EventsOK, PendingOnce
  <2>11. ipcWeb' = "deliver" /\ target' \notin mixed' =>
           \A k \in DOMAIN m_PendingEvents'[target'] : m_PendingEvents'[target'][k] # delivered'
    BY <1>1, <2>1, <2>3, <2>4 DEF Served
  <2> HIDE DEF PendingOnce
  <2>12. QED BY <1>1, <1>a, <2>1, <2>9, <2>10, <2>11 DEF EventsOK
<1>4. QED BY <1>2, <1>3

(* The collector gets an event after all it has.                           *)
LEMMA EventsOfDeliver ==
  ASSUME WebInv, Deliver
  PROVE  TodoOK' /\ EventsOK'
<1> USE DEF webVars, sessVars, colVars, evtVars, relVars, wrkVars, intVars, IAt
<1>a. TodoOK /\ EventsOK /\ WebTypeOK
  BY DEF WebInv
<1>1. ipcWeb = "deliver" /\ UNCHANGED <<toDeliver, target, relayIDs, mixed, delivered>>
  BY DEF Deliver, InterpUnchangedWeb
<1>2. CASE target \in destroyed
  <2>1. ipcWeb' = "lookup" /\ m_PendingEvents' = m_PendingEvents
    BY <1>2 DEF Deliver
  <2>2. QED BY <1>1, <1>a, <2>1, EventsStay DEF FewerIDs
<1>3. CASE target \notin destroyed
  <2>1. PICK c : c = target
    OBVIOUS
  <2>2. c \in Collectors
    BY <1>1, <1>a, <2>1 DEF EventsOK, WebTypeOK
  <2>3. /\ ipcWeb' = "signal"
        /\ m_PendingEvents' = [m_PendingEvents EXCEPT ![c] = Append(@, delivered)]
    BY <1>3, <2>1 DEF Deliver
  <2>4. m_PendingEvents'[c] = Append(m_PendingEvents[c], delivered)
        /\ \A d \in Collectors : d # c => m_PendingEvents'[d] = m_PendingEvents[d]
    BY <1>a, <2>2, <2>3 DEF WebTypeOK
  <2>5. PICK n \in Nat : n = Len(m_PendingEvents[c])
    BY <1>a, <2>2, EventTypes
  <2>6. delivered \in 1 .. MaxDelivered
    BY <1>1, <1>a, WebAssumption DEF EventsOK, WebTypeOK
  <2>7. /\ DOMAIN m_PendingEvents[c] = 1 .. n /\ DOMAIN m_PendingEvents'[c] = 1 .. n + 1
        /\ m_PendingEvents'[c][n + 1] = delivered
        /\ \A k \in 1 .. n : m_PendingEvents'[c][k] = m_PendingEvents[c][k]
    BY <1>a, <2>2, <2>4, <2>5, <2>6, EventTypes, LenProperties, AppendProperties
  <2>8. \A d \in Collectors : Served(d)' => Served(d)
    <3>1. TAKE d \in Collectors
    <3>2. CASE d = c
      BY <1>1, <2>1, <3>2 DEF Served
    <3>3. CASE d # c
      BY <1>1, <2>3, <2>4, <3>3 DEF Served
    <3>4. QED BY <3>2, <3>3
  <2>9. TodoOK'
    BY <1>1, <1>a, <2>8, TodoStays
  <2>10. ASSUME NEW d \in Collectors, NEW k \in DOMAIN m_PendingEvents'[d]
         PROVE  m_PendingEvents'[d][k] <= delivered
    <3>1. CASE d = c
      <4>1. k \in 1 .. n \/ k = n + 1
        BY <2>7, <2>10, <3>1
      <4>2. QED BY <1>a, <2>2, <2>6, <2>7, <3>1, <4>1 DEF EventsOK
    <3>2. CASE d # c
      BY <1>a, <2>4, <2>10, <3>2 DEF EventsOK
    <3>3. QED BY <3>1, <3>2
  <2>11. ASSUME NEW d \in Collectors \ mixed, NEW j \in DOMAIN m_PendingEvents'[d],
                NEW k \in DOMAIN m_PendingEvents'[d], j < k
         PROVE  m_PendingEvents'[d][j] < m_PendingEvents'[d][k]
    <3>1. CASE d = c
      <4>1. j \in 1 .. n /\ (k \in 1 .. n \/ k = n + 1)
        BY <2>7, <2>11, <3>1
      <4>2. m_PendingEvents[c][j] < delivered
        <5>1. m_PendingEvents[c][j] <= delivered /\ m_PendingEvents[c][j] # delivered
          BY <1>1, <1>a, <2>1, <2>2, <2>7, <2>11, <3>1, <4>1 DEF EventsOK
        <5>2. m_PendingEvents[c][j] \in Nat
          BY <1>a, <2>2, <2>7, <4>1, EventTypes
        <5>3. QED BY <2>6, <5>1, <5>2
      <4>3. CASE k = n + 1
        BY <2>7, <3>1, <4>1, <4>2, <4>3
      <4>4. CASE k \in 1 .. n
        BY <1>a, <2>2, <2>7, <2>11, <3>1, <4>1, <4>4 DEF EventsOK, PendingOnce
      <4>5. QED BY <4>1, <4>3, <4>4
    <3>2. CASE d # c
      BY <1>a, <2>4, <2>11, <3>2 DEF EventsOK, PendingOnce
    <3>3. QED BY <3>1, <3>2
  <2>12. PendingOnce'
    BY <1>1, <2>11 DEF PendingOnce
  <2> HIDE DEF PendingOnce
  <2>13. QED BY <1>1, <1>a, <2>3, <2>9, <2>10, <2>12 DEF EventsOK
<1>4. QED BY <1>2, <1>3

(* Each collector gets an event once.                                      *)
LEMMA EventsStep == WebInv /\ WebNext => TodoOK' /\ EventsOK'
<1> SUFFICES ASSUME WebInv, WebNext PROVE TodoOK' /\ EventsOK'
  OBVIOUS
<1> USE DEF webVars, sessVars, colVars, evtVars, relVars, wrkVars, intVars, WGo, WAt, IAt
<1>a. TodoOK /\ EventsOK /\ WebTypeOK
  BY DEF WebInv
<1> DEFINE Still == UNCHANGED <<toDeliver, target, delivered, m_PendingEvents, ipcWeb, mixed>>
<1>b. ASSUME Still, FewerIDs PROVE TodoOK' /\ EventsOK'
  BY <1>a, <1>b, EventsStay
<1>c. ASSUME Still, relayIDs' = relayIDs PROVE TodoOK' /\ EventsOK'
  BY <1>b, <1>c DEF FewerIDs
<1>d. ASSUME NEW released, Cancel(released) PROVE FewerIDs
  BY <1>d DEF Cancel, FewerIDs
<1>e. ASSUME NEW sess, NEW subs, NEW ws, NEW released, Destroy(sess, subs, ws, released) PROVE FewerIDs
  BY <1>e, <1>d DEF Destroy
<1>1. ASSUME NEW w \in Workers, Arrive(w) PROVE TodoOK' /\ EventsOK'
  BY <1>c, <1>1 DEF Arrive, Receive
<1>2. ASSUME NEW w \in Workers, Handle(w) PROVE TodoOK' /\ EventsOK'
  <2>1. CASE touch(w) \/ registerSession(w) \/ removeSession(w)
    BY <1>c, <2>1 DEF touch, registerSession, removeSession
  <2>2. CASE Finish(w)
    <3>1. Still /\ Destroy(m_Sessions, m_subscription, Workers \ {w}, NoneReleased)
      BY <2>2 DEF Finish
    <3>2. QED BY <1>b, <1>e, <3>1
  <2>3. CASE subscribe(w)
    <3>1. Still /\ \E released : Cancel(released)
      BY <2>3 DEF subscribe
    <3>2. QED BY <1>b, <1>d, <3>1
  <2>4. CASE registerSubscription(w)
    BY <2>4, TodoOfRegister
  <2>5. CASE NewID(w) \/ AddSubscription(w)
    BY <1>c, <2>5 DEF NewID, AddSubscription
  <2>6. CASE AssertNew(w)
    BY <1>c, <2>6 DEF AssertNew, Crash
  <2>7. CASE unsubscribe(w)
    <3>1. Still /\ \E subs, released : Destroy(m_Sessions, subs, Workers, released)
      BY <2>7 DEF unsubscribe
    <3>2. QED BY <1>b, <1>e, <3>1
  <2>8. CASE get(w) \/ PollRound(w) \/ EnterWait(w) \/ Signalled(w) \/ TimedOut(w)
    BY <1>c, <2>8 DEF get, PollRound, EnterWait, Signalled, TimedOut, WaitEnds, GetUnchanged
  <2>9. CASE unuse(w) \/ hasEvent(w)
    BY <1>c, <2>9 DEF unuse, hasEvent, GetUnchanged
  <2>10. CASE popEvent(w)
    <3>1. CASE ~Pending(w)
      BY <1>c, <2>10, <3>1 DEF popEvent, Crash
    <3>2. CASE Pending(w)
      <4>0. PICK c : c = wcol[w]
        OBVIOUS
      <4>1. /\ wpc[w] = "pop" /\ m_PendingEvents[c] # <<>>
            /\ m_PendingEvents' = [m_PendingEvents EXCEPT ![c] = Tail(@)]
            /\ UNCHANGED <<toDeliver, target, delivered, ipcWeb, relayIDs, mixed>>
        BY <2>10, <3>2, <4>0 DEF popEvent, Pending, GetUnchanged
      <4>2. c \in Collectors
        BY <1>a, <4>0, <4>1 DEF WebInv, OwnersOK, HasColl, WebTypeOK
      <4>3. QED BY <1>a, <4>1, <4>2, EventsPopped
    <3>3. QED BY <3>1, <3>2
  <2>11. QED BY <1>2, <2>1, <2>2, <2>3, <2>4, <2>5, <2>6, <2>7, <2>8, <2>9, <2>10 DEF Handle
<1>3. CASE \E n \in EventNames : DispatchName(n)
  BY <1>3, EventsOfDispatch
<1>4. CASE LookupTarget
  BY <1>4, EventsOfLookup
<1>5. CASE Deliver
  BY <1>5, EventsOfDeliver
<1>6. CASE SignalArrival
  <2>1. /\ ipcWeb = "signal" /\ ipcWeb' = "lookup"
        /\ UNCHANGED <<toDeliver, target, delivered, m_PendingEvents, relayIDs, mixed>>
    BY <1>6 DEF SignalArrival, InterpUnchangedWeb
  <2>2. QED BY <1>a, <2>1, EventsStay DEF FewerIDs
<1>7. CASE cleanupSessions
  <2>1. Still /\ Destroy(CleanedUp, m_subscription, Workers, NoneReleased)
    BY <1>7 DEF cleanupSessions
  <2>2. QED BY <1>b, <1>e, <2>1
<1>8. CASE PassTime
  BY <1>c, <1>8 DEF PassTime
<1>9. QED BY <1>1, <1>2, <1>3, <1>4, <1>5, <1>6, <1>7, <1>8 DEF WebNext

-----------------------------------------------------------------------------
(* Theorems                                                                *)

(* At the start there is no session, no request and no subscription.       *)
LEMMA InitWebInv == WebInit => WebInv
<1> SUFFICES ASSUME WebInit PROVE WebInv
  OBVIOUS
<1> USE WebAssumption DEF WebInit
<1>1. WebTypeOK
  <2>1. AnyID \in SubIDs /\ AnyID[1] \in EventNames
    BY DEF AnyID, SubIDs
  <2>2. \A S : <<>> \in Seq(S)
    BY EmptySeq
  <2>3. Cardinality(Workers) \in Nat
    BY FS_CardinalityType
  <2>4. "idle" \in WebPC /\ "login" \in Requests
    BY DEF WebPC, Requests
  <2>5. /\ m_Sessions \in [AllTokens -> {"absent", "null", "live"}]
        /\ touched \in [Tokens -> 0 .. MaxWebTime]
        /\ usage \in [Tokens -> 0 .. Cardinality(Workers)]
        /\ waitEnded \in [Tokens -> 0 .. MaxWebTime]
        /\ m_subscription \in [Tokens -> Collectors \cup {None}]
        /\ relayIDs \in [Collectors -> SUBSET SubIDs]
    BY <2>3
  <2>6. /\ m_PendingEvents \in [Collectors -> Seq(1 .. MaxDelivered)]
        /\ m_EventArrived \in [Collectors -> BOOLEAN]
        /\ m_Subscriptions \in Seq(Subscription) /\ toDeliver \in Seq(Subscription)
        /\ m_IDTargetMap \in [SubIDs -> Collectors \cup {None}]
    BY <2>2
  <2>7. /\ wpc \in [Workers -> WebPC] /\ wreq \in [Workers -> Requests]
        /\ wtoken \in [Workers -> Tokens \cup {NoToken}]
        /\ wcol \in [Workers -> Collectors \cup {None}]
        /\ wname \in [Workers -> EventNames] /\ wid \in [Workers -> SubIDs]
    BY <2>1, <2>4
  <2>8. /\ webNow \in 0 .. MaxWebTime /\ collectors \in 0 .. MaxCollectors
        /\ requests \in 0 .. MaxRequests /\ delivered \in 0 .. MaxDelivered
        /\ generated \subseteq Tokens /\ subMutex \subseteq Tokens
        /\ destroyed \subseteq 1 .. collectors /\ mixed \subseteq Collectors
        /\ ipcWeb \in {"idle", "lookup", "deliver", "signal"} /\ target \in Collectors \cup {None}
    OBVIOUS
  <2>9. relaySet \in BOOLEAN /\ crashed \in BOOLEAN
    OBVIOUS
  <2> HIDE DEF WebInit
  <2>10. QED BY <2>5, <2>6, <2>7, <2>8, <2>9 DEF WebTypeOK
<1>2. SessionsOK
  BY DEF SessionsOK, AllTokens, Requests
<1>3. UsageOK
  <2>1. \A t : PollingWith(t) = {}
    BY DEF PollingWith, Polling
  <2>2. QED BY <2>1, FS_EmptySet DEF UsageOK
<1>4. RoomOK
  <2>1. ToSubscribe = {}
    BY DEF ToSubscribe
  <2>2. QED BY <2>1, FS_EmptySet DEF RoomOK
<1>5. OwnersOK
  BY DEF OwnersOK, HasColl, Polling, InMutex, None
<1>6. MutexOK
  BY DEF MutexOK, InMutex
<1>7. RelayOK /\ EntriesOK
  BY DEF RelayOK, EntriesOK, SubscribedIDs
<1>8. TodoOK /\ EventsOK
  BY DEF TodoOK, EventsOK, Served, PendingOnce
<1>9. LeaseOK
  BY DEF LeaseOK
<1>10. QED BY <1>1, <1>2, <1>3, <1>4, <1>5, <1>6, <1>7, <1>8, <1>9 DEF WebInv

(* Steps that change nothing keep the invariant.                           *)
LEMMA WebInvStutters == WebInv /\ UNCHANGED webVars => WebInv'
<1> SUFFICES ASSUME WebInv, UNCHANGED webVars PROVE WebInv'
  OBVIOUS
<1> USE DEF webVars, sessVars, colVars, evtVars, relVars, wrkVars, intVars
<1>1. WebTypeOK' /\ SessionsOK'
  <2>1. WebTypeOK'
    BY DEF WebInv, WebTypeOK
  <2>2. SessionsOK'
    BY DEF WebInv, SessionsOK
  <2>3. QED BY <2>1, <2>2
<1>2. UsageOK' /\ RoomOK'
  BY DEF WebInv, UsageOK, PollingWith, RoomOK, ToSubscribe
<1>8. LeaseOK'
  BY DEF WebInv, LeaseOK
<1>3. OwnersOK'
  BY DEF WebInv, OwnersOK, Held, Living
<1>4. MutexOK'
  BY DEF WebInv, MutexOK, Named
<1>5. RelayOK' /\ EntriesOK'
  BY DEF WebInv, RelayOK, EntriesOK, Leads, Living, SubscribedIDs
<1>6. TodoOK' /\ EventsOK'
  BY DEF WebInv, TodoOK, EventsOK, Served, PendingOnce
<1>7. QED BY <1>1, <1>2, <1>3, <1>4, <1>5, <1>6, <1>8 DEF WebInv

(* Every step of the web server and the interpreter keeps the invariant.   *)
LEMMA NextWebInv == WebInv /\ [WebNext]_webVars => WebInv'
<1> SUFFICES ASSUME WebInv, WebNext PROVE WebInv'
  BY WebInvStutters
<1>1. QED BY TypeStep, SessionsStep, UsageStep, LeaseStep, RoomStep, OwnersStep, MutexStep, RelayStep, EventsStep
          DEF WebInv

(* The inductive invariant: who uses a session or a collector keeps it,    *)
(* one request at a time subscribes for a session, and an ID leads to the  *)
(* collector that has it.                                                  *)
THEOREM Invariance == WebSpec => []WebInv
BY InitWebInv, NextWebInv, PTL DEF WebSpec

(* Sessions, subscriptions, the relay and the requests keep their types,   *)
(* and there is always room for the collector of a request that asks for   *)
(* one.                                                                    *)
THEOREM TypeCorrect == WebSpec => []WebTypeOK
<1>1. WebInv => WebTypeOK
  BY DEF WebInv
<1>2. QED BY <1>1, Invariance, PTL

(* The relay never leads to a destroyed collector; what the interpreter    *)
(* has subscribed leads to the collector that asked for it, and a client   *)
(* gets each event once, unless two clients were given the same ID.        *)
THEOREM RelayExact == WebSpec => []RelayIsExact
<1>1. WebInv => RelayIsExact
  <2> SUFFICES ASSUME WebInv PROVE RelayIsExact
    OBVIOUS
  <2>a. RelayOK /\ EntriesOK /\ EventsOK /\ WebTypeOK
    BY DEF WebInv
  <2>1. ASSUME NEW i \in SubIDs PROVE m_IDTargetMap[i] \notin destroyed
    <3>1. CASE m_IDTargetMap[i] = None
      BY <2>a, <3>1 DEF WebTypeOK, None
    <3>2. CASE m_IDTargetMap[i] # None
      BY <2>a, <3>2 DEF WebTypeOK, RelayOK, Living
    <3>3. QED BY <3>1, <3>2
  <2>2. ASSUME NEW k \in DOMAIN m_Subscriptions, m_Subscriptions[k].target \notin mixed
        PROVE  m_IDTargetMap[m_Subscriptions[k].id] = m_Subscriptions[k].target
    <3>1. Leads(m_Subscriptions[k].target, m_Subscriptions[k].id)
      BY <2>a, <2>2, EntryTypes DEF EntriesOK
    <3>2. QED BY <3>1 DEF Leads
  <2>3. QED BY <2>1, <2>2, <2>a DEF RelayIsExact, NoDanglingTarget, EventsOK
<1>2. QED BY <1>1, Invariance, PTL

(* The cleanup takes no session away while a client waits in event/get     *)
(* with it, because each use() is counted until its unuse(), nor before    *)
(* the timeout is over after the last wait, because unuse() touches it.    *)
THEOREM SessionKept == WebSpec => WaitingKeepsSession
<1> DEFINE Keeps == \A t \in Tokens :
              m_Sessions[t] = "live" /\ m_Sessions'[t] = "absent"
                => \/ LoggedOut(t)
                   \/ ~WaitedFor(t) /\ waitEnded[t] + SessionTimeout <= webNow
<1>1. WebInv /\ WebNext => Keeps
  <2> SUFFICES ASSUME WebInv, WebNext, NEW t \in Tokens,
                      m_Sessions[t] = "live", m_Sessions'[t] = "absent"
               PROVE  \/ LoggedOut(t)
                      \/ ~WaitedFor(t) /\ waitEnded[t] + SessionTimeout <= webNow
    OBVIOUS
  <2> USE DEF webVars, sessVars, colVars, evtVars, relVars, wrkVars, intVars, WGo, WAt, IAt
  <2>a. m_Sessions \in [AllTokens -> {"absent", "null", "live"}] /\ t \in AllTokens
    BY DEF WebInv, WebTypeOK, AllTokens
  <2>1. CASE cleanupSessions
    <3>1. ~isStillValid(t)
      BY <2>1, <2>a DEF cleanupSessions, CleanedUp
    <3>2. usage[t] = 0
      BY <3>1 DEF isStillValid
    <3>3. Cardinality(PollingWith(t)) = 0
      BY <3>2 DEF WebInv, UsageOK
    <3>4. PollingWith(t) = {}
      <4>1. IsFiniteSet(PollingWith(t))
        BY PollersFinite
      <4> HIDE DEF PollingWith
      <4>2. QED BY <3>3, <4>1, FS_EmptySet
    <3>5. ~WaitedFor(t)
      BY <3>4 DEF PollingWith, WaitedFor
    <3>6. waitEnded[t] + SessionTimeout <= webNow
      <4>1. ~(touched[t] + SessionTimeout > webNow)
        BY <3>1 DEF isStillValid
      <4>2. waitEnded[t] <= touched[t]
        BY DEF WebInv, LeaseOK
      <4>3. webNow \in Nat /\ SessionTimeout \in Nat /\ touched[t] \in Nat /\ waitEnded[t] \in Nat
        BY WebAssumption DEF WebInv, WebTypeOK
      <4>4. QED BY <4>1, <4>2, <4>3
    <3>7. QED BY <3>5, <3>6
  <2>2. ASSUME NEW w \in Workers, Arrive(w) PROVE FALSE
    BY <2>2, <2>a DEF Arrive, Receive
  <2>3. ASSUME NEW w \in Workers, Handle(w) PROVE wpc[w] = "logout" /\ wtoken[w] = t
    <3>1. CASE removeSession(w)
      BY <3>1, <2>a DEF removeSession
    <3>2. CASE registerSession(w)
      BY <3>2, <2>a DEF registerSession
    <3>3. CASE touch(w) \/ Finish(w) \/ subscribe(w) \/ NewID(w) \/ registerSubscription(w)
      BY <3>3 DEF touch, Finish, subscribe, NewID, registerSubscription
    <3>4. CASE AssertNew(w) \/ AddSubscription(w) \/ unsubscribe(w) \/ popEvent(w)
      BY <3>4 DEF AssertNew, AddSubscription, unsubscribe, popEvent, GetUnchanged, Crash
    <3>5. CASE get(w) \/ PollRound(w) \/ EnterWait(w) \/ Signalled(w) \/ TimedOut(w)
      BY <3>5 DEF get, PollRound, EnterWait, Signalled, TimedOut, WaitEnds, GetUnchanged
    <3>6. CASE unuse(w) \/ hasEvent(w)
      BY <3>6 DEF unuse, hasEvent, GetUnchanged
    <3>7. QED BY <2>3, <3>1, <3>2, <3>3, <3>4, <3>5, <3>6 DEF Handle
  <2>4. CASE (\E n \in EventNames : DispatchName(n)) \/ LookupTarget \/ Deliver \/ SignalArrival
    BY <2>4 DEF DispatchName, LookupTarget, Deliver, SignalArrival, InterpUnchangedWeb
  <2>5. CASE PassTime
    BY <2>5 DEF PassTime
  <2>6. QED BY <2>1, <2>2, <2>3, <2>4, <2>5 DEF WebNext, LoggedOut
<1>2. WebInv /\ [WebNext]_webVars => [Keeps]_webVars
  BY <1>1
<1>3. QED BY <1>2, Invariance, PTL DEF WebSpec, WaitingKeepsSession
=============================================================================
