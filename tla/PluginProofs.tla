---------------------------- MODULE PluginProofs ----------------------------
(***************************************************************************)
(* Proofs about two plugins of the event interpreter.  SensorUpload, for   *)
(* every size of the packets and of the queues, every number of events, of *)
(* failing requests and of changes of the token: events are kept until the *)
(* hub has them, and uploaded one packet at a time.  Triggers, for any     *)
(* triggers, events, delays and intervals: the actions of a trigger that   *)
(* is rescheduled are the delay apart, the matches of a damped one that    *)
(* pass the interval, and no match is suppressed longer than the interval. *)
(***************************************************************************)
EXTENDS SensorUpload, Triggers, FiniteSetTheorems, SequenceTheorems, TLAPS

(* what is in the log has been raised *)
Known ==
  /\ IdsIn(m_events) \cup IdsIn(m_eventsHighPrio) \cup IdsIn(m_packet) \subseteq DOMAIN kindOf
  /\ current \in LogIds => current \in DOMAIN kindOf
  /\ \A e \in LogIds : appended[e] > 0 => e \in DOMAIN kindOf

(* The request that is under way, and the answer that done() is about to   *)
(* act on, are for the packet that is in the log now.                      *)
PacketIsSent ==
  /\ tasks # <<>> => Body \subseteq tasks[1]
  /\ At("task", "request") => Body \subseteq request
  /\ At("task", "send") => Body \subseteq answered

UploadInv ==
  /\ UploadTypeOK /\ IsFiniteSet(subscriptions)
  /\ OneUpload /\ Known /\ PacketIsSent /\ NoEventLost

(***************************************************************************)
(* Sequences of events                                                     *)
(***************************************************************************)

(* what appending one event, or many, adds to the events of a queue *)
LEMMA IdsInAppend ==
  ASSUME NEW S, NEW q \in Seq(S), NEW e \in S
  PROVE  /\ Append(q, e) \in Seq(S) /\ Len(Append(q, e)) = Len(q) + 1
         /\ IdsIn(Append(q, e)) = IdsIn(q) \cup {e}
<1>1. /\ Append(q, e) \in Seq(S) /\ Len(Append(q, e)) = Len(q) + 1
      /\ DOMAIN Append(q, e) = 1 .. Len(q) + 1 /\ DOMAIN q = 1 .. Len(q) /\ Len(q) \in Nat
      /\ \A i \in 1 .. Len(q) : Append(q, e)[i] = q[i]
      /\ Append(q, e)[Len(q) + 1] = e
  BY AppendProperties, LenProperties
<1>2. IdsIn(Append(q, e)) \subseteq IdsIn(q) \cup {e}
  <2>1. \A i \in 1 .. Len(q) + 1 : i \in 1 .. Len(q) \/ i = Len(q) + 1
    BY <1>1
  <2>2. QED BY <1>1, <2>1 DEF IdsIn
<1>3. IdsIn(q) \cup {e} \subseteq IdsIn(Append(q, e))
  <2>1. Len(q) + 1 \in 1 .. Len(q) + 1 /\ \A i \in 1 .. Len(q) : i \in 1 .. Len(q) + 1
    BY <1>1
  <2>2. QED BY <1>1, <2>1 DEF IdsIn
<1>4. QED BY <1>1, <1>2, <1>3

(* what is in two queues that are joined *)
LEMMA IdsInConcat ==
  ASSUME NEW S, NEW p \in Seq(S), NEW q \in Seq(S)
  PROVE  /\ p \o q \in Seq(S) /\ Len(p \o q) = Len(p) + Len(q)
         /\ IdsIn(p \o q) = IdsIn(p) \cup IdsIn(q)
<1>1. /\ p \o q \in Seq(S) /\ Len(p \o q) = Len(p) + Len(q)
      /\ \A i \in 1 .. Len(p) + Len(q) : (p \o q)[i] = IF i <= Len(p) THEN p[i] ELSE q[i - Len(p)]
      /\ Len(p) \in Nat /\ Len(q) \in Nat
  BY ConcatProperties, LenProperties
<1>2. DOMAIN (p \o q) = 1 .. Len(p) + Len(q) /\ DOMAIN p = 1 .. Len(p) /\ DOMAIN q = 1 .. Len(q)
  BY <1>1, LenProperties
<1>3. IdsIn(p \o q) \subseteq IdsIn(p) \cup IdsIn(q)
  <2>1. ASSUME NEW i \in 1 .. Len(p) + Len(q) PROVE (p \o q)[i] \in IdsIn(p) \cup IdsIn(q)
    <3>1. CASE i <= Len(p)
      <4>1. i \in 1 .. Len(p) /\ (p \o q)[i] = p[i]
        BY <1>1, <3>1
      <4>2. QED BY <1>2, <4>1 DEF IdsIn
    <3>2. CASE ~(i <= Len(p))
      <4>1. i - Len(p) \in 1 .. Len(q) /\ (p \o q)[i] = q[i - Len(p)]
        BY <1>1, <3>2
      <4>2. QED BY <1>2, <4>1 DEF IdsIn
    <3>3. QED BY <3>1, <3>2
  <2>2. QED BY <1>2, <2>1 DEF IdsIn
<1>4. IdsIn(p) \subseteq IdsIn(p \o q)
  <2>1. \A i \in 1 .. Len(p) : i \in 1 .. Len(p) + Len(q) /\ (p \o q)[i] = p[i]
    BY <1>1
  <2>2. QED BY <1>2, <2>1 DEF IdsIn
<1>5. IdsIn(q) \subseteq IdsIn(p \o q)
  <2>1. \A i \in 1 .. Len(q) : i + Len(p) \in 1 .. Len(p) + Len(q) /\ (p \o q)[i + Len(p)] = q[i]
    BY <1>1
  <2>2. QED BY <1>2, <2>1 DEF IdsIn
<1>6. QED BY <1>1, <1>3, <1>4, <1>5

(* packet_append moves events from a queue to the packet until it is full, *)
(* and loses none.                                                         *)
LEMMA SplitQueue ==
  ASSUME NEW q \in Seq(LogIds), NEW p \in Seq(LogIds), Len(p) <= MaxPost
  PROVE  /\ Taken(q, p) \in Seq(LogIds) /\ Left(q, p) \in Seq(LogIds)
         /\ IdsIn(q) = IdsIn(Taken(q, p)) \cup IdsIn(Left(q, p))
         /\ Len(Left(q, p)) <= Len(q) /\ Len(p \o Taken(q, p)) <= MaxPost
         /\ p \o Taken(q, p) \in Seq(LogIds)
<1> DEFINE k == Space(q, p)
           T == Taken(q, p)
           L == Left(q, p)
<1>1. /\ Len(q) \in Nat /\ Len(p) \in Nat /\ MaxPost \in Nat
      /\ DOMAIN q = 1 .. Len(q) /\ \A i \in 1 .. Len(q) : q[i] \in LogIds
  BY LenProperties, ElementOfSeq, UploadAssumption
<1>2. k \in 0 .. Len(q) /\ Len(p) + k <= MaxPost
  BY <1>1 DEF Space
<1>3. /\ T \in Seq(LogIds) /\ Len(T) = k /\ \A i \in 1 .. k : T[i] = q[i]
  <2>1. T = SubSeq(q, 1, k) /\ \A i \in 1 .. k : q[i] \in LogIds
    BY <1>1, <1>2 DEF Taken
  <2> HIDE DEF k, T
  <2>2. /\ SubSeq(q, 1, k) \in Seq(LogIds) /\ Len(SubSeq(q, 1, k)) = IF 1 <= k THEN k - 1 + 1 ELSE 0
        /\ \A i \in 1 .. k - 1 + 1 : SubSeq(q, 1, k)[i] = q[1 + i - 1]
    BY <1>1, <1>2, <2>1, SubSeqProperties
  <2>3. QED BY <1>1, <1>2, <2>1, <2>2
<1>4. /\ L \in Seq(LogIds) /\ Len(L) = Len(q) - k
      /\ \A i \in 1 .. Len(q) - k : L[i] = q[i + k]
  <2>1. L = SubSeq(q, k + 1, Len(q)) /\ \A i \in k + 1 .. Len(q) : q[i] \in LogIds
    BY <1>1, <1>2 DEF Left
  <2> HIDE DEF k, L
  <2>2. /\ SubSeq(q, k + 1, Len(q)) \in Seq(LogIds)
        /\ Len(SubSeq(q, k + 1, Len(q))) = IF k + 1 <= Len(q) THEN Len(q) - (k + 1) + 1 ELSE 0
        /\ \A i \in 1 .. Len(q) - (k + 1) + 1 : SubSeq(q, k + 1, Len(q))[i] = q[k + 1 + i - 1]
    BY <1>1, <1>2, <2>1, SubSeqProperties
  <2>3. QED BY <1>1, <1>2, <2>1, <2>2
<1> HIDE DEF k, T, L
<1>5. DOMAIN T = 1 .. k /\ DOMAIN L = 1 .. Len(q) - k
  BY <1>3, <1>4, LenProperties
<1>6. IdsIn(T) \cup IdsIn(L) \subseteq IdsIn(q)
  <2>1. \A i \in 1 .. k : i \in 1 .. Len(q)
    BY <1>1, <1>2
  <2>2. \A i \in 1 .. Len(q) - k : i + k \in 1 .. Len(q)
    BY <1>1, <1>2
  <2>3. QED BY <1>1, <1>3, <1>4, <1>5, <2>1, <2>2 DEF IdsIn
<1>7. IdsIn(q) \subseteq IdsIn(T) \cup IdsIn(L)
  <2>1. ASSUME NEW i \in 1 .. Len(q) PROVE q[i] \in IdsIn(T) \cup IdsIn(L)
    <3>1. CASE i <= k
      <4>1. i \in 1 .. k
        BY <1>2, <3>1
      <4>2. QED BY <1>3, <1>5, <4>1 DEF IdsIn
    <3>2. CASE ~(i <= k)
      <4>1. i - k \in 1 .. Len(q) - k /\ (i - k) + k = i
        BY <1>1, <1>2, <3>2
      <4>2. QED BY <1>4, <1>5, <4>1 DEF IdsIn
    <3>3. QED BY <3>1, <3>2
  <2>2. QED BY <1>1, <2>1 DEF IdsIn
<1>8. Len(L) <= Len(q)
  BY <1>1, <1>2, <1>4
<1>9. p \o T \in Seq(LogIds) /\ Len(p \o T) <= MaxPost
  <2>1. p \o T \in Seq(LogIds) /\ Len(p \o T) = Len(p) + Len(T)
    BY <1>3, IdsInConcat
  <2>2. QED BY <1>2, <1>3, <2>1
<1>10. QED BY <1>3, <1>4, <1>6, <1>7, <1>8, <1>9 DEF T, L

(***************************************************************************)
(* Types                                                                   *)
(***************************************************************************)

(* the types of the log, of the event interpreter, of the requests, of the *)
(* plugin and of the threads                                               *)
LogTypes ==
  /\ m_events \in Seq(LogIds) /\ Len(m_events) <= MaxElements
  /\ m_eventsHighPrio \in Seq(LogIds) /\ Len(m_eventsHighPrio) <= MaxPrio
  /\ m_packet \in Seq(LogIds) /\ Len(m_packet) <= MaxPost
  /\ m_pending_upload \in BOOLEAN /\ m_upload_run \in 0 .. MaxPost - 1
DispTypes ==
  /\ kindOf \in Seq(LogKinds) /\ Len(kindOf) <= MaxLogged
  /\ current \in Nothing .. Batch /\ todo \in SUBSET Nat /\ wasRunning \in BOOLEAN
PostTypes ==
  /\ tasks \in Seq(SUBSET LogIds) /\ request \in SUBSET LogIds
  /\ faults \in Nat /\ answered \in SUBSET LogIds
PluginTypes ==
  /\ websvcActive \in BOOLEAN /\ m_subscribed \in BOOLEAN
  /\ subscriptions \in SUBSET Nat /\ IsFiniteSet(subscriptions)
  /\ timers \in Nat /\ toggles \in Nat
ThreadTypes ==
  /\ upc \in [UploadThreads -> UploadPC]
  /\ upc["interp"] # "request" /\ upc["task"] \notin {"handle", "trigger"}
AppendedTypes == appended \in [LogIds -> Nat]

(* the type invariant, in parts *)
LEMMA TypeParts ==
  /\ UploadTypeOK /\ IsFiniteSet(subscriptions)
       <=> LogTypes /\ DispTypes /\ PostTypes /\ PluginTypes /\ ThreadTypes /\ AppendedTypes
  /\ (UploadTypeOK /\ IsFiniteSet(subscriptions))'
       <=> LogTypes' /\ DispTypes' /\ PostTypes' /\ PluginTypes' /\ ThreadTypes' /\ AppendedTypes'
BY DEF UploadTypeOK, LogTypes, DispTypes, PostTypes, PluginTypes, ThreadTypes, AppendedTypes

(* what a part of the state that does not change keeps *)
LEMMA TypeFrames ==
  /\ LogTypes /\ UNCHANGED logVars => LogTypes'
  /\ DispTypes /\ UNCHANGED dispVars => DispTypes'
  /\ PostTypes /\ UNCHANGED postVars => PostTypes'
  /\ PluginTypes /\ UNCHANGED pluginVars => PluginTypes'
  /\ ThreadTypes /\ UNCHANGED upc => ThreadTypes'
  /\ AppendedTypes /\ UNCHANGED appended => AppendedTypes'
BY DEF LogTypes, DispTypes, PostTypes, PluginTypes, ThreadTypes, AppendedTypes,
   logVars, dispVars, postVars, pluginVars

(* The first free index is a number, and the set of the subscriptions      *)
(* stays finite.                                                           *)
LEMMA SubscriptionTypes ==
  ASSUME PluginTypes, doSubscribe \/ doUnsubscribe
  PROVE  m_subscribed' \in BOOLEAN /\ subscriptions' \in SUBSET Nat /\ IsFiniteSet(subscriptions')
<1>1. Cardinality(subscriptions) \in Nat
  BY FS_CardinalityType DEF PluginTypes
<1>2. uniqueSubscriptionID(subscriptions) \subseteq Nat
  BY <1>1 DEF uniqueSubscriptionID
<1>3. m_subscribed' \in BOOLEAN
  BY DEF doSubscribe, doUnsubscribe
<1>4. \/ subscriptions' = subscriptions
      \/ \E id \in Nat : subscriptions' = subscriptions \cup {id} \/ subscriptions' = subscriptions \ {id}
  BY <1>2 DEF doSubscribe, doUnsubscribe
<1>5. CASE subscriptions' = subscriptions
  BY <1>3, <1>5 DEF PluginTypes
<1>6. ASSUME NEW id \in Nat,
             subscriptions' = subscriptions \cup {id} \/ subscriptions' = subscriptions \ {id}
      PROVE  subscriptions' \in SUBSET Nat /\ IsFiniteSet(subscriptions')
  <2>1. subscriptions' \in SUBSET Nat
    BY <1>6 DEF PluginTypes
  <2>2. IsFiniteSet(subscriptions \cup {id}) /\ IsFiniteSet(subscriptions \ {id})
    BY FS_AddElement, FS_RemoveElement DEF PluginTypes
  <2>3. QED BY <1>6, <2>1, <2>2
<1>7. QED BY <1>3, <1>4, <1>5, <1>6

(* send_packet moves events from the queues to the packet and loses none,  *)
(* but the packet that was answered.                                       *)
LEMMA SendFacts ==
  ASSUME LogTypes, NEW t \in UploadThreads, send_packet(t)
  PROVE  /\ LogTypes'
         /\ IdsIn(m_events') \cup IdsIn(m_eventsHighPrio') \cup IdsIn(m_packet')
              = IdsIn(m_events) \cup IdsIn(m_eventsHighPrio) \cup IdsIn(PacketOf(t))
<1> DEFINE P == PacketOf(t)
           W == P \o Taken(m_eventsHighPrio, P)
<1>1. P \in Seq(LogIds) /\ Len(P) <= MaxPost
  BY UploadAssumption DEF PacketOf, LogTypes
<1>2. m_upload_run' \in 0 .. MaxPost - 1
  <2>1. Len(m_packet) \in Nat /\ m_upload_run \in Nat /\ MaxPost \in Nat /\ MaxPost > 0
    BY LenProperties, UploadAssumption DEF LogTypes
  <2>2. (m_upload_run + Len(m_packet)) % MaxPost \in 0 .. MaxPost - 1 /\ 0 \in 0 .. MaxPost - 1
    BY <2>1
  <2>3. QED BY <2>2 DEF send_packet, RunOf
<1>3. CASE StopsUpload(t)
  <2>1. /\ m_packet' = P /\ UNCHANGED <<m_events, m_eventsHighPrio>> /\ m_pending_upload' = FALSE
    BY <1>3 DEF send_packet
  <2> HIDE DEF P
  <2>2. LogTypes'
    BY <1>1, <1>2, <2>1 DEF LogTypes
  <2>3. QED BY <2>1, <2>2 DEF P
<1>4. CASE ~StopsUpload(t)
  <2>1. /\ m_packet' = W \o Taken(m_events, W)
        /\ m_eventsHighPrio' = Left(m_eventsHighPrio, P) /\ m_events' = Left(m_events, W)
        /\ UNCHANGED m_pending_upload
    BY <1>4 DEF send_packet
  <2>2. m_events \in Seq(LogIds) /\ m_eventsHighPrio \in Seq(LogIds)
    BY DEF LogTypes
  <2> HIDE DEF P
  <2>3. /\ Taken(m_eventsHighPrio, P) \in Seq(LogIds) /\ m_eventsHighPrio' \in Seq(LogIds)
        /\ IdsIn(m_eventsHighPrio) = IdsIn(Taken(m_eventsHighPrio, P)) \cup IdsIn(m_eventsHighPrio')
        /\ Len(m_eventsHighPrio') <= Len(m_eventsHighPrio) /\ Len(W) <= MaxPost
        /\ W \in Seq(LogIds)
    BY <1>1, <2>1, <2>2, SplitQueue
  <2>4. IdsIn(W) = IdsIn(P) \cup IdsIn(Taken(m_eventsHighPrio, P))
    BY <1>1, <2>3, IdsInConcat
  <2> HIDE DEF W
  <2>5. /\ Taken(m_events, W) \in Seq(LogIds) /\ m_events' \in Seq(LogIds)
        /\ IdsIn(m_events) = IdsIn(Taken(m_events, W)) \cup IdsIn(m_events')
        /\ Len(m_events') <= Len(m_events) /\ Len(m_packet') <= MaxPost
        /\ m_packet' \in Seq(LogIds)
    BY <2>1, <2>2, <2>3, SplitQueue
  <2>6. IdsIn(m_packet') = IdsIn(W) \cup IdsIn(Taken(m_events, W))
    BY <2>1, <2>3, <2>5, IdsInConcat
  <2>7. LogTypes'
    <3>1. Len(m_events') <= MaxElements /\ Len(m_eventsHighPrio') <= MaxPrio
      <4>1. /\ Len(m_events) \in Nat /\ Len(m_eventsHighPrio) \in Nat
            /\ Len(m_events') \in Nat /\ Len(m_eventsHighPrio') \in Nat
        BY <2>2, <2>3, <2>5, LenProperties
      <4>2. QED BY <2>3, <2>5, <4>1, UploadAssumption DEF LogTypes
    <3>2. QED BY <1>2, <2>1, <2>3, <2>5, <3>1 DEF LogTypes
  <2>8. QED BY <2>3, <2>4, <2>5, <2>6, <2>7 DEF P
<1>5. QED BY <1>3, <1>4

(* Every step keeps the types. *)
LEMMA TypeStep ==
  ASSUME UploadTypeOK, IsFiniteSet(subscriptions), [UploadNext]_uploadVars
  PROVE  UploadTypeOK' /\ IsFiniteSet(subscriptions)'
<1>q. LogTypes /\ DispTypes /\ PostTypes /\ PluginTypes /\ ThreadTypes /\ AppendedTypes
  BY TypeParts
<1>s. SUFFICES LogTypes' /\ DispTypes' /\ PostTypes' /\ PluginTypes' /\ ThreadTypes' /\ AppendedTypes'
  BY TypeParts
<1>1. CASE SetToken \/ RemoveToken
  <2>1. UNCHANGED <<logVars, dispVars, postVars, upc, appended>>
    BY <1>1 DEF SetToken, RemoveToken
  <2>2. doSubscribe \/ doUnsubscribe
    BY <1>1 DEF SetToken, RemoveToken
  <2>3. websvcActive' \in BOOLEAN /\ timers' \in Nat /\ toggles' \in Nat
    <3>1. websvcActive' \in BOOLEAN
      BY <1>1 DEF SetToken, RemoveToken
    <3>2. timers' \in Nat /\ toggles' \in Nat
      <4>1. timers \in Nat /\ toggles \in Nat
        BY <1>q DEF PluginTypes
      <4>2. QED BY <1>1, <4>1 DEF SetToken, RemoveToken
    <3>3. QED BY <3>1, <3>2
  <2>4. PluginTypes'
    BY <1>q, <2>2, <2>3, SubscriptionTypes DEF PluginTypes
  <2>5. QED BY <1>q, <2>1, <2>4, TypeFrames
<1>2. CASE (\E k \in LogKinds : RaiseEvent(k)) \/ RaiseRunning \/ RaiseBatch
  <2>1. \E e : Dispatch(e)
    BY <1>2 DEF RaiseEvent, RaiseRunning, RaiseBatch
  <2>2. UNCHANGED <<logVars, postVars, pluginVars, appended>>
    BY <2>1 DEF Dispatch
  <2>3. ThreadTypes'
    BY <1>q, <2>1 DEF ThreadTypes, Dispatch, Jump, UploadPC, UploadThreads
  <2>4. todo' \in SUBSET Nat /\ wasRunning' \in BOOLEAN
    BY <1>q, <1>2, <2>1 DEF DispTypes, PluginTypes, Dispatch, RaiseEvent, RaiseRunning, RaiseBatch
  <2>5. kindOf' \in Seq(LogKinds) /\ Len(kindOf') <= MaxLogged /\ current' \in Nothing .. Batch
    <3>1. Len(kindOf) \in Nat /\ MaxLogged \in Nat
      BY <1>q, LenProperties, UploadAssumption DEF DispTypes
    <3>2. ASSUME NEW k \in LogKinds, RaiseEvent(k)
          PROVE  kindOf' \in Seq(LogKinds) /\ Len(kindOf') <= MaxLogged /\ current' \in Nothing .. Batch
      <4>1. kindOf' \in Seq(LogKinds) /\ Len(kindOf') = Len(kindOf) + 1
        BY <1>q, <3>2, IdsInAppend DEF DispTypes, RaiseEvent
      <4>2. QED BY <3>1, <3>2, <4>1 DEF RaiseEvent, Dispatch, Nothing, Batch
    <3>3. QED BY <1>q, <1>2, <3>1, <3>2 DEF DispTypes, RaiseRunning, RaiseBatch, Dispatch, Nothing, Running, Batch
  <2>6. QED BY <1>q, <2>2, <2>3, <2>4, <2>5, TypeFrames DEF DispTypes
<1>3. CASE EventHandled
  BY <1>q, <1>3, TypeFrames, UploadAssumption
  DEF EventHandled, DispTypes, ThreadTypes, Jump, UploadPC, UploadThreads, Nothing, Batch
<1>4. CASE HandleDisabled \/ HandleRunning \/ HandleBatch \/ append
  <2>1. NextSubscription
    BY <1>4 DEF HandleDisabled, HandleRunning, HandleBatch, append
  <2>2. UNCHANGED postVars /\ DispTypes'
    BY <1>q, <2>1 DEF NextSubscription, DispTypes
  <2>3. ThreadTypes'
    BY <1>q, <1>4 DEF HandleDisabled, HandleRunning, HandleBatch, append, ThreadTypes, Jump,
       UploadPC, UploadThreads
  <2>4. PluginTypes'
    <3>1. CASE HandleDisabled \/ HandleBatch \/ append
      BY <1>q, <3>1, TypeFrames DEF HandleDisabled, HandleBatch, append
    <3>2. CASE HandleRunning
      BY <1>q, <3>2 DEF HandleRunning, PluginTypes
    <3>3. QED BY <1>4, <3>1, <3>2
  <2>5. LogTypes' /\ AppendedTypes'
    <3>1. CASE HandleDisabled \/ HandleRunning \/ HandleBatch
      BY <1>q, <3>1, TypeFrames DEF HandleDisabled, HandleRunning, HandleBatch
    <3>2. CASE append
      <4>1. current \in LogIds /\ UNCHANGED <<m_packet, m_pending_upload, m_upload_run>>
        BY <3>2 DEF append
      <4>2. \/ UNCHANGED <<m_events, m_eventsHighPrio, appended>>
            \/ /\ appended' = [appended EXCEPT ![current] = @ + 1]
               /\ \/ /\ m_eventsHighPrio' = Append(m_eventsHighPrio, current)
                     /\ ~PrioFull /\ UNCHANGED m_events
                  \/ /\ m_events' = Append(m_events, current)
                     /\ ~NormalFull /\ UNCHANGED m_eventsHighPrio
        BY <3>2 DEF append
      <4>3. /\ Append(m_eventsHighPrio, current) \in Seq(LogIds)
            /\ Len(Append(m_eventsHighPrio, current)) = Len(m_eventsHighPrio) + 1
            /\ Append(m_events, current) \in Seq(LogIds)
            /\ Len(Append(m_events, current)) = Len(m_events) + 1
        BY <1>q, <4>1, IdsInAppend DEF LogTypes
      <4>4. Len(m_events) \in Nat /\ Len(m_eventsHighPrio) \in Nat /\ Len(m_packet) \in Nat
        BY <1>q, LenProperties DEF LogTypes
      <4>5. AppendedTypes'
        BY <1>q, <4>1, <4>2 DEF AppendedTypes
      <4>6. LogTypes'
        <5>1. CASE UNCHANGED <<m_events, m_eventsHighPrio>>
          BY <1>q, <4>1, <5>1 DEF LogTypes
        <5>2. CASE m_eventsHighPrio' = Append(m_eventsHighPrio, current) /\ ~PrioFull /\ UNCHANGED m_events
          <6>1. Len(m_eventsHighPrio) + 1 <= MaxPrio
            BY <4>4, <5>2, UploadAssumption DEF PrioFull
          <6>2. QED BY <1>q, <4>1, <4>3, <5>2, <6>1 DEF LogTypes
        <5>3. CASE m_events' = Append(m_events, current) /\ ~NormalFull /\ UNCHANGED m_eventsHighPrio
          <6>1. Len(m_events) + 1 <= MaxElements
            BY <4>4, <5>3, UploadAssumption DEF NormalFull
          <6>2. QED BY <1>q, <4>1, <4>3, <5>3, <6>1 DEF LogTypes
        <5>4. QED BY <4>2, <5>1, <5>2, <5>3
      <4>7. QED BY <4>5, <4>6
    <3>3. QED BY <1>4, <3>1, <3>2
  <2>6. QED BY <1>q, <2>2, <2>3, <2>4, <2>5, TypeFrames
<1>5. CASE triggerUpload
  BY <1>q, <1>5, TypeFrames
  DEF triggerUpload, LogTypes, ThreadTypes, Jump, Return, UploadPC, UploadThreads
<1>6. ASSUME NEW t \in UploadThreads, send_packet(t)
      PROVE  LogTypes' /\ DispTypes' /\ PostTypes' /\ PluginTypes' /\ ThreadTypes' /\ AppendedTypes'
  <2>1. ThreadTypes'
    BY <1>q, <1>6 DEF send_packet, ThreadTypes, Jump, Return, UploadPC, UploadThreads
  <2>2. QED BY <1>q, <1>6, <2>1, SendFacts, TypeFrames DEF send_packet
<1>7. ASSUME NEW t \in UploadThreads, upload(t)
      PROVE  LogTypes' /\ DispTypes' /\ PostTypes' /\ PluginTypes' /\ ThreadTypes' /\ AppendedTypes'
  <2>1. ThreadTypes'
    BY <1>q, <1>7 DEF upload, ThreadTypes, Jump, Return, UploadPC, UploadThreads
  <2>2. Body \in SUBSET LogIds
    BY <1>q, LenProperties, ElementOfSeq DEF Body, IdsIn, LogTypes
  <2>3. PostTypes'
    BY <1>q, <1>7, <2>2, IdsInAppend DEF upload, PostTypes
  <2>4. QED BY <1>q, <1>7, <2>1, <2>3, TypeFrames DEF upload
<1>8. ASSUME NEW t \in UploadThreads, UploadFailed(t)
      PROVE  LogTypes' /\ DispTypes' /\ PostTypes' /\ PluginTypes' /\ ThreadTypes' /\ AppendedTypes'
  BY <1>q, <1>8, TypeFrames
  DEF UploadFailed, LogTypes, ThreadTypes, Jump, Return, UploadPC, UploadThreads
<1>9. CASE TakeTask
  <2>1. PostTypes'
    BY <1>q, <1>9, HeadTailProperties DEF TakeTask, PostTypes
  <2>2. ThreadTypes'
    BY <1>q, <1>9 DEF TakeTask, ThreadTypes, Jump, UploadPC, UploadThreads
  <2>3. QED BY <1>q, <1>9, <2>1, <2>2, TypeFrames DEF TakeTask
<1>10. CASE Answered \/ NetworkError
  <2>1. PostTypes'
    BY <1>q, <1>10 DEF Answered, NetworkError, PostTypes
  <2>2. ThreadTypes' /\ LogTypes'
    BY <1>q, <1>10 DEF Answered, NetworkError, ThreadTypes, LogTypes, logVars, Jump, UploadPC, UploadThreads
  <2>3. QED BY <1>q, <1>10, <2>1, <2>2, TypeFrames DEF Answered, NetworkError
<1>11. CASE UNCHANGED uploadVars
  BY <1>q, <1>11, TypeFrames DEF uploadVars
<1>12. QED
  BY <1>1, <1>2, <1>3, <1>4, <1>5, <1>6, <1>7, <1>8, <1>9, <1>10, <1>11 DEF UploadNext

(***************************************************************************)
(* The right to send                                                       *)
(***************************************************************************)

(* Posting, for the two threads *)
LEMMA PostingOf ==
  /\ (\E t \in UploadThreads : Posting(t)) <=> Posting("interp") \/ Posting("task")
  /\ (\A t \in UploadThreads : ~Posting(t)) <=> ~Posting("interp") /\ ~Posting("task")
  /\ (\E t \in UploadThreads : Posting(t))' <=> Posting("interp")' \/ Posting("task")'
  /\ (\A t \in UploadThreads : ~Posting(t))' <=> ~Posting("interp")' /\ ~Posting("task")'
BY DEF UploadThreads

(* OneUpload, as the steps read it *)
OneSender ==
  /\ m_pending_upload <=> tasks # <<>> \/ Posting("interp") \/ Posting("task")
  /\ ~(Posting("interp") /\ Posting("task"))
  /\ tasks # <<>> => Len(tasks) = 1 /\ ~Posting("interp") /\ ~Posting("task")

(* OneUpload is OneSender. *)
LEMMA OneSenderIs == (OneUpload <=> OneSender) /\ (OneUpload' <=> OneSender')
BY PostingOf DEF OneUpload, OneSender

(* Every step keeps m_pending_upload the right of at most one sender. *)
LEMMA SenderStep ==
  ASSUME UploadTypeOK, IsFiniteSet(subscriptions), OneUpload, [UploadNext]_uploadVars
  PROVE  OneUpload'
<1>q. ThreadTypes /\ PostTypes /\ LogTypes
  BY TypeParts
<1>o. OneSender
  BY OneSenderIs
<1>s. SUFFICES OneSender'
  BY OneSenderIs
<1>f. ASSUME UNCHANGED <<m_pending_upload, tasks>>,
             Posting("interp")' <=> Posting("interp"), Posting("task")' <=> Posting("task")
      PROVE  OneSender'
  BY <1>o, <1>f DEF OneSender
<1>1. CASE SetToken \/ RemoveToken \/ HandleDisabled \/ HandleRunning \/ UNCHANGED uploadVars
  <2>1. UNCHANGED <<m_pending_upload, tasks, upc>>
    BY <1>1 DEF SetToken, RemoveToken, HandleDisabled, HandleRunning, NextSubscription, uploadVars,
       logVars, postVars
  <2>2. QED BY <1>f, <2>1 DEF Posting
<1>2. CASE (\E k \in LogKinds : RaiseEvent(k)) \/ RaiseRunning \/ RaiseBatch
  <2>1. \E e : Dispatch(e)
    BY <1>2 DEF RaiseEvent, RaiseRunning, RaiseBatch
  <2>2. /\ UNCHANGED <<m_pending_upload, tasks>> /\ upc["interp"] = "idle"
        /\ upc' = [upc EXCEPT !["interp"] = "handle"]
    BY <2>1 DEF Dispatch, Jump, At, logVars, postVars
  <2>3. QED BY <1>q, <1>f, <2>2 DEF Posting, ThreadTypes, UploadThreads
<1>3. CASE EventHandled \/ HandleBatch \/ append
  <2>1. UNCHANGED <<m_pending_upload, tasks>> /\ upc["interp"] = "handle"
    BY <1>3 DEF EventHandled, HandleBatch, append, NextSubscription, logVars, postVars, At
  <2>2. \/ UNCHANGED upc
        \/ \E l \in {"idle", "trigger"} : upc' = [upc EXCEPT !["interp"] = l]
    BY <1>3 DEF EventHandled, HandleBatch, append, Jump
  <2>3. QED BY <1>q, <1>f, <2>1, <2>2 DEF Posting, ThreadTypes, UploadThreads
<1>4. CASE triggerUpload
  <2>1. /\ UNCHANGED tasks /\ upc["interp"] = "trigger"
        /\ \/ UNCHANGED m_pending_upload /\ upc' = [upc EXCEPT !["interp"] = "handle"]
           \/ /\ ~m_pending_upload /\ m_pending_upload' = TRUE
              /\ upc' = [upc EXCEPT !["interp"] = "send"]
    BY <1>4 DEF triggerUpload, At, Return, Jump, postVars
  <2>2. CASE UNCHANGED m_pending_upload /\ upc' = [upc EXCEPT !["interp"] = "handle"]
    BY <1>q, <1>f, <2>1, <2>2 DEF Posting, ThreadTypes, UploadThreads
  <2>3. CASE /\ ~m_pending_upload /\ m_pending_upload' = TRUE
             /\ upc' = [upc EXCEPT !["interp"] = "send"]
    BY <1>q, <1>o, <2>1, <2>3 DEF OneSender, Posting, ThreadTypes, UploadThreads
  <2>4. QED BY <2>1, <2>2, <2>3
<1>5. ASSUME NEW t \in UploadThreads, send_packet(t) \/ UploadFailed(t) PROVE OneSender'
  <2>1. /\ UNCHANGED tasks /\ upc[t] \in {"send", "failed"}
        /\ \/ /\ m_pending_upload' = FALSE
              /\ upc' = [upc EXCEPT ![t] = IF t = "interp" THEN "handle" ELSE "idle"]
           \/ UNCHANGED m_pending_upload /\ upc' = [upc EXCEPT ![t] = "upload"]
    BY <1>5 DEF send_packet, UploadFailed, At, Return, Jump, postVars
  <2>2. CASE t = "interp"
    BY <1>q, <1>o, <2>1, <2>2 DEF OneSender, Posting, ThreadTypes, UploadThreads
  <2>3. CASE t = "task"
    BY <1>q, <1>o, <2>1, <2>3 DEF OneSender, Posting, ThreadTypes, UploadThreads
  <2>4. QED BY <2>2, <2>3 DEF UploadThreads
<1>6. ASSUME NEW t \in UploadThreads, upload(t) PROVE OneSender'
  <2>1. /\ UNCHANGED m_pending_upload /\ upc[t] = "upload"
        /\ \/ UNCHANGED tasks /\ upc' = [upc EXCEPT ![t] = "failed"]
           \/ /\ tasks' = Append(tasks, Body)
              /\ upc' = [upc EXCEPT ![t] = IF t = "interp" THEN "handle" ELSE "idle"]
    BY <1>6 DEF upload, At, Return, Jump, logVars
  <2>2. Posting(t) /\ tasks = <<>> /\ (Posting("interp") <=> t = "interp")
    BY <1>o, <2>1 DEF OneSender, Posting, UploadThreads
  <2>3. Append(tasks, Body) # <<>> /\ Len(Append(tasks, Body)) = 1
    BY <2>2
  <2>4. CASE t = "interp"
    BY <1>q, <1>o, <2>1, <2>2, <2>3, <2>4 DEF OneSender, Posting, ThreadTypes, UploadThreads
  <2>5. CASE t = "task"
    BY <1>q, <1>o, <2>1, <2>2, <2>3, <2>5 DEF OneSender, Posting, ThreadTypes, UploadThreads
  <2>6. QED BY <2>4, <2>5 DEF UploadThreads
<1>7. CASE TakeTask
  <2>1. /\ UNCHANGED m_pending_upload /\ tasks # <<>> /\ tasks' = Tail(tasks)
        /\ upc' = [upc EXCEPT !["task"] = "request"]
    BY <1>7 DEF TakeTask, Jump, logVars
  <2>2. tasks' = <<>>
    <3>1. Len(tasks) = 1
      BY <1>o, <2>1 DEF OneSender
    <3>2. Tail(tasks) \in Seq(SUBSET LogIds) /\ Len(Tail(tasks)) = 0
      BY <1>q, <2>1, <3>1, HeadTailProperties DEF PostTypes
    <3>3. QED BY <2>1, <3>2, EmptySeq
  <2>3. QED BY <1>q, <1>o, <2>1, <2>2 DEF OneSender, Posting, ThreadTypes, UploadThreads
<1>8. CASE Answered \/ NetworkError
  <2>1. /\ UNCHANGED tasks /\ upc["task"] = "request"
        /\ \/ UNCHANGED m_pending_upload /\ upc' = [upc EXCEPT !["task"] = "send"]
           \/ m_pending_upload' = FALSE /\ upc' = [upc EXCEPT !["task"] = "idle"]
    BY <1>8 DEF Answered, NetworkError, At, Jump, logVars
  <2>2. QED BY <1>q, <1>o, <2>1 DEF OneSender, Posting, ThreadTypes, UploadThreads
<1>9. QED BY <1>1, <1>2, <1>3, <1>4, <1>5, <1>6, <1>7, <1>8 DEF UploadNext

(***************************************************************************)
(* No event is lost                                                        *)
(***************************************************************************)

(* who changes the log, and the events that are known *)
LEMMA LogFrame ==
  ASSUME UploadTypeOK, [UploadNext]_uploadVars
  PROVE  /\ append \/ (\E t \in UploadThreads : send_packet(t))
              \/ UNCHANGED <<m_events, m_eventsHighPrio, m_packet>>
         /\ append \/ UNCHANGED appended
         /\ (\E k \in LogKinds : RaiseEvent(k)) \/ UNCHANGED kindOf
         /\ answered \subseteq answered'
<1>1. CASE SetToken \/ RemoveToken \/ UNCHANGED uploadVars
  BY <1>1 DEF SetToken, RemoveToken, uploadVars, logVars, dispVars, postVars
<1>2. CASE (\E k \in LogKinds : RaiseEvent(k)) \/ RaiseRunning \/ RaiseBatch
  BY <1>2 DEF RaiseEvent, RaiseRunning, RaiseBatch, Dispatch, logVars, postVars
<1>3. CASE EventHandled \/ HandleDisabled \/ HandleRunning \/ HandleBatch \/ append
  BY <1>3 DEF EventHandled, HandleDisabled, HandleRunning, HandleBatch, append, NextSubscription,
     logVars, postVars
<1>4. CASE triggerUpload \/ TakeTask \/ Answered \/ NetworkError
  BY <1>4 DEF triggerUpload, TakeTask, Answered, NetworkError, logVars, dispVars, postVars
<1>5. ASSUME NEW t \in UploadThreads, send_packet(t) \/ upload(t) \/ UploadFailed(t)
      PROVE  /\ send_packet(t) \/ UNCHANGED <<m_events, m_eventsHighPrio, m_packet>>
             /\ UNCHANGED <<appended, kindOf, answered>>
  BY <1>5 DEF send_packet, upload, UploadFailed, logVars, dispVars, postVars
<1>6. QED BY <1>1, <1>2, <1>3, <1>4, <1>5 DEF UploadNext

InTheLog == IdsIn(m_events) \cup IdsIn(m_eventsHighPrio) \cup IdsIn(m_packet)

(* append puts the event that is handled into the log, or does nothing. *)
LEMMA AppendFactsOf ==
  ASSUME UploadTypeOK, IsFiniteSet(subscriptions), append
  PROVE  /\ UNCHANGED m_packet /\ current \in LogIds
         /\ \/ InTheLog' = InTheLog /\ UNCHANGED appended
            \/ InTheLog' = InTheLog \cup {current} /\ appended' = [appended EXCEPT ![current] = @ + 1]
<1>q. LogTypes
  BY TypeParts
<1>1. current \in LogIds /\ UNCHANGED m_packet
  BY DEF append
<1>2. \/ UNCHANGED <<m_events, m_eventsHighPrio, appended>>
      \/ /\ appended' = [appended EXCEPT ![current] = @ + 1]
         /\ \/ m_eventsHighPrio' = Append(m_eventsHighPrio, current) /\ UNCHANGED m_events
            \/ m_events' = Append(m_events, current) /\ UNCHANGED m_eventsHighPrio
  BY DEF append
<1>3. /\ IdsIn(Append(m_eventsHighPrio, current)) = IdsIn(m_eventsHighPrio) \cup {current}
      /\ IdsIn(Append(m_events, current)) = IdsIn(m_events) \cup {current}
  BY <1>q, <1>1, IdsInAppend DEF LogTypes
<1>4. QED BY <1>1, <1>2, <1>3 DEF InTheLog

(* send_packet keeps the events of the log, but those of a packet that was *)
(* answered.                                                               *)
LEMMA SendKeeps ==
  ASSUME UploadTypeOK, IsFiniteSet(subscriptions), NEW t \in UploadThreads, send_packet(t)
  PROVE  /\ InTheLog' \subseteq InTheLog
         /\ \A e \in InTheLog : e \in InTheLog' \/ (t = "task" /\ e \in IdsIn(m_packet))
<1>q. LogTypes
  BY TypeParts
<1>1. InTheLog' = IdsIn(m_events) \cup IdsIn(m_eventsHighPrio) \cup IdsIn(PacketOf(t))
  BY <1>q, SendFacts DEF InTheLog
<1>2. IdsIn(PacketOf(t)) = IF t = "task" THEN {} ELSE IdsIn(m_packet)
  BY DEF PacketOf, Followup, IdsIn
<1>3. QED BY <1>1, <1>2 DEF InTheLog

(* What is in the log is known, after every step. *)
LEMMA KnownStep ==
  ASSUME UploadTypeOK, IsFiniteSet(subscriptions), Known, [UploadNext]_uploadVars
  PROVE  /\ Known'
         /\ \A e \in DOMAIN kindOf : e \in DOMAIN kindOf' /\ kindOf'[e] = kindOf[e]
<1>q. DispTypes /\ AppendedTypes
  BY TypeParts
<1>l. Len(kindOf) \in Nat /\ DOMAIN kindOf = 1 .. Len(kindOf)
  BY <1>q, LenProperties DEF DispTypes
<1>1. \A e \in DOMAIN kindOf : e \in DOMAIN kindOf' /\ kindOf'[e] = kindOf[e]
  <2>1. ASSUME NEW k \in LogKinds, RaiseEvent(k)
        PROVE  \A e \in DOMAIN kindOf : e \in DOMAIN kindOf' /\ kindOf'[e] = kindOf[e]
    <3>1. /\ DOMAIN kindOf' = 1 .. Len(kindOf) + 1
          /\ \A e \in 1 .. Len(kindOf) : kindOf'[e] = kindOf[e]
      BY <1>q, <2>1, AppendProperties, LenProperties DEF DispTypes, RaiseEvent
    <3>2. QED BY <1>l, <3>1
  <2>2. QED BY <2>1, LogFrame
<1>2. InTheLog' \subseteq InTheLog \cup {current} /\ (InTheLog' \subseteq InTheLog \/ current \in LogIds)
  <2>1. CASE append
    BY <2>1, AppendFactsOf
  <2>2. CASE \E t \in UploadThreads : send_packet(t)
    BY <2>2, SendKeeps
  <2>3. CASE UNCHANGED <<m_events, m_eventsHighPrio, m_packet>>
    BY <2>3 DEF InTheLog
  <2>4. QED BY <2>1, <2>2, <2>3, LogFrame
<1>3. InTheLog' \subseteq DOMAIN kindOf'
  BY <1>1, <1>2 DEF Known, InTheLog
<1>4. ASSUME NEW e \in LogIds, appended'[e] > 0 PROVE e \in DOMAIN kindOf'
  <2>1. CASE append
    <3>1. CASE e = current
      BY <1>1, <3>1 DEF Known
    <3>2. CASE e # current
      <4>1. appended'[e] = appended[e]
        BY <1>q, <2>1, <3>2, AppendFactsOf DEF AppendedTypes
      <4>2. QED BY <1>1, <1>4, <4>1 DEF Known
    <3>3. QED BY <3>1, <3>2
  <2>2. CASE UNCHANGED appended
    BY <1>1, <1>4, <2>2 DEF Known
  <2>3. QED BY <2>1, <2>2, LogFrame
<1>5. current' \in LogIds => current' \in DOMAIN kindOf'
  <2>1. CASE UNCHANGED <<current, kindOf>>
    BY <2>1 DEF Known
  <2>2. ASSUME NEW k \in LogKinds, RaiseEvent(k) PROVE current' \in DOMAIN kindOf'
    <3>1. DOMAIN kindOf' = 1 .. Len(kindOf) + 1 /\ current' = Len(kindOf) + 1
      BY <1>q, <2>2, AppendProperties, LenProperties DEF DispTypes, RaiseEvent, Dispatch
    <3>2. QED BY <1>l, <3>1
  <2>3. CASE RaiseRunning \/ RaiseBatch \/ EventHandled
    <3>1. current' \in {Running, Batch, Nothing}
      BY <2>3 DEF RaiseRunning, RaiseBatch, EventHandled, Dispatch
    <3>2. Running \notin LogIds /\ Batch \notin LogIds /\ Nothing \notin LogIds
      BY UploadAssumption DEF Running, Batch, Nothing, LogIds
    <3>3. QED BY <3>1, <3>2
  <2>4. ASSUME NEW t \in UploadThreads, send_packet(t) \/ upload(t) \/ UploadFailed(t)
        PROVE  UNCHANGED <<current, kindOf>>
    BY <2>4 DEF send_packet, upload, UploadFailed, dispVars
  <2>5. CASE \/ SetToken \/ RemoveToken \/ HandleDisabled \/ HandleRunning \/ HandleBatch \/ append
             \/ triggerUpload \/ TakeTask \/ Answered \/ NetworkError \/ UNCHANGED uploadVars
    <3>1. UNCHANGED <<current, kindOf>>
      BY <2>5 DEF SetToken, RemoveToken, HandleDisabled, HandleRunning, HandleBatch, append,
         NextSubscription, triggerUpload, TakeTask, Answered, NetworkError, uploadVars, dispVars
    <3>2. QED BY <2>1, <3>1
  <2>6. QED BY <2>1, <2>2, <2>3, <2>4, <2>5 DEF UploadNext
<1>6. QED BY <1>1, <1>3, <1>4, <1>5 DEF Known, InTheLog

(* A packet that is not sent anew keeps its content that can be converted. *)
LEMMA BodyFrame ==
  ASSUME UploadTypeOK, IsFiniteSet(subscriptions), Known, [UploadNext]_uploadVars, UNCHANGED m_packet
  PROVE  Body' = Body
<1>1. \A e \in IdsIn(m_packet) : kindOf'[e] = kindOf[e]
  BY KnownStep DEF Known
<1>2. QED BY <1>1 DEF Body, IdsIn, Converts

(* Every step keeps the request and the answer those of the packet. *)
LEMMA PacketStep ==
  ASSUME UploadTypeOK, IsFiniteSet(subscriptions), OneUpload, Known, PacketIsSent,
         [UploadNext]_uploadVars
  PROVE  PacketIsSent'
<1>q. ThreadTypes /\ PostTypes
  BY TypeParts
<1>o. OneSender
  BY OneSenderIs
<1>f. ASSUME UNCHANGED m_packet, UNCHANGED <<tasks, request, answered>>,
             upc'["task"] \notin {"request", "send"} \/ upc'["task"] = upc["task"]
      PROVE  PacketIsSent'
  <2>1. Body' = Body
    BY <1>f, BodyFrame
  <2>2. QED BY <1>f, <2>1 DEF PacketIsSent, At
<1>1. CASE SetToken \/ RemoveToken \/ HandleDisabled \/ HandleRunning \/ UNCHANGED uploadVars
  <2>1. UNCHANGED <<m_packet, tasks, request, answered, upc>>
    BY <1>1 DEF SetToken, RemoveToken, HandleDisabled, HandleRunning, NextSubscription, uploadVars,
       logVars, postVars
  <2>2. QED BY <1>f, <2>1
<1>2. CASE (\E k \in LogKinds : RaiseEvent(k)) \/ RaiseRunning \/ RaiseBatch
  <2>1. \E e : Dispatch(e)
    BY <1>2 DEF RaiseEvent, RaiseRunning, RaiseBatch
  <2>2. /\ UNCHANGED <<m_packet, tasks, request, answered>>
        /\ upc' = [upc EXCEPT !["interp"] = "handle"]
    BY <2>1 DEF Dispatch, Jump, logVars, postVars
  <2>3. upc'["task"] = upc["task"]
    BY <1>q, <2>2 DEF ThreadTypes, UploadThreads
  <2>4. QED BY <1>f, <2>2, <2>3
<1>3. CASE EventHandled \/ HandleBatch \/ append \/ triggerUpload
  <2>1. UNCHANGED <<m_packet, tasks, request, answered>>
    BY <1>3 DEF EventHandled, HandleBatch, append, NextSubscription, triggerUpload, logVars, postVars
  <2>2. UNCHANGED upc \/ \E l : upc' = [upc EXCEPT !["interp"] = l]
    BY <1>3 DEF EventHandled, HandleBatch, append, triggerUpload, Return, Jump
  <2>3. upc'["task"] = upc["task"]
    BY <1>q, <2>2 DEF ThreadTypes, UploadThreads
  <2>4. QED BY <1>f, <2>1, <2>3
<1>4. ASSUME NEW t \in UploadThreads, UploadFailed(t) PROVE PacketIsSent'
  <2>1. /\ UNCHANGED <<m_packet, tasks, request, answered>>
        /\ upc' = [upc EXCEPT ![t] = IF t = "interp" THEN "handle" ELSE "idle"]
    BY <1>4 DEF UploadFailed, Return, Jump, postVars
  <2>2. upc'["task"] \notin {"request", "send"} \/ upc'["task"] = upc["task"]
    BY <1>q, <2>1 DEF ThreadTypes, UploadThreads
  <2>3. QED BY <1>f, <2>1, <2>2
<1>5. ASSUME NEW t \in UploadThreads, send_packet(t) PROVE PacketIsSent'
  <2>1. /\ UNCHANGED tasks /\ upc[t] = "send"
        /\ \E l \in {"handle", "idle", "upload"} : upc' = [upc EXCEPT ![t] = l]
    BY <1>5 DEF send_packet, At, Return, Jump, postVars
  <2>2. tasks = <<>> /\ (t = "interp" => ~Posting("task"))
    BY <1>o, <2>1 DEF OneSender, Posting, UploadThreads
  <2>3. upc'["task"] \notin {"request", "send"}
    BY <1>q, <2>1, <2>2 DEF ThreadTypes, UploadThreads, Posting
  <2>4. QED BY <2>1, <2>2, <2>3 DEF PacketIsSent, At
<1>6. ASSUME NEW t \in UploadThreads, upload(t) PROVE PacketIsSent'
  <2>1. /\ UNCHANGED m_packet /\ upc[t] = "upload" /\ UNCHANGED <<request, answered>>
        /\ tasks' \in {tasks, Append(tasks, Body)}
        /\ \E l \in {"handle", "idle", "failed"} : upc' = [upc EXCEPT ![t] = l]
    BY <1>6 DEF upload, At, Return, Jump, logVars
  <2>2. tasks = <<>> /\ (t = "interp" => ~Posting("task"))
    BY <1>o, <2>1 DEF OneSender, Posting, UploadThreads
  <2>3. upc'["task"] \notin {"request", "send"}
    BY <1>q, <2>1, <2>2 DEF ThreadTypes, UploadThreads, Posting
  <2>4. Append(tasks, Body)[1] = Body
    BY <2>2
  <2>5. Body' = Body
    BY <2>1, BodyFrame
  <2>6. QED BY <2>1, <2>2, <2>3, <2>4, <2>5 DEF PacketIsSent, At
<1>7. CASE TakeTask
  <2>1. /\ UNCHANGED m_packet /\ tasks # <<>> /\ request' = tasks[1] /\ tasks' = Tail(tasks)
        /\ upc' = [upc EXCEPT !["task"] = "request"]
    BY <1>7 DEF TakeTask, Jump, logVars
  <2>2. tasks' = <<>>
    <3>1. Len(tasks) = 1
      BY <1>o, <2>1 DEF OneSender
    <3>2. Tail(tasks) \in Seq(SUBSET LogIds) /\ Len(Tail(tasks)) = 0
      BY <1>q, <2>1, <3>1, HeadTailProperties DEF PostTypes
    <3>3. QED BY <2>1, <3>2, EmptySeq
  <2>3. Body' = Body
    BY <2>1, BodyFrame
  <2>4. QED BY <1>q, <2>1, <2>2, <2>3 DEF PacketIsSent, At, ThreadTypes, UploadThreads
<1>8. CASE Answered
  <2>1. /\ UNCHANGED <<m_packet, tasks>> /\ answered' = answered \cup request /\ upc["task"] = "request"
        /\ upc' = [upc EXCEPT !["task"] = "send"]
    BY <1>8 DEF Answered, At, Jump, logVars
  <2>2. Body' = Body
    BY <2>1, BodyFrame
  <2>3. QED BY <1>q, <2>1, <2>2 DEF PacketIsSent, At, ThreadTypes, UploadThreads
<1>9. CASE NetworkError
  <2>1. UNCHANGED <<m_packet, tasks>> /\ upc' = [upc EXCEPT !["task"] = "idle"]
    BY <1>9 DEF NetworkError, Jump
  <2>2. Body' = Body
    BY <2>1, BodyFrame
  <2>3. QED BY <1>q, <2>1, <2>2 DEF PacketIsSent, At, ThreadTypes, UploadThreads
<1>10. QED
  BY <1>1, <1>2, <1>3, <1>4, <1>5, <1>6, <1>7, <1>8, <1>9 DEF UploadNext

(* InLog is membership in InTheLog. *)
LEMMA InLogIs == \A e : (InLog(e) <=> e \in InTheLog) /\ (InLog(e)' <=> e \in InTheLog')
BY DEF InLog, InTheLog

(* No step loses an event. *)
LEMMA LostStep ==
  ASSUME UploadTypeOK, IsFiniteSet(subscriptions), Known, PacketIsSent, NoEventLost,
         [UploadNext]_uploadVars
  PROVE  NoEventLost'
<1>q. AppendedTypes
  BY TypeParts
<1> SUFFICES ASSUME NEW e \in LogIds, appended'[e] > 0, Converts(e)'
             PROVE  e \in InTheLog' \/ e \in answered'
  BY InLogIs DEF NoEventLost
<1>1. CASE appended[e] > 0
  <2>1. Converts(e)
    BY <1>1, KnownStep DEF Known, Converts
  <2>2. CASE e \in answered
    BY <2>2, LogFrame
  <2>3. CASE e \in InTheLog
    <3>1. ASSUME NEW t \in UploadThreads, send_packet(t) PROVE e \in InTheLog' \/ e \in answered'
      <4>1. CASE t = "task" /\ e \in IdsIn(m_packet)
        <5>1. e \in Body /\ At("task", "send")
          BY <2>1, <3>1, <4>1 DEF Body, send_packet
        <5>2. QED BY <5>1, LogFrame DEF PacketIsSent
      <4>2. CASE ~(t = "task" /\ e \in IdsIn(m_packet))
        BY <2>3, <3>1, <4>2, SendKeeps
      <4>3. QED BY <4>1, <4>2
    <3>2. CASE append
      BY <2>3, <3>2, AppendFactsOf
    <3>3. CASE UNCHANGED <<m_events, m_eventsHighPrio, m_packet>>
      BY <2>3, <3>3 DEF InTheLog
    <3>4. QED BY <3>1, <3>2, <3>3, LogFrame
  <2>4. QED BY <1>1, <2>1, <2>2, <2>3, InLogIs DEF NoEventLost
<1>2. CASE ~(appended[e] > 0)
  <2>1. append /\ appended' # appended
    BY <1>2, LogFrame
  <2>2. InTheLog' = InTheLog \cup {current} /\ appended' = [appended EXCEPT ![current] = @ + 1]
    BY <2>1, AppendFactsOf
  <2>3. e = current
    BY <1>q, <1>2, <2>2 DEF AppendedTypes
  <2>4. QED BY <2>2, <2>3
<1>3. QED BY <1>1, <1>2

(***************************************************************************)
(* The theorems                                                            *)
(***************************************************************************)

(* SensorUpload starts in the invariant. *)
LEMMA InitUploadInv == UploadInit => UploadInv
<1> SUFFICES ASSUME UploadInit PROVE UploadInv
  OBVIOUS
<1>1. UploadTypeOK /\ IsFiniteSet(subscriptions)
  <2>1. /\ \A S : <<>> \in Seq(S)
        /\ Len(<<>>) = 0 /\ 0 \in 0 .. MaxPost - 1 /\ 0 \in 0 .. MaxLogged + 2
        /\ 0 <= MaxElements /\ 0 <= MaxPrio /\ 0 <= MaxPost /\ 0 <= MaxLogged
    BY EmptySeq, UploadAssumption
  <2>2. LogTypes /\ AppendedTypes
    <3>1. LogTypes
      BY <2>1 DEF UploadInit, LogTypes
    <3>2. AppendedTypes
      BY DEF UploadInit, AppendedTypes
    <3>3. QED BY <3>1, <3>2
  <2>3. DispTypes /\ ThreadTypes /\ PostTypes /\ PluginTypes
    <3>1. DispTypes
      BY <2>1 DEF UploadInit, DispTypes, Nothing, Batch
    <3>2. ThreadTypes
      BY DEF UploadInit, ThreadTypes, UploadThreads, UploadPC
    <3>3. PostTypes
      BY <2>1 DEF UploadInit, PostTypes
    <3>4. PluginTypes
      BY FS_EmptySet DEF UploadInit, PluginTypes
    <3>5. QED BY <3>1, <3>2, <3>3, <3>4
  <2>4. QED BY <2>2, <2>3, TypeParts
<1>2. OneUpload
  BY DEF UploadInit, OneUpload, Posting, UploadThreads
<1>3. Known
  BY UploadAssumption DEF UploadInit, Known, IdsIn, Nothing, LogIds
<1>4. PacketIsSent
  BY DEF UploadInit, PacketIsSent, At, UploadThreads
<1>5. NoEventLost
  BY DEF UploadInit, NoEventLost
<1>6. QED BY <1>1, <1>2, <1>3, <1>4, <1>5 DEF UploadInv

(* Every step of SensorUpload keeps the invariant. *)
LEMMA NextUploadInv == UploadInv /\ [UploadNext]_uploadVars => UploadInv'
BY TypeStep, SenderStep, KnownStep, PacketStep, LostStep DEF UploadInv

(* The inductive invariant holds in every order of the steps of the event  *)
(* interpreter, the task thread and the thread that sets the token.        *)
THEOREM Invariance == UploadSpec => []UploadInv
<1>1. QED BY InitUploadInv, NextUploadInv, PTL DEF UploadSpec

(* Every variable keeps its type; the queues and the packet never exceed   *)
(* max_elements, max_prio_elements and max_post_events.                    *)
THEOREM TypeCorrect == UploadSpec => []UploadTypeOK
<1>1. UploadInv => UploadTypeOK
  BY DEF UploadInv
<1>2. QED BY <1>1, Invariance, PTL

(* m_pending_upload is the right to send of exactly one thread or request. *)
THEOREM OneUploadAtATime == UploadSpec => []OneUpload
<1>1. UploadInv => OneUpload
  BY DEF UploadInv
<1>2. QED BY <1>1, Invariance, PTL

(* An event that append has taken and that can be converted is in the log  *)
(* or in a request that was answered.                                      *)
THEOREM EventsAreKept == UploadSpec => []NoEventLost
<1>1. UploadInv => NoEventLost
  BY DEF UploadInv
<1>2. QED BY <1>1, Invariance, PTL

-----------------------------------------------------------------------------
(* Triggers                                                                *)

(* a thread works on a match of the trigger *)
Busy(th, t) == tidx[th] = t /\ tpc[th] \notin {"idle", "check"}
AtStep(t, steps) == \E th \in TrigThreads : Busy(th, t) /\ tpc[th] \in steps

TrigShapeOK ==
  /\ setup \in Setups /\ trigNow \in 0 .. MaxTrigTime /\ raised \in 0 .. setup.max
  /\ eventsQueued \in Seq(setup.events)
  /\ tasksQueued \in Seq({e \in setup.events : e.name = Highlevel})
  /\ tpc \in [TrigThreads -> TrigSteps] /\ tidx \in [TrigThreads -> TrigIds]
  /\ tev \in [TrigThreads -> setup.events \cup {NoEvent}]
  /\ tlast \in [TrigThreads -> Int] /\ matchedAt \in [TrigThreads -> Int]
  /\ \A th \in TrigThreads : tpc[th] = "saveId" => tlast[th] \in 0 .. nextID - 1
  /\ lastTrigger \in [TrigIds -> Times] /\ scheduledAt \in [TrigIds -> Times]
  /\ nextID \in Nat /\ eventid \in [TrigIds -> 0 .. nextID - 1 \cup {Missing}]
  /\ scheduled \subseteq [id : 0 .. nextID - 1, trigger : TrigIds, due : Int]
  /\ \A s, r \in scheduled : s.id = r.id => s = r
  /\ acted \in [TrigIds -> Int] /\ relayedAt \in [TrigIds -> Int]
  /\ passedAt \in [TrigIds -> Int] /\ settledAt \in [TrigIds -> Int]

(* High-level events are for the other thread *)
EventsOK ==
  /\ \A th \in TrigThreads : tpc[th] # "idle" =>
       tev[th] \in setup.events /\ (tev[th].name = Highlevel <=> th = "task")
  /\ \A th \in TrigThreads, t \in TrigIds : Busy(th, t) => checkTrigger(t, tev[th])

PastOK ==
  /\ \A t \in TrigIds : /\ acted[t] <= trigNow /\ scheduledAt[t] <= trigNow
                        /\ lastTrigger[t] <= trigNow
                        /\ Never <= passedAt[t] /\ passedAt[t] <= trigNow
                        /\ settledAt[t] <= trigNow
  /\ \A th \in TrigThreads : matchedAt[th] <= trigNow

-----------------------------------------------------------------------------
(* Types                                                                   *)

(* The triggers stay; there is one at least. *)
LEMMA TriggersStay ==
  ASSUME setup \in Setups
  PROVE  /\ TrigIds = 1 .. Len(setup.triggers) /\ 1 \in TrigIds /\ Len(setup.triggers) \in Nat
         /\ \A t \in TrigIds : Trig(t).delay \in Int /\ Trig(t).interval \in Int
         /\ setup.max \in Nat
BY TriggersAssumption DEF TrigIds, Trig

(* The steps of a thread keep the setup and what is queued. *)
LEMMA SetupKept ==
  ASSUME TrigShapeOK, NEW th \in TrigThreads, TriggerStep(th)
  PROVE  UNCHANGED inputVars
BY DEF TriggerStep, CheckTrigger, rescheduleAction, RemoveEvent, StampEvent, damping,
       dampInterval, relayTrigger, SaveId, SaveTs, inputVars

(* The next trigger is one of them, and the thread has nothing to do with it yet. *)
LEMMA ContinueShape ==
  ASSUME TrigShapeOK, NEW th \in TrigThreads, Continue(th) \/ Leave(th)
  PROVE  /\ tpc' \in [TrigThreads -> TrigSteps] /\ tidx' \in [TrigThreads -> TrigIds]
         /\ tev' \in [TrigThreads -> setup.events \cup {NoEvent}]
         /\ tpc'[th] \in {"idle", "check"}
         /\ tpc'[th] = "check" => tev' = tev
         /\ \A h \in TrigThreads \ {th} : tpc'[h] = tpc[h] /\ tidx'[h] = tidx[h] /\ tev'[h] = tev[h]
<1>1. /\ tidx[th] \in 1 .. Len(setup.triggers) /\ Len(setup.triggers) \in Nat /\ 1 \in TrigIds
      /\ TrigIds = 1 .. Len(setup.triggers)
      /\ tpc \in [TrigThreads -> TrigSteps] /\ tidx \in [TrigThreads -> TrigIds]
      /\ tev \in [TrigThreads -> setup.events \cup {NoEvent}]
      /\ {"idle", "check"} \subseteq TrigSteps
  BY TriggersStay DEF TrigShapeOK, TrigSteps
<1>2. CASE Leave(th)
  BY <1>1, <1>2 DEF Leave
<1>3. CASE Continue(th) /\ tidx[th] < Len(setup.triggers)
  <2>1. tidx[th] + 1 \in TrigIds
    BY <1>1, <1>3
  <2> QED BY <1>1, <1>3, <2>1 DEF Continue
<1> QED BY <1>2, <1>3 DEF Continue

(* As above, for a step within the trigger. *)
LEMMA GoShape ==
  ASSUME TrigShapeOK, NEW th \in TrigThreads, NEW step \in TrigSteps, TGo(th, step)
  PROVE  /\ tpc' \in [TrigThreads -> TrigSteps] /\ tidx' = tidx /\ tev' = tev
         /\ tpc'[th] = step
         /\ \A h \in TrigThreads \ {th} : tpc'[h] = tpc[h]
BY DEF TrigShapeOK, TGo

(* A step of a thread either stays with its trigger or goes on with the next one. *)
LEMMA ControlStep ==
  ASSUME TrigShapeOK, NEW th \in TrigThreads, TriggerStep(th)
  PROVE  /\ tpc' \in [TrigThreads -> TrigSteps] /\ tidx' \in [TrigThreads -> TrigIds]
         /\ tev' \in [TrigThreads -> setup.events \cup {NoEvent}]
         /\ tpc[th] # "idle"
         /\ \A h \in TrigThreads \ {th} : tpc'[h] = tpc[h] /\ tidx'[h] = tidx[h] /\ tev'[h] = tev[h]
         /\ tpc'[th] \notin {"idle", "check"} =>
              /\ tidx' = tidx /\ tev' = tev
              /\ tpc[th] = "check" => checkTrigger(tidx[th], tev[th])
         /\ tpc'[th] = "check" => tev' = tev
<1>1. \/ (Continue(th) \/ Leave(th)) /\ tpc[th] # "idle"
      \/ \E step \in TrigSteps : /\ TGo(th, step) /\ tpc[th] # "idle" /\ step \notin {"idle", "check"}
                                 /\ tpc[th] = "check" => checkTrigger(tidx[th], tev[th])
  <2>1. {"lag", "remove", "stamp", "push", "saveId", "saveTs", "damping", "interval"} \subseteq TrigSteps
    BY DEF TrigSteps
  <2>2. CASE CheckTrigger(th)
    BY <2>1, <2>2 DEF CheckTrigger, TAt, TrigOf
  <2>3. CASE rescheduleAction(th)
    BY <2>1, <2>3 DEF rescheduleAction, TAt
  <2>4. CASE RemoveEvent(th)
    BY <2>1, <2>4 DEF RemoveEvent, TAt
  <2>5. CASE StampEvent(th)
    BY <2>1, <2>5 DEF StampEvent, TAt, ThenRelay
  <2>6. CASE damping(th)
    BY <2>1, <2>6 DEF damping, TAt
  <2>7. CASE dampInterval(th)
    BY <2>1, <2>7 DEF dampInterval, TAt
  <2>8. CASE relayTrigger(th)
    BY <2>1, <2>8 DEF relayTrigger, TAt
  <2>9. CASE SaveId(th)
    BY <2>1, <2>9 DEF SaveId, TAt
  <2>10. CASE SaveTs(th)
    BY <2>1, <2>10 DEF SaveTs, TAt
  <2> QED BY <2>2, <2>3, <2>4, <2>5, <2>6, <2>7, <2>8, <2>9, <2>10 DEF TriggerStep
<1>2. CASE Continue(th) \/ Leave(th)
  BY <1>1, <1>2, ContinueShape
<1>3. ASSUME NEW step \in TrigSteps, TGo(th, step), step \notin {"idle", "check"}, tpc[th] # "idle",
             tpc[th] = "check" => checkTrigger(tidx[th], tev[th])
      PROVE  /\ tpc' \in [TrigThreads -> TrigSteps] /\ tidx' = tidx /\ tev' = tev
             /\ tpc'[th] = step
             /\ \A h \in TrigThreads \ {th} : tpc'[h] = tpc[h]
  BY <1>3, GoShape
<1> QED BY <1>1, <1>2, <1>3 DEF TrigShapeOK

(* What a step of a thread writes has its type, and is not later than now. *)
LEMMA DataStep ==
  ASSUME TrigShapeOK, PastOK, NEW th \in TrigThreads, TriggerStep(th)
  PROVE  /\ tlast' \in [TrigThreads -> Int] /\ matchedAt' \in [TrigThreads -> Int]
         /\ lastTrigger' \in [TrigIds -> Times] /\ scheduledAt' \in [TrigIds -> Times]
         /\ acted' \in [TrigIds -> Int] /\ relayedAt' \in [TrigIds -> Int]
         /\ passedAt' \in [TrigIds -> Int] /\ settledAt' \in [TrigIds -> Int]
         /\ \A t \in TrigIds : /\ acted'[t] <= trigNow /\ scheduledAt'[t] <= trigNow
                               /\ lastTrigger'[t] <= trigNow
                               /\ Never <= passedAt'[t] /\ passedAt'[t] <= trigNow
                               /\ settledAt'[t] <= trigNow
         /\ \A h \in TrigThreads : matchedAt'[h] <= trigNow
<1>1. /\ tidx[th] \in TrigIds /\ trigNow \in Int /\ trigNow \in Times /\ nextID \in Int /\ trigNow >= 0
      /\ Never \in Int /\ Never <= trigNow /\ Times \subseteq Int
  BY TriggersAssumption DEF TrigShapeOK, Times, Never
<1>2. /\ tlast \in [TrigThreads -> Int] /\ matchedAt \in [TrigThreads -> Int]
      /\ lastTrigger \in [TrigIds -> Times] /\ scheduledAt \in [TrigIds -> Times]
      /\ acted \in [TrigIds -> Int] /\ relayedAt \in [TrigIds -> Int]
      /\ passedAt \in [TrigIds -> Int] /\ settledAt \in [TrigIds -> Int]
  BY DEF TrigShapeOK
<1>3. CASE CheckTrigger(th)
  BY <1>1, <1>2, <1>3 DEF CheckTrigger, nodeVars, PastOK
<1>4. CASE rescheduleAction(th)
  BY <1>1, <1>2, <1>4 DEF rescheduleAction, Relaying, TrigOf, nodeVars, PastOK
<1>5. CASE RemoveEvent(th)
  BY <1>1, <1>2, <1>5 DEF RemoveEvent, nodeVars, historyVars, PastOK
<1>6. CASE StampEvent(th)
  BY <1>1, <1>2, <1>6 DEF StampEvent, TrigOf, historyVars, PastOK
<1>p. ASSUME Passed(th)
      PROVE  /\ relayedAt' \in [TrigIds -> Int] /\ passedAt' \in [TrigIds -> Int]
             /\ UNCHANGED <<settledAt, matchedAt>> /\ \A t \in TrigIds : Never <= passedAt'[t] /\ passedAt'[t] <= trigNow
  BY <1>1, <1>2, <1>p DEF Passed, Relaying, TrigOf, PastOK
<1>7. CASE damping(th)
  <2>1. lastTrigger[tidx[th]] \in Int
    BY <1>1, <1>2
  <2> QED BY <1>1, <1>2, <1>7, <1>p, <2>1 DEF damping, TrigOf, PastOK
<1>8. CASE dampInterval(th)
  BY <1>1, <1>2, <1>8, <1>p DEF dampInterval, Settled, TrigOf, PastOK
<1>9. CASE relayTrigger(th)
  BY <1>1, <1>2, <1>9 DEF relayTrigger, Settled, TrigOf, nodeVars, PastOK
<1>10. CASE SaveId(th)
  BY <1>1, <1>2, <1>10 DEF SaveId, historyVars, PastOK
<1>11. CASE SaveTs(th)
  BY <1>1, <1>2, <1>11 DEF SaveTs, Settled, TrigOf, PastOK
<1> QED BY <1>3, <1>4, <1>5, <1>6, <1>7, <1>8, <1>9, <1>10, <1>11 DEF TriggerStep

(* The IDs of timed events *)
IdsOK ==
  /\ nextID \in Nat /\ eventid \in [TrigIds -> 0 .. nextID - 1 \cup {Missing}]
  /\ scheduled \subseteq [id : 0 .. nextID - 1, trigger : TrigIds, due : Int]
  /\ \A s, r \in scheduled : s.id = r.id => s = r
  /\ \A h \in TrigThreads : tpc[h] = "saveId" => tlast[h] \in 0 .. nextID - 1

(* An ID that is used is new, and the thread that has it keeps it. *)
LEMMA IdsStep ==
  ASSUME TrigShapeOK, NEW th \in TrigThreads, TriggerStep(th)
  PROVE  IdsOK'
<1>1. /\ tidx[th] \in TrigIds /\ trigNow \in Int /\ nextID \in Nat /\ Trig(tidx[th]).delay \in Int
      /\ tlast \in [TrigThreads -> Int] /\ IdsOK
  BY TriggersStay DEF TrigShapeOK, IdsOK
<1>2. TrigIds' = TrigIds
  BY SetupKept DEF TrigIds, inputVars
<1>3. \A h \in TrigThreads \ {th} : tpc'[h] = tpc[h]
  BY ControlStep
<1>4. tpc' \in [TrigThreads -> TrigSteps]
  BY ControlStep
<1>5. CASE UNCHANGED <<scheduled, nextID, eventid>> /\ tpc'[th] # "saveId"
           /\ \A h \in TrigThreads \ {th} : tlast'[h] = tlast[h]
  BY <1>1, <1>2, <1>3, <1>5 DEF IdsOK
<1>6. CASE CheckTrigger(th) \/ rescheduleAction(th) \/ StampEvent(th)
  <2>1. UNCHANGED <<scheduled, nextID, eventid, tlast>>
    BY <1>6 DEF CheckTrigger, rescheduleAction, StampEvent, nodeVars
  <2>2. tpc'[th] # "saveId"
    BY <1>6, ContinueShape, GoShape
       DEF CheckTrigger, rescheduleAction, StampEvent, ThenRelay, TrigSteps
  <2> QED BY <1>5, <2>1, <2>2
<1>7. CASE damping(th) \/ dampInterval(th)
  <2>1. UNCHANGED <<scheduled, nextID, eventid>> /\ \A h \in TrigThreads \ {th} : tlast'[h] = tlast[h]
    BY <1>1, <1>7 DEF damping, dampInterval
  <2>2. tpc'[th] # "saveId"
    BY <1>7, ContinueShape, GoShape DEF damping, dampInterval, TrigSteps
  <2> QED BY <1>5, <2>1, <2>2
<1>8. CASE RemoveEvent(th)
  <2>1. tpc'[th] = "stamp"
    BY <1>8, GoShape DEF RemoveEvent, TrigSteps
  <2> QED BY <1>1, <1>2, <1>3, <1>8, <2>1 DEF RemoveEvent, removeEvent, TrigOf, IdsOK, nodeVars
<1>9. CASE relayTrigger(th)
  <2>1. CASE tpc'[th] \in {"idle", "check"} /\ UNCHANGED <<scheduled, nextID, tlast>>
    BY <1>5, <1>9, <2>1 DEF relayTrigger, nodeVars
  <2>2. CASE /\ scheduled' = scheduled
                  \cup {[id |-> nextID, trigger |-> tidx[th], due |-> trigNow + Trig(tidx[th]).delay]}
             /\ nextID' = nextID + 1 /\ tlast' = [tlast EXCEPT ![th] = nextID]
             /\ UNCHANGED eventid
    <3> DEFINE new == [id |-> nextID, trigger |-> tidx[th], due |-> trigNow + Trig(tidx[th]).delay]
    <3>1. nextID' \in Nat /\ 0 .. nextID - 1 \subseteq 0 .. nextID' - 1 /\ nextID \in 0 .. nextID' - 1
          /\ nextID \notin 0 .. nextID - 1
      BY <1>1, <2>2
    <3>2. new \in [id : 0 .. nextID' - 1, trigger : TrigIds, due : Int] /\ new.id = nextID
      <4>1. trigNow + Trig(tidx[th]).delay \in Int
        BY <1>1
      <4> QED BY <1>1, <3>1, <4>1
    <3>3. \A s \in scheduled : s.id \in 0 .. nextID - 1
          /\ s \in [id : 0 .. nextID' - 1, trigger : TrigIds, due : Int]
      BY <1>1, <3>1 DEF IdsOK
    <3>4. scheduled' = scheduled \cup {new}
      BY <2>2
    <3> HIDE DEF new
    <3>5. \A s, r \in scheduled' : s.id = r.id => s = r
      BY <1>1, <3>1, <3>2, <3>3, <3>4 DEF IdsOK
    <3>6. eventid' \in [TrigIds -> 0 .. nextID' - 1 \cup {Missing}]
      BY <1>1, <2>2, <3>1 DEF IdsOK
    <3>7. \A h \in TrigThreads : tpc'[h] = "saveId" => tlast'[h] \in 0 .. nextID' - 1
      BY <1>1, <1>3, <2>2, <3>1 DEF IdsOK
    <3> QED BY <1>2, <3>1, <3>2, <3>3, <3>4, <3>5, <3>6, <3>7 DEF IdsOK
  <2> QED BY <1>9, <2>1, <2>2, ContinueShape DEF relayTrigger, TrigOf, nodeVars
<1>10. CASE SaveId(th)
  <2>1. tpc'[th] = "saveTs"
    BY <1>10, GoShape DEF SaveId, TrigSteps
  <2>2. tlast[th] \in 0 .. nextID - 1
    BY <1>1, <1>10 DEF SaveId, TAt, IdsOK
  <2> QED BY <1>1, <1>2, <1>3, <1>10, <2>1, <2>2 DEF SaveId, TrigOf, IdsOK
<1>11. CASE SaveTs(th)
  <2>1. tpc'[th] # "saveId"
    BY <1>11, ContinueShape DEF SaveTs
  <2> QED BY <1>5, <1>11, <2>1 DEF SaveTs
<1> QED BY <1>6, <1>7, <1>8, <1>9, <1>10, <1>11 DEF TriggerStep

(* A step of a thread keeps the types and the times. *)
LEMMA ThreadShape ==
  ASSUME TrigShapeOK, PastOK, NEW th \in TrigThreads, TriggerStep(th)
  PROVE  TrigShapeOK' /\ PastOK'
<1>1. UNCHANGED <<setup, trigNow, raised, eventsQueued, tasksQueued>>
  BY SetupKept DEF inputVars
<1>2. TrigIds' = TrigIds
  BY <1>1 DEF TrigIds
<1>3. TrigShapeOK'
  BY <1>1, <1>2, ControlStep, DataStep, IdsStep DEF TrigShapeOK, IdsOK, Times
<1>4. PastOK'
  BY <1>1, <1>2, DataStep DEF PastOK
<1> QED BY <1>3, <1>4

(* High-level events stay with the other thread. *)
LEMMA ThreadEvents ==
  ASSUME TrigShapeOK, EventsOK, NEW th \in TrigThreads, TriggerStep(th)
  PROVE  EventsOK'
<1>1. TrigIds' = TrigIds /\ setup' = setup
  BY SetupKept DEF TrigIds, inputVars
<1>2. ASSUME NEW h \in TrigThreads, tpc'[h] # "idle"
      PROVE  tev'[h] \in setup.events /\ (tev'[h].name = Highlevel <=> h = "task")
  <2>1. tpc[h] # "idle" /\ tev'[h] = tev[h]
    BY <1>2, ControlStep
  <2> QED BY <2>1 DEF EventsOK
<1>3. ASSUME NEW h \in TrigThreads, NEW t \in TrigIds, Busy(h, t)'
      PROVE  checkTrigger(t, tev'[h])
  <2>1. CASE h = th
    <3>1. tidx[h] = t /\ tev'[h] = tev[h] /\ (tpc[h] = "check" => checkTrigger(t, tev[h])) /\ tpc[h] # "idle"
      BY <1>3, <2>1, ControlStep DEF Busy
    <3> QED BY <3>1 DEF EventsOK, Busy
  <2>2. CASE h # th
    <3>1. tidx[h] = t /\ tev'[h] = tev[h] /\ tpc'[h] = tpc[h]
      BY <1>3, <2>2, ControlStep DEF Busy
    <3> QED BY <1>3, <3>1 DEF EventsOK, Busy
  <2> QED BY <2>1, <2>2
<1>4. \A t, e : checkTrigger(t, e)' = checkTrigger(t, e)'
  OBVIOUS
<1> QED BY <1>1, <1>2, <1>3 DEF EventsOK, checkTrigger, Trig

(* The steps that are not of a thread that runs triggers *)
Outside ==
  \/ HandleEvent \/ StartTask \/ RunDue \/ TrigTick
  \/ \E e \in setup.events : RaiseTrigEvent(e)
  \/ \E w \in setup.worlds : ChangeWorld(w)
  \/ UNCHANGED trigVars

(* They leave the triggers alone; a thread that is idle may start with the first. *)
LEMMA OutsideEffect ==
  ASSUME TrigShapeOK, PastOK, EventsOK, Outside
  PROVE  /\ setup' = setup /\ trigNow' \in 0 .. MaxTrigTime /\ trigNow' >= trigNow
         /\ UNCHANGED <<nodeVars, nextID, tlast, relayedAt, passedAt, matchedAt, settledAt>>
         /\ \A th \in TrigThreads :
              \/ tpc'[th] = tpc[th] /\ tidx'[th] = tidx[th] /\ tev'[th] = tev[th]
              \/ tpc'[th] = "check"
         /\ \/ UNCHANGED <<scheduled, acted>>
            \/ UNCHANGED trigNow /\ \E s \in scheduled : RunTimed(s)
         /\ TrigShapeOK' /\ PastOK' /\ EventsOK'
<1>1. trigNow \in 0 .. MaxTrigTime /\ MaxTrigTime \in Nat
  BY TriggersAssumption DEF TrigShapeOK
<1>2. /\ tpc \in [TrigThreads -> TrigSteps] /\ tidx \in [TrigThreads -> TrigIds]
      /\ tev \in [TrigThreads -> setup.events \cup {NoEvent}] /\ 1 \in TrigIds /\ "check" \in TrigSteps
      /\ eventsQueued \in Seq(setup.events)
      /\ tasksQueued \in Seq({e \in setup.events : e.name = Highlevel})
      /\ {"task", "interpreter"} = TrigThreads
  BY TriggersStay DEF TrigShapeOK, TrigSteps, TrigThreads
<1>3. setup' = setup /\ TrigIds' = TrigIds
  BY DEF Outside, HandleEvent, StartTask, RunDue, RunTimed, TrigTick, RaiseTrigEvent, ChangeWorld,
         trigVars, inputVars, TrigIds
<1>4. ASSUME NEW th \in TrigThreads, NEW e \in setup.events, Start(th, e)
      PROVE  /\ tpc' \in [TrigThreads -> TrigSteps] /\ tidx' \in [TrigThreads -> TrigIds]
             /\ tev' \in [TrigThreads -> setup.events \cup {NoEvent}]
             /\ tpc'[th] = "check" /\ tev'[th] = e
             /\ \A h \in TrigThreads \ {th} : tpc'[h] = tpc[h] /\ tidx'[h] = tidx[h] /\ tev'[h] = tev[h]
  BY <1>2, <1>4 DEF Start
<1>S. ASSUME NEW th \in TrigThreads, NEW e \in setup.events, Start(th, e),
             e.name = Highlevel <=> th = "task"
      PROVE  EventsOK'
  <2>1. /\ tpc'[th] = "check" /\ tev'[th] = e
        /\ \A h \in TrigThreads \ {th} : tpc'[h] = tpc[h] /\ tidx'[h] = tidx[h] /\ tev'[h] = tev[h]
    BY <1>4, <1>S
  <2>2. ASSUME NEW h \in TrigThreads, tpc'[h] # "idle"
        PROVE  tev'[h] \in setup.events /\ (tev'[h].name = Highlevel <=> h = "task")
    BY <1>S, <2>1, <2>2 DEF EventsOK
  <2>3. ASSUME NEW h \in TrigThreads, NEW t \in TrigIds, Busy(h, t)'
        PROVE  checkTrigger(t, tev'[h])
    <3>1. h # th /\ Busy(h, t) /\ tev'[h] = tev[h]
      BY <2>1, <2>3 DEF Busy
    <3> QED BY <3>1 DEF EventsOK
  <2> QED BY <1>3, <2>2, <2>3 DEF EventsOK, checkTrigger, Trig
<1>5. CASE HandleEvent
  <2>1. Head(eventsQueued) \in setup.events /\ Tail(eventsQueued) \in Seq(setup.events)
    BY <1>2, <1>5, HeadTailProperties DEF HandleEvent
  <2>2. CASE Head(eventsQueued).name = Highlevel
    <3>1. tasksQueued' \in Seq({e \in setup.events : e.name = Highlevel})
      BY <1>2, <1>5, <2>1, <2>2, AppendProperties DEF HandleEvent
    <3>2. UNCHANGED <<tpc, tidx, tev, tlast, setup, trigNow, raised, nodeVars, scheduled, nextID, historyVars>>
          /\ eventsQueued' = Tail(eventsQueued)
      BY <1>5, <2>2 DEF HandleEvent
    <3>3. TrigShapeOK'
      BY <1>3, <2>1, <3>1, <3>2 DEF TrigShapeOK, nodeVars, historyVars, Times
    <3>4. PastOK' /\ EventsOK'
      BY <1>3, <3>2 DEF PastOK, EventsOK, Busy, nodeVars, historyVars, checkTrigger, Trig
    <3> QED BY <1>1, <3>2, <3>3, <3>4 DEF nodeVars, historyVars
  <2>3. CASE Head(eventsQueued).name # Highlevel
    <3>1. Start("interpreter", Head(eventsQueued)) /\ "interpreter" # "task" /\ "interpreter" \in TrigThreads
      BY <1>2, <1>5, <2>3 DEF HandleEvent
    <3>2. UNCHANGED <<tlast, setup, trigNow, raised, nodeVars, scheduled, nextID, historyVars, tasksQueued>>
          /\ eventsQueued' = Tail(eventsQueued)
      BY <1>5, <2>3 DEF HandleEvent
    <3>3. TrigShapeOK'
      BY <1>3, <1>4, <2>1, <3>1, <3>2 DEF TrigShapeOK, nodeVars, historyVars, Times
    <3>4. PastOK' /\ EventsOK'
      BY <1>3, <1>S, <2>1, <2>3, <3>1, <3>2 DEF PastOK, nodeVars, historyVars
    <3> QED BY <1>1, <1>4, <2>1, <3>1, <3>2, <3>3, <3>4 DEF nodeVars, historyVars
  <2> QED BY <2>2, <2>3
<1>6. CASE StartTask
  <2>1. /\ Head(tasksQueued) \in setup.events /\ Head(tasksQueued).name = Highlevel
        /\ Tail(tasksQueued) \in Seq({e \in setup.events : e.name = Highlevel})
    BY <1>2, <1>6, HeadTailProperties DEF StartTask
  <2>2. Start("task", Head(tasksQueued)) /\ "task" \in TrigThreads
    BY <1>2, <1>6 DEF StartTask
  <2>3. UNCHANGED <<tlast, setup, trigNow, raised, nodeVars, scheduled, nextID, historyVars, eventsQueued>>
        /\ tasksQueued' = Tail(tasksQueued)
    BY <1>6 DEF StartTask
  <2>4. TrigShapeOK'
    BY <1>3, <1>4, <2>1, <2>2, <2>3 DEF TrigShapeOK, nodeVars, historyVars, Times
  <2>5. PastOK' /\ EventsOK'
    BY <1>3, <1>S, <2>1, <2>2, <2>3 DEF PastOK, nodeVars, historyVars
  <2> QED BY <1>1, <1>4, <2>1, <2>2, <2>3, <2>4, <2>5 DEF nodeVars, historyVars
<1>7. ASSUME NEW s \in scheduled, RunTimed(s)
      PROVE  TrigShapeOK' /\ PastOK' /\ EventsOK'
  <2>1. s.trigger \in TrigIds /\ s.due \in Int /\ s.due <= trigNow
    BY <1>7 DEF RunTimed, TrigShapeOK
  <2>2. UNCHANGED <<inputVars, tpc, tev, tidx, tlast, nodeVars, nextID, relayedAt, passedAt, matchedAt, settledAt>>
        /\ scheduled' = scheduled \ {s} /\ acted' = [acted EXCEPT ![s.trigger] = s.due]
    BY <1>7 DEF RunTimed
  <2>3. TrigShapeOK'
    BY <1>3, <2>1, <2>2 DEF TrigShapeOK, inputVars, nodeVars, Times
  <2>4. PastOK'
    BY <1>3, <2>1, <2>2 DEF TrigShapeOK, PastOK, inputVars, nodeVars
  <2>5. EventsOK'
    BY <1>3, <2>2 DEF EventsOK, Busy, inputVars, checkTrigger, Trig
  <2> QED BY <2>3, <2>4, <2>5
<1>8. CASE RunDue
  <2>1. PICK s \in scheduled : RunTimed(s)
    BY <1>8 DEF RunDue
  <2>2. /\ setup' = setup /\ trigNow' = trigNow
        /\ UNCHANGED <<nodeVars, nextID, tlast, relayedAt, passedAt, matchedAt, settledAt, tpc, tidx, tev>>
    BY <2>1 DEF RunTimed, inputVars
  <2> QED BY <1>1, <1>7, <2>1, <2>2
<1>9. CASE TrigTick
  <2>1. trigNow' = trigNow + 1 /\ trigNow' \in 0 .. MaxTrigTime
    BY <1>1, <1>9 DEF TrigTick
  <2>2. TrigShapeOK'
    BY <1>3, <1>9, <2>1 DEF TrigTick, TrigShapeOK, nodeVars, historyVars, Times
  <2>3. PastOK'
    <3>1. /\ \A t \in TrigIds : /\ acted[t] \in Int /\ scheduledAt[t] \in Int /\ lastTrigger[t] \in Int
                               /\ passedAt[t] \in Int /\ settledAt[t] \in Int
          /\ \A th \in TrigThreads : matchedAt[th] \in Int
      BY TriggersAssumption DEF TrigShapeOK, Times, Never
    <3>2. UNCHANGED <<acted, scheduledAt, lastTrigger, passedAt, settledAt, matchedAt>>
      BY <1>9 DEF TrigTick, nodeVars, historyVars
    <3> QED BY <1>1, <1>3, <2>1, <3>1, <3>2 DEF PastOK
  <2>4. EventsOK'
    BY <1>3, <1>9 DEF TrigTick, EventsOK, Busy, checkTrigger, Trig
  <2> QED BY <1>1, <1>3, <1>9, <2>1, <2>2, <2>3, <2>4 DEF TrigTick, nodeVars, historyVars
<1>10. ASSUME NEW e \in setup.events, RaiseTrigEvent(e)
       PROVE  TrigShapeOK' /\ PastOK' /\ EventsOK'
  <2>1. raised' \in 0 .. setup.max /\ eventsQueued' \in Seq(setup.events)
    BY <1>2, <1>10, TriggersStay, AppendProperties DEF RaiseTrigEvent, TrigShapeOK
  <2>2. TrigShapeOK'
    BY <1>3, <1>10, <2>1 DEF RaiseTrigEvent, TrigShapeOK, nodeVars, historyVars, Times
  <2>3. PastOK' /\ EventsOK'
    BY <1>3, <1>10 DEF RaiseTrigEvent, EventsOK, PastOK, Busy, nodeVars, historyVars, checkTrigger, Trig
  <2> QED BY <2>2, <2>3
<1>11. CASE \E w \in setup.worlds : ChangeWorld(w)
  <2>1. TrigShapeOK'
    BY <1>3, <1>11 DEF ChangeWorld, TrigShapeOK, nodeVars, historyVars, Times
  <2>2. PastOK' /\ EventsOK'
    BY <1>3, <1>11 DEF ChangeWorld, EventsOK, PastOK, Busy, nodeVars, historyVars, checkTrigger, Trig
  <2> QED BY <1>1, <1>3, <1>11, <2>1, <2>2 DEF ChangeWorld, nodeVars, historyVars
<1>12. CASE UNCHANGED trigVars
  <2>1. TrigShapeOK'
    BY <1>3, <1>12 DEF trigVars, TrigShapeOK, Times
  <2>2. PastOK' /\ EventsOK'
    BY <1>3, <1>12 DEF trigVars, EventsOK, PastOK, Busy, checkTrigger, Trig
  <2> QED BY <1>1, <1>3, <1>12, <2>1, <2>2 DEF trigVars, nodeVars
<1>13. CASE \E e \in setup.events : RaiseTrigEvent(e)
  BY <1>1, <1>3, <1>10, <1>13 DEF RaiseTrigEvent, nodeVars, historyVars
<1> QED BY <1>5, <1>6, <1>8, <1>9, <1>11, <1>12, <1>13 DEF Outside

-----------------------------------------------------------------------------
(* One thread for a trigger                                                *)

(* A set with at most one element. *)
LEMMA AtMostOne ==
  ASSUME NEW S, IsFiniteSet(S), Cardinality(S) <= 1, NEW x \in S, NEW y \in S
  PROVE  x = y
<1>1. IsFiniteSet(S \ {x}) /\ Cardinality(S \ {x}) = Cardinality(S) - 1 /\ Cardinality(S) \in Nat
  BY FS_RemoveElement, FS_CardinalityType
<1>2. Cardinality(S \ {x}) = 0
  BY <1>1, FS_CardinalityType
<1>3. S \ {x} = {}
  BY <1>1, <1>2, FS_EmptySet
<1> QED BY <1>3

(* If all events that match are of one kind, one thread is busy at most. *)
LEMMA OneThread ==
  ASSUME TrigShapeOK, EventsOK, NEW t \in TrigIds, Alone(t),
         NEW g \in TrigThreads, Busy(g, t), NEW h \in TrigThreads, Busy(h, t)
  PROVE  g = h
<1> DEFINE kinds == {e.name = Highlevel : e \in {f \in setup.events : checkTrigger(t, f)}}
<1>1. tev[g] \in setup.events /\ checkTrigger(t, tev[g]) /\ (tev[g].name = Highlevel <=> g = "task")
  BY DEF EventsOK, Busy
<1>2. tev[h] \in setup.events /\ checkTrigger(t, tev[h]) /\ (tev[h].name = Highlevel <=> h = "task")
  BY DEF EventsOK, Busy
<1>3. (tev[g].name = Highlevel) \in kinds /\ (tev[h].name = Highlevel) \in kinds
  BY <1>1, <1>2
<1>4. kinds \subseteq {TRUE, FALSE}
  OBVIOUS
<1>5. IsFiniteSet({TRUE, FALSE})
  <2>1. {TRUE, FALSE} = {TRUE} \cup {FALSE}
    OBVIOUS
  <2>2. IsFiniteSet({TRUE})
    BY FS_Singleton
  <2>3. IsFiniteSet({TRUE} \cup {FALSE})
    BY <2>2, FS_AddElement
  <2> QED BY <2>1, <2>3
<1>6. IsFiniteSet(kinds)
  BY <1>4, <1>5, FS_Subset
<1>7. Cardinality(kinds) <= 1
  BY DEF Alone
<1> HIDE DEF kinds
<1>8. (tev[g].name = Highlevel) = (tev[h].name = Highlevel)
  BY <1>3, <1>6, <1>7, AtMostOne
<1> QED BY <1>1, <1>2, <1>8 DEF TrigThreads

(* Whether a trigger is handled by one thread does not change. *)
LEMMA AloneStays ==
  ASSUME setup' = setup, NEW t
  PROVE  Alone(t)' = Alone(t) /\ Trig(t)' = Trig(t) /\ TrigIds' = TrigIds
<1>1. \A e : checkTrigger(t, e)' = checkTrigger(t, e)
  BY DEF checkTrigger, Trig
<1> QED BY <1>1 DEF Alone, Trig, TrigIds

(* A thread that is busy with the trigger is the only one, before and after. *)
LEMMA BusyAlone ==
  ASSUME TrigShapeOK, EventsOK, NEW th \in TrigThreads, TriggerStep(th), tpc[th] # "check",
         NEW t, t = tidx[th], Alone(t), NEW S, {"idle", "check"} \cap S = {}
  PROVE  /\ AtStep(t, S) <=> tpc[th] \in S
         /\ AtStep(t, S)' <=> tpc'[th] \in S
<1>1. /\ tpc[th] # "idle" /\ t \in TrigIds
      /\ \A h \in TrigThreads \ {th} : tpc'[h] = tpc[h] /\ tidx'[h] = tidx[h]
      /\ tpc'[th] \notin {"idle", "check"} => tidx' = tidx
  BY ControlStep DEF TrigShapeOK
<1>2. Busy(th, t)
  BY <1>1 DEF Busy
<1>3. \A h \in TrigThreads \ {th} : ~Busy(h, t)
  BY <1>1, <1>2, OneThread
<1>4. \A h \in TrigThreads \ {th} : ~(tidx'[h] = t /\ tpc'[h] \notin {"idle", "check"})
  BY <1>1, <1>3 DEF Busy
<1> QED BY <1>1, <1>2, <1>3, <1>4 DEF AtStep, Busy

(* After the check comes the pending event. *)
LEMMA MatchFound ==
  ASSUME TrigShapeOK, NEW th \in TrigThreads, TriggerStep(th), tpc[th] = "check"
  PROVE  tpc'[th] \in {"idle", "check", "lag"}
<1>1. CheckTrigger(th)
  BY DEF TriggerStep, rescheduleAction, RemoveEvent, StampEvent, damping, dampInterval,
         relayTrigger, SaveId, SaveTs, TAt
<1> QED BY <1>1, ContinueShape, GoShape DEF CheckTrigger, TrigSteps

(* For other triggers, and where a match is only found, nothing changes. *)
LEMMA BusyOthers ==
  ASSUME TrigShapeOK, NEW th \in TrigThreads, TriggerStep(th), NEW t,
         NEW S, {"idle", "check", "lag"} \cap S = {}, t # tidx[th] \/ tpc[th] = "check"
  PROVE  AtStep(t, S)' <=> AtStep(t, S)
<1>1. /\ \A h \in TrigThreads \ {th} : tpc'[h] = tpc[h] /\ tidx'[h] = tidx[h]
      /\ tpc'[th] \notin {"idle", "check"} => tidx' = tidx
      /\ tpc' \in [TrigThreads -> TrigSteps]
  BY ControlStep
<1>2. tpc[th] = "check" => tpc'[th] \in {"idle", "check", "lag"}
  BY MatchFound
<1>3. CASE t # tidx[th]
  BY <1>1, <1>3 DEF AtStep, Busy
<1>4. CASE tpc[th] = "check"
  BY <1>1, <1>2, <1>4 DEF AtStep, Busy
<1> QED BY <1>3, <1>4

(* Outside of the threads, nothing changes either. *)
LEMMA BusyOutside ==
  ASSUME TrigShapeOK, PastOK, EventsOK, Outside, NEW t, NEW S, {"idle", "check"} \cap S = {}
  PROVE  AtStep(t, S)' => AtStep(t, S)
BY OutsideEffect DEF AtStep, Busy

-----------------------------------------------------------------------------
(* Delays                                                                  *)

Debounces(t) == Alone(t) /\ Trig(t).reschedule /\ Trig(t).delay > 0
TimedOf(t)   == {s \in scheduled : s.trigger = t}

(* The actions of a trigger are apart; only the last, whose ID is kept or is *)
(* about to be kept, can be in the future, and it is not when another is to  *)
(* be scheduled; its time stamp is not earlier.                              *)
ApartOK(t) ==
  \A s \in TimedOf(t) :
    /\ acted[t] + Trig(t).delay <= s.due /\ s.due <= trigNow + Trig(t).delay
    /\ \A r \in TimedOf(t) : s.id < r.id => s.due + Trig(t).delay <= r.due
LastOK(t) ==
  \A s \in TimedOf(t) :
    \/ s.due <= trigNow
    \/ s.id = eventid[t] /\ ~AtStep(t, {"stamp", "push", "damping", "interval", "saveId"})
    \/ \E th \in TrigThreads : Busy(th, t) /\ tpc[th] = "saveId" /\ s.id = tlast[th]
StampOK(t) ==
  \A s \in TimedOf(t) :
    s.id = eventid[t] => s.due <= scheduledAt[t] + Trig(t).delay \/ AtStep(t, {"saveTs"})
DelayOK == \A t \in TrigIds : Debounces(t) => ApartOK(t) /\ LastOK(t) /\ StampOK(t)

(* Times are numbers, and the next ID is new. *)
LEMMA TrigNumbers ==
  ASSUME TrigShapeOK, NEW t \in TrigIds
  PROVE  /\ trigNow \in Int /\ Trig(t).delay \in Int /\ Trig(t).interval \in Int
         /\ acted[t] \in Int /\ scheduledAt[t] \in Int /\ lastTrigger[t] \in Int
         /\ passedAt[t] \in Int /\ settledAt[t] \in Int
         /\ nextID \in Nat /\ eventid[t] \in Int /\ eventid[t] # nextID
         /\ \A s \in TimedOf(t) : /\ s.id \in Int /\ s.due \in Int /\ s.id # Missing
                                  /\ s.id < nextID
<1>1. Times \subseteq Int
  BY TriggersAssumption DEF Times, Never
<1>2. /\ trigNow \in Int /\ acted[t] \in Int /\ scheduledAt[t] \in Int /\ lastTrigger[t] \in Int
      /\ passedAt[t] \in Int /\ settledAt[t] \in Int /\ Trig(t).delay \in Int /\ Trig(t).interval \in Int
  <2>1. Trig(t).delay \in Int /\ Trig(t).interval \in Int
    BY TriggersStay DEF TrigShapeOK
  <2>2. /\ lastTrigger \in [TrigIds -> Times] /\ scheduledAt \in [TrigIds -> Times]
        /\ acted \in [TrigIds -> Int] /\ passedAt \in [TrigIds -> Int]
        /\ settledAt \in [TrigIds -> Int] /\ trigNow \in Int
    BY TriggersAssumption DEF TrigShapeOK
  <2> QED BY <1>1, <2>1, <2>2
<1>3. nextID \in Nat /\ eventid[t] \in 0 .. nextID - 1 \cup {Missing}
  BY DEF TrigShapeOK
<1>4. eventid[t] \in Int /\ eventid[t] # nextID
  BY <1>3 DEF Missing
<1>5. ASSUME NEW s \in TimedOf(t)
      PROVE  s.id \in Int /\ s.due \in Int /\ s.id # Missing /\ s.id < nextID
  <2>1. s \in [id : 0 .. nextID - 1, trigger : TrigIds, due : Int]
    BY <1>5 DEF TimedOf, TrigShapeOK
  <2>2. s.id \in 0 .. nextID - 1 /\ s.due \in Int
    BY <2>1
  <2> QED BY <1>3, <2>2 DEF Missing
<1> QED BY <1>2, <1>3, <1>4, <1>5

(* The timed events of other triggers are not added to. *)
LEMMA OthersTimed ==
  ASSUME TrigShapeOK, NEW th \in TrigThreads, TriggerStep(th),
         NEW t \in TrigIds, t # tidx[th] \/ tpc[th] = "check"
  PROVE  /\ TimedOf(t)' \subseteq TimedOf(t)
         /\ acted'[t] = acted[t] /\ eventid'[t] = eventid[t] /\ scheduledAt'[t] = scheduledAt[t]
         /\ \A h \in TrigThreads : tpc[h] = "saveId" /\ h # th => tlast'[h] = tlast[h]
<1>1. /\ tidx[th] \in TrigIds
      /\ tlast \in [TrigThreads -> Int] /\ scheduledAt \in [TrigIds -> Times]
      /\ acted \in [TrigIds -> Int] /\ eventid \in [TrigIds -> 0 .. nextID - 1 \cup {Missing}]
  BY DEF TrigShapeOK
<1>2. CASE CheckTrigger(th)
  BY <1>1, <1>2 DEF CheckTrigger, nodeVars, TimedOf
<1>3. CASE rescheduleAction(th)
  BY <1>1, <1>3 DEF rescheduleAction, nodeVars, TimedOf
<1>4. CASE RemoveEvent(th)
  BY <1>1, <1>4 DEF RemoveEvent, removeEvent, nodeVars, historyVars, TimedOf
<1>5. CASE StampEvent(th)
  BY <1>1, <1>5 DEF StampEvent, historyVars, TimedOf, TrigOf, TAt
<1>6. CASE damping(th)
  BY <1>1, <1>6 DEF damping, TimedOf, TrigOf
<1>7. CASE dampInterval(th)
  BY <1>1, <1>7 DEF dampInterval, TimedOf, TrigOf
<1>8. CASE relayTrigger(th)
  BY <1>1, <1>8 DEF relayTrigger, nodeVars, TimedOf, TrigOf, TAt
<1>9. CASE SaveId(th)
  BY <1>1, <1>9 DEF SaveId, historyVars, TimedOf, TrigOf, TAt
<1>10. CASE SaveTs(th)
  BY <1>1, <1>10 DEF SaveTs, TimedOf, TrigOf, TAt
<1> QED BY <1>2, <1>3, <1>4, <1>5, <1>6, <1>7, <1>8, <1>9, <1>10 DEF TriggerStep

(* A thread does nothing to the delays of other triggers. *)
LEMMA DelayOthers ==
  ASSUME TrigShapeOK, EventsOK, NEW th \in TrigThreads, TriggerStep(th),
         NEW t \in TrigIds, t # tidx[th] \/ tpc[th] = "check",
         ApartOK(t), LastOK(t), StampOK(t)
  PROVE  ApartOK(t)' /\ LastOK(t)' /\ StampOK(t)'
<1>1. setup' = setup /\ trigNow' = trigNow /\ Trig(t)' = Trig(t)
  BY SetupKept DEF inputVars, Trig
<1>2. /\ TimedOf(t)' \subseteq TimedOf(t)
      /\ acted'[t] = acted[t] /\ eventid'[t] = eventid[t] /\ scheduledAt'[t] = scheduledAt[t]
  BY OthersTimed
<1>3. ApartOK(t)'
  BY <1>1, <1>2 DEF ApartOK
<1>4. ASSUME NEW S, {"idle", "check", "lag"} \cap S = {}
      PROVE  AtStep(t, S)' <=> AtStep(t, S)
  BY <1>4, BusyOthers
<1>5. StampOK(t)'
  BY <1>1, <1>2, <1>4 DEF StampOK
<1>6. ASSUME NEW h \in TrigThreads, Busy(h, t), tpc[h] = "saveId"
      PROVE  Busy(h, t)' /\ tpc'[h] = "saveId" /\ tlast'[h] = tlast[h]
  <2>1. h # th
    BY <1>6 DEF Busy
  <2> QED BY <1>6, <2>1, ControlStep, OthersTimed DEF Busy
<1>7. LastOK(t)'
  BY <1>1, <1>2, <1>4, <1>6 DEF LastOK
<1> QED BY <1>3, <1>5, <1>7

(* The rest of the invariant follows when all that is left is due. *)
AllDue(t) == \A s \in TimedOf(t) : s.due <= trigNow
LEMMA DelayDue ==
  ASSUME TrigShapeOK, PastOK, NEW t \in TrigIds, Trig(t).delay > 0,
         ApartOK(t), setup' = setup, trigNow' = trigNow, TimedOf(t)' \subseteq TimedOf(t),
         acted'[t] \in Int, acted'[t] = acted[t],
         \/ scheduledAt'[t] = trigNow
         \/ scheduledAt'[t] = scheduledAt[t] /\ StampOK(t) /\ ~AtStep(t, {"saveTs"}),
         eventid' = eventid, AllDue(t)'
  PROVE  ApartOK(t)' /\ LastOK(t)' /\ StampOK(t)'
<1>1. Trig(t)' = Trig(t)
  BY DEF Trig
<1>2. \A s \in TimedOf(t) : s.due \in Int
  BY TrigNumbers
<1>3. trigNow \in Int /\ scheduledAt[t] \in Int /\ scheduledAt[t] <= trigNow /\ Trig(t).delay \in Int
  BY TrigNumbers DEF PastOK
<1>4. ApartOK(t)'
  BY <1>1 DEF ApartOK
<1>5. LastOK(t)'
  BY DEF LastOK, AllDue
<1>6. StampOK(t)'
  BY <1>1, <1>2, <1>3 DEF StampOK, AllDue
<1> QED BY <1>4, <1>5, <1>6

(* What a thread does to the delay of its own trigger *)
LEMMA DelayOwn ==
  ASSUME TrigShapeOK, PastOK, EventsOK, NEW th \in TrigThreads, TriggerStep(th), tpc[th] # "check",
         NEW t \in TrigIds, t = tidx[th], Debounces(t), ApartOK(t), LastOK(t), StampOK(t)
  PROVE  ApartOK(t)' /\ LastOK(t)' /\ StampOK(t)'
<1>1. /\ setup' = setup /\ trigNow' = trigNow /\ Trig(t)' = Trig(t)
      /\ TrigShapeOK'
  BY SetupKept, ThreadShape DEF inputVars, Trig
<1>2. /\ Trig(t).delay \in Int /\ Trig(t).delay > 0 /\ Trig(t).reschedule /\ Trig(t).delay # Missing
      /\ trigNow \in Int /\ scheduledAt[t] \in Int /\ scheduledAt[t] <= trigNow
      /\ acted[t] \in Int /\ acted[t] <= trigNow /\ acted'[t] \in Int
  <2>1. acted'[t] \in Int
    BY <1>1, AloneStays DEF TrigShapeOK
  <2> QED BY <2>1, TrigNumbers DEF PastOK, Missing, Debounces
<1>3. ASSUME NEW S, {"idle", "check"} \cap S = {}
      PROVE  (AtStep(t, S) <=> tpc[th] \in S) /\ (AtStep(t, S)' <=> tpc'[th] \in S)
  BY <1>3, BusyAlone DEF Debounces
<1>4. Busy(th, t)
  BY ControlStep DEF Busy
<1>5. \A h \in TrigThreads : Busy(h, t) => h = th
  BY <1>4, OneThread DEF Debounces
<1>6. \A s \in TimedOf(t) : s.id \in Int /\ s.id < nextID /\ s.due \in Int /\ s.id # Missing
  BY TrigNumbers
<1>7. CASE tpc[th] \in {"stamp", "push", "damping", "interval"}
  <2>1. AllDue(t)
    BY <1>3, <1>5, <1>7 DEF LastOK, AllDue
  <2>2. ~AtStep(t, {"saveTs"})
    BY <1>3, <1>7
  <2>3. CASE StampEvent(th)
    <3>1. TimedOf(t)' = TimedOf(t) /\ acted' = acted /\ eventid' = eventid /\ scheduledAt'[t] = trigNow
      BY <2>3 DEF StampEvent, historyVars, TimedOf, TrigOf, TrigShapeOK
    <3> QED BY <1>1, <1>2, <2>1, <3>1, DelayDue DEF AllDue
  <2>4. CASE damping(th) \/ dampInterval(th)
    <3>1. TimedOf(t)' = TimedOf(t) /\ acted' = acted /\ eventid' = eventid /\ scheduledAt' = scheduledAt
      BY <2>4 DEF damping, dampInterval, TimedOf
    <3> QED BY <1>1, <1>2, <2>1, <2>2, <3>1, DelayDue DEF AllDue
  <2>5. CASE relayTrigger(th)
    <3> DEFINE new == [id |-> nextID, trigger |-> t, due |-> trigNow + Trig(t).delay]
    <3>1. /\ TimedOf(t)' = TimedOf(t) \cup {new} /\ tpc'[th] = "saveId" /\ tlast'[th] = nextID
          /\ acted' = acted /\ eventid' = eventid /\ scheduledAt' = scheduledAt
      <4>1. /\ scheduled' = scheduled \cup {new} /\ tlast' = [tlast EXCEPT ![th] = nextID]
            /\ TGo(th, "saveId") /\ acted' = acted /\ eventid' = eventid /\ scheduledAt' = scheduledAt
        BY <1>2, <2>5 DEF relayTrigger, TrigOf, nodeVars
      <4>2. tpc'[th] = "saveId"
        BY <4>1, GoShape DEF TrigSteps
      <4> QED BY <4>1, <4>2 DEF TimedOf, TrigShapeOK
    <3>2. new.id = nextID /\ new.due = trigNow + Trig(t).delay
      OBVIOUS
    <3> HIDE DEF new
    <3>3. ApartOK(t)'
      <4>1. ASSUME NEW s \in TimedOf(t)'
            PROVE  acted[t] + Trig(t).delay <= s.due /\ s.due <= trigNow + Trig(t).delay
        BY <1>2, <3>1, <3>2, <4>1 DEF ApartOK
      <4>2. ASSUME NEW s \in TimedOf(t)', NEW r \in TimedOf(t)', s.id < r.id
            PROVE  s.due + Trig(t).delay <= r.due
        <5>1. nextID \in Nat
          BY DEF TrigShapeOK
        <5>2. s \in TimedOf(t)
          BY <1>6, <3>1, <3>2, <4>2, <5>1
        <5> QED BY <1>2, <1>6, <2>1, <3>1, <3>2, <4>2, <5>2 DEF ApartOK, AllDue
      <4> QED BY <1>1, <3>1, <4>1, <4>2 DEF ApartOK
    <3>4. Busy(th, t)'
      <4>1. tidx' = tidx
        BY <3>1, ControlStep
      <4> QED BY <3>1, <4>1 DEF Busy
    <3>5. LastOK(t)'
      BY <1>1, <2>1, <3>1, <3>2, <3>4 DEF LastOK, AllDue
    <3>6. new.id # eventid[t]
      BY <3>2, TrigNumbers
    <3>7. StampOK(t)'
      BY <1>1, <2>2, <3>1, <3>6 DEF StampOK
    <3> QED BY <3>3, <3>5, <3>7
  <2> QED BY <1>7, <2>3, <2>4, <2>5 DEF TriggerStep, CheckTrigger, rescheduleAction, RemoveEvent,
             SaveId, SaveTs, TAt
<1>8. CASE rescheduleAction(th)
  <2>1. /\ TimedOf(t)' = TimedOf(t) /\ acted' = acted /\ eventid' = eventid /\ scheduledAt' = scheduledAt
        /\ tpc[th] = "lag" /\ tpc'[th] \in {"remove", "damping"}
        /\ tpc'[th] = "damping" => ~(Reschedules(t) /\ trigNow - scheduledAt[t] <= Trig(t).delay)
    BY <1>8, GoShape DEF rescheduleAction, nodeVars, TimedOf, TAt, TrigOf, TrigSteps
  <2>2. ~AtStep(t, {"saveTs"})
    BY <1>3, <2>1
  <2>3. CASE tpc'[th] = "damping"
    <3>1. AllDue(t)
      <4> SUFFICES ASSUME NEW s \in TimedOf(t), ~(s.due <= trigNow)
                   PROVE  FALSE
        BY DEF AllDue
      <4>1. s.id = eventid[t]
        BY <1>5, <2>1 DEF LastOK
      <4>2. s.due <= scheduledAt[t] + Trig(t).delay
        BY <2>2, <4>1 DEF StampOK
      <4>3. Reschedules(t)
        BY <1>2, <1>6, <4>1 DEF Reschedules
      <4> QED BY <1>2, <1>6, <2>1, <2>3, <4>2, <4>3
    <3> QED BY <1>1, <1>2, <2>1, <2>2, <3>1, DelayDue DEF AllDue
  <2>4. CASE tpc'[th] = "remove"
    <3>1. ApartOK(t)'
      BY <1>1, <2>1 DEF ApartOK
    <3>2. StampOK(t)'
      BY <1>1, <2>1, <2>2 DEF StampOK
    <3>3. ~AtStep(t, {"stamp", "push", "damping", "interval", "saveId"})'
      BY <1>3, <2>4
    <3>4. LastOK(t)'
      BY <1>1, <1>5, <2>1, <3>3 DEF LastOK
    <3> QED BY <3>1, <3>2, <3>4
  <2> QED BY <2>1, <2>3, <2>4
<1>9. CASE RemoveEvent(th)
  <2>1. /\ TimedOf(t)' = {s \in TimedOf(t) : s.id # eventid[t]}
        /\ acted' = acted /\ eventid' = eventid /\ scheduledAt' = scheduledAt
        /\ tpc[th] = "remove"
    BY <1>9 DEF RemoveEvent, removeEvent, nodeVars, historyVars, TimedOf, TAt, TrigOf
  <2>2. ~AtStep(t, {"saveTs"})
    BY <1>3, <2>1
  <2>3. AllDue(t)'
    BY <1>1, <1>5, <2>1 DEF LastOK, AllDue
  <2> QED BY <1>1, <1>2, <2>1, <2>2, <2>3, DelayDue
<1>10. CASE SaveId(th)
  <2>1. /\ TimedOf(t)' = TimedOf(t) /\ acted' = acted /\ eventid'[t] = tlast[th]
        /\ scheduledAt' = scheduledAt
        /\ tpc[th] = "saveId" /\ tpc'[th] = "saveTs"
    BY <1>10, GoShape DEF SaveId, nodeVars, historyVars, TimedOf, TAt, TrigOf, TrigSteps, TrigShapeOK
  <2>2. ApartOK(t)'
    BY <1>1, <2>1 DEF ApartOK
  <2>3. AtStep(t, {"saveTs"})' /\ AtStep(t, {"stamp", "push", "damping", "interval", "saveId"})
        /\ ~AtStep(t, {"stamp", "push", "damping", "interval", "saveId"})'
    BY <1>3, <2>1
  <2>4. StampOK(t)'
    BY <2>3 DEF StampOK
  <2>5. LastOK(t)'
    BY <1>1, <1>5, <2>1, <2>3 DEF LastOK
  <2> QED BY <2>2, <2>4, <2>5
<1>11. CASE SaveTs(th)
  <2>1. /\ TimedOf(t)' = TimedOf(t) /\ acted' = acted /\ eventid' = eventid
        /\ scheduledAt'[t] = trigNow
        /\ tpc[th] = "saveTs" /\ tpc'[th] \in {"idle", "check"}
    BY <1>11, ContinueShape DEF SaveTs, nodeVars, TimedOf, TAt, TrigOf, TrigShapeOK
  <2>2. ApartOK(t)'
    BY <1>1, <2>1 DEF ApartOK
  <2>3. ~AtStep(t, {"stamp", "push", "damping", "interval", "saveId"})'
    BY <1>3, <2>1
  <2>4. StampOK(t)'
    BY <1>1, <2>1 DEF StampOK, ApartOK
  <2>5. LastOK(t)'
    BY <1>1, <1>5, <2>1, <2>3 DEF LastOK
  <2> QED BY <2>2, <2>4, <2>5
<1> QED BY <1>7, <1>8, <1>9, <1>10, <1>11 DEF TriggerStep, CheckTrigger, StampEvent, damping,
           dampInterval, relayTrigger, TAt

(* A thread that is busy is left alone by the others. *)
LEMMA OutsideBusy ==
  ASSUME TrigShapeOK, Outside, NEW t, NEW h \in TrigThreads, Busy(h, t)
  PROVE  Busy(h, t)' /\ tpc'[h] = tpc[h]
<1>1. tpc[h] # "idle" /\ tpc \in [TrigThreads -> TrigSteps] /\ tidx \in [TrigThreads -> TrigIds]
  BY DEF TrigShapeOK, Busy
<1>2. tpc'[h] = tpc[h] /\ tidx'[h] = tidx[h]
  BY <1>1 DEF Outside, HandleEvent, StartTask, Start, RunDue, RunTimed, TrigTick, RaiseTrigEvent,
     ChangeWorld, trigVars, TAt, TrigThreads
<1> QED BY <1>2 DEF Busy

(* Raising a timed event, or letting time pass, keeps the rest. *)
LEMMA DelayOutside ==
  ASSUME TrigShapeOK, PastOK, EventsOK, Outside,
         NEW t \in TrigIds, Debounces(t), ApartOK(t), LastOK(t), StampOK(t)
  PROVE  ApartOK(t)' /\ LastOK(t)' /\ StampOK(t)'
<1>1. /\ setup' = setup /\ Trig(t)' = Trig(t) /\ trigNow' \in Int /\ trigNow \in Int /\ trigNow <= trigNow'
      /\ UNCHANGED <<eventid, scheduledAt, tlast>> /\ Trig(t).delay \in Int
  <2>1. /\ setup' = setup /\ trigNow' \in Int /\ trigNow <= trigNow'
        /\ UNCHANGED <<eventid, scheduledAt, tlast>>
    BY OutsideEffect DEF nodeVars
  <2> QED BY <2>1, TrigNumbers DEF Trig
<1>2. \A s \in TimedOf(t) : s.id \in Int /\ s.due \in Int
  BY TrigNumbers
<1>3. TimedOf(t)' \subseteq TimedOf(t)
  BY OutsideEffect DEF TimedOf, RunTimed
<1>4. ApartOK(t)'
  <2>1. \A s \in TimedOf(t)' : s.due <= trigNow' + Trig(t).delay
    BY <1>1, <1>2, <1>3 DEF ApartOK
  <2>2. \A s \in TimedOf(t)' : acted'[t] + Trig(t).delay <= s.due
    <3>1. CASE acted' = acted
      BY <1>3, <3>1 DEF ApartOK
    <3>2. ASSUME NEW r \in scheduled, RunTimed(r), NEW s \in TimedOf(t)'
          PROVE  acted'[t] + Trig(t).delay <= s.due
      <4>1. /\ acted' = [acted EXCEPT ![r.trigger] = r.due] /\ s # r /\ s \in scheduled
            /\ \A q \in scheduled : q.due <= trigNow => r.id <= q.id
            /\ r.due <= trigNow
        BY <3>2 DEF RunTimed, TimedOf
      <4>2. CASE r.trigger # t
        BY <1>3, <4>1, <4>2 DEF ApartOK, TrigShapeOK
      <4>3. CASE r.trigger = t
        <5>1. r \in TimedOf(t) /\ s \in TimedOf(t) /\ acted'[t] = r.due
          BY <1>3, <4>1, <4>3 DEF TimedOf, TrigShapeOK
        <5>2. s.id # r.id
          BY <4>1 DEF TrigShapeOK
        <5>3. r.id < s.id
          BY <1>1, <1>2, <4>1, <5>1, <5>2 DEF ApartOK, Debounces
        <5> QED BY <5>1, <5>3 DEF ApartOK
      <4> QED BY <4>2, <4>3
    <3> QED BY <3>1, <3>2, OutsideEffect
  <2> QED BY <1>1, <1>3, <2>1, <2>2 DEF ApartOK
<1>5. /\ AtStep(t, {"stamp", "push", "damping", "interval", "saveId"})'
           => AtStep(t, {"stamp", "push", "damping", "interval", "saveId"})
      /\ \A h \in TrigThreads : Busy(h, t) => Busy(h, t)' /\ tpc'[h] = tpc[h]
  BY OutsideBusy, BusyOutside
<1>6. StampOK(t)'
  <2>1. AtStep(t, {"saveTs"}) => AtStep(t, {"saveTs"})'
    BY <1>5 DEF AtStep
  <2> QED BY <1>1, <1>3, <2>1 DEF StampOK
<1>7. LastOK(t)'
  BY <1>1, <1>2, <1>3, <1>5 DEF LastOK
<1> QED BY <1>4, <1>6, <1>7

(* The invariant of the delays *)
LEMMA DelayStep ==
  ASSUME TrigShapeOK, PastOK, EventsOK, DelayOK, [TriggersNext]_trigVars
  PROVE  DelayOK'
<1>1. setup' = setup
  BY SetupKept, OutsideEffect DEF TriggersNext, Outside, inputVars
<1>2. TrigIds' = TrigIds /\ \A t : Debounces(t)' = Debounces(t)
  BY <1>1, AloneStays DEF Debounces
<1>3. ASSUME NEW t \in TrigIds, Debounces(t) PROVE ApartOK(t)' /\ LastOK(t)' /\ StampOK(t)'
  <2>1. ApartOK(t) /\ LastOK(t) /\ StampOK(t)
    BY <1>3 DEF DelayOK
  <2>2. ASSUME NEW th \in TrigThreads, TriggerStep(th) PROVE ApartOK(t)' /\ LastOK(t)' /\ StampOK(t)'
    <3>1. CASE t # tidx[th] \/ tpc[th] = "check"
      BY <2>1, <2>2, <3>1, DelayOthers
    <3>2. CASE t = tidx[th] /\ tpc[th] # "check"
      BY <1>3, <2>1, <2>2, <3>2, DelayOwn
    <3> QED BY <3>1, <3>2
  <2>3. CASE Outside
    BY <1>3, <2>1, <2>3, DelayOutside
  <2> QED BY <2>2, <2>3 DEF TriggersNext, Outside
<1> QED BY <1>2, <1>3 DEF DelayOK

-----------------------------------------------------------------------------
(* Damping                                                                 *)

(* A match that passes, or is suppressed, sets the time stamp if it is to; *)
(* the last one was dealt with since, or a thread still deals with it.     *)
DampOK(t) ==
  /\ passedAt[t] <= lastTrigger[t]
  /\ \/ lastTrigger[t] <= settledAt[t]
     \/ AtStep(t, {"push", "saveId", "saveTs"})
  /\ \A th \in TrigThreads : Busy(th, t) /\ tpc[th] = "interval" => tlast[th] = lastTrigger[t]
DampingOK ==
  \A t \in TrigIds : /\ Alone(t) /\ Trig(t).interval >= 0 => DampOK(t)
                     /\ Trig(t).interval < 0 => passedAt[t] = Never

(* A thread does nothing to the time stamps of other triggers. *)
LEMMA OthersDamped ==
  ASSUME TrigShapeOK, NEW th \in TrigThreads, TriggerStep(th),
         NEW t \in TrigIds, t # tidx[th] \/ tpc[th] = "check"
  PROVE  /\ lastTrigger'[t] = lastTrigger[t] /\ passedAt'[t] = passedAt[t]
         /\ settledAt'[t] = settledAt[t]
         /\ \A h \in TrigThreads : h # th => tlast'[h] = tlast[h]
<1>1. /\ tidx[th] \in TrigIds
      /\ tlast \in [TrigThreads -> Int] /\ lastTrigger \in [TrigIds -> Times]
      /\ passedAt \in [TrigIds -> Int] /\ settledAt \in [TrigIds -> Int]
  BY DEF TrigShapeOK
<1>2. CASE CheckTrigger(th)
  BY <1>1, <1>2 DEF CheckTrigger, nodeVars
<1>3. CASE rescheduleAction(th)
  BY <1>1, <1>3 DEF rescheduleAction, nodeVars
<1>4. CASE RemoveEvent(th) \/ StampEvent(th) \/ SaveId(th)
  BY <1>1, <1>4 DEF RemoveEvent, StampEvent, SaveId, nodeVars, historyVars
<1>5. CASE damping(th)
  BY <1>1, <1>5 DEF damping, Passed, TrigOf, TAt
<1>6. CASE dampInterval(th)
  BY <1>1, <1>6 DEF dampInterval, Passed, Settled, TrigOf, TAt
<1>7. CASE relayTrigger(th)
  BY <1>1, <1>7 DEF relayTrigger, Settled, nodeVars, TrigOf, TAt
<1>8. CASE SaveTs(th)
  BY <1>1, <1>8 DEF SaveTs, Settled, TrigOf, TAt
<1> QED BY <1>2, <1>3, <1>4, <1>5, <1>6, <1>7, <1>8 DEF TriggerStep

(* The thread that has the trigger: without an interval nothing is kept. *)
LEMMA NeverPassed ==
  ASSUME TrigShapeOK, NEW th \in TrigThreads, TriggerStep(th),
         NEW t \in TrigIds, Trig(t).interval < 0, passedAt[t] = Never
  PROVE  passedAt'[t] = Never
<1>1. tidx[th] \in TrigIds /\ passedAt \in [TrigIds -> Int] /\ Trig(t).interval \in Int
  BY TrigNumbers DEF TrigShapeOK
<1>2. CASE passedAt' = passedAt
  BY <1>2
<1>3. CASE Passed(th)
  BY <1>1, <1>3 DEF Passed, TrigOf
<1> QED BY <1>2, <1>3 DEF TriggerStep, CheckTrigger, rescheduleAction, RemoveEvent, StampEvent, damping,
             dampInterval, relayTrigger, SaveId, SaveTs, historyVars

(* What a thread does to the damping of its own trigger *)
LEMMA DampOwn ==
  ASSUME TrigShapeOK, PastOK, EventsOK, NEW th \in TrigThreads, TriggerStep(th), tpc[th] # "check",
         NEW t \in TrigIds, t = tidx[th], Alone(t), Trig(t).interval >= 0, DampOK(t)
  PROVE  DampOK(t)'
<1>1. ASSUME NEW S, {"idle", "check"} \cap S = {}
      PROVE  (AtStep(t, S) <=> tpc[th] \in S) /\ (AtStep(t, S)' <=> tpc'[th] \in S)
  BY <1>1, BusyAlone
<1>2. Busy(th, t) /\ \A h \in TrigThreads : Busy(h, t)' => h = th
  <2>1. Busy(th, t)
    BY ControlStep DEF Busy
  <2>2. ASSUME NEW h \in TrigThreads \ {th}, Busy(h, t)' PROVE Busy(h, t)
    BY <2>2, ControlStep DEF Busy
  <2> QED BY <2>1, <2>2, OneThread
<1>3. /\ trigNow \in Int /\ lastTrigger[t] \in Int /\ passedAt[t] \in Int /\ settledAt[t] \in Int
      /\ lastTrigger[t] <= trigNow /\ passedAt[t] <= trigNow /\ settledAt[t] <= trigNow
      /\ Trig(t).interval # Missing /\ Trig(t).interval \in Int
  BY TrigNumbers DEF PastOK, Missing
<1>4. /\ tlast \in [TrigThreads -> Int] /\ lastTrigger \in [TrigIds -> Times]
      /\ passedAt \in [TrigIds -> Int] /\ settledAt \in [TrigIds -> Int]
  BY DEF TrigShapeOK
<1>5. CASE rescheduleAction(th)
  <2>1. UNCHANGED <<lastTrigger, passedAt, settledAt>> /\ tpc[th] = "lag" /\ tpc'[th] \in {"remove", "damping"}
    BY <1>5, GoShape DEF rescheduleAction, nodeVars, TAt, TrigSteps
  <2> QED BY <1>1, <1>2, <2>1 DEF DampOK
<1>6. CASE RemoveEvent(th)
  <2>1. UNCHANGED <<lastTrigger, passedAt, settledAt>> /\ tpc[th] = "remove" /\ tpc'[th] = "stamp"
    BY <1>6, GoShape DEF RemoveEvent, nodeVars, historyVars, TAt, TrigSteps
  <2> QED BY <1>1, <1>2, <2>1 DEF DampOK
<1>7. CASE StampEvent(th)
  <2>1. UNCHANGED <<lastTrigger, passedAt, settledAt>> /\ tpc[th] = "stamp" /\ tpc'[th] = "push"
    BY <1>7, GoShape DEF StampEvent, ThenRelay, historyVars, TAt, TrigSteps
  <2> QED BY <1>1, <1>2, <2>1 DEF DampOK
<1>8. CASE damping(th)
  <2>1. CASE /\ lastTrigger' = [lastTrigger EXCEPT ![t] = trigNow] /\ TGo(th, "push") /\ Passed(th)
    <3>1. tpc'[th] = "push"
      BY <2>1, GoShape DEF TrigSteps
    <3>2. lastTrigger'[t] = trigNow /\ passedAt'[t] = trigNow
      BY <1>3, <1>4, <2>1 DEF Passed, TrigOf
    <3> QED BY <1>1, <1>2, <1>3, <3>1, <3>2 DEF DampOK
  <2>2. CASE /\ tlast' = [tlast EXCEPT ![th] = lastTrigger[t]] /\ TGo(th, "interval")
             /\ UNCHANGED <<lastTrigger, passedAt, settledAt>>
    <3>1. tpc'[th] = "interval" /\ tlast'[th] = lastTrigger[t] /\ tpc[th] = "damping"
      BY <1>4, <1>8, <2>2, GoShape DEF TrigSteps, damping, TAt
    <3> QED BY <1>1, <1>2, <2>2, <3>1 DEF DampOK
  <2> QED BY <1>3, <1>8, <2>1, <2>2 DEF damping, TrigOf
<1>9. CASE dampInterval(th)
  <2>1. tpc[th] = "interval" /\ tlast[th] = lastTrigger[t]
    BY <1>2, <1>9 DEF dampInterval, TAt, DampOK
  <2>2. CASE /\ lastTrigger' = IF Trig(t).rewind THEN [lastTrigger EXCEPT ![t] = trigNow] ELSE lastTrigger
             /\ Continue(th) /\ Settled(th) /\ UNCHANGED passedAt
    <3>1. tpc'[th] \in {"idle", "check"} /\ settledAt'[t] = trigNow
      BY <1>3, <1>4, <2>2, ContinueShape DEF Settled, TrigOf
    <3>2. lastTrigger'[t] \in {lastTrigger[t], trigNow}
      BY <1>4, <2>2
    <3> QED BY <1>1, <1>2, <1>3, <2>2, <3>1, <3>2 DEF DampOK, Busy
  <2>3. CASE lastTrigger' = [lastTrigger EXCEPT ![t] = trigNow] /\ TGo(th, "push") /\ Passed(th)
    <3>1. tpc'[th] = "push"
      BY <2>3, GoShape DEF TrigSteps
    <3>2. lastTrigger'[t] = trigNow /\ passedAt'[t] = trigNow
      BY <1>3, <1>4, <2>3 DEF Passed, TrigOf
    <3> QED BY <1>1, <1>2, <1>3, <3>1, <3>2 DEF DampOK
  <2> QED BY <1>3, <1>9, <2>2, <2>3 DEF dampInterval, TrigOf
<1>10. CASE relayTrigger(th)
  <2>1. UNCHANGED <<lastTrigger, passedAt>> /\ tpc[th] = "push"
    BY <1>10 DEF relayTrigger, nodeVars, TAt
  <2>2. CASE Continue(th) /\ Settled(th)
    <3>1. tpc'[th] \in {"idle", "check"} /\ settledAt'[t] = trigNow
      BY <1>3, <1>4, <2>2, ContinueShape DEF Settled, TrigOf
    <3> QED BY <1>1, <1>2, <1>3, <2>1, <3>1 DEF DampOK, Busy
  <2>3. CASE TGo(th, "saveId")
    <3>1. tpc'[th] = "saveId"
      BY <2>3, GoShape DEF TrigSteps
    <3> QED BY <1>1, <1>2, <2>1, <3>1 DEF DampOK
  <2> QED BY <1>10, <2>2, <2>3 DEF relayTrigger
<1>11. CASE SaveId(th)
  <2>1. UNCHANGED <<lastTrigger, passedAt>> /\ tpc'[th] = "saveTs"
    BY <1>11, GoShape DEF SaveId, historyVars, TrigSteps
  <2> QED BY <1>1, <1>2, <2>1 DEF DampOK
<1>12. CASE SaveTs(th)
  <2>1. UNCHANGED <<lastTrigger, passedAt>> /\ tpc'[th] \in {"idle", "check"} /\ settledAt'[t] = trigNow
    BY <1>3, <1>4, <1>12, ContinueShape DEF SaveTs, Settled, nodeVars, TrigOf
  <2> QED BY <1>1, <1>2, <1>3, <2>1 DEF DampOK, Busy
<1> QED BY <1>5, <1>6, <1>7, <1>8, <1>9, <1>10, <1>11, <1>12 DEF TriggerStep, CheckTrigger, TAt

(* The invariant of damping *)
LEMMA DampingStep ==
  ASSUME TrigShapeOK, PastOK, EventsOK, DampingOK, [TriggersNext]_trigVars
  PROVE  DampingOK'
<1>1. setup' = setup
  BY SetupKept, OutsideEffect DEF TriggersNext, Outside, inputVars
<1>2. TrigIds' = TrigIds /\ \A t : Alone(t)' = Alone(t) /\ Trig(t)' = Trig(t)
  BY <1>1, AloneStays
<1>3. ASSUME NEW th \in TrigThreads, TriggerStep(th), NEW t \in TrigIds, Alone(t), Trig(t).interval >= 0
      PROVE  DampOK(t)'
  <2>1. DampOK(t)
    BY <1>3 DEF DampingOK
  <2>2. CASE t # tidx[th] \/ tpc[th] = "check"
    <3>1. AtStep(t, {"push", "saveId", "saveTs"}) <=> AtStep(t, {"push", "saveId", "saveTs"})'
      BY <1>3, <2>2, BusyOthers
    <3>2. ASSUME NEW h \in TrigThreads, Busy(h, t)', tpc'[h] = "interval"
          PROVE  tlast'[h] = lastTrigger'[t]
      <4>1. h # th
        BY <1>3, <2>2, <3>2, ControlStep, MatchFound DEF Busy
      <4>2. Busy(h, t) /\ tpc[h] = "interval"
        BY <1>3, <3>2, <4>1, ControlStep DEF Busy
      <4> QED BY <1>3, <2>1, <2>2, <4>1, <4>2, OthersDamped DEF DampOK
    <3> QED BY <1>3, <2>1, <2>2, <3>1, <3>2, OthersDamped DEF DampOK
  <2>3. CASE t = tidx[th] /\ tpc[th] # "check"
    BY <1>3, <2>1, <2>3, DampOwn
  <2> QED BY <2>2, <2>3
<1>4. ASSUME Outside, NEW t \in TrigIds, DampOK(t)
      PROVE  DampOK(t)'
  <2>1. /\ UNCHANGED <<lastTrigger, passedAt, settledAt, tlast>>
        /\ \A h \in TrigThreads : Busy(h, t)' => Busy(h, t) /\ tpc'[h] = tpc[h]
    BY <1>4, OutsideEffect DEF nodeVars, Busy
  <2>2. ASSUME NEW h \in TrigThreads, Busy(h, t) PROVE Busy(h, t)' /\ tpc'[h] = tpc[h]
    BY <1>4, <2>2, OutsideBusy
  <2>3. AtStep(t, {"push", "saveId", "saveTs"}) => AtStep(t, {"push", "saveId", "saveTs"})'
    BY <2>2 DEF AtStep
  <2> QED BY <1>4, <2>1, <2>3 DEF DampOK
<1>5. CASE Outside
  BY <1>2, <1>4, <1>5, OutsideEffect DEF DampingOK
<1>6. ASSUME NEW th \in TrigThreads, TriggerStep(th) PROVE DampingOK'
  BY <1>2, <1>3, <1>6, NeverPassed DEF DampingOK
<1> QED BY <1>5, <1>6 DEF TriggersNext, Outside

-----------------------------------------------------------------------------
(* The theorems                                                            *)

TrigInv == TrigShapeOK /\ PastOK /\ EventsOK /\ DelayOK /\ DampingOK

(* At the start nothing is scheduled, and no time stamp is set. *)
LEMMA TrigInitInv == TriggersInit => TrigInv
<1> SUFFICES ASSUME TriggersInit PROVE TrigInv
  OBVIOUS
<1>1. 1 \in TrigIds /\ setup \in Setups /\ setup.max \in Nat /\ MaxTrigTime \in Nat
  BY TriggersStay, TriggersAssumption DEF TriggersInit
<1>2. TrigShapeOK
  BY <1>1 DEF TriggersInit, TrigShapeOK, Times, TrigSteps, Never, Missing
<1>3. PastOK
  BY DEF TriggersInit, PastOK, Never
<1>4. EventsOK
  BY DEF TriggersInit, EventsOK, Busy
<1>5. DelayOK
  BY DEF TriggersInit, DelayOK, ApartOK, LastOK, StampOK, TimedOf
<1>6. DampingOK
  BY DEF TriggersInit, DampingOK, DampOK, Busy, Never
<1> QED BY <1>2, <1>3, <1>4, <1>5, <1>6 DEF TrigInv

(* Every step keeps it. *)
LEMMA TrigStepInv == TrigInv /\ [TriggersNext]_trigVars => TrigInv'
<1> SUFFICES ASSUME TrigInv, [TriggersNext]_trigVars PROVE TrigInv'
  OBVIOUS
<1>1. TrigShapeOK /\ PastOK /\ EventsOK /\ DelayOK /\ DampingOK
  BY DEF TrigInv
<1>2. TrigShapeOK' /\ PastOK' /\ EventsOK'
  BY <1>1, ThreadShape, ThreadEvents, OutsideEffect DEF TriggersNext, Outside
<1>3. DelayOK' /\ DampingOK'
  BY <1>1, DelayStep, DampingStep
<1> QED BY <1>2, <1>3 DEF TrigInv

(* The invariant holds. *)
THEOREM TrigInvariance == TriggersSpec => []TrigInv
BY TrigInitInv, TrigStepInv, PTL DEF TriggersSpec

(* The steps, the property nodes and the timed events have their types. *)
THEOREM TriggersTypeCorrect == TriggersSpec => []TriggersTypeOK
<1>1. TrigInv => TriggersTypeOK
  <2> SUFFICES ASSUME TrigInv PROVE TriggersTypeOK
    OBVIOUS
  <2>1. TrigShapeOK
    BY DEF TrigInv
  <2>2. \A s \in scheduled : s.id < nextID /\ s.trigger \in TrigIds
    <3>1. \A s \in scheduled : s.id \in 0 .. nextID - 1 /\ s.trigger \in TrigIds
      BY <2>1 DEF TrigShapeOK
    <3> QED BY <2>1, <3>1 DEF TrigShapeOK
  <2> QED BY <2>1, <2>2 DEF TrigShapeOK, TriggersTypeOK
<1> QED BY <1>1, TrigInvariance, PTL

DebouncedStep ==
  \A t \in TrigIds :
    Alone(t) /\ Trig(t).reschedule /\ Trig(t).delay > 0 /\ acted'[t] # acted[t]
      => acted'[t] >= acted[t] + Trig(t).delay
DampedStep ==
  \A th \in TrigThreads : LET t == TrigOf(th) IN
    Alone(t) /\ passedAt[t] # Never /\ tpc[th] \in {"damping", "interval"} /\ tpc'[th] = "push"
      => trigNow >= passedAt[t] + Trig(t).interval
SilenceStep ==
  \A th \in TrigThreads : LET t == TrigOf(th) IN
    Alone(t) /\ tpc[th] = "interval" /\ tpc'[th] \notin {"interval", "push"}
      => matchedAt[th] < settledAt[t] + Trig(t).interval

(* An action that is executed is the delay after the one before. *)
LEMMA DebouncedHolds == TrigInv /\ [TriggersNext]_trigVars => [DebouncedStep]_trigVars
<1> SUFFICES ASSUME TrigInv, [TriggersNext]_trigVars, NEW t \in TrigIds, Debounces(t),
                    acted'[t] # acted[t]
             PROVE  acted'[t] >= acted[t] + Trig(t).delay
  BY DEF DebouncedStep, Debounces
<1>1. TrigShapeOK /\ PastOK /\ EventsOK /\ ApartOK(t)
  BY DEF TrigInv, DelayOK
<1>2. ASSUME NEW th \in TrigThreads, TriggerStep(th) PROVE acted'[t] = acted[t]
  <2>1. tidx[th] \in TrigIds /\ acted \in [TrigIds -> Int]
    BY <1>1 DEF TrigShapeOK
  <2>2. Trig(t).delay > 0 /\ Missing < 0 /\ Trig(t).delay \in Int
    BY <1>1, TrigNumbers DEF Debounces, Missing
  <2>3. CASE relayTrigger(th)
    BY <2>1, <2>2, <2>3 DEF relayTrigger, TrigOf
  <2> QED BY <1>2, <2>3 DEF TriggerStep, CheckTrigger, rescheduleAction, RemoveEvent, StampEvent,
             damping, dampInterval, SaveId, SaveTs, historyVars
<1>3. CASE Outside
  <2>1. PICK s \in scheduled : RunTimed(s)
    BY <1>1, <1>3, OutsideEffect
  <2>2. acted' = [acted EXCEPT ![s.trigger] = s.due]
    BY <2>1 DEF RunTimed
  <2>3. s.trigger = t /\ acted'[t] = s.due
    BY <1>1, <2>2 DEF TrigShapeOK
  <2>4. acted[t] + Trig(t).delay <= s.due
    BY <1>1, <2>3 DEF ApartOK, TimedOf
  <2> QED BY <1>1, <2>3, <2>4, TrigNumbers
<1> QED BY <1>2, <1>3 DEF TriggersNext, Outside

(* A match that passes is the interval after the one before. *)
LEMMA DampedHolds == TrigInv /\ [TriggersNext]_trigVars => [DampedStep]_trigVars
<1> SUFFICES ASSUME TrigInv, [TriggersNext]_trigVars, NEW th \in TrigThreads, NEW t, t = tidx[th],
                    Alone(t), passedAt[t] # Never, tpc[th] \in {"damping", "interval"},
                    tpc'[th] = "push"
             PROVE  trigNow >= passedAt[t] + Trig(t).interval
  BY DEF DampedStep, TrigOf
<1>1. TrigShapeOK /\ PastOK /\ EventsOK /\ DampingOK /\ t \in TrigIds
  BY DEF TrigInv, TrigShapeOK
<1>2. /\ trigNow \in Int /\ passedAt[t] \in Int /\ lastTrigger[t] \in Int /\ Trig(t).interval \in Int
      /\ passedAt[t] <= trigNow
  BY <1>1, TrigNumbers DEF PastOK
<1>3. Trig(t).interval >= 0 /\ DampOK(t)
  BY <1>1, <1>2 DEF DampingOK
<1>4. passedAt[t] <= lastTrigger[t] /\ lastTrigger[t] # Never
  <2>1. Never <= passedAt[t]
    BY <1>1 DEF PastOK
  <2> QED BY <1>2, <1>3, <2>1 DEF DampOK, Never
<1>5. TriggerStep(th)
  <2>1. ASSUME NEW h \in TrigThreads, TriggerStep(h) PROVE h = th
    BY <1>1, <2>1, ControlStep
  <2>2. ~Outside
    BY <1>1, OutsideEffect
  <2> QED BY <2>1, <2>2 DEF TriggersNext, Outside
<1>6. CASE damping(th)
  <2>1. TGo(th, "interval")
    BY <1>2, <1>3, <1>4, <1>6 DEF damping, TrigOf, Missing
  <2> QED BY <1>1, <2>1, GoShape DEF TrigSteps
<1>7. CASE dampInterval(th)
  <2>1. tlast[th] = lastTrigger[t] /\ tpc[th] = "interval"
    BY <1>1, <1>3, <1>7 DEF DampOK, Busy, dampInterval, TAt
  <2>2. ~Continue(th)
    BY <1>1, ContinueShape
  <2>3. ~Damps(th, t)
    BY <1>2, <1>3, <1>7, <2>2 DEF dampInterval, TrigOf
  <2> QED BY <1>2, <1>4, <2>1, <2>3 DEF Damps
<1> QED BY <1>5, <1>6, <1>7 DEF TriggerStep, CheckTrigger, rescheduleAction, RemoveEvent, StampEvent,
           relayTrigger, SaveId, SaveTs, TAt

(* A match that is suppressed came less than the interval after the last one. *)
LEMMA SilenceHolds == TrigInv /\ [TriggersNext]_trigVars => [SilenceStep]_trigVars
<1> SUFFICES ASSUME TrigInv, [TriggersNext]_trigVars, NEW th \in TrigThreads, NEW t, t = tidx[th],
                    Alone(t), tpc[th] = "interval", tpc'[th] \notin {"interval", "push"}
             PROVE  matchedAt[th] < settledAt[t] + Trig(t).interval
  BY DEF SilenceStep, TrigOf
<1>1. TrigShapeOK /\ PastOK /\ EventsOK /\ DampingOK /\ t \in TrigIds
  BY DEF TrigInv, TrigShapeOK
<1>2. /\ trigNow \in Int /\ settledAt[t] \in Int /\ lastTrigger[t] \in Int /\ Trig(t).interval \in Int
      /\ matchedAt[th] \in Int /\ matchedAt[th] <= trigNow
  BY <1>1, TrigNumbers DEF PastOK, TrigShapeOK
<1>3. TriggerStep(th)
  <2>1. ASSUME NEW h \in TrigThreads, TriggerStep(h) PROVE h = th
    BY <1>1, <2>1, ControlStep
  <2>2. CASE Outside
    <3>1. tpc'[th] = "check" /\ Busy(th, t)
      BY <1>1, <2>2, OutsideEffect DEF Busy
    <3> QED BY <1>1, <2>2, <3>1, OutsideBusy DEF Busy
  <2> QED BY <2>1, <2>2 DEF TriggersNext, Outside
<1>4. dampInterval(th) /\ Busy(th, t)
  BY <1>3 DEF TriggerStep, CheckTrigger, rescheduleAction, RemoveEvent, StampEvent, damping,
     relayTrigger, SaveId, SaveTs, TAt, Busy
<1>5. ~TGo(th, "push")
  BY <1>1, GoShape DEF TrigSteps
<1>6. Trig(t).interval >= 0 /\ Damps(th, t)
  BY <1>2, <1>4, <1>5 DEF dampInterval, TrigOf
<1>7. DampOK(t)
  BY <1>1, <1>6 DEF DampingOK
<1>8. ~AtStep(t, {"push", "saveId", "saveTs"})
  <2>1. \A h \in TrigThreads : Busy(h, t) => h = th
    BY <1>1, <1>4, OneThread
  <2> QED BY <2>1 DEF AtStep
<1>9. tlast[th] = lastTrigger[t] /\ lastTrigger[t] <= settledAt[t]
  BY <1>4, <1>7, <1>8 DEF DampOK
<1> QED BY <1>2, <1>6, <1>9 DEF Damps

(* For any triggers, delays and intervals: neither too early, after a delay or *)
(* an interval, nor suppressed for longer than the interval, as long as one    *)
(* thread runs the trigger.                                                    *)
THEOREM TimingHolds == TriggersSpec => TriggerTiming
<1>1. TriggersSpec => [][DebouncedStep]_trigVars
  BY TrigInvariance, DebouncedHolds, PTL DEF TriggersSpec
<1>2. TriggersSpec => [][DampedStep]_trigVars
  BY TrigInvariance, DampedHolds, PTL DEF TriggersSpec
<1>3. TriggersSpec => [][SilenceStep]_trigVars
  BY TrigInvariance, SilenceHolds, PTL DEF TriggersSpec
<1> QED BY <1>1, <1>2, <1>3
        DEF TriggerTiming, Debounced, DampedApart, SilenceIsHonoured, DebouncedStep, DampedStep, SilenceStep
=============================================================================
