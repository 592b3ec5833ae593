---------------------------- MODULE StatesProofs ----------------------------
(***************************************************************************)
(* For any inputs, user groups and messages, and any number of restarts:   *)
(* the system states agree with the inputs, with the bus and with each     *)
(* other when all is handled, alarms are cleared by the commands that are  *)
(* to clear them, and survive a restart.  At the end: for any number of    *)
(* dSMs and any reports, setApartmentState follows the rule of its comment.*)
(***************************************************************************)
EXTENDS SystemStates, ApartmentState, FiniteSetTheorems, FunctionTheorems, SequenceTheorems,
        TLAPS

Values  == 0 .. 3 \cup {None}
Origin4 == {"system", "binaryInput", "dsmApi", "other"}
Heeded  == {k \in StateKeys : IsHeeded(k)}
Mode    == At("heating_water_system")

(* What the plugin sends, and what the event queue may hold *)
SystemCalls == [kind : {"call", "undo"}, scene : ApartmentScenes, group : Nat, origin : {"system"},
                button : BOOLEAN]
PresetCalls == [kind : {"call"}, scene : {"preset1", "off"}, group : {3}, origin : {"binaryInput"},
                button : BOOLEAN]
OwnCalls    == SystemCalls \cup PresetCalls
DeviceEvents  == [kind : {"device"}, input : Inputs, value : 1 .. 3]
ServiceEvents == [kind : {"service"}, key : Heeded, value : 0 .. 3, origin : Origin4]
QueuedEvents  == SceneMessages \cup OwnCalls \cup SystemSignals \cup DeviceEvents
                   \cup ServiceEvents \cup [kind : {"running", "model_ready"}]

QueuesOK == /\ modelQueue \in Seq(Messages \cup OwnCalls) /\ eventQueue \in Seq(QueuedEvents)
            /\ offered \in Offers
ShapeOK ==
  /\ m_states \in [StateKeys -> Values] /\ files \in [StateKeys -> Values]
  /\ inputs \in [Inputs -> 0 .. 3] /\ counters \in [CounterKeys -> Nat]
  /\ messages \in 0 .. MaxMessages /\ restarts \in 0 .. MaxRestarts
  /\ onBus \in [StateKeys -> Values] /\ before \in [StateKeys -> Values]
  /\ overridden \subseteq StateKeys /\ doubtful \subseteq Inputs /\ cleared \subseteq {"panic", "fire"}

(* A state is what was saved last *)
SavedOK == \A k \in StateKeys : m_states[k] # None => m_states[k] = Loaded(k)

(* The states are loaded before anything else is handled *)
NoStart(q) == \A j \in DOMAIN q : q[j].kind # "running"
StartOK ==
  \/ /\ eventQueue # <<>> /\ Head(eventQueue).kind = "running" /\ NoStart(Tail(eventQueue))
     /\ \A k \in StateKeys : m_states[k] = None
  \/ NoStart(eventQueue) /\ \A k \in Bootstrapped : m_states[k] # None
NewOK == overridden # StateKeys => \A k \in StateKeys : m_states[k] = None => files[k] = None

(* What makes the state active, and what leads to its being reset *)
Sets(e, s) ==
  \/ e.kind = "call" /\ e.scene = s /\ e.group = 0 /\ e.origin # "system"
  \/ e.kind \in {"report", "device"} /\ s = "fire" /\ e.input.type = "smoke" /\ e.value = Active
  \/ e.kind = "running"
Resets(e, s) ==
  \/ e.kind = "call" /\ e.scene = "absent" /\ e.group = 0 /\ e.origin # "system"
  \/ e.kind = "undo" /\ e.group = 0
     /\ \/ e.scene = s
        \/ e.button /\ e.origin = "dsmApi" /\ e.scene \in DOMAIN Partner /\ s = Partner[e.scene]
NoneSets(q, s) == \A j \in DOMAIN q : ~Sets(q[j], s)
(* the last that has to do with s resets it *)
IsReset(q, s) == \E j \in DOMAIN q : Resets(q[j], s) /\ \A l \in DOMAIN q : l > j => ~Sets(q[l], s)
ClearedOK ==
  \A s \in cleared :
    \/ IsReset(modelQueue, s)
    \/ NoneSets(modelQueue, s) /\ IsReset(eventQueue, s)
    \/ NoneSets(modelQueue, s) /\ NoneSets(eventQueue, s) /\ m_states[At(s)] # Active

(* After a restart, until a message comes, nothing changes what was loaded *)
Surviving == {At(s) : s \in {"fire", "alarm2", "alarm3", "alarm4", "wind", "rain", "frost"}}
NewStart(q) == \A j \in DOMAIN q : q[j].kind \in {"running", "model_ready"}
RestartedOK ==
  (\E k \in StateKeys : before[k] # None) =>
    /\ modelQueue = <<>> /\ NewStart(eventQueue)
    /\ \A k \in Surviving : before[k] # None => Loaded(k) = before[k]

(* What is on its way to the plugin and may set a state has overridden it *)
Foreign(e, k) ==
  \/ e.kind = "call" /\ e.origin # "system" /\ k \in Overrides(e)
  \/ e.kind = "signal" /\ e.key = k
OverridingOK ==
  \A k \in StateKeys \ overridden :
    /\ \A j \in DOMAIN modelQueue : ~Foreign(modelQueue[j], k)
    /\ \A j \in DOMAIN eventQueue : Foreign(eventQueue[j], k) => k = Mode

(* What has to be sent on the bus because of a state, or to be set: the *)
(* last of the events decides                                           *)
About(e, k) ==
  \/ e.kind = "service" /\ e.key = k /\ e.origin # "system" /\ k # Mode
  \/ e.kind = "signal" /\ e.key = k /\ k = Mode
Silent(q, k) == \A j \in DOMAIN q : ~About(q[j], k)
Ends(q, k, x) ==
  \E j \in DOMAIN q : /\ About(q[j], k) /\ q[j].value = x
                      /\ \A l \in DOMAIN q : l > j => ~About(q[l], k)
ModeOK ==
  Mode \notin overridden =>
    /\ m_states[Mode] = None => Silent(eventQueue, Mode)
    /\ \A x \in {0, 1, 2} : HeatingModeOf(m_states) = <<x>> =>
         \/ Silent(eventQueue, Mode) /\ x = m_states[Mode]
         \/ Ends(eventQueue, Mode, x)
BusOK ==
  \A k \in StateKeys \ overridden : k[1] \in {"wind", "rain"} =>
    \/ /\ Silent(eventQueue, k)
       /\ onBus[k] = m_states[k] \/ (onBus[k] = None /\ m_states[k] = Inactive)
    \/ m_states[k] \in {Active, Inactive} /\ Ends(eventQueue, k, m_states[k])

(* What the plugin has counted of an input is x, what was reported last is y: *)
(* the events in between alternate                                            *)
Of(e, i) == e.kind = "device" /\ e.input = i
Turns(q, i, x, y) ==
  /\ \A j \in DOMAIN q : Of(q[j], i) => q[j].value \in {Active, Inactive}
  /\ \A j \in DOMAIN q : Of(q[j], i) => \/ q[j].value # x
                                        \/ \E l \in DOMAIN q : l < j /\ Of(q[l], i)
  /\ \A h, j \in DOMAIN q : h < j /\ Of(q[h], i) /\ Of(q[j], i) =>
       \/ q[j].value # q[h].value
       \/ \E l \in DOMAIN q : h < l /\ l < j /\ Of(q[l], i)
  /\ \A j \in DOMAIN q : Of(q[j], i) => \/ q[j].value = y
                                        \/ \E l \in DOMAIN q : l > j /\ Of(q[l], i)
  /\ \A j \in DOMAIN q : Of(q[j], i) => x \in {Active, Inactive}
  /\ \/ x = y
     \/ \E j \in DOMAIN q : Of(q[j], i)
TurnsOK(told) ==
  \A i \in Inputs \ doubtful : i.type \in Combined => Turns(eventQueue, i, told[i], inputs[i])
On(told, c) == {i \in Inputs : i.type \in Combined /\ Counter(i) = c /\ told[i] = Active}
CountsOK(told) ==
  \A c \in CounterKeys :
    (\A i \in Inputs : i.type \in Combined /\ Counter(i) = c => i \notin doubtful) =>
      counters[c] = Cardinality(On(told, c))
OnlyInputs(k) ==
  /\ k \notin overridden /\ k[1] \in {"motion", "presence", "wind", "rain", "frost"}
  /\ Feeding(k) # {} /\ Feeding(k) \cap doubtful = {} /\ OneTarget(k)
OrOK(told) ==
  \A k \in StateKeys : OnlyInputs(k) =>
    (m_states[k] = Active <=> \E i \in Feeding(k) : told[i] = Active)
CombinedOK == \E told \in [Inputs -> 0 .. 3] : TurnsOK(told) /\ CountsOK(told) /\ OrOK(told)

-----------------------------------------------------------------------------
(* Sequences                                                               *)

(* The rest of a queue, with a sequence appended, element by element. *)
LEMMA Joined ==
  ASSUME NEW S, NEW a \in Seq(S), NEW b \in Seq(S)
  PROVE  /\ a \o b \in Seq(S)
         /\ DOMAIN a = 1 .. Len(a) /\ DOMAIN b = 1 .. Len(b) /\ Len(a) \in Nat /\ Len(b) \in Nat
         /\ DOMAIN (a \o b) = 1 .. Len(a) + Len(b)
         /\ \A j \in DOMAIN a : j \in DOMAIN (a \o b) /\ (a \o b)[j] = a[j]
         /\ \A j \in DOMAIN b : Len(a) + j \in DOMAIN (a \o b) /\ (a \o b)[Len(a) + j] = b[j]
         /\ \A j \in DOMAIN (a \o b) : \/ j \in DOMAIN a /\ (a \o b)[j] = a[j]
                                       \/ j - Len(a) \in DOMAIN b /\ (a \o b)[j] = b[j - Len(a)]
<1>1. /\ a \o b \in Seq(S) /\ Len(a \o b) = Len(a) + Len(b)
      /\ \A i \in 1 .. Len(a) + Len(b) : (a \o b)[i] = IF i <= Len(a) THEN a[i] ELSE b[i - Len(a)]
  BY ConcatProperties
<1>2. Len(a) \in Nat /\ Len(b) \in Nat /\ DOMAIN a = 1 .. Len(a) /\ DOMAIN b = 1 .. Len(b)
  BY LenProperties
<1>3. DOMAIN (a \o b) = 1 .. Len(a) + Len(b)
  BY <1>1, LenProperties
<1> QED BY <1>1, <1>2, <1>3

(* A queue is its head and its tail. *)
LEMMA Taken ==
  ASSUME NEW S, NEW q \in Seq(S), q # <<>>
  PROVE  /\ Tail(q) \in Seq(S) /\ Head(q) \in S /\ Head(q) = q[1]
         /\ 1 \in DOMAIN q /\ DOMAIN q = 1 .. Len(q) /\ Len(q) \in Nat
         /\ DOMAIN Tail(q) = 1 .. Len(q) - 1
         /\ \A j \in DOMAIN Tail(q) : j + 1 \in DOMAIN q /\ Tail(q)[j] = q[j + 1]
         /\ \A j \in DOMAIN q : j = 1 \/ (j - 1 \in DOMAIN Tail(q) /\ Tail(q)[j - 1] = q[j])
<1>1. /\ Head(q) \in S /\ Tail(q) \in Seq(S) /\ Len(Tail(q)) = Len(q) - 1
      /\ \A i \in 1 .. Len(Tail(q)) : Tail(q)[i] = q[i + 1]
  BY HeadTailProperties
<1>2. Len(q) \in Nat \ {0} /\ DOMAIN q = 1 .. Len(q) /\ DOMAIN Tail(q) = 1 .. Len(Tail(q))
  BY <1>1, LenProperties, EmptySeq
<1>3. Head(q) = q[1]
  BY <1>2
<1> QED BY <1>1, <1>2, <1>3

(* A sequence with one element. *)
LEMMA OneElement ==
  ASSUME NEW S, NEW e \in S
  PROVE  <<e>> \in Seq(S) /\ DOMAIN <<e>> = {1} /\ <<e>>[1] = e /\ Len(<<e>>) = 1
<1>1. <<e>> \in Seq(S) /\ Len(<<e>>) = 1 /\ <<e>>[1] = e
  OBVIOUS
<1>2. DOMAIN <<e>> = 1 .. Len(<<e>>)
  BY <1>1, LenProperties
<1> QED BY <1>1, <1>2

(* Appending is joining one element. *)
LEMMA Appended ==
  ASSUME NEW S, NEW q \in Seq(S), NEW e \in S
  PROVE  Append(q, e) = q \o <<e>>
BY AppendIsConcat

(* Nothing is in the empty sequence. *)
LEMMA NoElement == DOMAIN << >> = {}
<1>1. << >> \in Seq({}) /\ Len(<< >>) = 0
  BY EmptySeq
<1> QED BY <1>1, LenProperties

(* Resetting an alarm: what is joined decides, else what was there. *)
LEMMA ResetJoined ==
  ASSUME NEW S, NEW a \in Seq(S), NEW b \in Seq(S), NEW s
  PROVE  /\ NoneSets(a, s) /\ NoneSets(b, s) => NoneSets(a \o b, s)
         /\ IsReset(b, s) => IsReset(a \o b, s)
         /\ IsReset(a, s) /\ NoneSets(b, s) => IsReset(a \o b, s)
<1> USE Joined
<1>1. NoneSets(a, s) /\ NoneSets(b, s) => NoneSets(a \o b, s)
  BY DEF NoneSets
<1>2. ASSUME IsReset(b, s) PROVE IsReset(a \o b, s)
  <2>1. PICK j \in DOMAIN b : Resets(b[j], s) /\ \A l \in DOMAIN b : l > j => ~Sets(b[l], s)
    BY <1>2 DEF IsReset
  <2>2. ASSUME NEW l \in DOMAIN (a \o b), l > Len(a) + j PROVE ~Sets((a \o b)[l], s)
    <3>1. PICK m \in DOMAIN b : m > j /\ (a \o b)[l] = b[m]
      <4>1. l - Len(a) \in DOMAIN b /\ (a \o b)[l] = b[l - Len(a)] /\ l - Len(a) > j
        BY <2>2
      <4> QED BY <4>1, Zenon
    <3> QED BY <2>1, <3>1, Zenon
  <2>3. Len(a) + j \in DOMAIN (a \o b) /\ Resets((a \o b)[Len(a) + j], s)
    BY <2>1
  <2> QED BY <2>2, <2>3 DEF IsReset
<1>3. ASSUME IsReset(a, s), NoneSets(b, s) PROVE IsReset(a \o b, s)
  <2>1. PICK j \in DOMAIN a : Resets(a[j], s) /\ \A l \in DOMAIN a : l > j => ~Sets(a[l], s)
    BY <1>3 DEF IsReset
  <2>2. \A l \in DOMAIN (a \o b) : l > j => ~Sets((a \o b)[l], s)
    BY <2>1, <1>3 DEF NoneSets
  <2> QED BY <2>1, <2>2 DEF IsReset
<1> QED BY <1>1, <1>2, <1>3

(* Without the head of the queue. *)
LEMMA ResetTaken ==
  ASSUME NEW S, NEW q \in Seq(S), q # <<>>, NEW s
  PROVE  /\ NoneSets(q, s) => NoneSets(Tail(q), s) /\ ~Sets(Head(q), s)
         /\ IsReset(q, s) => IsReset(Tail(q), s) \/ (Resets(Head(q), s) /\ NoneSets(Tail(q), s))
<1> USE Taken
<1>1. NoneSets(q, s) => NoneSets(Tail(q), s) /\ ~Sets(Head(q), s)
  BY DEF NoneSets
<1>2. ASSUME IsReset(q, s) PROVE IsReset(Tail(q), s) \/ (Resets(Head(q), s) /\ NoneSets(Tail(q), s))
  <2>1. PICK j \in DOMAIN q : Resets(q[j], s) /\ \A l \in DOMAIN q : l > j => ~Sets(q[l], s)
    BY <1>2 DEF IsReset
  <2>2. CASE j = 1
    BY <2>1, <2>2 DEF NoneSets
  <2>3. CASE j # 1
    <3>1. j - 1 \in DOMAIN Tail(q) /\ Resets(Tail(q)[j - 1], s)
      BY <2>1, <2>3
    <3>2. \A l \in DOMAIN Tail(q) : l > j - 1 => ~Sets(Tail(q)[l], s)
      BY <2>1
    <3> QED BY <3>1, <3>2 DEF IsReset
  <2> QED BY <2>2, <2>3
<1> QED BY <1>1, <1>2

(* The last event about a state: what is joined decides, else what was there. *)
LEMMA EndsJoined ==
  ASSUME NEW S, NEW a \in Seq(S), NEW b \in Seq(S), NEW k, NEW x
  PROVE  /\ Silent(a, k) /\ Silent(b, k) => Silent(a \o b, k)
         /\ Ends(b, k, x) => Ends(a \o b, k, x)
         /\ Ends(a, k, x) /\ Silent(b, k) => Ends(a \o b, k, x)
<1> USE Joined
<1>1. Silent(a, k) /\ Silent(b, k) => Silent(a \o b, k)
  BY DEF Silent
<1>2. ASSUME Ends(b, k, x) PROVE Ends(a \o b, k, x)
  <2>1. PICK j \in DOMAIN b : /\ About(b[j], k) /\ b[j].value = x
                              /\ \A l \in DOMAIN b : l > j => ~About(b[l], k)
    BY <1>2 DEF Ends
  <2>2. ASSUME NEW l \in DOMAIN (a \o b), l > Len(a) + j PROVE ~About((a \o b)[l], k)
    <3>1. PICK m \in DOMAIN b : m > j /\ (a \o b)[l] = b[m]
      <4>1. l - Len(a) \in DOMAIN b /\ (a \o b)[l] = b[l - Len(a)] /\ l - Len(a) > j
        BY <2>2
      <4> QED BY <4>1, Zenon
    <3> QED BY <2>1, <3>1, Zenon
  <2>3. Len(a) + j \in DOMAIN (a \o b) /\ About((a \o b)[Len(a) + j], k) /\ (a \o b)[Len(a) + j].value = x
    BY <2>1
  <2> QED BY <2>2, <2>3 DEF Ends
<1>3. ASSUME Ends(a, k, x), Silent(b, k) PROVE Ends(a \o b, k, x)
  <2>1. PICK j \in DOMAIN a : /\ About(a[j], k) /\ a[j].value = x
                              /\ \A l \in DOMAIN a : l > j => ~About(a[l], k)
    BY <1>3 DEF Ends
  <2>2. \A l \in DOMAIN (a \o b) : l > j => ~About((a \o b)[l], k)
    BY <2>1, <1>3 DEF Silent
  <2> QED BY <2>1, <2>2 DEF Ends
<1> QED BY <1>1, <1>2, <1>3

(* Without the head of the queue. *)
LEMMA EndsTaken ==
  ASSUME NEW S, NEW q \in Seq(S), q # <<>>, NEW k, NEW x
  PROVE  /\ Silent(q, k) => Silent(Tail(q), k) /\ ~About(Head(q), k)
         /\ Ends(q, k, x) => \/ Ends(Tail(q), k, x)
                             \/ About(Head(q), k) /\ Head(q).value = x /\ Silent(Tail(q), k)
<1> USE Taken
<1>1. Silent(q, k) => Silent(Tail(q), k) /\ ~About(Head(q), k)
  BY DEF Silent
<1>2. ASSUME Ends(q, k, x)
      PROVE  \/ Ends(Tail(q), k, x)
             \/ About(Head(q), k) /\ Head(q).value = x /\ Silent(Tail(q), k)
  <2>1. PICK j \in DOMAIN q : /\ About(q[j], k) /\ q[j].value = x
                              /\ \A l \in DOMAIN q : l > j => ~About(q[l], k)
    BY <1>2 DEF Ends
  <2>2. CASE j = 1
    BY <2>1, <2>2 DEF Silent
  <2>3. CASE j # 1
    <3>1. j - 1 \in DOMAIN Tail(q) /\ About(Tail(q)[j - 1], k) /\ Tail(q)[j - 1].value = x
      BY <2>1, <2>3
    <3>2. \A l \in DOMAIN Tail(q) : l > j - 1 => ~About(Tail(q)[l], k)
      BY <2>1
    <3> QED BY <3>1, <3>2 DEF Ends
  <2> QED BY <2>2, <2>3
<1> QED BY <1>1, <1>2

(* Other events do not matter to the turns of an input. *)
LEMMA TurnsJoined ==
  ASSUME NEW S, NEW a \in Seq(S), NEW b \in Seq(S), NEW i, NEW x, NEW y,
         Turns(a, i, x, y), \A j \in DOMAIN b : ~Of(b[j], i)
  PROVE  Turns(a \o b, i, x, y)
<1> DEFINE q == a \o b
<1>1. \A j \in DOMAIN a : j \in DOMAIN q /\ q[j] = a[j]
  BY Joined
<1>2. \A j \in DOMAIN q : Of(q[j], i) => j \in DOMAIN a /\ q[j] = a[j]
  <2> SUFFICES ASSUME NEW j \in DOMAIN q, Of(q[j], i) PROVE j \in DOMAIN a /\ q[j] = a[j]
    OBVIOUS
  <2>1. \/ j \in DOMAIN a /\ q[j] = a[j]
        \/ j - Len(a) \in DOMAIN b /\ q[j] = b[j - Len(a)]
    BY Joined
  <2> QED BY <2>1
<1> HIDE DEF q
<1> QED BY <1>1, <1>2 DEF Turns, q

(* A report of a change is the next turn. *)
LEMMA TurnsReported ==
  ASSUME NEW S, NEW a \in Seq(S), NEW i, NEW x, NEW y, NEW e \in S,
         Turns(a, i, x, y), Of(e, i), e.value # y,
         y \in {Active, Inactive}, e.value \in {Active, Inactive}
  PROVE  Turns(a \o <<e>>, i, x, e.value)
<1> DEFINE q == a \o <<e>>
           n == Len(a) + 1
<1>1. /\ <<e>> \in Seq(S) /\ DOMAIN <<e>> = {1} /\ <<e>>[1] = e /\ Len(<<e>>) = 1
  BY OneElement
<1>2. /\ DOMAIN a = 1 .. Len(a) /\ Len(a) \in Nat /\ DOMAIN q = 1 .. Len(a) + 1
      /\ \A j \in DOMAIN a : q[j] = a[j]
  BY <1>1, Joined
<1>3. q[n] = e
  BY <1>1, Joined
<1>4. /\ n \in DOMAIN q /\ q[n] = e /\ \A j \in DOMAIN a : j \in DOMAIN q /\ q[j] = a[j] /\ j < n
      /\ \A j \in DOMAIN q : j = n \/ j \in DOMAIN a
  BY <1>2, <1>3
<1> HIDE DEF q, n
<1>5. \A j \in DOMAIN q : Of(q[j], i) => q[j].value \in {Active, Inactive}
  BY <1>4 DEF Turns
<1>6. \A j \in DOMAIN q : Of(q[j], i) => q[j].value # x \/ \E l \in DOMAIN q : l < j /\ Of(q[l], i)
  <2> SUFFICES ASSUME NEW j \in DOMAIN q, Of(q[j], i)
               PROVE  q[j].value # x \/ \E l \in DOMAIN q : l < j /\ Of(q[l], i)
    OBVIOUS
  <2>1. CASE j = n
    BY <1>4, <2>1 DEF Turns
  <2>2. CASE j \in DOMAIN a
    BY <1>4, <2>2 DEF Turns
  <2> QED BY <1>4, <2>1, <2>2
<1>7. \A h, j \in DOMAIN q : h < j /\ Of(q[h], i) /\ Of(q[j], i) =>
        q[j].value # q[h].value \/ \E l \in DOMAIN q : h < l /\ l < j /\ Of(q[l], i)
  <2> SUFFICES ASSUME NEW h \in DOMAIN q, NEW j \in DOMAIN q, h < j, Of(q[h], i), Of(q[j], i)
               PROVE  q[j].value # q[h].value \/ \E l \in DOMAIN q : h < l /\ l < j /\ Of(q[l], i)
    OBVIOUS
  <2>1. h \in DOMAIN a
    BY <1>2, <1>4 DEF n, q
  <2>2. CASE j = n
    BY <1>4, <2>1, <2>2 DEF Turns
  <2>3. CASE j \in DOMAIN a
    BY <1>4, <2>1, <2>3 DEF Turns
  <2> QED BY <1>4, <2>2, <2>3
<1>8. \A j \in DOMAIN q : Of(q[j], i) => q[j].value = e.value \/ \E l \in DOMAIN q : l > j /\ Of(q[l], i)
  <2> SUFFICES ASSUME NEW j \in DOMAIN q, j # n PROVE \E l \in DOMAIN q : l > j /\ Of(q[l], i)
    BY <1>4
  <2>1. n > j
    BY <1>2, <1>4 DEF n
  <2> QED BY <1>4, <2>1
<1>9. x \in {Active, Inactive}
  BY DEF Turns
<1>10. \E j \in DOMAIN q : Of(q[j], i)
  BY <1>4
<1> QED BY <1>5, <1>6, <1>7, <1>8, <1>9, <1>10 DEF Turns, q

(* The event at the head of the queue is the next turn. *)
LEMMA TurnsTaken ==
  ASSUME NEW S, NEW q \in Seq(S), q # <<>>, NEW i, NEW x, NEW y, Turns(q, i, x, y)
  PROVE  IF Of(Head(q), i)
         THEN /\ Head(q).value \in {Active, Inactive} /\ x \in {Active, Inactive}
              /\ Head(q).value # x /\ Turns(Tail(q), i, Head(q).value, y)
         ELSE Turns(Tail(q), i, x, y)
<1> DEFINE t == Tail(q)
<1>1. /\ Head(q) = q[1] /\ 1 \in DOMAIN q /\ DOMAIN q \subseteq Int /\ DOMAIN t \subseteq Int
      /\ \A j \in DOMAIN t : j + 1 \in DOMAIN q /\ t[j] = q[j + 1] /\ j + 1 > 1
      /\ \A j \in DOMAIN q : j = 1 \/ (j - 1 \in DOMAIN t /\ t[j - 1] = q[j])
      /\ \A j \in DOMAIN q : j >= 1
  BY Taken
<1> HIDE DEF t
<1>2. \A j \in DOMAIN t : Of(t[j], i) => t[j].value \in {Active, Inactive} /\ x \in {Active, Inactive}
  BY <1>1 DEF Turns
<1>3. \A h, j \in DOMAIN t : h < j /\ Of(t[h], i) /\ Of(t[j], i) =>
        t[j].value # t[h].value \/ \E l \in DOMAIN t : h < l /\ l < j /\ Of(t[l], i)
  <2> SUFFICES ASSUME NEW h \in DOMAIN t, NEW j \in DOMAIN t, h < j, Of(t[h], i), Of(t[j], i),
                      t[j].value = t[h].value
               PROVE  \E l \in DOMAIN t : h < l /\ l < j /\ Of(t[l], i)
    OBVIOUS
  <2>1. h + 1 \in DOMAIN q /\ j + 1 \in DOMAIN q /\ h + 1 < j + 1
        /\ Of(q[h + 1], i) /\ Of(q[j + 1], i) /\ q[j + 1].value = q[h + 1].value
    BY <1>1
  <2>2. PICK l \in DOMAIN q : h + 1 < l /\ l < j + 1 /\ Of(q[l], i)
    BY <2>1 DEF Turns
  <2>3. l - 1 \in DOMAIN t /\ h < l - 1 /\ l - 1 < j /\ Of(t[l - 1], i)
    BY <1>1, <2>2
  <2> QED BY <2>3
<1>4. \A j \in DOMAIN t : Of(t[j], i) => t[j].value = y \/ \E l \in DOMAIN t : l > j /\ Of(t[l], i)
  <2> SUFFICES ASSUME NEW j \in DOMAIN t, Of(t[j], i), t[j].value # y
               PROVE  \E l \in DOMAIN t : l > j /\ Of(t[l], i)
    OBVIOUS
  <2>1. j + 1 \in DOMAIN q /\ Of(q[j + 1], i) /\ q[j + 1].value # y
    BY <1>1
  <2>2. PICK l \in DOMAIN q : l > j + 1 /\ Of(q[l], i)
    BY <2>1 DEF Turns
  <2>3. l - 1 \in DOMAIN t /\ l - 1 > j /\ Of(t[l - 1], i)
    BY <1>1, <2>2
  <2> QED BY <2>3
<1>5. CASE Of(Head(q), i)
  <2> DEFINE v == q[1].value
  <2>1. v \in {Active, Inactive} /\ x \in {Active, Inactive}
    BY <1>1, <1>5 DEF Turns
  <2>2. v # x
    BY <1>1, <1>5 DEF Turns
  <2>3. \A j \in DOMAIN t : Of(t[j], i) => t[j].value # v \/ \E l \in DOMAIN t : l < j /\ Of(t[l], i)
    <3> SUFFICES ASSUME NEW j \in DOMAIN t, Of(t[j], i), t[j].value = v
                 PROVE  \E l \in DOMAIN t : l < j /\ Of(t[l], i)
      OBVIOUS
    <3>1. j + 1 \in DOMAIN q /\ 1 < j + 1 /\ Of(q[j + 1], i) /\ Of(q[1], i) /\ q[j + 1].value = q[1].value
      BY <1>1, <1>5
    <3>2. PICK l \in DOMAIN q : 1 < l /\ l < j + 1 /\ Of(q[l], i)
      BY <1>1, <3>1 DEF Turns
    <3>3. l - 1 \in DOMAIN t /\ l - 1 < j /\ Of(t[l - 1], i)
      BY <1>1, <3>2
    <3> QED BY <3>3
  <2>4. v = y \/ \E j \in DOMAIN t : Of(t[j], i)
    <3>1. v = y \/ \E l \in DOMAIN q : l > 1 /\ Of(q[l], i)
      BY <1>1, <1>5 DEF Turns
    <3>2. ASSUME NEW l \in DOMAIN q, l > 1, Of(q[l], i) PROVE l - 1 \in DOMAIN t /\ Of(t[l - 1], i)
      BY <1>1, <3>2
    <3> QED BY <3>1, <3>2
  <2>5. Turns(t, i, v, y)
    BY <1>2, <1>3, <1>4, <2>1, <2>3, <2>4 DEF Turns
  <2> QED BY <1>1, <1>5, <2>1, <2>2, <2>5 DEF t
<1>6. CASE ~Of(Head(q), i)
  <2>1. \A j \in DOMAIN t : Of(t[j], i) => t[j].value # x \/ \E l \in DOMAIN t : l < j /\ Of(t[l], i)
    <3> SUFFICES ASSUME NEW j \in DOMAIN t, Of(t[j], i), t[j].value = x
                 PROVE  \E l \in DOMAIN t : l < j /\ Of(t[l], i)
      OBVIOUS
    <3>1. j + 1 \in DOMAIN q /\ Of(q[j + 1], i) /\ q[j + 1].value = x
      BY <1>1
    <3>2. PICK l \in DOMAIN q : l < j + 1 /\ Of(q[l], i)
      BY <3>1 DEF Turns
    <3>3. l # 1
      BY <1>1, <1>6, <3>2
    <3>4. l - 1 \in DOMAIN t /\ l - 1 < j /\ Of(t[l - 1], i)
      BY <1>1, <3>2, <3>3
    <3> QED BY <3>4
  <2>2. x = y \/ \E j \in DOMAIN t : Of(t[j], i)
    <3>1. x = y \/ \E l \in DOMAIN q : Of(q[l], i)
      BY DEF Turns
    <3>2. ASSUME NEW l \in DOMAIN q, Of(q[l], i) PROVE l - 1 \in DOMAIN t /\ Of(t[l - 1], i)
      <4>1. l # 1
        BY <1>1, <1>6, <3>2
      <4> QED BY <1>1, <3>2, <4>1
    <3> QED BY <3>1, <3>2
  <2>3. Turns(t, i, x, y)
    BY <1>2, <1>3, <1>4, <2>1, <2>2 DEF Turns
  <2> QED BY <1>6, <2>3 DEF t
<1> QED BY <1>5, <1>6

-----------------------------------------------------------------------------
(* The states                                                              *)

(* A key is a name and a number. *)
LEMMA Pairs ==
  /\ \A n : At(n) = <<n, 0>> /\ At(n)[1] = n /\ At(n)[2] = 0
  /\ \A n, g : InGroup(n, g) = <<n, g>> /\ InGroup(n, g)[1] = n /\ InGroup(n, g)[2] = g
  /\ \A n, z : InZone(n, z) = <<n, 1000 + z>> /\ InZone(n, z)[1] = n /\ InZone(n, z)[2] = 1000 + z
BY DEF At, InGroup, InZone

(* IDs of user groups are not 0. *)
LEMMA GroupIDs == \A g \in UserGroups : g \in Nat /\ g >= 16
BY StatesAssumption

(* The keys of the inputs, of the groups and of the apartment *)
LEMMA Keys ==
  /\ \A i \in Inputs : KeyOf(i) \in StateKeys /\ Counter(i) \in CounterKeys
  /\ Bootstrapped \subseteq StateKeys
  /\ At("building_service") \in StateKeys
  /\ \A n \in {"wind", "rain", "frost"}, g \in UserGroups : InGroup(n, g) \in StateKeys
  /\ {At("frost"), Mode, At("building_service")} \subseteq StateKeys
  /\ Surviving \subseteq Bootstrapped
  /\ \A n \in {"presence", "hibernation", "alarm", "alarm2", "alarm3", "alarm4", "panic", "fire",
        "wind", "rain", "frost", "heating_system", "heating_system_mode", "heating_water_system"} :
       At(n) \in Bootstrapped
BY DEF StateKeys, CounterKeys, Counter, Bootstrapped, Mode, Surviving

(* Where an input has its state *)
LEMMA KeysOfInputs ==
  ASSUME NEW i \in Inputs
  PROVE  /\ KeyOf(i)[1] = i.type /\ KeyOf(i) = <<KeyOf(i)[1], KeyOf(i)[2]>> /\ KeyOf(i)[2] \in Nat
         /\ i.type \in {"motion", "presence"} => KeyOf(i)[2] >= 16
         /\ KeyOf(i)[2] = 0 => KeyOf(i) = At(i.type)
<1>1. i.group \in Nat /\ i.zone \in Nat
  BY StatesAssumption
<1> QED BY <1>1, GroupIDs, Pairs DEF KeyOf

(* Every key is a pair. *)
LEMMA KeysArePairs == \A k \in StateKeys : k = <<k[1], k[2]>>
<1> SUFFICES ASSUME NEW k \in StateKeys PROVE k = <<k[1], k[2]>>
  OBVIOUS
<1>1. CASE k \in Bootstrapped \cup {At("building_service")}
  BY <1>1, Pairs DEF Bootstrapped
<1>2. CASE k \in {KeyOf(i) : i \in Inputs}
  BY <1>2, KeysOfInputs
<1>3. CASE k \in {InGroup(n, g) : n \in {"wind", "rain", "frost"}, g \in UserGroups}
  BY <1>3, Pairs
<1> QED BY <1>1, <1>2, <1>3 DEF StateKeys

(* The values of a function on a finite set are finitely many. *)
LEMMA FiniteImage ==
  ASSUME NEW S, IsFiniteSet(S), NEW f, f = [x \in S |-> f[x]]
  PROVE  IsFiniteSet({f[x] : x \in S})
<1> DEFINE T == {f[x] : x \in S}
<1>1. f \in Surjection(S, T)
  <2>1. f \in [S -> T]
    OBVIOUS
  <2> QED BY <2>1 DEF Surjection
<1> QED BY <1>1, FS_Surjection

(* There are finitely many states. *)
LEMMA StateKeysFinite == IsFiniteSet(StateKeys)
<1>1. IsFiniteSet(Bootstrapped)
  <2> DEFINE names == <<"presence", "hibernation", "alarm", "alarm2", "alarm3", "alarm4", "panic",
               "fire", "wind", "rain", "frost", "heating_system", "heating_system_mode",
               "heating_water_system">>
             f == [j \in 1 .. 14 |-> At(names[j])]
  <2>1. IsFiniteSet({f[j] : j \in 1 .. 14})
    <3>1. 1 \in Int /\ 14 \in Int
      OBVIOUS
    <3>2. IsFiniteSet(1 .. 14)
      BY <3>1, FS_Interval, Zenon
    <3> HIDE DEF names
    <3>3. f = [j \in 1 .. 14 |-> f[j]]
      OBVIOUS
    <3> QED BY <3>2, <3>3, FiniteImage
  <2>2. \A j \in 1 .. 14 : f[j] \in Bootstrapped
    BY Keys
  <2>3. ASSUME NEW k \in Bootstrapped PROVE \E j \in 1 .. 14 : k = f[j]
    BY DEF Bootstrapped
  <2>4. {f[j] : j \in 1 .. 14} = Bootstrapped
    <3> HIDE DEF f
    <3> QED BY <2>2, <2>3
  <2> QED BY <2>1, <2>4
<1>2. IsFiniteSet({KeyOf(i) : i \in Inputs})
  <2> DEFINE f == [i \in Inputs |-> KeyOf(i)]
  <2>1. IsFiniteSet({f[i] : i \in Inputs})
    <3>1. IsFiniteSet(Inputs)
      BY StatesAssumption
    <3>2. f = [i \in Inputs |-> f[i]]
      OBVIOUS
    <3> HIDE DEF f
    <3> QED BY <3>1, <3>2, FiniteImage
  <2>2. {f[i] : i \in Inputs} = {KeyOf(i) : i \in Inputs}
    OBVIOUS
  <2> QED BY <2>1, <2>2
<1>3. ASSUME NEW n PROVE IsFiniteSet({InGroup(n, g) : g \in UserGroups})
  <2> DEFINE f == [g \in UserGroups |-> InGroup(n, g)]
  <2>1. IsFiniteSet({f[g] : g \in UserGroups})
    <3>1. 16 \in Int /\ 39 \in Int /\ UserGroups \in SUBSET (16 .. 39)
      BY StatesAssumption
    <3>4. IsFiniteSet(16 .. 39)
      BY <3>1, FS_Interval, Zenon
    <3>2. IsFiniteSet(UserGroups)
      BY <3>1, <3>4, FS_Subset
    <3>3. f = [g \in UserGroups |-> f[g]]
      OBVIOUS
    <3> HIDE DEF f
    <3> QED BY <3>2, <3>3, FiniteImage
  <2>2. {f[g] : g \in UserGroups} = {InGroup(n, g) : g \in UserGroups}
    OBVIOUS
  <2> QED BY <2>1, <2>2
<1> DEFINE W(n) == {InGroup(n, g) : g \in UserGroups}
<1>4. IsFiniteSet(W("wind") \cup W("rain") \cup W("frost"))
  <2>1. IsFiniteSet(W("wind")) /\ IsFiniteSet(W("rain")) /\ IsFiniteSet(W("frost"))
    BY <1>3
  <2> HIDE DEF W
  <2>2. IsFiniteSet(W("wind") \cup W("rain"))
    BY <2>1, FS_Union
  <2> QED BY <2>1, <2>2, FS_Union
<1>5. StateKeys = Bootstrapped \cup {At("building_service")} \cup {KeyOf(i) : i \in Inputs}
                    \cup (W("wind") \cup W("rain") \cup W("frost"))
  BY DEF StateKeys
<1>6. IsFiniteSet({At("building_service")})
  BY FS_Singleton
<1> HIDE DEF W
<1>7. IsFiniteSet(Bootstrapped \cup {At("building_service")})
  BY <1>1, <1>6, FS_Union
<1>8. IsFiniteSet(Bootstrapped \cup {At("building_service")} \cup {KeyOf(i) : i \in Inputs})
  BY <1>2, <1>7, FS_Union
<1> QED BY <1>4, <1>5, <1>8, FS_Union

(* SetToSeq is a sequence of the elements of a finite set. *)
LEMMA SequenceOf ==
  ASSUME NEW S, IsFiniteSet(S)
  PROVE  /\ SetToSeq(S) \in Seq(S)
         /\ \A x \in S : \E j \in DOMAIN SetToSeq(S) : SetToSeq(S)[j] = x
         /\ DOMAIN SetToSeq(S) = 1 .. Cardinality(S)
<1> DEFINE n == Cardinality(S)
           f == SetToSeq(S)
<1>1. n \in Nat /\ ExistsBijection(1 .. n, S)
  BY FS_CardinalityType
<1>2. PICK g : g \in Bijection(1 .. n, S)
  BY <1>1 DEF ExistsBijection
<1>3. g \in [1 .. n -> S] /\ IsInjective(g)
  BY <1>2 DEF Bijection, Injection, IsInjective
<1>4. f \in [1 .. n -> S] /\ IsInjective(f)
  BY <1>3 DEF SetToSeq
<1> HIDE DEF f
<1>5. f \in Injection(1 .. n, S)
  BY <1>4 DEF Injection, IsInjective
<1>6. Cardinality(1 .. n) = n
  BY <1>1, FS_Interval
<1>7. f \in Surjection(1 .. n, S)
  BY <1>5, <1>6, FS_Injection
<1>8. \A x \in S : \E j \in 1 .. n : f[j] = x
  BY <1>7 DEF Surjection
<1>9. f \in Seq(S) /\ DOMAIN f = 1 .. n
  BY <1>1, <1>4
<1> QED BY <1>8, <1>9 DEF f

-----------------------------------------------------------------------------
(* What handling an event changes                                          *)

(* What can be in the event queue *)
LEMMA EventTypes ==
  ASSUME NEW e \in QueuedEvents
  PROVE  /\ e.kind \in {"call", "undo", "device", "service", "signal", "running", "model_ready"}
         /\ e.kind \in {"call", "undo"} =>
              e.group \in Nat /\ e.origin \in Origin4
         /\ e.kind = "call" /\ e.origin = "binaryInput" => e.scene \in {"preset1", "off"} /\ e.group = 3
         /\ e.kind = "device" => e.input \in Inputs /\ e.value \in 1 .. 3
         /\ e.kind = "service" => e.key \in Heeded /\ e.value \in 0 .. 3 /\ e.origin \in Origin4
         /\ e.kind = "signal" => e.key \in {At("frost"), Mode, At("building_service")} /\ e.value \in 0 .. 3
<1>1. CASE e \in SceneMessages
  BY <1>1 DEF SceneMessages, Origin4
<1>2. CASE e \in SystemCalls
  BY <1>2 DEF SystemCalls, Origin4
<1>7. CASE e \in PresetCalls
  BY <1>7 DEF PresetCalls, Origin4
<1>3. CASE e \in SystemSignals
  BY <1>3 DEF SystemSignals, Mode
<1>4. CASE e \in DeviceEvents
  BY <1>4 DEF DeviceEvents
<1>5. CASE e \in ServiceEvents
  BY <1>5 DEF ServiceEvents
<1>6. CASE e \in [kind : {"running", "model_ready"}]
  BY <1>6
<1> QED BY <1>1, <1>2, <1>3, <1>4, <1>5, <1>6, <1>7 DEF QueuedEvents, OwnCalls

(* What can be in the queue of ModelMaintenance *)
LEMMA MessageTypes ==
  ASSUME NEW m \in Messages \cup OwnCalls
  PROVE  /\ m.kind \in {"call", "undo", "report", "signal"}
         /\ m.kind \in {"call", "undo"} => m.group \in Nat
         /\ m.kind = "report" => m.input \in Inputs /\ m.value \in 1 .. 3
         /\ m.kind = "signal" => m.key \in {At("frost"), Mode, At("building_service")}
         /\ m.kind # "report" => m \in QueuedEvents
<1>0. SceneMessages \cup OwnCalls \cup SystemSignals \subseteq QueuedEvents
  BY DEF QueuedEvents
<1>1. CASE m \in SceneMessages
  BY <1>0, <1>1 DEF SceneMessages
<1>2. CASE m \in SystemCalls
  <2>1. m \in QueuedEvents
    BY <1>0, <1>2 DEF OwnCalls
  <2> QED BY <1>2, <2>1 DEF SystemCalls
<1>3. CASE m \in PresetCalls
  <2>1. m \in QueuedEvents
    BY <1>0, <1>3 DEF OwnCalls
  <2> QED BY <1>3, <2>1 DEF PresetCalls
<1>4. CASE m \in SystemSignals
  BY <1>0, <1>4 DEF SystemSignals, Mode
<1>5. CASE m \in Reported
  BY <1>5 DEF Reported
<1> QED BY <1>1, <1>2, <1>3, <1>4, <1>5 DEF Messages, OwnCalls

(* The scenes of wind and rain *)
LEMMA GroupScenesAre ==
  /\ DOMAIN GroupScenes = {"windActive", "windInactive", "rainActive", "rainInactive"}
  /\ GroupScenes["windActive"] = <<"wind", 1>> /\ GroupScenes["windInactive"] = <<"wind", 2>>
  /\ GroupScenes["rainActive"] = <<"rain", 1>> /\ GroupScenes["rainInactive"] = <<"rain", 2>>
BY DEF GroupScenes, Active, Inactive

(* A state always has a value once it is registered. *)
LEMMA Values03 ==
  ASSUME ShapeOK, NEW k \in StateKeys
  PROVE  Loaded(k) \in 0 .. 3 /\ Current(k) \in 0 .. 3
BY DEF ShapeOK, Values, Loaded, Current, None, Inactive

OKSets(sets) == DOMAIN sets \subseteq StateKeys /\ \A k \in DOMAIN sets : sets[k] \in 0 .. 3
ModeSignals == [kind : {"signal"}, key : {Mode}, value : 0 .. 3]
Args(sets, o, raised, sent) ==
  OKSets(sets) /\ o \in Origin4 /\ raised \in Seq(ModeSignals) /\ sent \in Seq(OwnCalls)

(* A change of each state that is heeded is raised, and nothing else. *)
LEMMA ChangesAre ==
  ASSUME NEW sets, OKSets(sets), NEW o \in Origin4
  PROVE  /\ Changes(sets, o) \in Seq(ServiceEvents)
         /\ \A j \in DOMAIN Changes(sets, o) :
              LET c == Changes(sets, o)[j]
              IN /\ c.kind = "service" /\ c.key \in DOMAIN sets /\ IsHeeded(c.key)
                 /\ sets[c.key] # Current(c.key) /\ c.value = sets[c.key] /\ c.origin = o
         /\ \A k \in DOMAIN sets : IsHeeded(k) /\ sets[k] # Current(k) =>
              \E j \in DOMAIN Changes(sets, o) : Changes(sets, o)[j].key = k
<1> DEFINE D == {k \in Differing(sets) : IsHeeded(k)}
           keys == SetToSeq(D)
           C == Changes(sets, o)
<1>1. D \subseteq Heeded
  BY DEF OKSets, Differing, Heeded
<1>2. IsFiniteSet(D)
  BY <1>1, StateKeysFinite, FS_Subset DEF Heeded
<1>3. keys \in Seq(D) /\ \A x \in D : \E j \in DOMAIN keys : keys[j] = x
  BY <1>2, SequenceOf
<1>4. DOMAIN keys = 1 .. Len(keys) /\ Len(keys) \in Nat /\ \A j \in DOMAIN keys : keys[j] \in D
  BY <1>3, LenProperties, ElementOfSeq
<1>5. C = [j \in DOMAIN keys |-> Changed(keys[j], sets[keys[j]], o)]
  BY DEF Changes
<1> HIDE DEF keys, C
<1>6. \A j \in DOMAIN C : j \in DOMAIN keys /\ C[j] = Changed(keys[j], sets[keys[j]], o)
  BY <1>5
<1>7. \A j \in DOMAIN C : C[j] \in ServiceEvents
  BY <1>1, <1>4, <1>6 DEF Changed, ServiceEvents, OKSets, Differing
<1>8. C \in Seq(ServiceEvents)
  BY <1>4, <1>5, <1>7
<1>9. \A j \in DOMAIN C : /\ C[j].kind = "service" /\ C[j].key = keys[j] /\ C[j].origin = o
                          /\ C[j].value = sets[C[j].key]
  BY <1>6 DEF Changed
<1>10. \A j \in DOMAIN C : C[j].key \in DOMAIN sets /\ IsHeeded(C[j].key) /\ sets[C[j].key] # Current(C[j].key)
  BY <1>4, <1>6, <1>9 DEF Differing
<1>11. ASSUME NEW k \in DOMAIN sets, IsHeeded(k), sets[k] # Current(k)
       PROVE  \E j \in DOMAIN C : C[j].key = k
  <2>1. PICK j \in DOMAIN keys : keys[j] = k
    BY <1>3, <1>11 DEF Differing
  <2> QED BY <1>5, <1>9, <2>1
<1> QED BY <1>8, <1>9, <1>10, <1>11 DEF C

(* The events that are queued behind what was waiting *)
Queued(sets, o, raised) == Changes(sets, o) \o raised

(* They are the changes and the signals, in this order. *)
LEMMA QueuedElements ==
  ASSUME NEW sets, NEW o, NEW raised, OKSets(sets), o \in Origin4, raised \in Seq(ModeSignals)
  PROVE  /\ Changes(sets, o) \in Seq(QueuedEvents) /\ raised \in Seq(QueuedEvents)
         /\ Queued(sets, o, raised) \in Seq(QueuedEvents)
         /\ \A j \in DOMAIN Queued(sets, o, raised) :
              \/ \E l \in DOMAIN Changes(sets, o) : Queued(sets, o, raised)[j] = Changes(sets, o)[l]
              \/ \E l \in DOMAIN raised : Queued(sets, o, raised)[j] = raised[l]
         /\ \A l \in DOMAIN Changes(sets, o) :
              \E j \in DOMAIN Queued(sets, o, raised) : Queued(sets, o, raised)[j] = Changes(sets, o)[l]
<1> DEFINE C == Changes(sets, o)
<1>1. C \in Seq(ServiceEvents)
  BY ChangesAre
<1>2. ServiceEvents \subseteq QueuedEvents /\ ModeSignals \subseteq QueuedEvents
  BY DEF QueuedEvents, ModeSignals, SystemSignals, Mode
<1>3. C \in Seq(QueuedEvents) /\ raised \in Seq(QueuedEvents)
  BY <1>1, <1>2, SeqMonotonic
<1>4. /\ C \o raised \in Seq(QueuedEvents)
      /\ \A j \in DOMAIN (C \o raised) :
           \/ j \in DOMAIN C /\ (C \o raised)[j] = C[j]
           \/ j - Len(C) \in DOMAIN raised /\ (C \o raised)[j] = raised[j - Len(C)]
      /\ \A j \in DOMAIN C : j \in DOMAIN (C \o raised) /\ (C \o raised)[j] = C[j]
  BY <1>3, Joined
<1> HIDE DEF C
<1> QED BY <1>3, <1>4 DEF Queued, C

(* Handling an event takes it, and queues changes and signals. *)
LEMMA HandledQueues ==
  ASSUME QueuesOK, eventQueue # <<>>,
         NEW sets, NEW o, NEW raised, NEW sent, Args(sets, o, raised, sent),
         Handled(sets, o, raised, sent)
  PROVE  /\ Queued(sets, o, raised) \in Seq(QueuedEvents)
         /\ Tail(eventQueue) \in Seq(QueuedEvents) /\ Head(eventQueue) \in QueuedEvents
         /\ eventQueue' = Tail(eventQueue) \o Queued(sets, o, raised)
         /\ eventQueue' \in Seq(QueuedEvents)
         /\ sent \in Seq(Messages \cup OwnCalls)
         /\ modelQueue' = modelQueue \o sent /\ modelQueue' \in Seq(Messages \cup OwnCalls)
<1> DEFINE C == Changes(sets, o)
<1>1. C \in Seq(QueuedEvents) /\ raised \in Seq(QueuedEvents) /\ C \o raised \in Seq(QueuedEvents)
  BY QueuedElements DEF Args, Queued
<1>2. Tail(eventQueue) \in Seq(QueuedEvents) /\ Head(eventQueue) \in QueuedEvents
  BY Taken DEF QueuesOK
<1>3. eventQueue' = (Tail(eventQueue) \o C) \o raised
  BY DEF Handled
<1>4. eventQueue' = Tail(eventQueue) \o (C \o raised)
  BY <1>1, <1>2, <1>3, ConcatAssociative
<1>5. eventQueue' \in Seq(QueuedEvents)
  BY <1>1, <1>2, <1>4, ConcatProperties
<1>6. modelQueue' = modelQueue \o sent /\ sent \in Seq(Messages \cup OwnCalls)
  BY SeqMonotonic DEF Handled, Args
<1>7. modelQueue' \in Seq(Messages \cup OwnCalls)
  BY <1>6, ConcatProperties DEF QueuesOK
<1> HIDE DEF C
<1> QED BY <1>1, <1>2, <1>4, <1>5, <1>6, <1>7 DEF Queued, C

-----------------------------------------------------------------------------
(* What handling any event preserves                                       *)

(* The states after an event, and what is saved of them. *)
LEMMA HandledStates ==
  ASSUME ShapeOK, NEW sets, NEW o, NEW raised, NEW sent, OKSets(sets),
         Handled(sets, o, raised, sent)
  PROVE  /\ m_states' \in [StateKeys -> Values] /\ files' \in [StateKeys -> Values]
         /\ \A k \in StateKeys : m_states'[k] = IF k \in DOMAIN sets THEN sets[k] ELSE m_states[k]
         /\ \A k \in StateKeys : k \notin DOMAIN sets => files'[k] = files[k]
         /\ SavedOK => \A k \in StateKeys : Loaded(k)' = IF k \in DOMAIN sets THEN sets[k] ELSE Loaded(k)
<1>1. setState(sets)
  BY DEF Handled
<1>2. /\ m_states' = [k \in StateKeys |-> IF k \in DOMAIN sets THEN sets[k] ELSE m_states[k]]
      /\ files' = [k \in StateKeys |->
           IF k \in DOMAIN sets /\ sets[k] # Current(k) THEN sets[k] ELSE files[k]]
  BY <1>1 DEF setState
<1>3. \A k \in StateKeys : m_states[k] \in Values /\ files[k] \in Values
  BY DEF ShapeOK
<1>4. \A k \in DOMAIN sets : k \in StateKeys /\ sets[k] \in Values /\ sets[k] # None
  BY DEF OKSets, Values, None
<1>5. m_states' \in [StateKeys -> Values] /\ files' \in [StateKeys -> Values]
  BY <1>2, <1>3, <1>4
<1>6. ASSUME SavedOK, NEW k \in StateKeys
      PROVE  Loaded(k)' = IF k \in DOMAIN sets THEN sets[k] ELSE Loaded(k)
  <2>1. Current(k) = Loaded(k)
    BY <1>6 DEF SavedOK, Current
  <2>2. Loaded(k)' = IF files'[k] # None THEN files'[k] ELSE Inactive
    BY DEF Loaded
  <2>3. CASE k \in DOMAIN sets /\ sets[k] # Current(k)
    BY <1>2, <1>4, <2>2, <2>3
  <2>4. CASE ~(k \in DOMAIN sets /\ sets[k] # Current(k))
    <3>1. files'[k] = files[k]
      BY <1>2, <2>4
    <3>2. Loaded(k)' = Loaded(k)
      BY <2>2, <3>1 DEF Loaded
    <3> QED BY <2>1, <2>4, <3>2
  <2> QED BY <2>3, <2>4
<1> QED BY <1>2, <1>5, <1>6

(* What is seen on the bus is a value for the state of a scene. *)
LEMMA SeenType ==
  ASSUME onBus \in [StateKeys -> Values], NEW m
  PROVE  /\ Seen(onBus, m) \in [StateKeys -> Values]
         /\ ~(m.kind = "call" /\ m.scene \in DOMAIN GroupScenes) => Seen(onBus, m) = onBus
         /\ \A k \in StateKeys : m.kind = "call" /\ m.scene \in DOMAIN GroupScenes =>
              Seen(onBus, m)[k] = IF k = InGroup(GroupScenes[m.scene][1], m.group)
                                  THEN GroupScenes[m.scene][2] ELSE onBus[k]
<1>1. \A s \in DOMAIN GroupScenes : GroupScenes[s][2] \in Values
  BY GroupScenesAre DEF Values
<1> QED BY <1>1 DEF Seen

(* Handling an event keeps the types. *)
LEMMA HandledShape ==
  ASSUME ShapeOK, QueuesOK, eventQueue # <<>>,
         NEW sets, NEW o, NEW raised, NEW sent, Args(sets, o, raised, sent),
         Handled(sets, o, raised, sent), counters' \in [CounterKeys -> Nat]
  PROVE  ShapeOK' /\ QueuesOK'
<1>1. m_states' \in [StateKeys -> Values] /\ files' \in [StateKeys -> Values]
  BY HandledStates DEF Args
<1>2. onBus' \in [StateKeys -> Values]
  <2>1. onBus' = onBus \/ onBus' = Seen(onBus, Last(sent))
    BY DEF Handled
  <2>2. onBus \in [StateKeys -> Values]
    BY DEF ShapeOK
  <2> QED BY <2>1, <2>2, SeenType
<1>3. cleared' \subseteq cleared
  BY DEF Handled
<1>4. UNCHANGED <<inputs, messages, restarts, before, overridden, doubtful, offered>>
  BY DEF Handled
<1>5. ShapeOK'
  BY <1>1, <1>2, <1>3, <1>4 DEF ShapeOK
<1>6. QueuesOK'
  BY <1>4, HandledQueues DEF QueuesOK
<1> QED BY <1>5, <1>6

(* A handler queues changes of states, and signals of the heating mode. *)
LEMMA QueuedAre ==
  ASSUME NEW sets, NEW o, NEW raised, NEW sent, Args(sets, o, raised, sent)
  PROVE  \A j \in DOMAIN Queued(sets, o, raised) :
           LET e == Queued(sets, o, raised)[j]
           IN \/ e.kind = "service" /\ e.origin = o /\ e.key \in DOMAIN sets /\ IsHeeded(e.key)
                 /\ sets[e.key] # Current(e.key) /\ e.value = sets[e.key]
              \/ e.kind = "signal" /\ e.key = Mode /\ raised # <<>>
<1> TAKE j \in DOMAIN Queued(sets, o, raised)
<1> DEFINE e == Queued(sets, o, raised)[j]
<1>1. \/ \E l \in DOMAIN Changes(sets, o) : e = Changes(sets, o)[l]
      \/ \E l \in DOMAIN raised : e = raised[l]
  BY QueuedElements DEF Args
<1> HIDE DEF e
<1>2. CASE \E l \in DOMAIN Changes(sets, o) : e = Changes(sets, o)[l]
  <2>1. PICK l \in DOMAIN Changes(sets, o) : e = Changes(sets, o)[l]
    BY <1>2
  <2>2. e.kind = "service" /\ e.origin = o /\ e.key \in DOMAIN sets /\ IsHeeded(e.key)
        /\ sets[e.key] # Current(e.key) /\ e.value = sets[e.key]
    BY <2>1, ChangesAre DEF Args
  <2> QED BY <2>2 DEF e
<1>3. CASE \E l \in DOMAIN raised : e = raised[l]
  <2>1. PICK l \in DOMAIN raised : e = raised[l]
    BY <1>3
  <2>2. raised[l] \in ModeSignals
    BY LenProperties, ElementOfSeq DEF Args
  <2>3. raised # <<>>
    BY NoElement
  <2>4. e.kind = "signal" /\ e.key = Mode
    BY <2>1, <2>2 DEF ModeSignals
  <2> QED BY <2>3, <2>4 DEF e
<1> QED BY <1>1, <1>2, <1>3

(* An event that starts the dSS is not queued by a handler. *)
LEMMA HandledStart ==
  ASSUME ShapeOK, QueuesOK, StartOK, eventQueue # <<>>,
         NEW sets, NEW o, NEW raised, NEW sent, Args(sets, o, raised, sent),
         Handled(sets, o, raised, sent),
         TheEvent.kind = "running" => Bootstrapped \subseteq DOMAIN sets
  PROVE  StartOK'
<1> DEFINE new == Queued(sets, o, raised)
<1>1. NoStart(new)
  <2> SUFFICES ASSUME NEW j \in DOMAIN new PROVE new[j].kind # "running"
    BY DEF NoStart
  <2>1. new[j].kind \in {"service", "signal"}
    BY QueuedAre
  <2> QED BY <2>1
<1>2. NoStart(Tail(eventQueue))
  <2>1. CASE NoStart(Tail(eventQueue))
    BY <2>1
  <2>2. CASE NoStart(eventQueue)
    BY <2>2, Taken DEF NoStart, QueuesOK
  <2> QED BY <2>1, <2>2 DEF StartOK
<1>3. NoStart(eventQueue')
  <2>1. /\ eventQueue' = Tail(eventQueue) \o new /\ new \in Seq(QueuedEvents)
        /\ Tail(eventQueue) \in Seq(QueuedEvents)
    BY HandledQueues
  <2> HIDE DEF new
  <2>2. \A j \in DOMAIN (Tail(eventQueue) \o new) : (Tail(eventQueue) \o new)[j].kind # "running"
    BY <1>1, <1>2, <2>1, Joined DEF NoStart
  <2> QED BY <2>1, <2>2 DEF NoStart
<1>4. ASSUME NEW k \in Bootstrapped PROVE m_states'[k] # None
  <2>1. k \in StateKeys /\ m_states'[k] = IF k \in DOMAIN sets THEN sets[k] ELSE m_states[k]
    BY Keys, HandledStates DEF Args
  <2>2. k \in DOMAIN sets => sets[k] # None
    BY DEF Args, OKSets, None
  <2>3. k \in DOMAIN sets \/ m_states[k] # None
    BY DEF StartOK, TheEvent
  <2> QED BY <2>1, <2>2, <2>3
<1>5. NoStart(eventQueue)'
  BY <1>3 DEF NoStart
<1> QED BY <1>4, <1>5 DEF StartOK

(* What a state is, is what was saved last. *)
LEMMA HandledSaved ==
  ASSUME ShapeOK, SavedOK, NewOK,
         NEW sets, NEW o, NEW raised, NEW sent, OKSets(sets), Handled(sets, o, raised, sent)
  PROVE  SavedOK' /\ NewOK'
<1>1. SavedOK'
  <2> SUFFICES ASSUME NEW k \in StateKeys, m_states'[k] # None PROVE m_states'[k] = Loaded(k)'
    BY DEF SavedOK
  <2>1. /\ m_states'[k] = IF k \in DOMAIN sets THEN sets[k] ELSE m_states[k]
        /\ Loaded(k)' = IF k \in DOMAIN sets THEN sets[k] ELSE Loaded(k)
    BY HandledStates
  <2> QED BY <2>1 DEF SavedOK
<1>2. NewOK'
  <2>1. overridden' = overridden
    BY DEF Handled
  <2> SUFFICES ASSUME overridden # StateKeys, NEW k \in StateKeys, m_states'[k] = None
               PROVE  files'[k] = None
    BY <2>1 DEF NewOK
  <2>2. k \notin DOMAIN sets
    BY HandledStates DEF OKSets, None
  <2>3. m_states[k] = None /\ files'[k] = files[k]
    BY <2>2, HandledStates
  <2> QED BY <2>3 DEF NewOK
<1> QED BY <1>1, <1>2

(* What the event does to an alarm: only a call, a detector or the start sets *)
(* it; an event that resets it does so or sends what resets it.               *)
AlarmEffect(sets, sent) ==
  \A s \in {"panic", "fire"} :
    /\ NoneSets(sent, s)
    /\ TheEvent.kind # "model_ready" /\ ~Sets(TheEvent, s) /\ At(s) \in DOMAIN sets =>
         sets[At(s)] # Active
    /\ Resets(TheEvent, s) =>
         \/ IsReset(sent, s)
         \/ IF At(s) \in DOMAIN sets THEN sets[At(s)] # Active ELSE m_states[At(s)] # Active

(* A command to clear an alarm is not overtaken. *)
LEMMA HandledCleared ==
  ASSUME ShapeOK, QueuesOK, ClearedOK, eventQueue # <<>>,
         NEW sets, NEW o, NEW raised, NEW sent, Args(sets, o, raised, sent),
         Handled(sets, o, raised, sent), AlarmEffect(sets, sent)
  PROVE  ClearedOK'
<1> DEFINE new == Queued(sets, o, raised)
<1>0. /\ cleared' \subseteq cleared /\ cleared \subseteq {"panic", "fire"}
      /\ TheEvent.kind = "model_ready" => \A s \in cleared' : m_states'[At(s)] # Active
  BY DEF Handled, ShapeOK
<1> SUFFICES ASSUME NEW s \in cleared'
             PROVE  \/ IsReset(modelQueue', s)
                    \/ NoneSets(modelQueue', s) /\ IsReset(eventQueue', s)
                    \/ NoneSets(modelQueue', s) /\ NoneSets(eventQueue', s) /\ m_states'[At(s)] # Active
  BY DEF ClearedOK, IsReset, NoneSets
<1>1. s \in cleared /\ s \in {"panic", "fire"} /\ At(s) \in StateKeys
  BY <1>0, Keys
<1>2. /\ eventQueue' = Tail(eventQueue) \o new /\ new \in Seq(QueuedEvents)
      /\ Tail(eventQueue) \in Seq(QueuedEvents) /\ eventQueue \in Seq(QueuedEvents)
      /\ modelQueue' = modelQueue \o sent /\ sent \in Seq(Messages \cup OwnCalls)
      /\ modelQueue \in Seq(Messages \cup OwnCalls)
  BY HandledQueues DEF QueuesOK
<1>3. NoneSets(new, s)
  <2> SUFFICES ASSUME NEW j \in DOMAIN new PROVE ~Sets(new[j], s)
    BY DEF NoneSets
  <2>1. new[j].kind \in {"service", "signal"}
    BY QueuedAre
  <2> QED BY <2>1 DEF Sets
<1>4. NoneSets(sent, s)
  BY <1>1 DEF AlarmEffect
<1> HIDE DEF new
<1>5. CASE IsReset(modelQueue, s)
  BY <1>2, <1>4, <1>5, ResetJoined
<1>6. CASE NoneSets(modelQueue, s) /\ IsReset(sent, s)
  BY <1>2, <1>6, ResetJoined
<1>7. CASE NoneSets(modelQueue, s) /\ IsReset(Tail(eventQueue), s)
  <2>1. NoneSets(modelQueue', s)
    BY <1>2, <1>4, <1>7, ResetJoined
  <2>2. IsReset(eventQueue', s)
    BY <1>2, <1>3, <1>7, ResetJoined
  <2> QED BY <2>1, <2>2
<1>8. CASE NoneSets(modelQueue, s) /\ NoneSets(Tail(eventQueue), s) /\ m_states'[At(s)] # Active
  <2>1. NoneSets(modelQueue', s)
    BY <1>2, <1>4, <1>8, ResetJoined
  <2>2. NoneSets(eventQueue', s)
    BY <1>2, <1>3, <1>8, ResetJoined
  <2> QED BY <1>8, <2>1, <2>2
<1>9. CASE NoneSets(modelQueue, s) /\ IsReset(eventQueue, s)
  <2>1. IsReset(Tail(eventQueue), s) \/ (Resets(TheEvent, s) /\ NoneSets(Tail(eventQueue), s))
    BY <1>2, <1>9, ResetTaken DEF TheEvent
  <2>2. CASE Resets(TheEvent, s) /\ NoneSets(Tail(eventQueue), s) /\ ~IsReset(sent, s)
    <3>1. IF At(s) \in DOMAIN sets THEN sets[At(s)] # Active ELSE m_states[At(s)] # Active
      BY <1>1, <2>2 DEF AlarmEffect
    <3>2. m_states'[At(s)] # Active
      BY <1>1, <3>1, HandledStates DEF Args
    <3> QED BY <1>8, <1>9, <2>2, <3>2
  <2> QED BY <1>6, <1>7, <1>9, <2>1, <2>2
<1>10. CASE NoneSets(modelQueue, s) /\ NoneSets(eventQueue, s) /\ m_states[At(s)] # Active
  <2>1. NoneSets(Tail(eventQueue), s) /\ ~Sets(TheEvent, s)
    BY <1>2, <1>10, ResetTaken DEF TheEvent
  <2>2. CASE TheEvent.kind = "model_ready"
    BY <1>0, <1>8, <1>10, <2>1, <2>2
  <2>3. CASE TheEvent.kind # "model_ready"
    <3>1. At(s) \in DOMAIN sets => sets[At(s)] # Active
      BY <1>1, <2>1, <2>3 DEF AlarmEffect
    <3>2. m_states'[At(s)] # Active
      BY <1>1, <1>10, <3>1, HandledStates DEF Args
    <3> QED BY <1>8, <1>10, <2>1, <3>2
  <2> QED BY <2>2, <2>3
<1> QED BY <1>1, <1>5, <1>9, <1>10 DEF ClearedOK

(* What is loaded at the start, and set when the dSMs have reported, raises *)
(* nothing and leaves what has to survive.                                  *)
StartEffect(sets, raised, sent) ==
  /\ TheEvent.kind = "running" => Bootstrapped \subseteq DOMAIN sets
  /\ TheEvent.kind \in {"running", "model_ready"} =>
       /\ raised = <<>> /\ sent = <<>>
       /\ \A k \in DOMAIN sets : k \in Surviving \/ IsHeeded(k) => sets[k] = Current(k)

(* After a restart, the states to survive are the ones before it. *)
LEMMA HandledRestarted ==
  ASSUME ShapeOK, QueuesOK, SavedOK, RestartedOK, eventQueue # <<>>,
         NEW sets, NEW o, NEW raised, NEW sent, Args(sets, o, raised, sent),
         Handled(sets, o, raised, sent), StartEffect(sets, raised, sent)
  PROVE  RestartedOK'
<1> DEFINE new == Queued(sets, o, raised)
<1>0. before' = before
  BY DEF Handled
<1> SUFFICES ASSUME \E k \in StateKeys : before[k] # None
             PROVE  /\ modelQueue' = <<>> /\ NewStart(eventQueue)'
                    /\ \A k \in Surviving : before[k] # None => Loaded(k)' = before[k]
  BY <1>0 DEF RestartedOK
<1>1. /\ modelQueue = <<>> /\ \A j \in DOMAIN eventQueue : eventQueue[j].kind \in {"running", "model_ready"}
      /\ \A k \in Surviving : before[k] # None => Loaded(k) = before[k]
  BY DEF RestartedOK, NewStart
<1>2. TheEvent.kind \in {"running", "model_ready"}
  BY <1>1, Taken DEF QueuesOK, TheEvent
<1>3. /\ raised = <<>> /\ sent = <<>>
      /\ \A k \in DOMAIN sets : k \in Surviving \/ IsHeeded(k) => sets[k] = Current(k)
  BY <1>2 DEF StartEffect
<1>4. modelQueue' = <<>>
  BY <1>1, <1>3 DEF Handled
<1>5. DOMAIN new = {}
  <2> SUFFICES ASSUME NEW j \in DOMAIN new PROVE FALSE
    OBVIOUS
  <2>1. \/ IsHeeded(new[j].key) /\ new[j].key \in DOMAIN sets /\ sets[new[j].key] # Current(new[j].key)
        \/ raised # <<>>
    BY QueuedAre
  <2> QED BY <1>3, <2>1
<1>6. /\ eventQueue' = Tail(eventQueue) \o new /\ new \in Seq(QueuedEvents)
      /\ Tail(eventQueue) \in Seq(QueuedEvents)
  BY HandledQueues
<1> HIDE DEF new
<1>7. \A j \in DOMAIN eventQueue' : \E l \in DOMAIN Tail(eventQueue) : eventQueue'[j] = Tail(eventQueue)[l]
  BY <1>5, <1>6, Joined
<1>8. \A l \in DOMAIN Tail(eventQueue) : Tail(eventQueue)[l].kind \in {"running", "model_ready"}
  BY <1>1, Taken DEF QueuesOK
<1>9. NewStart(eventQueue)'
  BY <1>7, <1>8 DEF NewStart
<1>10. ASSUME NEW k \in Surviving, before[k] # None PROVE Loaded(k)' = before[k]
  <2>1. k \in StateKeys
    BY Keys
  <2>2. Loaded(k)' = IF k \in DOMAIN sets THEN sets[k] ELSE Loaded(k)
    BY <2>1, HandledStates DEF Args
  <2>3. Current(k) = Loaded(k)
    BY <2>1 DEF SavedOK, Current
  <2> QED BY <1>1, <1>3, <1>10, <2>2, <2>3
<1> QED BY <1>4, <1>9, <1>10

(* What the plugin calls overrides no state. *)
LEMMA OwnCallsAreNotForeign ==
  ASSUME NEW e \in OwnCalls, NEW k
  PROVE  ~Foreign(e, k)
<1>1. CASE e \in SystemCalls
  BY <1>1 DEF SystemCalls, Foreign
<1>2. CASE e \in PresetCalls
  BY <1>2, GroupScenesAre DEF PresetCalls, Foreign, Overrides
<1> QED BY <1>1, <1>2 DEF OwnCalls

(* The events of a handler override no state, or are signals of the mode. *)
LEMMA HandledOverriding ==
  ASSUME QueuesOK, OverridingOK, eventQueue # <<>>,
         NEW sets, NEW o, NEW raised, NEW sent, Args(sets, o, raised, sent),
         Handled(sets, o, raised, sent)
  PROVE  OverridingOK'
<1> DEFINE new == Queued(sets, o, raised)
<1>0. overridden' = overridden
  BY DEF Handled
<1> SUFFICES ASSUME NEW k \in StateKeys \ overridden
             PROVE  /\ \A j \in DOMAIN modelQueue' : ~Foreign(modelQueue'[j], k)
                    /\ \A j \in DOMAIN eventQueue' : Foreign(eventQueue'[j], k) => k = Mode
  BY <1>0 DEF OverridingOK, Foreign, Overrides
<1>1. /\ eventQueue' = Tail(eventQueue) \o new /\ new \in Seq(QueuedEvents)
      /\ Tail(eventQueue) \in Seq(QueuedEvents) /\ eventQueue \in Seq(QueuedEvents)
      /\ modelQueue' = modelQueue \o sent /\ sent \in Seq(Messages \cup OwnCalls)
      /\ modelQueue \in Seq(Messages \cup OwnCalls)
  BY HandledQueues DEF QueuesOK
<1>2. \A j \in DOMAIN new : Foreign(new[j], k) => k = Mode
  <2> SUFFICES ASSUME NEW j \in DOMAIN new, Foreign(new[j], k) PROVE k = Mode
    OBVIOUS
  <2>1. new[j].kind = "service" \/ (new[j].kind = "signal" /\ new[j].key = Mode)
    BY QueuedAre
  <2> QED BY <2>1 DEF Foreign
<1>3. \A j \in DOMAIN sent : ~Foreign(sent[j], k)
  BY OwnCallsAreNotForeign, LenProperties, ElementOfSeq DEF Args
<1>4. \A j \in DOMAIN Tail(eventQueue) : Foreign(Tail(eventQueue)[j], k) => k = Mode
  BY <1>1, Taken DEF OverridingOK
<1>5. \A j \in DOMAIN modelQueue : ~Foreign(modelQueue[j], k)
  BY DEF OverridingOK
<1> HIDE DEF new
<1>6. \A j \in DOMAIN (Tail(eventQueue) \o new) : Foreign((Tail(eventQueue) \o new)[j], k) => k = Mode
  BY <1>1, <1>2, <1>4, Joined
<1>7. \A j \in DOMAIN (modelQueue \o sent) : ~Foreign((modelQueue \o sent)[j], k)
  BY <1>1, <1>3, <1>5, Joined
<1> QED BY <1>1, <1>6, <1>7

Base == /\ ShapeOK /\ QueuesOK /\ SavedOK /\ StartOK /\ NewOK /\ ClearedOK /\ RestartedOK
        /\ OverridingOK

(* All of it *)
LEMMA HandledBase ==
  ASSUME Base, eventQueue # <<>>,
         NEW sets, NEW o, NEW raised, NEW sent, Args(sets, o, raised, sent),
         Handled(sets, o, raised, sent), counters' \in [CounterKeys -> Nat],
         AlarmEffect(sets, sent), StartEffect(sets, raised, sent)
  PROVE  Base'
<1>1. ShapeOK' /\ QueuesOK'
  BY HandledShape DEF Base
<1>2. StartOK'
  BY HandledStart DEF Base, StartEffect
<1>3. SavedOK' /\ NewOK'
  BY HandledSaved DEF Base, Args
<1>4. ClearedOK'
  BY HandledCleared DEF Base
<1>5. RestartedOK'
  BY HandledRestarted DEF Base
<1>6. OverridingOK'
  BY HandledOverriding DEF Base
<1> QED BY <1>1, <1>2, <1>3, <1>4, <1>5, <1>6 DEF Base

-----------------------------------------------------------------------------
(* Events that set no state of a sensor                                    *)

(* The states that only sensors, or the bus, set *)
Sensors == {k \in StateKeys : \/ k[1] \in {"wind", "rain"}
                              \/ k[1] \in {"motion", "presence", "frost"} /\ Feeding(k) # {}}
SensorEffect(sets) == \A k \in DOMAIN sets \ overridden : k \in Sensors => sets[k] = Current(k)

(* Such a state is left alone, or registered with its default. *)
LEMMA SensorKept ==
  ASSUME Base, NEW sets, NEW o, NEW raised, NEW sent, OKSets(sets),
         Handled(sets, o, raised, sent), SensorEffect(sets), NEW k \in Sensors \ overridden
  PROVE  m_states'[k] = m_states[k] \/ (m_states[k] = None /\ m_states'[k] = Inactive)
<1>1. k \in StateKeys /\ overridden # StateKeys
  BY DEF Sensors
<1>2. m_states'[k] = IF k \in DOMAIN sets THEN sets[k] ELSE m_states[k]
  BY <1>1, HandledStates DEF Base
<1>3. m_states[k] = None => Current(k) = Inactive
  BY <1>1 DEF Base, NewOK, Current, Loaded
<1>4. m_states[k] # None => Current(k) = m_states[k]
  BY DEF Current
<1> QED BY <1>2, <1>3, <1>4 DEF SensorEffect

(* Then no event about the state is queued. *)
LEMMA SensorSilent ==
  ASSUME NEW sets, NEW o, NEW raised, NEW sent, Args(sets, o, raised, sent),
         SensorEffect(sets), NEW k \in Sensors \ overridden, k # Mode
  PROVE  Silent(Queued(sets, o, raised), k)
<1> SUFFICES ASSUME NEW j \in DOMAIN Queued(sets, o, raised), About(Queued(sets, o, raised)[j], k)
             PROVE  FALSE
  BY DEF Silent
<1> DEFINE e == Queued(sets, o, raised)[j]
<1>1. \/ e.kind = "service" /\ e.key \in DOMAIN sets /\ sets[e.key] # Current(e.key)
      \/ e.kind = "signal" /\ e.key = Mode
  BY QueuedAre
<1> HIDE DEF e
<1>2. About(e, k)
  BY DEF e
<1> QED BY <1>1, <1>2 DEF About, SensorEffect

(* The bus knows what it knew. *)
LEMMA BusKept ==
  ASSUME Base, BusOK, eventQueue # <<>>,
         NEW sets, NEW o, NEW raised, NEW sent, Args(sets, o, raised, sent),
         Handled(sets, o, raised, sent), SensorEffect(sets), TheEvent.kind # "service",
         \A k \in StateKeys \ overridden : onBus'[k] = onBus[k]
  PROVE  BusOK'
<1> DEFINE new == Queued(sets, o, raised)
<1>0. overridden' = overridden
  BY DEF Handled
<1> SUFFICES ASSUME NEW k \in StateKeys \ overridden, k[1] \in {"wind", "rain"}
             PROVE  \/ /\ Silent(eventQueue', k)
                       /\ onBus'[k] = m_states'[k] \/ (onBus'[k] = None /\ m_states'[k] = Inactive)
                    \/ m_states'[k] \in {Active, Inactive} /\ Ends(eventQueue', k, m_states'[k])
  BY <1>0 DEF BusOK, Silent, Ends, About
<1>1. k \in Sensors /\ k # Mode
  BY Pairs DEF Sensors, Mode
<1>2. /\ eventQueue' = Tail(eventQueue) \o new /\ new \in Seq(QueuedEvents)
      /\ Tail(eventQueue) \in Seq(QueuedEvents) /\ eventQueue \in Seq(QueuedEvents)
  BY HandledQueues DEF QueuesOK, Base
<1>3. Silent(new, k)
  BY <1>1, SensorSilent
<1>4. ~About(TheEvent, k)
  BY <1>1 DEF About
<1>5. m_states'[k] = m_states[k] \/ (m_states[k] = None /\ m_states'[k] = Inactive)
  BY <1>1, SensorKept DEF Args
<1> HIDE DEF new
<1>6. CASE /\ Silent(eventQueue, k)
           /\ onBus[k] = m_states[k] \/ (onBus[k] = None /\ m_states[k] = Inactive)
  <2>1. Silent(Tail(eventQueue), k)
    BY <1>2, <1>6, EndsTaken
  <2>2. Silent(eventQueue', k)
    BY <1>2, <1>3, <2>1, EndsJoined
  <2> QED BY <1>5, <1>6, <2>2
<1>7. CASE m_states[k] \in {Active, Inactive} /\ Ends(eventQueue, k, m_states[k])
  <2>1. Ends(Tail(eventQueue), k, m_states[k])
    BY <1>2, <1>4, <1>7, EndsTaken DEF TheEvent
  <2>2. Ends(eventQueue', k, m_states[k])
    BY <1>2, <1>3, <2>1, EndsJoined
  <2>3. m_states'[k] = m_states[k]
    BY <1>5, <1>7 DEF None, Active, Inactive
  <2> QED BY <1>7, <2>2, <2>3
<1> QED BY <1>6, <1>7 DEF BusOK

HeatingKeys == {At("heating_system"), At("heating_system_mode"), Mode}

(* The heating mode is what it was. *)
LEMMA ModeKept ==
  ASSUME Base, ModeOK, eventQueue # <<>>,
         NEW sets, NEW o, NEW sent, Args(sets, o, <<>>, sent), Handled(sets, o, <<>>, sent),
         HeatingKeys \cap DOMAIN sets = {}, ~About(TheEvent, Mode)
  PROVE  ModeOK'
<1> DEFINE new == Queued(sets, o, <<>>)
<1>0. overridden' = overridden
  BY DEF Handled
<1>1. \A k \in HeatingKeys : m_states'[k] = m_states[k]
  <2>1. HeatingKeys \subseteq StateKeys
    BY Keys DEF HeatingKeys
  <2> QED BY <2>1, HandledStates DEF Args, Base
<1>2. HeatingModeOf(m_states') = HeatingModeOf(m_states) /\ m_states'[Mode] = m_states[Mode]
  BY <1>1 DEF HeatingModeOf, HeatingKeys
<1>3. /\ eventQueue' = Tail(eventQueue) \o new /\ new \in Seq(QueuedEvents)
      /\ Tail(eventQueue) \in Seq(QueuedEvents) /\ eventQueue \in Seq(QueuedEvents)
  BY HandledQueues DEF QueuesOK, Base
<1>4. Silent(new, Mode)
  <2> SUFFICES ASSUME NEW j \in DOMAIN new, About(new[j], Mode) PROVE FALSE
    BY DEF Silent
  <2>1. new[j].kind = "service"
    BY QueuedAre
  <2> QED BY <2>1 DEF About
<1> HIDE DEF new
<1>5. Silent(eventQueue, Mode) => Silent(eventQueue', Mode)
  <2>1. Silent(eventQueue, Mode) => Silent(Tail(eventQueue), Mode)
    BY <1>3, EndsTaken
  <2> QED BY <1>3, <1>4, <2>1, EndsJoined
<1>6. ASSUME NEW x, Ends(eventQueue, Mode, x) PROVE Ends(eventQueue', Mode, x)
  <2>1. Ends(Tail(eventQueue), Mode, x)
    BY <1>3, <1>6, EndsTaken DEF TheEvent
  <2> QED BY <1>3, <1>4, <2>1, EndsJoined
<1>7. Silent(eventQueue', Mode) = Silent(eventQueue, Mode)'
  BY DEF Silent, About, Mode, At
<1>8. \A x : Ends(eventQueue', Mode, x) = Ends(eventQueue, Mode, x)'
  BY DEF Ends, About, Mode, At
<1>9. HeatingModeOf(m_states)' = HeatingModeOf(m_states')
  BY DEF HeatingModeOf
<1> QED BY <1>0, <1>2, <1>5, <1>6, <1>7, <1>8, <1>9 DEF ModeOK

(* The counters of inputs stay right. *)
LEMMA CombinedKept ==
  ASSUME Base, CombinedOK, eventQueue # <<>>,
         NEW sets, NEW o, NEW raised, NEW sent, Args(sets, o, raised, sent),
         Handled(sets, o, raised, sent), SensorEffect(sets), counters' = counters,
         TheEvent.kind = "device" => TheEvent.input.type \notin Combined
  PROVE  CombinedOK'
<1> DEFINE new == Queued(sets, o, raised)
<1>0. UNCHANGED <<inputs, overridden, doubtful>>
  BY DEF Handled
<1>1. PICK told \in [Inputs -> 0 .. 3] : TurnsOK(told) /\ CountsOK(told) /\ OrOK(told)
  BY DEF CombinedOK
<1>2. /\ eventQueue' = Tail(eventQueue) \o new /\ new \in Seq(QueuedEvents)
      /\ Tail(eventQueue) \in Seq(QueuedEvents) /\ eventQueue \in Seq(QueuedEvents)
  BY HandledQueues DEF QueuesOK, Base
<1>3. \A i \in Inputs, j \in DOMAIN new : ~Of(new[j], i)
  BY QueuedAre DEF Of
<1> HIDE DEF new
<1>4. ASSUME NEW i \in Inputs \ doubtful, i.type \in Combined
      PROVE  Turns(eventQueue', i, told[i], inputs[i])
  <2>1. Turns(eventQueue, i, told[i], inputs[i]) /\ ~Of(Head(eventQueue), i)
    BY <1>1, <1>4 DEF TurnsOK, Of, TheEvent
  <2>2. Turns(Tail(eventQueue), i, told[i], inputs[i])
    BY <1>2, <2>1, TurnsTaken
  <2> QED BY <1>2, <1>3, <2>2, TurnsJoined
<1>5. TurnsOK(told)'
  BY <1>0, <1>4 DEF TurnsOK, Turns, Of
<1>6. CountsOK(told)'
  BY <1>0, <1>1 DEF CountsOK, On
<1>7. OrOK(told)'
  <2> SUFFICES ASSUME NEW k \in StateKeys, OnlyInputs(k)
               PROVE  m_states'[k] = Active <=> \E i \in Feeding(k) : told[i] = Active
    BY <1>0 DEF OrOK, OnlyInputs
  <2>1. k \in Sensors \ overridden
    BY DEF OnlyInputs, Sensors
  <2>2. m_states'[k] = m_states[k] \/ (m_states[k] = None /\ m_states'[k] = Inactive)
    BY <2>1, SensorKept DEF Args
  <2>3. m_states[k] = Active <=> \E i \in Feeding(k) : told[i] = Active
    BY <1>1 DEF OrOK
  <2> QED BY <2>2, <2>3 DEF None, Active, Inactive
<1> QED BY <1>1, <1>5, <1>6, <1>7 DEF CombinedOK

-----------------------------------------------------------------------------
(* callscene                                                               *)

(* What the scenes set *)
LEMMA SetByIs ==
  /\ \A s \in AlarmScenes : SetBy(s) = <<s, 1>>
  /\ \A s \in DOMAIN GroupScenes : SetBy(s) = GroupScenes[s]
  /\ SetBy("absent") = <<"presence", 2>> /\ SetBy("present") = <<"presence", 1>>
  /\ SetBy("sleeping") = <<"hibernation", 2>> /\ SetBy("wakeup") = <<"hibernation", 1>>
BY GroupScenesAre DEF SetBy, AlarmScenes, Active

(* A function with one value *)
LEMMA OnlyIs ==
  ASSUME NEW k, NEW v
  PROVE  DOMAIN Only(k, v) = {k} /\ Only(k, v)[k] = v
BY DEF Only

(* A function over another *)
LEMMA OverIs ==
  ASSUME NEW f, NEW g
  PROVE  /\ DOMAIN Over(f, g) = DOMAIN f \cup DOMAIN g
         /\ \A x \in DOMAIN f : Over(f, g)[x] = f[x]
         /\ \A x \in DOMAIN g : x \in DOMAIN f \/ Over(f, g)[x] = g[x]
BY DEF Over

(* Nothing *)
LEMMA NoStateIs == DOMAIN NoState = {} /\ OKSets(NoState)
BY DEF NoState, OKSets

(* The names of what a scene sets for the apartment *)
LEMMA SetByNames ==
  ASSUME NEW s \in ApartmentScenes
  PROVE  /\ SetBy(s)[2] \in {1, 2}
         /\ SetBy(s)[1] \in {"panic", "fire", "alarm", "alarm2", "alarm3", "alarm4", "wind", "rain",
                             "presence", "hibernation"}
         /\ SetBy(s)[1] \in {"panic", "fire"} => SetBy(s)[1] = s
         /\ SetBy(s)[1] \in {"wind", "rain"} => s \in DOMAIN GroupScenes /\ SetBy(s) = GroupScenes[s]
         /\ s = "absent" => SetBy(s)[1] = "presence"
<1>1. CASE s \in AlarmScenes
  <2>1. SetBy(s)[1] = s /\ SetBy(s)[2] = 1
    BY <1>1, SetByIs
  <2> QED BY <1>1, <2>1 DEF AlarmScenes
<1>2. CASE s \in DOMAIN GroupScenes
  BY <1>2, SetByIs, GroupScenesAre
<1>3. CASE s \in {"absent", "present", "sleeping", "wakeup"}
  BY <1>3, SetByIs
<1> QED BY <1>1, <1>2, <1>3 DEF ApartmentScenes

(* Presence of the apartment is not combined from sensors. *)
LEMMA NotSensors ==
  /\ At("presence") \notin Sensors /\ At("motion") \notin Sensors
  /\ \A k \in Sensors : k[1] \in {"wind", "rain", "motion", "presence", "frost"}
<1>1. ASSUME NEW n \in {"presence", "motion"}, At(n) \in Sensors PROVE FALSE
  <2>1. PICK i \in Inputs : KeyOf(i) = At(n)
    BY <1>1, Pairs DEF Sensors, Feeding
  <2> QED BY <2>1, KeysOfInputs, Pairs
<1> QED BY <1>1 DEF Sensors

(* What a call sets: alarms by their scenes only, wind and rain as overridden. *)
LEMMA CallSetsAre ==
  ASSUME NEW e, e.kind = "call", e.group \in Nat
  PROVE  /\ OKSets(CallSets(e))
         /\ HeatingKeys \cap DOMAIN CallSets(e) = {}
         /\ \A s \in {"panic", "fire"} : At(s) \in DOMAIN CallSets(e) => e.scene = s /\ e.group = 0
         /\ \A k \in DOMAIN CallSets(e) : k \in Sensors => k \in Overrides(e)
<1> DEFINE name == SetBy(e.scene)[1]
           value == SetBy(e.scene)[2]
           rain == IF e.scene = "rainInactive" THEN RainStates ELSE {}
<1>1. CASE e.group = 0 /\ e.scene \in ApartmentScenes
  <2> DEFINE f == Only(At(name), value)
             g == [k \in rain |-> Inactive]
  <2>1. CallSets(e) = Over(f, g)
    BY <1>1 DEF CallSets
  <2> HIDE DEF rain
  <2>2. /\ DOMAIN g = rain /\ \A k \in rain : g[k] = Inactive
        /\ DOMAIN f = {At(name)} /\ f[At(name)] = value
    BY OnlyIs
  <2> HIDE DEF f, g
  <2>3. DOMAIN CallSets(e) = {At(name)} \cup rain
    BY <2>1, <2>2, OverIs
  <2>4. \A k \in DOMAIN CallSets(e) : CallSets(e)[k] = IF k = At(name) THEN value ELSE Inactive
    <3> SUFFICES ASSUME NEW k \in {At(name)} \cup rain
                 PROVE  CallSets(e)[k] = IF k = At(name) THEN value ELSE Inactive
      BY <2>3
    <3>1. Over(f, g)[k] = IF k \in DOMAIN f THEN f[k] ELSE g[k]
      BY <2>2 DEF Over
    <3> QED BY <2>1, <2>2, <3>1
  <2>5. /\ value \in {1, 2}
        /\ name \in {"panic", "fire", "alarm", "alarm2", "alarm3", "alarm4", "wind", "rain",
                     "presence", "hibernation"}
        /\ name \in {"panic", "fire"} => name = e.scene
        /\ name \in {"wind", "rain"} => e.scene \in DOMAIN GroupScenes /\ GroupScenes[e.scene][1] = name
    BY <1>1, SetByNames
  <2> HIDE DEF name, value
  <2>6. \A k \in rain : /\ k \in StateKeys /\ k[1] = "rain" /\ k[2] >= 16 /\ k[2] \in Nat
                        /\ e.scene = "rainInactive"
    BY Keys, Pairs, GroupIDs DEF rain, RainStates
  <2>7. At(name) \in StateKeys
    BY <2>5, Keys
  <2>8. OKSets(CallSets(e))
    BY <2>3, <2>4, <2>5, <2>6, <2>7 DEF OKSets, Inactive
  <2>9. HeatingKeys \cap DOMAIN CallSets(e) = {}
    BY <2>3, <2>5, <2>6, Pairs DEF HeatingKeys, Mode
  <2>10. ASSUME NEW s \in {"panic", "fire"}, At(s) \in DOMAIN CallSets(e) PROVE e.scene = s
    BY <2>3, <2>5, <2>6, <2>10, Pairs
  <2>11. ASSUME NEW k \in DOMAIN CallSets(e), k \in Sensors PROVE k \in Overrides(e)
    <3>1. k \in StateKeys
      BY <2>8 DEF OKSets
    <3>2. CASE k \in rain
      BY <1>1, <2>6, <3>1, <3>2, GroupScenesAre DEF Overrides
    <3>3. CASE k = At(name)
      <4>1. name \in {"wind", "rain"}
        BY <2>5, <2>11, <3>3, NotSensors, Pairs
      <4> QED BY <1>1, <2>5, <3>1, <3>3, <4>1, Pairs DEF Overrides
    <3> QED BY <2>3, <2>11, <3>2, <3>3
  <2> QED BY <1>1, <2>8, <2>9, <2>10, <2>11
<1>2. CASE /\ ~(e.group = 0 /\ e.scene \in ApartmentScenes)
           /\ e.group \in UserGroups /\ e.scene \in DOMAIN GroupScenes
  <2>1. CallSets(e) = Only(InGroup(name, e.group), value)
    BY <1>2 DEF CallSets
  <2>2. name \in {"wind", "rain"} /\ value \in {1, 2} /\ name = GroupScenes[e.scene][1]
    BY <1>2, SetByIs, GroupScenesAre
  <2> HIDE DEF name, value
  <2>3. DOMAIN CallSets(e) = {InGroup(name, e.group)} /\ CallSets(e)[InGroup(name, e.group)] = value
    BY <2>1, OnlyIs
  <2>4. InGroup(name, e.group) \in StateKeys /\ e.group >= 16
    BY <1>2, <2>2, Keys, GroupIDs
  <2>5. OKSets(CallSets(e))
    BY <2>2, <2>3, <2>4 DEF OKSets
  <2>6. HeatingKeys \cap DOMAIN CallSets(e) = {}
    BY <2>2, <2>3, Pairs DEF HeatingKeys, Mode
  <2>7. \A s \in {"panic", "fire"} : At(s) \notin DOMAIN CallSets(e)
    BY <2>2, <2>3, Pairs
  <2>8. InGroup(name, e.group) \in Overrides(e)
    BY <1>2, <2>2, <2>4, Pairs DEF Overrides
  <2> QED BY <2>3, <2>5, <2>6, <2>7, <2>8
<1>3. CASE /\ ~(e.group = 0 /\ e.scene \in ApartmentScenes)
           /\ ~(e.group \in UserGroups /\ e.scene \in DOMAIN GroupScenes)
  <2>1. CallSets(e) = NoState
    BY <1>3 DEF CallSets
  <2> QED BY <2>1, NoStateIs
<1> QED BY <1>1, <1>2, <1>3

(* A call by the plugin itself sets nothing of a sensor, and no other event *)
(* does that is not foreign to it.                                          *)
LEMMA NotForeign ==
  ASSUME Base, eventQueue # <<>>, NEW k \in Sensors \ overridden
  PROVE  ~Foreign(TheEvent, k)
<1>1. k \in StateKeys /\ k # Mode
  BY NotSensors, Pairs DEF Sensors, Mode
<1>2. TheEvent = eventQueue[1] /\ 1 \in DOMAIN eventQueue
  BY Taken DEF Base, QueuesOK, TheEvent
<1> QED BY <1>1, <1>2 DEF Base, OverridingOK

(* The undo of an alarm that is active *)
LEMMA ClearedByIs ==
  ASSUME NEW s \in {"panic", "fire"}
  PROVE  /\ ClearedBy(s) \in Seq(OwnCalls)
         /\ \A j \in DOMAIN ClearedBy(s) : ClearedBy(s)[j].kind = "undo"
         /\ m_states[At(s)] = Active => IsReset(ClearedBy(s), s)
<1> DEFINE u == SceneCall("undo", s, 0, "system")
<1>1. u \in OwnCalls /\ u.kind = "undo" /\ u.scene = s /\ u.group = 0
  BY GroupScenesAre DEF SceneCall, OwnCalls, SystemCalls, ApartmentScenes, AlarmScenes
<1> HIDE DEF u
<1>2. <<u>> \in Seq(OwnCalls) /\ DOMAIN <<u>> = {1} /\ <<u>>[1] = u
  BY <1>1, OneElement
<1>3. <<>> \in Seq(OwnCalls) /\ DOMAIN <<>> = {}
  BY EmptySeq, NoElement
<1>4. ClearedBy(s) = IF m_states[At(s)] = Active THEN <<u>> ELSE <<>>
  BY DEF ClearedBy, u
<1>5. IsReset(<<u>>, s)
  BY <1>1, <1>2 DEF IsReset, Resets
<1> QED BY <1>1, <1>2, <1>3, <1>4, <1>5

(* Undos set no alarm, and are no scenes of wind and rain. *)
LEMMA UndosOnly ==
  ASSUME NEW sent \in Seq(OwnCalls), \A j \in DOMAIN sent : sent[j].kind = "undo"
  PROVE  /\ \A s : NoneSets(sent, s)
         /\ sent # <<>> => Last(sent).kind = "undo"
<1>1. \A s : NoneSets(sent, s)
  BY DEF NoneSets, Sets
<1>2. ASSUME sent # <<>> PROVE Last(sent).kind = "undo"
  <2>1. Len(sent) \in DOMAIN sent
    BY <1>2, EmptySeq, LenProperties
  <2> QED BY <2>1 DEF Last
<1> QED BY <1>1, <1>2

IInv == Base /\ ModeOK /\ BusOK /\ CombinedOK

(* What is sent is no scene of wind and rain. *)
Unseen(sent) ==
  sent # <<>> => ~(Last(sent).kind = "call" /\ Last(sent).scene \in DOMAIN GroupScenes)

(* The bus has seen nothing new. *)
LEMMA NothingSeen ==
  ASSUME ShapeOK, NEW sets, NEW o, NEW raised, NEW sent, Handled(sets, o, raised, sent), Unseen(sent)
  PROVE  onBus' = onBus
BY SeenType DEF Handled, Unseen, ShapeOK

(* An event that changes no state of a sensor and no heating state *)
LEMMA Kept ==
  ASSUME IInv, eventQueue # <<>>,
         NEW sets, NEW o, NEW sent, Args(sets, o, <<>>, sent), Handled(sets, o, <<>>, sent),
         counters' = counters, AlarmEffect(sets, sent), StartEffect(sets, <<>>, sent),
         SensorEffect(sets), HeatingKeys \cap DOMAIN sets = {}, Unseen(sent),
         ~About(TheEvent, Mode), TheEvent.kind # "service",
         TheEvent.kind = "device" => TheEvent.input.type \notin Combined
  PROVE  IInv'
<1>1. onBus' = onBus
  BY NothingSeen DEF IInv, Base
<1>2. counters' \in [CounterKeys -> Nat]
  BY DEF IInv, Base, ShapeOK
<1>3. Base'
  BY <1>2, HandledBase DEF IInv
<1>4. ModeOK'
  BY ModeKept DEF IInv
<1>5. BusOK'
  BY <1>1, BusKept DEF IInv
<1>6. CombinedOK'
  BY CombinedKept DEF IInv
<1> QED BY <1>3, <1>4, <1>5, <1>6 DEF IInv

(* The event at the head *)
LEMMA TheEventIs ==
  ASSUME Base, eventQueue # <<>>
  PROVE  TheEvent \in QueuedEvents
BY Taken DEF Base, QueuesOK, TheEvent

(* No call and no signal: arguments without either *)
LEMMA NoArgs ==
  /\ <<>> \in Seq(OwnCalls) /\ <<>> \in Seq(ModeSignals) /\ Unseen(<<>>)
  /\ \A s : NoneSets(<<>>, s)
BY EmptySeq, NoElement DEF Unseen, NoneSets

(* A call of a scene *)
LEMMA CallStep == IInv /\ callscene => IInv'
<1> SUFFICES ASSUME IInv, callscene PROVE IInv'
  OBVIOUS
<1> DEFINE e == TheEvent
<1>1. eventQueue # <<>> /\ e.kind = "call" /\ counters' = counters
  BY DEF callscene, Handling, TheEvent
<1>2. e.group \in Nat /\ e.origin \in Origin4
  BY <1>1, TheEventIs, EventTypes DEF IInv
<1>3. /\ ~About(e, Mode) /\ e.kind # "service" /\ e.kind # "device"
      /\ \A sets, sent : StartEffect(sets, <<>>, sent)
  BY <1>1 DEF About, StartEffect
<1>4. CASE FromSystem(e.origin)
  <2>1. Handled(NoState, "system", <<>>, <<>>)
    BY <1>4 DEF callscene
  <2>2. Args(NoState, "system", <<>>, <<>>)
    BY NoArgs, NoStateIs DEF Args, Origin4
  <2>3. \A s : ~Resets(e, s)
    BY <1>1, <1>4 DEF FromSystem, Resets
  <2>4. AlarmEffect(NoState, <<>>)
    BY <2>3, NoArgs, NoStateIs DEF AlarmEffect
  <2>5. SensorEffect(NoState) /\ HeatingKeys \cap DOMAIN NoState = {}
    BY NoStateIs DEF SensorEffect
  <2> QED BY <1>1, <1>3, <2>1, <2>2, <2>4, <2>5, NoArgs, Kept
<1>5. CASE ~FromSystem(e.origin)
  <2> DEFINE sets == CallSets(e)
             away == e.scene = "absent" /\ e.group = 0
             sent == IF away THEN ClearedBy("panic") \o ClearedBy("fire") ELSE <<>>
  <2>1. Handled(sets, "system", <<>>, sent)
    BY <1>5 DEF callscene
  <2>2. /\ OKSets(sets) /\ HeatingKeys \cap DOMAIN sets = {}
        /\ \A s \in {"panic", "fire"} : At(s) \in DOMAIN sets => e.scene = s /\ e.group = 0
        /\ \A k \in DOMAIN sets : k \in Sensors => k \in Overrides(e)
    BY <1>1, <1>2, CallSetsAre
  <2> HIDE DEF sets
  <2>3. /\ ClearedBy("panic") \in Seq(OwnCalls) /\ ClearedBy("fire") \in Seq(OwnCalls)
        /\ \A j \in DOMAIN ClearedBy("panic") : ClearedBy("panic")[j].kind = "undo"
        /\ \A j \in DOMAIN ClearedBy("fire") : ClearedBy("fire")[j].kind = "undo"
    BY ClearedByIs
  <2>4. sent \in Seq(OwnCalls) /\ \A j \in DOMAIN sent : sent[j].kind = "undo"
    <3>1. CASE away
      <4>1. sent = ClearedBy("panic") \o ClearedBy("fire")
        BY <3>1
      <4> QED BY <2>3, <4>1, Joined
    <3>2. CASE ~away
      BY <3>2, NoArgs, NoElement
    <3> QED BY <3>1, <3>2
  <2>5. (\A s : NoneSets(sent, s)) /\ Unseen(sent)
    BY <2>4, UndosOnly DEF Unseen
  <2>6. ASSUME NEW s \in {"panic", "fire"}, Resets(e, s)
        PROVE  IsReset(sent, s) \/ (At(s) \notin DOMAIN sets /\ m_states[At(s)] # Active)
    <3>1. away
      BY <1>1, <2>6 DEF Resets
    <3>2. At(s) \notin DOMAIN sets
      BY <2>2, <3>1
    <3>3. sent = ClearedBy("panic") \o ClearedBy("fire")
      BY <3>1
    <3>4. ASSUME m_states[At(s)] = Active PROVE IsReset(sent, s)
      <4>1. IsReset(ClearedBy(s), s)
        BY <3>4, ClearedByIs
      <4>2. NoneSets(ClearedBy("fire"), s)
        BY <2>3, UndosOnly
      <4> QED BY <2>3, <3>3, <4>1, <4>2, ResetJoined
    <3> QED BY <3>2, <3>4
  <2>7. ASSUME NEW s \in {"panic", "fire"}, At(s) \in DOMAIN sets PROVE Sets(e, s)
    BY <1>1, <1>5, <2>2, <2>7 DEF Sets, FromSystem
  <2> HIDE DEF sent
  <2>8. AlarmEffect(sets, sent)
    BY <2>5, <2>6, <2>7 DEF AlarmEffect
  <2>9. SensorEffect(sets)
    <3> SUFFICES ASSUME NEW k \in DOMAIN sets \ overridden, k \in Sensors PROVE FALSE
      BY DEF SensorEffect
    <3>1. k \in Overrides(e)
      BY <2>2
    <3>2. Foreign(e, k)
      BY <1>1, <1>5, <3>1 DEF Foreign, FromSystem
    <3> QED BY <1>1, <3>2, NotForeign DEF IInv
  <2>10. Args(sets, "system", <<>>, sent)
    BY <2>2, <2>4, NoArgs DEF Args, Origin4
  <2> QED BY <1>1, <1>3, <2>1, <2>2, <2>5, <2>8, <2>9, <2>10, Kept
<1> QED BY <1>4, <1>5

(* An undo of a scene *)
LEMMA UndoStep == IInv /\ undoscene => IInv'
<1> SUFFICES ASSUME IInv, undoscene PROVE IInv'
  OBVIOUS
<1> DEFINE e == TheEvent
<1>1. eventQueue # <<>> /\ e.kind = "undo" /\ counters' = counters
  BY DEF undoscene, Handling, TheEvent
<1>2. /\ ~About(e, Mode) /\ e.kind # "service" /\ e.kind # "device"
      /\ \A sets, sent : StartEffect(sets, <<>>, sent)
  BY <1>1 DEF About, StartEffect
<1>3. DOMAIN Partner = {"panic", "fire"} /\ Partner["panic"] = "fire" /\ Partner["fire"] = "panic"
  BY DEF Partner
<1>4. CASE ~Undoes(e)
  <2>1. Handled(NoState, "system", <<>>, <<>>)
    BY <1>4 DEF undoscene
  <2>2. Args(NoState, "system", <<>>, <<>>)
    BY NoArgs, NoStateIs DEF Args, Origin4
  <2>3. \A s \in {"panic", "fire"} : ~Resets(e, s)
    BY <1>1, <1>3, <1>4 DEF Undoes, Resets, AlarmScenes
  <2>4. AlarmEffect(NoState, <<>>)
    BY <2>3, NoArgs, NoStateIs DEF AlarmEffect
  <2>5. SensorEffect(NoState) /\ HeatingKeys \cap DOMAIN NoState = {}
    BY NoStateIs DEF SensorEffect
  <2> QED BY <1>1, <1>2, <2>1, <2>2, <2>4, <2>5, NoArgs, Kept
<1>5. CASE Undoes(e)
  <2> DEFINE sets == Only(At(e.scene), Inactive)
             both == e.button /\ e.origin = "dsmApi" /\ e.scene \in DOMAIN Partner
             sent == IF both THEN ClearedBy(Partner[e.scene]) ELSE <<>>
  <2>1. Handled(sets, "system", <<>>, sent)
    BY <1>5 DEF undoscene
  <2>2. e.scene \in {"panic", "fire", "alarm", "alarm2", "alarm3", "alarm4"}
    BY <1>5 DEF Undoes, AlarmScenes
  <2>3. DOMAIN sets = {At(e.scene)} /\ sets[At(e.scene)] = Inactive
    BY OnlyIs
  <2> HIDE DEF sets
  <2>4. OKSets(sets) /\ HeatingKeys \cap DOMAIN sets = {}
    <3>1. At(e.scene) \in StateKeys /\ At(e.scene) \notin HeatingKeys
      BY <2>2, Keys, Pairs DEF HeatingKeys, Mode
    <3> QED BY <2>3, <3>1 DEF OKSets, Inactive
  <2>5. SensorEffect(sets)
    BY <2>2, <2>3, NotSensors, Pairs DEF SensorEffect
  <2>6. sent \in Seq(OwnCalls) /\ \A j \in DOMAIN sent : sent[j].kind = "undo"
    <3>1. CASE both
      <4>1. sent = ClearedBy(Partner[e.scene]) /\ Partner[e.scene] \in {"panic", "fire"}
        BY <1>3, <3>1
      <4> QED BY <4>1, ClearedByIs
    <3>2. CASE ~both
      BY <3>2, NoArgs, NoElement
    <3> QED BY <3>1, <3>2
  <2>7. (\A s : NoneSets(sent, s)) /\ Unseen(sent)
    BY <2>6, UndosOnly DEF Unseen
  <2>8. ASSUME NEW s \in {"panic", "fire"}, Resets(e, s), e.scene # s, m_states[At(s)] = Active
        PROVE  IsReset(sent, s)
    <3>1. both /\ s = Partner[e.scene]
      BY <1>1, <2>8 DEF Resets
    <3>2. sent = ClearedBy(s)
      BY <3>1
    <3> QED BY <2>8, <3>2, ClearedByIs
  <2> HIDE DEF sent
  <2>9. AlarmEffect(sets, sent)
    <3> SUFFICES ASSUME NEW s \in {"panic", "fire"}
                 PROVE  /\ At(s) \in DOMAIN sets => sets[At(s)] # Active
                        /\ Resets(e, s) =>
                             \/ IsReset(sent, s)
                             \/ IF At(s) \in DOMAIN sets THEN sets[At(s)] # Active
                                ELSE m_states[At(s)] # Active
      BY <2>7 DEF AlarmEffect
    <3>1. At(s) \in DOMAIN sets => sets[At(s)] # Active
      BY <2>3 DEF Active, Inactive
    <3>2. e.scene = s => At(s) \in DOMAIN sets
      BY <2>3
    <3> QED BY <2>8, <3>1, <3>2
  <2>10. Args(sets, "system", <<>>, sent)
    BY <2>4, <2>6, NoArgs DEF Args, Origin4
  <2> QED BY <1>1, <1>2, <2>1, <2>4, <2>5, <2>7, <2>9, <2>10, Kept
<1> QED BY <1>4, <1>5

(* A signal of the bus *)
LEMMA SignalStep == IInv /\ HandleSignal => IInv'
<1> SUFFICES ASSUME IInv, HandleSignal PROVE IInv'
  OBVIOUS
<1> DEFINE e == TheEvent
           sets == Only(e.key, e.value)
           new == Queued(sets, "dsmApi", <<>>)
<1>1. eventQueue # <<>> /\ e.kind = "signal" /\ counters' = counters /\ Handled(sets, "dsmApi", <<>>, <<>>)
  BY DEF HandleSignal, Handling, TheEvent
<1>2. e.key \in {At("frost"), Mode, At("building_service")} /\ e.value \in 0 .. 3
  BY <1>1, TheEventIs, EventTypes DEF IInv
<1>3. DOMAIN sets = {e.key} /\ sets[e.key] = e.value
  BY OnlyIs
<1> HIDE DEF sets
<1>4. OKSets(sets)
  BY <1>2, <1>3, Keys DEF OKSets
<1>5. Args(sets, "dsmApi", <<>>, <<>>)
  BY <1>4, NoArgs DEF Args, Origin4
<1>6. /\ e.kind # "service" /\ e.kind # "device" /\ StartEffect(sets, <<>>, <<>>)
      /\ \A s : ~Resets(e, s)
  BY <1>1 DEF StartEffect, Resets
<1>7. \A s \in {"panic", "fire"} : At(s) \notin DOMAIN sets
  BY <1>2, <1>3, Pairs DEF Mode
<1>8. AlarmEffect(sets, <<>>)
  BY <1>6, <1>7, NoArgs DEF AlarmEffect
<1>9. SensorEffect(sets)
  <2> SUFFICES ASSUME NEW k \in DOMAIN sets \ overridden, k \in Sensors PROVE FALSE
    BY DEF SensorEffect
  <2>1. Foreign(e, k)
    BY <1>1, <1>3 DEF Foreign
  <2> QED BY <1>1, <2>1, NotForeign DEF IInv
<1>10. CASE e.key # Mode
  <2>1. HeatingKeys \cap DOMAIN sets = {}
    BY <1>2, <1>3, <1>10, Pairs DEF HeatingKeys, Mode
  <2>2. ~About(e, Mode)
    BY <1>1, <1>10 DEF About
  <2> QED BY <1>1, <1>5, <1>6, <1>8, <1>9, <2>1, <2>2, NoArgs, Kept
<1>11. CASE e.key = Mode
  <2>1. onBus' = onBus
    BY <1>1, NothingSeen, NoArgs DEF IInv, Base
  <2>2. Base'
    BY <1>1, <1>5, <1>6, <1>8, HandledBase DEF IInv, Base, ShapeOK
  <2>3. BusOK'
    BY <1>1, <1>5, <1>6, <1>9, <2>1, BusKept DEF IInv
  <2>4. CombinedOK'
    BY <1>1, <1>5, <1>6, <1>9, CombinedKept DEF IInv
  <2>5. /\ eventQueue' = Tail(eventQueue) \o new /\ new \in Seq(QueuedEvents)
        /\ Tail(eventQueue) \in Seq(QueuedEvents) /\ eventQueue \in Seq(QueuedEvents)
    BY <1>1, <1>5, HandledQueues DEF QueuesOK, IInv, Base
  <2>6. Silent(new, Mode)
    <3> SUFFICES ASSUME NEW j \in DOMAIN new, About(new[j], Mode) PROVE FALSE
      BY DEF Silent
    <3>1. new[j].kind = "service"
      BY <1>5, QueuedAre
    <3> QED BY <3>1 DEF About
  <2> HIDE DEF new
  <2>7. \A k \in StateKeys : m_states'[k] = IF k = Mode THEN e.value ELSE m_states[k]
    BY <1>1, <1>3, <1>4, <1>11, HandledStates DEF IInv, Base
  <2>8. Mode \in StateKeys /\ At("heating_system") \in StateKeys /\ At("heating_system_mode") \in StateKeys
    BY Keys
  <2>9. At("heating_system") # Mode /\ At("heating_system_mode") # Mode
    BY Pairs DEF Mode
  <2>10. HeatingModeOf(m_states') = HeatingModeOf(m_states) /\ m_states'[Mode] = e.value
    BY <2>7, <2>8, <2>9 DEF HeatingModeOf
  <2>11. e.value # None
    BY <1>2 DEF None
  <2>12. ASSUME Mode \notin overridden, NEW x \in {0, 1, 2}, HeatingModeOf(m_states) = <<x>>
         PROVE  (Silent(eventQueue', Mode) /\ x = e.value) \/ Ends(eventQueue', Mode, x)
    <3>1. About(e, Mode)
      BY <1>1, <1>11 DEF About
    <3>2. Ends(eventQueue, Mode, x)
      <4>1. ~Silent(eventQueue, Mode)
        BY <2>5, <3>1, <1>1, EndsTaken DEF TheEvent
      <4> QED BY <2>12, <4>1 DEF IInv, ModeOK
    <3>3. Ends(Tail(eventQueue), Mode, x) \/ (e.value = x /\ Silent(Tail(eventQueue), Mode))
      BY <1>1, <2>5, <3>2, EndsTaken DEF TheEvent
    <3> QED BY <2>5, <2>6, <3>3, EndsJoined
  <2>13. overridden' = overridden
    BY <1>1 DEF Handled
  <2>14. /\ Silent(eventQueue', Mode) = Silent(eventQueue, Mode)'
         /\ \A x : Ends(eventQueue', Mode, x) = Ends(eventQueue, Mode, x)'
         /\ HeatingModeOf(m_states)' = HeatingModeOf(m_states')
    BY DEF Silent, Ends, About, Mode, At, HeatingModeOf
  <2>15. ModeOK'
    BY <2>10, <2>11, <2>12, <2>13, <2>14 DEF ModeOK
  <2> QED BY <2>2, <2>3, <2>4, <2>15 DEF IInv
<1> QED BY <1>10, <1>11

(* A smoke detector or a thermostat *)
LEMMA DetectorStep ==
  ASSUME IInv, eventQueue # <<>>, TheEvent.kind = "device", counters' = counters,
         \/ /\ TheEvent.input.type = "smoke"
            /\ Handled(IF TheEvent.value = Active THEN Only(At("fire"), Active) ELSE NoState,
                       "binaryInput", <<>>, <<>>)
         \/ /\ TheEvent.input.type = "thermostat"
            /\ Handled(NoState, "binaryInput", <<>>,
                 <<SceneCall("call", IF TheEvent.value = Active THEN "preset1" ELSE "off", 3,
                             "binaryInput")>>)
  PROVE  IInv'
<1> DEFINE e == TheEvent
<1>1. /\ ~About(e, Mode) /\ e.kind # "service" /\ \A s : ~Resets(e, s)
      /\ \A sets, sent : StartEffect(sets, <<>>, sent)
  BY DEF About, Resets, StartEffect
<1>2. CASE e.input.type = "smoke"
  <2> DEFINE sets == IF e.value = Active THEN Only(At("fire"), Active) ELSE NoState
  <2>1. Handled(sets, "binaryInput", <<>>, <<>>)
    BY <1>2
  <2>2. /\ DOMAIN sets \subseteq {At("fire")} /\ \A k \in DOMAIN sets : sets[k] = Active
        /\ DOMAIN sets # {} => e.value = Active
    <3>1. CASE e.value = Active
      <4>1. sets = Only(At("fire"), Active)
        BY <3>1
      <4> HIDE DEF sets
      <4>2. DOMAIN sets = {At("fire")} /\ sets[At("fire")] = Active
        BY <4>1, OnlyIs
      <4> QED BY <3>1, <4>2
    <3>2. CASE e.value # Active
      <4>1. sets = NoState
        BY <3>2
      <4> HIDE DEF sets
      <4> QED BY <4>1, NoStateIs
    <3> QED BY <3>1, <3>2
  <2> HIDE DEF sets
  <2>3. At("fire") \in StateKeys /\ At("fire") \notin HeatingKeys /\ At("fire") \notin Sensors
        /\ At("panic") # At("fire")
    BY Keys, NotSensors, Pairs DEF HeatingKeys, Mode
  <2>4. OKSets(sets) /\ SensorEffect(sets) /\ HeatingKeys \cap DOMAIN sets = {}
    BY <2>2, <2>3 DEF OKSets, SensorEffect, Active
  <2>5. Args(sets, "binaryInput", <<>>, <<>>)
    BY <2>4, NoArgs DEF Args, Origin4
  <2>6. \A s \in {"panic", "fire"} : At(s) \in DOMAIN sets => Sets(e, s)
    BY <1>2, <2>2, <2>3 DEF Sets
  <2>7. AlarmEffect(sets, <<>>)
    BY <1>1, <2>6, NoArgs DEF AlarmEffect
  <2>8. e.input.type \notin Combined
    BY <1>2 DEF Combined
  <2> QED BY <1>1, <2>1, <2>4, <2>5, <2>7, <2>8, NoArgs, Kept
<1>3. CASE e.input.type = "thermostat"
  <2> DEFINE scene == IF e.value = Active THEN "preset1" ELSE "off"
             c == SceneCall("call", scene, 3, "binaryInput")
  <2>1. Handled(NoState, "binaryInput", <<>>, <<c>>)
    BY <1>3
  <2>2. scene \in {"preset1", "off"}
    OBVIOUS
  <2> HIDE DEF scene
  <2>3. c \in PresetCalls
    BY <2>2 DEF PresetCalls, SceneCall
  <2>4. c.scene \notin DOMAIN GroupScenes /\ \A s \in {"panic", "fire"} : ~Sets(c, s)
    BY <2>2, GroupScenesAre DEF SceneCall, Sets
  <2> HIDE DEF c
  <2>5. <<c>> \in Seq(OwnCalls) /\ DOMAIN <<c>> = {1} /\ <<c>>[1] = c /\ Len(<<c>>) = 1
    BY <2>3, OneElement DEF OwnCalls
  <2>6. \A s \in {"panic", "fire"} : NoneSets(<<c>>, s)
    BY <2>4, <2>5 DEF NoneSets
  <2>7. Unseen(<<c>>)
    BY <2>4, <2>5 DEF Unseen, Last
  <2>8. AlarmEffect(NoState, <<c>>)
    BY <1>1, <2>6, NoStateIs DEF AlarmEffect
  <2>9. Args(NoState, "binaryInput", <<>>, <<c>>)
    BY <2>5, NoArgs, NoStateIs DEF Args, Origin4
  <2>10. SensorEffect(NoState) /\ HeatingKeys \cap DOMAIN NoState = {}
    BY NoStateIs DEF SensorEffect
  <2>11. e.input.type \notin Combined
    BY <1>3 DEF Combined
  <2> QED BY <1>1, <2>1, <2>7, <2>8, <2>9, <2>10, <2>11, Kept
<1> QED BY <1>2, <1>3

(* What is heeded is fire, or a state of wind or rain. *)
LEMMA HeededAre ==
  ASSUME NEW k \in Heeded
  PROVE  /\ k \in StateKeys /\ k = <<k[1], k[2]>> /\ k[2] \in Nat /\ k # Mode
         /\ k = At("fire") \/ k[1] \in {"wind", "rain"}
<1>1. k \in StateKeys /\ k[1] \in {"fire", "wind", "rain"} /\ k = <<k[1], k[2]>>
  BY KeysArePairs DEF Heeded, IsHeeded
<1>2. k # Mode
  BY <1>1, Pairs DEF Mode
<1>3. CASE k \in Bootstrapped \cup {At("building_service")}
  BY <1>1, <1>2, <1>3, Pairs DEF Bootstrapped
<1>4. CASE k \in {KeyOf(i) : i \in Inputs}
  <2>1. PICK i \in Inputs : k = KeyOf(i)
    BY <1>4
  <2>2. i.type # "fire"
    BY StatesAssumption
  <2> QED BY <1>1, <1>2, <2>1, <2>2, KeysOfInputs
<1>5. CASE k \in {InGroup(n, g) : n \in {"wind", "rain", "frost"}, g \in UserGroups}
  BY <1>1, <1>2, <1>5, Pairs, GroupIDs
<1> QED BY <1>1, <1>3, <1>4, <1>5 DEF StateKeys

(* What is sent because a state has changed: the scene of this value. *)
LEMMA ChangeSentIs ==
  ASSUME NEW k \in Heeded, NEW v \in 0 .. 3
  PROVE  /\ ChangeSent(k, v) \in Seq(OwnCalls)
         /\ \A s : NoneSets(ChangeSent(k, v), s)
         /\ ChangeSent(k, v) # <<>> /\ k[1] \notin {"wind", "rain"} => Unseen(ChangeSent(k, v))
         /\ k[1] \in {"wind", "rain"} /\ ChangeSent(k, v) # <<>> =>
              LET c == Last(ChangeSent(k, v))
              IN /\ c.kind = "call" /\ c.scene \in DOMAIN GroupScenes
                 /\ GroupScenes[c.scene] = <<k[1], v>> /\ c.group = k[2]
         /\ v \in {Active, Inactive} => ChangeSent(k, v) # <<>>
<1>0. /\ k \in StateKeys /\ k[2] \in Nat
      /\ k = At("fire") \/ k[1] \in {"wind", "rain"}
      /\ At("fire")[1] = "fire"
  BY HeededAre, Pairs
<1>1. CASE v \notin {Active, Inactive}
  <2>1. ChangeSent(k, v) = <<>>
    BY <1>1 DEF ChangeSent
  <2> QED BY <1>1, <2>1, NoArgs
<1>2. CASE v \in {Active, Inactive} /\ k = At("fire")
  <2> DEFINE c == SceneCall(IF v = Active THEN "call" ELSE "undo", "fire", 0, "system")
  <2>1. ChangeSent(k, v) = <<c>>
    BY <1>2 DEF ChangeSent
  <2>2. c \in OwnCalls /\ c.origin = "system" /\ c.kind \in {"call", "undo"} /\ c.scene = "fire"
    BY GroupScenesAre DEF SceneCall, OwnCalls, SystemCalls, ApartmentScenes, AlarmScenes
  <2> HIDE DEF c
  <2>3. <<c>> \in Seq(OwnCalls) /\ DOMAIN <<c>> = {1} /\ <<c>>[1] = c /\ Len(<<c>>) = 1
    BY <2>2, OneElement
  <2>4. \A s : NoneSets(<<c>>, s)
    BY <2>2, <2>3 DEF NoneSets, Sets
  <2>5. Unseen(<<c>>)
    BY <2>2, <2>3, GroupScenesAre DEF Unseen, Last
  <2>6. <<c>> # <<>>
    OBVIOUS
  <2> QED BY <1>0, <1>2, <2>1, <2>3, <2>4, <2>5, <2>6
<1>3. CASE v \in {Active, Inactive} /\ k # At("fire")
  <2> DEFINE scene == CHOOSE s \in DOMAIN GroupScenes : GroupScenes[s] = <<k[1], v>>
             c == SceneCall("call", scene, GroupOf(k), "system")
  <2>1. ChangeSent(k, v) = <<c>>
    BY <1>3 DEF ChangeSent
  <2>2. k[1] \in {"wind", "rain"}
    BY <1>0, <1>3
  <2>3. \E s \in DOMAIN GroupScenes : GroupScenes[s] = <<k[1], v>>
    BY <1>3, <2>2, GroupScenesAre DEF Active, Inactive
  <2>4. scene \in DOMAIN GroupScenes /\ GroupScenes[scene] = <<k[1], v>>
    BY <2>3
  <2> HIDE DEF scene
  <2>5. c \in OwnCalls /\ c.origin = "system" /\ c.kind = "call" /\ c.scene = scene /\ c.group = k[2]
    BY <1>0, <2>4 DEF SceneCall, GroupOf, OwnCalls, SystemCalls, ApartmentScenes
  <2> HIDE DEF c
  <2>6. <<c>> \in Seq(OwnCalls) /\ DOMAIN <<c>> = {1} /\ <<c>>[1] = c /\ Len(<<c>>) = 1
    BY <2>5, OneElement
  <2>7. \A s : NoneSets(<<c>>, s)
    BY <2>5, <2>6 DEF NoneSets, Sets
  <2>8. Last(<<c>>) = c /\ <<c>> # <<>>
    BY <2>6 DEF Last
  <2> QED BY <1>3, <2>1, <2>2, <2>4, <2>5, <2>6, <2>7, <2>8
<1> QED BY <1>1, <1>2, <1>3

(* A change of a state *)
LEMMA ServiceStep == IInv /\ stateApartment => IInv'
<1> SUFFICES ASSUME IInv, stateApartment PROVE IInv'
  OBVIOUS
<1> DEFINE e == TheEvent
           sent == IF FromSystem(e.origin) THEN <<>> ELSE ChangeSent(e.key, e.value)
           new == Queued(NoState, "system", <<>>)
<1>1. /\ eventQueue # <<>> /\ e.kind = "service" /\ counters' = counters
      /\ Handled(NoState, "system", <<>>, sent)
  BY DEF stateApartment, Handling, TheEvent
<1>2. e.key \in Heeded /\ e.value \in 0 .. 3
  BY <1>1, TheEventIs, EventTypes DEF IInv
<1>3. /\ e.key \in StateKeys /\ e.key = <<e.key[1], e.key[2]>> /\ e.key # Mode
      /\ e.key = At("fire") \/ e.key[1] \in {"wind", "rain"}
  BY <1>2, HeededAre
<1>4. /\ sent \in Seq(OwnCalls) /\ \A s : NoneSets(sent, s)
      /\ sent # <<>> /\ e.key[1] \notin {"wind", "rain"} => Unseen(sent)
      /\ e.key[1] \in {"wind", "rain"} /\ sent # <<>> =>
           /\ Last(sent).kind = "call" /\ Last(sent).scene \in DOMAIN GroupScenes
           /\ GroupScenes[Last(sent).scene] = <<e.key[1], e.value>> /\ Last(sent).group = e.key[2]
  <2>1. CASE FromSystem(e.origin)
    BY <2>1, NoArgs
  <2>2. CASE ~FromSystem(e.origin)
    <3>1. sent = ChangeSent(e.key, e.value)
      BY <2>2
    <3> HIDE DEF sent
    <3> QED BY <1>2, <3>1, ChangeSentIs
  <2> QED BY <2>1, <2>2
<1>5. ~FromSystem(e.origin) /\ e.value \in {Active, Inactive} => sent # <<>>
  BY <1>2, ChangeSentIs
<1>6. sent # <<>> => e.origin # "system"
  BY DEF FromSystem
<1> HIDE DEF sent
<1>7. Args(NoState, "system", <<>>, sent)
  BY <1>4, NoArgs, NoStateIs DEF Args, Origin4
<1>8. AlarmEffect(NoState, sent) /\ StartEffect(NoState, <<>>, sent) /\ SensorEffect(NoState)
      /\ HeatingKeys \cap DOMAIN NoState = {} /\ ~About(e, Mode)
  BY <1>1, <1>3, <1>4, NoStateIs DEF AlarmEffect, StartEffect, SensorEffect, Resets, About
<1>9. Base'
  BY <1>1, <1>7, <1>8, HandledBase DEF IInv, Base, ShapeOK
<1>10. ModeOK'
  BY <1>1, <1>7, <1>8, ModeKept DEF IInv
<1>11. CombinedOK'
  BY <1>1, <1>7, <1>8, CombinedKept DEF IInv
<1>12. /\ eventQueue' = Tail(eventQueue) \o new /\ new \in Seq(QueuedEvents)
       /\ Tail(eventQueue) \in Seq(QueuedEvents) /\ eventQueue \in Seq(QueuedEvents)
  BY <1>1, <1>7, HandledQueues DEF QueuesOK, IInv, Base
<1>13. \A k : Silent(new, k)
  <2> SUFFICES ASSUME NEW k, NEW j \in DOMAIN new, About(new[j], k) PROVE FALSE
    BY DEF Silent
  <2>1. (new[j].kind = "service" /\ new[j].origin = "system") \/ (new[j].kind = "signal" /\ <<>> # <<>>)
    BY <1>7, QueuedAre
  <2> QED BY <2>1 DEF About
<1> HIDE DEF new
<1>14. \A k \in StateKeys : m_states'[k] = m_states[k]
  BY <1>1, HandledStates, NoStateIs DEF IInv, Base
<1>15. onBus \in [StateKeys -> Values]
  BY DEF IInv, Base, ShapeOK
<1>16. ASSUME NEW k \in StateKeys, k # e.key \/ sent = <<>> PROVE onBus'[k] = onBus[k]
  <2>1. CASE Unseen(sent)
    BY <1>1, <2>1, NothingSeen DEF IInv, Base
  <2>2. CASE ~Unseen(sent)
    <3>1. sent # <<>> /\ e.key[1] \in {"wind", "rain"}
      BY <1>4, <2>2 DEF Unseen
    <3>2. onBus' = Seen(onBus, Last(sent))
      BY <1>1, <3>1 DEF Handled
    <3>3. InGroup(GroupScenes[Last(sent).scene][1], Last(sent).group) = e.key
      BY <1>3, <1>4, <3>1 DEF InGroup
    <3> QED BY <1>4, <1>15, <1>16, <3>1, <3>2, <3>3, SeenType
  <2> QED BY <2>1, <2>2
<1>17. ASSUME sent # <<>>, e.key[1] \in {"wind", "rain"} PROVE onBus'[e.key] = e.value
  <2>1. onBus' = Seen(onBus, Last(sent))
    BY <1>1, <1>17 DEF Handled
  <2>2. InGroup(GroupScenes[Last(sent).scene][1], Last(sent).group) = e.key
    BY <1>3, <1>4, <1>17 DEF InGroup
  <2>3. GroupScenes[Last(sent).scene][2] = e.value
    BY <1>4, <1>17
  <2> QED BY <1>3, <1>4, <1>15, <1>17, <2>1, <2>2, <2>3, SeenType
<1>18. ASSUME NEW k \in StateKeys \ overridden, k[1] \in {"wind", "rain"}
       PROVE  \/ /\ Silent(eventQueue', k)
                 /\ onBus'[k] = m_states'[k] \/ (onBus'[k] = None /\ m_states'[k] = Inactive)
              \/ m_states'[k] \in {Active, Inactive} /\ Ends(eventQueue', k, m_states'[k])
  <2>1. k # Mode
    BY <1>18, Pairs DEF Mode
  <2>2. CASE /\ Silent(eventQueue, k)
             /\ onBus[k] = m_states[k] \/ (onBus[k] = None /\ m_states[k] = Inactive)
    <3>1. Silent(Tail(eventQueue), k) /\ ~About(e, k)
      BY <1>1, <1>12, <2>2, EndsTaken DEF TheEvent
    <3>2. Silent(eventQueue', k)
      BY <1>12, <1>13, <3>1, EndsJoined
    <3>3. k # e.key \/ sent = <<>>
      BY <1>1, <1>6, <2>1, <3>1 DEF About
    <3>4. onBus'[k] = onBus[k] /\ m_states'[k] = m_states[k]
      BY <1>14, <1>16, <3>3
    <3> QED BY <2>2, <3>2, <3>4
  <2>3. CASE m_states[k] \in {Active, Inactive} /\ Ends(eventQueue, k, m_states[k])
    <3>1. \/ Ends(Tail(eventQueue), k, m_states[k])
          \/ About(e, k) /\ e.value = m_states[k] /\ Silent(Tail(eventQueue), k)
      BY <1>1, <1>12, <2>3, EndsTaken DEF TheEvent
    <3>2. CASE Ends(Tail(eventQueue), k, m_states[k])
      <4>1. Ends(eventQueue', k, m_states[k])
        BY <1>12, <1>13, <3>2, EndsJoined
      <4> QED BY <1>14, <2>3, <4>1
    <3>3. CASE About(e, k) /\ e.value = m_states[k] /\ Silent(Tail(eventQueue), k)
      <4>1. Silent(eventQueue', k)
        BY <1>12, <1>13, <3>3, EndsJoined
      <4>2. e.key = k /\ sent # <<>>
        BY <1>1, <1>5, <2>3, <3>3 DEF About, FromSystem
      <4> QED BY <1>14, <1>17, <1>18, <3>3, <4>1, <4>2
    <3> QED BY <3>1, <3>2, <3>3
  <2> QED BY <1>18, <2>2, <2>3 DEF IInv, BusOK
<1>19. overridden' = overridden
  BY <1>1 DEF Handled
<1>20. BusOK'
  BY <1>18, <1>19 DEF BusOK, Silent, Ends, About
<1> QED BY <1>9, <1>10, <1>11, <1>20 DEF IInv

(* The start of the plugin *)
LEMMA BootStep == IInv /\ bootstrap => IInv'
<1> SUFFICES ASSUME IInv, bootstrap PROVE IInv'
  OBVIOUS
<1> DEFINE e == TheEvent
           sets == [k \in Bootstrapped |-> BootValue(k)]
           new == Queued(sets, "system", <<>>)
<1>1. /\ eventQueue # <<>> /\ e.kind = "running" /\ counters' = counters
      /\ Handled(sets, "system", <<>>, <<>>)
  BY DEF bootstrap, Handling, TheEvent
<1>2. \A k \in StateKeys : m_states[k] = None
  <2>1. ~NoStart(eventQueue)
    BY <1>1, Taken DEF IInv, Base, QueuesOK, NoStart, TheEvent
  <2> QED BY <2>1 DEF IInv, Base, StartOK
<1>3. DOMAIN sets = Bootstrapped /\ \A k \in Bootstrapped : sets[k] = BootValue(k)
  OBVIOUS
<1> HIDE DEF sets
<1>4. OKSets(sets)
  BY <1>3, Keys, Values03 DEF OKSets, BootValue, IInv, Base
<1>5. Args(sets, "system", <<>>, <<>>)
  BY <1>4, NoArgs DEF Args, Origin4
<1>6. ASSUME NEW k \in DOMAIN sets, k \in Surviving \/ IsHeeded(k) \/ k \in Sensors
      PROVE  sets[k] = Current(k)
  <2>1. k[1] \in {"fire", "alarm2", "alarm3", "alarm4", "wind", "rain", "frost"}
          \/ (k \in Sensors /\ k # At("presence"))
    BY <1>6, Pairs, NotSensors DEF Surviving, IsHeeded
  <2>2. k # At("presence")
    BY <2>1, Pairs
  <2>3. k[1] \notin {"heating_system", "heating_system_mode", "heating_water_system"}
    BY <2>1, NotSensors
  <2>4. sets[k] = Loaded(k)
    BY <1>3, <2>2, <2>3 DEF BootValue
  <2> QED BY <1>2, <1>3, <2>4, Keys DEF Current
<1>7. StartEffect(sets, <<>>, <<>>) /\ SensorEffect(sets) /\ AlarmEffect(sets, <<>>)
  BY <1>1, <1>3, <1>6, NoArgs DEF StartEffect, SensorEffect, AlarmEffect, Sets, Resets
<1>8. onBus' = onBus
  BY <1>1, NothingSeen, NoArgs DEF IInv, Base
<1>9. Base'
  BY <1>1, <1>5, <1>7, HandledBase DEF IInv, Base, ShapeOK
<1>10. BusOK'
  BY <1>1, <1>5, <1>7, <1>8, BusKept DEF IInv
<1>11. CombinedOK'
  BY <1>1, <1>5, <1>7, CombinedKept DEF IInv
<1>12. /\ eventQueue' = Tail(eventQueue) \o new /\ new \in Seq(QueuedEvents)
       /\ Tail(eventQueue) \in Seq(QueuedEvents) /\ eventQueue \in Seq(QueuedEvents)
  BY <1>1, <1>5, HandledQueues DEF QueuesOK, IInv, Base
<1>13. Silent(new, Mode)
  <2> SUFFICES ASSUME NEW j \in DOMAIN new, About(new[j], Mode) PROVE FALSE
    BY DEF Silent
  <2>1. new[j].kind = "service"
    BY <1>5, QueuedAre
  <2> QED BY <2>1 DEF About
<1> HIDE DEF new
<1>14. ASSUME Mode \notin overridden
       PROVE  /\ m_states'[Mode] = 1 /\ HeatingModeOf(m_states') = <<1>>
              /\ Silent(eventQueue', Mode)
  <2>1. \A k \in StateKeys : files[k] = None
    BY <1>2, <1>14, Keys DEF IInv, Base, NewOK
  <2>2. \A n \in {"heating_system", "heating_system_mode", "heating_water_system"} :
          At(n) \in Bootstrapped /\ At(n) \in StateKeys /\ At(n) # At("presence") /\ At(n)[1] = n
    BY Keys, Pairs
  <2>3. \A n \in {"heating_system", "heating_system_mode", "heating_water_system"} :
          m_states'[At(n)] = 1
    BY <1>1, <1>3, <1>4, <2>1, <2>2, HandledStates DEF BootValue, IInv, Base
  <2>4. HeatingModeOf(m_states') = <<1>>
    BY <2>3 DEF HeatingModeOf, HeatingMode, Active, Inactive
  <2>5. Silent(eventQueue, Mode)
    BY <1>2, <1>14, Keys DEF IInv, ModeOK
  <2>6. Silent(Tail(eventQueue), Mode)
    BY <1>1, <1>12, <2>5, EndsTaken
  <2>7. Silent(eventQueue', Mode)
    BY <1>12, <1>13, <2>6, EndsJoined
  <2> QED BY <2>3, <2>4, <2>7 DEF Mode
<1>15. overridden' = overridden
  BY <1>1 DEF Handled
<1>16. /\ Silent(eventQueue', Mode) = Silent(eventQueue, Mode)'
       /\ HeatingModeOf(m_states)' = HeatingModeOf(m_states')
  BY DEF Silent, About, Mode, At, HeatingModeOf
<1>17. ModeOK'
  BY <1>14, <1>15, <1>16 DEF ModeOK, None
<1> QED BY <1>9, <1>10, <1>11, <1>17 DEF IInv

(* What is registered when the dSMs have reported *)
LEMMA RegisteredAre ==
  /\ InputStates \cup WindStates \cup {At("building_service")} \subseteq StateKeys
  /\ HeatingKeys \cap (InputStates \cup WindStates \cup {At("building_service")}) = {}
<1>1. ASSUME NEW k \in InputStates PROVE k \in StateKeys /\ k \notin HeatingKeys
  <2>1. CASE \E i \in Inputs : k = KeyOf(i) /\ i.type \in {"motion", "presence", "wind", "rain"}
    <3>1. PICK i \in Inputs : k = KeyOf(i) /\ i.type \in {"motion", "presence", "wind", "rain"}
      BY <2>1
    <3>2. k \in StateKeys /\ k[1] \in {"motion", "presence", "wind", "rain"}
      BY <3>1, Keys, KeysOfInputs
    <3> QED BY <3>2, Pairs DEF HeatingKeys, Mode
  <2>2. CASE \E g \in UserGroups : k = InGroup("frost", g)
    <3>1. k \in StateKeys /\ k[1] = "frost"
      BY <2>2, Keys, Pairs
    <3> QED BY <3>1, Pairs DEF HeatingKeys, Mode
  <2> QED BY <1>1, <2>1, <2>2 DEF InputStates
<1>2. ASSUME NEW k \in WindStates PROVE k \in StateKeys /\ k \notin HeatingKeys
  <2>1. PICK g \in Blinds : k = InGroup("wind", g)
    BY DEF WindStates
  <2>2. g \in UserGroups
    BY StatesAssumption
  <2>3. k \in StateKeys /\ k[1] = "wind"
    BY <2>1, <2>2, Keys, Pairs
  <2> QED BY <2>3, Pairs DEF HeatingKeys, Mode
<1>3. At("building_service") \in StateKeys /\ At("building_service") \notin HeatingKeys
  BY Keys, Pairs DEF HeatingKeys, Mode
<1> QED BY <1>1, <1>2, <1>3

(* What the dSMs report restores presence, hibernation and two alarms; all else *)
(* that is registered gets the value it was saved with.                         *)
LEMMA StartupSetsAre ==
  ASSUME ShapeOK, \A k \in Bootstrapped : m_states[k] # None, NEW last,
         NEW keys, keys \subseteq InputStates \cup WindStates \cup {At("building_service")},
         NEW sets, \/ sets = [k \in keys |-> Current(k)]
                   \/ sets = Over(Restored(last), [k \in keys |-> Current(k)])
  PROVE  /\ OKSets(sets) /\ HeatingKeys \cap DOMAIN sets = {}
         /\ \A k \in DOMAIN sets :
              k \in {At("presence"), At("hibernation"), At("panic"), At("alarm")}
              \/ sets[k] = Current(k)
<1> DEFINE R == Restored(last)
           C == [k \in keys |-> Current(k)]
           four == {At("presence"), At("hibernation"), At("panic"), At("alarm")}
<1>1. four \subseteq Bootstrapped /\ four \subseteq StateKeys /\ HeatingKeys \cap four = {}
  BY Keys, Pairs DEF HeatingKeys, Mode
<1>2. keys \subseteq StateKeys /\ HeatingKeys \cap keys = {}
  BY RegisteredAre
<1>3. DOMAIN C = keys /\ \A k \in keys : C[k] = Current(k) /\ C[k] \in 0 .. 3
  BY <1>2, Values03
<1>4. DOMAIN R = four /\ \A k \in four : R[k] \in 0 .. 3
  <2>1. DOMAIN R = four
    BY DEF Restored
  <2>2. \A k \in four : m_states[k] \in 0 .. 3
    BY <1>1 DEF ShapeOK, Values
  <2>3. \A s : At(s) \in four => RestoredAlarm(last, s) \in 0 .. 3
    BY <2>2 DEF RestoredAlarm, Active, Inactive
  <2>4. R[At("presence")] \in 0 .. 3
    BY <2>2 DEF Restored
  <2>5. R[At("hibernation")] \in 0 .. 3
    BY <2>2, Pairs DEF Restored
  <2>6. R[At("panic")] \in 0 .. 3 /\ R[At("alarm")] \in 0 .. 3
    BY <2>3, Pairs DEF Restored
  <2> QED BY <2>1, <2>4, <2>5, <2>6
<1> HIDE DEF R, C
<1>5. CASE sets = C
  BY <1>2, <1>3, <1>5 DEF OKSets
<1>6. CASE sets = Over(R, C)
  <2>0. /\ DOMAIN Over(R, C) = DOMAIN R \cup DOMAIN C
        /\ \A x \in DOMAIN R : Over(R, C)[x] = R[x]
        /\ \A x \in DOMAIN C : x \in DOMAIN R \/ Over(R, C)[x] = C[x]
    BY OverIs
  <2>1. /\ DOMAIN sets = four \cup keys
        /\ \A k \in four : sets[k] = R[k]
        /\ \A k \in keys : k \in four \/ sets[k] = C[k]
    <3> HIDE DEF four
    <3> QED BY <1>3, <1>4, <1>6, <2>0
  <2> QED BY <1>1, <1>2, <1>3, <1>4, <2>1 DEF OKSets
<1> QED BY <1>5, <1>6 DEF R, C

(* The dSMs have reported *)
LEMMA StartupStep == IInv /\ startup => IInv'
<1> SUFFICES ASSUME IInv, startup PROVE IInv'
  OBVIOUS
<1> DEFINE e == TheEvent
           four == {At("presence"), At("hibernation"), At("panic"), At("alarm")}
<1>1. eventQueue # <<>> /\ e.kind = "model_ready" /\ counters' = counters
  BY DEF startup, Handling, TheEvent
<1>2. \A k \in Bootstrapped : m_states[k] # None
  BY <1>1 DEF IInv, Base, StartOK, TheEvent
<1>3. PICK last, keys, sets :
        /\ keys \subseteq InputStates \cup WindStates \cup {At("building_service")}
        /\ \/ sets = [k \in keys |-> Current(k)]
           \/ sets = Over(Restored(last), [k \in keys |-> Current(k)])
        /\ Handled(sets, "other", <<>>, <<>>)
  <2> DEFINE service == IF files[At("building_service")] # None
                           /\ \A g \in Blinds : files[InGroup("wind", g)] = None
                        THEN {At("building_service")} ELSE {}
             all == InputStates \cup WindStates \cup service
             some == InputStates \cup WindStates
  <2>1. PICK last \in LastScenes :
          Handled(IF Duplicates = {} THEN Over(Restored(last), [k \in all |-> Current(k)])
                  ELSE [k \in some |-> Current(k)], "other", <<>>, <<>>)
    BY DEF startup
  <2>2. /\ all \subseteq InputStates \cup WindStates \cup {At("building_service")}
        /\ some \subseteq InputStates \cup WindStates \cup {At("building_service")}
    OBVIOUS
  <2> HIDE DEF all, some, service
  <2>3. CASE Duplicates = {}
    BY <2>1, <2>2, <2>3
  <2>4. CASE Duplicates # {}
    BY <2>1, <2>2, <2>4
  <2> QED BY <2>3, <2>4
<1>4. /\ OKSets(sets) /\ HeatingKeys \cap DOMAIN sets = {}
      /\ \A k \in DOMAIN sets : k \in four \/ sets[k] = Current(k)
  BY <1>2, <1>3, StartupSetsAre DEF IInv, Base
<1>5. Args(sets, "other", <<>>, <<>>)
  BY <1>4, NoArgs DEF Args, Origin4
<1>6. \A k \in four : k \notin Surviving /\ ~IsHeeded(k) /\ k \notin Sensors
  BY Pairs, NotSensors DEF Surviving, IsHeeded
<1>7. StartEffect(sets, <<>>, <<>>) /\ SensorEffect(sets)
  BY <1>1, <1>4, <1>6 DEF StartEffect, SensorEffect
<1>8. AlarmEffect(sets, <<>>)
  BY <1>1, NoArgs DEF AlarmEffect, Resets
<1>9. ~About(e, Mode) /\ e.kind # "service" /\ e.kind # "device"
  BY <1>1 DEF About
<1> QED BY <1>1, <1>3, <1>4, <1>5, <1>7, <1>8, <1>9, NoArgs, Kept

-----------------------------------------------------------------------------
(* The inputs that are combined into a state                               *)

(* One change is raised once. *)
LEMMA OneChange ==
  ASSUME NEW sets, OKSets(sets), NEW o \in Origin4, o # "system",
         NEW k \in Heeded, DOMAIN sets = {k}, sets[k] # Current(k)
  PROVE  Ends(Changes(sets, o), k, sets[k])
<1> DEFINE C == Changes(sets, o)
<1>1. k # Mode
  BY HeededAre
<1>2. {x \in Differing(sets) : IsHeeded(x)} = {k}
  BY DEF Differing, Heeded
<1>3. DOMAIN SetToSeq({k}) = 1 .. 1
  BY SequenceOf, FS_Singleton
<1>4. DOMAIN C = {1}
  BY <1>2, <1>3 DEF Changes
<1>5. C[1].kind = "service" /\ C[1].key = k /\ C[1].value = sets[k] /\ C[1].origin = o
  BY <1>4, ChangesAre
<1> HIDE DEF C
<1>6. Ends(C, k, sets[k])
  BY <1>1, <1>4, <1>5 DEF Ends, About
<1> QED BY <1>6 DEF C

(* A heating mode is one value, or not known. *)
LEMMA HeatingModeIs ==
  ASSUME NEW states
  PROVE  \/ HeatingModeOf(states) = <<>>
         \/ \E x \in {0, 1, 2} : HeatingModeOf(states) = <<x>>
BY DEF HeatingModeOf, HeatingMode, Active, Inactive

(* Only the two inputs of the heating signal a mode, the one they have set. *)
LEMMA HeatingSignalsAre ==
  ASSUME NEW i, NEW sets
  PROVE  /\ HeatingSignals(i, sets) \in Seq(ModeSignals)
         /\ i.type \notin {"heating_system", "heating_system_mode"} => HeatingSignals(i, sets) = <<>>
         /\ i.type \in {"heating_system", "heating_system_mode"} =>
              \A x : ModeAfter(i, sets) = <<x>> => Ends(HeatingSignals(i, sets), Mode, x)
<1> DEFINE H == HeatingSignals(i, sets)
<1>1. CASE i.type \notin {"heating_system", "heating_system_mode"}
  BY <1>1, NoArgs DEF HeatingSignals
<1>2. CASE i.type \in {"heating_system", "heating_system_mode"} /\ ModeAfter(i, sets) = <<>>
  <2>1. H = [j \in DOMAIN << >> |-> Signal(Mode, << >>[j])]
    BY <1>2 DEF HeatingSignals, Mode
  <2>2. H = <<>>
    BY <2>1
  <2>3. \A x : << >> # <<x>>
    OBVIOUS
  <2> QED BY <1>2, <2>2, <2>3, NoArgs
<1>3. CASE /\ i.type \in {"heating_system", "heating_system_mode"}
           /\ \E x \in {0, 1, 2} : ModeAfter(i, sets) = <<x>>
  <2>1. PICK x \in {0, 1, 2} : ModeAfter(i, sets) = <<x>>
    BY <1>3
  <2>2. H = [j \in DOMAIN <<x>> |-> Signal(Mode, <<x>>[j])]
    BY <1>3, <2>1 DEF HeatingSignals, Mode
  <2>3. DOMAIN <<x>> = 1 .. 1 /\ <<x>>[1] = x
    OBVIOUS
  <2>4. DOMAIN H = 1 .. 1 /\ H[1] = Signal(Mode, x) /\ H = [j \in 1 .. 1 |-> H[j]]
    BY <2>2, <2>3
  <2>5. Signal(Mode, x) \in ModeSignals
    BY DEF Signal, ModeSignals
  <2> HIDE DEF H
  <2>6. H \in Seq(ModeSignals)
    BY <2>4, <2>5
  <2>7. Ends(H, Mode, x)
    BY <2>4 DEF Ends, About, Signal
  <2>8. \A y : <<x>> = <<y>> => y = x
    OBVIOUS
  <2> QED BY <1>3, <2>1, <2>6, <2>7, <2>8 DEF H
<1>4. \/ ModeAfter(i, sets) = <<>>
      \/ \E x \in {0, 1, 2} : ModeAfter(i, sets) = <<x>>
  BY HeatingModeIs DEF ModeAfter
<1> QED BY <1>1, <1>2, <1>3, <1>4

(* What an input sets *)
LEMMA CombinedSetsAre ==
  ASSUME ShapeOK, NEW i \in Inputs, i.type \in Combined, NEW v \in 1 .. 3
  PROVE  /\ DOMAIN CombinedSets(i, v) = {KeyOf(i)} /\ OKSets(CombinedSets(i, v))
         /\ CombinedSets(i, v)[KeyOf(i)] =
              IF v = Active THEN Active
              ELSE IF v = Inactive /\ CountAfter(i, v) = 0 THEN Inactive ELSE Current(KeyOf(i))
         /\ CountAfter(i, v) \in Nat
         /\ At("panic") # KeyOf(i) /\ At("fire") # KeyOf(i) /\ Mode # KeyOf(i)
         /\ KeyOf(i) \in HeatingKeys => i.type \in {"heating_system", "heating_system_mode"}
<1>1. KeyOf(i) \in StateKeys /\ Counter(i) \in CounterKeys /\ KeyOf(i)[1] = i.type
  BY Keys, KeysOfInputs
<1>2. Current(KeyOf(i)) \in 0 .. 3
  BY <1>1, Values03
<1>3. CombinedSets(i, v) =
        Only(KeyOf(i), IF v = Active THEN Active
                       ELSE IF v = Inactive /\ CountAfter(i, v) = 0 THEN Inactive
                       ELSE Current(KeyOf(i)))
  BY DEF CombinedSets
<1>4. /\ DOMAIN CombinedSets(i, v) = {KeyOf(i)}
      /\ CombinedSets(i, v)[KeyOf(i)] =
              IF v = Active THEN Active
              ELSE IF v = Inactive /\ CountAfter(i, v) = 0 THEN Inactive ELSE Current(KeyOf(i))
  BY <1>3, OnlyIs
<1>5. OKSets(CombinedSets(i, v))
  BY <1>1, <1>2, <1>4 DEF OKSets, Active, Inactive
<1>6. CountAfter(i, v) \in Nat
  BY <1>1 DEF CountAfter, ShapeOK
<1>7. /\ At("panic") # KeyOf(i) /\ At("fire") # KeyOf(i) /\ Mode # KeyOf(i)
      /\ KeyOf(i) \in HeatingKeys => i.type \in {"heating_system", "heating_system_mode"}
  BY <1>1, Pairs DEF Combined, Mode, HeatingKeys
<1> QED BY <1>4, <1>5, <1>6, <1>7

(* The event of an input that is combined, what it sets and what it queues *)
TheInput   == TheEvent.input
TheSets    == CombinedSets(TheInput, TheEvent.value)
TheSignals == HeatingSignals(TheInput, TheSets)
TheQueued  == Queued(TheSets, "binaryInput", TheSignals)
Combining ==
  /\ Handling("device") /\ TheInput.type \in Combined
  /\ counters' = [counters EXCEPT ![Counter(TheInput)] = CountAfter(TheInput, TheEvent.value)]
  /\ Handled(TheSets, "binaryInput", TheSignals, <<>>)

(* What is known of it *)
LEMMA CombiningIs ==
  ASSUME IInv, Combining
  PROVE  /\ TheInput \in Inputs /\ TheInput.type \in Combined /\ TheEvent.value \in 1 .. 3
         /\ eventQueue # <<>> /\ TheEvent.kind = "device"
         /\ Args(TheSets, "binaryInput", TheSignals, <<>>)
         /\ Handled(TheSets, "binaryInput", TheSignals, <<>>)
         /\ eventQueue' = Tail(eventQueue) \o TheQueued /\ TheQueued \in Seq(QueuedEvents)
         /\ Tail(eventQueue) \in Seq(QueuedEvents) /\ eventQueue \in Seq(QueuedEvents)
         /\ \A k \in StateKeys :
              m_states'[k] = IF k = KeyOf(TheInput) THEN TheSets[k] ELSE m_states[k]
         /\ \A k \in Bootstrapped : m_states[k] # None
         /\ UNCHANGED <<inputs, overridden, doubtful, onBus>>
<1>1. eventQueue # <<>> /\ TheEvent.kind = "device" /\ TheInput.type \in Combined
  BY DEF Combining, Handling, TheEvent
<1>2. TheInput \in Inputs /\ TheEvent.value \in 1 .. 3
  BY <1>1, TheEventIs, EventTypes DEF IInv, TheInput
<1>3. DOMAIN TheSets = {KeyOf(TheInput)} /\ OKSets(TheSets)
  BY <1>1, <1>2, CombinedSetsAre DEF IInv, Base, TheSets
<1>4. TheSignals \in Seq(ModeSignals)
  BY HeatingSignalsAre DEF TheSignals
<1>5. Args(TheSets, "binaryInput", TheSignals, <<>>)
  BY <1>3, <1>4, NoArgs DEF Args, Origin4
<1>6. Handled(TheSets, "binaryInput", TheSignals, <<>>)
  BY DEF Combining
<1>7. /\ eventQueue' = Tail(eventQueue) \o TheQueued /\ TheQueued \in Seq(QueuedEvents)
      /\ Tail(eventQueue) \in Seq(QueuedEvents) /\ eventQueue \in Seq(QueuedEvents)
  BY <1>1, <1>5, <1>6, HandledQueues DEF QueuesOK, IInv, Base, TheQueued
<1>8. \A k \in StateKeys : m_states'[k] = IF k = KeyOf(TheInput) THEN TheSets[k] ELSE m_states[k]
  BY <1>3, <1>6, HandledStates DEF IInv, Base
<1>9. \A k \in Bootstrapped : m_states[k] # None
  BY <1>1 DEF IInv, Base, StartOK, TheEvent
<1>10. onBus' = onBus
  BY <1>6, NothingSeen, NoArgs DEF IInv, Base
<1>11. UNCHANGED <<inputs, overridden, doubtful>>
  BY <1>6 DEF Handled
<1> QED BY <1>1, <1>2, <1>5, <1>6, <1>7, <1>8, <1>9, <1>10, <1>11

(* The counters are right again, and the state is the combination. *)
LEMMA CombiningCounts ==
  ASSUME IInv, Combining
  PROVE  CombinedOK'
<1> SUFFICES ASSUME NEW i, i = TheInput, NEW v, v = TheEvent.value,
                    NEW sets, sets = TheSets, NEW new, new = TheQueued
             PROVE  CombinedOK'
  OBVIOUS
<1> DEFINE c == Counter(i)
<1>1. /\ i \in Inputs /\ i.type \in Combined /\ v \in 1 .. 3
      /\ eventQueue # <<>> /\ TheEvent.kind = "device"
      /\ eventQueue' = Tail(eventQueue) \o new /\ new \in Seq(QueuedEvents)
      /\ Tail(eventQueue) \in Seq(QueuedEvents) /\ eventQueue \in Seq(QueuedEvents)
      /\ \A k \in StateKeys : m_states'[k] = IF k = KeyOf(i) THEN sets[k] ELSE m_states[k]
      /\ UNCHANGED <<inputs, overridden, doubtful>>
  BY CombiningIs
<1>2. sets[KeyOf(i)] = IF v = Active THEN Active
                       ELSE IF v = Inactive /\ CountAfter(i, v) = 0 THEN Inactive
                       ELSE Current(KeyOf(i))
  BY <1>1, CombinedSetsAre DEF IInv, Base, TheSets
<1>3. PICK told \in [Inputs -> 0 .. 3] : TurnsOK(told) /\ CountsOK(told) /\ OrOK(told)
  BY DEF IInv, CombinedOK
<1>4. \A x \in Inputs, j \in DOMAIN new : ~Of(new[j], x)
  BY CombiningIs, QueuedAre DEF Of, TheQueued
<1>5. \A x \in Inputs : Of(Head(eventQueue), x) <=> x = i
  BY <1>1 DEF Of, TheEvent, TheInput
<1>6. Head(eventQueue).value = v
  BY DEF TheEvent
<1>7. counters' = [counters EXCEPT ![c] = CountAfter(i, v)]
  BY DEF Combining
<1>8. c \in CounterKeys /\ counters \in [CounterKeys -> Nat]
  BY <1>1, Keys DEF IInv, Base, ShapeOK
<1>9. PICK after : after = [told EXCEPT ![i] = v]
  OBVIOUS
<1>18. after \in [Inputs -> 0 .. 3] /\ after[i] = v /\ \A x \in Inputs : x # i => after[x] = told[x]
  BY <1>1, <1>3, <1>9
<1>10. ASSUME NEW x \in Inputs \ doubtful, x.type \in Combined
       PROVE  Turns(eventQueue', x, after[x], inputs[x])
  <2>1. Turns(eventQueue, x, told[x], inputs[x])
    BY <1>3, <1>10 DEF TurnsOK
  <2>2. Turns(Tail(eventQueue), x, after[x], inputs[x])
    BY <1>1, <1>5, <1>6, <1>18, <2>1, TurnsTaken
  <2> QED BY <1>1, <1>4, <2>2, TurnsJoined
<1>11. ASSUME i \notin doubtful
       PROVE  v \in {Active, Inactive} /\ told[i] \in {Active, Inactive} /\ told[i] # v
  <2>1. Turns(eventQueue, i, told[i], inputs[i])
    BY <1>1, <1>3, <1>11 DEF TurnsOK
  <2> QED BY <1>1, <1>5, <1>6, <2>1, TurnsTaken
<1>12. TurnsOK(after)'
  <2>1. UNCHANGED <<inputs, doubtful>>
    BY <1>1
  <2>2. \A x : Turns(eventQueue', x, after[x], inputs[x]) = Turns(eventQueue, x, after[x], inputs[x])'
    BY <2>1 DEF Turns, Of
  <2> QED BY <1>10, <2>1, <2>2 DEF TurnsOK
<1>13. \A d : On(told, d) \subseteq Inputs /\ IsFiniteSet(On(told, d))
  BY StatesAssumption, FS_Subset DEF On
<1>14. ASSUME NEW d \in CounterKeys,
              \A x \in Inputs : x.type \in Combined /\ Counter(x) = d => x \notin doubtful
       PROVE  counters'[d] = Cardinality(On(after, d))
  <2>1. counters[d] = Cardinality(On(told, d))
    BY <1>3, <1>14 DEF CountsOK
  <2>2. CASE d # c
    <3>1. On(after, d) = On(told, d)
      BY <1>18, <2>2 DEF On
    <3> QED BY <1>7, <1>8, <2>1, <2>2, <3>1
  <2>3. CASE d = c
    <3>1. v \in {Active, Inactive} /\ told[i] \in {Active, Inactive} /\ told[i] # v
      BY <1>1, <1>11, <1>14, <2>3
    <3>2. counters'[d] = CountAfter(i, v) /\ counters[c] \in Nat
      BY <1>7, <1>8, <2>3
    <3>3. CASE v = Active
      <4>1. On(after, d) = On(told, d) \cup {i} /\ i \notin On(told, d)
        BY <1>1, <1>18, <2>3, <3>1, <3>3 DEF On
      <4>2. Cardinality(On(after, d)) = Cardinality(On(told, d)) + 1
        BY <1>13, <4>1, FS_AddElement
      <4> QED BY <2>1, <2>3, <3>2, <3>3, <4>2 DEF CountAfter
    <3>4. CASE v = Inactive /\ told[i] = Active
      <4>1. On(after, d) = On(told, d) \ {i} /\ i \in On(told, d)
        BY <1>1, <1>18, <2>3, <3>4 DEF On, Active, Inactive
      <4>2. Cardinality(On(after, d)) = Cardinality(On(told, d)) - 1
        BY <1>13, <4>1, FS_RemoveElement
      <4>3. Cardinality(On(told, d)) # 0
        BY <1>13, <4>1, FS_EmptySet
      <4> QED BY <2>1, <2>3, <3>2, <3>4, <4>2, <4>3 DEF CountAfter, Active, Inactive
    <3> QED BY <3>1, <3>3, <3>4
  <2> QED BY <2>2, <2>3
<1>15. CountsOK(after)'
  BY <1>1, <1>14 DEF CountsOK, On
<1>16. ASSUME NEW k \in StateKeys, OnlyInputs(k)
       PROVE  m_states'[k] = Active <=> \E x \in Feeding(k) : after[x] = Active
  <2>1. m_states[k] = Active <=> \E x \in Feeding(k) : told[x] = Active
    BY <1>3, <1>16 DEF OrOK
  <2>2. CASE k # KeyOf(i)
    <3>1. i \notin Feeding(k) /\ Feeding(k) \subseteq Inputs
      BY <2>2 DEF Feeding
    <3> QED BY <1>1, <1>18, <2>1, <2>2, <3>1
  <2>3. CASE k = KeyOf(i)
    <3>1. i \in Feeding(k) /\ Feeding(k) \subseteq Inputs /\ Feeding(k) \cap doubtful = {}
          /\ \A x \in Feeding(k) : x.group = i.group
      BY <1>1, <1>16, <2>3 DEF Feeding, OnlyInputs, OneTarget
    <3>2. v \in {Active, Inactive} /\ told[i] \in {Active, Inactive} /\ told[i] # v
      BY <1>11, <3>1
    <3>3. \A x \in Inputs : x.type \in Combined /\ Counter(x) = c <=> x \in Feeding(k)
      BY <2>3, <3>1 DEF Counter, Feeding
    <3>4. CountAfter(i, v) = Cardinality(On(after, c))
      BY <1>7, <1>8, <1>14, <3>1, <3>3
    <3>5. On(after, c) = {x \in Feeding(k) : after[x] = Active}
      BY <3>1, <3>3 DEF On
    <3>6. IsFiniteSet(On(after, c))
      BY <3>1, <3>5, StatesAssumption, FS_Subset
    <3>7. m_states'[k] = sets[KeyOf(i)]
      BY <1>1, <2>3
    <3>8. CASE v = Active
      BY <1>2, <1>18, <3>1, <3>7, <3>8
    <3>9. CASE v = Inactive /\ CountAfter(i, v) = 0
      <4>1. On(after, c) = {}
        BY <3>4, <3>6, <3>9, FS_EmptySet
      <4>2. m_states'[k] # Active
        BY <1>2, <3>7, <3>9 DEF Active, Inactive
      <4> QED BY <3>5, <4>1, <4>2
    <3>10. CASE v = Inactive /\ CountAfter(i, v) # 0
      <4>1. On(after, c) # {}
        BY <3>4, <3>10, FS_EmptySet
      <4>2. told[i] = Active
        BY <3>2, <3>10
      <4>3. m_states[k] = Active
        BY <2>1, <3>1, <4>2
      <4>4. m_states'[k] = Active
        BY <1>2, <2>3, <3>7, <3>10, <4>3 DEF Active, Inactive, Current, None
      <4> QED BY <3>5, <4>1, <4>4
    <3> QED BY <3>2, <3>8, <3>9, <3>10
  <2> QED BY <2>2, <2>3
<1>17. OrOK(after)'
  BY <1>1, <1>16 DEF OrOK, OnlyInputs
<1> QED BY <1>18, <1>12, <1>15, <1>17 DEF CombinedOK

(* What is queued about a state of wind or rain, or about the heating mode *)
LEMMA CombiningQueues ==
  ASSUME IInv, Combining
  PROVE  /\ \A k : k # KeyOf(TheInput) /\ k # Mode => Silent(TheQueued, k)
         /\ TheSets[KeyOf(TheInput)] = Current(KeyOf(TheInput)) =>
              \A k : k # Mode => Silent(TheQueued, k)
         /\ /\ TheSets[KeyOf(TheInput)] # Current(KeyOf(TheInput))
            /\ KeyOf(TheInput)[1] \in {"wind", "rain"}
            => Ends(TheQueued, KeyOf(TheInput), TheSets[KeyOf(TheInput)])
         /\ TheInput.type \in {"heating_system", "heating_system_mode"} =>
              \A x : HeatingModeOf(m_states') = <<x>> => Ends(TheQueued, Mode, x)
<1> DEFINE K == KeyOf(TheInput)
           C == Changes(TheSets, "binaryInput")
<1>1. /\ TheInput \in Inputs /\ TheInput.type \in Combined /\ TheEvent.value \in 1 .. 3
      /\ Args(TheSets, "binaryInput", TheSignals, <<>>)
      /\ \A k \in StateKeys : m_states'[k] = IF k = K THEN TheSets[k] ELSE m_states[k]
  BY CombiningIs
<1>2. DOMAIN TheSets = {K} /\ OKSets(TheSets)
  BY <1>1, CombinedSetsAre DEF IInv, Base, TheSets
<1>3. K \in StateKeys /\ K[1] = TheInput.type
  BY <1>1, Keys, KeysOfInputs
<1> HIDE DEF K
<1>4. \A j \in DOMAIN TheQueued :
        \/ TheQueued[j].kind = "service" /\ TheQueued[j].key = K /\ TheSets[K] # Current(K)
        \/ TheQueued[j].kind = "signal" /\ TheQueued[j].key = Mode
  BY <1>1, <1>2, QueuedAre DEF TheQueued
<1>5. \A k : k # K /\ k # Mode => Silent(TheQueued, k)
  BY <1>4 DEF Silent, About
<1>6. TheSets[K] = Current(K) => \A k : k # Mode => Silent(TheQueued, k)
  BY <1>4 DEF Silent, About
<1>7. C \in Seq(QueuedEvents) /\ TheSignals \in Seq(QueuedEvents) /\ TheQueued = C \o TheSignals
  BY <1>1, QueuedElements DEF Args, TheQueued, Queued
<1>8. ASSUME TheSets[K] # Current(K), K[1] \in {"wind", "rain"}
      PROVE  Ends(TheQueued, K, TheSets[K])
  <2>1. K \in Heeded
    BY <1>3, <1>8 DEF Heeded, IsHeeded
  <2>2. Ends(C, K, TheSets[K])
    BY <1>2, <1>8, <2>1, OneChange DEF Origin4
  <2>3. TheSignals = <<>>
    BY <1>3, <1>8, HeatingSignalsAre DEF TheSignals
  <2>4. Silent(TheSignals, K)
    BY <2>3, NoElement DEF Silent
  <2> HIDE DEF C
  <2> QED BY <1>7, <2>2, <2>4, EndsJoined
<1>9. ASSUME TheInput.type \in {"heating_system", "heating_system_mode"},
             NEW x, HeatingModeOf(m_states') = <<x>>
      PROVE  Ends(TheQueued, Mode, x)
  <2>1. At("heating_system") \in StateKeys /\ At("heating_system_mode") \in StateKeys
    BY Keys
  <2>2. \A k \in StateKeys : DOMAIN m_states = StateKeys
    BY DEF IInv, Base, ShapeOK
  <2>3. \A k \in StateKeys : Over(TheSets, m_states)[k] = m_states'[k]
    <3>1. \A k \in StateKeys : Over(TheSets, m_states)[k] = IF k = K THEN TheSets[k] ELSE m_states[k]
      BY <1>2, <2>2 DEF Over
    <3> QED BY <1>1, <3>1
  <2>4. ModeAfter(TheInput, TheSets) = <<x>>
    BY <1>9, <2>1, <2>3 DEF ModeAfter, HeatingModeOf
  <2>5. Ends(TheSignals, Mode, x)
    BY <1>9, <2>4, HeatingSignalsAre DEF TheSignals
  <2> HIDE DEF C
  <2> QED BY <1>7, <2>5, EndsJoined
<1> QED BY <1>5, <1>6, <1>8, <1>9 DEF K

(* The bus will know the state. *)
LEMMA CombiningBus ==
  ASSUME IInv, Combining
  PROVE  BusOK'
<1> DEFINE K == KeyOf(TheInput)
<1>1. /\ TheInput \in Inputs /\ TheInput.type \in Combined /\ TheEvent.value \in 1 .. 3
      /\ eventQueue # <<>> /\ TheEvent.kind = "device"
      /\ eventQueue' = Tail(eventQueue) \o TheQueued /\ TheQueued \in Seq(QueuedEvents)
      /\ Tail(eventQueue) \in Seq(QueuedEvents) /\ eventQueue \in Seq(QueuedEvents)
      /\ \A k \in StateKeys : m_states'[k] = IF k = K THEN TheSets[k] ELSE m_states[k]
  BY CombiningIs
<1>2. overridden' = overridden /\ onBus' = onBus
  BY CombiningIs
<1>3. TheSets[K] \in {Active, Inactive} \/ TheSets[K] = Current(K)
  BY <1>1, CombinedSetsAre DEF IInv, Base, TheSets
<1> HIDE DEF K
<1>4. ASSUME NEW k \in StateKeys \ overridden, k[1] \in {"wind", "rain"}
      PROVE  \/ /\ Silent(eventQueue', k)
                /\ onBus[k] = m_states'[k] \/ (onBus[k] = None /\ m_states'[k] = Inactive)
             \/ m_states'[k] \in {Active, Inactive} /\ Ends(eventQueue', k, m_states'[k])
  <2>1. k \in StateKeys /\ k # Mode /\ ~About(TheEvent, k)
    BY <1>1, <1>4, Pairs DEF Mode, About
  <2>2. CASE k = K /\ TheSets[K] # Current(K)
    <3>1. Ends(TheQueued, K, TheSets[K])
      BY <1>4, <2>2, CombiningQueues DEF K
    <3>2. Ends(eventQueue', K, TheSets[K])
      BY <1>1, <3>1, EndsJoined
    <3> QED BY <1>1, <1>3, <2>1, <2>2, <3>2
  <2>3. CASE ~(k = K /\ TheSets[K] # Current(K))
    <3>1. Silent(TheQueued, k)
      BY <2>1, <2>3, CombiningQueues DEF K
    <3>2. m_states'[k] = m_states[k] \/ (m_states[k] = None /\ m_states'[k] = Inactive)
      <4>1. m_states'[k] = m_states[k] \/ m_states'[k] = Current(k)
        BY <1>1, <2>1, <2>3
      <4>2. overridden # StateKeys
        BY <1>4
      <4>3. m_states[k] = None => files[k] = None
        BY <2>1, <4>2 DEF IInv, Base, NewOK
      <4> QED BY <4>1, <4>3 DEF Current, Loaded
    <3>3. CASE /\ Silent(eventQueue, k)
               /\ onBus[k] = m_states[k] \/ (onBus[k] = None /\ m_states[k] = Inactive)
      <4>1. Silent(Tail(eventQueue), k)
        BY <1>1, <3>3, EndsTaken
      <4>2. Silent(eventQueue', k)
        BY <1>1, <3>1, <4>1, EndsJoined
      <4> QED BY <3>2, <3>3, <4>2
    <3>4. CASE m_states[k] \in {Active, Inactive} /\ Ends(eventQueue, k, m_states[k])
      <4>1. Ends(Tail(eventQueue), k, m_states[k])
        BY <1>1, <2>1, <3>4, EndsTaken DEF TheEvent
      <4>2. Ends(eventQueue', k, m_states[k])
        BY <1>1, <3>1, <4>1, EndsJoined
      <4>3. m_states'[k] = m_states[k]
        BY <3>2, <3>4 DEF None, Active, Inactive
      <4> QED BY <3>4, <4>2, <4>3
    <3> QED BY <1>4, <3>3, <3>4 DEF IInv, BusOK
  <2> QED BY <2>2, <2>3
<1> QED BY <1>2, <1>4 DEF BusOK, Silent, Ends, About

(* The mode that is signalled will be the one of the two states. *)
LEMMA CombiningMode ==
  ASSUME IInv, Combining
  PROVE  ModeOK'
<1>1. /\ TheInput \in Inputs /\ TheInput.type \in Combined /\ TheEvent.value \in 1 .. 3
      /\ eventQueue # <<>> /\ TheEvent.kind = "device"
      /\ Args(TheSets, "binaryInput", TheSignals, <<>>)
      /\ Handled(TheSets, "binaryInput", TheSignals, <<>>)
      /\ eventQueue' = Tail(eventQueue) \o TheQueued /\ TheQueued \in Seq(QueuedEvents)
      /\ Tail(eventQueue) \in Seq(QueuedEvents) /\ eventQueue \in Seq(QueuedEvents)
      /\ \A k \in StateKeys :
           m_states'[k] = IF k = KeyOf(TheInput) THEN TheSets[k] ELSE m_states[k]
      /\ \A k \in Bootstrapped : m_states[k] # None
  BY CombiningIs
<1>2. /\ Mode # KeyOf(TheInput) /\ DOMAIN TheSets = {KeyOf(TheInput)}
      /\ KeyOf(TheInput) \in HeatingKeys =>
           TheInput.type \in {"heating_system", "heating_system_mode"}
  BY <1>1, CombinedSetsAre DEF IInv, Base, TheSets
<1>3. CASE TheInput.type \notin {"heating_system", "heating_system_mode"}
  <2>1. TheSignals = <<>>
    BY <1>3, HeatingSignalsAre DEF TheSignals
  <2>2. HeatingKeys \cap DOMAIN TheSets = {}
    BY <1>2, <1>3
  <2>3. ~About(TheEvent, Mode)
    BY <1>1 DEF About
  <2> QED BY <1>1, <2>1, <2>2, <2>3, ModeKept DEF IInv
<1>4. CASE TheInput.type \in {"heating_system", "heating_system_mode"}
  <2>1. Mode \in StateKeys /\ Mode \in Bootstrapped
    BY Keys DEF Mode
  <2>2. m_states'[Mode] = m_states[Mode] /\ m_states[Mode] # None
    BY <1>1, <1>2, <2>1
  <2>3. ASSUME NEW x, HeatingModeOf(m_states') = <<x>> PROVE Ends(eventQueue', Mode, x)
    <3>1. Ends(TheQueued, Mode, x)
      BY <1>4, <2>3, CombiningQueues
    <3> QED BY <1>1, <3>1, EndsJoined
  <2>4. /\ \A x : Ends(eventQueue', Mode, x) = Ends(eventQueue, Mode, x)'
        /\ HeatingModeOf(m_states)' = HeatingModeOf(m_states')
    BY DEF Silent, Ends, About, Mode, At, HeatingModeOf
  <2> QED BY <2>2, <2>3, <2>4 DEF ModeOK
<1> QED BY <1>3, <1>4

(* An event of a binary input *)
LEMMA InputStep == IInv /\ stateBinaryinput => IInv'
<1> SUFFICES ASSUME IInv, stateBinaryinput PROVE IInv'
  OBVIOUS
<1>1. eventQueue # <<>> /\ TheEvent.kind = "device"
  BY DEF stateBinaryinput, Handling, TheEvent
<1>2. CASE Combining
  <2>1. /\ TheInput \in Inputs /\ TheInput.type \in Combined /\ TheEvent.value \in 1 .. 3
        /\ Args(TheSets, "binaryInput", TheSignals, <<>>)
        /\ Handled(TheSets, "binaryInput", TheSignals, <<>>)
    BY <1>2, CombiningIs
  <2>2. /\ At("panic") \notin DOMAIN TheSets /\ At("fire") \notin DOMAIN TheSets
        /\ CountAfter(TheInput, TheEvent.value) \in Nat
    BY <2>1, CombinedSetsAre DEF IInv, Base, TheSets
  <2>3. counters' \in [CounterKeys -> Nat]
    BY <1>2, <2>2 DEF Combining, IInv, Base, ShapeOK
  <2>4. AlarmEffect(TheSets, <<>>) /\ StartEffect(TheSets, TheSignals, <<>>)
    BY <1>1, <2>2, NoArgs DEF AlarmEffect, StartEffect, Resets
  <2>5. Base'
    BY <1>1, <2>1, <2>3, <2>4, HandledBase DEF IInv
  <2> QED BY <1>2, <2>5, CombiningMode, CombiningBus, CombiningCounts DEF IInv
<1>3. CASE ~Combining
  <2>1. \/ /\ TheEvent.input.type = "smoke" /\ counters' = counters
           /\ Handled(IF TheEvent.value = Active THEN Only(At("fire"), Active) ELSE NoState,
                      "binaryInput", <<>>, <<>>)
        \/ /\ TheEvent.input.type = "thermostat" /\ counters' = counters
           /\ Handled(NoState, "binaryInput", <<>>,
                <<SceneCall("call", IF TheEvent.value = Active THEN "preset1" ELSE "off", 3,
                            "binaryInput")>>)
    BY <1>3 DEF stateBinaryinput, Combining, TheInput, TheSets, TheSignals
  <2> QED BY <1>1, <2>1, DetectorStep
<1> QED BY <1>2, <1>3

-----------------------------------------------------------------------------
(* The bus, the thread of ModelMaintenance and a restart                   *)

(* What the bus offers is a message. *)
LEMMA OfferedAre ==
  ASSUME Base, NEW m \in offered
  PROVE  m \in Messages
BY OffersAssumption DEF Base, QueuesOK

(* What a message overrides are states. *)
LEMMA OverridesAre ==
  ASSUME NEW m \in Messages
  PROVE  /\ Overrides(m) \subseteq StateKeys
         /\ \A k \in StateKeys : Foreign(m, k) => k \in Overrides(m)
<1>1. m.kind = "signal" => m.key \in StateKeys
  BY MessageTypes, Keys
<1> QED BY <1>1 DEF Overrides, Foreign

(* A message of the bus: the last word on an alarm is its own. *)
LEMMA ReceiveStep == \A m \in offered : IInv /\ Receive(m) => IInv'
<1> SUFFICES ASSUME IInv, NEW m \in offered, Receive(m) PROVE IInv'
  OBVIOUS
<1>1. /\ m \in Messages /\ m.kind \in {"call", "undo", "report", "signal"}
      /\ Overrides(m) \subseteq StateKeys
      /\ \A k \in StateKeys : Foreign(m, k) => k \in Overrides(m)
  BY OfferedAre, OverridesAre, MessageTypes DEF IInv
<1>2. /\ messages' = messages + 1 /\ messages < MaxMessages
      /\ modelQueue' = Append(modelQueue, m) /\ onBus' = Seen(onBus, m)
      /\ overridden' = overridden \cup Overrides(m)
      /\ cleared' = {s \in {"panic", "fire"} : Clears(m, s) \/ (s \in cleared /\ ~Raises(m, s))}
      /\ before' = [k \in StateKeys |-> None]
  BY DEF Receive
<1>3. UNCHANGED <<m_states, files, inputs, counters, eventQueue, offered, restarts, doubtful>>
  BY DEF Receive
<1>4. Base
  BY DEF IInv
<1>5. ShapeOK'
  <2>1. onBus' \in [StateKeys -> Values]
    BY <1>2, <1>4, SeenType DEF Base, ShapeOK
  <2>2. messages' \in 0 .. MaxMessages
    BY <1>2, <1>4, StatesAssumption DEF Base, ShapeOK
  <2>3. before' \in [StateKeys -> Values]
    BY <1>2 DEF Values
  <2>4. overridden' \subseteq StateKeys /\ cleared' \subseteq {"panic", "fire"}
    BY <1>1, <1>2, <1>4 DEF Base, ShapeOK
  <2> QED BY <1>3, <1>4, <2>1, <2>2, <2>3, <2>4 DEF Base, ShapeOK
<1>6. /\ modelQueue \in Seq(Messages \cup OwnCalls) /\ <<m>> \in Seq(Messages \cup OwnCalls)
      /\ modelQueue' = modelQueue \o <<m>> /\ modelQueue' \in Seq(Messages \cup OwnCalls)
      /\ DOMAIN <<m>> = {1} /\ <<m>>[1] = m
  <2>1. modelQueue \in Seq(Messages \cup OwnCalls)
    BY <1>4 DEF Base, QueuesOK
  <2>2. <<m>> \in Seq(Messages \cup OwnCalls) /\ DOMAIN <<m>> = {1} /\ <<m>>[1] = m
    BY <1>1, OneElement
  <2>3. modelQueue' = modelQueue \o <<m>>
    BY <1>1, <1>2, <2>1, Appended
  <2> QED BY <2>1, <2>2, <2>3, Joined
<1>7. QueuesOK' /\ SavedOK' /\ StartOK'
  BY <1>3, <1>4, <1>6 DEF Base, QueuesOK, SavedOK, Loaded, StartOK, NoStart
<1>8. NewOK'
  <2>1. overridden' # StateKeys => overridden # StateKeys
    BY <1>1, <1>2
  <2> QED BY <1>3, <1>4, <2>1 DEF Base, NewOK
<1>9. ClearedOK'
  <2> SUFFICES ASSUME NEW s \in cleared'
               PROVE  \/ IsReset(modelQueue', s)
                      \/ NoneSets(modelQueue', s) /\ IsReset(eventQueue, s)
                      \/ NoneSets(modelQueue', s) /\ NoneSets(eventQueue, s) /\ m_states[At(s)] # Active
    BY <1>3 DEF ClearedOK, IsReset, NoneSets
  <2>1. CASE Clears(m, s)
    <3>1. Resets(m, s)
      <4>1. m.kind \in {"call", "undo"} => m.origin # "system"
        BY <1>1 DEF Messages, SceneMessages, Reported, SystemSignals
      <4> QED BY <2>1, <4>1 DEF Clears, Resets
    <3>2. IsReset(<<m>>, s)
      BY <1>6, <3>1 DEF IsReset
    <3> QED BY <1>6, <3>2, ResetJoined
  <2>2. CASE s \in cleared /\ ~Raises(m, s)
    <3>1. ~Sets(m, s)
      BY <1>1, <2>2 DEF Raises, Sets
    <3>2. NoneSets(<<m>>, s)
      BY <1>6, <3>1 DEF NoneSets
    <3>3. /\ IsReset(modelQueue, s) => IsReset(modelQueue', s)
          /\ NoneSets(modelQueue, s) => NoneSets(modelQueue', s)
      BY <1>6, <3>2, ResetJoined
    <3> QED BY <1>4, <2>2, <3>3 DEF Base, ClearedOK
  <2> QED BY <1>2, <2>1, <2>2
<1>10. RestartedOK'
  BY <1>2 DEF RestartedOK
<1>11. OverridingOK'
  <2> SUFFICES ASSUME NEW k \in StateKeys \ overridden'
               PROVE  /\ \A j \in DOMAIN modelQueue' : ~Foreign(modelQueue'[j], k)
                      /\ \A j \in DOMAIN eventQueue : Foreign(eventQueue[j], k) => k = Mode
    BY <1>3 DEF OverridingOK, Foreign, Overrides
  <2>1. k \in StateKeys \ overridden /\ ~Foreign(m, k)
    BY <1>1, <1>2
  <2>2. \A j \in DOMAIN <<m>> : ~Foreign(<<m>>[j], k)
    BY <1>6, <2>1
  <2>3. \A j \in DOMAIN modelQueue : ~Foreign(modelQueue[j], k)
    BY <1>4, <2>1 DEF Base, OverridingOK
  <2>4. \A j \in DOMAIN (modelQueue \o <<m>>) : ~Foreign((modelQueue \o <<m>>)[j], k)
    BY <1>6, <2>2, <2>3, Joined
  <2> QED BY <1>4, <1>6, <2>1, <2>4 DEF Base, OverridingOK
<1>12. ModeOK'
  BY <1>2, <1>3 DEF IInv, ModeOK, Silent, Ends, About, HeatingModeOf
<1>13. BusOK'
  <2> SUFFICES ASSUME NEW k \in StateKeys \ overridden', k[1] \in {"wind", "rain"}
               PROVE  \/ /\ Silent(eventQueue, k)
                         /\ onBus'[k] = m_states[k] \/ (onBus'[k] = None /\ m_states[k] = Inactive)
                      \/ m_states[k] \in {Active, Inactive} /\ Ends(eventQueue, k, m_states[k])
    BY <1>3 DEF BusOK, Silent, Ends, About
  <2>1. k \in StateKeys \ overridden /\ k \notin Overrides(m)
    BY <1>2
  <2>2. onBus'[k] = onBus[k]
    <3>1. CASE m.kind = "call" /\ m.scene \in DOMAIN GroupScenes
      <4>1. k # InGroup(GroupScenes[m.scene][1], m.group)
        BY <2>1, <3>1, Pairs DEF Overrides
      <4> QED BY <1>2, <1>4, <2>1, <3>1, <4>1, SeenType DEF Base, ShapeOK
    <3>2. CASE ~(m.kind = "call" /\ m.scene \in DOMAIN GroupScenes)
      BY <1>2, <3>2 DEF Seen
    <3> QED BY <3>1, <3>2
  <2> QED BY <2>1, <2>2 DEF IInv, BusOK
<1>14. CombinedOK'
  <2>1. PICK told \in [Inputs -> 0 .. 3] : TurnsOK(told) /\ CountsOK(told) /\ OrOK(told)
    BY DEF IInv, CombinedOK
  <2>2. TurnsOK(told)'
    BY <1>3, <2>1 DEF TurnsOK, Turns, Of
  <2>3. CountsOK(told)'
    BY <1>3, <2>1 DEF CountsOK, On
  <2>4. OrOK(told)'
    BY <1>2, <1>3, <2>1 DEF OrOK, OnlyInputs
  <2> QED BY <2>2, <2>3, <2>4 DEF CombinedOK
<1> QED BY <1>5, <1>7, <1>8, <1>9, <1>10, <1>11, <1>12, <1>13, <1>14 DEF IInv, Base

(* An event that is queued, and is no change of a state: what is waiting stays so. *)
LEMMA AppendStep ==
  ASSUME IInv, NEW e \in QueuedEvents, eventQueue' = Append(eventQueue, e),
         e.kind \notin {"running", "service"}, Mode \notin overridden => ~Foreign(e, Mode),
         UNCHANGED <<m_states, files, onBus, overridden>>
  PROVE  /\ eventQueue \in Seq(QueuedEvents) /\ <<e>> \in Seq(QueuedEvents)
         /\ eventQueue' = eventQueue \o <<e>> /\ eventQueue' \in Seq(QueuedEvents)
         /\ DOMAIN <<e>> = {1} /\ <<e>>[1] = e
         /\ StartOK' /\ ModeOK' /\ BusOK'
<1>1. eventQueue \in Seq(QueuedEvents)
  BY DEF IInv, Base, QueuesOK
<1>2. <<e>> \in Seq(QueuedEvents) /\ DOMAIN <<e>> = {1} /\ <<e>>[1] = e
  BY OneElement
<1>3. eventQueue' = eventQueue \o <<e>>
  BY <1>1, Appended
<1>4. eventQueue' \in Seq(QueuedEvents)
  BY <1>1, <1>2, <1>3, Joined
<1>5. /\ \A j \in DOMAIN eventQueue' :
           (j \in DOMAIN eventQueue /\ eventQueue'[j] = eventQueue[j]) \/ eventQueue'[j] = e
      /\ \A j \in DOMAIN eventQueue : j \in DOMAIN eventQueue' /\ eventQueue'[j] = eventQueue[j]
  BY <1>1, <1>2, <1>3, Joined
<1>6. ASSUME eventQueue # <<>> /\ Head(eventQueue).kind = "running" /\ NoStart(Tail(eventQueue)),
             \A k \in StateKeys : m_states[k] = None
      PROVE  StartOK'
  <2>1. /\ Head(eventQueue) = eventQueue[1] /\ 1 \in DOMAIN eventQueue
        /\ \A j \in DOMAIN eventQueue :
             j = 1 \/ (j - 1 \in DOMAIN Tail(eventQueue) /\ Tail(eventQueue)[j - 1] = eventQueue[j])
    BY <1>1, <1>6, Taken
  <2>2. eventQueue' # <<>>
    BY <1>5, <2>1, NoElement
  <2>3. /\ Head(eventQueue') = eventQueue'[1]
        /\ DOMAIN Tail(eventQueue') = 1 .. Len(eventQueue') - 1 /\ Len(eventQueue') \in Nat
        /\ \A j \in DOMAIN Tail(eventQueue') :
             j + 1 \in DOMAIN eventQueue' /\ Tail(eventQueue')[j] = eventQueue'[j + 1]
    BY <1>4, <2>2, Taken
  <2>4. Head(eventQueue').kind = "running"
    BY <1>5, <1>6, <2>1, <2>3
  <2>5. ASSUME NEW j \in DOMAIN Tail(eventQueue') PROVE Tail(eventQueue')[j].kind # "running"
    <3>1. j + 1 \in DOMAIN eventQueue' /\ Tail(eventQueue')[j] = eventQueue'[j + 1] /\ j + 1 # 1
      BY <2>3
    <3>2. CASE eventQueue'[j + 1] = e
      BY <3>1, <3>2
    <3>3. CASE j + 1 \in DOMAIN eventQueue /\ eventQueue'[j + 1] = eventQueue[j + 1]
      BY <1>6, <2>1, <3>1, <3>3 DEF NoStart
    <3> QED BY <1>5, <3>1, <3>2, <3>3
  <2>6. NoStart(Tail(eventQueue))'
    BY <2>5 DEF NoStart
  <2> QED BY <1>6, <2>2, <2>4, <2>6 DEF StartOK
<1>7. ASSUME NoStart(eventQueue), \A k \in Bootstrapped : m_states[k] # None
      PROVE  StartOK'
  <2>1. \A j \in DOMAIN eventQueue' : eventQueue'[j].kind # "running"
    BY <1>5, <1>7 DEF NoStart
  <2>2. NoStart(eventQueue)'
    BY <2>1 DEF NoStart
  <2> QED BY <1>7, <2>2 DEF StartOK
<1>8. StartOK'
  BY <1>6, <1>7 DEF IInv, Base, StartOK
<1>9. ASSUME NEW k, ~About(e, k)
      PROVE  /\ Silent(eventQueue, k) => Silent(eventQueue', k)
             /\ \A x : Ends(eventQueue, k, x) => Ends(eventQueue', k, x)
  <2>1. Silent(<<e>>, k)
    BY <1>2, <1>9 DEF Silent
  <2> QED BY <1>1, <1>2, <1>3, <2>1, EndsJoined
<1>10. \A k : Silent(eventQueue', k) = Silent(eventQueue, k)'
  BY DEF Silent, About, Mode, At
<1>11. \A k, x : Ends(eventQueue', k, x) = Ends(eventQueue, k, x)'
  BY DEF Ends, About, Mode, At
<1>12. ModeOK'
  <2>1. Mode \notin overridden => ~About(e, Mode)
    BY DEF About, Foreign
  <2>2. HeatingModeOf(m_states)' = HeatingModeOf(m_states) /\ Mode' = Mode
    BY DEF HeatingModeOf, Mode, At
  <2> QED BY <1>9, <1>10, <1>11, <2>1, <2>2 DEF IInv, ModeOK
<1>13. BusOK'
  <2>1. ASSUME NEW k, k[1] \in {"wind", "rain"} PROVE ~About(e, k)
    BY <2>1, Pairs DEF About, Mode
  <2> QED BY <1>9, <1>10, <1>11, <2>1 DEF IInv, BusOK
<1> QED BY <1>1, <1>2, <1>3, <1>4, <1>8, <1>12, <1>13

(* The event that ends the initialization *)
LEMMA ReadyStep == IInv /\ RaiseModelReady => IInv'
<1> SUFFICES ASSUME IInv, RaiseModelReady PROVE IInv'
  OBVIOUS
<1>0. PICK e : e = [kind |-> "model_ready"]
  OBVIOUS
<1>1. e \in QueuedEvents /\ e.kind = "model_ready"
  BY <1>0 DEF QueuedEvents
<1>2. /\ eventQueue' = Append(eventQueue, e)
      /\ UNCHANGED <<m_states, files, inputs, counters, modelQueue, offered, messages, restarts,
                     onBus, overridden, doubtful, cleared, before>>
  BY <1>0 DEF RaiseModelReady, histVars
<1>3. /\ \A k : ~Foreign(e, k) /\ ~About(e, k)
      /\ \A i : ~Of(e, i)
      /\ \A s : ~Sets(e, s)
  BY <1>1 DEF Foreign, About, Of, Sets
<1>4. /\ eventQueue \in Seq(QueuedEvents) /\ <<e>> \in Seq(QueuedEvents)
      /\ eventQueue' = eventQueue \o <<e>> /\ eventQueue' \in Seq(QueuedEvents)
      /\ DOMAIN <<e>> = {1} /\ <<e>>[1] = e
      /\ StartOK' /\ ModeOK' /\ BusOK'
  BY <1>1, <1>2, <1>3, AppendStep
<1>5. ShapeOK' /\ QueuesOK' /\ SavedOK' /\ NewOK'
  BY <1>2, <1>4 DEF IInv, Base, ShapeOK, QueuesOK, SavedOK, Loaded, NewOK
<1>6. ClearedOK'
  <2> SUFFICES ASSUME NEW s \in cleared
               PROVE  \/ IsReset(modelQueue, s)
                      \/ NoneSets(modelQueue, s) /\ IsReset(eventQueue', s)
                      \/ NoneSets(modelQueue, s) /\ NoneSets(eventQueue', s) /\ m_states[At(s)] # Active
    BY <1>2 DEF ClearedOK, IsReset, NoneSets
  <2>1. NoneSets(<<e>>, s)
    BY <1>3, <1>4 DEF NoneSets
  <2>2. /\ IsReset(eventQueue, s) => IsReset(eventQueue', s)
        /\ NoneSets(eventQueue, s) => NoneSets(eventQueue', s)
    BY <1>4, <2>1, ResetJoined
  <2> QED BY <2>2 DEF IInv, Base, ClearedOK
<1>7. RestartedOK'
  <2>1. NewStart(eventQueue) => \A j \in DOMAIN eventQueue' : eventQueue'[j].kind \in {"running", "model_ready"}
    <3>1. \A j \in DOMAIN <<e>> : <<e>>[j].kind = "model_ready"
      BY <1>1, <1>4
    <3>2. NewStart(eventQueue) =>
            \A j \in DOMAIN (eventQueue \o <<e>>) :
              (eventQueue \o <<e>>)[j].kind \in {"running", "model_ready"}
      BY <1>4, <3>1, Joined DEF NewStart
    <3> QED BY <1>4, <3>2
  <2> QED BY <1>2, <2>1 DEF IInv, Base, RestartedOK, NewStart, Loaded
<1>8. OverridingOK'
  <2> SUFFICES ASSUME NEW k \in StateKeys \ overridden
               PROVE  /\ \A j \in DOMAIN modelQueue : ~Foreign(modelQueue[j], k)
                      /\ \A j \in DOMAIN eventQueue' : Foreign(eventQueue'[j], k) => k = Mode
    BY <1>2 DEF OverridingOK, Foreign, Overrides
  <2>1. \A j \in DOMAIN <<e>> : Foreign(<<e>>[j], k) => k = Mode
    BY <1>3, <1>4
  <2>2. \A j \in DOMAIN eventQueue : Foreign(eventQueue[j], k) => k = Mode
    BY DEF IInv, Base, OverridingOK
  <2>3. \A j \in DOMAIN (eventQueue \o <<e>>) : Foreign((eventQueue \o <<e>>)[j], k) => k = Mode
    BY <1>4, <2>1, <2>2, Joined
  <2> QED BY <1>4, <2>3 DEF IInv, Base, OverridingOK
<1>9. CombinedOK'
  <2>1. PICK told \in [Inputs -> 0 .. 3] : TurnsOK(told) /\ CountsOK(told) /\ OrOK(told)
    BY DEF IInv, CombinedOK
  <2>2. ASSUME NEW x \in Inputs \ doubtful, x.type \in Combined
        PROVE  Turns(eventQueue', x, told[x], inputs[x])
    <3>1. Turns(eventQueue, x, told[x], inputs[x])
      BY <2>1, <2>2 DEF TurnsOK
    <3>2. \A j \in DOMAIN <<e>> : ~Of(<<e>>[j], x)
      BY <1>3, <1>4
    <3> QED BY <1>4, <3>1, <3>2, TurnsJoined
  <2>3. TurnsOK(told)'
    <3>1. \A x : Turns(eventQueue', x, told[x], inputs[x]) = Turns(eventQueue, x, told[x], inputs[x])'
      BY <1>2 DEF Turns, Of
    <3> QED BY <1>2, <2>2, <3>1 DEF TurnsOK
  <2>4. CountsOK(told)'
    BY <1>2, <2>1 DEF CountsOK, On
  <2>5. OrOK(told)'
    BY <1>2, <2>1 DEF OrOK, OnlyInputs
  <2> QED BY <2>3, <2>4, <2>5 DEF CombinedOK
<1> QED BY <1>4, <1>5, <1>6, <1>7, <1>8, <1>9 DEF IInv, Base

(* A restart loses what is queued; what was saved is there. *)
LEMMA RestartStep == IInv /\ Restart => IInv'
<1> SUFFICES ASSUME IInv, Restart PROVE IInv'
  OBVIOUS
<1>1. PICK e : e = [kind |-> "running"]
  OBVIOUS
<1>2. e \in QueuedEvents /\ e.kind = "running"
  BY <1>1 DEF QueuedEvents
<1>3. /\ restarts < MaxRestarts /\ restarts' = restarts + 1
      /\ m_states' = [k \in StateKeys |-> None]
      /\ counters' = [c \in CounterKeys |-> 0]
      /\ modelQueue' = <<>> /\ eventQueue' = <<e>>
      /\ before' = [k \in StateKeys |-> IF m_states[k] # None THEN m_states[k] ELSE before[k]]
      /\ overridden' = StateKeys /\ doubtful' = Inputs /\ cleared' = {}
      /\ UNCHANGED <<files, inputs, offered, messages, onBus>>
  BY <1>1 DEF Restart
<1>4. /\ <<e>> \in Seq(QueuedEvents) /\ DOMAIN <<e>> = {1} /\ <<e>>[1] = e /\ Len(<<e>>) = 1
      /\ Tail(<<e>>) = <<>> /\ <<e>> # <<>> /\ Head(<<e>>) = e
  BY <1>2, OneElement
<1>5. ShapeOK'
  <2>1. restarts' \in 0 .. MaxRestarts
    BY <1>3, StatesAssumption DEF IInv, Base, ShapeOK
  <2>2. before' \in [StateKeys -> Values] /\ m_states' \in [StateKeys -> Values]
    BY <1>3 DEF IInv, Base, ShapeOK, Values
  <2> QED BY <1>3, <2>1, <2>2 DEF IInv, Base, ShapeOK
<1>6. QueuesOK'
  BY <1>3, <1>4, EmptySeq DEF IInv, Base, QueuesOK
<1>7. StartOK'
  BY <1>2, <1>3, <1>4, NoElement DEF StartOK, NoStart
<1>8. SavedOK' /\ NewOK' /\ ClearedOK' /\ OverridingOK' /\ BusOK'
  BY <1>3 DEF SavedOK, NewOK, ClearedOK, OverridingOK, BusOK
<1>9. ModeOK'
  <2>1. Mode \in overridden'
    BY <1>3, Keys
  <2>2. Mode' = Mode
    BY DEF Mode, At
  <2> QED BY <2>1, <2>2 DEF ModeOK
<1>10. RestartedOK'
  <2>1. ASSUME NEW k \in Surviving, before'[k] # None PROVE Loaded(k) = before'[k]
    <3>1. k \in StateKeys
      BY Keys
    <3>2. CASE m_states[k] # None
      BY <1>3, <3>1, <3>2 DEF IInv, Base, SavedOK
    <3>3. CASE m_states[k] = None
      BY <1>3, <2>1, <3>1, <3>3 DEF IInv, Base, RestartedOK
    <3> QED BY <3>2, <3>3
  <2>2. \A j \in DOMAIN eventQueue' : eventQueue'[j].kind \in {"running", "model_ready"}
    BY <1>2, <1>3, <1>4
  <2>3. \A k : Loaded(k)' = Loaded(k)
    BY <1>3 DEF Loaded
  <2> QED BY <1>3, <2>1, <2>2, <2>3 DEF RestartedOK, NewStart
<1>11. CombinedOK'
  <2>1. PICK told : told = [x \in Inputs |-> 0]
    OBVIOUS
  <2>2. told \in [Inputs -> 0 .. 3] /\ \A x \in Inputs : told[x] # Active
    BY <2>1 DEF Active
  <2>3. TurnsOK(told)'
    BY <1>3 DEF TurnsOK
  <2>4. CountsOK(told)'
    <3>1. \A c : On(told, c) = {}
      BY <2>2 DEF On
    <3>2. \A c \in CounterKeys : counters'[c] = Cardinality(On(told, c))
      BY <1>3, <3>1, FS_EmptySet
    <3> QED BY <3>2 DEF CountsOK, On
  <2>5. OrOK(told)'
    BY <1>3 DEF OrOK, OnlyInputs
  <2> QED BY <2>2, <2>3, <2>4, <2>5 DEF CombinedOK
<1> QED BY <1>5, <1>6, <1>7, <1>8, <1>9, <1>10, <1>11 DEF IInv, Base

(* What a message becomes: itself, or the event of the input it reports *)
LEMMA HandledMessage ==
  ASSUME IInv, HandleMessage
  PROVE  LET m == Head(modelQueue) IN
    /\ m \in Messages \cup OwnCalls /\ modelQueue # <<>> /\ modelQueue' = Tail(modelQueue)
    /\ UNCHANGED <<m_states, files, counters, offered, messages, restarts, onBus, overridden,
                   cleared, before>>
    /\ \/ /\ m.kind # "report" /\ m \in QueuedEvents
          /\ eventQueue' = Append(eventQueue, m) /\ UNCHANGED <<inputs, doubtful>>
       \/ /\ m.kind = "report" /\ m.input \in Inputs /\ m.value \in 1 .. 3
          /\ inputs' = [inputs EXCEPT ![m.input] = m.value]
          /\ doubtful' = IF {inputs[m.input], m.value} \subseteq {Active, Inactive} THEN doubtful
                         ELSE doubtful \cup {m.input}
          /\ \/ inputs[m.input] = m.value /\ eventQueue' = eventQueue
             \/ /\ inputs[m.input] # m.value
                /\ \E e \in DeviceEvents :
                     /\ e.kind = "device" /\ e.input = m.input /\ e.value = m.value
                     /\ eventQueue' = Append(eventQueue, e)
<1> DEFINE m == Head(modelQueue)
<1>1. modelQueue # <<>> /\ modelQueue' = Tail(modelQueue)
  BY DEF HandleMessage
<1>2. m \in Messages \cup OwnCalls
  BY <1>1, Taken DEF IInv, Base, QueuesOK
<1>3. UNCHANGED <<m_states, files, counters, offered, messages, restarts, onBus, overridden,
                  cleared, before>>
  BY DEF HandleMessage
<1>4. CASE m.kind # "report"
  <2>1. eventQueue' = Append(eventQueue, m) /\ UNCHANGED <<inputs, doubtful>>
    BY <1>4 DEF HandleMessage
  <2>2. m \in QueuedEvents
    BY <1>2, <1>4, MessageTypes
  <2> QED BY <1>1, <1>2, <1>3, <1>4, <2>1, <2>2
<1>5. CASE m.kind = "report"
  <2>1. handleBinaryInputEvent(m.input, m.value)
    BY <1>5 DEF HandleMessage
  <2>2. m.input \in Inputs /\ m.value \in 1 .. 3
    BY <1>2, <1>5, MessageTypes
  <2> HIDE DEF m
  <2>3. PICK e : e = [kind |-> "device", input |-> m.input, value |-> m.value]
    OBVIOUS
  <2>4. e \in DeviceEvents /\ e.kind = "device" /\ e.input = m.input /\ e.value = m.value
    BY <2>2, <2>3 DEF DeviceEvents
  <2>5. /\ inputs' = [inputs EXCEPT ![m.input] = m.value]
        /\ doubtful' = IF {inputs[m.input], m.value} \subseteq {Active, Inactive} THEN doubtful
                       ELSE doubtful \cup {m.input}
        /\ eventQueue' = IF inputs[m.input] = m.value THEN eventQueue ELSE Append(eventQueue, e)
    BY <2>1, <2>3 DEF handleBinaryInputEvent
  <2>6. \/ inputs[m.input] = m.value /\ eventQueue' = eventQueue
        \/ /\ inputs[m.input] # m.value
           /\ \E x \in DeviceEvents :
                /\ x.kind = "device" /\ x.input = m.input /\ x.value = m.value
                /\ eventQueue' = Append(eventQueue, x)
    BY <2>4, <2>5
  <2> QED BY <1>1, <1>2, <1>3, <1>5, <2>2, <2>5, <2>6 DEF m
<1> QED BY <1>4, <1>5

(* A message that is taken and queued as the event e: commands keep their order. *)
LEMMA PassedOn ==
  ASSUME IInv, HandleMessage, NEW e \in QueuedEvents, eventQueue' = Append(eventQueue, e),
         e.kind \notin {"running", "service"},
         \A s : Sets(e, s) => Sets(Head(modelQueue), s),
         \A s : Resets(Head(modelQueue), s) => Resets(e, s),
         \A k : Foreign(e, k) => Foreign(Head(modelQueue), k)
  PROVE  /\ eventQueue \in Seq(QueuedEvents) /\ <<e>> \in Seq(QueuedEvents)
         /\ eventQueue' = eventQueue \o <<e>> /\ eventQueue' \in Seq(QueuedEvents)
         /\ DOMAIN <<e>> = {1} /\ <<e>>[1] = e
         /\ StartOK' /\ ModeOK' /\ BusOK' /\ ClearedOK' /\ OverridingOK'
<1> DEFINE m == Head(modelQueue)
<1>1. /\ modelQueue # <<>> /\ modelQueue' = Tail(modelQueue)
      /\ UNCHANGED <<m_states, files, onBus, overridden, cleared>>
  BY HandledMessage
<1>2. /\ modelQueue \in Seq(Messages \cup OwnCalls) /\ Tail(modelQueue) \in Seq(Messages \cup OwnCalls)
      /\ 1 \in DOMAIN modelQueue /\ m = modelQueue[1]
      /\ \A j \in DOMAIN Tail(modelQueue) :
           j + 1 \in DOMAIN modelQueue /\ Tail(modelQueue)[j] = modelQueue[j + 1]
  BY <1>1, Taken DEF IInv, Base, QueuesOK
<1>3. \A k \in StateKeys \ overridden : ~Foreign(m, k)
  BY <1>2 DEF IInv, Base, OverridingOK
<1>4. Mode \in StateKeys
  BY Keys
<1>5. /\ eventQueue \in Seq(QueuedEvents) /\ <<e>> \in Seq(QueuedEvents)
      /\ eventQueue' = eventQueue \o <<e>> /\ eventQueue' \in Seq(QueuedEvents)
      /\ DOMAIN <<e>> = {1} /\ <<e>>[1] = e
      /\ StartOK' /\ ModeOK' /\ BusOK'
  BY <1>1, <1>3, <1>4, AppendStep
<1>6. ClearedOK'
  <2> SUFFICES ASSUME NEW s \in cleared
               PROVE  \/ IsReset(modelQueue', s)
                      \/ NoneSets(modelQueue', s) /\ IsReset(eventQueue', s)
                      \/ NoneSets(modelQueue', s) /\ NoneSets(eventQueue', s) /\ m_states[At(s)] # Active
    BY <1>1 DEF ClearedOK, IsReset, NoneSets
  <2>1. /\ NoneSets(modelQueue, s) => NoneSets(Tail(modelQueue), s) /\ ~Sets(m, s)
        /\ IsReset(modelQueue, s) =>
             IsReset(Tail(modelQueue), s) \/ (Resets(m, s) /\ NoneSets(Tail(modelQueue), s))
    BY <1>1, <1>2, ResetTaken
  <2>2. ~Sets(m, s) => NoneSets(<<e>>, s)
    BY <1>5 DEF NoneSets
  <2>3. Resets(m, s) => IsReset(<<e>>, s)
    BY <1>5 DEF IsReset
  <2>4. /\ NoneSets(eventQueue, s) /\ NoneSets(<<e>>, s) => NoneSets(eventQueue', s)
        /\ IsReset(<<e>>, s) => IsReset(eventQueue', s)
        /\ IsReset(eventQueue, s) /\ NoneSets(<<e>>, s) => IsReset(eventQueue', s)
    BY <1>5, ResetJoined
  <2> QED BY <1>1, <2>1, <2>2, <2>3, <2>4 DEF IInv, Base, ClearedOK
<1>7. OverridingOK'
  <2> SUFFICES ASSUME NEW k \in StateKeys \ overridden
               PROVE  /\ \A j \in DOMAIN modelQueue' : ~Foreign(modelQueue'[j], k)
                      /\ \A j \in DOMAIN eventQueue' : Foreign(eventQueue'[j], k) => k = Mode
    BY <1>1 DEF OverridingOK, Foreign, Overrides
  <2>1. \A j \in DOMAIN Tail(modelQueue) : ~Foreign(Tail(modelQueue)[j], k)
    BY <1>2 DEF IInv, Base, OverridingOK
  <2>2. \A j \in DOMAIN <<e>> : Foreign(<<e>>[j], k) => k = Mode
    BY <1>3, <1>5
  <2>3. \A j \in DOMAIN eventQueue : Foreign(eventQueue[j], k) => k = Mode
    BY DEF IInv, Base, OverridingOK
  <2>4. \A j \in DOMAIN (eventQueue \o <<e>>) : Foreign((eventQueue \o <<e>>)[j], k) => k = Mode
    BY <1>5, <2>2, <2>3, Joined
  <2> QED BY <1>1, <1>5, <2>1, <2>4
<1> QED BY <1>5, <1>6, <1>7

(* A report of the value that an input has, which is no event *)
LEMMA SameValue ==
  ASSUME IInv, HandleMessage, eventQueue' = eventQueue, Head(modelQueue).kind = "report"
  PROVE  StartOK' /\ ModeOK' /\ BusOK' /\ ClearedOK' /\ OverridingOK'
<1> DEFINE m == Head(modelQueue)
<1>1. /\ modelQueue # <<>> /\ modelQueue' = Tail(modelQueue)
      /\ UNCHANGED <<m_states, files, onBus, overridden, cleared>>
  BY HandledMessage
<1>2. /\ modelQueue \in Seq(Messages \cup OwnCalls)
      /\ \A j \in DOMAIN Tail(modelQueue) :
           j + 1 \in DOMAIN modelQueue /\ Tail(modelQueue)[j] = modelQueue[j + 1]
  BY <1>1, Taken DEF IInv, Base, QueuesOK
<1>3. StartOK' /\ ModeOK' /\ BusOK'
  BY <1>1 DEF IInv, Base, StartOK, NoStart, ModeOK, BusOK, Silent, Ends, About, HeatingModeOf
<1>4. ClearedOK'
  <2> SUFFICES ASSUME NEW s \in cleared
               PROVE  \/ IsReset(modelQueue', s)
                      \/ NoneSets(modelQueue', s) /\ IsReset(eventQueue, s)
                      \/ NoneSets(modelQueue', s) /\ NoneSets(eventQueue, s) /\ m_states[At(s)] # Active
    BY <1>1 DEF ClearedOK, IsReset, NoneSets
  <2>1. /\ NoneSets(modelQueue, s) => NoneSets(Tail(modelQueue), s)
        /\ IsReset(modelQueue, s) =>
             IsReset(Tail(modelQueue), s) \/ (Resets(m, s) /\ NoneSets(Tail(modelQueue), s))
    BY <1>1, <1>2, ResetTaken
  <2>2. ~Resets(m, s)
    BY DEF Resets
  <2> QED BY <1>1, <2>1, <2>2 DEF IInv, Base, ClearedOK
<1>5. OverridingOK'
  <2> SUFFICES ASSUME NEW k \in StateKeys \ overridden
               PROVE  /\ \A j \in DOMAIN modelQueue' : ~Foreign(modelQueue'[j], k)
                      /\ \A j \in DOMAIN eventQueue : Foreign(eventQueue[j], k) => k = Mode
    BY <1>1 DEF OverridingOK, Foreign, Overrides
  <2> QED BY <1>1, <1>2 DEF IInv, Base, OverridingOK
<1> QED BY <1>3, <1>4, <1>5

(* The inputs after a message: the reports of one alternate. *)
LEMMA MessageCounts ==
  ASSUME IInv, HandleMessage
  PROVE  CombinedOK'
<1> SUFFICES ASSUME NEW m, m = Head(modelQueue) PROVE CombinedOK'
  OBVIOUS
<1>1. /\ UNCHANGED <<m_states, counters, overridden>>
      /\ \/ /\ m.kind # "report" /\ m \in QueuedEvents
            /\ eventQueue' = Append(eventQueue, m) /\ UNCHANGED <<inputs, doubtful>>
         \/ /\ m.kind = "report" /\ m.input \in Inputs /\ m.value \in 1 .. 3
            /\ inputs' = [inputs EXCEPT ![m.input] = m.value]
            /\ doubtful' = IF {inputs[m.input], m.value} \subseteq {Active, Inactive} THEN doubtful
                           ELSE doubtful \cup {m.input}
            /\ \/ inputs[m.input] = m.value /\ eventQueue' = eventQueue
               \/ /\ inputs[m.input] # m.value
                  /\ \E e \in DeviceEvents :
                       /\ e.kind = "device" /\ e.input = m.input /\ e.value = m.value
                       /\ eventQueue' = Append(eventQueue, e)
  BY HandledMessage
<1>2. m \in Messages \cup OwnCalls
  BY HandledMessage
<1>3. /\ eventQueue \in Seq(QueuedEvents) /\ inputs \in [Inputs -> 0 .. 3]
      /\ DeviceEvents \subseteq QueuedEvents
  BY DEF IInv, Base, QueuesOK, ShapeOK, QueuedEvents
<1>4. doubtful \subseteq doubtful'
  BY <1>1
<1>5. PICK told \in [Inputs -> 0 .. 3] : TurnsOK(told) /\ CountsOK(told) /\ OrOK(told)
  BY DEF IInv, CombinedOK
<1>6. ASSUME NEW x \in Inputs \ doubtful', x.type \in Combined
      PROVE  Turns(eventQueue', x, told[x], inputs'[x])
  <2>1. Turns(eventQueue, x, told[x], inputs[x])
    BY <1>4, <1>5, <1>6 DEF TurnsOK
  <2>2. CASE m.kind # "report"
    <3>1. m \in QueuedEvents /\ eventQueue' = Append(eventQueue, m) /\ inputs' = inputs
      BY <1>1, <2>2
    <3>2. <<m>> \in Seq(QueuedEvents) /\ eventQueue' = eventQueue \o <<m>>
          /\ DOMAIN <<m>> = {1} /\ <<m>>[1] = m
      BY <1>3, <3>1, OneElement, Appended
    <3>3. m.kind # "device"
      BY <1>2, MessageTypes
    <3>4. \A j \in DOMAIN <<m>> : ~Of(<<m>>[j], x)
      BY <3>2, <3>3 DEF Of
    <3>5. Turns(eventQueue \o <<m>>, x, told[x], inputs[x])
      BY <1>3, <2>1, <3>2, <3>4, TurnsJoined
    <3> QED BY <3>1, <3>2, <3>5
  <2>3. CASE m.kind = "report" /\ inputs[m.input] = m.value
    <3>1. eventQueue' = eventQueue /\ inputs'[x] = inputs[x]
      BY <1>1, <1>3, <2>3
    <3> QED BY <2>1, <3>1
  <2>4. CASE m.kind = "report" /\ inputs[m.input] # m.value
    <3>1. PICK e \in DeviceEvents : /\ e.kind = "device" /\ e.input = m.input /\ e.value = m.value
                                    /\ eventQueue' = Append(eventQueue, e)
      BY <1>1, <2>4
    <3>2. /\ e \in QueuedEvents /\ <<e>> \in Seq(QueuedEvents) /\ eventQueue' = eventQueue \o <<e>>
          /\ DOMAIN <<e>> = {1} /\ <<e>>[1] = e
      BY <1>3, <3>1, OneElement, Appended
    <3>3. inputs' = [inputs EXCEPT ![m.input] = m.value] /\ m.input \in Inputs
      BY <1>1, <2>4
    <3>4. CASE x # m.input
      <4>1. \A j \in DOMAIN <<e>> : ~Of(<<e>>[j], x)
        BY <3>1, <3>2, <3>4 DEF Of
      <4>2. inputs'[x] = inputs[x]
        BY <1>3, <3>3, <3>4
      <4> QED BY <1>3, <2>1, <3>2, <4>1, <4>2, TurnsJoined
    <3>5. CASE x = m.input
      <4>1. inputs'[x] = e.value /\ inputs[x] # e.value
        BY <1>3, <2>4, <3>1, <3>3, <3>5
      <4>2. inputs[x] \in {Active, Inactive} /\ e.value \in {Active, Inactive}
        BY <1>1, <1>6, <2>4, <3>1, <3>5
      <4>3. Of(e, x)
        BY <3>1, <3>5 DEF Of
      <4>4. Turns(eventQueue \o <<e>>, x, told[x], e.value)
        BY <1>3, <2>1, <3>2, <4>1, <4>2, <4>3, TurnsReported
      <4> QED BY <3>2, <4>1, <4>4
    <3> QED BY <3>4, <3>5
  <2> QED BY <2>2, <2>3, <2>4
<1>7. TurnsOK(told)'
  <2>1. \A x : Turns(eventQueue', x, told[x], inputs'[x]) = Turns(eventQueue, x, told[x], inputs[x])'
    BY DEF Turns, Of
  <2> QED BY <1>6, <2>1 DEF TurnsOK
<1>8. CountsOK(told)'
  BY <1>1, <1>4, <1>5 DEF CountsOK, On
<1>9. OrOK(told)'
  BY <1>1, <1>4, <1>5 DEF OrOK, OnlyInputs
<1> QED BY <1>7, <1>8, <1>9 DEF CombinedOK

(* A message that is taken from the queue *)
LEMMA MessageStep == IInv /\ HandleMessage => IInv'
<1> SUFFICES ASSUME IInv, HandleMessage PROVE IInv'
  OBVIOUS
<1> DEFINE m == Head(modelQueue)
<1>1. /\ m \in Messages \cup OwnCalls /\ modelQueue # <<>> /\ modelQueue' = Tail(modelQueue)
      /\ UNCHANGED <<m_states, files, counters, offered, messages, restarts, onBus, overridden,
                     cleared, before>>
      /\ \/ /\ m.kind # "report" /\ m \in QueuedEvents
            /\ eventQueue' = Append(eventQueue, m) /\ UNCHANGED <<inputs, doubtful>>
         \/ /\ m.kind = "report" /\ m.input \in Inputs /\ m.value \in 1 .. 3
            /\ inputs' = [inputs EXCEPT ![m.input] = m.value]
            /\ doubtful' = IF {inputs[m.input], m.value} \subseteq {Active, Inactive} THEN doubtful
                           ELSE doubtful \cup {m.input}
            /\ \/ inputs[m.input] = m.value /\ eventQueue' = eventQueue
               \/ /\ inputs[m.input] # m.value
                  /\ \E e \in DeviceEvents :
                       /\ e.kind = "device" /\ e.input = m.input /\ e.value = m.value
                       /\ eventQueue' = Append(eventQueue, e)
  BY HandledMessage
<1>2. eventQueue \in Seq(QueuedEvents) /\ modelQueue \in Seq(Messages \cup OwnCalls)
  BY DEF IInv, Base, QueuesOK
<1>3. eventQueue' \in Seq(QueuedEvents) /\ StartOK' /\ ModeOK' /\ BusOK' /\ ClearedOK' /\ OverridingOK'
  <2>1. CASE m.kind # "report"
    <3>1. m \in QueuedEvents /\ eventQueue' = Append(eventQueue, m)
      BY <1>1, <2>1
    <3>2. m.kind \notin {"running", "service"}
      BY <1>1, MessageTypes
    <3> QED BY <3>1, <3>2, PassedOn
  <2>2. CASE m.kind = "report" /\ eventQueue' = eventQueue
    BY <1>2, <2>2, SameValue
  <2>3. CASE m.kind = "report" /\ eventQueue' # eventQueue
    <3>1. PICK e \in DeviceEvents : /\ e.kind = "device" /\ e.input = m.input /\ e.value = m.value
                                    /\ eventQueue' = Append(eventQueue, e)
      BY <1>1, <2>3
    <3>2. e \in QueuedEvents
      BY DEF QueuedEvents
    <3>3. /\ \A s : Sets(e, s) => Sets(m, s)
          /\ \A s : ~Resets(m, s)
          /\ \A k : ~Foreign(e, k)
      BY <2>3, <3>1 DEF Sets, Resets, Foreign
    <3> HIDE DEF m
    <3>4. e.kind \notin {"running", "service"}
      BY <3>1
    <3> QED BY <3>1, <3>2, <3>3, <3>4, PassedOn DEF m
  <2> QED BY <2>1, <2>2, <2>3
<1>4. QueuesOK'
  BY <1>1, <1>2, <1>3, Taken DEF IInv, Base, QueuesOK
<1>5. ShapeOK'
  <2>1. inputs' \in [Inputs -> 0 .. 3] /\ doubtful' \subseteq Inputs
    BY <1>1 DEF IInv, Base, ShapeOK
  <2> QED BY <1>1, <2>1 DEF IInv, Base, ShapeOK
<1>6. SavedOK' /\ NewOK'
  BY <1>1 DEF IInv, Base, SavedOK, NewOK, Loaded
<1>7. RestartedOK'
  BY <1>1 DEF IInv, Base, RestartedOK
<1> QED BY <1>3, <1>4, <1>5, <1>6, <1>7, MessageCounts DEF IInv, Base

-----------------------------------------------------------------------------
(* The theorems                                                            *)

(* The invariant holds at the start. *)
LEMMA InitInv == StatesInit => IInv
<1> SUFFICES ASSUME StatesInit PROVE IInv
  OBVIOUS
<1>1. PICK e : e = [kind |-> "running"]
  OBVIOUS
<1>2. e \in QueuedEvents /\ e.kind = "running"
  BY <1>1 DEF QueuedEvents
<1>3. /\ m_states = [k \in StateKeys |-> None] /\ files = [k \in StateKeys |-> None]
      /\ inputs = [i \in Inputs |-> IF i \in Fresh THEN Invalid ELSE Inactive]
      /\ counters = [c \in CounterKeys |-> 0]
      /\ modelQueue = <<>> /\ eventQueue = <<e>>
      /\ offered \in Offers /\ messages = 0 /\ restarts = 0
      /\ onBus = [k \in StateKeys |-> None]
      /\ overridden = {} /\ doubtful = {} /\ cleared = {}
      /\ before = [k \in StateKeys |-> None]
  BY <1>1 DEF StatesInit, StatesCleared
<1>4. /\ <<e>> \in Seq(QueuedEvents) /\ DOMAIN <<e>> = {1} /\ <<e>>[1] = e /\ Len(<<e>>) = 1
      /\ Tail(<<e>>) = <<>> /\ <<e>> # <<>> /\ Head(<<e>>) = e
  BY <1>2, OneElement
<1>5. \A i \in Inputs : inputs[i] \in 0 .. 3 /\ inputs[i] # Active
  BY <1>3 DEF Active, Inactive, Invalid
<1>6. ShapeOK
  <2>1. None \in Values
    BY DEF Values
  <2>2. inputs \in [Inputs -> 0 .. 3]
    BY <1>3, <1>5
  <2> QED BY <1>3, <2>1, <2>2, StatesAssumption DEF ShapeOK
<1>7. QueuesOK
  BY <1>3, <1>4, EmptySeq DEF QueuesOK
<1>8. StartOK
  BY <1>2, <1>3, <1>4, NoElement DEF StartOK, NoStart
<1>9. SavedOK /\ NewOK /\ ClearedOK /\ RestartedOK
  BY <1>3 DEF SavedOK, NewOK, ClearedOK, RestartedOK
<1>10. \A k : ~Foreign(e, k) /\ ~About(e, k) /\ \A i : ~Of(e, i)
  BY <1>2 DEF Foreign, About, Of
<1>11. OverridingOK
  BY <1>3, <1>4, <1>10, NoElement DEF OverridingOK
<1>12. \A k : Silent(eventQueue, k)
  BY <1>3, <1>4, <1>10 DEF Silent
<1>13. BusOK
  BY <1>3, <1>12 DEF BusOK
<1>14. ModeOK
  <2>1. m_states[At("heating_system")] = None
    BY <1>3, Keys
  <2>2. HeatingModeOf(m_states) = <<>>
    BY <2>1 DEF HeatingModeOf, HeatingMode, Active, Inactive, None
  <2>3. \A x : << >> # <<x>>
    OBVIOUS
  <2> QED BY <1>12, <2>2, <2>3 DEF ModeOK
<1>15. CombinedOK
  <2>1. TurnsOK(inputs)
    BY <1>3, <1>4, <1>10 DEF TurnsOK, Turns
  <2>2. \A c : On(inputs, c) = {}
    BY <1>5 DEF On
  <2>3. CountsOK(inputs)
    BY <1>3, <2>2, FS_EmptySet DEF CountsOK
  <2>4. \A k \in StateKeys : m_states[k] # Active
    BY <1>3 DEF None, Active
  <2>5. OrOK(inputs)
    BY <1>5, <2>4 DEF OrOK, Feeding
  <2>6. inputs \in [Inputs -> 0 .. 3]
    BY <1>6 DEF ShapeOK
  <2> QED BY <2>1, <2>3, <2>5, <2>6 DEF CombinedOK
<1> QED BY <1>6, <1>7, <1>8, <1>9, <1>11, <1>13, <1>14, <1>15 DEF IInv, Base

(* Every step keeps it. *)
LEMMA StepInv == IInv /\ [StatesNext]_stateVars => IInv'
<1> SUFFICES ASSUME IInv, [StatesNext]_stateVars PROVE IInv'
  OBVIOUS
<1>1. CASE \E m \in offered : Receive(m)
  BY <1>1, ReceiveStep
<1>2. CASE HandleMessage
  BY <1>2, MessageStep
<1>3. CASE RunSystemState
  BY <1>3, BootStep, StartupStep, CallStep, UndoStep, InputStep, ServiceStep, SignalStep
     DEF RunSystemState
<1>4. CASE RaiseModelReady
  BY <1>4, ReadyStep
<1>5. CASE Restart
  BY <1>5, RestartStep
<1>6. CASE UNCHANGED stateVars
  <2>1. UNCHANGED <<m_states, files, inputs, counters, modelQueue, eventQueue, offered, messages,
                    restarts, onBus, overridden, doubtful, cleared, before>>
    BY <1>6 DEF stateVars
  <2>2. Base'
    BY <2>1 DEF IInv, Base, ShapeOK, QueuesOK, SavedOK, StartOK, NewOK, ClearedOK, RestartedOK,
                OverridingOK, NoStart, NewStart, NoneSets, IsReset, Loaded, Foreign, Overrides
  <2>3. ModeOK' /\ BusOK'
    BY <2>1 DEF IInv, ModeOK, BusOK, Silent, Ends, About, HeatingModeOf
  <2>4. PICK told \in [Inputs -> 0 .. 3] : TurnsOK(told) /\ CountsOK(told) /\ OrOK(told)
    BY DEF IInv, CombinedOK
  <2>5. TurnsOK(told)' /\ CountsOK(told)' /\ OrOK(told)'
    BY <2>1, <2>4 DEF TurnsOK, Turns, Of, CountsOK, On, OrOK, OnlyInputs
  <2> QED BY <2>2, <2>3, <2>4, <2>5 DEF IInv, CombinedOK
<1> QED BY <1>1, <1>2, <1>3, <1>4, <1>5, <1>6 DEF StatesNext

(* The invariant of the system states *)
LEMMA Invariance == StatesSpec => []IInv
<1>1. StatesInit => IInv
  BY InitInv
<1>2. IInv /\ [StatesNext]_stateVars => IInv'
  BY StepInv
<1> QED BY <1>1, <1>2, PTL DEF StatesSpec

(* States, files, counters and queues have their types. *)
THEOREM TypeCorrect == StatesSpec => []StatesTypeOK
<1>1. IInv => StatesTypeOK
  <2> SUFFICES ASSUME IInv PROVE StatesTypeOK
    OBVIOUS
  <2>1. ShapeOK /\ QueuesOK
    BY DEF IInv, Base
  <2>2. \A j \in DOMAIN modelQueue : modelQueue[j].kind \in {"call", "undo", "report", "signal"}
    <3> SUFFICES ASSUME NEW j \in DOMAIN modelQueue
                 PROVE  modelQueue[j].kind \in {"call", "undo", "report", "signal"}
      OBVIOUS
    <3>1. modelQueue[j] \in Messages \cup OwnCalls
      BY <2>1, LenProperties, ElementOfSeq DEF QueuesOK
    <3> QED BY <3>1, MessageTypes
  <2>3. \A j \in DOMAIN eventQueue :
          eventQueue[j].kind \in {"call", "undo", "device", "service", "signal", "running", "model_ready"}
    <3> SUFFICES ASSUME NEW j \in DOMAIN eventQueue
                 PROVE  eventQueue[j].kind
                          \in {"call", "undo", "device", "service", "signal", "running", "model_ready"}
      OBVIOUS
    <3>1. eventQueue[j] \in QueuedEvents
      BY <2>1, LenProperties, ElementOfSeq DEF QueuesOK
    <3> QED BY <3>1, EventTypes
  <2> QED BY <2>1, <2>2, <2>3 DEF StatesTypeOK, ShapeOK, Values
<1> QED BY <1>1, Invariance, PTL

(* However many restarts there are, and at whatever moment: alarms, wind, rain *)
(* and frost are what they were, because a change is saved before anything     *)
(* else happens, and neither the start nor model_ready sets them.              *)
THEOREM AlarmsSurvive == StatesSpec => []AlarmSurvivesRestart
<1>1. IInv => AlarmSurvivesRestart
  <2> SUFFICES ASSUME IInv, NEW k \in Surviving, before[k] # None, m_states[k] # None
               PROVE  m_states[k] = before[k]
    BY DEF AlarmSurvivesRestart, Surviving
  <2>1. k \in StateKeys
    BY Keys
  <2> QED BY <2>1 DEF IInv, Base, SavedOK, RestartedOK
<1> QED BY <1>1, Invariance, PTL

(* When nothing is on its way any more, panic and fire are not active if the *)
(* last command on the bus was to clear them, in whatever order calls, undos *)
(* and smoke detectors came before and the plugin's own undos follow.        *)
THEOREM AlarmsCleared == StatesSpec => []AlarmIsCleared
<1>1. IInv => AlarmIsCleared
  <2> SUFFICES ASSUME IInv, modelQueue = <<>>, eventQueue = <<>>, NEW s \in cleared
               PROVE  m_states[At(s)] # Active
    BY DEF AlarmIsCleared, Quiet
  <2>1. ~IsReset(<<>>, s)
    BY NoElement DEF IsReset
  <2> QED BY <2>1 DEF IInv, Base, ClearedOK
<1> QED BY <1>1, Invariance, PTL

(* The heating mode that was signalled is the one of the two states. *)
LEMMA ModeFollows == IInv => HeatingModeFollows
<1> SUFFICES ASSUME IInv, Quiet, Mode \notin overridden
             PROVE  HeatingModeOf(m_states) \in {<<>>, <<m_states[Mode]>>}
  BY DEF HeatingModeFollows, Mode
<1>1. \A x : ~Ends(eventQueue, Mode, x)
  BY NoElement DEF Quiet, Ends
<1> QED BY <1>1, HeatingModeIs DEF IInv, ModeOK

(* The bus has seen the scene of the state. *)
LEMMA BusFollows == IInv => BusFollowsState
<1> SUFFICES ASSUME IInv, Quiet, NEW k \in StateKeys \ overridden, k[1] \in {"wind", "rain"}
             PROVE  \/ onBus[k] = m_states[k]
                    \/ onBus[k] = None /\ m_states[k] \in {None, Inactive}
  BY DEF BusFollowsState
<1>1. \A x : ~Ends(eventQueue, k, x)
  BY NoElement DEF Quiet, Ends
<1> QED BY <1>1 DEF IInv, BusOK

(* A state of several inputs is active when one of them is. *)
LEMMA InputsCombined == IInv => CombinedIsOr
<1> SUFFICES ASSUME IInv, Quiet, NEW k \in StateKeys, OnlyInputs(k)
             PROVE  m_states[k] = Active <=> \E i \in Feeding(k) : inputs[i] = Active
  BY DEF CombinedIsOr, OnlyInputs
<1>1. PICK told \in [Inputs -> 0 .. 3] : TurnsOK(told) /\ CountsOK(told) /\ OrOK(told)
  BY DEF IInv, CombinedOK
<1>2. ASSUME NEW i \in Feeding(k) PROVE told[i] = inputs[i]
  <2>1. i \in Inputs \ doubtful /\ i.type \in Combined
    BY DEF Feeding, OnlyInputs
  <2>2. Turns(eventQueue, i, told[i], inputs[i])
    BY <1>1, <2>1 DEF TurnsOK
  <2> QED BY <2>2, NoElement DEF Quiet, Turns
<1> QED BY <1>1, <1>2 DEF OrOK

(* When all messages are handled, the states agree with the inputs, with the *)
(* bus and with each other, whatever was interleaved with what before.       *)
THEOREM Agreement == StatesSpec => []StatesAgree
<1>1. IInv => StatesAgree
  BY ModeFollows, BusFollows, InputsCombined DEF StatesAgree
<1> QED BY <1>1, Invariance, PTL

-----------------------------------------------------------------------------
(* setApartmentState                                                       *)
PresenceInv == PresenceTypeOK /\ LoopProgress

USE DEF PresenceStates

(* The reports the loop has gone over are the ones before and the one at turn *)
LEMMA KnownStep ==
  ASSUME PresenceTypeOK, turn <= Len(meters)
  PROVE  KnownUpTo(turn) = KnownUpTo(turn - 1) \cup
           (IF meters[turn].usable THEN {meters[turn].state} \ {UNKNOWN} ELSE {})
<1>1. turn \in 1 .. Len(meters) /\ DOMAIN meters = 1 .. Len(meters)
  BY DEF PresenceTypeOK
<1>2. 1 .. turn = (1 .. turn - 1) \cup {turn}
  BY <1>1
<1> QED BY <1>1, <1>2 DEF KnownUpTo

(* What the first n dSMs know, all dSMs know *)
LEMMA KnownMonotone ==
  ASSUME PresenceTypeOK, NEW n \in 0 .. Len(meters)
  PROVE  KnownUpTo(n) \subseteq KnownUpTo(Len(meters))
BY DEF KnownUpTo, PresenceTypeOK

(* Before the loop nothing is known. *)
LEMMA PresenceInitInv == PresenceInit => PresenceInv
<1> SUFFICES ASSUME PresenceInit PROVE PresenceInv
  OBVIOUS
<1>1. PICK n \in 0 .. MaxMeters : meters \in [1 .. n -> Report]
  BY DEF PresenceInit
<1>2. n \in Nat
  BY ApartmentStateAssumption
<1>3. meters \in Seq(Report) /\ Len(meters) = n
  BY <1>1, <1>2
<1>4. PresenceTypeOK
  BY <1>2, <1>3 DEF PresenceInit, PresenceTypeOK
<1>5. KnownUpTo(turn - 1) = {}
  BY <1>3 DEF PresenceInit, KnownUpTo
<1>6. LoopProgress
  BY <1>5 DEF PresenceInit, LoopProgress
<1> QED BY <1>4, <1>6 DEF PresenceInv

(* Each step of the loop adds the report at turn. *)
LEMMA PresenceStepInv == PresenceInv /\ [PresenceNext]_presenceVars => PresenceInv'
<1> SUFFICES ASSUME PresenceInv, [PresenceNext]_presenceVars PROVE PresenceInv'
  OBVIOUS
<1> USE DEF PresenceInv
<1>a. \A n : UNCHANGED meters => KnownUpTo(n)' = KnownUpTo(n)
  BY DEF KnownUpTo
<1>b. Len(meters) \in Nat
  BY DEF PresenceTypeOK
<1>1. CASE SkipMeter
  <2>1. turn \in 1 .. Len(meters) /\ turn' - 1 = turn /\ turn' \in 1 .. Len(meters) + 1
    BY <1>1, <1>b DEF SkipMeter, PresenceTypeOK
  <2>2. KnownUpTo(turn) = KnownUpTo(turn - 1)
    BY <1>1, <2>1, KnownStep DEF SkipMeter
  <2>3. PresenceTypeOK'
    BY <1>1, <2>1 DEF SkipMeter, PresenceTypeOK
  <2>4. LoopProgress'
    <3>1. KnownUpTo(turn - 1)' = KnownUpTo(turn)
      BY <1>1, <2>1 DEF SkipMeter, KnownUpTo
    <3> QED BY <1>1, <2>2, <3>1 DEF SkipMeter, LoopProgress
  <2> QED BY <2>3, <2>4
<1>2. CASE CountMeter
  <2> DEFINE s == meters[turn].state
  <2>0. turn \in 1 .. Len(meters) /\ UNCHANGED meters
    BY <1>2, <1>b DEF CountMeter, PresenceTypeOK
  <2>r. meters[turn] \in Report
    BY <2>0 DEF PresenceTypeOK
  <2>1. turn \in 1 .. Len(meters) /\ s \in {PRESENT, ABSENT} /\ UNCHANGED meters
    BY <1>2, <2>0, <2>r DEF CountMeter, Report
  <2>2. KnownUpTo(turn) = KnownUpTo(turn - 1) \cup {s}
    BY <1>2, <2>1, KnownStep DEF CountMeter
  <2>3. KnownUpTo(turn - 1) = {lastdsmaptstate} \ {UNKNOWN}
    BY <1>2 DEF CountMeter, LoopProgress
  <2> HIDE DEF s
  <2>4. CASE lastdsmaptstate \in {UNKNOWN, s}
    <3>1. lastdsmaptstate' = s /\ turn' = turn + 1 /\ ppc' = "loop"
      BY <1>2, <2>4 DEF CountMeter, CompareWithLast, s
    <3>2. PresenceTypeOK'
      BY <1>2, <1>b, <2>1, <3>1 DEF CountMeter, PresenceTypeOK
    <3>3. KnownUpTo(turn - 1)' = KnownUpTo(turn)
      <4>1. turn' - 1 = turn
        BY <2>1, <3>1
      <4> QED BY <4>1, <2>1 DEF KnownUpTo
    <3>4. KnownUpTo(turn) = {s} \ {UNKNOWN}
      BY <2>1, <2>2, <2>3, <2>4, ApartmentStateAssumption
    <3>5. LoopProgress'
      BY <1>2, <3>1, <3>3, <3>4 DEF CountMeter, LoopProgress
    <3> QED BY <3>2, <3>5
  <2>5. CASE lastdsmaptstate \notin {UNKNOWN, s}
    <3>1. lastdsmaptstate' = UNKNOWN /\ ppc' = "decide" /\ turn' = turn
      BY <1>2, <2>5 DEF CountMeter, CompareWithLast, s
    <3>2. PresenceTypeOK'
      BY <1>2, <3>1 DEF CountMeter, PresenceTypeOK
    <3>3. {lastdsmaptstate, s} \subseteq KnownUpTo(turn)
      BY <2>2, <2>3, <2>5
    <3>4. KnownUpTo(turn) \subseteq KnownUpTo(Len(meters))
      BY <2>1, KnownMonotone
    <3>5. KnownUpTo(Len(meters))' = KnownUpTo(Len(meters))
      BY <1>a, <2>1
    <3>6. \E u, t \in KnownUpTo(Len(meters))' : u # t
      BY <2>5, <3>3, <3>4, <3>5
    <3>7. LoopProgress'
      BY <1>2, <3>1, <3>6 DEF CountMeter, LoopProgress
    <3> QED BY <3>2, <3>7
  <2> QED BY <2>4, <2>5
<1>3. CASE EndLoop
  <2>1. turn - 1 = Len(meters)
    BY <1>3, <1>b DEF EndLoop, PresenceTypeOK
  <2>2. KnownUpTo(Len(meters))' = {lastdsmaptstate} \ {UNKNOWN}
    BY <1>3, <1>a, <2>1 DEF EndLoop, LoopProgress
  <2>3. PresenceTypeOK'
    BY <1>3 DEF EndLoop, PresenceTypeOK
  <2>4. LoopProgress'
    BY <1>3, <2>2 DEF EndLoop, LoopProgress
  <2> QED BY <2>3, <2>4
<1>4. CASE Decide
  <2>1. PresenceTypeOK'
    BY <1>4 DEF Decide, PresenceTypeOK
  <2>2. LoopProgress'
    BY <1>4 DEF Decide, LoopProgress
  <2> QED BY <2>1, <2>2
<1>5. CASE UNCHANGED presenceVars
  <2>1. PresenceTypeOK'
    BY <1>5 DEF presenceVars, PresenceTypeOK
  <2>2. \A n : KnownUpTo(n)' = KnownUpTo(n)
    BY <1>5, <1>a DEF presenceVars
  <2>3. LoopProgress'
    BY <1>5, <2>2 DEF presenceVars, LoopProgress
  <2> QED BY <2>1, <2>3
<1> QED BY <1>1, <1>2, <1>3, <1>4, <1>5 DEF PresenceNext

(* The two cases of LoopProgress when the loop is over are the two of the rule *)
LEMMA StepRule == PresenceInv /\ FollowsRule /\ [PresenceNext]_presenceVars => FollowsRule'
<1> SUFFICES ASSUME PresenceInv, FollowsRule, [PresenceNext]_presenceVars, ppc' = "done"
             PROVE  Rule(dssaptstate)'
  BY DEF FollowsRule
<1> DEFINE all == KnownUpTo(Len(meters))
<1>1. CASE Decide
  <2>1. all' = all /\ stored' = stored
    BY <1>1 DEF Decide, KnownUpTo
  <2>2. dssaptstate = stored /\ stored \in PresenceStates /\ lastdsmaptstate \in PresenceStates
    BY <1>1 DEF Decide, PresenceInv, LoopProgress, PresenceTypeOK
  <2>3. CASE lastdsmaptstate # UNKNOWN
    <3>1. all = {lastdsmaptstate} /\ dssaptstate' = lastdsmaptstate
      BY <1>1, <2>3 DEF Decide, PresenceInv, LoopProgress
    <3> QED BY <2>1, <3>1 DEF Rule
  <2>4. CASE lastdsmaptstate = UNKNOWN
    <3>1. \A t \in PresenceStates : all # {t}
      BY <1>1, <2>4 DEF Decide, PresenceInv, LoopProgress
    <3>2. dssaptstate' = IF stored = UNKNOWN THEN PRESENT ELSE stored
      BY <1>1, <2>2, <2>4 DEF Decide
    <3> QED BY <2>1, <3>1, <3>2 DEF Rule
  <2> QED BY <2>3, <2>4
<1>2. CASE UNCHANGED presenceVars
  <2>1. all' = all /\ Rule(dssaptstate)
    BY <1>2 DEF presenceVars, KnownUpTo, FollowsRule
  <2> QED BY <1>2, <2>1 DEF presenceVars, Rule
<1>3. CASE SkipMeter \/ CountMeter \/ EndLoop
  BY <1>3 DEF SkipMeter, CountMeter, CompareWithLast, EndLoop
<1> QED BY <1>1, <1>2, <1>3 DEF PresenceNext

(* The variables keep their types and the loop its invariant *)
THEOREM PresenceInvariance == PresenceSpec => []PresenceInv
BY PresenceInitInv, PresenceStepInv, PTL DEF PresenceSpec

(* The index never leaves the list of dSMs *)
THEOREM PresenceTypeCorrect == PresenceSpec => []PresenceTypeOK
BY PresenceInvariance, PTL DEF PresenceInv

(* Whatever the dSMs report and however many there are, setApartmentState  *)
(* ends with the state of the rule in its comment.                         *)
THEOREM PresenceFollowsRule == PresenceSpec => []FollowsRule
<1>1. PresenceInit => FollowsRule
  BY DEF PresenceInit, FollowsRule
<1> QED BY <1>1, PresenceInvariance, StepRule, PTL DEF PresenceSpec

=============================================================================
