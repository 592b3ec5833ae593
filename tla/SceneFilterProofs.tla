-------------------------- MODULE SceneFilterProofs -------------------------
(***************************************************************************)
(* Proofs about SceneFilter, for every set of origins, zones, groups,      *)
(* scenes and clicks, and any number of calls.                             *)
(***************************************************************************)
EXTENDS SceneFilter, FiniteSetTheorems, SequenceTheorems,
        NaturalsInduction, WellFoundedInduction, TLAPS

(* An event of the list stands for calls of its kind, and for none from    *)
(* another origin that has a name.  The clicks it stands for are counted.  *)
Stands(e) ==
  /\ e.nos \subseteq DOMAIN callLog
  /\ \A n \in e.nos : /\ callLog[n].kind = e.kind
                      /\ Named(callLog[n].origin) => e.origin = callLog[n].origin
Repeats(e) == {n \in e.nos : callLog[n].id \in {HR, HE}}
Started(e) == \E n \in e.nos : callLog[n].id = HS
Counted(e) ==
  e.kind = "button" =>
    /\ e.id = HS => e.hold = 0 /\ Repeats(e) = {} /\ Started(e)
    /\ e.id \in {HR, HE} => e.hold = Cardinality(Repeats(e)) - (IF Started(e) THEN 0 ELSE 1)

EventsOK == \A e \in AllDeferred : Stands(e) /\ Counted(e)

(* A scene's event stands for calls at one place and from one dSM, and     *)
(* reports the scene of one of them.  When it has been raised before its   *)
(* time, one of them was dimming and reported; what is not came after it.  *)
Sequence(e) == \A n \in e.nos : /\ callLog[n].at = e.at
                                 /\ callLog[n].origin.source = e.origin.source
Shown(e)    == \E n \in e.nos : callLog[n].id = e.id
Dimmed(e)   == \E m \in e.nos \cap reported : /\ isDimSequence(callLog[m].id)
                                              /\ \A n \in e.nos \ reported : m < n
Dimming(e)  == e.kind = "scene" => Sequence(e) /\ Shown(e) /\ (e.called => Dimmed(e))
DimmingOK   == \A e \in AllDeferred : Dimming(e)

(* A scene that is not delayed is due and never stays in the list; the     *)
(* earlier ones of its origin are settled or due and visited before.       *)
PassOK ==
  /\ \A i \in DOMAIN deferred : \A n \in deferred[i].nos : ~Passes(n)
  /\ \A i \in DOMAIN work : \A n \in work[i].nos : Passes(n) => isDue(work[i])
FlushOK ==
  \A i \in DOMAIN work : \A n \in work[i].nos : Passes(n) =>
    \A m \in DOMAIN callLog : Before(m, n) =>
      Settled(m) \/ \E j \in DOMAIN work : j < i /\ isDue(work[j]) /\ m \in work[j].nos

(* What is deferred for a group whose calls have not overlapped *)
For(e, p) == e.kind = "scene" /\ Reaches(e.at, p)
Decides(e, p) == For(e, p) /\ isOnScene(p[2], e.id) # "dontcare"
Agrees(p, l) == \/ l \in {"unknown", isOnScene(p[2], lastCalled[p])}
                \/ isOnScene(p[2], lastCalled[p]) = "dontcare"

(* one event, or several that are due, in their order *)
Single(p) ==
  /\ \A i, j \in DOMAIN deferred : For(deferred[i], p) /\ For(deferred[j], p) => i = j
  /\ \A i \in DOMAIN deferred : \A j \in DOMAIN work : ~(For(deferred[i], p) /\ For(work[j], p))
  /\ \A i, j \in DOMAIN work : i < j /\ For(work[i], p) /\ For(work[j], p) => isDue(work[i])
SingleOK == \A p \in Lit \ disturbed : Single(p)
(* The device is known; what was reported before its time is dimming. *)
Harmless(e) ==
  e.kind = "scene" =>
    \A p \in Lit \ disturbed : Reaches(e.at, p) =>
      e.origin \notin Missing /\ (e.called => isDimSequence(e.id))
HarmlessOK == \A e \in AllDeferred : Harmless(e)
(* The last event that decides the state, or the state, is the remembered scene's. *)
Bright(p) ==
  /\ \A i \in DOMAIN deferred :
       Decides(deferred[i], p) => Agrees(p, isOnScene(p[2], deferred[i].id))
  /\ \A i \in DOMAIN work :
       Decides(work[i], p) /\ (\A j \in DOMAIN work : j > i => ~Decides(work[j], p))
         => Agrees(p, isOnScene(p[2], work[i].id))
  /\ (\A e \in AllDeferred : ~Decides(e, p)) => Agrees(p, light[p])
LightOK == \A p \in Lit \ disturbed : Bright(p)

SceneInv ==
  /\ SceneTypeOK /\ NoCallLost /\ EventsOK /\ DimmingOK
  /\ PassOK /\ FlushOK /\ InOrder
  /\ SingleOK /\ HarmlessOK /\ LightOK

(***************************************************************************)
(* Lists of events                                                         *)
(***************************************************************************)

LogEntry == [kind : {"scene", "button"}, origin : Origins, at : Places \cup {<< 0 >>}, id : 0 .. 127]

(* First of a nonempty set of positions is one of them. *)
LEMMA FirstIsElement ==
  ASSUME NEW S \in SUBSET Nat, S # {}
  PROVE  First(S) \in S
<1> DEFINE R == {ss \in Nat \X Nat : ss[1] < ss[2]}
<1>1. IsWellFoundedOn(R, Nat)
  BY NatLessThanWellFounded, Zenon DEF OpToRel
<1>2. PICK x \in S : \A y \in S : <<y, x>> \notin R
  <2> HIDE DEF R
  <2> QED BY <1>1, WFMin
<1>3. ASSUME NEW y \in S PROVE x <= y
  <2>1. x \in Nat /\ y \in Nat
    OBVIOUS
  <2>2. ~(y < x)
    BY <1>2, <2>1
  <2>3. QED BY <2>1, <2>2
<1>4. QED BY <1>3 DEF First

(* the positions and elements of a list, when one is appended or taken *)
LEMMA ListFacts ==
  ASSUME NEW S, NEW q \in Seq(S)
  PROVE  /\ Len(q) \in Nat /\ DOMAIN q = 1 .. Len(q)
         /\ \A i \in DOMAIN q : q[i] \in S
         /\ q = <<>> <=> Len(q) = 0
         /\ \A e \in S : /\ Append(q, e) \in Seq(S)
                         /\ Len(Append(q, e)) = Len(q) + 1
                         /\ DOMAIN Append(q, e) = 1 .. Len(q) + 1
                         /\ Append(q, e)[Len(q) + 1] = e
                         /\ \A i \in DOMAIN q : Append(q, e)[i] = q[i]
         /\ q # <<>> => /\ Head(q) = q[1] /\ Head(q) \in S /\ 1 \in DOMAIN q
                        /\ Tail(q) \in Seq(S)
                        /\ DOMAIN Tail(q) = 1 .. Len(q) - 1
                        /\ \A i \in DOMAIN Tail(q) : Tail(q)[i] = q[i + 1]
<1>1. /\ Len(q) \in Nat /\ DOMAIN q = 1 .. Len(q)
      /\ \A i \in DOMAIN q : q[i] \in S
      /\ q = <<>> <=> Len(q) = 0
  BY LenProperties, EmptySeq, ElementOfSeq
<1>2. ASSUME NEW e \in S
      PROVE  /\ Append(q, e) \in Seq(S)
             /\ Len(Append(q, e)) = Len(q) + 1
             /\ DOMAIN Append(q, e) = 1 .. Len(q) + 1
             /\ Append(q, e)[Len(q) + 1] = e
             /\ \A i \in DOMAIN q : Append(q, e)[i] = q[i]
  BY <1>1, AppendProperties, LenProperties
<1>3. ASSUME q # <<>>
      PROVE  /\ Head(q) = q[1] /\ Head(q) \in S /\ 1 \in DOMAIN q
             /\ Tail(q) \in Seq(S)
             /\ DOMAIN Tail(q) = 1 .. Len(q) - 1
             /\ \A i \in DOMAIN Tail(q) : Tail(q)[i] = q[i + 1]
  <2>1. Head(q) \in S /\ Tail(q) \in Seq(S) /\ Len(Tail(q)) = Len(q) - 1
    BY <1>3, HeadTailProperties
  <2>2. DOMAIN Tail(q) = 1 .. Len(Tail(q)) /\ Len(q) \in Nat \ {0}
    BY <1>1, <1>3, <2>1, LenProperties
  <2>3. QED BY <1>1, <1>3, <2>1, <2>2
<1>4. QED BY <1>1, <1>2, <1>3

(* A list may be given by its length and its elements. *)
LEMMA ListByElements ==
  ASSUME NEW S, NEW n \in Nat, NEW q, q = [i \in 1 .. n |-> q[i]], \A i \in 1 .. n : q[i] \in S
  PROVE  q \in Seq(S) /\ Len(q) = n
BY IsASeq, LenProperties

(* two events that stand for the same calls at the same place *)
Variant(e, d) ==
  /\ e.kind = d.kind /\ e.origin = d.origin /\ e.at = d.at
  /\ e.id = d.id /\ e.hold = d.hold /\ e.nos = d.nos

(* the changes of an event that keep what it stands for *)
LEMMA Variants ==
  ASSUME NEW d \in DeferredEvent
  PROVE  /\ [d EXCEPT !.age = Timeout] \in DeferredEvent
         /\ Variant([d EXCEPT !.age = Timeout], d)
         /\ [d EXCEPT !.age = Timeout].age = Timeout
         /\ [d EXCEPT !.age = Timeout].called = d.called
         /\ [d EXCEPT !.called = TRUE] \in DeferredEvent
         /\ Variant([d EXCEPT !.called = TRUE], d)
         /\ [d EXCEPT !.called = TRUE].age = d.age
         /\ ~isDue(d) => /\ [d EXCEPT !.age = @ + 1] \in DeferredEvent
                         /\ Variant([d EXCEPT !.age = @ + 1], d)
                         /\ [d EXCEPT !.age = @ + 1].called = d.called
         /\ Variant(d, d)
<1>1. /\ d.kind \in {"scene", "button"} /\ d.age \in 0 .. Timeout
      /\ d = [kind |-> d.kind, origin |-> d.origin, at |-> d.at, id |-> d.id, age |-> d.age,
              called |-> d.called, hold |-> d.hold, nos |-> d.nos]
  BY DEF DeferredEvent
<1>2. [d EXCEPT !.age = Timeout] \in DeferredEvent
  BY DEF DeferredEvent, Timeout
<1>3. [d EXCEPT !.called = TRUE] \in DeferredEvent
  BY DEF DeferredEvent
<1>4. ASSUME ~isDue(d) PROVE [d EXCEPT !.age = d.age + 1] \in DeferredEvent
  <2>1. d.age + 1 \in 0 .. Timeout
    BY <1>1, <1>4 DEF isDue, Timeout
  <2>2. QED BY <2>1 DEF DeferredEvent
<1>5. /\ Variant([d EXCEPT !.age = Timeout], d) /\ Variant([d EXCEPT !.called = TRUE], d)
      /\ Variant([d EXCEPT !.age = d.age + 1], d) /\ Variant(d, d)
  BY DEF DeferredEvent, Variant
<1>6. /\ [d EXCEPT !.age = Timeout].age = Timeout /\ [d EXCEPT !.age = Timeout].called = d.called
      /\ [d EXCEPT !.called = TRUE].age = d.age /\ [d EXCEPT !.age = d.age + 1].called = d.called
  BY DEF DeferredEvent
<1>7. QED BY <1>2, <1>3, <1>4, <1>5, <1>6

(* an event for a new call, and one that a call joins *)
LEMMA NewEvents ==
  ASSUME NEW o \in Origins, NEW at \in Places \cup {<< 0 >>}, NEW id \in 0 .. 127,
         NEW k \in {"scene", "button"}, NEW age \in {0, Timeout},
         Len(callLog) + 1 \in CallNo
  PROVE  New(k, o, at, id, age) \in DeferredEvent
BY DEF DeferredEvent, New, Timeout

(* a call joins an event *)
LEMMA JoinedEvents ==
  ASSUME NEW d \in DeferredEvent, NEW id \in 0 .. 127, Len(callLog) + 1 \in CallNo
  PROVE  /\ Absorb(d, id) \in DeferredEvent
         /\ AbsorbClick(d, id) \in DeferredEvent
         /\ \A e \in {Absorb(d, id), AbsorbClick(d, id)} :
              /\ e.kind = d.kind /\ e.origin = d.origin /\ e.at = d.at
              /\ e.called = d.called /\ e.nos = d.nos \cup {Len(callLog) + 1}
         /\ Absorb(d, id).id = IF Prolongs(d, id) THEN d.id ELSE id
         /\ AbsorbClick(d, id).id = id
         /\ AbsorbClick(d, id).hold = IF Holding(d, id) THEN d.hold + 1 ELSE d.hold
<1>1. /\ d.nos \cup {Len(callLog) + 1} \in SUBSET CallNo /\ d.id \in 0 .. 127
      /\ 0 \in 0 .. Timeout /\ d.hold \in Nat /\ d.hold + 1 \in Nat
  BY DEF DeferredEvent, Timeout
<1>2. Absorb(d, id) \in DeferredEvent
  <2>1. CASE Prolongs(d, id)
    BY <1>1, <2>1 DEF DeferredEvent, Absorb
  <2>2. CASE ~Prolongs(d, id)
    BY <1>1, <2>2 DEF DeferredEvent, Absorb
  <2>3. QED BY <2>1, <2>2
<1>3. AbsorbClick(d, id) \in DeferredEvent
  <2>1. CASE Holding(d, id)
    BY <1>1, <2>1 DEF DeferredEvent, AbsorbClick
  <2>2. CASE ~Holding(d, id)
    BY <1>1, <2>2 DEF DeferredEvent, AbsorbClick
  <2>3. QED BY <2>1, <2>2
<1>4. QED BY <1>2, <1>3 DEF DeferredEvent, Absorb, AbsorbClick

(***************************************************************************)
(* What the steps do to the list                                           *)
(***************************************************************************)

(* a new call: its place in the log, and in the list *)
CallNumber == Len(callLog) + 1
Begins(k, o, at, id) ==
  /\ work = <<>> /\ deferred' = <<>> /\ CallNumber \in CallNo
  /\ callLog' \in Seq(LogEntry) /\ Len(callLog') = CallNumber
  /\ DOMAIN callLog' = DOMAIN callLog \cup {CallNumber} /\ CallNumber \notin DOMAIN callLog
  /\ callLog'[CallNumber] = [kind |-> k, origin |-> o, at |-> at, id |-> id]
  /\ \A n \in DOMAIN callLog : callLog'[n] = callLog[n]
  /\ UNCHANGED <<undos, reported, filtered, notFound>>
Adds(q, e) ==
  /\ work' \in Seq(DeferredEvent)
  /\ Len(work') = Len(deferred) + 1 /\ DOMAIN work' = DOMAIN deferred \cup {Len(deferred) + 1}
  /\ \A i \in DOMAIN deferred : i < Len(deferred) + 1
  /\ work'[Len(deferred) + 1] = e
  /\ \A i \in DOMAIN deferred : work'[i] = q[i]
Joins(k, e) ==
  /\ work' \in Seq(DeferredEvent)
  /\ DOMAIN work' = DOMAIN deferred /\ k \in DOMAIN deferred
  /\ work'[k] = e
  /\ \A i \in DOMAIN deferred : i # k => work'[i] = deferred[i]

(* The constants and the lists are typed. *)
LEMMA Listed ==
  ASSUME SceneTypeOK
  PROVE  /\ AllDeferred \subseteq DeferredEvent
         /\ \A i \in DOMAIN deferred : deferred[i] \in DeferredEvent /\ deferred[i] \in AllDeferred
         /\ \A i \in DOMAIN work : work[i] \in DeferredEvent /\ work[i] \in AllDeferred
         /\ DOMAIN deferred \subseteq Nat /\ DOMAIN work \subseteq Nat
         /\ Len(deferred) \in Nat /\ DOMAIN deferred = 1 .. Len(deferred)
         /\ Len(work) \in Nat /\ DOMAIN work = 1 .. Len(work)
         /\ callLog \in Seq(LogEntry) /\ DOMAIN callLog = 1 .. Len(callLog) /\ Len(callLog) \in Nat
         /\ \A n \in DOMAIN callLog : callLog[n] \in LogEntry
<1>1. deferred \in Seq(DeferredEvent) /\ work \in Seq(DeferredEvent) /\ callLog \in Seq(LogEntry)
  BY DEF SceneTypeOK, LogEntry
<1>2. QED BY <1>1, ListFacts DEF AllDeferred

(* A call is logged under the next number. *)
LEMMA CallBegins ==
  ASSUME SceneTypeOK, EventIsNext, NEW k \in {"scene", "button"}, NEW o \in Origins,
         NEW at \in Places \cup {<< 0 >>}, NEW id \in 0 .. 127, Logged(k, o, at, id),
         deferred' = <<>>, UNCHANGED <<undos, reported, filtered, notFound>>
  PROVE  Begins(k, o, at, id)
<1> DEFINE c == [kind |-> k, origin |-> o, at |-> at, id |-> id]
<1>1. c \in LogEntry
  BY DEF LogEntry
<1>2. callLog \in Seq(LogEntry) /\ callLog' = Append(callLog, c) /\ work = <<>>
  BY Listed DEF Logged, EventIsNext, Waiting
<1>3. Len(callLog) \in Nat /\ Len(callLog) + 1 <= MaxCalls /\ undos \in Nat /\ MaxCalls \in Nat
  BY <1>2, ListFacts, SceneAssumption DEF EventIsNext, SceneTypeOK
<1>4. CallNumber \in CallNo
  BY <1>3 DEF CallNumber, CallNo
<1> HIDE DEF c
<1>5. /\ callLog' \in Seq(LogEntry) /\ Len(callLog') = CallNumber
      /\ DOMAIN callLog' = 1 .. Len(callLog) + 1 /\ callLog'[CallNumber] = c
      /\ \A n \in DOMAIN callLog : callLog'[n] = callLog[n]
  BY <1>1, <1>2, ListFacts DEF CallNumber
<1>6. DOMAIN callLog' = DOMAIN callLog \cup {CallNumber} /\ CallNumber \notin DOMAIN callLog
  BY <1>2, <1>3, <1>5, ListFacts DEF CallNumber
<1>7. QED BY <1>2, <1>4, <1>5, <1>6 DEF Begins, c

(* A new event goes to the end of a list of the same length. *)
LEMMA AddsNew ==
  ASSUME SceneTypeOK, NEW q, q \in Seq(DeferredEvent), Len(q) = Len(deferred),
         NEW e \in DeferredEvent, work' = Append(q, e)
  PROVE  Adds(q, e)
<1>1. Len(deferred) \in Nat /\ DOMAIN deferred = 1 .. Len(deferred)
  BY Listed
<1>2. /\ work' \in Seq(DeferredEvent) /\ Len(work') = Len(deferred) + 1
      /\ DOMAIN work' = 1 .. Len(deferred) + 1 /\ work'[Len(deferred) + 1] = e
      /\ DOMAIN q = 1 .. Len(deferred) /\ \A i \in DOMAIN q : work'[i] = q[i]
  BY ListFacts
<1>3. QED BY <1>1, <1>2 DEF Adds

(* A call joins an event of the list in its place. *)
LEMMA JoinsOld ==
  ASSUME SceneTypeOK, NEW k \in DOMAIN deferred, NEW e \in DeferredEvent,
         work' = [deferred EXCEPT ![k] = e]
  PROVE  Joins(k, e)
<1>1. Len(deferred) \in Nat /\ DOMAIN deferred = 1 .. Len(deferred) /\ deferred \in Seq(DeferredEvent)
  BY Listed DEF SceneTypeOK
<1>2. work' \in Seq(DeferredEvent) /\ DOMAIN work' = DOMAIN deferred
  BY <1>1, ExceptSeq
<1>3. QED BY <1>1, <1>2 DEF Joins

(* a scene is called: it passes with the others of its origin flushed, or  *)
(* begins a sequence, or goes on with one                                  *)
LEMMA SceneShape ==
  ASSUME SceneTypeOK, NEW o \in Origins, NEW at \in CallZones \X CallGroups,
         NEW s \in CalledScenes, CallScene(o, at, s)
  PROVE  /\ Begins("scene", o, at, s)
         /\ \/ passThrough(o, at, s) /\ Adds(Flushed(o), New("scene", o, at, s, Timeout))
            \/ /\ ~passThrough(o, at, s) /\ Followed(o, at, s) = {}
               /\ Adds(deferred, New("scene", o, at, s, 0))
            \/ /\ ~passThrough(o, at, s) /\ Followed(o, at, s) # {}
               /\ First(Followed(o, at, s)) \in Followed(o, at, s)
               /\ Joins(First(Followed(o, at, s)), Absorb(deferred[First(Followed(o, at, s))], s))
<1>1. at \in Places /\ s \in 0 .. 127
  BY SceneAssumption DEF Places, ZoneIDs, GroupIDs
<1>2. Begins("scene", o, at, s)
  BY <1>1, CallBegins DEF CallScene
<1>3. Len(callLog) + 1 \in CallNo /\ work' = Filtered(o, at, s)
  BY <1>2 DEF Begins, CallScene, CallNumber
<1>4. New("scene", o, at, s, Timeout) \in DeferredEvent /\ New("scene", o, at, s, 0) \in DeferredEvent
  BY <1>1, <1>3, NewEvents
<1>5. CASE passThrough(o, at, s)
  <2>1. \A i \in 1 .. Len(deferred) : Flushed(o)[i] \in DeferredEvent
    BY Listed, Variants DEF Flushed
  <2>2. Flushed(o) \in Seq(DeferredEvent) /\ Len(Flushed(o)) = Len(deferred)
    <3>1. Flushed(o) = [i \in 1 .. Len(deferred) |-> Flushed(o)[i]]
      BY Listed DEF Flushed
    <3>2. QED BY <2>1, <3>1, Listed, ListByElements
  <2>3. work' = Append(Flushed(o), New("scene", o, at, s, Timeout))
    BY <1>3, <1>5 DEF Filtered
  <2>4. QED BY <1>2, <1>4, <1>5, <2>2, <2>3, AddsNew
<1>6. CASE ~passThrough(o, at, s) /\ Followed(o, at, s) = {}
  <2>1. work' = Append(deferred, New("scene", o, at, s, 0))
    BY <1>3, <1>6 DEF Filtered
  <2>2. QED BY <1>2, <1>4, <1>6, <2>1, AddsNew DEF SceneTypeOK
<1>7. CASE ~passThrough(o, at, s) /\ Followed(o, at, s) # {}
  <2> DEFINE k == First(Followed(o, at, s))
  <2>1. k \in Followed(o, at, s) /\ k \in DOMAIN deferred
    BY <1>7, FirstIsElement, Listed DEF Followed
  <2>2. Absorb(deferred[k], s) \in DeferredEvent
    BY <1>1, <1>3, <2>1, Listed, JoinedEvents
  <2>3. work' = [deferred EXCEPT ![k] = Absorb(deferred[k], s)]
    BY <1>3, <1>7 DEF Filtered
  <2>4. QED BY <1>2, <1>7, <2>1, <2>2, <2>3, JoinsOld
<1>8. QED BY <1>5, <1>6, <1>7

(* a click is the first of a sequence, or goes on with one *)
LEMMA ClickShape ==
  ASSUME SceneTypeOK, NEW o \in Buttons, NEW c \in Clicks, ButtonClick(o, c)
  PROVE  /\ Begins("button", o, << 0 >>, c) /\ o \in Origins /\ c \in 0 .. 127
         /\ \/ \E age \in {0, Timeout} : Adds(deferred, New("button", o, << 0 >>, c, age))
            \/ \E k \in FollowedClick(o, c) : Joins(k, AbsorbClick(deferred[k], c))
<1>1. o \in Origins /\ c \in 0 .. 127
  <2>1. \A x \in 0 .. 15 : x \in 0 .. 127
    OBVIOUS
  <2>2. QED BY <2>1, SceneAssumption
<1>2. Begins("button", o, << 0 >>, c)
  BY <1>1, CallBegins DEF ButtonClick
<1>3. Len(callLog) + 1 \in CallNo /\ work' = FilteredClick(o, c)
  BY <1>2 DEF Begins, ButtonClick, CallNumber
<1>4. \A age \in {0, Timeout} : New("button", o, << 0 >>, c, age) \in DeferredEvent
  BY <1>1, <1>3, NewEvents
<1>5. CASE o.source = Myself \/ o \in Turbo
  <2>1. work' = Append(deferred, New("button", o, << 0 >>, c, Timeout))
    BY <1>3, <1>5 DEF FilteredClick
  <2>2. QED BY <1>1, <1>2, <1>4, <2>1, AddsNew DEF SceneTypeOK
<1>6. CASE ~(o.source = Myself \/ o \in Turbo) /\ FollowedClick(o, c) = {}
  <2>1. work' = Append(deferred, New("button", o, << 0 >>, c, 0))
    BY <1>3, <1>6 DEF FilteredClick
  <2>2. QED BY <1>1, <1>2, <1>4, <2>1, AddsNew DEF SceneTypeOK
<1>7. CASE ~(o.source = Myself \/ o \in Turbo) /\ FollowedClick(o, c) # {}
  <2> DEFINE k == First(FollowedClick(o, c))
  <2>1. k \in FollowedClick(o, c) /\ k \in DOMAIN deferred
    BY <1>7, FirstIsElement, Listed DEF FollowedClick
  <2>2. AbsorbClick(deferred[k], c) \in DeferredEvent
    BY <1>1, <1>3, <2>1, Listed, JoinedEvents
  <2>3. work' = [deferred EXCEPT ![k] = AbsorbClick(deferred[k], c)]
    BY <1>3, <1>7 DEF FilteredClick
  <2>4. QED BY <1>1, <1>2, <2>1, <2>2, <2>3, JoinsOld
<1>8. QED BY <1>5, <1>6, <1>7

(* the steps that log nothing *)
Visiting == \/ DropEvent \/ ReportDue \/ EndOfDimming \/ ReportDimming
            \/ KeepScene \/ ReportClick \/ KeepClick
Undoing == \E at \in CallZones \X CallGroups, s \in CalledScenes \cup {LastScene} :
             UndoScene(at, s)

(* the event that is visited leaves the list, reported, unknown or         *)
(* filtered, or stays as the last one                                      *)
Filters == /\ Now.kind = "scene" /\ Now.called
           /\ filtered' = filtered \cup (Now.nos \ reported)
Leaves == /\ deferred' = deferred
          /\ Now.nos \subseteq reported' \cup notFound' \/ Filters
Stays(e) ==
  /\ ~isDue(Now) /\ deferred' = Append(deferred, e)
  /\ e \in DeferredEvent /\ Variant(e, Now) /\ e.age = Now.age
  /\ e.called => Now.called \/ (isDimSequence(e.id) /\ e.nos \subseteq reported')
  /\ e.kind = "scene" => e.origin \notin Missing
(* the state changes with the report of a scene *)
Lights == \/ UNCHANGED light
          \/ /\ Now.kind = "scene"
             /\ isDue(Now) \/ isDimSequence(Now.id)
             /\ light' = [p \in Lit |-> IF Reaches(Now.at, p) THEN OnState(p, Now.id)
                                        ELSE light[p]]

(* Each visit is one of these. *)
LEMMA VisitShape ==
  ASSUME SceneTypeOK, Visiting
  PROVE  /\ work # <<>> /\ work' = Tail(work) /\ Now \in DeferredEvent /\ Now \in AllDeferred
         /\ UNCHANGED <<lastCalled, lastButOne, callLog, undos, disturbed>>
         /\ reported' \in {reported, reported \cup Now.nos}
         /\ notFound' \in {notFound, notFound \cup Now.nos}
         /\ filtered' \in {filtered, filtered \cup (Now.nos \ reported)}
         /\ Leaves \/ \E e \in DeferredEvent : Stays(e)
         /\ Lights
         /\ Leaves => \/ Now.kind = "scene" => Now.origin \in Missing
                      \/ /\ isDue(Now)
                         /\ \/ Now.called
                            \/ light' = [p \in Lit |-> IF Reaches(Now.at, p) THEN OnState(p, Now.id)
                                                       ELSE light[p]]
<1>1. work # <<>> /\ work' = Tail(work)
  BY DEF Visiting, DropEvent, ReportDue, EndOfDimming, ReportDimming, KeepScene,
         ReportClick, KeepClick, Visit
<1>2. Now \in DeferredEvent /\ Now \in AllDeferred
  <2>1. Now = work[1] /\ 1 \in DOMAIN work
    BY <1>1, ListFacts DEF SceneTypeOK, Now
  <2>2. QED BY <2>1, Listed
<1>3. UNCHANGED <<lastCalled, lastButOne, callLog, undos, disturbed>>
  BY DEF Visiting, DropEvent, ReportDue, EndOfDimming, ReportDimming, KeepScene,
         ReportClick, KeepClick, HistoryOnly
<1>4. /\ reported' \in {reported, reported \cup Now.nos}
      /\ notFound' \in {notFound, notFound \cup Now.nos}
      /\ filtered' \in {filtered, filtered \cup (Now.nos \ reported)}
  BY DEF Visiting, DropEvent, ReportDue, EndOfDimming, ReportDimming, KeepScene,
         ReportClick, KeepClick, RaiseScene
<1>5. CASE DropEvent
  <2>1. Leaves /\ UNCHANGED light /\ Now.origin \in Missing
    BY <1>5 DEF DropEvent, Leaves
  <2>2. QED BY <1>1, <1>2, <1>3, <1>4, <2>1 DEF Lights
<1>6. CASE ReportDue
  <2>1. /\ Leaves /\ isDue(Now) /\ Now.kind = "scene"
        /\ light' = [p \in Lit |-> IF Reaches(Now.at, p) THEN OnState(p, Now.id) ELSE light[p]]
    BY <1>6 DEF ReportDue, RaiseScene, Leaves, Visit
  <2>2. QED BY <1>1, <1>2, <1>3, <1>4, <2>1 DEF Lights
<1>7. CASE EndOfDimming
  <2>1. Leaves /\ UNCHANGED light /\ isDue(Now) /\ Now.called
    BY <1>7 DEF EndOfDimming, Leaves, Filters, Visit
  <2>2. QED BY <1>1, <1>2, <1>3, <1>4, <2>1 DEF Lights
<1>8. CASE ReportDimming
  <2> DEFINE e == [Now EXCEPT !.called = TRUE]
  <2>1. /\ deferred' = Append(deferred, e) /\ ~isDue(Now) /\ Now.kind = "scene"
        /\ isDimSequence(Now.id) /\ Now.origin \notin Missing /\ Now.nos \subseteq reported'
        /\ light' = [p \in Lit |-> IF Reaches(Now.at, p) THEN OnState(p, Now.id) ELSE light[p]]
    BY <1>8 DEF ReportDimming, RaiseScene, Visit
  <2>2. e \in DeferredEvent /\ Variant(e, Now) /\ e.age = Now.age
    BY <1>2, Variants
  <2>3. e.id = Now.id /\ e.origin = Now.origin /\ e.nos = Now.nos
    BY <2>2 DEF Variant
  <2>4. Stays(e)
    BY <2>1, <2>2, <2>3 DEF Stays
  <2>5. Leaves => isDue(Now)
    <3>1. deferred' # deferred
      BY <2>1, <2>2, ListFacts DEF SceneTypeOK
    <3>2. QED BY <3>1 DEF Leaves
  <2>6. Lights
    BY <2>1 DEF Lights
  <2>7. QED BY <1>1, <1>2, <1>3, <1>4, <2>1, <2>2, <2>4, <2>5, <2>6
<1>9. CASE KeepScene \/ KeepClick
  <2>1. /\ deferred' = Append(deferred, Now) /\ ~isDue(Now) /\ UNCHANGED light
        /\ Now.origin \notin Missing
    BY <1>9 DEF KeepScene, KeepClick
  <2>2. Stays(Now)
    BY <1>2, <2>1, Variants DEF Stays
  <2>3. ~Leaves
    <3>1. deferred' # deferred
      BY <1>2, <2>1, ListFacts DEF SceneTypeOK
    <3>2. QED BY <3>1 DEF Leaves
  <2>4. QED BY <1>1, <1>2, <1>3, <1>4, <2>1, <2>2, <2>3 DEF Lights
<1>10. CASE ReportClick
  <2>1. Leaves /\ UNCHANGED light /\ Now.kind = "button"
    BY <1>10 DEF ReportClick, Leaves, Visit
  <2>2. QED BY <1>1, <1>2, <1>3, <1>4, <2>1 DEF Lights
<1>11. QED BY <1>5, <1>6, <1>7, <1>8, <1>9, <1>10 DEF Visiting

(* A step is a call, a click, an undo, a visit, the beginning of a turn,   *)
(* or a second that passes.                                                *)
LEMMA Steps ==
  ASSUME SceneNext
  PROVE  \/ \E o \in Origins, at \in CallZones \X CallGroups, s \in CalledScenes :
              CallScene(o, at, s)
         \/ \E o \in Buttons, c \in Clicks : ButtonClick(o, c)
         \/ Undoing \/ TakeDeferred \/ Visiting \/ Tick
BY DEF SceneNext, Visiting, Undoing

(* a second makes the events older that are not due *)
LEMMA TickShape ==
  ASSUME SceneTypeOK, Tick
  PROVE  /\ deferred' \in Seq(DeferredEvent) /\ work' \in Seq(DeferredEvent)
         /\ DOMAIN deferred' = DOMAIN deferred /\ DOMAIN work' = DOMAIN work
         /\ \A i \in DOMAIN deferred : /\ Variant(deferred'[i], deferred[i])
                                       /\ deferred'[i].called = deferred[i].called
                                       /\ isDue(deferred[i]) => isDue(deferred'[i])
         /\ \A i \in DOMAIN work : /\ Variant(work'[i], work[i])
                                   /\ work'[i].called = work[i].called
                                   /\ isDue(work[i]) => isDue(work'[i])
         /\ UNCHANGED <<lastCalled, lastButOne, light, callLog, undos, reported,
                        filtered, notFound, disturbed>>
<1>1. ASSUME NEW q \in Seq(DeferredEvent)
      PROVE  /\ Older(q) \in Seq(DeferredEvent) /\ DOMAIN Older(q) = DOMAIN q
             /\ \A i \in DOMAIN q : /\ Variant(Older(q)[i], q[i])
                                    /\ Older(q)[i].called = q[i].called
                                    /\ isDue(q[i]) => isDue(Older(q)[i])
  <2>1. /\ DOMAIN q = 1 .. Len(q) /\ Len(q) \in Nat
        /\ \A i \in DOMAIN q : q[i] \in DeferredEvent
    BY ListFacts
  <2>2. DOMAIN Older(q) = DOMAIN q /\ Older(q) = [i \in 1 .. Len(q) |-> Older(q)[i]]
    BY <2>1 DEF Older
  <2>3. ASSUME NEW i \in DOMAIN q
        PROVE  /\ Older(q)[i] \in DeferredEvent /\ Variant(Older(q)[i], q[i])
               /\ Older(q)[i].called = q[i].called
               /\ isDue(q[i]) => isDue(Older(q)[i])
    <3>1. CASE isDue(q[i])
      BY <2>1, <3>1, Variants DEF Older
    <3>2. CASE ~isDue(q[i])
      <4>1. Older(q)[i] = [q[i] EXCEPT !.age = @ + 1]
        BY <3>2 DEF Older
      <4>2. QED BY <2>1, <3>2, <4>1, Variants
    <3>3. QED BY <3>1, <3>2
  <2>4. Older(q) \in Seq(DeferredEvent)
    BY <2>1, <2>2, <2>3, ListByElements
  <2>5. QED BY <2>2, <2>3, <2>4
<1>2. QED BY <1>1 DEF Tick, SceneTypeOK, HistoryOnly

(* Without a call the events of the list are the same, or what they stand  *)
(* for is reported or unknown.                                             *)
LEMMA SilentStep ==
  ASSUME SceneTypeOK, Undoing \/ TakeDeferred \/ Visiting \/ Tick
  PROVE  /\ UNCHANGED callLog
         /\ deferred' \in Seq(DeferredEvent) /\ work' \in Seq(DeferredEvent)
         /\ \A e \in AllDeferred' : \E d \in AllDeferred :
              /\ Variant(e, d)
              /\ e.called => d.called \/ (isDimSequence(e.id) /\ e.nos \subseteq reported')
         /\ \A d \in AllDeferred : \/ Visiting /\ Leaves /\ d = Now
                                   \/ \E e \in AllDeferred' : e.nos = d.nos
         /\ filtered \subseteq filtered' /\ filtered' \subseteq filtered \cup PendingNos
         /\ reported \subseteq reported' /\ reported' \subseteq reported \cup PendingNos
         /\ notFound \subseteq notFound' /\ notFound' \subseteq notFound \cup PendingNos
<1>a. /\ deferred \in Seq(DeferredEvent) /\ work \in Seq(DeferredEvent)
      /\ <<>> \in Seq(DeferredEvent) /\ DOMAIN <<>> = {}
  BY EmptySeq DEF SceneTypeOK
<1>b. \A d \in AllDeferred : Variant(d, d)
  BY DEF Variant
<1>1. CASE Undoing \/ TakeDeferred
  <2>1. work = <<>> /\ work' = deferred /\ deferred' = <<>>
        /\ UNCHANGED <<callLog, reported, filtered, notFound>>
    BY <1>1 DEF Undoing, TakeDeferred, UndoScene, EventIsNext, Waiting
  <2>2. AllDeferred' = AllDeferred
    BY <1>a, <2>1 DEF AllDeferred
  <2>3. QED BY <1>a, <1>b, <2>1, <2>2
<1>2. CASE Visiting
  <2>1. /\ work # <<>> /\ work' = Tail(work) /\ Now \in DeferredEvent /\ Now \in AllDeferred
        /\ UNCHANGED callLog
        /\ reported' \in {reported, reported \cup Now.nos}
        /\ notFound' \in {notFound, notFound \cup Now.nos}
        /\ filtered' \in {filtered, filtered \cup (Now.nos \ reported)}
        /\ Leaves \/ \E e \in DeferredEvent : Stays(e)
    BY <1>2, VisitShape
  <2>2. Now.nos \subseteq PendingNos
    BY <2>1 DEF PendingNos
  <2>3. /\ Now = work[1] /\ work' \in Seq(DeferredEvent) /\ Len(work) \in Nat
        /\ DOMAIN work = 1 .. Len(work) /\ DOMAIN work' = 1 .. Len(work) - 1
        /\ \A i \in DOMAIN work' : work'[i] = work[i + 1]
    BY <1>a, <2>1, ListFacts DEF Now
  <2>4. /\ \A i \in DOMAIN work' : \E j \in DOMAIN work : work'[i] = work[j]
        /\ \A j \in DOMAIN work : j # 1 => \E i \in DOMAIN work' : work'[i] = work[j]
    <3>1. \A i \in DOMAIN work' : i + 1 \in DOMAIN work
      BY <2>3
    <3>2. \A j \in DOMAIN work : j # 1 => j - 1 \in DOMAIN work' /\ (j - 1) + 1 = j
      BY <2>3
    <3>3. QED BY <2>3, <3>1, <3>2
  <2>5. CASE Leaves
    <3>1. deferred' = deferred
      BY <2>5 DEF Leaves
    <3>2. \A e \in AllDeferred' : e \in AllDeferred
      BY <2>4, <3>1 DEF AllDeferred
    <3>3. \A d \in AllDeferred : d = Now \/ d \in AllDeferred'
      BY <2>3, <2>4, <3>1 DEF AllDeferred
    <3>4. QED BY <1>2, <1>a, <1>b, <2>1, <2>2, <2>3, <2>5, <3>1, <3>2, <3>3
  <2>6. ASSUME NEW e \in DeferredEvent, Stays(e)
        PROVE  /\ deferred' \in Seq(DeferredEvent)
               /\ \A x \in AllDeferred' : \E d \in AllDeferred :
                    Variant(x, d) /\ (x.called => d.called \/ (isDimSequence(x.id) /\ x.nos \subseteq reported'))
               /\ \A d \in AllDeferred : \E x \in AllDeferred' : x.nos = d.nos
    <3>1. /\ deferred' = Append(deferred, e) /\ Variant(e, Now)
          /\ e.called => Now.called \/ (isDimSequence(e.id) /\ e.nos \subseteq reported')
      BY <2>6 DEF Stays
    <3>2. /\ deferred' \in Seq(DeferredEvent) /\ Len(deferred) \in Nat
          /\ DOMAIN deferred = 1 .. Len(deferred) /\ DOMAIN deferred' = 1 .. Len(deferred) + 1
          /\ deferred'[Len(deferred) + 1] = e
          /\ \A i \in DOMAIN deferred : deferred'[i] = deferred[i]
      BY <1>a, <3>1, ListFacts
    <3>3. /\ \A i \in DOMAIN deferred' : deferred'[i] = e \/ i \in DOMAIN deferred
          /\ \A i \in DOMAIN deferred : i \in DOMAIN deferred'
          /\ Len(deferred) + 1 \in DOMAIN deferred'
      BY <3>2
    <3>4. \A x \in AllDeferred' : x = e \/ x \in AllDeferred
      BY <2>4, <3>2, <3>3 DEF AllDeferred
    <3>5. e \in AllDeferred' /\ \A d \in AllDeferred : d = Now \/ d \in AllDeferred'
      BY <2>3, <2>4, <3>2, <3>3 DEF AllDeferred
    <3>6. e.nos = Now.nos
      BY <3>1 DEF Variant
    <3>7. \A x \in AllDeferred' : \E d \in AllDeferred :
                    Variant(x, d) /\ (x.called => d.called \/ (isDimSequence(x.id) /\ x.nos \subseteq reported'))
      BY <1>b, <2>1, <3>1, <3>4
    <3>8. QED BY <3>2, <3>5, <3>6, <3>7
  <2>7. reported \subseteq reported' /\ reported' \subseteq reported \cup PendingNos
    BY <2>1, <2>2
  <2>8. notFound \subseteq notFound' /\ notFound' \subseteq notFound \cup PendingNos
    BY <2>1, <2>2
  <2>11. filtered \subseteq filtered' /\ filtered' \subseteq filtered \cup PendingNos
    BY <2>1, <2>2
  <2>9. CASE \E e \in DeferredEvent : Stays(e)
    BY <2>1, <2>3, <2>6, <2>7, <2>8, <2>9, <2>11
  <2>10. QED BY <2>1, <2>5, <2>9
<1>3. CASE Tick
  <2>1. /\ deferred' \in Seq(DeferredEvent) /\ work' \in Seq(DeferredEvent)
        /\ DOMAIN deferred' = DOMAIN deferred /\ DOMAIN work' = DOMAIN work
        /\ \A i \in DOMAIN deferred : /\ Variant(deferred'[i], deferred[i])
                                      /\ deferred'[i].called = deferred[i].called
        /\ \A i \in DOMAIN work : /\ Variant(work'[i], work[i])
                                  /\ work'[i].called = work[i].called
        /\ UNCHANGED <<callLog, reported, filtered, notFound>>
    BY <1>3, TickShape
  <2>2. \A e \in AllDeferred' : \E d \in AllDeferred : Variant(e, d) /\ e.called = d.called
    BY <2>1 DEF AllDeferred
  <2>3. \A d \in AllDeferred : \E e \in AllDeferred' : Variant(e, d)
    BY <2>1 DEF AllDeferred
  <2>4. QED BY <2>1, <2>2, <2>3 DEF Variant
<1>4. QED BY <1>1, <1>2, <1>3

(* A call becomes an event or joins one; the others stand for what they    *)
(* stood for before.                                                       *)
LEMMA SceneStep ==
  ASSUME SceneTypeOK, NEW o \in Origins, NEW at \in CallZones \X CallGroups,
         NEW s \in CalledScenes, CallScene(o, at, s)
  PROVE  /\ work' \in Seq(DeferredEvent)
         /\ \A e \in AllDeferred' :
              \/ \E d \in AllDeferred : Variant(e, d) /\ e.called = d.called
              \/ \E age \in {0, Timeout} : e = New("scene", o, at, s, age)
              \/ \E i \in Followed(o, at, s) : /\ deferred[i] \in AllDeferred /\ e = Absorb(deferred[i], s)
                                              /\ ~passThrough(o, at, s)
         /\ \A d \in AllDeferred : \E e \in AllDeferred' : d.nos \subseteq e.nos
         /\ \E e \in AllDeferred' : CallNumber \in e.nos
<1>0. work = <<>> /\ deferred' = <<>> /\ CallNumber \in CallNo /\ s \in 0 .. 127
  BY SceneShape, SceneAssumption DEF Begins
<1>1. AllDeferred = {deferred[i] : i \in DOMAIN deferred} /\ AllDeferred' = {work'[i] : i \in DOMAIN work'}
  BY <1>0, EmptySeq DEF AllDeferred
<1>2. \A i \in DOMAIN deferred : deferred[i] \in DeferredEvent /\ Variant(deferred[i], deferred[i])
  BY Listed, Variants
<1>3. \A age \in {0, Timeout} : CallNumber \in New("scene", o, at, s, age).nos
  BY DEF New, CallNumber
<1>4. CASE passThrough(o, at, s) /\ Adds(Flushed(o), New("scene", o, at, s, Timeout))
  <2>1. \A i \in DOMAIN deferred : Variant(work'[i], deferred[i]) /\ work'[i].called = deferred[i].called
    BY <1>2, <1>4, Variants DEF Adds, Flushed
  <2>2. QED BY <1>1, <1>3, <1>4, <2>1 DEF Adds, Variant
<1>5. CASE Adds(deferred, New("scene", o, at, s, 0))
  BY <1>1, <1>2, <1>3, <1>5 DEF Adds
<1>6. CASE /\ First(Followed(o, at, s)) \in Followed(o, at, s) /\ ~passThrough(o, at, s)
           /\ Joins(First(Followed(o, at, s)), Absorb(deferred[First(Followed(o, at, s))], s))
  <2> DEFINE k == First(Followed(o, at, s))
  <2>1. Joins(k, Absorb(deferred[k], s)) /\ k \in Followed(o, at, s)
    BY <1>6
  <2>2. k \in DOMAIN deferred /\ deferred[k] \in DeferredEvent
    BY <1>2, <2>1 DEF Joins
  <2>3. Absorb(deferred[k], s).nos = deferred[k].nos \cup {CallNumber}
    BY <1>0, <2>2, JoinedEvents DEF CallNumber
  <2> DEFINE x == Absorb(deferred[k], s)
  <2>4. work'[k] = x /\ x.nos = deferred[k].nos \cup {CallNumber}
    BY <2>1, <2>3 DEF Joins
  <2> HIDE DEF k, x
  <2>5. /\ \A e \in AllDeferred' : e \in AllDeferred \/ e = x
        /\ \A d \in AllDeferred : d \in AllDeferred' \/ d = deferred[k]
        /\ x \in AllDeferred' /\ deferred[k] \in AllDeferred
        /\ work' \in Seq(DeferredEvent)
    BY <1>1, <2>1, <2>2, <2>4 DEF Joins
  <2>6. \A e \in AllDeferred' :
          \/ \E d \in AllDeferred : Variant(e, d) /\ e.called = d.called
          \/ \E i \in Followed(o, at, s) : /\ deferred[i] \in AllDeferred /\ e = Absorb(deferred[i], s)
                                          /\ ~passThrough(o, at, s)
    BY <1>6, <2>1, <2>5 DEF Variant, x
  <2>7. /\ \A d \in AllDeferred : \E e \in AllDeferred' : d.nos \subseteq e.nos
        /\ \E e \in AllDeferred' : CallNumber \in e.nos
    BY <2>4, <2>5
  <2>8. QED BY <2>5, <2>6, <2>7
<1>7. CASE Followed(o, at, s) = {} /\ Adds(deferred, New("scene", o, at, s, 0))
  BY <1>5, <1>7
<1>8. QED BY <1>4, <1>6, <1>7, SceneShape

(* so does a click *)
LEMMA ClickStep ==
  ASSUME SceneTypeOK, NEW o \in Buttons, NEW c \in Clicks, ButtonClick(o, c)
  PROVE  /\ work' \in Seq(DeferredEvent)
         /\ \A e \in AllDeferred' :
              \/ e \in AllDeferred
              \/ \E age \in {0, Timeout} : e = New("button", o, << 0 >>, c, age)
              \/ \E i \in FollowedClick(o, c) :
                   deferred[i] \in AllDeferred /\ e = AbsorbClick(deferred[i], c)
         /\ \A d \in AllDeferred : \E e \in AllDeferred' : d.nos \subseteq e.nos
         /\ \E e \in AllDeferred' : CallNumber \in e.nos
<1>0. work = <<>> /\ deferred' = <<>> /\ CallNumber \in CallNo /\ c \in 0 .. 127
  BY ClickShape DEF Begins
<1>1. AllDeferred = {deferred[i] : i \in DOMAIN deferred} /\ AllDeferred' = {work'[i] : i \in DOMAIN work'}
  BY <1>0, EmptySeq DEF AllDeferred
<1>2. \A i \in DOMAIN deferred : deferred[i] \in DeferredEvent
  BY Listed
<1>3. \A age \in {0, Timeout} : CallNumber \in New("button", o, << 0 >>, c, age).nos
  BY DEF New, CallNumber
<1>4. ASSUME NEW age \in {0, Timeout}, Adds(deferred, New("button", o, << 0 >>, c, age))
      PROVE  /\ \A e \in AllDeferred' : e \in AllDeferred \/ e = New("button", o, << 0 >>, c, age)
             /\ \A d \in AllDeferred : d \in AllDeferred'
             /\ New("button", o, << 0 >>, c, age) \in AllDeferred'
             /\ work' \in Seq(DeferredEvent)
  BY <1>1, <1>4 DEF Adds
<1>5. ASSUME NEW k \in FollowedClick(o, c), Joins(k, AbsorbClick(deferred[k], c))
      PROVE  /\ \A e \in AllDeferred' : e \in AllDeferred \/ e = AbsorbClick(deferred[k], c)
             /\ deferred[k] \in AllDeferred
             /\ \A d \in AllDeferred : d \in AllDeferred' \/ d = deferred[k]
             /\ AbsorbClick(deferred[k], c) \in AllDeferred'
             /\ deferred[k].nos \subseteq AbsorbClick(deferred[k], c).nos
             /\ CallNumber \in AbsorbClick(deferred[k], c).nos
             /\ work' \in Seq(DeferredEvent)
  <2>1. k \in DOMAIN deferred /\ deferred[k] \in DeferredEvent
    BY <1>2, <1>5 DEF Joins
  <2>2. AbsorbClick(deferred[k], c).nos = deferred[k].nos \cup {CallNumber}
    BY <1>0, <2>1, JoinedEvents DEF CallNumber
  <2>3. QED BY <1>1, <1>5, <2>1, <2>2 DEF Joins
<1>6. CASE \E age \in {0, Timeout} : Adds(deferred, New("button", o, << 0 >>, c, age))
  BY <1>3, <1>4, <1>6
<1>7. CASE \E k \in FollowedClick(o, c) : Joins(k, AbsorbClick(deferred[k], c))
  BY <1>5, <1>7
<1>8. QED BY <1>6, <1>7, ClickShape

(***************************************************************************)
(* Types                                                                   *)
(***************************************************************************)

(* a state that follows a scene *)
LEMMA OnStates ==
  ASSUME SceneTypeOK, NEW p \in Lit, NEW s
  PROVE  /\ isOnScene(p[2], s) \in {"on", "off", "dontcare"}
         /\ OnState(p, s) \in {"unknown", "on", "off"}
<1>1. light[p] \in {"unknown", "on", "off"}
  BY DEF SceneTypeOK
<1>2. isOnScene(p[2], s) \in {"on", "off", "dontcare"}
  BY DEF isOnScene
<1>3. QED BY <1>1, <1>2 DEF OnState

(* Every variable keeps its type. *)
LEMMA TypeStep ==
  ASSUME SceneTypeOK, EventsOK, [SceneNext]_sceneVars
  PROVE  SceneTypeOK'
<1>t. /\ lastCalled \in [Places -> 0 .. 127] /\ lastButOne \in [Places -> 0 .. 127]
      /\ light \in [Lit -> {"unknown", "on", "off"}] /\ callLog \in Seq(LogEntry)
      /\ undos \in Nat /\ Len(callLog) + undos <= MaxCalls /\ disturbed \subseteq Lit
      /\ reported \subseteq DOMAIN callLog /\ notFound \subseteq DOMAIN callLog
      /\ filtered \subseteq DOMAIN callLog
      /\ <<>> \in Seq(DeferredEvent) /\ deferred \in Seq(DeferredEvent) /\ work \in Seq(DeferredEvent)
  BY EmptySeq DEF SceneTypeOK, LogEntry
<1>n. MaxCalls \in Nat /\ Len(callLog) \in Nat
  BY <1>t, ListFacts, SceneAssumption
<1>p. PendingNos \subseteq DOMAIN callLog
  BY DEF PendingNos, EventsOK, Stands
<1>1. ASSUME NEW o \in Origins, NEW at \in CallZones \X CallGroups, NEW s \in CalledScenes,
             CallScene(o, at, s)
      PROVE  SceneTypeOK'
  <2>1. Begins("scene", o, at, s) /\ work' \in Seq(DeferredEvent) /\ s \in 0 .. 127
    BY <1>1, SceneShape, SceneStep, SceneAssumption
  <2>2. lastCalled' \in [Places -> 0 .. 127] /\ lastButOne' \in [Places -> 0 .. 127]
    BY <1>1, <1>t, <2>1 DEF CallScene
  <2>3. disturbed' \subseteq Lit /\ UNCHANGED light
    BY <1>1, <1>t DEF CallScene
  <2>4. Len(callLog') + undos' <= MaxCalls
    BY <1>1, <1>t, <1>n, <2>1 DEF Begins, CallNumber, CallScene, EventIsNext
  <2>5. reported' \subseteq DOMAIN callLog' /\ notFound' \subseteq DOMAIN callLog' /\ filtered' \subseteq DOMAIN callLog'
    BY <1>t, <2>1 DEF Begins
  <2>6. callLog' \in Seq(LogEntry) /\ undos' \in Nat /\ deferred' \in Seq(DeferredEvent)
    BY <1>t, <2>1 DEF Begins
  <2>7. QED BY <1>t, <2>1, <2>2, <2>3, <2>4, <2>5, <2>6 DEF SceneTypeOK, LogEntry
<1>2. ASSUME NEW o \in Buttons, NEW c \in Clicks, ButtonClick(o, c)
      PROVE  SceneTypeOK'
  <2>1. Begins("button", o, << 0 >>, c) /\ work' \in Seq(DeferredEvent)
    BY <1>2, ClickShape, ClickStep
  <2>2. UNCHANGED <<lastCalled, lastButOne, light, disturbed>>
    BY <1>2 DEF ButtonClick
  <2>4. Len(callLog') + undos' <= MaxCalls
    BY <1>2, <1>t, <1>n, <2>1 DEF Begins, CallNumber, ButtonClick, EventIsNext
  <2>5. reported' \subseteq DOMAIN callLog' /\ notFound' \subseteq DOMAIN callLog' /\ filtered' \subseteq DOMAIN callLog'
    BY <1>t, <2>1 DEF Begins
  <2>6. callLog' \in Seq(LogEntry) /\ undos' \in Nat /\ deferred' \in Seq(DeferredEvent)
    BY <1>t, <2>1 DEF Begins
  <2>7. QED BY <1>t, <2>1, <2>2, <2>4, <2>5, <2>6 DEF SceneTypeOK, LogEntry
<1>3. CASE Undoing \/ TakeDeferred \/ Visiting \/ Tick
  <2>1. /\ UNCHANGED callLog /\ deferred' \in Seq(DeferredEvent) /\ work' \in Seq(DeferredEvent)
        /\ reported' \subseteq DOMAIN callLog' /\ notFound' \subseteq DOMAIN callLog' /\ filtered' \subseteq DOMAIN callLog'
    BY <1>3, <1>p, <1>t, SilentStep
  <2>2. CASE Undoing
    <3>1. PICK at \in CallZones \X CallGroups, s \in CalledScenes \cup {LastScene} : UndoScene(at, s)
      BY <2>2 DEF Undoing
    <3>2. lastCalled' \in [Places -> 0 .. 127] /\ UNCHANGED lastButOne
      BY <3>1, <1>t DEF UndoScene
    <3>3. light' \in [Lit -> {"unknown", "on", "off"}]
      BY <3>1, <1>t, OnStates DEF UndoScene
    <3>4. undos' = undos + 1 /\ Len(callLog) + undos < MaxCalls /\ disturbed' \subseteq Lit
      BY <3>1, <1>t DEF UndoScene, EventIsNext
    <3>5. undos' \in Nat /\ Len(callLog') + undos' <= MaxCalls
      BY <1>t, <1>n, <2>1, <3>4
    <3>6. QED BY <1>t, <2>1, <3>2, <3>3, <3>4, <3>5 DEF SceneTypeOK, LogEntry
  <2>3. CASE TakeDeferred \/ Tick
    <3>1. UNCHANGED <<lastCalled, lastButOne, light, undos, disturbed>>
      BY <2>3 DEF TakeDeferred, Tick, HistoryOnly
    <3>2. QED BY <1>t, <2>1, <3>1 DEF SceneTypeOK, LogEntry
  <2>4. CASE Visiting
    <3>1. UNCHANGED <<lastCalled, lastButOne, undos, disturbed>> /\ Lights
      BY <2>4, VisitShape
    <3>2. light' \in [Lit -> {"unknown", "on", "off"}]
      BY <1>t, <3>1, OnStates DEF Lights
    <3>3. QED BY <1>t, <2>1, <3>1, <3>2 DEF SceneTypeOK, LogEntry
  <2>5. QED BY <1>3, <2>2, <2>3, <2>4
<1>4. CASE UNCHANGED sceneVars
  BY <1>4 DEF sceneVars, SceneTypeOK
<1>5. QED BY <1>1, <1>2, <1>3, <1>4, Steps

(***************************************************************************)
(* What the events stand for                                               *)
(***************************************************************************)

(* the log keeps its calls *)
LogKept == /\ DOMAIN callLog \subseteq DOMAIN callLog'
           /\ \A n \in DOMAIN callLog : callLog'[n] = callLog[n]

(* No step forgets a call or changes one. *)
LEMMA LogStep ==
  ASSUME SceneTypeOK, [SceneNext]_sceneVars
  PROVE  LogKept
<1>1. ASSUME NEW o \in Origins, NEW at \in CallZones \X CallGroups, NEW s \in CalledScenes,
             CallScene(o, at, s)
      PROVE  LogKept
  BY <1>1, SceneShape DEF Begins, LogKept
<1>2. ASSUME NEW o \in Buttons, NEW c \in Clicks, ButtonClick(o, c)
      PROVE  LogKept
  BY <1>2, ClickShape DEF Begins, LogKept
<1>3. CASE Undoing \/ TakeDeferred \/ Visiting \/ Tick
  BY <1>3, SilentStep DEF LogKept
<1>4. CASE UNCHANGED sceneVars
  BY <1>4 DEF sceneVars, LogKept
<1>5. QED BY <1>1, <1>2, <1>3, <1>4, Steps

(* a variant of an event stands for the same calls, counted as before *)
LEMMA VariantStands ==
  ASSUME LogKept, NEW e, NEW d, Variant(e, d), Stands(d), Counted(d)
  PROVE  (Stands(e) /\ Counted(e))'
<1>1. e.nos = d.nos /\ e.kind = d.kind /\ e.origin = d.origin /\ e.id = d.id /\ e.hold = d.hold
  BY DEF Variant
<1>2. e.nos \subseteq DOMAIN callLog /\ \A n \in e.nos : callLog'[n] = callLog[n]
  BY <1>1 DEF Stands, LogKept
<1>3. Repeats(e)' = Repeats(d) /\ Started(e)' = Started(d)
  BY <1>1, <1>2 DEF Repeats, Started
<1>4. Stands(e)'
  BY <1>1, <1>2 DEF Stands, LogKept
<1>5. Counted(e)'
  BY <1>1, <1>3 DEF Counted
<1>6. QED BY <1>4, <1>5

(* an event for one call stands for it; its repetitions are not counted yet *)
LEMMA NewStands ==
  ASSUME SceneTypeOK, NEW k \in {"scene", "button"}, NEW o, NEW at, NEW id, NEW age,
         Begins(k, o, at, id), NEW e, e = New(k, o, at, id, age)
  PROVE  (Stands(e) /\ Counted(e))'
<1>1. /\ e.nos = {CallNumber} /\ e.kind = k /\ e.origin = o /\ e.id = id /\ e.hold = 0
      /\ CallNumber \in DOMAIN callLog'
      /\ callLog'[CallNumber] = [kind |-> k, origin |-> o, at |-> at, id |-> id]
  BY DEF New, CallNumber, Begins
<1>2. callLog'[CallNumber].id = id /\ callLog'[CallNumber].kind = k /\ callLog'[CallNumber].origin = o
  BY <1>1
<1>3. Stands(e)'
  BY <1>1, <1>2 DEF Stands
<1>4. Repeats(e)' = IF id \in {HR, HE} THEN {CallNumber} ELSE {}
  BY <1>1, <1>2 DEF Repeats
<1>5. Started(e)' <=> id = HS
  BY <1>1, <1>2 DEF Started
<1>6. Cardinality({CallNumber}) = 1
  BY FS_Singleton
<1>7. Counted(e)'
  <2>1. CASE id \in {HR, HE}
    <3>1. ~Started(e)' /\ Cardinality(Repeats(e)') = 1
      BY <1>4, <1>5, <1>6, <2>1 DEF HS, HR, HE
    <3>2. id # HS
      BY <2>1 DEF HS, HR, HE
    <3>3. QED BY <1>1, <3>1, <3>2 DEF Counted
  <2>2. CASE id \notin {HR, HE}
    BY <1>1, <1>4, <1>5, <2>2 DEF Counted
  <2>3. QED BY <2>1, <2>2
<1>8. QED BY <1>3, <1>7

(* a scene that follows a scene stands for both; an origin with a name is  *)
(* the same                                                                *)
LEMMA AbsorbStands ==
  ASSUME SceneTypeOK, EventsOK, NEW o \in Origins, NEW at \in Places, NEW s \in CalledScenes,
         Begins("scene", o, at, s), NEW i \in Followed(o, at, s), deferred[i] \in AllDeferred,
         NEW e, e = Absorb(deferred[i], s)
  PROVE  (Stands(e) /\ Counted(e))'
<1>1. Follows(o, at, s, deferred[i]) /\ deferred[i] \in DeferredEvent /\ Stands(deferred[i])
  BY Listed DEF EventsOK, Followed
<1>2. s \in 0 .. 127 /\ Len(callLog) + 1 \in CallNo
  BY SceneAssumption DEF Begins, CallNumber
<1>3. /\ e.kind = "scene" /\ e.origin = deferred[i].origin
      /\ e.nos = deferred[i].nos \cup {CallNumber}
  BY <1>1, <1>2, JoinedEvents DEF Follows, CallNumber
<1>4. Named(o) => e.origin = o
  <2>1. /\ deferred[i].origin \in Origins /\ deferred[i].origin.source = o.source
        /\ o.device \in {0, deferred[i].origin.device}
    BY <1>1 DEF Follows, DeferredEvent
  <2>2. Named(o) => deferred[i].origin.device = o.device
    BY <2>1, SceneAssumption DEF Named
  <2>3. QED BY <1>3, <2>1, <2>2, SceneAssumption
<1>5. /\ CallNumber \in DOMAIN callLog' /\ DOMAIN callLog \subseteq DOMAIN callLog'
      /\ callLog'[CallNumber].kind = "scene" /\ callLog'[CallNumber].origin = o
      /\ \A n \in DOMAIN callLog : callLog'[n] = callLog[n]
  BY DEF Begins
<1>6. /\ deferred[i].kind = "scene" /\ deferred[i].nos \subseteq DOMAIN callLog
      /\ \A n \in deferred[i].nos :
           /\ callLog[n].kind = "scene"
           /\ Named(callLog[n].origin) => deferred[i].origin = callLog[n].origin
  BY <1>1 DEF Follows, Stands
<1>7. Stands(e)'
  BY <1>3, <1>4, <1>5, <1>6 DEF Stands
<1>8. Counted(e)'
  BY <1>3 DEF Counted
<1>9. QED BY <1>7, <1>8

(* a click that follows a click stands for both, and is counted when it is *)
(* a repetition or the end of one                                          *)
LEMMA AbsorbClickStands ==
  ASSUME SceneTypeOK, EventsOK, NEW o \in Origins, NEW c \in 0 .. 127,
         Begins("button", o, << 0 >>, c), NEW i \in FollowedClick(o, c), deferred[i] \in AllDeferred,
         NEW e, e = AbsorbClick(deferred[i], c)
  PROVE  (Stands(e) /\ Counted(e))'
<1> DEFINE d == deferred[i]
<1>1. /\ d.kind = "button" /\ d.origin = o
      /\ Holding(d, c) \/ NextTip(d, c)
      /\ d \in DeferredEvent /\ Stands(d) /\ Counted(d)
  BY Listed DEF EventsOK, FollowedClick
<1>2. Len(callLog) + 1 \in CallNo
  BY DEF Begins, CallNumber
<1>3. /\ e.kind = "button" /\ e.origin = o /\ e.id = c
      /\ e.nos = d.nos \cup {CallNumber}
      /\ e.hold = IF Holding(d, c) THEN d.hold + 1 ELSE d.hold
  BY <1>1, <1>2, JoinedEvents DEF CallNumber
<1>5. /\ CallNumber \in DOMAIN callLog' /\ DOMAIN callLog \subseteq DOMAIN callLog'
      /\ CallNumber \notin DOMAIN callLog
      /\ callLog'[CallNumber].kind = "button" /\ callLog'[CallNumber].origin = o
      /\ callLog'[CallNumber].id = c
      /\ \A n \in DOMAIN callLog : callLog'[n] = callLog[n]
  BY DEF Begins
<1>6. /\ d.nos \subseteq DOMAIN callLog /\ d.nos \subseteq CallNo
      /\ \A n \in d.nos : callLog[n].kind = "button"
      /\ \A n \in d.nos : callLog'[n] = callLog[n]
  BY <1>1, <1>5 DEF Stands, DeferredEvent
<1> HIDE DEF d
<1>7. Stands(e)'
  <2>1. \A n \in d.nos : Named(callLog[n].origin) => o = callLog[n].origin
    BY <1>1 DEF Stands
  <2>2. QED BY <1>3, <1>5, <1>6, <2>1 DEF Stands
<1>8. CASE Holding(d, c)
  <2>1. c \in {HR, HE} /\ c # HS /\ d.id \in {HS, HR}
    BY <1>8 DEF Holding, HS, HR, HE
  <2>2. Repeats(e)' = Repeats(d) \cup {CallNumber} /\ CallNumber \notin Repeats(d)
    BY <1>3, <1>5, <1>6, <2>1 DEF Repeats
  <2>3. IsFiniteSet(Repeats(d))
    <3>1. MaxCalls \in Nat
      BY SceneAssumption
    <3>2. IsFiniteSet(CallNo)
      BY <3>1, FS_Interval DEF CallNo
    <3>3. Repeats(d) \subseteq CallNo
      BY <1>6 DEF Repeats
    <3>4. QED BY <3>2, <3>3, FS_Subset
  <2>4. /\ Cardinality(Repeats(d)) \in Nat
        /\ Cardinality(Repeats(e)') = Cardinality(Repeats(d)) + 1
    BY <2>2, <2>3, FS_AddElement, FS_CardinalityType
  <2>5. Started(e)' <=> Started(d)
    BY <1>3, <1>5, <1>6, <2>1 DEF Started
  <2>6. CASE d.id = HS
    <3>1. d.hold = 0 /\ Repeats(d) = {} /\ Started(d)
      BY <1>1, <2>6 DEF Counted
    <3>2. Cardinality(Repeats(d)) = 0
      BY <3>1, FS_EmptySet
    <3>3. e.hold = Cardinality(Repeats(e)') - (IF Started(e)' THEN 0 ELSE 1)
      BY <1>3, <1>8, <2>4, <2>5, <3>1, <3>2
    <3>4. QED BY <1>3, <1>7, <2>1, <3>3 DEF Counted
  <2>7. CASE d.id = HR
    <3>1. d.hold = Cardinality(Repeats(d)) - (IF Started(d) THEN 0 ELSE 1)
      BY <1>1, <2>7 DEF Counted
    <3>2. e.hold = Cardinality(Repeats(e)') - (IF Started(e)' THEN 0 ELSE 1)
      BY <1>3, <1>8, <2>4, <2>5, <3>1
    <3>3. QED BY <1>3, <1>7, <2>1, <3>2 DEF Counted
  <2>8. QED BY <2>1, <2>6, <2>7
<1>9. CASE ~Holding(d, c)
  <2>1. c \notin {HS, HR, HE}
    BY <1>1, <1>9 DEF NextTip, HS, HR, HE
  <2>2. QED BY <1>3, <1>7, <2>1 DEF Counted
<1>10. QED BY <1>8, <1>9

(* The events stand for calls and clicks of their kind. *)
LEMMA EventsStep ==
  ASSUME SceneTypeOK, EventsOK, [SceneNext]_sceneVars
  PROVE  EventsOK'
<1>0. LogKept
  BY LogStep
<1> SUFFICES ASSUME NEW e \in AllDeferred' PROVE (Stands(e) /\ Counted(e))'
  BY DEF EventsOK
<1>1. ASSUME NEW o \in Origins, NEW at \in CallZones \X CallGroups, NEW s \in CalledScenes,
             CallScene(o, at, s)
      PROVE  (Stands(e) /\ Counted(e))'
  <2>1. at \in Places /\ Begins("scene", o, at, s)
    BY <1>1, SceneShape, SceneAssumption DEF Places, ZoneIDs, GroupIDs
  <2>2. CASE \E d \in AllDeferred : Variant(e, d)
    BY <1>0, <2>2, VariantStands DEF EventsOK
  <2>3. CASE \E age \in {0, Timeout} : e = New("scene", o, at, s, age)
    BY <2>1, <2>3, NewStands
  <2>4. CASE \E i \in Followed(o, at, s) : deferred[i] \in AllDeferred /\ e = Absorb(deferred[i], s)
    BY <2>1, <2>4, AbsorbStands
  <2>5. QED BY <1>1, <2>2, <2>3, <2>4, SceneStep
<1>2. ASSUME NEW o \in Buttons, NEW c \in Clicks, ButtonClick(o, c)
      PROVE  (Stands(e) /\ Counted(e))'
  <2>1. o \in Origins /\ c \in 0 .. 127 /\ Begins("button", o, << 0 >>, c)
    BY <1>2, ClickShape
  <2>2. CASE e \in AllDeferred
    BY <1>0, <2>2, VariantStands DEF EventsOK, Variant
  <2>3. CASE \E age \in {0, Timeout} : e = New("button", o, << 0 >>, c, age)
    BY <2>1, <2>3, NewStands
  <2>4. CASE \E i \in FollowedClick(o, c) :
               deferred[i] \in AllDeferred /\ e = AbsorbClick(deferred[i], c)
    BY <2>1, <2>4, AbsorbClickStands
  <2>5. QED BY <1>2, <2>2, <2>3, <2>4, ClickStep
<1>3. CASE Undoing \/ TakeDeferred \/ Visiting \/ Tick
  <2>1. PICK d \in AllDeferred : Variant(e, d)
    BY <1>3, SilentStep
  <2>2. QED BY <1>0, <2>1, VariantStands DEF EventsOK
<1>4. CASE UNCHANGED sceneVars
  <2>1. e \in AllDeferred
    BY <1>4 DEF sceneVars, AllDeferred
  <2>2. QED BY <1>0, <2>1, VariantStands DEF EventsOK, Variant
<1>5. QED BY <1>1, <1>2, <1>3, <1>4, Steps

(* a variant of an event, raised before its time or not *)
LEMMA VariantDims ==
  ASSUME SceneTypeOK, EventsOK, DimmingOK, LogKept, reported \subseteq reported',
         NEW e, NEW d \in AllDeferred, Variant(e, d),
         e.called => d.called \/ (isDimSequence(e.id) /\ e.nos \subseteq reported')
  PROVE  Dimming(e)'
<1>1. /\ e.nos = d.nos /\ e.kind = d.kind /\ e.origin = d.origin /\ e.at = d.at /\ e.id = d.id
      /\ d.nos \subseteq DOMAIN callLog /\ Dimming(d)
  BY DEF Variant, EventsOK, Stands, DimmingOK
<1>2. \A n \in e.nos : callLog'[n] = callLog[n]
  BY <1>1 DEF LogKept
<1> SUFFICES ASSUME e.kind = "scene" PROVE (Sequence(e) /\ Shown(e) /\ (e.called => Dimmed(e)))'
  BY DEF Dimming
<1>3. Sequence(d) /\ Shown(d) /\ (d.called => Dimmed(d))
  BY <1>1 DEF Dimming
<1>4. Sequence(e)' /\ Shown(e)'
  BY <1>1, <1>2, <1>3 DEF Sequence, Shown
<1>5. CASE d.called
  BY <1>1, <1>2, <1>3, <1>5, <1>4 DEF Dimmed
<1>6. CASE isDimSequence(e.id) /\ e.nos \subseteq reported'
  <2>1. PICK m \in e.nos : callLog'[m].id = e.id
    BY <1>4 DEF Shown
  <2>2. Dimmed(e)'
    BY <1>6, <2>1 DEF Dimmed
  <2>3. QED BY <1>4, <2>2
<1>7. QED BY <1>4, <1>5, <1>6

(* A scene's event is of one place and dSM; a call that joins one that was *)
(* raised as dimming comes after the dimming.                              *)
LEMMA DimmingStep ==
  ASSUME SceneTypeOK, EventsOK, DimmingOK, [SceneNext]_sceneVars
  PROVE  DimmingOK'
<1>0. LogKept
  BY LogStep
<1> SUFFICES ASSUME NEW e \in AllDeferred' PROVE Dimming(e)'
  BY DEF DimmingOK
<1>b. ASSUME e.kind = "button" PROVE Dimming(e)'
  BY <1>b DEF Dimming
<1>1. ASSUME NEW o \in Origins, NEW at \in CallZones \X CallGroups, NEW s \in CalledScenes,
             CallScene(o, at, s)
      PROVE  Dimming(e)'
  <2>1. /\ Begins("scene", o, at, s) /\ s \in 0 .. 127 /\ Len(callLog) + 1 \in CallNo
        /\ UNCHANGED reported
    BY <1>1, SceneShape, SceneAssumption DEF Begins, CallNumber
  <2>2. CASE \E d \in AllDeferred : Variant(e, d) /\ e.called = d.called
    BY <1>0, <2>1, <2>2, VariantDims
  <2>a. PICK c : c = CallNumber
    OBVIOUS
  <2>b. /\ callLog'[c].at = at /\ callLog'[c].origin = o /\ callLog'[c].id = s
        /\ \A n \in DOMAIN callLog : n < c
    BY <2>1, <2>a, Listed DEF Begins, CallNumber
  <2>3. CASE \E age \in {0, Timeout} : e = New("scene", o, at, s, age)
    <3>1. e.nos = {c} /\ e.at = at /\ e.origin = o /\ e.id = s /\ ~e.called
      BY <2>a, <2>3 DEF New, CallNumber
    <3>2. QED BY <2>b, <3>1 DEF Dimming, Sequence, Shown
  <2>4. ASSUME NEW i \in Followed(o, at, s), deferred[i] \in AllDeferred, e = Absorb(deferred[i], s)
        PROVE  Dimming(e)'
    <3>d. PICK d \in AllDeferred : d = deferred[i]
      BY <2>4
    <3>1. /\ d \in DeferredEvent /\ d.kind = "scene" /\ d.at = at /\ d.origin.source = o.source
          /\ d.nos \subseteq DOMAIN callLog
      BY <2>4, <3>d, Listed DEF Followed, Follows, EventsOK, Stands
    <3>2. /\ e.origin = d.origin /\ e.at = at /\ e.called = d.called /\ e.nos = d.nos \cup {c}
          /\ e.id \in {d.id, s}
      BY <2>1, <2>4, <2>a, <3>d, <3>1, JoinedEvents DEF CallNumber
    <3>3. Sequence(d) /\ Shown(d) /\ (d.called => Dimmed(d))
      BY <3>1 DEF DimmingOK, Dimming
    <3>4. \A n \in d.nos : callLog'[n] = callLog[n]
      BY <1>0, <3>1 DEF LogKept
    <3>5. Sequence(e)' /\ Shown(e)'
      BY <2>b, <3>1, <3>2, <3>3, <3>4 DEF Sequence, Shown
    <3>6. ASSUME e.called PROVE Dimmed(e)'
      <4>1. PICK m \in d.nos \cap reported : /\ isDimSequence(callLog[m].id)
                                             /\ \A n \in d.nos \ reported : m < n
        BY <3>2, <3>3, <3>6 DEF Dimmed
      <4>2. m \in e.nos \cap reported' /\ isDimSequence(callLog'[m].id) /\ m < c
        BY <2>1, <2>b, <3>1, <3>2, <3>4, <4>1
      <4>3. \A n \in e.nos \ reported' : m < n
        BY <2>1, <3>2, <4>1, <4>2
      <4>4. QED BY <4>2, <4>3 DEF Dimmed
    <3>7. QED BY <3>5, <3>6 DEF Dimming
  <2>5. QED BY <1>1, <2>2, <2>3, <2>4, SceneStep
<1>2. ASSUME NEW o \in Buttons, NEW c \in Clicks, ButtonClick(o, c)
      PROVE  Dimming(e)'
  <2>1. Begins("button", o, << 0 >>, c) /\ c \in 0 .. 127 /\ Len(callLog) + 1 \in CallNo
        /\ UNCHANGED reported
    BY <1>2, ClickShape DEF Begins, CallNumber
  <2>2. CASE e \in AllDeferred
    BY <1>0, <2>1, <2>2, VariantDims DEF Variant
  <2>3. CASE \E age \in {0, Timeout} : e = New("button", o, << 0 >>, c, age)
    BY <1>b, <2>3 DEF New
  <2>4. ASSUME NEW i \in FollowedClick(o, c), deferred[i] \in AllDeferred,
               e = AbsorbClick(deferred[i], c)
        PROVE  Dimming(e)'
    <3>1. deferred[i].kind = "button" /\ deferred[i] \in DeferredEvent
      BY <2>4, Listed DEF FollowedClick
    <3>2. e.kind = "button"
      BY <2>1, <2>4, <3>1, JoinedEvents
    <3>3. QED BY <1>b, <3>2
  <2>5. QED BY <1>2, <2>2, <2>3, <2>4, ClickStep
<1>3. CASE Undoing \/ TakeDeferred \/ Visiting \/ Tick
  BY <1>0, <1>3, SilentStep, VariantDims
<1>4. CASE UNCHANGED sceneVars
  <2>1. e \in AllDeferred /\ UNCHANGED reported
    BY <1>4 DEF sceneVars, AllDeferred
  <2>2. QED BY <1>0, <2>1, VariantDims DEF Variant
<1>5. QED BY <1>1, <1>2, <1>3, <1>4, Steps

(* What is settled stays so. *)
LEMMA SettledStep ==
  ASSUME SceneTypeOK, [SceneNext]_sceneVars
  PROVE  \A n \in DOMAIN callLog : Settled(n) => Settled(n)'
<1>1. LogKept /\ reported \subseteq DOMAIN callLog
  BY LogStep DEF SceneTypeOK
<1>2. reported \subseteq reported' /\ notFound \subseteq notFound' /\ filtered \subseteq filtered'
  <2>1. CASE Undoing \/ TakeDeferred \/ Visiting \/ Tick
    BY <2>1, SilentStep
  <2>2. CASE UNCHANGED sceneVars
    BY <2>2 DEF sceneVars
  <2>3. QED BY <2>1, <2>2, Steps, SceneShape, ClickShape DEF Begins
<1>3. ASSUME NEW n \in DOMAIN callLog, AfterDimming(n) PROVE AfterDimming(n)'
  <2>1. PICK m \in reported : /\ m < n /\ Scene(m) /\ Scene(n) /\ isDimSequence(callLog[m].id)
                              /\ callLog[m].at = callLog[n].at
                              /\ callLog[m].origin.source = callLog[n].origin.source
    BY <1>3 DEF AfterDimming
  <2>2. callLog'[m] = callLog[m] /\ callLog'[n] = callLog[n] /\ m \in reported'
    BY <1>1, <1>2 DEF LogKept
  <2>3. QED BY <2>1, <2>2 DEF AfterDimming, Scene
<1>4. QED BY <1>2, <1>3 DEF Settled

(* What an event that leaves the list stands for is settled. *)
LEMMA VisitSettles ==
  ASSUME SceneTypeOK, EventsOK, DimmingOK, Visiting, Leaves, NEW n \in Now.nos
  PROVE  Settled(n)'
<1>1. /\ Now \in AllDeferred /\ UNCHANGED callLog /\ reported \subseteq reported'
      /\ Stands(Now) /\ Dimming(Now)
  BY VisitShape DEF EventsOK, DimmingOK
<1>2. CASE n \in reported' \cup notFound'
  BY <1>2 DEF Settled
<1>3. CASE Filters /\ n \notin reported'
  <2>1. n \in filtered' /\ n \in Now.nos \ reported
    BY <1>1, <1>3 DEF Filters
  <2>2. Sequence(Now) /\ Dimmed(Now) /\ Now.kind = "scene"
    BY <1>1, <1>3 DEF Filters, Dimming
  <2>3. PICK m \in Now.nos \cap reported : isDimSequence(callLog[m].id) /\ m < n
    BY <2>1, <2>2 DEF Dimmed
  <2>4. /\ callLog[m].at = callLog[n].at /\ callLog[m].origin.source = callLog[n].origin.source
        /\ callLog[m].kind = "scene" /\ callLog[n].kind = "scene"
    BY <1>1, <2>2, <2>3 DEF Sequence, Stands
  <2>5. AfterDimming(n)'
    BY <1>1, <2>3, <2>4 DEF AfterDimming, Scene
  <2>6. QED BY <2>1, <2>5 DEF Settled
<1>4. QED BY <1>2, <1>3 DEF Leaves

(* Every call and click is settled or stood for. *)
LEMMA LostStep ==
  ASSUME SceneTypeOK, EventsOK, DimmingOK, NoCallLost, [SceneNext]_sceneVars
  PROVE  NoCallLost'
<1>s. \A n \in DOMAIN callLog : Settled(n) => Settled(n)'
  BY SettledStep
<1>n. ASSUME DOMAIN callLog' = DOMAIN callLog \cup {CallNumber},
             \A d \in AllDeferred : \E e \in AllDeferred' : d.nos \subseteq e.nos,
             \E e \in AllDeferred' : CallNumber \in e.nos
      PROVE  NoCallLost'
  <2>1. PendingNos \cup {CallNumber} \subseteq PendingNos'
    BY <1>n DEF PendingNos
  <2>2. QED BY <1>n, <1>s, <2>1 DEF NoCallLost
<1>1. ASSUME NEW o \in Origins, NEW at \in CallZones \X CallGroups, NEW s \in CalledScenes,
             CallScene(o, at, s)
      PROVE  NoCallLost'
  BY <1>1, <1>n, SceneShape, SceneStep DEF Begins
<1>2. ASSUME NEW o \in Buttons, NEW c \in Clicks, ButtonClick(o, c)
      PROVE  NoCallLost'
  BY <1>2, <1>n, ClickShape, ClickStep DEF Begins
<1>3. CASE Undoing \/ TakeDeferred \/ Visiting \/ Tick
  <2>1. /\ UNCHANGED callLog
        /\ \A d \in AllDeferred : \/ Visiting /\ Leaves /\ d = Now
                                  \/ \E e \in AllDeferred' : e.nos = d.nos
    BY <1>3, SilentStep
  <2>2. ASSUME NEW n \in PendingNos PROVE Settled(n)' \/ n \in PendingNos'
    <3>1. PICK d \in AllDeferred : n \in d.nos
      BY DEF PendingNos
    <3>2. CASE Visiting /\ Leaves /\ d = Now
      BY <3>1, <3>2, VisitSettles
    <3>3. CASE \E e \in AllDeferred' : e.nos = d.nos
      BY <3>1, <3>3 DEF PendingNos
    <3>4. QED BY <2>1, <3>2, <3>3
  <2>3. QED BY <1>s, <2>1, <2>2 DEF NoCallLost
<1>4. CASE UNCHANGED sceneVars
  <2>1. UNCHANGED callLog /\ PendingNos' = PendingNos
    BY <1>4 DEF sceneVars, PendingNos, AllDeferred
  <2>2. QED BY <1>s, <2>1 DEF NoCallLost
<1>5. QED BY <1>1, <1>2, <1>3, <1>4, Steps

(* The events stand for their clicks, so the holdCount is right. *)
LEMMA HoldByEvents ==
  EventsOK => HoldIsCounted
BY DEF EventsOK, HoldIsCounted, Counted, Repeats, Started

(***************************************************************************)
(* The order of the reports                                                *)
(***************************************************************************)

(* what is known of the calls in the log stays *)
LEMMA OldCalls ==
  ASSUME LogKept
  PROVE  /\ \A n \in DOMAIN callLog : Passes(n)' <=> Passes(n)
         /\ \A m, n \in DOMAIN callLog : Before(m, n)' <=> Before(m, n)
<1>1. \A n \in DOMAIN callLog : callLog'[n] = callLog[n]
  BY DEF LogKept
<1>2. \A n \in DOMAIN callLog : Passes(n)' <=> Passes(n)
  BY <1>1 DEF Passes, Scene
<1>3. \A m, n \in DOMAIN callLog : Before(m, n)' <=> Before(m, n)
  BY <1>1 DEF Before, Scene
<1>4. QED BY <1>2, <1>3

(* a new call comes after the others *)
LEMMA NewCall ==
  ASSUME SceneTypeOK, NEW k \in {"scene", "button"}, NEW o, NEW at, NEW id,
         Begins(k, o, at, id), NEW c, c = CallNumber
  PROVE  /\ DOMAIN callLog' = DOMAIN callLog \cup {c} /\ c \notin DOMAIN callLog
         /\ Passes(c)' => k = "scene" /\ passThrough(o, at, id)
         /\ \A m \in DOMAIN callLog : Before(m, c)' => /\ callLog[m].kind = "scene"
                                                       /\ callLog[m].origin = o /\ Named(o)
         /\ \A n : ~Before(c, c)' /\ (n \in DOMAIN callLog => ~Before(c, n)')
<1>1. /\ DOMAIN callLog' = DOMAIN callLog \cup {c} /\ c \notin DOMAIN callLog
      /\ callLog'[c] = [kind |-> k, origin |-> o, at |-> at, id |-> id]
      /\ \A n \in DOMAIN callLog : callLog'[n] = callLog[n]
  BY DEF Begins
<1>2. callLog'[c].kind = k /\ callLog'[c].origin = o /\ callLog'[c].at = at /\ callLog'[c].id = id
  BY <1>1
<1>3. Passes(c)' => k = "scene" /\ passThrough(o, at, id)
  BY <1>2 DEF Passes, Scene
<1>4. \A m \in DOMAIN callLog : Before(m, c)' => /\ callLog[m].kind = "scene"
                                                 /\ callLog[m].origin = o /\ Named(o)
  BY <1>1, <1>2 DEF Before, Scene
<1>5. c = Len(callLog) + 1 /\ Len(callLog) \in Nat /\ DOMAIN callLog = 1 .. Len(callLog)
  BY Listed DEF CallNumber
<1>6. ~(c < c) /\ \A n \in DOMAIN callLog : ~(c < n)
  BY <1>5
<1>7. QED BY <1>1, <1>3, <1>4, <1>6 DEF Before

(* the positions of the list after a visit *)
LEMMA TailShape ==
  ASSUME SceneTypeOK, Visiting
  PROVE  /\ Now = work[1] /\ 1 \in DOMAIN work
         /\ DOMAIN work' \subseteq Nat
         /\ \A i \in DOMAIN work' : i + 1 \in DOMAIN work /\ work'[i] = work[i + 1]
         /\ \A j \in DOMAIN work : j # 1 =>
              /\ j - 1 \in DOMAIN work' /\ work'[j - 1] = work[j]
              /\ \A i \in DOMAIN work' : /\ j < i + 1 => j - 1 < i
                                         /\ j > i + 1 => j - 1 > i
         /\ \A j \in DOMAIN work : ~(j < 1)
<1>1. work # <<>> /\ work' = Tail(work) /\ work \in Seq(DeferredEvent)
  BY VisitShape DEF SceneTypeOK
<1>2. /\ Now = work[1] /\ Len(work) \in Nat /\ DOMAIN work = 1 .. Len(work) /\ 1 \in DOMAIN work
      /\ DOMAIN work' = 1 .. Len(work) - 1 /\ \A i \in DOMAIN work' : work'[i] = work[i + 1]
  BY <1>1, ListFacts DEF Now
<1>3. \A j \in DOMAIN work : ~(j < 1)
  BY <1>2
<1>4. \A i \in DOMAIN work' : i \in Nat /\ i + 1 \in DOMAIN work
  BY <1>2
<1>5. \A j \in DOMAIN work : j # 1 =>
              /\ j - 1 \in DOMAIN work' /\ (j - 1) + 1 = j
              /\ \A i \in DOMAIN work' : /\ j < i + 1 => j - 1 < i
                                         /\ j > i + 1 => j - 1 > i
  BY <1>2
<1>6. QED BY <1>2, <1>3, <1>4, <1>5

(* An event that stays is the last one of the list. *)
LEMMA StaysShape ==
  ASSUME SceneTypeOK, NEW e \in DeferredEvent, Stays(e)
  PROVE  /\ DOMAIN deferred' = DOMAIN deferred \cup {Len(deferred) + 1}
         /\ Len(deferred) + 1 \notin DOMAIN deferred
         /\ deferred'[Len(deferred) + 1] = e
         /\ \A i \in DOMAIN deferred : deferred'[i] = deferred[i]
<1>1. deferred \in Seq(DeferredEvent) /\ deferred' = Append(deferred, e)
  BY DEF Stays, SceneTypeOK
<1>2. /\ DOMAIN deferred = 1 .. Len(deferred) /\ Len(deferred) \in Nat
      /\ DOMAIN deferred' = 1 .. Len(deferred) + 1 /\ deferred'[Len(deferred) + 1] = e
      /\ \A i \in DOMAIN deferred : deferred'[i] = deferred[i]
  BY <1>1, ListFacts
<1>3. QED BY <1>2

(* A scene that passes is due; no step makes it wait. *)
LEMMA PassStep ==
  ASSUME SceneTypeOK, EventsOK, PassOK, [SceneNext]_sceneVars
  PROVE  PassOK'
<1>0. LogKept /\ \A n \in DOMAIN callLog : Passes(n)' <=> Passes(n)
  BY LogStep, OldCalls
<1>1. /\ \A i \in DOMAIN deferred : deferred[i].nos \subseteq DOMAIN callLog /\ deferred[i] \in DeferredEvent
      /\ \A i \in DOMAIN work : work[i].nos \subseteq DOMAIN callLog
  BY Listed DEF EventsOK, Stands
<1>2. \A i \in DOMAIN deferred : \A n \in deferred[i].nos : ~Passes(n)'
  BY <1>0, <1>1 DEF PassOK
<1>3. ASSUME NEW k \in {"scene", "button"}, NEW o, NEW at, NEW id, Begins(k, o, at, id), NEW q,
             \A i \in DOMAIN deferred : q[i].nos = deferred[i].nos,
             NEW e, e.nos = {CallNumber}, Adds(q, e),
             k = "scene" /\ passThrough(o, at, id) => isDue(e)
      PROVE  PassOK'
  <2>1. deferred' = <<>>
    BY <1>3 DEF Begins
  <2>2. \A c : c = CallNumber /\ Passes(c)' => isDue(e)
    BY <1>3, NewCall
  <2>3. \A i \in DOMAIN work' : \A n \in work'[i].nos : Passes(n)' => isDue(work'[i])
    BY <1>2, <1>3, <2>2 DEF Adds
  <2>4. QED BY <2>1, <2>3, EmptySeq DEF PassOK
<1>4. ASSUME NEW k \in {"scene", "button"}, NEW o, NEW at, NEW id, Begins(k, o, at, id),
             k = "scene" => ~passThrough(o, at, id),
             NEW i \in DOMAIN deferred, NEW e, Joins(i, e), e.nos = deferred[i].nos \cup {CallNumber}
      PROVE  PassOK'
  <2>1. deferred' = <<>>
    BY <1>4 DEF Begins
  <2>2. \A c : c = CallNumber => ~Passes(c)'
    BY <1>4, NewCall
  <2>3. \A j \in DOMAIN work' : \A n \in work'[j].nos : ~Passes(n)'
    BY <1>2, <1>4, <2>2 DEF Joins
  <2>4. QED BY <2>1, <2>3, EmptySeq DEF PassOK
<1>5. ASSUME NEW o \in Origins, NEW at \in CallZones \X CallGroups, NEW s \in CalledScenes,
             CallScene(o, at, s)
      PROVE  PassOK'
  <2>1. /\ Begins("scene", o, at, s) /\ s \in 0 .. 127 /\ Len(callLog) + 1 \in CallNo
    BY <1>5, SceneShape, SceneAssumption DEF Begins, CallNumber
  <2>2. \A age \in {0, Timeout} : New("scene", o, at, s, age).nos = {CallNumber}
    BY DEF New, CallNumber
  <2>3. isDue(New("scene", o, at, s, Timeout))
    BY DEF New, isDue, Timeout
  <2>4. \A i \in DOMAIN deferred : Flushed(o)[i].nos = deferred[i].nos
    BY <1>1, Variants DEF Flushed, Variant
  <2>5. CASE passThrough(o, at, s) /\ Adds(Flushed(o), New("scene", o, at, s, Timeout))
    BY <1>3, <2>1, <2>2, <2>3, <2>4, <2>5
  <2>6. CASE ~passThrough(o, at, s) /\ Adds(deferred, New("scene", o, at, s, 0))
    BY <1>3, <2>1, <2>2, <2>6
  <2>7. CASE /\ ~passThrough(o, at, s)
             /\ Joins(First(Followed(o, at, s)), Absorb(deferred[First(Followed(o, at, s))], s))
    <3> DEFINE i == First(Followed(o, at, s))
    <3>1. i \in DOMAIN deferred /\ Joins(i, Absorb(deferred[i], s))
      BY <2>7 DEF Joins
    <3>2. Absorb(deferred[i], s).nos = deferred[i].nos \cup {CallNumber}
      BY <1>1, <2>1, <3>1, JoinedEvents DEF CallNumber
    <3> HIDE DEF i
    <3>3. QED BY <1>4, <2>1, <2>7, <3>1, <3>2
  <2>8. QED BY <1>5, <2>5, <2>6, <2>7, SceneShape
<1>6. ASSUME NEW o \in Buttons, NEW c \in Clicks, ButtonClick(o, c)
      PROVE  PassOK'
  <2>1. Begins("button", o, << 0 >>, c) /\ c \in 0 .. 127 /\ Len(callLog) + 1 \in CallNo
    BY <1>6, ClickShape DEF Begins, CallNumber
  <2>2. \A age \in {0, Timeout} : New("button", o, << 0 >>, c, age).nos = {CallNumber}
    BY DEF New, CallNumber
  <2>3. ASSUME NEW age \in {0, Timeout}, Adds(deferred, New("button", o, << 0 >>, c, age))
        PROVE  PassOK'
    BY <1>3, <2>1, <2>2, <2>3
  <2>4. ASSUME NEW i \in FollowedClick(o, c), Joins(i, AbsorbClick(deferred[i], c))
        PROVE  PassOK'
    <3>1. i \in DOMAIN deferred
      BY <2>4 DEF Joins
    <3>2. AbsorbClick(deferred[i], c).nos = deferred[i].nos \cup {CallNumber}
      BY <1>1, <2>1, <3>1, JoinedEvents DEF CallNumber
    <3>3. QED BY <1>4, <2>1, <2>4, <3>1, <3>2
  <2>5. QED BY <1>6, <2>3, <2>4, ClickShape
<1>7. CASE Undoing \/ TakeDeferred
  <2>1. work' = deferred /\ deferred' = <<>>
    BY <1>7 DEF Undoing, TakeDeferred, UndoScene
  <2>2. QED BY <1>2, <2>1, EmptySeq DEF PassOK
<1>8. CASE Visiting
  <2>1. \A i \in DOMAIN work' : \A n \in work'[i].nos : Passes(n)' => isDue(work'[i])
    BY <1>0, <1>1, <1>8, TailShape DEF PassOK
  <2>2. CASE deferred' = deferred
    BY <1>2, <2>1, <2>2 DEF PassOK
  <2>3. ASSUME NEW e \in DeferredEvent, Stays(e) PROVE PassOK'
    <3>1. e.nos = Now.nos /\ ~isDue(Now)
      BY <2>3 DEF Stays, Variant
    <3>2. \A n \in e.nos : ~Passes(n)'
      BY <1>0, <1>1, <1>8, <3>1, TailShape DEF PassOK
    <3>3. \A i \in DOMAIN deferred' : \A n \in deferred'[i].nos : ~Passes(n)'
      BY <1>2, <2>3, <3>2, StaysShape
    <3>4. QED BY <2>1, <3>3 DEF PassOK
  <2>4. QED BY <1>8, <2>2, <2>3, VisitShape DEF Leaves
<1>9. CASE Tick
  <2>1. /\ DOMAIN deferred' = DOMAIN deferred /\ DOMAIN work' = DOMAIN work
        /\ \A i \in DOMAIN deferred : deferred'[i].nos = deferred[i].nos
        /\ \A i \in DOMAIN work : /\ work'[i].nos = work[i].nos
                                  /\ isDue(work[i]) => isDue(work'[i])
    BY <1>9, TickShape DEF Variant
  <2>2. \A i \in DOMAIN work : \A n \in work[i].nos : Passes(n)' => isDue(work[i])
    BY <1>0, <1>1 DEF PassOK
  <2>3. QED BY <1>2, <2>1, <2>2 DEF PassOK
<1>10. CASE UNCHANGED sceneVars
  BY <1>10 DEF sceneVars, PassOK, Passes, Scene
<1>11. QED BY <1>5, <1>6, <1>7, <1>8, <1>9, <1>10, Steps

(* What is before a scene that passes is flushed with it, and visited      *)
(* before it.                                                              *)
LEMMA FlushStep ==
  ASSUME SceneTypeOK, EventsOK, DimmingOK, NoCallLost, PassOK, FlushOK, [SceneNext]_sceneVars
  PROVE  FlushOK'
<1>0. /\ LogKept /\ \A n \in DOMAIN callLog : Passes(n)' <=> Passes(n)
      /\ \A m, n \in DOMAIN callLog : Before(m, n)' <=> Before(m, n)
  BY LogStep, OldCalls
<1>s. \A m \in DOMAIN callLog : Settled(m) => Settled(m)'
  BY SettledStep
<1>1. /\ \A i \in DOMAIN deferred : deferred[i].nos \subseteq DOMAIN callLog /\ deferred[i] \in DeferredEvent
      /\ \A i \in DOMAIN work : work[i].nos \subseteq DOMAIN callLog
  BY Listed DEF EventsOK, Stands
<1>2. \A i \in DOMAIN deferred : \A n \in deferred[i].nos : ~Passes(n)'
  BY <1>0, <1>1 DEF PassOK
<1>3. ASSUME \A i \in DOMAIN work' : \A n \in work'[i].nos : ~Passes(n)'
      PROVE  FlushOK'
  BY <1>3 DEF FlushOK
<1>4. ASSUME NEW o \in Origins, NEW at \in CallZones \X CallGroups, NEW s \in CalledScenes,
             CallScene(o, at, s)
      PROVE  FlushOK'
  <2>1. Begins("scene", o, at, s) /\ s \in 0 .. 127 /\ Len(callLog) + 1 \in CallNo
    BY <1>4, SceneShape, SceneAssumption DEF Begins, CallNumber
  <2>2. \A c : c = CallNumber => (Passes(c)' => passThrough(o, at, s))
    BY <2>1, NewCall
  <2>3. \A age \in {0, Timeout} : New("scene", o, at, s, age).nos = {CallNumber}
    BY DEF New, CallNumber
  <2>4. CASE passThrough(o, at, s) /\ Adds(Flushed(o), New("scene", o, at, s, Timeout))
    <3>1. \A i \in DOMAIN deferred : work'[i].nos = deferred[i].nos
      BY <1>1, <2>4, Variants DEF Adds, Flushed, Variant
    <3>2. \A i \in DOMAIN deferred : deferred[i].kind = "scene" /\ deferred[i].origin = o => isDue(work'[i])
      <4>1. \A i \in DOMAIN deferred : deferred[i].kind = "scene" /\ deferred[i].origin = o =>
              work'[i] = [deferred[i] EXCEPT !.age = Timeout]
        BY <2>4 DEF Adds, Flushed
      <4>2. \A i \in DOMAIN deferred : [deferred[i] EXCEPT !.age = Timeout].age = Timeout
        BY <1>1, Variants
      <4>3. ASSUME NEW i \in DOMAIN deferred, deferred[i].kind = "scene", deferred[i].origin = o
            PROVE  isDue(work'[i])
        <5>1. work'[i].age = Timeout
          BY <4>1, <4>2, <4>3
        <5>2. Timeout >= Timeout
          BY DEF Timeout
        <5>3. QED BY <5>1, <5>2 DEF isDue
      <4>4. QED BY <4>3
    <3>3. SUFFICES ASSUME NEW i \in DOMAIN work', NEW n \in work'[i].nos, Passes(n)',
                          NEW m \in DOMAIN callLog', Before(m, n)'
                   PROVE  Settled(m)' \/ \E j \in DOMAIN work' : j < i /\ isDue(work'[j]) /\ m \in work'[j].nos
      BY DEF FlushOK
    <3>4. i = Len(deferred) + 1 /\ n = CallNumber
      BY <1>2, <2>3, <2>4, <3>1, <3>3 DEF Adds
    <3>5. m \in DOMAIN callLog /\ callLog[m].kind = "scene" /\ callLog[m].origin = o /\ Named(o)
      <4>1. /\ DOMAIN callLog' = DOMAIN callLog \cup {n} /\ ~Before(n, n)'
            /\ \A x \in DOMAIN callLog : Before(x, n)' => /\ callLog[x].kind = "scene"
                                                         /\ callLog[x].origin = o /\ Named(o)
        BY <2>1, <3>4, NewCall
      <4>2. QED BY <3>3, <4>1
    <3>6. CASE Settled(m)
      BY <1>s, <3>5, <3>6
    <3>7. CASE m \in PendingNos
      <4>1. PICK d \in AllDeferred : m \in d.nos
        BY <3>7 DEF PendingNos
      <4>2. PICK j \in DOMAIN deferred : d = deferred[j]
        BY <2>1, <4>1, EmptySeq DEF AllDeferred, Begins
      <4>3. Stands(d)
        BY DEF EventsOK
      <4>4. d.kind = "scene" /\ d.origin = o
        BY <3>5, <4>1, <4>3 DEF Stands
      <4>5. j \in DOMAIN work' /\ j < i /\ isDue(work'[j]) /\ m \in work'[j].nos
        BY <2>4, <3>1, <3>2, <3>4, <4>1, <4>2, <4>4 DEF Adds
      <4>6. QED BY <4>5
    <3>8. QED BY <3>5, <3>6, <3>7 DEF NoCallLost
  <2>5. CASE ~passThrough(o, at, s) /\ Adds(deferred, New("scene", o, at, s, 0))
    <3>1. \A i \in DOMAIN work' : \A n \in work'[i].nos : ~Passes(n)'
      BY <1>2, <2>2, <2>3, <2>5 DEF Adds
    <3>2. QED BY <1>3, <3>1
  <2>6. CASE /\ ~passThrough(o, at, s)
             /\ Joins(First(Followed(o, at, s)), Absorb(deferred[First(Followed(o, at, s))], s))
    <3> DEFINE k == First(Followed(o, at, s))
    <3>1. k \in DOMAIN deferred /\ Joins(k, Absorb(deferred[k], s))
      BY <2>6 DEF Joins
    <3>2. Absorb(deferred[k], s).nos = deferred[k].nos \cup {CallNumber}
      BY <1>1, <2>1, <3>1, JoinedEvents DEF CallNumber
    <3> HIDE DEF k
    <3>3. \A i \in DOMAIN work' : \A n \in work'[i].nos : ~Passes(n)'
      BY <1>2, <2>2, <2>6, <3>1, <3>2 DEF Joins
    <3>4. QED BY <1>3, <3>3
  <2>7. QED BY <1>4, <2>4, <2>5, <2>6, SceneShape
<1>5. ASSUME NEW o \in Buttons, NEW c \in Clicks, ButtonClick(o, c)
      PROVE  FlushOK'
  <2>1. Begins("button", o, << 0 >>, c) /\ c \in 0 .. 127 /\ Len(callLog) + 1 \in CallNo
    BY <1>5, ClickShape DEF Begins, CallNumber
  <2>2. \A n : n = CallNumber => ~Passes(n)'
    BY <2>1, NewCall
  <2>3. ASSUME NEW age \in {0, Timeout}, Adds(deferred, New("button", o, << 0 >>, c, age))
        PROVE  FlushOK'
    <3>1. New("button", o, << 0 >>, c, age).nos = {CallNumber}
      BY DEF New, CallNumber
    <3>2. \A i \in DOMAIN work' : \A n \in work'[i].nos : ~Passes(n)'
      BY <1>2, <2>2, <2>3, <3>1 DEF Adds
    <3>3. QED BY <1>3, <3>2
  <2>4. ASSUME NEW i \in FollowedClick(o, c), Joins(i, AbsorbClick(deferred[i], c))
        PROVE  FlushOK'
    <3>1. i \in DOMAIN deferred
      BY <2>4 DEF Joins
    <3>2. AbsorbClick(deferred[i], c).nos = deferred[i].nos \cup {CallNumber}
      BY <1>1, <2>1, <3>1, JoinedEvents DEF CallNumber
    <3>3. \A j \in DOMAIN work' : \A n \in work'[j].nos : ~Passes(n)'
      BY <1>2, <2>2, <2>4, <3>1, <3>2 DEF Joins
    <3>4. QED BY <1>3, <3>3
  <2>5. QED BY <1>5, <2>3, <2>4, ClickShape
<1>6. CASE Undoing \/ TakeDeferred
  <2>1. work' = deferred
    BY <1>6 DEF Undoing, TakeDeferred, UndoScene
  <2>2. QED BY <1>2, <1>3, <2>1
<1>7. CASE Visiting
  <2>1. SUFFICES ASSUME NEW i \in DOMAIN work', NEW n \in work'[i].nos, Passes(n)',
                        NEW m \in DOMAIN callLog', Before(m, n)'
                 PROVE  Settled(m)' \/ \E j \in DOMAIN work' : j < i /\ isDue(work'[j]) /\ m \in work'[j].nos
    BY DEF FlushOK
  <2>2. i + 1 \in DOMAIN work /\ n \in work[i + 1].nos /\ callLog' = callLog
    BY <1>7, TailShape, VisitShape
  <2>3. Passes(n) /\ Before(m, n) /\ m \in DOMAIN callLog
    BY <1>0, <1>1, <2>1, <2>2
  <2>4. Settled(m) \/ \E j \in DOMAIN work : j < i + 1 /\ isDue(work[j]) /\ m \in work[j].nos
    BY <2>2, <2>3 DEF FlushOK
  <2>5. Settled(m) => Settled(m)'
    BY <1>s, <2>3
  <2>6. ASSUME NEW j \in DOMAIN work, j < i + 1, isDue(work[j]), m \in work[j].nos, j # 1
        PROVE  \E x \in DOMAIN work' : x < i /\ isDue(work'[x]) /\ m \in work'[x].nos
    BY <1>7, <2>6, TailShape
  <2>7. ASSUME isDue(work[1]), m \in work[1].nos
        PROVE  Settled(m)'
    <3>1. Now = work[1] /\ Leaves
      BY <1>7, <2>7, TailShape, VisitShape DEF Stays
    <3>2. QED BY <1>7, <2>7, <3>1, VisitSettles
  <2>8. QED BY <2>4, <2>5, <2>6, <2>7
<1>8. CASE Tick
  <2>1. /\ DOMAIN work' = DOMAIN work /\ UNCHANGED <<callLog, reported, filtered, notFound>>
        /\ \A i \in DOMAIN work : /\ work'[i].nos = work[i].nos
                                  /\ isDue(work[i]) => isDue(work'[i])
    BY <1>8, TickShape DEF Variant
  <2>2. SUFFICES ASSUME NEW i \in DOMAIN work', NEW n \in work'[i].nos, Passes(n)',
                        NEW m \in DOMAIN callLog', Before(m, n)'
                 PROVE  Settled(m)' \/ \E j \in DOMAIN work' : j < i /\ isDue(work'[j]) /\ m \in work'[j].nos
    BY DEF FlushOK
  <2>3. i \in DOMAIN work /\ n \in work[i].nos /\ Passes(n) /\ Before(m, n) /\ m \in DOMAIN callLog
    BY <1>0, <1>1, <2>1, <2>2
  <2>4. Settled(m) \/ \E j \in DOMAIN work : j < i /\ isDue(work[j]) /\ m \in work[j].nos
    BY <2>3 DEF FlushOK
  <2>5. QED BY <1>s, <2>1, <2>3, <2>4
<1>9. CASE UNCHANGED sceneVars
  <2>1. UNCHANGED <<work, callLog, reported, filtered, notFound>>
    BY <1>9 DEF sceneVars
  <2>2. \A i \in DOMAIN work' : \A n \in work'[i].nos : Passes(n)' <=> Passes(n)
    BY <1>0, <1>1, <2>1
  <2>3. \A m, n \in DOMAIN callLog : Before(m, n)' <=> Before(m, n)
    BY <1>0
  <2>4. QED BY <1>1, <1>s, <2>1, <2>2, <2>3 DEF FlushOK
<1>10. QED BY <1>4, <1>5, <1>6, <1>7, <1>8, <1>9, Steps

(* A scene that passes is not reported before what came before it. *)
LEMMA OrderStep ==
  ASSUME SceneTypeOK, EventsOK, FlushOK, InOrder, [SceneNext]_sceneVars
  PROVE  InOrder'
<1>0. /\ LogKept /\ \A n \in DOMAIN callLog : Passes(n)' <=> Passes(n)
      /\ \A m, n \in DOMAIN callLog : Before(m, n)' <=> Before(m, n)
  BY LogStep, OldCalls
<1>s. \A m \in DOMAIN callLog : Settled(m) => Settled(m)'
  BY SettledStep
<1>1. reported \subseteq DOMAIN callLog
  BY DEF SceneTypeOK
<1>2. ASSUME NEW k \in {"scene", "button"}, NEW o, NEW at, NEW id, Begins(k, o, at, id)
      PROVE  InOrder'
  <2>1. UNCHANGED <<reported, filtered, notFound>>
    BY <1>2 DEF Begins
  <2>2. \A c : c = CallNumber => /\ DOMAIN callLog' = DOMAIN callLog \cup {c}
                                 /\ \A n \in DOMAIN callLog : ~Before(c, n)'
    BY <1>2, NewCall
  <2>3. QED BY <1>0, <1>1, <1>s, <2>1, <2>2 DEF InOrder
<1>3. CASE Undoing \/ TakeDeferred \/ Tick
  <2>1. UNCHANGED <<callLog, reported, filtered, notFound>>
    BY <1>3, TickShape DEF Undoing, UndoScene, TakeDeferred
  <2>2. QED BY <1>0, <1>s, <2>1 DEF InOrder
<1>4. CASE Visiting
  <2>1. /\ UNCHANGED callLog /\ reported \subseteq reported' /\ notFound \subseteq notFound'
        /\ reported' \subseteq reported \cup Now.nos
        /\ 1 \in DOMAIN work /\ Now = work[1] /\ \A j \in DOMAIN work : ~(j < 1)
    BY <1>4, SilentStep, VisitShape, TailShape
  <2>2. ASSUME NEW m \in DOMAIN callLog, NEW n \in Now.nos, Passes(n), Before(m, n)
        PROVE  Settled(m)
    BY <2>1, <2>2 DEF FlushOK
  <2>3. QED BY <1>0, <1>1, <1>s, <2>1, <2>2 DEF InOrder
<1>5. CASE UNCHANGED sceneVars
  <2>1. UNCHANGED <<callLog, reported, filtered, notFound>>
    BY <1>5 DEF sceneVars
  <2>2. QED BY <1>0, <1>s, <2>1 DEF InOrder
<1>6. QED BY <1>2, <1>3, <1>4, <1>5, Steps, SceneShape, ClickShape

(***************************************************************************)
(* The state of the lights                                                 *)
(***************************************************************************)

(* a group that has such a state *)
LEMMA LitFacts ==
  ASSUME NEW p \in Lit
  PROVE  p \in Places /\ p[1] # 0 /\ p[2] \in {Yellow, Heating} /\ p[2] # ControlTemperature
BY DEF Lit, Places, Yellow, Heating, ControlTemperature

(* the scenes of the tables *)
LEMMA PresetValues ==
  /\ Presets \subseteq {5, 17, 18, 19, 20, 21, 22, 23, 24, 25, 26, 27, 28, 29, 30, 31, 33, 35, 37, 39}
  /\ RowsOff \subseteq {0, 32, 34, 36, 38}
<1>1. \A r \in PresetRows :
         /\ r[1] \in {0, 32, 34, 36, 38}
         /\ \A k \in 2 .. 5 : r[k] \in {5, 17, 18, 19, 20, 21, 22, 23, 24, 25, 26, 27, 28, 29, 30, 31,
                                        33, 35, 37, 39}
  <2>1. \A k \in 2 .. 5 : k = 2 \/ k = 3 \/ k = 4 \/ k = 5
    OBVIOUS
  <2>2. QED BY <2>1 DEF PresetRows
<1>2. QED BY <1>1 DEF Presets, RowsOff

(* A scene that is not remembered, dimming above all, decides no state. *)
LEMMA Undecided ==
  ASSUME NEW s
  PROVE  /\ isDimSequence(s) => ~rememberScene(s)
         /\ ~rememberScene(s) => \A g \in {Yellow, Heating} : isOnScene(g, s) = "dontcare"
<1>1. ~rememberScene(s) => s \in {10, 11, 12, 42, 43, 44, 45, 46, 47, 48, 50, 15, 41, 51, 52, 53, 54, 55, 66, 73}
  BY DEF rememberScene, isDimSequence
<1>2. ~rememberScene(s) => s \notin Presets /\ s \notin RowsOff
  BY <1>1, PresetValues
<1>3. ~rememberScene(s) => s \notin {68, 69, 40, 64, 67, 72, 65, 76}
  BY <1>1
<1>4. QED BY <1>2, <1>3 DEF isOnScene, rememberScene

(* a variant of an event decides the same *)
LEMMA VariantDecides ==
  ASSUME NEW e, NEW d, Variant(e, d), NEW p
  PROVE  /\ For(e, p) <=> For(d, p)
         /\ Decides(e, p) <=> Decides(d, p)
         /\ e.id = d.id
BY DEF Variant, For, Decides

(* What a call that does not overlap with others leaves: it is remembered, *)
(* or decides nothing.                                                     *)
LEMMA QuietCall ==
  ASSUME SceneTypeOK, NEW o \in Origins, NEW at \in CallZones \X CallGroups,
         NEW s \in CalledScenes, CallScene(o, at, s), NEW p \in Lit \ disturbed'
  PROVE  /\ p \in Lit \ disturbed /\ light'[p] = light[p] /\ UNCHANGED light
         /\ ~Reaches(at, p) => lastCalled'[p] = lastCalled[p]
         /\ Reaches(at, p) =>
              /\ ~Overlaps(o, at, s, p) /\ o \notin Missing
              /\ IF rememberScene(s) THEN lastCalled'[p] = s
                 ELSE lastCalled'[p] = lastCalled[p] /\ isOnScene(p[2], s) = "dontcare"
<1>1. /\ p \in Lit \ disturbed /\ UNCHANGED light
      /\ Reaches(at, p) => ~Overlaps(o, at, s, p)
  BY DEF CallScene
<1>2. p \in Places /\ p[2] \in {Yellow, Heating} /\ p[2] # ControlTemperature
  BY LitFacts
<1>3. lastCalled'[p] = IF p \in Remembered(at, s) THEN s ELSE lastCalled[p]
  BY <1>2 DEF CallScene
<1>4. ASSUME ~Reaches(at, p) PROVE lastCalled'[p] = lastCalled[p]
  <2>1. p \notin Remembered(at, s)
    BY <1>4 DEF Remembered, Reaches
  <2>2. QED BY <1>3, <2>1
<1>5. ASSUME Reaches(at, p)
      PROVE  /\ o \notin Missing
             /\ IF rememberScene(s) THEN lastCalled'[p] = s
                ELSE lastCalled'[p] = lastCalled[p] /\ isOnScene(p[2], s) = "dontcare"
  <2>1. at[1] # 0 /\ o \notin Missing
    BY <1>1, <1>5 DEF Overlaps
  <2>2. CASE rememberScene(s)
    <3>1. p \in Remembered(at, s) \/ lastCalled[p] = s
      BY <1>2, <1>5, <2>1, <2>2 DEF Remembered, Reaches
    <3>2. QED BY <1>3, <2>1, <2>2, <3>1
  <2>3. CASE ~rememberScene(s)
    <3>1. p \notin Remembered(at, s)
      BY <2>3 DEF Remembered
    <3>2. QED BY <1>2, <1>3, <2>1, <2>3, <3>1, Undecided
  <2>4. QED BY <2>2, <2>3
<1>6. QED BY <1>1, <1>4, <1>5

(* the history only grows *)
LEMMA DisturbedStep ==
  ASSUME [SceneNext]_sceneVars
  PROVE  disturbed \subseteq disturbed'
BY DEF SceneNext, CallScene, UndoScene, ButtonClick, TakeDeferred, DropEvent, ReportDue,
       EndOfDimming, ReportDimming, KeepScene, ReportClick, KeepClick, Tick, HistoryOnly, sceneVars

(* For a group that is not disturbed the device is known, and what was     *)
(* reported before its time is dimming.                                    *)
LEMMA HarmlessStep ==
  ASSUME SceneTypeOK, HarmlessOK, [SceneNext]_sceneVars
  PROVE  HarmlessOK'
<1>0. disturbed \subseteq disturbed'
  BY DisturbedStep
<1>1. ASSUME NEW e, NEW d \in AllDeferred, Variant(e, d), e.called => d.called \/ isDimSequence(e.id)
      PROVE  Harmless(e)'
  BY <1>0, <1>1 DEF HarmlessOK, Harmless, Variant
<1>2. ASSUME NEW e, e.kind = "button" PROVE Harmless(e)'
  BY <1>2 DEF Harmless
<1> SUFFICES ASSUME NEW e \in AllDeferred' PROVE Harmless(e)'
  BY DEF HarmlessOK
<1>3. ASSUME NEW o \in Origins, NEW at \in CallZones \X CallGroups, NEW s \in CalledScenes,
             CallScene(o, at, s)
      PROVE  Harmless(e)'
  <2>1. CASE \E d \in AllDeferred : Variant(e, d) /\ e.called = d.called
    BY <1>1, <2>1
  <2>2. CASE \E age \in {0, Timeout} : e = New("scene", o, at, s, age)
    <3>1. e.at = at /\ e.origin = o /\ e.called = FALSE
      BY <2>2 DEF New
    <3>2. QED BY <1>3, <3>1, QuietCall DEF Harmless
  <2>3. ASSUME NEW i \in Followed(o, at, s), deferred[i] \in AllDeferred,
               e = Absorb(deferred[i], s), ~passThrough(o, at, s)
        PROVE  Harmless(e)'
    <3> DEFINE d == deferred[i]
    <3>1. /\ Follows(o, at, s, d) /\ d \in DeferredEvent /\ i \in DOMAIN deferred
          /\ d.kind = "scene" /\ d.at = at
      BY <2>3, Listed DEF Followed, Follows
    <3>2. Len(callLog) + 1 \in CallNo /\ s \in 0 .. 127
      BY <1>3, SceneShape, SceneAssumption DEF Begins, CallNumber
    <3>3. e.origin = d.origin /\ e.at = at /\ e.called = d.called
      BY <2>3, <3>1, <3>2, JoinedEvents
    <3>4. SUFFICES ASSUME NEW p \in Lit \ disturbed', Reaches(at, p)
                   PROVE  d.origin \notin Missing /\ ~d.called
      BY <3>3 DEF Harmless
    <3>5. p \in Lit \ disturbed /\ ~Overlaps(o, at, s, p)
      BY <1>3, <3>4, QuietCall
    <3>6. ~d.called
      BY <2>3, <3>1, <3>4, <3>5 DEF Overlaps
    <3>7. d.origin \notin Missing
      BY <2>3, <3>1, <3>4, <3>5 DEF HarmlessOK, Harmless
    <3>8. QED BY <3>6, <3>7
  <2>4. QED BY <1>3, <2>1, <2>2, <2>3, SceneStep
<1>4. ASSUME NEW o \in Buttons, NEW c \in Clicks, ButtonClick(o, c)
      PROVE  Harmless(e)'
  <2>1. CASE e \in AllDeferred
    BY <1>1, <2>1 DEF Variant
  <2>2. CASE \E age \in {0, Timeout} : e = New("button", o, << 0 >>, c, age)
    BY <1>2, <2>2 DEF New
  <2>3. ASSUME NEW i \in FollowedClick(o, c), deferred[i] \in AllDeferred,
               e = AbsorbClick(deferred[i], c)
        PROVE  Harmless(e)'
    <3>1. deferred[i].kind = "button" /\ deferred[i] \in DeferredEvent
      BY <2>3, Listed DEF FollowedClick
    <3>2. Len(callLog) + 1 \in CallNo /\ c \in 0 .. 127
      BY <1>4, ClickShape DEF Begins, CallNumber
    <3>3. e.kind = "button"
      BY <2>3, <3>1, <3>2, JoinedEvents
    <3>4. QED BY <1>2, <3>3
  <2>4. QED BY <1>4, <2>1, <2>2, <2>3, ClickStep
<1>5. CASE Undoing \/ TakeDeferred \/ Visiting \/ Tick
  BY <1>1, <1>5, SilentStep
<1>6. CASE UNCHANGED sceneVars
  <2>1. e \in AllDeferred
    BY <1>6 DEF sceneVars, AllDeferred
  <2>2. QED BY <1>1, <2>1 DEF Variant
<1>7. QED BY <1>3, <1>4, <1>5, <1>6, Steps

(* the events for a group, when a turn begins *)
SamePlaces(p) ==
  /\ work = <<>> /\ deferred' = <<>>
  /\ \A i \in DOMAIN work' : For(work'[i], p) =>
       i \in DOMAIN deferred /\ For(deferred[i], p) /\ work'[i].id = deferred[i].id
  /\ \A i \in DOMAIN deferred : For(deferred[i], p) =>
       i \in DOMAIN work' /\ For(work'[i], p) /\ work'[i].id = deferred[i].id

(* when a turn begins with the events there were *)
LEMMA SameEvents ==
  ASSUME NEW p, SamePlaces(p), DOMAIN deferred \subseteq Nat
  PROVE  /\ Single(p) => Single(p)'
         /\ Bright(p) /\ lastCalled'[p] = lastCalled[p] /\ light'[p] = light[p] => Bright(p)'
<1>1. /\ work = <<>> /\ deferred' = <<>> /\ DOMAIN <<>> = {}
      /\ \A i \in DOMAIN work' : For(work'[i], p) =>
           i \in DOMAIN deferred /\ For(deferred[i], p) /\ work'[i].id = deferred[i].id
      /\ \A i \in DOMAIN deferred : For(deferred[i], p) =>
           i \in DOMAIN work' /\ For(work'[i], p) /\ work'[i].id = deferred[i].id
  BY EmptySeq DEF SamePlaces
<1>2. ASSUME Single(p) PROVE Single(p)'
  <2>1. \A i, j \in DOMAIN deferred : For(deferred[i], p) /\ For(deferred[j], p) => i = j
    BY <1>2 DEF Single
  <2>2. \A i, j \in DOMAIN work' : i < j /\ For(work'[i], p) /\ For(work'[j], p) => isDue(work'[i])
    <3>1. ASSUME NEW i \in DOMAIN work', NEW j \in DOMAIN work', i < j, For(work'[i], p), For(work'[j], p)
          PROVE  FALSE
      <4>1. i = j /\ i \in DOMAIN deferred
        BY <1>1, <2>1, <3>1
      <4>2. i \in Nat
        BY <4>1
      <4>3. QED BY <3>1, <4>1, <4>2
    <3>2. QED BY <3>1
  <2>3. QED BY <1>1, <2>2 DEF Single
<1>3. ASSUME Bright(p), lastCalled'[p] = lastCalled[p], light'[p] = light[p] PROVE Bright(p)'
  <2>1. /\ \A l : Agrees(p, l)' <=> Agrees(p, l)
        /\ Agrees(p, light[p])' <=> Agrees(p, light[p])
    BY <1>3 DEF Agrees
  <2>2. /\ \A i \in DOMAIN work' : Decides(work'[i], p) =>
             i \in DOMAIN deferred /\ Decides(deferred[i], p) /\ work'[i].id = deferred[i].id
        /\ \A i \in DOMAIN deferred : Decides(deferred[i], p) =>
             i \in DOMAIN work' /\ Decides(work'[i], p)
    BY <1>1 DEF Decides
  <2>3. \A i \in DOMAIN work' : Decides(work'[i], p) =>
          \A l : l = isOnScene(p[2], work'[i].id) => Agrees(p, l)'
    BY <1>3, <2>1, <2>2 DEF Bright
  <2>4. (\A e \in AllDeferred' : ~Decides(e, p)) => Agrees(p, light[p])'
    <3>1. ASSUME \A e \in AllDeferred' : ~Decides(e, p) PROVE \A e \in AllDeferred : ~Decides(e, p)
      BY <1>1, <2>2, <3>1 DEF AllDeferred
    <3>2. QED BY <1>3, <2>1, <3>1 DEF Bright
  <2>5. QED BY <1>1, <2>3, <2>4 DEF Bright
<1>4. QED BY <1>2, <1>3

(* A call that does not reach the group leaves its events. *)
LEMMA PassedBy ==
  ASSUME SceneTypeOK, NEW o \in Origins, NEW at \in CallZones \X CallGroups,
         NEW s \in CalledScenes, CallScene(o, at, s), NEW p, ~Reaches(at, p)
  PROVE  SamePlaces(p)
<1>1. /\ Begins("scene", o, at, s) /\ s \in 0 .. 127 /\ Len(callLog) + 1 \in CallNo
      /\ work = <<>> /\ deferred' = <<>>
  BY SceneShape, SceneAssumption DEF Begins, CallNumber
<1>2. \A i \in DOMAIN deferred : deferred[i] \in DeferredEvent
  BY Listed
<1>3. \A age \in {0, Timeout} : ~For(New("scene", o, at, s, age), p)
  BY DEF New, For
<1>4. CASE Adds(Flushed(o), New("scene", o, at, s, Timeout))
  <2>1. \A i \in DOMAIN deferred : Variant(work'[i], deferred[i])
    BY <1>2, <1>4, Variants DEF Adds, Flushed
  <2>2. \A i \in DOMAIN deferred : /\ For(work'[i], p) <=> For(deferred[i], p)
                                   /\ work'[i].id = deferred[i].id
    BY <2>1 DEF For, Variant
  <2>3. QED BY <1>1, <1>3, <1>4, <2>2 DEF SamePlaces, Adds
<1>5. CASE Adds(deferred, New("scene", o, at, s, 0))
  BY <1>1, <1>3, <1>5 DEF SamePlaces, Adds
<1>6. CASE /\ First(Followed(o, at, s)) \in Followed(o, at, s)
           /\ Joins(First(Followed(o, at, s)), Absorb(deferred[First(Followed(o, at, s))], s))
  <2> DEFINE k == First(Followed(o, at, s))
             x == Absorb(deferred[k], s)
  <2>1. k \in DOMAIN deferred /\ deferred[k].at = at /\ Joins(k, x)
    BY <1>6 DEF Followed, Follows
  <2>2. x.at = deferred[k].at
    BY <1>1, <1>2, <2>1, JoinedEvents
  <2> HIDE DEF k, x
  <2>3. ~For(x, p) /\ ~For(deferred[k], p)
    BY <2>1, <2>2 DEF For
  <2>4. QED BY <1>1, <2>1, <2>3 DEF SamePlaces, Joins
<1>7. QED BY <1>4, <1>5, <1>6, SceneShape

(* nor does a click touch the scenes *)
LEMMA ClickedBy ==
  ASSUME SceneTypeOK, NEW o \in Buttons, NEW c \in Clicks, ButtonClick(o, c), NEW p
  PROVE  SamePlaces(p)
<1>1. /\ Begins("button", o, << 0 >>, c) /\ c \in 0 .. 127 /\ Len(callLog) + 1 \in CallNo
      /\ work = <<>> /\ deferred' = <<>>
  BY ClickShape DEF Begins, CallNumber
<1>2. \A i \in DOMAIN deferred : deferred[i] \in DeferredEvent
  BY Listed
<1>3. ASSUME NEW age \in {0, Timeout}, Adds(deferred, New("button", o, << 0 >>, c, age))
      PROVE  SamePlaces(p)
  <2>1. ~For(New("button", o, << 0 >>, c, age), p)
    BY DEF New, For
  <2>2. QED BY <1>1, <1>3, <2>1 DEF SamePlaces, Adds
<1>4. ASSUME NEW k \in FollowedClick(o, c), Joins(k, AbsorbClick(deferred[k], c))
      PROVE  SamePlaces(p)
  <2> DEFINE x == AbsorbClick(deferred[k], c)
  <2>1. k \in DOMAIN deferred /\ deferred[k].kind = "button" /\ Joins(k, x)
    BY <1>4 DEF FollowedClick
  <2>2. x.kind = deferred[k].kind
    BY <1>1, <1>2, <2>1, JoinedEvents
  <2> HIDE DEF x
  <2>3. ~For(x, p) /\ ~For(deferred[k], p)
    BY <2>1, <2>2 DEF For
  <2>4. QED BY <1>1, <2>1, <2>3 DEF SamePlaces, Joins
<1>5. QED BY <1>3, <1>4, ClickShape

(* A call that reaches the group and does not overlap: its event is the    *)
(* last one for the group, those before it are due.                        *)
ReachedAt(p, s, l) ==
  /\ deferred' = <<>> /\ work = <<>>
  /\ l \in DOMAIN work' /\ For(work'[l], p) /\ work'[l].id = s
  /\ \A i \in DOMAIN work' : i # l /\ For(work'[i], p) =>
       /\ i < l /\ isDue(work'[i])
       /\ i \in DOMAIN deferred /\ For(deferred[i], p) /\ work'[i].id = deferred[i].id
  /\ ~rememberScene(s) =>
       \A i \in DOMAIN deferred : For(deferred[i], p) =>
         i \in DOMAIN work' /\ i # l /\ For(work'[i], p) /\ work'[i].id = deferred[i].id

(* a call of a scene leaves its group so *)
LEMMA ReachedCall ==
  ASSUME SceneTypeOK, NEW o \in Origins, NEW at \in CallZones \X CallGroups,
         NEW s \in CalledScenes, CallScene(o, at, s), NEW p \in Lit \ disturbed', Reaches(at, p)
  PROVE  \E l \in DOMAIN work' : ReachedAt(p, s, l)
<1>1. /\ Begins("scene", o, at, s) /\ s \in 0 .. 127 /\ Len(callLog) + 1 \in CallNo
      /\ work = <<>> /\ deferred' = <<>>
  BY SceneShape, SceneAssumption DEF Begins, CallNumber
<1>2. \A i \in DOMAIN deferred : deferred[i] \in DeferredEvent
  BY Listed
<1>3. \A age \in {0, Timeout} : /\ For(New("scene", o, at, s, age), p)
                                /\ New("scene", o, at, s, age).id = s
  BY DEF New, For
<1>4. ~Overlaps(o, at, s, p)
  BY QuietCall
<1>5. CASE passThrough(o, at, s) /\ Adds(Flushed(o), New("scene", o, at, s, Timeout))
  <2> DEFINE l == Len(deferred) + 1
  <2>1. \A i \in DOMAIN deferred : Variant(work'[i], deferred[i])
    BY <1>2, <1>5, Variants DEF Adds, Flushed
  <2>2. \A i \in DOMAIN deferred : /\ For(work'[i], p) <=> For(deferred[i], p)
                                   /\ work'[i].id = deferred[i].id
    BY <2>1 DEF For, Variant
  <2>3. ASSUME NEW i \in DOMAIN deferred, For(deferred[i], p)
        PROVE  isDue(work'[i])
    <3>1. deferred[i].kind = "scene" /\ deferred[i].origin = o
      BY <1>4, <1>5, <2>3 DEF Overlaps, For
    <3>2. work'[i] = [deferred[i] EXCEPT !.age = Timeout]
      BY <1>5, <3>1 DEF Adds, Flushed
    <3>3. work'[i].age = Timeout /\ Timeout >= Timeout
      BY <1>2, <3>2, Variants DEF Timeout
    <3>4. QED BY <3>3 DEF isDue
  <2>4. /\ DOMAIN work' = DOMAIN deferred \cup {l} /\ \A i \in DOMAIN deferred : i < l /\ i # l
        /\ For(work'[l], p) /\ work'[l].id = s
    <3>1. Len(deferred) \in Nat /\ DOMAIN deferred = 1 .. Len(deferred)
      BY Listed
    <3>2. QED BY <1>3, <1>5, <3>1 DEF Adds
  <2> HIDE DEF l
  <2>5. ReachedAt(p, s, l)
    BY <1>1, <2>2, <2>3, <2>4 DEF ReachedAt
  <2>6. QED BY <2>4, <2>5
<1>6. CASE /\ ~passThrough(o, at, s) /\ Followed(o, at, s) = {}
           /\ Adds(deferred, New("scene", o, at, s, 0))
  <2> DEFINE l == Len(deferred) + 1
  <2>1. \A i \in DOMAIN deferred : ~For(deferred[i], p)
    BY <1>4, <1>6 DEF Overlaps, For
  <2>2. /\ DOMAIN work' = DOMAIN deferred \cup {l} /\ \A i \in DOMAIN deferred : work'[i] = deferred[i]
        /\ For(work'[l], p) /\ work'[l].id = s
    BY <1>3, <1>6 DEF Adds
  <2> HIDE DEF l
  <2>3. ReachedAt(p, s, l)
    BY <1>1, <2>1, <2>2 DEF ReachedAt
  <2>4. QED BY <2>2, <2>3
<1>7. CASE /\ ~passThrough(o, at, s) /\ First(Followed(o, at, s)) \in Followed(o, at, s)
           /\ Joins(First(Followed(o, at, s)), Absorb(deferred[First(Followed(o, at, s))], s))
  <2> DEFINE k == First(Followed(o, at, s))
             x == Absorb(deferred[k], s)
  <2>1. k \in DOMAIN deferred /\ Follows(o, at, s, deferred[k]) /\ Joins(k, x)
    BY <1>7 DEF Followed
  <2>2. deferred[k].kind = "scene" /\ deferred[k].at = at /\ For(deferred[k], p)
    BY <2>1 DEF Follows, For
  <2>3. /\ \A i \in DOMAIN deferred : For(deferred[i], p) => i = k
        /\ rememberScene(s)
    BY <1>4, <1>7, <2>1, <2>2 DEF Overlaps, For
  <2>4. ~Prolongs(deferred[k], s)
    BY <2>3, Undecided DEF Prolongs
  <2>5. x.kind = "scene" /\ x.at = at /\ x.id = s
    BY <1>1, <1>2, <2>1, <2>2, <2>4, JoinedEvents
  <2> HIDE DEF k, x
  <2>6. For(x, p)
    BY <2>5 DEF For
  <2>7. ReachedAt(p, s, k)
    BY <1>1, <2>1, <2>3, <2>5, <2>6 DEF ReachedAt, Joins
  <2>8. QED BY <2>1, <2>7 DEF Joins
<1>8. QED BY <1>5, <1>6, <1>7, SceneShape

(* then the last event for the group decides with the remembered scene *)
LEMMA ReachedEvents ==
  ASSUME DOMAIN work' \subseteq Nat, NEW p \in Lit, NEW s, NEW l, ReachedAt(p, s, l),
         IF rememberScene(s) THEN lastCalled'[p] = s
         ELSE lastCalled'[p] = lastCalled[p] /\ isOnScene(p[2], s) = "dontcare",
         light'[p] = light[p]
  PROVE  Single(p)' /\ (Bright(p) => Bright(p)')
<1>1. /\ work = <<>> /\ deferred' = <<>> /\ DOMAIN <<>> = {}
      /\ l \in DOMAIN work' /\ For(work'[l], p) /\ work'[l].id = s
      /\ \A i \in DOMAIN work' : i # l /\ For(work'[i], p) =>
           /\ i < l /\ isDue(work'[i])
           /\ i \in DOMAIN deferred /\ For(deferred[i], p) /\ work'[i].id = deferred[i].id
      /\ ~rememberScene(s) =>
           \A i \in DOMAIN deferred : For(deferred[i], p) =>
             i \in DOMAIN work' /\ i # l /\ For(work'[i], p) /\ work'[i].id = deferred[i].id
  BY EmptySeq DEF ReachedAt
<1>2. \A i, j \in DOMAIN work' : i < j /\ For(work'[i], p) /\ For(work'[j], p) => isDue(work'[i])
  <2>1. ASSUME NEW i \in DOMAIN work', NEW j \in DOMAIN work', i < j,
               For(work'[i], p), For(work'[j], p), i = l
        PROVE  FALSE
    <3>1. i \in Nat /\ j \in Nat /\ j # l
      BY <2>1
    <3>2. j < l
      BY <1>1, <2>1, <3>1
    <3>3. QED BY <2>1, <3>1, <3>2
  <2>2. QED BY <1>1, <2>1
<1>3. Single(p)'
  BY <1>1, <1>2 DEF Single
<1>4. ASSUME Bright(p) PROVE Bright(p)'
  <2>1. CASE rememberScene(s) \/ isOnScene(p[2], s) # "dontcare"
    <3>1. lastCalled'[p] = s
      BY <2>1
    <3>2. CASE isOnScene(p[2], s) = "dontcare"
      <4>1. (\A x : Agrees(p, x)') /\ Agrees(p, light[p])'
        BY <3>1, <3>2 DEF Agrees
      <4>2. QED BY <1>1, <4>1 DEF Bright
    <3>3. CASE isOnScene(p[2], s) # "dontcare"
      <4>1. \A x : x = isOnScene(p[2], s) => Agrees(p, x)'
        BY <3>1 DEF Agrees
      <4>2. Decides(work'[l], p)
        BY <1>1, <3>3 DEF Decides
      <4>3. \A i \in DOMAIN work' : i = l \/ ~Decides(work'[i], p) \/ l > i
        <5>1. \A i \in DOMAIN work' : i < l => l > i
          OBVIOUS
        <5>2. QED BY <1>1, <5>1 DEF Decides
      <4>4. work'[l] \in AllDeferred'
        BY <1>1 DEF AllDeferred
      <4>5. \A i \in DOMAIN work' :
               Decides(work'[i], p) /\ (\A j \in DOMAIN work' : j > i => ~Decides(work'[j], p))
                 => i = l
        BY <1>1, <4>2, <4>3
      <4>6. QED BY <1>1, <4>1, <4>2, <4>4, <4>5 DEF Bright
    <3>4. QED BY <3>2, <3>3
  <2>2. CASE ~rememberScene(s) /\ isOnScene(p[2], s) = "dontcare"
    <3>1. lastCalled'[p] = lastCalled[p]
      BY <2>2
    <3>2. /\ \A x : Agrees(p, x)' <=> Agrees(p, x)
          /\ Agrees(p, light[p])' <=> Agrees(p, light[p])
      BY <3>1 DEF Agrees
    <3>3. ~Decides(work'[l], p)
      BY <1>1, <2>2 DEF Decides
    <3>4. /\ \A i \in DOMAIN work' : Decides(work'[i], p) =>
               i \in DOMAIN deferred /\ Decides(deferred[i], p) /\ work'[i].id = deferred[i].id
          /\ \A i \in DOMAIN deferred : Decides(deferred[i], p) =>
               i \in DOMAIN work' /\ Decides(work'[i], p)
      BY <1>1, <2>2, <3>3 DEF Decides
    <3>5. \A i \in DOMAIN work' : Decides(work'[i], p) =>
            \A x : x = isOnScene(p[2], work'[i].id) => Agrees(p, x)'
      BY <1>4, <3>2, <3>4 DEF Bright
    <3>6. (\A e \in AllDeferred' : ~Decides(e, p)) => Agrees(p, light[p])'
      <4>1. ASSUME \A e \in AllDeferred' : ~Decides(e, p) PROVE \A e \in AllDeferred : ~Decides(e, p)
        BY <1>1, <3>4, <4>1 DEF AllDeferred
      <4>2. QED BY <1>4, <3>2, <4>1 DEF Bright
    <3>7. QED BY <1>1, <3>5, <3>6 DEF Bright
  <2>3. QED BY <2>1, <2>2
<1>5. QED BY <1>3, <1>4

(* a visit of an event, for a group that is not disturbed *)
LEMMA VisitedEvents ==
  ASSUME SceneTypeOK, HarmlessOK, Visiting, NEW p \in Lit \ disturbed, Single(p), Bright(p)
  PROVE  Single(p)' /\ Bright(p)'
<1>1. /\ Now = work[1] /\ 1 \in DOMAIN work /\ DOMAIN work' \subseteq Nat
      /\ \A i \in DOMAIN work' : i + 1 \in DOMAIN work /\ work'[i] = work[i + 1]
      /\ \A j \in DOMAIN work : j # 1 =>
           /\ j - 1 \in DOMAIN work' /\ work'[j - 1] = work[j]
           /\ \A i \in DOMAIN work' : /\ j < i + 1 => j - 1 < i
                                      /\ j > i + 1 => j - 1 > i
      /\ \A j \in DOMAIN work : ~(j < 1)
  BY TailShape
<1>2. /\ UNCHANGED <<lastCalled, disturbed>> /\ Lights /\ Now \in AllDeferred
      /\ Leaves \/ \E e \in DeferredEvent : Stays(e)
      /\ Leaves => \/ Now.kind = "scene" => Now.origin \in Missing
                   \/ /\ isDue(Now)
                      /\ \/ Now.called
                         \/ light' = [x \in Lit |-> IF Reaches(Now.at, x) THEN OnState(x, Now.id)
                                                    ELSE light[x]]
  BY VisitShape
<1>3. /\ \A i \in DOMAIN work' : 1 < i + 1 /\ i + 1 # 1
      /\ \A i, j \in DOMAIN work' : i < j => i + 1 < j + 1
  <2>1. \A i \in DOMAIN work' : i \in Nat /\ i + 1 \in DOMAIN work
    BY <1>1
  <2>2. \A i \in DOMAIN work' : i + 1 # 1
    <3>1. DOMAIN work' = 1 .. Len(work) - 1
      BY VisitShape, ListFacts DEF SceneTypeOK
    <3>2. Len(work) \in Nat
      BY Listed
    <3>3. QED BY <3>1, <3>2
  <2>3. QED BY <2>1, <2>2
<1>4. ASSUME NEW i \in DOMAIN work', For(Now, p), For(work'[i], p) PROVE isDue(Now)
  BY <1>1, <1>3, <1>4 DEF Single
<1>5. \A i, j \in DOMAIN work' : i < j /\ For(work'[i], p) /\ For(work'[j], p) => isDue(work'[i])
  BY <1>1, <1>3 DEF Single
<1>6. /\ \A x : Agrees(p, x)' <=> Agrees(p, x)
      /\ Agrees(p, light[p])' <=> Agrees(p, light'[p])
  BY <1>2 DEF Agrees
<1>7. \A i \in DOMAIN work' :
        Decides(work'[i], p) /\ (\A j \in DOMAIN work' : j > i => ~Decides(work'[j], p))
          => Agrees(p, isOnScene(p[2], work'[i].id))
  <2> SUFFICES ASSUME NEW i \in DOMAIN work', Decides(work'[i], p),
                      \A j \in DOMAIN work' : j > i => ~Decides(work'[j], p)
               PROVE  Agrees(p, isOnScene(p[2], work'[i].id))
    OBVIOUS
  <2>1. i + 1 \in DOMAIN work /\ work'[i] = work[i + 1]
    BY <1>1
  <2>2. ASSUME NEW j \in DOMAIN work, j > i + 1 PROVE ~Decides(work[j], p)
    <3>1. j # 1
      BY <1>1, <2>2
    <3>2. j - 1 \in DOMAIN work' /\ work'[j - 1] = work[j] /\ j - 1 > i
      BY <1>1, <2>2, <3>1
    <3>3. QED BY <3>2
  <2>3. QED BY <2>1, <2>2 DEF Bright
<1>8. ASSUME ~Decides(Now, p) PROVE light'[p] = light[p]
  <2>1. CASE Now.kind = "scene" /\ Reaches(Now.at, p)
    <3>1. OnState(p, Now.id) = light[p]
      BY <1>8, <2>1 DEF Decides, For, OnState
    <3>2. QED BY <1>2, <3>1 DEF Lights
  <2>2. CASE ~(Now.kind = "scene" /\ Reaches(Now.at, p))
    BY <1>2, <2>2 DEF Lights
  <2>3. QED BY <2>1, <2>2
<1>9. ASSUME \A i \in DOMAIN deferred : ~Decides(deferred[i], p),
             \A i \in DOMAIN work' : ~Decides(work'[i], p), ~Decides(Now, p)
      PROVE  Agrees(p, light[p])
  <2>1. \A j \in DOMAIN work : ~Decides(work[j], p)
    <3>1. \A j \in DOMAIN work : j # 1 => ~Decides(work[j], p)
      BY <1>1, <1>9
    <3>2. QED BY <1>1, <1>9, <3>1
  <2>2. \A e \in AllDeferred : ~Decides(e, p)
    BY <1>9, <2>1 DEF AllDeferred
  <2>3. QED BY <2>2 DEF Bright
<1>10. CASE Leaves
  <2>1. deferred' = deferred
    BY <1>10 DEF Leaves
  <2>2. Single(p)'
    <3>1. \A i \in DOMAIN deferred : \A j \in DOMAIN work' : ~(For(deferred[i], p) /\ For(work'[j], p))
      BY <1>1 DEF Single
    <3>2. \A i, j \in DOMAIN deferred : For(deferred[i], p) /\ For(deferred[j], p) => i = j
      BY DEF Single
    <3>3. QED BY <1>5, <2>1, <3>1, <3>2 DEF Single
  <2>3. (\A e \in AllDeferred' : ~Decides(e, p)) => Agrees(p, light'[p])
    <3> SUFFICES ASSUME \A e \in AllDeferred' : ~Decides(e, p) PROVE Agrees(p, light'[p])
      OBVIOUS
    <3>1. /\ \A i \in DOMAIN deferred : ~Decides(deferred[i], p)
          /\ \A i \in DOMAIN work' : ~Decides(work'[i], p)
      BY <2>1 DEF AllDeferred
    <3>2. CASE ~Decides(Now, p)
      BY <1>8, <1>9, <3>1, <3>2
    <3>3. CASE Decides(Now, p)
      <4>1. Now.kind = "scene" /\ Reaches(Now.at, p) /\ isOnScene(p[2], Now.id) # "dontcare"
        BY <3>3 DEF Decides, For
      <4>2. Now.origin \notin Missing /\ ~Now.called
        <5>1. Now.origin \notin Missing /\ (Now.called => isDimSequence(Now.id))
          BY <1>2, <4>1 DEF HarmlessOK, Harmless
        <5>2. ~isDimSequence(Now.id)
          BY <4>1, Undecided, LitFacts
        <5>3. QED BY <5>1, <5>2
      <4>3. light'[p] = isOnScene(p[2], Now.id)
        BY <1>2, <1>10, <4>1, <4>2 DEF OnState
      <4>4. \A j \in DOMAIN work : j > 1 => ~Decides(work[j], p)
        <5>1. \A j \in DOMAIN work : j # 1 => ~Decides(work[j], p)
          BY <1>1, <3>1
        <5>2. QED BY <5>1
      <4>5. Agrees(p, isOnScene(p[2], Now.id))
        BY <1>1, <3>3, <4>4 DEF Bright
      <4>6. QED BY <4>3, <4>5
    <3>4. QED BY <3>2, <3>3
  <2>4. Bright(p)'
    <3>1. \A i \in DOMAIN deferred : Decides(deferred[i], p) =>
            Agrees(p, isOnScene(p[2], deferred[i].id))
      BY DEF Bright
    <3>2. QED BY <1>6, <1>7, <2>1, <2>3, <3>1 DEF Bright
  <2>5. QED BY <2>2, <2>4
<1>11. ASSUME NEW e \in DeferredEvent, Stays(e)
       PROVE  Single(p)' /\ Bright(p)'
  <2> DEFINE n == Len(deferred) + 1
  <2>1. /\ DOMAIN deferred' = DOMAIN deferred \cup {n} /\ n \notin DOMAIN deferred
        /\ deferred'[n] = e /\ \A i \in DOMAIN deferred : deferred'[i] = deferred[i]
    BY <1>11, StaysShape
  <2>2. ~isDue(Now) /\ e.id = Now.id /\ (For(e, p) <=> For(Now, p)) /\ (Decides(e, p) <=> Decides(Now, p))
    BY <1>11, VariantDecides DEF Stays
  <2> HIDE DEF n
  <2>3. For(Now, p) => /\ \A i \in DOMAIN deferred : ~For(deferred[i], p)
                       /\ \A j \in DOMAIN work' : ~For(work'[j], p)
    BY <1>1, <1>4, <2>2 DEF Single
  <2>4. Single(p)'
    <3>1. \A i \in DOMAIN deferred' : \A j \in DOMAIN work' : ~(For(deferred'[i], p) /\ For(work'[j], p))
      <4>1. \A i \in DOMAIN deferred : \A j \in DOMAIN work' : ~(For(deferred[i], p) /\ For(work'[j], p))
        BY <1>1 DEF Single
      <4>2. QED BY <2>1, <2>2, <2>3, <4>1
    <3>2. \A i, j \in DOMAIN deferred' : For(deferred'[i], p) /\ For(deferred'[j], p) => i = j
      <4>1. \A i, j \in DOMAIN deferred : For(deferred[i], p) /\ For(deferred[j], p) => i = j
        BY DEF Single
      <4>2. QED BY <2>1, <2>2, <2>3, <4>1
    <3>3. QED BY <1>5, <3>1, <3>2 DEF Single
  <2>5. Decides(Now, p) => Agrees(p, isOnScene(p[2], e.id))
    <3> SUFFICES ASSUME Decides(Now, p) PROVE Agrees(p, isOnScene(p[2], Now.id))
      BY <2>2
    <3>1. \A j \in DOMAIN work' : ~Decides(work'[j], p)
      BY <2>3 DEF Decides
    <3>2. \A j \in DOMAIN work : j > 1 => ~Decides(work[j], p)
      <4>1. \A j \in DOMAIN work : j # 1 => ~Decides(work[j], p)
        BY <1>1, <3>1
      <4>2. QED BY <4>1
    <3>3. QED BY <1>1, <3>2 DEF Bright
  <2>6. \A i \in DOMAIN deferred' : Decides(deferred'[i], p) =>
          Agrees(p, isOnScene(p[2], deferred'[i].id))
    <3>1. \A i \in DOMAIN deferred : Decides(deferred[i], p) =>
            Agrees(p, isOnScene(p[2], deferred[i].id))
      BY DEF Bright
    <3>2. QED BY <2>1, <2>2, <2>5, <3>1
  <2>7. (\A d \in AllDeferred' : ~Decides(d, p)) => Agrees(p, light'[p])
    <3> SUFFICES ASSUME \A d \in AllDeferred' : ~Decides(d, p) PROVE Agrees(p, light'[p])
      OBVIOUS
    <3>1. /\ \A i \in DOMAIN deferred' : ~Decides(deferred'[i], p)
          /\ \A i \in DOMAIN work' : ~Decides(work'[i], p)
      BY DEF AllDeferred
    <3>2. ~Decides(Now, p) /\ \A i \in DOMAIN deferred : ~Decides(deferred[i], p)
      BY <2>1, <2>2, <3>1
    <3>3. QED BY <1>8, <1>9, <3>1, <3>2
  <2>8. Bright(p)'
    BY <1>6, <1>7, <2>6, <2>7 DEF Bright
  <2>9. QED BY <2>4, <2>8
<1>12. QED BY <1>2, <1>10, <1>11

(* Every step keeps what is known of a group that is not disturbed. *)
LEMMA QuietStep ==
  ASSUME SceneTypeOK, SceneTypeOK', HarmlessOK, [SceneNext]_sceneVars,
         NEW p \in Lit \ disturbed', Single(p), Bright(p)
  PROVE  Single(p)' /\ Bright(p)'
<1>0. p \in Lit \ disturbed
  BY DisturbedStep
<1>d. /\ DOMAIN deferred \subseteq Nat /\ DOMAIN <<>> = {}
      /\ \A i \in DOMAIN deferred : deferred[i] \in DeferredEvent
      /\ DOMAIN work' \subseteq Nat
  <2>1. work' \in Seq(DeferredEvent)
    BY DEF SceneTypeOK
  <2>2. DOMAIN work' = 1 .. Len(work') /\ Len(work') \in Nat
    BY <2>1, ListFacts
  <2>3. QED BY <2>2, Listed, EmptySeq
<1>1. ASSUME NEW o \in Origins, NEW at \in CallZones \X CallGroups, NEW s \in CalledScenes,
             CallScene(o, at, s)
      PROVE  Single(p)' /\ Bright(p)'
  <2>1. CASE Reaches(at, p)
    <3>1. PICK l \in DOMAIN work' : ReachedAt(p, s, l)
      BY <1>1, <2>1, ReachedCall
    <3>2. /\ light'[p] = light[p]
          /\ IF rememberScene(s) THEN lastCalled'[p] = s
             ELSE lastCalled'[p] = lastCalled[p] /\ isOnScene(p[2], s) = "dontcare"
      BY <1>1, <2>1, QuietCall
    <3>3. QED BY <1>d, <3>1, <3>2, ReachedEvents
  <2>2. CASE ~Reaches(at, p)
    <3>1. SamePlaces(p) /\ light'[p] = light[p] /\ lastCalled'[p] = lastCalled[p]
      BY <1>1, <2>2, PassedBy, QuietCall
    <3>2. QED BY <1>d, <3>1, SameEvents
  <2>3. QED BY <2>1, <2>2
<1>2. ASSUME NEW o \in Buttons, NEW c \in Clicks, ButtonClick(o, c)
      PROVE  Single(p)' /\ Bright(p)'
  <2>1. SamePlaces(p) /\ light'[p] = light[p] /\ lastCalled'[p] = lastCalled[p]
    BY <1>2, ClickedBy DEF ButtonClick
  <2>2. QED BY <1>d, <2>1, SameEvents
<1>3. CASE TakeDeferred
  <2>1. SamePlaces(p) /\ light'[p] = light[p] /\ lastCalled'[p] = lastCalled[p]
    BY <1>3 DEF TakeDeferred, Waiting, SamePlaces
  <2>2. QED BY <1>d, <2>1, SameEvents
<1>4. CASE Undoing
  <2>1. PICK at \in CallZones \X CallGroups, s \in CalledScenes \cup {LastScene} : UndoScene(at, s)
    BY <1>4 DEF Undoing
  <2>2. SamePlaces(p)
    BY <2>1 DEF UndoScene, EventIsNext, Waiting, SamePlaces
  <2>3. p \in Places
    BY LitFacts
  <2>4. CASE ~Reaches(at, p)
    <3>1. light'[p] = light[p]
      BY <2>1, <2>4 DEF UndoScene
    <3>2. lastCalled'[p] = lastCalled[p]
      BY <2>1, <2>3, <2>4 DEF UndoScene, Undone
    <3>3. QED BY <1>d, <2>2, <3>1, <3>2, SameEvents
  <2>5. CASE Reaches(at, p)
    <3>1. \A i \in DOMAIN deferred : ~For(deferred[i], p)
      BY <2>1, <2>5 DEF UndoScene, For
    <3>2. work' = deferred /\ deferred' = <<>>
      BY <2>1 DEF UndoScene
    <3>3. light'[p] = OnState(p, lastCalled'[p])
      BY <2>1, <2>5 DEF UndoScene
    <3>4. Agrees(p, light[p])'
      BY <3>3 DEF Agrees, OnState
    <3>5. \A i \in DOMAIN work' : ~Decides(work'[i], p)
      BY <3>1, <3>2 DEF Decides
    <3>6. Bright(p)'
      BY <1>d, <3>2, <3>4, <3>5 DEF Bright
    <3>7. QED BY <1>d, <2>2, <3>6, SameEvents
  <2>6. QED BY <2>4, <2>5
<1>5. CASE Visiting
  BY <1>0, <1>5, VisitedEvents
<1>6. CASE Tick
  <2>1. /\ DOMAIN deferred' = DOMAIN deferred /\ DOMAIN work' = DOMAIN work
        /\ \A i \in DOMAIN deferred : Variant(deferred'[i], deferred[i])
        /\ \A i \in DOMAIN work : /\ Variant(work'[i], work[i])
                                  /\ isDue(work[i]) => isDue(work'[i])
        /\ UNCHANGED <<lastCalled, light>>
    BY <1>6, TickShape
  <2>2. /\ \A i \in DOMAIN deferred : /\ For(deferred'[i], p) <=> For(deferred[i], p)
                                      /\ Decides(deferred'[i], p) <=> Decides(deferred[i], p)
                                      /\ deferred'[i].id = deferred[i].id
        /\ \A i \in DOMAIN work : /\ For(work'[i], p) <=> For(work[i], p)
                                  /\ Decides(work'[i], p) <=> Decides(work[i], p)
                                  /\ work'[i].id = work[i].id
    BY <2>1, VariantDecides
  <2>3. /\ \A x : Agrees(p, x)' <=> Agrees(p, x)
        /\ Agrees(p, light[p])' <=> Agrees(p, light[p])
    BY <2>1 DEF Agrees
  <2>4. Single(p)'
    BY <2>1, <2>2 DEF Single
  <2>5. (\A e \in AllDeferred' : ~Decides(e, p)) => (\A e \in AllDeferred : ~Decides(e, p))
    BY <2>1, <2>2 DEF AllDeferred
  <2>6. Bright(p)'
    <3>1. \A i \in DOMAIN deferred' : Decides(deferred'[i], p) =>
            \A x : x = isOnScene(p[2], deferred'[i].id) => Agrees(p, x)'
      BY <2>1, <2>2, <2>3 DEF Bright
    <3>2. \A i \in DOMAIN work' :
            Decides(work'[i], p) /\ (\A j \in DOMAIN work' : j > i => ~Decides(work'[j], p)) =>
            \A x : x = isOnScene(p[2], work'[i].id) => Agrees(p, x)'
      BY <2>1, <2>2, <2>3 DEF Bright
    <3>3. QED BY <2>3, <2>5, <3>1, <3>2 DEF Bright
  <2>7. QED BY <2>4, <2>6
<1>7. CASE UNCHANGED sceneVars
  <2>1. UNCHANGED <<deferred, work, lastCalled, light>>
    BY <1>7 DEF sceneVars
  <2>2. Single(p)'
    BY <2>1 DEF Single
  <2>3. Bright(p)'
    BY <2>1 DEF Bright, Agrees, AllDeferred
  <2>4. QED BY <2>2, <2>3
<1>8. QED BY <1>1, <1>2, <1>3, <1>4, <1>5, <1>6, <1>7, Steps

(***************************************************************************)
(* The theorems                                                            *)
(***************************************************************************)

(* With an empty list, nothing called and no state known, all of it holds. *)
LEMMA InitSceneInv == SceneInit => SceneInv
<1> SUFFICES ASSUME SceneInit PROVE SceneInv
  OBVIOUS
<1>1. /\ deferred = <<>> /\ work = <<>> /\ callLog = <<>> /\ undos = 0 /\ DOMAIN <<>> = {}
      /\ reported = {} /\ filtered = {} /\ notFound = {} /\ disturbed = {} /\ \A S : <<>> \in Seq(S)
      /\ Len(<<>>) = 0
  BY EmptySeq DEF SceneInit
<1>2. AllDeferred = {} /\ PendingNos = {}
  BY <1>1 DEF AllDeferred, PendingNos
<1>3. SceneTypeOK
  <2>1. lastCalled \in [Places -> 0 .. 127] /\ lastButOne \in [Places -> 0 .. 127]
    BY DEF SceneInit, SceneOff
  <2>2. light \in [Lit -> {"unknown", "on", "off"}]
    BY DEF SceneInit
  <2>3. Len(callLog) + undos <= MaxCalls /\ undos \in Nat
    BY <1>1, SceneAssumption
  <2>4. QED BY <1>1, <2>1, <2>2, <2>3 DEF SceneTypeOK
<1>4. NoCallLost /\ InOrder
  BY <1>1 DEF NoCallLost, InOrder
<1>5. EventsOK /\ DimmingOK /\ HarmlessOK
  BY <1>2 DEF EventsOK, DimmingOK, HarmlessOK
<1>6. PassOK /\ FlushOK /\ SingleOK
  BY <1>1 DEF PassOK, FlushOK, SingleOK, Single
<1>7. LightOK
  <2>1. \A p \in Lit : light[p] = "unknown"
    BY DEF SceneInit
  <2>2. QED BY <1>1, <2>1 DEF LightOK, Bright, Agrees
<1>8. QED BY <1>3, <1>4, <1>5, <1>6, <1>7 DEF SceneInv

(* Every step keeps the invariant. *)
LEMMA NextSceneInv == SceneInv /\ [SceneNext]_sceneVars => SceneInv'
<1> SUFFICES ASSUME SceneInv, [SceneNext]_sceneVars PROVE SceneInv'
  OBVIOUS
<1>1. SceneTypeOK' /\ EventsOK' /\ DimmingOK' /\ NoCallLost' /\ PassOK' /\ FlushOK' /\ InOrder' /\ HarmlessOK'
  BY TypeStep, EventsStep, DimmingStep, LostStep, PassStep, FlushStep, OrderStep, HarmlessStep DEF SceneInv
<1>2. \A p \in Lit \ disturbed' : Single(p)' /\ Bright(p)'
  <2>1. \A p \in Lit \ disturbed' : Single(p) /\ Bright(p)
    BY DisturbedStep DEF SceneInv, SingleOK, LightOK
  <2>2. QED BY <1>1, <2>1, QuietStep DEF SceneInv
<1>3. SingleOK' /\ LightOK'
  BY <1>2 DEF SingleOK, LightOK
<1>4. QED BY <1>1, <1>3 DEF SceneInv

(* SceneInv holds in every reachable state. *)
THEOREM Invariance == SceneSpec => []SceneInv
BY InitSceneInv, NextSceneInv, PTL DEF SceneSpec

(* Every variable keeps its type: the events stand for calls that were     *)
(* made, and scenes and clicks stay in their range.                        *)
THEOREM TypeCorrect == SceneSpec => []SceneTypeOK
<1>1. SceneInv => SceneTypeOK
  BY DEF SceneInv
<1>2. QED BY <1>1, Invariance, PTL

(* No call or click is forgotten while events are merged, flushed, put     *)
(* back and visited: each is deferred, or an event was raised for it or    *)
(* its sequence, or its device is unknown, or it joined a dimming of its   *)
(* dSM and place that was reported before it.  The holdCount of a click is *)
(* the number of its repetitions.                                          *)
THEOREM NothingLostOrMiscounted == SceneSpec => []DeferredIsExact
<1>1. SceneInv => DeferredIsExact
  BY HoldByEvents DEF SceneInv, DeferredIsExact
<1>2. QED BY <1>1, Invariance, PTL

(* A scene that is not delayed is not reported before the earlier ones of  *)
(* its origin, which are flushed.                                          *)
THEOREM ReportedInOrder == SceneSpec => []InOrder
<1>1. SceneInv => InOrder
  BY DEF SceneInv
<1>2. QED BY <1>1, Invariance, PTL

(* The state of a zone's lights agrees with the remembered scene when      *)
(* nothing is deferred for the group and its calls have not overlapped.    *)
THEOREM LightIsRemembered == SceneSpec => []LightFollowsScene
<1>1. SceneInv => LightFollowsScene
  <2> SUFFICES ASSUME SceneInv, NEW p \in Lit \ disturbed,
                      \A e \in AllDeferred : ~(e.kind = "scene" /\ Reaches(e.at, p))
               PROVE  Agrees(p, light[p])
    BY DEF LightFollowsScene, Agrees
  <2>1. \A e \in AllDeferred : ~Decides(e, p)
    BY DEF Decides, For
  <2>2. QED BY <2>1 DEF SceneInv, LightOK, Bright
<1>2. QED BY <1>1, Invariance, PTL
=============================================================================
