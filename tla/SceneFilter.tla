----------------------------- MODULE SceneFilter ----------------------------
(***************************************************************************)
(* Scene calls, undo and button clicks in ModelMaintenance, and the list   *)
(* of deferred events: a scene that may be the first of a sequence of taps *)
(* is reported only kModelSceneTimeout after its last one, and a dimming   *)
(* sequence is reported once.                                              *)
(*                                                                         *)
(* All of it runs on the thread of ModelMaintenance.  A turn of its loop   *)
(* handles one model event and then goes over the deferred events; while   *)
(* it does, they are in work, and the ones that stay are put back.         *)
(***************************************************************************)
EXTENDS Naturals, Sequences, FiniteSets

CONSTANTS
  Origins,       \* who calls: [source : the dSM or Myself, device : bus ID or 0]
  Myself,        \* DSUID_NULL
  Missing,       \* origins whose device is not in the apartment
  Buttons,       \* origins that have a button
  Turbo,         \* the ones whose button is in mode TURBO or SWITCHED
  CallZones, CallGroups,   \* 0: all zones, all groups
  CalledScenes, Clicks,    \* what is called and clicked
  MaxCalls                 \* bound: calls, clicks and undos

ASSUME SceneAssumption ==
  /\ \A o, p \in Origins : o.source = p.source /\ o.device = p.device => o = p
  /\ \A o \in Origins : o.source = Myself => o.device = 0
  /\ \A o \in Missing : o.source # Myself /\ o.device # 0
  /\ Missing \subseteq Origins /\ Buttons \subseteq Origins
  /\ Turbo \subseteq Buttons \ Missing
  /\ CallZones \subseteq Nat /\ CallGroups \subseteq Nat
  /\ CalledScenes \subseteq 0 .. 127 /\ Clicks \subseteq 0 .. 15
  /\ MaxCalls \in Nat

-----------------------------------------------------------------------------
(* Scenes and clicks (modelconst.h, scenehelper.cpp)                       *)

SceneOff == 0
Scene1   == 5
Scene2   == 17
SceneDimArea == 10
(* off, on and the three presets after it, of the five rows of presets *)
PresetRows == {<<0, 5, 17, 18, 19>>, <<32, 33, 20, 21, 22>>,
               <<34, 35, 23, 24, 25>>, <<36, 37, 26, 27, 28>>,
               <<38, 39, 29, 30, 31>>}
OffOfArea == 1 .. 4
OnOfArea  == 6 .. 9
Presets   == UNION {{r[k] : k \in 2 .. 5} : r \in PresetRows}
RowsOff   == {r[1] : r \in PresetRows}
Yellow  == 1
Heating == 3
ControlTemperature == 48

isMultiTipSequence(s) == s \in Presets \cup RowsOff \cup OffOfArea \cup OnOfArea
(* 50 is SceneIncA4 and SceneLocalOff *)
isDimSequence(s) == s \in {10, 11, 12, 42, 43, 44, 45, 46, 47, 48, 50}
rememberScene(s) ==
  ~isDimSequence(s) /\ s \notin {15, 41, 51, 52, 53, 54, 55, 66, 73}

(* the function of one argument that is the table, and SceneOff elsewhere *)
Lookup(table, s) ==
  IF \E p \in table : p[1] = s THEN (CHOOSE p \in table : p[1] = s)[2] ELSE SceneOff
getNextScene(s) ==
  Lookup({<<SceneOff, Scene1>>} \cup
         UNION {{<<r[2], r[3]>>, <<r[3], r[4]>>, <<r[4], r[5]>>, <<r[5], r[3]>>} :
                r \in PresetRows}, s)
getPreviousScene(s) ==
  Lookup(UNION {{<<r[2], r[5]>>, <<r[3], r[2]>>, <<r[4], r[3]>>, <<r[5], r[4]>>} :
                r \in PresetRows}, s)

isOnScene(g, s) ==
  IF s \in RowsOff \cup {68, 69, 40, 64, 67, 72} THEN "off"
  ELSE IF s \in Presets \/ (g = Yellow /\ s \in {65, 76}) THEN "on"
  ELSE "dontcare"

HS == 4
HR == 5
HE == 6

-----------------------------------------------------------------------------
Timeout  == 2                         \* kModelSceneTimeout
ZoneIDs  == CallZones \cup {0}
GroupIDs == CallGroups \cup {0}
Places   == ZoneIDs \X GroupIDs
(* the groups that have a state "zone.<id>.light" or "zone.<id>.heating" *)
Lit      == (ZoneIDs \ {0}) \X (GroupIDs \cap {Yellow, Heating})

VARIABLES
  deferred,    \* m_DeferredEvents
  work,        \* the events the loop over the deferred ones has still to visit
  lastCalled, lastButOne,   \* m_LastCalledScene, m_LastButOneCalledScene
  light,       \* the states of the groups in Lit
  callLog,     \* history: the calls and clicks, in order
  undos,       \* number of undos, for the bound
  reported,    \* history: calls and clicks an event was raised for, alone or as
               \* part of the sequence the event stood for when it was raised
  filtered,    \* history: calls that joined a dimming that was already reported
               \* and went with its event, for which none was raised
  notFound,    \* history: calls whose device is unknown
  disturbed    \* history: groups for which calls have overlapped

sceneVars == <<deferred, work, lastCalled, lastButOne, light, callLog, undos,
               reported, filtered, notFound, disturbed>>

CallNo == 1 .. MaxCalls
(* id is a scene or a click type, at the zone and group or the button;     *)
(* age stands for m_Timestamp; nos are the calls the event stands for      *)
DeferredEvent ==
  [kind : {"scene", "button"}, origin : Origins, at : Places \cup {<< 0 >>},
   id : 0 .. 127, age : 0 .. Timeout, called : BOOLEAN, hold : Nat,
   nos : SUBSET CallNo]

SceneTypeOK ==
  /\ deferred \in Seq(DeferredEvent)
  /\ work \in Seq(DeferredEvent)
  /\ lastCalled \in [Places -> 0 .. 127]
  /\ lastButOne \in [Places -> 0 .. 127]
  /\ light \in [Lit -> {"unknown", "on", "off"}]
  /\ callLog \in Seq([kind : {"scene", "button"}, origin : Origins,
                      at : Places \cup {<< 0 >>}, id : 0 .. 127])
  /\ undos \in Nat
  /\ Len(callLog) + undos <= MaxCalls
  /\ reported \subseteq DOMAIN callLog
  /\ filtered \subseteq DOMAIN callLog
  /\ notFound \subseteq DOMAIN callLog
  /\ disturbed \subseteq Lit

SceneInit ==
  /\ deferred = <<>> /\ work = <<>>
  /\ lastCalled = [p \in Places |-> SceneOff]
  /\ lastButOne = [p \in Places |-> SceneOff]
  /\ light = [p \in Lit |-> "unknown"]
  /\ callLog = <<>> /\ undos = 0
  /\ reported = {} /\ filtered = {} /\ notFound = {} /\ disturbed = {}

isDue(e) == e.age >= Timeout
New(kind, o, at, id, age) ==
  [kind |-> kind, origin |-> o, at |-> at, id |-> id, age |-> age,
   called |-> FALSE, hold |-> 0, nos |-> {Len(callLog) + 1}]

(* handleModelEvents waits for an event, with a timeout *)
Waiting == work = <<>>
EventIsNext == Waiting /\ Len(callLog) + undos < MaxCalls
Logged(kind, o, at, id) ==
  callLog' = Append(callLog, [kind |-> kind, origin |-> o, at |-> at, id |-> id])

-----------------------------------------------------------------------------
(* onGroupCallScene and onGroupCallSceneFiltered                           *)

Reaches(at, p) == at[1] \in {0, p[1]} /\ at[2] \in {0, p[2]}

(* Group::setLastCalledScene, for the group or for all groups of the zone *)
Remembered(at, s) ==
  {p \in Places : rememberScene(s) /\ p[1] = at[1] /\ at[2] \in {0, p[2]}
                  /\ ~(p[2] = ControlTemperature /\ s >= 16) /\ lastCalled[p] # s}

passThrough(o, at, s) ==
  IF isMultiTipSequence(s) THEN o.source = Myself \/ at[2] = 0
  ELSE ~isDimSequence(s)

NotFlushed(o) == deferred
(* flush the scenes of the same origin *)
Flushed(o) ==
  [i \in DOMAIN deferred |->
     IF deferred[i].kind = "scene" /\ deferred[i].origin = o
     THEN [deferred[i] EXCEPT !.age = Timeout] ELSE deferred[i]]

(* dimming goes on: the old event is kept active *)
Prolongs(e, s) == isDimSequence(s) /\ s \in {e.id, SceneDimArea}
(* the old event's scene is the one before, in a sequence of taps *)
Advances(e, s) ==
  \/ e.id = SceneOff /\ s = Scene2
  \/ \E r \in PresetRows : e.id = r[1] /\ s = r[3]
  \/ e.id \in OnOfArea /\ s \in {r[3] : r \in PresetRows}
  \/ e.id \in OffOfArea /\ s \in Scene2 .. 31
  \/ getPreviousScene(s) = e.id
  \/ getNextScene(e.id) = s
Follows(o, at, s, e) ==
  /\ e.kind = "scene" /\ e.at = at /\ e.origin.source = o.source
  /\ o.device \in {0, e.origin.device}
  /\ Prolongs(e, s) \/ Advances(e, s)

First(S) == CHOOSE i \in S : \A j \in S : i <= j
Followed(o, at, s) == {i \in DOMAIN deferred : Follows(o, at, s, deferred[i])}
Absorb(e, s) ==
  [e EXCEPT !.id = IF Prolongs(e, s) THEN @ ELSE s, !.age = 0,
            !.nos = @ \cup {Len(callLog) + 1}]

Filtered(o, at, s) ==
  IF passThrough(o, at, s)
  THEN Append(Flushed(o), New("scene", o, at, s, Timeout))
  ELSE IF Followed(o, at, s) # {}
  THEN [deferred EXCEPT ![First(Followed(o, at, s))] = Absorb(@, s)]
  ELSE Append(deferred, New("scene", o, at, s, 0))

(* For the history disturbed: the call overlaps a deferred one that it     *)
(* does not follow and that is not flushed before it; it takes the place   *)
(* of one without being remembered, or follows one that is reported; it    *)
(* is for all zones; or its origin is not known.                           *)
Overlaps(o, at, s, p) ==
  \/ at[1] = 0 \/ o \in Missing
  \/ \E i \in DOMAIN deferred :
       /\ deferred[i].kind = "scene" /\ Reaches(deferred[i].at, p)
       /\ IF passThrough(o, at, s) THEN deferred[i].origin # o
          ELSE \/ Followed(o, at, s) = {} \/ i # First(Followed(o, at, s))
               \/ deferred[i].called \/ ~rememberScene(s)

CallScene(o, at, s) ==
  /\ EventIsNext
  /\ lastButOne' = [p \in Places |-> IF p \in Remembered(at, s)
                                     THEN lastCalled[p] ELSE lastButOne[p]]
  /\ lastCalled' = [p \in Places |-> IF p \in Remembered(at, s)
                                     THEN s ELSE lastCalled[p]]
  /\ work' = Filtered(o, at, s) /\ deferred' = <<>>
  /\ Logged("scene", o, at, s)
  /\ disturbed' = disturbed \cup {p \in Lit : Reaches(at, p) /\ Overlaps(o, at, s, p)}
  /\ UNCHANGED <<light, undos, reported, filtered, notFound>>

-----------------------------------------------------------------------------
(* onGroupUndoScene, with a scene or, for the last one, -1                 *)
LastScene == 128

(* Group::setOnState *)
OnState(p, s) == IF isOnScene(p[2], s) = "dontcare" THEN light[p]
                 ELSE isOnScene(p[2], s)

Undone(at, s) == {p \in Places : Reaches(at, p) /\ s \in {lastCalled[p], LastScene}}
UndoScene(at, s) ==
  /\ EventIsNext /\ undos' = undos + 1
  /\ lastCalled' = [p \in Places |-> IF p \in Undone(at, s) THEN lastButOne[p]
                                     ELSE lastCalled[p]]
  /\ light' = [p \in Lit |-> IF Reaches(at, p) THEN OnState(p, lastCalled'[p])
                             ELSE light[p]]
  /\ work' = deferred /\ deferred' = <<>>
  /\ disturbed' = disturbed \cup
       {p \in Lit : Reaches(at, p) /\ \E i \in DOMAIN deferred :
          deferred[i].kind = "scene" /\ Reaches(deferred[i].at, p)}
  /\ UNCHANGED <<lastButOne, callLog, reported, filtered, notFound>>

-----------------------------------------------------------------------------
(* onDeviceActionFiltered                                                  *)

Holding(e, c)  == c \in {HR, HE} /\ e.id \in {HS, HR}
NextTip(e, c)  == <<e.id, c>> \in {<<0, 1>>, <<1, 2>>, <<2, 3>>, <<7, 9>>, <<8, 9>>,
                                   <<7, 1>>, <<7, 2>>, <<8, 2>>, <<9, 3>>}
FollowedClick(o, c) ==
  {i \in DOMAIN deferred :
     /\ deferred[i].kind = "button" /\ deferred[i].origin = o
     /\ Holding(deferred[i], c) \/ NextTip(deferred[i], c)}
AbsorbClick(e, c) ==
  [e EXCEPT !.id = c, !.age = 0, !.hold = IF Holding(e, c) THEN @ + 1 ELSE @,
            !.nos = @ \cup {Len(callLog) + 1}]

FilteredClick(o, c) ==
  IF o.source = Myself \/ o \in Turbo
  THEN Append(deferred, New("button", o, << 0 >>, c, Timeout))
  ELSE IF FollowedClick(o, c) # {}
  THEN [deferred EXCEPT ![First(FollowedClick(o, c))] = AbsorbClick(@, c)]
  ELSE Append(deferred, New("button", o, << 0 >>, c, 0))

ButtonClick(o, c) ==
  /\ EventIsNext
  /\ work' = FilteredClick(o, c) /\ deferred' = <<>>
  /\ Logged("button", o, << 0 >>, c)
  /\ UNCHANGED <<lastCalled, lastButOne, light, undos, reported, filtered,
                 notFound, disturbed>>

-----------------------------------------------------------------------------
(* handleDeferredModelEvents                                               *)

(* no model event, or one that is of no interest here *)
TakeDeferred ==
  /\ Waiting /\ deferred # <<>>
  /\ work' = deferred /\ deferred' = <<>>
  /\ UNCHANGED <<lastCalled, lastButOne, light, callLog, undos, reported,
                 filtered, notFound, disturbed>>

Now == Head(work)
Visit(kind) == work # <<>> /\ Now.kind = kind /\ work' = Tail(work)
HistoryOnly == UNCHANGED <<lastCalled, lastButOne, callLog, undos, disturbed>>

(* getByBusID throws: the event is dropped *)
DropEvent ==
  /\ work # <<>> /\ Now.origin \in Missing /\ work' = Tail(work)
  /\ notFound' = notFound \cup Now.nos
  /\ HistoryOnly /\ UNCHANGED <<deferred, light, reported, filtered>>

RaiseOnly == reported' = reported \cup Now.nos /\ UNCHANGED light
(* handleDeferredModelStateChanges and the event callScene *)
RaiseScene ==
  /\ light' = [p \in Lit |-> IF Reaches(Now.at, p) THEN OnState(p, Now.id)
                             ELSE light[p]]
  /\ reported' = reported \cup Now.nos

ReportDue ==
  /\ Visit("scene") /\ Now.origin \notin Missing
  /\ isDue(Now) /\ ~Now.called
  /\ RaiseScene
  /\ HistoryOnly /\ UNCHANGED <<deferred, filtered, notFound>>
(* Nothing is raised: the event was when the dimming began, and the calls  *)
(* that have joined it since then are filtered.                            *)
EndOfDimming ==
  /\ Visit("scene") /\ Now.origin \notin Missing
  /\ isDue(Now) /\ Now.called
  /\ filtered' = filtered \cup (Now.nos \ reported)
  /\ HistoryOnly /\ UNCHANGED <<deferred, light, reported, notFound>>
ReportDimming ==
  /\ Visit("scene") /\ Now.origin \notin Missing
  /\ ~isDue(Now) /\ isDimSequence(Now.id) /\ ~Now.called
  /\ RaiseScene
  /\ deferred' = Append(deferred, [Now EXCEPT !.called = TRUE])
  /\ HistoryOnly /\ UNCHANGED <<filtered, notFound>>
DropScene ==
  /\ Visit("scene") /\ Now.origin \notin Missing
  /\ ~isDue(Now) /\ (isDimSequence(Now.id) => Now.called)
  /\ HistoryOnly /\ UNCHANGED <<deferred, light, reported, filtered, notFound>>
KeepsAndRenews ==
  /\ Visit("scene") /\ Now.origin \notin Missing
  /\ ~isDue(Now) /\ (isDimSequence(Now.id) => Now.called)
  /\ deferred' = Append(deferred, [Now EXCEPT !.age = 0])
  /\ HistoryOnly /\ UNCHANGED <<light, reported, filtered, notFound>>
KeepScene ==
  /\ Visit("scene") /\ Now.origin \notin Missing
  /\ ~isDue(Now) /\ (isDimSequence(Now.id) => Now.called)
  /\ deferred' = Append(deferred, Now)
  /\ HistoryOnly /\ UNCHANGED <<light, reported, filtered, notFound>>

ReportClick ==
  /\ Visit("button") /\ Now.origin \notin Missing
  /\ isDue(Now) \/ Now.id = HE
  /\ reported' = reported \cup Now.nos
  /\ HistoryOnly /\ UNCHANGED <<deferred, light, filtered, notFound>>
KeepClick ==
  /\ Visit("button") /\ Now.origin \notin Missing
  /\ ~isDue(Now) /\ Now.id # HE
  /\ deferred' = Append(deferred, Now)
  /\ HistoryOnly /\ UNCHANGED <<light, reported, filtered, notFound>>

(* a second passes *)
Older(q) == [i \in DOMAIN q |-> IF isDue(q[i]) THEN q[i]
                                ELSE [q[i] EXCEPT !.age = @ + 1]]
Tick ==
  /\ \E q \in {deferred, work} : \E i \in DOMAIN q : ~isDue(q[i])
  /\ deferred' = Older(deferred) /\ work' = Older(work)
  /\ HistoryOnly /\ UNCHANGED <<light, reported, filtered, notFound>>

-----------------------------------------------------------------------------
Deferring == \/ TakeDeferred \/ DropEvent \/ ReportDue \/ EndOfDimming
             \/ ReportDimming \/ KeepScene \/ ReportClick \/ KeepClick
SceneNext ==
  \/ \E o \in Origins, at \in CallZones \X CallGroups, s \in CalledScenes :
       CallScene(o, at, s)
  \/ \E at \in CallZones \X CallGroups, s \in CalledScenes \cup {LastScene} :
       UndoScene(at, s)
  \/ \E o \in Buttons, c \in Clicks : ButtonClick(o, c)
  \/ TakeDeferred \/ DropEvent \/ ReportDue \/ EndOfDimming \/ ReportDimming
  \/ KeepScene \/ ReportClick \/ KeepClick
  \/ Tick

(* the loop of ModelMaintenance runs, and time passes *)
SceneFairness == WF_sceneVars(Deferring) /\ SF_sceneVars(Tick)
SceneSpec == SceneInit /\ [][SceneNext]_sceneVars /\ SceneFairness

-----------------------------------------------------------------------------
(* Properties                                                              *)

AllDeferred == {deferred[i] : i \in DOMAIN deferred} \cup {work[i] : i \in DOMAIN work}
PendingNos  == UNION {e.nos : e \in AllDeferred}

Scene(n) == callLog[n].kind = "scene"
(* n came after a dimming at the same place, and from the same dSM, that   *)
(* was reported                                                            *)
AfterDimming(n) ==
  \E m \in reported :
    /\ m < n /\ Scene(m) /\ Scene(n) /\ isDimSequence(callLog[m].id)
    /\ callLog[m].at = callLog[n].at
    /\ callLog[m].origin.source = callLog[n].origin.source
(* The only calls of a known device that go without an event are the ones  *)
(* behind a reported dimming.                                              *)
Settled(n) == n \in reported \cup notFound \/ (n \in filtered /\ AfterDimming(n))

(* The list of deferred events is swapped away, rebuilt and merged into,   *)
(* and no call or click is forgotten: it is deferred, alone or as part of  *)
(* a sequence, or an event was raised for it or for its sequence, or its   *)
(* device is not known, or it has joined a dimming that was reported.  The *)
(* last kind is never reported, be it dimming or an Off.                   *)
NoCallLost == \A n \in DOMAIN callLog : Settled(n) \/ n \in PendingNos

(* However long its sequence keeps the event alive, each call or click     *)
(* leaves the list in the end: it is reported, unless its device is not    *)
(* known or a dimming that was reported has taken it.                      *)
CallsAreSettled == <>[](\A n \in DOMAIN callLog : Settled(n))

(* A scene that is not delayed is not reported before earlier scenes of    *)
(* the same origin that are: they are flushed.  An origin without a device *)
(* is left out unless it is the server itself: its call may have joined    *)
(* the sequence of a device of its dSM, which is flushed with that one.    *)
(* The calls a reported dimming has taken have no event to be in order.    *)
Named(o) == o.device # 0 \/ o.source = Myself
Passes(n) == Scene(n) /\ passThrough(callLog[n].origin, callLog[n].at, callLog[n].id)
Before(m, n) == /\ m < n /\ Scene(m) /\ callLog[m].origin = callLog[n].origin
                /\ Named(callLog[n].origin)
InOrder ==
  \A m, n \in DOMAIN callLog :
    Before(m, n) /\ Passes(n) /\ n \in reported => Settled(m)

(* The state of a zone's lights, which follows the reports, agrees with    *)
(* the scene the group remembers, which follows calls and undos at once,   *)
(* when nothing is deferred for it; unless calls have overlapped.          *)
LightFollowsScene ==
  \A p \in Lit \ disturbed :
    \/ light[p] \in {"unknown", isOnScene(p[2], lastCalled[p])}
    \/ isOnScene(p[2], lastCalled[p]) = "dontcare"
    \/ \E e \in AllDeferred : e.kind = "scene" /\ Reaches(e.at, p)

(* The holdCount of a click is the number of repetitions it stands for,    *)
(* the end included.                                                       *)
HoldIsCounted ==
  \A e \in AllDeferred :
    e.kind = "button" /\ e.id \in {HR, HE} =>
      e.hold = Cardinality({n \in e.nos : callLog[n].id \in {HR, HE}}) -
               (IF \E n \in e.nos : callLog[n].id = HS THEN 0 ELSE 1)

(* "only report the first dimming event": what joins a dimming after it    *)
(* was reported, and will not be, is dimming.                              *)
OnlyDimmingIsFiltered ==
  \A e \in AllDeferred : e.called => \A n \in e.nos \ reported : isDimSequence(callLog[n].id)

(* The events in the list stand for exactly the calls and clicks that were *)
(* merged into them                                                        *)
DeferredIsExact == NoCallLost /\ HoldIsCounted
=============================================================================
