--------------------------- MODULE EventLifecycle ---------------------------
(***************************************************************************)
(* What the event loop promises for its events: an event that is to be     *)
(* raised once enters the queue at once or after it was scheduled, the     *)
(* queue hands all events to the handlers first come first served, and an  *)
(* event that was handled, replaced or removed does not come back.  Only   *)
(* an event that recurs may enter the queue again.                         *)
(***************************************************************************)
EXTENDS Sequences

CONSTANT Event

VARIABLES life, queue

States == {"new", "recurring", "scheduled", "queued", "handled", "gone"}

Init ==
  /\ life = [e \in Event |-> "new"]
  /\ queue = << >>

Becomes(e, s) == life' = [life EXCEPT ![e] = s]

(* an event that recurs stays one *)
Advances(e, s) == Becomes(e, IF life[e] = "recurring" THEN "recurring" ELSE s)

Recur(e) ==
  /\ life[e] = "new"
  /\ Becomes(e, "recurring")
  /\ UNCHANGED queue

Schedule(e) ==
  /\ life[e] = "new"
  /\ Becomes(e, "scheduled")
  /\ UNCHANGED queue

Enqueue(e) ==
  /\ life[e] \in {"new", "recurring", "scheduled"}
  /\ Advances(e, "queued")
  /\ queue' = Append(queue, e)

(* handed over to an event already on its way, cancelled, or not accepted *)
GiveUp(E) ==
  /\ E # {}
  /\ \A e \in E : life[e] \in {"new", "scheduled"}
  /\ life' = [e \in Event |-> IF e \in E THEN "gone" ELSE life[e]]
  /\ UNCHANGED queue

Handle ==
  /\ queue # << >>
  /\ Advances(Head(queue), "handled")
  /\ queue' = Tail(queue)

Next == \/ \E e \in Event : Recur(e) \/ Schedule(e) \/ Enqueue(e)
        \/ \E E \in SUBSET Event : GiveUp(E)
        \/ Handle

Spec == Init /\ [][Next]_<<life, queue>>
=============================================================================
