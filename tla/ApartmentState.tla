--------------------------- MODULE ApartmentState ---------------------------
(***************************************************************************)
(* MeterMaintenance::setApartmentState (src/model/modelmaintenance.cpp):   *)
(* the presence state that the dSS takes over when it has read all dSMs.   *)
(* One step is one turn of the loop over the dSMs.                         *)
(***************************************************************************)
EXTENDS Integers, Sequences

CONSTANTS
  UNKNOWN, PRESENT, ABSENT,  \* DSM_APARTMENT_STATE_*
  MaxMeters                  \* bound: number of dSMs

ASSUME ApartmentStateAssumption ==
  /\ UNKNOWN # PRESENT /\ PRESENT # ABSENT /\ ABSENT # UNKNOWN
  /\ MaxMeters \in Nat

PresenceStates == {UNKNOWN, PRESENT, ABSENT}
Report == [usable : BOOLEAN, state : PresenceStates]

VARIABLES
  meters,           \* per dSM: isPresent and isValid, getApartmentState
  stored,           \* the presence state that the dSS has saved
  turn, lastdsmaptstate, ppc,
  dssaptstate       \* the result

presenceVars == <<meters, stored, turn, lastdsmaptstate, ppc, dssaptstate>>

PresenceTypeOK ==
  /\ meters \in Seq(Report) /\ stored \in PresenceStates
  /\ turn \in 1 .. Len(meters) + 1
  /\ lastdsmaptstate \in PresenceStates /\ dssaptstate \in PresenceStates
  /\ ppc \in {"loop", "decide", "done"}

PresenceInit ==
  /\ meters \in UNION {[1 .. n -> Report] : n \in 0 .. MaxMeters}
  /\ stored \in PresenceStates
  /\ turn = 1 /\ lastdsmaptstate = UNKNOWN
  /\ ppc = "loop" /\ dssaptstate = stored

-----------------------------------------------------------------------------
(* "remember last state", and "if dSMs disagree go with the dSS state" *)
NeverDisagrees(s) ==
  /\ lastdsmaptstate' = s /\ turn' = turn + 1 /\ ppc' = "loop"
CompareWithLast(s) ==
  \/ /\ lastdsmaptstate \in {UNKNOWN, s}
     /\ lastdsmaptstate' = s /\ turn' = turn + 1 /\ ppc' = "loop"
  \/ /\ lastdsmaptstate \notin {UNKNOWN, s}
     /\ lastdsmaptstate' = UNKNOWN /\ ppc' = "decide" /\ UNCHANGED turn

(* a dSM that is away, not read or does not know its state does not count *)
SkipMeter ==
  /\ ppc = "loop" /\ turn <= Len(meters)
  /\ ~meters[turn].usable \/ meters[turn].state = UNKNOWN
  /\ turn' = turn + 1
  /\ UNCHANGED <<meters, stored, lastdsmaptstate, ppc, dssaptstate>>

CountMeter ==
  /\ ppc = "loop" /\ turn <= Len(meters)
  /\ meters[turn].usable /\ meters[turn].state # UNKNOWN
  /\ CompareWithLast(meters[turn].state)
  /\ UNCHANGED <<meters, stored, dssaptstate>>

EndLoop ==
  /\ ppc = "loop" /\ turn > Len(meters)
  /\ ppc' = "decide"
  /\ UNCHANGED <<meters, stored, turn, lastdsmaptstate, dssaptstate>>

Decide ==
  /\ ppc = "decide"
  /\ dssaptstate' = IF lastdsmaptstate # UNKNOWN THEN lastdsmaptstate
                    ELSE IF dssaptstate # UNKNOWN THEN dssaptstate ELSE PRESENT
  /\ ppc' = "done"
  /\ UNCHANGED <<meters, stored, turn, lastdsmaptstate>>

PresenceNext == SkipMeter \/ CountMeter \/ EndLoop \/ Decide

PresenceSpec == PresenceInit /\ [][PresenceNext]_presenceVars

-----------------------------------------------------------------------------
(* the states known to the first n dSMs *)
KnownUpTo(n) ==
  {meters[j].state : j \in {k \in 1 .. n : k \in DOMAIN meters /\ meters[k].usable}}
    \ {UNKNOWN}

(* The rule in the comment of setApartmentState: a state that all dSMs     *)
(* that know one agree on is taken; otherwise the saved one, and "present" *)
(* when there is none.  The result never depends on the order of the dSMs  *)
(* nor on where the loop is left.                                          *)
Rule(s) ==
  \/ KnownUpTo(Len(meters)) = {s}
  \/ /\ \A t \in PresenceStates : KnownUpTo(Len(meters)) # {t}
     /\ s = IF stored = UNKNOWN THEN PRESENT ELSE stored
FollowsRule == ppc = "done" => Rule(dssaptstate)

(* What is known on the way: the last state is the only one found so far;  *)
(* the loop is left early only when two are found.                         *)
LoopProgress ==
  /\ ppc # "done" => dssaptstate = stored
  /\ ppc = "loop" => KnownUpTo(turn - 1) = {lastdsmaptstate} \ {UNKNOWN}
  /\ ppc = "decide" =>
       \/ KnownUpTo(Len(meters)) = {lastdsmaptstate} \ {UNKNOWN}
       \/ /\ lastdsmaptstate = UNKNOWN
          /\ \E s, t \in KnownUpTo(Len(meters)) : s # t

=============================================================================
