---------------------------- MODULE MCEventLoop ----------------------------
(***************************************************************************)
(* Instances of EventLoop for TLC.                                         *)
(***************************************************************************)
EXTENDS EventLoop, TLC

Tpl(k, u, t, c) == [key |-> k, unique |-> u, time |-> t, ical |-> c]

CONSTANTS k1, k2

(* recurring and timed events, unique timed ones, and unique ones with a   *)
(* time that cannot be parsed, which are queued at once                    *)
MixedTemplates == {Tpl(k1, FALSE, Unset, 2), Tpl(k1, FALSE, 1, 0),
                   Tpl(k1, TRUE, 1, 0), Tpl(k1, TRUE, BadTime, 0)}
(* unique events of one key: immediate, with a bad time, and timed *)
UniqueTemplates == {Tpl(k1, TRUE, Unset, 0), Tpl(k1, TRUE, BadTime, 0),
                    Tpl(k1, TRUE, 1, 0)}
(* one timed unique event, pushed again and again *)
TimedUniqueTemplates == {Tpl(k1, TRUE, 1, 0)}

ProducerSymmetry == Permutations(Producers)
=============================================================================
