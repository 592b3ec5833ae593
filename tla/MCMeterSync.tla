---------------------------- MODULE MCMeterSync ----------------------------
(***************************************************************************)
(* Instances of MeterSync for TLC.                                         *)
(***************************************************************************)
EXTENDS MeterSync

=============================================================================
