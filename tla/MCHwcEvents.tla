---------------------------- MODULE MCHwcEvents ------------------------------
(* Instances of HwcEvents for TLC. *)
EXTENDS HwcEvents
=============================================================================
