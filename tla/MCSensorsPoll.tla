---------------------------- MODULE MCSensorsPoll ----------------------------
(* An instance of SensorsPoll for TLC: see README, section 6. *)
EXTENDS SensorsPoll

=============================================================================
