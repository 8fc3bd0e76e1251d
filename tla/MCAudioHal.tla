------------------------------ MODULE MCAudioHal ------------------------------
(* An instance of AudioHal for TLC: a board whose main PCMs have rates of another   *)
(* group than its SCO and HDMI PCMs.                                            *)
EXTENDS AudioHal

BoardRate == [out |-> [main |-> 44100, sco |-> 8000, hdmi |-> 48000],
              in  |-> [main |-> 44100, sco |-> 16000, hdmi |-> 48000]]

=============================================================================
