------------------------------ MODULE PcmArbiter ------------------------------
(***************************************************************************)
(* What the audio HAL promises of the PCMs it has open, as the comments of *)
(* audio/audio_hw.c say it: a stream has at most one PCM open, the one for *)
(* Bluetooth SCO exactly while it is routed there, and all open PCMs have  *)
(* rates of one group, since the SoC cannot convert between them.          *)
(*                                                                         *)
(* There are no threads, locks or failures here: AudioHal has them, and    *)
(* implements this specification.                                          *)
(***************************************************************************)
EXTENDS Integers

CONSTANTS
  Streams,    \* the output and the input stream
  Pcms,       \* the PCMs a stream may open, "sco" among them
  Devices,    \* the devices a stream may be routed to, "sco" among them
  Rate        \* the sample rate of each stream's PCMs

VARIABLES
  using,   \* the PCM each stream has open, or "none"
  route    \* the device each stream is routed to

\* "All open PCMs can only use a single group of rates at once".
SameGroup(r1, r2) == \E base \in {8000, 11025} : r1 % base = 0 /\ r2 % base = 0

Compatible(s, k) ==
  \A o \in Streams \ {s} : using[o] # "none" => SameGroup(Rate[s][k], Rate[o][using[o]])

Start(s) ==
  /\ using[s] = "none"
  /\ \E k \in Pcms : /\ (k = "sco") <=> (route[s] = "sco")
                     /\ Compatible(s, k)
                     /\ using' = [using EXCEPT ![s] = k]
  /\ UNCHANGED route

Stop(s) ==
  /\ using' = [using EXCEPT ![s] = "none"]
  /\ UNCHANGED route

\* "SCO uses a different PCM": nothing is open when SCO is turned on or off.
Reroute(s, d) ==
  /\ (using[s] # "none") => ((d = "sco") <=> (route[s] = "sco"))
  /\ route' = [route EXCEPT ![s] = d]
  /\ UNCHANGED using

Init ==
  /\ using = [s \in Streams |-> "none"]
  /\ route \in [Streams -> Devices]

Next == \E s \in Streams : Start(s) \/ Stop(s) \/ \E d \in Devices : Reroute(s, d)

Spec == Init /\ [][Next]_<<using, route>>

=============================================================================
