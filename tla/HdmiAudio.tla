------------------------------ MODULE HdmiAudio ------------------------------
(***************************************************************************)
(* The audio HAL of HDMI (audio/hdmi_audio_hw.c): its output streams, the   *)
(* PCM they share, and the map of channels.  The HAL has no lock: each      *)
(* stream's calls are made by a thread of its own, and set_parameters of    *)
(* the device by another one.                                               *)
(*                                                                         *)
(* A stream writes a frame at a time, and turns it around in one step.  A   *)
(* sample is known by its place in the frame that was written; channels are *)
(* numbers, OMX_AUDIO_CHANNELTYPE.                                          *)
(***************************************************************************)
EXTENDS HdmiCaps

CONSTANTS
  Streams,   \* output streams (audio_policy.conf has two profiles)
  Tvs,       \* TVs that may be attached
  Maps,      \* channel maps players may set: sequences of eight channels
  MaxMaps    \* bound on set_parameters

\* OMX_AUDIO_ChannelLF, RF, CF, LS, RS, LFE, CS, LR, RR are 1 to 9.
Channel == 0 .. 9
ASSUME MapsAssumption ==
  /\ \A m \in Maps : m \in Seq(Channel) /\ Len(m) = 8 /\ m[8] < 8
  /\ MaxMaps \in Nat
ASSUME TvsAssumption == \A tv \in Tvs : IsTv(tv)

HDMI_MAX_CHANNELS == 8
cea_channel_map == <<1, 2, 6, 3, 4, 5, 8, 9>>

\* pcm_config.channels of a stream opened with that layout.  One that is not
\* known is taken for 7.1.
Channels(mask) == CASE mask = "stereo" -> 2
                    [] mask \in {"quad", "surround"} -> 4
                    [] mask = "five1" -> 6
                    [] OTHER -> 8

VARIABLES
  reply,   \* what get_parameters said last, and of which TV
  map,     \* hdmi_device_t.map
  CEAMap,
  setter,  \* set_parameters: where it is, and its variables
  out,     \* the streams
  holder,  \* who has the PCM open, as the kernel knows: a set of streams
  played,  \* the frame just played
  asked    \* the map set last, when it is all stored

device == <<map, CEAMap, setter, asked>>
vars == <<reply, device, out, holder, played>>

\* A stream that does not exist.
Closed == [pc |-> "closed", channels |-> 0, up |-> FALSE, pcm |-> FALSE,
           buffcpy |-> <<>>, steady |-> FALSE]

\* What is in buffcpy before a frame comes: what malloc left there, or samples of
\* earlier frames.
Old == [y \in 1 .. HDMI_MAX_CHANNELS |-> 0]

\* No frame, since the last one was played.
NoFrame == [channels |-> 0, steady |-> FALSE, asked |-> <<>>, slots |-> <<>>]

NoReply == [tv |-> <<>>, offered |-> {}]

-----------------------------------------------------------------------------
(* set_parameters of the device: "channel_map".                             *)

\* A player passes the map as a decimal number, a channel in each four bits.
Decimal(m) ==
  m[1] + 16 * (m[2] + 16 * (m[3] + 16 * (m[4] +
    16 * (m[5] + 16 * (m[6] + 16 * (m[7] + 16 * m[8]))))))

\* str_parms_get_str has room for HDMI_MAX_CHANNELS bytes, the last of them 0: the
\* first digits of a number that is not below Room, of which none has over ten.
Room == 10000000
Read(n) == Max({k \in {n, n \div 10, n \div 100, n \div 1000} : k < Room})

\* (val & (0xF << x * 4)) >> x * 4, for x from 1 on.
Power16 == <<1, 16, 256, 4096, 65536, 1048576, 16777216, 268435456>>
Nibble(val, x) == (val \div Power16[x]) % 16

\* The map is stored channel by channel, in one step here: of a frame that is
\* turned around meanwhile no property asks anything.
SetParameters(m) ==
  /\ setter.pc = "out" /\ setter.maps < MaxMaps
  /\ map' = [x \in 1 .. HDMI_MAX_CHANNELS |-> Nibble(Read(Decimal(m)), x)]
  /\ setter' = [pc |-> "mapped", maps |-> setter.maps + 1, asked |-> m]
  /\ asked' = <<>>
  /\ out' = [s \in Streams |-> [out[s] EXCEPT !.steady = FALSE]]
  /\ UNCHANGED <<reply, CEAMap, holder, played>>

MutIsCEA(numMatch) == numMatch >= 4

\* The map is CEA's own: the frames need not be turned around.
IsCEA(numMatch) == numMatch >= 5

StoreCEAMap ==
  /\ setter.pc = "mapped"
  /\ CEAMap' = IsCEA(Cardinality({x \in DOMAIN map : map[x] = cea_channel_map[x]}))
  /\ setter' = [setter EXCEPT !.pc = "out"]
  /\ asked' = setter.asked
  /\ UNCHANGED <<reply, map, out, holder, played>>

-----------------------------------------------------------------------------
(* The streams.                                                             *)

\* open_output_stream; it fails for lack of memory or a format, without a trace.
OpenStream(s, mask) ==
  /\ out[s].pc = "closed"
  /\ out' = [out EXCEPT ![s] = [Closed EXCEPT !.pc = "idle", !.channels = Channels(mask),
                                  !.buffcpy = Old]]
  /\ UNCHANGED <<reply, device, holder, played>>

\* What hdmi_out_standby makes of a stream.
Down(o) == IF o.up /\ o.pcm THEN [o EXCEPT !.up = FALSE, !.pcm = FALSE] ELSE o

MutReleased(s) == IF ~Down(out[s]).up THEN holder ELSE holder \ {s}

\* pcm_close gives the PCM back, when standby calls it.
Released(s) == IF out[s].up /\ out[s].pcm THEN holder \ {s} ELSE holder

Standby(s) ==
  /\ out[s].pc = "idle"
  /\ out' = [out EXCEPT ![s] = Down(@)]
  /\ holder' = Released(s)
  /\ UNCHANGED <<reply, device, played>>

CloseStream(s) ==
  /\ out[s].pc = "idle"
  /\ out' = [out EXCEPT ![s] = Closed]
  /\ holder' = Released(s)
  /\ UNCHANGED <<reply, device, played>>

\* hdmi_out_open_pcm: pcm_open succeeds at most while nobody has the PCM.
PcmOpens(s) ==
  \/ holder = {} /\ holder' = {s} /\ out' = [out EXCEPT ![s].up = TRUE, ![s].pcm = TRUE, ![s].pc = "remap"]
  \/ UNCHANGED holder /\ out' = [out EXCEPT ![s].up = FALSE, ![s].pcm = FALSE]

Write(s) ==
  /\ out[s].pc = "idle"
  /\ \/ ~out[s].up /\ PcmOpens(s)
     \/ out[s].up /\ out' = [out EXCEPT ![s].pc = "remap"] /\ UNCHANGED holder
  /\ played' = NoFrame
  /\ UNCHANGED <<reply, device>>

\* Whether frames are turned around is read once a write.
ReadCEAMap(s) ==
  /\ out[s].pc = "remap"
  /\ out' = [out EXCEPT
       ![s].pc = IF out[s].channels > 2 /\ ~CEAMap THEN "turn" ELSE "send",
       ![s].steady = setter.pc = "out"]
  /\ UNCHANGED <<reply, device, holder, played>>

\* The place in the frame where the map has CEA's channel y.
From(y, n) == {x \in 1 .. n : map[x] = cea_channel_map[y]}

\* channel_remap: where there is none the buffer keeps what it had.
Remap(s) ==
  /\ out[s].pc = "turn"
  /\ LET n == out[s].channels IN
     out' = [out EXCEPT ![s].pc = "sendcopy",
               ![s].buffcpy = [y \in DOMAIN @ |->
                  IF y > n \/ From(y, n) = {} THEN @[y] ELSE Min(From(y, n))]]
  /\ UNCHANGED <<reply, device, holder, played>>

\* pcm_write takes the frame, or fails and the stream goes to standby.
PcmWrite(s) ==
  /\ out[s].pc \in {"send", "sendcopy"}
  /\ \/ /\ played' = [channels |-> out[s].channels, steady |-> out[s].steady, asked |-> asked,
                      slots |-> IF out[s].pc = "send" THEN [y \in 1 .. out[s].channels |-> y]
                                ELSE SubSeq(out[s].buffcpy, 1, out[s].channels)]
        /\ out' = [out EXCEPT ![s].pc = "idle", ![s].buffcpy = Old]
        /\ UNCHANGED holder
     \/ /\ out' = [out EXCEPT ![s] = [Down(@) EXCEPT !.pc = "idle", !.buffcpy = Old]]
        /\ holder' = Released(s)
        /\ UNCHANGED played
  /\ UNCHANGED <<reply, device>>

\* get_parameters(sup_channels) with the TV that is attached by then; without an
\* EDID the answer is empty.
GetParameters(s) ==
  /\ out[s].pc = "idle"
  /\ \/ \E tv \in Tvs : reply' = [tv |-> tv, offered |-> Offered(QueryCaps(Edid(tv)))]
     \/ reply' = NoReply
  /\ UNCHANGED <<device, out, holder, played>>

\* map shares its memory with the header of the device: tag, version and module,
\* which are no channels.
Init ==
  /\ reply = NoReply
  /\ map = [x \in 1 .. HDMI_MAX_CHANNELS |-> IF x <= 3 THEN -1 ELSE 0]
  /\ CEAMap = FALSE
  /\ setter = [pc |-> "out", maps |-> 0, asked |-> <<>>]
  /\ out = [s \in Streams |-> Closed]
  /\ holder = {}
  /\ played = NoFrame
  /\ asked = <<>>

Next ==
  \/ \E m \in Maps : SetParameters(m)
  \/ StoreCEAMap
  \/ \E s \in Streams :
       \/ \E mask \in DOMAIN Layouts \cup {"stereo"} : OpenStream(s, mask)
       \/ Standby(s) \/ CloseStream(s) \/ Write(s) \/ ReadCEAMap(s) \/ Remap(s) \/ PcmWrite(s)
       \/ GetParameters(s)

Spec == Init /\ [][Next]_vars

-----------------------------------------------------------------------------
(* Properties.                                                              *)

\* The first channels of a map are those of CEA's, in some order.
Reorders(m, n) == {m[x] : x \in 1 .. n} = {cea_channel_map[y] : y \in 1 .. n}

\* Each speaker gets its channel: a frame of 5.1 that is written while nobody sets
\* a map is played in CEA's order, whatever the order of the player's map, the
\* map before it and the interruptions (channel_remap and CEAMap).
ChannelsRight ==
  played.steady /\ played.asked # <<>> /\ played.channels = 6 /\ Reorders(played.asked, 6) =>
    \A y \in 1 .. 6 : \E x \in 1 .. 6 :
      /\ played.slots[y] = x
      /\ played.asked[x] = cea_channel_map[y]

\* The PCM is open for the stream that is up, and for no other: after a failed
\* write, a standby or a close it is there for the other stream.
PcmHeld == holder = {s \in Streams : out[s].up} /\ Cardinality(holder) <= 1

\* What get_parameters offers is what the TV's first CEA block has speakers for,
\* wherever it and its speaker allocation are in the EDID.
OfferRight == reply.tv # <<>> => reply.offered = Plays(reply.tv)

=============================================================================
