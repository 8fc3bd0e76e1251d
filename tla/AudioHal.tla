------------------------------- MODULE AudioHal -------------------------------
(***************************************************************************)
(* The primary audio HAL (audio/audio_hw.c): an output and an input stream *)
(* of one device, used by any number of threads.  Each stream has a mutex  *)
(* and so has the device, which is always taken first; a stream that is    *)
(* written or read drops the device's mutex before it transfers, and keeps *)
(* its own.  A stream that starts looks at the other one and may put it in *)
(* standby, when their rates cannot be had together.                       *)
(*                                                                         *)
(* A step is what a thread does between two points where it may be made to *)
(* wait.  The contents of buffers, resamplers, thresholds and the mixer    *)
(* are left out.                                                           *)
(***************************************************************************)
EXTENDS Integers

CONSTANTS
  Threads,      \* the framework's threads
  Nobody,       \* the owner of a free mutex
  OutDevices,   \* the output devices of audio_policy.conf, and AUX_DIGITAL
  InDevices,    \* the input devices
  Rate          \* pcm_config_*.rate, per stream and PCM; a board may have its own

\* audio_stream_out and audio_stream_in.
Streams == {"out", "in"}
Other(s) == IF s = "out" THEN "in" ELSE "out"
Mutexes == Streams \cup {"adev"}

\* What pcm_open may open; an input has no HDMI PCM.
Pcms == {"main", "sco", "hdmi"}
DevicesOf(s) == IF s = "out" THEN OutDevices ELSE InDevices
Devices == OutDevices \cup InDevices

ASSUME ThreadsAssumption == Nobody \notin Threads
ASSUME DevicesAssumption ==
  /\ "none" \notin Devices
  /\ "speaker" \in OutDevices /\ "mic" \in InDevices
\* "Group 1: 11.025, 22.05, 44.1.  Group 2: 8, 16, 32, 48": each rate is of one.
ASSUME RateAssumption ==
  /\ Rate \in [Streams -> [Pcms -> Nat]]
  /\ \A s \in Streams, k \in Pcms : ~((Rate[s][k] % 8000 = 0) <=> (Rate[s][k] % 11025 = 0))

\* A call: routing ("none" is a routing of 0) is the only one with a device.
Calls == [op: {"transfer", "standby", "close", "route"}, stream: Streams,
          device: Devices \cup {"none"}]
NoCall == [op |-> "none", stream |-> "out", device |-> "none"]

VARIABLES
  pc, call,    \* where each thread is, and in which call
  lock,        \* the owner of each mutex
  open,        \* the stream has been opened and not been freed
  standby,     \* out->standby, in->standby
  pcm,         \* out->pcm, in->pcm: "none", a PCM, or "dangling" once closed
  active,      \* adev->active_out, adev->active_in is the stream
  device,      \* adev->out_device, adev->in_device
  bit_in,      \* adev->in_device has AUDIO_DEVICE_BIT_IN
  sco_on       \* out_write's local; in_read, which has none, takes the same steps

streamVars == <<standby, pcm, active>>
routeVars  == <<device, bit_in>>
vars == <<pc, call, lock, open, streamVars, routeVars, sco_on>>

Stream(t) == call[t].stream
Op(t) == call[t].op
Goto(t, l) == pc' = [pc EXCEPT ![t] = l]

Return(t) ==
  /\ Goto(t, "idle")
  /\ call' = [call EXCEPT ![t] = NoCall]
  /\ sco_on' = [sco_on EXCEPT ![t] = FALSE]

Released(t, ms) == [m \in Mutexes |-> IF m \in ms /\ lock[m] = t THEN Nobody ELSE lock[m]]

-----------------------------------------------------------------------------
(* Starting and stopping a stream, under both mutexes.                     *)

\* do_out_standby and do_in_standby.
MutDoStandby(s) ==    \* leaves adev->active_* as it is
  IF standby[s] THEN UNCHANGED streamVars
  ELSE /\ standby' = [standby EXCEPT ![s] = TRUE]
       /\ pcm' = [pcm EXCEPT ![s] = "none"]
       /\ UNCHANGED active
DoStandby(s) ==
  IF standby[s] THEN UNCHANGED streamVars
  ELSE /\ standby' = [standby EXCEPT ![s] = TRUE]
       /\ pcm' = [pcm EXCEPT ![s] = "none"]
       /\ active' = [active EXCEPT ![s] = FALSE]

PcmFor(s) ==
  IF device[s] = "sco" THEN "sco"
  ELSE IF s = "out" /\ device[s] = "hdmi" THEN "hdmi" ELSE "main"

\* The other stream, which is active and so has a PCM, must go into standby before
\* s starts.
MutClashes(s) ==    \* only one of the two groups is looked at
  LET r1 == Rate[s][PcmFor(s)]
      r2 == Rate[Other(s)][pcm[Other(s)]]
  IN  pcm[Other(s)] \in Pcms /\ r1 % 8000 = 0 /\ r2 % 8000 # 0
Clashes(s) ==
  LET r1 == Rate[s][PcmFor(s)]
      r2 == Rate[Other(s)][pcm[Other(s)]]
  IN  /\ pcm[Other(s)] \in Pcms
      /\ (r1 % 8000 = 0 /\ r2 % 8000 # 0) \/ (r1 % 11025 = 0 /\ r2 % 11025 # 0)

\* The mutex of the other stream is taken and dropped again.
LockOther(t) ==
  LET s == Stream(t) IN
  /\ pc[t] = "lock_other"
  /\ lock[Other(s)] = Nobody
  /\ IF Clashes(s) THEN DoStandby(Other(s)) ELSE UNCHANGED streamVars
  /\ Goto(t, "start")
  /\ UNCHANGED <<call, lock, open, routeVars, sco_on>>

\* out_write drops the device's mutex once it knows whether SCO is on.
Start(t) ==
  LET s == Stream(t) IN
  /\ pc[t] = "start"
  /\ pcm' = [pcm EXCEPT ![s] = PcmFor(s)]
  /\ active' = [active EXCEPT ![s] = TRUE]
  /\ standby' = [standby EXCEPT ![s] = FALSE]
  /\ sco_on' = [sco_on EXCEPT ![t] = device[s] = "sco"]
  /\ lock' = Released(t, {"adev"})
  /\ Goto(t, "transfer")
  /\ UNCHANGED <<call, open, routeVars>>

\* The PCM is not ready: it is closed, but the pointer stays.
MutAfterFailure == "transfer"
AfterFailure == "exit"

StartFails(t) ==
  LET s == Stream(t) IN
  /\ pc[t] = "start"
  /\ pcm' = [pcm EXCEPT ![s] = "dangling"]
  /\ lock' = Released(t, {"adev"})
  /\ Goto(t, AfterFailure)
  /\ UNCHANGED <<call, open, standby, active, routeVars, sco_on>>

-----------------------------------------------------------------------------
(* The calls.                                                              *)

\* The framework makes no call on a stream that it is closing or has closed.
Begin(t, c) ==
  /\ pc[t] = "idle" /\ open[c.stream]
  /\ \A u \in Threads : pc[u] # "idle" /\ Stream(u) = c.stream
                          => "close" \notin {Op(u), c.op}
  /\ c.op = "route" => c.device \in DevicesOf(c.stream) \cup {"none"}
  /\ c.op # "route" => c.device = "none"
  /\ call' = [call EXCEPT ![t] = c]
  /\ Goto(t, "lock_adev")
  /\ UNCHANGED <<lock, open, streamVars, routeVars, sco_on>>

\* val is neither 0 nor the current device; adev_open_input_stream stores the
\* device with AUDIO_DEVICE_BIT_IN and in_set_parameters strips it from val.
MutReroutes(s, d) == device[s] # d \/ (s = "in" /\ bit_in)
Reroutes(s, d) == d # "none" /\ (device[s] # d \/ (s = "in" /\ bit_in))

\* SCO is turned on or off, as far as the bits say: AUDIO_DEVICE_IN_ALL_SCO has
\* AUDIO_DEVICE_BIT_IN too.
TogglesSco(s, d) == ~((d = "sco") <=> (device[s] = "sco")) \/ (s = "in" /\ bit_in)

AfterAdev(t) ==
  LET s == Stream(t)
      d == call[t].device
  IN  IF Op(t) # "route" THEN "lock_stream"
      ELSE IF ~Reroutes(s, d) THEN "unlock_adev"
      ELSE IF TogglesSco(s, d) THEN "lock_stream" ELSE "set_device"

\* "acquiring hw device mutex systematically": even a stream that needs nothing of
\* the device takes its mutex before its own.
MutTakesAdev(t) == Op(t) # "transfer" \/ standby[Stream(t)]
TakesAdev(t) == TRUE

LockAdev(t) ==
  /\ pc[t] = "lock_adev"
  /\ IF TakesAdev(t)
     THEN /\ lock["adev"] = Nobody
          /\ lock' = [lock EXCEPT !["adev"] = t]
          /\ Goto(t, AfterAdev(t))
     ELSE UNCHANGED lock /\ Goto(t, "lock_stream")
  /\ UNCHANGED <<call, open, streamVars, routeVars, sco_on>>

\* The stream's mutex, with the device's held.
LockStream(t) ==
  LET s == Stream(t) IN
  /\ pc[t] = "lock_stream"
  /\ Op(t) = "transfer" => standby[s]
  /\ lock[s] = Nobody
  /\ lock' = [lock EXCEPT ![s] = t]
  /\ Goto(t, IF Op(t) # "transfer" THEN "do_standby"
             ELSE IF active[Other(s)] THEN "lock_other" ELSE "start")
  /\ UNCHANGED <<call, open, streamVars, routeVars, sco_on>>

\* A stream that runs: the device's mutex is dropped.
LockRunning(t) ==
  LET s == Stream(t) IN
  /\ pc[t] = "lock_stream"
  /\ Op(t) = "transfer" /\ ~standby[s]
  /\ lock[s] = Nobody
  /\ lock' = [Released(t, {"adev"}) EXCEPT ![s] = t]
  /\ sco_on' = [sco_on EXCEPT ![t] = device[s] = "sco"]
  /\ Goto(t, "transfer")
  /\ UNCHANGED <<call, open, streamVars, routeVars>>

\* The transfer, or the failure to start, is over.
FinishTransfer(t) ==
  /\ pc[t] \in {"transfer", "exit"}
  /\ lock' = Released(t, {Stream(t)})
  /\ Return(t)
  /\ UNCHANGED <<open, streamVars, routeVars>>

\* out_standby and in_standby: both mutexes are dropped; routing keeps the
\* device's to go on.
Standby(t) ==
  /\ pc[t] = "do_standby"
  /\ DoStandby(Stream(t))
  /\ IF Op(t) = "standby" THEN Return(t)
     ELSE /\ Goto(t, IF Op(t) = "close" THEN "free" ELSE "set_device")
          /\ UNCHANGED <<call, sco_on>>
  /\ lock' = Released(t, IF Op(t) = "route" THEN {Stream(t)} ELSE {Stream(t), "adev"})
  /\ UNCHANGED <<open, routeVars>>

\* adev_close_output_stream and adev_close_input_stream.
Free(t) ==
  /\ pc[t] = "free"
  /\ open' = [open EXCEPT ![Stream(t)] = FALSE]
  /\ Return(t)
  /\ UNCHANGED <<lock, streamVars, routeVars>>

SetDevice(t) ==
  LET s == Stream(t) IN
  /\ pc[t] = "set_device"
  /\ device' = [device EXCEPT ![s] = call[t].device]
  /\ bit_in' = (bit_in /\ s # "in")
  /\ lock' = Released(t, {"adev"})
  /\ Return(t)
  /\ UNCHANGED <<open, streamVars>>

RouteIgnored(t) ==
  /\ pc[t] = "unlock_adev"
  /\ lock' = Released(t, {"adev"})
  /\ Return(t)
  /\ UNCHANGED <<open, streamVars, routeVars>>

\* adev_open_output_stream and adev_open_input_stream: a new stream, with the
\* routing set under the device's mutex.
OpenStream(s, d) ==
  /\ ~open[s]
  /\ lock["adev"] = Nobody
  /\ open' = [open EXCEPT ![s] = TRUE]
  /\ standby' = [standby EXCEPT ![s] = TRUE]
  /\ pcm' = [pcm EXCEPT ![s] = "none"]
  /\ device' = [device EXCEPT ![s] = d]
  /\ bit_in' = (bit_in \/ s = "in")
  /\ UNCHANGED <<pc, call, lock, active, sco_on>>

-----------------------------------------------------------------------------

\* adev_open: no stream, routed to the speaker and the built-in microphone.
Init ==
  /\ pc = [t \in Threads |-> "idle"]
  /\ call = [t \in Threads |-> NoCall]
  /\ lock = [m \in Mutexes |-> Nobody]
  /\ open = [s \in Streams |-> FALSE]
  /\ standby = [s \in Streams |-> TRUE]
  /\ pcm = [s \in Streams |-> "none"]
  /\ active = [s \in Streams |-> FALSE]
  /\ device = [s \in Streams |-> IF s = "out" THEN "speaker" ELSE "mic"]
  /\ bit_in = FALSE
  /\ sco_on = [t \in Threads |-> FALSE]

Step(t) ==
  \/ LockAdev(t) \/ LockStream(t) \/ LockRunning(t) \/ LockOther(t)
  \/ Start(t) \/ StartFails(t) \/ FinishTransfer(t)
  \/ Standby(t) \/ Free(t) \/ SetDevice(t) \/ RouteIgnored(t)

Next ==
  \/ \E t \in Threads : Step(t) \/ \E c \in Calls : Begin(t, c)
  \/ \E s \in Streams : \E d \in DevicesOf(s) : OpenStream(s, d)

Spec == Init /\ [][Next]_vars

\* A thread that can go on does, and a transfer ends; a mutex that is free again
\* and again need not be had, and no call need ever be made.
FairSpec == Spec /\ \A t \in Threads : WF_vars(Step(t))

-----------------------------------------------------------------------------
(* Properties.                                                             *)

HoldsAdev == {"lock_stream", "do_standby", "lock_other", "start", "set_device",
              "unlock_adev"}
HoldsStream == {"do_standby", "lock_other", "start", "transfer", "exit"}
Labels == {"idle", "lock_adev", "free"} \cup HoldsAdev \cup HoldsStream

TypeOK ==
  /\ pc \in [Threads -> Labels]
  /\ call \in [Threads -> Calls \cup {NoCall}]
  /\ lock \in [Mutexes -> Threads \cup {Nobody}]
  /\ open \in [Streams -> BOOLEAN]
  /\ standby \in [Streams -> BOOLEAN]
  /\ pcm \in [Streams -> Pcms \cup {"none", "dangling"}]
  /\ active \in [Streams -> BOOLEAN]
  /\ device \in [Streams -> Devices]
  /\ bit_in \in BOOLEAN
  /\ sco_on \in [Threads -> BOOLEAN]

\* A transfer has its stream for itself and a PCM that is open, the one of Bluetooth
\* SCO exactly if it believes so: nobody closes or swaps the PCM under it, although
\* it holds no device mutex.
TransferSafe ==
  \A t \in Threads : pc[t] = "transfer" =>
    /\ lock[Stream(t)] = t
    /\ pcm[Stream(t)] \in Pcms
    /\ sco_on[t] <=> (pcm[Stream(t)] = "sco")

\* No thread waits for, holds or looks behind the mutex of a stream that was freed:
\* a stream reached through adev->active_out or active_in is one of these.
NoFreedStream ==
  \A t \in Threads :
    /\ pc[t] # "idle" => open[Stream(t)]
    /\ pc[t] = "lock_other" => open[Other(Stream(t))]

\* The PCMs in use.
Using == [s \in Streams |-> IF standby[s] THEN "none" ELSE pcm[s]]

Arbiter == INSTANCE PcmArbiter WITH using <- Using, route <- device

\* The HAL implements the arbiter of PCMs: at each start the PCM is the one the
\* routing asks for and its rate is of the group in use, and SCO is never turned on
\* or off under an open PCM.
ArbiterSpec == Arbiter!Spec

\* A thread with the device's mutex gets the stream's mutex it waits for, however
\* often others transfer: "acquiring hw device mutex systematically is useful if a
\* low priority thread is waiting on the output stream mutex".  No two threads wait
\* for each other either.
DeviceReleased == \A t \in Threads : (lock["adev"] = t) ~> (lock["adev"] # t)

=============================================================================
