------------------------------ MODULE SensorsPoll ------------------------------
(***************************************************************************)
(* The sensors HAL (libsensors/nusensors.cpp, Kxtf9.cpp) with its one      *)
(* driver, the accelerometer: SensorService polls on one thread and        *)
(* activates and deactivates the sensor on another.  They meet in a pipe   *)
(* that wakes the first, and in the kernel.                                *)
(*                                                                         *)
(* The kernel reports a sample as input events, the last of which is a     *)
(* "syn"; a poll hands on a sample for each of these.                      *)
(***************************************************************************)
EXTENDS InputEventReader

CONSTANTS
  Counts,          \* room for samples that pollEvents may be given
  PipeCap,         \* bytes the non-blocking wake pipe holds
  MaxSamples,      \* bound: samples the kernel reports
  MaxActivations   \* bound: calls of activate

ASSUME CountsAssumption == Counts \subseteq Nat \ {0}
ASSUME BoundsAssumption == {PipeCap, MaxSamples, MaxActivations} \subseteq Nat

\* EV_REL, EV_SYN and any other type, of the n-th sample.
Types == {"rel", "syn", "other"}
InputEvents == [type: Types, sample: 1 .. MaxSamples]
ASSUME EventAssumption == Event = InputEvents

VARIABLES
  pc,           \* where the polling thread is
  revents,      \* mPollFds[kxtf9].revents
  count,        \* the parameter of pollEvents, as it counts down
  nb,           \* numEventReceived of readEvents
  data,         \* what this call of pollEvents has put into its buffer
  pending,      \* mPendingEvent's acceleration: of which sample it is
  delivered,    \* all that was returned to SensorService
  ctl,          \* where the activating thread is
  mEnabled, hw_enabled,   \* the driver's idea, the kernel's
  wake,         \* bytes in the wake pipe
  reported, activations

pollVars == <<count, nb, data, pending, delivered>>
ctlVars  == <<ctl, mEnabled, hw_enabled, activations>>
vars == <<readerVars, pc, revents, pollVars, ctlVars, wake, reported>>

\* pollEvents' own count of them: those of the readEvents that goes on are added
\* when it returns.
nbEvents == Len(data) - nb

-----------------------------------------------------------------------------
(* The polling thread.                                                     *)

\* SensorService calls poll.
Call ==
  /\ pc = "idle"
  /\ count' \in Counts
  /\ data' = <<>> /\ nb' = 0
  /\ pc' = "scan"
  /\ UNCHANGED <<readerVars, revents, pending, delivered, ctlVars, wake, reported>>

\* The loop over the drivers; hasPendingEvents() is always false.
Scan ==
  /\ pc = "scan"
  /\ pc' = IF count > 0 /\ revents THEN "fill" ELSE "poll"
  /\ UNCHANGED <<readerVars, revents, pollVars, ctlVars, wake, reported>>

\* readEvents() fills the reader, unless it is full.
FillReader ==
  /\ pc = "fill"
  /\ IF mFreeSpace > 0 THEN Fill ELSE UNCHANGED readerVars
  /\ pc' = "events"
  /\ UNCHANGED <<revents, pollVars, ctlVars, wake, reported>>

MutMoreEvents == nb = 0 /\ Available > 0    \* a sample at a time
MoreEvents == nb < count /\ Available > 0

ReadRel ==
  /\ pc = "events" /\ MoreEvents /\ ReadEvent.type = "rel"
  /\ pending' = ReadEvent.sample
  /\ NextEvent
  /\ UNCHANGED <<pc, revents, count, nb, data, delivered, ctlVars, wake, reported>>

ReadSyn ==
  /\ pc = "events" /\ MoreEvents /\ ReadEvent.type = "syn"
  /\ data' = Append(data, [time |-> ReadEvent.sample, value |-> pending])
  /\ nb' = nb + 1
  /\ NextEvent
  /\ UNCHANGED <<pc, revents, count, pending, delivered, ctlVars, wake, reported>>

\* An event of another type is logged and passed.
ReadOther ==
  /\ pc = "events" /\ MoreEvents /\ ReadEvent.type \notin {"rel", "syn"}
  /\ NextEvent
  /\ UNCHANGED <<pc, revents, pollVars, ctlVars, wake, reported>>

\* The end of readEvents and of the loop over the drivers.
EventsRead ==
  /\ pc = "events" /\ ~MoreEvents
  /\ revents' = (revents /\ nb = count)
  /\ count' = count - nb
  /\ nb' = 0
  /\ pc' = IF count' > 0 THEN "poll" ELSE "return"
  /\ UNCHANGED <<readerVars, data, pending, delivered, ctlVars, wake, reported>>

\* poll() waits only when there is nothing to return yet.
MutWaits == TRUE
Waits == nbEvents = 0

Ready == kernel # <<>> \/ wake > 0

\* poll() returns; a byte is read from the wake pipe.
PollReturns ==
  /\ pc = "poll"
  /\ Waits => Ready
  /\ revents' = (kernel # <<>>)
  /\ wake' = IF wake > 0 THEN wake - 1 ELSE 0
  /\ pc' = IF Ready THEN "scan" ELSE "return"
  /\ UNCHANGED <<readerVars, pollVars, ctlVars, reported>>

Return ==
  /\ pc = "return"
  /\ delivered' = delivered \o data
  /\ data' = <<>> /\ count' = 0
  /\ pc' = "idle"
  /\ UNCHANGED <<readerVars, revents, nb, pending, ctlVars, wake, reported>>

PollThread ==
  \/ Scan \/ FillReader \/ ReadRel \/ ReadSyn \/ ReadOther \/ EventsRead
  \/ PollReturns \/ Return

-----------------------------------------------------------------------------
(* The activating thread.                                                  *)

EndActivate(en) == ctl' = IF en THEN "wake" ELSE "idle"

\* enable(): nothing to set.
ActivateSame(en) ==
  /\ mEnabled = en
  /\ EndActivate(en)
  /\ UNCHANGED <<mEnabled, hw_enabled>>

\* The file is written.
ActivateSets(en) ==
  /\ mEnabled # en
  /\ hw_enabled' = en /\ mEnabled' = en
  /\ EndActivate(en)

\* It cannot be opened or written.
ActivateFails(en) ==
  /\ mEnabled # en
  /\ UNCHANGED <<ctl, mEnabled, hw_enabled>>

Activate(en) ==
  /\ ctl = "idle" /\ activations < MaxActivations
  /\ ActivateSame(en) \/ ActivateSets(en) \/ ActivateFails(en)
  /\ activations' = activations + 1
  /\ UNCHANGED <<readerVars, pc, revents, pollVars, wake, reported>>

\* The wake message; when the pipe is full it is lost.
Wake ==
  /\ ctl = "wake"
  /\ wake' = IF wake < PipeCap THEN wake + 1 ELSE wake
  /\ ctl' = "idle"
  /\ UNCHANGED <<readerVars, pc, revents, pollVars, mEnabled, hw_enabled, reported,
                 activations>>

-----------------------------------------------------------------------------

\* The kernel reports a sample, with an event of an unknown type or without; the
\* events of a sample are readable at once.
Report ==
  /\ hw_enabled /\ reported < MaxSamples
  /\ reported' = reported + 1
  /\ \E types \in {<<"rel", "syn">>, <<"rel", "other", "syn">>} :
       Arrive([k \in DOMAIN types |-> [type |-> types[k], sample |-> reported']])
  /\ UNCHANGED <<pc, revents, pollVars, ctlVars, wake>>

\* The driver believes the file, if it can be read.
Init ==
  /\ ReaderInit
  /\ pc = "idle" /\ revents = FALSE
  /\ count = 0 /\ nb = 0 /\ data = <<>> /\ pending = 0 /\ delivered = <<>>
  /\ ctl = "idle"
  /\ hw_enabled \in BOOLEAN /\ mEnabled \in {FALSE, hw_enabled}
  /\ wake = 0 /\ reported = 0 /\ activations = 0

Next == Call \/ PollThread \/ (\E en \in BOOLEAN : Activate(en)) \/ Wake \/ Report

Spec == Init /\ [][Next]_vars

\* SensorService polls again and again, on a thread that runs.  Samples and
\* activations need never come.
FairSpec == Spec /\ WF_vars(Call) /\ WF_vars(PollThread)

-----------------------------------------------------------------------------
(* Properties.                                                             *)

Samples == [time: 1 .. MaxSamples, value: 0 .. MaxSamples]

TypeOK ==
  /\ mBuffer \in [Offsets -> Event \cup {Garbage}]
  /\ mHead \in 0 .. numEvents /\ mCurr \in 0 .. numEvents - 1
  /\ mFreeSpace \in 0 .. numEvents
  /\ pc \in {"idle", "scan", "fill", "events", "poll", "return"}
  /\ kernel \in Seq(Event)
  /\ {revents, mEnabled, hw_enabled} \subseteq BOOLEAN
  /\ count \in Nat /\ nb \in 0 .. count
  /\ data \in Seq(Samples) /\ delivered \in Seq(Samples)
  /\ pending \in 0 .. MaxSamples
  /\ ctl \in {"idle", "wake"} /\ wake \in 0 .. PipeCap
  /\ reported \in 0 .. MaxSamples /\ activations \in 0 .. MaxActivations

\* SensorService gets the samples in order, each once and each with its own values,
\* however reads, the ring and the room in its buffer cut them.
DeliveredInOrder ==
  LET all == delivered \o data
  IN  \A k \in DOMAIN all : all[k] = [time |-> k, value |-> k]

\* The polling thread is in a system call that does not return.
Waiting == \/ pc = "fill" /\ mFreeSpace > 0 /\ kernel = <<>>
           \/ pc = "poll" /\ Waits /\ ~Ready

\* "or just wait if we don't have anything to return": it never waits with a sample
\* in hand, be it in the caller's buffer or in the reader.
WaitsWithNothing == Waiting => data = <<>> /\ Available = 0

\* A call does not use up the room it was given.
RoomLeft == pc = "return" => count > 0

\* The same of every behaviour in which no call uses up its room.
WaitsEmptyHanded == []RoomLeft => []WaitsWithNothing

\* In these, a sample that the kernel has reported is returned to SensorService,
\* whether or not another one follows.
AllDelivered ==
  []RoomLeft => \A n \in 1 .. MaxSamples : (reported >= n) ~> (Len(delivered) >= n)

=============================================================================
