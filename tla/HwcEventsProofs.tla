---------------------------- MODULE HwcEventsProofs ----------------------------
(***************************************************************************)
(* Proofs about HwcEvents, for any settings, pipe and bounds: types, the    *)
(* buffers for rotation, and that switches are followed once open is over.  *)
(***************************************************************************)
EXTENDS HwcEvents, SequenceTheorems, TLAPS

Event == [switch: Switches, on: BOOLEAN]

-----------------------------------------------------------------------------
(* Types.                                                                   *)

\* handle_uevents finds the uevent that poll announced: nobody else reads any.
UeventWaits ==
  /\ pc["ev"] = "uevent" => uevents # <<>>
  /\ pc["ev"] = "signal" /\ revents.uevent => uevents # <<>>

LEMMA OverlayBounds ==
  /\ 0 \in 0 .. MaxOverlays /\ 0 \in 0 .. MaxKept
  /\ \A n \in 1 .. MaxOverlays : n \in 0 .. MaxOverlays
  /\ \A k \in 0 .. MaxKept : \A n \in 1 .. 1 + k : n \in 0 .. MaxOverlays
<1>1. MaxOverlays \in Nat /\ MaxOverlays # 0 /\ MaxKept \in 0 .. MaxOverlays - 1
  BY ConstantsAssumption
<1>2. MaxKept \in Nat /\ MaxKept + 1 <= MaxOverlays
  BY <1>1
<1> QED
  BY <1>1, <1>2

\* The frame that set is to ask for has room under the bound.
AskIsCounted == lacking => frames < MaxFrames

LEMMA InitTypes == Init => TypeOK
<1> SUFFICES ASSUME Init PROVE TypeOK
  OBVIOUS
<1>1. /\ pc \in [Processes -> Opening \cup Framing \cup Polling]
      /\ pc["sf"] \in Opening \cup Framing /\ pc["ev"] \in Polling
  BY DEF Init, Processes, Opening, Framing, Polling
<1>2. uevents \in Seq(Event)
  BY EmptySeq DEF Init
<1>3. /\ switch \in [Switches -> BOOLEAN] /\ ext_state \in [Switches -> BOOLEAN]
      /\ state \in [Processes -> BOOLEAN] /\ revents \in [uevent: BOOLEAN, pipe: BOOLEAN]
  BY DEF Init, Switches, Processes, NotReadable
<1>4. /\ posts \in 0 .. PipeCap /\ frames \in 0 .. MaxFrames /\ changes \in 0 .. MaxChanges
  BY ConstantsAssumption DEF Init
<1>5. {socket, seen, dock_enabled, mirror_enabled, rotation, ion_handles, procs, redraw,
       idle, timed} \subseteq BOOLEAN
  BY DEF Init
<1>6. /\ nfds \in {1, 2} /\ force_sgx \in 0 .. 2
      /\ num_ovls \in 0 .. MaxOverlays /\ last_int_ovls \in 0 .. MaxOverlays
      /\ kept \in 0 .. MaxKept /\ lacking \in BOOLEAN
  <2>1. num_ovls = 0 /\ last_int_ovls = 0 /\ kept = 0
    BY DEF Init
  <2>2. 0 \in 0 .. MaxOverlays /\ 0 \in 0 .. MaxKept
    BY OverlayBounds
  <2>3. /\ num_ovls \in 0 .. MaxOverlays /\ last_int_ovls \in 0 .. MaxOverlays
        /\ kept \in 0 .. MaxKept
    BY <2>1, <2>2, Zenon
  <2>4. nfds = 1 /\ force_sgx = 0
    BY DEF Init
  <2>5. nfds \in {1, 2} /\ force_sgx \in 0 .. 2
    BY <2>4
  <2>6. lacking \in BOOLEAN
    BY DEF Init
  <2> QED
    BY <2>3, <2>5, <2>6
<1> QED
  BY <1>1, <1>2, <1>3, <1>4, <1>5, <1>6 DEF TypeOK, Event

LEMMA HotplugTypes ==
  ASSUME TypeOK, NEW p \in Processes, HandleHotplug(p) PROVE TypeOK'
<1> USE DEF At, Goto, switchVars, extVars, pollVars, frameVars, Opening, Framing, Polling,
            Processes, Switches
<1>1. CASE HotplugRead(p)
  BY <1>1 DEF TypeOK, HotplugRead
<1>2. CASE HotplugAttach(p)
  <2>1. mirror_enabled' \in BOOLEAN
    BY <1>2 DEF TypeOK, HotplugAttach, MirrorResults
  <2>2. rotation' \in BOOLEAN /\ ion_handles' \in BOOLEAN
    BY <1>2, ConstantsAssumption DEF TypeOK, HotplugAttach, Allocated
  <2> QED
    BY <1>2, <2>1, <2>2 DEF TypeOK, HotplugAttach
<1>3. CASE HotplugDetach(p)
  BY <1>3 DEF TypeOK, HotplugDetach
<1>4. CASE HotplugProcs(p)
  BY <1>4 DEF TypeOK, HotplugProcs
<1> QED
  BY <1>1, <1>2, <1>3, <1>4 DEF HandleHotplug

LEMMA OpenTypes == ASSUME TypeOK, Open PROVE TypeOK'
<1> USE DEF At, Goto, switchVars, extVars, pollVars, frameVars, Opening, Framing, Polling,
            Processes, Switches
<1>1. CASE CreateThread
  BY <1>1 DEF TypeOK, CreateThread
<1>2. CASE ReadIdle
  BY <1>2, ConstantsAssumption DEF TypeOK, ReadIdle
<1>3. CASE ReadSwitch("hdmi", "read_hdmi", "store_hdmi")
  BY <1>3 DEF TypeOK, ReadSwitch
<1>4. CASE StoreSwitch("hdmi", "store_hdmi", "read_dock")
  BY <1>4 DEF TypeOK, StoreSwitch
<1>5. CASE ReadSwitch("dock", "read_dock", "store_dock")
  BY <1>5 DEF TypeOK, ReadSwitch
<1>6. CASE StoreSwitch("dock", "store_dock", "hotplug")
  BY <1>6 DEF TypeOK, StoreSwitch
<1>7. CASE HandleHotplug("sf")
  BY <1>7, HotplugTypes
<1>8. CASE RegisterProcs
  BY <1>8 DEF TypeOK, RegisterProcs
<1> QED
  BY <1>1, <1>2, <1>3, <1>4, <1>5, <1>6, <1>7, <1>8 DEF Open

LEMMA PrepareTypes ==
  ASSUME TypeOK, Prepare, frames' \in 0 .. MaxFrames PROVE TypeOK'
<1> USE DEF At, Goto, switchVars, extVars, pollVars, Framing, Opening, Processes
<1>1. num_ovls' \in 0 .. MaxOverlays /\ kept' \in 0 .. MaxKept
  <2>1. kept' \in 0 .. MaxKept /\ num_ovls' \in OverlaysFor(kept')
    BY DEF Prepare
  <2> QED
    BY <2>1, OverlayBounds DEF OverlaysFor
<1>2. lacking' \in BOOLEAN
  BY DEF Prepare
<1> QED
  BY <1>1, <1>2 DEF TypeOK, Prepare

LEMMA FramesTypes == ASSUME TypeOK, AskIsCounted, Frames PROVE TypeOK'
<1> USE DEF At, Goto, switchVars, extVars, pollVars, frameVars, Opening, Framing, Polling,
            Processes, Switches
<1>1. CASE PrepareRedraw
  <2>1. frames' \in 0 .. MaxFrames
    BY <1>1 DEF TypeOK, PrepareRedraw
  <2> QED
    BY <1>1, <2>1, PrepareTypes DEF PrepareRedraw
<1>2. CASE PrepareNew
  <2>1. frames' \in 0 .. MaxFrames
    BY <1>2, ConstantsAssumption DEF TypeOK, PrepareNew
  <2> QED
    BY <1>2, <2>1, PrepareTypes DEF PrepareNew
<1>3. CASE SetLock
  BY <1>3 DEF TypeOK, SetLock
<1>4. CASE SetSignal
  BY <1>4, ConstantsAssumption DEF TypeOK, SetSignal
<1>5. CASE SetPost
  <2>1. force_sgx' \in 0 .. 2
    BY <1>5 DEF TypeOK, SetPost, Counted
  <2>2. frames' \in 0 .. MaxFrames
    BY <1>5, ConstantsAssumption DEF TypeOK, SetPost, AskIsCounted
  <2>3. redraw' \in BOOLEAN
    BY <1>5 DEF TypeOK, SetPost
  <2> QED
    BY <1>5, <2>1, <2>2, <2>3 DEF TypeOK, SetPost
<1> QED
  BY <1>1, <1>2, <1>3, <1>4, <1>5 DEF Frames, Set

LEMMA EventThreadTypes == ASSUME TypeOK, UeventWaits, EventThread PROVE TypeOK'
<1> USE DEF At, Goto, switchVars, extVars, pollVars, frameVars, Opening, Framing, Polling,
            Processes, Switches
<1>1. CASE UeventInit
  BY <1>1 DEF TypeOK, UeventInit
<1>2. CASE SetTimeout
  BY <1>2 DEF TypeOK, SetTimeout
<1>3. CASE Poll
  BY <1>3 DEF TypeOK, Poll, Polled
<1>4. CASE PollReturns
  <2>1. posts' \in 0 .. PipeCap
    <3>1. posts \in 0 .. PipeCap /\ PipeCap \in Nat
      BY ConstantsAssumption DEF TypeOK
    <3>2. posts' = posts \/ (posts > 0 /\ posts' = posts - 1)
      BY <1>4 DEF PollReturns, Readable
    <3> QED
      BY <3>1, <3>2
  <2>2. revents' \in [uevent: BOOLEAN, pipe: BOOLEAN]
    BY <1>4 DEF PollReturns, Readable, NotReadable
  <2> QED
    BY <1>4, <2>1, <2>2 DEF TypeOK, PollReturns
<1>5. CASE ReadSignal
  <2>1. timed' \in BOOLEAN
    BY <1>5 DEF TypeOK, ReadSignal, Rearmed
  <2>2. revents' \in [uevent: BOOLEAN, pipe: BOOLEAN]
    BY <1>5 DEF ReadSignal, NotReadable
  <2> QED
    BY <1>5, <2>1, <2>2 DEF TypeOK, ReadSignal
<1>6. CASE HandleUevent
  <2>1. uevents \in Seq(Event) /\ uevents # <<>>
    BY <1>6 DEF TypeOK, UeventWaits, HandleUevent, Event
  <2>2. Head(uevents) \in Event /\ Tail(uevents) \in Seq(Event)
    BY <2>1, HeadTailProperties
  <2>3. ext_state' \in [Switches -> BOOLEAN]
    BY <1>6, <2>2 DEF TypeOK, HandleUevent, Event
  <2> QED
    BY <1>6, <2>2, <2>3 DEF TypeOK, HandleUevent, Event
<1>7. CASE HandleHotplug("ev")
  BY <1>7, HotplugTypes
<1>8. CASE IdleTimeout
  BY <1>8 DEF TypeOK, IdleTimeout
<1>9. CASE IdleInvalidate
  BY <1>9 DEF TypeOK, IdleInvalidate
<1> QED
  BY <1>1, <1>2, <1>3, <1>4, <1>5, <1>6, <1>7, <1>8, <1>9 DEF EventThread

LEMMA ChangeTypes ==
  ASSUME TypeOK, NEW s \in Switches, Change(s) PROVE TypeOK'
<1>1. switch' \in [Switches -> BOOLEAN]
  BY DEF TypeOK, Change
<1>2. uevents' \in Seq(Event)
  <2>1. uevents \in Seq(Event) /\ [switch |-> s, on |-> ~switch[s]] \in Event
    BY DEF TypeOK, Event
  <2> QED
    BY <2>1, AppendProperties DEF Change
<1>3. changes' \in 0 .. MaxChanges
  BY ConstantsAssumption DEF TypeOK, Change
<1> QED
  BY <1>1, <1>2, <1>3 DEF TypeOK, Change, extVars, pollVars, frameVars, Event

LEMMA NextTypes == ASSUME TypeOK, AskIsCounted, UeventWaits, [Next]_vars PROVE TypeOK'
<1>1. CASE UNCHANGED vars
  BY <1>1 DEF TypeOK, vars, switchVars, extVars, pollVars, frameVars
<1> QED
  BY <1>1, OpenTypes, FramesTypes, EventThreadTypes, ChangeTypes DEF Next

LEMMA NextUevents == ASSUME TypeOK, UeventWaits, [Next]_vars PROVE UeventWaits'
<1>1. CASE EventThread
  <2> USE DEF UeventWaits, At, Goto
  <2>1. CASE PollReturns
    BY <1>1, <2>1 DEF TypeOK, PollReturns, Readable, switchVars, Processes
  <2>2. CASE ReadSignal
    BY <1>1, <2>2 DEF TypeOK, ReadSignal, switchVars, Processes
  <2>3. CASE HandleUevent \/ HandleHotplug("ev")
    BY <1>1, <2>3 DEF TypeOK, HandleUevent, HandleHotplug, HotplugRead, HotplugAttach,
                      HotplugDetach, HotplugProcs, Processes
  <2>4. CASE UeventInit \/ SetTimeout \/ Poll \/ IdleTimeout \/ IdleInvalidate
    BY <1>1, <2>4 DEF TypeOK, UeventInit, SetTimeout, Poll, IdleTimeout, IdleInvalidate,
                      Processes
  <2> QED
    BY <1>1, <2>1, <2>2, <2>3, <2>4 DEF EventThread
<1>2. CASE Open \/ Frames \/ UNCHANGED vars
  <2>1. UNCHANGED <<uevents, revents>> /\ (pc'["ev"] = pc["ev"] \/ pc'["ev"] = "start")
    BY <1>2 DEF TypeOK, Processes, Open, CreateThread, ReadIdle, ReadSwitch, StoreSwitch,
       HandleHotplug, HotplugRead, HotplugAttach, HotplugDetach, HotplugProcs, RegisterProcs,
       Frames, PrepareRedraw, PrepareNew, Prepare, Set, SetLock, SetSignal, SetPost,
       At, Goto, vars, switchVars, pollVars
  <2> QED
    BY <2>1 DEF UeventWaits
<1>3. ASSUME NEW s \in Switches, Change(s) PROVE UeventWaits'
  <2>1. uevents \in Seq(Event) /\ [switch |-> s, on |-> ~switch[s]] \in Event
    BY DEF TypeOK, Event
  <2>2. uevents' = uevents \/ uevents' # <<>>
    BY <1>3, <2>1, AppendProperties DEF Change
  <2> QED
    BY <1>3, <2>2 DEF UeventWaits, Change, pollVars
<1> QED
  BY <1>1, <1>2, <1>3 DEF Next

LEMMA NextAsks == ASSUME TypeOK, AskIsCounted, [Next]_vars PROVE AskIsCounted'
<1>1. CASE PrepareRedraw \/ PrepareNew
  <2>1. lacking' \in {l \in BOOLEAN : l => dock_enabled /\ frames' < MaxFrames}
    BY <1>1 DEF PrepareRedraw, PrepareNew, Prepare
  <2> QED
    BY <2>1 DEF AskIsCounted
<1>2. CASE SetPost
  BY <1>2 DEF AskIsCounted, SetPost
<1>3. CASE ~PrepareRedraw /\ ~PrepareNew /\ ~SetPost
  <2>1. UNCHANGED frameVars
    BY <1>3 DEF Next, Open, CreateThread, ReadIdle, ReadSwitch, StoreSwitch,
       HandleHotplug, HotplugRead, HotplugAttach, HotplugDetach, HotplugProcs, RegisterProcs,
       Frames, Set, SetLock, SetSignal, EventThread, UeventInit, SetTimeout, Poll,
       PollReturns, ReadSignal, HandleUevent, IdleTimeout, IdleInvalidate, Change, vars,
       frameVars
  <2> QED
    BY <2>1 DEF AskIsCounted, frameVars
<1> QED
  BY <1>1, <1>2, <1>3

\* Every variable keeps its type: counts of posts, overlays and frames stay within
\* their bounds whatever the two threads do.
THEOREM TypeCorrect == Spec => []TypeOK
<1>1. Init => TypeOK /\ AskIsCounted /\ UeventWaits
  BY InitTypes DEF Init, AskIsCounted, UeventWaits
<1>2. TypeOK /\ AskIsCounted /\ UeventWaits /\ [Next]_vars
        => (TypeOK /\ AskIsCounted /\ UeventWaits)'
  BY NextTypes, NextAsks, NextUevents
<1> QED
  BY <1>1, <1>2, PTL DEF Spec

-----------------------------------------------------------------------------
(* The buffers for rotation.                                               *)

\* What BuffersThere says holds all the time, not only between hotplugs.
RotationBuffers ==
  mirror_enabled /\ rotation /\ ~Tiler2dFb /\ FALSE \notin AllocResults => ion_handles

\* Only a hotplug changes the display's settings and its buffers.
LEMMA ExtVarsChange ==
  ASSUME [Next]_vars
  PROVE  extVars' = extVars \/ \E p \in Processes : HotplugAttach(p) \/ HotplugDetach(p)
  BY DEF Next, Open, CreateThread, ReadIdle, ReadSwitch, StoreSwitch, HandleHotplug,
     HotplugRead, HotplugProcs, RegisterProcs, Frames, PrepareRedraw, PrepareNew, Prepare,
     Set, SetLock, SetSignal, SetPost, EventThread, UeventInit, SetTimeout, Poll,
     PollReturns, ReadSignal, HandleUevent, IdleTimeout, IdleInvalidate, Change, vars,
     extVars, Processes

LEMMA NextBuffers ==
  ASSUME RotationBuffers, [Next]_vars PROVE RotationBuffers'
<1>1. ASSUME NEW p \in Processes, HotplugAttach(p) PROVE RotationBuffers'
  <2> SUFFICES ASSUME rotation', ~Tiler2dFb, FALSE \notin AllocResults PROVE ion_handles'
    BY DEF RotationBuffers
  <2>1. Allocated(TRUE)
    BY <1>1, ConstantsAssumption DEF HotplugAttach, Allocated
  <2>2. CASE ion_handles
    BY <2>1, <2>2 DEF Allocated
  <2>3. CASE ~ion_handles
    BY <2>1, <2>3, ConstantsAssumption DEF Allocated
  <2> QED
    BY <2>2, <2>3
<1>2. ASSUME NEW p \in Processes, HotplugDetach(p) PROVE RotationBuffers'
  BY <1>2 DEF RotationBuffers, HotplugDetach
<1>3. CASE extVars' = extVars
  BY <1>3 DEF RotationBuffers, extVars
<1> QED
  BY <1>1, <1>2, <1>3, ExtVarsChange

\* With a rotation to do and memory to be had, handle_hotplug leaves a mirrored
\* framebuffer with buffers to be rotated into.
THEOREM BuffersThereHolds == Spec => []BuffersThere
<1>1. Init => RotationBuffers
  BY DEF Init, RotationBuffers
<1>2. RotationBuffers /\ [Next]_vars => RotationBuffers'
  BY NextBuffers
<1>3. RotationBuffers => BuffersThere
  BY DEF RotationBuffers, BuffersThere
<1> QED
  BY <1>1, <1>2, <1>3, PTL DEF Spec

\* Buffers are there only for an external display, and in memory that is not 2D.
BuffersForDock == ion_handles => dock_enabled /\ ~Tiler2dFb

LEMMA NextForDock ==
  ASSUME BuffersForDock, dock_enabled => rotation, TypeOK, [Next]_vars
  PROVE  BuffersForDock'
<1>1. ASSUME NEW p \in Processes, HotplugAttach(p) PROVE BuffersForDock'
  <2>1. dock_enabled' = TRUE
    BY <1>1 DEF HotplugAttach
  <2>2. CASE ion_handles' = ion_handles
    BY <2>1, <2>2 DEF BuffersForDock
  <2>3. CASE ion_handles' # ion_handles
    <3>1. ~Tiler2dFb
      BY <1>1, <2>3 DEF HotplugAttach, Allocated
    <3> QED
      BY <2>1, <3>1 DEF BuffersForDock
  <2> QED
    BY <2>2, <2>3
<1>2. ASSUME NEW p \in Processes, HotplugDetach(p) PROVE BuffersForDock'
  <2>1. ion_handles' = (ion_handles /\ ~BuffersToFree)
    BY <1>2 DEF HotplugDetach
  <2>2. ion_handles => BuffersToFree
    BY DEF BuffersForDock, BuffersToFree
  <2> QED
    BY <2>1, <2>2 DEF BuffersForDock
<1>3. CASE extVars' = extVars
  BY <1>3 DEF BuffersForDock, extVars
<1> QED
  BY <1>1, <1>2, <1>3, ExtVarsChange

\* As long as each attachment finds the rotation set, handle_hotplug frees on detach
\* whatever it allocated: without an external display no buffers are kept, although
\* it frees by the rotation it sees and not by what it holds.
THEOREM BuffersFreedHolds == Spec => BuffersFreed
<1>1. Init => BuffersForDock
  BY DEF Init, BuffersForDock
<1>2. BuffersForDock /\ (dock_enabled => rotation) /\ TypeOK /\ [Next]_vars => BuffersForDock'
  BY NextForDock
<1>3. BuffersForDock => (Settled /\ ~dock_enabled => ~ion_handles)
  BY DEF BuffersForDock
<1> QED
  BY <1>1, <1>2, <1>3, TypeCorrect, PTL DEF Spec, BuffersFreed

-----------------------------------------------------------------------------
(* The switches, when none changes before open has handled its hotplug.    *)

\* Where the opener may find a switch changed.
Changing == {"register", "frame", "set", "post", "posted"}

\* Until then the event thread has nothing to do: no uevent and no post.
QuietOpening ==
  pc["sf"] \notin Changing =>
    /\ pc["ev"] \in {"none", "start", "init", "poll", "wait"}
    /\ uevents = <<>> /\ posts = 0 /\ ~procs

\* The opener stores what the switches still are.
OpenerReads ==
  /\ pc["sf"] = "store_hdmi" => seen = switch["hdmi"]
  /\ pc["sf"] = "store_dock" => seen = switch["dock"]
  /\ pc["sf"] \in {"read_dock", "store_dock", "hotplug", "hotlock", "hotprocs"}
       => ext_state["hdmi"] = switch["hdmi"]
  /\ pc["sf"] \in {"hotplug", "hotlock", "hotprocs"} => ext_state["dock"] = switch["dock"]

\* The last uevent queued for a switch tells its state.
LastTells ==
  \A i \in 1 .. Len(uevents) :
    (\A j \in 1 .. Len(uevents) : j > i => uevents[j].switch # uevents[i].switch)
      => uevents[i].on = switch[uevents[i].switch]

\* A switch no queued uevent is about has been followed.
NoneQueued ==
  \A s \in Switches :
    (\A i \in 1 .. Len(uevents) : uevents[i].switch # s) => ext_state[s] = switch[s]

UeventsTell == pc["sf"] \in Changing => LastTells /\ NoneQueued

\* The display's settings are those of the composer's idea of the switches.
SettingsFollow ==
  /\ dock_enabled = ext_state["hdmi"]
  /\ mirror_enabled => ext_state["hdmi"] /\ ~ext_state["dock"]

\* A hotplug under way is about that idea, and leaves the settings to follow it.
HotplugFollows ==
  /\ \A p \in Processes : pc[p] = "hotlock" => state[p] = ext_state["hdmi"]
  /\ pc["sf"] = "hotprocs" => SettingsFollow
  /\ pc["sf"] \in Changing /\ pc["ev"] \notin {"hotplug", "hotlock"} => SettingsFollow

SwitchInv == QuietOpening /\ OpenerReads /\ UeventsTell /\ HotplugFollows

LEMMA OpenSwitch == ASSUME TypeOK, SwitchInv, Open PROVE SwitchInv'
<1> USE DEF Changing, Goto, At, Processes, Switches
<1>1. CASE CreateThread \/ ReadIdle
  BY <1>1 DEF TypeOK, SwitchInv, QuietOpening, OpenerReads, UeventsTell, HotplugFollows,
     CreateThread, ReadIdle, switchVars, extVars
<1>2. CASE \/ ReadSwitch("hdmi", "read_hdmi", "store_hdmi")
           \/ StoreSwitch("hdmi", "store_hdmi", "read_dock")
           \/ ReadSwitch("dock", "read_dock", "store_dock")
           \/ StoreSwitch("dock", "store_dock", "hotplug")
  BY <1>2 DEF TypeOK, SwitchInv, QuietOpening, OpenerReads, UeventsTell, HotplugFollows,
     ReadSwitch, StoreSwitch, switchVars, extVars
<1>3. CASE HandleHotplug("sf")
  <2>1. CASE HotplugRead("sf")
    BY <1>3, <2>1 DEF TypeOK, SwitchInv, QuietOpening, OpenerReads, UeventsTell,
       HotplugFollows, HotplugRead, switchVars, extVars
  <2>2. CASE HotplugAttach("sf")
    BY <1>3, <2>2 DEF TypeOK, SwitchInv, QuietOpening, OpenerReads, UeventsTell,
       HotplugFollows, SettingsFollow, HotplugAttach, MirrorResults, switchVars
  <2>3. CASE HotplugDetach("sf")
    BY <1>3, <2>3 DEF TypeOK, SwitchInv, QuietOpening, OpenerReads, UeventsTell,
       HotplugFollows, SettingsFollow, HotplugDetach, switchVars
  <2>4. CASE HotplugProcs("sf")
    <3>1. /\ At("sf", "hotprocs") /\ pc' = [pc EXCEPT !["sf"] = "register"]
          /\ UNCHANGED <<uevents, switch, ext_state, dock_enabled, mirror_enabled, state, seen>>
      BY <2>4 DEF HotplugProcs, switchVars, extVars
    <3>2. uevents = <<>> /\ pc["ev"] \in {"none", "start", "init", "poll", "wait"}
      BY <3>1 DEF SwitchInv, QuietOpening
    <3>3. QuietOpening' /\ OpenerReads'
      BY <3>1 DEF TypeOK, QuietOpening, OpenerReads
    <3>4. LastTells'
      BY <3>1, <3>2 DEF LastTells
    <3>5. NoneQueued'
      BY <3>1, <3>2 DEF NoneQueued, SwitchInv, OpenerReads
    <3>6. HotplugFollows'
      BY <3>1, <3>2 DEF TypeOK, SwitchInv, HotplugFollows, SettingsFollow
    <3> QED
      BY <3>3, <3>4, <3>5, <3>6 DEF SwitchInv, UeventsTell
  <2> QED
    BY <1>3, <2>1, <2>2, <2>3, <2>4 DEF HandleHotplug
<1>4. CASE RegisterProcs
  <2>1. QuietOpening' /\ OpenerReads'
    BY <1>4 DEF TypeOK, QuietOpening, OpenerReads, RegisterProcs
  <2>2. UeventsTell'
    BY <1>4 DEF TypeOK, SwitchInv, UeventsTell, LastTells, NoneQueued, RegisterProcs,
       switchVars
  <2>3. HotplugFollows'
    BY <1>4 DEF TypeOK, SwitchInv, HotplugFollows, SettingsFollow, RegisterProcs, extVars
  <2> QED
    BY <2>1, <2>2, <2>3 DEF SwitchInv
<1> QED
  BY <1>1, <1>2, <1>3, <1>4 DEF Open

LEMMA FramesSwitch == ASSUME TypeOK, SwitchInv, Frames PROVE SwitchInv'
<1> USE DEF Changing, Processes
<1>1. /\ pc["sf"] \in Framing /\ pc'["sf"] \in Framing /\ pc'["ev"] = pc["ev"]
      /\ UNCHANGED <<uevents, switch, ext_state, dock_enabled, mirror_enabled, state>>
  BY DEF TypeOK, Frames, PrepareRedraw, PrepareNew, Prepare, Set, SetLock, SetSignal, SetPost,
     At, Goto, Framing, switchVars, extVars
<1>2. QuietOpening' /\ OpenerReads'
  BY <1>1 DEF QuietOpening, OpenerReads, Framing
<1>3. UeventsTell'
  BY <1>1 DEF SwitchInv, UeventsTell, LastTells, NoneQueued, Framing
<1>4. HotplugFollows'
  BY <1>1 DEF SwitchInv, HotplugFollows, SettingsFollow, Framing
<1> QED
  BY <1>2, <1>3, <1>4 DEF SwitchInv

LEMMA HandleUeventSwitch ==
  ASSUME TypeOK, UeventWaits, SwitchInv, HandleUevent PROVE SwitchInv'
<1> USE DEF Changing, Processes, Goto, At
<1>1. /\ pc["ev"] = "uevent" /\ pc' = [pc EXCEPT !["ev"] = "hotplug"]
      /\ ext_state' = [ext_state EXCEPT ![Head(uevents).switch] = Head(uevents).on]
      /\ uevents' = Tail(uevents) /\ switch' = switch /\ state' = state
      /\ pc["sf"] \in Changing
  BY DEF HandleUevent, SwitchInv, QuietOpening
<1>2. uevents \in Seq(Event) /\ uevents # <<>>
  BY <1>1 DEF TypeOK, UeventWaits, Event
<1>3. /\ Len(uevents) \in Nat \ {0} /\ Len(Tail(uevents)) = Len(uevents) - 1
      /\ \A i \in 1 .. Len(Tail(uevents)) : Tail(uevents)[i] = uevents[i + 1]
      /\ Head(uevents) = uevents[1]
      /\ \A i \in 1 .. Len(uevents) : uevents[i] \in Event
  BY <1>2, HeadTailProperties, ElementOfSeq, LenProperties
<1>4. QuietOpening' /\ OpenerReads'
  BY <1>1 DEF TypeOK, QuietOpening, OpenerReads
<1>5. LastTells'
  <2> SUFFICES ASSUME NEW i \in 1 .. Len(Tail(uevents)),
                      \A j \in 1 .. Len(Tail(uevents)) :
                         j > i => Tail(uevents)[j].switch # Tail(uevents)[i].switch
               PROVE  Tail(uevents)[i].on = switch[Tail(uevents)[i].switch]
    BY <1>1 DEF LastTells
  <2>1. i + 1 \in 1 .. Len(uevents) /\ Tail(uevents)[i] = uevents[i + 1]
    BY <1>3
  <2>2. ASSUME NEW j \in 1 .. Len(uevents), j > i + 1
        PROVE  uevents[j].switch # uevents[i + 1].switch
    <3>1. j - 1 \in 1 .. Len(Tail(uevents)) /\ j - 1 > i /\ (j - 1) + 1 = j
      BY <1>3, <2>2
    <3>2. Tail(uevents)[j - 1] = uevents[j]
      BY <1>3, <3>1
    <3> QED
      BY <2>1, <3>1, <3>2
  <2> QED
    BY <1>1, <2>1, <2>2 DEF SwitchInv, UeventsTell, LastTells
<1>6. NoneQueued'
  <2> SUFFICES ASSUME NEW s \in Switches,
                      \A i \in 1 .. Len(Tail(uevents)) : Tail(uevents)[i].switch # s
               PROVE  ext_state'[s] = switch[s]
    BY <1>1 DEF NoneQueued
  <2>1. ASSUME NEW j \in 1 .. Len(uevents), j > 1 PROVE uevents[j].switch # s
    <3>1. j - 1 \in 1 .. Len(Tail(uevents)) /\ (j - 1) + 1 = j
      BY <1>3, <2>1
    <3> QED
      BY <1>3, <3>1
  <2>2. 1 \in 1 .. Len(uevents)
    BY <1>3
  <2>3. CASE uevents[1].switch = s
    <3>1. uevents[1].on = switch[s]
      BY <1>1, <2>1, <2>2, <2>3 DEF SwitchInv, UeventsTell, LastTells
    <3> QED
      BY <1>1, <1>3, <2>3, <3>1 DEF TypeOK
  <2>4. CASE uevents[1].switch # s
    <3>1. \A j \in 1 .. Len(uevents) : uevents[j].switch # s
      BY <1>3, <2>1, <2>4
    <3>2. ext_state[s] = switch[s]
      BY <1>1, <3>1 DEF SwitchInv, UeventsTell, NoneQueued
    <3> QED
      BY <1>1, <1>3, <2>4, <3>2 DEF TypeOK
  <2> QED
    BY <2>3, <2>4
<1>7. HotplugFollows'
  BY <1>1 DEF TypeOK, HotplugFollows
<1> QED
  BY <1>4, <1>5, <1>6, <1>7 DEF SwitchInv, UeventsTell

LEMMA EventThreadSwitch ==
  ASSUME TypeOK, UeventWaits, SwitchInv, EventThread PROVE SwitchInv'
<1> USE DEF Changing, Processes, Goto, At
<1>1. CASE UeventInit \/ SetTimeout \/ Poll \/ IdleTimeout \/ ReadSignal \/ IdleInvalidate
  <2>1. /\ pc'["sf"] = pc["sf"] /\ pc["ev"] \notin {"hotplug", "hotlock"}
        /\ pc'["ev"] \notin {"hotplug", "hotlock"}
        /\ UNCHANGED <<uevents, switch, ext_state, dock_enabled, mirror_enabled, state, seen,
                       procs, posts>>
    BY <1>1 DEF TypeOK, UeventInit, SetTimeout, Poll, IdleTimeout, ReadSignal,
       IdleInvalidate, switchVars, extVars
  <2>2. QuietOpening'
    BY <1>1, <2>1 DEF TypeOK, SwitchInv, QuietOpening, UeventInit, SetTimeout, Poll,
       IdleTimeout, ReadSignal, IdleInvalidate
  <2>3. OpenerReads' /\ UeventsTell'
    BY <2>1 DEF SwitchInv, OpenerReads, UeventsTell, LastTells, NoneQueued
  <2>4. HotplugFollows'
    BY <2>1 DEF SwitchInv, HotplugFollows, SettingsFollow
  <2> QED
    BY <2>2, <2>3, <2>4 DEF SwitchInv
<1>2. CASE PollReturns
  <2>1. /\ pc'["sf"] = pc["sf"] /\ pc["ev"] = "wait" /\ pc'["ev"] \in {"signal", "uevent"}
        /\ UNCHANGED <<uevents, switch, ext_state, dock_enabled, mirror_enabled, state, seen>>
        /\ uevents # <<>> \/ posts > 0
    BY <1>2 DEF TypeOK, PollReturns, Readable, switchVars, extVars
  <2>2. pc["sf"] \in Changing
    BY <2>1 DEF TypeOK, SwitchInv, QuietOpening
  <2>3. QuietOpening' /\ OpenerReads'
    BY <2>1, <2>2 DEF QuietOpening, OpenerReads
  <2>4. UeventsTell'
    BY <2>1 DEF SwitchInv, UeventsTell, LastTells, NoneQueued
  <2>5. HotplugFollows'
    BY <2>1, <2>2 DEF SwitchInv, HotplugFollows, SettingsFollow
  <2> QED
    BY <2>3, <2>4, <2>5 DEF SwitchInv
<1>3. CASE HandleUevent
  BY <1>3, HandleUeventSwitch
<1>4. CASE HandleHotplug("ev")
  <2>1. /\ pc["sf"] \in Changing /\ pc'["sf"] = pc["sf"]
        /\ UNCHANGED <<uevents, switch, ext_state>>
    BY <1>4 DEF TypeOK, SwitchInv, QuietOpening, HandleHotplug, HotplugRead, HotplugAttach,
       HotplugDetach, HotplugProcs, switchVars
  <2>2. QuietOpening' /\ OpenerReads'
    BY <2>1 DEF QuietOpening, OpenerReads
  <2>3. UeventsTell'
    BY <2>1 DEF SwitchInv, UeventsTell, LastTells, NoneQueued
  <2>4. HotplugFollows'
    <3>1. CASE HotplugRead("ev")
      BY <2>1, <3>1 DEF TypeOK, SwitchInv, HotplugFollows, HotplugRead
    <3>2. CASE HotplugAttach("ev")
      BY <2>1, <3>2 DEF TypeOK, SwitchInv, HotplugFollows, SettingsFollow, HotplugAttach,
         MirrorResults
    <3>3. CASE HotplugDetach("ev")
      BY <2>1, <3>3 DEF TypeOK, SwitchInv, HotplugFollows, SettingsFollow, HotplugDetach
    <3>4. CASE HotplugProcs("ev")
      BY <2>1, <3>4 DEF TypeOK, SwitchInv, HotplugFollows, SettingsFollow, HotplugProcs,
         extVars
    <3> QED
      BY <1>4, <3>1, <3>2, <3>3, <3>4 DEF HandleHotplug
  <2> QED
    BY <2>2, <2>3, <2>4 DEF SwitchInv
<1> QED
  BY <1>1, <1>2, <1>3, <1>4 DEF EventThread

LEMMA ChangeSwitch ==
  ASSUME EarlyChanges = FALSE, TypeOK, SwitchInv, NEW s \in Switches, Change(s)
  PROVE  SwitchInv'
<1> DEFINE e == [switch |-> s, on |-> ~switch[s]]
<1>1. /\ pc["sf"] \in Changing
      /\ switch' = [switch EXCEPT ![s] = ~@] /\ uevents' = Append(uevents, e)
      /\ UNCHANGED <<pc, ext_state, dock_enabled, mirror_enabled, state>>
  BY DEF Change, Changing, extVars
<1>2. uevents \in Seq(Event) /\ e \in Event
  BY DEF TypeOK, Event
<1>3. /\ Len(uevents) \in Nat /\ Len(uevents') = Len(uevents) + 1
      /\ uevents'[Len(uevents) + 1] = e
      /\ \A i \in 1 .. Len(uevents) : uevents'[i] = uevents[i] /\ uevents[i] \in Event
  BY <1>1, <1>2, AppendProperties, ElementOfSeq, LenProperties
<1>4. /\ e.switch = s /\ e.on = ~switch[s]
      /\ switch'[s] = ~switch[s] /\ \A r \in Switches \ {s} : switch'[r] = switch[r]
  BY <1>1 DEF TypeOK
<1>5. QuietOpening' /\ OpenerReads'
  BY <1>1 DEF QuietOpening, OpenerReads, Changing
<1>6. LastTells'
  <2> SUFFICES ASSUME NEW i \in 1 .. Len(uevents'),
                      \A j \in 1 .. Len(uevents') :
                         j > i => uevents'[j].switch # uevents'[i].switch
               PROVE  uevents'[i].on = switch'[uevents'[i].switch]
    BY DEF LastTells
  <2>1. CASE i = Len(uevents) + 1
    BY <2>1, <1>3, <1>4
  <2>2. CASE i # Len(uevents) + 1
    <3>1. i \in 1 .. Len(uevents) /\ uevents'[i] = uevents[i] /\ uevents[i] \in Event
      BY <1>3, <2>2
    <3>2. Len(uevents) + 1 \in 1 .. Len(uevents') /\ Len(uevents) + 1 > i
      BY <1>3, <3>1
    <3>3. uevents[i].switch # s
      BY <1>3, <1>4, <3>1, <3>2
    <3>4. \A j \in 1 .. Len(uevents) : j > i => uevents[j].switch # uevents[i].switch
      BY <1>3, <3>1
    <3>5. uevents[i].on = switch[uevents[i].switch]
      BY <1>1, <3>1, <3>4 DEF SwitchInv, UeventsTell, LastTells
    <3>6. uevents[i].switch \in Switches
      BY <3>1 DEF Event
    <3> QED
      BY <1>4, <3>1, <3>3, <3>5, <3>6
  <2> QED
    BY <2>1, <2>2
<1>7. NoneQueued'
  <2> SUFFICES ASSUME NEW r \in Switches,
                      \A i \in 1 .. Len(uevents') : uevents'[i].switch # r
               PROVE  ext_state[r] = switch'[r]
    BY <1>1 DEF NoneQueued
  <2>1. r # s
    BY <1>3, <1>4
  <2>2. \A i \in 1 .. Len(uevents) : uevents[i].switch # r
    BY <1>3
  <2>3. ext_state[r] = switch[r]
    BY <1>1, <2>2 DEF SwitchInv, UeventsTell, NoneQueued
  <2> QED
    BY <1>4, <2>1, <2>3
<1>8. HotplugFollows'
  BY <1>1 DEF SwitchInv, HotplugFollows, SettingsFollow
<1> QED
  BY <1>5, <1>6, <1>7, <1>8 DEF SwitchInv, UeventsTell

LEMMA NextSwitch ==
  ASSUME EarlyChanges = FALSE, TypeOK, UeventWaits, SwitchInv, [Next]_vars
  PROVE  SwitchInv'
<1>1. CASE UNCHANGED vars
  BY <1>1 DEF SwitchInv, QuietOpening, OpenerReads, UeventsTell, LastTells, NoneQueued,
     HotplugFollows, SettingsFollow, vars, switchVars, extVars
<1> QED
  BY <1>1, OpenSwitch, FramesSwitch, EventThreadSwitch, ChangeSwitch DEF Next

\* When no switch changes before open has handled its hotplug, then however many
\* uevents come and whatever is drawn meanwhile, once they have been handled the
\* composer's idea of the switches is the kernel's and the settings follow it.
THEOREM SwitchesFollowed == ASSUME EarlyChanges = FALSE PROVE Spec => []SwitchFollowed
<1>1. Init => UeventWaits /\ SwitchInv
  <2>1. Init => UeventWaits
    BY DEF Init, UeventWaits
  <2>2. Init => SwitchInv
    BY DEF Init, SwitchInv, QuietOpening, OpenerReads, UeventsTell, HotplugFollows, Changing,
       Processes
  <2> QED
    BY <2>1, <2>2
<1>2. TypeOK /\ UeventWaits /\ SwitchInv /\ [Next]_vars => (UeventWaits /\ SwitchInv)'
  BY NextUevents, NextSwitch
<1>3. TypeOK /\ SwitchInv => SwitchFollowed
  <2> SUFFICES ASSUME TypeOK, SwitchInv, Settled PROVE SwitchFollowed
    BY DEF SwitchFollowed
  <2>1. LastTells /\ NoneQueued /\ SettingsFollow /\ uevents = <<>>
    BY DEF SwitchInv, UeventsTell, HotplugFollows, Settled, Framing, Changing
  <2>2. \A s \in Switches : ext_state[s] = switch[s]
    BY <2>1 DEF NoneQueued
  <2>3. ext_state = switch
    BY <2>2 DEF TypeOK
  <2> QED
    BY <2>1, <2>3 DEF SwitchFollowed, SettingsFollow
<1> QED
  BY <1>1, <1>2, <1>3, TypeCorrect, PTL DEF Spec

=============================================================================
