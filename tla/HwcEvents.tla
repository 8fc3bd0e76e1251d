------------------------------ MODULE HwcEvents ------------------------------
(***************************************************************************)
(* The threads of the OMAP4 hardware composer (hwc/hwc.c) and what passes  *)
(* between them: hwc_device_open starts the event thread and goes on to    *)
(* read the properties and switches and to handle a first hotplug itself;  *)
(* the event thread polls for uevents and, unless idle is 0, for the bytes *)
(* that set writes into a pipe after each post; without a post for a while *)
(* it asks for a composition on one overlay.                               *)
(*                                                                         *)
(* SurfaceFlinger opens the device, registers its procs and then prepares  *)
(* and sets frames on one thread, "sf"; the event thread is "ev".  What    *)
(* prepare decides is in HwcOverlays: here a frame has a number of overlays *)
(* and of layers that keep theirs, and may leave the external display short.*)
(***************************************************************************)
EXTENDS Integers, Sequences

CONSTANTS
  Idle,         \* debug.hwc.idle is not 0
  Rotations,    \* whether persist.hwc.mirroring.transform may have a rotation
  Tiler2dFb,    \* limits.fbmem_type is TILER2D
  AllocResults, \* whether ion_alloc_tiler may succeed
  EarlyChanges, \* the switches may change while the device is being opened
  MaxOverlays,  \* the overlays there are: MAX_HW_OVERLAYS
  MaxKept,      \* bound: a frame's layers that keep an overlay whatever force_sgx is
  PipeCap,      \* the bytes the pipe holds before write blocks
  MaxFrames,    \* bound: frames SurfaceFlinger draws unasked or since set asks for them
  MaxChanges    \* bound: changes of the switches

ASSUME ConstantsAssumption ==
  /\ {Idle, Tiler2dFb, EarlyChanges} \subseteq BOOLEAN
  /\ Rotations \subseteq BOOLEAN /\ Rotations # {}
  /\ AllocResults \subseteq BOOLEAN /\ AllocResults # {}
  /\ {PipeCap, MaxOverlays} \subseteq Nat \ {0}
  /\ MaxKept \in 0 .. MaxOverlays - 1
  /\ {MaxFrames, MaxChanges} \subseteq Nat

Switches == {"hdmi", "dock"}
Processes == {"sf", "ev"}

VARIABLES
  pc,            \* where each process is
  switch,        \* the kernel's switches
  uevents,       \* the uevents queued on the socket
  socket,        \* uevent_init opened the socket
  ext_state,     \* ext->hdmi_state and ext->force_dock
  seen,          \* the switch state the opener read from its file
  state,         \* the local state of handle_hotplug, per process
  dock_enabled, mirror_enabled, rotation,   \* ext->dock and ext->mirror
  ion_handles,   \* the tiler2d buffers are allocated
  procs,         \* hwc_dev->procs is set
  redraw,        \* invalidate() was called since the last prepare began
  idle,          \* hwc_dev->idle is not 0
  timed,         \* hdmi_thread's timeout is idle rather than -1
  nfds,          \* the descriptors hdmi_thread polls, the pipe being the second
  revents,       \* what the last poll found readable
  posts,         \* bytes in the pipe
  num_ovls, last_int_ovls, force_sgx,
  kept,          \* the frame's layers that keep an overlay whatever force_sgx is
  lacking,       \* the external display has too few overlays, and set is to ask again
  frames, changes

switchVars == <<switch, uevents, changes>>
extVars    == <<dock_enabled, mirror_enabled, rotation, ion_handles>>
pollVars   == <<socket, timed, nfds, revents>>
frameVars  == <<num_ovls, last_int_ovls, kept, lacking, frames>>
vars == <<pc, switchVars, ext_state, seen, state, extVars, procs, redraw, idle,
          pollVars, posts, frameVars, force_sgx>>

At(p, l) == pc[p] = l
Goto(p, l) == pc' = [pc EXCEPT ![p] = l]

\* hwc_dev->lock is held by set while it posts; the other critical sections are
\* single steps.
LockFree == pc["sf"] \notin {"post", "posted"}

-----------------------------------------------------------------------------
(* handle_hotplug, run by the opener and by the event thread.              *)

\* The state is read before the lock is taken.
HotplugRead(p) ==
  /\ At(p, "hotplug")
  /\ state' = [state EXCEPT ![p] = ext_state["hdmi"]]
  /\ Goto(p, "hotlock")
  /\ UNCHANGED <<switchVars, ext_state, seen, extVars, procs, redraw, idle, pollVars,
                 posts, frameVars, force_sgx>>

\* allocate_tiler2d_buffers keeps buffers there are already.
MutAllocated(rot) ==    \* looks at the rotation of the display before
  IF rotation /\ ~Tiler2dFb /\ ~ion_handles
  THEN ion_handles' \in AllocResults
  ELSE UNCHANGED ion_handles
Allocated(rot) ==
  IF rot /\ ~Tiler2dFb /\ ~ion_handles
  THEN ion_handles' \in AllocResults
  ELSE UNCHANGED ion_handles

\* A forced dock rules out mirroring, and setup_mirroring may fail.
MutMirrorResults == BOOLEAN
MirrorResults == IF ext_state["dock"] THEN {FALSE} ELSE BOOLEAN

\* Attached: the settings are read again.
HotplugAttach(p) ==
  /\ At(p, "hotlock") /\ LockFree
  /\ state[p]
  /\ dock_enabled' = TRUE
  /\ mirror_enabled' \in MirrorResults
  /\ \E rot \in Rotations : rotation' = rot /\ Allocated(rot)
  /\ state' = [state EXCEPT ![p] = FALSE]
  /\ Goto(p, "hotprocs")
  /\ UNCHANGED <<switchVars, ext_state, seen, procs, redraw, idle, pollVars,
                 posts, frameVars, force_sgx>>

\* The buffers are freed for the rotation they should have been allocated for.
MutBuffersToFree == mirror_enabled
BuffersToFree == rotation /\ ~Tiler2dFb

HotplugDetach(p) ==
  /\ At(p, "hotlock") /\ LockFree
  /\ ~state[p]
  /\ dock_enabled' = FALSE
  /\ mirror_enabled' = FALSE
  /\ ion_handles' = (ion_handles /\ ~BuffersToFree)
  /\ Goto(p, "hotprocs")
  /\ UNCHANGED <<switchVars, ext_state, seen, state, rotation, procs, redraw, idle,
                 pollVars, posts, frameVars, force_sgx>>

HotplugProcs(p) ==
  /\ At(p, "hotprocs")
  /\ redraw' = (redraw \/ procs)
  /\ Goto(p, IF p = "sf" THEN "register" ELSE "poll")
  /\ UNCHANGED <<switchVars, ext_state, seen, state, extVars, procs, idle, pollVars,
                 posts, frameVars, force_sgx>>

HandleHotplug(p) ==
  HotplugRead(p) \/ HotplugAttach(p) \/ HotplugDetach(p) \/ HotplugProcs(p)

-----------------------------------------------------------------------------
(* The opener.                                                             *)

CreateThread ==
  /\ At("sf", "create")
  /\ pc' = [sf |-> "idle", ev |-> "start"]
  /\ UNCHANGED <<switchVars, ext_state, seen, state, extVars, procs, redraw, idle,
                 pollVars, posts, frameVars, force_sgx>>

ReadIdle ==
  /\ At("sf", "idle")
  /\ idle' = Idle
  /\ Goto("sf", "read_hdmi")
  /\ UNCHANGED <<switchVars, ext_state, seen, state, extVars, procs, redraw, pollVars,
                 posts, frameVars, force_sgx>>

\* The file of switch s is read, then the state is stored.
ReadSwitch(s, here, there) ==
  /\ At("sf", here)
  /\ seen' = switch[s]
  /\ Goto("sf", there)
  /\ UNCHANGED <<switchVars, ext_state, state, extVars, procs, redraw, idle, pollVars,
                 posts, frameVars, force_sgx>>

StoreSwitch(s, here, there) ==
  /\ At("sf", here)
  /\ ext_state' = [ext_state EXCEPT ![s] = seen]
  /\ seen' = FALSE
  /\ Goto("sf", there)
  /\ UNCHANGED <<switchVars, state, extVars, procs, redraw, idle, pollVars,
                 posts, frameVars, force_sgx>>

RegisterProcs ==
  /\ At("sf", "register")
  /\ procs' = TRUE
  /\ Goto("sf", "frame")
  /\ UNCHANGED <<switchVars, ext_state, seen, state, extVars, redraw, idle, pollVars,
                 posts, frameVars, force_sgx>>

Open ==
  \/ CreateThread
  \/ ReadIdle
  \/ ReadSwitch("hdmi", "read_hdmi", "store_hdmi")
  \/ StoreSwitch("hdmi", "store_hdmi", "read_dock")
  \/ ReadSwitch("dock", "read_dock", "store_dock")
  \/ StoreSwitch("dock", "store_dock", "hotplug")
  \/ HandleHotplug("sf")
  \/ RegisterProcs

-----------------------------------------------------------------------------
(* SurfaceFlinger's frames.                                                *)

\* prepare: with force_sgx the framebuffer's overlay and, at most, one for each layer
\* that is protected, NV12 and scaled up, or docked.
OverlaysFor(k) == IF force_sgx > 0 THEN 1 .. 1 + k ELSE 1 .. MaxOverlays

Prepare ==
  /\ At("sf", "frame")
  /\ kept' \in 0 .. MaxKept
  /\ num_ovls' \in OverlaysFor(kept')
  /\ lacking' \in {l \in BOOLEAN : l => dock_enabled /\ frames' < MaxFrames}
  /\ redraw' = FALSE
  /\ Goto("sf", "set")
  /\ UNCHANGED <<switchVars, ext_state, seen, state, extVars, procs, idle, pollVars,
                 posts, last_int_ovls, force_sgx>>

\* A frame SurfaceFlinger was asked for, or has of its own.
PrepareRedraw == redraw /\ UNCHANGED frames /\ Prepare
PrepareNew == frames < MaxFrames /\ frames' = frames + 1 /\ Prepare

SetLock ==
  /\ At("sf", "set")
  /\ Goto("sf", "post")
  /\ UNCHANGED <<switchVars, ext_state, seen, state, extVars, procs, redraw, idle,
                 pollVars, posts, frameVars, force_sgx>>

\* write blocks while the pipe is full.
SetSignal ==
  /\ At("sf", "post")
  /\ posts < PipeCap
  /\ posts' = posts + 1
  /\ Goto("sf", "posted")
  /\ UNCHANGED <<switchVars, ext_state, seen, state, extVars, procs, redraw, idle,
                 pollVars, frameVars, force_sgx>>

MutCounted == force_sgx - 1
Counted == IF force_sgx > 0 THEN force_sgx - 1 ELSE 0

\* invalidate is called once the lock is dropped.
SetPost ==
  /\ At("sf", "posted")
  /\ force_sgx' = Counted
  /\ last_int_ovls' = num_ovls
  /\ redraw' = (redraw \/ lacking)
  /\ lacking' = FALSE
  /\ frames' = IF lacking THEN frames + 1 ELSE frames
  /\ Goto("sf", "frame")
  /\ UNCHANGED <<switchVars, ext_state, seen, state, extVars, procs, idle, pollVars,
                 posts, num_ovls, kept>>

Set == SetLock \/ SetSignal \/ SetPost

-----------------------------------------------------------------------------
(* hdmi_thread.                                                            *)

UeventInit ==
  /\ At("ev", "start")
  /\ socket' = TRUE
  /\ Goto("ev", "init")
  /\ UNCHANGED <<switchVars, ext_state, seen, state, extVars, procs, redraw, idle, timed,
                 nfds, revents, posts, frameVars, force_sgx>>

SetTimeout ==
  /\ At("ev", "init")
  /\ timed' = idle
  /\ Goto("ev", "poll")
  /\ UNCHANGED <<switchVars, ext_state, seen, state, extVars, procs, redraw, idle, socket,
                 nfds, revents, posts, frameVars, force_sgx>>

Polled == IF idle THEN 2 ELSE 1

Poll ==
  /\ At("ev", "poll")
  /\ nfds' = Polled
  /\ Goto("ev", "wait")
  /\ UNCHANGED <<switchVars, ext_state, seen, state, extVars, procs, redraw, idle, socket,
                 timed, revents, posts, frameVars, force_sgx>>

NotReadable == [uevent |-> FALSE, pipe |-> FALSE]
Readable == [uevent |-> uevents # <<>>, pipe |-> nfds = 2 /\ posts > 0]

\* A byte of the pipe is read first.
PollReturns ==
  /\ At("ev", "wait")
  /\ Readable.uevent \/ Readable.pipe
  /\ revents' = IF Readable.pipe THEN Readable ELSE NotReadable
  /\ posts' = IF Readable.pipe THEN posts - 1 ELSE posts
  /\ Goto("ev", IF Readable.pipe THEN "signal" ELSE "uevent")
  /\ UNCHANGED <<switchVars, ext_state, seen, state, extVars, procs, redraw, idle, socket,
                 timed, nfds, frameVars, force_sgx>>

\* The timeout is armed again unless overlays are being given up, which is read
\* without the lock.
MutRearmed == timed
Rearmed == IF force_sgx = 0 THEN idle ELSE timed

ReadSignal ==
  /\ At("ev", "signal")
  /\ timed' = Rearmed
  /\ revents' = NotReadable
  /\ Goto("ev", IF revents.uevent THEN "uevent" ELSE "poll")
  /\ UNCHANGED <<switchVars, ext_state, seen, state, extVars, procs, redraw, idle, socket,
                 nfds, posts, frameVars, force_sgx>>

HandleUevent ==
  /\ At("ev", "uevent")
  /\ ext_state' = [ext_state EXCEPT ![Head(uevents).switch] = Head(uevents).on]
  /\ uevents' = Tail(uevents)
  /\ Goto("ev", "hotplug")
  /\ UNCHANGED <<switch, changes, seen, state, extVars, procs, redraw, idle, pollVars,
                 posts, frameVars, force_sgx>>

\* poll timed out: nothing is done without procs, nor with one overlay in use.
IdleTimeout ==
  /\ At("ev", "wait") /\ timed
  /\ ~Readable.uevent /\ ~Readable.pipe
  /\ LockFree
  /\ IF procs /\ last_int_ovls > 1 /\ force_sgx = 0
     THEN force_sgx' = 2 /\ Goto("ev", "invalidate")
     ELSE Goto("ev", "poll") /\ UNCHANGED force_sgx
  /\ UNCHANGED <<switchVars, ext_state, seen, state, extVars, procs, redraw, idle,
                 pollVars, posts, frameVars>>

IdleInvalidate ==
  /\ At("ev", "invalidate")
  /\ redraw' = TRUE
  /\ timed' = FALSE
  /\ Goto("ev", "poll")
  /\ UNCHANGED <<switchVars, ext_state, seen, state, extVars, procs, idle, socket, nfds,
                 revents, posts, frameVars, force_sgx>>

EventThread ==
  \/ UeventInit
  \/ SetTimeout
  \/ Poll
  \/ PollReturns
  \/ ReadSignal
  \/ HandleUevent
  \/ HandleHotplug("ev")
  \/ IdleTimeout
  \/ IdleInvalidate

-----------------------------------------------------------------------------

\* A switch changes; the uevent is lost if nobody has opened the socket.
Change(s) ==
  /\ changes < MaxChanges
  /\ EarlyChanges \/ (pc["sf"] \in {"register", "frame", "set", "post", "posted"} /\ socket)
  /\ switch' = [switch EXCEPT ![s] = ~@]
  /\ uevents' = IF socket THEN Append(uevents, [switch |-> s, on |-> ~switch[s]]) ELSE uevents
  /\ changes' = changes + 1
  /\ UNCHANGED <<pc, ext_state, seen, state, extVars, procs, redraw, idle, pollVars,
                 posts, frameVars, force_sgx>>

Init ==
  /\ pc = [sf |-> "create", ev |-> "none"]
  /\ switch \in [Switches -> BOOLEAN]
  /\ uevents = <<>> /\ socket = FALSE
  /\ ext_state = [s \in Switches |-> FALSE]
  /\ seen = FALSE /\ state = [p \in Processes |-> FALSE]
  /\ dock_enabled = FALSE /\ mirror_enabled = FALSE /\ rotation = FALSE
  /\ ion_handles = FALSE
  /\ procs = FALSE /\ redraw = FALSE
  /\ idle = FALSE /\ timed = FALSE /\ nfds = 1
  /\ revents = NotReadable
  /\ posts = 0 /\ num_ovls = 0 /\ last_int_ovls = 0 /\ force_sgx = 0
  /\ kept = 0 /\ lacking = FALSE
  /\ frames = 0 /\ changes = 0

Frames == PrepareRedraw \/ PrepareNew \/ Set

Next == Open \/ Frames \/ EventThread \/ \E s \in Switches : Change(s)

Spec == Init /\ [][Next]_vars

\* Threads run; a frame that was asked for is drawn.  New frames and changes of
\* the switches need never come.
FairSpec ==
  /\ Spec
  /\ WF_vars(Open) /\ WF_vars(PrepareRedraw) /\ WF_vars(Set)
  /\ WF_vars(EventThread)

-----------------------------------------------------------------------------
(* Properties.                                                             *)

Opening == {"create", "idle", "read_hdmi", "store_hdmi", "read_dock", "store_dock",
            "hotplug", "hotlock", "hotprocs", "register"}
Framing == {"frame", "set", "post", "posted"}
Polling == {"none", "start", "init", "poll", "wait", "signal", "uevent", "hotplug",
            "hotlock", "hotprocs", "invalidate"}

TypeOK ==
  /\ pc \in [Processes -> Opening \cup Framing \cup Polling]
  /\ pc["sf"] \in Opening \cup Framing /\ pc["ev"] \in Polling
  /\ switch \in [Switches -> BOOLEAN] /\ ext_state \in [Switches -> BOOLEAN]
  /\ uevents \in Seq([switch: Switches, on: BOOLEAN])
  /\ state \in [Processes -> BOOLEAN]
  /\ {socket, seen, dock_enabled, mirror_enabled, rotation, ion_handles, procs, redraw,
      idle, timed} \subseteq BOOLEAN
  /\ nfds \in {1, 2} /\ revents \in [uevent: BOOLEAN, pipe: BOOLEAN]
  /\ posts \in 0 .. PipeCap
  /\ num_ovls \in 0 .. MaxOverlays /\ last_int_ovls \in 0 .. MaxOverlays
  /\ kept \in 0 .. MaxKept /\ lacking \in BOOLEAN /\ force_sgx \in 0 .. 2
  /\ frames \in 0 .. MaxFrames /\ changes \in 0 .. MaxChanges

\* No hotplug is going on or waiting: open is over and the event thread polls.
Settled ==
  /\ pc["sf"] \in Framing
  /\ pc["ev"] \in {"poll", "wait"}
  /\ uevents = <<>>

\* "whether HDMI is connected": once hotplugs have been handled, the composer's
\* idea of both switches is the kernel's, and the cloning settings follow it.
SwitchFollowed ==
  Settled =>
    /\ ext_state = switch
    /\ dock_enabled = switch["hdmi"]
    /\ mirror_enabled => switch["hdmi"] /\ ~switch["dock"]

\* "free tiler 2D buffer on detach": without an external display no buffers are
\* kept for its rotation, as long as each attachment finds the rotation set.
BuffersFreed ==
  [](dock_enabled => rotation) => [](Settled /\ ~dock_enabled => ~ion_handles)

\* With a rotation to do and memory to be had, a mirrored framebuffer has buffers
\* to be rotated into.
BuffersThere ==
  Settled /\ mirror_enabled /\ rotation /\ ~Tiler2dFb /\ FALSE \notin AllocResults
    => ion_handles

\* The event thread polls the pipe.
Watching == nfds = 2

\* Once the event thread polls the pipe, a screen that stays still ends on the
\* framebuffer's overlay and those of the layers that keep theirs: the idle timeout is
\* armed again whenever overlays are left that it can have given up.
StillScreenSettles == <>[](Watching => last_int_ovls <= 1 + kept)

\* "signal the event thread that a post has happened": every post is read.
PostsSeen == posts > 0 ~> posts = 0

\* set returns: the byte it writes for each post, with the lock held, finds room
\* in the pipe in the end, whether or not the idle timeout is in use.
SetAlwaysReturns == At("sf", "post") ~> ~At("sf", "post")

=============================================================================
