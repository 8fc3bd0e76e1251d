# A verification development for the OMAP4 tablet HALs

This directory holds TLA+ modules that model the hardware abstraction layers
(HALs) of this repository, TLC configurations that check them on small
instances, and theorems checked by TLAPS. `PROJECT.json` lists the components,
runs, mutants, findings, hazards and theorems, and maps every definition to the
lines of code it translates.

## 1. The system

The repository is the common device tree of a family of OMAP4470 tablets. Its
own logic is a set of HALs, each a shared library called by an Android service;
the rest is configuration.

| Component | State it keeps | Operations and threads | What is hard |
| --- | --- | --- | --- |
| Hardware composer (`hwc/hwc.c`) | one `omap_hwc_device`: the composition being built (`comp_data`), the counts of overlays in use by each display, the cloning settings `ext`, `force_sgx`, the pipe to the event thread | SurfaceFlinger's thread: `prepare`, `set`, `eventControl`, `registerProcs`, `blank`; the event thread `hdmi_thread`: uevents, the idle timeout; the opener's thread: `hwc_device_open`, which ends with a hotplug | four pipes shared by two displays and handed over frame by frame; flags written outside the lock; posts that fail; redraws that must eventually come |
| Regionizer and blitter (`hwc/rgz_2d.c`) | a ring of framebuffer states, a dirty count per layer, the damaged area and the regions of a frame, a table of commands | called by `prepare` (`blit_layers`), `set` and `rgz_release` | what one buffer of the ring still shows when layers change; rectangles turned, scaled and clipped |
| Software vsync (`hwc/sw_vsync.c`) | the vsync thread, a period, a running flag, the vsync planned next | `start_sw_vsync`, `stop_sw_vsync`, `vsync_loop` | a callback outside the lock, a lost wake-up, a 32-bit clock |
| Displays, docking picture (`hwc/display.c`, `hwc/dock_image.c`) | constant tables, a picture loaded once | getters, `load_dock_image` | little |
| Audio HAL (`audio/audio_hw.c`) | device and stream mutexes, the open PCMs, standby flags, routing | stream write, read, standby and routing, on several threads | lock order, standby of one stream by another, PCMs that fail to open |
| HDMI audio HAL (`audio/hdmi_audio_hw.c`, `hdmi_audio_utils.c`) | a PCM opened at the first write, a map of channels, the sink's capabilities | stream write and standby, `set_parameters`, EDID parsing | no locks at all, one PCM for two streams |
| Power HAL (`libpower/power.c`) | the boost descriptor | `init`, `powerHint`, `setInteractive` | a descriptor used outside the lock that opens it |
| Lights HAL (`liblights/lights.c`) | the last brightness written | `set_light_backlight` | a cached value outside the lock |
| Sensors HAL (`libsensors`) | a circular reader over input events, an enabled flag and delay | `pollEvents`, `readEvents`, `activate`, `setDelay` | wrap-around, blocking reads |
| USB host switcher, init scripts, recovery, overlays, sepolicy, makefiles | none of their own | | not modelled |

The components share no memory with each other. Inside the composer everything
goes through `hwc_dev`, guarded by `hwc_dev->lock` except where the hazards in
`PROJECT.json` say so; the composer calls SurfaceFlinger back through `procs`.

What makes each component correct:

* composer: a pipe is never shown by one display in a frame and by the other in
  the next; overlays of a composition have distinct pipes and z-orders; layers
  stack as SurfaceFlinger's list does and none is lost; mirroring starts by itself;
* regionizer: after the blits of a frame the framebuffer shows the frame's layers;
* software vsync: after stop or a change of the rate one callback is late at most,
  timestamps keep their phase, a start is followed by a vsync;
* audio: threads never block each other for ever, a PCM in use is open, the PCM of
  SCO is open only while the routing is SCO's, rates of one group;
* HDMI audio: the PCM is held by the stream that plays, each speaker gets its
  channel, the layouts offered are the TV's;
* power and lights: what was asked last is what the hardware is told last;
* sensors: events come out of the ring as they went in.

## 2. Plan

| Order | Modules | Content | Theorems |
| --- | --- | --- | --- |
| 1 | `HwcOverlays`, `MCHwcOverlays`, `HwcOverlaysProofs` | overlay accounting, stacking and cloning (done) | done: every safety property of its runs |
| 2 | `HwcEvents`, `MCHwcEvents`, `HwcEventsProofs` | the event thread, the idle timeout and the pipe of posts, `procs`, the hotplug of open racing the thread, buffers for rotation (done); next: `hwc_device_close` | done: types, the buffers of rotation there and freed, the switches followed |
| 3 | `PcmArbiter`, `AudioHal`, `MCAudioHal`, `AudioHalProofs` | threads, mutexes, standby, routing and the life of the two streams, shown to implement an abstract arbiter of PCMs (done); next: `screen_off` and the write thresholds | done: types, transfers, freed streams, no circular waiting, the implementation |
| 4 | `EventQueue`, `InputEventReader`, `SensorsPoll`, `MCSensorsPoll`, `SensorsPollProofs` | the circular reader of input events, shown to implement a queue, and the threads that use it (done); next: errors of `read`, `setDelay` | done: types, the queue, samples in order |
| 5 | `RgzSort`, `RgzGeometry`, `Regionizer`, `MCRegionizer`, `RegionizerProofs`, `RgzFramesProofs` | the regions, the geometry of blits, the ring of framebuffers and the dirty counts of `rgz_2d.c`, against a picture made pixel by pixel (done); next: a flipped NV12 layer, batches of commands | done: every safety property of its run: sorting, the tiling, buffers, bounds, still screens, dirty counts, the picture each frame shows |
| 6 | `SwVsync`, `SwVsyncProofs` | the vsync thread beside its callers, and vsyncs by uevents (done) | done: late and stale vsyncs, their phase |
| 7 | `HdmiCaps`, `HdmiAudio`, `MCHdmiAudio`, `HdmiAudioProofs` | the streams of HDMI, the map of channels, EDIDs (done); next: a map stored while frames are turned around | done: every property of its run: the PCM, the channels, the layouts offered |
| 8 | `PowerHal`, `LightsHal` | the small HALs with threads | the last request wins |

Abstract specifications are worth stating where a component hides its state
behind a simple promise: the PCM arbiter, the queue, the framebuffer. The
modules of one component share an `MC` module, and runs answer one question
each with the smallest instance on which every mutant of its properties shows;
properties that need the same constants share a run.

## 3. `HwcOverlays`: overlays, pipes and displays

The DSS has four pipes, GFX (0) and three VID pipes. `prepare` gives layers
overlays, overlays pipes and z-orders, clones overlays for the external display
on pipes taken from the end, and `set` posts the result.

State. `pc` is where SurfaceFlinger's thread is in `prepare` and `set`; while it
is neither `idle` nor `prepared` the thread holds `hwc_dev->lock`. `ev` says
whether the event thread is about to run `handle_hotplug`. The other variables
have the code's names; `list`, `i`, `z`, `fb_z`, `scaled_gfx`, `ix_docking` and
`mem_used` are locals of `prepare`. `hw` is the hardware: the pipes each
display has shown since the last posted frame. `redraw` says that `invalidate()`
was called since the last `prepare`.

A layer is a record of what the code asks about it: format, whether it needs
scaling, is dockable, protected, blended, valid, its area and 1D memory. Sizes,
rotations and matrices do not occur. `tform` stands for "rotation or flip".

| Action | Code |
| --- | --- |
| `PrepareBegin` | `hwc_prepare` up to the loop: `gather_layer_statistics`, `decide_supported_cloning`, `can_dss_render_all`, the blit of everything |
| `SetupPipe`: `RenderOnOverlay`, `RenderOnFramebuffer`, `RenderNowhere` | one iteration of the loop |
| `PipesDone`, `SetupFramebuffer` | the end of the loop, the blit instead of SGX, the framebuffer's overlay |
| `CloneNothing`, `CloneDocked`, `CloneDockImage`, `MirrorLayers` | cloning and the end of `prepare` |
| `SetPost`, `SetPostFailed`, `SetSwapFailed`, `SetScreenOff` | `hwc_set` and its exits |
| `Uevent`, `Attach`, `Detach` | `handle_uevents` before, and `handle_hotplug` under, the lock |
| `IdleTimeout` | the timeout branch of `hdmi_thread` |

`prepare` is cut into one action per iteration because `handle_uevents` writes
`force_dock` and `hdmi_state` without the lock: such a write may fall between
any two of them. `decide_supported_cloning` reads `force_dock` twice (1052, 1056) and
`PrepareBegin` once: the first read decides something only while mirroring is possible,
and the event thread, which alone writes `force_dock`, has ruled mirroring out for a
forced dock before it takes the next uevent. A uevent between the reads therefore never
takes back the choice of docking (`OneReadIsEnough`, below), and the plan is the one
made after it. What cannot be seen from elsewhere is cleared by `set`
(`EndSet`): the next `prepare` starts with a `memset` of the composition.
`prepare` may be called again before `set`, as the header `hwcomposer.h` allows.

Not modelled: `OMAP_ENHANCEMENT_S3D` (not compiled in), an HDMI primary display
(`hwc_dev->on_tv`), `reset_screen`'s first composition, matrices and windows.
The result of `blit_layers` and of `set_best_hdmi_mode` is nondeterministic.

### Runs

Every run checks for deadlock. The instances are in `MCHwcOverlays`.

| Run | Bounds | Shows |
| --- | --- | --- |
| `HwcHandover` | lists of 0 to 4 layers, with and without dockable and protected ones; docking, mirroring or both, also turned; failing swaps | `TypeOK`, `IndicesDistinct`, `CountsCover`, `OverlaysFit`, `ExternalRotatesNV12`, `PipeHandover` |
| `HwcStacking` | lists of up to three layers that are opaque, blended or invalid (of three, at most one invalid and none blended at the back), some of four and some with large or scaled ones; a 1D slot of 3; posts that fail, the screen off | `StackingOrder`, `ZOrdersDense`, `NoLayerLost`, `GfxNeverScaled` |
| `HwcMirrorShown` | a screen on which only `invalidate` draws; mirroring or not | `MirrorShown` |

Four layers are enough: there are four pipes, and a list of more layers only
leaves more of them to SGX, as the fourth already is. Two configurations of the
properties are enough for cloning: each switch is either value at each hotplug.

Fairness (`FairSpec`): `prepare` does not block (WF of `PrepareRest`);
SurfaceFlinger sets what it prepared last, although it may prepare again first
(SF of `Set`); after `invalidate()` "prepare and set will be called shortly
after" (WF of `PrepareBegin` while `redraw`; `hwcomposer.h`). Nothing else is fair: a still
screen draws nothing by itself, and `MirrorShown` must come from the redraws the
code asks for.

### Findings

`HwcLostLayer` ends in a violation; `PROJECT.json` quotes the comment it refutes: the
decision not to use SGX is taken for a list of which the loop then refuses a layer.

Other constants show more limits of the code. They are not runs of their own;
each bounds what a run or a theorem above may assume:

* `IndicesDistinct` fails with two scaled layers while mirroring (`Lists <-
  TwoScaled`, `CloneConfigs <- MirrorConfigs`): a scaled overlay 0 moves to the pipe
  after the last, which its clone has (line 1765);
* `PipeHandover` fails for `Lists <- ThreeScaled`: pipes are handed over by
  counting overlays, and the moved overlay 0 is not where the count says;
* `PipeHandover` fails for `PrimaryTransform = 1`, where every pipe is one
  higher than its overlay's number;
* `TvNeverBGR` fails for `Lists <- BgrLists`, `HdmiIsTv = TRUE`: a BGR layer is
  cloned to a TV in the frame that sets the TV's mode;
* `DockImageUpright` fails for `CloneConfigs <- TurnedConfigs`: `force_dock`
  changes between the plan and line 1840, later in the same `prepare`;
* `CountsCover` fails when posts fail ("post2" in `SetFaults`): the counts are
  then those of a frame no display has shown.

### Theorems (`HwcOverlaysProofs`)

The inductive invariant is `Budget`: `TypeOK`; `DockDocks` (docking settings
say so); `ComposingFits` (while the loop runs, overlays so far and those kept
for the external display fit four pipes); `ZOrdersCounted` (the next z-order is
the number of overlays plus the framebuffer's, when it has one); `PreparedFits`
(the same for a finished composition, with the overlays of each display counted).
`TypeOK` alone is not inductive: that `num_ovls` stays within four rests on what
`decide_supported_cloning` reserved, which the counts of the last frame bound.

* `BudgetKept`: `Spec => []Budget`; `TypeCorrect` and `OverlaysAlwaysFit` follow.
* `HandoverSafe` and `PipesDistinct`: `PipeHandover` and `IndicesDistinct` under
  `Unscaled`: no list has a layer that needs a scaler, there is no primary
  transform and no post fails. Without it the list above has counterexamples.
  The second invariant, `FromTheEnds`, says that internal overlays have the pipes
  from 0 on, external ones those from 3 down, and that the hardware shows no
  more than the counts of the last frame.

They hold for every set of lists, configurations, policy, flags and (but for
"post2") faults.

The second half of the module goes on from `Budget` to what each overlay has. The properties
speak of a finished composition only, so none is inductive; the invariant says what
the loop has made of the layers it has looked at, and what cloning adds.

* `CompositionKept` is `Spec => [](Budget /\ Stacked /\ Pipes)`. `Stacked`: layers
  get overlays in the order of the list (`LayersAscend`); an overlay's z-order follows
  from its number and the framebuffer's place (`LevelsByNumber`); every layer left to
  SGX brought the framebuffer above all overlays there were, and since then no blended
  layer has got one (`DrawnOnTop`); the same of the finished composition with the
  framebuffer in it, and of the clones above it. `Pipes`: while overlay 0 is scaled
  and on the GFX pipe, no other is there (`GfxLoop`); what will be cloned turned is
  NV12 (`TurnedAreNV12`); the overlay to dock shows a dockable layer.
* `StackingKept`, `ZOrdersAreDense`, `GfxNeverScales`, `ExternalRotates` follow, each
  for every value of the constants. In the second the levels of `FinalLevel` fill an
  interval: all but the framebuffer's close the gap it leaves.
* `CountsCovered`: `CountsCover` if no post is refused (`"post2" \notin SetFaults`).
  The assumption is that of the run, and needed: see the limits above.
* `NoLayerIsLost`: `NoLayerLost` under `Upright` (no configuration turns the external
  display's picture, and BGR layers may go to the TV or are counted). The run
  `HwcLostLayer` shows that it fails with a transform. The check of the whole list and
  the loop agree if nothing between them changes; the event thread changes the
  settings in between, and `NeverTurned` says that what it changes is not what the
  loop asks. The memory counted layer by layer stays within the TILER1D slot because
  it is a part of the sum checked before (`PartialSums`, `SumsGrow`, `MemFitsSums`).

* `OneReadIsEnough`: a uevent leaves the choice of docking as it was, for every list.
  Its invariant, `ForcedNeverMirrors`, says that the event thread polls with mirroring
  off when the dock is forced. It justifies the one read of `force_dock` above.

Sums are recursive functions and the provers have no induction over an operator, so
these lemmas take the least number that is a counterexample (`LeastNatural`, from the
library's theorem that `<` is well-founded on the naturals) and refute it.

Only model-checked: `MirrorShown`, which is a liveness property.

## 4. `HwcEvents`: open, event thread, idle timeout

`hwc_device_open` starts the event thread and then goes on to read a property
and two switches and to handle a first hotplug; the event thread meanwhile polls
for uevents and for the bytes `set` writes into a pipe after each post. When
none comes for a while it sets `force_sgx` and asks for a frame, which `prepare`
then composes on the framebuffer's overlay and those of the layers that keep theirs.

State. `pc` is where SurfaceFlinger's thread (`sf`: first the opener, then the
drawer of frames) and the event thread (`ev`) are. `switch` is what the kernel
knows, `uevents` what it has sent on the socket since `uevent_init` opened it,
`ext_state` what the code believes. `posts` counts the bytes in the pipe. `idle`,
`timed`, `nfds` and `revents` are the event thread's view of the timeout. Of the frame
between `prepare` and `set` there are its number of overlays, how many of its layers keep
an overlay whatever `force_sgx` is (`kept`), and whether the external display has fewer
overlays than it wants (`lacking`), upon which `set` calls `invalidate` once it has
dropped the lock.

| Action | Code |
| --- | --- |
| `CreateThread`, `ReadIdle`, `ReadSwitch`, `StoreSwitch`, `RegisterProcs` | `hwc_device_open` from 2638 on; `hwc_registerProcs` |
| `HotplugRead`, `HotplugAttach`, `HotplugDetach`, `HotplugProcs` | `handle_hotplug`, by either thread: the unlocked read, the critical section, `invalidate` |
| `UeventInit`, `SetTimeout`, `Poll`, `PollReturns`, `ReadSignal`, `HandleUevent` | `hdmi_thread`, `handle_uevents` |
| `IdleTimeout`, `IdleInvalidate` | the timeout branch, with and after the lock |
| `PrepareNew`, `PrepareRedraw` | `prepare`, for a frame of SurfaceFlinger's own or one that was asked for |
| `SetLock`, `SetSignal`, `SetPost` | `set`: it takes the lock, writes the byte (and blocks when the pipe is full), posts, drops the lock and asks for another frame if the external display lacks overlays |
| `Change` | the kernel: a switch changes and a uevent is sent |

What `prepare` decides is `HwcOverlays`' matter: here a frame has any number of
overlays. While `force_sgx` is set it has the framebuffer's and at most one for each
layer that is protected, NV12 and scaled up, or docked: such layers go on to be rendered
by the DSS (lines 1689-1693). Not modelled: an HDMI primary display, vsync uevents,
errors of `poll` and of open, `hwc_device_close`, swaps that fail and the screen turned
off (both are in `HwcOverlays`).

| Run | Bounds | Shows |
| --- | --- | --- |
| `HwcHotplug` | 2 frames drawn unasked or asked for by `set`, besides those asked for by hotplugs and timeouts; 3 overlays, one layer at most that keeps its own; 2 changes of the switches once open is over, a pipe of 6 bytes, a rotation property that may change before each attachment, allocations that succeed | `TypeOK`, `SwitchFollowed`, `BuffersThere`, `BuffersFreed`, `StillScreenSettles` |

Two changes are what it takes to attach and detach once; two frames allow a
frame with an overlay to give up before an idle timeout, and one that comes, or that
`set` asks for, during or after it. (Three frames were tried once, with the same result
in twice the states.) Three overlays are the framebuffer's, one that is kept and one
that is given up. In `HwcHotplug` the pipe
never fills, as it takes more posts than the bounds allow (see the limits below).
Deadlock is not checked: with frames and changes used up the system may rest.

Fairness: threads run (`Open`, `Set`, `EventThread`), and a frame that was
asked for is drawn (`PrepareRedraw`). New frames and changes of the switches
need never come. `EventThread` is a loop that is never interrupted, so weak
fairness of the whole is what the scheduler gives.

Known limits. `SwitchFollowed` fails when the switches may change while open runs
(`EarlyChanges = TRUE`): open stores what it read over the event thread's newer
state (line 2687). `SetAlwaysReturns`, which is not run, fails without an idle
timeout and with a pipe of two bytes, which stand for the 64 KiB of a real one:
nobody reads it, and `set` blocks with the lock held (line 2022). `BuffersFreed`
supposes that every attachment to a dock finds a rotation: a second attachment
without one forgets that there are buffers to free. `PostsSeen` fails, because the
thread reads `idle` before open has stored it and then waits for uevents alone. That
is why `StillScreenSettles` speaks of an event thread that polls the pipe.

`StillScreenSettles` says where a still screen ends: on `1 + kept` overlays. A paused
video that is docked, protected or scaled up stays on its own overlay, and the screen on
two: `<>[](Watching => last_int_ovls <= 1)` fails with one kept layer. Each frame that
`set` asks for counts as a frame drawn, and the bound on frames ends it; with a
protected layer and too few overlays for the external display, `set` may ask after
every frame (line 1985), which is a screen that never is still.

### Theorems (`HwcEventsProofs`)

* `TypeCorrect`: `TypeOK` with `UeventWaits` (a uevent that `poll` announced is
  still there when `handle_uevents` reads it) and `AskIsCounted` (a frame that `set` is
  to ask for still counts within the bound), for any settings and sizes.
* `BuffersThereHolds`: `BuffersThere`. Its invariant, `RotationBuffers`, holds
  during hotplugs as well, as attachment and detachment are critical sections.
* `SwitchesFollowed`: `SwitchFollowed` if `EarlyChanges = FALSE`, for any number of
  changes, posts and frames. It is false otherwise (see the limits above). Alone it
  is not inductive, since it says nothing while uevents are queued. The invariant
  `SwitchInv` adds what holds then: before the first change the event thread is idle
  (`QuietOpening`) and the opener stores what the switches are (`OpenerReads`);
  afterwards the last uevent queued for a switch tells its state, and a switch
  without one has been followed (`UeventsTell`); a hotplug that has read the state
  read the present one, and the settings follow it once it is done
  (`HotplugFollows`). The last uevent of a switch, once handled,
  leaves it followed; a change queues one that tells its state.

* `BuffersFreedHolds`: `BuffersFreed`, without a bound on attachments. A detachment
  frees by the rotation it sees, and not by whether there are buffers. The invariant
  is `BuffersForDock`, buffers only for an external display; a step keeps it while
  `dock_enabled => rotation`, which is what the property supposes of the behaviour.

`StillScreenSettles` is a liveness property and only model-checked.

## 5. `AudioHal` and `PcmArbiter`: the audio streams

State. For each of the two streams its mutex, `standby`, `pcm` (also
`"dangling"`: closed, but the pointer stays) and whether the device points at
it (`active`); the device's mutex and its routing. `bit_in` is
`AUDIO_DEVICE_BIT_IN` in `adev->in_device`, which opening a stream sets and
routing clears. `open` says that a stream exists. For each thread, the call it is
in and its place in it.

A step is what a thread does between two points where it may wait: `LockAdev`,
`LockStream`, `LockRunning`, `LockOther` take a mutex and run on to the next;
`Start` and `StartFails` are the two outcomes of `pcm_open`; `FinishTransfer`
ends a write or read; `Standby`, `SetDevice`, `RouteIgnored` and `Free` are the
rest of standby, routing and closing; `OpenStream` is the opening of a stream.
Output and input have the same code but for details the model keeps: only an
output has the HDMI PCM, only an input has `bit_in`. `Begin` is AudioFlinger: it
makes any call at any time, but none on a stream that it is closing, and has at
most one stream of each kind (`audio_policy.conf`).

Not modelled: `screen_off` with the low-power PCM and the write thresholds,
resamplers and buffers, mixer paths, orientation, `mic_mute`, the getters. A
device is one bit: masks of several devices at once do not occur.

`PcmArbiter` states what the comments promise: a stream has at most one PCM,
the one of SCO exactly while it is routed there; open PCMs have rates of one
group; SCO is not turned on or off under an open PCM. There, a start, a stop and
a rerouting are single steps. `AudioHal` implements it with
`using <- Using`, the PCM of a stream that is not in standby.

`AudioPcms` checks an instance of two threads, three output and two input
devices, and a board whose main PCMs have 44.1 kHz while SCO and HDMI have rates
of the other group (with the rates of this repository, all of group 2, no
stream ever stops another). Two threads are enough for each pair of calls; a
third, tried once with the inductive invariant, shows nothing new. Fairness: a
thread that can go on does, and a transfer ends. No mutex is assumed fair: that
a thread waiting for a stream's mutex gets it (`DeviceReleased`) is due to the
"systematic" acquisition of the device's mutex, as the mutant of `TakesAdev` shows.

### Theorems (`AudioHalProofs`)

For any number of threads, any devices and any rates of the two groups
(`RateAssumption`: each rate is a multiple of 8000 or of 11025, not of both).
The inductive invariant `Inv` is `TypeOK` with

* `Owners`: who owns a mutex is at a label where it is held, and conversely;
* `StreamOK`: a stream out of standby is the active one, is open, and has the PCM
  of its routing;
* `OneGroup`: when both are out of standby their rates are of one group;
* `Exclusive`: no other call is on a stream that is being closed;
* `ThreadOK`: what a thread has found out and still relies on at each label, for
  instance that rates match between `LockOther` and `Start`, where it holds the
  device's mutex.

`InvKept` is `Spec => []Inv`, with one lemma per action. `TypeCorrect`,
`TransfersSafe` and `NoStreamFreedInUse` follow from it.

`NobodyWaitsInACircle` is about the mutexes alone. Two streams that start take each
other's mutex while they hold their own, in opposite orders, and nothing but the
device's mutex keeps them apart. `Owners` shows that a thread which holds a stream's
mutex and waits has the device's too, so a chain of waiting threads ends after the
holder of the device's mutex and the thread, at work in a transfer, that it waits
for (`ShortChains`); a circle, also of one thread, would be a chain without an end.

`ArbiterImplemented` uses `Inv` for each step: standby is a stop, a start is one the
arbiter allows by `OneGroup` and `StreamOK`, storing a device is a rerouting.
`DeviceReleased` is a liveness property and only model-checked.

## 6. `SensorsPoll`, `InputEventReader` and `EventQueue`: the sensors

SensorService calls `poll` in a loop on one thread and `activate` on others. The
accelerometer is the only sensor (`nusensors.cpp` has one driver). Its input
device reports a sample as a few input events, the last a "syn".

`InputEventReader` is the circular reader. `mBuffer` has room for twice
`numEvents`: a read goes to one place, may run over `mBufferEnd`, and what does
is copied to the front (`ToFront`); `mHead` may then stand at the end, where
`mCurr` never does. Pointers are offsets. `kernel` is what a `read` can return.
`EventQueue` is what the reader promises together with the descriptor: a queue.
`EQ` maps it to the events between `mCurr` and `mHead` followed by `kernel`.

`SensorsPoll` adds the threads. `pc` is where `pollEvents` and, inside it,
`readEvents` are; `count`, `nb`, `data`, `revents` and `pending` are the code's
(`nbEvents` is the length of `data` without those `readEvents` still counts);
`delivered` is all that SensorService got. `ctl`, `mEnabled` and `hw_enabled`
are the activating thread, the driver's flag and the kernel's; `wake` counts the
bytes in the wake pipe.

| Action | Code |
| --- | --- |
| `Call`, `Scan`, `PollReturns`, `Return` | `pollEvents` |
| `FillReader`, `ReadRel`, `ReadSyn`, `ReadOther`, `EventsRead` | `Kxtf9Sensor::readEvents`, `fill`, `readEvent`, `next` |
| `Activate`, `Wake` | `activate`, `Kxtf9Sensor::enable` |
| `Report` | the kernel, while the sensor is enabled |

A sample's values are its number, in the events that carry them and in its
time: `DeliveredInOrder` says that the k-th sample delivered is the k-th
reported, with its own values. One event with values stands for those of the
three axes: all of a sample become readable at once, before its "syn".

| Run | Bounds | Shows |
| --- | --- | --- |
| `SensorsPoll` | a reader of 5 events, 4 samples of 2 or 3 events, room for 1 or 5 samples, 2 activations, a wake pipe of one byte | `TypeOK`, `DeliveredInOrder`, `QueueSpec`, `WaitsEmptyHanded`, `AllDelivered` |

A reader of five events holds one sample and a part of the next, so reads cut
samples; four samples run over its end twice, at different places. Deadlock is
not checked: with samples and activations used up the thread waits for ever.

Fairness: the polling thread runs and SensorService polls again (`FairSpec`).
Samples and activations need never come, so `AllDelivered` cannot lean on a
later sample to push out an earlier one.

Known limit: `WaitsWithNothing`, which is not run, fails. A call of `pollEvents`
that uses up its room leaves `revents` set, also when the descriptor is empty by
then. The next call reads from it and waits for a new sample, with samples left in
the reader, where the comment says that it waits only when there is nothing to
return. `WaitsEmptyHanded` and `AllDelivered` therefore speak of behaviours in which
no call uses up its room (`RoomLeft`); what SensorService passes is far more than
the reader holds.

### Theorems (`SensorsPollProofs`)

For readers of any size and every room and bound. The inductive invariant
`ReaderInv` adds two facts to the reader's types: `HeadMeets` (the unread events
end where the head stands, but for a whole turn; the head may stand at the end
of the buffer) and `AllWritten` (each place that may be read was written).
`FillPlaces` shows what a read leaves at each place of the ring; from it and
the facts about sequences `FillStep`, `NextStep` and `ArriveStep` show that the
queue stays, loses its first event, or grows.

* `ReaderInvKept`, `ReaderIsQueue`: the reader under its own specification, whose
  only assumption is that `next` is called for an event that was seen;
* `PollUsesReader`: `SensorsPoll` is such a user, so `EventsQueued` (its
  `QueueSpec`) follows;
* `TypeCorrect`: by `TypeInv`, which adds that samples are counted only while
  events are read;
* `SamplesInOrder`: `DeliveredInOrder`. The events in the reader and behind it in the
  kernel's queue are what the ring's representation stands for; in that list a
  sample's events are together and samples follow each other (`EventsFollow`). The
  first of them belongs to the sample after those delivered and held (`Got`), and its
  values are in hand unless it brings them (`NextIsNext`). That reading takes the
  first of the list wherever the reader wraps is `NextStep`.

* `NeverWaitsWithSamples`: `WaitsEmptyHanded`. Outside of `readEvents` the reader is
  empty, and `revents` is set only while the descriptor has events (`AllRead`). A
  step keeps this if the state after it has `RoomLeft`, as the property supposes.

Only model-checked: `AllDelivered`, a liveness property. Not modelled: errors
of `read` and `poll`, partial events, the limit of the kernel's own queue,
`setDelay`, the search for the input device, and the conversion of counts to m/s^2.

## 7. `Regionizer`, `RgzGeometry` and `RgzSort`: composition by the blitter

When `persist.hwc.blt_policy` and the layers allow it, `prepare` gives the layers
DSS does not show to the GC320 blitter instead of SGX. In `region` mode the
regionizer (`rgz_2d.c`) redraws of the next framebuffer only what differs from what
that framebuffer was left with.

`RgzSort` holds the two loops on an array of coordinates (`rgz_bsort`,
`rgz_bunique`). `RgzGeometry` holds what is computed of rectangles: the damaged
area, the horizontal regions and their subregions, views turned by quarter circles,
and the command for a copy, a blend or a clear with its source, destination and
clipping rectangles. The loops that keep some elements of an array are `Chosen` and
`Meeting`. The blitter itself is outside of `src/`: `AfterBlits` says what
a sequence of commands makes of a pixel. `Regionizer` holds what `rgz_in_hwccheck`
compares between frames, `rgz_out`'s choice of commands, the buffers handed to the
kernel and the frame as a whole.

A step of `Regionizer` is a frame: everything from `prepare` to the end of `set` is
on one thread, under one lock, and nobody else touches the regionizer. What may go
wrong is in the sequence of frames.

| State | Code |
| --- | --- |
| `rgz` | `grgz`: the frame's layers with their dirty counts, the index of the target framebuffer, the layers each framebuffer was left with |
| `blt_mode` | `persist.hwc.blt_mode`, paint or region |
| `list`, `handle`, `drawn` | the layers passed last, which of a layer's two buffers is its newest, and who drew |
| `fb`, `target` | the framebuffers' pixels, and the one drawn last (the kernel's ring, external) |

| Action | Code |
| --- | --- |
| `BlitFrame` | `blit_layers` succeeds: `rgz_in`, `rgz_out`, `set` |
| `SgxFrame` | `blit_layers` refuses, or is not called while the displays mirror: SGX draws everything, the regionizer is released |
| `DssFrame` | no layer is left for a framebuffer |

Whether a framebuffer is right is asked pixel by pixel: each is the stack of layers
visible there, with the place in the layer's buffer it comes from and whether that
is the newest content. `Picture` is the reference, made from the layers alone;
nothing of the regions or commands is in it.

| Run | Bounds | Shows |
| --- | --- | --- |
| `Regionizer` | a screen of 3 by 2; an opaque layer cropped from its buffer at two places, one of them partly off screen, a blended one turned by 90 degrees, a scaled NV12 one turned by 270 that DSS shows in some lists and the blitter in others; eight lists; new content of one layer; both modes | `FrameShown`, `StaleIsDirty`, `RegionsTile`, `SortsRight`, `BlitsInBounds`, `BuffersMatch`, `StillCostsNothing` |
| `RgzReturns` (violation) | the same, but a layer that left for one frame may return to another place | `FrameShown` does not hold |

With two framebuffers a frame depends on the two before it, and any of the lists may
follow any other. Three layers and the background give every order of copies, blends
of two and blends over the framebuffer. Deadlock is checked: a frame can always be
drawn. `RegionsTile`, `SortsRight` and `BlitsInBounds` speak of every damaged area
the lists can give, not only of the one of the last frame.

Finding (`RgzReturns`): a layer that was not in the last frame, but still is in the
target framebuffer's state and at another place, is handled as a new one, and its
old place is not redrawn. `Regionizer` therefore assumes `LayersReturn = FALSE`:
such a layer comes back where it was.

Known limits, which the runs' inputs avoid:

* layers are told apart by their identity and compared one by one, so two layers that
  exchange their z-orders (`StableOrder`), or one whose blending changes while its
  identity stays, are not noticed as changes;
* a crop is an area of its buffer (`CropAssumption`, as `hwcomposer.h` says of
  `sourceCrop`); the regionizer does not check it;
* `rgz_in_hwccheck` accepts eleven layers, but the room checked for regions in
  `rgz_in_hwc` is for one less, so eleven are refused in region mode;
* the regionizer is not told when the post of a frame it prepared fails;
* a layer that does not meet the screen at all is assumed not to be passed.

Not modelled: colours (the stack of a pixel stands for them), single flips (refused,
but for NV12), the flags that batch commands, the debugging paths (SVG pictures,
`bvdirect`, the no-blend and no-scale switches).

### Theorems about one frame (`RegionizerProofs`)

For any screen with an area (`ScreenAssumption`), any layers with attributes of the
right types (`AttrAssumption`) and crops inside of their buffers (`CropAssumption`),
any lists in which a layer is passed once and meets the screen (`InputsAssumption`),
and a background that is none of the layers (`BackgroundAssumption`).
The inductive invariant `RgzInv` says that what each framebuffer was left with is a
stack (`Stack`: the background, then layers that meet the screen), and that if the
blitter drew the last frame, its layers are what `rgz_in_hwccheck` described the
list as, with some dirty counts, stored for the framebuffer the index names. It is
needed because all properties speak of the layers kept, not of those passed.
`RegionizerStates` is `Spec => []RgzInv`. What follows from it is mostly about
operators:

* `EdgesSorted`: `SortsRight`. The loops are recursive functions; `LeastNatural` gives
  their induction and `Recursion` their existence. `SunkRight` and `BSortRight` are
  the invariants of the two loops of `rgz_bsort`, `TurnRight` and `BUniqueRight` the
  one of `rgz_bunique`: what is before `base` is strictly ascending, everything after
  it in order, and no value is lost. An ascending list of a set is unique
  (`OneList`).
* `RegionsCover`: `RegionsTile`. The ends of the screen are among the edges
  (`EdgesCut`: the background is one of the layers), so consecutive edges bound pieces
  that cover the screen once (`PiecesRight`), first in y, then in x; an edge of a
  layer or of the damaged area falls between two pieces, never into one (`TileRight`).
* `BuffersFound`: `BuffersMatch`. A layer's index is the number of overlays and of
  candidates before it; the buffers are laid out in that order once the place of the
  framebuffer is closed up (`GapClosed`, `OwnBuffer`).
* `StillIsFree`: `StillCostsNothing`. With the same places in both framebuffers nothing
  is damaged, a layer that was dirty once is no longer (`SamePlaces`, `StillFrame`),
  and regions of clean layers give no command (`CleanCostsNothing`).
* `NoBlitStrays`: `BlitsInBounds`. Commands inside of their bounds form a set
  (`GoodCommands`). `TurnedInside` is the arithmetic of a view turned by quarter
  circles, `SourceInside` and `ReadableRight` that of the part of a layer's buffer
  below a subregion of its frame; each kind of command is shown to be in the set,
  then those of a subregion (by the invariant of the loop over its layers), of all
  regions and of paint mode.

### Theorems from frame to frame (`RgzFramesProofs`)

What a framebuffer shows is the work of two frames' commands, with what lay on it
before them, and takes an invariant of its own, `FbInv`, beside `RgzInv`:

* each pixel of the framebuffer drawn last is `Fine`: it shows the layers that
  reach it, from the topmost opaque one upwards, in their order, all with their
  newest content and each from the right place of its buffer (`Sampled`);
* in region mode, each pixel of the other one, drawn two frames ago, is `Left`: it
  shows what the state kept for that framebuffer says, and a layer of it that is still
  passed has old content only if its dirty count says that both framebuffers wait for it;
* the layers drawn last and those of the other framebuffer are a `Chain`: a layer
  without such a count has its content there.

A frame in region mode keeps it because of two arguments, one for each kind of pixel.

* A pixel that is redrawn. Of all commands only those of the one subregion that holds
  the pixel write it (`TileDecides`, from the tiling of `RegionsCover`), and they
  pile the layers over it in their order, whatever was there (`CommandsPile`, by
  induction over the commands), so it shows what it has to (`RedrawnShows`).
* A pixel that is not. It lies outside of the damage, so the layers over it were over it
  in the target's state, at the same places (`UndamagedPlaces`); a layer in front has
  no dirty count, so it was kept (`FrontKept`), the layers that show are the same
  ones (`OwnKept`), all are new, and the places are those a layer's frame and crop
  say, which have not changed (`SampledAgain`, `UntouchedShows`).

In paint mode every pixel is redrawn by whole layers, and nothing is asked of the other
framebuffer. The invariant of the loop over the layers (`PaintShows`) is that the
first m of them show as they would alone; one layer more adds itself, or hides them
(`OwnMore`, `FrontMore`).

Which place of its buffer a command copies to a pixel is the matter of `SampleRight`:
for each turn, clip, scaling and format the blitter reads the place which the
layer's crop, frame and transform put at that pixel (`PixelOf`). For a layer that is
not scaled, only the part below the subregion is turned, and `PartTurned` finds that
part in the turned whole, `TurnBack` undoes the turn. A scaled layer is a command
for its whole frame, clipped (`ScaledSample`). For NV12 the screen is turned instead of
the layer (`PlainSampleTurned`, `ScaledSampleTurned`).

`TargetFine` and `OtherLeft` put these together, `BlitStep` and `FbStep` make a step
of it; a frame that SGX or DSS takes releases the regionizer's states, so nothing is
claimed to be known of the other framebuffer afterwards. Four theorems follow:

* `FramebuffersKnown`: `Spec => [](RgzInv /\ FbInv)`.
* `LayersAreShown`: after every frame of the blitter each pixel is `Fine`, redrawn or
  not.
* `StaleIsRedrawn`: `StaleIsDirty`. A layer whose old content is on the framebuffer
  drawn next is dirty.
* `FramesAreShown`: `FrameShown`. The framebuffer of the last frame is the picture of
  the layers that were passed, each pixel with the same layers, places and content.
  The layers kept are those passed (`DescribedAs`), and a pixel that is `Fine` shows
  one stack only (`OwnSeen`, `FineIsPicture`).

They have two hypotheses that the other theorems do without, and both mark a limit of
the code. `~LayersReturn` is that a layer coming back after one frame is where
it was: without it the finding `RgzReturns` is a counterexample. `StableOrder` is
that two layers keep their order from list to list: no code notices that it changed.
`FramesAreShown` has a third, `SampledAlike`. A turned NV12 layer is read from the
other end of an axis, since the framebuffer is turned in its place; if it is scaled
by a factor that is not whole, nearest sampling from the other end takes other pixels
of it than sampling from this end would. That is a matter of one pixel and of the external
blitter's rounding, so the hypothesis sets it aside; layers that are not scaled, or not
NV12, or not turned, or shown by DSS, satisfy it. The constants of the run `Regionizer`
satisfy all three (`OrderAssumption`, `SamplingAssumption`), with lists that add, drop,
move, damage and hand layers to DSS, and a scaled and turned NV12 layer.

## 8. `SwVsync`: vsync events

`eventControl` starts and stops vsyncs for SurfaceFlinger. With `use_sw_vsync` they
come from a thread (`sw_vsync.c`), otherwise from the kernel by uevents. A critical
section of `vsync_mutex` is one step.

State. `vsync_loop_active`, `vsync_rate` and `use_sw_vsync` have the code's names;
`loop` is the thread with its locals; `call` says where each caller is between
reading the property, its critical section and its signal; `kernel_vsync` and
`uevents` are the kernel's side. `time` is the real clock, `Wrapped(time)` what
`tv_sec * 1000000000 + tv_nsec` makes of it in the 32 bits of `time_t` (`Word`
values here; the overflow is taken to wrap around). `seen` is what SurfaceFlinger's
callback could notice.

| Action | Code |
| --- | --- |
| `Begin`, `Start`, `Stop`, `Signal` | `eventControl`, `start_sw_vsync`, `stop_sw_vsync`; the signal comes after the unlock |
| `ReadRate`, `Compute`, `Callback`, `WokenForNothing` | a turn of `vsync_loop`, and a wake-up nobody asked for |
| `Uevent`, `HandleUevent`, `RegisterProcs`, `Tick` | the kernel's vsyncs, their handling, `registerProcs`, time |

| Run | Bounds | Shows |
| --- | --- | --- |
| `SwVsync` | two callers and three calls, periods 2 and 3, nine units of time, a clock of twelve values, one uevent waiting | `OneLateVsync`, `OneStaleVsync`, `VsyncsInPhase`, `StartTicks` |
| `SwVsyncMissed` (violation) | the same | `NextIsAhead` does not hold |

Two callers are enough for a stop or a change of the rate at each step of a start; a
time may begin anywhere in 0 to 9, and the clock wraps in between. Deadlock is not
checked: time ends at its bound.

Fairness (`Fairness`): a caller finishes its call, the thread runs, time passes
while the thread sleeps, and callbacks are registered in the end. Calls need never
come. Wake-ups without a signal are possible but not fair, so `StartTicks` rests on
the signals alone.

Finding (`SwVsyncMissed`): the clock wraps around every four seconds, so after a
stop of that length `now` may be less than the vsync planned and a vsync in the past
is taken for one ahead; the thread then calls back without sleeping until it has
caught up. Phase and order are kept even so.

### Theorems (`SwVsyncProofs`)

For any set of callers and periods, any width of the clock and any bounds. The
inductive invariant `VsyncInv` is `Typed` (in particular a loop that passed
`ReadRate` has a period, and a flag that is set has a rate); `LateInv` (when the
loop is stopped and one vsync was late, the thread is back at the lock or waiting);
and `StaleInv` (the same for a vsync with a rate no longer set). `VsyncInvariant` is
`Spec => []VsyncInv`; `DividesByAPeriod` (the remainder is never taken by zero),
`LateOnce` and `StaleOnce` follow.

`PhaseKept` is `VsyncsInPhase`, with `VsyncInv` and an invariant of its own: with the
software's vsyncs, the next one planned is a number of periods after the one that is
due (`SwPhase`); with the kernel's, the timestamps in the queue ascend from the last
one seen to the clock (`KernelPhase`). `NextInPhase` is the arithmetic of
`vsync_loop`: what it adds to the vsync planned is a multiple of the period even if
the clock that wrapped around makes the difference negative. Only model-checked:
`StartTicks`, a liveness property.

## 9. `HdmiCaps`: what a TV can play

`QueryCaps` is `hdmi_query_audio_caps`: the size of the EDID from its count of
blocks and a block map, the first CEA block, the walk over its data blocks to the
speaker allocation. `Offered` is `get_parameters`' list of layouts. The TV (`Edid`,
`Plays`) is external: it writes an EDID from a description, and `OfferRight`
compares what is offered with the description. Blocks have 16 bytes instead of 128
in the run, at most four; five TVs have the CEA block first or after a block map,
with or without audio, speakers first, last or twice in a block that they fill, and a
second CEA block. `IsTv` says what a TV is: blocks and data blocks are as long as they
say, and the EDID is shorter than `HDMI_MAX_EDID`, which "is enforced in the kernel"
(line 75). Not modelled: the audio data blocks' formats and rates, which no caller
uses; EDIDs that lie about their own lengths.

## 10. `HdmiAudio`: streams of HDMI

Streams share one PCM; each is written by a thread of its own, and a player's
`set_parameters` comes on another. There is no lock, so every access to what is
shared is a step of its own.

| Action | Code |
| --- | --- |
| `OpenStream`, `CloseStream`, `Standby` | `hdmi_adev_open_output_stream`, `close`, `hdmi_out_standby` |
| `Write`, `ReadCEAMap`, `Remap`, `PcmWrite` | `hdmi_out_write`: the PCM is opened, `CEAMap` read, the frame turned around, sent or not |
| `SetParameters`, `StoreCEAMap` | `hdmi_adev_set_parameters`: the map, then the flag |
| `GetParameters` | `hdmi_out_get_parameters`, with the TV attached then |

`holder` is the kernel's: which stream has the PCM open. A sample is known by its
place in the frame.

The run `HdmiAudio` has two streams, five maps (CEA's order, two others, CEA's with
two channels exchanged, one that names a channel twice), two calls of
`set_parameters` and shows `ChannelsRight`, `PcmHeld` and `OfferRight`. Two streams
are as many as `audio_policy.conf` has for HDMI; the second call changes a map that
is in use. Deadlock is checked.

Known limits, which the properties' conditions leave out:

* a map is read as a decimal number from a value of eight bytes, so seven digits at
  most: maps of eight channels, and maps of six whose number is longer, are garbled,
  although the comment (line 518) says "Handle maximum of 8 channels";
  `ChannelsRight` speaks of six channels and maps with zeros behind;
* `map` overlays the header of the device, as the device is cast from
  `audio_hw_device_t`: before any `set_parameters` a stream of more than two
  channels is turned around by the header, and a map overwrites it;
* layouts of four channels keep only what the first four places of CEA's order name;
* a map stored while a frame is turned around gives a frame of both;
* when opening the PCM fails, `pcm_get_error` is asked of no PCM (line 393).

### Theorems (`HdmiAudioProofs`)

`PcmHeldByOne` is `PcmHeld` for any number of streams, any TVs and maps. The
inductive invariant says that a stream's two flags agree and a closed stream is down
(`Flags`), that the holders are the streams that are up (`Held`), and that there is
one at most (`Alone`). Each action leaves the PCM alone, gives it up or takes it
while nobody has it (`Unmoved`, `GaveUp`, `Took`); one lemma each shows the
invariant.

`ChannelsPlayedRight` is `ChannelsRight` for any maps of which those that reorder six
channels have zeros behind (`SixNamed`; the limits above say why), and any number of
streams. A number of six channels has seven digits, so `Read` returns it whole and
`Nibble` finds each channel (`SixNibbles`, `SixStored`). `IsCEA` asks for five
matches out of eight: if one of the six channels is out of its place a second one is
as well, and places seven and eight do not match, so five are never reached
(`FiveOfSix`). The invariant says that between two calls of `set_parameters` the
map stored is the one asked for and the flag is about it (`MapInv`), and that a
stream which has looked at the flag since then turns its frame around exactly if the
flag says so (`SteadyInv`).

`OffersAreRight` is `OfferRight` for any TVs: blocks of any size, any number and any
contents of data blocks. The property is about what the functions of `HdmiCaps` return,
so the steps of the proof are lemmas about them, not an invariant. `EdidRight` finds
every byte of every block at its offset; `FoundRight` says that the places where the HAL
looks for CEA blocks, up to the size it works out, are those of the TV's, and
`FirstRight` that the first place is the first block's. The walk is a
recursive function over the bytes. `WalkRight` shows it equal to one without
recursion, which at step k is at the end of data block k with the last speaker
allocation so far and stays at the end of the block afterwards: that one satisfies the
walk's equation (so a function that does exists), and what satisfies it is the same
at each step (`UpTo`). Where data blocks lie in the block is `Flattened`, for
the concatenation that is recursive as well.

## 11. Mutants

`Mut...` operators are plausible mistakes in the definition that follows each
(a dropped cap, an off-by-one, a missing check). Replacing the definition by
the mutant must violate the property `PROJECT.json` names: this shows that the
instance reaches the case the property is about.
