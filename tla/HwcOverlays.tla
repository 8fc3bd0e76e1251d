----------------------------- MODULE HwcOverlays -----------------------------
(***************************************************************************)
(* The overlay accounting of the OMAP4 hardware composer (hwc/hwc.c).      *)
(*                                                                         *)
(* The display subsystem (DSS) has four overlay pipes, numbered 0..3, that *)
(* the LCD and the external HDMI display share.  SurfaceFlinger's thread   *)
(* calls prepare and set for every frame; prepare decides which layers get *)
(* an overlay, which pipe each overlay uses, its z-order, and which        *)
(* overlays are cloned to the external display; set posts the result.  The *)
(* event thread changes the cloning settings (HDMI and dock switches) and  *)
(* asks for single-overlay compositions when the screen is idle.           *)
(*                                                                         *)
(* prepare runs under hwc_dev->lock.  It is cut into steps (one per layer  *)
(* of the list) so that the writes the event thread makes without the lock *)
(* (force_dock, hdmi_state) may fall between any two of them.              *)
(*                                                                         *)
(* The primary display is an LCD here (hwc_dev->on_tv = 0).  ovls is the   *)
(* kernel structure's array: entry k describes overlay k, layer 0 standing *)
(* for the framebuffer and layer DockImage for the docking picture.        *)
(***************************************************************************)
EXTENDS Integers, Sequences, FiniteSets

CONSTANTS
  Lists,            \* the layer lists SurfaceFlinger may pass to prepare
  CloneConfigs,     \* the values the persist.hwc.* cloning properties may have
  PrimaryTransform, \* 1 if the framebuffer and the LCD differ in resolution
  BltPolicy,        \* "disabled", "default" or "all"
  FlagsRgbOrder,    \* debug.hwc.rgb_order
  FlagsNv12Only,    \* debug.hwc.nv12_only
  FbIsBGR,          \* the framebuffer format is in BGR order
  HdmiIsTv,         \* the external display is on the DIGIT channel
  Tiler1dSlot,      \* limits.tiler1d_slot_size
  SetFaults         \* what may go wrong in set: "post2", "swap", "off"

MAX_HW_OVERLAYS == 4
NUM_NONSCALING_OVERLAYS == 1

Slots == 0 .. MAX_HW_OVERLAYS - 1
FrameBuffer == 0
DockImage == -1

Layers ==
  [fmt: {"RGB", "BGR", "NV12"}, scaled: BOOLEAN, upscaled: BOOLEAN,
   dockable: BOOLEAN, protected: BOOLEAN, blended: BOOLEAN, valid: BOOLEAN,
   area: Nat, mem: Nat]

Transforms == [enabled: BOOLEAN, docking: BOOLEAN, tform: BOOLEAN]

Overlays ==
  [ix: Int, zorder: Int, mgr: {0, 1}, layer: Int]

NoOverlay == [ix |-> 0, zorder |-> 0, mgr |-> 0, layer |-> FrameBuffer]

ASSUME ConstantsAssumption ==
  /\ Lists \subseteq Seq(Layers)
  /\ CloneConfigs \subseteq
       [dock: BOOLEAN, mirror: BOOLEAN, dockTform: BOOLEAN, mirrorTform: BOOLEAN]
  /\ PrimaryTransform \in {0, 1}
  /\ BltPolicy \in {"disabled", "default", "all"}
  /\ {FlagsRgbOrder, FlagsNv12Only, FbIsBGR, HdmiIsTv} \subseteq BOOLEAN
  /\ SetFaults \subseteq {"post2", "swap", "off"}
  /\ Tiler1dSlot \in Nat

VARIABLES
  pc,          \* SurfaceFlinger's thread: where it is in prepare and set
  ev,          \* event thread: "poll", or "hotplug" before handle_hotplug's lock
  hdmi_state, force_dock,              \* written without the lock
  dock, mirror, current, last,         \* ext->dock, mirror, current, last
  on_tv,                               \* ext->on_tv
  list, i, num,                        \* the frame's layers and the layer at hand
  use_sgx, swap_rb, blitted, force_sgx,
  z, fb_z, scaled_gfx, ix_docking, mem_used,
  ovls, num_ovls, post2_layers, ext_mgr,
  ext_ovls, ext_ovls_wanted, last_ext_ovls, last_int_ovls,
  hw,          \* the pipes each display shows since the last posted frame
  redraw       \* invalidate() was called since the last prepare began

extVars  == <<dock, mirror, current, last, on_tv>>
loopVars == <<i, z, fb_z, scaled_gfx, ix_docking, mem_used>>
planVars == <<list, num, use_sgx, swap_rb, blitted>>
compVars == <<ovls, num_ovls, post2_layers, ext_mgr>>
acctVars == <<ext_ovls, ext_ovls_wanted, last_ext_ovls, last_int_ovls>>
vars == <<pc, ev, hdmi_state, force_dock, extVars, loopVars, planVars, compVars,
          acctVars, force_sgx, hw, redraw>>

Least(a, b) == IF a < b THEN a ELSE b
Greatest(a, b) == IF a > b THEN a ELSE b

\* hwc_dev->lock is held by prepare between its steps.
LockFree == pc \in {"idle", "prepared"}

-----------------------------------------------------------------------------
(* What prepare computes from the list before it assigns pipes.            *)

\* is_RGB, is_BGR and is_NV12 split the valid formats.
IsRGB(l) == l.fmt = "RGB"
IsBGR(l) == l.fmt = "BGR"
IsNV12(l) == l.fmt = "NV12"

\* gather_layer_statistics: the counters only look at the valid layers.
CountOf(ls, P(_)) == Cardinality({k \in DOMAIN ls : ls[k].valid /\ P(ls[k])})
SomeLayer(ls, P(_)) == \E k \in DOMAIN ls : ls[k].valid /\ P(ls[k])
MutPossibleOverlayLayers(ls) == Len(ls)   \* counts the layers no overlay can show
PossibleOverlayLayers(ls) == CountOf(ls, LAMBDA l : TRUE)
ScaledLayers(ls) ==
  CountOf(ls, LAMBDA l : l.scaled \/ IsNV12(l) \/ PrimaryTransform = 1)
HasDockable(ls) == SomeLayer(ls, LAMBDA l : l.dockable)
HasProtected(ls) == SomeLayer(ls, LAMBDA l : l.protected)
MemFits(ls) ==
  LET total[k \in 0 .. Len(ls)] ==
        IF k = 0 THEN 0
        ELSE total[k - 1] + (IF ls[k].valid THEN ls[k].mem ELSE 0)
  IN  total[Len(ls)] <= Tiler1dSlot

\* decide_supported_cloning: the branch for docking is taken unless mirroring
\* is possible and nothing asks to be docked.  force_dock is read again in that branch;
\* one read stands for both, as the first tells something only while mirroring is
\* possible, when no uevent can find the dock forced (HwcOverlaysProofs).
WantsDocking(ls) == HasDockable(ls) \/ force_dock
Docks(ls) == dock.enabled /\ ~(mirror.enabled /\ ~WantsDocking(ls))

CloningPlan(ls) ==
  IF Docks(ls) THEN
    LET wanted == IF WantsDocking(ls) THEN 1 ELSE 0
    IN  [wanted |-> wanted,
         max_hw |-> MAX_HW_OVERLAYS - Greatest(wanted, last_ext_ovls),
         nonscaling |-> NUM_NONSCALING_OVERLAYS,
         current |-> IF mirror.enabled THEN [mirror EXCEPT !.docking = TRUE] ELSE dock]
  ELSE IF mirror.enabled THEN
    [wanted |-> MAX_HW_OVERLAYS - MAX_HW_OVERLAYS \div 2,
     max_hw |-> MAX_HW_OVERLAYS \div 2,
     nonscaling |-> NUM_NONSCALING_OVERLAYS \div 2,
     current |-> mirror]
  ELSE
    [wanted |-> 0,
     max_hw |-> MAX_HW_OVERLAYS - last_ext_ovls,
     nonscaling |-> NUM_NONSCALING_OVERLAYS,
     current |-> [current EXCEPT !.enabled = FALSE]]

\* Reserved, but for the cap by what is wanted, and but for the last frame.
MutReservedUncapped(plan) == MAX_HW_OVERLAYS - last_int_ovls
MutReservedBlindly(plan) == plan.wanted

\* The overlays the external display may have at once: what the internal
\* display's last composition leaves.
Reserved(plan) == Least(MAX_HW_OVERLAYS - last_int_ovls, plan.wanted)

MirrorLimited(ls, plan) ==
  /\ ~HasProtected(ls)
  /\ Reserved(plan) > 0
  /\ plan.current.enabled
  /\ ~plan.current.docking

MaxHwOverlays(ls, plan) ==
  (IF MirrorLimited(ls, plan) THEN Reserved(plan) ELSE plan.max_hw)
    - (IF PrimaryTransform = 1 THEN NUM_NONSCALING_OVERLAYS ELSE 0)

MaxScalingOverlays(ls, plan) ==
  MaxHwOverlays(ls, plan) - (IF PrimaryTransform = 1 THEN 0 ELSE plan.nonscaling)

CanDssRenderAll(ls, plan) ==
  LET possible == PossibleOverlayLayers(ls)
      nv12     == CountOf(ls, IsNV12)
      cur      == plan.current
  IN  /\ force_sgx = 0
      /\ possible > 0
      /\ possible <= MaxHwOverlays(ls, plan)
      /\ possible = Len(ls)
      /\ ScaledLayers(ls) <= MaxScalingOverlays(ls, plan)
      /\ nv12 <= MaxScalingOverlays(ls, plan)
      /\ MemFits(ls)
      /\ \/ ~(cur.enabled /\ cur.tform)
         \/ nv12 = possible
         \/ nv12 > 0 /\ cur.docking
      /\ \/ ~SomeLayer(ls, IsBGR)
         \/ ~SomeLayer(ls, IsRGB) /\ ~(on_tv /\ cur.enabled)
         \/ ~FlagsRgbOrder
      /\ FlagsNv12Only => ~SomeLayer(ls, IsBGR) /\ ~SomeLayer(ls, IsRGB)

\* hwc_prepare up to the pipe setup loop.  blit_layers refuses while mirroring
\* is enabled; whether it succeeds otherwise is the regionizer's business.
PrepareBegin(ls) ==
  LET plan    == CloningPlan(ls)
      dss_all == CanDssRenderAll(ls, plan)
  IN
  /\ LockFree
  /\ list' = ls
  /\ num' = [protected |-> HasProtected(ls), max_hw_overlays |-> MaxHwOverlays(ls, plan)]
  /\ current' = plan.current
  /\ ext_ovls_wanted' = plan.wanted
  /\ ext_ovls' = Reserved(plan)
  /\ \E blit_all \in BOOLEAN :
       /\ blit_all => BltPolicy = "all" /\ ~mirror.enabled
       /\ blitted' = blit_all
       /\ use_sgx' = (~dss_all /\ ~blit_all)
       /\ swap_rb' = (IF blit_all THEN FALSE
                      ELSE IF dss_all THEN SomeLayer(ls, IsBGR) ELSE FbIsBGR)
       /\ num_ovls' = IF dss_all /\ ~blit_all THEN 0 ELSE 1
       /\ pc' = IF blit_all THEN "fb" ELSE "pipes"
  /\ ovls' = [k \in Slots |-> NoOverlay]
  /\ i' = 1 /\ z' = 0 /\ fb_z' = -1 /\ scaled_gfx' = FALSE
  /\ ix_docking' = -1 /\ mem_used' = 0
  /\ redraw' = FALSE
  /\ ext_mgr' = FALSE
  /\ UNCHANGED <<ev, hdmi_state, force_dock, dock, mirror, last, on_tv, force_sgx,
                 post2_layers, last_ext_ovls, last_int_ovls, hw>>

-----------------------------------------------------------------------------
(* The pipe setup loop.                                                    *)

\* CanDssRenderLayer without the check of the external transform.
MutCanDssRenderLayer(l) ==
  LET cloning == current.enabled /\ (~current.docking \/ l.dockable)
  IN  /\ l.valid
      /\ FlagsNv12Only => ~use_sgx \/ IsNV12(l)
      /\ ~(IF swap_rb THEN IsRGB(l) ELSE IsBGR(l)) \/ ~FlagsRgbOrder
      /\ ~(on_tv /\ cloning /\ IsBGR(l))

\* can_dss_render_layer: whether an overlay can show this layer at all.
CanDssRenderLayer(l) ==
  LET cloning == current.enabled /\ (~current.docking \/ l.dockable)
  IN  /\ l.valid
      /\ ~(cloning /\ current.tform) \/ IsNV12(l)
      /\ FlagsNv12Only => ~use_sgx \/ IsNV12(l)
      /\ ~(IF swap_rb THEN IsRGB(l) ELSE IsBGR(l)) \/ ~FlagsRgbOrder
      /\ ~(on_tv /\ cloning /\ IsBGR(l))

\* TakesOverlay without the check that nothing blended goes above the framebuffer.
MutTakesOverlay(l) ==
  /\ num_ovls < num.max_hw_overlays
  /\ CanDssRenderLayer(l)
  /\ \/ force_sgx = 0
     \/ l.protected
     \/ l.upscaled
     \/ current.docking /\ current.enabled /\ l.dockable
  /\ mem_used + l.mem <= Tiler1dSlot

\* The condition of the loop for giving layer l the next overlay.
TakesOverlay(l) ==
  /\ num_ovls < num.max_hw_overlays
  /\ CanDssRenderLayer(l)
  /\ \/ force_sgx = 0
     \/ l.protected
     \/ l.upscaled
     \/ current.docking /\ current.enabled /\ l.dockable
  /\ mem_used + l.mem <= Tiler1dSlot
  /\ ~(l.blended /\ fb_z >= 0)

NeedsScaler(l) == l.scaled \/ IsNV12(l)

\* The layer gets overlay num_ovls.  The GFX pipe (0) cannot scale: if overlay 0
\* needs a scaler, the first overlay that does not is given the GFX pipe.
RenderOnOverlay(l) ==
  LET fresh == [ix |-> num_ovls + PrimaryTransform, zorder |-> z, mgr |-> 0, layer |-> i]
      first == num_ovls = 0 /\ PrimaryTransform = 0
      swaps == ~first /\ scaled_gfx /\ ~NeedsScaler(l)
  IN
  /\ TakesOverlay(l)
  /\ mem_used' = mem_used + l.mem
  /\ ovls' = IF swaps
             THEN [ovls EXCEPT ![0].ix = num_ovls, ![num_ovls] = [fresh EXCEPT !.ix = 0]]
             ELSE [ovls EXCEPT ![num_ovls] = fresh]
  /\ scaled_gfx' = IF first THEN NeedsScaler(l) ELSE scaled_gfx /\ ~swaps
  /\ ix_docking' =
       IF /\ l.dockable
          /\ ix_docking >= 0 => l.area > list[ovls[ix_docking].layer].area
       THEN num_ovls ELSE ix_docking
  /\ num_ovls' = num_ovls + 1
  /\ z' = z + 1
  /\ UNCHANGED fb_z

\* The overlays above the framebuffer, moved down by one.
MutLowered ==
  [k \in Slots |-> IF k \in fb_z + 1 .. z - 2 THEN [ovls[k] EXCEPT !.zorder = @ - 1] ELSE ovls[k]]
Lowered ==
  [k \in Slots |-> IF k \in fb_z + 1 .. z - 1 THEN [ovls[k] EXCEPT !.zorder = @ - 1] ELSE ovls[k]]

\* The layer is left to SGX: the framebuffer takes the next z-order, or moves up
\* to the top by lowering the overlays above it.
RenderOnFramebuffer(l) ==
  /\ ~TakesOverlay(l)
  /\ use_sgx
  /\ IF fb_z < 0
     THEN /\ fb_z' = z
          /\ z' = z + 1
          /\ UNCHANGED ovls
     ELSE /\ ovls' = Lowered
          /\ fb_z' = Greatest(fb_z, z - 1)
          /\ UNCHANGED z
  /\ UNCHANGED <<scaled_gfx, ix_docking, mem_used, num_ovls>>

\* Neither: nothing in the code renders the layer.
RenderNowhere(l) ==
  /\ ~TakesOverlay(l)
  /\ ~use_sgx
  /\ UNCHANGED <<ovls, num_ovls, z, fb_z, scaled_gfx, ix_docking, mem_used>>

SetupPipe ==
  /\ pc = "pipes"
  /\ i <= Len(list)
  /\ \/ RenderOnOverlay(list[i])
     \/ RenderOnFramebuffer(list[i])
     \/ RenderNowhere(list[i])
  /\ i' = i + 1
  /\ UNCHANGED <<pc, ev, hdmi_state, force_dock, extVars, planVars, post2_layers, ext_mgr,
                 acctVars, force_sgx, hw, redraw>>

PipesDone ==
  /\ pc = "pipes"
  /\ i > Len(list)
  /\ pc' = "fb"
  /\ UNCHANGED <<ev, hdmi_state, force_dock, extVars, loopVars, planVars, compVars,
                 acctVars, force_sgx, hw, redraw>>

\* The GFX pipe must not scale: overlay 0 moves to the next VID pipe if it has to.
MutGfxMoved == ovls
GfxMoved == IF scaled_gfx THEN [ovls EXCEPT ![0].ix = num_ovls] ELSE ovls

\* After the loop: a GFX layer that still needs a scaler moves to the next VID
\* pipe, the blitter may take over from SGX, and the framebuffer gets overlay 0.
SetupFramebuffer ==
  LET needs_fb == use_sgx \/ blitted
      top      == IF fb_z < 0 THEN z ELSE fb_z
      moved    == GfxMoved
  IN
  /\ pc = "fb"
  /\ \E blit \in BOOLEAN :
       /\ blit => BltPolicy = "default" /\ use_sgx /\ ~mirror.enabled
       /\ use_sgx' = (use_sgx /\ ~blit)
       /\ blitted' = (blitted \/ blit)
  /\ IF needs_fb
     THEN /\ ovls' = [moved EXCEPT ![0] = [ix |-> PrimaryTransform, zorder |-> top,
                                           mgr |-> 0, layer |-> FrameBuffer]]
          /\ fb_z' = top
          /\ z' = IF fb_z < 0 THEN z + 1 ELSE z
     ELSE /\ ovls' = moved
          /\ UNCHANGED <<fb_z, z>>
  /\ post2_layers' = num_ovls
  /\ pc' = "clone"
  /\ UNCHANGED <<ev, hdmi_state, force_dock, extVars, i, scaled_gfx, ix_docking, mem_used,
                 list, num, swap_rb, num_ovls, ext_mgr, acctVars, force_sgx, hw, redraw>>

-----------------------------------------------------------------------------
(* Cloning to the external display, and the end of prepare.                *)

\* What set_best_hdmi_mode may answer: a mode was set (on_tv follows the
\* channel), or the display cannot take the picture.
ModeSet(res) ==
  /\ res \in {"kept", "set", "failed"}
  /\ on_tv' = (on_tv \/ (res = "set" /\ HdmiIsTv))

ClonesLayers ==
  /\ current.enabled
  /\ \/ ~num.protected /\ ext_ovls > 0
     \/ ext_ovls_wanted > 0 /\ ext_ovls >= ext_ovls_wanted

\* clone_layer for overlay src as external overlay number n: external pipes are
\* taken from the end.
MutClone(src, n) ==
  [src EXCEPT !.ix = MAX_HW_OVERLAYS - n, !.mgr = 1, !.zorder = @ + post2_layers]
Clone(src, n) ==
  [src EXCEPT !.ix = MAX_HW_OVERLAYS - 1 - n, !.mgr = 1, !.zorder = @ + post2_layers]

\* The common end of prepare: cur is ext->current and n the overlays in all.
\* The external manager is programmed while it is enabled or has overlays left.
FinishPrepare(cur, n) ==
  /\ pc' = "prepared"
  /\ current' = cur
  /\ last' = cur
  /\ num_ovls' = n
  /\ ext_mgr' = (cur.enabled \/ last_ext_ovls > 0)
  /\ ext_ovls' = IF cur.enabled \/ last_ext_ovls > 0 THEN n - post2_layers ELSE ext_ovls
  /\ UNCHANGED <<ev, hdmi_state, force_dock, dock, mirror, i, fb_z, scaled_gfx, mem_used,
                 planVars, post2_layers, ext_ovls_wanted, last_ext_ovls, last_int_ovls,
                 force_sgx, hw, redraw>>

CloneNothing ==
  /\ pc = "clone"
  /\ \/ ~ClonesLayers
     \/ current.docking /\ ix_docking < 0 /\ ~force_dock
  /\ FinishPrepare(current, num_ovls)
  /\ UNCHANGED <<ovls, z, ix_docking, on_tv>>

\* clone_external_layer for overlay src, given z-order zo.
CloneExternal(src, zo) ==
  \E res \in {"kept", "set", "failed"} :
    /\ ModeSet(res)
    /\ IF res = "failed"
       THEN /\ FinishPrepare([current EXCEPT !.enabled = FALSE], num_ovls)
            /\ UNCHANGED <<ovls, z>>
       ELSE IF num_ovls >= MAX_HW_OVERLAYS
       THEN /\ FinishPrepare(current, num_ovls)
            /\ UNCHANGED <<ovls, z>>
       ELSE /\ FinishPrepare(current, num_ovls + 1)
            /\ ovls' = [ovls EXCEPT ![num_ovls] =
                          [Clone(src, num_ovls - post2_layers) EXCEPT !.zorder = zo]]
            /\ z' = z + 1

\* The largest dockable overlay goes to the external display, on top.
CloneDocked ==
  /\ pc = "clone"
  /\ ClonesLayers
  /\ current.docking
  /\ ix_docking >= 0
  /\ CloneExternal(ovls[ix_docking], z)
  /\ UNCHANGED ix_docking

\* Docking is forced and there is nothing to dock: show the docking picture.
CloneDockImage ==
  /\ pc = "clone"
  /\ ClonesLayers
  /\ current.docking
  /\ ix_docking < 0
  /\ force_dock
  /\ ix_docking' = num_ovls
  /\ CloneExternal([NoOverlay EXCEPT !.layer = DockImage], post2_layers)

\* Every overlay is mirrored, until the pipes run out.  Coming from docking the
\* HDMI mode is set up for mirroring first.
MirrorLayers ==
  LET n == Least(post2_layers, MAX_HW_OVERLAYS - num_ovls)
  IN
  /\ pc = "clone"
  /\ ClonesLayers
  /\ ~current.docking
  /\ \E res \in IF last.docking THEN {"set", "failed"} ELSE {"kept"} :
       /\ ModeSet(res)
       /\ IF res = "failed"
          THEN /\ FinishPrepare(current, num_ovls)
               /\ UNCHANGED <<ovls, z>>
          ELSE /\ FinishPrepare(current, num_ovls + n)
               /\ ovls' = [k \in Slots |->
                             IF k \in num_ovls .. num_ovls + n - 1
                             THEN Clone(ovls[k - num_ovls], k - post2_layers)
                             ELSE ovls[k]]
               /\ z' = z + n
  /\ UNCHANGED ix_docking

-----------------------------------------------------------------------------
(* hwc_set.                                                                *)

\* The pipes of the composition at hand that manager m shows.
PipesOf(m) == {ovls[k].ix : k \in {s \in 0 .. num_ovls - 1 : ovls[s].mgr = m}}

\* The frame did not get the external overlays it wanted, and should have.
MutInvalidates ==
  /\ ext_ovls_wanted > 0
  /\ ext_ovls < ext_ovls_wanted
  /\ num.protected
Invalidates ==
  /\ ext_ovls_wanted > 0
  /\ ext_ovls < ext_ovls_wanted
  /\ num.protected \/ ext_ovls = 0

\* The lock is dropped.  prepare's locals and the caller's list are gone, and
\* nothing reads the composition again before the next prepare clears it.
EndSet ==
  /\ pc = "prepared"
  /\ pc' = "idle"
  /\ redraw' = (redraw \/ Invalidates)
  /\ list' = <<>>
  /\ i' = 1 /\ z' = 0 /\ fb_z' = -1 /\ scaled_gfx' = FALSE
  /\ ix_docking' = -1 /\ mem_used' = 0
  /\ use_sgx' = FALSE /\ swap_rb' = FALSE /\ blitted' = FALSE
  /\ num' = [protected |-> FALSE, max_hw_overlays |-> 0]
  /\ ovls' = [k \in Slots |-> NoOverlay] /\ num_ovls' = 0 /\ post2_layers' = 0
  /\ ext_mgr' = FALSE /\ ext_ovls' = 0 /\ ext_ovls_wanted' = 0
  /\ UNCHANGED <<ev, hdmi_state, force_dock, extVars>>

\* The overlays of the frame are counted as in use by their displays.
MutCountPosted ==
  /\ last_int_ovls' = post2_layers
  /\ UNCHANGED last_ext_ovls
CountPosted ==
  /\ last_ext_ovls' = ext_ovls
  /\ last_int_ovls' = post2_layers

\* A frame is posted: the kernel programs the managers the composition names.
SetPost ==
  /\ EndSet
  /\ CountPosted
  /\ force_sgx' = Greatest(force_sgx - 1, 0)
  /\ hw' = [int |-> PipesOf(0), ext |-> IF ext_mgr THEN PipesOf(1) ELSE hw.ext]

\* Post2 fails: the display keeps the previous frame, yet the counts move on.
SetPostFailed ==
  /\ "post2" \in SetFaults
  /\ EndSet
  /\ CountPosted
  /\ force_sgx' = Greatest(force_sgx - 1, 0)
  /\ UNCHANGED hw

\* eglSwapBuffers fails: nothing is posted and nothing is counted.
SetSwapFailed ==
  /\ "swap" \in SetFaults
  /\ EndSet
  /\ use_sgx
  /\ UNCHANGED <<last_ext_ovls, last_int_ovls, force_sgx, hw>>

\* dpy or sur is null: the screen is being turned off, which releases the pipes.
SetScreenOff ==
  /\ "off" \in SetFaults
  /\ EndSet
  /\ CountPosted
  /\ UNCHANGED force_sgx
  /\ hw' = [int |-> {}, ext |-> {}]

-----------------------------------------------------------------------------
(* The event thread.                                                       *)

\* handle_uevents writes the switch state without the lock.
Uevent ==
  /\ ev = "poll"
  /\ ev' = "hotplug"
  /\ \/ /\ hdmi_state' \in BOOLEAN
        /\ UNCHANGED force_dock
     \/ /\ force_dock' \in BOOLEAN
        /\ UNCHANGED hdmi_state
  /\ UNCHANGED <<pc, extVars, loopVars, planVars, compVars, acctVars, force_sgx, hw, redraw>>

EndHotplug ==
  /\ ev = "hotplug"
  /\ LockFree
  /\ ev' = "poll"
  /\ redraw' = TRUE
  /\ UNCHANGED <<pc, hdmi_state, force_dock, last, loopVars, planVars, compVars, acctVars,
                 force_sgx, hw>>

\* handle_hotplug, display attached.  A forced dock rules mirroring out and has
\* no transform; if mirroring is possible its mode is set up at once.
Attach(c) ==
  LET mirroring == [enabled |-> c.mirror /\ ~force_dock, docking |-> FALSE,
                    tform |-> c.mirrorTform]
  IN
  /\ EndHotplug
  /\ hdmi_state
  /\ dock' = [enabled |-> c.dock, docking |-> TRUE, tform |-> c.dockTform /\ ~force_dock]
  /\ IF mirroring.enabled
     THEN \E res \in {"set", "failed"} :
            /\ ModeSet(res)
            /\ current' = mirroring
            /\ mirror' = [mirroring EXCEPT !.enabled = res # "failed"]
     ELSE /\ mirror' = mirroring
          /\ UNCHANGED <<current, on_tv>>

\* handle_hotplug, display detached.
Detach ==
  /\ EndHotplug
  /\ ~hdmi_state
  /\ dock' = [dock EXCEPT !.enabled = FALSE]
  /\ mirror' = [mirror EXCEPT !.enabled = FALSE]
  /\ UNCHANGED <<current, on_tv>>

\* hdmi_thread's poll timed out: nothing was posted for a while, so overlays
\* are given up for two frames if more than one is in use.
IdleTimeout ==
  /\ ev = "poll"
  /\ LockFree
  /\ last_int_ovls > 1
  /\ force_sgx = 0
  /\ force_sgx' = 2
  /\ redraw' = TRUE
  /\ UNCHANGED <<pc, ev, hdmi_state, force_dock, extVars, loopVars, planVars, compVars,
                 acctVars, hw>>

-----------------------------------------------------------------------------

Off == [enabled |-> FALSE, docking |-> FALSE, tform |-> FALSE]

Init ==
  /\ pc = "idle"
  /\ ev = "hotplug"      \* hwc_device_open ends with a call of handle_hotplug
  /\ hdmi_state \in BOOLEAN /\ force_dock \in BOOLEAN
  /\ dock = Off /\ mirror = Off /\ current = Off /\ last = Off /\ on_tv = FALSE
  /\ list = <<>> /\ i = 1 /\ num = [protected |-> FALSE, max_hw_overlays |-> 0]
  /\ use_sgx = FALSE /\ swap_rb = FALSE /\ blitted = FALSE /\ force_sgx = 0
  /\ z = 0 /\ fb_z = -1 /\ scaled_gfx = FALSE /\ ix_docking = -1 /\ mem_used = 0
  /\ ovls = [k \in Slots |-> NoOverlay] /\ num_ovls = 0 /\ post2_layers = 0
  /\ ext_mgr = FALSE
  /\ ext_ovls = 0 /\ ext_ovls_wanted = 0 /\ last_ext_ovls = 0 /\ last_int_ovls = 0
  /\ hw = [int |-> {}, ext |-> {}]
  /\ redraw = FALSE

PrepareRest ==
  \/ SetupPipe
  \/ PipesDone
  \/ SetupFramebuffer
  \/ CloneNothing
  \/ CloneDocked
  \/ CloneDockImage
  \/ MirrorLayers

Prepare == (\E ls \in Lists : PrepareBegin(ls)) \/ PrepareRest

Set == SetPost \/ SetPostFailed \/ SetSwapFailed \/ SetScreenOff

EventThread ==
  \/ Uevent
  \/ \E c \in CloneConfigs : Attach(c)
  \/ Detach
  \/ IdleTimeout

Next == Prepare \/ Set \/ EventThread

Spec == Init /\ [][Next]_vars

\* prepare does not block, SurfaceFlinger sets what it prepared last, and after
\* invalidate() "prepare and set will be called shortly after".
Fairness ==
  /\ WF_vars(PrepareRest)
  /\ SF_vars(Set)
  /\ WF_vars(redraw /\ \E ls \in Lists : PrepareBegin(ls))

FairSpec == Spec /\ Fairness

-----------------------------------------------------------------------------
(* Properties.                                                             *)

FlagTypes ==
  /\ hdmi_state \in BOOLEAN /\ force_dock \in BOOLEAN /\ redraw \in BOOLEAN
  /\ on_tv \in BOOLEAN /\ use_sgx \in BOOLEAN /\ swap_rb \in BOOLEAN
  /\ blitted \in BOOLEAN /\ scaled_gfx \in BOOLEAN /\ ext_mgr \in BOOLEAN

StageTypes ==
  /\ pc \in {"idle", "pipes", "fb", "clone", "prepared"}
  /\ ev \in {"poll", "hotplug"}

ExtTypes ==
  /\ dock \in Transforms /\ mirror \in Transforms
  /\ current \in Transforms /\ last \in Transforms

ListTypes ==
  /\ list \in Seq(Layers)
  /\ i \in 1 .. Len(list) + 1
  /\ num \in [protected: BOOLEAN, max_hw_overlays: 0 .. MAX_HW_OVERLAYS]

LoopTypes ==
  /\ z \in 0 .. MAX_HW_OVERLAYS
  /\ fb_z \in -1 .. MAX_HW_OVERLAYS - 1
  /\ ix_docking \in -1 .. MAX_HW_OVERLAYS - 1
  /\ mem_used \in Nat

CompTypes ==
  /\ ovls \in [Slots -> Overlays]
  /\ num_ovls \in 0 .. MAX_HW_OVERLAYS
  /\ post2_layers \in 0 .. MAX_HW_OVERLAYS

\* The external display never gets more than half of the overlays.
AcctTypes ==
  /\ ext_ovls \in 0 .. MAX_HW_OVERLAYS \div 2
  /\ ext_ovls_wanted \in 0 .. MAX_HW_OVERLAYS \div 2
  /\ last_ext_ovls \in 0 .. MAX_HW_OVERLAYS \div 2
  /\ last_int_ovls \in 0 .. MAX_HW_OVERLAYS
  /\ force_sgx \in 0 .. 2
  /\ hw \in [int: SUBSET Int, ext: SUBSET Int]

\* Every variable has its type, and the counts their bounds.
TypeOK ==
  /\ FlagTypes /\ StageTypes /\ ExtTypes /\ ListTypes /\ LoopTypes
  /\ CompTypes /\ AcctTypes

Prepared == pc = "prepared"
Used == 0 .. num_ovls - 1
Internal == {k \in Used : ovls[k].mgr = 0}
External == {k \in Used : ovls[k].mgr = 1}

\* "verify all z-orders and overlay indices are distinct": the overlays of a
\* composition use different pipes, and pipes that exist.
IndicesDistinct ==
  Prepared =>
    /\ \A k \in Used : ovls[k].ix \in Slots
    /\ \A a, b \in Used : a # b => ovls[a].ix # ovls[b].ix

\* The overlays of a composition, clones included, fill the z-orders from 0
\* without a gap: as many z-layers as overlays, and never more than pipes.
ZOrdersDense ==
  Prepared =>
    /\ z = num_ovls
    /\ {ovls[k].zorder : k \in Used} = 0 .. num_ovls - 1

\* What is on an overlay, the framebuffer and the layers SGX draws into it stack
\* as in SurfaceFlinger's list.  An opaque overlay below the framebuffer shows
\* through the hole SGX clears for it, so only these may be below earlier layers.
StackingOrder ==
  Prepared /\ use_sgx =>
    LET shown == Internal \ {0}
        drawn == DOMAIN list \ {ovls[k].layer : k \in shown}
    IN  \A k \in shown :
          /\ \A j \in shown : ovls[k].layer < ovls[j].layer => ovls[k].zorder < ovls[j].zorder
          /\ \A f \in drawn :
               /\ ovls[k].layer < f => ovls[k].zorder < ovls[0].zorder
               /\ list[ovls[k].layer].blended /\ f < ovls[k].layer
                    => ovls[k].zorder > ovls[0].zorder

\* "ensure GFX layer is never scaled": whatever swaps happened, no layer that
\* needs a scaler ends on the GFX pipe.
GfxNeverScaled ==
  Prepared =>
    \A k \in Used :
      ovls[k].ix = 0 /\ ovls[k].layer > 0 => ~NeedsScaler(list[ovls[k].layer])

\* "All layers can be handled by the DSS -- don't use SGX for composition":
\* without SGX and without blits every layer of the list is on an overlay.
NoLayerLost ==
  Prepared /\ ~use_sgx /\ ~blitted =>
    \A k \in DOMAIN list : \E s \in Internal : ovls[s].layer = k

\* "cannot rotate non-NV12 layers on external display": a layer cloned while the
\* external display has a transform is NV12.
ExternalRotatesNV12 ==
  Prepared /\ last.tform =>
    \A k \in External : ovls[k].layer > 0 => IsNV12(list[ovls[k].layer])

\* "TV can only render RGB": a BGR layer is never cloned to a TV.
TvNeverBGR ==
  [][pc = "clone" /\ on_tv' =>
       \A k \in External' : ovls'[k].layer > 0 => ~IsBGR(list[ovls'[k].layer])]_vars

\* "restrict to docking with no transform": the docking picture is shown upright.
DockImageUpright ==
  Prepared /\ last.tform => \A k \in External : ovls[k].layer # DockImage

\* "We cannot atomically switch overlays from one display to another.  First,
\* they have to be disabled, and the disabling has to take effect": no pipe that
\* one display showed in the last frame is shown by the other in this one.
PipeHandover ==
  [][hw'.ext \cap hw.int = {} /\ hw'.int \cap hw.ext = {}]_hw

\* The counts of the last frame cover the pipes each display really shows, so
\* that what prepare keeps free for the other display is enough.
CountsCover ==
  /\ Cardinality(hw.int) <= last_int_ovls
  /\ Cardinality(hw.ext) <= last_ext_ovls

\* What a composition gives one display and what the other display was given by
\* the last one never need more than the pipes that exist, whatever failed.
OverlaysFit ==
  Prepared => /\ Cardinality(Internal) + last_ext_ovls <= MAX_HW_OVERLAYS
              /\ Cardinality(External) + last_int_ovls <= MAX_HW_OVERLAYS

\* Once mirroring stays enabled the external display shows a frame, and keeps
\* showing one, even if the screen is still: the frames that found no pipe free
\* ask for another one.
MirrorShown == <>[]mirror.enabled => <>[](hw.ext # {})

=============================================================================
