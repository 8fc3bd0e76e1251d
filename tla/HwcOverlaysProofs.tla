-------------------------- MODULE HwcOverlaysProofs --------------------------
(***************************************************************************)
(* Proofs about HwcOverlays, for every value of its constants: its type    *)
(* invariant, that the two displays never need more overlays than there    *)
(* are (OverlaysFit), for layers that need no scaler, that pipes are       *)
(* distinct and never pass from one display to the other in one frame, and *)
(* which layer, pipe and z-order each overlay of a composition has.        *)
(*                                                                         *)
(* None is inductive.  What a composition may use is fixed when prepare    *)
(* begins, from the counts of the last frame, and used when it ends, so    *)
(* the invariants below carry the budget through the steps in between.     *)
(* Those of the overlays of a finished composition say what the loop over  *)
(* the layers has made of those it has looked at, by the number of the     *)
(* overlay, and what cloning adds.                                         *)
(***************************************************************************)
EXTENDS HwcOverlays, FiniteSetTheorems, WellFoundedInduction, TLAPS

\* prepare has begun and has not yet cloned anything.
Composing == pc \in {"pipes", "fb", "clone"}

\* The overlays the loop may use: the framebuffer has one whatever the limit.
Ceiling == Greatest(1, num.max_hw_overlays)

\* While the internal composition grows it leaves the external display's last
\* frame alone, and if it is to be mirrored its clones will fit as well.
ComposingFits ==
  Composing =>
    /\ \A k \in Slots : ovls[k].mgr = 0
    /\ Ceiling + last_ext_ovls <= MAX_HW_OVERLAYS
    /\ num_ovls <= Ceiling
    /\ ext_ovls + last_int_ovls <= MAX_HW_OVERLAYS
    /\ ClonesLayers => ext_ovls >= 1 /\ Ceiling < MAX_HW_OVERLAYS
    /\ ClonesLayers /\ ~current.docking => Ceiling <= ext_ovls

\* The z-orders given out, the framebuffer's included, are as many as the overlays.
ZOrdersCounted ==
  /\ pc = "pipes" => ~blitted
  /\ pc \in {"pipes", "fb"} =>
       /\ fb_z < z
       /\ fb_z >= 0 => use_sgx
       /\ z + (IF (use_sgx \/ blitted) /\ fb_z < 0 THEN 1 ELSE 0) = num_ovls
  /\ pc = "clone" => /\ z = num_ovls
                     /\ post2_layers = num_ovls
                     /\ fb_z < z

\* A finished composition: internal overlays first, then the external ones, each
\* within what the other display's last frame leaves.
PreparedFits ==
  pc = "prepared" =>
    /\ post2_layers <= num_ovls
    /\ num_ovls <= MAX_HW_OVERLAYS
    /\ \A k \in Slots : k < post2_layers => ovls[k].mgr = 0
    /\ \A k \in Slots : post2_layers <= k /\ k < num_ovls => ovls[k].mgr = 1
    /\ post2_layers + last_ext_ovls <= MAX_HW_OVERLAYS
    /\ num_ovls - post2_layers + last_int_ovls <= MAX_HW_OVERLAYS

\* The docking settings are for docking.
DockDocks == dock.enabled => dock.docking

Budget == TypeOK /\ DockDocks /\ ComposingFits /\ ZOrdersCounted /\ PreparedFits

-----------------------------------------------------------------------------

\* The lists never ask for a scaler, the LCD shows the framebuffer as it is, and a
\* posted frame is shown: what the handover of pipes rests on.
Unscaled ==
  /\ \A ls \in Lists : \A k \in DOMAIN ls : ~NeedsScaler(ls[k])
  /\ PrimaryTransform = 0
  /\ "post2" \notin SetFaults

ListUnscaled == \A k \in DOMAIN list : ~NeedsScaler(list[k])

\* Then every overlay keeps the pipe of its number while prepare composes ...
NumbersArePipes ==
  Composing => scaled_gfx = FALSE /\ \A k \in Slots : k < num_ovls => ovls[k].ix = k

\* ... the clones use the pipes from the end ...
PipesFromTheEnds ==
  pc = "prepared" =>
    /\ \A k \in Slots : k < post2_layers => ovls[k].ix = k
    /\ \A k \in Slots : post2_layers <= k /\ k < num_ovls
                          => ovls[k].ix = MAX_HW_OVERLAYS - 1 - (k - post2_layers)

\* ... the external manager is told of all of them ...
ExternalTold ==
  pc = "prepared" =>
    /\ ext_mgr => ext_ovls = num_ovls - post2_layers
    /\ ~ext_mgr => last_ext_ovls = 0 /\ num_ovls = post2_layers

\* ... and the displays show pipes from the two ends.
ShownFromTheEnds ==
  /\ \A p \in hw.int : p \in 0 .. last_int_ovls - 1
  /\ \A p \in hw.ext : p \in MAX_HW_OVERLAYS - last_ext_ovls .. MAX_HW_OVERLAYS - 1

FromTheEnds ==
  ListUnscaled /\ NumbersArePipes /\ PipesFromTheEnds /\ ExternalTold /\ ShownFromTheEnds

-----------------------------------------------------------------------------

\* The list between a set and the next prepare.
LEMMA EmptyList == <<>> \in Seq(Layers) /\ Len(<<>>) = 0
  OBVIOUS

\* The overlays prepare starts from.
LEMMA NoOverlayType == NoOverlay \in Overlays /\ NoOverlay.mgr = 0 /\ NoOverlay.ix = 0
  BY DEF NoOverlay, Overlays, FrameBuffer

\* Initially the screen shows nothing and no overlay is counted.
LEMMA BudgetInit == Init => Budget
<1> SUFFICES ASSUME Init PROVE Budget
  OBVIOUS
<1>1. FlagTypes
  BY DEF Init, FlagTypes
<1>2. StageTypes
  BY DEF Init, StageTypes
<1>3. ExtTypes /\ DockDocks
  BY DEF Init, ExtTypes, Off, Transforms, DockDocks
<1>4. ListTypes
  <2>1. list \in Seq(Layers) /\ i \in 1 .. Len(list) + 1
    BY EmptyList DEF Init
  <2>2. num \in [protected: BOOLEAN, max_hw_overlays: 0 .. MAX_HW_OVERLAYS]
    BY DEF Init, MAX_HW_OVERLAYS
  <2> QED
    BY <2>1, <2>2 DEF ListTypes
<1>5. LoopTypes
  <2>1. z = 0 /\ fb_z = -1 /\ ix_docking = -1 /\ mem_used = 0
    BY DEF Init
  <2> QED
    BY <2>1 DEF LoopTypes, MAX_HW_OVERLAYS
<1>6. CompTypes
  <2>1. ovls \in [Slots -> Overlays]
    BY NoOverlayType DEF Init
  <2>2. num_ovls = 0 /\ post2_layers = 0
    BY DEF Init
  <2> QED
    BY <2>1, <2>2 DEF CompTypes, MAX_HW_OVERLAYS
<1>7. AcctTypes
  <2>1. /\ ext_ovls = 0 /\ ext_ovls_wanted = 0 /\ last_ext_ovls = 0 /\ last_int_ovls = 0
        /\ force_sgx = 0 /\ hw = [int |-> {}, ext |-> {}]
    BY DEF Init
  <2> QED
    BY <2>1 DEF AcctTypes, MAX_HW_OVERLAYS
<1>8. ComposingFits /\ ZOrdersCounted /\ PreparedFits
  BY DEF Init, ComposingFits, Composing, ZOrdersCounted, PreparedFits
<1> QED
  BY <1>1, <1>2, <1>3, <1>4, <1>5, <1>6, <1>7, <1>8 DEF Budget, TypeOK

\* prepare's plan: its numbers and the settings it takes.
LEMMA PlanTypes ==
  ASSUME TypeOK, NEW ls \in Lists
  PROVE  /\ CloningPlan(ls).wanted \in 0 .. 2
         /\ CloningPlan(ls).max_hw \in 2 .. MAX_HW_OVERLAYS
         /\ CloningPlan(ls).max_hw + last_ext_ovls <= MAX_HW_OVERLAYS
         /\ CloningPlan(ls).wanted >= 1 => CloningPlan(ls).max_hw < MAX_HW_OVERLAYS
         /\ CloningPlan(ls).current \in Transforms
<1>1. CloningPlan(ls).current \in Transforms
  BY DEF CloningPlan, TypeOK, ExtTypes, Transforms
<1> QED
  BY <1>1 DEF CloningPlan, TypeOK, AcctTypes, MAX_HW_OVERLAYS, Greatest

\* To mirror is to give half of the overlays to the external display; nothing is
\* given to it while it is off.
LEMMA PlanMirrors ==
  ASSUME TypeOK, DockDocks, NEW ls \in Lists
  PROVE  LET plan == CloningPlan(ls)
         IN  /\ plan.current.enabled /\ ~plan.current.docking
                  => plan.wanted = 2 /\ plan.max_hw = 2
             /\ ~plan.current.enabled => plan.wanted = 0
<1>1. CASE Docks(ls)
  <2>1. CloningPlan(ls).current =
          IF mirror.enabled THEN [mirror EXCEPT !.docking = TRUE] ELSE dock
    BY <1>1 DEF CloningPlan
  <2>2. dock.enabled /\ dock.docking
    BY <1>1 DEF Docks, DockDocks
  <2>3. CloningPlan(ls).current.enabled /\ CloningPlan(ls).current.docking
    BY <2>1, <2>2 DEF TypeOK, ExtTypes, Transforms
  <2> QED
    BY <2>3
<1>2. CASE ~Docks(ls) /\ mirror.enabled
  <2>1. CloningPlan(ls).current = mirror
    BY <1>2 DEF CloningPlan
  <2>2. CloningPlan(ls).wanted = 2 /\ CloningPlan(ls).max_hw = 2
    BY <1>2 DEF CloningPlan, MAX_HW_OVERLAYS
  <2> QED
    BY <1>2, <2>1, <2>2
<1>3. CASE ~Docks(ls) /\ ~mirror.enabled
  <2>1. CloningPlan(ls).current = [current EXCEPT !.enabled = FALSE]
    BY <1>3 DEF CloningPlan
  <2>2. ~CloningPlan(ls).current.enabled
    BY <2>1 DEF TypeOK, ExtTypes, Transforms
  <2>3. CloningPlan(ls).wanted = 0
    BY <1>3 DEF CloningPlan
  <2> QED
    BY <2>2, <2>3
<1> QED
  BY <1>1, <1>2, <1>3

\* The overlays reserved for the external display, and the limit for this one.
LEMMA LimitFits ==
  ASSUME TypeOK, NEW ls \in Lists
  PROVE  LET plan == CloningPlan(ls)
         IN  /\ Reserved(plan) \in 0 .. 2 /\ Reserved(plan) <= plan.wanted
             /\ Reserved(plan) + last_int_ovls <= MAX_HW_OVERLAYS
             /\ MaxHwOverlays(ls, plan) \in 0 .. MAX_HW_OVERLAYS
             /\ Greatest(1, MaxHwOverlays(ls, plan)) + last_ext_ovls <= MAX_HW_OVERLAYS
             /\ MirrorLimited(ls, plan) => MaxHwOverlays(ls, plan) <= Reserved(plan)
             /\ MaxHwOverlays(ls, plan) <= Greatest(plan.max_hw, Reserved(plan))
<1> DEFINE plan == CloningPlan(ls)
<1>1. /\ plan.wanted \in 0 .. 2
      /\ plan.max_hw \in 2 .. MAX_HW_OVERLAYS
      /\ plan.max_hw + last_ext_ovls <= MAX_HW_OVERLAYS
  BY PlanTypes
<1>2. MirrorLimited(ls, plan) => Reserved(plan) > 0
  BY DEF MirrorLimited
<1> HIDE DEF plan
<1>3. /\ Reserved(plan) \in 0 .. 2 /\ Reserved(plan) <= plan.wanted
      /\ Reserved(plan) + last_int_ovls <= MAX_HW_OVERLAYS
  BY <1>1 DEF Reserved, Least, TypeOK, AcctTypes, MAX_HW_OVERLAYS
<1>4. /\ MaxHwOverlays(ls, plan) \in 0 .. MAX_HW_OVERLAYS
      /\ Greatest(1, MaxHwOverlays(ls, plan)) + last_ext_ovls <= MAX_HW_OVERLAYS
      /\ MirrorLimited(ls, plan) => MaxHwOverlays(ls, plan) <= Reserved(plan)
      /\ MaxHwOverlays(ls, plan) <= Greatest(plan.max_hw, Reserved(plan))
  BY <1>1, <1>2, <1>3, ConstantsAssumption
     DEF MaxHwOverlays, Greatest, TypeOK, AcctTypes, MAX_HW_OVERLAYS, NUM_NONSCALING_OVERLAYS
<1> QED
  BY <1>3, <1>4 DEF plan

-----------------------------------------------------------------------------
(* prepare: the decisions before the loop.                                 *)

LEMMA PrepareBeginKeeps ==
  ASSUME Budget, NEW ls \in Lists, PrepareBegin(ls)
  PROVE  Budget'
<1> DEFINE plan == CloningPlan(ls)
           limit == MaxHwOverlays(ls, plan)
           reserved == Reserved(plan)
<1>1. TypeOK /\ DockDocks
  BY DEF Budget
<1>2. /\ reserved \in 0 .. 2 /\ reserved <= plan.wanted
      /\ reserved + last_int_ovls <= MAX_HW_OVERLAYS
      /\ limit \in 0 .. MAX_HW_OVERLAYS
      /\ Greatest(1, limit) + last_ext_ovls <= MAX_HW_OVERLAYS
      /\ MirrorLimited(ls, plan) => limit <= reserved
      /\ limit <= Greatest(plan.max_hw, reserved)
  BY <1>1, LimitFits
<1>3. /\ plan.wanted \in 0 .. 2 /\ plan.max_hw \in 2 .. MAX_HW_OVERLAYS
      /\ plan.wanted >= 1 => plan.max_hw < MAX_HW_OVERLAYS
      /\ plan.current \in Transforms
  BY <1>1, PlanTypes
<1>4. /\ plan.current.enabled /\ ~plan.current.docking => plan.wanted = 2 /\ plan.max_hw = 2
      /\ ~plan.current.enabled => plan.wanted = 0
  BY <1>1, PlanMirrors
<1>5. PICK blit_all \in BOOLEAN :
        /\ blitted' = blit_all
        /\ use_sgx' = (~CanDssRenderAll(ls, plan) /\ ~blit_all)
        /\ swap_rb' = (IF blit_all THEN FALSE
                       ELSE IF CanDssRenderAll(ls, plan) THEN SomeLayer(ls, IsBGR)
                       ELSE FbIsBGR)
        /\ num_ovls' = IF CanDssRenderAll(ls, plan) /\ ~blit_all THEN 0 ELSE 1
        /\ pc' = IF blit_all THEN "fb" ELSE "pipes"
  BY DEF PrepareBegin
<1>6. /\ list' = ls /\ i' = 1
      /\ num' = [protected |-> HasProtected(ls), max_hw_overlays |-> limit]
      /\ current' = plan.current
  BY DEF PrepareBegin
<1>7. /\ ext_ovls_wanted' = plan.wanted /\ ext_ovls' = reserved
      /\ UNCHANGED <<force_sgx, last_ext_ovls, last_int_ovls, hw>>
  BY DEF PrepareBegin
<1>8. /\ ovls' = [k \in Slots |-> NoOverlay]
      /\ UNCHANGED post2_layers
      /\ z' = 0 /\ fb_z' = -1 /\ ix_docking' = -1 /\ mem_used' = 0
  BY DEF PrepareBegin
<1>9. /\ scaled_gfx' = FALSE /\ redraw' = FALSE /\ ext_mgr' = FALSE
      /\ UNCHANGED <<ev, hdmi_state, force_dock, dock, mirror, last, on_tv>>
  BY DEF PrepareBegin
<1>10. HasProtected(ls) \in BOOLEAN /\ SomeLayer(ls, IsBGR) \in BOOLEAN
  BY DEF HasProtected, SomeLayer
<1>11. /\ pc' \in {"pipes", "fb"}
       /\ num_ovls' = IF use_sgx' \/ blitted' THEN 1 ELSE 0
       /\ pc' = "pipes" => ~blitted'
  BY <1>5
<1> HIDE DEF plan, limit, reserved
<1>12. FlagTypes'
  <2>1. FbIsBGR \in BOOLEAN
    BY ConstantsAssumption
  <2>2. swap_rb' \in BOOLEAN /\ blitted' \in BOOLEAN /\ use_sgx' \in BOOLEAN
    BY <1>5, <1>10, <2>1
  <2> QED
    BY <1>1, <1>9, <2>2 DEF TypeOK, FlagTypes
<1>13. StageTypes'
  BY <1>1, <1>9, <1>11 DEF TypeOK, StageTypes
<1>14. ExtTypes' /\ DockDocks'
  BY <1>1, <1>3, <1>6, <1>9 DEF TypeOK, ExtTypes, DockDocks
<1>15. ListTypes'
  <2>1. ls \in Seq(Layers)
    BY ConstantsAssumption
  <2>2. i' \in 1 .. Len(list') + 1
    BY <1>6, <2>1
  <2> QED
    BY <1>2, <1>6, <1>10, <2>1, <2>2 DEF ListTypes
<1>16. LoopTypes'
  BY <1>8 DEF LoopTypes, MAX_HW_OVERLAYS
<1>17. CompTypes'
  <2>1. ovls' \in [Slots -> Overlays]
    BY <1>8, NoOverlayType
  <2>2. num_ovls' \in 0 .. MAX_HW_OVERLAYS
    BY <1>11 DEF MAX_HW_OVERLAYS
  <2> QED
    BY <1>1, <1>8, <2>1, <2>2 DEF TypeOK, CompTypes
<1>18. AcctTypes'
  BY <1>1, <1>2, <1>3, <1>7 DEF TypeOK, AcctTypes, MAX_HW_OVERLAYS
<1>19. ComposingFits'
  <2>1. \A k \in Slots : ovls'[k].mgr = 0
    BY <1>8, NoOverlayType
  <2>2. num'.max_hw_overlays = limit /\ num'.protected = HasProtected(ls)
    BY <1>6
  <2>3. Ceiling' = Greatest(1, limit)
    BY <2>2 DEF Ceiling
  <2>4. num_ovls' <= Ceiling'
    BY <1>2, <1>11, <2>3 DEF Greatest
  <2>5. ClonesLayers' => /\ plan.current.enabled
                         /\ \/ ~HasProtected(ls) /\ reserved > 0
                            \/ plan.wanted > 0 /\ reserved >= plan.wanted
    BY <1>6, <1>7, <2>2 DEF ClonesLayers
  <2>6. ClonesLayers' => ext_ovls' >= 1 /\ Ceiling' < MAX_HW_OVERLAYS
    BY <1>2, <1>3, <1>7, <2>3, <2>5 DEF Greatest, MAX_HW_OVERLAYS
  <2>7. ASSUME ClonesLayers', ~current'.docking
        PROVE  Ceiling' <= ext_ovls'
    <3>1. plan.current.enabled /\ ~plan.current.docking /\ plan.wanted = 2 /\ plan.max_hw = 2
      BY <1>4, <1>6, <2>5, <2>7
    <3>2. CASE ~HasProtected(ls) /\ reserved > 0
      <4>1. MirrorLimited(ls, plan)
        BY <3>1, <3>2 DEF MirrorLimited, reserved
      <4> QED
        BY <1>2, <1>7, <2>3, <3>2, <4>1 DEF Greatest
    <3>3. CASE plan.wanted > 0 /\ reserved >= plan.wanted
      BY <1>2, <1>7, <2>3, <3>1, <3>3 DEF Greatest
    <3> QED
      BY <2>5, <2>7, <3>2, <3>3
  <2>8. Ceiling' + last_ext_ovls' <= MAX_HW_OVERLAYS /\ ext_ovls' + last_int_ovls' <= MAX_HW_OVERLAYS
    BY <1>2, <1>7, <2>3
  <2> QED
    BY <2>1, <2>4, <2>6, <2>7, <2>8 DEF ComposingFits
<1>20. ZOrdersCounted'
  <2>1. z' = 0 /\ fb_z' = -1 /\ pc' # "clone"
    BY <1>8, <1>11
  <2> QED
    BY <1>11, <2>1 DEF ZOrdersCounted
<1>21. PreparedFits'
  BY <1>11 DEF PreparedFits
<1> QED
  BY <1>12, <1>13, <1>14, <1>15, <1>16, <1>17, <1>18, <1>19, <1>20, <1>21 DEF Budget, TypeOK

-----------------------------------------------------------------------------
(* The pipe setup loop.  Each way of rendering a layer is looked at for    *)
(* what it changes: the overlays, their number, and the z-orders.          *)

\* What a step of the loop has to keep, besides what it leaves alone.
LoopStep ==
  /\ LoopTypes'
  /\ scaled_gfx' \in BOOLEAN
  /\ ovls' \in [Slots -> Overlays]
  /\ \A k \in Slots : ovls'[k].mgr = 0
  /\ num_ovls' \in 0 .. MAX_HW_OVERLAYS
  /\ num_ovls' <= Ceiling
  /\ fb_z' < z'
  /\ fb_z' >= 0 => use_sgx
  /\ z' + (IF use_sgx /\ fb_z' < 0 THEN 1 ELSE 0) = num_ovls'

\* What the loop knows of the state it is in.
LEMMA LoopState ==
  ASSUME Budget, pc = "pipes"
  PROVE  /\ num_ovls \in 0 .. MAX_HW_OVERLAYS
         /\ z \in 0 .. MAX_HW_OVERLAYS /\ fb_z \in -1 .. MAX_HW_OVERLAYS - 1
         /\ ix_docking \in -1 .. MAX_HW_OVERLAYS - 1 /\ mem_used \in Nat
         /\ ovls \in [Slots -> Overlays] /\ \A k \in Slots : ovls[k].mgr = 0
         /\ num_ovls <= Ceiling
         /\ num.max_hw_overlays \in 0 .. MAX_HW_OVERLAYS
         /\ fb_z < z
         /\ fb_z >= 0 => use_sgx
         /\ z + (IF use_sgx /\ fb_z < 0 THEN 1 ELSE 0) = num_ovls
<1>1. TypeOK /\ ComposingFits /\ ZOrdersCounted
  BY DEF Budget
<1>2. num.max_hw_overlays \in 0 .. MAX_HW_OVERLAYS
  BY <1>1 DEF TypeOK, ListTypes
<1>3. /\ ~blitted
      /\ fb_z < z
      /\ fb_z >= 0 => use_sgx
      /\ z + (IF (use_sgx \/ blitted) /\ fb_z < 0 THEN 1 ELSE 0) = num_ovls
  BY <1>1 DEF ZOrdersCounted
<1>4. /\ \A k \in Slots : ovls[k].mgr = 0
      /\ num_ovls <= Ceiling
  BY <1>1 DEF ComposingFits, Composing
<1> QED
  BY <1>1, <1>2, <1>3, <1>4 DEF TypeOK, LoopTypes, CompTypes

LEMMA OnOverlaySteps ==
  ASSUME Budget, pc = "pipes", i \in Nat, NEW l \in Layers, RenderOnOverlay(l)
  PROVE  LoopStep
<1> DEFINE fresh == [ix |-> num_ovls + PrimaryTransform, zorder |-> z, mgr |-> 0, layer |-> i]
<1>1. /\ num_ovls < num.max_hw_overlays
      /\ mem_used' = mem_used + l.mem
      /\ num_ovls' = num_ovls + 1
      /\ z' = z + 1
      /\ fb_z' = fb_z
      /\ ix_docking' \in {num_ovls, ix_docking}
  BY DEF RenderOnOverlay, TakesOverlay
<1>2. PICK swaps : ovls' = IF swaps
                           THEN [ovls EXCEPT ![0].ix = num_ovls,
                                             ![num_ovls] = [fresh EXCEPT !.ix = 0]]
                           ELSE [ovls EXCEPT ![num_ovls] = fresh]
  BY DEF RenderOnOverlay
<1>3. num_ovls \in Slots
  BY <1>1, LoopState DEF Slots, MAX_HW_OVERLAYS
<1>4. fresh \in Overlays /\ fresh.mgr = 0
  BY LoopState, ConstantsAssumption DEF Overlays
<1>5. [fresh EXCEPT !.ix = 0] \in Overlays /\ [fresh EXCEPT !.ix = 0].mgr = 0
  BY <1>4 DEF Overlays
<1> HIDE DEF fresh
<1>6. ovls' \in [Slots -> Overlays] /\ \A k \in Slots : ovls'[k].mgr = 0
  <2>1. CASE swaps
    <3> DEFINE first == [ovls[0] EXCEPT !.ix = num_ovls]
    <3>1. ovls' = [[ovls EXCEPT ![0] = first] EXCEPT ![num_ovls] = [fresh EXCEPT !.ix = 0]]
      BY <1>2, <2>1
    <3>2. 0 \in Slots
      BY DEF Slots, MAX_HW_OVERLAYS
    <3>3. ovls[0] \in Overlays /\ ovls[0].mgr = 0 /\ num_ovls \in Int
      BY <3>2, LoopState
    <3>4. first \in Overlays /\ first.mgr = 0
      BY <3>3 DEF Overlays
    <3> HIDE DEF first
    <3> QED
      BY <1>3, <1>5, <3>1, <3>2, <3>4, LoopState
  <2>2. CASE ~swaps
    BY <1>2, <1>3, <1>4, <2>2, LoopState
  <2> QED
    BY <2>1, <2>2
<1>7. LoopTypes'
  <2>1. l.mem \in Nat
    BY DEF Layers
  <2> QED
    BY <1>1, <2>1, LoopState DEF LoopTypes, MAX_HW_OVERLAYS
<1>8. num_ovls' \in 0 .. MAX_HW_OVERLAYS /\ num_ovls' <= Ceiling
  BY <1>1, LoopState DEF Ceiling, Greatest, MAX_HW_OVERLAYS
<1>9. /\ fb_z' < z'
      /\ fb_z' >= 0 => use_sgx
      /\ z' + (IF use_sgx /\ fb_z' < 0 THEN 1 ELSE 0) = num_ovls'
  BY <1>1, LoopState DEF MAX_HW_OVERLAYS
<1>10. scaled_gfx' \in BOOLEAN
  BY DEF RenderOnOverlay, NeedsScaler, IsNV12, Budget, TypeOK, FlagTypes, Layers
<1> QED
  BY <1>6, <1>7, <1>8, <1>9, <1>10 DEF LoopStep

LEMMA OnFramebufferSteps ==
  ASSUME Budget, pc = "pipes", NEW l \in Layers, RenderOnFramebuffer(l)
  PROVE  LoopStep
<1>1. use_sgx /\ UNCHANGED <<scaled_gfx, ix_docking, mem_used, num_ovls>>
  BY DEF RenderOnFramebuffer
<1>2. /\ LoopTypes'
      /\ fb_z' < z'
      /\ z' + (IF use_sgx /\ fb_z' < 0 THEN 1 ELSE 0) = num_ovls'
      /\ ovls' \in [Slots -> Overlays]
      /\ \A k \in Slots : ovls'[k].mgr = 0
  <2>1. CASE fb_z < 0
    <3>1. fb_z' = z /\ z' = z + 1 /\ UNCHANGED ovls
      BY <2>1 DEF RenderOnFramebuffer
    <3> QED
      BY <1>1, <2>1, <3>1, LoopState DEF LoopTypes, MAX_HW_OVERLAYS
  <2>2. CASE fb_z >= 0
    <3>1. /\ ovls' = [k \in Slots |-> IF k \in fb_z + 1 .. z - 1
                                      THEN [ovls[k] EXCEPT !.zorder = @ - 1]
                                      ELSE ovls[k]]
          /\ fb_z' = Greatest(fb_z, z - 1)
          /\ z' = z
      BY <2>2, LoopState DEF RenderOnFramebuffer, Lowered, MAX_HW_OVERLAYS
    <3>2. ASSUME NEW k \in Slots
          PROVE  ovls'[k] \in Overlays /\ ovls'[k].mgr = 0
      BY <3>1, LoopState DEF Overlays
    <3>3. ovls' \in [Slots -> Overlays] /\ \A k \in Slots : ovls'[k].mgr = 0
      BY <3>1, <3>2
    <3> QED
      BY <1>1, <2>2, <3>1, <3>3, LoopState DEF LoopTypes, Greatest, MAX_HW_OVERLAYS
  <2> QED
    BY <2>1, <2>2, LoopState DEF MAX_HW_OVERLAYS
<1>3. scaled_gfx' \in BOOLEAN
  BY <1>1 DEF Budget, TypeOK, FlagTypes
<1>4. num_ovls' \in 0 .. MAX_HW_OVERLAYS /\ num_ovls' <= Ceiling
  BY <1>1, LoopState
<1> QED
  BY <1>1, <1>2, <1>3, <1>4 DEF LoopStep

LEMMA NowhereSteps ==
  ASSUME Budget, pc = "pipes", NEW l \in Layers, RenderNowhere(l)
  PROVE  LoopStep
<1>1. UNCHANGED <<ovls, num_ovls, z, fb_z, scaled_gfx, ix_docking, mem_used>>
  BY DEF RenderNowhere
<1>2. LoopTypes' /\ scaled_gfx' \in BOOLEAN
  BY <1>1 DEF Budget, TypeOK, LoopTypes, FlagTypes
<1> QED
  BY <1>1, <1>2, LoopState DEF LoopStep

LEMMA SetupPipeKeeps ==
  ASSUME Budget, SetupPipe
  PROVE  Budget'
<1>1. /\ pc = "pipes" /\ i <= Len(list) /\ i' = i + 1
      /\ UNCHANGED <<pc, ev, hdmi_state, force_dock, extVars, planVars, post2_layers, ext_mgr,
                     acctVars, force_sgx, hw, redraw>>
  BY DEF SetupPipe
<1>2. /\ TypeOK /\ DockDocks /\ ComposingFits /\ ZOrdersCounted
      /\ list \in Seq(Layers) /\ i \in 1 .. Len(list) + 1
  BY DEF Budget, TypeOK, ListTypes
<1>3. i \in 1 .. Len(list) /\ list[i] \in Layers /\ i \in Nat
  BY <1>1, <1>2
<1>4. LoopStep
  BY <1>1, <1>3, OnOverlaySteps, OnFramebufferSteps, NowhereSteps DEF SetupPipe
<1>5. FlagTypes'
  BY <1>1, <1>2, <1>4 DEF LoopStep, TypeOK, FlagTypes, planVars, extVars
<1>6. StageTypes' /\ ExtTypes' /\ DockDocks'
  BY <1>1, <1>2 DEF TypeOK, StageTypes, ExtTypes, DockDocks, extVars
<1>7. ListTypes'
  <2>1. i' \in 1 .. Len(list') + 1
    BY <1>1, <1>2, <1>3 DEF planVars
  <2> QED
    BY <1>1, <1>2, <2>1 DEF TypeOK, ListTypes, planVars
<1>8. LoopTypes' /\ CompTypes'
  BY <1>1, <1>2, <1>4 DEF LoopStep, TypeOK, CompTypes
<1>9. AcctTypes'
  BY <1>1, <1>2 DEF TypeOK, AcctTypes, acctVars
<1>10. ComposingFits'
  <2>1. /\ Ceiling' = Ceiling /\ ClonesLayers' = ClonesLayers /\ Composing
        /\ UNCHANGED <<current, last_ext_ovls, last_int_ovls, ext_ovls>>
    BY <1>1 DEF Ceiling, ClonesLayers, Composing, planVars, acctVars, extVars
  <2> QED
    BY <1>2, <1>4, <2>1 DEF ComposingFits, LoopStep
<1>11. ZOrdersCounted'
  <2>1. pc' = "pipes" /\ ~blitted' /\ use_sgx' = use_sgx
    BY <1>1, <1>2 DEF ZOrdersCounted, planVars
  <2> QED
    BY <1>4, <2>1 DEF ZOrdersCounted, LoopStep
<1>12. PreparedFits'
  BY <1>1 DEF PreparedFits
<1> QED
  BY <1>5, <1>6, <1>7, <1>8, <1>9, <1>10, <1>11, <1>12 DEF Budget, TypeOK

LEMMA PipesDoneKeeps ==
  ASSUME Budget, PipesDone
  PROVE  Budget'
<1>1. /\ pc = "pipes" /\ pc' = "fb"
      /\ UNCHANGED <<ev, hdmi_state, force_dock, extVars, loopVars, planVars, compVars,
                     acctVars, force_sgx, hw, redraw>>
  BY DEF PipesDone
<1>2. TypeOK /\ DockDocks /\ ComposingFits /\ ZOrdersCounted
  BY DEF Budget
<1>3. TypeOK'
  BY <1>1, <1>2
     DEF TypeOK, FlagTypes, StageTypes, ExtTypes, ListTypes, LoopTypes, CompTypes, AcctTypes,
         extVars, loopVars, planVars, compVars, acctVars
<1>4. ComposingFits' /\ DockDocks'
  BY <1>1, <1>2
     DEF ComposingFits, Composing, Ceiling, ClonesLayers, DockDocks, extVars, planVars,
         compVars, acctVars
<1>5. ZOrdersCounted'
  BY <1>1, <1>2 DEF ZOrdersCounted, loopVars, planVars, compVars
<1>6. PreparedFits'
  BY <1>1 DEF PreparedFits
<1> QED
  BY <1>3, <1>4, <1>5, <1>6 DEF Budget

LEMMA SetupFramebufferKeeps ==
  ASSUME Budget, SetupFramebuffer
  PROVE  Budget'
<1> DEFINE needs_fb == use_sgx \/ blitted
           top == IF fb_z < 0 THEN z ELSE fb_z
           moved == IF scaled_gfx THEN [ovls EXCEPT ![0].ix = num_ovls] ELSE ovls
           gfx == [ix |-> PrimaryTransform, zorder |-> top, mgr |-> 0, layer |-> FrameBuffer]
<1>1. /\ pc = "fb" /\ pc' = "clone"
      /\ ovls' = IF needs_fb THEN [moved EXCEPT ![0] = gfx] ELSE moved
      /\ fb_z' = IF needs_fb THEN top ELSE fb_z
      /\ z' = IF needs_fb /\ fb_z < 0 THEN z + 1 ELSE z
      /\ post2_layers' = num_ovls
      /\ UNCHANGED <<ev, hdmi_state, force_dock, extVars, i, scaled_gfx, ix_docking, mem_used,
                     list, num, swap_rb, num_ovls, ext_mgr, acctVars, force_sgx, hw, redraw>>
  BY DEF SetupFramebuffer, GfxMoved
<1>2. TypeOK /\ DockDocks /\ ComposingFits /\ ZOrdersCounted
  BY DEF Budget
<1>3. /\ z \in 0 .. MAX_HW_OVERLAYS /\ fb_z \in -1 .. MAX_HW_OVERLAYS - 1
      /\ num_ovls \in 0 .. MAX_HW_OVERLAYS
      /\ fb_z < z
      /\ z + (IF needs_fb /\ fb_z < 0 THEN 1 ELSE 0) = num_ovls
  BY <1>1, <1>2 DEF TypeOK, LoopTypes, CompTypes, ZOrdersCounted
<1>4. ovls \in [Slots -> Overlays] /\ \A k \in Slots : ovls[k].mgr = 0
  BY <1>1, <1>2 DEF TypeOK, CompTypes, ComposingFits, Composing
<1>5. 0 \in Slots
  BY DEF Slots, MAX_HW_OVERLAYS
<1>6. ovls' \in [Slots -> Overlays] /\ \A k \in Slots : ovls'[k].mgr = 0
  <2>1. moved \in [Slots -> Overlays] /\ \A k \in Slots : moved[k].mgr = 0
    <3> DEFINE first == [ovls[0] EXCEPT !.ix = num_ovls]
    <3>1. ovls[0] \in Overlays /\ ovls[0].mgr = 0 /\ num_ovls \in Int
      BY <1>3, <1>4, <1>5
    <3>2. first \in Overlays /\ first.mgr = 0
      BY <3>1 DEF Overlays
    <3>3. moved = IF scaled_gfx THEN [ovls EXCEPT ![0] = first] ELSE ovls
      OBVIOUS
    <3> HIDE DEF first, moved
    <3> QED
      BY <1>4, <1>5, <3>2, <3>3
  <2>2. gfx \in Overlays /\ gfx.mgr = 0
    BY <1>3, ConstantsAssumption DEF Overlays, FrameBuffer
  <2> HIDE DEF moved, gfx, needs_fb
  <2> QED
    BY <1>1, <1>5, <2>1, <2>2
<1> HIDE DEF moved, gfx
<1>7. z' = num_ovls' /\ post2_layers' = num_ovls' /\ fb_z' < z' /\ fb_z' >= -1
  BY <1>1, <1>3
<1> HIDE DEF needs_fb, top
<1>8. FlagTypes' /\ StageTypes' /\ ExtTypes' /\ DockDocks' /\ ListTypes'
  <2>1. use_sgx' \in BOOLEAN /\ blitted' \in BOOLEAN
    BY <1>2 DEF SetupFramebuffer, TypeOK, FlagTypes
  <2> QED
    BY <1>1, <1>2, <2>1 DEF TypeOK, FlagTypes, StageTypes, ExtTypes, DockDocks, ListTypes, extVars
<1>9. LoopTypes'
  <2>1. fb_z' \in Int
    BY <1>1, <1>3 DEF top
  <2> QED
    BY <1>1, <1>2, <1>3, <1>7, <2>1 DEF TypeOK, LoopTypes, MAX_HW_OVERLAYS
<1>10. CompTypes' /\ AcctTypes'
  BY <1>1, <1>2, <1>3, <1>6 DEF TypeOK, CompTypes, AcctTypes, acctVars
<1>11. ComposingFits'
  BY <1>1, <1>2, <1>6
     DEF ComposingFits, Composing, Ceiling, ClonesLayers, extVars, acctVars
<1>12. ZOrdersCounted' /\ PreparedFits'
  BY <1>1, <1>7 DEF ZOrdersCounted, PreparedFits
<1> QED
  BY <1>8, <1>9, <1>10, <1>11, <1>12 DEF Budget, TypeOK

-----------------------------------------------------------------------------
(* Cloning and the end of prepare.                                         *)

\* What cloning knows of the state it is in.
LEMMA CloneState ==
  ASSUME Budget, pc = "clone"
  PROVE  /\ ovls \in [Slots -> Overlays] /\ \A k \in Slots : ovls[k].mgr = 0
         /\ num_ovls \in 0 .. MAX_HW_OVERLAYS
         /\ z = num_ovls /\ post2_layers = num_ovls
         /\ num_ovls + last_ext_ovls <= MAX_HW_OVERLAYS
         /\ ext_ovls \in 0 .. 2
         /\ last_ext_ovls \in 0 .. 2
         /\ last_int_ovls \in 0 .. MAX_HW_OVERLAYS
         /\ ext_ovls + last_int_ovls <= MAX_HW_OVERLAYS
         /\ ClonesLayers => ext_ovls >= 1 /\ num_ovls < MAX_HW_OVERLAYS
         /\ ClonesLayers /\ ~current.docking => num_ovls <= ext_ovls
<1>1. TypeOK /\ ComposingFits /\ ZOrdersCounted
  BY DEF Budget
<1>2. /\ ovls \in [Slots -> Overlays]
      /\ num_ovls \in 0 .. MAX_HW_OVERLAYS
      /\ ext_ovls \in 0 .. 2 /\ last_ext_ovls \in 0 .. 2
      /\ last_int_ovls \in 0 .. MAX_HW_OVERLAYS
  BY <1>1 DEF TypeOK, CompTypes, AcctTypes, MAX_HW_OVERLAYS
<1>3. Ceiling \in 1 .. MAX_HW_OVERLAYS
  BY <1>1 DEF TypeOK, ListTypes, Ceiling, Greatest, MAX_HW_OVERLAYS
<1>4. /\ \A k \in Slots : ovls[k].mgr = 0
      /\ Ceiling + last_ext_ovls <= MAX_HW_OVERLAYS /\ num_ovls <= Ceiling
      /\ ext_ovls + last_int_ovls <= MAX_HW_OVERLAYS
      /\ ClonesLayers => ext_ovls >= 1 /\ Ceiling < MAX_HW_OVERLAYS
      /\ ClonesLayers /\ ~current.docking => Ceiling <= ext_ovls
  BY <1>1 DEF ComposingFits, Composing
<1>5. z = num_ovls /\ post2_layers = num_ovls
  BY <1>1 DEF ZOrdersCounted
<1> QED
  BY <1>2, <1>3, <1>4, <1>5 DEF MAX_HW_OVERLAYS

\* However prepare ends, n overlays in all keep the budget if the external ones
\* among them do.
LEMMA FinishKeeps ==
  ASSUME Budget, pc = "clone",
         NEW cur \in Transforms, NEW n \in 0 .. MAX_HW_OVERLAYS, FinishPrepare(cur, n),
         num_ovls <= n, n - num_ovls <= 2, n - num_ovls + last_int_ovls <= MAX_HW_OVERLAYS,
         ovls' \in [Slots -> Overlays],
         \A k \in Slots : k < num_ovls => ovls'[k].mgr = 0,
         \A k \in Slots : num_ovls <= k /\ k < n => ovls'[k].mgr = 1,
         z' \in 0 .. MAX_HW_OVERLAYS,
         ix_docking' \in -1 .. MAX_HW_OVERLAYS - 1,
         on_tv' \in BOOLEAN
  PROVE  Budget'
<1>1. TypeOK /\ DockDocks
  BY DEF Budget
<1>2. /\ pc' = "prepared" /\ current' = cur /\ last' = cur /\ num_ovls' = n
      /\ ext_mgr' = (cur.enabled \/ last_ext_ovls > 0)
      /\ ext_ovls' \in {n - post2_layers, ext_ovls}
      /\ UNCHANGED <<ev, hdmi_state, force_dock, dock, mirror, i, fb_z, scaled_gfx, mem_used,
                     planVars, post2_layers, ext_ovls_wanted, last_ext_ovls, last_int_ovls,
                     force_sgx, hw, redraw>>
  BY DEF FinishPrepare
<1>3. /\ num_ovls \in 0 .. MAX_HW_OVERLAYS /\ post2_layers = num_ovls
      /\ ext_ovls \in 0 .. 2
      /\ num_ovls + last_ext_ovls <= MAX_HW_OVERLAYS
  BY CloneState
<1>4. FlagTypes'
  BY <1>1, <1>2 DEF TypeOK, FlagTypes, planVars
<1>5. StageTypes' /\ ExtTypes' /\ DockDocks' /\ ListTypes'
  BY <1>1, <1>2 DEF TypeOK, StageTypes, ExtTypes, DockDocks, ListTypes, planVars
<1>6. LoopTypes' /\ CompTypes'
  BY <1>1, <1>2 DEF TypeOK, LoopTypes, CompTypes
<1>7. AcctTypes'
  BY <1>1, <1>2, <1>3 DEF TypeOK, AcctTypes, MAX_HW_OVERLAYS
<1>8. ComposingFits' /\ ZOrdersCounted'
  BY <1>2 DEF ComposingFits, Composing, ZOrdersCounted
<1>9. PreparedFits'
  BY <1>2, <1>3 DEF PreparedFits
<1> QED
  BY <1>4, <1>5, <1>6, <1>7, <1>8, <1>9 DEF Budget, TypeOK

LEMMA CloneNothingKeeps ==
  ASSUME Budget, CloneNothing
  PROVE  Budget'
<1>1. /\ pc = "clone" /\ FinishPrepare(current, num_ovls)
      /\ UNCHANGED <<ovls, z, ix_docking, on_tv>>
  BY DEF CloneNothing
<1>2. /\ current \in Transforms /\ on_tv \in BOOLEAN
      /\ ix_docking \in -1 .. MAX_HW_OVERLAYS - 1
  BY DEF Budget, TypeOK, ExtTypes, FlagTypes, LoopTypes
<1>3. /\ ovls' \in [Slots -> Overlays] /\ \A k \in Slots : ovls'[k].mgr = 0
      /\ num_ovls \in 0 .. MAX_HW_OVERLAYS /\ z' = num_ovls
      /\ last_int_ovls \in 0 .. MAX_HW_OVERLAYS
  BY <1>1, CloneState
<1>4. /\ num_ovls <= num_ovls /\ num_ovls - num_ovls <= 2
      /\ num_ovls - num_ovls + last_int_ovls <= MAX_HW_OVERLAYS
      /\ \A k \in Slots : ~(num_ovls <= k /\ k < num_ovls)
  BY <1>3 DEF Slots, MAX_HW_OVERLAYS
<1> QED
  BY <1>1, <1>2, <1>3, <1>4, FinishKeeps

\* A clone is an overlay of the external manager, on a pipe counted from the end.
LEMMA CloneType ==
  ASSUME NEW src \in Overlays, NEW n \in Int, post2_layers \in Int
  PROVE  /\ Clone(src, n) \in Overlays
         /\ Clone(src, n).mgr = 1
         /\ Clone(src, n).ix = MAX_HW_OVERLAYS - 1 - n
<1> DEFINE pipe == MAX_HW_OVERLAYS - 1 - n
           top == src.zorder + post2_layers
<1>1. pipe \in Int /\ top \in Int
  BY DEF Overlays, MAX_HW_OVERLAYS
<1>2. Clone(src, n) = [src EXCEPT !.ix = pipe, !.mgr = 1, !.zorder = top]
  BY DEF Clone
<1> HIDE DEF pipe, top
<1>3. Clone(src, n) \in Overlays /\ Clone(src, n).mgr = 1 /\ Clone(src, n).ix = pipe
  BY <1>1, <1>2 DEF Overlays
<1> QED
  BY <1>3 DEF pipe

\* One clone on the external display, or none.
LEMMA CloneExternalKeeps ==
  ASSUME Budget, pc = "clone", ClonesLayers, NEW src \in Overlays, NEW zo \in Int,
         CloneExternal(src, zo), ix_docking' \in -1 .. MAX_HW_OVERLAYS - 1
  PROVE  Budget'
<1>1. PICK res \in {"kept", "set", "failed"} :
        /\ ModeSet(res)
        /\ IF res = "failed"
           THEN /\ FinishPrepare([current EXCEPT !.enabled = FALSE], num_ovls)
                /\ UNCHANGED <<ovls, z>>
           ELSE IF num_ovls >= MAX_HW_OVERLAYS
           THEN /\ FinishPrepare(current, num_ovls)
                /\ UNCHANGED <<ovls, z>>
           ELSE /\ FinishPrepare(current, num_ovls + 1)
                /\ ovls' = [ovls EXCEPT ![num_ovls] =
                              [Clone(src, num_ovls - post2_layers) EXCEPT !.zorder = zo]]
                /\ z' = z + 1
  BY DEF CloneExternal
<1>2. on_tv' \in BOOLEAN
  BY <1>1 DEF ModeSet, Budget, TypeOK, FlagTypes
<1>3. current \in Transforms /\ [current EXCEPT !.enabled = FALSE] \in Transforms
  BY DEF Budget, TypeOK, ExtTypes, Transforms
<1>4. /\ num_ovls \in 0 .. MAX_HW_OVERLAYS /\ num_ovls < MAX_HW_OVERLAYS
      /\ z = num_ovls /\ post2_layers = num_ovls
      /\ ext_ovls >= 1 /\ ext_ovls \in 0 .. 2
      /\ last_int_ovls \in 0 .. MAX_HW_OVERLAYS
      /\ ext_ovls + last_int_ovls <= MAX_HW_OVERLAYS
  BY CloneState
<1>5. CASE res = "failed"
  <2>1. FinishPrepare([current EXCEPT !.enabled = FALSE], num_ovls) /\ UNCHANGED <<ovls, z>>
    BY <1>1, <1>5
  <2>2. ovls' \in [Slots -> Overlays] /\ \A k \in Slots : ovls'[k].mgr = 0
    BY <2>1, CloneState
  <2>3. /\ num_ovls <= num_ovls /\ num_ovls - num_ovls <= 2
        /\ num_ovls - num_ovls + last_int_ovls <= MAX_HW_OVERLAYS
        /\ z' \in 0 .. MAX_HW_OVERLAYS
        /\ \A k \in Slots : ~(num_ovls <= k /\ k < num_ovls)
    BY <1>4, <2>1 DEF Slots, MAX_HW_OVERLAYS
  <2> QED
    BY <1>2, <1>3, <1>4, <2>1, <2>2, <2>3, FinishKeeps
<1>6. CASE res # "failed"
  <2> DEFINE copy == [Clone(src, num_ovls - post2_layers) EXCEPT !.zorder = zo]
         m == num_ovls + 1
  <2>1. copy \in Overlays /\ copy.mgr = 1
    <3>1. num_ovls - post2_layers \in Int /\ post2_layers \in Int
      BY <1>4
    <3>2. /\ Clone(src, num_ovls - post2_layers) \in Overlays
          /\ Clone(src, num_ovls - post2_layers).mgr = 1
      BY <3>1, CloneType
    <3> QED
      BY <3>2 DEF Overlays
  <2>2. /\ FinishPrepare(current, m)
        /\ ovls' = [ovls EXCEPT ![num_ovls] = copy]
        /\ z' = z + 1
    BY <1>1, <1>4, <1>6 DEF MAX_HW_OVERLAYS
  <2> HIDE DEF copy
  <2>3. /\ ovls' \in [Slots -> Overlays]
        /\ \A k \in Slots : k < num_ovls => ovls'[k].mgr = 0
        /\ \A k \in Slots : num_ovls <= k /\ k < m => ovls'[k].mgr = 1
    <3>1. ovls \in [Slots -> Overlays] /\ \A k \in Slots : ovls[k].mgr = 0
      BY CloneState
    <3> QED
      BY <1>4, <2>1, <2>2, <3>1 DEF Slots, MAX_HW_OVERLAYS
  <2>4. /\ m \in 0 .. MAX_HW_OVERLAYS
        /\ num_ovls <= m /\ m - num_ovls <= 2
        /\ m - num_ovls + last_int_ovls <= MAX_HW_OVERLAYS
        /\ z' \in 0 .. MAX_HW_OVERLAYS
    BY <1>4, <2>2 DEF MAX_HW_OVERLAYS
  <2> HIDE DEF m
  <2> QED
    BY <1>2, <1>3, <1>4, <2>2, <2>3, <2>4, FinishKeeps
<1> QED
  BY <1>5, <1>6

LEMMA CloneDockedKeeps ==
  ASSUME Budget, CloneDocked
  PROVE  Budget'
<1>1. /\ pc = "clone" /\ ClonesLayers /\ ix_docking >= 0
      /\ CloneExternal(ovls[ix_docking], z) /\ UNCHANGED ix_docking
  BY DEF CloneDocked
<1>2. /\ ix_docking \in -1 .. MAX_HW_OVERLAYS - 1 /\ z \in Int
      /\ ovls \in [Slots -> Overlays]
  BY DEF Budget, TypeOK, LoopTypes, CompTypes
<1>3. ix_docking \in Slots
  BY <1>1, <1>2 DEF Slots, MAX_HW_OVERLAYS
<1> QED
  BY <1>1, <1>2, <1>3, CloneExternalKeeps

LEMMA CloneDockImageKeeps ==
  ASSUME Budget, CloneDockImage
  PROVE  Budget'
<1> DEFINE picture == [NoOverlay EXCEPT !.layer = DockImage]
<1>1. /\ pc = "clone" /\ ClonesLayers /\ ix_docking' = num_ovls
      /\ CloneExternal(picture, post2_layers)
  BY DEF CloneDockImage
<1>2. picture \in Overlays
  BY DEF NoOverlay, Overlays, FrameBuffer, DockImage
<1>3. /\ num_ovls \in 0 .. MAX_HW_OVERLAYS /\ num_ovls < MAX_HW_OVERLAYS
      /\ post2_layers = num_ovls
  BY <1>1, CloneState
<1>4. ix_docking' \in -1 .. MAX_HW_OVERLAYS - 1 /\ post2_layers \in Int
  BY <1>1, <1>3 DEF MAX_HW_OVERLAYS
<1> HIDE DEF picture
<1> QED
  BY <1>1, <1>2, <1>4, CloneExternalKeeps

LEMMA MirrorLayersKeeps ==
  ASSUME Budget, MirrorLayers
  PROVE  Budget'
<1> DEFINE n == Least(post2_layers, MAX_HW_OVERLAYS - num_ovls)
<1>1. /\ pc = "clone" /\ ClonesLayers /\ ~current.docking /\ UNCHANGED ix_docking
  BY DEF MirrorLayers
<1>2. PICK res \in {"set", "failed", "kept"} :
        /\ ModeSet(res)
        /\ IF res = "failed"
           THEN /\ FinishPrepare(current, num_ovls)
                /\ UNCHANGED <<ovls, z>>
           ELSE /\ FinishPrepare(current, num_ovls + n)
                /\ ovls' = [k \in Slots |->
                              IF k \in num_ovls .. num_ovls + n - 1
                              THEN Clone(ovls[k - num_ovls], k - post2_layers)
                              ELSE ovls[k]]
                /\ z' = z + n
  BY DEF MirrorLayers
<1>3. /\ current \in Transforms /\ ix_docking' \in -1 .. MAX_HW_OVERLAYS - 1
      /\ on_tv' \in BOOLEAN
  BY <1>1, <1>2 DEF ModeSet, Budget, TypeOK, ExtTypes, LoopTypes, FlagTypes
<1>4. /\ num_ovls \in 0 .. MAX_HW_OVERLAYS /\ num_ovls <= ext_ovls
      /\ z = num_ovls /\ post2_layers = num_ovls
      /\ ext_ovls \in 0 .. 2
      /\ last_int_ovls \in 0 .. MAX_HW_OVERLAYS
      /\ ext_ovls + last_int_ovls <= MAX_HW_OVERLAYS
  BY <1>1, CloneState
<1>5. ovls \in [Slots -> Overlays] /\ \A k \in Slots : ovls[k].mgr = 0
  BY <1>1, CloneState
<1>6. n = num_ovls
  BY <1>4 DEF Least, MAX_HW_OVERLAYS
<1> HIDE DEF n
<1>7. CASE res = "failed"
  <2>1. FinishPrepare(current, num_ovls) /\ UNCHANGED <<ovls, z>>
    BY <1>2, <1>7
  <2>2. /\ num_ovls <= num_ovls /\ num_ovls - num_ovls <= 2
        /\ num_ovls - num_ovls + last_int_ovls <= MAX_HW_OVERLAYS
        /\ z' \in 0 .. MAX_HW_OVERLAYS
        /\ \A k \in Slots : ~(num_ovls <= k /\ k < num_ovls)
    BY <1>4, <2>1 DEF Slots, MAX_HW_OVERLAYS
  <2> QED
    BY <1>1, <1>3, <1>4, <1>5, <2>1, <2>2, FinishKeeps
<1>8. CASE res # "failed"
  <2> DEFINE m == num_ovls + n
  <2>1. /\ FinishPrepare(current, m)
        /\ ovls' = [k \in Slots |->
                      IF k \in num_ovls .. num_ovls + n - 1
                      THEN Clone(ovls[k - num_ovls], k - post2_layers)
                      ELSE ovls[k]]
        /\ z' = z + n
    BY <1>2, <1>8
  <2>2. ASSUME NEW k \in Slots, num_ovls <= k, k < num_ovls + n
        PROVE  ovls'[k] \in Overlays /\ ovls'[k].mgr = 1
    <3>1. k - num_ovls \in Slots /\ k \in num_ovls .. num_ovls + n - 1
      BY <1>4, <1>6, <2>2 DEF Slots, MAX_HW_OVERLAYS
    <3>2. ovls[k - num_ovls] \in Overlays /\ k - post2_layers \in Int
      BY <1>4, <1>5, <3>1 DEF Slots
    <3>3. ovls'[k] = Clone(ovls[k - num_ovls], k - post2_layers)
      BY <2>1, <3>1
    <3>4. post2_layers \in Int
      BY <1>4
    <3>5. /\ Clone(ovls[k - num_ovls], k - post2_layers) \in Overlays
          /\ Clone(ovls[k - num_ovls], k - post2_layers).mgr = 1
      BY <3>2, <3>4, CloneType
    <3> QED
      BY <3>3, <3>5
  <2>3. ASSUME NEW k \in Slots, ~(num_ovls <= k /\ k < num_ovls + n)
        PROVE  ovls'[k] = ovls[k]
    BY <1>4, <1>6, <2>1, <2>3 DEF Slots
  <2>4. /\ ovls' \in [Slots -> Overlays]
        /\ \A k \in Slots : k < num_ovls => ovls'[k].mgr = 0
        /\ \A k \in Slots : num_ovls <= k /\ k < m => ovls'[k].mgr = 1
    <3>1. \A k \in Slots : ovls'[k] \in Overlays
      BY <1>5, <2>2, <2>3
    <3>2. \A k \in Slots : k < num_ovls => ovls'[k].mgr = 0
      BY <1>4, <1>5, <2>3 DEF Slots
    <3> QED
      BY <2>1, <2>2, <3>1, <3>2
  <2>5. /\ m \in 0 .. MAX_HW_OVERLAYS
        /\ num_ovls <= m /\ m - num_ovls <= 2
        /\ m - num_ovls + last_int_ovls <= MAX_HW_OVERLAYS
        /\ z' \in 0 .. MAX_HW_OVERLAYS
    BY <1>4, <1>6, <2>1 DEF MAX_HW_OVERLAYS
  <2> HIDE DEF m
  <2> QED
    BY <1>1, <1>3, <1>4, <2>1, <2>4, <2>5, FinishKeeps
<1> QED
  BY <1>7, <1>8

-----------------------------------------------------------------------------
(* set, and the event thread.                                              *)

\* Every way out of set clears the composition; what differs are the counts.
LEMMA EndSetKeeps ==
  ASSUME Budget, EndSet,
         last_ext_ovls' \in 0 .. 2, last_int_ovls' \in 0 .. MAX_HW_OVERLAYS,
         force_sgx' \in 0 .. 2, hw' \in [int: SUBSET Int, ext: SUBSET Int]
  PROVE  Budget'
<1>1. TypeOK /\ DockDocks
  BY DEF Budget
<1>2. /\ pc' = "idle"
      /\ scaled_gfx' = FALSE /\ use_sgx' = FALSE /\ swap_rb' = FALSE /\ blitted' = FALSE
      /\ ext_mgr' = FALSE
      /\ redraw' = (redraw \/ Invalidates)
      /\ UNCHANGED <<ev, hdmi_state, force_dock, extVars>>
  BY DEF EndSet
<1>3. /\ list' = <<>> /\ i' = 1
      /\ num' = [protected |-> FALSE, max_hw_overlays |-> 0]
      /\ z' = 0 /\ fb_z' = -1 /\ ix_docking' = -1 /\ mem_used' = 0
      /\ ovls' = [k \in Slots |-> NoOverlay] /\ num_ovls' = 0 /\ post2_layers' = 0
      /\ ext_ovls' = 0 /\ ext_ovls_wanted' = 0
  BY DEF EndSet
<1>4. FlagTypes'
  BY <1>1, <1>2 DEF TypeOK, FlagTypes, extVars
<1>5. StageTypes' /\ ExtTypes' /\ DockDocks'
  BY <1>1, <1>2 DEF TypeOK, StageTypes, ExtTypes, DockDocks, extVars
<1>6. ListTypes'
  <2>1. i' \in 1 .. Len(list') + 1 /\ list' \in Seq(Layers)
    BY <1>3, EmptyList
  <2>2. num' \in [protected: BOOLEAN, max_hw_overlays: 0 .. MAX_HW_OVERLAYS]
    BY <1>3 DEF MAX_HW_OVERLAYS
  <2> QED
    BY <2>1, <2>2 DEF ListTypes
<1>7. LoopTypes' /\ CompTypes'
  BY <1>3, NoOverlayType DEF LoopTypes, CompTypes, MAX_HW_OVERLAYS
<1>8. AcctTypes'
  BY <1>3 DEF AcctTypes, MAX_HW_OVERLAYS
<1>9. ComposingFits' /\ ZOrdersCounted' /\ PreparedFits'
  BY <1>2 DEF ComposingFits, Composing, ZOrdersCounted, PreparedFits
<1> QED
  BY <1>4, <1>5, <1>6, <1>7, <1>8, <1>9 DEF Budget, TypeOK

LEMMA SetKeeps ==
  ASSUME Budget, Set
  PROVE  Budget'
<1>1. /\ ext_ovls \in 0 .. 2 /\ last_ext_ovls \in 0 .. 2
      /\ last_int_ovls \in 0 .. MAX_HW_OVERLAYS
      /\ post2_layers \in 0 .. MAX_HW_OVERLAYS
      /\ force_sgx \in 0 .. 2 /\ Greatest(force_sgx - 1, 0) \in 0 .. 2
      /\ hw \in [int: SUBSET Int, ext: SUBSET Int]
  BY DEF Budget, TypeOK, AcctTypes, CompTypes, MAX_HW_OVERLAYS, Greatest
<1>2. PipesOf(0) \in SUBSET Int /\ PipesOf(1) \in SUBSET Int
  <2>1. \A k \in 0 .. num_ovls - 1 : ovls[k].ix \in Int
    <3>1. ovls \in [Slots -> Overlays] /\ num_ovls \in 0 .. MAX_HW_OVERLAYS
      BY DEF Budget, TypeOK, CompTypes
    <3>2. \A k \in Slots : ovls[k].ix \in Int
      BY <3>1 DEF Overlays
    <3> QED
      BY <3>1, <3>2 DEF Slots, MAX_HW_OVERLAYS
  <2> QED
    BY <2>1 DEF PipesOf
<1>3. CASE SetPost
  <2>1. hw' \in [int: SUBSET Int, ext: SUBSET Int]
    BY <1>1, <1>2, <1>3 DEF SetPost
  <2> QED
    BY <1>1, <1>3, <2>1, EndSetKeeps DEF SetPost, CountPosted
<1>4. CASE SetPostFailed
  BY <1>1, <1>4, EndSetKeeps DEF SetPostFailed, CountPosted
<1>5. CASE SetSwapFailed
  BY <1>1, <1>5, EndSetKeeps DEF SetSwapFailed
<1>6. CASE SetScreenOff
  BY <1>1, <1>6, EndSetKeeps DEF SetScreenOff, CountPosted
<1> QED
  BY <1>3, <1>4, <1>5, <1>6 DEF Set

\* The event thread never touches the composition, nor the settings prepare took
\* for it while it composes.
LEMMA EventThreadKeeps ==
  ASSUME Budget, EventThread
  PROVE  Budget'
<1>1. TypeOK /\ DockDocks /\ ComposingFits /\ ZOrdersCounted /\ PreparedFits
  BY DEF Budget
<1>2. /\ UNCHANGED <<pc, loopVars, planVars, compVars, acctVars, hw>>
      /\ force_sgx' \in {force_sgx, 2}
  BY DEF EventThread, Uevent, Attach, Detach, EndHotplug, IdleTimeout, extVars
<1>3. FlagTypes' /\ StageTypes'
  <2>1. CASE Uevent
    BY <1>1, <2>1
       DEF Uevent, TypeOK, FlagTypes, StageTypes, extVars, loopVars, planVars, compVars
  <2>2. CASE \E c \in CloneConfigs : Attach(c)
    <3>1. PICK c \in CloneConfigs : Attach(c)
      BY <2>2
    <3>2. /\ ev' = "poll" /\ redraw' = TRUE
          /\ UNCHANGED <<pc, hdmi_state, force_dock, loopVars, planVars, compVars>>
      BY <3>1 DEF Attach, EndHotplug
    <3>3. on_tv' \in BOOLEAN
      BY <1>1, <3>1 DEF Attach, ModeSet, TypeOK, FlagTypes
    <3> QED
      BY <1>1, <3>2, <3>3 DEF TypeOK, FlagTypes, StageTypes, loopVars, planVars, compVars
  <2>3. CASE Detach
    BY <1>1, <2>3
       DEF Detach, EndHotplug, TypeOK, FlagTypes, StageTypes, loopVars, planVars, compVars
  <2>4. CASE IdleTimeout
    BY <1>1, <2>4
       DEF IdleTimeout, TypeOK, FlagTypes, StageTypes, extVars, loopVars, planVars, compVars
  <2> QED
    BY <2>1, <2>2, <2>3, <2>4 DEF EventThread
<1>4. ExtTypes' /\ DockDocks' /\ (pc \notin {"idle", "prepared"} => UNCHANGED current)
  <2>1. CASE Uevent \/ IdleTimeout
    BY <1>1, <2>1 DEF Uevent, IdleTimeout, TypeOK, ExtTypes, DockDocks, extVars
  <2>2. CASE \E c \in CloneConfigs : Attach(c)
    <3>1. PICK c \in CloneConfigs : Attach(c)
      BY <2>2
    <3> DEFINE mirroring == [enabled |-> c.mirror /\ ~force_dock, docking |-> FALSE,
                             tform |-> c.mirrorTform]
    <3>2. /\ c.dock \in BOOLEAN /\ c.dockTform \in BOOLEAN /\ c.mirror \in BOOLEAN
          /\ c.mirrorTform \in BOOLEAN
      BY ConstantsAssumption
    <3>3. mirroring \in Transforms
      BY <3>2 DEF Transforms
    <3>4. /\ pc \in {"idle", "prepared"} /\ UNCHANGED last
          /\ dock' = [enabled |-> c.dock, docking |-> TRUE, tform |-> c.dockTform /\ ~force_dock]
          /\ current' \in {mirroring, current}
          /\ mirror' = mirroring \/ \E on \in BOOLEAN : mirror' = [mirroring EXCEPT !.enabled = on]
      BY <3>1 DEF Attach, EndHotplug, LockFree
    <3> HIDE DEF mirroring
    <3> QED
      BY <1>1, <3>2, <3>3, <3>4 DEF TypeOK, ExtTypes, DockDocks, Transforms
  <2>3. CASE Detach
    <3>1. /\ UNCHANGED <<current, last>>
          /\ dock' = [dock EXCEPT !.enabled = FALSE]
          /\ mirror' = [mirror EXCEPT !.enabled = FALSE]
      BY <2>3 DEF Detach, EndHotplug
    <3> QED
      BY <1>1, <3>1 DEF TypeOK, ExtTypes, DockDocks, Transforms
  <2> QED
    BY <2>1, <2>2, <2>3 DEF EventThread
<1>5. ListTypes' /\ LoopTypes' /\ CompTypes'
  BY <1>1, <1>2 DEF TypeOK, ListTypes, LoopTypes, CompTypes, loopVars, planVars, compVars
<1>6. AcctTypes'
  BY <1>1, <1>2 DEF TypeOK, AcctTypes, acctVars
<1>7. ComposingFits'
  BY <1>1, <1>2, <1>4
     DEF ComposingFits, Composing, Ceiling, ClonesLayers, planVars, compVars, acctVars
<1>8. ZOrdersCounted' /\ PreparedFits'
  BY <1>1, <1>2 DEF ZOrdersCounted, PreparedFits, loopVars, planVars, compVars, acctVars
<1> QED
  BY <1>3, <1>4, <1>5, <1>6, <1>7, <1>8 DEF Budget, TypeOK

-----------------------------------------------------------------------------
(* The theorems that hold for every value of the constants.                *)

LEMMA BudgetStep == Budget /\ [Next]_vars => Budget'
<1> SUFFICES ASSUME Budget, [Next]_vars PROVE Budget'
  OBVIOUS
<1>1. CASE Prepare
  BY <1>1, PrepareBeginKeeps, SetupPipeKeeps, PipesDoneKeeps, SetupFramebufferKeeps,
     CloneNothingKeeps, CloneDockedKeeps, CloneDockImageKeeps, MirrorLayersKeeps
     DEF Prepare, PrepareRest
<1>2. CASE Set
  BY <1>2, SetKeeps
<1>3. CASE EventThread
  BY <1>3, EventThreadKeeps
<1>4. CASE UNCHANGED vars
  BY <1>4
     DEF Budget, TypeOK, FlagTypes, StageTypes, ExtTypes, ListTypes, LoopTypes, CompTypes,
         AcctTypes, DockDocks, ComposingFits, Composing, Ceiling, ClonesLayers, ZOrdersCounted,
         PreparedFits, vars, extVars, loopVars, planVars, compVars, acctVars
<1> QED
  BY <1>1, <1>2, <1>3, <1>4 DEF Next

\* The budget is kept forever.
THEOREM BudgetKept == Spec => []Budget
BY BudgetInit, BudgetStep, PTL DEF Spec

\* Every variable keeps its type, and every count of overlays its bound: the
\* arrays prepare writes by num_ovls are never written past their end.
THEOREM TypeCorrect == Spec => []TypeOK
<1>1. Budget => TypeOK
  BY DEF Budget
<1> QED
  BY <1>1, BudgetKept, PTL

\* What one display gets and what the other was given by the last frame never
\* need more than the four overlays, whatever the lists, settings and failures.
THEOREM OverlaysAlwaysFit == Spec => []OverlaysFit
<1>1. ASSUME Budget, Prepared
      PROVE  /\ Cardinality(Internal) + last_ext_ovls <= MAX_HW_OVERLAYS
             /\ Cardinality(External) + last_int_ovls <= MAX_HW_OVERLAYS
  <2>1. /\ post2_layers <= num_ovls
        /\ \A k \in Slots : k < post2_layers => ovls[k].mgr = 0
        /\ \A k \in Slots : post2_layers <= k /\ k < num_ovls => ovls[k].mgr = 1
        /\ post2_layers + last_ext_ovls <= MAX_HW_OVERLAYS
        /\ num_ovls - post2_layers + last_int_ovls <= MAX_HW_OVERLAYS
    BY <1>1 DEF Budget, PreparedFits, Prepared
  <2>2. /\ post2_layers \in 0 .. MAX_HW_OVERLAYS /\ num_ovls \in 0 .. MAX_HW_OVERLAYS
        /\ last_ext_ovls \in Int /\ last_int_ovls \in Int
    BY <1>1 DEF Budget, TypeOK, CompTypes, AcctTypes
  <2>3. Internal = 0 .. post2_layers - 1 /\ External = post2_layers .. num_ovls - 1
    BY <2>1, <2>2 DEF Internal, External, Used, Slots, MAX_HW_OVERLAYS
  <2>4. /\ Cardinality(Internal) = post2_layers
        /\ Cardinality(External) = num_ovls - post2_layers
    <3>1. /\ 0 \in Int /\ post2_layers - 1 \in Int
          /\ post2_layers \in Int /\ num_ovls - 1 \in Int
      BY <2>2
    <3>2. /\ Cardinality(0 .. post2_layers - 1) =
               IF 0 > post2_layers - 1 THEN 0 ELSE post2_layers - 1 - 0 + 1
          /\ Cardinality(post2_layers .. num_ovls - 1) =
               IF post2_layers > num_ovls - 1 THEN 0 ELSE num_ovls - 1 - post2_layers + 1
      BY <3>1, FS_Interval
    <3> QED
      BY <2>1, <2>2, <2>3, <3>2 DEF MAX_HW_OVERLAYS
  <2> QED
    BY <2>1, <2>4
<1>2. Budget => OverlaysFit
  BY <1>1 DEF OverlaysFit
<1> QED
  BY <1>2, BudgetKept, PTL

-----------------------------------------------------------------------------
(* Unscaled layers: distinct pipes, and their handover.                    *)

LEMMA PrepareBeginFromTheEnds ==
  ASSUME Budget, FromTheEnds, Unscaled, NEW ls \in Lists, PrepareBegin(ls)
  PROVE  FromTheEnds'
<1>1. /\ list' = ls /\ ovls' = [k \in Slots |-> NoOverlay]
      /\ scaled_gfx' = FALSE
      /\ UNCHANGED <<hw, last_ext_ovls, last_int_ovls>>
  BY DEF PrepareBegin
<1>2. pc' \in {"pipes", "fb"} /\ num_ovls' \in {0, 1}
  BY DEF PrepareBegin
<1>3. ListUnscaled'
  BY <1>1 DEF Unscaled, ListUnscaled
<1>4. NumbersArePipes'
  BY <1>1, <1>2, NoOverlayType DEF NumbersArePipes, Slots, MAX_HW_OVERLAYS
<1> QED
  BY <1>1, <1>2, <1>3, <1>4 DEF FromTheEnds, PipesFromTheEnds, ExternalTold, ShownFromTheEnds

LEMMA SetupPipeFromTheEnds ==
  ASSUME Budget, FromTheEnds, Unscaled, SetupPipe
  PROVE  FromTheEnds'
<1>1. /\ pc = "pipes" /\ i <= Len(list)
      /\ UNCHANGED <<pc, list, hw, last_ext_ovls, last_int_ovls>>
  BY DEF SetupPipe, planVars, acctVars
<1>2. NeedsScaler(list[i]) = FALSE
  <2>1. list \in Seq(Layers) /\ i \in 1 .. Len(list) + 1
    BY DEF Budget, TypeOK, ListTypes
  <2>2. i \in DOMAIN list
    BY <1>1, <2>1
  <2> QED
    BY <2>2 DEF FromTheEnds, ListUnscaled, NeedsScaler
<1>3. scaled_gfx = FALSE /\ \A k \in Slots : k < num_ovls => ovls[k].ix = k
  BY <1>1 DEF FromTheEnds, NumbersArePipes, Composing
<1>4. scaled_gfx' = FALSE /\ \A k \in Slots : k < num_ovls' => ovls'[k].ix = k
  <2>1. CASE RenderOnOverlay(list[i])
    <3>1. /\ ovls' = [ovls EXCEPT ![num_ovls] = [ix |-> num_ovls + PrimaryTransform,
                                                zorder |-> z, mgr |-> 0, layer |-> i]]
          /\ num_ovls' = num_ovls + 1
          /\ scaled_gfx' = FALSE
      BY <1>2, <1>3, <2>1 DEF RenderOnOverlay
    <3>2. num_ovls + PrimaryTransform = num_ovls /\ num_ovls \in Int
      BY <1>1, LoopState DEF Unscaled
    <3>3. ovls \in [Slots -> Overlays]
      BY <1>1, LoopState
    <3>4. ASSUME NEW k \in Slots, k < num_ovls'
          PROVE  ovls'[k].ix = k
      <4>1. CASE k = num_ovls
        BY <3>1, <3>2, <3>3, <4>1
      <4>2. CASE k # num_ovls
        <5>1. ovls'[k] = ovls[k]
          BY <3>1, <3>3, <4>2
        <5>2. k < num_ovls
          BY <3>1, <3>2, <3>4, <4>2 DEF Slots
        <5> QED
          BY <1>3, <5>1, <5>2
      <4> QED
        BY <4>1, <4>2
    <3> QED
      BY <3>1, <3>4
  <2>2. CASE RenderOnFramebuffer(list[i])
    <3>1. UNCHANGED <<scaled_gfx, num_ovls>>
      BY <2>2 DEF RenderOnFramebuffer
    <3>2. ovls \in [Slots -> Overlays]
      BY <1>1, LoopState
    <3>3. \A k \in Slots : ovls'[k].ix = ovls[k].ix
      BY <2>2, <3>2 DEF RenderOnFramebuffer, Lowered, Overlays
    <3> QED
      BY <1>3, <3>1, <3>3
  <2>3. CASE RenderNowhere(list[i])
    BY <1>3, <2>3 DEF RenderNowhere
  <2> QED
    BY <2>1, <2>2, <2>3 DEF SetupPipe
<1> QED
  BY <1>1, <1>4
     DEF FromTheEnds, ListUnscaled, NumbersArePipes, PipesFromTheEnds, ExternalTold,
         ShownFromTheEnds

LEMMA PipesDoneFromTheEnds ==
  ASSUME FromTheEnds, PipesDone
  PROVE  FromTheEnds'
<1>1. /\ pc = "pipes" /\ pc' = "fb"
      /\ UNCHANGED <<list, scaled_gfx, num_ovls, ovls, hw, last_ext_ovls, last_int_ovls>>
  BY DEF PipesDone, loopVars, planVars, compVars, acctVars
<1> QED
  BY <1>1
     DEF FromTheEnds, ListUnscaled, NumbersArePipes, Composing, PipesFromTheEnds, ExternalTold,
         ShownFromTheEnds

LEMMA SetupFramebufferFromTheEnds ==
  ASSUME Budget, FromTheEnds, Unscaled, SetupFramebuffer
  PROVE  FromTheEnds'
<1>1. /\ pc = "fb" /\ pc' = "clone"
      /\ UNCHANGED <<list, scaled_gfx, num_ovls, hw, last_ext_ovls, last_int_ovls>>
  BY DEF SetupFramebuffer, acctVars
<1>2. scaled_gfx = FALSE /\ \A k \in Slots : k < num_ovls => ovls[k].ix = k
  BY <1>1 DEF FromTheEnds, NumbersArePipes, Composing
<1>3. \/ ovls' = ovls
      \/ \E top \in {z, fb_z} :
           ovls' = [ovls EXCEPT ![0] = [ix |-> PrimaryTransform, zorder |-> top,
                                        mgr |-> 0, layer |-> FrameBuffer]]
  BY <1>2 DEF SetupFramebuffer, GfxMoved
<1>4. ovls \in [Slots -> Overlays] /\ PrimaryTransform = 0
  BY DEF Budget, TypeOK, CompTypes, Unscaled
<1>5. \A k \in Slots : k < num_ovls => ovls'[k].ix = k
  BY <1>2, <1>3, <1>4
<1> QED
  BY <1>1, <1>2, <1>5
     DEF FromTheEnds, ListUnscaled, NumbersArePipes, PipesFromTheEnds, ExternalTold,
         ShownFromTheEnds

LEMMA FinishFromTheEnds ==
  ASSUME Budget, FromTheEnds, pc = "clone",
         NEW cur \in Transforms, NEW n \in 0 .. MAX_HW_OVERLAYS, FinishPrepare(cur, n),
         num_ovls = n \/ cur.enabled,
         \A k \in Slots : k < num_ovls => ovls'[k].ix = k,
         \A k \in Slots : num_ovls <= k /\ k < n
                          => ovls'[k].ix = MAX_HW_OVERLAYS - 1 - (k - num_ovls)
  PROVE  FromTheEnds'
<1>1. /\ pc' = "prepared" /\ num_ovls' = n
      /\ UNCHANGED <<list, post2_layers, last_ext_ovls, last_int_ovls, hw>>
  BY DEF FinishPrepare, planVars
<1>2. /\ ext_mgr' = (cur.enabled \/ last_ext_ovls > 0)
      /\ ext_ovls' = IF cur.enabled \/ last_ext_ovls > 0 THEN n - post2_layers ELSE ext_ovls
  BY DEF FinishPrepare
<1>3. post2_layers = num_ovls /\ last_ext_ovls \in 0 .. 2
  BY CloneState
<1>4. PipesFromTheEnds'
  BY <1>1, <1>3 DEF PipesFromTheEnds
<1>5. ExternalTold'
  <2>1. CASE cur.enabled \/ last_ext_ovls > 0
    BY <1>1, <1>2, <2>1 DEF ExternalTold
  <2>2. CASE ~(cur.enabled \/ last_ext_ovls > 0)
    <3>1. ext_mgr' = FALSE /\ num_ovls = n
      BY <1>2, <2>2
    <3>2. last_ext_ovls' = 0
      BY <1>1, <1>3, <2>2
    <3> QED
      BY <1>1, <1>3, <3>1, <3>2 DEF ExternalTold
  <2> QED
    BY <2>1, <2>2
<1> QED
  BY <1>1, <1>4, <1>5
     DEF FromTheEnds, ListUnscaled, NumbersArePipes, Composing, ShownFromTheEnds

LEMMA CloneNothingFromTheEnds ==
  ASSUME Budget, FromTheEnds, CloneNothing
  PROVE  FromTheEnds'
<1>1. pc = "clone" /\ FinishPrepare(current, num_ovls) /\ UNCHANGED ovls
  BY DEF CloneNothing
<1>2. \A k \in Slots : k < num_ovls => ovls'[k].ix = k
  BY <1>1 DEF FromTheEnds, NumbersArePipes, Composing
<1>3. current \in Transforms /\ num_ovls \in 0 .. MAX_HW_OVERLAYS
  BY DEF Budget, TypeOK, ExtTypes, CompTypes
<1>4. \A k \in Slots : ~(num_ovls <= k /\ k < num_ovls)
  BY <1>3 DEF Slots, MAX_HW_OVERLAYS
<1> QED
  BY <1>1, <1>2, <1>3, <1>4, FinishFromTheEnds

LEMMA CloneExternalFromTheEnds ==
  ASSUME Budget, FromTheEnds, pc = "clone", ClonesLayers,
         NEW src \in Overlays, NEW zo \in Int, CloneExternal(src, zo)
  PROVE  FromTheEnds'
<1>1. PICK res \in {"kept", "set", "failed"} :
        IF res = "failed"
        THEN /\ FinishPrepare([current EXCEPT !.enabled = FALSE], num_ovls)
             /\ UNCHANGED <<ovls, z>>
        ELSE IF num_ovls >= MAX_HW_OVERLAYS
        THEN /\ FinishPrepare(current, num_ovls)
             /\ UNCHANGED <<ovls, z>>
        ELSE /\ FinishPrepare(current, num_ovls + 1)
             /\ ovls' = [ovls EXCEPT ![num_ovls] =
                           [Clone(src, num_ovls - post2_layers) EXCEPT !.zorder = zo]]
             /\ z' = z + 1
  BY DEF CloneExternal
<1>2. /\ num_ovls \in 0 .. MAX_HW_OVERLAYS /\ num_ovls < MAX_HW_OVERLAYS
      /\ post2_layers = num_ovls
  BY CloneState
<1>3. current \in Transforms /\ [current EXCEPT !.enabled = FALSE] \in Transforms
  BY DEF Budget, TypeOK, ExtTypes, Transforms
<1>4. \A k \in Slots : k < num_ovls => ovls[k].ix = k
  BY DEF FromTheEnds, NumbersArePipes, Composing
<1>5. \A k \in Slots : ~(num_ovls <= k /\ k < num_ovls)
  BY <1>2 DEF Slots, MAX_HW_OVERLAYS
<1>6. CASE res = "failed"
  BY <1>1, <1>2, <1>3, <1>4, <1>5, <1>6, FinishFromTheEnds
<1>7. CASE res # "failed"
  <2> DEFINE copy == [Clone(src, num_ovls - post2_layers) EXCEPT !.zorder = zo]
             m == num_ovls + 1
  <2>1. copy.ix = MAX_HW_OVERLAYS - 1 - 0
    <3>1. num_ovls - post2_layers = 0 /\ post2_layers \in Int /\ 0 \in Int
      BY <1>2
    <3>2. Clone(src, 0) \in Overlays /\ Clone(src, 0).ix = MAX_HW_OVERLAYS - 1 - 0
      BY <3>1, CloneType
    <3> QED
      BY <3>1, <3>2 DEF Overlays
  <2>2. FinishPrepare(current, m) /\ ovls' = [ovls EXCEPT ![num_ovls] = copy]
    BY <1>1, <1>2, <1>7 DEF MAX_HW_OVERLAYS
  <2> HIDE DEF copy
  <2>3. ovls \in [Slots -> Overlays]
    BY CloneState
  <2>4. \A k \in Slots : k < num_ovls => ovls'[k].ix = k
    BY <1>2, <1>4, <2>2, <2>3 DEF Slots, MAX_HW_OVERLAYS
  <2>5. ASSUME NEW k \in Slots, num_ovls <= k, k < m
        PROVE  ovls'[k].ix = MAX_HW_OVERLAYS - 1 - (k - num_ovls)
    <3>1. k = num_ovls /\ k - num_ovls = 0
      BY <1>2, <2>5 DEF Slots, MAX_HW_OVERLAYS
    <3> QED
      BY <2>1, <2>2, <2>3, <3>1
  <2>6. m \in 0 .. MAX_HW_OVERLAYS
    BY <1>2 DEF MAX_HW_OVERLAYS
  <2>7. current.enabled
    BY DEF ClonesLayers
  <2> HIDE DEF m
  <2> QED
    BY <1>3, <2>2, <2>4, <2>5, <2>6, <2>7, FinishFromTheEnds
<1> QED
  BY <1>6, <1>7

LEMMA MirrorLayersFromTheEnds ==
  ASSUME Budget, FromTheEnds, MirrorLayers
  PROVE  FromTheEnds'
<1> DEFINE n == Least(post2_layers, MAX_HW_OVERLAYS - num_ovls)
<1>1. pc = "clone" /\ ClonesLayers /\ ~current.docking
  BY DEF MirrorLayers
<1>2. PICK res \in {"set", "failed", "kept"} :
        /\ ModeSet(res)
        /\ IF res = "failed"
           THEN /\ FinishPrepare(current, num_ovls)
                /\ UNCHANGED <<ovls, z>>
           ELSE /\ FinishPrepare(current, num_ovls + n)
                /\ ovls' = [k \in Slots |->
                              IF k \in num_ovls .. num_ovls + n - 1
                              THEN Clone(ovls[k - num_ovls], k - post2_layers)
                              ELSE ovls[k]]
                /\ z' = z + n
  BY DEF MirrorLayers
<1>3. current \in Transforms /\ current.enabled
  BY <1>1 DEF ClonesLayers, Budget, TypeOK, ExtTypes
<1>4. /\ num_ovls \in 0 .. MAX_HW_OVERLAYS /\ num_ovls <= 2
      /\ post2_layers = num_ovls /\ ext_ovls \in 0 .. 2
  <2>2. /\ num_ovls \in 0 .. MAX_HW_OVERLAYS /\ num_ovls <= ext_ovls
        /\ post2_layers = num_ovls /\ ext_ovls \in 0 .. 2
    BY <1>1, CloneState
  <2> QED
    BY <2>2 DEF MAX_HW_OVERLAYS
<1>5. ovls \in [Slots -> Overlays] /\ \A k \in Slots : k < num_ovls => ovls[k].ix = k
  BY <1>1, CloneState DEF FromTheEnds, NumbersArePipes, Composing
<1>6. n = num_ovls
  BY <1>4 DEF Least, MAX_HW_OVERLAYS
<1> HIDE DEF n
<1>7. CASE res = "failed"
  <2>1. FinishPrepare(current, num_ovls) /\ UNCHANGED <<ovls, z>>
    BY <1>2, <1>7
  <2>2. \A k \in Slots : ~(num_ovls <= k /\ k < num_ovls)
    BY <1>4 DEF Slots, MAX_HW_OVERLAYS
  <2> QED
    BY <1>1, <1>3, <1>4, <1>5, <2>1, <2>2, FinishFromTheEnds
<1>8. CASE res # "failed"
  <2> DEFINE m == num_ovls + n
  <2>1. /\ FinishPrepare(current, m)
        /\ ovls' = [k \in Slots |->
                      IF k \in num_ovls .. num_ovls + n - 1
                      THEN Clone(ovls[k - num_ovls], k - post2_layers)
                      ELSE ovls[k]]
        /\ z' = z + n
    BY <1>2, <1>8
  <2>2. m \in 0 .. MAX_HW_OVERLAYS /\ m = num_ovls + num_ovls
    BY <1>4, <1>6 DEF MAX_HW_OVERLAYS
  <2> HIDE DEF m
  <2>3. ASSUME NEW k \in Slots, num_ovls <= k, k < m
        PROVE  ovls'[k].ix = MAX_HW_OVERLAYS - 1 - (k - num_ovls)
    <3>1. k - num_ovls \in Slots /\ k \in num_ovls .. num_ovls + n - 1
      BY <1>4, <1>6, <2>2, <2>3 DEF Slots, MAX_HW_OVERLAYS
    <3>2. ovls'[k] = Clone(ovls[k - num_ovls], k - num_ovls)
      BY <1>4, <2>1, <3>1
    <3>3. ovls[k - num_ovls] \in Overlays /\ k - num_ovls \in Int /\ post2_layers \in Int
      BY <1>4, <1>5, <3>1 DEF Slots
    <3>4. Clone(ovls[k - num_ovls], k - num_ovls).ix = MAX_HW_OVERLAYS - 1 - (k - num_ovls)
      BY <3>3, CloneType
    <3> QED
      BY <3>2, <3>4
  <2>4. \A k \in Slots : k < num_ovls => ovls'[k].ix = k
    <3>1. \A k \in Slots : k < num_ovls => k \notin num_ovls .. num_ovls + n - 1
      BY <1>4 DEF Slots
    <3> QED
      BY <1>5, <2>1, <3>1
  <2> QED
    BY <1>1, <1>3, <2>2, <2>1, <2>3, <2>4, FinishFromTheEnds
<1> QED
  BY <1>7, <1>8

\* A posted frame shows what the composition names, and counts it.
LEMMA SetFromTheEnds ==
  ASSUME Budget, FromTheEnds, Unscaled, Set
  PROVE  FromTheEnds' /\ [hw'.ext \cap hw.int = {} /\ hw'.int \cap hw.ext = {}]_hw
<1>1. pc = "prepared" /\ pc' = "idle" /\ list' = <<>>
  BY DEF Set, SetPost, SetPostFailed, SetSwapFailed, SetScreenOff, EndSet
<1>2. ListUnscaled' /\ NumbersArePipes' /\ PipesFromTheEnds' /\ ExternalTold'
  BY <1>1 DEF ListUnscaled, NumbersArePipes, Composing, PipesFromTheEnds, ExternalTold
<1>3. /\ post2_layers \in 0 .. MAX_HW_OVERLAYS /\ num_ovls \in 0 .. MAX_HW_OVERLAYS
      /\ last_ext_ovls \in 0 .. 2 /\ last_int_ovls \in 0 .. MAX_HW_OVERLAYS
      /\ post2_layers <= num_ovls
      /\ post2_layers + last_ext_ovls <= MAX_HW_OVERLAYS
      /\ num_ovls - post2_layers + last_int_ovls <= MAX_HW_OVERLAYS
  BY <1>1 DEF Budget, TypeOK, CompTypes, AcctTypes, PreparedFits, MAX_HW_OVERLAYS
<1>4. /\ \A p \in hw.int : p \in 0 .. last_int_ovls - 1
      /\ \A p \in hw.ext : p \in MAX_HW_OVERLAYS - last_ext_ovls .. MAX_HW_OVERLAYS - 1
  BY DEF FromTheEnds, ShownFromTheEnds
<1>5. CASE SetPost
  <2>1. /\ last_ext_ovls' = ext_ovls /\ last_int_ovls' = post2_layers
        /\ hw' = [int |-> PipesOf(0), ext |-> IF ext_mgr THEN PipesOf(1) ELSE hw.ext]
    BY <1>5 DEF SetPost, CountPosted
  <2>2. /\ \A k \in Slots : k < post2_layers => ovls[k].mgr = 0 /\ ovls[k].ix = k
        /\ \A k \in Slots : post2_layers <= k /\ k < num_ovls
               => ovls[k].mgr = 1 /\ ovls[k].ix = MAX_HW_OVERLAYS - 1 - (k - post2_layers)
    BY <1>1 DEF Budget, PreparedFits, FromTheEnds, PipesFromTheEnds
  <2>3. ASSUME NEW p \in PipesOf(0)
        PROVE  p \in 0 .. post2_layers - 1
    <3>1. PICK k \in 0 .. num_ovls - 1 : ovls[k].mgr = 0 /\ p = ovls[k].ix
      BY DEF PipesOf
    <3>2. k \in Slots
      BY <1>3, <3>1 DEF Slots, MAX_HW_OVERLAYS
    <3> QED
      BY <1>3, <2>2, <3>1, <3>2 DEF MAX_HW_OVERLAYS
  <2>4. ASSUME NEW p \in PipesOf(1)
        PROVE  p \in MAX_HW_OVERLAYS - (num_ovls - post2_layers) .. MAX_HW_OVERLAYS - 1
    <3>1. PICK k \in 0 .. num_ovls - 1 : ovls[k].mgr = 1 /\ p = ovls[k].ix
      BY DEF PipesOf
    <3>2. k \in Slots
      BY <1>3, <3>1 DEF Slots, MAX_HW_OVERLAYS
    <3> QED
      BY <1>3, <2>2, <3>1, <3>2 DEF MAX_HW_OVERLAYS
  <2>5. hw'.int \cap hw.ext = {}
    BY <1>3, <1>4, <2>1, <2>3 DEF MAX_HW_OVERLAYS
  <2>6. CASE ext_mgr
    <3>1. last_ext_ovls' = num_ovls - post2_layers /\ hw'.ext = PipesOf(1)
      BY <1>1, <2>1, <2>6 DEF FromTheEnds, ExternalTold
    <3>2. hw'.ext \cap hw.int = {}
      BY <1>3, <1>4, <2>4, <3>1 DEF MAX_HW_OVERLAYS
    <3>3. ShownFromTheEnds'
      BY <2>1, <2>3, <2>4, <3>1 DEF ShownFromTheEnds
    <3> QED
      BY <1>2, <2>5, <3>2, <3>3 DEF FromTheEnds
  <2>7. CASE ~ext_mgr
    <3>1. last_ext_ovls = 0 /\ hw'.ext = hw.ext
      BY <1>1, <2>1, <2>7 DEF FromTheEnds, ExternalTold
    <3>2. hw.ext = {}
      BY <1>4, <3>1 DEF MAX_HW_OVERLAYS
    <3>3. ShownFromTheEnds'
      BY <2>1, <2>3, <3>1, <3>2 DEF ShownFromTheEnds
    <3> QED
      BY <1>2, <2>5, <3>1, <3>2, <3>3 DEF FromTheEnds
  <2> QED
    BY <2>6, <2>7
<1>6. CASE SetSwapFailed
  <2>1. UNCHANGED <<hw, last_ext_ovls, last_int_ovls>>
    BY <1>6 DEF SetSwapFailed
  <2> QED
    BY <1>2, <1>4, <2>1 DEF FromTheEnds, ShownFromTheEnds
<1>7. CASE SetScreenOff
  <2>1. hw' = [int |-> {}, ext |-> {}]
    BY <1>7 DEF SetScreenOff
  <2> QED
    BY <1>2, <2>1 DEF FromTheEnds, ShownFromTheEnds
<1> QED
  BY <1>5, <1>6, <1>7 DEF Set, SetPostFailed, Unscaled

LEMMA FromTheEndsInit == Init => FromTheEnds
<1> SUFFICES ASSUME Init PROVE FromTheEnds
  OBVIOUS
<1>1. list = <<>> /\ pc = "idle" /\ hw = [int |-> {}, ext |-> {}]
  BY DEF Init
<1> QED
  BY <1>1
     DEF FromTheEnds, ListUnscaled, NumbersArePipes, Composing, PipesFromTheEnds, ExternalTold,
         ShownFromTheEnds

LEMMA FromTheEndsStep ==
  ASSUME Unscaled, Budget, FromTheEnds, [Next]_vars
  PROVE  FromTheEnds' /\ [hw'.ext \cap hw.int = {} /\ hw'.int \cap hw.ext = {}]_hw
<1>1. CASE Set
  BY <1>1, SetFromTheEnds
<1>2. CASE Prepare
  <2>1. UNCHANGED hw
    BY <1>2
       DEF Prepare, PrepareRest, PrepareBegin, SetupPipe, PipesDone, SetupFramebuffer,
           CloneNothing, CloneDocked, CloneDockImage, CloneExternal, MirrorLayers, FinishPrepare
  <2>2. CASE \E ls \in Lists : PrepareBegin(ls)
    BY <2>1, <2>2, PrepareBeginFromTheEnds
  <2>3. CASE SetupPipe \/ PipesDone \/ SetupFramebuffer
    BY <2>1, <2>3, SetupPipeFromTheEnds, PipesDoneFromTheEnds, SetupFramebufferFromTheEnds
  <2>4. CASE CloneNothing \/ MirrorLayers
    BY <2>1, <2>4, CloneNothingFromTheEnds, MirrorLayersFromTheEnds
  <2>5. CASE CloneDocked
    <3>1. /\ pc = "clone" /\ ClonesLayers /\ ix_docking >= 0
          /\ CloneExternal(ovls[ix_docking], z)
      BY <2>5 DEF CloneDocked
    <3>2. /\ ix_docking \in -1 .. MAX_HW_OVERLAYS - 1 /\ z \in Int
          /\ ovls \in [Slots -> Overlays]
      BY DEF Budget, TypeOK, LoopTypes, CompTypes
    <3>3. ix_docking \in Slots
      BY <3>1, <3>2 DEF Slots, MAX_HW_OVERLAYS
    <3> QED
      BY <2>1, <3>1, <3>2, <3>3, CloneExternalFromTheEnds
  <2>6. CASE CloneDockImage
    <3>1. /\ pc = "clone" /\ ClonesLayers
          /\ CloneExternal([NoOverlay EXCEPT !.layer = DockImage], post2_layers)
      BY <2>6 DEF CloneDockImage
    <3>2. [NoOverlay EXCEPT !.layer = DockImage] \in Overlays
      BY DEF NoOverlay, Overlays, FrameBuffer, DockImage
    <3>3. post2_layers \in Int
      BY DEF Budget, TypeOK, CompTypes
    <3> QED
      BY <2>1, <3>1, <3>2, <3>3, CloneExternalFromTheEnds
  <2> QED
    BY <1>2, <2>1, <2>2, <2>3, <2>4, <2>5, <2>6 DEF Prepare, PrepareRest
<1>3. CASE EventThread \/ UNCHANGED vars
  <2>1. UNCHANGED <<pc, list, scaled_gfx, ovls, num_ovls, post2_layers, ext_mgr, ext_ovls,
                    last_ext_ovls, last_int_ovls, hw>>
    BY <1>3
       DEF EventThread, Uevent, Attach, Detach, EndHotplug, IdleTimeout, vars, extVars,
           loopVars, planVars, compVars, acctVars
  <2> QED
    BY <2>1
       DEF FromTheEnds, ListUnscaled, NumbersArePipes, Composing, PipesFromTheEnds,
           ExternalTold, ShownFromTheEnds
<1> QED
  BY <1>1, <1>2, <1>3 DEF Next

\* "We cannot atomically switch overlays from one display to another": as long as
\* no layer needs a scaler, a pipe that one display shows is never shown by the
\* other in the next frame, however layers, settings and failures change.
THEOREM HandoverSafe == ASSUME Unscaled PROVE Spec => PipeHandover
<1>1. Init => Budget /\ FromTheEnds
  BY BudgetInit, FromTheEndsInit
<1>2. Budget /\ FromTheEnds /\ [Next]_vars => (Budget /\ FromTheEnds)'
  BY BudgetStep, FromTheEndsStep
<1>3. Budget /\ FromTheEnds /\ [Next]_vars
        => [hw'.ext \cap hw.int = {} /\ hw'.int \cap hw.ext = {}]_hw
  BY FromTheEndsStep
<1> QED
  BY <1>1, <1>2, <1>3, PTL DEF Spec, PipeHandover

\* "verify all z-orders and overlay indices are distinct": under the same
\* assumption a composition never names a pipe twice, nor one that is not there.
THEOREM PipesDistinct == ASSUME Unscaled PROVE Spec => []IndicesDistinct
<1>1. Init => Budget /\ FromTheEnds
  BY BudgetInit, FromTheEndsInit
<1>2. Budget /\ FromTheEnds /\ [Next]_vars => (Budget /\ FromTheEnds)'
  BY BudgetStep, FromTheEndsStep
<1>3. ASSUME Budget, FromTheEnds, Prepared
      PROVE  /\ \A k \in Used : ovls[k].ix \in Slots
             /\ \A a, b \in Used : a # b => ovls[a].ix # ovls[b].ix
  <2>1. /\ \A k \in Slots : k < post2_layers => ovls[k].ix = k
        /\ \A k \in Slots : post2_layers <= k /\ k < num_ovls
                             => ovls[k].ix = MAX_HW_OVERLAYS - 1 - (k - post2_layers)
    BY <1>3 DEF FromTheEnds, PipesFromTheEnds, Prepared
  <2>2. /\ post2_layers \in 0 .. MAX_HW_OVERLAYS /\ num_ovls \in 0 .. MAX_HW_OVERLAYS
        /\ post2_layers <= num_ovls
    BY <1>3 DEF Budget, TypeOK, CompTypes, PreparedFits, Prepared
  <2>3. Used \subseteq Slots /\ \A k \in Used : k < num_ovls
    BY <2>2 DEF Used, Slots, MAX_HW_OVERLAYS
  <2> QED
    BY <2>1, <2>2, <2>3 DEF Slots, MAX_HW_OVERLAYS
<1>4. Budget /\ FromTheEnds => IndicesDistinct
  BY <1>3 DEF IndicesDistinct
<1> QED
  BY <1>1, <1>2, <1>4, PTL DEF Spec

-----------------------------------------------------------------------------
(* Which layer, pipe and z-order each overlay has.                          *)

Loop == pc \in {"pipes", "fb"}
Done == pc \in {"clone", "prepared"}

\* The overlays the loop has given to layers: overlay 0 is kept for the
\* framebuffer if there is to be one.
First == IF use_sgx \/ blitted THEN 1 ELSE 0
Given(k) == First <= k /\ k < num_ovls
Overlaid(f) == \E k \in Slots : Given(k) /\ ovls[k].layer = f

\* Layers get overlays in the order of the list.
LayersAscend ==
  Loop =>
    /\ First = 1 => ovls[0].layer = FrameBuffer
    /\ \A k \in Slots : Given(k) => ovls[k].layer \in 1 .. i - 1
    /\ \A j, k \in Slots : Given(j) /\ Given(k) /\ j < k => ovls[j].layer < ovls[k].layer

\* The overlays below the framebuffer have the z-order before their number.
Level(k) == IF First = 1 /\ (fb_z < 0 \/ k <= fb_z) THEN k - 1 ELSE k
LevelsByNumber == Loop => \A k \in Slots : Given(k) => ovls[k].zorder = Level(k)

\* A layer left to SGX brought the framebuffer above all overlays there were, and
\* no blended layer has been given one since.
DrawnOnTop ==
  Loop /\ use_sgx =>
    /\ pc = "fb" => i > Len(list)
    /\ \A f \in 1 .. i - 1 : ~Overlaid(f) =>
         /\ fb_z >= 0
         /\ \A k \in Slots : Given(k) =>
              /\ ovls[k].layer < f => k <= fb_z
              /\ list[ovls[k].layer].blended => ovls[k].layer < f

\* The same of the finished internal composition, with the framebuffer in it.
FinalLevel(k) == IF fb_z < 0 THEN k ELSE IF k = 0 THEN fb_z ELSE IF k <= fb_z THEN k - 1 ELSE k
InternalStacked ==
  Done =>
    /\ fb_z < post2_layers
    /\ use_sgx => fb_z >= 0
    /\ \A k \in Slots : k < post2_layers => ovls[k].zorder = FinalLevel(k)

LayersStacked ==
  Done /\ use_sgx =>
    /\ \A k \in Slots : 1 <= k /\ k < post2_layers => ovls[k].layer \in DOMAIN list
    /\ \A j, k \in Slots : 1 <= j /\ j < k /\ k < post2_layers => ovls[j].layer < ovls[k].layer
    /\ \A f \in DOMAIN list :
         (\A k \in Slots : 1 <= k /\ k < post2_layers => ovls[k].layer # f) =>
            \A k \in Slots : 1 <= k /\ k < post2_layers =>
              /\ ovls[k].layer < f => k <= fb_z
              /\ list[ovls[k].layer].blended => ovls[k].layer < f

\* The clones are above: the whole composition again, or one overlay.
ExternalStacked ==
  pc = "prepared" =>
    /\ z = num_ovls
    /\ \A k \in Slots : post2_layers <= k /\ k < num_ovls =>
         \/ num_ovls = post2_layers + 1 /\ ovls[k].zorder = post2_layers
         \/ /\ num_ovls = 2 * post2_layers
            /\ ovls[k].zorder = FinalLevel(k - post2_layers) + post2_layers

Stacked ==
  LayersAscend /\ LevelsByNumber /\ DrawnOnTop /\ InternalStacked /\ LayersStacked /\ ExternalStacked

\* While overlay 0 is on the GFX pipe and needs a scaler, no other is there.
GfxLoop ==
  Loop =>
    /\ scaled_gfx => num_ovls > 0 /\ \A k \in Slots : 0 < k /\ k < num_ovls => ovls[k].ix # 0
    /\ \A k \in Slots : k < num_ovls /\ ovls[k].ix = 0 /\ ovls[k].layer > 0 =>
         (scaled_gfx /\ k = 0) \/ ~NeedsScaler(list[ovls[k].layer])

GfxDone ==
  Done => \A k \in Slots : k < num_ovls /\ ovls[k].ix = 0 /\ ovls[k].layer > 0 =>
            ~NeedsScaler(list[ovls[k].layer])

\* The layers that will be cloned are NV12 if they are to be turned.
TurnedAreNV12 ==
  Composing /\ current.enabled /\ current.tform =>
    \A k \in Slots : k < num_ovls /\ ovls[k].layer > 0 =>
      IsNV12(list[ovls[k].layer]) \/ (current.docking /\ ~list[ovls[k].layer].dockable)

\* The overlay to dock shows a dockable layer.
DockingDockable ==
  Composing /\ ix_docking >= 0 =>
    /\ ix_docking < num_ovls
    /\ Loop => First <= ix_docking
    /\ ovls[ix_docking].layer > 0
    /\ list[ovls[ix_docking].layer].dockable

ClonesAreNV12 ==
  pc = "prepared" /\ last.tform =>
    \A k \in Slots : post2_layers <= k /\ k < num_ovls /\ ovls[k].layer > 0 =>
      IsNV12(list[ovls[k].layer])

Pipes == GfxLoop /\ GfxDone /\ TurnedAreNV12 /\ DockingDockable /\ ClonesAreNV12

-----------------------------------------------------------------------------
(* What the steps of prepare do to the composition, part by part.           *)

\* A layer takes overlay num_ovls.  The others keep their layer and z-order, and
\* their pipe unless overlay 0 and the new one change pipes.
LEMMA OverlayTaken ==
  ASSUME Budget, GfxLoop, pc = "pipes", i \in Nat, NEW l \in Layers, RenderOnOverlay(l)
  PROVE  /\ num_ovls \in Slots /\ num_ovls' = num_ovls + 1 /\ z' = z + 1 /\ fb_z' = fb_z
         /\ ovls'[num_ovls].layer = i /\ ovls'[num_ovls].zorder = z
         /\ \A k \in Slots : k # num_ovls =>
              ovls'[k].layer = ovls[k].layer /\ ovls'[k].zorder = ovls[k].zorder
         /\ \/ /\ num_ovls > 0 /\ scaled_gfx /\ ~NeedsScaler(l) /\ scaled_gfx' = FALSE
               /\ ovls'[0].ix = num_ovls
               /\ \A k \in Slots : k # num_ovls /\ k # 0 => ovls'[k].ix = ovls[k].ix
            \/ /\ ovls'[num_ovls].ix = num_ovls + PrimaryTransform
               /\ \A k \in Slots : k # num_ovls => ovls'[k].ix = ovls[k].ix
               /\ scaled_gfx' = IF num_ovls = 0 /\ PrimaryTransform = 0
                                THEN NeedsScaler(l) ELSE scaled_gfx
<1> DEFINE fresh == [ix |-> num_ovls + PrimaryTransform, zorder |-> z, mgr |-> 0, layer |-> i]
           first == num_ovls = 0 /\ PrimaryTransform = 0
           swaps == ~first /\ scaled_gfx /\ ~NeedsScaler(l)
           moved == [ovls[0] EXCEPT !.ix = num_ovls]
           onGfx == [fresh EXCEPT !.ix = 0]
<1>1. /\ num_ovls < num.max_hw_overlays
      /\ num_ovls' = num_ovls + 1 /\ z' = z + 1 /\ fb_z' = fb_z
      /\ scaled_gfx' = IF first THEN NeedsScaler(l) ELSE scaled_gfx /\ ~swaps
  BY DEF RenderOnOverlay, TakesOverlay
<1>2. ovls' = IF swaps THEN [ovls EXCEPT ![0].ix = num_ovls, ![num_ovls] = onGfx]
                       ELSE [ovls EXCEPT ![num_ovls] = fresh]
  BY DEF RenderOnOverlay
<1>3. num_ovls \in Slots /\ num_ovls \in Int /\ 0 \in Slots
  BY <1>1, LoopState DEF Slots, MAX_HW_OVERLAYS
<1>4. /\ ovls \in [Slots -> Overlays] /\ ovls[0] \in Overlays
      /\ scaled_gfx \in BOOLEAN /\ NeedsScaler(l) \in BOOLEAN
  BY <1>3, LoopState DEF Budget, TypeOK, FlagTypes, NeedsScaler, IsNV12, Layers
<1>5. /\ fresh.layer = i /\ fresh.zorder = z /\ fresh.ix = num_ovls + PrimaryTransform
      /\ onGfx.layer = i /\ onGfx.zorder = z /\ onGfx.ix = 0
  OBVIOUS
<1>6. moved.ix = num_ovls /\ moved.layer = ovls[0].layer /\ moved.zorder = ovls[0].zorder
  BY <1>4 DEF Overlays
<1>7. CASE swaps
  <2>1. num_ovls # 0
    BY <1>7 DEF GfxLoop, Loop
  <2>2. ovls' = [[ovls EXCEPT ![0] = moved] EXCEPT ![num_ovls] = onGfx]
    BY <1>2, <1>7
  <2>3. scaled_gfx' = FALSE /\ scaled_gfx /\ ~NeedsScaler(l) /\ num_ovls > 0
    <3>1. num_ovls > 0
      BY <1>3, <2>1 DEF Slots, MAX_HW_OVERLAYS
    <3> QED
      BY <1>1, <1>7, <3>1, Zenon
  <2> HIDE DEF moved, onGfx, fresh, swaps, first
  <2>4. /\ ovls'[num_ovls] = onGfx /\ ovls'[0] = moved
        /\ \A k \in Slots : k # num_ovls /\ k # 0 => ovls'[k] = ovls[k]
    BY <1>3, <1>4, <2>1, <2>2
  <2> QED
    BY <1>1, <1>3, <1>5, <1>6, <2>3, <2>4
<1>8. CASE ~swaps
  <2>1. ovls' = [ovls EXCEPT ![num_ovls] = fresh]
    BY <1>2, <1>8
  <2>2. scaled_gfx' = IF num_ovls = 0 /\ PrimaryTransform = 0 THEN NeedsScaler(l) ELSE scaled_gfx
    BY <1>1, <1>4, <1>8
  <2> HIDE DEF fresh, swaps, first
  <2>3. ovls'[num_ovls] = fresh /\ \A k \in Slots : k # num_ovls => ovls'[k] = ovls[k]
    BY <1>3, <1>4, <2>1
  <2> QED
    BY <1>1, <1>3, <1>5, <2>2, <2>3
<1> QED
  BY <1>7, <1>8

\* A layer left to SGX changes z-orders only.
LEMMA FramebufferRaised ==
  ASSUME Budget, pc = "pipes", NEW l \in Layers, RenderOnFramebuffer(l)
  PROVE  /\ use_sgx /\ num_ovls' = num_ovls /\ scaled_gfx' = scaled_gfx
         /\ ix_docking' = ix_docking
         /\ fb_z' = num_ovls - 1
         /\ \A k \in Slots :
              /\ ovls'[k].layer = ovls[k].layer /\ ovls'[k].ix = ovls[k].ix
              /\ ovls'[k].zorder = IF fb_z >= 0 /\ fb_z < k /\ k < num_ovls
                                   THEN ovls[k].zorder - 1 ELSE ovls[k].zorder
<1>1. use_sgx /\ UNCHANGED <<scaled_gfx, ix_docking, num_ovls>>
  BY DEF RenderOnFramebuffer
<1>2. /\ ovls \in [Slots -> Overlays] /\ num_ovls \in 0 .. MAX_HW_OVERLAYS
      /\ z \in 0 .. MAX_HW_OVERLAYS /\ fb_z \in -1 .. MAX_HW_OVERLAYS - 1
      /\ fb_z < z /\ z = IF fb_z < 0 THEN num_ovls - 1 ELSE num_ovls
  BY <1>1, LoopState DEF MAX_HW_OVERLAYS
<1>3. CASE fb_z < 0
  <2>1. fb_z' = z /\ ovls' = ovls
    BY <1>3 DEF RenderOnFramebuffer
  <2> QED
    BY <1>1, <1>2, <1>3, <2>1 DEF MAX_HW_OVERLAYS
<1>4. CASE fb_z >= 0
  <2>1. ovls' = Lowered /\ fb_z' = Greatest(fb_z, z - 1)
    BY <1>2, <1>4 DEF RenderOnFramebuffer, MAX_HW_OVERLAYS
  <2>2. fb_z' = num_ovls - 1
    BY <1>2, <1>4, <2>1 DEF Greatest, MAX_HW_OVERLAYS
  <2>3. ASSUME NEW k \in Slots
        PROVE  /\ ovls'[k].layer = ovls[k].layer /\ ovls'[k].ix = ovls[k].ix
               /\ ovls'[k].zorder = IF fb_z >= 0 /\ fb_z < k /\ k < num_ovls
                                    THEN ovls[k].zorder - 1 ELSE ovls[k].zorder
    <3>1. ovls[k] \in Overlays /\ k \in Int
      BY <1>2 DEF Slots
    <3>2. k \in fb_z + 1 .. z - 1 <=> fb_z < k /\ k < num_ovls
      BY <1>2, <1>4, <3>1 DEF MAX_HW_OVERLAYS
    <3>3. ovls'[k] = IF k \in fb_z + 1 .. z - 1 THEN [ovls[k] EXCEPT !.zorder = @ - 1] ELSE ovls[k]
      BY <2>1 DEF Lowered
    <3> QED
      BY <1>4, <3>1, <3>2, <3>3 DEF Overlays
  <2> QED
    BY <1>1, <2>2, <2>3
<1> QED
  BY <1>2, <1>3, <1>4 DEF MAX_HW_OVERLAYS

\* Cloning leaves the internal composition as it is.  Above it there is nothing, one
\* overlay (a docked layer or the docking picture), or every overlay once more.
OneClone(n) ==
  /\ num_ovls' = n + 1
  /\ last' = current /\ current.enabled /\ current.docking
  /\ ovls'[n].ix = MAX_HW_OVERLAYS - 1 /\ ovls'[n].zorder = n
  /\ \/ ovls'[n].layer = DockImage
     \/ ix_docking >= 0 /\ ovls'[n].layer = ovls[ix_docking].layer

AllClones(n) ==
  /\ num_ovls' = 2 * n /\ n <= 2
  /\ last' = current /\ current.enabled /\ ~current.docking
  /\ \A k \in Slots : n <= k /\ k < 2 * n =>
       /\ k - n \in Slots
       /\ ovls'[k].ix = MAX_HW_OVERLAYS - 1 - (k - n)
       /\ ovls'[k].zorder = ovls[k - n].zorder + n
       /\ ovls'[k].layer = ovls[k - n].layer

Finished ==
  /\ pc' = "prepared"
  /\ post2_layers = num_ovls /\ post2_layers' = post2_layers
  /\ num_ovls \in 0 .. MAX_HW_OVERLAYS
  /\ UNCHANGED <<list, use_sgx, blitted, fb_z, hw, last_ext_ovls, last_int_ovls>>
  /\ \A k \in Slots : k < num_ovls => ovls'[k] = ovls[k]
  /\ z' = num_ovls'
  /\ num_ovls' = num_ovls \/ OneClone(num_ovls) \/ AllClones(num_ovls)
  /\ ext_mgr' => ext_ovls' = num_ovls' - num_ovls
  /\ ~ext_mgr' => last_ext_ovls = 0 /\ num_ovls' = num_ovls

\* What every end of prepare has in common.
LEMMA FinishFacts ==
  ASSUME Budget, pc = "clone",
         NEW cur \in Transforms, NEW n \in 0 .. MAX_HW_OVERLAYS, FinishPrepare(cur, n),
         num_ovls = n \/ cur.enabled
  PROVE  /\ pc' = "prepared" /\ num_ovls' = n /\ last' = cur
         /\ post2_layers = num_ovls /\ post2_layers' = post2_layers
         /\ num_ovls \in 0 .. MAX_HW_OVERLAYS
         /\ UNCHANGED <<list, use_sgx, blitted, fb_z, hw, last_ext_ovls, last_int_ovls>>
         /\ ext_mgr' => ext_ovls' = n - num_ovls
         /\ ~ext_mgr' => last_ext_ovls = 0 /\ n = num_ovls
<1>1. /\ pc' = "prepared" /\ num_ovls' = n /\ last' = cur
      /\ UNCHANGED <<list, use_sgx, blitted, fb_z, hw, last_ext_ovls, last_int_ovls, post2_layers>>
      /\ ext_mgr' = (cur.enabled \/ last_ext_ovls > 0)
      /\ ext_ovls' = IF cur.enabled \/ last_ext_ovls > 0 THEN n - post2_layers ELSE ext_ovls
  BY DEF FinishPrepare, planVars
<1>2. /\ post2_layers = num_ovls /\ num_ovls \in 0 .. MAX_HW_OVERLAYS
      /\ last_ext_ovls \in 0 .. 2
  BY CloneState
<1>3. CASE cur.enabled \/ last_ext_ovls > 0
  BY <1>1, <1>2, <1>3
<1>4. CASE ~(cur.enabled \/ last_ext_ovls > 0)
  <2>1. ext_mgr' = FALSE /\ n = num_ovls
    BY <1>1, <1>4
  <2>2. last_ext_ovls = 0
    BY <1>2, <1>4
  <2> QED
    BY <1>1, <1>2, <2>1, <2>2
<1> QED
  BY <1>3, <1>4

LEMMA NothingCloned ==
  ASSUME Budget, pc = "clone", NEW cur \in Transforms, FinishPrepare(cur, num_ovls),
         UNCHANGED <<ovls, z>>
  PROVE  Finished
<1>1. num_ovls \in 0 .. MAX_HW_OVERLAYS /\ z = num_ovls
  BY CloneState
<1> QED
  BY <1>1, FinishFacts DEF Finished, MAX_HW_OVERLAYS

LEMMA OneCloned ==
  ASSUME Budget, pc = "clone", ClonesLayers, current.docking,
         NEW src \in Overlays, CloneExternal(src, num_ovls),
         src.layer = DockImage \/ (ix_docking >= 0 /\ src.layer = ovls[ix_docking].layer)
  PROVE  Finished
<1>1. PICK res \in {"kept", "set", "failed"} :
        IF res = "failed"
        THEN /\ FinishPrepare([current EXCEPT !.enabled = FALSE], num_ovls)
             /\ UNCHANGED <<ovls, z>>
        ELSE IF num_ovls >= MAX_HW_OVERLAYS
        THEN /\ FinishPrepare(current, num_ovls)
             /\ UNCHANGED <<ovls, z>>
        ELSE /\ FinishPrepare(current, num_ovls + 1)
             /\ ovls' = [ovls EXCEPT ![num_ovls] =
                           [Clone(src, num_ovls - post2_layers) EXCEPT !.zorder = num_ovls]]
             /\ z' = z + 1
  BY DEF CloneExternal
<1>2. /\ num_ovls \in 0 .. MAX_HW_OVERLAYS /\ num_ovls < MAX_HW_OVERLAYS
      /\ post2_layers = num_ovls /\ z = num_ovls /\ ovls \in [Slots -> Overlays]
  BY CloneState
<1>3. current \in Transforms /\ [current EXCEPT !.enabled = FALSE] \in Transforms
  BY DEF Budget, TypeOK, ExtTypes, Transforms
<1>4. CASE res = "failed"
  BY <1>1, <1>3, <1>4, NothingCloned
<1>5. CASE res # "failed"
  <2> DEFINE copy == [Clone(src, num_ovls - post2_layers) EXCEPT !.zorder = num_ovls]
             m == num_ovls + 1
  <2>1. /\ copy.ix = MAX_HW_OVERLAYS - 1 /\ copy.zorder = num_ovls /\ copy.layer = src.layer
    <3>1. num_ovls - post2_layers = 0 /\ post2_layers \in Int /\ 0 \in Int
      BY <1>2
    <3>2. Clone(src, 0) \in Overlays /\ Clone(src, 0).ix = MAX_HW_OVERLAYS - 1
      BY <3>1, CloneType DEF MAX_HW_OVERLAYS
    <3>3. Clone(src, 0).layer = src.layer
      BY DEF Clone, Overlays
    <3> QED
      BY <3>1, <3>2, <3>3 DEF Overlays
  <2>2. /\ FinishPrepare(current, m) /\ ovls' = [ovls EXCEPT ![num_ovls] = copy]
        /\ z' = z + 1
    BY <1>1, <1>2, <1>5 DEF MAX_HW_OVERLAYS
  <2> HIDE DEF copy
  <2>3. num_ovls \in Slots
    BY <1>2 DEF Slots, MAX_HW_OVERLAYS
  <2>4. ovls'[num_ovls] = copy /\ \A k \in Slots : k < num_ovls => ovls'[k] = ovls[k]
    BY <1>2, <2>2, <2>3 DEF MAX_HW_OVERLAYS
  <2>5. m \in 0 .. MAX_HW_OVERLAYS /\ current.enabled
    BY <1>2 DEF MAX_HW_OVERLAYS, ClonesLayers
  <2>6. /\ pc' = "prepared" /\ num_ovls' = m /\ last' = current
        /\ post2_layers' = post2_layers
        /\ UNCHANGED <<list, use_sgx, blitted, fb_z, hw, last_ext_ovls, last_int_ovls>>
        /\ ext_mgr' => ext_ovls' = m - num_ovls
        /\ ~ext_mgr' => last_ext_ovls = 0 /\ m = num_ovls
    <3> HIDE DEF m
    <3> QED
      BY <1>3, <2>2, <2>5, FinishFacts
  <2>7. OneClone(num_ovls)
    BY <2>1, <2>4, <2>5, <2>6 DEF OneClone
  <2> QED
    BY <1>2, <2>2, <2>4, <2>6, <2>7 DEF Finished
<1> QED
  BY <1>4, <1>5

LEMMA AllCloned ==
  ASSUME Budget, MirrorLayers
  PROVE  Finished
<1> DEFINE n == Least(post2_layers, MAX_HW_OVERLAYS - num_ovls)
<1>1. pc = "clone" /\ ClonesLayers /\ ~current.docking
  BY DEF MirrorLayers
<1>2. PICK res \in {"set", "failed", "kept"} :
        /\ ModeSet(res)
        /\ IF res = "failed"
           THEN /\ FinishPrepare(current, num_ovls)
                /\ UNCHANGED <<ovls, z>>
           ELSE /\ FinishPrepare(current, num_ovls + n)
                /\ ovls' = [k \in Slots |->
                              IF k \in num_ovls .. num_ovls + n - 1
                              THEN Clone(ovls[k - num_ovls], k - post2_layers)
                              ELSE ovls[k]]
                /\ z' = z + n
  BY DEF MirrorLayers
<1>3. current \in Transforms /\ current.enabled
  BY <1>1 DEF ClonesLayers, Budget, TypeOK, ExtTypes
<1>4. /\ num_ovls \in 0 .. 2 /\ z = num_ovls /\ post2_layers = num_ovls
      /\ ovls \in [Slots -> Overlays]
  <2>1. /\ num_ovls \in 0 .. MAX_HW_OVERLAYS /\ num_ovls <= ext_ovls /\ ext_ovls \in 0 .. 2
        /\ post2_layers = num_ovls /\ z = num_ovls /\ ovls \in [Slots -> Overlays]
    BY <1>1, CloneState
  <2> QED
    BY <2>1 DEF MAX_HW_OVERLAYS
<1>5. n = num_ovls
  BY <1>4 DEF Least, MAX_HW_OVERLAYS
<1> HIDE DEF n
<1>6. CASE res = "failed"
  BY <1>1, <1>2, <1>3, <1>6, NothingCloned
<1>7. CASE res # "failed"
  <2> DEFINE m == 2 * num_ovls
  <2>1. /\ FinishPrepare(current, m)
        /\ ovls' = [k \in Slots |->
                      IF k \in num_ovls .. m - 1
                      THEN Clone(ovls[k - num_ovls], k - num_ovls)
                      ELSE ovls[k]]
        /\ z' = m
    <3>1. num_ovls + n = m /\ z + n = m /\ num_ovls + n - 1 = m - 1
      BY <1>4, <1>5
    <3> QED
      BY <1>2, <1>4, <1>7, <3>1
  <2>2. m \in 0 .. MAX_HW_OVERLAYS
    BY <1>4 DEF MAX_HW_OVERLAYS
  <2>3. /\ pc' = "prepared" /\ num_ovls' = m /\ last' = current
        /\ post2_layers' = post2_layers /\ num_ovls \in 0 .. MAX_HW_OVERLAYS
        /\ UNCHANGED <<list, use_sgx, blitted, fb_z, hw, last_ext_ovls, last_int_ovls>>
        /\ ext_mgr' => ext_ovls' = m - num_ovls
        /\ ~ext_mgr' => last_ext_ovls = 0 /\ m = num_ovls
    <3> HIDE DEF m
    <3> QED
      BY <1>1, <1>3, <2>1, <2>2, FinishFacts
  <2>4. ASSUME NEW k \in Slots, num_ovls <= k, k < m
        PROVE  /\ k - num_ovls \in Slots
               /\ ovls'[k].ix = MAX_HW_OVERLAYS - 1 - (k - num_ovls)
               /\ ovls'[k].zorder = ovls[k - num_ovls].zorder + num_ovls
               /\ ovls'[k].layer = ovls[k - num_ovls].layer
    <3>1. k - num_ovls \in Slots /\ k \in num_ovls .. m - 1 /\ k - num_ovls \in Int
      BY <1>4, <2>4 DEF Slots, MAX_HW_OVERLAYS
    <3> DEFINE src == ovls[k - num_ovls]
    <3>2. ovls'[k] = Clone(src, k - num_ovls)
      BY <2>1, <3>1
    <3>3. src \in Overlays /\ post2_layers \in Int
      BY <1>4, <3>1
    <3> HIDE DEF src
    <3>4. Clone(src, k - num_ovls).ix = MAX_HW_OVERLAYS - 1 - (k - num_ovls)
      BY <3>1, <3>3, CloneType
    <3>5. /\ Clone(src, k - num_ovls).zorder = src.zorder + num_ovls
          /\ Clone(src, k - num_ovls).layer = src.layer
      BY <1>4, <3>3 DEF Clone, Overlays
    <3> QED
      BY <3>1, <3>2, <3>4, <3>5 DEF src
  <2>5. \A k \in Slots : k < num_ovls => ovls'[k] = ovls[k]
    BY <1>4, <2>1 DEF Slots, MAX_HW_OVERLAYS
  <2>6. AllClones(num_ovls)
    <3>1. last' = current /\ current.enabled /\ ~current.docking
      BY <1>1, <1>3, <2>3
    <3>2. num_ovls' = 2 * num_ovls /\ num_ovls <= 2
      BY <1>4, <2>3
    <3> QED
      BY <2>4, <3>1, <3>2, Zenon DEF AllClones
  <2> QED
    BY <1>4, <2>1, <2>3, <2>5, <2>6 DEF Finished
<1> QED
  BY <1>6, <1>7

\* Every end of prepare.
LEMMA CloningFinishes ==
  ASSUME Budget, CloneNothing \/ CloneDocked \/ CloneDockImage \/ MirrorLayers
  PROVE  Finished /\ pc = "clone"
<1>1. CASE CloneNothing
  <2>1. current \in Transforms
    BY DEF Budget, TypeOK, ExtTypes
  <2> QED
    BY <1>1, <2>1, NothingCloned DEF CloneNothing
<1>2. CASE CloneDocked
  <2>1. /\ pc = "clone" /\ ClonesLayers /\ current.docking /\ ix_docking >= 0
        /\ CloneExternal(ovls[ix_docking], z)
    BY <1>2 DEF CloneDocked
  <2>2. ix_docking \in Slots /\ ovls \in [Slots -> Overlays]
    BY <2>1 DEF Budget, TypeOK, LoopTypes, CompTypes, Slots, MAX_HW_OVERLAYS
  <2>3. z = num_ovls /\ ovls[ix_docking] \in Overlays
    BY <2>1, <2>2, CloneState
  <2> QED
    BY <2>1, <2>3, OneCloned
<1>3. CASE CloneDockImage
  <2> DEFINE picture == [NoOverlay EXCEPT !.layer = DockImage]
  <2>1. /\ pc = "clone" /\ ClonesLayers /\ current.docking
        /\ CloneExternal(picture, post2_layers)
    BY <1>3 DEF CloneDockImage
  <2>2. picture \in Overlays /\ picture.layer = DockImage
    BY DEF NoOverlay, Overlays, FrameBuffer, DockImage
  <2> HIDE DEF picture
  <2>3. post2_layers = num_ovls
    BY <2>1, CloneState
  <2> QED
    BY <2>1, <2>2, <2>3, OneCloned
<1>4. CASE MirrorLayers
  BY <1>4, AllCloned DEF MirrorLayers
<1> QED
  BY <1>1, <1>2, <1>3, <1>4

-----------------------------------------------------------------------------
(* The invariants, step by step.                                           *)

LEMMA CompositionInit == Init => Stacked /\ Pipes
<1> SUFFICES ASSUME Init PROVE Stacked /\ Pipes
  OBVIOUS
<1>1. pc = "idle"
  BY DEF Init
<1> QED
  BY <1>1
     DEF Stacked, LayersAscend, LevelsByNumber, DrawnOnTop, InternalStacked, LayersStacked,
         ExternalStacked, Pipes, GfxLoop, GfxDone, TurnedAreNV12, DockingDockable, ClonesAreNV12,
         Loop, Done, Composing

LEMMA PrepareBeginComposes ==
  ASSUME NEW ls \in Lists, PrepareBegin(ls)
  PROVE  Stacked' /\ Pipes'
<1>1. /\ pc' \in {"pipes", "fb"}
      /\ pc' = "fb" => ~use_sgx'
      /\ ovls' = [k \in Slots |-> NoOverlay] /\ i' = 1 /\ scaled_gfx' = FALSE
      /\ ix_docking' = -1
      /\ num_ovls' = IF use_sgx' \/ blitted' THEN 1 ELSE 0
  <2> DEFINE dss_all == CanDssRenderAll(ls, CloningPlan(ls))
  <2>1. PICK blit_all \in BOOLEAN :
          /\ blitted' = blit_all
          /\ use_sgx' = (~dss_all /\ ~blit_all)
          /\ num_ovls' = IF dss_all /\ ~blit_all THEN 0 ELSE 1
          /\ pc' = IF blit_all THEN "fb" ELSE "pipes"
    BY DEF PrepareBegin
  <2>2. /\ ovls' = [k \in Slots |-> NoOverlay] /\ i' = 1 /\ scaled_gfx' = FALSE
        /\ ix_docking' = -1
    BY DEF PrepareBegin
  <2> HIDE DEF dss_all
  <2>3. CASE blit_all
    BY <2>1, <2>2, <2>3
  <2>4. CASE ~blit_all
    BY <2>1, <2>2, <2>4
  <2> QED
    BY <2>3, <2>4
<1>2. First' = num_ovls' /\ num_ovls' \in {0, 1} /\ \A k \in Slots : ~Given(k)'
  BY <1>1 DEF First, Given, Slots, MAX_HW_OVERLAYS
<1>3. \A k \in Slots : ovls'[k].layer = 0
  BY <1>1 DEF NoOverlay, FrameBuffer
<1>4. 0 \in Slots
  BY DEF Slots, MAX_HW_OVERLAYS
<1>5. LayersAscend' /\ LevelsByNumber' /\ DrawnOnTop'
  BY <1>1, <1>2, <1>3, <1>4 DEF LayersAscend, LevelsByNumber, DrawnOnTop, FrameBuffer
<1>6. InternalStacked' /\ LayersStacked' /\ ExternalStacked' /\ GfxDone' /\ ClonesAreNV12'
  BY <1>1 DEF InternalStacked, LayersStacked, ExternalStacked, GfxDone, ClonesAreNV12, Done
<1>7. GfxLoop' /\ TurnedAreNV12' /\ DockingDockable'
  BY <1>1, <1>3 DEF GfxLoop, TurnedAreNV12, DockingDockable
<1> QED
  BY <1>5, <1>6, <1>7 DEF Stacked, Pipes

\* What the invariants say while the loop runs.
LEMMA LoopFacts ==
  ASSUME Budget, LayersAscend, LevelsByNumber, pc \in {"pipes", "fb"}
  PROVE  /\ i \in 1 .. Len(list) + 1 /\ Len(list) \in Nat /\ DOMAIN list = 1 .. Len(list)
         /\ First \in {0, 1} /\ First <= num_ovls
         /\ num_ovls \in 0 .. MAX_HW_OVERLAYS /\ fb_z \in -1 .. MAX_HW_OVERLAYS - 1
         /\ fb_z >= 0 => use_sgx /\ First = 1
         /\ z = IF First = 1 /\ fb_z < 0 THEN num_ovls - 1 ELSE num_ovls
         /\ fb_z < z
         /\ \A k \in Slots : k < num_ovls => ovls[k].layer \in 0 .. i - 1
         /\ \A k \in Slots : k < num_ovls /\ ovls[k].layer > 0 => Given(k)
<1>1. /\ list \in Seq(Layers) /\ i \in 1 .. Len(list) + 1
      /\ num_ovls \in 0 .. MAX_HW_OVERLAYS /\ fb_z \in -1 .. MAX_HW_OVERLAYS - 1
      /\ z \in 0 .. MAX_HW_OVERLAYS
  BY DEF Budget, TypeOK, ListTypes, CompTypes, LoopTypes
<1>2. Len(list) \in Nat /\ DOMAIN list = 1 .. Len(list)
  BY <1>1
<1>3. /\ fb_z < z
      /\ fb_z >= 0 => use_sgx
      /\ z + (IF (use_sgx \/ blitted) /\ fb_z < 0 THEN 1 ELSE 0) = num_ovls
  BY DEF Budget, ZOrdersCounted
<1>4. /\ First \in {0, 1} /\ First <= num_ovls
      /\ fb_z >= 0 => use_sgx /\ First = 1
      /\ z = IF First = 1 /\ fb_z < 0 THEN num_ovls - 1 ELSE num_ovls
  BY <1>1, <1>3 DEF First, MAX_HW_OVERLAYS
<1>5. ASSUME NEW k \in Slots, k < num_ovls
      PROVE  ovls[k].layer \in 0 .. i - 1 /\ (ovls[k].layer > 0 => Given(k))
  <2>1. CASE First <= k
    <3>1. ovls[k].layer \in 1 .. i - 1 /\ Given(k)
      BY <1>5, <2>1 DEF LayersAscend, Loop, Given
    <3> QED
      BY <1>1, <1>2, <3>1
  <2>2. CASE ~(First <= k)
    <3>1. First = 1 /\ k = 0
      BY <1>4, <2>2 DEF Slots, MAX_HW_OVERLAYS
    <3>2. ovls[k].layer = 0
      BY <3>1 DEF LayersAscend, Loop, FrameBuffer
    <3> QED
      BY <1>1, <1>2, <3>2
  <2> QED
    BY <2>1, <2>2
<1> QED
  BY <1>1, <1>2, <1>3, <1>4, <1>5

LEMMA OverlayTakenStacks ==
  ASSUME Budget, Stacked, Pipes, SetupPipe, RenderOnOverlay(list[i])
  PROVE  LayersAscend' /\ LevelsByNumber' /\ DrawnOnTop'
<1> DEFINE l == list[i]
<1>1. /\ pc = "pipes" /\ pc' = "pipes" /\ i <= Len(list) /\ i' = i + 1
      /\ UNCHANGED <<list, use_sgx, blitted>>
  BY DEF SetupPipe, planVars
<1>2. LayersAscend /\ LevelsByNumber /\ DrawnOnTop /\ GfxLoop
  BY DEF Stacked, Pipes
<1>3. /\ i \in 1 .. Len(list) + 1 /\ Len(list) \in Nat /\ DOMAIN list = 1 .. Len(list)
      /\ First \in {0, 1} /\ First <= num_ovls
      /\ num_ovls \in 0 .. MAX_HW_OVERLAYS /\ fb_z \in -1 .. MAX_HW_OVERLAYS - 1
      /\ fb_z >= 0 => use_sgx /\ First = 1
      /\ z = IF First = 1 /\ fb_z < 0 THEN num_ovls - 1 ELSE num_ovls
      /\ fb_z < z
  BY <1>1, <1>2, LoopFacts
<1>4. l \in Layers /\ i \in Nat
  <2>1. list \in Seq(Layers) /\ i \in DOMAIN list
    BY <1>1, <1>3 DEF Budget, TypeOK, ListTypes
  <2> QED
    BY <1>3, <2>1
<1>5. /\ num_ovls \in Slots /\ num_ovls' = num_ovls + 1 /\ fb_z' = fb_z
      /\ ovls'[num_ovls].layer = i /\ ovls'[num_ovls].zorder = z
      /\ \A k \in Slots : k # num_ovls =>
           ovls'[k].layer = ovls[k].layer /\ ovls'[k].zorder = ovls[k].zorder
  BY <1>1, <1>2, <1>4, OverlayTaken
<1>6. First' = First
  BY <1>1 DEF First
<1>7. \A k \in Slots : Given(k)' <=> k = num_ovls \/ Given(k)
  BY <1>3, <1>5, <1>6 DEF Given, Slots, MAX_HW_OVERLAYS
<1>8. \A k \in Slots : Given(k) => k # num_ovls /\ k < num_ovls
  BY <1>3 DEF Given, Slots, MAX_HW_OVERLAYS
<1>9. \A k \in Slots : Given(k) => ovls[k].layer \in 1 .. i - 1
  BY <1>1, <1>2 DEF LayersAscend, Loop
<1>10. LayersAscend'
  <2>1. First' = 1 => ovls'[0].layer = FrameBuffer
    <3>1. 0 \in Slots
      BY DEF Slots, MAX_HW_OVERLAYS
    <3>2. First = 1 => num_ovls # 0 /\ ovls[0].layer = FrameBuffer
      BY <1>1, <1>2, <1>3 DEF LayersAscend, Loop
    <3> QED
      BY <1>5, <1>6, <3>1, <3>2
  <2>2. \A k \in Slots : Given(k)' => ovls'[k].layer \in 1 .. i' - 1
    BY <1>1, <1>3, <1>5, <1>7, <1>8, <1>9
  <2>3. ASSUME NEW j \in Slots, NEW k \in Slots, Given(j)', Given(k)', j < k
        PROVE  ovls'[j].layer < ovls'[k].layer
    <3>1. Given(j) /\ j # num_ovls
      BY <1>3, <1>5, <1>7, <1>8, <2>3 DEF Slots, MAX_HW_OVERLAYS
    <3>2. CASE k = num_ovls
      BY <1>3, <1>5, <1>9, <3>1, <3>2
    <3>3. CASE k # num_ovls
      BY <1>1, <1>2, <1>5, <1>7, <2>3, <3>1, <3>3 DEF LayersAscend, Loop
    <3> QED
      BY <3>2, <3>3
  <2> QED
    BY <2>1, <2>2, <2>3 DEF LayersAscend
<1>11. LevelsByNumber'
  <2>1. ASSUME NEW k \in Slots, Given(k)'
        PROVE  ovls'[k].zorder = Level(k)'
    <3>1. Level(k)' = Level(k)
      BY <1>5, <1>6 DEF Level
    <3>2. CASE k = num_ovls
      BY <1>3, <1>5, <3>1, <3>2 DEF Level, MAX_HW_OVERLAYS
    <3>3. CASE k # num_ovls
      BY <1>1, <1>2, <1>5, <1>7, <2>1, <3>1, <3>3 DEF LevelsByNumber, Loop
    <3> QED
      BY <3>2, <3>3
  <2> QED
    BY <2>1 DEF LevelsByNumber
<1>12. DrawnOnTop'
  <2>1. ASSUME use_sgx, NEW f \in 1 .. i' - 1, ~Overlaid(f)'
        PROVE  /\ fb_z' >= 0
               /\ \A k \in Slots : Given(k)' =>
                    /\ ovls'[k].layer < f => k <= fb_z'
                    /\ list'[ovls'[k].layer].blended => ovls'[k].layer < f
    <3>1. f # i
      BY <1>5, <1>7, <2>1 DEF Overlaid
    <3>2. f \in 1 .. i - 1
      BY <1>1, <1>3, <3>1
    <3>3. ~Overlaid(f)
      BY <1>5, <1>7, <1>8, <2>1 DEF Overlaid
    <3>4. /\ fb_z >= 0
          /\ \A k \in Slots : Given(k) =>
               /\ ovls[k].layer < f => k <= fb_z
               /\ list[ovls[k].layer].blended => ovls[k].layer < f
      BY <1>1, <1>2, <2>1, <3>2, <3>3 DEF DrawnOnTop, Loop
    <3>5. ~list[i].blended
      BY <3>4 DEF RenderOnOverlay, TakesOverlay
    <3>6. ~(i < f)
      BY <1>3, <3>2
    <3> QED
      BY <1>1, <1>5, <1>7, <1>8, <3>4, <3>5, <3>6
  <2> QED
    BY <1>1, <2>1 DEF DrawnOnTop
<1> QED
  BY <1>10, <1>11, <1>12

LEMMA FramebufferRaisedStacks ==
  ASSUME Budget, Stacked, SetupPipe, RenderOnFramebuffer(list[i])
  PROVE  LayersAscend' /\ LevelsByNumber' /\ DrawnOnTop'
<1>1. /\ pc = "pipes" /\ pc' = "pipes" /\ i <= Len(list) /\ i' = i + 1
      /\ UNCHANGED <<list, use_sgx, blitted>>
  BY DEF SetupPipe, planVars
<1>2. LayersAscend /\ LevelsByNumber /\ DrawnOnTop
  BY DEF Stacked
<1>3. /\ i \in 1 .. Len(list) + 1 /\ Len(list) \in Nat /\ DOMAIN list = 1 .. Len(list)
      /\ First \in {0, 1} /\ First <= num_ovls
      /\ num_ovls \in 0 .. MAX_HW_OVERLAYS /\ fb_z \in -1 .. MAX_HW_OVERLAYS - 1
      /\ fb_z >= 0 => use_sgx /\ First = 1
      /\ z = IF First = 1 /\ fb_z < 0 THEN num_ovls - 1 ELSE num_ovls
      /\ fb_z < z
  BY <1>1, <1>2, LoopFacts
<1>4. list[i] \in Layers
  <2>1. list \in Seq(Layers) /\ i \in DOMAIN list
    BY <1>1, <1>3 DEF Budget, TypeOK, ListTypes
  <2> QED
    BY <1>3, <2>1
<1>5. /\ use_sgx /\ num_ovls' = num_ovls /\ fb_z' = num_ovls - 1
      /\ \A k \in Slots :
           /\ ovls'[k].layer = ovls[k].layer
           /\ ovls'[k].zorder = IF fb_z >= 0 /\ fb_z < k /\ k < num_ovls
                                THEN ovls[k].zorder - 1 ELSE ovls[k].zorder
  BY <1>1, <1>4, FramebufferRaised
<1>6. First = 1 /\ First' = 1 /\ \A k \in Slots : Given(k)' <=> Given(k)
  BY <1>1, <1>5 DEF First, Given
<1>7. \A k \in Slots : Given(k) => 1 <= k /\ k < num_ovls
  BY <1>6 DEF Given
<1>8. \A k \in Slots : Given(k) => ovls[k].layer \in 1 .. i - 1
  BY <1>1, <1>2 DEF LayersAscend, Loop
<1>9. LayersAscend'
  <2>1. 0 \in Slots
    BY DEF Slots, MAX_HW_OVERLAYS
  <2>2. ovls'[0].layer = FrameBuffer
    BY <1>1, <1>2, <1>5, <1>6, <2>1 DEF LayersAscend, Loop
  <2>3. \A k \in Slots : Given(k)' => ovls'[k].layer \in 1 .. i' - 1
    BY <1>1, <1>3, <1>5, <1>6, <1>8
  <2>4. \A j, k \in Slots : Given(j)' /\ Given(k)' /\ j < k => ovls'[j].layer < ovls'[k].layer
    BY <1>1, <1>2, <1>5, <1>6 DEF LayersAscend, Loop
  <2> QED
    BY <2>2, <2>3, <2>4 DEF LayersAscend
<1>10. LevelsByNumber'
  <2>1. ASSUME NEW k \in Slots, Given(k)'
        PROVE  ovls'[k].zorder = Level(k)'
    <3>1. Given(k) /\ k \in Int /\ 1 <= k /\ k < num_ovls
      BY <1>6, <1>7, <2>1 DEF Slots
    <3>2. Level(k)' = k - 1
      BY <1>3, <1>5, <1>6, <3>1 DEF Level, MAX_HW_OVERLAYS
    <3>3. ovls[k].zorder = Level(k)
      BY <1>1, <1>2, <3>1 DEF LevelsByNumber, Loop
    <3>4. Level(k) = IF fb_z < 0 \/ k <= fb_z THEN k - 1 ELSE k
      BY <1>6 DEF Level
    <3> QED
      BY <1>3, <1>5, <3>1, <3>2, <3>3, <3>4 DEF MAX_HW_OVERLAYS
  <2> QED
    BY <2>1 DEF LevelsByNumber
<1>11. DrawnOnTop'
  <2>1. fb_z' >= 0 /\ \A k \in Slots : Given(k) => k <= fb_z'
    BY <1>3, <1>5, <1>6, <1>7 DEF Slots, MAX_HW_OVERLAYS
  <2>2. ASSUME NEW f \in 1 .. i' - 1, ~Overlaid(f)', NEW k \in Slots, Given(k)',
               list'[ovls'[k].layer].blended
        PROVE  ovls'[k].layer < f
    <3>1. Given(k) /\ ovls'[k].layer = ovls[k].layer /\ ovls[k].layer \in 1 .. i - 1
      BY <1>5, <1>6, <1>8, <2>2
    <3>2. CASE f = i
      BY <1>3, <3>1, <3>2
    <3>3. CASE f # i
      <4>1. f \in 1 .. i - 1
        BY <1>1, <1>3, <3>3
      <4>2. ~Overlaid(f)
        BY <1>5, <1>6, <2>2 DEF Overlaid
      <4> QED
        BY <1>1, <1>2, <1>5, <2>2, <3>1, <4>1, <4>2 DEF DrawnOnTop, Loop
    <3> QED
      BY <3>2, <3>3
  <2> QED
    BY <1>1, <1>6, <2>1, <2>2 DEF DrawnOnTop
<1> QED
  BY <1>9, <1>10, <1>11

LEMMA RenderedNowhereStacks ==
  ASSUME Budget, Stacked, SetupPipe, RenderNowhere(list[i])
  PROVE  LayersAscend' /\ LevelsByNumber' /\ DrawnOnTop'
<1>1. /\ pc = "pipes" /\ pc' = "pipes" /\ i' = i + 1
      /\ UNCHANGED <<list, use_sgx, blitted, ovls, num_ovls, fb_z>>
      /\ ~use_sgx
  BY DEF SetupPipe, RenderNowhere, planVars
<1>2. LayersAscend /\ LevelsByNumber
  BY DEF Stacked
<1>3. First' = First /\ \A k \in Slots : (Given(k)' <=> Given(k)) /\ Level(k)' = Level(k)
  BY <1>1 DEF First, Given, Level
<1>4. i \in Int
  BY DEF Budget, TypeOK, ListTypes
<1>5. LayersAscend'
  <2>1. \A k \in Slots : Given(k) => ovls[k].layer \in 1 .. i - 1
    BY <1>1, <1>2 DEF LayersAscend, Loop
  <2>2. \A k \in Slots : Given(k)' => ovls'[k].layer \in 1 .. i' - 1
    BY <1>1, <1>3, <1>4, <2>1
  <2> QED
    BY <1>1, <1>2, <1>3, <2>2 DEF LayersAscend, Loop
<1>6. LevelsByNumber' /\ DrawnOnTop'
  BY <1>1, <1>2, <1>3 DEF LevelsByNumber, DrawnOnTop, Loop
<1> QED
  BY <1>5, <1>6

\* The pipes: a layer that needs a scaler is not left on the GFX pipe but as
\* overlay 0, and only a layer that may be turned is taken if it will be cloned.
LEMMA OverlayTakenPipes ==
  ASSUME Budget, Stacked, Pipes, SetupPipe, RenderOnOverlay(list[i])
  PROVE  GfxLoop' /\ TurnedAreNV12' /\ DockingDockable'
<1> DEFINE l == list[i]
<1>1. /\ pc = "pipes" /\ pc' = "pipes" /\ i <= Len(list)
      /\ UNCHANGED <<list, use_sgx, blitted, current>>
  BY DEF SetupPipe, planVars, extVars
<1>2. LayersAscend /\ LevelsByNumber /\ GfxLoop /\ TurnedAreNV12 /\ DockingDockable
  BY DEF Stacked, Pipes
<1>3. /\ i \in 1 .. Len(list) + 1 /\ Len(list) \in Nat /\ DOMAIN list = 1 .. Len(list)
      /\ First \in {0, 1} /\ First <= num_ovls /\ num_ovls \in 0 .. MAX_HW_OVERLAYS
  BY <1>1, <1>2, LoopFacts
<1>4. l \in Layers /\ i \in Nat
  <2>1. list \in Seq(Layers) /\ i \in DOMAIN list
    BY <1>1, <1>3 DEF Budget, TypeOK, ListTypes
  <2> QED
    BY <1>3, <2>1
<1>5. /\ num_ovls \in Slots /\ num_ovls' = num_ovls + 1
      /\ ovls'[num_ovls].layer = i
      /\ \A k \in Slots : k # num_ovls => ovls'[k].layer = ovls[k].layer
      /\ \/ /\ num_ovls > 0 /\ scaled_gfx /\ ~NeedsScaler(l) /\ scaled_gfx' = FALSE
            /\ ovls'[0].ix = num_ovls
            /\ \A k \in Slots : k # num_ovls /\ k # 0 => ovls'[k].ix = ovls[k].ix
         \/ /\ ovls'[num_ovls].ix = num_ovls + PrimaryTransform
            /\ \A k \in Slots : k # num_ovls => ovls'[k].ix = ovls[k].ix
            /\ scaled_gfx' = IF num_ovls = 0 /\ PrimaryTransform = 0
                             THEN NeedsScaler(l) ELSE scaled_gfx
  BY <1>1, <1>2, <1>4, OverlayTaken
<1>6. \A k \in Slots : k < num_ovls' => k = num_ovls \/ (k < num_ovls /\ k # num_ovls)
  BY <1>3, <1>5 DEF Slots
<1>7. /\ scaled_gfx => num_ovls > 0 /\ \A k \in Slots : 0 < k /\ k < num_ovls => ovls[k].ix # 0
      /\ \A k \in Slots : k < num_ovls /\ ovls[k].ix = 0 /\ ovls[k].layer > 0 =>
           (scaled_gfx /\ k = 0) \/ ~NeedsScaler(list[ovls[k].layer])
  BY <1>1, <1>2 DEF GfxLoop, Loop
<1>8. GfxLoop'
  <2>1. CASE /\ num_ovls > 0 /\ scaled_gfx /\ ~NeedsScaler(l) /\ scaled_gfx' = FALSE
             /\ ovls'[0].ix = num_ovls
             /\ \A k \in Slots : k # num_ovls /\ k # 0 => ovls'[k].ix = ovls[k].ix
    <3>1. ASSUME NEW k \in Slots, k < num_ovls', ovls'[k].ix = 0, ovls'[k].layer > 0
          PROVE  ~NeedsScaler(list[ovls'[k].layer])
      <4>1. CASE k = num_ovls
        BY <1>5, <2>1, <4>1
      <4>2. CASE k # num_ovls
        <5>1. k # 0
          BY <1>3, <2>1, <3>1
        <5>2. k < num_ovls /\ 0 < k
          BY <1>6, <3>1, <4>2, <5>1 DEF Slots
        <5> QED
          BY <1>7, <2>1, <3>1, <4>2, <5>1, <5>2
      <4> QED
        BY <4>1, <4>2
    <3> QED
      BY <1>1, <2>1, <3>1 DEF GfxLoop, NeedsScaler, IsNV12
  <2>2. CASE /\ ovls'[num_ovls].ix = num_ovls + PrimaryTransform
             /\ \A k \in Slots : k # num_ovls => ovls'[k].ix = ovls[k].ix
             /\ scaled_gfx' = IF num_ovls = 0 /\ PrimaryTransform = 0
                              THEN NeedsScaler(l) ELSE scaled_gfx
    <3>1. PrimaryTransform \in {0, 1} /\ num_ovls \in Nat /\ num_ovls' > 0
      BY <1>3, <1>5, ConstantsAssumption DEF MAX_HW_OVERLAYS
    <3>2. ASSUME scaled_gfx', NEW k \in Slots, 0 < k, k < num_ovls'
          PROVE  ovls'[k].ix # 0
      <4>1. CASE k = num_ovls
        BY <2>2, <3>1, <3>2, <4>1
      <4>2. CASE k # num_ovls
        <5>1. k < num_ovls /\ num_ovls # 0
          BY <1>6, <3>1, <3>2, <4>2 DEF Slots, MAX_HW_OVERLAYS
        <5>2. scaled_gfx
          BY <2>2, <3>2, <5>1
        <5> QED
          BY <1>7, <2>2, <3>2, <4>2, <5>1, <5>2
      <4> QED
        BY <4>1, <4>2
    <3>3. ASSUME NEW k \in Slots, k < num_ovls', ovls'[k].ix = 0, ovls'[k].layer > 0
          PROVE  (scaled_gfx' /\ k = 0) \/ ~NeedsScaler(list[ovls'[k].layer])
      <4>1. CASE k = num_ovls
        <5>1. num_ovls = 0 /\ PrimaryTransform = 0
          BY <2>2, <3>1, <3>3, <4>1
        <5>2. scaled_gfx' = NeedsScaler(l)
          BY <2>2, <5>1
        <5>3. ovls'[k].layer = i /\ k = 0
          BY <1>5, <4>1, <5>1
        <5> QED
          BY <5>2, <5>3
      <4>2. CASE k # num_ovls
        <5>1. k < num_ovls /\ num_ovls # 0
          BY <1>6, <3>1, <3>3, <4>2 DEF Slots, MAX_HW_OVERLAYS
        <5>2. scaled_gfx' = scaled_gfx
          BY <2>2, <5>1
        <5>3. ovls[k].ix = 0 /\ ovls[k].layer = ovls'[k].layer /\ ovls[k].layer > 0
          BY <1>5, <2>2, <3>3, <4>2
        <5> QED
          BY <1>7, <5>1, <5>2, <5>3
      <4> QED
        BY <4>1, <4>2
    <3> QED
      BY <1>1, <3>1, <3>2, <3>3 DEF GfxLoop, NeedsScaler, IsNV12
  <2> QED
    BY <1>5, <2>1, <2>2
<1>9. TurnedAreNV12'
  <2>1. SUFFICES ASSUME current.enabled, current.tform,
                        NEW k \in Slots, k < num_ovls', ovls'[k].layer > 0
                 PROVE  \/ IsNV12(list[ovls'[k].layer])
                        \/ current.docking /\ ~list[ovls'[k].layer].dockable
    BY <1>1 DEF TurnedAreNV12, IsNV12
  <2>2. CASE k = num_ovls
    BY <1>5, <2>1, <2>2 DEF RenderOnOverlay, TakesOverlay, CanDssRenderLayer
  <2>3. CASE k # num_ovls
    <3>1. k < num_ovls /\ ovls'[k].layer = ovls[k].layer
      BY <1>5, <1>6, <2>1, <2>3
    <3> QED
      BY <1>1, <1>2, <2>1, <3>1 DEF TurnedAreNV12, Composing
  <2> QED
    BY <2>2, <2>3
<1>10. DockingDockable'
  <2>1. ix_docking' = ix_docking \/ (ix_docking' = num_ovls /\ l.dockable)
    BY DEF RenderOnOverlay
  <2>2. First' = First
    BY <1>1 DEF First
  <2>3. CASE ix_docking' = num_ovls /\ l.dockable
    BY <1>1, <1>3, <1>5, <2>2, <2>3 DEF DockingDockable
  <2>4. CASE ix_docking' = ix_docking
    <3>1. SUFFICES ASSUME ix_docking >= 0
                   PROVE  /\ ix_docking < num_ovls' /\ First <= ix_docking
                          /\ ovls'[ix_docking].layer > 0
                          /\ list[ovls'[ix_docking].layer].dockable
      BY <1>1, <2>2, <2>4 DEF DockingDockable
    <3>2. /\ ix_docking < num_ovls /\ First <= ix_docking /\ ovls[ix_docking].layer > 0
          /\ list[ovls[ix_docking].layer].dockable
      BY <1>1, <1>2, <3>1 DEF DockingDockable, Composing, Loop
    <3>3. ix_docking \in -1 .. MAX_HW_OVERLAYS - 1
      BY DEF Budget, TypeOK, LoopTypes
    <3>4. ix_docking \in Slots /\ ix_docking # num_ovls
      BY <1>3, <3>1, <3>2, <3>3 DEF Slots, MAX_HW_OVERLAYS
    <3>5. ix_docking < num_ovls'
      BY <1>3, <1>5, <3>2, <3>3 DEF MAX_HW_OVERLAYS
    <3> QED
      BY <1>5, <3>2, <3>4, <3>5
  <2> QED
    BY <2>1, <2>3, <2>4
<1> QED
  BY <1>8, <1>9, <1>10

\* If no overlay is added and none changes its layer or pipe, none of this changes.
LEMMA SamePipes ==
  ASSUME Pipes, pc = "pipes", pc' \in {"pipes", "fb"}, Budget,
         UNCHANGED <<list, use_sgx, blitted, current, num_ovls, scaled_gfx, ix_docking>>,
         \A k \in Slots : ovls'[k].layer = ovls[k].layer /\ ovls'[k].ix = ovls[k].ix
  PROVE  GfxLoop' /\ TurnedAreNV12' /\ DockingDockable'
<1>1. GfxLoop /\ TurnedAreNV12 /\ DockingDockable /\ First' = First
  BY DEF Pipes, First
<1>2. GfxLoop'
  <2>1. /\ scaled_gfx => num_ovls > 0 /\ \A k \in Slots : 0 < k /\ k < num_ovls => ovls[k].ix # 0
        /\ \A k \in Slots : k < num_ovls /\ ovls[k].ix = 0 /\ ovls[k].layer > 0 =>
             (scaled_gfx /\ k = 0) \/ ~NeedsScaler(list[ovls[k].layer])
    BY <1>1 DEF GfxLoop, Loop
  <2> QED
    BY <2>1 DEF GfxLoop, NeedsScaler, IsNV12
<1>3. TurnedAreNV12'
  BY <1>1 DEF TurnedAreNV12, Composing, IsNV12
<1>4. DockingDockable'
  <2>1. SUFFICES ASSUME ix_docking >= 0
                 PROVE  /\ ix_docking < num_ovls /\ First <= ix_docking
                        /\ ovls'[ix_docking].layer > 0
                        /\ list[ovls'[ix_docking].layer].dockable
    BY <1>1 DEF DockingDockable
  <2>2. ix_docking \in Slots
    BY <2>1 DEF Budget, TypeOK, LoopTypes, Slots, MAX_HW_OVERLAYS
  <2> QED
    BY <1>1, <2>1, <2>2 DEF DockingDockable, Composing, Loop
<1> QED
  BY <1>2, <1>3, <1>4

LEMMA SetupPipeComposes ==
  ASSUME Budget, Stacked, Pipes, SetupPipe
  PROVE  Stacked' /\ Pipes'
<1>1. /\ pc = "pipes" /\ pc' = "pipes" /\ i <= Len(list)
      /\ UNCHANGED <<list, use_sgx, blitted, current>>
  BY DEF SetupPipe, planVars, extVars
<1>2. InternalStacked' /\ LayersStacked' /\ ExternalStacked' /\ GfxDone' /\ ClonesAreNV12'
  BY <1>1 DEF InternalStacked, LayersStacked, ExternalStacked, GfxDone, ClonesAreNV12, Done
<1>3. CASE RenderOnOverlay(list[i])
  BY <1>2, <1>3, OverlayTakenStacks, OverlayTakenPipes DEF Stacked, Pipes
<1>4. CASE RenderOnFramebuffer(list[i])
  <2>1. list[i] \in Layers
    <3>1. list \in Seq(Layers) /\ i \in 1 .. Len(list) + 1
      BY DEF Budget, TypeOK, ListTypes
    <3>2. i \in 1 .. Len(list)
      BY <1>1, <3>1
    <3> QED
      BY <3>1, <3>2
  <2>2. /\ num_ovls' = num_ovls /\ scaled_gfx' = scaled_gfx /\ ix_docking' = ix_docking
        /\ \A k \in Slots : ovls'[k].layer = ovls[k].layer /\ ovls'[k].ix = ovls[k].ix
    BY <1>1, <1>4, <2>1, FramebufferRaised
  <2>3. GfxLoop' /\ TurnedAreNV12' /\ DockingDockable'
    BY <1>1, <2>2, SamePipes
  <2> QED
    BY <1>2, <1>4, <2>3, FramebufferRaisedStacks DEF Stacked, Pipes
<1>5. CASE RenderNowhere(list[i])
  <2>1. UNCHANGED <<num_ovls, scaled_gfx, ix_docking, ovls>>
    BY <1>5 DEF RenderNowhere
  <2>2. GfxLoop' /\ TurnedAreNV12' /\ DockingDockable'
    BY <1>1, <2>1, SamePipes
  <2> QED
    BY <1>2, <1>5, <2>2, RenderedNowhereStacks DEF Stacked, Pipes
<1> QED
  BY <1>3, <1>4, <1>5 DEF SetupPipe

LEMMA PipesDoneComposes ==
  ASSUME Budget, Stacked, Pipes, PipesDone
  PROVE  Stacked' /\ Pipes'
<1>1. /\ pc = "pipes" /\ pc' = "fb" /\ i > Len(list)
      /\ UNCHANGED <<list, i, use_sgx, blitted, current, ovls, num_ovls, fb_z, scaled_gfx,
                     ix_docking>>
  BY DEF PipesDone, loopVars, planVars, compVars, extVars
<1>2. LayersAscend /\ LevelsByNumber /\ DrawnOnTop
  BY DEF Stacked
<1>3. /\ First' = First
      /\ \A k \in Slots : (Given(k)' <=> Given(k)) /\ Level(k)' = Level(k)
      /\ \A f : Overlaid(f)' <=> Overlaid(f)
  BY <1>1 DEF First, Given, Level, Overlaid
<1>4. LayersAscend' /\ LevelsByNumber'
  BY <1>1, <1>2, <1>3 DEF LayersAscend, LevelsByNumber, Loop
<1>5. DrawnOnTop'
  BY <1>1, <1>2, <1>3 DEF DrawnOnTop, Loop
<1>6. InternalStacked' /\ LayersStacked' /\ ExternalStacked' /\ GfxDone' /\ ClonesAreNV12'
  BY <1>1 DEF InternalStacked, LayersStacked, ExternalStacked, GfxDone, ClonesAreNV12, Done
<1>7. GfxLoop' /\ TurnedAreNV12' /\ DockingDockable'
  BY <1>1, SamePipes
<1> QED
  BY <1>4, <1>5, <1>6, <1>7 DEF Stacked, Pipes

\* The framebuffer gets overlay 0 and the z-order the loop left for it.
LEMMA FramebufferPlaced ==
  ASSUME Budget, Stacked, Pipes, SetupFramebuffer
  PROVE  /\ pc = "fb" /\ pc' = "clone" /\ post2_layers' = num_ovls /\ num_ovls' = num_ovls
         /\ UNCHANGED <<list, current, ix_docking>>
         /\ First' = First /\ (use_sgx' => use_sgx)
         /\ fb_z' = IF First = 1 /\ fb_z < 0 THEN num_ovls - 1 ELSE fb_z
         /\ \A k \in Slots : Given(k) =>
              ovls'[k].layer = ovls[k].layer /\ ovls'[k].zorder = ovls[k].zorder
         /\ \A k \in Slots : k > 0 => ovls'[k].ix = ovls[k].ix
         /\ First = 1 => ovls'[0].layer = 0 /\ ovls'[0].zorder = fb_z'
         /\ First = 0 => ovls'[0].ix = IF scaled_gfx THEN num_ovls ELSE ovls[0].ix
<1> DEFINE needs_fb == use_sgx \/ blitted
           top == IF fb_z < 0 THEN z ELSE fb_z
           moved == IF scaled_gfx THEN [ovls EXCEPT ![0].ix = num_ovls] ELSE ovls
           gfx == [ix |-> PrimaryTransform, zorder |-> top, mgr |-> 0, layer |-> FrameBuffer]
<1>1. /\ pc = "fb" /\ pc' = "clone"
      /\ ovls' = IF needs_fb THEN [moved EXCEPT ![0] = gfx] ELSE moved
      /\ fb_z' = IF needs_fb THEN top ELSE fb_z
      /\ post2_layers' = num_ovls
      /\ UNCHANGED <<list, num_ovls, ix_docking, current>>
  BY DEF SetupFramebuffer, GfxMoved, extVars
<1>2. LayersAscend /\ LevelsByNumber
  BY DEF Stacked
<1>3. /\ First \in {0, 1} /\ fb_z \in -1 .. MAX_HW_OVERLAYS - 1
      /\ fb_z >= 0 => use_sgx /\ First = 1
      /\ z = IF First = 1 /\ fb_z < 0 THEN num_ovls - 1 ELSE num_ovls
  BY <1>1, <1>2, LoopFacts
<1>4. (First = 1 <=> needs_fb) /\ (First = 0 <=> ~needs_fb)
  BY DEF First
<1>5. First' = First /\ (use_sgx' => use_sgx)
  <2>1. PICK blit \in BOOLEAN : /\ blit => use_sgx
                                /\ use_sgx' = (use_sgx /\ ~blit)
                                /\ blitted' = (blitted \/ blit)
    BY DEF SetupFramebuffer
  <2>2. use_sgx' \/ blitted' <=> use_sgx \/ blitted
    BY <2>1
  <2> QED
    BY <2>1, <2>2 DEF First
<1>6. ovls \in [Slots -> Overlays] /\ 0 \in Slots
  BY DEF Budget, TypeOK, CompTypes, Slots, MAX_HW_OVERLAYS
<1>7. fb_z' = IF First = 1 /\ fb_z < 0 THEN num_ovls - 1 ELSE fb_z
  BY <1>1, <1>3, <1>4
<1> DEFINE lifted == [ovls[0] EXCEPT !.ix = num_ovls]
<1>8. /\ moved = IF scaled_gfx THEN [ovls EXCEPT ![0] = lifted] ELSE ovls
      /\ lifted.ix = num_ovls /\ lifted.layer = ovls[0].layer /\ lifted.zorder = ovls[0].zorder
  BY <1>6 DEF Overlays
<1>9. gfx.layer = 0 /\ gfx.zorder = top
  BY DEF FrameBuffer
<1> HIDE DEF moved, gfx, lifted, needs_fb, top
<1>10. /\ moved \in [Slots -> {moved[k] : k \in Slots}]
       /\ \A k \in Slots : k # 0 => moved[k] = ovls[k]
       /\ moved[0] = IF scaled_gfx THEN lifted ELSE ovls[0]
  BY <1>6, <1>8
<1>11. CASE needs_fb
  <2>1. ovls'[0] = gfx /\ \A k \in Slots : k # 0 => ovls'[k] = ovls[k]
    BY <1>1, <1>6, <1>10, <1>11
  <2>2. \A k \in Slots : Given(k) => k # 0
    BY <1>4, <1>11 DEF Given
  <2>3. ovls'[0].zorder = fb_z'
    BY <1>1, <1>9, <1>11, <2>1
  <2> QED
    BY <1>1, <1>3, <1>4, <1>5, <1>7, <1>9, <1>11, <2>1, <2>2, <2>3
<1>12. CASE ~needs_fb
  <2>1. ovls'[0] = moved[0] /\ \A k \in Slots : k # 0 => ovls'[k] = ovls[k]
    BY <1>1, <1>6, <1>10, <1>12
  <2>2. /\ ovls'[0].layer = ovls[0].layer /\ ovls'[0].zorder = ovls[0].zorder
        /\ ovls'[0].ix = IF scaled_gfx THEN num_ovls ELSE ovls[0].ix
    BY <1>8, <1>10, <2>1
  <2> QED
    BY <1>1, <1>3, <1>4, <1>5, <1>7, <1>12, <2>1, <2>2
<1> QED
  BY <1>11, <1>12

LEMMA SetupFramebufferComposes ==
  ASSUME Budget, Stacked, Pipes, SetupFramebuffer
  PROVE  Stacked' /\ Pipes'
<1>1. /\ pc = "fb" /\ pc' = "clone" /\ post2_layers' = num_ovls /\ num_ovls' = num_ovls
      /\ UNCHANGED <<list, current, ix_docking>>
      /\ First' = First /\ (use_sgx' => use_sgx)
      /\ fb_z' = IF First = 1 /\ fb_z < 0 THEN num_ovls - 1 ELSE fb_z
      /\ \A k \in Slots : Given(k) =>
           ovls'[k].layer = ovls[k].layer /\ ovls'[k].zorder = ovls[k].zorder
      /\ \A k \in Slots : k > 0 => ovls'[k].ix = ovls[k].ix
      /\ First = 1 => ovls'[0].layer = 0 /\ ovls'[0].zorder = fb_z'
      /\ First = 0 => ovls'[0].ix = IF scaled_gfx THEN num_ovls ELSE ovls[0].ix
  BY FramebufferPlaced
<1>2. /\ LayersAscend /\ LevelsByNumber /\ DrawnOnTop
      /\ GfxLoop /\ TurnedAreNV12 /\ DockingDockable
  BY DEF Stacked, Pipes
<1>3. /\ i \in 1 .. Len(list) + 1 /\ Len(list) \in Nat /\ DOMAIN list = 1 .. Len(list)
      /\ First \in {0, 1} /\ First <= num_ovls
      /\ num_ovls \in 0 .. MAX_HW_OVERLAYS /\ fb_z \in -1 .. MAX_HW_OVERLAYS - 1
      /\ fb_z >= 0 => use_sgx /\ First = 1
      /\ z = IF First = 1 /\ fb_z < 0 THEN num_ovls - 1 ELSE num_ovls
      /\ fb_z < z
      /\ \A k \in Slots : k < num_ovls => ovls[k].layer \in 0 .. i - 1
      /\ \A k \in Slots : k < num_ovls /\ ovls[k].layer > 0 => Given(k)
  BY <1>1, <1>2, LoopFacts
<1>4. 0 \in Slots /\ \A k \in Slots : k \in Int /\ k >= 0
  BY DEF Slots, MAX_HW_OVERLAYS
<1>5. \A k \in Slots : 1 <= k /\ k < num_ovls => Given(k)
  BY <1>3 DEF Given, Slots
\* Only overlay 0 changes, and only for the framebuffer does its layer.
<1>6. \A k \in Slots : k < num_ovls /\ ovls'[k].layer > 0 =>
        Given(k) /\ ovls'[k].layer = ovls[k].layer /\ ovls[k].layer > 0
  <2>1. ASSUME NEW k \in Slots, k < num_ovls, ovls'[k].layer > 0
        PROVE  Given(k)
    <3>1. First = 1 => k # 0
      BY <1>1, <2>1
    <3> QED
      BY <1>3, <1>4, <2>1, <3>1 DEF Given
  <2> QED
    BY <1>1, <2>1
<1>7. InternalStacked'
  <2>1. fb_z' < num_ovls
    BY <1>1, <1>3 DEF MAX_HW_OVERLAYS
  <2>2. use_sgx' => fb_z' >= 0
    <3>1. use_sgx' => First = 1
      BY <1>1 DEF First
    <3> QED
      BY <1>1, <1>3, <3>1 DEF MAX_HW_OVERLAYS
  <2>3. ASSUME NEW k \in Slots, k < num_ovls
        PROVE  ovls'[k].zorder = FinalLevel(k)'
    <3>1. CASE k = 0 /\ First = 1
      <4>1. fb_z' \in Int /\ fb_z' >= 0 /\ ovls'[0].zorder = fb_z'
        BY <1>1, <1>3, <3>1 DEF MAX_HW_OVERLAYS
      <4> QED
        BY <3>1, <4>1 DEF FinalLevel
    <3>2. CASE ~(k = 0 /\ First = 1)
      <4>1. Given(k)
        BY <1>3, <1>4, <2>3, <3>2 DEF Given
      <4>2. ovls'[k].zorder = Level(k)
        BY <1>1, <1>2, <4>1 DEF LevelsByNumber, Loop
      <4>3. Level(k) = FinalLevel(k)'
        <5>1. CASE First = 0
          BY <1>1, <1>3, <5>1 DEF Level, FinalLevel
        <5>2. CASE First = 1
          <6>1. k # 0 /\ First' = 1
            BY <1>1, <3>2, <5>2
          <6> QED
            BY <1>1, <1>3, <1>4, <2>3, <5>2, <6>1 DEF Level, FinalLevel, MAX_HW_OVERLAYS
        <5> QED
          BY <1>3, <5>1, <5>2
      <4> QED
        BY <4>2, <4>3
    <3> QED
      BY <3>1, <3>2
  <2> QED
    BY <1>1, <2>1, <2>2, <2>3 DEF InternalStacked
<1>8. LayersStacked'
  <2>1. SUFFICES ASSUME use_sgx PROVE LayersStacked'
    BY <1>1 DEF LayersStacked
  <2>2. First = 1 /\ i - 1 = Len(list)
    <3>1. i > Len(list)
      BY <1>1, <1>2, <2>1 DEF DrawnOnTop, Loop
    <3> QED
      BY <1>3, <2>1, <3>1 DEF First
  <2>3. \A k \in Slots : 1 <= k /\ k < num_ovls =>
          /\ ovls'[k].layer = ovls[k].layer /\ ovls[k].layer \in 1 .. i - 1
    BY <1>1, <1>2, <1>5 DEF LayersAscend, Loop
  <2>4. \A j, k \in Slots : 1 <= j /\ j < k /\ k < num_ovls => ovls'[j].layer < ovls'[k].layer
    <3>1. ASSUME NEW j \in Slots, NEW k \in Slots, 1 <= j, j < k, k < num_ovls
          PROVE  ovls'[j].layer < ovls'[k].layer
      <4>1. Given(j) /\ Given(k)
        BY <1>3, <1>4, <1>5, <3>1 DEF MAX_HW_OVERLAYS
      <4> QED
        BY <1>1, <1>2, <3>1, <4>1 DEF LayersAscend, Loop
    <3> QED
      BY <3>1
  <2>5. ASSUME NEW f \in DOMAIN list,
               \A k \in Slots : 1 <= k /\ k < num_ovls => ovls'[k].layer # f,
               NEW k \in Slots, 1 <= k, k < num_ovls
        PROVE  /\ ovls'[k].layer < f => k <= fb_z'
               /\ list[ovls'[k].layer].blended => ovls'[k].layer < f
    <3>1. f \in 1 .. i - 1
      BY <1>3, <2>2
    <3>2. ~Overlaid(f)
      BY <1>1, <2>2, <2>5 DEF Overlaid, Given
    <3>3. /\ fb_z >= 0
          /\ ovls[k].layer < f => k <= fb_z
          /\ list[ovls[k].layer].blended => ovls[k].layer < f
      BY <1>1, <1>2, <1>5, <2>1, <2>5, <3>1, <3>2 DEF DrawnOnTop, Loop
    <3>4. fb_z' = fb_z
      BY <1>1, <1>3, <3>3
    <3> QED
      BY <2>3, <2>5, <3>3, <3>4
  <2>6. \A k \in Slots : 1 <= k /\ k < num_ovls => ovls'[k].layer \in DOMAIN list
    BY <1>3, <2>2, <2>3
  <2> QED
    BY <1>1, <2>4, <2>5, <2>6 DEF LayersStacked
<1>9. GfxDone'
  <2>1. ASSUME NEW k \in Slots, k < num_ovls, ovls'[k].ix = 0, ovls'[k].layer > 0
        PROVE  ~NeedsScaler(list[ovls'[k].layer])
    <3>1. Given(k) /\ ovls'[k].layer = ovls[k].layer /\ ovls[k].layer > 0
      BY <1>6, <2>1
    <3>2. /\ scaled_gfx => num_ovls > 0
          /\ ovls[k].ix = 0 => (scaled_gfx /\ k = 0) \/ ~NeedsScaler(list[ovls[k].layer])
      BY <1>1, <1>2, <2>1, <3>1 DEF GfxLoop, Loop
    <3>3. CASE k = 0
      <4>1. First = 0
        BY <1>1, <1>3, <2>1, <3>3
      <4>2. ~scaled_gfx /\ ovls[k].ix = 0
        BY <1>1, <2>1, <3>2, <3>3, <4>1
      <4> QED
        BY <3>1, <3>2, <4>2
    <3>4. CASE k # 0
      BY <1>1, <1>4, <2>1, <3>1, <3>2, <3>4
    <3> QED
      BY <3>3, <3>4
  <2> QED
    BY <1>1, <2>1 DEF GfxDone, NeedsScaler, IsNV12
<1>10. TurnedAreNV12'
  BY <1>1, <1>2, <1>6 DEF TurnedAreNV12, Composing, IsNV12
<1>11. DockingDockable'
  <2>1. SUFFICES ASSUME ix_docking >= 0
                 PROVE  /\ ix_docking < num_ovls /\ ovls'[ix_docking].layer > 0
                        /\ list[ovls'[ix_docking].layer].dockable
    BY <1>1 DEF DockingDockable, Loop
  <2>2. /\ ix_docking < num_ovls /\ First <= ix_docking /\ ovls[ix_docking].layer > 0
        /\ list[ovls[ix_docking].layer].dockable
    BY <1>1, <1>2, <2>1 DEF DockingDockable, Composing, Loop
  <2>3. ix_docking \in Slots
    BY <2>1 DEF Budget, TypeOK, LoopTypes, Slots, MAX_HW_OVERLAYS
  <2>4. ovls'[ix_docking].layer = ovls[ix_docking].layer
    BY <1>1, <2>2, <2>3 DEF Given
  <2> QED
    BY <2>2, <2>4
<1>12. LayersAscend' /\ LevelsByNumber' /\ DrawnOnTop' /\ ExternalStacked' /\ GfxLoop'
       /\ ClonesAreNV12'
  BY <1>1 DEF LayersAscend, LevelsByNumber, DrawnOnTop, ExternalStacked, GfxLoop, ClonesAreNV12, Loop
<1> QED
  BY <1>7, <1>8, <1>9, <1>10, <1>11, <1>12 DEF Stacked, Pipes

\* Cloning adds overlays above, on pipes from the end and of layers already there.
LEMMA CloningComposes ==
  ASSUME Budget, Stacked, Pipes, pc = "clone", Finished
  PROVE  Stacked' /\ Pipes'
<1>1. /\ pc' = "prepared" /\ post2_layers = num_ovls /\ post2_layers' = num_ovls
      /\ num_ovls \in 0 .. MAX_HW_OVERLAYS
      /\ UNCHANGED <<list, use_sgx, fb_z>>
      /\ \A k \in Slots : k < num_ovls => ovls'[k] = ovls[k]
      /\ z' = num_ovls'
      /\ num_ovls' = num_ovls \/ OneClone(num_ovls) \/ AllClones(num_ovls)
  BY DEF Finished
<1>2. \A k \in Slots : k \in Int /\ k >= 0 /\ k <= 3
  BY DEF Slots, MAX_HW_OVERLAYS
<1>3. /\ InternalStacked /\ LayersStacked /\ GfxDone /\ TurnedAreNV12 /\ DockingDockable
      /\ \A k \in Slots : FinalLevel(k)' = FinalLevel(k)
  BY <1>1 DEF Stacked, Pipes, FinalLevel
<1>4. InternalStacked' /\ LayersStacked'
  <2>1. InternalStacked'
    BY <1>1, <1>3 DEF InternalStacked, Done
  <2>2. \A k \in Slots : 1 <= k /\ k < num_ovls => ovls'[k].layer = ovls[k].layer
    BY <1>1
  <2>3. LayersStacked'
    <3>1. SUFFICES ASSUME use_sgx PROVE LayersStacked'
      BY <1>1 DEF LayersStacked
    <3>2. /\ \A k \in Slots : 1 <= k /\ k < num_ovls => ovls[k].layer \in DOMAIN list
          /\ \A j, k \in Slots : 1 <= j /\ j < k /\ k < num_ovls => ovls[j].layer < ovls[k].layer
          /\ \A f \in DOMAIN list :
               (\A k \in Slots : 1 <= k /\ k < num_ovls => ovls[k].layer # f) =>
                  \A k \in Slots : 1 <= k /\ k < num_ovls =>
                    /\ ovls[k].layer < f => k <= fb_z
                    /\ list[ovls[k].layer].blended => ovls[k].layer < f
      BY <1>1, <1>3, <3>1 DEF LayersStacked, Done
    <3>3. \A j, k \in Slots : 1 <= j /\ j < k /\ k < num_ovls => 1 <= k /\ j < num_ovls
      BY <1>1, <1>2 DEF MAX_HW_OVERLAYS
    <3>4. \A j, k \in Slots :
            1 <= j /\ j < k /\ k < num_ovls => ovls'[j].layer < ovls'[k].layer
      BY <2>2, <3>2, <3>3
    <3>5. \A f \in DOMAIN list :
               (\A k \in Slots : 1 <= k /\ k < num_ovls => ovls'[k].layer # f) =>
                  \A k \in Slots : 1 <= k /\ k < num_ovls =>
                    /\ ovls'[k].layer < f => k <= fb_z
                    /\ list[ovls'[k].layer].blended => ovls'[k].layer < f
      BY <2>2, <3>2
    <3>6. \A k \in Slots : 1 <= k /\ k < num_ovls => ovls'[k].layer \in DOMAIN list
      BY <2>2, <3>2
    <3> QED
      BY <1>1, <3>4, <3>5, <3>6 DEF LayersStacked
  <2> QED
    BY <2>1, <2>3
<1>5. ASSUME OneClone(num_ovls)
      PROVE  \A k \in Slots : num_ovls <= k /\ k < num_ovls' => k = num_ovls
  BY <1>1, <1>2, <1>5 DEF OneClone
<1>6. ExternalStacked'
  <2>1. ASSUME NEW k \in Slots, num_ovls <= k, k < num_ovls'
        PROVE  \/ num_ovls' = num_ovls + 1 /\ ovls'[k].zorder = num_ovls
               \/ /\ num_ovls' = 2 * num_ovls
                  /\ ovls'[k].zorder = FinalLevel(k - num_ovls) + num_ovls
    <3>1. num_ovls' # num_ovls
      BY <1>1, <1>2, <2>1
    <3>2. CASE OneClone(num_ovls)
      <4>1. k = num_ovls
        BY <1>5, <2>1, <3>2
      <4> QED
        BY <3>2, <4>1 DEF OneClone
    <3>3. CASE AllClones(num_ovls)
      <4>1. /\ num_ovls' = 2 * num_ovls /\ k - num_ovls \in Slots
            /\ ovls'[k].zorder = ovls[k - num_ovls].zorder + num_ovls
        BY <2>1, <3>3 DEF AllClones
      <4>2. k - num_ovls < num_ovls
        BY <1>1, <1>2, <2>1, <4>1
      <4>3. ovls[k - num_ovls].zorder = FinalLevel(k - num_ovls)
        BY <1>1, <1>3, <4>1, <4>2 DEF InternalStacked, Done
      <4> QED
        BY <4>1, <4>3
    <3> QED
      BY <1>1, <3>1, <3>2, <3>3
  <2>2. \A k : FinalLevel(k)' = FinalLevel(k)
    BY <1>1 DEF FinalLevel
  <2>3. FinalLevel(0)' = FinalLevel(0)
    BY <2>2
  <2>4. ASSUME NEW k \in Slots, num_ovls <= k, k < num_ovls'
        PROVE  FinalLevel(k - post2_layers)' = FinalLevel(k - num_ovls)
    BY <1>1 DEF FinalLevel
  <2> QED
    BY <1>1, <2>1, <2>4 DEF ExternalStacked
<1>7. GfxDone'
  <2>1. ASSUME NEW k \in Slots, k < num_ovls', ovls'[k].ix = 0, ovls'[k].layer > 0
        PROVE  ~NeedsScaler(list[ovls'[k].layer])
    <3>1. CASE k < num_ovls
      BY <1>1, <1>3, <2>1, <3>1 DEF GfxDone, Done
    <3>2. CASE ~(k < num_ovls)
      <4>1. num_ovls <= k /\ num_ovls' # num_ovls
        BY <1>1, <1>2, <2>1, <3>2
      <4>2. CASE OneClone(num_ovls)
        <5>1. k = num_ovls /\ ovls'[num_ovls].ix = 3
          BY <1>5, <2>1, <4>1, <4>2 DEF OneClone, MAX_HW_OVERLAYS
        <5> QED
          BY <2>1, <5>1
      <4>3. CASE AllClones(num_ovls)
        <5>1. num_ovls' = 2 * num_ovls /\ num_ovls <= 2 /\ ovls'[k].ix = 3 - (k - num_ovls)
          BY <2>1, <4>1, <4>3 DEF AllClones, MAX_HW_OVERLAYS
        <5> QED
          BY <1>1, <1>2, <2>1, <5>1
      <4> QED
        BY <1>1, <4>1, <4>2, <4>3
    <3> QED
      BY <3>1, <3>2
  <2> QED
    BY <1>1, <2>1 DEF GfxDone, NeedsScaler, IsNV12
<1>8. ClonesAreNV12'
  <2>1. ASSUME last'.tform, NEW k \in Slots, num_ovls <= k, k < num_ovls', ovls'[k].layer > 0
        PROVE  IsNV12(list[ovls'[k].layer])
    <3>1. num_ovls' # num_ovls
      BY <1>1, <1>2, <2>1
    <3>2. CASE OneClone(num_ovls)
      <4>1. k = num_ovls /\ current.enabled /\ current.docking /\ current.tform
        BY <1>5, <2>1, <3>2 DEF OneClone
      <4>2. ix_docking >= 0 /\ ovls'[k].layer = ovls[ix_docking].layer
        BY <2>1, <3>2, <4>1 DEF OneClone, DockImage
      <4>3. /\ ix_docking < num_ovls /\ ovls[ix_docking].layer > 0
            /\ list[ovls[ix_docking].layer].dockable
        BY <1>3, <4>2 DEF DockingDockable, Composing
      <4>4. ix_docking \in Slots
        BY <4>2 DEF Budget, TypeOK, LoopTypes, Slots, MAX_HW_OVERLAYS
      <4> QED
        BY <1>3, <4>1, <4>2, <4>3, <4>4 DEF TurnedAreNV12, Composing
    <3>3. CASE AllClones(num_ovls)
      <4>1. /\ num_ovls' = 2 * num_ovls /\ k - num_ovls \in Slots
            /\ ovls'[k].layer = ovls[k - num_ovls].layer
            /\ current.enabled /\ ~current.docking /\ current.tform
        BY <2>1, <3>3 DEF AllClones
      <4>2. k - num_ovls < num_ovls
        BY <1>1, <1>2, <2>1, <4>1
      <4> QED
        BY <1>3, <2>1, <4>1, <4>2 DEF TurnedAreNV12, Composing
    <3> QED
      BY <1>1, <3>1, <3>2, <3>3
  <2> QED
    BY <1>1, <2>1 DEF ClonesAreNV12, IsNV12
<1>9. LayersAscend' /\ LevelsByNumber' /\ DrawnOnTop' /\ GfxLoop' /\ TurnedAreNV12'
      /\ DockingDockable'
  BY <1>1
     DEF LayersAscend, LevelsByNumber, DrawnOnTop, GfxLoop, TurnedAreNV12, DockingDockable, Loop,
         Composing
<1> QED
  BY <1>4, <1>6, <1>7, <1>8, <1>9 DEF Stacked, Pipes

LEMMA SetComposes ==
  ASSUME Set
  PROVE  Stacked' /\ Pipes'
<1>1. pc' = "idle"
  BY DEF Set, SetPost, SetPostFailed, SetSwapFailed, SetScreenOff, EndSet
<1> QED
  BY <1>1
     DEF Stacked, LayersAscend, LevelsByNumber, DrawnOnTop, InternalStacked, LayersStacked,
         ExternalStacked, Pipes, GfxLoop, GfxDone, TurnedAreNV12, DockingDockable, ClonesAreNV12,
         Loop, Done, Composing

\* The event thread may change ext->current, but not while prepare composes.
LEMMA OthersCompose ==
  ASSUME Stacked, Pipes, EventThread \/ UNCHANGED vars
  PROVE  Stacked' /\ Pipes'
<1>1. /\ UNCHANGED <<pc, list, i, use_sgx, blitted, fb_z, z, scaled_gfx, ix_docking, ovls,
                     num_ovls, post2_layers, last>>
      /\ Composing => UNCHANGED current
  <2>1. CASE \E c \in CloneConfigs : Attach(c)
    <3>1. PICK c \in CloneConfigs : Attach(c)
      BY <2>1
    <3>2. EndHotplug
      BY <3>1, Zenon DEF Attach
    <3> QED
      BY <3>2 DEF EndHotplug, LockFree, Composing, loopVars, planVars, compVars
  <2>2. CASE Uevent \/ Detach \/ IdleTimeout
    BY <2>2 DEF Uevent, Detach, EndHotplug, IdleTimeout, extVars, loopVars, planVars, compVars
  <2>3. CASE UNCHANGED vars
    BY <2>3 DEF vars, extVars, loopVars, planVars, compVars
  <2> QED
    BY <2>1, <2>2, <2>3 DEF EventThread
<1>2. /\ Loop' = Loop /\ Done' = Done /\ Composing' = Composing /\ First' = First
      /\ \A k : (Given(k)' <=> Given(k)) /\ Level(k)' = Level(k) /\ FinalLevel(k)' = FinalLevel(k)
      /\ \A f : Overlaid(f)' <=> Overlaid(f)
  BY <1>1 DEF Loop, Done, Composing, First, Given, Level, FinalLevel, Overlaid
<1>3. LayersAscend' /\ LevelsByNumber' /\ DrawnOnTop'
  BY <1>1, <1>2 DEF Stacked, LayersAscend, LevelsByNumber, DrawnOnTop
<1>4. InternalStacked' /\ LayersStacked'
  BY <1>1, <1>2 DEF Stacked, InternalStacked, LayersStacked
<1>5. ExternalStacked'
  BY <1>1 DEF Stacked, ExternalStacked, FinalLevel
<1>6. GfxLoop' /\ GfxDone' /\ ClonesAreNV12'
  BY <1>1, <1>2 DEF Pipes, GfxLoop, GfxDone, ClonesAreNV12, NeedsScaler, IsNV12
<1>7. TurnedAreNV12' /\ DockingDockable'
  BY <1>1, <1>2 DEF Pipes, TurnedAreNV12, DockingDockable, IsNV12
<1> QED
  BY <1>3, <1>4, <1>5, <1>6, <1>7 DEF Stacked, Pipes

LEMMA CompositionStep ==
  ASSUME Budget, Stacked, Pipes, [Next]_vars
  PROVE  Stacked' /\ Pipes'
<1>1. CASE Prepare
  <2>1. CASE \E ls \in Lists : PrepareBegin(ls)
    BY <2>1, PrepareBeginComposes
  <2>2. CASE SetupPipe \/ PipesDone \/ SetupFramebuffer
    BY <2>2, SetupPipeComposes, PipesDoneComposes, SetupFramebufferComposes
  <2>3. CASE CloneNothing \/ CloneDocked \/ CloneDockImage \/ MirrorLayers
    BY <2>3, CloningFinishes, CloningComposes
  <2> QED
    BY <1>1, <2>1, <2>2, <2>3 DEF Prepare, PrepareRest
<1>2. CASE Set
  BY <1>2, SetComposes
<1>3. CASE EventThread \/ UNCHANGED vars
  BY <1>3, OthersCompose
<1> QED
  BY <1>1, <1>2, <1>3 DEF Next

\* What a composition is, of every state of every behaviour.
THEOREM CompositionKept == Spec => [](Budget /\ Stacked /\ Pipes)
<1>1. Init => Budget /\ Stacked /\ Pipes
  BY BudgetInit, CompositionInit
<1>2. Budget /\ Stacked /\ Pipes /\ [Next]_vars => (Budget /\ Stacked /\ Pipes)'
  BY BudgetStep, CompositionStep
<1> QED
  BY <1>1, <1>2, PTL DEF Spec

-----------------------------------------------------------------------------
(* The properties.                                                         *)

\* The numbers of the internal and of the external overlays of a composition.
LEMMA InternalFirst ==
  ASSUME Budget, Prepared
  PROVE  /\ post2_layers \in 0 .. MAX_HW_OVERLAYS /\ num_ovls \in 0 .. MAX_HW_OVERLAYS
         /\ post2_layers <= num_ovls
         /\ Used \subseteq Slots
         /\ \A k \in Used : k \in Int /\ 0 <= k /\ k < num_ovls
         /\ Internal = 0 .. post2_layers - 1
         /\ External = post2_layers .. num_ovls - 1
<1>1. /\ post2_layers \in 0 .. MAX_HW_OVERLAYS /\ num_ovls \in 0 .. MAX_HW_OVERLAYS
      /\ post2_layers <= num_ovls
      /\ \A k \in Slots : k < post2_layers => ovls[k].mgr = 0
      /\ \A k \in Slots : post2_layers <= k /\ k < num_ovls => ovls[k].mgr = 1
  BY DEF Budget, TypeOK, CompTypes, PreparedFits, Prepared
<1>2. Internal = 0 .. post2_layers - 1 /\ External = post2_layers .. num_ovls - 1
  BY <1>1 DEF Internal, External, Used, Slots, MAX_HW_OVERLAYS
<1> QED
  BY <1>1, <1>2 DEF Used, Slots, MAX_HW_OVERLAYS

\* "ensure GFX layer is never scaled": whatever layers change pipes, and whether
\* they are mirrored or docked, none that needs a scaler ends on the GFX pipe.
THEOREM GfxNeverScales == Spec => []GfxNeverScaled
<1>1. ASSUME Budget, Pipes, Prepared
      PROVE  \A k \in Used :
               ovls[k].ix = 0 /\ ovls[k].layer > 0 => ~NeedsScaler(list[ovls[k].layer])
  BY <1>1, InternalFirst DEF Pipes, GfxDone, Done, Prepared
<1>2. Budget /\ Stacked /\ Pipes => GfxNeverScaled
  BY <1>1 DEF GfxNeverScaled
<1> QED
  BY <1>2, CompositionKept, PTL

\* "cannot rotate non-NV12 layers on external display": whatever the event thread
\* changes meanwhile, only NV12 layers are cloned to a display with a transform.
THEOREM ExternalRotates == Spec => []ExternalRotatesNV12
<1>1. ASSUME Budget, Pipes, Prepared, last.tform
      PROVE  \A k \in External : ovls[k].layer > 0 => IsNV12(list[ovls[k].layer])
  <2>1. \A k \in External : k \in Slots /\ post2_layers <= k /\ k < num_ovls
    BY <1>1, InternalFirst DEF Slots, MAX_HW_OVERLAYS
  <2> QED
    BY <1>1, <2>1 DEF Pipes, ClonesAreNV12, Prepared
<1>2. Budget /\ Stacked /\ Pipes => ExternalRotatesNV12
  BY <1>1 DEF ExternalRotatesNV12
<1> QED
  BY <1>2, CompositionKept, PTL

\* With fb below n, the levels of 0 .. n - 1 are 0 .. n - 1.
LEMMA FinalLevelsFill ==
  ASSUME NEW n \in Nat, fb_z \in Int, fb_z < n
  PROVE  /\ \A k \in 0 .. n - 1 : FinalLevel(k) \in 0 .. n - 1
         /\ \A y \in 0 .. n - 1 : \E k \in 0 .. n - 1 : FinalLevel(k) = y
<1>1. ASSUME NEW k \in 0 .. n - 1
      PROVE  FinalLevel(k) \in 0 .. n - 1
  BY DEF FinalLevel
<1>2. ASSUME NEW y \in 0 .. n - 1
      PROVE  \E k \in 0 .. n - 1 : FinalLevel(k) = y
  <2>1. CASE fb_z < 0 \/ y > fb_z
    BY <2>1 DEF FinalLevel
  <2>2. CASE fb_z >= 0 /\ y = fb_z
    <3>1. 0 \in 0 .. n - 1 /\ FinalLevel(0) = y
      BY <2>2 DEF FinalLevel
    <3> QED
      BY <3>1
  <2>3. CASE fb_z >= 0 /\ y < fb_z
    <3>1. y + 1 \in 0 .. n - 1 /\ FinalLevel(y + 1) = y
      BY <2>3 DEF FinalLevel
    <3> QED
      BY <3>1
  <2> QED
    BY <2>1, <2>2, <2>3
<1> QED
  BY <1>1, <1>2

\* "verify all z-orders ... are distinct": the overlays of a composition, clones
\* included, fill the z-orders from 0 without a gap.
THEOREM ZOrdersAreDense == Spec => []ZOrdersDense
<1>1. ASSUME Budget, Stacked, Prepared
      PROVE  z = num_ovls /\ {ovls[k].zorder : k \in Used} = 0 .. num_ovls - 1
  <2>1. /\ post2_layers \in 0 .. MAX_HW_OVERLAYS /\ num_ovls \in 0 .. MAX_HW_OVERLAYS
        /\ post2_layers <= num_ovls
        /\ Used \subseteq Slots
        /\ \A k \in Used : k \in Int /\ 0 <= k /\ k < num_ovls
    BY <1>1, InternalFirst
  <2>2. /\ z = num_ovls /\ fb_z < post2_layers
        /\ \A k \in Slots : k < post2_layers => ovls[k].zorder = FinalLevel(k)
        /\ \A k \in Slots : post2_layers <= k /\ k < num_ovls =>
             \/ num_ovls = post2_layers + 1 /\ ovls[k].zorder = post2_layers
             \/ /\ num_ovls = 2 * post2_layers
                /\ ovls[k].zorder = FinalLevel(k - post2_layers) + post2_layers
    BY <1>1 DEF Stacked, InternalStacked, ExternalStacked, Done, Prepared
  <2>3. post2_layers \in Nat /\ num_ovls \in Nat /\ fb_z \in Int
    BY <1>1, <2>1 DEF Budget, TypeOK, LoopTypes, MAX_HW_OVERLAYS
  <2>4. /\ \A k \in 0 .. post2_layers - 1 : FinalLevel(k) \in 0 .. post2_layers - 1
        /\ \A y \in 0 .. post2_layers - 1 :
             \E k \in 0 .. post2_layers - 1 : FinalLevel(k) = y
    BY <2>2, <2>3, FinalLevelsFill
  <2>5. \A k \in 0 .. num_ovls - 1 : k \in Slots /\ k \in Used
    BY <2>1 DEF Slots, MAX_HW_OVERLAYS, Used
  <2>6. ASSUME NEW k \in Used
        PROVE  ovls[k].zorder \in 0 .. num_ovls - 1
    <3>1. CASE k < post2_layers
      <4>1. k \in 0 .. post2_layers - 1
        BY <2>1, <2>3, <3>1
      <4> QED
        BY <2>1, <2>2, <2>3, <2>4, <3>1, <4>1
    <3>2. CASE ~(k < post2_layers)
      <4>1. k \in Slots /\ post2_layers <= k /\ k < num_ovls
        BY <2>1, <2>3, <3>2
      <4>2. CASE num_ovls = post2_layers + 1 /\ ovls[k].zorder = post2_layers
        BY <2>3, <4>2
      <4>3. CASE /\ num_ovls = 2 * post2_layers
                 /\ ovls[k].zorder = FinalLevel(k - post2_layers) + post2_layers
        <5>1. k - post2_layers \in 0 .. post2_layers - 1
          BY <2>1, <2>3, <4>1, <4>3
        <5> QED
          BY <2>3, <2>4, <4>3, <5>1
      <4> QED
        BY <2>2, <4>1, <4>2, <4>3
    <3> QED
      BY <3>1, <3>2
  <2>7. ASSUME NEW y \in 0 .. num_ovls - 1
        PROVE  \E k \in Used : ovls[k].zorder = y
    <3>1. CASE y < post2_layers
      <4>1. PICK k \in 0 .. post2_layers - 1 : FinalLevel(k) = y
        BY <2>3, <2>4, <3>1
      <4>2. k \in 0 .. num_ovls - 1 /\ k < post2_layers
        BY <2>1, <2>3, <4>1
      <4> QED
        BY <2>2, <2>5, <4>1, <4>2
    <3>2. CASE y >= post2_layers
      <4>1. y \in Slots /\ y \in Used /\ y < num_ovls
        BY <2>3, <2>5
      <4>2. CASE num_ovls = post2_layers + 1 /\ ovls[y].zorder = post2_layers
        BY <2>3, <3>2, <4>1, <4>2
      <4>3. CASE num_ovls = 2 * post2_layers /\ num_ovls # post2_layers + 1
        <5>1. y - post2_layers \in 0 .. post2_layers - 1
          BY <2>3, <3>2, <4>3
        <5>2. PICK k \in 0 .. post2_layers - 1 : FinalLevel(k) = y - post2_layers
          BY <2>4, <5>1
        <5> DEFINE c == k + post2_layers
        <5>3. /\ c \in 0 .. num_ovls - 1 /\ post2_layers <= c /\ c < num_ovls
              /\ c - post2_layers = k
          BY <2>3, <4>3, <5>2
        <5> HIDE DEF c
        <5>4. ovls[c].zorder = FinalLevel(k) + post2_layers
          BY <2>2, <2>5, <4>3, <5>3
        <5> QED
          BY <2>3, <2>5, <5>2, <5>3, <5>4
      <4>4. CASE num_ovls = post2_layers + 1 /\ ovls[y].zorder # post2_layers
        <5>1. num_ovls = 2 * post2_layers /\ post2_layers = 1 /\ y = 1
          BY <2>2, <2>3, <3>2, <4>1, <4>4
        <5>2. ovls[1].zorder = FinalLevel(0) + 1
          BY <2>2, <3>2, <4>1, <4>4, <5>1
        <5>3. FinalLevel(0) = 0
          BY <2>4, <5>1
        <5> QED
          BY <4>4, <5>1, <5>2, <5>3
      <4> QED
        BY <2>2, <3>2, <4>1, <4>2, <4>3, <4>4
    <3> QED
      BY <2>3, <3>1, <3>2
  <2> QED
    BY <2>2, <2>6, <2>7
<1>2. Budget /\ Stacked /\ Pipes => ZOrdersDense
  BY <1>1 DEF ZOrdersDense
<1> QED
  BY <1>2, CompositionKept, PTL

\* What is on an overlay, the framebuffer and what SGX draws into it stack as in
\* SurfaceFlinger's list, of any length and any layers.
THEOREM StackingKept == Spec => []StackingOrder
<1> DEFINE shown == Internal \ {0}
           drawn == DOMAIN list \ {ovls[k].layer : k \in shown}
<1>1. ASSUME Budget, Stacked, Prepared, use_sgx, NEW k \in shown
      PROVE  /\ \A j \in shown : ovls[k].layer < ovls[j].layer => ovls[k].zorder < ovls[j].zorder
             /\ \A f \in drawn :
                  /\ ovls[k].layer < f => ovls[k].zorder < ovls[0].zorder
                  /\ list[ovls[k].layer].blended /\ f < ovls[k].layer
                       => ovls[k].zorder > ovls[0].zorder
  <2>1. post2_layers \in 0 .. MAX_HW_OVERLAYS /\ shown = 1 .. post2_layers - 1
    BY <1>1, InternalFirst DEF MAX_HW_OVERLAYS
  <2>2. \A j \in shown : j \in Slots /\ j \in Int /\ 1 <= j /\ j < post2_layers
    BY <2>1 DEF Slots, MAX_HW_OVERLAYS
  <2>3. /\ fb_z >= 0 /\ fb_z \in Int /\ 0 \in Slots /\ 0 < post2_layers
        /\ \A j \in Slots : j < post2_layers => ovls[j].zorder = FinalLevel(j)
    <3>1. /\ fb_z >= 0 /\ fb_z < post2_layers
          /\ \A j \in Slots : j < post2_layers => ovls[j].zorder = FinalLevel(j)
      BY <1>1 DEF Stacked, InternalStacked, Done, Prepared
    <3>2. fb_z \in Int /\ 0 \in Slots
      BY <1>1 DEF Budget, TypeOK, LoopTypes, Slots, MAX_HW_OVERLAYS
    <3> QED
      BY <2>1, <3>1, <3>2
  <2>4. /\ ovls[0].zorder = fb_z
        /\ \A j \in shown : ovls[j].zorder = IF j <= fb_z THEN j - 1 ELSE j
    BY <2>2, <2>3 DEF FinalLevel
  <2>5. list \in Seq(Layers)
    BY <1>1 DEF Budget, TypeOK, ListTypes
  <2>6. /\ \A j \in shown : ovls[j].layer \in DOMAIN list /\ ovls[j].layer \in Int
        /\ \A a, b \in shown : a < b => ovls[a].layer < ovls[b].layer
    BY <1>1, <2>2, <2>5 DEF Stacked, LayersStacked, Done, Prepared
  <2>7. ASSUME NEW j \in shown, ovls[k].layer < ovls[j].layer
        PROVE  ovls[k].zorder < ovls[j].zorder
    <3>1. k < j
      BY <1>1, <2>2, <2>6, <2>7
    <3> QED
      BY <1>1, <2>2, <2>3, <2>4, <3>1
  <2>8. ASSUME NEW f \in drawn
        PROVE  /\ ovls[k].layer < f => k <= fb_z
               /\ list[ovls[k].layer].blended => ovls[k].layer < f
    <3>1. \A j \in Slots : 1 <= j /\ j < post2_layers => ovls[j].layer # f
      BY <2>1, <2>8 DEF Slots, MAX_HW_OVERLAYS
    <3> QED
      BY <1>1, <2>2, <2>8, <3>1 DEF Stacked, LayersStacked, Done, Prepared
  <2>9. \A f \in drawn : f \in Int
    BY <2>5
  <2>10. ASSUME NEW f \in drawn
         PROVE  /\ ovls[k].layer < f => ovls[k].zorder < ovls[0].zorder
                /\ ~(list[ovls[k].layer].blended /\ f < ovls[k].layer)
    BY <1>1, <2>2, <2>3, <2>4, <2>6, <2>8, <2>9
  <2> QED
    BY <2>7, <2>10
<1>2. Budget /\ Stacked /\ Pipes => StackingOrder
  BY <1>1 DEF StackingOrder
<1> QED
  BY <1>2, CompositionKept, PTL

-----------------------------------------------------------------------------
(* The counts of the last frame.                                           *)

\* A composition has as many pipes as overlays at most.
LEMMA PipesCounted ==
  ASSUME Budget, Prepared
  PROVE  /\ Cardinality(PipesOf(0)) <= post2_layers
         /\ Cardinality(PipesOf(1)) <= num_ovls - post2_layers
         /\ IsFiniteSet(PipesOf(1))
<1>1. /\ post2_layers \in 0 .. MAX_HW_OVERLAYS /\ num_ovls \in 0 .. MAX_HW_OVERLAYS
      /\ post2_layers <= num_ovls
      /\ Internal = 0 .. post2_layers - 1
      /\ External = post2_layers .. num_ovls - 1
  BY InternalFirst
<1>2. ASSUME NEW m, NEW S, S = {s \in 0 .. num_ovls - 1 : ovls[s].mgr = m}, IsFiniteSet(S)
      PROVE  Cardinality(PipesOf(m)) <= Cardinality(S) /\ IsFiniteSet(PipesOf(m))
  <2> DEFINE pipe == [s \in S |-> ovls[s].ix]
  <2>1. PipesOf(m) = {ovls[s].ix : s \in S}
    BY <1>2 DEF PipesOf
  <2>2. pipe \in Surjection(S, PipesOf(m))
    BY <2>1 DEF Surjection
  <2> HIDE DEF pipe
  <2> QED
    BY <1>2, <2>2, FS_Surjection
<1>3. /\ Internal = {s \in 0 .. num_ovls - 1 : ovls[s].mgr = 0}
      /\ External = {s \in 0 .. num_ovls - 1 : ovls[s].mgr = 1}
  BY DEF Internal, External, Used
<1>4. /\ 0 \in Int /\ post2_layers - 1 \in Int /\ post2_layers \in Int /\ num_ovls - 1 \in Int
      /\ num_ovls \in Int
  BY <1>1 DEF MAX_HW_OVERLAYS
<1>5. /\ IsFiniteSet(Internal)
      /\ Cardinality(Internal) =
           IF 0 > post2_layers - 1 THEN 0 ELSE post2_layers - 1 - 0 + 1
  BY <1>1, <1>4, FS_Interval
<1>6. /\ IsFiniteSet(External)
      /\ Cardinality(External) =
           IF post2_layers > num_ovls - 1 THEN 0 ELSE num_ovls - 1 - post2_layers + 1
  BY <1>1, <1>4, FS_Interval
<1>7. Cardinality(Internal) = post2_layers /\ Cardinality(External) = num_ovls - post2_layers
  BY <1>1, <1>4, <1>5, <1>6 DEF MAX_HW_OVERLAYS
<1> QED
  BY <1>2, <1>3, <1>5, <1>6, <1>7

\* The counts are right, and the external manager is told of the clones.
Counted == CountsCover /\ ExternalTold /\ IsFiniteSet(hw.ext)

LEMMA CountedStep ==
  ASSUME "post2" \notin SetFaults, Budget, Counted, [Next]_vars
  PROVE  Counted'
<1>1. CASE Set
  <2>1. pc = "prepared" /\ pc' = "idle"
    BY <1>1 DEF Set, SetPost, SetPostFailed, SetSwapFailed, SetScreenOff, EndSet
  <2>2. ExternalTold'
    BY <2>1 DEF ExternalTold
  <2>3. /\ post2_layers \in 0 .. MAX_HW_OVERLAYS /\ num_ovls \in 0 .. MAX_HW_OVERLAYS
        /\ ext_ovls \in Nat /\ last_ext_ovls \in Int
    BY DEF Budget, TypeOK, CompTypes, AcctTypes, MAX_HW_OVERLAYS
  <2>4. CASE SetPost
    <3>1. /\ last_ext_ovls' = ext_ovls /\ last_int_ovls' = post2_layers
          /\ hw' = [int |-> PipesOf(0), ext |-> IF ext_mgr THEN PipesOf(1) ELSE hw.ext]
      BY <2>4 DEF SetPost, CountPosted
    <3>2. /\ Cardinality(PipesOf(0)) <= post2_layers
          /\ Cardinality(PipesOf(1)) <= num_ovls - post2_layers
          /\ IsFiniteSet(PipesOf(1))
      BY <2>1, PipesCounted DEF Prepared
    <3>3. CASE ext_mgr
      BY <2>1, <2>2, <3>1, <3>2, <3>3 DEF Counted, CountsCover, ExternalTold
    <3>4. CASE ~ext_mgr
      <4>1. Cardinality(hw.ext) <= last_ext_ovls /\ last_ext_ovls = 0 /\ hw'.ext = hw.ext
        BY <2>1, <3>1, <3>4 DEF Counted, CountsCover, ExternalTold
      <4>2. IsFiniteSet(hw.ext) /\ Cardinality(hw.ext) \in Nat
        BY FS_CardinalityType DEF Counted
      <4>3. Cardinality(hw'.ext) <= ext_ovls
        BY <2>3, <4>1, <4>2
      <4> QED
        BY <2>2, <3>1, <3>2, <4>1, <4>2, <4>3 DEF Counted, CountsCover
    <3> QED
      BY <3>3, <3>4
  <2>5. CASE SetSwapFailed
    BY <2>2, <2>5 DEF SetSwapFailed, Counted, CountsCover
  <2>6. CASE SetScreenOff
    <3>1. /\ last_ext_ovls' = ext_ovls /\ last_int_ovls' = post2_layers
          /\ hw' = [int |-> {}, ext |-> {}]
      BY <2>6 DEF SetScreenOff, CountPosted
    <3>2. Cardinality({}) = 0 /\ IsFiniteSet({})
      BY FS_EmptySet
    <3>3. 0 <= ext_ovls /\ 0 <= post2_layers
      BY <2>3
    <3> QED
      BY <2>2, <3>1, <3>2, <3>3 DEF Counted, CountsCover
  <2> QED
    BY <1>1, <2>4, <2>5, <2>6 DEF Set, SetPostFailed
<1>2. CASE Prepare
  <2>1. UNCHANGED <<hw, last_ext_ovls, last_int_ovls>>
    BY <1>2
       DEF Prepare, PrepareRest, PrepareBegin, SetupPipe, PipesDone, SetupFramebuffer,
           CloneNothing, CloneDocked, CloneDockImage, CloneExternal, MirrorLayers, FinishPrepare,
           acctVars
  <2>2. CASE (\E ls \in Lists : PrepareBegin(ls)) \/ SetupPipe \/ PipesDone \/ SetupFramebuffer
    <3>1. pc' # "prepared"
      BY <2>2 DEF PrepareBegin, SetupPipe, PipesDone, SetupFramebuffer
    <3> QED
      BY <2>1, <3>1 DEF Counted, CountsCover, ExternalTold
  <2>3. CASE CloneNothing \/ CloneDocked \/ CloneDockImage \/ MirrorLayers
    <3>1. Finished
      BY <2>3, CloningFinishes
    <3> QED
      BY <2>1, <3>1 DEF Counted, CountsCover, ExternalTold, Finished
  <2> QED
    BY <1>2, <2>2, <2>3 DEF Prepare, PrepareRest
<1>3. CASE EventThread \/ UNCHANGED vars
  <2>1. UNCHANGED <<pc, num_ovls, post2_layers, ext_mgr, ext_ovls, last_ext_ovls,
                    last_int_ovls, hw>>
    BY <1>3
       DEF EventThread, Uevent, Attach, Detach, EndHotplug, IdleTimeout, vars, extVars,
           loopVars, planVars, compVars, acctVars
  <2> QED
    BY <2>1 DEF Counted, CountsCover, ExternalTold
<1> QED
  BY <1>1, <1>2, <1>3 DEF Next

\* The counts prepare reserves pipes by are no smaller than what each display
\* shows, through swaps that fail and screens turned off, as long as the kernel
\* accepts what is posted.
THEOREM CountsCovered ==
  ASSUME "post2" \notin SetFaults
  PROVE  Spec => []CountsCover
<1>1. ASSUME Init PROVE Counted
  <2>1. /\ hw = [int |-> {}, ext |-> {}] /\ last_ext_ovls = 0 /\ last_int_ovls = 0
        /\ pc = "idle"
    BY <1>1 DEF Init
  <2>2. Cardinality({}) = 0 /\ IsFiniteSet({})
    BY FS_EmptySet
  <2> QED
    BY <2>1, <2>2 DEF Counted, CountsCover, ExternalTold
<1>2. Init => Budget /\ Counted
  BY <1>1, BudgetInit
<1>3. Budget /\ Counted /\ [Next]_vars => (Budget /\ Counted)'
  BY BudgetStep, CountedStep
<1>4. Counted => CountsCover
  BY DEF Counted
<1> QED
  BY <1>2, <1>3, <1>4, PTL DEF Spec

-----------------------------------------------------------------------------
(* Every layer is on an overlay when SGX is not used.                      *)

\* A set of naturals that is not empty has a least element: what induction rests on.
LEMMA LeastNatural ==
  ASSUME NEW T, T \subseteq Nat, T # {}
  PROVE  \E n \in T : \A m \in T : n <= m
<1> DEFINE R == OpToRel(<, Nat)
<1>1. IsWellFoundedOn(R, Nat)
  BY NatLessThanWellFounded
<1>2. \A a, b \in Nat : a < b => <<a, b>> \in R
  BY DEF OpToRel
<1> HIDE DEF R
<1>3. PICK n \in T : \A m \in T : ~ (<<m, n>> \in R)
  BY <1>1, WFMin
<1>4. \A m \in T : ~(m < n)
  BY <1>2, <1>3
<1>5. \A m \in T : m \in Nat /\ n \in Nat
  OBVIOUS
<1> QED
  BY <1>4, <1>5

\* t holds the sums of the first 0 .. n of w.
SumsUp(n, w, t) ==
  /\ t \in [0 .. n -> Nat]
  /\ t[0] = 0
  /\ \A k \in 1 .. n : t[k] = t[k - 1] + w[k]

\* By the least m without such sums.
LEMMA PartialSums ==
  ASSUME NEW n \in Nat, NEW w \in [1 .. n -> Nat]
  PROVE  \E t : SumsUp(n, w, t)
<1> DEFINE Bad == {m \in 0 .. n : ~\E t : SumsUp(m, w, t)}
<1>1. SUFFICES ASSUME Bad # {} PROVE FALSE
  <2>1. n \in 0 .. n
    OBVIOUS
  <2> QED
    BY <2>1
<1>2. PICK m \in Bad : \A k \in Bad : m <= k
  <2>1. Bad \subseteq Nat
    OBVIOUS
  <2> HIDE DEF Bad
  <2> QED
    BY <1>1, <2>1, LeastNatural
<1>3. m \in Nat /\ m <= n /\ ~\E t : SumsUp(m, w, t)
  OBVIOUS
<1>4. CASE m = 0
  <2> DEFINE t == [k \in 0 .. 0 |-> 0]
  <2>1. t \in [0 .. 0 -> Nat] /\ t[0] = 0
    OBVIOUS
  <2>2. \A k \in 1 .. 0 : FALSE
    OBVIOUS
  <2>3. SumsUp(0, w, t)
    BY <2>1, <2>2 DEF SumsUp
  <2> QED
    BY <1>3, <1>4, <2>3
<1>5. CASE m # 0
  <2>1. m - 1 \in 0 .. n /\ m - 1 \notin Bad
    BY <1>2, <1>3, <1>5
  <2>2. PICK s : SumsUp(m - 1, w, s)
    BY <2>1
  <2> DEFINE t == [k \in 0 .. m |-> IF k = m THEN s[m - 1] + w[m] ELSE s[k]]
  <2>3. s[m - 1] \in Nat /\ w[m] \in Nat
    BY <1>3, <1>5, <2>2 DEF SumsUp
  <2>4. t \in [0 .. m -> Nat]
    <3>1. \A k \in 0 .. m : k # m => k \in 0 .. m - 1
      BY <1>3
    <3> QED
      BY <2>2, <2>3, <3>1 DEF SumsUp
  <2>5. t[0] = 0
    BY <1>3, <1>5, <2>2 DEF SumsUp
  <2>6. ASSUME NEW k \in 1 .. m
        PROVE  t[k] = t[k - 1] + w[k]
    <3>1. k - 1 \in 0 .. m /\ k \in 0 .. m /\ k - 1 # m
      BY <1>3
    <3>2. t[k - 1] = s[k - 1]
      BY <3>1
    <3>3. CASE k = m
      BY <3>1, <3>2, <3>3
    <3>4. CASE k # m
      <4>1. k \in 1 .. m - 1
        BY <1>3, <3>4
      <4> QED
        BY <2>2, <3>1, <3>2, <3>4, <4>1 DEF SumsUp
    <3> QED
      BY <3>3, <3>4
  <2> HIDE DEF t
  <2>7. SumsUp(m, w, t)
    BY <2>4, <2>5, <2>6 DEF SumsUp
  <2> QED
    BY <1>3, <2>7
<1> QED
  BY <1>4, <1>5

LEMMA SumsGrow ==
  ASSUME NEW n \in Nat, NEW w \in [1 .. n -> Nat], NEW t, SumsUp(n, w, t),
         NEW a \in 0 .. n
  PROVE  t[a] <= t[n]
<1> DEFINE Bad == {b \in 0 .. n : a <= b /\ ~(t[a] <= t[b])}
<1>1. SUFFICES ASSUME Bad # {} PROVE FALSE
  <2>1. n \in 0 .. n /\ a <= n
    OBVIOUS
  <2> QED
    BY <2>1
<1>2. PICK b \in Bad : \A c \in Bad : b <= c
  <2>1. Bad \subseteq Nat
    OBVIOUS
  <2> HIDE DEF Bad
  <2> QED
    BY <1>1, <2>1, LeastNatural
<1>3. b \in 0 .. n /\ a <= b /\ ~(t[a] <= t[b]) /\ \A k \in 0 .. n : t[k] \in Nat
  BY DEF SumsUp
<1>4. a # b
  BY <1>3
<1>5. b - 1 \in 0 .. n /\ a <= b - 1 /\ b \in 1 .. n
  BY <1>3, <1>4
<1>6. t[a] <= t[b - 1]
  BY <1>2, <1>3, <1>5
<1>7. t[b] = t[b - 1] + w[b] /\ w[b] \in Nat
  BY <1>5 DEF SumsUp
<1> QED
  BY <1>3, <1>5, <1>6, <1>7

\* What each layer of ls takes of the TILER1D slot.
MemOf(ls) == [k \in 1 .. Len(ls) |-> IF ls[k].valid THEN ls[k].mem ELSE 0]

\* The sum MemFits speaks of exists, and is the sum.
LEMMA MemFitsSums ==
  ASSUME NEW ls \in Seq(Layers), MemFits(ls)
  PROVE  \E t : SumsUp(Len(ls), MemOf(ls), t) /\ t[Len(ls)] <= Tiler1dSlot
<1> DEFINE n == Len(ls)
           F(t) == [k \in 0 .. n |-> IF k = 0 THEN 0
                                     ELSE t[k - 1] + (IF ls[k].valid THEN ls[k].mem ELSE 0)]
           total == CHOOSE t : t = F(t)
<1>1. n \in Nat /\ MemOf(ls) \in [1 .. n -> Nat]
  <2>1. n \in Nat /\ \A k \in 1 .. n : ls[k] \in Layers
    OBVIOUS
  <2>2. \A k \in 1 .. n : ls[k].mem \in Nat
    BY <2>1 DEF Layers
  <2> QED
    BY <2>1, <2>2 DEF MemOf
<1>2. PICK t : SumsUp(n, MemOf(ls), t)
  BY <1>1, PartialSums
<1>3. t = F(t)
  <2>1. t \in [0 .. n -> Nat] /\ t[0] = 0 /\ \A k \in 1 .. n : t[k] = t[k - 1] + MemOf(ls)[k]
    BY <1>2 DEF SumsUp
  <2>2. ASSUME NEW k \in 0 .. n
        PROVE  t[k] = F(t)[k]
    <3>1. CASE k = 0
      BY <2>1, <3>1
    <3>2. CASE k # 0
      <4>1. k \in 1 .. n
        BY <3>2
      <4> QED
        BY <2>1, <3>2, <4>1 DEF MemOf
    <3> QED
      BY <3>1, <3>2
  <2> QED
    BY <2>1, <2>2
<1>4. total = F(total)
  <2> HIDE DEF F
  <2> QED
    BY <1>3
<1>5. total[n] <= Tiler1dSlot
  BY DEF MemFits
<1> HIDE DEF total
<1>6. SumsUp(n, MemOf(ls), total)
  <2>1. total = [k \in 0 .. n |-> total[k]]
    BY <1>4
  <2>2. total[0] = 0
    BY <1>1, <1>4
  <2>3. ASSUME NEW k \in 1 .. n
        PROVE  total[k] = total[k - 1] + MemOf(ls)[k]
    <3>1. k \in 0 .. n /\ k # 0
      BY <1>1
    <3>2. total[k] = F(total)[k]
      BY <1>4
    <3> QED
      BY <3>1, <3>2 DEF MemOf
  <2>4. total \in [0 .. n -> Nat]
    <3> DEFINE Bad == {m \in 0 .. n : total[m] \notin Nat}
    <3>1. SUFFICES ASSUME Bad # {} PROVE FALSE
      BY <2>1
    <3>2. PICK m \in Bad : \A c \in Bad : m <= c
      <4>1. Bad \subseteq Nat
        OBVIOUS
      <4> HIDE DEF Bad
      <4> QED
        BY <3>1, <4>1, LeastNatural
    <3>3. m \in 0 .. n /\ total[m] \notin Nat
      OBVIOUS
    <3>4. m \in 1 .. n /\ m - 1 \in 0 .. n /\ m - 1 \notin Bad
      BY <2>2, <3>2, <3>3
    <3>5. total[m - 1] \in Nat /\ MemOf(ls)[m] \in Nat
      BY <1>1, <3>4
    <3> QED
      BY <2>3, <3>3, <3>4, <3>5
  <2> QED
    BY <2>2, <2>3, <2>4 DEF SumsUp
<1> QED
  BY <1>5, <1>6

\* No transform turns the external display's picture, and BGR is kept from a TV.
Upright ==
  /\ \A c \in CloneConfigs : ~c.dockTform /\ ~c.mirrorTform
  /\ FlagsRgbOrder \/ ~HdmiIsTv

NeverTurned ==
  /\ ~dock.tform /\ ~mirror.tform /\ ~current.tform
  /\ on_tv => HdmiIsTv

\* The memory counted so far is a part of a sum that fits the TILER1D slot.
MemCounted ==
  \E t : /\ SumsUp(Len(list), MemOf(list), t)
         /\ t[Len(list)] <= Tiler1dSlot
         /\ mem_used = t[i - 1]

\* can_dss_render_all held when prepare began, and what it looked at stays: each
\* layer so far has got the overlay of its number.
AllTaken ==
  Loop /\ First = 0 =>
    /\ force_sgx = 0
    /\ Len(list) <= num.max_hw_overlays
    /\ \A k \in DOMAIN list :
         /\ list[k].valid
         /\ FlagsRgbOrder => ~(IF swap_rb THEN IsRGB(list[k]) ELSE IsBGR(list[k]))
         /\ on_tv /\ current.enabled => ~IsBGR(list[k])
    /\ num_ovls = i - 1
    /\ \A k \in Slots : k < num_ovls => ovls[k].layer = k + 1
    /\ MemCounted
    /\ pc = "fb" => i > Len(list)

AllShown ==
  Done /\ ~use_sgx /\ ~blitted =>
    /\ post2_layers = Len(list)
    /\ \A k \in Slots : k < post2_layers => ovls[k].layer = k + 1

Whole == NeverTurned /\ AllTaken /\ AllShown

LEMMA AllValid ==
  ASSUME NEW ls \in Seq(Layers), PossibleOverlayLayers(ls) = Len(ls)
  PROVE  \A k \in DOMAIN ls : ls[k].valid
<1> DEFINE V == {k \in DOMAIN ls : ls[k].valid}
<1>1. PossibleOverlayLayers(ls) = Cardinality(V)
  <2>1. V = {k \in DOMAIN ls : ls[k].valid /\ TRUE}
    BY Zenon
  <2> QED
    BY <2>1 DEF PossibleOverlayLayers, CountOf
<1>2. Len(ls) \in Nat /\ DOMAIN ls = 1 .. Len(ls)
  OBVIOUS
<1>3. IsFiniteSet(1 .. Len(ls)) /\ Cardinality(1 .. Len(ls)) = Len(ls)
  <2>1. 1 \in Int /\ Len(ls) \in Int
    BY <1>2
  <2>2. /\ IsFiniteSet(1 .. Len(ls))
        /\ Cardinality(1 .. Len(ls)) = IF 1 > Len(ls) THEN 0 ELSE Len(ls) - 1 + 1
    BY <2>1, FS_Interval
  <2> QED
    BY <1>2, <2>2
<1>4. V \in SUBSET (1 .. Len(ls))
  BY <1>2
<1> HIDE DEF V
<1>5. V = 1 .. Len(ls)
  BY <1>1, <1>3, <1>4, FS_Subset
<1> QED
  BY <1>2, <1>5 DEF V

LEMMA PrepareBeginWhole ==
  ASSUME Upright, Budget, Whole, NEW ls \in Lists, PrepareBegin(ls)
  PROVE  Whole'
<1> DEFINE plan == CloningPlan(ls)
           dss_all == CanDssRenderAll(ls, plan)
<1>1. PICK blit_all \in BOOLEAN :
        /\ blitted' = blit_all
        /\ use_sgx' = (~dss_all /\ ~blit_all)
        /\ swap_rb' = (IF blit_all THEN FALSE
                       ELSE IF dss_all THEN SomeLayer(ls, IsBGR) ELSE FbIsBGR)
        /\ num_ovls' = IF dss_all /\ ~blit_all THEN 0 ELSE 1
        /\ pc' = IF blit_all THEN "fb" ELSE "pipes"
  BY DEF PrepareBegin
<1>2. /\ list' = ls /\ num'.max_hw_overlays = MaxHwOverlays(ls, plan)
      /\ current' = plan.current
      /\ ovls' = [k \in Slots |-> NoOverlay] /\ i' = 1 /\ mem_used' = 0
      /\ UNCHANGED <<dock, mirror, on_tv, force_sgx>>
  BY DEF PrepareBegin
<1>3. ls \in Seq(Layers)
  BY ConstantsAssumption
<1>4. ~plan.current.tform
  <2>1. current \in Transforms /\ mirror \in Transforms /\ dock \in Transforms
    BY DEF Budget, TypeOK, ExtTypes
  <2>2. ~[mirror EXCEPT !.docking = TRUE].tform /\ ~[current EXCEPT !.enabled = FALSE].tform
    BY <2>1 DEF Whole, NeverTurned, Transforms
  <2> QED
    BY <2>2 DEF CloningPlan, Whole, NeverTurned
<1>5. NeverTurned'
  BY <1>2, <1>4 DEF Whole, NeverTurned
<1>6. AllShown'
  BY <1>1 DEF AllShown, Done
<1> HIDE DEF dss_all, plan
<1>7. SUFFICES ASSUME dss_all, ~blit_all PROVE AllTaken'
  <2>1. CASE ~(dss_all /\ ~blit_all)
    <3>1. use_sgx' \/ blitted'
      BY <1>1, <2>1
    <3>2. First' = 1
      BY <3>1 DEF First
    <3> QED
      BY <1>5, <1>6, <3>2 DEF Whole, AllTaken
  <2>2. CASE dss_all /\ ~blit_all
    BY <1>5, <1>6, <2>2 DEF Whole
  <2> QED
    BY <2>1, <2>2
<1>8. /\ pc' = "pipes" /\ num_ovls' = 0 /\ ~use_sgx' /\ swap_rb' = SomeLayer(ls, IsBGR)
  BY <1>1, <1>7
<1>9. /\ force_sgx = 0
      /\ PossibleOverlayLayers(ls) <= MaxHwOverlays(ls, plan)
      /\ PossibleOverlayLayers(ls) = Len(ls)
      /\ MemFits(ls)
      /\ \/ ~SomeLayer(ls, IsBGR)
         \/ ~SomeLayer(ls, IsRGB) /\ ~(on_tv /\ plan.current.enabled)
         \/ ~FlagsRgbOrder
  BY <1>7 DEF dss_all, CanDssRenderAll
<1>10. \A k \in DOMAIN ls : ls[k].valid
  BY <1>3, <1>9, AllValid
<1>11. ASSUME NEW k \in DOMAIN ls
       PROVE  /\ FlagsRgbOrder => ~(IF SomeLayer(ls, IsBGR) THEN IsRGB(ls[k]) ELSE IsBGR(ls[k]))
              /\ on_tv /\ plan.current.enabled => ~IsBGR(ls[k])
  <2>1. /\ IsBGR(ls[k]) => SomeLayer(ls, IsBGR)
        /\ IsRGB(ls[k]) => SomeLayer(ls, IsRGB)
    BY <1>10 DEF SomeLayer
  <2>2. IsRGB(ls[k]) => ~IsBGR(ls[k])
    BY DEF IsRGB, IsBGR
  <2>3. on_tv => FlagsRgbOrder
    BY DEF Upright, Whole, NeverTurned
  <2> QED
    BY <1>9, <2>1, <2>2, <2>3
<1>12. PICK t : SumsUp(Len(ls), MemOf(ls), t) /\ t[Len(ls)] <= Tiler1dSlot
  BY <1>3, <1>9, MemFitsSums
<1>13. MemOf(list)' = MemOf(ls) /\ mem_used' = t[i' - 1]
  <2>1. t[0] = 0 /\ i' - 1 = 0
    BY <1>2, <1>12 DEF SumsUp
  <2> QED
    BY <1>2, <2>1 DEF MemOf
<1>14. \A k \in Slots : ~(k < 0)
  BY DEF Slots, MAX_HW_OVERLAYS
<1>15. \E u : SumsUp(Len(ls), MemOf(ls), u) /\ u[Len(ls)] <= Tiler1dSlot /\ mem_used' = u[i' - 1]
  BY <1>12, <1>13
<1>16. MemCounted'
  BY <1>2, <1>13, <1>15 DEF MemCounted, SumsUp
<1>17. ASSUME NEW k \in DOMAIN ls
       PROVE  /\ ls[k].valid
              /\ FlagsRgbOrder => ~(IF swap_rb' THEN IsRGB(ls[k]) ELSE IsBGR(ls[k]))
              /\ on_tv' /\ current'.enabled => ~IsBGR(ls[k])
  BY <1>2, <1>8, <1>10, <1>11
<1>18. (\A k \in DOMAIN list :
          /\ list[k].valid
          /\ FlagsRgbOrder => ~(IF swap_rb THEN IsRGB(list[k]) ELSE IsBGR(list[k]))
          /\ on_tv /\ current.enabled => ~IsBGR(list[k]))'
  BY <1>2, <1>17 DEF IsRGB, IsBGR
<1>19. force_sgx' = 0 /\ Len(list') <= num'.max_hw_overlays
  BY <1>2, <1>9
<1>20. num_ovls' = i' - 1 /\ \A k \in Slots : ~(k < num_ovls')
  BY <1>2, <1>8, <1>14
<1>21. pc' # "fb"
  BY <1>8
<1> QED
  BY <1>16, <1>18, <1>19, <1>20, <1>21 DEF AllTaken

\* The next layer gets the next overlay: nothing that can_dss_render_all accepted
\* is refused for the layer alone.
LEMMA OverlayTakes ==
  ASSUME Upright, Budget, Stacked, Whole, pc = "pipes", i <= Len(list), First = 0
  PROVE  TakesOverlay(list[i]) /\ ~use_sgx
<1>1. /\ LayersAscend /\ LevelsByNumber /\ Loop
  BY DEF Stacked, Loop
<1>2. /\ i \in 1 .. Len(list) + 1 /\ Len(list) \in Nat /\ DOMAIN list = 1 .. Len(list)
      /\ num_ovls \in 0 .. MAX_HW_OVERLAYS /\ fb_z \in -1 .. MAX_HW_OVERLAYS - 1
      /\ fb_z >= 0 => use_sgx
      /\ list \in Seq(Layers)
  BY <1>1, LoopFacts DEF Budget, TypeOK, ListTypes
<1>3. ~use_sgx
  BY DEF First
<1>4. /\ force_sgx = 0 /\ num_ovls = i - 1 /\ Len(list) <= num.max_hw_overlays
  BY <1>1 DEF Whole, AllTaken
<1>5. i \in 1 .. Len(list) /\ i \in DOMAIN list
  BY <1>2
<1>6. /\ list[i].valid
      /\ FlagsRgbOrder => ~(IF swap_rb THEN IsRGB(list[i]) ELSE IsBGR(list[i]))
      /\ on_tv /\ current.enabled => ~IsBGR(list[i])
  BY <1>1, <1>5 DEF Whole, AllTaken
<1>7. ~current.tform
  BY DEF Whole, NeverTurned
<1>8. CanDssRenderLayer(list[i])
  BY <1>3, <1>6, <1>7 DEF CanDssRenderLayer
<1>9. num_ovls < num.max_hw_overlays
  <2>1. num.max_hw_overlays \in Int
    BY DEF Budget, TypeOK, ListTypes, MAX_HW_OVERLAYS
  <2> QED
    BY <1>2, <1>4, <1>5, <2>1
<1>10. mem_used + list[i].mem <= Tiler1dSlot
  <2>1. PICK t : /\ SumsUp(Len(list), MemOf(list), t)
                 /\ t[Len(list)] <= Tiler1dSlot
                 /\ mem_used = t[i - 1]
    <3>1. MemCounted
      BY <1>1 DEF Whole, AllTaken
    <3> QED
      BY <3>1 DEF MemCounted
  <2>2. MemOf(list) \in [1 .. Len(list) -> Nat] /\ MemOf(list)[i] = list[i].mem
    <3>1. \A k \in 1 .. Len(list) : list[k] \in Layers
      BY <1>2
    <3>2. \A k \in 1 .. Len(list) : list[k].mem \in Nat
      BY <3>1 DEF Layers
    <3> QED
      BY <1>5, <1>6, <3>2 DEF MemOf
  <2>3. t[i] = t[i - 1] + MemOf(list)[i]
    BY <1>5, <2>1 DEF SumsUp
  <2>4. i \in 0 .. Len(list)
    BY <1>2, <1>5
  <2>5. t[i] <= t[Len(list)]
    BY <1>2, <2>1, <2>2, <2>4, SumsGrow
  <2>6. t[i] \in Nat /\ t[Len(list)] \in Nat /\ Tiler1dSlot \in Nat
    BY <1>2, <2>1, <2>4, ConstantsAssumption DEF SumsUp
  <2> QED
    BY <2>1, <2>2, <2>3, <2>5, <2>6
<1>11. ~(fb_z >= 0)
  BY <1>2, <1>3
<1> QED
  BY <1>3, <1>4, <1>8, <1>9, <1>10, <1>11 DEF TakesOverlay

LEMMA SetupPipeWhole ==
  ASSUME Upright, Budget, Stacked, Pipes, Whole, SetupPipe
  PROVE  Whole'
<1>1. /\ pc = "pipes" /\ pc' = pc /\ i <= Len(list) /\ i' = i + 1
      /\ UNCHANGED <<dock, mirror, current, on_tv, list, num, use_sgx, swap_rb, blitted, force_sgx>>
  BY DEF SetupPipe, extVars, planVars
<1>2. NeverTurned' /\ AllShown'
  BY <1>1 DEF Whole, NeverTurned, AllShown, Done
<1>3. SUFFICES ASSUME First = 0 PROVE AllTaken'
  <2>1. First' = First
    BY <1>1 DEF First
  <2>2. First \in {0, 1}
    BY DEF First
  <2> QED
    BY <1>2, <1>3, <2>1, <2>2 DEF Whole, AllTaken
<1>4. TakesOverlay(list[i]) /\ ~use_sgx
  BY <1>1, <1>3, OverlayTakes
<1>5. RenderOnOverlay(list[i])
  BY <1>4 DEF SetupPipe, RenderOnFramebuffer, RenderNowhere
<1>6. i \in 1 .. Len(list) /\ Len(list) \in Nat /\ list[i] \in Layers /\ list \in Seq(Layers)
  <2>1. list \in Seq(Layers) /\ i \in 1 .. Len(list) + 1
    BY DEF Budget, TypeOK, ListTypes
  <2> QED
    BY <1>1, <2>1
<1>7. /\ num_ovls \in Slots /\ num_ovls' = num_ovls + 1
      /\ ovls'[num_ovls].layer = i
      /\ \A k \in Slots : k # num_ovls => ovls'[k].layer = ovls[k].layer
  <2>1. i \in Nat
    BY <1>6
  <2> QED
    BY <1>1, <1>5, <1>6, <2>1, OverlayTaken DEF Pipes
<1>8. Loop /\ AllTaken
  BY <1>1 DEF Loop, Whole
<1>9. force_sgx' = 0 /\ Len(list') <= num'.max_hw_overlays
  BY <1>1, <1>3, <1>8 DEF AllTaken
<1>10. (\A k \in DOMAIN list :
          /\ list[k].valid
          /\ FlagsRgbOrder => ~(IF swap_rb THEN IsRGB(list[k]) ELSE IsBGR(list[k]))
          /\ on_tv /\ current.enabled => ~IsBGR(list[k]))'
  BY <1>1, <1>3, <1>8 DEF AllTaken, IsRGB, IsBGR
<1>11. num_ovls = i - 1 /\ \A k \in Slots : k < num_ovls => ovls[k].layer = k + 1
  BY <1>3, <1>8 DEF AllTaken
<1>12. num_ovls' = i' - 1
  BY <1>1, <1>6, <1>7, <1>11
<1>13. ASSUME NEW k \in Slots, k < num_ovls'
       PROVE  ovls'[k].layer = k + 1
  <2>1. CASE k = num_ovls
    BY <1>6, <1>7, <1>11, <2>1
  <2>2. CASE k # num_ovls
    <3>1. k < num_ovls
      BY <1>7, <1>13, <2>2 DEF Slots, MAX_HW_OVERLAYS
    <3> QED
      BY <1>7, <1>11, <2>2, <3>1
  <2> QED
    BY <2>1, <2>2
<1>14. PICK t : /\ SumsUp(Len(list), MemOf(list), t)
                /\ t[Len(list)] <= Tiler1dSlot
                /\ mem_used = t[i - 1]
  <2>1. MemCounted
    BY <1>3, <1>8 DEF AllTaken
  <2> QED
    BY <2>1 DEF MemCounted
<1>15. mem_used' = t[i' - 1]
  <2>1. mem_used' = mem_used + list[i].mem
    BY <1>5 DEF RenderOnOverlay
  <2>2. list[i].valid
    BY <1>3, <1>6, <1>8 DEF AllTaken
  <2>3. MemOf(list)[i] = list[i].mem
    BY <1>6, <2>2 DEF MemOf
  <2>4. t[i] = t[i - 1] + MemOf(list)[i]
    BY <1>6, <1>14 DEF SumsUp
  <2>5. i' - 1 = i
    BY <1>1, <1>6
  <2> QED
    BY <1>14, <2>1, <2>3, <2>4, <2>5
<1>16. MemCounted'
  <2>1. MemOf(list)' = MemOf(list)
    BY <1>1 DEF MemOf
  <2>2. list' = list
    BY <1>1
  <2>3. SumsUp(Len(list), MemOf(list), t)'
    BY <1>14, <2>1, <2>2 DEF SumsUp
  <2> QED
    BY <1>14, <1>15, <2>2, <2>3 DEF MemCounted
<1>17. pc' # "fb"
  BY <1>1
<1> QED
  BY <1>9, <1>10, <1>12, <1>13, <1>16, <1>17 DEF AllTaken

LEMMA PipesDoneWhole ==
  ASSUME Whole, PipesDone
  PROVE  Whole'
<1>1. /\ pc = "pipes" /\ pc' = "fb" /\ i > Len(list)
      /\ UNCHANGED <<dock, mirror, current, on_tv, list, num, use_sgx, swap_rb, blitted,
                     force_sgx, i, num_ovls, ovls, mem_used>>
  BY DEF PipesDone, extVars, planVars, loopVars, compVars
<1>2. NeverTurned' /\ AllShown'
  BY <1>1 DEF Whole, NeverTurned, AllShown, Done
<1>3. First' = First /\ Loop /\ AllTaken
  BY <1>1 DEF First, Loop, Whole
<1>4. MemOf(list)' = MemOf(list)
  BY <1>1 DEF MemOf
<1>5. AllTaken'
  BY <1>1, <1>3, <1>4 DEF AllTaken, MemCounted, SumsUp, IsRGB, IsBGR
<1> QED
  BY <1>2, <1>5 DEF Whole

\* The framebuffer is not needed, and every layer has its overlay.
LEMMA SetupFramebufferWhole ==
  ASSUME Budget, Stacked, Pipes, Whole, SetupFramebuffer
  PROVE  Whole'
<1>1. /\ pc = "fb" /\ pc' = "clone" /\ post2_layers' = num_ovls
      /\ UNCHANGED <<list, current>>
      /\ First' = First
      /\ \A k \in Slots : Given(k) => ovls'[k].layer = ovls[k].layer
  BY FramebufferPlaced
<1>2. UNCHANGED <<dock, mirror, current, on_tv>>
  BY DEF SetupFramebuffer, extVars
<1>3. NeverTurned' /\ AllTaken'
  BY <1>1, <1>2 DEF Whole, NeverTurned, AllTaken, Loop
<1>4. SUFFICES ASSUME ~use_sgx', ~blitted' PROVE AllShown'
  BY <1>3 DEF Whole, AllShown
<1>5. First = 0 /\ Loop
  BY <1>1, <1>4 DEF First, Loop
<1>6. /\ num_ovls = i - 1 /\ i > Len(list)
      /\ \A k \in Slots : k < num_ovls => ovls[k].layer = k + 1
  BY <1>1, <1>5 DEF Whole, AllTaken
<1>7. i \in 1 .. Len(list) + 1 /\ Len(list) \in Nat
  BY DEF Budget, TypeOK, ListTypes
<1>8. post2_layers' = Len(list')
  BY <1>1, <1>6, <1>7
<1>9. ASSUME NEW k \in Slots, k < post2_layers'
      PROVE  ovls'[k].layer = k + 1
  <2>1. Given(k)
    BY <1>1, <1>5, <1>9 DEF Given, Slots, MAX_HW_OVERLAYS
  <2> QED
    BY <1>1, <1>6, <1>9, <2>1
<1> QED
  BY <1>8, <1>9 DEF AllShown

\* Cloning keeps the internal overlays, and sets modes on the HDMI channel only.
LEMMA CloningWhole ==
  ASSUME Budget, Whole, CloneNothing \/ CloneDocked \/ CloneDockImage \/ MirrorLayers
  PROVE  Whole'
<1>1. Finished /\ pc = "clone"
  BY CloningFinishes
<1>2. AllTaken'
  BY <1>1 DEF AllTaken, Loop, Finished
<1>3. AllShown'
  <2>1. /\ pc' = "prepared" /\ post2_layers = num_ovls /\ post2_layers' = post2_layers
        /\ UNCHANGED <<list, use_sgx, blitted>>
        /\ \A k \in Slots : k < num_ovls => ovls'[k] = ovls[k]
    BY <1>1 DEF Finished
  <2> QED
    BY <1>1, <2>1 DEF AllShown, Done, Whole
<1>4. current \in Transforms
  BY DEF Budget, TypeOK, ExtTypes
<1> DEFINE off == [current EXCEPT !.enabled = FALSE]
<1>5. off.tform = current.tform
  BY <1>4 DEF Transforms
<1> HIDE DEF off
<1>6. UNCHANGED <<dock, mirror>> /\ (current' = current \/ current' = off)
  BY DEF CloneNothing, CloneDocked, CloneDockImage, CloneExternal, MirrorLayers, FinishPrepare, off
<1>7. on_tv' => on_tv \/ HdmiIsTv
  BY DEF CloneNothing, CloneDocked, CloneDockImage, CloneExternal, MirrorLayers, ModeSet
<1>8. NeverTurned'
  BY <1>5, <1>6, <1>7 DEF Whole, NeverTurned
<1> QED
  BY <1>2, <1>3, <1>8 DEF Whole

\* The configurations a display is attached with turn nothing.
LEMMA OthersWhole ==
  ASSUME Upright, Budget, Whole, Set \/ EventThread \/ UNCHANGED vars
  PROVE  Whole'
<1>1. CASE Set
  <2>1. pc' = "idle" /\ UNCHANGED <<dock, mirror, current, on_tv>>
    BY <1>1
       DEF Set, SetPost, SetPostFailed, SetSwapFailed, SetScreenOff, EndSet, extVars
  <2> QED
    BY <2>1 DEF Whole, NeverTurned, AllTaken, AllShown, Loop, Done
<1>2. CASE \E c \in CloneConfigs : Attach(c)
  <2>1. PICK c \in CloneConfigs : Attach(c)
    BY <1>2
  <2>2. EndHotplug
    BY <2>1, Zenon DEF Attach
  <2>3. /\ LockFree
        /\ UNCHANGED <<pc, list, use_sgx, blitted, ovls, post2_layers>>
    BY <2>2 DEF EndHotplug, loopVars, planVars, compVars
  <2>4. AllTaken' /\ AllShown'
    BY <2>3 DEF Whole, AllTaken, AllShown, Loop, Done, LockFree
  <2>5. ~c.dockTform /\ ~c.mirrorTform
    BY DEF Upright
  <2> DEFINE mirroring == [enabled |-> c.mirror /\ ~force_dock, docking |-> FALSE,
                           tform |-> c.mirrorTform]
  <2>6. mirroring.tform = FALSE /\ \A b : [mirroring EXCEPT !.enabled = b].tform = FALSE
    BY <2>5
  <2>7. ~dock'.tform
    BY <2>1, <2>5 DEF Attach
  <2>8. \/ mirror' = mirroring /\ current' = current /\ on_tv' = on_tv
        \/ /\ current' = mirroring
           /\ \E res \in {"set", "failed"} :
                ModeSet(res) /\ mirror' = [mirroring EXCEPT !.enabled = res # "failed"]
    BY <2>1 DEF Attach
  <2> HIDE DEF mirroring
  <2>9. NeverTurned'
    <3>1. CASE mirror' = mirroring /\ current' = current /\ on_tv' = on_tv
      BY <2>6, <2>7, <3>1 DEF Whole, NeverTurned
    <3>2. CASE /\ current' = mirroring
               /\ \E res \in {"set", "failed"} :
                    ModeSet(res) /\ mirror' = [mirroring EXCEPT !.enabled = res # "failed"]
      <4>1. PICK res \in {"set", "failed"} :
              ModeSet(res) /\ mirror' = [mirroring EXCEPT !.enabled = res # "failed"]
        BY <3>2
      <4>2. ~mirror'.tform
        BY <2>6, <4>1
      <4>3. on_tv' => on_tv \/ HdmiIsTv
        BY <4>1 DEF ModeSet
      <4>4. ~current'.tform
        BY <2>6, <3>2
      <4> QED
        BY <2>7, <4>2, <4>3, <4>4 DEF Whole, NeverTurned
    <3> QED
      BY <2>8, <3>1, <3>2
  <2> QED
    BY <2>4, <2>9 DEF Whole
<1>3. CASE Detach
  <2>1. /\ LockFree
        /\ UNCHANGED <<pc, list, use_sgx, blitted, ovls, post2_layers, current, on_tv>>
        /\ dock' = [dock EXCEPT !.enabled = FALSE]
        /\ mirror' = [mirror EXCEPT !.enabled = FALSE]
    BY <1>3 DEF Detach, EndHotplug, loopVars, planVars, compVars
  <2>2. AllTaken' /\ AllShown'
    BY <2>1 DEF Whole, AllTaken, AllShown, Loop, Done, LockFree
  <2>3. dock \in Transforms /\ mirror \in Transforms
    BY DEF Budget, TypeOK, ExtTypes
  <2>4. dock'.tform = dock.tform /\ mirror'.tform = mirror.tform
    BY <2>1, <2>3 DEF Transforms
  <2> QED
    BY <2>1, <2>2, <2>4 DEF Whole, NeverTurned
<1>4. CASE IdleTimeout
  <2>1. /\ LockFree
        /\ UNCHANGED <<pc, list, use_sgx, blitted, ovls, post2_layers, current, on_tv, dock, mirror>>
    BY <1>4 DEF IdleTimeout, loopVars, planVars, compVars, extVars
  <2> QED
    BY <2>1 DEF Whole, NeverTurned, AllTaken, AllShown, Loop, Done, LockFree
<1>5. CASE Uevent \/ UNCHANGED vars
  <2>1. UNCHANGED <<pc, list, use_sgx, swap_rb, blitted, ovls, post2_layers, num_ovls, current,
                    on_tv, dock, mirror, i, mem_used, num, force_sgx>>
    BY <1>5 DEF Uevent, vars, loopVars, planVars, compVars, extVars
  <2>2. First' = First /\ Loop' = Loop /\ Done' = Done /\ MemOf(list)' = MemOf(list)
    BY <2>1 DEF First, Loop, Done, MemOf
  <2>3. AllTaken'
    BY <2>1, <2>2 DEF Whole, AllTaken, MemCounted, SumsUp, IsRGB, IsBGR
  <2>4. NeverTurned' /\ AllShown'
    BY <2>1, <2>2 DEF Whole, NeverTurned, AllShown
  <2> QED
    BY <2>3, <2>4 DEF Whole
<1> QED
  BY <1>1, <1>2, <1>3, <1>4, <1>5 DEF EventThread

LEMMA WholeStep ==
  ASSUME Upright, Budget, Stacked, Pipes, Whole, [Next]_vars
  PROVE  Whole'
<1>1. CASE \E ls \in Lists : PrepareBegin(ls)
  BY <1>1, PrepareBeginWhole
<1>2. CASE SetupPipe \/ PipesDone \/ SetupFramebuffer
  BY <1>2, SetupPipeWhole, PipesDoneWhole, SetupFramebufferWhole
<1>3. CASE CloneNothing \/ CloneDocked \/ CloneDockImage \/ MirrorLayers
  BY <1>3, CloningWhole
<1>4. CASE Set \/ EventThread \/ UNCHANGED vars
  BY <1>4, OthersWhole
<1> QED
  BY <1>1, <1>2, <1>3, <1>4 DEF Next, Prepare, PrepareRest

\* "All layers can be handled by the DSS -- don't use SGX for composition": with an
\* upright external picture no layer is lost between the check of the list as a
\* whole and the check of each layer, whatever the event thread does meanwhile.
THEOREM NoLayerIsLost ==
  ASSUME Upright
  PROVE  Spec => []NoLayerLost
<1>1. ASSUME Init PROVE Whole
  <2>1. /\ pc = "idle" /\ dock = Off /\ mirror = Off /\ current = Off /\ on_tv = FALSE
    BY <1>1 DEF Init
  <2> QED
    BY <2>1 DEF Whole, NeverTurned, AllTaken, AllShown, Loop, Done, Off
<1>2. Init => Budget /\ Stacked /\ Pipes /\ Whole
  BY <1>1, BudgetInit, CompositionInit
<1>3. Budget /\ Stacked /\ Pipes /\ Whole /\ [Next]_vars => (Budget /\ Stacked /\ Pipes /\ Whole)'
  BY BudgetStep, CompositionStep, WholeStep
<1>4. Budget /\ Whole => NoLayerLost
  <2>1. ASSUME Budget, Whole, Prepared, ~use_sgx, ~blitted, NEW k \in DOMAIN list
        PROVE  \E s \in Internal : ovls[s].layer = k
    <3>1. post2_layers \in 0 .. MAX_HW_OVERLAYS /\ Internal = 0 .. post2_layers - 1
      BY <2>1, InternalFirst
    <3>2. /\ post2_layers = Len(list)
          /\ \A s \in Slots : s < post2_layers => ovls[s].layer = s + 1
      BY <2>1 DEF Whole, AllShown, Done, Prepared
    <3>3. DOMAIN list = 1 .. Len(list) /\ Len(list) \in Nat
      BY <2>1 DEF Budget, TypeOK, ListTypes
    <3>4. k - 1 \in Internal /\ k - 1 \in Slots /\ k - 1 < post2_layers
      BY <3>1, <3>2, <3>3 DEF Slots, MAX_HW_OVERLAYS
    <3>5. ovls[k - 1].layer = (k - 1) + 1 /\ (k - 1) + 1 = k
      BY <3>2, <3>3, <3>4
    <3> QED
      BY <3>4, <3>5
  <2> QED
    BY <2>1 DEF NoLayerLost
<1> QED
  BY <1>2, <1>3, <1>4, PTL DEF Spec

-----------------------------------------------------------------------------
(* prepare reads force_dock twice, and uevents write it without the lock.  *)

\* The event thread, which alone writes force_dock, rules mirroring out for a forced
\* dock before it polls for the next uevent.
ForcedNeverMirrors == ev = "poll" /\ mirror.enabled => ~force_dock

LEMMA EventThreadForces ==
  ASSUME ForcedNeverMirrors, TypeOK, EventThread PROVE ForcedNeverMirrors'
<1>1. CASE Uevent
  BY <1>1 DEF Uevent, ForcedNeverMirrors
<1>2. CASE \E c \in CloneConfigs : Attach(c)
  <2>1. PICK c \in CloneConfigs : Attach(c)
    BY <1>2
  <2> DEFINE mirroring == [enabled |-> c.mirror /\ ~force_dock, docking |-> FALSE,
                           tform |-> c.mirrorTform]
  <2>2. UNCHANGED force_dock
    BY <2>1 DEF Attach, EndHotplug
  <2>3. CASE mirroring.enabled
    BY <2>2, <2>3 DEF ForcedNeverMirrors
  <2>4. CASE ~mirroring.enabled
    <3>1. mirror' = mirroring
      BY <2>1, <2>4 DEF Attach
    <3> QED
      BY <2>4, <3>1 DEF ForcedNeverMirrors
  <2> QED
    BY <2>3, <2>4
<1>3. CASE Detach
  <2>1. mirror' = [mirror EXCEPT !.enabled = FALSE]
    BY <1>3 DEF Detach
  <2> QED
    BY <2>1 DEF ForcedNeverMirrors, TypeOK, ExtTypes, Transforms
<1>4. CASE IdleTimeout
  BY <1>4 DEF IdleTimeout, extVars, ForcedNeverMirrors
<1> QED
  BY <1>1, <1>2, <1>3, <1>4 DEF EventThread

LEMMA ForcedStep ==
  ASSUME ForcedNeverMirrors, TypeOK, [Next]_vars PROVE ForcedNeverMirrors'
<1>1. CASE Prepare
  <2>1. UNCHANGED <<ev, mirror, force_dock>>
    BY <1>1
       DEF Prepare, PrepareRest, PrepareBegin, SetupPipe, PipesDone, SetupFramebuffer,
           CloneNothing, CloneDocked, CloneDockImage, CloneExternal, MirrorLayers,
           FinishPrepare, extVars
  <2> QED
    BY <2>1 DEF ForcedNeverMirrors
<1>2. CASE Set
  BY <1>2
     DEF Set, SetPost, SetPostFailed, SetSwapFailed, SetScreenOff, EndSet, extVars,
         ForcedNeverMirrors
<1>3. CASE EventThread
  BY <1>3, EventThreadForces
<1>4. CASE UNCHANGED vars
  BY <1>4 DEF vars, extVars, ForcedNeverMirrors
<1> QED
  BY <1>1, <1>2, <1>3, <1>4 DEF Next

\* decide_supported_cloning reads force_dock to choose docking and again to count the
\* overlays it takes.  A uevent between the reads (1052, 1056) never takes back the
\* choice, so the plan is the one made with the second value alone: one read does.
THEOREM OneReadIsEnough ==
  Spec => [][Uevent => \A ls \in Lists : Docks(ls) => Docks(ls)']_vars
<1>1. Init => ForcedNeverMirrors
  BY DEF Init, Off, ForcedNeverMirrors
<1>2. TypeOK /\ ForcedNeverMirrors /\ [Next]_vars => ForcedNeverMirrors'
  BY ForcedStep
<1>3. ForcedNeverMirrors => [Uevent => \A ls \in Lists : Docks(ls) => Docks(ls)']_vars
  <2>1. ASSUME ForcedNeverMirrors, Uevent, NEW ls \in Lists, Docks(ls) PROVE Docks(ls)'
    <3>1. UNCHANGED <<dock, mirror>> /\ ev = "poll"
      BY <2>1 DEF Uevent, extVars
    <3>2. mirror.enabled => HasDockable(ls)
      BY <2>1, <3>1 DEF ForcedNeverMirrors, Docks, WantsDocking
    <3> QED
      BY <2>1, <3>1, <3>2 DEF Docks, WantsDocking
  <2> QED
    BY <2>1
<1> QED
  BY <1>1, <1>2, <1>3, TypeCorrect, PTL DEF Spec

=============================================================================
