------------------------------ MODULE Regionizer ------------------------------
(***************************************************************************)
(* Composition by the blitter: blit_layers (hwc/hwc.c) and the regionizer   *)
(* (hwc/rgz_2d.c), which redraws in the next framebuffer only what differs  *)
(* from what that framebuffer was left with.                                *)
(*                                                                         *)
(* A step is one frame: SurfaceFlinger's layers go through prepare and set, *)
(* and the blitter, SGX or nobody draws the framebuffer.  The framebuffers  *)
(* are a ring (the kernel's omaplfb picks the next one, outside of src/).   *)
(***************************************************************************)
EXTENDS RgzGeometry

CONSTANTS
  Inputs,       \* the lists of layers SurfaceFlinger may pass, from the back
  Updates,      \* the sets of layers that may have new content in a frame
  Modes,        \* values of persist.hwc.blt_mode: "paint", "region"
  LayersReturn, \* may a layer that left for one frame return to another place?
  MaxLayers,    \* RGZ_MAXLAYERS
  MaxBlits      \* RGZ_MAX_BLITS

NumFb == 2
InputMaxLayers == MaxLayers - 2
SubregionMax == 2 * MaxLayers - 1

\* A layer as passed to prepare: DSS shows it on an overlay if "dss".
HwcLayer == [id: Ids, frame: [left: Int, top: Int, right: Int, bottom: Int],
             dss: BOOLEAN, skip: BOOLEAN]

\* A layer passed meets the screen; it is in a list once.
ASSUME InputsAssumption ==
  /\ Updates \subseteq SUBSET Ids
  /\ \A l \in Inputs :
       /\ l \in Seq(HwcLayer)
       /\ \A i \in DOMAIN l : Intersects(l[i].frame, ScreenRect)
       /\ \A i, j \in DOMAIN l : l[i].id = l[j].id => i = j
\* The background has no identity (rgz_find_layer).
ASSUME BackgroundAssumption == "background" \notin Ids
ASSUME LimitsAssumption == MaxLayers \in Nat /\ MaxLayers > 2 /\ MaxBlits \in Nat \ {0}
ASSUME ModesAssumption == Modes \subseteq {"paint", "region"} /\ LayersReturn \in BOOLEAN

\* Layers do not change places: any two that two of the lists have in common are in
\* the same order in both.  rgz_handle_dirty_region compares what became of each
\* layer, never their order, so a change of it alone would go unnoticed.
StableOrder ==
  \A l, m \in Inputs : \A i, j \in DOMAIN l, x, y \in DOMAIN m :
    l[i].id = m[x].id /\ l[j].id = m[y].id /\ i < j => x < y

\* Sampling m pixels at n places gives the mirrored pixels when it starts from the
\* other end: such as when an image is enlarged by a whole factor.
EitherEnd(n, m) == \A d \in 0 .. n - 1 : ((n - 1 - d) * m) \div n = m - 1 - (d * m) \div n

\* A turned NV12 layer is sampled as the turned framebuffer runs, from the other end
\* of a reversed axis; if it is scaled, that must not matter.
Even(x) ==
  LET c == Attr[x.id].crop IN
  IsNV12(x) /\ Scaled(x) =>
    /\ Attr[x.id].trans = 90 => EitherEnd(Wide(x.frame), High(c))
    /\ Attr[x.id].trans = 180 => EitherEnd(Wide(x.frame), Wide(c)) /\ EitherEnd(High(x.frame), High(c))
    /\ Attr[x.id].trans = 270 => EitherEnd(High(x.frame), Wide(c))
SampledAlike == \A l \in Inputs : \A i \in DOMAIN l : l[i].dss \/ Even(l[i])

VARIABLES
  blt_mode,
  handle,   \* which of its two buffers holds a layer's newest content
  list,     \* the layers of the last frame
  drawn,    \* who drew its framebuffer: "blitter", "sgx" or "nobody"
  rgz,      \* grgz: the regionizer's state
  blit_num, \* how many commands the last frame had
  fb,       \* what the framebuffers show
  target    \* the framebuffer drawn last

vars == <<blt_mode, handle, list, drawn, rgz, blit_num, fb, target>>

\* RGZ_BACKGROUND_BUFFIDX, RGZ_CLEARHINT_BUFFIDX and the dummy handle of both.
BackgroundBuf == -2
ClearHintBuf == -1
Dummy == 2

Background == [id |-> "background", buf |-> BackgroundBuf, frame |-> ScreenRect,
               handle |-> Dummy, dirty |-> 0]

Released == [state |-> {}, cur |-> <<>>, idx |-> 0,
             states |-> [i \in 0 .. NumFb - 1 |-> <<>>]]

-----------------------------------------------------------------------------
(* rgz_in_hwccheck: which layers to blit, and what changed.                 *)

UsesSgx(l) == \E i \in DOMAIN l : ~l[i].dss
HasClearHint(x, l) == x.dss /\ ~Attr[x.id].premult /\ UsesSgx(l)

\* rgz_in_valid_hwc_layer
Blittable(x) ==
  /\ ~x.skip
  /\ Attr[x.id].fmt # "other"
  /\ Attr[x.id].flip => Attr[x.id].fmt = "NV12"

Candidates(l) == Chosen(l, {i \in DOMAIN l : ~l[i].dss \/ HasClearHint(l[i], l)})

\* Overlays' buffers come before those to blit.
Overlays(l) == Chosen(l, {i \in DOMAIN l : l[i].dss})

RgzLayers(l, h) ==
  LET c == Candidates(l)
      Buf(i) == Len(Overlays(l)) + Cardinality({j \in 1 .. i - 1 : ~c[j].dss})
      Layer(i) == [id |-> c[i].id, frame |-> c[i].frame, dirty |-> 0,
                   buf    |-> IF c[i].dss THEN ClearHintBuf ELSE Buf(i),
                   handle |-> IF c[i].dss THEN Dummy ELSE h[c[i].id]]
  IN  <<Background>> \o [i \in DOMAIN c |-> Layer(i)]

\* All candidates can be blitted, there is one, and there is room for them.
AllBlittable(l) ==
  LET c == Candidates(l) IN
  /\ c # <<>> /\ Len(c) <= InputMaxLayers
  /\ \A i \in DOMAIN c : ~c[i].dss => Blittable(c[i])

\* rgz_find_layer: the layers of that identity in a framebuffer's state, none or
\* one of them.  The background is not looked for.
Find(L, id) == {L[i] : i \in {j \in DOMAIN L : j > 1 /\ L[j].id = id}}

\* The layer as it was in the frame before, if it was there.
Previous(i, cur, prev) ==
  IF i > 1 THEN Find(prev, cur[i].id)
  ELSE IF prev = <<>> THEN {} ELSE {prev[1]}

\* rgz_has_layer_content_changed.  Transform and crop belong to the identity here.
ContentChanged(x, p) ==
  ~(x.buf = ClearHintBuf /\ p.buf = ClearHintBuf) /\ x.handle # p.handle

\* rgz_has_layer_frame_moved, from where the target framebuffer shows it.
Moved(x, tgt) == \E t \in Find(tgt, x.id) : t.frame # x.frame

MutDirtyCountOnce(i, cur, prev, tgt) ==
  LET p == Previous(i, cur, prev)
      last == CHOOSE q \in p : TRUE
  IN  IF ~(\E q \in p : ~ContentChanged(cur[i], q)) \/ (i > 1 /\ Moved(cur[i], tgt))
      THEN NumFb - 1 ELSE Greatest(0, last.dirty - 1)

DirtyCount(i, cur, prev, tgt) ==
  LET p == Previous(i, cur, prev)
      same == \E q \in p : ~ContentChanged(cur[i], q)
      last == CHOOSE q \in p : TRUE
  IN  IF ~same \/ (i > 1 /\ Moved(cur[i], tgt)) THEN NumFb
      ELSE Greatest(0, last.dirty - 1)

MutDamagedNoneLeft(cur, prev, tgt) ==
  Around({cur[i].frame : i \in {j \in DOMAIN cur :
    \/ Previous(j, cur, prev) = {}
    \/ j > 1 /\ (Find(tgt, cur[j].id) = {} \/ Moved(cur[j], tgt))}})

MutDamagedBackground(cur, prev, tgt) ==
  Around({cur[i].frame : i \in {j \in DOMAIN cur : Find(tgt, cur[j].id) = {}}})

\* What rgz_handle_dirty_region redraws whole: layers that are new, in the last
\* frame or to the target, both places of those that moved, and the places of
\* those that are gone from the target.
Damaged(cur, prev, tgt) ==
  LET changed == {i \in DOMAIN cur :
                    \/ Previous(i, cur, prev) = {}
                    \/ i > 1 /\ (Find(tgt, cur[i].id) = {} \/ Moved(cur[i], tgt))}
      left == {t \in 2 .. Len(tgt) :
                 \/ Find(cur, tgt[t].id) = {}
                 \/ \E i \in changed : /\ i > 1 /\ cur[i].id = tgt[t].id
                                        /\ Previous(i, cur, prev) # {}}
  IN  Around({cur[i].frame : i \in changed} \cup {tgt[t].frame : t \in left})

\* The damaged area of the next frame, of these layers.
DamagedArea(r, layers) ==
  Damaged(layers, r.states[r.idx], r.states[(r.idx + 1) % NumFb])

\* rgz_in_hwccheck with the layers it accepted.
Checked(r, layers) ==
  LET prev == r.states[r.idx]
      next == (r.idx + 1) % NumFb
      tgt  == r.states[next]
      cur  == [i \in DOMAIN layers |->
                 [layers[i] EXCEPT !.dirty = DirtyCount(i, layers, prev, tgt)]]
  IN  [r EXCEPT !.state = {"init"}, !.cur = cur, !.idx = next,
                !.states[next] = cur]

-----------------------------------------------------------------------------
(* rgz_out: the commands.                                                   *)

Opaque(x) == x.buf < 0 \/ ~Attr[x.id].premult \/ Attr[x.id].fmt = "RGBX"

\* get_layer_ops: in a subregion, the layers from the frontmost opaque one on.
LayerOps(h, sub) ==
  LET here == Meeting(h.layers, sub)
      base == {i \in DOMAIN here : Opaque(here[i])}
  IN  SubSeq(here, IF base = {} THEN 1 ELSE Max(base), Len(here))

Dirty(ops, sub, dmg) ==
  Intersects(dmg, sub) \/ \E i \in DOMAIN ops : ops[i].dirty > 0

CanBlendTogether(x, y) == ~Scaled(x) /\ ~Scaled(y) /\ ~IsNV12(x) /\ ~IsNV12(y)

\* The blend of at least two layers: the two at the back at once where possible.
BlendOps(ops, sub) ==
  LET first == IF CanBlendTogether(ops[2], ops[1])
               THEN <<BlendLayers(ops[2], ops[1], sub)>>
               ELSE <<CopyLayer(ops[1], sub), BlendLayer(ops[2], sub)>>
  IN  first \o [i \in 1 .. Len(ops) - 2 |-> BlendLayer(ops[i + 2], sub)]

\* rgz_hwc_subregion_blit; the background and a clear hint at the back are left
\* out where there is something in front of them.
SubregionBlits(h, sub, dmg) ==
  LET ops  == LayerOps(h, sub)
      over == IF ops[1].buf < 0 THEN Tail(ops) ELSE ops
  IN  CASE ~Dirty(ops, sub, dmg) -> <<>>
        [] Dirty(ops, sub, dmg) /\ over = <<>> -> <<Clear(sub)>>
        [] Dirty(ops, sub, dmg) /\ Len(over) = 1 -> <<CopyLayer(over[1], sub)>>
        [] OTHER -> BlendOps(over, sub)

\* rgz_out_region, with the horizontal regions hs.
RegionBlits(hs, dmg) ==
  LET Of(h) == LET subs == Subregions(h, dmg)
               IN  FlattenSeq([s \in DOMAIN subs |-> SubregionBlits(h, subs[s], dmg)])
  IN  FlattenSeq([i \in DOMAIN hs |-> Of(hs[i])])

\* rgz_hwc_layer_blit: a whole layer.
LayerBlit(x) ==
  IF Attr[x.id].premult THEN BlendLayer(x, x.frame) ELSE CopyLayer(x, x.frame)

\* rgz_out_bvcmd_paint
PaintBlits(r) ==
  <<Clear(ScreenRect)>>
    \o [i \in 1 .. Len(r.cur) - 1 |->
          LET x == r.cur[i + 1] IN
          IF x.buf = ClearHintBuf THEN Clear(ClipToScreen(x.frame)) ELSE LayerBlit(x)]

Regions(r, dmg) == IF blt_mode = "paint" THEN <<>> ELSE HRegions(r.cur, dmg)
Blits(hs, r, dmg) == IF blt_mode = "paint" THEN PaintBlits(r) ELSE RegionBlits(hs, dmg)

\* A region without a layer, not even the background, fails.
NoneEmpty(hs, dmg) ==
  \A i \in DOMAIN hs : LET subs == Subregions(hs[i], dmg) IN
    hs[i].layers # <<>> /\ \A s \in DOMAIN subs : LayerOps(hs[i], subs[s]) # <<>>

-----------------------------------------------------------------------------
(* The buffers handed to the kernel.                                        *)

\* out_hndls
BlitHandles(r) ==
  LET own == Chosen(r.cur, {i \in DOMAIN r.cur : r.cur[i].buf >= 0})
  IN  [i \in DOMAIN own |-> <<own[i].id, own[i].handle>>]

\* hwc_dev->buffers from 0 on: the framebuffer's place (without a buffer), the
\* overlays', and from bufoff on those to blit.
PreparedBuffers(r, l, h) ==
  LET o == Overlays(l)
      overlays == [i \in DOMAIN o |-> <<o[i].id, h[o[i].id]>>]
  IN  (IF o = <<>> THEN <<>> ELSE <<"framebuffer">> \o overlays) \o BlitHandles(r)

MutPostedBuffers(r, l, h) == PreparedBuffers(r, l, h)

\* hwc_set closes the gap.
PostedBuffers(r, l, h) ==
  LET b == PreparedBuffers(r, l, h) IN
  IF Overlays(l) # <<>> /\ BlitHandles(r) # <<>> THEN Tail(b) ELSE b

-----------------------------------------------------------------------------
(* A frame.                                                                 *)

\* The pixel of layer x's buffer that screen pixel p shows.
PixelOf(x, p) ==
  LET a == Attr[x.id]
      u == ((p[1] - x.frame.left) * (IF a.trans % 180 = 0 THEN Wide(a.crop) ELSE High(a.crop)))
             \div Wide(x.frame)
      v == ((p[2] - x.frame.top) * (IF a.trans % 180 = 0 THEN High(a.crop) ELSE Wide(a.crop)))
             \div High(x.frame)
      at == Unturned(Wide(a.crop), High(a.crop), a.trans, u, v)
  IN  <<a.crop.left + at[1], a.crop.top + at[2]>>

\* What the layers make of a pixel: those not covered by an opaque one.
Picture(l) ==
  LET c == Candidates(l)
      Covers(x) == x.dss \/ ~Attr[x.id].premult \/ ~HasAlpha(x.id)
      Seen(i, p) == /\ InRect(p, c[i].frame)
                    /\ \A j \in i + 1 .. Len(c) : InRect(p, c[j].frame) => ~Covers(c[j])
      AtPixel(p) ==
        LET own == Chosen(c, {i \in DOMAIN c : ~c[i].dss /\ Seen(i, p)})
        IN  [i \in DOMAIN own |-> Shown(own[i].id, PixelOf(own[i], p))]
  IN  [p \in Pixels |-> AtPixel(p)]
Pictures == [l \in Inputs |-> Picture(l)]

\* The layers in S have new content: what framebuffers show of them is old.
Aged(S) ==
  LET Old(x) == IF x.id \in S THEN [x EXCEPT !.new = FALSE] ELSE x
  IN  [f \in DOMAIN fb |-> [p \in Pixels |-> [i \in DOMAIN fb[f][p] |-> Old(fb[f][p][i])]]]

NextTarget == (target + 1) % NumFb

\* A layer that the target framebuffer was left with, and the one drawn last was
\* not, is where the target shows it.
NoneReturns(l) ==
  \A i \in DOMAIN l :
    Find(rgz.states[rgz.idx], l[i].id) = {} =>
      \A t \in Find(rgz.states[(rgz.idx + 1) % NumFb], l[i].id) : t.frame = l[i].frame

\* SurfaceFlinger passes layers l, those in S with a new buffer.
Passed(l, S) ==
  /\ S \subseteq {l[i].id : i \in DOMAIN l}
  /\ ~LayersReturn => NoneReturns(l)
  /\ list' = l
  /\ handle' = [i \in Ids |-> IF i \in S THEN 1 - handle[i] ELSE handle[i]]
  /\ UNCHANGED blt_mode

\* The state rgz_in starts from.
Before == IF blt_mode = "paint" THEN Released ELSE rgz

\* blit_layers succeeds and the blitter executes the commands in order.  There is
\* room for the tops and bottoms of all layers and the damaged area (rgz_in_hwc),
\* and the table of commands is not full.
BlitFrame(l, S) ==
  /\ Passed(l, S)
  /\ UsesSgx(l) /\ AllBlittable(l)
  /\ \E layers \in {RgzLayers(l, handle')} :
     \E r \in {Checked(Before, layers)}, dmg \in {DamagedArea(Before, layers)} :
     \E hs \in {Regions(r, dmg)} :
       /\ blt_mode = "region" => (Len(r.cur) + 1) * 2 <= SubregionMax
       /\ NoneEmpty(hs, dmg)
       /\ rgz' = [r EXCEPT !.state = IF blt_mode = "paint" THEN @ ELSE @ \cup {"regions"}]
       /\ \E cs \in {Blits(hs, r, dmg)} :
            /\ Len(cs) < MaxBlits
            /\ blit_num' = Len(cs)
            /\ fb' = [Aged(S) EXCEPT ![NextTarget] = [p \in Pixels |-> AfterBlits(cs, p, @[p])]]
  /\ target' = NextTarget
  /\ drawn' = "blitter"

\* blit_layers fails: it refused the layers, or the displays mirror or
\* SurfaceFlinger does not answer, which may be at any time.  SGX draws and the
\* regionizer is released.
SgxFrame(l, S) ==
  /\ Passed(l, S)
  /\ UsesSgx(l)
  /\ rgz' = Released /\ blit_num' = 0
  /\ fb' = [Aged(S) EXCEPT ![NextTarget] = Pictures[l]]
  /\ target' = NextTarget
  /\ drawn' = "sgx"

\* DSS shows all layers, or there is none: no framebuffer is used.
DssFrame(l, S) ==
  /\ Passed(l, S)
  /\ ~UsesSgx(l)
  /\ rgz' = Released /\ blit_num' = 0
  /\ fb' = Aged(S)
  /\ drawn' = "nobody"
  /\ UNCHANGED target

Init ==
  /\ blt_mode \in Modes
  /\ handle = [i \in Ids |-> 0]
  /\ list = <<>>
  /\ drawn = "nobody"
  /\ rgz = Released /\ blit_num = 0
  /\ fb = [i \in 0 .. NumFb - 1 |-> [p \in Pixels |-> <<>>]]
  /\ target = 0

Next ==
  \E l \in Inputs, S \in Updates :
    \/ BlitFrame(l, S)
    \/ SgxFrame(l, S)
    \/ DssFrame(l, S)

Spec == Init /\ [][Next]_vars

-----------------------------------------------------------------------------
\* After every frame the framebuffer it drew shows what the layers make of every
\* pixel: nothing from earlier frames, no old content, each layer turned, scaled,
\* cropped and clipped as asked.  The blitter redraws only the damaged area and
\* the layers that are dirty (rgz_handle_dirty_region), so what it leaves alone
\* must be right from two frames ago.
FrameShown == drawn # "nobody" => fb[target] = Pictures[list]

\* A layer whose old content is on the framebuffer to be drawn next is dirty, or
\* no longer passed: dirty counts last as long as there are framebuffers to
\* bring up to date (rgz_handle_dirty_region).
StaleIsDirty ==
  drawn = "blitter" /\ blt_mode = "region" =>
    \A i \in DOMAIN rgz.cur : rgz.cur[i].dirty = 0 =>
      \A p \in Pixels : \A k \in DOMAIN fb[NextTarget][p] :
        fb[NextTarget][p][k].id = rgz.cur[i].id => fb[NextTarget][p][k].new

\* The areas that may be damaged.
Areas == {Around(S) : S \in SUBSET UNION {Frames(l) : l \in Inputs}}

\* Whatever is damaged, the subregions cover every pixel of the screen once, and
\* each is either inside or outside of a layer and of the damaged area: the
\* commands of a subregion, decided for all of it, are right for each pixel.
RegionsTile ==
  drawn = "blitter" =>
    \A dmg \in Areas :
      LET hs == HRegions(rgz.cur, dmg)
          subs == FlattenSeq([i \in DOMAIN hs |-> Subregions(hs[i], dmg)])
      IN  \A p \in Pixels :
            LET around == {i \in DOMAIN subs : InRect(p, subs[i])} IN
            /\ Cardinality(around) = 1
            /\ \A i \in around, r \in Frames(rgz.cur) \cup {dmg} :
                 InRect(p, r) <=> Intersects(subs[i], r)

\* The loops that sort and drop duplicates leave the ascending coordinates, each
\* once, whatever edges coincide; and the arrays hold them all (rgz_in_hwc checks
\* the room for the tops and bottoms only).
SortsRight ==
  drawn = "blitter" =>
    \A dmg \in Areas : \A a \in {YArray(rgz.cur, dmg), XArray(rgz.cur, dmg)} :
      /\ SortUnique(a) = Ascending(Elements(a))
      /\ blt_mode = "region" => Len(a) <= SubregionMax

Inside(r, w, h) == r.left >= 0 /\ r.top >= 0 /\ r.right <= w /\ r.bottom <= h
InsideTurned(r, angle, w, h) == IF angle % 180 = 0 THEN Inside(r, w, h) ELSE Inside(r, h, w)
Readable(s) == InsideTurned(s.rect, s.angle, Attr[s.id].w, Attr[s.id].h)

\* No command writes outside of the screen or reads outside of a layer's buffer,
\* seen turned as the command says, even of layers that are partly off screen.
BlitsInBounds ==
  drawn = "blitter" =>
    \A dmg \in Areas : \A hs \in {Regions(rgz, dmg)} : NoneEmpty(hs, dmg) =>
      \A cs \in {Blits(hs, rgz, dmg)} : \A i \in DOMAIN cs :
        /\ InsideTurned(cs[i].clip, cs[i].angle, Width, Height)
        /\ \A k \in DOMAIN cs[i].src1 : Readable(cs[i].src1[k])
        /\ \A k \in DOMAIN cs[i].src2 : Readable(cs[i].src2[k])

\* The command's buffer index finds the layer's buffer among those posted, also
\* with overlays before them: rgz_in_hwccheck counts on hwc_set to close the gap
\* the framebuffer's place leaves.
BuffersMatch ==
  drawn = "blitter" =>
    \A i \in DOMAIN rgz.cur : rgz.cur[i].buf >= 0 =>
      LET b == PostedBuffers(rgz, list, handle) IN
      /\ rgz.cur[i].buf < Len(b)
      /\ b[rgz.cur[i].buf + 1] = <<rgz.cur[i].id, handle[rgz.cur[i].id]>>

Placed(L) == {<<x.id, x.frame, x.handle, x.buf>> : x \in Elements(L)}

\* A frame costs no blit when SurfaceFlinger passes the layers of the last one,
\* both framebuffers were left with these at these places, and none is to be
\* drawn again: dirty counts and damage run out on a still screen.
StillCostsNothing ==
  [][ /\ drawn = "blitter" /\ drawn' = "blitter" /\ blt_mode = "region"
      /\ list' = list /\ handle' = handle
      /\ Placed(rgz.states[0]) = Placed(rgz.states[1])
      /\ \A i \in DOMAIN rgz.cur : rgz.cur[i].dirty <= 1
      => blit_num' = 0 ]_vars

=============================================================================
