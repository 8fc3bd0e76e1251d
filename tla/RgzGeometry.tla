------------------------------ MODULE RgzGeometry ------------------------------
(***************************************************************************)
(* The rectangles of the regionizer (hwc/rgz_2d.c): cutting the screen into *)
(* regions, and the commands for the GC320 blitter, whose source or         *)
(* destination is turned by quarter circles.  A pixel is where its left top *)
(* corner is; right and bottom of a rectangle are outside of it.            *)
(***************************************************************************)
EXTENDS Integers, Sequences, FiniteSets, SequencesExt, RgzSort

CONSTANTS
  Width, Height,  \* of the screen
  Ids,            \* layer identities
  Attr            \* what a layer keeps while it lives; see Attributes

Degrees == {0, 90, 180, 270}

\* hwc_layer_1_t without what changes from frame to frame; "flip" is a single
\* flip, "w" and "h" are those of the layer's buffers.
Attributes == [fmt: {"RGBX", "RGBA", "NV12", "other"}, premult: BOOLEAN, trans: Degrees,
               flip: BOOLEAN, crop: [left: Nat, top: Nat, right: Nat, bottom: Nat],
               w: Nat \ {0}, h: Nat \ {0}]

ASSUME ScreenAssumption == {Width, Height} \subseteq Nat \ {0}
ASSUME AttrAssumption == DOMAIN Attr = Ids /\ \A i \in Ids : Attr[i] \in Attributes

\* The crop is an area of the buffer (hwcomposer.h, sourceCrop): rgz_2d.c relies
\* on SurfaceFlinger for it.
ASSUME CropAssumption ==
  \A i \in Ids : Attr[i].crop.right <= Attr[i].w /\ Attr[i].crop.bottom <= Attr[i].h

Rect(l, t, r, b) == [left |-> l, top |-> t, right |-> r, bottom |-> b]
Wide(r) == r.right - r.left
High(r) == r.bottom - r.top
Least(a, b) == IF a < b THEN a ELSE b
Greatest(a, b) == IF a > b THEN a ELSE b

ScreenRect == Rect(0, 0, Width, Height)
EmptyRect == Rect(0, 0, 0, 0)

Intersects(a, b) ==
  a.bottom > b.top /\ a.top < b.bottom /\ a.right > b.left /\ a.left < b.right

MutClipToScreen(r) ==
  Rect(Greatest(0, r.left), Greatest(0, r.top), r.right, r.bottom)

ClipToScreen(r) ==
  Rect(Greatest(0, r.left), Greatest(0, r.top), Least(Width, r.right), Least(Height, r.bottom))

\* What rgz_add_to_damaged_area makes of the frames added: the smallest rectangle
\* around what the screen shows of them.
Around(frames) ==
  LET on == {ClipToScreen(f) : f \in {g \in frames : Intersects(ScreenRect, g)}} IN
  IF on = {} THEN EmptyRect
  ELSE Rect(Min({r.left : r \in on}), Min({r.top : r \in on}),
            Max({r.right : r \in on}), Max({r.bottom : r \in on}))

\* What sorting an array and dropping duplicates leaves: see SortsRight.
Elements(a) == {a[i] : i \in DOMAIN a}
Ascending(S) ==
  [i \in 1 .. Cardinality(S) |-> CHOOSE x \in S : Cardinality({y \in S : y < x}) = i - 1]

\* The elements of s at the places in I, in their order: the loops that skip some.
Chosen(s, I) == [k \in 1 .. Cardinality(I) |-> s[Ascending(I)[k]]]
Meeting(L, r) == Chosen(L, {i \in DOMAIN L : Intersects(r, L[i].frame)})

-----------------------------------------------------------------------------
(* Regions.  L is the sequence of the frame's layers, from back to front,   *)
(* the first of them the background; dmg is the damaged area.               *)

Frames(L) == {L[i].frame : i \in DOMAIN L}

\* The tops and bottoms, as rgz_in_hwc collects them, and the lefts and rights of
\* rgz_gen_blitregions.
YArray(L, dmg) ==
  <<dmg.top, dmg.bottom>>
    \o FlattenSeq([i \in DOMAIN L |-> <<Greatest(0, L[i].frame.top), Least(L[i].frame.bottom, Height)>>])
XArray(L, dmg) ==
  <<dmg.left, dmg.right>>
    \o FlattenSeq([i \in DOMAIN L |-> <<Greatest(0, L[i].frame.left), Least(L[i].frame.right, Width)>>])

\* A horizontal region: its rectangle and the layers it meets.
HRegions(L, dmg) ==
  LET ys    == Ascending(Elements(YArray(L, dmg)))
      right == Least(Width, Max({f.right : f \in Frames(L) \cup {dmg}}))
      Region(i) == Rect(0, ys[i], right, ys[i + 1])
  IN  [i \in 1 .. Len(ys) - 1 |->
         [rect   |-> Region(i),
          layers |-> Meeting(L, Region(i))]]

MutSubregions(h, dmg) ==
  LET xs == Ascending(Elements(XArray(h.layers, EmptyRect)))
  IN  [i \in 1 .. Len(xs) - 1 |-> Rect(xs[i], h.rect.top, xs[i + 1], h.rect.bottom)]

\* rgz_gen_blitregions: the subregions of a horizontal region, from the left.
Subregions(h, dmg) ==
  LET xs == Ascending(Elements(XArray(h.layers, dmg)))
  IN  [i \in 1 .. Len(xs) - 1 |-> Rect(xs[i], h.rect.top, xs[i + 1], h.rect.bottom)]

-----------------------------------------------------------------------------
(* Turned views.                                                            *)

\* The rectangle "inner" of "outer" as seen when outer is turned clockwise.
RotatedView(outer, inner, angle) ==
  LET dt == inner.top - outer.top
      dl == inner.left - outer.left
      a  == angle % 360
      left == CASE a = 0   -> dl
                [] a = 180 -> Wide(outer) - Wide(inner) - dl
                [] a = 90  -> High(outer) - High(inner) - dt
                [] a = 270 -> dt
      top  == CASE a = 0   -> dt
                [] a = 180 -> High(outer) - High(inner) - dt
                [] a = 90  -> dl
                [] a = 270 -> Wide(outer) - Wide(inner) - dl
      turned == a % 180 # 0
  IN  Rect(left, top, left + (IF turned THEN High(inner) ELSE Wide(inner)),
                      top  + (IF turned THEN Wide(inner) ELSE High(inner)))

Shifted(r, dx, dy) == Rect(r.left + dx, r.top + dy, r.right + dx, r.bottom + dy)

\* rgz_hwc_scaled
Scaled(x) ==
  LET a == Attr[x.id]
      turned == a.trans % 180 # 0
  IN  \/ Wide(x.frame) # (IF turned THEN High(a.crop) ELSE Wide(a.crop))
      \/ High(x.frame) # (IF turned THEN Wide(a.crop) ELSE High(a.crop))

\* rgz_get_src_rect: of a scaled layer all, and the clipping rectangle selects.
SrcRect(x, sub) ==
  LET a == Attr[x.id] IN
  IF Scaled(x) THEN a.crop
  ELSE Shifted(RotatedView(x.frame, sub, 0 - a.trans), a.crop.left, a.crop.top)

\* rgz_set_src_data: the source as the blitter is told of it.
Source(x, sub, angle) ==
  LET r == SrcRect(x, sub) IN
  [buf |-> x.buf, id |-> x.id, angle |-> angle,
   rect |-> IF angle = 0 THEN r ELSE RotatedView(Rect(0, 0, Attr[x.id].w, Attr[x.id].h), r, angle)]

IsNV12(x) == Attr[x.id].fmt = "NV12"

\* What a copy and a blend of layer x into rectangle sub have in common.  An NV12
\* layer is not turned: the framebuffer is, the other way.
Entry(op, x, sub) ==
  LET a     == Attr[x.id]
      whole == IF Scaled(x) THEN x.frame ELSE sub
      dst   == IF IsNV12(x) THEN 360 - a.trans ELSE 0
  IN  [op   |-> op, angle |-> dst,
       src1 |-> <<Source(x, whole, IF IsNV12(x) THEN 0 ELSE a.trans)>>,
       src2 |-> <<>>,
       dst  |-> IF dst = 0 THEN whole ELSE RotatedView(ScreenRect, whole, dst),
       clip |-> IF dst = 0 THEN ClipToScreen(sub)
                ELSE RotatedView(ScreenRect, ClipToScreen(sub), dst)]

CopyLayer(x, sub) == Entry("copy", x, sub)

\* Blends x over what is in the framebuffer.
BlendLayer(x, sub) == Entry("blend", x, sub)

\* Blends x over y, which the framebuffer then shows.
BlendLayers(x, y, sub) ==
  [Entry("blend", x, sub) EXCEPT !.src2 = <<Source(y, sub, Attr[y.id].trans)>>]

Clear(sub) == [op |-> "clear", angle |-> 0, src1 |-> <<>>, src2 |-> <<>>,
               dst |-> sub, clip |-> ClipToScreen(sub)]

-----------------------------------------------------------------------------
(* The blitter, outside of src/: what a command does to the framebuffer.    *)

\* The pixel seen at (x, y) of a w by h surface that is turned.
Unturned(w, h, angle, x, y) ==
  CASE angle % 360 = 0   -> <<x, y>>
    [] angle % 360 = 90  -> <<y, h - 1 - x>>
    [] angle % 360 = 180 -> <<w - 1 - x, h - 1 - y>>
    [] angle % 360 = 270 -> <<w - 1 - y, x>>

Pixels == (0 .. Width - 1) \X (0 .. Height - 1)

\* A framebuffer pixel is the stack of what was blended there, each of them a
\* pixel of a layer's buffer and whether it is the layer's newest content.
Shown(id, p) == [id |-> id, at |-> p, new |-> TRUE]

\* Nearest sampling: what source s gives to offset (u, v) of the destination.
Sample(s, dst, u, v) ==
  Shown(s.id, Unturned(Attr[s.id].w, Attr[s.id].h, s.angle,
                       s.rect.left + (u * Wide(s.rect)) \div Wide(dst),
                       s.rect.top + (v * High(s.rect)) \div High(dst)))

HasAlpha(id) == Attr[id].fmt = "RGBA"

\* What command e leaves at pixel p, seen turned at q, where "was" was.
Blended(e, q, was) ==
  LET u == q[1] - e.dst.left
      v == q[2] - e.dst.top
      top == Sample(e.src1[1], e.dst, u, v)
  IN  CASE e.op = "clear" -> <<>>
        [] e.op = "copy" \/ (e.op = "blend" /\ ~HasAlpha(top.id)) -> <<top>>
        [] OTHER -> (IF e.src2 = <<>> THEN was
                     ELSE <<Sample(e.src2[1], e.dst, u, v)>>) \o <<top>>

InRect(q, r) == q[1] >= r.left /\ q[1] < r.right /\ q[2] >= r.top /\ q[2] < r.bottom

\* What commands cs, in this order, make of pixel p, which showed "was".
AfterBlits(cs, p, was) ==
  LET Seen(e) == RotatedView(ScreenRect, Rect(p[1], p[2], p[1] + 1, p[2] + 1), e.angle)
      At(e)   == <<Seen(e).left, Seen(e).top>>
      after[n \in 0 .. Len(cs)] ==
        IF n = 0 THEN was
        ELSE LET q == At(cs[n]) IN
             IF InRect(q, cs[n].clip) /\ InRect(q, cs[n].dst)
             THEN Blended(cs[n], q, after[n - 1]) ELSE after[n - 1]
  IN  after[Len(cs)]

=============================================================================
