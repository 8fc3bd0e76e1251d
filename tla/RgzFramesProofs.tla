--------------------------- MODULE RgzFramesProofs ---------------------------
(***************************************************************************)
(* Theorems of Regionizer about what the framebuffers show from frame to    *)
(* frame: every pixel is what the layers make of it, redrawn or left alone. *)
(*                                                                         *)
(* RegionizerProofs has what concerns one frame, its regions and commands.  *)
(***************************************************************************)
EXTENDS RegionizerProofs

-----------------------------------------------------------------------------
(* What commands make of a pixel.                                           *)

\* Pixel p as a command sees it whose destination is turned, whether the command
\* writes it, and what it leaves there.
At(p, angle) ==
  LET seen == RotatedView(ScreenRect, Rect(p[1], p[2], p[1] + 1, p[2] + 1), angle)
  IN  <<seen.left, seen.top>>
Reaches(e, p) == InRect(At(p, e.angle), e.clip) /\ InRect(At(p, e.angle), e.dst)
Step(e, p, was) == IF Reaches(e, p) THEN Blended(e, At(p, e.angle), was) ELSE was

\* What the pixel shows after each of the commands.
Runs(f, cs, p, was) ==
  f[0] = was /\ \A k \in 1 .. Len(cs) : f[k] = Step(cs[k], p, f[k - 1])

\* AfterBlits is the end of the one run of the commands.
LEMMA OneRun ==
  ASSUME NEW cs, Len(cs) \in Nat, NEW p, NEW was
  PROVE  /\ \E f : Runs(f, cs, p, was)
         /\ \A f : Runs(f, cs, p, was) => AfterBlits(cs, p, was) = f[Len(cs)]
<1> DEFINE n == Len(cs)
           F(f) == [k \in 0 .. n |-> IF k = 0 THEN was ELSE Step(cs[k], p, f[k - 1])]
           R(f, m) == f[0] = was /\ \A k \in 1 .. m : f[k] = Step(cs[k], p, f[k - 1])
           T == {m \in 0 .. n : \E f : R(f, m)}
<1>1. 0 \in T
  <2> DEFINE f == [k \in 0 .. 0 |-> was]
  <2>1. f[0] = was /\ \A k \in 1 .. 0 : FALSE
    OBVIOUS
  <2> HIDE DEF f
  <2>2. R(f, 0)
    BY <2>1
  <2> QED
    BY <2>2
<1>2. ASSUME NEW m \in 1 .. n, m - 1 \in T
      PROVE  m \in T
  <2>1. PICK f : R(f, m - 1)
    BY <1>2
  <2> DEFINE g == [k \in 0 .. m |-> IF k = m THEN Step(cs[m], p, f[m - 1]) ELSE f[k]]
  <2>2. \A k \in 0 .. m - 1 : g[k] = f[k]
    OBVIOUS
  <2>3. g[m] = Step(cs[m], p, f[m - 1])
    OBVIOUS
  <2> HIDE DEF g
  <2>4. g[0] = was
    BY <2>1, <2>2
  <2>5. ASSUME NEW k \in 1 .. m
        PROVE  g[k] = Step(cs[k], p, g[k - 1])
    <3>1. k - 1 \in 0 .. m - 1 /\ g[k - 1] = f[k - 1]
      BY <2>2
    <3>2. CASE k = m
      BY <2>3, <3>1, <3>2
    <3>3. CASE k # m
      <4>1. k \in 1 .. m - 1 /\ k \in 0 .. m - 1
        BY <3>3
      <4>2. f[k] = Step(cs[k], p, f[k - 1])
        BY <2>1, <4>1
      <4> QED
        BY <2>2, <3>1, <4>1, <4>2
    <3> QED
      BY <3>2, <3>3
  <2>6. R(g, m)
    BY <2>4, <2>5
  <2> QED
    BY <2>6
<1>3. PICK f : R(f, n)
  <2>1. \A m \in 0 .. n : m \in T
    <3> HIDE DEF T
    <3> QED
      BY <1>1, <1>2, UpTo
  <2>2. n \in T
    <3> HIDE DEF T
    <3> QED
      BY <2>1
  <2> QED
    BY <2>2
<1>4. \E g : g = F(g)
  <2> DEFINE g == [k \in 0 .. n |-> f[k]]
  <2>1. ASSUME NEW k \in 0 .. n
        PROVE  g[k] = IF k = 0 THEN was ELSE Step(cs[k], p, g[k - 1])
    <3>1. CASE k = 0
      BY <1>3, <3>1
    <3>2. CASE k # 0
      <4>1. k \in 1 .. n /\ k - 1 \in 0 .. n
        BY <3>2
      <4> QED
        BY <1>3, <3>2, <4>1
    <3> QED
      BY <3>1, <3>2
  <2> QED
    BY <2>1
<1> DEFINE after == CHOOSE g : g = F(g)
<1>5. after = F(after)
  <2> HIDE DEF F
  <2> QED
    BY <1>4
<1>6. AfterBlits(cs, p, was) = after[n]
  BY DEF AfterBlits, Step, Reaches, At
<1> HIDE DEF after
<1>7. ASSUME NEW h, Runs(h, cs, p, was)
      PROVE  AfterBlits(cs, p, was) = h[n]
  <2> DEFINE U == {k \in 0 .. n : after[k] = h[k]}
  <2>1. 0 \in U
    BY <1>5, <1>7 DEF Runs
  <2>2. ASSUME NEW k \in 1 .. n, k - 1 \in U
        PROVE  k \in U
    <3>1. k \in 0 .. n /\ k # 0 /\ after[k - 1] = h[k - 1]
      BY <2>2
    <3>2. after[k] = Step(cs[k], p, after[k - 1])
      BY <1>5, <3>1
    <3>3. h[k] = Step(cs[k], p, h[k - 1])
      BY <1>7 DEF Runs
    <3> QED
      BY <3>1, <3>2, <3>3
  <2>3. \A k \in 0 .. n : k \in U
    <3> HIDE DEF U
    <3> QED
      BY <2>1, <2>2, UpTo
  <2> QED
    BY <1>6, <2>3
<1>8. \E g : Runs(g, cs, p, was)
  BY <1>3 DEF Runs
<1> QED
  BY <1>7, <1>8

\* If only the commands cs[a + 1] to cs[a + m] write a pixel, they alone decide it.
LEMMA OnlyThese ==
  ASSUME NEW cs, NEW t, Len(cs) \in Nat, Len(t) \in Nat, NEW p, NEW was,
         NEW a \in Nat, a + Len(t) <= Len(cs),
         \A k \in 1 .. Len(t) : cs[a + k] = t[k],
         \A j \in 1 .. Len(cs) : j <= a \/ j > a + Len(t) => ~Reaches(cs[j], p)
  PROVE  AfterBlits(cs, p, was) = AfterBlits(t, p, was)
<1> DEFINE n == Len(cs)
           m == Len(t)
<1>1. PICK f : Runs(f, cs, p, was)
  BY OneRun
<1>2. PICK g : Runs(g, t, p, was)
  BY OneRun
<1>3. /\ f[0] = was /\ \A k \in 1 .. n : f[k] = Step(cs[k], p, f[k - 1])
      /\ g[0] = was /\ \A k \in 1 .. m : g[k] = Step(t[k], p, g[k - 1])
  BY <1>1, <1>2 DEF Runs
<1> DEFINE Now(k) == IF k <= a THEN was ELSE IF k <= a + m THEN g[k - a] ELSE g[m]
           U == {k \in 0 .. n : f[k] = Now(k)}
<1>4. 0 \in U
  BY <1>3
<1>5. ASSUME NEW k \in 1 .. n, k - 1 \in U
      PROVE  k \in U
  <2>1. k \in 0 .. n /\ f[k - 1] = Now(k - 1) /\ f[k] = Step(cs[k], p, f[k - 1])
    BY <1>3, <1>5
  <2>2. CASE k <= a
    <3>1. f[k] = f[k - 1]
      BY <2>1, <2>2 DEF Step
    <3> QED
      BY <2>1, <2>2, <3>1
  <2>3. CASE k > a + m
    <3>1. f[k] = f[k - 1]
      BY <2>1, <2>3 DEF Step
    <3>2. Now(k) = g[m]
      BY <2>3
    <3>3. Now(k - 1) = g[m]
      <4>1. CASE k - 1 <= a
        <5>1. m = 0 /\ g[m] = was
          BY <1>3, <2>3, <4>1
        <5> QED
          BY <4>1, <5>1
      <4>2. CASE k - 1 > a /\ k - 1 <= a + m
        <5>1. k - 1 - a = m
          BY <2>3, <4>2
        <5> QED
          BY <4>2, <5>1
      <4>3. CASE k - 1 > a + m
        BY <4>3
      <4> QED
        BY <4>1, <4>2, <4>3
    <3> QED
      BY <2>1, <3>1, <3>2, <3>3
  <2>4. CASE k > a /\ k <= a + m
    <3>1. k - a \in 1 .. m /\ a + (k - a) = k
      BY <2>4
    <3>2. cs[k] = t[k - a]
      BY <3>1
    <3>3. Now(k - 1) = g[k - a - 1]
      <4>1. CASE k - 1 <= a
        <5>1. k - a - 1 = 0
          BY <2>4, <4>1
        <5> QED
          BY <1>3, <4>1, <5>1
      <4>2. CASE k - 1 > a
        <5>1. k - 1 <= a + m /\ k - 1 - a = k - a - 1
          BY <2>4
        <5> QED
          BY <4>2, <5>1
      <4> QED
        BY <4>1, <4>2
    <3>4. g[k - a] = Step(t[k - a], p, g[k - a - 1])
      BY <1>3, <3>1
    <3>5. Now(k) = g[k - a]
      BY <2>4
    <3> QED
      BY <2>1, <3>2, <3>3, <3>4, <3>5
  <2> QED
    BY <2>2, <2>3, <2>4
<1>6. \A k \in 0 .. n : k \in U
  <2> HIDE DEF U
  <2> QED
    BY <1>4, <1>5, UpTo
<1>7. f[n] = Now(n)
  BY <1>6
<1>8. Now(n) = g[m]
  <2>1. CASE n <= a
    <3>1. m = 0
      BY <2>1
    <3> QED
      BY <1>3, <2>1, <3>1
  <2>2. CASE n > a /\ n <= a + m
    <3>1. n - a = m
      BY <2>2
    <3> QED
      BY <2>2, <3>1
  <2>3. CASE n > a + m
    BY <2>3
  <2> QED
    BY <2>1, <2>2, <2>3
<1>9. AfterBlits(cs, p, was) = f[n] /\ AfterBlits(t, p, was) = g[m]
  BY <1>1, <1>2, OneRun
<1> QED
  BY <1>7, <1>8, <1>9

\* A pixel is inside of a rectangle exactly if it is when both are turned.
LEMMA TurnedPixel ==
  ASSUME NEW p \in Pixels, NEW r \in IntRect, NEW a \in Degrees \cup {360}
  PROVE  InRect(At(p, a), RotatedView(ScreenRect, r, a)) <=> InRect(p, r)
<1> DEFINE x == p[1]
           y == p[2]
           one == Rect(x, y, x + 1, y + 1)
           v == RotatedView(ScreenRect, r, a)
           q == At(p, a)
           u == RotatedView(ScreenRect, one, a)
<1>1. /\ r.left \in Int /\ r.top \in Int /\ r.right \in Int /\ r.bottom \in Int
      /\ x \in Int /\ y \in Int /\ Width \in Int /\ Height \in Int
  BY Screen DEF IntRect, Pixels
<1>2. ScreenRect.left = 0 /\ ScreenRect.top = 0 /\ Wide(ScreenRect) = Width /\ High(ScreenRect) = Height
  BY <1>1 DEF ScreenRect, Rect, Wide, High
<1>3. /\ Wide(r) = r.right - r.left /\ High(r) = r.bottom - r.top
      /\ Wide(one) = 1 /\ High(one) = 1 /\ one.left = x /\ one.top = y
  BY <1>1 DEF Wide, High, Rect
<1>4. q = <<u.left, u.top>>
  BY DEF At
<1>5. InRect(p, r) <=> x >= r.left /\ x < r.right /\ y >= r.top /\ y < r.bottom
  BY DEF InRect
<1> DEFINE w == r.right - r.left
           h == r.bottom - r.top
<1> HIDE DEF x, y, one
<1>6. ASSUME a = 0 \/ a = 360
      PROVE  InRect(q, v) <=> InRect(p, r)
  <2>1. a % 360 = 0 /\ a % 180 = 0
    BY <1>6
  <2>2. v = Rect(r.left - 0, r.top - 0, (r.left - 0) + w, (r.top - 0) + h)
    BY <1>1, <1>2, <1>3, <2>1 DEF RotatedView
  <2>3. u.left = x - 0 /\ u.top = y - 0
    BY <1>1, <1>2, <1>3, <2>1 DEF RotatedView, Rect
  <2>4. q[1] = x /\ q[2] = y
    BY <1>1, <1>4, <2>3
  <2> HIDE DEF v, q
  <2> QED
    BY <1>1, <1>5, <2>2, <2>4 DEF InRect, Rect
<1>7. ASSUME a = 180
      PROVE  InRect(q, v) <=> InRect(p, r)
  <2>1. a % 360 = 180 /\ a % 180 = 0
    BY <1>7
  <2>2. v = Rect(Width - w - (r.left - 0), Height - h - (r.top - 0),
                 (Width - w - (r.left - 0)) + w, (Height - h - (r.top - 0)) + h)
    BY <1>1, <1>2, <1>3, <2>1 DEF RotatedView
  <2>3. u.left = Width - 1 - (x - 0) /\ u.top = Height - 1 - (y - 0)
    BY <1>1, <1>2, <1>3, <2>1 DEF RotatedView, Rect
  <2>4. q[1] = Width - 1 - x /\ q[2] = Height - 1 - y
    BY <1>1, <1>4, <2>3
  <2> HIDE DEF v, q
  <2> QED
    BY <1>1, <1>5, <2>2, <2>4 DEF InRect, Rect
<1>8. ASSUME a = 90
      PROVE  InRect(q, v) <=> InRect(p, r)
  <2>1. a % 360 = 90 /\ a % 180 # 0
    BY <1>8
  <2>2. v = Rect(Height - h - (r.top - 0), r.left - 0,
                 (Height - h - (r.top - 0)) + h, (r.left - 0) + w)
    BY <1>1, <1>2, <1>3, <2>1 DEF RotatedView
  <2>3. u.left = Height - 1 - (y - 0) /\ u.top = x - 0
    BY <1>1, <1>2, <1>3, <2>1 DEF RotatedView, Rect
  <2>4. q[1] = Height - 1 - y /\ q[2] = x
    BY <1>1, <1>4, <2>3
  <2> HIDE DEF v, q
  <2> QED
    BY <1>1, <1>5, <2>2, <2>4 DEF InRect, Rect
<1>9. ASSUME a = 270
      PROVE  InRect(q, v) <=> InRect(p, r)
  <2>1. a % 360 = 270 /\ a % 180 # 0
    BY <1>9
  <2>2. v = Rect(r.top - 0, Width - w - (r.left - 0), (r.top - 0) + h, (Width - w - (r.left - 0)) + w)
    BY <1>1, <1>2, <1>3, <2>1 DEF RotatedView
  <2>3. u.left = y - 0 /\ u.top = Width - 1 - (x - 0)
    BY <1>1, <1>2, <1>3, <2>1 DEF RotatedView, Rect
  <2>4. q[1] = y /\ q[2] = Width - 1 - x
    BY <1>1, <1>4, <2>3
  <2> HIDE DEF v, q
  <2> QED
    BY <1>1, <1>5, <2>2, <2>4 DEF InRect, Rect
<1> QED
  BY <1>6, <1>7, <1>8, <1>9 DEF Degrees

\* Without a turn a pixel is seen where it is.
LEMMA NotTurned ==
  ASSUME NEW p \in Pixels, NEW r
  PROVE  InRect(At(p, 0), r) <=> InRect(p, r)
<1> DEFINE x == p[1]
           y == p[2]
           one == Rect(x, y, x + 1, y + 1)
           u == RotatedView(ScreenRect, one, 0)
<1>1. x \in Int /\ y \in Int
  BY Screen DEF Pixels
<1>2. ScreenRect.left = 0 /\ ScreenRect.top = 0 /\ one.left = x /\ one.top = y
  BY DEF ScreenRect, Rect
<1> HIDE DEF x, y, one
<1>3. 0 % 360 = 0
  OBVIOUS
<1>4. u.left = x - 0 /\ u.top = y - 0
  BY <1>1, <1>2, <1>3 DEF RotatedView, Rect
<1>5. At(p, 0) = <<u.left, u.top>>
  BY DEF At, x, y, one
<1>6. At(p, 0)[1] = x /\ At(p, 0)[2] = y
  BY <1>1, <1>4, <1>5
<1> QED
  BY <1>6 DEF InRect, x, y

\* A pixel of the screen is in a clipped rectangle if it is in the rectangle.
LEMMA ClippedPixel ==
  ASSUME NEW p \in Pixels, NEW sub \in IntRect
  PROVE  ClipToScreen(sub) \in IntRect /\ (InRect(p, ClipToScreen(sub)) <=> InRect(p, sub))
<1> DEFINE c == ClipToScreen(sub)
<1>1. sub.left \in Int /\ sub.top \in Int /\ sub.right \in Int /\ sub.bottom \in Int
  BY DEF IntRect
<1>2. p[1] \in 0 .. Width - 1 /\ p[2] \in 0 .. Height - 1
  BY DEF Pixels
<1>3. c = Rect(Greatest(0, sub.left), Greatest(0, sub.top), Least(Width, sub.right), Least(Height, sub.bottom))
  BY DEF ClipToScreen
<1>4. /\ c.left = Greatest(0, sub.left) /\ c.top = Greatest(0, sub.top)
      /\ c.right = Least(Width, sub.right) /\ c.bottom = Least(Height, sub.bottom)
  BY <1>3 DEF Rect
<1>5. /\ Greatest(0, sub.left) \in Int /\ Greatest(0, sub.top) \in Int
      /\ Least(Width, sub.right) \in Int /\ Least(Height, sub.bottom) \in Int
      /\ p[1] >= Greatest(0, sub.left) <=> p[1] >= sub.left
      /\ p[2] >= Greatest(0, sub.top) <=> p[2] >= sub.top
      /\ p[1] < Least(Width, sub.right) <=> p[1] < sub.right
      /\ p[2] < Least(Height, sub.bottom) <=> p[2] < sub.bottom
  BY <1>1, <1>2, Screen DEF Greatest, Least
<1>6. c \in IntRect
  BY <1>3, <1>5 DEF IntRect, Rect
<1> HIDE DEF c
<1>7. InRect(p, c) <=> InRect(p, sub)
  BY <1>4, <1>5 DEF InRect
<1> QED
  BY <1>6, <1>7 DEF c

\* A pixel of an area inside of another is a pixel of the other.
LEMMA WithinHolds ==
  ASSUME NEW p \in Pixels, NEW sub \in IntRect, NEW r \in IntRect, Within(sub, r), InRect(p, sub)
  PROVE  InRect(p, r)
<1>1. /\ sub.left \in Int /\ sub.top \in Int /\ sub.right \in Int /\ sub.bottom \in Int
      /\ r.left \in Int /\ r.top \in Int /\ r.right \in Int /\ r.bottom \in Int
  BY DEF IntRect
<1>2. p[1] \in Int /\ p[2] \in Int
  BY Screen DEF Pixels
<1> QED
  BY <1>1, <1>2 DEF Within, InRect

\* A command for a layer that covers the subregion writes the subregion's pixels.
LEMMA EntryReaches ==
  ASSUME NEW p \in Pixels, NEW sub \in IntRect, NEW x, Covering(x, sub), NEW op
  PROVE  Reaches(Entry(op, x, sub), p) <=> InRect(p, sub)
<1> DEFINE e == Entry(op, x, sub)
           c == ClipToScreen(sub)
           a == EntryAngle(x)
           whole == IF Scaled(x) THEN x.frame ELSE sub
<1>1. x \in RgzLayer /\ x.id \in Ids /\ Within(sub, x.frame) /\ x.frame \in IntRect
  BY DEF Covering, RgzLayer
<1>2. a \in Degrees \cup {360}
  <2>1. Attr[x.id].trans \in Degrees
    BY <1>1, AttrRight
  <2> QED
    BY <2>1 DEF Degrees, EntryAngle
<1>3. whole \in IntRect /\ (InRect(p, sub) => InRect(p, whole))
  BY <1>1, WithinHolds
<1>4. /\ e.angle = a
      /\ e.clip = IF a = 0 THEN c ELSE RotatedView(ScreenRect, c, a)
      /\ e.dst = IF a = 0 THEN whole ELSE RotatedView(ScreenRect, whole, a)
  BY DEF Entry, EntryAngle
<1>7. c \in IntRect /\ (InRect(p, c) <=> InRect(p, sub))
  BY ClippedPixel
<1> HIDE DEF e, a, whole, c
<1>5. CASE a = 0
  <2>1. e.clip = c /\ e.dst = whole /\ e.angle = 0
    BY <1>4, <1>5
  <2>2. /\ InRect(At(p, 0), c) <=> InRect(p, c)
        /\ InRect(At(p, 0), whole) <=> InRect(p, whole)
    BY NotTurned
  <2> QED
    BY <1>3, <1>7, <2>1, <2>2 DEF Reaches, e
<1>6. CASE a # 0
  <2>1. e.clip = RotatedView(ScreenRect, c, a) /\ e.dst = RotatedView(ScreenRect, whole, a) /\ e.angle = a
    BY <1>4, <1>6
  <2>2. /\ InRect(At(p, a), RotatedView(ScreenRect, c, a)) <=> InRect(p, c)
        /\ InRect(At(p, a), RotatedView(ScreenRect, whole, a)) <=> InRect(p, whole)
    BY <1>1, <1>2, <1>3, <1>7, TurnedPixel
  <2> QED
    BY <1>3, <1>7, <2>1, <2>2 DEF Reaches, e
<1> QED
  BY <1>5, <1>6

\* A clear and a blend of two layers write the subregion's pixels.
LEMMA OthersReach ==
  ASSUME NEW p \in Pixels, NEW sub \in IntRect
  PROVE  /\ Reaches(Clear(sub), p) <=> InRect(p, sub)
         /\ \A x, y : Covering(x, sub) => (Reaches(BlendLayers(x, y, sub), p) <=> InRect(p, sub))
<1>1. Clear(sub).clip = ClipToScreen(sub) /\ Clear(sub).dst = sub /\ Clear(sub).angle = 0
  BY DEF Clear
<1>2. /\ InRect(At(p, 0), sub) <=> InRect(p, sub)
      /\ InRect(At(p, 0), ClipToScreen(sub)) <=> InRect(p, sub)
  BY NotTurned, ClippedPixel
<1>3. Reaches(Clear(sub), p) <=> InRect(p, sub)
  BY <1>1, <1>2 DEF Reaches
<1>4. ASSUME NEW x, NEW y, Covering(x, sub)
      PROVE  Reaches(BlendLayers(x, y, sub), p) <=> InRect(p, sub)
  <2> DEFINE e == Entry("blend", x, sub)
             b == BlendLayers(x, y, sub)
  <2>1. b.angle = e.angle /\ b.clip = e.clip /\ b.dst = e.dst
    BY DEF BlendLayers, Entry
  <2>2. Reaches(e, p) <=> InRect(p, sub)
    BY <1>4, EntryReaches
  <2> HIDE DEF e, b
  <2>3. Reaches(b, p) <=> Reaches(e, p)
    BY <2>1 DEF Reaches
  <2> QED
    BY <2>2, <2>3 DEF b
<1> QED
  BY <1>3, <1>4

-----------------------------------------------------------------------------
(* What a command reads of its layer.                                      *)

\* v is where a rectangle of size rw by rh starts that is (dl, dt) from the left top of
\* one of ow by oh, when that is turned by b, and its size then.
ViewOf(v, ow, oh, rw, rh, dl, dt, b) ==
  /\ b = 0 => v.left = dl /\ v.top = dt /\ Wide(v) = rw /\ High(v) = rh
  /\ b = 90 => v.left = oh - rh - dt /\ v.top = dl /\ Wide(v) = rh /\ High(v) = rw
  /\ b = 180 => v.left = ow - rw - dl /\ v.top = oh - rh - dt /\ Wide(v) = rw /\ High(v) = rh
  /\ b = 270 => v.left = dt /\ v.top = ow - rw - dl /\ Wide(v) = rh /\ High(v) = rw

\* Where a rectangle is in a turned view.
LEMMA ViewRight ==
  ASSUME NEW o, NEW r, NEW a \in Int,
         o.left \in Int, o.top \in Int, o.right \in Int, o.bottom \in Int,
         r.left \in Int, r.top \in Int, r.right \in Int, r.bottom \in Int
  PROVE  ViewOf(RotatedView(o, r, a), Wide(o), High(o), Wide(r), High(r),
              r.left - o.left, r.top - o.top, a % 360)
<1> DEFINE ow == o.right - o.left
           oh == o.bottom - o.top
           rw == r.right - r.left
           rh == r.bottom - r.top
           dl == r.left - o.left
           dt == r.top - o.top
           b == a % 360
           v == RotatedView(o, r, a)
<1>1. Wide(o) = ow /\ High(o) = oh /\ Wide(r) = rw /\ High(r) = rh
  BY DEF Wide, High
<1>2. ow \in Int /\ oh \in Int /\ rw \in Int /\ rh \in Int /\ dl \in Int /\ dt \in Int /\ b \in Int
  OBVIOUS
<1>3. v = LET left == CASE b = 0 -> dl [] b = 180 -> ow - rw - dl [] b = 90 -> oh - rh - dt [] b = 270 -> dt
              top == CASE b = 0 -> dt [] b = 180 -> oh - rh - dt [] b = 90 -> dl [] b = 270 -> ow - rw - dl
              turned == b % 180 # 0
          IN  Rect(left, top, left + (IF turned THEN rh ELSE rw), top + (IF turned THEN rw ELSE rh))
  BY <1>1 DEF RotatedView
<1> HIDE DEF ow, oh, rw, rh, dl, dt, b, v
<1>4. b = 0 => v = Rect(dl, dt, dl + rw, dt + rh)
  BY <1>2, <1>3
<1>5. b = 90 => v = Rect(oh - rh - dt, dl, oh - rh - dt + rh, dl + rw)
  BY <1>2, <1>3
<1>6. b = 180 => v = Rect(ow - rw - dl, oh - rh - dt, ow - rw - dl + rw, oh - rh - dt + rh)
  BY <1>2, <1>3
<1>7. b = 270 => v = Rect(dt, ow - rw - dl, dt + rh, ow - rw - dl + rw)
  BY <1>2, <1>3
<1>8. b = 0 => v.left = dl /\ v.top = dt /\ Wide(v) = rw /\ High(v) = rh
  BY <1>2, <1>4 DEF Rect, Wide, High
<1>9. b = 90 => v.left = oh - rh - dt /\ v.top = dl /\ Wide(v) = rh /\ High(v) = rw
  BY <1>2, <1>5 DEF Rect, Wide, High
<1>10. b = 180 => v.left = ow - rw - dl /\ v.top = oh - rh - dt /\ Wide(v) = rw /\ High(v) = rh
  BY <1>2, <1>6 DEF Rect, Wide, High
<1>11. b = 270 => v.left = dt /\ v.top = ow - rw - dl /\ Wide(v) = rh /\ High(v) = rw
  BY <1>2, <1>7 DEF Rect, Wide, High
<1> QED
  BY <1>1, <1>8, <1>9, <1>10, <1>11 DEF ViewOf, v, b, dl, dt

\* A turned view of integer sides has integer sides.
LEMMA ViewInts ==
  ASSUME NEW o, NEW r, NEW a \in {0, 90, 180, 270, 360, -90, -180, -270},
         o.left \in Int, o.top \in Int, o.right \in Int, o.bottom \in Int,
         r.left \in Int, r.top \in Int, r.right \in Int, r.bottom \in Int
  PROVE  LET v == RotatedView(o, r, a)
         IN  v.left \in Int /\ v.top \in Int /\ v.right \in Int /\ v.bottom \in Int
<1> DEFINE dl == r.left - o.left
           dt == r.top - o.top
           b == a % 360
           v == RotatedView(o, r, a)
           left == CASE b = 0 -> dl [] b = 180 -> Wide(o) - Wide(r) - dl
                     [] b = 90 -> High(o) - High(r) - dt [] b = 270 -> dt
           top == CASE b = 0 -> dt [] b = 180 -> High(o) - High(r) - dt
                    [] b = 90 -> dl [] b = 270 -> Wide(o) - Wide(r) - dl
           w == IF b % 180 # 0 THEN High(r) ELSE Wide(r)
           h == IF b % 180 # 0 THEN Wide(r) ELSE High(r)
<1>1. Wide(o) \in Int /\ High(o) \in Int /\ Wide(r) \in Int /\ High(r) \in Int /\ dl \in Int /\ dt \in Int
  BY DEF Wide, High
<1>2. b \in {0, 90, 180, 270}
  OBVIOUS
<1>3. v = Rect(left, top, left + w, top + h)
  BY DEF RotatedView
<1> HIDE DEF b, dl, dt, v
<1>4. left \in Int /\ top \in Int
  BY <1>1, <1>2
<1>5. w \in Int /\ h \in Int
  BY <1>1
<1> HIDE DEF left, top, w, h
<1> QED
  BY <1>3, <1>4, <1>5 DEF Rect, v

\* Unturned by angle.
LEMMA UnturnedRight ==
  ASSUME NEW w, NEW h, NEW x, NEW y
  PROVE  /\ Unturned(w, h, 0, x, y) = <<x, y>>
         /\ Unturned(w, h, 90, x, y) = <<y, h - 1 - x>>
         /\ Unturned(w, h, 180, x, y) = <<w - 1 - x, h - 1 - y>>
         /\ Unturned(w, h, 270, x, y) = <<w - 1 - y, x>>
<1>1. 0 % 360 = 0 /\ 90 % 360 = 90 /\ 180 % 360 = 180 /\ 270 % 360 = 270
  OBVIOUS
<1> QED
  BY <1>1 DEF Unturned

\* A sampled position, where source and destination have the same size.
LEMMA SameSize ==
  ASSUME NEW n \in Int, n > 0, NEW d \in Int
  PROVE  (d * n) \div n = d
OBVIOUS

\* A rectangle of integers.
Sides(r) == r.left \in Int /\ r.top \in Int /\ r.right \in Int /\ r.bottom \in Int

\* How much of a turned rectangle there is along each axis.
AlongX(r, a) == IF a % 180 = 0 THEN Wide(r) ELSE High(r)
AlongY(r, a) == IF a % 180 = 0 THEN High(r) ELSE Wide(r)

\* What is seen at (x, y) of rectangle r, when the w by h buffer around it is turned
\* and then read, is what r alone shows there when it is turned.
LEMMA TurnBack ==
  ASSUME NEW w \in Int, NEW h \in Int, NEW r, Sides(r), NEW a \in Degrees, NEW x \in Int, NEW y \in Int
  PROVE  LET v == RotatedView(Rect(0, 0, w, h), r, a)
             there == Unturned(w, h, a, v.left + x, v.top + y)
             here == Unturned(Wide(r), High(r), a, x, y)
         IN  /\ there[1] = r.left + here[1] /\ there[2] = r.top + here[2]
             /\ v.left \in Int /\ v.top \in Int
             /\ Wide(v) = (IF a % 180 = 0 THEN Wide(r) ELSE High(r))
             /\ High(v) = (IF a % 180 = 0 THEN High(r) ELSE Wide(r))
<1> DEFINE o == Rect(0, 0, w, h)
           v == RotatedView(o, r, a)
<1>1. o.left = 0 /\ o.top = 0 /\ o.right = w /\ o.bottom = h /\ Wide(o) = w /\ High(o) = h
  BY DEF Rect, Wide, High
<1> HIDE DEF o
<1>2. a \in Int
  BY DEF Degrees
<1>3. /\ Sides(r) /\ Wide(r) \in Int /\ High(r) \in Int
      /\ Wide(r) = r.right - r.left /\ High(r) = r.bottom - r.top
  BY DEF Sides, Wide, High
<1> DEFINE dw == w - Wide(r) - r.left
           dh == h - High(r) - r.top
<1>4. /\ a % 360 = 0 => v.left = r.left /\ v.top = r.top /\ Wide(v) = Wide(r) /\ High(v) = High(r)
      /\ a % 360 = 90 => v.left = dh /\ v.top = r.left /\ Wide(v) = High(r) /\ High(v) = Wide(r)
      /\ a % 360 = 180 => v.left = dw /\ v.top = dh /\ Wide(v) = Wide(r) /\ High(v) = High(r)
      /\ a % 360 = 270 => v.left = r.top /\ v.top = dw /\ Wide(v) = High(r) /\ High(v) = Wide(r)
  <2>1. r.left - o.left = r.left /\ r.top - o.top = r.top
    BY <1>1, <1>3 DEF Sides
  <2>2. o.left \in Int /\ o.top \in Int /\ o.right \in Int /\ o.bottom \in Int
    BY <1>1
  <2>3. ViewOf(v, Wide(o), High(o), Wide(r), High(r), r.left - o.left, r.top - o.top, a % 360)
    BY <1>2, <2>2, ViewRight DEF Sides
  <2> HIDE DEF v
  <2> QED
    BY <1>1, <2>1, <2>3 DEF ViewOf
<1> HIDE DEF v
<1> DEFINE there == Unturned(w, h, a, v.left + x, v.top + y)
           here == Unturned(Wide(r), High(r), a, x, y)
<1>5. CASE a = 0
  <2>1. v.left = r.left /\ v.top = r.top /\ Wide(v) = Wide(r) /\ High(v) = High(r)
    BY <1>4, <1>5
  <2>2. there = <<r.left + x, r.top + y>> /\ here = <<x, y>>
    BY <1>5, <2>1, UnturnedRight
  <2> HIDE DEF there, here
  <2> QED
    BY <1>3, <1>5, <2>1, <2>2 DEF Sides, there, here, v, o
<1>6. CASE a = 90
  <2>1. v.left = dh /\ v.top = r.left /\ Wide(v) = High(r) /\ High(v) = Wide(r)
    BY <1>4, <1>6
  <2>2. there = <<r.left + y, h - 1 - (dh + x)>> /\ here = <<y, High(r) - 1 - x>>
    BY <1>6, <2>1, UnturnedRight
  <2> HIDE DEF there, here
  <2>3. there[1] = r.left + here[1] /\ there[2] = r.top + here[2]
    BY <1>3, <2>2 DEF Sides
  <2> QED
    BY <1>3, <1>6, <2>1, <2>3 DEF Sides, there, here, v, o
<1>7. CASE a = 180
  <2>1. v.left = dw /\ v.top = dh /\ Wide(v) = Wide(r) /\ High(v) = High(r)
    BY <1>4, <1>7
  <2>2. there = <<w - 1 - (dw + x), h - 1 - (dh + y)>> /\ here = <<Wide(r) - 1 - x, High(r) - 1 - y>>
    BY <1>7, <2>1, UnturnedRight
  <2> HIDE DEF there, here
  <2>3. w - 1 - (dw + x) = r.left + (Wide(r) - 1 - x) /\ h - 1 - (dh + y) = r.top + (High(r) - 1 - y)
    <3>1. \A m, n, l, z \in Int : m - 1 - (m - n - l + z) = l + (n - 1 - z)
      OBVIOUS
    <3>2. Wide(r) \in Int /\ High(r) \in Int /\ r.left \in Int /\ r.top \in Int
      BY <1>3 DEF Sides
    <3> QED
      BY <3>1, <3>2
  <2> HIDE DEF dw, dh
  <2>4. there[1] = r.left + here[1] /\ there[2] = r.top + here[2]
    BY <2>2, <2>3
  <2> QED
    BY <1>3, <1>7, <2>1, <2>4 DEF Sides, there, here, v, o, dw, dh
<1>8. CASE a = 270
  <2>1. v.left = r.top /\ v.top = dw /\ Wide(v) = High(r) /\ High(v) = Wide(r)
    BY <1>4, <1>8
  <2>2. there = <<w - 1 - (dw + y), r.top + x>> /\ here = <<Wide(r) - 1 - y, x>>
    BY <1>8, <2>1, UnturnedRight
  <2> HIDE DEF there, here
  <2>3. there[1] = r.left + here[1] /\ there[2] = r.top + here[2]
    BY <1>3, <2>2 DEF Sides
  <2> QED
    BY <1>3, <1>8, <2>1, <2>3 DEF Sides, there, here, v, o
<1> QED
  BY <1>5, <1>6, <1>7, <1>8 DEF Degrees

\* r is the part of frame f below rectangle s, as a layer has it that is turned by a
\* to be shown in f: the part alone shows at (x, y) what all of it shows there.
PartOf(r, f, s, a, x, y) ==
  LET part == Unturned(Wide(r), High(r), a, x - s.left, y - s.top)
      whole == Unturned(AlongX(f, a), AlongY(f, a), a, x - f.left, y - f.top)
  IN  /\ r.left + part[1] = whole[1] /\ r.top + part[2] = whole[2] /\ Sides(r)
      /\ Wide(r) = AlongX(s, a) /\ High(r) = AlongY(s, a)

\* The part of a layer that is read for a part of its frame is the right one.
LEMMA PartTurned ==
  ASSUME NEW f, Sides(f), NEW s, Sides(s), NEW a \in Degrees, NEW x \in Int, NEW y \in Int
  PROVE  PartOf(RotatedView(f, s, 0 - a), f, s, a, x, y)
<1> DEFINE r == RotatedView(f, s, 0 - a)
           dl == s.left - f.left
           dt == s.top - f.top
           dw == Wide(f) - Wide(s) - dl
           dh == High(f) - High(s) - dt
<1>1. /\ 0 - a \in {0, -90, -180, -270} /\ 0 - a \in Int
      /\ a = 0 => (0 - a) % 360 = 0
      /\ a = 90 => (0 - a) % 360 = 270
      /\ a = 180 => (0 - a) % 360 = 180
      /\ a = 270 => (0 - a) % 360 = 90
  BY DEF Degrees
<1>2. /\ Wide(f) = f.right - f.left /\ High(f) = f.bottom - f.top
      /\ Wide(s) = s.right - s.left /\ High(s) = s.bottom - s.top
      /\ f.left \in Int /\ f.top \in Int /\ f.right \in Int /\ f.bottom \in Int
      /\ s.left \in Int /\ s.top \in Int /\ s.right \in Int /\ s.bottom \in Int
  BY DEF Sides, Wide, High
<1>3. Sides(r)
  BY <1>1, <1>2, ViewInts DEF Sides
<1>4. /\ a = 0 => r.left = dl /\ r.top = dt /\ Wide(r) = Wide(s) /\ High(r) = High(s)
      /\ a = 270 => r.left = dh /\ r.top = dl /\ Wide(r) = High(s) /\ High(r) = Wide(s)
      /\ a = 180 => r.left = dw /\ r.top = dh /\ Wide(r) = Wide(s) /\ High(r) = High(s)
      /\ a = 90 => r.left = dt /\ r.top = dw /\ Wide(r) = High(s) /\ High(r) = Wide(s)
  <2>1. ViewOf(r, Wide(f), High(f), Wide(s), High(s), dl, dt, (0 - a) % 360)
    BY <1>1, <1>2, ViewRight
  <2> HIDE DEF r, dl, dt
  <2> QED
    BY <1>1, <2>1 DEF ViewOf
<1> HIDE DEF r
<1> DEFINE w == AlongX(f, a)
           h == AlongY(f, a)
           part == Unturned(Wide(r), High(r), a, x - s.left, y - s.top)
           whole == Unturned(w, h, a, x - f.left, y - f.top)
<1>5. CASE a = 0
  <2>1. w = Wide(f) /\ h = High(f)
    BY <1>5 DEF AlongX, AlongY
  <2> HIDE DEF w, h
  <2>2. part = <<x - s.left, y - s.top>> /\ whole = <<x - f.left, y - f.top>>
    BY <1>5, UnturnedRight
  <2> HIDE DEF part, whole
  <2>3. r.left + part[1] = whole[1] /\ r.top + part[2] = whole[2]
    BY <1>2, <1>4, <1>5, <2>2
  <2> QED
    BY <1>3, <1>4, <1>5, <2>3 DEF PartOf, part, whole, w, h, r, AlongX, AlongY
<1>6. CASE a = 90
  <2>1. w = High(f) /\ h = Wide(f)
    BY <1>6 DEF AlongX, AlongY
  <2> HIDE DEF w, h
  <2>2. part = <<y - s.top, High(r) - 1 - (x - s.left)>> /\ whole = <<y - f.top, h - 1 - (x - f.left)>>
    BY <1>6, UnturnedRight
  <2> HIDE DEF part, whole
  <2>3. r.left + part[1] = whole[1] /\ r.top + part[2] = whole[2]
    BY <1>2, <1>4, <1>6, <2>1, <2>2
  <2> QED
    BY <1>3, <1>4, <1>6, <2>3 DEF PartOf, part, whole, w, h, r, AlongX, AlongY
<1>7. CASE a = 180
  <2>1. w = Wide(f) /\ h = High(f)
    BY <1>7 DEF AlongX, AlongY
  <2> HIDE DEF w, h
  <2>2. /\ part = <<Wide(r) - 1 - (x - s.left), High(r) - 1 - (y - s.top)>>
        /\ whole = <<w - 1 - (x - f.left), h - 1 - (y - f.top)>>
    BY <1>7, UnturnedRight
  <2> HIDE DEF part, whole
  <2>3. r.left + part[1] = whole[1] /\ r.top + part[2] = whole[2]
    BY <1>2, <1>4, <1>7, <2>1, <2>2
  <2> QED
    BY <1>3, <1>4, <1>7, <2>3 DEF PartOf, part, whole, w, h, r, AlongX, AlongY
<1>8. CASE a = 270
  <2>1. w = High(f) /\ h = Wide(f)
    BY <1>8 DEF AlongX, AlongY
  <2> HIDE DEF w, h
  <2>2. part = <<Wide(r) - 1 - (y - s.top), x - s.left>> /\ whole = <<w - 1 - (y - f.top), x - f.left>>
    BY <1>8, UnturnedRight
  <2> HIDE DEF part, whole
  <2>3. r.left + part[1] = whole[1] /\ r.top + part[2] = whole[2]
    BY <1>2, <1>4, <1>8, <2>1, <2>2
  <2> QED
    BY <1>3, <1>4, <1>8, <2>3 DEF PartOf, part, whole, w, h, r, AlongX, AlongY
<1> QED
  BY <1>5, <1>6, <1>7, <1>8 DEF Degrees

\* v is rectangle r of the screen and q pixel p of it, seen turned by 360 - a: q is so
\* far from the left top of v as r turned by a has p.
TurnedPart(v, q, p, r, a) ==
  LET u == Unturned(Wide(v), High(v), a, p[1] - r.left, p[2] - r.top)
  IN  /\ q[1] - v.left = u[1] /\ q[2] - v.top = u[2]
      /\ Wide(v) = AlongX(r, a) /\ High(v) = AlongY(r, a)

\* A rectangle and its pixels where the framebuffer is turned.
LEMMA TurnedFrom ==
  ASSUME NEW p \in Pixels, NEW r, Sides(r), NEW a \in Degrees
  PROVE  TurnedPart(RotatedView(ScreenRect, r, 360 - a), At(p, 360 - a), p, r, a)
<1> DEFINE o == ScreenRect
           b == 360 - a
           x == p[1]
           y == p[2]
           one == Rect(x, y, x + 1, y + 1)
           v == RotatedView(o, r, b)
           d == RotatedView(o, one, b)
           q == At(p, b)
           dw == Width - Wide(r) - r.left
           dh == Height - High(r) - r.top
<1>1. /\ r.left \in Int /\ r.top \in Int /\ r.right \in Int /\ r.bottom \in Int
      /\ x \in Int /\ y \in Int /\ Width \in Int /\ Height \in Int
      /\ Wide(r) = r.right - r.left /\ High(r) = r.bottom - r.top
  BY Screen DEF Sides, Pixels, Wide, High
<1>2. /\ o.left = 0 /\ o.top = 0 /\ o.right = Width /\ o.bottom = Height
      /\ Wide(o) = Width /\ High(o) = Height
  BY <1>1 DEF ScreenRect, Rect, Wide, High
<1>3. /\ one.left = x /\ one.top = y /\ one.right = x + 1 /\ one.bottom = y + 1
      /\ Wide(one) = 1 /\ High(one) = 1
  BY <1>1 DEF Rect, Wide, High
<1>4. q = <<d.left, d.top>>
  BY DEF At
<1> HIDE DEF o, one, x, y
<1>5. /\ b \in Int
      /\ a = 0 => b % 360 = 0
      /\ a = 90 => b % 360 = 270
      /\ a = 180 => b % 360 = 180
      /\ a = 270 => b % 360 = 90
  BY DEF Degrees
<1>6. /\ a = 0 => v.left = r.left - 0 /\ v.top = r.top - 0 /\ Wide(v) = Wide(r) /\ High(v) = High(r)
      /\ a = 270 => v.left = Height - High(r) - (r.top - 0) /\ v.top = r.left - 0 /\ Wide(v) = High(r) /\ High(v) = Wide(r)
      /\ a = 180 => v.left = Width - Wide(r) - (r.left - 0) /\ v.top = Height - High(r) - (r.top - 0) /\ Wide(v) = Wide(r) /\ High(v) = High(r)
      /\ a = 90 => v.left = r.top - 0 /\ v.top = Width - Wide(r) - (r.left - 0) /\ Wide(v) = High(r) /\ High(v) = Wide(r)
  <2>1. ViewOf(v, Width, Height, Wide(r), High(r), r.left - 0, r.top - 0, b % 360)
    BY <1>1, <1>2, <1>5, ViewRight
  <2> HIDE DEF v, b
  <2> QED
    BY <1>5, <2>1 DEF ViewOf, b
<1>7. /\ a = 0 => d.left = x - 0 /\ d.top = y - 0
      /\ a = 270 => d.left = Height - 1 - (y - 0) /\ d.top = x - 0
      /\ a = 180 => d.left = Width - 1 - (x - 0) /\ d.top = Height - 1 - (y - 0)
      /\ a = 90 => d.left = y - 0 /\ d.top = Width - 1 - (x - 0)
  <2>1. ViewOf(d, Width, Height, 1, 1, x - 0, y - 0, b % 360)
    BY <1>1, <1>2, <1>3, <1>5, ViewRight
  <2> HIDE DEF d, b
  <2> QED
    BY <1>5, <2>1 DEF ViewOf, b
<1> HIDE DEF v, d
<1>8. q[1] = d.left /\ q[2] = d.top
  BY <1>4
<1> HIDE DEF q
<1> DEFINE u == Unturned(Wide(v), High(v), a, x - r.left, y - r.top)
<1>9. CASE a = 0
  <2>1. u = <<x - r.left, y - r.top>>
    BY <1>9, UnturnedRight
  <2> HIDE DEF u
  <2> QED
    BY <1>1, <1>6, <1>7, <1>8, <1>9, <2>1 DEF TurnedPart, AlongX, AlongY, u, v, q, o, x, y, b
<1>10. CASE a = 90
  <2>1. u = <<y - r.top, High(v) - 1 - (x - r.left)>>
    BY <1>10, UnturnedRight
  <2> HIDE DEF u
  <2>2. q[1] - v.left = u[1] /\ q[2] - v.top = u[2]
    BY <1>1, <1>6, <1>7, <1>8, <1>10, <2>1
  <2> QED
    BY <1>6, <1>10, <2>2 DEF TurnedPart, AlongX, AlongY, u, v, q, o, x, y, b
<1>11. CASE a = 180
  <2>1. u = <<Wide(v) - 1 - (x - r.left), High(v) - 1 - (y - r.top)>>
    BY <1>11, UnturnedRight
  <2> HIDE DEF u
  <2>2. q[1] - v.left = u[1] /\ q[2] - v.top = u[2]
    BY <1>1, <1>6, <1>7, <1>8, <1>11, <2>1
  <2> QED
    BY <1>6, <1>11, <2>2 DEF TurnedPart, AlongX, AlongY, u, v, q, o, x, y, b
<1>12. CASE a = 270
  <2>1. u = <<Wide(v) - 1 - (y - r.top), x - r.left>>
    BY <1>12, UnturnedRight
  <2> HIDE DEF u
  <2>2. q[1] - v.left = u[1] /\ q[2] - v.top = u[2]
    BY <1>1, <1>6, <1>7, <1>8, <1>12, <2>1
  <2> QED
    BY <1>6, <1>12, <2>2 DEF TurnedPart, AlongX, AlongY, u, v, q, o, x, y, b
<1> QED
  BY <1>9, <1>10, <1>11, <1>12 DEF Degrees

\* What is read of rectangle r of a layer's buffer that is seen turned.
LEMMA ReadTurned ==
  ASSUME NEW s, NEW w \in Int, NEW h \in Int, NEW r, Sides(r), NEW a \in Degrees, NEW dst,
         Attr[s.id].w = w, Attr[s.id].h = h, s.angle = a,
         s.rect = IF a = 0 THEN r ELSE RotatedView(Rect(0, 0, w, h), r, a),
         NEW d \in Int, NEW e \in Int,
         NEW x \in Int, x = (d * AlongX(r, a)) \div Wide(dst),
         NEW y \in Int, y = (e * AlongY(r, a)) \div High(dst)
  PROVE  LET here == Unturned(Wide(r), High(r), a, x, y)
         IN  Sample(s, dst, d, e) = Shown(s.id, <<r.left + here[1], r.top + here[2]>>)
<1> DEFINE v == RotatedView(Rect(0, 0, w, h), r, a)
           there == Unturned(w, h, a, v.left + x, v.top + y)
           here == Unturned(Wide(r), High(r), a, x, y)
<1>1. /\ there[1] = r.left + here[1] /\ there[2] = r.top + here[2]
      /\ Wide(v) = AlongX(r, a) /\ High(v) = AlongY(r, a)
  BY TurnBack DEF AlongX, AlongY
<1>2. a = 0 => v.left = r.left /\ v.top = r.top
  <2>1. ViewOf(v, Wide(Rect(0, 0, w, h)), High(Rect(0, 0, w, h)), Wide(r), High(r), r.left - 0, r.top - 0, a % 360)
    <3>1. /\ Rect(0, 0, w, h).left = 0 /\ Rect(0, 0, w, h).top = 0
          /\ Rect(0, 0, w, h).right = w /\ Rect(0, 0, w, h).bottom = h
      BY DEF Rect
    <3>2. a \in Int
      BY DEF Degrees
    <3> HIDE DEF v
    <3> QED
      BY <3>1, <3>2, ViewRight DEF Sides, v
  <2>2. 0 % 360 = 0
    OBVIOUS
  <2> HIDE DEF v
  <2> QED
    BY <2>1, <2>2 DEF ViewOf, Sides
<1>3. there = Unturned(w, h, a, s.rect.left + x, s.rect.top + y)
  <2> HIDE DEF v
  <2>1. s.rect.left = v.left /\ s.rect.top = v.top
    BY <1>2 DEF v
  <2> QED
    BY <2>1
<1>4. Wide(s.rect) = AlongX(r, a) /\ High(s.rect) = AlongY(r, a)
  <2>1. CASE a = 0
    <3>1. 0 % 180 = 0
      OBVIOUS
    <3> QED
      BY <2>1, <3>1 DEF AlongX, AlongY
  <2>2. CASE a # 0
    BY <1>1, <2>2
  <2> QED
    BY <2>1, <2>2
<1>5. there = <<there[1], there[2]>>
  <2> HIDE DEF v
  <2>1. CASE a = 0
    BY <2>1, UnturnedRight
  <2>2. CASE a = 90
    BY <2>2, UnturnedRight
  <2>3. CASE a = 180
    BY <2>3, UnturnedRight
  <2>4. CASE a = 270
    BY <2>4, UnturnedRight
  <2> QED
    BY <2>1, <2>2, <2>3, <2>4 DEF Degrees
<1> HIDE DEF v, here
<1>6. Sample(s, dst, d, e) = Shown(s.id, there)
  BY <1>3, <1>4 DEF Sample
<1> HIDE DEF there
<1>7. there = <<r.left + here[1], r.top + here[2]>>
  BY <1>1, <1>5 DEF there
<1> QED
  BY <1>6, <1>7 DEF here

\* The part of a layer that is not scaled and that subregion sub shows.
LEMMA PartOfLayer ==
  ASSUME NEW p \in Pixels, NEW sub \in IntRect, InRect(p, sub), NEW x, Covering(x, sub), ~Scaled(x)
  PROVE  LET a == Attr[x.id].trans
             r == SrcRect(x, sub)
             part == Unturned(Wide(r), High(r), a, p[1] - sub.left, p[2] - sub.top)
         IN  /\ PixelOf(x, p) = <<r.left + part[1], r.top + part[2]>> /\ Sides(r)
             /\ Wide(r) = AlongX(sub, a) /\ High(r) = AlongY(sub, a)
             /\ AlongX(r, a) = Wide(sub) /\ AlongY(r, a) = High(sub)
             /\ Wide(sub) \in Int /\ High(sub) \in Int /\ Wide(sub) > 0 /\ High(sub) > 0
<1> DEFINE f == x.frame
           c == Attr[x.id].crop
           a == Attr[x.id].trans
           s == RotatedView(f, sub, 0 - a)
           r == SrcRect(x, sub)
           w == AlongX(f, a)
           h == AlongY(f, a)
           part == Unturned(Wide(r), High(r), a, p[1] - sub.left, p[2] - sub.top)
           whole == Unturned(w, h, a, p[1] - f.left, p[2] - f.top)
<1>1. /\ f \in IntRect /\ Within(sub, f) /\ c \in IntRect /\ a \in Degrees
      /\ p[1] \in Int /\ p[2] \in Int
  <2>1. x \in RgzLayer /\ x.id \in Ids /\ Within(sub, f)
    BY DEF Covering
  <2>2. f \in IntRect
    BY <2>1 DEF RgzLayer
  <2>3. a \in Degrees /\ c \in IntRect
    BY <2>1, AttrRight DEF Sized
  <2> QED
    BY <2>1, <2>2, <2>3, Screen DEF Pixels
<1>2. Sides(f) /\ Sides(sub) /\ Sides(c)
  BY <1>1 DEF Sides, IntRect
<1>3. r = Shifted(s, c.left, c.top)
  BY DEF SrcRect
<1>4. Wide(f) = AlongX(c, a) /\ High(f) = AlongY(c, a)
  BY DEF Scaled, AlongX, AlongY
<1>5. /\ s.left + Unturned(Wide(s), High(s), a, p[1] - sub.left, p[2] - sub.top)[1] = whole[1]
      /\ s.top + Unturned(Wide(s), High(s), a, p[1] - sub.left, p[2] - sub.top)[2] = whole[2]
      /\ Sides(s) /\ Wide(s) = AlongX(sub, a) /\ High(s) = AlongY(sub, a)
  <2>1. PartOf(s, f, sub, a, p[1], p[2])
    <3> HIDE DEF f, a
    <3> QED
      BY <1>1, <1>2, PartTurned
  <2> HIDE DEF s
  <2> QED
    BY Zenon, <2>1 DEF PartOf
<1> HIDE DEF s
<1>6. /\ r.left = s.left + c.left /\ r.top = s.top + c.top /\ Sides(r)
      /\ Wide(r) = Wide(s) /\ High(r) = High(s)
  <2> HIDE DEF c
  <2>1. /\ s.left \in Int /\ s.top \in Int /\ s.right \in Int /\ s.bottom \in Int /\ c.left \in Int /\ c.top \in Int
    BY <1>2, <1>5 DEF Sides
  <2>2. /\ r.left = s.left + c.left /\ r.top = s.top + c.top
        /\ r.right = s.right + c.left /\ r.bottom = s.bottom + c.top
    BY <1>3 DEF Shifted, Rect
  <2> HIDE DEF r
  <2> QED
    BY <2>1, <2>2 DEF Sides, Wide, High
<1>7. /\ Wide(sub) \in Int /\ High(sub) \in Int /\ Wide(sub) > 0 /\ High(sub) > 0
      /\ Wide(f) \in Int /\ High(f) \in Int /\ Wide(f) > 0 /\ High(f) > 0
  <2> HIDE DEF f
  <2>1. /\ sub.left \in Int /\ sub.top \in Int /\ sub.right \in Int /\ sub.bottom \in Int
        /\ f.left \in Int /\ f.top \in Int /\ f.right \in Int /\ f.bottom \in Int
    BY <1>2 DEF Sides
  <2> QED
    BY <1>1, <2>1 DEF Wide, High, InRect, Within
<1>8. AlongX(r, a) = Wide(sub) /\ AlongY(r, a) = High(sub)
  <2> HIDE DEF r
  <2> QED
    BY <1>5, <1>6 DEF AlongX, AlongY
<1>9. w = Wide(c) /\ h = High(c)
  <2> HIDE DEF f, c, a
  <2> QED
    BY <1>4 DEF AlongX, AlongY
<1>10. PixelOf(x, p) = <<c.left + whole[1], c.top + whole[2]>>
  <2> DEFINE u == ((p[1] - f.left) * AlongX(c, a)) \div Wide(f)
             v == ((p[2] - f.top) * AlongY(c, a)) \div High(f)
             at == Unturned(Wide(c), High(c), a, u, v)
  <2>1. PixelOf(x, p) = <<c.left + at[1], c.top + at[2]>>
    BY DEF PixelOf, AlongX, AlongY
  <2>2. p[1] - f.left \in Int /\ p[2] - f.top \in Int
    BY <1>1, <1>2 DEF Sides
  <2>3. u = p[1] - f.left /\ v = p[2] - f.top
    <3> HIDE DEF f, c
    <3> QED
      BY <1>4, <1>7, <2>2, SameSize
  <2> HIDE DEF u, v
  <2>4. at = whole
    <3> HIDE DEF f, c, a, w, h
    <3> QED
      BY <1>9, <2>3
  <2> HIDE DEF at, whole
  <2> QED
    BY <2>1, <2>4
<1>11. r.left + part[1] = c.left + whole[1] /\ r.top + part[2] = c.top + whole[2]
  <2> DEFINE piece == Unturned(Wide(s), High(s), a, p[1] - sub.left, p[2] - sub.top)
  <2>1. part = piece
    BY <1>6
  <2>2. s.left + piece[1] = whole[1] /\ s.top + piece[2] = whole[2]
    BY <1>5
  <2>3. piece[1] \in Int /\ piece[2] \in Int
    <3>1. p[1] - sub.left \in Int /\ p[2] - sub.top \in Int /\ Wide(s) \in Int /\ High(s) \in Int
      BY <1>1, <1>2, <1>5 DEF Sides, Wide, High
    <3> HIDE DEF a
    <3>2. CASE a = 0
      BY <3>1, <3>2, UnturnedRight
    <3>3. CASE a = 90
      BY <3>1, <3>3, UnturnedRight
    <3>4. CASE a = 180
      BY <3>1, <3>4, UnturnedRight
    <3>5. CASE a = 270
      BY <3>1, <3>5, UnturnedRight
    <3> QED
      BY <1>1, <3>2, <3>3, <3>4, <3>5 DEF Degrees
  <2>4. s.left \in Int /\ s.top \in Int /\ c.left \in Int /\ c.top \in Int
    BY <1>2, <1>5 DEF Sides
  <2>5. \A i, j, k \in Int : (i + j) + k = j + (i + k)
    OBVIOUS
  <2> HIDE DEF piece, part, whole, r, c
  <2>6. r.left + part[1] = c.left + (s.left + piece[1]) /\ r.top + part[2] = c.top + (s.top + piece[2])
    BY <1>6, <2>1, <2>3, <2>4, <2>5
  <2> QED
    BY <2>2, <2>6
<1> HIDE DEF part, whole
<1>12. PixelOf(x, p) = <<r.left + part[1], r.top + part[2]>>
  BY <1>10, <1>11
<1> QED
  BY <1>5, <1>6, <1>7, <1>8, <1>12 DEF part, f, c, a, r

\* Without a turn a pixel is seen where it is.
LEMMA SeenThere ==
  ASSUME NEW p \in Pixels
  PROVE  At(p, 0)[1] = p[1] /\ At(p, 0)[2] = p[2]
<1> DEFINE x == p[1]
           y == p[2]
           one == Rect(x, y, x + 1, y + 1)
           u == RotatedView(ScreenRect, one, 0)
<1>1. x \in Int /\ y \in Int
  BY Screen DEF Pixels
<1>2. ScreenRect.left = 0 /\ ScreenRect.top = 0 /\ one.left = x /\ one.top = y
  BY DEF ScreenRect, Rect
<1> HIDE DEF x, y, one
<1>3. 0 % 360 = 0
  OBVIOUS
<1>4. u.left = x - 0 /\ u.top = y - 0
  BY <1>1, <1>2, <1>3 DEF RotatedView, Rect
<1>5. At(p, 0) = <<u.left, u.top>>
  BY DEF At, x, y, one
<1> QED
  BY <1>1, <1>4, <1>5 DEF x, y

\* A layer that covers a subregion, its crop and one of the subregion's pixels.
LEMMA CoveredPixel ==
  ASSUME NEW p \in Pixels, NEW sub \in IntRect, InRect(p, sub), NEW x, Covering(x, sub)
  PROVE  LET f == x.frame
             a == Attr[x.id]
         IN  /\ Sides(f) /\ Sides(sub) /\ Sides(a.crop) /\ a.trans \in Degrees
             /\ a.w \in Int /\ a.h \in Int /\ p[1] \in Int /\ p[2] \in Int
             /\ p[1] - f.left \in 0 .. Wide(f) - 1 /\ p[2] - f.top \in 0 .. High(f) - 1
             /\ p[1] - sub.left \in Int /\ p[2] - sub.top \in Int
             /\ Wide(f) \in Int /\ High(f) \in Int /\ Wide(f) > 0 /\ High(f) > 0
             /\ Wide(a.crop) \in Int /\ High(a.crop) \in Int
<1> DEFINE f == x.frame
           c == Attr[x.id].crop
<1>1. x \in RgzLayer /\ x.id \in Ids /\ Within(sub, f)
  BY DEF Covering
<1>2. f \in IntRect
  BY <1>1 DEF RgzLayer
<1>3. /\ Attr[x.id].trans \in Degrees /\ c \in IntRect
      /\ Attr[x.id].w \in Int /\ Attr[x.id].h \in Int
  BY <1>1, AttrRight DEF Sized
<1>4. p[1] \in Int /\ p[2] \in Int
  BY Screen DEF Pixels
<1> HIDE DEF f, c
<1>5. /\ sub.left \in Int /\ sub.top \in Int /\ sub.right \in Int /\ sub.bottom \in Int
      /\ f.left \in Int /\ f.top \in Int /\ f.right \in Int /\ f.bottom \in Int
      /\ c.left \in Int /\ c.top \in Int /\ c.right \in Int /\ c.bottom \in Int
  BY <1>2, <1>3 DEF IntRect
<1>6. /\ p[1] >= sub.left /\ p[1] < sub.right /\ p[2] >= sub.top /\ p[2] < sub.bottom
      /\ f.left <= sub.left /\ sub.right <= f.right /\ f.top <= sub.top /\ sub.bottom <= f.bottom
  BY <1>1 DEF InRect, Within
<1>7. /\ Wide(f) = f.right - f.left /\ High(f) = f.bottom - f.top
      /\ Wide(c) = c.right - c.left /\ High(c) = c.bottom - c.top
  BY DEF Wide, High
<1>8. /\ p[1] - f.left \in 0 .. Wide(f) - 1 /\ p[2] - f.top \in 0 .. High(f) - 1
      /\ p[1] - sub.left \in Int /\ p[2] - sub.top \in Int
      /\ Wide(f) \in Int /\ High(f) \in Int /\ Wide(f) > 0 /\ High(f) > 0
      /\ Wide(c) \in Int /\ High(c) \in Int
  BY <1>4, <1>5, <1>6, <1>7
<1> QED
  BY <1>3, <1>4, <1>5, <1>8 DEF f, c, Sides

\* What is sampled of a layer that is turned but not scaled.
LEMMA PlainSample ==
  ASSUME NEW p \in Pixels, NEW sub \in IntRect, InRect(p, sub), NEW x, Covering(x, sub), ~Scaled(x)
  PROVE  Sample(Source(x, sub, Attr[x.id].trans), sub, p[1] - sub.left, p[2] - sub.top)
           = Shown(x.id, PixelOf(x, p))
<1> DEFINE a == Attr[x.id].trans
           w == Attr[x.id].w
           h == Attr[x.id].h
           r == SrcRect(x, sub)
           s == Source(x, sub, a)
           d == p[1] - sub.left
           e == p[2] - sub.top
           part == Unturned(Wide(r), High(r), a, d, e)
<1>1. a \in Degrees /\ w \in Int /\ h \in Int /\ d \in Int /\ e \in Int
  BY CoveredPixel
<1>2. /\ PixelOf(x, p) = <<r.left + part[1], r.top + part[2]>> /\ Sides(r)
      /\ AlongX(r, a) = Wide(sub) /\ AlongY(r, a) = High(sub)
      /\ Wide(sub) \in Int /\ High(sub) \in Int /\ Wide(sub) > 0 /\ High(sub) > 0
  BY PartOfLayer
<1>3. /\ s.id = x.id /\ s.angle = a
      /\ s.rect = IF a = 0 THEN r ELSE RotatedView(Rect(0, 0, w, h), r, a)
  BY DEF Source
<1>4. Attr[s.id].w = w /\ Attr[s.id].h = h
  BY <1>3
<1> HIDE DEF a, w, h, r, s, d, e
<1>5. d = (d * AlongX(r, a)) \div Wide(sub) /\ e = (e * AlongY(r, a)) \div High(sub)
  BY <1>1, <1>2, SameSize
<1>6. Sample(s, sub, d, e) = Shown(s.id, <<r.left + part[1], r.top + part[2]>>)
  BY <1>1, <1>2, <1>3, <1>4, <1>5, ReadTurned
<1> QED
  BY <1>2, <1>3, <1>6 DEF s, d, e, a

\* A layer's pixel, from where its frame has the pixel of the screen.
LEMMA PixelParts ==
  ASSUME NEW p \in Pixels, NEW sub \in IntRect, InRect(p, sub), NEW x, Covering(x, sub),
         NEW c, c = Attr[x.id].crop, NEW a, a = Attr[x.id].trans,
         NEW u, u = ((p[1] - x.frame.left) * AlongX(c, a)) \div Wide(x.frame),
         NEW v, v = ((p[2] - x.frame.top) * AlongY(c, a)) \div High(x.frame)
  PROVE  LET at == Unturned(Wide(c), High(c), a, u, v)
         IN  PixelOf(x, p) = <<c.left + at[1], c.top + at[2]>> /\ u \in Int /\ v \in Int
<1> DEFINE at == Unturned(Wide(c), High(c), a, u, v)
<1>1. PixelOf(x, p) = <<c.left + at[1], c.top + at[2]>>
  BY DEF PixelOf, AlongX, AlongY
<1> HIDE DEF at
<1>2. u \in Int /\ v \in Int
  <2> DEFINE d == p[1] - x.frame.left
             e == p[2] - x.frame.top
             m == AlongX(c, a)
             n == AlongY(c, a)
  <2>1. d \in Int /\ e \in Int
    BY CoveredPixel
  <2>2. m \in Int /\ n \in Int
    BY CoveredPixel DEF AlongX, AlongY
  <2>3. Wide(x.frame) \in Int /\ High(x.frame) \in Int /\ Wide(x.frame) > 0 /\ High(x.frame) > 0
    BY CoveredPixel
  <2>4. u = (d * m) \div Wide(x.frame) /\ v = (e * n) \div High(x.frame)
    OBVIOUS
  <2> HIDE DEF d, e, m, n
  <2>5. d * m \in Int /\ e * n \in Int
    BY <2>1, <2>2
  <2> QED
    BY <2>3, <2>4, <2>5
<1> QED
  BY <1>1, <1>2 DEF at

\* What is sampled of a layer that is turned and scaled.
LEMMA ScaledSample ==
  ASSUME NEW p \in Pixels, NEW sub \in IntRect, InRect(p, sub), NEW x, Covering(x, sub), Scaled(x)
  PROVE  Sample(Source(x, x.frame, Attr[x.id].trans), x.frame, p[1] - x.frame.left, p[2] - x.frame.top)
           = Shown(x.id, PixelOf(x, p))
<1> DEFINE a == Attr[x.id].trans
           w == Attr[x.id].w
           h == Attr[x.id].h
           f == x.frame
           c == Attr[x.id].crop
           s == Source(x, f, a)
           d == p[1] - f.left
           e == p[2] - f.top
           u == (d * AlongX(c, a)) \div Wide(f)
           v == (e * AlongY(c, a)) \div High(f)
           at == Unturned(Wide(c), High(c), a, u, v)
<1>1. a \in Degrees /\ w \in Int /\ h \in Int /\ d \in Int /\ e \in Int /\ Sides(c)
  BY CoveredPixel
<1>2. PixelOf(x, p) = <<c.left + at[1], c.top + at[2]>> /\ u \in Int /\ v \in Int
  BY PixelParts
<1>3. /\ s.id = x.id /\ s.angle = a
      /\ s.rect = IF a = 0 THEN c ELSE RotatedView(Rect(0, 0, w, h), c, a)
  BY DEF Source, SrcRect
<1>4. Attr[s.id].w = w /\ Attr[s.id].h = h
  BY <1>3
<1> HIDE DEF a, w, h, f, c, s, d, e
<1>5. Sample(s, f, d, e) = Shown(s.id, <<c.left + at[1], c.top + at[2]>>)
  BY <1>1, <1>2, <1>3, <1>4, ReadTurned
<1> QED
  BY <1>2, <1>3, <1>5 DEF s, d, e, a, f

\* What is read of rectangle r of a layer's buffer that is not turned.
LEMMA ReadUnturned ==
  ASSUME NEW s, NEW r, s.rect = r, s.angle = 0, NEW dst, NEW d, NEW e
  PROVE  Sample(s, dst, d, e) = Shown(s.id, <<r.left + (d * Wide(r)) \div Wide(dst),
                                              r.top + (e * High(r)) \div High(dst)>>)
<1>1. Unturned(Attr[s.id].w, Attr[s.id].h, 0, r.left + (d * Wide(r)) \div Wide(dst),
               r.top + (e * High(r)) \div High(dst))
        = <<r.left + (d * Wide(r)) \div Wide(dst), r.top + (e * High(r)) \div High(dst)>>
  BY UnturnedRight
<1> QED
  BY <1>1 DEF Sample

\* What is sampled of a layer that is not scaled, where the framebuffer is turned.
LEMMA PlainSampleTurned ==
  ASSUME NEW p \in Pixels, NEW sub \in IntRect, InRect(p, sub), NEW x, Covering(x, sub), ~Scaled(x)
  PROVE  LET b == 360 - Attr[x.id].trans
             dst == RotatedView(ScreenRect, sub, b)
             q == At(p, b)
         IN  Sample(Source(x, sub, 0), dst, q[1] - dst.left, q[2] - dst.top) = Shown(x.id, PixelOf(x, p))
<1> DEFINE a == Attr[x.id].trans
           r == SrcRect(x, sub)
           s == Source(x, sub, 0)
           dst == RotatedView(ScreenRect, sub, 360 - a)
           q == At(p, 360 - a)
           d == q[1] - dst.left
           e == q[2] - dst.top
           part == Unturned(Wide(r), High(r), a, p[1] - sub.left, p[2] - sub.top)
<1>1. a \in Degrees /\ Sides(sub) /\ p[1] - sub.left \in Int /\ p[2] - sub.top \in Int
  BY CoveredPixel
<1>2. /\ PixelOf(x, p) = <<r.left + part[1], r.top + part[2]>> /\ Sides(r)
      /\ Wide(r) = AlongX(sub, a) /\ High(r) = AlongY(sub, a)
      /\ Wide(sub) \in Int /\ High(sub) \in Int /\ Wide(sub) > 0 /\ High(sub) > 0
  BY PartOfLayer
<1>3. TurnedPart(dst, q, p, sub, a)
  <2> HIDE DEF a
  <2> QED
    BY <1>1, TurnedFrom
<1>4. s.id = x.id /\ s.angle = 0 /\ s.rect = r
  BY DEF Source
<1> HIDE DEF a, r, s, dst, q
<1>5. d = part[1] /\ e = part[2] /\ Wide(dst) = Wide(r) /\ High(dst) = High(r)
  BY Zenon, <1>2, <1>3 DEF TurnedPart
<1>6. part[1] \in Int /\ part[2] \in Int
  <2>1. Wide(r) \in Int /\ High(r) \in Int
    BY <1>2 DEF AlongX, AlongY
  <2>2. CASE a = 0
    BY <1>1, <2>1, <2>2, UnturnedRight
  <2>3. CASE a = 90
    BY <1>1, <2>1, <2>3, UnturnedRight
  <2>4. CASE a = 180
    BY <1>1, <2>1, <2>4, UnturnedRight
  <2>5. CASE a = 270
    BY <1>1, <2>1, <2>5, UnturnedRight
  <2> QED
    BY <1>1, <2>2, <2>3, <2>4, <2>5 DEF Degrees
<1>7. Wide(r) \in Int /\ High(r) \in Int /\ Wide(r) > 0 /\ High(r) > 0
  BY <1>2 DEF AlongX, AlongY
<1>8. Sample(s, dst, d, e) = Shown(s.id, <<r.left + (d * Wide(r)) \div Wide(dst),
                                           r.top + (e * High(r)) \div High(dst)>>)
  BY <1>4, ReadUnturned
<1> HIDE DEF d, e, part
<1>9. (d * Wide(r)) \div Wide(dst) = part[1] /\ (e * High(r)) \div High(dst) = part[2]
  BY <1>5, <1>6, <1>7, SameSize
<1> QED
  BY <1>2, <1>4, <1>8, <1>9 DEF a, s, d, e, q, dst

\* Sampled from the other end.
LEMMA OtherEnd ==
  ASSUME NEW n \in Int, NEW m \in Int, NEW d \in 0 .. n - 1, EitherEnd(n, m)
  PROVE  ((n - 1 - d) * m) \div n = m - 1 - (d * m) \div n
BY DEF EitherEnd

\* What is sampled of a scaled layer, where the framebuffer is turned.
LEMMA ScaledSampleTurned ==
  ASSUME NEW p \in Pixels, NEW sub \in IntRect, InRect(p, sub), NEW x, Covering(x, sub), Scaled(x),
         IsNV12(x), Even(x)
  PROVE  LET b == 360 - Attr[x.id].trans
             dst == RotatedView(ScreenRect, x.frame, b)
             q == At(p, b)
         IN  Sample(Source(x, x.frame, 0), dst, q[1] - dst.left, q[2] - dst.top) = Shown(x.id, PixelOf(x, p))
<1> DEFINE a == Attr[x.id].trans
           f == x.frame
           c == Attr[x.id].crop
           s == Source(x, f, 0)
           dst == RotatedView(ScreenRect, f, 360 - a)
           q == At(p, 360 - a)
           d == q[1] - dst.left
           e == q[2] - dst.top
           i == p[1] - f.left
           j == p[2] - f.top
           u == (i * AlongX(c, a)) \div Wide(f)
           v == (j * AlongY(c, a)) \div High(f)
           at == Unturned(Wide(c), High(c), a, u, v)
           k == (d * Wide(c)) \div Wide(dst)
           l == (e * High(c)) \div High(dst)
<1>1. /\ a \in Degrees /\ Sides(f) /\ Sides(c)
      /\ i \in 0 .. Wide(f) - 1 /\ j \in 0 .. High(f) - 1
      /\ Wide(f) \in Int /\ High(f) \in Int /\ Wide(f) > 0 /\ High(f) > 0
      /\ Wide(c) \in Int /\ High(c) \in Int
  BY CoveredPixel
<1>2. PixelOf(x, p) = <<c.left + at[1], c.top + at[2]>> /\ u \in Int /\ v \in Int
  BY PixelParts
<1>3. TurnedPart(dst, q, p, f, a)
  <2> HIDE DEF a, f
  <2> QED
    BY <1>1, TurnedFrom
<1>4. s.id = x.id /\ s.angle = 0 /\ s.rect = c
  BY DEF Source, SrcRect
<1>5. /\ a = 90 => EitherEnd(Wide(f), High(c))
      /\ a = 180 => EitherEnd(Wide(f), Wide(c)) /\ EitherEnd(High(f), High(c))
      /\ a = 270 => EitherEnd(High(f), Wide(c))
  BY DEF Even
<1> DEFINE y == Unturned(Wide(dst), High(dst), a, i, j)
<1>6. d = y[1] /\ e = y[2] /\ Wide(dst) = AlongX(f, a) /\ High(dst) = AlongY(f, a)
  <2> HIDE DEF a, f, dst, q
  <2> QED
    BY Zenon, <1>3 DEF TurnedPart
<1> HIDE DEF a, f, c, s, dst, q, d, e, i, j
<1>7. k = at[1] /\ l = at[2]
  <2>1. CASE a = 0
    <3>1. /\ AlongX(c, a) = Wide(c) /\ AlongY(c, a) = High(c)
          /\ AlongX(f, a) = Wide(f) /\ AlongY(f, a) = High(f)
      <4>1. 0 % 180 = 0
        OBVIOUS
      <4> QED
        BY <2>1, <4>1 DEF AlongX, AlongY
    <3>2. y = <<i, j>> /\ at = <<u, v>>
      BY <2>1, UnturnedRight
    <3> HIDE DEF y, at
    <3>3. d = i /\ e = j /\ at[1] = u /\ at[2] = v
      BY <1>6, <3>2
    <3> QED
      BY <1>6, <3>1, <3>3
  <2>2. CASE a = 90
    <3>1. /\ AlongX(c, a) = High(c) /\ AlongY(c, a) = Wide(c)
          /\ AlongX(f, a) = High(f) /\ AlongY(f, a) = Wide(f)
      <4>1. 90 % 180 # 0
        OBVIOUS
      <4> QED
        BY <2>2, <4>1 DEF AlongX, AlongY
    <3>2. y = <<j, High(dst) - 1 - i>> /\ at = <<v, High(c) - 1 - u>>
      BY <2>2, UnturnedRight
    <3> HIDE DEF y, at
    <3>3. d = j /\ e = Wide(f) - 1 - i /\ at[1] = v /\ at[2] = High(c) - 1 - u
      BY <1>6, <3>1, <3>2
    <3>4. ((Wide(f) - 1 - i) * High(c)) \div Wide(f) = High(c) - 1 - (i * High(c)) \div Wide(f)
      BY <1>1, <1>5, <2>2, OtherEnd
    <3> QED
      BY <1>6, <3>1, <3>3, <3>4
  <2>3. CASE a = 180
    <3>1. /\ AlongX(c, a) = Wide(c) /\ AlongY(c, a) = High(c)
          /\ AlongX(f, a) = Wide(f) /\ AlongY(f, a) = High(f)
      <4>1. 180 % 180 = 0
        OBVIOUS
      <4> QED
        BY <2>3, <4>1 DEF AlongX, AlongY
    <3>2. y = <<Wide(dst) - 1 - i, High(dst) - 1 - j>> /\ at = <<Wide(c) - 1 - u, High(c) - 1 - v>>
      BY <2>3, UnturnedRight
    <3> HIDE DEF y, at
    <3>3. /\ d = Wide(f) - 1 - i /\ e = High(f) - 1 - j
          /\ at[1] = Wide(c) - 1 - u /\ at[2] = High(c) - 1 - v
      BY <1>6, <3>1, <3>2
    <3>4. /\ ((Wide(f) - 1 - i) * Wide(c)) \div Wide(f) = Wide(c) - 1 - (i * Wide(c)) \div Wide(f)
          /\ ((High(f) - 1 - j) * High(c)) \div High(f) = High(c) - 1 - (j * High(c)) \div High(f)
      BY <1>1, <1>5, <2>3, OtherEnd
    <3> QED
      BY <1>6, <3>1, <3>3, <3>4
  <2>4. CASE a = 270
    <3>1. /\ AlongX(c, a) = High(c) /\ AlongY(c, a) = Wide(c)
          /\ AlongX(f, a) = High(f) /\ AlongY(f, a) = Wide(f)
      <4>1. 270 % 180 # 0
        OBVIOUS
      <4> QED
        BY <2>4, <4>1 DEF AlongX, AlongY
    <3>2. y = <<Wide(dst) - 1 - j, i>> /\ at = <<Wide(c) - 1 - v, u>>
      BY <2>4, UnturnedRight
    <3> HIDE DEF y, at
    <3>3. d = High(f) - 1 - j /\ e = i /\ at[1] = Wide(c) - 1 - v /\ at[2] = u
      BY <1>6, <3>1, <3>2
    <3>4. ((High(f) - 1 - j) * Wide(c)) \div High(f) = Wide(c) - 1 - (j * Wide(c)) \div High(f)
      BY <1>1, <1>5, <2>4, OtherEnd
    <3> QED
      BY <1>6, <3>1, <3>3, <3>4
  <2> QED
    BY <1>1, <2>1, <2>2, <2>3, <2>4 DEF Degrees
<1>8. Sample(s, dst, d, e) = Shown(s.id, <<c.left + k, c.top + l>>)
  BY <1>4, ReadUnturned
<1> HIDE DEF k, l, at
<1> QED
  BY <1>2, <1>4, <1>7, <1>8 DEF a, s, d, e, q, dst, f

\* What a command reads of its layer for a pixel is what the layer shows there.
LEMMA SampleRight ==
  ASSUME NEW p \in Pixels, NEW sub \in IntRect, InRect(p, sub), NEW x, Covering(x, sub), Even(x), NEW op
  PROVE  LET e == Entry(op, x, sub)
             q == At(p, e.angle)
         IN  Sample(e.src1[1], e.dst, q[1] - e.dst.left, q[2] - e.dst.top) = Shown(x.id, PixelOf(x, p))
<1> DEFINE e == Entry(op, x, sub)
           a == Attr[x.id].trans
           whole == IF Scaled(x) THEN x.frame ELSE sub
           q == At(p, e.angle)
<1>1. /\ e.src1[1] = Source(x, whole, IF IsNV12(x) THEN 0 ELSE a)
      /\ e.angle = (IF IsNV12(x) THEN 360 - a ELSE 0)
      /\ e.dst = IF e.angle = 0 THEN whole ELSE RotatedView(ScreenRect, whole, e.angle)
  BY DEF Entry
<1>2. a \in Degrees /\ 360 - a # 0
  <2>1. a \in Degrees
    BY CoveredPixel
  <2> QED
    BY <2>1 DEF Degrees
<1> HIDE DEF e
<1>3. CASE IsNV12(x)
  <2>1. /\ e.src1[1] = Source(x, whole, 0) /\ q = At(p, 360 - a)
        /\ e.dst = RotatedView(ScreenRect, whole, 360 - a)
    BY <1>1, <1>2, <1>3
  <2>2. CASE Scaled(x)
    BY <1>3, <2>1, <2>2, ScaledSampleTurned DEF e
  <2>3. CASE ~Scaled(x)
    BY <1>3, <2>1, <2>3, PlainSampleTurned DEF e
  <2> QED
    BY <2>2, <2>3
<1>4. CASE ~IsNV12(x)
  <2>1. e.src1[1] = Source(x, whole, a) /\ e.dst = whole /\ q = At(p, 0)
    BY <1>1, <1>4
  <2>2. q[1] = p[1] /\ q[2] = p[2]
    BY <2>1, SeenThere
  <2>3. CASE Scaled(x)
    BY <2>1, <2>2, <2>3, ScaledSample DEF e
  <2>4. CASE ~Scaled(x)
    BY <2>1, <2>2, <2>4, PlainSample DEF e
  <2> QED
    BY <2>3, <2>4
<1> QED
  BY <1>3, <1>4

-----------------------------------------------------------------------------
(* What commands make of a pixel of their subregion.                        *)

\* What is sampled for pixel p is what layer x shows there, the newest content of x.
Sampled(t, x, p) == Even(x) => t.at = PixelOf(x, p)
Fresh(t, x, p) == t = [id |-> x.id, at |-> t.at, new |-> TRUE] /\ Sampled(t, x, p)

\* What a copy, a blend of one layer and a blend of two leave at a pixel.
Copied(s, x, p) == \E t : Fresh(t, x, p) /\ s = <<t>>
Layered(s, x, p, was) ==
  \E t : Fresh(t, x, p) /\ s = IF ~HasAlpha(x.id) THEN <<t>> ELSE was \o <<t>>
BothLayered(s, x, under, p) ==
  \E t, b : /\ Fresh(t, x, p) /\ Fresh(b, under, p)
            /\ s = IF ~HasAlpha(x.id) THEN <<t>> ELSE <<b>> \o <<t>>

\* What is sampled of a layer is new, and right if it is as the layer shows it.
LEMMA SampleFresh ==
  ASSUME NEW s, NEW dst, NEW u, NEW v, NEW x, s.id = x.id, NEW p,
         Even(x) => Sample(s, dst, u, v) = Shown(x.id, PixelOf(x, p))
  PROVE  Fresh(Sample(s, dst, u, v), x, p)
<1> DEFINE t == Sample(s, dst, u, v)
<1>1. t = [id |-> x.id, at |-> t.at, new |-> TRUE]
  BY DEF Sample, Shown
<1>2. Even(x) => t = Shown(x.id, PixelOf(x, p))
  OBVIOUS
<1>3. Shown(x.id, PixelOf(x, p)).at = PixelOf(x, p)
  BY DEF Shown
<1> HIDE DEF t
<1>4. Sampled(t, x, p)
  BY <1>2, <1>3 DEF Sampled
<1> QED
  BY <1>1, <1>4 DEF Fresh, t

\* What a command of one layer leaves at a pixel of its subregion.
LEMMA EntryStep ==
  ASSUME NEW p \in Pixels, NEW sub \in IntRect, InRect(p, sub), NEW x, Covering(x, sub),
         NEW op \in {"copy", "blend"}, NEW was
  PROVE  /\ op = "copy" => Copied(Step(Entry(op, x, sub), p, was), x, p)
         /\ op = "blend" => Layered(Step(Entry(op, x, sub), p, was), x, p, was)
<1> DEFINE e == Entry(op, x, sub)
           q == At(p, e.angle)
           t == Sample(e.src1[1], e.dst, q[1] - e.dst.left, q[2] - e.dst.top)
<1>1. e.op = op /\ e.src1[1].id = x.id /\ e.src2 = <<>>
  BY DEF Entry, Source
<1>2. Step(e, p, was) = Blended(e, q, was)
  BY EntryReaches DEF Step
<1>9. Even(x) => t = Shown(x.id, PixelOf(x, p))
  BY SampleRight
<1> HIDE DEF e, q
<1>3. Fresh(t, x, p)
  BY <1>1, <1>9, SampleFresh
<1>4. t.id = x.id
  BY <1>3 DEF Fresh
<1>5. Blended(e, q, was) = CASE e.op = "clear" -> <<>>
        [] e.op = "copy" \/ (e.op = "blend" /\ ~HasAlpha(t.id)) -> <<t>>
        [] OTHER -> (IF e.src2 = <<>> THEN was
                     ELSE <<Sample(e.src2[1], e.dst, q[1] - e.dst.left, q[2] - e.dst.top)>>) \o <<t>>
  BY DEF Blended
<1> HIDE DEF t
<1>6. Blended(e, q, was) = IF op = "copy" \/ ~HasAlpha(x.id) THEN <<t>> ELSE was \o <<t>>
  BY <1>1, <1>4, <1>5
<1>7. op = "copy" => Copied(Step(e, p, was), x, p)
  BY <1>2, <1>3, <1>6 DEF Copied
<1>8. op = "blend" => Layered(Step(e, p, was), x, p, was)
  BY <1>2, <1>3, <1>6 DEF Layered
<1> QED
  BY <1>7, <1>8 DEF e

\* What a blend of two layers leaves at a pixel of its subregion.
LEMMA BlendStep ==
  ASSUME NEW p \in Pixels, NEW sub \in IntRect, InRect(p, sub), NEW x, Covering(x, sub),
         NEW y, Covering(y, sub), CanBlendTogether(x, y), NEW was
  PROVE  BothLayered(Step(BlendLayers(x, y, sub), p, was), x, y, p)
<1> DEFINE e == BlendLayers(x, y, sub)
           q == At(p, e.angle)
           t == Sample(e.src1[1], e.dst, q[1] - e.dst.left, q[2] - e.dst.top)
           b == Sample(e.src2[1], e.dst, q[1] - e.dst.left, q[2] - e.dst.top)
<1>10. ~Scaled(x) /\ ~IsNV12(x) /\ ~Scaled(y) /\ ~IsNV12(y)
  BY DEF CanBlendTogether
<1>1. e.op = "blend" /\ e.src1[1].id = x.id /\ e.src2[1].id = y.id /\ e.src2 # <<>>
  BY DEF BlendLayers, Entry, Source
<1>11. /\ e.angle = 0 /\ e.dst = sub /\ e.src1[1] = Source(x, sub, Attr[x.id].trans)
       /\ e.src2[1] = Source(y, sub, Attr[y.id].trans)
  BY <1>10 DEF BlendLayers, Entry
<1>2. Step(e, p, was) = Blended(e, q, was)
  BY OthersReach DEF Step
<1>12. q[1] = p[1] /\ q[2] = p[2]
  BY <1>11, SeenThere
<1>9. t = Shown(x.id, PixelOf(x, p)) /\ b = Shown(y.id, PixelOf(y, p))
  <2>1. t = Sample(Source(x, sub, Attr[x.id].trans), sub, p[1] - sub.left, p[2] - sub.top)
    BY <1>11, <1>12
  <2>2. b = Sample(Source(y, sub, Attr[y.id].trans), sub, p[1] - sub.left, p[2] - sub.top)
    BY <1>11, <1>12
  <2> HIDE DEF t, b
  <2> QED
    BY <1>10, <2>1, <2>2, PlainSample
<1> HIDE DEF e, q
<1>3. Fresh(t, x, p) /\ Fresh(b, y, p)
  BY <1>1, <1>9, SampleFresh
<1>4. t.id = x.id
  BY <1>3 DEF Fresh
<1>5. Blended(e, q, was) = CASE e.op = "clear" -> <<>>
        [] e.op = "copy" \/ (e.op = "blend" /\ ~HasAlpha(t.id)) -> <<t>>
        [] OTHER -> (IF e.src2 = <<>> THEN was ELSE <<b>>) \o <<t>>
  BY DEF Blended
<1> HIDE DEF t, b
<1>6. Blended(e, q, was) = IF ~HasAlpha(x.id) THEN <<t>> ELSE <<b>> \o <<t>>
  BY <1>1, <1>4, <1>5
<1> QED
  BY <1>2, <1>3, <1>6 DEF e, BothLayered

\* What clearing leaves at a pixel it writes.
LEMMA ClearStep ==
  ASSUME NEW p, NEW sub, NEW was, Reaches(Clear(sub), p)
  PROVE  Step(Clear(sub), p, was) = <<>>
<1>1. Clear(sub).op = "clear"
  BY DEF Clear
<1> QED
  BY <1>1 DEF Step, Blended

\* A pixel that shows the first m of the layers over: the last of them that hides
\* what is behind it, or the first one, and those in front, with newest content.
Pile(s, over, m, p) ==
  /\ s \in Seq(Elements(s))
  /\ \E c \in 1 .. m : /\ c > 1 => ~HasAlpha(over[c].id)
                       /\ \A k \in c + 1 .. m : HasAlpha(over[k].id)
                       /\ Len(s) = m - c + 1
                       /\ \A k \in 1 .. m - c + 1 : Fresh(s[k], over[c + k - 1], p)

\* A sequence of one, and of one more.
LEMMA Appended ==
  ASSUME NEW t
  PROVE  /\ <<t>> \in Seq(Elements(<<t>>)) /\ Len(<<t>>) = 1 /\ <<t>>[1] = t
         /\ \A s : s \in Seq(Elements(s)) =>
              /\ s \o <<t>> \in Seq(Elements(s \o <<t>>)) /\ Len(s \o <<t>>) = Len(s) + 1
              /\ \A k \in 1 .. Len(s) : (s \o <<t>>)[k] = s[k]
              /\ (s \o <<t>>)[Len(s) + 1] = t
<1>1. <<t>> \in Seq({t}) /\ Len(<<t>>) = 1 /\ <<t>>[1] = t /\ Elements(<<t>>) = {t}
  BY DEF Elements
<1>2. ASSUME NEW s, s \in Seq(Elements(s))
      PROVE  /\ s \o <<t>> \in Seq(Elements(s \o <<t>>)) /\ Len(s \o <<t>>) = Len(s) + 1
             /\ \A k \in 1 .. Len(s) : (s \o <<t>>)[k] = s[k]
             /\ (s \o <<t>>)[Len(s) + 1] = t
  <2> DEFINE E == Elements(s)
             V == E \cup {t}
             u == s \o <<t>>
  <2>1. s \in Seq(E)
    BY <1>2
  <2> HIDE DEF E
  <2>2. s \in Seq(V) /\ <<t>> \in Seq(V)
    BY <2>1
  <2>3. /\ u \in Seq(V) /\ Len(u) = Len(s) + 1
        /\ \A k \in 1 .. Len(s) : u[k] = s[k]
        /\ u[Len(s) + 1] = t
    <3> HIDE DEF V
    <3> QED
      BY <2>2
  <2> HIDE DEF u
  <2>4. u \in [1 .. Len(u) -> V] /\ DOMAIN u = 1 .. Len(u) /\ Len(u) \in Nat
    <3> HIDE DEF V
    <3> QED
      BY <2>3
  <2>5. \A k \in 1 .. Len(u) : u[k] \in Elements(u)
    BY <2>4 DEF Elements
  <2>6. u = [k \in 1 .. Len(u) |-> u[k]]
    BY <2>4
  <2>7. u \in [1 .. Len(u) -> Elements(u)]
    BY <2>5, <2>6
  <2>8. u \in Seq(Elements(u))
    BY <2>4, <2>7
  <2> QED
    BY <2>3, <2>8 DEF u
<1> QED
  BY <1>1, <1>2

\* Where two sequences put together have their elements.
LEMMA Joined ==
  ASSUME NEW W, NEW s \in Seq(W), NEW r \in Seq(W)
  PROVE  /\ Len(s \o r) = Len(s) + Len(r) /\ Len(s) \in Nat /\ Len(r) \in Nat
         /\ \A k \in 1 .. Len(s) : (s \o r)[k] = s[k]
         /\ \A k \in Len(s) + 1 .. Len(s) + Len(r) : (s \o r)[k] = r[k - Len(s)]
OBVIOUS

\* One more layer on the pile.
OnTop(s, t, x) == IF ~HasAlpha(x.id) THEN <<t>> ELSE s \o <<t>>

LEMMA PileMore ==
  ASSUME NEW p, NEW over, NEW m \in Nat, m >= 2, NEW s, Pile(s, over, m - 1, p),
         NEW t, Fresh(t, over[m], p)
  PROVE  Pile(OnTop(s, t, over[m]), over, m, p)
<1>1. s \in Seq(Elements(s))
  BY DEF Pile
<1>2. PICK c \in 1 .. m - 1 :
        /\ c > 1 => ~HasAlpha(over[c].id)
        /\ \A k \in c + 1 .. m - 1 : HasAlpha(over[k].id)
        /\ Len(s) = m - 1 - c + 1
        /\ \A k \in 1 .. m - 1 - c + 1 : Fresh(s[k], over[c + k - 1], p)
  BY DEF Pile
<1>3. CASE ~HasAlpha(over[m].id)
  <2>1. /\ <<t>> \in Seq(Elements(<<t>>)) /\ Len(<<t>>) = m - m + 1
        /\ \A k \in 1 .. m - m + 1 : Fresh(<<t>>[k], over[m + k - 1], p)
    <3>1. <<t>> \in Seq(Elements(<<t>>)) /\ Len(<<t>>) = 1 /\ <<t>>[1] = t
      BY Appended
    <3>2. \A k \in 1 .. m - m + 1 : k = 1 /\ m + k - 1 = m
      OBVIOUS
    <3> QED
      BY <3>1, <3>2
  <2>2. m \in 1 .. m /\ \A k \in m + 1 .. m : HasAlpha(over[k].id)
    OBVIOUS
  <2>3. Pile(<<t>>, over, m, p)
    BY <1>3, <2>1, <2>2 DEF Pile
  <2> QED
    BY <1>3, <2>3 DEF OnTop
<1>4. CASE HasAlpha(over[m].id)
  <2> DEFINE u == s \o <<t>>
  <2>1. /\ u \in Seq(Elements(u)) /\ Len(u) = Len(s) + 1
        /\ \A k \in 1 .. Len(s) : u[k] = s[k]
        /\ u[Len(s) + 1] = t
    BY <1>1, Appended
  <2> HIDE DEF u
  <2>2. c \in 1 .. m /\ Len(u) = m - c + 1 /\ Len(s) = m - c
    BY <1>2, <2>1
  <2>3. \A k \in c + 1 .. m : HasAlpha(over[k].id)
    BY <1>2, <1>4
  <2>4. ASSUME NEW k \in 1 .. m - c + 1
        PROVE  Fresh(u[k], over[c + k - 1], p)
    <3>1. CASE k = m - c + 1
      <4>1. u[k] = t /\ c + k - 1 = m
        BY <2>1, <2>2, <3>1
      <4> QED
        BY <4>1
    <3>2. CASE k # m - c + 1
      <4>1. k \in 1 .. m - 1 - c + 1 /\ k \in 1 .. Len(s)
        BY <2>2, <3>2
      <4> QED
        BY <1>2, <2>1, <4>1
    <3> QED
      BY <3>1, <3>2
  <2>5. Pile(u, over, m, p)
    BY <1>2, <2>1, <2>2, <2>3, <2>4 DEF Pile
  <2> QED
    BY <1>4, <2>5 DEF u, OnTop
<1> QED
  BY <1>3, <1>4

\* The commands of a subregion: the first of them draws the first 1 + d layers over
\* what was there, each of the others blends the next one onto that.
LEMMA PileRun ==
  ASSUME NEW p \in Pixels, NEW sub \in IntRect, InRect(p, sub), NEW over,
         NEW t, Len(t) \in Nat, Len(t) >= 1, NEW was, NEW d \in {0, 1},
         \A k \in 2 .. Len(t) : t[k] = BlendLayer(over[k + d], sub) /\ Covering(over[k + d], sub),
         Pile(Step(t[1], p, was), over, 1 + d, p)
  PROVE  Pile(AfterBlits(t, p, was), over, Len(t) + d, p)
<1> DEFINE n == Len(t)
<1>1. PICK f : Runs(f, t, p, was)
  BY OneRun
<1>2. AfterBlits(t, p, was) = f[n]
  BY <1>1, OneRun
<1>3. f[0] = was /\ \A k \in 1 .. n : f[k] = Step(t[k], p, f[k - 1])
  BY <1>1 DEF Runs
<1> DEFINE U == {k \in 0 .. n : k > 0 => Pile(f[k], over, k + d, p)}
<1>4. 0 \in U
  OBVIOUS
<1>5. ASSUME NEW k \in 1 .. n, k - 1 \in U
      PROVE  k \in U
  <2>1. CASE k = 1
    <3>1. f[1] = Step(t[1], p, was)
      <4>1. 1 \in 1 .. n /\ 1 - 1 = 0
        OBVIOUS
      <4>2. f[1] = Step(t[1], p, f[1 - 1])
        BY <1>3, <4>1
      <4> QED
        BY <1>3, <4>1, <4>2
    <3> QED
      BY <2>1, <3>1
  <2>2. CASE k # 1
    <3>1. k \in 2 .. n /\ k + d \in Nat /\ k + d >= 2 /\ k - 1 + d = k + d - 1
      BY <2>2
    <3>2. Pile(f[k - 1], over, k + d - 1, p)
      BY <1>5, <2>2, <3>1
    <3>3. t[k] = Entry("blend", over[k + d], sub) /\ Covering(over[k + d], sub)
      BY <3>1 DEF BlendLayer
    <3>4. PICK e : /\ Fresh(e, over[k + d], p)
                   /\ Step(t[k], p, f[k - 1]) = OnTop(f[k - 1], e, over[k + d])
      <4>1. Layered(Step(t[k], p, f[k - 1]), over[k + d], p, f[k - 1])
        BY <3>3, EntryStep
      <4> QED
        BY <4>1 DEF Layered, OnTop
    <3>5. f[k] = Step(t[k], p, f[k - 1])
      BY <1>3
    <3>6. Pile(OnTop(f[k - 1], e, over[k + d]), over, k + d, p)
      <4> DEFINE m == k + d
      <4>1. m \in Nat /\ m >= 2 /\ Pile(f[k - 1], over, m - 1, p) /\ Fresh(e, over[m], p)
        BY <3>1, <3>2, <3>4
      <4> HIDE DEF m
      <4>2. Pile(OnTop(f[k - 1], e, over[m]), over, m, p)
        BY <4>1, PileMore
      <4> QED
        BY <4>2 DEF m
    <3>7. Pile(f[k], over, k + d, p)
      BY <3>4, <3>5, <3>6
    <3> QED
      BY <3>7
  <2> QED
    BY <2>1, <2>2
<1>6. \A k \in 0 .. n : k \in U
  <2> HIDE DEF U
  <2> QED
    BY <1>4, <1>5, UpTo
<1> QED
  BY <1>2, <1>6

\* The commands rgz_hwc_subregion_blit chooses for the layers over, if any.
CommandsFor(over, sub) ==
  CASE over = <<>> -> <<Clear(sub)>>
    [] Len(over) = 1 -> <<CopyLayer(over[1], sub)>>
    [] OTHER -> BlendOps(over, sub)

\* They leave all layers over piled up, whatever the pixel showed before.
LEMMA CommandsPile ==
  ASSUME NEW p \in Pixels, NEW sub \in IntRect, InRect(p, sub), NEW V, NEW over \in Seq(V),
         \A k \in 1 .. Len(over) : Covering(over[k], sub), NEW was
  PROVE  /\ over = <<>> => AfterBlits(CommandsFor(over, sub), p, was) = <<>>
         /\ over # <<>> => Pile(AfterBlits(CommandsFor(over, sub), p, was), over, Len(over), p)
<1> DEFINE m == Len(over)
           t == CommandsFor(over, sub)
<1>1. m \in Nat /\ (over = <<>> <=> m = 0)
  OBVIOUS
<1>3. ASSUME NEW e, m >= 1, Fresh(e, over[1], p)
      PROVE  Pile(<<e>>, over, 1, p)
  <2>1. <<e>> \in Seq(Elements(<<e>>)) /\ Len(<<e>>) = 1 /\ <<e>>[1] = e
    BY Appended
  <2>2. \A k \in 1 .. 1 - 1 + 1 : k = 1 /\ 1 + k - 1 = 1
    OBVIOUS
  <2>3. \A k \in 1 .. 1 - 1 + 1 : Fresh(<<e>>[k], over[1 + k - 1], p)
    BY <1>3, <2>1, <2>2
  <2>4. 1 \in 1 .. 1 /\ (\A k \in 1 + 1 .. 1 : FALSE) /\ 1 - 1 + 1 = 1
    OBVIOUS
  <2> QED
    BY <2>1, <2>3, <2>4 DEF Pile
<1>4. m >= 1 => Pile(Step(CopyLayer(over[1], sub), p, was), over, 1, p)
  <2> SUFFICES ASSUME m >= 1 PROVE Pile(Step(CopyLayer(over[1], sub), p, was), over, 1, p)
    OBVIOUS
  <2>1. Covering(over[1], sub)
    BY <1>1
  <2>2. PICK e : Fresh(e, over[1], p) /\ Step(Entry("copy", over[1], sub), p, was) = <<e>>
    <3>1. Copied(Step(Entry("copy", over[1], sub), p, was), over[1], p)
      BY <2>1, EntryStep
    <3> QED
      BY <3>1 DEF Copied
  <2> QED
    BY <1>3, <2>2 DEF CopyLayer
<1>5. CASE over = <<>>
  <2>1. t = <<Clear(sub)>> /\ Len(t) = 1 /\ t[1] = Clear(sub)
    BY <1>5 DEF CommandsFor
  <2> HIDE DEF t
  <2>2. Step(t[1], p, was) = <<>>
    BY <2>1, OthersReach, ClearStep
  <2>3. PICK f : Runs(f, t, p, was)
    BY <2>1, OneRun
  <2>4. AfterBlits(t, p, was) = f[1]
    BY <2>1, <2>3, OneRun
  <2>5. f[1] = Step(t[1], p, was)
    <3>1. 1 \in 1 .. Len(t) /\ 1 - 1 = 0
      BY <2>1
    <3>2. f[1] = Step(t[1], p, f[1 - 1]) /\ f[0] = was
      BY <2>3, <3>1 DEF Runs
    <3> QED
      BY <3>1, <3>2
  <2> QED
    BY <1>5, <2>2, <2>4, <2>5 DEF t
<1>6. CASE m = 1
  <2>1. t = <<CopyLayer(over[1], sub)>>
    BY <1>1, <1>6 DEF CommandsFor
  <2>2. Len(t) = 1 /\ t[1] = CopyLayer(over[1], sub)
    BY <2>1
  <2> HIDE DEF t
  <2>3. Pile(AfterBlits(t, p, was), over, Len(t) + 0, p)
    <3>1. \A k \in 2 .. Len(t) : FALSE
      BY <2>2
    <3>2. Pile(Step(t[1], p, was), over, 1 + 0, p)
      BY <1>4, <1>6, <2>2
    <3>3. Len(t) \in Nat /\ Len(t) >= 1 /\ 0 \in {0, 1}
      BY <2>2
    <3> QED
      BY <3>1, <3>2, <3>3, PileRun
  <2>4. Len(t) + 0 = m
    BY <1>6, <2>2
  <2>5. Pile(AfterBlits(t, p, was), over, m, p)
    BY <2>3, <2>4
  <2>6. over # <<>>
    BY <1>1, <1>6
  <2> QED
    BY <2>5, <2>6 DEF t
<1>7. CASE m > 1
  <2> DEFINE rest == [i \in 1 .. m - 2 |-> BlendLayer(over[i + 2], sub)]
             A == BlendLayers(over[2], over[1], sub)
             B == CopyLayer(over[1], sub)
             C == BlendLayer(over[2], sub)
  <2>1. t = BlendOps(over, sub)
    BY <1>1, <1>7 DEF CommandsFor
  <2>2. t = (IF CanBlendTogether(over[2], over[1]) THEN <<A>> ELSE <<B, C>>) \o rest
    BY <2>1 DEF BlendOps
  <2> HIDE DEF t
  <2>3. /\ Len(rest) = m - 2 /\ \A i \in 1 .. m - 2 : rest[i] = BlendLayer(over[i + 2], sub)
        /\ m - 2 \in Nat /\ rest = [i \in 1 .. m - 2 |-> rest[i]]
    BY <1>1, <1>7
  <2> HIDE DEF rest, A, B, C
  <2> DEFINE W == {rest[i] : i \in 1 .. m - 2} \cup {A, B, C}
  <2>4. rest \in Seq(W) /\ <<A>> \in Seq(W) /\ <<B, C>> \in Seq(W)
    <3>1. A \in W /\ B \in W /\ C \in W /\ \A i \in 1 .. m - 2 : rest[i] \in W
      OBVIOUS
    <3> HIDE DEF W
    <3> QED
      BY <2>3, <3>1
  <2> HIDE DEF W
  <2>5. CASE CanBlendTogether(over[2], over[1])
    <3>1. t = <<A>> \o rest /\ Len(<<A>>) = 1 /\ <<A>>[1] = A
      BY <2>2, <2>5
    <3>2. Len(t) = m - 1 /\ t[1] = A /\ \A k \in 2 .. Len(t) : t[k] = rest[k - 1]
      <4> DEFINE a == <<A>>
      <4>1. a \in Seq(W) /\ rest \in Seq(W) /\ t = a \o rest /\ Len(a) = 1 /\ a[1] = A
        BY <2>4, <3>1
      <4> HIDE DEF a, m
      <4>2. /\ Len(t) = Len(a) + Len(rest)
            /\ \A k \in 1 .. Len(a) : t[k] = a[k]
            /\ \A k \in Len(a) + 1 .. Len(a) + Len(rest) : t[k] = rest[k - Len(a)]
        BY <4>1, Joined
      <4> QED
        BY <1>1, <2>3, <4>1, <4>2
    <3>3. ASSUME NEW k \in 2 .. Len(t)
          PROVE  t[k] = BlendLayer(over[k + 1], sub) /\ Covering(over[k + 1], sub)
      <4>1. k - 1 \in 1 .. m - 2 /\ k - 1 + 2 = k + 1 /\ k + 1 \in 1 .. m
        BY <1>1, <1>7, <3>2
      <4>2. t[k] = BlendLayer(over[k + 1], sub)
        BY <2>3, <3>2, <4>1
      <4> QED
        BY <4>1, <4>2
    <3>4. Covering(over[2], sub) /\ Covering(over[1], sub)
      BY <1>1, <1>7
    <3>5. PICK e, b : /\ Fresh(e, over[2], p) /\ Fresh(b, over[1], p)
                      /\ Step(t[1], p, was) = OnTop(<<b>>, e, over[2])
      <4>1. BothLayered(Step(A, p, was), over[2], over[1], p)
        BY <2>5, <3>4, BlendStep DEF A
      <4> QED
        BY <3>2, <4>1 DEF BothLayered, OnTop
    <3>6. Pile(<<b>>, over, 2 - 1, p)
      BY <1>3, <1>7, <3>5
    <3>7. Pile(Step(t[1], p, was), over, 2, p)
      <4> DEFINE k == 2
                 u == <<b>>
      <4>1. k \in Nat /\ k >= 2 /\ Pile(u, over, k - 1, p) /\ Fresh(e, over[k], p)
        BY <3>5, <3>6
      <4> HIDE DEF k, u
      <4>2. Pile(OnTop(u, e, over[k]), over, k, p)
        BY <4>1, PileMore
      <4> QED
        BY <3>5, <4>2 DEF k, u
    <3>8. Pile(Step(t[1], p, was), over, 1 + 1, p) /\ Len(t) \in Nat /\ Len(t) >= 1
      BY <1>1, <1>7, <3>2, <3>7
    <3>9. Pile(AfterBlits(t, p, was), over, Len(t) + 1, p)
      BY <3>3, <3>8, PileRun
    <3>10. Len(t) + 1 = m
      BY <1>1, <3>2
    <3> QED
      BY <1>1, <1>7, <3>9, <3>10 DEF t
  <2>6. CASE ~CanBlendTogether(over[2], over[1])
    <3>1. t = <<B, C>> \o rest /\ Len(<<B, C>>) = 2 /\ <<B, C>>[1] = B /\ <<B, C>>[2] = C
      BY <2>2, <2>6
    <3>2. /\ Len(t) = m /\ t[1] = B /\ t[2] = C
          /\ \A k \in 3 .. Len(t) : t[k] = rest[k - 2]
      <4> DEFINE a == <<B, C>>
      <4>1. a \in Seq(W) /\ rest \in Seq(W) /\ t = a \o rest /\ Len(a) = 2 /\ a[1] = B /\ a[2] = C
        BY <2>4, <3>1
      <4> HIDE DEF a, m
      <4>2. /\ Len(t) = Len(a) + Len(rest)
            /\ \A k \in 1 .. Len(a) : t[k] = a[k]
            /\ \A k \in Len(a) + 1 .. Len(a) + Len(rest) : t[k] = rest[k - Len(a)]
        BY <4>1, Joined
      <4> QED
        BY <1>1, <2>3, <4>1, <4>2
    <3>3. ASSUME NEW k \in 2 .. Len(t)
          PROVE  t[k] = BlendLayer(over[k + 0], sub) /\ Covering(over[k + 0], sub)
      <4>1. k \in 1 .. m /\ k + 0 = k
        BY <1>1, <3>2
      <4>2. t[k] = BlendLayer(over[k], sub)
        <5>1. CASE k = 2
          BY <3>2, <5>1 DEF C
        <5>2. CASE k # 2
          <6>1. k \in 3 .. Len(t) /\ k - 2 \in 1 .. m - 2 /\ k - 2 + 2 = k
            BY <1>1, <3>2, <5>2
          <6> QED
            BY <2>3, <3>2, <6>1
        <5> QED
          BY <5>1, <5>2
      <4> QED
        BY <4>1, <4>2
    <3>4. Pile(Step(t[1], p, was), over, 1 + 0, p) /\ Len(t) \in Nat /\ Len(t) >= 1
      BY <1>1, <1>4, <1>7, <3>2 DEF B
    <3>5. Pile(AfterBlits(t, p, was), over, Len(t) + 0, p)
      BY <3>3, <3>4, PileRun
    <3>6. Len(t) + 0 = m
      BY <1>1, <3>2
    <3> QED
      BY <1>1, <1>7, <3>5, <3>6 DEF t
  <2> QED
    BY <2>5, <2>6
<1>8. m = 0 \/ m = 1 \/ m > 1
  <2> HIDE DEF m
  <2> QED
    BY <1>1
<1> QED
  BY ONLY <1>1, <1>5, <1>6, <1>7, <1>8

-----------------------------------------------------------------------------
(* Only one subregion's commands reach a pixel.                             *)

\* No command of seqs writes pixel p but those of part i.
OnlyIn(seqs, n, i, p) ==
  \A j \in 1 .. n : j # i => \A k \in 1 .. Len(seqs[j]) : ~Reaches(seqs[j][k], p)

\* If the commands of one part only write a pixel, they alone decide it.
LEMMA OnlyPart ==
  ASSUME NEW V, NEW n \in Nat, NEW seqs \in [1 .. n -> Seq(V)], NEW i \in 1 .. n, NEW p, NEW was,
         OnlyIn(seqs, n, i, p)
  PROVE  AfterBlits(FlattenSeq(seqs), p, was) = AfterBlits(seqs[i], p, was)
<1> DEFINE cs == FlattenSeq(seqs)
           t == seqs[i]
<1>1. PICK off \in [0 .. n -> Nat] : Laid(cs, seqs, n, off)
  BY Flattened
<1>2. cs \in Seq(V) /\ Len(cs) \in Nat
  BY Flattened
<1>3. t \in Seq(V) /\ Len(t) \in Nat
  OBVIOUS
<1> HIDE DEF cs
<1>4. /\ \A k \in 1 .. Len(t) : off[i - 1] + k \in 1 .. Len(cs) /\ cs[off[i - 1] + k] = t[k]
      /\ \A j \in 1 .. Len(cs) : \E m \in 1 .. n : \E k \in 1 .. Len(seqs[m]) :
           j = off[m - 1] + k /\ cs[j] = seqs[m][k]
  <2>1. /\ \A m \in 1 .. n : \A k \in 1 .. Len(seqs[m]) :
             off[m - 1] + k \in 1 .. Len(cs) /\ cs[off[m - 1] + k] = seqs[m][k]
        /\ \A j \in 1 .. Len(cs) : \E m \in 1 .. n : \E k \in 1 .. Len(seqs[m]) : j = off[m - 1] + k
    BY <1>1 DEF Laid
  <2>2. \A k \in 1 .. Len(t) : off[i - 1] + k \in 1 .. Len(cs) /\ cs[off[i - 1] + k] = t[k]
    BY <2>1
  <2>3. ASSUME NEW j \in 1 .. Len(cs)
        PROVE  \E m \in 1 .. n : \E k \in 1 .. Len(seqs[m]) : j = off[m - 1] + k /\ cs[j] = seqs[m][k]
    <3>1. PICK m \in 1 .. n : \E k \in 1 .. Len(seqs[m]) : j = off[m - 1] + k
      BY <2>1
    <3>3. PICK k \in 1 .. Len(seqs[m]) : j = off[m - 1] + k
      BY <3>1
    <3>2. cs[off[m - 1] + k] = seqs[m][k]
      BY <2>1
    <3> QED
      BY <3>3, <3>2
  <2> QED
    BY <2>2, <2>3
<1> DEFINE a == IF Len(t) = 0 THEN 0 ELSE off[i - 1]
<1>5. a \in Nat /\ a + Len(t) <= Len(cs)
  <2>1. i - 1 \in 0 .. n
    OBVIOUS
  <2>2. off[i - 1] \in Nat
    BY <2>1
  <2> HIDE DEF t
  <2>3. CASE Len(t) = 0
    BY <1>2, <2>3
  <2>4. CASE Len(t) # 0
    <3>1. Len(t) \in 1 .. Len(t)
      BY <1>3, <2>4
    <3>2. off[i - 1] + Len(t) \in 1 .. Len(cs)
      BY <1>4, <3>1
    <3> QED
      BY <2>2, <2>4, <3>2
  <2> QED
    BY <2>3, <2>4
<1>6. \A k \in 1 .. Len(t) : cs[a + k] = t[k]
  <2> HIDE DEF t
  <2>1. CASE Len(t) = 0
    BY <2>1
  <2>2. CASE Len(t) # 0
    BY <1>4, <2>2
  <2> QED
    BY <2>1, <2>2
<1>7. ASSUME NEW j \in 1 .. Len(cs), j <= a \/ j > a + Len(t)
      PROVE  ~Reaches(cs[j], p)
  <2>4. PICK m \in 1 .. n : \E k \in 1 .. Len(seqs[m]) : j = off[m - 1] + k /\ cs[j] = seqs[m][k]
    BY <1>4
  <2>1. PICK k \in 1 .. Len(seqs[m]) : j = off[m - 1] + k /\ cs[j] = seqs[m][k]
    BY <2>4
  <2>2. CASE m = i
    <3>1. k \in 1 .. Len(t) /\ j = off[i - 1] + k
      BY <2>1, <2>2
    <3>2. off[i - 1] \in Nat
      <4>1. i - 1 \in 0 .. n
        OBVIOUS
      <4> QED
        BY <4>1
    <3> HIDE DEF t
    <3> QED
      BY <1>3, <1>7, <3>1, <3>2
  <2>3. CASE m # i
    BY <2>1, <2>3 DEF OnlyIn
  <2> QED
    BY <2>2, <2>3
<1> HIDE DEF a, t
<1>8. AfterBlits(cs, p, was) = AfterBlits(t, p, was)
  <2>1. \A j \in 1 .. Len(cs) : j <= a \/ j > a + Len(t) => ~Reaches(cs[j], p)
    BY <1>7
  <2>2. Len(cs) \in Nat /\ Len(t) \in Nat
    BY <1>2, <1>3
  <2> QED
    BY ONLY <1>5, <1>6, <2>1, <2>2, OnlyThese
<1> QED
  BY <1>8 DEF cs, t

\* The layers of LayerOps that a subregion's commands draw.
Over(h, sub) ==
  LET ops == LayerOps(h, sub) IN IF ops[1].buf < 0 THEN Tail(ops) ELSE ops

\* They cover the subregion, and are all of LayerOps or all but the first one.
LEMMA OverRight ==
  ASSUME NEW L, Stack(L), NEW dmg \in OnScreen, NEW h, Stack(h.layers), NEW sub, Tile(L, dmg, sub),
         \A k \in 1 .. Len(h.layers) : \E j \in 1 .. Len(L) : h.layers[k] = L[j]
  PROVE  /\ Over(h, sub) \in Seq(RgzLayer)
         /\ \A i \in 1 .. Len(Over(h, sub)) : Covering(Over(h, sub)[i], sub)
         /\ SubregionBlits(h, sub, dmg) =
              IF Dirty(LayerOps(h, sub), sub, dmg) THEN CommandsFor(Over(h, sub), sub) ELSE <<>>
         /\ \E e \in {0, 1} :
              /\ e = 1 <=> LayerOps(h, sub)[1].buf < 0
              /\ Len(Over(h, sub)) = Len(LayerOps(h, sub)) - e
              /\ \A i \in 1 .. Len(Over(h, sub)) : Over(h, sub)[i] = LayerOps(h, sub)[i + e]
<1> DEFINE ops == LayerOps(h, sub)
           over == IF ops[1].buf < 0 THEN Tail(ops) ELSE ops
<1>1. /\ sub \in OnScreen /\ sub.left < sub.right /\ sub.top < sub.bottom
      /\ \A r \in Frames(L) : Intersects(sub, r) => Within(sub, r)
  BY DEF Tile
<1>2. Intersects(sub, ScreenRect) /\ sub \in IntRect
  <2>1. sub.left \in 0 .. Width /\ sub.right \in 0 .. Width /\ sub.top \in 0 .. Height /\ sub.bottom \in 0 .. Height
    BY <1>1 DEF OnScreen
  <2>2. Intersects(sub, ScreenRect)
    BY <1>1, <2>1, Screen DEF Intersects, ScreenRect, Rect
  <2> QED
    BY <1>1, <2>2, Screen
<1>3. /\ ops \in Seq(RgzLayer) /\ Len(ops) > 0
      /\ \A i \in 1 .. Len(ops) : \E j \in 1 .. Len(h.layers) :
           ops[i] = h.layers[j] /\ Intersects(sub, h.layers[j].frame)
      /\ ops[1].buf >= 0 => ops[1].id \in Ids
      /\ \A i \in 2 .. Len(ops) : ops[i].buf >= 0 /\ ops[i].id \in Ids
  BY <1>2, OpsRight
<1> HIDE DEF ops
<1>4. ASSUME NEW i \in 1 .. Len(ops), ops[i].id \in Ids
      PROVE  Covering(ops[i], sub)
  <2>1. PICK k \in 1 .. Len(h.layers) : ops[i] = h.layers[k] /\ Intersects(sub, h.layers[k].frame)
    BY <1>3
  <2>2. PICK j \in 1 .. Len(L) : h.layers[k] = L[j]
    OBVIOUS
  <2>3. ops[i].frame \in Frames(L) /\ Intersects(sub, ops[i].frame)
    <3>1. DOMAIN L = 1 .. Len(L)
      BY DEF Stack
    <3> QED
      BY <2>1, <2>2, <3>1 DEF Frames
  <2>4. ops[i] \in RgzLayer
    BY <1>3
  <2> QED
    BY <1>1, <1>4, <2>3, <2>4 DEF Covering
<1>5. ops[1] \in RgzLayer /\ ops[1].buf \in Int /\ Len(ops) \in Nat
  <2>1. 1 \in 1 .. Len(ops)
    BY <1>3
  <2>2. ops[1] \in RgzLayer
    BY <1>3, <2>1
  <2> QED
    BY <1>3, <2>2 DEF RgzLayer
<1>6. PICK e \in {0, 1} :
        /\ e = 1 <=> ops[1].buf < 0
        /\ over \in Seq(RgzLayer) /\ Len(over) = Len(ops) - e
        /\ \A i \in 1 .. Len(over) : over[i] = ops[i + e]
  <2>1. CASE ops[1].buf < 0
    <3>1. ops # <<>>
      BY <1>3
    <3>2. Tail(ops) \in Seq(RgzLayer) /\ Len(Tail(ops)) = Len(ops) - 1
      BY <1>3, <3>1
    <3>3. \A i \in 1 .. Len(ops) - 1 : Tail(ops)[i] = ops[i + 1]
      BY <1>3, <3>1
    <3> QED
      BY <2>1, <3>2, <3>3
  <2>2. CASE ~(ops[1].buf < 0)
    <3>1. over = ops
      BY <2>2
    <3> HIDE DEF over
    <3>2. Len(ops) - 0 = Len(ops) /\ \A i \in 1 .. Len(ops) : i + 0 = i
      BY <1>5
    <3>3. 0 = 1 <=> ops[1].buf < 0
      BY <2>2
    <3>4. over \in Seq(RgzLayer) /\ Len(over) = Len(ops) - 0
      BY <1>3, <3>1, <3>2
    <3>5. \A i \in 1 .. Len(over) : over[i] = ops[i + 0]
      BY <3>1, <3>2
    <3> QED
      BY <3>3, <3>4, <3>5
  <2> QED
    BY <2>1, <2>2
<1> HIDE DEF over
<1>7. ASSUME NEW i \in 1 .. Len(over)
      PROVE  Covering(over[i], sub)
  <2>1. i + e \in 1 .. Len(ops) /\ over[i] = ops[i + e] /\ (i + e = 1 => e = 0)
    BY <1>5, <1>6
  <2>2. i + e = 1 \/ i + e \in 2 .. Len(ops)
    BY <2>1
  <2>3. ops[i + e].id \in Ids
    BY <1>3, <1>5, <1>6, <2>1, <2>2
  <2> QED
    BY <1>4, <2>1, <2>3
<1>8. Over(h, sub) = over
  BY DEF Over, over, ops
<1> DEFINE D == Dirty(ops, sub, dmg)
<1>9. SubregionBlits(h, sub, dmg) =
        CASE ~D -> <<>>
          [] D /\ over = <<>> -> <<Clear(sub)>>
          [] D /\ Len(over) = 1 -> <<CopyLayer(over[1], sub)>>
          [] OTHER -> BlendOps(over, sub)
  BY DEF SubregionBlits, ops, over
<1>10. over = <<>> => Len(over) # 1
  OBVIOUS
<1>11. D \in BOOLEAN
  BY DEF Dirty, Intersects
<1> HIDE DEF D
<1>12. SubregionBlits(h, sub, dmg) = IF D THEN CommandsFor(over, sub) ELSE <<>>
  BY <1>9, <1>10, <1>11 DEF CommandsFor
<1> QED
  BY <1>6, <1>7, <1>8, <1>12 DEF ops, D

\* The commands of a subregion do not write a pixel outside of it.
LEMMA OutsideUntouched ==
  ASSUME NEW p \in Pixels, NEW sub \in OnScreen, ~InRect(p, sub), NEW V, NEW over \in Seq(V),
         \A k \in 1 .. Len(over) : Covering(over[k], sub)
  PROVE  \A k \in 1 .. Len(CommandsFor(over, sub)) : ~Reaches(CommandsFor(over, sub)[k], p)
<1> DEFINE m == Len(over)
           t == CommandsFor(over, sub)
           Out == {e \in {Clear(sub)} \cup {CopyLayer(over[k], sub) : k \in 1 .. m}
                         \cup {BlendLayer(over[k], sub) : k \in 1 .. m}
                         \cup {BlendLayers(over[k], y, sub) : k \in 1 .. m, y \in {over[1]}} :
                     ~Reaches(e, p)}
<1>1. m \in Nat /\ (over = <<>> <=> m = 0)
  OBVIOUS
<1>2. ASSUME NEW k \in 1 .. m
      PROVE  /\ CopyLayer(over[k], sub) \in Out /\ BlendLayer(over[k], sub) \in Out
             /\ BlendLayers(over[k], over[1], sub) \in Out
  <2>1. ~Reaches(CopyLayer(over[k], sub), p) /\ ~Reaches(BlendLayer(over[k], sub), p)
    BY Screen, EntryReaches DEF CopyLayer, BlendLayer
  <2>2. ~Reaches(BlendLayers(over[k], over[1], sub), p)
    BY Screen, OthersReach
  <2> HIDE DEF m
  <2> QED
    BY <2>1, <2>2
<1>3. Clear(sub) \in Out
  BY Screen, OthersReach
<1>4. \A e \in Out : ~Reaches(e, p)
  OBVIOUS
<1> HIDE DEF Out
<1>5. t \in Seq(Out)
  <2>1. CASE m = 0
    <3>1. t = <<Clear(sub)>>
      BY <1>1, <2>1 DEF CommandsFor
    <3> QED
      BY <1>3, <3>1
  <2>2. CASE m = 1
    <3>1. t = <<CopyLayer(over[1], sub)>>
      BY <1>1, <2>2 DEF CommandsFor
    <3>2. 1 \in 1 .. m
      BY <2>2
    <3> HIDE DEF t
    <3> QED
      BY <1>2, <3>1, <3>2
  <2>3. CASE m > 1
    <3> DEFINE rest == [i \in 1 .. m - 2 |-> BlendLayer(over[i + 2], sub)]
               A == BlendLayers(over[2], over[1], sub)
               B == CopyLayer(over[1], sub)
               C == BlendLayer(over[2], sub)
               first == IF CanBlendTogether(over[2], over[1]) THEN <<A>> ELSE <<B, C>>
    <3>1. t = BlendOps(over, sub)
      BY <1>1, <2>3 DEF CommandsFor
    <3>2. t = first \o rest
      BY <3>1 DEF BlendOps
    <3>3. A \in Out /\ B \in Out /\ C \in Out
      BY <1>1, <1>2, <2>3
    <3>4. rest \in Seq(Out)
      <4>1. ASSUME NEW i \in 1 .. m - 2
            PROVE  BlendLayer(over[i + 2], sub) \in Out
        <5>1. i + 2 \in 1 .. m
          BY <1>1
        <5> QED
          BY <1>2, <5>1
      <4>2. m - 2 \in Nat
        BY <1>1, <2>3
      <4> HIDE DEF m
      <4> QED
        BY <4>1, <4>2
    <3> HIDE DEF t, rest, A, B, C
    <3>5. first \in Seq(Out)
      BY <3>3
    <3> HIDE DEF first
    <3> QED
      BY <3>2, <3>4, <3>5
  <2> HIDE DEF m
  <2> QED
    BY <1>1, <2>1, <2>2, <2>3
<1> HIDE DEF t
<1>6. \A k \in 1 .. Len(t) : t[k] \in Out
  BY <1>5
<1> QED
  BY <1>4, <1>6 DEF t

\* The sequence t has the elements of L at the places g, from front to back as L.
From(g, t, L) ==
  /\ Len(t) \in Nat /\ g \in [1 .. Len(t) -> 1 .. Len(L)]
  /\ \A k \in 1 .. Len(t) : t[k] = L[g[k]]
  /\ \A j, k \in 1 .. Len(t) : j < k => g[j] < g[k]

\* Chosen takes the elements at these places, in their order.
LEMMA ChosenPlaces ==
  ASSUME NEW n \in Nat, NEW s, Len(s) = n, NEW I \in SUBSET (1 .. n)
  PROVE  \E g : /\ From(g, Chosen(s, I), s)
                /\ \A i \in 1 .. n : i \in I <=> \E k \in 1 .. Len(Chosen(s, I)) : g[k] = i
<1> DEFINE c == Cardinality(I)
           t == Chosen(s, I)
           a == Ascending(I)
           g == [k \in 1 .. c |-> a[k]]
<1>1. Picks(t, s, I)
  BY ChosenRight
<1> HIDE DEF t
<1>2. /\ c \in Nat /\ t = [k \in 1 .. c |-> s[a[k]]]
      /\ \A k \in 1 .. c : a[k] \in I /\ t[k] = s[a[k]]
      /\ \A i \in I : Below(I, i) + 1 \in 1 .. c /\ a[Below(I, i) + 1] = i
      /\ \A j, k \in 1 .. c : j < k => a[j] < a[k]
  BY <1>1 DEF Picks
<1> HIDE DEF a, c
<1>3. Len(t) = c
  BY <1>2
<1>4. g \in [1 .. c -> 1 .. n] /\ \A k \in 1 .. c : g[k] = a[k]
  BY <1>2
<1> HIDE DEF g
<1>5. From(g, t, s)
  BY <1>2, <1>3, <1>4 DEF From
<1>6. ASSUME NEW i \in 1 .. n
      PROVE  i \in I <=> \E k \in 1 .. c : g[k] = i
  <2>1. i \in I => \E k \in 1 .. c : g[k] = i
    BY <1>2, <1>4
  <2>2. (\E k \in 1 .. c : g[k] = i) => i \in I
    BY <1>2, <1>4
  <2> QED
    BY <2>1, <2>2
<1> QED
  BY <1>3, <1>5, <1>6 DEF t

\* Meeting leaves the layers that meet the rectangle in their order.
LEMMA MeetingPlaces ==
  ASSUME NEW L, Stack(L), NEW r
  PROVE  \E g : /\ From(g, Meeting(L, r), L)
                /\ \A i \in 1 .. Len(L) :
                     Intersects(r, L[i].frame) <=> \E k \in 1 .. Len(Meeting(L, r)) : g[k] = i
<1> DEFINE n == Len(L)
           I == {i \in DOMAIN L : Intersects(r, L[i].frame)}
<1>1. n \in Nat /\ DOMAIN L = 1 .. n
  BY DEF Stack
<1>2. I \in SUBSET (1 .. n) /\ Meeting(L, r) = Chosen(L, I)
  BY <1>1 DEF Meeting
<1>3. \A i \in 1 .. n : i \in I <=> Intersects(r, L[i].frame)
  BY <1>1
<1> HIDE DEF I
<1>4. PICK g : /\ From(g, Chosen(L, I), L)
               /\ \A i \in 1 .. n : i \in I <=> \E k \in 1 .. Len(Chosen(L, I)) : g[k] = i
  BY <1>1, <1>2, ChosenPlaces
<1> QED
  BY <1>2, <1>3, <1>4

\* The layers ops that LayerOps takes at pixel p: those of L that are there from the
\* frontmost opaque one on.
OpsOf(g, ops, L, p) ==
  /\ From(g, ops, L) /\ Len(ops) > 0
  /\ \A i \in 1 .. Len(L) :
       (\E k \in 1 .. Len(ops) : g[k] = i) <=> InRect(p, L[i].frame) /\ i >= g[1]
  /\ Opaque(ops[1]) /\ \A k \in 2 .. Len(ops) : ~Opaque(ops[k])

\* Two rectangles around a pixel meet.
LEMMA MeetAt ==
  ASSUME NEW p \in Pixels, NEW q \in IntRect, NEW r \in IntRect, InRect(p, q), InRect(p, r)
  PROVE  Intersects(q, r)
<1>1. p[1] \in Int /\ p[2] \in Int
  BY Screen DEF Pixels
<1>2. /\ q.left \in Int /\ q.top \in Int /\ q.right \in Int /\ q.bottom \in Int
      /\ r.left \in Int /\ r.top \in Int /\ r.right \in Int /\ r.bottom \in Int
  BY DEF IntRect
<1> QED
  BY <1>1, <1>2 DEF InRect, Intersects

\* Of a stack, the places from the last opaque layer on.
LEMMA OpsFrom ==
  ASSUME NEW h, Stack(h.layers), NEW sub, Intersects(sub, ScreenRect)
  PROVE  \E b \in 1 .. Len(Meeting(h.layers, sub)) :
           LET here == Meeting(h.layers, sub)
               ops == LayerOps(h, sub)
           IN  /\ Len(ops) = Len(here) - b + 1
               /\ \A k \in 1 .. Len(ops) : ops[k] = here[b + k - 1]
               /\ Opaque(here[b]) /\ \A k \in b + 1 .. Len(here) : ~Opaque(here[k])
<1> DEFINE here == Meeting(h.layers, sub)
           n == Len(here)
           base == {i \in DOMAIN here : Opaque(here[i])}
           b == IF base = {} THEN 1 ELSE Max(base)
           ops == LayerOps(h, sub)
<1>1. Stack(here)
  BY MeetingRight
<1>2. ops = SubSeq(here, b, n)
  BY DEF LayerOps
<1> HIDE DEF here, ops
<1>3. /\ here \in Seq(RgzLayer) /\ n \in Nat /\ n > 0 /\ DOMAIN here = 1 .. n
      /\ here[1].buf = BackgroundBuf
  BY <1>1 DEF Stack
<1>4. 1 \in base
  BY <1>3 DEF Opaque, BackgroundBuf
<1>5. base \in SUBSET (1 .. n)
  BY <1>3
<1>6. b \in 1 .. n /\ b \in base /\ \A y \in base : y <= b
  <2>1. IsFiniteSet(base) /\ base # {} /\ base \in SUBSET Int
    <3>1. n \in Int /\ base \in SUBSET (1 .. n)
      BY <1>3, <1>5
    <3>2. IsFiniteSet(base)
      BY ONLY <3>1, CountIsNat
    <3> QED
      BY <1>4, <1>5, <3>2
  <2> HIDE DEF base
  <2>2. Max(base) \in base /\ \A y \in base : y <= Max(base)
    BY <2>1, FiniteEnds
  <2> QED
    BY <1>5, <2>1, <2>2
<1> HIDE DEF b
<1>7. ops \in Seq(RgzLayer) /\ Len(ops) = n - b + 1 /\ \A i \in 1 .. n - b + 1 : ops[i] = here[b + i - 1]
  <2>1. b \in Int /\ n \in Int /\ 1 <= b /\ b <= n /\ here \in Seq(RgzLayer) /\ Len(here) = n
    BY <1>3, <1>6
  <2> HIDE DEF n
  <2>2. SubSeq(here, b, n) \in Seq(RgzLayer) /\ Len(SubSeq(here, b, n)) = n - b + 1
    BY <2>1
  <2>3. \A i \in 1 .. n - b + 1 : SubSeq(here, b, n)[i] = here[b + i - 1]
    BY <2>1
  <2> QED
    BY <1>2, <2>2, <2>3
<1>8. Opaque(here[b]) /\ \A k \in b + 1 .. n : ~Opaque(here[k])
  <2>1. Opaque(here[b])
    BY <1>6
  <2>2. ASSUME NEW k \in b + 1 .. n
        PROVE  ~Opaque(here[k])
    <3>1. k \in 1 .. n /\ ~(k <= b)
      BY <1>6
    <3>2. k \notin base /\ k \in DOMAIN here
      BY <1>3, <1>6, <3>1
    <3> QED
      BY <3>2
  <2> QED
    BY <2>1, <2>2
<1> QED
  BY <1>6, <1>7, <1>8 DEF here, ops

\* What a subregion's layers are, seen from one of its pixels.
LEMMA OpsAt ==
  ASSUME NEW L, Stack(L), NEW r \in IntRect, Intersects(r, ScreenRect), NEW h, h.layers = Meeting(L, r),
         NEW dmg \in OnScreen, NEW sub, Tile(L, dmg, sub), NEW p \in Pixels, InRect(p, sub), InRect(p, r)
  PROVE  \E g : OpsOf(g, LayerOps(h, sub), L, p)
<1> DEFINE m == Meeting(L, r)
           here == Meeting(h.layers, sub)
           ops == LayerOps(h, sub)
<1>1. /\ sub \in OnScreen /\ sub \in IntRect /\ Intersects(sub, ScreenRect)
      /\ \A f \in Frames(L) : Intersects(sub, f) => Within(sub, f)
  <2>1. /\ sub \in OnScreen /\ sub.left < sub.right /\ sub.top < sub.bottom
        /\ \A f \in Frames(L) : Intersects(sub, f) => Within(sub, f)
    BY DEF Tile
  <2>2. sub.left \in 0 .. Width /\ sub.right \in 0 .. Width /\ sub.top \in 0 .. Height /\ sub.bottom \in 0 .. Height
    BY <2>1 DEF OnScreen
  <2>3. Intersects(sub, ScreenRect)
    BY <2>1, <2>2, Screen DEF Intersects, ScreenRect, Rect
  <2> QED
    BY <2>1, <2>3, Screen
<1>2. Stack(m) /\ h.layers = m
  BY MeetingRight
<1>3. PICK a : /\ From(a, m, L)
               /\ \A i \in 1 .. Len(L) : Intersects(r, L[i].frame) <=> \E k \in 1 .. Len(m) : a[k] = i
  BY MeetingPlaces
<1>4. PICK c : /\ From(c, here, m)
               /\ \A i \in 1 .. Len(m) : Intersects(sub, m[i].frame) <=> \E k \in 1 .. Len(here) : c[k] = i
  BY <1>2, MeetingPlaces
<1>5. PICK b \in 1 .. Len(here) :
        /\ Len(ops) = Len(here) - b + 1
        /\ \A k \in 1 .. Len(ops) : ops[k] = here[b + k - 1]
        /\ Opaque(here[b]) /\ \A k \in b + 1 .. Len(here) : ~Opaque(here[k])
  BY <1>1, <1>2, OpsFrom
<1>6. \A i \in 1 .. Len(L) : L[i].frame \in IntRect /\ L[i].frame \in Frames(L)
  BY StackFrame DEF Stack, Frames
<1> HIDE DEF m, here, ops
<1> DEFINE N == Len(ops)
           g == [k \in 1 .. N |-> a[c[b + k - 1]]]
<1>7. /\ Len(m) \in Nat /\ a \in [1 .. Len(m) -> 1 .. Len(L)]
      /\ \A k \in 1 .. Len(m) : m[k] = L[a[k]]
      /\ \A j, k \in 1 .. Len(m) : j < k => a[j] < a[k]
  BY <1>3 DEF From
<1>8. /\ Len(here) \in Nat /\ c \in [1 .. Len(here) -> 1 .. Len(m)]
      /\ \A k \in 1 .. Len(here) : here[k] = m[c[k]]
      /\ \A j, k \in 1 .. Len(here) : j < k => c[j] < c[k]
  BY <1>4 DEF From
<1>9. N \in Nat /\ N > 0 /\ \A k \in 1 .. N : b + k - 1 \in 1 .. Len(here) /\ b + k - 1 >= b
  BY <1>5, <1>8
<1>10. g \in [1 .. N -> 1 .. Len(L)] /\ \A k \in 1 .. N : g[k] = a[c[b + k - 1]]
  <2>1. ASSUME NEW k \in 1 .. N
        PROVE  a[c[b + k - 1]] \in 1 .. Len(L)
    BY <1>7, <1>8, <1>9
  <2> HIDE DEF N
  <2> QED
    BY <2>1
<1> HIDE DEF g
<1>11. ASSUME NEW k \in 1 .. N
       PROVE  ops[k] = L[g[k]]
  <2>1. ops[k] = here[b + k - 1] /\ b + k - 1 \in 1 .. Len(here)
    BY <1>5, <1>9
  <2>2. here[b + k - 1] = m[c[b + k - 1]] /\ c[b + k - 1] \in 1 .. Len(m)
    BY <1>8, <2>1
  <2>3. m[c[b + k - 1]] = L[a[c[b + k - 1]]]
    BY <1>7, <2>2
  <2> QED
    BY <1>10, <2>1, <2>2, <2>3
<1>12. ASSUME NEW j \in 1 .. N, NEW k \in 1 .. N, j < k
       PROVE  g[j] < g[k]
  <2>1. b + j - 1 < b + k - 1 /\ b + j - 1 \in 1 .. Len(here) /\ b + k - 1 \in 1 .. Len(here)
    BY <1>5, <1>9, <1>12
  <2>2. c[b + j - 1] < c[b + k - 1] /\ c[b + j - 1] \in 1 .. Len(m) /\ c[b + k - 1] \in 1 .. Len(m)
    BY <1>8, <2>1
  <2> QED
    BY <1>7, <1>10, <2>2
<1>13. From(g, ops, L)
  BY <1>9, <1>10, <1>11, <1>12 DEF From
<1>14. 1 \in 1 .. N /\ b + 1 - 1 = b
  BY <1>5, <1>9
<1>15. Opaque(ops[1]) /\ \A k \in 2 .. N : ~Opaque(ops[k])
  <2>1. ops[1] = here[b]
    BY <1>5, <1>14
  <2>2. ASSUME NEW k \in 2 .. N
        PROVE  ~Opaque(ops[k])
    <3>1. k \in 1 .. N /\ b + k - 1 \in b + 1 .. Len(here)
      BY <1>5, <1>8, <1>9
    <3> QED
      BY <1>5, <3>1
  <2> QED
    BY <1>5, <2>1, <2>2
<1>16. ASSUME NEW k \in 1 .. N
       PROVE  InRect(p, L[g[k]].frame) /\ g[k] >= g[1]
  <2>1. b + k - 1 \in 1 .. Len(here) /\ c[b + k - 1] \in 1 .. Len(m) /\ g[k] = a[c[b + k - 1]]
    BY <1>8, <1>9, <1>10
  <2>2. Intersects(sub, m[c[b + k - 1]].frame)
    BY <1>4, <2>1
  <2>3. m[c[b + k - 1]] = L[g[k]] /\ g[k] \in 1 .. Len(L)
    BY <1>7, <1>10, <2>1
  <2>4. Within(sub, L[g[k]].frame) /\ L[g[k]].frame \in IntRect
    BY <1>1, <1>6, <2>2, <2>3
  <2>5. InRect(p, L[g[k]].frame)
    BY <1>1, <2>4, WithinHolds
  <2>6. g[k] >= g[1]
    <3>1. k = 1 \/ 1 < k
      BY <1>9
    <3>2. g[k] \in Int /\ g[1] \in Int
      BY <1>10, <1>14
    <3> QED
      BY <1>12, <1>14, <3>1, <3>2
  <2> QED
    BY <2>5, <2>6
<1>17. ASSUME NEW i \in 1 .. Len(L), InRect(p, L[i].frame), i >= g[1]
       PROVE  \E k \in 1 .. N : g[k] = i
  <2>1. L[i].frame \in IntRect
    BY <1>6
  <2>2. Intersects(r, L[i].frame) /\ Intersects(sub, L[i].frame)
    BY <1>1, <1>17, <2>1, MeetAt
  <2>3. PICK j \in 1 .. Len(m) : a[j] = i
    BY <1>3, <2>2
  <2>4. PICK q \in 1 .. Len(here) : c[q] = j
    BY <1>4, <1>7, <2>2, <2>3
  <2>5. q >= b
    <3>1. SUFFICES ASSUME q < b PROVE FALSE
      BY <1>5, <1>8
    <3>2. c[q] < c[b] /\ c[b] \in 1 .. Len(m)
      BY <1>5, <1>8, <3>1
    <3>3. a[c[q]] < a[c[b]]
      BY <1>7, <2>3, <2>4, <3>2
    <3>4. a[c[b]] = g[1] /\ a[c[q]] = i /\ g[1] \in Int
      BY <1>10, <1>14, <2>3, <2>4
    <3> QED
      BY <1>17, <3>3, <3>4
  <2>6. q - b + 1 \in 1 .. N /\ b + (q - b + 1) - 1 = q
    BY <1>5, <1>8, <2>5
  <2> QED
    BY <1>10, <2>3, <2>4, <2>6
<1>18. \A i \in 1 .. Len(L) : (\E k \in 1 .. N : g[k] = i) <=> InRect(p, L[i].frame) /\ i >= g[1]
  BY <1>16, <1>17
<1>19. OpsOf(g, ops, L, p)
  BY <1>9, <1>13, <1>15, <1>18 DEF OpsOf
<1> QED
  BY <1>19 DEF ops

\* A horizontal region: the layers that meet its rectangle, which reaches from the
\* left to the right of the screen and holds the pixels of its subregions.
LEMMA RegionRect ==
  ASSUME NEW L, Stack(L), NEW dmg \in OnScreen, NEW i \in DOMAIN HRegions(L, dmg),
         NEW s \in DOMAIN Subregions(HRegions(L, dmg)[i], dmg), NEW p \in Pixels,
         InRect(p, Subregions(HRegions(L, dmg)[i], dmg)[s])
  PROVE  LET h == HRegions(L, dmg)[i] IN
         /\ h.layers = Meeting(L, h.rect) /\ h.rect \in IntRect
         /\ Intersects(h.rect, ScreenRect) /\ InRect(p, h.rect)
<1> DEFINE S == Elements(YArray(L, dmg))
           ys == Ascending(S)
           m == Cardinality(S)
           h == HRegions(L, dmg)[i]
           q == Strip(ys, i)
           X == Elements(XArray(h.layers, dmg))
           xs == Ascending(X)
           subs == Subregions(h, dmg)
<1>1. Pieces(ys, m, S, Height)
  BY HRegionsRight
<1>2. i \in 1 .. m - 1 /\ h = [rect |-> Strip(ys, i), layers |-> Meeting(L, Strip(ys, i))]
  <2>1. HRegions(L, dmg) = [j \in 1 .. m - 1 |-> [rect |-> Strip(ys, j), layers |-> Meeting(L, Strip(ys, j))]]
    BY HRegionsRight
  <2> HIDE DEF ys, m
  <2> QED
    BY <2>1
<1>3. Stack(h.layers)
  BY RegionLayers
<1>4. subs = [j \in 1 .. Cardinality(X) - 1 |-> Rect(xs[j], h.rect.top, xs[j + 1], h.rect.bottom)]
  BY <1>3, SubregionsRight
<1>5. s \in DOMAIN subs /\ InRect(p, subs[s])
  OBVIOUS
<1> HIDE DEF ys, m, h, S, X, xs, subs
<1>6. subs[s].top = h.rect.top /\ subs[s].bottom = h.rect.bottom
  BY <1>4, <1>5 DEF Rect
<1>7. ys[i] \in 0 .. Height /\ ys[i + 1] \in 0 .. Height /\ ys[i] < ys[i + 1]
  BY <1>1, <1>2 DEF Pieces
<1>8. q.top = ys[i] /\ q.bottom = ys[i + 1] /\ q.left = 0 /\ q.right = Width /\ q \in IntRect
  BY <1>7, Screen DEF Strip, Rect, IntRect
<1>9. Intersects(q, ScreenRect)
  BY <1>7, <1>8, Screen DEF Intersects, ScreenRect, Rect
<1>10. h.rect = q /\ h.layers = Meeting(L, q)
  BY <1>2
<1> HIDE DEF q
<1>11. InRect(p, q)
  <2>1. p[1] \in 0 .. Width - 1
    BY Screen DEF Pixels
  <2> QED
    BY <1>5, <1>6, <1>8, <1>10, <2>1, Screen DEF InRect
<1> QED
  BY <1>8, <1>9, <1>10, <1>11 DEF h

\* Only the commands of the subregion that holds it write a pixel.
LEMMA TileDecides ==
  ASSUME NEW L, Stack(L), NEW dmg \in OnScreen, NEW i \in DOMAIN HRegions(L, dmg),
         NEW s \in DOMAIN Subregions(HRegions(L, dmg)[i], dmg), NEW p \in Pixels,
         InRect(p, Subregions(HRegions(L, dmg)[i], dmg)[s]), NEW was
  PROVE  AfterBlits(RegionBlits(HRegions(L, dmg), dmg), p, was)
           = AfterBlits(SubregionBlits(HRegions(L, dmg)[i], Subregions(HRegions(L, dmg)[i], dmg)[s], dmg), p, was)
<1> DEFINE H == HRegions(L, dmg)
           Sub(j) == Subregions(H[j], dmg)
           Part(j) == [k \in DOMAIN Sub(j) |-> SubregionBlits(H[j], Sub(j)[k], dmg)]
           m == Cardinality(Elements(YArray(L, dmg)))
           t == [j \in DOMAIN H |-> FlattenSeq(Part(j))]
<1>1. RegionBlits(H, dmg) = FlattenSeq(t)
  BY DEF RegionBlits
<1>2. ASSUME NEW j \in DOMAIN H
      PROVE  /\ Len(Sub(j)) \in Nat /\ DOMAIN Sub(j) = 1 .. Len(Sub(j))
             /\ Part(j) \in [1 .. Len(Sub(j)) -> Seq(GoodCommands)]
             /\ \A k \in 1 .. Len(Sub(j)) : j # i \/ k # s =>
                  \A c \in 1 .. Len(Part(j)[k]) : ~Reaches(Part(j)[k][c], p)
  <2>1. Sub(j) \in Seq(OnScreen) /\ \A k \in DOMAIN Sub(j) : Tile(L, dmg, Sub(j)[k])
    BY TileRight
  <2>2. /\ Stack(H[j].layers)
        /\ \A k \in 1 .. Len(H[j].layers) : \E c \in 1 .. Len(L) : H[j].layers[k] = L[c]
    BY RegionLayers
  <2>3. \A k \in DOMAIN Sub(j) : InRect(p, Sub(j)[k]) => j = i /\ k = s
    BY OneTile
  <2> DEFINE subs == Sub(j)
             h == H[j]
             u == Part(j)
  <2>4. \A k \in DOMAIN subs : u[k] = SubregionBlits(h, subs[k], dmg)
    OBVIOUS
  <2>5. DOMAIN u = DOMAIN subs /\ u = [k \in DOMAIN u |-> u[k]]
    OBVIOUS
  <2> HIDE DEF H, Sub, Part
  <2>6. Len(subs) \in Nat /\ DOMAIN subs = 1 .. Len(subs)
    BY <2>1
  <2> HIDE DEF subs, h, u
  <2>7. ASSUME NEW k \in DOMAIN subs
        PROVE  u[k] \in Seq(GoodCommands)
    <3>1. Tile(L, dmg, subs[k])
      BY <2>1 DEF subs
    <3> QED
      BY <2>2, <2>4, <3>1, SubregionGood DEF h
  <2>8. ASSUME NEW k \in DOMAIN subs, j # i \/ k # s
        PROVE  \A c \in 1 .. Len(u[k]) : ~Reaches(u[k][c], p)
    <3> DEFINE sub == subs[k]
               over == Over(h, sub)
    <3>1. Tile(L, dmg, sub) /\ sub \in OnScreen
      BY <2>1 DEF subs, Tile
    <3>2. ~InRect(p, sub)
      BY <2>3, <2>8 DEF subs
    <3> HIDE DEF sub
    <3>3. /\ over \in Seq(RgzLayer) /\ \A c \in 1 .. Len(over) : Covering(over[c], sub)
          /\ SubregionBlits(h, sub, dmg) =
               IF Dirty(LayerOps(h, sub), sub, dmg) THEN CommandsFor(over, sub) ELSE <<>>
      BY <2>2, <3>1, OverRight DEF h
    <3> HIDE DEF over
    <3>4. \A c \in 1 .. Len(CommandsFor(over, sub)) : ~Reaches(CommandsFor(over, sub)[c], p)
      BY <3>1, <3>2, <3>3, OutsideUntouched
    <3>5. u[k] = CommandsFor(over, sub) \/ u[k] = <<>>
      BY <2>4, <3>3 DEF sub
    <3>6. \A c \in 1 .. Len(<<>>) : FALSE
      OBVIOUS
    <3> QED
      BY <3>4, <3>5, <3>6
  <2>9. u \in [1 .. Len(subs) -> Seq(GoodCommands)]
    BY <2>5, <2>6, <2>7
  <2> QED
    BY <2>6, <2>8, <2>9 DEF u, subs
<1>3. DOMAIN H = 1 .. m - 1 /\ m \in Nat
  BY HRegionsRight DEF Pieces
<1>4. i \in DOMAIN H /\ s \in DOMAIN Sub(i)
  OBVIOUS
<1> DEFINE inner == Part(i)
           ours == SubregionBlits(H[i], Sub(i)[s], dmg)
<1>5. inner[s] = ours /\ t[i] = FlattenSeq(inner)
  OBVIOUS
<1>6. \A j \in DOMAIN H : t[j] = FlattenSeq(Part(j))
  OBVIOUS
<1>7. DOMAIN t = DOMAIN H /\ t = [j \in DOMAIN t |-> t[j]]
  OBVIOUS
<1> HIDE DEF H, m, Part, Sub, t, ours
<1>8. PICK n \in Nat : DOMAIN H = 1 .. n
  <2>1. CASE m = 0
    <3>1. 1 .. m - 1 = 1 .. 0
      BY <2>1
    <3> QED
      BY <1>3, <3>1
  <2>2. CASE m # 0
    <3>1. m - 1 \in Nat
      BY <1>3, <2>2
    <3> QED
      BY <1>3, <3>1
  <2> QED
    BY <2>1, <2>2
<1>9. ASSUME NEW j \in 1 .. n
      PROVE  t[j] \in Seq(GoodCommands)
  <2> DEFINE u == Part(j)
             len == Len(Sub(j))
  <2>1. len \in Nat /\ u \in [1 .. len -> Seq(GoodCommands)]
    BY <1>2, <1>8
  <2>2. t[j] = FlattenSeq(u)
    BY <1>6, <1>8
  <2> HIDE DEF u, len
  <2>3. FlattenSeq(u) \in Seq(GoodCommands)
    BY ONLY <2>1, Flattened
  <2> QED
    BY <2>2, <2>3
<1>10. t \in [1 .. n -> Seq(GoodCommands)]
  BY <1>7, <1>8, <1>9
<1>11. ASSUME NEW j \in 1 .. n, j # i, NEW c \in 1 .. Len(t[j])
       PROVE  ~Reaches(t[j][c], p)
  <2> DEFINE u == Part(j)
             len == Len(Sub(j))
             f == FlattenSeq(u)
  <2>1. /\ len \in Nat /\ u \in [1 .. len -> Seq(GoodCommands)]
        /\ \A k \in 1 .. len : \A b \in 1 .. Len(u[k]) : ~Reaches(u[k][b], p)
    BY <1>2, <1>8, <1>11
  <2>2. t[j] = f
    BY <1>6, <1>8
  <2> HIDE DEF u, len, f
  <2>3. MadeOf(f, u, len)
    <3>1. MadeOf(FlattenSeq(u), u, len)
      BY ONLY <2>1, FlatElements
    <3> QED
      BY <3>1 DEF f
  <2>4. PICK k \in 1 .. len : \E b \in 1 .. Len(u[k]) : f[c] = u[k][b]
    BY <1>11, <2>2, <2>3 DEF MadeOf
  <2> QED
    BY <2>1, <2>2, <2>4
<1>12. AfterBlits(FlattenSeq(t), p, was) = AfterBlits(t[i], p, was)
  <2>1. i \in 1 .. n
    BY <1>4, <1>8
  <2>2. OnlyIn(t, n, i, p)
    BY <1>11 DEF OnlyIn
  <2> QED
    BY ONLY <1>8, <1>10, <2>1, <2>2, OnlyPart
<1>13. AfterBlits(FlattenSeq(inner), p, was) = AfterBlits(inner[s], p, was)
  <2> DEFINE len == Len(Sub(i))
  <2>1. /\ len \in Nat /\ inner \in [1 .. len -> Seq(GoodCommands)] /\ s \in 1 .. len
        /\ OnlyIn(inner, len, s, p)
    BY <1>2, <1>4 DEF OnlyIn
  <2> HIDE DEF len, inner
  <2> QED
    BY ONLY <2>1, OnlyPart
<1>14. AfterBlits(RegionBlits(H, dmg), p, was) = AfterBlits(ours, p, was)
  BY <1>1, <1>5, <1>12, <1>13
<1> QED
  BY <1>14 DEF ours, Sub, H

-----------------------------------------------------------------------------
(* What a pixel shows.                                                      *)

\* Nothing behind layer x is seen where x is.
Hides(x) == x.buf < 0 \/ ~Attr[x.id].premult \/ ~HasAlpha(x.id)

\* The layers of L that the framebuffer has to show at pixel p.
Own(L, p) ==
  {i \in 1 .. Len(L) : /\ L[i].buf >= 0 /\ InRect(p, L[i].frame)
                       /\ \A k \in i + 1 .. Len(L) : InRect(p, L[k].frame) => ~Hides(L[k])}

\* s shows these and nothing else, from back to front: its kth is L[w[k]], and what it
\* has of that layer is what the layer shows at p.
ShowsAs(w, s, L, p) ==
  /\ Len(s) \in Nat /\ s = [k \in 1 .. Len(s) |-> s[k]]
  /\ w \in [1 .. Len(s) -> Own(L, p)]
  /\ \A j, k \in 1 .. Len(s) : j < k => w[j] < w[k]
  /\ \A i \in Own(L, p) : \E k \in 1 .. Len(s) : w[k] = i
  /\ \A k \in 1 .. Len(s) : s[k] = [id |-> L[w[k]].id, at |-> s[k].at, new |-> s[k].new]
  /\ \A k \in 1 .. Len(s) : Sampled(s[k], L[w[k]], p)
Shows(s, L, p) == \E w : ShowsAs(w, s, L, p)
AllNew(s) == \A k \in 1 .. Len(s) : s[k].new = TRUE

\* The layers drawn are those of LayerOps, all or all but the first one, which has no
\* buffer then.
DrawnOf(over, ops, e) ==
  /\ e \in {0, 1}
  /\ e = 1 <=> ops[1].buf < 0
  /\ Len(over) = Len(ops) - e
  /\ \A i \in 1 .. Len(over) : over[i] = ops[i + e]

\* What is redrawn at a pixel shows what it has to.
LEMMA RedrawnShows ==
  ASSUME NEW L, Stack(L), NEW p, NEW ops, NEW g, OpsOf(g, ops, L, p),
         NEW V, NEW over \in Seq(V), NEW e, DrawnOf(over, ops, e), NEW s,
         over = <<>> => s = <<>>, over # <<>> => Pile(s, over, Len(over), p)
  PROVE  Shows(s, L, p) /\ AllNew(s)
<1> DEFINE m == Len(over)
           O == Own(L, p)
<1>1. m \in Nat /\ (over = <<>> <=> m = 0)
  OBVIOUS
<1>2. /\ e \in {0, 1} /\ (e = 1 <=> ops[1].buf < 0) /\ m = Len(ops) - e
      /\ \A i \in 1 .. m : over[i] = ops[i + e]
  BY DEF DrawnOf
<1>3. /\ Len(ops) \in Nat /\ Len(ops) > 0 /\ g \in [1 .. Len(ops) -> 1 .. Len(L)]
      /\ \A k \in 1 .. Len(ops) : ops[k] = L[g[k]]
      /\ \A j, k \in 1 .. Len(ops) : j < k => g[j] < g[k]
  BY DEF OpsOf, From
<1>4. /\ \A i \in 1 .. Len(L) :
           (\E k \in 1 .. Len(ops) : g[k] = i) <=> InRect(p, L[i].frame) /\ i >= g[1]
      /\ Opaque(ops[1]) /\ \A k \in 2 .. Len(ops) : ~Opaque(ops[k])
  BY DEF OpsOf
<1>5. \A i \in 1 .. Len(L) : L[i].buf \in Int
  BY StackFrame DEF RgzLayer
<1> HIDE DEF m
<1>6. ASSUME NEW i \in O
      PROVE  \E k \in 1 .. m : g[k + e] = i
  <2>1. /\ i \in 1 .. Len(L) /\ L[i].buf >= 0 /\ InRect(p, L[i].frame)
        /\ \A k \in i + 1 .. Len(L) : InRect(p, L[k].frame) => ~Hides(L[k])
    BY DEF Own
  <2>2. 1 \in 1 .. Len(ops) /\ g[1] \in 1 .. Len(L) /\ ops[1] = L[g[1]]
    BY <1>3
  <2>3. Hides(L[g[1]])
    BY <1>4, <2>2 DEF Opaque, Hides, HasAlpha
  <2>4. InRect(p, L[g[1]].frame)
    BY <1>4, <2>2
  <2>5. ~(g[1] \in i + 1 .. Len(L))
    BY <2>1, <2>3, <2>4
  <2>6. i >= g[1]
    BY <2>1, <2>2, <2>5
  <2>7. PICK k \in 1 .. Len(ops) : g[k] = i
    BY <1>4, <2>1, <2>6
  <2>8. k - e >= 1
    <3>1. CASE e = 0
      BY <3>1
    <3>2. CASE e = 1
      <4>1. ops[1].buf < 0 /\ k # 1
        BY <1>2, <1>5, <2>1, <2>2, <2>7, <3>2
      <4> QED
        BY <3>2, <4>1
    <3> QED
      BY <1>2, <3>1, <3>2
  <2>9. k - e \in 1 .. m /\ (k - e) + e = k
    BY <1>2, <1>3, <2>8
  <2> QED
    BY <2>7, <2>9
<1>7. ASSUME NEW k \in 1 .. m
      PROVE  /\ k + e \in 1 .. Len(ops) /\ over[k] = L[g[k + e]] /\ g[k + e] \in 1 .. Len(L)
             /\ L[g[k + e]].buf >= 0 /\ InRect(p, L[g[k + e]].frame)
             /\ k > 1 => ~Opaque(over[k])
  <2>1. k + e \in 1 .. Len(ops) /\ over[k] = ops[k + e]
    BY <1>2, <1>3
  <2>2. over[k] = L[g[k + e]] /\ g[k + e] \in 1 .. Len(L)
    BY <1>3, <2>1
  <2>3. InRect(p, L[g[k + e]].frame)
    BY <1>4, <2>1, <2>2
  <2>4. k + e = 1 \/ k + e \in 2 .. Len(ops)
    BY <2>1
  <2>5. k + e = 1 => e = 0
    BY <1>2
  <2>6. L[g[k + e]].buf >= 0
    <3>1. CASE k + e = 1
      BY <1>2, <1>5, <2>1, <2>2, <2>5, <3>1
    <3>2. CASE k + e \in 2 .. Len(ops)
      <4>1. ~(over[k].buf < 0)
        BY <1>4, <2>1, <3>2 DEF Opaque
      <4> QED
        BY <1>5, <2>2, <4>1
    <3> QED
      BY <2>4, <3>1, <3>2
  <2>7. k > 1 => ~Opaque(over[k])
    <3>1. k > 1 => k + e \in 2 .. Len(ops)
      BY <1>2, <2>1
    <3> QED
      BY <1>4, <2>1, <3>1
  <2> QED
    BY <2>1, <2>2, <2>3, <2>6, <2>7
<1>8. CASE m = 0
  <2>1. O = {}
    BY <1>6, <1>8
  <2>2. s = <<>> /\ Len(s) = 0
    BY <1>1, <1>8
  <2> DEFINE w == [k \in 1 .. 0 |-> k]
  <2>3. w \in [1 .. Len(s) -> O] /\ s = [k \in 1 .. Len(s) |-> s[k]] /\ \A k \in 1 .. Len(s) : FALSE
    BY <2>2
  <2> HIDE DEF w
  <2>4. ShowsAs(w, s, L, p)
    BY <2>1, <2>2, <2>3 DEF ShowsAs
  <2> QED
    BY <2>3, <2>4 DEF Shows, AllNew
<1>9. CASE m # 0
  <2>1. PICK c \in 1 .. m : /\ c > 1 => ~HasAlpha(over[c].id)
                            /\ \A k \in c + 1 .. m : HasAlpha(over[k].id)
                            /\ Len(s) = m - c + 1
                            /\ \A k \in 1 .. m - c + 1 : Fresh(s[k], over[c + k - 1], p)
    BY <1>1, <1>9 DEF Pile, m
  <2>2. s \in Seq(Elements(s))
    BY <1>1, <1>9 DEF Pile
  <2>3. Len(s) \in Nat /\ s = [k \in 1 .. Len(s) |-> s[k]]
    BY <2>2
  <2> DEFINE N == Len(s)
             w == [k \in 1 .. N |-> g[c + k - 1 + e]]
  <2>4. \A k \in 1 .. N : c + k - 1 \in 1 .. m /\ c + k - 1 >= c
    BY <1>1, <2>1
  <2>5. ASSUME NEW k \in c .. m
        PROVE  g[k + e] \in O
    <3>1. /\ k \in 1 .. m /\ g[k + e] \in 1 .. Len(L) /\ k + e \in 1 .. Len(ops)
          /\ L[g[k + e]].buf >= 0 /\ InRect(p, L[g[k + e]].frame)
      BY <1>7
    <3>2. ASSUME NEW j \in g[k + e] + 1 .. Len(L), InRect(p, L[j].frame)
          PROVE  ~Hides(L[j])
      <4>1. j \in 1 .. Len(L) /\ j > g[k + e]
        BY <3>1
      <4>2. 1 \in 1 .. Len(ops) /\ g[1] \in 1 .. Len(L)
        BY <1>3
      <4>3. g[1] <= g[k + e]
        <5>1. 1 = k + e \/ 1 < k + e
          BY <3>1
        <5> QED
          BY <1>3, <3>1, <4>2, <5>1
      <4>4. PICK q \in 1 .. Len(ops) : g[q] = j
        <5>1. j >= g[1]
          BY <3>1, <4>1, <4>2, <4>3
        <5> QED
          BY ONLY <1>4, <3>2, <4>1, <5>1
      <4>5. q > k + e
        <5>1. SUFFICES ASSUME q < k + e \/ q = k + e PROVE FALSE
          BY <3>1
        <5>2. q < k + e => g[q] < g[k + e]
          BY <1>3, <3>1
        <5> QED
          BY <3>1, <4>1, <4>4, <5>1, <5>2
      <4>6. q - e \in c + 1 .. m /\ q - e \in 1 .. m /\ q - e > 1 /\ (q - e) + e = q
        BY <1>2, <1>3, <3>1, <4>5
      <4>7. over[q - e] = L[j] /\ ~Opaque(over[q - e])
        BY <1>7, <4>4, <4>6
      <4>8. HasAlpha(L[j].id)
        BY <2>1, <4>6, <4>7
      <4> QED
        BY <4>7, <4>8 DEF Opaque, Hides
    <3> QED
      BY <3>1, <3>2 DEF Own
  <2>6. w \in [1 .. N -> O] /\ \A k \in 1 .. N : w[k] = g[c + k - 1 + e]
    <3>1. ASSUME NEW k \in 1 .. N
          PROVE  g[c + k - 1 + e] \in O
      <4>1. c + k - 1 \in c .. m
        BY <1>1, <2>1
      <4> QED
        BY <2>5, <4>1
    <3> HIDE DEF N, O
    <3> QED
      BY <3>1
  <2> HIDE DEF w
  <2>7. ASSUME NEW j \in 1 .. N, NEW k \in 1 .. N, j < k
        PROVE  w[j] < w[k]
    <3>1. c + j - 1 \in 1 .. m /\ c + k - 1 \in 1 .. m
      BY <2>4
    <3>2. c + j - 1 + e \in 1 .. Len(ops) /\ c + k - 1 + e \in 1 .. Len(ops)
      BY <1>7, <3>1
    <3>3. c + j - 1 + e < c + k - 1 + e
      BY <1>2, <2>7
    <3> QED
      BY <1>3, <2>6, <3>2, <3>3
  <2>8. ASSUME NEW i \in O
        PROVE  \E k \in 1 .. N : w[k] = i
    <3>1. PICK k \in 1 .. m : g[k + e] = i
      BY <1>6
    <3>2. k >= c
      <4>1. SUFFICES ASSUME k < c PROVE FALSE
        BY <1>1
      <4>2. c > 1 /\ ~HasAlpha(over[c].id)
        BY <2>1, <4>1
      <4>3. over[c] = L[g[c + e]] /\ InRect(p, L[g[c + e]].frame) /\ c + e \in 1 .. Len(ops) /\ g[c + e] \in 1 .. Len(L)
        BY <1>7
      <4>4. Hides(L[g[c + e]])
        BY <4>2, <4>3 DEF Hides
      <4>5. k + e \in 1 .. Len(ops) /\ k + e < c + e
        BY <1>2, <1>7, <4>1
      <4>6. i < g[c + e] /\ i \in 1 .. Len(L)
        BY <1>3, <1>7, <3>1, <4>3, <4>5
      <4>7. g[c + e] \in i + 1 .. Len(L)
        BY <4>3, <4>6
      <4> QED
        BY <4>3, <4>4, <4>7 DEF Own
    <3>3. k - c + 1 \in 1 .. N /\ c + (k - c + 1) - 1 + e = k + e
      BY <1>1, <1>2, <2>1, <3>2
    <3> QED
      BY <2>6, <3>1, <3>3
  <2>9. ASSUME NEW k \in 1 .. N
        PROVE  /\ s[k] = [id |-> L[w[k]].id, at |-> s[k].at, new |-> s[k].new] /\ s[k].new = TRUE
               /\ Sampled(s[k], L[w[k]], p)
    <3>1. Fresh(s[k], over[c + k - 1], p) /\ c + k - 1 \in 1 .. m
      BY <2>1, <2>4
    <3>2. over[c + k - 1] = L[w[k]]
      BY <1>7, <2>6, <3>1
    <3>3. s[k] = [id |-> over[c + k - 1].id, at |-> s[k].at, new |-> TRUE] /\ Sampled(s[k], over[c + k - 1], p)
      BY <3>1 DEF Fresh
    <3>4. s[k].new = TRUE
      BY <3>3
    <3> QED
      BY <3>2, <3>3, <3>4
  <2>10. ShowsAs(w, s, L, p)
    BY <2>3, <2>6, <2>7, <2>8, <2>9 DEF ShowsAs
  <2> QED
    BY <2>9, <2>10 DEF Shows, AllNew
<1> QED
  BY <1>8, <1>9

-----------------------------------------------------------------------------
(* The lists of layers of frames that follow each other.                    *)

\* L is the regionizer's list for the passed layers l: its ith layer is l[a[i]].
ListOf(L, l, h, a) ==
  /\ Stack(L) /\ L[1].handle = Dummy
  /\ a \in [2 .. Len(L) -> 1 .. Len(l)]
  /\ \A i, j \in 2 .. Len(L) : i < j => a[i] < a[j]
  /\ \A i \in 2 .. Len(L) :
       /\ L[i].id = l[a[i]].id /\ L[i].frame = l[a[i]].frame
       /\ L[i].buf >= 0 => L[i].handle = h[L[i].id]
       /\ L[i].buf < 0 => L[i].buf = ClearHintBuf /\ L[i].handle = Dummy

\* The layers of a frame, whatever their dirty counts, are a list.
LEMMA ListRight ==
  ASSUME NEW l \in Inputs, NEW h \in [Ids -> {0, 1}], NEW L, Counted(L, RgzLayers(l, h))
  PROVE  \E a : ListOf(L, l, h, a)
<1> DEFINE R == RgzLayers(l, h)
           c == Candidates(l)
           n == Len(c)
           C == {k \in DOMAIN l : ~l[k].dss \/ HasClearHint(l[k], l)}
<1>1. /\ Stack(R) /\ Len(R) = n + 1 /\ R[1] = Background
      /\ \A i \in 1 .. n : R[i + 1] = Described(c, i, l, h)
  BY LayersRight
<1>2. /\ l \in Seq(HwcLayer) /\ Len(l) \in Nat /\ n \in Nat /\ Len(Overlays(l)) \in Nat
      /\ \A k \in 1 .. n : \E i \in 1 .. Len(l) : c[k] = l[i]
      /\ \A i \in 1 .. Len(l) : l[i].id \in Ids
  BY InputRight
<1>3. c = Chosen(l, C) /\ C \in SUBSET (1 .. Len(l))
  BY <1>2 DEF Candidates
<1> HIDE DEF c, C, R
<1>4. PICK g : From(g, c, l)
  <2>1. \E g : From(g, Chosen(l, C), l)
    BY <1>2, <1>3, ChosenPlaces
  <2> QED
    BY <1>3, <2>1
<1>5. /\ g \in [1 .. n -> 1 .. Len(l)] /\ \A k \in 1 .. n : c[k] = l[g[k]]
      /\ \A j, k \in 1 .. n : j < k => g[j] < g[k]
  BY <1>4 DEF From
<1>6. /\ L \in Seq(RgzLayer) /\ Len(L) = Len(R)
      /\ \A i \in 1 .. Len(R) : L[i] = WithDirty(R[i], L[i].dirty)
  BY DEF Counted, R
<1>7. ASSUME NEW i \in 1 .. Len(L)
      PROVE  /\ L[i].id = R[i].id /\ L[i].buf = R[i].buf /\ L[i].frame = R[i].frame
             /\ L[i].handle = R[i].handle
  <2>1. L[i] = WithDirty(R[i], L[i].dirty) /\ L[i] \in RgzLayer /\ R[i] \in RgzLayer
    BY <1>1, <1>6 DEF Stack
  <2>2. L[i].dirty \in 0 .. NumFb
    BY <2>1 DEF RgzLayer
  <2> QED
    BY <2>1, <2>2, DirtyOnly
<1>8. Stack(L)
  <2>1. \A i \in 2 .. Len(L) : i \in 1 .. Len(L)
    BY <1>1, <1>2, <1>6
  <2>2. 1 \in 1 .. Len(L)
    BY <1>1, <1>2, <1>6
  <2> QED
    BY <1>1, <1>6, <1>7, <2>1, <2>2 DEF Stack
<1> DEFINE a == [i \in 2 .. Len(L) |-> g[i - 1]]
<1>9. ASSUME NEW i \in 2 .. Len(L)
      PROVE  i - 1 \in 1 .. n /\ (i - 1) + 1 = i /\ i \in 1 .. Len(L)
  BY <1>1, <1>2, <1>6
<1>10. a \in [2 .. Len(L) -> 1 .. Len(l)] /\ \A i \in 2 .. Len(L) : a[i] = g[i - 1]
  BY <1>5, <1>9
<1> HIDE DEF a
<1>11. ASSUME NEW i \in 2 .. Len(L), NEW j \in 2 .. Len(L), i < j
       PROVE  a[i] < a[j]
  <2>1. i - 1 < j - 1
    BY <1>11
  <2> QED
    BY <1>5, <1>9, <1>10, <2>1
<1>12. ASSUME NEW i \in 2 .. Len(L)
       PROVE  /\ L[i].id = l[a[i]].id /\ L[i].frame = l[a[i]].frame
              /\ L[i].buf >= 0 => L[i].handle = h[L[i].id]
              /\ L[i].buf < 0 => L[i].buf = ClearHintBuf /\ L[i].handle = Dummy
  <2> DEFINE k == i - 1
             d == Described(c, k, l, h)
             before == Cardinality({j \in 1 .. k - 1 : ~c[j].dss})
  <2>1. /\ k \in 1 .. n /\ k + 1 = i
        /\ L[i].id = d.id /\ L[i].buf = d.buf /\ L[i].frame = d.frame /\ L[i].handle = d.handle
    BY <1>1, <1>7, <1>9
  <2>2. /\ d.id = c[k].id /\ d.frame = c[k].frame
        /\ d.buf = IF c[k].dss THEN ClearHintBuf ELSE Len(Overlays(l)) + before
        /\ d.handle = IF c[k].dss THEN Dummy ELSE h[c[k].id]
    BY DEF Described
  <2>3. before \in Nat
    <3>1. k - 1 \in Int /\ {j \in 1 .. k - 1 : ~c[j].dss} \in SUBSET (1 .. k - 1)
      BY <2>1
    <3> QED
      BY ONLY <3>1, CountIsNat
  <2> HIDE DEF d, before
  <2>4. c[k] = l[a[i]]
    BY <1>5, <1>10, <2>1
  <2>5. c[k].dss => L[i].buf = ClearHintBuf /\ L[i].handle = Dummy
    BY <2>1, <2>2
  <2>6. ~c[k].dss => L[i].buf >= 0 /\ L[i].handle = h[L[i].id]
    BY <1>2, <2>1, <2>2, <2>3
  <2>7. ClearHintBuf < 0
    BY DEF ClearHintBuf
  <2>8. ~(ClearHintBuf >= 0)
    BY DEF ClearHintBuf
  <2>9. L[i].buf \in Int
    BY <1>8, <1>9, StackFrame DEF RgzLayer
  <2>10. L[i].buf >= 0 => L[i].handle = h[L[i].id]
    BY <2>5, <2>6, <2>8
  <2>11. L[i].buf < 0 => L[i].buf = ClearHintBuf /\ L[i].handle = Dummy
    BY <2>5, <2>6, <2>9
  <2> QED
    BY <2>1, <2>2, <2>4, <2>10, <2>11
<1>13. L[1].handle = Dummy
  <2>1. 1 \in 1 .. Len(L)
    BY <1>1, <1>2, <1>6
  <2> QED
    BY <1>1, <1>7, <2>1 DEF Background
<1>14. ListOf(L, l, h, a)
  BY <1>8, <1>10, <1>11, <1>12, <1>13 DEF ListOf
<1> QED
  BY <1>14

\* A layer is in a list once.
LEMMA ListOnce ==
  ASSUME NEW l \in Inputs, NEW h, NEW L, NEW a, ListOf(L, l, h, a),
         NEW i \in 2 .. Len(L), NEW j \in 2 .. Len(L), L[i].id = L[j].id
  PROVE  i = j
<1>1. \A x, y \in 1 .. Len(l) : l[x].id = l[y].id => x = y
  BY InputRight
<1>2. a[i] \in 1 .. Len(l) /\ a[j] \in 1 .. Len(l) /\ l[a[i]].id = l[a[j]].id
  BY DEF ListOf
<1>3. a[i] = a[j] /\ a[i] \in Int
  BY <1>1, <1>2
<1>4. (i < j => a[i] < a[j]) /\ (j < i => a[j] < a[i])
  BY DEF ListOf
<1> QED
  BY <1>3, <1>4

\* Two layers of two lists are in the same order in both.
LEMMA ListOrder ==
  ASSUME StableOrder,
         NEW l \in Inputs, NEW h, NEW L, NEW a, ListOf(L, l, h, a),
         NEW m \in Inputs, NEW f, NEW T, NEW b, ListOf(T, m, f, b),
         NEW i \in 2 .. Len(L), NEW j \in 2 .. Len(L), i < j,
         NEW x \in 2 .. Len(T), NEW y \in 2 .. Len(T), L[i].id = T[x].id, L[j].id = T[y].id
  PROVE  x < y
<1>1. /\ a[i] \in 1 .. Len(l) /\ a[j] \in 1 .. Len(l) /\ a[i] < a[j]
      /\ l[a[i]].id = L[i].id /\ l[a[j]].id = L[j].id
  BY DEF ListOf
<1>2. b[x] \in 1 .. Len(m) /\ b[y] \in 1 .. Len(m) /\ m[b[x]].id = T[x].id /\ m[b[y]].id = T[y].id
  BY DEF ListOf
<1>3. DOMAIN l = 1 .. Len(l) /\ DOMAIN m = 1 .. Len(m)
  <2>1. l \in Seq(HwcLayer) /\ m \in Seq(HwcLayer)
    BY InputRight
  <2> QED
    BY <2>1
<1>4. b[x] < b[y]
  <2>1. \A u, v \in DOMAIN l, q, r \in DOMAIN m :
          l[u].id = m[q].id /\ l[v].id = m[r].id /\ u < v => q < r
    BY DEF StableOrder
  <2> QED
    BY <1>1, <1>2, <1>3, <2>1
<1>5. x = y => b[x] = b[y]
  OBVIOUS
<1>6. y < x => b[y] < b[x]
  BY DEF ListOf
<1> QED
  BY <1>2, <1>4, <1>5, <1>6

\* Where the layer of an identity is looked for, and where it was in the last frame.
LEMMA FindRight ==
  ASSUME NEW l \in Inputs, NEW h, NEW L, NEW a, ListOf(L, l, h, a), NEW id
  PROVE  /\ \A i \in 2 .. Len(L) : L[i].id = id => Find(L, id) = {L[i]}
         /\ (\A i \in 2 .. Len(L) : L[i].id # id) => Find(L, id) = {}
<1>1. DOMAIN L = 1 .. Len(L) /\ Len(L) \in Nat
  BY DEF ListOf, Stack
<1>2. \A x : x \in Find(L, id) <=> \E i \in 2 .. Len(L) : L[i].id = id /\ x = L[i]
  <2>1. \A i : i \in DOMAIN L /\ i > 1 <=> i \in 2 .. Len(L)
    BY <1>1
  <2> QED
    BY <2>1 DEF Find
<1>3. ASSUME NEW i \in 2 .. Len(L), L[i].id = id
      PROVE  Find(L, id) = {L[i]}
  <2>1. \A j \in 2 .. Len(L) : L[j].id = id => j = i
    BY <1>3, ListOnce
  <2> QED
    BY <1>2, <1>3, <2>1
<1> QED
  BY <1>2, <1>3

\* A list of the regionizer's for passed layers with buffers h.
IsList(L, h) == h \in [Ids -> {0, 1}] /\ \E l \in Inputs : \E a : ListOf(L, l, h, a)

\* What is known of it.
LEMMA ListFacts ==
  ASSUME NEW L, NEW h, IsList(L, h)
  PROVE  /\ Stack(L) /\ Len(L) \in Nat /\ Len(L) > 0 /\ DOMAIN L = 1 .. Len(L)
         /\ L[1].handle = Dummy /\ L[1].frame = ScreenRect /\ L[1].buf < 0
         /\ \A i \in 2 .. Len(L) :
              /\ L[i] \in RgzLayer /\ L[i].id \in Ids /\ L[i].buf \in Int /\ L[i].frame \in IntRect
              /\ L[i].buf >= 0 => L[i].handle = h[L[i].id] /\ L[i].handle \in {0, 1}
              /\ L[i].buf < 0 => L[i].buf = ClearHintBuf /\ L[i].handle = Dummy
         /\ \A i, j \in 2 .. Len(L) : L[i].id = L[j].id => i = j
<1>1. h \in [Ids -> {0, 1}]
  BY DEF IsList
<1>2. PICK l \in Inputs : \E a : ListOf(L, l, h, a)
  BY DEF IsList
<1>3. PICK a : ListOf(L, l, h, a)
  BY <1>2
<1>4. Stack(L) /\ Len(L) \in Nat /\ Len(L) > 0 /\ DOMAIN L = 1 .. Len(L) /\ L[1].frame = ScreenRect /\ L[1].buf < 0
  BY <1>3 DEF ListOf, Stack, BackgroundBuf
<1>5. \A i, j \in 2 .. Len(L) : L[i].id = L[j].id => i = j
  BY <1>3, ListOnce
<1>6. ASSUME NEW i \in 2 .. Len(L)
      PROVE  /\ L[i] \in RgzLayer /\ L[i].id \in Ids /\ L[i].buf \in Int /\ L[i].frame \in IntRect
             /\ L[i].buf >= 0 => L[i].handle = h[L[i].id] /\ L[i].handle \in {0, 1}
             /\ L[i].buf < 0 => L[i].buf = ClearHintBuf /\ L[i].handle = Dummy
  <2>1. L[i] \in RgzLayer /\ L[i].id \in Ids
    <3>1. i \in 1 .. Len(L)
      BY <1>4
    <3> QED
      BY <1>4, <3>1, StackFrame DEF Stack
  <2>2. L[i].buf \in Int /\ L[i].frame \in IntRect
    BY <2>1 DEF RgzLayer
  <2>3. /\ L[i].buf >= 0 => L[i].handle = h[L[i].id]
        /\ L[i].buf < 0 => L[i].buf = ClearHintBuf /\ L[i].handle = Dummy
    BY <1>3 DEF ListOf
  <2> QED
    BY <1>1, <2>1, <2>2, <2>3
<1> QED
  BY <1>3, <1>4, <1>5, <1>6 DEF ListOf

\* The same, of lists of any two frames.
LEMMA OrderKept ==
  ASSUME StableOrder, NEW L, NEW h, IsList(L, h), NEW T, NEW f, IsList(T, f),
         NEW i \in 2 .. Len(L), NEW j \in 2 .. Len(L), i < j,
         NEW x \in 2 .. Len(T), NEW y \in 2 .. Len(T), L[i].id = T[x].id, L[j].id = T[y].id
  PROVE  x < y
<1>1. PICK l \in Inputs : \E a : ListOf(L, l, h, a)
  BY DEF IsList
<1>2. PICK a : ListOf(L, l, h, a)
  BY <1>1
<1>3. PICK m \in Inputs : \E b : ListOf(T, m, f, b)
  BY DEF IsList
<1>4. PICK b : ListOf(T, m, f, b)
  BY <1>3
<1> QED
  BY <1>2, <1>4, ListOrder

\* The same, of a list of any frame.
LEMMA Found ==
  ASSUME NEW L, NEW h, IsList(L, h), NEW id
  PROVE  /\ \A i \in 2 .. Len(L) : L[i].id = id => Find(L, id) = {L[i]}
         /\ (\A i \in 2 .. Len(L) : L[i].id # id) => Find(L, id) = {}
<1>1. PICK l \in Inputs : \E a : ListOf(L, l, h, a)
  BY DEF IsList
<1>2. PICK a : ListOf(L, l, h, a)
  BY <1>1
<1> QED
  BY <1>2, FindRight

\* A list of a framebuffer's state: none after a release.
Known(T) == T = <<>> \/ \E f : IsList(T, f)

\* There is no layer to find after a release.
LEMMA NoneFound ==
  ASSUME NEW id
  PROVE  Find(<<>>, id) = {}
BY DEF Find

\* A pixel of an added frame is damaged.
LEMMA AroundHolds ==
  ASSUME NEW frames \in SUBSET IntRect, NEW f \in frames, NEW p \in Pixels, InRect(p, f)
  PROVE  InRect(p, Around(frames))
<1> DEFINE on == {ClipToScreen(g) : g \in {k \in frames : Intersects(ScreenRect, k)}}
           c == ClipToScreen(f)
<1>1. f.left \in Int /\ f.top \in Int /\ f.right \in Int /\ f.bottom \in Int /\ f \in IntRect
  BY DEF IntRect
<1>2. p[1] \in 0 .. Width - 1 /\ p[2] \in 0 .. Height - 1
  BY Screen DEF Pixels
<1>3. Intersects(ScreenRect, f)
  BY <1>1, <1>2, Screen DEF Intersects, ScreenRect, Rect, InRect
<1>4. ASSUME NEW g \in IntRect, Intersects(ScreenRect, g)
      PROVE  ClipToScreen(g) \in OnScreen
  <2>1. /\ g.left \in Int /\ g.top \in Int /\ g.right \in Int /\ g.bottom \in Int
    BY DEF IntRect
  <2>2. g.left < Width /\ g.right > 0 /\ g.top < Height /\ g.bottom > 0
    BY <1>4, <2>1, Screen DEF Intersects, ScreenRect, Rect
  <2> QED
    BY <2>1, <2>2, Screen DEF ClipToScreen, Rect, Greatest, Least, OnScreen
<1>5. c \in on /\ on \subseteq OnScreen
  BY <1>3, <1>4
<1>6. c.left <= p[1] /\ p[1] < c.right /\ c.top <= p[2] /\ p[2] < c.bottom
  BY <1>1, <1>2, Screen DEF ClipToScreen, Rect, Greatest, Least, InRect
<1> HIDE DEF on, c
<1> DEFINE L == {r.left : r \in on}
           T == {r.top : r \in on}
           R == {r.right : r \in on}
           D == {r.bottom : r \in on}
<1>7. /\ L \subseteq 0 .. Width /\ T \subseteq 0 .. Height
      /\ R \subseteq 0 .. Width /\ D \subseteq 0 .. Height
  BY <1>5 DEF OnScreen
<1>8. c.left \in L /\ c.top \in T /\ c.right \in R /\ c.bottom \in D
  BY <1>5
<1> HIDE DEF L, T, R, D
<1>9. \A m \in {Width, Height} : IsFiniteSet(0 .. m) /\ 0 .. m \subseteq Int
  BY Screen, FS_Interval
<1>10. IsFiniteSet(L) /\ IsFiniteSet(T) /\ IsFiniteSet(R) /\ IsFiniteSet(D)
  BY <1>7, <1>9, FS_Subset
<1>11. L \in SUBSET Int /\ T \in SUBSET Int /\ R \in SUBSET Int /\ D \in SUBSET Int
  BY <1>7, <1>9
<1>12. /\ Min(L) \in L /\ Min(T) \in T /\ Max(R) \in R /\ Max(D) \in D
       /\ Min(L) <= c.left /\ Min(T) <= c.top /\ c.right <= Max(R) /\ c.bottom <= Max(D)
  BY <1>8, <1>10, <1>11, FiniteEnds
<1>13. Around(frames) = Rect(Min(L), Min(T), Max(R), Max(D))
  BY <1>5 DEF Around, on, L, T, R, D
<1>14. /\ Min(L) \in Int /\ Min(T) \in Int /\ Max(R) \in Int /\ Max(D) \in Int
       /\ c.left \in Int /\ c.top \in Int /\ c.right \in Int /\ c.bottom \in Int
  BY <1>8, <1>11, <1>12
<1> QED
  BY <1>2, <1>6, <1>12, <1>13, <1>14 DEF Rect, InRect

\* Only its dirty counts tell L from R.
Alike(L, R) ==
  /\ DOMAIN L = DOMAIN R
  /\ \A i \in DOMAIN L : /\ L[i].id = R[i].id /\ L[i].buf = R[i].buf
                         /\ L[i].frame = R[i].frame /\ L[i].handle = R[i].handle

\* Damage and dirty counts do not depend on the dirty counts of the frame itself.
LEMMA AlikeRight ==
  ASSUME NEW L, NEW R, Alike(L, R), NEW P, NEW T
  PROVE  /\ Damaged(L, P, T) = Damaged(R, P, T)
         /\ \A i \in DOMAIN L : DirtyCount(i, L, P, T) = DirtyCount(i, R, P, T)
<1>1. /\ DOMAIN L = DOMAIN R
      /\ \A i \in DOMAIN L : /\ L[i].id = R[i].id /\ L[i].buf = R[i].buf
                             /\ L[i].frame = R[i].frame /\ L[i].handle = R[i].handle
  BY DEF Alike
<1>2. \A i \in DOMAIN L : Previous(i, L, P) = Previous(i, R, P) /\ (Moved(L[i], T) <=> Moved(R[i], T))
  BY <1>1 DEF Previous, Moved
<1>3. \A i \in DOMAIN L : \A q : ContentChanged(L[i], q) <=> ContentChanged(R[i], q)
  BY <1>1 DEF ContentChanged
<1>4. ASSUME NEW i \in DOMAIN L
      PROVE  DirtyCount(i, L, P, T) = DirtyCount(i, R, P, T)
  <2> DEFINE A == Previous(i, L, P)
             B == Previous(i, R, P)
             x == CHOOSE q \in A : TRUE
             y == CHOOSE q \in B : TRUE
             u == \E q \in A : ~ContentChanged(L[i], q)
             v == \E q \in B : ~ContentChanged(R[i], q)
  <2>1. A = B /\ (u <=> v)
    BY <1>2, <1>3
  <2>2. x = y
    BY <2>1
  <2>3. /\ DirtyCount(i, L, P, T) = IF ~u \/ (i > 1 /\ Moved(L[i], T)) THEN NumFb ELSE Greatest(0, x.dirty - 1)
        /\ DirtyCount(i, R, P, T) = IF ~v \/ (i > 1 /\ Moved(R[i], T)) THEN NumFb ELSE Greatest(0, y.dirty - 1)
    BY DEF DirtyCount
  <2> HIDE DEF A, B, x, y, u, v
  <2> QED
    BY <1>2, <2>1, <2>2, <2>3
<1>5. \A id : Find(L, id) = {} <=> Find(R, id) = {}
  BY <1>1 DEF Find
<1>6. Damaged(L, P, T) = Damaged(R, P, T)
  <2> DEFINE ch(M) == {i \in DOMAIN M :
                         \/ Previous(i, M, P) = {}
                         \/ i > 1 /\ (Find(T, M[i].id) = {} \/ Moved(M[i], T))}
             A == ch(L)
             B == ch(R)
             U == {t \in 2 .. Len(T) :
                     \/ Find(L, T[t].id) = {}
                     \/ \E i \in A : i > 1 /\ L[i].id = T[t].id /\ Previous(i, L, P) # {}}
             V == {t \in 2 .. Len(T) :
                     \/ Find(R, T[t].id) = {}
                     \/ \E i \in B : i > 1 /\ R[i].id = T[t].id /\ Previous(i, R, P) # {}}
  <2>1. A = B
    BY <1>1, <1>2
  <2>2. \A i \in A : i \in DOMAIN L
    OBVIOUS
  <2>3. /\ Damaged(L, P, T) = Around({L[i].frame : i \in A} \cup {T[t].frame : t \in U})
        /\ Damaged(R, P, T) = Around({R[i].frame : i \in B} \cup {T[t].frame : t \in V})
    BY DEF Damaged
  <2> HIDE DEF A, B
  <2>4. U = V
    BY <1>1, <1>2, <1>5, <2>1, <2>2
  <2>5. {L[i].frame : i \in A} = {R[i].frame : i \in B}
    BY <1>1, <2>1, <2>2
  <2> HIDE DEF U, V
  <2> QED
    BY <2>3, <2>4, <2>5
<1> QED
  BY <1>4, <1>6

\* A layer that P has not is where T shows it: what NoneReturns says.
Stays(L, P, T) ==
  \A i \in 2 .. Len(L) : Find(P, L[i].id) = {} =>
    \A x \in Find(T, L[i].id) : x.frame = L[i].frame

\* At a pixel that is not damaged the layers are those that the target framebuffer was
\* left with, where it shows them.
LEMMA UndamagedPlaces ==
  ASSUME NEW L, NEW h, IsList(L, h), NEW P, Known(P), NEW T, Known(T), Stays(L, P, T),
         NEW p \in Pixels, ~InRect(p, Damaged(L, P, T))
  PROVE  /\ P # <<>>
         /\ \A i \in 2 .. Len(L) : InRect(p, L[i].frame) =>
              \E t \in 2 .. Len(T) : T[t].id = L[i].id /\ T[t].frame = L[i].frame
         /\ \A t \in 2 .. Len(T) : InRect(p, T[t].frame) =>
              \E i \in 2 .. Len(L) : L[i].id = T[t].id /\ L[i].frame = T[t].frame
<1> DEFINE changed == {i \in DOMAIN L :
                         \/ Previous(i, L, P) = {}
                         \/ i > 1 /\ (Find(T, L[i].id) = {} \/ Moved(L[i], T))}
           left == {t \in 2 .. Len(T) :
                      \/ Find(L, T[t].id) = {}
                      \/ \E i \in changed : /\ i > 1 /\ L[i].id = T[t].id
                                             /\ Previous(i, L, P) # {}}
           A == {L[i].frame : i \in changed}
           B == {T[t].frame : t \in left}
<1>1. /\ Len(L) \in Nat /\ Len(L) > 0 /\ DOMAIN L = 1 .. Len(L) /\ L[1].frame = ScreenRect
      /\ \A i \in 2 .. Len(L) : L[i].frame \in IntRect
  BY ListFacts
<1>2. T # <<>> => \E f : IsList(T, f)
  BY DEF Known
<1>3. \A t \in 2 .. Len(T) : T # <<>>
  OBVIOUS
<1>4. \A t \in 2 .. Len(T) : T[t].frame \in IntRect
  BY <1>2, <1>3, ListFacts
<1>5. Damaged(L, P, T) = Around(A \cup B)
  BY DEF Damaged
<1>6. A \cup B \subseteq IntRect
  <2>1. \A i \in 1 .. Len(L) : i = 1 \/ i \in 2 .. Len(L)
    BY <1>1
  <2>2. \A i \in 1 .. Len(L) : L[i].frame \in IntRect
    BY <1>1, <2>1, Screen
  <2> QED
    BY <1>1, <1>4, <2>2
<1>7. \A i \in changed : ~InRect(p, L[i].frame)
  <2> SUFFICES ASSUME NEW i \in changed PROVE ~InRect(p, L[i].frame)
    OBVIOUS
  <2>1. L[i].frame \in A \cup B
    OBVIOUS
  <2> HIDE DEF A, B, changed
  <2> QED
    BY <1>5, <1>6, <2>1, AroundHolds
<1>8. \A t \in left : ~InRect(p, T[t].frame)
  <2> SUFFICES ASSUME NEW t \in left PROVE ~InRect(p, T[t].frame)
    OBVIOUS
  <2>1. T[t].frame \in A \cup B
    OBVIOUS
  <2> HIDE DEF A, B, changed, left
  <2> QED
    BY <1>5, <1>6, <2>1, AroundHolds
<1> HIDE DEF A, B
<1>9. P # <<>>
  <2> SUFFICES ASSUME P = <<>> PROVE FALSE
    OBVIOUS
  <2>1. Previous(1, L, P) = {}
    BY DEF Previous
  <2>2. 1 \in changed
    BY <1>1, <2>1
  <2>3. InRect(p, ScreenRect)
    BY Screen DEF InRect, ScreenRect, Rect, Pixels
  <2> QED
    BY <1>1, <1>7, <2>2, <2>3
<1>10. ASSUME NEW i \in 2 .. Len(L), InRect(p, L[i].frame)
       PROVE  \E t \in 2 .. Len(T) : T[t].id = L[i].id /\ T[t].frame = L[i].frame
  <2>1. i \in DOMAIN L /\ i > 1
    BY <1>1
  <2>2. i \notin changed
    BY <1>7, <1>10
  <2>3. Find(T, L[i].id) # {} /\ ~Moved(L[i], T)
    BY <2>1, <2>2
  <2> HIDE DEF changed, left
  <2>4. T # <<>>
    BY <2>3, NoneFound
  <2>5. PICK f : IsList(T, f)
    BY <1>2, <2>4
  <2>6. PICK t \in 2 .. Len(T) : T[t].id = L[i].id
    BY <2>3, <2>5, Found
  <2>7. Find(T, L[i].id) = {T[t]}
    BY <2>5, <2>6, Found
  <2>8. T[t].frame = L[i].frame
    BY <2>3, <2>7 DEF Moved
  <2> QED
    BY <2>6, <2>8
<1>11. ASSUME NEW t \in 2 .. Len(T), InRect(p, T[t].frame)
       PROVE  \E i \in 2 .. Len(L) : L[i].id = T[t].id /\ L[i].frame = T[t].frame
  <2>1. t \notin left
    BY <1>8, <1>11
  <2>2. /\ Find(L, T[t].id) # {}
        /\ \A i \in changed : ~(i > 1 /\ L[i].id = T[t].id /\ Previous(i, L, P) # {})
    BY <2>1
  <2>3. \A i \in DOMAIN L : i > 1 /\ Moved(L[i], T) => i \in changed
    OBVIOUS
  <2> HIDE DEF changed, left
  <2>4. PICK i \in 2 .. Len(L) : L[i].id = T[t].id
    BY <2>2, Found
  <2>5. PICK f : IsList(T, f)
    BY <1>2, <1>3
  <2>6. Find(T, L[i].id) = {T[t]}
    BY <2>4, <2>5, Found
  <2>7. CASE Moved(L[i], T)
    <3>1. i \in DOMAIN L /\ i > 1
      BY <1>1
    <3>2. Previous(i, L, P) = {}
      BY <2>2, <2>3, <2>4, <2>7, <3>1
    <3>3. Find(P, L[i].id) = {}
      BY <3>1, <3>2 DEF Previous
    <3> QED
      BY <2>4, <2>6, <3>3 DEF Stays
  <2>8. CASE ~Moved(L[i], T)
    BY <2>4, <2>6, <2>8 DEF Moved
  <2> QED
    BY <2>4, <2>7, <2>8
<1> QED
  BY <1>9, <1>10, <1>11

\* A layer that is not to be redrawn twice has the content of the last frame.
LEMMA CountKept ==
  ASSUME NEW L, NEW h, IsList(L, h), NEW P, Known(P), NEW T,
         NEW i \in 2 .. Len(L), DirtyCount(i, L, P, T) < NumFb
  PROVE  \E q \in 2 .. Len(P) :
           /\ P[q].id = L[i].id /\ ~ContentChanged(L[i], P[q])
           /\ DirtyCount(i, L, P, T) = 0 => P[q].dirty < NumFb
<1> DEFINE A == Previous(i, L, P)
           same == \E x \in A : ~ContentChanged(L[i], x)
           last == CHOOSE x \in A : TRUE
           d == DirtyCount(i, L, P, T)
<1>1. i > 1
  OBVIOUS
<1>2. A = Find(P, L[i].id)
  BY <1>1 DEF Previous
<1>3. d = IF ~same \/ (i > 1 /\ Moved(L[i], T)) THEN NumFb ELSE Greatest(0, last.dirty - 1)
  BY DEF DirtyCount
<1> HIDE DEF d
<1>4. same /\ d = Greatest(0, last.dirty - 1)
  <2>1. d < NumFb
    BY DEF d
  <2> HIDE DEF same, last
  <2> QED
    BY <1>3, <2>1 DEF NumFb
<1>5. A # {}
  BY <1>4
<1>6. P # <<>>
  BY <1>2, <1>5, NoneFound
<1>7. PICK f : IsList(P, f)
  BY <1>6 DEF Known
<1>8. PICK q \in 2 .. Len(P) : P[q].id = L[i].id
  BY <1>2, <1>5, <1>7, Found
<1>9. A = {P[q]}
  BY <1>2, <1>7, <1>8, Found
<1>10. ~ContentChanged(L[i], P[q]) /\ last = P[q]
  BY <1>4, <1>9
<1>11. P[q].dirty \in 0 .. NumFb
  BY <1>7, ListFacts DEF RgzLayer
<1> HIDE DEF same, last, A
<1>12. d = 0 => P[q].dirty < NumFb
  BY <1>4, <1>10, <1>11 DEF Greatest, NumFb
<1> QED
  BY <1>8, <1>10, <1>12 DEF d

\* The same of the background.
LEMMA BackgroundKept ==
  ASSUME NEW L, NEW h, IsList(L, h), NEW P, NEW f, IsList(P, f), NEW T, DirtyCount(1, L, P, T) = 0
  PROVE  P[1].dirty < NumFb
<1> DEFINE A == Previous(1, L, P)
           same == \E x \in A : ~ContentChanged(L[1], x)
           last == CHOOSE x \in A : TRUE
<1>1. P # <<>> /\ P[1].dirty \in 0 .. NumFb
  <2>1. Stack(P) /\ Len(P) > 0
    BY ListFacts
  <2>2. 1 \in 1 .. Len(P)
    BY <2>1 DEF Stack
  <2>3. P[1] \in RgzLayer
    BY <2>1, <2>2, StackFrame
  <2> QED
    BY <2>1, <2>3 DEF RgzLayer
<1>2. A = {P[1]}
  BY <1>1 DEF Previous
<1>3. L[1].handle = Dummy /\ P[1].handle = Dummy
  BY ListFacts
<1>4. same /\ last = P[1]
  BY <1>2, <1>3 DEF ContentChanged
<1>5. 0 = IF ~same \/ (1 > 1 /\ Moved(L[1], T)) THEN NumFb ELSE Greatest(0, last.dirty - 1)
  BY DEF DirtyCount
<1> HIDE DEF same, last, A
<1> QED
  BY <1>1, <1>4, <1>5 DEF Greatest, NumFb

\* Two layers with the same content both have a buffer, the same one, or none.
LEMMA SameContent ==
  ASSUME NEW L, NEW h, IsList(L, h), NEW T, NEW f, IsList(T, f),
         NEW i \in 2 .. Len(L), NEW j \in 2 .. Len(T), ~ContentChanged(L[i], T[j])
  PROVE  /\ L[i].buf < 0 <=> T[j].buf < 0
         /\ L[i].buf >= 0 => h[L[i].id] = f[T[j].id]
<1>1. /\ L[i].buf \in Int /\ T[j].buf \in Int
      /\ L[i].buf >= 0 => L[i].handle = h[L[i].id] /\ L[i].handle \in {0, 1}
      /\ L[i].buf < 0 => L[i].buf = ClearHintBuf /\ L[i].handle = Dummy
      /\ T[j].buf >= 0 => T[j].handle = f[T[j].id] /\ T[j].handle \in {0, 1}
      /\ T[j].buf < 0 => T[j].buf = ClearHintBuf /\ T[j].handle = Dummy
  BY ListFacts
<1>2. (L[i].buf = ClearHintBuf /\ T[j].buf = ClearHintBuf) \/ L[i].handle = T[j].handle
  BY DEF ContentChanged
<1> QED
  BY <1>1, <1>2 DEF Dummy, ClearHintBuf

-----------------------------------------------------------------------------
(* A pixel that is not drawn.                                               *)

\* The layers of P that do not wait for both framebuffers have their content of T.
Chain(P, T) ==
  \A q \in 1 .. Len(P) : P[q].dirty < NumFb =>
    \E x \in Previous(q, P, T) : ~ContentChanged(P[q], x)

\* A layer with this identity was in P, is in its target already, and has the same
\* buffer now.
Same(id, P, h) ==
  \E q \in 2 .. Len(P) :
    /\ P[q].id = id /\ P[q].dirty < NumFb /\ P[q].buf >= 0
    /\ \A f : IsList(P, f) => h[id] = f[id]

\* What is not drawn at all at a pixel.
Leaves(ops, p, L, P, T) ==
  /\ ~InRect(p, Damaged(L, P, T))
  /\ \A i \in 1 .. Len(L) : L[i].dirty = DirtyCount(i, L, P, T)
  /\ \A k \in 1 .. Len(ops) : ops[k].dirty = 0

\* A target that was not left with layers is drawn everywhere.
LEMMA TargetHasLayers ==
  ASSUME NEW L, NEW h, IsList(L, h), NEW P, Known(P), NEW T, Known(T), Stays(L, P, T), Chain(P, T),
         NEW p \in Pixels, NEW ops, NEW g, OpsOf(g, ops, L, p), Leaves(ops, p, L, P, T)
  PROVE  P # <<>> /\ T # <<>>
<1>1. /\ P # <<>>
      /\ \A i \in 2 .. Len(L) : InRect(p, L[i].frame) => \E t \in 2 .. Len(T) : TRUE
  BY UndamagedPlaces DEF Leaves
<1>2. PICK f : IsList(P, f)
  BY <1>1 DEF Known
<1>3. SUFFICES ASSUME T = <<>> PROVE FALSE
  BY <1>1
<1>4. \A t \in 2 .. Len(T) : FALSE
  BY <1>3
<1>5. 1 \in 1 .. Len(ops) /\ g[1] \in 1 .. Len(L) /\ ops[1] = L[g[1]]
  BY DEF OpsOf, From
<1>6. InRect(p, L[g[1]].frame)
  BY <1>5 DEF OpsOf
<1>7. g[1] = 1
  <2>1. g[1] = 1 \/ g[1] \in 2 .. Len(L)
    BY <1>5
  <2> QED
    BY <1>1, <1>4, <1>6, <2>1
<1>8. DirtyCount(1, L, P, T) = 0
  BY <1>5, <1>7 DEF Leaves
<1>9. P[1].dirty < NumFb
  BY <1>2, <1>8, BackgroundKept
<1>10. 1 \in 1 .. Len(P)
  BY <1>2, ListFacts
<1>11. Previous(1, P, T) # {}
  BY <1>9, <1>10 DEF Chain
<1> QED
  BY <1>3, <1>11 DEF Previous

\* The same layer at the same place.
Pair(L, T, i, t) ==
  /\ i \in 2 .. Len(L) /\ t \in 2 .. Len(T)
  /\ L[i].id = T[t].id /\ L[i].frame = T[t].frame

\* A layer in front that is not drawn is as the target was left with it.
LEMMA FrontKept ==
  ASSUME NEW L, NEW h, IsList(L, h), NEW P, Known(P), NEW T, NEW f, IsList(T, f), Chain(P, T),
         NEW p, NEW ops, NEW g, OpsOf(g, ops, L, p), Leaves(ops, p, L, P, T),
         NEW i \in 2 .. Len(L), InRect(p, L[i].frame), i >= g[1]
  PROVE  /\ \A t : Pair(L, T, i, t) => (L[i].buf < 0 <=> T[t].buf < 0) /\ (Hides(L[i]) <=> Hides(T[t]))
         /\ L[i].buf >= 0 => Same(L[i].id, P, h)
<1>1. i \in 1 .. Len(L)
  BY ListFacts
<1>2. PICK k \in 1 .. Len(ops) : g[k] = i
  BY <1>1 DEF OpsOf
<1>3. ops[k] = L[i]
  BY <1>2 DEF OpsOf, From
<1>4. DirtyCount(i, L, P, T) = 0
  BY <1>1, <1>3 DEF Leaves
<1>5. PICK q \in 2 .. Len(P) : /\ P[q].id = L[i].id /\ ~ContentChanged(L[i], P[q])
                               /\ P[q].dirty < NumFb
  <2>1. DirtyCount(i, L, P, T) < NumFb
    BY <1>4 DEF NumFb
  <2> QED
    BY <1>4, <2>1, CountKept
<1>6. \E e : IsList(P, e)
  <2>1. P # <<>>
    OBVIOUS
  <2> QED
    BY <2>1 DEF Known
<1>7. PICK e : IsList(P, e)
  BY <1>6
<1>8. P[q].buf \in Int /\ L[i].buf \in Int /\ q \in 1 .. Len(P) /\ q > 1
  BY <1>7, ListFacts
<1>9. PICK x \in Find(T, P[q].id) : ~ContentChanged(P[q], x)
  <2>1. \E x \in Previous(q, P, T) : ~ContentChanged(P[q], x)
    BY <1>5, <1>8 DEF Chain
  <2> QED
    BY <1>8, <2>1 DEF Previous
<1>10. ASSUME NEW t, Pair(L, T, i, t)
       PROVE  (L[i].buf < 0 <=> T[t].buf < 0) /\ (Hides(L[i]) <=> Hides(T[t]))
  <2>1. t \in 2 .. Len(T) /\ T[t].id = L[i].id
    BY <1>10 DEF Pair
  <2>2. x = T[t]
    BY <1>5, <1>9, <2>1, Found
  <2>3. P[q].buf < 0 <=> T[t].buf < 0
    BY <1>7, <1>9, <2>1, <2>2, SameContent
  <2>4. L[i].buf < 0 <=> P[q].buf < 0
    BY <1>5, <1>7, SameContent
  <2>5. L[i].buf < 0 <=> T[t].buf < 0
    BY <2>3, <2>4
  <2> QED
    BY <2>1, <2>5 DEF Hides
<1>11. ASSUME L[i].buf >= 0
       PROVE  Same(L[i].id, P, h)
  <2>1. P[q].buf >= 0
    <3>1. L[i].buf < 0 <=> P[q].buf < 0
      BY <1>5, <1>7, SameContent
    <3> QED
      BY <1>8, <1>11, <3>1
  <2>2. ASSUME NEW b, IsList(P, b)
        PROVE  h[L[i].id] = b[L[i].id]
    BY <1>5, <1>11, <2>2, SameContent
  <2> QED
    BY <1>5, <2>1, <2>2 DEF Same
<1> QED
  BY <1>10, <1>11

\* What a pixel has to show lies in front of what hides the rest.
LEMMA OwnInFront ==
  ASSUME NEW L, NEW h, IsList(L, h), NEW p, NEW ops, NEW g, OpsOf(g, ops, L, p), NEW i \in Own(L, p)
  PROVE  i \in 2 .. Len(L) /\ L[i].buf >= 0 /\ InRect(p, L[i].frame) /\ i >= g[1]
<1>1. /\ i \in 1 .. Len(L) /\ L[i].buf >= 0 /\ InRect(p, L[i].frame)
      /\ \A k \in i + 1 .. Len(L) : InRect(p, L[k].frame) => ~Hides(L[k])
  BY DEF Own
<1>2. 1 \in 1 .. Len(ops) /\ g[1] \in 1 .. Len(L) /\ ops[1] = L[g[1]] /\ Opaque(ops[1])
  BY DEF OpsOf, From
<1>3. Hides(L[g[1]])
  BY <1>2 DEF Opaque, Hides, HasAlpha
<1>4. InRect(p, L[g[1]].frame)
  BY <1>2 DEF OpsOf
<1>5. ~(g[1] \in i + 1 .. Len(L))
  BY <1>1, <1>3, <1>4
<1>6. i >= g[1]
  BY <1>1, <1>2, <1>5
<1>7. i # 1
  <2>1. L[1].buf < 0 /\ \A k \in 2 .. Len(L) : L[k].buf \in Int
    BY ListFacts
  <2>2. L[1].buf = BackgroundBuf
    BY ListFacts DEF Stack
  <2> QED
    BY <1>1, <2>2 DEF BackgroundBuf
<1> QED
  BY <1>1, <1>6, <1>7

\* What a pixel that is not drawn has to show is what it had to show before.
LEMMA OwnKept ==
  ASSUME StableOrder, NEW L, NEW h, IsList(L, h), NEW P, Known(P), NEW T, NEW f, IsList(T, f),
         Stays(L, P, T), Chain(P, T),
         NEW p \in Pixels, NEW ops, NEW g, OpsOf(g, ops, L, p), Leaves(ops, p, L, P, T),
         NEW i, NEW t, Pair(L, T, i, t), InRect(p, L[i].frame)
  PROVE  i \in Own(L, p) <=> t \in Own(T, p)
<1>1. /\ \A j \in 2 .. Len(L) : InRect(p, L[j].frame) =>
           \E x \in 2 .. Len(T) : T[x].id = L[j].id /\ T[x].frame = L[j].frame
      /\ \A x \in 2 .. Len(T) : InRect(p, T[x].frame) =>
           \E j \in 2 .. Len(L) : L[j].id = T[x].id /\ L[j].frame = T[x].frame
  <2>1. Known(T)
    BY DEF Known
  <2> QED
    BY <2>1, UndamagedPlaces DEF Leaves
<1>2. /\ i \in 2 .. Len(L) /\ t \in 2 .. Len(T) /\ L[i].id = T[t].id /\ L[i].frame = T[t].frame
  BY DEF Pair
<1>3. /\ Len(L) \in Nat /\ Len(T) \in Nat /\ L[i].buf \in Int /\ T[t].buf \in Int
      /\ i \in 1 .. Len(L) /\ t \in 1 .. Len(T)
  BY <1>2, ListFacts
<1>4. g[1] \in 1 .. Len(L) /\ ops[1] = L[g[1]] /\ InRect(p, L[g[1]].frame) /\ Opaque(ops[1])
  <2>1. 1 \in 1 .. Len(ops) /\ g[1] \in 1 .. Len(L) /\ ops[1] = L[g[1]]
    BY DEF OpsOf, From
  <2> QED
    BY <2>1 DEF OpsOf
<1>5. ASSUME i \in Own(L, p)
      PROVE  t \in Own(T, p)
  <2>1. L[i].buf >= 0 /\ i >= g[1]
    BY <1>5, OwnInFront
  <2>2. T[t].buf >= 0
    <3>1. L[i].buf < 0 <=> T[t].buf < 0
      BY <1>2, <2>1, FrontKept
    <3> QED
      BY <1>3, <2>1, <3>1
  <2>3. ASSUME NEW k \in t + 1 .. Len(T), InRect(p, T[k].frame)
        PROVE  ~Hides(T[k])
    <3>1. k \in 2 .. Len(T) /\ t < k
      BY <1>2, <1>3
    <3>2. PICK j \in 2 .. Len(L) : L[j].id = T[k].id /\ L[j].frame = T[k].frame
      BY <1>1, <2>3, <3>1
    <3>3. i < j
      BY <1>2, <3>1, <3>2, OrderKept
    <3>4. j \in i + 1 .. Len(L) /\ j >= g[1]
      BY <1>3, <1>4, <2>1, <3>3
    <3>5. ~Hides(L[j])
      BY <1>5, <2>3, <3>2, <3>4 DEF Own
    <3>6. Pair(L, T, j, k)
      BY <3>1, <3>2 DEF Pair
    <3>7. InRect(p, L[j].frame)
      BY <2>3, <3>2
    <3>8. Hides(L[j]) <=> Hides(T[k])
      BY <3>4, <3>6, <3>7, FrontKept
    <3> QED
      BY <3>5, <3>8
  <2> QED
    BY <1>2, <1>3, <2>2, <2>3 DEF Own
<1>6. ASSUME t \in Own(T, p)
      PROVE  i \in Own(L, p)
  <2>1. T[t].buf >= 0 /\ \A k \in t + 1 .. Len(T) : InRect(p, T[k].frame) => ~Hides(T[k])
    BY <1>6 DEF Own
  <2>2. ASSUME NEW j \in 2 .. Len(L), j > i, j >= g[1], InRect(p, L[j].frame)
        PROVE  ~Hides(L[j])
    <3>1. PICK k \in 2 .. Len(T) : T[k].id = L[j].id /\ T[k].frame = L[j].frame
      BY <1>1, <2>2
    <3>2. t < k
      <4>1. i < j
        BY <1>3, <2>2
      <4> QED
        BY <1>2, <3>1, <4>1, OrderKept
    <3>3. k \in t + 1 .. Len(T)
      BY <1>3, <3>2
    <3>4. Pair(L, T, j, k)
      BY <3>1 DEF Pair
    <3>5. Hides(L[j]) <=> Hides(T[k])
      BY <2>2, <3>4, FrontKept
    <3> QED
      BY <2>1, <2>2, <3>1, <3>3, <3>5
  <2>3. i >= g[1]
    <3>1. SUFFICES ASSUME g[1] > i PROVE FALSE
      BY <1>3, <1>4
    <3>2. g[1] \in 2 .. Len(L) /\ g[1] >= g[1]
      BY <1>2, <1>3, <1>4, <3>1
    <3>3. Hides(L[g[1]])
      BY <1>4 DEF Opaque, Hides, HasAlpha
    <3> QED
      BY <1>4, <2>2, <3>1, <3>2, <3>3
  <2>4. L[i].buf >= 0
    <3>1. L[i].buf < 0 <=> T[t].buf < 0
      BY <1>2, <2>3, FrontKept
    <3> QED
      BY <1>3, <2>1, <3>1
  <2>5. ASSUME NEW k \in i + 1 .. Len(L), InRect(p, L[k].frame)
        PROVE  ~Hides(L[k])
    <3>1. k \in 2 .. Len(L) /\ k > i /\ k >= g[1]
      BY <1>2, <1>3, <1>4, <2>3
    <3> QED
      BY <2>2, <2>5, <3>1
  <2> QED
    BY <1>3, <2>4, <2>5 DEF Own
<1> QED
  BY <1>5, <1>6

\* A layer at the same place shows the same of its buffer at a pixel.
LEMMA SampledAgain ==
  ASSUME NEW x, NEW y, x.id = y.id, x.frame = y.frame, NEW t, NEW p, Sampled(t, x, p)
  PROVE  Sampled(t, y, p)
<1>1. PixelOf(x, p) = PixelOf(y, p)
  BY DEF PixelOf
<1>2. (Scaled(x) <=> Scaled(y)) /\ (IsNV12(x) <=> IsNV12(y))
  BY DEF Scaled, IsNV12
<1>3. Even(x) <=> Even(y)
  BY <1>2 DEF Even
<1> QED
  BY <1>1, <1>3 DEF Sampled

\* What a pixel that is not drawn shows is right, and each layer of it is the same.
LEMMA UntouchedShows ==
  ASSUME StableOrder, NEW L, NEW h, IsList(L, h), NEW P, Known(P), NEW T, Known(T),
         Stays(L, P, T), Chain(P, T),
         NEW p \in Pixels, NEW ops, NEW g, OpsOf(g, ops, L, p), Leaves(ops, p, L, P, T),
         NEW s, T # <<>> => Shows(s, T, p)
  PROVE  /\ P # <<>> /\ T # <<>>
         /\ Shows(s, L, p) /\ \A k \in 1 .. Len(s) : Same(s[k].id, P, h)
<1>1. P # <<>> /\ T # <<>>
  BY TargetHasLayers
<1>2. PICK f : IsList(T, f)
  BY <1>1 DEF Known
<1>3. PICK w : ShowsAs(w, s, T, p)
  BY <1>1 DEF Shows
<1>4. /\ Len(s) \in Nat /\ s = [k \in 1 .. Len(s) |-> s[k]]
      /\ w \in [1 .. Len(s) -> Own(T, p)]
      /\ \A j, k \in 1 .. Len(s) : j < k => w[j] < w[k]
      /\ \A t \in Own(T, p) : \E k \in 1 .. Len(s) : w[k] = t
      /\ \A k \in 1 .. Len(s) : s[k] = [id |-> T[w[k]].id, at |-> s[k].at, new |-> s[k].new]
      /\ \A k \in 1 .. Len(s) : Sampled(s[k], T[w[k]], p)
  BY <1>3 DEF ShowsAs
<1>5. /\ \A i \in 2 .. Len(L) : InRect(p, L[i].frame) =>
           \E t \in 2 .. Len(T) : T[t].id = L[i].id /\ T[t].frame = L[i].frame
      /\ \A t \in 2 .. Len(T) : InRect(p, T[t].frame) =>
           \E i \in 2 .. Len(L) : L[i].id = T[t].id /\ L[i].frame = T[t].frame
  BY UndamagedPlaces DEF Leaves
<1>6. ASSUME NEW t \in Own(T, p)
      PROVE  \E i \in Own(L, p) : Pair(L, T, i, t)
  <2>1. t \in 1 .. Len(T) /\ T[t].buf >= 0 /\ InRect(p, T[t].frame)
    BY DEF Own
  <2>2. T[1].buf = BackgroundBuf
    BY <1>2, ListFacts DEF Stack
  <2>3. t \in 2 .. Len(T)
    BY <2>1, <2>2 DEF BackgroundBuf
  <2>4. PICK i \in 2 .. Len(L) : L[i].id = T[t].id /\ L[i].frame = T[t].frame
    BY <1>5, <2>1, <2>3
  <2>5. Pair(L, T, i, t)
    BY <2>3, <2>4 DEF Pair
  <2>6. i \in Own(L, p)
    BY <1>2, <2>1, <2>4, <2>5, OwnKept
  <2> QED
    BY <2>5, <2>6
<1> DEFINE v == [k \in 1 .. Len(s) |-> CHOOSE i \in Own(L, p) : Pair(L, T, i, w[k])]
<1>7. ASSUME NEW k \in 1 .. Len(s)
      PROVE  v[k] \in Own(L, p) /\ Pair(L, T, v[k], w[k])
  <2>1. w[k] \in Own(T, p)
    BY <1>4
  <2>2. \E i \in Own(L, p) : Pair(L, T, i, w[k])
    BY <1>6, <2>1
  <2> QED
    BY <2>2
<1>8. v = [k \in 1 .. Len(s) |-> v[k]]
  OBVIOUS
<1> HIDE DEF v
<1>9. v \in [1 .. Len(s) -> Own(L, p)]
  BY <1>7, <1>8
<1>10. ASSUME NEW j \in 1 .. Len(s), NEW k \in 1 .. Len(s), j < k
       PROVE  v[j] < v[k]
  <2>1. w[j] < w[k]
    BY <1>4, <1>10
  <2>2. Pair(L, T, v[j], w[j]) /\ Pair(L, T, v[k], w[k])
    BY <1>7
  <2> QED
    BY <1>2, <2>1, <2>2, OrderKept DEF Pair
<1>11. ASSUME NEW i \in Own(L, p)
       PROVE  \E k \in 1 .. Len(s) : v[k] = i
  <2>1. i \in 2 .. Len(L) /\ InRect(p, L[i].frame)
    BY OwnInFront
  <2>2. PICK t \in 2 .. Len(T) : T[t].id = L[i].id /\ T[t].frame = L[i].frame
    BY <1>5, <2>1
  <2>3. Pair(L, T, i, t)
    BY <2>1, <2>2 DEF Pair
  <2>4. t \in Own(T, p)
    BY <1>2, <2>1, <2>3, OwnKept
  <2>5. PICK k \in 1 .. Len(s) : w[k] = t
    BY <1>4, <2>4
  <2>6. v[k] \in 2 .. Len(L) /\ L[v[k]].id = L[i].id
    BY <1>7, <2>2, <2>5 DEF Pair
  <2>7. v[k] = i
    BY <2>1, <2>6, ListFacts
  <2> QED
    BY <2>7
<1>12. ASSUME NEW k \in 1 .. Len(s)
       PROVE  /\ s[k] = [id |-> L[v[k]].id, at |-> s[k].at, new |-> s[k].new]
              /\ Same(s[k].id, P, h) /\ Sampled(s[k], L[v[k]], p)
  <2>1. v[k] \in Own(L, p) /\ L[v[k]].id = T[w[k]].id /\ L[v[k]].frame = T[w[k]].frame
    BY <1>7 DEF Pair
  <2>6. Sampled(s[k], L[v[k]], p)
    BY <1>4, <2>1, SampledAgain
  <2>2. s[k] = [id |-> L[v[k]].id, at |-> s[k].at, new |-> s[k].new]
    BY <1>4, <2>1
  <2>3. v[k] \in 2 .. Len(L) /\ L[v[k]].buf >= 0 /\ InRect(p, L[v[k]].frame) /\ v[k] >= g[1]
    BY <2>1, OwnInFront
  <2>4. Same(L[v[k]].id, P, h)
    BY <1>2, <2>3, FrontKept
  <2>5. s[k].id = L[v[k]].id
    BY <2>2
  <2> QED
    BY <2>2, <2>4, <2>5, <2>6
<1>13. ShowsAs(v, s, L, p)
  BY <1>4, <1>9, <1>10, <1>11, <1>12 DEF ShowsAs
<1> QED
  BY <1>1, <1>12, <1>13 DEF Shows

\* The damaged area is on the screen.
LEMMA DamagedOnScreen ==
  ASSUME NEW L, NEW h, IsList(L, h), NEW P, NEW T, Known(T)
  PROVE  Damaged(L, P, T) \in OnScreen
<1> DEFINE changed == {i \in DOMAIN L :
                         \/ Previous(i, L, P) = {}
                         \/ i > 1 /\ (Find(T, L[i].id) = {} \/ Moved(L[i], T))}
           left == {t \in 2 .. Len(T) :
                      \/ Find(L, T[t].id) = {}
                      \/ \E i \in changed : /\ i > 1 /\ L[i].id = T[t].id
                                             /\ Previous(i, L, P) # {}}
           A == {L[i].frame : i \in changed}
           B == {T[t].frame : t \in left}
<1>1. /\ Len(L) \in Nat /\ Len(L) > 0 /\ DOMAIN L = 1 .. Len(L) /\ L[1].frame = ScreenRect
      /\ \A i \in 2 .. Len(L) : L[i].frame \in IntRect
  BY ListFacts
<1>2. \A t \in 2 .. Len(T) : T[t].frame \in IntRect
  <2>1. T # <<>> => \E f : IsList(T, f)
    BY DEF Known
  <2>2. \A t \in 2 .. Len(T) : T # <<>>
    OBVIOUS
  <2> QED
    BY <2>1, <2>2, ListFacts
<1>3. Damaged(L, P, T) = Around(A \cup B)
  BY DEF Damaged
<1>4. A \cup B \in SUBSET IntRect
  <2>1. \A i \in 1 .. Len(L) : i = 1 \/ i \in 2 .. Len(L)
    BY <1>1
  <2>2. \A i \in 1 .. Len(L) : L[i].frame \in IntRect
    BY <1>1, <2>1, Screen
  <2> QED
    BY <1>1, <1>2, <2>2
<1> HIDE DEF A, B
<1> QED
  BY <1>3, <1>4, AroundOnScreen

\* Without commands a pixel stays as it was.
LEMMA NothingDrawn ==
  ASSUME NEW p, NEW was
  PROVE  AfterBlits(<<>>, p, was) = was
<1> DEFINE cs == <<>>
<1>1. Len(cs) = 0
  OBVIOUS
<1> HIDE DEF cs
<1>2. Len(cs) \in Nat
  BY <1>1
<1>3. PICK f : Runs(f, cs, p, was)
  BY <1>2, OneRun
<1>4. AfterBlits(cs, p, was) = f[Len(cs)]
  BY <1>2, <1>3, OneRun
<1>5. f[0] = was
  BY <1>3 DEF Runs
<1>6. AfterBlits(cs, p, was) = was
  BY <1>1, <1>4, <1>5
<1> QED
  BY <1>6 DEF cs

\* What a frame makes of a pixel: what the layers ask for, either all new or, where
\* nothing is drawn, with the buffers it was drawn with.
DrawnRight(s, was, L, h, P, T, p) ==
  /\ Shows(s, L, p)
  /\ \/ AllNew(s)
     \/ s = was /\ P # <<>> /\ T # <<>> /\ \A k \in 1 .. Len(s) : Same(s[k].id, P, h)

\* The same of a subregion.
LEMMA SubregionShows ==
  ASSUME StableOrder, NEW L, NEW h, IsList(L, h), NEW P, Known(P), NEW T, Known(T),
         Stays(L, P, T), Chain(P, T), NEW dmg, dmg = Damaged(L, P, T), dmg \in OnScreen,
         \A i \in 1 .. Len(L) : L[i].dirty = DirtyCount(i, L, P, T),
         NEW p \in Pixels, NEW was, T # <<>> => Shows(was, T, p),
         NEW r, NEW sub, Tile(L, dmg, sub), InRect(p, sub), Stack(r.layers),
         \A k \in 1 .. Len(r.layers) : \E j \in 1 .. Len(L) : r.layers[k] = L[j],
         NEW g, OpsOf(g, LayerOps(r, sub), L, p)
  PROVE  DrawnRight(AfterBlits(SubregionBlits(r, sub, dmg), p, was), was, L, h, P, T, p)
<1> DEFINE ops == LayerOps(r, sub)
           over == Over(r, sub)
           s == AfterBlits(SubregionBlits(r, sub, dmg), p, was)
           c == CommandsFor(over, sub)
<1>1. Stack(L)
  BY ListFacts
<1>2. /\ over \in Seq(RgzLayer) /\ \A i \in 1 .. Len(over) : Covering(over[i], sub)
      /\ SubregionBlits(r, sub, dmg) = IF Dirty(ops, sub, dmg) THEN c ELSE <<>>
  BY <1>1, OverRight
<1>3. PICK e \in {0, 1} : /\ e = 1 <=> ops[1].buf < 0
                          /\ Len(over) = Len(ops) - e
                          /\ \A i \in 1 .. Len(over) : over[i] = ops[i + e]
  BY <1>1, OverRight
<1>4. OpsOf(g, ops, L, p) /\ sub \in OnScreen
  BY DEF Tile
<1>7. Intersects(sub, ScreenRect)
  <2>1. sub \in OnScreen /\ sub.left < sub.right /\ sub.top < sub.bottom
    BY DEF Tile
  <2>2. sub.left \in 0 .. Width /\ sub.right \in 0 .. Width /\ sub.top \in 0 .. Height /\ sub.bottom \in 0 .. Height
    BY <2>1 DEF OnScreen
  <2> QED
    BY <2>1, <2>2, Screen DEF Intersects, ScreenRect, Rect
<1> HIDE DEF ops, over
<1>5. CASE Dirty(ops, sub, dmg)
  <2>1. s = AfterBlits(c, p, was)
    BY <1>2, <1>5
  <2>2. /\ over = <<>> => AfterBlits(c, p, was) = <<>>
        /\ over # <<>> => Pile(AfterBlits(c, p, was), over, Len(over), p)
    BY <1>2, <1>4, Screen, CommandsPile
  <2>3. DrawnOf(over, ops, e)
    BY <1>3 DEF DrawnOf
  <2> HIDE DEF s, c
  <2>4. Shows(s, L, p) /\ AllNew(s)
    BY <1>1, <1>2, <1>4, <2>1, <2>2, <2>3, RedrawnShows
  <2> QED
    BY <2>4 DEF DrawnRight, s
<1>6. CASE ~Dirty(ops, sub, dmg)
  <2>1. s = was
    <3>1. s = AfterBlits(<<>>, p, was)
      BY <1>2, <1>6
    <3> QED
      BY <3>1, NothingDrawn
  <2>2. ~InRect(p, dmg)
    <3>1. ~Intersects(dmg, sub)
      BY <1>6 DEF Dirty
    <3>2. dmg \in IntRect /\ sub \in IntRect
      BY <1>4, Screen
    <3> QED
      BY <3>1, <3>2, MeetAt
  <2>3. ASSUME NEW k \in 1 .. Len(ops)
        PROVE  ops[k].dirty = 0
    <3>1. g[k] \in 1 .. Len(L) /\ ops[k] = L[g[k]]
      BY <1>4 DEF OpsOf, From
    <3>2. ops[k].dirty \in 0 .. NumFb
      BY <1>1, <3>1, StackFrame DEF RgzLayer
    <3>3. k \in DOMAIN ops
      <4>1. ops \in Seq(RgzLayer)
        BY <1>7, OpsRight DEF ops
      <4> QED
        BY <4>1
    <3>4. ~(ops[k].dirty > 0)
      BY <1>6, <3>3 DEF Dirty
    <3> QED
      BY <3>2, <3>4 DEF NumFb
  <2>4. Leaves(ops, p, L, P, T)
    BY <2>2, <2>3 DEF Leaves
  <2>5. /\ P # <<>> /\ T # <<>>
        /\ Shows(was, L, p) /\ \A k \in 1 .. Len(was) : Same(was[k].id, P, h)
    BY <1>4, <2>4, UntouchedShows
  <2> HIDE DEF s
  <2> QED
    BY <2>1, <2>5 DEF DrawnRight, s
<1> QED
  BY <1>5, <1>6 DEF s

\* After the commands of a frame a pixel shows what it has to.
LEMMA PixelShown ==
  ASSUME StableOrder, NEW L, NEW h, IsList(L, h), NEW P, Known(P), NEW T, Known(T),
         Stays(L, P, T), Chain(P, T), NEW dmg, dmg = Damaged(L, P, T),
         \A i \in 1 .. Len(L) : L[i].dirty = DirtyCount(i, L, P, T),
         NEW p \in Pixels, NEW was, T # <<>> => Shows(was, T, p)
  PROVE  DrawnRight(AfterBlits(RegionBlits(HRegions(L, dmg), dmg), p, was), was, L, h, P, T, p)
<1>1. Stack(L) /\ dmg \in OnScreen
  BY ListFacts, DamagedOnScreen
<1>2. PICK i \in DOMAIN HRegions(L, dmg) : \E s \in DOMAIN Subregions(HRegions(L, dmg)[i], dmg) :
        InRect(p, Subregions(HRegions(L, dmg)[i], dmg)[s])
  BY <1>1, OneTile
<1>3. PICK s \in DOMAIN Subregions(HRegions(L, dmg)[i], dmg) :
        InRect(p, Subregions(HRegions(L, dmg)[i], dmg)[s])
  BY <1>2
<1> DEFINE r == HRegions(L, dmg)[i]
           sub == Subregions(r, dmg)[s]
<1>4. /\ r.layers = Meeting(L, r.rect) /\ r.rect \in IntRect
      /\ Intersects(r.rect, ScreenRect) /\ InRect(p, r.rect)
  BY <1>1, <1>3, RegionRect
<1>5. Tile(L, dmg, sub)
  BY <1>1, TileRight
<1>6. /\ Stack(r.layers)
      /\ \A k \in 1 .. Len(r.layers) : \E j \in 1 .. Len(L) : r.layers[k] = L[j]
  BY <1>1, RegionLayers
<1>7. AfterBlits(RegionBlits(HRegions(L, dmg), dmg), p, was) = AfterBlits(SubregionBlits(r, sub, dmg), p, was)
  BY <1>1, <1>3, TileDecides
<1>8. InRect(p, sub)
  BY <1>3
<1> HIDE DEF r, sub
<1>9. PICK g : OpsOf(g, LayerOps(r, sub), L, p)
  BY <1>1, <1>4, <1>5, <1>8, OpsAt
<1>10. DrawnRight(AfterBlits(SubregionBlits(r, sub, dmg), p, was), was, L, h, P, T, p)
  BY <1>1, <1>5, <1>6, <1>8, <1>9, SubregionShows
<1> QED
  BY <1>7, <1>10

-----------------------------------------------------------------------------
(* Painting: whole layers, from back to front.                              *)

\* The first m layers, and the command for a layer in front of the background.
Backmost(L, m) == [i \in 1 .. m |-> L[i]]
PaintOf(x) == IF x.buf = ClearHintBuf THEN Clear(ClipToScreen(x.frame)) ELSE LayerBlit(x)

\* The commands of paint mode: the background's and one for each layer.
LEMMA PaintCommands ==
  ASSUME NEW r, Stack(r.cur)
  PROVE  /\ Len(PaintBlits(r)) = Len(r.cur) /\ Len(r.cur) \in Nat
         /\ PaintBlits(r)[1] = Clear(ScreenRect)
         /\ \A i \in 2 .. Len(r.cur) : PaintBlits(r)[i] = PaintOf(r.cur[i])
<1> DEFINE L == r.cur
           n == Len(L)
           P == [i \in 1 .. n - 1 |-> PaintOf(L[i + 1])]
           A == <<Clear(ScreenRect)>>
           W == {Clear(ScreenRect)} \cup {PaintOf(L[i + 1]) : i \in 1 .. n - 1}
           cs == PaintBlits(r)
<1>1. n \in Nat /\ n > 0
  BY DEF Stack
<1>2. cs = A \o P
  BY DEF PaintBlits, PaintOf
<1> HIDE DEF n, cs
<1>3. /\ P \in [1 .. n - 1 -> W] /\ n - 1 \in Nat /\ Len(P) = n - 1
      /\ \A i \in 1 .. n - 1 : P[i] = PaintOf(L[i + 1])
  BY <1>1
<1>4. A \in Seq(W) /\ Len(A) = 1 /\ A[1] = Clear(ScreenRect)
  <2>1. Clear(ScreenRect) \in W
    OBVIOUS
  <2> HIDE DEF W
  <2> QED
    BY <2>1
<1> HIDE DEF P, W, L, A
<1>5. P \in Seq(W)
  BY <1>3
<1>6. /\ Len(A \o P) = Len(A) + Len(P)
      /\ \A k \in 1 .. Len(A) : (A \o P)[k] = A[k]
      /\ \A k \in Len(A) + 1 .. Len(A) + Len(P) : (A \o P)[k] = P[k - Len(A)]
  BY <1>4, <1>5, Joined
<1>7. Len(cs) = n /\ cs[1] = Clear(ScreenRect)
  BY <1>1, <1>2, <1>3, <1>4, <1>6
<1>8. ASSUME NEW i \in 2 .. n
      PROVE  cs[i] = PaintOf(L[i])
  <2>1. i \in 1 + 1 .. 1 + (n - 1) /\ i - 1 \in 1 .. n - 1 /\ (i - 1) + 1 = i
    BY <1>1
  <2>2. cs[i] = P[i - 1]
    BY <1>2, <1>3, <1>4, <1>6, <2>1
  <2>3. P[i - 1] = PaintOf(L[(i - 1) + 1])
    BY <1>3, <2>1
  <2> QED
    BY <2>1, <2>2, <2>3
<1> QED
  BY <1>1, <1>7, <1>8 DEF n, cs, L

\* The layers to show when one more is in front.
LEMMA OwnMore ==
  ASSUME NEW L, Stack(L), NEW m \in 1 .. Len(L) - 1, NEW p
  PROVE  LET x == L[m + 1]
             here == InRect(p, x.frame)
         IN  /\ Len(Backmost(L, m)) = m /\ \A i \in 1 .. m : Backmost(L, m)[i] = L[i] /\ Backmost(L, m + 1)[i] = L[i]
             /\ Backmost(L, m + 1)[m + 1] = x /\ m + 1 \in 1 .. Len(L)
             /\ ~here => Own(Backmost(L, m + 1), p) = Own(Backmost(L, m), p)
             /\ here /\ x.buf < 0 => Own(Backmost(L, m + 1), p) = {}
             /\ here /\ x.buf >= 0 /\ Hides(x) => Own(Backmost(L, m + 1), p) = {m + 1}
             /\ here /\ x.buf >= 0 /\ ~Hides(x) => Own(Backmost(L, m + 1), p) = Own(Backmost(L, m), p) \cup {m + 1}
<1> DEFINE x == L[m + 1]
           G == Backmost(L, m)
           H == Backmost(L, m + 1)
           here == InRect(p, x.frame)
           Bare(A, i, n) == \A k \in i + 1 .. n : InRect(p, A[k].frame) => ~Hides(A[k])
<1>1. Len(L) \in Nat /\ m \in Nat /\ m + 1 \in 1 .. Len(L) /\ m + 1 \in Nat
  BY DEF Stack
<1>2. /\ Len(G) = m /\ Len(H) = m + 1 /\ \A i \in 1 .. m : G[i] = L[i] /\ H[i] = L[i]
      /\ H[m + 1] = x
  BY <1>1 DEF Backmost
<1> HIDE DEF G, H, x
<1>3. /\ \A i : i \in Own(G, p) <=> i \in 1 .. m /\ L[i].buf >= 0 /\ InRect(p, L[i].frame) /\ Bare(L, i, m)
      /\ \A i : i \in Own(H, p) <=> \/ i \in 1 .. m /\ L[i].buf >= 0 /\ InRect(p, L[i].frame) /\ Bare(L, i, m)
                                       /\ (here => ~Hides(x))
                                    \/ i = m + 1 /\ x.buf >= 0 /\ here
  <2>1. ASSUME NEW i \in 1 .. m
        PROVE  /\ Bare(G, i, m) <=> Bare(L, i, m)
               /\ Bare(H, i, m + 1) <=> Bare(L, i, m) /\ (here => ~Hides(x))
    <3>1. \A k \in i + 1 .. m : k \in 1 .. m
      BY <1>1
    <3>2. \A k : k \in i + 1 .. m + 1 <=> k \in i + 1 .. m \/ k = m + 1
      BY <1>1
    <3> QED
      BY <1>2, <3>1, <3>2
  <2>2. \A k : ~(k \in m + 1 + 1 .. m + 1)
    BY <1>1
  <2>3. \A i : i \in 1 .. m + 1 <=> i \in 1 .. m \/ i = m + 1
    BY <1>1
  <2>4. ASSUME NEW i \in 1 .. m
        PROVE  /\ i \in Own(G, p) <=> L[i].buf >= 0 /\ InRect(p, L[i].frame) /\ Bare(L, i, m)
               /\ i \in Own(H, p) <=> L[i].buf >= 0 /\ InRect(p, L[i].frame) /\ Bare(L, i, m) /\ (here => ~Hides(x))
    BY <1>2, <2>1, <2>3 DEF Own
  <2>5. m + 1 \in Own(H, p) <=> x.buf >= 0 /\ here
    BY <1>2, <2>2, <2>3 DEF Own
  <2>6. \A i \in Own(G, p) : i \in 1 .. m
    BY <1>2 DEF Own
  <2>7. \A i \in Own(H, p) : i \in 1 .. m \/ i = m + 1
    BY <1>2, <2>3 DEF Own
  <2>8. m + 1 \notin 1 .. m
    BY <1>1
  <2> HIDE DEF Bare, here
  <2> QED
    BY <2>4, <2>5, <2>6, <2>7, <2>8
<1>4. x.buf < 0 => Hides(x) /\ ~(x.buf >= 0)
  <2>1. x.buf \in Int
    BY <1>1, StackFrame DEF x, RgzLayer
  <2> QED
    BY <2>1 DEF Hides
<1> HIDE DEF here, Bare
<1>5. ~here => Own(H, p) = Own(G, p)
  BY <1>3
<1>6. here /\ x.buf < 0 => Own(H, p) = {}
  BY <1>3, <1>4
<1>7. here /\ x.buf >= 0 /\ Hides(x) => Own(H, p) = {m + 1}
  BY <1>3
<1>8. here /\ x.buf >= 0 /\ ~Hides(x) => Own(H, p) = Own(G, p) \cup {m + 1}
  BY <1>3
<1> QED
  BY <1>1, <1>2, <1>5, <1>6, <1>7, <1>8 DEF G, H, x, here

\* A pixel shows the layers of L, all of them new.
Fine(s, L, p) == Shows(s, L, p) /\ AllNew(s)

\* A pixel that shows no layer.
LEMMA NoneShown ==
  ASSUME NEW L, NEW p, Own(L, p) = {}
  PROVE  Fine(<<>>, L, p)
<1> DEFINE s == <<>>
           w == [k \in 1 .. 0 |-> k]
<1>1. Len(s) = 0 /\ s = [k \in 1 .. Len(s) |-> s[k]]
  OBVIOUS
<1>2. w \in [1 .. 0 -> Own(L, p)] /\ \A k \in 1 .. 0 : FALSE
  OBVIOUS
<1> HIDE DEF s, w
<1>3. ShowsAs(w, s, L, p)
  BY <1>1, <1>2 DEF ShowsAs
<1>4. AllNew(s)
  BY <1>1, <1>2 DEF AllNew
<1> QED
  BY <1>3, <1>4 DEF Shows, Fine, s

\* A pixel that shows one layer.
LEMMA OneShown ==
  ASSUME NEW L, NEW p, NEW m, Own(L, p) = {m}, NEW t, Fresh(t, L[m], p)
  PROVE  Fine(<<t>>, L, p)
<1> DEFINE s == <<t>>
           w == [k \in 1 .. 1 |-> m]
<1>1. Len(s) = 1 /\ s = [k \in 1 .. Len(s) |-> s[k]] /\ s[1] = t
  BY Appended
<1>2. /\ w \in [1 .. 1 -> Own(L, p)] /\ w[1] = m
      /\ \A k \in 1 .. 1 : k = 1 /\ 1 \in 1 .. 1 /\ ~(1 < 1)
  OBVIOUS
<1> HIDE DEF s, w
<1>3. \A k \in 1 .. Len(s) : /\ s[k] = [id |-> L[w[k]].id, at |-> s[k].at, new |-> s[k].new]
                             /\ s[k].new = TRUE /\ Sampled(s[k], L[w[k]], p)
  <2>1. t = [id |-> L[m].id, at |-> t.at, new |-> TRUE] /\ Sampled(t, L[m], p)
    BY DEF Fresh
  <2>2. t.new = TRUE
    BY <2>1
  <2> QED
    BY <1>1, <1>2, <2>1, <2>2
<1>4. ShowsAs(w, s, L, p)
  BY <1>1, <1>2, <1>3 DEF ShowsAs
<1>5. AllNew(s)
  BY <1>3 DEF AllNew
<1> QED
  BY <1>4, <1>5 DEF Shows, Fine, s

\* A pixel shows the same as without the layer in front.
LEMMA SameShown ==
  ASSUME NEW G, NEW H, NEW p, NEW s, Fine(s, G, p), Own(H, p) = Own(G, p),
         \A i \in Own(G, p) : G[i] = H[i]
  PROVE  Fine(s, H, p)
<1>1. PICK w : ShowsAs(w, s, G, p)
  BY DEF Fine, Shows
<1>2. /\ w \in [1 .. Len(s) -> Own(G, p)]
      /\ \A k \in 1 .. Len(s) : s[k] = [id |-> G[w[k]].id, at |-> s[k].at, new |-> s[k].new]
      /\ \A k \in 1 .. Len(s) : Sampled(s[k], G[w[k]], p)
  BY <1>1 DEF ShowsAs
<1>3. \A k \in 1 .. Len(s) : G[w[k]] = H[w[k]]
  BY <1>2
<1>4. ShowsAs(w, s, H, p)
  BY <1>1, <1>2, <1>3 DEF ShowsAs
<1> QED
  BY <1>4 DEF Fine, Shows

\* A pixel shows one more layer than without the layer in front.
LEMMA MoreShown ==
  ASSUME NEW G, NEW H, NEW p, NEW s, Fine(s, G, p), NEW m \in Nat,
         Own(H, p) = Own(G, p) \cup {m + 1}, Own(G, p) \subseteq 1 .. m,
         \A i \in Own(G, p) : G[i] = H[i], NEW t, Fresh(t, H[m + 1], p)
  PROVE  Fine(s \o <<t>>, H, p)
<1> DEFINE u == s \o <<t>>
           n == Len(s)
<1>1. PICK w : ShowsAs(w, s, G, p)
  BY DEF Fine, Shows
<1>2. /\ n \in Nat /\ s = [k \in 1 .. n |-> s[k]]
      /\ w \in [1 .. n -> Own(G, p)]
      /\ \A j, k \in 1 .. n : j < k => w[j] < w[k]
      /\ \A i \in Own(G, p) : \E k \in 1 .. n : w[k] = i
      /\ \A k \in 1 .. n : s[k] = [id |-> G[w[k]].id, at |-> s[k].at, new |-> s[k].new]
      /\ \A k \in 1 .. n : Sampled(s[k], G[w[k]], p)
  BY <1>1 DEF ShowsAs
<1>3. s \in Seq(Elements(s))
  <2>1. DOMAIN s = 1 .. n
    BY <1>2
  <2>2. \A k \in 1 .. n : s[k] \in Elements(s)
    BY <2>1 DEF Elements
  <2> HIDE DEF n
  <2>3. s \in [1 .. n -> Elements(s)]
    BY <1>2, <2>2
  <2> QED
    BY <1>2, <2>3
<1>4. /\ u \in Seq(Elements(u)) /\ Len(u) = n + 1
      /\ \A k \in 1 .. n : u[k] = s[k]
      /\ u[n + 1] = t
  BY <1>3, Appended
<1> HIDE DEF u
<1>5. u = [k \in 1 .. n + 1 |-> u[k]]
  BY <1>2, <1>4
<1> HIDE DEF n
<1> DEFINE v == [k \in 1 .. n + 1 |-> IF k = n + 1 THEN m + 1 ELSE w[k]]
<1>6. \A k \in 1 .. n + 1 : k \in 1 .. n \/ k = n + 1
  BY <1>2
<1>7. /\ \A k \in 1 .. n : v[k] = w[k] /\ v[k] \in Own(G, p) /\ v[k] \in 1 .. m /\ k \in 1 .. n + 1 /\ k # n + 1
      /\ v[n + 1] = m + 1
  BY <1>2
<1>8. v = [k \in 1 .. n + 1 |-> v[k]]
  OBVIOUS
<1> HIDE DEF v
<1>9. v \in [1 .. n + 1 -> Own(H, p)]
  BY <1>6, <1>7, <1>8
<1>10. ASSUME NEW j \in 1 .. n + 1, NEW k \in 1 .. n + 1, j < k
       PROVE  v[j] < v[k]
  <2>1. j \in 1 .. n
    BY <1>2, <1>10
  <2>2. CASE k = n + 1
    BY <1>7, <2>1, <2>2
  <2>3. CASE k # n + 1
    <3>1. k \in 1 .. n
      BY <1>6, <2>3
    <3> QED
      BY <1>2, <1>7, <1>10, <2>1, <3>1
  <2> QED
    BY <2>2, <2>3
<1>11. ASSUME NEW i \in Own(H, p)
       PROVE  \E k \in 1 .. n + 1 : v[k] = i
  <2>1. CASE i = m + 1
    <3>1. n + 1 \in 1 .. n + 1
      BY <1>2
    <3> QED
      BY <1>7, <2>1, <3>1
  <2>2. CASE i \in Own(G, p)
    BY <1>2, <1>7, <2>2
  <2> QED
    BY <2>1, <2>2
<1>12. t = [id |-> H[m + 1].id, at |-> t.at, new |-> TRUE] /\ Sampled(t, H[m + 1], p) /\ t.new = TRUE
  <2>1. t = [id |-> H[m + 1].id, at |-> t.at, new |-> TRUE] /\ Sampled(t, H[m + 1], p)
    BY DEF Fresh
  <2>2. t.new = TRUE
    BY <2>1
  <2> QED
    BY <2>1, <2>2
<1>13. ASSUME NEW k \in 1 .. n + 1
       PROVE  /\ u[k] = [id |-> H[v[k]].id, at |-> u[k].at, new |-> u[k].new]
              /\ Sampled(u[k], H[v[k]], p) /\ u[k].new = TRUE
  <2>1. CASE k = n + 1
    BY <1>4, <1>7, <1>12, <2>1
  <2>2. CASE k \in 1 .. n
    <3>1. u[k] = s[k] /\ v[k] = w[k] /\ G[w[k]] = H[w[k]]
      BY <1>4, <1>7, <2>2
    <3>2. s[k].new = TRUE
      BY <2>2 DEF Fine, AllNew, n
    <3> QED
      BY <1>2, <2>2, <3>1, <3>2
  <2> QED
    BY <1>6, <2>1, <2>2
<1>14. Len(u) \in Nat
  BY <1>2, <1>4
<1>15. ShowsAs(v, u, H, p)
  BY <1>4, <1>5, <1>9, <1>10, <1>11, <1>13, <1>14 DEF ShowsAs
<1>16. AllNew(u)
  BY <1>4, <1>13 DEF AllNew
<1> QED
  BY <1>15, <1>16 DEF Fine, Shows, u

\* One more layer is painted.
LEMMA FrontMore ==
  ASSUME NEW L, Stack(L), NEW m \in 1 .. Len(L) - 1, NEW p \in Pixels, NEW s, Fine(s, Backmost(L, m), p)
  PROVE  Fine(Step(PaintOf(L[m + 1]), p, s), Backmost(L, m + 1), p)
<1> DEFINE x == L[m + 1]
           G == Backmost(L, m)
           H == Backmost(L, m + 1)
           O == Own(G, p)
           here == InRect(p, x.frame)
           u == Step(PaintOf(x), p, s)
<1>1. /\ \A i \in 1 .. m : G[i] = L[i] /\ H[i] = L[i]
      /\ H[m + 1] = x /\ m + 1 \in 1 .. Len(L) /\ Len(G) = m
      /\ ~here => Own(H, p) = O
      /\ here /\ x.buf < 0 => Own(H, p) = {}
      /\ here /\ x.buf >= 0 /\ Hides(x) => Own(H, p) = {m + 1}
      /\ here /\ x.buf >= 0 /\ ~Hides(x) => Own(H, p) = O \cup {m + 1}
  BY OwnMore
<1>2. O \subseteq 1 .. m
  BY <1>1 DEF Own
<1>3. m + 1 \in 2 .. Len(L) /\ m \in Nat
  BY <1>1
<1>4. /\ x \in RgzLayer /\ x.id \in Ids /\ x.frame \in IntRect /\ x.buf \in Int
      /\ x.buf < 0 <=> x.buf = ClearHintBuf
  <2>1. x \in RgzLayer /\ x.frame \in IntRect
    BY <1>1, StackFrame
  <2>2. x.id \in Ids /\ x.buf >= ClearHintBuf
    BY <1>3 DEF Stack
  <2>3. x.buf \in Int
    BY <2>1 DEF RgzLayer
  <2> QED
    BY <2>1, <2>2, <2>3 DEF ClearHintBuf
<1>5. Covering(x, x.frame)
  <2>1. /\ x.frame.left \in Int /\ x.frame.top \in Int /\ x.frame.right \in Int /\ x.frame.bottom \in Int
    BY <1>4 DEF IntRect
  <2> QED
    BY <1>4, <2>1 DEF Covering, Within
<1>6. /\ Reaches(Clear(ClipToScreen(x.frame)), p) <=> here
      /\ Reaches(BlendLayer(x, x.frame), p) <=> here
      /\ Reaches(CopyLayer(x, x.frame), p) <=> here
  <2>1. ClipToScreen(x.frame) \in IntRect /\ (InRect(p, ClipToScreen(x.frame)) <=> here)
    BY <1>4, ClippedPixel
  <2>2. Reaches(Clear(ClipToScreen(x.frame)), p) <=> here
    BY <2>1, OthersReach
  <2>3. \A op : Reaches(Entry(op, x, x.frame), p) <=> here
    BY <1>4, <1>5, EntryReaches
  <2> QED
    BY <2>2, <2>3 DEF BlendLayer, CopyLayer
<1>7. PaintOf(x) = IF x.buf < 0 THEN Clear(ClipToScreen(x.frame))
                   ELSE IF Attr[x.id].premult THEN BlendLayer(x, x.frame) ELSE CopyLayer(x, x.frame)
  BY <1>4 DEF PaintOf, LayerBlit
<1> HIDE DEF x, G, H, O, here
<1>8. CASE ~here
  <2>1. ~Reaches(PaintOf(x), p)
    BY <1>6, <1>7, <1>8
  <2>2. u = s
    BY <2>1 DEF Step
  <2> HIDE DEF u
  <2>3. Fine(s, H, p)
    BY <1>1, <1>2, <1>8, SameShown DEF O, G
  <2> QED
    BY <2>2, <2>3 DEF u, x, H
<1>9. CASE here /\ x.buf < 0
  <2>1. u = <<>>
    BY <1>6, <1>7, <1>9, ClearStep
  <2> HIDE DEF u
  <2>2. Fine(<<>>, H, p)
    BY <1>1, <1>9, NoneShown
  <2> QED
    BY <2>1, <2>2 DEF u, x, H
<1>10. CASE here /\ x.buf >= 0
  <2>1. InRect(p, x.frame)
    BY <1>10 DEF here
  <2>2. ~(x.buf < 0)
    BY <1>4, <1>10
  <2>3. /\ Copied(Step(CopyLayer(x, x.frame), p, s), x, p)
        /\ Layered(Step(BlendLayer(x, x.frame), p, s), x, p, s)
    BY <1>4, <1>5, <2>1, EntryStep DEF CopyLayer, BlendLayer
  <2>4. CASE Hides(x)
    <3>1. PICK t : Fresh(t, x, p) /\ u = <<t>>
      <4>1. CASE Attr[x.id].premult
        <5>1. ~HasAlpha(x.id) /\ PaintOf(x) = BlendLayer(x, x.frame)
          BY <1>7, <2>2, <2>4, <4>1 DEF Hides
        <5> QED
          BY <2>3, <5>1 DEF Layered
      <4>2. CASE ~Attr[x.id].premult
        <5>1. PaintOf(x) = CopyLayer(x, x.frame)
          BY <1>7, <2>2, <4>2
        <5> QED
          BY <2>3, <5>1 DEF Copied
      <4> QED
        BY <4>1, <4>2
    <3> HIDE DEF u
    <3>2. Fine(<<t>>, H, p)
      BY <1>1, <1>10, <2>4, <3>1, OneShown
    <3> QED
      BY <3>1, <3>2 DEF u, x, H
  <2>5. CASE ~Hides(x)
    <3>1. PaintOf(x) = BlendLayer(x, x.frame) /\ HasAlpha(x.id)
      BY <1>7, <2>2, <2>5 DEF Hides
    <3>2. PICK t : Fresh(t, x, p) /\ u = s \o <<t>>
      BY <2>3, <3>1 DEF Layered
    <3> HIDE DEF u
    <3>3. Fine(s, G, p)
      BY DEF G
    <3>4. /\ Own(H, p) = Own(G, p) \cup {m + 1} /\ Own(G, p) \subseteq 1 .. m
          /\ \A i \in Own(G, p) : G[i] = H[i]
      BY <1>1, <1>2, <1>10, <2>5 DEF O
    <3>5. Fine(s \o <<t>>, H, p)
      BY <1>1, <1>3, <3>2, <3>3, <3>4, MoreShown
    <3> QED
      BY <3>2, <3>5 DEF u, x, H
  <2> QED
    BY <2>4, <2>5
<1> QED
  BY <1>4, <1>8, <1>9, <1>10

\* The commands of paint mode show all layers.
LEMMA PaintShows ==
  ASSUME NEW r, Stack(r.cur), NEW p \in Pixels, NEW was
  PROVE  Fine(AfterBlits(PaintBlits(r), p, was), r.cur, p)
<1> DEFINE L == r.cur
           n == Len(L)
           cs == PaintBlits(r)
<1>1. /\ Len(cs) = n /\ n \in Nat /\ n > 0 /\ cs[1] = Clear(ScreenRect)
      /\ \A i \in 2 .. n : cs[i] = PaintOf(L[i])
  BY PaintCommands DEF Stack
<1>2. L = Backmost(L, n) /\ L[1].buf = BackgroundBuf /\ Stack(L)
  BY DEF Stack, Backmost
<1> HIDE DEF L, cs
<1>3. PICK f : Runs(f, cs, p, was)
  BY <1>1, OneRun
<1>4. AfterBlits(cs, p, was) = f[n]
  BY <1>1, <1>3, OneRun
<1>5. \A k \in 1 .. n : f[k] = Step(cs[k], p, f[k - 1])
  BY <1>1, <1>3 DEF Runs
<1> HIDE DEF n
<1> DEFINE U == {k \in 0 .. n : k > 0 => Fine(f[k], Backmost(L, k), p)}
<1>6. 0 \in U
  BY <1>1
<1>7. ASSUME NEW k \in 1 .. n, k - 1 \in U
      PROVE  k \in U
  <2>1. CASE k = 1
    <3>1. f[1] = Step(Clear(ScreenRect), p, f[0])
      <4>1. 1 \in 1 .. n /\ 1 - 1 = 0
        BY <1>1
      <4>2. f[1] = Step(cs[1], p, f[1 - 1])
        BY <1>5, <4>1
      <4> QED
        BY <1>1, <4>1, <4>2
    <3>2. Reaches(Clear(ScreenRect), p)
      <4>1. InRect(p, ScreenRect)
        BY Screen DEF Pixels, InRect, ScreenRect, Rect
      <4> QED
        BY <4>1, Screen, OthersReach
    <3>3. f[1] = <<>>
      BY <3>1, <3>2, ClearStep
    <3>4. Own(Backmost(L, 1), p) = {}
      <4>1. Len(Backmost(L, 1)) = 1 /\ Backmost(L, 1)[1] = L[1]
        BY DEF Backmost
      <4>2. \A i \in 1 .. 1 : i = 1
        OBVIOUS
      <4>3. ~(L[1].buf >= 0)
        BY <1>2 DEF BackgroundBuf
      <4> QED
        BY <4>1, <4>2, <4>3 DEF Own
    <3>5. Fine(f[1], Backmost(L, 1), p)
      BY <3>3, <3>4, NoneShown
    <3> QED
      BY <1>1, <2>1, <3>5
  <2>2. CASE k # 1
    <3>1. k - 1 \in 1 .. n - 1 /\ k - 1 > 0 /\ (k - 1) + 1 = k /\ k \in 2 .. n
      BY <1>1, <2>2
    <3>2. Fine(f[k - 1], Backmost(L, k - 1), p)
      BY <1>7, <3>1
    <3>3. Fine(Step(PaintOf(L[k - 1 + 1]), p, f[k - 1]), Backmost(L, k - 1 + 1), p)
      BY <1>2, <3>1, <3>2, FrontMore DEF n
    <3>4. f[k] = Step(PaintOf(L[k]), p, f[k - 1])
      BY <1>1, <1>5, <3>1
    <3>5. Fine(f[k], Backmost(L, k), p)
      BY <3>1, <3>3, <3>4
    <3> QED
      BY <1>1, <3>5
  <2> QED
    BY <2>1, <2>2
<1>8. n \in U
  <2> HIDE DEF U
  <2>1. \A k \in 0 .. n : k \in U
    BY <1>1, <1>6, <1>7, UpTo
  <2> QED
    BY <1>1, <2>1
<1> QED
  BY <1>1, <1>2, <1>4, <1>8 DEF L, cs

-----------------------------------------------------------------------------
(* The framebuffers.                                                        *)

\* A pixel where the layers in S have new content: what it shows of them is old.
AgedPixel(s, S) == [i \in DOMAIN s |-> IF s[i].id \in S THEN [s[i] EXCEPT !.new = FALSE] ELSE s[i]]

\* The content of a layer becomes old.
LEMMA OldContent ==
  ASSUME NEW i, NEW x, NEW y, NEW z, NEW t, t = [id |-> i, at |-> x, new |-> y]
  PROVE  [t EXCEPT !.new = z] = [id |-> i, at |-> x, new |-> z]
OBVIOUS

\* An old pixel shows the same layers, the content of those outside of S as before.
LEMMA AgedShows ==
  ASSUME NEW s, NEW L, NEW p, Shows(s, L, p), NEW S
  PROVE  /\ Shows(AgedPixel(s, S), L, p)
         /\ Len(s) \in Nat /\ DOMAIN s = 1 .. Len(s) /\ Len(AgedPixel(s, S)) = Len(s)
         /\ \A k \in 1 .. Len(s) : AgedPixel(s, S)[k].id = s[k].id
         /\ \A k \in 1 .. Len(s) : s[k].new = TRUE /\ s[k].id \notin S => AgedPixel(s, S)[k].new = TRUE
<1> DEFINE a == AgedPixel(s, S)
           n == Len(s)
           old == FALSE
<1>1. PICK w : ShowsAs(w, s, L, p)
  BY DEF Shows
<1>2. /\ n \in Nat /\ s = [k \in 1 .. n |-> s[k]]
      /\ w \in [1 .. n -> Own(L, p)]
      /\ \A j, k \in 1 .. n : j < k => w[j] < w[k]
      /\ \A i \in Own(L, p) : \E k \in 1 .. n : w[k] = i
      /\ \A k \in 1 .. n : s[k] = [id |-> L[w[k]].id, at |-> s[k].at, new |-> s[k].new]
      /\ \A k \in 1 .. n : Sampled(s[k], L[w[k]], p)
  BY <1>1 DEF ShowsAs
<1>3. DOMAIN s = 1 .. n
  BY <1>2
<1>4. a = [k \in 1 .. n |-> IF s[k].id \in S THEN [s[k] EXCEPT !.new = old] ELSE s[k]]
  BY <1>3 DEF AgedPixel
<1> HIDE DEF a, n, old
<1>5. Len(a) = n /\ a = [k \in 1 .. n |-> a[k]]
  BY <1>2, <1>4
<1>6. ASSUME NEW k \in 1 .. n
      PROVE  /\ a[k].id = s[k].id /\ a[k] = [id |-> L[w[k]].id, at |-> a[k].at, new |-> a[k].new]
             /\ s[k].new = TRUE /\ s[k].id \notin S => a[k].new = TRUE
             /\ a[k].at = s[k].at
  <2> DEFINE x == s[k].at
             y == s[k].new
             i == L[w[k]].id
  <2>1. s[k] = [id |-> i, at |-> x, new |-> y]
    BY <1>2
  <2>2. a[k] = IF s[k].id \in S THEN [s[k] EXCEPT !.new = old] ELSE s[k]
    BY <1>4
  <2> HIDE DEF x, y, i
  <2>3. s[k].id = i /\ s[k].at = x
    BY <2>1
  <2>4. CASE s[k].id \in S
    <3>1. a[k] = [id |-> i, at |-> x, new |-> old]
      BY <2>1, <2>2, <2>4, OldContent
    <3>2. a[k].id = i /\ a[k].at = x
      BY <3>1
    <3>3. a[k] = [id |-> i, at |-> a[k].at, new |-> a[k].new]
      BY <3>1
    <3> QED
      BY <2>3, <2>4, <3>2, <3>3 DEF i
  <2>5. CASE s[k].id \notin S
    <3>1. a[k] = s[k]
      BY <2>2, <2>5
    <3>2. a[k] = [id |-> i, at |-> a[k].at, new |-> a[k].new] /\ a[k].at = s[k].at
      BY <2>1, <3>1
    <3> QED
      BY <3>1, <3>2 DEF i
  <2> QED
    BY <2>4, <2>5
<1>7. \A k \in 1 .. n : Sampled(a[k], L[w[k]], p)
  BY <1>2, <1>6 DEF Sampled
<1>8. ShowsAs(w, a, L, p)
  BY <1>2, <1>5, <1>6, <1>7 DEF ShowsAs
<1> QED
  BY <1>2, <1>3, <1>5, <1>6, <1>8 DEF Shows, a, n

\* The framebuffers hold a stack for each pixel.
Framebuffers(f) ==
  /\ DOMAIN f = 0 .. NumFb - 1
  /\ \A b \in 0 .. NumFb - 1 : DOMAIN f[b] = Pixels /\ f[b] = [p \in Pixels |-> f[b][p]]

\* What the framebuffers show when the content of the layers in S is new.
LEMMA AgedRight ==
  ASSUME Framebuffers(fb), NEW S
  PROVE  /\ Framebuffers(Aged(S))
         /\ \A b \in 0 .. NumFb - 1 : \A p \in Pixels : Aged(S)[b][p] = AgedPixel(fb[b][p], S)
BY DEF Framebuffers, Aged, AgedPixel

\* The framebuffer drawn next is another one.
LEMMA Targets ==
  ASSUME target \in 0 .. NumFb - 1
  PROVE  /\ NextTarget \in 0 .. NumFb - 1 /\ NextTarget # target
         /\ (NextTarget + 1) % NumFb = target
<1>1. target = 0 \/ target = 1
  BY DEF NumFb
<1> QED
  BY <1>1 DEF NextTarget, NumFb

\* What the framebuffer drawn next was left with.
Older == rgz.states[(rgz.idx + 1) % NumFb]
Drew == drawn = "blitter" /\ blt_mode = "region"

\* A pixel left from two frames ago: it shows the layers of T, and those of them that
\* the frame drawn since then has, and does not wait for both framebuffers with, are new.
Left(s, T, L, p) ==
  /\ Shows(s, T, p)
  /\ \A k \in 1 .. Len(s) : \A i \in 2 .. Len(L) :
       L[i].id = s[k].id /\ L[i].dirty < NumFb => s[k].new = TRUE

\* What is in the framebuffers, and what the regionizer knows of it.
FbInv ==
  /\ target \in 0 .. NumFb - 1 /\ Framebuffers(fb)
  /\ drawn \in {"blitter", "sgx", "nobody"}
  /\ drawn # "blitter" => rgz = Released
  /\ drawn = "sgx" => fb[target] = Pictures[list]
  /\ \A f \in 0 .. NumFb - 1 : Known(rgz.states[f])
  /\ drawn = "blitter" => \A p \in Pixels : Fine(fb[target][p], rgz.cur, p)
  /\ Drew =>
       /\ Chain(rgz.cur, Older)
       /\ Older # <<>> => \A p \in Pixels : Left(fb[NextTarget][p], Older, rgz.cur, p)

\* The frame's layers are a list.
LEMMA CurrentList ==
  ASSUME RgzInv, drawn = "blitter"
  PROVE  IsList(rgz.cur, handle)
<1>1. list \in Inputs /\ handle \in [Ids -> {0, 1}] /\ Counted(rgz.cur, RgzLayers(list, handle))
  BY DEF RgzInv
<1>2. \E a : ListOf(rgz.cur, list, handle, a)
  BY <1>1, ListRight
<1> QED
  BY <1>1, <1>2 DEF IsList

\* Nothing is known of the framebuffers after a release.
LEMMA ReleasedKnown ==
  /\ Released.idx = 0 /\ \A f \in 0 .. NumFb - 1 : Released.states[f] = <<>> /\ Known(Released.states[f])
BY DEF Released, NumFb, Known

\* What the next frame of the blitter starts from.
Starts(P, T) ==
  /\ P = rgz.states[rgz.idx] /\ T = Older /\ Known(P) /\ Known(T) /\ Chain(P, T)
  /\ T # <<>> => P # <<>> /\ \A p \in Pixels : Left(fb[NextTarget][p], T, P, p)
  /\ P # <<>> => IsList(P, handle) /\ \A p \in Pixels : Fine(fb[target][p], P, p)

\* What a frame of the blitter finds.
LEMMA FrameStarts ==
  ASSUME RgzInv, FbInv, blt_mode = "region"
  PROVE  Starts(rgz.states[rgz.idx], Older)
<1> DEFINE P == rgz.states[rgz.idx]
           T == Older
<1>1. rgz.idx \in 0 .. NumFb - 1 /\ (rgz.idx + 1) % NumFb \in 0 .. NumFb - 1
  BY DEF RgzInv, RgzState, NumFb
<1>2. Known(P) /\ Known(T)
  BY <1>1 DEF FbInv, Older
<1>3. CASE drawn = "blitter"
  <2>1. P = rgz.cur
    BY <1>3 DEF RgzInv
  <2>2. IsList(rgz.cur, handle)
    BY <1>3, CurrentList
  <2>3. /\ \A p \in Pixels : Fine(fb[target][p], rgz.cur, p)
        /\ Chain(rgz.cur, Older)
        /\ Older # <<>> => \A p \in Pixels : Left(fb[NextTarget][p], Older, rgz.cur, p)
    BY <1>3 DEF FbInv, Drew
  <2>4. rgz.cur # <<>>
    <3>1. Len(rgz.cur) > 0
      BY <2>2, ListFacts
    <3> QED
      BY <3>1
  <2> QED
    BY <1>2, <2>1, <2>2, <2>3, <2>4 DEF Starts
<1>4. CASE drawn # "blitter"
  <2>1. rgz = Released
    BY <1>4 DEF FbInv
  <2>2. P = <<>> /\ T = <<>>
    BY <1>1, <2>1, ReleasedKnown DEF Older
  <2>3. \A q \in 1 .. Len(<<>>) : FALSE
    OBVIOUS
  <2>4. Chain(P, T)
    BY <2>2, <2>3 DEF Chain
  <2> QED
    BY <1>2, <2>2, <2>4 DEF Starts
<1> QED
  BY <1>3, <1>4

\* Before the first frame.
LEMMA FbInitial == Init => FbInv
<1> SUFFICES ASSUME Init PROVE FbInv
  OBVIOUS
<1>1. target = 0 /\ drawn = "nobody" /\ rgz = Released /\ fb = [i \in 0 .. NumFb - 1 |-> [p \in Pixels |-> <<>>]]
  BY DEF Init
<1>2. target \in 0 .. NumFb - 1 /\ Framebuffers(fb)
  BY <1>1 DEF Framebuffers, NumFb
<1>3. ~Drew
  BY <1>1 DEF Drew
<1> QED
  BY <1>1, <1>2, <1>3, ReleasedKnown DEF FbInv

\* A frame that the blitter does not draw.
LEMMA OtherFrame ==
  ASSUME FbInv, NEW l \in Inputs, NEW S \in Updates, SgxFrame(l, S) \/ DssFrame(l, S)
  PROVE  FbInv'
<1>1. target \in 0 .. NumFb - 1 /\ Framebuffers(fb)
  BY DEF FbInv
<1>2. rgz' = Released /\ drawn' # "blitter" /\ drawn' \in {"blitter", "sgx", "nobody"}
  BY DEF SgxFrame, DssFrame
<1>3. Framebuffers(Aged(S)) /\ NextTarget \in 0 .. NumFb - 1
  BY <1>1, AgedRight, Targets
<1>4. target' \in 0 .. NumFb - 1
  BY <1>1, <1>3 DEF SgxFrame, DssFrame
<1>5. Framebuffers(fb')
  <2>1. CASE DssFrame(l, S)
    BY <1>3, <2>1 DEF DssFrame
  <2>2. CASE SgxFrame(l, S)
    <3>1. fb' = [Aged(S) EXCEPT ![NextTarget] = Pictures[l]]
      BY <2>2 DEF SgxFrame
    <3> DEFINE A == Aged(S)
               B == Pictures[l]
    <3>2. DOMAIN B = Pixels /\ B = [p \in Pixels |-> B[p]]
      BY DEF Pictures, Picture
    <3> HIDE DEF A, B
    <3>3. /\ DOMAIN fb' = 0 .. NumFb - 1 /\ fb'[NextTarget] = B
          /\ \A b \in 0 .. NumFb - 1 : b # NextTarget => fb'[b] = A[b]
      BY <1>3, <3>1 DEF Framebuffers, A, B
    <3>4. \A b \in 0 .. NumFb - 1 : DOMAIN A[b] = Pixels /\ A[b] = [p \in Pixels |-> A[b][p]]
      BY <1>3 DEF Framebuffers, A
    <3>5. \A b \in 0 .. NumFb - 1 : DOMAIN fb'[b] = Pixels /\ fb'[b] = [p \in Pixels |-> fb'[b][p]]
      BY <3>2, <3>3, <3>4
    <3> QED
      BY <3>3, <3>5 DEF Framebuffers
  <2> QED
    BY <2>1, <2>2
<1>6. ~Drew'
  BY <1>2 DEF Drew
<1>7. drawn' = "sgx" => fb'[target'] = Pictures'[list']
  <2>1. Pictures' = Pictures
    BY DEF Pictures, Picture, Candidates, HasClearHint, UsesSgx
  <2>2. CASE DssFrame(l, S)
    BY <2>2 DEF DssFrame
  <2>3. CASE SgxFrame(l, S)
    <3> DEFINE A == Aged(S)
    <3>1. fb' = [A EXCEPT ![NextTarget] = Pictures[l]] /\ target' = NextTarget /\ list' = l
      BY <2>3 DEF SgxFrame, Passed
    <3>2. NextTarget \in DOMAIN A
      BY <1>3 DEF Framebuffers
    <3> HIDE DEF A
    <3>3. fb'[target'] = Pictures[l]
      BY <3>1, <3>2
    <3> QED
      BY <2>1, <3>1, <3>3
  <2> QED
    BY <2>2, <2>3
<1> QED
  BY <1>2, <1>4, <1>5, <1>6, <1>7, ReleasedKnown DEF FbInv

\* The layers of a frame of the blitter are a list, and only dirty counts tell it from
\* the layers passed.
LEMMA NewList ==
  ASSUME RgzInv, NEW l \in Inputs, NEW S \in Updates, BlitFrame(l, S)
  PROVE  /\ IsList(rgz'.cur, handle') /\ Alike(rgz'.cur, RgzLayers(l, handle'))
         /\ \E a : ListOf(rgz'.cur, l, handle', a)
<1> DEFINE R == RgzLayers(l, handle')
           L == rgz'.cur
<1>1. handle' \in [Ids -> {0, 1}]
  BY PassedRight DEF BlitFrame
<1>2. Counted(L, R)
  BY BlitRight
<1>3. \E a : ListOf(L, l, handle', a)
  BY <1>1, <1>2, ListRight
<1>4. IsList(L, handle')
  BY <1>1, <1>3 DEF IsList
<1>5. Stack(R)
  BY <1>1, LayersRight
<1> HIDE DEF L, R
<1>6. /\ L \in Seq(RgzLayer) /\ R \in Seq(RgzLayer) /\ Len(L) = Len(R)
      /\ \A i \in 1 .. Len(R) : L[i] = WithDirty(R[i], L[i].dirty)
  BY <1>2, <1>5 DEF Counted, Stack
<1>7. ASSUME NEW i \in 1 .. Len(R)
      PROVE  /\ L[i].id = R[i].id /\ L[i].buf = R[i].buf /\ L[i].frame = R[i].frame
             /\ L[i].handle = R[i].handle
  <2>1. L[i] = WithDirty(R[i], L[i].dirty) /\ L[i] \in RgzLayer /\ R[i] \in RgzLayer
    BY <1>6
  <2>2. L[i].dirty \in 0 .. NumFb
    BY <2>1 DEF RgzLayer
  <2> QED
    BY <2>1, <2>2, DirtyOnly
<1>8. DOMAIN L = 1 .. Len(R) /\ DOMAIN R = 1 .. Len(R)
  BY <1>6
<1>9. Alike(L, R)
  BY <1>7, <1>8 DEF Alike
<1> QED
  BY <1>3, <1>4, <1>9 DEF L, R

\* The regionizer turns to the framebuffer that was not drawn last.
LEMMA IndexTurns ==
  ASSUME RgzInv
  PROVE  /\ Before.idx \in 0 .. NumFb - 1
         /\ (Before.idx + 1) % NumFb \in 0 .. NumFb - 1 /\ (Before.idx + 1) % NumFb # Before.idx
         /\ (((Before.idx + 1) % NumFb) + 1) % NumFb = Before.idx
         /\ \A f \in 0 .. NumFb - 1 : f = Before.idx \/ f = (Before.idx + 1) % NumFb
<1>1. Before.idx \in 0 .. NumFb - 1
  BY BeforeRight DEF RgzState
<1>2. Before.idx = 0 \/ Before.idx = 1
  BY <1>1 DEF NumFb
<1> QED
  BY <1>1, <1>2 DEF NumFb

\* The states of the framebuffers stay lists.
LEMMA StatesKnown ==
  ASSUME RgzInv, FbInv, NEW l \in Inputs, NEW S \in Updates, BlitFrame(l, S)
  PROVE  \A f \in 0 .. NumFb - 1 : Known(rgz'.states[f])
<1>1. /\ rgz'.idx = (Before.idx + 1) % NumFb /\ rgz'.states[rgz'.idx] = rgz'.cur
      /\ rgz'.states[Before.idx] = Before.states[Before.idx]
  BY BlitRight
<1>2. Known(rgz'.cur)
  BY NewList DEF Known
<1>3. Known(Before.states[Before.idx])
  BY IndexTurns, ReleasedKnown DEF FbInv, Before
<1> QED
  BY <1>1, <1>2, <1>3, IndexTurns

\* Where the frame's framebuffer is, and what is in both.
LEMMA FrameDrawn ==
  ASSUME RgzInv, FbInv, NEW l \in Inputs, NEW S \in Updates, BlitFrame(l, S)
  PROVE  /\ target' = NextTarget /\ target' \in 0 .. NumFb - 1 /\ NextTarget' = target
         /\ Framebuffers(fb')
         /\ \A p \in Pixels : fb'[target][p] = AgedPixel(fb[target][p], S)
         /\ blt_mode = "paint" => \A p \in Pixels :
              fb'[NextTarget][p] = AfterBlits(PaintBlits(rgz'), p, AgedPixel(fb[NextTarget][p], S))
         /\ blt_mode = "region" =>
              \E dmg \in {Damaged(rgz'.cur, rgz.states[rgz.idx], Older)} :
              \A p \in Pixels : fb'[NextTarget][p] =
                AfterBlits(RegionBlits(HRegions(rgz'.cur, dmg), dmg), p, AgedPixel(fb[NextTarget][p], S))
<1> DEFINE R == RgzLayers(l, handle')
           r == Checked(Before, R)
           dmg == DamagedArea(Before, R)
           hs == Regions(r, dmg)
           cs == Blits(hs, r, dmg)
<1>1. target \in 0 .. NumFb - 1 /\ Framebuffers(fb)
  BY DEF FbInv
<1>2. /\ target' = NextTarget
      /\ rgz' = [r EXCEPT !.state = IF blt_mode = "paint" THEN @ ELSE @ \cup {"regions"}]
      /\ fb' = [Aged(S) EXCEPT ![NextTarget] = [p \in Pixels |-> AfterBlits(cs, p, @[p])]]
  BY DEF BlitFrame
<1>3. NextTarget \in 0 .. NumFb - 1 /\ NextTarget # target /\ (NextTarget + 1) % NumFb = target
  BY <1>1, Targets
<1>4. NextTarget' = target
  BY <1>2, <1>3 DEF NextTarget
<1>5. /\ Framebuffers(Aged(S))
      /\ \A b \in 0 .. NumFb - 1 : \A p \in Pixels : Aged(S)[b][p] = AgedPixel(fb[b][p], S)
  BY <1>1, AgedRight
<1>6. rgz'.cur = r.cur
  <2>1. Before \in RgzState /\ \A f \in 0 .. NumFb - 1 : Before.states[f] # <<>> => Stack(Before.states[f])
    BY BeforeRight
  <2>2. Stack(R)
    BY PassedRight, LayersRight DEF BlitFrame
  <2>3. r \in RgzState
    BY <2>1, <2>2, CheckedRight
  <2> HIDE DEF r
  <2> QED
    BY <1>2, <2>3, RegionsAdded
<1>7. blt_mode = "paint" => cs = PaintBlits(rgz')
  <2>1. blt_mode = "paint" => cs = PaintBlits(r)
    BY DEF Blits
  <2>2. PaintBlits(r) = PaintBlits(rgz')
    BY <1>6 DEF PaintBlits
  <2> QED
    BY <2>1, <2>2
<1>8. blt_mode = "region" =>
        /\ cs = RegionBlits(HRegions(rgz'.cur, dmg), dmg)
        /\ dmg = Damaged(rgz'.cur, rgz.states[rgz.idx], Older)
  <2> SUFFICES ASSUME blt_mode = "region"
               PROVE  /\ cs = RegionBlits(HRegions(rgz'.cur, dmg), dmg)
                      /\ dmg = Damaged(rgz'.cur, rgz.states[rgz.idx], Older)
    OBVIOUS
  <2>1. Before = rgz
    BY DEF Before
  <2>3. cs = RegionBlits(HRegions(r.cur, dmg), dmg)
    BY DEF Blits, Regions
  <2>4. dmg = Damaged(R, rgz.states[rgz.idx], Older)
    BY <2>1 DEF DamagedArea, Older
  <2>5. Damaged(rgz'.cur, rgz.states[rgz.idx], Older) = Damaged(R, rgz.states[rgz.idx], Older)
    BY NewList, AlikeRight
  <2> HIDE DEF cs, dmg, r, R
  <2> QED
    BY <1>6, <2>3, <2>4, <2>5
<1> HIDE DEF cs, dmg, r, R
<1>9. /\ Framebuffers(fb')
      /\ \A p \in Pixels : fb'[target][p] = AgedPixel(fb[target][p], S)
      /\ \A p \in Pixels : fb'[NextTarget][p] = AfterBlits(cs, p, AgedPixel(fb[NextTarget][p], S))
  <2> DEFINE A == Aged(S)
  <2>1. /\ DOMAIN A = 0 .. NumFb - 1
        /\ \A b \in 0 .. NumFb - 1 : DOMAIN A[b] = Pixels /\ A[b] = [p \in Pixels |-> A[b][p]]
        /\ \A b \in 0 .. NumFb - 1 : \A p \in Pixels : A[b][p] = AgedPixel(fb[b][p], S)
    BY <1>5 DEF Framebuffers
  <2> HIDE DEF A
  <2>2. fb' = [A EXCEPT ![NextTarget] = [p \in Pixels |-> AfterBlits(cs, p, A[NextTarget][p])]]
    BY <1>2 DEF A
  <2>3. /\ DOMAIN fb' = 0 .. NumFb - 1
        /\ fb'[NextTarget] = [p \in Pixels |-> AfterBlits(cs, p, A[NextTarget][p])]
        /\ \A b \in 0 .. NumFb - 1 : b # NextTarget => fb'[b] = A[b]
    BY <1>3, <2>1, <2>2
  <2>4. Framebuffers(fb')
    <3> DEFINE B == fb'[NextTarget]
    <3>1. DOMAIN B = Pixels /\ B = [p \in Pixels |-> B[p]]
      BY <2>3
    <3>2. \A b \in 0 .. NumFb - 1 : DOMAIN fb'[b] = Pixels /\ fb'[b] = [p \in Pixels |-> fb'[b][p]]
      <4> SUFFICES ASSUME NEW b \in 0 .. NumFb - 1
                   PROVE  DOMAIN fb'[b] = Pixels /\ fb'[b] = [p \in Pixels |-> fb'[b][p]]
        OBVIOUS
      <4>1. CASE b = NextTarget
        BY <3>1, <4>1
      <4>2. CASE b # NextTarget
        BY <2>1, <2>3, <4>2
      <4> QED
        BY <4>1, <4>2
    <3> QED
      BY <2>3, <3>2 DEF Framebuffers
  <2>5. fb'[target] = A[target]
    BY <1>1, <1>3, <2>3
  <2> QED
    BY <1>1, <1>3, <2>1, <2>3, <2>4, <2>5
<1>10. blt_mode = "region" =>
        \E d \in {Damaged(rgz'.cur, rgz.states[rgz.idx], Older)} :
        \A p \in Pixels : fb'[NextTarget][p] =
          AfterBlits(RegionBlits(HRegions(rgz'.cur, d), d), p, AgedPixel(fb[NextTarget][p], S))
  BY <1>8, <1>9
<1> QED
  BY <1>2, <1>3, <1>4, <1>7, <1>9, <1>10

\* The dirty counts of a frame, and where its layers are.
LEMMA FrameCounts ==
  ASSUME ~LayersReturn, RgzInv, NEW l \in Inputs, NEW S \in Updates, BlitFrame(l, S),
         blt_mode = "region"
  PROVE  /\ \A i \in 1 .. Len(rgz'.cur) : rgz'.cur[i].dirty = DirtyCount(i, rgz'.cur, rgz.states[rgz.idx], Older)
         /\ Stays(rgz'.cur, rgz.states[rgz.idx], Older)
<1> DEFINE R == RgzLayers(l, handle')
           L == rgz'.cur
           P == rgz.states[rgz.idx]
           T == Older
<1>1. Before = rgz
  BY DEF Before
<1>2. \A i \in 1 .. Len(R) : L[i].dirty = DirtyCount(i, R, P, T)
  BY <1>1, BlitRight DEF Older
<1>3. Alike(L, R) /\ \E a : ListOf(L, l, handle', a)
  BY NewList
<1>4. PICK a : ListOf(L, l, handle', a)
  BY <1>3
<1>5. NoneReturns(l)
  BY DEF BlitFrame, Passed
<1>6. Stack(R)
  BY PassedRight, LayersRight DEF BlitFrame
<1>7. \A i \in DOMAIN l : Find(P, l[i].id) = {} => \A x \in Find(T, l[i].id) : x.frame = l[i].frame
  BY <1>5 DEF NoneReturns, Older
<1>8. DOMAIN l = 1 .. Len(l)
  BY InputRight
<1> HIDE DEF L, R, P, T
<1>9. DOMAIN R = 1 .. Len(R) /\ DOMAIN L = 1 .. Len(L) /\ DOMAIN L = DOMAIN R
  BY <1>3, <1>4, <1>6 DEF Stack, Alike, ListOf
<1>10. \A i \in 1 .. Len(L) : L[i].dirty = DirtyCount(i, L, P, T)
  <2>1. \A i \in DOMAIN L : DirtyCount(i, L, P, T) = DirtyCount(i, R, P, T)
    BY <1>3, AlikeRight
  <2>2. \A i \in 1 .. Len(L) : i \in 1 .. Len(R) /\ i \in DOMAIN L
    BY <1>9
  <2>3. ASSUME NEW i \in 1 .. Len(L)
        PROVE  L[i].dirty = DirtyCount(i, L, P, T)
    <3>1. L[i].dirty = DirtyCount(i, R, P, T)
      BY <1>2, <2>2
    <3>2. DirtyCount(i, L, P, T) = DirtyCount(i, R, P, T)
      BY <2>1, <2>2
    <3> QED
      BY <3>1, <3>2
  <2> QED
    BY <2>3
<1>11. Stays(L, P, T)
  <2>1. \A i \in 2 .. Len(L) : /\ a[i] \in 1 .. Len(l)
                               /\ L[i].id = l[a[i]].id /\ L[i].frame = l[a[i]].frame
    BY <1>4 DEF ListOf
  <2> QED
    BY <1>7, <1>8, <2>1 DEF Stays
<1> QED
  BY <1>10, <1>11 DEF L, P, T

\* A layer whose dirty count runs has the content it had in the last frame.
LEMMA CountsChain ==
  ASSUME NEW L, NEW P, NEW T, \A i \in 1 .. Len(L) : L[i].dirty = DirtyCount(i, L, P, T)
  PROVE  Chain(L, P)
<1> SUFFICES ASSUME NEW q \in 1 .. Len(L), L[q].dirty < NumFb
             PROVE  \E x \in Previous(q, L, P) : ~ContentChanged(L[q], x)
  BY DEF Chain
<1> DEFINE same == \E x \in Previous(q, L, P) : ~ContentChanged(L[q], x)
           last == CHOOSE x \in Previous(q, L, P) : TRUE
<1>1. L[q].dirty = IF ~same \/ (q > 1 /\ Moved(L[q], T)) THEN NumFb ELSE Greatest(0, last.dirty - 1)
  BY DEF DirtyCount
<1> HIDE DEF same, last
<1>2. same
  BY <1>1 DEF NumFb
<1> QED
  BY <1>2 DEF same

\* A layer with the same buffer in two frames has no new content.
LEMMA SameBuffer ==
  ASSUME RgzInv, NEW l \in Inputs, NEW S \in Updates, Passed(l, S), NEW i \in Ids, handle'[i] = handle[i]
  PROVE  i \notin S
<1>1. handle[i] \in {0, 1}
  BY DEF RgzInv
<1>2. handle'[i] = IF i \in S THEN 1 - handle[i] ELSE handle[i]
  BY DEF Passed
<1> QED
  BY <1>1, <1>2

\* The frame's own framebuffer shows its layers, all new.
LEMMA TargetFine ==
  ASSUME StableOrder, ~LayersReturn, RgzInv, FbInv,
         NEW l \in Inputs, NEW S \in Updates, BlitFrame(l, S), blt_mode = "region", NEW p \in Pixels
  PROVE  Fine(fb'[NextTarget][p], rgz'.cur, p)
<1> DEFINE L == rgz'.cur
           P == rgz.states[rgz.idx]
           T == Older
           h == handle'
           dmg == Damaged(L, P, T)
           old == fb[NextTarget][p]
           was == AgedPixel(old, S)
           s == fb'[NextTarget][p]
<1>1. Starts(P, T)
  BY FrameStarts
<1>2. IsList(L, h)
  BY NewList
<1>3. /\ \A i \in 1 .. Len(L) : L[i].dirty = DirtyCount(i, L, P, T)
      /\ Stays(L, P, T)
  BY FrameCounts
<1>4. s = AfterBlits(RegionBlits(HRegions(L, dmg), dmg), p, was)
  BY FrameDrawn
<1>5. P # <<>> => IsList(P, handle)
  BY <1>1 DEF Starts
<1>6. T # <<>> => Left(old, T, P, p)
  BY <1>1 DEF Starts
<1>7. Known(P) /\ Known(T) /\ Chain(P, T)
  BY <1>1 DEF Starts
<1>8. Passed(l, S)
  BY DEF BlitFrame
<1> HIDE DEF L, P, T, h, dmg, old, was, s
<1>9. ASSUME T # <<>>
      PROVE  /\ Shows(was, T, p) /\ Len(old) \in Nat /\ Len(was) = Len(old)
             /\ \A k \in 1 .. Len(old) : was[k].id = old[k].id
             /\ \A k \in 1 .. Len(old) : old[k].new = TRUE /\ old[k].id \notin S => was[k].new = TRUE
  <2>1. Shows(old, T, p)
    BY <1>6, <1>9 DEF Left
  <2> QED
    BY <2>1, AgedShows DEF was
<1>10. DrawnRight(s, was, L, h, P, T, p)
  <2>1. DrawnRight(AfterBlits(RegionBlits(HRegions(L, dmg), dmg), p, was), was, L, h, P, T, p)
    BY <1>2, <1>3, <1>7, <1>9, PixelShown DEF dmg
  <2> QED
    BY <1>4, <2>1
<1>11. Shows(s, L, p)
  BY <1>10 DEF DrawnRight
<1>12. CASE AllNew(s)
  BY <1>11, <1>12 DEF Fine, s, L
<1>13. CASE s = was /\ P # <<>> /\ T # <<>> /\ \A k \in 1 .. Len(s) : Same(s[k].id, P, h)
  <2>1. ASSUME NEW k \in 1 .. Len(s)
        PROVE  s[k].new = TRUE
    <3>1. k \in 1 .. Len(old) /\ s[k].id = old[k].id
      BY <1>9, <1>13
    <3>2. PICK q \in 2 .. Len(P) :
            /\ P[q].id = s[k].id /\ P[q].dirty < NumFb /\ P[q].buf >= 0
            /\ \A f : IsList(P, f) => h[s[k].id] = f[s[k].id]
      BY <1>13 DEF Same
    <3>3. old[k].new = TRUE
      BY <1>6, <1>13, <3>1, <3>2 DEF Left
    <3>4. s[k].id \in Ids
      BY <1>5, <1>13, <3>2, ListFacts
    <3>5. h[s[k].id] = handle[s[k].id]
      BY <1>5, <1>13, <3>2
    <3>6. s[k].id \notin S
      BY <1>8, <3>4, <3>5, SameBuffer DEF h
    <3>7. was[k].new = TRUE
      BY <1>9, <1>13, <3>1, <3>3, <3>6
    <3> QED
      BY <1>13, <3>7
  <2>2. AllNew(s)
    BY <2>1 DEF AllNew
  <2> QED
    BY <1>11, <2>2 DEF Fine, s, L
<1> QED
  BY <1>10, <1>12, <1>13 DEF DrawnRight

\* What the frame before left in the other framebuffer.
LEMMA OtherLeft ==
  ASSUME ~LayersReturn, RgzInv, FbInv,
         NEW l \in Inputs, NEW S \in Updates, BlitFrame(l, S), blt_mode = "region", NEW p \in Pixels,
         rgz.states[rgz.idx] # <<>>
  PROVE  Left(fb'[target][p], rgz.states[rgz.idx], rgz'.cur, p)
<1> DEFINE L == rgz'.cur
           P == rgz.states[rgz.idx]
           T == Older
           h == handle'
           old == fb[target][p]
           s == fb'[target][p]
<1>1. IsList(P, handle) /\ Fine(old, P, p)
  BY FrameStarts DEF Starts
<1>2. IsList(L, h)
  BY NewList
<1>3. \A i \in 1 .. Len(L) : L[i].dirty = DirtyCount(i, L, P, T)
  BY FrameCounts
<1>4. s = AgedPixel(old, S)
  BY FrameDrawn
<1>5. Passed(l, S)
  BY DEF BlitFrame
<1>6. Known(P) /\ Known(T)
  BY FrameStarts DEF Starts
<1> HIDE DEF L, P, T, h, old, s
<1>7. PICK w : ShowsAs(w, old, P, p)
  BY <1>1 DEF Fine, Shows
<1>8. /\ w \in [1 .. Len(old) -> Own(P, p)]
      /\ \A k \in 1 .. Len(old) : old[k] = [id |-> P[w[k]].id, at |-> old[k].at, new |-> old[k].new]
  BY <1>7 DEF ShowsAs
<1>9. /\ Shows(s, P, p) /\ Len(s) = Len(old)
      /\ \A k \in 1 .. Len(old) : s[k].id = old[k].id
      /\ \A k \in 1 .. Len(old) : old[k].new = TRUE /\ old[k].id \notin S => s[k].new = TRUE
  BY <1>1, <1>4, AgedShows DEF Fine
<1>10. ASSUME NEW k \in 1 .. Len(s), NEW i \in 2 .. Len(L), L[i].id = s[k].id, L[i].dirty < NumFb
       PROVE  s[k].new = TRUE
  <2>1. old[k].new = TRUE /\ k \in 1 .. Len(old) /\ s[k].id = old[k].id
    BY <1>1, <1>9 DEF Fine, AllNew
  <2>2. i \in 1 .. Len(L) /\ L[i].id \in Ids /\ L[i].buf \in Int
    BY <1>2, ListFacts
  <2>3. DirtyCount(i, L, P, T) < NumFb
    BY <1>3, <1>10, <2>2
  <2>4. PICK q \in 2 .. Len(P) : P[q].id = L[i].id /\ ~ContentChanged(L[i], P[q])
    BY <1>2, <1>6, <2>3, CountKept
  <2>5. /\ L[i].buf < 0 <=> P[q].buf < 0
        /\ L[i].buf >= 0 => h[L[i].id] = handle[P[q].id]
    BY <1>1, <1>2, <2>4, SameContent
  <2>6. w[k] \in Own(P, p) /\ old[k].id = P[w[k]].id
    <3> DEFINE x == old[k].at
               y == old[k].new
    <3>1. k \in 1 .. Len(old) /\ old[k] = [id |-> P[w[k]].id, at |-> x, new |-> y]
      BY <1>8, <2>1
    <3> HIDE DEF x, y
    <3> QED
      BY <1>8, <3>1
  <2>7. w[k] \in 2 .. Len(P) /\ P[w[k]].buf >= 0
    <3>1. w[k] \in 1 .. Len(P) /\ P[w[k]].buf >= 0
      BY <2>6 DEF Own
    <3>2. P[1].buf = BackgroundBuf
      BY <1>1, ListFacts DEF Stack
    <3> QED
      BY <3>1, <3>2 DEF BackgroundBuf
  <2>8. w[k] = q
    BY <1>1, <1>10, <2>1, <2>4, <2>6, <2>7, ListFacts
  <2>9. L[i].buf >= 0
    <3>1. P[q].buf \in Int
      BY <1>1, ListFacts
    <3> QED
      BY <2>2, <2>5, <2>7, <2>8, <3>1
  <2>10. h[L[i].id] = handle[L[i].id]
    BY <2>4, <2>5, <2>9
  <2>11. L[i].id \notin S
    BY <1>5, <2>2, <2>10, SameBuffer DEF h
  <2> QED
    BY <1>9, <1>10, <2>1, <2>11
<1>11. Left(s, P, L, p)
  BY <1>9, <1>10 DEF Left
<1> QED
  BY <1>11 DEF s, P, L

\* A frame of the blitter keeps what is known of the framebuffers.
LEMMA BlitStep ==
  ASSUME StableOrder, ~LayersReturn, RgzInv, FbInv,
         NEW l \in Inputs, NEW S \in Updates, BlitFrame(l, S)
  PROVE  FbInv'
<1>1. /\ target' = NextTarget /\ target' \in 0 .. NumFb - 1 /\ NextTarget' = target
      /\ Framebuffers(fb')
  BY FrameDrawn
<1>2. drawn' = "blitter" /\ \A f \in 0 .. NumFb - 1 : Known(rgz'.states[f])
  BY BlitRight, StatesKnown
<1>3. blt_mode' = blt_mode
  BY PassedRight DEF BlitFrame
<1>4. ASSUME blt_mode = "region"
      PROVE  /\ Chain(rgz'.cur, Older')
             /\ Older' # <<>> => \A p \in Pixels : Left(fb'[NextTarget'][p], Older', rgz'.cur, p)
  <2>1. Older' = rgz.states[rgz.idx]
    <3>1. Before = rgz
      BY <1>4 DEF Before
    <3>2. rgz'.idx = (rgz.idx + 1) % NumFb /\ rgz'.states[rgz.idx] = rgz.states[rgz.idx]
      BY <3>1, BlitRight
    <3>3. (((rgz.idx + 1) % NumFb) + 1) % NumFb = rgz.idx
      BY <3>1, IndexTurns
    <3>4. (rgz'.idx + 1) % NumFb = rgz.idx
      BY <3>2, <3>3
    <3> QED
      BY <3>2, <3>4 DEF Older
  <2>2. Chain(rgz'.cur, rgz.states[rgz.idx])
    <3>1. \A i \in 1 .. Len(rgz'.cur) : rgz'.cur[i].dirty = DirtyCount(i, rgz'.cur, rgz.states[rgz.idx], Older)
      BY <1>4, FrameCounts
    <3> QED
      BY <3>1, CountsChain
  <2>3. rgz.states[rgz.idx] # <<>> =>
          \A p \in Pixels : Left(fb'[target][p], rgz.states[rgz.idx], rgz'.cur, p)
    BY <1>4, OtherLeft
  <2> QED
    BY <1>1, <2>1, <2>2, <2>3
<1>5. \A p \in Pixels : Fine(fb'[target'][p], rgz'.cur, p)
  <2>1. blt_mode = "region" \/ blt_mode = "paint"
    BY ModesAssumption DEF RgzInv
  <2>2. blt_mode = "paint" => \A p \in Pixels : Fine(fb'[NextTarget][p], rgz'.cur, p)
    <3>1. Stack(rgz'.cur)
      BY NewList, ListFacts
    <3> QED
      BY <3>1, FrameDrawn, PaintShows
  <2> QED
    BY <1>1, <2>1, <2>2, TargetFine
<1> QED
  BY <1>1, <1>2, <1>3, <1>4, <1>5 DEF FbInv, Drew

\* Every frame does.
LEMMA FbStep ==
  ASSUME StableOrder, ~LayersReturn
  PROVE  RgzInv /\ FbInv /\ [Next]_vars => FbInv'
<1> SUFFICES ASSUME RgzInv, FbInv, [Next]_vars PROVE FbInv'
  OBVIOUS
<1>1. ASSUME NEW l \in Inputs, NEW S \in Updates, BlitFrame(l, S)
      PROVE  FbInv'
  BY <1>1, BlitStep
<1>2. ASSUME NEW l \in Inputs, NEW S \in Updates, SgxFrame(l, S) \/ DssFrame(l, S)
      PROVE  FbInv'
  BY <1>2, OtherFrame
<1>3. CASE UNCHANGED vars
  <2>1. /\ rgz' = rgz /\ fb' = fb /\ target' = target /\ drawn' = drawn /\ blt_mode' = blt_mode
        /\ list' = list /\ Pictures' = Pictures
    BY <1>3 DEF vars
  <2>2. Older' = Older /\ NextTarget' = NextTarget /\ (Drew' <=> Drew)
    BY <2>1 DEF Older, NextTarget, Drew
  <2> QED
    BY <2>1, <2>2 DEF FbInv
<1> QED
  BY <1>1, <1>2, <1>3 DEF Next

\* What a frame of the blitter shows, seen by layers: at each pixel those that asked
\* to be seen there, in their order, and their newest content.
LayersShown == drawn = "blitter" => \A p \in Pixels : Fine(fb[target][p], rgz.cur, p)

\* FbInv is inductive: what each framebuffer was left with, across the frames that
\* rgz_handle_dirty_region compares.
THEOREM FramebuffersKnown ==
  ASSUME StableOrder, ~LayersReturn
  PROVE  Spec => [](RgzInv /\ FbInv)
<1>1. Init => RgzInv /\ FbInv
  BY RgzInitial, FbInitial
<1>2. RgzInv /\ FbInv /\ [Next]_vars => (RgzInv /\ FbInv)'
  BY RgzStep, FbStep
<1> QED
  BY <1>1, <1>2, PTL DEF Spec

\* After every frame of the blitter in region mode each pixel shows the layers that it
\* has to, in their order, and of each its newest content: what is left alone is right.
THEOREM LayersAreShown ==
  ASSUME StableOrder, ~LayersReturn
  PROVE  Spec => []LayersShown
<1>1. FbInv => LayersShown
  BY DEF FbInv, LayersShown
<1> QED
  BY <1>1, FramebuffersKnown, PTL

\* A layer whose old content is still on the framebuffer drawn next has a dirty count.
THEOREM StaleIsRedrawn ==
  ASSUME StableOrder, ~LayersReturn
  PROVE  Spec => []StaleIsDirty
<1>1. RgzInv /\ FbInv => StaleIsDirty
  <2> SUFFICES ASSUME RgzInv, FbInv, drawn = "blitter", blt_mode = "region",
                      NEW i \in DOMAIN rgz.cur, rgz.cur[i].dirty = 0, NEW p \in Pixels,
                      NEW k \in DOMAIN fb[NextTarget][p], fb[NextTarget][p][k].id = rgz.cur[i].id
               PROVE  fb[NextTarget][p][k].new
    BY DEF StaleIsDirty
  <2> DEFINE L == rgz.cur
             T == Older
             s == fb[NextTarget][p]
  <2>1. Chain(L, T) /\ (T # <<>> => Left(s, T, L, p))
    BY DEF FbInv, Drew
  <2>2. IsList(L, handle)
    BY CurrentList
  <2>3. Known(T)
    BY DEF FbInv, Older, RgzInv, RgzState, NumFb
  <2>4. k \in DOMAIN s /\ s[k].id = L[i].id /\ L[i].dirty = 0 /\ i \in DOMAIN L
    OBVIOUS
  <2>5. L[1].id = "background"
    <3>1. Len(L) = Len(RgzLayers(list, handle)) /\ rgz.cur[1].id = RgzLayers(list, handle)[1].id
      <4>1. 1 \in 1 .. Len(rgz.cur)
        BY <2>2, ListFacts
      <4> QED
        BY <4>1, LastFrame
    <3>2. RgzLayers(list, handle)[1] = Background
      <4>1. list \in Inputs /\ handle \in [Ids -> {0, 1}]
        BY LastFrame
      <4> QED
        BY <4>1, LayersRight
    <3> QED
      BY <3>1, <3>2 DEF Background
  <2> HIDE DEF L, T, s
  <2>6. /\ DOMAIN L = 1 .. Len(L) /\ Len(L) \in Nat /\ i \in 1 .. Len(L) /\ L[i].dirty < NumFb
    BY <2>2, <2>4, ListFacts DEF NumFb
  <2>7. T # <<>>
    <3>1. Previous(i, L, T) # {}
      BY <2>1, <2>6 DEF Chain
    <3> QED
      BY <3>1, NoneFound DEF Previous
  <2>8. PICK f : IsList(T, f)
    BY <2>3, <2>7 DEF Known
  <2>9. Left(s, T, L, p) /\ Shows(s, T, p)
    BY <2>1, <2>7 DEF Left
  <2>10. PICK w : ShowsAs(w, s, T, p)
    BY <2>9 DEF Shows
  <2>11. DOMAIN s = 1 .. Len(s) /\ k \in 1 .. Len(s) /\ w[k] \in Own(T, p)
    <3>1. s = [j \in 1 .. Len(s) |-> s[j]] /\ w \in [1 .. Len(s) -> Own(T, p)]
      BY <2>10 DEF ShowsAs
    <3>2. DOMAIN s = 1 .. Len(s)
      BY <3>1
    <3> QED
      BY <2>4, <3>1, <3>2
  <2>12. s[k].id = T[w[k]].id
    <3> DEFINE x == s[k].at
               y == s[k].new
    <3>1. s[k] = [id |-> T[w[k]].id, at |-> x, new |-> y]
      BY <2>10, <2>11 DEF ShowsAs
    <3> HIDE DEF x, y
    <3> QED
      BY <3>1
  <2>13. s[k].id \in Ids
    <3>1. w[k] \in 1 .. Len(T) /\ T[w[k]].buf >= 0
      BY <2>11 DEF Own
    <3>2. T[1].buf = BackgroundBuf
      BY <2>8, ListFacts DEF Stack
    <3>3. w[k] \in 2 .. Len(T)
      BY <3>1, <3>2 DEF BackgroundBuf
    <3> QED
      BY <2>8, <2>12, <3>3, ListFacts
  <2>14. i \in 2 .. Len(L)
    <3>1. i # 1
      BY <2>4, <2>5, <2>13, BackgroundAssumption
    <3> QED
      BY <2>6, <3>1
  <2>15. s[k].new = TRUE
    BY <2>4, <2>6, <2>9, <2>11, <2>14 DEF Left
  <2> QED
    BY <2>15 DEF s
<1> QED
  BY <1>1, FramebuffersKnown, PTL

-----------------------------------------------------------------------------
(* The picture.                                                             *)

\* The candidates that the picture has at a pixel, and what it has of them.
Covers(x) == x.dss \/ ~Attr[x.id].premult \/ ~HasAlpha(x.id)
SeenAt(c, p) ==
  {i \in DOMAIN c : /\ ~c[i].dss /\ InRect(p, c[i].frame)
                    /\ \A j \in i + 1 .. Len(c) : InRect(p, c[j].frame) => ~Covers(c[j])}
PictureAt(c, p) ==
  LET own == Chosen(c, SeenAt(c, p)) IN [i \in DOMAIN own |-> Shown(own[i].id, PixelOf(own[i], p))]

\* The picture, pixel by pixel.
LEMMA PictureParts ==
  ASSUME NEW l, NEW p \in Pixels
  PROVE  Picture(l)[p] = PictureAt(Candidates(l), p)
<1> DEFINE c == Candidates(l)
           I == {i \in DOMAIN c :
                   ~c[i].dss /\ (/\ InRect(p, c[i].frame)
                                 /\ \A j \in i + 1 .. Len(c) :
                                      InRect(p, c[j].frame) =>
                                        ~(c[j].dss \/ ~Attr[c[j].id].premult \/ ~HasAlpha(c[j].id)))}
           own == Chosen(c, I)
<1>1. Picture(l)[p] = [i \in DOMAIN own |-> Shown(own[i].id, PixelOf(own[i], p))]
  BY DEF Picture
<1>2. SeenAt(c, p) = I
  BY DEF SeenAt, Covers
<1> HIDE DEF I, c
<1> QED
  BY <1>1, <1>2 DEF PictureAt, c

\* L is what the regionizer makes of candidates c, behind them the background.
DescribedAs(L, c) ==
  /\ Len(c) \in Nat /\ DOMAIN c = 1 .. Len(c) /\ Len(L) = Len(c) + 1
  /\ ~(L[1].buf >= 0)
  /\ \A i \in 1 .. Len(c) : /\ L[i + 1].id = c[i].id /\ L[i + 1].frame = c[i].frame
                            /\ L[i + 1].buf \in Int /\ (L[i + 1].buf < 0 <=> c[i].dss)

\* The layers to show are those the picture has.
LEMMA OwnSeen ==
  ASSUME NEW L, NEW c, DescribedAs(L, c), NEW p
  PROVE  \A i : i \in Own(L, p) <=> i - 1 \in SeenAt(c, p) /\ i \in 2 .. Len(L)
<1> DEFINE n == Len(c)
<1>1. /\ n \in Nat /\ DOMAIN c = 1 .. n /\ Len(L) = n + 1 /\ ~(L[1].buf >= 0)
      /\ \A i \in 1 .. n : /\ L[i + 1].id = c[i].id /\ L[i + 1].frame = c[i].frame
                           /\ L[i + 1].buf \in Int /\ (L[i + 1].buf < 0 <=> c[i].dss)
  BY DEF DescribedAs
<1> HIDE DEF n
<1>2. ASSUME NEW i \in 2 .. n + 1
      PROVE  /\ i - 1 \in 1 .. n /\ i \in 1 .. n + 1
             /\ L[i].id = c[i - 1].id /\ L[i].frame = c[i - 1].frame
             /\ L[i].buf \in Int /\ (L[i].buf < 0 <=> c[i - 1].dss)
             /\ L[i].buf >= 0 <=> ~c[i - 1].dss
             /\ Hides(L[i]) <=> Covers(c[i - 1])
  <2>1. i - 1 \in 1 .. n /\ (i - 1) + 1 = i /\ i \in 1 .. n + 1
    BY <1>1
  <2>2. /\ L[i].id = c[i - 1].id /\ L[i].frame = c[i - 1].frame
        /\ L[i].buf \in Int /\ (L[i].buf < 0 <=> c[i - 1].dss)
    BY <1>1, <2>1
  <2>3. L[i].buf >= 0 <=> ~c[i - 1].dss
    BY <2>2
  <2>4. Hides(L[i]) <=> Covers(c[i - 1])
    BY <2>2 DEF Hides, Covers
  <2> QED
    BY <2>1, <2>2, <2>3, <2>4
<1>3. ASSUME NEW i \in 2 .. n + 1
      PROVE  i \in Own(L, p) <=> i - 1 \in SeenAt(c, p)
  <2> DEFINE A == \A k \in i + 1 .. Len(L) : InRect(p, L[k].frame) => ~Hides(L[k])
             B == \A j \in i - 1 + 1 .. Len(c) : InRect(p, c[j].frame) => ~Covers(c[j])
  <2>1. A => B
    <3> SUFFICES ASSUME A, NEW j \in i - 1 + 1 .. n, InRect(p, c[j].frame)
                 PROVE  ~Covers(c[j])
      BY DEF n
    <3>1. j + 1 \in i + 1 .. Len(L) /\ j + 1 \in 2 .. n + 1 /\ (j + 1) - 1 = j
      BY <1>1
    <3>2. L[j + 1].frame = c[j].frame /\ (Hides(L[j + 1]) <=> Covers(c[j]))
      BY <1>2, <3>1
    <3> QED
      BY <3>1, <3>2
  <2>2. B => A
    <3> SUFFICES ASSUME B, NEW k \in i + 1 .. n + 1, InRect(p, L[k].frame)
                 PROVE  ~Hides(L[k])
      BY <1>1
    <3>1. k \in 2 .. n + 1 /\ k - 1 \in i - 1 + 1 .. n
      BY <1>1
    <3>2. L[k].frame = c[k - 1].frame /\ (Hides(L[k]) <=> Covers(c[k - 1]))
      BY <1>2, <3>1
    <3> QED
      BY <3>1, <3>2 DEF n
  <2>3. i \in Own(L, p) <=> L[i].buf >= 0 /\ InRect(p, L[i].frame) /\ A
    BY <1>1, <1>2 DEF Own
  <2>4. i - 1 \in SeenAt(c, p) <=> ~c[i - 1].dss /\ InRect(p, c[i - 1].frame) /\ B
    BY <1>1, <1>2 DEF SeenAt
  <2> HIDE DEF A, B
  <2> QED
    BY <1>2, <2>1, <2>2, <2>3, <2>4
<1>4. \A i \in Own(L, p) : i \in 2 .. n + 1
  <2> SUFFICES ASSUME NEW i \in Own(L, p) PROVE i \in 2 .. n + 1
    OBVIOUS
  <2>1. i \in 1 .. n + 1 /\ L[i].buf >= 0
    BY <1>1 DEF Own
  <2> QED
    BY <1>1, <2>1
<1> QED
  BY <1>1, <1>3, <1>4

\* A pixel that shows the layers, all new, is the picture's.
LEMMA FineIsPicture ==
  ASSUME NEW L, NEW c, DescribedAs(L, c), NEW p, NEW s, Fine(s, L, p),
         \A i \in 1 .. Len(c) : c[i].dss \/ Even(c[i])
  PROVE  s = PictureAt(c, p)
<1> DEFINE I == SeenAt(c, p)
           n == Len(s)
           own == Chosen(c, I)
<1>1. PICK w : ShowsAs(w, s, L, p)
  BY DEF Fine, Shows
<1>2. /\ n \in Nat /\ s = [k \in 1 .. n |-> s[k]]
      /\ w \in [1 .. n -> Own(L, p)]
      /\ \A j, k \in 1 .. n : j < k => w[j] < w[k]
      /\ \A i \in Own(L, p) : \E k \in 1 .. n : w[k] = i
      /\ \A k \in 1 .. n : s[k] = [id |-> L[w[k]].id, at |-> s[k].at, new |-> s[k].new]
      /\ \A k \in 1 .. n : Sampled(s[k], L[w[k]], p)
  BY <1>1 DEF ShowsAs
<1>3. \A k \in 1 .. n : s[k].new = TRUE
  BY DEF Fine, AllNew
<1>4. \A i : i \in Own(L, p) <=> i - 1 \in I /\ i \in 2 .. Len(L)
  BY OwnSeen
<1>5. I \in SUBSET (1 .. Len(c)) /\ Len(c) \in Nat /\ Len(L) = Len(c) + 1
  BY DEF SeenAt, DescribedAs
<1> HIDE DEF n, I
<1> DEFINE a == [k \in 1 .. n |-> w[k] - 1]
<1>6. \A k \in 1 .. n : /\ w[k] \in Own(L, p) /\ a[k] = w[k] - 1 /\ a[k] \in I
                        /\ w[k] \in Int /\ a[k] + 1 = w[k] /\ a[k] \in 1 .. Len(c)
  <2> SUFFICES ASSUME NEW k \in 1 .. n
               PROVE  /\ w[k] \in Own(L, p) /\ a[k] = w[k] - 1 /\ a[k] \in I
                      /\ w[k] \in Int /\ a[k] + 1 = w[k] /\ a[k] \in 1 .. Len(c)
    OBVIOUS
  <2>1. w[k] \in Own(L, p) /\ a[k] = w[k] - 1
    BY <1>2
  <2>2. w[k] - 1 \in I /\ w[k] \in 2 .. Len(L)
    BY <1>4, <2>1
  <2> QED
    BY <1>5, <2>1, <2>2
<1>7. a = [k \in 1 .. n |-> a[k]] /\ DOMAIN a = 1 .. n
  OBVIOUS
<1> HIDE DEF a
<1>8. a \in [1 .. n -> I]
  BY <1>6, <1>7
<1>9. Lists(a, I)
  <2>1. ASSUME NEW x \in I
        PROVE  \E k \in 1 .. n : a[k] = x
    <3>1. x + 1 \in 2 .. Len(L) /\ (x + 1) - 1 = x
      BY <1>5
    <3>2. x + 1 \in Own(L, p)
      BY <1>4, <3>1
    <3>3. PICK k \in 1 .. n : w[k] = x + 1
      BY <1>2, <3>2
    <3> QED
      BY <1>6, <3>1, <3>3
  <2>2. \A j, k \in 1 .. n : j < k => a[j] < a[k]
    <3> SUFFICES ASSUME NEW j \in 1 .. n, NEW k \in 1 .. n, j < k PROVE a[j] < a[k]
      OBVIOUS
    <3>1. w[j] < w[k]
      BY <1>2
    <3> QED
      BY <1>6, <3>1
  <2> QED
    BY <1>6, <1>7, <2>1, <2>2 DEF Lists
<1>10. n = Cardinality(I) /\ a = Ascending(I)
  <2>1. I \in SUBSET Int
    BY <1>5
  <2> QED
    BY <1>2, <1>8, <1>9, <2>1, OneList
<1>11. own = [k \in 1 .. n |-> c[a[k]]]
  <2>1. Picks(own, c, I)
    BY <1>5, ChosenRight
  <2> HIDE DEF own
  <2> QED
    BY <1>10, <2>1 DEF Picks
<1> HIDE DEF own
<1>12. DOMAIN own = 1 .. n /\ \A k \in 1 .. n : own[k] = c[a[k]]
  BY <1>11
<1>13. ASSUME NEW k \in 1 .. n
       PROVE  s[k] = Shown(own[k].id, PixelOf(own[k], p))
  <2> DEFINE x == L[w[k]]
             y == own[k]
  <2>1. /\ a[k] \in 1 .. Len(c) /\ a[k] + 1 = w[k] /\ y = c[a[k]] /\ w[k] \in Own(L, p)
    BY <1>6, <1>12
  <2>2. x.id = y.id /\ x.frame = y.frame /\ (x.buf < 0 <=> y.dss) /\ x.buf \in Int
    BY <2>1 DEF DescribedAs
  <2>3. x.buf >= 0
    BY <2>1 DEF Own
  <2>4. Even(y)
    BY <2>1, <2>2, <2>3
  <2>5. s[k] = [id |-> x.id, at |-> s[k].at, new |-> s[k].new] /\ Sampled(s[k], x, p) /\ s[k].new = TRUE
    BY <1>2, <1>3
  <2> HIDE DEF x, y
  <2>6. Sampled(s[k], y, p)
    BY <2>2, <2>5, SampledAgain
  <2>7. s[k].at = PixelOf(y, p)
    BY <2>4, <2>6 DEF Sampled
  <2>8. s[k] = Shown(y.id, PixelOf(y, p))
    BY <2>2, <2>5, <2>7 DEF Shown
  <2> QED
    BY <2>8 DEF y
<1>14. PictureAt(c, p) = [k \in 1 .. n |-> Shown(own[k].id, PixelOf(own[k], p))]
  BY <1>12 DEF PictureAt, own, I
<1> QED
  BY <1>2, <1>13, <1>14

\* What the blitter drew is the picture of the layers passed.
LEMMA BlittedPicture ==
  ASSUME SampledAlike, RgzInv, FbInv, drawn = "blitter"
  PROVE  fb[target] = Pictures[list]
<1> DEFINE L == rgz.cur
           c == Candidates(list)
           R == RgzLayers(list, handle)
<1>1. /\ list \in Inputs /\ handle \in [Ids -> {0, 1}] /\ Stack(L) /\ Len(L) = Len(R)
      /\ \A i \in 1 .. Len(L) : L[i].id = R[i].id /\ L[i].buf = R[i].buf /\ L[i].frame = R[i].frame
  BY LastFrame
<1>2. /\ Len(R) = Len(c) + 1
      /\ \A i \in 1 .. Len(c) : R[i + 1] = Described(c, i, list, handle)
  BY <1>1, LayersRight
<1>3. /\ Len(c) \in Nat /\ DOMAIN c = 1 .. Len(c) /\ Len(Overlays(list)) \in Nat
      /\ \A k \in 1 .. Len(c) : \E i \in 1 .. Len(list) : c[k] = list[i]
      /\ DOMAIN list = 1 .. Len(list)
      /\ \A i \in 1 .. Len(list) : list[i].dss \in BOOLEAN
  BY <1>1, InputRight
<1>4. DescribedAs(L, c)
  <2>1. ASSUME NEW i \in 1 .. Len(c)
        PROVE  /\ L[i + 1].id = c[i].id /\ L[i + 1].frame = c[i].frame
               /\ L[i + 1].buf \in Int /\ (L[i + 1].buf < 0 <=> c[i].dss)
    <3>1. i + 1 \in 1 .. Len(L) /\ R[i + 1] = Described(c, i, list, handle)
      BY <1>1, <1>2, <1>3
    <3> DEFINE N == Cardinality({j \in 1 .. i - 1 : ~c[j].dss})
    <3>2. N \in Nat
      <4>1. IsFiniteSet(1 .. i - 1)
        BY FS_Interval
      <4> QED
        BY <4>1, FS_Subset, FS_CardinalityType
    <3> HIDE DEF N
    <3>3. R[i + 1].buf = IF c[i].dss THEN ClearHintBuf ELSE Len(Overlays(list)) + N
      BY <3>1 DEF Described, N
    <3>4. R[i + 1].id = c[i].id /\ R[i + 1].frame = c[i].frame
      BY <3>1 DEF Described
    <3>5. R[i + 1].buf \in Int /\ (R[i + 1].buf < 0 <=> c[i].dss)
      BY <1>3, <3>2, <3>3 DEF ClearHintBuf
    <3> QED
      BY <1>1, <3>1, <3>4, <3>5
  <2>2. ~(L[1].buf >= 0)
    BY <1>1 DEF Stack, BackgroundBuf
  <2> QED
    BY <1>1, <1>2, <1>3, <2>1, <2>2 DEF DescribedAs
<1>5. \A i \in 1 .. Len(c) : c[i].dss \/ Even(c[i])
  BY <1>1, <1>3 DEF SampledAlike
<1>6. \A p \in Pixels : fb[target][p] = PictureAt(c, p)
  <2>1. \A p \in Pixels : Fine(fb[target][p], L, p)
    BY DEF FbInv
  <2> HIDE DEF L, c
  <2> QED
    BY <1>4, <1>5, <2>1, FineIsPicture
<1>7. fb[target] = [p \in Pixels |-> fb[target][p]]
  BY DEF FbInv, Framebuffers
<1>8. Pictures[list] = [p \in Pixels |-> PictureAt(c, p)]
  <2> DEFINE Q == Picture(list)
  <2>1. Pictures[list] = Q
    BY <1>1 DEF Pictures
  <2>2. Q = [p \in Pixels |-> Q[p]]
    BY DEF Picture
  <2>3. \A p \in Pixels : Q[p] = PictureAt(c, p)
    BY PictureParts
  <2> HIDE DEF Q, c
  <2> QED
    BY <2>1, <2>2, <2>3
<1> HIDE DEF c
<1> QED
  BY <1>6, <1>7, <1>8

\* Whoever drew the last frame, its framebuffer shows every pixel of what was passed:
\* with stable stacking, and NV12 layers that are turned scaled by whole factors.
THEOREM FramesAreShown ==
  ASSUME StableOrder, ~LayersReturn, SampledAlike
  PROVE  Spec => []FrameShown
<1>1. RgzInv /\ FbInv => FrameShown
  BY BlittedPicture DEF FbInv, FrameShown
<1> QED
  BY <1>1, FramebuffersKnown, PTL

=============================================================================
