---------------------------- MODULE MCHwcOverlays ----------------------------
(* Instances of HwcOverlays for TLC: small sets of layer kinds and lists.   *)
EXTENDS HwcOverlays

\* A plain opaque RGB layer; the other kinds differ from it in what they name.
Plain == [fmt |-> "RGB", scaled |-> FALSE, upscaled |-> FALSE, dockable |-> FALSE,
          protected |-> FALSE, blended |-> FALSE, valid |-> TRUE, area |-> 1, mem |-> 1]
Blended   == [Plain EXCEPT !.blended = TRUE]
Skipped   == [Plain EXCEPT !.valid = FALSE]
Huge      == [Plain EXCEPT !.mem = 3]
Bgr       == [Plain EXCEPT !.fmt = "BGR"]
BgrDock   == [Bgr EXCEPT !.dockable = TRUE]
Scaled    == [Plain EXCEPT !.scaled = TRUE]
Protected == [Plain EXCEPT !.protected = TRUE]
Dock      == [Plain EXCEPT !.dockable = TRUE, !.area = 2]
Video     == [Plain EXCEPT !.fmt = "NV12", !.mem = 0, !.scaled = TRUE, !.upscaled = TRUE]
DockVideo == [Video EXCEPT !.dockable = TRUE]

ListsOf(kinds, n) == UNION {[1 .. m -> kinds] : m \in 0 .. n}

\* Every list of up to two layers and, of three, those with at most one that is
\* refused and no blended one at the back; some with large and scaled layers.
Mixed == {Plain, Blended, Skipped}
OneSkipped(l) == Cardinality({k \in DOMAIN l : l[k] = Skipped}) <= 1
MixedLists  == ListsOf(Mixed, 2)
                 \cup {l \in [1 .. 3 -> Mixed] : OneSkipped(l) /\ l[1] # Blended}
                 \cup {<<Huge>>, <<Plain, Huge>>, <<Huge, Skipped>>, <<Skipped, Blended, Skipped>>,
                       <<Plain, Skipped, Plain, Blended>>, <<Plain, Plain, Skipped, Plain>>,
                       <<Scaled>>, <<Scaled, Plain>>, <<Scaled, Scaled, Plain>>, <<Scaled, Scaled>>}

\* From none to more overlays than there are pipes, with and without a layer to
\* dock and a protected one, for what depends on the numbers from frame to frame.
CountLists == {<<>>, <<Plain>>, <<Plain, Plain>>, <<Plain, Plain, Plain>>,
               <<Plain, Plain, Plain, Plain>>, <<DockVideo, Plain, Plain, Plain>>,
               <<Protected>>, <<Plain, Plain, Protected, Dock>>}
MirrorLists == {<<Plain>>, <<Plain, Plain, Plain, Plain>>, <<Protected, Plain, Plain>>}
TwoScaled   == {<<Plain>>, <<Scaled, Scaled>>}
ThreeScaled == {<<Plain>>, <<Plain, Plain>>, <<Scaled, Scaled, Scaled>>, <<Dock>>}
VideoLists    == ListsOf({Plain, Dock, Video, Bgr}, 3)
BgrLists      == ListsOf({Bgr, BgrDock}, 2)

AllConfigs == [dock: BOOLEAN, mirror: BOOLEAN, dockTform: BOOLEAN, mirrorTform: BOOLEAN]
UprightConfigs == {c \in AllConfigs : ~c.dockTform /\ ~c.mirrorTform}
CloneEither == {c \in UprightConfigs : c.dock \/ c.mirror}
\* Docking upright, mirroring upright, and both turned around.
CloneTurned == {c \in AllConfigs : IF c.dock /\ c.mirror THEN c.dockTform /\ c.mirrorTform
                                   ELSE c \in CloneEither}
MirrorConfigs == {c \in UprightConfigs : c.mirror /\ ~c.dock}
MirrorOrNot == {c \in UprightConfigs : ~c.dock}
NoClone == {c \in UprightConfigs : ~c.mirror /\ ~c.dock}
TurnedConfigs == {c \in AllConfigs : c.dock /\ c.dockTform /\ c.mirrorTform}

=============================================================================
