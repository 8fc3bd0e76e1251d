----------------------------- MODULE MCRegionizer -----------------------------
(* Instances of Regionizer for TLC: a small screen and three kinds of layer. *)
EXTENDS Regionizer

Crop(l, t, r, b) == [left |-> l, top |-> t, right |-> r, bottom |-> b]

Plain  == [fmt |-> "RGBX", premult |-> FALSE, trans |-> 0, flip |-> FALSE,
           crop |-> Crop(1, 0, 3, 1), w |-> 3, h |-> 1]
Window == [Plain EXCEPT !.fmt = "RGBA", !.premult = TRUE, !.trans = 90,
                        !.crop = Crop(0, 0, 2, 1), !.w = 2]
Video  == [Plain EXCEPT !.fmt = "NV12", !.trans = 270, !.crop = Crop(0, 1, 2, 2),
                        !.w = 2, !.h = 2]

MCIds == {"plain", "window", "video"}
MCAttr == [plain |-> Plain, window |-> Window, video |-> Video]

On(i, r) == [id |-> i, frame |-> r, dss |-> FALSE, skip |-> FALSE]
PlainHere  == On("plain", Rect(0, 0, 2, 1))
PlainThere == On("plain", Rect(2, 1, 4, 2))
AWindow    == On("window", Rect(1, 0, 2, 2))
Hole       == [On("video", Rect(0, 0, 1, 2)) EXCEPT !.dss = TRUE]
BigVideo   == On("video", Rect(1, 0, 3, 4))

\* From the back: plain, video, window.
MCInputs == {<<Hole>>, <<Hole, AWindow>>, <<PlainHere>>, <<PlainHere, Hole, AWindow>>,
             <<PlainThere, Hole, AWindow>>, <<PlainThere, BigVideo>>,
             <<BigVideo, AWindow>>, <<PlainHere, [AWindow EXCEPT !.skip = TRUE]>>}
MCUpdates == {{}, {"plain"}}

\* The hypotheses of the theorems about what frames show.
ASSUME OrderAssumption == StableOrder
ASSUME SamplingAssumption == SampledAlike

=============================================================================
