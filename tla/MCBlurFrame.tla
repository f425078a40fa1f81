---------------------------- MODULE MCBlurFrame -----------------------------
(* Small instances of BlurFrame for TLC. *)
EXTENDS BlurFrame

(* Two sizes whose levels coincide, and a frame as small as its own levels. *)
MCFrames == {
    [size |-> <<4, 2>>, passes |-> 2],
    [size |-> <<2, 1>>, passes |-> 1],
    [size |-> <<1, 1>>, passes |-> 2]}

OneFrame == {[size |-> <<4, 4>>, passes |-> 2]}
=============================================================================
