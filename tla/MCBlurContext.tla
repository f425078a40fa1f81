---------------------------- MODULE MCBlurContext ----------------------------
(* Small instances of BlurContext for TLC. *)
EXTENDS BlurContext

CONSTANTS c1, c2, c3

MCContexts == {c1, c2, c3}
=============================================================================
