---------------------------- MODULE MCBlurDaemon ----------------------------
(* Small instances of BlurDaemon for TLC. *)
EXTENDS BlurDaemon

Req(op, id, fds, form) == [op |-> op, node_id |-> id, fds |-> fds, form |-> form]

(* Connections differ in nothing but their name. *)
ConnSymmetry == Permutations(Conns)

MCFds == 5 .. 9

(* One of each kind the daemon tells apart; node 1 is the first ever created,
   so a client that names it is its owner or somebody else. *)
AnyRequests == {
    Req("CREATE_NODE", 0, 0, "whole"),
    Req("DESTROY_NODE", 1, 0, "whole"),
    Req("RENDER_BLUR", 1, 3, "whole"),
    Req("RENDER_BLUR", 1, 2, "version"),
    Req("CREATE_NODE", 0, 0, "short")}

(* What a client that follows the protocol sends. *)
GoodRequests == {
    Req("CREATE_NODE", 0, 0, "whole"),
    Req("RENDER_BLUR", 1, 1, "whole")}

OtherVersion == {Req("RENDER_BLUR", 1, 2, "version")}
=============================================================================
