----------------------------- MODULE MCLifecycle -----------------------------
(* Small instances of Lifecycle for TLC. *)
EXTENDS Lifecycle

(* A path that fits, and one that bind() cuts off. *)
MCPaths == {"sock", "sock..."}
MCSunPath == [p \in MCPaths |-> "sock"]
=============================================================================
