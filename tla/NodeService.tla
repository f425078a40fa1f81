---------------------------- MODULE NodeService ----------------------------
(***************************************************************************)
(* What wlblurd promises the compositors connected to it, without the      *)
(* tables it keeps: a session is a connection the daemon has accepted, a   *)
(* blur node belongs to the session that created it, an identifier is      *)
(* handed out once, and a node lives until its own session destroys it or  *)
(* ends.                                                                   *)
(***************************************************************************)
EXTENDS Integers, FiniteSets

CONSTANTS
    Sessions,       \* the names a session can have (connection descriptors)
    NodeIds,        \* the identifiers a node can have
    Capacity,       \* how many sessions can be open at once
    NodeLimit       \* how many nodes a session can own at once

VARIABLES
    sessions,       \* the open sessions
    owner,          \* live node identifier |-> the session that owns the node
    issued,         \* every node identifier handed out so far
    last            \* the last operation and what its caller was told

vars == <<sessions, owner, issued, last>>

Owned(c) == {id \in DOMAIN owner : owner[id] = c}

Told(op, c, id, status) == last' = [op |-> op, fd |-> c, node_id |-> id, status |-> status]

Nothing == [op |-> "NONE", fd |-> -1, node_id |-> 0, status |-> "NONE"]

Init ==
    /\ sessions = {}
    /\ owner = << >>
    /\ issued = {}
    /\ last = Nothing

(* A session opens as long as there is room, and is refused only when there is none. *)
Connect(c) ==
    /\ c \notin sessions
    /\ Cardinality(sessions) < Capacity
    /\ sessions' = sessions \cup {c}
    /\ Told("REGISTER", c, 0, "SUCCESS")
    /\ UNCHANGED <<owner, issued>>

Refuse(c) ==
    /\ c \notin sessions
    /\ Cardinality(sessions) = Capacity
    /\ Told("REGISTER", c, 0, "REFUSED")
    /\ UNCHANGED <<sessions, owner, issued>>

(* The end of a session takes all of its nodes away and nobody else's. *)
Leave(c) ==
    /\ c \in sessions
    /\ sessions' = sessions \ {c}
    /\ owner' = [id \in DOMAIN owner \ Owned(c) |-> owner[id]]
    /\ Told("UNREGISTER", c, 0, "SUCCESS")
    /\ UNCHANGED issued

(* A new node has an identifier nobody has ever been given. *)
Create(c, id) ==
    /\ c \in sessions
    /\ id \notin issued
    /\ Cardinality(Owned(c)) < NodeLimit
    /\ owner' = [i \in DOMAIN owner \cup {id} |-> IF i = id THEN c ELSE owner[i]]
    /\ issued' = issued \cup {id}
    /\ Told("CREATE_NODE", c, id, "SUCCESS")
    /\ UNCHANGED sessions

(* Memory may run out at any moment, so a creation may fail below the limit too. *)
CreateFails(c) ==
    /\ c \in sessions
    /\ Told("CREATE_NODE", c, 0, "OUT_OF_MEMORY")
    /\ UNCHANGED <<sessions, owner, issued>>

Destroy(c, id) ==
    /\ c \in sessions
    /\ id \in Owned(c)
    /\ owner' = [i \in DOMAIN owner \ {id} |-> owner[i]]
    /\ Told("DESTROY_NODE", c, id, "SUCCESS")
    /\ UNCHANGED <<sessions, issued>>

Render(c, id) ==
    /\ c \in sessions
    /\ id \in Owned(c)
    /\ \E status \in {"SUCCESS", "RENDER_FAILED"} : Told("RENDER_BLUR", c, id, status)
    /\ UNCHANGED <<sessions, owner, issued>>

(* A session that names a node it does not own is told so, and nothing happens. *)
NoSuchNode(c, id) ==
    /\ c \in sessions
    /\ id \notin Owned(c)
    /\ \E op \in {"DESTROY_NODE", "RENDER_BLUR"} : Told(op, c, id, "INVALID_NODE")
    /\ UNCHANGED <<sessions, owner, issued>>

(* A request the daemon cannot act on is told so, with no meaningful node. *)
Reject(c, id) ==
    /\ c \in sessions
    /\ Told("INVALID", c, id, "INVALID_PARAMS")
    /\ UNCHANGED <<sessions, owner, issued>>

Return == last' = Nothing /\ UNCHANGED <<sessions, owner, issued>>

Next ==
    \/ Return
    \/ \E c \in Sessions :
        \/ Connect(c)
        \/ Refuse(c)
        \/ Leave(c)
        \/ CreateFails(c)
        \/ \E id \in NodeIds :
            \/ Create(c, id)
            \/ Destroy(c, id)
            \/ Render(c, id)
            \/ NoSuchNode(c, id)
            \/ Reject(c, id)

Spec == Init /\ [][Next]_vars
=============================================================================
