------------------------------ MODULE Registry ------------------------------
(***************************************************************************)
(* The two tables of wlblurd and every operation on them: the table of     *)
(* client connections (wlblurd/src/client.c), the list of blur nodes       *)
(* (wlblurd/src/blur_node.c), and the request handlers that join the two   *)
(* (wlblurd/src/ipc_protocol.c).  The daemon has one thread, so a handler  *)
(* is one step.                                                            *)
(*                                                                         *)
(* Both identifier counters are uint32_t and wrap.  next_client and        *)
(* next_node count without bound; the identifier the code stores is their  *)
(* value modulo IdSpace (2^32 in the program).  The list of nodes is       *)
(* searched from its newest element, so a node is identified here by the   *)
(* count at which it was created, and a search is for the largest.         *)
(***************************************************************************)
EXTENDS Integers, FiniteSets

CONSTANTS
    Fds,                   \* descriptors the kernel can return from accept()
    MAX_CLIENTS,           \* slots of the client table
    MAX_NODES_PER_CLIENT,  \* nodes one client may own
    IdSpace,               \* number of values of an identifier
    MaxConnects,           \* bound: registrations in a behaviour
    MaxCreates             \* bound: nodes created in a behaviour

ASSUME RegistryAssumption ==
    /\ Fds \subseteq Nat
    /\ MAX_CLIENTS \in Nat
    /\ MAX_NODES_PER_CLIENT \in Nat
    /\ IdSpace \in Nat \ {0}
    /\ MaxConnects \in Nat
    /\ MaxCreates \in Nat

Slots == 0 .. MAX_CLIENTS - 1

Ids == 0 .. IdSpace - 1

NoFd == -1

VARIABLES
    clients,        \* the client table: slot |-> connection
    next_client,    \* registrations so far, plus one
    nodes,          \* the node list
    next_node,      \* nodes created so far, plus one
    open,           \* descriptors of accepted connections that are not closed
    last            \* the last operation and what its caller was told

vars == <<clients, next_client, nodes, next_node, open, last>>

Connections == [fd : Fds \cup {NoFd, 0}, client_id : Ids, active : BOOLEAN]

Nodes == [seq : Nat, client_id : Ids]

Outcomes == [op : {"NONE", "REGISTER", "UNREGISTER", "CREATE_NODE", "DESTROY_NODE", "RENDER_BLUR", "INVALID"},
             fd : Fds \cup {NoFd},
             node_id : Ids,
             status : {"NONE", "SUCCESS", "REFUSED", "INVALID_NODE", "RENDER_FAILED", "INVALID_PARAMS",
                       "OUT_OF_MEMORY"}]

(* All reachable values of the variables, whatever the counters have done. *)
TypeOK ==
    /\ clients \in [Slots -> Connections]
    /\ next_client \in Nat
    /\ nodes \subseteq Nodes
    /\ next_node \in Nat
    /\ open \subseteq Fds
    /\ last \in Outcomes

-----------------------------------------------------------------------------

(* Identifiers as the code stores them; in the mutants, in a type too wide
   and in one too narrow. *)
WideId(n) == n
NarrowId(n) == n % (IdSpace \div 2)
Id(n) == n % IdSpace

NodeId(n) == Id(n.seq)

First(s, S) == s \in S /\ \A t \in S : s <= t

FreeSlots == {s \in Slots : ~ clients[s].active}

ActiveSlots == {s \in Slots : clients[s].active}

(* The slots whose connection has this descriptor; client_lookup and
   client_unregister both act on the first. *)
SlotsOf(fd) == {s \in ActiveSlots : clients[s].fd = fd}

NodesOf(c) == {n \in nodes : n.client_id = c}

(* The test of blur_node_create (the mutant admits one node too many). *)
OverLimit(c) == Cardinality(NodesOf(c)) > MAX_NODES_PER_CLIENT
AtLimit(c) == Cardinality(NodesOf(c)) >= MAX_NODES_PER_CLIENT

(* The nodes that go with a slot: client_unregister reads the client_id
   before it clears the slot (the mutant, after). *)
NodesOfClearedSlot(s) == NodesOf(0)
NodesOfSlot(s) == NodesOf(clients[s].client_id)

(* A slot after client_unregister (the mutant leaves it in use). *)
UnclearedSlot == [fd |-> NoFd, client_id |-> 0, active |-> TRUE]
ClearedSlot == [fd |-> NoFd, client_id |-> 0, active |-> FALSE]

(* The descriptors left open by close(fd) (the mutant forgets to close). *)
NeverClosed(fd) == open
Closed(fd) == open \ {fd}

(* blur_node_lookup: the youngest node with the identifier. *)
Found(n, id) ==
    /\ n \in nodes
    /\ NodeId(n) = id
    /\ \A m \in nodes : NodeId(m) = id => m.seq <= n.seq

(* The lookup and ownership test that guards DESTROY_NODE and RENDER_BLUR
   (the mutant drops the test of ownership). *)
Exists(c, id) == \E n \in nodes : Found(n, id)
Owns(c, id) == \E n \in nodes : Found(n, id) /\ n.client_id = c

Told(op, fd, id, status) == last' = [op |-> op, fd |-> fd, node_id |-> id, status |-> status]

(* No handler is running. *)
Nothing == [op |-> "NONE", fd |-> NoFd, node_id |-> 0, status |-> "NONE"]

-----------------------------------------------------------------------------

Init ==
    /\ clients = [s \in Slots |-> [fd |-> 0, client_id |-> 0, active |-> FALSE]]
    /\ next_client = 1
    /\ nodes = {}
    /\ next_node = 1
    /\ open = {}
    /\ last = Nothing

(* accept() returned fd; client_register takes the first free slot.  The
   caller reads an identifier of 0 as a failure and closes the connection,
   also when the counter has come round to 0 and the slot has been taken. *)
Register(fd) ==
    /\ fd \notin open
    /\ next_client <= MaxConnects
    /\ \E s \in Slots :
        /\ First(s, FreeSlots)
        /\ clients' = [clients EXCEPT ![s] =
                          [fd |-> fd, client_id |-> Id(next_client), active |-> TRUE]]
    /\ next_client' = next_client + 1
    /\ IF Id(next_client) = 0
       THEN open' = open /\ Told("REGISTER", fd, 0, "REFUSED")
       ELSE open' = open \cup {fd} /\ Told("REGISTER", fd, 0, "SUCCESS")
    /\ UNCHANGED <<nodes, next_node>>

(* Every slot is taken: the new connection is closed again. *)
RegisterRefused(fd) ==
    /\ fd \notin open
    /\ FreeSlots = {}
    /\ Told("REGISTER", fd, 0, "REFUSED")
    /\ UNCHANGED <<clients, next_client, nodes, next_node, open>>

(* The connection hung up: its nodes, its slot and its descriptor go. *)
Unregister(fd) ==
    /\ fd \in open
    /\ \E s \in Slots :
        /\ First(s, SlotsOf(fd))
        /\ nodes' = nodes \ NodesOfSlot(s)
        /\ clients' = [clients EXCEPT ![s] = ClearedSlot]
    /\ open' = Closed(fd)
    /\ Told("UNREGISTER", fd, 0, "SUCCESS")
    /\ UNCHANGED <<next_client, next_node>>

-----------------------------------------------------------------------------

(* A request that arrived on fd, for the client the table finds for fd. *)
Caller(fd, s) == fd \in open /\ First(s, SlotsOf(fd))

(* CREATE_NODE below the limit.  A node that gets the identifier 0 is in the
   list, but its client is told that there is no memory. *)
CreateNode(fd) ==
    /\ next_node <= MaxCreates
    /\ \E s \in Slots :
        /\ Caller(fd, s)
        /\ ~ AtLimit(clients[s].client_id)
        /\ nodes' = nodes \cup {[seq |-> next_node, client_id |-> clients[s].client_id]}
    /\ next_node' = next_node + 1
    /\ IF Id(next_node) = 0
       THEN Told("CREATE_NODE", fd, 0, "OUT_OF_MEMORY")
       ELSE Told("CREATE_NODE", fd, Id(next_node), "SUCCESS")
    /\ UNCHANGED <<clients, next_client, open>>

(* CREATE_NODE at the limit. *)
CreateOverLimit(fd) ==
    /\ \E s \in Slots :
        /\ Caller(fd, s)
        /\ AtLimit(clients[s].client_id)
    /\ Told("CREATE_NODE", fd, 0, "OUT_OF_MEMORY")
    /\ UNCHANGED <<clients, next_client, nodes, next_node, open>>

(* CREATE_NODE below the limit when calloc() returns NULL. *)
CreateWithoutMemory(fd) ==
    /\ \E s \in Slots :
        /\ Caller(fd, s)
        /\ ~ AtLimit(clients[s].client_id)
    /\ Told("CREATE_NODE", fd, 0, "OUT_OF_MEMORY")
    /\ UNCHANGED <<clients, next_client, nodes, next_node, open>>

DestroyNode(fd, id) ==
    /\ \E s \in Slots :
        /\ Caller(fd, s)
        /\ Owns(clients[s].client_id, id)
    /\ nodes' = nodes \ {n \in nodes : Found(n, id)}
    /\ Told("DESTROY_NODE", fd, id, "SUCCESS")
    /\ UNCHANGED <<clients, next_client, next_node, open>>

DestroyInvalid(fd, id) ==
    /\ \E s \in Slots :
        /\ Caller(fd, s)
        /\ ~ Owns(clients[s].client_id, id)
    /\ Told("DESTROY_NODE", fd, id, "INVALID_NODE")
    /\ UNCHANGED <<clients, next_client, nodes, next_node, open>>

(* RENDER_BLUR reads the tables only; whether the rendering itself succeeds
   is not decided here. *)
RenderBlur(fd, id) ==
    /\ \E s \in Slots :
        /\ Caller(fd, s)
        /\ IF Owns(clients[s].client_id, id)
           THEN \E status \in {"SUCCESS", "RENDER_FAILED"} : Told("RENDER_BLUR", fd, id, status)
           ELSE Told("RENDER_BLUR", fd, id, "INVALID_NODE")
    /\ UNCHANGED <<clients, next_client, nodes, next_node, open>>

(* A RENDER_BLUR without a buffer, or an operation the daemon does not know.
   Only the status of the response is set: the node_id that is sent with it
   is whatever the stack holds. *)
Reject(fd) ==
    /\ \E s \in Slots : Caller(fd, s)
    /\ \E garbage \in Ids : Told("INVALID", fd, garbage, "INVALID_PARAMS")
    /\ UNCHANGED <<clients, next_client, nodes, next_node, open>>

(* The handler returns, and what it told its caller goes with its frame. *)
Return ==
    /\ last' = Nothing
    /\ UNCHANGED <<clients, next_client, nodes, next_node, open>>

Next ==
    \/ Return
    \/ \E fd \in Fds :
        \/ Register(fd)
        \/ RegisterRefused(fd)
        \/ Unregister(fd)
        \/ CreateNode(fd)
        \/ CreateOverLimit(fd)
        \/ CreateWithoutMemory(fd)
        \/ Reject(fd)
        \/ \E id \in Ids :
            \/ DestroyNode(fd, id)
            \/ DestroyInvalid(fd, id)
            \/ RenderBlur(fd, id)

Spec == Init /\ [][Next]_vars

-----------------------------------------------------------------------------
(* Properties that hold whatever the counters have done. *)

(* A node belongs to a client that is still in the table: a disconnection
   leaves nothing behind in the node list (client.c:65). *)
NoOrphans == \A n \in nodes : \E s \in ActiveSlots : clients[s].client_id = n.client_id

(* The limit of blur_node.c:60 holds for every client identifier at all times. *)
WithinLimit == \A c \in Ids : Cardinality(NodesOf(c)) <= MAX_NODES_PER_CLIENT

(* A request can only come from a connection the table knows, so the branch
   of handle_client_request that finds no client (ipc_protocol.c:229) and the
   end of client_unregister that finds no slot are never taken. *)
OpenIsRegistered == \A fd \in open : SlotsOf(fd) # {}

(* A node is removed only by a step taken for the connection that a slot
   with the node's client_id holds: no client destroys another's node. *)
RemovedByOwner ==
    [][\A n \in nodes \ nodes' :
         \E s \in ActiveSlots : clients[s].client_id = n.client_id /\ clients[s].fd = last'.fd]_vars

(* Properties of a daemon whose counters have not come round yet. *)

ClientsNumbered == next_client <= IdSpace
NodesNumbered == next_node <= IdSpace

(* The slots in use and the open connections are the same thing: one slot for
   each, no two with one descriptor, no two with one client_id
   (client.c:22-44, 65-76). *)
OneSlotPerConnection ==
    ClientsNumbered =>
        /\ \A s \in ActiveSlots : clients[s].fd \in open /\ clients[s].client_id # 0
        /\ \A s, t \in ActiveSlots :
             (clients[s].fd = clients[t].fd \/ clients[s].client_id = clients[t].client_id) => s = t

(* Every live node is the one its identifier finds, so its owner can still
   render and destroy it (blur_node.c:71, 103-112). *)
NodesAddressable == NodesNumbered => \A n \in nodes : NodeId(n) # 0 /\ Found(n, NodeId(n))

-----------------------------------------------------------------------------
(* The tables implement the service until a counter comes round. *)

OwnerFd(n) == clients[CHOOSE s \in ActiveSlots : clients[s].client_id = n.client_id].fd

Service == INSTANCE NodeService WITH
    Sessions <- Fds,
    NodeIds <- Ids,
    Capacity <- MAX_CLIENTS,
    NodeLimit <- MAX_NODES_PER_CLIENT,
    sessions <- {clients[s].fd : s \in ActiveSlots},
    owner <- [id \in {NodeId(n) : n \in nodes} |->
                OwnerFd(CHOOSE n \in nodes : Found(n, id))],
    issued <- {Id(k) : k \in 1 .. next_node - 1}

(* Every step of the tables that leaves the counters below the end of their
   range is a step of the service, or changes nothing of it. *)
ImplementsService ==
    /\ Service!Init
    /\ [][(ClientsNumbered /\ NodesNumbered)' => [Service!Next]_(Service!vars)]_vars
=============================================================================
