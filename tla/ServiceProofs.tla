---------------------------- MODULE ServiceProofs ----------------------------
(***************************************************************************)
(* Proof that the tables of Registry implement NodeService, step by step,  *)
(* until a counter comes round, for every number of slots, every node      *)
(* limit and every width of the identifiers.                               *)
(***************************************************************************)
EXTENDS RegistryProofs

(* What the tables show of the service. *)
OpenSessions == {clients[s].fd : s \in ActiveSlots}

NodeOwners ==
    [id \in {NodeId(n) : n \in nodes} |-> OwnerFd(CHOOSE n \in nodes : Found(n, id))]

IssuedIds == {Id(k) : k \in 1 .. next_node - 1}

(* No counter has come round. *)
Counting == TableInv /\ SlotInv /\ ClientsNumbered /\ NodesNumbered

(* The mapping without its choices: an identifier is the count of its node, and
   the owner of a node is the connection of any slot with its client_id. *)
Mapping ==
    /\ DOMAIN NodeOwners = {n.seq : n \in nodes}
    /\ \A n \in nodes, s \in ActiveSlots :
         clients[s].client_id = n.client_id => NodeOwners[n.seq] = clients[s].fd
    /\ IssuedIds = 1 .. next_node - 1

-----------------------------------------------------------------------------

(* A live node has the identifier it was given, and is found by it. *)
LEMMA NodeIsFound ==
    ASSUME Counting, NEW n \in nodes
    PROVE  /\ n.seq \in 1 .. next_node - 1 /\ n.seq \in Ids
           /\ NodeId(n) = n.seq
           /\ Found(n, n.seq)
           /\ \A m \in nodes : Found(m, n.seq) => m = n
<1>1. ASSUME NEW m \in nodes
      PROVE  m.seq \in Nat /\ m.seq \in 1 .. next_node - 1 /\ m.seq < IdSpace /\ NodeId(m) = m.seq
  <2>1. m.seq \in Nat /\ m.seq \in 1 .. next_node - 1 /\ m.seq < IdSpace
    BY RegistryAssumption DEF Counting, TableInv, TypeOK, Dated, Nodes, NodesNumbered
  <2> QED
    BY <2>1, IdBelow DEF NodeId
<1>2. \A m \in nodes : m.seq = n.seq => m = n
  BY DEF Counting, TableInv, Dated
<1>3. n.seq \in Ids
  BY <1>1, RegistryAssumption DEF Ids
<1>4. Found(n, n.seq)
  BY <1>1 DEF Found
<1>5. \A m \in nodes : Found(m, n.seq) => m = n
  BY <1>1, <1>2 DEF Found
<1> QED
  BY <1>1, <1>3, <1>4, <1>5

(* While no counter has come round the choices have one outcome. *)
LEMMA MappingHolds == Counting => Mapping
<1> SUFFICES ASSUME Counting PROVE Mapping
  OBVIOUS
<1>1. {NodeId(n) : n \in nodes} = {n.seq : n \in nodes}
  BY NodeIsFound
<1>2. DOMAIN NodeOwners = {n.seq : n \in nodes}
  BY <1>1 DEF NodeOwners
<1>3. ASSUME NEW n \in nodes, NEW s \in ActiveSlots, clients[s].client_id = n.client_id
      PROVE  NodeOwners[n.seq] = clients[s].fd
  <2>1. (CHOOSE m \in nodes : Found(m, n.seq)) = n
    BY NodeIsFound
  <2>2. \A t \in ActiveSlots : clients[t].client_id = n.client_id => t = s
    BY <1>3 DEF Counting, SlotInv, OneSlotPerConnection
  <2>3. (CHOOSE t \in ActiveSlots : clients[t].client_id = n.client_id) = s
    BY <1>3, <2>2
  <2>4. OwnerFd(n) = clients[s].fd
    BY <2>3 DEF OwnerFd
  <2>5. NodeOwners[n.seq] = OwnerFd(CHOOSE m \in nodes : Found(m, n.seq))
    BY <1>1 DEF NodeOwners
  <2> QED
    BY <2>1, <2>4, <2>5
<1>4. IssuedIds = 1 .. next_node - 1
  <2>1. next_node \in Nat \ {0} /\ next_node <= IdSpace
    BY DEF Counting, TableInv, Dated, NodesNumbered
  <2>2. \A k \in 1 .. next_node - 1 : Id(k) = k
    BY <2>1, IdBelow, RegistryAssumption
  <2> QED
    BY <2>2 DEF IssuedIds
<1> QED
  BY <1>2, <1>3, <1>4 DEF Mapping

LEMMA MappingHoldsNext == Counting' => Mapping'
BY MappingHolds, PTL
-----------------------------------------------------------------------------
(* Counting sessions and nodes. *)

(* A set and its image under a map that keeps its elements apart have one size. *)
LEMMA SameSize ==
    ASSUME NEW S, IsFiniteSet(S), NEW f, DOMAIN f = S, \A x, y \in S : f[x] = f[y] => x = y
    PROVE  Cardinality({f[x] : x \in S}) = Cardinality(S)
<1> DEFINE T == {f[x] : x \in S}
<1> DEFINE g == [x \in S |-> f[x]]
<1>1. g \in Injection(S, T)
  BY DEF Injection, IsInjective
<1>2. g \in Surjection(S, T)
  BY DEF Surjection
<1> QED
  BY <1>1, <1>2, FS_Surjection

(* The service counts as the tables do. *)
LEMMA ServiceCounts ==
    ASSUME NEW S
    PROVE  Service!Cardinality(S) = Cardinality(S)
BY Zenon DEF Cardinality, Service!Cardinality

(* There is a session for each slot that is in use, and room for another as long
   as a slot is free. *)
LEMMA SessionsAreSlots ==
    ASSUME Counting
    PROVE  /\ OpenSessions \subseteq open
           /\ Cardinality(OpenSessions) = MAX_CLIENTS <=> FreeSlots = {}
           /\ Cardinality(OpenSessions) < MAX_CLIENTS <=> FreeSlots # {}
<1>1. OpenSessions \subseteq open
  BY DEF Counting, SlotInv, OneSlotPerConnection, OpenSessions
<1>2. IsFiniteSet(Slots) /\ Cardinality(Slots) = MAX_CLIENTS
  BY RegistryAssumption, FS_Interval DEF Slots
<1>3. ActiveSlots \in SUBSET Slots
  BY DEF ActiveSlots
<1>4. /\ IsFiniteSet(ActiveSlots) /\ Cardinality(ActiveSlots) \in Nat
      /\ Cardinality(ActiveSlots) <= MAX_CLIENTS
      /\ Cardinality(ActiveSlots) = MAX_CLIENTS => ActiveSlots = Slots
  BY <1>2, <1>3, FS_Subset, FS_CardinalityType
<1>5. Cardinality(OpenSessions) = Cardinality(ActiveSlots)
  <2> DEFINE f == [s \in ActiveSlots |-> clients[s].fd]
  <2>1. \A s, t \in ActiveSlots : f[s] = f[t] => s = t
    BY DEF Counting, SlotInv, OneSlotPerConnection
  <2>2. Cardinality({f[s] : s \in ActiveSlots}) = Cardinality(ActiveSlots)
    <3>1. DOMAIN f = ActiveSlots
      OBVIOUS
    <3> HIDE DEF f
    <3> QED
      BY <1>4, <2>1, <3>1, SameSize
  <2>3. {f[s] : s \in ActiveSlots} = OpenSessions
    BY DEF OpenSessions
  <2> QED
    BY <2>2, <2>3
<1>6. FreeSlots = {} <=> ActiveSlots = Slots
  BY DEF FreeSlots, ActiveSlots
<1> QED
  BY <1>1, <1>2, <1>4, <1>5, <1>6, RegistryAssumption

(* The nodes of a session are those with the client_id of its slot. *)
LEMMA OwnedNodes ==
    ASSUME Counting, NEW s \in ActiveSlots
    PROVE  /\ Service!Owned(clients[s].fd) = {n.seq : n \in NodesOf(clients[s].client_id)}
           /\ Cardinality(Service!Owned(clients[s].fd)) = Cardinality(NodesOf(clients[s].client_id))
<1> DEFINE c == clients[s].client_id
           fd == clients[s].fd
           ids == {n.seq : n \in NodesOf(c)}
<1>0. Service!Owned(fd) = {id \in DOMAIN NodeOwners : NodeOwners[id] = fd}
  BY DEF Service!Owned, NodeOwners
<1>1. Mapping
  BY MappingHolds
<1>2. ASSUME NEW n \in nodes
      PROVE  NodeOwners[n.seq] = fd <=> n.client_id = c
  <2>1. PICK t \in ActiveSlots : clients[t].client_id = n.client_id
    BY DEF Counting, TableInv, NoOrphans
  <2>2. NodeOwners[n.seq] = clients[t].fd
    BY <1>1, <2>1 DEF Mapping
  <2>3. clients[t].fd = fd <=> t = s
    BY DEF Counting, SlotInv, OneSlotPerConnection
  <2>4. clients[t].client_id = c <=> t = s
    BY DEF Counting, SlotInv, OneSlotPerConnection
  <2> QED
    BY <2>1, <2>2, <2>3, <2>4
<1>3. Service!Owned(fd) = ids
  BY <1>0, <1>1, <1>2 DEF Mapping, NodesOf
<1>4. Cardinality(ids) = Cardinality(NodesOf(c))
  <2> DEFINE f == [n \in NodesOf(c) |-> n.seq]
  <2>1. \A m, n \in NodesOf(c) : f[m] = f[n] => m = n
    BY DEF Counting, TableInv, Dated, NodesOf
  <2>2. IsFiniteSet(NodesOf(c))
    BY FS_Subset DEF Counting, TableInv, Dated, NodesOf
  <2>3. Cardinality({f[n] : n \in NodesOf(c)}) = Cardinality(NodesOf(c))
    <3>1. DOMAIN f = NodesOf(c)
      OBVIOUS
    <3> HIDE DEF f
    <3> QED
      BY <2>1, <2>2, <3>1, SameSize
  <2>4. {f[n] : n \in NodesOf(c)} = ids
    OBVIOUS
  <2> QED
    BY <2>3, <2>4
<1> QED
  BY <1>3, <1>4
-----------------------------------------------------------------------------
(* The steps. *)

(* The empty tables are a service without sessions. *)
LEMMA ServiceInit == Init => Service!Init
<1> SUFFICES ASSUME Init PROVE Service!Init
  OBVIOUS
<1>1. ActiveSlots = {}
  BY DEF Init, ActiveSlots
<1>2. OpenSessions = {}
  BY <1>1 DEF OpenSessions
<1>3. NodeOwners = << >>
  BY DEF Init, NodeOwners
<1>4. IssuedIds = {}
  BY DEF Init, IssuedIds
<1> QED
  BY <1>2, <1>3, <1>4 DEF Init, Nothing, NoFd, Service!Init, Service!Nothing, OpenSessions, NodeOwners, IssuedIds

(* A step that changes neither table nor the counter of nodes changes nothing of
   what the service keeps. *)
LEMMA ServiceKept ==
    ASSUME UNCHANGED <<clients, nodes, next_node>>
    PROVE  UNCHANGED <<OpenSessions, NodeOwners, IssuedIds>>
<1>1. ActiveSlots' = ActiveSlots
  BY DEF ActiveSlots
<1>2. OpenSessions' = OpenSessions /\ IssuedIds' = IssuedIds
  BY <1>1 DEF OpenSessions, IssuedIds
<1>3. NodeOwners' = NodeOwners
  BY <1>1 DEF NodeOwners, OwnerFd, Found
<1> QED
  BY <1>2, <1>3

(* A connection that gets a slot is a session that opens. *)
LEMMA ServiceConnects ==
    ASSUME Counting, Counting', NEW fd \in Fds, Register(fd)
    PROVE  Service!Connect(fd)
<1>1. Id(next_client) = next_client /\ next_client # 0 /\ next_client \in Nat
  <2>1. next_client \in Nat /\ next_client # 0 /\ next_client' = next_client + 1 /\ next_client' <= IdSpace
    BY DEF Counting, TableInv, Dated, Register, ClientsNumbered
  <2> QED
    BY <2>1, IdBelow, RegistryAssumption
<1>2. PICK s \in Slots : /\ First(s, FreeSlots)
                         /\ clients' = [clients EXCEPT ![s] =
                                           [fd |-> fd, client_id |-> next_client, active |-> TRUE]]
  BY <1>1 DEF Register
<1>3. clients \in [Slots -> Connections] /\ s \notin ActiveSlots /\ FreeSlots # {}
  BY <1>2 DEF Counting, TableInv, TypeOK, First, FreeSlots, ActiveSlots
<1>4. /\ ActiveSlots' = ActiveSlots \cup {s}
      /\ clients'[s].fd = fd
      /\ \A t \in ActiveSlots : clients'[t] = clients[t]
  BY <1>2, <1>3 DEF ActiveSlots
<1>5. OpenSessions' = OpenSessions \cup {fd}
  BY <1>4 DEF OpenSessions
<1>6. fd \notin OpenSessions /\ Cardinality(OpenSessions) < MAX_CLIENTS
  BY <1>3, SessionsAreSlots DEF Register
<1>7. NodeOwners' = NodeOwners
  <2>1. Mapping /\ Mapping' /\ nodes' = nodes
    BY MappingHolds, MappingHoldsNext DEF Register
  <2>2. DOMAIN NodeOwners' = DOMAIN NodeOwners /\ DOMAIN NodeOwners = {n.seq : n \in nodes}
    BY <2>1 DEF Mapping
  <2>3. ASSUME NEW n \in nodes PROVE NodeOwners'[n.seq] = NodeOwners[n.seq]
    <3>1. PICK t \in ActiveSlots : clients[t].client_id = n.client_id
      BY DEF Counting, TableInv, NoOrphans
    <3>2. t \in ActiveSlots' /\ clients'[t] = clients[t]
      BY <1>4, <3>1
    <3> QED
      BY <2>1, <3>1, <3>2 DEF Mapping
  <2> QED
    BY <2>2, <2>3 DEF NodeOwners
<1>8. IssuedIds' = IssuedIds
  BY DEF IssuedIds, Register
<1>9. last' = [op |-> "REGISTER", fd |-> fd, node_id |-> 0, status |-> "SUCCESS"]
  BY <1>1 DEF Register, Told
<1> QED
  BY <1>5, <1>6, <1>7, <1>8, <1>9, ServiceCounts DEF Service!Connect, Service!Told, OpenSessions, NodeOwners, IssuedIds

(* A connection is refused when the sessions fill the table. *)
LEMMA ServiceRefuses ==
    ASSUME Counting, NEW fd \in Fds, RegisterRefused(fd)
    PROVE  Service!Refuse(fd)
<1>1. fd \notin OpenSessions /\ Cardinality(OpenSessions) = MAX_CLIENTS
  BY SessionsAreSlots DEF RegisterRefused
<1>2. UNCHANGED <<OpenSessions, NodeOwners, IssuedIds>>
  BY ServiceKept DEF RegisterRefused
<1>3. last' = [op |-> "REGISTER", fd |-> fd, node_id |-> 0, status |-> "REFUSED"]
  BY DEF RegisterRefused, Told
<1> QED
  BY <1>1, <1>2, <1>3, ServiceCounts DEF Service!Refuse, Service!Told, OpenSessions, NodeOwners, IssuedIds

(* A connection that hangs up is a session that ends, with the nodes it owns. *)
LEMMA ServiceLeaves ==
    ASSUME Counting, Counting', NEW fd \in Fds, Unregister(fd)
    PROVE  Service!Leave(fd)
<1> DEFINE owned == Service!Owned(fd)
<1>1. PICK s \in ActiveSlots : /\ clients[s].fd = fd
                               /\ nodes' = nodes \ NodesOf(clients[s].client_id)
                               /\ clients' = [clients EXCEPT ![s] = ClearedSlot]
  BY DEF Unregister, First, SlotsOf, NodesOfSlot
<1>2. clients \in [Slots -> Connections] /\ s \in Slots
  BY <1>1 DEF Counting, TableInv, TypeOK, ActiveSlots
<1>3. /\ ActiveSlots' = ActiveSlots \ {s}
      /\ \A t \in ActiveSlots' : clients'[t] = clients[t]
  BY <1>1, <1>2 DEF ActiveSlots, ClearedSlot
<1>4. \A t \in ActiveSlots : clients[t].fd = fd <=> t = s
  BY <1>1 DEF Counting, SlotInv, OneSlotPerConnection
<1>5. OpenSessions' = OpenSessions \ {fd} /\ fd \in OpenSessions
  BY <1>1, <1>3, <1>4 DEF OpenSessions
<1>6. Mapping /\ Mapping'
  BY MappingHolds, MappingHoldsNext
<1>7. owned = {n.seq : n \in NodesOf(clients[s].client_id)}
  BY <1>1, OwnedNodes
<1>8. \A m, n \in nodes : m.seq = n.seq => m = n
  BY DEF Counting, TableInv, Dated
<1>9. DOMAIN NodeOwners' = DOMAIN NodeOwners \ owned
  BY <1>1, <1>6, <1>7, <1>8 DEF Mapping, NodesOf
<1>10. ASSUME NEW n \in nodes' PROVE NodeOwners'[n.seq] = NodeOwners[n.seq]
  <2>1. n \in nodes
    BY <1>1
  <2>2. PICK t \in ActiveSlots' : clients'[t].client_id = n.client_id
    BY DEF Counting, TableInv, NoOrphans
  <2>3. t \in ActiveSlots /\ clients'[t] = clients[t]
    BY <1>3, <2>2
  <2> QED
    BY <1>6, <2>1, <2>2, <2>3 DEF Mapping
<1>11. NodeOwners' = [id \in DOMAIN NodeOwners \ owned |-> NodeOwners[id]]
  <2>1. \A id \in DOMAIN NodeOwners' : NodeOwners'[id] = NodeOwners[id]
    BY <1>6, <1>10 DEF Mapping
  <2>2. NodeOwners' = [id \in DOMAIN NodeOwners' |-> NodeOwners'[id]]
    BY DEF NodeOwners
  <2> QED
    BY <1>9, <2>1, <2>2
<1>12. IssuedIds' = IssuedIds
  BY DEF IssuedIds, Unregister
<1>13. last' = [op |-> "UNREGISTER", fd |-> fd, node_id |-> 0, status |-> "SUCCESS"]
  BY DEF Unregister, Told
<1> QED
  BY <1>5, <1>11, <1>12, <1>13 DEF Service!Leave, Service!Told, OpenSessions, NodeOwners, IssuedIds

(* The caller of a request has a session. *)
LEMMA CallerHasSession ==
    ASSUME NEW fd, NEW s, Caller(fd, s)
    PROVE  s \in ActiveSlots /\ clients[s].fd = fd /\ fd \in OpenSessions
BY DEF Caller, First, SlotsOf, OpenSessions

(* A node that is created has an identifier nobody has been given. *)
LEMMA ServiceCreates ==
    ASSUME Counting, Counting', NEW fd \in Fds, CreateNode(fd)
    PROVE  next_node \in Ids /\ Service!Create(fd, next_node)
<1> DEFINE k == next_node
<1>1. k \in Nat \ {0} /\ k < IdSpace /\ Id(k) = k /\ k \in Ids /\ next_node' = k + 1
  <2>1. k \in Nat \ {0} /\ k < IdSpace /\ next_node' = k + 1
    BY RegistryAssumption DEF Counting, TableInv, Dated, CreateNode, NodesNumbered
  <2> QED
    BY <2>1, IdBelow, RegistryAssumption DEF Ids
<1>2. PICK s \in Slots : /\ Caller(fd, s) /\ ~ AtLimit(clients[s].client_id)
                         /\ nodes' = nodes \cup {[seq |-> k, client_id |-> clients[s].client_id]}
  BY DEF CreateNode
<1> DEFINE new == [seq |-> k, client_id |-> clients[s].client_id]
<1>13. nodes' = nodes \cup {new} /\ new.seq = k /\ new.client_id = clients[s].client_id
  BY <1>2
<1> HIDE DEF new
<1>3. s \in ActiveSlots /\ clients[s].fd = fd /\ fd \in OpenSessions
  BY <1>2, CallerHasSession
<1>4. UNCHANGED <<ActiveSlots, OpenSessions, clients>>
  BY DEF CreateNode, ActiveSlots, OpenSessions
<1>5. Cardinality(Service!Owned(fd)) < MAX_NODES_PER_CLIENT
  <2>1. Cardinality(Service!Owned(fd)) = Cardinality(NodesOf(clients[s].client_id))
    BY <1>3, OwnedNodes
  <2>2. Cardinality(NodesOf(clients[s].client_id)) \in Nat
    BY FS_Subset, FS_CardinalityType DEF Counting, TableInv, Dated, NodesOf
  <2> QED
    BY <1>2, <2>1, <2>2, RegistryAssumption DEF AtLimit
<1>6. Mapping /\ Mapping'
  BY MappingHolds, MappingHoldsNext
<1>7. IssuedIds' = IssuedIds \cup {k} /\ k \notin IssuedIds
  BY <1>1, <1>6 DEF Mapping
<1>8. DOMAIN NodeOwners' = DOMAIN NodeOwners \cup {k} /\ k \notin DOMAIN NodeOwners
  <2>1. \A n \in nodes : n.seq # k
    BY <1>1, NodeIsFound
  <2> QED
    BY <1>6, <1>13, <2>1 DEF Mapping
<1>9. NodeOwners'[k] = fd
  BY <1>3, <1>4, <1>6, <1>13 DEF Mapping
<1>10. ASSUME NEW n \in nodes PROVE NodeOwners'[n.seq] = NodeOwners[n.seq]
  <2>1. PICK t \in ActiveSlots : clients[t].client_id = n.client_id
    BY DEF Counting, TableInv, NoOrphans
  <2> QED
    BY <1>4, <1>6, <1>13, <2>1 DEF Mapping
<1>11. NodeOwners' = [i \in DOMAIN NodeOwners \cup {k} |-> IF i = k THEN fd ELSE NodeOwners[i]]
  <2>1. \A i \in DOMAIN NodeOwners : NodeOwners'[i] = NodeOwners[i]
    BY <1>6, <1>10 DEF Mapping
  <2>2. NodeOwners' = [i \in DOMAIN NodeOwners' |-> NodeOwners'[i]]
    BY DEF NodeOwners
  <2> QED
    BY <1>8, <1>9, <2>1, <2>2
<1>12. last' = [op |-> "CREATE_NODE", fd |-> fd, node_id |-> k, status |-> "SUCCESS"]
  BY <1>1 DEF CreateNode, Told
<1> QED
  BY <1>1, <1>3, <1>4, <1>5, <1>7, <1>11, <1>12, ServiceCounts
     DEF Service!Create, Service!Told, OpenSessions, NodeOwners, IssuedIds

(* The test of the handlers is whether the session owns the node. *)
LEMMA OwnsIsOwned ==
    ASSUME Counting, NEW fd, NEW s, Caller(fd, s), NEW id
    PROVE  Owns(clients[s].client_id, id) <=> id \in Service!Owned(fd)
<1>1. s \in ActiveSlots /\ clients[s].fd = fd
  BY CallerHasSession
<1>2. Service!Owned(fd) = {n.seq : n \in NodesOf(clients[s].client_id)}
  BY <1>1, OwnedNodes
<1>3. \A n \in nodes : Found(n, id) <=> n.seq = id
  BY NodeIsFound DEF Found
<1> QED
  BY <1>2, <1>3 DEF Owns, NodesOf

(* A node that is destroyed is one its own session has named. *)
LEMMA ServiceDestroys ==
    ASSUME Counting, Counting', NEW fd \in Fds, NEW id \in Ids, DestroyNode(fd, id)
    PROVE  Service!Destroy(fd, id)
<1>1. PICK s \in Slots : Caller(fd, s) /\ Owns(clients[s].client_id, id)
  BY DEF DestroyNode
<1>2. fd \in OpenSessions /\ id \in Service!Owned(fd)
  BY <1>1, CallerHasSession, OwnsIsOwned
<1>3. UNCHANGED <<ActiveSlots, OpenSessions, IssuedIds, clients>>
  BY DEF DestroyNode, ActiveSlots, OpenSessions, IssuedIds
<1>4. Mapping /\ Mapping'
  BY MappingHolds, MappingHoldsNext
<1>5. \A n \in nodes : Found(n, id) <=> n.seq = id
  BY NodeIsFound DEF Found
<1>6. nodes' = {n \in nodes : n.seq # id}
  BY <1>5 DEF DestroyNode
<1>7. DOMAIN NodeOwners' = DOMAIN NodeOwners \ {id}
  BY <1>4, <1>6 DEF Mapping
<1>8. ASSUME NEW n \in nodes' PROVE NodeOwners'[n.seq] = NodeOwners[n.seq]
  <2>1. n \in nodes
    BY <1>6
  <2>2. PICK t \in ActiveSlots : clients[t].client_id = n.client_id
    BY <2>1 DEF Counting, TableInv, NoOrphans
  <2> QED
    BY <1>3, <1>4, <2>1, <2>2 DEF Mapping
<1>9. NodeOwners' = [i \in DOMAIN NodeOwners \ {id} |-> NodeOwners[i]]
  <2>1. \A i \in DOMAIN NodeOwners' : NodeOwners'[i] = NodeOwners[i]
    BY <1>4, <1>8 DEF Mapping
  <2>2. NodeOwners' = [i \in DOMAIN NodeOwners' |-> NodeOwners'[i]]
    BY DEF NodeOwners
  <2> QED
    BY <1>7, <2>1, <2>2
<1>10. last' = [op |-> "DESTROY_NODE", fd |-> fd, node_id |-> id, status |-> "SUCCESS"]
  BY DEF DestroyNode, Told
<1> QED
  BY <1>2, <1>3, <1>9, <1>10 DEF Service!Destroy, Service!Told, OpenSessions, NodeOwners, IssuedIds

(* The requests that leave the tables alone. *)
LEMMA ServiceAnswers ==
    ASSUME Counting, NEW fd \in Fds, NEW id \in Ids
    PROVE  /\ CreateOverLimit(fd) \/ CreateWithoutMemory(fd) => Service!CreateFails(fd)
           /\ DestroyInvalid(fd, id) => Service!NoSuchNode(fd, id)
           /\ RenderBlur(fd, id) => Service!Render(fd, id) \/ Service!NoSuchNode(fd, id)
           /\ Reject(fd) => \E garbage \in Ids : Service!Reject(fd, garbage)
<1> DEFINE Keeps == UNCHANGED <<OpenSessions, NodeOwners, IssuedIds>>
<1>1. ASSUME CreateOverLimit(fd) \/ CreateWithoutMemory(fd)
      PROVE  Service!CreateFails(fd)
  <2>1. fd \in OpenSessions
    BY <1>1, CallerHasSession DEF CreateOverLimit, CreateWithoutMemory
  <2>2. Keeps
    BY <1>1, ServiceKept DEF CreateOverLimit, CreateWithoutMemory
  <2>3. last' = [op |-> "CREATE_NODE", fd |-> fd, node_id |-> 0, status |-> "OUT_OF_MEMORY"]
    BY <1>1 DEF CreateOverLimit, CreateWithoutMemory, Told
  <2> QED
    BY <2>1, <2>2, <2>3 DEF Service!CreateFails, Service!Told, OpenSessions, NodeOwners, IssuedIds
<1>2. ASSUME DestroyInvalid(fd, id)
      PROVE  Service!NoSuchNode(fd, id)
  <2>1. fd \in OpenSessions /\ id \notin Service!Owned(fd)
    BY <1>2, CallerHasSession, OwnsIsOwned DEF DestroyInvalid
  <2>2. Keeps
    BY <1>2, ServiceKept DEF DestroyInvalid
  <2>3. last' = [op |-> "DESTROY_NODE", fd |-> fd, node_id |-> id, status |-> "INVALID_NODE"]
    BY <1>2 DEF DestroyInvalid, Told
  <2> QED
    BY <2>1, <2>2, <2>3 DEF Service!NoSuchNode, Service!Told, OpenSessions, NodeOwners, IssuedIds
<1>3. ASSUME RenderBlur(fd, id)
      PROVE  Service!Render(fd, id) \/ Service!NoSuchNode(fd, id)
  <2>1. PICK s \in Slots :
            /\ Caller(fd, s)
            /\ IF Owns(clients[s].client_id, id)
               THEN \E status \in {"SUCCESS", "RENDER_FAILED"} : Told("RENDER_BLUR", fd, id, status)
               ELSE Told("RENDER_BLUR", fd, id, "INVALID_NODE")
    BY <1>3 DEF RenderBlur
  <2>2. fd \in OpenSessions /\ (Owns(clients[s].client_id, id) <=> id \in Service!Owned(fd))
    BY <2>1, CallerHasSession, OwnsIsOwned
  <2>3. Keeps
    BY <1>3, ServiceKept DEF RenderBlur
  <2>4. CASE id \in Service!Owned(fd)
    <3>1. PICK status \in {"SUCCESS", "RENDER_FAILED"} :
              last' = [op |-> "RENDER_BLUR", fd |-> fd, node_id |-> id, status |-> status]
      BY <2>1, <2>2, <2>4 DEF Told
    <3> QED
      BY <2>2, <2>3, <2>4, <3>1 DEF Service!Render, Service!Told, OpenSessions, NodeOwners, IssuedIds
  <2>5. CASE id \notin Service!Owned(fd)
    <3>1. last' = [op |-> "RENDER_BLUR", fd |-> fd, node_id |-> id, status |-> "INVALID_NODE"]
      BY <2>1, <2>2, <2>5 DEF Told
    <3> QED
      BY <2>2, <2>3, <2>5, <3>1 DEF Service!NoSuchNode, Service!Told, OpenSessions, NodeOwners, IssuedIds
  <2> QED
    BY <2>4, <2>5
<1>4. ASSUME Reject(fd)
      PROVE  \E garbage \in Ids : Service!Reject(fd, garbage)
  <2>1. fd \in OpenSessions
    BY <1>4, CallerHasSession DEF Reject
  <2>2. Keeps
    BY <1>4, ServiceKept DEF Reject
  <2>3. PICK garbage \in Ids :
            last' = [op |-> "INVALID", fd |-> fd, node_id |-> garbage, status |-> "INVALID_PARAMS"]
    BY <1>4 DEF Reject, Told
  <2> QED
    BY <2>1, <2>2, <2>3 DEF Service!Reject, Service!Told, OpenSessions, NodeOwners, IssuedIds
<1> QED
  BY <1>1, <1>2, <1>3, <1>4

(* What a handler told its caller is forgotten when it returns. *)
LEMMA ServiceReturns ==
    ASSUME Return
    PROVE  Service!Return
<1>1. UNCHANGED <<OpenSessions, NodeOwners, IssuedIds>> /\ last' = Nothing
  BY ServiceKept DEF Return
<1> QED
  BY <1>1 DEF Service!Return, Service!Nothing, Nothing, NoFd, OpenSessions, NodeOwners, IssuedIds

(* Every step that leaves the counters in range is a step of the service. *)
LEMMA ServiceStep ==
    ASSUME Counting, Counting', Next
    PROVE  Service!Next
<1>1. CASE Return
  BY <1>1, ServiceReturns DEF Service!Next
<1>2. ASSUME NEW fd \in Fds,
             \/ Register(fd) \/ RegisterRefused(fd) \/ Unregister(fd) \/ CreateNode(fd)
             \/ CreateOverLimit(fd) \/ CreateWithoutMemory(fd) \/ Reject(fd)
             \/ \E id \in Ids : DestroyNode(fd, id) \/ DestroyInvalid(fd, id) \/ RenderBlur(fd, id)
      PROVE  Service!Next
  <2>1. CASE Register(fd)
    BY <2>1, ServiceConnects DEF Service!Next
  <2>2. CASE RegisterRefused(fd)
    BY <2>2, ServiceRefuses DEF Service!Next
  <2>3. CASE Unregister(fd)
    BY <2>3, ServiceLeaves DEF Service!Next
  <2>4. CASE CreateNode(fd)
    BY <2>4, ServiceCreates DEF Service!Next
  <2>5. CASE CreateOverLimit(fd) \/ CreateWithoutMemory(fd)
    <3>1. 0 \in Ids
      BY RegistryAssumption DEF Ids
    <3> QED
      BY <2>5, <3>1, ServiceAnswers DEF Service!Next
  <2>6. CASE Reject(fd)
    <3>1. 0 \in Ids
      BY RegistryAssumption DEF Ids
    <3> QED
      BY <2>6, <3>1, ServiceAnswers DEF Service!Next
  <2>7. ASSUME NEW id \in Ids, DestroyNode(fd, id) PROVE Service!Next
    BY <2>7, ServiceDestroys DEF Service!Next
  <2>8. ASSUME NEW id \in Ids, DestroyInvalid(fd, id) \/ RenderBlur(fd, id) PROVE Service!Next
    BY <2>8, ServiceAnswers DEF Service!Next
  <2> QED
    BY <1>2, <2>1, <2>2, <2>3, <2>4, <2>5, <2>6, <2>7, <2>8
<1> QED
  BY <1>1, <1>2 DEF Next

-----------------------------------------------------------------------------

(* Until a counter comes round the daemon's tables do what the service
   promises: a session opens unless the table is full and is closed with its own
   nodes only, a node gets an identifier that was never given before, and only
   its own session renders or destroys it (client.c:22-76, blur_node.c:38-140,
   ipc_protocol.c:219-330). *)
THEOREM TablesImplementService == Spec => ImplementsService
<1> DEFINE Serves == [(ClientsNumbered /\ NodesNumbered)' => [Service!Next]_(Service!vars)]_vars
<1>1. TableInv /\ SlotInv /\ TableInv' /\ SlotInv' /\ [Next]_vars => Serves
  <2> SUFFICES ASSUME TableInv, SlotInv, TableInv', SlotInv', Next, (ClientsNumbered /\ NodesNumbered)'
               PROVE  Service!Next
    OBVIOUS
  <2>1. next_client <= next_client' /\ next_node <= next_node'
    BY CountersGrow DEF TableInv
  <2>2. ClientsNumbered /\ NodesNumbered
    BY <2>1, RegistryAssumption DEF ClientsNumbered, NodesNumbered, TableInv, TypeOK
  <2> QED
    BY <2>2, ServiceStep DEF Counting
<1>2. Init => SlotInv
  BY DEF Init, SlotInv, ClientsDated, OneSlotPerConnection, ActiveSlots
<1> QED
  BY <1>1, <1>2, TableInit, TableStep, SlotStep, ServiceInit, PTL DEF Spec, ImplementsService

=============================================================================
