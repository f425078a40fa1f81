--------------------------- MODULE RegistryProofs ---------------------------
(***************************************************************************)
(* Proofs about Registry, for every number of slots, every node limit and  *)
(* every width of the identifiers.                                         *)
(***************************************************************************)
EXTENDS Registry, FiniteSetTheorems, TLAPS

(* Both counters stay in range and date what they numbered: a node is older
   than the counter and no two nodes have one age; the node list is finite. *)
Dated ==
    /\ next_client \in 1 .. MaxConnects + 1
    /\ next_node \in 1 .. MaxCreates + 1
    /\ IsFiniteSet(nodes)
    /\ \A n \in nodes : n.seq \in 1 .. next_node - 1
    /\ \A m, n \in nodes : m.seq = n.seq => m = n

(* The part of the invariant that holds even if the counters wrap. *)
TableInv == TypeOK /\ Dated /\ NoOrphans /\ WithinLimit /\ OpenIsRegistered

(* A connected client's identifier is older than the counter. *)
ClientsDated == ClientsNumbered => \A s \in ActiveSlots : clients[s].client_id \in 1 .. next_client - 1

(* The part that ends when the counter comes round. *)
SlotInv == ClientsDated /\ OneSlotPerConnection

-----------------------------------------------------------------------------

(* A stored identifier fits in its type. *)
LEMMA IdRange ==
    ASSUME NEW n \in Nat
    PROVE  Id(n) \in Ids
BY RegistryAssumption DEF Id, Ids

(* Below the end of the range an identifier is the count itself. *)
LEMMA IdBelow ==
    ASSUME NEW n \in Nat, n < IdSpace
    PROVE  Id(n) = n
BY RegistryAssumption DEF Id

(* The empty tables satisfy the invariant. *)
LEMMA TableInit == Init => TableInv
<1> SUFFICES ASSUME Init PROVE TableInv
  OBVIOUS
<1>1. TypeOK
  BY RegistryAssumption DEF Init, Nothing, TypeOK, Connections, Outcomes, Ids, NoFd
<1>2. Dated
  BY RegistryAssumption, FS_EmptySet DEF Init, Dated
<1>3. NoOrphans /\ OpenIsRegistered
  BY DEF Init, NoOrphans, OpenIsRegistered
<1>4. WithinLimit
  <2> SUFFICES ASSUME NEW c \in Ids PROVE Cardinality(NodesOf(c)) <= MAX_NODES_PER_CLIENT
    BY DEF WithinLimit
  <2>1. NodesOf(c) = {}
    BY DEF Init, NodesOf
  <2> QED
    BY <2>1, FS_EmptySet, RegistryAssumption
<1> QED
  BY <1>1, <1>2, <1>3, <1>4 DEF TableInv

(* A step that only reports an outcome keeps the invariant. *)
LEMMA TableUnchanged ==
    ASSUME TableInv, UNCHANGED <<clients, next_client, nodes, next_node, open>>, last' \in Outcomes
    PROVE  TableInv'
<1>1. TypeOK'
  BY DEF TableInv, TypeOK
<1>2. Dated' /\ NoOrphans' /\ OpenIsRegistered'
  BY DEF TableInv, Dated, NoOrphans, OpenIsRegistered, SlotsOf, ActiveSlots
<1>3. WithinLimit'
  BY DEF TableInv, WithinLimit, NodesOf
<1> QED
  BY <1>1, <1>2, <1>3 DEF TableInv

(* The node list never holds too much if it only shrinks. *)
LEMMA FewerNodes ==
    ASSUME TableInv, nodes' \subseteq nodes
    PROVE  IsFiniteSet(nodes') /\ WithinLimit'
<1>1. IsFiniteSet(nodes)
  BY DEF TableInv, Dated
<1>2. IsFiniteSet(nodes')
  BY <1>1, FS_Subset
<1>3. ASSUME NEW c \in Ids
      PROVE  Cardinality(NodesOf(c)') <= MAX_NODES_PER_CLIENT
  <2>1. NodesOf(c) \subseteq nodes /\ NodesOf(c)' \subseteq NodesOf(c)
    BY DEF NodesOf
  <2>2. IsFiniteSet(NodesOf(c))
    BY <1>1, <2>1, FS_Subset
  <2>3. Cardinality(NodesOf(c)') <= Cardinality(NodesOf(c))
    BY <2>1, <2>2, FS_Subset
  <2>4. Cardinality(NodesOf(c)) <= MAX_NODES_PER_CLIENT
    BY <1>3 DEF TableInv, WithinLimit
  <2>5. Cardinality(NodesOf(c)) \in Nat /\ Cardinality(NodesOf(c)') \in Nat
    BY <2>1, <2>2, FS_CardinalityType, FS_Subset
  <2> QED
    BY <2>3, <2>4, <2>5, RegistryAssumption
<1> QED
  BY <1>2, <1>3 DEF WithinLimit

-----------------------------------------------------------------------------

(* client_register fills a slot that was free, so no client loses its slot. *)
LEMMA TableRegister ==
    ASSUME TableInv, NEW fd \in Fds, Register(fd)
    PROVE  TableInv'
<1>1. PICK s \in Slots :
        /\ ~ clients[s].active
        /\ clients' = [clients EXCEPT ![s] =
                          [fd |-> fd, client_id |-> Id(next_client), active |-> TRUE]]
  BY DEF Register, First, FreeSlots
<1>2. next_client \in Nat /\ Id(next_client) \in Ids
  BY IdRange DEF TableInv, TypeOK
<1>3. clients \in [Slots -> Connections]
  BY DEF TableInv, TypeOK
<1>4. /\ clients'[s] = [fd |-> fd, client_id |-> Id(next_client), active |-> TRUE]
      /\ \A t \in Slots \ {s} : clients'[t] = clients[t]
  BY <1>1, <1>3
<1>5. /\ ActiveSlots' = ActiveSlots \cup {s}
      /\ \A t \in ActiveSlots : t # s /\ clients'[t] = clients[t]
  BY <1>1, <1>4 DEF ActiveSlots
<1>6. TypeOK'
  <2>1. clients' \in [Slots -> Connections]
    BY <1>1, <1>2, <1>3 DEF Connections
  <2>2. last' \in Outcomes
    BY RegistryAssumption DEF Register, Told, Outcomes, Ids
  <2> QED
    BY <1>2, <2>1, <2>2 DEF TableInv, TypeOK, Register
<1>7. Dated'
  BY RegistryAssumption DEF TableInv, Dated, Register, TypeOK
<1>8. NoOrphans'
  BY <1>5 DEF TableInv, NoOrphans, Register
<1>9. WithinLimit'
  BY FewerNodes DEF Register
<1>10. OpenIsRegistered'
  <2>1. \A g \in open : SlotsOf(g)' # {}
    BY <1>5 DEF TableInv, OpenIsRegistered, SlotsOf
  <2>2. s \in SlotsOf(fd)'
    BY <1>4, <1>5 DEF SlotsOf
  <2>3. open' \subseteq open \cup {fd}
    BY DEF Register
  <2> QED
    BY <2>1, <2>2, <2>3 DEF OpenIsRegistered
<1> QED
  BY <1>6, <1>7, <1>8, <1>9, <1>10 DEF TableInv

(* client_unregister takes a client's nodes with its slot, and no other
   descriptor loses its slot. *)
LEMMA TableUnregister ==
    ASSUME TableInv, NEW fd \in Fds, Unregister(fd)
    PROVE  TableInv'
<1>1. PICK s \in ActiveSlots :
        /\ clients[s].fd = fd
        /\ nodes' = nodes \ NodesOf(clients[s].client_id)
        /\ clients' = [clients EXCEPT ![s] = ClearedSlot]
  BY DEF Unregister, First, SlotsOf, NodesOfSlot
<1>2. clients \in [Slots -> Connections] /\ s \in Slots
  BY DEF TableInv, TypeOK, ActiveSlots
<1>3. /\ ActiveSlots' = ActiveSlots \ {s}
      /\ \A t \in ActiveSlots \ {s} : clients'[t] = clients[t]
  BY <1>1, <1>2 DEF ActiveSlots, ClearedSlot
<1>4. open' = open \ {fd}
  BY DEF Unregister, Closed
<1>5. TypeOK'
  <2>1. clients' \in [Slots -> Connections]
    BY <1>1, <1>2, RegistryAssumption DEF Connections, ClearedSlot, Ids, NoFd
  <2>2. last' \in Outcomes
    BY RegistryAssumption DEF Unregister, Told, Outcomes, Ids
  <2> QED
    BY <1>1, <1>4, <2>1, <2>2 DEF TableInv, TypeOK, Unregister
<1>6. IsFiniteSet(nodes') /\ WithinLimit'
  BY <1>1, FewerNodes
<1>7. Dated'
  BY <1>1, <1>6 DEF TableInv, Dated, Unregister
<1>8. NoOrphans'
  <2> SUFFICES ASSUME NEW n \in nodes'
               PROVE  \E t \in ActiveSlots' : clients'[t].client_id = n.client_id
    BY DEF NoOrphans
  <2>1. n \in nodes /\ n.client_id # clients[s].client_id
    BY <1>1 DEF NodesOf
  <2>2. PICK t \in ActiveSlots : clients[t].client_id = n.client_id
    BY <2>1 DEF TableInv, NoOrphans
  <2>3. t \in ActiveSlots \ {s}
    BY <2>1, <2>2
  <2> QED
    BY <1>3, <2>2, <2>3
<1>9. OpenIsRegistered'
  <2> SUFFICES ASSUME NEW g \in open' PROVE SlotsOf(g)' # {}
    BY DEF OpenIsRegistered
  <2>1. g \in open /\ g # fd
    BY <1>4
  <2>2. PICK t \in ActiveSlots : clients[t].fd = g
    BY <2>1 DEF TableInv, OpenIsRegistered, SlotsOf
  <2>3. t \in ActiveSlots \ {s}
    BY <1>1, <2>1, <2>2
  <2> QED
    BY <1>3, <2>2, <2>3 DEF SlotsOf
<1> QED
  BY <1>5, <1>6, <1>7, <1>8, <1>9 DEF TableInv

(* A creation adds one node, for a connected client below its limit. *)
LEMMA TableCreate ==
    ASSUME TableInv, NEW fd \in Fds, CreateNode(fd)
    PROVE  TableInv'
<1>1. PICK s \in ActiveSlots :
        /\ ~ AtLimit(clients[s].client_id)
        /\ nodes' = nodes \cup {[seq |-> next_node, client_id |-> clients[s].client_id]}
  BY DEF CreateNode, Caller, First, SlotsOf
<1> DEFINE owner == clients[s].client_id
           new == [seq |-> next_node, client_id |-> owner]
<1>2. owner \in Ids /\ next_node \in Nat /\ new \in Nodes
  BY <1>1 DEF TableInv, TypeOK, ActiveSlots, Connections, Nodes
<1>3. ActiveSlots' = ActiveSlots /\ UNCHANGED <<clients, next_client, open>>
  BY DEF CreateNode, ActiveSlots
<1>4. TypeOK'
  <2>1. last' \in Outcomes
    BY RegistryAssumption, IdRange, <1>2 DEF CreateNode, Told, Outcomes, Ids
  <2>2. next_node' \in Nat /\ nodes' \subseteq Nodes
    BY <1>1, <1>2 DEF CreateNode, TableInv, TypeOK
  <2> QED
    BY <1>3, <2>1, <2>2 DEF TableInv, TypeOK
<1>5. Dated'
  <2>1. IsFiniteSet(nodes')
    BY <1>1, FS_AddElement DEF TableInv, Dated
  <2>2. /\ next_client' \in 1 .. MaxConnects + 1
        /\ next_node' \in 1 .. MaxCreates + 1
        /\ next_node' = next_node + 1
    BY RegistryAssumption DEF CreateNode, TableInv, Dated
  <2>3. \A n \in nodes : n.seq \in 1 .. next_node - 1
    BY DEF TableInv, Dated
  <2>4. \A n \in nodes' : n.seq \in 1 .. next_node' - 1
    BY <1>1, <1>2, <2>2, <2>3 DEF TableInv, Dated
  <2>5. \A m, n \in nodes' : m.seq = n.seq => m = n
    BY <1>1, <1>2, <2>3 DEF TableInv, Dated
  <2> QED
    BY <2>1, <2>2, <2>4, <2>5 DEF Dated
<1>6. NoOrphans'
  BY <1>1, <1>3 DEF TableInv, NoOrphans
<1>7. WithinLimit'
  <2> SUFFICES ASSUME NEW c \in Ids
               PROVE  Cardinality(NodesOf(c)') <= MAX_NODES_PER_CLIENT
    BY DEF WithinLimit
  <2>1. IsFiniteSet(NodesOf(c))
    <3>1. NodesOf(c) \subseteq nodes /\ IsFiniteSet(nodes)
      BY DEF NodesOf, TableInv, Dated
    <3> QED
      BY <3>1, FS_Subset
  <2>2. Cardinality(NodesOf(c)) \in Nat
    BY <2>1, FS_CardinalityType
  <2>3. CASE c = owner
    <3>1. NodesOf(c)' = NodesOf(c) \cup {new} /\ new \notin NodesOf(c)
      BY <1>1, <1>2, <2>3 DEF NodesOf, TableInv, Dated
    <3>2. Cardinality(NodesOf(c)') = Cardinality(NodesOf(c)) + 1
      BY <2>1, <3>1, FS_AddElement
    <3>3. Cardinality(NodesOf(c)) < MAX_NODES_PER_CLIENT
      BY <1>1, <2>2, <2>3, RegistryAssumption DEF AtLimit
    <3> QED
      BY <2>2, <3>2, <3>3, RegistryAssumption
  <2>4. CASE c # owner
    <3>1. NodesOf(c)' = NodesOf(c)
      BY <1>1, <2>4 DEF NodesOf
    <3> QED
      BY <3>1 DEF TableInv, WithinLimit
  <2> QED
    BY <2>3, <2>4
<1>8. OpenIsRegistered'
  BY <1>3 DEF TableInv, OpenIsRegistered, SlotsOf
<1> QED
  BY <1>4, <1>5, <1>6, <1>7, <1>8 DEF TableInv

(* A destruction removes nodes only. *)
LEMMA TableDestroy ==
    ASSUME TableInv, NEW fd \in Fds, NEW id \in Ids, DestroyNode(fd, id)
    PROVE  TableInv'
<1>1. nodes' \subseteq nodes /\ UNCHANGED <<clients, next_client, next_node, open>>
  BY DEF DestroyNode
<1>2. TypeOK'
  BY <1>1 DEF TableInv, TypeOK, DestroyNode, Told, Outcomes
<1>3. IsFiniteSet(nodes') /\ WithinLimit'
  BY <1>1, FewerNodes
<1>4. Dated'
  BY <1>1, <1>3 DEF TableInv, Dated
<1>5. NoOrphans' /\ OpenIsRegistered'
  BY <1>1 DEF TableInv, NoOrphans, OpenIsRegistered, SlotsOf, ActiveSlots
<1> QED
  BY <1>2, <1>3, <1>4, <1>5 DEF TableInv

(* Every step keeps the invariant of the tables. *)
LEMMA TableStep == TableInv /\ [Next]_vars => TableInv'
<1> SUFFICES ASSUME TableInv, [Next]_vars PROVE TableInv'
  OBVIOUS
<1> USE DEF Ids
<1>0. 0 \in Ids /\ Fds \subseteq Fds \cup {NoFd}
  BY RegistryAssumption
<1>1. ASSUME NEW fd \in Fds, Register(fd) PROVE TableInv'
  BY <1>1, TableRegister
<1>2. ASSUME NEW fd \in Fds, RegisterRefused(fd) PROVE TableInv'
  <2>1. last' \in Outcomes
    BY <1>0, <1>2 DEF RegisterRefused, Told, Outcomes
  <2> QED
    BY <1>2, <2>1, TableUnchanged DEF RegisterRefused
<1>3. ASSUME NEW fd \in Fds, Unregister(fd) PROVE TableInv'
  BY <1>3, TableUnregister
<1>4. ASSUME NEW fd \in Fds, CreateNode(fd) PROVE TableInv'
  BY <1>4, TableCreate
<1>5. ASSUME NEW fd \in Fds, CreateOverLimit(fd) \/ CreateWithoutMemory(fd) PROVE TableInv'
  <2>1. last' \in Outcomes
    BY <1>0, <1>5 DEF CreateOverLimit, CreateWithoutMemory, Told, Outcomes
  <2> QED
    BY <1>5, <2>1, TableUnchanged DEF CreateOverLimit, CreateWithoutMemory
<1>6. ASSUME NEW fd \in Fds, NEW id \in Ids, DestroyNode(fd, id) PROVE TableInv'
  BY <1>6, TableDestroy
<1>7. ASSUME NEW fd \in Fds, NEW id \in Ids, DestroyInvalid(fd, id) PROVE TableInv'
  <2>1. last' \in Outcomes
    BY <1>7 DEF DestroyInvalid, Told, Outcomes
  <2> QED
    BY <1>7, <2>1, TableUnchanged DEF DestroyInvalid
<1>8. ASSUME NEW fd \in Fds, NEW id \in Ids, RenderBlur(fd, id) PROVE TableInv'
  <2>1. last' \in Outcomes
    BY <1>8 DEF RenderBlur, Told, Outcomes
  <2> QED
    BY <1>8, <2>1, TableUnchanged DEF RenderBlur
<1>9. ASSUME NEW fd \in Fds, Reject(fd) PROVE TableInv'
  <2>1. last' \in Outcomes
    BY <1>9 DEF Reject, Told, Outcomes
  <2> QED
    BY <1>9, <2>1, TableUnchanged DEF Reject
<1>10. CASE Return
  <2>1. last' \in Outcomes
    BY <1>0, <1>10 DEF Return, Nothing, Outcomes
  <2> QED
    BY <1>10, <2>1, TableUnchanged DEF Return
<1>11. CASE UNCHANGED vars
  <2>1. last' \in Outcomes
    BY <1>11 DEF vars, TableInv, TypeOK
  <2> QED
    BY <1>11, <2>1, TableUnchanged DEF vars
<1> QED
  BY <1>1, <1>2, <1>3, <1>4, <1>5, <1>6, <1>7, <1>8, <1>9, <1>10, <1>11 DEF Next

(* Both tables, the counters and the answers keep their types, whether or not
   the counters wrap. *)
THEOREM TableTypesAreKept == Spec => []TypeOK
<1>1. TableInv => TypeOK
  BY DEF TableInv
<1> QED
  BY <1>1, TableInit, TableStep, PTL DEF Spec

(* Every node has a connected owner: a disconnection takes with it the nodes of
   its client, also when another client has come by the same identifier
   (client.c:65, blur_node.c:122-140). *)
THEOREM NoNodeIsOrphaned == Spec => []NoOrphans
<1>1. TableInv => NoOrphans
  BY DEF TableInv
<1> QED
  BY <1>1, TableInit, TableStep, PTL DEF Spec

(* No client identifier ever has more nodes than the limit (blur_node.c:60). *)
THEOREM LimitIsKept == Spec => []WithinLimit
<1>1. TableInv => WithinLimit
  BY DEF TableInv
<1> QED
  BY <1>1, TableInit, TableStep, PTL DEF Spec

(* Every open connection has a slot, so the handlers never meet a client the
   table does not know (ipc_protocol.c:229). *)
THEOREM OpenConnectionsAreRegistered == Spec => []OpenIsRegistered
<1>1. TableInv => OpenIsRegistered
  BY DEF TableInv
<1> QED
  BY <1>1, TableInit, TableStep, PTL DEF Spec

(* Only a step taken for the connection of its owner removes a node. *)
THEOREM RemovalsCorrect == Spec => RemovedByOwner
<1> DEFINE ByOwner ==
        \A n \in nodes \ nodes' :
            \E s \in ActiveSlots : clients[s].client_id = n.client_id /\ clients[s].fd = last'.fd
<1>1. TableInv /\ [Next]_vars => [ByOwner]_vars
  <2> SUFFICES ASSUME TableInv, Next, NEW n \in nodes, n \notin nodes'
               PROVE  \E s \in ActiveSlots : clients[s].client_id = n.client_id /\ clients[s].fd = last'.fd
    OBVIOUS
  <2>1. ASSUME NEW fd \in Fds, Unregister(fd)
        PROVE  \E s \in ActiveSlots : clients[s].client_id = n.client_id /\ clients[s].fd = last'.fd
    BY <2>1 DEF Unregister, First, SlotsOf, NodesOfSlot, NodesOf, Told
  <2>2. ASSUME NEW fd \in Fds, NEW id \in Ids, DestroyNode(fd, id)
        PROVE  \E s \in ActiveSlots : clients[s].client_id = n.client_id /\ clients[s].fd = last'.fd
    <3>1. PICK s \in ActiveSlots : clients[s].fd = fd /\ Owns(clients[s].client_id, id)
      BY <2>2 DEF DestroyNode, Caller, First, SlotsOf
    <3>2. PICK m \in nodes : Found(m, id) /\ m.client_id = clients[s].client_id
      BY <3>1 DEF Owns
    <3>3. Found(n, id)
      BY <2>2 DEF DestroyNode
    <3>4. m.seq <= n.seq /\ n.seq <= m.seq
      BY <3>2, <3>3 DEF Found
    <3>5. m = n
      BY <3>4 DEF TableInv, Dated, TypeOK, Nodes
    <3> QED
      BY <2>2, <3>1, <3>2, <3>5 DEF DestroyNode, Told
  <2>3. CASE Return \/ \E fd \in Fds :
               \/ Register(fd) \/ RegisterRefused(fd) \/ CreateNode(fd)
               \/ CreateOverLimit(fd) \/ CreateWithoutMemory(fd) \/ Reject(fd)
               \/ \E id \in Ids : DestroyInvalid(fd, id) \/ RenderBlur(fd, id)
    BY <2>3 DEF Register, RegisterRefused, CreateNode, CreateOverLimit, CreateWithoutMemory,
                Reject, Return, DestroyInvalid, RenderBlur
  <2> QED
    BY <2>1, <2>2, <2>3 DEF Next
<1> QED
  BY <1>1, TableInit, TableStep, PTL DEF Spec, RemovedByOwner

-----------------------------------------------------------------------------

(* Until the counter comes round an identifier is the count at which it was
   given, so every live node has an identifier of its own. *)
THEOREM NodesCorrect == Spec => []NodesAddressable
<1>1. TableInv => NodesAddressable
  <2> SUFFICES ASSUME TableInv, NodesNumbered, NEW n \in nodes
               PROVE  NodeId(n) # 0 /\ Found(n, NodeId(n))
    BY DEF NodesAddressable
  <2>1. ASSUME NEW m \in nodes PROVE m.seq \in Nat \ {0} /\ NodeId(m) = m.seq
    <3>1. m.seq \in Nat \ {0} /\ m.seq < IdSpace
      BY RegistryAssumption DEF TableInv, TypeOK, Dated, NodesNumbered
    <3> QED
      BY <3>1, IdBelow DEF NodeId
  <2> QED
    BY <2>1 DEF Found
<1> QED
  BY <1>1, TableInit, TableStep, PTL DEF Spec

(* No counter ever goes down. *)
LEMMA CountersGrow ==
    ASSUME TypeOK, [Next]_vars
    PROVE  next_client <= next_client' /\ next_node <= next_node'
BY DEF TypeOK, Next, vars, Return, Register, RegisterRefused, Unregister, CreateNode, CreateOverLimit,
       CreateWithoutMemory, DestroyNode, DestroyInvalid, RenderBlur, Reject

(* One slot per connection is preserved: a registration gets a descriptor
   and an identifier that no active slot has. *)
LEMMA SlotStep == TableInv /\ SlotInv /\ [Next]_vars => SlotInv'
<1> SUFFICES ASSUME TableInv, SlotInv, ClientsNumbered', [Next]_vars
             PROVE  ClientsDated' /\ OneSlotPerConnection'
  BY DEF SlotInv, ClientsDated, OneSlotPerConnection
<1>0. ClientsNumbered
  <2>1. next_client <= next_client' /\ next_client \in Nat /\ next_client' \in Nat
    BY CountersGrow, TableStep DEF TableInv, TypeOK
  <2> QED
    BY <2>1, RegistryAssumption DEF ClientsNumbered
<1>1. \A s \in ActiveSlots :
        /\ clients[s].client_id \in 1 .. next_client - 1
        /\ clients[s].fd \in open
  BY <1>0 DEF SlotInv, ClientsDated, OneSlotPerConnection
<1>2. \A s, t \in ActiveSlots :
        clients[s].fd = clients[t].fd \/ clients[s].client_id = clients[t].client_id => s = t
  BY <1>0 DEF SlotInv, OneSlotPerConnection
<1>3. /\ clients \in [Slots -> Connections]
      /\ next_client \in 1 .. MaxConnects + 1
  BY DEF TableInv, TypeOK, Dated
<1>4. ASSUME NEW fd \in Fds, Register(fd)
      PROVE  ClientsDated' /\ OneSlotPerConnection'
  <2>1. Id(next_client) = next_client /\ next_client # 0 /\ next_client' = next_client + 1
    BY <1>3, <1>4, IdBelow, RegistryAssumption DEF Register, ClientsNumbered
  <2>2. PICK s \in Slots \ ActiveSlots :
          clients' = [clients EXCEPT ![s] =
                         [fd |-> fd, client_id |-> next_client, active |-> TRUE]]
    BY <1>4, <2>1 DEF Register, First, FreeSlots, ActiveSlots
  <2>3. /\ ActiveSlots' = ActiveSlots \cup {s}
        /\ clients'[s] = [fd |-> fd, client_id |-> next_client, active |-> TRUE]
        /\ \A t \in ActiveSlots : clients'[t] = clients[t]
    BY <1>3, <2>2 DEF ActiveSlots
  <2>4. open' = open \cup {fd} /\ fd \notin open
    BY <1>4, <2>1 DEF Register
  <2>5. ClientsDated'
    BY <1>1, <1>3, <2>1, <2>3 DEF ClientsDated
  <2>6. \A t \in ActiveSlots' : clients'[t].fd \in open' /\ clients'[t].client_id # 0
    BY <1>1, <2>1, <2>3, <2>4
  <2>7. \A t, u \in ActiveSlots' :
          clients'[t].fd = clients'[u].fd \/ clients'[t].client_id = clients'[u].client_id => t = u
    BY <1>1, <1>2, <1>3, <2>3, <2>4
  <2> QED
    BY <2>5, <2>6, <2>7 DEF OneSlotPerConnection
<1>5. ASSUME NEW fd \in Fds, Unregister(fd)
      PROVE  ClientsDated' /\ OneSlotPerConnection'
  <2>1. PICK s \in ActiveSlots : clients[s].fd = fd /\ clients' = [clients EXCEPT ![s] = ClearedSlot]
    BY <1>5 DEF Unregister, First, SlotsOf
  <2>2. /\ ActiveSlots' = ActiveSlots \ {s}
        /\ \A t \in ActiveSlots \ {s} : clients'[t] = clients[t]
    BY <1>3, <2>1 DEF ActiveSlots, ClearedSlot
  <2>3. open' = open \ {fd} /\ next_client' = next_client
    BY <1>5 DEF Unregister, Closed
  <2>4. ClientsDated'
    BY <1>1, <2>2, <2>3 DEF ClientsDated
  <2> QED
    BY <1>1, <1>2, <1>3, <2>1, <2>2, <2>3, <2>4 DEF OneSlotPerConnection
<1>6. CASE UNCHANGED <<clients, next_client, open>>
  BY <1>6 DEF SlotInv, ClientsDated, OneSlotPerConnection, ActiveSlots, ClientsNumbered
<1>7. ASSUME NEW fd \in Fds, ~ Register(fd), ~ Unregister(fd),
             \/ RegisterRefused(fd) \/ CreateNode(fd)
             \/ CreateOverLimit(fd) \/ CreateWithoutMemory(fd) \/ Reject(fd)
             \/ \E id \in Ids : DestroyNode(fd, id) \/ DestroyInvalid(fd, id) \/ RenderBlur(fd, id)
      PROVE  UNCHANGED <<clients, next_client, open>>
  BY <1>7 DEF RegisterRefused, CreateNode, CreateOverLimit, CreateWithoutMemory,
              Reject, DestroyNode, DestroyInvalid, RenderBlur
<1> QED
  BY <1>4, <1>5, <1>6, <1>7 DEF Next, Return, vars

(* Until the counter comes round, the slots in use are the open
   connections, each with a descriptor and an identifier of its own. *)
THEOREM SlotsCorrect == Spec => []OneSlotPerConnection
<1>1. Init => SlotInv
  BY DEF Init, SlotInv, ClientsDated, OneSlotPerConnection, ActiveSlots
<1>2. SlotInv => OneSlotPerConnection
  BY DEF SlotInv
<1> QED
  BY <1>1, <1>2, SlotStep, TableInit, TableStep, PTL DEF Spec

=============================================================================
