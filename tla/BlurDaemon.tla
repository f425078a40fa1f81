----------------------------- MODULE BlurDaemon -----------------------------
(***************************************************************************)
(* The running daemon: the epoll loop of wlblurd/src/main.c, the message   *)
(* layer of wlblurd/src/ipc.c and handle_client_request of                 *)
(* wlblurd/src/ipc_protocol.c over the tables of Registry, together with   *)
(* the kernel's sockets and descriptor table and the compositors that use  *)
(* the daemon.                                                             *)
(*                                                                         *)
(* The daemon is one thread, but every other party moves between its       *)
(* system calls: a client can write, read, shut down or vanish after epoll *)
(* has reported on it, while the daemon works on its request, or while the *)
(* daemon sleeps in sendmsg() because the client does not read.            *)
(*                                                                         *)
(* Sockets are SOCK_STREAM.  A request is two units of the stream; a       *)
(* client built against a smaller struct wlblur_request sends one unit     *)
(* instead of two.  A response is small enough to be taken as one item.    *)
(***************************************************************************)
EXTENDS Registry, Sequences, SequencesExt

CONSTANTS
    Conns,          \* connections; a client that reconnects has a new one
    Requests,       \* what clients may send
    MaxSends,       \* bound: requests sent over all connections
    SockBuf,        \* responses a client can leave unread
    MAX_EVENTS,     \* events one epoll_wait() returns
    ContextReady,   \* has ipc_protocol_init() been called
    MaxPlanes,      \* planes of an exported buffer
    SystemFails,    \* may accept(), epoll_ctl() and epoll_wait() fail for want of resources
    SignalsArrive   \* bound: may SIGTERM or SIGINT arrive

NoConn == "none"

ASSUME DaemonAssumption ==
    /\ IsFiniteSet(Fds) /\ NoConn \notin Conns
    /\ Requests \subseteq [op : STRING, node_id : Ids, fds : 0 .. 4, form : {"whole", "version", "short"}]
    /\ \A r \in Requests : r.form = "short" => r.fds = 0
    /\ MaxSends \in Nat
    /\ SockBuf \in Nat \ {0}
    /\ MAX_EVENTS \in Nat \ {0}
    /\ ContextReady \in BOOLEAN
    /\ MaxPlanes \in 1 .. 4
    /\ SystemFails \in BOOLEAN
    /\ SignalsArrive \in BOOLEAN
    /\ MaxConnects >= Cardinality(Conns)
    /\ MaxCreates >= MaxSends

VARIABLES
    (* the clients *)
    client,         \* connection |-> what its client has done with it
    sent,           \* connection |-> requests written
    asked,          \* connection |-> requests the client awaits an answer to
    told,           \* connection |-> nodes its client has been given
    dropped,        \* connection |-> nodes its client has asked to destroy
    clean,          \* connection |-> the client follows the protocol
    (* the kernel *)
    backlog,        \* connections waiting for accept()
    dead,           \* connections the daemon has closed
    toDaemon,       \* connection |-> units not yet read by the daemon
    toClient,       \* connection |-> responses not yet read by the client
    peer,           \* descriptor |-> the connection behind it
    (* the daemon *)
    watched,        \* descriptors of connections in the epoll set
    pc,             \* where the loop stands
    batch,          \* events of this epoll_wait() not yet handled
    input_fd,       \* the buffer that came with the request in progress
    output_fd,      \* the buffer that goes with the response in progress
    dmabufs,        \* descriptors of buffers the process holds
    strays,         \* those of them no line of the program knows of
    running         \* cleared by SIGTERM and SIGINT

clientVars == <<client, sent, asked, told, dropped, clean>>
bufferVars == <<input_fd, output_fd, dmabufs, strays>>
kernelVars == <<backlog, dead, toDaemon, toClient, peer>>
daemonVars == <<watched, pc, batch, input_fd, output_fd, dmabufs, strays, running>>
tableVars == vars
dvars == <<tableVars, clientVars, kernelVars, daemonVars>>

Parts == 1 .. 2

Units == [req : Requests, part : Parts]

Responses == [op : {"CREATE_NODE", "DESTROY_NODE", "RENDER_BLUR", "INVALID"},
              node_id : Ids,
              status : {"SUCCESS", "INVALID_NODE", "INVALID_PARAMS", "RENDER_FAILED", "OUT_OF_MEMORY"}]

Events == [kind : {"accept", "hup", "in"}, fd : Fds \cup {NoFd}, conn : Conns \cup {NoConn}]

DaemonTypeOK ==
    /\ TypeOK
    /\ client \in [Conns -> {"idle", "up", "half", "closed"}]
    /\ sent \in [Conns -> Nat]
    /\ asked \in [Conns -> Seq(Requests)]
    /\ told \in [Conns -> SUBSET Ids] /\ dropped \in [Conns -> SUBSET Ids]
    /\ clean \in [Conns -> BOOLEAN]
    /\ backlog \in Seq(Conns) /\ dead \subseteq Conns
    /\ toDaemon \in [Conns -> Seq(Units)] /\ toClient \in [Conns -> Seq(Responses)]
    /\ peer \in [Fds -> Conns \cup {NoConn}]
    /\ watched \subseteq Fds
    /\ pc \in {"loop", "wait", "dispatch", "send", "stopped"}
    /\ batch \subseteq Events
    /\ input_fd \in Fds \cup {NoFd} /\ output_fd \in Fds \cup {NoFd}
    /\ dmabufs \subseteq Fds /\ strays \subseteq Fds
    /\ running \in BOOLEAN

DaemonInit ==
    /\ Init
    /\ client = [c \in Conns |-> "idle"]
    /\ sent = [c \in Conns |-> 0]
    /\ asked = [c \in Conns |-> << >>]
    /\ told = [c \in Conns |-> {}] /\ dropped = [c \in Conns |-> {}]
    /\ clean = [c \in Conns |-> TRUE]
    /\ backlog = << >> /\ dead = {}
    /\ toDaemon = [c \in Conns |-> << >>] /\ toClient = [c \in Conns |-> << >>]
    /\ peer = [f \in Fds |-> NoConn]
    /\ watched = {}
    /\ pc = "loop" /\ batch = {}
    /\ input_fd = NoFd /\ output_fd = NoFd /\ dmabufs = {} /\ strays = {}
    /\ running = TRUE

-----------------------------------------------------------------------------
(* Clients. *)

Connect(c) ==
    /\ client[c] = "idle"
    /\ client' = [client EXCEPT ![c] = "up"]
    /\ backlog' = Append(backlog, c)
    /\ UNCHANGED <<sent, asked, told, dropped, clean, dead, toDaemon, toClient, peer>>

UnitsOf(r) ==
    IF r.form = "short" THEN << [req |-> r, part |-> 1] >>
    ELSE << [req |-> r, part |-> 1], [req |-> r, part |-> 2] >>

(* One sendmsg() per request, also before the daemon has accepted. *)
Send(c, r) ==
    /\ client[c] = "up"
    /\ c \notin dead
    /\ SumFunction(sent) < MaxSends
    /\ sent' = [sent EXCEPT ![c] = @ + 1]
    /\ asked' = [asked EXCEPT ![c] = Append(@, r)]
    /\ toDaemon' = [toDaemon EXCEPT ![c] = @ \o UnitsOf(r)]
    /\ dropped' = [dropped EXCEPT ![c] = IF r.op = "DESTROY_NODE" THEN @ \cup {r.node_id} ELSE @]
    /\ clean' = [clean EXCEPT ![c] = @ /\ r.form = "whole"]
    /\ UNCHANGED <<client, told, backlog, dead, toClient, peer>>

(* A response carries no reference to its request: the client takes it for
   the answer to the oldest request it has not seen answered. *)
Receive(c) ==
    /\ client[c] \in {"up", "half"}
    /\ toClient[c] # << >>
    /\ toClient' = [toClient EXCEPT ![c] = Tail(@)]
    /\ asked' = [asked EXCEPT ![c] = Tail(@)]
    /\ told' = [told EXCEPT ![c] =
                   IF Head(asked[c]).op = "CREATE_NODE" /\ Head(toClient[c]).status = "SUCCESS"
                   THEN @ \cup {Head(toClient[c]).node_id} ELSE @]
    /\ UNCHANGED <<client, sent, dropped, clean, backlog, dead, toDaemon, peer>>

(* shutdown(SHUT_WR): the daemon reads to the end and then 0 bytes, for ever. *)
HalfClose(c) ==
    /\ client[c] = "up"
    /\ client' = [client EXCEPT ![c] = "half"]
    /\ UNCHANGED <<sent, asked, told, dropped, clean, kernelVars>>

(* close(), or the death of the client. *)
Close(c) ==
    /\ client[c] \in {"up", "half"}
    /\ client' = [client EXCEPT ![c] = "closed"]
    /\ toClient' = [toClient EXCEPT ![c] = << >>]
    /\ asked' = [asked EXCEPT ![c] = << >>]
    /\ told' = [told EXCEPT ![c] = {}]
    /\ dropped' = [dropped EXCEPT ![c] = {}]
    /\ clean' = [clean EXCEPT ![c] = TRUE]
    /\ UNCHANGED <<sent, backlog, dead, toDaemon, peer>>

ClientStep ==
    /\ pc # "stopped"
    /\ \E c \in Conns :
        \/ Connect(c)
        \/ \E r \in Requests : Send(c, r)
        \/ Receive(c)
        \/ HalfClose(c)
        \/ Close(c)
    /\ UNCHANGED <<tableVars, daemonVars>>

-----------------------------------------------------------------------------
(* The event loop. *)

(* The lowest descriptor that is free, which is what the kernel returns. *)
FreeFds == Fds \ (open \cup dmabufs)

(* epoll is level triggered, and EPOLLRDHUP is not asked for.  A hang-up is
   told apart from data (in the mutant it is not). *)
AlwaysData(c) == "in"
Reported(c) == IF client[c] = "closed" THEN "hup" ELSE "in"

Ready ==
    {[kind |-> "accept", fd |-> NoFd, conn |-> NoConn] : x \in 1 .. Len(backlog)}
      \cup
    {[kind |-> Reported(peer[f]), fd |-> f, conn |-> peer[f]] :
        f \in {g \in watched : client[peer[g]] \in {"half", "closed"} \/ toDaemon[peer[g]] # << >>}}

(* The loop condition (the mutant drains what is ready first). *)
Idle == ~ running /\ Ready = {}
LoopEnds == ~ running

(* The top of the loop: the condition holds.  A signal that comes now is seen
   when epoll_wait() has returned. *)
Enter ==
    /\ pc = "loop"
    /\ ~ LoopEnds
    /\ pc' = "wait"
    /\ Return
    /\ UNCHANGED <<clientVars, kernelVars, watched, batch, bufferVars, running>>

(* The events of one epoll_wait(). *)
EpollWait ==
    /\ pc = "wait"
    /\ batch' \in {b \in SUBSET Ready : Cardinality(b) \in 1 .. MAX_EVENTS}
    /\ Cardinality(batch') < MAX_EVENTS => batch' = Ready
    /\ pc' = "dispatch"
    /\ UNCHANGED <<tableVars, clientVars, kernelVars, watched, bufferVars, running>>

(* None within a second, or a signal before there was one. *)
TimeOut ==
    /\ pc = "wait"
    /\ Ready = {}
    /\ pc' = "loop"
    /\ UNCHANGED <<tableVars, clientVars, kernelVars, watched, batch, bufferVars, running>>

(* The loop condition fails, or epoll_wait() does; the process exits and its
   sockets close. *)
Stop ==
    /\ \/ pc = "loop" /\ LoopEnds
       \/ pc = "wait" /\ SystemFails
    /\ pc' = "stopped"
    /\ dead' = Conns
    /\ UNCHANGED <<tableVars, clientVars, backlog, toDaemon, toClient, peer, watched, batch, bufferVars, running>>

Signal ==
    /\ SignalsArrive
    /\ running
    /\ pc # "stopped"
    /\ running' = FALSE
    /\ UNCHANGED <<tableVars, clientVars, kernelVars, watched, pc, batch, bufferVars>>

(* Each event of the batch is handled once (in the mutant, again and again). *)
HandledAgain(e) ==
    /\ pc = "dispatch"
    /\ e \in batch
    /\ batch' = batch

Handled(e) ==
    /\ pc = "dispatch"
    /\ e \in batch
    /\ batch' = batch \ {e}

Proceed(events) == pc' = IF events = {} THEN "loop" ELSE "dispatch"

-----------------------------------------------------------------------------
(* handle_new_connection *)

(* accept() fails when no descriptor is free, in the process or the system;
   the connection stays queued. *)
AcceptFails(e) ==
    /\ Handled(e) /\ e.kind = "accept"
    /\ FreeFds = {} \/ SystemFails
    /\ Proceed(batch')
    /\ UNCHANGED <<tableVars, kernelVars, watched>>

(* The connection is accepted and closed at once: epoll_ctl() fails, or
   client_register() returns 0. *)
AcceptAndClose(e) ==
    /\ Handled(e) /\ e.kind = "accept"
    /\ \E fd \in Fds :
        /\ First(fd, FreeFds)
        /\ \/ SystemFails /\ UNCHANGED tableVars
           \/ RegisterRefused(fd)
           \/ Register(fd) /\ last'.status = "REFUSED"
    /\ backlog' = Tail(backlog)
    /\ dead' = dead \cup {Head(backlog)}
    /\ toDaemon' = [toDaemon EXCEPT ![Head(backlog)] = << >>]
    /\ Proceed(batch')
    /\ UNCHANGED <<toClient, peer, watched>>

AcceptConnection(e) ==
    /\ Handled(e) /\ e.kind = "accept"
    /\ \E fd \in Fds :
        /\ First(fd, FreeFds)
        /\ Register(fd) /\ last'.status = "SUCCESS"
        /\ peer' = [peer EXCEPT ![fd] = Head(backlog)]
        /\ watched' = watched \cup {fd}
    /\ backlog' = Tail(backlog)
    /\ Proceed(batch')
    /\ UNCHANGED <<dead, toDaemon, toClient>>

(* EPOLLHUP or EPOLLERR: whatever the client had still asked for is dropped. *)
HangUp(e) ==
    /\ Handled(e) /\ e.kind = "hup"
    /\ Unregister(e.fd)
    /\ watched' = watched \ {e.fd}
    /\ peer' = [peer EXCEPT ![e.fd] = NoConn]
    /\ dead' = dead \cup {peer[e.fd]}
    /\ toDaemon' = [toDaemon EXCEPT ![peer[e.fd]] = << >>]
    /\ Proceed(batch')
    /\ UNCHANGED <<backlog, toClient>>

-----------------------------------------------------------------------------
(* handle_client_request *)

Stream(e) == toDaemon[peer[e.fd]]

(* recvmsg() asks for two units and takes what there is. *)
ReadUnits(e) ==
    toDaemon' = [toDaemon EXCEPT ![peer[e.fd]] = SubSeq(@, 3, Len(@))]

(* What the bytes mean: the request, or anything at all once the stream is
   out of step. *)
Decoded(q) ==
    IF q[1].part = 1 /\ q[2].part = 2 THEN {q[1].req}
    ELSE {r \in Requests : r.form # "short"}

(* The descriptors recvmsg() installs: those of the request that begins in what
   is read, as far as the control buffer has room (CMSG_SPACE(sizeof(int)) is 24
   bytes where pointers have 8, which is two) and descriptors are free, the
   lowest. *)
ControlRoom == 2

Installed(e) ==
    LET place(f) == Cardinality({g \in FreeFds : g < f})
    IN  {f \in FreeFds :
            /\ place(f) < ControlRoom
            /\ \E i \in Parts \cap DOMAIN Stream(e) :
                 Stream(e)[i].part = 1 /\ place(f) < Stream(e)[i].req.fds}

(* Only the first is taken from the control buffer. *)
Unseen(e) == {f \in Installed(e) : \E g \in Installed(e) : g < f}

(* The request is complete and its version is the daemon's. *)
Read(e, r) ==
    /\ Handled(e) /\ e.kind = "in"
    /\ Len(Stream(e)) >= 2
    /\ r \in Decoded(Stream(e))
    /\ r.form = "whole"
    /\ ReadUnits(e)
    /\ IF Installed(e) = {} THEN input_fd' = NoFd ELSE First(input_fd', Installed(e))

(* Too few bytes (none at the end of the stream) or another version: the
   daemon closes the descriptor it has taken and says nothing. *)
Ignore(e) ==
    /\ Handled(e) /\ e.kind = "in"
    /\ \/ Len(Stream(e)) < 2
       \/ Len(Stream(e)) >= 2 /\ \E r \in Decoded(Stream(e)) : r.form # "whole"
    /\ dmabufs' = dmabufs \cup Unseen(e)
    /\ strays' = strays \cup Unseen(e)
    /\ ReadUnits(e)
    /\ Proceed(batch')
    /\ UNCHANGED <<tableVars, backlog, dead, toClient, peer, watched, input_fd, output_fd>>

(* The descriptors held while the response is sent: those that came with the
   request and those of the planes exported for it (the mutant takes -1 for
   one). *)
HoldAny(e, planes) ==
    /\ dmabufs' = dmabufs \cup Installed(e) \cup planes \cup {input_fd'}
    /\ strays' = strays \cup Unseen(e) \cup (planes \ {output_fd'})

Hold(e, planes) ==
    /\ dmabufs' = dmabufs \cup Installed(e) \cup planes
    /\ strays' = strays \cup Unseen(e) \cup (planes \ {output_fd'})

AnswerCreate(e, r) ==
    /\ Read(e, r) /\ r.op = "CREATE_NODE"
    /\ CreateNode(e.fd) \/ CreateOverLimit(e.fd) \/ CreateWithoutMemory(e.fd)
    /\ output_fd' = NoFd
    /\ Hold(e, {})

AnswerDestroy(e, r) ==
    /\ Read(e, r) /\ r.op = "DESTROY_NODE"
    /\ DestroyNode(e.fd, r.node_id) \/ DestroyInvalid(e.fd, r.node_id)
    /\ output_fd' = NoFd
    /\ Hold(e, {})

(* Without a context every valid rendering fails.  With one, it can succeed
   and open a descriptor for each plane; the first goes into the response, and
   the others are forgotten. *)
AnswerRender(e, r) ==
    /\ Read(e, r) /\ r.op = "RENDER_BLUR" /\ input_fd' # NoFd
    /\ RenderBlur(e.fd, r.node_id)
    /\ IF last'.status = "SUCCESS"
       THEN /\ ContextReady
            /\ \E planes \in SUBSET (FreeFds \ Installed(e)) :
                /\ Cardinality(planes) \in 1 .. MaxPlanes
                /\ First(output_fd', planes)
                /\ Hold(e, planes)
       ELSE output_fd' = NoFd /\ Hold(e, {})

AnswerInvalid(e, r) ==
    /\ Read(e, r)
    /\ r.op \notin {"CREATE_NODE", "DESTROY_NODE"}
    /\ r.op = "RENDER_BLUR" => input_fd' = NoFd
    /\ Reject(e.fd)
    /\ output_fd' = NoFd
    /\ Hold(e, {})

Answer(e, r) ==
    /\ AnswerCreate(e, r) \/ AnswerDestroy(e, r) \/ AnswerRender(e, r) \/ AnswerInvalid(e, r)
    /\ pc' = "send"
    /\ UNCHANGED <<backlog, dead, toClient, peer, watched>>

(* The node_id is filled in for a creation only.  The op is not on the wire:
   it stands for the request that was in progress. *)
Response == [op |-> last.op,
             node_id |-> IF last.op \in {"DESTROY_NODE", "RENDER_BLUR"} THEN 0 ELSE last.node_id,
             status |-> last.status]

(* The descriptors closed once the response is out (the mutant forgets the
   buffer that came in). *)
OutputOnly == {output_fd}
Released == {input_fd, output_fd}

(* sendmsg() waits while the client leaves SockBuf responses unread, and
   fails when the client is gone (the mutant does not wait).  That it may also
   fail for want of memory, and a client that is there go without its answer, is
   left out. *)
DeliverOrDrop(c) ==
    IF client[c] = "closed" \/ Len(toClient[c]) >= SockBuf
    THEN UNCHANGED toClient
    ELSE toClient' = [toClient EXCEPT ![c] = Append(@, Response)]

Deliver(c) ==
    IF client[c] = "closed"
    THEN UNCHANGED toClient
    ELSE Len(toClient[c]) < SockBuf /\ toClient' = [toClient EXCEPT ![c] = Append(@, Response)]

SendResponse ==
    /\ pc = "send"
    /\ Deliver(peer[last.fd])
    /\ dmabufs' = dmabufs \ Released
    /\ input_fd' = NoFd /\ output_fd' = NoFd
    /\ UNCHANGED strays
    /\ Proceed(batch)
    /\ Return
    /\ UNCHANGED <<clientVars, backlog, dead, toDaemon, peer, watched, batch, running>>

DispatchAccept ==
    /\ \E e \in batch : AcceptFails(e) \/ AcceptAndClose(e) \/ AcceptConnection(e)
    /\ UNCHANGED <<clientVars, bufferVars, running>>

DispatchHangUp ==
    /\ \E e \in batch : HangUp(e)
    /\ UNCHANGED <<clientVars, bufferVars, running>>

DispatchData ==
    /\ \E e \in batch : Ignore(e) \/ \E r \in Requests : Answer(e, r)
    /\ UNCHANGED <<clientVars, running>>

DaemonStep ==
    \/ Enter
    \/ EpollWait
    \/ TimeOut
    \/ Stop
    \/ DispatchAccept
    \/ DispatchHangUp
    \/ DispatchData
    \/ SendResponse

DaemonNext == ClientStep \/ DaemonStep \/ Signal

DaemonSpec == DaemonInit /\ [][DaemonNext]_dvars

(* What the scheduling and the clients guarantee in the liveness properties:
   the daemon runs whenever a system call of it can return, and a client
   reads the responses it has been sent. *)
Reads(c) == Receive(c) /\ UNCHANGED <<tableVars, daemonVars>>

FairSpec == DaemonSpec /\ WF_dvars(DaemonStep) /\ \A c \in Conns : WF_dvars(Reads(c))

-----------------------------------------------------------------------------
(* Safety. *)

(* The connection table, the epoll set and the kernel's sockets name the same
   connections at all times, through every hang-up, refusal and reuse of a
   descriptor or slot; of the slots this is so until the client counter comes
   round (main.c:36-62 and 122-127, client.c:58-74). *)
TablesMatchSockets ==
    /\ watched = open
    /\ open = {f \in Fds : peer[f] # NoConn}
    /\ ClientsNumbered => open = {clients[s].fd : s \in ActiveSlots}
    /\ \A f, g \in open : peer[f] = peer[g] => f = g

(* An event still means what it meant when epoll_wait() returned it: its
   descriptor has not been closed and reused by an earlier event of the batch,
   so neither accept() nor recvmsg() can block the loop (main.c:114-133). *)
EventsCurrent ==
    \A e \in batch :
        IF e.kind = "accept" THEN backlog # << >>
        ELSE /\ e.fd \in watched
             /\ peer[e.fd] = e.conn
             /\ e.kind = "hup" => client[e.conn] = "closed"
             /\ e.kind = "in" => toDaemon[e.conn] # << >> \/ client[e.conn] \in {"half", "closed"}

(* Whichever way a request ends, the buffer it brought and the one sent with its
   answer are closed again (ipc_protocol.c:211, 221, 231, 272-277).  What stays is
   what the program never learns of or forgets: the second descriptor of a message
   (ipc.c:42-49), and the planes of an export beyond the first
   (ipc_protocol.c:163). *)
OnlyStraysStay == pc # "send" => dmabufs = strays

(* The connections of clients that are there and follow the protocol. *)
Sound == {c \in Conns \ dead : client[c] \in {"up", "half"} /\ clean[c]}

(* A connection whose slot owns the node its identifier finds. *)
Holds(c, id) ==
    \E s \in ActiveSlots : peer[clients[s].fd] = c /\ Owns(clients[s].client_id, id)

(* A client that follows the protocol keeps every node it has been given and
   has not asked to destroy, whatever the other clients send, whoever
   disconnects, and however slots and descriptors are reused, until a counter
   comes round. *)
HandlesValid ==
    ClientsNumbered /\ NodesNumbered =>
        \A c \in Sound : \A id \in told[c] \ dropped[c] : Holds(c, id)

(* The answers a client has not read: those in the socket, and the one in
   progress. *)
Answers(c) ==
    IF pc = "send" /\ peer[last.fd] = c THEN Append(toClient[c], Response) ELSE toClient[c]

(* The requests a client awaits an answer to are, in order, those that have
   been answered and those not yet read: none is lost, answered twice or
   overtaken, so that the client's pairing is right. *)
AnswersInOrder ==
    \A c \in Sound :
        LET n == Len(Answers(c))
        IN  /\ Len(toDaemon[c]) = 2 * (Len(asked[c]) - n)
            /\ \A i \in 1 .. n : Answers(c)[i].op \in {asked[c][i].op, "INVALID"}
            /\ \A i \in n + 1 .. Len(asked[c]), part \in Parts :
                 toDaemon[c][2 * (i - n) - 2 + part] = [req |-> asked[c][i], part |-> part]

-----------------------------------------------------------------------------
(* Liveness, under FairSpec. *)

(* Every request is answered, unless its client leaves, the daemon turns the
   connection away, or the daemon is told to stop. *)
EveryRequestAnswered ==
    \A c \in Conns : \A k \in 1 .. MaxSends :
        (sent[c] >= k) ~>
            (sent[c] - Len(asked[c]) >= k \/ client[c] = "closed" \/ c \in dead \/ ~ running)

(* A client that has gone is forgotten: no queue entry or descriptor of its
   connection stays, and until the client counter comes round every slot in use is
   that of another connection (and with the slot go its nodes).  A connection
   refused because its identifier would be 0 leaves its slot in use for ever
   (main.c:58, client.c:29-30). *)
DisconnectedForgotten ==
    \A c \in Conns :
        (client[c] = "closed") ~>
            \/ ~ running
            \/ /\ c \notin ToSet(backlog)
               /\ \A f \in Fds : peer[f] # c
               /\ ClientsNumbered => \A s \in ActiveSlots : peer[clients[s].fd] \notin {NoConn, c}

(* SIGTERM and SIGINT end the daemon. *)
SignalStops == ~ running ~> pc = "stopped"
=============================================================================
