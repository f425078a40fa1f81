-------------------------- MODULE BlurDaemonProofs --------------------------
(***************************************************************************)
(* Proofs about BlurDaemon, for any descriptors, connections, requests and *)
(* buffer sizes, and whatever the bounds of the model checking are.  They  *)
(* rest on what RegistryProofs and ServiceProofs show of the tables: every *)
(* step of the daemon is a step of Registry, or leaves the tables alone.   *)
(***************************************************************************)
EXTENDS BlurDaemon, ServiceProofs, SequenceTheorems

(* What a response can be while it is made: an answer to a request of an
   open connection. *)
Refuses(response) == response.op = "INVALID" => response.status # "SUCCESS"

Responding ==
    /\ pc = "send" => last.fd \in open /\ Response \in Responses /\ Refuses(Response)
    /\ \A c \in Conns : \A i \in 1 .. Len(toClient[c]) : Refuses(toClient[c][i])

(* No client is sent more answers than it has asked for, whatever it sends:
   two units of its stream are spent on each. *)
Counted ==
    \A c \in Conns :
        client[c] \in {"up", "half"} =>
            2 * Len(Answers(c)) + Len(toDaemon[c]) <= 2 * Len(asked[c])

(* A connection is in one place only: not yet made, in the backlog, behind
   one descriptor, or closed by the daemon. *)
Unused(c) ==
    /\ clean[c] /\ asked[c] = << >>
    /\ toDaemon[c] = << >> /\ toClient[c] = << >>
    /\ told[c] = {} /\ dropped[c] = {}

Waiting(c) == \E i \in 1 .. Len(backlog) : backlog[i] = c

Accepted(c) == \E f \in open : peer[f] = c

Places ==
    /\ watched = open
    /\ open = {f \in Fds : peer[f] # NoConn}
    /\ \A f, g \in open : peer[f] = peer[g] => f = g
    /\ \A i, j \in 1 .. Len(backlog) : backlog[i] = backlog[j] => i = j
    /\ \A c \in Conns : ~ (Waiting(c) /\ Accepted(c))
    /\ \A c \in Conns : client[c] = "idle" => Unused(c) /\ ~ Waiting(c) /\ ~ Accepted(c)
    /\ pc # "stopped" => \A c \in dead : client[c] # "idle" /\ ~ Waiting(c) /\ ~ Accepted(c)

(* One event at most for each descriptor, and one for the listening socket. *)
EventsInv ==
    /\ EventsCurrent
    /\ pc \in {"loop", "wait"} => batch = {}
    /\ \A e \in batch : e.kind = "accept" => e.fd = NoFd /\ e.conn = NoConn
    /\ \A d, e \in batch : d.fd = e.fd => d = e

(* The invariant the other ones are proved from. *)
DaemonInv == DaemonTypeOK /\ TableInv /\ SlotInv /\ Responding /\ Counted /\ Places /\ EventsInv

(* A buffer the process holds is one of the two that SendResponse closes, or a
   stray; it is not both. *)
BuffersInv ==
    /\ input_fd \notin strays /\ output_fd \notin strays
    /\ pc = "send" => dmabufs = ({input_fd, output_fd} \ {NoFd}) \cup strays
    /\ pc # "send" => dmabufs = strays /\ input_fd = NoFd /\ output_fd = NoFd

(* The requests of a client that follows the protocol are whole, and those to
   destroy a node are the ones it counts as dropped. *)
OrderInv ==
    /\ AnswersInOrder
    /\ \A c \in Sound : \A i \in 1 .. Len(asked[c]) :
         /\ asked[c][i].form = "whole"
         /\ asked[c][i].op = "DESTROY_NODE" => asked[c][i].node_id \in dropped[c]

(* A node a client has been given, or is about to be, is its own until it
   asks to destroy it. *)
HandlesInv ==
    ClientsNumbered /\ NodesNumbered =>
        \A c \in Sound :
            /\ \A id \in told[c] \ dropped[c] : Holds(c, id)
            /\ \A i \in 1 .. Len(Answers(c)) :
                 Answers(c)[i].op = "CREATE_NODE" /\ Answers(c)[i].status = "SUCCESS" =>
                     Answers(c)[i].node_id \in dropped[c] \/ Holds(c, Answers(c)[i].node_id)

-----------------------------------------------------------------------------

(* Every step of the daemon is a step of the tables, or leaves them alone. *)
LEMMA TableMoves == TypeOK /\ [DaemonNext]_dvars => [Next]_vars
<1> SUFFICES ASSUME TypeOK, [DaemonNext]_dvars PROVE Next \/ UNCHANGED vars
  OBVIOUS
<1>1. CASE ClientStep \/ Signal \/ EpollWait \/ TimeOut \/ Stop \/ UNCHANGED dvars
  BY <1>1 DEF ClientStep, Signal, EpollWait, TimeOut, Stop, dvars, tableVars
<1>2. CASE Enter \/ SendResponse
  BY <1>2 DEF Enter, SendResponse, Next
<1>3. CASE DispatchAccept
  BY <1>3 DEF DispatchAccept, AcceptFails, AcceptAndClose, AcceptConnection, Next, tableVars
<1>4. CASE DispatchHangUp
  BY <1>4 DEF DispatchHangUp, HangUp, Unregister, Next, TypeOK
<1>5. ASSUME NEW e \in batch, Ignore(e) PROVE UNCHANGED vars
  BY <1>5 DEF Ignore, tableVars
<1>6. ASSUME NEW e \in batch, NEW r \in Requests, Answer(e, r) PROVE Next
  <2>1. r.node_id \in Ids
    BY DaemonAssumption
  <2>2. CASE AnswerCreate(e, r)
    BY <2>2 DEF AnswerCreate, CreateNode, CreateOverLimit, CreateWithoutMemory, Caller, Next, TypeOK
  <2>3. CASE AnswerDestroy(e, r)
    BY <2>1, <2>3 DEF AnswerDestroy, DestroyNode, DestroyInvalid, Caller, Next, TypeOK
  <2>4. CASE AnswerRender(e, r)
    BY <2>1, <2>4 DEF AnswerRender, RenderBlur, Caller, Next, TypeOK
  <2>5. CASE AnswerInvalid(e, r)
    BY <2>5 DEF AnswerInvalid, Reject, Caller, Next, TypeOK
  <2> QED
    BY <1>6, <2>2, <2>3, <2>4, <2>5 DEF Answer
<1>7. CASE DispatchData
  BY <1>5, <1>6, <1>7 DEF DispatchData
<1> QED
  BY <1>1, <1>2, <1>3, <1>4, <1>7 DEF DaemonNext, DaemonStep

(* What an answered request leaves behind, whichever of the four answers it
   is given: the response names the connection it came from, and the tables
   of connections are not touched. *)
LEMMA Answering ==
    ASSUME DaemonTypeOK, TableInv, NEW e \in batch, NEW r \in Requests, Answer(e, r)
    PROVE  /\ pc = "dispatch" /\ pc' = "send"
           /\ e.kind = "in" /\ e.fd \in open /\ batch' = batch \ {e}
           /\ r \in Decoded(Stream(e)) /\ r.form = "whole" /\ Len(Stream(e)) >= 2
           /\ last'.fd = e.fd
           /\ Response' \in Responses
           /\ Response'.op \in {r.op, "INVALID"}
           /\ Refuses(Response')
           /\ ReadUnits(e)
           /\ UNCHANGED <<clients, next_client, open, backlog, dead, toClient, peer, watched>>
<1>1. Read(e, r) /\ pc' = "send" /\ UNCHANGED <<backlog, dead, toClient, peer, watched>>
  BY DEF Answer, AnswerCreate, AnswerDestroy, AnswerRender, AnswerInvalid
<1>2. 0 \in Ids
  BY RegistryAssumption DEF Ids
<1> DEFINE Statuses == {"SUCCESS", "INVALID_NODE", "INVALID_PARAMS", "RENDER_FAILED", "OUT_OF_MEMORY"}
           Kept == e.fd \in open /\ UNCHANGED <<clients, next_client, open>>
           Outcome ==
             /\ last'.op \in {r.op, "INVALID"}
             /\ last'.op \in {"CREATE_NODE", "DESTROY_NODE", "RENDER_BLUR", "INVALID"}
             /\ last'.fd = e.fd
             /\ last'.node_id \in Ids
             /\ last'.status \in Statuses
             /\ last'.op = "INVALID" => last'.status # "SUCCESS"
<1>3. ASSUME AnswerCreate(e, r) PROVE Outcome /\ Kept
  <2>1. Id(next_node) \in Ids
    BY IdRange DEF DaemonTypeOK, TypeOK
  <2>2. last' \in [op : {r.op}, fd : {e.fd}, node_id : Ids, status : Statuses] /\ r.op = "CREATE_NODE"
    BY <1>2, <1>3, <2>1
       DEF AnswerCreate, CreateNode, CreateOverLimit, CreateWithoutMemory, Told
  <2>3. Kept
    BY <1>3 DEF AnswerCreate, CreateNode, CreateOverLimit, CreateWithoutMemory, Caller
  <2> QED
    BY <2>2, <2>3
<1>4. ASSUME AnswerDestroy(e, r) PROVE Outcome /\ Kept
  <2>1. r.node_id \in Ids
    BY DaemonAssumption
  <2>2. last' \in [op : {r.op}, fd : {e.fd}, node_id : Ids, status : Statuses] /\ r.op = "DESTROY_NODE"
    BY <1>4, <2>1 DEF AnswerDestroy, DestroyNode, DestroyInvalid, Told
  <2>3. Kept
    BY <1>4 DEF AnswerDestroy, DestroyNode, DestroyInvalid, Caller
  <2> QED
    BY <2>2, <2>3
<1>5. ASSUME AnswerRender(e, r) PROVE Outcome /\ Kept
  <2>1. r.node_id \in Ids
    BY DaemonAssumption
  <2>2. last' \in [op : {r.op}, fd : {e.fd}, node_id : Ids, status : Statuses] /\ r.op = "RENDER_BLUR"
    BY <1>5, <2>1 DEF AnswerRender, RenderBlur, Told
  <2>3. Kept
    BY <1>5 DEF AnswerRender, RenderBlur, Caller
  <2> QED
    BY <2>2, <2>3
<1>6. ASSUME AnswerInvalid(e, r) PROVE Outcome /\ Kept
  <2>1. last' \in [op : {"INVALID"}, fd : {e.fd}, node_id : Ids, status : Statuses \ {"SUCCESS"}]
    BY <1>6 DEF AnswerInvalid, Reject, Told
  <2>2. Kept
    BY <1>6 DEF AnswerInvalid, Reject, Caller
  <2> QED
    BY <2>1, <2>2
<1>7. Outcome /\ Kept
  BY <1>3, <1>4, <1>5, <1>6 DEF Answer
<1>8. /\ Response' = [op |-> Response'.op, node_id |-> Response'.node_id, status |-> Response'.status]
      /\ Response'.op = last'.op
      /\ Response'.node_id \in {0, last'.node_id}
      /\ Response'.status = last'.status
  BY DEF Response
<1>9. Response' \in Responses
  BY <1>2, <1>7, <1>8 DEF Responses
<1>10. Response'.op \in {r.op, "INVALID"}
  BY <1>7, <1>8
<1>11. Refuses(Response')
  BY <1>7, <1>8 DEF Refuses
<1>12. /\ pc = "dispatch" /\ e.kind = "in" /\ batch' = batch \ {e}
       /\ r \in Decoded(Stream(e)) /\ r.form = "whole" /\ Len(Stream(e)) >= 2
       /\ ReadUnits(e)
  BY <1>1 DEF Read, Handled
<1> QED
  BY <1>1, <1>7, <1>9, <1>10, <1>11, <1>12

(* A connection taken from the backlog goes to a descriptor that was free, and
   the queue was not empty. *)
LEMMA Accepting ==
    ASSUME DaemonTypeOK, EventsInv, NEW e \in batch, AcceptConnection(e)
    PROVE  /\ pc = "dispatch" /\ e.kind = "accept" /\ batch' = batch \ {e}
           /\ backlog # << >> /\ backlog' = Tail(backlog) /\ Head(backlog) \in Conns
           /\ \E fd \in Fds \ open :
                /\ open' = open \cup {fd} /\ watched' = watched \cup {fd}
                /\ peer' = [peer EXCEPT ![fd] = Head(backlog)]
           /\ UNCHANGED <<nodes, next_node, dead, toDaemon, toClient>>
<1>1. pc = "dispatch" /\ e.kind = "accept" /\ batch' = batch \ {e}
  BY DEF AcceptConnection, Handled
<1>2. backlog # << >>
  BY <1>1 DEF EventsInv, EventsCurrent
<1>3. Head(backlog) \in Conns
  BY <1>2 DEF DaemonTypeOK
<1>4. PICK fd \in Fds :
        /\ Register(fd) /\ last'.status = "SUCCESS"
        /\ peer' = [peer EXCEPT ![fd] = Head(backlog)]
        /\ watched' = watched \cup {fd}
  BY DEF AcceptConnection
<1>5. fd \notin open /\ open' = open \cup {fd} /\ UNCHANGED <<nodes, next_node>>
  BY <1>4 DEF Register, Told
<1>6. backlog' = Tail(backlog) /\ UNCHANGED <<dead, toDaemon, toClient>>
  BY DEF AcceptConnection
<1> QED
  BY <1>1, <1>2, <1>3, <1>4, <1>5, <1>6

(* A connection turned away leaves the backlog for the closed ones. *)
LEMMA TurningAway ==
    ASSUME DaemonTypeOK, EventsInv, NEW e \in batch, AcceptAndClose(e)
    PROVE  /\ pc = "dispatch" /\ e.kind = "accept" /\ batch' = batch \ {e}
           /\ backlog # << >> /\ backlog' = Tail(backlog) /\ Head(backlog) \in Conns
           /\ dead' = dead \cup {Head(backlog)}
           /\ toDaemon' = [toDaemon EXCEPT ![Head(backlog)] = << >>]
           /\ UNCHANGED <<nodes, next_node, open, toClient, peer, watched>>
<1>1. pc = "dispatch" /\ e.kind = "accept" /\ batch' = batch \ {e}
  BY DEF AcceptAndClose, Handled
<1>2. backlog # << >>
  BY <1>1 DEF EventsInv, EventsCurrent
<1>3. Head(backlog) \in Conns
  BY <1>2 DEF DaemonTypeOK
<1>4. UNCHANGED <<nodes, next_node, open>>
  <2>1. PICK fd \in Fds :
          \/ UNCHANGED tableVars
          \/ RegisterRefused(fd)
          \/ Register(fd) /\ last'.status = "REFUSED"
    BY DEF AcceptAndClose
  <2> QED
    BY <2>1 DEF tableVars, vars, RegisterRefused, Register, Told
<1> QED
  BY <1>1, <1>2, <1>3, <1>4 DEF AcceptAndClose

(* A hang-up closes the descriptor and the connection behind it. *)
LEMMA HangingUp ==
    ASSUME DaemonTypeOK, Places, EventsInv, NEW e \in batch, HangUp(e)
    PROVE  /\ pc = "dispatch" /\ e.kind = "hup" /\ batch' = batch \ {e}
           /\ e.fd \in open /\ peer[e.fd] \in Conns /\ client[peer[e.fd]] = "closed"
           /\ open' = open \ {e.fd} /\ watched' = watched \ {e.fd}
           /\ peer' = [peer EXCEPT ![e.fd] = NoConn]
           /\ dead' = dead \cup {peer[e.fd]}
           /\ toDaemon' = [toDaemon EXCEPT ![peer[e.fd]] = << >>]
           /\ UNCHANGED <<backlog, toClient>>
<1>1. pc = "dispatch" /\ e.kind = "hup" /\ batch' = batch \ {e}
  BY DEF HangUp, Handled
<1>2. e.fd \in open /\ open' = open \ {e.fd}
  BY DEF HangUp, Unregister, Closed
<1>3. peer[e.fd] \in Conns
  BY <1>2 DEF Places, DaemonTypeOK
<1>4. client[peer[e.fd]] = "closed"
  BY <1>1 DEF EventsInv, EventsCurrent
<1> QED
  BY <1>1, <1>2, <1>3, <1>4 DEF HangUp

(* Data is read from an open descriptor. *)
LEMMA Ignoring ==
    ASSUME DaemonTypeOK, Places, EventsInv, NEW e \in batch, Ignore(e)
    PROVE  /\ pc = "dispatch" /\ e.kind = "in" /\ batch' = batch \ {e}
           /\ e.fd \in open /\ peer[e.fd] \in Conns
           /\ ReadUnits(e)
           /\ UNCHANGED <<tableVars, backlog, dead, toClient, peer, watched>>
<1>1. pc = "dispatch" /\ e.kind = "in" /\ batch' = batch \ {e}
  BY DEF Ignore, Handled
<1>2. e.fd \in open /\ peer[e.fd] \in Conns
  BY <1>1 DEF EventsInv, EventsCurrent, Places, DaemonTypeOK
<1> QED
  BY <1>1, <1>2 DEF Ignore

(* What is left of a stream when two units have been read. *)
LEMMA TwoUnitsRead ==
    ASSUME NEW S, NEW q \in Seq(S)
    PROVE  /\ SubSeq(q, 3, Len(q)) \in Seq(S)
           /\ Len(q) >= 2 => Len(SubSeq(q, 3, Len(q))) = Len(q) - 2
           /\ Len(q) < 2 => SubSeq(q, 3, Len(q)) = << >>
           /\ \A i \in 1 .. Len(q) - 2 : SubSeq(q, 3, Len(q))[i] = q[i + 2]
<1>0. Len(q) \in Nat
  OBVIOUS
<1>1. \A i \in 3 .. Len(q) : q[i] \in S
  OBVIOUS
<1>2. /\ SubSeq(q, 3, Len(q)) \in Seq(S)
      /\ Len(SubSeq(q, 3, Len(q))) = IF 3 <= Len(q) THEN Len(q) - 3 + 1 ELSE 0
      /\ \A i \in 1 .. Len(q) - 3 + 1 : SubSeq(q, 3, Len(q))[i] = q[3 + i - 1]
  BY <1>0, <1>1, SubSeqProperties
<1>3. Len(q) < 2 => SubSeq(q, 3, Len(q)) = << >>
  BY <1>0, <1>1, SubSeqEmpty
<1>4. ASSUME Len(q) >= 2 PROVE Len(SubSeq(q, 3, Len(q))) = Len(q) - 2
  <2>1. ASSUME Len(q) = 2 PROVE Len(SubSeq(q, 3, Len(q))) = 0
    BY <1>2, <2>1
  <2>2. ASSUME Len(q) >= 3 PROVE Len(SubSeq(q, 3, Len(q))) = Len(q) - 2
    BY <1>0, <1>2, <2>2
  <2>3. Len(q) = 2 \/ Len(q) >= 3
    <3>1. \A n \in Nat : n >= 2 => n = 2 \/ n >= 3
      OBVIOUS
    <3> QED
      BY <1>0, <1>4, <3>1
  <2> QED
    BY <2>1, <2>2, <2>3
<1>5. \A i \in 1 .. Len(q) - 2 : i \in 1 .. Len(q) - 3 + 1 /\ 3 + i - 1 = i + 2
  BY <1>0
<1> QED
  BY <1>2, <1>3, <1>4, <1>5

(* A request is one or two units. *)
LEMMA UnitsOfARequest ==
    ASSUME NEW r \in Requests
    PROVE  /\ UnitsOf(r) \in Seq(Units)
           /\ Len(UnitsOf(r)) \in 1 .. 2
           /\ r.form # "short" => UnitsOf(r) = << [req |-> r, part |-> 1], [req |-> r, part |-> 2] >>
<1>1. [req |-> r, part |-> 1] \in Units /\ [req |-> r, part |-> 2] \in Units
  BY DEF Units, Parts
<1>2. CASE r.form = "short"
  BY <1>1, <1>2 DEF UnitsOf
<1>3. CASE r.form # "short"
  <2>1. UnitsOf(r) = << [req |-> r, part |-> 1], [req |-> r, part |-> 2] >>
    BY <1>3 DEF UnitsOf
  <2> QED
    BY <1>1, <1>3, <2>1
<1> QED
  BY <1>2, <1>3

(* Every step keeps the types. *)
LEMMA TypeStep == DaemonInv /\ [DaemonNext]_dvars => DaemonTypeOK'
<1> SUFFICES ASSUME DaemonInv, [DaemonNext]_dvars PROVE DaemonTypeOK'
  OBVIOUS
<1>0. TypeOK'
  BY TableMoves, TableStep DEF DaemonInv, TableInv
<1> USE DEF DaemonInv
<1>1. ASSUME NEW c \in Conns, Connect(c), UNCHANGED daemonVars PROVE DaemonTypeOK'
  BY <1>0, <1>1 DEF Connect, DaemonTypeOK, daemonVars
<1>2. ASSUME NEW c \in Conns, NEW r \in Requests, Send(c, r), UNCHANGED daemonVars PROVE DaemonTypeOK'
  <2>1. UnitsOf(r) \in Seq(Units) /\ r.node_id \in Ids
    BY UnitsOfARequest, DaemonAssumption
  <2>2. toDaemon' \in [Conns -> Seq(Units)]
    BY <1>2, <2>1 DEF Send, DaemonTypeOK
  <2>3. asked' \in [Conns -> Seq(Requests)] /\ sent' \in [Conns -> Nat]
    BY <1>2 DEF Send, DaemonTypeOK
  <2>4. dropped' \in [Conns -> SUBSET Ids] /\ clean' \in [Conns -> BOOLEAN]
    BY <1>2, <2>1 DEF Send, DaemonTypeOK
  <2> QED
    BY <1>0, <1>2, <2>2, <2>3, <2>4 DEF Send, DaemonTypeOK, daemonVars
<1>3. ASSUME NEW c \in Conns, Receive(c), UNCHANGED daemonVars PROVE DaemonTypeOK'
  <2>1. Len(asked[c]) >= 1 /\ asked[c] # << >>
    <3>1. Len(Answers(c)) >= 1 /\ Len(Answers(c)) \in Nat
      BY <1>3 DEF Receive, Answers, DaemonTypeOK, Responding
    <3>2. 2 * Len(Answers(c)) + Len(toDaemon[c]) <= 2 * Len(asked[c])
      BY <1>3 DEF Receive, Counted
    <3> QED
      BY <3>1, <3>2 DEF DaemonTypeOK
  <2>2. asked' \in [Conns -> Seq(Requests)]
    BY <1>3, <2>1 DEF Receive, DaemonTypeOK
  <2>3. toClient' \in [Conns -> Seq(Responses)]
    BY <1>3 DEF Receive, DaemonTypeOK
  <2>4. Head(toClient[c]).node_id \in Ids
    <3>1. Head(toClient[c]) \in Responses
      BY <1>3 DEF Receive, DaemonTypeOK
    <3> QED
      BY <3>1 DEF Responses
  <2>5. told' \in [Conns -> SUBSET Ids]
    BY <1>3, <2>4 DEF Receive, DaemonTypeOK
  <2> QED
    BY <1>0, <1>3, <2>2, <2>3, <2>5 DEF Receive, DaemonTypeOK, daemonVars
<1>4. ASSUME NEW c \in Conns, HalfClose(c), UNCHANGED daemonVars PROVE DaemonTypeOK'
  BY <1>0, <1>4 DEF HalfClose, DaemonTypeOK, daemonVars, kernelVars
<1>5. ASSUME NEW c \in Conns, Close(c), UNCHANGED daemonVars PROVE DaemonTypeOK'
  BY <1>0, <1>5 DEF Close, DaemonTypeOK, daemonVars
<1>6. CASE EpollWait
  <2>1. Ready \subseteq Events
    <3>1. \A f \in watched : f \in Fds /\ peer[f] \in Conns
      BY DEF Places, DaemonTypeOK
    <3> QED
      BY <3>1 DEF Ready, Events, Reported
  <2> QED
    BY <1>0, <1>6, <2>1 DEF EpollWait, DaemonTypeOK, clientVars, kernelVars, bufferVars
<1>7. CASE Enter \/ TimeOut \/ Stop
  BY <1>0, <1>7 DEF Enter, TimeOut, Stop, kernelVars, DaemonTypeOK, clientVars, bufferVars
<1>8. CASE Signal
  BY <1>0, <1>8 DEF Signal, DaemonTypeOK, clientVars, kernelVars, bufferVars
<1>9. ASSUME NEW e \in batch, AcceptFails(e), UNCHANGED <<clientVars, bufferVars, running>>
      PROVE  DaemonTypeOK'
  BY <1>0, <1>9 DEF AcceptFails, Handled, Proceed, DaemonTypeOK, clientVars, kernelVars, bufferVars
<1>10. ASSUME NEW e \in batch, AcceptAndClose(e), UNCHANGED <<clientVars, bufferVars, running>>
       PROVE  DaemonTypeOK'
  <2>1. pc' \in {"loop", "dispatch"}
    BY <1>10 DEF AcceptAndClose, Proceed
  <2>2. backlog' \in Seq(Conns) /\ toDaemon' \in [Conns -> Seq(Units)]
    <3>1. /\ backlog # << >> /\ backlog' = Tail(backlog)
          /\ toDaemon' = [toDaemon EXCEPT ![Head(backlog)] = << >>]
      BY <1>10, TurningAway
    <3> QED
      BY <3>1, HeadTailProperties DEF DaemonTypeOK
  <2> QED
    BY <1>0, <1>10, <2>1, <2>2, TurningAway DEF DaemonTypeOK, clientVars, bufferVars
<1>11. ASSUME NEW e \in batch, AcceptConnection(e), UNCHANGED <<clientVars, bufferVars, running>>
       PROVE  DaemonTypeOK'
  <2>1. pc' \in {"loop", "dispatch"}
    BY <1>11 DEF AcceptConnection, Proceed
  <2>2. backlog' \in Seq(Conns)
    <3>1. backlog # << >> /\ backlog' = Tail(backlog)
      BY <1>11, Accepting
    <3> QED
      BY <3>1, HeadTailProperties DEF DaemonTypeOK
  <2>3. watched' \subseteq Fds /\ peer' \in [Fds -> Conns \cup {NoConn}]
    <3>1. \E fd \in Fds \ open :
            watched' = watched \cup {fd} /\ peer' = [peer EXCEPT ![fd] = Head(backlog)]
      BY <1>11, Accepting
    <3>2. Head(backlog) \in Conns
      BY <1>11, Accepting
    <3> QED
      BY <3>1, <3>2 DEF DaemonTypeOK
  <2>4. batch' \subseteq Events /\ UNCHANGED <<dead, toDaemon, toClient>>
    <3>1. batch' = batch \ {e} /\ UNCHANGED <<dead, toDaemon, toClient>>
      BY <1>11, Accepting
    <3> QED
      BY <3>1 DEF DaemonTypeOK
  <2> QED
    BY <1>0, <1>11, <2>1, <2>2, <2>3, <2>4 DEF DaemonTypeOK, clientVars, bufferVars
<1>12. ASSUME NEW e \in batch, HangUp(e), UNCHANGED <<clientVars, bufferVars, running>>
       PROVE  DaemonTypeOK'
  <2>1. pc' \in {"loop", "dispatch"}
    BY <1>12 DEF HangUp, Proceed
  <2>2. /\ watched' \subseteq Fds /\ peer' \in [Fds -> Conns \cup {NoConn}]
        /\ toDaemon' \in [Conns -> Seq(Units)] /\ dead' \subseteq Conns
    <3>1. /\ peer[e.fd] \in Conns
          /\ watched' = watched \ {e.fd} /\ peer' = [peer EXCEPT ![e.fd] = NoConn]
          /\ dead' = dead \cup {peer[e.fd]}
          /\ toDaemon' = [toDaemon EXCEPT ![peer[e.fd]] = << >>]
      BY <1>12, HangingUp
    <3>2. peer' \in [Fds -> Conns \cup {NoConn}]
      BY <3>1 DEF DaemonTypeOK
    <3>3. toDaemon' \in [Conns -> Seq(Units)]
      BY <3>1 DEF DaemonTypeOK
    <3>4. watched' \subseteq Fds /\ dead' \subseteq Conns
      BY <3>1 DEF DaemonTypeOK
    <3> QED
      BY <3>2, <3>3, <3>4
  <2>3. batch' \subseteq Events /\ UNCHANGED <<backlog, toClient>>
    <3>1. batch' = batch \ {e} /\ UNCHANGED <<backlog, toClient>>
      BY <1>12, HangingUp
    <3> QED
      BY <3>1 DEF DaemonTypeOK
  <2> QED
    BY <1>0, <1>12, <2>1, <2>2, <2>3 DEF DaemonTypeOK, clientVars, bufferVars
<1>13. ASSUME NEW e \in batch, Ignore(e), UNCHANGED <<clientVars, running>> PROVE DaemonTypeOK'
  <2>1. toDaemon' \in [Conns -> Seq(Units)]
    <3>1. peer[e.fd] \in Conns /\ ReadUnits(e)
      BY <1>13, Ignoring
    <3>2. SubSeq(toDaemon[peer[e.fd]], 3, Len(toDaemon[peer[e.fd]])) \in Seq(Units)
      BY <3>1, TwoUnitsRead DEF DaemonTypeOK
    <3> QED
      BY <3>1, <3>2 DEF ReadUnits, DaemonTypeOK
  <2>2. dmabufs' \subseteq Fds /\ strays' \subseteq Fds
    BY <1>13 DEF Ignore, Installed, Unseen, FreeFds, DaemonTypeOK
  <2> QED
    BY <1>0, <1>13, <2>1, <2>2 DEF Ignore, Handled, Proceed, DaemonTypeOK, clientVars
<1>14. ASSUME NEW e \in batch, NEW r \in Requests, Answer(e, r), UNCHANGED <<clientVars, running>>
       PROVE  DaemonTypeOK'
  <2>1. peer[e.fd] \in Conns
    BY <1>14, Answering DEF Places, DaemonTypeOK
  <2>2. toDaemon' \in [Conns -> Seq(Units)]
    <3>1. ReadUnits(e)
      BY <1>14, Answering
    <3>2. SubSeq(toDaemon[peer[e.fd]], 3, Len(toDaemon[peer[e.fd]])) \in Seq(Units)
      BY <2>1, TwoUnitsRead DEF DaemonTypeOK
    <3> QED
      BY <2>1, <3>1, <3>2 DEF ReadUnits, DaemonTypeOK
  <2>3. /\ input_fd' \in Fds \cup {NoFd} /\ output_fd' \in Fds \cup {NoFd}
        /\ dmabufs' \subseteq Fds /\ strays' \subseteq Fds
    <3>0. Installed(e) \subseteq Fds /\ Unseen(e) \subseteq Installed(e)
      BY DEF Installed, Unseen, FreeFds
    <3>1. input_fd' \in Fds \cup {NoFd}
      BY <1>14, <3>0 DEF Answer, AnswerCreate, AnswerDestroy, AnswerRender, AnswerInvalid, Read, First
    <3>2. CASE output_fd' = NoFd /\ Hold(e, {})
      BY <3>0, <3>1, <3>2 DEF Hold, DaemonTypeOK
    <3>3. CASE \E planes \in SUBSET FreeFds : output_fd' \in planes /\ Hold(e, planes)
      BY <3>0, <3>1, <3>3 DEF Hold, DaemonTypeOK, FreeFds
    <3> QED
      BY <1>14, <3>1, <3>2, <3>3 DEF Answer, AnswerCreate, AnswerDestroy, AnswerRender, AnswerInvalid, First
  <2> QED
    BY <1>0, <1>14, <2>2, <2>3, Answering DEF DaemonTypeOK, clientVars
<1>15. CASE SendResponse
  <2>1. peer[last.fd] \in Conns /\ Response \in Responses
    BY <1>15 DEF SendResponse, Responding, Places, DaemonTypeOK
  <2>2. toClient' \in [Conns -> Seq(Responses)]
    <3>1. toClient[peer[last.fd]] \in Seq(Responses)
      BY <2>1 DEF DaemonTypeOK
    <3>2. Append(toClient[peer[last.fd]], Response) \in Seq(Responses)
      BY <2>1, <3>1, AppendProperties
    <3> QED
      BY <1>15, <2>1, <3>2 DEF SendResponse, Deliver, DaemonTypeOK
  <2> QED
    BY <1>0, <1>15, <2>2 DEF SendResponse, Proceed, DaemonTypeOK, clientVars
<1>16. CASE UNCHANGED dvars
  BY <1>0, <1>16 DEF dvars, DaemonTypeOK, clientVars, kernelVars, daemonVars
<1> QED
  BY <1>1, <1>2, <1>3, <1>4, <1>5, <1>6, <1>7, <1>8, <1>9, <1>10, <1>11, <1>12, <1>13, <1>14, <1>15, <1>16
     DEF DaemonNext, DaemonStep, ClientStep, DispatchAccept, DispatchHangUp, DispatchData

-----------------------------------------------------------------------------

(* The backlog after a connection has come or gone. *)
LEMMA BacklogGrows ==
    ASSUME DaemonTypeOK, NEW c \in Conns, backlog' = Append(backlog, c)
    PROVE  /\ \A d \in Conns : Waiting(d)' <=> Waiting(d) \/ d = c
           /\ (\A i, j \in 1 .. Len(backlog) : backlog[i] = backlog[j] => i = j) /\ ~ Waiting(c)
                => \A i, j \in 1 .. Len(backlog') : backlog'[i] = backlog'[j] => i = j
<1>1. /\ Len(backlog) \in Nat /\ Len(backlog') = Len(backlog) + 1
      /\ \A i \in 1 .. Len(backlog) : backlog'[i] = backlog[i]
      /\ backlog'[Len(backlog) + 1] = c
  BY AppendProperties DEF DaemonTypeOK
<1>2. \A i : i \in 1 .. Len(backlog') <=> i \in 1 .. Len(backlog) \/ i = Len(backlog) + 1
  BY <1>1
<1>3. \A d \in Conns : Waiting(d)' <=> Waiting(d) \/ d = c
  BY <1>1, <1>2 DEF Waiting
<1> QED
  BY <1>1, <1>2, <1>3 DEF Waiting

LEMMA BacklogShrinks ==
    ASSUME DaemonTypeOK, backlog # << >>, backlog' = Tail(backlog),
           \A i, j \in 1 .. Len(backlog) : backlog[i] = backlog[j] => i = j
    PROVE  /\ Waiting(Head(backlog))
           /\ \A d \in Conns : Waiting(d)' <=> Waiting(d) /\ d # Head(backlog)
           /\ \A i, j \in 1 .. Len(backlog') : backlog'[i] = backlog'[j] => i = j
<1>0. backlog \in Seq(Conns)
  BY DEF DaemonTypeOK
<1>1. /\ Len(backlog) \in Nat \ {0} /\ Len(backlog') = Len(backlog) - 1
      /\ \A i \in 1 .. Len(backlog') : backlog'[i] = backlog[i + 1]
  BY <1>0, HeadTailProperties, EmptySeq
<1>2. Head(backlog) = backlog[1]
  BY <1>0
<1>3. \A i \in 1 .. Len(backlog') : i + 1 \in 1 .. Len(backlog) /\ i + 1 # 1
  BY <1>1
<1>4. \A i \in 1 .. Len(backlog) : i = 1 \/ (i - 1 \in 1 .. Len(backlog') /\ (i - 1) + 1 = i)
  BY <1>1
<1>5. 1 \in 1 .. Len(backlog)
  BY <1>1
<1>6. \A d \in Conns : Waiting(d)' => d # Head(backlog)
  BY <1>1, <1>2, <1>3, <1>5 DEF Waiting
<1>7. Waiting(Head(backlog))
  BY <1>2, <1>5 DEF Waiting
<1>8. \A d \in Conns : Waiting(d)' => Waiting(d)
  BY <1>1, <1>3 DEF Waiting
<1>9. \A d \in Conns : Waiting(d) /\ d # Head(backlog) => Waiting(d)'
  BY <1>1, <1>2, <1>4 DEF Waiting
<1>10. \A i, j \in 1 .. Len(backlog') : backlog'[i] = backlog'[j] => i = j
  <2> SUFFICES ASSUME NEW i \in 1 .. Len(backlog'), NEW j \in 1 .. Len(backlog'),
                      backlog'[i] = backlog'[j]
               PROVE  i = j
    OBVIOUS
  <2>1. i + 1 = j + 1
    BY <1>1, <1>3
  <2> QED
    BY <2>1
<1> QED
  BY <1>6, <1>7, <1>8, <1>9, <1>10

(* Every step leaves each connection in one place. *)
LEMMA PlacesStep == DaemonInv /\ [DaemonNext]_dvars => Places'
<1> SUFFICES ASSUME DaemonInv, [DaemonNext]_dvars PROVE Places'
  OBVIOUS
<1> USE DEF DaemonInv
<1>0. NoConn \notin Conns /\ NoFd \notin Fds
  BY DaemonAssumption, RegistryAssumption DEF NoFd
<1>1. ASSUME NEW c \in Conns, Connect(c), pc # "stopped", UNCHANGED <<tableVars, daemonVars>> PROVE Places'
  <2>1. /\ client[c] = "idle" /\ client' = [client EXCEPT ![c] = "up"]
        /\ backlog' = Append(backlog, c)
        /\ UNCHANGED <<clean, asked, told, dropped, dead, toDaemon, toClient, peer, open, watched, pc>>
    BY <1>1 DEF Connect, tableVars, vars, daemonVars
  <2>2. \A d \in Conns : Waiting(d)' <=> Waiting(d) \/ d = c
    BY <2>1, BacklogGrows
  <2>3. \A i, j \in 1 .. Len(backlog') : backlog'[i] = backlog'[j] => i = j
    BY <2>1, BacklogGrows DEF Places
  <2>4. \A d \in Conns : (Accepted(d)' <=> Accepted(d)) /\ (Unused(d)' <=> Unused(d))
    BY <2>1 DEF Accepted, Unused
  <2>5. /\ \A d \in Conns \ {c} : client'[d] = client[d]
        /\ client'[c] = "up" /\ dead \subseteq Conns
    BY <2>1 DEF DaemonTypeOK
  <2> QED
    BY <1>1, <2>1, <2>2, <2>3, <2>4, <2>5 DEF Places
<1>2. ASSUME NEW c \in Conns, client[c] # "idle", client'[c] # "idle",
             \A d \in Conns \ {c} : client'[d] = client[d] /\ (Unused(d) => Unused(d)'),
             UNCHANGED <<backlog, dead, peer, open, watched, pc>>
      PROVE  Places'
  <2>1. \A d \in Conns : (Accepted(d)' <=> Accepted(d)) /\ (Waiting(d)' <=> Waiting(d))
    BY <1>2 DEF Accepted, Waiting
  <2> QED
    BY <1>2, <2>1 DEF Places, DaemonTypeOK
<1>3. ASSUME NEW c \in Conns, UNCHANGED <<tableVars, daemonVars>>,
             (\E r \in Requests : Send(c, r)) \/ Receive(c) \/ HalfClose(c) \/ Close(c)
      PROVE  Places'
  <2>1. client[c] # "idle" /\ client'[c] # "idle" /\ UNCHANGED <<backlog, dead, peer, open, watched, pc>>
    BY <1>3 DEF DaemonTypeOK, Send, Receive, HalfClose, Close, kernelVars, tableVars, vars, daemonVars
  <2>2. ASSUME NEW d \in Conns \ {c} PROVE client'[d] = client[d] /\ (Unused(d) => Unused(d)')
    BY <1>3, <2>2 DEF DaemonTypeOK, Send, Receive, HalfClose, Close, Unused, kernelVars
  <2> QED
    BY <1>2, <2>1, <2>2
<1>4. ASSUME NEW e \in batch, AcceptAndClose(e), UNCHANGED <<clientVars, bufferVars, running>> PROVE Places'
  <2>1. /\ backlog # << >> /\ backlog' = Tail(backlog) /\ Head(backlog) \in Conns
        /\ dead' = dead \cup {Head(backlog)}
        /\ toDaemon' = [toDaemon EXCEPT ![Head(backlog)] = << >>]
        /\ UNCHANGED <<open, toClient, peer, watched>>
    BY <1>4, TurningAway
  <2>2. /\ Waiting(Head(backlog))
        /\ \A d \in Conns : Waiting(d)' <=> Waiting(d) /\ d # Head(backlog)
        /\ \A i, j \in 1 .. Len(backlog') : backlog'[i] = backlog'[j] => i = j
    BY <2>1, BacklogShrinks DEF Places
  <2>3. \A d \in Conns : Accepted(d)' <=> Accepted(d)
    BY <2>1 DEF Accepted
  <2>4. \A d \in Conns : Unused(d) => Unused(d)'
    BY <1>4, <2>1 DEF Unused, clientVars, DaemonTypeOK
  <2>5. pc # "stopped" /\ dead \subseteq Conns
    BY <1>4, TurningAway DEF DaemonTypeOK
  <2> QED
    BY <1>4, <2>1, <2>2, <2>3, <2>4, <2>5 DEF Places, clientVars
<1>5. ASSUME NEW e \in batch, AcceptConnection(e), UNCHANGED <<clientVars, bufferVars, running>> PROVE Places'
  <2>1. /\ backlog # << >> /\ backlog' = Tail(backlog) /\ Head(backlog) \in Conns
        /\ UNCHANGED <<dead, toDaemon, toClient>>
    BY <1>5, Accepting
  <2>2. PICK fd \in Fds \ open :
          /\ open' = open \cup {fd} /\ watched' = watched \cup {fd}
          /\ peer' = [peer EXCEPT ![fd] = Head(backlog)]
    BY <1>5, Accepting
  <2>3. /\ Waiting(Head(backlog))
        /\ \A d \in Conns : Waiting(d)' <=> Waiting(d) /\ d # Head(backlog)
        /\ \A i, j \in 1 .. Len(backlog') : backlog'[i] = backlog'[j] => i = j
    BY <2>1, BacklogShrinks DEF Places
  <2>4. peer'[fd] = Head(backlog) /\ \A f \in Fds \ {fd} : peer'[f] = peer[f]
    BY <2>2 DEF DaemonTypeOK
  <2>5. open \subseteq Fds /\ fd \notin open /\ peer \in [Fds -> Conns \cup {NoConn}]
    BY DEF Places, DaemonTypeOK
  <2>6. \A d \in Conns : Accepted(d)' <=> Accepted(d) \/ d = Head(backlog)
    BY <2>2, <2>4, <2>5 DEF Accepted
  <2>7. open' = {f \in Fds : peer'[f] # NoConn}
    BY <1>0, <2>1, <2>2, <2>4, <2>5 DEF Places
  <2>8. \A f, g \in open' : peer'[f] = peer'[g] => f = g
    <3>1. \A f \in open : peer[f] # Head(backlog)
      BY <2>1, <2>3 DEF Places, Accepted
    <3> QED
      BY <2>2, <2>4, <2>5, <3>1 DEF Places
  <2>9. pc # "stopped" /\ dead \subseteq Conns
    BY <1>5, Accepting DEF DaemonTypeOK
  <2>10. \A d \in Conns : Unused(d) => Unused(d)'
    BY <1>5, <2>1 DEF Unused, clientVars
  <2> QED
    BY <1>5, <2>1, <2>2, <2>3, <2>6, <2>7, <2>8, <2>9, <2>10 DEF Places, clientVars
<1>6. ASSUME NEW e \in batch, HangUp(e), UNCHANGED <<clientVars, bufferVars, running>> PROVE Places'
  <2>1. /\ e.fd \in open /\ peer[e.fd] \in Conns /\ client[peer[e.fd]] = "closed"
        /\ open' = open \ {e.fd} /\ watched' = watched \ {e.fd}
        /\ peer' = [peer EXCEPT ![e.fd] = NoConn]
        /\ dead' = dead \cup {peer[e.fd]}
        /\ toDaemon' = [toDaemon EXCEPT ![peer[e.fd]] = << >>]
        /\ UNCHANGED <<backlog, toClient>>
    BY <1>6, HangingUp
  <2>2. pc # "stopped"
    BY <1>6, HangingUp
  <2>3. open \subseteq Fds /\ peer \in [Fds -> Conns \cup {NoConn}] /\ dead \subseteq Conns
    BY DEF Places, DaemonTypeOK
  <2>4. peer'[e.fd] = NoConn /\ \A f \in Fds \ {e.fd} : peer'[f] = peer[f]
    BY <2>1, <2>3
  <2>5. \A d \in Conns : Accepted(d)' <=> Accepted(d) /\ d # peer[e.fd]
    BY <2>1, <2>3, <2>4 DEF Accepted, Places
  <2>6. \A d \in Conns : Waiting(d)' <=> Waiting(d)
    BY <2>1 DEF Waiting
  <2>7. \A d \in Conns : Unused(d) => Unused(d)'
    BY <1>6, <2>1 DEF Unused, clientVars, DaemonTypeOK
  <2>8. open' = {f \in Fds : peer'[f] # NoConn} /\ \A f, g \in open' : peer'[f] = peer'[g] => f = g
    BY <2>1, <2>3, <2>4 DEF Places
  <2>9. Accepted(peer[e.fd])
    BY <2>1 DEF Accepted
  <2> QED
    BY <1>6, <2>1, <2>2, <2>3, <2>5, <2>6, <2>7, <2>8, <2>9 DEF Places, clientVars
<1>7. ASSUME UNCHANGED <<clientVars, backlog, dead, toClient, peer, open, watched>>,
             pc' # "stopped" => pc # "stopped",
             \A d \in Conns : toDaemon[d] = << >> => toDaemon'[d] = << >>
      PROVE  Places'
  BY <1>7 DEF Places, Waiting, Accepted, Unused, clientVars
<1>8. CASE Enter \/ EpollWait \/ TimeOut \/ Signal \/ UNCHANGED dvars
  BY <1>7, <1>8 DEF Enter, EpollWait, TimeOut, Signal, Return, dvars, clientVars, kernelVars, daemonVars, tableVars, vars
<1>9. CASE Stop
  BY <1>9 DEF Stop, Places, Waiting, Accepted, Unused, clientVars, tableVars, vars
<1>10. ASSUME NEW e \in batch, AcceptFails(e), UNCHANGED <<clientVars, bufferVars, running>> PROVE Places'
  BY <1>7, <1>10 DEF AcceptFails, Handled, kernelVars, tableVars, vars
<1>11. ASSUME NEW e \in batch, e.fd \in open, ReadUnits(e), pc = "dispatch",
              UNCHANGED <<clientVars, backlog, dead, toClient, peer, open, watched>>
       PROVE  Places'
  <2>1. peer[e.fd] \in Conns
    BY <1>11 DEF Places, DaemonTypeOK
  <2>2. client[peer[e.fd]] # "idle"
    BY <1>11, <2>1 DEF Places, Accepted
  <2>3. \A d \in Conns \ {peer[e.fd]} : toDaemon'[d] = toDaemon[d]
    BY <1>11 DEF ReadUnits, DaemonTypeOK
  <2>4. \A d \in Conns : client[d] = "idle" => Unused(d)'
    BY <1>11, <2>2, <2>3 DEF Places, Unused, clientVars
  <2> QED
    BY <1>11, <2>4 DEF Places, Waiting, Accepted, clientVars
<1>12. ASSUME NEW e \in batch, Ignore(e), UNCHANGED <<clientVars, running>> PROVE Places'
  BY <1>11, <1>12, Ignoring DEF tableVars, vars
<1>13. ASSUME NEW e \in batch, NEW r \in Requests, Answer(e, r), UNCHANGED <<clientVars, running>>
       PROVE  Places'
  BY <1>11, <1>13, Answering
<1>14. CASE SendResponse
  <2>1. peer[last.fd] \in Conns /\ client[peer[last.fd]] # "idle"
    BY <1>14 DEF SendResponse, Responding, Places, DaemonTypeOK, Accepted
  <2>2. \A d \in Conns \ {peer[last.fd]} : toClient'[d] = toClient[d]
    BY <1>14 DEF SendResponse, Deliver, DaemonTypeOK
  <2>3. \A d \in Conns : client[d] = "idle" => Unused(d)'
    BY <1>14, <2>1, <2>2 DEF Places, SendResponse, Unused, clientVars
  <2> QED
    BY <1>14, <2>3 DEF SendResponse, Return, Places, Waiting, Accepted, clientVars
<1> QED
  BY <1>1, <1>3, <1>4, <1>5, <1>6, <1>8, <1>9, <1>10, <1>12, <1>13, <1>14
     DEF DaemonNext, DaemonStep, ClientStep, DispatchAccept, DispatchHangUp, DispatchData

-----------------------------------------------------------------------------

(* What an event is about: the listening socket, or an open connection. *)
LEMMA EventsAreOfConnections ==
    ASSUME DaemonInv, NEW e \in batch
    PROVE  /\ e.kind = "accept" => e.fd = NoFd
           /\ e.kind # "accept" => e.fd \in open /\ e.fd \in Fds /\ e.conn = peer[e.fd] /\ e.conn \in Conns
BY DEF DaemonInv, EventsInv, EventsCurrent, Places, DaemonTypeOK

(* An event of which nothing has changed is still current. *)
LEMMA EventsStay ==
    ASSUME DaemonInv,
           batch' \subseteq batch,
           pc' \in {"loop", "wait"} => batch' = {},
           \A e \in batch' : e.kind = "accept" => backlog' # << >>,
           \A e \in batch' : e.kind # "accept" =>
               /\ e.fd \in watched' /\ peer'[e.fd] = peer[e.fd]
               /\ client[e.conn] = "closed" => client'[e.conn] = "closed"
               /\ client[e.conn] = "half" => client'[e.conn] \in {"half", "closed"}
               /\ toDaemon[e.conn] # << >> => toDaemon'[e.conn] # << >>
    PROVE  EventsInv'
<1>1. EventsCurrent'
  <2> SUFFICES ASSUME NEW e \in batch'
               PROVE  IF e.kind = "accept" THEN backlog' # << >>
                      ELSE /\ e.fd \in watched' /\ peer'[e.fd] = e.conn
                           /\ e.kind = "hup" => client'[e.conn] = "closed"
                           /\ e.kind = "in" =>
                                toDaemon'[e.conn] # << >> \/ client'[e.conn] \in {"half", "closed"}
    BY DEF EventsCurrent
  <2>1. IF e.kind = "accept" THEN backlog # << >>
        ELSE /\ e.fd \in watched
             /\ peer[e.fd] = e.conn
             /\ e.kind = "hup" => client[e.conn] = "closed"
             /\ e.kind = "in" => toDaemon[e.conn] # << >> \/ client[e.conn] \in {"half", "closed"}
    BY DEF DaemonInv, EventsInv, EventsCurrent
  <2> QED
    BY <2>1
<1> QED
  BY <1>1 DEF DaemonInv, EventsInv

(* Every step leaves the events that are still to be handled current. *)
LEMMA EventsStep == DaemonInv /\ [DaemonNext]_dvars => EventsInv'
<1> SUFFICES ASSUME DaemonInv, [DaemonNext]_dvars PROVE EventsInv'
  OBVIOUS
<1>0. pc \in {"loop", "wait"} => batch = {}
  BY DEF DaemonInv, EventsInv
<1>1. ASSUME NEW c \in Conns, Connect(c), UNCHANGED <<tableVars, daemonVars>> PROVE EventsInv'
  <2>1. backlog' # << >>
    <3>1. backlog \in Seq(Conns) /\ backlog' = Append(backlog, c)
      BY <1>1 DEF Connect, DaemonInv, DaemonTypeOK
    <3> QED
      BY <3>1, AppendProperties
  <2>2. \A d \in Conns : client[d] # "idle" => client'[d] = client[d]
    BY <1>1 DEF Connect, DaemonInv, DaemonTypeOK
  <2>3. UNCHANGED <<batch, pc, watched, peer, toDaemon>>
    BY <1>1 DEF Connect, daemonVars
  <2> QED
    BY <1>0, <2>1, <2>2, <2>3, EventsStay, EventsAreOfConnections DEF DaemonInv, EventsInv, EventsCurrent
<1>2. ASSUME NEW c \in Conns, UNCHANGED <<tableVars, daemonVars>>,
             (\E r \in Requests : Send(c, r)) \/ Receive(c) \/ HalfClose(c) \/ Close(c)
      PROVE  EventsInv'
  <2>1. \A d \in Conns : toDaemon[d] # << >> => toDaemon'[d] # << >>
    <3>1. ASSUME NEW r \in Requests, Send(c, r)
          PROVE  \A d \in Conns : toDaemon[d] # << >> => toDaemon'[d] # << >>
      <4>1. toDaemon[c] \in Seq(Units) /\ UnitsOf(r) \in Seq(Units)
        BY UnitsOfARequest DEF DaemonInv, DaemonTypeOK
      <4>2. toDaemon[c] # << >> => toDaemon[c] \o UnitsOf(r) # << >>
        BY <4>1, ConcatEqualIffEmpty
      <4> QED
        BY <3>1, <4>2 DEF Send, DaemonInv, DaemonTypeOK
    <3> QED
      BY <1>2, <3>1 DEF Receive, HalfClose, Close, kernelVars
  <2>2. \A d \in Conns : /\ client[d] = "closed" => client'[d] = "closed"
                         /\ client[d] = "half" => client'[d] \in {"half", "closed"}
    BY <1>2 DEF Send, Receive, HalfClose, Close, DaemonInv, DaemonTypeOK
  <2>3. UNCHANGED <<batch, pc, watched, peer, backlog>>
    BY <1>2 DEF Send, Receive, HalfClose, Close, daemonVars, kernelVars
  <2> QED
    BY <1>0, <2>1, <2>2, <2>3, EventsStay, EventsAreOfConnections DEF DaemonInv, EventsInv, EventsCurrent
<1>3. CASE EpollWait
  <2>1. batch' \subseteq Ready /\ pc' = "dispatch" /\ UNCHANGED <<clientVars, kernelVars, watched>>
    BY <1>3 DEF EpollWait
  <2>2. watched \subseteq Fds /\ NoFd \notin Fds
    BY RegistryAssumption DEF DaemonInv, DaemonTypeOK, NoFd
  <2>3. ASSUME NEW e \in Ready
        PROVE  \/ /\ e = [kind |-> "accept", fd |-> NoFd, conn |-> NoConn]
                  /\ Len(backlog) > 0
               \/ /\ e.fd \in watched /\ e = [kind |-> Reported(peer[e.fd]), fd |-> e.fd, conn |-> peer[e.fd]]
                  /\ client[peer[e.fd]] \in {"half", "closed"} \/ toDaemon[peer[e.fd]] # << >>
    BY DEF Ready
  <2>4. ASSUME NEW e \in Ready
        PROVE  IF e.kind = "accept" THEN backlog # << >> /\ e.fd = NoFd /\ e.conn = NoConn
               ELSE /\ e.fd \in watched
                    /\ peer[e.fd] = e.conn
                    /\ e.kind = "hup" => client[e.conn] = "closed"
                    /\ e.kind = "in" => toDaemon[e.conn] # << >> \/ client[e.conn] \in {"half", "closed"}
    BY <2>3, EmptySeq DEF Reported
  <2>5. ASSUME NEW d \in Ready, NEW e \in Ready, d.fd = e.fd PROVE d = e
    BY <2>2, <2>3, <2>5
  <2> QED
    BY <2>1, <2>4, <2>5 DEF EventsInv, EventsCurrent, clientVars, kernelVars
<1>4. CASE Enter \/ TimeOut \/ Stop \/ Signal \/ SendResponse \/ UNCHANGED dvars
  <2>1. UNCHANGED <<batch, client, toDaemon, backlog, peer, watched>> /\ (pc' \in {"loop", "wait"} => batch' = {})
    BY <1>0, <1>4 DEF Enter, TimeOut, Stop, Signal, SendResponse, Proceed, dvars, clientVars, kernelVars, daemonVars
  <2> QED
    BY <2>1, EventsStay DEF DaemonInv, EventsInv, EventsCurrent
<1>5. ASSUME NEW e \in batch, AcceptFails(e), UNCHANGED <<clientVars, bufferVars, running>> PROVE EventsInv'
  <2>1. /\ UNCHANGED <<client, toDaemon, backlog, peer, watched>>
        /\ batch' \subseteq batch /\ (pc' \in {"loop", "wait"} => batch' = {})
    BY <1>5 DEF AcceptFails, Handled, Proceed, clientVars, kernelVars
  <2> QED
    BY <2>1, EventsStay DEF DaemonInv, EventsInv, EventsCurrent
<1>6. ASSUME NEW e \in batch, AcceptAndClose(e) \/ AcceptConnection(e),
             UNCHANGED <<clientVars, bufferVars, running>>
      PROVE  EventsInv'
  <2>1. e.kind = "accept" /\ batch' = batch \ {e} /\ (pc' \in {"loop", "wait"} => batch' = {}) /\ UNCHANGED client
    BY <1>6 DEF AcceptAndClose, AcceptConnection, Handled, Proceed, clientVars
  <2>2. \A d \in batch' : d.kind # "accept"
    BY <2>1 DEF DaemonInv, EventsInv
  <2>3. watched \subseteq watched' /\ \A f \in open : peer'[f] = peer[f]
    <3>1. CASE AcceptAndClose(e)
      BY <3>1, TurningAway DEF DaemonInv
    <3>2. CASE AcceptConnection(e)
      <4>1. PICK fd \in Fds \ open : watched' = watched \cup {fd} /\ peer' = [peer EXCEPT ![fd] = Head(backlog)]
        BY <3>2, Accepting DEF DaemonInv
      <4> QED
        BY <4>1 DEF DaemonInv, DaemonTypeOK, Places
    <3> QED
      BY <1>6, <3>1, <3>2
  <2>4. \A f \in open : toDaemon'[peer[f]] = toDaemon[peer[f]]
    <3>1. CASE AcceptAndClose(e)
      <4>1. Head(backlog) \in Conns /\ backlog # << >> /\ backlog' = Tail(backlog)
        BY <3>1, TurningAway DEF DaemonInv
      <4>2. Waiting(Head(backlog))
        BY <4>1, BacklogShrinks DEF DaemonInv, Places
      <4>3. \A f \in open : peer[f] \in Conns /\ peer[f] # Head(backlog)
        BY <4>1, <4>2 DEF DaemonInv, DaemonTypeOK, Places, Accepted
      <4>4. toDaemon' = [toDaemon EXCEPT ![Head(backlog)] = << >>]
        BY <3>1, TurningAway DEF DaemonInv
      <4> QED
        BY <4>3, <4>4 DEF DaemonInv, DaemonTypeOK
    <3>2. CASE AcceptConnection(e)
      BY <3>2, Accepting DEF DaemonInv
    <3> QED
      BY <1>6, <3>1, <3>2
  <2>5. \A d \in batch' : /\ d.fd \in watched /\ d.fd \in open /\ d.conn = peer[d.fd]
    BY <2>1, <2>2, EventsAreOfConnections DEF DaemonInv, Places
  <2> QED
    BY <2>1, <2>2, <2>3, <2>4, <2>5, EventsStay
<1>7. ASSUME NEW e \in batch, e.kind # "accept", batch' = batch \ {e}, pc' \in {"loop", "wait"} => batch' = {},
             UNCHANGED <<client, backlog>>,
             watched \ {e.fd} \subseteq watched', \A f \in open \ {e.fd} : peer'[f] = peer[f],
             \A c \in Conns \ {peer[e.fd]} : toDaemon'[c] = toDaemon[c]
      PROVE  EventsInv'
  <2>1. e.fd \in open
    BY <1>7, EventsAreOfConnections
  <2>2. ASSUME NEW d \in batch', d.kind # "accept"
        PROVE  /\ d.fd \in open \ {e.fd} /\ d.fd \in watched \ {e.fd}
               /\ d.conn = peer[d.fd] /\ d.conn \in Conns /\ d.conn # peer[e.fd]
    <3>1. d \in batch /\ d # e
      BY <1>7
    <3>2. d.fd \in open /\ d.conn = peer[d.fd] /\ d.conn \in Conns
      BY <2>2, <3>1, EventsAreOfConnections
    <3>3. d.fd # e.fd
      BY <3>1 DEF DaemonInv, EventsInv
    <3> QED
      BY <2>1, <3>2, <3>3 DEF DaemonInv, Places
  <2>3. \A d \in batch' : d.kind = "accept" => backlog' # << >>
    BY <1>7 DEF DaemonInv, EventsInv, EventsCurrent
  <2> QED
    BY <1>7, <2>2, <2>3, EventsStay
<1>8. ASSUME NEW e \in batch, HangUp(e), UNCHANGED <<clientVars, bufferVars, running>> PROVE EventsInv'
  <2>1. /\ e.kind = "hup" /\ batch' = batch \ {e} /\ UNCHANGED <<client, backlog>>
        /\ watched' = watched \ {e.fd}
        /\ peer' = [peer EXCEPT ![e.fd] = NoConn]
        /\ toDaemon' = [toDaemon EXCEPT ![peer[e.fd]] = << >>]
        /\ peer[e.fd] \in Conns
    BY <1>8, HangingUp DEF DaemonInv, clientVars
  <2>2. pc' \in {"loop", "wait"} => batch' = {}
    BY <1>8 DEF HangUp, Proceed
  <2>3. \A f \in open \ {e.fd} : peer'[f] = peer[f]
    BY <2>1 DEF DaemonInv, DaemonTypeOK, Places
  <2>4. \A c \in Conns \ {peer[e.fd]} : toDaemon'[c] = toDaemon[c]
    BY <2>1 DEF DaemonInv, DaemonTypeOK
  <2> QED
    BY <1>7, <2>1, <2>2, <2>3, <2>4
<1>9. ASSUME NEW e \in batch, UNCHANGED <<clientVars, running>>,
             Ignore(e) \/ \E r \in Requests : Answer(e, r)
      PROVE EventsInv'
  <2>1. /\ e.kind = "in" /\ batch' = batch \ {e} /\ UNCHANGED <<client, backlog, watched, peer>>
        /\ ReadUnits(e)
    BY <1>9, Ignoring, Answering DEF DaemonInv, clientVars
  <2>2. pc' \in {"loop", "wait"} => batch' = {}
    BY <1>9 DEF Ignore, Answer, Proceed
  <2>3. \A c \in Conns \ {peer[e.fd]} : toDaemon'[c] = toDaemon[c]
    BY <2>1 DEF DaemonInv, DaemonTypeOK, ReadUnits
  <2> QED
    BY <1>7, <2>1, <2>2, <2>3
<1> QED
  BY <1>1, <1>2, <1>3, <1>4, <1>5, <1>6, <1>8, <1>9
     DEF DaemonNext, DaemonStep, ClientStep, DispatchAccept, DispatchHangUp, DispatchData

-----------------------------------------------------------------------------

(* The answers a client has not read are the responses in its socket, and one
   more while a response to it is made. *)
LEMMA AnswersType ==
    ASSUME DaemonInv, NEW c \in Conns
    PROVE  /\ Answers(c) \in Seq(Responses)
           /\ toClient[c] \in Seq(Responses)
           /\ pc # "send" => Answers(c) = toClient[c]
           /\ pc = "send" /\ peer[last.fd] = c =>
                /\ Answers(c) = Append(toClient[c], Response)
                /\ Len(Answers(c)) = Len(toClient[c]) + 1
           /\ peer[last.fd] # c => Answers(c) = toClient[c]
<1>1. toClient[c] \in Seq(Responses) /\ (pc = "send" => Response \in Responses)
  BY DEF DaemonInv, DaemonTypeOK, Responding
<1>2. pc = "send" => /\ Append(toClient[c], Response) \in Seq(Responses)
                     /\ Len(Append(toClient[c], Response)) = Len(toClient[c]) + 1
  BY <1>1, AppendProperties
<1> QED
  BY <1>1, <1>2 DEF Answers

(* Every response, sent or in progress, is one the daemon can make. *)
LEMMA RespondingStep == DaemonInv /\ [DaemonNext]_dvars => Responding'
<1> SUFFICES ASSUME DaemonInv, [DaemonNext]_dvars PROVE Responding'
  OBVIOUS
<1>1. ASSUME UNCHANGED <<open, last, pc>> \/ pc' # "send",
             \A c \in Conns : \/ toClient'[c] \in {toClient[c], << >>}
                              \/ toClient[c] # << >> /\ toClient'[c] = Tail(toClient[c])
      PROVE  Responding'
  <2>1. pc' = "send" => last'.fd \in open' /\ Response' \in Responses /\ Refuses(Response')
    BY <1>1 DEF DaemonInv, Responding, Response, Responses, Refuses
  <2>2. ASSUME NEW c \in Conns, NEW i \in 1 .. Len(toClient'[c]) PROVE Refuses(toClient'[c][i])
    <3>1. toClient[c] \in Seq(Responses) /\ \A j \in 1 .. Len(toClient[c]) : Refuses(toClient[c][j])
      BY DEF DaemonInv, DaemonTypeOK, Responding
    <3>2. CASE toClient'[c] = toClient[c]
      BY <2>2, <3>1, <3>2
    <3>3. CASE toClient'[c] = << >>
      BY <2>2, <3>3
    <3>4. CASE toClient[c] # << >> /\ toClient'[c] = Tail(toClient[c])
      <4>1. /\ Len(toClient[c]) \in Nat /\ Len(toClient'[c]) = Len(toClient[c]) - 1
            /\ toClient'[c][i] = toClient[c][i + 1]
        BY <2>2, <3>1, <3>4, HeadTailProperties
      <4>2. i + 1 \in 1 .. Len(toClient[c])
        BY <2>2, <4>1
      <4> QED
        BY <3>1, <4>1, <4>2
    <3> QED
      BY <1>1, <3>2, <3>3, <3>4
  <2> QED
    BY <2>1, <2>2 DEF Responding
<1>2. ASSUME NEW c \in Conns, UNCHANGED <<tableVars, daemonVars>>,
             Connect(c) \/ (\E r \in Requests : Send(c, r)) \/ Receive(c) \/ HalfClose(c) \/ Close(c)
      PROVE  Responding'
  <2>1. UNCHANGED <<open, last, pc>>
    BY <1>2 DEF tableVars, vars, daemonVars
  <2>2. \A d \in Conns : \/ toClient'[d] \in {toClient[d], << >>}
                         \/ toClient[d] # << >> /\ toClient'[d] = Tail(toClient[d])
    BY <1>2 DEF Connect, Send, Receive, HalfClose, Close, kernelVars, DaemonInv, DaemonTypeOK
  <2> QED
    BY <1>1, <2>1, <2>2
<1>3. CASE Enter \/ EpollWait \/ TimeOut \/ Stop \/ Signal \/ UNCHANGED dvars
  <2>1. (UNCHANGED <<open, last, pc>> \/ pc' # "send") /\ UNCHANGED toClient
    BY <1>3 DEF Enter, EpollWait, TimeOut, Stop, Signal, dvars, tableVars, vars, kernelVars, daemonVars
  <2> QED
    BY <1>1, <2>1
<1>4. ASSUME NEW e \in batch, AcceptFails(e) \/ AcceptAndClose(e) \/ AcceptConnection(e) \/ HangUp(e) \/ Ignore(e)
      PROVE  Responding'
  <2>1. pc' # "send" /\ UNCHANGED toClient
    BY <1>4 DEF AcceptFails, AcceptAndClose, AcceptConnection, HangUp, Ignore, Proceed, kernelVars
  <2> QED
    BY <1>1, <2>1
<1>5. ASSUME NEW e \in batch, NEW r \in Requests, Answer(e, r) PROVE Responding'
  <2>1. last'.fd \in open' /\ Response' \in Responses /\ Refuses(Response') /\ UNCHANGED toClient
    BY <1>5, Answering DEF DaemonInv
  <2> QED
    BY <2>1 DEF DaemonInv, Responding
<1>6. CASE SendResponse
  <2>1. /\ pc = "send" /\ pc' # "send" /\ peer[last.fd] \in Conns
        /\ Response \in Responses /\ Refuses(Response)
    BY <1>6 DEF SendResponse, Proceed, DaemonInv, Responding, Places, DaemonTypeOK
  <2>2. ASSUME NEW c \in Conns, NEW i \in 1 .. Len(toClient'[c]) PROVE Refuses(toClient'[c][i])
    <3>1. toClient[c] \in Seq(Responses) /\ \A j \in 1 .. Len(toClient[c]) : Refuses(toClient[c][j])
      BY DEF DaemonInv, DaemonTypeOK, Responding
    <3>2. toClient'[c] = toClient[c] \/ toClient'[c] = Append(toClient[c], Response)
      BY <1>6 DEF SendResponse, Deliver, DaemonInv, DaemonTypeOK
    <3>3. CASE toClient'[c] = toClient[c]
      BY <2>2, <3>1, <3>3
    <3>4. CASE toClient'[c] = Append(toClient[c], Response)
      <4>1. /\ Len(toClient'[c]) = Len(toClient[c]) + 1 /\ Len(toClient[c]) \in Nat
            /\ \A j \in 1 .. Len(toClient[c]) : toClient'[c][j] = toClient[c][j]
            /\ toClient'[c][Len(toClient[c]) + 1] = Response
        BY <2>1, <3>1, <3>4, AppendProperties
      <4>2. i \in 1 .. Len(toClient[c]) \/ i = Len(toClient[c]) + 1
        BY <2>2, <4>1
      <4> QED
        BY <2>1, <3>1, <4>1, <4>2
    <3> QED
      BY <3>2, <3>3, <3>4
  <2> QED
    BY <2>1, <2>2 DEF Responding
<1> QED
  BY <1>2, <1>3, <1>4, <1>5, <1>6
     DEF DaemonNext, DaemonStep, ClientStep, DispatchAccept, DispatchHangUp, DispatchData

-----------------------------------------------------------------------------
(* What a step can do to a connection whose client is there. *)

Stays(c) == asked'[c] = asked[c] /\ told'[c] = told[c] /\ dropped'[c] = dropped[c] /\ clean'[c] = clean[c]

Begins(c) == client[c] = "idle" /\ Unused(c)' /\ Answers(c)' = << >>

Asks(c) ==
    \E r \in Requests :
        /\ asked'[c] = Append(asked[c], r)
        /\ toDaemon'[c] = toDaemon[c] \o UnitsOf(r)
        /\ Answers(c)' = Answers(c)
        /\ told'[c] = told[c]
        /\ dropped'[c] = IF r.op = "DESTROY_NODE" THEN dropped[c] \cup {r.node_id} ELSE dropped[c]
        /\ clean'[c] = (clean[c] /\ r.form = "whole")

Learns(c) ==
    /\ Answers(c) # << >>
    /\ Answers(c)' = Tail(Answers(c))
    /\ asked'[c] = Tail(asked[c])
    /\ toDaemon'[c] = toDaemon[c]
    /\ told'[c] = IF Head(asked[c]).op = "CREATE_NODE" /\ Head(Answers(c)).status = "SUCCESS"
                  THEN told[c] \cup {Head(Answers(c)).node_id} ELSE told[c]
    /\ dropped'[c] = dropped[c]
    /\ clean'[c] = clean[c]

IsAnswered(c) ==
    /\ \E e \in batch, r \in Requests : Answer(e, r) /\ peer[e.fd] = c
    /\ Answers(c)' = Append(Answers(c), Response')
    /\ toDaemon'[c] = SubSeq(toDaemon[c], 3, Len(toDaemon[c]))
    /\ Stays(c)

IsIgnored(c) ==
    /\ \E e \in batch : Ignore(e) /\ peer[e.fd] = c
    /\ Answers(c)' = Answers(c)
    /\ toDaemon'[c] = SubSeq(toDaemon[c], 3, Len(toDaemon[c]))
    /\ Stays(c)

Waits(c) ==
    /\ Answers(c)' = Answers(c)
    /\ toDaemon'[c] = toDaemon[c] \/ (c \in dead' /\ toDaemon'[c] = << >>)
    /\ Stays(c)

(* The step of a client, seen from its connection and from any other. *)
LEMMA ClientSteps ==
    ASSUME DaemonInv, NEW c \in Conns, client'[c] \in {"up", "half"}, NEW d \in Conns,
           UNCHANGED <<tableVars, daemonVars>>,
           Connect(d) \/ (\E r \in Requests : Send(d, r)) \/ Receive(d) \/ HalfClose(d) \/ Close(d)
    PROVE  /\ dead \subseteq dead'
           /\ \/ Begins(c)
              \/ client[c] \in {"up", "half"} /\ (Asks(c) \/ Learns(c) \/ Waits(c))
<1> USE DEF DaemonInv
<1>1. UNCHANGED <<dead, peer, last, pc>> /\ Response' = Response
  BY DEF Connect, Send, Receive, HalfClose, Close, kernelVars, tableVars, vars, daemonVars, Response
<1>2. toClient'[c] = toClient[c] => Answers(c)' = Answers(c)
  BY <1>1 DEF Answers
<1>3. CASE d # c
  <2>1. /\ client[c] \in {"up", "half"} /\ toClient'[c] = toClient[c]
        /\ toDaemon'[c] = toDaemon[c] /\ Stays(c)
    BY <1>3 DEF Connect, Send, Receive, HalfClose, Close, Stays, DaemonTypeOK, kernelVars
  <2> QED
    BY <1>1, <1>2, <2>1 DEF Waits
<1>4. ASSUME Connect(c) PROVE Begins(c)
  <2>1. client[c] = "idle" /\ Unused(c) /\ ~ Accepted(c)
    BY <1>4 DEF Connect, Places
  <2>2. Unused(c)'
    BY <1>4, <2>1 DEF Connect, Unused
  <2>3. pc = "send" => peer[last.fd] # c
    BY <2>1 DEF Accepted, Responding
  <2>4. Answers(c)' = << >>
    BY <1>1, <2>2, <2>3 DEF Answers, Unused
  <2> QED
    BY <2>1, <2>2, <2>4 DEF Begins
<1>5. ASSUME NEW r \in Requests, Send(c, r) PROVE client[c] \in {"up", "half"} /\ Asks(c)
  BY <1>2, <1>5 DEF Send, Asks, DaemonTypeOK
<1>6. ASSUME Receive(c) PROVE client[c] \in {"up", "half"} /\ Learns(c)
  <2>1. /\ client[c] \in {"up", "half"} /\ toClient[c] # << >> /\ toClient[c] \in Seq(Responses)
        /\ toClient'[c] = Tail(toClient[c]) /\ asked'[c] = Tail(asked[c])
        /\ toDaemon'[c] = toDaemon[c] /\ dropped'[c] = dropped[c] /\ clean'[c] = clean[c]
        /\ told'[c] = IF Head(asked[c]).op = "CREATE_NODE" /\ Head(toClient[c]).status = "SUCCESS"
                      THEN told[c] \cup {Head(toClient[c]).node_id} ELSE told[c]
    BY <1>6 DEF Receive, DaemonTypeOK
  <2>2. pc = "send" => Response \in Responses
    BY DEF Responding
  <2>3. pc = "send" => /\ Head(Append(toClient[c], Response)) = Head(toClient[c])
                       /\ Tail(Append(toClient[c], Response)) = Append(Tail(toClient[c]), Response)
                       /\ Append(toClient[c], Response) # << >>
    BY <2>1, <2>2, HeadTailAppend, AppendProperties
  <2>4. /\ Answers(c) # << >> /\ Head(Answers(c)) = Head(toClient[c])
        /\ Answers(c)' = Tail(Answers(c))
    BY <1>1, <2>1, <2>3 DEF Answers
  <2> QED
    BY <2>1, <2>4 DEF Learns
<1>7. ASSUME HalfClose(c) PROVE client[c] \in {"up", "half"} /\ Waits(c)
  BY <1>2, <1>7 DEF HalfClose, Waits, Stays, kernelVars
<1>8. ~ Close(c)
  BY DEF Close, DaemonTypeOK
<1> QED
  BY <1>1, <1>3, <1>4, <1>5, <1>6, <1>7, <1>8

(* The step of the daemon, seen from a connection. *)
LEMMA DaemonSteps ==
    ASSUME DaemonInv, NEW c \in Conns, client[c] \in {"up", "half"}, DaemonStep \/ Signal \/ UNCHANGED dvars
    PROVE  UNCHANGED client /\ dead \subseteq dead' /\ (IsAnswered(c) \/ IsIgnored(c) \/ Waits(c))
<1> USE DEF DaemonInv
<1> DEFINE Kept == UNCHANGED client /\ Stays(c)
<1>1. Kept
  BY DEF DaemonStep, Enter, EpollWait, TimeOut, Stop, Signal, SendResponse, DispatchAccept, DispatchHangUp, DispatchData,
         clientVars, dvars, Stays
<1> HIDE DEF Kept
<1>2. ASSUME Waits(c), dead \subseteq dead' PROVE dead \subseteq dead' /\ (IsAnswered(c) \/ IsIgnored(c) \/ Waits(c))
  BY <1>2
<1>3. CASE Enter \/ EpollWait \/ TimeOut \/ Stop \/ Signal \/ UNCHANGED dvars
  <2>1. dead \subseteq dead' /\ toDaemon'[c] = toDaemon[c] /\ toClient'[c] = toClient[c]
    BY <1>3 DEF Enter, EpollWait, TimeOut, Stop, Signal, dvars, kernelVars, DaemonTypeOK
  <2>2. (pc # "send" /\ pc' # "send") \/ (UNCHANGED <<pc, last, peer>> /\ Response' = Response)
    BY <1>3 DEF Enter, EpollWait, TimeOut, Stop, Signal, dvars, kernelVars, daemonVars, tableVars, vars, Response
  <2>3. Answers(c)' = Answers(c)
    BY <2>1, <2>2 DEF Answers
  <2> QED
    BY <1>1, <2>1, <2>3 DEF Waits, Kept
<1>4. ASSUME NEW e \in batch, AcceptFails(e) \/ AcceptAndClose(e) \/ AcceptConnection(e) \/ HangUp(e)
      PROVE  dead \subseteq dead' /\ Waits(c)
  <2>1. pc # "send" /\ pc' # "send" /\ UNCHANGED toClient
    BY <1>4 DEF AcceptFails, AcceptAndClose, AcceptConnection, HangUp, Handled, Proceed, kernelVars
  <2>2. Answers(c)' = Answers(c)
    BY <2>1 DEF Answers
  <2>3. dead \subseteq dead' /\ (toDaemon'[c] = toDaemon[c] \/ (c \in dead' /\ toDaemon'[c] = << >>))
    <3>1. CASE AcceptFails(e) \/ AcceptConnection(e)
      BY <3>1 DEF AcceptFails, AcceptConnection, kernelVars
    <3>2. CASE AcceptAndClose(e)
      BY <3>2 DEF AcceptAndClose, DaemonTypeOK
    <3>3. CASE HangUp(e)
      BY <3>3 DEF HangUp, DaemonTypeOK
    <3> QED
      BY <1>4, <3>1, <3>2, <3>3
  <2> QED
    BY <1>1, <2>2, <2>3 DEF Waits, Kept
<1>5. ASSUME NEW e \in batch, NEW f, f = peer[e.fd], f \in Conns, ReadUnits(e)
      PROVE  /\ f # c => toDaemon'[c] = toDaemon[c]
             /\ f = c => toDaemon'[c] = SubSeq(toDaemon[c], 3, Len(toDaemon[c]))
  BY <1>5 DEF ReadUnits, DaemonTypeOK
<1>6. ASSUME NEW e \in batch, Ignore(e) PROVE dead \subseteq dead' /\ (IsIgnored(c) \/ Waits(c))
  <2>1. /\ pc # "send" /\ pc' # "send" /\ UNCHANGED <<toClient, dead>>
        /\ peer[e.fd] \in Conns /\ ReadUnits(e)
    BY <1>6, Ignoring DEF Ignore, Proceed
  <2>2. Answers(c)' = Answers(c)
    BY <2>1 DEF Answers
  <2> QED
    BY <1>1, <1>5, <1>6, <2>1, <2>2 DEF IsIgnored, Waits, Kept
<1>7. ASSUME NEW e \in batch, NEW r \in Requests, Answer(e, r)
      PROVE  dead \subseteq dead' /\ (IsAnswered(c) \/ Waits(c))
  <2>1. /\ pc = "dispatch" /\ pc' = "send" /\ UNCHANGED <<toClient, dead, peer>>
        /\ e.fd \in open /\ last'.fd = e.fd /\ ReadUnits(e)
    BY <1>7, Answering
  <2>2. peer[e.fd] \in Conns
    BY <2>1 DEF Places, DaemonTypeOK
  <2>3. Answers(c)' = IF peer[e.fd] = c THEN Append(Answers(c), Response') ELSE Answers(c)
    BY <2>1 DEF Answers
  <2> QED
    BY <1>1, <1>5, <1>7, <2>1, <2>2, <2>3 DEF IsAnswered, Waits, Kept
<1>8. ASSUME SendResponse PROVE dead \subseteq dead' /\ Waits(c)
  <2>1. pc = "send" /\ pc' # "send" /\ UNCHANGED <<dead, toDaemon>> /\ Deliver(peer[last.fd])
    BY <1>8 DEF SendResponse, Proceed
  <2>2. toClient'[c] = IF peer[last.fd] = c THEN Append(toClient[c], Response) ELSE toClient[c]
    BY <2>1 DEF Deliver, DaemonTypeOK
  <2>3. Answers(c)' = Answers(c)
    BY <2>1, <2>2 DEF Answers
  <2> QED
    BY <1>1, <2>1, <2>3 DEF Waits, Kept
<1> QED
  BY <1>1, <1>3, <1>4, <1>6, <1>7, <1>8 DEF DaemonStep, DispatchAccept, DispatchHangUp, DispatchData, Kept

(* Every step, seen from a connection whose client is there after it. *)
LEMMA ConnectionSteps ==
    ASSUME DaemonInv, [DaemonNext]_dvars, NEW c \in Conns, client'[c] \in {"up", "half"}
    PROVE  /\ dead \subseteq dead'
           /\ \/ Begins(c)
              \/ /\ client[c] \in {"up", "half"}
                 /\ Asks(c) \/ Learns(c) \/ IsAnswered(c) \/ IsIgnored(c) \/ Waits(c)
<1>1. CASE ClientStep
  BY <1>1, ClientSteps DEF ClientStep
<1>2. CASE DaemonStep \/ Signal \/ UNCHANGED dvars
  <2>1. UNCHANGED client
    BY <1>2 DEF DaemonStep, Enter, EpollWait, TimeOut, Stop, Signal, SendResponse, DispatchAccept, DispatchHangUp, DispatchData,
                clientVars, dvars
  <2> QED
    BY <1>2, <2>1, DaemonSteps
<1> QED
  BY <1>1, <1>2 DEF DaemonNext

(* The sequences of a connection. *)
LEMMA QueueTypes ==
    ASSUME DaemonInv, NEW c \in Conns
    PROVE  /\ asked[c] \in Seq(Requests) /\ Len(asked[c]) \in Nat
           /\ toDaemon[c] \in Seq(Units) /\ Len(toDaemon[c]) \in Nat
           /\ Answers(c) \in Seq(Responses) /\ Len(Answers(c)) \in Nat
BY AnswersType DEF DaemonInv, DaemonTypeOK

(* Adding a request, and taking the oldest. *)
LEMMA AskedGrows ==
    ASSUME DaemonInv, NEW c \in Conns, NEW r \in Requests,
           asked'[c] = Append(asked[c], r), toDaemon'[c] = toDaemon[c] \o UnitsOf(r)
    PROVE  /\ Len(asked'[c]) = Len(asked[c]) + 1
           /\ \A i \in 1 .. Len(asked[c]) : asked'[c][i] = asked[c][i]
           /\ asked'[c][Len(asked[c]) + 1] = r
           /\ Len(toDaemon'[c]) = Len(toDaemon[c]) + Len(UnitsOf(r))
           /\ \A i \in 1 .. Len(toDaemon[c]) : toDaemon'[c][i] = toDaemon[c][i]
           /\ \A i \in 1 .. Len(UnitsOf(r)) : toDaemon'[c][Len(toDaemon[c]) + i] = UnitsOf(r)[i]
<1>0. /\ asked[c] \in Seq(Requests) /\ Len(asked[c]) \in Nat
      /\ toDaemon[c] \in Seq(Units) /\ Len(toDaemon[c]) \in Nat
      /\ UnitsOf(r) \in Seq(Units) /\ Len(UnitsOf(r)) \in Nat
  BY QueueTypes, UnitsOfARequest
<1>1. /\ Len(asked'[c]) = Len(asked[c]) + 1
      /\ \A i \in 1 .. Len(asked[c]) : asked'[c][i] = asked[c][i]
      /\ asked'[c][Len(asked[c]) + 1] = r
  BY <1>0, AppendProperties
<1>2. /\ Len(toDaemon'[c]) = Len(toDaemon[c]) + Len(UnitsOf(r))
      /\ \A i \in 1 .. Len(toDaemon[c]) + Len(UnitsOf(r)) :
           toDaemon'[c][i] = IF i <= Len(toDaemon[c]) THEN toDaemon[c][i] ELSE UnitsOf(r)[i - Len(toDaemon[c])]
  BY <1>0, ConcatProperties
<1>3. \A i \in 1 .. Len(toDaemon[c]) : toDaemon'[c][i] = toDaemon[c][i]
  BY <1>0, <1>2
<1>4. \A i \in 1 .. Len(UnitsOf(r)) : toDaemon'[c][Len(toDaemon[c]) + i] = UnitsOf(r)[i]
  <2> SUFFICES ASSUME NEW i \in 1 .. Len(UnitsOf(r))
               PROVE  toDaemon'[c][Len(toDaemon[c]) + i] = UnitsOf(r)[i]
    OBVIOUS
  <2>1. /\ Len(toDaemon[c]) + i \in 1 .. Len(toDaemon[c]) + Len(UnitsOf(r))
        /\ ~ (Len(toDaemon[c]) + i <= Len(toDaemon[c]))
        /\ Len(toDaemon[c]) + i - Len(toDaemon[c]) = i
    BY <1>0
  <2> QED
    BY <1>2, <2>1
<1> QED
  BY <1>1, <1>2, <1>3, <1>4

(* An answer read: it and its request leave their queues. *)
LEMMA AnswerRead ==
    ASSUME DaemonInv, NEW c \in Conns, client[c] \in {"up", "half"},
           Answers(c) # << >>, Answers(c)' = Tail(Answers(c)), asked'[c] = Tail(asked[c])
    PROVE  /\ Len(Answers(c)) \in Nat \ {0} /\ Len(Answers(c)') = Len(Answers(c)) - 1
           /\ \A i \in 1 .. Len(Answers(c)') : Answers(c)'[i] = Answers(c)[i + 1]
           /\ Head(Answers(c)) = Answers(c)[1]
           /\ Len(asked[c]) \in Nat \ {0} /\ Len(asked'[c]) = Len(asked[c]) - 1
           /\ \A i \in 1 .. Len(asked'[c]) : asked'[c][i] = asked[c][i + 1]
           /\ Head(asked[c]) = asked[c][1]
<1>1. /\ asked[c] \in Seq(Requests) /\ Len(asked[c]) \in Nat
      /\ Len(toDaemon[c]) \in Nat /\ Answers(c) \in Seq(Responses)
  BY QueueTypes
<1>2. /\ Len(Answers(c)) \in Nat \ {0} /\ Len(Answers(c)') = Len(Answers(c)) - 1
      /\ \A i \in 1 .. Len(Answers(c)') : Answers(c)'[i] = Answers(c)[i + 1]
  BY <1>1, HeadTailProperties, EmptySeq
<1>3. 2 * Len(Answers(c)) + Len(toDaemon[c]) <= 2 * Len(asked[c])
  BY DEF DaemonInv, Counted
<1>4. Len(asked[c]) \in Nat \ {0}
  <2>1. \A n \in Nat \ {0}, m, k \in Nat : 2 * n + m <= 2 * k => k # 0
    OBVIOUS
  <2> QED
    BY <1>1, <1>2, <1>3, <2>1
<1>5. asked[c] # << >>
  BY <1>4
<1>6. /\ Len(asked'[c]) = Len(asked[c]) - 1
      /\ \A i \in 1 .. Len(asked'[c]) : asked'[c][i] = asked[c][i + 1]
  BY <1>1, <1>5, HeadTailProperties
<1>7. Head(Answers(c)) = Answers(c)[1] /\ Head(asked[c]) = asked[c][1]
  BY <1>1
<1> QED
  BY <1>2, <1>4, <1>6, <1>7

(* A request answered: two units leave the stream, an answer is added. *)
LEMMA AnswerMade ==
    ASSUME DaemonInv, NEW c \in Conns, IsAnswered(c)
    PROVE  /\ Len(toDaemon[c]) >= 2 /\ Len(toDaemon'[c]) = Len(toDaemon[c]) - 2
           /\ \A i \in 1 .. Len(toDaemon[c]) - 2 : toDaemon'[c][i] = toDaemon[c][i + 2]
           /\ Len(Answers(c)') = Len(Answers(c)) + 1
           /\ \A i \in 1 .. Len(Answers(c)) : Answers(c)'[i] = Answers(c)[i]
           /\ Answers(c)'[Len(Answers(c)) + 1] = Response'
<1>1. PICK e \in batch, r \in Requests : Answer(e, r) /\ peer[e.fd] = c
  BY DEF IsAnswered
<1>2. Len(toDaemon[c]) >= 2 /\ Response' \in Responses
  BY <1>1, Answering DEF DaemonInv, Stream
<1>3. /\ Len(toDaemon'[c]) = Len(toDaemon[c]) - 2
      /\ \A i \in 1 .. Len(toDaemon[c]) - 2 : toDaemon'[c][i] = toDaemon[c][i + 2]
  BY <1>2, QueueTypes, TwoUnitsRead DEF IsAnswered
<1>4. /\ Len(Answers(c)') = Len(Answers(c)) + 1
      /\ \A i \in 1 .. Len(Answers(c)) : Answers(c)'[i] = Answers(c)[i]
      /\ Answers(c)'[Len(Answers(c)) + 1] = Response'
  BY <1>2, QueueTypes, AppendProperties DEF IsAnswered
<1> QED
  BY <1>2, <1>3, <1>4

(* A stream of which two units, or what there was, have been ignored. *)
LEMMA UnitsIgnored ==
    ASSUME DaemonInv, NEW c \in Conns, toDaemon'[c] = SubSeq(toDaemon[c], 3, Len(toDaemon[c]))
    PROVE  Len(toDaemon'[c]) \in Nat /\ Len(toDaemon'[c]) <= Len(toDaemon[c])
<1>1. toDaemon[c] \in Seq(Units) /\ Len(toDaemon[c]) \in Nat
  BY QueueTypes
<1>2. Len(toDaemon[c]) >= 2 => Len(toDaemon'[c]) = Len(toDaemon[c]) - 2
  BY <1>1, TwoUnitsRead
<1>3. Len(toDaemon[c]) < 2 => Len(toDaemon'[c]) = 0
  BY <1>1, TwoUnitsRead
<1>4. \A n \in Nat : 0 <= n /\ (n >= 2 => n - 2 \in Nat /\ n - 2 <= n)
  OBVIOUS
<1> QED
  BY <1>1, <1>2, <1>3, <1>4

(* The daemon never answers more than it has been asked. *)
LEMMA CountedStep == DaemonInv /\ [DaemonNext]_dvars => Counted'
<1> SUFFICES ASSUME DaemonInv, [DaemonNext]_dvars, NEW c \in Conns, client'[c] \in {"up", "half"}
             PROVE  2 * Len(Answers(c)') + Len(toDaemon'[c]) <= 2 * Len(asked'[c])
  BY DEF Counted
<1>1. Len(asked[c]) \in Nat /\ Len(toDaemon[c]) \in Nat /\ Len(Answers(c)) \in Nat
  BY QueueTypes
<1>2. client[c] \in {"up", "half"} => 2 * Len(Answers(c)) + Len(toDaemon[c]) <= 2 * Len(asked[c])
  BY DEF DaemonInv, Counted
<1>3. CASE Begins(c)
  <2>1. Len(Answers(c)') = 0 /\ Len(toDaemon'[c]) = 0 /\ Len(asked'[c]) = 0
    BY <1>3 DEF Begins, Unused
  <2> QED
    BY <2>1
<1>4. CASE client[c] \in {"up", "half"} /\ Asks(c)
  <2>1. PICK r \in Requests : /\ asked'[c] = Append(asked[c], r) /\ toDaemon'[c] = toDaemon[c] \o UnitsOf(r)
                              /\ Answers(c)' = Answers(c)
    BY <1>4 DEF Asks
  <2>2. Len(UnitsOf(r)) \in 1 .. 2
    BY UnitsOfARequest
  <2>3. Len(asked'[c]) = Len(asked[c]) + 1 /\ Len(toDaemon'[c]) = Len(toDaemon[c]) + Len(UnitsOf(r))
    BY <2>1, AskedGrows
  <2>4. \A n, m, k \in Nat, u \in 1 .. 2 : 2 * n + m <= 2 * k => 2 * n + (m + u) <= 2 * (k + 1)
    OBVIOUS
  <2> QED
    BY <1>1, <1>2, <1>4, <2>1, <2>2, <2>3, <2>4
<1>5. CASE client[c] \in {"up", "half"} /\ Learns(c)
  <2>1. /\ Len(Answers(c)') = Len(Answers(c)) - 1 /\ Len(asked'[c]) = Len(asked[c]) - 1
        /\ toDaemon'[c] = toDaemon[c]
    BY <1>5, AnswerRead DEF Learns
  <2>2. \A n, m, k \in Nat : 2 * n + m <= 2 * k => 2 * (n - 1) + m <= 2 * (k - 1)
    OBVIOUS
  <2> QED
    BY <1>1, <1>2, <1>5, <2>1, <2>2
<1>6. CASE client[c] \in {"up", "half"} /\ IsAnswered(c)
  <2>1. /\ Len(Answers(c)') = Len(Answers(c)) + 1 /\ Len(toDaemon'[c]) = Len(toDaemon[c]) - 2
        /\ asked'[c] = asked[c]
    BY <1>6, AnswerMade DEF IsAnswered, Stays
  <2>2. \A n, m, k \in Nat : 2 * n + m <= 2 * k => 2 * (n + 1) + (m - 2) <= 2 * k
    OBVIOUS
  <2> QED
    BY <1>1, <1>2, <1>6, <2>1, <2>2
<1>7. CASE client[c] \in {"up", "half"} /\ IsIgnored(c)
  <2>1. /\ Answers(c)' = Answers(c) /\ asked'[c] = asked[c]
        /\ Len(toDaemon'[c]) \in Nat /\ Len(toDaemon'[c]) <= Len(toDaemon[c])
    BY <1>7, UnitsIgnored DEF IsIgnored, Stays
  <2>2. \A n, m, k, u \in Nat : 2 * n + m <= 2 * k /\ u <= m => 2 * n + u <= 2 * k
    OBVIOUS
  <2> QED
    BY <1>1, <1>2, <1>7, <2>1, <2>2
<1>8. CASE client[c] \in {"up", "half"} /\ Waits(c)
  <2>1. /\ Answers(c)' = Answers(c) /\ asked'[c] = asked[c]
        /\ Len(toDaemon'[c]) = Len(toDaemon[c]) \/ Len(toDaemon'[c]) = 0
    BY <1>8 DEF Waits, Stays
  <2>2. \A n, m, k \in Nat : 2 * n + m <= 2 * k => 2 * n + 0 <= 2 * k
    OBVIOUS
  <2> QED
    BY <1>1, <1>2, <1>8, <2>1, <2>2
<1> QED
  BY <1>3, <1>4, <1>5, <1>6, <1>7, <1>8, ConnectionSteps

(* The daemon starts in the invariant. *)
LEMMA DaemonStarts == DaemonInit => DaemonInv
<1> SUFFICES ASSUME DaemonInit PROVE DaemonInv
  OBVIOUS
<1>1. TableInv
  BY TableInit DEF DaemonInit
<1>2. SlotInv
  BY DEF DaemonInit, Init, SlotInv, ClientsDated, OneSlotPerConnection, ActiveSlots
<1>3. DaemonTypeOK
  <2>1. TypeOK
    BY <1>1 DEF TableInv
  <2> QED
    BY <2>1 DEF DaemonInit, DaemonTypeOK
<1>4. Responding /\ EventsInv
  BY DEF DaemonInit, Responding, EventsInv, EventsCurrent
<1>5. Counted
  BY DEF DaemonInit, Counted
<1>6. Places
  BY DEF DaemonInit, Init, Places, Unused, Waiting, Accepted
<1> QED
  BY <1>1, <1>2, <1>3, <1>4, <1>5, <1>6 DEF DaemonInv

LEMMA DaemonSteady == DaemonInv /\ [DaemonNext]_dvars => DaemonInv'
<1> SUFFICES ASSUME DaemonInv, [DaemonNext]_dvars PROVE DaemonInv'
  OBVIOUS
<1>1. TableInv' /\ SlotInv'
  BY TableMoves, TableStep, SlotStep DEF DaemonInv, TableInv
<1> QED
  BY <1>1, TypeStep, RespondingStep, CountedStep, PlacesStep, EventsStep DEF DaemonInv

(* Every variable of the daemon, its clients and the kernel keeps its type:
   the daemon answers with a known status, never accepts from an empty queue,
   and never answers more than it has been asked. *)
THEOREM DaemonTypesAreKept == DaemonSpec => []DaemonTypeOK
<1>1. DaemonInv => DaemonTypeOK
  BY DEF DaemonInv
<1> QED
  BY <1>1, DaemonStarts, DaemonSteady, PTL DEF DaemonSpec

(* Seen from its tables, the daemon with its loop, sockets and clients does
   nothing that a sequence of whole handler calls would not do, whatever the order of
   its events and whichever system call fails (main.c:104-133,
   ipc_protocol.c:197-281). *)
THEOREM DaemonRefinesTables == DaemonSpec => Spec
<1>1. DaemonInit => Init
  BY DEF DaemonInit
<1>2. DaemonInv /\ [DaemonNext]_dvars => [Next]_vars
  BY TableMoves DEF DaemonInv, DaemonTypeOK
<1> QED
  BY <1>1, <1>2, DaemonStarts, DaemonSteady, PTL DEF DaemonSpec, Spec

(* So the whole daemon implements the abstract service until a counter comes
   round. *)
THEOREM DaemonImplementsService == DaemonSpec => ImplementsService
BY DaemonRefinesTables, TablesImplementService

(* And whatever order events and requests of several clients are handled in, a
   node is removed on behalf of a connection that owns it (ipc_protocol.c:182,
   client.c:65). *)
THEOREM DaemonRemovesOwned == DaemonSpec => RemovedByOwner
BY DaemonRefinesTables, RemovalsCorrect

(* The connection table, the epoll set and the kernel's sockets agree. *)
THEOREM TablesAndSocketsAgree == DaemonSpec => []TablesMatchSockets
<1>1. DaemonInv => TablesMatchSockets
  <2> SUFFICES ASSUME DaemonInv PROVE TablesMatchSockets
    OBVIOUS
  <2>1. ASSUME ClientsNumbered PROVE open = {clients[s].fd : s \in ActiveSlots}
    <3>1. \A s \in ActiveSlots : clients[s].fd \in open
      BY <2>1 DEF DaemonInv, SlotInv, OneSlotPerConnection
    <3>2. \A fd \in open : \E s \in ActiveSlots : clients[s].fd = fd
      BY DEF DaemonInv, TableInv, OpenIsRegistered, SlotsOf
    <3> QED
      BY <3>1, <3>2
  <2> QED
    BY <2>1 DEF DaemonInv, Places, TablesMatchSockets
<1> QED
  BY <1>1, DaemonStarts, DaemonSteady, PTL DEF DaemonSpec

(* No event the daemon handles is stale. *)
THEOREM EventsAreCurrent == DaemonSpec => []EventsCurrent
<1>1. DaemonInv => EventsCurrent
  BY DEF DaemonInv, EventsInv
<1> QED
  BY <1>1, DaemonStarts, DaemonSteady, PTL DEF DaemonSpec

-----------------------------------------------------------------------------

(* What recvmsg() installs is new to the process, and all of it but the first,
   which is taken, goes unseen. *)
LEMMA InstalledIsNew ==
    ASSUME DaemonTypeOK, NEW e
    PROVE  /\ Installed(e) \subseteq Fds \ dmabufs /\ Unseen(e) \subseteq Installed(e)
           /\ \A f : First(f, Installed(e)) => Installed(e) = {f} \cup Unseen(e) /\ f \notin Unseen(e)
<1>1. Installed(e) \subseteq Fds \ dmabufs /\ Unseen(e) \subseteq Installed(e)
  BY DEF Installed, Unseen, FreeFds
<1>2. \A f, g \in Fds : f \in Int /\ g \in Int
  BY RegistryAssumption
<1>3. ASSUME NEW f, First(f, Installed(e)) PROVE Installed(e) = {f} \cup Unseen(e) /\ f \notin Unseen(e)
  <2>1. f \in Installed(e) /\ \A g \in Installed(e) : f <= g
    BY <1>3 DEF First
  <2>2. f \notin Unseen(e)
    BY <1>1, <1>2, <2>1 DEF Unseen
  <2>3. ASSUME NEW g \in Installed(e), g # f PROVE g \in Unseen(e)
    <3>1. f < g
      BY <1>1, <1>2, <2>1, <2>3
    <3> QED
      BY <2>1, <3>1 DEF Unseen
  <2> QED
    BY <1>1, <2>1, <2>2, <2>3
<1> QED
  BY <1>1, <1>3

(* While a response is sent the process holds no buffer but strays and the two
   that SendResponse closes. *)
LEMMA BuffersStep == DaemonInv /\ BuffersInv /\ [DaemonNext]_dvars => BuffersInv'
<1> SUFFICES ASSUME DaemonInv, BuffersInv, [DaemonNext]_dvars PROVE BuffersInv'
  OBVIOUS
<1>0. NoFd \notin Fds
  BY RegistryAssumption DEF NoFd
<1>1. CASE ClientStep \/ Signal \/ UNCHANGED dvars
  BY <1>1 DEF ClientStep, Signal, dvars, daemonVars, bufferVars, BuffersInv
<1>2. CASE Enter \/ EpollWait \/ TimeOut \/ Stop \/ DispatchAccept \/ DispatchHangUp
  <2>1. pc # "send" /\ pc' # "send" /\ UNCHANGED bufferVars
    BY <1>2 DEF Enter, EpollWait, TimeOut, Stop, DispatchAccept, DispatchHangUp, AcceptFails, AcceptAndClose,
                AcceptConnection, HangUp, Handled, Proceed
  <2> QED
    BY <2>1 DEF bufferVars, BuffersInv
<1>3. ASSUME NEW e \in batch, Ignore(e) PROVE BuffersInv'
  <2>1. /\ pc # "send" /\ pc' # "send" /\ UNCHANGED <<input_fd, output_fd>>
        /\ dmabufs' = dmabufs \cup Unseen(e) /\ strays' = strays \cup Unseen(e)
    BY <1>3 DEF Ignore, Handled, Proceed
  <2>2. Unseen(e) \subseteq Fds
    BY InstalledIsNew DEF DaemonInv
  <2> QED
    BY <1>0, <2>1, <2>2 DEF BuffersInv
<1>4. ASSUME NEW e \in batch, NEW r \in Requests, Answer(e, r) PROVE BuffersInv'
  <2>1. /\ pc # "send" /\ pc' = "send" /\ dmabufs = strays
        /\ strays \subseteq Fds
    BY <1>4, Answering DEF DaemonInv, BuffersInv, DaemonTypeOK
  <2>2. /\ Installed(e) = ({input_fd'} \ {NoFd}) \cup Unseen(e)
        /\ input_fd' \notin Unseen(e) \cup strays
    <3>1. IF Installed(e) = {} THEN input_fd' = NoFd ELSE First(input_fd', Installed(e))
      BY <1>4 DEF Answer, AnswerCreate, AnswerDestroy, AnswerRender, AnswerInvalid, Read
    <3> QED
      BY <1>0, <2>1, <3>1, InstalledIsNew DEF DaemonInv, First
  <2>3. ASSUME NEW planes \in SUBSET (FreeFds \ Installed(e)), Hold(e, planes),
               IF planes = {} THEN output_fd' = NoFd ELSE output_fd' \in planes
        PROVE  BuffersInv'
    <3>1. /\ dmabufs' = dmabufs \cup Installed(e) \cup planes
          /\ strays' = strays \cup Unseen(e) \cup (planes \ {output_fd'})
      BY <2>3 DEF Hold
    <3>2. planes \subseteq Fds /\ planes \cap (Installed(e) \cup strays) = {}
      BY <2>1, <2>3 DEF FreeFds
    <3>3. Unseen(e) \subseteq Installed(e) /\ Installed(e) \subseteq Fds
      BY InstalledIsNew DEF DaemonInv
    <3>4. input_fd' \notin strays'
      BY <1>0, <2>2, <3>1, <3>2, <3>3
    <3>5. output_fd' \notin strays'
      BY <1>0, <2>1, <2>3, <3>1, <3>2, <3>3
    <3>6. dmabufs' = ({input_fd', output_fd'} \ {NoFd}) \cup strays'
      BY <1>0, <2>1, <2>2, <2>3, <3>1, <3>2
    <3> QED
      BY <2>1, <3>4, <3>5, <3>6 DEF BuffersInv
  <2>4. ASSUME output_fd' = NoFd, Hold(e, {}) PROVE BuffersInv'
    BY <2>3, <2>4
  <2>5. ASSUME AnswerRender(e, r), last'.status = "SUCCESS" PROVE BuffersInv'
    <3>1. PICK planes \in SUBSET (FreeFds \ Installed(e)) : output_fd' \in planes /\ Hold(e, planes)
      BY <2>5 DEF AnswerRender, First
    <3> QED
      BY <2>3, <3>1
  <2> QED
    BY <1>4, <2>4, <2>5 DEF Answer, AnswerCreate, AnswerDestroy, AnswerRender, AnswerInvalid
<1>5. CASE SendResponse
  <2>1. /\ pc = "send" /\ pc' # "send" /\ dmabufs' = dmabufs \ {input_fd, output_fd}
        /\ input_fd' = NoFd /\ output_fd' = NoFd /\ strays' = strays
    BY <1>5 DEF SendResponse, Proceed, Released
  <2>2. NoFd \notin strays
    BY <1>0 DEF DaemonInv, DaemonTypeOK
  <2> QED
    BY <2>1, <2>2 DEF BuffersInv
<1> QED
  BY <1>1, <1>2, <1>3, <1>4, <1>5 DEF DaemonNext, DaemonStep, DispatchData

(* The buffer that came with a request and the one sent with its answer are
   closed again, whatever number of descriptors comes with a message and of planes
   is exported: what stays is the second descriptor of a message and the further
   planes of an export (ipc.c:42-49, ipc_protocol.c:163, 272-277). *)
THEOREM BuffersAreClosed == DaemonSpec => []OnlyStraysStay
<1>1. DaemonInit => BuffersInv
  BY RegistryAssumption DEF DaemonInit, BuffersInv
<1>2. BuffersInv => OnlyStraysStay
  BY DEF BuffersInv, OnlyStraysStay
<1>3. DaemonInv /\ BuffersInv /\ [DaemonNext]_dvars => BuffersInv'
  BY BuffersStep
<1> QED
  BY <1>1, <1>2, <1>3, DaemonStarts, DaemonSteady, PTL DEF DaemonSpec

-----------------------------------------------------------------------------

(* OrderInv, for one connection. *)
Paired(c) ==
    /\ Len(toDaemon[c]) = 2 * (Len(asked[c]) - Len(Answers(c)))
    /\ \A i \in 1 .. Len(Answers(c)) : Answers(c)[i].op \in {asked[c][i].op, "INVALID"}
    /\ \A i \in Len(Answers(c)) + 1 .. Len(asked[c]), part \in Parts :
         toDaemon[c][2 * (i - Len(Answers(c))) - 2 + part] = [req |-> asked[c][i], part |-> part]

Whole(c) ==
    \A i \in 1 .. Len(asked[c]) :
        /\ asked[c][i].form = "whole"
        /\ asked[c][i].op = "DESTROY_NODE" => asked[c][i].node_id \in dropped[c]

LEMMA OrderIsPaired == OrderInv <=> \A c \in Sound : Paired(c) /\ Whole(c)
BY DEF OrderInv, AnswersInOrder, Paired, Whole

(* The whole request at the head of a stream that is in step is the one that
   is decoded. *)
LEMMA HeadIsDecoded ==
    ASSUME DaemonInv, NEW c \in Conns, Paired(c), Len(toDaemon[c]) >= 2,
           NEW e, peer[e.fd] = c
    PROVE  /\ Len(asked[c]) >= Len(Answers(c)) + 1
           /\ Len(Answers(c)) + 1 \in 1 .. Len(asked[c])
           /\ Decoded(Stream(e)) = {asked[c][Len(Answers(c)) + 1]}
<1> DEFINE n == Len(Answers(c))
           k == Len(asked[c])
           d == Len(toDaemon[c])
<1>1. n \in Nat /\ k \in Nat /\ d \in Nat
  BY QueueTypes
<1>2. d = 2 * (k - n) /\ d >= 2
  BY DEF Paired
<1>3. \A part \in Parts, i \in n + 1 .. k :
        toDaemon[c][2 * (i - n) - 2 + part] = [req |-> asked[c][i], part |-> part]
  BY DEF Paired
<1> HIDE DEF n, k, d
<1>4. k >= n + 1 /\ n + 1 \in n + 1 .. k /\ n + 1 \in 1 .. k
  BY <1>1, <1>2
<1>6. /\ toDaemon[c][1] = [req |-> asked[c][n + 1], part |-> 1]
      /\ toDaemon[c][2] = [req |-> asked[c][n + 1], part |-> 2]
  <2>1. ASSUME NEW i \in n + 1 .. k, i = n + 1, NEW part \in Parts
        PROVE  toDaemon[c][part] = [req |-> asked[c][i], part |-> part]
    <3>1. 2 * (i - n) - 2 + part = part
      BY <1>1, <2>1 DEF Parts
    <3>2. toDaemon[c][2 * (i - n) - 2 + part] = [req |-> asked[c][i], part |-> part]
      BY <1>3
    <3> QED
      BY <3>1, <3>2
  <2>2. 1 \in Parts /\ 2 \in Parts
    BY DEF Parts
  <2> QED
    BY <1>4, <2>1, <2>2
<1>7. Decoded(Stream(e)) = {asked[c][n + 1]}
  BY <1>6 DEF Decoded, Stream
<1> QED
  BY <1>4, <1>7 DEF n, k

LEMMA PairedAsks ==
    ASSUME DaemonInv, NEW c \in Conns, client[c] \in {"up", "half"}, Paired(c), Whole(c), Asks(c), clean'[c]
    PROVE  Paired(c)' /\ Whole(c)'
<1> DEFINE n == Len(Answers(c))
           k == Len(asked[c])
           d == Len(toDaemon[c])
<1>1. PICK r \in Requests :
        /\ asked'[c] = Append(asked[c], r) /\ toDaemon'[c] = toDaemon[c] \o UnitsOf(r)
        /\ Answers(c)' = Answers(c)
        /\ dropped'[c] = IF r.op = "DESTROY_NODE" THEN dropped[c] \cup {r.node_id} ELSE dropped[c]
        /\ r.form = "whole"
  BY DEF Asks
<1>2. UnitsOf(r) = << [req |-> r, part |-> 1], [req |-> r, part |-> 2] >>
  BY <1>1, UnitsOfARequest
<1>3. /\ Len(asked'[c]) = k + 1
      /\ \A i \in 1 .. k : asked'[c][i] = asked[c][i]
      /\ asked'[c][k + 1] = r
      /\ Len(toDaemon'[c]) = d + 2
      /\ \A i \in 1 .. d : toDaemon'[c][i] = toDaemon[c][i]
      /\ \A i \in 1 .. 2 : toDaemon'[c][d + i] = UnitsOf(r)[i]
  BY <1>1, <1>2, AskedGrows
<1>4. n \in Nat /\ k \in Nat /\ d \in Nat /\ Len(Answers(c)') = n
  BY <1>1, QueueTypes
<1>5. /\ d = 2 * (k - n)
      /\ \A i \in 1 .. n : Answers(c)[i].op \in {asked[c][i].op, "INVALID"}
      /\ \A i \in n + 1 .. k, part \in Parts :
           toDaemon[c][2 * (i - n) - 2 + part] = [req |-> asked[c][i], part |-> part]
  BY DEF Paired
<1>6. \A i \in 1 .. k : /\ asked[c][i].form = "whole"
                        /\ asked[c][i].op = "DESTROY_NODE" => asked[c][i].node_id \in dropped[c]
  BY DEF Whole
<1> HIDE DEF n, k, d
<1>7. \A i \in 1 .. k + 1 : i \in 1 .. k \/ i = k + 1
  BY <1>4
<1>8. Whole(c)'
  BY <1>1, <1>3, <1>6, <1>7 DEF Whole
<1>9. Len(toDaemon'[c]) = 2 * (Len(asked'[c]) - Len(Answers(c)'))
  BY <1>3, <1>4, <1>5
<1>10. \A i \in 1 .. n : i \in 1 .. k
  BY <1>4, <1>5
<1>11. \A i \in 1 .. Len(Answers(c)') : Answers(c)'[i].op \in {asked'[c][i].op, "INVALID"}
  BY <1>1, <1>3, <1>4, <1>5, <1>10
<1>12. ASSUME NEW i \in n + 1 .. k + 1, NEW part \in Parts
       PROVE  toDaemon'[c][2 * (i - n) - 2 + part] = [req |-> asked'[c][i], part |-> part]
  <2>1. part \in 1 .. 2
    BY DEF Parts
  <2>2. CASE i = k + 1
    <3>1. 2 * (i - n) - 2 + part = d + part
      BY <1>4, <1>5, <2>1, <2>2
    <3>2. UnitsOf(r)[part] = [req |-> r, part |-> part]
      BY <1>2, <2>1
    <3> QED
      BY <1>3, <2>1, <2>2, <3>1, <3>2
  <2>3. CASE i # k + 1
    <3>1. i \in n + 1 .. k /\ i \in 1 .. k /\ 2 * (i - n) - 2 + part \in 1 .. d
      BY <1>4, <1>5, <2>1, <2>3
    <3> QED
      BY <1>3, <1>5, <3>1
  <2> QED
    BY <2>2, <2>3
<1> QED
  BY <1>3, <1>4, <1>8, <1>9, <1>11, <1>12 DEF Paired

LEMMA PairedLearns ==
    ASSUME DaemonInv, NEW c \in Conns, client[c] \in {"up", "half"}, Paired(c), Whole(c), Learns(c)
    PROVE  Paired(c)' /\ Whole(c)'
<1> DEFINE n == Len(Answers(c))
           k == Len(asked[c])
<1>1. /\ n \in Nat \ {0} /\ Len(Answers(c)') = n - 1
      /\ \A i \in 1 .. n - 1 : Answers(c)'[i] = Answers(c)[i + 1]
      /\ k \in Nat \ {0} /\ Len(asked'[c]) = k - 1
      /\ \A i \in 1 .. k - 1 : asked'[c][i] = asked[c][i + 1]
  BY AnswerRead DEF Learns
<1>2. toDaemon'[c] = toDaemon[c] /\ dropped'[c] = dropped[c]
  BY DEF Learns
<1>3. /\ Len(toDaemon[c]) = 2 * (k - n)
      /\ \A i \in 1 .. n : Answers(c)[i].op \in {asked[c][i].op, "INVALID"}
      /\ \A i \in n + 1 .. k, part \in Parts :
           toDaemon[c][2 * (i - n) - 2 + part] = [req |-> asked[c][i], part |-> part]
  BY DEF Paired
<1>4. \A i \in 1 .. k : /\ asked[c][i].form = "whole"
                        /\ asked[c][i].op = "DESTROY_NODE" => asked[c][i].node_id \in dropped[c]
  BY DEF Whole
<1>5. Len(toDaemon[c]) \in Nat
  BY QueueTypes
<1>6. k >= n
  BY <1>1, <1>3, <1>5
<1> HIDE DEF n, k
<1>7. \A i \in 1 .. k - 1 : i + 1 \in 1 .. k
  BY <1>1
<1>8. \A i \in 1 .. n - 1 : i + 1 \in 1 .. n /\ i \in 1 .. k - 1
  BY <1>1, <1>6
<1>9. Whole(c)'
  <2> SUFFICES ASSUME NEW i \in 1 .. k - 1
               PROVE  /\ asked'[c][i].form = "whole"
                      /\ asked'[c][i].op = "DESTROY_NODE" => asked'[c][i].node_id \in dropped'[c]
    BY <1>1 DEF Whole
  <2>1. asked'[c][i] = asked[c][i + 1] /\ i + 1 \in 1 .. k
    BY <1>1, <1>7
  <2> QED
    BY <1>2, <1>4, <2>1
<1>10. Len(toDaemon'[c]) = 2 * (Len(asked'[c]) - Len(Answers(c)'))
  BY <1>1, <1>2, <1>3
<1>11. \A i \in 1 .. Len(Answers(c)') : Answers(c)'[i].op \in {asked'[c][i].op, "INVALID"}
  <2> SUFFICES ASSUME NEW i \in 1 .. n - 1 PROVE Answers(c)'[i].op \in {asked'[c][i].op, "INVALID"}
    BY <1>1
  <2>1. /\ Answers(c)'[i] = Answers(c)[i + 1] /\ asked'[c][i] = asked[c][i + 1]
        /\ i + 1 \in 1 .. n
    BY <1>1, <1>8
  <2> QED
    BY <1>3, <2>1
<1>12. ASSUME NEW i \in n - 1 + 1 .. k - 1, NEW part \in Parts
       PROVE  toDaemon'[c][2 * (i - (n - 1)) - 2 + part] = [req |-> asked'[c][i], part |-> part]
  <2>0. PICK j \in n + 1 .. k : j = i + 1
    BY <1>1
  <2>1. i \in 1 .. k - 1 /\ 2 * (i - (n - 1)) - 2 + part = 2 * (j - n) - 2 + part
    BY <1>1, <2>0 DEF Parts
  <2>2. toDaemon[c][2 * (j - n) - 2 + part] = [req |-> asked[c][j], part |-> part]
    BY <1>3
  <2>3. asked'[c][i] = asked[c][j]
    BY <1>1, <2>0, <2>1
  <2> QED
    BY <1>2, <2>1, <2>2, <2>3
<1> QED
  BY <1>1, <1>9, <1>10, <1>11, <1>12 DEF Paired

LEMMA PairedAnswered ==
    ASSUME DaemonInv, NEW c \in Conns, client[c] \in {"up", "half"}, Paired(c), Whole(c), IsAnswered(c)
    PROVE  Paired(c)' /\ Whole(c)'
<1> DEFINE n == Len(Answers(c))
           k == Len(asked[c])
           d == Len(toDaemon[c])
<1>1. /\ d >= 2 /\ Len(toDaemon'[c]) = d - 2
      /\ \A i \in 1 .. d - 2 : toDaemon'[c][i] = toDaemon[c][i + 2]
      /\ Len(Answers(c)') = n + 1
      /\ \A i \in 1 .. n : Answers(c)'[i] = Answers(c)[i]
      /\ Answers(c)'[n + 1] = Response'
  BY AnswerMade
<1>2. asked'[c] = asked[c] /\ dropped'[c] = dropped[c]
  BY DEF IsAnswered, Stays
<1>3. PICK e \in batch, r \in Requests : Answer(e, r) /\ peer[e.fd] = c
  BY DEF IsAnswered
<1>4. n + 1 \in 1 .. k /\ r = asked[c][n + 1] /\ Response'.op \in {r.op, "INVALID"}
  <2>1. r \in Decoded(Stream(e)) /\ Response'.op \in {r.op, "INVALID"}
    BY <1>3, Answering DEF DaemonInv
  <2> QED
    BY <1>1, <1>3, <2>1, HeadIsDecoded
<1>5. /\ d = 2 * (k - n)
      /\ \A i \in 1 .. n : Answers(c)[i].op \in {asked[c][i].op, "INVALID"}
      /\ \A i \in n + 1 .. k, part \in Parts :
           toDaemon[c][2 * (i - n) - 2 + part] = [req |-> asked[c][i], part |-> part]
  BY DEF Paired
<1>6. n \in Nat /\ k \in Nat /\ d \in Nat
  BY QueueTypes
<1>7. Whole(c)'
  BY <1>2 DEF Whole
<1> HIDE DEF n, k, d
<1>8. Len(toDaemon'[c]) = 2 * (Len(asked'[c]) - Len(Answers(c)'))
  BY <1>1, <1>2, <1>5, <1>6 DEF k
<1>9. \A i \in 1 .. n + 1 : i \in 1 .. n \/ i = n + 1
  BY <1>6
<1>10. \A i \in 1 .. n + 1 : Answers(c)'[i].op \in {asked'[c][i].op, "INVALID"}
  BY <1>1, <1>2, <1>4, <1>5, <1>9
<1>11. ASSUME NEW i \in n + 1 + 1 .. k, NEW part \in Parts
       PROVE  toDaemon'[c][2 * (i - (n + 1)) - 2 + part] = [req |-> asked'[c][i], part |-> part]
  <2>1. /\ i \in n + 1 .. k
        /\ 2 * (i - (n + 1)) - 2 + part \in 1 .. d - 2
        /\ 2 * (i - (n + 1)) - 2 + part + 2 = 2 * (i - n) - 2 + part
    BY <1>5, <1>6 DEF Parts
  <2> QED
    BY <1>1, <1>2, <1>5, <2>1
<1>12. Len(asked'[c]) = k
  BY <1>2 DEF k
<1>13. \A i \in Len(Answers(c)') + 1 .. Len(asked'[c]), part \in Parts :
         toDaemon'[c][2 * (i - Len(Answers(c)')) - 2 + part] = [req |-> asked'[c][i], part |-> part]
  BY <1>1, <1>11, <1>12
<1>14. \A i \in 1 .. Len(Answers(c)') : Answers(c)'[i].op \in {asked'[c][i].op, "INVALID"}
  BY <1>1, <1>10
<1> QED
  BY <1>7, <1>8, <1>13, <1>14 DEF Paired

LEMMA PairedIgnored ==
    ASSUME DaemonInv, NEW c \in Conns, client[c] \in {"up", "half"}, Paired(c), Whole(c), IsIgnored(c)
    PROVE  Paired(c)' /\ Whole(c)'
<1>1. PICK e \in batch : Ignore(e) /\ peer[e.fd] = c
  BY DEF IsIgnored
<1>2. /\ Len(toDaemon[c]) = 2 * (Len(asked[c]) - Len(Answers(c)))
      /\ toDaemon[c] \in Seq(Units) /\ Len(toDaemon[c]) \in Nat
      /\ Len(asked[c]) \in Nat /\ Len(Answers(c)) \in Nat
  BY QueueTypes DEF Paired
<1>3. ~ Len(toDaemon[c]) >= 2
  <2> SUFFICES ASSUME Len(toDaemon[c]) >= 2 PROVE FALSE
    OBVIOUS
  <2>1. PICK r \in Decoded(Stream(e)) : r.form # "whole"
    BY <1>1, <1>2 DEF Ignore, Stream
  <2>2. r = asked[c][Len(Answers(c)) + 1] /\ Len(Answers(c)) + 1 \in 1 .. Len(asked[c])
    BY <1>1, <2>1, HeadIsDecoded
  <2> QED
    BY <2>1, <2>2 DEF Whole
<1>4. Len(toDaemon[c]) = 0
  <2>1. \A d, n, k \in Nat : d = 2 * (k - n) /\ ~ d >= 2 => d = 0
    OBVIOUS
  <2> QED
    BY <1>2, <1>3, <2>1
<1>5. toDaemon[c] = << >> /\ toDaemon'[c] = << >>
  <2>1. toDaemon[c] = << >>
    BY <1>2, <1>4, EmptySeq
  <2>2. 0 < 2
    OBVIOUS
  <2> QED
    BY <1>2, <1>4, <2>1, <2>2, TwoUnitsRead DEF IsIgnored
<1> QED
  BY <1>5 DEF IsIgnored, Stays, Paired, Whole

(* Every step keeps the answers of a client that follows the protocol in the
   order of its requests. *)
LEMMA OrderStep == DaemonInv /\ OrderInv /\ [DaemonNext]_dvars => OrderInv'
<1> SUFFICES ASSUME DaemonInv, OrderInv, [DaemonNext]_dvars,
                    NEW c \in Conns, c \notin dead', client'[c] \in {"up", "half"}, clean'[c]
             PROVE  Paired(c)' /\ Whole(c)'
  BY DEF OrderInv, AnswersInOrder, Paired, Whole, Sound
<1>1. CASE Begins(c)
  <2>1. asked'[c] = << >> /\ toDaemon'[c] = << >> /\ Answers(c)' = << >>
    BY <1>1 DEF Begins, Unused
  <2> QED
    BY <2>1 DEF Paired, Whole
<1>2. CASE ~ Begins(c)
  <2>1. /\ client[c] \in {"up", "half"} /\ c \notin dead
        /\ Asks(c) \/ Learns(c) \/ IsAnswered(c) \/ IsIgnored(c) \/ Waits(c)
    BY <1>2, ConnectionSteps
  <2>2. clean[c]
    BY <2>1 DEF Asks, Learns, IsAnswered, IsIgnored, Waits, Stays
  <2>3. Paired(c) /\ Whole(c)
    BY <2>1, <2>2, OrderIsPaired DEF Sound
  <2>4. ASSUME Waits(c) PROVE Paired(c)' /\ Whole(c)'
    BY <2>3, <2>4 DEF Waits, Stays, Paired, Whole
  <2> QED
    BY <2>1, <2>3, <2>4, PairedAsks, PairedLearns, PairedAnswered, PairedIgnored
<1> QED
  BY <1>1, <1>2

(* A client that follows the protocol can take the responses it reads, in
   order, for the answers to its requests: none is lost, repeated or
   overtaken. *)
THEOREM AnswersComeInOrder == DaemonSpec => []AnswersInOrder
<1>1. DaemonInit => OrderInv
  BY DEF DaemonInit, OrderInv, AnswersInOrder, Answers, Sound
<1>2. OrderInv => AnswersInOrder
  BY DEF OrderInv
<1> QED
  BY <1>1, <1>2, OrderStep, DaemonStarts, DaemonSteady, PTL DEF DaemonSpec

-----------------------------------------------------------------------------

(* Until the counter comes round, a node is found by the count at which it
   was created. *)
LEMMA NodesByCount ==
    ASSUME TableInv, NodesNumbered
    PROVE  /\ \A n \in nodes : NodeId(n) = n.seq
           /\ \A n, id : Found(n, id) <=> n \in nodes /\ n.seq = id
<1>1. ASSUME NEW n \in nodes PROVE NodeId(n) = n.seq /\ n.seq \in Nat
  <2>1. n.seq \in Nat /\ n.seq < IdSpace
    BY RegistryAssumption DEF TableInv, TypeOK, Dated, NodesNumbered
  <2> QED
    BY <2>1, IdBelow DEF NodeId
<1>2. \A m, n \in nodes : m.seq = n.seq => m = n
  BY DEF TableInv, Dated
<1>3. ASSUME NEW n, NEW id PROVE Found(n, id) <=> n \in nodes /\ n.seq = id
  <2>1. ASSUME n \in nodes, n.seq = id, NEW m \in nodes, NodeId(m) = id PROVE m.seq <= n.seq
    BY <1>1, <2>1
  <2> QED
    BY <1>1, <2>1 DEF Found
<1> QED
  BY <1>1, <1>3

LEMMA OwnsByCount ==
    ASSUME TableInv, NodesNumbered, NEW c, NEW id
    PROVE  Owns(c, id) <=> \E n \in nodes : n.seq = id /\ n.client_id = c
BY NodesByCount DEF Owns

(* The counters have not come round before, if they have not now. *)
LEMMA NumberedBefore ==
    ASSUME DaemonInv, [DaemonNext]_dvars, ClientsNumbered', NodesNumbered'
    PROVE  ClientsNumbered /\ NodesNumbered
<1>1. [Next]_vars
  BY TableMoves DEF DaemonInv, TableInv
<1>2. /\ next_client \in Nat /\ next_node \in Nat
      /\ next_client' \in Nat /\ next_node' \in Nat
  BY <1>1, TableStep DEF DaemonInv, TableInv, TypeOK
<1>3. next_client <= next_client' /\ next_node <= next_node'
  BY <1>1, CountersGrow DEF DaemonInv, TableInv
<1> QED
  BY <1>2, <1>3, RegistryAssumption DEF ClientsNumbered, NodesNumbered

(* A connection loses a node only when its own client asks to destroy it. *)
LEMMA HoldsStep ==
    ASSUME DaemonInv, [DaemonNext]_dvars, ClientsNumbered', NodesNumbered',
           NEW c \in Conns, client[c] \in {"up", "half"}, Paired(c), Whole(c),
           NEW id, Holds(c, id)
    PROVE  Holds(c, id)' \/ id \in dropped[c]
<1> USE DEF DaemonInv
<1>0. ClientsNumbered /\ NodesNumbered
  BY NumberedBefore
<1>1. [Next]_vars /\ TableInv'
  BY TableMoves, TableStep DEF TableInv
<1>2. /\ \A s \in ActiveSlots : clients[s].fd \in open
      /\ \A s, t \in ActiveSlots :
           (clients[s].fd = clients[t].fd \/ clients[s].client_id = clients[t].client_id) => s = t
  BY <1>0 DEF SlotInv, OneSlotPerConnection
<1>3. PICK t \in ActiveSlots : peer[clients[t].fd] = c /\ Owns(clients[t].client_id, id)
  BY DEF Holds
<1>4. PICK n \in nodes : n.seq = id /\ n.client_id = clients[t].client_id
  BY <1>0, <1>3, OwnsByCount
<1>5. clients \in [Slots -> Connections]
  BY DEF TableInv, TypeOK
<1>6. ASSUME t \in ActiveSlots', clients'[t] = clients[t], peer'[clients[t].fd] = c, n \in nodes'
      PROVE  Holds(c, id)'
  <2>1. Owns(clients[t].client_id, id)'
    <3>1. \A m, i : Found(m, i)' <=> m \in nodes' /\ m.seq = i
      <4>1. ASSUME NEW m \in nodes' PROVE m.seq \in Nat /\ Id(m.seq) = m.seq
        <5>1. m.seq \in Nat /\ m.seq < IdSpace
          BY <1>1, RegistryAssumption DEF TableInv, TypeOK, Dated, NodesNumbered
        <5> QED
          BY <5>1, IdBelow
      <4> QED
        BY <4>1 DEF Found, NodeId
    <3> QED
      BY <1>4, <1>6, <3>1 DEF Owns
  <2> QED
    BY <1>3, <1>6, <2>1 DEF Holds
<1>7. ASSUME UNCHANGED <<clients, peer>>, n \in nodes' PROVE Holds(c, id)'
  BY <1>3, <1>6, <1>7 DEF ActiveSlots
<1>8. ASSUME UNCHANGED <<tableVars, peer>> PROVE Holds(c, id)'
  BY <1>7, <1>8 DEF tableVars, vars
<1>9. CASE ClientStep
  BY <1>8, <1>9 DEF ClientStep, Connect, Send, Receive, HalfClose, Close, kernelVars
<1>10. CASE Enter \/ EpollWait \/ TimeOut \/ Stop \/ Signal \/ SendResponse \/ UNCHANGED dvars
  BY <1>7, <1>8, <1>10 DEF Enter, EpollWait, TimeOut, Stop, Signal, SendResponse, Return, dvars, kernelVars
<1>11. ASSUME NEW e \in batch, AcceptFails(e) \/ Ignore(e) PROVE Holds(c, id)'
  BY <1>8, <1>11 DEF AcceptFails, Ignore, kernelVars
<1>12. ASSUME NEW fd \in Fds, Register(fd) \/ RegisterRefused(fd) \/ UNCHANGED tableVars
       PROVE  t \in ActiveSlots' /\ clients'[t] = clients[t] /\ nodes' = nodes
  BY <1>5, <1>12 DEF Register, RegisterRefused, tableVars, vars, First, FreeSlots, ActiveSlots
<1>13. ASSUME NEW e \in batch, AcceptAndClose(e) PROVE Holds(c, id)'
  BY <1>3, <1>6, <1>12, <1>13 DEF AcceptAndClose
<1>14. ASSUME NEW e \in batch, AcceptConnection(e) PROVE Holds(c, id)'
  <2>1. PICK fd \in Fds : Register(fd) /\ peer' = [peer EXCEPT ![fd] = Head(backlog)]
    BY <1>14 DEF AcceptConnection
  <2>2. fd # clients[t].fd /\ clients[t].fd \in Fds
    BY <1>2, <2>1 DEF Register, TableInv, TypeOK
  <2>3. peer'[clients[t].fd] = c
    BY <1>3, <2>1, <2>2 DEF DaemonTypeOK
  <2> QED
    BY <1>6, <1>12, <2>1, <2>3
<1>15. ASSUME NEW e \in batch, HangUp(e) PROVE Holds(c, id)'
  <2>1. /\ client[peer[e.fd]] = "closed"
        /\ peer' = [peer EXCEPT ![e.fd] = NoConn]
    BY <1>15, HangingUp
  <2>2. PICK s \in ActiveSlots :
          /\ clients[s].fd = e.fd
          /\ nodes' = nodes \ NodesOf(clients[s].client_id)
          /\ clients' = [clients EXCEPT ![s] = ClearedSlot]
    BY <1>15 DEF HangUp, Unregister, First, SlotsOf, NodesOfSlot
  <2>3. clients[t].fd # e.fd /\ t # s /\ clients[t].client_id # clients[s].client_id
    BY <1>2, <1>3, <2>1, <2>2
  <2>4. t \in ActiveSlots' /\ clients'[t] = clients[t] /\ n \in nodes'
    BY <1>4, <1>5, <2>2, <2>3 DEF ActiveSlots, NodesOf
  <2>5. peer'[clients[t].fd] = c
    BY <1>2, <1>3, <2>1, <2>3 DEF DaemonTypeOK, Places
  <2> QED
    BY <1>6, <2>4, <2>5
<1>16. ASSUME NEW e \in batch, NEW r \in Requests, Answer(e, r) PROVE Holds(c, id)' \/ id \in dropped[c]
  <2>1. UNCHANGED <<clients, peer>> /\ r \in Decoded(Stream(e)) /\ Len(Stream(e)) >= 2
    BY <1>16, Answering
  <2>2. CASE n \in nodes'
    BY <1>7, <2>1, <2>2
  <2>3. CASE n \notin nodes'
    <3>1. r.op = "DESTROY_NODE" /\ DestroyNode(e.fd, r.node_id)
      BY <1>16, <2>3 DEF Answer, AnswerCreate, AnswerDestroy, AnswerRender, AnswerInvalid, CreateNode,
                         CreateOverLimit, CreateWithoutMemory, DestroyInvalid, RenderBlur, Reject
    <3>2. PICK s \in ActiveSlots : clients[s].fd = e.fd /\ Owns(clients[s].client_id, r.node_id)
      BY <3>1 DEF DestroyNode, Caller, First, SlotsOf
    <3>3. Found(n, r.node_id)
      BY <2>3, <3>1 DEF DestroyNode
    <3>4. n.seq = r.node_id
      BY <1>0, <3>3, NodesByCount
    <3>5. PICK m \in nodes : m.seq = r.node_id /\ m.client_id = clients[s].client_id
      BY <1>0, <3>2, OwnsByCount
    <3>6. m = n
      BY <3>4, <3>5 DEF TableInv, Dated
    <3>7. s = t /\ peer[e.fd] = c
      BY <1>2, <1>3, <1>4, <3>2, <3>5, <3>6
    <3>8. r = asked[c][Len(Answers(c)) + 1] /\ Len(Answers(c)) + 1 \in 1 .. Len(asked[c])
      BY <2>1, <3>7, HeadIsDecoded DEF Stream
    <3>9. r.node_id \in dropped[c]
      BY <3>1, <3>8 DEF Whole
    <3> QED
      BY <1>4, <3>4, <3>9
  <2> QED
    BY <2>2, <2>3
<1> QED
  BY <1>9, <1>10, <1>11, <1>13, <1>14, <1>15, <1>16
     DEF DaemonNext, DaemonStep, DispatchAccept, DispatchHangUp, DispatchData

(* A creation that is answered with success has given the caller the node. *)
LEMMA CreatedIsHeld ==
    ASSUME DaemonInv, [DaemonNext]_dvars, ClientsNumbered', NodesNumbered', NEW c \in Conns,
           IsAnswered(c), Response'.op = "CREATE_NODE", Response'.status = "SUCCESS"
    PROVE  Holds(c, Response.node_id)'
<1> USE DEF DaemonInv
<1>1. PICK e \in batch, r \in Requests : Answer(e, r) /\ peer[e.fd] = c
  BY DEF IsAnswered
<1>2. last'.op = "CREATE_NODE" /\ last'.status = "SUCCESS" /\ Response'.node_id = last'.node_id
  BY DEF Response
<1>3. CreateNode(e.fd)
  <2>1. AnswerCreate(e, r)
    BY <1>1, <1>2 DEF Answer, AnswerDestroy, AnswerRender, AnswerInvalid, DestroyNode, DestroyInvalid,
                      RenderBlur, Reject, Told
  <2> QED
    BY <1>2, <2>1 DEF AnswerCreate, CreateOverLimit, CreateWithoutMemory, Told
<1>4. PICK s \in ActiveSlots :
        /\ clients[s].fd = e.fd
        /\ nodes' = nodes \cup {[seq |-> next_node, client_id |-> clients[s].client_id]}
  BY <1>3 DEF CreateNode, Caller, First, SlotsOf
<1>5. last'.node_id = next_node
  <2>1. next_node \in Nat /\ next_node < IdSpace
    BY <1>3, RegistryAssumption DEF TableInv, TypeOK, CreateNode, NodesNumbered
  <2> QED
    BY <1>2, <1>3, <2>1, IdBelow DEF CreateNode, Told
<1>6. TableInv'
  BY TableMoves, TableStep DEF TableInv
<1>7. UNCHANGED <<clients, peer>>
  BY <1>1, Answering
<1>8. ASSUME NEW m \in nodes' PROVE m.seq \in Nat /\ Id(m.seq) = m.seq
  <2>1. m.seq \in Nat /\ m.seq < IdSpace
    BY <1>6, RegistryAssumption DEF TableInv, TypeOK, Dated, NodesNumbered
  <2> QED
    BY <2>1, IdBelow
<1>9. \A m, i : Found(m, i)' <=> m \in nodes' /\ m.seq = i
  BY <1>8 DEF Found, NodeId
<1>10. \E m \in nodes' : m.seq = Response'.node_id /\ m.client_id = clients'[s].client_id
  <2> DEFINE new == [seq |-> next_node, client_id |-> clients[s].client_id]
  <2>1. new \in nodes'
    BY <1>4
  <2>2. new.seq = Response'.node_id
    BY <1>2, <1>5
  <2>3. new.client_id = clients'[s].client_id
    BY <1>7
  <2> HIDE DEF new
  <2> QED
    BY <2>1, <2>2, <2>3
<1>11. Owns(clients[s].client_id, Response.node_id)'
  BY <1>9, <1>10 DEF Owns
<1> QED
  BY <1>1, <1>4, <1>7, <1>11 DEF Holds, ActiveSlots

(* No answer that reports an invalid request reports success. *)
LEMMA AnswersRefuse ==
    ASSUME DaemonInv, NEW c \in Conns
    PROVE  \A i \in 1 .. Len(Answers(c)) : Refuses(Answers(c)[i])
<1>1. \A i \in 1 .. Len(toClient[c]) : Refuses(toClient[c][i])
  BY DEF DaemonInv, Responding
<1>2. CASE Answers(c) = toClient[c]
  BY <1>1, <1>2
<1>3. CASE pc = "send" /\ Answers(c) = Append(toClient[c], Response)
  <2>1. toClient[c] \in Seq(Responses) /\ Response \in Responses /\ Refuses(Response)
    BY <1>3 DEF DaemonInv, DaemonTypeOK, Responding
  <2>2. /\ Len(toClient[c]) \in Nat
        /\ Len(Answers(c)) = Len(toClient[c]) + 1
        /\ \A i \in 1 .. Len(toClient[c]) : Answers(c)[i] = toClient[c][i]
        /\ Answers(c)[Len(toClient[c]) + 1] = Response
    BY <1>3, <2>1, AppendProperties
  <2>3. \A i \in 1 .. Len(toClient[c]) + 1 : i \in 1 .. Len(toClient[c]) \/ i = Len(toClient[c]) + 1
    BY <2>2
  <2> QED
    BY <1>1, <2>1, <2>2, <2>3
<1> QED
  BY <1>2, <1>3 DEF Answers

(* HandlesInv, for one connection. *)
Provided(c) ==
    /\ \A id \in told[c] \ dropped[c] : Holds(c, id)
    /\ \A i \in 1 .. Len(Answers(c)) :
         Answers(c)[i].op = "CREATE_NODE" /\ Answers(c)[i].status = "SUCCESS" =>
             Answers(c)[i].node_id \in dropped[c] \/ Holds(c, Answers(c)[i].node_id)

LEMMA HandlesStep == DaemonInv /\ OrderInv /\ HandlesInv /\ [DaemonNext]_dvars => HandlesInv'
<1> SUFFICES ASSUME DaemonInv, OrderInv, HandlesInv, [DaemonNext]_dvars,
                    ClientsNumbered', NodesNumbered',
                    NEW c \in Conns, c \notin dead', client'[c] \in {"up", "half"}, clean'[c]
             PROVE  Provided(c)'
  BY DEF HandlesInv, Provided, Sound
<1>0. ClientsNumbered /\ NodesNumbered
  BY NumberedBefore
<1>1. CASE Begins(c)
  <2>1. told'[c] = {} /\ Answers(c)' = << >>
    BY <1>1 DEF Begins, Unused
  <2> QED
    BY <2>1 DEF Provided
<1>2. CASE ~ Begins(c)
  <2>1. /\ client[c] \in {"up", "half"} /\ c \notin dead
        /\ Asks(c) \/ Learns(c) \/ IsAnswered(c) \/ IsIgnored(c) \/ Waits(c)
    BY <1>2, ConnectionSteps
  <2>2. clean[c] /\ dropped[c] \subseteq dropped'[c]
    BY <2>1 DEF Asks, Learns, IsAnswered, IsIgnored, Waits, Stays
  <2>3. Paired(c) /\ Whole(c)
    BY <2>1, <2>2, OrderIsPaired DEF Sound
  <2>4. /\ \A id \in told[c] \ dropped[c] : Holds(c, id)
        /\ \A i \in 1 .. Len(Answers(c)) :
             Answers(c)[i].op = "CREATE_NODE" /\ Answers(c)[i].status = "SUCCESS" =>
                 Answers(c)[i].node_id \in dropped[c] \/ Holds(c, Answers(c)[i].node_id)
    BY <1>0, <2>1, <2>2 DEF HandlesInv, Sound
  <2>5. \A id : Holds(c, id) => Holds(c, id)' \/ id \in dropped'[c]
    BY <2>1, <2>2, <2>3, HoldsStep
  <2>6. \A i \in 1 .. Len(Answers(c)) :
          Answers(c)[i].op = "CREATE_NODE" /\ Answers(c)[i].status = "SUCCESS" =>
              Answers(c)[i].node_id \in dropped'[c] \/ Holds(c, Answers(c)[i].node_id)
    BY <2>2, <2>4
  <2>7. ASSUME Answers(c)' = Answers(c), told'[c] = told[c] PROVE Provided(c)'
    <3>1. \A id \in told'[c] \ dropped'[c] : Holds(c, id)'
      BY <2>2, <2>4, <2>5, <2>7
    <3>2. ASSUME NEW i \in 1 .. Len(Answers(c)'), NEW id, id = Answers(c)'[i].node_id,
                 Answers(c)'[i].op = "CREATE_NODE", Answers(c)'[i].status = "SUCCESS"
          PROVE  id \in dropped'[c] \/ Holds(c, id)'
      <4>1. id \in dropped'[c] \/ Holds(c, id)
        BY <2>6, <2>7, <3>2
      <4> QED
        BY <2>5, <4>1
    <3> QED
      BY <3>1, <3>2 DEF Provided
  <2>8. ASSUME Learns(c) PROVE Provided(c)'
    <3>1. /\ Len(Answers(c)) \in Nat \ {0} /\ Len(Answers(c)') = Len(Answers(c)) - 1
          /\ \A i \in 1 .. Len(Answers(c)') : Answers(c)'[i] = Answers(c)[i + 1]
          /\ Head(Answers(c)) = Answers(c)[1] /\ Head(asked[c]) = asked[c][1]
      BY <2>1, <2>8, AnswerRead DEF Learns
    <3>2. \A i \in 1 .. Len(Answers(c)') : i + 1 \in 1 .. Len(Answers(c))
      BY <3>1
    <3>3. ASSUME NEW i \in 1 .. Len(Answers(c)'), NEW id, id = Answers(c)'[i].node_id,
                 Answers(c)'[i].op = "CREATE_NODE", Answers(c)'[i].status = "SUCCESS"
          PROVE  id \in dropped'[c] \/ Holds(c, id)'
      <4>1. Answers(c)'[i] = Answers(c)[i + 1] /\ i + 1 \in 1 .. Len(Answers(c))
        BY <3>1, <3>2
      <4>2. id \in dropped'[c] \/ Holds(c, id)
        BY <2>6, <3>3, <4>1
      <4> QED
        BY <2>5, <4>2
    <3>4. 1 \in 1 .. Len(Answers(c))
      BY <3>1
    <3>5. ASSUME NEW id \in told'[c] \ dropped'[c] PROVE Holds(c, id)'
      <4>1. CASE id \in told[c]
        BY <2>2, <2>4, <2>5, <3>5, <4>1
      <4>2. CASE id \notin told[c]
        <5>1. /\ Head(asked[c]).op = "CREATE_NODE" /\ Head(Answers(c)).status = "SUCCESS"
              /\ id = Head(Answers(c)).node_id
          BY <2>8, <3>5, <4>2 DEF Learns
        <5>2. asked[c][1].op = "CREATE_NODE" /\ Answers(c)[1].status = "SUCCESS" /\ id = Answers(c)[1].node_id
          BY <3>1, <5>1
        <5>3. Answers(c)[1].op \in {asked[c][1].op, "INVALID"} /\ Refuses(Answers(c)[1])
          BY <2>3, <3>4, AnswersRefuse DEF Paired
        <5>4. Answers(c)[1].op = "CREATE_NODE"
          BY <5>2, <5>3 DEF Refuses
        <5>5. id \in dropped'[c] \/ Holds(c, id)
          BY <2>6, <3>4, <5>2, <5>4
        <5> QED
          BY <2>5, <3>5, <5>5
      <4> QED
        BY <4>1, <4>2
    <3> QED
      BY <3>3, <3>5 DEF Provided
  <2>9. ASSUME IsAnswered(c) PROVE Provided(c)'
    <3>1. /\ Len(Answers(c)) \in Nat /\ Len(Answers(c)') = Len(Answers(c)) + 1
          /\ \A i \in 1 .. Len(Answers(c)) : Answers(c)'[i] = Answers(c)[i]
          /\ Answers(c)'[Len(Answers(c)) + 1] = Response'
      BY <2>9, AnswerMade, QueueTypes
    <3>2. told'[c] = told[c]
      BY <2>9 DEF IsAnswered, Stays
    <3>3. \A id \in told'[c] \ dropped'[c] : Holds(c, id)'
      BY <2>2, <2>4, <2>5, <3>2
    <3>4. ASSUME NEW i \in 1 .. Len(Answers(c)'), NEW id, id = Answers(c)'[i].node_id,
                 Answers(c)'[i].op = "CREATE_NODE", Answers(c)'[i].status = "SUCCESS"
          PROVE  id \in dropped'[c] \/ Holds(c, id)'
      <4>1. i \in 1 .. Len(Answers(c)) \/ i = Len(Answers(c)) + 1
        BY <3>1
      <4>2. CASE i \in 1 .. Len(Answers(c))
        <5>1. id \in dropped'[c] \/ Holds(c, id)
          BY <2>6, <3>1, <3>4, <4>2
        <5> QED
          BY <2>5, <5>1
      <4>3. CASE i = Len(Answers(c)) + 1
        <5>1. Answers(c)'[i] = Response'
          BY <3>1, <4>3
        <5>2. Response'.op = "CREATE_NODE" /\ Response'.status = "SUCCESS" /\ id = Response'.node_id
          BY <3>4, <5>1
        <5>3. Holds(c, Response.node_id)'
          BY <2>9, <5>2, CreatedIsHeld
        <5> QED
          BY <5>2, <5>3 DEF Holds, Owns
      <4> QED
        BY <4>1, <4>2, <4>3
    <3> QED
      BY <3>3, <3>4 DEF Provided
  <2> QED
    BY <2>1, <2>7, <2>8, <2>9 DEF Asks, IsIgnored, Waits, Stays
<1> QED
  BY <1>1, <1>2

(* A client that follows the protocol keeps each node it has been given until
   it asks to destroy it, until a counter comes round. *)
THEOREM HandlesStayValid == DaemonSpec => []HandlesValid
<1>1. DaemonInit => OrderInv /\ HandlesInv
  BY DEF DaemonInit, OrderInv, AnswersInOrder, HandlesInv, Answers, Sound
<1>2. HandlesInv => HandlesValid
  BY DEF HandlesInv, HandlesValid
<1> QED
  BY <1>1, <1>2, HandlesStep, OrderStep, DaemonStarts, DaemonSteady, PTL DEF DaemonSpec

=============================================================================
