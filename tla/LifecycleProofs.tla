--------------------------- MODULE LifecycleProofs ---------------------------
(***************************************************************************)
(* Proofs that the socket of a daemon is its owner's alone while it can be *)
(* connected to, that a stale socket keeps no daemon from starting, that a *)
(* daemon alone is found at its path, and that it cleans up behind itself. *)
(*                                                                         *)
(* The argument is about one process at a time: what the others do to the  *)
(* files can only take the path away from it, and only if the two have     *)
(* shared the machine.                                                     *)
(***************************************************************************)
EXTENDS Lifecycle, TLAPS

(* The stages from a chmod() that has succeeded on, until the socket is
   closed. *)
Configured(d) == At(d, "listen") \/ daemon[d].listening

Reachable == Bound \ {"remove"}

(* What a process can rely on, whatever the others do. *)
Local(d) ==
    /\ daemon[d] \in Processes
    /\ Running(d) => daemon[d].path \in Paths
    /\ daemon[d].sock # NoSocket <=> daemon[d].pc \in Bound
    /\ daemon[d].listening => daemon[d].pc \in {"epoll", "serve", "close"}
    /\ Configured(d) /\ file[Address(d)] = daemon[d].sock => mode[daemon[d].sock] = "owner"
    /\ At(d, "bind") /\ ~ daemon[d].shared /\ ~ daemon[d].denied /\ Address(d) = daemon[d].path
       => file[Address(d)] = NoSocket
    /\ daemon[d].pc \in Reachable /\ ~ daemon[d].shared => file[Address(d)] = daemon[d].sock

(* A socket is only ever at a path that fits. *)
FilesOK ==
    /\ socket_path \in Paths
    /\ file \in [Paths -> Sockets \cup {NoSocket}]
    /\ mode \in [Sockets -> {"umask", "owner"}]
    /\ \A p \in Paths : file[p] # NoSocket => SunPath[p] = p

Meetings == \A d, e \in Daemons : d # e /\ Running(d) /\ Running(e) => daemon[d].shared

Inv ==
    /\ FilesOK
    /\ DOMAIN daemon = Daemons
    /\ daemon = [d \in Daemons |-> daemon[d]]
    /\ \A d \in Daemons : Local(d)
    /\ Meetings

(* What the step of one process may do to the files and the sockets of the
   others: remove one, link one of its own, give one to its owner. *)
Harmless(d) ==
    /\ UNCHANGED socket_path
    /\ FilesOK'
    /\ \A e \in Daemons \ {d} : daemon[e].pc \in Bound =>
        /\ file'[Address(e)] = daemon[e].sock => file[Address(e)] = daemon[e].sock
        /\ mode[daemon[e].sock] = "owner" => mode'[daemon[e].sock] = "owner"

-----------------------------------------------------------------------------

(* Nothing runs at first, and there are no files. *)
LEMMA InvInit == Init => Inv
<1> SUFFICES ASSUME Init PROVE Inv
  OBVIOUS
<1>1. FilesOK
  BY LifecycleAssumption DEF Init, FilesOK
<1>2. \A d \in Daemons : daemon[d] = Off("none")
  BY DEF Init
<1>3. Off("none") \in Processes
  BY DEF Off, Processes, Stages
<1>4. \A d \in Daemons : Local(d)
  BY <1>2, <1>3 DEF Local, Running, At, Off, Bound, Configured, Reachable
<1>5. Meetings
  BY <1>2 DEF Meetings, Running, Off
<1> QED
  BY <1>1, <1>4, <1>5 DEF Init, Inv

(* A process that runs makes a step of its own, and the others are as they
   were. *)
LEMMA OneMoves ==
    ASSUME Inv, NEW d \in Daemons, Running(d), NEW r,
           daemon' = [daemon EXCEPT ![d] = r],
           r.pc # "off" => r.shared = daemon[d].shared,
           Harmless(d), Local(d)'
    PROVE  Inv'
<1>1. \A e \in Daemons \ {d} : daemon'[e] = daemon[e]
  BY DEF Inv
<1>2. daemon'[d] = r /\ DOMAIN daemon' = Daemons
  BY DEF Inv
<1>3. Meetings'
  BY <1>1, <1>2 DEF Inv, Meetings, Running
<1>4. ASSUME NEW e \in Daemons \ {d} PROVE Local(e)'
  <2>1. Local(e) /\ daemon'[e] = daemon[e]
    BY <1>1 DEF Inv
  <2>2. Running(e) => daemon[e].shared
    BY DEF Inv, Meetings
  <2>3. Address(e)' = Address(e)
    BY <2>1 DEF Address
  <2>4. Configured(e) => daemon[e].pc \in Bound
    BY <2>1 DEF Local, Configured, At, Bound
  <2>5. Configured(e) /\ file'[Address(e)] = daemon[e].sock => mode'[daemon[e].sock] = "owner"
    BY <2>1, <2>4 DEF Harmless, Local
  <2>6. Configured(e)' = Configured(e)
    BY <2>1 DEF Configured, At
  <2>7. daemon[e].pc \in Reachable => file'[Address(e)] = file[Address(e)] \/ daemon[e].shared
    BY <2>2 DEF Running, Reachable, Bound
  <2> QED
    BY <2>1, <2>2, <2>3, <2>5, <2>6, <2>7 DEF Local, Running, At
<1>5. \A e \in Daemons : Local(e)'
  BY <1>4
<1>6. daemon' = [e \in Daemons |-> daemon'[e]]
  BY DEF Inv
<1> QED
  BY <1>2, <1>3, <1>5, <1>6 DEF Inv, Harmless

(* Removing a file harms nobody's socket. *)
LEMMA RemovedIsHarmless ==
    ASSUME Inv, NEW d \in Daemons, UNCHANGED <<socket_path, mode>>,
           file' = file \/ \E p \in Paths : file' = Removed(p)
    PROVE  Harmless(d)
<1>1. FilesOK'
  BY DEF Inv, FilesOK, Removed
<1>2. ASSUME NEW e \in Daemons \ {d}, daemon[e].pc \in Bound, file'[Address(e)] = daemon[e].sock
      PROVE  file[Address(e)] = daemon[e].sock
  <2>1. daemon[e].sock # NoSocket /\ Address(e) \in Paths
    BY <1>2, LifecycleAssumption DEF Inv, Local, Running, Bound, Address
  <2> QED
    BY <1>2, <2>1 DEF Inv, FilesOK, Removed
<1> QED
  BY <1>1, <1>2 DEF Harmless

(* A process that ends keeps nothing. *)
LEMMA Ends ==
    ASSUME Inv, NEW d \in Daemons, NEW code \in {"none", "success", "failure"}, Running(d), Exit(d, code),
           UNCHANGED <<socket_path, mode>>,
           file' = file \/ \E p \in Paths : file' = Removed(p)
    PROVE  Inv'
<1>1. Harmless(d)
  BY RemovedIsHarmless
<1>2. daemon' = [daemon EXCEPT ![d] = Off(code)] /\ daemon'[d] = Off(code)
  BY DEF Exit, Inv
<1>3. Off(code) \in Processes /\ Off(code).pc = "off" /\ Off(code).sock = NoSocket /\ ~ Off(code).listening
  BY DEF Off, Processes, Stages
<1>4. Local(d)'
  BY <1>2, <1>3 DEF Local, Running, At, Bound, Configured, Reachable
<1> QED
  BY <1>1, <1>2, <1>3, <1>4, OneMoves

(* A step that touches no file, and takes the process where it can rely on no
   more than before. *)
LEMMA OnlyItself ==
    ASSUME Inv, NEW d \in Daemons, Running(d), UNCHANGED <<socket_path, file, mode>>,
           NEW r \in Processes, daemon' = [daemon EXCEPT ![d] = r],
           r.path = daemon[d].path, r.sock = daemon[d].sock, r.shared = daemon[d].shared,
           r.denied = daemon[d].denied, r.pc # "bind" \/ r.pc = daemon[d].pc,
           r.pc \in Bound <=> daemon[d].pc \in Bound,
           r.pc \in Reachable => daemon[d].pc \in Reachable,
           r.pc = "listen" \/ r.listening => Configured(d),
           r.listening => r.pc \in {"epoll", "serve", "close"}
    PROVE  Inv'
<1>1. Harmless(d)
  BY RemovedIsHarmless
<1>2. daemon'[d] = r /\ Local(d)
  BY DEF Inv
<1>3. Address(d)' = Address(d)
  BY <1>2 DEF Address
<1>4. Local(d)'
  BY <1>2, <1>3 DEF Local, Running, At, Configured
<1> QED
  BY <1>1, <1>2, <1>4, OneMoves

(* Calls that change neither a file nor what the process holds. *)
LEMMA QuietCalls ==
    ASSUME Inv, NEW d \in Daemons,
           \/ InstallHandlers(d) \/ OpenSocket(d) \/ Listen(d) \/ SetUpFails(d) \/ EnterLoop(d)
           \/ EnterLoopFails(d) \/ Reload(d) \/ LeaveLoop(d) \/ Close(d) \/ Terminate(d)
    PROVE  Inv'
<1>1. daemon[d] \in Processes
  BY DEF Inv, Local
<1>2. CASE InstallHandlers(d) \/ OpenSocket(d) \/ EnterLoop(d)
  <2> DEFINE r == [daemon[d] EXCEPT !.pc = After(@)]
  <2>1. /\ daemon' = [daemon EXCEPT ![d] = r] /\ UNCHANGED <<socket_path, file, mode>>
        /\ daemon[d].pc \in {"handlers", "socket", "epoll"}
    BY <1>2 DEF InstallHandlers, OpenSocket, EnterLoop, Step, At
  <2>2. /\ r \in Processes /\ r.path = daemon[d].path /\ r.sock = daemon[d].sock
        /\ r.shared = daemon[d].shared /\ r.denied = daemon[d].denied
        /\ r.listening = daemon[d].listening /\ r.pc = After(daemon[d].pc)
        /\ r.pc \in {"socket", "unlink", "serve"}
        /\ (daemon[d].pc = "epoll" <=> r.pc = "serve")
    BY <1>1, <2>1 DEF Processes, Stages, After, Following
  <2>3. daemon[d].listening => daemon[d].pc = "epoll"
    BY <2>1 DEF Inv, Local
  <2> HIDE DEF r
  <2> QED
    BY <2>1, <2>2, <2>3, OnlyItself DEF Running, Bound, Reachable, Configured, At
<1>3. CASE Listen(d)
  <2> DEFINE r == [daemon[d] EXCEPT !.pc = "epoll", !.listening = TRUE]
  <2>1. daemon' = [daemon EXCEPT ![d] = r] /\ UNCHANGED <<socket_path, file, mode>> /\ daemon[d].pc = "listen"
    BY <1>3 DEF Listen, At, After, Following
  <2>2. /\ r \in Processes /\ r.path = daemon[d].path /\ r.sock = daemon[d].sock
        /\ r.shared = daemon[d].shared /\ r.denied = daemon[d].denied /\ r.pc = "epoll"
    BY <1>1, <2>1 DEF Processes, Stages, After, Following
  <2> HIDE DEF r
  <2> QED
    BY <2>1, <2>2, OnlyItself DEF Running, Bound, Reachable, Configured, At
<1>4. CASE EnterLoopFails(d) \/ LeaveLoop(d)
  <2> DEFINE r == [daemon[d] EXCEPT !.pc = CleanUp, !.code = "success"]
  <2>1. /\ daemon' = [daemon EXCEPT ![d] = r] /\ UNCHANGED <<socket_path, file, mode>>
        /\ daemon[d].pc \in {"epoll", "serve"}
    BY <1>4 DEF EnterLoopFails, LeaveLoop, At
  <2>2. /\ r \in Processes /\ r.path = daemon[d].path /\ r.sock = daemon[d].sock
        /\ r.shared = daemon[d].shared /\ r.denied = daemon[d].denied /\ r.pc = "close" /\ r.listening = daemon[d].listening
    BY <1>1, <2>1 DEF Processes, Stages, CleanUp
  <2> HIDE DEF r
  <2> QED
    BY <2>1, <2>2, OnlyItself DEF Running, Bound, Reachable, Configured, At
<1>5. CASE Reload(d)
  <2> DEFINE r == [daemon[d] EXCEPT !.reloaded = TRUE]
  <2>1. daemon' = [daemon EXCEPT ![d] = r] /\ UNCHANGED <<socket_path, file, mode>> /\ daemon[d].pc = "serve"
    BY <1>5 DEF Reload, At
  <2>2. /\ r \in Processes /\ r.path = daemon[d].path /\ r.sock = daemon[d].sock
        /\ r.shared = daemon[d].shared /\ r.denied = daemon[d].denied /\ r.pc = "serve" /\ r.listening = daemon[d].listening
    BY <1>1, <2>1 DEF Processes
  <2> HIDE DEF r
  <2> QED
    BY <2>1, <2>2, OnlyItself DEF Running, Bound, Reachable, Configured, At
<1>6. CASE Terminate(d)
  <2> DEFINE r == [daemon[d] EXCEPT !.stop = TRUE]
  <2>1. daemon' = [daemon EXCEPT ![d] = r] /\ UNCHANGED <<socket_path, file, mode>> /\ Running(d)
    BY <1>6 DEF Terminate
  <2>2. /\ r \in Processes /\ r.path = daemon[d].path /\ r.sock = daemon[d].sock
        /\ r.shared = daemon[d].shared /\ r.denied = daemon[d].denied /\ r.pc = daemon[d].pc
        /\ r.listening = daemon[d].listening
        /\ r.listening => r.pc \in {"epoll", "serve", "close"}
    BY <1>1, <2>1 DEF Processes, Inv, Local
  <2> HIDE DEF r
  <2> QED
    BY <2>1, <2>2, OnlyItself DEF Configured, At
<1>7. CASE Close(d)
  <2> DEFINE r == [daemon[d] EXCEPT !.pc = "remove", !.listening = FALSE]
  <2>1. daemon' = [daemon EXCEPT ![d] = r] /\ UNCHANGED <<socket_path, file, mode>> /\ daemon[d].pc = "close"
    BY <1>7 DEF Close, At
  <2>2. /\ r \in Processes /\ r.path = daemon[d].path /\ r.sock = daemon[d].sock
        /\ r.shared = daemon[d].shared /\ r.denied = daemon[d].denied /\ r.pc = "remove" /\ ~ r.listening
    BY <1>1, <2>1 DEF Processes, Stages
  <2> HIDE DEF r
  <2> QED
    BY <2>1, <2>2, OnlyItself DEF Running, Bound, Reachable, Configured, At
<1>8. CASE SetUpFails(d)
  <2> DEFINE r == [daemon[d] EXCEPT !.pc = CleanUp, !.code = "failure"]
  <2>1. /\ daemon' = [daemon EXCEPT ![d] = r] /\ UNCHANGED <<socket_path, file, mode>>
        /\ daemon[d].pc \in {"chmod", "listen"}
    BY <1>8 DEF SetUpFails, At
  <2>2. /\ r \in Processes /\ r.path = daemon[d].path /\ r.sock = daemon[d].sock
        /\ r.shared = daemon[d].shared /\ r.denied = daemon[d].denied /\ r.pc = "close" /\ r.listening = daemon[d].listening
    BY <1>1, <2>1 DEF Processes, Stages, CleanUp
  <2> HIDE DEF r
  <2> QED
    BY <2>1, <2>2, OnlyItself DEF Running, Bound, Reachable, Configured, At
<1> QED
  BY <1>2, <1>3, <1>4, <1>5, <1>6, <1>7, <1>8

(* A process that starts has nothing, and tells those that run apart from
   those that have always been alone. *)
LEMMA Starts ==
    ASSUME Inv, NEW d \in Daemons, Start(d)
    PROVE  Inv'
<1> DEFINE r == [Off("none") EXCEPT !.pc = "handlers", !.path = socket_path,
                                    !.shared = \E x \in Daemons : Running(x)]
<1>1. /\ daemon' = [e \in Daemons |-> IF e = d THEN r ELSE [daemon[e] EXCEPT !.shared = @ \/ Running(e)]]
      /\ UNCHANGED <<socket_path, file, mode>> /\ daemon[d].pc = "off"
  BY DEF Start, At
<1>2. /\ r \in Processes /\ r.pc = "handlers" /\ r.sock = NoSocket /\ ~ r.listening /\ r.path \in Paths
      /\ r.shared = \E x \in Daemons : Running(x)
  BY DEF Off, Processes, Stages, Inv, FilesOK
<1> HIDE DEF r
<1>3. Local(d)'
  BY <1>1, <1>2 DEF Local, Running, At, Bound, Configured, Reachable
<1>4. \A e \in Daemons \ {d} : daemon[e] \in Processes
  BY DEF Inv, Local
<1>5. ASSUME NEW e \in Daemons \ {d}
      PROVE  /\ daemon'[e] = [daemon[e] EXCEPT !.shared = @ \/ Running(e)]
             /\ daemon'[e] \in Processes
             /\ daemon'[e].pc = daemon[e].pc /\ daemon'[e].path = daemon[e].path
             /\ daemon'[e].sock = daemon[e].sock /\ daemon'[e].listening = daemon[e].listening
             /\ daemon'[e].denied = daemon[e].denied
             /\ daemon'[e].shared = (daemon[e].shared \/ Running(e))
  <2>1. daemon'[e] = [daemon[e] EXCEPT !.shared = @ \/ Running(e)]
    BY <1>1
  <2>2. (daemon[e].shared \/ Running(e)) \in BOOLEAN
    BY <1>4 DEF Processes
  <2> QED
    BY <1>4, <2>1, <2>2 DEF Processes
<1>6. ASSUME NEW e \in Daemons \ {d} PROVE Local(e)'
  <2>1. Local(e)
    BY DEF Inv
  <2>2. Address(e)' = Address(e) /\ Running(e)' = Running(e) /\ Configured(e)' = Configured(e)
    BY <1>5 DEF Address, Running, Configured, At
  <2>3. ~ daemon'[e].shared => ~ daemon[e].shared
    BY <1>5, Zenon
  <2>4. /\ daemon'[e] \in Processes
        /\ daemon'[e].pc = daemon[e].pc /\ daemon'[e].path = daemon[e].path
        /\ daemon'[e].sock = daemon[e].sock /\ daemon'[e].listening = daemon[e].listening
        /\ daemon'[e].denied = daemon[e].denied
    BY <1>5, Zenon
  <2> QED
    BY <1>1, <2>1, <2>2, <2>3, <2>4 DEF Local, At
<1>7. Meetings'
  <2>1. ASSUME NEW e \in Daemons, NEW f \in Daemons, e # f, Running(e)', Running(f)'
        PROVE  daemon'[e].shared
    <3>1. CASE e = d
      <4>1. f \in Daemons \ {d} /\ Running(f)
        BY <1>5, <2>1, <3>1 DEF Running
      <4> QED
        BY <1>1, <1>2, <3>1, <4>1
    <3>2. CASE e # d
      <4>1. Running(e)
        BY <1>5, <2>1, <3>2 DEF Running
      <4> QED
        BY <1>5, <3>2, <4>1
    <3> QED
      BY <3>1, <3>2
  <2> QED
    BY <2>1 DEF Meetings
<1>8. FilesOK' /\ DOMAIN daemon' = Daemons /\ daemon' = [e \in Daemons |-> daemon'[e]]
  BY <1>1 DEF Inv, FilesOK
<1>9. \A e \in Daemons : Local(e)'
  BY <1>3, <1>6
<1> QED
  BY <1>7, <1>8, <1>9 DEF Inv

(* After the first unlink() there is nothing at a path that fits, unless it
   has failed. *)
LEMMA Unlinks ==
    ASSUME Inv, NEW d \in Daemons, UnlinkOld(d)
    PROVE  Inv'
<1>1. /\ daemon[d] \in Processes /\ daemon[d].pc = "unlink" /\ daemon[d].path \in Paths
      /\ daemon[d].sock = NoSocket /\ ~ daemon[d].listening
  BY DEF Inv, Local, UnlinkOld, At, Running, Bound
<1>2. Running(d)
  BY <1>1 DEF Running
<1>3. CASE file' = Removed(daemon[d].path) /\ Step(d)
  <2> DEFINE r == [daemon[d] EXCEPT !.pc = "bind"]
  <2>1. daemon' = [daemon EXCEPT ![d] = r] /\ daemon'[d] = r
    BY <1>1, <1>3 DEF Step, After, Following, Inv
  <2>2. /\ r \in Processes /\ r.pc = "bind" /\ r.path = daemon[d].path /\ r.sock = NoSocket
        /\ ~ r.listening /\ r.shared = daemon[d].shared
    BY <1>1 DEF Processes, Stages
  <2> HIDE DEF r
  <2>3. Harmless(d)
    BY <1>1, <1>3, RemovedIsHarmless DEF UnlinkOld
  <2>4. file'[daemon[d].path] = NoSocket
    BY <1>1, <1>3 DEF Inv, FilesOK, Removed
  <2>5. Local(d)'
    BY <1>1, <2>1, <2>2, <2>4 DEF Local, Running, At, Bound, Configured, Reachable, Address
  <2> QED
    BY <1>2, <2>1, <2>2, <2>3, <2>5, OneMoves
<1>4. CASE UNCHANGED file /\ daemon' = [daemon EXCEPT ![d] = [@ EXCEPT !.pc = After("unlink"), !.denied = TRUE]]
  <2> DEFINE r == [daemon[d] EXCEPT !.pc = "bind", !.denied = TRUE]
  <2>1. daemon' = [daemon EXCEPT ![d] = r] /\ daemon'[d] = r
    BY <1>4 DEF After, Following, Inv
  <2>2. /\ r \in Processes /\ r.pc = "bind" /\ r.path = daemon[d].path /\ r.sock = NoSocket
        /\ ~ r.listening /\ r.shared = daemon[d].shared /\ r.denied
    BY <1>1 DEF Processes, Stages
  <2> HIDE DEF r
  <2>3. Harmless(d)
    BY <1>4, RemovedIsHarmless DEF UnlinkOld
  <2>4. Local(d)'
    BY <1>1, <2>1, <2>2 DEF Local, Running, At, Bound, Configured, Reachable
  <2> QED
    BY <1>2, <2>1, <2>2, <2>3, <2>4, OneMoves
<1> QED
  BY <1>3, <1>4 DEF UnlinkOld

(* The new socket is one nobody has, at a path nobody else's socket is at. *)
LEMMA Binds ==
    ASSUME Inv, NEW d \in Daemons, Bind(d)
    PROVE  Inv'
<1>1. /\ daemon[d] \in Processes /\ daemon[d].pc = "bind" /\ daemon[d].path \in Paths
      /\ ~ daemon[d].listening /\ UNCHANGED socket_path
  BY DEF Inv, Local, Bind, At, Running
<1>2. PICK k \in Sockets : /\ Unused(k)
                           /\ file' = [file EXCEPT ![Address(d)] = k]
                           /\ mode' = [mode EXCEPT ![k] = "umask"]
                           /\ daemon' = [daemon EXCEPT ![d] = [@ EXCEPT !.pc = After("bind"), !.sock = k]]
  BY DEF Bind
<1> DEFINE r == [daemon[d] EXCEPT !.pc = "chmod", !.sock = k]
<1>3. daemon' = [daemon EXCEPT ![d] = r] /\ daemon'[d] = r
  BY <1>2 DEF After, Following, Inv
<1>4. /\ r \in Processes /\ r.pc = "chmod" /\ r.path = daemon[d].path /\ r.sock = k
      /\ ~ r.listening /\ r.shared = daemon[d].shared
  BY <1>1 DEF Processes, Stages
<1> HIDE DEF r
<1>5. Address(d) \in Paths /\ SunPath[Address(d)] = Address(d) /\ k # NoSocket
  BY <1>1, LifecycleAssumption DEF Address
<1>6. Harmless(d)
  <2>1. FilesOK'
    BY <1>1, <1>2, <1>5 DEF Inv, FilesOK
  <2>2. ASSUME NEW e \in Daemons \ {d}, daemon[e].pc \in Bound
        PROVE  /\ file'[Address(e)] = daemon[e].sock => file[Address(e)] = daemon[e].sock
               /\ mode[daemon[e].sock] = "owner" => mode'[daemon[e].sock] = "owner"
    <3>1. daemon[e].sock # k /\ daemon[e].sock \in Sockets
      BY <1>2, <2>2 DEF Unused, Inv, Local, Processes
    <3> QED
      BY <1>2, <3>1 DEF Inv, FilesOK
  <2> QED
    BY <1>1, <2>1, <2>2 DEF Harmless
<1>7. file'[Address(d)] = k
  BY <1>2, <1>5 DEF Inv, FilesOK
<1>8. Local(d)'
  BY <1>1, <1>3, <1>4, <1>5, <1>7 DEF Local, Running, At, Bound, Configured, Reachable, Address
<1> QED
  BY <1>1, <1>3, <1>4, <1>6, <1>8, OneMoves DEF Running

(* chmod() reaches a socket only at a path that fits: the address of the
   daemon that calls it. *)
LEMMA Chmods ==
    ASSUME Inv, NEW d \in Daemons, Chmod(d)
    PROVE  Inv'
<1>1. /\ daemon[d] \in Processes /\ daemon[d].pc = "chmod" /\ daemon[d].path \in Paths
      /\ ~ daemon[d].listening /\ daemon[d].sock \in Sockets /\ UNCHANGED <<socket_path, file>>
      /\ ~ daemon[d].shared => file[Address(d)] = daemon[d].sock
  BY DEF Inv, Local, Chmod, At, Running, Bound, Reachable, Processes
<1> DEFINE k == file[daemon[d].path]
<1>2. k # NoSocket /\ k \in Sockets /\ mode' = [mode EXCEPT ![k] = "owner"]
  BY <1>1 DEF Chmod, Inv, FilesOK
<1>3. Address(d) = daemon[d].path
  BY <1>1, <1>2 DEF Inv, FilesOK, Address
<1> DEFINE r == [daemon[d] EXCEPT !.pc = "listen"]
<1>4. daemon' = [daemon EXCEPT ![d] = r] /\ daemon'[d] = r
  <2>1. Step(d)
    BY DEF Chmod
  <2> QED
    BY <1>1, <2>1 DEF Step, After, Following, Inv
<1>5. /\ r \in Processes /\ r.pc = "listen" /\ r.path = daemon[d].path /\ r.sock = daemon[d].sock
      /\ ~ r.listening /\ r.shared = daemon[d].shared
  BY <1>1 DEF Processes, Stages
<1> HIDE DEF r
<1>6. Harmless(d)
  BY <1>1, <1>2 DEF Harmless, Inv, FilesOK, Local, Processes
<1>7. file'[Address(d)] = daemon[d].sock => mode'[daemon[d].sock] = "owner"
  BY <1>1, <1>2, <1>3 DEF Inv, FilesOK
<1>8. Local(d)'
  BY <1>1, <1>2, <1>4, <1>5, <1>7, LifecycleAssumption
     DEF Local, Running, At, Bound, Configured, Reachable, Address
<1> QED
  BY <1>1, <1>4, <1>5, <1>6, <1>8, OneMoves DEF Running

(* Every step of every process keeps the invariant. *)
LEMMA InvStep == Inv /\ [Next]_vars => Inv'
<1> SUFFICES ASSUME Inv, [Next]_vars PROVE Inv'
  OBVIOUS
<1>1. CASE \E p \in Paths : Edit(p)
  BY <1>1 DEF Edit, Inv, FilesOK, Meetings, Local, Running, At, Configured, Address
<1>2. CASE UNCHANGED vars
  BY <1>2 DEF vars, Inv, FilesOK, Meetings, Local, Running, At, Configured, Address
<1>3. ASSUME NEW d \in Daemons,
             Start(d) \/ StartFails(d) \/ EnterLoopFails(d) \/ Reload(d) \/ LeaveLoop(d)
             \/ RemoveSocketFails(d) \/ Terminate(d) \/ Kill(d) \/ Call(d)
      PROVE  Inv'
  <2>1. CASE StartFails(d) \/ Kill(d) \/ BindFails(d)
    <3>1. /\ Running(d) /\ (Exit(d, "failure") \/ Exit(d, "success"))
          /\ UNCHANGED <<socket_path, file, mode>>
      BY <2>1 DEF StartFails, Kill, BindFails, Running, At
    <3> QED
      BY <3>1, Ends
  <2>2. CASE RemoveSocket(d) \/ RemoveSocketFails(d)
    <3>1. daemon[d].path \in Paths /\ daemon[d].code \in {"none", "success", "failure"} /\ Running(d)
      BY <2>2 DEF RemoveSocket, RemoveSocketFails, At, Running, Inv, Local, Processes
    <3>2. file' = file \/ \E p \in Paths : file' = Removed(p)
      BY <2>2, <3>1 DEF RemoveSocket, RemoveSocketFails
    <3> QED
      BY <2>2, <3>1, <3>2, Ends DEF RemoveSocket, RemoveSocketFails
  <2> QED
    BY <1>3, <2>1, <2>2, Starts, Unlinks, Binds, Chmods, QuietCalls DEF Call
<1> QED
  BY <1>1, <1>2, <1>3 DEF Next

(* The invariant holds in every state. *)
LEMMA Invariance == Spec => []Inv
<1> QED
  BY InvInit, InvStep, PTL DEF Spec

-----------------------------------------------------------------------------

(* However many daemons meet at a path, a socket that can be connected to is
   open to its owner alone (main.c:208-227). *)
THEOREM OwnerAlone == Spec => []OnlyOwnerConnects
<1>1. Inv => OnlyOwnerConnects
  BY DEF Inv, Local, OnlyOwnerConnects, Configured
<1> QED
  BY <1>1, Invariance, PTL

(* What a crash leaves behind keeps no daemon from starting
   (main.c:201-214). *)
THEOREM StaleSocketsGo == Spec => []StaleSocketGoes
<1>1. Inv => StaleSocketGoes
  BY DEF Inv, Local, StaleSocketGoes
<1> QED
  BY <1>1, Invariance, PTL

(* A daemon that has never met another is found at its path while it listens
   (main.c:201-243). *)
THEOREM AloneIsFound == Spec => []AloneIsReachable
<1>1. Inv => AloneIsReachable
  BY DEF Inv, Local, AloneIsReachable, Reachable, Bound
<1> QED
  BY <1>1, Invariance, PTL

(* The faults are counted up to their bound. *)
LEMMA FaultsBounded == Spec => [](faults \in 0 .. MaxFaults)
<1>1. Init => faults \in 0 .. MaxFaults
  BY LifecycleAssumption DEF Init
<1>2. faults \in 0 .. MaxFaults /\ [Next]_vars => (faults \in 0 .. MaxFaults)'
  <2> SUFFICES ASSUME faults \in 0 .. MaxFaults, [Next]_vars PROVE faults' \in 0 .. MaxFaults
    OBVIOUS
  <2>1. faults' = faults \/ Fault
    BY DEF Next, vars, Edit, Start, StartFails, EnterLoopFails, Reload, LeaveLoop, Terminate, Kill, Call,
           InstallHandlers, OpenSocket, UnlinkOld, Bind, BindFails, Chmod, Listen, SetUpFails, EnterLoop, Close,
           RemoveSocket, RemoveSocketFails
  <2> QED
    BY <2>1, LifecycleAssumption DEF Fault
<1> QED
  BY <1>1, <1>2, PTL DEF Spec

(* A process has a socket exactly between bind() and its end, and every socket
   a mode (main.c:193-244). *)
THEOREM TypesAreKept == Spec => []TypeOK
<1>1. Inv /\ faults \in 0 .. MaxFaults => TypeOK
  <2> SUFFICES ASSUME Inv, faults \in 0 .. MaxFaults PROVE TypeOK
    OBVIOUS
  <2>1. daemon \in [Daemons -> Processes]
    BY DEF Inv, Local
  <2> QED
    BY <2>1 DEF Inv, FilesOK, Local, TypeOK
<1> QED
  BY <1>1, Invariance, FaultsBounded, PTL

(* A process that has a socket ends in three ways. *)
LEMMA Endings ==
    ASSUME Inv, Next, NEW d \in Daemons, daemon[d].pc \in Bound, daemon'[d].pc = "off"
    PROVE  Kill(d) \/ RemoveSocket(d) \/ RemoveSocketFails(d)
<1> USE DEF Inv
<1>1. \A p \in Paths : ~ Edit(p)
  BY DEF Edit, Bound
<1>2. PICK e \in Daemons : \/ Start(e) \/ StartFails(e) \/ EnterLoopFails(e) \/ Reload(e) \/ LeaveLoop(e)
                           \/ RemoveSocketFails(e) \/ Terminate(e) \/ Kill(e) \/ Call(e)
  BY <1>1 DEF Next
<1>3. daemon[d] \in Processes
  BY DEF Local
<1>4. ~ Start(e)
  <2>1. ASSUME Start(e) PROVE FALSE
    <3>1. CASE e = d
      BY <2>1, <3>1 DEF Start, At, Bound
    <3>2. CASE e # d
      <4>1. daemon'[d] = [daemon[d] EXCEPT !.shared = @ \/ Running(d)]
        BY <2>1, <3>2 DEF Start
      <4> QED
        BY <1>3, <4>1 DEF Processes, Bound
    <3> QED
      BY <3>1, <3>2
  <2> QED
    BY <2>1
<1>5. CASE e # d
  <2>1. daemon'[d] = daemon[d]
    BY <1>2, <1>4, <1>5 DEF StartFails, EnterLoopFails, Reload, LeaveLoop, Terminate, Kill, Call, Exit, Step,
         InstallHandlers, OpenSocket, UnlinkOld, Bind, BindFails, Chmod, Listen, SetUpFails, EnterLoop, Close,
         RemoveSocket, RemoveSocketFails
  <2> QED
    BY <2>1 DEF Bound
<1>6. CASE e = d
  <2>1. ~ (StartFails(d) \/ BindFails(d) \/ InstallHandlers(d) \/ OpenSocket(d) \/ UnlinkOld(d) \/ Bind(d))
    BY DEF StartFails, BindFails, InstallHandlers, OpenSocket, UnlinkOld, Bind, At, Bound
  <2>2. ~ (Chmod(d) \/ EnterLoop(d))
    BY <1>3 DEF Chmod, EnterLoop, Step, At, After, Following, Processes
  <2>3. /\ Listen(d) => daemon'[d] = [daemon[d] EXCEPT !.pc = "epoll", !.listening = TRUE]
        /\ SetUpFails(d) => daemon'[d] = [daemon[d] EXCEPT !.pc = "close", !.code = "failure"]
        /\ EnterLoopFails(d) \/ LeaveLoop(d) => daemon'[d] = [daemon[d] EXCEPT !.pc = "close", !.code = "success"]
        /\ Close(d) => daemon'[d] = [daemon[d] EXCEPT !.pc = "remove", !.listening = FALSE]
    BY DEF Listen, SetUpFails, EnterLoopFails, LeaveLoop, Close, CleanUp, After, Following
  <2>4. ~ (Listen(d) \/ SetUpFails(d) \/ EnterLoopFails(d) \/ LeaveLoop(d) \/ Close(d))
    BY <1>3, <2>3 DEF Processes
  <2>5. ~ (Reload(d) \/ Terminate(d))
    BY <1>3 DEF Reload, Terminate, Processes, Bound
  <2> QED
    BY <1>2, <1>4, <1>6, <2>1, <2>2, <2>4, <2>5 DEF Call
<1> QED
  BY <1>5, <1>6

(* A daemon that ends other than by a crash, and alone, leaves nothing at its
   path, if its configuration is still there and the last unlink() does not
   fail (main.c:217-244). *)
THEOREM EndsAreClean == Spec => CleanEnd
<1>1. Inv /\ [Next]_vars
      => [\A d \in Daemons : EndsAlone(d) /\ ~ daemon[d].reloaded => file'[daemon[d].path] = NoSocket]_vars
  <2> SUFFICES ASSUME Inv, Next, NEW d \in Daemons, EndsAlone(d), ~ daemon[d].reloaded
               PROVE  file'[daemon[d].path] = NoSocket
    OBVIOUS
  <2>1. daemon[d].pc \in Bound /\ daemon[d].path \in Paths
    BY DEF EndsAlone, Inv, Local, Running, Bound
  <2>2. RemoveSocket(d)
    BY <2>1, Endings DEF EndsAlone
  <2> QED
    BY <2>1, <2>2 DEF RemoveSocket, Removed, Inv, FilesOK
<1> QED
  BY <1>1, Invariance, PTL DEF Spec, CleanEnd
=============================================================================
