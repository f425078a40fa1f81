------------------------------ MODULE Lifecycle ------------------------------
(***************************************************************************)
(* The life of wlblurd processes and of the socket file they meet at:      *)
(* main() from the loading of the configuration to the removal of the      *)
(* socket, every call of which may fail (main.c), crashes at any point,    *)
(* and the restarts of the service manager                                 *)
(* (wlblurd/systemd/wlblur.service: Restart=on-failure).  Nothing keeps    *)
(* two daemons apart, so the calls of several processes on one path        *)
(* interleave.                                                             *)
(*                                                                         *)
(* A socket is an inode: it is linked at a path by bind(), outlives the    *)
(* link and its process alike, and chmod() and unlink() name a path, not a *)
(* socket.  bind() sees at most 107 characters of the path                 *)
(* (sockaddr_un.sun_path), chmod() and unlink() the 255 of the             *)
(* configuration.  After a reload, socket_path points into the             *)
(* configuration that has been freed: what unlink() finds there is any     *)
(* path, or none.                                                          *)
(***************************************************************************)
EXTENDS Naturals, FiniteSets

CONSTANTS
    Daemons,        \* the processes that may run wlblurd
    Supervised,     \* those the service manager restarts after a failure
    Paths,          \* what the configuration can name as socket_path
    SunPath,        \* path |-> what of it fits into sun_path
    NoPath,         \* none of them
    Sockets,        \* inodes of sockets
    NoSocket,       \* none of them
    MaxFaults       \* bound: crashes and calls that fail, in a behaviour

ASSUME LifecycleAssumption ==
    /\ Supervised \subseteq Daemons
    /\ SunPath \in [Paths -> Paths]
    /\ \A p \in Paths : SunPath[SunPath[p]] = SunPath[p]
    /\ NoPath \notin Paths
    /\ Sockets \subseteq Nat \ {NoSocket}
    /\ MaxFaults \in Nat

VARIABLES
    socket_path,    \* what the configuration file names
    daemon,         \* process |-> where it stands
    file,           \* path |-> the socket linked there
    mode,           \* socket |-> who may connect to it
    faults          \* faults so far

vars == <<socket_path, daemon, file, mode, faults>>

Stages == {"off", "handlers", "socket", "unlink", "bind", "chmod", "listen", "epoll", "serve", "close", "remove"}

(* The stages in which a daemon has a socket of its own at its address. *)
Bound == {"chmod", "listen", "epoll", "serve", "close", "remove"}

(* path, sock: socket_path and server_fd; listening: has listen() succeeded;
   stop: running = 0; reloaded: has the configuration path points into been
   freed; code: how the last run ended; and two facts nobody in the program
   knows: shared, has another daemon run at the same time; denied, has the
   first unlink() failed. *)
Processes == [pc : Stages, path : Paths \cup {NoPath}, sock : Sockets \cup {NoSocket}, listening : BOOLEAN,
              stop : BOOLEAN, reloaded : BOOLEAN, code : {"none", "success", "failure"},
              shared : BOOLEAN, denied : BOOLEAN]

TypeOK ==
    /\ socket_path \in Paths
    /\ daemon \in [Daemons -> Processes]
    /\ file \in [Paths -> Sockets \cup {NoSocket}]
    /\ mode \in [Sockets -> {"umask", "owner"}]
    /\ faults \in 0 .. MaxFaults
    /\ \A d \in Daemons : daemon[d].sock # NoSocket <=> daemon[d].pc \in Bound

-----------------------------------------------------------------------------

Running(d) == daemon[d].pc # "off"

At(d, stage) == daemon[d].pc = stage

Address(d) == SunPath[daemon[d].path]

(* The order of the calls (in the mutants, listen() comes before chmod(), and
   unlink() after listen()). *)
ListenFirst == [handlers |-> "socket", socket |-> "unlink", unlink |-> "bind", bind |-> "listen",
                listen |-> "chmod", chmod |-> "epoll", epoll |-> "serve"]
UnlinkLast == [handlers |-> "socket", socket |-> "bind", bind |-> "chmod", chmod |-> "listen",
               listen |-> "unlink", unlink |-> "epoll", epoll |-> "serve"]
Following == [handlers |-> "socket", socket |-> "unlink", unlink |-> "bind", bind |-> "chmod",
              chmod |-> "listen", listen |-> "epoll", epoll |-> "serve"]

After(stage) == Following[stage]

(* The files after unlink(p) (the mutant does nothing). *)
NotRemoved(p) == file
Removed(p) == [file EXCEPT ![p] = NoSocket]

(* What a daemon that has bound its socket does when a later call fails, and
   at its end (the mutant leaves at once). *)
JustLeave == "off"
CleanUp == "close"

(* An inode nobody refers to is used again. *)
Unused(k) ==
    /\ \A d \in Daemons : daemon[d].sock # k
    /\ \A p \in Paths : file[p] # k

Fault == faults < MaxFaults /\ faults' = faults + 1

Step(d) == daemon' = [daemon EXCEPT ![d].pc = After(@)]

Off(code) == [pc |-> "off", path |-> NoPath, sock |-> NoSocket, listening |-> FALSE, stop |-> FALSE,
              reloaded |-> FALSE, code |-> code, shared |-> FALSE, denied |-> FALSE]

(* The process ends; its memory goes and its descriptors are closed. *)
Exit(d, code) == daemon' = [daemon EXCEPT ![d] = Off(code)]

-----------------------------------------------------------------------------

Init ==
    /\ socket_path \in Paths
    /\ daemon = [d \in Daemons |-> Off("none")]
    /\ file = [p \in Paths |-> NoSocket]
    /\ mode = [k \in Sockets |-> "umask"]
    /\ faults = 0

(* The user names another path in the configuration file. *)
Edit(p) ==
    /\ socket_path' = p
    /\ UNCHANGED <<daemon, file, mode, faults>>

(* A process starts and loads its configuration. *)
Start(d) ==
    /\ At(d, "off")
    /\ daemon' = [e \in Daemons |->
                    IF e = d
                    THEN [Off("none") EXCEPT !.pc = "handlers", !.path = socket_path,
                                             !.shared = \E x \in Daemons : Running(x)]
                    ELSE [daemon[e] EXCEPT !.shared = @ \/ Running(e)]]
    /\ UNCHANGED <<socket_path, file, mode, faults>>

(* config_load() finds no memory, twice, or socket() fails. *)
StartFails(d) ==
    /\ At(d, "handlers") \/ At(d, "socket")
    /\ Fault
    /\ Exit(d, "failure")
    /\ UNCHANGED <<socket_path, file, mode>>

(* signal() and reload_init(). *)
InstallHandlers(d) ==
    /\ At(d, "handlers")
    /\ Step(d)
    /\ UNCHANGED <<socket_path, file, mode, faults>>

OpenSocket(d) ==
    /\ At(d, "socket")
    /\ Step(d)
    /\ UNCHANGED <<socket_path, file, mode, faults>>

(* The old socket goes, whoever's it is; nobody looks at the result. *)
UnlinkOld(d) ==
    /\ At(d, "unlink")
    /\ \/ file' = Removed(daemon[d].path) /\ Step(d) /\ UNCHANGED faults
       \/ Fault
          /\ daemon' = [daemon EXCEPT ![d] = [@ EXCEPT !.pc = After("unlink"), !.denied = TRUE]]
          /\ UNCHANGED file
    /\ UNCHANGED <<socket_path, mode>>

Bind(d) ==
    /\ At(d, "bind")
    /\ file[Address(d)] = NoSocket
    /\ \E k \in Sockets :
        /\ Unused(k) /\ \A j \in Sockets : Unused(j) => k <= j
        /\ file' = [file EXCEPT ![Address(d)] = k]
        /\ mode' = [mode EXCEPT ![k] = "umask"]
        /\ daemon' = [daemon EXCEPT ![d] = [@ EXCEPT !.pc = After("bind"), !.sock = k]]
    /\ UNCHANGED <<socket_path, faults>>

(* EADDRINUSE, or another error; the path stays as it is. *)
BindFails(d) ==
    /\ At(d, "bind")
    /\ IF file[Address(d)] # NoSocket THEN UNCHANGED faults ELSE Fault
    /\ Exit(d, "failure")
    /\ UNCHANGED <<socket_path, file, mode>>

(* chmod() gives the socket that is at the path now to its owner alone. *)
Chmod(d) ==
    /\ At(d, "chmod")
    /\ file[daemon[d].path] # NoSocket
    /\ mode' = [mode EXCEPT ![file[daemon[d].path]] = "owner"]
    /\ Step(d)
    /\ UNCHANGED <<socket_path, file, faults>>

Listen(d) ==
    /\ At(d, "listen")
    /\ daemon' = [daemon EXCEPT ![d] = [@ EXCEPT !.pc = After("listen"), !.listening = TRUE]]
    /\ UNCHANGED <<socket_path, file, mode, faults>>

(* chmod(), to which a path with no socket is one error more, or listen(). *)
SetUpFails(d) ==
    /\ \/ At(d, "chmod") /\ file[daemon[d].path] = NoSocket /\ UNCHANGED faults
       \/ (At(d, "chmod") \/ At(d, "listen")) /\ Fault
    /\ daemon' = [daemon EXCEPT ![d] = [@ EXCEPT !.pc = CleanUp, !.code = "failure"]]
    /\ UNCHANGED <<socket_path, file, mode>>

(* run_event_loop() up to its loop. *)
EnterLoop(d) ==
    /\ At(d, "epoll")
    /\ Step(d)
    /\ UNCHANGED <<socket_path, file, mode, faults>>

(* epoll_create1() or epoll_ctl() fails; main() ignores what it is told. *)
EnterLoopFails(d) ==
    /\ At(d, "epoll")
    /\ Fault
    /\ daemon' = [daemon EXCEPT ![d] = [@ EXCEPT !.pc = CleanUp, !.code = "success"]]
    /\ UNCHANGED <<socket_path, file, mode>>

(* The first reload that succeeds frees the configuration of the start. *)
Reload(d) ==
    /\ At(d, "serve")
    /\ ~ daemon[d].stop
    /\ daemon' = [daemon EXCEPT ![d].reloaded = TRUE]
    /\ UNCHANGED <<socket_path, file, mode, faults>>

(* running has been cleared, or epoll_wait() fails. *)
LeaveLoop(d) ==
    /\ At(d, "serve")
    /\ IF daemon[d].stop THEN UNCHANGED faults ELSE Fault
    /\ daemon' = [daemon EXCEPT ![d] = [@ EXCEPT !.pc = CleanUp, !.code = "success"]]
    /\ UNCHANGED <<socket_path, file, mode>>

Close(d) ==
    /\ At(d, "close")
    /\ daemon' = [daemon EXCEPT ![d] = [@ EXCEPT !.pc = "remove", !.listening = FALSE]]
    /\ UNCHANGED <<socket_path, file, mode, faults>>

(* unlink(socket_path), and the end. *)
RemoveSocket(d) ==
    /\ At(d, "remove")
    /\ IF daemon[d].reloaded
       THEN file' = file \/ \E p \in Paths : file' = Removed(p)
       ELSE file' = Removed(daemon[d].path)
    /\ Exit(d, daemon[d].code)
    /\ UNCHANGED <<socket_path, mode, faults>>

(* The unlink() fails, and nobody looks at the result. *)
RemoveSocketFails(d) ==
    /\ At(d, "remove")
    /\ Fault
    /\ Exit(d, daemon[d].code)
    /\ UNCHANGED <<socket_path, file, mode>>

(* SIGTERM or SIGINT, once there is a handler for them. *)
Terminate(d) ==
    /\ Running(d)
    /\ ~ At(d, "handlers")
    /\ daemon' = [daemon EXCEPT ![d].stop = TRUE]
    /\ UNCHANGED <<socket_path, file, mode, faults>>

(* SIGKILL, a crash, or a signal before its handler is installed; SIGTERM and
   SIGINT are no failure to the service manager. *)
Kill(d) ==
    /\ Running(d)
    /\ Fault
    /\ \/ Exit(d, "failure")
       \/ At(d, "handlers") /\ Exit(d, "success")
    /\ UNCHANGED <<socket_path, file, mode>>

Call(d) ==
    \/ InstallHandlers(d)
    \/ OpenSocket(d)
    \/ UnlinkOld(d)
    \/ Bind(d)
    \/ BindFails(d)
    \/ Chmod(d)
    \/ Listen(d)
    \/ SetUpFails(d)
    \/ EnterLoop(d)
    \/ Close(d)
    \/ RemoveSocket(d)
    \/ At(d, "serve") /\ daemon[d].stop /\ LeaveLoop(d)

Next ==
    \/ \E p \in Paths : Edit(p)
    \/ \E d \in Daemons :
        \/ Start(d)
        \/ StartFails(d)
        \/ EnterLoopFails(d)
        \/ Reload(d)
        \/ LeaveLoop(d)
        \/ RemoveSocketFails(d)
        \/ Terminate(d)
        \/ Kill(d)
        \/ Call(d)

Spec == Init /\ [][Next]_vars

(* The service manager starts its daemon again after a failure. *)
Restart(d) == daemon[d].code = "failure" /\ Start(d)

(* A process makes its calls, and the manager does its work. *)
FairSpec ==
    /\ Spec
    /\ \A d \in Daemons : WF_vars(Call(d))
    /\ \A d \in Supervised : WF_vars(Restart(d))

-----------------------------------------------------------------------------

(* Whoever is at a path, and however many daemons meet there, a socket that
   can be connected to is open to its owner alone: no daemon listens before
   its own chmod() has reached its own socket (main.c:208-227; "only owner can
   connect", docs/api/ipc-protocol.md:683). *)
OnlyOwnerConnects ==
    \A d \in Daemons :
        daemon[d].listening /\ file[Address(d)] = daemon[d].sock => mode[daemon[d].sock] = "owner"

(* What a crash leaves at the path never keeps a daemon from starting: bind()
   finds the path taken only in a race with another daemon, or when unlink()
   was not allowed to remove the file or saw another name than bind()
   (main.c:201-214). *)
StaleSocketGoes ==
    \A d \in Daemons :
        At(d, "bind") /\ file[Address(d)] # NoSocket
        => daemon[d].shared \/ daemon[d].denied \/ Address(d) # daemon[d].path

(* A daemon that has had the machine to itself is found at its path for as
   long as it listens (main.c:201-243). *)
AloneIsReachable ==
    \A d \in Daemons :
        daemon[d].listening /\ ~ daemon[d].shared => file[Address(d)] = daemon[d].sock

(* The daemon has bound its socket, runs alone, under a path that fits, and
   comes to its end other than by a crash or a last unlink() that fails. *)
EndsAlone(d) ==
    /\ daemon[d].sock # NoSocket /\ daemon'[d].pc = "off"
    /\ ~ Kill(d) /\ ~ RemoveSocketFails(d)
    /\ ~ daemon[d].shared
    /\ Address(d) = daemon[d].path

(* It leaves no socket behind, unless its configuration has been freed: every
   failure after bind() goes by an unlink() of its socket (main.c:217-244).
   That the last unlink() may fail, which main() does not notice, is excepted
   by EndsAlone. *)
CleanEnd ==
    [][\A d \in Daemons :
         EndsAlone(d) /\ ~ daemon[d].reloaded => file'[daemon[d].path] = NoSocket]_vars

(* A daemon the service manager has seen fail is back at its path some time,
   unless it is told to stop, meets another daemon, ends with a failure that
   main() reports as success (main.c:239), or its path is cut off
   (wlblur.service:9). *)
Restarted ==
    \A d \in Supervised :
        At(d, "off") /\ daemon[d].code = "failure"
        ~> \/ At(d, "serve") /\ file[Address(d)] = daemon[d].sock
           \/ daemon[d].code = "success" \/ daemon[d].stop \/ daemon[d].shared
           \/ Running(d) /\ Address(d) # daemon[d].path

-----------------------------------------------------------------------------
(* "Create socket, set permissions, cleanup on exit"
   (docs/decisions/004-ipc-protocol-design.md:363): it leaves no socket behind
   after a reload either. *)
CleanupOnExit ==
    [][\A d \in Daemons : EndsAlone(d) => file'[daemon[d].path] = NoSocket]_vars
=============================================================================
