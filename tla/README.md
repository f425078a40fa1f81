# A formal model of wlblur

wlblur is a blur service for Wayland compositors: a library (`libwlblur`) that
blurs a DMA-BUF with OpenGL, and a daemon (`wlblurd`) that offers it over a Unix
socket to compositors, which create *blur nodes*, have buffers blurred for them
and destroy them.  These modules model the daemon's state, its event loop, its
configuration and the life of its processes, and the library's contexts and
framebuffers.  TLC checks them on small instances; every invariant and every
action property it checks, and the refinement of the abstract service, are proved
by TLAPS for every instance.

## 1. The system

| Part | Source | State | Operations | Module |
|---|---|---|---|---|
| Client table | `wlblurd/src/client.c` | `clients[64]`, `next_client_id` | register, look up, unregister (with the client's nodes) | `Registry` |
| Node registry | `wlblurd/src/blur_node.c` | `node_list`, `next_node_id` | create, look up, destroy, destroy for a client | `Registry` |
| Request handlers | `wlblurd/src/ipc_protocol.c` | none but `g_blur_ctx` | `handle_client_request` and one handler per operation | `Registry`, `BlurDaemon` |
| Message layer | `wlblurd/src/ipc.c` | none | `recv_with_fd`, `send_with_fd` | `BlurDaemon` |
| Event loop | `wlblurd/src/main.c` | epoll set, batch of events, `running` | accept, hang-up, dispatch | `BlurDaemon` |
| Start and shutdown | `wlblurd/src/main.c` | socket file, process, `socket_path` | load, bind, chmod, listen, unlink | `Lifecycle` |
| Hot reload | `wlblurd/src/reload.c` | `reload_requested` | SIGUSR1 handler, `handle_config_reload` | `ConfigReload` |
| Configuration | `wlblurd/src/config.c` | one `daemon_config` | search, load, validate, free | `ConfigReload` |
| Presets | `wlblurd/src/presets.c` | hash table in a configuration | add, look up, resolve | `Presets`, `ConfigReload` |
| Contexts | `libwlblur/src/blur_context.c`, `egl_helpers.c` | EGL display and contexts | create, destroy, make current | `BlurContext` |
| Shaders and renderer | `shaders.c`, `blur_kawase.c` | three programs, a quad | create, unwind, destroy | `BlurContext` |
| Rendering | `blur_context.c`, `blur_kawase.c` | one frame | `wlblur_apply_blur`, `wlblur_kawase_blur` | `BlurFrame` |
| Framebuffer pool | `libwlblur/src/framebuffer.c` | `fbos[16]` with `in_use` flags | acquire, release | `BlurFrame` |
| Import and export | `libwlblur/src/dmabuf.c` | images, textures, descriptors | import, export, close | `BlurFrame` |

How they interact: the loop calls the handlers, which use both tables, the
presets of the configuration in force, and the library; `client_unregister`
destroys a client's nodes.  A reload replaces the configuration between two
batches of events.  The library's context owns a renderer, which owns the pool.
Clients share nothing with the daemon but sockets and descriptors, several
daemons nothing but the path of the socket.

### What is hard about it, and what makes it correct

The daemon has one thread, so the difficulties are not locks.  They are:

* **Descriptor reuse.**  One `epoll_wait()` returns up to 32 events, named by
  descriptor.  Handling one may close a descriptor and handling the next may get
  the same number back.  An event must still mean what it meant (`EventsCurrent`),
  and table, epoll set and kernel must agree throughout (`TablesMatchSockets`).
* **Four places to forget a client in.**  A hang-up has to clear the epoll set,
  the slot, the client's nodes and the descriptor (`NoOrphans`,
  `OneSlotPerConnection`, `DisconnectedForgotten`).
* **Isolation.**  Node identifiers are global; only the owner may use one
  (`RemovedByOwner`, `HandlesValid`).
* **Counters.**  Both identifier counters are `uint32_t` and wrap; 0 is the error
  value of both.  Section 4 says which properties survive.
* **Streams.**  Sockets are `SOCK_STREAM`, messages are read with one `recvmsg()`,
  answers carry no reference to their request, and `sendmsg()` blocks
  (`AnswersInOrder`, `EveryRequestAnswered`).  A request may bring descriptors, and an
  answer takes one: whichever way a request ends they must be closed
  (`OnlyStraysStay`).
* **Signals.**  SIGUSR1 may arrive at any point of a reload, SIGTERM at any point
  of the loop (`NoSignalLost`, `SignalActedUpon`, `SignalStops`).
* **The file changes while it is read**, or disappears, or breaks, or memory runs
  out (`ReloadIsRestart`, `OldConfigKept`, `UsedInRange`, `OneConfig`).
* **Names of presets** collide in buckets and are cut off (`NamesResolved`).
* **Crashes, restarts, and several daemons on one path.**  A socket outlives its
  process, `unlink()` removes whatever is there, and a later call may fail
  (`OnlyOwnerConnects`, `StaleSocketGoes`, `AloneIsReachable`, `CleanEnd`,
  `Restarted`).
* **Failure of any one step of a creation** must unwind what has been made
  (`Unwound`, `NothingLeft`), and contexts share a display and the names of their
  objects (`AloneIntact`).
* **Failure of any one step of a frame** must give everything back
  (`FrameBalanced`, `NothingKept`), errors of OpenGL stick until somebody asks
  (`ErrorsAreReported`), and framebuffers of equal size must not be mixed up
  (`NoFeedback`, `OutputsIntact`).

`PROJECT.json` lists the hazards with their lines and the properties aimed at them.

## 2. The modules

```
NodeService          what the daemon promises (abstract)
   ^ implemented by                                      ServiceProofs
Registry             client.c + blur_node.c              RegistryProofs
   ^ extended by       + the handlers' use of them
BlurDaemon           epoll loop, sockets, clients        BlurDaemonProofs

Lifecycle            processes and socket files          LifecycleProofs
Presets              the hash table                      PresetsProofs
   ^ extended by
ConfigReload         files, SIGUSR1, swap, resolution    ConfigReloadProofs
BlurContext          EGL contexts and their objects      BlurContextProofs
BlurFrame            one frame after another             BlurFrameProofs
MC*.tla, *.cfg       instances for TLC
```

`RegistryProofs` is extended by `ServiceProofs`, that one by `BlurDaemonProofs`, and
`PresetsProofs` by `ConfigReloadProofs`.

**Registry.**  `clients` is the C array, with `client_register` and
`client_lookup` taking the first slot that fits, as the loops do.  The C counters
are `Id(next_client)` and `Id(next_node)`: the TLA+ variables count without
bound and `Id` reduces them modulo `IdSpace`, which is 2^32 in the program.  The
node list is searched from its newest element, so `nodes` is a set whose elements
carry the count at which they were created, and `Found` picks the youngest with
an identifier.  `open` holds the descriptors that have been accepted and not
closed.  A handler runs to its end before anything else happens in the daemon,
so each handler is one action, with one action per way out of it:
`CreateNode`, `CreateOverLimit`, `CreateWithoutMemory`, `DestroyNode`,
`DestroyInvalid`, `RenderBlur`, `Reject`.  `last` is what the caller is told;
`Return` forgets it.  The `node_id` of a rejected request is arbitrary, because
`handle_client_request` sets only the status of an uninitialised response.

**NodeService.**  Sessions, nodes with owners, identifiers never handed out
twice.  `ImplementsService` maps `Registry` to it, until the counters come round:
a session is an active slot's descriptor, a node's owner is the descriptor of the
slot with its `client_id`.

**BlurDaemon.**  `Enter` tests `running` at the top of the loop; a signal that comes
between the test and `epoll_wait()` is seen only when that returns, with a batch
(`EpollWait`) or, if nothing is ready, after a second or the interruption
(`TimeOut`).  `Stop` is the loop condition failing, or `epoll_wait()`.
`DispatchAccept`, `DispatchHangUp` and `DispatchData` handle one event each, and
`SendResponse` is a step of its own because `sendmsg()` may sleep.  The order within a batch is left open, which
covers the order epoll returns.  Kernel and clients are external: a connection
has a queue in each direction, a request is two units of a stream, and a client
may connect, send, read, shut down or vanish between any two steps of the daemon.
A client with an older, smaller `struct wlblur_request` sends one unit, after
which the stream is out of step and `Decoded` lets the bytes mean anything.
Descriptors are given out lowest first over sockets and buffers alike, which is
what makes reuse happen.  A request may come with up to four descriptors.
`Installed` are those `recvmsg()` gives the process: two at the most, because the
control buffer has `CMSG_SPACE(sizeof(int))` bytes, which is 24 where a `size_t` has
8 (`ipc.c:29`).  The first is the buffer of the request; the other is `Unseen`.
`strays` remembers descriptors the program holds and has no variable for: those, and
the planes of an export beyond the first.  `AcceptAndClose` is the connection that is turned away:
`epoll_ctl()` fails, the table is full, or `client_register` returns 0 because
`next_client_id` has come round, in which case the slot has been taken all the same
and is never given back (`main.c:58`, `client.c:29`).

**Lifecycle.**  Several processes run `main()`, one call a step, each call able to
fail; `Kill` ends one anywhere.  A socket is an inode that `bind()` links at a
path and that outlives the link and the process; `chmod()` and `unlink()` name a
path, so they may hit another daemon's socket.  `SunPath` is what `sun_path` holds
of a path (107 characters), which `bind()` uses and the others do not.  After a
reload `socket_path` points into freed memory: `RemoveSocket` then removes any
path, or none.  `shared` and `denied` are facts about a run that the program does
not know: whether another daemon ran at the same time, whether the first
`unlink()` failed.  The
last `unlink()` may fail as well (`RemoveSocketFails`), which `main()` does not
notice.  `Restart` is the service manager's `Restart=on-failure`.  Its default limit
on the number of starts in a time is left out; two faults stay below it.

**Presets.**  The chains of the hash table; a preset keeps `Stored`, the first 31
characters of its name, in the bucket of the whole name.

**ConfigReload.**  `Find` (the search for a readable file, after the one `--config`
gives) and `Read` (open and parse) are separate steps, because the user may edit in
between; checking and clearing the flag are too.  A configuration is an address in
`heap`, so that freeing it can be observed.  `Load` is what `config_load` makes of a
file, all its fallbacks included: `Offered` are the presets it adds in order, the
standard ones first, `Refused` the places of those that are not valid, and a preset
for which there is no memory is skipped.  `Wake` is an `epoll_wait()` without events;
with some (`Serve`) the handlers have the thread, resolve presets (`Render`), and may
come back (`Served`) or never do.

**BlurContext.**  One thread creates, uses and destroys contexts.  All live on one
default display; `eglTerminate()` destroys every context on it, but one that is
current lives on until it is released.  OpenGL hands out names in order, so the
objects of two contexts share their names, and a deletion by name hits those of
the context that is current.  `Zombie` is the context that stays current after a
creation that failed past `eglMakeCurrent()` (`egl_helpers.c:158-188`): it exists until
another is made current or none, and `Existing` counts it.

**BlurFrame.**  `Begin`, then one step per iteration of each loop of
`wlblur_kawase_blur`, with every acquisition, draw, check, import and export able
to fail.  Textures are numbered by their place in the pool.  `gl_error` is sticky;
`wlblur_shader_use()` takes it and its answer is ignored, which is `AfterUse`, whether
the error is an earlier one or that of `glUseProgram()` itself.  `spoiled` remembers
what went wrong in the frame: a draw of one of the two loops, the last draw, or the
taking of a program into use.  A call of EGL may leave an error to OpenGL whether it
succeeds or fails (`EglCall`), and the early returns of `wlblur_dmabuf_export`
(`dmabuf.c:199-242`) do not ask for one.

### Abstractions

Dimensions, formats and strides are dropped, except the size of a framebuffer, by
which the pool matches.  Of the blur parameters the configuration model keeps the
algorithm and `num_passes`, as it is after its narrowing from 64 bits.  Whether a
rendering succeeds is a free choice in `Registry`.  The daemon as `main()` starts it
never creates its rendering context (`ipc_protocol_init` has no caller), which is
`ContextReady = FALSE`; `ContextReady = TRUE` is the daemon with that call made, and
is used where what lies behind it is the point (descriptors of exported buffers,
resolved presets).

## 3. The runs

| Run | Shows | Bounds |
|---|---|---|
| `Registry` | `TypeOK`, `NoOrphans`, `WithinLimit`, `OpenIsRegistered`, `RemovedByOwner`; until the counters come round also `OneSlotPerConnection`, `NodesAddressable`, `ImplementsService` | 2 slots, 3 descriptors, 2 nodes per client, identifiers 0..3, five connects and creations |
| `BlurDaemon` | `DaemonTypeOK`, `TablesMatchSockets`, `EventsCurrent`, `OnlyStraysStay`, `HandlesValid`, `AnswersInOrder` | 2 connections, 5 descriptors, 2 events per batch, 3 requests in all, of five kinds, with up to 3 descriptors; exports of up to 2 planes; `accept`, `epoll_ctl` and `epoll_wait` may fail; no signal arrives (`SignalsArrive`): a daemon told to stop takes no step that another one does not |
| `BlurDaemonLive` | `EveryRequestAnswered`, `DisconnectedForgotten`, `SignalStops` | 2 connections for 1 slot, so that one may be turned away; identifiers 0 and 1, so that both counters come round; batches of up to 32; requests with at most one descriptor; no context, as in `main()` |
| `BlurDaemonVersion` | refutes `EveryRequestAnswered` | one request of another version |
| `Lifecycle` | `TypeOK`, `OnlyOwnerConnects`, `StaleSocketGoes`, `AloneIsReachable`, `CleanEnd`, `Restarted` | 2 daemons, one of them supervised; a path that fits and one that is cut off to it; 3 inodes; 2 crashes or failing calls, the last `unlink()` among them |
| `LifecycleReload` | refutes `CleanupOnExit` | 1 daemon, nothing fails |
| `ConfigReload` | `OneConfig`, `UsedInRange`, `NoSignalLost`, `ReloadIsRestart`, `NamesResolved`, `SignalActedUpon` | a given and two default paths, a file with one of 3 contents, missing or broken, 1 edit, 2 signals; `calloc` may fail, for a configuration and for one preset; 8 names, one too long, in 2 buckets |
| `ConfigReloadBroken` | refutes `OldConfigKept` | 1 edit, 1 signal; the file goes, breaks or gets values out of range |
| `BlurContext` | `TypeOK`, `Unwound`, `NothingLeft`, `AloneIntact` | 3 contexts, 11 objects each |
| `BlurContextPair` | refutes `ContextsIndependent` | the same |
| `BlurFrame` | `TypeOK`, `NoFeedback`, `FrameBalanced`, `NothingKept`, `ErrorsAreReported`, `OutputsIntact` | 3 frame shapes, a pool of 7, up to 2 planes, run until the pool is exhausted |
| `BlurFramePool` | refutes `PoolReused` | one shape, the real pool of 16 |

Why the bounds suffice.  In `Registry`, two slots and three descriptors are the
least with which a slot and a descriptor can be reused by different clients while a third
connection waits.  Five connects and creations with four identifiers let both
counters pass 0 and give a value out again while its first owner lives.  Two
connections and three requests let one client be in the middle of a request while
the other's event is in the same batch, and let one client's node be named by
another.  Of three descriptors in a message two are installed, one is taken and one
lost; with the two of an export that makes the five descriptors tight beside a
connection, so that installing, exporting and `accept()` find too few in some
states.  Two daemons are the least that meet at a path; three inodes leave each a
socket beside one that a crash left behind; two faults let a crash be followed by a
failing call in the restarted process.  One edit between `Find` and `Read`, and two
signals, are enough for the file to change under a reload and for a signal to
arrive during the reload another one started.  Two buckets for eight names make
every bucket a chain.  Three contexts let a creation fail beside two that are
ready.  A pool of seven is not enough for two frames of the larger shape, so
framebuffers of an earlier frame are reused and exhaustion is reached; the sizes of
the shapes overlap, and the smallest is its own level.  What the runs
check of a step or a state is moreover proved for every value of the constants
(section 4); only liveness rests on these bounds alone.

### Fairness

`FairSpec` of `BlurDaemon` assumes weak fairness of the daemon's step (it is a
process that runs; every system call of it but `sendmsg` and `epoll_wait` returns,
and `epoll_wait` has a time-out of one second, `main.c:104`) and that a client
reads the answers it is sent.  The last is an assumption about clients, not
something the code ensures: one client that does not read blocks the daemon for
all of them (`ipc.c:80`), SIGTERM included, because `signal()` restarts the
interrupted call.  That `sendmsg` may also fail for want of memory, and the answer is
then lost for a client that is there, is left out.

`FairSpec` of `ConfigReload` assumes that the daemon runs between two events
(`LoopStep`) and nothing of its event handlers, which one client can hold for ever
(`HandlerStep`).  `SignalActedUpon` accordingly says that a SIGUSR1 is acted upon
unless the daemon ends or is never again out of a handler.
`FairSpec` of `Lifecycle` assumes that a process makes its next call and that the
service manager starts its daemon again after a failure
(`wlblurd/systemd/wlblur.service:9`).  Nothing is assumed of signals, edits,
reloads, connects, requests, crashes or failures.

## 4. What is proved

Every theorem below holds for every value of the constants that the named
assumption of its module allows.

**Registry** (`RegistryAssumption`: numbers are natural, identifiers have at least
one value).  `TableTypesAreKept` (`TypeOK`), `NoNodeIsOrphaned` (`NoOrphans`),
`LimitIsKept` (`WithinLimit`), `OpenConnectionsAreRegistered` (`OpenIsRegistered`)
and `RemovalsCorrect` (`RemovedByOwner`) hold even after both counters have
wrapped.  `NodesCorrect` (`NodesAddressable`) and `SlotsCorrect`
(`OneSlotPerConnection`) hold until the counter concerned comes round; once
`next_client_id` is 0 again, an accepted connection is closed and its slot stays
in use for ever.  None of the properties is inductive alone.  `TableInv` adds
`Dated`: the counters are in range, the node list is finite and every node is
older than `next_node`.  Finiteness is what makes `Cardinality` in `WithinLimit`
behave when a node is added or removed (`FewerNodes`, `TableCreate`), and
`NoOrphans` survives a disconnection because the nodes removed are those with the
`client_id` of the slot that is cleared.  `SlotInv` adds `ClientsDated`, by which a
new client's identifier differs from all in the table.  One lemma covers each
action, and `TableStep` and `SlotStep` put them together.

**NodeService** (`RegistryAssumption`).  `TablesImplementService`: until a counter
comes round, `Registry` implements `NodeService`.  The invariants are `TableInv` and
`SlotInv` before and after a step, and two lemmas carry the argument: the mapping
from slots in use to sessions is one to one (`SessionsAreSlots`), so a table is full
exactly when there are as many sessions as slots, and the nodes a handler looks up
or counts by `client_id` are those the service knows by owner (`OwnedNodes`,
`OwnsIsOwned`, `ServiceCounts`).  One lemma per action then shows the abstract step
it is.

**BlurDaemon** (`RegistryAssumption`, `DaemonAssumption`: there are finitely many
descriptors, and the bounds on connects and creations do not stop a client that may
still send).  Every step of the daemon is a step of `Registry` or leaves the tables
alone (`TableMoves`), so that `DaemonSpec` implies `Spec` (`DaemonRefinesTables`) and
the whole daemon implements the service and removes only what its client owns
(`DaemonImplementsService`, `DaemonRemovesOwned`).  `DaemonInv` has the invariants of
the tables and adds what relates them to the rest:

* `Places`: a connection is in one place, not yet made, queued for `accept()`, behind
  one descriptor, or closed by the daemon, and `watched`, `open` and `peer` name the
  same descriptors.  With `SlotInv` it gives `TablesAndSocketsAgree`
  (`TablesMatchSockets`).
* `EventsInv`: a batch has at most one event for a descriptor.  This is what
  `EventsAreCurrent` (`EventsCurrent`) turns on: handling an event closes at most its
  own descriptor, so the others keep theirs.
* `Responding` and `Counted`: no refusal carries an identifier, an answer in progress
  goes to an open connection, and two units of the stream are spent on each answer,
  so that nobody is answered more often than it has asked (`DaemonTypesAreKept`).

`AnswersComeInOrder` (`AnswersInOrder`) needs in addition that what a sound client
has asked is whole, and `HandlesStayValid` (`HandlesValid`) that an answer which has
not been read yet already names a node of its client, or one the client has asked to
destroy since (`HandlesInv`).  `BuffersAreClosed` (`OnlyStraysStay`) has no
hypothesis: for any number of descriptors in a message and of planes, the daemon is
left between two requests with the strays only.  `BuffersInv` says where the
descriptors of buffers are, while an answer is in progress and otherwise: all but the
two that `SendResponse` closes are strays, and what a message brings is new to the
process (`InstalledIsNew`).  `DaemonAssumption` also has it that a request of the
short form brings no descriptors.

**Presets** (`PresetAssumption`: every name has a bucket and a stored form).
`AddedIsFound`: what is added under a name that fits is found under it.
`OthersUntouched`: no other name resolves differently afterwards, except the one
the new name is cut off to, in the same bucket.  Both rest on where `Position` is
after a replacement and after a prepending.  From them follows what filling a table
does: `LastAddedIsFound`, a name resolves to the last preset of that name that was
not refused, unless a longer name of its bucket is cut off to it (`KeptApart`), and
`OnlyOfferedIsKept`, whatever memory there was, nothing refused is in the table.
`Filled` is defined by recursion over the list; that it has the values it should
(`FilledIsFilling`) is shown from a smallest number without one, since the least
element of a set of numbers is at hand (`CountingUp`) where induction is not.

**ConfigReload** (`ConfigAssumption`, `ContentAssumption`: files hold presets with
names and parameters, and the names the property speaks of fit).  `NoSignalIsLost`,
`OneConfiguration`, `ReloadRestarts`, `RangeIsKept` and `NamesAreResolved` prove
`NoSignalLost`, `OneConfig`, `ReloadIsRestart`, `UsedInRange` and `NamesResolved`.
That a reload is as good as a restart includes that it is as bad: what a restart
without a usable file would run with, the hardcoded configuration, is what a reload
installs, which is not what the documentation promises (`OldConfigKept`, section 5).
`SignalInv` says that with the flag clear the daemon has looked for its file since
the last signal, or is about to; `HeapInv` that from the start of the loop on the one
configuration allocated is the one in force, so that the swap frees exactly the old
one; `ReloadInv` that what a reload has found, read and installed is what a daemon
started now would read, as long as nothing has been edited since it looked.
`LoadInv` says that what has been read is what a file comes to, and `RangeInv` that
all defaults and presets of every configuration allocated have been accepted
(`GoodConfig`), so that whatever a name resolves to has been; the standard presets
and the hardcoded parameters are accepted because they are what they are.

**BlurFrame** (`FrameAssumption`).  `NoFeedbackEver`, `FramesAreBalanced`,
`OutputsStayIntact`: the invariant `Inv` says that the framebuffers a frame has
taken are in use and were not when it began (`Owned`), that they are pairwise
different (`Different`), and that the texture read is the one last written
(`Chained`).  Exported textures are in use, so no acquisition returns one.
`NothingIsKept` and `ErrorsReported` use `PlanesInv` and `FlagsInv`, which tell for
each step which image, texture and descriptors exist, whether an error pending there
can come from the frame's last draw, and what may have been lost.  `ErrorsAreReported`
is about what remains to be said of a code that ignores the answer of
`wlblur_shader_use()`: which errors can be lost, and which frames leave one to the
next.  `FrameTypesAreKept` (`TypeOK`) adds to
them `StageTypes`, the range of what only reports.

**BlurContext** (`ContextAssumption`).  `TypesAreKept`, `CreationUnwinds`,
`NothingIsLeft`, `AloneIsIntact`.  `Unwound` is about every failed creation, and a
destruction while the destroyed context is current; with another one current the code
deletes that one's objects.  `NothingLeft` excepts the EGLContext that a failed
creation leaves current, and nothing else.  The invariant says that a context being made is
not among the ready ones and is current from `eglMakeCurrent()` on (`Creation`),
which names its renderer remembers at each step (`Named`), that whatever exists
belongs to a ready context or to the running call (`Belongs`), and what a context
keeps as long as it is alone (`Alone`).

**Lifecycle** (`LifecycleAssumption`). `TypesAreKept`, `OwnerAlone`,
`StaleSocketsGo`, `AloneIsFound`, `EndsAreClean`. The invariant has three parts:
what is at the paths (`FilesOK`: a socket is only ever at a path that fits), what
one daemon knows of its own socket (`Local`), and what two know of each other
(`Meetings`: daemons that run at once are `shared`). `Harmless` says which steps
of one process leave what another knows true, so each action is proved once for
the daemon that makes it (`OneMoves`). That the own `chmod()` has reached the own
socket while it is linked is what `OwnerAlone` needs.  `EndsAreClean` excepts crashes
and a last `unlink()` that fails.

Model-checked only: liveness (`EveryRequestAnswered`, `DisconnectedForgotten`,
`SignalStops`, `SignalActedUpon`, `Restarted`), since the proof system handles
neither fairness nor `ENABLED` here.

## 5. Where code and documents disagree

Each of these is a run that TLC ends with a counterexample; `PROJECT.json` quotes
the lines.

* A request of another protocol version gets no answer (`BlurDaemonVersion`).
* Two framebuffers of every frame are never released, so the pool is exhausted
  after a few frames of one size (`BlurFramePool`).
* A reload replaces the running configuration by the hardcoded one when its file is
  gone (`config.c:258-270`), has a syntax error (`config.c:276`) or `[defaults]` out of
  range (`config.c:324-332`), and by the rest of the file when a preset is out of range
  (`config.c:353-362`); the documentation keeps the old configuration in each case
  (`docs/architecture/04-configuration-system.md:527-555`).  `ConfigReloadBroken` ends
  with one of them; each alone violates `OldConfigKept`.
* A daemon that has reloaded reads the path it unlinks from freed memory
  (`main.c:243`), and may leave its socket behind (`LifecycleReload`).
* Two contexts are not independent: the destruction of one, or its failed creation,
  terminates the display of both (`BlurContextPair`).

Met while modelling, and without a run of their own:

* Of two descriptors that come with one message the second is never closed
  (`ipc.c:29`, `42-49`), though `docs/api/ipc-protocol.md:196` has clients send one
  for each plane; with every such request the daemon has one descriptor less.
* A client that is refused because `next_client_id` has come round leaves its slot in
  use for ever (`main.c:58`, `client.c:29-30`).
* A node identifier of 0 after a wrap: the creation is answered `OUT_OF_MEMORY`
  (`ipc_protocol.c:70`) and has succeeded.
* A reload reads the default files and ignores `--config` (`main.c:94`).
* The daemon accepts a noise of up to 1.0 (`config.c:191`), the renderer of up to 0.1
  (`blur_params.c:90`).
* OpenGL errors of the downsample and upsample passes are taken by
  `wlblur_shader_use()`, whose answer is ignored (`blur_kawase.c:294`, `361`), so such a
  frame counts as rendered.  So does one for which `glUseProgram()` itself fails, the
  one before the last pass included, which the program of the passes before then draws.
* `wlblur_egl_create` that fails past `eglMakeCurrent()` does not release its context,
  which lives on until another is made current (`egl_helpers.c:185-188`).
* `wlblur_context_destroy` does not make its context current: if another one is, that
  one's objects of the same names are deleted (`blur_kawase.c:184-214`).
* The last `unlink()` of the socket may fail, and nobody looks (`main.c:221`, `231`,
  `243`).
* `max_nodes_per_client` is parsed and never used (`blur_node.c:14`).
* A socket path of 108 or more characters is cut off for `bind()` alone
  (`main.c:206`); with one the daemon cannot start, and leaves a file behind.
* A preset name of 32 or more characters is stored cut off (`presets.c:137`) and never
  found.
* A failure to set up the event loop is reported as success (`main.c:239`), so the
  service manager does not restart the daemon.
* `wlblur_context_create` cannot report a missing extension as such:
  `wlblur_egl_create` fails first (`egl_helpers.c:83-95`), which is reported as
  `EGL_INIT` (`blur_context.c:33-37`; `docs/api/libwlblur-reference.md:62`).

## 6. Not modelled, and why

The TOML parser (vendored; its verdict on a file is taken as given), shader
sources and the arithmetic of uniforms (floating point), the empty stubs
(`utils.c`, `buffer_registry.c`), and the examples. `wlblur_params_validate` is a
failure a frame may meet; `wlblur_params_compute` is floating-point arithmetic
without a caller in the daemon. `last_error` and error strings are reporting.
`wlblur_shader_load` has no caller. Of the `[daemon]` section of a configuration
only `socket_path` is modelled, by `Lifecycle`; nothing reads the rest. That a
value of `num_passes` beyond 32 bits is narrowed before it is checked is outside
the model, which starts after the narrowing.

## 7. Plan

1. Parameters: validation over bounded inputs, as an algorithm with a reference
   definition, and the narrowing of `num_passes`.
2. Action properties of the reload and of the rendering as theorems: what a step may
   never free, and what it may never give to a client.
