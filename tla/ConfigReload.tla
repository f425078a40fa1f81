---------------------------- MODULE ConfigReload ----------------------------
(***************************************************************************)
(* The configuration of wlblurd: how it is loaded (config.c, presets.c),   *)
(* reloaded on SIGUSR1 (reload.c), swapped by the event loop (main.c) and  *)
(* read by a request that names a preset (ipc_protocol.c).                 *)
(*                                                                         *)
(* The user edits the files and sends signals at any moment, also between  *)
(* the clearing of the flag, the search for the file and the reading of    *)
(* it.  A file that is being written, or has a syntax error, is "broken".  *)
(* Of a set of blur parameters the model keeps the algorithm and           *)
(* num_passes, a field with both a lower and an upper limit.               *)
(***************************************************************************)
EXTENDS Presets, FiniteSets, SequencesExt

CONSTANTS
    DefaultPaths,   \* the files looked for when none is given, best first
    GivenPath,      \* the file named by --config, or NoPath
    Contents,       \* what a file that parses can say: [has_defaults, defaults, presets]
    Names,          \* the presets a request can name (at most 31 characters)
    MemoryFails,    \* may calloc() return NULL
    Losable,        \* the presets for which it may
    ContextReady,   \* has ipc_protocol_init() been called
    MaxEdits,       \* bound: edits in a behaviour
    MaxSignals      \* bound: SIGUSR1s in a behaviour

NoPath == "none"

ASSUME ConfigAssumption ==
    /\ DefaultPaths \in Seq(STRING) /\ NoPath \notin Range(DefaultPaths)
    /\ \A c \in Contents : DOMAIN c = {"has_defaults", "defaults", "presets"} /\ c.has_defaults \in BOOLEAN
    /\ MemoryFails \in BOOLEAN /\ ContextReady \in BOOLEAN
    /\ MaxEdits \in Nat /\ MaxSignals \in Nat

Files == Range(DefaultPaths) \cup ({GivenPath} \ {NoPath})

VARIABLES
    files,              \* path |-> what the file says, Broken or Missing
    version,            \* edits so far
    signals,            \* SIGUSR1s so far
    signalled,          \* the version when the last of them arrived
    reload_requested,   \* the flag of the signal handler
    running,            \* cleared by SIGTERM and SIGINT
    pc,                 \* where the daemon stands
    stage,              \* on whose behalf config_load() runs
    path,               \* the file config_load() has settled on
    content,            \* what it read there
    fresh,              \* what it returned
    starved,            \* did calloc() fail in it
    looked,             \* the version when it looked for its file
    heap,               \* address |-> a configuration that is not freed
    global_config,      \* the address of the one in force
    used                \* the parameters of the last rendering of this batch

fileVars == <<files, version>>
signalVars == <<signals, signalled, reload_requested, running>>
loadVars == <<path, content, fresh, starved, looked>>
vars == <<fileVars, signalVars, pc, stage, loadVars, heap, global_config, used>>

NULL == [null |-> TRUE]

Missing == [file |-> "missing"]

Broken == [file |-> "broken"]

Starting == stage # "reload" /\ pc \in {"find", "read", "install"}

-----------------------------------------------------------------------------
(* Configurations. *)

Hardcoded == [algorithm |-> "kawase", num_passes |-> 3]

(* What calloc() leaves in a field nobody assigns. *)
Zeroed == [algorithm |-> "kawase", num_passes |-> 0]

Passes(n) == [Hardcoded EXCEPT !.num_passes = n]

(* preset_registry_init *)
Standard == <<[name |-> "window", params |-> Passes(3)],
              [name |-> "panel", params |-> Passes(2)],
              [name |-> "hud", params |-> Passes(4)],
              [name |-> "tooltip", params |-> Passes(1)]>>

ASSUME ContentAssumption ==
    /\ \A c \in Contents : c.presets \in Seq([name : PresetNames, params : Params])
    /\ \A n \in DOMAIN Standard : Standard[n].name \in PresetNames /\ Standard[n].params \in Params
    /\ \A name \in Names : name \in PresetNames /\ Stored[name] = name

(* parse_blur_params and validate_blur_params let it through. *)
Accepted(p) == p.algorithm = "kawase" /\ p.num_passes \in 1 .. 8

(* What a file comes to.  One that cannot be opened or parsed, or whose
   [defaults] are refused, counts for nothing; without [defaults] the field is
   left as calloc() made it. *)
Default == [has_defaults |-> TRUE, defaults |-> Hardcoded, presets |-> << >>]

Effective(c) ==
    IF c \in {Missing, Broken} THEN Default
    ELSE IF ~ c.has_defaults THEN [c EXCEPT !.defaults = Zeroed]
    ELSE IF Accepted(c.defaults) THEN c
    ELSE Default

(* The presets that are to be added: the standard ones, then those of the file;
   some of these are refused. *)
Offered(c) == Standard \o Effective(c).presets

Refused(c) == {n \in DOMAIN Offered(c) : ~ Accepted(Offered(c)[n].params)}

(* config_load() on what it finds, when calloc() fails for the presets in lost
   (the mutant forgets what the file says under [presets]). *)
LoadStandard(c, lost) == [Effective(c) EXCEPT !.presets = Filled(Standard, {}, lost)]
LoadWithout(c, lost) == [Effective(c) EXCEPT !.presets = Filled(Offered(c), Refused(c), lost)]

Load == [c \in Contents \cup {Missing, Broken} |-> LoadWithout(c, {})]

(* Without memory there is no configuration, or one without some presets. *)
Starved == [c \in Contents \cup {Missing, Broken} |->
    {NULL} \cup {LoadWithout(c, lost) : lost \in SUBSET {n \in DOMAIN Offered(c) : Offered(c)[n].name \in Losable}}]

Loaded(c) == {Load[c]} \cup IF MemoryFails THEN Starved[c] ELSE {}

(* config_validate (the mutant wants a [defaults] section). *)
HasDefaults(c) == c.has_defaults
ConfigValid(c) == c.has_defaults => Accepted(c.defaults)

(* resolve_preset, called without parameters to override (the mutant takes
   the defaults of a file that has none). *)
ResolveUnchecked(c, name) == IF Known(c.presets, name) THEN Lookup(c.presets, name) ELSE c.defaults
Resolve(c, name) ==
    IF Known(c.presets, name) THEN Lookup(c.presets, name)
    ELSE IF c.has_defaults THEN c.defaults
    ELSE Hardcoded

Readable(p) == files[p] # Missing

(* get_default_config_path *)
DefaultPath ==
    IF \A i \in DOMAIN DefaultPaths : ~ Readable(DefaultPaths[i]) THEN NoPath
    ELSE DefaultPaths[CHOOSE i \in DOMAIN DefaultPaths :
                        /\ Readable(DefaultPaths[i])
                        /\ \A j \in 1 .. i - 1 : ~ Readable(DefaultPaths[j])]

InForce == heap[global_config]

-----------------------------------------------------------------------------

(* main() calls config_load() with the argument of --config, if there is one. *)
Init ==
    /\ files \in [Files -> Contents \cup {Missing, Broken}] /\ version = 0
    /\ signals = 0 /\ signalled = 0 /\ reload_requested = FALSE /\ running = TRUE
    /\ stage = "startup"
    /\ pc = (IF GivenPath = NoPath THEN "find" ELSE "read")
    /\ path = GivenPath
    /\ content = Missing /\ fresh = NULL /\ starved = FALSE /\ looked = 0
    /\ heap = << >> /\ global_config = 0
    /\ used = NULL

(* The user's editor changes, breaks, removes or restores a file. *)
Edit ==
    /\ pc # "stopped"
    /\ version < MaxEdits
    /\ version' = version + 1
    /\ \E f \in Files, c \in Contents \cup {Missing, Broken} :
        /\ c # files[f]
        /\ files' = [files EXCEPT ![f] = c]
    /\ UNCHANGED <<signalVars, pc, stage, loadVars, heap, global_config, used>>

(* Before reload_init() a SIGUSR1 ends the process, afterwards it sets a flag. *)
Usr1 ==
    /\ pc # "stopped"
    /\ signals < MaxSignals
    /\ signals' = signals + 1
    /\ signalled' = version
    /\ IF Starting
       THEN pc' = "stopped" /\ heap' = << >> /\ UNCHANGED reload_requested
       ELSE reload_requested' = TRUE /\ UNCHANGED <<pc, heap>>
    /\ UNCHANGED <<fileVars, running, stage, loadVars, global_config, used>>

(* SIGTERM or SIGINT. *)
Term ==
    /\ running
    /\ pc # "stopped"
    /\ running' = FALSE
    /\ IF Starting THEN pc' = "stopped" /\ heap' = << >> ELSE UNCHANGED <<pc, heap>>
    /\ UNCHANGED <<fileVars, signals, signalled, reload_requested, stage, loadVars, global_config, used>>

-----------------------------------------------------------------------------
(* config_load *)

Find ==
    /\ pc = "find"
    /\ path' = DefaultPath
    /\ looked' = version
    /\ pc' = "read"
    /\ UNCHANGED <<fileVars, signalVars, stage, content, fresh, starved, heap, global_config, used>>

Read ==
    /\ pc = "read"
    /\ content' = IF path = NoPath THEN Missing ELSE files[path]
    /\ fresh' \in Loaded(content')
    /\ starved' = (fresh' # Load[content'])
    /\ pc' = "install"
    /\ UNCHANGED <<fileVars, signalVars, stage, path, looked, heap, global_config, used>>

NewAddress == CHOOSE a \in 1 .. Cardinality(DOMAIN heap) + 1 : a \notin DOMAIN heap

(* The configurations left when the new one takes the place of the old (the
   mutant does not free the old one). *)
NeverFreed(a) == DOMAIN heap
Freed(a) == DOMAIN heap \ {a}

Install ==
    /\ global_config' = NewAddress
    /\ heap' = [a \in Freed(global_config) \cup {NewAddress} |->
                  IF a = NewAddress THEN fresh ELSE heap[a]]

(* The flag at two points of handle_config_reload: it is cleared before the
   file is looked for (in the mutants, once the new configuration is in, and
   not at all). *)
NeverCleared(point) == reload_requested
ClearedLast(point) == IF point = "enter" THEN reload_requested ELSE FALSE
FlagAt(point) == IF point = "enter" THEN FALSE ELSE reload_requested

(* config_load() has returned, and its variables are gone. *)
Returned == path' = NoPath /\ content' = Missing /\ fresh' = NULL /\ UNCHANGED <<starved, looked>>

(* The daemon goes on with its first configuration, tries once more, or gives up. *)
Startup ==
    /\ pc = "install"
    /\ \/ stage = "startup" /\ fresh = NULL
          /\ stage' = "retry" /\ pc' = "find" /\ UNCHANGED <<heap, global_config>>
       \/ stage = "retry" /\ fresh = NULL
          /\ pc' = "stopped" /\ UNCHANGED <<stage, heap, global_config>>
       \/ stage # "reload" /\ fresh # NULL
          /\ pc' = "loop" /\ Install /\ UNCHANGED stage
    /\ Returned
    /\ UNCHANGED <<fileVars, signalVars, used>>

Swap ==
    /\ pc = "install"
    /\ stage = "reload"
    /\ IF fresh # NULL /\ ConfigValid(fresh) THEN Install ELSE UNCHANGED <<heap, global_config>>
    /\ reload_requested' = FlagAt("return")
    /\ pc' = "wait"
    /\ Returned
    /\ UNCHANGED <<fileVars, signals, signalled, running, stage, used>>

-----------------------------------------------------------------------------
(* The event loop. *)

Reload ==
    /\ pc = "loop"
    /\ running
    /\ reload_requested
    /\ pc' = "clear"
    /\ UNCHANGED <<fileVars, signalVars, stage, loadVars, heap, global_config, used>>

Clear ==
    /\ pc = "clear"
    /\ reload_requested' = FlagAt("enter")
    /\ stage' = "reload"
    /\ pc' = "find"
    /\ UNCHANGED <<fileVars, signals, signalled, running, loadVars, heap, global_config, used>>

NoReload ==
    /\ pc = "loop"
    /\ running
    /\ ~ reload_requested
    /\ pc' = "wait"
    /\ UNCHANGED <<fileVars, signalVars, stage, loadVars, heap, global_config, used>>

(* epoll_wait() times out or is interrupted. *)
Wake ==
    /\ pc = "wait"
    /\ pc' = "loop"
    /\ UNCHANGED <<fileVars, signalVars, stage, loadVars, heap, global_config, used>>

(* epoll_wait() reports events. *)
Serve ==
    /\ pc = "wait"
    /\ pc' = "serve"
    /\ UNCHANGED <<fileVars, signalVars, stage, loadVars, heap, global_config, used>>

(* A RENDER_BLUR request with the name of a preset. *)
Render ==
    /\ pc = "serve"
    /\ ContextReady
    /\ \E name \in Names : used' = Resolve(InForce, name)
    /\ UNCHANGED <<fileVars, signalVars, pc, stage, loadVars, heap, global_config>>

(* The last event has been handled. *)
Served ==
    /\ pc = "serve"
    /\ pc' = "loop" /\ used' = NULL
    /\ UNCHANGED <<fileVars, signalVars, stage, loadVars, heap, global_config>>

(* main() frees the configuration when the loop has ended: running has been
   cleared, or epoll_wait() fails. *)
Stop ==
    /\ (pc = "loop" /\ ~ running) \/ pc = "wait"
    /\ heap' = Restrict(heap, Freed(global_config))
    /\ pc' = "stopped"
    /\ UNCHANGED <<fileVars, signalVars, stage, loadVars, global_config, used>>

(* The steps between two events, and the handling of events.  The daemon may
   never come back from the latter: sendmsg() waits for a client that does not
   read its answers (ipc.c:80). *)
LoopStep ==
    \/ Find \/ Read \/ Startup \/ Swap
    \/ Reload \/ Clear \/ NoReload \/ Wake \/ Serve \/ Stop

HandlerStep == Render \/ Served

Next == Edit \/ Usr1 \/ Term \/ LoopStep \/ HandlerStep

Spec == Init /\ [][Next]_vars

(* The daemon runs while no handler has it; epoll_wait() returns within a
   second (main.c:104).  Of a handler nothing is assumed. *)
FairSpec == Spec /\ WF_vars(LoopStep)

-----------------------------------------------------------------------------

(* Outside a reload just the configuration in force exists, also while a request
   is handled, and none is left at the end: no reload has left the old one
   behind or freed the new one (main.c:93-102, 242-244, reload.c:81-85). *)
OneConfig ==
    /\ pc \in {"loop", "clear", "wait", "serve"} => DOMAIN heap = {global_config}
    /\ pc = "stopped" => heap = << >>

(* Whatever the files go through, what a request gets from a preset's name is
   in range: the fields calloc() zeroed, a refused preset or a configuration
   that is not there never come through (presets.c:198-243). *)
UsedInRange == used # NULL => Accepted(used)

(* No SIGUSR1 is lost: while the loop waits or serves with the flag clear, the daemon has
   looked for its file after the last signal (reload.c:68-74). *)
NoSignalLost ==
    pc \in {"loop", "wait", "serve"} /\ ~ reload_requested => looked >= signalled

Quiescent ==
    /\ pc = "wait" /\ ~ reload_requested
    /\ signals > 0 /\ signalled = version
    /\ ~ starved

(* A reload is as good, or as bad, as a restart: when the last edit has been
   followed by a signal and the daemon is back at epoll_wait(), it runs with
   what a daemon started now without arguments would read, be it the hardcoded
   configuration, because the file is gone, broken or refused, or a file without
   a preset that is refused (main.c:94, config.c:252-374).  The documentation
   has the old configuration kept in these cases: see OldConfigKept. *)
ReloadIsRestart ==
    Quiescent => InForce = Load[IF DefaultPath = NoPath THEN Missing ELSE files[DefaultPath]]

(* The places of a name among the presets that are added; the last counts. *)
Places(c, name) == {n \in DOMAIN Offered(c) \ Refused(c) : Offered(c)[n].name = name}

LastAdded(c, name) ==
    Offered(c)[CHOOSE n \in Places(c, name) : \A m \in Places(c, name) : m <= n].params

(* A longer name in the same bucket that is kept under this one. *)
Shadowed(c, name) ==
    \E n \in DOMAIN Offered(c) \ Refused(c) :
        LET longer == Offered(c)[n].name
        IN  /\ longer # name /\ Stored[longer] = name
            /\ hash_preset_name[longer] = hash_preset_name[name]

(* What a name resolves to is what the file says of it: a preset of the file
   comes before a standard one of its name, a refused one and one that shares
   its bucket change nothing, and nothing else is found (presets.c:19-166,
   198-243, config.c:342-368). *)
NamesResolved ==
    pc = "install" /\ fresh # NULL /\ ~ starved =>
        \A name \in Names :
            ~ Shadowed(content, name) =>
                Resolve(fresh, name) =
                    IF Places(content, name) # {}
                    THEN LastAdded(content, name)
                    ELSE IF Effective(content).has_defaults THEN Effective(content).defaults
                    ELSE Hardcoded

(* Every SIGUSR1 is acted upon, unless the daemon ends, or is held in an event
   handler for ever (main.c:91-104, ipc.c:80, reload.c:68-74). *)
SignalActedUpon ==
    reload_requested ~> \/ ~ reload_requested \/ ~ running \/ pc = "stopped"
                        \/ [](pc = "serve")

-----------------------------------------------------------------------------
(* What the documentation says, and the code does not do. *)

(* A file nobody should reload: it is not there, does not parse, or has
   parameters that are out of range. *)
Invalid(c) ==
    \/ c \in {Missing, Broken}
    \/ c.has_defaults /\ ~ Accepted(c.defaults)
    \/ \E n \in DOMAIN c.presets : ~ Accepted(c.presets[n].params)

(* "Parse errors keep old config", "Validation before apply - Invalid configs
   rejected", "Config file not found, keeping old config", "Old config
   preserved" (docs/architecture/04-configuration-system.md:527, 529, 539, 547,
   554). *)
OldConfigKept ==
    [][pc = "install" /\ stage = "reload" /\ Invalid(content) => InForce' = InForce]_vars
=============================================================================
