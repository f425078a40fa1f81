-------------------------- MODULE ConfigReloadProofs --------------------------
(***************************************************************************)
(* Proofs about ConfigReload, for every number of edits and signals, every *)
(* content of the files and whether or not memory is short.                *)
(***************************************************************************)
EXTENDS ConfigReload, PresetsProofs, FiniteSetTheorems

(* Neither the last signal nor the last look is later than the last edit.  If
   the flag is clear, the daemon has looked for its file since the last signal,
   is about to, or has stopped. *)
SignalInv ==
    /\ version \in Nat /\ signalled \in 0 .. version /\ looked \in 0 .. version
    /\ ~ reload_requested => looked >= signalled \/ pc \in {"find", "stopped"}

(* A configuration is in force, and no other exists, from the start of the
   event loop on; before it, and after the end, none does. *)
HeapInv ==
    /\ pc \in {"find", "read", "install", "loop", "clear", "wait", "serve", "stopped"}
    /\ stage \in {"startup", "retry", "reload"}
    /\ Starting => heap = << >> /\ global_config = 0
    /\ pc = "stopped" => heap = << >>
    /\ ~ Starting /\ pc # "stopped" => DOMAIN heap = {global_config}

-----------------------------------------------------------------------------

(* No signal is lost at first ... *)
LEMMA SignalInit == Init => SignalInv
BY ConfigAssumption DEF Init, SignalInv

(* A signal that comes while the daemon is searching, reading or swapping sets
   the flag again; clearing it is followed by a search. *)
LEMMA SignalStep == SignalInv /\ [Next]_vars => SignalInv'
<1> SUFFICES ASSUME SignalInv, [Next]_vars PROVE SignalInv'
  OBVIOUS
<1> USE DEF SignalInv
<1>1. CASE Edit
  BY <1>1 DEF Edit, signalVars, loadVars
<1>2. CASE Usr1
  BY <1>2 DEF Usr1, fileVars, loadVars
<1>3. CASE Term
  BY <1>3 DEF Term, fileVars, loadVars
<1>4. CASE Find
  BY <1>4 DEF Find, fileVars, signalVars
<1>5. CASE Read
  BY <1>5 DEF Read, fileVars, signalVars
<1>6. CASE Startup
  BY <1>6 DEF Startup, Returned, fileVars, signalVars
<1>7. CASE Swap
  BY <1>7 DEF Swap, Returned, FlagAt, fileVars
<1>8. CASE Clear
  BY <1>8 DEF Clear, FlagAt, fileVars, loadVars
<1>9. CASE Reload \/ NoReload \/ Wake \/ Serve \/ Render \/ Served \/ Stop
  BY <1>9 DEF Reload, NoReload, Wake, Serve, Render, Served, Stop, fileVars, signalVars, loadVars
<1>10. CASE UNCHANGED vars
  BY <1>10 DEF vars, fileVars, signalVars, loadVars
<1> QED
  BY <1>1, <1>2, <1>3, <1>4, <1>5, <1>6, <1>7, <1>8, <1>9, <1>10 DEF Next, LoopStep, HandlerStep

(* No SIGUSR1 is lost, wherever in a reload it arrives: while the loop waits or
   serves with the flag clear, the daemon has looked for its file after the last signal
   (reload.c:68-74). *)
THEOREM NoSignalIsLost == Spec => []NoSignalLost
<1>1. SignalInv => NoSignalLost
  BY DEF SignalInv, NoSignalLost
<1> QED
  BY <1>1, SignalInit, SignalStep, PTL DEF Spec

-----------------------------------------------------------------------------

(* An address that is in use is not given out again. *)
LEMMA NewAddressIsNew ==
    ASSUME \/ DOMAIN heap = {}
           \/ DOMAIN heap = {global_config}
    PROVE  NewAddress \notin DOMAIN heap
<1>1. CASE DOMAIN heap = {}
  <2>1. Cardinality(DOMAIN heap) = 0
    BY <1>1, FS_EmptySet
  <2>2. 1 \in 1 .. Cardinality(DOMAIN heap) + 1 /\ 1 \notin DOMAIN heap
    BY <1>1, <2>1
  <2> QED
    BY <2>2 DEF NewAddress
<1>2. CASE DOMAIN heap = {global_config}
  <2>1. Cardinality(DOMAIN heap) = 1
    BY <1>2, FS_Singleton
  <2>2. \E a \in 1 .. Cardinality(DOMAIN heap) + 1 : a \notin DOMAIN heap
    BY <1>2, <2>1
  <2> QED
    BY <2>2 DEF NewAddress
<1> QED
  BY <1>1, <1>2

(* After a swap the new configuration is the only one. *)
LEMMA InstallOne ==
    ASSUME HeapInv, pc = "install", Install
    PROVE  DOMAIN heap' = {global_config'}
<1>1. DOMAIN heap = {} \/ DOMAIN heap = {global_config}
  BY DEF HeapInv
<1>2. NewAddress \notin DOMAIN heap
  BY <1>1, NewAddressIsNew
<1>3. DOMAIN heap' = Freed(global_config) \cup {NewAddress}
  BY DEF Install
<1>4. Freed(global_config) = {}
  BY <1>1 DEF Freed
<1> QED
  BY <1>3, <1>4 DEF Install

(* The daemon starts without a configuration ... *)
LEMMA HeapInit == Init => HeapInv
BY DEF Init, HeapInv, Starting

(* ... and every step leaves the one it uses, and no other. *)
LEMMA HeapStep == HeapInv /\ [Next]_vars => HeapInv'
<1> SUFFICES ASSUME HeapInv, [Next]_vars PROVE HeapInv'
  OBVIOUS
<1> USE DEF HeapInv, Starting
<1>1. CASE Edit
  BY <1>1 DEF Edit
<1>2. CASE Usr1
  BY <1>2 DEF Usr1
<1>3. CASE Term
  BY <1>3 DEF Term
<1>4. CASE Find
  BY <1>4 DEF Find
<1>5. CASE Read
  BY <1>5 DEF Read
<1>6. CASE Startup
  <2>1. CASE fresh # NULL /\ Install
    BY <1>6, <2>1, InstallOne DEF Startup
  <2>2. CASE fresh = NULL
    BY <1>6, <2>2 DEF Startup
  <2> QED
    BY <1>6, <2>1, <2>2 DEF Startup
<1>7. CASE Swap
  <2>1. CASE Install
    BY <1>7, <2>1, InstallOne DEF Swap
  <2>2. CASE UNCHANGED <<heap, global_config>>
    BY <1>7, <2>2 DEF Swap
  <2> QED
    BY <1>7, <2>1, <2>2 DEF Swap
<1>8. CASE Clear
  BY <1>8 DEF Clear
<1>9. CASE Reload \/ NoReload \/ Wake \/ Serve \/ Render \/ Served
  BY <1>9 DEF Reload, NoReload, Wake, Serve, Render, Served
<1>10. CASE Stop
  <2>1. Freed(global_config) = {}
    BY <1>10 DEF Stop, Freed
  <2>2. heap' = << >>
    BY <1>10, <2>1 DEF Stop, Restrict
  <2> QED
    BY <1>10, <2>2 DEF Stop
<1>11. CASE UNCHANGED vars
  BY <1>11 DEF vars
<1> QED
  BY <1>1, <1>2, <1>3, <1>4, <1>5, <1>6, <1>7, <1>8, <1>9, <1>10, <1>11 DEF Next, LoopStep, HandlerStep

(* However often the daemon reloads, and whether or not the files and the
   memory allow it, one configuration exists while it runs and none at its end:
   a reload neither leaks the old one nor frees the one in force
   (main.c:93-102, 242-244, reload.c:81-85). *)
THEOREM OneConfiguration == Spec => []OneConfig
<1>1. HeapInv => OneConfig
  BY DEF HeapInv, OneConfig, Starting
<1> QED
  BY <1>1, HeapInit, HeapStep, PTL DEF Spec

-----------------------------------------------------------------------------

Documents == Contents \cup {Missing, Broken}

(* What a daemon started now would read. *)
Current == IF DefaultPath = NoPath THEN Missing ELSE files[DefaultPath]

(* A reload that has looked for its file since the last edit is about the file
   that would be found now, and ends with what is in it. *)
ReloadInv ==
    /\ SignalInv /\ HeapInv
    /\ files \in [Files -> Documents]
    /\ stage # "reload" /\ ~ reload_requested => signals = 0 \/ pc = "stopped"
    /\ stage = "reload" /\ looked = version =>
        /\ pc = "read" => path = DefaultPath
        /\ pc = "install" /\ ~ starved => fresh = Load[Current]
        /\ pc \in {"loop", "wait", "serve"} /\ ~ starved => InForce = Load[Current]

(* The file that is found is one of those that are looked for. *)
LEMMA DefaultPathFound == DefaultPath = NoPath \/ DefaultPath \in Files
<1> SUFFICES ASSUME ~ \A i \in DOMAIN DefaultPaths : ~ Readable(DefaultPaths[i])
             PROVE  DefaultPath \in Files
  BY DEF DefaultPath
<1> DEFINE T == {i \in DOMAIN DefaultPaths : Readable(DefaultPaths[i])}
<1>1. DOMAIN DefaultPaths = 1 .. Len(DefaultPaths) /\ Len(DefaultPaths) \in Nat
  BY ConfigAssumption
<1>2. T # {} /\ T \in SUBSET Nat
  BY <1>1
<1>3. PICK i \in T : \A j \in 1 .. i - 1 : j \notin T
  <2> HIDE DEF T
  <2>1. PICK i \in T : \A j \in T : i <= j
    BY <1>2, LeastNumber
  <2> QED
    BY <1>2, <2>1
<1>4. i \in DOMAIN DefaultPaths /\ \A j \in 1 .. i - 1 : ~ Readable(DefaultPaths[j])
  BY <1>1, <1>3
<1>5. \E k \in DOMAIN DefaultPaths : DefaultPath = DefaultPaths[k]
  BY <1>3, <1>4 DEF DefaultPath
<1> QED
  BY <1>5 DEF Files, Range

(* What config_load() makes of a file is a configuration that config_validate
   lets through. *)
LEMMA LoadedIsValid ==
    ASSUME NEW c \in Documents
    PROVE  Load[c] # NULL /\ ConfigValid(Load[c])
<1>1. Load[c] = [Effective(c) EXCEPT !.presets = Filled(Offered(c), Refused(c), {})]
  BY DEF Load, LoadWithout, Documents
<1>2. /\ DOMAIN Effective(c) = {"has_defaults", "defaults", "presets"}
      /\ Effective(c).has_defaults => Accepted(Effective(c).defaults)
  <2>1. CASE c \in {Missing, Broken}
    BY <2>1 DEF Effective, Default, Accepted, Hardcoded
  <2>2. CASE c \notin {Missing, Broken}
    BY <2>2, ConfigAssumption DEF Documents, Effective, Default, Accepted, Hardcoded
  <2> QED
    BY <2>1, <2>2
<1>3. /\ DOMAIN Load[c] = {"has_defaults", "defaults", "presets"}
      /\ Load[c].has_defaults = Effective(c).has_defaults
      /\ Load[c].defaults = Effective(c).defaults
  BY <1>1, <1>2
<1>4. Load[c] # NULL
  BY <1>3 DEF NULL
<1> QED
  BY <1>2, <1>3, <1>4 DEF ConfigValid

(* No signal, no reload and no configuration at first ... *)
LEMMA ReloadInit == Init => ReloadInv
<1> SUFFICES ASSUME Init PROVE ReloadInv
  OBVIOUS
<1>1. SignalInv /\ HeapInv
  BY SignalInit, HeapInit
<1> QED
  BY <1>1 DEF Init, ReloadInv, Documents

(* ... and whatever the user and the daemon do, a reload ends with what the file
   says. *)
LEMMA ReloadStep == ReloadInv /\ [Next]_vars => ReloadInv'
<1> SUFFICES ASSUME ReloadInv, [Next]_vars PROVE ReloadInv'
  OBVIOUS
<1>0. SignalInv' /\ HeapInv'
  BY SignalStep, HeapStep DEF ReloadInv
<1>1. SignalInv /\ HeapInv
  BY DEF ReloadInv
<1>2. CASE Edit
  <2>1. files' \in [Files -> Documents]
    BY <1>2 DEF Edit, ReloadInv, Documents
  <2>2. looked' # version'
    BY <1>1, <1>2 DEF Edit, loadVars, SignalInv
  <2> QED
    BY <1>0, <1>2, <2>1, <2>2 DEF Edit, ReloadInv, signalVars
<1>3. ASSUME UNCHANGED <<files, version>> PROVE Current' = Current /\ DefaultPath' = DefaultPath
  BY <1>3 DEF Current, DefaultPath, Readable
<1>4. Current \in Documents
  BY DefaultPathFound DEF Current, ReloadInv, Documents
<1>5. CASE Usr1
  <2>1. Current' = Current /\ DefaultPath' = DefaultPath
    BY <1>3, <1>5 DEF Usr1, fileVars
  <2>2. CASE Starting
    BY <1>0, <1>5, <2>2 DEF Usr1, ReloadInv, fileVars, Starting
  <2>3. CASE ~ Starting
    <3>1. InForce' = InForce
      BY <1>5, <2>3 DEF Usr1, InForce
    <3> QED
      BY <1>0, <1>5, <2>1, <2>3, <3>1 DEF Usr1, ReloadInv, fileVars, loadVars
  <2> QED
    BY <2>2, <2>3
<1>6. CASE Term
  <2>1. Current' = Current /\ DefaultPath' = DefaultPath
    BY <1>3, <1>6 DEF Term, fileVars
  <2>2. CASE Starting
    BY <1>0, <1>6, <2>2 DEF Term, ReloadInv, fileVars, Starting
  <2>3. CASE ~ Starting
    <3>1. InForce' = InForce
      BY <1>6, <2>3 DEF Term, InForce
    <3> QED
      BY <1>0, <1>6, <2>1, <2>3, <3>1 DEF Term, ReloadInv, fileVars, loadVars
  <2> QED
    BY <2>2, <2>3
<1>7. CASE Find
  <2>1. DefaultPath' = DefaultPath
    BY <1>3, <1>7 DEF Find, fileVars
  <2> QED
    BY <1>0, <1>7, <2>1 DEF Find, ReloadInv, fileVars, signalVars
<1>8. CASE Read
  <2>1. Current' = Current
    BY <1>3, <1>8 DEF Read, fileVars
  <2>2. stage = "reload" /\ looked = version => content' = Current
    BY <1>8 DEF Read, ReloadInv, Current
  <2> QED
    BY <1>0, <1>8, <2>1, <2>2 DEF Read, ReloadInv, fileVars, signalVars
<1>9. CASE Startup
  <2>1. stage # "reload" /\ stage' # "reload"
    BY <1>1, <1>9 DEF Startup, Install, HeapInv, Starting
  <2> QED
    BY <1>0, <1>9, <2>1 DEF Startup, ReloadInv, fileVars, signalVars
<1>10. CASE Swap
  <2>1. Current' = Current
    BY <1>3, <1>10 DEF Swap, fileVars
  <2>2. ASSUME looked = version, ~ starved PROVE InForce' = Load[Current]
    <3>1. fresh = Load[Current]
      BY <1>10, <2>2 DEF Swap, ReloadInv
    <3>2. Install
      BY <1>4, <1>10, <3>1, LoadedIsValid DEF Swap
    <3>3. heap'[global_config'] = fresh
      BY <3>2 DEF Install
    <3> QED
      BY <3>1, <3>3 DEF InForce
  <2> QED
    BY <1>0, <1>10, <2>1, <2>2 DEF Swap, Returned, ReloadInv, fileVars
<1>11. CASE Clear
  BY <1>0, <1>11 DEF Clear, ReloadInv, fileVars
<1>12. CASE Reload \/ Stop
  BY <1>0, <1>12 DEF Reload, Stop, ReloadInv, fileVars, signalVars
<1>13. CASE NoReload \/ Wake \/ Serve \/ Render \/ Served
  <2>1. UNCHANGED <<files, version, heap, global_config>>
    BY <1>13 DEF NoReload, Wake, Serve, Render, Served, fileVars
  <2>2. Current' = Current /\ InForce' = InForce
    BY <1>3, <2>1 DEF InForce
  <2> QED
    BY <1>0, <1>13, <2>2 DEF NoReload, Wake, Serve, Render, Served, ReloadInv, fileVars, signalVars, loadVars
<1>14. CASE UNCHANGED vars
  <2>1. UNCHANGED <<files, version, heap, global_config>>
    BY <1>14 DEF vars, fileVars
  <2>2. Current' = Current /\ DefaultPath' = DefaultPath /\ InForce' = InForce
    BY <1>3, <2>1 DEF InForce
  <2> QED
    BY <1>0, <1>14, <2>2 DEF vars, ReloadInv, fileVars, signalVars, loadVars
<1> QED
  BY <1>2, <1>5, <1>6, <1>7, <1>8, <1>9, <1>10, <1>11, <1>12, <1>13, <1>14 DEF Next, LoopStep, HandlerStep

(* A reload is as good as a restart, whatever the files go through and wherever
   the signals arrive: when the last edit has been followed by a signal and the
   daemon is back at epoll_wait(), it runs with what a daemon started now
   without arguments would read (main.c:94, config.c:252-374). *)
THEOREM ReloadRestarts == Spec => []ReloadIsRestart
<1>1. ReloadInv => ReloadIsRestart
  BY DEF ReloadInv, SignalInv, ReloadIsRestart, Quiescent, Current
<1> QED
  BY <1>1, ReloadInit, ReloadStep, PTL DEF Spec
-----------------------------------------------------------------------------
(* What is in a configuration. *)

AcceptedParams == {p \in Params : Accepted(p)}

(* Everything in it that a request can come by has been accepted. *)
GoodConfig(c) ==
    /\ c.has_defaults => Accepted(c.defaults)
    /\ c.presets \in Registries
    /\ Keeps(c.presets, AcceptedParams)

(* The presets a file offers, after the standard ones, have names and
   parameters; the standard ones are accepted. *)
LEMMA OfferedType ==
    ASSUME NEW c \in Documents
    PROVE  /\ Offered(c) \in Seq([name : PresetNames, params : Params])
           /\ \A n \in DOMAIN Offered(c) \ Refused(c) : Offered(c)[n].params \in AcceptedParams
<1> DEFINE Presets == [name : PresetNames, params : Params]
<1>1. Standard \in Seq(Presets)
  <2>1. DOMAIN Standard = 1 .. 4 /\ Standard \in Seq({Standard[n] : n \in 1 .. 4})
    BY DEF Standard
  <2>2. \A n \in 1 .. 4 : Standard[n] \in [name : {Standard[n].name}, params : {Standard[n].params}]
    BY DEF Standard
  <2>3. \A n \in 1 .. 4 : Standard[n] \in Presets
    BY <2>1, <2>2, ContentAssumption
  <2> QED
    BY <2>3 DEF Standard
<1>2. Effective(c).presets \in Seq(Presets)
  <2>1. << >> \in Seq(Presets)
    OBVIOUS
  <2>2. CASE c \in {Missing, Broken}
    BY <2>1, <2>2 DEF Effective, Default
  <2>3. CASE c \notin {Missing, Broken}
    <3>1. c \in Contents /\ DOMAIN c = {"has_defaults", "defaults", "presets"} /\ c.presets \in Seq(Presets)
      BY <2>3, ConfigAssumption, ContentAssumption DEF Documents
    <3>2. [c EXCEPT !.defaults = Zeroed].presets = c.presets
      BY <3>1
    <3> QED
      BY <2>1, <2>3, <3>1, <3>2 DEF Effective, Default
  <2> QED
    BY <2>2, <2>3
<1>3. Offered(c) \in Seq(Presets)
  BY <1>1, <1>2 DEF Offered
<1>4. \A n \in DOMAIN Offered(c) : Offered(c)[n].params \in Params
  <2>1. \A n \in 1 .. Len(Offered(c)) : Offered(c)[n] \in Presets
    BY <1>3, ElementOfSeq
  <2> QED
    BY <1>3, <2>1
<1> QED
  BY <1>3, <1>4 DEF Refused, AcceptedParams

(* Whatever a file says, and whatever calloc() fails for, config_load() returns
   a configuration in which everything has been accepted. *)
LEMMA LoadedIsGood ==
    ASSUME NEW c \in Documents, NEW lost
    PROVE  GoodConfig(LoadWithout(c, lost))
<1> DEFINE loaded == LoadWithout(c, lost)
<1>1. loaded = [Effective(c) EXCEPT !.presets = Filled(Offered(c), Refused(c), lost)]
  BY DEF LoadWithout
<1>2. /\ DOMAIN Effective(c) = {"has_defaults", "defaults", "presets"}
      /\ Effective(c).has_defaults => Accepted(Effective(c).defaults)
  <2>1. CASE c \in {Missing, Broken}
    BY <2>1 DEF Effective, Default, Accepted, Hardcoded
  <2>2. CASE c \notin {Missing, Broken}
    BY <2>2, ConfigAssumption DEF Documents, Effective, Default, Accepted, Hardcoded
  <2> QED
    BY <2>1, <2>2
<1>3. /\ loaded.has_defaults = Effective(c).has_defaults
      /\ loaded.defaults = Effective(c).defaults
      /\ loaded.presets = Filled(Offered(c), Refused(c), lost)
  BY <1>1, <1>2
<1>4. /\ Filled(Offered(c), Refused(c), lost) \in Registries
      /\ Keeps(Filled(Offered(c), Refused(c), lost), AcceptedParams)
  BY OfferedType, OnlyOfferedIsKept
<1> QED
  BY <1>2, <1>3, <1>4 DEF GoodConfig

(* What a name resolves to in such a configuration is accepted. *)
LEMMA ResolvedIsAccepted ==
    ASSUME NEW c, GoodConfig(c), NEW name \in PresetNames
    PROVE  Accepted(Resolve(c, name))
<1>1. CASE Known(c.presets, name)
  <2>1. Position(c.presets, name) \in DOMAIN Chain(c.presets, name)
    BY <1>1, PositionFirst DEF GoodConfig, Known
  <2>2. Lookup(c.presets, name) \in AcceptedParams
    BY <2>1 DEF GoodConfig, Keeps, Lookup
  <2> QED
    BY <1>1, <2>2 DEF Resolve, AcceptedParams
<1>2. CASE ~ Known(c.presets, name) /\ c.has_defaults
  BY <1>2 DEF Resolve, GoodConfig
<1>3. CASE ~ Known(c.presets, name) /\ ~ c.has_defaults
  BY <1>3 DEF Resolve, Accepted, Hardcoded
<1> QED
  BY <1>1, <1>2, <1>3

-----------------------------------------------------------------------------

(* The files and what has been read of them; what config_load() returned is a
   configuration with accepted parameters, and with all of them unless memory
   was short. *)
LoadInv ==
    /\ files \in [Files -> Documents]
    /\ path = NoPath \/ path \in Files
    /\ fresh = NULL \/ GoodConfig(fresh)
    /\ pc = "install" => content \in Documents
    /\ pc = "install" /\ ~ starved => fresh = Load[content]

(* All of the parameters in use have been accepted. *)
RangeInv ==
    /\ HeapInv /\ LoadInv
    /\ \A a \in DOMAIN heap : GoodConfig(heap[a])
    /\ used = NULL \/ Accepted(used)

(* What config_load() may return. *)
LEMMA LoadedCases ==
    ASSUME NEW c \in Documents, NEW config \in Loaded(c)
    PROVE  config = NULL \/ GoodConfig(config)
<1>1. config = Load[c] \/ config \in Starved[c]
  BY DEF Loaded
<1>2. Load[c] = LoadWithout(c, {})
  BY DEF Load, Documents
<1>3. config \in Starved[c] => config = NULL \/ \E lost : config = LoadWithout(c, lost)
  BY DEF Starved, Documents
<1> QED
  BY <1>1, <1>2, <1>3, LoadedIsGood

(* Nothing is loaded at first ... *)
LEMMA LoadInit == Init => LoadInv
BY DEF Init, LoadInv, Documents, Files

(* ... and what is, is what the file said when it was read. *)
LEMMA LoadStep == LoadInv /\ [Next]_vars => LoadInv'
<1> SUFFICES ASSUME LoadInv, [Next]_vars PROVE LoadInv'
  OBVIOUS
<1>1. CASE Edit
  <2>1. files' \in [Files -> Documents]
    BY <1>1 DEF Edit, LoadInv, Documents
  <2> QED
    BY <1>1, <2>1 DEF Edit, LoadInv, loadVars
<1>2. CASE Usr1
  BY <1>2 DEF Usr1, LoadInv, fileVars, loadVars
<1>3. CASE Term
  BY <1>3 DEF Term, LoadInv, fileVars, loadVars
<1>4. CASE Find
  BY <1>4, DefaultPathFound DEF Find, LoadInv, fileVars
<1>5. CASE Read
  <2>1. content' \in Documents
    BY <1>5 DEF Read, LoadInv, Documents
  <2>2. fresh' \in Loaded(content') /\ starved' = (fresh' # Load[content'])
    BY <1>5 DEF Read
  <2>3. fresh' = NULL \/ GoodConfig(fresh')
    BY <2>1, <2>2, LoadedCases
  <2> QED
    BY <1>5, <2>1, <2>2, <2>3 DEF Read, LoadInv, fileVars
<1>6. CASE Startup \/ Swap
  BY <1>6 DEF Startup, Swap, Returned, LoadInv, fileVars
<1>7. CASE Clear
  BY <1>7 DEF Clear, LoadInv, fileVars, loadVars
<1>8. CASE Reload \/ NoReload \/ Wake \/ Serve \/ Render \/ Served \/ Stop
  BY <1>8 DEF Reload, NoReload, Wake, Serve, Render, Served, Stop, LoadInv, fileVars, loadVars
<1>9. CASE UNCHANGED vars
  BY <1>9 DEF vars, LoadInv, fileVars, loadVars
<1> QED
  BY <1>1, <1>2, <1>3, <1>4, <1>5, <1>6, <1>7, <1>8, <1>9 DEF Next, LoopStep, HandlerStep

(* No parameters are in use at first ... *)
LEMMA RangeInit == Init => RangeInv
BY HeapInit, LoadInit DEF Init, RangeInv

(* ... and those of a configuration get into use only through Install. *)
LEMMA RangeStep == RangeInv /\ [Next]_vars => RangeInv'
<1> SUFFICES ASSUME RangeInv, [Next]_vars PROVE RangeInv'
  OBVIOUS
<1>0. HeapInv' /\ LoadInv'
  BY HeapStep, LoadStep DEF RangeInv
<1>1. ASSUME UNCHANGED <<heap, used>> PROVE RangeInv'
  BY <1>0, <1>1 DEF RangeInv
<1>2. ASSUME fresh # NULL, Install, UNCHANGED used PROVE RangeInv'
  <2>1. GoodConfig(fresh)
    BY <1>2 DEF RangeInv, LoadInv
  <2>2. ASSUME NEW a \in DOMAIN heap' PROVE GoodConfig(heap'[a])
    <3>1. heap'[a] = fresh \/ (a \in DOMAIN heap /\ heap'[a] = heap[a])
      <4>1. DOMAIN heap' = Freed(global_config) \cup {NewAddress}
        BY <1>2 DEF Install
      <4>2. heap'[a] = IF a = NewAddress THEN fresh ELSE heap[a]
        BY <1>2, <2>2, <4>1 DEF Install
      <4>3. a # NewAddress => a \in DOMAIN heap
        BY <2>2, <4>1 DEF Freed
      <4> QED
        BY <4>2, <4>3
    <3> QED
      BY <2>1, <3>1 DEF RangeInv
  <2> QED
    BY <1>0, <1>2, <2>2 DEF RangeInv
<1>3. CASE Usr1 \/ Term
  <2>1. heap' = << >> \/ heap' = heap
    BY <1>3 DEF Usr1, Term
  <2>2. \A a \in DOMAIN heap' : GoodConfig(heap'[a])
    BY <2>1 DEF RangeInv
  <2> QED
    BY <1>0, <1>3, <2>2 DEF RangeInv, Usr1, Term
<1>4. CASE Edit \/ Find \/ Read \/ Reload \/ Clear \/ NoReload \/ Wake \/ Serve
  BY <1>1, <1>4 DEF Edit, Find, Read, Reload, Clear, NoReload, Wake, Serve
<1>5. CASE Startup
  BY <1>1, <1>2, <1>5 DEF Startup
<1>6. CASE Swap
  BY <1>1, <1>2, <1>6 DEF Swap
<1>7. CASE Render
  <2>1. PICK name \in Names : used' = Resolve(InForce, name)
    BY <1>7 DEF Render
  <2>2. GoodConfig(InForce)
    BY <1>7 DEF Render, RangeInv, HeapInv, Starting, InForce
  <2>3. Accepted(used')
    BY <2>1, <2>2, ContentAssumption, ResolvedIsAccepted
  <2> QED
    BY <1>0, <1>7, <2>3 DEF Render, RangeInv
<1>10. CASE Served
  BY <1>0, <1>10 DEF Served, RangeInv
<1>8. CASE Stop
  <2>1. DOMAIN heap' = DOMAIN heap \cap Freed(global_config) /\ \A a \in DOMAIN heap' : heap'[a] = heap[a]
    BY <1>8 DEF Stop, Restrict, Freed
  <2> QED
    BY <1>0, <1>8, <2>1 DEF Stop, RangeInv
<1>9. CASE UNCHANGED vars
  BY <1>1, <1>9 DEF vars
<1> QED
  BY <1>3, <1>4, <1>5, <1>6, <1>7, <1>8, <1>9, <1>10 DEF Next, LoopStep, HandlerStep

(* Whatever the files go through, and whichever calloc() fails, a request that
   names a preset is rendered with parameters that have been validated: those
   of a preset that was accepted, the accepted defaults, or the ones the
   program has of its own (presets.c:198-243). *)
THEOREM RangeIsKept == Spec => []UsedInRange
<1>1. RangeInv => UsedInRange
  BY DEF RangeInv, UsedInRange
<1> QED
  BY <1>1, RangeInit, RangeStep, PTL DEF Spec

-----------------------------------------------------------------------------

(* A preset that was added is found by its name, whatever else is in its bucket,
   and with the parameters the file gives it last. *)
LEMMA LoadResolves ==
    ASSUME NEW c \in Documents, NEW name \in Names, ~ Shadowed(c, name)
    PROVE  Resolve(Load[c], name) =
               IF Places(c, name) # {} THEN LastAdded(c, name)
               ELSE IF Effective(c).has_defaults THEN Effective(c).defaults
               ELSE Hardcoded
<1> DEFINE presets == Offered(c)
           places == Places(c, name)
           result == Filled(presets, Refused(c), {})
<1>1. name \in PresetNames /\ Stored[name] = name
  BY ContentAssumption
<1>2. presets \in Seq([name : PresetNames, params : Params])
  BY OfferedType
<1>3. KeptApart(presets, Refused(c), name)
  BY DEF Shadowed, KeptApart
<1>4. places = Adopted(presets, Refused(c), name)
  BY DEF Places, Adopted
<1>5. /\ Known(result, name) <=> places # {}
      /\ \A k \in places : (\A j \in places : j <= k) => Lookup(result, name) = presets[k].params
  <2> DEFINE refused == Refused(c)
             adopted == Adopted(presets, refused, name)
             filled == Filled(presets, refused, {})
  <2>1. KeptApart(presets, refused, name)
    BY <1>3
  <2> HIDE DEF presets, refused
  <2>2. Known(filled, name) <=> adopted # {}
    BY <1>1, <1>2, <2>1, LastAddedIsFound
  <2>3. \A k \in adopted : (\A j \in adopted : j <= k) => Lookup(filled, name) = presets[k].params
    BY <1>1, <1>2, <2>1, LastAddedIsFound
  <2>4. places = adopted /\ result = filled
    BY <1>4 DEF refused
  <2> HIDE DEF places, result, adopted, filled
  <2> QED
    BY <2>2, <2>3, <2>4
<1>6. places # {} => Lookup(result, name) = LastAdded(c, name)
  <2> SUFFICES ASSUME places # {} PROVE Lookup(result, name) = LastAdded(c, name)
    OBVIOUS
  <2>1. Len(presets) \in Nat /\ places \in SUBSET Nat /\ \A n \in places : n <= Len(presets)
    BY <1>2, <1>4 DEF Adopted
  <2>2. \E k \in places : \A j \in places : j <= k
    <3> HIDE DEF places, presets
    <3> QED
      BY <2>1, GreatestNumber
  <2>3. LastAdded(c, name) = presets[CHOOSE k \in places : \A j \in places : j <= k].params
    BY DEF LastAdded
  <2> HIDE DEF places, presets, result
  <2> QED
    BY <1>5, <2>2, <2>3
<1>7. Load[c] = [Effective(c) EXCEPT !.presets = result]
  BY DEF Load, LoadWithout, Documents
<1>8. DOMAIN Effective(c) = {"has_defaults", "defaults", "presets"}
  BY ConfigAssumption DEF Documents, Effective, Default
<1>9. /\ Load[c].presets = result
      /\ Load[c].has_defaults = Effective(c).has_defaults
      /\ Load[c].defaults = Effective(c).defaults
  BY <1>7, <1>8
<1> HIDE DEF places, presets, result
<1>10. CASE places # {}
  BY <1>5, <1>6, <1>9, <1>10 DEF Resolve, places
<1>11. CASE places = {}
  BY <1>5, <1>9, <1>11 DEF Resolve, places
<1> QED
  BY <1>10, <1>11

(* A name resolves to what the file says of it, in every file: the last preset
   of the name that is not refused, the defaults if there is none, and the
   program's own if there are no defaults (presets.c:19-166, 198-243,
   config.c:342-368). *)
THEOREM NamesAreResolved == Spec => []NamesResolved
<1>1. LoadInv => NamesResolved
  BY LoadResolves DEF LoadInv, NamesResolved
<1> QED
  BY <1>1, LoadInit, LoadStep, PTL DEF Spec

=============================================================================
