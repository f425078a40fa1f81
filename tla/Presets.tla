------------------------------- MODULE Presets ------------------------------
(***************************************************************************)
(* The preset registry of wlblurd (presets.c): a hash table from names to  *)
(* blur parameters, with one chain of presets for each bucket.  A preset   *)
(* keeps the first 31 characters of its name, and stands in the bucket of  *)
(* the whole name.                                                         *)
(***************************************************************************)
EXTENDS Integers, Sequences

CONSTANTS
    PresetNames,        \* names of presets, of any length
    Buckets,            \* the buckets (64 of them)
    hash_preset_name,   \* name |-> its bucket
    Stored,             \* name |-> its first 31 characters
    Params              \* sets of blur parameters

ASSUME PresetAssumption ==
    /\ hash_preset_name \in [PresetNames -> Buckets]
    /\ Stored \in [PresetNames -> PresetNames]

Registries == [Buckets -> Seq([name : PresetNames, params : Params])]

EmptyRegistry == [b \in Buckets |-> << >>]

Chain(registry, name) == registry[hash_preset_name[name]]

(* preset_registry_lookup: the first preset of the chain with that name, or
   none. *)
Position(registry, name) ==
    LET matches == {i \in DOMAIN Chain(registry, name) : Chain(registry, name)[i].name = name}
    IN  IF matches = {} THEN 0 ELSE CHOOSE i \in matches : \A j \in matches : i <= j

Known(registry, name) == Position(registry, name) > 0

Lookup(registry, name) == Chain(registry, name)[Position(registry, name)].params

(* preset_registry_add replaces the parameters of the preset it finds, or puts
   a new one at the head of the chain (the mutant keeps what it finds). *)
Prepended(registry, name, params) ==
    [registry EXCEPT ![hash_preset_name[name]] =
        <<[name |-> Stored[name], params |-> params]>> \o @]

AddOnce(registry, name, params) ==
    IF Known(registry, name) THEN registry ELSE Prepended(registry, name, params)

Add(registry, name, params) ==
    IF Known(registry, name)
    THEN [registry EXCEPT ![hash_preset_name[name]][Position(registry, name)].params = params]
    ELSE Prepended(registry, name, params)

(* For a new preset calloc() may return NULL. *)
AddOrFail(registry, preset, fails) ==
    IF fails /\ ~ Known(registry, preset.name) THEN registry
    ELSE Add(registry, preset.name, preset.params)

(* The presets of a sequence, added one after another, but for those that are
   refused, and without memory for those in lost. *)
Filled(presets, refused, lost) ==
    LET registry[n \in 0 .. Len(presets)] ==
            IF n = 0 THEN EmptyRegistry
            ELSE IF n \in refused THEN registry[n - 1]
            ELSE AddOrFail(registry[n - 1], presets[n], n \in lost)
    IN  registry[Len(presets)]
=============================================================================
