---------------------------- MODULE PresetsProofs ----------------------------
(***************************************************************************)
(* Proofs about Presets: for names that are kept whole the hash table is a *)
(* map, whatever the hash function and however the chains have come about. *)
(***************************************************************************)
EXTENDS Presets, WellFoundedInduction, SequenceTheorems, TLAPS

(* A set of numbers that is not empty has a least member. *)
LEMMA LeastNumber ==
    ASSUME NEW T \in SUBSET Nat, T # {}
    PROVE  \E i \in T : \A j \in T : i <= j
<1> DEFINE R == {p \in Nat \X Nat : p[1] < p[2]}
<1>1. IsWellFoundedOn(R, Nat)
  BY NatLessThanWellFounded DEF OpToRel
<1>2. \E i \in T : \A j \in T : <<j, i>> \notin R
  <2> HIDE DEF R
  <2> QED
    BY <1>1, WFMin
<1>3. ASSUME NEW i \in Nat, NEW j \in Nat, j < i
      PROVE  <<j, i>> \in R
  <2>1. <<j, i>> \in Nat \X Nat /\ <<j, i>>[1] = j /\ <<j, i>>[2] = i
    OBVIOUS
  <2> QED
    BY <1>3, <2>1, Zenon
<1>4. \A i, j \in Nat : ~ (j < i) => i <= j
  OBVIOUS
<1> QED
  <2> HIDE DEF R
  <2> QED
    BY <1>2, <1>3, <1>4

(* ... and one that is bounded has a greatest. *)
LEMMA GreatestNumber ==
    ASSUME NEW T \in SUBSET Nat, T # {}, NEW m \in Nat, \A i \in T : i <= m
    PROVE  \E i \in T : \A j \in T : j <= i
<1> DEFINE B == {n \in Nat : \A i \in T : i <= n}
<1>1. PICK b \in B : \A n \in B : b <= n
  <2>1. B \in SUBSET Nat /\ m \in B
    OBVIOUS
  <2> HIDE DEF B
  <2> QED
    BY <2>1, LeastNumber
<1>2. b \in Nat /\ \A i \in T : i <= b
  BY <1>1
<1>3. CASE b \in T
  BY <1>2, <1>3
<1>4. CASE b \notin T
  <2>1. b # 0
    <3>1. PICK i \in T : i \in Nat /\ i <= b
      BY <1>2
    <3> QED
      BY <1>2, <1>4, <3>1
  <2>2. b - 1 \in B
    BY <1>2, <1>4, <2>1
  <2> QED
    BY <1>1, <1>2, <2>2
<1> QED
  BY <1>3, <1>4

(* What holds of 0, and of a number up to m if it holds of the one before it,
   holds of all of them. *)
LEMMA CountingUp ==
    ASSUME NEW m \in Nat, NEW S \in SUBSET Nat, 0 \in S, \A n \in 1 .. m : n - 1 \in S => n \in S
    PROVE  \A n \in 0 .. m : n \in S
<1> DEFINE T == {n \in 0 .. m : n \notin S}
<1> SUFFICES ASSUME T # {} PROVE FALSE
  OBVIOUS
<1>1. PICK i \in T : \A j \in T : i <= j
  <2>1. T \in SUBSET Nat
    OBVIOUS
  <2> HIDE DEF T
  <2> QED
    BY <2>1, LeastNumber
<1>2. i \in 1 .. m /\ i - 1 \in 0 .. m /\ ~ (i <= i - 1)
  BY <1>1
<1> QED
  BY <1>1, <1>2

(* The chain of a name is a sequence of presets. *)
LEMMA ChainType ==
    ASSUME NEW registry \in Registries, NEW name \in PresetNames
    PROVE  /\ hash_preset_name[name] \in Buckets
           /\ Chain(registry, name) \in Seq([name : PresetNames, params : Params])
BY PresetAssumption DEF Registries, Chain

(* Position is the first place of a name in its chain, or 0. *)
LEMMA PositionFirst ==
    ASSUME NEW registry \in Registries, NEW name \in PresetNames
    PROVE  LET chain == Chain(registry, name)
               position == Position(registry, name)
           IN  \/ position = 0 /\ \A i \in DOMAIN chain : chain[i].name # name
               \/ /\ position \in DOMAIN chain /\ position > 0
                  /\ chain[position].name = name
                  /\ \A i \in DOMAIN chain : chain[i].name = name => position <= i
<1> DEFINE chain == Chain(registry, name)
           matches == {i \in DOMAIN chain : chain[i].name = name}
<1>1. DOMAIN chain \subseteq Nat \ {0}
  BY ChainType
<1>2. CASE matches = {}
  BY <1>2 DEF Position
<1>3. CASE matches # {}
  <2>1. \E i \in matches : \A j \in matches : i <= j
    BY <1>1, <1>3, LeastNumber
  <2>2. /\ Position(registry, name) \in matches
        /\ \A j \in matches : Position(registry, name) <= j
    BY <1>3, <2>1 DEF Position
  <2> QED
    BY <1>1, <2>2
<1> QED
  BY <1>2, <1>3

(* Position finds what is there, ... *)
LEMMA PositionIs ==
    ASSUME NEW registry \in Registries, NEW name \in PresetNames,
           NEW n \in DOMAIN Chain(registry, name),
           Chain(registry, name)[n].name = name,
           \A i \in DOMAIN Chain(registry, name) : Chain(registry, name)[i].name = name => n <= i
    PROVE  Position(registry, name) = n
<1>1. DOMAIN Chain(registry, name) \subseteq Nat
  BY ChainType
<1> QED
  BY <1>1, PositionFirst

(* ... and nothing else. *)
LEMMA PositionNone ==
    ASSUME NEW registry \in Registries, NEW name \in PresetNames,
           \A i \in DOMAIN Chain(registry, name) : Chain(registry, name)[i].name # name
    PROVE  Position(registry, name) = 0
BY PositionFirst

-----------------------------------------------------------------------------

(* A new preset stands before its chain, and leaves the others alone. *)
LEMMA PrependedChain ==
    ASSUME NEW registry \in Registries, NEW name \in PresetNames, NEW params \in Params,
           NEW other \in PresetNames
    PROVE  LET new == [name |-> Stored[name], params |-> params]
               result == Prepended(registry, name, params)
               old == Chain(registry, other)
           IN  /\ result \in Registries
               /\ hash_preset_name[other] = hash_preset_name[name] =>
                     /\ Len(Chain(result, other)) = Len(old) + 1
                     /\ Chain(result, other)[1] = new
                     /\ \A i \in DOMAIN old : Chain(result, other)[i + 1] = old[i]
<1> DEFINE new == [name |-> Stored[name], params |-> params]
           result == Prepended(registry, name, params)
           Presets == [name : PresetNames, params : Params]
<1>1. new \in Presets
  BY PresetAssumption
<1>2. Chain(registry, name) \in Seq(Presets) /\ Chain(registry, other) \in Seq(Presets)
  BY ChainType
<1>3. /\ hash_preset_name[name] \in Buckets /\ hash_preset_name[other] \in Buckets
      /\ registry \in [Buckets -> Seq(Presets)]
  BY ChainType DEF Registries
<1>4. result = [registry EXCEPT ![hash_preset_name[name]] = <<new>> \o Chain(registry, name)]
  BY DEF Prepended, Chain
<1>5. <<new>> \o Chain(registry, name) \in Seq(Presets)
  BY <1>1, <1>2
<1>6. result \in Registries
  BY <1>3, <1>4, <1>5 DEF Registries
<1>7. CASE hash_preset_name[other] = hash_preset_name[name]
  <2>1. Chain(registry, other) = Chain(registry, name)
    BY <1>7 DEF Chain
  <2>2. Chain(result, other) = <<new>> \o Chain(registry, other)
    BY <1>3, <1>4, <1>7, <2>1 DEF Chain
  <2> HIDE DEF new, result
  <2>3. /\ Len(Chain(result, other)) = Len(Chain(registry, other)) + 1
        /\ Chain(result, other)[1] = new
        /\ \A i \in DOMAIN Chain(registry, other) :
              Chain(result, other)[i + 1] = Chain(registry, other)[i]
    BY <1>1, <1>2, <2>2
  <2> QED
    BY <1>6, <1>7, <2>3 DEF new, result
<1> QED
  BY <1>6, <1>7

(* The chain of another bucket stays as it is. *)
LEMMA OtherChain ==
    ASSUME NEW registry \in Registries, NEW name \in PresetNames, NEW params \in Params,
           NEW other \in PresetNames, hash_preset_name[other] # hash_preset_name[name]
    PROVE  Chain(Prepended(registry, name, params), other) = Chain(registry, other)
<1>1. /\ hash_preset_name[name] \in Buckets /\ hash_preset_name[other] \in Buckets
      /\ registry \in [Buckets -> Seq([name : PresetNames, params : Params])]
  BY ChainType DEF Registries
<1> QED
  BY <1>1 DEF Prepended, Chain

(* A replaced preset keeps its name and its place. *)
LEMMA ReplacedChain ==
    ASSUME NEW registry \in Registries, NEW name \in PresetNames, NEW params \in Params,
           Known(registry, name),
           NEW other \in PresetNames
    PROVE  LET result == Add(registry, name, params)
               old == Chain(registry, other)
           IN  /\ result \in Registries
               /\ Len(Chain(result, other)) = Len(old)
               /\ \A i \in DOMAIN old :
                     /\ Chain(result, other)[i].name = old[i].name
                     /\ old[i].name # name => Chain(result, other)[i].params = old[i].params
                     /\ Chain(result, other)[i].params \in {old[i].params, params}
               /\ Chain(result, name)[Position(registry, name)].params = params
<1> DEFINE result == Add(registry, name, params)
           Presets == [name : PresetNames, params : Params]
           b == hash_preset_name[name]
           p == Position(registry, name)
           chain == Chain(registry, name)
<1>1. chain \in Seq(Presets) /\ Chain(registry, other) \in Seq(Presets)
  BY ChainType
<1>2. b \in Buckets /\ hash_preset_name[other] \in Buckets /\ registry \in [Buckets -> Seq(Presets)]
  BY ChainType DEF Registries
<1>3. p \in DOMAIN chain /\ chain[p].name = name
  BY PositionFirst DEF Known
<1>4. result = [registry EXCEPT ![b] = [chain EXCEPT ![p].params = params]]
  BY DEF Add, Chain
<1>5. /\ [chain EXCEPT ![p].params = params] \in Seq(Presets)
      /\ Len([chain EXCEPT ![p].params = params]) = Len(chain)
      /\ \A i \in 1 .. Len(chain) : [chain EXCEPT ![p].params = params][i] =
                IF i = p THEN [chain[p] EXCEPT !.params = params] ELSE chain[i]
  <2> DEFINE preset == [chain[p] EXCEPT !.params = params]
  <2>1. p \in 1 .. Len(chain)
    BY <1>1, <1>3
  <2>2. chain[p] \in Presets
    BY <1>1, <2>1, ElementOfSeq
  <2>3. preset \in Presets
    BY <2>2
  <2> HIDE DEF chain, p, preset, Presets
  <2>4. /\ [chain EXCEPT ![p] = preset] \in Seq(Presets)
        /\ Len([chain EXCEPT ![p] = preset]) = Len(chain)
        /\ \A i \in 1 .. Len(chain) : [chain EXCEPT ![p] = preset][i] = IF i = p THEN preset ELSE chain[i]
    BY <1>1, <2>1, <2>3, ExceptSeq
  <2> QED
    BY <2>4 DEF preset
<1>6. result \in Registries
  BY <1>2, <1>4, <1>5 DEF Registries
<1>7. Chain(result, name) = [chain EXCEPT ![p].params = params]
  BY <1>2, <1>4 DEF Chain
<1>8. Chain(result, name)[p].params = params
  <2>1. p \in 1 .. Len(chain)
    BY <1>1, <1>3, LenProperties
  <2>2. chain[p] \in Presets
    BY <1>1, <2>1, ElementOfSeq
  <2> QED
    BY <1>5, <1>7, <2>1, <2>2
<1>9. CASE hash_preset_name[other] = b
  <2>1. Chain(registry, other) = chain /\ Chain(result, other) = Chain(result, name)
    BY <1>9 DEF Chain
  <2> HIDE DEF chain, result, p, b
  <2>2. Len(Chain(result, other)) = Len(chain)
    BY <1>5, <1>7, <2>1
  <2>3. ASSUME NEW i \in DOMAIN chain
        PROVE  /\ Chain(result, other)[i].name = chain[i].name
               /\ chain[i].name # name => Chain(result, other)[i].params = chain[i].params
               /\ Chain(result, other)[i].params \in {chain[i].params, params}
    <3> HIDE DEF Presets
    <3>1. i \in 1 .. Len(chain)
      BY <1>1, LenProperties
    <3>2. chain[i] \in Presets
      BY <1>1, <3>1, ElementOfSeq
    <3>3. Chain(result, other)[i] = IF i = p THEN [chain[p] EXCEPT !.params = params] ELSE chain[i]
      BY <1>5, <1>7, <2>1, <3>1
    <3>4. /\ [chain[i] EXCEPT !.params = params].name = chain[i].name
          /\ [chain[i] EXCEPT !.params = params].params = params
      BY <3>2 DEF Presets
    <3> QED
      BY <1>3, <3>3, <3>4
  <2> QED
    BY <1>6, <1>8, <2>1, <2>2, <2>3 DEF p, result
<1>10. CASE hash_preset_name[other] # b
  <2>1. Chain(result, other) = Chain(registry, other)
    BY <1>2, <1>4, <1>10 DEF Chain
  <2> QED
    BY <1>6, <1>8, <2>1
<1> QED
  BY <1>9, <1>10

-----------------------------------------------------------------------------

(* Whatever has been added before, and whatever shares its bucket, a preset
   whose name is kept whole is found with the parameters it was added with
   last (presets.c:115-166). *)
THEOREM AddedIsFound ==
    ASSUME NEW registry \in Registries, NEW name \in PresetNames, NEW params \in Params,
           Stored[name] = name
    PROVE  LET result == Add(registry, name, params)
           IN  result \in Registries /\ Known(result, name) /\ Lookup(result, name) = params
<1> DEFINE result == Add(registry, name, params)
<1>1. CASE Known(registry, name)
  <2>1. /\ result \in Registries
        /\ Len(Chain(result, name)) = Len(Chain(registry, name))
        /\ \A i \in DOMAIN Chain(registry, name) :
              Chain(result, name)[i].name = Chain(registry, name)[i].name
        /\ Chain(result, name)[Position(registry, name)].params = params
    BY <1>1, ReplacedChain
  <2>2. DOMAIN Chain(result, name) = DOMAIN Chain(registry, name)
    BY <2>1, ChainType
  <2>3. /\ Position(registry, name) \in DOMAIN Chain(registry, name) /\ Position(registry, name) > 0
        /\ Chain(registry, name)[Position(registry, name)].name = name
        /\ \A i \in DOMAIN Chain(registry, name) :
              Chain(registry, name)[i].name = name => Position(registry, name) <= i
    BY <1>1, PositionFirst DEF Known
  <2> HIDE DEF result
  <2>4. Position(result, name) = Position(registry, name)
    BY <2>1, <2>2, <2>3, PositionIs
  <2> QED
    BY <2>1, <2>3, <2>4 DEF Known, Lookup, result
<1>2. CASE ~ Known(registry, name)
  <2>1. result = Prepended(registry, name, params)
    BY <1>2 DEF Add
  <2>2. /\ result \in Registries
        /\ Len(Chain(result, name)) = Len(Chain(registry, name)) + 1
        /\ Chain(result, name)[1] = [name |-> name, params |-> params]
    BY <2>1, PrependedChain
  <2> HIDE DEF result
  <2>3. DOMAIN Chain(result, name) = 1 .. Len(Chain(result, name))
    BY <2>2, ChainType
  <2>4. Len(Chain(registry, name)) \in Nat
    BY ChainType
  <2>5. 1 \in DOMAIN Chain(result, name) /\ \A i \in DOMAIN Chain(result, name) : 1 <= i
    BY <2>2, <2>3, <2>4
  <2>6. Position(result, name) = 1
    BY <2>2, <2>5, PositionIs
  <2> QED
    BY <2>2, <2>6 DEF Known, Lookup, result
<1> QED
  BY <1>1, <1>2

(* No other name is found, or found with other parameters, than before, unless
   it is the first 31 characters of the new one and the two share a bucket
   (presets.c:115-166). *)
THEOREM OthersUntouched ==
    ASSUME NEW registry \in Registries, NEW name \in PresetNames, NEW params \in Params,
           NEW other \in PresetNames, other # name,
           Stored[name] # other \/ hash_preset_name[name] # hash_preset_name[other]
    PROVE  LET result == Add(registry, name, params)
           IN  /\ Known(result, other) <=> Known(registry, other)
               /\ Known(registry, other) => Lookup(result, other) = Lookup(registry, other)
<1> DEFINE result == Add(registry, name, params)
           old == Chain(registry, other)
           new == Chain(result, other)
           p == Position(registry, other)
<1>1. \/ p = 0 /\ \A i \in DOMAIN old : old[i].name # other
      \/ /\ p \in DOMAIN old /\ p > 0 /\ old[p].name = other
         /\ \A i \in DOMAIN old : old[i].name = other => p <= i
  BY PositionFirst
<1>2. old \in Seq([name : PresetNames, params : Params])
  BY ChainType
<1>3. CASE Known(registry, name)
  <2>1. /\ result \in Registries
        /\ Len(new) = Len(old)
        /\ \A i \in DOMAIN old :
              /\ new[i].name = old[i].name
              /\ old[i].name # name => new[i].params = old[i].params
    BY <1>3, ReplacedChain
  <2>2. DOMAIN new = DOMAIN old
    BY <1>2, <2>1, ChainType
  <2> HIDE DEF result
  <2>3. CASE p = 0
    <3>1. Position(result, other) = 0
      BY <1>1, <2>1, <2>2, <2>3, PositionNone
    <3> QED
      BY <2>3, <3>1 DEF Known, result
  <2>4. CASE p # 0
    <3>1. Position(result, other) = p
      BY <1>1, <2>1, <2>2, <2>4, PositionIs
    <3>2. new[p].params = old[p].params
      BY <1>1, <2>1, <2>4
    <3> QED
      BY <3>1, <3>2 DEF Known, Lookup, result
  <2> QED
    BY <2>3, <2>4
<1>4. CASE ~ Known(registry, name) /\ hash_preset_name[other] # hash_preset_name[name]
  <2>1. result = Prepended(registry, name, params)
    BY <1>4 DEF Add
  <2>2. Chain(Prepended(registry, name, params), other) = old
    BY <1>4, OtherChain
  <2> QED
    BY <2>1, <2>2 DEF Known, Lookup, Position
<1>5. CASE ~ Known(registry, name) /\ hash_preset_name[other] = hash_preset_name[name]
  <2>1. result = Prepended(registry, name, params)
    BY <1>5 DEF Add
  <2>2. /\ result \in Registries
        /\ Len(new) = Len(old) + 1
        /\ new[1] = [name |-> Stored[name], params |-> params]
        /\ \A i \in DOMAIN old : new[i + 1] = old[i]
    BY <1>5, <2>1, PrependedChain
  <2> HIDE DEF result
  <2>3. DOMAIN old = 1 .. Len(old) /\ Len(old) \in Nat
    BY <1>2
  <2>4. DOMAIN new = 1 .. Len(old) + 1
    BY <2>2, <2>3, ChainType
  <2>5. new[1].name # other
    BY <1>5, <2>2
  <2>6. \A i \in DOMAIN new : i = 1 \/ (i - 1 \in DOMAIN old /\ new[i] = old[i - 1])
    <3> SUFFICES ASSUME NEW i \in DOMAIN new, i # 1
                 PROVE  i - 1 \in DOMAIN old /\ new[i] = old[i - 1]
      OBVIOUS
    <3>1. i \in 2 .. Len(old) + 1
      BY <2>3, <2>4
    <3>2. i - 1 \in DOMAIN old /\ (i - 1) + 1 = i
      BY <2>3, <3>1
    <3> QED
      BY <2>2, <3>2
  <2> HIDE DEF old, new
  <2>7. CASE p = 0
    <3>1. \A i \in DOMAIN new : new[i].name # other
      BY <1>1, <2>5, <2>6, <2>7
    <3>2. Position(result, other) = 0
      BY <2>2, <3>1, PositionNone DEF new
    <3> QED
      BY <2>7, <3>2 DEF Known, result
  <2>8. CASE p # 0
    <3>1. p \in DOMAIN old /\ old[p].name = other
      BY <1>1, <2>8
    <3>2. p + 1 \in DOMAIN new /\ new[p + 1] = old[p]
      BY <2>2, <2>3, <2>4, <3>1
    <3>3. ASSUME NEW i \in DOMAIN new, new[i].name = other PROVE p + 1 <= i
      <4>1. i - 1 \in DOMAIN old /\ old[i - 1].name = other
        BY <2>5, <2>6, <3>3
      <4>2. p <= i - 1
        BY <1>1, <2>8, <4>1
      <4> QED
        BY <2>3, <2>4, <3>1, <4>2
    <3>4. Position(result, other) = p + 1
      BY <2>2, <3>1, <3>2, <3>3, PositionIs DEF new
    <3> QED
      BY <2>3, <3>1, <3>2, <3>4 DEF Known, Lookup, result, new, old
  <2> QED
    BY <2>7, <2>8
<1> QED
  BY <1>3, <1>4, <1>5
-----------------------------------------------------------------------------
(* Filling a registry. *)

(* f is the registry after each of the first m presets. *)
Filling(f, presets, refused, lost, m) ==
    f = [n \in 0 .. m |->
            IF n = 0 THEN EmptyRegistry
            ELSE IF n \in refused THEN f[n - 1]
            ELSE AddOrFail(f[n - 1], presets[n], n \in lost)]

(* There is one after each of them. *)
LEMMA FillingExists ==
    ASSUME NEW presets, NEW refused, NEW lost, NEW m \in Nat
    PROVE  \E f : Filling(f, presets, refused, lost, m)
<1> DEFINE Fills(f, n) == Filling(f, presets, refused, lost, n)
           S == {n \in Nat : \E f : Fills(f, n)}
<1>1. \E f : Fills(f, 0)
  <2> DEFINE f == [n \in 0 .. 0 |-> EmptyRegistry]
  <2>1. Fills(f, 0)
    BY DEF Filling
  <2> QED
    BY <2>1
<1>2. ASSUME NEW n \in Nat, NEW f, Fills(f, n) PROVE \E g : Fills(g, n + 1)
  <2> DEFINE next == IF n + 1 \in refused THEN f[n] ELSE AddOrFail(f[n], presets[n + 1], n + 1 \in lost)
             g == [k \in 0 .. n + 1 |-> IF k = n + 1 THEN next ELSE f[k]]
  <2>1. ASSUME NEW k \in 0 .. n + 1
        PROVE  g[k] = IF k = 0 THEN EmptyRegistry
                      ELSE IF k \in refused THEN g[k - 1]
                      ELSE AddOrFail(g[k - 1], presets[k], k \in lost)
    <3>1. CASE k = n + 1
      <4>1. g[k] = next /\ g[k - 1] = f[n] /\ k # 0
        BY <3>1
      <4> HIDE DEF g
      <4> QED
        BY <3>1, <4>1
    <3>2. CASE k # n + 1
      <4>1. k \in 0 .. n /\ g[k] = f[k] /\ (k # 0 => g[k - 1] = f[k - 1])
        BY <3>2
      <4> HIDE DEF g
      <4>2. f[k] = IF k = 0 THEN EmptyRegistry
                   ELSE IF k \in refused THEN f[k - 1]
                   ELSE AddOrFail(f[k - 1], presets[k], k \in lost)
        BY <1>2, <4>1 DEF Filling
      <4> QED
        BY <4>1, <4>2
    <3> QED
      BY <3>1, <3>2
  <2>2. g = [k \in 0 .. n + 1 |-> g[k]]
    OBVIOUS
  <2> HIDE DEF g
  <2>3. Fills(g, n + 1)
    BY <2>1, <2>2 DEF Filling
  <2> QED
    BY <2>3
<1> HIDE DEF Fills
<1>3. 0 \in S
  BY <1>1
<1>4. ASSUME NEW n \in 1 .. m, n - 1 \in S PROVE n \in S
  <2>1. n \in Nat /\ n - 1 \in Nat /\ (n - 1) + 1 = n
    OBVIOUS
  <2>2. PICK f : Fills(f, n - 1)
    BY <1>4
  <2>3. \E g : Fills(g, (n - 1) + 1)
    BY <1>2, <2>1, <2>2
  <2> QED
    BY <2>1, <2>3
<1>5. m \in S
  <2> HIDE DEF S
  <2>1. \A n \in 0 .. m : n \in S
    <3>1. S \in SUBSET Nat
      BY DEF S
    <3> QED
      BY <1>3, <1>4, <3>1, CountingUp
  <2> QED
    BY <2>1
<1> QED
  BY <1>5 DEF Fills

(* A filled registry is where such a filling ends. *)
LEMMA FilledIsFilling ==
    ASSUME NEW presets, Len(presets) \in Nat, NEW refused, NEW lost
    PROVE  \E f : /\ Filling(f, presets, refused, lost, Len(presets))
                  /\ Filled(presets, refused, lost) = f[Len(presets)]
<1> DEFINE f == CHOOSE g : Filling(g, presets, refused, lost, Len(presets))
<1>1. Filling(f, presets, refused, lost, Len(presets))
  BY FillingExists
<1>2. Filled(presets, refused, lost) = f[Len(presets)]
  BY Zenon DEF Filled, Filling
<1> QED
  BY <1>1, <1>2

(* A preset that is added, or for which there is no memory, leaves a registry. *)
LEMMA AddType ==
    ASSUME NEW registry \in Registries, NEW name \in PresetNames, NEW params \in Params
    PROVE  Add(registry, name, params) \in Registries
<1>1. CASE Known(registry, name)
  BY <1>1, ReplacedChain
<1>2. CASE ~ Known(registry, name)
  <2>1. Add(registry, name, params) = Prepended(registry, name, params)
    BY <1>2 DEF Add
  <2> QED
    BY <2>1, PrependedChain
<1> QED
  BY <1>1, <1>2

(* Every parameter set in a registry is one of Good. *)
Keeps(registry, Good) ==
    \A name \in PresetNames : \A i \in DOMAIN Chain(registry, name) :
        Chain(registry, name)[i].params \in Good

(* What is added to it is all that comes into it. *)
LEMMA AddKeeps ==
    ASSUME NEW registry \in Registries, NEW name \in PresetNames, NEW params \in Params,
           NEW Good, Keeps(registry, Good), params \in Good
    PROVE  Keeps(Add(registry, name, params), Good)
<1> DEFINE result == Add(registry, name, params)
<1> SUFFICES ASSUME NEW other \in PresetNames, NEW i \in DOMAIN Chain(result, other)
             PROVE  Chain(result, other)[i].params \in Good
  BY DEF Keeps
<1> DEFINE old == Chain(registry, other)
           new == Chain(result, other)
<1>1. DOMAIN old = 1 .. Len(old) /\ Len(old) \in Nat
  BY ChainType
<1>2. DOMAIN new = 1 .. Len(new) /\ Len(new) \in Nat
  BY AddType, ChainType
<1>3. \A j \in DOMAIN old : old[j].params \in Good
  BY DEF Keeps
<1>4. CASE Known(registry, name)
  <2>1. /\ Len(new) = Len(old)
        /\ \A j \in DOMAIN old : new[j].params \in {old[j].params, params}
    BY <1>4, ReplacedChain
  <2> HIDE DEF old, new, result
  <2>2. i \in DOMAIN old
    BY <1>1, <1>2, <2>1 DEF new
  <2> QED
    BY <1>3, <2>1, <2>2 DEF new
<1>5. CASE ~ Known(registry, name) /\ hash_preset_name[other] # hash_preset_name[name]
  <2>1. result = Prepended(registry, name, params)
    BY <1>5 DEF Add
  <2>2. new = old
    BY <1>5, <2>1, OtherChain
  <2> QED
    BY <1>3, <2>2
<1>6. CASE ~ Known(registry, name) /\ hash_preset_name[other] = hash_preset_name[name]
  <2>1. result = Prepended(registry, name, params)
    BY <1>6 DEF Add
  <2>2. /\ Len(new) = Len(old) + 1
        /\ new[1] = [name |-> Stored[name], params |-> params]
        /\ \A j \in DOMAIN old : new[j + 1] = old[j]
    BY <1>6, <2>1, PrependedChain
  <2> HIDE DEF old, new, result
  <2>3. CASE i = 1
    BY <2>2, <2>3 DEF new
  <2>4. CASE i # 1
    <3>1. PICK j \in DOMAIN old : j + 1 = i
      <4>1. i \in DOMAIN new
        BY DEF new
      <4>2. i - 1 \in DOMAIN old /\ (i - 1) + 1 = i
        BY <1>1, <1>2, <2>2, <2>4, <4>1
      <4> QED
        BY <4>2
    <3>2. new[i] = old[j]
      BY <2>2, <3>1
    <3> QED
      BY <1>3, <3>2 DEF new
  <2> QED
    BY <2>3, <2>4
<1> QED
  BY <1>4, <1>5, <1>6

(* A registry that is filled holds only what it was given and did not refuse,
   however much memory there was (config.c:345-367). *)
THEOREM OnlyOfferedIsKept ==
    ASSUME NEW presets \in Seq([name : PresetNames, params : Params]), NEW refused, NEW lost,
           NEW Good, \A n \in DOMAIN presets \ refused : presets[n].params \in Good
    PROVE  /\ Filled(presets, refused, lost) \in Registries
           /\ Keeps(Filled(presets, refused, lost), Good)
<1> DEFINE m == Len(presets)
<1>1. m \in Nat /\ DOMAIN presets = 1 .. m
  OBVIOUS
<1>2. \A n \in 1 .. m : presets[n].name \in PresetNames /\ presets[n].params \in Params
  <2>1. \A n \in 1 .. m : presets[n] \in [name : PresetNames, params : Params]
    BY ElementOfSeq
  <2> QED
    BY <2>1
<1>3. PICK f : Filling(f, presets, refused, lost, m) /\ Filled(presets, refused, lost) = f[m]
  BY <1>1, FilledIsFilling
<1> HIDE DEF m
<1> DEFINE S == {n \in 0 .. m : f[n] \in Registries /\ Keeps(f[n], Good)}
<1>4. 0 \in S
  <2>1. f[0] = EmptyRegistry
    BY <1>1, <1>3 DEF Filling
  <2>2. EmptyRegistry \in Registries
    BY DEF EmptyRegistry, Registries
  <2>3. \A name \in PresetNames : Chain(EmptyRegistry, name) = << >>
    BY PresetAssumption DEF Chain, EmptyRegistry
  <2> QED
    BY <1>1, <2>1, <2>2, <2>3 DEF Keeps
<1>5. ASSUME NEW n \in 1 .. m, n - 1 \in S PROVE n \in S
  <2> DEFINE before == f[n - 1]
  <2>1. /\ n \in 0 .. m /\ n # 0
        /\ f[n] = IF n \in refused THEN before ELSE AddOrFail(before, presets[n], n \in lost)
    <3>1. n \in 0 .. m /\ n # 0
      BY <1>1
    <3> QED
      BY <1>3, <3>1 DEF Filling
  <2>2. before \in Registries /\ Keeps(before, Good)
    BY <1>5
  <2> HIDE DEF before
  <2>3. CASE n \in refused
    BY <2>1, <2>2, <2>3
  <2>4. CASE n \notin refused
    <3>1. presets[n].name \in PresetNames /\ presets[n].params \in Params /\ presets[n].params \in Good
      BY <1>1, <1>2, <2>4
    <3>2. f[n] = before \/ f[n] = Add(before, presets[n].name, presets[n].params)
      BY <2>1, <2>4 DEF AddOrFail
    <3> QED
      BY <2>1, <2>2, <3>1, <3>2, AddType, AddKeeps
  <2> QED
    BY <2>3, <2>4
<1>6. m \in S
  <2> HIDE DEF S
  <2>1. S \in SUBSET Nat
    BY <1>1 DEF S
  <2>2. \A n \in 0 .. m : n \in S
    BY <1>1, <1>4, <1>5, <2>1, CountingUp
  <2> QED
    BY <1>1, <2>2
<1> QED
  BY <1>3, <1>6 DEF m

(* The places of the presets of a name that are added. *)
Adopted(presets, refused, name) == {n \in DOMAIN presets \ refused : presets[n].name = name}

(* None of them has a longer name that is kept under this one in its bucket. *)
KeptApart(presets, refused, name) ==
    \A n \in DOMAIN presets \ refused :
        \/ presets[n].name = name
        \/ Stored[presets[n].name] # name
        \/ hash_preset_name[presets[n].name] # hash_preset_name[name]

(* While there is memory, a name that is kept whole is found if a preset of that
   name was added, with the parameters of the last one, unless a longer name in
   its bucket is kept under it: the table is a map, where a later preset takes
   the place of an earlier one (presets.c:115-166, config.c:345-367). *)
THEOREM LastAddedIsFound ==
    ASSUME NEW presets \in Seq([name : PresetNames, params : Params]), NEW refused,
           NEW name \in PresetNames, Stored[name] = name,
           KeptApart(presets, refused, name)
    PROVE  LET places == Adopted(presets, refused, name)
               result == Filled(presets, refused, {})
           IN  /\ result \in Registries
               /\ Known(result, name) <=> places # {}
               /\ \A k \in places : (\A j \in places : j <= k) => Lookup(result, name) = presets[k].params
<1> DEFINE m == Len(presets)
           places == Adopted(presets, refused, name)
<1>1. m \in Nat /\ DOMAIN presets = 1 .. m
  OBVIOUS
<1>2. \A n \in 1 .. m : presets[n].name \in PresetNames /\ presets[n].params \in Params
  <2>1. \A n \in 1 .. m : presets[n] \in [name : PresetNames, params : Params]
    BY ElementOfSeq
  <2> QED
    BY <2>1
<1>3. PICK f : Filling(f, presets, refused, {}, m) /\ Filled(presets, refused, {}) = f[m]
  BY <1>1, FilledIsFilling
<1>4. places \subseteq 1 .. m
  BY <1>1 DEF Adopted
<1> HIDE DEF m, places
<1> DEFINE UpTo(n) ==
        /\ f[n] \in Registries
        /\ Known(f[n], name) <=> \E k \in places : k <= n
        /\ \A k \in places :
             k <= n /\ (\A j \in places : j <= n => j <= k) => Lookup(f[n], name) = presets[k].params
           S == {n \in 0 .. m : UpTo(n)}
<1>5. UpTo(0)
  <2>1. f[0] = EmptyRegistry
    BY <1>1, <1>3 DEF Filling
  <2>2. EmptyRegistry \in Registries
    BY DEF EmptyRegistry, Registries
  <2>3. Chain(EmptyRegistry, name) = << >>
    BY PresetAssumption DEF Chain, EmptyRegistry
  <2>4. ~ Known(EmptyRegistry, name)
    BY <2>2, <2>3, PositionNone DEF Known
  <2>5. ~ \E k \in places : k <= 0
    <3>1. \A k \in 1 .. m : ~ (k <= 0)
      BY <1>1
    <3> QED
      BY <1>4, <3>1
  <2> QED
    BY <2>1, <2>2, <2>4, <2>5
<1>6. ASSUME NEW n \in 1 .. m, UpTo(n - 1) PROVE UpTo(n)
  <2> DEFINE before == f[n - 1]
  <2>1. /\ n \in 0 .. m /\ n # 0
        /\ f[n] = IF n \in refused THEN before ELSE AddOrFail(before, presets[n], n \in {})
    <3>1. n \in 0 .. m /\ n # 0
      BY <1>1
    <3> QED
      BY <1>3, <3>1 DEF Filling
  <2>2. /\ before \in Registries
        /\ Known(before, name) <=> \E k \in places : k <= n - 1
        /\ \A k \in places :
             k <= n - 1 /\ (\A j \in places : j <= n - 1 => j <= k) => Lookup(before, name) = presets[k].params
    BY <1>6
  <2>3. \A k \in places : k <= n <=> k <= n - 1 \/ k = n
    <3>1. \A k \in 1 .. m : k <= n <=> k <= n - 1 \/ k = n
      <4> HIDE DEF UpTo
      <4> QED
        BY <1>1
    <3> QED
      BY <1>4, <3>1
  <2> HIDE DEF before
  <2>4. CASE n \in places
    <3>1. n \notin refused /\ presets[n].name = name /\ presets[n].params \in Params
      BY <1>1, <1>2, <2>4 DEF places, Adopted
    <3>2. f[n] = Add(before, name, presets[n].params)
      BY <2>1, <3>1 DEF AddOrFail
    <3>3. f[n] \in Registries /\ Known(f[n], name) /\ Lookup(f[n], name) = presets[n].params
      BY <2>2, <3>1, <3>2, AddedIsFound
    <3>4. n <= n
      BY <1>1
    <3>5. ASSUME NEW k \in places, k <= n, \A j \in places : j <= n => j <= k PROVE k = n
      <4>1. n <= k
        BY <2>4, <3>4, <3>5
      <4> QED
        BY <1>1, <1>4, <3>5, <4>1
    <3> QED
      BY <2>4, <3>3, <3>4, <3>5
  <2>5. CASE n \notin places
    <3>1. \A k \in places : k <= n <=> k <= n - 1
      BY <2>3, <2>5
    <3>2. /\ f[n] \in Registries
          /\ Known(f[n], name) <=> Known(before, name)
          /\ Known(before, name) => Lookup(f[n], name) = Lookup(before, name)
      <4>1. CASE n \in refused
        BY <2>1, <2>2, <4>1
      <4>2. CASE n \notin refused
        <5>1. /\ n \in DOMAIN presets \ refused /\ presets[n].name # name
              /\ presets[n].name \in PresetNames /\ presets[n].params \in Params
          BY <1>1, <1>2, <2>5, <4>2 DEF places, Adopted
        <5>2. f[n] = Add(before, presets[n].name, presets[n].params)
          BY <2>1, <4>2 DEF AddOrFail
        <5>3. \/ Stored[presets[n].name] # name
              \/ hash_preset_name[presets[n].name] # hash_preset_name[name]
          BY <5>1 DEF KeptApart
        <5> DEFINE added == presets[n].name
                   params == presets[n].params
                   result == Add(before, added, params)
        <5>4. added \in PresetNames /\ params \in Params /\ added # name /\ before \in Registries
          BY <2>2, <5>1
        <5>5. Stored[added] # name \/ hash_preset_name[added] # hash_preset_name[name]
          BY <5>3
        <5> HIDE DEF added, params, UpTo
        <5>6. result \in Registries
          BY <5>4, AddType
        <5>7. /\ Known(result, name) <=> Known(before, name)
              /\ Known(before, name) => Lookup(result, name) = Lookup(before, name)
          BY <5>4, <5>5, OthersUntouched
        <5>8. f[n] = result
          BY <5>2 DEF added, params
        <5> QED
          BY <5>6, <5>7, <5>8
      <4> QED
        BY <4>1, <4>2
    <3>3. Known(f[n], name) <=> \E k \in places : k <= n
      BY <2>2, <3>1, <3>2
    <3>4. ASSUME NEW k \in places, k <= n, \A j \in places : j <= n => j <= k
          PROVE  Lookup(f[n], name) = presets[k].params
      <4>1. k <= n - 1 /\ \A j \in places : j <= n - 1 => j <= k
        BY <3>1, <3>4
      <4>2. Known(before, name) /\ Lookup(before, name) = presets[k].params
        BY <2>2, <4>1
      <4> QED
        BY <3>2, <4>2
    <3> QED
      BY <3>2, <3>3, <3>4
  <2> QED
    BY <2>4, <2>5
<1> HIDE DEF UpTo
<1>7. m \in S
  <2>1. S \in SUBSET Nat
    BY <1>1
  <2>2. 0 \in S
    BY <1>1, <1>5
  <2>3. ASSUME NEW n \in 1 .. m, n - 1 \in S PROVE n \in S
    <3>1. n \in 0 .. m
      BY <1>1
    <3> QED
      BY <1>6, <2>3, <3>1
  <2> HIDE DEF S
  <2>4. \A n \in 0 .. m : n \in S
    BY <1>1, <2>1, <2>2, <2>3, CountingUp
  <2> QED
    BY <1>1, <2>4
<1>8. \A k \in places : k <= m
  BY <1>1, <1>4
<1>9. UpTo(m)
  BY <1>7
<1>10. /\ f[m] \in Registries
       /\ Known(f[m], name) <=> places # {}
       /\ \A k \in places : (\A j \in places : j <= k) => Lookup(f[m], name) = presets[k].params
  BY <1>8, <1>9 DEF UpTo
<1> QED
  BY <1>3, <1>10 DEF places, Adopted

=============================================================================
