-------------------------- MODULE BlurContextProofs --------------------------
(***************************************************************************)
(* Proofs that a creation of a context unwinds what it has made wherever   *)
(* it fails, what is left when the last context goes, and that a context   *)
(* that has been alone is complete, for any number of contexts.            *)
(***************************************************************************)
EXTENDS BlurContext, FiniteSetTheorems, TLAPS

(* While a context is being made it is none of the ready ones, and from
   eglMakeCurrent() on it is the one OpenGL acts on. *)
Creation ==
    /\ pc # "idle" => caller \notin ready /\ crowded = ready
    /\ pc \in {"procs", "renderer", "shaders", "quad"} => current = caller
    /\ creating /\ pc \in {"unwind", "egl_destroy"} => current = caller
    /\ pc \in {"display", "context", "current", "procs", "renderer", "shaders", "quad"} => creating
    /\ pc \in {"current", "procs", "renderer", "shaders", "quad"} => egl[caller] = "live"
    /\ pc \in {"context", "current", "procs", "renderer", "shaders", "quad"} => initialized

(* Object names are given out in order, and remembered by the program. *)
Named ==
    /\ pc = "shaders" =>
         \E m \in 0 .. 8 : objects[caller] = 1 .. m /\ held[caller] = 1 .. 3 * (m \div 3)
    /\ pc = "quad" => objects[caller] = ShaderObjects /\ held[caller] = ShaderObjects
    /\ pc = "unwind" => objects[caller] \subseteq held[caller]
    /\ \A c \in ready : objects[c] \subseteq held[c]
    /\ Unwound

(* What there is belongs to a ready context or to the running call. *)
Belongs ==
    /\ \A c \in Contexts \ ready : objects[c] # {} =>
         c = caller /\ pc \in {"shaders", "quad", "unwind", "egl_destroy"}
    /\ \A c \in Contexts \ ready : held[c] # {} => c = caller /\ pc \in {"shaders", "quad", "unwind"}
    /\ \A c \in Contexts \ ready : egl[c] = "live" => c = caller /\ pc \notin {"idle", "display", "context"}
    /\ initialized => ready # {} \/ pc \notin {"idle", "display"}
    /\ current \in Contexts => current \in ready \/ (current = caller /\ pc \notin {"idle", "display"})
    /\ pc = "idle" /\ ~ creating => current # Zombie

(* A context nobody has come or gone beside is the only one. *)
Alone ==
    \A c \in ready \ crowded :
        /\ ready = {c}
        /\ egl[c] = "live" /\ initialized /\ current = c
        /\ objects[c] = Objects /\ held[c] = Objects

Inv == TypeOK /\ Creation /\ Named /\ Belongs /\ Alone

-----------------------------------------------------------------------------

(* The number of the objects made is the name of the last. *)
LEMMA Counting ==
    ASSUME NEW m \in 0 .. 9
    PROVE  /\ Cardinality((1 .. m) \cap ShaderObjects) = m
           /\ 1 .. m \subseteq ShaderObjects
<1>1. (1 .. m) \cap ShaderObjects = 1 .. m
  BY DEF ShaderObjects
<1>2. Cardinality(1 .. m) = m
  <2>1. m \in Int /\ 1 \in Int
    OBVIOUS
  <2>2. Cardinality(1 .. m) = IF 1 > m THEN 0 ELSE m - 1 + 1
    BY <2>1, FS_Interval
  <2> QED
    BY <2>2
<1> QED
  BY <1>1, <1>2

(* Deleting the objects of the program that is not complete leaves those of
   the programs that are. *)
LEMMA Deleting ==
    ASSUME NEW m \in 0 .. 8
    PROVE  (1 .. m) \ Siblings(m + 1) = 1 .. 3 * (m \div 3)
<1>1. ASSUME NEW k \in 1 .. 9
      PROVE  k \in (1 .. m) /\ (k - 1) \div 3 # m \div 3 <=> k \in 1 .. 3 * (m \div 3)
  <2>1. 3 * (m \div 3) <= m /\ m < 3 * (m \div 3) + 3 /\ m \div 3 \in Nat
    OBVIOUS
  <2>2. 3 * ((k - 1) \div 3) <= k - 1 /\ k - 1 < 3 * ((k - 1) \div 3) + 3 /\ (k - 1) \div 3 \in Nat
    OBVIOUS
  <2> QED
    BY <2>1, <2>2
<1>2. 3 * (m \div 3) <= 8 /\ m \div 3 \in Nat
  OBVIOUS
<1> QED
  BY <1>1, <1>2 DEF Siblings, ShaderObjects

(* No context, no object. *)
LEMMA InvInit == Init => Inv
BY ContextAssumption
   DEF Init, Inv, TypeOK, Creation, Named, Belongs, Alone, Unwound, Objects, ShaderObjects, Quad

(* A creation begins with nothing. *)
LEMMA CreateStep == ASSUME Inv, NEW c \in Contexts, Create(c) PROVE Inv'
BY DEF Inv, TypeOK, Creation, Named, Belongs, Alone, Unwound, Create

(* The display, before there is a context. *)
LEMMA DisplayStep == ASSUME Inv, InitDisplay \/ InitDisplayFails PROVE Inv'
<1>1. CASE InitDisplay
  BY <1>1 DEF Inv, TypeOK, Creation, Named, Belongs, Alone, Unwound, InitDisplay
<1>2. CASE InitDisplayFails
  BY <1>2 DEF Inv, TypeOK, Creation, Named, Belongs, Alone, Unwound, InitDisplayFails, ReturnNull
<1> QED
  BY <1>1, <1>2

(* The context, up to the renderer. *)
LEMMA EglStep ==
    ASSUME Inv, CreateEglContext \/ ActivateContext \/ GetProcs \/ EglCreateFails
    PROVE  Inv'
<1>1. CASE CreateEglContext
  BY <1>1 DEF Inv, TypeOK, Creation, Named, Belongs, Alone, Unwound, CreateEglContext
<1>2. CASE ActivateContext
  BY <1>2 DEF Inv, TypeOK, Creation, Named, Belongs, Alone, Unwound, ActivateContext, MakeCurrent
<1>3. CASE GetProcs
  BY <1>3 DEF Inv, TypeOK, Creation, Named, Belongs, Alone, Unwound, GetProcs
<1>4. CASE EglCreateFails
  <2>1. /\ egl' = AllDead /\ objects' = ObjectsLeft(current) /\ initialized' = FALSE
        /\ current' = (IF current = caller THEN Zombie ELSE current)
        /\ pc' = "idle" /\ held' = [held EXCEPT ![caller] = {}] /\ UNCHANGED <<caller, creating, ready, crowded>>
        /\ pc \in {"context", "current", "procs"}
    BY <1>4 DEF EglCreateFails, ReturnNull, Terminated
  <2>2. /\ caller \in Contexts \ ready /\ objects[caller] = {} /\ held[caller] = {} /\ crowded = ready
    BY <2>1 DEF Inv, TypeOK, Creation, Belongs
  <2>3. \A c \in Contexts : /\ objects'[c] = {} \/ objects'[c] = objects[c]
                            /\ egl'[c] \in {"none", "dead"}
                            /\ egl'[c] = "none" => objects'[c] = {}
    BY <2>1, <2>2 DEF Inv, TypeOK, AllDead, ObjectsLeft
  <2>4. TypeOK'
    BY <2>1, <2>2, <2>3 DEF Inv, TypeOK, AllDead, ObjectsLeft
  <2>5. Named'
    BY <2>1, <2>2, <2>3 DEF Inv, TypeOK, Named, Unwound
  <2>6. Belongs'
    BY <2>1, <2>2, <2>3, ContextAssumption DEF Inv, TypeOK, Creation, Belongs
  <2> QED
    BY <2>1, <2>2, <2>4, <2>5, <2>6 DEF Inv, Creation, Alone
<1> QED
  BY <1>1, <1>2, <1>3, <1>4

(* The renderer, before its first object. *)
LEMMA RendererStep == ASSUME Inv, OpenRenderer \/ OpenRendererFails PROVE Inv'
<1>1. objects[caller] = {} /\ held[caller] = {} /\ pc = "renderer"
  BY DEF Inv, TypeOK, Creation, Belongs, OpenRenderer, OpenRendererFails
<1>2. CASE OpenRenderer
  BY <1>1, <1>2 DEF Inv, TypeOK, Creation, Named, Belongs, Alone, Unwound, OpenRenderer
<1>3. CASE OpenRendererFails
  BY <1>1, <1>3 DEF Inv, TypeOK, Creation, Named, Belongs, Alone, Unwound, OpenRendererFails
<1> QED
  BY <1>2, <1>3

(* One object more, or those of its program less. *)
LEMMA ShaderStep == ASSUME Inv, MakeShaderObject \/ ShaderFails PROVE Inv'
<1>1. PICK m \in 0 .. 8 : objects[caller] = 1 .. m /\ held[caller] = 1 .. 3 * (m \div 3)
  BY DEF Inv, Named, MakeShaderObject, ShaderFails
<1>2. Made = m
  <2>1. m \in 0 .. 9
    OBVIOUS
  <2>2. Cardinality((1 .. m) \cap ShaderObjects) = m
    BY <2>1, Counting
  <2> QED
    BY <1>1, <2>2 DEF Made
<1>3. caller \in Contexts /\ caller \notin ready /\ pc = "shaders" /\ crowded = ready /\ current = caller
  BY DEF Inv, TypeOK, Creation, MakeShaderObject, ShaderFails
<1>4. CASE MakeShaderObject
  <2>1. /\ objects' = [objects EXCEPT ![caller] = 1 .. m + 1]
        /\ held' = [held EXCEPT ![caller] = 1 .. 3 * ((m + 1) \div 3)]
    <3>1. (1 .. m) \cup {m + 1} = 1 .. m + 1
      OBVIOUS
    <3>2. CASE (m + 1) % 3 = 0
      <4>1. 3 * ((m + 1) \div 3) = m + 1
        BY <3>2
      <4> QED
        BY <1>1, <1>2, <1>3, <1>4, <3>1, <3>2, <4>1 DEF MakeShaderObject, Inv, TypeOK
    <3>3. CASE (m + 1) % 3 # 0
      <4>1. (m + 1) \div 3 = m \div 3
        BY <3>3
      <4>2. held' = held
        BY <1>2, <1>4, <3>3 DEF MakeShaderObject
      <4> QED
        BY <1>1, <1>2, <1>3, <1>4, <3>1, <4>1, <4>2 DEF MakeShaderObject, Inv, TypeOK
    <3> QED
      BY <3>2, <3>3
  <2>2. 1 .. m + 1 \subseteq ShaderObjects /\ 1 .. 3 * ((m + 1) \div 3) \subseteq ShaderObjects
    BY DEF ShaderObjects
  <2>3. m = 8 => 1 .. m + 1 = ShaderObjects /\ 1 .. 3 * ((m + 1) \div 3) = ShaderObjects
    BY DEF ShaderObjects
  <2>4. m < 8 => m + 1 \in 0 .. 8
    OBVIOUS
  <2>5. /\ pc' = IF m = 8 THEN "quad" ELSE "shaders"
        /\ UNCHANGED <<caller, creating, ready, egl, initialized, current, crowded>>
    <3>1. m + 1 = 9 <=> m = 8
      OBVIOUS
    <3> QED
      BY <1>2, <1>4, <3>1 DEF MakeShaderObject
  <2>6. objects'[caller] = 1 .. m + 1 /\ held'[caller] = 1 .. 3 * ((m + 1) \div 3)
    BY <1>3, <2>1 DEF Inv, TypeOK
  <2>7. \A c \in Contexts \ {caller} : objects'[c] = objects[c] /\ held'[c] = held[c]
    BY <1>3, <2>1 DEF Inv, TypeOK
  <2>8. TypeOK'
    <3>1. egl[caller] = "live"
      BY <1>3 DEF Inv, Creation
    <3> QED
      BY <1>3, <2>1, <2>2, <2>5, <3>1 DEF Inv, TypeOK, Objects
  <2>9. Named'
    <3>1. pc' = "shaders" => m < 8
      BY <2>5
    <3>2. pc' = "quad" => m = 8
      BY <2>5
    <3>3. pc' = "shaders" =>
            \E n \in 0 .. 8 : objects'[caller] = 1 .. n /\ held'[caller] = 1 .. 3 * (n \div 3)
      BY <2>4, <2>6, <3>1
    <3>4. pc' = "quad" => objects'[caller] = ShaderObjects /\ held'[caller] = ShaderObjects
      BY <2>3, <2>6, <3>2
    <3>5. \A c \in ready : objects'[c] \subseteq held'[c]
      BY <1>3, <2>7 DEF Inv, TypeOK, Named
    <3> QED
      BY <2>5, <3>3, <3>4, <3>5 DEF Named, Unwound
  <2>10. Belongs' /\ Creation'
    BY <1>3, <2>5, <2>7 DEF Inv, Belongs, Creation
  <2> QED
    BY <1>3, <2>5, <2>8, <2>9, <2>10 DEF Inv, Alone
<1>5. CASE ShaderFails
  <2>1. objects' = [objects EXCEPT ![caller] = held[caller]]
    BY <1>1, <1>2, <1>5, Deleting DEF ShaderFails
  <2> QED
    BY <1>3, <1>5, <2>1 DEF Inv, TypeOK, Creation, Named, Belongs, Alone, Unwound, ShaderFails
<1> QED
  BY <1>4, <1>5

(* The context is complete with its quad. *)
LEMMA QuadStep == ASSUME Inv, MakeQuad PROVE Inv'
BY DEF Inv, TypeOK, Creation, Named, Belongs, Alone, Unwound, MakeQuad, Objects

(* A destruction begins: nobody is alone any more. *)
LEMMA DestroyStep == ASSUME Inv, NEW c \in Contexts, Destroy(c) PROVE Inv'
BY DEF Inv, TypeOK, Creation, Named, Belongs, Alone, Unwound, Destroy

(* What is deleted by name may be another's. *)
LEMMA UnwindStep == ASSUME Inv, KawaseDestroy \/ EglDestroy PROVE Inv'
<1>1. CASE KawaseDestroy
  BY <1>1, ContextAssumption DEF Inv, TypeOK, Creation, Named, Belongs, Alone, Unwound, KawaseDestroy
<1>2. CASE EglDestroy
  BY <1>2, ContextAssumption
     DEF Inv, TypeOK, Creation, Named, Belongs, Alone, Unwound, EglDestroy, AllDead, ObjectsLeft, Terminated
<1> QED
  BY <1>1, <1>2

(* A context that has been alone is current already. *)
LEMMA UseStep == ASSUME Inv, NEW c \in Contexts, Use(c) PROVE Inv'
BY ContextAssumption DEF Inv, TypeOK, Creation, Named, Belongs, Alone, Unwound, Use, MakeCurrent

(* Every call, and every failure in it, keeps the invariant. *)
LEMMA InvStep == Inv /\ [Next]_vars => Inv'
<1> SUFFICES ASSUME Inv, [Next]_vars PROVE Inv'
  OBVIOUS
<1>1. CASE UNCHANGED vars
  BY <1>1 DEF vars, Inv, TypeOK, Creation, Named, Belongs, Alone, Unwound
<1> QED
  BY <1>1, CreateStep, DestroyStep, UseStep, DisplayStep, EglStep, RendererStep, ShaderStep, QuadStep, UnwindStep
     DEF Next

(* The invariant holds in every state. *)
LEMMA Invariance == Spec => []Inv
BY InvInit, InvStep, PTL DEF Spec

-----------------------------------------------------------------------------

(* Every variable keeps its type, and a context without an EGLContext has no
   objects (egl_helpers.c:128-199). *)
THEOREM TypesAreKept == Spec => []TypeOK
<1>1. Inv => TypeOK
  BY DEF Inv
<1> QED
  BY <1>1, Invariance, PTL

(* Wherever a creation fails, what it has made has been deleted when its
   EGLContext goes, and so it has at a destruction while the caller's context is
   current (shaders.c:154-174, blur_kawase.c:179-213). *)
THEOREM CreationUnwinds == Spec => []Unwound
<1>1. Inv => Unwound
  BY DEF Inv, Named
<1> QED
  BY <1>1, Invariance, PTL

(* With the last context everything goes, but for the EGLContext that a failed
   creation leaves current (egl_helpers.c:158-210). *)
THEOREM NothingIsLeft == Spec => []NothingLeft
<1>1. Inv => NothingLeft
  BY DEF Inv, TypeOK, Belongs, NothingLeft, Existing
<1> QED
  BY <1>1, Invariance, PTL

(* A context is complete and current while no other comes or goes
   (blur_kawase.c:184-214). *)
THEOREM AloneIsIntact == Spec => []AloneIntact
<1>1. Inv => AloneIntact
  BY DEF Inv, Alone, AloneIntact
<1> QED
  BY <1>1, Invariance, PTL
=============================================================================
