----------------------------- MODULE BlurContext -----------------------------
(***************************************************************************)
(* The contexts of libwlblur: wlblur_context_create and _destroy           *)
(* (blur_context.c), the EGL context (egl_helpers.c) and the renderer with *)
(* its three shader programs and its quad (blur_kawase.c, shaders.c) they  *)
(* are made of.  Each step of a creation can fail, and what it has made so *)
(* far is unwound on the way out.                                          *)
(*                                                                         *)
(* One thread makes the calls.  Of EGL the model keeps what the calls rely *)
(* on: all contexts live on one default display; eglTerminate() destroys   *)
(* every context of it, except that one which is current lives on until it *)
(* is released; OpenGL acts on whatever context is current, and hands out  *)
(* object names in order, so that the objects of two contexts, which share *)
(* nothing, have the same names.                                           *)
(***************************************************************************)
EXTENDS Naturals, FiniteSets

CONSTANTS
    Contexts,       \* the struct wlblur_context a program can hold
    NoContext,      \* no context is current
    Zombie          \* one is that nobody has a handle of any more

ASSUME ContextAssumption == {NoContext, Zombie} \cap Contexts = {} /\ NoContext # Zombie

(* The objects of a renderer, by name: a vertex shader, a fragment shader and
   a program for each of the three passes, a vertex array and a buffer. *)
ShaderObjects == 1 .. 9
Quad == {10, 11}
Objects == ShaderObjects \cup Quad

VARIABLES
    pc,             \* where the running call stands
    caller,         \* the context it is about
    creating,       \* is it, or was the last, wlblur_context_create
    ready,          \* the contexts wlblur_context_create has returned
    egl,            \* context |-> its EGLContext: none, live or dead (destroyed)
    objects,        \* context |-> the objects that exist in its EGLContext
    held,           \* context |-> the names its renderer remembers
    initialized,    \* is the display
    current,        \* the context OpenGL acts on
    crowded         \* the ready contexts that another has come or gone beside

vars == <<pc, caller, creating, ready, egl, objects, held, initialized, current, crowded>>

TypeOK ==
    /\ pc \in {"idle", "display", "context", "current", "procs", "renderer", "shaders", "quad",
               "unwind", "egl_destroy"}
    /\ caller \in Contexts /\ creating \in BOOLEAN
    /\ ready \subseteq Contexts
    /\ egl \in [Contexts -> {"none", "live", "dead"}]
    /\ objects \in [Contexts -> SUBSET Objects]
    /\ held \in [Contexts -> SUBSET Objects]
    /\ initialized \in BOOLEAN
    /\ current \in Contexts \cup {NoContext, Zombie}
    /\ crowded \subseteq ready
    /\ \A c \in Contexts : egl[c] = "none" => objects[c] = {}

Init ==
    /\ pc = "idle" /\ caller \in Contexts /\ creating = FALSE
    /\ ready = {} /\ crowded = {}
    /\ egl = [c \in Contexts |-> "none"]
    /\ objects = [c \in Contexts |-> {}] /\ held = [c \in Contexts |-> {}]
    /\ initialized = FALSE
    /\ current = NoContext

-----------------------------------------------------------------------------
(* EGL. *)

(* eglMakeCurrent(): the context that was current is released, and if it has
   been destroyed its objects go with it (the mutant does not call it). *)
KeepCurrent(c) == UNCHANGED <<current, objects>>
MakeCurrent(c) ==
    /\ current' = c
    /\ objects' = IF current \in Contexts \ {c} /\ egl[current] = "dead"
                  THEN [objects EXCEPT ![current] = {}]
                  ELSE objects

(* eglDestroyContext() for the caller's context and eglTerminate(), while cur
   is current: all contexts are destroyed, that is, they are gone with their
   objects, but for cur, which exists for as long as it stays current, and its
   objects with it (in the mutant, all objects stay).  The caller's structure
   is freed, and with it the handle of its EGLContext. *)
AllDead == [c \in Contexts |-> IF c = caller \/ egl[c] = "none" THEN "none" ELSE "dead"]
ObjectsKept(cur) == objects
ObjectsLeft(cur) == [c \in Contexts |-> IF c = cur THEN objects[c] ELSE {}]

(* wlblur_context_create returns NULL; its context structure is freed. *)
ReturnNull ==
    /\ pc' = "idle"
    /\ held' = [held EXCEPT ![caller] = {}]
    /\ UNCHANGED <<caller, creating, ready, crowded>>

(* Is the display initialized after eglTerminate() (in the mutant, which goes
   to the label after it, as before). *)
NotTerminated == initialized
Terminated == FALSE

-----------------------------------------------------------------------------
(* wlblur_context_create *)

(* Nothing has happened if calloc() returns NULL. *)
Create(c) ==
    /\ pc = "idle"
    /\ c \notin ready
    /\ pc' = "display" /\ caller' = c /\ creating' = TRUE
    /\ crowded' = ready
    /\ UNCHANGED <<ready, egl, objects, held, initialized, current>>

InitDisplay ==
    /\ pc = "display"
    /\ pc' = "context" /\ initialized' = TRUE
    /\ UNCHANGED <<caller, creating, ready, egl, objects, held, current, crowded>>

(* eglGetDisplay() or eglInitialize() fails: there is nothing to unwind. *)
InitDisplayFails ==
    /\ pc = "display"
    /\ ReturnNull
    /\ UNCHANGED <<egl, objects, initialized, current>>

(* The extensions are there, OpenGL ES is bound, a configuration found. *)
CreateEglContext ==
    /\ pc = "context"
    /\ pc' = "current"
    /\ egl' = [egl EXCEPT ![caller] = "live"]
    /\ UNCHANGED <<caller, creating, ready, objects, held, initialized, current, crowded>>

ActivateContext ==
    /\ pc = "current"
    /\ pc' = "procs"
    /\ MakeCurrent(caller)
    /\ UNCHANGED <<caller, creating, ready, egl, held, initialized, crowded>>

GetProcs ==
    /\ pc = "procs"
    /\ pc' = "renderer"
    /\ UNCHANGED <<caller, creating, ready, egl, objects, held, initialized, current, crowded>>

(* One of the three does not succeed.  The error path does not release the
   context: one that is current already, which the third may find, is destroyed
   and exists all the same, until another is made current or none. *)
EglCreateFails ==
    /\ pc \in {"context", "current", "procs"}
    /\ egl' = AllDead
    /\ objects' = ObjectsLeft(current)
    /\ initialized' = Terminated
    /\ current' = IF current = caller THEN Zombie ELSE current
    /\ ReturnNull

(* wlblur_kawase_create allocates the renderer and its pool. *)
OpenRenderer ==
    /\ pc = "renderer"
    /\ pc' = "shaders"
    /\ UNCHANGED <<caller, creating, ready, egl, objects, held, initialized, current, crowded>>

OpenRendererFails ==
    /\ pc = "renderer"
    /\ pc' = "egl_destroy"
    /\ UNCHANGED <<caller, creating, ready, egl, objects, held, initialized, current, crowded>>

Made == Cardinality(objects[caller] \cap ShaderObjects)

(* The next object of wlblur_shader_load_from_source; the renderer gets hold
   of a program and its two shaders when the third is there. *)
MakeShaderObject ==
    /\ pc = "shaders"
    /\ objects' = [objects EXCEPT ![caller] = @ \cup {Made + 1}]
    /\ held' = IF (Made + 1) % 3 = 0 THEN [held EXCEPT ![caller] = objects'[caller]] ELSE held
    /\ pc' = IF Made + 1 = 9 THEN "quad" ELSE "shaders"
    /\ UNCHANGED <<caller, creating, ready, egl, initialized, current, crowded>>

(* The shaders deleted when the n-th object cannot be made: those of the same
   program (in the mutant the fragment shader is forgotten). *)
VertexOnly(n) == {m \in ShaderObjects : m < n /\ m = 3 * ((n - 1) \div 3) + 1}
Siblings(n) == {m \in ShaderObjects : m < n /\ (m - 1) \div 3 = (n - 1) \div 3}

(* There is no source, no memory, or OpenGL refuses it. *)
ShaderFails ==
    /\ pc = "shaders"
    /\ objects' = [objects EXCEPT ![caller] = @ \ Siblings(Made + 1)]
    /\ pc' = "unwind"
    /\ UNCHANGED <<caller, creating, ready, egl, held, initialized, current, crowded>>

(* create_fullscreen_quad stores its names before it asks for errors. *)
MakeQuad ==
    /\ pc = "quad"
    /\ objects' = [objects EXCEPT ![caller] = @ \cup Quad]
    /\ held' = [held EXCEPT ![caller] = @ \cup Quad]
    /\ \/ pc' = "idle" /\ ready' = ready \cup {caller}
       \/ pc' = "unwind" /\ UNCHANGED ready
    /\ crowded' = IF ready = {} THEN {} ELSE ready'
    /\ UNCHANGED <<caller, creating, egl, initialized, current>>

-----------------------------------------------------------------------------

(* wlblur_context_destroy *)
Destroy(c) ==
    /\ pc = "idle"
    /\ c \in ready
    /\ pc' = "unwind" /\ caller' = c /\ creating' = FALSE
    /\ ready' = ready \ {c}
    /\ crowded' = ready \ {c}
    /\ UNCHANGED <<egl, objects, held, initialized, current>>

(* wlblur_kawase_destroy deletes what the renderer holds, by name, in the
   context that happens to be current. *)
KawaseDestroy ==
    /\ pc = "unwind"
    /\ objects' = IF current \in Contexts
                  THEN [objects EXCEPT ![current] = @ \ held[caller]]
                  ELSE objects
    /\ held' = [held EXCEPT ![caller] = {}]
    /\ pc' = "egl_destroy"
    /\ UNCHANGED <<caller, creating, ready, egl, initialized, current, crowded>>

(* wlblur_egl_destroy: no context stays current, and none survives. *)
EglDestroy ==
    /\ pc = "egl_destroy"
    /\ current' = NoContext
    /\ egl' = AllDead
    /\ objects' = ObjectsLeft(NoContext)
    /\ initialized' = Terminated
    /\ pc' = "idle"
    /\ UNCHANGED <<caller, creating, ready, held, crowded>>

(* wlblur_apply_blur makes its context current, if it can. *)
Use(c) ==
    /\ pc = "idle"
    /\ c \in ready
    /\ egl[c] = "live" /\ initialized
    /\ MakeCurrent(c)
    /\ UNCHANGED <<pc, caller, creating, ready, egl, held, initialized, crowded>>

Next ==
    \/ \E c \in Contexts : Create(c) \/ Destroy(c) \/ Use(c)
    \/ InitDisplay \/ InitDisplayFails
    \/ CreateEglContext \/ ActivateContext \/ GetProcs \/ EglCreateFails
    \/ OpenRenderer \/ OpenRendererFails
    \/ MakeShaderObject \/ ShaderFails
    \/ MakeQuad
    \/ KawaseDestroy \/ EglDestroy

Spec == Init /\ [][Next]_vars

-----------------------------------------------------------------------------

(* Whatever step of a creation fails, the renderer has deleted all it had made
   when the EGLContext goes: a program that is only half there included
   (shaders.c:154-174, blur_kawase.c:179-213).  So it has at a destruction while
   its own context is current.  With another one current it deletes that one's
   objects of the same names instead, and its own go with the EGLContext. *)
Unwound == pc = "egl_destroy" /\ (creating \/ current = caller) => objects[caller] = {}

(* The EGLContexts that exist: those not destroyed, and one that is current. *)
Existing == {c \in Contexts : egl[c] = "live"} \cup ({current} \ {NoContext})

(* When a program holds no context any more, the display is down, and no object
   and no EGLContext is left, however it has come there.  There is one
   exception: a creation that failed past eglMakeCurrent() leaves its EGLContext,
   in which nothing has been made yet, until a later call makes another current
   or none (egl_helpers.c:158-210, blur_context.c:32-67). *)
NothingLeft ==
    pc = "idle" /\ ready = {} =>
        /\ ~ initialized
        /\ Existing \subseteq (IF creating THEN {Zombie} ELSE {})
        /\ \A c \in Contexts : objects[c] = {}

(* As long as no other context has come or gone, a context is complete and
   current: what wlblur_context_destroy deletes by name is its own
   (blur_kawase.c:184-214). *)
AloneIntact ==
    pc = "idle" => \A c \in ready \ crowded :
                     /\ egl[c] = "live" /\ initialized /\ current = c
                     /\ objects[c] = Objects /\ held[c] = Objects

-----------------------------------------------------------------------------
(* "Multiple contexts: Safe (independent EGL contexts)"
   (docs/architecture/01-libwlblur.md:788): a context has all its objects for
   as long as it is not destroyed. *)
ContextsIndependent == \A c \in ready : egl[c] = "live" /\ held[c] \subseteq objects[c]
=============================================================================
