----------------------------- MODULE BlurFrame ------------------------------
(***************************************************************************)
(* Rendering one frame after another with libwlblur: wlblur_apply_blur     *)
(* (blur_context.c), the import and export of buffers (dmabuf.c), the      *)
(* passes of wlblur_kawase_blur (blur_kawase.c) and the framebuffer pool   *)
(* they draw into (framebuffer.c).  Each step is one iteration of one of   *)
(* the loops, or one call that can fail.  The textures of the pool are     *)
(* numbered from 1 in the order in which the pool created them, and        *)
(* texture 0 is the imported input.                                        *)
(*                                                                         *)
(* OpenGL remembers that a call has failed until glGetError() is asked, so *)
(* an error nobody asks for is reported to whoever asks next.              *)
(* wlblur_shader_use() asks too, and nobody looks at its answer: errors of *)
(* the passes before are lost there, and a program that could not be taken *)
(* into use goes unnoticed.                                                *)
(***************************************************************************)
EXTENDS Integers, Sequences

CONSTANTS
    WLBLUR_FBO_POOL_SIZE,   \* most framebuffers a pool can hold
    Frames,                 \* what can be asked for: [size, passes]
    MaxPlanes               \* most planes the driver exports a texture as

Sizes == (Nat \ {0}) \X (Nat \ {0})

ASSUME FrameAssumption ==
    /\ WLBLUR_FBO_POOL_SIZE \in Nat
    /\ Frames \subseteq [size : Sizes, passes : 1 .. 8]
    /\ MaxPlanes \in 1 .. 4

VARIABLES
    pool,           \* the framebuffers, each with its size and in_use flag
    pc,             \* the loop the renderer is in
    frame,          \* the frame being rendered
    levels,         \* the framebuffers acquired for the passes (fbos[])
    pass,           \* the pass that is next
    current_tex,    \* the texture the next pass reads
    target,         \* the full-size framebuffer of the last upsample pass
    final,          \* the framebuffer of the post-processing
    drawn,          \* the last draw: which texture was read, which written
    input_tex,      \* is the imported texture alive
    image,          \* is an EGLImage
    planes,         \* open descriptors of the planes of the output
    gl_error,       \* is there an error glGetError() has not reported
    exported,       \* textures whose buffer has been given to a client
    before,         \* the framebuffers that were in use when the frame began
    spoiled,        \* what of the frame has gone wrong: draws of a loop, or the
                    \* use of a program
    result          \* how the last frame ended

pools == <<pool, exported>>
passes == <<frame, levels, pass, current_tex, target, final, drawn, before, spoiled>>
buffers == <<input_tex, image, planes>>
vars == <<pools, pc, passes, buffers, gl_error, result>>

Textures == 1 .. WLBLUR_FBO_POOL_SIZE

None == 0

Failures == {"params", "context", "import", "fbo", "exhausted", "gl_error", "export"}

TypeOK ==
    /\ pool \in Seq([size : Sizes, in_use : BOOLEAN]) /\ Len(pool) <= WLBLUR_FBO_POOL_SIZE
    /\ pc \in {"idle", "import", "bind", "acquire", "downsample", "upsample", "finish", "check",
               "export", "planes", "verify"}
    /\ frame \in Frames
    /\ levels \in Seq(Textures)
    /\ pass \in 0 .. 8
    /\ {current_tex, target, final} \subseteq Textures \cup {None}
    /\ drawn \in [src : Textures \cup {None}, dst : Textures \cup {-1}]
    /\ {input_tex, image, gl_error} \subseteq BOOLEAN
    /\ planes \in 0 .. MaxPlanes
    /\ exported \subseteq Textures /\ before \subseteq Textures
    /\ spoiled \subseteq {"downsample", "upsample", "finish", "use"}
    /\ result \in Failures \cup {"none", "ok"}

Init ==
    /\ pool = << >> /\ exported = {}
    /\ pc = "idle"
    /\ frame \in Frames /\ levels = << >> /\ pass = 0
    /\ current_tex = None /\ target = None /\ final = None
    /\ drawn = [src |-> None, dst |-> -1]
    /\ input_tex = FALSE /\ image = FALSE /\ planes = 0
    /\ gl_error = FALSE
    /\ before = {} /\ spoiled = {}
    /\ result = "none"

-----------------------------------------------------------------------------
(* The pool. *)

InUse == {i \in DOMAIN pool : pool[i].in_use}

Reusable(size) == {i \in DOMAIN pool : ~ pool[i].in_use /\ pool[i].size = size}

(* What glGetError() tells (in the mutant nobody asks). *)
NotAsked == FALSE
Reported == gl_error

(* wlblur_fbo_pool_acquire: the first free framebuffer of the size, or a new
   one while the pool has room and no error is pending.  Nothing is ever taken
   out of the pool.  (The mutant does not mark what it takes.) *)
AcquireUnmarked(size, i) ==
    \/ /\ i \in Reusable(size) /\ \A j \in Reusable(size) : i <= j
       /\ UNCHANGED pool
    \/ /\ Reusable(size) = {} /\ Len(pool) < WLBLUR_FBO_POOL_SIZE
       /\ ~ Reported
       /\ i = Len(pool) + 1
       /\ pool' = Append(pool, [size |-> size, in_use |-> FALSE])

Acquire(size, i) ==
    \/ /\ i \in Reusable(size) /\ \A j \in Reusable(size) : i <= j
       /\ pool' = [pool EXCEPT ![i].in_use = TRUE]
    \/ /\ Reusable(size) = {} /\ Len(pool) < WLBLUR_FBO_POOL_SIZE
       /\ ~ Reported
       /\ i = Len(pool) + 1
       /\ pool' = Append(pool, [size |-> size, in_use |-> TRUE])

(* It returns NULL when the pool is full, when a new framebuffer is not
   complete, which may leave an error pending, or when an error is pending
   after its creation, which is asked for. *)
CannotAcquire(size) ==
    /\ Reusable(size) = {}
    /\ IF Len(pool) < WLBLUR_FBO_POOL_SIZE
       THEN result' = "fbo" /\ gl_error' \in BOOLEAN
       ELSE result' = "exhausted" /\ UNCHANGED gl_error

Release(fbos) ==
    pool' = [i \in DOMAIN pool |-> IF i \in fbos THEN [pool[i] EXCEPT !.in_use = FALSE] ELSE pool[i]]

(* The framebuffers of the passes that have been acquired (the mutant forgets
   the last). *)
AllButLast == {levels[k] : k \in 1 .. Len(levels) - 1}
Levels == {levels[k] : k \in 1 .. Len(levels)}

-----------------------------------------------------------------------------
(* A frame. *)

(* Level k is the frame halved k times, and at least one pixel (in the mutant,
   perhaps none). *)
HalvedToZero(n, k) == n \div 2^k
Halved(n, k) == IF n \div 2^k < 1 THEN 1 ELSE n \div 2^k
LevelSize(k) == <<Halved(frame.size[1], k), Halved(frame.size[2], k)>>

(* wlblur_apply_blur deletes the imported texture on every return (in the
   mutant, it does not). *)
KeepInput == input_tex' = input_tex
DeleteInput == input_tex' = FALSE

(* What is left of an error, of its own or of a draw before, after
   wlblur_shader_use(). *)
AfterUse == FALSE

(* A call of EGL may leave an error to OpenGL, whether it succeeds or not. *)
EglCall == gl_error' \in {gl_error, TRUE}

(* Parameters are validated, the context is made current. *)
Begin ==
    /\ pc = "idle"
    /\ frame' \in Frames
    /\ levels' = << >> /\ pass' = 0
    /\ current_tex' = None /\ target' = None /\ final' = None
    /\ before' = InUse /\ spoiled' = {}
    /\ planes' = 0
    /\ \/ pc' = "import" /\ result' = "none"
       \/ pc' = "idle" /\ result' \in {"params", "context"}
    /\ UNCHANGED <<pools, drawn, input_tex, image, gl_error>>

(* wlblur_dmabuf_import: an EGLImage of the buffer, if its planes are right ... *)
ImportImage ==
    /\ pc = "import"
    /\ \/ pc' = "bind" /\ image' = TRUE /\ UNCHANGED result
       \/ pc' = "idle" /\ result' = "import" /\ UNCHANGED image
    /\ EglCall
    /\ UNCHANGED <<pools, passes, input_tex, planes>>

(* ... and a texture of the image.  An error that is pending by then, old or
   new, takes back both. *)
ImportTexture ==
    /\ pc = "bind"
    /\ ~ Reported
    /\ pc' = "acquire" /\ input_tex' = TRUE /\ image' = FALSE
    /\ UNCHANGED <<pools, passes, planes, gl_error, result>>

ImportTextureFails ==
    /\ pc = "bind"
    /\ pc' = "idle" /\ image' = FALSE
    /\ result' = "import"
    /\ gl_error' = FALSE
    /\ UNCHANGED <<pools, passes, input_tex, planes>>

(* The frame fails after the levels have been acquired, or some of them. *)
Fail ==
    /\ pc' = "idle"
    /\ DeleteInput
    /\ UNCHANGED <<exported, passes>>

(* The downsample shader is taken into use when all levels are there. *)
AcquireLevel ==
    /\ pc = "acquire"
    /\ \E i \in Textures :
        /\ Acquire(LevelSize(Len(levels) + 1), i)
        /\ levels' = Append(levels, i)
    /\ IF Len(levels') = frame.passes
       THEN pc' = "downsample" /\ gl_error' = AfterUse /\ spoiled' \in {spoiled, spoiled \cup {"use"}}
       ELSE pc' = "acquire" /\ UNCHANGED <<gl_error, spoiled>>
    /\ UNCHANGED <<exported, frame, pass, current_tex, target, final, drawn, before, buffers, result>>

AcquireLevelFails ==
    /\ pc = "acquire"
    /\ CannotAcquire(LevelSize(Len(levels) + 1))
    /\ Release(Levels)
    /\ Fail
    /\ UNCHANGED <<image, planes>>

(* wrong is what of the step goes wrong; a draw that does leaves its error. *)
Draw(i, wrong) ==
    /\ drawn' = [src |-> current_tex, dst |-> i]
    /\ current_tex' = i
    /\ spoiled' = spoiled \cup wrong

(* The upsample shader is taken into use after the last pass. *)
Downsample ==
    /\ pc = "downsample"
    /\ \E wrong \in SUBSET {pc, "use"} :
        /\ Draw(levels[pass + 1], wrong)
        /\ IF pass + 1 = frame.passes
           THEN pc' = "upsample" /\ pass' = frame.passes - 1 /\ gl_error' = AfterUse
           ELSE /\ pc' = "downsample" /\ pass' = pass + 1
                /\ "use" \notin wrong /\ gl_error' = (gl_error \/ pc \in wrong)
    /\ UNCHANGED <<pools, frame, levels, target, final, before, buffers, result>>

(* Up one level, into the framebuffer of the level above. *)
Upsample ==
    /\ pc = "upsample"
    /\ pass > 0
    /\ \E wrong \in SUBSET {pc} : Draw(levels[pass], wrong) /\ gl_error' = (gl_error \/ pc \in wrong)
    /\ pass' = pass - 1
    /\ UNCHANGED <<pools, pc, frame, levels, target, final, before, buffers, result>>

(* The last upsample pass, into a framebuffer of the full size. *)
UpsampleFull ==
    /\ pc = "upsample"
    /\ pass = 0
    /\ \E i \in Textures, wrong \in SUBSET {pc} :
        /\ Acquire(frame.size, i)
        /\ target' = i
        /\ Draw(i, wrong) /\ gl_error' = (gl_error \/ pc \in wrong)
    /\ pc' = "finish"
    /\ UNCHANGED <<exported, frame, levels, pass, final, before, buffers, result>>

UpsampleFails ==
    /\ pc = "upsample"
    /\ pass = 0
    /\ CannotAcquire(frame.size)
    /\ Release(Levels)
    /\ Fail
    /\ UNCHANGED <<image, planes>>

(* Post-processing, with a shader of its own, into another framebuffer of the
   full size.  If the shader cannot be used, the program of the passes before
   draws in its place. *)
Finish ==
    /\ pc = "finish"
    /\ \E i \in Textures, wrong \in SUBSET {pc, "use"} :
        /\ Acquire(frame.size, i)
        /\ final' = i
        /\ Draw(i, wrong) /\ gl_error' = (AfterUse \/ pc \in wrong)
    /\ pc' = "check"
    /\ UNCHANGED <<exported, frame, levels, pass, target, before, buffers, result>>

(* The levels are released; the target of the last upsample pass is not. *)
FinishFails ==
    /\ pc = "finish"
    /\ CannotAcquire(frame.size)
    /\ Release(Levels)
    /\ Fail
    /\ UNCHANGED <<image, planes>>

(* The levels are released before glGetError() is asked.  The result stays in
   use: the client goes on reading it (in the mutant it is released). *)
LevelsAndResult == Levels \cup {final}
ReleasedAtEnd == Levels

Rendered ==
    /\ pc = "check"
    /\ ~ Reported
    /\ Release(ReleasedAtEnd)
    /\ pc' = "export"
    /\ UNCHANGED <<exported, passes, buffers, gl_error, result>>

(* If there has been an error the result goes back to the pool too. *)
ReportGlError ==
    /\ pc = "check"
    /\ Reported
    /\ Release(Levels \cup {final})
    /\ gl_error' = FALSE
    /\ result' = "gl_error"
    /\ Fail
    /\ UNCHANGED <<image, planes>>

(* wlblur_dmabuf_export: an EGLImage of the result ... *)
ExportImage ==
    /\ pc = "export"
    /\ pc' = "planes"
    /\ image' = TRUE
    /\ EglCall
    /\ UNCHANGED <<pools, passes, input_tex, planes, result>>

(* ... as buffers, one for each plane ... *)
ExportPlanes ==
    /\ pc = "planes"
    /\ pc' = "verify"
    /\ planes' \in 1 .. MaxPlanes
    /\ EglCall
    /\ UNCHANGED <<pools, passes, input_tex, image, result>>

(* ... and the image goes.  The caller closes the descriptors. *)
Export ==
    /\ pc = "verify"
    /\ ~ Reported
    /\ image' = FALSE
    /\ exported' = exported \cup {final}
    /\ result' = "ok"
    /\ pc' = "idle"
    /\ DeleteInput
    /\ UNCHANGED <<pool, passes, planes, gl_error>>

(* One of the three does not succeed, and the first two are taken back; the
   result stays in use.  Only the third asks OpenGL for errors (the mutant does
   not close the descriptors). *)
KeepPlanes == planes' = planes
ClosePlanes == planes' = 0

ExportFails ==
    /\ pc \in {"export", "planes", "verify"}
    /\ pc = "verify" => Reported
    /\ image' = FALSE
    /\ ClosePlanes
    /\ IF pc = "verify" THEN gl_error' = FALSE ELSE EglCall
    /\ result' = "export"
    /\ Fail
    /\ UNCHANGED pool

Next ==
    \/ Begin
    \/ ImportImage \/ ImportTexture \/ ImportTextureFails
    \/ AcquireLevel \/ AcquireLevelFails
    \/ Downsample
    \/ Upsample \/ UpsampleFull \/ UpsampleFails
    \/ Finish \/ FinishFails
    \/ Rendered \/ ReportGlError
    \/ ExportImage \/ ExportPlanes \/ Export \/ ExportFails

Spec == Init /\ [][Next]_vars

-----------------------------------------------------------------------------

(* No draw reads the texture it writes, which OpenGL leaves undefined: the
   levels, the target and the result of a frame are different framebuffers,
   also when several levels have one size (blur_kawase.c:250, 301, 345). *)
NoFeedback == drawn.src # drawn.dst

(* No frame draws into a texture whose buffer an earlier frame has given to a
   client: the client goes on showing that frame. *)
OutputsIntact == [][drawn' # drawn => drawn'.dst \notin exported]_vars

(* However a frame ends, the levels it took are free again, and it has freed
   nothing that was in use when it began. *)
FrameBalanced ==
    pc = "idle" => before \subseteq InUse /\ InUse \subseteq before \cup {target, final}

(* However a frame ends, the imported texture and the EGLImages are gone, and
   the caller is left with descriptors only if it is told so
   (blur_context.c:92-130, dmabuf.c:130-163, 199-262). *)
NothingKept == pc = "idle" => ~ input_tex /\ ~ image /\ (planes > 0 <=> result = "ok")

(* A frame leaves an error to the next one only if the pool could not give it a
   framebuffer, or its buffer could not be imported or exported: a frame that
   counts as rendered has asked, and so has one that OpenGL has failed.  Of what
   goes wrong in a frame that counts as rendered two things only are lost: draws
   of the passes before the last, whose error wlblur_shader_use() takes, and the
   failure of a glUseProgram() itself, the last one included, after which the
   pass is drawn by the program before (framebuffer.c:49-55, shaders.c:266-272,
   blur_kawase.c:252-258, 294, 308-315, 349-356, 361, 383, dmabuf.c:199-252). *)
ErrorsAreReported ==
    /\ pc = "idle" /\ gl_error => result \in {"fbo", "exhausted", "params", "context", "import", "export"}
    /\ result = "ok" => spoiled \subseteq {"downsample", "upsample", "use"}

(* "Framebuffer pool for reuse" (internal.h:143), "~32MB (reused across
   frames)" (docs/api/libwlblur-reference.md:401): with frames of one size the
   pool serves every frame once it has served the first. *)
PoolReused == result # "exhausted"
=============================================================================
