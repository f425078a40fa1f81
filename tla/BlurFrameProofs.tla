--------------------------- MODULE BlurFrameProofs ---------------------------
(***************************************************************************)
(* Proofs about BlurFrame, for every size of the pool and every frame.     *)
(***************************************************************************)
EXTENDS BlurFrame, TLAPS

Fbos == [size : Sizes, in_use : BOOLEAN]

Passing == {"acquire", "downsample", "upsample", "finish", "check"}

Exporting == {"export", "planes", "verify"}

(* The framebuffers of the frame that is being rendered. *)
Taken == Levels \cup ({target, final} \ {None})

(* What is in use has been since the frame began, or belongs to the frame; what
   clients have got is among the former. *)
Owned ==
    /\ before \subseteq InUse /\ exported \subseteq InUse
    /\ pc # "idle" => exported \subseteq before
    /\ pc \in {"import", "bind"} => InUse = before /\ levels = << >> /\ target = None /\ final = None
    /\ pc \in Passing => InUse = before \cup Taken /\ before \cap Taken = {}
    /\ pc \in Exporting \cup {"idle"} => InUse \subseteq before \cup {target, final}
    /\ pc \in Exporting => final \in InUse

(* No framebuffer is taken twice. *)
Different ==
    /\ \A k, l \in DOMAIN levels : levels[k] = levels[l] => k = l
    /\ pc \in Passing => target \notin Levels /\ final \notin Levels
    /\ pc = "check" => target # final

(* Each pass reads what the pass before it has drawn. *)
Chained ==
    /\ pc \in {"import", "bind", "acquire"} => pass = 0 /\ current_tex = None
    /\ pc = "acquire" => Len(levels) < frame.passes
    /\ pc \in {"downsample", "upsample"} => Len(levels) = frame.passes /\ pass < frame.passes
    /\ pc \in {"acquire", "downsample", "upsample"} => target = None
    /\ pc \in {"acquire", "downsample", "upsample", "finish"} => final = None
    /\ pc = "downsample" => current_tex = IF pass = 0 THEN None ELSE levels[pass]
    /\ pc = "upsample" => current_tex = levels[pass + 1]
    /\ pc = "finish" => current_tex = target /\ target # None
    /\ pc = "check" => final # None
    /\ drawn.src # drawn.dst

PoolOK == pool \in Seq(Fbos) /\ Len(pool) <= WLBLUR_FBO_POOL_SIZE

FrameTypes ==
    /\ PoolOK
    /\ frame \in Frames
    /\ levels \in Seq(Textures)
    /\ pass \in 0 .. 8
    /\ {current_tex, target, final} \subseteq Textures \cup {None}
    /\ drawn \in [src : Textures \cup {None}, dst : Textures \cup {-1}]
    /\ exported \subseteq Textures /\ before \subseteq Textures

Inv == FrameTypes /\ Owned /\ Different /\ Chained

(* The imported texture, the EGLImages and the pending error at each stage (an
   error of the last pass is pending until it is asked for) ... *)
FlagsInv ==
    /\ {input_tex, image, gl_error} \subseteq BOOLEAN
    /\ pc \in {"idle", "import", "bind"} => input_tex = FALSE
    /\ pc \notin {"bind", "planes", "verify"} => image = FALSE
    /\ pc \notin {"idle", "check"} => "finish" \notin spoiled
    /\ pc = "check" /\ "finish" \in spoiled => gl_error = TRUE
    /\ pc = "idle" /\ gl_error => result \in {"fbo", "exhausted", "params", "context", "import", "export"}
    /\ result = "ok" => "finish" \notin spoiled

(* ... and the descriptors of the output. *)
PlanesInv ==
    /\ planes \in Nat
    /\ pc \notin {"idle", "verify"} => planes = 0
    /\ pc = "verify" => planes > 0
    /\ pc # "idle" => result = "none"
    /\ pc = "idle" => (planes > 0 <=> result = "ok")

-----------------------------------------------------------------------------

(* Nothing is alive and nothing has gone wrong at first. *)
LEMMA FlagsInit == Init => FlagsInv
BY Zenon DEF Init, FlagsInv

(* What has been made is undone on every way out of the stage that made it. *)
LEMMA FlagsStep == FlagsInv /\ PlanesInv /\ [Next]_vars => FlagsInv'
<1> SUFFICES ASSUME FlagsInv, PlanesInv, [Next]_vars PROVE FlagsInv'
  OBVIOUS
<1>0. pc # "idle" => result = "none"
  BY DEF PlanesInv
<1> USE DEF FlagsInv, Reported, buffers, passes, pools
<1>1. CASE Begin
  BY <1>1, Zenon DEF Begin
<1>2. CASE ImportImage
  BY <1>0, <1>2, Zenon DEF ImportImage, EglCall
<1>3. CASE ImportTexture
  BY <1>0, <1>3, Zenon DEF ImportTexture
<1>4. CASE ImportTextureFails
  BY <1>0, <1>4, Zenon DEF ImportTextureFails
<1>5. CASE AcquireLevel
  <2>1. pc = "acquire" /\ (pc' = "downsample" \/ pc' = "acquire")
        /\ UNCHANGED <<input_tex, image, result>>
    BY <1>5, Zenon DEF AcquireLevel
  <2>2. "finish" \notin spoiled'
    <3>1. "finish" \notin spoiled
      BY <2>1
    <3>2. spoiled' = spoiled \/ spoiled' = spoiled \cup {"use"}
      BY <1>5, Zenon DEF AcquireLevel
    <3> QED
      BY <3>1, <3>2
  <2>3. gl_error' = FALSE \/ gl_error' = gl_error
    BY <1>5, Zenon DEF AcquireLevel, AfterUse
  <2> QED
    BY <1>0, <2>1, <2>2, <2>3, Zenon
<1>6. CASE AcquireLevelFails \/ UpsampleFails \/ FinishFails
  BY <1>0, <1>6, Zenon DEF AcquireLevelFails, UpsampleFails, FinishFails, Fail, DeleteInput, CannotAcquire
<1>7. CASE Downsample \/ Upsample \/ UpsampleFull
  BY <1>0, <1>7, Zenon DEF Downsample, Upsample, UpsampleFull, Draw, AfterUse
<1>15. CASE Finish
  BY <1>0, <1>15, Zenon DEF Finish, Draw, AfterUse
<1>8. CASE Rendered
  BY <1>0, <1>8, Zenon DEF Rendered
<1>9. CASE ReportGlError
  BY <1>0, <1>9, Zenon DEF ReportGlError, Fail, DeleteInput
<1>10. CASE ExportImage
  BY <1>0, <1>10, Zenon DEF ExportImage, EglCall
<1>11. CASE ExportPlanes
  BY <1>0, <1>11, Zenon DEF ExportPlanes, EglCall
<1>12. CASE Export
  BY <1>0, <1>12, Zenon DEF Export, DeleteInput
<1>13. CASE ExportFails
  BY <1>0, <1>13, Zenon DEF ExportFails, EglCall, Fail, DeleteInput
<1>14. CASE UNCHANGED vars
  BY <1>14, Zenon DEF vars
<1> QED
  BY <1>1, <1>2, <1>3, <1>4, <1>5, <1>6, <1>7, <1>8, <1>9, <1>10, <1>11, <1>12, <1>13, <1>14, <1>15 DEF Next

(* No descriptor is open at first ... *)
LEMMA PlanesInit == Init => PlanesInv
BY DEF Init, PlanesInv

(* ... and only a frame that is exported leaves some. *)
LEMMA PlanesStep == PlanesInv /\ [Next]_vars => PlanesInv'
<1> SUFFICES ASSUME PlanesInv, [Next]_vars PROVE PlanesInv'
  OBVIOUS
<1> USE DEF PlanesInv, buffers
<1>1. CASE Begin
  BY <1>1 DEF Begin
<1>2. CASE ImportImage \/ ImportTexture \/ ImportTextureFails
  BY <1>2 DEF ImportImage, ImportTexture, ImportTextureFails
<1>3. CASE AcquireLevel
  BY <1>3 DEF AcquireLevel
<1>4. CASE AcquireLevelFails \/ UpsampleFails \/ FinishFails
  BY <1>4 DEF AcquireLevelFails, UpsampleFails, FinishFails, Fail, CannotAcquire
<1>5. CASE Downsample \/ Upsample \/ UpsampleFull \/ Finish
  BY <1>5 DEF Downsample, Upsample, UpsampleFull, Finish
<1>6. CASE Rendered
  BY <1>6 DEF Rendered
<1>7. CASE ReportGlError
  BY <1>7 DEF ReportGlError, Fail
<1>8. CASE ExportImage
  BY <1>8 DEF ExportImage
<1>9. CASE ExportPlanes
  BY <1>9, FrameAssumption DEF ExportPlanes
<1>10. CASE Export
  BY <1>10 DEF Export
<1>11. CASE ExportFails
  BY <1>11 DEF ExportFails, ClosePlanes, Fail
<1>12. CASE UNCHANGED vars
  BY <1>12 DEF vars
<1> QED
  BY <1>1, <1>2, <1>3, <1>4, <1>5, <1>6, <1>7, <1>8, <1>9, <1>10, <1>11, <1>12 DEF Next

(* Whichever of its steps fails, a frame leaves neither its texture nor an
   EGLImage behind, and the caller has descriptors only if it is told so
   (blur_context.c:92-130, dmabuf.c:130-163, 199-262). *)
THEOREM NothingIsKept == Spec => []NothingKept
<1>1. FlagsInv /\ PlanesInv => NothingKept
  <2>1. FlagsInv => (pc = "idle" => ~ input_tex /\ ~ image)
    BY Zenon DEF FlagsInv
  <2>2. PlanesInv => (pc = "idle" => (planes > 0 <=> result = "ok"))
    BY DEF PlanesInv
  <2> QED
    BY <2>1, <2>2, Zenon DEF NothingKept
<1> QED
  BY <1>1, FlagsInit, FlagsStep, PlanesInit, PlanesStep, PTL DEF Spec

-----------------------------------------------------------------------------
(* The pool. *)

(* The levels have a size the pool can hold. *)
LEMMA PowersOfTwo ==
    ASSUME NEW k \in 1 .. 8
    PROVE  2^k \in Nat \ {0}
<1>1. /\ 2^1 = 2 /\ 2^2 = 4 /\ 2^3 = 8 /\ 2^4 = 16
      /\ 2^5 = 32 /\ 2^6 = 64 /\ 2^7 = 128 /\ 2^8 = 256
  OBVIOUS
<1>2. \/ k = 1 \/ k = 2 \/ k = 3 \/ k = 4 \/ k = 5 \/ k = 6 \/ k = 7 \/ k = 8
  OBVIOUS
<1>3. CASE k = 1
  BY <1>1, <1>3
<1>4. CASE k = 2
  BY <1>1, <1>4
<1>5. CASE k = 3
  BY <1>1, <1>5
<1>6. CASE k = 4
  BY <1>1, <1>6
<1>7. CASE k = 5
  BY <1>1, <1>7
<1>8. CASE k = 6
  BY <1>1, <1>8
<1>9. CASE k = 7
  BY <1>1, <1>9
<1>10. CASE k = 8
  BY <1>1, <1>10
<1> QED
  BY <1>2, <1>3, <1>4, <1>5, <1>6, <1>7, <1>8, <1>9, <1>10

(* A level is at least one pixel high and wide. *)
LEMMA LevelSizes ==
    ASSUME frame \in Frames, NEW k \in 1 .. 8
    PROVE  LevelSize(k) \in Sizes /\ frame.size \in Sizes
<1>1. ASSUME NEW n \in Nat \ {0} PROVE Halved(n, k) \in Nat \ {0}
  <2> DEFINE q == n \div 2^k
  <2>1. q \in Nat
    <3>1. PICK m \in Nat \ {0} : m = 2^k
      BY PowersOfTwo
    <3>2. n \div m \in Nat
      OBVIOUS
    <3> QED
      BY <3>1, <3>2
  <2>2. Halved(n, k) = IF q < 1 THEN 1 ELSE q
    BY DEF Halved
  <2> HIDE DEF q
  <2> QED
    BY <2>1, <2>2
<1>2. frame.size[1] \in Nat \ {0} /\ frame.size[2] \in Nat \ {0} /\ frame.size \in Sizes
  BY FrameAssumption DEF Sizes
<1> QED
  BY <1>1, <1>2 DEF LevelSize, Sizes

(* What is in use is a texture of the pool. *)
LEMMA InUseType ==
    ASSUME PoolOK
    PROVE  InUse \subseteq 1 .. Len(pool) /\ InUse \subseteq Textures
BY FrameAssumption DEF PoolOK, InUse, Textures

(* The pool gives away what nobody has, and marks it. *)
LEMMA Acquired ==
    ASSUME PoolOK, NEW size \in Sizes, NEW i \in Textures, Acquire(size, i)
    PROVE  PoolOK' /\ i \notin InUse /\ InUse' = InUse \cup {i}
<1>1. CASE i \in Reusable(size) /\ pool' = [pool EXCEPT ![i].in_use = TRUE]
  <2>1. i \in DOMAIN pool /\ ~ pool[i].in_use
    BY <1>1 DEF Reusable
  <2>2. DOMAIN pool = 1 .. Len(pool) /\ Len(pool) \in Nat /\ pool \in [1 .. Len(pool) -> Fbos]
    BY DEF PoolOK
  <2>3. [pool[i] EXCEPT !.in_use = TRUE] \in Fbos /\ [pool[i] EXCEPT !.in_use = TRUE].in_use = TRUE
    BY <2>1, <2>2 DEF Fbos
  <2>4. pool' = [pool EXCEPT ![i] = [pool[i] EXCEPT !.in_use = TRUE]]
    BY <1>1
  <2>5. pool' \in Seq(Fbos) /\ Len(pool') = Len(pool) /\ DOMAIN pool' = DOMAIN pool
    BY <2>1, <2>2, <2>3, <2>4 DEF PoolOK
  <2>6. \A j \in DOMAIN pool : pool'[j].in_use = IF j = i THEN TRUE ELSE pool[j].in_use
    BY <2>2, <2>3, <2>4
  <2> QED
    BY <2>1, <2>5, <2>6 DEF PoolOK, InUse
<1>2. CASE /\ Len(pool) < WLBLUR_FBO_POOL_SIZE
           /\ i = Len(pool) + 1
           /\ pool' = Append(pool, [size |-> size, in_use |-> TRUE])
  <2> DEFINE new == [size |-> size, in_use |-> TRUE]
  <2>1. new \in Fbos /\ new.in_use = TRUE
    BY DEF Fbos
  <2> HIDE DEF new
  <2>2. /\ pool \in Seq(Fbos) /\ Len(pool) \in Nat /\ DOMAIN pool = 1 .. Len(pool)
        /\ pool' = Append(pool, new)
    BY <1>2 DEF PoolOK, new
  <2>3. /\ pool' \in Seq(Fbos) /\ Len(pool') = Len(pool) + 1
        /\ DOMAIN pool' = DOMAIN pool \cup {i}
        /\ pool'[i] = new /\ \A j \in DOMAIN pool : pool'[j] = pool[j]
    BY <1>2, <2>1, <2>2
  <2>4. i \notin DOMAIN pool
    BY <1>2, <2>2
  <2>5. Len(pool') <= WLBLUR_FBO_POOL_SIZE
    BY <1>2, <2>2, <2>3, FrameAssumption
  <2> QED
    BY <2>1, <2>3, <2>4, <2>5 DEF PoolOK, InUse
<1> QED
  BY <1>1, <1>2 DEF Acquire

(* It takes back what it is given, and nothing else. *)
LEMMA Released ==
    ASSUME PoolOK, NEW fbos, Release(fbos)
    PROVE  PoolOK' /\ InUse' = InUse \ fbos
<1>1. pool \in Seq(Fbos) /\ Len(pool) \in Nat /\ DOMAIN pool = 1 .. Len(pool)
  BY DEF PoolOK
<1>2. DOMAIN pool' = DOMAIN pool
  BY DEF Release
<1>3. ASSUME NEW i \in DOMAIN pool
      PROVE  pool'[i] \in Fbos /\ pool'[i].in_use = IF i \in fbos THEN FALSE ELSE pool[i].in_use
  <2>1. pool[i] \in Fbos
    BY <1>1
  <2>2. pool'[i] = IF i \in fbos THEN [pool[i] EXCEPT !.in_use = FALSE] ELSE pool[i]
    BY DEF Release
  <2> QED
    BY <2>1, <2>2 DEF Fbos
<1>4. pool' \in [1 .. Len(pool) -> Fbos]
  <2>1. pool' = [i \in 1 .. Len(pool) |-> pool'[i]]
    BY <1>1 DEF Release
  <2> QED
    BY <1>1, <1>3, <2>1
<1>5. pool' \in Seq(Fbos) /\ Len(pool') = Len(pool)
  BY <1>1, <1>4
<1> QED
  BY <1>2, <1>3, <1>5 DEF PoolOK, InUse
-----------------------------------------------------------------------------
(* The frame. *)

(* The empty pool, before any frame. *)
LEMMA FrameInit == Init => Inv
<1> SUFFICES ASSUME Init PROVE Inv
  OBVIOUS
<1>1. InUse = {}
  BY DEF Init, InUse
<1>2. FrameTypes
  BY FrameAssumption DEF Init, FrameTypes, PoolOK, Textures, None
<1>3. Owned
  BY <1>1 DEF Init, Owned, Passing, Exporting
<1>4. Different
  BY DEF Init, Different, Passing
<1>5. Chained
  BY DEF Init, Chained, None
<1> QED
  BY <1>2, <1>3, <1>4, <1>5 DEF Inv

(* Steps that leave the pool and the passes alone, and stay where they keep
   the same promises. *)
LEMMA FrameKept ==
    ASSUME Inv, UNCHANGED <<pools, passes>>,
           \/ pc' = pc
           \/ pc \in {"import", "bind"} /\ pc' \in {"import", "bind", "idle"}
           \/ pc \in Exporting /\ pc' \in Exporting,
           FrameTypes'
    PROVE  Inv'
<1>1. UNCHANGED <<InUse, Taken, Levels>>
  BY DEF pools, passes, InUse, Taken, Levels
<1>2. Owned'
  BY <1>1 DEF Inv, Owned, Passing, Exporting, pools, passes
<1>3. Different' /\ Chained'
  BY <1>1 DEF Inv, Different, Chained, Passing, Exporting, pools, passes
<1> QED
  BY <1>2, <1>3 DEF Inv

(* A frame that begins has taken nothing, and remembers what others have. *)
LEMMA FrameBegin ==
    ASSUME Inv, Begin
    PROVE  Inv'
<1>1. InUse' = InUse /\ Levels' = {} /\ InUse \subseteq Textures
  <2>1. InUse \subseteq Textures
    BY InUseType DEF Inv, FrameTypes
  <2> QED
    BY <2>1 DEF Begin, pools, InUse, Levels
<1>2. FrameTypes'
  BY <1>1 DEF Inv, FrameTypes, PoolOK, Begin, pools, None
<1>3. Owned'
  BY <1>1 DEF Inv, Owned, Begin, pools, Passing, Exporting
<1>4. Different' /\ Chained'
  BY DEF Inv, Different, Chained, Begin, Passing, None
<1> QED
  BY <1>2, <1>3, <1>4 DEF Inv

(* The import leaves the pool alone. *)
LEMMA FrameImport ==
    ASSUME Inv, ImportImage \/ ImportTexture \/ ImportTextureFails
    PROVE  Inv'
<1>1. CASE ImportImage \/ ImportTextureFails
  <2>1. FrameTypes'
    BY <1>1 DEF Inv, FrameTypes, PoolOK, ImportImage, ImportTextureFails, pools, passes
  <2> QED
    BY <1>1, <2>1, FrameKept DEF ImportImage, ImportTextureFails
<1>2. CASE ImportTexture
  <2>1. InUse' = InUse /\ Taken = {} /\ Taken' = Taken /\ Levels = {} /\ Levels' = Levels
    BY <1>2 DEF Inv, Owned, ImportTexture, pools, passes, InUse, Taken, Levels
  <2>2. FrameTypes'
    BY <1>2 DEF Inv, FrameTypes, PoolOK, ImportTexture, pools, passes
  <2>3. Owned'
    BY <1>2, <2>1 DEF Inv, Owned, ImportTexture, pools, passes, Passing, Exporting
  <2>4. frame.passes \in 1 .. 8
    BY FrameAssumption DEF Inv, FrameTypes
  <2>5. Different'
    BY <1>2, <2>1 DEF Inv, Owned, Different, ImportTexture, passes, Passing
  <2>6. Chained'
    BY <1>2, <2>4 DEF Inv, Owned, Chained, ImportTexture, passes
  <2> QED
    BY <2>2, <2>3, <2>5, <2>6 DEF Inv
<1> QED
  BY <1>1, <1>2

(* A level is a framebuffer nobody has, so not one of the levels before it. *)
LEMMA FrameAcquireLevel ==
    ASSUME Inv, AcquireLevel
    PROVE  Inv'
<1> DEFINE n == Len(levels) + 1
<1>1. /\ levels \in Seq(Textures) /\ Len(levels) \in Nat /\ DOMAIN levels = 1 .. Len(levels)
      /\ frame \in Frames /\ frame.passes \in 1 .. 8 /\ n \in 1 .. 8 /\ n <= frame.passes
  BY FrameAssumption DEF Inv, FrameTypes, Chained, AcquireLevel
<1>2. PICK i \in Textures : Acquire(LevelSize(n), i) /\ levels' = Append(levels, i)
  BY DEF AcquireLevel
<1>3. PoolOK' /\ i \notin InUse /\ InUse' = InUse \cup {i}
  <2>1. LevelSize(n) \in Sizes
    BY <1>1, LevelSizes
  <2> QED
    BY <1>2, <2>1, Acquired DEF Inv, FrameTypes
<1>4. /\ levels' \in Seq(Textures) /\ Len(levels') = n /\ DOMAIN levels' = DOMAIN levels \cup {n}
      /\ levels'[n] = i /\ \A k \in DOMAIN levels : levels'[k] = levels[k]
  BY <1>1, <1>2
<1>5. /\ UNCHANGED <<exported, frame, pass, current_tex, target, final, drawn, before, input_tex, image, planes,
                     result>>
      /\ pc = "acquire" /\ pc' = IF n = frame.passes THEN "downsample" ELSE "acquire"
  BY <1>4 DEF AcquireLevel, buffers
<1>6. Levels' = Levels \cup {i}
  <2>1. Levels = {levels[k] : k \in DOMAIN levels}
    BY <1>1 DEF Levels
  <2>2. Levels' = {levels'[k] : k \in DOMAIN levels'}
    <3>1. DOMAIN levels' = 1 .. Len(levels')
      BY <1>4
    <3> QED
      BY <3>1 DEF Levels
  <2> QED
    BY <1>4, <2>1, <2>2
<1>7. /\ target = None /\ final = None /\ Taken = Levels /\ Taken' = Levels \cup {i}
      /\ InUse = before \cup Levels /\ before \cap Levels = {} /\ exported \subseteq before
  BY <1>5, <1>6 DEF Inv, Chained, Owned, Taken, Passing
<1>8. FrameTypes'
  BY <1>3, <1>4, <1>5 DEF Inv, FrameTypes
<1>9. Owned'
  BY <1>3, <1>5, <1>6, <1>7 DEF Owned, Passing, Exporting
<1>10. Different'
  <2>1. \A k \in DOMAIN levels : levels[k] \in Levels
    BY <1>1 DEF Levels
  <2>2. \A k \in DOMAIN levels : levels[k] # i
    BY <1>3, <1>7, <2>1
  <2>3. \A k, l \in DOMAIN levels' : levels'[k] = levels'[l] => k = l
    BY <1>4, <2>2 DEF Inv, Different
  <2>4. target' \notin Levels' /\ final' \notin Levels'
    <3>1. 0 \notin Levels /\ i # 0
      <4>1. \A k \in 1 .. Len(levels) : levels[k] \in Textures
        BY <1>1
      <4>2. 0 \notin Textures
        BY DEF Textures
      <4> QED
        BY <4>1, <4>2 DEF Levels
    <3> QED
      BY <1>5, <1>6, <1>7, <3>1 DEF None
  <2> QED
    BY <1>5, <2>3, <2>4 DEF Different
<1>11. Chained'
  BY <1>1, <1>4, <1>5 DEF Inv, Chained, None
<1> QED
  BY <1>8, <1>9, <1>10, <1>11 DEF Inv

(* A frame that ends before its time gives back its levels, and perhaps its
   result. *)
LEMMA FrameEnds ==
    ASSUME Inv, pc \in Passing, UNCHANGED <<exported, passes>>, pc' = "idle",
           NEW fbos, Release(fbos), Levels \subseteq fbos, fbos \subseteq Taken
    PROVE  Inv'
<1>1. PoolOK' /\ InUse' = InUse \ fbos
  BY Released DEF Inv, FrameTypes
<1>2. FrameTypes'
  BY <1>1 DEF Inv, FrameTypes, passes
<1>3. /\ InUse = before \cup Taken /\ before \cap Taken = {} /\ Taken \subseteq Levels \cup {target, final}
      /\ exported \subseteq before
  BY DEF Inv, Owned, Passing, Taken
<1>4. Owned'
  BY <1>1, <1>3 DEF Owned, passes, Passing, Exporting
<1>5. Different' /\ Chained'
  BY DEF Inv, Different, Chained, passes, Passing
<1> QED
  BY <1>2, <1>4, <1>5 DEF Inv

(* A failure gives back the levels, a late error the result as well. *)
LEMMA FrameFails ==
    ASSUME Inv, AcquireLevelFails \/ UpsampleFails \/ FinishFails \/ ReportGlError
    PROVE  Inv'
<1>1. CASE AcquireLevelFails \/ UpsampleFails \/ FinishFails
  <2>1. Release(Levels) /\ UNCHANGED <<exported, passes>> /\ pc \in Passing /\ pc' = "idle"
    BY <1>1 DEF AcquireLevelFails, UpsampleFails, FinishFails, Fail, Passing
  <2>2. Levels \subseteq Taken
    BY DEF Taken
  <2> QED
    BY <2>1, <2>2, FrameEnds
<1>2. CASE ReportGlError
  <2>1. /\ Release(Levels \cup {final}) /\ UNCHANGED <<exported, passes>>
        /\ pc = "check" /\ pc \in Passing /\ pc' = "idle"
    BY <1>2 DEF ReportGlError, Fail, Passing
  <2>2. Levels \subseteq Levels \cup {final} /\ Levels \cup {final} \subseteq Taken
    BY <2>1 DEF Inv, Chained, Taken
  <2> QED
    BY <2>1, <2>2, FrameEnds
<1> QED
  BY <1>1, <1>2

(* A pass between two levels draws into a framebuffer it does not read. *)
LEMMA FrameDownUp ==
    ASSUME Inv, Downsample \/ Upsample
    PROVE  /\ Inv'
           /\ drawn'.dst \in Levels
<1>1. /\ levels \in Seq(Textures) /\ Len(levels) \in Nat /\ DOMAIN levels = 1 .. Len(levels)
      /\ \A k \in 1 .. Len(levels) : levels[k] \in Textures /\ levels[k] \in Levels
      /\ frame.passes \in 1 .. 8 /\ Len(levels) = frame.passes /\ pass \in 0 .. frame.passes - 1
  BY FrameAssumption DEF Inv, FrameTypes, Chained, Downsample, Upsample, Levels
<1>2. /\ UNCHANGED <<pool, exported, frame, levels, target, final, before, buffers, result>>
      /\ pc \in {"downsample", "upsample"} /\ pc' \in {"downsample", "upsample"}
  BY DEF Downsample, Upsample, pools
<1>3. InUse' = InUse /\ Levels' = Levels /\ Taken' = Taken
  BY <1>2 DEF InUse, Levels, Taken
<1>4. Owned' /\ Different'
  BY <1>2, <1>3 DEF Inv, Owned, Different, Passing, Exporting
<1>5. 0 \notin Textures
  BY DEF Textures
<1>6. CASE Downsample
  <2>1. /\ drawn' = [src |-> current_tex, dst |-> levels[pass + 1]]
        /\ current_tex' = levels[pass + 1]
        /\ pc = "downsample" /\ current_tex = IF pass = 0 THEN None ELSE levels[pass]
        /\ IF pass + 1 = frame.passes
           THEN pc' = "upsample" /\ pass' = frame.passes - 1
           ELSE pc' = "downsample" /\ pass' = pass + 1
    BY <1>6 DEF Downsample, Draw, Inv, Chained
  <2>2. levels[pass + 1] \in Textures /\ levels[pass + 1] \in Levels
    BY <1>1
  <2>3. current_tex # levels[pass + 1] /\ current_tex \in Textures \cup {None}
    <3>1. CASE pass = 0
      BY <1>5, <2>1, <2>2, <3>1 DEF None
    <3>2. CASE pass # 0
      BY <1>1, <2>1, <3>2 DEF Inv, Different
    <3> QED
      BY <3>1, <3>2
  <2>4. FrameTypes'
    BY <1>1, <1>2, <2>1, <2>2, <2>3 DEF Inv, FrameTypes, PoolOK
  <2>5. pass' \in 0 .. frame.passes - 1
    BY <1>1, <2>1
  <2>6. /\ pc' = "downsample" => current_tex' = levels[pass'] /\ pass' # 0
        /\ pc' = "upsample" => current_tex' = levels[pass' + 1]
    BY <1>1, <2>1
  <2>7. target = None /\ final = None
    BY <2>1 DEF Inv, Chained
  <2>8. /\ pc' = "downsample" => current_tex' = IF pass' = 0 THEN None ELSE levels'[pass']
        /\ pc' = "upsample" => current_tex' = levels'[pass' + 1]
    BY <1>2, <2>6
  <2>9. Len(levels') = frame'.passes /\ pass' < frame'.passes
    BY <1>1, <1>2, <2>5
  <2>10. drawn'.src # drawn'.dst
    BY <2>1, <2>3
  <2>11. Chained'
    BY <1>2, <2>7, <2>8, <2>9, <2>10 DEF Chained
  <2> QED
    BY <1>4, <2>1, <2>2, <2>4, <2>11 DEF Inv
<1>7. CASE Upsample
  <2>1. /\ drawn' = [src |-> current_tex, dst |-> levels[pass]]
        /\ current_tex' = levels[pass]
        /\ pc = "upsample" /\ pc' = pc /\ current_tex = levels[pass + 1]
        /\ pass > 0 /\ pass' = pass - 1
    BY <1>7 DEF Upsample, Draw, Inv, Chained
  <2>2. levels[pass] \in Textures /\ levels[pass] \in Levels /\ current_tex \in Textures
    BY <1>1, <2>1
  <2>3. current_tex # levels[pass]
    BY <1>1, <2>1 DEF Inv, Different
  <2>4. pass' \in 0 .. frame.passes - 1 /\ current_tex' = levels[pass' + 1] /\ pass' \in 0 .. 8
    BY <1>1, <2>1
  <2>5. FrameTypes'
    BY <1>1, <1>2, <2>1, <2>2, <2>4 DEF Inv, FrameTypes, PoolOK
  <2>6. Chained'
    BY <1>1, <1>2, <2>1, <2>3, <2>4 DEF Inv, Chained
  <2> QED
    BY <1>4, <2>1, <2>2, <2>5, <2>6 DEF Inv
<1> QED
  BY <1>6, <1>7

(* The last two passes draw into a framebuffer nobody has. *)
LEMMA FrameFullSize ==
    ASSUME Inv, UpsampleFull \/ Finish
    PROVE  /\ Inv'
           /\ drawn'.dst \notin InUse
<1>1. /\ levels \in Seq(Textures) /\ Len(levels) \in Nat
      /\ \A k \in 1 .. Len(levels) : levels[k] \in Textures /\ levels[k] \in Levels
      /\ frame \in Frames /\ frame.passes \in 1 .. 8 /\ frame.size \in Sizes
  BY FrameAssumption, LevelSizes DEF Inv, FrameTypes, Levels
<1>2. PICK i \in Textures : /\ Acquire(frame.size, i)
                            /\ drawn' = [src |-> current_tex, dst |-> i] /\ current_tex' = i
                            /\ UpsampleFull => target' = i
                            /\ Finish => final' = i
  <2>1. CASE UpsampleFull
    <3>1. ~ Finish
      BY <2>1 DEF UpsampleFull, Finish
    <3> QED
      BY <2>1, <3>1 DEF UpsampleFull, Draw
  <2>2. CASE Finish
    <3>1. ~ UpsampleFull
      BY <2>2 DEF UpsampleFull, Finish
    <3> QED
      BY <2>2, <3>1 DEF Finish, Draw
  <2> QED
    BY <2>1, <2>2
<1>3. PoolOK' /\ i \notin InUse /\ InUse' = InUse \cup {i}
  BY <1>1, <1>2, Acquired DEF Inv, FrameTypes
<1>4. UNCHANGED <<exported, frame, levels, pass, before>> /\ pc \in Passing
  BY DEF UpsampleFull, Finish, Passing
<1>5. InUse = before \cup Taken /\ before \cap Taken = {} /\ exported \subseteq before
  BY <1>4 DEF Inv, Owned, Passing
<1>6. Levels' = Levels /\ 0 \notin Textures /\ Levels \subseteq Taken
  BY <1>4 DEF Levels, Textures, Taken
<1>7. CASE UpsampleFull
  <2>1. /\ pc = "upsample" /\ pc' = "finish" /\ target = None /\ final = None /\ UNCHANGED final
        /\ pass = 0 /\ Len(levels) = frame.passes /\ current_tex = levels[1]
    BY <1>7 DEF UpsampleFull, Inv, Chained
  <2>2. current_tex \in Textures /\ current_tex \in InUse
    BY <1>1, <1>5, <1>6, <2>1
  <2>3. Taken' = Taken \cup {i}
    BY <1>2, <1>6, <1>7, <2>1 DEF Taken, None
  <2>4. FrameTypes'
    BY <1>1, <1>2, <1>3, <1>4, <1>7, <2>1, <2>2 DEF Inv, FrameTypes
  <2>5. Owned'
    BY <1>3, <1>4, <1>5, <2>1, <2>3 DEF Inv, Owned, Passing, Exporting
  <2>6. Different'
    BY <1>2, <1>3, <1>4, <1>5, <1>6, <1>7, <2>1 DEF Inv, Different, Passing
  <2>7. Chained'
    BY <1>2, <1>3, <1>4, <1>6, <1>7, <2>1, <2>2 DEF Inv, Chained, None
  <2> QED
    BY <1>2, <1>3, <2>4, <2>5, <2>6, <2>7 DEF Inv
<1>8. CASE Finish
  <2>1. /\ pc = "finish" /\ pc' = "check" /\ final = None /\ UNCHANGED target
        /\ current_tex = target /\ target # None
    BY <1>8 DEF Finish, Inv, Chained
  <2>2. target \in Taken /\ target \in InUse /\ target \in Textures
    BY <1>5, <2>1 DEF Inv, FrameTypes, Taken
  <2>3. Taken' = Taken \cup {i}
    BY <1>2, <1>6, <1>8, <2>1 DEF Taken, None
  <2>4. FrameTypes'
    BY <1>1, <1>2, <1>3, <1>4, <1>8, <2>1, <2>2 DEF Inv, FrameTypes
  <2>5. Owned'
    BY <1>3, <1>4, <1>5, <2>1, <2>3 DEF Inv, Owned, Passing, Exporting
  <2>6. Different'
    BY <1>2, <1>3, <1>4, <1>5, <1>6, <1>8, <2>1, <2>2 DEF Inv, Different, Passing
  <2>7. Chained'
    BY <1>2, <1>3, <1>4, <1>6, <1>8, <2>1, <2>2 DEF Inv, Chained, None
  <2> QED
    BY <1>2, <1>3, <2>4, <2>5, <2>6, <2>7 DEF Inv
<1> QED
  BY <1>7, <1>8

(* A frame that is rendered gives back its levels and keeps its result. *)
LEMMA FrameRendered ==
    ASSUME Inv, Rendered
    PROVE  Inv'
<1>1. PoolOK' /\ InUse' = InUse \ Levels
  BY Released DEF Inv, FrameTypes, Rendered, ReleasedAtEnd
<1>2. UNCHANGED <<exported, passes>> /\ pc = "check" /\ pc' = "export"
  BY DEF Rendered
<1>3. FrameTypes'
  BY <1>1, <1>2 DEF Inv, FrameTypes, passes
<1>4. /\ InUse = before \cup Taken /\ before \cap Taken = {} /\ Taken \subseteq Levels \cup {target, final}
      /\ exported \subseteq before /\ Levels \subseteq Taken /\ final \in Taken \ Levels
  BY <1>2 DEF Inv, Owned, Different, Chained, Passing, Taken
<1>5. Owned'
  BY <1>1, <1>2, <1>4 DEF Owned, passes, Passing, Exporting
<1>6. Different' /\ Chained'
  BY <1>2 DEF Inv, Different, Chained, passes, Passing
<1> QED
  BY <1>3, <1>5, <1>6 DEF Inv

(* The export changes no framebuffer; it may give the result to a client. *)
LEMMA FrameExport ==
    ASSUME Inv, ExportImage \/ ExportPlanes \/ Export \/ ExportFails
    PROVE  Inv'
<1>1. UNCHANGED <<pool, passes>> /\ pc \in Exporting
  BY DEF ExportImage, ExportPlanes, Export, ExportFails, Fail, pools, Exporting
<1>2. InUse' = InUse /\ InUse \subseteq Textures /\ final \in InUse
  <2>1. InUse' = InUse /\ final \in InUse
    BY <1>1 DEF InUse, Inv, Owned
  <2> QED
    BY <2>1, InUseType DEF Inv, FrameTypes
<1>3. exported' \in {exported, exported \cup {final}} /\ pc' \in Exporting \cup {"idle"}
  BY DEF ExportImage, ExportPlanes, Export, ExportFails, Fail, pools, Exporting
<1>4. pc' # "idle" => exported' = exported
  BY DEF ExportImage, ExportPlanes, Export, ExportFails, Fail, pools
<1>5. FrameTypes'
  BY <1>1, <1>2, <1>3 DEF Inv, FrameTypes, PoolOK, passes
<1>6. Owned'
  BY <1>1, <1>2, <1>3, <1>4 DEF Inv, Owned, passes, Passing, Exporting
<1>7. Different' /\ Chained'
  BY <1>1, <1>3 DEF Inv, Different, Chained, passes, Passing, Exporting
<1> QED
  BY <1>5, <1>6, <1>7 DEF Inv

(* Every step keeps the invariant. *)
LEMMA FrameStep == Inv /\ [Next]_vars => Inv'
<1> SUFFICES ASSUME Inv, [Next]_vars PROVE Inv'
  OBVIOUS
<1>1. CASE UNCHANGED vars
  <2>1. UNCHANGED <<pools, passes, pc>>
    BY <1>1 DEF vars
  <2>2. FrameTypes'
    BY <2>1 DEF Inv, FrameTypes, PoolOK, pools, passes
  <2> QED
    BY <2>1, <2>2, FrameKept
<1>2. CASE Begin
  BY <1>2, FrameBegin
<1>3. CASE ImportImage \/ ImportTexture \/ ImportTextureFails
  BY <1>3, FrameImport
<1>4. CASE AcquireLevel
  BY <1>4, FrameAcquireLevel
<1>5. CASE AcquireLevelFails \/ UpsampleFails \/ FinishFails \/ ReportGlError
  BY <1>5, FrameFails
<1>6. CASE Downsample \/ Upsample
  BY <1>6, FrameDownUp
<1>7. CASE UpsampleFull \/ Finish
  BY <1>7, FrameFullSize
<1>8. CASE Rendered
  BY <1>8, FrameRendered
<1>9. CASE ExportImage \/ ExportPlanes \/ Export \/ ExportFails
  BY <1>9, FrameExport
<1> QED
  BY <1>1, <1>2, <1>3, <1>4, <1>5, <1>6, <1>7, <1>8, <1>9 DEF Next

-----------------------------------------------------------------------------

(* Whatever frames came before, and however many levels have one size, no pass
   reads the framebuffer it draws into (blur_kawase.c:250, 301, 345). *)
THEOREM NoFeedbackEver == Spec => []NoFeedback
<1>1. Inv => NoFeedback
  BY DEF Inv, Chained, NoFeedback
<1> QED
  BY <1>1, FrameInit, FrameStep, PTL DEF Spec

(* A frame that ends has given back its levels, and nothing of another frame
   (blur_kawase.c:252-258, 308-315, 349-356, 377-385). *)
THEOREM FramesAreBalanced == Spec => []FrameBalanced
<1>1. Inv => FrameBalanced
  BY DEF Inv, Owned, FrameBalanced
<1> QED
  BY <1>1, FrameInit, FrameStep, PTL DEF Spec

(* A texture that has been given to a client is never drawn into again, for as
   long as the pool lives (blur_context.c:114-128). *)
THEOREM OutputsStayIntact == Spec => OutputsIntact
<1>1. ASSUME Inv, Next PROVE drawn' # drawn => drawn'.dst \notin exported
  <2>1. CASE Downsample \/ Upsample
    <3>1. drawn'.dst \in Levels /\ pc \in Passing
      BY <1>1, <2>1, FrameDownUp DEF Downsample, Upsample, Passing
    <3>2. exported \subseteq before /\ before \cap Levels = {}
      BY <1>1, <3>1 DEF Inv, Owned, Taken, Passing
    <3> QED
      BY <3>1, <3>2
  <2>2. CASE UpsampleFull \/ Finish
    <3>1. drawn'.dst \notin InUse
      BY <1>1, <2>2, FrameFullSize
    <3> QED
      BY <1>1, <3>1 DEF Inv, Owned
  <2>3. CASE ~ (Downsample \/ Upsample \/ UpsampleFull \/ Finish)
    BY <1>1, <2>3 DEF Next, Begin, ImportImage, ImportTexture, ImportTextureFails, AcquireLevel, AcquireLevelFails,
       UpsampleFails, FinishFails, Fail, Rendered, ReportGlError, ExportImage, ExportPlanes, Export, ExportFails, passes
  <2> QED
    BY <2>1, <2>2, <2>3
<1>2. Inv /\ [Next]_vars => [drawn' # drawn => drawn'.dst \notin exported]_vars
  BY <1>1
<1> QED
  BY <1>2, FrameInit, FrameStep, PTL DEF Spec, OutputsIntact
-----------------------------------------------------------------------------
(* The types. *)

Stages == {"idle", "import", "bind", "acquire", "downsample", "upsample", "finish", "check", "export", "planes", "verify"}

(* What the other invariants do not say of the types. *)
StageTypes ==
    /\ pc \in Stages
    /\ planes \in 0 .. MaxPlanes
    /\ spoiled \subseteq {"downsample", "upsample", "finish", "use"}
    /\ result \in Failures \cup {"none", "ok"}

(* Before the first frame. *)
LEMMA StageTypesInit == Init => StageTypes
BY FrameAssumption DEF Init, StageTypes, Stages

(* A draw goes wrong only in one of the three loops that draw, or because of its
   program, and a frame ends with one of the errors the API names. *)
LEMMA StageTypesStep == StageTypes /\ [Next]_vars => StageTypes'
<1> SUFFICES ASSUME StageTypes, [Next]_vars PROVE StageTypes'
  OBVIOUS
<1> USE DEF StageTypes, Stages, Failures
<1>1. CASE Begin
  BY <1>1, FrameAssumption DEF Begin
<1>2. CASE ImportImage \/ ImportTexture \/ ImportTextureFails
  BY <1>2 DEF ImportImage, ImportTexture, ImportTextureFails, passes
<1>3. CASE AcquireLevel
  <2>1. planes' = planes /\ result' = result /\ pc' \in Stages
    BY <1>3 DEF AcquireLevel, buffers
  <2>2. spoiled' \in {spoiled, spoiled \cup {"use"}}
    BY <1>3 DEF AcquireLevel
  <2> QED
    BY <2>1, <2>2
<1>4. CASE AcquireLevelFails \/ UpsampleFails \/ FinishFails
  BY <1>4 DEF AcquireLevelFails, UpsampleFails, FinishFails, Fail, CannotAcquire, passes
<1>5. CASE Downsample \/ Upsample \/ UpsampleFull \/ Finish
  <2>1. planes' = planes /\ result' = result /\ pc' \in Stages
    BY <1>5 DEF Downsample, Upsample, UpsampleFull, Finish, buffers
  <2>2. pc \in {"downsample", "upsample", "finish"}
        /\ \E wrong \in SUBSET {pc, "use"} : spoiled' = spoiled \cup wrong
    BY <1>5 DEF Downsample, Upsample, UpsampleFull, Finish, Draw
  <2> QED
    BY <2>1, <2>2
<1>6. CASE Rendered \/ ReportGlError
  BY <1>6 DEF Rendered, ReportGlError, Fail, passes, buffers
<1>7. CASE ExportImage
  BY <1>7 DEF ExportImage, passes
<1>10. CASE ExportPlanes
  BY <1>10, FrameAssumption DEF ExportPlanes, passes
<1>11. CASE Export
  BY <1>11 DEF Export, passes
<1>8. CASE ExportFails
  BY <1>8, FrameAssumption DEF ExportFails, ClosePlanes, Fail, passes
<1>9. CASE UNCHANGED vars
  BY <1>9 DEF vars, passes, buffers
<1> QED
  BY <1>1, <1>2, <1>3, <1>4, <1>5, <1>6, <1>7, <1>8, <1>9, <1>10, <1>11 DEF Next

(* Whatever fails, the pool never outgrows its array (framebuffer.c:124-157),
   the pass counter never exceeds the eight levels fbos[] has room for
   (blur_kawase.c:241), and a frame leaves no more descriptors than planes the
   driver exports (dmabuf.c:219-226). *)
THEOREM FrameTypesAreKept == Spec => []TypeOK
<1>1. FrameTypes /\ FlagsInv /\ StageTypes => TypeOK
  BY DEF FrameTypes, PoolOK, Fbos, FlagsInv, StageTypes, Stages, TypeOK
<1>2. Inv => FrameTypes
  BY DEF Inv
<1> QED
  BY <1>1, <1>2, FrameInit, FrameStep, FlagsInit, FlagsStep, PlanesInit, PlanesStep, StageTypesInit, StageTypesStep,
     PTL DEF Spec

(* A frame leaves an error to the next one only if the pool, the import or the
   export has failed it, and one that counts as rendered has lost nothing but
   errors of its earlier passes and failures to take a program into use
   (framebuffer.c:49-55, shaders.c:266-272, blur_kawase.c:361, 383). *)
THEOREM ErrorsReported == Spec => []ErrorsAreReported
<1>1. FlagsInv /\ StageTypes => ErrorsAreReported
  BY DEF FlagsInv, StageTypes, ErrorsAreReported
<1> QED
  BY <1>1, FlagsInit, FlagsStep, PlanesInit, PlanesStep, StageTypesInit, StageTypesStep, PTL DEF Spec

=============================================================================
