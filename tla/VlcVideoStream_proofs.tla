------------------------ MODULE VlcVideoStream_proofs ------------------------
(***************************************************************************)
(* What holds of VlcVideoStream for any number of outputs and of calls,    *)
(* in every interleaving of the three threads and with every outcome of a  *)
(* copy of _renderFrame that races with its assignment.                    *)
(***************************************************************************)
EXTENDS VlcVideoStream, FiniteSetTheorems, FunctionTheorems, TLAPS

\* The frame VLC writes into is its own: no one else points to it, those
\* aside who copied _renderFrame while it was assigned.
Mine ==
  vlc = "locked" =>
    /\ renderFrame # frames[picture]
    /\ ~ copying.raced => ~ Writes(copying)
    /\ NotOverwritten

\* Whoever copied without a race counts the frame it points to.
Sound(shared) == ~ shared.raced => shared.cnt = shared.ptr

AllSound ==
  /\ gui = "idle" => copying = Null
  /\ gui = "reading" /\ ~ copying.raced => copying.ptr = renderFrame
  /\ Sound(copying) /\ \A o \in Outputs : Sound(frame[o]) /\ Sound(node[o])

\* There is no pool without a format.
NoPool == vlc = "closed" => frames = <<>>

Inv == TypeOK /\ LockedIsPicture /\ Mine /\ AllSound /\ NoPool /\ PoolBounded

-----------------------------------------------------------------------------
(***************************************************************************)
(* The pool.                                                               *)
(***************************************************************************)

\* What Append does to a pool.
LEMMA Appended ==
  ASSUME NEW s \in Seq(Frames), NEW f \in Frames, NEW t, t = Append(s, f)
  PROVE  /\ t \in Seq(Frames) /\ Len(t) = Len(s) + 1 /\ DOMAIN t = 1 .. Len(s) + 1
         /\ \A k \in DOMAIN s : k \in DOMAIN t /\ t[k] = s[k]
         /\ t[Len(s) + 1] = f
         /\ Len(s) \in Nat /\ DOMAIN s = 1 .. Len(s)
  OBVIOUS

\* The values of a function on the outputs are no more than the outputs.
LEMMA ValuesBounded ==
  ASSUME NEW g \in [Outputs -> MaybeFrame]
  PROVE  /\ IsFiniteSet(Range(g))
         /\ Cardinality(Range(g)) \in Nat /\ Cardinality(Outputs) \in Nat
         /\ Cardinality(Range(g)) <= Cardinality(Outputs)
<1>1. g \in Surjection(Outputs, Range(g))
  BY Fun_RangeProperties
<1>2. IsFiniteSet(Range(g)) /\ Cardinality(Range(g)) <= Cardinality(Outputs)
  BY <1>1, OutputsAssumption, FS_Surjection
<1> QED
  BY <1>2, OutputsAssumption, FS_CardinalityType

\* The union of two finite sets has no more elements than both together.
LEMMA UnionBounded ==
  ASSUME NEW S, IsFiniteSet(S), NEW T, IsFiniteSet(T)
  PROVE  /\ IsFiniteSet(S \cup T)
         /\ Cardinality(S \cup T) \in Nat /\ Cardinality(S) \in Nat /\ Cardinality(T) \in Nat
         /\ Cardinality(S \cup T) <= Cardinality(S) + Cardinality(T)
<1>1. IsFiniteSet(S \cup T)
        /\ Cardinality(S \cup T) = Cardinality(S) + Cardinality(T) - Cardinality(S \cap T)
  BY FS_Union
<1>2. IsFiniteSet(S \cap T)
  <2>1. S \cap T \in SUBSET S
    OBVIOUS
  <2> QED
    BY <2>1, FS_Subset
<1>3. Cardinality(S \cap T) \in Nat /\ Cardinality(S) \in Nat /\ Cardinality(T) \in Nat
        /\ Cardinality(S \cup T) \in Nat
  BY <1>1, <1>2, FS_CardinalityType
<1> QED
  BY <1>1, <1>3

\* A pool all of whose frames are busy, while none is locked, is small.
LEMMA BusyPoolSmall ==
  ASSUME TypeOK, LockedIsPicture, vlc = "open", \A k \in DOMAIN frames : Busy(frames[k])
  PROVE  Len(frames) <= 2 + 2 * Cardinality(Outputs) /\ Cardinality(Outputs) \in Nat
<1> DEFINE two == {renderFrame} \cup {copying.cnt}
           counted == [o \in Outputs |-> frame[o].cnt]
           uploaded == [o \in Outputs |-> node[o].cnt]
           shown == Range(counted) \cup Range(uploaded)
           all == two \cup shown
<1>1. counted \in [Outputs -> MaybeFrame] /\ uploaded \in [Outputs -> MaybeFrame] /\ frames \in Seq(Frames)
  BY DEF TypeOK, SharedPtr
<1>2. IsFiniteSet(two) /\ Cardinality(two) \in Nat /\ Cardinality(two) <= 2
  <2>1. /\ IsFiniteSet({renderFrame}) /\ Cardinality({renderFrame}) = 1
        /\ IsFiniteSet({copying.cnt}) /\ Cardinality({copying.cnt}) = 1
    BY FS_Singleton
  <2>2. /\ IsFiniteSet({renderFrame} \cup {copying.cnt})
        /\ Cardinality({renderFrame} \cup {copying.cnt}) \in Nat
        /\ Cardinality({renderFrame} \cup {copying.cnt})
             <= Cardinality({renderFrame}) + Cardinality({copying.cnt})
    BY <2>1, UnionBounded
  <2> QED
    BY <2>1, <2>2
<1>3. IsFiniteSet(shown) /\ Cardinality(shown) \in Nat /\ Cardinality(Outputs) \in Nat
        /\ Cardinality(shown) <= 2 * Cardinality(Outputs)
  <2>1. /\ IsFiniteSet(Range(counted)) /\ Cardinality(Range(counted)) <= Cardinality(Outputs)
        /\ IsFiniteSet(Range(uploaded)) /\ Cardinality(Range(uploaded)) <= Cardinality(Outputs)
        /\ Cardinality(Outputs) \in Nat
    <3> HIDE DEF counted, uploaded
    <3> QED
      BY <1>1, ValuesBounded
  <2>2. /\ IsFiniteSet(shown)
        /\ Cardinality(shown) \in Nat /\ Cardinality(Range(counted)) \in Nat
        /\ Cardinality(Range(uploaded)) \in Nat
        /\ Cardinality(shown) <= Cardinality(Range(counted)) + Cardinality(Range(uploaded))
    <3> HIDE DEF counted, uploaded
    <3> QED
      BY <2>1, UnionBounded
  <2> QED
    BY <2>1, <2>2
<1>4. IsFiniteSet(all) /\ Cardinality(all) \in Nat
        /\ Cardinality(all) <= Cardinality(two) + Cardinality(shown)
  <2> HIDE DEF two, shown, counted, uploaded
  <2> QED
    BY <1>2, <1>3, UnionBounded
<1>5. lockedFrames = {}
  BY DEF LockedIsPicture
<1>6. \A k \in DOMAIN frames : frames[k] \in all
  <2> SUFFICES ASSUME NEW k \in DOMAIN frames
               PROVE  frames[k] \in all
    OBVIOUS
  <2>1. frames[k] \in Held
    BY DEF Busy
  <2>2. DOMAIN counted = Outputs /\ DOMAIN uploaded = Outputs
    OBVIOUS
  <2>3. \/ frames[k] \in two
        \/ \E o \in Outputs : frames[k] = counted[o]
        \/ \E o \in Outputs : frames[k] = uploaded[o]
    BY <2>1, <1>5 DEF Held
  <2> HIDE DEF counted, uploaded, two
  <2> QED
    BY <2>2, <2>3 DEF Range
<1>7. DOMAIN frames = 1 .. Len(frames) /\ Len(frames) \in Nat
  BY <1>1
<1>8. frames \in Injection(1 .. Len(frames), all)
  <2> HIDE DEF all
  <2>1. frames = [k \in 1 .. Len(frames) |-> frames[k]]
    BY <1>1
  <2>2. frames \in [1 .. Len(frames) -> all]
    BY <2>1, <1>6, <1>7
  <2>3. \A a, b \in 1 .. Len(frames) : frames[a] = frames[b] => a = b
    BY <1>7 DEF LockedIsPicture
  <2> QED
    BY <2>2, <2>3, Fun_IsInj
<1>9. Cardinality(1 .. Len(frames)) = Len(frames) /\ Cardinality(1 .. Len(frames)) <= Cardinality(all)
  <2> HIDE DEF all
  <2>1. Cardinality(1 .. Len(frames)) <= Cardinality(all)
    BY <1>4, <1>8, FS_Injection
  <2>2. Cardinality(1 .. Len(frames)) = IF 1 > Len(frames) THEN 0 ELSE Len(frames) - 1 + 1
    BY <1>7, FS_Interval
  <2> QED
    BY <2>1, <2>2, <1>7
<1> HIDE DEF two, counted, uploaded, shown, all
<1> QED
  BY <1>2, <1>3, <1>4, <1>7, <1>9

-----------------------------------------------------------------------------
(***************************************************************************)
(* The invariant.                                                          *)
(***************************************************************************)

LEMMA InitInv == Init => Inv
<1> SUFFICES ASSUME Init PROVE Inv
  OBVIOUS
<1>1. <<>> \in Seq(Frames) /\ Len(<<>>) = 0 /\ DOMAIN <<>> = {}
  OBVIOUS
<1>2. TypeOK
  BY <1>1 DEF Init, TypeOK, MaybeFrame, SharedPtr, Null
<1>3. LockedIsPicture /\ Mine /\ AllSound /\ NoPool
  BY <1>1 DEF Init, LockedIsPicture, Mine, AllSound, Sound, Null, NoPool
<1>4. PoolBounded
  <2>1. Cardinality(Outputs) \in Nat
    BY OutputsAssumption, FS_CardinalityType
  <2> QED
    BY <1>1, <2>1 DEF Init, PoolBounded
<1> QED
  BY <1>2, <1>3, <1>4 DEF Inv

LEMMA FormatInv ==
  ASSUME Inv, FormatCallback
  PROVE  Inv'
<1>1. PICK f \in Frames \ (Pool \cup Held) : frames' = Append(frames, f)
  BY DEF FormatCallback, Allocate
<1>2. frames = <<>> /\ frames \in Seq(Frames)
  BY DEF FormatCallback, Inv, NoPool, TypeOK
<1>3. frames' \in Seq(Frames) /\ Len(frames') = 1 /\ DOMAIN frames' = 1 .. 1
  BY <1>1, <1>2
<1>4. TypeOK'
  BY <1>3 DEF FormatCallback, Inv, TypeOK, present, screen
<1>5. LockedIsPicture' /\ Mine' /\ AllSound' /\ NoPool'
  BY <1>3 DEF FormatCallback, Inv, LockedIsPicture, Mine, AllSound, Sound, NoPool, present, screen
<1>6. PoolBounded'
  <2>1. Cardinality(Outputs) \in Nat
    BY OutputsAssumption, FS_CardinalityType
  <2> QED
    BY <1>3, <2>1 DEF PoolBounded
<1> QED
  BY <1>4, <1>5, <1>6 DEF Inv

\* Assigning _renderFrame makes a copy that is under way a raced one.
LEMMA AssignSound ==
  ASSUME Inv, NEW f \in MaybeFrame, AssignRenderFrame(f), UNCHANGED screen
  PROVE  AllSound' /\ copying' \in SharedPtr /\ gui' = gui
<1>1. gui' = gui /\ AllSound /\ copying \in SharedPtr
  BY DEF AssignRenderFrame, Inv, TypeOK
<1>2. CASE gui = "reading"
  <2>1. PICK p \in {copying.ptr, f}, c \in {copying.cnt, f} :
          copying' = [ptr |-> p, cnt |-> c, raced |-> TRUE]
    BY <1>2 DEF AssignRenderFrame
  <2>2. copying'.raced /\ copying' \in SharedPtr
    BY <2>1, <1>1 DEF SharedPtr
  <2> QED
    BY <1>1, <1>2, <2>2 DEF AllSound, Sound, screen
<1>3. CASE gui # "reading"
  <2>1. copying' = copying
    BY <1>3 DEF AssignRenderFrame
  <2> QED
    BY <1>1, <1>3, <2>1 DEF AllSound, Sound, screen
<1> QED
  BY <1>2, <1>3

LEMMA CleanUpInv ==
  ASSUME Inv, FormatCleanUpCallback
  PROVE  Inv'
<1>1. /\ frames' = <<>> /\ frames' \in Seq(Frames) /\ Len(frames') = 0 /\ DOMAIN frames' = {}
      /\ renderFrame' = None /\ vlc' = "closed"
  BY DEF FormatCleanUpCallback, AssignRenderFrame
<1>2. AllSound' /\ copying' \in SharedPtr /\ gui' = gui
  BY AssignSound DEF FormatCleanUpCallback, MaybeFrame
<1>3. TypeOK'
  BY <1>1, <1>2 DEF FormatCleanUpCallback, PostFrameUpdated, Inv, TypeOK, MaybeFrame, screen
<1>4. LockedIsPicture' /\ Mine' /\ NoPool'
  BY <1>1 DEF FormatCleanUpCallback, LockedIsPicture, Mine, NoPool
<1>5. PoolBounded'
  <2>1. Cardinality(Outputs) \in Nat
    BY OutputsAssumption, FS_CardinalityType
  <2> QED
    BY <1>1, <2>1 DEF PoolBounded
<1> QED
  BY <1>2, <1>3, <1>4, <1>5 DEF Inv

\* The frame that lockCallback() chooses, or makes, is no one else's.
LEMMA LockInv ==
  ASSUME Inv, LockCallback
  PROVE  Inv'
<1> DEFINE f == frames'[picture']
<1>1. /\ vlc = "open" /\ vlc' = "locked" /\ lockedFrames = {} /\ lockedFrames' = {f}
      /\ UNCHANGED <<renderFrame, events, gui, copying, attached, late, frame, updated, node>>
      /\ frames \in Seq(Frames) /\ TypeOK /\ LockedIsPicture
  <2>1. vlc = "open" /\ vlc' = "locked" /\ TypeOK /\ LockedIsPicture
    BY DEF LockCallback, Inv
  <2>2. lockedFrames = {}
    BY <2>1 DEF LockedIsPicture
  <2>3. lockedFrames' = {f}
    BY <2>2 DEF LockCallback
  <2>4. UNCHANGED <<renderFrame, events, gui, copying, attached, late, frame, updated, node>>
    BY DEF LockCallback, present, screen
  <2> QED
    BY <2>1, <2>2, <2>3, <2>4 DEF TypeOK
<1>2. /\ frames' \in Seq(Frames) /\ picture' \in Nat /\ picture' \in DOMAIN frames'
      /\ f \in Frames \ Held
      /\ \A k, l \in DOMAIN frames' : frames'[k] = frames'[l] => k = l
      /\ PoolBounded'
  <2>1. CASE \A k \in DOMAIN frames : Busy(frames[k])
    <3>1. PICK g \in Frames \ (Pool \cup Held) : frames' = Append(frames, g)
      BY <2>1 DEF LockCallback, Allocate
    <3>2. picture' = Len(frames) + 1
      BY <2>1 DEF LockCallback
    <3>3. /\ frames' \in Seq(Frames) /\ Len(frames') = Len(frames) + 1
          /\ DOMAIN frames' = 1 .. Len(frames) + 1
          /\ \A k \in DOMAIN frames : k \in DOMAIN frames' /\ frames'[k] = frames[k]
          /\ frames'[Len(frames) + 1] = g
          /\ Len(frames) \in Nat /\ DOMAIN frames = 1 .. Len(frames)
      BY <1>1, <3>1, Appended
    <3>4. \A k \in DOMAIN frames : frames[k] # g
      BY <3>1 DEF Pool
    <3>5. \A k, l \in DOMAIN frames' : frames'[k] = frames'[l] => k = l
      <4> SUFFICES ASSUME NEW k \in DOMAIN frames', NEW l \in DOMAIN frames',
                          frames'[k] = frames'[l]
                   PROVE  k = l
        OBVIOUS
      <4>1. /\ k \in DOMAIN frames \/ k = Len(frames) + 1
            /\ l \in DOMAIN frames \/ l = Len(frames) + 1
        BY <3>3
      <4> QED
        BY <4>1, <3>3, <3>4, <1>1 DEF LockedIsPicture
    <3>6. PoolBounded'
      <4>1. Len(frames) <= 2 + 2 * Cardinality(Outputs) /\ Cardinality(Outputs) \in Nat
        BY <1>1, <2>1, BusyPoolSmall
      <4> QED
        BY <3>3, <4>1 DEF PoolBounded
    <3> QED
      BY <3>1, <3>2, <3>3, <3>5, <3>6
  <2>2. CASE ~ \A k \in DOMAIN frames : Busy(frames[k])
    <3>1. picture' \in DOMAIN frames /\ ~ Busy(frames[picture']) /\ frames' = frames
      BY <2>2 DEF LockCallback
    <3>2. PoolBounded'
      BY <3>1 DEF Inv, PoolBounded
    <3>3. picture' \in Nat /\ frames[picture'] \in Frames
      BY <1>1, <3>1
    <3> QED
      BY <1>1, <3>1, <3>2, <3>3 DEF Busy, LockedIsPicture
  <2> QED
    BY <2>1, <2>2
<1>3. /\ renderFrame # f
      /\ ~ copying.raced => copying.ptr # f
      /\ \A o \in Outputs : /\ ~ frame[o].raced => frame[o].ptr # f
                            /\ ~ node[o].raced => node[o].ptr # f
  <2>1. f # None /\ f \notin Held
    BY <1>2, NoneAssumption
  <2>2. AllSound /\ gui \in {"idle", "reading", "holding"}
    BY DEF Inv, TypeOK
  <2>3. renderFrame # f /\ \A o \in Outputs : frame[o].cnt # f /\ node[o].cnt # f
    BY <2>1 DEF Held
  <2>4. ASSUME ~ copying.raced PROVE copying.ptr # f
    <3>1. CASE gui = "idle"
      BY <3>1, <2>1, <2>2 DEF AllSound, Null
    <3>2. CASE gui = "reading"
      BY <3>2, <2>2, <2>3, <2>4 DEF AllSound
    <3>3. CASE gui = "holding"
      <4>1. copying.cnt # f
        BY <3>3, <2>1 DEF Held
      <4> QED
        BY <4>1, <2>2, <2>4 DEF AllSound, Sound
    <3> QED
      BY <2>2, <3>1, <3>2, <3>3
  <2> QED
    BY <2>2, <2>3, <2>4 DEF AllSound, Sound
<1>4. TypeOK'
  BY <1>1, <1>2 DEF TypeOK
<1>5. LockedIsPicture'
  BY <1>1, <1>2 DEF LockedIsPicture
<1>6. Mine' /\ AllSound' /\ NoPool'
  <2>1. AllSound'
    BY <1>1 DEF Inv, AllSound, Sound
  <2> QED
    BY <1>1, <1>3, <2>1 DEF Mine, NotOverwritten, Writes, NoPool
<1> QED
  BY <1>2, <1>4, <1>5, <1>6 DEF Inv

\* The other calls of VLC leave the pool as it is.
LEMMA DecoderInv ==
  ASSUME Inv, UnlockCallback \/ DisplayCallback \/ DropPicture
  PROVE  Inv'
<1>1. /\ frames' = frames /\ vlc' \in {"unlocked", "open"} /\ vlc \in {"locked", "unlocked"}
      /\ UNCHANGED screen /\ picture' \in {picture, 0} /\ (vlc' = "unlocked" => picture' = picture)
  BY DEF UnlockCallback, DisplayCallback, DropPicture, pool
<1>2. picture \in DOMAIN frames /\ frames[picture] \in Frames
  BY <1>1 DEF Inv, TypeOK
<1>3. lockedFrames' = {}
  BY DEF UnlockCallback, DisplayCallback, DropPicture, pool, Unlocked, Inv, LockedIsPicture
<1>4. AllSound' /\ copying' \in SharedPtr /\ gui' = gui /\ renderFrame' \in MaybeFrame /\ events' \in Nat
  <2>1. CASE DisplayCallback
    <3>1. AssignRenderFrame(frames[picture]) /\ frames[picture] \in MaybeFrame
      BY <1>2, <2>1 DEF DisplayCallback, MaybeFrame
    <3>2. renderFrame' = frames[picture] /\ events' \in Nat
      BY <2>1, <3>1 DEF DisplayCallback, PostFrameUpdated, AssignRenderFrame, Inv, TypeOK
    <3> QED
      BY <1>1, <3>1, <3>2, AssignSound
  <2>2. CASE UnlockCallback \/ DropPicture
    BY <1>1, <2>2 DEF UnlockCallback, DropPicture, pool, present, screen, Inv, TypeOK, AllSound, Sound
  <2> QED
    BY <2>1, <2>2
<1>5. TypeOK'
  BY <1>1, <1>2, <1>3, <1>4 DEF screen, Inv, TypeOK
<1>6. LockedIsPicture' /\ Mine' /\ NoPool' /\ PoolBounded'
  BY <1>1, <1>3 DEF Inv, LockedIsPicture, Mine, NoPool, PoolBounded
<1> QED
  BY <1>4, <1>5, <1>6 DEF Inv

\* The GUI thread and the render thread pass frames on, but never VLC's.
LEMMA ScreenInv ==
  ASSUME Inv,
         \/ GuiThread
         \/ \E o \in Outputs : RegisterVideoOutput(o) \/ DeregisterVideoOutput(o)
         \/ \E o \in Outputs : UpdatePaintNode(o) \/ BindPlanes(o)
  PROVE  Inv'
<1>1. UNCHANGED <<frames, lockedFrames, renderFrame, vlc, picture>>
  BY DEF GuiThread, FrameUpdated, CountFrame, PresentFrame, RegisterVideoOutput,
         DeregisterVideoOutput, UpdatePaintNode, BindPlanes, pool, decoder
<1>2. /\ TypeOK /\ AllSound /\ Null \in SharedPtr /\ Sound(Null) /\ ~ Writes(Null)
      /\ copying \in SharedPtr
  <2>1. vlc = "locked" => None # frames[picture]
    BY NoneAssumption DEF Inv, TypeOK
  <2> QED
    BY <2>1 DEF Inv, TypeOK, Null, SharedPtr, MaybeFrame, Sound, Writes
<1>3. LockedIsPicture' /\ NoPool' /\ PoolBounded'
  BY <1>1 DEF Inv, LockedIsPicture, NoPool, PoolBounded
<1>4. \A shared : Writes(shared)' <=> Writes(shared)
  BY <1>1 DEF Writes
<1>5. /\ vlc = "locked" => renderFrame # frames[picture]
      /\ ~ copying.raced => ~ Writes(copying)
      /\ \A o \in Outputs : /\ ~ frame[o].raced => ~ Writes(frame[o])
                            /\ ~ node[o].raced => ~ Writes(node[o])
  BY DEF Inv, Mine, NotOverwritten, Writes
<1>6. CASE FrameUpdated
  <2>1. UNCHANGED screen /\ events' \in Nat
    BY <1>6 DEF FrameUpdated, Inv, TypeOK
  <2>2. CASE renderFrame = None
    BY <1>1, <1>2, <1>3, <1>6, <2>1, <2>2
    DEF FrameUpdated, present, screen, Inv, TypeOK, Mine, NotOverwritten, Writes, AllSound, Sound
  <2>3. CASE renderFrame # None
    <3>1. gui' = "reading" /\ copying' = [ptr |-> renderFrame, cnt |-> renderFrame, raced |-> FALSE]
      BY <1>6, <2>3 DEF FrameUpdated
    <3>2. TypeOK'
      BY <1>1, <2>1, <3>1 DEF screen, Inv, TypeOK, SharedPtr
    <3>3. AllSound'
      BY <1>1, <1>2, <2>1, <3>1 DEF screen, AllSound, Sound
    <3>4. Mine'
      BY <1>1, <1>5, <2>1, <3>1 DEF screen, Mine, NotOverwritten, Writes
    <3> QED
      BY <1>3, <3>2, <3>3, <3>4 DEF Inv
  <2> QED
    BY <2>2, <2>3
<1>7. CASE CountFrame
  <2>1. /\ UNCHANGED <<events, attached, late, frame, updated, node>>
        /\ gui = "reading"
        /\ \/ gui' = "idle" /\ copying' = Null
           \/ gui' = "holding" /\ copying' = copying
    BY <1>7 DEF CountFrame, screen
  <2>2. TypeOK'
    BY <1>1, <1>2, <2>1 DEF TypeOK
  <2>3. AllSound'
    BY <1>1, <1>2, <2>1 DEF AllSound, Sound
  <2>4. Mine'
    <3>1. ~ copying'.raced => ~ Writes(copying')
      BY <1>2, <1>5, <2>1
    <3> QED
      BY <1>1, <1>5, <2>1, <3>1 DEF Mine, NotOverwritten, Writes
  <2> QED
    BY <1>3, <2>2, <2>3, <2>4 DEF Inv
<1>8. CASE PresentFrame
  <2>1. /\ UNCHANGED <<events, attached, node>> /\ gui' = "idle" /\ copying' = Null /\ late' = {}
        /\ frame' = [o \in Outputs |-> IF Receives(o) THEN copying ELSE frame[o]]
        /\ updated' = [o \in Outputs |-> updated[o] \/ Receives(o)]
    BY <1>8 DEF PresentFrame
  <2>2. TypeOK'
    BY <1>1, <1>2, <2>1 DEF TypeOK, Receives
  <2>3. AllSound'
    BY <1>1, <1>2, <2>1 DEF AllSound, Sound
  <2>4. Mine'
    <3>1. ~ copying'.raced => ~ Writes(copying')
      BY <1>2, <2>1
    <3>2. \A o \in Outputs : ~ frame'[o].raced => ~ Writes(frame'[o])
      BY <1>5, <2>1
    <3> QED
      BY <1>1, <1>5, <2>1, <3>1, <3>2 DEF Mine, NotOverwritten, Writes
  <2> QED
    BY <1>3, <2>2, <2>3, <2>4 DEF Inv
<1>9. CASE \E o \in Outputs : RegisterVideoOutput(o) \/ DeregisterVideoOutput(o)
  <2>1. /\ UNCHANGED <<events, gui, copying, frame, updated, node>>
        /\ attached' \subseteq Outputs /\ late' \subseteq Outputs
    BY <1>9 DEF RegisterVideoOutput, DeregisterVideoOutput, present, Inv, TypeOK
  <2>2. TypeOK' /\ AllSound' /\ Mine'
    BY <1>1, <1>2, <1>5, <2>1 DEF TypeOK, AllSound, Sound, Mine, NotOverwritten, Writes
  <2> QED
    BY <1>3, <2>2 DEF Inv
<1>10. CASE \E o \in Outputs : UpdatePaintNode(o) \/ BindPlanes(o)
  <2>1. PICK o \in Outputs : UpdatePaintNode(o) \/ BindPlanes(o)
    BY <1>10
  <2>2. PICK shared \in {frame[o], Null} :
          /\ node' = [node EXCEPT ![o] = shared]
          /\ UNCHANGED <<events, gui, copying, attached, late, frame>>
    BY <2>1 DEF UpdatePaintNode, BindPlanes, present
  <2>3. updated' \in [Outputs -> BOOLEAN] /\ node \in [Outputs -> SharedPtr] /\ frame \in [Outputs -> SharedPtr]
    BY <2>1, <1>2 DEF UpdatePaintNode, BindPlanes, TypeOK
  <2>4. /\ shared \in SharedPtr /\ Sound(shared)
        /\ ~ shared.raced => ~ Writes(shared)
    BY <1>2, <1>5, <2>3 DEF AllSound
  <2>5. \A q \in Outputs : node'[q] = IF q = o THEN shared ELSE node[q]
    BY <2>2, <2>3
  <2>6. TypeOK'
    BY <1>1, <1>2, <2>2, <2>3, <2>4 DEF TypeOK
  <2>7. AllSound'
    BY <1>1, <1>2, <2>2, <2>4, <2>5 DEF AllSound, Sound
  <2>8. Mine'
    <3>1. \A q \in Outputs : ~ node'[q].raced => ~ Writes(node'[q])
      BY <1>5, <2>4, <2>5
    <3> QED
      BY <1>1, <1>5, <2>2, <3>1 DEF Mine, NotOverwritten, Writes
  <2> QED
    BY <1>3, <2>6, <2>7, <2>8 DEF Inv
<1> QED
  BY <1>6, <1>7, <1>8, <1>9, <1>10 DEF GuiThread

LEMMA NextInv ==
  ASSUME Inv, [Next]_vars
  PROVE  Inv'
<1>1. CASE Next
  BY <1>1, FormatInv, CleanUpInv, LockInv, DecoderInv, ScreenInv DEF Next, VlcCalls
<1>2. CASE UNCHANGED vars
  BY <1>2 DEF vars, Inv, TypeOK, LockedIsPicture, Mine, NotOverwritten, Writes, AllSound, Sound,
              NoPool, PoolBounded
<1> QED
  BY <1>1, <1>2

THEOREM Invariance == Spec => []Inv
<1>1. Inv /\ [Next]_vars => Inv'
  BY NextInv
<1> QED
  BY InitInv, <1>1, PTL DEF Spec

\* Type correctness: the picture VLC names is always one of the pool.
THEOREM TypeCorrect == Spec => []TypeOK
  BY Invariance, PTL DEF Inv

\* VLC never writes into a frame that is shown or uploaded, unless the GUI
\* thread copied _renderFrame while VLC's thread assigned it.
THEOREM NeverOverwritten == Spec => []NotOverwritten
<1>1. Inv => NotOverwritten
  BY DEF Inv, Mine, NotOverwritten, Writes
<1> QED
  BY Invariance, <1>1, PTL

\* At most one frame is locked, and it is the one VLC has in hand.
THEOREM AlwaysLockedIsPicture == Spec => []LockedIsPicture
  BY Invariance, PTL DEF Inv

\* However many pictures are decoded, the pool does not outgrow the frames
\* that the threads can hold, whatever frames racing copies count.
THEOREM PoolStaysBounded == Spec => []PoolBounded
  BY Invariance, PTL DEF Inv

-----------------------------------------------------------------------------
(***************************************************************************)
(* The way to the outputs.                                                 *)
(***************************************************************************)

\* The last frame is still announced, or is being given out, or has arrived.
Underway ==
  /\ events \in Nat /\ attached \subseteq Outputs
  /\ events = 0 /\ renderFrame # None =>
       \/ gui # "idle" /\ copying.ptr = renderFrame
       \/ gui = "idle" /\ \A o \in attached \ late : frame[o].ptr = renderFrame

LEMMA UnderwayKept ==
  ASSUME Underway, [Next]_vars
  PROVE  Underway'
<1>1. CASE VlcCalls
  <2>1. CASE FormatCallback \/ LockCallback \/ UnlockCallback \/ DropPicture
    BY <2>1 DEF FormatCallback, LockCallback, UnlockCallback, DropPicture, Underway, present, screen, pool
  <2>2. CASE FormatCleanUpCallback
    BY <2>2 DEF FormatCleanUpCallback, PostFrameUpdated, Underway, screen
  <2>3. CASE DisplayCallback
    BY <2>3 DEF DisplayCallback, PostFrameUpdated, Underway, screen
  <2> QED
    BY <1>1, <2>1, <2>2, <2>3 DEF VlcCalls
<1>2. CASE FrameUpdated
  BY <1>2 DEF FrameUpdated, Underway, pool, present, screen
<1>3. CASE CountFrame \/ PresentFrame
  BY <1>3 DEF CountFrame, PresentFrame, Receives, Underway, pool, screen
<1>4. CASE \E o \in Outputs : RegisterVideoOutput(o) \/ DeregisterVideoOutput(o)
  BY <1>4 DEF RegisterVideoOutput, DeregisterVideoOutput, Underway, pool, present
<1>5. CASE \E o \in Outputs : UpdatePaintNode(o) \/ BindPlanes(o)
  BY <1>5 DEF UpdatePaintNode, BindPlanes, Underway, pool, present
<1>6. CASE UNCHANGED vars
  BY <1>6 DEF vars, Underway
<1> QED
  BY <1>1, <1>2, <1>3, <1>4, <1>5, <1>6 DEF Next, GuiThread

\* The frame displayed last reaches every output that was registered by then,
\* whatever races of copies there were.
THEOREM FramesArrive == Spec => []FrameReachesOutputs
<1>1. Init => Underway
  BY DEF Init, Underway
<1>2. Underway /\ [Next]_vars => Underway'
  BY UnderwayKept
<1>3. Underway => FrameReachesOutputs
  BY DEF Underway, FrameReachesOutputs
<1> QED
  BY <1>1, <1>2, <1>3, PTL DEF Spec
=============================================================================
