--------------------------- MODULE VlcVideoStream ---------------------------
(***************************************************************************)
(* The way of a picture from VLC's video output thread to the screen:      *)
(* VlcVideoStream (src/vlcqt/core/VideoStream.cpp), VlcQmlVideoStream      *)
(* (src/vlcqt/qml/rendering/QmlVideoStream.cpp), VlcQmlVideoOutput and its *)
(* VideoNode and VideoMaterial.                                            *)
(*                                                                         *)
(* Three threads and no mutex.  VLC's calls format, then lock, unlock and  *)
(* display for one picture after the other, and clean up at the end.  The  *)
(* GUI thread runs frameUpdated(), which display and clean up post to it.  *)
(* The render thread takes the frame of an output while the GUI thread is  *)
(* stopped, and uploads it while the GUI thread goes on.                   *)
(*                                                                         *)
(* A frame is named by its address.  It lives as long as a shared_ptr      *)
(* counts it, and is free for VLC when only the pool's does.               *)
(*                                                                         *)
(* The GUI thread copies _renderFrame while VLC's thread may assign it.    *)
(* Copying a shared_ptr is not one step: it reads the pointer, reads which *)
(* counter goes with it, and counts.  When VLC assigns _renderFrame        *)
(* meanwhile, each of the two may be read before or after, so that the     *)
(* copy may count another frame than it points to, or count too late.      *)
(***************************************************************************)
EXTENDS Integers, Sequences, FiniteSets

CONSTANTS Frames,       \* addresses of VlcYUVVideoFrame objects
          Outputs,      \* VlcQmlVideoOutput items
          None,         \* the null pointer
          MaxEvents     \* bound on the frameUpdated() calls that wait

ASSUME NoneAssumption == None \notin Frames
ASSUME OutputsAssumption == IsFiniteSet(Outputs)
ASSUME BoundsAssumption == MaxEvents \in Nat

VARIABLES frames,       \* _frames, the pool
          lockedFrames, \* _lockedFrames: frames never occur twice in it
          renderFrame,  \* _renderFrame
          events,       \* how many calls of frameUpdated are posted
          gui,          \* where frameUpdated() is, "idle" when it does not run
          copying,      \* frameUpdated(): what it gets from renderFrame()
          attached,     \* _attachedOutputs
          late,         \* history: outputs registered since frames were last given out
          frame,        \* VlcQmlVideoOutput::_frame
          updated,      \* VlcQmlVideoOutput::_frameUpdated
          node,         \* VideoMaterial::_frame, or what bindPlanes() swapped out
          vlc,          \* what VLC's thread is about to do
          picture       \* the void * that lockCallback() returned, as an index, 0 when over

vars == <<frames, lockedFrames, renderFrame, events, gui, copying, attached, late, frame,
          updated, node, vlc, picture>>
pool == <<frames, lockedFrames, renderFrame>>
screen == <<attached, late, frame, updated, node>>
decoder == <<vlc, picture>>
present == <<gui, copying>>

(***************************************************************************)
(* A shared_ptr as the other threads hold it: the frame it points to, the  *)
(* frame whose counter it has, and, a history, whether _renderFrame was    *)
(* assigned while it was being copied.                                     *)
(***************************************************************************)
Null == [ptr |-> None, cnt |-> None, raced |-> FALSE]

Pool == {frames[k] : k \in DOMAIN frames}

\* Frames that someone besides the pool counts.
Held ==
  (lockedFrames \cup {renderFrame} \cup (IF gui = "holding" THEN {copying.cnt} ELSE {}) \cup {frame[o].cnt : o \in Outputs}
     \cup {node[o].cnt : o \in Outputs})
  \ {None}

Init ==
  /\ frames = <<>> /\ lockedFrames = {} /\ renderFrame = None
  /\ events = 0 /\ gui = "idle" /\ copying = Null
  /\ attached = {} /\ late = {} /\ frame = [o \in Outputs |-> Null]
  /\ updated = [o \in Outputs |-> FALSE] /\ node = [o \in Outputs |-> Null]
  /\ vlc = "closed" /\ picture = 0

-----------------------------------------------------------------------------
(***************************************************************************)
(* VLC's thread.                                                           *)
(***************************************************************************)

\* invokeMethod(this, "frameUpdated"), to another thread.
PostFrameUpdated == events < MaxEvents /\ events' = events + 1

\* _renderFrame is assigned, perhaps while the GUI thread copies it.
AssignRenderFrame(f) ==
  /\ renderFrame' = f
  /\ IF gui = "reading"
     THEN \E p \in {copying.ptr, f}, c \in {copying.cnt, f} :
            copying' = [ptr |-> p, cnt |-> c, raced |-> TRUE]
     ELSE UNCHANGED copying
  /\ UNCHANGED gui

\* Mutant: cloneFrame() falls through to its "return 0".
AllocateNull == frames' = Append(frames, None)

\* A new frame at the end of the pool.
Allocate == \E f \in Frames \ (Pool \cup Held) : frames' = Append(frames, f)

FormatCallback ==
  /\ vlc = "closed"
  /\ Allocate
  /\ vlc' = "open"
  /\ UNCHANGED <<lockedFrames, renderFrame, events, present, screen, picture>>

\* The last picture may not have been displayed.
FormatCleanUpCallback ==
  /\ vlc \in {"open", "unlocked"}
  /\ AssignRenderFrame(None) /\ lockedFrames' = {} /\ frames' = <<>>
  /\ PostFrameUpdated
  /\ vlc' = "closed" /\ picture' = 0
  /\ UNCHANGED screen

\* Mutant of Busy: only the frame that is displayed is spared.
BusyIfRendered(f) == f = renderFrame

\* use_count() > 1
Busy(f) == f \in Held

\* The first frame of the pool that is not busy, or a new one.
LockCallback ==
  /\ vlc = "open"
  /\ IF \A k \in DOMAIN frames : Busy(frames[k])
     THEN Allocate /\ picture' = Len(frames) + 1
     ELSE /\ picture' \in DOMAIN frames
          /\ ~ Busy(frames[picture'])
          /\ \A k \in 1 .. picture' - 1 : Busy(frames[k])
          /\ UNCHANGED frames
  /\ lockedFrames' = lockedFrames \cup {frames'[picture']}
  /\ vlc' = "locked"
  /\ UNCHANGED <<renderFrame, events, present, screen>>

\* Mutant: the frame is never unlocked.
StillLocked(f) == lockedFrames

\* _lockedFrames without f.
Unlocked(f) == lockedFrames \ {f}

UnlockCallback ==
  /\ vlc = "locked"
  /\ lockedFrames' = Unlocked(frames[picture])
  /\ vlc' = "unlocked"
  /\ UNCHANGED <<frames, renderFrame, events, present, screen, picture>>

DisplayCallback ==
  /\ vlc = "unlocked"
  /\ AssignRenderFrame(frames[picture])
  /\ PostFrameUpdated
  /\ vlc' = "open" /\ picture' = 0
  /\ UNCHANGED <<frames, lockedFrames, screen>>

\* VLC drops a picture that is late.
DropPicture ==
  /\ vlc = "unlocked"
  /\ vlc' = "open" /\ picture' = 0
  /\ UNCHANGED <<pool, events, present, screen>>

-----------------------------------------------------------------------------
(***************************************************************************)
(* The GUI thread.                                                         *)
(***************************************************************************)

\* frameUpdated() begins to copy _renderFrame; a null pointer ends it.
FrameUpdated ==
  /\ events > 0 /\ gui = "idle"
  /\ events' = events - 1
  /\ IF renderFrame = None THEN UNCHANGED present
     ELSE gui' = "reading" /\ copying' = [ptr |-> renderFrame, cnt |-> renderFrame, raced |-> FALSE]
  /\ UNCHANGED <<pool, screen, decoder>>

\* ... counts its reference, unless it has read that there is no frame any more,
CountFrame ==
  /\ gui = "reading"
  /\ IF copying.ptr = None THEN gui' = "idle" /\ copying' = Null
     ELSE gui' = "holding" /\ UNCHANGED copying
  /\ UNCHANGED <<pool, events, screen, decoder>>

\* Mutant: only an output that shows nothing yet gets the frame.
IfEmpty(o) == o \in attached /\ frame[o].ptr = None

\* The outputs that frameUpdated() gives the frame to.
Receives(o) == o \in attached

\* ... and calls presentFrame() of every output.
PresentFrame ==
  /\ gui = "holding"
  /\ frame' = [o \in Outputs |-> IF Receives(o) THEN copying ELSE frame[o]]
  /\ updated' = [o \in Outputs |-> updated[o] \/ Receives(o)]
  /\ gui' = "idle" /\ copying' = Null /\ late' = {}
  /\ UNCHANGED <<pool, events, attached, node, decoder>>

\* setSource() of an output.
RegisterVideoOutput(o) ==
  /\ gui = "idle" /\ o \notin attached
  /\ attached' = attached \cup {o} /\ late' = late \cup {o}
  /\ UNCHANGED <<pool, events, present, frame, updated, node, decoder>>

DeregisterVideoOutput(o) ==
  /\ gui = "idle" /\ o \in attached
  /\ attached' = attached \ {o} /\ late' = late \ {o}
  /\ UNCHANGED <<pool, events, present, frame, updated, node, decoder>>

-----------------------------------------------------------------------------
(***************************************************************************)
(* The render thread.                                                      *)
(***************************************************************************)

\* While the GUI thread is stopped.
UpdatePaintNode(o) ==
  /\ gui = "idle" /\ frame[o].ptr # None /\ updated[o]
  /\ node' = [node EXCEPT ![o] = frame[o]]
  /\ updated' = [updated EXCEPT ![o] = FALSE]
  /\ UNCHANGED <<pool, events, present, attached, late, frame, decoder>>

\* The end of bindPlanes(): the frame is uploaded and let go.
BindPlanes(o) ==
  /\ node[o].ptr # None
  /\ node' = [node EXCEPT ![o] = Null]
  /\ UNCHANGED <<pool, events, present, attached, late, frame, updated, decoder>>

VlcCalls ==
  \/ FormatCallback \/ FormatCleanUpCallback
  \/ LockCallback \/ UnlockCallback \/ DisplayCallback \/ DropPicture

GuiThread == FrameUpdated \/ CountFrame \/ PresentFrame

Next ==
  \/ VlcCalls
  \/ GuiThread
  \/ \E o \in Outputs : RegisterVideoOutput(o) \/ DeregisterVideoOutput(o)
  \/ \E o \in Outputs : UpdatePaintNode(o) \/ BindPlanes(o)

Spec == Init /\ [][Next]_vars

-----------------------------------------------------------------------------
(***************************************************************************)
(* Properties.                                                             *)
(***************************************************************************)

MaybeFrame == Frames \cup {None}
SharedPtr == [ptr : MaybeFrame, cnt : MaybeFrame, raced : BOOLEAN]

\* The type invariant.  It says that the index kept by VLC is one of the pool,
\* so that the early returns of lines 102 and 114 are never taken.
TypeOK ==
  /\ frames \in Seq(Frames) /\ lockedFrames \subseteq Frames /\ renderFrame \in MaybeFrame
  /\ events \in Nat /\ gui \in {"idle", "reading", "holding"} /\ copying \in SharedPtr
  /\ attached \subseteq Outputs /\ late \subseteq Outputs /\ frame \in [Outputs -> SharedPtr]
  /\ updated \in [Outputs -> BOOLEAN] /\ node \in [Outputs -> SharedPtr]
  /\ vlc \in {"closed", "open", "locked", "unlocked"} /\ picture \in Nat
  /\ vlc \in {"locked", "unlocked"} => picture \in DOMAIN frames

(***************************************************************************)
(* VLC never writes into a frame that an output shows or that is being     *)
(* uploaded: the frame lockCallback() chooses (lines 80-85) stays out of   *)
(* the other threads' hands until it is displayed.  This is said of every  *)
(* frame that was copied without a race, with races on others before or    *)
(* since; NoneOverwritten says it of every frame and does not hold.        *)
(***************************************************************************)
Writes(shared) == vlc = "locked" /\ shared.ptr = frames[picture]

NotOverwritten ==
  \A o \in Outputs :
    /\ ~ frame[o].raced => ~ Writes(frame[o])
    /\ ~ node[o].raced => ~ Writes(node[o])

NoneOverwritten == \A o \in Outputs : ~ Writes(frame[o]) /\ ~ Writes(node[o])

(***************************************************************************)
(* The pool (line 85 lets it grow, nothing makes it shrink) stays bounded: *)
(* VLC's frame, the one to render, the one being presented, and two for    *)
(* each output, whatever frames racing copies count.                       *)
(***************************************************************************)
PoolBounded == Len(frames) <= 3 + 2 * Cardinality(Outputs)

\* A frame is not twice in the pool, and only VLC's frame is locked.
LockedIsPicture ==
  /\ \A k, l \in DOMAIN frames : frames[k] = frames[l] => k = l
  /\ lockedFrames = IF vlc = "locked" THEN {frames[picture]} ELSE {}

(***************************************************************************)
(* When no call of frameUpdated() waits or runs, the frame that was        *)
(* displayed last has reached every output that was registered by then     *)
(* (lines 121-123), although VLC displays frames while outputs get others  *)
(* and while _renderFrame is copied.                                       *)
(***************************************************************************)
FrameReachesOutputs ==
  events = 0 /\ gui = "idle" /\ renderFrame # None =>
    \A o \in attached \ late : frame[o].ptr = renderFrame

(***************************************************************************)
(* "convert to shared pointer to const frame to avoid crash"               *)
(* (QmlVideoStream.cpp:35): the frame that frameUpdated() has got is not   *)
(* destroyed.                                                              *)
(***************************************************************************)
FrameAlive == copying.ptr # None => copying.ptr \in Pool \cup Held
=============================================================================
