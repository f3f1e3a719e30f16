-------------------------- MODULE MCVlcVideoStream --------------------------
(***************************************************************************)
(* Small instances of VlcVideoStream.  Addresses of frames are alike:      *)
(* states that differ by a permutation of them are one state.  AnyFrame    *)
(* tells TLC so.  For more than a few addresses, NumberedFrames is the     *)
(* faster way: it replaces every address by the place of its first         *)
(* occurrence in the state.                                                *)
(***************************************************************************)
EXTENDS VlcVideoStream, SequencesExt

CONSTANT Output         \* the one output of the instance

AnyFrame == Permutations(Frames)

Occurrences ==
  frames \o <<renderFrame, copying.ptr, copying.cnt, frame[Output].ptr, frame[Output].cnt,
              node[Output].ptr, node[Output].cnt>>

NumberedFrames ==
  LET number(f) == SelectInSeq(Occurrences, LAMBDA g : g = f)
  IN <<[k \in DOMAIN Occurrences |-> IF Occurrences[k] = None THEN 0 ELSE number(Occurrences[k])],
       {number(f) : f \in lockedFrames}, Len(frames),
       copying.raced, frame[Output].raced, node[Output].raced,
       events, gui, attached, late, updated, vlc, picture>>
=============================================================================
