--------------------------- MODULE FrameTimeline ---------------------------
(***************************************************************************)
(* What the frame history promises its readers, with no ring in it: a      *)
(* frame reads the object recorded last at or before it.  Frames after the *)
(* head read as the head; frames that have left the window of the last     *)
(* Span frames read as the oldest one in it; and a jump of Span frames or  *)
(* more forgets everything before it.  Recording in the past does nothing. *)
(***************************************************************************)
EXTENDS Integers

CONSTANTS Span, Objects, Default, LastFrame

Frames == 0 .. LastFrame

VARIABLES
  head,   \* the latest frame recorded
  view    \* what each frame reads

timeline == <<head, view>>

Init ==
  /\ head = 0
  /\ view = [f \in Frames |-> Default]

Record(frame, obj) ==
  LET forget == frame >= head + Span
      oldest == IF frame < Span THEN 0 ELSE frame - Span + 1
      seen(f) == IF f >= frame \/ forget THEN obj ELSE view[f]
  IN  /\ frame >= head
      /\ head' = frame
      /\ view' = [f \in Frames |-> IF f < oldest THEN seen(oldest) ELSE seen(f)]

Forget ==
  /\ head' = 0
  /\ view' = [f \in Frames |-> Default]

Next ==
  \/ \E f \in Frames, o \in Objects : Record(f, o)
  \/ Forget

Spec == Init /\ [][Next]_timeline
=============================================================================
