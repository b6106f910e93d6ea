--------------------------- MODULE RewindHistory ---------------------------
(***************************************************************************)
(* A RewindObject driven by every legal call: any frame is recorded at any *)
(* time, and the history is cleared at any time.  It implements            *)
(* FrameTimeline: no index arithmetic of the ring is visible to a reader.  *)
(***************************************************************************)
EXTENDS RewindObject

CONSTANTS
  Objects,     \* what is recorded
  Default,     \* BASETYPE(), the object a cleared history is filled with
  LastFrame    \* bound: the largest frame number recorded or asked for

ASSUME HistoryAssumption == Default \in Objects /\ LastFrame \in Nat

Frames == 0 .. LastFrame

VARIABLE ring

Init == ring = Clear(Default)

Set(frame, obj) == ring' = SetObjectForFrame(ring, frame, obj)

ClearAll == ring' = Clear(Default)

Next ==
  \/ \E f \in Frames, o \in Objects : Set(f, o)
  \/ ClearAll

Spec == Init /\ [][Next]_ring

----------------------------------------------------------------------------
(* Type invariant: the head index always denotes a slot of the ring.       *)
TypeOK == ring \in Ring(Objects)

(* Refinement: reading any frame through GetObjectForFrame returns what    *)
(* the abstract timeline shows there, across wrap-around of the ring,      *)
(* skipped frames, rewrites of the head frame, jumps past the whole ring   *)
(* and writes in the past.                                                 *)
Timeline == INSTANCE FrameTimeline WITH
              Span <- MAX_REWIND,
              head <- ring.mHeadFrame,
              view <- [f \in Frames |-> GetObjectForFrame(ring, f)]

ImplementsTimeline == Timeline!Spec
=============================================================================
