---------------------------- MODULE RewindObject ----------------------------
(***************************************************************************)
(* The template class RewindObject: the last MAX_REWIND frames of an       *)
(* object in a ring of slots, written at its head and read by frame        *)
(* number.  The operators take and return the ring as a record with the    *)
(* fields of the class; the loop that fills skipped frames is its closed   *)
(* form.                                                                   *)
(***************************************************************************)
EXTENDS Integers

CONSTANT MAX_REWIND   \* slots of the ring

ASSUME RewindAssumption == MAX_REWIND \in Nat \ {0}

Slots == 0 .. MAX_REWIND - 1

Ring(Object) ==
  [mHeadFrame : Nat, mHeadIndex : Slots, mHistory : [Slots -> Object]]

Clear(base) ==
  [mHeadFrame |-> 0, mHeadIndex |-> 0, mHistory |-> [i \in Slots |-> base]]

\* Seeded mistake: the index is not wrapped at the end of the array.
AfterUnwrapped(ring, n) == ring.mHeadIndex + n

\* The slot n places after the head.
After(ring, n) == (ring.mHeadIndex + n) % MAX_REWIND

\* Seeded mistake: skipped frames keep what their slots held a lap ago.
SetWithoutFilling(ring, frame, obj) ==
  IF frame < ring.mHeadFrame THEN ring
  ELSE IF frame >= ring.mHeadFrame + MAX_REWIND
       THEN [Clear(obj) EXCEPT !.mHeadFrame = frame]
  ELSE LET head == After(ring, frame - ring.mHeadFrame)
       IN  [ring EXCEPT !.mHeadFrame = frame, !.mHeadIndex = head, !.mHistory[head] = obj]

SetObjectForFrame(ring, frame, obj) ==
  LET steps == frame - ring.mHeadFrame
      prev  == ring.mHistory[ring.mHeadIndex]
      moved == {After(ring, k) : k \in 1 .. steps}
  IN  IF frame < ring.mHeadFrame THEN ring
      ELSE IF frame >= ring.mHeadFrame + MAX_REWIND
           THEN [Clear(obj) EXCEPT !.mHeadFrame = frame]
      ELSE [mHeadFrame |-> frame,
            mHeadIndex |-> After(ring, steps),
            mHistory   |-> [i \in Slots |->
                              IF i = After(ring, steps) THEN obj
                              ELSE IF i \in moved       THEN prev
                              ELSE ring.mHistory[i]]]

GetObjectForFrame(ring, frame) ==
  LET delta == ring.mHeadFrame - frame
  IN  IF frame > ring.mHeadFrame  THEN ring.mHistory[ring.mHeadIndex]
      ELSE IF delta >= MAX_REWIND THEN ring.mHistory[After(ring, 1)]
      ELSE ring.mHistory[After(ring, MAX_REWIND - delta)]

\* The oldest frame the ring still remembers.
OldestFrame(ring) ==
  IF ring.mHeadFrame < MAX_REWIND THEN 0 ELSE ring.mHeadFrame - MAX_REWIND + 1
=============================================================================
