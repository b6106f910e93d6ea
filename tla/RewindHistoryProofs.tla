------------------------ MODULE RewindHistoryProofs ------------------------
(***************************************************************************)
(* For every ring size and every set of objects: what a reader sees in a   *)
(* RewindObject after a write, the lemmas its users cite too, and that it  *)
(* implements FrameTimeline.                                               *)
(***************************************************************************)
EXTENDS RewindHistory, TLAPS

(* Stepping n places past the head wraps around at most once.              *)
LEMMA WrapOnce ==
  ASSUME NEW Obj, NEW r \in Ring(Obj), NEW n \in 0 .. MAX_REWIND
  PROVE  /\ After(r, n) = IF r.mHeadIndex + n < MAX_REWIND
                          THEN r.mHeadIndex + n
                          ELSE r.mHeadIndex + n - MAX_REWIND
         /\ After(r, n) \in Slots
<1>1. r.mHeadIndex \in Slots
  BY DEF Ring
<1>2. ASSUME NEW a \in Slots
      PROVE  /\ (a + n) % MAX_REWIND = IF a + n < MAX_REWIND THEN a + n
                                       ELSE a + n - MAX_REWIND
             /\ (a + n) % MAX_REWIND \in Slots
  BY RewindAssumption, SMT DEF Slots
<1> QED BY <1>1, <1>2 DEF After

\* The slot that holds the frame d before the head.
Back(r, d) == IF r.mHeadIndex >= d THEN r.mHeadIndex - d
              ELSE r.mHeadIndex + MAX_REWIND - d

\* The frame a reader of frame f is really given when the head is h.
Clamp(f, h) == IF f > h THEN h
               ELSE IF h - f >= MAX_REWIND THEN h - MAX_REWIND + 1 ELSE f

(* GetObjectForFrame reads the slot of the clamped frame.                  *)
LEMMA GetIsBack ==
  ASSUME NEW Obj, NEW r \in Ring(Obj), NEW f \in Nat
  PROVE  /\ r.mHeadFrame - Clamp(f, r.mHeadFrame) \in 0 .. MAX_REWIND - 1
         /\ GetObjectForFrame(r, f)
              = r.mHistory[Back(r, r.mHeadFrame - Clamp(f, r.mHeadFrame))]
<1> DEFINE d == r.mHeadFrame - f
<1>0. /\ r.mHeadFrame \in Nat /\ r.mHeadIndex \in Slots
      /\ f \in Nat /\ MAX_REWIND \in Nat \ {0}
  BY RewindAssumption DEF Ring
<1>1. CASE f > r.mHeadFrame
  BY <1>0, <1>1, SMT DEF GetObjectForFrame, Back, Clamp, Slots
<1>2. CASE ~(f > r.mHeadFrame) /\ d >= MAX_REWIND
  <2>1. 1 \in 0 .. MAX_REWIND
    BY <1>0, SMT
  <2>2. After(r, 1) = Back(r, MAX_REWIND - 1)
    BY <1>0, <2>1, WrapOnce, SMT DEF Back, Slots
  <2>3. r.mHeadFrame - Clamp(f, r.mHeadFrame) = MAX_REWIND - 1
    BY <1>0, <1>2, SMT DEF Clamp
  <2> QED BY <1>0, <1>2, <2>2, <2>3, SMT DEF GetObjectForFrame
<1>3. CASE ~(f > r.mHeadFrame) /\ ~(d >= MAX_REWIND)
  <2>1. d \in 0 .. MAX_REWIND - 1 /\ r.mHeadFrame - Clamp(f, r.mHeadFrame) = d
    BY <1>0, <1>3, SMT DEF Clamp
  <2>2. MAX_REWIND - d \in 0 .. MAX_REWIND
    BY <1>0, <2>1, SMT
  <2> HIDE DEF d
  <2>3. After(r, MAX_REWIND - d) = Back(r, d)
    BY <1>0, <2>1, <2>2, WrapOnce, SMT DEF Back, Slots
  <2>4. GetObjectForFrame(r, f) = r.mHistory[After(r, MAX_REWIND - d)]
    BY <1>0, <1>3, SMT DEF GetObjectForFrame, d
  <2> QED BY <2>1, <2>3, <2>4
<1> QED BY <1>1, <1>2, <1>3

----------------------------------------------------------------------------
(* SetObjectForFrame keeps the record a ring.                              *)
LEMMA SetKeepsRing ==
  ASSUME NEW Obj, NEW r \in Ring(Obj), NEW f \in Nat, NEW o \in Obj
  PROVE  SetObjectForFrame(r, f, o) \in Ring(Obj)
<1>0. /\ r.mHeadFrame \in Nat /\ r.mHeadIndex \in Slots /\ f \in Nat
      /\ r.mHistory \in [Slots -> Obj] /\ MAX_REWIND \in Nat \ {0}
  BY RewindAssumption DEF Ring
<1>1. CASE f < r.mHeadFrame
  BY <1>1 DEF SetObjectForFrame
<1>2. CASE ~(f < r.mHeadFrame) /\ f >= r.mHeadFrame + MAX_REWIND
  BY <1>0, <1>2, SMT DEF SetObjectForFrame, Clear, Ring, Slots
<1>3. CASE ~(f < r.mHeadFrame) /\ ~(f >= r.mHeadFrame + MAX_REWIND)
  <2>1. f - r.mHeadFrame \in 0 .. MAX_REWIND
    BY <1>0, <1>3, SMT
  <2>2. After(r, f - r.mHeadFrame) \in Slots
    BY <2>1, WrapOnce
  <2> QED BY <1>0, <1>3, <2>2 DEF SetObjectForFrame, Ring
<1> QED BY <1>1, <1>2, <1>3

(* After a forward write that does not jump past the ring, the slot of the *)
(* frame d2 before the new head holds: the object itself at the head, the  *)
(* previous head object on a skipped frame, and what it held before on     *)
(* every older frame.                                                      *)
LEMMA ForwardWrite ==
  ASSUME NEW Obj, NEW r \in Ring(Obj), NEW f \in Nat, NEW o \in Obj,
         f >= r.mHeadFrame, f < r.mHeadFrame + MAX_REWIND,
         NEW d2 \in 0 .. MAX_REWIND - 1
  PROVE  SetObjectForFrame(r, f, o).mHistory[Back(SetObjectForFrame(r, f, o), d2)]
           = IF d2 = 0 THEN o
             ELSE IF d2 < f - r.mHeadFrame THEN r.mHistory[r.mHeadIndex]
             ELSE r.mHistory[Back(r, d2 - (f - r.mHeadFrame))]
<1> DEFINE r2 == SetObjectForFrame(r, f, o)
           steps == f - r.mHeadFrame
           moved == {After(r, k) : k \in 1 .. steps}
<1>0. /\ r.mHeadFrame \in Nat /\ r.mHeadIndex \in Slots /\ f \in Nat
      /\ r.mHistory \in [Slots -> Obj] /\ MAX_REWIND \in Nat \ {0}
  BY RewindAssumption DEF Ring
<1>1. steps \in 0 .. MAX_REWIND - 1
  BY <1>0, SMT
<1>2. r2 = [mHeadFrame |-> f, mHeadIndex |-> After(r, steps),
            mHistory |-> [i \in Slots |-> IF i = After(r, steps) THEN o
                                          ELSE IF i \in moved
                                               THEN r.mHistory[r.mHeadIndex]
                                          ELSE r.mHistory[i]]]
  BY <1>0, SMT DEF SetObjectForFrame
<1> HIDE DEF r2, steps
<1>3. ASSUME NEW k \in 0 .. MAX_REWIND
      PROVE  /\ After(r, k) = IF r.mHeadIndex + k < MAX_REWIND
                              THEN r.mHeadIndex + k
                              ELSE r.mHeadIndex + k - MAX_REWIND
             /\ After(r, k) \in Slots
  BY WrapOnce
<1>4. /\ steps \in 0 .. MAX_REWIND
      /\ After(r, steps) = IF r.mHeadIndex + steps < MAX_REWIND
                           THEN r.mHeadIndex + steps
                           ELSE r.mHeadIndex + steps - MAX_REWIND
      /\ After(r, steps) \in Slots
  BY <1>0, <1>1, <1>3, SMT
<1>5. r2.mHeadIndex = After(r, steps)
  BY <1>2
<1>6. CASE d2 = 0
  <2>1. Back(r2, d2) = After(r, steps)
    BY <1>0, <1>4, <1>5, <1>6, SMT DEF Back, Slots
  <2>2. r2.mHistory[Back(r2, d2)] = o
    BY <1>2, <1>4, <2>1
  <2> QED BY <1>6, <2>2 DEF r2
<1>7. CASE d2 # 0 /\ d2 < steps
  <2>1. steps - d2 \in 1 .. steps /\ steps - d2 \in 0 .. MAX_REWIND
    BY <1>0, <1>1, <1>7, SMT
  <2>2. After(r, steps - d2) = IF r.mHeadIndex + (steps - d2) < MAX_REWIND
                               THEN r.mHeadIndex + (steps - d2)
                               ELSE r.mHeadIndex + (steps - d2) - MAX_REWIND
    BY <1>3, <2>1
  <2>3. /\ Back(r2, d2) = After(r, steps - d2)
        /\ Back(r2, d2) # After(r, steps)
    BY <1>0, <1>1, <1>4, <1>5, <1>7, <2>2, SMTT(60) DEF Back, Slots
  <2>4. Back(r2, d2) \in moved /\ Back(r2, d2) \in Slots
    BY <1>3, <2>1, <2>3
  <2>5. r2.mHistory[Back(r2, d2)] = r.mHistory[r.mHeadIndex]
    BY <1>2, <2>3, <2>4
  <2> QED BY <1>7, <2>5 DEF r2, steps
<1>8. CASE d2 # 0 /\ ~(d2 < steps)
  <2>1. /\ Back(r2, d2) = Back(r, d2 - steps)
        /\ Back(r2, d2) \in Slots
    BY <1>0, <1>1, <1>4, <1>5, <1>8, SMTT(60) DEF Back, Slots
  <2>2. ASSUME NEW k \in 1 .. steps \cup {steps}
        PROVE  Back(r2, d2) # After(r, k)
    <3>1. k \in 0 .. MAX_REWIND /\ (k = 0 => steps = 0) /\ k <= steps
      BY <1>0, <1>1, SMT
    <3>2. After(r, k) = IF r.mHeadIndex + k < MAX_REWIND
                        THEN r.mHeadIndex + k
                        ELSE r.mHeadIndex + k - MAX_REWIND
      BY <1>3, <3>1
    <3> QED
      BY <1>0, <1>1, <1>4, <1>5, <1>8, <3>1, <3>2, SMTT(60) DEF Back, Slots
  <2>3. Back(r2, d2) # After(r, steps) /\ Back(r2, d2) \notin moved
    BY <2>2
  <2>4. r2.mHistory[Back(r2, d2)] = r.mHistory[Back(r, d2 - steps)]
    BY <1>2, <2>1, <2>3
  <2> QED BY <1>8, <2>4 DEF r2, steps
<1> QED BY <1>6, <1>7, <1>8

(* The slot of a remembered frame is one of the ring's.                    *)
LEMMA BackInSlots ==
  ASSUME NEW Obj, NEW r \in Ring(Obj), NEW d \in 0 .. MAX_REWIND - 1
  PROVE  Back(r, d) \in Slots
<1>1. r.mHeadIndex \in Slots
  BY DEF Ring
<1> QED BY <1>1, RewindAssumption, SMT DEF Back, Slots

(* A ring whose slots all hold one object reads as that object everywhere. *)
LEMMA FilledReads ==
  ASSUME NEW Obj, NEW r \in Ring(Obj), NEW o,
         r.mHistory = [i \in Slots |-> o], NEW f \in Nat
  PROVE  GetObjectForFrame(r, f) = o
<1>1. Back(r, r.mHeadFrame - Clamp(f, r.mHeadFrame)) \in Slots
  BY GetIsBack, BackInSlots
<1> QED BY <1>1, GetIsBack

(* What frame g reads after a forward write at f.                          *)
LEMMA ForwardReads ==
  ASSUME NEW Obj, NEW r \in Ring(Obj), NEW f \in Nat, NEW o \in Obj,
         f >= r.mHeadFrame, f < r.mHeadFrame + MAX_REWIND,
         NEW g \in Nat, NEW c \in Nat, c = Clamp(g, f)
  PROVE  GetObjectForFrame(SetObjectForFrame(r, f, o), g)
           = IF c >= f THEN o ELSE GetObjectForFrame(r, c)
<1> DEFINE r2 == SetObjectForFrame(r, f, o)
           d2 == f - c
<1>0. /\ r.mHeadFrame \in Nat /\ f \in Nat /\ g \in Nat /\ c \in Nat
      /\ MAX_REWIND \in Nat \ {0}
  BY RewindAssumption DEF Ring
<1>1. r2 \in Ring(Obj) /\ r2.mHeadFrame = f
  BY <1>0, SetKeepsRing, SMT DEF SetObjectForFrame
<1>2. /\ d2 \in 0 .. MAX_REWIND - 1
      /\ GetObjectForFrame(r2, g) = r2.mHistory[Back(r2, d2)]
  BY <1>1, GetIsBack
<1>3. GetObjectForFrame(r2, g)
        = IF d2 = 0 THEN o
          ELSE IF d2 < f - r.mHeadFrame THEN r.mHistory[r.mHeadIndex]
          ELSE r.mHistory[Back(r, d2 - (f - r.mHeadFrame))]
  BY <1>2, ForwardWrite
<1> HIDE DEF r2
<1>4. CASE c >= f
  BY <1>0, <1>2, <1>3, <1>4, SMT DEF r2
<1>5. CASE ~(c >= f) /\ c > r.mHeadFrame
  <2>1. d2 # 0 /\ d2 < f - r.mHeadFrame
    BY <1>0, <1>5, SMT
  <2>2. GetObjectForFrame(r, c) = r.mHistory[r.mHeadIndex]
    BY <1>5 DEF GetObjectForFrame
  <2> QED BY <1>3, <1>5, <2>1, <2>2 DEF r2
<1>6. CASE ~(c >= f) /\ ~(c > r.mHeadFrame)
  <2>1. /\ d2 # 0 /\ ~(d2 < f - r.mHeadFrame)
        /\ d2 - (f - r.mHeadFrame) = r.mHeadFrame - c
        /\ Clamp(c, r.mHeadFrame) = c
    BY <1>0, <1>2, <1>6, SMT DEF Clamp
  <2>2. GetObjectForFrame(r, c) = r.mHistory[Back(r, r.mHeadFrame - c)]
    BY <2>1, GetIsBack
  <2> QED BY <1>3, <1>6, <2>1, <2>2 DEF r2
<1> QED BY <1>4, <1>5, <1>6
(* Rewriting the head frame, or recording the one after it, changes what   *)
(* that frame reads and no other frame the ring still remembers.           *)
LEMMA NextWrite ==
  ASSUME NEW Obj, NEW r \in Ring(Obj), NEW f \in {r.mHeadFrame, r.mHeadFrame + 1},
         NEW o \in Obj
  PROVE  /\ SetObjectForFrame(r, f, o) \in Ring(Obj)
         /\ SetObjectForFrame(r, f, o).mHeadFrame = f
         /\ \A g \in OldestFrame(SetObjectForFrame(r, f, o)) .. f :
              GetObjectForFrame(SetObjectForFrame(r, f, o), g)
                = IF g = f THEN o ELSE GetObjectForFrame(r, g)
         /\ OldestFrame(r) <= OldestFrame(SetObjectForFrame(r, f, o))
<1> DEFINE r2 == SetObjectForFrame(r, f, o)
<1>0. r.mHeadFrame \in Nat /\ f \in Nat /\ MAX_REWIND \in Nat \ {0}
  BY RewindAssumption, SMT DEF Ring
<1>1. r2 \in Ring(Obj)
  BY <1>0, SetKeepsRing
<1>2. r2.mHeadFrame = f
  BY <1>0, SMT DEF SetObjectForFrame, Clear
<1> HIDE DEF r2
<1>3. OldestFrame(r) <= OldestFrame(r2)
  BY <1>0, <1>2, SMT DEF OldestFrame
<1>4. ASSUME NEW g \in OldestFrame(r2) .. f
      PROVE  GetObjectForFrame(r2, g) = IF g = f THEN o ELSE GetObjectForFrame(r, g)
  <2>1. g \in Nat /\ Clamp(g, f) = g /\ g <= f
    BY <1>0, <1>2, SMT DEF OldestFrame, Clamp
  <2>2. CASE f < r.mHeadFrame + MAX_REWIND
    <3>1. f >= r.mHeadFrame
      BY <1>0
    <3>2. GetObjectForFrame(r2, g) = IF g >= f THEN o ELSE GetObjectForFrame(r, g)
      BY <1>0, <2>1, <2>2, <3>1, ForwardReads DEF r2
    <3> QED BY <1>0, <2>1, <3>2, SMT
  <2>3. CASE ~(f < r.mHeadFrame + MAX_REWIND)
    <3>1. MAX_REWIND = 1 /\ g = f
      BY <1>0, <1>2, <2>1, <2>3, SMT DEF OldestFrame
    <3>2. r2.mHistory = [i \in Slots |-> o]
      BY <1>0, <2>3, SMT DEF r2, SetObjectForFrame, Clear
    <3>3. GetObjectForFrame(r2, g) = o
      BY <1>1, <2>1, <3>2, FilledReads
    <3> QED BY <3>1, <3>3
  <2> QED BY <2>2, <2>3
<1> QED BY <1>1, <1>2, <1>3, <1>4 DEF r2

(* The same of the ring of this module, for those who use it.              *)
LEMMA HistoryWrite ==
  \A r \in Ring(Objects), o \in Objects, f \in Nat :
    f = r.mHeadFrame \/ f = r.mHeadFrame + 1 =>
      \A r2 : r2 = SetObjectForFrame(r, f, o) =>
        /\ r2 \in Ring(Objects) /\ r2.mHeadFrame = f
        /\ \A g \in OldestFrame(r2) .. f :
             GetObjectForFrame(r2, g) = IF g = f THEN o ELSE GetObjectForFrame(r, g)
        /\ OldestFrame(r) <= OldestFrame(r2)
BY NextWrite

(* A cleared ring is at frame 0 and reads as the object it is filled with. *)
LEMMA ClearReads ==
  ASSUME NEW Obj, NEW o \in Obj
  PROVE  /\ Clear(o) \in Ring(Obj)
         /\ Clear(o).mHeadFrame = 0
         /\ \A f \in Nat : GetObjectForFrame(Clear(o), f) = o
<1>1. Clear(o) \in Ring(Obj) /\ Clear(o).mHeadFrame = 0
  BY RewindAssumption, SMT DEF Clear, Ring, Slots
<1>2. Clear(o).mHistory = [i \in Slots |-> o]
  BY DEF Clear
<1> QED BY <1>1, <1>2, FilledReads

(* What is read at any frame was recorded.                                 *)
LEMMA GetInObjects ==
  ASSUME NEW Obj, NEW r \in Ring(Obj), NEW f \in Nat
  PROVE  GetObjectForFrame(r, f) \in Obj
<1>1. Back(r, r.mHeadFrame - Clamp(f, r.mHeadFrame)) \in Slots
  BY GetIsBack, BackInSlots
<1>2. r.mHistory \in [Slots -> Obj]
  BY DEF Ring
<1> QED BY <1>1, <1>2, GetIsBack

----------------------------------------------------------------------------
(* The ring and its timeline.                                              *)

(* Every frame number is a natural number.                                 *)
LEMMA FramesAreNat == Frames \subseteq Nat
BY HistoryAssumption DEF Frames

(* The head index stays inside the array, whatever the ring size and the   *)
(* frames recorded (RewindObject::SetObjectForFrame).                      *)
THEOREM RingTypeCorrect == Spec => []TypeOK
<1>1. Init => TypeOK
  BY RewindAssumption, HistoryAssumption, SMT DEF Init, TypeOK, Clear, Ring, Slots
<1>2. TypeOK /\ [Next]_ring => TypeOK'
  <2> SUFFICES ASSUME TypeOK, [Next]_ring PROVE TypeOK'
    OBVIOUS
  <2>1. ASSUME NEW f \in Frames, NEW o \in Objects, Set(f, o) PROVE TypeOK'
    BY <2>1, FramesAreNat, SetKeepsRing DEF TypeOK, Set
  <2>2. CASE ClearAll
    BY <2>2, RewindAssumption, HistoryAssumption, SMT
    DEF ClearAll, TypeOK, Clear, Ring, Slots
  <2>3. CASE UNCHANGED ring
    BY <2>3 DEF TypeOK
  <2> QED BY <2>1, <2>2, <2>3 DEF Next
<1> QED BY <1>1, <1>2, PTL DEF Spec

(* Every behaviour of the ring is a behaviour of the abstract timeline:    *)
(* GetObjectForFrame never exposes the wrap-around, for every ring size.   *)
THEOREM RingImplementsTimeline == Spec => ImplementsTimeline
<1>0. ASSUME NEW r, r = Clear(Default)
      PROVE  /\ r \in Ring(Objects) /\ r.mHeadFrame = 0
             /\ [f \in Frames |-> GetObjectForFrame(r, f)] = [f \in Frames |-> Default]
  <2>1. r \in Ring(Objects) /\ r.mHeadFrame = 0 /\ r.mHistory = [i \in Slots |-> Default]
    BY <1>0, RewindAssumption, HistoryAssumption, SMT DEF Clear, Ring, Slots
  <2>2. \A f \in Nat : GetObjectForFrame(r, f) = Default
    BY <2>1, FilledReads
  <2> QED BY <2>1, <2>2, FramesAreNat
<1>1. Init => Timeline!Init
  BY <1>0 DEF Init, Timeline!Init, Timeline!Frames, Frames
<1>2. TypeOK /\ [Next]_ring => [Timeline!Next]_(Timeline!timeline)
  <2> SUFFICES ASSUME TypeOK, [Next]_ring
               PROVE  [Timeline!Next]_(Timeline!timeline)
    OBVIOUS
  <2>0. ring \in Ring(Objects)
    BY DEF TypeOK
  <2>1. ASSUME NEW f \in Frames, NEW o \in Objects, Set(f, o)
        PROVE  [Timeline!Next]_(Timeline!timeline)
    <3>0. /\ ring.mHeadFrame \in Nat /\ f \in Nat /\ MAX_REWIND \in Nat \ {0}
          /\ Frames \subseteq Nat
      BY <2>0, RewindAssumption, HistoryAssumption DEF Ring, Frames
    <3>1. ring' = SetObjectForFrame(ring, f, o) /\ ring' \in Ring(Objects)
      BY <2>0, <2>1, FramesAreNat, SetKeepsRing DEF Set
    <3>2. CASE f < ring.mHeadFrame
      BY <3>1, <3>2 DEF SetObjectForFrame, Timeline!timeline
    <3>3. CASE ~(f < ring.mHeadFrame) /\ f >= ring.mHeadFrame + MAX_REWIND
      <4>1. ring'.mHeadFrame = f /\ ring'.mHistory = [i \in Slots |-> o]
        BY <3>0, <3>1, <3>3, SMT DEF SetObjectForFrame, Clear
      <4>2. \A g \in Frames : GetObjectForFrame(ring', g) = o
        BY <3>1, <4>1, FramesAreNat, FilledReads
      <4>3. Timeline!Record(f, o)
        BY <3>0, <3>3, <4>1, <4>2, SMT DEF Timeline!Record, Timeline!Frames, Frames
      <4> QED BY <4>3 DEF Timeline!Next, Timeline!Frames, Frames
    <3>4. CASE ~(f < ring.mHeadFrame) /\ ~(f >= ring.mHeadFrame + MAX_REWIND)
      <4> DEFINE oldest == IF f < MAX_REWIND THEN 0 ELSE f - MAX_REWIND + 1
                 at(g)  == IF g < oldest THEN oldest ELSE g
                 seen(g) == IF g >= f THEN o ELSE GetObjectForFrame(ring, g)
      <4>1. ring'.mHeadFrame = f /\ f >= ring.mHeadFrame /\ f < ring.mHeadFrame + MAX_REWIND
        BY <3>0, <3>1, <3>4, SMT DEF SetObjectForFrame
      <4>2. ASSUME NEW g \in Frames
            PROVE  at(g) \in Frames /\ GetObjectForFrame(ring', g) = seen(at(g))
        <5>1. /\ g \in Nat /\ at(g) \in Frames /\ Clamp(g, f) \in Frames
              /\ Clamp(g, f) = IF g > f THEN f ELSE at(g)
          BY <3>0, HistoryAssumption, SMT DEF Clamp, Frames
        <5>2. GetObjectForFrame(ring', g)
                = IF Clamp(g, f) >= f THEN o ELSE GetObjectForFrame(ring, Clamp(g, f))
          <6> DEFINE c == Clamp(g, f)
          <6>1. c \in Nat /\ g \in Nat /\ f \in Nat
            BY <5>1, FramesAreNat
          <6>2. GetObjectForFrame(SetObjectForFrame(ring, f, o), g)
                  = IF c >= f THEN o ELSE GetObjectForFrame(ring, c)
            BY <2>0, <4>1, <6>1, ForwardReads
          <6> QED BY <3>1, <6>2
        <5>3. CASE g > f
          <6>1. Clamp(g, f) >= f /\ at(g) >= f
            BY <3>0, <5>1, <5>3, SMT
          <6> QED BY <5>1, <5>2, <6>1
        <5>4. CASE ~(g > f)
          <6>1. Clamp(g, f) = at(g)
            BY <5>1, <5>4
          <6>2. at(g) \in Frames
            BY <5>1
          <6> HIDE DEF at
          <6> QED BY <5>2, <6>1, <6>2
        <5> QED BY <5>3, <5>4
      <4>3. [g \in Frames |-> GetObjectForFrame(ring', g)]
              = [g \in Frames |-> IF g < oldest THEN seen(oldest) ELSE seen(g)]
        BY <4>2
      <4>4. \A g \in Frames : seen(g) = IF g >= f \/ f >= ring.mHeadFrame + MAX_REWIND
                                       THEN o
                                       ELSE [h \in Frames |-> GetObjectForFrame(ring, h)][g]
        BY <3>4
      <4>5. oldest \in Frames
        BY <3>0, HistoryAssumption, SMT DEF Frames
      <4> HIDE DEF oldest, seen
      <4>6. Timeline!Record(f, o)
        BY <4>1, <4>3, <4>4, <4>5 DEF Timeline!Record, Timeline!Frames, Frames, oldest
      <4> QED BY <4>6 DEF Timeline!Next, Timeline!Frames, Frames
    <3> QED BY <3>2, <3>3, <3>4
  <2>2. CASE ClearAll
    <3>1. Timeline!Forget
      BY <1>0, <2>2 DEF ClearAll, Timeline!Forget, Timeline!Frames, Frames
    <3> QED BY <3>1 DEF Timeline!Next
  <2>3. CASE UNCHANGED ring
    BY <2>3 DEF Timeline!timeline
  <2> QED BY <2>1, <2>2, <2>3 DEF Next
<1> QED BY <1>1, <1>2, RingTypeCorrect, PTL DEF Spec, ImplementsTimeline, Timeline!Spec
=============================================================================
