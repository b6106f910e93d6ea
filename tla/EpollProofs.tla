----------------------------- MODULE EpollProofs -----------------------------
(***************************************************************************)
(* epoll's calls, for any threads, sockets and events.                     *)
(*                                                                         *)
(* In this order: the life of the port (reference counts, and who may      *)
(* still use its memory); the operators on a port, from queues and poll    *)
(* groups up to whole epoll_ctl and epoll_wait passes, each a lemma that   *)
(* says what it keeps of a sound port; the steps of the threads; and the   *)
(* theorems, from the invariant IInv.                                      *)
(***************************************************************************)
EXTENDS Epoll, FiniteSetTheorems, SequenceTheorems, WellFoundedInduction, TLAPS

----------------------------------------------------------------------------
(* The life of the port: who holds a reference of it.                      *)

Steps == {"idle", "inside", "polling", "woken", "signalling",
          "closing", "dropping", "awaiting", "alone"}

In(at) == {t \in Threads : pc[t] \in at}

\* Threads with a reference, the one that closes, and those about to signal.
Holders    == In({"inside", "polling", "woken", "closing", "dropping"})
Closers    == In({"closing", "dropping", "awaiting", "alone"})
Signallers == In({"signalling"})

\* The port can be found; then one thread closes it: as one of those inside,
\* then waiting for them, then alone with it; then there is none.
Running  == listed /\ Closers = {} /\ Signallers = {} /\ state = Cardinality(Holders)

Leaving(t) ==
  /\ Closers = {t} /\ pc[t] \in {"closing", "dropping"}
  /\ Signallers = {} /\ state = Cardinality(Holders)

Draining(t) ==
  /\ Closers = {t} /\ pc[t] = "awaiting"
  /\ state = _DESTROY + Cardinality(Holders)
  /\ IF Holders = {} THEN \E s \in Threads : Signallers = {s} ELSE Signallers = {}

Alone(t) ==
  /\ Closers = {t} /\ pc[t] = "alone"
  /\ Holders = {} /\ Signallers = {} /\ state = _DESTROY

Gone == Closers = {} /\ Holders = {} /\ Signallers = {} /\ state = _POISON

Life ==
  /\ pc \in [Threads -> Steps]
  /\ \/ Running
     \/ ~listed /\ \/ \E t \in Threads : Leaving(t) \/ Draining(t) \/ Alone(t)
                   \/ Gone

(* Sets of threads are finite, and the reflock can count any of them.      *)
LEMMA CountThreads ==
  ASSUME NEW S \in SUBSET Threads
  PROVE  /\ IsFiniteSet(S) /\ Cardinality(S) \in Nat /\ Cardinality(S) < _DESTROY
         /\ (Cardinality(S) = 0) <=> (S = {})
         /\ \A t \in S : Cardinality(S \ {t}) = Cardinality(S) - 1
         /\ \A t \in Threads \ S : Cardinality(S \cup {t}) = Cardinality(S) + 1
<1>1. IsFiniteSet(S) /\ Cardinality(S) <= Cardinality(Threads)
  BY ThreadsAssumption, FS_Subset
<1>2. Cardinality(S) \in Nat /\ Cardinality(Threads) \in Nat /\ _DESTROY \in Nat
  BY <1>1, ThreadsAssumption, FS_CardinalityType DEF _DESTROY
<1>3. (Cardinality(S) = 0) <=> (S = {})
  BY <1>1, FS_EmptySet
<1>4. \A t \in S : Cardinality(S \ {t}) = Cardinality(S) - 1
  BY <1>1, FS_RemoveElement
<1>5. \A t \in Threads \ S : Cardinality(S \cup {t}) = Cardinality(S) + 1
  BY <1>1, FS_AddElement
<1>6. Cardinality(S) < _DESTROY
  BY <1>1, <1>2, ThreadsAssumption, SMT
<1> QED BY <1>1, <1>2, <1>3, <1>4, <1>5, <1>6

(* A thread that moves changes the sets it was in and the sets it is in.   *)
LEMMA MoveOne ==
  ASSUME pc \in [Threads -> Steps], NEW t \in Threads, NEW to \in Steps,
         pc' = [pc EXCEPT ![t] = to]
  PROVE  /\ pc' \in [Threads -> Steps] /\ pc'[t] = to
         /\ \A s \in Threads \ {t} : pc'[s] = pc[s]
         /\ Holders' = IF to \in {"inside", "polling", "woken", "closing", "dropping"}
                       THEN Holders \cup {t} ELSE Holders \ {t}
         /\ Closers' = IF to \in {"closing", "dropping", "awaiting", "alone"}
                       THEN Closers \cup {t} ELSE Closers \ {t}
         /\ Signallers' = IF to = "signalling" THEN Signallers \cup {t}
                          ELSE Signallers \ {t}
<1>1. pc' \in [Threads -> Steps] /\ pc'[t] = to /\ \A s \in Threads \ {t} : pc'[s] = pc[s]
  OBVIOUS
<1>2. Holders' = IF to \in {"inside", "polling", "woken", "closing", "dropping"}
                 THEN Holders \cup {t} ELSE Holders \ {t}
  BY <1>1 DEF Holders, In
<1>3. Closers' = IF to \in {"closing", "dropping", "awaiting", "alone"}
                 THEN Closers \cup {t} ELSE Closers \ {t}
  BY <1>1 DEF Closers, In
<1>4. Signallers' = IF to = "signalling" THEN Signallers \cup {t} ELSE Signallers \ {t}
  BY <1>1 DEF Signallers, In
<1> QED BY <1>1, <1>2, <1>3, <1>4

(* Which sets a thread is in.                                              *)
LEMMA WhereItIs ==
  ASSUME NEW t \in Threads
  PROVE  /\ t \in Holders <=> pc[t] \in {"inside", "polling", "woken", "closing", "dropping"}
         /\ t \in Closers <=> pc[t] \in {"closing", "dropping", "awaiting", "alone"}
         /\ t \in Signallers <=> pc[t] = "signalling"
         /\ Holders \in SUBSET Threads
BY DEF Holders, Closers, Signallers, In

(* Someone takes a reference of a port that can be found.                  *)
LEMMA RefKeepsLife ==
  ASSUME Life, NEW t \in Threads, listed, pc[t] = "idle",
         pc' = [pc EXCEPT ![t] = "inside"], state' = reflock_ref(state), listed' = listed
  PROVE  Life'
<1>1. Running /\ pc \in [Threads -> Steps]
  BY DEF Life
<1>2. /\ pc' \in [Threads -> Steps] /\ Closers' = {} /\ Signallers' = {}
      /\ Holders' = Holders \cup {t} /\ t \notin Holders
  <2>1. "inside" \in Steps
    BY DEF Steps
  <2> QED BY <1>1, <2>1, MoveOne, WhereItIs DEF Running
<1>3. Holders \in SUBSET Threads
  BY WhereItIs
<1>4. Cardinality(Holders') = Cardinality(Holders) + 1
  BY <1>2, <1>3, CountThreads
<1>5. state' = Cardinality(Holders')
  BY <1>1, <1>4 DEF Running, reflock_ref, _REF
<1> QED BY <1>1, <1>2, <1>5 DEF Life, Running

(* A thread with a reference goes on inside its call.                      *)
LEMMA InsideKeepsLife ==
  ASSUME Life, NEW t \in Threads, pc[t] \in {"inside", "polling", "woken"},
         NEW to \in {"polling", "woken"},
         pc' = [pc EXCEPT ![t] = to], UNCHANGED <<state, listed>>
  PROVE  Life'
<1>1. pc \in [Threads -> Steps]
  BY DEF Life
<1>2. /\ pc' \in [Threads -> Steps] /\ Closers' = Closers /\ Signallers' = Signallers
      /\ Holders' = Holders
  <2>1. to \in Steps
    BY DEF Steps
  <2>2. t \in Holders /\ t \notin Closers /\ t \notin Signallers
    BY WhereItIs
  <2>3. Holders \cup {t} = Holders /\ Closers \ {t} = Closers /\ Signallers \ {t} = Signallers
    BY <2>2
  <2> QED BY <1>1, <2>1, <2>3, MoveOne
<1>3. t \notin Closers /\ t \in Holders
  BY WhereItIs
<1>4. ASSUME NEW s \in Threads, s # t PROVE pc'[s] = pc[s]
  BY <1>1, <1>4
<1>5. Running => Running'
  BY <1>2 DEF Running
<1>6. ASSUME NEW s \in Threads, Leaving(s), ~listed PROVE Life'
  <2>1. Leaving(s)'
    BY <1>2, <1>3, <1>4, <1>6 DEF Leaving
  <2> QED BY <1>2, <1>6, <2>1 DEF Life
<1>7. ASSUME NEW s \in Threads, Draining(s), ~listed PROVE Life'
  <2>1. Draining(s)'
    BY <1>2, <1>3, <1>4, <1>7 DEF Draining
  <2> QED BY <1>2, <1>7, <2>1 DEF Life
<1>8. ASSUME NEW s \in Threads PROVE ~Alone(s) /\ ~Gone
  BY <1>3 DEF Alone, Gone
<1> QED BY <1>2, <1>5, <1>6, <1>7, <1>8 DEF Life

(* A thread gives its reference back, and signals when it was the last one *)
(* and another waits for that.                                             *)
LEMMA UnrefKeepsLife ==
  ASSUME Life, NEW t \in Threads, pc[t] \in {"inside", "woken"},
         reflock_tree_node_unref(t), listed' = listed
  PROVE  Life'
<1> DEFINE n == Cardinality(Holders)
<1>1. pc \in [Threads -> Steps]
  BY DEF Life
<1>2. PICK to \in Steps : /\ to = IF Signals(state) THEN "signalling" ELSE "idle"
                          /\ pc' = [pc EXCEPT ![t] = to] /\ state' = state - 1
  BY DEF reflock_tree_node_unref, reflock_unref, _REF, Steps
<1>3. /\ pc' \in [Threads -> Steps] /\ Holders' = Holders \ {t} /\ t \in Holders
      /\ Closers' = Closers /\ t \notin Closers /\ t \notin Signallers
      /\ Signallers' = IF Signals(state) THEN Signallers \cup {t} ELSE Signallers
  <2>1. t \in Holders /\ t \notin Closers /\ t \notin Signallers
    BY WhereItIs
  <2>2. Closers \ {t} = Closers /\ Signallers \ {t} = Signallers
    BY <2>1
  <2>3. pc' \in [Threads -> Steps] /\ Holders' = Holders \ {t} /\ Closers' = Closers \ {t}
    BY <1>1, <1>2, MoveOne
  <2>4. Signallers' = IF Signals(state) THEN Signallers \cup {t} ELSE Signallers \ {t}
    BY <1>1, <1>2, MoveOne
  <2> QED BY <2>1, <2>2, <2>3, <2>4
<1>4. /\ n \in Nat /\ n < _DESTROY /\ n # 0 /\ Cardinality(Holders') = n - 1
      /\ n = 1 <=> Holders' = {}
  <2>1. Holders \in SUBSET Threads /\ Holders' \in SUBSET Threads
    BY <1>3, WhereItIs
  <2>2. n \in Nat /\ n < _DESTROY /\ n # 0 /\ Cardinality(Holders') = n - 1
    BY <1>3, <2>1, CountThreads
  <2>3. Cardinality(Holders') = 0 <=> Holders' = {}
    BY <2>1, CountThreads
  <2> HIDE DEF n
  <2> QED BY <2>2, <2>3
<1> HIDE DEF n
<1>5. ASSUME state = n PROVE ~Signals(state) /\ state' = Cardinality(Holders')
  BY <1>2, <1>4, <1>5 DEF Signals, reflock_unref, _REF, _DESTROY
<1>6. ASSUME state = _DESTROY + n
      PROVE  /\ Signals(state) <=> Holders' = {}
             /\ state' = _DESTROY + Cardinality(Holders')
  BY <1>2, <1>4, <1>6 DEF Signals, reflock_unref, _REF, _DESTROY
<1>7. Running => Running'
  BY <1>3, <1>5 DEF Running, n
<1>8. ASSUME NEW s \in Threads, s # t PROVE pc'[s] = pc[s]
  BY <1>1, <1>2, <1>8
<1>9. ASSUME NEW s \in Threads, Leaving(s), ~listed PROVE Life'
  <2>1. Leaving(s)'
    BY <1>3, <1>5, <1>8, <1>9 DEF Leaving, n
  <2> QED BY <1>3, <1>9, <2>1 DEF Life
<1>10. ASSUME NEW s \in Threads, Draining(s), ~listed PROVE Life'
  <2>1. Holders # {} /\ Signallers = {} /\ state = _DESTROY + n
    BY <1>3, <1>10 DEF Draining, n
  <2>2. IF Holders' = {} THEN Signallers' = {t} ELSE Signallers' = {}
    BY <1>3, <1>6, <2>1
  <2>3. Draining(s)'
    BY <1>3, <1>6, <1>8, <1>10, <2>1, <2>2 DEF Draining
  <2> QED BY <1>3, <1>10, <2>3 DEF Life
<1>11. ASSUME NEW s \in Threads PROVE ~Alone(s) /\ ~Gone
  BY <1>3 DEF Alone, Gone
<1>12. CASE Running
  BY <1>3, <1>7, <1>12 DEF Life
<1> QED BY <1>9, <1>10, <1>11, <1>12 DEF Life

(* The signal reaches the one that waits for it.                           *)
LEMMA SignalKeepsLife ==
  ASSUME Life, NEW t \in Threads, NEW closer \in Callers, Signal(t, closer)
  PROVE  Life'
<1>1. /\ pc \in [Threads -> Steps] /\ closer \in Threads /\ closer # t
      /\ pc[t] = "signalling" /\ pc[closer] = "awaiting"
      /\ pc' = [pc EXCEPT ![t] = "idle", ![closer] = "alone"]
      /\ UNCHANGED <<state, listed>>
  BY DEF Life, Signal, Threads
<1>2. t \in Signallers /\ closer \in Closers
  BY <1>1 DEF Signallers, Closers, In
<1>3. Draining(closer) /\ ~listed
  BY <1>1, <1>2 DEF Life, Running, Leaving, Draining, Alone, Gone
<1>4. Holders = {} /\ Signallers = {t}
  BY <1>2, <1>3 DEF Draining
<1>5. pc' \in [Threads -> Steps] /\ pc'[closer] = "alone"
  BY <1>1 DEF Steps
<1>6. Holders' = {} /\ Signallers' = {} /\ Closers' = {closer}
  <2>1. Holders' = {}
    BY <1>1, <1>4 DEF Holders, In
  <2>2. Signallers' = {}
    BY <1>1, <1>4 DEF Signallers, In
  <2>3. Closers' = Closers
    BY <1>1, <1>2 DEF Closers, In
  <2> QED BY <1>3, <2>1, <2>2, <2>3 DEF Draining
<1>7. state = _DESTROY
  BY <1>3, <1>4, FS_EmptySet DEF Draining, _DESTROY
<1>8. Alone(closer)'
  BY <1>1, <1>5, <1>6, <1>7 DEF Alone
<1> QED BY <1>1, <1>3, <1>5, <1>8 DEF Life

(* The one that closes takes a reference like any other; no one finds the  *)
(* port after it.                                                          *)
LEMMA DelKeepsLife ==
  ASSUME Life, NEW t \in Threads, reflock_tree_del_and_ref(t)
  PROVE  Life'
<1>1. /\ Running /\ pc \in [Threads -> Steps] /\ pc[t] = "idle" /\ ~listed'
      /\ pc' = [pc EXCEPT ![t] = "closing"] /\ state' = state + 1
  BY DEF Life, reflock_tree_del_and_ref, Goes, reflock_ref, _REF
<1>2. /\ pc' \in [Threads -> Steps] /\ pc'[t] = "closing" /\ Closers' = {t} /\ Signallers' = {}
      /\ Holders' = Holders \cup {t} /\ t \notin Holders /\ Holders \in SUBSET Threads
  <2>1. "closing" \in Steps
    BY DEF Steps
  <2> QED BY <1>1, <2>1, MoveOne, WhereItIs DEF Running
<1>3. state' = Cardinality(Holders')
  BY <1>1, <1>2, CountThreads DEF Running
<1> QED BY <1>1, <1>2, <1>3 DEF Life, Leaving

(* The completion port is closed.                                          *)
LEMMA CloseKeepsLife ==
  ASSUME Life, NEW t \in Threads, ep_port_close(t)
  PROVE  Life'
<1>1. /\ pc \in [Threads -> Steps] /\ pc[t] = "closing" /\ pc' = [pc EXCEPT ![t] = "dropping"]
      /\ state' = state /\ listed' = listed
  BY DEF Life, ep_port_close, Goes
<1>2. t \in Closers /\ t \in Holders /\ t \notin Signallers
  BY <1>1, WhereItIs
<1>3. Leaving(t) /\ ~listed
  BY <1>1, <1>2 DEF Life, Running, Leaving, Draining, Alone, Gone
<1>4. Closers \cup {t} = Closers /\ Holders \cup {t} = Holders /\ Signallers \ {t} = Signallers
  BY <1>2
<1>5. /\ pc' \in [Threads -> Steps] /\ pc'[t] = "dropping"
      /\ Closers' = Closers /\ Holders' = Holders /\ Signallers' = Signallers
  <2>1. "dropping" \in Steps
    BY DEF Steps
  <2> QED BY <1>1, <1>4, <2>1, MoveOne
<1>6. Leaving(t)'
  BY <1>1, <1>3, <1>5 DEF Leaving
<1> QED BY <1>1, <1>3, <1>5, <1>6 DEF Life

(* The one that closes gives its reference back and waits for the others,  *)
(* if there are any.                                                       *)
LEMMA DestroyKeepsLife ==
  ASSUME Life, NEW t \in Threads, UnrefAndDestroy(t)
  PROVE  Life'
<1> DEFINE n == Cardinality(Holders)
<1>1. PICK to \in Steps :
         /\ to = IF RefCount(reflock_unref_and_destroy(state)) # 0 THEN "awaiting" ELSE "alone"
         /\ pc' = [pc EXCEPT ![t] = to]
  BY DEF UnrefAndDestroy, Goes, Steps
<1>2. /\ pc \in [Threads -> Steps] /\ pc[t] = "dropping" /\ listed' = listed
      /\ state' = reflock_unref_and_destroy(state)
  BY DEF Life, UnrefAndDestroy, Goes
<1>3. t \in Closers /\ t \in Holders /\ t \notin Signallers /\ Holders \in SUBSET Threads
  BY <1>2, WhereItIs
<1>4. Leaving(t) /\ ~listed
  BY <1>2, <1>3 DEF Life, Running, Leaving, Draining, Alone, Gone
<1>5. /\ n \in Nat /\ n < _DESTROY /\ n # 0 /\ Cardinality(Holders \ {t}) = n - 1
      /\ n = 1 <=> Holders \ {t} = {}
  <2>1. n \in Nat /\ n < _DESTROY /\ n # 0 /\ Cardinality(Holders \ {t}) = n - 1
    BY <1>3, CountThreads
  <2>2. Cardinality(Holders \ {t}) = 0 <=> Holders \ {t} = {}
    <3>1. Holders \ {t} \in SUBSET Threads
      BY <1>3
    <3> QED BY <3>1, CountThreads
  <2> HIDE DEF n
  <2> QED BY <2>1, <2>2
<1>6. state = n
  BY <1>4 DEF Leaving
<1> HIDE DEF n
<1>7. state' = _DESTROY + (n - 1) /\ (RefCount(state') # 0 <=> n # 1)
  <2>1. state' = n + _DESTROY - 1
    BY <1>2, <1>6 DEF reflock_unref_and_destroy, _REF
  <2>2. (n + 268435456 - 1) % 268435456 = n - 1
    BY <1>5, SMT DEF _DESTROY
  <2>3. RefCount(state') = n - 1
    BY <2>1, <2>2 DEF RefCount, _DESTROY
  <2> QED BY <1>5, <2>1, <2>3, SMT DEF _DESTROY
<1>8. /\ pc' \in [Threads -> Steps] /\ pc'[t] = to
      /\ Closers' = {t} /\ Holders' = Holders \ {t} /\ Signallers' = {}
  <2>1. Closers \cup {t} = {t} /\ Signallers \ {t} = {}
    BY <1>3, <1>4 DEF Leaving
  <2>2. to \in {"awaiting", "alone"}
    BY <1>1
  <2> QED BY <1>1, <1>2, <2>1, <2>2, MoveOne
<1>9. CASE n = 1
  <2>1. Holders' = {} /\ to = "alone" /\ state' = _DESTROY
    BY <1>1, <1>2, <1>5, <1>7, <1>8, <1>9 DEF _DESTROY
  <2>2. Alone(t)'
    BY <1>8, <2>1 DEF Alone
  <2> QED BY <1>2, <1>4, <1>8, <2>2 DEF Life
<1>10. CASE n # 1
  <2>1. Holders' # {} /\ to = "awaiting" /\ state' = _DESTROY + Cardinality(Holders')
    BY <1>1, <1>2, <1>5, <1>7, <1>8, <1>10
  <2>2. Draining(t)'
    BY <1>8, <2>1 DEF Draining
  <2> QED BY <1>2, <1>4, <1>8, <2>2 DEF Life
<1> QED BY <1>9, <1>10

(* The port is deleted.                                                    *)
LEMMA DeleteKeepsLife ==
  ASSUME Life, NEW t \in Threads, ep_port_delete(t)
  PROVE  Life'
<1>1. /\ pc \in [Threads -> Steps] /\ pc[t] = "alone" /\ pc' = [pc EXCEPT ![t] = "idle"]
      /\ state' = _POISON /\ listed' = listed
  BY DEF Life, ep_port_delete, Goes
<1>2. t \in Closers
  BY <1>1, WhereItIs
<1>3. Alone(t) /\ ~listed
  BY <1>1, <1>2 DEF Life, Running, Leaving, Draining, Alone, Gone
<1>4. pc' \in [Threads -> Steps] /\ Closers' = {} /\ Holders' = {} /\ Signallers' = {}
  <2>1. "idle" \in Steps
    BY DEF Steps
  <2> QED BY <1>1, <1>3, <2>1, MoveOne DEF Alone
<1> QED BY <1>1, <1>3, <1>4 DEF Life, Gone

(* A new port is created where there was none.                             *)
LEMMA CreateKeepsLife ==
  ASSUME Life, NEW t \in Threads, epoll_create(t)
  PROVE  Life'
<1>1. /\ pc \in [Threads -> Steps] /\ pc[t] = "idle" /\ pc' = [pc EXCEPT ![t] = "idle"]
      /\ state = _POISON /\ state' = reflock_init /\ listed' = TRUE
  BY DEF Life, epoll_create, Goes
<1>2. /\ Cardinality(Holders) \in Nat /\ Cardinality(Holders) < _DESTROY
  BY WhereItIs, CountThreads
<1>3. Gone
  BY <1>1, <1>2 DEF Life, Running, Leaving, Draining, Alone, Gone, _DESTROY, _POISON
<1>4. pc' = pc
  BY <1>1
<1>5. Closers' = {} /\ Holders' = {} /\ Signallers' = {}
  BY <1>3, <1>4 DEF Gone, Closers, Holders, Signallers, In
<1>6. Running'
  BY <1>1, <1>5, FS_EmptySet DEF Running, reflock_init
<1> QED BY <1>1, <1>4, <1>6 DEF Life

(* What the rest does is nothing to the life of the port.                  *)
LEMMA OthersKeepLife ==
  ASSUME Life, UNCHANGED <<pc, state, listed>>
  PROVE  Life'
<1>1. Holders' = Holders /\ Closers' = Closers /\ Signallers' = Signallers
  BY DEF Holders, Closers, Signallers, In
<1> QED BY <1>1 DEF Life, Running, Leaving, Draining, Alone, Gone

(* Life is inductive.                                                      *)
LEMMA LifeInit == Init => Life
<1> SUFFICES ASSUME Init PROVE Life
  OBVIOUS
<1>1. Holders = {} /\ Closers = {} /\ Signallers = {} /\ pc \in [Threads -> Steps]
  BY DEF Init, Holders, Closers, Signallers, In, Steps
<1> QED BY <1>1, FS_EmptySet DEF Init, Life, Running, reflock_init

(* Every step keeps it.                                                    *)
LEMMA LifeStep ==
  ASSUME Life, [Next]_vars
  PROVE  Life'
<1> USE DEF Threads
<1>1. ASSUME NEW t \in Threads, reflock_tree_find_and_ref(t) PROVE Life'
  BY <1>1, RefKeepsLife DEF reflock_tree_find_and_ref, Goes
<1>2. ASSUME NEW t \in Threads, NEW p, pc[t] \in {"inside", "woken"}, listed' = listed, Poll(t, p)
      PROVE  Life'
  <2>1. CASE Return(t, _ep_port_update_events(p, k).port)
    BY <1>2, <2>1, UnrefKeepsLife DEF Return
  <2>2. CASE pc' = [pc EXCEPT ![t] = "polling"] /\ UNCHANGED state
    BY <1>2, <2>2, InsideKeepsLife
  <2> QED BY <1>2, <2>1, <2>2 DEF Poll
<1>3. ASSUME NEW t \in Threads, ep_port_wait(t) PROVE Life'
  BY <1>2, <1>3 DEF ep_port_wait
<1>4. ASSUME NEW t \in Threads, TakePackets(t) \/ ComesBackEmpty(t) PROVE Life'
  BY <1>4, InsideKeepsLife DEF TakePackets, ComesBackEmpty, Goes
<1>5. ASSUME NEW t \in Threads, LookAtPackets(t) PROVE Life'
  <2>1. ASSUME NEW p, Return(t, p) PROVE Life'
    BY <1>5, <2>1, UnrefKeepsLife DEF LookAtPackets, Return
  <2>2. ASSUME Poll(t, Fed(t).port) PROVE Life'
    BY <1>2, <1>5, <2>2 DEF LookAtPackets
  <2> QED BY <1>5, <2>1, <2>2 DEF LookAtPackets
<1>6. ASSUME NEW t \in Threads, epoll_ctl(t) PROVE Life'
  BY <1>6, UnrefKeepsLife DEF epoll_ctl
<1>7. ASSUME NEW h \in SOCKETs,
             Opens(h) \/ Closes(h) \/ Changes(h) \/ Breaks(h) \/ Completes(h)
      PROVE  Life'
  BY <1>7, OthersKeepLife DEF Opens, Closes, Changes, Breaks, Completes
<1>8. CASE UNCHANGED vars
  BY <1>8, OthersKeepLife DEF vars
<1> QED
  BY <1>1, <1>3, <1>4, <1>5, <1>6, <1>7, <1>8, SignalKeepsLife, DelKeepsLife,
     CloseKeepsLife, DestroyKeepsLife, DeleteKeepsLife, CreateKeepsLife
  DEF Next

(* The port is taken apart by the thread that closed it, alone: whatever   *)
(* the number of threads and wherever they are, each of them holds a       *)
(* reference or has no business with the port, and the signal of the last  *)
(* one comes before the port goes.                                         *)
THEOREM PortOutlives == Spec => []PortOutlivesCalls
<1>1. Life => PortOutlivesCalls
  <2> SUFFICES ASSUME Life, (\E t \in Threads : pc[t] = "alone") \/ ~Live, NEW t \in Threads
               PROVE  pc[t] \in {"idle", "alone"}
    BY DEF PortOutlivesCalls
  <2>1. Cardinality(Holders) \in Nat /\ Cardinality(Holders) < _DESTROY
    BY WhereItIs, CountThreads
  <2>2. Gone \/ \E s \in Threads : Alone(s)
    BY <2>1, WhereItIs DEF Life, Running, Leaving, Draining, Live, _DESTROY, _POISON
  <2>3. t \notin Holders /\ t \notin Signallers /\ (t \in Closers => pc[t] = "alone")
    BY <2>2 DEF Gone, Alone
  <2> QED BY <2>3, WhereItIs DEF Life, Steps
<1> QED BY <1>1, LifeInit, LifeStep, PTL DEF Spec

----------------------------------------------------------------------------
(* What every operation of a port preserves.                               *)


Group   == [id : Nat, size : Nat]

\* What the driver watches and reports, and what the user may ask for.
AfdFlags == Conditions \cup {"LOCAL_CLOSE", "FAILED"}
Events   == (UNION Masks) \cup AlwaysReported

Packet  == [sock : SockIds, outcome : SUBSET AfdFlags]
Request == [sock : SockIds, mask : SUBSET AfdFlags]

Sock ==
  [ socket : SOCKETs, poll_group : Nat, user_data : SOCKETs,
    user_events : SUBSET Events, pending_events : SUBSET Events,
    poll_status : {IDLE, PENDING, CANCELLED}, delete_pending : BOOLEAN ]

Port ==
  [ sock : UNION {[D -> Sock] : D \in SUBSET SockIds},
    tree : UNION {[T -> SockIds] : T \in SUBSET SOCKETs},
    update : Seq(SockIds), deleted : Seq(SockIds), groups : Seq(Group),
    active : Int, open : BOOLEAN, iocp : Seq(Packet), afd : SUBSET Request ]

\* The ep_socks packets are for, and that no two are for the same.
SocksOf(packets) == {c.sock : c \in ToSet(packets)}
Apart(packets)   == \A i, j \in DOMAIN packets : packets[i].sock = packets[j].sock => i = j

Result == [ok : BOOLEAN, port : Port]

\* Neither epoll_wait nor epoll_close has anything to do with it.
SameUse(p, q) == q.active = p.active /\ q.open = p.open

\* What becomes of the queue of p when ep_sock id of it is updated.
UpdateGives(p, kernel, id, r) ==
  /\ r.port.active = p.active /\ r.port.open = p.open
  /\ IF r.ok THEN ToSet(r.port.update) = ToSet(p.update) \ {id} ELSE kernel.broken # {}

AllUpdated(kernel, r) == IF r.ok THEN r.port.update = << >> ELSE kernel.broken # {}

\* An ep_sock is in one queue at most: of those to update, or to free.
Queued(p) ==
  /\ IsInjective(p.update) /\ IsInjective(p.deleted)
  /\ \A id \in ToSet(p.update) : id \in DOMAIN p.sock /\ ~p.sock[id].delete_pending
  /\ \A id \in ToSet(p.deleted) : id \in DOMAIN p.sock /\ p.sock[id].delete_pending

\* The tree has the ep_socks that are not to be deleted, by their handles.
Listed(p) ==
  /\ \A h \in DOMAIN p.tree : LET id == p.tree[h]
                              IN  /\ id \in DOMAIN p.sock /\ p.sock[id].socket = h
                                  /\ ~p.sock[id].delete_pending
  /\ \A id \in DOMAIN p.sock :
       ~p.sock[id].delete_pending =>
         Registered(p, p.sock[id].socket) /\ p.tree[p.sock[id].socket] = id

\* An ep_sock whose poll is not over is owed one packet: the driver will
\* send it, it is in the completion port, or it is held.
Requested(p) == {r.sock : r \in p.afd}
Arrived(p)   == {c.sock : c \in ToSet(p.iocp)}
Polled(p)    == {id \in DOMAIN p.sock : p.sock[id].poll_status # IDLE}

Owed(p, held) ==
  /\ \A r, q \in p.afd : r.sock = q.sock => r = q
  /\ \A i, j \in DOMAIN p.iocp : p.iocp[i].sock = p.iocp[j].sock => i = j
  /\ Requested(p) \cap Arrived(p) = {}
  /\ held \cap (Requested(p) \cup Arrived(p)) = {}
  /\ Requested(p) \cup Arrived(p) \cup held \subseteq Polled(p)
  /\ p.open => Polled(p) \subseteq Requested(p) \cup Arrived(p) \cup held
  /\ \A r \in p.afd : p.sock[r.sock].poll_status = PENDING
  /\ ~p.open => p.iocp = << >>

\* The groups that are full come first.
Packed(groups) ==
  \A i \in 1 .. Len(groups) - 1 : IsFull(groups[i + 1]) => IsFull(groups[i])

GroupsOK(groups) ==
  /\ groups \in Seq(Group)
  /\ \A i \in 1 .. Len(groups) : groups[i].id \in 1 .. Len(groups)
                              /\ groups[i].size <= POLL_GROUP_MAX_SIZE
  /\ \A i, j \in 1 .. Len(groups) : groups[i].id = groups[j].id => i = j
  /\ Packed(groups)

UsersOf(p, g) == {id \in DOMAIN p.sock : p.sock[id].poll_group = g}

Grouped(p) ==
  /\ GroupsOK(p.groups)
  /\ \A id \in DOMAIN p.sock : p.sock[id].poll_group \in {g.id : g \in ToSet(p.groups)}
  /\ \A g \in ToSet(p.groups) : g.size = Cardinality(UsersOf(p, g.id))

Sound(p, held) == p \in Port /\ Queued(p) /\ Listed(p) /\ Owed(p, held) /\ Grouped(p)

\* An ep_sock is not forgotten: it is to be freed and waits for its packet,
\* or it is to be updated, or will be when its packet comes.
Attended(p, id) ==
  LET s == p.sock[id]
  IN  IF s.delete_pending THEN s.poll_status = CANCELLED /\ id \in ToSet(p.deleted)
      ELSE \/ id \in ToSet(p.update)
           \/ s.poll_status = CANCELLED
           \/ s.poll_status = PENDING /\ Unwatched(s) = {}

AllAttended(p)        == \A id \in DOMAIN p.sock : Attended(p, id)
OthersAttended(p, id) == \A i \in DOMAIN p.sock \ {id} : Attended(p, i)

PortOK(p, held) == Sound(p, held) /\ AllAttended(p)

----------------------------------------------------------------------------
(* Queues.                                                                 *)

(* A sequence without one of its elements.                                 *)
LEMMA RemoveAtIs ==
  ASSUME NEW S, NEW q \in Seq(S), NEW i \in 1 .. Len(q)
  PROVE  /\ RemoveAt(q, i) \in Seq(S) /\ Len(RemoveAt(q, i)) = Len(q) - 1
         /\ \A j \in 1 .. Len(q) - 1 : RemoveAt(q, i)[j] = IF j < i THEN q[j] ELSE q[j + 1]
<1> DEFINE n == Len(q)
           a == SubSeq(q, 1, i - 1)
           b == SubSeq(q, i + 1, n)
<1>1. n \in Nat /\ i \in 1 .. n /\ \A j \in 1 .. n : q[j] \in S
  BY LenProperties, ElementOfSeq
<1>2. RemoveAt(q, i) = a \o b
  BY DEF RemoveAt
<1> HIDE DEF n
<1>3. a \in Seq(S) /\ Len(a) = i - 1 /\ \A j \in 1 .. i - 1 : a[j] = q[j]
  <2>1. 1 \in Int /\ i - 1 \in Int /\ \A j \in 1 .. i - 1 : q[j] \in S
    BY <1>1, SMT
  <2>2. /\ a \in Seq(S) /\ Len(a) = IF 1 <= i - 1 THEN (i - 1) - 1 + 1 ELSE 0
        /\ \A j \in 1 .. (i - 1) - 1 + 1 : a[j] = q[1 + j - 1]
    <3> HIDE DEF n
    <3> QED BY <2>1, SubSeqProperties
  <2> HIDE DEF a
  <2> QED BY <1>1, <2>2
<1>4. b \in Seq(S) /\ Len(b) = n - i /\ \A j \in 1 .. n - i : b[j] = q[i + j]
  <2>1. i + 1 \in Int /\ n \in Int /\ \A j \in i + 1 .. n : q[j] \in S
    BY <1>1, SMT
  <2>2. /\ b \in Seq(S) /\ Len(b) = IF i + 1 <= n THEN n - (i + 1) + 1 ELSE 0
        /\ \A j \in 1 .. n - (i + 1) + 1 : b[j] = q[(i + 1) + j - 1]
    BY <2>1, SubSeqProperties
  <2> HIDE DEF b
  <2> QED BY <1>1, <2>2
<1> HIDE DEF a, b
<1>5. /\ a \o b \in Seq(S) /\ Len(a \o b) = Len(a) + Len(b)
      /\ \A j \in 1 .. Len(a) + Len(b) : (a \o b)[j] = IF j <= Len(a) THEN a[j] ELSE b[j - Len(a)]
  BY <1>3, <1>4, ConcatProperties
<1>6. Len(a) + Len(b) = n - 1
  BY <1>1, <1>3, <1>4
<1>7. ASSUME NEW j \in 1 .. n - 1 PROVE (a \o b)[j] = IF j < i THEN q[j] ELSE q[j + 1]
  <2>1. (a \o b)[j] = IF j <= Len(a) THEN a[j] ELSE b[j - Len(a)]
    BY <1>5, <1>6
  <2>2. CASE j < i
    <3>1. j <= Len(a) /\ j \in 1 .. i - 1
      BY <1>1, <1>3, <2>2
    <3> QED BY <1>3, <2>1, <2>2, <3>1
  <2>3. CASE ~(j < i)
    <3>1. ~(j <= Len(a)) /\ j - Len(a) \in 1 .. n - i /\ i + (j - Len(a)) = j + 1
      BY <1>1, <1>3, <2>3
    <3>2. b[j - Len(a)] = q[j + 1]
      BY <1>4, <3>1
    <3> QED BY <2>1, <2>3, <3>1, <3>2
  <2> QED BY <2>2, <2>3
<1> QED BY <1>2, <1>5, <1>6, <1>7 DEF n

(* Removing an element of a queue that has it once.                        *)
LEMMA RemoveFirstIs ==
  ASSUME NEW S, NEW q \in Seq(S), IsInjective(q), NEW e
  PROVE  /\ RemoveFirst(q, e) \in Seq(S) /\ IsInjective(RemoveFirst(q, e))
         /\ ToSet(RemoveFirst(q, e)) = ToSet(q) \ {e}
<1>1. Len(q) \in Nat /\ DOMAIN q = 1 .. Len(q)
  BY LenProperties
<1>2. CASE e \notin ToSet(q)
  <2>1. ~\E i \in 1 .. Len(q) : q[i] = e
    BY <1>1, <1>2 DEF ToSet
  <2>2. RemoveFirst(q, e) = q
    BY <2>1 DEF RemoveFirst
  <2> QED BY <1>2, <2>2
<1>3. CASE e \in ToSet(q)
  <2>1. PICK i \in 1 .. Len(q) : q[i] = e
    BY <1>1, <1>3 DEF ToSet
  <2>2. {j \in 1 .. Len(q) : q[j] = e} = {i}
    BY <1>1, <2>1 DEF IsInjective
  <2>3. Min({i}) = i
    BY DEF Min
  <2>4. RemoveFirst(q, e) = RemoveAt(q, i)
    BY <2>1, <2>2, <2>3 DEF RemoveFirst, SelectInSeq
  <2> DEFINE r == RemoveAt(q, i)
  <2>5. /\ r \in Seq(S) /\ Len(r) = Len(q) - 1
        /\ \A j \in 1 .. Len(q) - 1 : r[j] = IF j < i THEN q[j] ELSE q[j + 1]
    BY RemoveAtIs
  <2> HIDE DEF r
  <2>6. DOMAIN r = 1 .. Len(q) - 1
    BY <2>5, LenProperties
  <2>7. IsInjective(r)
    <3> SUFFICES ASSUME NEW a \in 1 .. Len(q) - 1, NEW b \in 1 .. Len(q) - 1, r[a] = r[b]
                 PROVE  a = b
      BY <2>6 DEF IsInjective
    <3>1. PICK c \in 1 .. Len(q) : c = IF a < i THEN a ELSE a + 1
      BY <1>1
    <3>2. PICK d \in 1 .. Len(q) : d = IF b < i THEN b ELSE b + 1
      BY <1>1
    <3>3. q[c] = q[d]
      BY <2>5, <3>1, <3>2
    <3>4. c = d
      BY <1>1, <3>3 DEF IsInjective
    <3> QED BY <1>1, <3>1, <3>2, <3>4
  <2>8. ASSUME NEW x PROVE x \in ToSet(r) <=> x \in ToSet(q) \ {e}
    <3>1. ASSUME NEW j \in 1 .. Len(q) - 1, x = r[j] PROVE x \in ToSet(q) \ {e}
      <4>1. PICK c \in 1 .. Len(q) : c = IF j < i THEN j ELSE j + 1
        BY <1>1
      <4>2. x = q[c] /\ c # i
        BY <1>1, <2>5, <3>1, <4>1
      <4> QED BY <1>1, <2>1, <4>2 DEF ToSet, IsInjective
    <3>2. ASSUME NEW c \in 1 .. Len(q), x = q[c], x # e PROVE x \in ToSet(r)
      <4>1. c # i
        BY <2>1, <3>2
      <4>2. PICK j \in 1 .. Len(q) - 1 : j = IF c < i THEN c ELSE c - 1
        BY <1>1, <4>1
      <4>3. (j < i => c = j) /\ (~(j < i) => c = j + 1)
        BY <1>1, <4>1, <4>2
      <4>4. r[j] = x
        BY <2>5, <3>2, <4>3
      <4> QED BY <2>6, <4>4 DEF ToSet
    <3> QED BY <1>1, <2>6, <3>1, <3>2 DEF ToSet
  <2> QED BY <2>4, <2>5, <2>7, <2>8 DEF r
<1> QED BY <1>2, <1>3

(* Removing the head leaves the tail.                                      *)
LEMMA RemoveHead ==
  ASSUME NEW S, NEW q \in Seq(S), IsInjective(q), q # << >>
  PROVE  RemoveFirst(q, q[1]) = Tail(q)
<1>1. Len(q) \in Nat /\ DOMAIN q = 1 .. Len(q) /\ Len(q) # 0
  BY LenProperties, EmptySeq
<1>2. 1 \in 1 .. Len(q)
  BY <1>1
<1>3. {j \in 1 .. Len(q) : q[j] = q[1]} = {1}
  BY <1>1, <1>2 DEF IsInjective
<1>4. Min({1}) = 1
  BY DEF Min
<1>5. RemoveFirst(q, q[1]) = RemoveAt(q, 1)
  BY <1>2, <1>3, <1>4 DEF RemoveFirst, SelectInSeq
<1>6. /\ RemoveAt(q, 1) \in Seq(S) /\ Len(RemoveAt(q, 1)) = Len(q) - 1
      /\ \A j \in 1 .. Len(q) - 1 : RemoveAt(q, 1)[j] = q[j + 1]
  BY <1>2, RemoveAtIs
<1>7. /\ Tail(q) \in Seq(S) /\ Len(Tail(q)) = Len(q) - 1
      /\ \A j \in 1 .. Len(q) - 1 : Tail(q)[j] = q[j + 1]
  BY HeadTailProperties
<1> QED BY <1>5, <1>6, <1>7, SeqEqual

(* Appending an element that a queue does not have.                        *)
LEMMA AppendIs ==
  ASSUME NEW S, NEW q \in Seq(S), NEW e \in S
  PROVE  /\ Append(q, e) \in Seq(S) /\ ToSet(Append(q, e)) = ToSet(q) \cup {e}
         /\ IsInjective(q) /\ e \notin ToSet(q) => IsInjective(Append(q, e))
<1>1. /\ Len(q) \in Nat /\ DOMAIN q = 1 .. Len(q)
      /\ Append(q, e) \in Seq(S) /\ Len(Append(q, e)) = Len(q) + 1
      /\ \A i \in 1 .. Len(q) : Append(q, e)[i] = q[i]
      /\ Append(q, e)[Len(q) + 1] = e
  BY LenProperties, AppendProperties
<1>2. DOMAIN Append(q, e) = 1 .. Len(q) + 1
  BY <1>1, LenProperties
<1>3. ToSet(Append(q, e)) = ToSet(q) \cup {e}
  BY <1>1, <1>2 DEF ToSet
<1>4. ASSUME IsInjective(q), e \notin ToSet(q) PROVE IsInjective(Append(q, e))
  BY <1>1, <1>2, <1>4 DEF IsInjective, ToSet
<1> QED BY <1>1, <1>3, <1>4

----------------------------------------------------------------------------
(* Poll groups.                                                            *)

(* A group is given up by one ep_sock: the others are as they were, and    *)
(* the groups that are full still come first.                              *)
LEMMA ReleaseIs ==
  ASSUME NEW q, GroupsOK(q), NEW o \in ToSet(q), o.size # 0
  PROVE  /\ GroupsOK(Release(q, o.id))
         /\ ToSet(Release(q, o.id)) = (ToSet(q) \ {o}) \cup {[o EXCEPT !.size = @ - 1]}
<1> DEFINE n == Len(q)
           less == [o EXCEPT !.size = @ - 1]
<1>1. /\ q \in Seq(Group) /\ n \in Nat /\ DOMAIN q = 1 .. n
      /\ \A i \in 1 .. n : q[i] \in Group
  BY LenProperties, ElementOfSeq DEF GroupsOK
<1>2. PICK i \in 1 .. n : q[i] = o
  BY <1>1 DEF ToSet
<1>3. \A j \in 1 .. n : q[j].id = o.id => j = i
  BY <1>2 DEF GroupsOK
<1>4. (CHOOSE j \in 1 .. Len(q) : q[j].id = o.id) = i
  BY <1>2, <1>3
<1> DEFINE r == RemoveAt(q, i)
           new == Append(r, less)
<1>5. Release(q, o.id) = new
  BY <1>2, <1>4 DEF Release
<1>6. /\ r \in Seq(Group) /\ Len(r) = n - 1
      /\ \A j \in 1 .. n - 1 : r[j] = IF j < i THEN q[j] ELSE q[j + 1]
  BY <1>1, RemoveAtIs
<1>7. /\ less \in Group /\ less.id = o.id /\ ~IsFull(less)
      /\ less.size <= POLL_GROUP_MAX_SIZE /\ o.id \in 1 .. n
  <2>1. o \in Group /\ o.size <= POLL_GROUP_MAX_SIZE /\ o.id \in 1 .. n
    BY <1>1, <1>2 DEF GroupsOK
  <2>2. less = [id |-> o.id, size |-> o.size - 1]
    BY <2>1 DEF Group
  <2>3. o.size - 1 \in Nat /\ o.size - 1 < POLL_GROUP_MAX_SIZE
    BY <2>1, GroupSizeAssumption DEF Group
  <2> HIDE DEF less
  <2> QED BY <2>1, <2>2, <2>3, GroupSizeAssumption DEF Group, IsFull
<1>8. n = Len(q)
  OBVIOUS
<1> HIDE DEF r, less, n
<1>9. /\ new \in Seq(Group) /\ Len(new) = n
      /\ \A j \in 1 .. n - 1 : new[j] = r[j]
      /\ new[n] = less
  <2>1. /\ new \in Seq(Group) /\ Len(new) = Len(r) + 1
        /\ \A j \in 1 .. Len(r) : new[j] = r[j]
        /\ new[Len(r) + 1] = less
    BY <1>6, <1>7, AppendProperties
  <2>2. Len(r) + 1 = n
    BY <1>1, <1>6
  <2> HIDE DEF new
  <2> QED BY <1>6, <2>1, <2>2
<1> HIDE DEF new
<1>10. DOMAIN new = 1 .. n
  BY <1>9, LenProperties
\* Where each group of the new queue was.
<1> DEFINE was == [j \in 1 .. n |-> IF j = n THEN i ELSE IF j < i THEN j ELSE j + 1]
<1>11. /\ \A j \in 1 .. n : was[j] \in 1 .. n /\ new[j].id = q[was[j]].id
                            /\ (j # n => new[j] = q[was[j]] /\ was[j] # i)
       /\ \A j, l \in 1 .. n : was[j] = was[l] => j = l
       /\ \A l \in 1 .. n : l # i => \E j \in 1 .. n - 1 : was[j] = l
  <2>1. ASSUME NEW j \in 1 .. n, j # n
        PROVE  was[j] \in 1 .. n /\ new[j] = q[was[j]] /\ was[j] # i
    BY <1>1, <1>6, <1>9, <2>1
  <2>2. was[n] = i /\ n \in 1 .. n /\ new[n].id = q[i].id
    BY <1>1, <1>2, <1>7, <1>9
  <2>3. \A j, l \in 1 .. n : was[j] = was[l] => j = l
    BY <1>1
  <2>4. ASSUME NEW l \in 1 .. n, l # i PROVE \E j \in 1 .. n - 1 : was[j] = l
    <3>1. CASE l < i
      <4>1. l \in 1 .. n - 1 /\ l # n
        BY <1>1, <3>1
      <4>2. was[l] = l
        BY <3>1, <4>1
      <4> HIDE DEF was
      <4> QED BY <4>1, <4>2
    <3>2. CASE l > i
      <4>1. l - 1 \in 1 .. n - 1 /\ l - 1 \in 1 .. n /\ l - 1 # n /\ ~(l - 1 < i)
            /\ (l - 1) + 1 = l
        BY <1>1, <3>2
      <4>2. was[l - 1] = l
        BY <4>1
      <4> HIDE DEF was
      <4> QED BY <4>1, <4>2
    <3>3. l < i \/ l > i
      BY <1>1, <2>4
    <3> HIDE DEF was
    <3> QED BY <3>1, <3>2, <3>3
  <2> HIDE DEF was
  <2> QED BY <2>1, <2>2, <2>3, <2>4
<1>12. \A j \in 1 .. n : new[j].id \in 1 .. n /\ new[j].size <= POLL_GROUP_MAX_SIZE
  <2> SUFFICES ASSUME NEW j \in 1 .. n
               PROVE  new[j].id \in 1 .. n /\ new[j].size <= POLL_GROUP_MAX_SIZE
    OBVIOUS
  <2> HIDE DEF was
  <2>1. CASE j = n
    BY <1>7, <1>9, <2>1
  <2>2. CASE j # n
    <3>1. PICK l \in 1 .. n : new[j] = q[l]
      BY <1>11, <2>2
    <3>2. q[l].id \in 1 .. n /\ q[l].size <= POLL_GROUP_MAX_SIZE
      BY <1>8 DEF GroupsOK
    <3> QED BY <3>1, <3>2
  <2> QED BY <2>1, <2>2
<1>13. \A j, l \in 1 .. n : new[j].id = new[l].id => j = l
  <2> HIDE DEF was
  <2> SUFFICES ASSUME NEW j \in 1 .. n, NEW l \in 1 .. n, new[j].id = new[l].id
               PROVE  j = l
    OBVIOUS
  <2>1. q[was[j]].id = q[was[l]].id /\ was[j] \in 1 .. n /\ was[l] \in 1 .. n
    BY <1>11
  <2>2. was[j] = was[l]
    BY <1>8, <2>1 DEF GroupsOK
  <2> QED BY <1>11, <2>2
<1>14. Packed(new)
  <2> SUFFICES ASSUME NEW j \in 1 .. n - 1, IsFull(new[j + 1]) PROVE IsFull(new[j])
    BY <1>9 DEF Packed
  <2>1. j + 1 # n
    BY <1>7, <1>9
  <2>2. j + 1 \in 1 .. n - 1 /\ j + 1 < n
    BY <1>1, <2>1
  <2>3. new[j] = (IF j < i THEN q[j] ELSE q[j + 1]) /\ new[j + 1] = IF j + 1 < i THEN q[j + 1] ELSE q[(j + 1) + 1]
    BY <1>6, <1>9, <2>2
  <2>4. \A l \in 1 .. n - 1 : IsFull(q[l + 1]) => IsFull(q[l])
    BY <1>8 DEF GroupsOK, Packed
  <2>5. (IsFull(q[j + 1]) => IsFull(q[j])) /\ (IsFull(q[(j + 1) + 1]) => IsFull(q[j + 1]))
    BY <2>2, <2>4
  <2>6. j < i \/ ~(j + 1 < i)
    BY <1>1
  <2> QED BY <2>3, <2>5, <2>6
<1>15. ToSet(new) = (ToSet(q) \ {o}) \cup {less}
  <2> HIDE DEF was
  <2>1. ASSUME NEW j \in 1 .. n PROVE new[j] \in (ToSet(q) \ {o}) \cup {less}
    <3>1. CASE j = n
      BY <1>9, <3>1
    <3>2. CASE j # n
      <4>1. was[j] \in 1 .. n /\ new[j] = q[was[j]] /\ was[j] # i
        BY <1>11, <3>2
      <4>2. q[was[j]] # o
        BY <1>3, <4>1
      <4> QED BY <1>1, <4>1, <4>2 DEF ToSet
    <3> QED BY <3>1, <3>2
  <2>2. ASSUME NEW l \in 1 .. n, q[l] # o PROVE \E j \in 1 .. n : new[j] = q[l]
    <3>1. l # i
      BY <1>2, <2>2
    <3>2. PICK j \in 1 .. n - 1 : was[j] = l
      BY <1>11, <3>1
    <3>3. j \in 1 .. n /\ j # n
      BY <1>1
    <3> QED BY <1>11, <3>2, <3>3
  <2>3. n \in 1 .. n
    BY <1>1
  <2>4. less \in ToSet(new)
    BY <1>9, <1>10, <2>3 DEF ToSet
  <2>5. ToSet(new) \subseteq (ToSet(q) \ {o}) \cup {less}
    BY <1>10, <2>1 DEF ToSet
  <2>6. ToSet(q) \ {o} \subseteq ToSet(new)
    BY <1>1, <1>10, <2>2 DEF ToSet
  <2> QED BY <2>4, <2>5, <2>6
<1>16. GroupsOK(new)
  BY <1>8, <1>9, <1>12, <1>13, <1>14 DEF GroupsOK
<1> QED BY <1>5, <1>15, <1>16 DEF less

(* A group put at the front when it is full, at the end when it is not.    *)
LEMMA PlacedIs ==
  ASSUME NEW rest \in Seq(Group), Packed(rest), NEW g \in Group,
         NEW n \in Nat, n = Len(rest), g.id \in 1 .. n + 1, g.size <= POLL_GROUP_MAX_SIZE,
         \A i \in 1 .. n : rest[i].id \in 1 .. n + 1 /\ rest[i].id # g.id
                        /\ rest[i].size <= POLL_GROUP_MAX_SIZE,
         \A i, j \in 1 .. n : rest[i].id = rest[j].id => i = j,
         NEW placed, placed = IF IsFull(g) THEN <<g>> \o rest ELSE Append(rest, g)
  PROVE  GroupsOK(placed) /\ ToSet(placed) = ToSet(rest) \cup {g}
<1>1. DOMAIN rest = 1 .. n
  BY LenProperties
<1>2. CASE ~IsFull(g)
  <2>1. /\ placed \in Seq(Group) /\ Len(placed) = n + 1
        /\ \A i \in 1 .. n : placed[i] = rest[i]
        /\ placed[n + 1] = g
    BY <1>2, AppendProperties
  <2>2. \A i \in 1 .. n + 1 : i \in 1 .. n \/ i = n + 1
    OBVIOUS
  <2>3. \A i \in 1 .. n + 1 : placed[i].id \in 1 .. n + 1 /\ placed[i].size <= POLL_GROUP_MAX_SIZE
    BY <2>1, <2>2
  <2>4. \A i, j \in 1 .. n + 1 : placed[i].id = placed[j].id => i = j
    BY <2>1, <2>2
  <2>5. Packed(placed)
    <3> SUFFICES ASSUME NEW i \in 1 .. n, IsFull(placed[i + 1]) PROVE IsFull(placed[i])
      BY <2>1 DEF Packed
    <3>1. i + 1 \in 1 .. n /\ i \in 1 .. n - 1
      <4>1. i + 1 # n + 1
        BY <1>2, <2>1
      <4> QED BY <4>1
    <3> QED BY <2>1, <3>1 DEF Packed
  <2>6. ToSet(placed) = ToSet(rest) \cup {g}
    BY <1>2, AppendIs
  <2> QED BY <2>1, <2>3, <2>4, <2>5, <2>6 DEF GroupsOK
<1>3. CASE IsFull(g)
  <2>1. <<g>> \in Seq(Group) /\ Len(<<g>>) = 1 /\ <<g>>[1] = g
    OBVIOUS
  <2>2. /\ placed \in Seq(Group) /\ Len(placed) = 1 + n
        /\ \A i \in 1 .. 1 + n : placed[i] = IF i <= 1 THEN <<g>>[i] ELSE rest[i - 1]
    <3>1. <<g>> \o rest = placed
      BY <1>3
    <3> QED BY <2>1, <3>1, ConcatProperties
  <2>3. Len(placed) = n + 1 /\ placed[1] = g /\ \A i \in 1 .. n : placed[i + 1] = rest[i]
    <3>1. 1 \in 1 .. 1 + n
      OBVIOUS
    <3>2. ASSUME NEW i \in 1 .. n PROVE placed[i + 1] = rest[i]
      <4>1. i + 1 \in 1 .. 1 + n /\ ~(i + 1 <= 1) /\ (i + 1) - 1 = i
        OBVIOUS
      <4> QED BY <2>2, <4>1
    <3> QED BY <2>1, <2>2, <3>1, <3>2
  <2>4. ASSUME NEW i \in 1 .. n + 1 PROVE i = 1 \/ \E j \in 1 .. n : i = j + 1
    <3>1. i # 1 => i - 1 \in 1 .. n /\ i = (i - 1) + 1
      OBVIOUS
    <3> QED BY <3>1
  <2>5. \A i \in 1 .. n + 1 : placed[i].id \in 1 .. n + 1 /\ placed[i].size <= POLL_GROUP_MAX_SIZE
    BY <2>3, <2>4
  <2>6. \A i, j \in 1 .. n + 1 : placed[i].id = placed[j].id => i = j
    BY <2>3, <2>4
  <2>7. Packed(placed)
    <3> SUFFICES ASSUME NEW i \in 1 .. n, IsFull(placed[i + 1]) PROVE IsFull(placed[i])
      BY <2>3 DEF Packed
    <3>1. CASE i = 1
      BY <1>3, <2>3, <3>1
    <3>2. CASE i # 1
      <4>1. i - 1 \in 1 .. n - 1 /\ i - 1 \in 1 .. n /\ (i - 1) + 1 = i
        BY <3>2
      <4>2. placed[i] = rest[i - 1] /\ placed[i + 1] = rest[i]
        BY <2>3, <4>1
      <4>3. IsFull(rest[(i - 1) + 1]) => IsFull(rest[i - 1])
        BY <4>1 DEF Packed
      <4> QED BY <4>1, <4>2, <4>3
    <3> QED BY <3>1, <3>2
  <2>8. ToSet(placed) = ToSet(rest) \cup {g}
    <3>1. DOMAIN placed = 1 .. n + 1 /\ 1 \in 1 .. n + 1
      BY <2>2, <2>3, LenProperties
    <3>2. ToSet(placed) \subseteq ToSet(rest) \cup {g}
      BY <1>1, <2>3, <2>4, <3>1 DEF ToSet
    <3>3. g \in ToSet(placed)
      BY <2>3, <3>1 DEF ToSet
    <3>4. ASSUME NEW i \in 1 .. n PROVE rest[i] \in ToSet(placed)
      <4>1. i + 1 \in DOMAIN placed /\ placed[i + 1] = rest[i]
        BY <2>3, <3>1
      <4> QED BY <4>1 DEF ToSet
    <3>5. ToSet(rest) \subseteq ToSet(placed)
      BY <1>1, <3>4 DEF ToSet
    <3> QED BY <3>2, <3>3, <3>5
  <2> QED BY <2>2, <2>3, <2>5, <2>6, <2>7, <2>8 DEF GroupsOK
<1> QED BY <1>2, <1>3

(* A new ep_sock gets a group with room: a new one when all are full.      *)
LEMMA AcquireIs ==
  ASSUME NEW q, GroupsOK(q), NEW g, g = Grown(q)
  PROVE  /\ GroupsOK(Acquire(q)) /\ g \in Group
         /\ \/ /\ g.size = 1 /\ \A o \in ToSet(q) : o.id # g.id
               /\ ToSet(Acquire(q)) = ToSet(q) \cup {g}
            \/ \E o \in ToSet(q) : /\ g = [o EXCEPT !.size = @ + 1]
                                   /\ ToSet(Acquire(q)) = (ToSet(q) \ {o}) \cup {g}
<1>1. PICK n \in Nat : n = Len(q)
  BY LenProperties DEF GroupsOK
<1>2. /\ q \in Seq(Group) /\ DOMAIN q = 1 .. n /\ Packed(q)
      /\ \A i \in 1 .. n : q[i] \in Group /\ q[i].id \in 1 .. n /\ q[i].size <= POLL_GROUP_MAX_SIZE
      /\ \A i, j \in 1 .. n : q[i].id = q[j].id => i = j
  BY <1>1, LenProperties, ElementOfSeq DEF GroupsOK
<1>3. CASE NeedsNewGroup(q)
  <2>1. g = [id |-> n + 1, size |-> 1]
    BY <1>1, <1>3 DEF Grown
  <2>2. Acquire(q) = IF IsFull(g) THEN <<g>> \o q ELSE Append(q, g)
    BY <1>3 DEF Acquire
  <2>3. g \in Group /\ g.id = n + 1 /\ g.size = 1 /\ g.size <= POLL_GROUP_MAX_SIZE
    BY <2>1, GroupSizeAssumption DEF Group
  <2>4. /\ g.id \in 1 .. n + 1
        /\ \A i \in 1 .. n : q[i].id \in 1 .. n + 1 /\ q[i].id # g.id
                          /\ q[i].size <= POLL_GROUP_MAX_SIZE
    BY <1>2, <2>3
  <2>5. GroupsOK(Acquire(q)) /\ ToSet(Acquire(q)) = ToSet(q) \cup {g}
    BY <1>1, <1>2, <2>2, <2>3, <2>4, PlacedIs
  <2>6. \A o \in ToSet(q) : o.id # g.id
    BY <1>2, <2>4 DEF ToSet
  <2> QED BY <2>3, <2>5, <2>6
<1>4. CASE ~NeedsNewGroup(q)
  <2> DEFINE rest == SubSeq(q, 1, n - 1)
             o == q[n]
  <2>1. n # 0 /\ n \in 1 .. n
    <3>1. q # << >>
      BY <1>4 DEF NeedsNewGroup
    <3> QED BY <1>1, <1>2, <3>1, EmptySeq
  <2>2. o \in Group /\ o \in ToSet(q) /\ ~IsFull(o) /\ g = [o EXCEPT !.size = @ + 1]
    BY <1>1, <1>2, <1>4, <2>1 DEF NeedsNewGroup, Last, Grown, ToSet
  <2>3. Acquire(q) = IF IsFull(g) THEN <<g>> \o rest ELSE Append(rest, g)
    BY <1>1, <1>4 DEF Acquire, Front
  <2>4. /\ rest \in Seq(Group) /\ Len(rest) = n - 1
        /\ \A i \in 1 .. n - 1 : rest[i] = q[i]
    <3>1. 1 \in Int /\ n - 1 \in Int /\ \A i \in 1 .. n - 1 : q[i] \in Group
      BY <1>2
    <3>2. /\ rest \in Seq(Group) /\ Len(rest) = IF 1 <= n - 1 THEN (n - 1) - 1 + 1 ELSE 0
          /\ \A i \in 1 .. (n - 1) - 1 + 1 : rest[i] = q[1 + i - 1]
      BY <3>1, SubSeqProperties
    <3> HIDE DEF rest
    <3> QED BY <2>1, <3>2
  <2> HIDE DEF rest
  <2>5. /\ g \in Group /\ g.id = o.id /\ g.size <= POLL_GROUP_MAX_SIZE
    <3>1. g = [id |-> o.id, size |-> o.size + 1]
      BY <2>2 DEF Group
    <3>2. o.size \in Nat /\ o.id \in Nat
      BY <2>2 DEF Group
    <3>3. g \in Group
      BY <3>1, <3>2 DEF Group
    <3>4. g.id = o.id /\ g.size = o.size + 1
      BY <3>1
    <3>5. o.size + 1 <= POLL_GROUP_MAX_SIZE
      BY <2>2, <3>2, GroupSizeAssumption DEF IsFull
    <3> QED BY <3>3, <3>4, <3>5
  <2>6. PICK m \in Nat : m = n - 1 /\ n = m + 1
    BY <2>1
  <2>7. /\ g.id \in 1 .. m + 1
        /\ \A i \in 1 .. m : rest[i].id \in 1 .. m + 1 /\ rest[i].id # g.id
                          /\ rest[i].size <= POLL_GROUP_MAX_SIZE
        /\ \A i, j \in 1 .. m : rest[i].id = rest[j].id => i = j
    <3>1. \A i \in 1 .. m : i \in 1 .. n /\ i # n /\ rest[i] = q[i]
      BY <2>4, <2>6
    <3> QED BY <1>2, <2>1, <2>5, <2>6, <3>1
  <2>8. Packed(rest)
    <3> SUFFICES ASSUME NEW i \in 1 .. m - 1, IsFull(rest[i + 1]) PROVE IsFull(rest[i])
      BY <2>4, <2>6 DEF Packed
    <3>1. i \in 1 .. n - 1 /\ i + 1 \in 1 .. n - 1
      BY <2>6
    <3> QED BY <1>1, <1>2, <2>4, <3>1 DEF Packed
  <2>9. GroupsOK(Acquire(q)) /\ ToSet(Acquire(q)) = ToSet(rest) \cup {g}
    <3>1. PICK placed : placed = Acquire(q)
      OBVIOUS
    <3>2. m = Len(rest)
      BY <2>4, <2>6
    <3> HIDE DEF o
    <3>3. GroupsOK(placed) /\ ToSet(placed) = ToSet(rest) \cup {g}
      BY <2>3, <2>4, <2>5, <2>7, <2>8, <3>1, <3>2, PlacedIs
    <3> QED BY <3>1, <3>3
  <2>10. ToSet(rest) = ToSet(q) \ {o}
    <3>1. DOMAIN rest = 1 .. m /\ 1 .. n = 1 .. m \cup {n}
      BY <2>4, <2>6, LenProperties
    <3>2. \A i \in 1 .. m : rest[i] = q[i] /\ q[i] # o
      BY <1>2, <2>1, <2>4, <2>6
    <3> QED BY <1>2, <3>1, <3>2 DEF ToSet
  <2> QED BY <2>2, <2>5, <2>9, <2>10
<1> QED BY <1>3, <1>4

----------------------------------------------------------------------------
(* Ports, field by field.                                                  *)

(* What a port is made of.                                                 *)
LEMMA PortParts ==
  ASSUME NEW p \in Port
  PROVE  /\ DOMAIN p.sock \subseteq SockIds /\ p.sock \in [DOMAIN p.sock -> Sock]
         /\ DOMAIN p.tree \subseteq SOCKETs /\ p.tree \in [DOMAIN p.tree -> SockIds]
         /\ p.update \in Seq(SockIds) /\ p.deleted \in Seq(SockIds)
         /\ p.groups \in Seq(Group) /\ p.active \in Int /\ p.open \in BOOLEAN
         /\ p.iocp \in Seq(Packet) /\ p.afd \subseteq Request
<1>1. /\ p.sock \in UNION {[D -> Sock] : D \in SUBSET SockIds}
      /\ p.tree \in UNION {[T -> SockIds] : T \in SUBSET SOCKETs}
      /\ p.update \in Seq(SockIds) /\ p.deleted \in Seq(SockIds)
      /\ p.groups \in Seq(Group) /\ p.active \in Int /\ p.open \in BOOLEAN
      /\ p.iocp \in Seq(Packet) /\ p.afd \subseteq Request
  BY DEF Port
<1>2. PICK D \in SUBSET SockIds : p.sock \in [D -> Sock]
  BY <1>1
<1>3. PICK T \in SUBSET SOCKETs : p.tree \in [T -> SockIds]
  BY <1>1
<1> QED BY <1>1, <1>2, <1>3

\* Everything but the queues is the same.
ButQueues(p, q) ==
  /\ q.sock = p.sock /\ q.tree = p.tree /\ q.groups = p.groups /\ q.active = p.active
  /\ q.open = p.open /\ q.iocp = p.iocp /\ q.afd = p.afd

(* The queues are others.                                                  *)
LEMMA UpdateSet ==
  ASSUME NEW p \in Port, NEW u \in Seq(SockIds), NEW q, q = [p EXCEPT !.update = u]
  PROVE  q \in Port /\ ButQueues(p, q) /\ q.update = u /\ q.deleted = p.deleted
BY DEF Port, ButQueues

(* Only the queue of those to free is replaced.                            *)
LEMMA DeletedSet ==
  ASSUME NEW p \in Port, NEW d \in Seq(SockIds), NEW q, q = [p EXCEPT !.deleted = d]
  PROVE  q \in Port /\ ButQueues(p, q) /\ q.update = p.update /\ q.deleted = d
BY DEF Port, ButQueues

(* The queues have no part in the rest of what a port promises.            *)
LEMMA QueuesApart ==
  ASSUME NEW held, NEW p, Sound(p, held), NEW q \in Port, ButQueues(p, q), Queued(q)
  PROVE  Sound(q, held)
<1>1. Listed(q)
  BY DEF Sound, Listed, Registered, ButQueues
<1>2. Owed(q, held)
  BY DEF Sound, Owed, Requested, Arrived, Polled, ButQueues
<1>3. Grouped(q)
  BY DEF Sound, Grouped, UsersOf, ButQueues
<1> QED BY <1>1, <1>2, <1>3 DEF Sound

(* An ep_sock leaves the queue it is in.                                   *)
LEMMA DequeuedIs ==
  ASSUME NEW p \in Port, Queued(p), NEW id, NEW q, q = Dequeued(p, id)
  PROVE  /\ q \in Port /\ ButQueues(p, q) /\ Queued(q)
         /\ ToSet(q.update) = ToSet(p.update) \ {id}
         /\ ToSet(q.deleted) = ToSet(p.deleted) \ {id}
<1>1. PICK u : u = RemoveFirst(p.update, id)
  OBVIOUS
<1>2. PICK d : d = RemoveFirst(p.deleted, id)
  OBVIOUS
<1>3. /\ u \in Seq(SockIds) /\ IsInjective(u) /\ ToSet(u) = ToSet(p.update) \ {id}
      /\ d \in Seq(SockIds) /\ IsInjective(d) /\ ToSet(d) = ToSet(p.deleted) \ {id}
  BY <1>1, <1>2, PortParts, RemoveFirstIs DEF Queued
<1>4. q = [p EXCEPT !.update = u, !.deleted = d]
  BY <1>1, <1>2 DEF Dequeued
<1>5. q \in Port /\ ButQueues(p, q) /\ q.update = u /\ q.deleted = d
  <2>1. u \in Seq(SockIds) /\ d \in Seq(SockIds)
    BY <1>3
  <2> QED BY <1>4, <2>1 DEF Port, ButQueues
<1>6. Queued(q)
  BY <1>3, <1>5 DEF Queued, ButQueues
<1> QED BY <1>3, <1>5, <1>6

(* An ep_sock asks for an update, if it does not wait for one already.     *)
LEMMA UpdateRequested ==
  ASSUME NEW p \in Port, Queued(p), NEW id \in DOMAIN p.sock, ~p.sock[id].delete_pending,
         NEW q, q = ep_port_request_socket_update(p, id)
  PROVE  /\ q \in Port /\ ButQueues(p, q) /\ Queued(q)
         /\ ToSet(q.update) = ToSet(p.update) \cup {id} /\ q.deleted = p.deleted
<1>1. id \in SockIds /\ id \notin ToSet(p.deleted)
  BY PortParts DEF Queued
<1>2. CASE id \in ToSet(p.update)
  BY <1>2 DEF ep_port_request_socket_update, Enqueued, ButQueues
<1>3. CASE id \notin ToSet(p.update)
  <2>1. PICK u : u = Append(p.update, id)
    OBVIOUS
  <2>2. u \in Seq(SockIds) /\ IsInjective(u) /\ ToSet(u) = ToSet(p.update) \cup {id}
    BY <1>1, <1>3, <2>1, PortParts, AppendIs DEF Queued
  <2>3. q = [p EXCEPT !.update = u]
    BY <1>1, <1>3, <2>1 DEF ep_port_request_socket_update, Enqueued
  <2>4. q \in Port /\ ButQueues(p, q) /\ q.update = u /\ q.deleted = p.deleted
    BY <2>2, <2>3, UpdateSet
  <2>5. Queued(q)
    BY <2>2, <2>4 DEF Queued, ButQueues
  <2> QED BY <2>2, <2>4, <2>5
<1> QED BY <1>2, <1>3

(* An ep_sock that cannot be freed yet waits for that.                     *)
LEMMA DeletedAdded ==
  ASSUME NEW p \in Port, Queued(p), NEW id \in DOMAIN p.sock, p.sock[id].delete_pending,
         NEW q, q = ep_port_add_deleted_socket(p, id)
  PROVE  /\ q \in Port /\ ButQueues(p, q) /\ Queued(q)
         /\ ToSet(q.deleted) = ToSet(p.deleted) \cup {id} /\ q.update = p.update
<1>1. id \in SockIds /\ id \notin ToSet(p.update)
  BY PortParts DEF Queued
<1>2. CASE id \in ToSet(p.deleted)
  BY <1>2 DEF ep_port_add_deleted_socket, Enqueued, ButQueues
<1>3. CASE id \notin ToSet(p.deleted)
  <2>1. PICK d : d = Append(p.deleted, id)
    OBVIOUS
  <2>2. d \in Seq(SockIds) /\ IsInjective(d) /\ ToSet(d) = ToSet(p.deleted) \cup {id}
    BY <1>1, <1>3, <2>1, PortParts, AppendIs DEF Queued
  <2>3. q = [p EXCEPT !.deleted = d]
    BY <1>1, <1>3, <2>1 DEF ep_port_add_deleted_socket, Enqueued
  <2>4. q \in Port /\ ButQueues(p, q) /\ q.deleted = d /\ q.update = p.update
    BY <2>2, <2>3, DeletedSet
  <2>5. Queued(q)
    BY <2>2, <2>4 DEF Queued, ButQueues
  <2> QED BY <2>2, <2>4, <2>5
<1> QED BY <1>2, <1>3

----------------------------------------------------------------------------
(* The driver.                                                             *)

(* A sequence that has each element of a finite set once.                  *)
LEMMA SetToSeqIs ==
  ASSUME NEW S, IsFiniteSet(S)
  PROVE  /\ SetToSeq(S) \in Seq(S) /\ IsInjective(SetToSeq(S)) /\ ToSet(SetToSeq(S)) = S
         /\ DOMAIN SetToSeq(S) = 1 .. Len(SetToSeq(S)) /\ Len(SetToSeq(S)) \in Nat
<1> DEFINE n == Cardinality(S)
           s == SetToSeq(S)
<1>1. n \in Nat /\ \E f \in [1 .. n -> S] : IsInjective(f)
  <2>1. n \in Nat /\ ExistsBijection(1 .. n, S)
    BY FS_CardinalityType
  <2>2. PICK f \in Bijection(1 .. n, S) : TRUE
    BY <2>1 DEF ExistsBijection
  <2> HIDE DEF n
  <2>3. f \in [1 .. n -> S] /\ IsInjective(f)
    BY <2>2 DEF Bijection, Injection
  <2> QED BY <2>1, <2>3
<1>2. s \in [1 .. n -> S] /\ IsInjective(s)
  BY <1>1 DEF SetToSeq
<1>3. IsFiniteSet(1 .. n) /\ Cardinality(1 .. n) = n
  BY <1>1, FS_Interval
<1> HIDE DEF s
<1>4. s \in Injection(1 .. n, S)
  BY <1>2 DEF Injection
<1>5. s \in Surjection(1 .. n, S)
  BY <1>3, <1>4, FS_Injection
<1> HIDE DEF n
<1>6. ToSet(s) = S
  BY <1>2, <1>5 DEF ToSet, Surjection
<1>7. s \in Seq(S) /\ Len(s) = n /\ DOMAIN s = 1 .. n
  BY <1>1, <1>2
<1> QED BY <1>1, <1>2, <1>6, <1>7 DEF s

(* The driver holds finitely many requests: one of an ep_sock at most.     *)
LEMMA RequestsFinite ==
  ASSUME NEW R \in SUBSET Request, \A r, q \in R : r.sock = q.sock => r = q
  PROVE  IsFiniteSet(R)
<1> DEFINE f == [r \in R |-> r.sock]
<1>1. f \in Injection(R, SockIds)
  BY DEF Injection, IsInjective, Request
<1> QED BY <1>1, SockIdsAssumption, FS_Injection

(* The packets of the requests that are finished.                          *)
LEMMA CompletionsAre ==
  ASSUME NEW R \in SUBSET Request, \A r, q \in R : r.sock = q.sock => r = q,
         NEW outcome \in [R -> SUBSET AfdFlags],
         NEW C, C = {Completion(r.sock, outcome[r]) : r \in R}
  PROVE  /\ C \subseteq Packet /\ IsFiniteSet(C)
         /\ \A c, d \in C : c.sock = d.sock => c = d
         /\ {c.sock : c \in C} = {r.sock : r \in R}
<1> DEFINE f == [r \in R |-> Completion(r.sock, outcome[r])]
<1>1. \A r \in R : f[r] \in Packet /\ f[r].sock = r.sock
  BY DEF Request, Packet, Completion
<1>2. C = {f[r] : r \in R}
  OBVIOUS
<1>3. f \in Surjection(R, C)
  BY DEF Surjection
<1> HIDE DEF f
<1>4. IsFiniteSet(C)
  BY <1>3, RequestsFinite, FS_Surjection
<1>5. C \subseteq Packet
  BY <1>1, <1>2
<1>6. ASSUME NEW c \in C, NEW d \in C, c.sock = d.sock PROVE c = d
  <2>1. PICK r \in R : c = f[r]
    BY <1>2
  <2>2. PICK q \in R : d = f[q]
    BY <1>2
  <2>3. r.sock = q.sock
    BY <1>1, <1>6, <2>1, <2>2
  <2> QED BY <2>1, <2>2, <2>3
<1>7. {c.sock : c \in C} = {r.sock : r \in R}
  <2>1. \A c \in C : \E r \in R : c.sock = r.sock
    BY <1>1, <1>2
  <2>2. \A r \in R : \E c \in C : c.sock = r.sock
    BY <1>1, <1>2
  <2> QED BY <2>1, <2>2
<1> QED BY <1>4, <1>5, <1>6, <1>7

\* Everything but the driver's side is the same.
ButDriver(p, q) ==
  /\ q.sock = p.sock /\ q.tree = p.tree /\ q.update = p.update /\ q.deleted = p.deleted
  /\ q.groups = p.groups /\ q.active = p.active /\ q.open = p.open

(* What a port promises of its sockets does not depend on the driver.      *)
LEMMA DriverApart ==
  ASSUME NEW held, NEW p, Sound(p, held), NEW held2, NEW q \in Port, ButDriver(p, q),
         Owed(q, held2)
  PROVE  Sound(q, held2)
<1>1. Queued(q)
  BY DEF Sound, Queued, ButDriver
<1>2. Listed(q)
  BY DEF Sound, Listed, Registered, ButDriver
<1>3. Grouped(q)
  BY DEF Sound, Grouped, UsersOf, ButDriver
<1> QED BY <1>1, <1>2, <1>3 DEF Sound

(* The packets of a queue and of another one, on other ep_socks, after it. *)
LEMMA ConcatPackets ==
  ASSUME NEW a \in Seq(Packet), NEW b \in Seq(Packet),
         \A i, j \in DOMAIN a : a[i].sock = a[j].sock => i = j,
         \A i, j \in DOMAIN b : b[i].sock = b[j].sock => i = j,
         \A i \in DOMAIN a, j \in DOMAIN b : a[i].sock # b[j].sock,
         NEW c, c = a \o b
  PROVE  /\ c \in Seq(Packet) /\ ToSet(c) = ToSet(a) \cup ToSet(b)
         /\ \A i, j \in DOMAIN c : c[i].sock = c[j].sock => i = j
<1>1. PICK m \in Nat, n \in Nat : m = Len(a) /\ n = Len(b)
  BY LenProperties
<1>2. /\ c \in Seq(Packet) /\ Len(c) = m + n /\ DOMAIN c = 1 .. m + n
      /\ DOMAIN a = 1 .. m /\ DOMAIN b = 1 .. n
      /\ \A i \in 1 .. m + n : c[i] = IF i <= m THEN a[i] ELSE b[i - m]
  BY <1>1, ConcatProperties, LenProperties
<1>3. ASSUME NEW i \in 1 .. m + n
      PROVE  \/ i \in 1 .. m /\ c[i] = a[i]
             \/ i - m \in 1 .. n /\ c[i] = b[i - m]
  BY <1>2
<1>4. \A i \in 1 .. n : m + i \in 1 .. m + n /\ c[m + i] = b[i]
  <2> SUFFICES ASSUME NEW i \in 1 .. n PROVE m + i \in 1 .. m + n /\ c[m + i] = b[i]
    OBVIOUS
  <2>1. m + i \in 1 .. m + n /\ ~(m + i <= m) /\ (m + i) - m = i
    OBVIOUS
  <2> QED BY <1>2, <2>1
<1>5. \A i \in 1 .. m : i \in 1 .. m + n /\ c[i] = a[i]
  BY <1>2
<1>6. \A i \in 1 .. m, j \in 1 .. n : a[i].sock # b[j].sock
  <2>1. DOMAIN a = 1 .. m /\ DOMAIN b = 1 .. n
    BY <1>2
  <2> QED BY <2>1
<1>7. ASSUME NEW i \in 1 .. m + n, NEW j \in 1 .. m + n, c[i].sock = c[j].sock PROVE i = j
  <2>1. CASE i \in 1 .. m /\ c[i] = a[i] /\ j \in 1 .. m /\ c[j] = a[j]
    BY <1>2, <1>7, <2>1
  <2>2. CASE i - m \in 1 .. n /\ c[i] = b[i - m] /\ j - m \in 1 .. n /\ c[j] = b[j - m]
    <3>1. i - m = j - m
      BY <1>2, <1>7, <2>2
    <3> QED BY <3>1
  <2>3. ~(i \in 1 .. m /\ c[i] = a[i] /\ j - m \in 1 .. n /\ c[j] = b[j - m])
    BY <1>7, <1>6
  <2>4. ~(j \in 1 .. m /\ c[j] = a[j] /\ i - m \in 1 .. n /\ c[i] = b[i - m])
    BY <1>7, <1>6
  <2> QED BY <1>3, <2>1, <2>2, <2>3, <2>4
<1>8. ToSet(c) \subseteq ToSet(a) \cup ToSet(b)
  BY <1>2, <1>3 DEF ToSet
<1>9. ToSet(a) \subseteq ToSet(c)
  BY <1>2, <1>5 DEF ToSet
<1>10. ToSet(b) \subseteq ToSet(c)
  <2>1. ASSUME NEW i \in 1 .. n PROVE b[i] \in ToSet(c)
    <3>1. m + i \in DOMAIN c /\ c[m + i] = b[i]
      BY <1>2, <1>4
    <3> QED BY <3>1 DEF ToSet
  <2>2. ToSet(b) = {b[i] : i \in 1 .. n}
    <3>1. DOMAIN b = 1 .. n
      BY <1>2
    <3> QED BY <3>1 DEF ToSet
  <2> QED BY <2>1, <2>2
<1> QED BY <1>2, <1>7, <1>8, <1>9, <1>10

(* The driver finishes some of the requests it holds.                      *)
LEMMA Completed ==
  ASSUME NEW held, NEW p, Sound(p, held), NEW R \in SUBSET p.afd,
         NEW outcome \in [R -> SUBSET AfdFlags],
         NEW q, q = DriverCompletes(p, outcome)
  PROVE  Sound(q, held) /\ ButDriver(p, q) /\ q.afd = p.afd \ R
<1> DEFINE C == {Completion(r.sock, outcome[r]) : r \in R}
           s == SetToSeq(C)
<1>1. /\ p \in Port /\ p.afd \subseteq Request /\ R \in SUBSET Request
      /\ p.iocp \in Seq(Packet) /\ p.open \in BOOLEAN /\ Owed(p, held)
      /\ \A r, t \in p.afd : r.sock = t.sock => r = t
  BY PortParts DEF Sound, Owed
<1>2. /\ C \subseteq Packet /\ IsFiniteSet(C)
      /\ \A c, d \in C : c.sock = d.sock => c = d
      /\ {c.sock : c \in C} = {r.sock : r \in R}
  BY <1>1, CompletionsAre
<1>3. DOMAIN outcome = R
  OBVIOUS
<1>4. q = [p EXCEPT !.afd = @ \ R, !.iocp = IF p.open THEN @ \o s ELSE @]
  BY <1>3 DEF DriverCompletes
<1> HIDE DEF C
<1>5. s \in Seq(Packet) /\ IsInjective(s) /\ ToSet(s) = C
  <2>1. s \in Seq(C) /\ IsInjective(s) /\ ToSet(s) = C
    BY <1>2, SetToSeqIs
  <2> HIDE DEF s
  <2>2. s \in [1 .. Len(s) -> C] /\ Len(s) \in Nat
    BY <2>1, LenProperties
  <2>3. s \in [1 .. Len(s) -> Packet]
    BY <1>2, <2>2
  <2> QED BY <2>1, <2>2, <2>3
<1>6. \A i, j \in DOMAIN s : s[i].sock = s[j].sock => i = j
  BY <1>2, <1>5 DEF IsInjective, ToSet
<1>7. \A i \in DOMAIN p.iocp, j \in DOMAIN s : p.iocp[i].sock # s[j].sock
  <2> SUFFICES ASSUME NEW i \in DOMAIN p.iocp, NEW j \in DOMAIN s, p.iocp[i].sock = s[j].sock
               PROVE  FALSE
    OBVIOUS
  <2>1. s[j] \in C /\ p.iocp[i] \in ToSet(p.iocp)
    BY <1>5 DEF ToSet
  <2>2. PICK r \in R : s[j].sock = r.sock
    BY <1>2, <2>1
  <2>3. p.iocp[i].sock \in Arrived(p)
    BY <2>1 DEF Arrived
  <2>4. r.sock \in Requested(p)
    BY <2>2 DEF Requested
  <2>5. Requested(p) \cap Arrived(p) = {}
    BY <1>1 DEF Owed
  <2> QED BY <2>2, <2>3, <2>4, <2>5
<1> HIDE DEF s
<1>8. PICK iocp \in Seq(Packet) :
        /\ iocp = IF p.open THEN p.iocp \o s ELSE p.iocp
        /\ ToSet(iocp) = ToSet(p.iocp) \cup (IF p.open THEN C ELSE {})
        /\ \A i, j \in DOMAIN iocp : iocp[i].sock = iocp[j].sock => i = j
  <2>1. CASE p.open
    BY <1>1, <1>5, <1>6, <1>7, <2>1, ConcatPackets DEF Owed
  <2>2. CASE ~p.open
    BY <1>1, <2>2 DEF Owed
  <2> QED BY <2>1, <2>2
<1>9. q \in Port /\ ButDriver(p, q) /\ q.afd = p.afd \ R /\ q.iocp = iocp
  <2>1. q = [p EXCEPT !.afd = p.afd \ R, !.iocp = iocp]
    BY <1>4, <1>8
  <2>2. p.afd \ R \subseteq Request
    BY <1>1
  <2> QED BY <1>1, <2>1, <2>2 DEF Port, ButDriver
<1>10. Requested(q) \subseteq Requested(p) /\ {r.sock : r \in R} \subseteq Requested(p)
  BY <1>9 DEF Requested
<1>11. Requested(q) \cap {r.sock : r \in R} = {}
  BY <1>1, <1>9 DEF Requested
<1>12. Arrived(q) = Arrived(p) \cup (IF p.open THEN {r.sock : r \in R} ELSE {})
  BY <1>2, <1>8, <1>9 DEF Arrived
<1>13. Requested(p) = Requested(q) \cup {r.sock : r \in R}
  BY <1>9, <1>10 DEF Requested
<1>14. Polled(q) = Polled(p)
  BY <1>9 DEF Polled, ButDriver
<1>15. Owed(q, held)
  <2>1. Requested(q) \cap Arrived(q) = {}
    BY <1>1, <1>10, <1>11, <1>12 DEF Owed
  <2>2. held \cap (Requested(q) \cup Arrived(q)) = {}
    BY <1>1, <1>10, <1>12 DEF Owed
  <2>3. Requested(q) \cup Arrived(q) \cup held \subseteq Polled(q)
    BY <1>1, <1>10, <1>12, <1>14 DEF Owed
  <2>4. q.open => Polled(q) \subseteq Requested(q) \cup Arrived(q) \cup held
    BY <1>1, <1>9, <1>12, <1>13, <1>14 DEF Owed, ButDriver
  <2>5. ~q.open => q.iocp = << >>
    BY <1>1, <1>8, <1>9 DEF Owed, ButDriver
  <2>6. /\ \A r, t \in q.afd : r.sock = t.sock => r = t
        /\ \A r \in q.afd : q.sock[r.sock].poll_status = PENDING
    BY <1>1, <1>9 DEF Owed, ButDriver
  <2> QED BY <1>8, <1>9, <2>1, <2>2, <2>3, <2>4, <2>5, <2>6 DEF Owed
<1> QED BY <1>9, <1>15, DriverApart

(* What the driver finishes looks after nobody and forgets nobody.         *)
LEMMA CompletedAttended ==
  ASSUME NEW p, NEW q, ButDriver(p, q), NEW id
  PROVE  Attended(p, id) <=> Attended(q, id)
BY DEF Attended, ButDriver

----------------------------------------------------------------------------
(* Polls.                                                                  *)

(* Who is attended to depends on the ep_sock and the queues alone.         *)
LEMMA StillAttended ==
  ASSUME NEW p, NEW q, NEW id, Attended(p, id), q.sock[id] = p.sock[id],
         id \in ToSet(p.update) => id \in ToSet(q.update),
         id \in ToSet(p.deleted) => id \in ToSet(q.deleted)
  PROVE  Attended(q, id)
BY DEF Attended

\* Everything but the ep_socks and the driver's side is the same.
ButSocks(p, q) ==
  /\ q.tree = p.tree /\ q.update = p.update /\ q.deleted = p.deleted
  /\ q.groups = p.groups /\ q.active = p.active /\ q.open = p.open

\* The ep_socks are the same but for their polls and what the user wants.
ButPolls(p, q) ==
  /\ DOMAIN q.sock = DOMAIN p.sock
  /\ \A id \in DOMAIN p.sock : /\ q.sock[id].socket = p.sock[id].socket
                               /\ q.sock[id].poll_group = p.sock[id].poll_group
                               /\ q.sock[id].delete_pending = p.sock[id].delete_pending

(* The polls have no part in the queues, the tree and the groups.          *)
LEMMA PollsApart ==
  ASSUME NEW held, NEW p, Sound(p, held), NEW held2, NEW q \in Port, ButSocks(p, q),
         ButPolls(p, q), Owed(q, held2)
  PROVE  Sound(q, held2)
<1>1. Queued(q)
  BY DEF Sound, Queued, ButSocks, ButPolls
<1>2. Listed(q)
  <2>1. q.tree = p.tree /\ DOMAIN q.sock = DOMAIN p.sock /\ Listed(p)
    BY DEF Sound, ButSocks, ButPolls
  <2> QED BY <2>1 DEF Listed, Registered, ButPolls
<1>3. Grouped(q)
  <2>1. \A g : UsersOf(q, g) = UsersOf(p, g)
    BY DEF UsersOf, ButPolls
  <2> QED BY <2>1 DEF Sound, Grouped, ButSocks, ButPolls
<1> QED BY <1>1, <1>2, <1>3 DEF Sound

(* One ep_sock is another.                                                 *)
LEMMA SockSet ==
  ASSUME NEW p \in Port, NEW id \in DOMAIN p.sock, NEW s \in Sock,
         NEW socks, socks = [p.sock EXCEPT ![id] = s], NEW q, q = [p EXCEPT !.sock = socks]
  PROVE  /\ q \in Port /\ ButSocks(p, q) /\ q.iocp = p.iocp /\ q.afd = p.afd
         /\ DOMAIN q.sock = DOMAIN p.sock /\ q.sock[id] = s
         /\ \A i \in DOMAIN p.sock \ {id} : q.sock[i] = p.sock[i]
<1>1. DOMAIN p.sock \in SUBSET SockIds /\ socks \in [DOMAIN p.sock -> Sock]
  BY PortParts
<1>2. socks \in UNION {[D -> Sock] : D \in SUBSET SockIds}
  BY <1>1
<1>3. socks[id] = s /\ \A i \in DOMAIN p.sock \ {id} : socks[i] = p.sock[i]
  OBVIOUS
<1>4. DOMAIN socks = DOMAIN p.sock
  OBVIOUS
<1>5. q \in Port /\ ButSocks(p, q) /\ q.iocp = p.iocp /\ q.afd = p.afd /\ q.sock = socks
  BY <1>2 DEF Port, ButSocks
<1> QED BY <1>3, <1>4, <1>5

(* The poll of an ep_sock, and what it watches, are others.                *)
LEMMA SetPollIs ==
  ASSUME NEW p \in Port, NEW id \in DOMAIN p.sock, NEW status \in {IDLE, PENDING, CANCELLED},
         NEW events \in SUBSET Events, NEW q, q = SetPoll(p, id, status, events)
  PROVE  /\ q \in Port /\ ButSocks(p, q) /\ ButPolls(p, q) /\ q.iocp = p.iocp /\ q.afd = p.afd
         /\ q.sock[id].poll_status = status /\ q.sock[id].pending_events = events
         /\ q.sock[id].user_events = p.sock[id].user_events
         /\ \A i \in DOMAIN p.sock \ {id} : q.sock[i] = p.sock[i]
<1>1. PICK s : s = [p.sock[id] EXCEPT !.poll_status = status, !.pending_events = events]
  OBVIOUS
<1>2. PICK socks : socks = [p.sock EXCEPT ![id] = s]
  OBVIOUS
<1>3. p.sock[id] \in Sock
  BY PortParts
<1>4. /\ s \in Sock /\ s.socket = p.sock[id].socket /\ s.poll_group = p.sock[id].poll_group
      /\ s.delete_pending = p.sock[id].delete_pending /\ s.user_events = p.sock[id].user_events
      /\ s.poll_status = status /\ s.pending_events = events
  BY <1>1, <1>3 DEF Sock
<1>5. q = [p EXCEPT !.sock = socks]
  BY <1>1, <1>2 DEF SetPoll, Port
<1>6. /\ q \in Port /\ ButSocks(p, q) /\ q.iocp = p.iocp /\ q.afd = p.afd
      /\ DOMAIN q.sock = DOMAIN p.sock /\ q.sock[id] = s
      /\ \A i \in DOMAIN p.sock \ {id} : q.sock[i] = p.sock[i]
  BY <1>2, <1>4, <1>5, SockSet
<1>7. ButPolls(p, q)
  BY <1>4, <1>6 DEF ButPolls
<1> QED BY <1>4, <1>6, <1>7

(* A poll is cancelled: its packet comes, unless it has come already.      *)
LEMMA Cancelled ==
  ASSUME NEW held, NEW p, Sound(p, held), NEW id \in DOMAIN p.sock,
         p.sock[id].poll_status = PENDING, NEW q, q = _ep_sock_cancel_poll(p, id)
  PROVE  /\ Sound(q, held) /\ ButSocks(p, q) /\ ButPolls(p, q)
         /\ q.sock[id].poll_status = CANCELLED
         /\ \A i \in DOMAIN p.sock \ {id} : q.sock[i] = p.sock[i]
<1> DEFINE R == HeldBy(p, id)
<1>1. PICK d : d = DriverCompletes(p, [r \in R |-> {}])
  OBVIOUS
<1>2. Sound(d, held) /\ ButDriver(p, d) /\ d.afd = p.afd \ R
  <2>1. R \in SUBSET p.afd /\ [r \in R |-> {}] \in [R -> SUBSET AfdFlags]
    BY DEF HeldBy
  <2> HIDE DEF R
  <2> QED BY <1>1, <2>1, Completed
<1>3. q = SetPoll(d, id, CANCELLED, {})
  BY <1>1 DEF _ep_sock_cancel_poll
<1>4. d \in Port /\ id \in DOMAIN d.sock /\ d.sock = p.sock
  BY <1>2 DEF Sound, ButDriver
<1>5. /\ q \in Port /\ ButSocks(d, q) /\ ButPolls(d, q) /\ q.iocp = d.iocp /\ q.afd = d.afd
      /\ q.sock[id].poll_status = CANCELLED
      /\ \A i \in DOMAIN d.sock \ {id} : q.sock[i] = d.sock[i]
  <2>1. CANCELLED \in {IDLE, PENDING, CANCELLED} /\ {} \in SUBSET Events
    OBVIOUS
  <2> QED BY <1>3, <1>4, <2>1, SetPollIs
<1>6. \A r \in d.afd : r.sock # id
  BY <1>2 DEF HeldBy
<1>7. Owed(q, held)
  <2>1. Polled(q) = Polled(d)
    <3>1. d.sock[id].poll_status # IDLE /\ q.sock[id].poll_status # IDLE
      BY <1>4, <1>5 DEF IDLE, PENDING, CANCELLED
    <3>2. DOMAIN q.sock = DOMAIN d.sock
      BY <1>5 DEF ButPolls
    <3>3. \A i \in DOMAIN d.sock : q.sock[i].poll_status # IDLE <=> d.sock[i].poll_status # IDLE
      BY <1>5, <3>1
    <3> QED BY <3>2, <3>3 DEF Polled
  <2>2. Requested(q) = Requested(d) /\ Arrived(q) = Arrived(d)
    BY <1>5 DEF Requested, Arrived
  <2>3. Owed(d, held)
    BY <1>2 DEF Sound
  <2>4. \A r \in q.afd : q.sock[r.sock].poll_status = PENDING
    <3> SUFFICES ASSUME NEW r \in d.afd PROVE q.sock[r.sock].poll_status = PENDING
      BY <1>5
    <3>1. r.sock \in Requested(d)
      BY DEF Requested
    <3>2. r.sock \in DOMAIN d.sock \ {id}
      BY <1>6, <2>3, <3>1 DEF Owed, Polled
    <3> QED BY <1>5, <2>3, <3>2 DEF Owed
  <2> QED BY <1>5, <2>1, <2>2, <2>3, <2>4 DEF Owed, ButSocks
<1>8. Sound(q, held)
  BY <1>2, <1>5, <1>7, PollsApart
<1>9. ButSocks(p, q) /\ ButPolls(p, q)
  BY <1>2, <1>4, <1>5 DEF ButSocks, ButPolls, ButDriver
<1> QED BY <1>4, <1>5, <1>8, <1>9

(* The driver holds other requests.                                        *)
LEMMA AfdSet ==
  ASSUME NEW p \in Port, NEW a \in SUBSET Request, NEW q, q = [p EXCEPT !.afd = a]
  PROVE  q \in Port /\ ButSocks(p, q) /\ q.sock = p.sock /\ q.iocp = p.iocp /\ q.afd = a
BY DEF Port, ButSocks

(* The flags of a poll are conditions.                                     *)
LEMMA MaskIs ==
  ASSUME NEW events
  PROVE  _epoll_events_to_afd_events(events) \in SUBSET AfdFlags
BY DEF _epoll_events_to_afd_events, AfdFlags

(* A poll is submitted: the driver owes a packet for it, or has sent it.   *)
LEMMA Submitted ==
  ASSUME NEW held, NEW p, Sound(p, held), NEW id \in DOMAIN p.sock,
         p.sock[id].poll_status = IDLE, NEW kernel, NEW q, q = _poll_req_submit(p, kernel, id)
  PROVE  /\ Sound(q, held) /\ ButSocks(p, q) /\ ButPolls(p, q)
         /\ q.sock[id].poll_status = PENDING /\ Unwatched(q.sock[id]) = {}
         /\ \A i \in DOMAIN p.sock \ {id} : q.sock[i] = p.sock[i]
<1>1. PICK mask \in SUBSET AfdFlags : mask = _epoll_events_to_afd_events(p.sock[id].user_events)
  BY MaskIs
<1>2. PICK request : request = [sock |-> id, mask |-> mask]
  OBVIOUS
<1>3. PICK d : d = SetPoll(p, id, PENDING, p.sock[id].user_events)
  OBVIOUS
<1>4. PICK afd : afd = d.afd \cup {request}
  OBVIOUS
<1>5. PICK h : h = [d EXCEPT !.afd = afd]
  OBVIOUS
<1>6. PICK now \in SUBSET AfdFlags : now = mask \cap kernel.ready[p.sock[id].socket]
  BY <1>1
<1>7. q = IF now = {} THEN h ELSE DriverCompletes(h, [r \in {request} |-> now])
  BY <1>4, <1>1, <1>2, <1>3, <1>5, <1>6 DEF _poll_req_submit
<1>8. /\ p \in Port /\ Owed(p, held) /\ id \in SockIds /\ p.afd \subseteq Request
      /\ p.sock[id].user_events \in SUBSET Events
  <2>1. p \in Port /\ Owed(p, held)
    BY DEF Sound
  <2>2. p.sock[id] \in Sock /\ id \in SockIds /\ p.afd \subseteq Request
    BY <2>1, PortParts
  <2> QED BY <2>1, <2>2 DEF Sock
<1>9. /\ d \in Port /\ ButSocks(p, d) /\ ButPolls(p, d) /\ d.iocp = p.iocp /\ d.afd = p.afd
      /\ d.sock[id].poll_status = PENDING
      /\ d.sock[id].pending_events = p.sock[id].user_events
      /\ d.sock[id].user_events = p.sock[id].user_events
      /\ \A i \in DOMAIN p.sock \ {id} : d.sock[i] = p.sock[i]
  <2>1. PENDING \in {IDLE, PENDING, CANCELLED}
    OBVIOUS
  <2> QED BY <1>3, <1>8, <2>1, SetPollIs
<1>10. request \in Request /\ request.sock = id
  BY <1>2, <1>8 DEF Request
<1>11. h \in Port /\ ButSocks(d, h) /\ h.sock = d.sock /\ h.iocp = d.iocp /\ h.afd = p.afd \cup {request}
  <2>1. afd \in SUBSET Request /\ afd = p.afd \cup {request}
    BY <1>4, <1>8, <1>9, <1>10
  <2> QED BY <1>5, <1>9, <2>1, AfdSet
<1>12. ButSocks(p, h) /\ ButPolls(p, h)
  BY <1>9, <1>11 DEF ButSocks, ButPolls
<1>13. id \notin Polled(p) /\ Polled(h) = Polled(p) \cup {id}
  <2>1. h.sock[id].poll_status # IDLE
    BY <1>9, <1>11 DEF IDLE, PENDING
  <2>2. \A i \in DOMAIN p.sock \ {id} : h.sock[i] = p.sock[i]
    BY <1>9, <1>11
  <2>3. DOMAIN h.sock = DOMAIN p.sock
    BY <1>12 DEF ButPolls
  <2> QED BY <2>1, <2>2, <2>3 DEF Polled
<1>14. id \notin Requested(p) \cup Arrived(p) \cup held
  BY <1>8, <1>13 DEF Owed
<1>15. Requested(h) = Requested(p) \cup {id}
  BY <1>10, <1>11 DEF Requested
<1>16. Arrived(h) = Arrived(p)
  BY <1>9, <1>11 DEF Arrived
<1>17. Owed(h, held)
  <2>1. \A r, t \in h.afd : r.sock = t.sock => r = t
    <3>1. \A r \in p.afd : r.sock # id
      BY <1>14 DEF Requested
    <3> QED BY <1>8, <1>10, <1>11, <3>1 DEF Owed
  <2>2. \A i, j \in DOMAIN h.iocp : h.iocp[i].sock = h.iocp[j].sock => i = j
    BY <1>8, <1>9, <1>11 DEF Owed
  <2>3. Requested(h) \cap Arrived(h) = {}
    BY <1>8, <1>14, <1>15, <1>16 DEF Owed
  <2>4. held \cap (Requested(h) \cup Arrived(h)) = {}
    BY <1>8, <1>14, <1>15, <1>16 DEF Owed
  <2>5. Requested(h) \cup Arrived(h) \cup held \subseteq Polled(h)
    BY <1>8, <1>13, <1>15, <1>16 DEF Owed
  <2>6. h.open => Polled(h) \subseteq Requested(h) \cup Arrived(h) \cup held
    BY <1>8, <1>12, <1>13, <1>15, <1>16 DEF Owed, ButSocks
  <2>7. \A r \in h.afd : h.sock[r.sock].poll_status = PENDING
    <3>1. \A r \in p.afd : r.sock \in DOMAIN p.sock \ {id} /\ p.sock[r.sock].poll_status = PENDING
      BY <1>8, <1>14 DEF Owed, Requested, Polled
    <3> QED BY <1>9, <1>10, <1>11, <3>1
  <2>8. ~h.open => h.iocp = << >>
    BY <1>8, <1>9, <1>11, <1>12 DEF Owed, ButSocks
  <2> QED BY <2>1, <2>2, <2>3, <2>4, <2>5, <2>6, <2>7, <2>8 DEF Owed
<1>18. Sound(h, held)
  BY <1>11, <1>12, <1>17, PollsApart
<1>19. Sound(q, held) /\ ButDriver(h, q)
  <2>1. CASE now = {}
    BY <1>7, <1>18, <2>1 DEF ButDriver
  <2>2. CASE now # {}
    <3>1. {request} \in SUBSET h.afd /\ [r \in {request} |-> now] \in [{request} -> SUBSET AfdFlags]
      BY <1>11
    <3> QED BY <1>7, <1>18, <2>2, <3>1, Completed
  <2> QED BY <2>1, <2>2
<1>20. /\ ButSocks(p, q) /\ ButPolls(p, q) /\ q.sock = d.sock
  BY <1>11, <1>12, <1>19 DEF ButSocks, ButPolls, ButDriver
<1>21. Unwatched(q.sock[id]) = {}
  BY <1>9, <1>20 DEF Unwatched
<1> QED BY <1>9, <1>19, <1>20, <1>21

(* The poll of an ep_sock is over and its packet is with the caller.       *)
LEMMA IdledIs ==
  ASSUME NEW held, NEW p, Sound(p, held), NEW id \in held,
         NEW q, q = Idled(p, id)
  PROVE  /\ Sound(q, held \ {id}) /\ ButSocks(p, q) /\ ButPolls(p, q)
         /\ id \in DOMAIN p.sock /\ q.sock[id].poll_status = IDLE
         /\ \A i \in DOMAIN p.sock \ {id} : q.sock[i] = p.sock[i]
<1>1. p \in Port /\ Owed(p, held) /\ id \in DOMAIN p.sock
  BY DEF Sound, Owed, Polled
<1>2. /\ q \in Port /\ ButSocks(p, q) /\ ButPolls(p, q) /\ q.iocp = p.iocp /\ q.afd = p.afd
      /\ q.sock[id].poll_status = IDLE
      /\ \A i \in DOMAIN p.sock \ {id} : q.sock[i] = p.sock[i]
  <2>1. IDLE \in {IDLE, PENDING, CANCELLED} /\ {} \in SUBSET Events
    OBVIOUS
  <2>2. q = SetPoll(p, id, IDLE, {})
    BY DEF Idled
  <2> QED BY <1>1, <2>1, <2>2, SetPollIs
<1>3. Polled(q) = Polled(p) \ {id}
  <2>1. DOMAIN q.sock = DOMAIN p.sock
    BY <1>2 DEF ButPolls
  <2> QED BY <1>1, <1>2, <2>1 DEF Polled
<1>4. Requested(q) = Requested(p) /\ Arrived(q) = Arrived(p)
  BY <1>2 DEF Requested, Arrived
<1>5. id \notin Requested(p) \cup Arrived(p)
  BY <1>1 DEF Owed
<1>6. Owed(q, held \ {id})
  <2>1. \A r \in q.afd : q.sock[r.sock].poll_status = PENDING
    <3>1. \A r \in p.afd : r.sock \in DOMAIN p.sock \ {id} /\ p.sock[r.sock].poll_status = PENDING
      BY <1>1, <1>5 DEF Owed, Requested, Polled
    <3> QED BY <1>2, <3>1
  <2>2. Requested(q) \cup Arrived(q) \cup (held \ {id}) \subseteq Polled(q)
    BY <1>1, <1>3, <1>4, <1>5 DEF Owed
  <2>3. q.open => Polled(q) \subseteq Requested(q) \cup Arrived(q) \cup (held \ {id})
    BY <1>1, <1>2, <1>3, <1>4 DEF Owed, ButSocks
  <2>4. (held \ {id}) \cap (Requested(q) \cup Arrived(q)) = {}
    BY <1>1, <1>4 DEF Owed
  <2>5. /\ \A r, t \in q.afd : r.sock = t.sock => r = t
        /\ \A i, j \in DOMAIN q.iocp : q.iocp[i].sock = q.iocp[j].sock => i = j
        /\ Requested(q) \cap Arrived(q) = {}
        /\ ~q.open => q.iocp = << >>
    BY <1>1, <1>2, <1>4 DEF Owed, ButSocks
  <2> QED BY <2>1, <2>2, <2>3, <2>4, <2>5 DEF Owed
<1>7. Sound(q, held \ {id})
  BY <1>2, <1>6, PollsApart
<1> QED BY <1>1, <1>2, <1>7

----------------------------------------------------------------------------
(* Ep_socks that go.                                                       *)

(* The tree forgets an ep_sock that is in no queue.                        *)
LEMMA UnlistedIs ==
  ASSUME NEW held, NEW p \in Port, Sound(p, held), NEW id \in DOMAIN p.sock,
         ~p.sock[id].delete_pending, id \notin ToSet(p.update), id \notin ToSet(p.deleted),
         NEW q, q = Unlisted(p, id)
  PROVE  /\ Sound(q, held) /\ DOMAIN q.sock = DOMAIN p.sock
         /\ q.sock[id].delete_pending /\ q.sock[id].poll_status = p.sock[id].poll_status
         /\ \A i \in DOMAIN p.sock \ {id} : q.sock[i] = p.sock[i]
         /\ q.update = p.update /\ q.deleted = p.deleted
         /\ q.active = p.active /\ q.open = p.open
<1>1. PICK s : s = [p.sock[id] EXCEPT !.delete_pending = TRUE]
  OBVIOUS
<1>2. PICK socks : socks = [p.sock EXCEPT ![id] = s]
  OBVIOUS
<1>3. PICK handle : handle = p.sock[id].socket
  OBVIOUS
<1>4. PICK tree : tree = [h \in DOMAIN p.tree \ {handle} |-> p.tree[h]]
  OBVIOUS
<1>5. q = [p EXCEPT !.tree = tree, !.sock = socks]
  BY <1>1, <1>2, <1>3, <1>4 DEF Unlisted, Port
<1>6. p.sock[id] \in Sock /\ \A i \in DOMAIN p.sock : p.sock[i] \in Sock
  BY PortParts
<1>7. /\ s \in Sock /\ s.socket = p.sock[id].socket /\ s.poll_group = p.sock[id].poll_group
      /\ s.delete_pending = TRUE /\ s.poll_status = p.sock[id].poll_status
  BY <1>1, <1>6 DEF Sock
<1>8. /\ socks \in [DOMAIN p.sock -> Sock] /\ socks[id] = s
      /\ \A i \in DOMAIN p.sock \ {id} : socks[i] = p.sock[i]
  BY <1>2, <1>6, <1>7
<1>9. /\ DOMAIN p.tree \ {handle} \in SUBSET SOCKETs
      /\ tree \in [DOMAIN p.tree \ {handle} -> SockIds]
      /\ \A h \in DOMAIN p.tree \ {handle} : tree[h] = p.tree[h]
  BY <1>4, PortParts
<1>10. /\ q \in Port /\ q.tree = tree /\ q.sock = socks
       /\ q.update = p.update /\ q.deleted = p.deleted /\ q.groups = p.groups
       /\ q.active = p.active /\ q.open = p.open /\ q.iocp = p.iocp /\ q.afd = p.afd
  <2>1. tree \in UNION {[T -> SockIds] : T \in SUBSET SOCKETs}
    BY <1>9
  <2>2. DOMAIN p.sock \in SUBSET SockIds
    BY PortParts
  <2>3. socks \in UNION {[D -> Sock] : D \in SUBSET SockIds}
    BY <1>8, <2>2
  <2> QED BY <1>5, <2>1, <2>3 DEF Port
<1>11. DOMAIN q.sock = DOMAIN p.sock /\ q.sock[id] = s
  BY <1>8, <1>10
<1>12. \A i \in DOMAIN p.sock \ {id} : q.sock[i] = p.sock[i]
  BY <1>8, <1>10
<1>13. Queued(q)
  BY <1>10, <1>11, <1>12 DEF Sound, Queued
<1>14. Listed(q)
  <2>1. Listed(p) /\ DOMAIN q.tree = DOMAIN p.tree \ {handle}
    BY <1>9, <1>10 DEF Sound
  <2>2. ASSUME NEW h \in DOMAIN q.tree
        PROVE  /\ q.tree[h] \in DOMAIN q.sock /\ q.sock[q.tree[h]].socket = h
               /\ ~q.sock[q.tree[h]].delete_pending
    <3>1. h \in DOMAIN p.tree /\ h # handle /\ q.tree[h] = p.tree[h]
      BY <1>9, <1>10, <2>1
    <3>2. /\ p.tree[h] \in DOMAIN p.sock /\ p.sock[p.tree[h]].socket = h
          /\ ~p.sock[p.tree[h]].delete_pending
      BY <2>1, <3>1 DEF Listed
    <3>3. p.tree[h] # id
      BY <1>3, <3>1, <3>2
    <3> QED BY <1>11, <1>12, <3>1, <3>2, <3>3
  <2>3. ASSUME NEW i \in DOMAIN q.sock, ~q.sock[i].delete_pending
        PROVE  q.sock[i].socket \in DOMAIN q.tree /\ q.tree[q.sock[i].socket] = i
    <3>1. i \in DOMAIN p.sock \ {id} /\ q.sock[i] = p.sock[i]
      BY <1>7, <1>11, <1>12, <2>3
    <3>2. p.sock[i].socket \in DOMAIN p.tree /\ p.tree[p.sock[i].socket] = i
      BY <2>1, <2>3, <3>1 DEF Listed, Registered
    <3>3. p.tree[handle] = id
      BY <1>3, <2>1 DEF Listed
    <3>4. p.sock[i].socket # handle
      BY <3>1, <3>2, <3>3
    <3> QED BY <1>9, <1>10, <2>1, <3>1, <3>2, <3>4
  <2> QED BY <2>2, <2>3 DEF Listed, Registered
<1>15. Owed(q, held)
  <2>1. Polled(q) = Polled(p)
    BY <1>7, <1>11, <1>12 DEF Polled
  <2>2. Requested(q) = Requested(p) /\ Arrived(q) = Arrived(p)
    BY <1>10 DEF Requested, Arrived
  <2>3. Owed(p, held)
    BY DEF Sound
  <2>4. \A r \in q.afd : q.sock[r.sock].poll_status = PENDING
    <3>1. \A r \in p.afd : r.sock \in DOMAIN p.sock /\ p.sock[r.sock].poll_status = PENDING
      BY <2>3 DEF Owed, Requested, Polled
    <3> QED BY <1>7, <1>10, <1>11, <1>12, <3>1
  <2> QED BY <1>10, <2>1, <2>2, <2>3, <2>4 DEF Owed
<1>16. Grouped(q)
  <2>1. \A i \in DOMAIN p.sock : q.sock[i].poll_group = p.sock[i].poll_group
    BY <1>7, <1>11, <1>12
  <2>2. \A g : UsersOf(q, g) = UsersOf(p, g)
    BY <1>11, <2>1 DEF UsersOf
  <2> QED BY <1>10, <1>11, <2>1, <2>2 DEF Sound, Grouped
<1>17. Sound(q, held)
  BY <1>10, <1>13, <1>14, <1>15, <1>16 DEF Sound
<1> QED BY <1>7, <1>10, <1>11, <1>12, <1>17

(* A socket is unregistered: it is in no queue and has no poll pending.    *)
LEMMA UnregisteredIs ==
  ASSUME NEW held, NEW p, Sound(p, held), NEW id \in DOMAIN p.sock,
         ~p.sock[id].delete_pending, NEW q, q = Unregistered(p, id)
  PROVE  /\ Sound(q, held) /\ DOMAIN q.sock = DOMAIN p.sock
         /\ q.sock[id].delete_pending /\ q.sock[id].poll_status \in {IDLE, CANCELLED}
         /\ q.sock[id].poll_status = IDLE <=> p.sock[id].poll_status = IDLE
         /\ \A i \in DOMAIN p.sock \ {id} : q.sock[i] = p.sock[i]
         /\ ToSet(q.update) = ToSet(p.update) \ {id}
         /\ ToSet(q.deleted) = ToSet(p.deleted) \ {id}
         /\ q.active = p.active /\ q.open = p.open
<1>1. PICK a : a = IF p.sock[id].poll_status = PENDING THEN _ep_sock_cancel_poll(p, id) ELSE p
  OBVIOUS
<1>2. PICK b : b = Dequeued(a, id)
  OBVIOUS
<1>3. q = Unlisted(b, id)
  BY <1>1, <1>2 DEF Unregistered
<1>4. p.sock[id].poll_status \in {IDLE, PENDING, CANCELLED}
  <2>1. p.sock[id] \in Sock
    BY PortParts DEF Sound
  <2> QED BY <2>1 DEF Sock
<1>5. /\ Sound(a, held) /\ ButSocks(p, a) /\ ButPolls(p, a)
      /\ a.sock[id].poll_status \in {IDLE, CANCELLED}
      /\ a.sock[id].poll_status = IDLE <=> p.sock[id].poll_status = IDLE
      /\ \A i \in DOMAIN p.sock \ {id} : a.sock[i] = p.sock[i]
  <2>1. CASE p.sock[id].poll_status = PENDING
    <3>1. a = _ep_sock_cancel_poll(p, id)
      BY <1>1, <2>1
    <3>2. /\ Sound(a, held) /\ ButSocks(p, a) /\ ButPolls(p, a)
          /\ a.sock[id].poll_status = CANCELLED
          /\ \A i \in DOMAIN p.sock \ {id} : a.sock[i] = p.sock[i]
      BY <2>1, <3>1, Cancelled
    <3> QED BY <2>1, <3>2 DEF IDLE, PENDING, CANCELLED
  <2>2. CASE p.sock[id].poll_status # PENDING
    BY <1>1, <1>4, <2>2 DEF ButSocks, ButPolls
  <2> QED BY <2>1, <2>2
<1>6. /\ b \in Port /\ ButQueues(a, b) /\ Queued(b)
      /\ ToSet(b.update) = ToSet(a.update) \ {id}
      /\ ToSet(b.deleted) = ToSet(a.deleted) \ {id}
  BY <1>2, <1>5, DequeuedIs DEF Sound
<1>7. Sound(b, held)
  BY <1>5, <1>6, QueuesApart
<1>8. id \in DOMAIN b.sock /\ ~b.sock[id].delete_pending /\ DOMAIN b.sock = DOMAIN p.sock
  BY <1>5, <1>6 DEF ButPolls, ButQueues
<1>9. /\ Sound(q, held) /\ DOMAIN q.sock = DOMAIN b.sock
      /\ q.sock[id].delete_pending /\ q.sock[id].poll_status = b.sock[id].poll_status
      /\ \A i \in DOMAIN b.sock \ {id} : q.sock[i] = b.sock[i]
      /\ q.update = b.update /\ q.deleted = b.deleted
      /\ q.active = b.active /\ q.open = b.open
  BY <1>3, <1>6, <1>7, <1>8, UnlistedIs
<1> QED BY <1>5, <1>6, <1>8, <1>9 DEF ButSocks, ButQueues

(* The groups of a port are told apart by their ids.                       *)
LEMMA GroupsApart ==
  ASSUME NEW q, GroupsOK(q), NEW g \in ToSet(q), NEW o \in ToSet(q), g.id = o.id
  PROVE  g = o
<1>1. DOMAIN q = 1 .. Len(q)
  BY LenProperties DEF GroupsOK
<1> QED BY <1>1 DEF GroupsOK, ToSet

(* An ep_sock that is owed nothing and in no queue is freed.               *)
LEMMA ForgottenIs ==
  ASSUME NEW held, NEW p \in Port, Sound(p, held), NEW id \in DOMAIN p.sock,
         p.sock[id].delete_pending, id \notin ToSet(p.update), id \notin ToSet(p.deleted),
         id \notin Requested(p) \cup Arrived(p) \cup held,
         NEW q, q = Forgotten(p, id)
  PROVE  /\ Sound(q, held) /\ DOMAIN q.sock = DOMAIN p.sock \ {id}
         /\ \A i \in DOMAIN p.sock \ {id} : q.sock[i] = p.sock[i]
         /\ q.update = p.update /\ q.deleted = p.deleted
         /\ q.active = p.active /\ q.open = p.open
<1>1. PICK socks : socks = [i \in DOMAIN p.sock \ {id} |-> p.sock[i]]
  OBVIOUS
<1>2. PICK groups : groups = Release(p.groups, p.sock[id].poll_group)
  OBVIOUS
<1>3. q = [p EXCEPT !.groups = groups, !.sock = socks]
  BY <1>1, <1>2 DEF Forgotten
<1>4. Grouped(p) /\ GroupsOK(p.groups)
  BY DEF Sound, Grouped
<1>5. PICK o \in ToSet(p.groups) : o.id = p.sock[id].poll_group
  BY <1>4 DEF Grouped
<1>6. /\ DOMAIN p.sock \in SUBSET SockIds /\ IsFiniteSet(DOMAIN p.sock)
      /\ \A i \in DOMAIN p.sock : p.sock[i] \in Sock
  <2>1. DOMAIN p.sock \in SUBSET SockIds /\ \A i \in DOMAIN p.sock : p.sock[i] \in Sock
    BY PortParts
  <2> QED BY <2>1, SockIdsAssumption, FS_Subset
<1>7. \A g : UsersOf(p, g) \subseteq DOMAIN p.sock /\ IsFiniteSet(UsersOf(p, g))
  <2> SUFFICES ASSUME NEW g PROVE UsersOf(p, g) \subseteq DOMAIN p.sock /\ IsFiniteSet(UsersOf(p, g))
    OBVIOUS
  <2>1. UsersOf(p, g) \subseteq DOMAIN p.sock
    BY DEF UsersOf
  <2> QED BY <1>6, <2>1, FS_Subset
<1>8. o.size = Cardinality(UsersOf(p, o.id)) /\ o.size # 0
  <2>1. o.size = Cardinality(UsersOf(p, o.id)) /\ id \in UsersOf(p, o.id)
    BY <1>4, <1>5 DEF Grouped, UsersOf
  <2> QED BY <1>7, <2>1, FS_EmptySet
<1>9. PICK less : less = [o EXCEPT !.size = @ - 1]
  OBVIOUS
<1>10. GroupsOK(groups) /\ ToSet(groups) = (ToSet(p.groups) \ {o}) \cup {less}
  BY <1>2, <1>4, <1>5, <1>8, <1>9, ReleaseIs
<1>11. less.id = o.id /\ less.size = o.size - 1
  <2>1. o \in Group
    <3>1. DOMAIN p.groups = 1 .. Len(p.groups) /\ p.groups \in Seq(Group)
      BY <1>4, LenProperties DEF GroupsOK
    <3> QED BY <3>1, ElementOfSeq DEF ToSet
  <2> QED BY <1>9, <2>1 DEF Group
<1>12. /\ q \in Port /\ q.sock = socks /\ q.groups = groups /\ q.tree = p.tree
       /\ q.update = p.update /\ q.deleted = p.deleted
       /\ q.active = p.active /\ q.open = p.open /\ q.iocp = p.iocp /\ q.afd = p.afd
  <2>1. DOMAIN p.sock \ {id} \in SUBSET SockIds /\ socks \in [DOMAIN p.sock \ {id} -> Sock]
    BY <1>1, <1>6
  <2>2. socks \in UNION {[D -> Sock] : D \in SUBSET SockIds}
    BY <2>1
  <2>3. groups \in Seq(Group)
    BY <1>10 DEF GroupsOK
  <2> QED BY <1>3, <2>2, <2>3 DEF Port
<1>13. DOMAIN q.sock = DOMAIN p.sock \ {id} /\ \A i \in DOMAIN p.sock \ {id} : q.sock[i] = p.sock[i]
  BY <1>1, <1>12
<1>14. Queued(q)
  BY <1>12, <1>13 DEF Sound, Queued
<1>15. Listed(q)
  <2>1. Listed(p)
    BY DEF Sound
  <2>2. \A h \in DOMAIN p.tree : p.tree[h] # id
    BY <2>1 DEF Listed
  <2>3. \A h \in DOMAIN q.tree : /\ q.tree[h] \in DOMAIN q.sock /\ q.sock[q.tree[h]].socket = h
                                 /\ ~q.sock[q.tree[h]].delete_pending
    BY <1>12, <1>13, <2>1, <2>2 DEF Listed
  <2>4. \A i \in DOMAIN q.sock : ~q.sock[i].delete_pending =>
          q.sock[i].socket \in DOMAIN q.tree /\ q.tree[q.sock[i].socket] = i
    BY <1>12, <1>13, <2>1 DEF Listed, Registered
  <2> QED BY <2>3, <2>4 DEF Listed, Registered
<1>16. Owed(q, held)
  <2>1. Owed(p, held)
    BY DEF Sound
  <2>2. Polled(q) = Polled(p) \ {id}
    BY <1>13 DEF Polled
  <2>3. Requested(q) = Requested(p) /\ Arrived(q) = Arrived(p)
    BY <1>12 DEF Requested, Arrived
  <2>4. Requested(q) \cup Arrived(q) \cup held \subseteq Polled(q)
    BY <2>1, <2>2, <2>3 DEF Owed
  <2>5. q.open => Polled(q) \subseteq Requested(q) \cup Arrived(q) \cup held
    BY <1>12, <2>1, <2>2, <2>3 DEF Owed
  <2>6. \A r \in q.afd : q.sock[r.sock].poll_status = PENDING
    <3>1. \A r \in p.afd : r.sock \in DOMAIN p.sock \ {id} /\ p.sock[r.sock].poll_status = PENDING
      BY <2>1 DEF Owed, Requested, Polled
    <3> QED BY <1>12, <1>13, <3>1
  <2> QED BY <1>12, <2>1, <2>3, <2>4, <2>5, <2>6 DEF Owed
<1>17. Grouped(q)
  <2>1. \A g : UsersOf(q, g) = UsersOf(p, g) \ {id}
    BY <1>13 DEF UsersOf
  <2>2. \A i \in DOMAIN q.sock : q.sock[i].poll_group \in {g.id : g \in ToSet(q.groups)}
    <3>1. {g.id : g \in ToSet(p.groups)} \subseteq {g.id : g \in ToSet(groups)}
      BY <1>10, <1>11
    <3>2. \A i \in DOMAIN p.sock : p.sock[i].poll_group \in {g.id : g \in ToSet(p.groups)}
      BY <1>4 DEF Grouped
    <3> QED BY <1>12, <1>13, <3>1, <3>2
  <2>3. ASSUME NEW g \in ToSet(groups) PROVE g.size = Cardinality(UsersOf(q, g.id))
    <3>1. CASE g = less
      <4>1. id \in UsersOf(p, o.id)
        BY <1>5 DEF UsersOf
      <4>2. Cardinality(UsersOf(p, o.id) \ {id}) = Cardinality(UsersOf(p, o.id)) - 1
        BY <1>7, <4>1, FS_RemoveElement
      <4> QED BY <1>8, <1>11, <2>1, <3>1, <4>2
    <3>2. CASE g \in ToSet(p.groups) \ {o}
      <4>1. g.id # o.id
        BY <1>4, <3>2, GroupsApart
      <4>2. UsersOf(q, g.id) = UsersOf(p, g.id)
        BY <1>5, <2>1, <4>1 DEF UsersOf
      <4> QED BY <1>4, <3>2, <4>2 DEF Grouped
    <3> QED BY <1>10, <3>1, <3>2
  <2> QED BY <1>10, <1>12, <2>2, <2>3 DEF Grouped
<1>18. Sound(q, held)
  BY <1>12, <1>14, <1>15, <1>16, <1>17 DEF Sound
<1> QED BY <1>12, <1>13, <1>18

(* The same of an ep_sock that is in a queue.                              *)
LEMMA FreedIs ==
  ASSUME NEW held, NEW p, Sound(p, held), NEW id \in DOMAIN p.sock,
         p.sock[id].delete_pending, id \notin Requested(p) \cup Arrived(p) \cup held,
         NEW q, q = Freed(p, id)
  PROVE  /\ Sound(q, held) /\ DOMAIN q.sock = DOMAIN p.sock \ {id}
         /\ \A i \in DOMAIN p.sock \ {id} : q.sock[i] = p.sock[i]
         /\ ToSet(q.update) = ToSet(p.update) \ {id}
         /\ ToSet(q.deleted) = ToSet(p.deleted) \ {id}
         /\ q.active = p.active /\ q.open = p.open
<1>1. PICK b : b = Dequeued(p, id)
  OBVIOUS
<1>2. /\ b \in Port /\ ButQueues(p, b) /\ Queued(b)
      /\ ToSet(b.update) = ToSet(p.update) \ {id}
      /\ ToSet(b.deleted) = ToSet(p.deleted) \ {id}
  BY <1>1, DequeuedIs DEF Sound
<1>3. Sound(b, held)
  BY <1>2, QueuesApart
<1>4. id \in DOMAIN b.sock /\ b.sock[id].delete_pending /\ id \notin Requested(b) \cup Arrived(b) \cup held
  BY <1>2 DEF ButQueues, Requested, Arrived
<1>5. q = Forgotten(b, id)
  BY <1>1 DEF Freed
<1>6. /\ Sound(q, held) /\ DOMAIN q.sock = DOMAIN b.sock \ {id}
      /\ \A i \in DOMAIN b.sock \ {id} : q.sock[i] = b.sock[i]
      /\ q.update = b.update /\ q.deleted = b.deleted
      /\ q.active = b.active /\ q.open = b.open
  BY <1>2, <1>3, <1>4, <1>5, ForgottenIs
<1> QED BY <1>2, <1>6 DEF ButQueues

(* An ep_sock is deleted: it is freed, unless its packet is still to come  *)
(* and it may wait for it.                                                 *)
LEMMA SockDeletedIs ==
  ASSUME NEW held, NEW p, Sound(p, held), NEW id \in DOMAIN p.sock, NEW force \in BOOLEAN,
         force => ~p.open /\ id \notin held,
         p.sock[id].delete_pending => p.sock[id].poll_status # PENDING,
         NEW q, q = _ep_sock_delete(p, id, force)
  PROVE  /\ Sound(q, held) /\ DOMAIN q.sock \subseteq DOMAIN p.sock
         /\ \A i \in DOMAIN p.sock \ {id} : i \in DOMAIN q.sock /\ q.sock[i] = p.sock[i]
         /\ force \/ p.sock[id].poll_status = IDLE => DOMAIN q.sock = DOMAIN p.sock \ {id}
         /\ ToSet(q.update) = ToSet(p.update) \ {id}
         /\ ToSet(q.deleted) \ {id} = ToSet(p.deleted) \ {id}
         /\ q.active = p.active /\ q.open = p.open
         /\ (/\ OthersAttended(p, id)
             /\ p.sock[id].poll_status # IDLE /\ p.sock[id].delete_pending => Attended(p, id))
              => AllAttended(q)
<1>1. PICK gone : gone = IF p.sock[id].delete_pending THEN p ELSE Unregistered(p, id)
  OBVIOUS
<1>2. /\ Sound(gone, held) /\ DOMAIN gone.sock = DOMAIN p.sock
      /\ gone.sock[id].delete_pending
      /\ gone.sock[id].poll_status = IDLE <=> p.sock[id].poll_status = IDLE
      /\ ~p.sock[id].delete_pending => gone.sock[id].poll_status \in {IDLE, CANCELLED}
      /\ \A i \in DOMAIN p.sock \ {id} : gone.sock[i] = p.sock[i]
      /\ ToSet(gone.update) = ToSet(p.update) \ {id}
      /\ ToSet(gone.deleted) \ {id} = ToSet(p.deleted) \ {id}
      /\ gone.active = p.active /\ gone.open = p.open
      /\ p.sock[id].delete_pending => gone = p
  <2>1. CASE p.sock[id].delete_pending
    <3>1. id \notin ToSet(p.update)
      BY <2>1 DEF Sound, Queued
    <3> QED BY <1>1, <2>1, <3>1
  <2>2. CASE ~p.sock[id].delete_pending
    <3>1. gone = Unregistered(p, id)
      BY <1>1, <2>2
    <3> HIDE <1>1
    <3> QED BY <2>2, <3>1, UnregisteredIs
  <2> QED BY <2>1, <2>2
<1>3. CASE force \/ gone.sock[id].poll_status = IDLE
  <2>1. id \notin Requested(gone) \cup Arrived(gone) \cup held
    <3>1. Owed(gone, held)
      BY <1>2 DEF Sound
    <3>2. CASE gone.sock[id].poll_status = IDLE
      BY <3>1, <3>2 DEF Owed, Polled
    <3>3. CASE force
      <4>1. id \notin held /\ gone.iocp = << >>
        BY <1>2, <3>1, <3>3 DEF Owed
      <4>2. id \notin Arrived(gone)
        BY <4>1 DEF Arrived, ToSet
      <4>3. gone.sock[id].poll_status # PENDING
        BY <1>2 DEF IDLE, PENDING, CANCELLED
      <4>4. id \notin Requested(gone)
        BY <3>1, <4>3 DEF Owed, Requested
      <4> QED BY <4>1, <4>2, <4>4
    <3> QED BY <1>3, <3>2, <3>3
  <2>2. q = Freed(gone, id)
    BY <1>1, <1>3 DEF _ep_sock_delete
  <2>3. /\ Sound(q, held) /\ DOMAIN q.sock = DOMAIN gone.sock \ {id}
        /\ \A i \in DOMAIN gone.sock \ {id} : q.sock[i] = gone.sock[i]
        /\ ToSet(q.update) = ToSet(gone.update) \ {id}
        /\ ToSet(q.deleted) = ToSet(gone.deleted) \ {id}
        /\ q.active = gone.active /\ q.open = gone.open
    BY <1>2, <2>1, <2>2, FreedIs
  <2>4. ASSUME OthersAttended(p, id) PROVE AllAttended(q)
    <3> SUFFICES ASSUME NEW i \in DOMAIN q.sock PROVE Attended(q, i)
      BY DEF AllAttended
    <3>1. i \in DOMAIN p.sock \ {id} /\ q.sock[i] = p.sock[i]
      BY <1>2, <2>3
    <3>2. Attended(p, i)
      BY <2>4, <3>1 DEF OthersAttended
    <3>3. /\ i \in ToSet(p.update) => i \in ToSet(q.update)
          /\ i \in ToSet(p.deleted) => i \in ToSet(q.deleted)
      BY <1>2, <2>3, <3>1
    <3> QED BY <3>1, <3>2, <3>3, StillAttended
  <2> QED BY <1>2, <2>3, <2>4
<1>4. CASE ~(force \/ gone.sock[id].poll_status = IDLE)
  <2>1. q = ep_port_add_deleted_socket(gone, id)
    BY <1>1, <1>4 DEF _ep_sock_delete
  <2>2. gone \in Port /\ Queued(gone) /\ id \in DOMAIN gone.sock /\ gone.sock[id].delete_pending
    BY <1>2 DEF Sound
  <2>3. /\ q \in Port /\ ButQueues(gone, q) /\ Queued(q)
        /\ ToSet(q.deleted) = ToSet(gone.deleted) \cup {id} /\ q.update = gone.update
    BY <2>1, <2>2, DeletedAdded
  <2>4. Sound(q, held)
    BY <1>2, <2>3, QueuesApart
  <2>5. ASSUME OthersAttended(p, id),
               p.sock[id].poll_status # IDLE /\ p.sock[id].delete_pending => Attended(p, id)
        PROVE  AllAttended(q)
    <3> SUFFICES ASSUME NEW i \in DOMAIN q.sock PROVE Attended(q, i)
      BY DEF AllAttended
    <3>1. CASE i = id
      <4>1. gone.sock[id].poll_status = CANCELLED
        BY <1>2, <1>4, <2>5 DEF Attended
      <4>2. q.sock[id] = gone.sock[id] /\ id \in ToSet(q.deleted)
        BY <2>3 DEF ButQueues
      <4> QED BY <2>2, <3>1, <4>1, <4>2 DEF Attended
    <3>2. CASE i # id
      <4>1. i \in DOMAIN p.sock \ {id} /\ q.sock[i] = p.sock[i]
        BY <1>2, <2>3, <3>2 DEF ButQueues
      <4>2. Attended(p, i)
        BY <2>5, <4>1 DEF OthersAttended
      <4>3. /\ i \in ToSet(p.update) => i \in ToSet(q.update)
            /\ i \in ToSet(p.deleted) => i \in ToSet(q.deleted)
        BY <1>2, <2>3, <4>1
      <4> QED BY <4>1, <4>2, <4>3, StillAttended
    <3> QED BY <3>1, <3>2
  <2>6. /\ DOMAIN q.sock = DOMAIN p.sock /\ q.sock = gone.sock
        /\ q.active = p.active /\ q.open = p.open
    BY <1>2, <2>3 DEF ButQueues
  <2>7. ToSet(q.deleted) \ {id} = ToSet(p.deleted) \ {id}
    BY <1>2, <2>3
  <2>8. ~(force \/ p.sock[id].poll_status = IDLE)
    BY <1>2, <1>4
  <2>9. ToSet(q.update) = ToSet(p.update) \ {id}
    BY <1>2, <2>3
  <2> QED BY <1>2, <2>4, <2>5, <2>6, <2>7, <2>8, <2>9
<1> QED BY <1>3, <1>4

----------------------------------------------------------------------------
(* Ep_socks that come.                                                     *)

(* An ep_sock gets a group that counts it.                                 *)
LEMMA SockNewIs ==
  ASSUME NEW held, NEW p \in Port, Sound(p, held), NEW h \in SOCKETs, h \notin DOMAIN p.tree,
         DOMAIN p.sock # SockIds, NEW q, q = ep_sock_new(p, h),
         NEW id, id = q.tree[h]
  PROVE  /\ Sound(q, held) /\ id \notin DOMAIN p.sock /\ DOMAIN q.sock = DOMAIN p.sock \cup {id}
         /\ q.sock[id].poll_status = IDLE /\ q.sock[id].pending_events = {}
         /\ ~q.sock[id].delete_pending
         /\ \A i \in DOMAIN p.sock : q.sock[i] = p.sock[i]
         /\ q.update = p.update /\ q.deleted = p.deleted
         /\ q.active = p.active /\ q.open = p.open
<1>1. PICK a \in SockIds \ DOMAIN p.sock : a = CHOOSE i \in SockIds : i \notin DOMAIN p.sock
  <2>1. DOMAIN p.sock \subseteq SockIds
    BY PortParts
  <2> QED BY <2>1
<1>2. PICK g : g = Grown(p.groups)
  OBVIOUS
<1>3. PICK s : s = [socket |-> h, poll_group |-> g.id, user_data |-> h,
                    user_events |-> {}, pending_events |-> {}, poll_status |-> IDLE,
                    delete_pending |-> FALSE]
  OBVIOUS
<1>4. PICK socks : socks = [i \in DOMAIN p.sock \cup {a} |-> IF i = a THEN s ELSE p.sock[i]]
  OBVIOUS
<1>5. PICK tree : tree = [f \in DOMAIN p.tree \cup {h} |-> IF f = h THEN a ELSE p.tree[f]]
  OBVIOUS
<1>6. PICK groups : groups = Acquire(p.groups)
  OBVIOUS
<1>7. q = [p EXCEPT !.groups = groups, !.sock = socks, !.tree = tree]
  BY <1>1, <1>2, <1>3, <1>4, <1>5, <1>6 DEF ep_sock_new
<1>8. Grouped(p) /\ GroupsOK(p.groups)
  BY DEF Sound, Grouped
<1>9. /\ GroupsOK(groups) /\ g \in Group
      /\ \/ /\ g.size = 1 /\ \A o \in ToSet(p.groups) : o.id # g.id
            /\ ToSet(groups) = ToSet(p.groups) \cup {g}
         \/ \E o \in ToSet(p.groups) : /\ g = [o EXCEPT !.size = @ + 1]
                                       /\ ToSet(groups) = (ToSet(p.groups) \ {o}) \cup {g}
  BY <1>2, <1>6, <1>8, AcquireIs
<1>10. /\ s \in Sock /\ s.socket = h /\ s.poll_group = g.id /\ s.pending_events = {}
       /\ s.poll_status = IDLE /\ ~s.delete_pending
  BY <1>3, <1>9 DEF Sock, Group
<1>11. /\ DOMAIN socks = DOMAIN p.sock \cup {a} /\ socks[a] = s
       /\ \A i \in DOMAIN p.sock : socks[i] = p.sock[i]
  BY <1>1, <1>4
<1>12. /\ DOMAIN tree = DOMAIN p.tree \cup {h} /\ tree[h] = a
       /\ \A f \in DOMAIN p.tree : tree[f] = p.tree[f]
  BY <1>5
<1>13. /\ q \in Port /\ q.sock = socks /\ q.groups = groups /\ q.tree = tree
       /\ q.update = p.update /\ q.deleted = p.deleted
       /\ q.active = p.active /\ q.open = p.open /\ q.iocp = p.iocp /\ q.afd = p.afd
  <2>1. socks \in [DOMAIN p.sock \cup {a} -> Sock] /\ DOMAIN p.sock \cup {a} \in SUBSET SockIds
    BY <1>1, <1>4, <1>10, PortParts
  <2>2. socks \in UNION {[D -> Sock] : D \in SUBSET SockIds}
    BY <2>1
  <2>3. tree \in [DOMAIN p.tree \cup {h} -> SockIds] /\ DOMAIN p.tree \cup {h} \in SUBSET SOCKETs
    BY <1>1, <1>5, PortParts
  <2>4. tree \in UNION {[T -> SockIds] : T \in SUBSET SOCKETs}
    BY <2>3
  <2>5. groups \in Seq(Group)
    BY <1>9 DEF GroupsOK
  <2> QED BY <1>7, <2>2, <2>4, <2>5 DEF Port
<1>14. id = a
  BY <1>12, <1>13
<1>15. /\ DOMAIN q.sock = DOMAIN p.sock \cup {a} /\ a \notin DOMAIN p.sock
       /\ q.sock[a].poll_group = g.id /\ q.sock[a].poll_status = IDLE
       /\ \A i \in DOMAIN p.sock : q.sock[i] = p.sock[i]
  <2>1. q.sock = socks
    BY <1>13
  <2> QED BY <1>1, <1>10, <1>11, <2>1
<1>16. Queued(q)
  BY <1>1, <1>11, <1>13 DEF Sound, Queued
<1>17. Listed(q)
  <2>1. Listed(p)
    BY DEF Sound
  <2>2. ASSUME NEW f \in DOMAIN q.tree
        PROVE  /\ q.tree[f] \in DOMAIN q.sock /\ q.sock[q.tree[f]].socket = f
               /\ ~q.sock[q.tree[f]].delete_pending
    <3>1. CASE f = h
      BY <1>10, <1>11, <1>12, <1>13, <3>1
    <3>2. CASE f \in DOMAIN p.tree
      BY <1>11, <1>12, <1>13, <2>1, <3>2 DEF Listed
    <3> QED BY <1>12, <1>13, <3>1, <3>2
  <2>3. ASSUME NEW i \in DOMAIN q.sock, ~q.sock[i].delete_pending
        PROVE  q.sock[i].socket \in DOMAIN q.tree /\ q.tree[q.sock[i].socket] = i
    <3>1. CASE i = a
      BY <1>10, <1>11, <1>12, <1>13, <3>1
    <3>2. CASE i \in DOMAIN p.sock
      BY <1>11, <1>12, <1>13, <2>1, <2>3, <3>2 DEF Listed, Registered
    <3> QED BY <1>11, <1>13, <3>1, <3>2
  <2> QED BY <2>2, <2>3 DEF Listed, Registered
<1>18. Owed(q, held)
  <2>1. Owed(p, held)
    BY DEF Sound
  <2>2. Polled(q) = Polled(p)
    BY <1>15 DEF Polled
  <2>3. Requested(q) = Requested(p) /\ Arrived(q) = Arrived(p)
    BY <1>13 DEF Requested, Arrived
  <2>4. \A r \in q.afd : q.sock[r.sock].poll_status = PENDING
    <3>1. \A r \in p.afd : r.sock \in DOMAIN p.sock /\ p.sock[r.sock].poll_status = PENDING
      BY <2>1 DEF Owed, Requested, Polled
    <3> QED BY <1>11, <1>13, <3>1
  <2> QED BY <1>13, <2>1, <2>2, <2>3, <2>4 DEF Owed
<1>19. IsFiniteSet(DOMAIN p.sock) /\ \A f : IsFiniteSet(UsersOf(p, f)) /\ a \notin UsersOf(p, f)
  <2>1. IsFiniteSet(DOMAIN p.sock)
    BY PortParts, SockIdsAssumption, FS_Subset
  <2>2. ASSUME NEW f PROVE IsFiniteSet(UsersOf(p, f)) /\ a \notin UsersOf(p, f)
    <3>1. UsersOf(p, f) \subseteq DOMAIN p.sock
      BY DEF UsersOf
    <3> QED BY <1>1, <2>1, <3>1, FS_Subset
  <2> QED BY <2>1, <2>2
<1>20. \A f : UsersOf(q, f) = UsersOf(p, f) \cup (IF f = g.id THEN {a} ELSE {})
  <2> SUFFICES ASSUME NEW f PROVE UsersOf(q, f) = UsersOf(p, f) \cup (IF f = g.id THEN {a} ELSE {})
    OBVIOUS
  <2>1. CASE f = g.id
    BY <1>15, <2>1 DEF UsersOf
  <2>2. CASE f # g.id
    BY <1>15, <2>2 DEF UsersOf
  <2> QED BY <2>1, <2>2
<1>21. Grouped(q)
  <2>1. CASE /\ g.size = 1 /\ \A o \in ToSet(p.groups) : o.id # g.id
             /\ ToSet(groups) = ToSet(p.groups) \cup {g}
    <3>1. \A i \in DOMAIN q.sock : q.sock[i].poll_group \in {o.id : o \in ToSet(groups)}
      BY <1>8, <1>10, <1>11, <1>13, <2>1 DEF Grouped
    <3>2. g.size = Cardinality(UsersOf(q, g.id))
      <4>1. UsersOf(p, g.id) = {}
        BY <1>8, <2>1 DEF Grouped, UsersOf
      <4>2. UsersOf(q, g.id) = {a}
        BY <1>20, <4>1
      <4> QED BY <2>1, <4>2, FS_Singleton
    <3>3. \A o \in ToSet(p.groups) : o.size = Cardinality(UsersOf(q, o.id))
      <4>1. \A o \in ToSet(p.groups) : UsersOf(q, o.id) = UsersOf(p, o.id)
        BY <1>20, <2>1
      <4> QED BY <1>8, <4>1 DEF Grouped
    <3> QED BY <1>9, <1>13, <2>1, <3>1, <3>2, <3>3 DEF Grouped
  <2>2. ASSUME NEW o \in ToSet(p.groups), g = [o EXCEPT !.size = @ + 1],
               ToSet(groups) = (ToSet(p.groups) \ {o}) \cup {g}
        PROVE  Grouped(q)
    <3>1. g.id = o.id /\ g.size = o.size + 1
      <4>1. o \in Group
        <5>1. DOMAIN p.groups = 1 .. Len(p.groups) /\ p.groups \in Seq(Group)
          BY <1>8, LenProperties DEF GroupsOK
        <5> QED BY <5>1, ElementOfSeq DEF ToSet
      <4> QED BY <2>2, <4>1 DEF Group
    <3>2. \A i \in DOMAIN q.sock : q.sock[i].poll_group \in {f.id : f \in ToSet(groups)}
      <4>1. {f.id : f \in ToSet(p.groups)} \subseteq {f.id : f \in ToSet(groups)}
        BY <2>2, <3>1
      <4>2. \A i \in DOMAIN p.sock : p.sock[i].poll_group \in {f.id : f \in ToSet(p.groups)}
        BY <1>8 DEF Grouped
      <4>3. g.id \in {f.id : f \in ToSet(groups)}
        BY <2>2
      <4> QED BY <1>10, <1>11, <1>13, <4>1, <4>2, <4>3
    <3>3. g.size = Cardinality(UsersOf(q, g.id))
      <4>1. o.size = Cardinality(UsersOf(p, o.id))
        BY <1>8 DEF Grouped
      <4>2. UsersOf(q, g.id) = UsersOf(p, o.id) \cup {a}
        BY <1>20, <3>1
      <4>3. Cardinality(UsersOf(p, o.id) \cup {a}) = Cardinality(UsersOf(p, o.id)) + 1
        BY <1>19, FS_AddElement
      <4> QED BY <3>1, <4>1, <4>2, <4>3
    <3>4. \A f \in ToSet(p.groups) \ {o} : f.size = Cardinality(UsersOf(q, f.id))
      <4> SUFFICES ASSUME NEW f \in ToSet(p.groups) \ {o} PROVE f.size = Cardinality(UsersOf(q, f.id))
        OBVIOUS
      <4>1. f.id # g.id
        BY <1>8, <3>1, GroupsApart
      <4>2. UsersOf(q, f.id) = UsersOf(p, f.id)
        BY <1>20, <4>1
      <4> QED BY <1>8, <4>2 DEF Grouped
    <3> QED BY <1>9, <1>13, <2>2, <3>2, <3>3, <3>4 DEF Grouped
  <2> QED BY <1>9, <2>1, <2>2
<1>22. Sound(q, held)
  BY <1>13, <1>16, <1>17, <1>18, <1>21 DEF Sound
<1> QED BY <1>1, <1>10, <1>11, <1>13, <1>14, <1>22

(* There is no memory, or the handle is registered: the groups count whom  *)
(* they counted, and there may be an empty one more.                       *)
LEMMA SockNewFailedIs ==
  ASSUME NEW held, NEW p \in Port, Sound(p, held), NEW q, q = ep_sock_new_failed(p)
  PROVE  /\ Sound(q, held) /\ q.sock = p.sock /\ q.update = p.update /\ q.deleted = p.deleted
         /\ q.active = p.active /\ q.open = p.open
<1>1. PICK g : g = Grown(p.groups)
  OBVIOUS
<1>2. PICK more : more = Acquire(p.groups)
  OBVIOUS
<1>3. PICK groups : groups = Release(more, g.id)
  OBVIOUS
<1>4. q = [p EXCEPT !.groups = groups]
  BY <1>1, <1>2, <1>3 DEF ep_sock_new_failed
<1>5. Grouped(p) /\ GroupsOK(p.groups)
  BY DEF Sound, Grouped
<1>6. /\ GroupsOK(more) /\ g \in Group
      /\ \/ /\ g.size = 1 /\ \A o \in ToSet(p.groups) : o.id # g.id
            /\ ToSet(more) = ToSet(p.groups) \cup {g}
         \/ \E o \in ToSet(p.groups) : /\ g = [o EXCEPT !.size = @ + 1]
                                       /\ ToSet(more) = (ToSet(p.groups) \ {o}) \cup {g}
  BY <1>1, <1>2, <1>5, AcquireIs
<1>7. \A o \in ToSet(p.groups) : o \in Group
  <2>1. DOMAIN p.groups = 1 .. Len(p.groups) /\ p.groups \in Seq(Group)
    BY <1>5, LenProperties DEF GroupsOK
  <2> QED BY <2>1, ElementOfSeq DEF ToSet
<1>8. g \in ToSet(more) /\ g.size # 0
  <2>1. g \in ToSet(more)
    BY <1>6
  <2>2. CASE g.size = 1
    BY <2>1, <2>2
  <2>3. ASSUME NEW o \in ToSet(p.groups), g = [o EXCEPT !.size = @ + 1] PROVE g.size # 0
    BY <1>7, <2>3 DEF Group
  <2> QED BY <1>6, <2>1, <2>2, <2>3
<1>9. PICK less : less = [g EXCEPT !.size = @ - 1]
  OBVIOUS
<1>10. GroupsOK(groups) /\ ToSet(groups) = (ToSet(more) \ {g}) \cup {less}
  BY <1>3, <1>6, <1>8, <1>9, ReleaseIs
<1>11. \/ ToSet(groups) = ToSet(p.groups)
       \/ /\ less.size = 0 /\ \A o \in ToSet(p.groups) : o.id # less.id
          /\ ToSet(groups) = ToSet(p.groups) \cup {less}
  <2>1. CASE /\ g.size = 1 /\ \A o \in ToSet(p.groups) : o.id # g.id
             /\ ToSet(more) = ToSet(p.groups) \cup {g}
    <3>1. less.size = 0 /\ less.id = g.id
      BY <1>6, <1>9, <2>1 DEF Group
    <3>2. g \notin ToSet(p.groups)
      BY <2>1
    <3> QED BY <1>10, <2>1, <3>1, <3>2
  <2>2. ASSUME NEW o \in ToSet(p.groups), g = [o EXCEPT !.size = @ + 1],
               ToSet(more) = (ToSet(p.groups) \ {o}) \cup {g}
        PROVE  ToSet(groups) = ToSet(p.groups)
    <3>1. o \in Group
      BY <1>7
    <3>2. g = [id |-> o.id, size |-> o.size + 1]
      BY <2>2, <3>1 DEF Group
    <3>3. less = [id |-> o.id, size |-> (o.size + 1) - 1]
      BY <1>9, <3>2
    <3>4. less = o
      BY <3>1, <3>3 DEF Group
    <3>5. g.id = o.id
      BY <3>2
    <3>6. g \notin ToSet(p.groups) \ {o}
      BY <1>5, <3>5, GroupsApart
    <3> QED BY <1>10, <2>2, <3>4, <3>6
  <2> QED BY <1>6, <2>1, <2>2
<1>12. /\ q \in Port /\ q.groups = groups /\ q.sock = p.sock /\ q.tree = p.tree
       /\ q.update = p.update /\ q.deleted = p.deleted
       /\ q.active = p.active /\ q.open = p.open /\ q.iocp = p.iocp /\ q.afd = p.afd
  <2>1. groups \in Seq(Group)
    BY <1>10 DEF GroupsOK
  <2> QED BY <1>4, <2>1 DEF Port
<1>13. Grouped(q)
  <2>1. \A f : UsersOf(q, f) = UsersOf(p, f)
    BY <1>12 DEF UsersOf
  <2>2. CASE ToSet(groups) = ToSet(p.groups)
    BY <1>5, <1>10, <1>12, <2>1, <2>2 DEF Grouped
  <2>3. CASE /\ less.size = 0 /\ \A o \in ToSet(p.groups) : o.id # less.id
             /\ ToSet(groups) = ToSet(p.groups) \cup {less}
    <3>1. UsersOf(q, less.id) = {}
      BY <1>5, <2>1, <2>3 DEF Grouped, UsersOf
    <3>2. less.size = Cardinality(UsersOf(q, less.id))
      BY <2>3, <3>1, FS_EmptySet
    <3>3. \A o \in ToSet(groups) : o.size = Cardinality(UsersOf(q, o.id))
      BY <1>5, <2>1, <2>3, <3>2 DEF Grouped
    <3> QED BY <1>5, <1>10, <1>12, <2>3, <3>3 DEF Grouped
  <2> QED BY <1>11, <2>2, <2>3
<1>14. Queued(q)
  BY <1>12 DEF Sound, Queued
<1>15. Listed(q)
  BY <1>12 DEF Sound, Listed, Registered
<1>16. Owed(q, held)
  BY <1>12 DEF Sound, Owed, Requested, Arrived, Polled
<1> QED BY <1>12, <1>13, <1>14, <1>15, <1>16 DEF Sound

----------------------------------------------------------------------------
(* What the user wants.                                                    *)

(* An ep_sock but for what the user wants of it.                           *)
LEMMA WantsSet ==
  ASSUME NEW held, NEW p \in Port, Sound(p, held), NEW id \in DOMAIN p.sock, NEW s \in Sock,
         s.socket = p.sock[id].socket, s.poll_group = p.sock[id].poll_group,
         s.delete_pending = p.sock[id].delete_pending, s.poll_status = p.sock[id].poll_status,
         NEW socks, socks = [p.sock EXCEPT ![id] = s], NEW q, q = [p EXCEPT !.sock = socks]
  PROVE  /\ Sound(q, held) /\ ButSocks(p, q) /\ ButPolls(p, q) /\ q.sock[id] = s
         /\ \A i \in DOMAIN p.sock \ {id} : q.sock[i] = p.sock[i]
<1>1. /\ q \in Port /\ ButSocks(p, q) /\ q.iocp = p.iocp /\ q.afd = p.afd
      /\ DOMAIN q.sock = DOMAIN p.sock /\ q.sock[id] = s
      /\ \A i \in DOMAIN p.sock \ {id} : q.sock[i] = p.sock[i]
  BY SockSet
<1>2. ButPolls(p, q)
  BY <1>1 DEF ButPolls
<1>3. \A i \in DOMAIN p.sock : q.sock[i].poll_status = p.sock[i].poll_status
  BY <1>1
<1>4. Owed(q, held)
  <2>1. Owed(p, held)
    BY DEF Sound
  <2>2. Polled(q) = Polled(p)
    BY <1>1, <1>3 DEF Polled
  <2>3. Requested(q) = Requested(p) /\ Arrived(q) = Arrived(p)
    BY <1>1 DEF Requested, Arrived
  <2>4. \A r \in q.afd : q.sock[r.sock].poll_status = PENDING
    <3>1. \A r \in p.afd : r.sock \in DOMAIN p.sock /\ p.sock[r.sock].poll_status = PENDING
      BY <2>1 DEF Owed, Requested, Polled
    <3> QED BY <1>1, <1>3, <3>1
  <2> QED BY <1>1, <2>1, <2>2, <2>3, <2>4 DEF Owed, ButSocks
<1> QED BY <1>1, <1>2, <1>4, PollsApart

\* An event as epoll_ctl is given one.
Told == [events : Masks, data : SOCKETs]

(* A socket that nothing is watched of yet is always to be updated: errors *)
(* and hang-ups are reported in any case.                                  *)
LEMMA SockEventSetIs ==
  ASSUME NEW held, NEW p \in Port, Sound(p, held), NEW id \in DOMAIN p.sock,
         ~p.sock[id].delete_pending, OthersAttended(p, id),
         Attended(p, id) \/ p.sock[id].pending_events = {},
         NEW ev \in Told, NEW q, q = ep_sock_set_event(p, id, ev)
  PROVE  PortOK(q, held) /\ q.active = p.active /\ q.open = p.open
<1>1. PICK s : s = [p.sock[id] EXCEPT !.user_events = ev.events \cup AlwaysReported,
                                      !.user_data = ev.data]
  OBVIOUS
<1>2. PICK socks : socks = [p.sock EXCEPT ![id] = s]
  OBVIOUS
<1>3. PICK set : set = [p EXCEPT !.sock = socks]
  OBVIOUS
<1>4. set = SetEvents(p, id, ev)
  BY <1>1, <1>2, <1>3 DEF SetEvents, Port
<1>5. p.sock[id] \in Sock
  BY PortParts
<1>6. /\ s \in Sock /\ s.socket = p.sock[id].socket /\ s.poll_group = p.sock[id].poll_group
      /\ s.delete_pending = p.sock[id].delete_pending
      /\ s.poll_status = p.sock[id].poll_status
      /\ s.pending_events = p.sock[id].pending_events
      /\ s.user_events = ev.events \cup AlwaysReported
  <2>1. ev.events \cup AlwaysReported \in SUBSET Events /\ ev.data \in SOCKETs
    <3>1. ev.events \in Masks /\ ev.data \in SOCKETs
      BY DEF Told
    <3>2. \A e \in ev.events : e \in UNION Masks
      BY <3>1
    <3>3. \A e \in ev.events \cup AlwaysReported : e \in Events
      BY <3>2 DEF Events
    <3> QED BY <3>1, <3>3
  <2> QED BY <1>1, <1>5, <2>1 DEF Sock
<1>7. /\ Sound(set, held) /\ ButSocks(p, set) /\ ButPolls(p, set) /\ set.sock[id] = s
      /\ \A i \in DOMAIN p.sock \ {id} : set.sock[i] = p.sock[i]
  BY <1>2, <1>3, <1>6, WantsSet
<1>8. \A i \in DOMAIN p.sock \ {id} : Attended(set, i)
  <2> SUFFICES ASSUME NEW i \in DOMAIN p.sock \ {id} PROVE Attended(set, i)
    OBVIOUS
  <2>1. Attended(p, i)
    BY DEF OthersAttended
  <2> QED BY <1>7, <2>1, StillAttended DEF ButSocks
<1>9. DOMAIN set.sock = DOMAIN p.sock /\ id \in DOMAIN set.sock
  BY <1>7 DEF ButPolls
<1>10. CASE Unwatched(set.sock[id]) # {}
  <2>1. q = ep_port_request_socket_update(set, id)
    BY <1>4, <1>10 DEF ep_sock_set_event
  <2>2. set \in Port /\ Queued(set) /\ ~set.sock[id].delete_pending
    BY <1>6, <1>7 DEF Sound
  <2>3. /\ q \in Port /\ ButQueues(set, q) /\ Queued(q)
        /\ ToSet(q.update) = ToSet(set.update) \cup {id} /\ q.deleted = set.deleted
    BY <1>9, <2>1, <2>2, UpdateRequested
  <2>4. Sound(q, held)
    BY <1>7, <2>3, QueuesApart
  <2>5. AllAttended(q)
    <3>1. Attended(q, id)
      BY <2>2, <2>3 DEF Attended, ButQueues
    <3>2. ASSUME NEW i \in DOMAIN p.sock \ {id} PROVE Attended(q, i)
      BY <1>8, <2>3, StillAttended DEF ButQueues
    <3> QED BY <1>9, <2>3, <3>1, <3>2 DEF AllAttended, ButQueues
  <2> QED BY <1>7, <2>3, <2>4, <2>5 DEF PortOK, ButQueues, ButSocks
<1>11. CASE Unwatched(set.sock[id]) = {}
  <2>1. q = set
    BY <1>4, <1>11 DEF ep_sock_set_event
  <2>2. s.pending_events # {}
    BY <1>6, <1>7, <1>11 DEF Unwatched, AlwaysReported, _KNOWN_EPOLL_EVENTS
  <2>3. Attended(p, id)
    BY <1>6, <2>2
  <2>4. Attended(q, id)
    BY <1>6, <1>7, <1>11, <2>1, <2>3 DEF Attended, ButSocks
  <2> QED BY <1>7, <1>8, <1>9, <2>1, <2>4 DEF PortOK, AllAttended, ButSocks
<1> QED BY <1>10, <1>11

(* An ep_sock is deleted that has no poll: it is freed.                    *)
LEMMA DeletedIs ==
  ASSUME NEW held, NEW p, Sound(p, held), NEW id \in DOMAIN p.sock,
         p.sock[id].delete_pending => p.sock[id].poll_status # PENDING,
         NEW q, q = ep_sock_delete(p, id)
  PROVE  /\ Sound(q, held) /\ ToSet(q.update) = ToSet(p.update) \ {id}
         /\ q.active = p.active /\ q.open = p.open
         /\ (/\ OthersAttended(p, id)
             /\ p.sock[id].poll_status # IDLE /\ p.sock[id].delete_pending => Attended(p, id))
              => AllAttended(q)
<1>1. PICK force \in BOOLEAN : force = FALSE
  OBVIOUS
<1>2. q = _ep_sock_delete(p, id, force)
  BY <1>1, Zenon DEF ep_sock_delete
<1>3. force => ~p.open /\ id \notin held
  BY <1>1
<1> QED BY <1>2, <1>3, SockDeletedIs

----------------------------------------------------------------------------
(* Updates.                                                                *)

(* An ep_sock is taken out of the queue, attended to otherwise.            *)
LEMMA DequeuedOK ==
  ASSUME NEW held, NEW p, Sound(p, held), NEW id \in DOMAIN p.sock, OthersAttended(p, id),
         ~p.sock[id].delete_pending, NEW q, q = Dequeued(p, id)
  PROVE  /\ Sound(q, held) /\ OthersAttended(q, id) /\ q.sock = p.sock
         /\ ToSet(q.update) = ToSet(p.update) \ {id}
         /\ q.active = p.active /\ q.open = p.open
         /\ (\/ p.sock[id].poll_status = CANCELLED
             \/ p.sock[id].poll_status = PENDING /\ Unwatched(p.sock[id]) = {}) => PortOK(q, held)
<1>1. /\ q \in Port /\ ButQueues(p, q) /\ Queued(q)
      /\ ToSet(q.update) = ToSet(p.update) \ {id}
      /\ ToSet(q.deleted) = ToSet(p.deleted) \ {id}
  BY DequeuedIs DEF Sound
<1>2. Sound(q, held)
  BY <1>1, QueuesApart
<1>3. ASSUME NEW i \in DOMAIN p.sock \ {id} PROVE Attended(q, i)
  <2>1. Attended(p, i)
    BY DEF OthersAttended
  <2> QED BY <1>1, <2>1, StillAttended DEF ButQueues
<1>4. OthersAttended(q, id)
  BY <1>1, <1>3 DEF OthersAttended, ButQueues
<1>5. ASSUME \/ p.sock[id].poll_status = CANCELLED
             \/ p.sock[id].poll_status = PENDING /\ Unwatched(p.sock[id]) = {}
      PROVE  PortOK(q, held)
  <2>1. Attended(q, id)
    BY <1>1, <1>5 DEF Attended, ButQueues
  <2> QED BY <1>1, <1>2, <1>3, <2>1 DEF PortOK, AllAttended, ButQueues
<1> QED BY <1>1, <1>2, <1>4, <1>5 DEF ButQueues

(* The poll of an ep_sock has changed and no other one.                    *)
LEMMA OthersStillAttended ==
  ASSUME NEW p, NEW q, NEW id, OthersAttended(p, id), ButSocks(p, q), ButPolls(p, q),
         \A i \in DOMAIN p.sock \ {id} : q.sock[i] = p.sock[i]
  PROVE  OthersAttended(q, id)
<1> SUFFICES ASSUME NEW i \in DOMAIN p.sock \ {id} PROVE Attended(q, i)
  BY DEF OthersAttended, ButPolls
<1>1. Attended(p, i)
  BY DEF OthersAttended
<1> QED BY <1>1, StillAttended DEF ButSocks

(* A socket that queues to be updated has a poll that watches for all the  *)
(* user wants, or its poll is cancelled, or it is gone.  Nothing changes   *)
(* when the driver refuses it.                                             *)
LEMMA SockUpdatedIs ==
  ASSUME NEW held, NEW p, PortOK(p, held), NEW id \in ToSet(p.update), NEW kernel,
         NEW r, r = ep_sock_update(p, kernel, id)
  PROVE  PortOK(r.port, held) /\ r \in Result /\ UpdateGives(p, kernel, id, r)
<1>1. /\ p \in Port /\ Sound(p, held) /\ id \in DOMAIN p.sock /\ ~p.sock[id].delete_pending
      /\ OthersAttended(p, id)
  BY DEF PortOK, Sound, Queued, AllAttended, OthersAttended
<1>2. p.sock[id].poll_status \in {IDLE, PENDING, CANCELLED}
  <2>1. p.sock[id] \in Sock
    BY <1>1, PortParts
  <2> QED BY <2>1 DEF Sock
<1>3. ASSUME NEW q, r = [ok |-> TRUE, port |-> q], PortOK(q, held),
              q.active = p.active, q.open = p.open, ToSet(q.update) = ToSet(p.update) \ {id}
       PROVE  PortOK(r.port, held) /\ r \in Result /\ UpdateGives(p, kernel, id, r)
  <2>1. r.ok = TRUE /\ r.port = q
    BY <1>3
  <2>2. q \in Port
    BY <1>3 DEF PortOK, Sound
  <2>3. r \in Result
    BY <1>3, <2>2 DEF Result
  <2> QED BY <1>3, <2>1, <2>3 DEF UpdateGives
<1>4. ASSUME NEW q, q = Dequeued(p, id), r = [ok |-> TRUE, port |-> q],
             \/ p.sock[id].poll_status = CANCELLED
             \/ p.sock[id].poll_status = PENDING /\ Unwatched(p.sock[id]) = {}
      PROVE  PortOK(r.port, held) /\ r \in Result /\ UpdateGives(p, kernel, id, r)
  <2>1. /\ PortOK(q, held) /\ q.active = p.active /\ q.open = p.open
        /\ ToSet(q.update) = ToSet(p.update) \ {id}
    BY <1>1, <1>4, DequeuedOK
  <2> QED BY <1>4, <1>3, <2>1
<1>5. CASE p.sock[id].poll_status = PENDING /\ Unwatched(p.sock[id]) = {}
  <2>1. r = [ok |-> TRUE, port |-> Dequeued(p, id)]
    BY <1>5 DEF ep_sock_update, IDLE, PENDING, CANCELLED
  <2> QED BY <1>4, <1>5, <2>1
<1>6. CASE p.sock[id].poll_status = CANCELLED
  <2>1. r = [ok |-> TRUE, port |-> Dequeued(p, id)]
    BY <1>6 DEF ep_sock_update, IDLE, PENDING, CANCELLED
  <2> QED BY <1>4, <1>6, <2>1
<1>7. CASE p.sock[id].poll_status = PENDING /\ Unwatched(p.sock[id]) # {}
  <2>1. PICK a : a = _ep_sock_cancel_poll(p, id)
    OBVIOUS
  <2>2. PICK q : q = Dequeued(a, id)
    OBVIOUS
  <2>3. r = [ok |-> TRUE, port |-> q]
    BY <1>7, <2>1, <2>2 DEF ep_sock_update, IDLE, PENDING, CANCELLED
  <2>4. /\ Sound(a, held) /\ ButSocks(p, a) /\ ButPolls(p, a)
        /\ a.sock[id].poll_status = CANCELLED
        /\ \A i \in DOMAIN p.sock \ {id} : a.sock[i] = p.sock[i]
    BY <1>1, <1>7, <2>1, Cancelled
  <2>5. id \in DOMAIN a.sock /\ ~a.sock[id].delete_pending /\ OthersAttended(a, id)
    BY <1>1, <2>4, OthersStillAttended DEF ButPolls
  <2>6. /\ PortOK(q, held) /\ q.active = a.active /\ q.open = a.open
        /\ ToSet(q.update) = ToSet(a.update) \ {id}
    BY <2>2, <2>4, <2>5, DequeuedOK
  <2>7. q.active = p.active /\ q.open = p.open /\ ToSet(q.update) = ToSet(p.update) \ {id}
    BY <2>4, <2>6 DEF ButSocks
  <2> QED BY <1>3, <2>3, <2>6, <2>7
<1>8. CASE p.sock[id].poll_status = IDLE /\ p.sock[id].socket \notin kernel.open
  <2>1. PICK b : b = Dequeued(p, id)
    OBVIOUS
  <2>2. PICK q : q = ep_sock_delete(b, id)
    OBVIOUS
  <2>3. r = [ok |-> TRUE, port |-> q]
    BY <1>8, <2>1, <2>2 DEF ep_sock_update, IDLE, PENDING, CANCELLED
  <2>4. /\ Sound(b, held) /\ OthersAttended(b, id) /\ b.sock = p.sock
        /\ ToSet(b.update) = ToSet(p.update) \ {id}
        /\ b.active = p.active /\ b.open = p.open
    BY <1>1, <2>1, DequeuedOK
  <2>5. /\ Sound(q, held) /\ ToSet(q.update) = ToSet(b.update) \ {id}
        /\ q.active = b.active /\ q.open = b.open /\ AllAttended(q)
    <3>1. id \in DOMAIN b.sock /\ b.sock[id].poll_status = IDLE /\ ~b.sock[id].delete_pending
      BY <1>1, <1>8, <2>4
    <3> QED BY <2>2, <2>4, <3>1, DeletedIs
  <2>6. PortOK(q, held)
    BY <2>5 DEF PortOK
  <2>7. q.active = p.active /\ q.open = p.open /\ ToSet(q.update) = ToSet(p.update) \ {id}
    BY <2>4, <2>5
  <2> QED BY <1>3, <2>3, <2>6, <2>7
<1>9. CASE /\ p.sock[id].poll_status = IDLE /\ p.sock[id].socket \in kernel.open
           /\ p.sock[id].socket \in kernel.broken
  <2>1. r = [ok |-> FALSE, port |-> p]
    BY <1>9 DEF ep_sock_update, IDLE, PENDING, CANCELLED
  <2>2. r.ok = FALSE /\ r.port = p
    BY <2>1
  <2>3. kernel.broken # {}
    BY <1>9
  <2>4. r \in Result
    BY <1>1, <2>1 DEF Result
  <2> QED BY <2>2, <2>3, <2>4 DEF UpdateGives
<1>10. CASE /\ p.sock[id].poll_status = IDLE /\ p.sock[id].socket \in kernel.open
           /\ p.sock[id].socket \notin kernel.broken
  <2>1. PICK a : a = _poll_req_submit(p, kernel, id)
    OBVIOUS
  <2>2. PICK q : q = Dequeued(a, id)
    OBVIOUS
  <2>3. r = [ok |-> TRUE, port |-> q]
    BY <1>10, <2>1, <2>2 DEF ep_sock_update, IDLE, PENDING, CANCELLED
  <2>4. /\ Sound(a, held) /\ ButSocks(p, a) /\ ButPolls(p, a)
        /\ a.sock[id].poll_status = PENDING /\ Unwatched(a.sock[id]) = {}
        /\ \A i \in DOMAIN p.sock \ {id} : a.sock[i] = p.sock[i]
    <3>1. Sound(p, held) /\ id \in DOMAIN p.sock /\ p.sock[id].poll_status = IDLE
      BY <1>1, <1>10
    <3>2. Unwatched(a.sock[id]) = {}
      BY <2>1, <3>1, Submitted, Zenon
    <3>3. /\ Sound(a, held) /\ ButSocks(p, a) /\ ButPolls(p, a)
          /\ a.sock[id].poll_status = PENDING
          /\ \A i \in DOMAIN p.sock \ {id} : a.sock[i] = p.sock[i]
      BY <2>1, <3>1, Submitted
    <3> QED BY <3>2, <3>3
  <2>5. id \in DOMAIN a.sock /\ ~a.sock[id].delete_pending /\ OthersAttended(a, id)
    BY <1>1, <2>4, OthersStillAttended DEF ButPolls
  <2>6. /\ PortOK(q, held) /\ q.active = a.active /\ q.open = a.open
        /\ ToSet(q.update) = ToSet(a.update) \ {id}
    BY <2>2, <2>4, <2>5, DequeuedOK
  <2>7. q.active = p.active /\ q.open = p.open /\ ToSet(q.update) = ToSet(p.update) \ {id}
    BY <2>4, <2>6 DEF ButSocks
  <2> QED BY <1>3, <2>3, <2>6, <2>7
<1> QED BY <1>2, <1>5, <1>6, <1>7, <1>8, <1>9, <1>10

----------------------------------------------------------------------------
(* Packets.                                                                *)

(* The user asks nothing of an ep_sock any more.                           *)
LEMMA IgnoredIs ==
  ASSUME NEW held, NEW p \in Port, Sound(p, held), NEW id \in DOMAIN p.sock,
         NEW q, q = Ignored(p, id)
  PROVE  /\ Sound(q, held) /\ ButSocks(p, q) /\ ButPolls(p, q)
         /\ q.sock[id].poll_status = p.sock[id].poll_status
         /\ \A i \in DOMAIN p.sock \ {id} : q.sock[i] = p.sock[i]
<1>1. PICK s : s = [p.sock[id] EXCEPT !.user_events = {}]
  OBVIOUS
<1>2. PICK socks : socks = [p.sock EXCEPT ![id] = s]
  OBVIOUS
<1>3. q = [p EXCEPT !.sock = socks]
  BY <1>1, <1>2 DEF Ignored, Port
<1>4. p.sock[id] \in Sock
  BY PortParts
<1>5. /\ s \in Sock /\ s.socket = p.sock[id].socket /\ s.poll_group = p.sock[id].poll_group
      /\ s.delete_pending = p.sock[id].delete_pending
      /\ s.poll_status = p.sock[id].poll_status
  BY <1>1, <1>4 DEF Sock
<1>6. /\ Sound(q, held) /\ ButSocks(p, q) /\ ButPolls(p, q) /\ q.sock[id] = s
      /\ \A i \in DOMAIN p.sock \ {id} : q.sock[i] = p.sock[i]
  BY <1>2, <1>3, <1>5, WantsSet
<1> QED BY <1>5, <1>6

(* A packet is fed: its ep_sock queues to be updated, or it is gone.       *)
LEMMA SockFedIs ==
  ASSUME NEW held, NEW p, PortOK(p, held), NEW c, c.sock \in held,
         NEW q, q = ep_sock_feed_event(p, c).port
  PROVE  PortOK(q, held \ {c.sock}) /\ SameUse(p, q)
<1>1. PICK id \in held : id = c.sock
  OBVIOUS
<1>2. PICK idle : idle = Idled(p, id)
  OBVIOUS
<1>3. PICK ignored : ignored = Ignored(idle, id)
  OBVIOUS
<1>4. PICK heard \in {idle, ignored} :
        q = IF p.sock[id].delete_pending \/ "LOCAL_CLOSE" \in c.outcome
            THEN ep_sock_delete(heard, id)
            ELSE ep_port_request_socket_update(heard, id)
  BY <1>1, <1>2, <1>3 DEF ep_sock_feed_event
<1> DEFINE rest == held \ {id}
<1>5. Sound(p, held)
  BY DEF PortOK
<1>6. /\ Sound(idle, rest) /\ ButSocks(p, idle) /\ ButPolls(p, idle)
      /\ id \in DOMAIN p.sock /\ idle.sock[id].poll_status = IDLE
      /\ \A i \in DOMAIN p.sock \ {id} : idle.sock[i] = p.sock[i]
  BY <1>2, <1>5, IdledIs
<1> HIDE DEF rest
<1>7. idle \in Port /\ id \in DOMAIN idle.sock
  BY <1>6 DEF Sound, ButPolls
<1>8. /\ Sound(ignored, rest) /\ ButSocks(idle, ignored) /\ ButPolls(idle, ignored)
      /\ ignored.sock[id].poll_status = IDLE
      /\ \A i \in DOMAIN idle.sock \ {id} : ignored.sock[i] = idle.sock[i]
  <2>1. /\ Sound(ignored, rest) /\ ButSocks(idle, ignored) /\ ButPolls(idle, ignored)
        /\ ignored.sock[id].poll_status = idle.sock[id].poll_status
        /\ \A i \in DOMAIN idle.sock \ {id} : ignored.sock[i] = idle.sock[i]
    BY <1>3, <1>6, <1>7, IgnoredIs
  <2> QED BY <1>6, <2>1
<1>9. /\ Sound(heard, rest) /\ ButSocks(p, heard) /\ ButPolls(p, heard)
      /\ heard.sock[id].poll_status = IDLE
      /\ \A i \in DOMAIN p.sock \ {id} : heard.sock[i] = p.sock[i]
  <2>1. CASE heard = idle
    BY <1>6, <2>1
  <2>2. CASE heard = ignored
    <3>1. ButSocks(p, ignored) /\ ButPolls(p, ignored)
      BY <1>6, <1>8 DEF ButSocks, ButPolls
    <3>2. \A i \in DOMAIN p.sock \ {id} : ignored.sock[i] = p.sock[i]
      BY <1>6, <1>8 DEF ButPolls
    <3> QED BY <1>8, <2>2, <3>1, <3>2
  <2> QED BY <2>1, <2>2
<1>10. OthersAttended(heard, id)
  <2>1. OthersAttended(p, id)
    BY DEF PortOK, AllAttended, OthersAttended
  <2> QED BY <1>9, <2>1, OthersStillAttended
<1>11. heard \in Port /\ id \in DOMAIN heard.sock /\ Queued(heard)
  BY <1>6, <1>9 DEF Sound, ButPolls
<1>12. CASE p.sock[id].delete_pending \/ "LOCAL_CLOSE" \in c.outcome
  <2>1. q = ep_sock_delete(heard, id)
    BY <1>4, <1>12
  <2>2. heard.sock[id].poll_status # PENDING
    BY <1>9 DEF IDLE, PENDING
  <2>3. Sound(q, rest) /\ q.active = heard.active /\ q.open = heard.open /\ AllAttended(q)
    BY <1>9, <1>10, <1>11, <2>1, <2>2, DeletedIs
  <2> QED BY <1>1, <1>9, <2>3 DEF PortOK, ButSocks, SameUse, rest
<1>13. CASE ~(p.sock[id].delete_pending \/ "LOCAL_CLOSE" \in c.outcome)
  <2>1. q = ep_port_request_socket_update(heard, id)
    BY <1>4, <1>13
  <2>2. ~heard.sock[id].delete_pending
    BY <1>6, <1>9, <1>13 DEF ButPolls
  <2>3. /\ q \in Port /\ ButQueues(heard, q) /\ Queued(q)
        /\ ToSet(q.update) = ToSet(heard.update) \cup {id} /\ q.deleted = heard.deleted
    BY <1>11, <2>1, <2>2, UpdateRequested
  <2>4. Sound(q, rest)
    BY <1>9, <2>3, QueuesApart
  <2>5. AllAttended(q)
    <3>1. Attended(q, id)
      BY <2>2, <2>3 DEF Attended, ButQueues
    <3>2. ASSUME NEW i \in DOMAIN heard.sock \ {id} PROVE Attended(q, i)
      <4>1. Attended(heard, i)
        BY <1>10 DEF OthersAttended
      <4> QED BY <2>3, <4>1, StillAttended DEF ButQueues
    <3> QED BY <2>3, <3>1, <3>2 DEF AllAttended, ButQueues
  <2> QED BY <1>1, <1>9, <2>3, <2>4, <2>5 DEF PortOK, ButSocks, ButQueues, SameUse, rest
<1> QED BY <1>12, <1>13

----------------------------------------------------------------------------
(* Folds: what holds before the i-th step is X[i - 1], and after it X[i].  *)

(* A set of numbers with 0 and with the successor of each of its members has
   every number: the induction behind each loop over a queue.              *)
LEMMA SetInduction ==
  ASSUME NEW T, 0 \in T, \A n \in Nat : n \in T => n + 1 \in T
  PROVE  \A n \in Nat : n \in T
<1> DEFINE Rest == {n \in Nat : n \notin T}
           R == OpToRel(<, Nat)
<1>1. SUFFICES ASSUME Rest # {} PROVE FALSE
  BY DEF Rest
<1>2. PICK x \in Rest : \A y \in Rest : <<y, x>> \notin R
  <2>1. Rest \subseteq Nat /\ IsWellFoundedOn(R, Nat)
    BY NatLessThanWellFounded
  <2> HIDE DEF Rest, R
  <2> QED BY <1>1, <2>1, WFMin
<1>3. x \in Nat /\ x # 0 /\ x \notin T
  BY <1>2
<1>4. x - 1 \in Nat /\ x - 1 < x /\ (x - 1) + 1 = x
  BY <1>3, SMT
<1>5. x - 1 \notin Rest
  <2>1. <<x - 1, x>> \in R
    BY <1>3, <1>4 DEF OpToRel
  <2> QED BY <1>2, <2>1
<1> QED BY <1>3, <1>4, <1>5

\* A function of 0 .. n.
IsTrace(n, f) == f = [i \in 0 .. n |-> f[i]]

(* A sequence of states that starts well and goes on well ends well.       *)
LEMMA EndsWell ==
  ASSUME NEW n \in Nat, NEW X, NEW f, f[0] \in X[0],
         \A i \in 1 .. n : f[i - 1] \in X[i - 1] => f[i] \in X[i]
  PROVE  f[n] \in X[n]
<1> DEFINE T == {m \in Nat : m <= n => f[m] \in X[m]}
<1>1. 0 \in T
  OBVIOUS
<1>2. ASSUME NEW m \in Nat, m \in T PROVE m + 1 \in T
  <2> SUFFICES ASSUME m + 1 <= n PROVE f[m + 1] \in X[m + 1]
    OBVIOUS
  <2>1. m + 1 \in 1 .. n /\ (m + 1) - 1 = m /\ f[m] \in X[m]
    BY <1>2
  <2> HIDE DEF T
  <2> QED BY <2>1
<1>3. \A m \in Nat : m \in T
  <2> HIDE DEF T
  <2> QED BY <1>1, <1>2, SetInduction
<1> QED BY <1>3

\* The i-th of n steps, from a state x, is F[i][x].
StepsWell(n, X, F) == \A i \in 1 .. n : \A x \in X[i - 1] : F[i][x] \in X[i]

IsRun(n, X, F, start, f) ==
  /\ f[0] = start /\ IsTrace(n, f)
  /\ \A i \in 1 .. n : f[i - 1] \in X[i - 1] /\ f[i] = F[i][f[i - 1]]

(* There are such states when every step has a result.                     *)
LEMMA StatesExist ==
  ASSUME NEW n \in Nat, NEW X, NEW F, NEW start, start \in X[0], StepsWell(n, X, F)
  PROVE  \E f : IsRun(n, X, F, start, f)
<1> DEFINE P(m, f) == /\ f[0] = start /\ f[m] \in X[m] /\ IsTrace(m, f)
                      /\ \A i \in 1 .. m : f[i - 1] \in X[i - 1] /\ f[i] = F[i][f[i - 1]]
           T == {m \in Nat : m <= n => \E f : P(m, f)}
<1>1. 0 \in T
  <2> DEFINE f == [i \in 0 .. 0 |-> start]
  <2>1. P(0, f)
    BY DEF IsTrace
  <2> QED BY <2>1
<1>2. ASSUME NEW m \in Nat, m \in T PROVE m + 1 \in T
  <2> SUFFICES ASSUME m + 1 <= n PROVE \E f : P(m + 1, f)
    OBVIOUS
  <2>1. PICK g : P(m, g)
    BY <1>2
  <2>2. PICK new : new = F[m + 1][g[m]]
    OBVIOUS
  <2>3. m + 1 \in 1 .. n /\ (m + 1) - 1 = m
    OBVIOUS
  <2>4. new \in X[m + 1]
    BY <2>1, <2>2, <2>3 DEF StepsWell
  <2> DEFINE f == [i \in 0 .. m + 1 |-> IF i = m + 1 THEN new ELSE g[i]]
  <2>5. f[m + 1] = new /\ \A i \in 0 .. m : f[i] = g[i]
    OBVIOUS
  <2>6. IsTrace(m + 1, f)
    BY DEF IsTrace
  <2> HIDE DEF f
  <2>7. f[0] = start /\ f[m + 1] \in X[m + 1]
    BY <2>1, <2>4, <2>5
  <2>8. ASSUME NEW i \in 1 .. m + 1
        PROVE  f[i - 1] \in X[i - 1] /\ f[i] = F[i][f[i - 1]]
    <3>1. CASE i = m + 1
      BY <2>1, <2>2, <2>3, <2>5, <3>1
    <3>2. CASE i # m + 1
      <4>1. i \in 1 .. m /\ i \in 0 .. m /\ i - 1 \in 0 .. m
        BY <3>2
      <4> QED BY <2>1, <2>5, <4>1
    <3> QED BY <3>1, <3>2
  <2> QED BY <2>6, <2>7, <2>8
<1>3. n \in T
  <2> HIDE DEF T
  <2> QED BY <1>1, <1>2, SetInduction
<1> QED BY <1>3 DEF IsRun

(* All the sockets that queue to be updated are, or one is refused.        *)
LEMMA PortUpdatedIs ==
  ASSUME NEW held, NEW p, PortOK(p, held), NEW kernel,
         NEW r, r = _ep_port_update_events(p, kernel)
  PROVE  PortOK(r.port, held) /\ SameUse(p, r.port) /\ AllUpdated(kernel, r)
<1> DEFINE n == Len(p.update)
           Op(x, id) == IF x.ok THEN ep_sock_update(x.port, kernel, id) ELSE x
           Good(i) == {x \in Result :
                         /\ PortOK(x.port, held)
                         /\ x.port.active = p.active /\ x.port.open = p.open
                         /\ IF x.ok THEN ToSet(x.port.update) = {p.update[j] : j \in i + 1 .. n}
                            ELSE kernel.broken # {}}
           X == [i \in 0 .. n |-> Good(i)]
           F == [i \in 1 .. n |-> [x \in Good(i - 1) |-> Op(x, p.update[i])]]
           start == [ok |-> TRUE, port |-> p]
           Eqn(f) == f = [i \in 0 .. n |->
                            IF i = 0 THEN start
                            ELSE CHOOSE x \in {Op(before, p.update[i]) : before \in {f[i - 1]}} : TRUE]
           h == CHOOSE f : Eqn(f)
<1>1. /\ p \in Port /\ p.update \in Seq(SockIds) /\ n \in Nat /\ DOMAIN p.update = 1 .. n
      /\ IsInjective(p.update)
  <2>1. p \in Port /\ IsInjective(p.update)
    BY DEF PortOK, Sound, Queued
  <2> QED BY <2>1, PortParts, LenProperties
<1>2. r = h[n]
  BY DEF _ep_port_update_events, Through
<1>3. n = Len(p.update)
  OBVIOUS
<1> HIDE DEF n
<1>4. start \in Good(0)
  <2>1. start.ok = TRUE /\ start.port = p /\ start \in Result
    BY <1>1 DEF Result
  <2>2. ToSet(p.update) = {p.update[j] : j \in 0 + 1 .. n}
    BY <1>1 DEF ToSet
  <2> HIDE DEF start
  <2> QED BY <2>1, <2>2
<1>5. ASSUME NEW i \in 1 .. n, NEW x \in Good(i - 1) PROVE Op(x, p.update[i]) \in Good(i)
  <2>1. CASE ~x.ok
    BY <2>1
  <2>2. CASE x.ok
    <3>1. /\ x \in Result /\ PortOK(x.port, held)
          /\ x.port.active = p.active /\ x.port.open = p.open
          /\ ToSet(x.port.update) = {p.update[j] : j \in (i - 1) + 1 .. n}
      BY <2>2
    <3>2. i \in (i - 1) + 1 .. n
      BY <1>1
    <3>3. PICK id \in ToSet(x.port.update) : id = p.update[i]
      BY <3>1, <3>2
    <3>4. PICK q : q = x.port
      OBVIOUS
    <3>5. PICK y : y = ep_sock_update(q, kernel, id)
      OBVIOUS
    <3>6. PortOK(y.port, held) /\ y \in Result /\ UpdateGives(q, kernel, id, y)
      <4>1. PortOK(q, held) /\ id \in ToSet(q.update)
        BY <3>1, <3>4
      <4> HIDE DEF Good, Op, start
      <4> QED BY <3>5, <4>1, SockUpdatedIs
    <3>7. ToSet(q.update) \ {id} = {p.update[j] : j \in i + 1 .. n}
      <4>1. \A j \in (i - 1) + 1 .. n : j = i \/ j \in i + 1 .. n
        BY <1>1
      <4>2. \A j \in i + 1 .. n : j \in (i - 1) + 1 .. n /\ j # i /\ j \in 1 .. n
        BY <1>1
      <4>3. \A j \in i + 1 .. n : p.update[j] # p.update[i]
        BY <1>1, <4>2 DEF IsInjective
      <4>4. ToSet(q.update) = {p.update[j] : j \in (i - 1) + 1 .. n}
        BY <3>1, <3>4
      <4> HIDE DEF Good, Op, start
      <4>5. ToSet(q.update) \ {id} \subseteq {p.update[j] : j \in i + 1 .. n}
        BY <3>3, <4>1, <4>4
      <4>6. {p.update[j] : j \in i + 1 .. n} \subseteq ToSet(q.update) \ {id}
        BY <3>3, <4>2, <4>3, <4>4
      <4> QED BY <4>5, <4>6
    <3>8. y \in Good(i)
      <4>1. y.ok => ToSet(y.port.update) = {p.update[j] : j \in i + 1 .. n}
        BY <3>6, <3>7 DEF UpdateGives
      <4>2. y.port.active = p.active /\ y.port.open = p.open
        BY <3>1, <3>4, <3>6 DEF UpdateGives
      <4>3. y \in Result /\ PortOK(y.port, held)
        BY <3>6
      <4>4. IF y.ok THEN ToSet(y.port.update) = {p.update[j] : j \in i + 1 .. n}
            ELSE kernel.broken # {}
        BY <3>6, <4>1 DEF UpdateGives
      <4> HIDE DEF Op, start
      <4> QED BY <4>2, <4>3, <4>4
    <3> QED BY <2>2, <3>3, <3>4, <3>5, <3>8
  <2> QED BY <2>1, <2>2
<1> HIDE DEF Good, Op, start
<1>6. PICK g : /\ g[0] = start /\ IsTrace(n, g)
               /\ \A i \in 1 .. n : g[i - 1] \in X[i - 1] /\ g[i] = F[i][g[i - 1]]
  <2>1. PICK Y, G, first : Y = X /\ G = F /\ first = start
    OBVIOUS
  <2>2. first \in Y[0] /\ StepsWell(n, Y, G)
    BY <1>1, <1>4, <1>5, <2>1 DEF StepsWell
  <2> HIDE DEF X, F
  <2>3. \E f : IsRun(n, Y, G, first, f)
    BY <1>1, <2>2, StatesExist
  <2> QED BY <2>1, <2>3 DEF IsRun
<1>7. Eqn(g)
  <2>1. ASSUME NEW i \in 1 .. n
        PROVE  g[i] = CHOOSE x \in {Op(before, p.update[i]) : before \in {g[i - 1]}} : TRUE
    <3>1. g[i - 1] \in X[i - 1] /\ g[i] = F[i][g[i - 1]]
      <4> HIDE DEF X, F
      <4> QED BY <1>6
    <3>2. i - 1 \in 0 .. n
      BY <1>1
    <3>3. g[i - 1] \in Good(i - 1)
      BY <3>1, <3>2
    <3>4. g[i] = Op(g[i - 1], p.update[i])
      BY <3>1, <3>3
    <3>5. {Op(before, p.update[i]) : before \in {g[i - 1]}} = {g[i]}
      BY <3>4
    <3> QED BY <3>5
  <2>2. \A i \in 0 .. n : i = 0 \/ i \in 1 .. n
    BY <1>1
  <2> HIDE DEF X, F
  <2>3. \A i \in 0 .. n :
          g[i] = IF i = 0 THEN start
                 ELSE CHOOSE x \in {Op(before, p.update[i]) : before \in {g[i - 1]}} : TRUE
    BY <1>6, <2>1, <2>2
  <2> QED BY <1>6, <2>3 DEF IsTrace
<1>8. Eqn(h)
  BY <1>7
<1> HIDE DEF h
<1>9. h[0] = start /\ \A i \in 1 .. n : h[i] = Op(h[i - 1], p.update[i])
  BY <1>1, <1>8
<1>10. h[n] \in X[n]
  <2>1. h[0] \in X[0]
    BY <1>1, <1>4, <1>9
  <2>2. \A i \in 1 .. n : h[i - 1] \in X[i - 1] => h[i] \in X[i]
    BY <1>1, <1>5, <1>9
  <2> HIDE DEF X
  <2> QED BY <1>1, <2>1, <2>2, EndsWell
<1>11. r \in Good(n)
  BY <1>1, <1>2, <1>10
<1>12. r.ok => r.port.update = << >>
  <2> SUFFICES ASSUME r.ok PROVE r.port.update = << >>
    OBVIOUS
  <2>1. ToSet(r.port.update) = {p.update[j] : j \in n + 1 .. n} /\ r.port \in Port
    BY <1>11 DEF Good, Result
  <2>2. ToSet(r.port.update) = {} /\ r.port.update \in Seq(SockIds)
    BY <1>1, <2>1, PortParts
  <2>3. DOMAIN r.port.update = 1 .. Len(r.port.update) /\ Len(r.port.update) \in Nat
    BY <2>2, LenProperties
  <2>4. 1 \notin DOMAIN r.port.update
    BY <2>2 DEF ToSet
  <2>5. Len(r.port.update) = 0
    BY <2>3, <2>4
  <2> QED BY <2>2, <2>5, EmptySeq
<1> QED BY <1>11, <1>12 DEF Good, SameUse, AllUpdated

(* An ep_sock is deleted at once, on a port that is closed.                *)
LEMMA ForceDeletedIs ==
  ASSUME NEW p, PortOK(p, {}), ~p.open, NEW id \in DOMAIN p.sock,
         NEW q, q = ep_sock_force_delete(p, id)
  PROVE  /\ PortOK(q, {}) /\ q.active = p.active /\ ~q.open
         /\ DOMAIN q.sock = DOMAIN p.sock \ {id}
         /\ \A i \in DOMAIN q.sock : q.sock[i] = p.sock[i]
<1>1. PICK force \in BOOLEAN : force = TRUE
  OBVIOUS
<1>2. q = _ep_sock_delete(p, id, force)
  BY <1>1, Zenon DEF ep_sock_force_delete
<1>3. PICK held : held = {}
  OBVIOUS
<1>4. /\ Sound(p, held) /\ OthersAttended(p, id) /\ Attended(p, id)
  BY <1>3 DEF PortOK, AllAttended, OthersAttended
<1>5. p.sock[id].delete_pending => p.sock[id].poll_status # PENDING
  BY <1>4 DEF Attended, PENDING, CANCELLED
<1>6. force => ~p.open /\ id \notin held
  BY <1>3
<1>7. /\ Sound(q, held)
      /\ \A i \in DOMAIN p.sock \ {id} : i \in DOMAIN q.sock /\ q.sock[i] = p.sock[i]
      /\ force \/ p.sock[id].poll_status = IDLE => DOMAIN q.sock = DOMAIN p.sock \ {id}
      /\ q.active = p.active /\ q.open = p.open
      /\ (/\ OthersAttended(p, id)
          /\ p.sock[id].poll_status # IDLE /\ p.sock[id].delete_pending => Attended(p, id))
           => AllAttended(q)
  BY <1>2, <1>4, <1>5, <1>6, SockDeletedIs
<1> QED BY <1>1, <1>3, <1>4, <1>7 DEF PortOK

(* So are many, one after the other.                                       *)
LEMMA AllForcedIs ==
  ASSUME NEW p, PortOK(p, {}), ~p.open,
         NEW queue \in Seq(SockIds), IsInjective(queue), ToSet(queue) \subseteq DOMAIN p.sock,
         NEW q, q = Through(ep_sock_force_delete, p, queue)
  PROVE  /\ PortOK(q, {}) /\ q.active = p.active /\ ~q.open
         /\ DOMAIN q.sock = DOMAIN p.sock \ ToSet(queue)
         /\ \A i \in DOMAIN q.sock : q.sock[i] = p.sock[i]
<1> DEFINE n == Len(queue)
           Op(x, id) == ep_sock_force_delete(x, id)
           Good(i) == {x \in Port :
                         /\ PortOK(x, {}) /\ x.active = p.active /\ ~x.open
                         /\ DOMAIN x.sock = DOMAIN p.sock \ {queue[j] : j \in 1 .. i}
                         /\ \A a \in DOMAIN x.sock : x.sock[a] = p.sock[a]}
           X == [i \in 0 .. n |-> Good(i)]
           F == [i \in 1 .. n |-> [x \in Good(i - 1) |-> Op(x, queue[i])]]
           Eqn(f) == f = [i \in 0 .. n |->
                            IF i = 0 THEN p
                            ELSE CHOOSE x \in {Op(before, queue[i]) : before \in {f[i - 1]}} : TRUE]
           h == CHOOSE f : Eqn(f)
<1>1. n \in Nat /\ DOMAIN queue = 1 .. n /\ ToSet(queue) = {queue[j] : j \in 1 .. n}
  BY LenProperties DEF ToSet
<1>2. q = h[n]
  BY DEF Through
<1>3. n = Len(queue)
  OBVIOUS
<1> HIDE DEF n
<1>4. p \in Good(0)
  BY DEF PortOK, Sound
<1>5. ASSUME NEW i \in 1 .. n, NEW x \in Good(i - 1) PROVE Op(x, queue[i]) \in Good(i)
  <2>1. /\ PortOK(x, {}) /\ x.active = p.active /\ ~x.open
        /\ DOMAIN x.sock = DOMAIN p.sock \ {queue[j] : j \in 1 .. i - 1}
        /\ \A a \in DOMAIN x.sock : x.sock[a] = p.sock[a]
    OBVIOUS
  <2>2. PICK id \in DOMAIN x.sock : id = queue[i]
    <3>1. \A j \in 1 .. i - 1 : j \in 1 .. n /\ j # i
      BY <1>1
    <3>2. \A j \in 1 .. i - 1 : queue[j] # queue[i]
      BY <1>1, <3>1 DEF IsInjective
    <3>3. queue[i] \in DOMAIN p.sock
      BY <1>1
    <3> QED BY <2>1, <3>2, <3>3
  <2>3. PICK y : y = ep_sock_force_delete(x, id)
    OBVIOUS
  <2> HIDE DEF Good
  <2>4. /\ PortOK(y, {}) /\ y.active = x.active /\ ~y.open
        /\ DOMAIN y.sock = DOMAIN x.sock \ {id}
        /\ \A a \in DOMAIN y.sock : y.sock[a] = x.sock[a]
    BY <2>1, <2>2, <2>3, ForceDeletedIs
  <2>5. DOMAIN y.sock = DOMAIN p.sock \ {queue[j] : j \in 1 .. i}
    <3>1. 1 .. i = 1 .. i - 1 \cup {i}
      BY <1>1
    <3>2. {queue[j] : j \in 1 .. i} = {queue[j] : j \in 1 .. i - 1} \cup {id}
      BY <2>2, <3>1
    <3> QED BY <2>1, <2>4, <3>2
  <2>6. \A a \in DOMAIN y.sock : y.sock[a] = p.sock[a]
    BY <2>1, <2>4
  <2>7. y \in Port /\ y.active = p.active
    BY <2>1, <2>4 DEF PortOK, Sound
  <2>8. y \in Good(i)
    BY <2>4, <2>5, <2>6, <2>7 DEF Good
  <2> QED BY <2>2, <2>3, <2>8
<1> HIDE DEF Good, Op
<1>6. PICK g : /\ g[0] = p /\ IsTrace(n, g)
               /\ \A i \in 1 .. n : g[i - 1] \in X[i - 1] /\ g[i] = F[i][g[i - 1]]
  <2>1. PICK Y, G, first : Y = X /\ G = F /\ first = p
    OBVIOUS
  <2>2. first \in Y[0] /\ StepsWell(n, Y, G)
    BY <1>1, <1>4, <1>5, <2>1 DEF StepsWell
  <2> HIDE DEF X, F
  <2>3. \E f : IsRun(n, Y, G, first, f)
    BY <1>1, <2>2, StatesExist
  <2> QED BY <2>1, <2>3 DEF IsRun
<1>7. Eqn(g)
  <2>1. ASSUME NEW i \in 1 .. n
        PROVE  g[i] = CHOOSE x \in {Op(before, queue[i]) : before \in {g[i - 1]}} : TRUE
    <3>1. g[i - 1] \in X[i - 1] /\ g[i] = F[i][g[i - 1]]
      <4> HIDE DEF X, F
      <4> QED BY <1>6
    <3>2. i - 1 \in 0 .. n
      BY <1>1
    <3>3. g[i - 1] \in Good(i - 1)
      BY <3>1, <3>2
    <3>4. g[i] = Op(g[i - 1], queue[i])
      BY <3>1, <3>3
    <3>5. {Op(before, queue[i]) : before \in {g[i - 1]}} = {g[i]}
      BY <3>4
    <3> QED BY <3>5
  <2>2. \A i \in 0 .. n : i = 0 \/ i \in 1 .. n
    BY <1>1
  <2> HIDE DEF X, F
  <2>3. \A i \in 0 .. n :
          g[i] = IF i = 0 THEN p
                 ELSE CHOOSE x \in {Op(before, queue[i]) : before \in {g[i - 1]}} : TRUE
    BY <1>6, <2>1, <2>2
  <2> QED BY <1>6, <2>3 DEF IsTrace
<1>8. Eqn(h)
  BY <1>7
<1> HIDE DEF h
<1>9. h[0] = p /\ \A i \in 1 .. n : h[i] = Op(h[i - 1], queue[i])
  BY <1>1, <1>8
<1>10. h[n] \in X[n]
  <2>1. h[0] \in X[0]
    BY <1>1, <1>4, <1>9
  <2>2. \A i \in 1 .. n : h[i - 1] \in X[i - 1] => h[i] \in X[i]
    BY <1>1, <1>5, <1>9
  <2> HIDE DEF X
  <2> QED BY <1>1, <2>1, <2>2, EndsWell
<1>11. q \in Good(n)
  BY <1>1, <1>2, <1>10
<1> QED BY <1>1, <1>11 DEF Good

(* Nothing is left of a port that is deleted.                              *)
LEMMA PortDeletedIs ==
  ASSUME NEW p, PortOK(p, {}), ~p.open, NEW q, q = AllForceDeleted(p)
  PROVE  PortOK(q, {}) /\ q.active = p.active /\ ~q.open /\ DOMAIN q.sock = {}
<1> DEFINE listed_ids == {p.tree[a] : a \in DOMAIN p.tree}
<1>1. /\ p \in Port /\ listed_ids \subseteq DOMAIN p.sock /\ listed_ids \subseteq SockIds
      /\ \A id \in DOMAIN p.sock : ~p.sock[id].delete_pending => id \in listed_ids
  BY PortParts DEF PortOK, Sound, Listed, Registered
<1>2. PICK registered : registered = SetToSeq(listed_ids)
  OBVIOUS
<1>3. /\ registered \in Seq(SockIds) /\ IsInjective(registered)
      /\ ToSet(registered) = listed_ids
  <2>1. IsFiniteSet(listed_ids)
    BY <1>1, SockIdsAssumption, FS_Subset
  <2>2. /\ registered \in Seq(listed_ids) /\ IsInjective(registered)
        /\ ToSet(registered) = listed_ids
    <3> HIDE DEF listed_ids
    <3> QED BY <1>2, <2>1, SetToSeqIs
  <2>3. registered \in Seq(SockIds)
    <3> HIDE DEF listed_ids
    <3>1. \A i \in 1 .. Len(registered) : registered[i] \in SockIds
      BY <1>1, <2>2, ElementOfSeq
    <3> QED BY <2>2, <3>1, LenProperties, SeqDef
  <2> QED BY <2>2, <2>3
<1>4. PICK unlisted : unlisted = Through(ep_sock_force_delete, p, registered)
  OBVIOUS
<1>5. /\ PortOK(unlisted, {}) /\ unlisted.active = p.active /\ ~unlisted.open
      /\ DOMAIN unlisted.sock = DOMAIN p.sock \ ToSet(registered)
      /\ \A i \in DOMAIN unlisted.sock : unlisted.sock[i] = p.sock[i]
  BY <1>1, <1>3, <1>4, AllForcedIs
<1>6. PICK queue : queue = unlisted.deleted
  OBVIOUS
<1>7. /\ queue \in Seq(SockIds) /\ IsInjective(queue) /\ ToSet(queue) \subseteq DOMAIN unlisted.sock
  <2>1. unlisted \in Port /\ Queued(unlisted)
    BY <1>5 DEF PortOK, Sound
  <2> QED BY <1>6, <2>1, PortParts DEF Queued
<1>8. q = Through(ep_sock_force_delete, unlisted, queue)
  BY <1>2, <1>4, <1>6 DEF AllForceDeleted
<1>9. /\ PortOK(q, {}) /\ q.active = unlisted.active /\ ~q.open
      /\ DOMAIN q.sock = DOMAIN unlisted.sock \ ToSet(queue)
  BY <1>5, <1>7, <1>8, AllForcedIs
<1>10. ASSUME NEW id \in DOMAIN unlisted.sock PROVE id \in ToSet(queue)
  <2>1. unlisted.sock[id].delete_pending
    BY <1>1, <1>3, <1>5
  <2> QED BY <1>5, <1>6, <2>1 DEF PortOK, AllAttended, Attended
<1> QED BY <1>5, <1>9, <1>10

(* What is reported of a packet is what the user has asked for.            *)
Report == [data : SOCKETs, events : SUBSET Events]
Feeding == [events : Seq(Report), port : Port]

(* Whatever the driver's answer, ep_sock_feed_event reports events the user
   can ask for, at most one report a packet.                               *)
LEMMA ReportedIs ==
  ASSUME NEW p \in Port, NEW c, c.sock \in DOMAIN p.sock
  PROVE  ep_sock_feed_event(p, c).events \in Seq(Report)
<1>1. PICK s \in Sock : s = p.sock[c.sock]
  BY PortParts
<1>2. PICK events : events = IF s.delete_pending THEN {} ELSE Reported(s, c.outcome)
  OBVIOUS
<1>3. events \subseteq s.user_events
  BY <1>2 DEF Reported
<1>4. s.user_events \in SUBSET Events /\ s.user_data \in SOCKETs
  BY DEF Sock
<1>5. PICK e : e = [data |-> s.user_data, events |-> events]
  OBVIOUS
<1>6. e \in Report
  BY <1>3, <1>4, <1>5 DEF Report
<1>7. <<e>> \in Seq(Report) /\ << >> \in Seq(Report)
  BY <1>6
<1>8. ep_sock_feed_event(p, c).events = IF events = {} THEN << >> ELSE <<e>>
  BY <1>1, <1>2, <1>5 DEF ep_sock_feed_event
<1> QED BY <1>7, <1>8

(* The packets that were taken are fed.                                    *)
LEMMA PortFedIs ==
  ASSUME NEW packets \in Seq(Packet), NEW held,
         NEW p, PortOK(p, held \cup SocksOf(packets)), Apart(packets),
         held \cap SocksOf(packets) = {},
         NEW q, q = _ep_port_feed_events(p, packets).port
  PROVE  PortOK(q, held) /\ SameUse(p, q)
<1> DEFINE n == Len(packets)
           Op(x, c) == LET fed == ep_sock_feed_event(x.port, c)
                       IN  [events |-> x.events \o fed.events, port |-> fed.port]
           Left(i) == held \cup {packets[j].sock : j \in i + 1 .. n}
           Good(i) == {x \in Feeding : /\ PortOK(x.port, Left(i))
                                       /\ x.port.active = p.active /\ x.port.open = p.open}
           X == [i \in 0 .. n |-> Good(i)]
           F == [i \in 1 .. n |-> [x \in Good(i - 1) |-> Op(x, packets[i])]]
           start == [events |-> << >>, port |-> p]
           Eqn(f) == f = [i \in 0 .. n |->
                            IF i = 0 THEN start
                            ELSE CHOOSE x \in {Op(before, packets[i]) : before \in {f[i - 1]}} : TRUE]
           h == CHOOSE f : Eqn(f)
<1>1. n \in Nat /\ DOMAIN packets = 1 .. n /\ \A i \in 1 .. n : packets[i] \in Packet
  BY LenProperties, ElementOfSeq
<1>2. q = h[n].port
  BY DEF _ep_port_feed_events, Through
<1>3. n = Len(packets)
  OBVIOUS
<1> HIDE DEF n
<1>4. start \in Good(0)
  <2>1. p \in Port
    BY DEF PortOK, Sound
  <2>2. start \in Feeding /\ start.port = p
    BY <2>1 DEF Feeding
  <2>3. Left(0) = held \cup SocksOf(packets)
    BY <1>1 DEF ToSet, SocksOf
  <2> HIDE DEF start, Left
  <2> QED BY <2>2, <2>3
<1>5. ASSUME NEW i \in 1 .. n, NEW x \in Good(i - 1) PROVE Op(x, packets[i]) \in Good(i)
  <2>1. /\ x \in Feeding /\ PortOK(x.port, Left(i - 1))
        /\ x.port.active = p.active /\ x.port.open = p.open
    OBVIOUS
  <2>2. PICK c, t, all : c = packets[i] /\ t = x.port /\ all = Left(i - 1)
    OBVIOUS
  <2>3. PICK y, e : y = ep_sock_feed_event(t, c).port /\ e = ep_sock_feed_event(t, c).events
    OBVIOUS
  <2>4. Op(x, packets[i]) = [events |-> x.events \o e, port |-> y]
    BY <2>2, <2>3
  <2>5. c.sock \in all /\ all \ {c.sock} = Left(i)
    <3>1. \A j \in (i - 1) + 1 .. n : j = i \/ j \in i + 1 .. n
      BY <1>1
    <3>2. \A j \in i + 1 .. n : j \in (i - 1) + 1 .. n /\ j # i /\ j \in 1 .. n
      BY <1>1
    <3>3. i \in (i - 1) + 1 .. n
      BY <1>1
    <3>4. c.sock \notin held /\ \A j \in i + 1 .. n : packets[j].sock # c.sock
      <4>1. \A j \in 1 .. n : packets[j].sock \in SocksOf(packets)
        BY <1>1 DEF SocksOf, ToSet
      <4>2. \A j \in i + 1 .. n : packets[j].sock # packets[i].sock
        BY <1>1, <3>2 DEF Apart
      <4> QED BY <2>2, <4>1, <4>2
    <3>5. c.sock \in all
      BY <2>2, <3>3
    <3>6. all \ {c.sock} \subseteq Left(i)
      BY <2>2, <3>1
    <3>7. Left(i) \subseteq all \ {c.sock}
      BY <2>2, <3>2, <3>4
    <3> QED BY <3>5, <3>6, <3>7
  <2> HIDE DEF Good, Op, Left
  <2>6. PortOK(y, all \ {c.sock}) /\ y.active = t.active /\ y.open = t.open
    <3>1. PortOK(t, all) /\ c.sock \in all
      BY <2>1, <2>2, <2>5
    <3>2. PortOK(y, all \ {c.sock}) /\ SameUse(t, y)
      BY <2>3, <3>1, SockFedIs
    <3> QED BY <3>2 DEF SameUse
  <2>7. t \in Port /\ c.sock \in DOMAIN t.sock
    BY <2>1, <2>2, <2>5 DEF PortOK, Sound, Owed, Polled
  <2>8. e \in Seq(Report)
    BY <2>3, <2>7, ReportedIs
  <2>9. PICK z : z = [events |-> x.events \o e, port |-> y]
    OBVIOUS
  <2>10. z \in Feeding
    <3>1. x.events \in Seq(Report) /\ y \in Port
      BY <2>1, <2>6 DEF Feeding, PortOK, Sound
    <3>2. x.events \o e \in Seq(Report)
      BY <2>8, <3>1, ConcatProperties
    <3> QED BY <2>9, <3>1, <3>2 DEF Feeding
  <2>11. z.port = y
    BY <2>9
  <2>12. z \in Good(i)
    BY <2>1, <2>2, <2>5, <2>6, <2>10, <2>11 DEF Good
  <2> QED BY <2>4, <2>9, <2>12
<1> HIDE DEF Good, Op, start
<1>6. PICK g : /\ g[0] = start /\ IsTrace(n, g)
               /\ \A i \in 1 .. n : g[i - 1] \in X[i - 1] /\ g[i] = F[i][g[i - 1]]
  <2>1. PICK Y, G, first : Y = X /\ G = F /\ first = start
    OBVIOUS
  <2>2. first \in Y[0] /\ StepsWell(n, Y, G)
    BY <1>1, <1>4, <1>5, <2>1 DEF StepsWell
  <2> HIDE DEF X, F
  <2>3. \E f : IsRun(n, Y, G, first, f)
    BY <1>1, <2>2, StatesExist
  <2> QED BY <2>1, <2>3 DEF IsRun
<1>7. Eqn(g)
  <2>1. ASSUME NEW i \in 1 .. n
        PROVE  g[i] = CHOOSE x \in {Op(before, packets[i]) : before \in {g[i - 1]}} : TRUE
    <3>1. g[i - 1] \in X[i - 1] /\ g[i] = F[i][g[i - 1]]
      <4> HIDE DEF X, F
      <4> QED BY <1>6
    <3>2. i - 1 \in 0 .. n
      BY <1>1
    <3>3. g[i - 1] \in Good(i - 1)
      BY <3>1, <3>2
    <3>4. g[i] = Op(g[i - 1], packets[i])
      BY <3>1, <3>3
    <3>5. {Op(before, packets[i]) : before \in {g[i - 1]}} = {g[i]}
      BY <3>4
    <3> QED BY <3>5
  <2>2. \A i \in 0 .. n : i = 0 \/ i \in 1 .. n
    BY <1>1
  <2> HIDE DEF X, F
  <2>3. \A i \in 0 .. n :
          g[i] = IF i = 0 THEN start
                 ELSE CHOOSE x \in {Op(before, packets[i]) : before \in {g[i - 1]}} : TRUE
    BY <1>6, <2>1, <2>2
  <2> QED BY <1>6, <2>3 DEF IsTrace
<1>8. Eqn(h)
  BY <1>7
<1> HIDE DEF h
<1>9. h[0] = start /\ \A i \in 1 .. n : h[i] = Op(h[i - 1], packets[i])
  BY <1>1, <1>8
<1>10. h[n] \in X[n]
  <2>1. h[0] \in X[0]
    BY <1>1, <1>4, <1>9
  <2>2. \A i \in 1 .. n : h[i - 1] \in X[i - 1] => h[i] \in X[i]
    BY <1>1, <1>5, <1>9
  <2> HIDE DEF X
  <2> QED BY <1>1, <2>1, <2>2, EndsWell
<1>11. h[n] \in Good(n)
  BY <1>1, <1>10
<1>12. Left(n) = held
  BY <1>1
<1> QED BY <1>2, <1>11, <1>12 DEF Good, SameUse

----------------------------------------------------------------------------
(* The calls.                                                              *)

\* Someone waits: then nobody queues to be updated, unless a poll was refused.
Settled(p, kernel) == p.active > 0 /\ kernel.broken = {} => p.update = << >>

\* What a call leaves of a port.
CallGives(held, kernel, p, q) ==
  PortOK(q, held) /\ SameUse(p, q) /\ (Settled(p, kernel) => Settled(q, kernel))

(* While someone waits, the sockets that queue are updated.                *)
LEMMA UpdatedIfPolling ==
  ASSUME NEW held, NEW p, PortOK(p, held), NEW kernel,
         NEW q, q = _ep_port_update_events_if_polling(p, kernel)
  PROVE  PortOK(q, held) /\ SameUse(p, q) /\ Settled(q, kernel)
<1>1. CASE p.active > 0
  <2>1. PICK r : r = _ep_port_update_events(p, kernel)
    OBVIOUS
  <2>2. PortOK(r.port, held) /\ SameUse(p, r.port) /\ AllUpdated(kernel, r)
    BY <2>1, PortUpdatedIs
  <2>3. q = r.port
    BY <1>1, <2>1 DEF _ep_port_update_events_if_polling
  <2> QED BY <2>2, <2>3 DEF AllUpdated, Settled
<1>2. CASE ~(p.active > 0)
  BY <1>2 DEF _ep_port_update_events_if_polling, SameUse, Settled
<1> QED BY <1>1, <1>2

(* A queue of no ep_socks.                                                 *)
LEMMA NoneQueued ==
  ASSUME NEW p, p \in Port, ToSet(p.update) = {}
  PROVE  p.update = << >>
<1>1. p.update \in Seq(SockIds)
  BY PortParts
<1>2. DOMAIN p.update = 1 .. Len(p.update) /\ Len(p.update) \in Nat
  BY <1>1, LenProperties
<1>3. 1 \notin DOMAIN p.update
  BY DEF ToSet
<1>4. Len(p.update) = 0
  BY <1>2, <1>3
<1> QED BY <1>1, <1>4, EmptySeq

(* A handle is registered, or is already, or there is no memory for it.    *)
LEMMA CtlAdded ==
  ASSUME NEW held, NEW p, PortOK(p, held), NEW kernel, NEW h \in SOCKETs, NEW ev \in Told,
         NEW q, q = _ep_port_ctl_add(p, kernel, h, ev)
  PROVE  CallGives(held, kernel, p, q)
<1>1. p \in Port /\ Sound(p, held) /\ AllAttended(p)
  BY DEF PortOK, Sound
<1>2. CASE Registered(p, h) \/ DOMAIN p.sock = SockIds
  <2>1. q = ep_sock_new_failed(p)
    BY <1>2 DEF _ep_port_ctl_add
  <2>2. /\ Sound(q, held) /\ q.sock = p.sock /\ q.update = p.update /\ q.deleted = p.deleted
        /\ q.active = p.active /\ q.open = p.open
    BY <1>1, <2>1, SockNewFailedIs
  <2>3. AllAttended(q)
    BY <1>1, <2>2 DEF AllAttended, Attended
  <2> QED BY <2>2, <2>3 DEF CallGives, PortOK, SameUse, Settled
<1>3. CASE ~(Registered(p, h) \/ DOMAIN p.sock = SockIds)
  <2>1. PICK new : new = ep_sock_new(p, h)
    OBVIOUS
  <2>2. PICK id : id = new.tree[h]
    OBVIOUS
  <2>3. PICK set : set = ep_sock_set_event(new, id, ev)
    OBVIOUS
  <2>4. q = _ep_port_update_events_if_polling(set, kernel)
    BY <1>3, <2>1, <2>2, <2>3 DEF _ep_port_ctl_add
  <2>5. /\ Sound(new, held) /\ id \notin DOMAIN p.sock /\ DOMAIN new.sock = DOMAIN p.sock \cup {id}
        /\ new.sock[id].pending_events = {} /\ ~new.sock[id].delete_pending
        /\ \A i \in DOMAIN p.sock : new.sock[i] = p.sock[i]
        /\ new.update = p.update /\ new.deleted = p.deleted
        /\ new.active = p.active /\ new.open = p.open
    <3>1. h \notin DOMAIN p.tree /\ DOMAIN p.sock # SockIds
      BY <1>3 DEF Registered
    <3> QED BY <1>1, <2>1, <2>2, <3>1, SockNewIs
  <2>6. OthersAttended(new, id)
    BY <1>1, <2>5 DEF OthersAttended, AllAttended, Attended
  <2>7. PortOK(set, held) /\ set.active = new.active /\ set.open = new.open
    <3>1. new \in Port /\ id \in DOMAIN new.sock
      BY <2>5 DEF Sound
    <3> QED BY <2>3, <2>5, <2>6, <3>1, SockEventSetIs
  <2>8. PortOK(q, held) /\ SameUse(set, q) /\ Settled(q, kernel)
    BY <2>4, <2>7, UpdatedIfPolling
  <2> QED BY <2>5, <2>7, <2>8 DEF CallGives, SameUse
<1> QED BY <1>2, <1>3

(* A registered handle is asked for other events.                          *)
LEMMA CtlModified ==
  ASSUME NEW held, NEW p, PortOK(p, held), NEW kernel, NEW h, NEW ev \in Told,
         NEW q, q = _ep_port_ctl_mod(p, kernel, h, ev)
  PROVE  CallGives(held, kernel, p, q)
<1>1. p \in Port /\ Sound(p, held) /\ AllAttended(p)
  BY DEF PortOK, Sound
<1>2. CASE ~Registered(p, h)
  BY <1>2 DEF _ep_port_ctl_mod, CallGives, SameUse
<1>3. CASE Registered(p, h)
  <2>1. PICK id : id = p.tree[h]
    OBVIOUS
  <2>2. PICK set : set = ep_sock_set_event(p, id, ev)
    OBVIOUS
  <2>3. q = _ep_port_update_events_if_polling(set, kernel)
    BY <1>3, <2>1, <2>2 DEF _ep_port_ctl_mod
  <2>4. id \in DOMAIN p.sock /\ ~p.sock[id].delete_pending
    BY <1>1, <1>3, <2>1 DEF Registered, Sound, Listed
  <2>5. OthersAttended(p, id) /\ Attended(p, id)
    BY <1>1, <2>4 DEF OthersAttended, AllAttended
  <2>6. PortOK(set, held) /\ set.active = p.active /\ set.open = p.open
    BY <1>1, <2>2, <2>4, <2>5, SockEventSetIs
  <2>7. PortOK(q, held) /\ SameUse(set, q) /\ Settled(q, kernel)
    BY <2>3, <2>6, UpdatedIfPolling
  <2> QED BY <2>6, <2>7 DEF CallGives, SameUse
<1> QED BY <1>2, <1>3

(* A handle is registered no more.                                         *)
LEMMA CtlDeleted ==
  ASSUME NEW held, NEW p, PortOK(p, held), NEW kernel, NEW h,
         NEW q, q = _ep_port_ctl_del(p, h)
  PROVE  CallGives(held, kernel, p, q)
<1>1. p \in Port /\ Sound(p, held) /\ AllAttended(p)
  BY DEF PortOK, Sound
<1>2. CASE ~Registered(p, h)
  BY <1>2 DEF _ep_port_ctl_del, CallGives, SameUse
<1>3. CASE Registered(p, h)
  <2>1. PICK id : id = p.tree[h]
    OBVIOUS
  <2>2. q = ep_sock_delete(p, id)
    BY <1>3, <2>1 DEF _ep_port_ctl_del
  <2>3. id \in DOMAIN p.sock /\ ~p.sock[id].delete_pending
    BY <1>1, <1>3, <2>1 DEF Registered, Sound, Listed
  <2>4. OthersAttended(p, id)
    BY <1>1 DEF OthersAttended, AllAttended
  <2>5. /\ Sound(q, held) /\ ToSet(q.update) = ToSet(p.update) \ {id}
        /\ q.active = p.active /\ q.open = p.open /\ AllAttended(q)
    BY <1>1, <2>2, <2>3, <2>4, DeletedIs
  <2>6. Settled(p, kernel) => Settled(q, kernel)
    <3> SUFFICES ASSUME p.update = << >> PROVE q.update = << >>
      BY <2>5 DEF Settled
    <3>1. ToSet(p.update) = {}
      BY DEF ToSet
    <3>2. ToSet(q.update) = {} /\ q \in Port
      BY <2>5, <3>1 DEF Sound
    <3> QED BY <3>2, NoneQueued
  <2> QED BY <2>5, <2>6 DEF CallGives, PortOK, SameUse
<1> QED BY <1>2, <1>3

\* The sockets and their queues are the same.
SameSocks(p, q) == q.sock = p.sock /\ q.update = p.update

(* The driver finishes requests: it is the ep_socks' turn then.            *)
LEMMA CompletedOK ==
  ASSUME NEW held, NEW p, PortOK(p, held), NEW R \in SUBSET p.afd,
         NEW outcome \in [R -> SUBSET AfdFlags],
         NEW q, q = DriverCompletes(p, outcome)
  PROVE  PortOK(q, held) /\ SameUse(p, q) /\ SameSocks(p, q)
<1>1. Sound(p, held) /\ AllAttended(p)
  BY DEF PortOK
<1>2. Sound(q, held) /\ ButDriver(p, q)
  BY <1>1, Completed
<1>3. AllAttended(q)
  BY <1>1, <1>2, CompletedAttended DEF AllAttended, ButDriver
<1> QED BY <1>2, <1>3 DEF PortOK, SameUse, SameSocks, ButDriver

(* One more thread waits, or one less.                                     *)
LEMMA ActiveSet ==
  ASSUME NEW held, NEW p, PortOK(p, held), NEW n \in Int, NEW q, q = [p EXCEPT !.active = n]
  PROVE  PortOK(q, held) /\ q.active = n /\ q.open = p.open /\ SameSocks(p, q)
<1>1. p \in Port /\ Sound(p, held) /\ AllAttended(p)
  BY DEF PortOK, Sound
<1>2. /\ q \in Port /\ q.sock = p.sock /\ q.tree = p.tree /\ q.update = p.update
      /\ q.deleted = p.deleted /\ q.groups = p.groups /\ q.active = n /\ q.open = p.open
      /\ q.iocp = p.iocp /\ q.afd = p.afd
  BY <1>1 DEF Port
<1>3. Queued(q)
  BY <1>1, <1>2 DEF Sound, Queued
<1>4. Listed(q)
  BY <1>1, <1>2 DEF Sound, Listed, Registered
<1>5. Owed(q, held)
  BY <1>1, <1>2 DEF Sound, Owed, Requested, Arrived, Polled
<1>6. Grouped(q)
  BY <1>1, <1>2 DEF Sound, Grouped, UsersOf
<1>7. AllAttended(q)
  BY <1>1, <1>2 DEF AllAttended, Attended
<1> QED BY <1>2, <1>3, <1>4, <1>5, <1>6, <1>7 DEF Sound, PortOK, SameSocks

(* The empty sequence is one of any kind.                                  *)
LEMMA NothingIn == ASSUME NEW S, NEW none, none = << >> PROVE none \in Seq(S)
OBVIOUS

(* The completion port is closed, and what it had is lost.                 *)
LEMMA ClosedIs ==
  ASSUME NEW held, NEW p, PortOK(p, held), NEW q, q = [p EXCEPT !.open = FALSE, !.iocp = << >>]
  PROVE  PortOK(q, held) /\ q.active = p.active /\ ~q.open /\ SameSocks(p, q)
<1>1. p \in Port /\ Sound(p, held) /\ AllAttended(p)
  BY DEF PortOK, Sound
<1>2. /\ q \in Port /\ q.sock = p.sock /\ q.tree = p.tree /\ q.update = p.update
      /\ q.deleted = p.deleted /\ q.groups = p.groups /\ q.active = p.active /\ ~q.open
      /\ q.iocp = << >> /\ q.afd = p.afd
  <2>1. PICK none, no : none = << >> /\ no = FALSE
    OBVIOUS
  <2>2. q = [p EXCEPT !.open = no, !.iocp = none]
    BY <2>1
  <2>3. /\ q \in Port /\ q.sock = p.sock /\ q.tree = p.tree /\ q.update = p.update
        /\ q.deleted = p.deleted /\ q.groups = p.groups /\ q.active = p.active
        /\ q.open = no /\ q.iocp = none /\ q.afd = p.afd
    <3>1. none \in Seq(Packet)
      BY <2>1, NothingIn, Zenon
    <3>2. no \in BOOLEAN
      BY <2>1, Zenon
    <3> QED BY <1>1, <2>2, <3>1, <3>2 DEF Port
  <2> QED BY <2>1, <2>3
<1>3. Queued(q)
  BY <1>1, <1>2 DEF Sound, Queued
<1>4. Listed(q)
  BY <1>1, <1>2 DEF Sound, Listed, Registered
<1>5. Owed(q, held)
  <2>1. Arrived(q) = {} /\ Requested(q) = Requested(p) /\ Polled(q) = Polled(p)
    BY <1>2 DEF Requested, Arrived, Polled, ToSet
  <2> QED BY <1>1, <1>2, <2>1 DEF Sound, Owed
<1>6. Grouped(q)
  BY <1>1, <1>2 DEF Sound, Grouped, UsersOf
<1>7. AllAttended(q)
  BY <1>1, <1>2 DEF AllAttended, Attended
<1> QED BY <1>2, <1>3, <1>4, <1>5, <1>6, <1>7 DEF Sound, PortOK, SameSocks

(* A sequence in two.                                                      *)
LEMMA SplitIs ==
  ASSUME NEW S, NEW s \in Seq(S), NEW m \in Nat, m = Len(s), NEW n \in 0 .. m
  PROVE  /\ SubSeq(s, 1, n) \in Seq(S) /\ DOMAIN SubSeq(s, 1, n) = 1 .. n
         /\ \A i \in 1 .. n : SubSeq(s, 1, n)[i] = s[i]
         /\ SubSeq(s, n + 1, m) \in Seq(S) /\ DOMAIN SubSeq(s, n + 1, m) = 1 .. m - n
         /\ \A i \in 1 .. m - n : SubSeq(s, n + 1, m)[i] = s[n + i]
<1>1. \A i \in 1 .. m : s[i] \in S
  BY ElementOfSeq
<1>2. PICK a, b : a = SubSeq(s, 1, n) /\ b = SubSeq(s, n + 1, m)
  OBVIOUS
<1>3. a \in Seq(S) /\ DOMAIN a = 1 .. n /\ \A i \in 1 .. n : a[i] = s[i]
  <2>1. 1 \in Int /\ n \in Int /\ \A i \in 1 .. n : s[i] \in S
    BY <1>1
  <2>2. /\ a \in Seq(S) /\ Len(a) = IF 1 <= n THEN n - 1 + 1 ELSE 0
        /\ \A i \in 1 .. n - 1 + 1 : a[i] = s[1 + i - 1]
    BY <1>2, <2>1, SubSeqProperties
  <2>3. Len(a) = n /\ \A i \in 1 .. n : a[i] = s[i]
    BY <2>2
  <2> QED BY <2>2, <2>3, LenProperties
<1>4. b \in Seq(S) /\ DOMAIN b = 1 .. m - n /\ \A i \in 1 .. m - n : b[i] = s[n + i]
  <2>1. n + 1 \in Int /\ m \in Int /\ \A i \in n + 1 .. m : s[i] \in S
    BY <1>1
  <2>2. /\ b \in Seq(S) /\ Len(b) = IF n + 1 <= m THEN m - (n + 1) + 1 ELSE 0
        /\ \A i \in 1 .. m - (n + 1) + 1 : b[i] = s[(n + 1) + i - 1]
    BY <1>2, <2>1, SubSeqProperties
  <2>3. m - (n + 1) + 1 = m - n /\ (n + 1 <= m \/ m - n = 0)
    OBVIOUS
  <2>4. \A i \in 1 .. m - n : (n + 1) + i - 1 = n + i
    OBVIOUS
  <2>5. Len(b) = m - n /\ \A i \in 1 .. m - n : b[i] = s[n + i]
    BY <2>2, <2>3, <2>4
  <2> QED BY <2>2, <2>5, LenProperties
<1> QED BY <1>2, <1>3, <1>4

\* The first n packets are taken off the completion port.
Takes(p, n, some, q) ==
  /\ some = SubSeq(p.iocp, 1, n)
  /\ q = [p EXCEPT !.iocp = SubSeq(p.iocp, n + 1, Len(p.iocp))]

(* Packets are taken off the completion port.                              *)
LEMMA TakenIs ==
  ASSUME NEW held, NEW p, PortOK(p, held), NEW n \in 0 .. Len(p.iocp),
         NEW some, NEW q, Takes(p, n, some, q)
  PROVE  /\ PortOK(q, held \cup SocksOf(some)) /\ SameUse(p, q) /\ SameSocks(p, q)
         /\ some \in Seq(Packet) /\ Apart(some) /\ held \cap SocksOf(some) = {}
<1>1. PICK all \in Seq(Packet) :
         /\ all = p.iocp /\ p \in Port /\ Sound(p, held) /\ AllAttended(p) /\ Owed(p, held)
         /\ \A i, j \in DOMAIN all : all[i].sock = all[j].sock => i = j
  BY PortParts DEF PortOK, Sound, Owed
<1>2. PICK m \in Nat : m = Len(all)
  BY <1>1, LenProperties
<1>3. PICK last : last = SubSeq(all, n + 1, m)
  OBVIOUS
<1>4. some = SubSeq(all, 1, n) /\ q = [p EXCEPT !.iocp = last]
  <2>1. some = SubSeq(p.iocp, 1, n) /\ q = [p EXCEPT !.iocp = SubSeq(p.iocp, n + 1, Len(p.iocp))]
    BY DEF Takes
  <2>2. last = SubSeq(p.iocp, n + 1, Len(p.iocp))
    BY <1>1, <1>2, <1>3
  <2> QED BY <1>1, <2>1, <2>2, Zenon
<1>5. DOMAIN all = 1 .. m /\ n \in Nat /\ n <= m
  BY <1>1, <1>2, LenProperties
<1>6. some \in Seq(Packet) /\ DOMAIN some = 1 .. n /\ \A i \in 1 .. n : some[i] = all[i]
  BY <1>1, <1>2, <1>5, <1>4, SplitIs
<1>7. last \in Seq(Packet) /\ DOMAIN last = 1 .. m - n /\ \A i \in 1 .. m - n : last[i] = all[n + i]
  BY <1>1, <1>2, <1>5, <1>3, SplitIs
<1>8. /\ q \in Port /\ q.sock = p.sock /\ q.tree = p.tree /\ q.update = p.update
      /\ q.deleted = p.deleted /\ q.groups = p.groups /\ q.active = p.active /\ q.open = p.open
      /\ q.iocp = last /\ q.afd = p.afd
  BY <1>1, <1>7, <1>4 DEF Port
<1> DEFINE socks == {c.sock : c \in ToSet(some)}
<1>9. \A i \in 1 .. n : i \in 1 .. m
  BY <1>5
<1>10. \A i \in 1 .. m - n : n + i \in 1 .. m /\ n + i \notin 1 .. n
  BY <1>5
<1>11. \A i \in 1 .. m : i \in 1 .. n \/ (i - n \in 1 .. m - n /\ n + (i - n) = i)
  BY <1>5
<1>12. socks = {all[i].sock : i \in 1 .. n}
  <2>1. ToSet(some) = {all[i] : i \in 1 .. n}
    BY <1>6 DEF ToSet
  <2> QED BY <2>1
<1>13. Arrived(q) = {all[n + i].sock : i \in 1 .. m - n}
  <2>1. Arrived(q) = {c.sock : c \in ToSet(last)}
    BY <1>8 DEF Arrived
  <2>2. ToSet(last) = {all[n + i] : i \in 1 .. m - n}
    BY <1>7 DEF ToSet
  <2>3. ASSUME NEW i \in 1 .. m - n
        PROVE  all[n + i] \in ToSet(last) /\ last[i] = all[n + i]
    BY <1>7, <2>2
  <2>4. {all[n + i].sock : i \in 1 .. m - n} \subseteq Arrived(q)
    BY <2>1, <2>3
  <2>5. Arrived(q) \subseteq {all[n + i].sock : i \in 1 .. m - n}
    <3> SUFFICES ASSUME NEW c \in ToSet(last)
                 PROVE  c.sock \in {all[n + i].sock : i \in 1 .. m - n}
      BY <2>1
    <3>1. PICK i \in 1 .. m - n : c = all[n + i]
      BY <2>2
    <3> QED BY <3>1
  <2> QED BY <2>4, <2>5
<1>14. Arrived(p) = {all[i].sock : i \in 1 .. m}
  BY <1>1, <1>5 DEF Arrived, ToSet
<1> HIDE DEF socks
<1>15. socks \subseteq Arrived(p) /\ Arrived(q) \subseteq Arrived(p)
  BY <1>9, <1>10, <1>12, <1>13, <1>14
<1>16. Arrived(p) \subseteq socks \cup Arrived(q)
  <2> SUFFICES ASSUME NEW i \in 1 .. m PROVE all[i].sock \in socks \cup Arrived(q)
    BY <1>14
  <2>1. CASE i \in 1 .. n
    BY <1>12, <2>1
  <2>2. CASE i - n \in 1 .. m - n /\ n + (i - n) = i
    <3>1. all[n + (i - n)].sock \in Arrived(q)
      BY <1>13, <2>2
    <3> QED BY <2>2, <3>1
  <2> QED BY <1>11, <2>1, <2>2
<1>17. socks \cap Arrived(q) = {}
  <2> SUFFICES ASSUME NEW i \in 1 .. n, NEW j \in 1 .. m - n, all[i].sock = all[n + j].sock
               PROVE  FALSE
    BY <1>12, <1>13
  <2>1. i = n + j
    BY <1>1, <1>5, <1>9, <1>10
  <2> QED BY <1>10, <2>1
<1>18. \A i, j \in DOMAIN some : some[i].sock = some[j].sock => i = j
  BY <1>1, <1>5, <1>6, <1>9
<1>19. \A i, j \in DOMAIN q.iocp : q.iocp[i].sock = q.iocp[j].sock => i = j
  <2>1. ASSUME NEW i \in 1 .. m - n, NEW j \in 1 .. m - n, last[i].sock = last[j].sock
        PROVE  i = j
    <3>1. all[n + i].sock = all[n + j].sock
      BY <1>7, <2>1
    <3>2. n + i = n + j
      BY <1>1, <1>5, <1>10, <3>1
    <3> QED BY <3>2
  <2>2. \A i, j \in DOMAIN last : last[i].sock = last[j].sock => i = j
    BY <1>7, <2>1
  <2> QED BY <1>8, <2>2
<1>20. Requested(q) = Requested(p) /\ Polled(q) = Polled(p)
  BY <1>8 DEF Requested, Polled
<1>21. ~p.open => m = 0
  BY <1>1, <1>2, EmptySeq DEF Owed
<1>22. ~q.open => q.iocp = << >>
  <2> SUFFICES ASSUME ~p.open PROVE last = << >>
    BY <1>8
  <2>1. m - n = 0
    BY <1>5, <1>21
  <2>2. last \in Seq(Packet) /\ DOMAIN last = 1 .. 0
    BY <1>7, <2>1
  <2>3. PICK l \in Nat : l = Len(last) /\ DOMAIN last = 1 .. l
    BY <2>2, LenProperties
  <2>4. 1 \notin 1 .. l
    BY <2>2, <2>3
  <2>5. Len(last) = 0
    BY <2>3, <2>4
  <2> QED BY <2>2, <2>5, EmptySeq
<1>23. PICK more : more = held \cup socks
  OBVIOUS
<1>24. Owed(q, more)
  <2>1. Requested(q) \cap Arrived(q) = {}
    BY <1>1, <1>15, <1>20 DEF Owed
  <2>2. more \cap (Requested(q) \cup Arrived(q)) = {}
    BY <1>1, <1>15, <1>17, <1>20, <1>23 DEF Owed
  <2>3. Requested(q) \cup Arrived(q) \cup more \subseteq Polled(q)
    BY <1>1, <1>15, <1>20, <1>23 DEF Owed
  <2>4. q.open => Polled(q) \subseteq Requested(q) \cup Arrived(q) \cup more
    BY <1>1, <1>8, <1>16, <1>20, <1>23 DEF Owed
  <2>5. /\ \A r, t \in q.afd : r.sock = t.sock => r = t
        /\ \A r \in q.afd : q.sock[r.sock].poll_status = PENDING
    BY <1>1, <1>8 DEF Owed
  <2> QED BY <1>19, <1>22, <2>1, <2>2, <2>3, <2>4, <2>5 DEF Owed
<1>25. Sound(q, more)
  <2>1. q \in Port /\ ButDriver(p, q)
    BY <1>8 DEF ButDriver
  <2> QED BY <1>1, <1>24, <2>1, DriverApart
<1>26. AllAttended(q)
  BY <1>1, <1>8 DEF AllAttended, Attended
<1>27. held \cap socks = {}
  BY <1>1, <1>15 DEF Owed
<1> QED
  BY <1>6, <1>8, <1>18, <1>23, <1>25, <1>26, <1>27 DEF PortOK, SameUse, SameSocks, SocksOf, Apart, socks

(* A new port has no sockets.                                              *)
LEMMA EmptyPortIs == PortOK(EmptyPort, {}) /\ EmptyPort.active = 0 /\ EmptyPort.open
                     /\ EmptyPort.update = << >> /\ DOMAIN EmptyPort.sock = {}
<1>1. PICK p : p = EmptyPort
  OBVIOUS
<1>2. PICK none : none = << >>
  OBVIOUS
<1>3. none \in Seq(SockIds) /\ none \in Seq(Group) /\ none \in Seq(Packet)
      /\ DOMAIN none = {} /\ Len(none) = 0 /\ none = [x \in {} |-> x]
  BY <1>2
<1>4. none \in UNION {[D -> Sock] : D \in SUBSET SockIds}
  BY <1>3
<1>5. none \in UNION {[T -> SockIds] : T \in SUBSET SOCKETs}
  BY <1>3
<1>6. p = [ sock |-> none, tree |-> none, update |-> none, deleted |-> none,
            groups |-> none, active |-> 0, open |-> TRUE, iocp |-> none, afd |-> {} ]
  BY <1>1, <1>2 DEF EmptyPort
<1>7. /\ p \in Port /\ p.sock = none /\ p.tree = none /\ p.update = none /\ p.deleted = none
      /\ p.groups = none /\ p.active = 0 /\ p.open /\ p.iocp = none /\ p.afd = {}
  <2>1. PICK zero, yes, no : zero = 0 /\ yes = TRUE /\ no = {}
    OBVIOUS
  <2>2. p = [ sock |-> none, tree |-> none, update |-> none, deleted |-> none,
              groups |-> none, active |-> zero, open |-> yes, iocp |-> none, afd |-> no ]
    BY <1>6, <2>1
  <2>3. p \in Port
    <3>1. zero \in Int /\ yes \in BOOLEAN /\ no \in SUBSET Request
      BY <2>1
    <3> QED BY <1>3, <1>4, <1>5, <2>2, <3>1 DEF Port
  <2> QED BY <2>1, <2>2, <2>3
<1>8. ToSet(none) = {}
  BY <1>3 DEF ToSet
<1>9. Queued(p)
  BY <1>3, <1>7, <1>8 DEF Queued, IsInjective
<1>10. Listed(p)
  BY <1>3, <1>7 DEF Listed
<1>11. Owed(p, {})
  BY <1>2, <1>3, <1>7, <1>8 DEF Owed, Requested, Arrived, Polled
<1>12. Grouped(p)
  BY <1>3, <1>7, <1>8 DEF Grouped, GroupsOK, Packed
<1>13. AllAttended(p)
  BY <1>3, <1>7 DEF AllAttended
<1> QED BY <1>1, <1>2, <1>3, <1>7, <1>9, <1>10, <1>11, <1>12, <1>13 DEF Sound, PortOK

----------------------------------------------------------------------------
(* The port and the threads.                                               *)

\* The ep_socks of the packets a thread has taken.
Carried(t) == SocksOf(taken[t])
AllCarried == UNION {Carried(t) : t \in Threads}

Pollers == In({"polling", "woken"})
Ending  == In({"dropping", "awaiting", "alone"})

\* A packet is taken by one thread, which feeds it next.
PacketsOK ==
  /\ taken \in [Threads -> Seq(Packet)]
  /\ \A t \in Threads : taken[t] # << >> => pc[t] = "woken"
  /\ \A t \in Threads : Apart(taken[t])
  /\ \A t, s \in Threads : Carried(t) \cap Carried(s) # {} => t = s

PortInv ==
  /\ PacketsOK
  /\ PortOK(port, AllCarried)
  /\ port.active = Cardinality(Pollers)
  /\ listed => port.open
  /\ Ending # {} => ~port.open
  /\ Settled(port, k)
  /\ ~listed /\ Closers = {} => DOMAIN port.sock = {}

(* Which sets a thread that moves was in and is in.                        *)
LEMMA PollersMove ==
  ASSUME pc \in [Threads -> Steps], NEW t \in Threads, NEW to \in Steps,
         pc' = [pc EXCEPT ![t] = to]
  PROVE  /\ Pollers' = IF to \in {"polling", "woken"} THEN Pollers \cup {t} ELSE Pollers \ {t}
         /\ Ending' = IF to \in {"dropping", "awaiting", "alone"}
                      THEN Ending \cup {t} ELSE Ending \ {t}
         /\ t \in Pollers <=> pc[t] \in {"polling", "woken"}
         /\ t \in Ending <=> pc[t] \in {"dropping", "awaiting", "alone"}
<1>1. pc'[t] = to /\ \A s \in Threads \ {t} : pc'[s] = pc[s]
  OBVIOUS
<1>2. Pollers' = IF to \in {"polling", "woken"} THEN Pollers \cup {t} ELSE Pollers \ {t}
  BY <1>1 DEF Pollers, In
<1>3. Ending' = IF to \in {"dropping", "awaiting", "alone"} THEN Ending \cup {t} ELSE Ending \ {t}
  BY <1>1 DEF Ending, In
<1> QED BY <1>2, <1>3 DEF Pollers, Ending, In

(* How many wait.                                                          *)
LEMMA CountPollers ==
  ASSUME NEW t \in Threads
  PROVE  /\ Cardinality(Pollers) \in Nat /\ Cardinality(Pollers \ {t}) \in Nat
         /\ t \in Pollers => Cardinality(Pollers \ {t}) = Cardinality(Pollers) - 1
         /\ Cardinality(Pollers \cup {t}) = Cardinality(Pollers \ {t}) + 1
<1>1. PICK S \in SUBSET Threads : S = Pollers
  BY DEF Pollers, In
<1>2. Cardinality(S) \in Nat /\ t \in S => Cardinality(S \ {t}) = Cardinality(S) - 1
  BY CountThreads
<1>3. PICK R \in SUBSET Threads : R = S \ {t}
  OBVIOUS
<1>4. t \in Threads \ R /\ R \cup {t} = S \cup {t}
  BY <1>3
<1>5. Cardinality(R) \in Nat /\ Cardinality(R \cup {t}) = Cardinality(R) + 1
  BY <1>4, CountThreads
<1>6. Cardinality(S) \in Nat
  BY CountThreads
<1> QED BY <1>1, <1>2, <1>3, <1>4, <1>5, <1>6

(* Nobody takes or feeds packets.                                          *)
LEMMA PacketsKept ==
  ASSUME PacketsOK, taken' = taken, \A t \in Threads : pc[t] = "woken" => pc'[t] = "woken"
  PROVE  PacketsOK' /\ AllCarried' = AllCarried
BY DEF PacketsOK, Carried, AllCarried

(* Nobody touches the port.                                                *)
LEMMA PortKept ==
  ASSUME PortInv, UNCHANGED <<port, taken>>, k'.broken = k.broken, Pollers' = Pollers,
         \A t \in Threads : pc[t] = "woken" => pc'[t] = "woken",
         listed' => listed, Ending' # {} => ~port.open,
         ~listed' /\ Closers' = {} => ~listed /\ Closers = {}
  PROVE  PortInv'
<1>1. PacketsOK' /\ AllCarried' = AllCarried
  BY PacketsKept DEF PortInv
<1>2. PortOK(port, AllCarried)' 
  BY <1>1 DEF PortInv
<1>3. Settled(port, k)'
  BY DEF PortInv, Settled
<1> QED BY <1>1, <1>2, <1>3 DEF PortInv

\* What a step of thread t leaves, held being what all the threads carry then.
GoesOn(t, held) ==
  /\ PortOK(port', held) /\ port'.active = Cardinality(Pollers')
  /\ port'.open = port.open /\ Settled(port', k')
  /\ Ending' = Ending /\ listed' = listed /\ (listed' \/ Closers' # {})
  /\ \A s \in Threads \ {t} : pc'[s] = pc[s]

(* A thread that is inside a call keeps the port from being gone.          *)
LEMMA NotGone ==
  ASSUME Life, NEW t \in Threads, pc[t] \in {"inside", "polling", "woken"}
  PROVE  (listed \/ Closers # {}) /\ t \notin Ending /\ t \notin Closers
<1>1. t \in Holders /\ t \notin Closers
  BY WhereItIs
<1>2. ~Gone
  BY <1>1 DEF Gone
<1>3. ASSUME NEW s \in Threads, Leaving(s) \/ Draining(s) \/ Alone(s) PROVE Closers # {}
  BY <1>3 DEF Leaving, Draining, Alone
<1>4. listed \/ Closers # {}
  BY <1>2, <1>3 DEF Life, Running
<1> QED BY <1>1, <1>4 DEF Ending, In

(* A thread gives its reference back, and leaves the port p behind.        *)
LEMMA Returned ==
  ASSUME Life, NEW t \in Threads, pc[t] \in {"inside", "woken"}, UNCHANGED <<listed, k>>,
         NEW held, NEW p, PortOK(p, held), p.active = Cardinality(Pollers \ {t}),
         p.open = port.open, Return(t, p)
  PROVE  GoesOn(t, held)
<1>1. PICK kernel, q : kernel = k /\ q = port'
  OBVIOUS
<1>2. q = _ep_port_update_events_if_polling(p, kernel)
  BY <1>1 DEF Return
<1>3. PortOK(q, held) /\ SameUse(p, q) /\ Settled(q, kernel)
  BY <1>2, UpdatedIfPolling
<1>4. PICK to \in {"signalling", "idle"} : pc' = [pc EXCEPT ![t] = to]
  BY DEF Return, reflock_tree_node_unref
<1>5. pc \in [Threads -> Steps] /\ to \in Steps
  BY DEF Life, Steps
<1>6. Pollers' = Pollers \ {t} /\ Ending' = Ending \ {t} /\ Closers' = Closers \ {t}
      /\ \A s \in Threads \ {t} : pc'[s] = pc[s]
  BY <1>4, <1>5, PollersMove, MoveOne
<1>7. Ending' = Ending /\ Closers' = Closers /\ (listed \/ Closers # {})
  BY <1>6, NotGone
<1>8. q.active = Cardinality(Pollers') /\ q.open = port.open
  BY <1>3, <1>6 DEF SameUse
<1> QED BY <1>1, <1>3, <1>6, <1>7, <1>8 DEF GoesOn

(* A thread waits on port p, or returns because a poll is refused.         *)
LEMMA WaitsOrReturns ==
  ASSUME Life, NEW t \in Threads, pc[t] \in {"inside", "woken"}, UNCHANGED <<listed, k>>,
         NEW held, NEW p, PortOK(p, held), p.active = Cardinality(Pollers \ {t}),
         p.open = port.open, Poll(t, p)
  PROVE  GoesOn(t, held)
<1>1. PICK kernel, r : kernel = k /\ r = _ep_port_update_events(p, kernel)
  OBVIOUS
<1>2. PortOK(r.port, held) /\ SameUse(p, r.port) /\ AllUpdated(kernel, r)
  BY <1>1, PortUpdatedIs
<1>3. PICK up : up = r.port
  OBVIOUS
<1>4. up.active = Cardinality(Pollers \ {t}) /\ up.open = port.open /\ PortOK(up, held)
  BY <1>2, <1>3 DEF SameUse
<1>5. CASE Return(t, up)
  BY <1>4, <1>5, Returned
<1>6. CASE /\ r.ok /\ port' = [up EXCEPT !.active = @ + 1]
           /\ pc' = [pc EXCEPT ![t] = "polling"]
  <2>1. PICK n \in Int : n = up.active + 1 /\ n = Cardinality(Pollers \cup {t})
    BY <1>4, CountPollers
  <2>2. PICK q : q = port' /\ q = [up EXCEPT !.active = n]
    BY <1>6, <2>1
  <2>3. PortOK(q, held) /\ q.active = n /\ q.open = up.open /\ SameSocks(up, q)
    BY <1>4, <2>2, ActiveSet
  <2>4. Settled(q, kernel)
    BY <1>2, <1>3, <1>6, <2>3 DEF AllUpdated, SameSocks, Settled
  <2>5. pc \in [Threads -> Steps] /\ "polling" \in Steps
    BY DEF Life, Steps
  <2>6. Pollers' = Pollers \cup {t} /\ Ending' = Ending \ {t} /\ Closers' = Closers \ {t}
        /\ \A s \in Threads \ {t} : pc'[s] = pc[s]
    BY <1>6, <2>5, PollersMove, MoveOne
  <2>7. Ending' = Ending /\ Closers' = Closers /\ (listed \/ Closers # {})
    BY <2>6, NotGone
  <2>8. q.active = Cardinality(Pollers') /\ q.open = port.open
    BY <1>4, <2>1, <2>3, <2>6
  <2> QED BY <1>1, <2>2, <2>3, <2>4, <2>6, <2>7, <2>8 DEF GoesOn
<1> QED BY <1>1, <1>3, <1>5, <1>6 DEF Poll

(* The invariant is kept by a step that leaves what a call leaves.         *)
LEMMA GoesOnKeeps ==
  ASSUME PortInv, NEW t \in Threads, GoesOn(t, AllCarried'), PacketsOK'
  PROVE  PortInv'
<1>1. PortOK(port', AllCarried') /\ port'.active = Cardinality(Pollers')
  BY DEF GoesOn
<1>2. (listed' => port'.open) /\ (Ending' # {} => ~port'.open) /\ Settled(port', k')
  BY DEF GoesOn, PortInv
<1>3. ~(~listed' /\ Closers' = {})
  BY DEF GoesOn
<1> QED BY <1>1, <1>2, <1>3 DEF PortInv

(* epoll_wait up to its wait.                                              *)
LEMMA WaitKeepsPort ==
  ASSUME Life, PortInv, NEW t \in Threads, ep_port_wait(t)
  PROVE  PortInv'
<1>1. /\ pc[t] = "inside" /\ Poll(t, port) /\ UNCHANGED <<listed, k>> /\ taken' = taken
  BY DEF ep_port_wait
<1>2. t \notin Pollers /\ Pollers \ {t} = Pollers
  BY <1>1 DEF Pollers, In
<1>3. PICK p, held : p = port /\ held = AllCarried
  OBVIOUS
<1>4. PortOK(p, held) /\ p.active = Cardinality(Pollers \ {t}) /\ p.open = port.open
  BY <1>2, <1>3 DEF PortInv
<1>5. Poll(t, p)
  BY <1>1, <1>3
<1>6. GoesOn(t, held)
  BY <1>1, <1>4, <1>5, WaitsOrReturns
<1>7. \A s \in Threads : pc[s] = "woken" => pc'[s] = "woken"
  BY <1>1, <1>6 DEF GoesOn
<1>8. PacketsOK' /\ AllCarried' = held
  BY <1>1, <1>3, <1>7, PacketsKept DEF PortInv
<1> QED BY <1>6, <1>8, GoesOnKeeps

(* What a thread takes off the completion port.                            *)
LEMMA TakeKeepsPort ==
  ASSUME Life, PortInv, NEW t \in Threads, TakePackets(t)
  PROVE  PortInv'
<1>1. PICK p, held, q : p = port /\ held = AllCarried /\ q = port'
  OBVIOUS
<1>2. PortOK(p, held) /\ p.iocp \in Seq(Packet)
  BY <1>1, PortParts DEF PortInv, PortOK, Sound
<1>3. PICK m \in Nat : m = Len(p.iocp)
  BY <1>2, LenProperties
<1>4. PICK n \in 0 .. m : n = Min({MaxEvents, m})
  <2>1. MaxEvents \in Nat
    BY EventsAssumption
  <2>2. CASE MaxEvents <= m
    <3>1. Min({MaxEvents, m}) = MaxEvents
      BY <2>1, <2>2 DEF Min
    <3> QED BY <2>1, <2>2, <3>1
  <2>3. CASE m <= MaxEvents
    <3>1. Min({MaxEvents, m}) = m
      BY <2>1, <2>3 DEF Min
    <3> QED BY <3>1
  <2> QED BY <2>1, <2>2, <2>3
<1>5. PICK some, last : some = SubSeq(p.iocp, 1, n) /\ last = SubSeq(p.iocp, n + 1, Len(p.iocp))
  OBVIOUS
<1>6. q = [p EXCEPT !.iocp = last] /\ taken' = [taken EXCEPT ![t] = some]
  BY <1>1, <1>3, <1>4, <1>5 DEF TakePackets
<1>7. PICK socks : socks = SocksOf(some)
  OBVIOUS
<1>8. /\ PortOK(q, held \cup SocksOf(some)) /\ SameUse(p, q) /\ SameSocks(p, q)
      /\ some \in Seq(Packet) /\ Apart(some) /\ held \cap SocksOf(some) = {}
  <2>1. n \in 0 .. Len(p.iocp)
    BY <1>3
  <2>2. Takes(p, n, some, q)
    BY <1>5, <1>6 DEF Takes
  <2> QED BY <1>2, <2>1, <2>2, TakenIs
<1>9. /\ pc[t] = "polling" /\ pc' = [pc EXCEPT ![t] = "woken"]
      /\ pc \in [Threads -> Steps] /\ "woken" \in Steps /\ UNCHANGED <<listed, k>>
  BY DEF TakePackets, Goes, Life, Steps
<1>10. Pollers' = Pollers \cup {t} /\ Ending' = Ending \ {t} /\ Closers' = Closers \ {t}
       /\ t \in Pollers /\ \A s \in Threads \ {t} : pc'[s] = pc[s]
  BY <1>9, PollersMove, MoveOne
<1>11. Pollers' = Pollers /\ Ending' = Ending /\ Closers' = Closers /\ (listed \/ Closers # {})
       /\ pc'[t] = "woken"
  BY <1>9, <1>10, NotGone
<1>12. /\ Carried(t)' = socks /\ \A s \in Threads \ {t} : Carried(s)' = Carried(s)
       /\ Carried(t) = {}
  <2>1. taken \in [Threads -> Seq(Packet)] /\ taken[t] = << >>
    BY <1>9 DEF PortInv, PacketsOK
  <2>2. taken'[t] = some /\ \A s \in Threads \ {t} : taken'[s] = taken[s]
    BY <1>6, <2>1
  <2>3. SocksOf(<< >>) = {}
    BY DEF SocksOf, ToSet
  <2> QED BY <1>7, <2>1, <2>2, <2>3 DEF Carried
<1>13. AllCarried' = held \cup socks
  BY <1>1, <1>12 DEF AllCarried
<1>14. PacketsOK'
  <2>1. taken' \in [Threads -> Seq(Packet)]
    BY <1>6, <1>8 DEF PortInv, PacketsOK
  <2>2. taken'[t] = some /\ \A s \in Threads \ {t} : taken'[s] = taken[s]
    BY <1>6 DEF PortInv, PacketsOK
  <2>3. \A s \in Threads : taken'[s] # << >> => pc'[s] = "woken"
    BY <1>10, <1>11, <2>2 DEF PortInv, PacketsOK
  <2>4. \A s \in Threads : Apart(taken'[s])
    BY <1>8, <2>2 DEF PortInv, PacketsOK
  <2>5. ASSUME NEW r \in Threads, NEW s \in Threads, Carried(r)' \cap Carried(s)' # {}
        PROVE  r = s
    <3>1. \A a \in Threads : Carried(a) \cap socks = {}
      BY <1>1, <1>7, <1>8 DEF AllCarried
    <3> QED BY <1>12, <2>5, <3>1 DEF PortInv, PacketsOK
  <2> QED BY <2>1, <2>3, <2>4, <2>5 DEF PacketsOK
<1>15. PortOK(q, held \cup socks)
  BY <1>7, <1>8
<1>16. GoesOn(t, held \cup socks)
  <2>1. q.active = Cardinality(Pollers') /\ q.open = port.open /\ Settled(q, k')
    BY <1>1, <1>8, <1>9, <1>11 DEF SameUse, SameSocks, Settled, PortInv
  <2> QED BY <1>1, <1>9, <1>10, <1>11, <1>15, <2>1 DEF GoesOn
<1> QED BY <1>13, <1>14, <1>16, GoesOnKeeps

(* What a thread took is fed: the others keep what they took.              *)
LEMMA LookKeepsPort ==
  ASSUME Life, PortInv, NEW t \in Threads, LookAtPackets(t)
  PROVE  PortInv'
<1>1. /\ pc[t] = "woken" /\ UNCHANGED <<listed, k>> /\ taken' = [taken EXCEPT ![t] = << >>]
      /\ taken \in [Threads -> Seq(Packet)] /\ pc \in [Threads -> Steps]
  BY DEF LookAtPackets, PortInv, PacketsOK, Life
<1>2. PICK p, all : p = port /\ all = AllCarried
  OBVIOUS
<1>3. PICK held : held = UNION {Carried(s) : s \in Threads \ {t}}
  OBVIOUS
<1>4. all = held \cup Carried(t) /\ held \cap Carried(t) = {}
  BY <1>2, <1>3 DEF AllCarried, PortInv, PacketsOK
<1>5. PacketsOK'
  <2>1. taken' \in [Threads -> Seq(Packet)]
    BY <1>1
  <2>2. taken'[t] = << >> /\ \A s \in Threads \ {t} : taken'[s] = taken[s] /\ Carried(s)' = Carried(s)
    BY <1>1 DEF Carried
  <2>3. Carried(t)' = {} /\ Apart(taken'[t])
    BY <2>2 DEF Carried, SocksOf, Apart, ToSet
  <2>4. \A s \in Threads \ {t} : pc'[s] = pc[s]
    <3>1. PICK to : pc' = [pc EXCEPT ![t] = to]
      BY DEF LookAtPackets, Return, Poll, reflock_tree_node_unref
    <3> QED BY <1>1, <3>1
  <2>5. \A s \in Threads : taken'[s] # << >> => pc'[s] = "woken"
    BY <2>2, <2>4 DEF PacketsOK, PortInv
  <2>6. \A s \in Threads : Apart(taken'[s])
    BY <2>2, <2>3 DEF PacketsOK, PortInv
  <2>7. ASSUME NEW r \in Threads, NEW s \in Threads, Carried(r)' \cap Carried(s)' # {}
        PROVE  r = s
    BY <2>2, <2>3, <2>7 DEF PacketsOK, PortInv
  <2> QED BY <2>1, <2>5, <2>6, <2>7 DEF PacketsOK
<1>6. AllCarried' = held
  <2>1. \A s \in Threads \ {t} : Carried(s)' = Carried(s)
    BY <1>1 DEF Carried
  <2>2. Carried(t)' = {}
    BY <1>1 DEF Carried, SocksOf, ToSet
  <2> QED BY <1>3, <2>1, <2>2 DEF AllCarried
<1>7. t \in Pollers /\ p.active = Cardinality(Pollers)
  BY <1>1, <1>2 DEF Pollers, In, PortInv
<1>8. PICK n \in Int : n = p.active - 1 /\ n = Cardinality(Pollers \ {t})
  BY <1>7, CountPollers
<1>9. PICK back : back = Relocked /\ back = [p EXCEPT !.active = n]
  BY <1>2, <1>8 DEF Relocked
<1>10. PortOK(back, all) /\ back.active = n /\ back.open = p.open
  BY <1>2, <1>9, ActiveSet DEF PortInv
<1>11. CASE taken[t] = << >> /\ Return(t, Relocked)
  <2>1. Carried(t) = {} /\ Return(t, back)
    BY <1>9, <1>11 DEF Carried, SocksOf, ToSet
  <2>2. PortOK(back, held)
    BY <1>4, <1>10, <2>1
  <2>3. GoesOn(t, held)
    BY <1>1, <1>2, <1>8, <1>10, <2>1, <2>2, Returned
  <2> QED BY <1>5, <1>6, <2>3, GoesOnKeeps
<1>12. CASE taken[t] # << >>
  <2>1. PICK packets \in Seq(Packet) : packets = taken[t]
    BY <1>1
  <2>2. Carried(t) = SocksOf(packets)
    BY <2>1 DEF Carried
  <2>3. PICK fed : fed = Fed(t).port /\ fed = _ep_port_feed_events(back, packets).port
    BY <1>9, <2>1 DEF Fed
  <2>4. PortOK(fed, held) /\ SameUse(back, fed)
    <3>1. PortOK(back, held \cup SocksOf(packets))
      BY <1>4, <1>10, <2>2
    <3>2. Apart(packets)
      BY <2>1 DEF PortInv, PacketsOK
    <3>3. held \cap SocksOf(packets) = {}
      BY <1>4, <2>2
    <3> QED BY <2>3, <3>1, <3>2, <3>3, PortFedIs
  <2>5. fed.active = Cardinality(Pollers \ {t}) /\ fed.open = port.open
    BY <1>2, <1>8, <1>10, <2>4 DEF SameUse
  <2>6. Return(t, fed) \/ Poll(t, fed)
    BY <1>12, <2>3 DEF LookAtPackets
  <2>7. GoesOn(t, held)
    BY <1>1, <2>4, <2>5, <2>6, Returned, WaitsOrReturns
  <2> QED BY <1>5, <1>6, <2>7, GoesOnKeeps
<1> QED BY <1>11, <1>12 DEF LookAtPackets

(* epoll_ctl.                                                              *)
LEMMA CtlKeepsPort ==
  ASSUME Life, PortInv, NEW t \in Threads, epoll_ctl(t)
  PROVE  PortInv'
<1>1. PICK p, held, q, kernel : p = port /\ held = AllCarried /\ q = port' /\ kernel = k
  OBVIOUS
<1>2. PortOK(p, held)
  BY <1>1 DEF PortInv
<1>3. CallGives(held, kernel, p, q)
  <2>1. PICK h \in SOCKETs :
          \/ \E mask \in Masks : \/ q = _ep_port_ctl_add(p, kernel, h, Event(h, mask))
                                 \/ q = _ep_port_ctl_mod(p, kernel, h, Event(h, mask))
          \/ q = _ep_port_ctl_del(p, h)
    BY <1>1 DEF epoll_ctl
  <2>2. CASE q = _ep_port_ctl_del(p, h)
    BY <1>2, <2>2, CtlDeleted
  <2>3. ASSUME NEW mask \in Masks,
               \/ q = _ep_port_ctl_add(p, kernel, h, Event(h, mask))
               \/ q = _ep_port_ctl_mod(p, kernel, h, Event(h, mask))
        PROVE  CallGives(held, kernel, p, q)
    <3>1. PICK ev \in Told : ev = Event(h, mask)
      BY DEF Told, Event
    <3> QED BY <1>2, <2>3, <3>1, CtlAdded, CtlModified
  <2> QED BY <2>1, <2>2, <2>3
<1>4. /\ pc[t] = "inside" /\ pc \in [Threads -> Steps]
      /\ UNCHANGED <<listed, k>> /\ taken' = taken
  BY DEF epoll_ctl, Life
<1>5. PICK to \in {"signalling", "idle"} : pc' = [pc EXCEPT ![t] = to]
  BY DEF epoll_ctl, reflock_tree_node_unref
<1>6. to \in Steps
  BY DEF Steps
<1>7. /\ Pollers' = Pollers \ {t} /\ Ending' = Ending \ {t} /\ Closers' = Closers \ {t}
      /\ t \notin Pollers /\ \A s \in Threads \ {t} : pc'[s] = pc[s]
  BY <1>4, <1>5, <1>6, PollersMove, MoveOne
<1>8. Pollers' = Pollers /\ Ending' = Ending /\ Closers' = Closers /\ (listed \/ Closers # {})
  BY <1>4, <1>7, NotGone
<1>9. q.active = Cardinality(Pollers') /\ q.open = port.open /\ Settled(q, k') /\ PortOK(q, held)
  BY <1>1, <1>3, <1>4, <1>8 DEF CallGives, SameUse, PortInv
<1>10. GoesOn(t, held)
  BY <1>1, <1>4, <1>7, <1>8, <1>9 DEF GoesOn
<1>11. \A s \in Threads : pc[s] = "woken" => pc'[s] = "woken"
  BY <1>4, <1>7
<1>12. PacketsOK' /\ AllCarried' = held
  BY <1>1, <1>4, <1>11, PacketsKept DEF PortInv
<1> QED BY <1>10, <1>12, GoesOnKeeps

(* The steps of a thread that touches no port: it takes a reference, comes *)
(* back from its wait, signals, or waits for the others to leave.          *)
LEMMA MoveKeepsPort ==
  ASSUME Life, PortInv, NEW t \in Threads,
         \/ reflock_tree_find_and_ref(t) \/ ComesBackEmpty(t)
         \/ reflock_tree_del_and_ref(t) \/ UnrefAndDestroy(t)
  PROVE  PortInv'
<1>1. PICK to \in {"inside", "woken", "closing", "awaiting", "alone"} : pc' = [pc EXCEPT ![t] = to]
  BY DEF reflock_tree_find_and_ref, ComesBackEmpty, reflock_tree_del_and_ref, UnrefAndDestroy, Goes
<1>2. pc \in [Threads -> Steps] /\ to \in Steps
  BY DEF Life, Steps
<1>3. /\ Pollers' = IF to = "woken" THEN Pollers \cup {t} ELSE Pollers \ {t}
      /\ Ending' = IF to \in {"awaiting", "alone"} THEN Ending \cup {t} ELSE Ending \ {t}
      /\ Closers' = IF to \in {"closing", "awaiting", "alone"}
                    THEN Closers \cup {t} ELSE Closers \ {t}
      /\ pc'[t] = to /\ \A s \in Threads \ {t} : pc'[s] = pc[s]
      /\ t \in Pollers <=> pc[t] \in {"polling", "woken"}
      /\ t \in Ending <=> pc[t] \in {"dropping", "awaiting", "alone"}
  BY <1>1, <1>2, PollersMove, MoveOne
<1>4. UNCHANGED <<port, taken>> /\ k'.broken = k.broken
  BY DEF reflock_tree_find_and_ref, ComesBackEmpty, reflock_tree_del_and_ref, UnrefAndDestroy
<1>5. t \in Closers <=> pc[t] \in {"closing", "dropping", "awaiting", "alone"}
  BY WhereItIs
<1>6. CASE reflock_tree_find_and_ref(t)
  <2>1. pc[t] = "idle" /\ to = "inside" /\ listed /\ listed' = listed
    BY <1>2, <1>3, <1>6 DEF reflock_tree_find_and_ref, Goes
  <2>2. Pollers' = Pollers /\ Ending' = Ending
    BY <1>3, <2>1
  <2>3. \A s \in Threads : pc[s] = "woken" => pc'[s] = "woken"
    BY <1>3, <2>1
  <2> QED BY <1>4, <2>1, <2>2, <2>3, PortKept DEF PortInv
<1>7. CASE ComesBackEmpty(t)
  <2>1. pc[t] = "polling" /\ to = "woken" /\ listed' = listed
    BY <1>2, <1>3, <1>7 DEF ComesBackEmpty, Goes
  <2>2. Pollers' = Pollers /\ Ending' = Ending /\ Closers' = Closers
    BY <1>3, <1>5, <2>1
  <2>3. \A s \in Threads : pc[s] = "woken" => pc'[s] = "woken"
    BY <1>3, <2>1
  <2> QED BY <1>4, <2>1, <2>2, <2>3, PortKept DEF PortInv
<1>8. CASE reflock_tree_del_and_ref(t)
  <2>1. pc[t] = "idle" /\ to = "closing" /\ listed /\ ~listed'
    BY <1>2, <1>3, <1>8 DEF reflock_tree_del_and_ref, Goes
  <2>2. Pollers' = Pollers /\ Ending' = Ending /\ t \in Closers'
    BY <1>3, <2>1
  <2>3. \A s \in Threads : pc[s] = "woken" => pc'[s] = "woken"
    BY <1>3, <2>1
  <2> QED BY <1>4, <2>1, <2>2, <2>3, PortKept DEF PortInv
<1>9. CASE UnrefAndDestroy(t)
  <2>1. pc[t] = "dropping" /\ to \in {"awaiting", "alone"} /\ listed' = listed
    BY <1>2, <1>3, <1>9 DEF UnrefAndDestroy, Goes
  <2>2. Pollers' = Pollers /\ Ending # {} /\ t \in Closers'
    BY <1>3, <2>1
  <2>3. \A s \in Threads : pc[s] = "woken" => pc'[s] = "woken"
    BY <1>3, <2>1
  <2>4. ~port.open
    BY <2>2 DEF PortInv
  <2> QED BY <1>4, <2>1, <2>2, <2>3, <2>4, PortKept
<1> QED BY <1>6, <1>7, <1>8, <1>9

(* The signal moves two threads, one that closes.                          *)
LEMMA SignalKeepsPort ==
  ASSUME Life, PortInv, NEW t \in Threads, NEW closer \in Threads, Signal(t, closer)
  PROVE  PortInv'
<1>1. /\ pc \in [Threads -> Steps] /\ pc[t] = "signalling" /\ pc[closer] = "awaiting"
      /\ pc' = [pc EXCEPT ![t] = "idle", ![closer] = "alone"]
      /\ UNCHANGED <<taken, port, listed, k>>
  BY DEF Signal, Life
<1>2. /\ \A s \in Threads \ {t, closer} : pc'[s] = pc[s]
      /\ pc'[t] = "idle" /\ pc'[closer] = "alone"
  BY <1>1
<1>3. Pollers' = Pollers
  BY <1>1, <1>2 DEF Pollers, In
<1>4. closer \in Closers' /\ closer \in Ending
  BY <1>1, <1>2 DEF Closers, Ending, In
<1>5. ~port.open /\ Closers' # {}
  BY <1>4 DEF PortInv
<1>6. \A s \in Threads : pc[s] = "woken" => pc'[s] = "woken"
  BY <1>1, <1>2
<1> QED BY <1>1, <1>3, <1>5, <1>6, PortKept

(* The completion port is closed by the one that closes, with waiters left *)
(* or not.                                                                 *)
LEMMA CloseKeepsPort ==
  ASSUME Life, PortInv, NEW t \in Threads, ep_port_close(t)
  PROVE  PortInv'
<1>1. PICK p, held, q : p = port /\ held = AllCarried /\ q = port'
  OBVIOUS
<1>2. PortOK(p, held) /\ q = [p EXCEPT !.open = FALSE, !.iocp = << >>]
  BY <1>1 DEF PortInv, ep_port_close
<1>3. PortOK(q, held) /\ q.active = p.active /\ ~q.open /\ SameSocks(p, q)
  BY <1>2, ClosedIs
<1>4. /\ pc[t] = "closing" /\ pc' = [pc EXCEPT ![t] = "dropping"] /\ pc \in [Threads -> Steps]
      /\ "dropping" \in Steps /\ UNCHANGED <<taken, listed, k>>
  BY DEF ep_port_close, Goes, Life, Steps
<1>5. /\ Pollers' = Pollers \ {t} /\ t \notin Pollers /\ t \in Closers'
      /\ pc'[t] = "dropping" /\ \A s \in Threads \ {t} : pc'[s] = pc[s]
  <2>1. PICK to \in Steps : to = "dropping" /\ pc' = [pc EXCEPT ![t] = to]
    BY <1>4
  <2>2. Pollers' = (IF to \in {"polling", "woken"} THEN Pollers \cup {t} ELSE Pollers \ {t})
        /\ (t \in Pollers <=> pc[t] \in {"polling", "woken"})
    BY <1>4, <2>1, PollersMove
  <2>3. /\ Closers' = IF to \in {"closing", "dropping", "awaiting", "alone"}
                      THEN Closers \cup {t} ELSE Closers \ {t}
        /\ pc'[t] = to /\ \A s \in Threads \ {t} : pc'[s] = pc[s]
    BY <1>4, <2>1, MoveOne
  <2> QED BY <1>4, <2>1, <2>2, <2>3
<1>6. PacketsOK' /\ AllCarried' = held
  <2>1. \A s \in Threads : pc[s] = "woken" => pc'[s] = "woken"
    BY <1>4, <1>5
  <2> QED BY <1>1, <1>4, <2>1, PacketsKept DEF PortInv
<1>7. ~listed
  <2>1. t \in Closers
    BY <1>4, WhereItIs
  <2> QED BY <2>1 DEF Life, Running
<1>8. q.active = Cardinality(Pollers') /\ Settled(q, k')
  <2>1. Pollers' = Pollers
    BY <1>5
  <2> QED BY <1>1, <1>3, <1>4, <2>1 DEF PortInv, Settled, SameSocks
<1> QED BY <1>1, <1>3, <1>4, <1>5, <1>6, <1>7, <1>8 DEF PortInv

(* Nobody carries packets of a port nobody is inside of.                   *)
LEMMA NobodyCarries ==
  ASSUME Life, PacketsOK, Holders = {}
  PROVE  AllCarried = {} /\ Cardinality(Pollers) = 0
<1>1. ASSUME NEW t \in Threads PROVE SocksOf(taken[t]) = {} /\ t \notin Pollers
  <2>1. pc[t] \notin {"polling", "woken"}
    BY WhereItIs
  <2>2. taken[t] = << >>
    BY <2>1 DEF PacketsOK
  <2> QED BY <2>1, <2>2 DEF SocksOf, ToSet, Pollers, In
<1>2. AllCarried = {} /\ Pollers = {}
  BY <1>1 DEF AllCarried, Carried, Pollers, In
<1> QED BY <1>2, FS_EmptySet

(* The memory of the port goes.                                            *)
LEMMA DeleteKeepsPort ==
  ASSUME Life, PortInv, NEW t \in Threads, ep_port_delete(t)
  PROVE  PortInv'
<1>1. PICK p, q : p = port /\ q = port'
  OBVIOUS
<1>2. /\ pc[t] = "alone" /\ pc' = [pc EXCEPT ![t] = "idle"] /\ pc \in [Threads -> Steps]
      /\ "idle" \in Steps /\ UNCHANGED <<taken, listed, k>> /\ q = AllForceDeleted(p)
  BY <1>1 DEF ep_port_delete, Goes, Life, Steps
<1>3. t \in Closers /\ t \in Ending
  BY <1>2, WhereItIs DEF Ending, In
<1>4. Alone(t) /\ ~listed
  BY <1>2, <1>3 DEF Life, Running, Leaving, Draining, Alone, Gone
<1>5. AllCarried = {} /\ Cardinality(Pollers) = 0
  BY <1>4, NobodyCarries DEF Alone, PortInv
<1>6. PortOK(p, {}) /\ ~p.open /\ p.active = 0
  BY <1>1, <1>3, <1>5 DEF PortInv
<1>7. PortOK(q, {}) /\ q.active = p.active /\ ~q.open /\ DOMAIN q.sock = {}
  BY <1>2, <1>6, PortDeletedIs
<1>8. /\ Pollers' = Pollers \ {t} /\ t \notin Pollers
      /\ pc'[t] = "idle" /\ \A s \in Threads \ {t} : pc'[s] = pc[s]
  BY <1>2, PollersMove, MoveOne
<1>9. PacketsOK' /\ AllCarried' = {}
  <2>1. \A s \in Threads : pc[s] = "woken" => pc'[s] = "woken"
    BY <1>2, <1>8
  <2> QED BY <1>2, <1>5, <2>1, PacketsKept DEF PortInv
<1>10. q.active = Cardinality(Pollers') /\ Settled(q, k')
  <2>1. Pollers' = Pollers
    BY <1>8
  <2> QED BY <1>5, <1>6, <1>7, <2>1 DEF Settled
<1> QED BY <1>1, <1>2, <1>4, <1>7, <1>9, <1>10 DEF PortInv

(* A reflock that is poisoned belongs to a port that is gone.              *)
LEMMA GoneIs ==
  ASSUME Life, ~Live
  PROVE  Gone /\ ~listed
<1>1. Cardinality(Holders) \in Nat /\ Cardinality(Holders) < _DESTROY
  <2>1. Holders \in SUBSET Threads
    BY DEF Holders, In
  <2> QED BY <2>1, CountThreads
<1> QED BY <1>1 DEF Life, Running, Leaving, Draining, Alone, Live, _DESTROY, _POISON

(* A new port.                                                             *)
LEMMA CreateKeepsPort ==
  ASSUME Life, PortInv, NEW t \in Threads, epoll_create(t)
  PROVE  PortInv'
<1>1. Gone
  BY GoneIs DEF epoll_create, Live
<1>2. /\ UNCHANGED pc /\ UNCHANGED <<taken, k>> /\ port' = EmptyPort /\ listed'
      /\ pc \in [Threads -> Steps]
  BY DEF epoll_create, Goes, Life
<1>3. AllCarried = {} /\ Cardinality(Pollers) = 0 /\ Ending = {}
  <2>1. AllCarried = {} /\ Cardinality(Pollers) = 0
    BY <1>1, NobodyCarries DEF Gone, PortInv
  <2>2. Ending = {}
    BY <1>1 DEF Gone, Ending, Closers, In
  <2> QED BY <2>1, <2>2
<1>4. PacketsOK' /\ AllCarried' = AllCarried
  BY <1>2, PacketsKept DEF PortInv
<1>5. Pollers' = Pollers /\ Ending' = Ending
  BY <1>2 DEF Pollers, Ending, In
<1>6. PortOK(port', AllCarried')
  BY <1>2, <1>3, <1>4, EmptyPortIs
<1>7. port'.active = Cardinality(Pollers') /\ port'.open /\ Settled(port', k')
  BY <1>2, <1>3, <1>5, EmptyPortIs DEF Settled
<1> QED BY <1>2, <1>3, <1>4, <1>5, <1>6, <1>7 DEF PortInv

----------------------------------------------------------------------------
(* The sockets.                                                            *)

Kernel ==
  [ open : SUBSET SOCKETs, broken : SUBSET SOCKETs, ready : [SOCKETs -> States \cup {{}}] ]

(* What the kernel knows of the sockets.                                   *)
LEMMA KernelStep ==
  ASSUME k \in Kernel, [Next]_vars
  PROVE  k' \in Kernel
<1>1. ASSUME NEW h \in SOCKETs, Opens(h) PROVE k' \in Kernel
  BY <1>1 DEF Opens, Kernel
<1>2. ASSUME NEW h \in SOCKETs, Closes(h) PROVE k' \in Kernel
  BY <1>2 DEF Closes, Kernel
<1>3. ASSUME NEW h \in SOCKETs, Changes(h) PROVE k' \in Kernel
  BY <1>3 DEF Changes, Kernel
<1>4. ASSUME NEW h \in SOCKETs, Breaks(h) PROVE k' \in Kernel
  BY <1>4 DEF Breaks, Kernel
<1>5. CASE UNCHANGED k
  BY <1>5
<1> QED
  BY <1>1, <1>2, <1>3, <1>4, <1>5
  DEF Next, vars, reflock_tree_find_and_ref, ep_port_wait, TakePackets, ComesBackEmpty,
      LookAtPackets, epoll_ctl, reflock_tree_del_and_ref, ep_port_close, UnrefAndDestroy,
      ep_port_delete, epoll_create, Signal, Completes

(* The driver finishes requests, whoever holds the port.                   *)
LEMMA DriverKeepsPort ==
  ASSUME PortInv, NEW R, R \in SUBSET port.afd, NEW outcome, outcome \in [R -> SUBSET AfdFlags],
         port' = DriverCompletes(port, outcome), UNCHANGED <<pc, taken, listed>>,
         k.broken \subseteq k'.broken
  PROVE  PortInv'
<1>1. PICK p, held, q : p = port /\ held = AllCarried /\ q = port'
  OBVIOUS
<1>2. PortOK(p, held) /\ R \in SUBSET p.afd /\ q = DriverCompletes(p, outcome)
  BY <1>1 DEF PortInv
<1>3. PortOK(q, held) /\ SameUse(p, q) /\ SameSocks(p, q)
  BY <1>2, CompletedOK
<1>4. PacketsOK' /\ AllCarried' = held
  BY <1>1, PacketsKept DEF PortInv
<1>5. Pollers' = Pollers /\ Ending' = Ending /\ Closers' = Closers
  BY DEF Pollers, Ending, Closers, In
<1>6. Settled(q, k')
  BY <1>1, <1>3 DEF PortInv, Settled, SameUse, SameSocks
<1> QED BY <1>1, <1>3, <1>4, <1>5, <1>6 DEF PortInv, SameUse, SameSocks

(* What happens to a socket.                                               *)
LEMMA SocketsKeepPort ==
  ASSUME PortInv, k \in Kernel, NEW h \in SOCKETs,
         Opens(h) \/ Closes(h) \/ Changes(h) \/ Breaks(h) \/ Completes(h)
  PROVE  PortInv'
<1>1. ASSUME UNCHANGED <<pc, taken, port, listed>>, k'.broken = k.broken PROVE PortInv'
  <2>1. Pollers' = Pollers /\ Ending' = Ending /\ Closers' = Closers
    BY <1>1 DEF Pollers, Ending, Closers, In
  <2> QED BY <1>1, <2>1, PortKept DEF PortInv
<1>2. CASE Opens(h) \/ Changes(h)
  <2>1. k'.broken = k.broken
    BY <1>2 DEF Opens, Changes, Kernel
  <2> QED BY <1>1, <1>2, <2>1 DEF Opens, Changes
<1>3. PICK R : R = On(h) /\ R \in SUBSET port.afd
  BY DEF On
<1>4. CASE Closes(h)
  <2>1. PICK outcome : outcome = [r \in R |-> {"LOCAL_CLOSE"}]
    OBVIOUS
  <2>2. outcome \in [R -> SUBSET AfdFlags]
    BY <2>1 DEF AfdFlags
  <2>3. k.broken \subseteq k'.broken
    BY <1>4 DEF Closes, Kernel
  <2>4. port' = DriverCompletes(port, outcome) /\ UNCHANGED <<pc, taken, listed>>
    BY <1>3, <1>4, <2>1 DEF Closes
  <2> QED BY <1>3, <2>2, <2>3, <2>4, DriverKeepsPort
<1>5. CASE Breaks(h)
  <2>1. PICK outcome : outcome = [r \in R |-> {"FAILED"}]
    OBVIOUS
  <2>2. outcome \in [R -> SUBSET AfdFlags]
    BY <2>1 DEF AfdFlags
  <2>3. k.broken \subseteq k'.broken
    BY <1>5 DEF Breaks, Kernel
  <2>4. port' = DriverCompletes(port, outcome) /\ UNCHANGED <<pc, taken, listed>>
    BY <1>3, <1>5, <2>1 DEF Breaks
  <2> QED BY <1>3, <2>2, <2>3, <2>4, DriverKeepsPort
<1>6. CASE Completes(h)
  <2>1. PICK M : M = {r \in R : r.mask \cap k.ready[h] # {}}
    OBVIOUS
  <2>2. PICK outcome : outcome = [r \in M |-> r.mask \cap k.ready[h]]
    OBVIOUS
  <2>3. port.afd \subseteq Request
    BY PortParts DEF PortInv, PortOK, Sound
  <2>4. M \in SUBSET port.afd /\ outcome \in [M -> SUBSET AfdFlags]
    BY <1>3, <2>1, <2>2, <2>3 DEF Request
  <2>5. port' = DriverCompletes(port, outcome) /\ UNCHANGED <<pc, taken, listed>> /\ k' = k
    BY <1>3, <1>6, <2>1, <2>2 DEF Completes
  <2> QED BY <2>4, <2>5, DriverKeepsPort
<1> QED BY <1>2, <1>4, <1>5, <1>6

----------------------------------------------------------------------------
(* The invariant of the calls, and what it says of a port in use.          *)

IInv == Life /\ PortInv /\ k \in Kernel

(* It holds at first.                                                      *)
LEMMA IInvInit == Init => IInv
<1> SUFFICES ASSUME Init PROVE IInv
  OBVIOUS
<1>1. Life
  BY LifeInit
<1>2. Pollers = {} /\ Ending = {} /\ Cardinality(Pollers) = 0
  <2>1. Pollers = {} /\ Ending = {}
    BY DEF Init, Pollers, Ending, In
  <2> QED BY <2>1, FS_EmptySet
<1>3. ASSUME NEW t \in Threads
      PROVE  taken[t] = << >> /\ SocksOf(taken[t]) = {} /\ Apart(taken[t])
  BY DEF Init, SocksOf, ToSet, Apart
<1>4. PacketsOK /\ AllCarried = {}
  <2>1. taken \in [Threads -> Seq(Packet)]
    BY DEF Init
  <2> QED BY <1>3, <2>1 DEF PacketsOK, AllCarried, Carried
<1>5. PortOK(port, AllCarried) /\ port.active = Cardinality(Pollers) /\ port.open
      /\ Settled(port, k) /\ DOMAIN port.sock = {}
  BY <1>2, <1>4, EmptyPortIs DEF Init, Settled
<1>6. k \in Kernel
  BY DEF Init, Kernel
<1> QED BY <1>1, <1>2, <1>4, <1>5, <1>6 DEF IInv, PortInv, Init

(* Every step keeps it.                                                    *)
LEMMA IInvStep ==
  ASSUME IInv, [Next]_vars
  PROVE  IInv'
<1>1. Life /\ PortInv /\ k \in Kernel
  BY DEF IInv
<1>2. Life' /\ k' \in Kernel
  BY <1>1, LifeStep, KernelStep
<1>3. \A t \in Waiters : t \in Threads
  BY DEF Threads
<1>4. \A t \in Callers : t \in Threads
  BY DEF Threads
<1>5. ASSUME NEW t \in Threads,
             \/ reflock_tree_find_and_ref(t) \/ ComesBackEmpty(t)
             \/ reflock_tree_del_and_ref(t) \/ UnrefAndDestroy(t)
      PROVE  PortInv'
  BY <1>1, <1>5, MoveKeepsPort
<1>6. ASSUME NEW t \in Waiters,
             ep_port_wait(t) \/ TakePackets(t) \/ LookAtPackets(t)
      PROVE  PortInv'
  BY <1>1, <1>3, <1>6, WaitKeepsPort, TakeKeepsPort, LookKeepsPort
<1>7. ASSUME NEW t \in Callers, epoll_ctl(t) \/ ep_port_close(t) PROVE PortInv'
  BY <1>1, <1>4, <1>7, CtlKeepsPort, CloseKeepsPort
<1>8. ASSUME NEW t \in Callers, ep_port_delete(t) \/ epoll_create(t) PROVE PortInv'
  BY <1>1, <1>4, <1>8, DeleteKeepsPort, CreateKeepsPort
<1>9. ASSUME NEW t \in Threads, NEW closer \in Callers, Signal(t, closer) PROVE PortInv'
  BY <1>1, <1>4, <1>9, SignalKeepsPort
<1>10. ASSUME NEW h \in SOCKETs,
              Opens(h) \/ Closes(h) \/ Changes(h) \/ Breaks(h) \/ Completes(h)
       PROVE  PortInv'
  BY <1>1, <1>10, SocketsKeepPort
<1>11. ASSUME UNCHANGED vars PROVE PortInv'
  <2>1. Pollers' = Pollers /\ Ending' = Ending /\ Closers' = Closers
    BY <1>11 DEF vars, Pollers, Ending, Closers, In
  <2>2. UNCHANGED <<pc, taken, port, listed, k>>
    BY <1>11 DEF vars
  <2>3. /\ k'.broken = k.broken /\ (Ending' # {} => ~port.open) /\ (listed' => listed)
        /\ (~listed' /\ Closers' = {} => ~listed /\ Closers = {})
        /\ \A t \in Threads : pc[t] = "woken" => pc'[t] = "woken"
    BY <1>1, <2>1, <2>2 DEF PortInv
  <2> QED BY <1>1, <2>1, <2>2, <2>3, PortKept
<1>12. PortInv'
  <2>1. CASE \E t \in Threads : reflock_tree_find_and_ref(t)
    BY <1>5, <2>1
  <2>2. CASE \E t \in Waiters : ep_port_wait(t) \/ TakePackets(t) \/ ComesBackEmpty(t)
                                \/ LookAtPackets(t)
    BY <1>3, <1>5, <1>6, <2>2
  <2>3. CASE \E t \in Callers : \/ epoll_ctl(t) \/ reflock_tree_del_and_ref(t)
                                \/ ep_port_close(t) \/ UnrefAndDestroy(t)
                                \/ ep_port_delete(t) \/ epoll_create(t)
    BY <1>4, <1>5, <1>7, <1>8, <2>3
  <2>4. CASE \E t \in Threads, closer \in Callers : Signal(t, closer)
    BY <1>9, <2>4
  <2>5. CASE \E h \in SOCKETs :
               Opens(h) \/ Closes(h) \/ Changes(h) \/ Breaks(h) \/ Completes(h)
    BY <1>10, <2>5
  <2>6. Next \/ UNCHANGED vars
    OBVIOUS
  <2>7. CASE Next
    BY <2>1, <2>2, <2>3, <2>4, <2>5, <2>7 DEF Next
  <2> QED BY <1>11, <2>6, <2>7
<1> QED BY <1>2, <1>12 DEF IInv

(* An ep_sock is not in two queues.                                        *)
LEMMA QueuesTogether ==
  ASSUME NEW p, p \in Port, Queued(p), NEW both, both = p.update \o p.deleted
  PROVE  IsInjective(both) /\ ToSet(both) \subseteq DOMAIN p.sock
<1>1. PICK u \in Seq(SockIds), d \in Seq(SockIds) : u = p.update /\ d = p.deleted
  BY PortParts
<1>2. PICK m \in Nat, n \in Nat : m = Len(u) /\ n = Len(d)
  BY <1>1, LenProperties
<1>3. DOMAIN u = 1 .. m /\ DOMAIN d = 1 .. n
  BY <1>2, LenProperties
<1>4. /\ both \in Seq(SockIds) /\ Len(both) = m + n
      /\ \A i \in 1 .. m + n : both[i] = IF i <= m THEN u[i] ELSE d[i - m]
  <2>1. u \o d \in Seq(SockIds) /\ Len(u \o d) = Len(u) + Len(d)
        /\ \A i \in 1 .. Len(u) + Len(d) : (u \o d)[i] = IF i <= Len(u) THEN u[i] ELSE d[i - Len(u)]
    BY ConcatProperties
  <2>2. both = u \o d
    BY <1>1
  <2> QED BY <1>2, <2>1, <2>2
<1>5. DOMAIN both = 1 .. m + n
  BY <1>2, <1>4, LenProperties
<1>6. /\ \A i, j \in 1 .. m : u[i] = u[j] => i = j
      /\ \A i, j \in 1 .. n : d[i] = d[j] => i = j
  BY <1>1, <1>3 DEF Queued, IsInjective
<1>7. /\ \A i \in 1 .. m : u[i] \in DOMAIN p.sock /\ ~p.sock[u[i]].delete_pending
      /\ \A i \in 1 .. n : d[i] \in DOMAIN p.sock /\ p.sock[d[i]].delete_pending
  BY <1>1, <1>3 DEF Queued, ToSet
<1>8. ASSUME NEW i \in 1 .. m + n
      PROVE  \/ i \in 1 .. m /\ both[i] = u[i]
             \/ i - m \in 1 .. n /\ i = (i - m) + m /\ both[i] = d[i - m]
  <2>1. CASE i <= m
    <3>1. i \in 1 .. m
      BY <2>1
    <3> QED BY <1>4, <2>1, <3>1
  <2>2. CASE ~(i <= m)
    <3>1. i - m \in 1 .. n /\ i = (i - m) + m
      BY <2>2
    <3> QED BY <1>4, <2>2, <3>1
  <2> QED BY <2>1, <2>2
<1>9. ToSet(both) \subseteq DOMAIN p.sock
  <2>1. ASSUME NEW i \in 1 .. m + n PROVE both[i] \in DOMAIN p.sock
    BY <1>7, <1>8
  <2> QED BY <1>5, <2>1 DEF ToSet
<1>10. ASSUME NEW i \in 1 .. m + n, NEW j \in 1 .. m + n, both[i] = both[j]
       PROVE  i = j
  <2>1. CASE i \in 1 .. m /\ both[i] = u[i] /\ j \in 1 .. m /\ both[j] = u[j]
    BY <1>6, <1>10, <2>1
  <2>2. CASE /\ i - m \in 1 .. n /\ i = (i - m) + m /\ both[i] = d[i - m]
             /\ j - m \in 1 .. n /\ j = (j - m) + m /\ both[j] = d[j - m]
    <3>1. i - m = j - m
      BY <1>6, <1>10, <2>2
    <3> QED BY <2>2, <3>1
  <2> QED BY <1>7, <1>8, <1>10, <2>1, <2>2
<1> QED BY <1>5, <1>9, <1>10 DEF IsInjective

(* A set of one packet or none.                                            *)
LEMMA OneOrNone ==
  ASSUME NEW S
  PROVE  /\ S = {} => Cardinality(S) = 0
         /\ \A x : S = {x} => Cardinality(S) = 1
<1>1. S = {} => Cardinality(S) = 0
  BY FS_EmptySet
<1>2. \A x : S = {x} => Cardinality(S) = 1
  BY FS_Singleton
<1> QED BY <1>1, <1>2

(* The queues, the counter of those who wait and the port's being open are *)
(* in order in every state: no ep_sock is queued twice, none that is freed *)
(* is queued, and epoll_wait's count of waiters is exact, which decides    *)
(* whether epoll_ctl submits a poll itself.                                *)
THEOREM PortTypeOK == Spec => []TypeOK
<1>1. IInv => TypeOK
  <2> SUFFICES ASSUME IInv PROVE TypeOK
    OBVIOUS
  <2>1. Life /\ PortInv
    BY DEF IInv
  <2>2. PICK p, both : p = port /\ both = p.update \o p.deleted
    OBVIOUS
  <2>3. p \in Port /\ Queued(p)
    BY <2>1, <2>2 DEF PortInv, PortOK, Sound
  <2>4. IsInjective(both) /\ ToSet(both) \subseteq DOMAIN p.sock
    BY <2>2, <2>3, QueuesTogether
  <2>5. DOMAIN p.sock \subseteq SockIds /\ DOMAIN p.tree \subseteq SOCKETs
    BY <2>3, PortParts
  <2>6. p.active = Cardinality({t \in Threads : pc[t] \in {"polling", "woken"}})
    BY <2>1, <2>2 DEF PortInv, Pollers, In
  <2>7. pc \in [Threads -> {"idle", "inside", "polling", "woken", "signalling",
                            "closing", "dropping", "awaiting", "alone"}]
    BY <2>1 DEF Life, Steps
  <2>8. listed => p.open
    BY <2>1, <2>2 DEF PortInv
  <2> QED BY <2>2, <2>4, <2>5, <2>6, <2>7, <2>8 DEF TypeOK
<1> QED BY <1>1, IInvInit, IInvStep, PTL DEF Spec

(* A registered socket is found under its own handle and never left        *)
(* without someone who looks after it, and a deleted ep_sock waits to be   *)
(* freed and can be found no more: whatever the calls, the sockets and the *)
(* driver do, and in any order.                                            *)
THEOREM PortForgetsNobody == Spec => []NobodyForgotten
<1>1. IInv => NobodyForgotten
  <2> SUFFICES ASSUME IInv PROVE NobodyForgotten
    OBVIOUS
  <2>1. PICK p, held : p = port /\ PortOK(p, held)
    BY DEF IInv, PortInv
  <2>2. ASSUME NEW id \in DOMAIN p.sock, p.sock[id].delete_pending
        PROVE  /\ id \notin Range(p.tree) /\ id \in ToSet(p.deleted)
               /\ p.sock[id].poll_status # PENDING
    <3>1. Attended(p, id) /\ Listed(p)
      BY <2>1 DEF PortOK, AllAttended, Sound
    <3>2. id \notin Range(p.tree)
      BY <2>2, <3>1 DEF Listed, Range
    <3> QED BY <2>2, <3>1, <3>2 DEF Attended, CANCELLED, PENDING
  <2>3. ASSUME NEW id \in DOMAIN p.sock, ~p.sock[id].delete_pending
        PROVE  /\ Registered(p, p.sock[id].socket) /\ p.tree[p.sock[id].socket] = id
               /\ \/ id \in ToSet(p.update)
                  \/ p.sock[id].poll_status = CANCELLED
                  \/ p.sock[id].poll_status = PENDING /\ Unwatched(p.sock[id]) = {}
    BY <2>1, <2>3 DEF PortOK, AllAttended, Attended, Sound, Listed
  <2> QED BY <2>1, <2>2, <2>3 DEF NobodyForgotten
<1> QED BY <1>1, IInvInit, IInvStep, PTL DEF Spec

(* While a thread waits every socket that needs a new poll has it, unless  *)
(* the driver refused one: nobody has to wake the waiter for it.           *)
THEOREM PortWakesWaiters == Spec => []NoLostWakeup
<1>1. IInv => NoLostWakeup
  BY DEF IInv, PortInv, Settled, NoLostWakeup
<1> QED BY <1>1, IInvInit, IInvStep, PTL DEF Spec

(* The poll groups count their users, and those that are full come first,  *)
(* for any size of the groups and any order of registrations.              *)
THEOREM PortPacksGroups == Spec => []GroupsPacked
<1>1. IInv => GroupsPacked
  <2> SUFFICES ASSUME IInv PROVE GroupsPacked
    OBVIOUS
  <2>1. PICK p, held : p = port /\ PortOK(p, held)
    BY DEF IInv, PortInv
  <2>2. Grouped(p)
    BY <2>1 DEF PortOK, Sound
  <2> QED BY <2>1, <2>2 DEF Grouped, GroupsOK, Packed, UsersOf, GroupsPacked
<1> QED BY <1>1, IInvInit, IInvStep, PTL DEF Spec

(* What the driver may still write to, and what its packets point at, is   *)
(* allocated, in exactly one place for every poll that is not over; and a  *)
(* port that is deleted leaves no ep_sock behind.                          *)
THEOREM PortKeepsDriversMemory == Spec => []KernelHoldsLiveMemory
<1>1. IInv => KernelHoldsLiveMemory
  <2> SUFFICES ASSUME IInv PROVE KernelHoldsLiveMemory
    OBVIOUS
  <2>1. Life /\ PacketsOK /\ PortInv
    BY DEF IInv, PortInv
  <2>2. PICK p, held : p = port /\ held = AllCarried
    OBVIOUS
  <2>3. PortOK(p, held) /\ Owed(p, held)
    BY <2>1, <2>2 DEF PortInv, PortOK, Sound
  <2>4. ASSUME NEW w \in Waiting
        PROVE  \/ \E i \in DOMAIN p.iocp : w = <<"iocp", i, p.iocp[i]>>
               \/ \E t \in Threads : \E i \in DOMAIN taken[t] : w = <<t, i, taken[t][i]>>
    BY <2>2 DEF Waiting
  <2>5. /\ \A i \in DOMAIN p.iocp : p.iocp[i].sock \in Arrived(p)
        /\ \A t \in Threads : \A i \in DOMAIN taken[t] :
             taken[t][i].sock \in Carried(t) /\ taken[t][i].sock \in held
    BY <2>2 DEF Arrived, AllCarried, Carried, SocksOf, ToSet
  <2>6. ASSUME NEW w \in Waiting PROVE w[3].sock \in Arrived(p) \cup held
    BY <2>4, <2>5
  <2>7. Requested(p) \cup Arrived(p) \cup held \subseteq DOMAIN p.sock
    BY <2>3 DEF Owed, Polled
  <2>8. {r.sock : r \in p.afd} \cup {w[3].sock : w \in Waiting} \subseteq DOMAIN p.sock
    BY <2>6, <2>7 DEF Requested
  <2>9. ASSUME NEW id \in DOMAIN p.sock, p.open
        PROVE  OwedTo(id) = IF p.sock[id].poll_status = IDLE THEN 0 ELSE 1
    <3>1. PICK R, W : R = HeldBy(p, id) /\ W = {w \in Waiting : w[3].sock = id}
      OBVIOUS
    <3>2. id \notin Requested(p) => R = {}
      BY <3>1 DEF HeldBy, Requested
    <3>3. id \notin Arrived(p) \cup held => W = {}
      BY <2>6, <3>1
    <3>4. ASSUME id \in Requested(p) PROVE \E x : R = {x}
      <4>1. PICK r \in p.afd : r.sock = id
        BY <3>4 DEF Requested
      <4>2. R = {r}
        BY <2>3, <3>1, <4>1 DEF Owed, HeldBy
      <4> QED BY <4>2
    <3>5. ASSUME id \in Arrived(p) PROVE \E x : W = {x}
      <4>1. PICK i \in DOMAIN p.iocp : p.iocp[i].sock = id
        BY <3>5 DEF Arrived, ToSet
      <4>2. PICK x : x = <<"iocp", i, p.iocp[i]>>
        OBVIOUS
      <4>3. x \in W
        BY <2>2, <3>1, <4>1, <4>2 DEF Waiting
      <4>4. id \notin held
        BY <2>3, <3>5 DEF Owed
      <4>5. ASSUME NEW w \in W PROVE w = x
        <5>1. w \in Waiting /\ w[3].sock = id
          BY <3>1
        <5>2. PICK j \in DOMAIN p.iocp : w = <<"iocp", j, p.iocp[j]>>
          BY <2>4, <2>5, <4>4, <5>1
        <5>3. p.iocp[j].sock = id
          BY <5>1, <5>2
        <5>4. i = j
          BY <2>3, <4>1, <5>3 DEF Owed
        <5> QED BY <4>2, <5>2, <5>4
      <4>6. W = {x}
        BY <4>3, <4>5
      <4> QED BY <4>6
    <3>6. ASSUME id \in held PROVE \E x : W = {x}
      <4>1. PICK t \in Threads : id \in Carried(t)
        BY <2>2, <3>6 DEF AllCarried
      <4>2. PICK i \in DOMAIN taken[t] : taken[t][i].sock = id
        BY <4>1 DEF Carried, SocksOf, ToSet
      <4>3. PICK x : x = <<t, i, taken[t][i]>>
        OBVIOUS
      <4>4. x \in W
        BY <3>1, <4>2, <4>3 DEF Waiting
      <4>5. id \notin Arrived(p)
        BY <2>3, <3>6 DEF Owed
      <4>6. ASSUME NEW w \in W PROVE w = x
        <5>1. w \in Waiting /\ w[3].sock = id
          BY <3>1
        <5>2. PICK s \in Threads : \E j \in DOMAIN taken[s] : w = <<s, j, taken[s][j]>>
          BY <2>4, <2>5, <4>5, <5>1
        <5>3. PICK j \in DOMAIN taken[s] : w = <<s, j, taken[s][j]>>
          BY <5>2
        <5>4. taken[s][j].sock = id
          BY <5>1, <5>3
        <5>5. id \in Carried(s)
          BY <2>5, <5>4
        <5>6. s = t
          BY <2>1, <4>1, <5>5 DEF PacketsOK
        <5>7. i = j
          BY <2>1, <4>2, <5>4, <5>6 DEF PacketsOK, Apart
        <5> QED BY <4>3, <5>3, <5>6, <5>7
      <4>7. W = {x}
        BY <4>4, <4>6
      <4> QED BY <4>7
    <3>7. OwedTo(id) = Cardinality(R) + Cardinality(W)
      BY <2>2, <3>1 DEF OwedTo
    <3>8. CASE p.sock[id].poll_status = IDLE
      <4>1. id \notin Requested(p) \cup Arrived(p) \cup held
        BY <2>3, <3>8 DEF Owed, Polled
      <4>2. Cardinality(R) = 0 /\ Cardinality(W) = 0
        BY <3>2, <3>3, <4>1, OneOrNone
      <4> QED BY <3>7, <3>8, <4>2
    <3>9. CASE p.sock[id].poll_status # IDLE
      <4>1. id \in Requested(p) \cup Arrived(p) \cup held
        BY <2>3, <2>9, <3>9 DEF Owed, Polled
      <4>2. id \in Requested(p) => id \notin Arrived(p) \cup held
        BY <2>3 DEF Owed
      <4>3. CASE id \in Requested(p)
        <5>1. Cardinality(R) = 1 /\ Cardinality(W) = 0
          BY <3>3, <3>4, <4>2, <4>3, OneOrNone
        <5> QED BY <3>7, <3>9, <5>1
      <4>4. CASE id \notin Requested(p)
        <5>1. Cardinality(R) = 0 /\ Cardinality(W) = 1
          BY <3>2, <3>5, <3>6, <4>1, <4>4, OneOrNone
        <5> QED BY <3>7, <3>9, <5>1
      <4> QED BY <4>3, <4>4
    <3> QED BY <3>8, <3>9
  <2>10. ~Live => DOMAIN p.sock = {}
    <3> SUFFICES ASSUME ~Live PROVE DOMAIN p.sock = {}
      OBVIOUS
    <3>1. ~listed /\ Closers = {}
      BY <2>1, GoneIs DEF Gone
    <3> QED BY <2>1, <2>2, <3>1 DEF PortInv
  <2> QED BY <2>2, <2>8, <2>9, <2>10 DEF KernelHoldsLiveMemory
<1> QED BY <1>1, IInvInit, IInvStep, PTL DEF Spec
==============================================================================
