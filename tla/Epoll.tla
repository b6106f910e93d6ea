------------------------------- MODULE Epoll -------------------------------
(***************************************************************************)
(* wepoll's API: epoll_create, epoll_ctl, epoll_wait and epoll_close on    *)
(* one port, called by any number of threads, as its locks provide for.    *)
(* (The server has one thread and never closes its port; EventLoop uses    *)
(* the same operations that way.)                                          *)
(*                                                                         *)
(* A call takes a reference, does its work under the port's lock, and      *)
(* gives the reference back.  epoll_wait leaves the lock while it waits    *)
(* for a completion packet, and takes it again to look at the packets.     *)
(* Between the lock and the reference it gives back a call touches nothing *)
(* shared, so one step does both.                                          *)
(***************************************************************************)
EXTENDS EpSock, Reflock

CONSTANTS
  Waiters,     \* threads that call epoll_wait in a loop
  Callers,     \* threads that make the other calls
  Masks,       \* event masks given to epoll_ctl
  States,      \* conditions a socket can be in
  Fragile,     \* sockets whose polls the driver may come to refuse
  MaxEvents    \* maxevents of epoll_wait

Threads == Waiters \cup Callers

\* The reflock has 28 bits to count threads in.
ASSUME ThreadsAssumption == IsFiniteSet(Threads) /\ Cardinality(Threads) < _DESTROY

ASSUME EventsAssumption == Masks \subseteq SUBSET STRING /\ MaxEvents \in Nat \ {0}

VARIABLES
  pc,       \* where each thread is
  taken,    \* the packets its epoll_wait has taken
  told,     \* the sockets its last epoll_wait returned events of
  port,     \* the port, see EpSock
  listed,   \* is its handle in _epoll_handle_tree?
  state,    \* its reflock
  k         \* the kernel's sockets: k.open, k.broken, k.ready

vars == <<pc, taken, told, port, listed, state, k>>

Goes(t, from, to) == pc[t] = from /\ pc' = [pc EXCEPT ![t] = to]

Init ==
  /\ pc = [t \in Threads |-> "idle"]
  /\ taken = [t \in Threads |-> << >>]
  /\ told = [t \in Threads |-> {}]
  /\ port = EmptyPort
  /\ listed = TRUE
  /\ state = reflock_init
  /\ k = [open |-> {}, broken |-> {}, ready |-> [h \in SOCKETs |-> {}]]

----------------------------------------------------------------------------
(* Getting hold of the port                                                *)

\* Seeded mistake: the port is used without a reference.
FindWithoutRef(t) ==
  /\ Goes(t, "idle", "inside")
  /\ listed
  /\ told' = [told EXCEPT ![t] = {}]
  /\ UNCHANGED <<taken, port, listed, state, k>>

reflock_tree_find_and_ref(t) ==
  /\ Goes(t, "idle", "inside")
  /\ listed
  /\ state' = reflock_ref(state)
  /\ told' = [told EXCEPT ![t] = {}]
  /\ UNCHANGED <<taken, port, listed, k>>

\* Seeded mistake: the last thread out wakes nobody.
UnrefSilently(t) ==
  /\ state' = reflock_unref(state)
  /\ pc' = [pc EXCEPT ![t] = "idle"]

reflock_tree_node_unref(t) ==
  /\ state' = reflock_unref(state)
  /\ pc' = [pc EXCEPT ![t] = IF Signals(state) THEN "signalling" ELSE "idle"]

\* A keyed event hands over: the one who signals waits for the one who awaits.
Signal(t, closer) ==
  /\ pc[t] = "signalling" /\ pc[closer] = "awaiting"
  /\ pc' = [pc EXCEPT ![t] = "idle", ![closer] = "alone"]
  /\ UNCHANGED <<taken, told, port, listed, state, k>>

----------------------------------------------------------------------------
(* epoll_ctl                                                               *)

Event(h, mask) == [events |-> mask, data |-> h]

epoll_ctl(t) ==
  /\ pc[t] = "inside"
  /\ \E h \in SOCKETs :
       \/ \E mask \in Masks :
            \/ h \in k.open /\ port' = _ep_port_ctl_add(port, k, h, Event(h, mask))
            \/ port' = _ep_port_ctl_mod(port, k, h, Event(h, mask))
       \/ port' = _ep_port_ctl_del(port, h)
  /\ reflock_tree_node_unref(t)
  /\ UNCHANGED <<taken, told, listed, k>>

----------------------------------------------------------------------------
(* epoll_wait                                                              *)

Return(t, p) ==
  /\ port' = _ep_port_update_events_if_polling(p, k)
  /\ reflock_tree_node_unref(t)

\* _ep_port_poll up to the wait, on port p; a socket that is refused ends
\* the call.
Poll(t, p) ==
  LET updated == _ep_port_update_events(p, k)
  IN  \/ ~updated.ok /\ Return(t, updated.port)
      \/ /\ updated.ok
         /\ port' = [updated.port EXCEPT !.active = @ + 1]
         /\ pc' = [pc EXCEPT ![t] = "polling"]
         /\ UNCHANGED state

ep_port_wait(t) ==
  /\ pc[t] = "inside"
  /\ Poll(t, port)
  /\ UNCHANGED <<taken, told, listed, k>>

\* GetQueuedCompletionStatusEx hands out packets, ...
TakePackets(t) ==
  /\ Goes(t, "polling", "woken")
  /\ port.iocp # << >>
  /\ LET n == Min({MaxEvents, Len(port.iocp)})
     IN  /\ taken' = [taken EXCEPT ![t] = SubSeq(port.iocp, 1, n)]
         /\ port' = [port EXCEPT !.iocp = SubSeq(@, n + 1, Len(@))]
  /\ UNCHANGED <<told, listed, state, k>>

\* ... or times out, or finds the completion port closed.
ComesBackEmpty(t) ==
  /\ Goes(t, "polling", "woken")
  /\ port.iocp = << >>
  /\ UNCHANGED <<taken, told, port, listed, state, k>>

Abandoned(t) == ~port.open /\ ComesBackEmpty(t)

\* The thread has the lock again: it feeds what it took, and goes on when
\* nothing of it is worth reporting and there is time left.
Relocked == [port EXCEPT !.active = @ - 1]
Fed(t)   == _ep_port_feed_events(Relocked, taken[t])

LookAtPackets(t) ==
  /\ pc[t] = "woken"
  /\ \/ taken[t] = << >> /\ Return(t, Relocked)
     \/ taken[t] # << >> /\ Return(t, Fed(t).port)
     \/ taken[t] # << >> /\ Fed(t).events = << >> /\ Poll(t, Fed(t).port)
  /\ taken' = [taken EXCEPT ![t] = << >>]
  /\ told' = [told EXCEPT ![t] = {e.data : e \in ToSet(Fed(t).events)}]
  /\ UNCHANGED <<listed, k>>

----------------------------------------------------------------------------
(* epoll_close and epoll_create                                            *)

reflock_tree_del_and_ref(t) ==
  /\ Goes(t, "idle", "closing")
  /\ listed
  /\ listed' = FALSE
  /\ state' = reflock_ref(state)
  /\ UNCHANGED <<taken, told, port, k>>

\* Seeded mistake: the completion port stays open, waiters are not woken.
CloseNothing(t) ==
  /\ Goes(t, "closing", "dropping")
  /\ UNCHANGED <<taken, told, port, listed, state, k>>

ep_port_close(t) ==
  /\ Goes(t, "closing", "dropping")
  /\ port' = [port EXCEPT !.open = FALSE, !.iocp = << >>]
  /\ UNCHANGED <<taken, told, listed, state, k>>

UnrefAndDestroy(t) ==
  /\ Goes(t, "dropping",
          IF RefCount(reflock_unref_and_destroy(state)) # 0 THEN "awaiting" ELSE "alone")
  /\ state' = reflock_unref_and_destroy(state)
  /\ UNCHANGED <<taken, told, port, listed, k>>

\* All the memory goes; what the driver still holds of it would dangle.
ep_port_delete(t) ==
  /\ Goes(t, "alone", "idle")
  /\ state' = _POISON
  /\ port' = AllForceDeleted(port)
  /\ UNCHANGED <<taken, told, listed, k>>

epoll_create(t) ==
  /\ Goes(t, "idle", "idle")
  /\ state = _POISON
  /\ port' = EmptyPort
  /\ listed' = TRUE
  /\ state' = reflock_init
  /\ UNCHANGED <<taken, told, k>>

----------------------------------------------------------------------------
(* Sockets and their driver                                                *)

On(h) == {r \in port.afd : port.sock[r.sock].socket = h}

Opens(h) ==
  /\ h \notin k.open
  /\ k' = [k EXCEPT !.open = @ \cup {h}]
  /\ UNCHANGED <<pc, taken, told, port, listed, state>>

\* closesocket, which tells the driver.
Closes(h) ==
  /\ h \in k.open
  /\ k' = [k EXCEPT !.open = @ \ {h}, !.ready[h] = {}]
  /\ port' = DriverCompletes(port, [r \in On(h) |-> {"LOCAL_CLOSE"}])
  /\ UNCHANGED <<pc, taken, told, listed, state>>

Changes(h) ==
  /\ h \in k.open
  /\ \E conditions \in States \ {k.ready[h]} : k' = [k EXCEPT !.ready[h] = conditions]
  /\ UNCHANGED <<pc, taken, told, port, listed, state>>

\* Bound: only the Fragile ones, and for good.
Breaks(h) ==
  /\ h \in Fragile \ k.broken
  /\ k' = [k EXCEPT !.broken = @ \cup {h}]
  /\ port' = DriverCompletes(port, [r \in On(h) |-> {"FAILED"}])
  /\ UNCHANGED <<pc, taken, told, listed, state>>

\* The driver completes a poll whose condition holds.
Completes(h) ==
  LET Met(r) == r.mask \cap k.ready[h]
      R      == {r \in On(h) : Met(r) # {}}
  IN  /\ R # {}
      /\ port' = DriverCompletes(port, [r \in R |-> Met(r)])
      /\ UNCHANGED <<pc, taken, told, listed, state, k>>

----------------------------------------------------------------------------
Next ==
  \/ \E t \in Threads : reflock_tree_find_and_ref(t)
  \/ \E t \in Waiters : ep_port_wait(t) \/ TakePackets(t) \/ ComesBackEmpty(t) \/ LookAtPackets(t)
  \/ \E t \in Callers : \/ epoll_ctl(t) \/ reflock_tree_del_and_ref(t) \/ ep_port_close(t)
                        \/ UnrefAndDestroy(t) \/ ep_port_delete(t) \/ epoll_create(t)
  \/ \E t \in Threads, closer \in Callers : Signal(t, closer)
  \/ \E h \in SOCKETs : Opens(h) \/ Closes(h) \/ Changes(h) \/ Breaks(h) \/ Completes(h)

\* A thread inside a call goes on, the driver completes what it can, and a
\* waiter calls again.  GetQueuedCompletionStatusEx comes back when there is a
\* packet or the completion port is closed; nothing is assumed of timeouts.
Fairness ==
  /\ \A t \in Waiters : /\ WF_vars(reflock_tree_find_and_ref(t))
                        /\ WF_vars(\/ ep_port_wait(t) \/ TakePackets(t)
                                   \/ Abandoned(t) \/ LookAtPackets(t))
  /\ \A t \in Callers : WF_vars(\/ epoll_ctl(t) \/ ep_port_close(t)
                                \/ UnrefAndDestroy(t) \/ ep_port_delete(t))
  /\ \A t \in Threads : WF_vars(\E closer \in Callers : Signal(t, closer))
  /\ \A h \in SOCKETs : WF_vars(Completes(h))

Spec == Init /\ [][Next]_vars /\ Fairness

----------------------------------------------------------------------------
(* Properties                                                              *)

Live == state # _POISON

\* The packets nobody has fed yet, each with where it waits.
Waiting ==
  {<<"iocp", i, port.iocp[i]>> : i \in DOMAIN port.iocp}
    \cup UNION {{<<t, i, taken[t][i]>> : i \in DOMAIN taken[t]} : t \in Threads}

OwedTo(id) ==
  Cardinality(HeldBy(port, id)) + Cardinality({w \in Waiting : w[3].sock = id})

TypeOK ==
  /\ pc \in [Threads -> {"idle", "inside", "polling", "woken", "signalling",
                         "closing", "dropping", "awaiting", "alone"}]
  /\ DOMAIN port.sock \subseteq SockIds /\ DOMAIN port.tree \subseteq SOCKETs
  /\ IsInjective(port.update \o port.deleted)
  /\ ToSet(port.update \o port.deleted) \subseteq DOMAIN port.sock
  /\ port.active = Cardinality({t \in Threads : pc[t] \in {"polling", "woken"}})
  /\ listed => port.open

(* The driver writes into an ep_sock as long as it holds its poll, and the *)
(* completion packet carries the ep_sock's address: neither outlives the   *)
(* ep_sock, however it is deleted, and no ep_sock has two polls.  When the *)
(* port is deleted every ep_sock goes, also those that waited for packets. *)
KernelHoldsLiveMemory ==
  /\ {r.sock : r \in port.afd} \cup {w[3].sock : w \in Waiting} \subseteq DOMAIN port.sock
  /\ \A id \in DOMAIN port.sock : port.open =>
       OwedTo(id) = IF port.sock[id].poll_status = IDLE THEN 0 ELSE 1
  /\ ~Live => DOMAIN port.sock = {}

(* A registered socket is found under its own handle and is never left     *)
(* without someone looking after it: its poll watches for all the user     *)
(* wants, or it queues for another one.  A deleted ep_sock that could not  *)
(* be freed queues for that and can be found no more.                      *)
NobodyForgotten ==
  \A id \in DOMAIN port.sock :
    LET s == port.sock[id]
    IN  IF s.delete_pending
        THEN /\ id \notin Range(port.tree) /\ id \in ToSet(port.deleted)
             /\ s.poll_status # PENDING
        ELSE /\ Registered(port, s.socket) /\ port.tree[s.socket] = id
             /\ \/ id \in ToSet(port.update)
                \/ s.poll_status = CANCELLED
                \/ s.poll_status = PENDING /\ Unwatched(s) = {}

(* While some thread waits for packets, a socket that needs a new poll has *)
(* it submitted by whoever made it need one: nobody would wake the waiter  *)
(* to do it.  Only a poll the driver refuses leaves sockets in the queue.  *)
NoLostWakeup ==
  port.active > 0 /\ k.broken = {} => port.update = << >>

(* The poll groups count the ep_socks that use them, and only the last in  *)
(* the queue is ever looked at: another one that has room is found by no   *)
(* registration until the ones behind it are full.                         *)
GroupsPacked ==
  /\ \A g \in ToSet(port.groups) :
       g.size = Cardinality({id \in DOMAIN port.sock : port.sock[id].poll_group = g.id})
  /\ \A i \in 1 .. Len(port.groups) - 1 :
       IsFull(port.groups[i + 1]) => IsFull(port.groups[i])

(* The port is taken apart by the thread that closed it alone: nobody is   *)
(* inside a call on it, nor about to signal through its reflock.           *)
PortOutlivesCalls ==
  (\E t \in Threads : pc[t] = "alone") \/ ~Live =>
    \A t \in Threads : pc[t] \in {"idle", "alone"}

(* epoll_close returns although threads are inside epoll_wait without a    *)
(* timeout: closing the completion port wakes them, and the last one out   *)
(* wakes the one that closes.                                              *)
CloseReturns ==
  \A t \in Callers : pc[t] = "closing" ~> pc[t] = "idle"

Wanted(h) ==
  /\ listed /\ h \in k.open /\ Registered(port, h)
  /\ _afd_events_to_epoll_events(k.ready[h]) \cap port.sock[port.tree[h]].user_events # {}

(* A socket that stays ready for what it is registered for is reported, by *)
(* a thread that keeps calling epoll_wait and whatever the other sockets   *)
(* and callers do, as long as the driver refuses nobody.                   *)
ReadyIsReported ==
  [](k.broken = {}) =>
    \A h \in SOCKETs : []<>(Wanted(h) => \E t \in Waiters : h \in told[t])
=============================================================================
