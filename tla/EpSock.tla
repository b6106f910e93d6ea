------------------------------- MODULE EpSock -------------------------------
(***************************************************************************)
(* wepoll's ep_port and ep_sock: epoll on top of the Windows socket driver *)
(* (AFD) and an I/O completion port.  Every operation here runs under the  *)
(* lock of the port, so each is a function from a port to a port.          *)
(*                                                                         *)
(* A port is a record:                                                     *)
(*   sock      the allocated ep_socks, by id                               *)
(*   tree      sock_tree: from a SOCKET handle to its ep_sock              *)
(*   update, deleted   the two queues of ep_socks                          *)
(*   groups    the poll groups                                             *)
(*   active    active_poll_count                                           *)
(*   iocp      the completion packets nobody has taken yet                 *)
(*   afd       the poll requests the driver holds, each with its mask      *)
(* The last two belong to the kernel: the driver holds a pointer into the  *)
(* ep_sock from the moment a poll is submitted until its completion packet *)
(* has been handed out.                                                    *)
(*                                                                         *)
(* The kernel's view of the sockets is the record k: the handles that are  *)
(* open, those whose polls the driver refuses, and the condition of each.  *)
(***************************************************************************)
EXTENDS PollGroup, FiniteSetsExt

CONSTANTS
  SOCKETs,     \* handle values
  SockIds      \* addresses an ep_sock can have

ASSUME SockIdsAssumption == IsFiniteSet(SockIds)

\* FoldLeft, written so that TLC evaluates every intermediate result once, also
\* where it looks at whole actions (ENABLED and fairness).
Through(Op(_, _), start, seq) ==
  LET after[i \in 0 .. Len(seq)] ==
        IF i = 0 THEN start
        ELSE CHOOSE r \in {Op(before, seq[i]) : before \in {after[i - 1]}} : TRUE
  IN  after[Len(seq)]

\* poll_status
IDLE      == "_POLL_IDLE"
PENDING   == "_POLL_PENDING"
CANCELLED == "_POLL_CANCELLED"

----------------------------------------------------------------------------
(* Event masks, as sets of flags                                           *)

_KNOWN_EPOLL_EVENTS ==
  {"EPOLLIN", "EPOLLPRI", "EPOLLOUT", "EPOLLERR", "EPOLLHUP", "EPOLLRDNORM",
   "EPOLLRDBAND", "EPOLLWRNORM", "EPOLLWRBAND", "EPOLLRDHUP"}

AlwaysReported == {"EPOLLERR", "EPOLLHUP"}

\* The flags that make the driver watch a condition, and those the condition
\* is reported as.
AsksFor(condition) ==
  CASE condition \in {"RECEIVE", "ACCEPT"} -> {"EPOLLIN", "EPOLLRDNORM"}
    [] condition = "RECEIVE_EXPEDITED"     -> {"EPOLLPRI", "EPOLLRDBAND"}
    [] condition \in {"SEND", "CONNECT"}   -> {"EPOLLOUT", "EPOLLWRNORM", "EPOLLWRBAND"}
    [] condition = "DISCONNECT"            -> {"EPOLLIN", "EPOLLRDNORM", "EPOLLRDHUP"}
    [] condition = "ABORT"                 -> {"EPOLLHUP"}
    [] condition = "CONNECT_FAIL"          -> {"EPOLLERR"}

Conditions == {"RECEIVE", "ACCEPT", "RECEIVE_EXPEDITED", "SEND", "CONNECT",
               "DISCONNECT", "ABORT", "CONNECT_FAIL"}

\* Always watch for AFD_POLL_LOCAL_CLOSE.
_epoll_events_to_afd_events(events) ==
  {"LOCAL_CLOSE"} \cup {c \in Conditions : AsksFor(c) \cap events # {}}

_afd_events_to_epoll_events(afd_events) == UNION {AsksFor(c) : c \in afd_events}

\* What the user asked for and no poll is watching.
Unwatched(s) == (s.user_events \cap _KNOWN_EPOLL_EVENTS) \ s.pending_events

----------------------------------------------------------------------------
(* Queues: an ep_sock has one queue_node, so it is in at most one queue.   *)

Enqueued(p, id) == id \in ToSet(p.update) \cup ToSet(p.deleted)

\* Seeded mistake: a socket that queues already is appended once more.
AppendUpdate(p, id) == [p EXCEPT !.update = Append(@, id)]

ep_port_request_socket_update(p, id) ==
  IF Enqueued(p, id) THEN p ELSE [p EXCEPT !.update = Append(@, id)]

\* queue_remove, for ep_port_cancel_socket_update and
\* ep_port_remove_deleted_socket alike.
Dequeued(p, id) ==
  [p EXCEPT !.update = RemoveFirst(@, id), !.deleted = RemoveFirst(@, id)]

ep_port_add_deleted_socket(p, id) ==
  IF Enqueued(p, id) THEN p ELSE [p EXCEPT !.deleted = Append(@, id)]

----------------------------------------------------------------------------
(* Poll requests                                                           *)

Completion(id, outcome) == [sock |-> id, outcome |-> outcome]

HeldBy(p, id) == {r \in p.afd : r.sock = id}

SetPoll(p, id, status, events) ==
  [p EXCEPT !.sock[id].poll_status = status, !.sock[id].pending_events = events]

\* The driver finishes the requests outcome is defined for; a closed completion
\* port loses them.
DriverCompletes(p, outcome) ==
  [p EXCEPT !.afd = @ \ DOMAIN outcome,
            !.iocp = IF p.open
                     THEN @ \o SetToSeq({Completion(r.sock, outcome[r]) : r \in DOMAIN outcome})
                     ELSE @]

\* _poll_req_submit on a handle that is open: a condition that holds already
\* completes the request at once.
_poll_req_submit(p, k, id) ==
  LET request == [sock |-> id, mask |-> _epoll_events_to_afd_events(p.sock[id].user_events)]
      now     == request.mask \cap k.ready[p.sock[id].socket]
      held    == [SetPoll(p, id, PENDING, p.sock[id].user_events) EXCEPT !.afd = @ \cup {request}]
  IN  IF now = {} THEN held ELSE DriverCompletes(held, [r \in {request} |-> now])

\* A request that has completed already is not found, which is no error.
_ep_sock_cancel_poll(p, id) ==
  SetPoll(DriverCompletes(p, [r \in HeldBy(p, id) |-> {}]), id, CANCELLED, {})

----------------------------------------------------------------------------
(* Sockets                                                                 *)

Unlisted(p, id) ==
  [p EXCEPT !.tree = [h \in DOMAIN @ \ {p.sock[id].socket} |-> @[h]],
            !.sock[id].delete_pending = TRUE]

\* The socket is not polled any more.
Unregistered(p, id) ==
  LET idle == IF p.sock[id].poll_status = PENDING THEN _ep_sock_cancel_poll(p, id) ELSE p
  IN  Unlisted(Dequeued(idle, id), id)

Forgotten(p, id) ==
  [p EXCEPT !.groups = Release(@, p.sock[id].poll_group),
            !.sock = [i \in DOMAIN @ \ {id} |-> @[i]]]

Freed(p, id) == Forgotten(Dequeued(p, id), id)

\* Seeded mistake: freed at once, also when the driver still owes a completion.
DeleteAtOnce(p, id, force) ==
  Freed(IF p.sock[id].delete_pending THEN p ELSE Unregistered(p, id), id)

_ep_sock_delete(p, id, force) ==
  LET gone == IF p.sock[id].delete_pending THEN p ELSE Unregistered(p, id)
  IN  IF force \/ gone.sock[id].poll_status = IDLE
      THEN Freed(gone, id)
      ELSE ep_port_add_deleted_socket(gone, id)

ep_sock_delete(p, id) == _ep_sock_delete(p, id, FALSE)

\* ep_sock_new for a handle that is not registered, when there is memory.
ep_sock_new(p, h) ==
  LET id == CHOOSE i \in SockIds : i \notin DOMAIN p.sock
      s  == [socket |-> h, poll_group |-> Grown(p.groups).id, user_data |-> h,
             user_events |-> {}, pending_events |-> {}, poll_status |-> IDLE,
             delete_pending |-> FALSE]
  IN  [p EXCEPT !.groups = Acquire(@),
                !.sock = [i \in DOMAIN @ \cup {id} |-> IF i = id THEN s ELSE @[i]],
                !.tree = [g \in DOMAIN @ \cup {h} |-> IF g = h THEN id ELSE @[g]]]

\* Out of memory, or the handle is registered already: the group is given back,
\* moved to the end.
ep_sock_new_failed(p) ==
  [p EXCEPT !.groups = Release(Acquire(@), Grown(@).id)]

SetEvents(p, id, ev) ==
  [p EXCEPT !.sock[id].user_events = ev.events \cup AlwaysReported,
            !.sock[id].user_data = ev.data]

\* Seeded mistake: a poll that is pending is taken to watch for everything.
SetForNextPoll(p, id, ev) ==
  LET set == SetEvents(p, id, ev)
  IN  IF set.sock[id].poll_status = IDLE THEN ep_port_request_socket_update(set, id) ELSE set

ep_sock_set_event(p, id, ev) ==
  LET set == SetEvents(p, id, ev)
  IN  IF Unwatched(set.sock[id]) # {} THEN ep_port_request_socket_update(set, id) ELSE set

\* [ok, port]; not ok leaves the socket at the head of the queue.
ep_sock_update(p, k, id) ==
  LET s == p.sock[id]
  IN  CASE s.poll_status = PENDING /\ Unwatched(s) = {} ->
             [ok |-> TRUE, port |-> Dequeued(p, id)]
        [] s.poll_status = PENDING /\ Unwatched(s) # {} ->
             [ok |-> TRUE, port |-> Dequeued(_ep_sock_cancel_poll(p, id), id)]
        [] s.poll_status = CANCELLED ->
             [ok |-> TRUE, port |-> Dequeued(p, id)]
        [] s.poll_status = IDLE /\ s.socket \notin k.open ->
             [ok |-> TRUE, port |-> ep_sock_delete(Dequeued(p, id), id)]
        [] s.poll_status = IDLE /\ s.socket \in k.open \cap k.broken ->
             [ok |-> FALSE, port |-> p]
        [] OTHER ->
             [ok |-> TRUE, port |-> Dequeued(_poll_req_submit(p, k, id), id)]

\* A socket whose poll is over, as ep_sock_feed_event leaves it at first.
Idled(p, id) == SetPoll(p, id, IDLE, {})

\* A socket the user asks nothing of until the next epoll_ctl.
Ignored(p, id) == [p EXCEPT !.sock[id].user_events = {}]

\* _poll_req_complete and the filter: the events to report.
Reported(s, outcome) ==
  CASE "FAILED" \in outcome      -> {"EPOLLERR"} \cap s.user_events
    [] "LOCAL_CLOSE" \in outcome -> {}
    [] OTHER -> _afd_events_to_epoll_events(outcome) \cap s.user_events

\* Seeded mistake: a socket whose poll has reported events is not polled again.
FeedOnce(p, c) ==
  LET s      == p.sock[c.sock]
      events == IF s.delete_pending THEN {} ELSE Reported(s, c.outcome)
      heard  == Idled(p, c.sock)
  IN  [ events |-> IF events = {} THEN << >>
                   ELSE <<[data |-> s.user_data, events |-> events]>>,
        port   |-> IF s.delete_pending \/ "LOCAL_CLOSE" \in c.outcome
                   THEN ep_sock_delete(heard, c.sock)
                   ELSE IF events # {} THEN heard
                   ELSE ep_port_request_socket_update(heard, c.sock) ]

\* [events, port]: what is reported of packet c, and the port after it.
ep_sock_feed_event(p, c) ==
  LET s      == p.sock[c.sock]
      events == IF s.delete_pending THEN {} ELSE Reported(s, c.outcome)
      heard  == IF events # {} /\ "EPOLLONESHOT" \in s.user_events
                THEN Ignored(Idled(p, c.sock), c.sock)
                ELSE Idled(p, c.sock)
  IN  [ events |-> IF events = {} THEN << >>
                   ELSE <<[data |-> s.user_data, events |-> events]>>,
        port   |-> IF s.delete_pending \/ "LOCAL_CLOSE" \in c.outcome
                   THEN ep_sock_delete(heard, c.sock)
                   ELSE ep_port_request_socket_update(heard, c.sock) ]

----------------------------------------------------------------------------
(* The port                                                                *)

EmptyPort ==
  [ sock |-> << >>, tree |-> << >>, update |-> << >>, deleted |-> << >>,
    groups |-> << >>, active |-> 0, open |-> TRUE, iocp |-> << >>, afd |-> {} ]

\* Submits a poll for every socket that needs one, until one is refused.
_ep_port_update_events(p, k) ==
  LET UpdateNext(r, id) == IF r.ok THEN ep_sock_update(r.port, k, id) ELSE r
  IN  Through(UpdateNext, [ok |-> TRUE, port |-> p], p.update)

\* Seeded mistake: only epoll_wait itself submits polls.
UpdateAtNextWait(p, k) == p

_ep_port_update_events_if_polling(p, k) ==
  IF p.active > 0 THEN _ep_port_update_events(p, k).port ELSE p

_ep_port_feed_events(p, packets) ==
  LET FeedNext(r, c) == LET fed == ep_sock_feed_event(r.port, c)
                        IN  [events |-> r.events \o fed.events, port |-> fed.port]
  IN  Through(FeedNext, [events |-> << >>, port |-> p], packets)

Registered(p, h) == h \in DOMAIN p.tree

\* EPOLL_CTL_ADD of an open handle.
_ep_port_ctl_add(p, k, h, ev) ==
  IF Registered(p, h) \/ DOMAIN p.sock = SockIds THEN ep_sock_new_failed(p)
  ELSE LET new == ep_sock_new(p, h)
       IN  _ep_port_update_events_if_polling(ep_sock_set_event(new, new.tree[h], ev), k)

_ep_port_ctl_mod(p, k, h, ev) ==
  IF Registered(p, h)
  THEN _ep_port_update_events_if_polling(ep_sock_set_event(p, p.tree[h], ev), k)
  ELSE p

_ep_port_ctl_del(p, h) ==
  IF Registered(p, h) THEN ep_sock_delete(p, p.tree[h]) ELSE p

ep_sock_force_delete(p, id) == _ep_sock_delete(p, id, TRUE)

\* ep_port_delete, before the memory of the port itself goes.
AllForceDeleted(p) ==
  LET registered == SetToSeq({p.tree[h] : h \in DOMAIN p.tree})
      unlisted   == Through(ep_sock_force_delete, p, registered)
  IN  Through(ep_sock_force_delete, unlisted, unlisted.deleted)
=============================================================================
