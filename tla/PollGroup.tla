----------------------------- MODULE PollGroup -----------------------------
(***************************************************************************)
(* wepoll's poll groups.  The driver is polled through helper sockets, and *)
(* each serves at most _POLL_GROUP_MAX_SIZE of the polled sockets.         *)
(*                                                                         *)
(* The allocator's queue is a sequence of groups; full groups are kept at  *)
(* its front and the group to use next at its end.  The server polls TCP   *)
(* sockets only, so one allocator stands for all of them.                  *)
(***************************************************************************)
EXTENDS Naturals, SequencesExt

CONSTANT POLL_GROUP_MAX_SIZE

ASSUME GroupSizeAssumption == POLL_GROUP_MAX_SIZE \in Nat \ {0}

IsFull(group) == group.size >= POLL_GROUP_MAX_SIZE

NeedsNewGroup(queue) == queue = << >> \/ IsFull(Last(queue))

\* The group poll_group_acquire hands out, grown by one.
Grown(queue) ==
  IF NeedsNewGroup(queue) THEN [id |-> Len(queue) + 1, size |-> 1]
                          ELSE [Last(queue) EXCEPT !.size = @ + 1]

\* Seeded mistake: a group that has become full stays at the end.
AcquireKeepingLast(queue) ==
  Append(IF NeedsNewGroup(queue) THEN queue ELSE Front(queue), Grown(queue))

Acquire(queue) ==
  LET rest == IF NeedsNewGroup(queue) THEN queue ELSE Front(queue)
  IN  IF IsFull(Grown(queue)) THEN <<Grown(queue)>> \o rest
                              ELSE Append(rest, Grown(queue))

\* Seeded mistake: the group that has room again keeps its place in the queue.
ReleaseInPlace(queue, group) ==
  LET i == CHOOSE i \in 1 .. Len(queue) : queue[i].id = group
  IN  [queue EXCEPT ![i].size = @ - 1]

Release(queue, group) ==
  LET i == CHOOSE i \in 1 .. Len(queue) : queue[i].id = group
  IN  Append(RemoveAt(queue, i), [queue[i] EXCEPT !.size = @ - 1])
=============================================================================
