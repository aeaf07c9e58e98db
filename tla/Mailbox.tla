------------------------------- MODULE Mailbox -------------------------------
(***************************************************************************)
(* What an agent's inbox promises to one sender and one receiver: a        *)
(* bounded first-in first-out queue.  A message put on it is taken exactly *)
(* once, in order, unchanged; nothing else is ever taken.  How the queue   *)
(* lives in shared memory is the business of module Inbox.                 *)
(***************************************************************************)
EXTENDS Naturals, Sequences

CONSTANTS
  Message,     \* what an envelope can carry
  Capacity     \* how many undelivered messages the inbox may hold

VARIABLES
  queue,       \* accepted, not yet taken
  delivered    \* taken, in the order they were taken

Init ==
  /\ queue = <<>>
  /\ delivered = <<>>

\* A send is refused, silently here, when the queue is full.
Put(m) ==
  /\ Len(queue) < Capacity
  /\ queue' = Append(queue, m)
  /\ UNCHANGED delivered

Take ==
  /\ queue # <<>>
  /\ delivered' = Append(delivered, Head(queue))
  /\ queue' = Tail(queue)

Next == Take \/ \E m \in Message : Put(m)

Spec == Init /\ [][Next]_<<queue, delivered>>
==============================================================================
