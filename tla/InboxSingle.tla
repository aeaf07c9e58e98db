----------------------------- MODULE InboxSingle -----------------------------
(***************************************************************************)
(* An inbox with one sender: a probe whose narrator has no other peer, a   *)
(* sink fed by one gateway connection.  Here the lock-free ring keeps the  *)
(* promise of module Mailbox, half-done stores and all.                    *)
(***************************************************************************)
EXTENDS Inbox

SingleSender == \E s \in Senders : Senders = {s}

TheSender == CHOOSE s \in Senders : TRUE

\* One past the last published message, also while the tail is half stored.
Published == IF pc[TheSender] = "storeTail" THEN t[TheSender] ELSE tail

\* The envelopes at ring indices a to b - 1, as a sequence.
Window(r, a, b) == [i \in 1..(b - a) |-> r[(a + i - 1) % Capacity]]

\* The messages published and not yet received, oldest first.
Waiting == Window(ring, Position, Published)

Promise == INSTANCE Mailbox WITH queue <- Waiting

\* The ring is a bounded FIFO queue for its single sender: nothing is lost,
\* duplicated, reordered, torn or invented between inbox_send and inbox_recv.
Implements == Promise!Spec

\* A message whose send returned True reaches the receiver, because
\* Agent.run keeps draining its inbox.
AcceptedIsDelivered ==
  \A m \in Message :
    m \in accepted ~> \E i \in 1..Len(delivered) : delivered[i] = m
------------------------------------------------------------------------------
(* What makes Implements true, step by step.                                *)

Reserving == {"clear", "fill", "zeroTail", "storeTail"}

\* While it holds the next ring slot, the sender's copy of the tail is exact.
TailKnown ==
  /\ pc[TheSender] \in Reserving => t[TheSender] = Published
  /\ pc[TheSender] = "storeTail" => tail = 0

\* The receiver never overtakes the sender.
Ordered == Position <= Published

\* Every published envelope is whole.
WholeEnvelopes ==
  \A i \in Position..(Published - 1) : ring[i % Capacity] \in Message

\* Before the tail moves, the envelope it will cover is in place.
SlotFilled ==
  pc[TheSender] \in {"zeroTail", "storeTail"} =>
    ring[t[TheSender] % Capacity] = Msg(TheSender)

\* The receiver reads only published slots, and what it read is still there.
ReadsPublished ==
  /\ rpc \in {"readSlot", "zeroHead", "storeHead"} => rh < Published
  /\ rpc \in {"zeroHead", "storeHead"} => got = ring[rh % Capacity]

SingleInv ==
  /\ TailKnown
  /\ Ordered
  /\ WholeEnvelopes
  /\ SlotFilled
  /\ ReadsPublished
==============================================================================
