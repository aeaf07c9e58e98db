---------------------------- MODULE SharedMailbox ----------------------------
(***************************************************************************)
(* What an agent's inbox promises to several senders and one receiver.     *)
(* Nobody locks it.  As long as no send begins while another is under way  *)
(* it is the queue of module Mailbox.  Once two have met, the tail word    *)
(* may have gone back and envelopes may have been overwritten: from then   *)
(* on a message that was accepted may or may not come out, in no order,    *)
(* and cleared envelopes may come out too.  What remains of the promise is *)
(* that no message comes out twice, or that nobody put in.                 *)
(***************************************************************************)
EXTENDS Naturals, Sequences, SequencesExt

CONSTANTS
  Message,     \* what an envelope can carry
  Capacity,    \* how many undelivered messages the inbox may hold
  Blank        \* an envelope of zero bytes

VARIABLES
  sending,     \* messages of sends under way
  queue,       \* accepted, not yet taken, while no two sends have met
  met,         \* whether two sends have met
  stray,       \* the messages that may come out, since then
  delivered    \* taken, in the order they were taken

vars == <<sending, queue, met, stray, delivered>>

Init ==
  /\ sending = {} /\ queue = <<>> /\ met = FALSE /\ stray = {}
  /\ delivered = <<>>

\* A send begins.  Where it meets another, the envelope of that one may be in
\* the ring already, and come out before its sender knows.
Begin(m) ==
  /\ m \notin sending
  /\ met' = (met \/ sending # {})
  /\ \E written \in IF met' THEN SUBSET sending ELSE {{}} :
       /\ sending' = (sending \ written) \union {m}
       /\ queue' = IF met' THEN <<>> ELSE queue
       /\ stray' = IF met' THEN stray \union ToSet(queue) \union written ELSE stray
  /\ UNCHANGED delivered

\* It is refused: the inbox is full, or the receiver's head is half stored.
Refuse(m) ==
  /\ m \in sending /\ sending' = sending \ {m}
  /\ UNCHANGED <<queue, met, stray, delivered>>

Put(m) ==
  /\ m \in sending /\ sending' = sending \ {m}
  /\ \/ /\ ~met /\ Len(queue) < Capacity
        /\ queue' = Append(queue, m) /\ UNCHANGED stray
     \/ met /\ stray' = stray \union {m} /\ UNCHANGED queue
  /\ UNCHANGED <<met, delivered>>

Take ==
  /\ queue # <<>>
  /\ queue' = Tail(queue) /\ delivered' = Append(delivered, Head(queue))
  /\ UNCHANGED <<sending, met, stray>>

TakeStray ==
  /\ met
  /\ \/ \E m \in stray : stray' = stray \ {m} /\ delivered' = Append(delivered, m)
     \/ delivered' = Append(delivered, Blank) /\ UNCHANGED stray
  /\ UNCHANGED <<sending, queue, met>>

Next ==
  \/ \E m \in Message : Begin(m) \/ Refuse(m) \/ Put(m)
  \/ Take \/ TakeStray

Spec == Init /\ [][Next]_vars
==============================================================================
