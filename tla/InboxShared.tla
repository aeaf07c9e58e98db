----------------------------- MODULE InboxShared -----------------------------
(***************************************************************************)
(* An inbox with several senders: the gateway's, of a swarm with more than *)
(* one probe, or a sink fed by the reader threads of two connections.      *)
(* Here the lock-free ring keeps what module SharedMailbox promises, which *)
(* is what module Gateway takes its inboxes to do.                         *)
(***************************************************************************)
EXTENDS Inbox, SequencesExt

\* History: whether a call of inbox_send began while another was between its
\* first read and its store of the tail.
VARIABLE met

Within == {"readTail", "clear", "fill", "zeroTail", "storeTail"}

SharedInit == Init /\ met = FALSE

SharedNext ==
  /\ Next
  /\ met' = (met \/ \E s \in Senders : /\ pc[s] = "idle" /\ pc'[s] = "readTail"
                                       /\ \E r \in Senders : pc[r] \in Within)

SharedSpec == SharedInit /\ [][SharedNext]_<<vars, met>>

\* One past the last published message, also while the tail is half stored.
Published ==
  IF \E s \in Senders : pc[s] = "storeTail"
  THEN t[CHOOSE s \in Senders : pc[s] = "storeTail"] ELSE tail

\* The messages published and not yet received, oldest first.
Waiting ==
  IF met THEN <<>>
  ELSE [i \in 1..(Published - Position) |-> ring[(Position + i - 1) % Capacity]]

Sending ==
  {Msg(s) : s \in {r \in Senders :
     pc[r] \in IF met THEN {"readTail", "clear", "fill"} ELSE Within}}

\* Once sends have met: every message that was written and has not come out.
Stray ==
  IF ~met THEN {}
  ELSE (accepted \union
        {Msg(s) : s \in {r \in Senders : pc[r] \in {"zeroTail", "storeTail", "signal"}}})
       \ ToSet(delivered)

Promise == INSTANCE SharedMailbox
             WITH queue <- Waiting, sending <- Sending, stray <- Stray

\* The ring is a bounded FIFO queue as long as no two sends meet, and whatever
\* they do to each other when they have met, a message comes out at most once
\* and only if a sender wrote it.
KeepsShared == Promise!Spec
==============================================================================
