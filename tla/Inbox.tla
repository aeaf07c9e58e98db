-------------------------------- MODULE Inbox --------------------------------
(***************************************************************************)
(* One agent's inbox (src/swarm/fabric.py, inbox_send and inbox_recv): a   *)
(* ring of fixed-size envelopes in the mmap'd fabric file with a head and  *)
(* a tail word in the receiver's agent control block.  Any process may     *)
(* call inbox_send; only the owner calls inbox_recv (Agent.run).           *)
(*                                                                         *)
(* There is no lock.  Each process runs in its own action sequence, and    *)
(* every load and store of shared memory is a step of its own.  A store    *)
(* through struct.pack_into is two steps: CPython clears the destination   *)
(* to zero bytes before it writes the fields, so another process can read  *)
(* a zero word, or a blank envelope, in between.                           *)
(***************************************************************************)
EXTENDS Integers, Sequences, FiniteSets

CONSTANTS
  Senders,     \* the processes that call inbox_send on this inbox
  Capacity,    \* MAX_INBOX_PER_AGENT
  MaxSends,    \* bound: the calls each sender makes
  Blank        \* an envelope of zero bytes: an unused or cleared ring slot

\* The k-th message of sender s; the payload is not looked at by the ring.
Message == Senders \X (1..MaxSends)

ASSUME InboxAssumption ==
  /\ Capacity \in Nat \ {0}
  /\ MaxSends \in Nat
  /\ Blank \notin Message

VARIABLES
  ring, head, tail,     \* shared memory: envelopes and the two ACB words
  sigMsg,               \* shared memory: bit SIG_MSG of the ACB signal word
  pc, sent, h, t,       \* each sender: next step, calls made, words it read
  rpc, rh, got,         \* the receiver: next step, head it read, envelope read
  accepted, delivered   \* history: sends that returned True, receives

senderVars == <<pc, sent, h, t>>
receiverVars == <<rpc, rh, got>>
vars == <<ring, head, tail, sigMsg, pc, sent, h, t, rpc, rh, got,
          accepted, delivered>>

Slots == 0..(Capacity - 1)

\* The message sender s is sending: its latest call.
Msg(s) == <<s, sent[s]>>

Goto(s, label) == pc' = [pc EXCEPT ![s] = label]

Init ==
  /\ ring = [i \in Slots |-> Blank]
  /\ head = 0 /\ tail = 0 /\ sigMsg = FALSE
  /\ pc = [s \in Senders |-> "idle"]
  /\ sent = [s \in Senders |-> 0]
  /\ h = [s \in Senders |-> 0] /\ t = [s \in Senders |-> 0]
  /\ rpc = "idle" /\ rh = 0 /\ got = Blank
  /\ accepted = {} /\ delivered = <<>>
------------------------------------------------------------------------------
(* inbox_send, one action per access to shared memory.                     *)

SendReadHead(s) ==
  /\ pc[s] = "idle" /\ sent[s] < MaxSends
  /\ sent' = [sent EXCEPT ![s] = @ + 1]
  /\ h' = [h EXCEPT ![s] = head]
  /\ Goto(s, "readTail")
  /\ UNCHANGED <<ring, head, tail, sigMsg, t, receiverVars, accepted, delivered>>

\* Mutants: one envelope too many, and no test at all.
IsFullLate(hd, tl) == tl - hd > Capacity
IsFullNever(hd, tl) == FALSE

\* The ring is full as far as this sender can tell.
IsFull(hd, tl) == tl - hd >= Capacity

\* Reads the tail; when the ring looks full inbox_send returns False.
SendReadTail(s) ==
  /\ pc[s] = "readTail"
  /\ t' = [t EXCEPT ![s] = tail]
  /\ Goto(s, IF IsFull(h[s], tail) THEN "idle" ELSE "clear")
  /\ UNCHANGED <<ring, head, tail, sigMsg, sent, h, receiverVars, accepted, delivered>>

SendClearSlot(s) ==
  /\ pc[s] = "clear"
  /\ ring' = [ring EXCEPT ![t[s] % Capacity] = Blank]
  /\ Goto(s, "fill")
  /\ UNCHANGED <<head, tail, sigMsg, sent, h, t, receiverVars, accepted, delivered>>

\* Mutant: the envelope goes into the slot after the reserved one.
SendFillNext(s) ==
  /\ pc[s] = "fill"
  /\ ring' = [ring EXCEPT ![(t[s] + 1) % Capacity] = Msg(s)]
  /\ Goto(s, "zeroTail")
  /\ UNCHANGED <<head, tail, sigMsg, sent, h, t, receiverVars, accepted, delivered>>

SendFillSlot(s) ==
  /\ pc[s] = "fill"
  /\ ring' = [ring EXCEPT ![t[s] % Capacity] = Msg(s)]
  /\ Goto(s, "zeroTail")
  /\ UNCHANGED <<head, tail, sigMsg, sent, h, t, receiverVars, accepted, delivered>>

SendZeroTail(s) ==
  /\ pc[s] = "zeroTail"
  /\ tail' = 0
  /\ Goto(s, "storeTail")
  /\ UNCHANGED <<ring, head, sigMsg, sent, h, t, receiverVars, accepted, delivered>>

SendStoreTail(s) ==
  /\ pc[s] = "storeTail"
  /\ tail' = t[s] + 1
  /\ Goto(s, "signal")
  /\ UNCHANGED <<ring, head, sigMsg, sent, h, t, receiverVars, accepted, delivered>>

\* sig_send(to_id, SIG_MSG), then return True.  Only this bit of the signal
\* word is kept here; what its read-modify-write does to the other bits is in
\* module Signals.
SendSignal(s) ==
  /\ pc[s] = "signal"
  /\ sigMsg' = TRUE
  /\ accepted' = accepted \union {Msg(s)}
  /\ Goto(s, "idle")
  /\ UNCHANGED <<ring, head, tail, sent, h, t, receiverVars, delivered>>

Send(s) ==
  \/ SendReadHead(s) \/ SendReadTail(s)
  \/ SendClearSlot(s) \/ SendFillSlot(s)
  \/ SendZeroTail(s) \/ SendStoreTail(s) \/ SendSignal(s)
------------------------------------------------------------------------------
(* The receiver: sig_recv at the top of a cycle of Agent.run, then         *)
(* inbox_recv until it returns None or the cycle's cap is reached.         *)

RecvSignal ==
  /\ rpc = "idle"
  /\ sigMsg /\ sigMsg' = FALSE
  /\ UNCHANGED <<ring, head, tail, senderVars, receiverVars, accepted, delivered>>

RecvReadHead ==
  /\ rpc = "idle"
  /\ rh' = head
  /\ rpc' = "readTail"
  /\ UNCHANGED <<ring, head, tail, sigMsg, senderVars, got, accepted, delivered>>

\* Reads the tail; an empty ring makes inbox_recv return None.
RecvReadTail ==
  /\ rpc = "readTail"
  /\ rpc' = IF rh >= tail THEN "idle" ELSE "readSlot"
  /\ UNCHANGED <<ring, head, tail, sigMsg, senderVars, rh, got, accepted, delivered>>

RecvReadSlot ==
  /\ rpc = "readSlot"
  /\ got' = ring[rh % Capacity]
  /\ rpc' = "zeroHead"
  /\ UNCHANGED <<ring, head, tail, sigMsg, senderVars, rh, accepted, delivered>>

RecvZeroHead ==
  /\ rpc = "zeroHead"
  /\ head' = 0
  /\ rpc' = "storeHead"
  /\ UNCHANGED <<ring, tail, sigMsg, senderVars, rh, got, accepted, delivered>>

NewHead(x) ==
  /\ rpc = "storeHead"
  /\ head' = x
  /\ delivered' = Append(delivered, got)
  /\ rpc' = "idle"
  /\ UNCHANGED <<ring, tail, sigMsg, senderVars, rh, got, accepted>>

\* Mutants: the head stays, goes back, or jumps to the tail.
RecvKeepHead == NewHead(rh)
RecvHeadBack == NewHead(rh - 1)
RecvSkipToTail == NewHead(tail)

\* Stores the new head and returns the message to the drain loop.
RecvStoreHead == NewHead(rh + 1)

Recv ==
  \/ RecvSignal \/ RecvReadHead \/ RecvReadTail
  \/ RecvReadSlot \/ RecvZeroHead \/ RecvStoreHead

Next == Recv \/ \E s \in Senders : Send(s)

Spec == Init /\ [][Next]_vars

(* A call of inbox_send or inbox_recv has no wait in it, and Agent.run     *)
(* never stops draining its inbox, so every step that is enabled is taken. *)
(* A sender is under no obligation to start another call.                  *)
RecvCall ==
  RecvReadHead \/ RecvReadTail \/ RecvReadSlot \/ RecvZeroHead \/ RecvStoreHead

FairSpec ==
  /\ Spec
  /\ WF_vars(RecvCall)
  /\ \A s \in Senders : WF_vars(pc[s] # "idle" /\ Send(s))
------------------------------------------------------------------------------
TypeOK ==
  /\ ring \in [Slots -> Message \union {Blank}]
  /\ head \in Nat /\ tail \in Nat /\ sigMsg \in BOOLEAN
  /\ pc \in [Senders -> {"idle", "readTail", "clear", "fill", "zeroTail",
                         "storeTail", "signal"}]
  /\ sent \in [Senders -> 0..MaxSends]
  /\ \A s \in Senders : pc[s] # "idle" => Msg(s) \in Message
  /\ h \in [Senders -> Nat] /\ t \in [Senders -> Nat]
  /\ rpc \in {"idle", "readTail", "readSlot", "zeroHead", "storeHead"}
  /\ rh \in Nat
  /\ got \in Message \union {Blank}
  /\ accepted \subseteq Message
  /\ delivered \in Seq(Message \union {Blank})

\* The receiver's position, also while its store of the head is half done.
Position == IF rpc = "storeHead" THEN rh ELSE head

\* The receiver never has more than Capacity messages ahead of it, whatever
\* the number of senders racing in inbox_send: the full test keeps a tail from
\* overrunning the ring even though head and tail may be stale or half stored.
NeverOverfull == tail - Position <= Capacity

\* A sender's stale head never runs ahead of the receiver, the slot it reserves
\* is within Capacity of that head, and the receiver's own copy is exact.
StaleHead ==
  /\ \A s \in Senders :
       /\ h[s] <= Position
       /\ pc[s] \in {"clear", "fill", "zeroTail", "storeTail"} =>
            t[s] - h[s] < Capacity
  /\ rpc \in {"readTail", "readSlot", "zeroHead"} => rh = head
  /\ rpc = "storeHead" => head = 0

\* The receiver's position only moves forward, by one message at a time.
PositionAdvances == [][Position' \in {Position, Position + 1}]_vars

\* No envelope comes out of the inbox twice, not even when senders race.
AtMostOnce ==
  \A i, j \in 1..Len(delivered) :
    i # j /\ delivered[i] # Blank => delivered[i] # delivered[j]
==============================================================================
