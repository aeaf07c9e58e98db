----------------------------- MODULE InboxProofs -----------------------------
(***************************************************************************)
(* What holds of an inbox however many processes send to it at once, and   *)
(* under SingleSender of one that a single process sends to.               *)
(***************************************************************************)
EXTENDS InboxSingle, SequenceTheorems, TLAPS

\* The state space of Inbox: words are naturals, ring slots hold messages or
\* blank envelopes, every process is at one of its steps.
THEOREM Typing == Spec => []TypeOK
<1> USE InboxAssumption
<1>1. Init => TypeOK
  BY DEF Init, TypeOK, Slots, Message
<1>2. TypeOK /\ [Next]_vars => TypeOK'
  <2> SUFFICES ASSUME TypeOK, [Next]_vars PROVE TypeOK'
    OBVIOUS
  <2> USE DEF TypeOK, Goto, Msg
  <2>1. ASSUME NEW s \in Senders, SendReadHead(s) PROVE TypeOK'
    <3>1. sent[s] + 1 \in 1..MaxSends
      BY <2>1 DEF SendReadHead
    <3>2. sent' \in [Senders -> 0..MaxSends]
      BY <2>1, <3>1 DEF SendReadHead
    <3>3. ASSUME NEW r \in Senders, pc'[r] # "idle" PROVE Msg(r)' \in Message
      BY <2>1, <3>1, <3>3 DEF SendReadHead, Message
    <3>. QED
      BY <2>1, <3>2, <3>3 DEF SendReadHead, receiverVars
  <2>2. ASSUME NEW s \in Senders, SendReadTail(s) PROVE TypeOK'
    BY <2>2 DEF SendReadTail, receiverVars
  <2>3. ASSUME NEW s \in Senders, SendClearSlot(s) PROVE TypeOK'
    BY <2>3 DEF SendClearSlot, receiverVars
  <2>4. ASSUME NEW s \in Senders, SendFillSlot(s) PROVE TypeOK'
    BY <2>4 DEF SendFillSlot, receiverVars
  <2>5. ASSUME NEW s \in Senders, SendZeroTail(s) PROVE TypeOK'
    BY <2>5 DEF SendZeroTail, receiverVars
  <2>6. ASSUME NEW s \in Senders, SendStoreTail(s) PROVE TypeOK'
    BY <2>6 DEF SendStoreTail, receiverVars
  <2>7. ASSUME NEW s \in Senders, SendSignal(s) PROVE TypeOK'
    BY <2>7 DEF SendSignal, receiverVars
  <2>8. CASE Recv
    <3> USE DEF senderVars, receiverVars
    <3>1. CASE RecvSignal
      BY <3>1 DEF RecvSignal
    <3>2. CASE RecvReadHead
      BY <3>2 DEF RecvReadHead
    <3>3. CASE RecvReadTail
      BY <3>3 DEF RecvReadTail
    <3>4. CASE RecvReadSlot
      <4>1. rh % Capacity \in Slots
        BY DEF Slots
      <4>. QED
        BY <3>4, <4>1 DEF RecvReadSlot
    <3>5. CASE RecvZeroHead
      BY <3>5 DEF RecvZeroHead
    <3>6. CASE RecvStoreHead
      BY <3>6 DEF RecvStoreHead, NewHead
    <3>. QED
      BY <2>8, <3>1, <3>2, <3>3, <3>4, <3>5, <3>6 DEF Recv
  <2>9. CASE UNCHANGED vars
    BY <2>9 DEF vars
  <2>. QED
    BY <2>1, <2>2, <2>3, <2>4, <2>5, <2>6, <2>7, <2>8, <2>9 DEF Next, Send
<1>. QED
  BY <1>1, <1>2, PTL DEF Spec

LEMMA RingInit == Init => StaleHead /\ NeverOverfull
  BY InboxAssumption DEF Init, StaleHead, NeverOverfull, Position

\* A sender's step keeps its reservation within Capacity of a head the receiver
\* has already passed, and publishes no more than it reserved.
LEMMA RingSend ==
  ASSUME TypeOK, StaleHead, NeverOverfull, NEW s \in Senders, Send(s)
  PROVE  StaleHead' /\ NeverOverfull'
<1> USE InboxAssumption
<1> USE DEF TypeOK, StaleHead, NeverOverfull, Position, Goto, receiverVars
<1>1. CASE SendReadHead(s)
  BY <1>1 DEF SendReadHead
<1>2. CASE SendReadTail(s)
  BY <1>2 DEF SendReadTail, IsFull
<1>3. CASE SendClearSlot(s)
  BY <1>3 DEF SendClearSlot
<1>4. CASE SendFillSlot(s)
  BY <1>4 DEF SendFillSlot
<1>5. CASE SendZeroTail(s)
  BY <1>5 DEF SendZeroTail
<1>6. CASE SendStoreTail(s)
  BY <1>6 DEF SendStoreTail
<1>7. CASE SendSignal(s)
  BY <1>7 DEF SendSignal
<1>. QED
  BY <1>1, <1>2, <1>3, <1>4, <1>5, <1>6, <1>7 DEF Send

\* The receiver only moves away from the senders' stale heads.
LEMMA RingRecv ==
  ASSUME TypeOK, StaleHead, NeverOverfull, Recv
  PROVE  StaleHead' /\ NeverOverfull' /\ Position' \in {Position, Position + 1}
<1> USE InboxAssumption
<1> USE DEF TypeOK, StaleHead, NeverOverfull, Position, senderVars
<1>1. CASE RecvSignal
  BY <1>1 DEF RecvSignal, receiverVars
<1>2. CASE RecvReadHead
  BY <1>2 DEF RecvReadHead
<1>3. CASE RecvReadTail
  BY <1>3 DEF RecvReadTail
<1>4. CASE RecvReadSlot
  BY <1>4 DEF RecvReadSlot
<1>5. CASE RecvZeroHead
  BY <1>5 DEF RecvZeroHead
<1>6. CASE RecvStoreHead
  BY <1>6 DEF RecvStoreHead, NewHead
<1>. QED
  BY <1>1, <1>2, <1>3, <1>4, <1>5, <1>6 DEF Recv

LEMMA RingInvariant == Spec => [](StaleHead /\ NeverOverfull)
<1>1. TypeOK /\ StaleHead /\ NeverOverfull /\ [Next]_vars
        => (StaleHead /\ NeverOverfull)'
  <2>1. ASSUME StaleHead, NeverOverfull, UNCHANGED vars
        PROVE  StaleHead' /\ NeverOverfull'
    BY <2>1 DEF vars, StaleHead, NeverOverfull, Position
  <2>. QED
    BY <2>1, RingSend, RingRecv DEF Next
<1>. QED
  BY <1>1, RingInit, Typing, PTL DEF Spec

\* However many processes race in inbox_send with however stale a head, the
\* tail never gets more than Capacity ahead of the receiver.
THEOREM RingNeverOverfull == Spec => []NeverOverfull
  BY RingInvariant, PTL

\* The receiver's position moves forward one message at a time, although its
\* head word passes through zero in every store.
THEOREM ReceiverAdvances == Spec => PositionAdvances
<1>1. TypeOK /\ StaleHead /\ NeverOverfull /\ [Next]_vars
        => [Position' \in {Position, Position + 1}]_vars
  <2>1. ASSUME NEW s \in Senders, Send(s) PROVE Position' = Position
    BY <2>1 DEF Send, SendReadHead, SendReadTail, SendClearSlot, SendFillSlot,
                SendZeroTail, SendStoreTail, SendSignal, receiverVars, Position
  <2>. QED
    BY <2>1, RingRecv DEF Next
<1>. QED
  BY <1>1, Typing, RingInvariant, PTL DEF Spec, PositionAdvances
------------------------------------------------------------------------------
(* No message is taken out twice.                                           *)

\* The messages taken out of the inbox so far.
Taken == {delivered[i] : i \in 1..Len(delivered)} \ {Blank}

\* Message m has been put into its slot.
WasWritten(m) ==
  \/ m[2] < sent[m[1]]
  \/ m[2] = sent[m[1]] /\ pc[m[1]] \notin {"readTail", "clear", "fill"}

OnlyWritten ==
  /\ \A x \in Slots : ring[x] # Blank => WasWritten(ring[x])
  /\ got # Blank => WasWritten(got)
  /\ \A m \in Taken : WasWritten(m)

\* A message is in one slot at most, and what is being taken out was not
\* taken before.
InOneSlot ==
  /\ \A x, y \in Slots : ring[x] # Blank /\ ring[x] = ring[y] => x = y
  /\ rpc = "readSlot" => ring[rh % Capacity] \notin Taken
  /\ rpc \in {"zeroHead", "storeHead"} =>
       got \notin Taken /\ \A x \in Slots : got # Blank /\ ring[x] = got => x = rh % Capacity

\* A slot whose message was taken is not published again before a sender has
\* reserved and cleared it.
NotPublished ==
  \A n \in Nat :
    n >= Position /\ ring[n % Capacity] \in Taken =>
      /\ tail <= n
      /\ \A s \in Senders :
           /\ pc[s] = "clear" => t[s] <= n
           /\ pc[s] \in {"fill", "zeroTail", "storeTail"} => t[s] < n

OnceInv == OnlyWritten /\ InOneSlot /\ NotPublished /\ AtMostOnce

LEMMA OnceInit == Init => OnceInv
  BY DEF Init, OnceInv, OnlyWritten, InOneSlot, NotPublished, AtMostOnce, Taken, Slots

\* Positions of the same slot are Capacity apart.
LEMMA NextOfSlot ==
  ASSUME NEW m \in Nat, NEW n \in Nat, m % Capacity = n % Capacity, m < n
  PROVE  m + Capacity <= n
<1> USE InboxAssumption
<1> DEFINE a == m \div Capacity
           b == n \div Capacity
<1>1. a \in Int /\ b \in Int /\ m = Capacity * a + (m % Capacity)
        /\ n = Capacity * b + (n % Capacity)
  OBVIOUS
<1> HIDE DEF a, b
<1>2. n - m = Capacity * (b - a)
  BY <1>1
<1>3. b - a >= 1
  <2>1. SUFFICES ASSUME b - a <= 0 PROVE FALSE
    BY <1>1
  <2>2. Capacity * (b - a) <= 0
    BY <2>1, <1>1
  <2>. QED
    BY <1>2, <2>2
<1>4. Capacity * (b - a) >= Capacity
  BY <1>1, <1>3
<1>. QED
  BY <1>2, <1>4

\* What was written stays written, and what is being sent was not.
LEMMA SendWritten ==
  ASSUME TypeOK, NEW s \in Senders, Send(s)
  PROVE  \A m \in Message : WasWritten(m) => WasWritten(m)'
<1> SUFFICES ASSUME NEW r \in Senders, NEW k \in 1..MaxSends, WasWritten(<<r, k>>)
             PROVE  WasWritten(<<r, k>>)'
  BY DEF Message
<1> USE InboxAssumption DEF TypeOK, WasWritten, Goto
<1>1. CASE SendReadHead(s)
  BY <1>1 DEF SendReadHead
<1>2. CASE SendReadTail(s)
  BY <1>2 DEF SendReadTail
<1>3. CASE SendClearSlot(s) \/ SendFillSlot(s)
  BY <1>3 DEF SendClearSlot, SendFillSlot
<1>4. CASE SendZeroTail(s) \/ SendStoreTail(s) \/ SendSignal(s)
  BY <1>4 DEF SendZeroTail, SendStoreTail, SendSignal
<1>. QED
  BY <1>1, <1>2, <1>3, <1>4 DEF Send

\* A sender's step writes a message that is nowhere else, clears a slot, or
\* leaves the ring alone.
LEMMA SendRing ==
  ASSUME TypeOK, OnlyWritten, NEW s \in Senders, Send(s)
  PROVE  /\ delivered' = delivered /\ rpc' = rpc /\ rh' = rh /\ got' = got
         /\ Position' = Position
         /\ ring' = ring \/ SendClearSlot(s) \/ SendFillSlot(s)
         /\ SendFillSlot(s) =>
              /\ Msg(s) \in Message /\ Msg(s) # Blank /\ Msg(s) # got /\ Msg(s) \notin Taken
              /\ \A x \in Slots : ring[x] # Msg(s)
              /\ WasWritten(Msg(s))'
<1>1. delivered' = delivered /\ rpc' = rpc /\ rh' = rh /\ got' = got /\ head' = head
  BY DEF Send, SendReadHead, SendReadTail, SendClearSlot, SendFillSlot, SendZeroTail,
         SendStoreTail, SendSignal, receiverVars
<1>2. Position' = Position
  BY <1>1 DEF Position
<1>3. CASE SendFillSlot(s)
  <2>1. pc[s] = "fill" /\ Msg(s) \in Message /\ sent[s] \in Nat
    BY <1>3 DEF SendFillSlot, TypeOK
  <2>2. Msg(s) # Blank
    BY <2>1, InboxAssumption
  <2>3. ~WasWritten(Msg(s))
    BY <2>1 DEF WasWritten, Msg
  <2>4. WasWritten(Msg(s))'
    BY <1>3, <2>1 DEF SendFillSlot, WasWritten, Msg, Goto, TypeOK
  <2>5. Msg(s) # got /\ Msg(s) \notin Taken /\ \A x \in Slots : ring[x] # Msg(s)
    BY <2>2, <2>3 DEF OnlyWritten
  <2>. QED
    BY <1>1, <1>2, <1>3, <2>1, <2>2, <2>4, <2>5
<1>4. ring' = ring \/ SendClearSlot(s) \/ SendFillSlot(s)
  BY DEF Send, SendReadHead, SendReadTail, SendZeroTail, SendStoreTail, SendSignal
<1>. QED
  BY <1>1, <1>2, <1>3, <1>4

\* In a slot after the step is what was there, nothing, or the new message.
LEMMA SendSlots ==
  ASSUME TypeOK, OnlyWritten, NEW s \in Senders, Send(s), NEW x \in Slots
  PROVE  \/ ring'[x] = ring[x]
         \/ ring'[x] = Blank
         \/ /\ ring'[x] = Msg(s) /\ x = t[s] % Capacity /\ Msg(s) \in Message /\ Msg(s) # Blank
            /\ Msg(s) # got /\ Msg(s) \notin Taken /\ WasWritten(Msg(s))'
            /\ \A y \in Slots : ring[y] # Msg(s) /\ (y # x => ring'[y] = ring[y])
<1>1. CASE SendClearSlot(s)
  BY <1>1 DEF SendClearSlot, TypeOK
<1>2. CASE SendFillSlot(s)
  <2>1. /\ Msg(s) \in Message /\ Msg(s) # Blank /\ Msg(s) # got /\ Msg(s) \notin Taken
        /\ \A y \in Slots : ring[y] # Msg(s)
        /\ WasWritten(Msg(s))'
    BY <1>2, SendRing
  <2>2. /\ t[s] % Capacity \in Slots
        /\ \A y \in Slots : ring'[y] = IF y = t[s] % Capacity THEN Msg(s) ELSE ring[y]
    BY <1>2, InboxAssumption DEF SendFillSlot, TypeOK, Slots
  <2>. QED
    BY <2>1, <2>2
<1>. QED
  BY <1>1, <1>2, SendRing

LEMMA SendOnce ==
  ASSUME TypeOK, TypeOK', StaleHead, OnceInv, NEW s \in Senders, Send(s)
  PROVE  OnceInv'
<1>1. OnlyWritten /\ InOneSlot /\ NotPublished /\ AtMostOnce
  BY DEF OnceInv
<1>2. delivered' = delivered /\ rpc' = rpc /\ rh' = rh /\ got' = got /\ Position' = Position
  BY <1>1, SendRing
<1>3. Taken' = Taken /\ AtMostOnce'
  BY <1>1, <1>2 DEF Taken, AtMostOnce
<1>4. Taken \subseteq Message
  BY DEF Taken, TypeOK
<1>5. OnlyWritten'
  <2>1. ASSUME NEW x \in Slots, ring'[x] # Blank
        PROVE  WasWritten(ring[x])'
    <3>1. CASE ring'[x] = ring[x]
      <4>1. ring[x] \in Message /\ WasWritten(ring[x])
        BY <1>1, <2>1, <3>1 DEF OnlyWritten, TypeOK
      <4>2. \A m \in Message : WasWritten(m) => WasWritten(m)'
        BY SendWritten
      <4>. QED
        BY <3>1, <4>1, <4>2 DEF WasWritten
    <3>2. CASE ring'[x] # ring[x]
      <4>1. ring'[x] = Msg(s) /\ WasWritten(Msg(s))'
        BY <1>1, <2>1, <3>2, SendSlots
      <4>2. Msg(s)' = Msg(s)
        BY <1>1, <2>1, <3>2, <4>1, SendRing DEF SendClearSlot, SendFillSlot, Msg, TypeOK
      <4>. QED
        BY <4>1, <4>2 DEF WasWritten
    <3>. QED
      BY <3>1, <3>2
  <2>2. got' # Blank => WasWritten(got)'
    <3>1. got # Blank => got \in Message /\ WasWritten(got)
      BY <1>1 DEF OnlyWritten, TypeOK
    <3>. QED
      BY <1>2, <3>1, SendWritten DEF WasWritten
  <2>3. \A m \in Taken : WasWritten(m)'
    BY <1>1, <1>4, SendWritten DEF OnlyWritten
  <2>. QED
    BY <1>3, <2>1, <2>2, <2>3 DEF OnlyWritten, Slots
<1>6. InOneSlot'
  <2>1. ASSUME NEW x \in Slots, NEW y \in Slots, ring'[x] # Blank, ring'[x] = ring'[y]
        PROVE  x = y
    BY <1>1, <2>1, SendSlots DEF InOneSlot
  <2>2. rpc = "readSlot" => ring'[rh % Capacity] \notin Taken
    <3>1. rh % Capacity \in Slots
      BY InboxAssumption DEF Slots, TypeOK
    <3>2. Blank \notin Taken
      BY DEF Taken
    <3>. QED
      BY <1>1, <3>1, <3>2, SendSlots DEF InOneSlot
  <2>3. ASSUME rpc \in {"zeroHead", "storeHead"}
        PROVE  got \notin Taken /\ \A x \in Slots : got # Blank /\ ring'[x] = got => x = rh % Capacity
    BY <1>1, <2>3, SendSlots DEF InOneSlot
  <2>. QED
    BY <1>2, <1>3, <2>1, <2>2, <2>3 DEF InOneSlot, Slots
<1>7. NotPublished'
  <2>1. ASSUME NEW n \in Nat, n >= Position, ring'[n % Capacity] \in Taken
        PROVE  /\ tail' <= n
               /\ \A r \in Senders :
                    /\ pc'[r] = "clear" => t'[r] <= n
                    /\ pc'[r] \in {"fill", "zeroTail", "storeTail"} => t'[r] < n
    <3>1. n % Capacity \in Slots /\ Blank \notin Taken
      BY InboxAssumption DEF Slots, Taken
    <3>2. ring'[n % Capacity] = ring[n % Capacity]
      BY <1>1, <2>1, <3>1, SendSlots
    <3>3. /\ tail <= n
          /\ \A r \in Senders :
               /\ pc[r] = "clear" => t[r] <= n
               /\ pc[r] \in {"fill", "zeroTail", "storeTail"} => t[r] < n
      BY <1>1, <2>1, <3>2 DEF NotPublished
    <3> USE DEF TypeOK, Goto
    <3>4. CASE SendReadHead(s)
      BY <3>3, <3>4 DEF SendReadHead
    <3>5. CASE SendReadTail(s)
      BY <3>3, <3>5 DEF SendReadTail
    <3>6. CASE SendClearSlot(s)
      <4>1. t[s] # n
        BY <2>1, <3>1, <3>6 DEF SendClearSlot
      <4>. QED
        BY <3>3, <3>6, <4>1 DEF SendClearSlot
    <3>7. CASE SendFillSlot(s)
      BY <3>3, <3>7 DEF SendFillSlot
    <3>8. CASE SendZeroTail(s)
      BY <3>3, <3>8 DEF SendZeroTail
    <3>9. CASE SendStoreTail(s)
      BY <3>3, <3>9 DEF SendStoreTail
    <3>10. CASE SendSignal(s)
      BY <3>3, <3>10 DEF SendSignal
    <3>. QED
      BY <3>4, <3>5, <3>6, <3>7, <3>8, <3>9, <3>10 DEF Send
  <2>. QED
    BY <1>2, <1>3, <2>1 DEF NotPublished
<1>. QED
  BY <1>3, <1>5, <1>6, <1>7 DEF OnceInv

\* The receiver reads a slot below the tail, which holds nothing that was taken
\* before; what it takes lies Capacity behind the next message of that slot.
LEMMA RecvOnce ==
  ASSUME TypeOK, TypeOK', StaleHead, NeverOverfull, OnceInv, Recv
  PROVE  OnceInv'
<1> USE InboxAssumption
<1>1. OnlyWritten /\ InOneSlot /\ NotPublished /\ AtMostOnce
  BY DEF OnceInv
<1>2. ring' = ring /\ tail' = tail /\ pc' = pc /\ sent' = sent /\ t' = t
  BY DEF Recv, RecvSignal, RecvReadHead, RecvReadTail, RecvReadSlot, RecvZeroHead, RecvStoreHead,
         NewHead, senderVars
<1>3. \A m : WasWritten(m)' <=> WasWritten(m)
  BY <1>2 DEF WasWritten
<1>4. rh % Capacity \in Slots
  BY DEF Slots, TypeOK
<1>5. CASE ~RecvStoreHead
  <2>1. delivered' = delivered
    BY <1>5 DEF Recv, RecvSignal, RecvReadHead, RecvReadTail, RecvReadSlot, RecvZeroHead,
                receiverVars
  <2>2. Taken' = Taken /\ AtMostOnce'
    BY <1>1, <2>1 DEF Taken, AtMostOnce
  <2>3. Position' = Position
    BY <1>5 DEF Recv, RecvSignal, RecvReadHead, RecvReadTail, RecvReadSlot, RecvZeroHead,
                receiverVars, Position, StaleHead
  <2>4. NotPublished'
    BY <1>1, <1>2, <2>2, <2>3 DEF NotPublished
  <2>5. OnlyWritten'
    <3>1. got' = got \/ got' = ring[rh % Capacity]
      BY <1>5 DEF Recv, RecvSignal, RecvReadHead, RecvReadTail, RecvReadSlot, RecvZeroHead,
                  receiverVars
    <3>. QED
      BY <1>1, <1>2, <1>3, <1>4, <2>2, <3>1 DEF OnlyWritten, Slots
  <2>6. InOneSlot'
    <3>1. CASE RecvSignal \/ RecvReadHead
      BY <1>1, <1>2, <2>2, <3>1 DEF RecvSignal, RecvReadHead, receiverVars, InOneSlot, Slots
    <3>2. CASE RecvReadTail
      <4>1. Position = rh /\ rh \in Nat /\ tail \in Nat
        BY <3>2 DEF RecvReadTail, Position, StaleHead, TypeOK
      <4>2. ring[rh % Capacity] \in Taken => tail <= rh
        BY <1>1, <4>1 DEF NotPublished
      <4>. QED
        BY <1>1, <1>2, <2>2, <3>2, <4>1, <4>2 DEF RecvReadTail, InOneSlot, Slots
    <3>3. CASE RecvReadSlot
      BY <1>1, <1>2, <1>4, <2>2, <3>3 DEF RecvReadSlot, InOneSlot, Slots
    <3>4. CASE RecvZeroHead
      BY <1>1, <1>2, <2>2, <3>4 DEF RecvZeroHead, InOneSlot, Slots
    <3>. QED
      BY <1>5, <3>1, <3>2, <3>3, <3>4 DEF Recv
  <2>. QED
    BY <2>2, <2>4, <2>5, <2>6 DEF OnceInv
<1>6. CASE RecvStoreHead
  <2>1. /\ rpc = "storeHead" /\ rpc' = "idle" /\ rh' = rh /\ got' = got /\ head' = rh + 1
        /\ delivered' = Append(delivered, got)
    BY <1>6 DEF RecvStoreHead, NewHead
  <2>2. Position = rh /\ Position' = rh + 1 /\ rh \in Nat
    BY <2>1 DEF Position, TypeOK
  <2>3. Taken' = Taken \union ({got} \ {Blank})
    <3>1. {delivered'[i] : i \in 1..Len(delivered')}
            = {delivered[i] : i \in 1..Len(delivered)} \union {got}
      <4>1. /\ Len(delivered') = Len(delivered) + 1 /\ Len(delivered) \in Nat
            /\ delivered'[Len(delivered) + 1] = got
            /\ \A i \in 1..Len(delivered) : delivered'[i] = delivered[i]
        BY <2>1 DEF TypeOK
      <4>2. 1..Len(delivered') = 1..Len(delivered) \union {Len(delivered) + 1}
        BY <4>1
      <4>. QED
        BY <4>1, <4>2
    <3>. QED
      BY <3>1 DEF Taken
  <2>4. AtMostOnce'
    <3>1. \A i \in 1..Len(delivered) : delivered[i] # Blank => delivered[i] # got
      BY <1>1, <2>1 DEF InOneSlot, Taken
    <3>2. /\ Len(delivered') = Len(delivered) + 1 /\ Len(delivered) \in Nat
          /\ delivered'[Len(delivered) + 1] = got
          /\ \A i \in 1..Len(delivered) : delivered'[i] = delivered[i]
      BY <2>1 DEF TypeOK
    <3>3. \A i \in 1..Len(delivered') : i \in 1..Len(delivered) \/ i = Len(delivered) + 1
      BY <3>2
    <3>. QED
      BY <1>1, <3>1, <3>2, <3>3 DEF AtMostOnce
  <2>5. OnlyWritten'
    BY <1>1, <1>2, <1>3, <2>1, <2>3 DEF OnlyWritten, Slots
  <2>6. InOneSlot'
    BY <1>1, <1>2, <2>1 DEF InOneSlot, Slots
  <2>7. NotPublished'
    <3>1. ASSUME NEW n \in Nat, n >= rh + 1, ring[n % Capacity] \in Taken \union ({got} \ {Blank})
          PROVE  /\ tail <= n
                 /\ \A r \in Senders :
                      /\ pc[r] = "clear" => t[r] <= n
                      /\ pc[r] \in {"fill", "zeroTail", "storeTail"} => t[r] < n
      <4>1. CASE ring[n % Capacity] \in Taken
        BY <1>1, <2>2, <3>1, <4>1 DEF NotPublished
      <4>2. CASE got # Blank /\ ring[n % Capacity] = got
        <5>1. n % Capacity = rh % Capacity
          <6>1. n % Capacity \in Slots
            BY DEF Slots
          <6>. QED
            BY <1>1, <2>1, <4>2, <6>1 DEF InOneSlot
        <5>2. rh + Capacity <= n
          <6>1. rh \in Nat /\ n \in Nat /\ rh < n
            BY <2>2, <3>1
          <6>2. rh % Capacity = n % Capacity
            BY <5>1
          <6>. QED
            BY <6>1, <6>2, NextOfSlot
        <5>3. tail - rh <= Capacity
          BY <2>2 DEF NeverOverfull
        <5>4. \A r \in Senders :
                pc[r] \in {"clear", "fill", "zeroTail", "storeTail"} =>
                  h[r] <= rh /\ t[r] - h[r] < Capacity
          BY <2>2 DEF StaleHead
        <5>. QED
          BY <2>2, <5>2, <5>3, <5>4 DEF TypeOK
      <4>. QED
        BY <3>1, <4>1, <4>2
    <3>. QED
      BY <1>2, <2>2, <2>3, <3>1 DEF NotPublished
  <2>. QED
    BY <2>4, <2>5, <2>6, <2>7 DEF OnceInv
<1>. QED
  BY <1>5, <1>6

\* However many processes race in inbox_send, with whatever stale words, no
\* envelope comes out of the inbox twice.
THEOREM TakenOnce == Spec => []AtMostOnce
<1>1. TypeOK /\ TypeOK' /\ StaleHead /\ NeverOverfull /\ OnceInv /\ [Next]_vars => OnceInv'
  <2>1. ASSUME OnceInv, UNCHANGED vars
        PROVE  OnceInv'
    BY <2>1 DEF vars, senderVars, receiverVars, OnceInv, OnlyWritten, WasWritten, InOneSlot,
                NotPublished, AtMostOnce, Taken, Position, Slots
  <2>. QED
    BY <2>1, SendOnce, RecvOnce DEF Next
<1>2. OnceInv => AtMostOnce
  BY DEF OnceInv
<1>. QED
  BY <1>1, <1>2, OnceInit, Typing, RingInvariant, PTL DEF Spec
------------------------------------------------------------------------------
(* With a single sender the ring in shared memory implements the Mailbox.   *)

LEMMA TheSenderIs ==
  ASSUME SingleSender
  PROVE  TheSender \in Senders /\ Senders = {TheSender}
  BY DEF SingleSender, TheSender

\* Indices less than Capacity apart live in different ring slots.
LEMMA DistinctSlots ==
  ASSUME NEW i \in Nat, NEW j \in Nat, i < j, j - i < Capacity
  PROVE  i % Capacity # j % Capacity
<1> USE InboxAssumption
<1>1. SUFFICES ASSUME i % Capacity = j % Capacity PROVE FALSE
  OBVIOUS
<1> DEFINE a == i \div Capacity
           b == j \div Capacity
<1>2. a \in Int /\ b \in Int /\ i = Capacity * a + (i % Capacity)
        /\ j = Capacity * b + (j % Capacity)
  OBVIOUS
<1>3. j - i = Capacity * (b - a)
  BY <1>1, <1>2
<1> HIDE DEF a, b
<1>4. b - a > 0
  <2>1. ASSUME b - a <= 0 PROVE Capacity * (b - a) <= 0
    BY <1>2, <2>1
  <2>. QED
    BY <1>2, <1>3, <2>1
<1>5. Capacity * (b - a) >= Capacity
  BY <1>2, <1>4
<1>. QED
  BY <1>3, <1>5

LEMMA SlotInRing == ASSUME NEW i \in Nat PROVE i % Capacity \in Slots
  BY InboxAssumption DEF Slots

LEMMA SingleInit ==
  ASSUME SingleSender, Init
  PROVE  SingleInv
  BY TheSenderIs, InboxAssumption
  DEF Init, SingleInv, TailKnown, Ordered, WholeEnvelopes, SlotFilled,
      ReadsPublished, Published, Position, Reserving

\* The facts every step below starts from.
Known == TypeOK /\ StaleHead /\ NeverOverfull /\ SingleInv

\* The slot the sender works in holds no published message.
LEMMA ReservedSlotIsFree ==
  ASSUME SingleSender, Known, pc[TheSender] \in Reserving,
         NEW i \in Position..(Published - 1)
  PROVE  i \in Nat /\ i % Capacity # t[TheSender] % Capacity
<1> USE TheSenderIs, InboxAssumption
<1>1. /\ Position \in Nat /\ Published = t[TheSender] /\ t[TheSender] \in Nat
      /\ t[TheSender] - Position < Capacity
  BY DEF Known, TypeOK, SingleInv, TailKnown, StaleHead, Position, Reserving
<1>2. i \in Nat /\ i < t[TheSender] /\ t[TheSender] - i < Capacity
  BY <1>1
<1>. QED
  BY <1>1, <1>2, DistinctSlots

LEMMA SingleSend ==
  ASSUME SingleSender, Known, Send(TheSender)
  PROVE  SingleInv'
<1> DEFINE s == TheSender
<1> USE TheSenderIs, InboxAssumption
<1> USE DEF receiverVars, Goto
<1>t. TypeOK /\ s \in Senders
  BY DEF Known
<1> HIDE DEF s
<1>1. CASE SendReadHead(s)
  BY <1>t, <1>1 DEF s, SendReadHead, Known, TypeOK, SingleInv, TailKnown, Ordered,
     WholeEnvelopes, SlotFilled, ReadsPublished, Published, Position, Reserving
<1>2. CASE SendReadTail(s)
  BY <1>t, <1>2 DEF s, SendReadTail, Known, TypeOK, SingleInv, TailKnown, Ordered,
     WholeEnvelopes, SlotFilled, ReadsPublished, Published, Position, Reserving
<1>3. CASE SendClearSlot(s)
  <2>1. pc[s] \in Reserving /\ pc'[s] = "fill" /\ Published' = Published
          /\ Position' = Position /\ t' = t
    BY <1>t, <1>3 DEF s, SendClearSlot, TypeOK, Published, Position, Reserving
  <2>2. WholeEnvelopes'
    BY <1>t, <1>3, <2>1, ReservedSlotIsFree, SlotInRing
    DEF s, SendClearSlot, Known, TypeOK, SingleInv, WholeEnvelopes
  <2>3. ReadsPublished'
    <3>1. rpc \in {"readSlot", "zeroHead", "storeHead"} =>
            rh \in Position..(Published - 1)
      BY TheSenderIs DEF Known, TypeOK, StaleHead, SingleInv, ReadsPublished,
                         Position, Published
    <3>2. rpc \in {"readSlot", "zeroHead", "storeHead"} =>
            ring'[rh % Capacity] = ring[rh % Capacity]
      BY <1>t, <1>3, <2>1, <3>1, ReservedSlotIsFree, SlotInRing
      DEF s, SendClearSlot, TypeOK
    <3>. QED
      BY <1>3, <2>1, <3>2 DEF SendClearSlot, Known, SingleInv, ReadsPublished,
                               receiverVars
  <2>. QED
    BY <1>t, <1>3, <2>1, <2>2, <2>3
    DEF s, Known, SingleInv, TailKnown, Ordered, SlotFilled
<1>4. CASE SendFillSlot(s)
  <2>1. pc[s] \in Reserving /\ pc'[s] = "zeroTail" /\ Published' = Published
          /\ Position' = Position /\ t' = t /\ sent' = sent
    BY <1>t, <1>4 DEF s, SendFillSlot, TypeOK, Published, Position, Reserving
  <2>2. WholeEnvelopes'
    BY <1>t, <1>4, <2>1, ReservedSlotIsFree, SlotInRing
    DEF s, SendFillSlot, Known, TypeOK, SingleInv, WholeEnvelopes
  <2>3. ReadsPublished'
    <3>1. rpc \in {"readSlot", "zeroHead", "storeHead"} =>
            rh \in Position..(Published - 1)
      BY TheSenderIs DEF Known, TypeOK, StaleHead, SingleInv, ReadsPublished,
                         Position, Published
    <3>2. rpc \in {"readSlot", "zeroHead", "storeHead"} =>
            ring'[rh % Capacity] = ring[rh % Capacity]
      BY <1>t, <1>4, <2>1, <3>1, ReservedSlotIsFree, SlotInRing
      DEF s, SendFillSlot, TypeOK
    <3>. QED
      BY <1>4, <2>1, <3>2 DEF SendFillSlot, Known, SingleInv, ReadsPublished,
                               receiverVars
  <2>4. SlotFilled'
    BY <1>t, <1>4, <2>1, SlotInRing
    DEF s, SendFillSlot, TypeOK, SlotFilled, Msg
  <2>. QED
    BY <1>t, <1>4, <2>1, <2>2, <2>3, <2>4
    DEF s, Known, SingleInv, TailKnown, Ordered
<1>5. CASE SendZeroTail(s)
  BY <1>t, <1>5 DEF s, SendZeroTail, Known, TypeOK, SingleInv, TailKnown, Ordered,
     WholeEnvelopes, SlotFilled, ReadsPublished, Published, Position, Reserving, Msg
<1>6. CASE SendStoreTail(s)
  <2>1. /\ pc[s] = "storeTail" /\ pc'[s] = "signal" /\ Published = t[s]
        /\ Published' = t[s] + 1 /\ Position' = Position /\ ring' = ring
        /\ t[s] \in Nat /\ Position \in Nat
    BY <1>t, <1>6 DEF s, SendStoreTail, TypeOK, Published, Position
  <2>2. WholeEnvelopes'
    <3> SUFFICES ASSUME NEW i \in Position..t[s] PROVE ring[i % Capacity] \in Message
      BY <2>1 DEF WholeEnvelopes
    <3>1. CASE i = t[s]
      BY <1>t, <2>1, <3>1 DEF s, Known, SingleInv, SlotFilled, TypeOK
    <3>2. CASE i # t[s]
      BY <2>1, <3>2 DEF Known, SingleInv, WholeEnvelopes
    <3>. QED
      BY <3>1, <3>2
  <2>. QED
    BY <1>t, <1>6, <2>1, <2>2
    DEF s, SendStoreTail, Known, TypeOK, SingleInv, TailKnown, Ordered,
        SlotFilled, ReadsPublished, Reserving
<1>7. CASE SendSignal(s)
  BY <1>t, <1>7 DEF s, SendSignal, Known, TypeOK, SingleInv, TailKnown, Ordered,
     WholeEnvelopes, SlotFilled, ReadsPublished, Published, Position, Reserving
<1>. QED
  BY <1>1, <1>2, <1>3, <1>4, <1>5, <1>6, <1>7 DEF Send, s

LEMMA SingleRecv ==
  ASSUME SingleSender, Known, Recv
  PROVE  SingleInv'
<1> USE TheSenderIs, InboxAssumption
<1> USE DEF senderVars, Known, TypeOK, StaleHead, SingleInv, TailKnown, Ordered,
            WholeEnvelopes, SlotFilled, ReadsPublished, Published, Position,
            Reserving, Msg
<1>1. CASE RecvSignal
  BY <1>1 DEF RecvSignal, receiverVars
<1>2. CASE RecvReadHead
  BY <1>2 DEF RecvReadHead
<1>3. CASE RecvReadTail
  BY <1>3 DEF RecvReadTail
<1>4. CASE RecvReadSlot
  BY <1>4 DEF RecvReadSlot
<1>5. CASE RecvZeroHead
  BY <1>5 DEF RecvZeroHead
<1>6. CASE RecvStoreHead
  <2>1. Position' = Position + 1 /\ Position = rh /\ Published' = Published
    BY <1>6 DEF RecvStoreHead, NewHead
  <2>2. Ordered' /\ TailKnown' /\ SlotFilled' /\ ReadsPublished'
    BY <1>6, <2>1 DEF RecvStoreHead, NewHead
  <2>3. ring' = ring /\ Position \in Nat /\ Published \in Nat
    BY <1>6 DEF RecvStoreHead, NewHead
  <2>4. WholeEnvelopes'
    <3>. HIDE DEF Position, Published, TypeOK
    <3>. QED
      BY <2>1, <2>3
  <2>. QED
    BY <2>2, <2>4
<1>. QED
  BY <1>1, <1>2, <1>3, <1>4, <1>5, <1>6 DEF Recv

LEMMA SingleStutter == ASSUME SingleInv, UNCHANGED vars PROVE SingleInv'
  BY DEF vars, SingleInv, TailKnown, Ordered, WholeEnvelopes, SlotFilled,
         ReadsPublished, Published, Position, Reserving, Msg

\* The invariant behind the refinement: published envelopes are whole, the
\* receiver stays behind the sender and what it read is still in the ring.
THEOREM SingleInvariant ==
  ASSUME SingleSender
  PROVE  Spec => []SingleInv
<1>1. Known /\ [Next]_vars => SingleInv'
  BY SingleSend, SingleRecv, SingleStutter, TheSenderIs DEF Next, Known
<1>. QED
  BY <1>1, SingleInit, Typing, RingInvariant, PTL DEF Spec, Known
------------------------------------------------------------------------------
(* Windows of the ring, as sequences.                                      *)

LEMMA WindowSeq ==
  ASSUME NEW S, NEW r \in [Slots -> S], NEW a \in Nat, NEW b \in Nat, a <= b
  PROVE  Window(r, a, b) \in Seq(S) /\ Len(Window(r, a, b)) = b - a
<1> DEFINE n == b - a
<1>1. n \in Nat
  OBVIOUS
<1>2. \A i \in 1..n : r[(a + i - 1) % Capacity] \in S
  <2> SUFFICES ASSUME NEW i \in 1..n PROVE r[(a + i - 1) % Capacity] \in S
    OBVIOUS
  <2>1. a + i - 1 \in Nat
    OBVIOUS
  <2>. QED
    BY <2>1, SlotInRing
<1> HIDE DEF n
<1>3. [i \in 1..n |-> r[(a + i - 1) % Capacity]] \in Seq(S)
  BY <1>1, <1>2
<1>. QED
  BY <1>1, <1>3 DEF Window, n

LEMMA WindowAt ==
  ASSUME NEW r, NEW a \in Nat, NEW b \in Nat, NEW i \in 1..(b - a)
  PROVE  Window(r, a, b)[i] = r[(a + i - 1) % Capacity]
  BY DEF Window

LEMMA SameSeq ==
  ASSUME NEW S, NEW x \in Seq(S), NEW y \in Seq(S), Len(x) = Len(y),
         \A i \in 1..Len(x) : x[i] = y[i]
  PROVE  x = y
  BY SeqEqual

LEMMA WindowAppend ==
  ASSUME NEW S, NEW r \in [Slots -> S], NEW a \in Nat, NEW b \in Nat, a <= b
  PROVE  Window(r, a, b + 1) = Append(Window(r, a, b), r[b % Capacity])
<1> DEFINE w == Window(r, a, b)
           v == Window(r, a, b + 1)
           e == r[b % Capacity]
           x == Append(w, e)
<1>1. w \in Seq(S) /\ Len(w) = b - a
  BY WindowSeq
<1>2. b + 1 \in Nat /\ a <= b + 1
  OBVIOUS
<1>3. v \in Seq(S) /\ Len(v) = b + 1 - a
  BY <1>2, WindowSeq
<1>4. \A i \in 1..(b - a) : w[i] = r[(a + i - 1) % Capacity]
  BY WindowAt
<1>5. \A i \in 1..(b + 1 - a) : v[i] = r[(a + i - 1) % Capacity]
  BY <1>2, WindowAt
<1>6. e \in S
  BY SlotInRing
<1> HIDE DEF w, v, e
<1>7. /\ x \in Seq(S) /\ Len(x) = b + 1 - a
      /\ \A i \in 1..(b - a) : x[i] = w[i]
      /\ x[b + 1 - a] = e
  <2>1. /\ x \in Seq(S) /\ Len(x) = Len(w) + 1
        /\ \A i \in 1..Len(w) : x[i] = w[i]
        /\ x[Len(w) + 1] = e
    BY <1>1, <1>6, AppendProperties
  <2>. QED
    BY <1>1, <2>1
<1> HIDE DEF x
<1>8. ASSUME NEW i \in 1..(b + 1 - a) PROVE x[i] = v[i]
  <2>1. CASE i \in 1..(b - a)
    BY <1>4, <1>5, <1>7, <2>1
  <2>2. CASE i = b + 1 - a
    <3>1. a + i - 1 = b
      BY <2>2
    <3>. QED
      BY <1>5, <1>7, <2>2, <3>1 DEF e
  <2>. QED
    BY <2>1, <2>2
<1>9. v = x
  BY <1>3, <1>7, <1>8, SameSeq
<1>. QED
  BY <1>9 DEF w, v, e, x

LEMMA WindowTail ==
  ASSUME NEW S, NEW r \in [Slots -> S], NEW a \in Nat, NEW b \in Nat, a < b
  PROVE  /\ Window(r, a, b) # <<>>
         /\ Head(Window(r, a, b)) = r[a % Capacity]
         /\ Window(r, a + 1, b) = Tail(Window(r, a, b))
<1> DEFINE w == Window(r, a, b)
           v == Window(r, a + 1, b)
           x == Tail(w)
<1>0. a <= b /\ a + 1 \in Nat /\ a + 1 <= b /\ 1 \in 1..(b - a)
  OBVIOUS
<1>1. w \in Seq(S) /\ Len(w) = b - a
  BY <1>0, WindowSeq
<1>2. v \in Seq(S) /\ Len(v) = b - (a + 1)
  BY <1>0, WindowSeq
<1>3. \A i \in 1..(b - a) : w[i] = r[(a + i - 1) % Capacity]
  BY WindowAt
<1>4. \A i \in 1..(b - (a + 1)) : v[i] = r[((a + 1) + i - 1) % Capacity]
  BY <1>0, WindowAt
<1> HIDE DEF w, v
<1>5. w # <<>> /\ Head(w) = w[1]
  BY <1>1
<1>6. w[1] = r[a % Capacity]
  <2>1. a + 1 - 1 = a
    OBVIOUS
  <2>. QED
    BY <1>0, <1>3, <2>1
<1>7. /\ x \in Seq(S) /\ Len(x) = b - (a + 1)
      /\ \A i \in 1..(b - (a + 1)) : x[i] = w[i + 1]
  <2>1. /\ x \in Seq(S) /\ Len(x) = Len(w) - 1
        /\ \A i \in 1..Len(x) : x[i] = w[i + 1]
    BY <1>1, <1>5, HeadTailProperties
  <2>. QED
    BY <1>1, <2>1
<1> HIDE DEF x
<1>8. ASSUME NEW i \in 1..(b - (a + 1)) PROVE x[i] = v[i]
  <2>1. i + 1 \in 1..(b - a) /\ a + (i + 1) - 1 = (a + 1) + i - 1
    OBVIOUS
  <2>. QED
    BY <1>3, <1>4, <1>7, <2>1
<1>9. v = x
  BY <1>2, <1>7, <1>8, SameSeq
<1>. QED
  BY <1>5, <1>6, <1>9 DEF w, v, x
------------------------------------------------------------------------------
(* Each step of Inbox is a step of the queue, or leaves the queue alone.   *)

Envelope == Message \union {Blank}

LEMMA Positions ==
  ASSUME SingleSender, Known
  PROVE  /\ Position \in Nat /\ Published \in Nat /\ Position <= Published
         /\ ring \in [Slots -> Envelope]
  BY TheSenderIs
  DEF Known, TypeOK, SingleInv, Ordered, Position, Published, Envelope

\* A step that moves neither position and disturbs no published envelope is
\* a stutter of the queue.
LEMMA Frame ==
  ASSUME SingleSender, Known, Position' = Position, Published' = Published,
         \A i \in Position..(Published - 1) : ring'[i % Capacity] = ring[i % Capacity]
  PROVE  Waiting' = Waiting
<1>1. Position \in Nat /\ Published \in Nat
  BY Positions
<1>2. \A i \in 1..(Published - Position) :
        Position + i - 1 \in Position..(Published - 1)
  BY <1>1
<1>. QED
  BY <1>1, <1>2 DEF Waiting, Window

\* Storing the tail is the Put: it appends the message just filled in.
LEMMA PutStep ==
  ASSUME SingleSender, Known, SendStoreTail(TheSender)
  PROVE  Promise!Next
<1> DEFINE s == TheSender
           m == Msg(s)
<1>1. /\ s \in Senders /\ pc[s] = "storeTail" /\ pc'[s] = "signal"
      /\ Published = t[s] /\ Published' = t[s] + 1
      /\ Position' = Position /\ ring' = ring /\ delivered' = delivered
      /\ t[s] - Position < Capacity
  <2>1. s \in Senders
    BY TheSenderIs
  <2>2. pc[s] = "storeTail" /\ t[s] - h[s] < Capacity /\ h[s] <= Position
    BY <2>1 DEF SendStoreTail, Known, StaleHead
  <2>3. /\ t[s] \in Nat /\ h[s] \in Nat /\ Position \in Nat /\ Capacity \in Nat
    BY <2>1, InboxAssumption DEF Known, TypeOK, Position
  <2>. QED
    BY <2>1, <2>2, <2>3 DEF SendStoreTail, Known, TypeOK, Published, Position,
       receiverVars, Goto
<1>2. m \in Message /\ ring[t[s] % Capacity] = m
  BY <1>1 DEF Known, TypeOK, SingleInv, SlotFilled
<1> HIDE DEF s, m
<1>3. /\ Position \in Nat /\ Published \in Nat /\ Position <= Published
      /\ ring \in [Slots -> Envelope]
  BY Positions
<1>4. Waiting' = Window(ring, Position, Published + 1)
  <2>1. Published' = Published + 1
    BY <1>1
  <2>. QED
    BY <1>1, <2>1 DEF Waiting
<1>5. Waiting' = Append(Waiting, m)
  <2>1. Window(ring, Position, Published + 1) =
          Append(Window(ring, Position, Published), ring[Published % Capacity])
    BY <1>3, WindowAppend
  <2>. QED
    BY <1>1, <1>2, <1>4, <2>1 DEF Waiting
<1>6. Len(Waiting) < Capacity
  BY <1>1, <1>3, WindowSeq DEF Waiting
<1>. QED
  BY <1>1, <1>2, <1>5, <1>6 DEF Promise!Next, Promise!Put

\* Storing the head is the Take: it drops the oldest message and delivers it.
LEMMA TakeStep ==
  ASSUME SingleSender, Known, RecvStoreHead
  PROVE  Promise!Next
<1>1. /\ Position = rh /\ Position' = rh + 1 /\ Published' = Published
      /\ ring' = ring /\ rh < Published /\ got = ring[rh % Capacity]
      /\ delivered' = Append(delivered, got)
  BY DEF RecvStoreHead, NewHead, Known, SingleInv, ReadsPublished, Position, Published,
         senderVars
<1>2. /\ Position \in Nat /\ Published \in Nat /\ Position < Published
      /\ ring \in [Slots -> Envelope]
  BY <1>1, Positions
<1>3. Waiting' = Window(ring, Position + 1, Published)
  BY <1>1 DEF Waiting
<1>4. /\ Waiting # <<>> /\ Head(Waiting) = ring[Position % Capacity]
      /\ Window(ring, Position + 1, Published) = Tail(Waiting)
  BY <1>2, WindowTail DEF Waiting
<1>. QED
  BY <1>1, <1>3, <1>4 DEF Promise!Next, Promise!Take

\* Every other step leaves the published envelopes as they are.
LEMMA StutterStep ==
  ASSUME SingleSender, Known, [Next]_vars, ~SendStoreTail(TheSender), ~RecvStoreHead
  PROVE  UNCHANGED <<Waiting, delivered>>
<1> DEFINE s == TheSender
<1> USE TheSenderIs
<1>1. CASE Recv \/ UNCHANGED vars
  <2>1. Position' = Position /\ Published' = Published /\ ring' = ring
          /\ delivered' = delivered
    BY <1>1 DEF vars, Recv, RecvSignal, RecvReadHead, RecvReadTail, RecvReadSlot,
       RecvZeroHead, senderVars, receiverVars, Position, Published,
       Known, StaleHead
  <2>. QED
    BY <2>1, Frame
<1>2. CASE SendClearSlot(s) \/ SendFillSlot(s)
  <2>1. /\ pc[s] \in Reserving /\ Position' = Position
        /\ Published' = Published /\ delivered' = delivered
    BY <1>2 DEF SendClearSlot, SendFillSlot, Known, TypeOK, Position, Published,
       Reserving, Goto, receiverVars
  <2>2. \A i \in Position..(Published - 1) : ring'[i % Capacity] = ring[i % Capacity]
    BY <1>2, <2>1, ReservedSlotIsFree, SlotInRing
    DEF SendClearSlot, SendFillSlot, Known, TypeOK
  <2>. QED
    BY <2>1, <2>2, Frame
<1>3. CASE SendReadHead(s) \/ SendReadTail(s) \/ SendZeroTail(s) \/ SendSignal(s)
  <2>1. Position' = Position /\ Published' = Published /\ ring' = ring
          /\ delivered' = delivered
    BY <1>3 DEF SendReadHead, SendReadTail, SendZeroTail, SendSignal, Known,
       TypeOK, SingleInv, TailKnown, Position, Published, Reserving, Goto,
       receiverVars
  <2>. QED
    BY <2>1, Frame
<1>. QED
  BY <1>1, <1>2, <1>3 DEF Next, Send

LEMMA PromiseInit ==
  ASSUME SingleSender, Init
  PROVE  Promise!Init
<1>1. Position = 0 /\ Published = 0 /\ delivered = <<>>
  BY TheSenderIs DEF Init, Position, Published
<1>2. Waiting = <<>>
  BY <1>1 DEF Waiting, Window
<1>. QED
  BY <1>1, <1>2 DEF Promise!Init

\* For one sender and one receiver, any capacity and any number of messages,
\* inbox_send and inbox_recv behave as a bounded FIFO queue.
THEOREM RingIsMailbox ==
  ASSUME SingleSender
  PROVE  Spec => Implements
<1>1. Known /\ [Next]_vars => [Promise!Next]_<<Waiting, delivered>>
  BY PutStep, TakeStep, StutterStep
<1>. QED
  BY <1>1, PromiseInit, Typing, RingInvariant, SingleInvariant, PTL
  DEF Spec, Implements, Promise!Spec, Known
==============================================================================
