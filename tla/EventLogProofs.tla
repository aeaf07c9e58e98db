---------------------------- MODULE EventLogProofs ---------------------------
(***************************************************************************)
(* What the event log promises while one process appends to it, for every  *)
(* size of the ring, number of appends and length of the tail.  With two   *)
(* appending processes numbers are given out twice and neither theorem     *)
(* holds (run LogRace).                                                    *)
(***************************************************************************)
EXTENDS EventLog, SequenceTheorems, TLAPS

(* Type correctness, for any number of appending processes.                *)

LEMMA SlotInRing == ASSUME NEW k \in Nat PROVE Slot(k) \in Slots
  BY LogAssumption DEF Slot, Slots

LEMMA InitTypes == Init => TypeOK
<1>1. Empty \in Entry
  BY DEF Empty, Entry, Content
<1>. QED
  BY <1>1, LogAssumption, EmptySeq DEF Init, TypeOK

LEMMA AppendTypes ==
  ASSUME TypeOK, NEW w \in Writers, Append1(w)
  PROVE  TypeOK'
<1> USE LogAssumption
<1>1. CASE ReadHead(w)
  <2> USE DEF TypeOK, Goto, Msg, readerVars
  <2>1. count[w] + 1 \in 1..MaxAppends
    BY <1>1 DEF ReadHead
  <2>2. count' \in [Writers -> 0..MaxAppends] /\ <<w, count'[w]>> \in Message
    BY <1>1, <2>1 DEF ReadHead, Message
  <2>3. ASSUME NEW v \in Writers, pc'[v] # "idle" PROVE Msg(v)' \in Message
    BY <1>1, <2>2, <2>3 DEF ReadHead
  <2>. QED
    BY <1>1, <2>2, <2>3 DEF ReadHead
<1>2. CASE ZeroHead(w)
  BY <1>2 DEF ZeroHead, TypeOK, Goto, Msg, readerVars
<1>3. CASE StoreHead(w)
  BY <1>3 DEF StoreHead, TypeOK, Goto, Msg, readerVars
<1>4. number[w] \in Nat /\ entry[Slot(number[w])] \in Entry
  BY SlotInRing DEF TypeOK
<1>5. pc[w] # "idle" => Msg(w) \in Content /\ Msg(w) \in Message
  BY DEF TypeOK, Content
<1>6. ASSUME NEW e \in Entry, NEW from, NEW to \in {"number", "key", "value", "idle"},
             from # "idle", Pack(w, Slot(number[w]), e, from, to),
             \/ UNCHANGED appended
             \/ appended' = appended \union {<<number[w], Msg(w)>>}
      PROVE  TypeOK'
  <2>1. pc[w] = from /\ Msg(w) \in Message
    BY <1>5, <1>6 DEF Pack
  <2>2. appended' \subseteq Nat \X Message
    BY <1>4, <1>6, <2>1 DEF TypeOK
  <2>3. entry' \in [Slots -> Entry]
    BY <1>6 DEF TypeOK, Pack
  <2>4. ASSUME NEW v \in Writers, pc'[v] # "idle" PROVE Msg(v)' \in Message
    BY <1>6, <2>1, <2>4 DEF TypeOK, Pack, Goto, Msg
  <2>. QED
    BY <1>6, <2>2, <2>3, <2>4 DEF TypeOK, Pack, Goto, readerVars
<1>7. CASE ClearEntry(w)
  <2>1. Empty \in Entry
    BY DEF Empty, Entry, Content
  <2>. QED
    BY <1>7, <2>1, <1>6 DEF ClearEntry
<1>8. CASE FillNumber(w)
  <2>1. PICK e : e = [entry[Slot(number[w])] EXCEPT !.seq = number[w]]
    OBVIOUS
  <2>2. e \in Entry
    BY <1>4, <2>1 DEF Entry
  <2>. QED
    BY <1>8, <2>1, <2>2, <1>6 DEF FillNumber
<1>9. CASE FillKey(w)
  <2>1. PICK e : e = [entry[Slot(number[w])] EXCEPT !.key = Msg(w)]
    OBVIOUS
  <2>2. e \in Entry
    BY <1>4, <1>5, <1>9, <2>1 DEF Entry, FillKey, Pack
  <2>. QED
    BY <1>9, <2>1, <2>2, <1>6 DEF FillKey
<1>10. CASE FillValue(w)
  <2>1. PICK e : e = [entry[Slot(number[w])] EXCEPT !.value = Msg(w)]
    OBVIOUS
  <2>2. e \in Entry
    BY <1>4, <1>5, <1>10, <2>1 DEF Entry, FillValue, LastField, Pack
  <2>. QED
    BY <1>10, <2>1, <2>2, <1>6 DEF FillValue, LastField
<1>. QED
  BY <1>1, <1>2, <1>3, <1>7, <1>8, <1>9, <1>10 DEF Append1

\* A poll begins at some number from one on.
LEMMA OldestIsNumber == ASSUME NEW n \in Nat PROVE Oldest(n) \in Nat \ {0}
<1> DEFINE m == n - TailLength + 1
<1>1. m \in Int
  BY LogAssumption
<1>2. Oldest(n) = IF m > 1 THEN m ELSE 1
  BY <1>1 DEF Oldest, Max
<1>. QED
  BY <1>1, <1>2

\* The last of the collected entries with a field of entry e put in.
LEMMA LastUpdated ==
  ASSUME NEW t \in Seq(Entry), Len(t) > 0, NEW e \in Entry, NEW u,
         \/ u = [t EXCEPT ![Len(t)].key = e.key]
         \/ u = [t EXCEPT ![Len(t)].value = e.value]
  PROVE  /\ u \in Seq(Entry) /\ Len(u) = Len(t)
         /\ \A k \in 1..Len(t) : k # Len(t) => u[k] = t[k]
         /\ u[Len(t)] \in {[t[Len(t)] EXCEPT !.key = e.key], [t[Len(t)] EXCEPT !.value = e.value]}
         /\ u = [t EXCEPT ![Len(t)].key = e.key] =>
              u[Len(t)] = [t[Len(t)] EXCEPT !.key = e.key]
         /\ u = [t EXCEPT ![Len(t)].value = e.value] =>
              u[Len(t)] = [t[Len(t)] EXCEPT !.value = e.value]
<1>1. PICK n \in 1..Len(t) : n = Len(t)
  BY LenProperties
<1>2. t[n] \in Entry
  BY <1>1, ElementOfSeq
<1>3. e.key \in Content /\ e.value \in Content
  BY DEF Entry
<1>4. ASSUME NEW f \in Entry, u = [t EXCEPT ![n] = f]
      PROVE  /\ u \in Seq(Entry) /\ Len(u) = Len(t) /\ u[n] = f
             /\ \A k \in 1..Len(t) : k # n => u[k] = t[k]
  BY <1>1, <1>4, ExceptSeq
<1>5. CASE u = [t EXCEPT ![Len(t)].key = e.key]
  <2>1. PICK f : f = [t[n] EXCEPT !.key = e.key]
    OBVIOUS
  <2>2. f \in Entry
    BY <1>2, <1>3, <2>1 DEF Entry
  <2>3. u = [t EXCEPT ![n] = f]
    BY <1>1, <1>5, <2>1
  <2>4. /\ u \in Seq(Entry) /\ Len(u) = Len(t) /\ u[n] = f
        /\ \A k \in 1..Len(t) : k # n => u[k] = t[k]
    BY <2>2, <2>3, <1>4
  <2>5. u = [t EXCEPT ![Len(t)].value = e.value] =>
          u[Len(t)] = [t[Len(t)] EXCEPT !.value = e.value]
    BY <1>1
  <2>. QED
    BY <1>1, <2>1, <2>4, <2>5
<1>6. CASE u = [t EXCEPT ![Len(t)].value = e.value]
  <2>1. PICK f : f = [t[n] EXCEPT !.value = e.value]
    OBVIOUS
  <2>2. f \in Entry
    BY <1>2, <1>3, <2>1 DEF Entry
  <2>3. u = [t EXCEPT ![n] = f]
    BY <1>1, <1>6, <2>1
  <2>4. /\ u \in Seq(Entry) /\ Len(u) = Len(t) /\ u[n] = f
        /\ \A k \in 1..Len(t) : k # n => u[k] = t[k]
    BY <2>2, <2>3, <1>4
  <2>5. u = [t EXCEPT ![Len(t)].key = e.key] =>
          u[Len(t)] = [t[Len(t)] EXCEPT !.key = e.key]
    BY <1>1
  <2>. QED
    BY <1>1, <2>1, <2>4, <2>5
<1>. QED
  BY <1>5, <1>6

LEMMA PollTypes ==
  ASSUME TypeOK, Poll
  PROVE  TypeOK'
<1> USE DEF TypeOK, Msg, writerVars
<1>1. CASE PollHead
  <2>1. Oldest(head) \in Nat \ {0} /\ tail' \in Seq(Entry)
    BY <1>1, OldestIsNumber, EmptySeq DEF PollHead
  <2>2. settled' \subseteq Nat
    BY <1>1 DEF PollHead
  <2>. QED
    BY <1>1, <2>1, <2>2 DEF PollHead
<1>2. CASE PollDone
  BY <1>2 DEF PollDone
<1>5. Slot(cursor) \in Slots /\ entry[Slot(cursor)] \in Entry
  BY SlotInRing
<1>3. CASE PollNumber
  <2>2. PICK e \in Entry : e = [Empty EXCEPT !.seq = entry[Slot(cursor)].seq]
    BY <1>5 DEF Content, Entry, Empty
  <2>3. tail' = tail \/ tail' = Append(tail, e)
    BY <1>3, <2>2 DEF PollNumber
  <2>4. tail' \in Seq(Entry) /\ (tail' = Append(tail, e) => Len(tail') > 0)
    <3>1. tail \in Seq(Entry)
      OBVIOUS
    <3> HIDE DEF TypeOK
    <3>. QED
      BY <2>2, <2>3, <3>1, AppendProperties, LenProperties
  <2>. QED
    BY <1>3, <2>2, <2>4 DEF PollNumber
<1>4. CASE PollKey
  <2>1. tail' \in Seq(Entry) /\ Len(tail') = Len(tail)
    BY <1>4, <1>5, LastUpdated DEF PollKey
  <2>. QED
    BY <1>4, <2>1 DEF PollKey
<1>6. CASE PollValue
  <2>1. tail' \in Seq(Entry) /\ Len(tail') = Len(tail)
    BY <1>5, <1>6, LastUpdated DEF PollValue
  <2>. QED
    BY <1>6, <2>1 DEF PollValue
<1>. QED
  BY <1>1, <1>2, <1>3, <1>4, <1>6 DEF Poll

\* The state space of EventLog: numbers are naturals, slots hold messages or
\* nothing, a poll's tail is a sequence of entries.
THEOREM Typing == Spec => []TypeOK
<1>1. TypeOK /\ [Next]_vars => TypeOK'
  <2> SUFFICES ASSUME TypeOK, [Next]_vars PROVE TypeOK'
    OBVIOUS
  <2>1. CASE UNCHANGED vars
    BY <2>1 DEF vars, TypeOK, Msg
  <2>. QED
    BY <2>1, AppendTypes, PollTypes DEF Next
<1>. QED
  BY InitTypes, <1>1, PTL DEF Spec
------------------------------------------------------------------------------
(* One appending process.                                                  *)

\* The appends that have returned are 1 to Done(w).
Done(w) == IF pc[w] = "idle" THEN number[w] ELSE number[w] - 1

\* The numbers that have been stored in the ring are 1 to Begun(w).
Begun(w) == IF pc[w] \in {"idle", "key", "value"} THEN number[w] ELSE number[w] - 1

\* The writer counts its appends, and the head word follows it.
Numbering(w) ==
  /\ number[w] = count[w]
  /\ pc[w] # "idle" => number[w] > 0
  /\ pc[w] \notin {"zeroHead", "storeHead"} => head = number[w]

Returned(w) ==
  /\ appended = {<<k, <<w, k>>>> : k \in 1..Done(w)}
  /\ settled \subseteq 1..Done(w)

\* The youngest entries are in their slots.
Kept(w) ==
  \A k \in 1..Done(w) :
    k > number[w] - Capacity =>
      entry[Slot(k)] = [seq |-> k, key |-> <<w, k>>, value |-> <<w, k>>]

\* And so is what there is of the one that is being stored.
HalfWritten(w) ==
  pc[w] \in {"number", "key", "value"} =>
    entry[Slot(number[w])] =
      [seq |-> IF pc[w] = "number" THEN 0 ELSE number[w],
       key |-> IF pc[w] = "value" THEN <<w, number[w]>> ELSE Blank,
       value |-> Blank]

\* A slot bears no number that has not been stored.
NoneAhead(w) == \A x \in Slots : entry[x].seq \in 0..Begun(w)

\* A field that is shown under number n.
FieldOf(w, n, field) ==
  \/ field = <<w, n>>
  \/ field = Blank /\ n \notin settled
  \/ number[w] >= n + Capacity

Genuine(w, e) == FieldOf(w, e.seq, e.key) /\ FieldOf(w, e.seq, e.value)

\* A poll in the middle of an entry is at one whose number was stored.
AtEntry(w) ==
  rpc \in {"key", "value"} =>
    /\ Len(tail) > 0 /\ tail[Len(tail)].seq = cursor
    /\ rpc = "value" => FieldOf(w, cursor, tail[Len(tail)].key)

\* The numbers collected are those asked for, in their order.
Collected(w) ==
  /\ cursor >= Oldest(top)
  /\ rpc \in {"key", "value"} => cursor <= top
  /\ \A i \in 1..Len(tail) :
       /\ tail[i].seq \in Oldest(top)..top /\ tail[i].seq <= Begun(w)
       /\ (rpc \in {"key", "value"} => i < Len(tail)) => tail[i].seq < cursor
  /\ \A i, j \in 1..Len(tail) : i < j => tail[i].seq < tail[j].seq

\* All that a poll has collected, but for an entry it has part of.
Shown(w) ==
  \A i \in 1..Len(tail) :
    (rpc \in {"key", "value"} => i < Len(tail)) => Genuine(w, tail[i])

LogInv(w) ==
  /\ TypeOK /\ Numbering(w) /\ Returned(w) /\ Kept(w) /\ HalfWritten(w) /\ NoneAhead(w)
  /\ AtEntry(w) /\ Collected(w) /\ Shown(w)
------------------------------------------------------------------------------
\* Numbers less than Capacity apart have slots of their own.
LEMMA OwnSlot ==
  ASSUME NEW k \in Nat \ {0}, NEW n \in Nat, k < n, n < k + Capacity
  PROVE  Slot(k) # Slot(n)
<1> DEFINE a == (k - 1) \div Capacity
           b == (n - 1) \div Capacity
<1>1. a \in Int /\ b \in Int /\ k - 1 = Capacity * a + Slot(k)
        /\ n - 1 = Capacity * b + Slot(n)
  BY LogAssumption DEF Slot
<1> HIDE DEF a, b
<1>2. SUFFICES ASSUME Slot(k) = Slot(n) PROVE FALSE
  OBVIOUS
<1>3. Slot(k) \in Int /\ Slot(n) \in Int /\ Capacity \in Nat \ {0}
  BY LogAssumption DEF Slot
<1>4. Capacity * b - Capacity * a = n - k
  BY <1>1, <1>2, <1>3
<1>5. Capacity * (b - a) = n - k
  BY <1>1, <1>3, <1>4
<1>6. b - a <= 0 \/ b - a >= 1
  BY <1>1
<1>7. CASE b - a <= 0
  BY <1>1, <1>3, <1>5, <1>7
<1>8. CASE b - a >= 1
  <2>1. Capacity * (b - a) >= Capacity
    BY <1>1, <1>3, <1>8
  <2>. QED
    BY <2>1, <1>3, <1>5
<1>. QED
  BY <1>6, <1>7, <1>8

LEMMA NewestOfOne ==
  ASSUME NEW w, Writers = {w}, number[w] \in Nat
  PROVE  Newest = number[w]
<1>1. {0} \union {number[v] : v \in Writers} = {0, number[w]}
  OBVIOUS
<1>. QED
  BY <1>1 DEF Newest, Max

LEMMA LogInit == ASSUME NEW w, Writers = {w} PROVE Init => LogInv(w)
<1> SUFFICES ASSUME Init PROVE LogInv(w)
  OBVIOUS
<1>1. Len(tail) = 0 /\ rpc = "idle" /\ cursor = 1 /\ top = 0
  BY DEF Init
<1>2. Oldest(0) <= 1
  BY LogAssumption DEF Oldest, Max
<1>3. AtEntry(w) /\ Collected(w) /\ Shown(w)
  BY <1>1, <1>2 DEF AtEntry, Collected, Shown
<1>4. Numbering(w) /\ Returned(w) /\ Kept(w) /\ HalfWritten(w) /\ NoneAhead(w)
  BY LogAssumption
     DEF Init, Numbering, Returned, Kept, HalfWritten, NoneAhead, Done, Begun, Empty
<1>. QED
  BY <1>3, <1>4, InitTypes DEF LogInv
------------------------------------------------------------------------------
\* An append lets Done(w) grow in its last step only, and Begun(w) when it stores
\* the number.
LEMMA AppendNumbers ==
  ASSUME NEW w, Writers = {w}, LogInv(w), Append1(w)
  PROVE  /\ Numbering(w)' /\ Returned(w)'
         /\ number[w] \in Nat /\ number[w]' \in Nat /\ number[w]' >= number[w]
         /\ Done(w) \in Nat /\ Done(w)' \in Nat /\ Done(w)' >= Done(w)
         /\ Begun(w) \in Nat /\ Begun(w)' \in Nat /\ Begun(w)' >= Begun(w)
         /\ Done(w) <= Begun(w)
         /\ ~FillValue(w) => Done(w)' = Done(w)
         /\ settled' = settled
<1> USE DEF LogInv, TypeOK, Numbering, Returned, Done, Begun, Goto, readerVars, Pack
<1>1. CASE ReadHead(w)
  BY <1>1 DEF ReadHead, FillValue, LastField
<1>2. CASE ZeroHead(w)
  BY <1>2 DEF ZeroHead, FillValue, LastField
<1>3. CASE StoreHead(w)
  BY <1>3 DEF StoreHead, FillValue, LastField
<1>4. CASE ClearEntry(w)
  BY <1>4 DEF ClearEntry, FillValue, LastField
<1>5. CASE FillNumber(w)
  BY <1>5 DEF FillNumber, FillValue, LastField
<1>6. CASE FillKey(w)
  BY <1>6 DEF FillKey, FillValue, LastField
<1>7. CASE FillValue(w)
  <2>1. /\ appended' = appended \union {<<number[w], <<w, number[w]>>>>}
        /\ number' = number /\ count' = count /\ head' = head /\ settled' = settled
        /\ pc[w] = "value" /\ pc'[w] = "idle"
    BY <1>7 DEF FillValue, LastField, Msg
  <2>2. /\ Done(w) = number[w] - 1 /\ Done(w)' = number[w] /\ number[w] \in Nat \ {0}
        /\ Begun(w) = number[w] /\ Begun(w)' = number[w]
    BY <2>1
  <2>3. 1..number[w] = (1..(number[w] - 1)) \union {number[w]}
    BY <2>2
  <2>4. Returned(w)'
    BY <2>1, <2>2, <2>3
  <2>. QED
    BY <1>7, <2>1, <2>2, <2>4
<1>. QED
  BY <1>1, <1>2, <1>3, <1>4, <1>5, <1>6, <1>7 DEF Append1

\* Stores in the slot of the number being appended leave the entries before it.
LEMMA PackKeeps ==
  ASSUME NEW w, Writers = {w}, LogInv(w), NEW e, NEW from, NEW to, from # "idle",
         Pack(w, Slot(number[w]), e, from, to)
  PROVE  /\ number' = number /\ number[w] \in Nat \ {0}
         /\ entry'[Slot(number[w])] = e
         /\ \A x \in Slots : x # Slot(number[w]) => entry'[x] = entry[x]
         /\ \A k \in 1..(number[w] - 1) :
              k > number[w] - Capacity => entry'[Slot(k)] = entry[Slot(k)]
<1>1. number' = number /\ number[w] \in Nat \ {0} /\ entry \in [Slots -> Entry]
      /\ entry' = [entry EXCEPT ![Slot(number[w])] = e]
  BY DEF LogInv, TypeOK, Numbering, Pack
<1>2. Slot(number[w]) \in Slots
  BY <1>1, SlotInRing
<1>3. ASSUME NEW k \in 1..(number[w] - 1), k > number[w] - Capacity
      PROVE  entry'[Slot(k)] = entry[Slot(k)]
  <2>1. Slot(k) # Slot(number[w])
    BY <1>1, <1>3, LogAssumption, OwnSlot
  <2>2. Slot(k) \in Slots
    BY <1>1, SlotInRing
  <2>. QED
    BY <1>1, <2>1, <2>2
<1>. QED
  BY <1>1, <1>2, <1>3

LEMMA AppendKeeps ==
  ASSUME NEW w, Writers = {w}, LogInv(w), Append1(w)
  PROVE  Kept(w)' /\ HalfWritten(w)' /\ NoneAhead(w)'
<1>1. /\ number[w] \in Nat /\ number[w]' \in Nat /\ number[w]' >= number[w]
      /\ Done(w) \in Nat /\ Done(w)' \in Nat /\ Done(w)' >= Done(w)
      /\ Begun(w) \in Nat /\ Begun(w)' \in Nat /\ Begun(w)' >= Begun(w)
      /\ (~FillValue(w) => Done(w)' = Done(w))
  BY AppendNumbers
<1>2. /\ w \in Writers /\ pc = [v \in Writers |-> pc[v]] /\ number \in [Writers -> Nat]
      /\ entry \in [Slots -> Entry] /\ Capacity \in Nat \ {0}
  BY LogAssumption DEF LogInv, TypeOK
<1>3. CASE entry' = entry /\ ~FillValue(w) /\ pc'[w] \notin {"number", "key", "value"}
  BY <1>1, <1>2, <1>3 DEF LogInv, Kept, HalfWritten, NoneAhead
<1>4. CASE ClearEntry(w)
  <2>1. /\ pc[w] = "clear" /\ pc'[w] = "number" /\ Pack(w, Slot(number[w]), Empty, "clear", "number")
    BY <1>2, <1>4 DEF ClearEntry, Pack, Goto
  <2>2. Done(w) = number[w] - 1 /\ Done(w)' = Done(w) /\ Begun(w)' = Begun(w)
    BY <1>2, <2>1 DEF Done, Begun, Pack
  <2>3. /\ number' = number /\ number[w] \in Nat \ {0}
        /\ entry'[Slot(number[w])] = Empty
        /\ \A x \in Slots : x # Slot(number[w]) => entry'[x] = entry[x]
        /\ \A k \in 1..(number[w] - 1) :
             k > number[w] - Capacity => entry'[Slot(k)] = entry[Slot(k)]
    BY <2>1, PackKeeps
  <2>4. Kept(w)'
    BY <2>2, <2>3 DEF LogInv, Kept
  <2>5. NoneAhead(w)'
    BY <1>1, <2>2, <2>3 DEF LogInv, NoneAhead, Empty
  <2>6. HalfWritten(w)'
    BY <2>1, <2>3 DEF HalfWritten, Empty
  <2>. QED
    BY <2>4, <2>5, <2>6
<1>5. CASE FillNumber(w)
  <2>. DEFINE e == [entry[Slot(number[w])] EXCEPT !.seq = number[w]]
  <2>1. /\ pc[w] = "number" /\ pc'[w] = "key" /\ Pack(w, Slot(number[w]), e, "number", "key")
    BY <1>2, <1>5 DEF FillNumber, Pack, Goto
  <2>2. /\ Done(w) = number[w] - 1 /\ Done(w)' = Done(w)
        /\ Begun(w) = number[w] - 1 /\ Begun(w)' = number[w]
    BY <1>2, <2>1 DEF Done, Begun, Pack
  <2>3. e = [seq |-> number[w], key |-> Blank, value |-> Blank]
    BY <2>1 DEF LogInv, HalfWritten
  <2>. HIDE DEF e
  <2>4. /\ number' = number /\ number[w] \in Nat \ {0}
        /\ entry'[Slot(number[w])] = e
        /\ \A x \in Slots : x # Slot(number[w]) => entry'[x] = entry[x]
        /\ \A k \in 1..(number[w] - 1) :
             k > number[w] - Capacity => entry'[Slot(k)] = entry[Slot(k)]
    BY <2>1, PackKeeps
  <2>5. Kept(w)'
    BY <2>2, <2>4 DEF LogInv, Kept
  <2>6. NoneAhead(w)'
    BY <1>1, <2>2, <2>3, <2>4 DEF LogInv, NoneAhead
  <2>7. HalfWritten(w)'
    BY <2>1, <2>3, <2>4 DEF HalfWritten
  <2>. QED
    BY <2>5, <2>6, <2>7
<1>6. CASE FillKey(w)
  <2>. DEFINE e == [entry[Slot(number[w])] EXCEPT !.key = Msg(w)]
  <2>1. /\ pc[w] = "key" /\ pc'[w] = "value" /\ Pack(w, Slot(number[w]), e, "key", "value")
    BY <1>2, <1>6 DEF FillKey, Pack, Goto
  <2>2. /\ Done(w) = number[w] - 1 /\ Done(w)' = Done(w)
        /\ Begun(w) = number[w] /\ Begun(w)' = number[w]
    BY <1>2, <2>1 DEF Done, Begun, Pack
  <2>3. e = [seq |-> number[w], key |-> <<w, number[w]>>, value |-> Blank]
    BY <2>1 DEF LogInv, HalfWritten, Msg, Numbering
  <2>. HIDE DEF e
  <2>4. /\ number' = number /\ number[w] \in Nat \ {0}
        /\ entry'[Slot(number[w])] = e
        /\ \A x \in Slots : x # Slot(number[w]) => entry'[x] = entry[x]
        /\ \A k \in 1..(number[w] - 1) :
             k > number[w] - Capacity => entry'[Slot(k)] = entry[Slot(k)]
    BY <2>1, PackKeeps
  <2>5. Kept(w)'
    BY <2>2, <2>4 DEF LogInv, Kept
  <2>6. NoneAhead(w)'
    BY <1>1, <2>2, <2>3, <2>4 DEF LogInv, NoneAhead
  <2>7. HalfWritten(w)'
    BY <2>1, <2>3, <2>4 DEF HalfWritten
  <2>. QED
    BY <2>5, <2>6, <2>7
<1>7. CASE FillValue(w)
  <2>. DEFINE e == [entry[Slot(number[w])] EXCEPT !.value = Msg(w)]
  <2>1. /\ pc[w] = "value" /\ pc'[w] = "idle" /\ Pack(w, Slot(number[w]), e, "value", "idle")
    BY <1>2, <1>7 DEF FillValue, LastField, Pack, Goto
  <2>2. /\ Done(w) = number[w] - 1 /\ Done(w)' = number[w]
        /\ Begun(w) = number[w] /\ Begun(w)' = number[w]
    BY <1>2, <2>1 DEF Done, Begun, Pack
  <2>3. e = [seq |-> number[w], key |-> <<w, number[w]>>, value |-> <<w, number[w]>>]
    BY <2>1 DEF LogInv, HalfWritten, Msg, Numbering
  <2>. HIDE DEF e
  <2>4. /\ number' = number /\ number[w] \in Nat \ {0}
        /\ entry'[Slot(number[w])] = e
        /\ \A x \in Slots : x # Slot(number[w]) => entry'[x] = entry[x]
        /\ \A k \in 1..(number[w] - 1) :
             k > number[w] - Capacity => entry'[Slot(k)] = entry[Slot(k)]
    BY <2>1, PackKeeps
  <2>5. Kept(w)'
    <3>1. ASSUME NEW k \in 1..number[w], k > number[w] - Capacity
          PROVE  entry'[Slot(k)] = [seq |-> k, key |-> <<w, k>>, value |-> <<w, k>>]
      <4>1. CASE k = number[w]
        BY <2>3, <2>4, <4>1
      <4>2. CASE k # number[w]
        <5>1. k \in 1..(number[w] - 1)
          BY <2>4, <4>2
        <5>. QED
          BY <2>2, <2>4, <3>1, <5>1 DEF LogInv, Kept
      <4>. QED
        BY <4>1, <4>2
    <3>. QED
      BY <2>2, <2>4, <3>1 DEF Kept
  <2>6. NoneAhead(w)'
    BY <1>1, <2>2, <2>3, <2>4 DEF LogInv, NoneAhead
  <2>7. HalfWritten(w)'
    BY <2>1 DEF HalfWritten
  <2>. QED
    BY <2>5, <2>6, <2>7
<1>8. ReadHead(w) \/ ZeroHead(w) \/ StoreHead(w) =>
        entry' = entry /\ ~FillValue(w) /\ pc'[w] \notin {"number", "key", "value"}
  BY <1>2 DEF ReadHead, ZeroHead, StoreHead, Goto, FillValue, LastField, Pack
<1>. QED
  BY <1>3, <1>4, <1>5, <1>6, <1>7, <1>8 DEF Append1

\* What a poll has collected does not become wrong while the log grows.
LEMMA AppendShown ==
  ASSUME NEW w, Writers = {w}, LogInv(w), Append1(w)
  PROVE  AtEntry(w)' /\ Collected(w)' /\ Shown(w)'
<1>1. /\ number[w] \in Nat /\ number[w]' \in Nat /\ number[w]' >= number[w]
      /\ Begun(w) \in Nat /\ Begun(w)' \in Nat /\ Begun(w)' >= Begun(w)
  BY AppendNumbers
<1>2. rpc' = rpc /\ cursor' = cursor /\ tail' = tail /\ top' = top /\ settled' = settled
  BY DEF Append1, ReadHead, ZeroHead, StoreHead, ClearEntry, FillNumber, FillKey, FillValue,
         LastField, Pack, readerVars
<1>3. cursor \in Nat /\ \A i \in 1..Len(tail) : tail[i].seq \in Nat
  <2>1. cursor \in Nat /\ tail \in Seq(Entry)
    BY DEF LogInv, TypeOK
  <2>2. \A i \in 1..Len(tail) : tail[i] \in Entry
    BY <2>1, ElementOfSeq
  <2>. QED
    BY <2>1, <2>2 DEF Entry
<1>4. ASSUME NEW n \in Nat, NEW field, FieldOf(w, n, field) PROVE FieldOf(w, n, field)'
  BY <1>1, <1>2, <1>4, LogAssumption DEF FieldOf
<1>5. AtEntry(w)'
  BY <1>2, <1>3, <1>4 DEF LogInv, AtEntry
<1>6. Collected(w)'
  <2>1. Oldest(top)' = Oldest(top)
    BY <1>2 DEF Oldest
  <2>2. \A i \in 1..Len(tail) : tail[i].seq <= Begun(w)'
    BY <1>1, <1>3 DEF LogInv, Collected
  <2>. QED
    BY <1>2, <2>1, <2>2 DEF LogInv, Collected
<1>7. ASSUME NEW i \in 1..Len(tail), Genuine(w, tail[i]) PROVE Genuine(w, tail[i])'
  <2>1. PICK n, k, v : n \in Nat /\ n = tail[i].seq /\ k = tail[i].key /\ v = tail[i].value
    BY <1>3
  <2>2. FieldOf(w, n, k)' /\ FieldOf(w, n, v)'
    BY <1>4, <1>7, <2>1 DEF Genuine
  <2>. QED
    BY <1>2, <2>1, <2>2 DEF Genuine
<1>8. Shown(w)'
  BY <1>2, <1>7 DEF LogInv, Shown
<1>. QED
  BY <1>5, <1>6, <1>8
------------------------------------------------------------------------------
\* Whatever field a poll reads of an entry whose number it found there belongs to
\* that number, unless the log has gone round.
LEMMA FieldRead ==
  ASSUME NEW w, Writers = {w}, LogInv(w), cursor <= Begun(w)
  PROVE  /\ FieldOf(w, cursor, entry[Slot(cursor)].key)
         /\ FieldOf(w, cursor, entry[Slot(cursor)].value)
<1>1. /\ cursor \in Nat \ {0} /\ number[w] \in Nat /\ Capacity \in Nat \ {0}
      /\ settled \subseteq 1..Done(w) /\ Done(w) \in Int
  BY LogAssumption DEF LogInv, TypeOK, Returned, Done
<1>2. CASE number[w] >= cursor + Capacity
  BY <1>2 DEF FieldOf
<1>3. CASE ~(number[w] >= cursor + Capacity) /\ cursor <= Done(w)
  <2>1. cursor \in 1..Done(w) /\ cursor > number[w] - Capacity
    BY <1>1, <1>3
  <2>2. entry[Slot(cursor)] = [seq |-> cursor, key |-> <<w, cursor>>, value |-> <<w, cursor>>]
    BY <2>1 DEF LogInv, Kept
  <2>. QED
    BY <2>2 DEF FieldOf
<1>4. CASE cursor > Done(w)
  <2>1. pc[w] \in {"key", "value"} /\ cursor = number[w]
    BY <1>1, <1>4 DEF Done, Begun
  <2>2. cursor \notin settled
    BY <1>1, <1>4
  <2>3. /\ entry[Slot(cursor)].key \in {<<w, cursor>>, Blank}
        /\ entry[Slot(cursor)].value = Blank
    BY <2>1 DEF LogInv, HalfWritten
  <2>. QED
    BY <2>2, <2>3 DEF FieldOf
<1>. QED
  BY <1>1, <1>2, <1>3, <1>4

LEMMA PollShown ==
  ASSUME NEW w, Writers = {w}, LogInv(w), Poll
  PROVE  AtEntry(w)' /\ Collected(w)' /\ Shown(w)'
<1>1. /\ tail \in Seq(Entry) /\ cursor \in Nat \ {0} /\ Slot(cursor) \in Slots
      /\ top \in Nat /\ number[w] \in Nat /\ Begun(w) \in Int
      /\ entry[Slot(cursor)] \in Entry
      /\ number' = number /\ Begun(w)' = Begun(w)
  <2>1. pc' = pc /\ number' = number
    BY DEF Poll, PollHead, PollDone, PollNumber, PollKey, PollValue, writerVars
  <2>2. /\ tail \in Seq(Entry) /\ cursor \in Nat \ {0} /\ top \in Nat
        /\ number[w] \in Nat /\ entry \in [Slots -> Entry]
    BY DEF LogInv, TypeOK
  <2>3. Slot(cursor) \in Slots
    BY <2>2, SlotInRing
  <2>4. Begun(w) \in Int /\ Begun(w)' = Begun(w)
    BY <2>1, <2>2 DEF Begun
  <2>. QED
    BY <2>1, <2>2, <2>3, <2>4
<1>2. \A i \in 1..Len(tail) : tail[i] \in Entry /\ tail[i].seq \in Nat
  <2>1. \A i \in 1..Len(tail) : tail[i] \in Entry
    BY <1>1, ElementOfSeq
  <2>. QED
    BY <2>1 DEF Entry
<1>3. CASE PollHead
  <2>1. Len(tail') = 0 /\ rpc' = "seq" /\ top' = head /\ cursor' = Oldest(head)
    BY <1>3, EmptySeq DEF PollHead
  <2>2. Oldest(head) \in Nat
    BY OldestIsNumber DEF LogInv, TypeOK
  <2>3. Oldest(top)' = Oldest(head)
    BY <2>1 DEF Oldest
  <2>. QED
    BY <2>1, <2>2, <2>3 DEF AtEntry, Collected, Shown
<1>. DEFINE Mid == rpc \in {"key", "value"}
<1>4. ASSUME settled' = settled, top' = top
      PROVE  /\ \A n, field : FieldOf(w, n, field)' <=> FieldOf(w, n, field')
             /\ Oldest(top)' = Oldest(top)
  BY <1>1, <1>4 DEF FieldOf, Oldest
<1>5. CASE PollDone
  <2>1. /\ tail' = tail /\ top' = top /\ settled' = settled /\ cursor' = cursor
        /\ rpc = "seq" /\ rpc' = "idle"
    BY <1>5 DEF PollDone
  <2>2. Oldest(top)' = Oldest(top)
    BY <2>1 DEF Oldest
  <2>3. Shown(w)'
    BY <1>1, <2>1 DEF LogInv, Shown, Genuine, FieldOf
  <2>4. Collected(w)'
    BY <1>1, <2>1, <2>2 DEF LogInv, Collected
  <2>. QED
    BY <2>1, <2>3, <2>4 DEF AtEntry
<1>6. CASE PollNumber
  <2> DEFINE e == [Empty EXCEPT !.seq = entry[Slot(cursor)].seq]
  <2>1. /\ rpc = "seq" /\ cursor <= top /\ top' = top /\ settled' = settled
        /\ Oldest(top)' = Oldest(top) /\ Oldest(top) \in Nat
    BY <1>1, <1>6, OldestIsNumber DEF PollNumber, Oldest
  <2>2. /\ \A i \in 1..Len(tail) : Genuine(w, tail[i])
        /\ cursor >= Oldest(top)
        /\ \A i \in 1..Len(tail) :
             tail[i].seq \in Oldest(top)..top /\ tail[i].seq <= Begun(w) /\ tail[i].seq < cursor
        /\ \A i, j \in 1..Len(tail) : i < j => tail[i].seq < tail[j].seq
    BY <2>1 DEF LogInv, Shown, Collected
  <2>3. CASE tail' = tail /\ rpc' = rpc /\ cursor' = cursor + 1
    <3>1. Shown(w)'
      BY <1>1, <2>1, <2>2, <2>3 DEF Shown, Genuine, FieldOf
    <3>2. Collected(w)'
      BY <1>1, <1>2, <2>1, <2>2, <2>3 DEF Collected
    <3>. QED
      BY <2>1, <2>3, <3>1, <3>2 DEF AtEntry
  <2>4. CASE /\ entry[Slot(cursor)].seq = cursor /\ rpc' = "key"
             /\ cursor' = cursor /\ tail' = Append(tail, e)
    <3>1. e \in Entry /\ e.seq = cursor
      BY <1>1, <2>4 DEF Entry, Content, Empty
    <3>. HIDE DEF e
    <3>2. /\ Len(tail') = Len(tail) + 1 /\ tail'[Len(tail) + 1] = e /\ Len(tail) \in Nat
          /\ \A i \in 1..Len(tail) : tail'[i] = tail[i]
      BY <1>1, <2>4, <3>1, AppendProperties, LenProperties
    <3>3. cursor <= Begun(w)
      BY <1>1, <2>4 DEF LogInv, NoneAhead
    <3>4. AtEntry(w)'
      BY <2>4, <3>1, <3>2 DEF AtEntry
    <3>5. Shown(w)'
      BY <1>1, <2>1, <2>2, <2>4, <3>2 DEF Shown, Genuine, FieldOf
    <3>6. ASSUME NEW i \in 1..Len(tail')
          PROVE  /\ tail'[i].seq \in Oldest(top)..top /\ tail'[i].seq <= Begun(w)
                 /\ i < Len(tail') => tail'[i].seq < cursor
                 /\ \A j \in 1..Len(tail') : i < j => tail'[i].seq < tail'[j].seq
      <4>1. CASE i \in 1..Len(tail)
        <5>1. ASSUME NEW j \in 1..Len(tail'), i < j PROVE tail'[i].seq < tail'[j].seq
          <6>1. CASE j \in 1..Len(tail)
            BY <2>2, <3>2, <4>1, <5>1, <6>1
          <6>2. CASE j = Len(tail) + 1
            BY <2>2, <3>1, <3>2, <4>1, <6>2
          <6>. QED
            BY <3>2, <6>1, <6>2
        <5>. QED
          BY <2>2, <3>2, <4>1, <5>1
      <4>2. CASE i = Len(tail) + 1
        BY <1>1, <2>1, <2>2, <3>1, <3>2, <3>3, <4>2
      <4>. QED
        BY <3>2, <4>1, <4>2
    <3>7. Collected(w)'
      BY <1>1, <2>1, <2>2, <2>4, <3>6 DEF Collected
    <3>. QED
      BY <3>4, <3>5, <3>7
  <2>. QED
    BY <1>6, <2>3, <2>4 DEF PollNumber, Wanted
<1>7. ASSUME Mid
      PROVE  /\ Len(tail) \in Nat \ {0} /\ tail[Len(tail)].seq = cursor /\ cursor <= Begun(w)
             /\ FieldOf(w, cursor, entry[Slot(cursor)].key)
             /\ FieldOf(w, cursor, entry[Slot(cursor)].value)
  <2>1. Len(tail) \in Nat \ {0} /\ tail[Len(tail)].seq = cursor
    BY <1>1, <1>7, LenProperties DEF LogInv, AtEntry
  <2>2. cursor <= Begun(w)
    BY <2>1 DEF LogInv, Collected
  <2>. QED
    BY <2>1, <2>2, FieldRead
<1>8. CASE PollKey
  <2> DEFINE n == Len(tail)
  <2>1. /\ rpc = "key" /\ rpc' = "value" /\ cursor' = cursor /\ top' = top /\ settled' = settled
        /\ tail' = [tail EXCEPT ![n].key = entry[Slot(cursor)].key]
    BY <1>8 DEF PollKey
  <2>2. n \in Nat \ {0} /\ tail[n].seq = cursor /\ FieldOf(w, cursor, entry[Slot(cursor)].key)
    BY <1>7, <2>1
  <2>3. /\ Len(tail') = n /\ tail'[n] = [tail[n] EXCEPT !.key = entry[Slot(cursor)].key]
        /\ \A k \in 1..n : k # n => tail'[k] = tail[k]
    BY <1>1, <2>1, <2>2, LastUpdated
  <2>4. tail'[n].seq = cursor /\ tail'[n].key = entry[Slot(cursor)].key
    BY <1>2, <2>2, <2>3 DEF Entry
  <2>5. \A k \in 1..n : tail'[k].seq = tail[k].seq
    BY <2>2, <2>3, <2>4
  <2>6. Collected(w)'
    <3>1. Oldest(top)' = Oldest(top)
      BY <2>1 DEF Oldest
    <3>. QED
      BY <1>1, <2>1, <2>3, <2>5, <3>1 DEF LogInv, Collected
  <2>7. AtEntry(w)'
    BY <1>1, <2>1, <2>2, <2>3, <2>4 DEF AtEntry, FieldOf
  <2>8. Shown(w)'
    BY <1>1, <2>1, <2>3 DEF LogInv, Shown, Genuine, FieldOf
  <2>. QED
    BY <2>6, <2>7, <2>8
<1>9. CASE PollValue
  <2> DEFINE n == Len(tail)
  <2>1. /\ rpc = "value" /\ rpc' = "seq" /\ cursor' = cursor + 1 /\ top' = top
        /\ settled' = settled
        /\ tail' = [tail EXCEPT ![n].value = entry[Slot(cursor)].value]
    BY <1>9 DEF PollValue
  <2>2. /\ n \in Nat \ {0} /\ tail[n].seq = cursor
        /\ FieldOf(w, cursor, entry[Slot(cursor)].value) /\ FieldOf(w, cursor, tail[n].key)
    BY <1>7, <2>1 DEF LogInv, AtEntry
  <2>3. /\ Len(tail') = n /\ tail'[n] = [tail[n] EXCEPT !.value = entry[Slot(cursor)].value]
        /\ \A k \in 1..n : k # n => tail'[k] = tail[k]
    BY <1>1, <2>1, <2>2, LastUpdated
  <2>4. /\ tail'[n].seq = cursor /\ tail'[n].value = entry[Slot(cursor)].value
        /\ tail'[n].key = tail[n].key
    BY <1>2, <2>2, <2>3 DEF Entry
  <2>5. \A k \in 1..n : tail'[k].seq = tail[k].seq
    BY <2>2, <2>3, <2>4
  <2>6. Collected(w)'
    <3>1. Oldest(top)' = Oldest(top) /\ Oldest(top) \in Nat
      BY <1>1, <2>1, OldestIsNumber DEF Oldest
    <3>2. /\ cursor >= Oldest(top)
          /\ \A i \in 1..n :
               /\ tail[i].seq \in Oldest(top)..top /\ tail[i].seq <= Begun(w)
               /\ i < n => tail[i].seq < cursor
          /\ \A i, j \in 1..n : i < j => tail[i].seq < tail[j].seq
      BY <2>1 DEF LogInv, Collected
    <3>3. \A i \in 1..n : tail[i].seq < cursor + 1
      BY <1>1, <1>2, <2>2, <3>2
    <3>. QED
      BY <1>1, <2>1, <2>3, <2>5, <3>1, <3>2, <3>3 DEF Collected
  <2>7. ASSUME NEW i \in 1..n PROVE Genuine(w, tail'[i])
    <3>1. CASE i = n
      BY <2>2, <2>4, <3>1 DEF Genuine
    <3>2. CASE i # n
      BY <2>1, <2>2, <2>3, <3>2 DEF LogInv, Shown
    <3>. QED
      BY <3>1, <3>2
  <2>8. Shown(w)'
    BY <1>1, <2>1, <2>3, <2>7 DEF Shown, Genuine, FieldOf
  <2>. QED
    BY <2>1, <2>6, <2>8 DEF AtEntry
<1>. QED
  BY <1>3, <1>5, <1>6, <1>8, <1>9 DEF Poll

LEMMA LogNext ==
  ASSUME NEW w, Writers = {w}
  PROVE  LogInv(w) /\ [Next]_vars => LogInv(w)'
<1> SUFFICES ASSUME LogInv(w), [Next]_vars PROVE LogInv(w)'
  OBVIOUS
<1>1. CASE Append1(w)
  BY <1>1, AppendTypes, AppendNumbers, AppendKeeps, AppendShown DEF LogInv
<1>2. CASE Poll
  <2>1. TypeOK' /\ AtEntry(w)' /\ Collected(w)' /\ Shown(w)'
    BY <1>2, PollTypes, PollShown DEF LogInv
  <2>2. UNCHANGED <<head, entry, pc, count, number, appended>>
    BY <1>2 DEF Poll, PollHead, PollDone, PollNumber, PollKey, PollValue, writerVars
  <2>3. Done(w)' = Done(w) /\ Begun(w)' = Begun(w)
    BY <2>2 DEF Done, Begun
  <2>4. settled' \subseteq 1..Done(w)
    BY <1>2 DEF LogInv, Returned, Poll, PollHead, PollDone, PollNumber, PollKey, PollValue
  <2>. QED
    BY <2>1, <2>2, <2>3, <2>4
       DEF LogInv, Numbering, Returned, Kept, HalfWritten, NoneAhead
<1>3. CASE UNCHANGED vars
  <2>1. TypeOK'
    BY <1>3 DEF vars, LogInv, TypeOK, Msg
  <2>2. AtEntry(w)' /\ Collected(w)' /\ Shown(w)'
    BY <1>3 DEF vars, LogInv, AtEntry, Collected, Shown, Genuine, FieldOf, Begun, Oldest
  <2>3. /\ Numbering(w)' /\ Returned(w)' /\ Kept(w)' /\ HalfWritten(w)' /\ NoneAhead(w)'
    BY <1>3 DEF vars, LogInv, Numbering, Returned, Kept, HalfWritten, NoneAhead, Begun, Done
  <2>. QED
    BY <2>1, <2>2, <2>3 DEF LogInv
<1>. QED
  BY <1>1, <1>2, <1>3 DEF Next

LEMMA LogSound ==
  ASSUME NEW w, Writers = {w}, LogInv(w)
  PROVE  Retained /\ TailIsGenuine
<1>1. Newest = number[w] /\ number[w] \in Nat
  BY NewestOfOne DEF LogInv, TypeOK
<1>2. Retained
  BY <1>1 DEF LogInv, Returned, Kept, Retained
<1>3. ASSUME NEW i \in 1..Len(tail), NEW field, FieldOf(w, tail[i].seq, field)
      PROVE  Shows(tail[i].seq, field)
  <2>1. PICK n : n = tail[i].seq
    OBVIOUS
  <2>2. n \in Nat /\ n <= Begun(w) /\ n >= 1
    <3>1. tail[i] \in Entry /\ top \in Nat
      BY ElementOfSeq DEF LogInv, TypeOK
    <3>2. Oldest(top) \in Nat \ {0} /\ n \in Oldest(top)..top /\ n <= Begun(w)
      BY <2>1, <3>1, OldestIsNumber DEF LogInv, Collected
    <3>. QED
      BY <2>1, <3>1, <3>2 DEF Entry
  <2>3. <<w, n>> \in Own(n)
    <3>1. CASE n <= Done(w)
      <4>1. <<n, <<w, n>>>> \in appended
        BY <1>1, <2>2, <3>1 DEF LogInv, Returned, Done
      <4>2. PICK a \in appended : a[1] = n /\ a[2] = <<w, n>>
        BY <4>1
      <4>. QED
        BY <4>2 DEF Own
    <3>2. CASE n > Done(w)
      <4>1. pc[w] # "idle" /\ n = number[w]
        BY <1>1, <2>2, <3>2 DEF Done, Begun
      <4>2. Msg(w) = <<w, n>>
        BY <4>1 DEF LogInv, Numbering, Msg
      <4>. QED
        BY <4>1, <4>2 DEF Own
    <3>. QED
      BY <1>1, <2>2, <3>1, <3>2 DEF Done
  <2>. QED
    BY <1>1, <1>3, <2>1, <2>3 DEF FieldOf, Shows
<1>4. TailIsGenuine
  <2>1. ASSUME NEW i \in 1..Len(tail), rpc \in {"key", "value"} => i < Len(tail)
        PROVE  Shows(tail[i].seq, tail[i].key) /\ Shows(tail[i].seq, tail[i].value)
    BY <1>3, <2>1 DEF LogInv, Shown, Genuine
  <2>. QED
    BY <2>1 DEF LogInv, Collected, TailIsGenuine
<1>. QED
  BY <1>2, <1>4
------------------------------------------------------------------------------
\* While one process appends, what it appended stays in the log under its
\* number until Capacity younger numbers were given out, however the clearing
\* and filling of slots and the stores of the head fall (inc32, log_append).
THEOREM OneWriterRetains == ASSUME NEW w, Writers = {w} PROVE Spec => []Retained
<1>1. LogInv(w) => Retained
  BY LogSound
<1>. QED
  BY <1>1, LogInit, LogNext, PTL DEF Spec

\* While one process appends, whatever a poll of the dashboard shows under a number
\* belongs to that number, and all of it is there if the append had returned when the
\* poll began, or the log has gone round the ring since: however the packing of the
\* entry, field by field, and the unpacking of it fall (log_append, _log_tail,
\* log_read).
THEOREM OneWriterTail == ASSUME NEW w, Writers = {w} PROVE Spec => []TailIsGenuine
<1>1. LogInv(w) => TailIsGenuine
  BY LogSound
<1>. QED
  BY <1>1, LogInit, LogNext, PTL DEF Spec
==============================================================================
