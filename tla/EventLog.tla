------------------------------- MODULE EventLog ------------------------------
(***************************************************************************)
(* The fabric's event log (src/swarm/fabric.py, inc32, log_append,         *)
(* log_read) and the dashboard polling its tail (src/viz.py, _log_tail): a *)
(* ring of numbered entries and one head word.  Every agent, its gateway   *)
(* threads and the kernel append to it.  On Linux inc32 takes no mutex: it *)
(* is a load, and a store that passes through zero (module Inbox), and the *)
(* entry is packed field by field after it is cleared, its number first.   *)
(***************************************************************************)
EXTENDS Integers, Sequences, FiniteSetsExt

CONSTANTS
  Writers,      \* processes that call log_append
  Capacity,     \* MAX_LOG_ENTRIES
  TailLength,   \* n, the entries a poll of the dashboard asks for
  MaxAppends,   \* bound: the appends of each writer
  Blank         \* a field of zero bytes

Message == Writers \X (1..MaxAppends)

ASSUME LogAssumption ==
  /\ Capacity \in Nat \ {0}
  /\ TailLength \in Nat \ {0}
  /\ MaxAppends \in Nat
  /\ Blank \notin Message

VARIABLES
  head, entry,           \* shared memory: SB_LOG_HEAD and the ring
  pc, count, number,     \* each writer: step, appends started, its number
  rpc, top, cursor,      \* the dashboard: step, head it read, number it is at
  tail,                  \* the dashboard: the entries collected so far
  appended,              \* history: number and message of every append that returned
  settled                \* history: the numbers of those when the poll began

writerVars == <<pc, count, number>>
readerVars == <<rpc, top, cursor, tail, settled>>
vars == <<head, entry, pc, count, number, rpc, top, cursor, tail, appended, settled>>

Slots == 0..(Capacity - 1)
Slot(n) == (n - 1) % Capacity

\* Of an entry's fields the number, one of those between and the last one.
Empty == [seq |-> 0, key |-> Blank, value |-> Blank]
Msg(w) == <<w, count[w]>>

Init ==
  /\ head = 0 /\ entry = [x \in Slots |-> Empty]
  /\ pc = [w \in Writers |-> "idle"]
  /\ count = [w \in Writers |-> 0]
  /\ number = [w \in Writers |-> 0]
  /\ rpc = "idle" /\ top = 0 /\ cursor = 1 /\ tail = <<>>
  /\ appended = {} /\ settled = {}

Goto(w, label) == pc' = [pc EXCEPT ![w] = label]
------------------------------------------------------------------------------
(* log_append: inc32, then the entry.                                      *)

ReadHead(w) ==
  /\ pc[w] = "idle" /\ count[w] < MaxAppends
  /\ count' = [count EXCEPT ![w] = @ + 1]
  /\ number' = [number EXCEPT ![w] = head + 1]
  /\ Goto(w, "zeroHead")
  /\ UNCHANGED <<head, entry, readerVars, appended>>

ZeroHead(w) ==
  /\ pc[w] = "zeroHead"
  /\ head' = 0
  /\ Goto(w, "storeHead")
  /\ UNCHANGED <<entry, count, number, readerVars, appended>>

StoreHead(w) ==
  /\ pc[w] = "storeHead"
  /\ head' = number[w]
  /\ Goto(w, "clear")
  /\ UNCHANGED <<entry, count, number, readerVars, appended>>

\* One step of pack_into on the entry with the writer's number.
Pack(w, x, e, from, to) ==
  /\ pc[w] = from
  /\ entry' = [entry EXCEPT ![x] = e]
  /\ Goto(w, to)
  /\ UNCHANGED <<head, count, number, readerVars>>

ClearEntry(w) ==
  Pack(w, Slot(number[w]), Empty, "clear", "number") /\ UNCHANGED appended

FillNumber(w) ==
  /\ Pack(w, Slot(number[w]), [entry[Slot(number[w])] EXCEPT !.seq = number[w]], "number", "key")
  /\ UNCHANGED appended

FillKey(w) ==
  /\ Pack(w, Slot(number[w]), [entry[Slot(number[w])] EXCEPT !.key = Msg(w)], "key", "value")
  /\ UNCHANGED appended

\* Stores the last field in slot x; log_append returns the entry's number.
LastField(w, x) ==
  /\ Pack(w, x, [entry[x] EXCEPT !.value = Msg(w)], "value", "idle")
  /\ appended' = appended \union {<<number[w], Msg(w)>>}

\* Mutant: the ring is indexed from one.
FillValueFromOne(w) == LastField(w, number[w] % Capacity)

FillValue(w) == LastField(w, Slot(number[w]))

Append1(w) ==
  \/ ReadHead(w) \/ ZeroHead(w) \/ StoreHead(w)
  \/ ClearEntry(w) \/ FillNumber(w) \/ FillKey(w) \/ FillValue(w)
------------------------------------------------------------------------------
(* _log_tail: the head once, then log_read of the last TailLength numbers. *)

\* The first of the last TailLength numbers up to n.
Oldest(n) == Max({1, n - TailLength + 1})

PollHead ==
  /\ rpc = "idle"
  /\ top' = head
  /\ cursor' = Oldest(head)
  /\ tail' = <<>>
  /\ rpc' = "seq"
  /\ settled' = {a[1] : a \in appended}
  /\ UNCHANGED <<head, entry, writerVars, appended>>

PollDone ==
  /\ rpc = "seq" /\ cursor > top
  /\ rpc' = "idle"
  /\ UNCHANGED <<head, entry, writerVars, top, cursor, tail, appended, settled>>

\* Mutant: whatever is in the slot is taken for the entry.
Unchecked(seq) == TRUE

\* log_read returns an entry only if it still bears the number asked for.
Wanted(seq) == seq = cursor

\* unpack_from reads the entry's number first and its other fields after it.
PollNumber ==
  /\ rpc = "seq" /\ cursor <= top
  /\ IF Wanted(entry[Slot(cursor)].seq)
     THEN /\ rpc' = "key"
          /\ tail' = Append(tail, [Empty EXCEPT !.seq = entry[Slot(cursor)].seq])
          /\ UNCHANGED cursor
     ELSE cursor' = cursor + 1 /\ UNCHANGED <<rpc, tail>>
  /\ UNCHANGED <<head, entry, writerVars, top, appended, settled>>

PollKey ==
  /\ rpc = "key"
  /\ tail' = [tail EXCEPT ![Len(tail)].key = entry[Slot(cursor)].key]
  /\ rpc' = "value"
  /\ UNCHANGED <<head, entry, writerVars, top, cursor, appended, settled>>

PollValue ==
  /\ rpc = "value"
  /\ tail' = [tail EXCEPT ![Len(tail)].value = entry[Slot(cursor)].value]
  /\ cursor' = cursor + 1
  /\ rpc' = "seq"
  /\ UNCHANGED <<head, entry, writerVars, top, appended, settled>>

Poll == PollHead \/ PollDone \/ PollNumber \/ PollKey \/ PollValue

Next == Poll \/ \E w \in Writers : Append1(w)

Spec == Init /\ [][Next]_vars
------------------------------------------------------------------------------
Content == Message \union {Blank}
Entry == [seq : Nat, key : Content, value : Content]

TypeOK ==
  /\ head \in Nat
  /\ entry \in [Slots -> Entry]
  /\ pc \in [Writers ->
               {"idle", "zeroHead", "storeHead", "clear", "number", "key", "value"}]
  /\ count \in [Writers -> 0..MaxAppends]
  /\ \A w \in Writers : pc[w] # "idle" => Msg(w) \in Message
  /\ number \in [Writers -> Nat]
  /\ rpc \in {"idle", "seq", "key", "value"}
  /\ top \in Nat /\ cursor \in Nat \ {0}
  /\ tail \in Seq(Entry)
  /\ rpc \in {"key", "value"} => Len(tail) > 0
  /\ appended \subseteq Nat \X Message /\ settled \subseteq Nat

\* The highest number given out so far.
Newest == Max({0} \union {number[w] : w \in Writers})

\* An entry stays in the ring, whole and findable by its number, until
\* Capacity younger numbers were given out.
Retained ==
  \A a \in appended :
    a[1] > Newest - Capacity =>
      entry[Slot(a[1])] = [seq |-> a[1], key |-> a[2], value |-> a[2]]

\* What was appended under number n, and what is being appended under it.
Own(n) ==
  {a[2] : a \in {b \in appended : b[1] = n}}
  \union {Msg(w) : w \in {v \in Writers : pc[v] # "idle" /\ number[v] = n}}

\* A field that a poll may show under number n: log_read looks at the number before
\* the other fields, and not again, and the number is stored before them.
Shows(n, field) ==
  \/ field \in Own(n)
  \/ field = Blank /\ n \notin settled
  \/ Newest >= n + Capacity

\* A poll shows no number twice, none out of order and none that it did not ask for.
\* What it shows under a number belongs to that number, or is blank yet; all of it is
\* there if the append had returned when the poll began, unless the log has gone once
\* round the ring since.
TailIsGenuine ==
  /\ \A i \in 1..Len(tail) : tail[i].seq \in Oldest(top)..top
  /\ \A i, j \in 1..Len(tail) : i < j => tail[i].seq < tail[j].seq
  /\ \A i \in 1..Len(tail) :
       (rpc \in {"key", "value"} => i < Len(tail)) =>
         Shows(tail[i].seq, tail[i].key) /\ Shows(tail[i].seq, tail[i].value)

\* fabric.py:318: "Increment a 32-bit value (mutex-protected)".  No two events
\* get the same number.
NumbersUnique ==
  \A a, b \in appended : a[1] = b[1] => a = b
==============================================================================
