----------------------------- MODULE StateTable ------------------------------
(***************************************************************************)
(* The fabric's key/value state table (src/swarm/fabric.py, _slot, lock,   *)
(* state_get, state_set): an open-addressed hash table in the mmap'd file, *)
(* linear probing, a lock word per slot, shared by every process of the    *)
(* swarm.                                                                  *)
(*                                                                         *)
(* On Linux the "named mutex" is the spin loop on the slot's lock word: a  *)
(* load, then a store.  Each access to shared memory is a step, and a      *)
(* store by struct.pack_into is two: CPython clears the bytes it will      *)
(* write (lock word and key too, when a slot is packed) before it writes.  *)
(***************************************************************************)
EXTENDS Integers, Sequences, FiniteSets

CONSTANTS
  Procs,     \* processes that map the fabric
  Key,       \* keys, at most 24 bytes, so none is cut short
  Value,     \* values, at most 20 bytes
  Size,      \* MAX_STATE_SLOTS
  Home,      \* djb2 of the key modulo Size: the slot probing starts from
  Writes,    \* the keys each process writes
  MaxCalls,  \* bound: how many calls each process makes
  NoKey,     \* a key field of 24 zero bytes
  Blank,     \* a value field of 20 zero bytes, the empty string
  None       \* what state_get returns for a key it does not find

Slots == 0..(Size - 1)

ASSUME StateTableAssumption ==
  /\ Size \in Nat \ {0}
  /\ MaxCalls \in [Procs -> Nat]
  /\ Home \in [Key -> Slots]
  /\ Writes \in [Procs -> SUBSET Key]
  /\ NoKey \notin Key
  /\ Blank \notin Value /\ None \notin Value

VARIABLES
  key, value, version, locked,  \* shared memory: the fields of every slot
  pc, call, at, ver,            \* each process: step, call, slot, new version
  calls,                        \* each process: calls started
  result,                       \* each process: what its last state_get returned
  written,                      \* history: values state_set stored, by key
  since                         \* history: writes done when the call started

table == <<key, value, version, locked>>
vars == <<key, value, version, locked, pc, call, at, ver, calls, result,
          written, since>>

Idle == [op |-> "none", key |-> NoKey, value |-> Blank]

Init ==
  /\ key = [x \in Slots |-> NoKey]
  /\ value = [x \in Slots |-> Blank]
  /\ version = [x \in Slots |-> 0]
  /\ locked = [x \in Slots |-> FALSE]
  /\ pc = [p \in Procs |-> "idle"]
  /\ call = [p \in Procs |-> Idle]
  /\ at = [p \in Procs |-> 0]
  /\ ver = [p \in Procs |-> 0]
  /\ calls = [p \in Procs |-> 0]
  /\ result = [p \in Procs |-> None]
  /\ written = [k \in Key |-> <<>>]
  /\ since = [p \in Procs |-> 0]

Goto(p, label) == pc' = [pc EXCEPT ![p] = label]

\* A call of state_set or state_get starts, with _slot at the key's home.
Begin(p, c) ==
  /\ pc[p] = "idle" /\ calls[p] < MaxCalls[p]
  /\ calls' = [calls EXCEPT ![p] = @ + 1]
  /\ call' = [call EXCEPT ![p] = c]
  /\ at' = [at EXCEPT ![p] = Home[c.key]]
  /\ since' = [since EXCEPT ![p] = Len(written[c.key])]
  /\ Goto(p, "probe")
  /\ UNCHANGED <<table, ver, result, written>>

BeginSet(p) ==
  \E k \in Writes[p], v \in Value :
    Begin(p, [op |-> "set", key |-> k, value |-> v])

BeginGet(p) ==
  \E k \in Key : Begin(p, [op |-> "get", key |-> k, value |-> Blank])

\* state_get returns r.
Return(p, r) ==
  /\ Goto(p, "idle")
  /\ result' = [result EXCEPT ![p] = r]
  /\ UNCHANGED <<table, call, at, ver, calls, written, since>>

(* _slot: one slot per step, until the key or an empty slot.               *)

\* Mutants: a slot of any key will do; the key itself is not recognised.
MatchesAny(p) == TRUE
MatchesEmpty(p) == key[at[p]] = NoKey

Matches(p) == key[at[p]] \in {call[p].key, NoKey}

ProbeHit(p) ==
  /\ pc[p] = "probe" /\ Matches(p)
  /\ Goto(p, IF call[p].op = "set" THEN "lock" ELSE "check")
  /\ UNCHANGED <<table, call, at, ver, calls, result, written, since>>

Successor(x) == (x + 1) % Size

ProbeNext(p) ==
  /\ pc[p] = "probe" /\ ~Matches(p)
  /\ Successor(at[p]) # Home[call[p].key]
  /\ at' = [at EXCEPT ![p] = Successor(@)]
  /\ UNCHANGED <<table, pc, call, ver, calls, result, written, since>>

\* Every slot holds some other key: state_set returns -1, state_get None.
ProbeFull(p) ==
  /\ pc[p] = "probe" /\ ~Matches(p)
  /\ Successor(at[p]) = Home[call[p].key]
  /\ Return(p, IF call[p].op = "get" THEN None ELSE result[p])

(* state_set, after _slot.  The slot was chosen before the lock is taken   *)
(* and is not looked at again.                                             *)

\* Sees the lock word zero; a held lock is simply read again.
LockFree(p) ==
  /\ pc[p] = "lock" /\ ~locked[at[p]]
  /\ Goto(p, "take")
  /\ UNCHANGED <<table, call, at, ver, calls, result, written, since>>

\* Mutant: the spin loop has no bound.
LockSpin(p) == pc[p] = "lock" /\ locked[at[p]] /\ UNCHANGED vars

\* Spun 200 000 times on a held lock: lock returns False, state_set -1.
LockGiveUp(p) ==
  /\ pc[p] = "lock" /\ locked[at[p]]
  /\ Return(p, result[p])

\* The store of the owner passes through zero.
LockZero(p) ==
  /\ pc[p] = "take"
  /\ locked' = [locked EXCEPT ![at[p]] = FALSE]
  /\ Goto(p, "hold")
  /\ UNCHANGED <<key, value, version, call, at, ver, calls, result, written, since>>

LockTake(p) ==
  /\ pc[p] = "hold"
  /\ locked' = [locked EXCEPT ![at[p]] = TRUE]
  /\ Goto(p, "version")
  /\ UNCHANGED <<key, value, version, call, at, ver, calls, result, written, since>>

\* Mutant: the version counts down.
NextVersionDown(v) == v - 1

NextVersion(v) == v + 1

ReadVersion(p) ==
  /\ pc[p] = "version"
  /\ ver' = [ver EXCEPT ![p] = NextVersion(version[at[p]])]
  /\ Goto(p, "clear")
  /\ UNCHANGED <<table, call, at, calls, result, written, since>>

ClearSlot(p) ==
  /\ pc[p] = "clear"
  /\ key' = [key EXCEPT ![at[p]] = NoKey]
  /\ value' = [value EXCEPT ![at[p]] = Blank]
  /\ version' = [version EXCEPT ![at[p]] = 0]
  /\ locked' = [locked EXCEPT ![at[p]] = FALSE]
  /\ Goto(p, "fill")
  /\ UNCHANGED <<call, at, ver, calls, result, written, since>>

\* The slot's new content, its lock word zero; state_set returns the version.
FillSlot(p) ==
  /\ pc[p] = "fill"
  /\ key' = [key EXCEPT ![at[p]] = call[p].key]
  /\ value' = [value EXCEPT ![at[p]] = call[p].value]
  /\ version' = [version EXCEPT ![at[p]] = ver[p]]
  /\ locked' = [locked EXCEPT ![at[p]] = FALSE]
  /\ Goto(p, "idle")
  /\ written' = [written EXCEPT ![call[p].key] = Append(@, call[p].value)]
  /\ UNCHANGED <<call, at, ver, calls, result, since>>

(* state_get, after _slot: no lock.                                        *)

CheckKey(p) ==
  /\ pc[p] = "check"
  /\ IF key[at[p]] = NoKey
     THEN Return(p, None)
     ELSE /\ Goto(p, "value")
          /\ UNCHANGED <<table, call, at, ver, calls, result, written, since>>

\* Mutant: a reader keeps the value it once read.
ReadValueOnce(p) ==
  /\ pc[p] = "value"
  /\ Return(p, IF result[p] \in Value THEN result[p] ELSE value[at[p]])

\* The version is a separate load; no caller of state_get uses it.
ReadValue(p) ==
  /\ pc[p] = "value"
  /\ Return(p, value[at[p]])

\* The process dies between two steps: SIGKILL, OOM, Process.terminate.
Die(p) ==
  /\ pc[p] # "dead"
  /\ Goto(p, "dead")
  /\ UNCHANGED <<table, call, at, ver, calls, result, written, since>>

InCall(p) ==
  \/ ProbeHit(p) \/ ProbeNext(p) \/ ProbeFull(p)
  \/ LockFree(p) \/ LockGiveUp(p) \/ LockZero(p) \/ LockTake(p)
  \/ ReadVersion(p) \/ ClearSlot(p) \/ FillSlot(p)
  \/ CheckKey(p) \/ ReadValue(p)

Step(p) == BeginSet(p) \/ BeginGet(p) \/ InCall(p)

Next == \E p \in Procs : Step(p)

Spec == Init /\ [][Next]_vars

\* The same system where processes may die at any step.
CrashNext == \E p \in Procs : Step(p) \/ Die(p)

CrashSpec == Init /\ [][CrashNext]_vars

\* A process that lives keeps executing the call it is in.
FairCrashSpec == CrashSpec /\ \A p \in Procs : WF_vars(InCall(p))
------------------------------------------------------------------------------
Labels == {"idle", "probe", "lock", "take", "hold", "version", "clear", "fill",
           "check", "value", "dead"}

SetCall == [op : {"set"}, key : Key, value : Value]
GetCall == [op : {"get"}, key : Key, value : {Blank}]
Writing == {"lock", "take", "hold", "version", "clear", "fill"}
Reading == {"check", "value"}

TypeOK ==
  /\ key \in [Slots -> Key \union {NoKey}]
  /\ value \in [Slots -> Value \union {Blank}]
  /\ version \in [Slots -> Nat]
  /\ locked \in [Slots -> BOOLEAN]
  /\ pc \in [Procs -> Labels]
  /\ call \in [Procs -> SetCall \union GetCall \union {Idle}]
  /\ \A p \in Procs :
       /\ pc[p] = "probe" => call[p] # Idle
       /\ pc[p] \in Writing => call[p] \in SetCall
       /\ pc[p] \in Reading => call[p] \in GetCall
  /\ at \in [Procs -> Slots]
  /\ ver \in [Procs -> Nat]
  /\ calls \in [Procs -> Nat] /\ \A p \in Procs : calls[p] <= MaxCalls[p]
  /\ result \in [Procs -> Value \union {Blank, None}]
  /\ written \in [Key -> Seq(Value)]
  /\ since \in [Procs -> Nat]

\* A state_get that found a value returns one stored under the key it asked
\* for, by the last write completed before the call or by a later one.  (It may
\* also return None, or the empty string, of a slot that is being rewritten.)
FreshReads ==
  \A p \in Procs :
    pc[p] = "idle" /\ call[p].op = "get" /\ result[p] \in Value =>
      \E i \in DOMAIN written[call[p].key] :
        i >= since[p] /\ result[p] = written[call[p].key][i]

SoleWriter(p, k) == {q \in Procs : k \in Writes[q]} = {p}

\* A process that is the only writer of a key reads back what it wrote last:
\* the probe agents compare each sample with the severity they stored before.
ReadYourWrites ==
  \A p \in Procs :
    LET k == call[p].key IN
    pc[p] = "idle" /\ call[p].op = "get" /\ SoleWriter(p, k)
    => result[p] = IF written[k] = <<>> THEN None ELSE written[k][Len(written[k])]

\* A written key occupies one slot, the one a later probe for it stops at.
OneSlotPerKey ==
  \A x, y \in Slots : key[x] # NoKey /\ key[x] = key[y] => x = y

\* The version stored with a key that one process writes counts the writes.
VersionCountsWrites ==
  \A x \in Slots :
    (\E p \in Procs : SoleWriter(p, key[x])) => version[x] = Len(written[key[x]])

\* Every call returns, even when a process died holding the slot's lock:
\* the spin loop gives up.
CallsReturn ==
  \A p \in Procs : pc[p] \notin {"idle", "dead"} ~> pc[p] \in {"idle", "dead"}

\* fabric.py:274: "named mutex for cross-process safety".  Two processes are
\* never both between taking a slot's lock and releasing it.
MutualExclusion ==
  \A p, q \in Procs :
    p # q /\ {pc[p], pc[q]} \subseteq {"version", "clear", "fill"} => at[p] # at[q]

\* fabric.py:398: "Write -> version (or -1 on failure)".  When no call is in
\* progress, every key that a state_set returned a version for is in the table.
WrittenKeysStay ==
  (\A p \in Procs : pc[p] = "idle") =>
    \A k \in Key : written[k] # <<>> => \E x \in Slots : key[x] = k
------------------------------------------------------------------------------
\* The register that the table is for a key, and how far a call is with it.
Register == [k \in Key |-> IF key[Home[k]] = k THEN value[Home[k]] ELSE None]
Progress(p) ==
  CASE pc[p] \in {"idle", "dead"} -> pc[p]
    [] pc[p] = "fill" -> "emptied"
    [] OTHER -> "called"

Regs == INSTANCE Registers
          WITH reg <- Register, step <- [p \in Procs |-> Progress(p)], NoCall <- Idle

\* When no two keys start probing from the same slot, the table is a register for
\* each key, whatever number of processes write it and whichever of them die: the
\* lock, which does not exclude, and the version, which may be wrong, do not show
\* in what state_set stores and state_get returns.
ImplementsRegisters == Regs!Spec
==============================================================================
