-------------------------------- MODULE KeyMap -------------------------------
(***************************************************************************)
(* What the state table promises one writer: a map from keys to versioned  *)
(* values that holds up to Size keys and never forgets one.                *)
(***************************************************************************)
EXTENDS Naturals, FiniteSets

CONSTANTS Key, Value, Size

VARIABLE entries    \* for every key ever stored, its value and version

Init == entries = [k \in {} |-> {}]

OldVersion(k) == IF k \in DOMAIN entries THEN entries[k].version ELSE 0

\* A new key is refused, silently here, once Size keys are stored.
Put(k, v) ==
  /\ k \in DOMAIN entries \/ Cardinality(DOMAIN entries) < Size
  /\ entries' = [j \in DOMAIN entries \union {k} |->
                   IF j = k THEN [value |-> v, version |-> OldVersion(k) + 1]
                   ELSE entries[j]]

Next == \E k \in Key, v \in Value : Put(k, v)

Spec == Init /\ [][Next]_entries
==============================================================================
