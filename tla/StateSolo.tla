------------------------------ MODULE StateSolo ------------------------------
(***************************************************************************)
(* The state table with a single writing process and any number of         *)
(* readers: then it is a KeyMap, whatever keys collide.                    *)
(***************************************************************************)
EXTENDS StateTable

SingleWriter ==
  \E p \in Procs : \A q \in Procs : Writes[q] # {} => q = p

Writer == CHOOSE p \in Procs : \A q \in Procs : Writes[q] # {} => q = p

\* The writer has cleared a slot and is about to fill it.
Rewriting == pc[Writer] = "fill"

Present ==
  ({key[x] : x \in Slots} \ {NoKey})
    \union (IF Rewriting THEN {call[Writer].key} ELSE {})

SlotOf(k) == CHOOSE x \in Slots : key[x] = k

\* The map the table stands for; a slot being rewritten counts as rewritten.
Entries ==
  [k \in Present |->
     IF Rewriting /\ k = call[Writer].key
     THEN [value |-> call[Writer].value, version |-> ver[Writer]]
     ELSE [value |-> value[SlotOf(k)], version |-> version[SlotOf(k)]]]

Map == INSTANCE KeyMap WITH entries <- Entries

\* With one writer, linear probing over the shared slots is a map: no key is
\* forgotten, stored twice or overwritten by another, and its version counts
\* the writes.
ImplementsMap == Map!Spec
==============================================================================
