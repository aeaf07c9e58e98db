------------------------------ MODULE Registers ------------------------------
(***************************************************************************)
(* What the state table promises any number of writers and readers when no *)
(* two keys start probing from the same slot: a register for each key.  A  *)
(* write is not one step: it empties the register, and then fills it.  A   *)
(* read is one step, which finds the register's value or that it is empty. *)
(***************************************************************************)
CONSTANTS
  Procs, Key, Value,
  NoCall,    \* the call of a process that has made none
  Blank,     \* the empty string, read from a register that is being written
  None       \* an empty register, and what reading one returns

VARIABLES
  reg,       \* the value of each key
  step,      \* each process: "idle", "called", "emptied" or "dead"
  call,      \* each process: the call it makes or made last
  result     \* each process: what its last read returned

vars == <<reg, step, call, result>>

Init ==
  /\ reg = [k \in Key |-> None]
  /\ step = [p \in Procs |-> "idle"]
  /\ call = [p \in Procs |-> NoCall]
  /\ result = [p \in Procs |-> None]

Goto(p, label) == step' = [step EXCEPT ![p] = label]

Begin(p, c) ==
  /\ step[p] = "idle"
  /\ call' = [call EXCEPT ![p] = c]
  /\ Goto(p, "called")
  /\ UNCHANGED <<reg, result>>

Empty(p) ==
  /\ step[p] = "called" /\ call[p].op = "set"
  /\ reg' = [reg EXCEPT ![call[p].key] = None]
  /\ Goto(p, "emptied")
  /\ UNCHANGED <<call, result>>

Fill(p) ==
  /\ step[p] = "emptied"
  /\ reg' = [reg EXCEPT ![call[p].key] = call[p].value]
  /\ Goto(p, "idle")
  /\ UNCHANGED <<call, result>>

\* The write is refused, and the register is as it was.
GiveUp(p) ==
  /\ step[p] = "called" /\ call[p].op = "set"
  /\ Goto(p, "idle")
  /\ UNCHANGED <<reg, call, result>>

Read(p) ==
  /\ step[p] = "called" /\ call[p].op = "get"
  /\ LET r == reg[call[p].key]
     IN \E found \in (IF r = None THEN {None, Blank} ELSE {r}) :
          result' = [result EXCEPT ![p] = found]
  /\ Goto(p, "idle")
  /\ UNCHANGED <<reg, call>>

Die(p) ==
  /\ step[p] # "dead"
  /\ Goto(p, "dead")
  /\ UNCHANGED <<reg, call, result>>

Next ==
  \E p \in Procs :
    \/ \E k \in Key, v \in Value : Begin(p, [op |-> "set", key |-> k, value |-> v])
    \/ \E k \in Key : Begin(p, [op |-> "get", key |-> k, value |-> Blank])
    \/ Empty(p) \/ Fill(p) \/ GiveUp(p) \/ Read(p) \/ Die(p)

Spec == Init /\ [][Next]_vars
==============================================================================
