---------------------------- MODULE ShippedKernel ----------------------------
(***************************************************************************)
(* The kernel probe's genomes (src/swarms/kernel.yaml) on any host: the    *)
(* one that ships, the hand-written one it evolved from, the rules of the  *)
(* comment over both, and the gate in code that they replace.              *)
(***************************************************************************)
EXTENDS Genome, SensorGate

\* src/swarms/kernel.yaml:55, and line 32: the one it evolved from.
KernelGenome == <<"psi", "f", "#", "5", ">", "->", "C", "c",
                  "psi", "s", "#", "1", "0", ">", "mem", "S", "0", "=", "and", "->", "C", "n",
                  "psi", "s", "#", "1", "0", ">", "->", "W", "w",
                  "mem", "S", "=", "->", "I", "a">>
HandCoded == <<"psi", "f", "#", "5", ">", "->", "C", "c", ";",
               "psi", "s", "#", "1", "0", ">", "mem", "S", "0", "=", "and", "->", "C", "n", ";",
               "psi", "s", "#", "1", "0", ">", "->", "W", "w", ";",
               "mem", "S", "0", "=", "->", "I", "a", ";">>

\* A host's readings are natural numbers, the pressure averages if they are there.
IsHost(h) ==
  /\ h.psi = Absent \/ h.psi \in Nat \X Nat
  /\ h.mem.swap \in Nat

\* One genome, run to its verdict on the frame the probe makes of a host.
DecisionInit(h) == \E g \in {KernelGenome, HandCoded} : Start(g, KernelFrame(h))
DecisionSpec(h) == DecisionInit(h) /\ [][Next]_vars

\* The load table gives a character and a signature a frame key.
Loads(ch, sig, key) ==
  ch \in DOMAIN Opcodes /\ sig \in DOMAIN Opcodes[ch] /\ Opcodes[ch][sig] = key

\* What the genomes use of it: three keys they load, and no character of it means
\* anything else.
LoadsKernel ==
  /\ \A ch \in DOMAIN Opcodes : ch \notin Known /\ ~IsDigit(ch)
  /\ Loads("psi", "f", "psi_full_avg10") /\ Loads("psi", "s", "psi_some_avg10")
  /\ Loads("mem", "S", "swap_present")
------------------------------------------------------------------------------
\* The verdict of the first rule that applies.
First(rules) ==
  LET k == SelectInSeq(rules, LAMBDA r : r[1]) IN IF k = 0 THEN <<"OK", "OK">> ELSE rules[k][2]

\* kernel.yaml:26-29
KernelRules(h) ==
  LET some == IF h.psi = Absent THEN 0 ELSE h.psi[1]
      full == IF h.psi = Absent THEN 0 ELSE h.psi[2]
      noSwap == h.mem.swap = 0
  IN First(<< <<full > 5, <<"CRITICAL", "MEM_PSI_CRIT">> >>,
              <<some > 10 /\ noSwap, <<"CRITICAL", "MEM_PSI_CRIT_NOSW">> >>,
              <<some > 10, <<"WARN", "MEM_PSI_WARN">> >>,
              <<noSwap, <<"INFO", "SWAP_ABSENT">> >> >>)

\* Against the hand-written gate: never louder, and it says the same but where the
\* gate alarms by the memory in use, for readings right on a threshold or between
\* the two thresholds of "full", and for a "some" from which the gate is critical.
AgreesWithGate(v, h) ==
  LET gate == Evaluate(h)
      apart == \/ h.psi = Absent
               \/ h.psi[1] = 10 \/ h.psi[1] >= 25
               \/ h.psi[2] \in 1..5
  IN /\ SevInt[v[1]] <= SevInt[gate[1]]
     /\ ~apart \/ gate[1] \in {"OK", "INFO"} => v = gate
==============================================================================
