----------------------------- MODULE SensorGate ------------------------------
(***************************************************************************)
(* The hand-written alert gate (src/swarm/sensor_gate.py, evaluate) over a *)
(* host as Probes describes it: the reference the genomes replace.         *)
(***************************************************************************)
EXTENDS Probes

\* Without the pressure averages thresholds are lower when there is no swap.
Tighten(threshold, swapMissing) == IF swapMissing THEN threshold - 7 ELSE threshold

\* By pressure if the kernel reports it, else by the memory in use.
Critical(h, swapMissing) ==
  IF h.psi # Absent THEN h.psi[2] >= 5 \/ h.psi[1] >= 25
  ELSE UsedPct(h.mem) >= Tighten(92, swapMissing)
Warns(h, swapMissing) ==
  IF h.psi # Absent THEN h.psi[2] >= 1 \/ h.psi[1] >= 10
  ELSE UsedPct(h.mem) >= Tighten(80, swapMissing)

Concern(h, swapMissing) ==
  CASE Critical(h, swapMissing) ->
         <<"CRITICAL", IF h.psi # Absent THEN "MEM_PSI_CRIT" ELSE "MEM_LVL_CRIT">>
    [] ~Critical(h, swapMissing) /\ Warns(h, swapMissing) ->
         <<"WARN", IF h.psi # Absent THEN "MEM_PSI_WARN" ELSE "MEM_LVL_WARN">>
    [] OTHER -> IF swapMissing THEN <<"INFO", "SWAP_ABSENT">> ELSE <<"OK", "OK">>

\* A warning without swap is critical.
Escalated == [MEM_PSI_WARN |-> "MEM_PSI_CRIT_NOSW", MEM_LVL_WARN |-> "MEM_LVL_CRIT_NOSW"]

\* Mutant: it is not.
EvaluateAsIs(h) == Concern(h, h.mem.swap = 0)

Evaluate(h) ==
  LET swapMissing == h.mem.swap = 0
      concern == Concern(h, swapMissing)
  IN IF swapMissing /\ concern[1] = "WARN"
     THEN <<"CRITICAL", Escalated[concern[2]]>> ELSE concern
==============================================================================
