----------------------------- MODULE QuorumScan -----------------------------
(***************************************************************************)
(* The governor's probe (src/swarm/probes/quorum.py): it opens the fabrics *)
(* of its peers, scans their state slots for severities and heartbeats by  *)
(* the end of the key, and counts.  A peer is a node or a control plane by *)
(* its file name.  The scan reads while the peer's probes write: what it   *)
(* sees of a slot is one of its values of that time, or a blank.           *)
(***************************************************************************)
EXTENDS Integers, Sequences, FiniteSetsExt, TLC

CONSTANT StaleAge        \* CODEX_QUORUM_STALE_S

ASSUME QuorumAssumption == StaleAge \in Nat

Blank == <<>>            \* no slot, or one in the middle of being rewritten
Level(sev) == CASE sev = "INFO" -> 1 [] sev = "WARN" -> 2 [] sev = "CRITICAL" -> 3
                [] OTHER -> 0
One(b) == IF b THEN 1 ELSE 0

\* Mutant: the last severity found counts, not the worst.
WorstLast(seen) == IF seen = <<>> \/ seen[Len(seen)] = Blank THEN 0
                   ELSE Level(seen[Len(seen)][1])

\* _scan: the worst of the severities seen in a peer's slots.  One that is
\* blank is passed over, so it counts as OK.
Worst(seen) == Max({0} \union {Level(seen[s][1]) : s \in {t \in DOMAIN seen : seen[t] # Blank}})

\* A peer without a heartbeat is as old as can be.
IsStale(age) == age = Blank \/ age[1] > StaleAge

\* The counts over the peers p: p.role, p.open (its fabric can be opened), what
\* is seen of its severities (p.seen) and the age of its heartbeat (p.age).
QuorumFrame(peers) ==
  LET control == {p \in DOMAIN peers : peers[p].role = "control"}
      node == DOMAIN peers \ control
      open == {p \in DOMAIN peers : peers[p].open}
      worst == [p \in open |-> Worst(peers[p].seen)]
      ok(p) == p \in open /\ ~IsStale(peers[p].age) /\ worst[p] < 2
      count(S) == Cardinality(S)
  IN [quorum_total         |-> count(DOMAIN peers),
      quorum_present       |-> count(open),
      quorum_stale         |-> count({p \in open : IsStale(peers[p].age)}),
      quorum_nodes         |-> count(node),
      quorum_node_pressure |-> count({p \in node \intersect open : worst[p] >= 2}),
      quorum_node_critical |-> count({p \in node \intersect open : worst[p] >= 3}),
      quorum_controls      |-> count(control),
      quorum_control_ok    |-> One(\A p \in control : ok(p)),
      quorum_max_sev       |-> Max({0} \union {worst[p] : p \in open})]

QuorumOpcodes ==
  "Gam" :> ("t" :> "quorum_total" @@ "u" :> "quorum_present" @@ "s" :> "quorum_stale"
            @@ "n" :> "quorum_nodes" @@ "p" :> "quorum_node_pressure"
            @@ "c" :> "quorum_node_critical" @@ "o" :> "quorum_controls"
            @@ "k" :> "quorum_control_ok" @@ "m" :> "quorum_max_sev")
==============================================================================
