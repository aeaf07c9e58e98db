------------------------------- MODULE Probes --------------------------------
(***************************************************************************)
(* What the probes (src/swarm/probes) make of their surroundings: a frame  *)
(* of numbers, and the table that gives a genome's load characters their   *)
(* frame keys.  A probe that cannot read something reports zeros, never an *)
(* error.  Percentages and averages are integers.  The probes that         *)
(* remember earlier samples are in Window and Rates, quorum in QuorumScan. *)
(***************************************************************************)
EXTENDS Integers, Sequences, FiniteSetsExt, TLC

Absent == <<>>       \* what could not be read
Flag(b) == IF b THEN 1 ELSE 0
Highest(S) == Max({0} \union S)
------------------------------------------------------------------------------
(* kernel: pressure, memory and swap of the host.  h.psi is Absent or the   *)
(* averages <<some, full>>; h.mem has total, available and swap in kB.      *)

UsedPct(mem) ==
  IF mem.total = 0 THEN 0 ELSE 100 - (100 * mem.available) \div mem.total

KernelFrame(h) ==
  LET some == IF h.psi = Absent THEN 0 ELSE h.psi[1]
      full == IF h.psi = Absent THEN 0 ELSE h.psi[2]
  IN [psi_available  |-> Flag(h.psi # Absent),
      psi_some_avg10 |-> some,
      psi_full_avg10 |-> full,
      mem_used_pct   |-> UsedPct(h.mem),
      mem_avail_pct  |-> 100 - UsedPct(h.mem),
      swap_present   |-> Flag(h.mem.swap > 0)]

KernelOpcodes ==
  "psi" :> ("s" :> "psi_some_avg10" @@ "f" :> "psi_full_avg10"
            @@ "?" :> "psi_available")
  @@ "mem" :> ("u" :> "mem_used_pct" @@ "a" :> "mem_avail_pct"
               @@ "S" :> "swap_present")
------------------------------------------------------------------------------
(* cgroup_pods: the pods of a node.  A pod has its pressure averages, its   *)
(* memory and limit (0 for none) and the kills of the out-of-memory killer. *)
(* recent are the kills the window shows, see Deltas.                       *)

MemPct(pod) == IF pod.max > 0 THEN (100 * pod.current) \div pod.max ELSE 0

PodsFrame(pods, recent) ==
  [pod_count               |-> Cardinality(DOMAIN pods),
   pod_max_psi_some        |-> Highest({pods[p].some : p \in DOMAIN pods}),
   pod_max_psi_full        |-> Highest({pods[p].full : p \in DOMAIN pods}),
   pod_max_mem_pct         |-> Highest({MemPct(pods[p]) : p \in DOMAIN pods}),
   pod_delta_oom_kills_60s |-> recent,
   pod_count_pressured     |-> Cardinality({p \in DOMAIN pods : pods[p].some > 5})]

PodsOpcodes ==
  "pod" :> ("s" :> "pod_max_psi_some" @@ "f" :> "pod_max_psi_full"
            @@ "m" :> "pod_max_mem_pct" @@ "o" :> "pod_delta_oom_kills_60s"
            @@ "n" :> "pod_count" @@ "p" :> "pod_count_pressured")
------------------------------------------------------------------------------
(* k8s_api: the control plane.  c.auth: there are credentials; c.up: it     *)
(* answers; the Ready condition of each node, Absent if it has none; the    *)
(* events, with the age of the Warnings; the deployments.                   *)

\* The events younger than a minute, and those without a timestamp.
RecentWarnings(events) ==
  Cardinality({e \in DOMAIN events :
                 /\ events[e].warning
                 /\ events[e].age = Absent \/ events[e].age[1] <= 60})

\* Mutant: a node counts as ready until it says otherwise.
NotReadyWhenFalse(nodes) == Cardinality({n \in DOMAIN nodes : nodes[n] = <<"False">>})

\* A node that does not say it is ready is not.
NotReady(nodes) == Cardinality({n \in DOMAIN nodes : nodes[n] # <<"True">>})

Degraded(deployments) ==
  Cardinality({d \in DOMAIN deployments : deployments[d].ready < deployments[d].replicas})

\* Without an answer nothing more is asked, and all counts are zero.
ClusterFrame(c) ==
  LET up == c.auth /\ c.up
      Asked(count) == IF up THEN count ELSE 0
  IN [k8s_healthy      |-> Flag(up),
      k8s_auth_present |-> Flag(c.auth),
      k8s_nodes        |-> Asked(Cardinality(DOMAIN c.nodes)),
      k8s_not_ready    |-> Asked(NotReady(c.nodes)),
      k8s_warnings     |-> Asked(RecentWarnings(c.events)),
      k8s_degraded     |-> Asked(Degraded(c.deployments))]

ClusterOpcodes ==
  "K" :> ("a" :> "k8s_healthy" @@ "?" :> "k8s_auth_present" @@ "n" :> "k8s_nodes"
          @@ "x" :> "k8s_not_ready" @@ "e" :> "k8s_warnings" @@ "d" :> "k8s_degraded")
------------------------------------------------------------------------------
(* fabric_peer: another swarm, read from its fabric.  p.open: there is a    *)
(* fabric of the right size; its state entries, Absent where there is none; *)
(* the state of its agents; recent are the queries the window shows.        *)

SevInt == [OK |-> 0, INFO |-> 1, WARN |-> 2, CRITICAL |-> 3]
Healthy == {"connected", "ready", "idle", "ok", "open", "serving"}
NeverHeard == 9999

Number0(entry) == IF entry = Absent THEN 0 ELSE entry[1]

\* Agents neither free nor zombies.
AliveCount(acbs) == Cardinality({a \in DOMAIN acbs : acbs[a] \in 1..3})

PeerFrame(p, recent) ==
  [peer_available     |-> Flag(p.open),
   peer_sev_int       |-> IF p.open /\ p.sev # Absent THEN SevInt[p.sev[1]] ELSE 0,
   peer_psi_some10    |-> IF p.open THEN Number0(p.some) ELSE 0,
   peer_heartbeat_age |-> IF p.open /\ p.age # Absent THEN p.age[1] ELSE NeverHeard,
   peer_rag_docs      |-> IF p.open THEN Number0(p.docs) ELSE 0,
   peer_last_score    |-> IF p.open THEN Number0(p.score) ELSE 0,
   peer_gw_ok         |-> Flag(p.open /\ p.gw # Absent /\ p.gw[1] \in Healthy),
   peer_alive         |-> IF p.open THEN AliveCount(p.acbs) ELSE 0,
   peer_queries_60s   |-> IF p.open THEN recent ELSE 0]

PeerOpcodes ==
  "Psi" :> ("a" :> "peer_available" @@ "v" :> "peer_sev_int" @@ "p" :> "peer_psi_some10"
            @@ "h" :> "peer_heartbeat_age" @@ "r" :> "peer_rag_docs"
            @@ "s" :> "peer_last_score" @@ "g" :> "peer_gw_ok" @@ "n" :> "peer_alive"
            @@ "d" :> "peer_queries_60s")
==============================================================================
