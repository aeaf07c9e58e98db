----------------------------- MODULE MCSequential ----------------------------
(***************************************************************************)
(* The sequential parts side by side, for TLC: each initial state chooses  *)
(* one part, whose next-state relation is then the only one; the variables *)
(* of the others keep their first values.                                  *)
(***************************************************************************)
EXTENDS Genome, DnaSplit, Fitness, Evolution, Window, Rates, ShippedKernel, QuorumScan

VARIABLES
  part,     \* which part the behaviour is of
  world     \* what the genome's frame was sampled from, or what is to be scored

allVars == <<part, world, vars, splitVars, evolutionVars, windowVars, ratesVars>>
------------------------------------------------------------------------------
(* The shipped genomes and what they are run on.                            *)

AllOpcodes ==
  KernelOpcodes @@ PodsOpcodes @@ DiskNetOpcodes @@ ClusterOpcodes @@ PeerOpcodes
  @@ QuorumOpcodes

\* src/swarms/k8s_node.yaml:32 and 44.
PodsGenome == <<"pod", "o", "0", ">", "->", "C", "c",
                "pod", "s", "#", "1", "0", ">", "->", "W", "w">>
DiskNetGenome == <<"net", "e", "0", ">", "->", "C", "c",
                   "disk", "u", "#", "8", "0", ">", "->", "W", "w">>
\* src/swarms/k8s_cluster.yaml:25.
ClusterGenome == <<"K", "a", "1", "<", "K", "?", "and", "->", "C", "g",
                   "K", "x", "0", ">", "->", "C", "d",
                   "K", "d", "0", ">", "->", "W", "w",
                   "K", "e", "5", ">", "->", "W", "w">>
\* src/swarms/k8s_aggregator.yaml:47.
GovernorGenome == <<"Gam", "c", "0", ">", "Gam", "k", "and", "->", "C", "d", ";",
                    "Gam", "k", "0", "=", "->", "C", "g", ";",
                    "Gam", "p", "0", ">", "->", "W", "p">>
\* src/swarms/vajrayana_monitor.yaml:50.
PeerGenome == <<"Psi", "a", "1", "<", "->", "C", "g", ";",
                "Psi", "v", "3", ">=", "->", "C", "d", ";",
                "Psi", "g", "1", "<", "->", "C", "g", ";",
                "Psi", "h", "#", "1", "2", "0", ">", "->", "C", "d", ";",
                "Psi", "s", "5", ">", "Psi", "d", "2", "<", "and", "->", "W", "p", ";",
                "Psi", "p", "#", "1", "0", ">", "->", "W", "w", ";",
                "Psi", "r", "1", "<", "->", "I", "a">>

\* Surroundings on both sides of every threshold.
Hosts == [psi : {0, 9, 10, 11, 24, 25} \X {0, 1, 4, 5, 6},
          mem : [total : {100}, available : {28}, swap : {0, 1}]]
         \union [psi : {Absent},
                 mem : [total : {100}, available : {7, 8, 14, 15, 20, 21, 26, 27, 28}, swap : {0, 1}]]

\* What the genomes of the other probes load, by character and signature.
Loaded ==
  {<<"pod", "o", "pod_delta_oom_kills_60s">>, <<"pod", "s", "pod_max_psi_some">>,
   <<"net", "e", "net_errors">>, <<"disk", "u", "disk_util">>,
   <<"K", "a", "k8s_healthy">>, <<"K", "?", "k8s_auth_present">>, <<"K", "x", "k8s_not_ready">>,
   <<"K", "d", "k8s_degraded">>, <<"K", "e", "k8s_warnings">>,
   <<"Gam", "c", "quorum_node_critical">>, <<"Gam", "k", "quorum_control_ok">>,
   <<"Gam", "p", "quorum_node_pressure">>,
   <<"Psi", "a", "peer_available">>, <<"Psi", "v", "peer_sev_int">>, <<"Psi", "g", "peer_gw_ok">>,
   <<"Psi", "h", "peer_heartbeat_age">>, <<"Psi", "s", "peer_last_score">>,
   <<"Psi", "d", "peer_queries_60s">>, <<"Psi", "p", "peer_psi_some10">>,
   <<"Psi", "r", "peer_rag_docs">>}

\* The load table of all probes serves these genomes, and these are hosts.
ASSUME ProbeTable ==
  /\ LoadsKernel
  /\ \A l \in Loaded : Loads(l[1], l[2], l[3])
  /\ \A h \in Hosts : IsHost(h)

\* src/scenarios, each by its phases: some, full, used, swap, length and truth.  All
\* labelled phases have five ticks.
Noswap == <<"INFO", "SWAP_ABSENT">>
NoswapCrit == <<"CRITICAL", "MEM_PSI_CRIT_NOSW">>
Corpus ==
  {<< <<4, 5, 60, 1, 60, <<>> >>, <<14, 6, 75, 1, 30, <<"CRITICAL", "MEM_PSI_CRIT">> >> >>,
   << <<10, 0, 50, 0, 80, Noswap>>, <<11, 0, 65, 0, 30, NoswapCrit>> >>,
   << <<10, 0, 45, 1, 60, <<>> >>, <<11, 0, 55, 1, 20, <<"WARN", "MEM_PSI_WARN">> >> >>,
   << <<3, 1, 42, 1, 200, <<>> >> >>,
   << <<0, 0, 30, 1, 60, <<>> >>, <<12, 0, 50, 1, 20, <<"WARN", "MEM_PSI_WARN">> >> >>,
   << <<2, 1, 38, 0, 200, Noswap>> >>,
   << <<0, 0, 30, 0, 50, Noswap>>, <<12, 0, 60, 0, 30, NoswapCrit>> >>,
   << <<0, 0, 35, 1, 50, <<>> >>, <<14, 8, 70, 1, 50, <<"CRITICAL", "MEM_PSI_CRIT">> >> >>,
   << <<0, 0, 25, 0, 100, Noswap>> >>}
CorpusHost(ph) ==
  [psi |-> <<ph[1], ph[2]>>, mem |-> [total |-> 100, available |-> 100 - ph[3], swap |-> ph[4]]]
CorpusHosts == {CorpusHost(ph) : ph \in UNION {ToSet(phases) : phases \in Corpus}}

Pod(some) == [some |-> some, full |-> 0, current |-> 1, max |-> 0]
PodWorlds == [pods : UNION {[P -> {Pod(0), Pod(10), Pod(11)}] : P \in SUBSET {"p", "q"}},
              recent : {0, 1}]

Disk(busy) == [ops |-> 0, ms |-> 0, busy |-> busy]
Net(errs) == [bytes |-> 0, errs |-> errs]
DiskNetWorlds == [disks : [{"d", "e"} -> {Disk(0), Disk(8000), Disk(8100)}],
                  nets : [{"f", "g"} -> {Net(2), Net(3)}]]
Before == [disks |-> [d \in {"d", "e"} |-> Disk(0)], nets |-> [n \in {"f"} |-> Net(2)]]

Event(age) == [warning |-> TRUE, age |-> age]
ClusterWorlds ==
  [auth : BOOLEAN, up : BOOLEAN,
   nodes : {<<>>} \union [{"n", "m"} -> {Absent, <<"True">>, <<"Unknown">>}],
   deployments : {<<>>} \union {<<[replicas |-> 2, ready |-> r]>> : r \in 1..2},
   events : {[e \in 1..n |-> Event(a)] : n \in {5, 6}, a \in {Absent, <<60>>, <<61>>}}]

PeerWorlds ==
  [open : {TRUE}, sev : {Absent, <<"OK">>, <<"CRITICAL">>}, gw : {Absent, <<"ok">>, <<"error">>},
   age : {Absent, <<120>>, <<121>>}, score : {Absent, <<6>>}, some : {<<10>>, <<11>>},
   docs : {Absent, <<0>>, <<1>>}, acbs : {<<2, 4>>}, recent : {1, 2}]
  \union [open : {FALSE}, sev : {Absent, <<"CRITICAL">>}, gw : {Absent}, age : {Absent},
          score : {Absent}, some : {Absent}, docs : {Absent}, acbs : {<<>>}, recent : {0}]

\* What a scan sees while nobody writes: every severity and heartbeat there is.
Quorums ==
  LET node == [role : {"node"}, open : BOOLEAN, age : {Blank, <<0>>},
               seen : {<<>>, <<<<"OK">>>>, <<<<"WARN">>>>, <<<<"CRITICAL">>, <<"OK">>>>}]
      control == [role : {"control"}, open : BOOLEAN, age : {Blank, <<30>>, <<31>>},
                  seen : {<<<<"OK">>>>, <<<<"INFO">>>>, <<<<"WARN">>>>}]
  IN {[n |-> a, m |-> b] : a \in node, b \in node}
     \union {[n |-> a, c |-> b] : a \in node, b \in control}
------------------------------------------------------------------------------
(* The rules, as the comments of the configurations have them, of what the  *)
(* surroundings are rather than of the frame.                               *)

\* k8s_node.yaml:30-31
PodsRules(w) ==
  First(<< <<w.recent > 0, <<"CRITICAL", "MEM_PSI_CRIT">> >>,
           <<\E p \in DOMAIN w.pods : w.pods[p].some > 10, <<"WARN", "MEM_PSI_WARN">> >> >>)

\* k8s_node.yaml:43.  The interface g was not there at the sample before, which was
\* ten seconds ago: a per cent of that is 100 ms.
DiskNetRules(w) ==
  First(<< <<w.nets["f"].errs > 2, <<"CRITICAL", "MEM_PSI_CRIT">> >>,
           <<\E d \in DOMAIN w.disks : w.disks[d].busy > 80 * 100,
             <<"WARN", "MEM_PSI_WARN">> >> >>)

\* k8s_cluster.yaml:19-24; only an answering control plane can be asked.
ClusterRules(c) ==
  LET asked == c.auth /\ c.up
      fresh == {Absent} \union {<<s>> : s \in 0..60}
      warnings == {e \in DOMAIN c.events : c.events[e].warning /\ c.events[e].age \in fresh}
  IN First(<< <<c.auth /\ ~c.up, <<"CRITICAL", "GATE_DOWN">> >>,
              <<asked /\ \E n \in DOMAIN c.nodes : c.nodes[n] # <<"True">>,
                <<"CRITICAL", "CLUSTER_DEGRADED">> >>,
              <<asked /\ \E d \in DOMAIN c.deployments :
                           c.deployments[d].ready < c.deployments[d].replicas,
                <<"WARN", "MEM_PSI_WARN">> >>,
              <<asked /\ Cardinality(warnings) > 5, <<"WARN", "MEM_PSI_WARN">> >> >>)

\* vajrayana_monitor.yaml:25-49
PeerRules(p) ==
  First(<< <<~p.open, <<"CRITICAL", "GATE_DOWN">> >>,
           <<p.sev = <<"CRITICAL">>, <<"CRITICAL", "CLUSTER_DEGRADED">> >>,
           <<~ \E s \in Healthy : p.gw = <<s>>, <<"CRITICAL", "GATE_DOWN">> >>,
           <<p.age = Absent \/ p.age[1] > 120, <<"CRITICAL", "CLUSTER_DEGRADED">> >>,
           <<p.score # Absent /\ p.score[1] > 5 /\ p.recent < 2, <<"WARN", "POD_PRESSURE">> >>,
           <<p.some # Absent /\ p.some[1] > 10, <<"WARN", "MEM_PSI_WARN">> >>,
           <<p.docs \in {Absent, <<0>>}, <<"INFO", "SWAP_ABSENT">> >> >>)

\* A peer's slots show one of these severities.
Reports(peer, sevs) == \E s \in DOMAIN peer.seen : \E v \in sevs : peer.seen[s] = <<v>>

\* k8s_aggregator.yaml:31-36: rule 2 dominates rule 1.
GovernorRules(peers) ==
  LET nodes == {p \in DOMAIN peers : peers[p].role = "node" /\ peers[p].open}
      controlOk == \A p \in DOMAIN peers :
                     peers[p].role = "control" =>
                       /\ peers[p].open /\ ~Reports(peers[p], {"WARN", "CRITICAL"})
                       /\ peers[p].age # Blank /\ peers[p].age[1] <= StaleAge
  IN First(<< <<~controlOk, <<"CRITICAL", "GATE_DOWN">> >>,
              <<\E n \in nodes : Reports(peers[n], {"CRITICAL"}),
                <<"CRITICAL", "CLUSTER_DEGRADED">> >>,
              <<\E n \in nodes : Reports(peers[n], {"WARN", "CRITICAL"}),
                <<"WARN", "POD_PRESSURE">> >> >>)

DiskNetFrame(w) ==
  LET disk == DiskFrame(Before.disks, w.disks, 10)
      net == NetFrame(Before.nets, w.nets, 10)
  IN [key \in DOMAIN disk \union DOMAIN net |->
        IF key \in DOMAIN disk THEN disk[key] ELSE net[key]]

\* By probe: its worlds, and the genomes run, the frame and the verdict for each.
Probe ==
  [kernel  |-> [worlds |-> Hosts \union CorpusHosts, genomes |-> {KernelGenome, HandCoded}],
   pods    |-> [worlds |-> PodWorlds, genomes |-> {PodsGenome}],
   diskNet |-> [worlds |-> DiskNetWorlds, genomes |-> {DiskNetGenome}],
   cluster |-> [worlds |-> ClusterWorlds, genomes |-> {ClusterGenome}],
   peer    |-> [worlds |-> PeerWorlds, genomes |-> {PeerGenome}],
   quorum  |-> [worlds |-> Quorums, genomes |-> {GovernorGenome}]]

FrameOf(probe, w) ==
  CASE probe = "kernel" -> KernelFrame(w)
    [] probe = "pods" -> PodsFrame(w.pods, w.recent)
    [] probe = "diskNet" -> DiskNetFrame(w)
    [] probe = "cluster" -> ClusterFrame(w)
    [] probe = "peer" -> PeerFrame(w, w.recent)
    [] probe = "quorum" -> QuorumFrame(w)

RulesOf(probe, w) ==
  CASE probe = "kernel" -> KernelRules(w)
    [] probe = "pods" -> PodsRules(w)
    [] probe = "diskNet" -> DiskNetRules(w)
    [] probe = "cluster" -> ClusterRules(w)
    [] probe = "peer" -> PeerRules(w)
    [] probe = "quorum" -> GovernorRules(w)
------------------------------------------------------------------------------
(* What the oracle scores: a genome as a function of frames, and phases that *)
(* follow one another, perhaps after a gap.                                  *)

Scenario(phases) ==
  LET from[k \in 1..(Len(phases) + 1)] ==
        IF k = 1 THEN 0 ELSE from[k - 1] + phases[k - 1].gap + phases[k - 1].length
  IN [k \in DOMAIN phases |->
        LET lo == from[k] + phases[k].gap
        IN [lo |-> lo, hi |-> lo + phases[k].length - 1, frame |-> phases[k].frame,
            truth |-> phases[k].truth, deadline |-> phases[k].deadline]]
Ticks(scenario) == Last(scenario).hi + 1

Judges == [{"f", "g"} -> {Calm, <<"WARN", "w">>, <<"CRITICAL", "c">>, <<"CRITICAL", "w">>}]
Phases(gaps, lengths) ==
  [gap : gaps, length : lengths, frame : {"f", "g"}, truth : {<<>>}, deadline : {<<>>}]
  \union [gap : gaps, length : lengths, frame : {"f", "g"},
          truth : {<<"WARN", "w">>, <<"CRITICAL", "c">>}, deadline : {<<>>, <<1>>}]
Scenarios ==
  {Scenario(p) : p \in SeqOf(Phases({0, 1}, {1, 2}), 2) \union [1..3 -> Phases({0}, {1, 2})]} \ {<<>>}

\* The shipped kernel genome, by its rules, on a scenario of the corpus.
CorpusWorld(phases) ==
  LET hosts == {CorpusHost(ph) : ph \in ToSet(phases)}
  IN [judge |-> [h \in hosts |-> KernelRules(h)],
      scenario |-> Scenario([k \in DOMAIN phases |->
                               [gap |-> 0, length |-> phases[k][5], frame |-> CorpusHost(phases[k]),
                                truth |-> phases[k][6], deadline |-> <<5>>]])]
------------------------------------------------------------------------------
(* What the genome interpreter is run on beside these, whether well-formed   *)
(* or not: every genome of up to four characters of each kind.               *)

Garbage == SeqOf({";", "->", "psi", "f", "#", "7", ">", "=", "and", "or", "not"}, 4)
GarbageInputs == Garbage \X {[psi_full_avg10 |-> 1]}

\* A digit that is not decimal may turn up as well.
Foreign == SeqOf({"#", "7", Superscript}, 2)
ForeignInputs == Foreign \X {[psi_full_avg10 |-> 1]}

\* The search is for a load's comparison with a tag: half of it is worth
\* something.
NearRule(g) ==
  LET hit == Len(g) >= 2 /\ SubSeq(g, 1, 2) = <<"->", "C">>
  IN CASE hit -> 0
       [] ~hit /\ (Len(g) >= 2 \/ g = <<"C">>) -> -500
       [] OTHER -> -1000
RuleTokens == {<<"->", "W">>, <<"->", "C">>}
RuleAlphabet == {<<"->">>, <<"C">>, <<"psi", "f">>}
Bloated == <<"W", "W", "W">>
BloatedSlots == <<<<"psi", "f">>, <<"psi", "f">>, <<"C">>>>
------------------------------------------------------------------------------
(* One behaviour is of one part.                                            *)

GenomeIdle == genome = <<>> /\ frame = Nothing /\ i = 1 /\ stack = <<>> /\ verdict = Calm
SplitIdle == text = <<>> /\ offset = 0 /\ chunks = <<>>
SearchIdle == EvolutionInit /\ rule = "rpn"
RatesIdle == RatesInit /\ nets = Nothing

SequentialInit ==
  /\ part \in {"genome", "rules", "score", "corpus", "split", "search", "window", "rates"}
  /\ CASE part = "genome" -> Init /\ world = Nothing
       [] part = "rules" ->
            \E p \in DOMAIN Probe : \E w \in Probe[p].worlds, g \in Probe[p].genomes :
              world = [probe |-> p, of |-> w] /\ Start(g, FrameOf(p, w))
       [] part = "score" ->
            \E j \in Judges, s \in Scenarios : world = [judge |-> j, scenario |-> s] /\ GenomeIdle
       [] part = "corpus" -> (\E c \in Corpus : world = CorpusWorld(c)) /\ GenomeIdle
       [] OTHER -> world = Nothing /\ GenomeIdle
  /\ IF part = "split" THEN SplitInit ELSE SplitIdle
  /\ IF part = "search" THEN EvolutionInit ELSE SearchIdle
  /\ WindowInit
  /\ IF part = "rates" THEN RatesInit ELSE RatesIdle

SequentialNext ==
  /\ UNCHANGED <<part, world>>
  /\ \/ /\ part \in {"genome", "rules"} /\ Next
        /\ UNCHANGED <<splitVars, evolutionVars, windowVars, ratesVars>>
     \/ /\ part = "split" /\ SplitNext
        /\ UNCHANGED <<vars, evolutionVars, windowVars, ratesVars>>
     \/ /\ part = "search" /\ EvolutionNext
        /\ UNCHANGED <<vars, splitVars, windowVars, ratesVars>>
     \/ /\ part = "window" /\ WindowNext
        /\ UNCHANGED <<vars, splitVars, evolutionVars, ratesVars>>
     \/ /\ part = "rates" /\ RatesNext
        /\ UNCHANGED <<vars, splitVars, evolutionVars, windowVars>>

\* The interpreter is a function: it goes on until it returns.
SequentialSpec == SequentialInit /\ [][SequentialNext]_allVars /\ WF_vars(Next)
------------------------------------------------------------------------------
\* Every shipped genome decides as the comments of its configuration say, in terms
\* of the host, the pods, the cluster or the peers themselves: across the probe's
\* sampling, its load table, and a genome that does without separators and leaves
\* an operand to stack underflow.
ShippedRules ==
  part = "rules" /\ verdict \in Verdicts => verdict = RulesOf(world.probe, world.of)

\* The kernel genomes against the hand-written gate they replace: never louder, and
\* apart from it only where they mean to be.
GateAgrees ==
  part = "rules" /\ world.probe = "kernel" /\ verdict \in Verdicts =>
    AgreesWithGate(verdict, world.of)

\* The oracle's best score and its sentinel mean what they should, phase by phase;
\* and the genome that ships has the best score on every scenario that ships, the
\* frames of which are such as the kernel probe samples.
ScoreIsEarned ==
  /\ part \in {"score", "corpus"} =>
       Earned(world.judge, world.scenario, Ticks(world.scenario))
  /\ part = "corpus" =>
       /\ Score(world.judge, world.scenario, Ticks(world.scenario)) = 0
       /\ \A h \in DOMAIN world.judge :
            KernelFrame(h) = MakeFrame(h.psi[1], h.psi[2], UsedPct(h.mem), h.mem.swap)

\* Not so: swarm/fitness.py:5, see SilentInCalm, and see HitsAreInPhase.
AlarmsEnd == part = "score" => SilentInCalm(world.judge, world.scenario, Ticks(world.scenario))
HitsAreTimely == part = "score" => HitsAreInPhase(world.judge, world.scenario, Ticks(world.scenario))

\* Not so: the gate's alarms that the shipped genome has no rule for.
GateIsHeeded ==
  part = "rules" /\ world.probe = "kernel" /\ verdict \in Verdicts =>
    SevInt[verdict[1]] >= SevInt[Evaluate(world.of)[1]]
==============================================================================
