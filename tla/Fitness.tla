------------------------------- MODULE Fitness -------------------------------
(***************************************************************************)
(* The oracle of the evolution (src/swarm/fitness.py): a genome is run     *)
(* against the phases of a labelled scenario, and the changes of its       *)
(* verdict, the edges, earn a score.  The frame of a phase does not        *)
(* change, so a genome is a function from frames to verdicts here.         *)
(***************************************************************************)
EXTENDS Integers, Sequences, FiniteSets, SequencesExt, FiniteSetsExt

Calm == <<"OK", "OK">>
Infeasible == -1000000000
MissCap == 1000
NearMiss == 500
HalfMiss == 250

\* A phase has its first and last tick, its frame, the verdict it is labelled
\* with, <<>> for a calm one, and the deadline, <<>> where none is given.
Covers(ph, tick) == tick \in ph.lo..ph.hi

\* The phase of a tick; of overlapping phases the first counts.
PhaseFor(scenario, tick) == SelectInSeq(scenario, LAMBDA ph : Covers(ph, tick))

\* The frames of a synthetic host: as the kernel probe's, with pressure
\* averages always there and the memory taken from the level.
MakeFrame(some, full, usedPct, swap) ==
  [psi_available |-> 1, psi_some_avg10 |-> some, psi_full_avg10 |-> full,
   mem_used_pct |-> usedPct, mem_avail_pct |-> 100 - usedPct, swap_present |-> swap]

\* The verdict of a tick that is in a phase.
VerdictAt(judge, scenario, tick) == judge[scenario[PhaseFor(scenario, tick)].frame]

\* The ticks before one that are in a phase: the others are passed over.
Played(scenario, tick) == {t \in 0..(tick - 1) : PhaseFor(scenario, t) # 0}

\* Mutant: a verdict that calms down is not remembered.
LastAlarm(judge, scenario, tick) ==
  LET alarms == {t \in Played(scenario, tick) : VerdictAt(judge, scenario, t) # Calm}
  IN IF alarms = {} THEN Calm ELSE VerdictAt(judge, scenario, Max(alarms))

\* The verdict that an edge is told from.  It is remembered at every edge, so it is
\* that of the tick played before.
LastVerdict(judge, scenario, tick) ==
  LET before == Played(scenario, tick)
  IN IF before = {} THEN Calm ELSE VerdictAt(judge, scenario, Max(before))

\* The edges, a tick and its verdict each: those whose verdict is not the last one.
Replay(judge, scenario, ticks) ==
  {[tick |-> t, verdict |-> VerdictAt(judge, scenario, t)] :
     t \in {u \in Played(scenario, ticks) :
             VerdictAt(judge, scenario, u) # LastVerdict(judge, scenario, u)}}

\* The alarms among the edges, from one tick to another.
Alarms(edges, from, to) == {e \in edges : e.tick \in from..to /\ e.verdict # Calm}

FalseAlarms(edges, scenario) ==
  LET alarms == [k \in DOMAIN scenario |->
                   IF scenario[k].truth = <<>>
                   THEN Cardinality(Alarms(edges, scenario[k].lo, scenario[k].hi)) ELSE 0]
  IN MapThenSumSet(LAMBDA k : alarms[k], DOMAIN scenario)

Matches(v, truth) ==
  (IF v[1] = truth[1] THEN 1 ELSE 0) + (IF v[2] = truth[2] THEN 1 ELSE 0)

Deadline(ph) == IF ph.deadline = <<>> THEN ph.hi - ph.lo + 1 ELSE ph.deadline[1]

\* Mutant: an alarm on a phase's first tick is too early.
AlarmsFromSecond(edges, ph) == Alarms(edges, ph.lo + 1, ph.lo + Deadline(ph))

\* The alarms that count for a phase: the deadline's tick is still in time.
InTime(edges, ph) == Alarms(edges, ph.lo, ph.lo + Deadline(ph))

\* What a labelled phase costs: the ticks to the first of the best alarms if
\* that one is right, a penalty if only half of it is, or nothing, or if there is
\* no alarm.
Cost(edges, ph) ==
  LET alarms == InTime(edges, ph)
      best == Max({-1} \union {Matches(e.verdict, ph.truth) : e \in alarms})
      hits == {e.tick : e \in {f \in alarms : Matches(f.verdict, ph.truth) = 2}}
  IN CASE best = 2 -> Min(hits) - ph.lo
       [] best = 1 -> HalfMiss
       [] best = 0 -> NearMiss
       [] OTHER -> MissCap

Score(judge, scenario, ticks) ==
  LET edges == Replay(judge, scenario, ticks)
      costs == [k \in DOMAIN scenario |->
                  IF scenario[k].truth = <<>> THEN 0 ELSE Cost(edges, scenario[k])]
  IN IF FalseAlarms(edges, scenario) > 0 THEN Infeasible
     ELSE -MapThenSumSet(LAMBDA k : costs[k], DOMAIN scenario)
------------------------------------------------------------------------------
(* What a score means, phase by phase, for scenarios whose phases follow    *)
(* one another.                                                             *)

\* The verdict a genome comes to a phase with.
VerdictBefore(judge, scenario, k) == IF k = 1 THEN Calm ELSE judge[scenario[k - 1].frame]
VerdictIn(judge, scenario, k) == judge[scenario[k].frame]

RaisesIn(judge, scenario, k) ==
  /\ VerdictIn(judge, scenario, k) # Calm
  /\ VerdictIn(judge, scenario, k) # VerdictBefore(judge, scenario, k)

\* The best score is for genomes that raise the right alarm in every labelled
\* phase and none in a calm one, the sentinel for those that do raise one there:
\* no alarm of the past or of a later phase makes up for a wrong one.
Earned(judge, scenario, ticks) ==
  LET s == Score(judge, scenario, ticks)
      calm == {k \in DOMAIN scenario : scenario[k].truth = <<>>}
      raises == {k \in DOMAIN scenario : RaisesIn(judge, scenario, k)}
  IN /\ s = Infeasible <=> calm \intersect raises # {}
     /\ s = 0 <=> /\ raises = DOMAIN scenario \ calm
                  /\ \A k \in raises : VerdictIn(judge, scenario, k) = scenario[k].truth

\* swarm/fitness.py:5: "emits the right edge soon after a synthetic event begins,
\* and stays silent during calm".  Not so when the alarm outlasts the event: only
\* edges count.
SilentInCalm(judge, scenario, ticks) ==
  Score(judge, scenario, ticks) > Infeasible =>
    \A k \in DOMAIN scenario : scenario[k].truth = <<>> => VerdictIn(judge, scenario, k) = Calm

\* Detection in the phase itself: not so, an alarm on the first tick after a
\* phase without a deadline is counted for it.
HitsAreInPhase(judge, scenario, ticks) ==
  LET edges == Replay(judge, scenario, ticks)
  IN \A k \in DOMAIN scenario :
       scenario[k].truth # <<>> /\ Cost(edges, scenario[k]) < HalfMiss
       => VerdictIn(judge, scenario, k) = scenario[k].truth
==============================================================================
