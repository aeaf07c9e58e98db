------------------------------- MODULE Window --------------------------------
(***************************************************************************)
(* "In the last minute": the ring in which cgroup_pods and fabric_peer     *)
(* (src/swarm/probes) keep the totals of earlier samples, as cgroup_pods   *)
(* uses it for kills by the out-of-memory killer.  Pods are killed in, and *)
(* come and go; a new pod's counter starts at zero.                        *)
(***************************************************************************)
EXTENDS Integers, Sequences, SequencesExt, FiniteSetsExt

CONSTANTS
  Pods,          \* the places for pods
  RingCap,       \* the samples the ring keeps
  WindowS,       \* the window, in seconds
  Cadences,      \* the seconds from one sample to the next
  MaxKills,      \* bound: the kills
  MaxSamples     \* bound: the samples

ASSUME WindowAssumption ==
  /\ IsFiniteSet(Pods)
  /\ RingCap \in Nat \ {0} /\ WindowS \in Nat /\ Cadences \subseteq Nat

VARIABLES
  oomKills,   \* by pod: its counter
  clock,      \* the time of the last sample
  ring,       \* the ring: entries <<time, total>>
  recent,     \* the kills shown by the last sample
  killed,     \* all kills so far
  left,       \* those counted by pods that have gone
  samples     \* the samples taken: time, killed and left then

windowVars == <<oomKills, clock, ring, recent, killed, left, samples>>

WindowInit ==
  /\ oomKills = [p \in Pods |-> 0] /\ clock = 0 /\ ring = <<>> /\ recent = 0
  /\ killed = 0 /\ left = 0 /\ samples = <<>>

Kill(p) ==
  /\ killed < MaxKills
  /\ oomKills' = [oomKills EXCEPT ![p] = @ + 1] /\ killed' = killed + 1
  /\ UNCHANGED <<clock, ring, recent, left, samples>>

Replace(p) ==
  /\ oomKills[p] > 0
  /\ left' = left + oomKills[p]
  /\ oomKills' = [oomKills EXCEPT ![p] = 0]
  /\ UNCHANGED <<clock, ring, recent, killed, samples>>

\* Mutant: an entry as old as the window is still the baseline when it is the
\* first, whatever its age.
BaselineFirst(entries, now) == entries[1][2]

\* The total of the earliest entry in the window; the last entry is of now.
Baseline(entries, now) ==
  entries[Min({k \in DOMAIN entries : entries[k][1] >= now - WindowS})][2]

\* The ring with a new entry: the oldest goes when it is over its capacity.
Recorded(entries, now, total) ==
  LET all == Append(entries, <<now, total>>)
  IN IF Len(all) > RingCap THEN Tail(all) ELSE all

\* What the window shows; the total may have gone down.
Shown(entries, now, total) == Max({0, total - Baseline(entries, now)})

Total == MapThenSumSet(LAMBDA p : oomKills[p], Pods)

Sample(dt) ==
  /\ Len(samples) < MaxSamples
  /\ clock' = clock + dt
  /\ ring' = Recorded(ring, clock', Total)
  /\ recent' = Shown(ring', clock', Total)
  /\ samples' = Append(samples, [ts |-> clock', killed |-> killed, left |-> left])
  /\ UNCHANGED <<oomKills, killed, left>>

WindowNext ==
  \/ \E p \in Pods : Kill(p) \/ Replace(p)
  \/ \E dt \in Cadences : Sample(dt)

WindowSpec == WindowInit /\ [][WindowNext]_windowVars
------------------------------------------------------------------------------
\* The samples that are in the window.
InWindow == {k \in DOMAIN samples : samples[k].ts >= clock - WindowS}

\* What the last sample shows, as long as no pod with kills has gone: with the
\* window's samples all in the ring the kills since the earliest of them,
\* with more of them still those since the last samples; and nothing is shown
\* of kills that were before the window.
WindowShows ==
  samples # <<>> =>
    LET latest == samples[Len(samples)]
        since(k) == latest.killed - samples[k].killed
        first == Min(InWindow)
        kept == Max({first, Len(samples) - RingCap + 1})
    IN /\ recent <= since(first)
       /\ latest.left = samples[first].left => recent = since(kept)

\* "oom_kills observed in the last ~60s": not while samples come so fast that
\* the ring holds less than a minute of them.
WholeWindow ==
  samples # <<>> /\ samples[Len(samples)].left = samples[Min(InWindow)].left
  => recent = samples[Len(samples)].killed - samples[Min(InWindow)].killed

\* A kill since the last sample shows: not when a pod with kills has gone.
KillShows ==
  Len(samples) >= 2 /\ Len(samples) - 1 \in InWindow
  /\ samples[Len(samples)].killed > samples[Len(samples) - 1].killed => recent > 0
==============================================================================
