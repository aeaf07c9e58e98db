-------------------------------- MODULE Rates --------------------------------
(***************************************************************************)
(* disk_net (src/swarm/probes/disk_net.py): rates from the counters of     *)
(* disks and network interfaces, by difference to the sample before.       *)
(* Interfaces come and go and their counters may start again.  Rates are   *)
(* in hundredths per second.                                               *)
(***************************************************************************)
EXTENDS Integers, FiniteSetsExt, TLC

CONSTANTS
  Ifaces,        \* the names of interfaces
  OldCount,      \* errors counted before the probe, or an interface, came up
  Intervals,     \* the seconds from one sample to the next
  MaxErrors,     \* bound: the errors of an interface between two samples
  MaxTicks       \* bound: the samples

ASSUME RatesAssumption ==
  /\ IsFiniteSet(Ifaces)
  /\ OldCount \in Nat /\ Intervals \subseteq Nat \ {0}

VARIABLES
  nets,      \* the interfaces that are up, with their counters
  prev,      \* those of the last sample
  since,     \* the seconds the last sample was apart from the one before
  rates,     \* what the last sample showed
  errors,    \* by interface: the errors since the last sample
  restarted, \* interfaces whose counters started again since then
  shown,     \* as of the last sample: errors, restarted, and the interfaces
             \* that were there at the one before too
  ticks      \* the number of samples

ratesVars == <<nets, prev, since, rates, errors, restarted, shown, ticks>>

Per(n, dt) == (100 * n) \div dt
Nothing == [x \in {} |-> {}]
Both(before, now) == DOMAIN before \intersect DOMAIN now

\* Mutant: what was not there at the last sample counts from zero.
ErrorsOfAll(before, now) ==
  [n \in DOMAIN now |->
     Max({0, now[n].errs - IF n \in DOMAIN before THEN before[n].errs ELSE 0})]

\* The new errors of every interface that was there at the last sample too.
\* Counters that went down count as none.
NewErrors(before, now) ==
  [n \in Both(before, now) |-> Max({0, now[n].errs - before[n].errs})]

\* No bytes since the last sample.
LinkDown(before, now) ==
  Cardinality({n \in Both(before, now) : now[n].bytes = before[n].bytes})

NetFrame(before, now, dt) ==
  LET new == NewErrors(before, now)
  IN [net_errors    |-> MapThenSumSet(LAMBDA n : Per(new[n], dt), DOMAIN new),
      net_link_down |-> LinkDown(before, now),
      net_ifaces    |-> Cardinality(DOMAIN now)]

\* Of disks: operations and milliseconds busy; util in per cent.
DiskFrame(before, now, dt) ==
  LET both == Both(before, now)
      delta(d, f) == now[d][f] - before[d][f]
  IN [disk_iops |-> MapThenSumSet(LAMBDA d : Per(Max({0, delta(d, "ops")}), dt), both),
      disk_util |-> Max({0} \union {delta(d, "busy") \div (10 * dt) : d \in both}),
      disk_wait |-> Max({0} \union {delta(d, "ms") \div delta(d, "ops") :
                                      d \in {e \in both : delta(e, "ops") > 0}})]

DiskNetOpcodes ==
  "disk" :> ("u" :> "disk_util" @@ "r" :> "disk_iops" @@ "a" :> "disk_wait")
  @@ "net" :> ("e" :> "net_errors" @@ "l" :> "net_link_down" @@ "n" :> "net_ifaces")
------------------------------------------------------------------------------
RatesInit ==
  /\ \E up \in SUBSET Ifaces : nets = [n \in up |-> [bytes |-> 0, errs |-> OldCount]]
  /\ prev = Nothing /\ since = 1 /\ rates = Nothing
  /\ errors = [n \in Ifaces |-> 0] /\ restarted = {}
  /\ shown = [errors |-> errors, restarted |-> {}, names |-> {}] /\ ticks = 0

\* Something arrives, with an error.
Error(n) ==
  /\ n \in DOMAIN nets /\ errors[n] < MaxErrors
  /\ nets' = [nets EXCEPT ![n] = [bytes |-> @.bytes + 1, errs |-> @.errs + 1]]
  /\ errors' = [errors EXCEPT ![n] = @ + 1]
  /\ UNCHANGED <<prev, since, rates, restarted, shown, ticks>>

\* The driver is loaded again.
Restart(n) ==
  /\ n \in DOMAIN nets \ restarted
  /\ nets' = [nets EXCEPT ![n] = [bytes |-> 0, errs |-> 0]]
  /\ restarted' = restarted \union {n}
  /\ UNCHANGED <<prev, since, rates, errors, shown, ticks>>

\* An interface goes down, or one not seen by the last sample comes up.
GoDown(n) ==
  /\ n \in DOMAIN nets
  /\ nets' = [m \in DOMAIN nets \ {n} |-> nets[m]]
  /\ UNCHANGED <<prev, since, rates, errors, restarted, shown, ticks>>

ComeUp(n) ==
  /\ n \in Ifaces \ (DOMAIN nets \union DOMAIN prev)
  /\ nets' = [m \in DOMAIN nets \union {n} |->
                IF m = n THEN [bytes |-> 0, errs |-> OldCount] ELSE nets[m]]
  /\ UNCHANGED <<prev, since, rates, errors, restarted, shown, ticks>>

\* sample_all.  The first sample has nothing to compare with.
TakeRates(dt) ==
  /\ ticks < MaxTicks
  /\ rates' = NetFrame(prev, nets, dt)
  /\ prev' = nets /\ since' = dt /\ ticks' = ticks + 1
  /\ shown' = [errors |-> errors, restarted |-> restarted, names |-> Both(prev, nets)]
  /\ errors' = [n \in Ifaces |-> 0] /\ restarted' = {}
  /\ UNCHANGED nets

RatesNext ==
  \/ \E n \in Ifaces : Error(n) \/ Restart(n) \/ GoDown(n) \/ ComeUp(n)
  \/ \E dt \in Intervals : TakeRates(dt)

RatesSpec == RatesInit /\ [][RatesNext]_ratesVars
------------------------------------------------------------------------------
\* The errors shown have happened since the last sample: not those a counter
\* had from before the probe or the interface came up.  And all are shown of
\* interfaces that were there at both samples and did not start again.
RatesAreExact ==
  ticks > 0 =>
    LET happened(S) == MapThenSumSet(LAMBDA n : Per(shown.errors[n], since), S)
    IN /\ rates.net_errors <= happened(shown.names)
       /\ rates.net_errors >= happened(shown.names \ shown.restarted)
==============================================================================
