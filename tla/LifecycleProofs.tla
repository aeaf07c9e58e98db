-------------------------- MODULE LifecycleProofs ---------------------------
(***************************************************************************)
(* Who may say that an agent is dead: for any number of agents and of      *)
(* processes that signal them, whatever crashes, hangs or is interrupted.  *)
(***************************************************************************)
EXTENDS Lifecycle, TLAPS

\* An agent is a zombie in the control block when it said so and does nothing
\* but end, or when it is gone.
ZombiesLeave == \A a \in Agents : acb[a] = "ZOMBIE" => apc[a] \in {"report", "exit", "gone"}

\* What the orchestrator is about to publish as crashed is gone.
MarkedIsGone == kpc = "mark" => ~Alive(marking)

\* The agents left in the loop of _shutdown are none once they are awaited.
NoneLeft == kpc = "await" => todo = {}

Inv == TypeOK /\ NoneLeft /\ CrashedIsGone /\ ZombiesLeave /\ MarkedIsGone
------------------------------------------------------------------------------
(* Type correctness, by the variables a step writes.                        *)

LEMMA InitialTypes ==
  ASSUME Init
  PROVE  TypeOK
  BY LifecycleAssumption DEF Init, TypeOK, Steps, Bits, Senders, Writers

\* A step of state_set.
LEMMA SetTypes ==
  ASSUME TypeOK, NEW p \in Writers, NEW a \in Agents, NEW value \in {"alive", "dead", "crashed"},
         StateSet(p, a, value)
  PROVE  /\ status' \in [Agents -> {"none", "alive", "dead", "crashed"}]
         /\ lock' \in [Agents -> Writers \union {"free"}]
         /\ stage' \in [Writers -> {"lock", "clear", "fill"}]
         /\ \/ status' = status
            \/ status' = [status EXCEPT ![a] = "none"]
            \/ status' = [status EXCEPT ![a] = value]
BY DEF StateSet, TypeOK

\* A step of an agent.
LEMMA AgentTypes ==
  ASSUME TypeOK, NEW a \in Agents, Loop(a) \/ WorkDone(a) \/ Fail(a) \/ Exit(a) \/ Overdue(a)
  PROVE  TypeOK'
<1>1. /\ spc' = spc /\ target' = target /\ word' = word /\ kpc' = kpc
      /\ procs' = procs /\ todo' = todo /\ marking' = marking /\ terminated' = terminated
  BY DEF Loop, WorkDone, Fail, Exit, Overdue, Register, Announce, Heartbeat, SigRead, SigClear,
         Stop, Work, Wake, DieState, DieReport, signalVars, kernelVars
<1>2. apc' \in [Agents -> Steps]
  BY DEF Loop, WorkDone, Fail, Exit, Overdue, Register, Announce, Heartbeat, SigRead, SigClear,
         Stop, Work, Wake, DieState, DieReport, Goto, TypeOK, Steps
<1>3. seen' \in [Agents -> SUBSET Bits] /\ signals' \in [Agents -> SUBSET Bits]
  BY DEF Loop, WorkDone, Fail, Exit, Overdue, Register, Announce, Heartbeat, SigRead, SigClear,
         Stop, Work, Wake, DieState, DieReport, signalVars, TypeOK
<1>4. acb' \in [Agents -> {"FREE", "READY", "RUNNING", "BLOCKED", "ZOMBIE"}]
  BY DEF Loop, WorkDone, Fail, Exit, Overdue, Register, Announce, Heartbeat, SigRead, SigClear,
         Stop, Work, Wake, DieState, DieReport, SetState, TypeOK
<1>5. heartbeat' \in [Agents -> {"none", "fresh", "stale"}]
  BY DEF Loop, WorkDone, Fail, Exit, Overdue, Register, Announce, Heartbeat, SigRead, SigClear,
         Stop, Work, Wake, DieState, DieReport, TypeOK
<1>6. /\ status' \in [Agents -> {"none", "alive", "dead", "crashed"}]
      /\ lock' \in [Agents -> Writers \union {"free"}]
      /\ stage' \in [Writers -> {"lock", "clear", "fill"}]
  <2>1. CASE Announce(a) \/ DieReport(a)
    BY <2>1, SetTypes DEF Announce, DieReport, Writers
  <2>2. CASE Fail(a)
    BY <2>2 DEF Fail, TypeOK
  <2>3. CASE ~(Announce(a) \/ DieReport(a)) /\ ~Fail(a)
    BY <2>3 DEF Loop, WorkDone, Exit, Overdue, Register, Heartbeat, SigRead, SigClear,
                Stop, Work, Wake, DieState, tableVars, TypeOK
  <2>. QED
    BY <2>1, <2>2, <2>3
<1>. QED
  BY <1>1, <1>2, <1>3, <1>4, <1>5, <1>6 DEF TypeOK

\* A step of a signal being sent.
LEMMA SendTypes ==
  ASSUME TypeOK, NEW s \in Senders, SendRest(s) \/ \E a \in Agents, bit \in Bits : SendRead(s, a, bit)
  PROVE  /\ signals' \in [Agents -> SUBSET Bits]
         /\ spc' \in [Senders -> {"none", "zero", "store"}]
         /\ target' \in [Senders -> Agents] /\ word' \in [Senders -> SUBSET Bits]
         /\ \A r \in Senders \ {s} : spc'[r] = spc[r]
<1>1. CASE SendZero(s)
  BY <1>1 DEF SendZero, TypeOK
<1>2. CASE SendStore(s)
  BY <1>2 DEF SendStore, TypeOK
<1>3. CASE \E a \in Agents, bit \in Bits : SendRead(s, a, bit)
  <2>1. PICK a \in Agents, bit \in Bits : SendRead(s, a, bit)
    BY <1>3
  <2>2. signals[a] \union {bit} \in SUBSET Bits
    BY DEF TypeOK
  <2>. QED
    BY <2>1, <2>2 DEF SendRead, TypeOK
<1>. QED
  BY <1>1, <1>2, <1>3 DEF SendRest

LEMMA PeerTypes ==
  ASSUME TypeOK, NEW p \in Peers, Peer(p)
  PROVE  TypeOK'
<1>1. p \in Senders /\ p # Kernel /\ Kernel \in Senders /\ PeerBits \subseteq Bits
  BY LifecycleAssumption DEF Senders, Bits
<1>2. SendRest(p) \/ \E a \in Agents, bit \in Bits : SendRead(p, a, bit)
  BY <1>1 DEF Peer
<1>3. /\ signals' \in [Agents -> SUBSET Bits]
      /\ spc' \in [Senders -> {"none", "zero", "store"}]
      /\ target' \in [Senders -> Agents] /\ word' \in [Senders -> SUBSET Bits]
      /\ spc'[Kernel] = spc[Kernel]
  BY <1>1, <1>2, SendTypes
<1>4. /\ apc' = apc /\ seen' = seen /\ acb' = acb /\ heartbeat' = heartbeat
      /\ status' = status /\ lock' = lock /\ stage' = stage
      /\ kpc' = kpc /\ procs' = procs /\ todo' = todo /\ marking' = marking
      /\ terminated' = terminated
  BY DEF Peer, agentVars, tableVars, kernelVars
<1>. QED
  BY <1>3, <1>4 DEF TypeOK

\* The orchestrator stores a signal.
LEMMA KernelSendTypes ==
  ASSUME TypeOK, KernelSend
  PROVE  TypeOK'
<1>1. /\ signals' \in [Agents -> SUBSET Bits]
      /\ spc' \in [Senders -> {"none", "zero", "store"}]
      /\ target' \in [Senders -> Agents] /\ word' \in [Senders -> SUBSET Bits]
  BY SendTypes DEF KernelSend, Senders
<1>2. /\ apc' = apc /\ seen' = seen /\ acb' = acb /\ heartbeat' = heartbeat
      /\ status' = status /\ lock' = lock /\ stage' = stage
      /\ procs' = procs /\ todo' = todo /\ marking' = marking /\ terminated' = terminated
  BY DEF KernelSend, agentVars, tableVars
<1>3. kpc \in {"killing", "sendingKill"}
  BY DEF KernelSend, SendRest, SendZero, SendStore, TypeOK
<1>4. /\ kpc' \in {"killing", "sendingKill", "health", "shutdown"}
      /\ kpc' \in {"killing", "sendingKill"} <=> spc'[Kernel] # "none"
  <2>1. CASE SendZero(Kernel)
    BY <2>1, <1>3 DEF SendZero, KernelSend, TypeOK, Senders
  <2>2. CASE SendStore(Kernel)
    BY <2>2, <1>3 DEF SendStore, KernelSend, TypeOK, Senders
  <2>. QED
    BY <2>1, <2>2 DEF KernelSend, SendRest
<1>. QED
  BY <1>1, <1>2, <1>4 DEF TypeOK

\* The orchestrator begins to send SIG_KILL.
LEMMA KillTypes ==
  ASSUME TypeOK, NEW a \in Agents, KillStale(a) \/ SendKill(a)
  PROVE  TypeOK'
<1>1. /\ signals' \in [Agents -> SUBSET Bits]
      /\ spc' \in [Senders -> {"none", "zero", "store"}]
      /\ target' \in [Senders -> Agents] /\ word' \in [Senders -> SUBSET Bits]
  BY SendTypes DEF KillStale, SendKill, Senders, Bits
<1>2. /\ apc' = apc /\ seen' = seen /\ acb' = acb /\ heartbeat' = heartbeat
      /\ status' = status /\ lock' = lock /\ stage' = stage
      /\ procs' = procs /\ todo' = todo \ {a} /\ marking' = marking /\ terminated' = terminated
  BY DEF KillStale, SendKill, agentVars, tableVars
<1>3. kpc' \in {"killing", "sendingKill"} /\ spc'[Kernel] = "zero"
  BY DEF KillStale, SendKill, SendRead, TypeOK, Senders
<1>. QED
  BY <1>1, <1>2, <1>3 DEF TypeOK

\* Every other step of the orchestrator: what it writes is its own, the state
\* of an agent it marks, and the signals it stops sending.
LEMMA WatchTypes ==
  ASSUME TypeOK, NoneLeft,
         \/ Health \/ HealthDone \/ MarkCrashed \/ AllSignalled \/ AwaitDone \/ Offline \/ Interrupt
         \/ \E a \in Agents : ForgetDead(a) \/ MarkZombie(a) \/ SeenHealthy(a) \/ Reap(a) \/ Terminate(a)
  PROVE  TypeOK'
<1> USE DEF Quiet, agentVars, tableVars, signalVars, TypeOK
<1>1. CASE Health
  BY <1>1 DEF Health
<1>2. CASE HealthDone
  BY <1>2 DEF HealthDone
<1>3. CASE MarkCrashed
  <2>1. /\ status' \in [Agents -> {"none", "alive", "dead", "crashed"}]
        /\ lock' \in [Agents -> Writers \union {"free"}]
        /\ stage' \in [Writers -> {"lock", "clear", "fill"}]
    <3>. HIDE DEF TypeOK
    <3>1. marking \in Agents /\ Kernel \in Writers
      BY DEF TypeOK, Writers
    <3>. QED
      BY <1>3, <3>1, SetTypes DEF MarkCrashed
  <2>. QED
    BY <1>3, <2>1 DEF MarkCrashed
<1>4. CASE AllSignalled
  BY <1>4 DEF AllSignalled
<1>5. CASE AwaitDone
  BY <1>5 DEF AwaitDone
<1>6. CASE Offline
  BY <1>6 DEF Offline
<1>7. CASE Interrupt
  BY <1>7 DEF Interrupt, Senders, Writers
<1>8. ASSUME NEW a \in Agents, ForgetDead(a) \/ SeenHealthy(a)
      PROVE  TypeOK'
  BY <1>8 DEF ForgetDead, SeenHealthy
<1>11. ASSUME NEW a \in Agents, Reap(a)
       PROVE  TypeOK'
  BY <1>11 DEF Reap, NoneLeft
<1>9. ASSUME NEW a \in Agents, MarkZombie(a)
      PROVE  TypeOK'
  BY <1>9 DEF MarkZombie, SetState
<1>10. ASSUME NEW a \in Agents, Terminate(a)
       PROVE  TypeOK'
  BY <1>10 DEF Terminate
<1>. QED
  BY <1>1, <1>2, <1>3, <1>4, <1>5, <1>6, <1>7, <1>8, <1>9, <1>10, <1>11

LEMMA NextTypes ==
  ASSUME TypeOK, NoneLeft, [Next]_vars
  PROVE  TypeOK'
<1>1. CASE UNCHANGED vars
  BY <1>1 DEF TypeOK, vars
<1>2. CASE Next
  BY <1>2, AgentTypes, PeerTypes, KernelSendTypes, KillTypes, WatchTypes
     DEF Next, Orchestrate, Watch, Shutdown
<1>. QED
  BY <1>1, <1>2
------------------------------------------------------------------------------
(* What a step does to the agents it is not about to end.                   *)

\* No agent comes back: one that is gone, or that ends, has no step that takes
\* it back into its loop.
LEMMA NoReturn ==
  ASSUME TypeOK, [Next]_vars, NEW a \in Agents
  PROVE  /\ ~Alive(a) => ~Alive(a)'
         /\ apc[a] \in {"report", "exit", "gone"} => apc'[a] \in {"report", "exit", "gone"}
<1>1. CASE apc' = apc
  BY <1>1 DEF Alive
<1>2. ASSUME NEW b \in Agents, Loop(b) \/ WorkDone(b) \/ Fail(b) \/ Exit(b) \/ Overdue(b)
      PROVE  \/ apc' = apc
             \/ apc[b] \notin {"report", "exit", "gone"} /\ \E v : apc' = [apc EXCEPT ![b] = v]
             \/ apc[b] # "gone" /\ \E v \in {"exit", "gone"} : apc' = [apc EXCEPT ![b] = v]
  BY <1>2 DEF Loop, WorkDone, Fail, Exit, Overdue, Register, Announce, Heartbeat, SigRead, SigClear,
              Stop, Work, Wake, DieState, DieReport, Goto, Alive
<1>3. ASSUME NEW b \in Agents, Loop(b) \/ WorkDone(b) \/ Fail(b) \/ Exit(b) \/ Overdue(b)
      PROVE  /\ ~Alive(a) => ~Alive(a)'
             /\ apc[a] \in {"report", "exit", "gone"} => apc'[a] \in {"report", "exit", "gone"}
  <2>1. CASE a = b
    BY <2>1, <1>2, <1>3 DEF Alive, TypeOK
  <2>2. CASE a # b
    BY <2>2, <1>2, <1>3 DEF Alive, TypeOK
  <2>. QED
    BY <2>1, <2>2
<1>4. \/ apc' = apc
      \/ \E b \in Agents : Loop(b) \/ WorkDone(b) \/ Fail(b) \/ Exit(b) \/ Overdue(b)
  BY DEF Next, Peer, Orchestrate, Watch, Shutdown, KernelSend, Interrupt, Health, HealthDone,
         MarkCrashed, AllSignalled, AwaitDone, Offline, ForgetDead, MarkZombie, SeenHealthy,
         KillStale, SendKill, Reap, Terminate, Quiet, agentVars, vars
<1>. QED
  BY <1>1, <1>3, <1>4

\* The control block and the state table are written by the agent itself while
\* it is in its loop, and by the orchestrator when the agent is gone.
LEMMA WhoWrites ==
  ASSUME TypeOK, [Next]_vars, NEW a \in Agents
  PROVE  /\ \/ acb'[a] = acb[a]
            \/ apc[a] \notin {"report", "exit", "gone"} /\ acb'[a] # "ZOMBIE"
            \/ acb'[a] = "ZOMBIE" /\ (~Alive(a) \/ apc'[a] = "report")
         /\ \/ status'[a] = status[a]
            \/ status'[a] # "crashed"
            \/ kpc = "mark" /\ marking = a
<1>1. ASSUME NEW b \in Agents, Loop(b) \/ WorkDone(b) \/ Fail(b) \/ Exit(b) \/ Overdue(b)
      PROVE  /\ \/ acb' = acb
                \/ /\ apc[b] \notin {"report", "exit", "gone"}
                   /\ \E v \in {"READY", "RUNNING", "BLOCKED"} : acb' = [acb EXCEPT ![b] = v]
                \/ acb' = [acb EXCEPT ![b] = "ZOMBIE"] /\ apc' = [apc EXCEPT ![b] = "report"]
             /\ \/ status' = status
                \/ \E v \in {"none", "alive", "dead"} : status' = [status EXCEPT ![b] = v]
  <2>1. CASE Announce(b) \/ DieReport(b)
    <3>1. acb' = acb
      BY <2>1 DEF Announce, DieReport
    <3>2. \/ status' = status
          \/ \E v \in {"none", "alive", "dead"} : status' = [status EXCEPT ![b] = v]
      BY <2>1, SetTypes DEF Announce, DieReport, Writers
    <3>. QED
      BY <3>1, <3>2
  <2>2. CASE ~(Announce(b) \/ DieReport(b))
    BY <1>1, <2>2 DEF Loop, WorkDone, Fail, Exit, Overdue, Register, Heartbeat, SigRead, SigClear,
                      Stop, Work, Wake, DieState, Goto, SetState, tableVars
  <2>. QED
    BY <2>1, <2>2
<1>2. ASSUME NEW b \in Agents, Loop(b) \/ WorkDone(b) \/ Fail(b) \/ Exit(b) \/ Overdue(b)
      PROVE  /\ \/ acb'[a] = acb[a]
                \/ apc[a] \notin {"report", "exit", "gone"} /\ acb'[a] # "ZOMBIE"
                \/ acb'[a] = "ZOMBIE" /\ apc'[a] = "report"
             /\ status'[a] = status[a] \/ status'[a] # "crashed"
  <2>1. CASE a = b
    BY <2>1, <1>1, <1>2 DEF TypeOK
  <2>2. CASE a # b
    BY <2>2, <1>1, <1>2 DEF TypeOK
  <2>. QED
    BY <2>1, <2>2
<1>3. CASE MarkCrashed
  <2>1. kpc = "mark" /\ acb' = acb /\ marking \in Agents /\ Kernel \in Writers
    BY <1>3 DEF MarkCrashed, TypeOK, Writers
  <2>2. \/ status' = status
        \/ \E v \in {"none", "crashed"} : status' = [status EXCEPT ![marking] = v]
    BY <1>3, <2>1, SetTypes DEF MarkCrashed
  <2>3. status'[a] = status[a] \/ status'[a] # "crashed" \/ marking = a
    BY <2>2 DEF TypeOK
  <2>. QED
    BY <2>1, <2>3
<1>4. CASE \E b \in Agents : MarkZombie(b)
  BY <1>4 DEF MarkZombie, SetState, IsDead, TypeOK, tableVars
<1>5. \/ acb' = acb /\ status' = status
      \/ MarkCrashed \/ \E b \in Agents : MarkZombie(b)
      \/ \E b \in Agents : Loop(b) \/ WorkDone(b) \/ Fail(b) \/ Exit(b) \/ Overdue(b)
  BY DEF Next, Peer, Orchestrate, Watch, Shutdown, KernelSend, Interrupt, Health, HealthDone,
         AllSignalled, AwaitDone, Offline, ForgetDead, SeenHealthy,
         KillStale, SendKill, Reap, Terminate, Quiet, tableVars, vars
<1>. QED
  BY <1>2, <1>3, <1>4, <1>5

\* What the agents and their peers do leaves the orchestrator where it is.
LEMMA KernelSteps ==
  ASSUME [Next]_vars
  PROVE  \/ kpc' = kpc /\ marking' = marking /\ todo' = todo
         \/ Orchestrate \/ Interrupt
  BY DEF Next, Peer, vars, signalVars, kernelVars, Loop, WorkDone, Fail, Exit, Overdue, Register,
         Announce, Heartbeat, SigRead, SigClear, Stop, Work, Wake, DieState, DieReport

\* Signals are sent from the loops, not from the steps between.
LEMMA Sending ==
  ASSUME TypeOK, KernelSend
  PROVE  kpc' \notin {"mark", "await"}
<1>1. kpc \in {"killing", "sendingKill"}
  BY DEF KernelSend, SendRest, SendZero, SendStore, TypeOK
<1>. QED
  BY <1>1 DEF KernelSend, SendRest, SendZero, SendStore

\* Every agent has been signalled when the orchestrator awaits them.
LEMMA NextNoneLeft ==
  ASSUME TypeOK, NoneLeft, [Next]_vars
  PROVE  NoneLeft'
<1>1. CASE KernelSend
  BY <1>1, Sending DEF NoneLeft
<1>2. CASE kpc' = kpc /\ todo' = todo
  BY <1>2 DEF NoneLeft
<1>3. CASE Watch
  BY <1>3 DEF NoneLeft, Watch, Health, HealthDone, MarkCrashed, ForgetDead, MarkZombie, SeenHealthy,
              KillStale
<1>4. CASE Shutdown
  BY <1>4 DEF NoneLeft, Shutdown, AllSignalled, AwaitDone, Offline, SendKill, Reap, Terminate
<1>5. CASE Interrupt
  BY <1>5 DEF NoneLeft, Interrupt
<1>. QED
  BY <1>1, <1>2, <1>3, <1>4, <1>5, KernelSteps DEF Orchestrate

\* The orchestrator takes an agent to be marked when it finds it gone.
LEMMA Marks ==
  ASSUME TypeOK, [Next]_vars, kpc' = "mark"
  PROVE  \/ kpc = "mark" /\ marking' = marking
         \/ marking' \in Agents /\ ~Alive(marking')
<1>1. CASE \E b \in Agents : MarkZombie(b)
  BY <1>1 DEF MarkZombie, IsDead
<1>2. CASE KernelSend
  BY <1>2, Sending
<1>3. CASE Watch /\ ~\E b \in Agents : MarkZombie(b)
  BY <1>3 DEF Watch, Health, HealthDone, MarkCrashed, ForgetDead, SeenHealthy, KillStale, Quiet
<1>4. CASE Shutdown
  BY <1>4 DEF Shutdown, AllSignalled, AwaitDone, Offline, SendKill, Reap, Terminate, Quiet
<1>5. CASE Interrupt
  BY <1>5 DEF Interrupt
<1>6. CASE kpc' = kpc /\ marking' = marking
  BY <1>6
<1>7. \/ kpc' = kpc /\ marking' = marking
      \/ KernelSend \/ Watch \/ Shutdown \/ Interrupt
  BY KernelSteps DEF Orchestrate
<1>. QED
  BY <1>1, <1>2, <1>3, <1>4, <1>5, <1>6, <1>7
------------------------------------------------------------------------------
(* The invariant and the theorems.                                          *)

LEMMA InitialInv ==
  ASSUME Init
  PROVE  Inv
  BY InitialTypes DEF Init, Inv, CrashedIsGone, ZombiesLeave, MarkedIsGone, NoneLeft

LEMMA NextInv ==
  ASSUME Inv, [Next]_vars
  PROVE  Inv'
<1>1. TypeOK /\ TypeOK' /\ NoneLeft'
  BY NextTypes, NextNoneLeft DEF Inv
<1>2. CrashedIsGone'
  BY <1>1, WhoWrites, NoReturn DEF Inv, CrashedIsGone, MarkedIsGone
<1>3. ZombiesLeave'
  BY <1>1, WhoWrites, NoReturn DEF Inv, ZombiesLeave, Alive
<1>4. MarkedIsGone'
  BY <1>1, Marks, NoReturn DEF Inv, MarkedIsGone, TypeOK, Alive
<1>. QED
  BY <1>1, <1>2, <1>3, <1>4 DEF Inv

\* Type correctness of the agents' processes and of the orchestrator: no step
\* or interruption leaves a send half done that nothing goes on with.
THEOREM Typing == Spec => []TypeOK
<1>1. Inv => TypeOK
  BY DEF Inv
<1>. QED
  BY <1>1, InitialInv, NextInv, PTL DEF Spec

\* kernel.py, _health: only an agent whose process is gone is published as
\* crashed.
THEOREM CrashedAreGone == Spec => []CrashedIsGone
<1>1. Inv => CrashedIsGone
  BY DEF Inv
<1>. QED
  BY <1>1, InitialInv, NextInv, PTL DEF Spec

\* dna.py, _die, and kernel.py, _health: nothing takes ZOMBIE back.
THEOREM ZombiesStay == Spec => ZombieStays
<1>1. ASSUME Inv, [Next]_vars
      PROVE  [\A a \in Agents : acb[a] = "ZOMBIE" => acb'[a] = "ZOMBIE"]_vars
  <2>1. ASSUME NEW a \in Agents, acb[a] = "ZOMBIE"
        PROVE  acb'[a] = "ZOMBIE"
    <3>1. TypeOK /\ apc[a] \in {"report", "exit", "gone"}
      BY <1>1, <2>1 DEF Inv, ZombiesLeave
    <3>. QED
      BY <1>1, <2>1, <3>1, WhoWrites
  <2>. QED
    BY <2>1
<1>. QED
  BY <1>1, InitialInv, NextInv, PTL DEF Spec, ZombieStays
=============================================================================
