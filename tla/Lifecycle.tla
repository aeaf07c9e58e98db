------------------------------ MODULE Lifecycle ------------------------------
(***************************************************************************)
(* The processes of one swarm: the agents' main loop (src/swarm/dna.py)    *)
(* and the orchestrator that watches over them and stops them              *)
(* (src/swarm/kernel.py), with the signal word, the control block and the  *)
(* state-table entry they share through the fabric.                        *)
(*                                                                         *)
(* A signal is a load, then a store that passes through zero (module       *)
(* Inbox); receiving is a load and a store of zero.  Nothing is locked, so *)
(* signals can be lost, SIG_KILL included.  The entry of the state table   *)
(* has a lock, which outlives a process that dies holding it.              *)
(***************************************************************************)
EXTENDS Naturals, FiniteSets

CONSTANTS
  Agents,     \* agents the orchestrator spawned
  Peers,      \* other processes that signal them: inbox_send, emit_signal
  PeerBits,   \* the signals peers send
  Kernel      \* the orchestrator's process

ASSUME LifecycleAssumption ==
  /\ Kernel \notin Peers \union Agents
  /\ PeerBits \subseteq {"MSG", "STOP"}

Senders == Peers \union {Kernel}
Writers == Agents \union {Kernel}

VARIABLES
  apc,         \* each agent: step of its process; "gone" once it has exited
  seen,        \* each agent: the signals sig_recv returned
  acb,         \* control block: ACB_STATE
  heartbeat,   \* control block: ACB_HEARTBEAT, by age
  signals,     \* control block: ACB_SIGNALS, a set of bits
  status,      \* state table: a.<id>.state
  lock,        \* state table: the lock word of that entry, "free" or who set it
  stage,       \* each writer: step of state_set
  spc, target, word,    \* each sender: sig_send in progress
  kpc, procs, todo,     \* orchestrator: step, _procs, agents left in a loop
  marking,              \* orchestrator: the agent being marked crashed
  terminated            \* agents with a SIGTERM pending

agentVars == <<apc, seen, heartbeat>>
tableVars == <<status, lock, stage>>
signalVars == <<signals, spc, target, word>>
kernelVars == <<kpc, procs, todo, marking, terminated>>
vars == <<apc, seen, acb, heartbeat, signals, status, lock, stage, spc, target, word,
          kpc, procs, todo, marking, terminated>>

Init ==
  /\ apc = [a \in Agents |-> "start"]
  /\ seen = [a \in Agents |-> {}]
  /\ acb = [a \in Agents |-> "FREE"]
  /\ heartbeat = [a \in Agents |-> "none"]
  /\ signals = [a \in Agents |-> {}]
  /\ status = [a \in Agents |-> "none"] /\ lock = [a \in Agents |-> "free"]
  /\ stage = [p \in Writers |-> "lock"]
  /\ spc = [s \in Senders |-> "none"]
  /\ target \in [Senders -> Agents] /\ word = [s \in Senders |-> {}]
  /\ kpc = "run" /\ procs = Agents /\ todo = {}
  /\ marking \in Agents /\ terminated = {}

Alive(a) == apc[a] # "gone"
Goto(a, label) == apc' = [apc EXCEPT ![a] = label]
SetState(a, st) == acb' = [acb EXCEPT ![a] = st]
------------------------------------------------------------------------------
(* state_set of agent a's entry by p: lock, which spins for a while and gives *)
(* up if the word stays set; then the pack, which clears the entry and its    *)
(* lock and stores the value.  The entry is its own (Registers), and no two   *)
(* processes that are alive write it at a time: the orchestrator does when    *)
(* the agent is gone.                                                         *)

\* The step is the last: the value is stored, or -1 returned, which nobody looks at.
Returns(p, a) == stage[p] = "fill" \/ (stage[p] = "lock" /\ lock[a] # "free")

StateSet(p, a, value) ==
  /\ \/ /\ stage[p] = "lock" /\ lock[a] = "free"
        /\ lock' = [lock EXCEPT ![a] = p] /\ UNCHANGED status
     \/ /\ stage[p] = "lock" /\ lock[a] # "free"
        /\ UNCHANGED <<lock, status>>
     \/ /\ stage[p] = "clear"
        /\ lock' = [lock EXCEPT ![a] = "free"]
        /\ status' = [status EXCEPT ![a] = "none"]
     \/ /\ stage[p] = "fill"
        /\ status' = [status EXCEPT ![a] = value] /\ UNCHANGED lock
  /\ stage' = [stage EXCEPT ![p] = IF Returns(p, a) THEN "lock"
                                   ELSE IF @ = "lock" THEN "clear" ELSE "fill"]
------------------------------------------------------------------------------
(* sig_send(a, bit) by process s: three steps.                             *)

SendRead(s, a, bit) ==
  /\ spc[s] = "none"
  /\ word' = [word EXCEPT ![s] = signals[a] \union {bit}]
  /\ target' = [target EXCEPT ![s] = a]
  /\ spc' = [spc EXCEPT ![s] = "zero"]
  /\ UNCHANGED signals

SendZero(s) ==
  /\ spc[s] = "zero"
  /\ signals' = [signals EXCEPT ![target[s]] = {}]
  /\ spc' = [spc EXCEPT ![s] = "store"]
  /\ UNCHANGED <<target, word>>

SendStore(s) ==
  /\ spc[s] = "store"
  /\ signals' = [signals EXCEPT ![target[s]] = word[s]]
  /\ spc' = [spc EXCEPT ![s] = "none"]
  /\ UNCHANGED <<target, word>>

SendRest(s) == SendZero(s) \/ SendStore(s)

Peer(p) ==
  /\ \/ \E a \in Agents, bit \in PeerBits : SendRead(p, a, bit)
     \/ SendRest(p)
  /\ UNCHANGED <<agentVars, acb, tableVars, kernelVars>>
------------------------------------------------------------------------------
(* An agent's process: agent_entry, Agent.attach, Agent.run, Agent._die.   *)

\* _register: the control block, then the state table.
Register(a) ==
  /\ apc[a] = "start"
  /\ SetState(a, "READY")
  /\ heartbeat' = [heartbeat EXCEPT ![a] = "fresh"]
  /\ Goto(a, "announce")
  /\ UNCHANGED <<seen, tableVars, signalVars, kernelVars>>

Announce(a) ==
  /\ apc[a] = "announce"
  /\ StateSet(a, a, "alive")
  /\ IF Returns(a, a) THEN Goto(a, "top") ELSE UNCHANGED apc
  /\ UNCHANGED <<seen, acb, heartbeat, signalVars, kernelVars>>

Heartbeat(a) ==
  /\ apc[a] = "top"
  /\ heartbeat' = [heartbeat EXCEPT ![a] = "fresh"]
  /\ Goto(a, "receive")
  /\ UNCHANGED <<seen, acb, tableVars, signalVars, kernelVars>>

\* sig_recv: the load.
SigRead(a) ==
  /\ apc[a] = "receive"
  /\ seen' = [seen EXCEPT ![a] = signals[a]]
  /\ Goto(a, IF signals[a] = {} THEN "work" ELSE "clear")
  /\ UNCHANGED <<acb, heartbeat, tableVars, signalVars, kernelVars>>

\* sig_recv: the store of zero; what arrived since the load is lost.
SigClear(a) ==
  /\ apc[a] = "clear"
  /\ signals' = [signals EXCEPT ![a] = {}]
  /\ Goto(a, CASE "KILL" \in seen[a] -> "zombie"
               [] "KILL" \notin seen[a] /\ "STOP" \in seen[a] -> "stop"
               [] OTHER -> "work")
  /\ UNCHANGED <<seen, acb, heartbeat, tableVars, spc, target, word, kernelVars>>

\* SIG_STOP: blocked for five seconds, then back to the top of the loop.
Stop(a) ==
  /\ apc[a] = "stop"
  /\ SetState(a, "BLOCKED") /\ Goto(a, "wait")
  /\ UNCHANGED <<seen, heartbeat, tableVars, signalVars, kernelVars>>

\* The inbox is drained and on_tick runs.
Work(a) ==
  /\ apc[a] = "work"
  /\ SetState(a, "RUNNING") /\ Goto(a, "working")
  /\ UNCHANGED <<seen, heartbeat, tableVars, signalVars, kernelVars>>

\* on_tick returned: more work pending, or not.
WorkDone(a) ==
  /\ apc[a] = "working"
  /\ \/ SetState(a, "READY") /\ Goto(a, "top")
     \/ SetState(a, "BLOCKED") /\ Goto(a, "wait")
  /\ UNCHANGED <<seen, heartbeat, tableVars, signalVars, kernelVars>>

\* evt_wait timed out.
Wake(a) ==
  /\ apc[a] = "wait"
  /\ SetState(a, "READY") /\ Goto(a, "top")
  /\ UNCHANGED <<seen, heartbeat, tableVars, signalVars, kernelVars>>

\* An exception nothing inside run catches: Ctrl-C, or a failing on_signal.  If it
\* hits _die while the entry is locked, agent_entry's _die finds its own lock.
Fail(a) ==
  /\ \/ /\ apc[a] \in {"top", "receive", "clear", "stop", "work", "working", "wait"}
        /\ Goto(a, "zombie") /\ UNCHANGED stage
     \/ /\ apc[a] = "report" /\ stage[a] = "clear"
        /\ stage' = [stage EXCEPT ![a] = "lock"] /\ UNCHANGED apc
  /\ UNCHANGED <<seen, acb, heartbeat, status, lock, signalVars, kernelVars>>

\* _die, on a signal or on an exception.
DieState(a) ==
  /\ apc[a] = "zombie"
  /\ SetState(a, "ZOMBIE") /\ Goto(a, "report")
  /\ UNCHANGED <<seen, heartbeat, tableVars, signalVars, kernelVars>>

DieReport(a) ==
  /\ apc[a] = "report"
  /\ StateSet(a, a, "dead")
  /\ IF Returns(a, a) THEN Goto(a, "exit") ELSE UNCHANGED apc
  /\ UNCHANGED <<seen, acb, heartbeat, signalVars, kernelVars>>

\* The process ends: after _die, or at any step by SIGKILL, or by an exception
\* in agent_entry before its try block.
Exit(a) ==
  /\ Alive(a)
  /\ Goto(a, "gone")
  /\ UNCHANGED <<seen, acb, heartbeat, tableVars, signalVars, kernelVars>>

\* on_tick or on_message takes longer than ACB_WATCHDOG seconds.
Overdue(a) ==
  /\ apc[a] = "working"
  /\ heartbeat' = [heartbeat EXCEPT ![a] = "stale"]
  /\ UNCHANGED <<apc, seen, acb, tableVars, signalVars, kernelVars>>

Loop(a) ==
  \/ Register(a) \/ Announce(a) \/ Heartbeat(a) \/ SigRead(a) \/ SigClear(a)
  \/ Stop(a) \/ Work(a) \/ Wake(a) \/ DieState(a) \/ DieReport(a)
------------------------------------------------------------------------------
(* Orchestrator._health, every 50 ticks of run.                            *)

\* What a step of the orchestrator alone leaves unchanged.
Quiet == UNCHANGED <<agentVars, acb, tableVars, signalVars, marking, terminated>>

\* Mutant: goes through the agents configured, not the processes left.
HealthAll ==
  /\ kpc = "run"
  /\ todo' = Agents /\ kpc' = "health"
  /\ UNCHANGED procs /\ Quiet

Health ==
  /\ kpc = "run"
  /\ todo' = procs /\ kpc' = "health"
  /\ UNCHANGED procs /\ Quiet

\* Mutant: a late heartbeat is taken for a dead process.
SilentIsDead(a) == heartbeat[a] = "stale" \/ ~Alive(a)

IsDead(a) == ~Alive(a)

\* The process is gone and said so itself, or never registered.
ForgetDead(a) ==
  /\ kpc = "health" /\ a \in todo
  /\ IsDead(a) /\ acb[a] \in {"ZOMBIE", "FREE"}
  /\ todo' = todo \ {a} /\ procs' = procs \ {a}
  /\ UNCHANGED kpc /\ Quiet

\* The process is gone without a word: it crashed.
MarkZombie(a) ==
  /\ kpc = "health" /\ a \in todo
  /\ IsDead(a) /\ acb[a] \notin {"ZOMBIE", "FREE"}
  /\ SetState(a, "ZOMBIE")
  /\ marking' = a /\ kpc' = "mark"
  /\ UNCHANGED <<agentVars, tableVars, signalVars, procs, todo, terminated>>

\* Mutant: the crash is forgotten, not reported.
MarkNothing ==
  /\ kpc = "mark"
  /\ todo' = todo \ {marking} /\ procs' = procs \ {marking}
  /\ kpc' = "health"
  /\ Quiet

\* state_set may find the lock that the agent died with; the process is forgotten
\* all the same.
MarkCrashed ==
  /\ kpc = "mark"
  /\ StateSet(Kernel, marking, "crashed")
  /\ IF Returns(Kernel, marking)
     THEN todo' = todo \ {marking} /\ procs' = procs \ {marking} /\ kpc' = "health"
     ELSE UNCHANGED <<todo, procs, kpc>>
  /\ UNCHANGED <<agentVars, acb, signalVars, marking, terminated>>

SeenHealthy(a) ==
  /\ kpc = "health" /\ a \in todo
  /\ ~IsDead(a) /\ heartbeat[a] # "stale"
  /\ todo' = todo \ {a}
  /\ UNCHANGED <<kpc, procs>> /\ Quiet

\* kill: the watchdog can only set SIG_KILL in the agent's signal word.
KillStale(a) ==
  /\ kpc = "health" /\ a \in todo
  /\ ~IsDead(a) /\ heartbeat[a] = "stale"
  /\ SendRead(Kernel, a, "KILL")
  /\ todo' = todo \ {a} /\ kpc' = "killing"
  /\ UNCHANGED <<agentVars, acb, tableVars, procs, marking, terminated>>

HealthDone ==
  /\ kpc = "health" /\ todo = {}
  /\ kpc' = "run"
  /\ UNCHANGED <<procs, todo>> /\ Quiet

\* KeyboardInterrupt, anywhere in run: finally, _shutdown.  It cannot fall
\* between the two halves of a store or of a pack.
Interrupt ==
  /\ kpc \in {"run", "health", "mark", "killing"}
  /\ spc[Kernel] # "store" /\ stage[Kernel] # "fill"
  /\ spc' = [spc EXCEPT ![Kernel] = "none"] /\ stage' = [stage EXCEPT ![Kernel] = "lock"]
  /\ todo' = procs /\ kpc' = "shutdown"
  /\ UNCHANGED <<agentVars, acb, status, lock, signals, target, word, procs, marking,
                 terminated>>

(* Orchestrator._shutdown.                                                 *)

SendKill(a) ==
  /\ kpc = "shutdown" /\ a \in todo
  /\ SendRead(Kernel, a, "KILL")
  /\ todo' = todo \ {a} /\ kpc' = "sendingKill"
  /\ UNCHANGED <<agentVars, acb, tableVars, procs, marking, terminated>>

\* sig_send goes on, in kill or in _shutdown.
KernelSend ==
  /\ SendRest(Kernel)
  /\ kpc' = CASE spc[Kernel] = "zero" -> kpc
              [] spc[Kernel] = "store" /\ kpc = "killing" -> "health"
              [] spc[Kernel] = "store" /\ kpc = "sendingKill" -> "shutdown"
  /\ UNCHANGED <<agentVars, acb, tableVars, procs, todo, marking, terminated>>

AllSignalled ==
  /\ kpc = "shutdown" /\ todo = {}
  /\ kpc' = "await"
  /\ UNCHANGED <<procs, todo>> /\ Quiet

Reap(a) ==
  /\ kpc = "await" /\ a \in procs /\ ~Alive(a)
  /\ procs' = procs \ {a}
  /\ UNCHANGED <<kpc, todo>> /\ Quiet

\* Every process ended, or five seconds went by.
AwaitDone ==
  /\ kpc = "await"
  /\ todo' = procs /\ kpc' = "terminate"
  /\ UNCHANGED procs /\ Quiet

\* Mutant: no Process.terminate for what is left.
TerminateNone(a) ==
  /\ kpc = "terminate" /\ a \in todo
  /\ todo' = todo \ {a}
  /\ UNCHANGED <<kpc, procs>> /\ Quiet

Terminate(a) ==
  /\ kpc = "terminate" /\ a \in todo
  /\ terminated' = IF Alive(a) THEN terminated \union {a} ELSE terminated
  /\ todo' = todo \ {a}
  /\ UNCHANGED <<agentVars, acb, tableVars, signalVars, kpc, procs, marking>>

Offline ==
  /\ kpc = "terminate" /\ todo = {}
  /\ kpc' = "offline"
  /\ UNCHANGED <<procs, todo>> /\ Quiet

\* SIGTERM ends an agent wherever it is: no handler is installed.
TermExit(a) == a \in terminated /\ Exit(a)

Watch ==
  \/ Health \/ HealthDone \/ MarkCrashed
  \/ \E a \in Agents :
       ForgetDead(a) \/ MarkZombie(a) \/ SeenHealthy(a) \/ KillStale(a)

Shutdown ==
  \/ AllSignalled \/ AwaitDone \/ Offline
  \/ \E a \in Agents : SendKill(a) \/ Reap(a) \/ Terminate(a)

Orchestrate == Watch \/ KernelSend \/ Shutdown

Next ==
  \/ \E p \in Peers : Peer(p)
  \/ \E a \in Agents : Loop(a) \/ WorkDone(a) \/ Fail(a) \/ Exit(a) \/ Overdue(a)
  \/ Orchestrate \/ Interrupt

(* The orchestrator and the agents' loops keep running and SIGTERM is      *)
(* delivered.  Nothing makes an agent's on_tick return, an operator press  *)
(* Ctrl-C, a peer send or a process crash.                                 *)
Spec ==
  /\ Init /\ [][Next]_vars
  /\ WF_vars(Orchestrate)
  /\ \A a \in Agents : WF_vars(Loop(a)) /\ WF_vars(TermExit(a))
------------------------------------------------------------------------------
Steps == {"start", "announce", "top", "receive", "clear", "stop", "work",
          "working", "wait", "zombie", "report", "exit", "gone"}
Bits == {"KILL", "MSG", "STOP"}

TypeOK ==
  /\ apc \in [Agents -> Steps]
  /\ seen \in [Agents -> SUBSET Bits]
  /\ acb \in [Agents -> {"FREE", "READY", "RUNNING", "BLOCKED", "ZOMBIE"}]
  /\ heartbeat \in [Agents -> {"none", "fresh", "stale"}]
  /\ signals \in [Agents -> SUBSET Bits]
  /\ status \in [Agents -> {"none", "alive", "dead", "crashed"}]
  /\ lock \in [Agents -> Writers \union {"free"}]
  /\ stage \in [Writers -> {"lock", "clear", "fill"}]
  /\ spc \in [Senders -> {"none", "zero", "store"}]
  /\ target \in [Senders -> Agents] /\ word \in [Senders -> SUBSET Bits]
  /\ kpc \in {"run", "health", "mark", "killing", "shutdown", "sendingKill",
              "await", "terminate", "offline"}
  /\ kpc \in {"killing", "sendingKill"} <=> spc[Kernel] # "none"
  /\ procs \subseteq Agents /\ todo \subseteq procs
  /\ marking \in Agents /\ terminated \subseteq Agents

Stopping == kpc \in {"shutdown", "sendingKill", "await", "terminate", "offline"}

\* Only an agent whose process is gone is ever published as crashed.
CrashedIsGone == \A a \in Agents : status[a] = "crashed" => ~Alive(a)

\* A zombie stays one: no process and no late store of the orchestrator ever
\* brings an agent back in the control block, which watchers count as alive.
ZombieStays ==
  [][\A a \in Agents : acb[a] = "ZOMBIE" => acb'[a] = "ZOMBIE"]_vars

\* An agent that registered and whose process ended without _die is published
\* as crashed, as long as the orchestrator is not being stopped: in the control block
\* always, and in the state table unless it died holding the lock of its entry.
CrashIsReported ==
  \A a \in Agents :
    ~Alive(a) /\ acb[a] \notin {"FREE", "ZOMBIE"} ~>
      \/ acb[a] = "ZOMBIE" /\ (status[a] = "crashed" \/ lock[a] = a)
      \/ Stopping

\* Stopping the orchestrator stops the swarm, though SIG_KILL may be lost to a
\* peer's signal and an agent may hang: in the end no process is left.
ShutdownEndsAll ==
  kpc = "shutdown" ~> kpc = "offline" /\ \A a \in Agents : ~Alive(a)

\* kernel.py:67: "heartbeat timeout", after which kill is called.  An agent
\* whose heartbeat is overdue dies or beats again.
OverdueIsKilled ==
  \A a \in Agents :
    Alive(a) /\ heartbeat[a] = "stale" ~> ~Alive(a) \/ heartbeat[a] = "fresh"

\* probes/fabric_peer.py:18: "a.{aid}.state -> 'alive' / 'dead' / 'crashed'".  What an
\* agent that crashed leaves in its entry is always "crashed" in the end.
CrashIsSeen ==
  \A a \in Agents :
    ~Alive(a) /\ acb[a] \notin {"FREE", "ZOMBIE"} ~> status[a] = "crashed" \/ Stopping

\* probes/fabric_peer.py:153: "the goal is 'is there life on the peer'".  Its
\* count of live agents is zero for a swarm that is down.
NoGhosts ==
  kpc = "offline" /\ (\A a \in Agents : ~Alive(a)) =>
    \A a \in Agents : acb[a] \notin {"READY", "RUNNING", "BLOCKED"}
==============================================================================
