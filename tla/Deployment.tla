----------------------------- MODULE Deployment ------------------------------
(***************************************************************************)
(* Starting and stopping configurations from the dashboard (src/viz.py).   *)
(* A start runs boot (src/boot.py) in a session of its own; boot launches  *)
(* an orchestrator per sub-swarm, and each of them its agents              *)
(* (src/swarm/kernel.py), so all of them are in one process group.  What   *)
(* orchestrator and agents do with each other is in Lifecycle.             *)
(***************************************************************************)
EXTENDS Integers, FiniteSets

CONSTANTS
  Configs,       \* the configurations
  Handlers,      \* the threads that serve requests
  Main,          \* the dashboard's main thread
  Subs,          \* the sub-swarms of a configuration
  AgentsPerSub,  \* the agents of a sub-swarm
  MaxStarts      \* bound: the instances started

ASSUME DeploymentAssumption ==
  /\ Main \notin Handlers /\ 0 \notin Handlers \union {Main}
  /\ AgentsPerSub \in Nat /\ MaxStarts \in Nat

Threads == Handlers \union {Main}
Instances == 1..MaxStarts
None == 0

\* Processes: the boot of an instance, its orchestrators, their agents.
Boot(i) == <<i>>
Orch(i, s) == <<i, s>>
Agent(i, s, a) == <<i, s, a>>
OrchsOf(i) == {Orch(i, s) : s \in Subs}
AgentsOf(i, s) == {Agent(i, s, a) : a \in 1..AgentsPerSub}
Family(i) == {Boot(i)} \union OrchsOf(i) \union UNION {AgentsOf(i, s) : s \in Subs}

VARIABLES
  procs,      \* _PROCS: by configuration, the instance entered, or None
  lock,       \* the thread that holds _PROCS_LOCK, or None
  pc,         \* by thread: what it is at
  leaving,    \* the configurations main has still to stop
  serving,    \* serve_forever has not been interrupted
  exited,     \* the dashboard has exited
  started,    \* the number of instances started
  config,     \* by instance: its configuration, or None
  launched,   \* the processes launched so far
  alive,      \* the processes not yet gone
  doomed,     \* those with a fatal signal on the way: they run no code any more
  ending      \* the orchestrators that are shutting down

dashboard == <<procs, lock, pc, leaving, serving, exited>>
instances == <<started, config>>
processes == <<launched, alive, doomed, ending>>
vars == <<dashboard, instances, processes>>

Idle == <<"idle">>
Asked(op, c) == <<"asked", op, c>>
Terminating(i) == <<"terminating", i>>

Init ==
  /\ procs = [c \in Configs |-> None] /\ lock = None
  /\ pc = [t \in Threads |-> Idle]
  /\ leaving = {} /\ serving = TRUE /\ exited = FALSE
  /\ started = 0 /\ config = [i \in Instances |-> None]
  /\ launched = {} /\ alive = {} /\ doomed = {} /\ ending = {}
------------------------------------------------------------------------------
(* The dashboard. *)

\* A request arrives.
Accept(t, op, c) ==
  /\ serving /\ t # Main /\ pc[t] = Idle
  /\ pc' = [pc EXCEPT ![t] = Asked(op, c)]
  /\ UNCHANGED <<procs, lock, leaving, serving, exited, instances, processes>>

\* Mutant: an entry does not keep a configuration from being started again.
RunningNever(c) == FALSE

\* The entry's process has not ended.
Running(c) == procs[c] # None /\ Boot(procs[c]) \in alive

CanEnter(t, op, c) == ~exited /\ lock = None /\ pc[t] = Asked(op, c)

StartRefused(t, c) ==
  /\ CanEnter(t, "start", c) /\ Running(c)
  /\ pc' = [pc EXCEPT ![t] = Idle]
  /\ UNCHANGED <<procs, lock, leaving, serving, exited, instances, processes>>

StartSpawns(t, c) ==
  /\ CanEnter(t, "start", c) /\ ~Running(c) /\ started < MaxStarts
  /\ LET i == started + 1
     IN /\ started' = i
        /\ config' = [config EXCEPT ![i] = c]
        /\ procs' = [procs EXCEPT ![c] = i]
        /\ launched' = launched \union {Boot(i)}
        /\ alive' = alive \union {Boot(i)}
  /\ pc' = [pc EXCEPT ![t] = Idle]
  /\ UNCHANGED <<lock, leaving, serving, exited, doomed, ending>>

\* Nothing to stop: no entry, or one whose process has exited by itself.
StopNothing(t, c) ==
  /\ CanEnter(t, "stop", c) /\ ~Running(c)
  /\ procs' = [procs EXCEPT ![c] = None]
  /\ pc' = [pc EXCEPT ![t] = Idle]
  /\ UNCHANGED <<lock, leaving, serving, exited, instances, processes>>

\* Mutant: the signal goes to boot alone.
GroupOfOne(i) == {Boot(i)} \intersect alive

\* Nothing in the code leaves the process group it is started in.
Group(i) == Family(i) \intersect alive

StopSignals(t, c) ==
  /\ CanEnter(t, "stop", c) /\ Running(c)
  /\ lock' = t
  /\ pc' = [pc EXCEPT ![t] = Terminating(procs[c])]
  /\ doomed' = doomed \union Group(procs[c])
  /\ UNCHANGED <<procs, leaving, serving, exited, instances, launched, alive, ending>>

\* boot has ended, or the five seconds are over and the group gets SIGKILL.
StopDone(t, i) ==
  /\ ~exited /\ pc[t] = Terminating(i)
  /\ doomed' = IF Boot(i) \in alive THEN doomed \union Group(i) ELSE doomed
  /\ procs' = [procs EXCEPT ![config[i]] = None]
  /\ pc' = [pc EXCEPT ![t] = Idle] /\ lock' = None
  /\ UNCHANGED <<leaving, serving, exited, instances, launched, alive, ending>>

\* Ctrl-C on the dashboard: no more requests are accepted, and main lists what
\* it has to stop.  Requests accepted before are still served.
Quit ==
  /\ serving
  /\ serving' = FALSE
  /\ leaving' = {c \in Configs : procs[c] # None}
  /\ UNCHANGED <<procs, lock, pc, exited, instances, processes>>

MainStops(c) ==
  /\ ~exited /\ c \in leaving /\ pc[Main] = Idle
  /\ leaving' = leaving \ {c}
  /\ pc' = [pc EXCEPT ![Main] = Asked("stop", c)]
  /\ UNCHANGED <<procs, lock, serving, exited, instances, processes>>

\* The handlers are daemon threads: they end with main.
MainExits ==
  /\ ~serving /\ ~exited /\ leaving = {} /\ pc[Main] = Idle
  /\ exited' = TRUE
  /\ UNCHANGED <<procs, lock, pc, leaving, serving, instances, processes>>

Serve(t) ==
  \/ \E c \in Configs : \/ StartRefused(t, c) \/ StartSpawns(t, c)
                        \/ StopNothing(t, c) \/ StopSignals(t, c)
  \/ \E i \in Instances : StopDone(t, i)
------------------------------------------------------------------------------
(* An instance. *)

Runs(p) == p \in alive \ doomed
Started(p) == launched' = launched \union {p} /\ alive' = alive \union {p}
Gone(p) == alive' = alive \ {p} /\ doomed' = doomed \ {p} /\ ending' = ending \ {p}

Launch(i, s) ==
  /\ Runs(Boot(i)) /\ Orch(i, s) \notin launched
  /\ Started(Orch(i, s))
  /\ UNCHANGED <<dashboard, instances, doomed, ending>>

Spawn(i, s, a) ==
  /\ Runs(Orch(i, s)) /\ Orch(i, s) \notin ending
  /\ Agent(i, s, a) \notin launched
  /\ Started(Agent(i, s, a))
  /\ UNCHANGED <<dashboard, instances, doomed, ending>>

\* An agent exits by itself.
AgentExits(i, s, a) ==
  /\ Runs(Agent(i, s, a)) /\ Gone(Agent(i, s, a))
  /\ UNCHANGED <<dashboard, instances, launched>>

\* An orchestrator fails or is interrupted: its finally block sees to it that
\* all its agents end, by SIG_KILL or by SIGTERM.
OrchShutsDown(i, s) ==
  /\ Runs(Orch(i, s)) /\ Orch(i, s) \notin ending
  /\ ending' = ending \union {Orch(i, s)}
  /\ doomed' = doomed \union (AgentsOf(i, s) \intersect alive)
  /\ UNCHANGED <<dashboard, instances, launched, alive>>

OrchExits(i, s) ==
  /\ Runs(Orch(i, s)) /\ Orch(i, s) \in ending /\ Gone(Orch(i, s))
  /\ UNCHANGED <<dashboard, instances, launched>>

\* boot has joined all orchestrators.
BootExits(i) ==
  /\ Runs(Boot(i)) /\ OrchsOf(i) \subseteq launched \ alive
  /\ Gone(Boot(i))
  /\ UNCHANGED <<dashboard, instances, launched>>

\* A process with a fatal signal ends, sooner or later.
Die(p) ==
  /\ p \in alive \intersect doomed /\ Gone(p)
  /\ UNCHANGED <<dashboard, instances, launched>>

Live(i) ==
  \/ \E s \in Subs : \/ Launch(i, s) \/ OrchShutsDown(i, s) \/ OrchExits(i, s)
                     \/ \E a \in 1..AgentsPerSub : Spawn(i, s, a) \/ AgentExits(i, s, a)
  \/ BootExits(i)
  \/ \E p \in Family(i) : Die(p)

Next ==
  \/ \E t \in Threads, op \in {"start", "stop"}, c \in Configs : Accept(t, op, c)
  \/ \E t \in Threads : Serve(t)
  \/ Quit \/ (\E c \in Configs : MainStops(c)) \/ MainExits
  \/ \E i \in Instances : Live(i)

\* Threads that can go on do, signalled processes end, a shutdown is finished.
\* Nothing makes anyone send a request, or a process launch another.
Fairness ==
  /\ \A t \in Threads : WF_vars(Serve(t))
  /\ \A c \in Configs : WF_vars(MainStops(c))
  /\ WF_vars(MainExits)
  /\ \A i \in Instances : \A p \in Family(i) : WF_vars(Die(p))

Spec == Init /\ [][Next]_vars /\ Fairness
------------------------------------------------------------------------------
\* What the code has no answer to: boot or an orchestrator is killed alone.
KilledAlone(i) ==
  /\ \E p \in {Boot(i)} \union OrchsOf(i) : Runs(p) /\ Gone(p)
  /\ UNCHANGED <<dashboard, instances, launched>>

\* Or boot is interrupted alone: it terminates the orchestrators, which end
\* without their finally blocks.
InterruptedAlone(i) ==
  /\ Runs(Boot(i)) /\ OrchsOf(i) \subseteq launched
  /\ doomed' = doomed \union (OrchsOf(i) \intersect alive)
  /\ UNCHANGED <<dashboard, instances, launched, alive, ending>>

SpecAlone ==
  Init /\ [][Next \/ \E i \in Instances : KilledAlone(i) \/ InterruptedAlone(i)]_vars
------------------------------------------------------------------------------
\* No process is out of the dashboard's reach: what runs and has no signal
\* coming belongs to the instance entered for its configuration, so stopping
\* that stops it, and no two instances of one configuration, which would share
\* their fabric, run at a time.
Tracked ==
  ~exited => \A i \in Instances : \A p \in Family(i) : Runs(p) => procs[config[i]] = i

AllGone(i) == Family(i) \intersect alive = {}

\* A stop ends every process of the instance, also of one that is still being
\* launched, and also when the dashboard quits in the middle; quitting stops
\* what is entered.
StopEndsAll ==
  \A i \in Instances :
    /\ (\E t \in Threads : pc[t] = Terminating(i)) ~> AllGone(i)
    /\ (\E c \in leaving : procs[c] = i) ~> AllGone(i)

\* A dashboard that has quit leaves nothing running: it may, a start accepted
\* before and served after main listed the instances is not stopped.
QuitLeavesNone == exited => alive \subseteq doomed
==============================================================================
