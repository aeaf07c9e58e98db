-------------------------- MODULE DeploymentProofs ---------------------------
(***************************************************************************)
(* No process of a configuration gets out of the dashboard's reach, for    *)
(* any number of threads, configurations, sub-swarms and agents.           *)
(***************************************************************************)
EXTENDS Deployment, Sequences, TLAPS

AgentNames == 1..AgentsPerSub

\* Processes have names of their own.
LEMMA Names ==
  /\ \A i, j : Boot(i) = Boot(j) => i = j
  /\ \A i, j, s, r : Orch(i, s) = Orch(j, r) => i = j /\ s = r
  /\ \A i, j, s, r, a, b : Agent(i, s, a) = Agent(j, r, b) => i = j /\ s = r /\ a = b
  /\ \A i, j, r : Boot(i) # Orch(j, r)
  /\ \A i, j, r, b : Boot(i) # Agent(j, r, b)
  /\ \A i, j, s, r, b : Orch(i, s) # Agent(j, r, b)
<1>1. \A i, j, s, a : Len(Boot(i)) = 1 /\ Len(Orch(j, s)) = 2 /\ Len(Agent(j, s, a)) = 3
  BY DEF Boot, Orch, Agent
<1>2. /\ \A i, j, r : Boot(i) # Orch(j, r)
      /\ \A i, j, r, b : Boot(i) # Agent(j, r, b)
      /\ \A i, j, s, r, b : Orch(i, s) # Agent(j, r, b)
  <2>1. ASSUME NEW i, NEW j, NEW s, NEW r, NEW b
        PROVE  Boot(i) # Orch(j, r) /\ Boot(i) # Agent(j, r, b) /\ Orch(i, s) # Agent(j, r, b)
    <3>1. Len(Boot(i)) = 1 /\ Len(Orch(j, r)) = 2 /\ Len(Orch(i, s)) = 2 /\ Len(Agent(j, r, b)) = 3
      BY <1>1
    <3>. QED
      BY <3>1
  <2>. QED
    BY <2>1
<1>3. \A i, j : Boot(i) = Boot(j) => i = j
  BY DEF Boot
<1>4. \A i, j, s, r : Orch(i, s) = Orch(j, r) => i = j /\ s = r
  BY DEF Orch
<1>5. \A i, j, s, r, a, b : Agent(i, s, a) = Agent(j, r, b) => i = j /\ s = r /\ a = b
  BY DEF Agent
<1>. QED
  BY <1>2, <1>3, <1>4, <1>5
------------------------------------------------------------------------------
(* The invariant.                                                           *)

\* What a thread may be at when it is not waiting for an instance to end.
Requests == {Idle} \union {Asked(op, c) : op \in {"start", "stop"}, c \in Configs}

\* The tables are tables, and instances are entered and numbered as they start.
Tables ==
  /\ started \in 0..MaxStarts
  /\ config \in [Instances -> Configs \union {None}]
  /\ procs \in [Configs -> 0..started]
  /\ pc \in [Threads -> Requests \union {Terminating(i) : i \in Instances}]

\* What has not been started has no process.
OnlyStarted == \A i \in Instances : \A p \in Family(i) : p \in alive => i <= started

\* An orchestrator runs under a boot that runs, an agent under an orchestrator
\* that runs and is not shutting down.
UnderParents ==
  \A i \in Instances, s \in Subs :
    /\ Runs(Orch(i, s)) => Runs(Boot(i))
    /\ \A a \in AgentNames :
         Runs(Agent(i, s, a)) => Runs(Orch(i, s)) /\ Orch(i, s) \notin ending

\* Entries are of their configurations, and the instance of a boot that runs is
\* entered.
Entered ==
  /\ \A c \in Configs : procs[c] # None => config[procs[c]] = c
  /\ \A i \in Instances : Runs(Boot(i)) => config[i] \in Configs /\ procs[config[i]] = i

\* A thread that waits for an instance to end holds the lock, and the instance
\* has been signalled and is still the one entered.
Waiting ==
  \A t \in Threads, i \in Instances :
    pc[t] = Terminating(i) =>
      /\ lock = t
      /\ config[i] \in Configs /\ procs[config[i]] = i
      /\ ~Runs(Boot(i))

Inv == Tables /\ OnlyStarted /\ UnderParents /\ Entered /\ Waiting

LEMMA FamilyMembers ==
  ASSUME NEW i \in Instances, NEW p \in Family(i)
  PROVE  \/ p = Boot(i)
         \/ \E s \in Subs : p = Orch(i, s)
         \/ \E s \in Subs, a \in AgentNames : p = Agent(i, s, a)
  BY DEF Family, OrchsOf, AgentsOf, AgentNames

LEMMA FamilyOfBoot ==
  ASSUME NEW i \in Instances, NEW n, Boot(n) \in Family(i)
  PROVE  i = n
<1>1. PICK p \in Family(i) : p = Boot(n)
  OBVIOUS
<1>2. CASE p = Boot(i)
  BY <1>1, <1>2, Names
<1>3. CASE \E s \in Subs : p = Orch(i, s)
  <2>1. PICK s \in Subs : p = Orch(i, s)
    BY <1>3
  <2>. QED
    BY <1>1, <2>1, Names
<1>4. CASE \E s \in Subs, a \in AgentNames : p = Agent(i, s, a)
  <2>1. PICK s \in Subs, a \in AgentNames : p = Agent(i, s, a)
    BY <1>4
  <2>2. Boot(n) # Agent(i, s, a)
    <3>1. \A k, l, r, b : Boot(k) # Agent(l, r, b)
      BY Names
    <3>. QED
      BY <3>1, Zenon
  <2>. QED
    BY <1>1, <2>1, <2>2
<1>. QED
  BY <1>2, <1>3, <1>4, FamilyMembers

LEMMA Members ==
  ASSUME NEW i \in Instances, NEW s \in Subs, NEW a \in AgentNames
  PROVE  Boot(i) \in Family(i) /\ Orch(i, s) \in Family(i) /\ Agent(i, s, a) \in Family(i)
  BY DEF Family, OrchsOf, AgentsOf, AgentNames

LEMMA PcValues ==
  /\ Idle \in Requests /\ \A op \in {"start", "stop"}, c \in Configs : Asked(op, c) \in Requests
  /\ \A i : Terminating(i) \notin Requests
  /\ \A i, j : Terminating(i) = Terminating(j) => i = j
  BY DEF Terminating, Idle, Asked, Requests

\* When nothing is launched and no entry changes, it is enough that what runs
\* runs under parents that run.
LEMMA QuietSteps ==
  ASSUME Inv, UnderParents', procs' = procs, lock' = lock, pc' = pc, instances' = instances,
         alive' \subseteq alive, \A i \in Instances : Runs(Boot(i))' => Runs(Boot(i))
  PROVE  Inv'
<1>1. Tables' /\ OnlyStarted'
  BY DEF Inv, Tables, OnlyStarted, instances
<1>2. Entered'
  BY DEF Inv, Entered, instances
<1>3. Waiting'
  BY DEF Inv, Waiting, instances
<1>. QED
  BY <1>1, <1>2, <1>3 DEF Inv
------------------------------------------------------------------------------
(* The steps of the dashboard.                                              *)

\* A thread goes to something else than waiting, and no entry of a process
\* that runs is touched.
LEMMA RequestSteps ==
  ASSUME Inv, NEW t \in Threads, NEW v, lock' = lock, instances' = instances,
         processes' = processes, pc' = [pc EXCEPT ![t] = v],
         v \in Requests,
         \/ procs' = procs
         \/ lock = None /\ \E c \in Configs : ~Running(c) /\ procs' = [procs EXCEPT ![c] = None]
  PROVE  Inv'
<1> USE DeploymentAssumption DEF None
<1>1. Tables'
  BY DEF Inv, Tables, instances
<1>2. OnlyStarted' /\ UnderParents'
  BY DEF Inv, OnlyStarted, UnderParents, Runs, instances, processes
<1>3. Entered'
  <2>1. ASSUME NEW i \in Instances, Runs(Boot(i)), NEW c \in Configs, ~Running(c)
        PROVE  c # config[i]
    BY <2>1 DEF Inv, Entered, Running, Runs, Instances
  <2>2. \A c \in Configs : procs'[c] # None => procs'[c] = procs[c]
    BY DEF Inv, Tables
  <2>. QED
    BY <2>1, <2>2 DEF Inv, Entered, Tables, Runs, instances, processes
<1>4. Waiting'
  <2>1. ASSUME NEW r \in Threads, NEW i \in Instances, pc'[r] = Terminating(i)
        PROVE  pc[r] = Terminating(i)
    BY <2>1, PcValues DEF Inv, Tables
  <2>2. ASSUME NEW r \in Threads, NEW i \in Instances, pc[r] = Terminating(i)
        PROVE  lock # None
    BY <2>2 DEF Inv, Waiting, Threads
  <2>. QED
    BY <2>1, <2>2 DEF Inv, Waiting, Runs, instances, processes
<1>. QED
  BY <1>1, <1>2, <1>3, <1>4 DEF Inv

\* An instance is started when what was entered before runs no more.
LEMMA StartStep ==
  ASSUME Inv, NEW t \in Threads, NEW c \in Configs, StartSpawns(t, c)
  PROVE  Inv'
<1> USE DeploymentAssumption DEF None
<1> DEFINE n == started + 1
<1>1. n \in Instances /\ n \in 1..MaxStarts
  BY DEF StartSpawns, Instances, Inv, Tables
<1>2. /\ started' = n /\ config' = [config EXCEPT ![n] = c] /\ procs' = [procs EXCEPT ![c] = n]
      /\ alive' = alive \union {Boot(n)} /\ pc' = [pc EXCEPT ![t] = Idle]
      /\ lock' = lock /\ lock = None /\ doomed' = doomed /\ ending' = ending /\ ~Running(c)
  BY DEF StartSpawns, CanEnter
<1> HIDE DEF n
<1>3. Tables'
  <2>1. n \in 0..n /\ 0..started \subseteq 0..n
    BY DEF n, Inv, Tables
  <2>. QED
    BY PcValues, <1>1, <1>2, <2>1 DEF Inv, Tables
<1>4. ASSUME NEW i \in Instances, NEW p \in Family(i), p \in alive', p \notin alive
      PROVE  p = Boot(n) /\ i = n
  <2>1. p = Boot(n)
    BY <1>2, <1>4
  <2>2. i = n
    BY <1>4, <2>1, FamilyOfBoot
  <2>. QED
    BY <2>1, <2>2
<1>5. OnlyStarted'
  <2> SUFFICES ASSUME NEW i \in Instances, NEW p \in Family(i), p \in alive' PROVE i <= started'
    BY DEF OnlyStarted
  <2>1. CASE p \in alive
    <3>1. i <= started /\ started \in Nat /\ i \in Nat
      BY <2>1 DEF Inv, OnlyStarted, Tables, Instances
    <3>. QED
      BY <3>1, <1>2 DEF n
  <2>2. CASE p \notin alive
    BY <1>1, <1>2, <1>4, <2>2
  <2>. QED
    BY <2>1, <2>2
<1>6. UnderParents'
  <2> SUFFICES ASSUME NEW i \in Instances, NEW s \in Subs
               PROVE  /\ Runs(Orch(i, s))' => Runs(Boot(i))'
                      /\ \A a \in AgentNames : Runs(Agent(i, s, a))' =>
                           Runs(Orch(i, s))' /\ Orch(i, s) \notin ending'
    BY DEF UnderParents
  <2>1. Runs(Orch(i, s))' => Runs(Orch(i, s))
    BY <1>1, <1>2, Names DEF Runs
  <2>2. \A a \in AgentNames : Runs(Agent(i, s, a))' => Runs(Agent(i, s, a))
    BY <1>1, <1>2, Names DEF Runs
  <2>3. Runs(Boot(i)) => Runs(Boot(i))'
    BY <1>2 DEF Runs
  <2>4. Runs(Orch(i, s)) => Runs(Orch(i, s))'
    BY <1>2 DEF Runs
  <2>. QED
    BY <1>2, <2>1, <2>2, <2>3, <2>4 DEF Inv, UnderParents
<1>7. Entered'
  <2>0. ASSUME NEW d \in Configs, procs'[d] # None PROVE config'[procs'[d]] = d
    <3>1. CASE d = c
      BY <1>1, <1>2, <3>1 DEF Inv, Tables
    <3>2. CASE d # c
      <4>1. procs'[d] = procs[d] /\ procs[d] \in 0..started /\ started \in Nat
        BY <1>2, <3>2 DEF Inv, Tables
      <4>2. procs[d] # n
        BY <4>1 DEF n
      <4>3. config[procs[d]] = d
        BY <2>0, <4>1 DEF Inv, Entered
      <4>4. procs[d] \in Instances
        BY <2>0, <4>1 DEF Inv, Tables, Instances
      <4>. QED
        BY <1>2, <4>1, <4>2, <4>3, <4>4 DEF Inv, Tables
    <3>. QED
      BY <3>1, <3>2
  <2> SUFFICES ASSUME NEW i \in Instances, Runs(Boot(i))'
               PROVE  config'[i] \in Configs /\ procs'[config'[i]] = i
    BY <2>0 DEF Entered
  <2>1. CASE i = n
    BY <1>1, <1>2, <2>1 DEF Inv, Tables
  <2>2. CASE i # n
    <3>1. Runs(Boot(i))
      BY <1>1, <1>2, <2>2, Names DEF Runs
    <3>2. config[i] \in Configs /\ procs[config[i]] = i
      BY <3>1 DEF Inv, Entered
    <3>3. config[i] # c
      BY <1>2, <3>1, <3>2 DEF Running, Runs, Instances
    <3>. QED
      BY <1>1, <1>2, <2>2, <3>2, <3>3 DEF Inv, Tables
  <2>. QED
    BY <2>1, <2>2
<1>8. Waiting'
  <2> SUFFICES ASSUME NEW r \in Threads, NEW i \in Instances, pc'[r] = Terminating(i)
               PROVE  FALSE
    BY DEF Waiting
  <2>1. pc[r] = Terminating(i)
    BY <1>2, PcValues DEF Inv, Tables
  <2>. QED
    BY <1>2, <2>1 DEF Inv, Waiting, Threads
<1>. QED
  BY <1>3, <1>5, <1>6, <1>7, <1>8 DEF Inv

\* A stop signals the whole group, so nothing of the instance runs any more.
LEMMA SignalStep ==
  ASSUME Inv, NEW t \in Threads, NEW c \in Configs, StopSignals(t, c)
  PROVE  Inv'
<1> USE DeploymentAssumption DEF None
<1>0. PICK n \in Instances : n = procs[c]
  BY DEF StopSignals, Running, Inv, Tables, Instances
<1>1. /\ config[n] = c /\ Boot(n) \in alive /\ lock = None /\ lock' = t
      /\ pc' = [pc EXCEPT ![t] = Terminating(n)]
      /\ doomed' = doomed \union (Family(n) \intersect alive)
      /\ UNCHANGED <<procs, started, config, alive, ending>>
  BY <1>0 DEF StopSignals, CanEnter, Running, Group, Inv, Entered, instances
<1>2. Tables' /\ OnlyStarted'
  BY <1>1 DEF Inv, Tables, OnlyStarted
<1>3. ASSUME NEW j \in Instances, j # n, NEW p \in Family(j)
      PROVE  Runs(p)' <=> Runs(p)
  <2>1. p \notin Family(n)
    BY <1>1, <1>3, FamilyMembers, Names
  <2>. QED
    BY <1>1, <2>1 DEF Runs
<1>4. ASSUME NEW p \in Family(n) PROVE ~Runs(p)'
  BY <1>1, <1>4 DEF Runs
<1>5. UnderParents'
  <2> SUFFICES ASSUME NEW i \in Instances, NEW s \in Subs
               PROVE  /\ Runs(Orch(i, s))' => Runs(Boot(i))'
                      /\ \A a \in AgentNames : Runs(Agent(i, s, a))' =>
                           Runs(Orch(i, s))' /\ Orch(i, s) \notin ending'
    BY DEF UnderParents
  <2>0. Boot(i) \in Family(i) /\ Orch(i, s) \in Family(i)
        /\ \A a \in AgentNames : Agent(i, s, a) \in Family(i)
    BY DEF Family, OrchsOf, AgentsOf, AgentNames
  <2>1. CASE i = n
    BY <1>4, <2>0, <2>1
  <2>2. CASE i # n
    BY <1>1, <1>3, <2>0, <2>2 DEF Inv, UnderParents
  <2>. QED
    BY <2>1, <2>2
<1>6. ASSUME NEW i \in Instances, Runs(Boot(i))' PROVE Runs(Boot(i))
  BY <1>1, <1>6 DEF Runs
<1>7. Entered'
  BY <1>1, <1>6 DEF Inv, Entered
<1>8. Waiting'
  <2> SUFFICES ASSUME NEW r \in Threads, NEW i \in Instances, pc'[r] = Terminating(i)
               PROVE  /\ lock' = r
                      /\ config'[i] \in Configs /\ procs'[config'[i]] = i /\ ~Runs(Boot(i))'
    BY DEF Waiting
  <2>1. r = t
    <3>1. ASSUME r # t PROVE FALSE
      <4>1. pc[r] = Terminating(i)
        BY <1>1, <3>1 DEF Inv, Tables
      <4>. QED
        BY <1>1, <4>1 DEF Inv, Waiting, Threads
    <3>. QED
      BY <3>1
  <2>2. i = n
    BY <1>1, <2>1, PcValues DEF Inv, Tables
  <2>3. ~Runs(Boot(n))'
    BY <1>4 DEF Family
  <2>. QED
    BY <1>0, <1>1, <2>1, <2>2, <2>3
<1>. QED
  BY <1>2, <1>5, <1>7, <1>8 DEF Inv

\* The wait for an instance ends: its entry goes, and none of it runs.
LEMMA DoneStep ==
  ASSUME Inv, NEW t \in Threads, NEW n \in Instances, StopDone(t, n)
  PROVE  Inv'
<1> USE DeploymentAssumption DEF None
<1>1. /\ pc[t] = Terminating(n) /\ pc' = [pc EXCEPT ![t] = Idle] /\ lock' = None
      /\ procs' = [procs EXCEPT ![config[n]] = None]
      /\ UNCHANGED <<started, config, alive, ending>>
      /\ \A p : Runs(p)' => Runs(p)
      /\ \A i \in Instances : \A p \in Family(i) :
           p \notin Family(n) /\ Runs(p) => Runs(p)'
  BY DEF StopDone, Group, Runs, instances
<1>2. lock = t /\ config[n] \in Configs /\ procs[config[n]] = n /\ ~Runs(Boot(n))
  BY <1>1 DEF Inv, Waiting
<1>3. Tables' /\ OnlyStarted'
  <2>1. None \in 0..started
    BY DEF Inv, Tables
  <2>2. procs' \in [Configs -> 0..started]
    <3>1. procs \in [Configs -> 0..started] /\ procs' = [procs EXCEPT ![config[n]] = None]
      BY <1>1 DEF Inv, Tables
    <3>. QED
      BY <2>1, <3>1
  <2>3. pc' = [pc EXCEPT ![t] = Idle]
    BY <1>1
  <2>. QED
    BY PcValues, <1>1, <2>2, <2>3 DEF Inv, Tables, OnlyStarted
<1>4. UnderParents'
  <2> SUFFICES ASSUME NEW i \in Instances, NEW s \in Subs
               PROVE  /\ Runs(Orch(i, s))' => Runs(Boot(i))'
                      /\ \A a \in AgentNames : Runs(Agent(i, s, a))' =>
                           Runs(Orch(i, s))' /\ Orch(i, s) \notin ending'
    BY DEF UnderParents
  <2>0. Boot(i) \in Family(i) /\ Orch(i, s) \in Family(i)
        /\ \A a \in AgentNames : Agent(i, s, a) \in Family(i)
    BY DEF Family, OrchsOf, AgentsOf, AgentNames
  <2>1. CASE i = n
    BY <1>1, <1>2, <2>1 DEF Inv, UnderParents
  <2>2. CASE i # n
    <3>1. Boot(i) \notin Family(n) /\ Orch(i, s) \notin Family(n)
      BY <2>2, FamilyMembers, Names
    <3>. QED
      BY <1>1, <2>0, <2>2, <3>1 DEF Inv, UnderParents
  <2>. QED
    BY <2>1, <2>2
<1>5. Entered'
  <2>1. ASSUME NEW d \in Configs, procs'[d] # None PROVE config'[procs'[d]] = d
    BY <1>1, <1>2, <2>1 DEF Inv, Tables, Entered
  <2>2. ASSUME NEW i \in Instances, Runs(Boot(i))'
        PROVE  config'[i] \in Configs /\ procs'[config'[i]] = i
    <3>1. Runs(Boot(i)) /\ i # n
      BY <1>1, <1>2, <2>2
    <3>2. config[i] \in Configs /\ procs[config[i]] = i
      BY <3>1 DEF Inv, Entered
    <3>. QED
      BY <1>1, <1>2, <3>1, <3>2 DEF Inv, Tables
  <2>. QED
    BY <2>1, <2>2 DEF Entered
<1>6. Waiting'
  <2> SUFFICES ASSUME NEW r \in Threads, NEW i \in Instances, pc'[r] = Terminating(i) PROVE FALSE
    BY DEF Waiting
  <2>1. r # t /\ pc[r] = Terminating(i)
    BY <1>1, PcValues DEF Inv, Tables
  <2>. QED
    BY <1>2, <2>1 DEF Inv, Waiting
<1>. QED
  BY <1>3, <1>4, <1>5, <1>6 DEF Inv
------------------------------------------------------------------------------
(* The steps of an instance.                                                *)

\* A process starts under a parent that runs.
LEMMA LaunchStep ==
  ASSUME Inv, NEW i \in Instances, NEW s \in Subs, Launch(i, s)
  PROVE  Inv'
<1>1. /\ Runs(Boot(i)) /\ alive' = alive \union {Orch(i, s)}
      /\ UNCHANGED <<procs, lock, pc, started, config, doomed, ending>>
  BY DEF Launch, Started, dashboard, instances
<1>2. Tables'
  BY <1>1 DEF Inv, Tables
<1>3. i <= started
  BY <1>1 DEF Inv, OnlyStarted, Runs, Family
<1>4. OnlyStarted'
  BY <1>1, <1>3, FamilyMembers, Names DEF Inv, OnlyStarted
<1>5. \A j \in Instances : Runs(Boot(j))' <=> Runs(Boot(j))
  BY <1>1, Names DEF Runs
<1>6. UnderParents'
  <2> SUFFICES ASSUME NEW j \in Instances, NEW r \in Subs
               PROVE  /\ Runs(Orch(j, r))' => Runs(Boot(j))'
                      /\ \A a \in AgentNames : Runs(Agent(j, r, a))' =>
                           Runs(Orch(j, r))' /\ Orch(j, r) \notin ending'
    BY DEF UnderParents
  <2>1. Runs(Orch(j, r))' => Runs(Orch(j, r)) \/ j = i
    BY <1>1, Names DEF Runs
  <2>2. \A a \in AgentNames : Runs(Agent(j, r, a))' => Runs(Agent(j, r, a))
    BY <1>1, Names DEF Runs
  <2>3. Runs(Orch(j, r)) => Runs(Orch(j, r))'
    BY <1>1 DEF Runs
  <2>. QED
    BY <1>1, <1>5, <2>1, <2>2, <2>3 DEF Inv, UnderParents
<1>7. Entered' /\ Waiting'
  BY <1>1, <1>5 DEF Inv, Entered, Waiting
<1>. QED
  BY <1>2, <1>4, <1>6, <1>7 DEF Inv

LEMMA SpawnStep ==
  ASSUME Inv, NEW i \in Instances, NEW s \in Subs, NEW a \in AgentNames, Spawn(i, s, a)
  PROVE  Inv'
<1>1. /\ Runs(Orch(i, s)) /\ Orch(i, s) \notin ending /\ alive' = alive \union {Agent(i, s, a)}
      /\ UNCHANGED <<procs, lock, pc, started, config, doomed, ending>>
  BY DEF Spawn, Started, dashboard, instances
<1>2. Tables'
  BY <1>1 DEF Inv, Tables
<1>3. i <= started
  <2>1. Orch(i, s) \in Family(i) /\ Orch(i, s) \in alive
    BY <1>1 DEF Runs, Family, OrchsOf
  <2>. QED
    BY <2>1 DEF Inv, OnlyStarted
<1>4. OnlyStarted'
  BY <1>1, <1>3, FamilyMembers, Names DEF Inv, OnlyStarted
<1>5. /\ \A j \in Instances : Runs(Boot(j))' <=> Runs(Boot(j))
      /\ \A j \in Instances, r \in Subs : Runs(Orch(j, r))' <=> Runs(Orch(j, r))
  BY <1>1, Names DEF Runs
<1>6. UnderParents'
  <2> SUFFICES ASSUME NEW j \in Instances, NEW r \in Subs, NEW b \in AgentNames,
                      Runs(Agent(j, r, b))'
               PROVE  Runs(Orch(j, r)) /\ Orch(j, r) \notin ending
    BY <1>1, <1>5 DEF UnderParents, Inv
  <2>1. Runs(Agent(j, r, b)) \/ (j = i /\ r = s)
    BY <1>1, Names DEF Runs
  <2>. QED
    BY <1>1, <2>1 DEF Inv, UnderParents
<1>7. Entered' /\ Waiting'
  BY <1>1, <1>5 DEF Inv, Entered, Waiting
<1>. QED
  BY <1>2, <1>4, <1>6, <1>7 DEF Inv

\* A process ends, none that runs being under it.
LEMMA GoneStep ==
  ASSUME Inv, NEW i \in Instances, NEW p \in Family(i), Gone(p),
         UNCHANGED <<dashboard, instances>>,
         p = Boot(i) => \A s \in Subs : ~Runs(Orch(i, s)),
         \A s \in Subs : p = Orch(i, s) => \A a \in AgentNames : ~Runs(Agent(i, s, a))
  PROVE  Inv'
<1>1. /\ \A q : Runs(q)' => Runs(q) /\ q # p
      /\ \A q : q # p /\ Runs(q) => Runs(q)'
      /\ \A q : q \in alive' => q \in alive
      /\ \A q : q \in ending' => q \in ending
  BY DEF Gone, Runs
<1>2. UnderParents'
  <2> SUFFICES ASSUME NEW j \in Instances, NEW r \in Subs
               PROVE  /\ Runs(Orch(j, r))' => Runs(Boot(j))'
                      /\ \A a \in AgentNames : Runs(Agent(j, r, a))' =>
                           Runs(Orch(j, r))' /\ Orch(j, r) \notin ending'
    BY DEF UnderParents
  <2>1. ASSUME Runs(Orch(j, r))' PROVE Runs(Boot(j))'
    <3>1. Runs(Orch(j, r)) /\ Runs(Boot(j))
      BY <1>1, <2>1 DEF Inv, UnderParents
    <3>2. Boot(j) # p
      BY <3>1, FamilyMembers, Names
    <3>. QED
      BY <1>1, <3>1, <3>2
  <2>2. ASSUME NEW a \in AgentNames, Runs(Agent(j, r, a))'
        PROVE  Runs(Orch(j, r))' /\ Orch(j, r) \notin ending'
    <3>1. Runs(Agent(j, r, a)) /\ Runs(Orch(j, r)) /\ Orch(j, r) \notin ending
      BY <1>1, <2>2 DEF Inv, UnderParents
    <3>2. Orch(j, r) # p
      BY <3>1, FamilyMembers, Names
    <3>. QED
      BY <1>1, <3>1, <3>2
  <2>. QED
    BY <2>1, <2>2
<1>3. alive' \subseteq alive /\ \A j \in Instances : Runs(Boot(j))' => Runs(Boot(j))
  BY <1>1
<1>4. procs' = procs /\ lock' = lock /\ pc' = pc /\ instances' = instances
  BY DEF dashboard
<1>. QED
  BY <1>2, <1>3, <1>4, QuietSteps

\* A shutdown dooms the agents of its orchestrator.
LEMMA ShutdownStep ==
  ASSUME Inv, NEW i \in Instances, NEW s \in Subs, OrchShutsDown(i, s)
  PROVE  Inv'
<1>1. /\ ending' = ending \union {Orch(i, s)}
      /\ doomed' = doomed \union (AgentsOf(i, s) \intersect alive)
      /\ alive' = alive /\ procs' = procs /\ lock' = lock /\ pc' = pc /\ instances' = instances
  BY DEF OrchShutsDown, dashboard
<1>2. \A p : /\ Runs(p)' => Runs(p)
             /\ p \notin AgentsOf(i, s) /\ Runs(p) => Runs(p)'
             /\ p \in AgentsOf(i, s) => ~Runs(p)'
  BY <1>1 DEF Runs
<1>3. UnderParents'
  <2> SUFFICES ASSUME NEW j \in Instances, NEW r \in Subs
               PROVE  /\ Runs(Orch(j, r))' => Runs(Boot(j))'
                      /\ \A a \in AgentNames : Runs(Agent(j, r, a))' =>
                           Runs(Orch(j, r))' /\ Orch(j, r) \notin ending'
    BY DEF UnderParents
  <2>1. Boot(j) \notin AgentsOf(i, s) /\ Orch(j, r) \notin AgentsOf(i, s)
    BY Names DEF AgentsOf
  <2>2. ASSUME NEW a \in AgentNames, Runs(Agent(j, r, a))'
        PROVE  Runs(Orch(j, r))' /\ Orch(j, r) \notin ending'
    <3>1. Agent(j, r, a) \notin AgentsOf(i, s)
      BY <1>2, <2>2
    <3>2. ~(j = i /\ r = s)
      BY <3>1 DEF AgentsOf, AgentNames
    <3>3. Orch(j, r) # Orch(i, s)
      BY <3>2, Names
    <3>. QED
      BY <1>1, <1>2, <2>1, <2>2, <3>3 DEF Inv, UnderParents
  <2>. QED
    BY <1>2, <2>1, <2>2 DEF Inv, UnderParents
<1>. QED
  BY <1>1, <1>2, <1>3, QuietSteps
------------------------------------------------------------------------------
LEMMA InitialInv ==
  Init => Inv
<1> SUFFICES ASSUME Init PROVE Inv
  OBVIOUS
<1> USE DeploymentAssumption DEF Init, None
<1>1. Tables
  <2>1. 0 \in 0..MaxStarts /\ 0 \in 0..0
    OBVIOUS
  <2>. QED
    BY PcValues, <2>1 DEF Tables
<1>2. OnlyStarted /\ UnderParents /\ Entered
  BY DEF OnlyStarted, UnderParents, Entered, Runs
<1>3. Waiting
  BY PcValues DEF Waiting
<1>. QED
  BY <1>1, <1>2, <1>3 DEF Inv

LEMMA InstanceSteps ==
  ASSUME Inv, NEW i \in Instances, Live(i)
  PROVE  Inv'
<1>1. ASSUME NEW s \in Subs, Launch(i, s) PROVE Inv'
  BY <1>1, LaunchStep
<1>2. ASSUME NEW s \in Subs, OrchShutsDown(i, s) PROVE Inv'
  BY <1>2, ShutdownStep
<1>3. ASSUME NEW s \in Subs, OrchExits(i, s) PROVE Inv'
  <2>1. \A r \in Subs : Orch(i, s) = Orch(i, r) => \A a \in AgentNames : ~Runs(Agent(i, r, a))
    BY <1>3 DEF OrchExits, Inv, UnderParents
  <2>2. Orch(i, s) \in Family(i) /\ Orch(i, s) # Boot(i)
    BY Names DEF Family, OrchsOf
  <2>3. Gone(Orch(i, s)) /\ UNCHANGED <<dashboard, instances>>
    BY <1>3 DEF OrchExits
  <2>. QED
    BY <2>1, <2>2, <2>3, GoneStep
<1>4. ASSUME NEW s \in Subs, NEW a \in AgentNames, Spawn(i, s, a) PROVE Inv'
  BY <1>4, SpawnStep
<1>5. ASSUME NEW s \in Subs, NEW a \in AgentNames, AgentExits(i, s, a) PROVE Inv'
  <2>1. Agent(i, s, a) \in Family(i)
    BY Members
  <2>2. Agent(i, s, a) # Boot(i) /\ \A r \in Subs : Agent(i, s, a) # Orch(i, r)
    BY Names
  <2>3. Gone(Agent(i, s, a)) /\ UNCHANGED <<dashboard, instances>>
    BY <1>5 DEF AgentExits
  <2>. QED
    BY <2>1, <2>2, <2>3, GoneStep
<1>6. CASE BootExits(i)
  <2>1. \A s \in Subs : ~Runs(Orch(i, s))
    BY <1>6 DEF BootExits, OrchsOf, Runs
  <2>2. Boot(i) \in Family(i) /\ \A r \in Subs : Boot(i) # Orch(i, r)
    BY Names DEF Family
  <2>3. Gone(Boot(i)) /\ UNCHANGED <<dashboard, instances>>
    BY <1>6 DEF BootExits
  <2>. QED
    BY <2>1, <2>2, <2>3, GoneStep
<1>7. ASSUME NEW p \in Family(i), Die(p) PROVE Inv'
  <2>1. ~Runs(p) /\ Gone(p) /\ UNCHANGED <<dashboard, instances>>
    BY <1>7 DEF Die, Runs
  <2>2. p = Boot(i) => \A s \in Subs : ~Runs(Orch(i, s))
    BY <2>1 DEF Inv, UnderParents
  <2>3. \A s \in Subs : p = Orch(i, s) => \A a \in AgentNames : ~Runs(Agent(i, s, a))
    BY <2>1 DEF Inv, UnderParents
  <2>. QED
    BY <2>1, <2>2, <2>3, GoneStep
<1>. QED
  BY <1>1, <1>2, <1>3, <1>4, <1>5, <1>6, <1>7 DEF Live, AgentNames

\* For any number of threads that start and stop any configurations: what runs
\* and has no signal coming is of the instance entered for its configuration,
\* so a stop reaches it, and no configuration runs twice (viz.py, _start_config
\* and _stop_config).
THEOREM AllTracked == Spec => []Tracked
<1>1. Inv /\ [Next]_vars => Inv'
  <2> SUFFICES ASSUME Inv, [Next]_vars PROVE Inv'
    OBVIOUS
  <2>1. ASSUME NEW t \in Threads, NEW op \in {"start", "stop"}, NEW c \in Configs, Accept(t, op, c)
        PROVE  Inv'
    <3>1. /\ lock' = lock /\ instances' = instances /\ processes' = processes /\ procs' = procs
          /\ pc' = [pc EXCEPT ![t] = Asked(op, c)]
      BY <2>1 DEF Accept
    <3>2. Asked(op, c) \in Requests
      BY PcValues
    <3>. QED
      BY <3>1, <3>2, RequestSteps
  <2>2. ASSUME NEW t \in Threads, NEW c \in Configs, StartRefused(t, c) PROVE Inv'
    <3>1. /\ lock' = lock /\ instances' = instances /\ processes' = processes /\ procs' = procs
          /\ pc' = [pc EXCEPT ![t] = Idle]
      BY <2>2 DEF StartRefused
    <3>2. Idle \in Requests
      BY PcValues
    <3>. QED
      BY <3>1, <3>2, RequestSteps
  <2>3. ASSUME NEW t \in Threads, NEW c \in Configs, StartSpawns(t, c) PROVE Inv'
    BY <2>3, StartStep
  <2>4. ASSUME NEW t \in Threads, NEW c \in Configs, StopNothing(t, c) PROVE Inv'
    <3>1. /\ lock' = lock /\ instances' = instances /\ processes' = processes
          /\ lock = None /\ ~Running(c) /\ procs' = [procs EXCEPT ![c] = None]
          /\ pc' = [pc EXCEPT ![t] = Idle]
      BY <2>4 DEF StopNothing, CanEnter
    <3>2. Idle \in Requests
      BY PcValues
    <3>. QED
      BY <3>1, <3>2, RequestSteps
  <2>5. ASSUME NEW t \in Threads, NEW c \in Configs, StopSignals(t, c) PROVE Inv'
    BY <2>5, SignalStep
  <2>6. ASSUME NEW t \in Threads, NEW i \in Instances, StopDone(t, i) PROVE Inv'
    BY <2>6, DoneStep
  <2>7. CASE Quit \/ MainExits \/ UNCHANGED vars
    <3>1. /\ procs' = procs /\ lock' = lock /\ pc' = pc
          /\ instances' = instances /\ processes' = processes
      BY <2>7 DEF Quit, MainExits, vars, dashboard
    <3>2. UnderParents'
      BY <3>1 DEF Inv, UnderParents, Runs, processes
    <3>3. alive' \subseteq alive /\ \A i \in Instances : Runs(Boot(i))' => Runs(Boot(i))
      BY <3>1 DEF Runs, processes
    <3>. QED
      BY <3>1, <3>2, <3>3, QuietSteps
  <2>8. ASSUME NEW c \in Configs, MainStops(c) PROVE Inv'
    <3>1. /\ lock' = lock /\ instances' = instances /\ processes' = processes /\ procs' = procs
          /\ pc' = [pc EXCEPT ![Main] = Asked("stop", c)]
      BY <2>8 DEF MainStops
    <3>2. Asked("stop", c) \in Requests /\ Main \in Threads
      BY PcValues DEF Threads
    <3>. QED
      BY <3>1, <3>2, RequestSteps
  <2>9. ASSUME NEW i \in Instances, Live(i) PROVE Inv'
    BY <2>9, InstanceSteps
  <2>. QED
    BY <2>1, <2>2, <2>3, <2>4, <2>5, <2>6, <2>7, <2>8, <2>9 DEF Next, Serve
<1>2. Inv => Tracked
  <2> SUFFICES ASSUME Inv, NEW i \in Instances, NEW p \in Family(i), Runs(p)
               PROVE  procs[config[i]] = i
    BY DEF Tracked
  <2>1. Runs(Boot(i))
    BY FamilyMembers DEF Inv, UnderParents
  <2>. QED
    BY <2>1 DEF Inv, Entered
<1>. QED
  BY <1>1, <1>2, InitialInv, PTL DEF Spec
=============================================================================
