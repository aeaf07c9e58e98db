# codex_monk in TLA+

A model of the swarm runtime in `swarm/`: the shared-memory fabric, the agents
and the orchestrator that live on it, and the genomes the agents carry. TLC
checks it on small instances; TLAPS proves every safety property the passing
runs check but one (`KeepsShared`), for all.

## The system

Every agent is an operating-system process. The processes of a swarm share one
memory-mapped file, the *fabric* (`swarm/fabric.py`), and nothing else: inboxes,
a key/value state table, an event log and one control block per agent live in
it. An orchestrator (`swarm/kernel.py`) spawns the agents and watches them. A
gateway agent carries messages to the fabric of another swarm. The dashboard
(`viz.py`) and the probes of other swarms map the fabric too.

| component | state | operations | what makes it correct |
|---|---|---|---|
| inbox ring | 64 envelopes per agent, head, tail | `inbox_send` (anybody), `inbox_recv` (owner) | with one sender at a time nothing lost, doubled, torn or reordered; never overfull, nothing taken twice whoever sends |
| state table | 1024 slots: lock, version, key, value | `state_set`, `state_get` | a read returns a value of its key, not an old one; a written key stays |
| event log | head number, 4096 entries | `log_append`, `log_read`, `_log_tail` | numbers unique; entries retained; a poll shows genuine entries in order |
| control blocks, signals | state, heartbeat, signal bits | `sig_send`, `sig_recv`, `Agent.run`, `_die` | a stopped agent ends; state and process agree |
| orchestrator | `_procs` | `_health`, `kill`, `_shutdown` | crashes reported, hung agents ended, nothing left after shutdown |
| DNA chain | `dna.<id>.0` to `.7` in the state table | `split`, `write`, `read`; seed, adopt, mutate | readers get a whole genome; a better one is not lost |
| genome interpreter | stack, index | `interpret` | ends with a verdict on any input; the evolved genome keeps its rules |
| gateway, VJR | sockets, queues, threads | client loop, reader, `drain` | order kept, resynchronisation after bad frames |
| boot, dashboard | child processes | start, stop | no process outlives a stop |
| fitness, evolution | parent, archive | `score`, `evolve`, `mutate` | the archive never gets worse |
| probes | none, or a small ring | `sample_all` | quorum over other swarms' slots |

What is hard here is that processes interleave at every access to shared
memory. Off Windows nothing locks: the named mutexes and events exist in the
Windows branches only (`IS_WINDOWS`), and the spin lock of `lock` tests and sets
in two steps. The programs run on Linux and WSL; the Windows branches are not
modelled. The hazards, each at its line with the properties that watch it, are
listed in `PROJECT.json`.

### What a store is

`struct.pack_into` of CPython clears the destination bytes and then writes the
fields. So a store is two steps in the models, and other processes read zero in
between: a tail of zero, an empty key. This was confirmed by watching a word of
a shared mapping from a second process while the first one stored to it. The
bounds keep every counter below 256, where zero and the value are the only
contents such a word shows; a larger counter also shows its low bytes alone,
which the models do not cover. The fields of an envelope or a slot are then
written in one step, and read in one step (a slot in two: key, value): an
envelope is published after it, by the tail, and who finds a slot's key with its
value still blank gets what it gets when the slot is cleared under it, an empty
value. A log entry's number comes first and is what a reader looks at, so the
entry is written and read in three: the number, one of the fields between, the
last one. Where senders meet in one slot, the real envelope may also be a mixture
of two, the type of one and the payload of the other; in the models it is one of
them or blank. Stores reach other processes in program order (x86).
One-byte fields of a control block (`ACB_STATE`) are stored in one step.

## Modules

`Mailbox` is what an inbox promises: a bounded FIFO queue. `Inbox` is the ring,
any number of senders, one receiver; a sender's actions `SendReadHead` to
`SendSignal` and the receiver's `RecvReadHead` to `RecvStoreHead` are the loads
and stores of `inbox_send` and `inbox_recv` in order. `InboxSingle` has one
sender and maps the ring to `Mailbox`: the queue is the envelopes from
`Position` to `Published`, the head and tail without their half-done stores.
`SharedMailbox` is what an inbox promises to several senders: that queue until a
call begins while another is under way (`met`), and from then on a set of messages
(`stray`) of which each may come out once or never, in any order, with blank
envelopes between them. `InboxShared` maps the ring to it. That two calls met is
never forgotten, although a ring that the receiver has emptied may be in order
again; so the promise after a meeting is weaker than what the ring does.

`StateTable` is the hash table: a call probes a slot per step, a `state_set`
spins on the lock word, reads the version and packs the slot, a `state_get`
re-reads the key and reads the value. The 200 000 rounds of the spin loop are
abstracted: it may give up whenever it sees the lock held. `Die` is the death of
a process anywhere. `KeyMap` is a bounded map, and `StateSolo` maps a table with
one writing process to it. `Registers` is what a table with any number of writers
promises each key: a cell that a call clears and then fills, empty in between,
which a reader sees as it is at one moment; `StateTable` maps itself to it, for
keys with home slots of their own. `MCStateTable` and `MCStateSolo` choose home
slots (`Home` stands for djb2) and who writes what.

`EventLog` has the appending processes and the dashboard's poll of the tail. The
head is stored before the entry is packed, and the number is packed before what
follows it, so a poll may find an entry's number over fields still blank.

`Lifecycle` has agents, the orchestrator and peers that signal agents. An agent
goes through `Register`, `Announce` and the loop of `Agent.run`; it may fail (an
exception outside the handlers, Ctrl-C), and its process may vanish (`Exit`).
Time is abstracted: `Overdue` makes the heartbeat of a working agent older than
the watchdog, and the five seconds of `_shutdown` end at any moment. The
orchestrator's `_health` and `_shutdown` walk over `_procs` one agent at a time.
`Interrupt` is Ctrl-C in the orchestrator, once; a second one, or SIGKILL of
the orchestrator itself, is not modelled. `StateSet` is `state_set` of an agent's
entry, by the agent or the orchestrator: take the lock word or give up after
spinning, clear the entry and its lock, store the value. The version and the
search for the slot are left to `StateTable`; that an entry has its slot to
itself is the assumption of `Registers`. A process that dies between taking the
lock and the clear leaves it set, and the orchestrator's 'crashed' is then refused
and the agent forgotten all the same.

`Deployment` is a level above `Lifecycle`: the dashboard's threads that start
and stop configurations under `_PROCS_LOCK`, boot, its orchestrators and their
agents as processes of one process group, and the dashboard's own Ctrl-C. A
process with a fatal signal on the way (`doomed`) runs no more code and ends
sooner or later. What orchestrator and agents do with each other is abstracted
to its outcome in `Lifecycle`: a shutdown dooms every agent. Starting an
instance is one step, because the code holds the lock from the check to the
entry; stopping one is two, because it waits in between.

`Gateway` is one direction of the link between two swarms: the inbox of the
gateway, its agent loop, the send queue, the client thread with the envelope it
keeps across reconnects, the connections with what is under way on them, the
reader threads, the inboxes at the other end. A frame (`vjr.py`) is two pieces,
header and body; a connection breaks after any piece, and the sender learns of
it on some later send or never. A reader thread's `drain` looks at the front of
its buffer again and again, each round an action of its own. A call of
`inbox_send` begins and ends (`SendBegin` and `Send`, `DeliverBegin` and `Deliver`),
and inboxes are those of `SharedMailbox`: agents meet in the gateway's inbox, the
reader threads of an old and a new connection in an agent's, and there also a
sender outside the link (`MeetOther`: another swarm's reader thread, or an agent
like the aggregator's governor, whose narrator is the sink that receives the
alerts). A blank envelope out of such an inbox has type 0, which no route and no
agent takes, and is left out. `MCGateway` has a type with a route and one without.

`DnaChain` has the probe and mutators over one chain. A chunk is a genome and an
index; a `state_set` of a chunk is a clear and a fill, a `state_get` is one
step and finds a slot being rewritten empty. That is what `Registers` says of a
key, so `TableIsRegisters` justifies it when the chunks' keys have home slots of
their own; a `state_set` that fails, whose result `write` ignores, is left out. A
mutator's search is abstracted to its outcome: some genome of higher rank than the
one it read, or none. The dashboard's write is a proposal by a process that is not
the probe, the way a mutator writes.

The rest of the program is sequential, and its modules share the run
`Sequential`: `MCSequential` lets a behaviour choose one part, whose next-state
relation is then the only one.

- `Genome`: the interpreter, an action per branch of its loop, on integers
  instead of floats.
- `DnaSplit`: `split` over codepoint widths; a text is a sequence of 1 to 4.
- `Probes`: what each `sample_all` makes of the numbers it has read, as far as
  the genomes and the gate look at it, and the probes' opcode tables. `QuorumScan`:
  the scan of other swarms' slots. `SensorGate`: the hand-written gate.
  `ShippedKernel`: the kernel probe's two genomes, the rules stated over them, and
  where they may differ from the gate.
- `Window`: the ring of earlier totals of `cgroup_pods` (`fabric_peer` has the
  same one for queries). `Rates`: the difference to the last sample of
  `disk_net`, with interfaces that come, go and start again.
- `Fitness`: `replay` and `score`. `Evolution`: mutation, selection, archive and
  restart, over genomes (`evolve.py`) or over vectors by what their slots decode
  to (`evolve_vec.py`): any token of the table, or nothing. Genomes are scored and
  measured as characters, slots after decoding; random draws are choices.

A module `XProofs` holds the theorems about module `X` and their proofs; module
`MCX` gives `X` the functions a configuration cannot write.

Definitions marked `Mutant` are plausible bugs; no specification uses them. With
one of them in place of the definition it varies, the run that `PROJECT.json`
names reports the property violated, so each property depends on the code.

## Runs

| run | bounds | shows |
|---|---|---|
| InboxMany | 2 senders, 2 slots, 2 sends each | the ring under racing senders: never overfull, nothing taken twice, `SharedMailbox` implemented |
| InboxSingle | 1 sender, 2 slots, 5 sends | the ring implements `Mailbox`; accepted messages are delivered |
| StateShared | 2 processes, which may die; a key both write (1 and 3 calls), a key one writes | fresh reads though the lock does not exclude, sole writers read their writes, the table implements `Registers`, calls return though holders die |
| StateSolo | 1 writer, 1 reader, 3 keys, 2 slots | collisions, wrap-around, a full table: a map |
| LogSingle | 1 writer, 2 slots, 5 appends | retention, genuine entries, blank only while they are packed |
| Lifecycle | 1 agent, 1 peer | crashes are reported (in the state table unless the agent died with its entry locked), crashed agents are gone, zombies stay, shutdown ends all |
| Deployment | 1 configuration, 2 handlers and main, 1 sub-swarm of 1 agent, 2 instances | no instance out of reach, stopping ends all of it, quitting too |
| Gateway | a type with a route and one without, 3 messages, 2 connections, inboxes of 2, any calls of `inbox_send` overlapping | every message in one place or accounted for, order while no connection broke and no sends met, delivery in the end where none met |
| DnaChain | probe and mutator, 3 genomes of 1 to 3 chunks, 3 calls each | no leftover chunks after a write, whole genomes for readers |
| Sequential | see below | the sequential parts |

The rings have two slots so that a few messages go round them twice; two
senders are enough for every race, a third adds no new pair of steps. In
`StateSolo` three keys in two slots give collision, wrap-around and refusal.
Three calls are a seed or adoption, an overlapping rewrite and a read after it;
one, two and three chunks are a genome shorter and longer than another, and one
that fills the chain. One agent is enough in `Lifecycle`: the orchestrator
treats its agents one after the other and they meet only in the peer's signals.
In the two inbox runs a receiver keeps looking at its inbox. Two handlers are a
start racing a stop or another start; a second instance is a start after, or
during, the stop of the first. Two connections are a break and the retry over
the next one, of which the last does not break, so that delivery can be asked
for at all; three messages fill an inbox of two, and are two that meet and one
before or after them. A route to a second agent would only add an inbox that
nothing else touches.

In `Sequential`:

| part | bounds | properties |
|---|---|---|
| genome | all genomes of up to 4 of 11 characters; stack of 3 | `TypeOK` (the stack's bound), `Decides` |
| rules | the 7 shipped genomes, on readings at both sides of every threshold: hosts, pods, disks and interfaces, a cluster, a peer, two other swarms | `ShippedRules`; for the kernel genome `GateAgrees` |
| score | all judges of two frames, up to 3 phases, gaps, with and without deadline | `ScoreIsEarned` |
| corpus | the nine scenarios of `scenarios/` | `ScoreIsEarned`: the shipped kernel genome has the best score on each |
| split | up to 7 codepoints of 1 to 4 bytes, 4 bytes a chunk, 2 chunks | `ChunksWhole`, `ShortFits` |
| search | genomes of up to 3 characters, or 3 slots of 3 tokens or none, 2 children, 5 generations, restart after 2 | `ArchiveIsBest` |
| window | 2 pods, 2 kills, 4 samples, a ring of 3, a window of 4 s | `WindowShows` |
| rates | 2 interfaces, 1 error each between samples, 2 samples | `RatesAreExact` |

The comments of the configurations in `swarms/` say of each genome what it
alerts on; `ShippedRules` states that of the surroundings, not of the frame, so
it holds only if sampling, opcode table, interpreter and genome agree. Rules about
a share of time are stated for whole per cents. A stack
of three overflows within four characters, and is what the shipped genomes
need. The ring holds fewer samples than are taken, and the window is shorter
than the samples' time, so both ends drop entries. Both searches reach the optimum
and a shorter genome of that score, and the one over slots has a token of two
characters, so that fewer slots are not always fewer characters.

`CHECK_DEADLOCK FALSE` is set where the model really stops: calls, messages or
instances are used up, a sequential part has its result, or a process has died.

Two runs show where the code departs from what it says of itself; each is a
finding in `PROJECT.json`, with the line it contradicts:

| run | what happens |
|---|---|
| LogRace | two events get one number |
| DnaReseed | the probe writes its old genome over one being written |

The other configurations are counterexamples kept for reading beside the runs;
`tlc -config <name>.cfg <module>` prints each as a trace (of several properties
in one file TLC shows the first it meets; keep the one you want):

| configuration | module | property it violates | what happens |
|---|---|---|---|
| StateMisread | MCStateTable | FreshReads | `state_get` returns the value of a colliding key |
| StateLockRace | MCStateTable | MutualExclusion | two processes hold one slot's lock |
| StateCollide | MCStateTable | WrittenKeysStay | a second writer takes the slot a colliding key has just been given |
| LifecycleLimits | Lifecycle | OverdueIsKilled | a hung agent outlives the watchdog |
| | | NoGhosts | a terminated agent keeps counting as live |
| | | CrashIsSeen | an agent killed inside `state_set` is never published as crashed |
| DeploymentAlone | Deployment | Tracked | boot or an orchestrator killed alone leaves processes nothing stops |
| DeploymentQuit | Deployment | QuitLeavesNone | a start served after main has listed the instances outlives the dashboard |
| GatewayReorder | MCGateway | InOrderAlways | after a reconnection an older alert arrives after a newer one |
| DnaLimits | MCDnaChain | TornReadsPass | two writers leave a mixed genome for good |
| | | OnlyImproves | a mutator replaces a better genome it never read |
| SequentialLimits | MCSequential | FitsWhole | a genome that should fit is cut short |
| | | NeverRaises | a superscript digit raises in the interpreter |
| | | WholeWindow | samples come so fast that the ring holds less than the window |
| | | KillShows | a pod that goes takes its kills out of the sum and hides another's |
| | | AlarmsEnd | an alarm that outlasts its event costs nothing: only edges are scored |
| | | HitsAreTimely | an alarm one tick after a phase that has no deadline is still a hit: the window's end is inclusive, as `scenarios/fast_spike.yaml` says of a deadline |
| | | GateIsHeeded | the gate alarms by memory in use, the shipped genome has no such rule |

`DnaLimits` needs two writers of a chain, which the configuration
allows (several mutators of one target; a mutator and proposals) though the
shipped swarms have one mutator.

Three things met while modelling that no run shows: the three probes of
`swarms/k8s_node.yaml` write their severity under one key, so the last of them
hides the others' from a quorum scan (`QuorumScan` takes a peer's slots as they
are); the scan reads slots without the re-check of `state_get`, so a slot
in the middle of a store counts as OK or as having no time; and `k8s_api.py`
says that without credentials its genome reports a critical fault, while the
genome that ships asks for credentials first, as its configuration says:
`ShippedRules` follows the configuration.

What the runs do not reach, although a property is near it: two writers whose
colliding keys meet in one empty slot, or a value read under another key
(`StateShared` keeps home slots apart, `StateSolo` has one writer; see
`StateCollide` and `StateMisread`); torn reads of the DNA chain and mixtures of two
genomes (`QuietIsWhole` and `QuietReadsAreWhole` excuse them; see `DnaLimits`).

## Fairness

`InboxSingle`: weak fairness of the receiver's steps, because `Agent.run` drains
its inbox in every cycle, and of the sender's steps within a call, which has no
wait in it. No sender has to start a call. `StateShared`: weak fairness of the
steps within a call for each process that lives; the spin loop is bounded.
`Lifecycle`: weak fairness of the orchestrator, of an agent's loop outside
`on_tick`, and of the delivery of SIGTERM. None for `WorkDone` (a handler may
hang), `Interrupt`, peers, failures or exits. `Deployment`: threads that can go
on do (the lock is released after at most five seconds and the group's SIGKILL
cannot be refused), signalled processes end; nobody has to send a request,
launch or exit. `Gateway`: the agent loops and threads run, connecting succeeds
in the end, a send returns or raises; no message has to be sent, no
connection has to break and nothing makes a message come out of an inbox in which
sends met. `Sequential`: the interpreter runs.

## Proofs

Proved with TLAPS for every value of the constants that satisfies the modules'
assumptions (`ASSUME` in the module that declares them). Each argument is an
inductive invariant; what the properties lack to be one is said here.

- `InboxProofs`, any number of racing senders, stale words and half-done stores:
  type correctness; `RingNeverOverfull` and `ReceiverAdvances`; `TakenOnce`. The
  full test alone bounds nothing: a sender holds a head and a tail that may be
  old or zero. `StaleHead` adds that a sender's head is never ahead of the
  receiver and that the slot it reserved is within `Capacity` of that head, so
  whatever tail it stores, and however late, lies within `Capacity` of the
  receiver. For `TakenOnce`, `OnceInv` adds that a message is in one slot, and
  that a slot whose message was taken is not among the published ones until a
  sender has cleared it; two positions of one slot are `Capacity` apart.
  With one sender (`SingleSender`, a hypothesis of these two): `SingleInvariant`
  and `RingIsMailbox`. `SingleInv` says that the copy of the tail is exact while a
  slot is reserved, that every published envelope is whole, and that the receiver
  reads only published ones; then a store of the tail is `Put`, a store of the
  head is `Take`, and every other step leaves the queue unchanged.
- `StateTableProofs`, any number of processes, which die anywhere: type
  correctness; `ApartReadsAreFresh`, that reads are fresh if no two keys share a
  home slot, although the lock excludes nobody. A call then works on the home
  slot of its key, a slot holds no other key, and a value in the table is the
  last one written under its slot's key.
  Under the same hypothesis `TableIsRegisters`, the refinement of `Registers`: the
  clear and the fill of a slot are those of its key's cell, the last look of a
  `state_get` is the cell's read, and all else stutters, the death of a writer in
  the middle of a call included, which leaves the cell empty till the next write.
  And `OwnWritesAreRead`, `VersionsCount` (which no run checks): what a key's
  only writer wrote last is in its slot, with its version, unless the slot has no
  key because that writer is rewriting it or died there (`Owned`); other processes
  work on other slots.
  With one writer (`SingleWriter`) and any collisions: `OneSlot`, and
  `ProbingIsMap`, the refinement of `KeyMap`. `Placed` says that a key in the table
  is in the slot where the search for it ends, the slot under rewriting counted as
  if it held its new key already; the others state what the slots a call has
  passed hold. The store of a slot is then `Set`, the refusal of a full table
  refuses in the map too, and the rest stutters.
- `EventLogProofs`: type correctness for any number of appending processes; with
  one, `OneWriterRetains` and `OneWriterTail`. Numbers follow the head word, the
  appends that returned are those up to `Done`, and an entry that bears a number
  belongs to one begun (`Begun`): whole, or under packing with its later fields
  blank (`HalfWritten`), or `Capacity` numbers older than the newest. So what a
  poll collects field by field is `Genuine`, and blank only under a number whose
  append had not returned when the poll began.
- `LifecycleProofs`, any agents and peers, failures and Ctrl-C anywhere: type
  correctness, `CrashedAreGone`, `ZombiesStay`. `ZombiesLeave` says that a zombie
  is at the last steps of `_die` or gone, so no step that stores another state is
  ahead of it; `MarkedIsGone` that what the orchestrator is about to publish as
  crashed is gone already, and stays so. Neither needs `state_set` to succeed.
- `DnaChainProofs`, any genomes and mutators: type correctness, `LoneWriteIsWhole`,
  `QuietReads`. A write nobody overlaps is the only one under way, so the slots
  it has passed are its genome; a read nobody disturbs has copied what the
  chain holds.
- `DeploymentProofs`, any threads, configurations, sub-swarms and agents:
  `AllTracked`. `UnderParents` says that an orchestrator no signal is coming for
  runs under a boot that none is coming for, and so for agents; `Entered` that
  such a boot is entered for its configuration; `Waiting` that a thread in the
  middle of a stop holds the lock and has ended what it is about to remove. It
  rests on the group being signalled as one: `DeploymentAlone` signals one process.
- `GatewayProofs`, any messages, routes and connections, frames of any number of
  pieces: type correctness, `NoneDoubledNoneGone`, `OrderKept`. `Framing` says that
  what a connection carries (wire, buffer) is frames one after the other from a
  header on, and ends with a whole one until the connection is cut; so a round of
  `drain` takes a message out of the stream or discards pieces whose frame can no
  longer become whole. `Apart` says that each number sent is in exactly one of the
  places (inbox, queue, kept envelope, streams, reader threads, inboxes, outcomes),
  once; the messages in an inbox where sends met are a place of their own, which
  `MetFirst` says is empty before. `InLine` orders the places by how far a message in
  them has to go, as long as no sends met in the gateway's inbox: within the sending
  gateway always, beyond it until a connection is cut, in an agent's inbox until
  sends meet there; `Opening` says that until then there is one connection.
- `SequentialProofs`. The library states induction for operators, which cannot be
  cited here; the module proves it for sets of numbers from well-foundedness
  (`LeastNumber`), and from it that folds, sums and recursive functions exist and
  are what their equations say. Then, with invariants over those:
  - `RecentKills`: the ring of `Window` holds the latest samples in order, and the
    sum shown is a difference of two totals of it;
  - `ExactRates`: `Rates` keeps the counts of the last sample and the errors since;
  - `ArchiveHolds`: archive and parent both have the highest score so far, because
    the parent moves only to an equal or better one, and the archive is no longer
    than the parent, over slots once the optimum is reached. Hypothesis `SearchesOver`:
    tokens, tags and initial genome are over one set of characters, and genomes
    have integer scores;
  - `WholeChunks`, `ShortIsWhole`: every cut lies on a codepoint boundary, and a cut
    is short of the chunk's end by less than the widest codepoint;
  - `InterpreterTyping`: type correctness of the interpreter, on any genome,
    with `GenomeAssumption` (readings are natural numbers);
  - `FirstRuleDecides`: for any opcode table whose characters mean nothing else and
    any readings, a genome that is a list of rules (`RuleList`), each of one test
    or two, with separators or without, comes to the verdict of the first rule that
    applies. `Reached` says that the interpreter is within a rule (`InRule`, the
    positions of a test with the stack at each), the rules before it refused, and
    the stack empty where it was entered;
  - `GenomesSayTheRules` (kernel), `PodsSayTheRules`, `ClusterSaysTheRules`,
    `PeerSaysTheRules`, `GovernorSaysTheRules`: the genomes that ship are such
    lists, character by character, and on whatever the probe reads, any pods, nodes,
    deployments, events, peers or severities, the first rule that applies is the
    one the configuration's comment names. The governor's genome has its first
    two rules the other way round, and is right nonetheless because the first tests
    both. Hypotheses: a stack of at least three (it is 16), and the keys the genome
    loads (`Loads`), which TLC evaluates for the table of all probes (`ProbeTable`);
    an average, count or age is a natural number (`IsHost`, `IsNode`,
    `IsControlPlane`, `IsPeer`, `IsScan`). The disks' and interfaces' genome is
    proved for the sample before that the run has, with whole per cents;
  - `GenomesKeepToGate`: the kernel's rules against the hand-written gate;
  - `RunSaysTheRules` and `RunKeepsToGate`: the worlds of the run are such as those
    theorems are about, hence `ShippedRules` and `GateAgrees` of it;
  - `ScoresAreEarned`, for any judge and any scenario whose costs cannot add up to the
    sentinel's thousand million: a score is 0 exactly for the right alarm in each
    labelled phase and none elsewhere, and the sentinel exactly for an alarm in a
    calm phase. The false alarms of a scenario are those of its calm phases, and
    costs are sums of which each term is within its bound. `ScoresMeanRules`: so
    on the run's scenarios, and on each of `scenarios/` the shipped kernel genome,
    by its rules, scores 0.

Only checked by TLC: `KeepsShared`, the ring under racing senders against
`SharedMailbox` (proved of that ring: `RingNeverOverfull`, `ReceiverAdvances`,
`TakenOnce`), and liveness (`AcceptedIsDelivered`, `CallsReturn`, `CrashIsReported`,
`ShutdownEndsAll`, `Settles`, `StopEndsAll`, `Decides`), which needs fairness and
`ENABLED`. That a genome is a list of rules is proved for the seven
that ship, one by one: of arbitrary genomes the theorems say only that the
interpreter is well typed.

## Not modelled

- `/proc`, cgroup files and the answers of the Kubernetes API: the parsers of the
  host probes turn text into numbers and keep no state but what `Window` and
  `Rates` model. `Probes` starts at the numbers.
- Loading and merging YAML (`config.py`, `template.py`), before anything runs.
- The browser code, the HTTP handlers that only read and format, the text of
  the narrator (`facts`).
- The gateway's server socket, its counters and its shutdown; the cadence of
  the probe's and the mutator's ticks; the sink's counters and graph file.
- Single-swarm mode of `boot.py`, where boot is the orchestrator itself: the
  orchestrator is `Lifecycle`, and the group is that of `Deployment`.
- The numpy variants of the interpreter and the evolution beyond what a vector's
  slots decode to; floats, for which integers stand, and with them rounding.
- The Windows branches, a second Ctrl-C, SIGKILL of the dashboard.
- A scan of another swarm's table in the middle of a store, counters whose
  store shows its low bytes alone, and envelopes mixed of two senders' fields.

What could come next: a quorum scan that reads the table of `StateTable` slot by
slot while it is written; a proof of `KeepsShared`; and the disks' genome for any
two samples.
