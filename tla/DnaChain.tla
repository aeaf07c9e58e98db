------------------------------- MODULE DnaChain ------------------------------
(***************************************************************************)
(* A probe's genome in the fabric: a chain of chunks, one state slot each  *)
(* (src/swarm/dna_storage.py, write and read), with the three ways it is   *)
(* rewritten while the probe runs (src/swarm/agents/declarative.py): the   *)
(* probe seeds it, the probe adopts a proposed genome (message 701), and   *)
(* mutators of the same swarm store better ones.                           *)
(*                                                                         *)
(* A state_set is two steps and a state_get one: a slot being rewritten is *)
(* found empty (module StateTable, ImplementsRegisters).                   *)
(***************************************************************************)
EXTENDS Integers, Sequences

CONSTANTS
  Genome,      \* genomes, as the agents see them
  Length,      \* the number of chunks dna_storage.split makes of each
  Rank,        \* its fitness on the mutators' scenario: score, then brevity
  Initial,     \* the genome in the probe's configuration
  Proposed,    \* genomes other swarms or the dashboard propose
  Mutators,    \* local mutator agents that target this probe
  Probe,       \* the probe's process
  MaxChunks,   \* MAX_CHUNKS
  MaxCalls     \* bound: ticks and messages of each process

Procs == Mutators \union {Probe}

ASSUME DnaAssumption ==
  /\ MaxChunks \in Nat \ {0} /\ MaxCalls \in Nat
  /\ Length \in [Genome -> 1..MaxChunks]
  /\ Rank \in [Genome -> Int]
  /\ Initial \in Genome /\ Proposed \subseteq Genome
  /\ Probe \notin Mutators

VARIABLES
  chain,              \* the slots dna.<id>.0 .. dna.<id>.(MaxChunks - 1)
  genome,             \* the probe's self.genome
  pc, index, got,     \* each process: step, chunk it is at, chunks it read
  new, calls,         \* each process: genome it writes, calls made
  last,               \* history: the genome of the last write, if no other
                      \* write overlapped it
  clash,              \* history: processes whose write overlaps another
  torn,               \* history: processes whose read overlaps a write
  seeds               \* history: the times the probe seeded the chain

history == <<last, clash, torn, seeds>>
vars == <<chain, genome, pc, index, got, new, calls, last, clash, torn, seeds>>

Indices == 0..(MaxChunks - 1)
NoChunk == <<>>

\* Mutant: chunks are numbered from one.
ChunkFromOne(g, k) == IF k < Length[g] THEN <<g, k + 1>> ELSE NoChunk

\* split: chunk k of genome g; write stores '' past the last one.
Chunk(g, k) == IF k < Length[g] THEN <<g, k>> ELSE NoChunk
Chunks(g) == [k \in 1..Length[g] |-> <<g, k - 1>>]
Stored(g) == [k \in Indices |-> Chunk(g, k)]

Init ==
  /\ chain = [k \in Indices |-> NoChunk]
  /\ genome = Initial
  /\ pc = [p \in Procs |-> "idle"]
  /\ index = [p \in Procs |-> 0]
  /\ got = [p \in Procs |-> <<>>]
  /\ new = [p \in Procs |-> Initial]
  /\ calls = [p \in Procs |-> 0]
  /\ last = {} /\ clash = {} /\ torn = {} /\ seeds = 0

Goto(p, label) == pc' = [pc EXCEPT ![p] = label]
Writers == {p \in Procs : pc[p] \in {"clear", "fill"}}
Readers == {p \in Procs : pc[p] \in {"read", "decide"}}

\* on_tick of a probe or a mutator: dna_storage.read.
Tick(p) ==
  /\ pc[p] = "idle" /\ calls[p] < MaxCalls
  /\ calls' = [calls EXCEPT ![p] = @ + 1]
  /\ index' = [index EXCEPT ![p] = 0]
  /\ got' = [got EXCEPT ![p] = <<>>]
  /\ Goto(p, "read")
  /\ torn' = IF Writers = {} THEN torn \ {p} ELSE torn \union {p}
  /\ UNCHANGED <<chain, genome, new, last, clash, seeds>>

\* state_get of one chunk; the first empty one ends the read.
Read(p) ==
  /\ pc[p] = "read" /\ index[p] < MaxChunks
  /\ IF chain[index[p]] = NoChunk
     THEN Goto(p, "decide") /\ UNCHANGED <<index, got>>
     ELSE /\ got' = [got EXCEPT ![p] = Append(@, chain[index[p]])]
          /\ index' = [index EXCEPT ![p] = @ + 1]
          /\ UNCHANGED pc
  /\ UNCHANGED <<chain, genome, new, calls, history>>

ReadAll(p) ==
  /\ pc[p] = "read" /\ index[p] = MaxChunks
  /\ Goto(p, "decide")
  /\ UNCHANGED <<chain, genome, index, got, new, calls, history>>

\* Process p starts dna_storage.write of genome g.
StartWrite(p, g) ==
  /\ new' = [new EXCEPT ![p] = g]
  /\ index' = [index EXCEPT ![p] = 0]
  /\ clash' = IF Writers = {} THEN clash \ {p} ELSE clash \union Writers \union {p}
  /\ torn' = torn \union (Readers \ {p})
  /\ Goto(p, "clear")

\* _tick_probe: an empty chain is seeded, and the seed is what is interpreted.
Seed ==
  /\ pc[Probe] = "decide" /\ got[Probe] = <<>>
  /\ StartWrite(Probe, genome)
  /\ got' = [got EXCEPT ![Probe] = Chunks(genome)]
  /\ seeds' = seeds + 1
  /\ UNCHANGED <<chain, genome, calls, last>>

\* _tick_probe: the genome read is interpreted.
Interpret ==
  /\ pc[Probe] = "decide" /\ got[Probe] # <<>>
  /\ Goto(Probe, "idle")
  /\ UNCHANGED <<chain, genome, index, got, new, calls, history>>

\* on_message 701; self.genome is set once the write is done.
Adopt ==
  /\ pc[Probe] = "idle" /\ calls[Probe] < MaxCalls
  /\ calls' = [calls EXCEPT ![Probe] = @ + 1]
  /\ \E g \in Proposed : StartWrite(Probe, g)
  /\ UNCHANGED <<chain, genome, got, last, seeds>>

\* _tick_mutator: a candidate scores higher than the genome read.  (A torn
\* genome may have any score.)
Beats(g, chunks) ==
  \A h \in Genome : chunks = Chunks(h) => Rank[g] > Rank[h]

Mutate(m) ==
  /\ pc[m] = "decide" /\ got[m] # <<>>
  /\ \E g \in Genome : Beats(g, got[m]) /\ StartWrite(m, g)
  /\ UNCHANGED <<chain, genome, got, calls, last, seeds>>

\* No candidate is better, or the target has no genome yet.
KeepCurrent(m) ==
  /\ pc[m] = "decide"
  /\ Goto(m, "idle")
  /\ UNCHANGED <<chain, genome, index, got, new, calls, history>>

\* state_set of one chunk: the slot is cleared, then filled.
ClearChunk(p) ==
  /\ pc[p] = "clear" /\ index[p] < MaxChunks
  /\ chain' = [chain EXCEPT ![index[p]] = NoChunk]
  /\ Goto(p, "fill")
  /\ UNCHANGED <<genome, index, got, new, calls, history>>

FillChunk(p) ==
  /\ pc[p] = "fill"
  /\ chain' = [chain EXCEPT ![index[p]] = Chunk(new[p], index[p])]
  /\ index' = [index EXCEPT ![p] = @ + 1]
  /\ Goto(p, "clear")
  /\ UNCHANGED <<genome, got, new, calls, history>>

\* Mutant: slots past the end of the genome are left alone.
WrittenShort(p) == index[p] = Length[new[p]]

Written(p) == index[p] = MaxChunks

\* The write is over.  The probe's self.genome is the adopted genome, or was.
EndWrite(p) ==
  /\ pc[p] = "clear" /\ Written(p)
  /\ genome' = IF p = Probe THEN new[p] ELSE genome
  /\ last' = IF p \in clash THEN {} ELSE {new[p]}
  /\ Goto(p, "idle")
  /\ UNCHANGED <<chain, index, got, new, calls, clash, torn, seeds>>

Step(p) ==
  \/ Tick(p) \/ Read(p) \/ ReadAll(p)
  \/ ClearChunk(p) \/ FillChunk(p) \/ EndWrite(p)

Next ==
  \/ \E p \in Procs : Step(p)
  \/ Seed \/ Interpret \/ Adopt
  \/ \E m \in Mutators : Mutate(m) \/ KeepCurrent(m)

Spec == Init /\ [][Next]_vars
------------------------------------------------------------------------------
TypeOK ==
  /\ chain \in [Indices -> (Genome \X Indices) \union {NoChunk}]
  /\ genome \in Genome
  /\ pc \in [Procs -> {"idle", "read", "decide", "clear", "fill"}]
  /\ index \in [Procs -> 0..MaxChunks]
  /\ \A p \in Procs : pc[p] = "fill" => index[p] < MaxChunks
  /\ got \in [Procs -> Seq(Genome \X Indices)]
  /\ new \in [Procs -> Genome] /\ calls \in [Procs -> 0..MaxCalls]
  /\ last \subseteq Genome /\ clash \subseteq Procs /\ torn \subseteq Procs
  /\ seeds \in Nat

Quiet == Writers = {}

\* When nobody is writing, the chain holds exactly the genome written last,
\* if its writer was alone: no chunk of a longer predecessor, or of an earlier
\* mixture, is left behind.
QuietIsWhole == Quiet => \A g \in last : chain = Stored(g)

\* Whoever reads the chain while nobody writes gets the genome written last:
\* the end of a shorter one is found, a full chain is read to its end.
QuietReadsAreWhole ==
  \A p \in Procs \ torn : pc[p] = "decide" => \A g \in last : got[p] = Chunks(g)

\* dna_storage.py:28: "the worst-case outcome of a torn read is one tick of
\* wrong verdict".  When nobody is writing, the chain is a whole genome.
TornReadsPass == Quiet /\ seeds > 0 => \E g \in Genome : chain = Stored(g)

\* declarative.py:145: "On the very first tick where the chain is empty, seed
\* it".  The probe seeds its chain once.
SeedsOnce == seeds <= 1

\* declarative.py:20: "writes the best back IF it strictly improves".  A
\* mutator never replaces a genome that scores higher than its own.
OnlyImproves ==
  [][\A m \in Mutators, g \in last :
       pc[m] = "decide" /\ pc'[m] = "clear" /\ Quiet => Rank[new'[m]] > Rank[g]]_vars
==============================================================================
