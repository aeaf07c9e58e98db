-------------------------- MODULE DnaChainProofs ----------------------------
(***************************************************************************)
(* What survives in a genome chain that a probe and any number of mutators *)
(* rewrite slot by slot without a lock.                                    *)
(***************************************************************************)
EXTENDS DnaChain, SequenceTheorems, TLAPS

\* A write that overlaps no other is the only one, and what it has passed is
\* its genome.
AloneIsWhole ==
  \A p \in Writers \ clash :
    /\ Writers = {p}
    /\ \A k \in Indices : k < index[p] => chain[k] = Chunk(new[p], k)

\* A read that overlaps no write has copied the chain as far as it has come.
CopiesChain ==
  \A p \in Readers \ torn :
    /\ Quiet
    /\ Len(got[p]) = index[p]
    /\ \A k \in Indices : k < index[p] => chain[k] # NoChunk /\ got[p][k + 1] = chain[k]
    /\ pc[p] = "decide" => index[p] = MaxChunks \/ chain[index[p]] = NoChunk

Inv == TypeOK /\ AloneIsWhole /\ QuietIsWhole /\ CopiesChain
------------------------------------------------------------------------------
(* Chunks.                                                                  *)

LEMMA ChunkTypes ==
  ASSUME NEW g \in Genome
  PROVE  /\ Length[g] \in 1..MaxChunks
         /\ Chunks(g) \in Seq(Genome \X Indices) /\ Len(Chunks(g)) = Length[g]
         /\ \A k \in Indices : Chunk(g, k) \in (Genome \X Indices) \union {NoChunk}
<1> USE DnaAssumption
<1>1. Length[g] \in 1..MaxChunks
  OBVIOUS
<1> DEFINE n == Length[g]
           S == Genome \X Indices
<1>2. n \in Nat /\ \A k \in 1..n : <<g, k - 1>> \in S
  BY <1>1 DEF Indices
<1> HIDE DEF n, S
<1>3. [k \in 1..n |-> <<g, k - 1>>] \in Seq(S) /\ Len([k \in 1..n |-> <<g, k - 1>>]) = n
  BY <1>2
<1>4. \A k \in Indices : Chunk(g, k) \in (Genome \X Indices) \union {NoChunk}
  BY DEF Chunk
<1>. QED
  BY <1>1, <1>3, <1>4 DEF Chunks, n, S

LEMMA ChunksOf ==
  ASSUME NEW g \in Genome
  PROVE  \A k \in Indices :
           /\ Chunk(g, k) = NoChunk <=> k >= Length[g]
           /\ k < Length[g] => Chunks(g)[k + 1] = Chunk(g, k)
<1>1. Length[g] \in 1..MaxChunks /\ MaxChunks \in Nat
  BY ChunkTypes, DnaAssumption
<1>2. \A k : Len(<<g, k>>) = 2 /\ Len(NoChunk) = 0
  BY DEF NoChunk
<1>3. \A k : <<g, k>> # NoChunk
  BY <1>2
<1>. QED
  BY <1>1, <1>3 DEF Chunk, Chunks, Indices
------------------------------------------------------------------------------
(* Type correctness.                                                        *)

LEMMA InitialTypes ==
  ASSUME Init
  PROVE  TypeOK
  BY DnaAssumption DEF Init, TypeOK, Procs, Indices

\* Beginning to write.
LEMMA StartTypes ==
  ASSUME TypeOK, NEW p \in Procs, NEW g \in Genome, StartWrite(p, g)
  PROVE  /\ pc' \in [Procs -> {"idle", "read", "decide", "clear", "fill"}]
         /\ index' \in [Procs -> 0..MaxChunks] /\ new' \in [Procs -> Genome]
         /\ \A q \in Procs : pc'[q] = "fill" => index'[q] < MaxChunks
         /\ clash' \subseteq Procs /\ torn' \subseteq Procs
<1> USE DnaAssumption
<1>1. /\ pc' = [pc EXCEPT ![p] = "clear"]
      /\ index' = [index EXCEPT ![p] = 0] /\ new' = [new EXCEPT ![p] = g]
  BY DEF StartWrite, Goto
<1>2. /\ pc' \in [Procs -> {"idle", "read", "decide", "clear", "fill"}]
      /\ index' \in [Procs -> 0..MaxChunks] /\ new' \in [Procs -> Genome]
  BY <1>1 DEF TypeOK
<1>3. \A q \in Procs : pc'[q] = "fill" => index'[q] < MaxChunks
  BY <1>1 DEF TypeOK
<1>4. clash' \subseteq Procs /\ torn' \subseteq Procs
  BY DEF StartWrite, TypeOK, Writers, Readers
<1>. QED
  BY <1>2, <1>3, <1>4

LEMMA NextTypes ==
  ASSUME TypeOK, [Next]_vars
  PROVE  TypeOK'
<1> USE DnaAssumption
<1>1. ASSUME NEW p \in Procs, Tick(p)
      PROVE  TypeOK'
  <2>1. got' = [got EXCEPT ![p] = <<>>] /\ got \in [Procs -> Seq(Genome \X Indices)]
    BY <1>1 DEF Tick, TypeOK
  <2>2. <<>> \in Seq(Genome \X Indices)
    BY EmptySeq
  <2>3. got' \in [Procs -> Seq(Genome \X Indices)]
    BY <2>1, <2>2
  <2>4. calls' \in [Procs -> 0..MaxCalls]
    BY <1>1 DEF Tick, TypeOK
  <2>5. torn' \subseteq Procs
    BY <1>1 DEF Tick, TypeOK
  <2>6. /\ pc' \in [Procs -> {"idle", "read", "decide", "clear", "fill"}]
        /\ index' \in [Procs -> 0..MaxChunks]
        /\ \A q \in Procs : pc'[q] = "fill" => index'[q] < MaxChunks
    BY <1>1 DEF Tick, Goto, TypeOK
  <2>. QED
    BY <1>1, <2>3, <2>4, <2>5, <2>6 DEF Tick, TypeOK
<1>2. ASSUME NEW p \in Procs, Read(p)
      PROVE  TypeOK'
  <2>1. index[p] \in Indices /\ index[p] + 1 \in 0..MaxChunks
    BY <1>2 DEF Read, TypeOK, Indices
  <2>2. got' \in [Procs -> Seq(Genome \X Indices)]
    <3>1. CASE chain[index[p]] # NoChunk
      <4>1. got' = [got EXCEPT ![p] = Append(got[p], chain[index[p]])]
        BY <1>2, <3>1 DEF Read
      <4>2. got[p] \in Seq(Genome \X Indices) /\ chain[index[p]] \in Genome \X Indices
        BY <2>1, <3>1 DEF TypeOK
      <4>3. Append(got[p], chain[index[p]]) \in Seq(Genome \X Indices)
        BY <4>2, AppendProperties
      <4>. QED
        BY <4>1, <4>3 DEF TypeOK
    <3>. QED
      BY <1>2, <3>1 DEF Read, TypeOK
  <2>. QED
    BY <1>2, <2>1, <2>2 DEF Read, TypeOK, Goto, history
<1>3. ASSUME NEW p \in Procs, ReadAll(p) \/ KeepCurrent(p)
      PROVE  TypeOK'
  BY <1>3 DEF ReadAll, KeepCurrent, TypeOK, Goto, history
<1>4. CASE Interpret
  BY <1>4 DEF Interpret, TypeOK, Goto, history, Procs
<1>5. CASE Seed
  <2>1. Probe \in Procs /\ genome \in Genome
    BY DEF TypeOK, Procs
  <2>2. got' \in [Procs -> Seq(Genome \X Indices)]
    BY <1>5, <2>1, ChunkTypes DEF Seed, TypeOK
  <2>3. StartWrite(Probe, genome)
    BY <1>5 DEF Seed
  <2>4. /\ pc' \in [Procs -> {"idle", "read", "decide", "clear", "fill"}]
        /\ index' \in [Procs -> 0..MaxChunks] /\ new' \in [Procs -> Genome]
        /\ \A q \in Procs : pc'[q] = "fill" => index'[q] < MaxChunks
        /\ clash' \subseteq Procs /\ torn' \subseteq Procs
    BY <2>1, <2>3, StartTypes
  <2>5. /\ chain' = chain /\ genome' = genome /\ calls' = calls /\ last' = last
        /\ seeds' = seeds + 1
    BY <1>5 DEF Seed
  <2>. QED
    BY <2>2, <2>4, <2>5 DEF TypeOK
<1>6. CASE Adopt
  <2>1. PICK g \in Proposed : StartWrite(Probe, g)
    BY <1>6 DEF Adopt
  <2>2. Probe \in Procs /\ g \in Genome
    BY DEF Procs
  <2>3. calls' \in [Procs -> 0..MaxCalls]
    <3>1. /\ calls \in [Procs -> 0..MaxCalls] /\ calls[Probe] < MaxCalls
          /\ calls' = [calls EXCEPT ![Probe] = @ + 1]
      BY <1>6 DEF Adopt, TypeOK
    <3>2. calls[Probe] + 1 \in 0..MaxCalls
      BY <2>2, <3>1, DnaAssumption
    <3>. QED
      BY <2>2, <3>1, <3>2
  <2>4. /\ pc' \in [Procs -> {"idle", "read", "decide", "clear", "fill"}]
        /\ index' \in [Procs -> 0..MaxChunks] /\ new' \in [Procs -> Genome]
        /\ \A q \in Procs : pc'[q] = "fill" => index'[q] < MaxChunks
        /\ clash' \subseteq Procs /\ torn' \subseteq Procs
    BY <2>1, <2>2, StartTypes
  <2>5. UNCHANGED <<chain, genome, got, last, seeds>>
    BY <1>6 DEF Adopt
  <2>. QED
    BY <2>3, <2>4, <2>5 DEF TypeOK
<1>7. ASSUME NEW m \in Mutators, Mutate(m)
      PROVE  TypeOK'
  <2>1. PICK g \in Genome : StartWrite(m, g)
    BY <1>7 DEF Mutate
  <2>2. m \in Procs
    BY DEF Procs
  <2>. QED
    BY <1>7, <2>1, <2>2, StartTypes DEF Mutate, TypeOK
<1>8. ASSUME NEW p \in Procs, ClearChunk(p)
      PROVE  TypeOK'
  BY <1>8 DEF ClearChunk, TypeOK, Goto, history
<1>9. ASSUME NEW p \in Procs, FillChunk(p)
      PROVE  TypeOK'
  <2>1. index[p] \in Indices /\ new[p] \in Genome /\ index[p] + 1 \in 0..MaxChunks
    BY <1>9 DEF FillChunk, TypeOK, Indices
  <2>2. chain' \in [Indices -> (Genome \X Indices) \union {NoChunk}]
    BY <1>9, <2>1, ChunkTypes DEF FillChunk, TypeOK
  <2>. QED
    BY <1>9, <2>1, <2>2 DEF FillChunk, TypeOK, Goto, history
<1>10. ASSUME NEW p \in Procs, EndWrite(p)
       PROVE  TypeOK'
  BY <1>10 DEF EndWrite, TypeOK, Goto
<1>11. CASE UNCHANGED vars
  BY <1>11 DEF TypeOK, vars
<1>12. Mutators \subseteq Procs
  BY DEF Procs
<1>. QED
  BY <1>1, <1>2, <1>3, <1>4, <1>5, <1>6, <1>7, <1>8, <1>9, <1>10, <1>11, <1>12 DEF Next, Step
------------------------------------------------------------------------------
(* Reading.                                                                 *)

\* Process p, which does not write, goes to a step that does not write.
LEMMA StillNotWriting ==
  ASSUME TypeOK, NEW p \in Procs, NEW l, p \notin Writers, l \in {"idle", "read", "decide"},
         pc' = [pc EXCEPT ![p] = l], Inv, chain' = chain, last' = last, clash' = clash, new' = new,
         \A q \in Procs \ {p} : index'[q] = index[q]
  PROVE  Writers' = Writers /\ AloneIsWhole' /\ QuietIsWhole'
<1>1. Writers' = Writers
  BY DEF Writers, TypeOK
<1>2. \A q \in Writers : index'[q] = index[q]
  BY DEF Writers
<1>. QED
  BY <1>1, <1>2 DEF Inv, AloneIsWhole, QuietIsWhole, Quiet, Chunk, Stored

\* The other readers go on.
LEMMA OtherReaders ==
  ASSUME Inv, NEW p \in Procs, NEW l, pc' = [pc EXCEPT ![p] = l],
         chain' = chain, Writers' = Writers,
         torn \subseteq torn' \union {p},
         \A q \in Procs \ {p} : index'[q] = index[q] /\ got'[q] = got[q]
  PROVE  \A q \in (Readers' \ torn') \ {p} :
           /\ Quiet'
           /\ Len(got'[q]) = index'[q]
           /\ \A k \in Indices : k < index'[q] => chain'[k] # NoChunk /\ got'[q][k + 1] = chain'[k]
           /\ pc'[q] = "decide" => index'[q] = MaxChunks \/ chain'[index'[q]] = NoChunk
<1> SUFFICES ASSUME NEW q \in (Readers' \ torn') \ {p}
             PROVE  /\ Quiet'
                    /\ Len(got'[q]) = index'[q]
                    /\ \A k \in Indices :
                         k < index'[q] => chain'[k] # NoChunk /\ got'[q][k + 1] = chain'[k]
                    /\ pc'[q] = "decide" => index'[q] = MaxChunks \/ chain'[index'[q]] = NoChunk
  OBVIOUS
<1>1. q \in Procs /\ q # p /\ pc'[q] = pc[q]
  BY DEF Readers, Inv, TypeOK
<1>2. q \in Readers \ torn
  BY <1>1 DEF Readers
<1>. QED
  BY <1>1, <1>2 DEF Inv, CopiesChain, Quiet

LEMMA ReadSteps ==
  ASSUME Inv, TypeOK', NEW p \in Procs,
         Tick(p) \/ Read(p) \/ ReadAll(p) \/ KeepCurrent(p) \/ (p = Probe /\ Interpret)
  PROVE  Inv'
<1> USE DnaAssumption
<1>1. /\ chain' = chain /\ last' = last /\ clash' = clash /\ new' = new
      /\ \A q \in Procs \ {p} : index'[q] = index[q] /\ got'[q] = got[q]
      /\ torn \subseteq torn' \union {p}
  BY DEF Tick, Read, ReadAll, KeepCurrent, Interpret, history, Inv, TypeOK
<1>2. PICK l \in {"idle", "read", "decide"} : p \notin Writers /\ pc' = [pc EXCEPT ![p] = l]
  <2>1. CASE Read(p) /\ chain[index[p]] # NoChunk
    <3>1. pc' = [pc EXCEPT ![p] = "read"]
      BY <2>1 DEF Read, Inv, TypeOK
    <3>. QED
      BY <2>1, <3>1 DEF Read, Writers
  <2>. QED
    BY <2>1 DEF Tick, Read, ReadAll, KeepCurrent, Interpret, Goto, Writers
<1>3. Writers' = Writers /\ AloneIsWhole' /\ QuietIsWhole'
  BY <1>1, <1>2, StillNotWriting DEF Inv
<1>4. \A q \in (Readers' \ torn') \ {p} :
        /\ Quiet'
        /\ Len(got'[q]) = index'[q]
        /\ \A k \in Indices : k < index'[q] => chain'[k] # NoChunk /\ got'[q][k + 1] = chain'[k]
        /\ pc'[q] = "decide" => index'[q] = MaxChunks \/ chain'[index'[q]] = NoChunk
  BY <1>1, <1>2, <1>3, OtherReaders
<1>5. ASSUME p \in Readers' \ torn'
      PROVE  /\ Quiet'
             /\ Len(got'[p]) = index'[p]
             /\ \A k \in Indices : k < index'[p] => chain'[k] # NoChunk /\ got'[p][k + 1] = chain'[k]
             /\ pc'[p] = "decide" => index'[p] = MaxChunks \/ chain'[index'[p]] = NoChunk
  <2>1. CASE Tick(p)
    <3>1. Quiet'
      BY <1>3, <1>5, <2>1 DEF Tick, Quiet, Inv, TypeOK
    <3>2. got'[p] = <<>> /\ index'[p] = 0 /\ pc'[p] = "read"
      BY <2>1 DEF Tick, Goto, Inv, TypeOK
    <3>. QED
      BY <3>1, <3>2 DEF Indices
  <2>2. CASE Read(p) \/ ReadAll(p)
    <3>1. p \in Readers \ torn
      BY <1>5, <2>2 DEF Read, ReadAll, Readers, history
    <3>2. /\ Quiet /\ Len(got[p]) = index[p]
          /\ \A k \in Indices : k < index[p] => chain[k] # NoChunk /\ got[p][k + 1] = chain[k]
      BY <3>1 DEF Inv, CopiesChain
    <3>3. index[p] \in 0..MaxChunks /\ got[p] \in Seq(Genome \X Indices)
      BY DEF Inv, TypeOK
    <3>4. CASE Read(p) /\ chain[index[p]] # NoChunk
      <4>1. /\ got'[p] = Append(got[p], chain[index[p]]) /\ index'[p] = index[p] + 1
            /\ pc'[p] = "read" /\ index[p] \in Indices /\ chain[index[p]] \in Genome \X Indices
        BY <3>3, <3>4 DEF Read, Inv, TypeOK, Indices
      <4>2. /\ Len(got'[p]) = index[p] + 1 /\ got'[p][index[p] + 1] = chain[index[p]]
            /\ \A k \in 1..index[p] : got'[p][k] = got[p][k]
        BY <3>2, <3>3, <4>1
      <4>3. \A k \in Indices : k < index[p] + 1 => k = index[p] \/ (k < index[p] /\ k + 1 \in 1..index[p])
        BY <3>3 DEF Indices
      <4>. QED
        BY <1>1, <1>3, <3>2, <3>4, <4>1, <4>2, <4>3 DEF Quiet
    <3>5. CASE ReadAll(p) \/ chain[index[p]] = NoChunk
      BY <1>1, <1>3, <2>2, <3>2, <3>5 DEF Read, ReadAll, Quiet
    <3>. QED
      BY <2>2, <3>4, <3>5
  <2>3. CASE KeepCurrent(p) \/ (p = Probe /\ Interpret)
    BY <1>5, <2>3 DEF KeepCurrent, Interpret, Goto, Readers, Inv, TypeOK
  <2>. QED
    BY <2>1, <2>2, <2>3
<1>6. CopiesChain'
  BY <1>4, <1>5 DEF CopiesChain
<1>. QED
  BY <1>3, <1>6 DEF Inv
------------------------------------------------------------------------------
(* Writing.                                                                 *)

LEMMA StartSteps ==
  ASSUME Inv, TypeOK', NEW p \in Procs, NEW g \in Genome, p \notin Writers, StartWrite(p, g),
         chain' = chain, last' = last, \A q \in Procs \ {p} : got'[q] = got[q]
  PROVE  Inv'
<1> USE DnaAssumption
<1>1. /\ Writers' = Writers \union {p} /\ Readers' = Readers \ {p}
      /\ clash' = IF Writers = {} THEN clash \ {p} ELSE clash \union Writers \union {p}
      /\ torn' = torn \union (Readers \ {p})
      /\ index'[p] = 0
  <2>1. /\ pc' = [pc EXCEPT ![p] = "clear"] /\ index' = [index EXCEPT ![p] = 0]
        /\ pc \in [Procs -> {"idle", "read", "decide", "clear", "fill"}]
        /\ index \in [Procs -> 0..MaxChunks]
    BY DEF StartWrite, Goto, Inv, TypeOK
  <2>2. Writers' = Writers \union {p} /\ Readers' = Readers \ {p}
    BY <2>1 DEF Writers, Readers
  <2>3. /\ clash' = IF Writers = {} THEN clash \ {p} ELSE clash \union Writers \union {p}
        /\ torn' = torn \union (Readers \ {p})
    BY DEF StartWrite
  <2>. QED
    BY <2>1, <2>2, <2>3
<1>2. AloneIsWhole'
  BY <1>1 DEF AloneIsWhole, Indices
<1>3. QuietIsWhole'
  BY <1>1 DEF QuietIsWhole, Quiet
<1>4. CopiesChain'
  BY <1>1 DEF CopiesChain
<1>. QED
  BY <1>2, <1>3, <1>4 DEF Inv

\* While somebody writes, no read is untouched.
LEMMA NoUntouchedReader ==
  ASSUME Inv, NEW p \in Writers
  PROVE  Readers \subseteq torn
  BY DEF Inv, CopiesChain, Quiet

LEMMA SlotSteps ==
  ASSUME Inv, TypeOK', NEW p \in Procs, ClearChunk(p) \/ FillChunk(p)
  PROVE  Inv'
<1> USE DnaAssumption
<1>1. p \in Writers /\ index[p] \in Indices
  BY DEF ClearChunk, FillChunk, Writers, Inv, TypeOK, Indices
<1>2. /\ Writers' = Writers /\ Readers' = Readers
      /\ clash' = clash /\ torn' = torn /\ last' = last /\ new' = new
  BY DEF ClearChunk, FillChunk, Goto, Writers, Readers, history, Inv, TypeOK
<1>3. ASSUME NEW q \in Writers \ clash
      PROVE  /\ Writers = {q}
             /\ \A k \in Indices : k < index'[q] => chain'[k] = Chunk(new[q], k)
  <2>1. Writers = {q} /\ q = p
    BY <1>1, <1>3 DEF Inv, AloneIsWhole
  <2>2. \A k \in Indices : k < index[q] => chain[k] = Chunk(new[q], k)
    BY <1>3 DEF Inv, AloneIsWhole
  <2>3. CASE ClearChunk(p)
    <3>1. /\ index' = index
          /\ \A k \in Indices : k # index[p] => chain'[k] = chain[k]
      BY <2>3 DEF ClearChunk, Inv, TypeOK
    <3>. QED
      BY <1>1, <2>1, <2>2, <3>1 DEF Indices
  <2>4. CASE FillChunk(p)
    <3>1. /\ index'[p] = index[p] + 1
          /\ \A k \in Indices :
               chain'[k] = IF k = index[p] THEN Chunk(new[p], index[p]) ELSE chain[k]
      BY <2>4 DEF FillChunk, Inv, TypeOK
    <3>. QED
      BY <1>1, <2>1, <2>2, <3>1 DEF Indices
  <2>. QED
    BY <2>1, <2>3, <2>4
<1>4. AloneIsWhole'
  BY <1>2, <1>3 DEF AloneIsWhole, Chunk
<1>5. QuietIsWhole'
  BY <1>1, <1>2 DEF QuietIsWhole, Quiet
<1>6. CopiesChain'
  BY <1>1, <1>2, NoUntouchedReader DEF CopiesChain
<1>. QED
  BY <1>4, <1>5, <1>6 DEF Inv

LEMMA EndStep ==
  ASSUME Inv, TypeOK', NEW p \in Procs, EndWrite(p)
  PROVE  Inv'
<1> USE DnaAssumption
<1>1. p \in Writers /\ index[p] = MaxChunks
  BY DEF EndWrite, Written, Writers
<1>2. /\ Writers' = Writers \ {p} /\ Readers' = Readers
      /\ chain' = chain /\ index' = index /\ clash' = clash /\ torn' = torn /\ new' = new
      /\ last' = IF p \in clash THEN {} ELSE {new[p]}
  BY DEF EndWrite, Goto, Writers, Readers, Inv, TypeOK
<1>3. AloneIsWhole'
  BY <1>1, <1>2 DEF Inv, AloneIsWhole
<1>4. QuietIsWhole'
  <2>1. ASSUME p \notin clash
        PROVE  chain = Stored(new[p])
    <3>1. \A k \in Indices : chain[k] = Chunk(new[p], k)
      BY <1>1, <2>1 DEF Inv, AloneIsWhole, Indices
    <3>. QED
      BY <3>1 DEF Stored, Inv, TypeOK
  <2>. QED
    BY <1>2, <2>1 DEF QuietIsWhole, Stored, Chunk
<1>5. CopiesChain'
  BY <1>1, <1>2, NoUntouchedReader DEF CopiesChain
<1>. QED
  BY <1>3, <1>4, <1>5 DEF Inv
------------------------------------------------------------------------------
(* The invariant and the theorems.                                          *)

LEMMA InitialInv ==
  ASSUME Init
  PROVE  Inv
  BY InitialTypes DEF Init, Inv, AloneIsWhole, QuietIsWhole, CopiesChain, Writers, Readers

LEMMA NextInv ==
  ASSUME Inv, [Next]_vars
  PROVE  Inv'
<1> USE DnaAssumption
<1>1. TypeOK'
  BY NextTypes DEF Inv
<1>2. Probe \in Procs /\ Mutators \subseteq Procs
  BY DEF Procs
<1>3. CASE UNCHANGED vars
  <2>1. /\ chain' = chain /\ pc' = pc /\ index' = index /\ got' = got /\ new' = new
        /\ last' = last /\ clash' = clash /\ torn' = torn
    BY <1>3 DEF vars
  <2>2. Writers' = Writers /\ Readers' = Readers
    BY <2>1 DEF Writers, Readers
  <2>3. AloneIsWhole' /\ QuietIsWhole'
    BY <2>1, <2>2 DEF Inv, AloneIsWhole, QuietIsWhole, Quiet, Chunk, Stored
  <2>4. CopiesChain'
    BY <2>1, <2>2 DEF Inv, CopiesChain, Quiet
  <2>. QED
    BY <1>1, <2>3, <2>4 DEF Inv
<1>4. CASE Seed
  <2>1. Probe \notin Writers /\ genome \in Genome
    BY <1>4 DEF Seed, Writers, Inv, TypeOK
  <2>2. \A q \in Procs \ {Probe} : got'[q] = got[q]
    BY <1>4 DEF Seed, Inv, TypeOK
  <2>. QED
    BY <1>1, <1>2, <1>4, <2>1, <2>2, StartSteps DEF Seed
<1>5. CASE Adopt
  <2>1. PICK g \in Proposed : StartWrite(Probe, g)
    BY <1>5 DEF Adopt
  <2>2. Probe \notin Writers /\ g \in Genome
    BY <1>5 DEF Adopt, Writers
  <2>. QED
    BY <1>1, <1>2, <1>5, <2>1, <2>2, StartSteps DEF Adopt
<1>6. ASSUME NEW m \in Mutators, Mutate(m)
      PROVE  Inv'
  <2>1. PICK g \in Genome : StartWrite(m, g)
    BY <1>6 DEF Mutate
  <2>2. m \notin Writers
    BY <1>6 DEF Mutate, Writers
  <2>. QED
    BY <1>1, <1>2, <1>6, <2>1, <2>2, StartSteps DEF Mutate
<1>. QED
  BY <1>1, <1>2, <1>3, <1>4, <1>5, <1>6, ReadSteps, SlotSteps, EndStep DEF Next, Step

\* Type correctness of the chain and of the processes that use it.
THEOREM Typing == Spec => []TypeOK
<1>1. Inv => TypeOK
  BY DEF Inv
<1>. QED
  BY <1>1, InitialInv, NextInv, PTL DEF Spec

\* dna_storage.py, write: a genome written while nobody else writes is in the
\* chain, whole and with nothing after it, until the next write begins.
THEOREM LoneWriteIsWhole == Spec => []QuietIsWhole
<1>1. Inv => QuietIsWhole
  BY DEF Inv
<1>. QED
  BY <1>1, InitialInv, NextInv, PTL DEF Spec

\* dna_storage.py, read: who reads while nobody writes gets that genome.
THEOREM QuietReads == Spec => []QuietReadsAreWhole
<1>1. ASSUME Inv
      PROVE  QuietReadsAreWhole
  <2> USE DnaAssumption
  <2> SUFFICES ASSUME NEW p \in Procs \ torn, pc[p] = "decide", NEW g \in last
               PROVE  got[p] = Chunks(g)
    BY DEF QuietReadsAreWhole
  <2>1. g \in Genome /\ got[p] \in Seq(Genome \X Indices) /\ index[p] \in 0..MaxChunks
    BY <1>1 DEF Inv, TypeOK
  <2>2. /\ Quiet /\ Len(got[p]) = index[p]
        /\ \A k \in Indices : k < index[p] => chain[k] # NoChunk /\ got[p][k + 1] = chain[k]
        /\ index[p] = MaxChunks \/ chain[index[p]] = NoChunk
    BY <1>1 DEF Inv, CopiesChain, Readers
  <2>3. \A k \in Indices : chain[k] = Chunk(g, k)
    BY <1>1, <2>2 DEF Inv, QuietIsWhole, Stored
  <2>4. Length[g] \in 1..MaxChunks /\ Chunks(g) \in Seq(Genome \X Indices)
          /\ Len(Chunks(g)) = Length[g]
    BY <2>1, ChunkTypes
  <2>0. \A k \in Indices :
          /\ Chunk(g, k) = NoChunk <=> k >= Length[g]
          /\ k < Length[g] => Chunks(g)[k + 1] = Chunk(g, k)
    BY <2>1, ChunksOf
  <2>5. \A k \in Indices : k < index[p] => k < Length[g]
    <3>1. ASSUME NEW k \in Indices, k < index[p]
          PROVE  k < Length[g]
      <4>1. k \in Int /\ Length[g] \in Int
        BY <2>4 DEF Indices
      <4>2. ~(k >= Length[g])
        BY <2>0, <2>2, <2>3, <3>1
      <4>. QED
        BY <4>1, <4>2
    <3>. QED
      BY <3>1
  <2>6. index[p] >= Length[g]
    <3>1. CASE index[p] = MaxChunks
      BY <2>4, <3>1
    <3>2. CASE index[p] # MaxChunks
      <4>1. index[p] \in Indices
        BY <2>1, <3>2 DEF Indices
      <4>2. Chunk(g, index[p]) = NoChunk
        BY <2>2, <2>3, <3>2, <4>1
      <4>. QED
        BY <2>0, <4>1, <4>2
    <3>. QED
      BY <3>1, <3>2
  <2>7. index[p] = Length[g]
    <3>1. index[p] \in 1..MaxChunks /\ MaxChunks \in Nat
      BY <2>1, <2>4, <2>6
    <3>2. index[p] - 1 \in Indices /\ index[p] - 1 < index[p]
      BY <3>1 DEF Indices
    <3>3. index[p] - 1 < Length[g]
      BY <2>5, <3>2
    <3>. QED
      BY <2>4, <2>6, <3>1, <3>3
  <2>8. \A k \in 1..Length[g] : got[p][k] = Chunks(g)[k]
    <3>1. ASSUME NEW k \in 1..Length[g]
          PROVE  got[p][k] = Chunks(g)[k]
      <4>1. k - 1 \in Indices /\ k - 1 < Length[g] /\ (k - 1) + 1 = k
        <5>1. Length[g] \in 1..MaxChunks /\ MaxChunks \in Nat /\ k \in 1..Length[g]
          BY <2>4
        <5> HIDE DnaAssumption
        <5>. QED
          BY <5>1 DEF Indices
      <4>2. got[p][(k - 1) + 1] = Chunk(g, k - 1)
        BY <2>2, <2>3, <2>7, <4>1
      <4>3. Chunks(g)[(k - 1) + 1] = Chunk(g, k - 1)
        BY <2>0, <4>1
      <4>. QED
        BY <4>1, <4>2, <4>3
    <3>. QED
      BY <3>1
  <2> DEFINE S == Genome \X Indices
  <2>9. got[p] \in Seq(S) /\ Chunks(g) \in Seq(S)
    BY <2>1, <2>4
  <2>10. Len(got[p]) = Len(Chunks(g)) /\ \A k \in 1..Len(got[p]) : got[p][k] = Chunks(g)[k]
    BY <2>2, <2>4, <2>7, <2>8
  <2> HIDE DEF S
  <2>. QED
    BY <2>9, <2>10, SeqEqual
<1>. QED
  BY <1>1, InitialInv, NextInv, PTL DEF Spec
=============================================================================
