------------------------------ MODULE Evolution ------------------------------
(***************************************************************************)
(* The search for genomes: one parent and a generation of mutants, over    *)
(* genomes themselves (src/swarm/evolve.py) or over slots that each decode *)
(* to a token or to nothing (src/swarm/evolve_vec.py).  The best genome    *)
(* ever is kept in an archive, and a parent that gets nowhere starts again *)
(* from it.  The mutator agent's cycle is one generation in DnaChain.      *)
(***************************************************************************)
EXTENDS Integers, Sequences, SequencesExt, FiniteSetsExt

CONSTANTS
  Rating(_),      \* score(genome, scenarios)["score"]
  Optimum,        \* the score from which evolve_vec prefers the shorter genome
  Tokens,         \* what an insertion puts in: sequences of characters
  Alphabet,       \* the tokens a slot decodes to: sequences of characters
  Tags,           \* sets of characters that a swap exchanges for one another
  Initial,        \* the genome the search starts from
  InitialSlots,   \* and the slots, as tokens
  MaxLen,         \* the most characters of a genome, or slots
  MaxOps,         \* the most mutations of a child
  Lambda,         \* the children of a generation
  StallLimit,     \* the generations until the parent starts again
  Generations     \* bound: the generations

ASSUME EvolutionAssumption == Lambda \in Nat \ {0} /\ MaxOps \in Nat

NoOp == <<>>      \* the token of a slot that decodes to nothing

VARIABLES
  rule,         \* which of the two searches: "rpn" or "vec"
  parent,
  best,         \* the archive
  stall,        \* generations without a better genome in the archive
  generation,
  highest       \* history: the highest score so far

evolutionVars == <<rule, parent, best, stall, generation, highest>>

\* What is scored, and what ships, is a sequence of characters.
Decode(g) == IF rule = "vec" THEN FlattenSeq(g) ELSE g
ScoreOf(g) == Rating(Decode(g))
Length(g) == Len(Decode(g))
------------------------------------------------------------------------------
\* The mutations of a genome: a token somewhere, one character less, a tag for
\* another of its kind.
Inserted(g, tokens) ==
  UNION {{SubSeq(g, 1, p) \o t \o SubSeq(g, p + 1, Len(g)) : t \in tokens} : p \in 0..Len(g)}
Deleted(g) == {RemoveAt(g, p) : p \in DOMAIN g}
Swapped(g) ==
  UNION {{ReplaceAt(g, p, t) : t \in UNION {S \ {g[p]} : S \in {K \in Tags : g[p] \in K}}} :
           p \in DOMAIN g}

\* One to MaxOps of them, each of which may find nothing to do; then the genome
\* is cut to length.
Mutated(S) == S \union UNION {Inserted(g, Tokens) \union Deleted(g) \union Swapped(g) : g \in S}
Mutants(g) ==
  LET after[n \in 0..MaxOps] == IF n = 0 THEN {g} ELSE Mutated(after[n - 1])
  IN {SubSeq(h, 1, Min({Len(h), MaxLen})) : h \in after[MaxOps]}

\* Over slots: one more, unless there are too many, one less, or one moved, which
\* may come to decode to any token.
Slots == Alphabet \union {NoOp}
Moved(g) ==
  (IF Len(g) < MaxLen THEN Inserted(g, {<<t>> : t \in Slots}) ELSE {})
  \union Deleted(g)
  \union (UNION {{ReplaceAt(g, p, t) : t \in Slots} : p \in DOMAIN g})
  \union (IF g = <<>> THEN {g} ELSE {})

Children(g) == IF rule = "rpn" THEN Mutants(g) ELSE Moved(g)
------------------------------------------------------------------------------
Shortest(S) == {g \in S : \A h \in S : Length(g) <= Length(h)}

\* Mutant: the shortest child is taken for the best.
SuccessorsShort(pool) == Shortest(pool)

\* The parents that may follow, _best_parent and _select: on a better score a
\* shortest child of that score, on an equal one by chance another child, a
\* shortest one if genomes are searched.
Successors(pool) ==
  LET top == Max({ScoreOf(c) : c \in pool})
      different == {c \in pool : ScoreOf(c) = top /\ Decode(c) # Decode(parent)}
  IN CASE different # {} /\ top > ScoreOf(parent) -> Shortest(different)
       [] different # {} /\ top = ScoreOf(parent) ->
            {parent} \union (IF rule = "rpn" THEN Shortest(different) ELSE different)
       [] OTHER -> {parent}

\* Mutant: of genomes of one score that with fewer slots is archived, whatever
\* they decode to.
ImprovesSlots(g) ==
  \/ ScoreOf(g) > ScoreOf(best)
  \/ /\ ScoreOf(g) = ScoreOf(best) /\ Len(g) < Len(best)
     /\ rule = "rpn" \/ ScoreOf(g) >= Optimum

\* Whether a parent goes to the archive.
Improves(g) ==
  \/ ScoreOf(g) > ScoreOf(best)
  \/ /\ ScoreOf(g) = ScoreOf(best) /\ Length(g) < Length(best)
     /\ rule = "rpn" \/ ScoreOf(g) >= Optimum

EvolutionInit ==
  /\ rule \in {"rpn", "vec"}
  /\ parent = (IF rule = "vec" THEN InitialSlots ELSE Initial) /\ best = parent
  /\ stall = 0 /\ generation = 0 /\ highest = ScoreOf(parent)

\* A generation: children, selection, archive, and perhaps a restart.
Generation(pool, next) ==
  /\ generation < Generations /\ generation' = generation + 1
  /\ highest' = Max({highest} \union {ScoreOf(c) : c \in pool})
  /\ UNCHANGED rule
  /\ \/ /\ Improves(next)
        /\ parent' = next /\ best' = next /\ stall' = 0
     \/ /\ ~Improves(next) /\ stall + 1 < StallLimit
        /\ parent' = next /\ stall' = stall + 1 /\ UNCHANGED best
     \/ /\ ~Improves(next) /\ stall + 1 >= StallLimit
        /\ parent' = best /\ stall' = 0 /\ UNCHANGED best

EvolutionNext ==
  \E children \in [1..Lambda -> Children(parent)] :
    \E next \in Successors(ToSet(children)) : Generation(ToSet(children), next)

EvolutionSpec == EvolutionInit /\ [][EvolutionNext]_evolutionVars
------------------------------------------------------------------------------
\* Drift and restarts lose nothing that was gained: the archive has the highest
\* score of all genomes ever tried, not of the parents only, the parent has that
\* score too, and none of that score that is shorter has been a parent, in the search
\* over genomes and, from the optimum on, in that over slots.
ArchiveIsBest ==
  /\ ScoreOf(best) = highest /\ ScoreOf(parent) = highest
  /\ rule = "rpn" \/ highest >= Optimum => Length(best) <= Length(parent)
==============================================================================
