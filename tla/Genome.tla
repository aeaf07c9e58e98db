------------------------------- MODULE Genome --------------------------------
(***************************************************************************)
(* The genome interpreter (src/swarm/genome.py, interpret): a stack        *)
(* machine over the characters of a genome.  One action per branch of its  *)
(* loop.  Readings are integers instead of floats.                         *)
(***************************************************************************)
EXTENDS Integers, Sequences, SequencesExt, FiniteSetsExt

CONSTANTS
  Inputs,      \* the genomes interpreted, sequences of characters, with the
               \* readings they are interpreted against, by frame key
  Opcodes,     \* the probe's load table: first character, signature, frame key
  MaxStack     \* the stack's capacity

ASSUME GenomeAssumption ==
  /\ MaxStack \in Nat
  /\ \A in \in Inputs :
       in[1] \in Seq(STRING) /\ \A key \in DOMAIN in[2] : in[2][key] \in Nat

SevTags == [O |-> "OK", I |-> "INFO", W |-> "WARN", C |-> "CRITICAL"]
CodeTags == [o |-> "OK", a |-> "SWAP_ABSENT", w |-> "MEM_PSI_WARN",
             n |-> "MEM_PSI_CRIT_NOSW", c |-> "MEM_PSI_CRIT",
             l |-> "MEM_LVL_WARN", L |-> "MEM_LVL_CRIT_NOSW",
             d |-> "CLUSTER_DEGRADED", g |-> "GATE_DOWN", p |-> "POD_PRESSURE",
             x |-> "NODE_NOT_READY"]

\* dict.get(key, default)
Get(f, x, default) == IF x \in DOMAIN f THEN f[x] ELSE default

Decimal == <<"0", "1", "2", "3", "4", "5", "6", "7", "8", "9">>
DecimalDigits == ToSet(Decimal)
DigitValue(ch) == (CHOOSE d \in DOMAIN Decimal : Decimal[d] = ch) - 1

\* str.isdigit is also true of characters that int does not accept, such as the
\* superscripts.
Superscript == "^2"
IsDigit(ch) == ch \in DecimalDigits \union {Superscript}

VARIABLES
  genome, frame,   \* the arguments of the call
  i,               \* the index of the next character, counted from one
  stack,           \* the last element is the top
  verdict          \* the severity and code returned, or why there is none yet

vars == <<genome, frame, i, stack, verdict>>

Running == <<"running">>
Raised == <<"raised">>

Start(g, f) ==
  /\ genome = g /\ frame = f
  /\ i = 1 /\ stack = <<>> /\ verdict = Running

Init == \E in \in Inputs : Start(in[1], in[2])

\* Mutant: the stack has no bound.
PushAlways(st, v) == Append(st, v)

Push(st, v) == IF Len(st) < MaxStack THEN Append(st, v) ELSE st
Truth(b) == IF b THEN 1 ELSE 0

\* Mutant: a missing operand counts as one.
TopOrOne(st) == IF st = <<>> THEN 1 ELSE Last(st)

\* pop: zero on an empty stack.
Top(st) == IF st = <<>> THEN 0 ELSE Last(st)
Rest(st) == IF st = <<>> THEN st ELSE Front(st)

Ch == genome[i]
At(op) == verdict = Running /\ i <= Len(genome) /\ Ch \in op
Then(st, next) == stack' = st /\ i' = next /\ UNCHANGED <<genome, frame, verdict>>
Return(v) == verdict' = v /\ UNCHANGED <<genome, frame, i, stack>>
------------------------------------------------------------------------------
Separator ==
  /\ At({";"})
  /\ Then(<<>>, i + 1)

\* The condition is true and both tags are there.
Fires == Top(stack) > 0 /\ i + 2 <= Len(genome)

Emit ==
  /\ At({"->"}) /\ Fires
  /\ Return(<<Get(SevTags, genome[i + 1], "OK"), Get(CodeTags, genome[i + 2], "OK")>>)

\* Mutant: the tags of a rule that did not fire are not skipped.
EmitNotStay ==
  /\ At({"->"}) /\ ~Fires
  /\ Then(Rest(stack), i)

EmitNot ==
  /\ At({"->"}) /\ ~Fires
  /\ Then(Rest(stack), i + 3)

IsLoad == Ch \in DOMAIN Opcodes /\ i + 1 <= Len(genome)

Load ==
  /\ At(DOMAIN Opcodes) /\ IsLoad
  /\ LET table == Opcodes[Ch]
         sig == genome[i + 1]
     IN Then(IF sig \in DOMAIN table
             THEN Push(stack, Get(frame, table[sig], 0)) ELSE stack,
             i + 2)

\* The digits that follow position p.
DigitRun(p) ==
  LET stop == Min({q \in (p + 1)..(Len(genome) + 1) :
                     q = Len(genome) + 1 \/ ~IsDigit(genome[q])})
  IN SubSeq(genome, p + 1, stop - 1)

Number(digits) == FoldLeft(LAMBDA acc, d : 10 * acc + DigitValue(d), 0, digits)

\* Converting the text of a number fails on a digit that is not decimal.
Converts(digits) == ToSet(digits) \subseteq DecimalDigits

Integer ==
  /\ At({"#"})
  /\ IF Converts(DigitRun(i))
     THEN Then(Push(stack, Number(DigitRun(i))), i + 1 + Len(DigitRun(i)))
     ELSE Return(Raised)

Digit ==
  /\ At({Ch}) /\ IsDigit(Ch)
  /\ IF Converts(<<Ch>>) THEN Then(Push(stack, DigitValue(Ch)), i + 1)
     ELSE Return(Raised)

Comparators == {">", "<", ">=", "<=", "=", "/="}

Holds(op, a, b) ==
  CASE op = ">"  -> a > b
    [] op = "<"  -> a < b
    [] op = ">=" -> a >= b
    [] op = "<=" -> a <= b
    [] op = "="  -> a = b
    [] op = "/=" -> a # b

Compare ==
  /\ At(Comparators)
  /\ LET b == Top(stack)
         a == Top(Rest(stack))
     IN Then(Push(Rest(Rest(stack)), Truth(Holds(Ch, a, b))), i + 1)

And ==
  /\ At({"and"})
  /\ LET both == Top(stack) > 0 /\ Top(Rest(stack)) > 0
     IN Then(Push(Rest(Rest(stack)), Truth(both)), i + 1)

Or ==
  /\ At({"or"})
  /\ LET either == Top(stack) > 0 \/ Top(Rest(stack)) > 0
     IN Then(Push(Rest(Rest(stack)), Truth(either)), i + 1)

Not ==
  /\ At({"not"})
  /\ Then(Push(Rest(stack), Truth(Top(stack) = 0)), i + 1)

Known == {";", "->", "#", "and", "or", "not"} \union Comparators

\* Any other character, and a load character at the very end.
Unknown ==
  /\ At({Ch})
  /\ Ch \notin Known /\ ~IsDigit(Ch) /\ ~IsLoad
  /\ Then(stack, i + 1)

\* The genome ended and no rule fired.
Finish ==
  /\ verdict = Running /\ i > Len(genome)
  /\ Return(<<"OK", "OK">>)

Next ==
  \/ Separator \/ Emit \/ EmitNot \/ Load \/ Integer \/ Digit
  \/ Compare \/ And \/ Or \/ Not \/ Unknown \/ Finish

Spec == Init /\ [][Next]_vars /\ WF_vars(Next)
------------------------------------------------------------------------------
Verdicts == {SevTags[x] : x \in DOMAIN SevTags} \X {CodeTags[x] : x \in DOMAIN CodeTags}

TypeOK ==
  /\ i \in 1..(Len(genome) + 3)
  /\ stack \in Seq(Nat) /\ Len(stack) <= MaxStack
  /\ verdict \in Verdicts \union {Running, Raised}

\* Whatever the genome, mutated or torn, the interpreter comes to a verdict.
Decides == <>(verdict \in Verdicts)

\* genome.py:77: "Return (sev, code). Never raises."
NeverRaises == verdict # Raised
==============================================================================
