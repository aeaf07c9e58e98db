--------------------------- MODULE SequentialProofs --------------------------
(***************************************************************************)
(* Theorems about the sequential parts: the genome interpreter, the split  *)
(* of a genome into chunks, the search, the window of the probes and the   *)
(* rates.  They are about folds, so the first sections prove the principle *)
(* of induction as a fact about sets of numbers, and from it what a fold   *)
(* over a finite set computes.  The later sections run every genome that    *)
(* ships on whatever its probe reads, score every scenario, and conclude   *)
(* what the run of MCSequential checks.                                    *)
(***************************************************************************)
EXTENDS MCSequential, FiniteSetTheorems, SequenceTheorems, TLAPS

(***************************************************************************)
(* Induction.                                                              *)
(***************************************************************************)

NatBelow == {pair \in Nat \X Nat : pair[1] < pair[2]}

LEMMA LeastNumber ==
  ASSUME NEW S \in SUBSET Nat, S # {}
  PROVE  \E n \in S : \A m \in S : n <= m
<1>1. IsWellFoundedOn(NatBelow, Nat)
  BY NatLessThanWellFounded DEF OpToRel, NatBelow
<1>2. S \subseteq Nat
  OBVIOUS
<1>3. PICK n \in S : \A m \in S : ~ (<<m, n>> \in NatBelow)
  BY <1>1, <1>2, WFMin
<1>4. ASSUME NEW m \in S PROVE n <= m
  <2>1. ~ (m < n)
    BY <1>2, <1>3 DEF NatBelow
  <2>. QED
    BY <1>2, <2>1
<1>. QED
  BY <1>4

\* What holds of zero and of the successor of every number it holds of holds
\* of every number.
LEMMA Induction ==
  ASSUME NEW S, 0 \in S, \A n \in Nat : n \in S => n + 1 \in S
  PROVE  Nat \subseteq S
<1>. SUFFICES ASSUME Nat \ S # {} PROVE FALSE
  OBVIOUS
<1>1. PICK n \in Nat \ S : \A m \in Nat \ S : n <= m
  BY LeastNumber
<1>2. n - 1 \in Nat /\ n - 1 \notin Nat \ S
  BY <1>1
<1>. QED
  BY <1>1, <1>2

\* Induction on the subsets of a finite set.
LEMMA SetInduction ==
  ASSUME NEW D, IsFiniteSet(D), NEW P, {} \in P,
         \A S \in SUBSET D : S # {} /\ (\A x \in S : S \ {x} \in P) => S \in P
  PROVE  SUBSET D \subseteq P
<1>. DEFINE Q == {n \in Nat : \A S \in SUBSET D : Cardinality(S) = n => S \in P}
<1>1. \A S \in SUBSET D : IsFiniteSet(S) /\ Cardinality(S) \in Nat
  BY FS_Subset, FS_CardinalityType
<1>2. 0 \in Q
  BY <1>1, FS_EmptySet
<1>3. ASSUME NEW n \in Nat, n \in Q PROVE n + 1 \in Q
  <2>1. ASSUME NEW S \in SUBSET D, Cardinality(S) = n + 1 PROVE S \in P
    <3>1. S # {}
      <4>1. IsFiniteSet(S) /\ Cardinality(S) # 0
        BY <1>1, <2>1
      <4>. QED
        BY <4>1, FS_EmptySet
    <3>2. ASSUME NEW x \in S PROVE S \ {x} \in P
      <4>1. Cardinality(S \ {x}) = n
        BY <1>1, <2>1, FS_RemoveElement
      <4>. QED
        BY <4>1, <1>3
    <3>. QED
      BY <3>1, <3>2, <1>1
  <2>. QED
    BY <2>1
<1>4. Nat \subseteq Q
  <2>. HIDE DEF Q
  <2>. QED
    BY <1>2, <1>3, Induction
<1>. QED
  BY <1>1, <1>4

------------------------------------------------------------------------------
(***************************************************************************)
(* The largest and the smallest of finitely many integers.                 *)
(***************************************************************************)

\* The values of a function on a finite set are finitely many.
LEMMA ImageFinite ==
  ASSUME NEW D, IsFiniteSet(D), NEW f
  PROVE  IsFiniteSet({f[x] : x \in D})
<1>. DEFINE P == {S \in SUBSET D : IsFiniteSet({f[x] : x \in S})}
<1>1. {} \in P
  <2>1. {f[x] : x \in {}} = {}
    OBVIOUS
  <2>. QED
    BY <2>1, FS_EmptySet
<1>2. ASSUME NEW S \in SUBSET D, S # {}, \A x \in S : S \ {x} \in P
      PROVE  S \in P
  <2>1. PICK x \in S : TRUE
    BY <1>2
  <2>2. IsFiniteSet({f[y] : y \in S \ {x}})
    BY <1>2, <2>1
  <2>3. {f[y] : y \in S} = {f[y] : y \in S \ {x}} \union {f[x]}
    BY <2>1
  <2>4. \A T : IsFiniteSet(T) => IsFiniteSet(T \union {f[x]})
    BY FS_AddElement
  <2>5. IsFiniteSet({f[y] : y \in S \ {x}} \union {f[x]})
    BY <2>2, <2>4
  <2>6. IsFiniteSet({f[y] : y \in S})
    BY <2>3, <2>5
  <2>. QED
    BY <2>6
<1>3. D \in P
  <2>. HIDE DEF P
  <2>. QED
    BY <1>1, <1>2, SetInduction
<1>. QED
  BY <1>3

LEMMA LargestExists ==
  ASSUME NEW D, IsFiniteSet(D), D # {}, D \subseteq Int
  PROVE  \E x \in D : \A y \in D : x >= y
<1>. DEFINE P == {S \in SUBSET D : S # {} => \E x \in S : \A y \in S : x >= y}
<1>1. {} \in P
  OBVIOUS
<1>2. ASSUME NEW S \in SUBSET D, S # {}, \A x \in S : S \ {x} \in P
      PROVE  S \in P
  <2>1. PICK x \in S : TRUE
    BY <1>2
  <2>2. CASE S \ {x} = {}
    BY <2>1, <2>2
  <2>3. CASE S \ {x} # {}
    <3>1. PICK y \in S \ {x} : \A z \in S \ {x} : y >= z
      BY <1>2, <2>1, <2>3
    <3>2. x \in Int /\ y \in Int
      BY <2>1, <3>1
    <3>3. CASE x >= y
      BY <2>1, <3>1, <3>2, <3>3
    <3>4. CASE y >= x
      BY <2>1, <3>1, <3>2, <3>4
    <3>. QED
      BY <3>2, <3>3, <3>4
  <2>. QED
    BY <2>2, <2>3
<1>3. D \in P
  <2>. HIDE DEF P
  <2>. QED
    BY <1>1, <1>2, SetInduction
<1>. QED
  BY <1>3

LEMMA SmallestExists ==
  ASSUME NEW D, IsFiniteSet(D), D # {}, D \subseteq Int
  PROVE  \E x \in D : \A y \in D : x <= y
<1>. DEFINE M == {-x : x \in D}
<1>1. IsFiniteSet(M)
  <2>. DEFINE f == [x \in D |-> -x]
  <2>1. IsFiniteSet({f[x] : x \in D})
    <3>. HIDE DEF f
    <3>. QED
      BY ImageFinite
  <2>2. {f[x] : x \in D} = M
    OBVIOUS
  <2>. QED
    BY <2>1, <2>2
<1>2. M # {} /\ M \subseteq Int
  <2>1. \A x \in D : -x \in Int
    OBVIOUS
  <2>. QED
    BY <2>1
<1>3. PICK m \in M : \A y \in M : m >= y
  BY <1>1, <1>2, LargestExists
<1>4. PICK x \in D : m = -x
  BY <1>3
<1>5. ASSUME NEW y \in D PROVE x <= y
  <2>1. -x >= -y
    BY <1>3, <1>4
  <2>. QED
    BY <2>1
<1>. QED
  BY <1>5

LEMMA MaxIsLargest ==
  ASSUME NEW D, IsFiniteSet(D), D # {}, D \subseteq Int
  PROVE  /\ Max(D) \in D
         /\ \A y \in D : Max(D) >= y
BY LargestExists DEF Max

LEMMA MinIsSmallest ==
  ASSUME NEW D, IsFiniteSet(D), D # {}, D \subseteq Int
  PROVE  /\ Min(D) \in D
         /\ \A y \in D : Min(D) <= y
BY SmallestExists DEF Min

\* The largest of two.
LEMMA MaxOfTwo ==
  ASSUME NEW x \in Int, NEW y \in Int
  PROVE  Max({x, y}) = IF x >= y THEN x ELSE y
<1>1. Max({x, y}) \in {x, y} /\ Max({x, y}) >= x /\ Max({x, y}) >= y
  <2>1. IsFiniteSet({x, y})
    <3>1. IsFiniteSet({x}) /\ IsFiniteSet({y}) /\ {x, y} = {x} \union {y}
      BY FS_Singleton
    <3>. QED
      BY <3>1, FS_Union
  <2>. QED
    BY <2>1, MaxIsLargest
<1>. QED
  BY <1>1

LEMMA MinOfTwo ==
  ASSUME NEW x \in Int, NEW y \in Int
  PROVE  Min({x, y}) = IF x <= y THEN x ELSE y
<1>1. Min({x, y}) \in {x, y} /\ Min({x, y}) <= x /\ Min({x, y}) <= y
  <2>1. IsFiniteSet({x, y})
    <3>1. IsFiniteSet({x}) /\ IsFiniteSet({y}) /\ {x, y} = {x} \union {y}
      BY FS_Singleton
    <3>. QED
      BY <3>1, FS_Union
  <2>. QED
    BY <2>1, MinIsSmallest
<1>. QED
  BY <1>1
------------------------------------------------------------------------------
(***************************************************************************)
(* Folds.                                                                  *)
(***************************************************************************)

\* What a fold over the set D with values in V is made of: its first value, the
\* element taken out of each subset, and the operation that combines it with
\* the value of the others.
Foldable(D, V, base, pick, op) ==
  /\ IsFiniteSet(D) /\ base \in V
  /\ \A s \in SUBSET D : s # {} => pick[s] \in s
  /\ op \in [D \X V -> V]

IsFold(g, D, V, base, pick, op) ==
  /\ g \in [SUBSET D -> V]
  /\ \A s \in SUBSET D :
       g[s] = IF s = {} THEN base ELSE op[<<pick[s], g[s \ {pick[s]}]>>]

\* Such a fold is defined.
LEMMA FoldExists ==
  ASSUME NEW D, NEW V, NEW base, NEW pick, NEW op, Foldable(D, V, base, pick, op)
  PROVE  \E g : IsFold(g, D, V, base, pick, op)
<1>. USE DEF Foldable
<1>. DEFINE Solves(g, n) ==
              \A s \in SUBSET D : Cardinality(s) <= n =>
                g[s] = IF s = {} THEN base ELSE op[<<pick[s], g[s \ {pick[s]}]>>]
            Q == {n \in Nat : \E g \in [SUBSET D -> V] : Solves(g, n)}
<1>1. \A s \in SUBSET D : IsFiniteSet(s) /\ Cardinality(s) \in Nat
  BY FS_Subset, FS_CardinalityType
<1>2. 0 \in Q
  <2>. DEFINE g == [s \in SUBSET D |-> base]
  <2>1. \A s \in SUBSET D : Cardinality(s) <= 0 => s = {}
    BY <1>1, FS_EmptySet
  <2>2. g \in [SUBSET D -> V] /\ Solves(g, 0)
    BY <2>1
  <2>. QED
    BY <2>2
<1>3. ASSUME NEW n \in Nat, n \in Q PROVE n + 1 \in Q
  <2>1. PICK g \in [SUBSET D -> V] : Solves(g, n)
    BY <1>3
  <2>. DEFINE h == [s \in SUBSET D |->
                      IF s = {} THEN base ELSE op[<<pick[s], g[s \ {pick[s]}]>>]]
  <2>2. h \in [SUBSET D -> V]
    <3>1. ASSUME NEW s \in SUBSET D, s # {}
          PROVE  op[<<pick[s], g[s \ {pick[s]}]>>] \in V
      <4>1. pick[s] \in D /\ s \ {pick[s]} \in SUBSET D
        BY <3>1
      <4>2. g[s \ {pick[s]}] \in V
        BY <4>1
      <4>. QED
        BY <4>1, <4>2
    <3>. QED
      BY <3>1
  <2>3. \A s \in SUBSET D : Cardinality(s) <= n => h[s] = g[s]
    BY <2>1
  <2>4. ASSUME NEW s \in SUBSET D, Cardinality(s) <= n + 1, s # {}
        PROVE  h[s] = op[<<pick[s], h[s \ {pick[s]}]>>]
    <3>1. pick[s] \in s /\ s \ {pick[s]} \in SUBSET D
      BY <2>4
    <3>2. Cardinality(s \ {pick[s]}) = Cardinality(s) - 1
      BY <1>1, <3>1, FS_RemoveElement
    <3>3. Cardinality(s \ {pick[s]}) <= n
      BY <1>1, <2>4, <3>2
    <3>4. h[s \ {pick[s]}] = g[s \ {pick[s]}]
      BY <2>3, <3>1, <3>3
    <3>. QED
      BY <2>4, <3>4
  <2>5. Solves(h, n + 1)
    BY <2>4
  <2>6. \E k \in [SUBSET D -> V] : Solves(k, n + 1)
    <3>. HIDE DEF h
    <3>. QED
      BY <2>2, <2>5
  <2>7. n + 1 \in Nat
    OBVIOUS
  <2>. HIDE DEF Solves
  <2>. QED
    BY <2>6, <2>7
<1>4. Nat \subseteq Q
  <2>. HIDE DEF Q
  <2>. QED
    BY <1>2, <1>3, Induction
<1>5. Cardinality(D) \in Nat /\ \A s \in SUBSET D : Cardinality(s) <= Cardinality(D)
  BY FS_Subset, FS_CardinalityType
<1>6. PICK g \in [SUBSET D -> V] : Solves(g, Cardinality(D))
  BY <1>4, <1>5
<1>7. IsFold(g, D, V, base, pick, op)
  BY <1>5, <1>6 DEF IsFold
<1>. QED
  BY <1>7
------------------------------------------------------------------------------
(***************************************************************************)
(* Sums over finite sets.                                                  *)
(***************************************************************************)

SumOf(f, S) == MapThenSumSet(LAMBDA x : f[x], S)

\* The equation that defines the fold.
IsSum(g, f, D) ==
  g = [s \in SUBSET D |->
         IF s = {} THEN 0
         ELSE f[CHOOSE x \in s : TRUE] + g[s \ {CHOOSE x \in s : TRUE}]]

LEMMA SumIsChosen ==
  ASSUME NEW f, NEW S
  PROVE  SumOf(f, S) = (CHOOSE g : IsSum(g, f, S))[S]
BY DEF SumOf, IsSum, MapThenSumSet, MapThenFoldSet

LEMMA SumExists ==
  ASSUME NEW D, IsFiniteSet(D), NEW f, \A x \in D : f[x] \in Int
  PROVE  \E g : IsSum(g, f, D)
<1>. DEFINE pick == [s \in SUBSET D |-> CHOOSE x \in s : TRUE]
            op == [p \in D \X Int |-> f[p[1]] + p[2]]
<1>1. \A s \in SUBSET D : s # {} => pick[s] \in s
  OBVIOUS
<1>2. /\ op \in [D \X Int -> Int] /\ 0 \in Int
      /\ \A x \in D, v \in Int : op[<<x, v>>] = f[x] + v
  OBVIOUS
<1>3. PICK g \in [SUBSET D -> Int] :
        \A s \in SUBSET D : g[s] = IF s = {} THEN 0 ELSE op[<<pick[s], g[s \ {pick[s]}]>>]
  <2>. HIDE DEF pick, op
  <2>1. Foldable(D, Int, 0, pick, op)
    BY <1>1, <1>2 DEF Foldable
  <2>2. \E g : IsFold(g, D, Int, 0, pick, op)
    BY <2>1, FoldExists
  <2>. QED
    BY <2>2 DEF IsFold
<1>4. ASSUME NEW s \in SUBSET D, s # {}
      PROVE  op[<<pick[s], g[s \ {pick[s]}]>>]
               = f[CHOOSE x \in s : TRUE] + g[s \ {CHOOSE x \in s : TRUE}]
  <2>1. pick[s] = (CHOOSE x \in s : TRUE) /\ pick[s] \in D
    BY <1>4, <1>1
  <2>2. g[s \ {pick[s]}] \in Int
    OBVIOUS
  <2>3. op[<<pick[s], g[s \ {pick[s]}]>>] = f[pick[s]] + g[s \ {pick[s]}]
    <3>. HIDE DEF pick, op
    <3>. QED
      BY <2>1, <2>2, <1>2
  <2>. QED
    BY <2>1, <2>3
<1>5. \A s \in SUBSET D :
        g[s] = IF s = {} THEN 0
               ELSE f[CHOOSE x \in s : TRUE] + g[s \ {CHOOSE x \in s : TRUE}]
  BY <1>3, <1>4
<1>6. IsSum(g, f, D)
  BY <1>5 DEF IsSum
<1>. QED
  BY <1>6

\* Sums agree as far as both are defined.
LEMMA SumsAgree ==
  ASSUME NEW E, NEW D \in SUBSET E, IsFiniteSet(D),
         NEW f, NEW g, NEW e, NEW h,
         IsSum(g, f, D), IsSum(h, e, E), \A x \in D : f[x] = e[x]
  PROVE  \A s \in SUBSET D : g[s] = h[s]
<1>. DEFINE P == {s \in SUBSET D : g[s] = h[s]}
<1>1. g[{}] = 0 /\ h[{}] = 0
  BY DEF IsSum
<1>2. ASSUME NEW s \in SUBSET D, s # {}, \A x \in s : s \ {x} \in P
      PROVE  s \in P
  <2>. DEFINE c == CHOOSE x \in s : TRUE
  <2>1. c \in s
    BY <1>2
  <2>2. g[s] = f[c] + g[s \ {c}]
    BY <1>2 DEF IsSum
  <2>3. h[s] = e[c] + h[s \ {c}]
    BY <1>2 DEF IsSum
  <2>. HIDE DEF c
  <2>4. g[s \ {c}] = h[s \ {c}]
    BY <1>2, <2>1
  <2>5. f[c] = e[c]
    BY <2>1
  <2>. QED
    BY <2>2, <2>3, <2>4, <2>5
<1>3. SUBSET D \subseteq P
  <2>1. {} \in P
    BY <1>1
  <2>. HIDE DEF P
  <2>. QED
    BY <2>1, <1>2, SetInduction
<1>. QED
  BY <1>3

LEMMA SumIsSum ==
  ASSUME NEW D, IsFiniteSet(D), NEW f, \A x \in D : f[x] \in Int, NEW g, IsSum(g, f, D)
  PROVE  g[D] = SumOf(f, D)
<1>. DEFINE h == CHOOSE k : IsSum(k, f, D)
<1>1. IsSum(h, f, D)
  BY SumExists
<1>2. SumOf(f, D) = h[D]
  BY SumIsChosen
<1>. HIDE DEF h
<1>3. D \in SUBSET D
  OBVIOUS
<1>. QED
  BY <1>1, <1>2, <1>3, SumsAgree

LEMMA SumOfNone ==
  ASSUME NEW f
  PROVE  SumOf(f, {}) = 0
<1>1. PICK g : IsSum(g, f, {})
  <2>1. IsFiniteSet({})
    BY FS_EmptySet
  <2>. QED
    BY <2>1, SumExists
<1>2. g[{}] = 0
  BY <1>1 DEF IsSum
<1>3. IsFiniteSet({}) /\ \A x \in {} : f[x] \in Int
  BY FS_EmptySet
<1>. QED
  BY <1>1, <1>2, <1>3, SumIsSum

\* One step of the fold, at the element the fold chooses.
LEMMA SumStep ==
  ASSUME NEW D, IsFiniteSet(D), D # {}, NEW f, \A x \in D : f[x] \in Int
  PROVE  LET c == CHOOSE x \in D : TRUE IN SumOf(f, D) = f[c] + SumOf(f, D \ {c})
<1>. DEFINE c == CHOOSE x \in D : TRUE
<1>1. c \in D
  OBVIOUS
<1>2. PICK g : IsSum(g, f, D)
  BY SumExists
<1>3. PICK C : C = D \ {c}
  OBVIOUS
<1>4. IsFiniteSet(C) /\ C \in SUBSET D /\ C \in SUBSET C
  BY <1>3, FS_RemoveElement
<1>5. g[D] = f[c] + g[C]
  BY <1>2, <1>3 DEF IsSum
<1>. HIDE DEF c
<1>6. PICK h : IsSum(h, f, C)
  BY <1>4, SumExists
<1>7. \A s \in SUBSET C : h[s] = g[s]
  BY <1>2, <1>4, <1>6, SumsAgree
<1>8. g[D] = SumOf(f, D)
  BY <1>2, SumIsSum
<1>9. h[C] = SumOf(f, C)
  BY <1>4, <1>6, SumIsSum
<1>10. SumOf(f, D) = f[c] + SumOf(f, D \ {c})
  BY <1>3, <1>4, <1>5, <1>7, <1>8, <1>9
<1>. QED
  BY <1>10 DEF c

LEMMA SumType ==
  ASSUME NEW D, IsFiniteSet(D), NEW f, \A x \in D : f[x] \in Int
  PROVE  SumOf(f, D) \in Int
<1>. DEFINE P == {s \in SUBSET D : SumOf(f, s) \in Int}
<1>1. {} \in P
  BY SumOfNone
<1>2. ASSUME NEW s \in SUBSET D, s # {}, \A x \in s : s \ {x} \in P
      PROVE  s \in P
  <2>1. PICK c \in s : SumOf(f, s) = f[c] + SumOf(f, s \ {c})
    <3>1. IsFiniteSet(s) /\ \A x \in s : f[x] \in Int
      BY FS_Subset
    <3>. QED
      BY <1>2, <3>1, SumStep
  <2>2. f[c] \in Int /\ SumOf(f, s \ {c}) \in Int
    BY <1>2, <2>1
  <2>. QED
    BY <2>1, <2>2
<1>3. SUBSET D \subseteq P
  <2>. HIDE DEF P
  <2>. QED
    BY <1>1, <1>2, SetInduction
<1>. QED
  BY <1>3

\* It does not matter which element is taken out.
LEMMA SumRemove ==
  ASSUME NEW D, IsFiniteSet(D), NEW f, \A x \in D : f[x] \in Int
  PROVE  \A x \in D : SumOf(f, D) = f[x] + SumOf(f, D \ {x})
<1>. DEFINE P == {s \in SUBSET D : \A x \in s : SumOf(f, s) = f[x] + SumOf(f, s \ {x})}
<1>1. {} \in P
  OBVIOUS
<1>2. ASSUME NEW s \in SUBSET D, s # {}, \A x \in s : s \ {x} \in P
      PROVE  s \in P
  <2>1. IsFiniteSet(s) /\ \A x \in s : f[x] \in Int
    BY FS_Subset
  <2>2. PICK c \in s : SumOf(f, s) = f[c] + SumOf(f, s \ {c})
    <3>. HIDE DEF P
    <3>. QED
      BY <1>2, <2>1, SumStep
  <2>3. ASSUME NEW x \in s, x # c PROVE SumOf(f, s) = f[x] + SumOf(f, s \ {x})
    <3>1. PICK t : t = (s \ {c}) \ {x} /\ t = (s \ {x}) \ {c}
      <4>1. (s \ {c}) \ {x} = (s \ {x}) \ {c}
        OBVIOUS
      <4>. QED
        BY <4>1
    <3>2. x \in s \ {c} /\ s \ {c} \in P
      BY <1>2, <2>3
    <3>3. SumOf(f, s \ {c}) = f[x] + SumOf(f, t)
      BY <3>1, <3>2
    <3>4. c \in s \ {x} /\ s \ {x} \in P
      BY <1>2, <2>3
    <3>5. SumOf(f, s \ {x}) = f[c] + SumOf(f, t)
      BY <3>1, <3>4
    <3>6. t \in SUBSET D
      BY <3>1
    <3>7. IsFiniteSet(t) /\ \A y \in t : f[y] \in Int
      BY <3>6, FS_Subset
    <3>8. SumOf(f, t) \in Int
      BY <3>7, SumType
    <3>9. f[x] \in Int /\ f[c] \in Int
      OBVIOUS
    <3>. HIDE DEF P
    <3>. QED
      BY <2>2, <3>3, <3>5, <3>8, <3>9
  <2>. QED
    BY <2>2, <2>3
<1>3. SUBSET D \subseteq P
  <2>. HIDE DEF P
  <2>. QED
    BY <1>1, <1>2, SetInduction
<1>. QED
  BY <1>3

\* A larger function has a larger sum.
LEMMA SumMonotone ==
  ASSUME NEW D, IsFiniteSet(D), NEW f, NEW e,
         \A x \in D : f[x] \in Int /\ e[x] \in Int /\ f[x] <= e[x]
  PROVE  SumOf(f, D) <= SumOf(e, D)
<1>. DEFINE P == {s \in SUBSET D : SumOf(f, s) <= SumOf(e, s)}
<1>1. {} \in P
  BY SumOfNone
<1>2. ASSUME NEW s \in SUBSET D, s # {}, \A x \in s : s \ {x} \in P
      PROVE  s \in P
  <2>1. PICK c \in s : TRUE
    BY <1>2
  <2>2. s \ {c} \in P /\ IsFiniteSet(s) /\ IsFiniteSet(s \ {c})
    BY <1>2, <2>1, FS_Subset
  <2>3. SumOf(f, s) = f[c] + SumOf(f, s \ {c}) /\ SumOf(e, s) = e[c] + SumOf(e, s \ {c})
    BY <2>1, <2>2, SumRemove
  <2>4. SumOf(f, s \ {c}) \in Int /\ SumOf(e, s \ {c}) \in Int
    BY <2>2, SumType
  <2>. QED
    BY <2>2, <2>3, <2>4
<1>3. SUBSET D \subseteq P
  <2>. HIDE DEF P
  <2>. QED
    BY <1>1, <1>2, SetInduction
<1>. QED
  BY <1>3

LEMMA SumSame ==
  ASSUME NEW D, IsFiniteSet(D), NEW f, NEW e,
         \A x \in D : f[x] \in Int /\ f[x] = e[x]
  PROVE  SumOf(f, D) = SumOf(e, D)
<1>1. \A x \in D : /\ f[x] \in Int /\ e[x] \in Int
                   /\ f[x] <= e[x] /\ e[x] <= f[x]
  OBVIOUS
<1>2. SumOf(f, D) \in Int /\ SumOf(e, D) \in Int
  BY <1>1, SumType
<1>3. SumOf(f, D) <= SumOf(e, D)
  BY <1>1, SumMonotone
<1>4. SumOf(e, D) <= SumOf(f, D)
  BY <1>1, SumMonotone
<1>. QED
  BY <1>2, <1>3, <1>4

\* With no value below zero, fewer elements have a smaller sum.
LEMMA SumSubset ==
  ASSUME NEW D, IsFiniteSet(D), NEW f, \A x \in D : f[x] \in Nat, NEW T \in SUBSET D
  PROVE  SumOf(f, T) <= SumOf(f, D)
<1>. DEFINE P == {s \in SUBSET D : \A t \in SUBSET s : SumOf(f, t) <= SumOf(f, s)}
<1>1. {} \in P
  BY SumOfNone
<1>2. ASSUME NEW s \in SUBSET D, s # {}, \A x \in s : s \ {x} \in P
      PROVE  s \in P
  <2>1. IsFiniteSet(s) /\ (\A x \in s : f[x] \in Nat) /\ SumOf(f, s) \in Int
    BY FS_Subset, SumType
  <2>2. ASSUME NEW t \in SUBSET s, t # s PROVE SumOf(f, t) <= SumOf(f, s)
    <3>1. PICK c \in s : c \notin t
      BY <2>2
    <3>2. s \ {c} \in P /\ t \in SUBSET (s \ {c})
      BY <1>2, <3>1
    <3>3. SumOf(f, t) <= SumOf(f, s \ {c})
      BY <3>2
    <3>4. SumOf(f, s) = f[c] + SumOf(f, s \ {c})
      BY <2>1, SumRemove
    <3>5. /\ SumOf(f, s \ {c}) \in Int /\ SumOf(f, t) \in Int
          /\ f[c] \in Nat
      BY <2>1, <3>2, FS_Subset, SumType
    <3>. QED
      BY <3>3, <3>4, <3>5
  <2>. QED
    BY <2>1, <2>2
<1>3. SUBSET D \subseteq P
  <2>. HIDE DEF P
  <2>. QED
    BY <1>1, <1>2, SetInduction
<1>. QED
  BY <1>3

\* The functions f and e have different values at most for p.
DifferAt(f, e, D, p) ==
  /\ p \in D
  /\ \A x \in D : f[x] \in Int /\ e[x] \in Int
  /\ \A x \in D \ {p} : e[x] = f[x]

LEMMA SumUpdate ==
  ASSUME NEW D, IsFiniteSet(D), NEW f, NEW e, NEW p, DifferAt(f, e, D, p)
  PROVE  SumOf(e, D) = SumOf(f, D) - f[p] + e[p]
<1>1. /\ p \in D
      /\ \A x \in D : f[x] \in Int /\ e[x] \in Int
      /\ \A x \in D \ {p} : e[x] = f[x]
  BY DEF DifferAt
<1>2. IsFiniteSet(D \ {p})
  BY FS_RemoveElement
<1>3. SumOf(f, D) = f[p] + SumOf(f, D \ {p})
  BY <1>1, SumRemove
<1>4. SumOf(e, D) = e[p] + SumOf(e, D \ {p})
  BY <1>1, SumRemove
<1>5. SumOf(e, D \ {p}) = SumOf(f, D \ {p})
  <2>1. \A x \in D \ {p} : e[x] \in Int /\ e[x] = f[x]
    BY <1>1
  <2>. QED
    BY <1>2, <2>1, SumSame
<1>6. SumOf(f, D \ {p}) \in Int /\ SumOf(f, D) \in Int
  <2>1. \A x \in D \ {p} : f[x] \in Int
    BY <1>1
  <2>. QED
    BY <1>1, <1>2, <2>1, SumType
<1>. QED
  BY <1>1, <1>3, <1>4, <1>5, <1>6

LEMMA SumOfZeros ==
  ASSUME NEW D, IsFiniteSet(D), NEW f, \A x \in D : f[x] = 0
  PROVE  SumOf(f, D) = 0
<1>. DEFINE P == {s \in SUBSET D : SumOf(f, s) = 0}
<1>1. {} \in P
  BY SumOfNone
<1>2. ASSUME NEW s \in SUBSET D, s # {}, \A x \in s : s \ {x} \in P
      PROVE  s \in P
  <2>1. PICK c \in s : TRUE
    BY <1>2
  <2>2. s \ {c} \in P /\ IsFiniteSet(s) /\ f[c] = 0
    BY <1>2, <2>1, FS_Subset
  <2>3. \A x \in s : f[x] \in Int
    OBVIOUS
  <2>4. SumOf(f, s) = f[c] + SumOf(f, s \ {c})
    BY <2>1, <2>2, <2>3, SumRemove
  <2>. QED
    BY <2>2, <2>4
<1>3. SUBSET D \subseteq P
  <2>. HIDE DEF P
  <2>. QED
    BY <1>1, <1>2, SetInduction
<1>. QED
  BY <1>3

\* A sum of natural numbers is zero only if all of them are.
LEMMA SumOfNaturals ==
  ASSUME NEW D, IsFiniteSet(D), NEW f, \A x \in D : f[x] \in Nat
  PROVE  /\ SumOf(f, D) \in Nat
         /\ SumOf(f, D) = 0 <=> \A x \in D : f[x] = 0
<1>. DEFINE P == {s \in SUBSET D :
                    /\ SumOf(f, s) \in Nat
                    /\ SumOf(f, s) = 0 <=> \A x \in s : f[x] = 0}
<1>1. {} \in P
  BY SumOfNone
<1>2. ASSUME NEW s \in SUBSET D, s # {}, \A x \in s : s \ {x} \in P
      PROVE  s \in P
  <2>1. PICK c \in s : TRUE
    BY <1>2
  <2>2. s \ {c} \in P /\ IsFiniteSet(s) /\ f[c] \in Nat
    BY <1>2, <2>1, FS_Subset
  <2>3. \A x \in s : f[x] \in Int
    OBVIOUS
  <2>4. SumOf(f, s) = f[c] + SumOf(f, s \ {c})
    BY <2>1, <2>2, <2>3, SumRemove
  <2>5. /\ SumOf(f, s \ {c}) \in Nat
        /\ SumOf(f, s \ {c}) = 0 <=> \A x \in s \ {c} : f[x] = 0
    BY <2>2
  <2>6. SumOf(f, s) = 0 <=> f[c] = 0 /\ SumOf(f, s \ {c}) = 0
    BY <2>2, <2>4, <2>5
  <2>7. (\A x \in s : f[x] = 0) <=> f[c] = 0 /\ \A x \in s \ {c} : f[x] = 0
    OBVIOUS
  <2>. QED
    BY <2>2, <2>4, <2>5, <2>6, <2>7
<1>3. SUBSET D \subseteq P
  <2>. HIDE DEF P
  <2>. QED
    BY <1>1, <1>2, SetInduction
<1>. QED
  BY <1>3

\* A sum of numbers up to a bound.
LEMMA SumBounded ==
  ASSUME NEW D, IsFiniteSet(D), NEW f, NEW C \in Nat, \A x \in D : f[x] \in Int /\ f[x] <= C
  PROVE  SumOf(f, D) <= C * Cardinality(D)
<1>. DEFINE P == {s \in SUBSET D : SumOf(f, s) \in Int /\ SumOf(f, s) <= C * Cardinality(s)}
<1>1. {} \in P
  <2>1. Cardinality({}) = 0 /\ C * 0 = 0
    BY FS_EmptySet
  <2>. QED
    BY <2>1, SumOfNone
<1>2. ASSUME NEW s \in SUBSET D, s # {}, \A x \in s : s \ {x} \in P
      PROVE  s \in P
  <2>1. PICK c \in s : TRUE
    BY <1>2
  <2>2. s \ {c} \in P /\ IsFiniteSet(s) /\ f[c] \in Int /\ f[c] <= C
    BY <1>2, <2>1, FS_Subset
  <2>3. \A x \in s : f[x] \in Int
    OBVIOUS
  <2>4. SumOf(f, s) = f[c] + SumOf(f, s \ {c})
    BY <2>1, <2>2, <2>3, SumRemove
  <2>5. PICK m \in Nat : m = Cardinality(s \ {c}) /\ Cardinality(s) = m + 1
    <3>1. /\ IsFiniteSet(s \ {c})
          /\ Cardinality(s \ {c}) = IF c \in s THEN Cardinality(s) - 1 ELSE Cardinality(s)
      BY <2>2, FS_RemoveElement
    <3>2. Cardinality(s) \in Nat /\ Cardinality(s \ {c}) \in Nat
      BY <2>2, <3>1, FS_CardinalityType
    <3>. QED
      BY <2>1, <3>1, <3>2
  <2>6. C * (m + 1) = C * m + C /\ C * m \in Int
    OBVIOUS
  <2>. QED
    BY <2>2, <2>4, <2>5, <2>6
<1>3. SUBSET D \subseteq P
  <2>. HIDE DEF P
  <2>. QED
    BY <1>1, <1>2, SetInduction
<1>. QED
  BY <1>3

------------------------------------------------------------------------------
(***************************************************************************)
(* The window.                                                             *)
(***************************************************************************)

SampleRecord == [ts : Nat, killed : Nat, left : Nat]

WindowTypes ==
  /\ oomKills \in [Pods -> Nat] /\ clock \in Nat
  /\ killed \in Nat /\ left \in Nat
  /\ samples \in Seq(SampleRecord) /\ ring \in Seq(Nat \X Int)

\* A kill is in the counter of a pod or of one that has gone.
KillsCounted == SumOf(oomKills, Pods) + left = killed

\* Time, kills and pods that have gone only grow, and the last sample is of now.
SamplesInOrder ==
  /\ \A j, k \in DOMAIN samples :
       j <= k => /\ samples[j].ts <= samples[k].ts
                 /\ samples[j].killed <= samples[k].killed
                 /\ samples[j].left <= samples[k].left
  /\ \A k \in DOMAIN samples : /\ samples[k].ts <= clock
                               /\ samples[k].killed <= killed
                               /\ samples[k].left <= left
  /\ samples # <<>> => samples[Len(samples)].ts = clock

\* The ring has the last samples, as many as it holds.
RingIsLatest ==
  /\ Len(ring) = IF Len(samples) <= RingCap THEN Len(samples) ELSE RingCap
  /\ \A k \in DOMAIN ring :
       LET s == samples[Len(samples) - Len(ring) + k]
       IN ring[k] = <<s.ts, s.killed - s.left>>

\* What was shown last was computed from the ring as it still is.
RecentIsShown ==
  samples # <<>> =>
    LET latest == samples[Len(samples)]
    IN recent = Shown(ring, clock, latest.killed - latest.left)

WindowInv ==
  /\ WindowTypes /\ KillsCounted /\ SamplesInOrder /\ RingIsLatest
  /\ RecentIsShown

LEMMA SampleTypes ==
  ASSUME WindowTypes
  PROVE  \A k \in DOMAIN samples :
           /\ samples[k] \in SampleRecord
           /\ samples[k].ts \in Nat /\ samples[k].killed \in Nat /\ samples[k].left \in Nat
<1>. TAKE k \in DOMAIN samples
<1>1. samples[k] \in SampleRecord
  BY DEF WindowTypes
<1>. QED
  BY <1>1 DEF SampleRecord

LEMMA TotalIsSum ==
  ASSUME WindowTypes
  PROVE  Total = SumOf(oomKills, Pods) /\ Total \in Int
<1>1. Total = SumOf(oomKills, Pods)
  BY DEF Total, SumOf
<1>2. \A p \in Pods : oomKills[p] \in Int
  BY DEF WindowTypes
<1>. QED
  BY <1>1, <1>2, WindowAssumption, SumType

LEMMA WindowInitially ==
  ASSUME WindowInit
  PROVE  WindowInv
<1>1. WindowTypes
  BY DEF WindowInit, WindowTypes
<1>2. KillsCounted
  <2>1. \A p \in Pods : oomKills[p] = 0
    BY DEF WindowInit
  <2>2. SumOf(oomKills, Pods) = 0
    BY <2>1, WindowAssumption, SumOfZeros
  <2>. QED
    BY <2>2 DEF WindowInit, KillsCounted
<1>3. SamplesInOrder /\ RingIsLatest /\ RecentIsShown
  BY WindowAssumption DEF WindowInit, SamplesInOrder, RingIsLatest, RecentIsShown
<1>. QED
  BY <1>1, <1>2, <1>3 DEF WindowInv

LEMMA KillKeeps ==
  ASSUME WindowInv, NEW p \in Pods, Kill(p)
  PROVE  WindowInv'
<1>. USE DEF WindowInv
<1>1. oomKills[p] \in Nat /\ oomKills \in [Pods -> Int]
  BY DEF WindowTypes
<1>2. oomKills' = [oomKills EXCEPT ![p] = oomKills[p] + 1]
  BY DEF Kill
<1>3. WindowTypes'
  BY <1>1, <1>2 DEF WindowTypes, Kill
<1>4. KillsCounted'
  <2>1. DifferAt(oomKills, oomKills', Pods, p)
    BY <1>1, <1>2 DEF DifferAt
  <2>3. SumOf(oomKills', Pods) = SumOf(oomKills, Pods) - oomKills[p] + oomKills'[p]
    BY <2>1, WindowAssumption, SumUpdate
  <2>2. SumOf(oomKills, Pods) \in Int
    BY TotalIsSum
  <2>. QED
    BY <1>1, <1>2, <2>2, <2>3 DEF KillsCounted, Kill, WindowTypes
<1>5. SamplesInOrder'
  <2>1. \A k \in DOMAIN samples : samples[k].killed \in Nat /\ killed \in Nat
    BY SampleTypes DEF WindowTypes
  <2>. QED
    BY <2>1 DEF SamplesInOrder, Kill
<1>6. RingIsLatest'
  BY DEF RingIsLatest, Kill
<1>7. RecentIsShown'
  BY DEF RecentIsShown, Shown, Baseline, Kill
<1>. QED
  BY <1>3, <1>4, <1>5, <1>6, <1>7

LEMMA ReplaceKeeps ==
  ASSUME WindowInv, NEW p \in Pods, Replace(p)
  PROVE  WindowInv'
<1>. USE DEF WindowInv
<1>1. oomKills[p] \in Nat /\ oomKills \in [Pods -> Int]
  BY DEF WindowTypes
<1>2. oomKills' = [oomKills EXCEPT ![p] = 0]
  BY DEF Replace
<1>3. WindowTypes'
  BY <1>1, <1>2 DEF WindowTypes, Replace
<1>4. KillsCounted'
  <2>1. DifferAt(oomKills, oomKills', Pods, p)
    BY <1>1, <1>2 DEF DifferAt
  <2>3. SumOf(oomKills', Pods) = SumOf(oomKills, Pods) - oomKills[p] + oomKills'[p]
    BY <2>1, WindowAssumption, SumUpdate
  <2>2. SumOf(oomKills, Pods) \in Int
    BY TotalIsSum
  <2>. QED
    BY <1>1, <1>2, <2>2, <2>3 DEF KillsCounted, Replace, WindowTypes
<1>5. SamplesInOrder'
  <2>1. \A k \in DOMAIN samples : samples[k].left \in Nat /\ left \in Nat
    BY SampleTypes DEF WindowTypes
  <2>. QED
    BY <1>1, <2>1 DEF SamplesInOrder, Replace
<1>6. RingIsLatest'
  BY DEF RingIsLatest, Replace
<1>7. RecentIsShown'
  BY DEF RecentIsShown, Shown, Baseline, Replace
<1>. QED
  BY <1>3, <1>4, <1>5, <1>6, <1>7

LEMMA SampleKeeps ==
  ASSUME WindowInv, NEW dt \in Cadences, Sample(dt)
  PROVE  WindowInv'
<1>. USE DEF WindowInv
<1>1. dt \in Nat /\ clock' = clock + dt /\ clock' \in Nat /\ clock \in Nat
  BY WindowAssumption DEF Sample, WindowTypes
<1>2. PICK n \in Nat : n = Len(samples)
  BY DEF WindowTypes
<1>3. PICK r \in SampleRecord :
        /\ r = [ts |-> clock', killed |-> killed, left |-> left]
        /\ r.ts = clock' /\ r.killed = killed /\ r.left = left
  <2>. DEFINE x == [ts |-> clock', killed |-> killed, left |-> left]
  <2>1. x \in SampleRecord /\ x.ts = clock' /\ x.killed = killed /\ x.left = left
    BY <1>1 DEF WindowTypes, SampleRecord
  <2>. QED
    BY <2>1
<1>4. /\ samples' = Append(samples, r) /\ samples' \in Seq(SampleRecord)
      /\ Len(samples') = n + 1 /\ samples'[n + 1] = r
      /\ \A k \in 1..n : samples'[k] = samples[k]
      /\ DOMAIN samples = 1..n /\ DOMAIN samples' = 1..(n + 1)
  BY <1>2, <1>3 DEF Sample, WindowTypes
<1>5. Total = killed - left /\ Total \in Int /\ killed \in Nat /\ left \in Nat
  <2>1. Total = SumOf(oomKills, Pods) /\ Total \in Int
    BY TotalIsSum
  <2>2. killed \in Nat /\ left \in Nat /\ SumOf(oomKills, Pods) + left = killed
    BY DEF KillsCounted, WindowTypes
  <2>. QED
    BY <2>1, <2>2
<1>6. PICK all : /\ all = Append(ring, <<clock', Total>>)
                 /\ all \in Seq(Nat \X Int)
  <2>1. <<clock', Total>> \in Nat \X Int /\ ring \in Seq(Nat \X Int)
    BY <1>1, <1>5 DEF WindowTypes
  <2>2. Append(ring, <<clock', Total>>) \in Seq(Nat \X Int)
    BY <2>1, AppendProperties
  <2>. QED
    BY <2>2
<1>7. /\ Len(all) = Len(ring) + 1 /\ Len(ring) \in Nat
      /\ all[Len(ring) + 1] = <<clock', Total>>
      /\ \A k \in 1..Len(ring) : all[k] = ring[k]
  BY <1>6 DEF WindowTypes
<1>8. ring' = IF Len(all) > RingCap THEN Tail(all) ELSE all
  BY <1>6 DEF Sample, Recorded
<1>9. WindowTypes'
  <2>1. ring' \in Seq(Nat \X Int)
    BY <1>6, <1>7, <1>8
  <2>. QED
    BY <1>1, <1>4, <2>1 DEF WindowTypes, Sample
<1>10. KillsCounted'
  BY DEF KillsCounted, Sample
<1>11. SamplesInOrder'
  <2>1. \A k \in 1..n : /\ samples[k].ts \in Nat /\ samples[k].ts <= clock
                        /\ samples[k].killed <= killed /\ samples[k].left <= left
    BY <1>4, SampleTypes DEF SamplesInOrder
  <2>2. \A k \in 1..(n + 1) : /\ samples'[k].ts <= clock'
                              /\ samples'[k].killed <= killed
                              /\ samples'[k].left <= left
    BY <2>1, <1>1, <1>3, <1>4, <1>5
  <2>3. ASSUME NEW j \in 1..(n + 1), NEW k \in 1..(n + 1), j <= k
        PROVE  /\ samples'[j].ts <= samples'[k].ts
               /\ samples'[j].killed <= samples'[k].killed
               /\ samples'[j].left <= samples'[k].left
    <3>1. CASE k \in 1..n
      <4>1. j \in 1..n
        BY <2>3, <3>1
      <4>. QED
        BY <2>3, <3>1, <4>1, <1>4 DEF SamplesInOrder
    <3>2. CASE k = n + 1
      BY <3>2, <2>2, <1>3, <1>4
    <3>. QED
      BY <3>1, <3>2
  <2>4. samples'[Len(samples')].ts = clock'
    BY <1>3, <1>4
  <2>5. killed' = killed /\ left' = left
    BY DEF Sample
  <2>. QED
    BY <2>2, <2>3, <2>4, <2>5, <1>4 DEF SamplesInOrder
<1>12. RingIsLatest'
  <2>. DEFINE c == RingCap
  <2>1. c \in Nat /\ c >= 1
    <3>1. RingCap \in Nat \ {0}
      BY Zenon, WindowAssumption
    <3>. QED
      BY <3>1
  <2>2. /\ Len(ring) = IF n <= c THEN n ELSE c
        /\ \A k \in 1..Len(ring) :
             ring[k] = <<samples[n - Len(ring) + k].ts,
                         samples[n - Len(ring) + k].killed - samples[n - Len(ring) + k].left>>
    <3>1. DOMAIN ring = 1..Len(ring)
      BY <1>2 DEF WindowTypes
    <3>. QED
      BY <1>2, <3>1 DEF RingIsLatest
  <2>3. ASSUME NEW k \in 1..Len(all)
        PROVE  LET s == samples'[n + 1 - Len(all) + k]
               IN all[k] = <<s.ts, s.killed - s.left>>
    <3>1. CASE k = Len(all)
      <4>1. n + 1 - Len(all) + k = n + 1
        BY <3>1, <1>7
      <4>. QED
        BY <3>1, <4>1, <1>3, <1>4, <1>5, <1>7
    <3>2. CASE k # Len(all)
      <4>1. /\ k \in 1..Len(ring) /\ n + 1 - Len(all) + k = n - Len(ring) + k
            /\ n - Len(ring) + k \in 1..n
        BY <3>2, <1>7, <2>1, <2>2
      <4>. QED
        BY <4>1, <1>4, <1>7, <2>2
    <3>. QED
      BY <3>1, <3>2
  <2>4. CASE Len(all) > c
    <3>1. ring' = Tail(all) /\ Len(ring') = Len(all) - 1
      <4>1. all # <<>> /\ ring' = Tail(all)
        BY <2>4, <1>7, <1>8
      <4>. QED
        BY <4>1, <1>6, HeadTailProperties
    <3>2. Len(ring') = c /\ n + 1 > c /\ DOMAIN ring' = 1..c
      BY <3>1, <2>4, <1>7, <2>1, <2>2, <1>9 DEF WindowTypes
    <3>3. ASSUME NEW k \in 1..c
          PROVE  LET s == samples'[n + 1 - c + k] IN ring'[k] = <<s.ts, s.killed - s.left>>
      <4>1. ring'[k] = all[k + 1] /\ k + 1 \in 1..Len(all)
        BY <3>1, <3>2, <1>6, <1>7
      <4>2. n + 1 - Len(all) + (k + 1) = n + 1 - c + k
        BY <3>1, <3>2, <1>7
      <4>. QED
        BY <4>1, <4>2, <2>3
    <3>4. Len(ring') = IF n + 1 <= c THEN n + 1 ELSE c
      BY <3>2, <2>1
    <3>5. PICK m \in Nat : m = n + 1 /\ Len(samples') = m
      BY <1>1, <1>4
    <3>6. Len(ring') = IF m <= c THEN m ELSE c
      BY <3>4, <3>5
    <3>7. \A k \in DOMAIN ring' :
            LET s == samples'[m - Len(ring') + k] IN ring'[k] = <<s.ts, s.killed - s.left>>
      BY <3>2, <3>3, <3>5
    <3>. QED
      BY <3>5, <3>6, <3>7 DEF RingIsLatest
  <2>5. CASE ~(Len(all) > c)
    <3>1. ring' = all /\ Len(ring') = n + 1 /\ n + 1 <= c /\ DOMAIN ring' = 1..(n + 1)
      BY <2>5, <1>6, <1>7, <1>8, <2>1, <2>2
    <3>2. PICK m \in Nat : m = n + 1 /\ Len(ring') = m /\ Len(all) = m /\ DOMAIN ring' = 1..m
      BY <1>1, <1>7, <3>1
    <3>3. Len(samples') = m
      BY <1>4, <3>2
    <3>4. \A k \in 1..m : LET s == samples'[m - m + k] IN ring'[k] = <<s.ts, s.killed - s.left>>
      BY <2>3, <3>1, <3>2
    <3>5. Len(ring') = IF m <= c THEN m ELSE c
      BY <3>1, <3>2
    <3>. QED
      BY <3>2, <3>3, <3>4, <3>5 DEF RingIsLatest
  <2>. QED
    BY <2>4, <2>5
<1>13. RecentIsShown'
  <2>1. recent' = Shown(ring', clock', Total)
    BY DEF Sample
  <2>2. Total = samples'[Len(samples')].killed - samples'[Len(samples')].left
    BY <1>3, <1>4, <1>5
  <2>. QED
    BY <2>1, <2>2 DEF RecentIsShown, Shown, Baseline
<1>. QED
  BY <1>9, <1>10, <1>11, <1>12, <1>13

LEMMA WindowStep ==
  ASSUME WindowInv, [WindowNext]_windowVars
  PROVE  WindowInv'
<1>1. CASE UNCHANGED windowVars
  BY <1>1 DEF windowVars, WindowInv, WindowTypes, KillsCounted, SamplesInOrder,
              RingIsLatest, RecentIsShown, Shown, Baseline
<1>2. CASE WindowNext
  BY <1>2, KillKeeps, ReplaceKeeps, SampleKeeps DEF WindowNext
<1>. QED
  BY <1>1, <1>2

LEMMA UpToFinite == ASSUME NEW u \in Int PROVE IsFiniteSet(0..u)
<1>1. 0 \in Int
  OBVIOUS
<1>. QED
  BY <1>1, FS_Interval

LEMMA IntervalPartFinite ==
  ASSUME NEW n \in Nat
  PROVE  \A S \in SUBSET (1..n) : IsFiniteSet(S) /\ S \subseteq Int
<1>1. IsFiniteSet(1..n)
  BY FS_Interval
<1>2. \A S \in SUBSET (1..n) : IsFiniteSet(S)
  BY <1>1, FS_Subset
<1>. QED
  BY <1>2

LEMMA InvShowsWindow ==
  ASSUME WindowInv
  PROVE  WindowShows
<1>. USE DEF WindowInv
<1>. SUFFICES ASSUME samples # <<>> PROVE WindowShows
  BY DEF WindowShows
<1>1. PICK n \in Nat : n = Len(samples) /\ n >= 1 /\ DOMAIN samples = 1..n
  BY DEF WindowTypes
<1>2. RingCap \in Nat /\ RingCap >= 1 /\ WindowS \in Nat /\ clock \in Nat
  BY WindowAssumption DEF WindowTypes
<1>3. PICK m \in Nat : /\ m = Len(ring) /\ DOMAIN ring = 1..m
                       /\ m = IF n <= RingCap THEN n ELSE RingCap
  BY <1>1 DEF RingIsLatest, WindowTypes
<1>4. \A k \in 1..m : /\ ring[k][1] = samples[n - m + k].ts
                      /\ ring[k][2] = samples[n - m + k].killed - samples[n - m + k].left
                      /\ n - m + k \in 1..n
  BY <1>1, <1>2, <1>3 DEF RingIsLatest
<1>5. \A k \in 1..n : /\ samples[k].ts \in Nat /\ samples[k].killed \in Nat
                      /\ samples[k].left \in Nat
  BY <1>1, SampleTypes
<1>6. \A j, k \in 1..n : j <= k => /\ samples[j].ts <= samples[k].ts
                                   /\ samples[j].killed <= samples[k].killed
                                   /\ samples[j].left <= samples[k].left
  BY <1>1 DEF SamplesInOrder
<1>7. samples[n].ts = clock
  BY <1>1 DEF SamplesInOrder
<1>8. PICK K : K = {k \in 1..m : ring[k][1] >= clock - WindowS}
  OBVIOUS
<1>9. PICK b \in K : b = Min(K) /\ \A k \in K : b <= k
  <2>1. m \in K
    <3>1. m \in 1..m /\ n - m + m = n
      BY <1>1, <1>2, <1>3
    <3>2. ring[m][1] = clock
      BY <3>1, <1>4, <1>7
    <3>3. clock >= clock - WindowS
      BY <1>2
    <3>. QED
      BY <3>1, <3>2, <3>3, <1>8
  <2>2. IsFiniteSet(K) /\ K \subseteq Int
    <3>1. K \in SUBSET (1..m)
      BY <1>8
    <3>. QED
      BY <3>1, IntervalPartFinite
  <2>. QED
    BY <2>1, <2>2, MinIsSmallest
<1>10. PICK first \in InWindow : first = Min(InWindow) /\ \A k \in InWindow : first <= k
  <2>1. n \in InWindow
    BY <1>1, <1>2, <1>7 DEF InWindow
  <2>2. IsFiniteSet(InWindow) /\ InWindow \subseteq Int
    <3>1. InWindow \in SUBSET (1..n)
      BY <1>1 DEF InWindow
    <3>. QED
      BY <3>1, IntervalPartFinite
  <2>. QED
    BY <2>1, <2>2, MinIsSmallest
<1>11. first \in 1..n /\ b \in 1..m
  BY <1>1, <1>8, <1>9, <1>10 DEF InWindow
<1>12. PICK j \in 1..n : j = n - m + b
  BY <1>4, <1>11
<1>13. PICK kept \in Int : /\ kept = Max({first, n - RingCap + 1})
                           /\ kept = IF first >= n - RingCap + 1 THEN first ELSE n - RingCap + 1
  <2>1. first \in Int /\ n - RingCap + 1 \in Int
    BY <1>2, <1>11
  <2>. QED
    BY <2>1, MaxOfTwo
\* The baseline is the sample the ring keeps of the window.
<1>14. j = kept
  <2>1. j \in InWindow
    BY <1>1, <1>4, <1>8, <1>9, <1>11, <1>12 DEF InWindow
  <2>2. first <= j
    BY <1>10, <2>1
  <2>3. kept <= j
    BY <1>2, <1>3, <1>11, <1>12, <1>13, <2>2
  <2>4. kept \in 1..n /\ kept - (n - m) \in 1..m /\ first <= kept
    BY <1>1, <1>2, <1>3, <1>11, <1>13
  <2>5. PICK k \in 1..m : k = kept - (n - m)
    BY <2>4
  <2>6. ring[k][1] = samples[kept].ts
    <3>1. n - m + k = kept
      BY <2>4, <2>5
    <3>. QED
      BY <3>1, <1>4
  <2>7. samples[first].ts >= clock - WindowS
    BY <1>10 DEF InWindow
  <2>8. k \in K
    BY <1>2, <1>5, <1>6, <1>8, <1>11, <2>4, <2>5, <2>6, <2>7
  <2>9. b <= k
    BY <1>9, <2>8
  <2>. QED
    BY <1>11, <1>12, <2>3, <2>4, <2>5, <2>9
<1>15. Baseline(ring, clock) = samples[j].killed - samples[j].left
  <2>1. Baseline(ring, clock) = ring[b][2]
    BY <1>3, <1>8, <1>9 DEF Baseline
  <2>. QED
    BY <2>1, <1>4, <1>11, <1>12
<1>16. PICK d \in Int : /\ d = samples[n].killed - samples[n].left
                               - (samples[j].killed - samples[j].left)
                        /\ recent = Max({0, d})
  <2>. DEFINE e == samples[n].killed - samples[n].left - (samples[j].killed - samples[j].left)
  <2>1. n \in 1..n
    BY <1>1
  <2>2. e \in Int
    BY <2>1, <1>5
  <2>3. recent = Max({0, e})
    BY <1>1, <1>15 DEF RecentIsShown, Shown
  <2>. QED
    BY <2>2, <2>3
<1>17. recent = IF 0 >= d THEN 0 ELSE d
  BY <1>16, MaxOfTwo
<1>18. recent <= samples[n].killed - samples[first].killed
  <2>1. first <= j
    BY <1>10, <1>1, <1>4, <1>8, <1>9, <1>11, <1>12 DEF InWindow
  <2>2. /\ samples[first].killed <= samples[j].killed
        /\ samples[j].left <= samples[n].left
        /\ samples[first].killed <= samples[n].killed
    BY <1>6, <1>11, <1>1, <2>1
  <2>3. /\ n \in 1..n /\ samples[first].killed \in Nat
        /\ samples[n].killed \in Nat /\ samples[n].left \in Nat
        /\ samples[j].killed \in Nat /\ samples[j].left \in Nat
    BY <1>1, <1>5, <1>11
  <2>4. \A kn, ln, kj, lj, kf \in Nat :
          kf <= kj /\ lj <= ln => kn - ln - (kj - lj) <= kn - kf
    OBVIOUS
  <2>5. d <= samples[n].killed - samples[first].killed
    BY <2>2, <2>3, <2>4, <1>16
  <2>6. 0 <= samples[n].killed - samples[first].killed
    BY <2>2, <2>3
  <2>. QED
    BY <2>5, <2>6, <1>17
<1>19. ASSUME samples[n].left = samples[first].left
       PROVE  recent = samples[n].killed - samples[j].killed
  <2>1. first <= j
    BY <1>10, <1>1, <1>4, <1>8, <1>9, <1>11, <1>12 DEF InWindow
  <2>2. /\ samples[first].left <= samples[j].left
        /\ samples[j].left <= samples[n].left
        /\ samples[j].killed <= samples[n].killed
    BY <1>6, <1>11, <1>1, <2>1
  <2>3. /\ n \in 1..n /\ samples[first].left \in Nat
        /\ samples[n].killed \in Nat /\ samples[n].left \in Nat
        /\ samples[j].killed \in Nat /\ samples[j].left \in Nat
    BY <1>1, <1>5, <1>11
  <2>4. samples[j].left = samples[n].left
    BY <2>2, <2>3, <1>19
  <2>5. d = samples[n].killed - samples[j].killed /\ d >= 0
    BY <2>2, <2>3, <2>4, <1>16
  <2>. QED
    BY <2>5, <1>17
<1>. QED
  BY <1>1, <1>10, <1>13, <1>14, <1>18, <1>19 DEF WindowShows

\* What cgroup_pods shows as the kills of the last minute: never one that was
\* before the window, and all since the earliest sample the ring keeps of it, as
\* long as no pod with kills has gone; for any number of pods, any capacity and
\* window, and samples however close to one another.
THEOREM RecentKills == WindowSpec => []WindowShows
<1>1. WindowInit => WindowInv
  BY WindowInitially
<1>2. WindowInv /\ [WindowNext]_windowVars => WindowInv'
  BY WindowStep
<1>3. WindowInv => WindowShows
  BY InvShowsWindow
<1>. QED
  BY <1>1, <1>2, <1>3, PTL DEF WindowSpec

------------------------------------------------------------------------------
(***************************************************************************)
(* The rates.                                                              *)
(***************************************************************************)

LEMMA PerGrows ==
  ASSUME NEW a \in Nat, NEW b \in Nat, a <= b, NEW dt \in Nat \ {0}
  PROVE  Per(a, dt) \in Nat /\ Per(a, dt) <= Per(b, dt)
<1>. DEFINE q == (100 * a) \div dt
            r == (100 * b) \div dt
<1>1. q \in Int /\ r \in Int
  OBVIOUS
<1>2. dt * q <= 100 * a /\ 100 * a < dt * (q + 1)
  OBVIOUS
<1>3. dt * r <= 100 * b /\ 100 * b < dt * (r + 1)
  OBVIOUS
<1>. HIDE DEF q, r
<1>4. dt * q < dt * (r + 1)
  BY <1>1, <1>2, <1>3
<1>5. q < r + 1
  BY <1>1, <1>4
<1>6. dt * 0 < dt * (q + 1)
  BY <1>1, <1>2
<1>7. 0 < q + 1
  BY <1>1, <1>6
<1>. QED
  BY <1>1, <1>5, <1>7 DEF Per, q, r

LEMMA SumOfPer ==
  ASSUME NEW S, IsFiniteSet(S), NEW new, NEW dt, NEW f,
         \A x \in S : f[x] = Per(new[x], dt) /\ f[x] \in Int
  PROVE  MapThenSumSet(LAMBDA n : Per(new[n], dt), S) = SumOf(f, S)
<1>. DEFINE Solves(g) == g = [s \in SUBSET S |->
                               IF s = {} THEN 0
                               ELSE Per(new[CHOOSE x \in s : TRUE], dt)
                                      + g[s \ {CHOOSE x \in s : TRUE}]]
<1>1. MapThenSumSet(LAMBDA n : Per(new[n], dt), S) = (CHOOSE g : Solves(g))[S]
  BY DEF MapThenSumSet, MapThenFoldSet
<1>2. ASSUME NEW s \in SUBSET S, s # {}
      PROVE  f[CHOOSE x \in s : TRUE] = Per(new[CHOOSE x \in s : TRUE], dt)
  BY <1>2
<1>3. ASSUME NEW g PROVE IsSum(g, f, S) <=> Solves(g)
  BY <1>2 DEF IsSum
<1>. HIDE DEF Solves
<1>4. \E g : Solves(g)
  BY <1>3, SumExists
<1>5. PICK g : g = (CHOOSE k : Solves(k)) /\ Solves(g)
  BY <1>4
<1>6. g[S] = SumOf(f, S)
  BY <1>3, <1>5, SumIsSum
<1>. QED
  BY <1>1, <1>5, <1>6

------------------------------------------------------------------------------
Counters == [bytes : Nat, errs : Nat]
Interfaces == UNION {[D -> Counters] : D \in SUBSET Ifaces}

RatesTypes ==
  /\ nets \in Interfaces /\ prev \in Interfaces
  /\ errors \in [Ifaces -> Nat] /\ restarted \in SUBSET Ifaces

\* An interface that was up at the last sample and is up now counted its errors on
\* from there, unless its counters started again: then it counted some of them.
CountersGo ==
  \A n \in Both(prev, nets) :
    IF n \in restarted THEN nets[n].errs <= errors[n]
    ELSE nets[n].errs = prev[n].errs + errors[n]

PerOf(counts, dt) == [n \in DOMAIN counts |-> Per(counts[n], dt)]

\* RatesAreExact, with the sums as those of functions.
RatesShown ==
  ticks > 0 =>
    /\ shown.errors \in [Ifaces -> Nat] /\ since \in Nat \ {0}
    /\ shown.names \in SUBSET Ifaces
    /\ rates.net_errors <= SumOf(PerOf(shown.errors, since), shown.names)
    /\ rates.net_errors >= SumOf(PerOf(shown.errors, since), shown.names \ shown.restarted)

RatesInv == RatesTypes /\ CountersGo /\ RatesShown

LEMMA InterfaceTypes ==
  ASSUME RatesTypes
  PROVE  /\ DOMAIN nets \subseteq Ifaces /\ DOMAIN prev \subseteq Ifaces
         /\ nets \in [DOMAIN nets -> Counters] /\ prev \in [DOMAIN prev -> Counters]
         /\ \A n \in DOMAIN nets : nets[n].bytes \in Nat /\ nets[n].errs \in Nat
         /\ \A n \in DOMAIN prev : prev[n].bytes \in Nat /\ prev[n].errs \in Nat
BY DEF RatesTypes, Interfaces, Counters

LEMMA RatesInitially ==
  ASSUME RatesInit
  PROVE  RatesInv
<1>1. PICK up \in SUBSET Ifaces : nets = [n \in up |-> [bytes |-> 0, errs |-> OldCount]]
  BY DEF RatesInit
<1>2. nets \in Interfaces
  <2>1. nets \in [up -> Counters]
    BY <1>1, RatesAssumption DEF Counters
  <2>. QED
    BY <2>1 DEF Interfaces
<1>3. DOMAIN prev = {} /\ prev \in Interfaces
  <2>1. DOMAIN prev = {} /\ prev \in [{} -> Counters]
    BY DEF RatesInit, Nothing
  <2>. QED
    BY <2>1 DEF Interfaces
<1>4. RatesTypes
  BY <1>2, <1>3 DEF RatesTypes, RatesInit
<1>5. CountersGo
  BY <1>3 DEF CountersGo, Both
<1>6. RatesShown
  BY DEF RatesShown, RatesInit
<1>. QED
  BY <1>4, <1>5, <1>6 DEF RatesInv

LEMMA ErrorKeeps ==
  ASSUME RatesInv, NEW n \in Ifaces, Error(n)
  PROVE  RatesInv'
<1>. USE DEF RatesInv
<1>1. /\ n \in DOMAIN nets /\ DOMAIN nets' = DOMAIN nets
      /\ nets'[n] = [bytes |-> nets[n].bytes + 1, errs |-> nets[n].errs + 1]
      /\ \A m \in DOMAIN nets \ {n} : nets'[m] = nets[m]
      /\ nets' = [nets EXCEPT ![n] = nets'[n]]
  BY InterfaceTypes DEF Error
<1>2. /\ prev' = prev /\ restarted' = restarted
      /\ errors' = [errors EXCEPT ![n] = errors[n] + 1]
  BY DEF Error
<1>3. nets[n].bytes \in Nat /\ nets[n].errs \in Nat /\ errors[n] \in Nat
  BY <1>1, InterfaceTypes DEF RatesTypes
<1>4. nets' \in Interfaces
  <2>1. nets'[n] \in Counters
    BY <1>1, <1>3 DEF Counters
  <2>2. nets' \in [DOMAIN nets -> Counters]
    BY <1>1, <2>1, InterfaceTypes
  <2>. QED
    BY <2>2, InterfaceTypes DEF Interfaces
<1>5. RatesTypes'
  BY <1>2, <1>3, <1>4 DEF RatesTypes
<1>6. CountersGo'
  <2>1. nets'[n].errs = nets[n].errs + 1
    BY <1>1
  <2>2. ASSUME NEW m \in Both(prev, nets)
        PROVE  IF m \in restarted THEN nets'[m].errs <= errors'[m]
               ELSE nets'[m].errs = prev[m].errs + errors'[m]
    <3>1. CASE m = n
      <4>1. errors'[n] = errors[n] + 1 /\ (m \in DOMAIN prev => prev[m].errs \in Nat)
        BY <1>2, InterfaceTypes DEF RatesTypes
      <4>. QED
        BY <3>1, <4>1, <2>1, <1>3 DEF CountersGo, Both
    <3>2. CASE m # n
      <4>1. errors'[m] = errors[m] /\ nets'[m] = nets[m]
        BY <3>2, <1>1, <1>2 DEF RatesTypes, Both
      <4>. QED
        BY <4>1 DEF CountersGo
    <3>. QED
      BY <3>1, <3>2
  <2>. QED
    BY <2>2, <1>1, <1>2 DEF CountersGo, Both
<1>7. RatesShown'
  BY DEF RatesShown, Error
<1>. QED
  BY <1>5, <1>6, <1>7

LEMMA RestartKeeps ==
  ASSUME RatesInv, NEW n \in Ifaces, Restart(n)
  PROVE  RatesInv'
<1>. USE DEF RatesInv
<1>1. /\ n \in DOMAIN nets /\ n \notin restarted /\ DOMAIN nets' = DOMAIN nets
      /\ nets'[n] = [bytes |-> 0, errs |-> 0]
      /\ \A m \in DOMAIN nets \ {n} : nets'[m] = nets[m]
      /\ nets' = [nets EXCEPT ![n] = nets'[n]]
  BY InterfaceTypes DEF Restart
<1>2. prev' = prev /\ restarted' = restarted \union {n} /\ errors' = errors
  BY DEF Restart
<1>3. nets' \in Interfaces
  <2>1. nets'[n] \in Counters
    BY <1>1 DEF Counters
  <2>2. nets' \in [DOMAIN nets -> Counters]
    BY <1>1, <2>1, InterfaceTypes
  <2>. QED
    BY <2>2, InterfaceTypes DEF Interfaces
<1>4. RatesTypes'
  BY <1>2, <1>3 DEF RatesTypes
<1>5. CountersGo'
  <2>1. ASSUME NEW m \in Both(prev, nets)
        PROVE  IF m \in restarted \union {n} THEN nets'[m].errs <= errors[m]
               ELSE nets'[m].errs = prev[m].errs + errors[m]
    <3>1. CASE m = n
      <4>1. nets'[n].errs = 0 /\ errors[n] \in Nat
        BY <1>1 DEF RatesTypes
      <4>. QED
        BY <3>1, <4>1
    <3>2. CASE m # n
      BY <3>2, <1>1 DEF CountersGo, Both
    <3>. QED
      BY <3>1, <3>2
  <2>. QED
    BY <2>1, <1>1, <1>2 DEF CountersGo, Both
<1>6. RatesShown'
  BY DEF RatesShown, Restart
<1>. QED
  BY <1>4, <1>5, <1>6

LEMMA GoDownKeeps ==
  ASSUME RatesInv, NEW n \in Ifaces, GoDown(n)
  PROVE  RatesInv'
<1>. USE DEF RatesInv
<1>1. nets' = [m \in DOMAIN nets \ {n} |-> nets[m]]
  BY DEF GoDown
<1>2. prev' = prev /\ restarted' = restarted /\ errors' = errors
  BY DEF GoDown
<1>3. nets' \in Interfaces
  <2>1. nets' \in [DOMAIN nets \ {n} -> Counters]
    BY <1>1, InterfaceTypes
  <2>. QED
    BY <2>1, InterfaceTypes DEF Interfaces
<1>4. RatesTypes'
  BY <1>2, <1>3 DEF RatesTypes
<1>5. CountersGo'
  BY <1>1, <1>2 DEF CountersGo, Both
<1>6. RatesShown'
  BY DEF RatesShown, GoDown
<1>. QED
  BY <1>4, <1>5, <1>6

LEMMA ComeUpKeeps ==
  ASSUME RatesInv, NEW n \in Ifaces, ComeUp(n)
  PROVE  RatesInv'
<1>. USE DEF RatesInv
<1>1. /\ n \notin DOMAIN nets /\ n \notin DOMAIN prev
      /\ DOMAIN nets' = DOMAIN nets \union {n}
      /\ nets'[n] = [bytes |-> 0, errs |-> OldCount]
      /\ \A m \in DOMAIN nets : nets'[m] = nets[m]
      /\ nets' = [m \in DOMAIN nets' |-> nets'[m]]
  BY DEF ComeUp
<1>2. prev' = prev /\ restarted' = restarted /\ errors' = errors
  BY DEF ComeUp
<1>3. nets' \in Interfaces
  <2>1. nets'[n] \in Counters
    BY <1>1, RatesAssumption DEF Counters
  <2>2. nets' \in [DOMAIN nets' -> Counters]
    BY <1>1, <2>1, InterfaceTypes
  <2>. QED
    BY <2>2, <1>1, InterfaceTypes DEF Interfaces
<1>4. RatesTypes'
  BY <1>2, <1>3 DEF RatesTypes
<1>5. CountersGo'
  BY <1>1, <1>2 DEF CountersGo, Both
<1>6. RatesShown'
  BY DEF RatesShown, ComeUp
<1>. QED
  BY <1>4, <1>5, <1>6

LEMMA TakeRatesKeeps ==
  ASSUME RatesInv, NEW dt \in Intervals, TakeRates(dt)
  PROVE  RatesInv'
<1>. USE DEF RatesInv
<1>1. dt \in Nat \ {0} /\ IsFiniteSet(Ifaces)
  BY RatesAssumption
<1>2. PICK both : both = Both(prev, nets)
  OBVIOUS
<1>3. /\ both \in SUBSET Ifaces /\ IsFiniteSet(both)
      /\ \A n \in both : /\ nets[n].errs \in Nat /\ prev[n].errs \in Nat
                         /\ errors[n] \in Nat
  <2>1. both \in SUBSET Ifaces
    BY <1>2, InterfaceTypes DEF Both
  <2>2. IsFiniteSet(both)
    BY <1>1, <2>1, FS_Subset
  <2>3. \A n \in both : nets[n].errs \in Nat /\ prev[n].errs \in Nat
    BY <1>2, InterfaceTypes DEF Both
  <2>. QED
    BY <2>1, <2>2, <2>3 DEF RatesTypes
<1>4. PICK new : new = NewErrors(prev, nets)
  OBVIOUS
<1>5. /\ DOMAIN new = both
      /\ \A n \in both : /\ new[n] \in Nat /\ new[n] <= errors[n]
                         /\ n \notin restarted => new[n] = errors[n]
  <2>1. DOMAIN new = both
    BY <1>2, <1>4 DEF NewErrors
  <2>2. ASSUME NEW n \in both
        PROVE  /\ new[n] \in Nat /\ new[n] <= errors[n]
               /\ n \notin restarted => new[n] = errors[n]
    <3>1. PICK d \in Int : d = nets[n].errs - prev[n].errs
      BY <1>3
    <3>2. new[n] = Max({0, d})
      BY <1>2, <1>4, <3>1 DEF NewErrors
    <3>3. new[n] = IF 0 >= d THEN 0 ELSE d
      BY <3>2, MaxOfTwo
    <3>4. IF n \in restarted THEN nets[n].errs <= errors[n]
          ELSE nets[n].errs = prev[n].errs + errors[n]
      BY <1>2 DEF CountersGo
    <3>. QED
      BY <1>3, <3>1, <3>3, <3>4
  <2>. QED
    BY <2>1, <2>2
<1>6. \A n \in both : /\ Per(new[n], dt) \in Nat /\ Per(errors[n], dt) \in Nat
                      /\ Per(new[n], dt) <= Per(errors[n], dt)
  BY <1>1, <1>3, <1>5, PerGrows
<1>7. PICK f, e : f = PerOf(new, dt) /\ e = PerOf(errors, dt)
  OBVIOUS
<1>8. /\ \A n \in both : /\ f[n] = Per(new[n], dt) /\ e[n] = Per(errors[n], dt)
                         /\ f[n] \in Nat /\ e[n] \in Nat /\ f[n] <= e[n]
      /\ \A n \in both \ restarted : f[n] = e[n]
  BY <1>3, <1>5, <1>6, <1>7 DEF PerOf, RatesTypes
<1>9. rates'.net_errors = SumOf(f, both)
  <2>1. rates'.net_errors = MapThenSumSet(LAMBDA n : Per(new[n], dt), both)
    BY <1>4, <1>5 DEF TakeRates, NetFrame
  <2>2. \A n \in both : f[n] = Per(new[n], dt) /\ f[n] \in Int
    BY <1>8
  <2>3. MapThenSumSet(LAMBDA n : Per(new[n], dt), both) = SumOf(f, both)
    BY <2>2, <1>3, SumOfPer
  <2>. QED
    BY <2>1, <2>3
<1>10. SumOf(f, both) <= SumOf(e, both)
  BY <1>3, <1>8, SumMonotone
<1>11. SumOf(e, both \ restarted) <= SumOf(f, both)
  <2>1. PICK S : S = both \ restarted
    OBVIOUS
  <2>2. S \in SUBSET both /\ IsFiniteSet(S) /\ \A n \in S : e[n] \in Int /\ e[n] = f[n]
    BY <2>1, <1>3, <1>8, FS_Subset
  <2>3. SumOf(e, S) = SumOf(f, S)
    BY <2>2, SumSame
  <2>4. SumOf(f, S) <= SumOf(f, both)
    BY <2>2, <1>3, <1>8, SumSubset
  <2>. QED
    BY <2>1, <2>3, <2>4
<1>12. RatesTypes'
  BY DEF RatesTypes, TakeRates
<1>13. CountersGo'
  <2>1. ASSUME NEW n \in DOMAIN nets PROVE nets[n].errs = nets[n].errs + 0
    BY <2>1, InterfaceTypes
  <2>2. \A n \in DOMAIN nets : errors'[n] = 0
    BY InterfaceTypes DEF TakeRates
  <2>. QED
    BY <2>1, <2>2 DEF CountersGo, TakeRates, Both
<1>14. RatesShown'
  <2>1. /\ shown'.errors = errors /\ shown'.restarted = restarted /\ shown'.names = both
        /\ since' = dt
    BY <1>2 DEF TakeRates
  <2>. QED
    BY <2>1, <1>1, <1>3, <1>7, <1>9, <1>10, <1>11 DEF RatesShown, RatesTypes
<1>. QED
  BY <1>12, <1>13, <1>14

LEMMA RatesStep ==
  ASSUME RatesInv, [RatesNext]_ratesVars
  PROVE  RatesInv'
<1>1. CASE UNCHANGED ratesVars
  BY <1>1 DEF ratesVars, RatesInv, RatesTypes, CountersGo, Both, RatesShown
<1>2. CASE RatesNext
  BY <1>2, ErrorKeeps, RestartKeeps, GoDownKeeps, ComeUpKeeps, TakeRatesKeeps DEF RatesNext
<1>. QED
  BY <1>1, <1>2

LEMMA InvIsExact ==
  ASSUME RatesInv
  PROVE  RatesAreExact
<1>. SUFFICES ASSUME ticks > 0 PROVE RatesAreExact
  BY DEF RatesAreExact
<1>1. PICK e, dt, names : e = shown.errors /\ dt = since /\ names = shown.names
  OBVIOUS
<1>2. PICK f : f = PerOf(e, dt)
  OBVIOUS
<1>3. /\ e \in [Ifaces -> Nat] /\ dt \in Nat \ {0} /\ names \in SUBSET Ifaces
      /\ rates.net_errors <= SumOf(f, names)
      /\ rates.net_errors >= SumOf(f, names \ shown.restarted)
  BY <1>1, <1>2 DEF RatesInv, RatesShown
<1>4. \A n \in Ifaces : f[n] = Per(e[n], dt) /\ f[n] \in Int
  <2>1. \A n \in Ifaces : e[n] \in Nat /\ e[n] <= e[n]
    BY <1>3
  <2>2. \A n \in Ifaces : Per(e[n], dt) \in Nat
    BY <1>3, <2>1, PerGrows
  <2>. QED
    BY <1>2, <1>3, <2>2 DEF PerOf
<1>5. ASSUME NEW S \in SUBSET Ifaces
      PROVE  MapThenSumSet(LAMBDA n : Per(e[n], dt), S) = SumOf(f, S)
  <2>1. IsFiniteSet(S) /\ \A n \in S : f[n] = Per(e[n], dt) /\ f[n] \in Int
    BY <1>4, RatesAssumption, FS_Subset
  <2>. QED
    BY <2>1, SumOfPer
<1>6. /\ rates.net_errors <= MapThenSumSet(LAMBDA n : Per(e[n], dt), names)
      /\ rates.net_errors
           >= MapThenSumSet(LAMBDA n : Per(e[n], dt), names \ shown.restarted)
  BY <1>3, <1>5
<1>. QED
  BY <1>1, <1>6 DEF RatesAreExact

\* What disk_net shows as errors per second: none that a counter had from before,
\* and all of the interfaces that were there at both samples and did not start
\* again; for any number of interfaces, counts and intervals.
THEOREM ExactRates == RatesSpec => []RatesAreExact
<1>1. RatesInit => RatesInv
  BY RatesInitially
<1>2. RatesInv /\ [RatesNext]_ratesVars => RatesInv'
  BY RatesStep
<1>3. RatesInv => RatesAreExact
  BY InvIsExact
<1>. QED
  BY <1>1, <1>2, <1>3, PTL DEF RatesSpec

------------------------------------------------------------------------------
(***************************************************************************)
(* The search.                                                             *)
(***************************************************************************)

\* Genomes are sequences over some set of characters and slots sequences of such
\* sequences; what is decoded has an integer for its score.
SearchesOver(Chars) ==
  /\ Initial \in Seq(Chars) /\ InitialSlots \in Seq(Seq(Chars))
  /\ Tokens \subseteq Seq(Chars) /\ Alphabet \subseteq Seq(Chars)
  /\ Tags \subseteq SUBSET Chars
  /\ MaxLen \in Nat
  /\ \A h \in Seq(Chars) : Rating(h) \in Int

\* What the search goes over.
Genomes(Chars) == IF rule = "vec" THEN Seq(Seq(Chars)) ELSE Seq(Chars)

LEMMA EditsTyped ==
  ASSUME NEW Chars, NEW g \in Seq(Chars)
  PROVE  /\ \A T \in SUBSET Seq(Chars) : Inserted(g, T) \subseteq Seq(Chars)
         /\ Deleted(g) \subseteq Seq(Chars)
         /\ \A p \in DOMAIN g, t \in Chars : ReplaceAt(g, p, t) \in Seq(Chars)
<1>1. Len(g) \in Nat /\ DOMAIN g = 1..Len(g)
  OBVIOUS
<1>2. \A m \in 0..Len(g) : SubSeq(g, 1, m) \in Seq(Chars)
  <2>1. ASSUME NEW m \in 0..Len(g) PROVE \A k \in 1..m : g[k] \in Chars
    BY <1>1
  <2>. QED
    BY <1>1, <2>1
<1>3. \A m \in 1..(Len(g) + 1) : SubSeq(g, m, Len(g)) \in Seq(Chars)
  <2>1. ASSUME NEW m \in 1..(Len(g) + 1) PROVE \A k \in m..Len(g) : g[k] \in Chars
    BY <1>1
  <2>. QED
    BY <1>1, <2>1
<1>4. ASSUME NEW T \in SUBSET Seq(Chars), NEW p \in 0..Len(g), NEW t \in T
      PROVE  SubSeq(g, 1, p) \o t \o SubSeq(g, p + 1, Len(g)) \in Seq(Chars)
  <2>1. p + 1 \in 1..(Len(g) + 1) /\ t \in Seq(Chars)
    BY <1>1
  <2>2. SubSeq(g, 1, p) \in Seq(Chars) /\ SubSeq(g, p + 1, Len(g)) \in Seq(Chars)
    BY <1>2, <1>3, <2>1
  <2>. QED
    BY <2>1, <2>2, ConcatProperties
<1>5. ASSUME NEW p \in DOMAIN g PROVE RemoveAt(g, p) \in Seq(Chars)
  <2>1. p - 1 \in 0..Len(g) /\ p + 1 \in 1..(Len(g) + 1)
    BY <1>1
  <2>2. SubSeq(g, 1, p - 1) \in Seq(Chars) /\ SubSeq(g, p + 1, Len(g)) \in Seq(Chars)
    BY <1>2, <1>3, <2>1
  <2>. QED
    BY <2>2, ConcatProperties DEF RemoveAt
<1>6. ASSUME NEW p \in DOMAIN g, NEW t \in Chars PROVE ReplaceAt(g, p, t) \in Seq(Chars)
  BY DEF ReplaceAt
<1>7. \A T \in SUBSET Seq(Chars) : Inserted(g, T) \subseteq Seq(Chars)
  <2>1. ASSUME NEW T \in SUBSET Seq(Chars), NEW h \in Inserted(g, T) PROVE h \in Seq(Chars)
    <3>1. PICK p \in 0..Len(g), t \in T :
            h = SubSeq(g, 1, p) \o t \o SubSeq(g, p + 1, Len(g))
      BY DEF Inserted
    <3>. QED
      BY <3>1, <1>4
  <2>. QED
    BY <2>1
<1>8. Deleted(g) \subseteq Seq(Chars)
  BY <1>5 DEF Deleted
<1>. QED
  BY <1>6, <1>7, <1>8

LEMMA MutatedTyped ==
  ASSUME NEW Chars, SearchesOver(Chars), NEW S \in SUBSET Seq(Chars)
  PROVE  Mutated(S) \in SUBSET Seq(Chars)
<1>1. ASSUME NEW g \in S
      PROVE  Inserted(g, Tokens) \union Deleted(g) \union Swapped(g) \subseteq Seq(Chars)
  <2>1. g \in Seq(Chars) /\ Tokens \in SUBSET Seq(Chars)
    BY DEF SearchesOver
  <2>2. Swapped(g) \subseteq Seq(Chars)
    <3>1. \A t \in UNION {K \ {x} : K \in Tags, x \in Chars} : t \in Chars
      BY DEF SearchesOver
    <3>2. ASSUME NEW p \in DOMAIN g, NEW K \in Tags, NEW t \in K \ {g[p]}
          PROVE  ReplaceAt(g, p, t) \in Seq(Chars)
      <4>1. t \in Chars
        BY DEF SearchesOver
      <4>. QED
        BY <2>1, <4>1, EditsTyped
    <3>. QED
      BY <3>2 DEF Swapped
  <2>3. Inserted(g, Tokens) \subseteq Seq(Chars) /\ Deleted(g) \subseteq Seq(Chars)
    BY <2>1, EditsTyped
  <2>. QED
    BY <2>2, <2>3
<1>. QED
  BY <1>1 DEF Mutated

\* The genomes after none to k mutations of g.
MutationsOf(after, Chars, g, k) ==
  /\ after \in [0..k -> SUBSET Seq(Chars)]
  /\ \A n \in 0..k : after[n] = IF n = 0 THEN {g} ELSE Mutated(after[n - 1])

LEMMA MutationsExist ==
  ASSUME NEW Chars, SearchesOver(Chars), NEW g \in Seq(Chars), NEW k \in Nat
  PROVE  \E after : MutationsOf(after, Chars, g, k)
<1>. DEFINE Solves(after, m) ==
              \A n \in 0..m : after[n] = IF n = 0 THEN {g} ELSE Mutated(after[n - 1])
            Q == {m \in Nat : \E after \in [0..m -> SUBSET Seq(Chars)] : Solves(after, m)}
<1>1. 0 \in Q
  <2>. DEFINE a == [n \in 0..0 |-> {g}]
  <2>1. a \in [0..0 -> SUBSET Seq(Chars)] /\ Solves(a, 0)
    OBVIOUS
  <2>. QED
    BY <2>1
<1>2. ASSUME NEW m \in Nat, m \in Q PROVE m + 1 \in Q
  <2>1. PICK a \in [0..m -> SUBSET Seq(Chars)] : Solves(a, m)
    BY <1>2
  <2>. DEFINE b == [n \in 0..(m + 1) |-> IF n <= m THEN a[n] ELSE Mutated(a[m])]
  <2>2. Mutated(a[m]) \in SUBSET Seq(Chars)
    BY MutatedTyped
  <2>3. b \in [0..(m + 1) -> SUBSET Seq(Chars)]
    BY <2>2
  <2>4. ASSUME NEW n \in 0..(m + 1)
        PROVE  b[n] = IF n = 0 THEN {g} ELSE Mutated(b[n - 1])
    <3>1. CASE n <= m
      <4>1. b[n] = a[n] /\ n \in 0..m /\ (n # 0 => b[n - 1] = a[n - 1])
        BY <3>1
      <4>. QED
        BY <4>1, <2>1
    <3>2. CASE ~(n <= m)
      <4>1. n = m + 1 /\ n - 1 = m /\ b[m] = a[m] /\ n # 0
        BY <3>2
      <4>2. b[n] = Mutated(a[m])
        BY <3>2
      <4>. QED
        BY <4>1, <4>2
    <3>. QED
      BY <3>1, <3>2
  <2>5. \E after \in [0..(m + 1) -> SUBSET Seq(Chars)] : Solves(after, m + 1)
    <3>. HIDE DEF b
    <3>. QED
      BY <2>3, <2>4
  <2>6. m + 1 \in Nat
    OBVIOUS
  <2>. HIDE DEF Solves
  <2>. QED
    BY <2>5, <2>6
<1>3. Nat \subseteq Q
  <2>. HIDE DEF Q
  <2>. QED
    BY <1>1, <1>2, Induction
<1>4. PICK after \in [0..k -> SUBSET Seq(Chars)] : Solves(after, k)
  BY <1>3
<1>. QED
  BY <1>4 DEF MutationsOf

LEMMA PrefixTyped ==
  ASSUME NEW Chars, NEW h \in Seq(Chars)
  PROVE  \A m \in 0..Len(h) : SubSeq(h, 1, m) \in Seq(Chars)
<1>1. Len(h) \in Nat /\ DOMAIN h = 1..Len(h)
  OBVIOUS
<1>2. ASSUME NEW m \in 0..Len(h) PROVE \A k \in 1..m : h[k] \in Chars
  BY <1>1
<1>. QED
  BY <1>1, <1>2

LEMMA MutantsTyped ==
  ASSUME NEW Chars, SearchesOver(Chars), NEW g \in Seq(Chars)
  PROVE  Mutants(g) \subseteq Seq(Chars)
<1>. DEFINE step(f) == [n \in 0..MaxOps |-> IF n = 0 THEN {g} ELSE Mutated(f[n - 1])]
            after == CHOOSE f : f = step(f)
<1>1. MaxOps \in Nat /\ MaxLen \in Nat
  BY EvolutionAssumption DEF SearchesOver
<1>2. \E f : f = step(f)
  <2>1. PICK f : MutationsOf(f, Chars, g, MaxOps)
    BY <1>1, MutationsExist
  <2>2. /\ f = [n \in 0..MaxOps |-> f[n]]
        /\ \A n \in 0..MaxOps : f[n] = IF n = 0 THEN {g} ELSE Mutated(f[n - 1])
    BY <2>1 DEF MutationsOf
  <2>3. f = step(f)
    BY <2>2
  <2>. QED
    BY <2>3
<1>3. PICK f : f = after /\ f = step(f)
  BY <1>2
<1>4. \A n \in 0..MaxOps : f[n] = IF n = 0 THEN {g} ELSE Mutated(f[n - 1])
  <2>. HIDE DEF after
  <2>. QED
    BY <1>3
<1>5. \A n \in 0..MaxOps : f[n] \in SUBSET Seq(Chars)
  <2>. DEFINE Q == {n \in Nat : n <= MaxOps => f[n] \in SUBSET Seq(Chars)}
  <2>. HIDE DEF after, step
  <2>1. 0 \in Q
    <3>1. 0 \in 0..MaxOps
      BY <1>1
    <3>2. f[0] = {g}
      BY <3>1, <1>4
    <3>. QED
      BY <3>2
  <2>2. ASSUME NEW n \in Nat, n \in Q PROVE n + 1 \in Q
    <3>1. CASE n + 1 <= MaxOps
      <4>1. n + 1 \in 0..MaxOps /\ n + 1 # 0 /\ (n + 1) - 1 = n /\ n <= MaxOps
        BY <3>1, <1>1
      <4>2. f[n + 1] = Mutated(f[n])
        BY <4>1, <1>4
      <4>3. f[n] \in SUBSET Seq(Chars)
        BY <4>1, <2>2
      <4>4. Mutated(f[n]) \in SUBSET Seq(Chars)
        BY <4>3, MutatedTyped
      <4>. QED
        BY <4>2, <4>4
    <3>2. CASE ~(n + 1 <= MaxOps)
      BY <3>2
    <3>. QED
      BY <3>1, <3>2
  <2>3. Nat \subseteq Q
    <3>. HIDE DEF Q
    <3>. QED
      BY <2>1, <2>2, Induction
  <2>. QED
    BY <2>3, <1>1
<1>6. ASSUME NEW h \in Seq(Chars)
      PROVE  SubSeq(h, 1, Min({Len(h), MaxLen})) \in Seq(Chars)
  <2>1. Len(h) \in Nat
    OBVIOUS
  <2>2. PICK m \in 0..Len(h) : m = Min({Len(h), MaxLen})
    BY <1>1, <2>1, MinOfTwo
  <2>. QED
    BY <2>2, PrefixTyped
<1>7. Mutants(g) = {SubSeq(h, 1, Min({Len(h), MaxLen})) : h \in f[MaxOps]}
  BY <1>3 DEF Mutants
<1>8. f[MaxOps] \in SUBSET Seq(Chars)
  BY <1>1, <1>5
<1>. HIDE DEF after, step
<1>. QED
  BY <1>6, <1>7, <1>8

LEMMA MovedTyped ==
  ASSUME NEW Chars, SearchesOver(Chars), NEW g \in Seq(Seq(Chars))
  PROVE  Moved(g) \subseteq Seq(Seq(Chars))
<1>. DEFINE Words == Seq(Chars)
<1>1. Slots \subseteq Words
  <2>1. NoOp \in Seq(Chars)
    BY DEF NoOp
  <2>2. Alphabet \subseteq Seq(Chars)
    BY DEF SearchesOver
  <2>. QED
    BY <2>1, <2>2 DEF Slots
<1>. HIDE DEF Words
<1>5. g \in Seq(Words)
  BY DEF Words
<1>2. {<<t>> : t \in Slots} \in SUBSET Seq(Words)
  <2>1. \A t \in Slots : <<t>> \in Seq(Words)
    BY <1>1
  <2>. QED
    BY <2>1
<1>3. Inserted(g, {<<t>> : t \in Slots}) \subseteq Seq(Words) /\ Deleted(g) \subseteq Seq(Words)
  BY <1>2, <1>5, EditsTyped
<1>4. UNION {{ReplaceAt(g, p, t) : t \in Slots} : p \in DOMAIN g} \subseteq Seq(Words)
  <2>1. \A p \in DOMAIN g, t \in Slots : ReplaceAt(g, p, t) \in Seq(Words)
    BY <1>1, <1>5, EditsTyped
  <2>. QED
    BY <2>1
<1>. DEFINE A == Inserted(g, {<<t>> : t \in Slots})
            B == Deleted(g)
            C == UNION {{ReplaceAt(g, p, t) : t \in Slots} : p \in DOMAIN g}
<1>6. ASSUME NEW h \in Moved(g) PROVE h \in A \/ h \in B \/ h \in C \/ h = g
  <2>1. \/ h \in (IF Len(g) < MaxLen THEN A ELSE {})
        \/ h \in B \/ h \in C
        \/ h \in (IF g = <<>> THEN {g} ELSE {})
    BY DEF Moved
  <2>. HIDE DEF A, B, C
  <2>. QED
    BY <2>1
<1>7. A \subseteq Seq(Words) /\ B \subseteq Seq(Words) /\ C \subseteq Seq(Words)
  BY <1>3, <1>4
<1>8. Moved(g) \subseteq Seq(Words)
  <2>. HIDE DEF A, B, C
  <2>. QED
    BY <1>5, <1>6, <1>7
<1>. QED
  BY <1>8 DEF Words

LEMMA ChildrenTyped ==
  ASSUME NEW Chars, SearchesOver(Chars), rule \in {"rpn", "vec"},
         NEW g \in Genomes(Chars)
  PROVE  Children(g) \subseteq Genomes(Chars)
<1>1. CASE rule = "rpn"
  BY <1>1, MutantsTyped DEF Children, Genomes
<1>2. CASE rule = "vec"
  BY <1>2, MovedTyped DEF Children, Genomes
<1>. QED
  BY <1>1, <1>2

------------------------------------------------------------------------------
\* The first to the nth word of s, one after another.
Flattens(f, Chars, s, n) ==
  /\ f \in [1..n -> Seq(Chars)]
  /\ \A k \in 1..n : f[k] = IF k = 1 THEN s[k] ELSE f[k - 1] \o s[k]

LEMMA FlattenExists ==
  ASSUME NEW Chars, NEW s \in Seq(Seq(Chars))
  PROVE  \A n \in 0..Len(s) : \E f : Flattens(f, Chars, s, n)
<1>. DEFINE Q == {n \in Nat : n <= Len(s) => \E f : Flattens(f, Chars, s, n)}
<1>0. Len(s) \in Nat /\ \A k \in 1..Len(s) : s[k] \in Seq(Chars)
  OBVIOUS
<1>1. 0 \in Q
  <2>. DEFINE e == [k \in 1..0 |-> <<>>]
  <2>1. e \in [1..0 -> Seq(Chars)] /\ 1..0 = {}
    OBVIOUS
  <2>2. Flattens(e, Chars, s, 0)
    BY <2>1 DEF Flattens
  <2>. HIDE DEF e
  <2>. QED
    BY <2>2
<1>2. ASSUME NEW n \in Nat, n \in Q PROVE n + 1 \in Q
  <2>1. CASE n + 1 <= Len(s)
    <3>1. PICK f : Flattens(f, Chars, s, n)
      BY <1>0, <1>2, <2>1
    <3>2. f \in [1..n -> Seq(Chars)]
      BY <3>1 DEF Flattens
    <3>3. n + 1 \in 1..Len(s) /\ s[n + 1] \in Seq(Chars)
      BY <1>0, <2>1
    <3>. DEFINE last == IF n = 0 THEN s[n + 1] ELSE f[n] \o s[n + 1]
                h == [k \in 1..(n + 1) |-> IF k <= n THEN f[k] ELSE last]
    <3>4. last \in Seq(Chars)
      <4>1. CASE n = 0
        BY <3>3, <4>1
      <4>2. CASE n # 0
        <5>1. f[n] \in Seq(Chars)
          BY <3>2, <4>2
        <5>. QED
          BY <3>3, <4>2, <5>1, ConcatProperties
      <4>. QED
        BY <4>1, <4>2
    <3>5. h \in [1..(n + 1) -> Seq(Chars)]
      <4>. HIDE DEF last
      <4>. QED
        BY <3>2, <3>4
    <3>6. ASSUME NEW k \in 1..(n + 1)
          PROVE  h[k] = IF k = 1 THEN s[k] ELSE h[k - 1] \o s[k]
      <4>1. CASE k <= n
        <5>1. k \in 1..n /\ h[k] = f[k] /\ (k # 1 => h[k - 1] = f[k - 1])
          BY <4>1
        <5>. QED
          BY <3>1, <5>1 DEF Flattens
      <4>2. CASE ~(k <= n)
        <5>1. k = n + 1 /\ h[k] = last
          BY <4>2
        <5>2. n # 0 => h[n] = f[n] /\ k - 1 = n /\ k # 1
          BY <5>1
        <5>3. n = 0 => k = 1
          BY <5>1
        <5>. QED
          BY <5>1, <5>2, <5>3
      <4>. QED
        BY <4>1, <4>2
    <3>7. Flattens(h, Chars, s, n + 1)
      <4>. HIDE DEF h
      <4>. QED
        BY <3>5, <3>6 DEF Flattens
    <3>. HIDE DEF h
    <3>. QED
      BY <3>7
  <2>2. CASE ~(n + 1 <= Len(s))
    BY <2>2
  <2>. QED
    BY <2>1, <2>2
<1>3. Nat \subseteq Q
  <2>. HIDE DEF Q
  <2>. QED
    BY <1>1, <1>2, Induction
<1>. QED
  BY <1>0, <1>3

LEMMA FlattenTyped ==
  ASSUME NEW Chars, NEW s \in Seq(Seq(Chars))
  PROVE  FlattenSeq(s) \in Seq(Chars)
<1>1. CASE Len(s) = 0
  <2>1. s = <<>>
    BY <1>1
  <2>. QED
    BY <1>1, <2>1 DEF FlattenSeq
<1>2. CASE Len(s) # 0
  <2>. DEFINE step(f) == [k \in 1..Len(s) |-> IF k = 1 THEN s[k] ELSE f[k - 1] \o s[k]]
              flat == CHOOSE f : f = step(f)
  <2>1. Len(s) \in 1..Len(s) /\ Len(s) \in Nat /\ \A k \in 1..Len(s) : s[k] \in Seq(Chars)
    BY <1>2
  <2>2. \E f : f = step(f)
    <3>1. PICK f : Flattens(f, Chars, s, Len(s))
      BY <2>1, FlattenExists
    <3>2. /\ f = [k \in 1..Len(s) |-> f[k]]
          /\ \A k \in 1..Len(s) : f[k] = IF k = 1 THEN s[k] ELSE f[k - 1] \o s[k]
      BY <3>1 DEF Flattens
    <3>3. f = step(f)
      BY <3>2
    <3>. QED
      BY <3>3
  <2>3. PICK f : f = flat /\ f = step(f)
    BY <2>2
  <2>4. \A k \in 1..Len(s) : f[k] = IF k = 1 THEN s[k] ELSE f[k - 1] \o s[k]
    <3>. HIDE DEF flat
    <3>. QED
      BY <2>3
  <2>. HIDE DEF flat, step
  <2>5. f[Len(s)] \in Seq(Chars)
    <3>. DEFINE Q == {n \in Nat : n + 1 <= Len(s) => f[n + 1] \in Seq(Chars)}
    <3>1. 0 \in Q
      BY <2>1, <2>4
    <3>2. ASSUME NEW n \in Nat, n \in Q PROVE n + 1 \in Q
      <4>1. CASE (n + 1) + 1 <= Len(s)
        <5>1. (n + 1) + 1 \in 1..Len(s) /\ (n + 1) + 1 # 1 /\ ((n + 1) + 1) - 1 = n + 1
              /\ n + 1 <= Len(s)
          BY <2>1, <4>1
        <5>2. f[(n + 1) + 1] = f[n + 1] \o s[(n + 1) + 1]
          BY <2>4, <5>1
        <5>3. f[n + 1] \in Seq(Chars) /\ s[(n + 1) + 1] \in Seq(Chars)
          BY <2>1, <3>2, <5>1
        <5>4. f[(n + 1) + 1] \in Seq(Chars)
          BY <5>2, <5>3, ConcatProperties
        <5>. QED
          BY <5>4
      <4>2. CASE ~((n + 1) + 1 <= Len(s))
        BY <4>2
      <4>. QED
        BY <4>1, <4>2
    <3>3. Nat \subseteq Q
      <4>. HIDE DEF Q
      <4>. QED
        BY <3>1, <3>2, Induction
    <3>4. Len(s) - 1 \in Nat /\ (Len(s) - 1) + 1 = Len(s)
      BY <2>1
    <3>5. Len(s) - 1 \in Q
      <4>. HIDE DEF Q
      <4>. QED
        BY <3>3, <3>4
    <3>. QED
      BY <3>4, <3>5, <2>1
  <2>6. FlattenSeq(s) = f[Len(s)]
    BY <1>2, <2>3 DEF FlattenSeq, flat, step
  <2>. QED
    BY <2>5, <2>6
<1>. QED
  BY <1>1, <1>2

\* What is scored is a sequence of characters, which has a length and a score.
LEMMA DecodeTyped ==
  ASSUME NEW Chars, SearchesOver(Chars), NEW g \in Genomes(Chars)
  PROVE  Decode(g) \in Seq(Chars) /\ Length(g) \in Nat /\ ScoreOf(g) \in Int
<1>1. Decode(g) \in Seq(Chars)
  <2>1. CASE rule = "vec"
    <3>1. g \in Seq(Seq(Chars))
      BY <2>1 DEF Genomes
    <3>. QED
      BY <2>1, <3>1, FlattenTyped DEF Decode
  <2>2. CASE rule # "vec"
    BY <2>2 DEF Genomes, Decode
  <2>. QED
    BY <2>1, <2>2
<1>2. Len(Decode(g)) \in Nat
  BY <1>1
<1>. QED
  BY <1>1, <1>2 DEF Length, ScoreOf, SearchesOver

------------------------------------------------------------------------------
EvolutionInv(Chars) ==
  /\ rule \in {"rpn", "vec"}
  /\ parent \in Genomes(Chars) /\ best \in Genomes(Chars)
  /\ ArchiveIsBest

\* A generation's genomes are finitely many, and so are their scores.
LEMMA PoolScores ==
  ASSUME NEW children \in [1..Lambda -> Children(parent)],
         NEW pool, pool = ToSet(children)
  PROVE  pool # {} /\ IsFiniteSet({ScoreOf(c) : c \in pool})
<1>1. IsFiniteSet(pool) /\ pool # {}
  <2>1. IsFiniteSet(1..Lambda) /\ 1 \in 1..Lambda
    BY EvolutionAssumption, FS_Interval
  <2>2. IsFiniteSet({children[k] : k \in 1..Lambda})
    BY <2>1, ImageFinite
  <2>3. pool = {children[k] : k \in 1..Lambda}
    BY DEF ToSet
  <2>. QED
    BY <2>1, <2>2, <2>3
<1>. DEFINE f == [c \in pool |-> ScoreOf(c)]
<1>2. IsFiniteSet({f[c] : c \in pool})
  <2>. HIDE DEF f
  <2>. QED
    BY <1>1, ImageFinite
<1>3. {f[c] : c \in pool} = {ScoreOf(c) : c \in pool}
  OBVIOUS
<1>. QED
  BY <1>1, <1>2, <1>3

\* The scores of a generation have a largest, and a genome that may be the next
\* parent has the larger of it and the parent's.
LEMMA SuccessorScore ==
  ASSUME NEW Chars, SearchesOver(Chars), rule \in {"rpn", "vec"},
         parent \in Genomes(Chars), NEW children \in [1..Lambda -> Children(parent)],
         NEW pool, pool = ToSet(children), NEW next \in Successors(pool)
  PROVE  /\ next \in Genomes(Chars) /\ ScoreOf(next) \in Int
         /\ ScoreOf(next) = Max({ScoreOf(parent)} \union {ScoreOf(c) : c \in pool})
<1>1. \A g \in Genomes(Chars) : ScoreOf(g) \in Int
  BY DecodeTyped
<1>2. pool \subseteq Genomes(Chars)
  <2>1. Children(parent) \subseteq Genomes(Chars)
    BY ChildrenTyped
  <2>2. \A c \in pool : c \in Children(parent)
    BY DEF ToSet
  <2>. QED
    BY <2>1, <2>2
<1>4. PICK scores : scores = {ScoreOf(c) : c \in pool}
  OBVIOUS
<1>5. IsFiniteSet(scores) /\ scores # {} /\ scores \subseteq Int
  <2>1. pool # {} /\ IsFiniteSet({ScoreOf(c) : c \in pool})
    BY PoolScores
  <2>. QED
    BY <1>1, <1>2, <1>4, <2>1
<1>6. PICK top \in scores : top = Max(scores) /\ \A y \in scores : top >= y
  BY <1>5, MaxIsLargest
<1>7. PICK c \in pool : ScoreOf(c) = top
  BY <1>4, <1>6
<1>8. PICK different : different = {d \in pool : ScoreOf(d) = top /\ Decode(d) # Decode(parent)}
  OBVIOUS
<1>9. Successors(pool) =
        CASE different # {} /\ top > ScoreOf(parent) -> Shortest(different)
          [] different # {} /\ top = ScoreOf(parent) ->
               {parent} \union (IF rule = "rpn" THEN Shortest(different) ELSE different)
          [] OTHER -> {parent}
  BY <1>4, <1>6, <1>8 DEF Successors
<1>10. top \in Int /\ ScoreOf(parent) \in Int
  BY <1>1, <1>5, <1>6
<1>11. Shortest(different) \subseteq different /\ different \subseteq pool
  BY <1>8 DEF Shortest
<1>12. top > ScoreOf(parent) => different # {}
  <2>1. Decode(c) = Decode(parent) => top = ScoreOf(parent)
    BY <1>7 DEF ScoreOf
  <2>. QED
    BY <2>1, <1>7, <1>8, <1>10
<1>13. /\ next \in Genomes(Chars)
       /\ ScoreOf(next) = IF top >= ScoreOf(parent) THEN top ELSE ScoreOf(parent)
  <2>1. CASE top > ScoreOf(parent)
    <3>1. different # {}
      BY <2>1, <1>12
    <3>2. Successors(pool) = Shortest(different)
      BY <2>1, <3>1, <1>9, <1>10
    <3>3. next \in different
      BY <3>2, <1>11
    <3>. QED
      BY <3>3, <2>1, <1>2, <1>8, <1>10
  <2>2. CASE top = ScoreOf(parent)
    <3>1. next = parent \/ next \in different
      BY <2>2, <1>9, <1>10, <1>11
    <3>. QED
      BY <3>1, <2>2, <1>2, <1>8, <1>10
  <2>3. CASE top < ScoreOf(parent)
    <3>1. next = parent
      BY <2>3, <1>9, <1>10
    <3>. QED
      BY <3>1, <2>3, <1>10
  <2>. QED
    BY <2>1, <2>2, <2>3, <1>10
<1>14. Max({ScoreOf(parent)} \union scores)
         = IF top >= ScoreOf(parent) THEN top ELSE ScoreOf(parent)
  <2>1. PICK all : all = scores \union {ScoreOf(parent)}
    OBVIOUS
  <2>2. IsFiniteSet(all) /\ all # {} /\ all \subseteq Int
    BY <1>5, <1>10, <2>1, FS_AddElement
  <2>3. Max(all) \in all /\ \A y \in all : Max(all) >= y
    BY <2>2, MaxIsLargest
  <2>4. Max(all) = IF top >= ScoreOf(parent) THEN top ELSE ScoreOf(parent)
    <3>1. PICK x \in Int : x = Max(all) /\ x \in all /\ x >= top /\ x >= ScoreOf(parent)
      BY <2>1, <2>2, <2>3
    <3>2. x <= top \/ x = ScoreOf(parent)
      BY <1>6, <2>1, <3>1
    <3>. QED
      BY <1>10, <3>1, <3>2
  <2>5. all = {ScoreOf(parent)} \union scores
    BY <2>1
  <2>. QED
    BY <2>4, <2>5
<1>. QED
  BY <1>1, <1>4, <1>13, <1>14

LEMMA EvolutionInitially ==
  ASSUME NEW Chars, SearchesOver(Chars), EvolutionInit
  PROVE  EvolutionInv(Chars)
<1>1. parent \in Genomes(Chars) /\ best = parent
  BY DEF SearchesOver, Genomes, EvolutionInit
<1>2. Length(parent) \in Nat
  BY <1>1, DecodeTyped
<1>3. Length(best) <= Length(parent) /\ ScoreOf(best) = highest /\ ScoreOf(parent) = highest
  BY <1>1, <1>2 DEF EvolutionInit
<1>. QED
  BY <1>1, <1>3 DEF EvolutionInit, EvolutionInv, ArchiveIsBest

LEMMA EvolutionStep ==
  ASSUME NEW Chars, SearchesOver(Chars), EvolutionInv(Chars),
         [EvolutionNext]_evolutionVars
  PROVE  EvolutionInv(Chars)'
<1>. USE DEF EvolutionInv
<1>1. CASE UNCHANGED evolutionVars
  BY <1>1 DEF evolutionVars, ArchiveIsBest, Genomes, ScoreOf, Length, Decode
<1>2. CASE EvolutionNext
  <2>1. PICK children \in [1..Lambda -> Children(parent)] :
          \E next \in Successors(ToSet(children)) : Generation(ToSet(children), next)
    BY <1>2 DEF EvolutionNext
  <2>2. PICK pool : pool = ToSet(children)
    OBVIOUS
  <2>3. PICK next \in Successors(pool) : Generation(pool, next)
    BY <2>1, <2>2
  <2>4. /\ parent \in Genomes(Chars) /\ best \in Genomes(Chars)
        /\ ScoreOf(best) = highest /\ ScoreOf(parent) = highest
        /\ rule = "rpn" \/ highest >= Optimum => Length(best) <= Length(parent)
    BY DEF ArchiveIsBest
  <2>5. /\ next \in Genomes(Chars) /\ ScoreOf(next) \in Int
        /\ ScoreOf(next) = Max({ScoreOf(parent)} \union {ScoreOf(c) : c \in pool})
    BY <2>2, <2>4, SuccessorScore
  <2>10. pool \subseteq Genomes(Chars)
    <3>1. Children(parent) \subseteq Genomes(Chars)
      BY <2>4, ChildrenTyped
    <3>2. \A c \in pool : c \in Children(parent)
      BY <2>1, <2>2 DEF ToSet
    <3>. QED
      BY <3>1, <3>2
  <2>6. highest' = ScoreOf(next) /\ rule' = rule
    BY <2>3, <2>4, <2>5 DEF Generation
  <2>7. highest \in Int /\ ScoreOf(next) >= highest
    <3>1. highest \in Int
      BY <2>4, DecodeTyped
    <3>2. PICK all : all = {ScoreOf(c) : c \in pool} \union {highest}
      OBVIOUS
    <3>3. IsFiniteSet(all) /\ all # {} /\ all \subseteq Int
      <4>1. \A c \in pool : ScoreOf(c) \in Int
        BY <2>10, DecodeTyped
      <4>2. IsFiniteSet({ScoreOf(c) : c \in pool})
        BY <2>2, PoolScores
      <4>. QED
        BY <3>1, <3>2, <4>1, <4>2, FS_AddElement
    <3>4. ScoreOf(next) = Max(all)
      BY <2>4, <2>5, <3>2
    <3>. QED
      BY <3>1, <3>2, <3>3, <3>4, MaxIsLargest
  <2>8. Length(next) \in Nat /\ Length(best) \in Nat /\ Length(parent) \in Nat
    BY <2>4, <2>5, DecodeTyped
  <2>9. Improves(next) <=>
          \/ ScoreOf(next) > highest
          \/ /\ ScoreOf(next) = highest /\ Length(next) < Length(best)
             /\ rule = "rpn" \/ ScoreOf(next) >= Optimum
    BY <2>4 DEF Improves
  <2>14. /\ Genomes(Chars)' = Genomes(Chars)
         /\ \A g : ScoreOf(g)' = ScoreOf(g') /\ Length(g)' = Length(g')
    BY <2>6 DEF Genomes, ScoreOf, Length, Decode
  <2>11. CASE Improves(next) /\ parent' = next /\ best' = next
    BY <2>5, <2>6, <2>8, <2>11, <2>14 DEF ArchiveIsBest
  <2>12. CASE ~Improves(next) /\ parent' = next /\ best' = best
    BY <2>4, <2>5, <2>6, <2>7, <2>8, <2>9, <2>12, <2>14 DEF ArchiveIsBest
  <2>13. CASE ~Improves(next) /\ parent' = best /\ best' = best
    BY <2>4, <2>5, <2>6, <2>7, <2>8, <2>9, <2>13, <2>14 DEF ArchiveIsBest
  <2>. QED
    BY <2>3, <2>6, <2>11, <2>12, <2>13 DEF Generation
<1>. QED
  BY <1>1, <1>2

\* Whatever the generations try and however often the parent drifts or starts
\* again from the archive (evolve.py, evolve_vec.py), the archive has the highest
\* score of every genome tried, and so has the parent; in the search over genomes,
\* and from the optimum on in that over slots, the archived one is no longer, in
\* characters, than the parent.
THEOREM ArchiveHolds ==
  ASSUME NEW Chars, SearchesOver(Chars)
  PROVE  EvolutionSpec => []ArchiveIsBest
<1>1. EvolutionInit => EvolutionInv(Chars)
  BY EvolutionInitially
<1>2. EvolutionInv(Chars) /\ [EvolutionNext]_evolutionVars => EvolutionInv(Chars)'
  BY EvolutionStep
<1>3. EvolutionInv(Chars) => ArchiveIsBest
  BY DEF EvolutionInv
<1>. QED
  BY <1>1, <1>2, <1>3, PTL DEF EvolutionSpec

------------------------------------------------------------------------------
(***************************************************************************)
(* The split.                                                              *)
(***************************************************************************)

\* The equation that defines the fold of Bytes.
IsBytes(g, s) ==
  g = [S \in SUBSET DOMAIN s |->
         IF S = {} THEN 0 ELSE g[S \ {Max(S)}] + s[Max(S)]]

LEMMA BytesIsChosen ==
  ASSUME NEW s
  PROVE  Bytes(s) = (CHOOSE g : IsBytes(g, s))[DOMAIN s]
BY DEF Bytes, IsBytes, FoldLeft, MapThenFoldSet

LEMMA BytesExists ==
  ASSUME NEW s \in Seq(Nat)
  PROVE  \E g : IsBytes(g, s)
<1>. DEFINE D == DOMAIN s
            pick == [S \in SUBSET D |-> Max(S)]
            op == [p \in D \X Nat |-> p[2] + s[p[1]]]
<1>1. D = 1..Len(s) /\ IsFiniteSet(D) /\ D \subseteq Int
  BY FS_Interval
<1>2. \A S \in SUBSET D : S # {} => Max(S) \in S
  <2>1. ASSUME NEW S \in SUBSET D, S # {} PROVE Max(S) \in S
    <3>1. IsFiniteSet(S) /\ S \subseteq Int
      BY <1>1, FS_Subset
    <3>. QED
      BY <2>1, <3>1, MaxIsLargest
  <2>. QED
    BY <2>1
<1>3. \A S \in SUBSET D : S # {} => pick[S] \in S
  BY <1>2
<1>4. /\ op \in [D \X Nat -> Nat] /\ 0 \in Nat
      /\ \A x \in D, v \in Nat : op[<<x, v>>] = v + s[x]
  OBVIOUS
<1>5. Foldable(D, Nat, 0, pick, op)
  <2>. HIDE DEF D, pick, op
  <2>. QED
    BY <1>1, <1>3, <1>4 DEF Foldable
<1>6. PICK g : IsFold(g, D, Nat, 0, pick, op)
  <2>. HIDE DEF D, pick, op
  <2>. QED
    BY <1>5, FoldExists
<1>7. g \in [SUBSET D -> Nat]
  BY <1>6 DEF IsFold
<1>8. ASSUME NEW S \in SUBSET D
      PROVE  g[S] = IF S = {} THEN 0 ELSE g[S \ {Max(S)}] + s[Max(S)]
  <2>1. g[S] = IF S = {} THEN 0 ELSE op[<<pick[S], g[S \ {pick[S]}]>>]
    BY <1>6 DEF IsFold
  <2>2. pick[S] = Max(S)
    OBVIOUS
  <2>3. CASE S # {}
    <3>1. Max(S) \in D /\ g[S \ {Max(S)}] \in Nat
      BY <1>2, <1>7, <2>3
    <3>2. op[<<Max(S), g[S \ {Max(S)}]>>] = g[S \ {Max(S)}] + s[Max(S)]
      BY <1>4, <3>1
    <3>. HIDE DEF op, pick
    <3>. QED
      BY <2>1, <2>2, <2>3, <3>2
  <2>. QED
    BY <2>1, <2>3
<1>9. IsBytes(g, s)
  BY <1>7, <1>8 DEF IsBytes
<1>. QED
  BY <1>9

\* Two such folds agree where their sequences do, and have numbers for values.
LEMMA BytesAgree ==
  ASSUME NEW s \in Seq(Nat), NEW t \in Seq(Nat), NEW g, NEW h,
         IsBytes(g, s), IsBytes(h, t),
         Len(t) <= Len(s), \A k \in 1..Len(t) : t[k] = s[k]
  PROVE  \A S \in SUBSET (1..Len(t)) : g[S] = h[S] /\ h[S] \in Nat
<1>. DEFINE D == 1..Len(t)
            P == {S \in SUBSET D : g[S] = h[S] /\ h[S] \in Nat}
<1>1. D = DOMAIN t /\ D \subseteq DOMAIN s /\ IsFiniteSet(D)
  BY FS_Interval
<1>2. \A S \in SUBSET D : g[S] = IF S = {} THEN 0 ELSE g[S \ {Max(S)}] + s[Max(S)]
  BY <1>1 DEF IsBytes
<1>3. \A S \in SUBSET D : h[S] = IF S = {} THEN 0 ELSE h[S \ {Max(S)}] + t[Max(S)]
  BY <1>1 DEF IsBytes
<1>4. {} \in P
  <2>1. {} \in SUBSET D
    OBVIOUS
  <2>2. g[{}] = 0 /\ h[{}] = 0
    BY <1>2, <1>3, <2>1
  <2>. QED
    BY <2>1, <2>2
<1>5. ASSUME NEW S \in SUBSET D, S # {}, \A x \in S : S \ {x} \in P
      PROVE  S \in P
  <2>1. IsFiniteSet(S) /\ S \subseteq Int
    <3>1. D \subseteq Int
      OBVIOUS
    <3>. HIDE DEF D
    <3>. QED
      BY <1>1, <3>1, FS_Subset
  <2>2. PICK m \in S : m = Max(S)
    BY <1>5, <2>1, MaxIsLargest
  <2>3. g[S \ {m}] = h[S \ {m}] /\ h[S \ {m}] \in Nat
    BY <1>5, <2>2
  <2>4. t[m] = s[m] /\ t[m] \in Nat
    BY <2>2
  <2>5. g[S] = g[S \ {m}] + s[m] /\ h[S] = h[S \ {m}] + t[m]
    BY <1>2, <1>3, <1>5, <2>2
  <2>. QED
    BY <2>3, <2>4, <2>5
<1>6. SUBSET D \subseteq P
  <2>. HIDE DEF P, D
  <2>. QED
    BY <1>1, <1>4, <1>5, SetInduction
<1>. QED
  BY <1>6

LEMMA PrefixValues ==
  ASSUME NEW V, NEW s \in Seq(V), NEW k \in 0..Len(s)
  PROVE  /\ SubSeq(s, 1, k) \in Seq(V)
         /\ Len(SubSeq(s, 1, k)) = k /\ DOMAIN SubSeq(s, 1, k) = 1..k
         /\ \A j \in 1..k : SubSeq(s, 1, k)[j] = s[j]
<1>1. Len(s) \in Nat /\ k \in Nat /\ k <= Len(s)
  OBVIOUS
<1>2. \A j \in 1..k : s[j] \in V
  BY <1>1
<1>3. /\ SubSeq(s, 1, k) \in Seq(V)
      /\ Len(SubSeq(s, 1, k)) = IF 1 <= k THEN k - 1 + 1 ELSE 0
      /\ \A j \in 1..(k - 1 + 1) : SubSeq(s, 1, k)[j] = s[1 + j - 1]
  BY <1>1, <1>2, SubSeqProperties
<1>4. Len(SubSeq(s, 1, k)) = k
  BY <1>1, <1>3
<1>5. DOMAIN SubSeq(s, 1, k) = 1..k
  BY <1>3, <1>4
<1>6. ASSUME NEW j \in 1..k PROVE SubSeq(s, 1, k)[j] = s[j]
  <2>1. j \in 1..(k - 1 + 1) /\ 1 + j - 1 = j
    BY <1>1
  <2>. QED
    BY <1>3, <2>1
<1>. QED
  BY <1>3, <1>4, <1>5, <1>6

\* The bytes of the first k codepoints.
LEMMA BytesOfPrefix ==
  ASSUME NEW s \in Seq(Nat)
  PROVE  /\ Bytes(SubSeq(s, 1, 0)) = 0
         /\ \A k \in 1..Len(s) :
              /\ Bytes(SubSeq(s, 1, k - 1)) \in Nat
              /\ Bytes(SubSeq(s, 1, k)) = Bytes(SubSeq(s, 1, k - 1)) + s[k]
         /\ Bytes(SubSeq(s, 1, Len(s))) = Bytes(s)
<1>1. \A u \in Seq(Nat) :
         /\ IsBytes(CHOOSE g : IsBytes(g, u), u)
         /\ Bytes(u) = (CHOOSE g : IsBytes(g, u))[DOMAIN u]
  BY BytesExists, BytesIsChosen
<1>2. Bytes(SubSeq(s, 1, 0)) = 0
  <2>1. PICK u : u = SubSeq(s, 1, 0) /\ u \in Seq(Nat) /\ DOMAIN u = {}
    <3>1. 0 \in 0..Len(s) /\ 1..0 = {}
      OBVIOUS
    <3>2. SubSeq(s, 1, 0) \in Seq(Nat) /\ DOMAIN SubSeq(s, 1, 0) = 1..0
      BY <3>1, PrefixValues
    <3>. QED
      BY <3>1, <3>2
  <2>2. PICK g : IsBytes(g, u) /\ Bytes(u) = g[DOMAIN u]
    BY <1>1, <2>1
  <2>3. g[{}] = 0
    BY <2>2 DEF IsBytes
  <2>. QED
    BY <2>1, <2>2, <2>3
<1>3. ASSUME NEW k \in 1..Len(s)
      PROVE  /\ Bytes(SubSeq(s, 1, k - 1)) \in Nat
             /\ Bytes(SubSeq(s, 1, k)) = Bytes(SubSeq(s, 1, k - 1)) + s[k]
  <2>1. PICK t : t = SubSeq(s, 1, k) /\ t \in Seq(Nat) /\ Len(t) = k /\ DOMAIN t = 1..k
                 /\ \A j \in 1..k : t[j] = s[j]
    <3>1. k \in 0..Len(s)
      OBVIOUS
    <3>. QED
      BY <3>1, PrefixValues
  <2>2. PICK u : u = SubSeq(s, 1, k - 1) /\ u \in Seq(Nat) /\ Len(u) = k - 1
                 /\ DOMAIN u = 1..(k - 1) /\ \A j \in 1..(k - 1) : u[j] = s[j]
    <3>1. k - 1 \in 0..Len(s)
      OBVIOUS
    <3>. QED
      BY <3>1, PrefixValues
  <2>3. PICK g : IsBytes(g, t) /\ Bytes(t) = g[1..k]
    BY <1>1, <2>1
  <2>4. PICK h : IsBytes(h, u) /\ Bytes(u) = h[1..(k - 1)]
    BY <1>1, <2>2
  <2>5. \A S \in SUBSET (1..Len(u)) : g[S] = h[S] /\ h[S] \in Nat
    <3>1. Len(u) <= Len(t) /\ \A j \in 1..Len(u) : u[j] = t[j]
      BY <2>1, <2>2
    <3>. QED
      BY <2>1, <2>2, <2>3, <2>4, <3>1, BytesAgree
  <2>6. g[1..(k - 1)] = h[1..(k - 1)] /\ h[1..(k - 1)] \in Nat
    BY <2>2, <2>5
  <2>7. Max(1..k) = k
    <3>1. k \in Int /\ 1 <= k
      OBVIOUS
    <3>2. PICK S : S = 1..k
      OBVIOUS
    <3>3. S \subseteq Int /\ k \in S /\ \A m \in S : m <= k
      BY <3>1, <3>2
    <3>4. IsFiniteSet(S)
      BY <3>1, <3>2, FS_Interval
    <3>5. Max(S) \in S /\ Max(S) >= k
      BY <3>3, <3>4, MaxIsLargest
    <3>6. PICK m \in Int : m = Max(S) /\ m <= k /\ m >= k
      BY <3>3, <3>5
    <3>. QED
      BY <3>1, <3>2, <3>6
  <2>8. g[1..k] = g[(1..k) \ {k}] + t[k]
    <3>1. PICK S : S = 1..k
      OBVIOUS
    <3>2. S \in SUBSET DOMAIN t /\ S # {} /\ Max(S) = k
      <4>1. S = DOMAIN t
        BY <2>1, <3>1
      <4>2. k \in S
        BY <3>1
      <4>3. Max(S) = k
        BY <2>7, <3>1
      <4>. QED
        BY <4>1, <4>2, <4>3
    <3>3. g[S] = g[S \ {Max(S)}] + t[Max(S)]
      <4>1. g[S] = IF S = {} THEN 0 ELSE g[S \ {Max(S)}] + t[Max(S)]
        BY <2>3, <3>2 DEF IsBytes
      <4>. QED
        BY <3>2, <4>1
    <3>. QED
      BY <3>1, <3>2, <3>3
  <2>9. (1..k) \ {k} = 1..(k - 1)
    OBVIOUS
  <2>10. t[k] = s[k]
    BY <2>1
  <2>11. Bytes(t) = Bytes(u) + s[k] /\ Bytes(u) \in Nat
    <3>1. g[(1..k) \ {k}] = h[1..(k - 1)]
      BY <2>6, <2>9
    <3>. QED
      BY <2>3, <2>4, <2>6, <2>8, <2>10, <3>1
  <2>. QED
    BY <2>1, <2>2, <2>11
<1>4. SubSeq(s, 1, Len(s)) = s
  BY SubSeqFull
<1>. QED
  BY <1>2, <1>3, <1>4

\* The byte offset of every codepoint, and of the end.
IsOffsets(B) ==
  /\ B \in [0..Len(text) -> Nat]
  /\ B[0] = 0 /\ B[Len(text)] = Bytes(text)
  /\ \A k \in 1..Len(text) : B[k] = B[k - 1] + text[k]
  /\ \A k \in 0..Len(text) : B[k] <= Bytes(text)
  /\ CutPoints = {B[k] : k \in 0..Len(text)}

LEMMA OffsetsExist ==
  ASSUME text \in Seq(Widths)
  PROVE  \E B : IsOffsets(B)
<1>. DEFINE n == Len(text)
            B == [k \in 0..n |-> Bytes(SubSeq(text, 1, k))]
<1>1. text \in Seq(Nat) /\ n \in Nat
  <2>1. n \in Nat /\ text \in [1..n -> Widths]
    OBVIOUS
  <2>2. Widths \subseteq Nat
    BY SplitAssumption
  <2>3. text \in [1..n -> Nat]
    BY <2>1, <2>2
  <2>. QED
    BY <2>1, <2>3
<1>2. /\ B[0] = 0 /\ B[n] = Bytes(text)
      /\ \A k \in 1..n : B[k - 1] \in Nat /\ B[k] = B[k - 1] + text[k]
  <2>1. 0 \in 0..n /\ n \in 0..n /\ \A k \in 1..n : k - 1 \in 0..n /\ k \in 0..n
    BY <1>1
  <2>2. /\ Bytes(SubSeq(text, 1, 0)) = 0 /\ Bytes(SubSeq(text, 1, n)) = Bytes(text)
        /\ \A k \in 1..n :
             /\ Bytes(SubSeq(text, 1, k - 1)) \in Nat
             /\ Bytes(SubSeq(text, 1, k)) = Bytes(SubSeq(text, 1, k - 1)) + text[k]
    BY <1>1, BytesOfPrefix
  <2>. QED
    BY <2>1, <2>2
<1>3. \A k \in 1..n : text[k] \in Nat
  BY <1>1
<1>4. \A k \in 0..n : B[k] \in Nat
  <2>1. ASSUME NEW k \in 0..n PROVE B[k] \in Nat
    <3>1. CASE k = 0
      BY <1>2, <3>1
    <3>2. CASE k # 0
      <4>1. k \in 1..n
        BY <1>1, <3>2
      <4>2. B[k - 1] \in Nat /\ B[k] = B[k - 1] + text[k] /\ text[k] \in Nat
        BY <1>2, <1>3, <4>1
      <4>. HIDE DEF B
      <4>. QED
        BY <4>2
    <3>. QED
      BY <3>1, <3>2
  <2>. QED
    BY <2>1
<1>5. \A k \in 0..n : B[k] <= Bytes(text)
  <2>. DEFINE Q == {m \in Nat : m <= n => B[n - m] <= Bytes(text)}
  <2>. HIDE DEF B
  <2>1. 0 \in Q
    <3>1. n - 0 = n /\ B[n] \in Nat
      BY <1>1, <1>4
    <3>. QED
      BY <1>2, <3>1
  <2>2. ASSUME NEW m \in Nat, m \in Q PROVE m + 1 \in Q
    <3>1. ASSUME m + 1 <= n PROVE B[n - (m + 1)] <= Bytes(text)
      <4>1. n - m \in 1..n /\ n - (m + 1) = n - m - 1 /\ n - (m + 1) \in 0..n
            /\ n - m \in 0..n
        BY <1>1, <3>1
      <4>2. B[n - m] = B[n - (m + 1)] + text[n - m]
        BY <1>2, <4>1
      <4>3. B[n - m] <= Bytes(text)
        BY <1>1, <2>2, <3>1
      <4>4. B[n - m] \in Nat /\ B[n - (m + 1)] \in Nat /\ text[n - m] \in Nat
        BY <1>3, <1>4, <4>1
      <4>5. Bytes(text) \in Nat
        <5>1. n \in 0..n
          BY <1>1
        <5>. QED
          BY <1>2, <1>4, <5>1
      <4>. QED
        BY <4>2, <4>3, <4>4, <4>5
    <3>. QED
      BY <3>1
  <2>3. Nat \subseteq Q
    <3>. HIDE DEF Q
    <3>. QED
      BY <2>1, <2>2, Induction
  <2>4. ASSUME NEW k \in 0..n PROVE B[k] <= Bytes(text)
    <3>1. n - k \in Nat /\ n - k <= n /\ n - (n - k) = k
      BY <1>1
    <3>2. n - k \in Q
      BY <2>3, <3>1
    <3>. QED
      BY <3>1, <3>2
  <2>. QED
    BY <2>4
<1>6. CutPoints = {B[k] : k \in 0..n}
  BY DEF CutPoints
<1>7. B \in [0..n -> Nat]
  BY <1>4
<1>8. \E C : IsOffsets(C)
  <2>. HIDE DEF B
  <2>. QED
    BY <1>2, <1>5, <1>6, <1>7 DEF IsOffsets
<1>. QED
  BY <1>8

\* The widest codepoint of the genome.
Widest == Max(ToSet(text))

LEMMA WidestBounds ==
  ASSUME text \in Seq(Widths), text # <<>>
  PROVE  /\ Widest \in Nat /\ Widest <= ChunkBytes
         /\ \A k \in 1..Len(text) : text[k] \in Nat /\ 1 <= text[k] /\ text[k] <= Widest
<1>1. Len(text) \in Nat /\ Len(text) >= 1 /\ DOMAIN text = 1..Len(text)
  OBVIOUS
<1>2. ToSet(text) = {text[k] : k \in 1..Len(text)} /\ ToSet(text) \subseteq Widths
  BY <1>1 DEF ToSet
<1>3. IsFiniteSet(ToSet(text))
  <2>1. IsFiniteSet(1..Len(text))
    BY <1>1, FS_Interval
  <2>2. IsFiniteSet({text[k] : k \in 1..Len(text)})
    BY <2>1, ImageFinite
  <2>. QED
    BY <1>2, <2>2
<1>4. ToSet(text) # {}
  <2>1. 1 \in 1..Len(text)
    BY <1>1
  <2>2. text[1] \in ToSet(text)
    BY <1>2, <2>1
  <2>. QED
    BY <2>2
<1>5. ToSet(text) \subseteq Int
  <2>1. \A w \in Widths : w \in Int
    BY SplitAssumption
  <2>2. \A w \in ToSet(text) : w \in Int
    BY <1>2, <2>1
  <2>. QED
    BY <2>2
<1>6. Widest \in ToSet(text) /\ \A w \in ToSet(text) : Widest >= w
  BY <1>3, <1>4, <1>5, MaxIsLargest DEF Widest
<1>7. Widest \in Widths /\ \A w \in Widths : w \in Nat /\ 1 <= w /\ w <= ChunkBytes
  BY <1>2, <1>6, SplitAssumption
<1>8. \A k \in 1..Len(text) : text[k] \in ToSet(text)
  BY <1>2
<1>9. ASSUME NEW k \in 1..Len(text)
      PROVE  text[k] \in Nat /\ 1 <= text[k] /\ text[k] <= Widest
  <2>1. text[k] \in Widths /\ Widest >= text[k]
    BY <1>2, <1>6, <1>8
  <2>. QED
    BY <1>7, <2>1
<1>. QED
  BY <1>7, <1>9

\* The next chunk is not empty, fits, ends between codepoints, and unless it is
\* the last leaves less of its slot unused than a codepoint takes.
LEMMA EndOfChunk ==
  ASSUME text \in Seq(Widths), offset \in CutPoints, offset < Bytes(text)
  PROVE  /\ End \in CutPoints /\ End \in Nat /\ offset \in Nat
         /\ offset < End /\ End <= offset + ChunkBytes
         /\ End = Bytes(text) \/ End >= offset + (ChunkBytes - Widest + 1)
<1>1. PICK B : IsOffsets(B)
  BY OffsetsExist
<1>2. PICK k \in 0..Len(text) : offset = B[k]
  BY <1>1 DEF IsOffsets
<1>3. PICK total \in Nat : total = Bytes(text) /\ total = B[Len(text)]
  BY <1>1 DEF IsOffsets
<1>4. k < Len(text) /\ text # <<>> /\ offset \in Nat
  BY <1>1, <1>2, <1>3 DEF IsOffsets
<1>5. /\ k + 1 \in 1..Len(text) /\ k + 1 \in 0..Len(text)
      /\ B[k + 1] = offset + text[k + 1] /\ B[k + 1] <= total
  <2>1. k + 1 \in 1..Len(text) /\ k + 1 \in 0..Len(text) /\ (k + 1) - 1 = k
    BY <1>4
  <2>2. B[k + 1] = B[k] + text[k + 1]
    BY <1>1, <2>1 DEF IsOffsets
  <2>. QED
    BY <1>1, <1>2, <1>3, <2>1, <2>2 DEF IsOffsets
<1>6. /\ Widest \in Nat /\ Widest <= ChunkBytes /\ ChunkBytes \in Nat
      /\ \A j \in 1..Len(text) : text[j] \in Nat /\ 1 <= text[j] /\ text[j] <= Widest
  BY <1>4, WidestBounds, SplitAssumption
<1>7. PICK far \in Nat :
        far = Furthest /\ far <= total /\ far <= offset + ChunkBytes
        /\ (far = total \/ far = offset + ChunkBytes) /\ B[k + 1] <= far
  <2>1. offset + ChunkBytes \in Int /\ total \in Int
    BY <1>3, <1>4, <1>6
  <2>2. Furthest = IF offset + ChunkBytes <= total THEN offset + ChunkBytes ELSE total
    BY <1>3, <2>1, MinOfTwo DEF Furthest
  <2>3. B[k + 1] <= offset + ChunkBytes
    BY <1>4, <1>5, <1>6
  <2>. QED
    BY <1>3, <1>4, <1>5, <1>6, <2>2, <2>3
<1>. DEFINE E == {e \in offset..Furthest : e = offset \/ e \in CutPoints}
<1>8. B[k + 1] \in E
  <2>1. B[k + 1] \in CutPoints /\ B[k + 1] \in Nat /\ B[k + 1] >= offset
    BY <1>1, <1>4, <1>5, <1>6 DEF IsOffsets
  <2>. QED
    BY <1>4, <1>7, <2>1
<1>9. IsFiniteSet(E) /\ E \subseteq Int /\ E # {}
  <2>1. IsFiniteSet(offset..far)
    BY <1>4, <1>7, FS_Interval
  <2>2. E \subseteq offset..far /\ E \subseteq Int
    BY <1>7
  <2>. QED
    BY <1>8, <2>1, <2>2, FS_Subset
<1>10. End \in E /\ \A e \in E : End >= e
  <2>1. End = Max(E)
    BY DEF End
  <2>. HIDE DEF E
  <2>. QED
    BY <1>9, <2>1, MaxIsLargest
<1>11. End \in Nat /\ End <= far /\ offset <= End
  BY <1>4, <1>7, <1>10
<1>12. End >= B[k + 1] /\ B[k + 1] > offset
  <2>. HIDE DEF E
  <2>1. text[k + 1] \in Nat /\ text[k + 1] >= 1
    BY <1>5, <1>6
  <2>. QED
    BY <1>4, <1>5, <1>8, <1>10, <2>1
<1>13. B[k + 1] \in Nat
  BY <1>1, <1>5 DEF IsOffsets
<1>14. offset < End /\ End \in CutPoints
  <2>1. offset < End
    BY <1>4, <1>11, <1>12, <1>13
  <2>. QED
    BY <1>10, <1>4, <2>1
<1>15. ASSUME End # total PROVE End >= offset + (ChunkBytes - Widest + 1)
  <2>1. PICK j \in 0..Len(text) : End = B[j]
    BY <1>1, <1>14 DEF IsOffsets
  <2>2. j # Len(text)
    BY <1>3, <1>15, <2>1
  <2>3. j + 1 \in 1..Len(text) /\ j + 1 \in 0..Len(text) /\ (j + 1) - 1 = j
    BY <2>2
  <2>4. /\ B[j + 1] = End + text[j + 1] /\ B[j + 1] \in Nat /\ B[j + 1] <= total
        /\ B[j + 1] \in CutPoints
    <3>1. B[j + 1] = B[j] + text[j + 1]
      BY <1>1, <2>3 DEF IsOffsets
    <3>. QED
      BY <1>1, <1>3, <2>1, <2>3, <3>1 DEF IsOffsets
  <2>5. text[j + 1] \in Nat /\ 1 <= text[j + 1] /\ text[j + 1] <= Widest
    BY <1>6, <2>3
  <2>6. B[j + 1] > far
    <3>1. CASE B[j + 1] <= far
      <4>1. B[j + 1] \in E
        BY <1>4, <1>7, <1>11, <2>4, <2>5, <3>1
      <4>. HIDE DEF E
      <4>2. End >= B[j + 1]
        BY <1>10, <4>1
      <4>. QED
        BY <1>11, <2>4, <2>5, <4>2
    <3>. QED
      BY <1>7, <2>4, <3>1
  <2>7. far = offset + ChunkBytes
    BY <1>3, <1>7, <2>4, <2>6
  <2>. QED
    BY <1>4, <1>6, <1>11, <2>4, <2>5, <2>6, <2>7
<1>16. End <= offset + ChunkBytes
  BY <1>4, <1>6, <1>7, <1>11
<1>. QED
  BY <1>3, <1>4, <1>11, <1>14, <1>15, <1>16

\* Beside the chunks being whole: each starts at the offset of a codepoint and
\* the last ends where the split is, and while there is something left every
\* chunk has used all of its slot but less than a codepoint.
Filled ==
  offset = Bytes(text) \/ offset >= Len(chunks) * (ChunkBytes - Widest + 1)

SplitInv ==
  /\ text \in Seq(Widths)
  /\ chunks \in Seq(Nat \X Nat) /\ Len(chunks) <= MaxChunks
  /\ offset \in CutPoints
  /\ offset = IF chunks = <<>> THEN 0 ELSE chunks[Len(chunks)][2]
  /\ ChunksWhole
  /\ Filled

LEMMA SplitInitially ==
  ASSUME SplitInit
  PROVE  SplitInv
<1>1. text \in Seq(Widths)
  <2>1. PICK m \in 0..MaxLength : text \in [1..m -> Widths]
    BY DEF SplitInit, SeqOf
  <2>2. m \in Nat
    BY <2>1, SplitAssumption
  <2>. QED
    BY <2>1, <2>2
<1>2. /\ offset = 0 /\ chunks = <<>> /\ Len(chunks) = 0 /\ MaxChunks \in Nat
      /\ ChunkBytes \in Nat
  BY SplitAssumption DEF SplitInit
<1>3. PICK B : IsOffsets(B)
  BY <1>1, OffsetsExist
<1>4. offset \in CutPoints
  <2>1. 0 \in 0..Len(text) /\ B[0] = 0
    BY <1>1, <1>3 DEF IsOffsets
  <2>. QED
    BY <1>2, <1>3, <2>1 DEF IsOffsets
<1>5. Filled
  <2>1. CASE text = <<>>
    <3>1. Len(text) = 0
      BY <2>1
    <3>. QED
      BY <1>2, <1>3, <3>1 DEF Filled, IsOffsets
  <2>2. CASE text # <<>>
    <3>1. PICK slot \in Int : slot = ChunkBytes - Widest + 1
      BY <1>1, <1>2, <2>2, WidestBounds
    <3>2. 0 * slot = 0
      OBVIOUS
    <3>. QED
      BY <1>2, <3>1, <3>2 DEF Filled
  <2>. QED
    BY <2>1, <2>2
<1>6. ChunksWhole
  BY <1>2 DEF ChunksWhole
<1>7. chunks \in Seq(Nat \X Nat)
  BY <1>2
<1>. QED
  BY <1>1, <1>2, <1>4, <1>5, <1>6, <1>7 DEF SplitInv

LEMMA SplitStep ==
  ASSUME SplitInv, [SplitNext]_splitVars
  PROVE  SplitInv'
<1>1. CASE UNCHANGED splitVars
  BY <1>1 DEF SplitInv, splitVars, ChunksWhole, Filled, CutPoints, Widest
<1>2. CASE Cut
  <2>. USE DEF SplitInv
  <2>1. /\ text' = text /\ CutPoints' = CutPoints /\ Widest' = Widest
        /\ Bytes(text)' = Bytes(text)
    BY <1>2 DEF Cut, CutPoints, Widest
  <2>0. PICK end : end = End
    OBVIOUS
  <2>2. PICK n \in Nat :
          /\ n = Len(chunks) /\ n < MaxChunks /\ end = End
          /\ chunks' = Append(chunks, <<offset, end>>) /\ offset' = end
    BY <1>2, <2>0 DEF Cut
  <2>3. /\ end \in CutPoints /\ end \in Nat /\ offset \in Nat
        /\ offset < end /\ end <= offset + ChunkBytes
        /\ end = Bytes(text) \/ end >= offset + (ChunkBytes - Widest + 1)
    <3>1. offset < Bytes(text)
      BY <1>2 DEF Cut
    <3>. QED
      BY <2>2, <3>1, EndOfChunk
  <2>4. /\ chunks' \in Seq(Nat \X Nat) /\ Len(chunks') = n + 1
        /\ chunks'[n + 1] = <<offset, end>>
        /\ \A k \in 1..n : chunks'[k] = chunks[k]
    BY <2>2, <2>3
  <2>5. chunks' # <<>> /\ Len(chunks') <= MaxChunks /\ MaxChunks \in Nat /\ ChunkBytes \in Nat
    BY <2>2, <2>4, SplitAssumption
  <2>6. offset' = IF chunks' = <<>> THEN 0 ELSE chunks'[Len(chunks')][2]
    BY <2>2, <2>4, <2>5
  <2>7. ASSUME NEW k \in 1..(n + 1)
        PROVE  /\ chunks'[k][1] < chunks'[k][2] /\ chunks'[k][2] - chunks'[k][1] <= ChunkBytes
               /\ chunks'[k][1] = IF k = 1 THEN 0 ELSE chunks'[k - 1][2]
               /\ chunks'[k][2] \in CutPoints
    <3>1. CASE k = n + 1
      <4>1. chunks'[k][1] = offset /\ chunks'[k][2] = end
        BY <2>4, <3>1
      <4>2. offset = IF k = 1 THEN 0 ELSE chunks'[k - 1][2]
        <5>1. CASE n = 0
          <6>1. chunks = <<>>
            <7>1. Len(chunks) = 0
              BY <2>2, <5>1
            <7>. QED
              BY <7>1
          <6>2. k = 1
            BY <2>2, <3>1, <5>1
          <6>. QED
            BY <6>1, <6>2
        <5>2. CASE n # 0
          <6>1. n \in 1..n /\ k - 1 = n /\ k # 1 /\ chunks # <<>>
            BY <2>2, <3>1, <5>2
          <6>2. offset = chunks[n][2]
            BY <2>2, <6>1
          <6>. QED
            BY <2>4, <6>1, <6>2
        <5>. QED
          BY <5>1, <5>2
      <4>3. end - offset <= ChunkBytes
        BY <2>3, <2>5
      <4>. QED
        BY <2>3, <4>1, <4>2, <4>3
    <3>2. CASE k \in 1..n
      <4>1. chunks'[k] = chunks[k] /\ (k # 1 => chunks'[k - 1] = chunks[k - 1])
        <5>1. k # 1 => k - 1 \in 1..n
          BY <2>2, <3>2
        <5>. QED
          BY <2>4, <3>2, <5>1
      <4>2. /\ chunks[k][1] < chunks[k][2] /\ chunks[k][2] - chunks[k][1] <= ChunkBytes
            /\ chunks[k][1] = IF k = 1 THEN 0 ELSE chunks[k - 1][2]
            /\ chunks[k][2] \in CutPoints
        BY <2>2, <3>2 DEF ChunksWhole
      <4>. QED
        BY <4>1, <4>2
    <3>. QED
      BY <3>1, <3>2
  <2>8. ChunksWhole'
    BY <2>1, <2>4, <2>7 DEF ChunksWhole
  <2>9. Filled'
    <3>1. CASE end = Bytes(text)
      BY <2>1, <2>2, <3>1 DEF Filled
    <3>2. CASE end # Bytes(text)
      <4>1. text # <<>>
        <5>1. PICK B : IsOffsets(B)
          BY OffsetsExist
        <5>2. offset < Bytes(text) /\ Bytes(text) = B[Len(text)] /\ B[0] = 0
          BY <1>2, <5>1 DEF Cut, IsOffsets
        <5>3. Len(text) # 0
          BY <2>3, <5>2
        <5>. QED
          BY <5>3
      <4>2. PICK slot \in Int : slot = ChunkBytes - Widest + 1
        BY <2>5, <4>1, WidestBounds
      <4>3. offset >= n * slot
        BY <1>2, <2>2, <4>2 DEF Cut, Filled
      <4>4. PICK used \in Int : used = n * slot /\ (n + 1) * slot = used + slot
        OBVIOUS
      <4>5. end >= used + slot
        <5>1. offset \in Int /\ end \in Int
          BY <2>3
        <5>2. end >= offset + slot
          <6>1. end >= offset + (ChunkBytes - Widest + 1)
            BY <2>3, <3>2
          <6>. QED
            BY <4>2, <6>1
        <5>3. offset >= used
          BY <4>3, <4>4
        <5>. QED
          BY <5>1, <5>2, <5>3
      <4>. QED
        BY <2>1, <2>2, <2>4, <4>2, <4>4, <4>5 DEF Filled
    <3>. QED
      BY <3>1, <3>2
  <2>. QED
    BY <2>1, <2>2, <2>3, <2>4, <2>5, <2>6, <2>8, <2>9
<1>. QED
  BY <1>1, <1>2 DEF SplitNext

LEMMA InvFits ==
  ASSUME SplitInv
  PROVE  ShortFits
<1>. USE DEF SplitInv
<1>. SUFFICES ASSUME Done, text # <<>>,
                     Bytes(text) <= MaxChunks * (ChunkBytes - Widest + 1),
                     offset # Bytes(text)
              PROVE  FALSE
  BY DEF ShortFits, Widest
<1>1. PICK B : IsOffsets(B)
  BY OffsetsExist
<1>2. offset \in Nat /\ offset <= Bytes(text) /\ Bytes(text) \in Nat
  BY <1>1 DEF IsOffsets
<1>3. Len(chunks) = MaxChunks
  BY DEF Done
<1>4. PICK room : room = MaxChunks * (ChunkBytes - Widest + 1)
  OBVIOUS
<1>5. offset >= room
  BY <1>3, <1>4 DEF Filled
<1>6. room \in Int
  <2>1. ChunkBytes - Widest + 1 \in Int /\ MaxChunks \in Int
    BY WidestBounds, SplitAssumption
  <2>. QED
    BY <1>4, <2>1
<1>. QED
  BY <1>2, <1>4, <1>5, <1>6

LEMMA SplitInvariant == SplitSpec => []SplitInv
<1>1. SplitInit => SplitInv
  BY SplitInitially
<1>2. SplitInv /\ [SplitNext]_splitVars => SplitInv'
  BY SplitStep
<1>. QED
  BY <1>1, <1>2, PTL DEF SplitSpec

\* Whatever the text and its codepoints' widths, split (dna_storage.py) never
\* makes an empty chunk, one that does not fit its slot or that ends inside a
\* codepoint, and leaves nothing out between two chunks.
THEOREM WholeChunks == SplitSpec => []ChunksWhole
<1>1. SplitInv => ChunksWhole
  BY DEF SplitInv
<1>. QED
  BY <1>1, SplitInvariant, PTL

\* A text no longer than MAX_CHUNKS chunks are sure to hold comes through whole,
\* where a chunk of CHUNK_BYTES may leave unused one byte less than the widest
\* codepoint has.
THEOREM ShortIsWhole == SplitSpec => []ShortFits
<1>1. SplitInv => ShortFits
  BY InvFits
<1>. QED
  BY <1>1, SplitInvariant, PTL

------------------------------------------------------------------------------
(***************************************************************************)
(* The genome interpreter.                                                 *)
(***************************************************************************)

LEMMA DigitValues ==
  ASSUME NEW ch \in DecimalDigits
  PROVE  DigitValue(ch) \in Nat
<1>1. DOMAIN Decimal = 1..10
  BY DEF Decimal
<1>2. PICK d \in DOMAIN Decimal : Decimal[d] = ch
  BY DEF DecimalDigits, ToSet
<1>3. (CHOOSE e \in DOMAIN Decimal : Decimal[e] = ch) \in DOMAIN Decimal
  BY <1>2
<1>4. PICK d1 \in 1..10 : d1 = (CHOOSE e \in DOMAIN Decimal : Decimal[e] = ch)
  <2>. HIDE DEF Decimal
  <2>. QED
    BY <1>1, <1>3
<1>5. DigitValue(ch) = d1 - 1
  BY <1>4, Zenon DEF DigitValue
<1>6. d1 - 1 \in Nat
  OBVIOUS
<1>. QED
  BY <1>5, <1>6

\* The equation that defines the fold of Number.
IsNumber(g, s) ==
  g = [S \in SUBSET DOMAIN s |->
         IF S = {} THEN 0 ELSE 10 * g[S \ {Max(S)}] + DigitValue(s[Max(S)])]

LEMMA NumberIsChosen ==
  ASSUME NEW s
  PROVE  Number(s) = (CHOOSE g : IsNumber(g, s))[DOMAIN s]
BY DEF Number, IsNumber, FoldLeft, MapThenFoldSet

LEMMA NumberExists ==
  ASSUME NEW s \in Seq(DecimalDigits)
  PROVE  \E g : IsNumber(g, s)
<1>. DEFINE D == DOMAIN s
            pick == [S \in SUBSET D |-> Max(S)]
            op == [p \in D \X Nat |-> 10 * p[2] + DigitValue(s[p[1]])]
<1>1. D = 1..Len(s) /\ IsFiniteSet(D) /\ D \subseteq Int
  BY FS_Interval
<1>2. \A S \in SUBSET D : S # {} => Max(S) \in S
  <2>1. ASSUME NEW S \in SUBSET D, S # {} PROVE Max(S) \in S
    <3>1. IsFiniteSet(S) /\ S \subseteq Int
      BY <1>1, FS_Subset
    <3>. QED
      BY <2>1, <3>1, MaxIsLargest
  <2>. QED
    BY <2>1
<1>3. \A S \in SUBSET D : S # {} => pick[S] \in S
  BY <1>2
<1>4. \A x \in D : DigitValue(s[x]) \in Nat
  BY DigitValues
<1>5. /\ op \in [D \X Nat -> Nat] /\ 0 \in Nat
      /\ \A x \in D, v \in Nat : op[<<x, v>>] = 10 * v + DigitValue(s[x])
  BY <1>4
<1>6. Foldable(D, Nat, 0, pick, op)
  <2>. HIDE DEF D, pick, op
  <2>. QED
    BY <1>1, <1>3, <1>5 DEF Foldable
<1>7. PICK g : IsFold(g, D, Nat, 0, pick, op)
  <2>. HIDE DEF D, pick, op
  <2>. QED
    BY <1>6, FoldExists
<1>8. g \in [SUBSET D -> Nat]
  BY <1>7 DEF IsFold
<1>9. ASSUME NEW S \in SUBSET D
      PROVE  g[S] = IF S = {} THEN 0 ELSE 10 * g[S \ {Max(S)}] + DigitValue(s[Max(S)])
  <2>1. g[S] = IF S = {} THEN 0 ELSE op[<<pick[S], g[S \ {pick[S]}]>>]
    BY <1>7 DEF IsFold
  <2>2. pick[S] = Max(S)
    OBVIOUS
  <2>3. CASE S # {}
    <3>1. Max(S) \in D /\ g[S \ {Max(S)}] \in Nat
      BY <1>2, <1>8, <2>3
    <3>2. op[<<Max(S), g[S \ {Max(S)}]>>] = 10 * g[S \ {Max(S)}] + DigitValue(s[Max(S)])
      BY <1>5, <3>1
    <3>. HIDE DEF op, pick
    <3>. QED
      BY <2>1, <2>2, <2>3, <3>2
  <2>. QED
    BY <2>1, <2>3
<1>10. IsNumber(g, s)
  BY <1>8, <1>9 DEF IsNumber
<1>. QED
  BY <1>10

LEMMA NumberType ==
  ASSUME NEW s \in Seq(DecimalDigits)
  PROVE  Number(s) \in Nat
<1>. DEFINE D == 1..Len(s)
<1>1. PICK g : IsNumber(g, s) /\ Number(s) = g[D]
  <2>1. D = DOMAIN s
    OBVIOUS
  <2>. QED
    BY <2>1, NumberExists, NumberIsChosen
<1>. DEFINE P == {S \in SUBSET D : g[S] \in Nat}
<1>2. IsFiniteSet(D) /\ D \subseteq Int
  BY FS_Interval
<1>3. \A S \in SUBSET D :
        g[S] = IF S = {} THEN 0 ELSE 10 * g[S \ {Max(S)}] + DigitValue(s[Max(S)])
  <2>1. D = DOMAIN s
    OBVIOUS
  <2>. HIDE DEF D
  <2>. QED
    BY <1>1, <2>1 DEF IsNumber
<1>4. {} \in P
  <2>1. {} \in SUBSET D
    OBVIOUS
  <2>2. g[{}] = 0
    BY <1>3, <2>1
  <2>. QED
    BY <2>1, <2>2
<1>5. ASSUME NEW S \in SUBSET D, S # {}, \A x \in S : S \ {x} \in P
      PROVE  S \in P
  <2>1. IsFiniteSet(S) /\ S \subseteq Int
    <3>. HIDE DEF D
    <3>. QED
      BY <1>2, FS_Subset
  <2>2. PICK m \in S : m = Max(S)
    BY <1>5, <2>1, MaxIsLargest
  <2>3. g[S \ {m}] \in Nat
    BY <1>5, <2>2
  <2>4. DigitValue(s[m]) \in Nat
    BY <2>2, DigitValues
  <2>5. g[S] = 10 * g[S \ {m}] + DigitValue(s[m])
    BY <1>3, <1>5, <2>2
  <2>. QED
    BY <2>3, <2>4, <2>5
<1>6. SUBSET D \subseteq P
  <2>. HIDE DEF P, D
  <2>. QED
    BY <1>2, <1>4, <1>5, SetInduction
<1>7. D \in SUBSET D
  OBVIOUS
<1>8. g[D] \in Nat
  <2>. HIDE DEF D
  <2>. QED
    BY <1>6, <1>7
<1>. QED
  BY <1>1, <1>8

\* The operations on the stack.
LEMMA StackOperations ==
  ASSUME NEW st \in Seq(Nat), Len(st) <= MaxStack
  PROVE  /\ Top(st) \in Nat
         /\ Rest(st) \in Seq(Nat) /\ Len(Rest(st)) <= MaxStack
         /\ \A v \in Nat : Push(st, v) \in Seq(Nat) /\ Len(Push(st, v)) <= MaxStack
<1>1. MaxStack \in Nat /\ Len(st) \in Nat
  BY GenomeAssumption
<1>2. Top(st) \in Nat /\ Rest(st) \in Seq(Nat) /\ Len(Rest(st)) <= MaxStack
  <2>1. CASE st = <<>>
    BY <2>1 DEF Top, Rest
  <2>2. CASE st # <<>>
    <3>1. Len(st) \in 1..Len(st) /\ Len(st) - 1 \in 0..Len(st)
      BY <1>1, <2>2
    <3>2. st[Len(st)] \in Nat
      BY <3>1
    <3>3. SubSeq(st, 1, Len(st) - 1) \in Seq(Nat) /\ Len(SubSeq(st, 1, Len(st) - 1)) = Len(st) - 1
      BY <3>1, PrefixValues
    <3>. QED
      BY <1>1, <2>2, <3>2, <3>3 DEF Top, Rest, Last, Front
  <2>. QED
    BY <2>1, <2>2
<1>3. ASSUME NEW v \in Nat PROVE Push(st, v) \in Seq(Nat) /\ Len(Push(st, v)) <= MaxStack
  BY <1>1 DEF Push
<1>. QED
  BY <1>2, <1>3

\* The digits after a position end no later than the genome.
LEMMA DigitRunEnds ==
  ASSUME genome \in Seq(STRING), NEW p \in 1..Len(genome)
  PROVE  /\ DigitRun(p) \in Seq(STRING)
         /\ Len(DigitRun(p)) \in Nat /\ p + Len(DigitRun(p)) <= Len(genome)
<1>1. PICK n \in Nat : n = Len(genome) /\ p \in 1..n /\ p \in Nat
  OBVIOUS
<1>. DEFINE E == {q \in (p + 1)..(n + 1) : q = n + 1 \/ ~IsDigit(genome[q])}
<1>2. IsFiniteSet(E) /\ E \subseteq Int /\ E # {}
  <2>1. n + 1 \in E
    BY <1>1
  <2>2. IsFiniteSet((p + 1)..(n + 1))
    BY <1>1, FS_Interval
  <2>3. E \subseteq (p + 1)..(n + 1) /\ E \subseteq Int
    OBVIOUS
  <2>. HIDE DEF E
  <2>. QED
    BY <2>1, <2>2, <2>3, FS_Subset
<1>3. PICK stop \in E : stop = Min(E)
  <2>. HIDE DEF E
  <2>. QED
    BY <1>2, MinIsSmallest
<1>4. DigitRun(p) = SubSeq(genome, p + 1, stop - 1)
  BY <1>1, <1>3 DEF DigitRun
<1>5. stop \in Int /\ p + 1 <= stop /\ stop <= n + 1
  BY <1>1, <1>3
<1>6. \A k \in (p + 1)..(stop - 1) : genome[k] \in STRING
  BY <1>1, <1>5
<1>7. /\ SubSeq(genome, p + 1, stop - 1) \in Seq(STRING)
      /\ Len(SubSeq(genome, p + 1, stop - 1))
           = IF p + 1 <= stop - 1 THEN (stop - 1) - (p + 1) + 1 ELSE 0
  <2>1. p + 1 \in Int /\ stop - 1 \in Int
    BY <1>1, <1>5
  <2>. HIDE DEF E
  <2>. QED
    BY <1>6, <2>1, SubSeqProperties
<1>8. Len(SubSeq(genome, p + 1, stop - 1)) = stop - 1 - p
  BY <1>1, <1>5, <1>7
<1>. QED
  BY <1>1, <1>4, <1>5, <1>7, <1>8

LEMMA TagsInTable ==
  ASSUME NEW x, NEW y
  PROVE  <<Get(SevTags, x, "OK"), Get(CodeTags, y, "OK")>> \in Verdicts
<1>1. "O" \in DOMAIN SevTags /\ SevTags["O"] = "OK"
  BY DEF SevTags
<1>2. "o" \in DOMAIN CodeTags /\ CodeTags["o"] = "OK"
  BY DEF CodeTags
<1>3. Get(SevTags, x, "OK") \in {SevTags[z] : z \in DOMAIN SevTags}
  BY <1>1 DEF Get
<1>4. Get(CodeTags, y, "OK") \in {CodeTags[z] : z \in DOMAIN CodeTags}
  BY <1>2 DEF Get
<1>. QED
  BY <1>3, <1>4 DEF Verdicts

\* The genome and the frame are those of the call.
GenomeInv ==
  /\ genome \in Seq(STRING)
  /\ \A key \in DOMAIN frame : frame[key] \in Nat
  /\ TypeOK

LEMMA GenomeInitially ==
  ASSUME Init
  PROVE  GenomeInv
<1>1. PICK in \in Inputs : Start(in[1], in[2])
  BY DEF Init
<1>2. genome \in Seq(STRING) /\ \A key \in DOMAIN frame : frame[key] \in Nat
  BY <1>1, GenomeAssumption DEF Start
<1>3. i \in 1..(Len(genome) + 3) /\ stack \in Seq(Nat) /\ Len(stack) <= MaxStack
  <2>1. i = 1 /\ stack = <<>> /\ Len(genome) \in Nat /\ MaxStack \in Nat
    BY <1>1, <1>2, GenomeAssumption DEF Start
  <2>. QED
    BY <2>1
<1>4. verdict = Running
  BY <1>1 DEF Start
<1>. QED
  BY <1>2, <1>3, <1>4 DEF GenomeInv, TypeOK

\* A branch that goes on with another stack and another position.
LEMMA ThenKeeps ==
  ASSUME GenomeInv, NEW st, NEW next, Then(st, next),
         st \in Seq(Nat), Len(st) <= MaxStack, next \in 1..(Len(genome) + 3)
  PROVE  GenomeInv'
BY DEF GenomeInv, TypeOK, Then

LEMMA ReturnKeeps ==
  ASSUME GenomeInv, NEW v, Return(v), v \in Verdicts \union {Running, Raised}
  PROVE  GenomeInv'
BY DEF GenomeInv, TypeOK, Return, Verdicts

LEMMA GenomeStep ==
  ASSUME GenomeInv, [Next]_vars
  PROVE  GenomeInv'
<1>1. /\ genome \in Seq(STRING) /\ Len(genome) \in Nat /\ i \in Nat /\ i >= 1
      /\ stack \in Seq(Nat) /\ Len(stack) <= MaxStack /\ MaxStack \in Nat
  BY GenomeAssumption DEF GenomeInv, TypeOK
<1>2. \A op : At(op) => i <= Len(genome) /\ i + 1 \in 1..(Len(genome) + 3)
                       /\ i + 2 \in 1..(Len(genome) + 3) /\ i + 3 \in 1..(Len(genome) + 3)
  BY <1>1 DEF At
<1>3. /\ Top(stack) \in Nat /\ Top(Rest(stack)) \in Nat
      /\ Rest(stack) \in Seq(Nat) /\ Len(Rest(stack)) <= MaxStack
      /\ Rest(Rest(stack)) \in Seq(Nat) /\ Len(Rest(Rest(stack))) <= MaxStack
  BY <1>1, StackOperations
<1>4. /\ <<>> \in Seq(Nat) /\ Len(<<>>) <= MaxStack
      /\ \A v \in Nat :
           /\ Push(stack, v) \in Seq(Nat) /\ Len(Push(stack, v)) <= MaxStack
           /\ Push(Rest(stack), v) \in Seq(Nat) /\ Len(Push(Rest(stack), v)) <= MaxStack
           /\ Push(Rest(Rest(stack)), v) \in Seq(Nat)
           /\ Len(Push(Rest(Rest(stack)), v)) <= MaxStack
  <2>1. <<>> \in Seq(Nat) /\ Len(<<>>) <= MaxStack
    BY <1>1
  <2>2. ASSUME NEW st \in {stack, Rest(stack), Rest(Rest(stack))}
        PROVE  \A v \in Nat : Push(st, v) \in Seq(Nat) /\ Len(Push(st, v)) <= MaxStack
    BY <1>1, <1>3, StackOperations
  <2>. QED
    BY <2>1, <2>2
<1>5. \A b : Truth(b) \in Nat
  BY DEF Truth
<1>6. CASE UNCHANGED vars
  BY <1>6 DEF vars, GenomeInv, TypeOK, Verdicts
<1>7. CASE Separator
  BY <1>2, <1>4, <1>7, ThenKeeps DEF Separator
<1>8. CASE Emit
  BY <1>8, TagsInTable, ReturnKeeps DEF Emit
<1>9. CASE EmitNot
  BY <1>2, <1>3, <1>9, ThenKeeps DEF EmitNot
<1>10. CASE Load
  <2>1. PICK st : Then(st, i + 2) /\ st \in Seq(Nat) /\ Len(st) <= MaxStack
    <3>1. PICK table, sig :
            Then(IF sig \in DOMAIN table
                 THEN Push(stack, Get(frame, table[sig], 0)) ELSE stack, i + 2)
      BY <1>10 DEF Load
    <3>2. Get(frame, table[sig], 0) \in Nat
      BY DEF Get, GenomeInv
    <3>. QED
      BY <1>1, <1>4, <3>1, <3>2
  <2>2. i + 2 \in 1..(Len(genome) + 3)
    BY <1>2, <1>10 DEF Load
  <2>. QED
    BY <2>1, <2>2, ThenKeeps
<1>11. CASE Integer
  <2>1. i \in 1..Len(genome)
    BY <1>1, <1>2, <1>11 DEF Integer
  <2>2. PICK digits : digits = DigitRun(i)
    OBVIOUS
  <2>3. digits \in Seq(STRING) /\ Len(digits) \in Nat /\ i + Len(digits) <= Len(genome)
    BY <1>1, <2>1, <2>2, DigitRunEnds
  <2>4. CASE Converts(digits)
    <3>1. digits \in Seq(DecimalDigits)
      <4>1. \A k \in 1..Len(digits) : digits[k] \in DecimalDigits
        BY <2>3, <2>4 DEF Converts, ToSet
      <4>. QED
        BY <2>3, <4>1
    <3>2. Number(digits) \in Nat
      BY <3>1, NumberType
    <3>3. Then(Push(stack, Number(digits)), i + 1 + Len(digits))
      BY <1>11, <2>2, <2>4 DEF Integer
    <3>4. i + 1 + Len(digits) \in 1..(Len(genome) + 3)
      BY <1>1, <2>3
    <3>. QED
      BY <1>4, <3>2, <3>3, <3>4, ThenKeeps
  <2>5. CASE ~Converts(digits)
    <3>1. Return(Raised)
      BY <1>11, <2>2, <2>5 DEF Integer
    <3>. QED
      BY <3>1, ReturnKeeps
  <2>. QED
    BY <2>4, <2>5
<1>12. CASE Digit
  <2>1. CASE Converts(<<Ch>>)
    <3>1. Ch \in DecimalDigits
      BY <2>1 DEF Converts, ToSet
    <3>2. Then(Push(stack, DigitValue(Ch)), i + 1)
      BY <1>12, <2>1 DEF Digit
    <3>3. i + 1 \in 1..(Len(genome) + 3)
      BY <1>2, <1>12 DEF Digit
    <3>. QED
      BY <1>4, <3>1, <3>2, <3>3, DigitValues, ThenKeeps
  <2>2. CASE ~Converts(<<Ch>>)
    BY <1>12, <2>2, ReturnKeeps DEF Digit
  <2>. QED
    BY <2>1, <2>2
<1>13. CASE Compare
  BY <1>2, <1>4, <1>5, <1>13, ThenKeeps DEF Compare
<1>14. CASE And
  BY <1>2, <1>4, <1>5, <1>14, ThenKeeps DEF And
<1>15. CASE Or
  BY <1>2, <1>4, <1>5, <1>15, ThenKeeps DEF Or
<1>16. CASE Not
  BY <1>2, <1>4, <1>5, <1>16, ThenKeeps DEF Not
<1>17. CASE Unknown
  BY <1>1, <1>2, <1>17, ThenKeeps DEF Unknown
<1>18. CASE Finish
  <2>1. Return(<<"OK", "OK">>)
    BY <1>18 DEF Finish
  <2>2. <<"OK", "OK">> \in Verdicts
    <3>1. Get(SevTags, "O", "OK") = "OK" /\ Get(CodeTags, "o", "OK") = "OK"
      BY DEF Get, SevTags, CodeTags
    <3>. QED
      BY <3>1, TagsInTable
  <2>. QED
    BY <2>1, <2>2, ReturnKeeps
<1>. QED
  BY <1>6, <1>7, <1>8, <1>9, <1>10, <1>11, <1>12, <1>13, <1>14, <1>15, <1>16, <1>17, <1>18
     DEF Next

\* Whatever the genome, grown, evolved, torn or mixed, interpret (genome.py) keeps
\* its stack within its bound, never reads more than it has, and any verdict it
\* comes to is a severity and a code of its tables.
THEOREM InterpreterTyping == Spec => []TypeOK
<1>1. Init => GenomeInv
  BY GenomeInitially
<1>2. GenomeInv /\ [Next]_vars => GenomeInv'
  BY GenomeStep
<1>3. GenomeInv => TypeOK
  BY DEF GenomeInv
<1>. QED
  BY <1>1, <1>2, <1>3, PTL DEF Spec
------------------------------------------------------------------------------
(***************************************************************************)
(* The kernel probe's genomes.  The interpreter is walked through them,    *)
(* character by character, for arbitrary readings.                         *)
(***************************************************************************)
\* Putting a value on a stack that has room, and what is then on top and below.
LEMMA PushPops ==
  ASSUME NEW st \in Seq(Nat), Len(st) < MaxStack, NEW v \in Nat
  PROVE  /\ Push(st, v) \in Seq(Nat) /\ Len(Push(st, v)) = Len(st) + 1
         /\ Top(Push(st, v)) = v /\ Rest(Push(st, v)) = st
<1>1. MaxStack \in Nat /\ Len(st) \in Nat
  BY GenomeAssumption
<1>2. PICK pushed : pushed = Append(st, v) /\ pushed = Push(st, v)
  BY <1>1 DEF Push
<1>3. /\ pushed \in Seq(Nat) /\ Len(pushed) = Len(st) + 1 /\ pushed # <<>>
      /\ pushed[Len(pushed)] = v /\ \A k \in 1..Len(st) : pushed[k] = st[k]
  <2>1. /\ Append(st, v) \in Seq(Nat) /\ Append(st, v) # <<>>
        /\ Len(Append(st, v)) = Len(st) + 1
        /\ \A k \in 1..Len(st) : Append(st, v)[k] = st[k]
        /\ Append(st, v)[Len(st) + 1] = v
    BY AppendProperties
  <2>. QED
    BY <1>1, <1>2, <2>1
<1>4. Top(pushed) = v
  BY <1>3 DEF Top, Last
<1>5. Rest(pushed) = SubSeq(pushed, 1, Len(st))
  BY <1>1, <1>3 DEF Rest, Front
<1>6. SubSeq(pushed, 1, Len(st)) = st
  <2>1. Len(st) \in 0..Len(pushed)
    BY <1>1, <1>3
  <2>2. PICK low : low = SubSeq(pushed, 1, Len(st)) /\ low \in Seq(Nat)
                   /\ Len(low) = Len(st) /\ \A k \in 1..Len(st) : low[k] = pushed[k]
    <3>1. /\ SubSeq(pushed, 1, Len(st)) \in Seq(Nat) /\ Len(SubSeq(pushed, 1, Len(st))) = Len(st)
          /\ \A k \in 1..Len(st) : SubSeq(pushed, 1, Len(st))[k] = pushed[k]
      BY <1>3, <2>1, PrefixValues
    <3>. QED
      BY <3>1
  <2>3. DOMAIN low = 1..Len(st) /\ DOMAIN st = 1..Len(st)
    BY <2>2
  <2>4. low = st
    BY <1>3, <2>2, <2>3
  <2>. QED
    BY <2>2, <2>4
<1>. QED
  BY <1>2, <1>3, <1>4, <1>5, <1>6

\* An empty stack has a top of zero, and popping leaves it empty.
LEMMA EmptyStack == <<>> \in Seq(Nat) /\ Len(<<>>) = 0 /\ Top(<<>>) = 0 /\ Rest(<<>>) = <<>>
BY DEF Top, Rest

\* The decimal digits, and the values of those that the genomes have.
LEMMA Digits ==
  /\ DecimalDigits = {"0", "1", "2", "3", "4", "5", "6", "7", "8", "9"}
  /\ DigitValue("0") = 0 /\ DigitValue("1") = 1 /\ DigitValue("2") = 2
  /\ DigitValue("3") = 3 /\ DigitValue("5") = 5 /\ DigitValue("8") = 8
<1>1. DOMAIN Decimal = 1..10
  BY DEF Decimal
<1>2. /\ Decimal[1] = "0" /\ Decimal[2] = "1" /\ Decimal[3] = "2" /\ Decimal[4] = "3"
      /\ Decimal[5] = "4" /\ Decimal[6] = "5" /\ Decimal[7] = "6" /\ Decimal[8] = "7"
      /\ Decimal[9] = "8" /\ Decimal[10] = "9"
  BY DEF Decimal
<1>3. 1..10 = {1, 2, 3, 4, 5, 6, 7, 8, 9, 10}
  OBVIOUS
<1>4. DecimalDigits = {Decimal[d] : d \in 1..10}
  BY <1>1 DEF DecimalDigits, ToSet
<1>5. DecimalDigits = {"0", "1", "2", "3", "4", "5", "6", "7", "8", "9"}
  BY <1>2, <1>3, <1>4
<1>6. ASSUME NEW n \in 1..10, \A d \in 1..10 : Decimal[d] = Decimal[n] => d = n
      PROVE  DigitValue(Decimal[n]) = n - 1
  <2>1. (CHOOSE d \in DOMAIN Decimal : Decimal[d] = Decimal[n]) = n
    BY <1>1, <1>6
  <2>. QED
    BY <2>1, Zenon DEF DigitValue
<1>7. DigitValue("0") = 1 - 1
  BY <1>2, <1>3, <1>6
<1>8. DigitValue("1") = 2 - 1
  BY <1>2, <1>3, <1>6
<1>9. DigitValue("2") = 3 - 1
  BY <1>2, <1>3, <1>6
<1>10. DigitValue("3") = 4 - 1
  BY <1>2, <1>3, <1>6
<1>11. DigitValue("5") = 6 - 1
  BY <1>2, <1>3, <1>6
<1>12. DigitValue("8") = 9 - 1
  BY <1>2, <1>3, <1>6
<1>. QED
  BY <1>5, <1>7, <1>8, <1>9, <1>10, <1>11, <1>12

\* The digits up to a character that is none.
LEMMA DigitRunIs ==
  ASSUME Len(genome) \in Nat, NEW p \in 1..Len(genome),
         NEW stop \in (p + 1)..Len(genome), ~IsDigit(genome[stop]),
         \A q \in (p + 1)..(stop - 1) : IsDigit(genome[q])
  PROVE  DigitRun(p) = SubSeq(genome, p + 1, stop - 1)
<1>1. PICK n \in Nat : n = Len(genome) /\ p \in 1..n /\ p \in Nat /\ stop \in Nat /\ stop <= n
                      /\ p + 1 <= stop
  OBVIOUS
<1>. DEFINE E == {q \in (p + 1)..(n + 1) : q = n + 1 \/ ~IsDigit(genome[q])}
<1>2. IsFiniteSet(E) /\ E \subseteq Int /\ stop \in E
  <2>1. stop \in E
    BY <1>1
  <2>2. IsFiniteSet((p + 1)..(n + 1))
    BY <1>1, FS_Interval
  <2>3. E \subseteq (p + 1)..(n + 1) /\ E \subseteq Int
    OBVIOUS
  <2>. HIDE DEF E
  <2>. QED
    BY <2>1, <2>2, <2>3, FS_Subset
<1>3. Min(E) \in E /\ Min(E) <= stop
  <2>. HIDE DEF E
  <2>1. E # {}
    BY <1>2
  <2>. QED
    BY <1>2, <2>1, MinIsSmallest
<1>4. PICK m \in E : m = Min(E) /\ m <= stop
  BY <1>3
<1>5. m = stop
  <2>1. m \in Nat /\ p + 1 <= m /\ m <= stop
    BY <1>1, <1>4
  <2>2. CASE m < stop
    <3>1. m \in (p + 1)..(stop - 1) /\ m # n + 1
      BY <1>1, <2>1, <2>2
    <3>. QED
      BY <1>4, <3>1
  <2>. QED
    BY <1>1, <2>1, <2>2
<1>6. DigitRun(p) = SubSeq(genome, p + 1, Min(E) - 1)
  BY <1>1 DEF DigitRun
<1>. HIDE DEF E
<1>. QED
  BY <1>4, <1>5, <1>6

\* Numbers of one digit, of two and of three.
LEMMA SmallNumbers ==
  ASSUME NEW s \in Seq(DecimalDigits)
  PROVE  /\ Len(s) = 1 => Number(s) = DigitValue(s[1])
         /\ Len(s) = 2 => Number(s) = 10 * DigitValue(s[1]) + DigitValue(s[2])
         /\ Len(s) = 3 => Number(s) = 10 * (10 * DigitValue(s[1]) + DigitValue(s[2]))
                                      + DigitValue(s[3])
<1>1. PICK g : IsNumber(g, s) /\ Number(s) = g[DOMAIN s]
  BY NumberExists, NumberIsChosen
<1>2. DOMAIN s = 1..Len(s) /\ \A k \in 1..Len(s) : DigitValue(s[k]) \in Nat
  BY DigitValues
<1>3. ASSUME NEW S \in SUBSET DOMAIN s
      PROVE  g[S] = IF S = {} THEN 0 ELSE 10 * g[S \ {Max(S)}] + DigitValue(s[Max(S)])
  BY <1>1 DEF IsNumber
<1>4. ASSUME 1 \in DOMAIN s PROVE g[{1}] = DigitValue(s[1])
  <2>1. g[{}] = 0
    BY <1>3
  <2>2. Max({1}) = 1
    BY MaxOfTwo
  <2>3. {1} \ {1} = {} /\ {1} \in SUBSET DOMAIN s /\ {1} # {}
    BY <1>4
  <2>4. g[{1}] = 10 * g[{}] + DigitValue(s[1])
    BY <1>3, <2>2, <2>3
  <2>. QED
    BY <1>2, <1>4, <2>1, <2>4
<1>5. ASSUME 1 \in DOMAIN s, 2 \in DOMAIN s
      PROVE  g[{1, 2}] = 10 * DigitValue(s[1]) + DigitValue(s[2])
  <2>1. Max({1, 2}) = 2
    BY MaxOfTwo
  <2>2. {1, 2} \ {2} = {1} /\ {1, 2} \in SUBSET DOMAIN s /\ {1, 2} # {}
    BY <1>5
  <2>3. g[{1, 2}] = 10 * g[{1}] + DigitValue(s[2])
    BY <1>3, <2>1, <2>2
  <2>. QED
    BY <1>4, <1>5, <2>3
<1>6. ASSUME Len(s) = 1 PROVE Number(s) = DigitValue(s[1])
  <2>1. DOMAIN s = {1}
    BY <1>2, <1>6
  <2>. QED
    BY <1>1, <1>4, <2>1
<1>7. ASSUME Len(s) = 2 PROVE Number(s) = 10 * DigitValue(s[1]) + DigitValue(s[2])
  <2>1. DOMAIN s = {1, 2}
    BY <1>2, <1>7
  <2>. QED
    BY <1>1, <1>5, <2>1
<1>8. ASSUME Len(s) = 3
      PROVE  Number(s) = 10 * (10 * DigitValue(s[1]) + DigitValue(s[2])) + DigitValue(s[3])
  <2>1. DOMAIN s = {1, 2, 3}
    BY <1>2, <1>8
  <2>2. Max({1, 2, 3}) = 3
    <3>1. IsFiniteSet({1, 2, 3}) /\ {1, 2, 3} \subseteq Int /\ {1, 2, 3} # {}
      <4>1. PICK a \in Int, b \in Int : a = 1 /\ b = 3
        OBVIOUS
      <4>2. IsFiniteSet(a..b)
        BY FS_Interval
      <4>3. a..b = {1, 2, 3}
        BY <4>1
      <4>4. IsFiniteSet({1, 2, 3})
        BY <4>2, <4>3
      <4>5. {1, 2, 3} \subseteq Int /\ {1, 2, 3} # {}
        OBVIOUS
      <4>. QED
        BY <4>4, <4>5
    <3>2. Max({1, 2, 3}) \in {1, 2, 3} /\ \A n \in {1, 2, 3} : n <= Max({1, 2, 3})
      BY <3>1, MaxIsLargest
    <3>. QED
      BY <3>2
  <2>3. {1, 2, 3} \ {3} = {1, 2} /\ {1, 2, 3} \in SUBSET DOMAIN s /\ {1, 2, 3} # {}
    BY <2>1
  <2>4. g[{1, 2, 3}] = 10 * g[{1, 2}] + DigitValue(s[3])
    BY <1>3, <2>2, <2>3
  <2>. QED
    BY <1>1, <1>5, <2>1, <2>4
<1>. QED
  BY <1>6, <1>7, <1>8

\* No character of the load table means anything else.
TableApart == \A ch \in DOMAIN Opcodes : ch \notin Known /\ ~IsDigit(ch)

\* The branch of the interpreter that a character is for.
LEMMA Branches ==
  ASSUME TableApart, Next, verdict = Running, i \in Nat, Len(genome) \in Nat, i <= Len(genome)
  PROVE  /\ Ch = ";" => Separator
         /\ Ch = "->" => Emit \/ EmitNot
         /\ Ch \in DOMAIN Opcodes /\ IsLoad => Load
         /\ Ch = "#" => Integer
         /\ Ch \in DecimalDigits => Digit
         /\ Ch \in Comparators => Compare
         /\ Ch = "and" => And
<1>1. /\ Separator => Ch = ";"
      /\ Emit \/ EmitNot => Ch = "->"
      /\ Load => Ch \in DOMAIN Opcodes /\ IsLoad
      /\ Integer => Ch = "#"
      /\ Digit => IsDigit(Ch)
      /\ Compare => Ch \in Comparators
      /\ And => Ch = "and"
      /\ Or => Ch = "or"
      /\ Not => Ch = "not"
      /\ Unknown => Ch \notin Known /\ ~IsDigit(Ch) /\ ~IsLoad
      /\ ~Finish
  <2>1. Separator => Ch = ";"
    BY DEF Separator, At
  <2>2. Emit \/ EmitNot => Ch = "->"
    BY DEF Emit, EmitNot, At
  <2>3. Load => Ch \in DOMAIN Opcodes /\ IsLoad
    BY DEF Load, At
  <2>4. Integer => Ch = "#"
    BY DEF Integer, At
  <2>5. Digit => IsDigit(Ch)
    BY DEF Digit
  <2>6. Compare => Ch \in Comparators
    BY DEF Compare, At
  <2>7. (And => Ch = "and") /\ (Or => Ch = "or") /\ (Not => Ch = "not")
    BY DEF And, Or, Not, At
  <2>8. Unknown => Ch \notin Known /\ ~IsDigit(Ch) /\ ~IsLoad
    BY DEF Unknown
  <2>9. ~Finish
    BY DEF Finish
  <2>. QED
    BY <2>1, <2>2, <2>3, <2>4, <2>5, <2>6, <2>7, <2>8, <2>9
<1>2. Known = {";", "->", "#", "and", "or", "not", ">", "<", ">=", "<=", "=", "/="}
  BY DEF Known, Comparators
<1>3. DecimalDigits = {"0", "1", "2", "3", "4", "5", "6", "7", "8", "9"}
  BY Digits
<1>4. \A ch : IsDigit(ch) => ch \notin Known
  BY <1>2, <1>3 DEF IsDigit, Superscript
<1>5. \A ch \in DOMAIN Opcodes : ch \notin Known /\ ~IsDigit(ch)
  BY DEF TableApart
<1>6. DecimalDigits \subseteq {ch \in DecimalDigits : IsDigit(ch)}
  BY DEF IsDigit
<1>7. \/ Separator \/ Emit \/ EmitNot \/ Load \/ Integer \/ Digit
      \/ Compare \/ And \/ Or \/ Not \/ Unknown
  BY <1>1 DEF Next
<1>8. PICK ch : ch = Ch
  OBVIOUS
<1>9. CASE ch \in Known
  <2>1. ~IsDigit(ch) /\ ch \notin DOMAIN Opcodes
    BY <1>4, <1>5, <1>9
  <2>2. \/ Separator \/ Emit \/ EmitNot \/ Integer \/ Compare \/ And \/ Or \/ Not
    BY <1>1, <1>7, <1>8, <1>9, <2>1
  <2>3. ch \notin DecimalDigits
    BY <1>6, <2>1
  <2>4. Comparators = {">", "<", ">=", "<=", "=", "/="}
    BY DEF Comparators
  <2>. QED
    BY <1>1, <1>8, <2>1, <2>2, <2>3, <2>4
<1>10. CASE ch \notin Known
  <2>1. Load \/ Digit \/ Unknown
    BY <1>1, <1>2, <1>7, <1>8, <1>10 DEF Comparators
  <2>2. ch \notin {";", "->", "#", "and"} \union Comparators
    BY <1>10 DEF Known
  <2>3. ch \in DecimalDigits => IsDigit(ch)
    BY <1>6
  <2>. QED
    BY <1>1, <1>5, <1>8, <2>1, <2>2, <2>3
<1>. QED
  BY <1>9, <1>10

\* Up to three values on the stack.
LEMMA StackShapes ==
  ASSUME 3 <= MaxStack, NEW x \in Nat, NEW y \in Nat, NEW z \in Nat
  PROVE  /\ Top(Push(<<>>, x)) = x /\ Rest(Push(<<>>, x)) = <<>>
         /\ Top(Push(Push(<<>>, x), y)) = y /\ Rest(Push(Push(<<>>, x), y)) = Push(<<>>, x)
         /\ Top(Push(Push(Push(<<>>, x), y), z)) = z
         /\ Rest(Push(Push(Push(<<>>, x), y), z)) = Push(Push(<<>>, x), y)
<1>1. MaxStack \in Nat
  BY GenomeAssumption
<1>2. PICK a : a = Push(<<>>, x) /\ a \in Seq(Nat) /\ Len(a) = 1 /\ Top(a) = x /\ Rest(a) = <<>>
  <2>1. <<>> \in Seq(Nat) /\ Len(<<>>) = 0 /\ 0 < MaxStack
    BY <1>1
  <2>2. /\ Push(<<>>, x) \in Seq(Nat) /\ Len(Push(<<>>, x)) = Len(<<>>) + 1
        /\ Top(Push(<<>>, x)) = x /\ Rest(Push(<<>>, x)) = <<>>
    BY <2>1, PushPops
  <2>. QED
    BY <2>1, <2>2
<1>3. PICK b : b = Push(a, y) /\ b \in Seq(Nat) /\ Len(b) = 2 /\ Top(b) = y /\ Rest(b) = a
  <2>1. Len(a) = 1 /\ 1 < MaxStack /\ Len(a) < MaxStack
    <3>1. Len(a) = 1
      BY <1>2
    <3>2. 1 < MaxStack
      BY <1>1
    <3>. QED
      BY <3>1, <3>2
  <2>2. /\ Push(a, y) \in Seq(Nat) /\ Len(Push(a, y)) = Len(a) + 1
        /\ Top(Push(a, y)) = y /\ Rest(Push(a, y)) = a
    BY <1>2, <2>1, PushPops
  <2>3. Len(Push(a, y)) = 2
    BY <2>1, <2>2
  <2>. QED
    BY <2>2, <2>3
<1>4. PICK c : c = Push(b, z) /\ Top(c) = z /\ Rest(c) = b
  <2>1. Len(b) = 2 /\ Len(b) < MaxStack
    <3>1. Len(b) = 2
      BY <1>3
    <3>2. 2 < MaxStack
      BY <1>1
    <3>. QED
      BY <3>1, <3>2
  <2>. QED
    BY <1>3, <2>1, PushPops
<1>. QED
  BY <1>2, <1>3, <1>4

\* The interpreter is before position p with the stack st.
On(p, st) == verdict = Running /\ i = p /\ stack = st

\* What the steps below have in common: the load table, and a position in the genome.
Runs(p, st) ==
  /\ TableApart /\ Len(genome) \in Nat /\ p \in Nat /\ 1 <= p /\ p <= Len(genome)
  /\ On(p, st)

\* What that says.
LEMMA Here ==
  ASSUME NEW p, NEW st, Runs(p, st)
  PROVE  /\ p \in Nat /\ Len(genome) \in Nat /\ 1 <= p /\ p <= Len(genome)
         /\ TableApart
         /\ verdict = Running /\ stack = st /\ i = p /\ i \in Nat /\ i <= Len(genome)
         /\ Ch = genome[p]
<1>1. /\ Len(genome) \in Nat /\ p \in Nat /\ 1 <= p /\ p <= Len(genome) /\ TableApart
      /\ verdict = Running /\ stack = st /\ i = p
  BY DEF Runs, On
<1>2. Ch = genome[p]
  BY <1>1 DEF Ch
<1>. QED
  BY <1>1, <1>2

\* One step for each character of the genomes: where it leads, and with which stack.
LEMMA LoadRuns ==
  ASSUME NEW p, NEW st, Runs(p, st), Next, p + 1 <= Len(genome),
         genome[p] \in DOMAIN Opcodes, genome[p + 1] \in DOMAIN Opcodes[genome[p]],
         NEW v, v = Get(frame, Opcodes[genome[p]][genome[p + 1]], 0)
  PROVE  On(p + 2, Push(st, v))'
<1>1. IsLoad
  BY Here DEF IsLoad
<1>2. Load
  BY <1>1, Here, Branches
<1>. QED
  BY <1>1, <1>2, Here DEF Load, Then, On

LEMMA AndRuns ==
  ASSUME NEW p, NEW st, Runs(p, st), Next, genome[p] = "and"
  PROVE  On(p + 1, Push(Rest(Rest(st)), Truth(Top(st) > 0 /\ Top(Rest(st)) > 0)))'
<1>1. Len(genome) \in Nat /\ Ch = genome[p] /\ p \in Nat /\ p \in 1..Len(genome)
  BY Here
<1>2. And
  BY <1>1, Here, Branches
<1>. QED
  BY <1>1, <1>2, Here DEF And, Then, On

LEMMA EmitRuns ==
  ASSUME NEW p, NEW st, Runs(p, st), Next, genome[p] = "->", p + 2 <= Len(genome)
  PROVE  \/ /\ Top(st) > 0
            /\ verdict' = <<Get(SevTags, genome[p + 1], "OK"), Get(CodeTags, genome[p + 2], "OK")>>
         \/ ~ (Top(st) > 0) /\ On(p + 3, Rest(st))'
<1>1. Len(genome) \in Nat /\ Ch = genome[p] /\ p \in Nat /\ p \in 1..Len(genome)
  BY Here
<1>2. Emit \/ EmitNot
  BY <1>1, Here, Branches
<1>3. Fires <=> Top(st) > 0
  BY Here DEF Fires
<1>. QED
  BY <1>1, <1>2, <1>3, Here DEF Emit, EmitNot, Then, Return, On

LEMMA SeparatorRuns ==
  ASSUME NEW p, NEW st, Runs(p, st), Next, genome[p] = ";"
  PROVE  On(p + 1, <<>>)'
<1>1. Separator
  BY Here, Branches
<1>. QED
  BY <1>1, Here DEF Separator, Then, On

\* Every step is one of a running interpreter, on the same genome and readings.
LEMMA OnlyRunning ==
  ASSUME Next
  PROVE  verdict = Running /\ genome' = genome /\ frame' = frame
BY DEF Next, Separator, Emit, EmitNot, Load, Integer, Digit, Compare, And, Or, Not, Unknown,
       Finish, At, Then, Return

\* After the last character.
LEMMA Ending ==
  ASSUME NEW p \in Nat, NEW st, Len(genome) \in Nat, On(p, st), p > Len(genome), Next
  PROVE  verdict' = <<"OK", "OK">>
<1>1. i = p /\ ~ (i <= Len(genome))
  BY DEF On
<1>. QED
  BY <1>1 DEF Next, Separator, Emit, EmitNot, Load, Integer, Digit, Compare, And, Or, Not,
       Unknown, Finish, At, Return

\* A number at position p of g, w characters long: a digit, or digits after a "#".
LiteralAt(g, p, w, num) ==
  /\ \/ /\ w = 1 /\ g[p] \in DecimalDigits /\ num = DigitValue(g[p])
     \/ /\ w = 2 /\ g[p] = "#" /\ g[p + 1] \in DecimalDigits /\ num = DigitValue(g[p + 1])
     \/ /\ w = 3 /\ g[p] = "#" /\ {g[p + 1], g[p + 2]} \subseteq DecimalDigits
        /\ num = 10 * DigitValue(g[p + 1]) + DigitValue(g[p + 2])
     \/ /\ w = 4 /\ g[p] = "#" /\ {g[p + 1], g[p + 2], g[p + 3]} \subseteq DecimalDigits
        /\ num = 10 * (10 * DigitValue(g[p + 1]) + DigitValue(g[p + 2])) + DigitValue(g[p + 3])
  /\ p + w <= Len(g) /\ ~IsDigit(g[p + w])

LEMMA LiteralRuns ==
  ASSUME NEW p, NEW st, Runs(p, st), Next, NEW w, NEW num, LiteralAt(genome, p, w, num)
  PROVE  On(p + w, Push(st, num))'
<1>1. Len(genome) \in Nat /\ Ch = genome[p] /\ p \in Nat /\ p \in 1..Len(genome)
  BY Here
<1>2. CASE w = 1 /\ genome[p] \in DecimalDigits /\ num = DigitValue(genome[p])
  <2>1. Digit
    BY <1>1, <1>2, Here, Branches
  <2>2. Converts(<<Ch>>)
    BY <1>1, <1>2 DEF Converts, ToSet
  <2>. QED
    BY <1>1, <1>2, <2>1, <2>2, Here DEF Digit, Then, On
<1>3. ASSUME genome[p] = "#", NEW n \in {1, 2, 3}, w = n + 1,
             \A k \in 1..n : genome[p + k] \in DecimalDigits
      PROVE  \E s \in Seq(DecimalDigits) :
               /\ Len(s) = n /\ \A k \in 1..n : s[k] = genome[p + k]
               /\ On(p + w, Push(st, Number(s)))'
  <2>1. PICK m \in Int, o \in Int, stop \in Int :
          /\ m = p + 1 /\ o = p + n /\ stop = p + n + 1 /\ m <= o /\ stop - 1 = o
          /\ o - m + 1 = n /\ stop \in (p + 1)..Len(genome) /\ stop = p + w
    BY <1>1, <1>3 DEF LiteralAt
  <2>2. ~IsDigit(genome[stop])
    BY <2>1 DEF LiteralAt
  <2>3. \A k \in m..o : k - p \in 1..n /\ k = p + (k - p)
    BY <1>1, <2>1
  <2>4. \A k \in m..o : genome[k] \in DecimalDigits
    BY <1>3, <2>3
  <2>5. \A k \in (p + 1)..(stop - 1) : IsDigit(genome[k])
    BY <2>1, <2>4 DEF IsDigit
  <2>6. DigitRun(p) = SubSeq(genome, m, o)
    <3>1. DigitRun(p) = SubSeq(genome, p + 1, stop - 1)
      BY <1>1, <2>1, <2>2, <2>5, DigitRunIs
    <3>. QED
      BY <2>1, <3>1
  <2>7. PICK s : s = SubSeq(genome, m, o) /\ s = DigitRun(p)
    BY <2>6
  <2>8. /\ s \in Seq(DecimalDigits) /\ Len(s) = n
        /\ \A k \in 1..n : s[k] = genome[m + k - 1]
    <3>1. /\ SubSeq(genome, m, o) \in Seq(DecimalDigits)
          /\ Len(SubSeq(genome, m, o)) = IF m <= o THEN o - m + 1 ELSE 0
          /\ \A k \in 1..(o - m + 1) : SubSeq(genome, m, o)[k] = genome[m + k - 1]
      <4>1. PICK g, D : g = genome /\ D = DecimalDigits
        OBVIOUS
      <4>2. \A k \in m..o : g[k] \in D
        BY <2>4, <4>1
      <4>3. /\ SubSeq(g, m, o) \in Seq(D)
            /\ Len(SubSeq(g, m, o)) = IF m <= o THEN o - m + 1 ELSE 0
            /\ \A k \in 1..(o - m + 1) : SubSeq(g, m, o)[k] = g[m + k - 1]
        BY <4>2, SubSeqProperties
      <4>. QED
        BY <4>1, <4>3
    <3>. QED
      BY <2>1, <2>7, <3>1
  <2>9. \A k \in 1..n : s[k] = genome[p + k]
    <3>1. \A k \in 1..n : m + k - 1 = p + k
      BY <1>1, <2>1
    <3>. QED
      BY <2>8, <3>1
  <2>10. Integer
    BY <1>1, <1>3, Here, Branches
  <2>11. Converts(s)
    <3>1. DOMAIN s = 1..Len(s) /\ \A k \in 1..Len(s) : s[k] \in DecimalDigits
      BY <2>8, ElementOfSeq
    <3>. QED
      BY <3>1 DEF Converts, ToSet
  <2>12. Then(Push(stack, Number(s)), i + 1 + Len(s))
    BY <2>7, <2>10, <2>11, Here DEF Integer
  <2>13. i + 1 + Len(s) = p + w
    BY <1>1, <1>3, <2>8, Here
  <2>14. On(p + w, Push(st, Number(s)))'
    BY <2>12, <2>13, Here DEF Then, On
  <2>. QED
    BY <2>8, <2>9, <2>14
<1>4. CASE /\ w = 2 /\ genome[p] = "#" /\ genome[p + 1] \in DecimalDigits
           /\ num = DigitValue(genome[p + 1])
  <2>1. 1 \in {1, 2, 3} /\ w = 1 + 1 /\ \A k \in 1..1 : genome[p + k] \in DecimalDigits
    BY <1>4
  <2>2. PICK s \in Seq(DecimalDigits) :
               /\ Len(s) = 1 /\ \A k \in 1..1 : s[k] = genome[p + k]
               /\ On(p + w, Push(st, Number(s)))'
    BY <1>3, <1>4, <2>1
  <2>3. Number(s) = num
    BY <1>4, <2>2, SmallNumbers
  <2>. QED
    BY <2>2, <2>3
<1>5. CASE /\ w = 3 /\ genome[p] = "#" /\ {genome[p + 1], genome[p + 2]} \subseteq DecimalDigits
           /\ num = 10 * DigitValue(genome[p + 1]) + DigitValue(genome[p + 2])
  <2>1. 2 \in {1, 2, 3} /\ w = 2 + 1 /\ \A k \in 1..2 : genome[p + k] \in DecimalDigits
    <3>1. \A k \in 1..2 : k = 1 \/ k = 2
      OBVIOUS
    <3>. QED
      BY <1>5, <3>1
  <2>2. PICK s \in Seq(DecimalDigits) :
               /\ Len(s) = 2 /\ \A k \in 1..2 : s[k] = genome[p + k]
               /\ On(p + w, Push(st, Number(s)))'
    BY <1>3, <1>5, <2>1
  <2>3. Number(s) = num
    BY <1>5, <2>2, SmallNumbers
  <2>. QED
    BY <2>2, <2>3
<1>6. CASE /\ w = 4 /\ genome[p] = "#"
           /\ {genome[p + 1], genome[p + 2], genome[p + 3]} \subseteq DecimalDigits
           /\ num = 10 * (10 * DigitValue(genome[p + 1]) + DigitValue(genome[p + 2]))
                      + DigitValue(genome[p + 3])
  <2>1. 3 \in {1, 2, 3} /\ w = 3 + 1 /\ \A k \in 1..3 : genome[p + k] \in DecimalDigits
    <3>1. \A k \in 1..3 : k = 1 \/ k = 2 \/ k = 3
      OBVIOUS
    <3>. QED
      BY <1>6, <3>1
  <2>2. PICK s \in Seq(DecimalDigits) :
               /\ Len(s) = 3 /\ \A k \in 1..3 : s[k] = genome[p + k]
               /\ On(p + w, Push(st, Number(s)))'
    BY <1>3, <1>6, <2>1
  <2>3. Number(s) = num
    BY <1>6, <2>2, SmallNumbers
  <2>. QED
    BY <2>2, <2>3
<1>. QED
  BY <1>2, <1>4, <1>5, <1>6 DEF LiteralAt

LEMMA ComparatorRuns ==
  ASSUME NEW p, NEW st, Runs(p, st), Next, NEW ch \in Comparators, genome[p] = ch
  PROVE  On(p + 1, Push(Rest(Rest(st)), Truth(Holds(ch, Top(Rest(st)), Top(st)))))'
<1>1. Compare
  BY Here, Branches
<1>. QED
  BY <1>1, Here DEF Compare, Then, On

(***************************************************************************)
(* A test loads a reading and, unless it is taken as it is, compares it    *)
(* with a number or, on an empty stack, zero with it.                      *)
(***************************************************************************)
AsIs(at, value) ==
  [form |-> "as is", at |-> at, value |-> value, width |-> 0, number |-> 0, op |-> ""]
Against(at, value, width, number, op) ==
  [form |-> "number", at |-> at, value |-> value, width |-> width, number |-> number, op |-> op]
AgainstNone(at, value, op) ==
  [form |-> "none", at |-> at, value |-> value, width |-> 0, number |-> 0, op |-> op]

\* Such a test in the genome g, on the readings f.
TestAt(g, f, t) ==
  /\ t.at \in Nat /\ 1 <= t.at /\ t.value \in Nat
  /\ t.at + 2 <= Len(g)
  /\ g[t.at] \in DOMAIN Opcodes /\ g[t.at + 1] \in DOMAIN Opcodes[g[t.at]]
  /\ t.value = Get(f, Opcodes[g[t.at]][g[t.at + 1]], 0)
  /\ \/ t.form = "as is"
     \/ /\ t.form = "number" /\ t.width \in 1..4 /\ t.number \in Nat
        /\ LiteralAt(g, t.at + 2, t.width, t.number)
        /\ t.op \in Comparators /\ g[t.at + 2 + t.width] = t.op
     \/ t.form = "none" /\ t.op \in Comparators /\ g[t.at + 2] = t.op

\* Where it ends and what it leaves on the stack.
After(t) ==
  IF t.form = "number" THEN t.at + t.width + 3 ELSE IF t.form = "none" THEN t.at + 3 ELSE t.at + 2
Result(t) ==
  IF t.form = "number" THEN Truth(Holds(t.op, t.value, t.number))
  ELSE IF t.form = "none" THEN Truth(Holds(t.op, 0, t.value)) ELSE t.value

\* The interpreter within it; st is the stack where it begins.
InTest(t, st) ==
  \/ On(t.at, st)
  \/ t.form # "as is" /\ On(t.at + 2, Push(st, t.value))
  \/ t.form = "number" /\ On(t.at + 2 + t.width, Push(Push(st, t.value), t.number))

LEMMA TruthIs ==
  ASSUME NEW b
  PROVE  Truth(b) \in Nat /\ (Truth(b) > 0 <=> b)
BY DEF Truth

LEMMA TestType ==
  ASSUME NEW g, Len(g) \in Nat, NEW f, NEW t, TestAt(g, f, t)
  PROVE  After(t) \in Nat /\ Result(t) \in Nat /\ 1 <= After(t)
<1>1. After(t) \in Nat /\ 1 <= After(t)
  <2>1. t.at \in Nat /\ 1 <= t.at /\ (t.form = "number" => t.width \in 1..4)
    BY DEF TestAt
  <2>2. PICK a \in Nat : a = t.at /\ 1 <= a
    BY <2>1
  <2>3. CASE t.form = "number"
    <3>1. PICK w \in 1..4 : w = t.width
      BY <2>1, <2>3
    <3>. QED
      BY <2>2, <2>3, <3>1 DEF After
  <2>4. CASE t.form # "number"
    BY <2>2, <2>4 DEF After
  <2>. QED
    BY <2>3, <2>4
<1>2. Result(t) \in Nat
  <2>1. \A b : Truth(b) \in Nat
    BY TruthIs
  <2>2. t.value \in Nat
    BY DEF TestAt
  <2>. QED
    BY <2>1, <2>2 DEF Result
<1>. QED
  BY <1>1, <1>2

LEMMA TestSteps ==
  ASSUME TableApart, 3 <= MaxStack, NEW g, Len(g) \in Nat, NEW f, genome = g, frame = f,
         NEW t, TestAt(g, f, t), NEW st,
         \/ st = <<>>
         \/ t.form # "none" /\ \E x \in Nat : st = Push(<<>>, x),
         InTest(t, st), Next
  PROVE  InTest(t, st)' \/ On(After(t), Push(st, Result(t)))'
<1>1. /\ t.at \in Nat /\ 1 <= t.at /\ t.value \in Nat /\ t.at + 2 <= Len(g)
      /\ g[t.at] \in DOMAIN Opcodes /\ g[t.at + 1] \in DOMAIN Opcodes[g[t.at]]
      /\ t.value = Get(f, Opcodes[g[t.at]][g[t.at + 1]], 0)
  BY DEF TestAt
<1>2. PICK v \in Nat, a \in Nat : v = t.value /\ a = t.at
  BY <1>1
<1>3. CASE On(t.at, st)
  <2>1. Runs(a, st)
    BY <1>1, <1>2, <1>3 DEF Runs
  <2>2. On(a + 2, Push(st, v))'
    BY <1>1, <1>2, <2>1, LoadRuns
  <2>3. t.form = "as is" => After(t) = a + 2 /\ Result(t) = v
    BY <1>2 DEF After, Result
  <2>. QED
    BY <1>2, <2>2, <2>3 DEF InTest
<1>4. CASE t.form = "number"
  <2>1. /\ t.width \in 1..4 /\ t.number \in Nat /\ LiteralAt(g, t.at + 2, t.width, t.number)
        /\ t.op \in Comparators /\ g[t.at + 2 + t.width] = t.op
    BY <1>4 DEF TestAt
  <2>2. PICK w \in 1..4, n \in Nat, op \in Comparators :
             /\ w = t.width /\ n = t.number /\ op = t.op
             /\ LiteralAt(g, a + 2, w, n) /\ g[a + 2 + w] = op
    BY <1>2, <2>1
  <2>3. a + 2 + w <= Len(g) /\ a + 2 + w \in Nat
    BY <2>2 DEF LiteralAt
  <2>4. After(t) = a + 2 + w + 1 /\ Result(t) = Truth(Holds(op, v, n))
    <3>1. After(t) = a + w + 3
      BY <1>2, <1>4, <2>2 DEF After
    <3>2. a + w + 3 = a + 2 + w + 1
      BY <1>2, <2>2
    <3>3. Result(t) = Truth(Holds(op, v, n))
      BY <1>2, <1>4, <2>2 DEF Result
    <3>. QED
      BY <3>1, <3>2, <3>3
  <2>5. CASE On(a + 2, Push(st, v))
    <3>1. Runs(a + 2, Push(st, v))
      BY <1>1, <1>2, <2>5 DEF Runs
    <3>2. On(a + 2 + w, Push(Push(st, v), n))'
      BY <2>2, <3>1, LiteralRuns
    <3>. QED
      BY <1>2, <1>4, <2>2, <3>2 DEF InTest
  <2>6. CASE On(a + 2 + w, Push(Push(st, v), n))
    <3>1. Runs(a + 2 + w, Push(Push(st, v), n))
      BY <2>3, <2>6 DEF Runs
    <3>2. PICK two : two = Push(Push(st, v), n)
      OBVIOUS
    <3>3. On(a + 2 + w + 1, Push(Rest(Rest(two)), Truth(Holds(op, Top(Rest(two)), Top(two)))))'
      BY <2>2, <3>1, <3>2, ComparatorRuns
    <3>4. Top(two) = n /\ Top(Rest(two)) = v /\ Rest(Rest(two)) = st
      <4>1. CASE st = <<>>
        BY <2>2, <3>2, <4>1, StackShapes
      <4>2. ASSUME NEW x \in Nat, st = Push(<<>>, x)
            PROVE  Top(two) = n /\ Top(Rest(two)) = v /\ Rest(Rest(two)) = st
        BY <2>2, <3>2, <4>2, StackShapes
      <4>. QED
        BY <4>1, <4>2
    <3>. QED
      BY <2>4, <3>3, <3>4
  <2>. QED
    BY <1>2, <1>3, <1>4, <2>2, <2>5, <2>6 DEF InTest
<1>5. CASE t.form = "none"
  <2>1. PICK op \in Comparators : op = t.op /\ g[a + 2] = op
    BY <1>2, <1>5 DEF TestAt
  <2>2. After(t) = a + 2 + 1 /\ Result(t) = Truth(Holds(op, 0, v))
    BY <1>2, <1>5, <2>1 DEF After, Result
  <2>3. st = <<>>
    BY <1>5
  <2>4. CASE On(a + 2, Push(st, v))
    <3>1. Runs(a + 2, Push(st, v))
      BY <1>1, <1>2, <2>4 DEF Runs
    <3>2. PICK one : one = Push(st, v)
      OBVIOUS
    <3>3. On(a + 2 + 1, Push(Rest(Rest(one)), Truth(Holds(op, Top(Rest(one)), Top(one)))))'
      BY <2>1, <3>1, <3>2, ComparatorRuns
    <3>4. Top(one) = v /\ Top(Rest(one)) = 0 /\ Rest(Rest(one)) = st
      BY <2>3, <3>2, StackShapes, EmptyStack
    <3>. QED
      BY <2>2, <3>3, <3>4
  <2>. QED
    BY <1>2, <1>3, <1>5, <2>4 DEF InTest
<1>. QED
  BY <1>3, <1>4, <1>5 DEF TestAt, InTest

(***************************************************************************)
(* A rule is a test or two with "and", and the tags of its verdict; a ";"  *)
(* may follow it.                                                          *)
(***************************************************************************)
If(t, says, ends) == [one |-> t, two |-> t, both |-> FALSE, says |-> says, ends |-> ends]
IfBoth(t, u, says, ends) == [one |-> t, two |-> u, both |-> TRUE, says |-> says, ends |-> ends]

Semicolon == ";"

Arrow(r) == IF r.both THEN After(r.two) + 1 ELSE After(r.one)
Follows(r) == Arrow(r) + 3 + r.ends
Applies(r) == Result(r.one) > 0 /\ (r.both => Result(r.two) > 0)

RuleAt(g, f, r) ==
  /\ TestAt(g, f, r.one) /\ r.both \in BOOLEAN
  /\ r.both => /\ TestAt(g, f, r.two) /\ r.two.form # "none" /\ r.two.at = After(r.one)
               /\ g[After(r.two)] = "and"
  /\ Arrow(r) + 2 <= Len(g) /\ g[Arrow(r)] = "->"
  /\ r.says = <<Get(SevTags, g[Arrow(r) + 1], "OK"), Get(CodeTags, g[Arrow(r) + 2], "OK")>>
  /\ \/ r.ends = 0
     \/ r.ends = 1 /\ Arrow(r) + 3 <= Len(g) /\ g[Arrow(r) + 3] = Semicolon

\* What its condition comes to, before the arrow.
Outcome(r) ==
  IF r.both THEN Truth(Result(r.two) > 0 /\ Result(r.one) > 0) ELSE Result(r.one)

\* The interpreter within it.
InRule(r) ==
  \/ InTest(r.one, <<>>)
  \/ r.both /\ InTest(r.two, Push(<<>>, Result(r.one)))
  \/ r.both /\ On(After(r.two), Push(Push(<<>>, Result(r.one)), Result(r.two)))
  \/ On(Arrow(r), Push(<<>>, Outcome(r)))
  \/ r.ends = 1 /\ ~Applies(r) /\ On(Arrow(r) + 3, <<>>)

LEMMA OutcomeIs ==
  ASSUME NEW g, Len(g) \in Nat, NEW f, NEW r, RuleAt(g, f, r)
  PROVE  /\ Outcome(r) \in Nat /\ (Outcome(r) > 0 <=> Applies(r))
         /\ Arrow(r) \in Nat /\ 1 <= Arrow(r) /\ Result(r.one) \in Nat
<1>1. TestAt(g, f, r.one) /\ r.both \in BOOLEAN /\ (r.both => TestAt(g, f, r.two))
  BY DEF RuleAt
<1>2. Result(r.one) \in Nat /\ After(r.one) \in Nat /\ 1 <= After(r.one)
  BY <1>1, TestType
<1>3. CASE r.both
  <2>1. Result(r.two) \in Nat /\ After(r.two) \in Nat /\ 1 <= After(r.two)
    BY <1>1, <1>3, TestType
  <2>2. Outcome(r) = Truth(Result(r.two) > 0 /\ Result(r.one) > 0)
    BY <1>3 DEF Outcome
  <2>3. Outcome(r) \in Nat /\ (Outcome(r) > 0 <=> (Result(r.two) > 0 /\ Result(r.one) > 0))
    BY <2>2, TruthIs
  <2>4. Applies(r) <=> (Result(r.two) > 0 /\ Result(r.one) > 0)
    BY <1>3 DEF Applies
  <2>5. Arrow(r) = After(r.two) + 1
    BY <1>3 DEF Arrow
  <2>. QED
    BY <1>2, <2>1, <2>3, <2>4, <2>5
<1>4. CASE ~r.both
  <2>1. Outcome(r) = Result(r.one) /\ Arrow(r) = After(r.one)
    BY <1>4 DEF Outcome, Arrow
  <2>2. Applies(r) <=> Result(r.one) > 0
    BY <1>4 DEF Applies
  <2>. QED
    BY <1>2, <2>1, <2>2
<1>. QED
  BY <1>3, <1>4

\* From within a rule the interpreter comes to its verdict, if the rule applies, and
\* otherwise to the end of it, with an empty stack.
LEMMA RuleSteps ==
  ASSUME TableApart, 3 <= MaxStack, NEW g, Len(g) \in Nat, NEW f, genome = g, frame = f,
         NEW r, RuleAt(g, f, r), InRule(r), Next
  PROVE  \/ InRule(r)'
         \/ Applies(r) /\ verdict' = r.says
         \/ ~Applies(r) /\ On(Follows(r), <<>>)'
<1>1. TestAt(g, f, r.one) /\ r.both \in BOOLEAN
  BY DEF RuleAt
<1>2. PICK x \in Nat, a \in Nat, o \in Nat :
           /\ x = Result(r.one) /\ a = Arrow(r) /\ o = Outcome(r)
           /\ 1 <= a /\ (o > 0 <=> Applies(r))
  BY OutcomeIs
<1>3. CASE InTest(r.one, <<>>)
  <2>1. InTest(r.one, <<>>)' \/ On(After(r.one), Push(<<>>, Result(r.one)))'
    <3>1. PICK t, st : t = r.one /\ st = <<>>
      OBVIOUS
    <3>2. TestAt(g, f, t) /\ InTest(t, st)
      BY <1>1, <1>3, <3>1
    <3>3. InTest(t, st)' \/ On(After(t), Push(st, Result(t)))'
      BY <3>1, <3>2, TestSteps
    <3>. QED
      BY <3>1, <3>3
  <2>2. CASE r.both
    <3>1. r.two.at = After(r.one)
      BY <2>2 DEF RuleAt
    <3>2. On(r.two.at, Push(<<>>, Result(r.one)))' => InTest(r.two, Push(<<>>, Result(r.one)))'
      BY DEF InTest
    <3>. QED
      BY <2>1, <2>2, <3>1, <3>2 DEF InRule
  <2>3. CASE ~r.both
    BY <2>1, <2>3 DEF InRule, Arrow, Outcome
  <2>. QED
    BY <1>1, <2>2, <2>3
<1>4. CASE r.both /\ InTest(r.two, Push(<<>>, Result(r.one)))
  <2>1. PICK t, st : t = r.two /\ st = Push(<<>>, x)
    OBVIOUS
  <2>2. TestAt(g, f, t) /\ InTest(t, st) /\ t.form # "none"
    BY <1>2, <1>4, <2>1 DEF RuleAt
  <2>3. InTest(t, st)' \/ On(After(t), Push(st, Result(t)))'
    BY <1>2, <2>1, <2>2, TestSteps
  <2>. QED
    BY <1>2, <1>4, <2>1, <2>3 DEF InRule
<1>5. CASE r.both /\ On(After(r.two), Push(Push(<<>>, Result(r.one)), Result(r.two)))
  <2>1. TestAt(g, f, r.two) /\ g[After(r.two)] = "and" /\ a = After(r.two) + 1 /\ a + 2 <= Len(g)
    BY <1>2, <1>5 DEF RuleAt, Arrow
  <2>2. PICK p \in Nat, y \in Nat : p = After(r.two) /\ y = Result(r.two) /\ 1 <= p
    BY <2>1, TestType
  <2>3. PICK st : st = Push(Push(<<>>, x), y)
    OBVIOUS
  <2>4. Runs(p, st)
    BY <1>2, <1>5, <2>1, <2>2, <2>3 DEF Runs
  <2>5. On(p + 1, Push(Rest(Rest(st)), Truth(Top(st) > 0 /\ Top(Rest(st)) > 0)))'
    BY <2>1, <2>2, <2>4, AndRuns
  <2>6. Rest(Rest(st)) = <<>> /\ Top(st) = y /\ Top(Rest(st)) = x
    BY <2>3, StackShapes
  <2>7. o = Truth(y > 0 /\ x > 0)
    BY <1>2, <1>5, <2>2 DEF Outcome
  <2>8. On(a, Push(<<>>, o))'
    BY <2>1, <2>2, <2>5, <2>6, <2>7
  <2>. QED
    BY <1>2, <2>8 DEF InRule
<1>6. CASE On(Arrow(r), Push(<<>>, Outcome(r)))
  <2>1. PICK st : st = Push(<<>>, o)
    OBVIOUS
  <2>2. a + 2 <= Len(g) /\ g[a] = "->"
        /\ r.says = <<Get(SevTags, g[a + 1], "OK"), Get(CodeTags, g[a + 2], "OK")>>
    BY <1>2 DEF RuleAt
  <2>3. Runs(a, st)
    BY <1>2, <1>6, <2>1, <2>2 DEF Runs
  <2>4. \/ Top(st) > 0 /\ verdict' = r.says
        \/ ~ (Top(st) > 0) /\ On(a + 3, Rest(st))'
    BY <2>2, <2>3, EmitRuns
  <2>5. Top(st) = o /\ Rest(st) = <<>>
    BY <2>1, StackShapes
  <2>6. r.ends = 0 => Follows(r) = a + 3
    BY <1>2 DEF Follows
  <2>7. r.ends = 0 \/ r.ends = 1
    BY DEF RuleAt
  <2>. QED
    BY <1>2, <2>4, <2>5, <2>6, <2>7 DEF InRule
<1>7. CASE r.ends = 1 /\ ~Applies(r) /\ On(Arrow(r) + 3, <<>>)
  <2>1. a + 3 <= Len(g) /\ g[a + 3] = Semicolon
    <3>1. \/ r.ends = 0
          \/ r.ends = 1 /\ Arrow(r) + 3 <= Len(g) /\ g[Arrow(r) + 3] = Semicolon
      BY DEF RuleAt
    <3>2. Arrow(r) = a /\ r.ends # 0
      BY <1>2, <1>7
    <3>. QED
      BY <3>1, <3>2
  <2>2. Runs(a + 3, <<>>)
    <3>1. On(a + 3, <<>>)
      BY <1>2, <1>7
    <3>2. a + 3 \in Nat /\ 1 <= a + 3
      BY <1>2
    <3>. QED
      BY <2>1, <3>1, <3>2 DEF Runs
  <2>3. On(a + 3 + 1, <<>>)'
    BY <2>1, <2>2, SeparatorRuns DEF Semicolon
  <2>4. Follows(r) = a + 3 + 1
    BY <1>2, <1>7 DEF Follows
  <2>. QED
    BY <1>7, <2>3, <2>4
<1>. QED
  BY <1>3, <1>4, <1>5, <1>6, <1>7 DEF InRule

\* The verdict of a list of rules is that of the first that applies.
LEMMA FirstIs ==
  ASSUME NEW rules, Len(rules) \in Nat
  PROVE  /\ (\A k \in 1..Len(rules) : ~rules[k][1]) => First(rules) = <<"OK", "OK">>
         /\ \A k \in 1..Len(rules) :
              rules[k][1] /\ (\A j \in 1..(k - 1) : ~rules[j][1]) => First(rules) = rules[k][2]
<1>. DEFINE I == {n \in 1..Len(rules) : rules[n][1]}
            k == SelectInSeq(rules, LAMBDA r : r[1])
<1>1. k = IF I # {} THEN Min(I) ELSE 0
  BY DEF SelectInSeq
<1>2. First(rules) = IF k = 0 THEN <<"OK", "OK">> ELSE rules[k][2]
  BY DEF First
<1>3. ASSUME \A n \in 1..Len(rules) : ~rules[n][1] PROVE First(rules) = <<"OK", "OK">>
  <2>1. I = {}
    BY <1>3
  <2>. HIDE DEF I, k
  <2>. QED
    BY <1>1, <1>2, <2>1
<1>4. ASSUME NEW n \in 1..Len(rules), rules[n][1], \A j \in 1..(n - 1) : ~rules[j][1]
      PROVE  First(rules) = rules[n][2]
  <2>1. n \in I /\ \A m \in I : n <= m
    <3>1. ASSUME NEW m \in I PROVE n <= m
      <4>1. m \in 1..Len(rules) /\ rules[m][1]
        OBVIOUS
      <4>2. CASE m < n
        BY <1>4, <4>1, <4>2
      <4>. QED
        BY <4>1, <4>2
    <3>. QED
      BY <1>4, <3>1
  <2>2. IsFiniteSet(I) /\ I \subseteq Int
    <3>1. IsFiniteSet(1..Len(rules))
      <4>1. PICK a \in Int, b \in Int : a = 1 /\ b = Len(rules)
        OBVIOUS
      <4>2. IsFiniteSet(a..b)
        BY FS_Interval
      <4>. QED
        BY <4>1, <4>2
    <3>2. I \subseteq 1..Len(rules) /\ I \subseteq Int
      OBVIOUS
    <3>. HIDE DEF I
    <3>. QED
      BY <3>1, <3>2, FS_Subset
  <2>. HIDE DEF I, k
  <2>3. Min(I) \in I /\ \A m \in I : Min(I) <= m
    BY <2>1, <2>2, MinIsSmallest
  <2>4. Min(I) = n
    <3>1. PICK z \in I : z = Min(I)
      BY <2>3
    <3>2. z <= n /\ n <= z /\ z \in Int
      BY <2>1, <2>2, <2>3, <3>1
    <3>. QED
      BY <3>1, <3>2
  <2>5. n # 0 /\ k = n
    BY <1>1, <2>1, <2>4
  <2>. QED
    BY <1>2, <2>5
<1>. QED
  BY <1>3, <1>4

\* Lists of as many rules that apply to the same and say the same.
LEMMA SameFirst ==
  ASSUME NEW a, NEW b, Len(a) \in Nat, Len(b) = Len(a),
         \A k \in 1..Len(a) : (a[k][1] <=> b[k][1]) /\ a[k][2] = b[k][2]
  PROVE  First(a) = First(b)
<1>1. CASE \A k \in 1..Len(a) : ~a[k][1]
  BY <1>1, FirstIs
<1>2. CASE \E k \in 1..Len(a) : a[k][1]
  <2>. DEFINE I == {k \in 1..Len(a) : a[k][1]}
  <2>1. I \in SUBSET Nat /\ I # {}
    BY <1>2
  <2>. HIDE DEF I
  <2>2. PICK k \in I : \A m \in I : k <= m
    BY <2>1, LeastNumber
  <2>3. k \in 1..Len(a) /\ a[k][1] /\ \A j \in 1..(k - 1) : ~a[j][1]
    <3>1. k \in 1..Len(a) /\ a[k][1]
      BY <2>2 DEF I
    <3>2. ASSUME NEW j \in 1..(k - 1), a[j][1] PROVE FALSE
      <4>1. j \in I
        BY <3>1, <3>2 DEF I
      <4>. QED
        BY <2>2, <3>1, <4>1
    <3>. QED
      BY <3>1, <3>2
  <2>4. First(a) = a[k][2]
    BY <2>3, FirstIs
  <2>5. b[k][1] /\ \A j \in 1..(k - 1) : ~b[j][1]
    BY <2>3
  <2>6. First(b) = b[k][2]
    BY <2>3, <2>5, FirstIs
  <2>. QED
    BY <2>3, <2>4, <2>6
<1>. QED
  BY <1>1, <1>2

(***************************************************************************)
(* A genome that is a list of rules.                                       *)
(***************************************************************************)
RuleList(g, f, rs) ==
  /\ Len(g) \in Nat /\ Len(rs) \in Nat /\ 1 <= Len(rs)
  /\ \A k \in 1..Len(rs) : RuleAt(g, f, rs[k])
  /\ rs[1].one.at = 1 /\ Follows(rs[Len(rs)]) = Len(g) + 1
  /\ \A k \in 1..(Len(rs) - 1) : Follows(rs[k]) = rs[k + 1].one.at

Said(rs) == First([k \in 1..Len(rs) |-> <<Applies(rs[k]), rs[k].says>>])

\* The interpreter is in one of the rules, or past all of them, and those before do not
\* apply; or it has come to the verdict.
Reached(g, f, rs) ==
  /\ genome = g /\ frame = f
  /\ \/ \E k \in 1..Len(rs) : InRule(rs[k]) /\ \A j \in 1..(k - 1) : ~Applies(rs[j])
     \/ On(Len(g) + 1, <<>>) /\ \A j \in 1..Len(rs) : ~Applies(rs[j])
     \/ verdict = Said(rs)

LEMMA SaidIs ==
  ASSUME NEW g, NEW f, NEW rs, RuleList(g, f, rs)
  PROVE  /\ (\A k \in 1..Len(rs) : ~Applies(rs[k])) => Said(rs) = <<"OK", "OK">>
         /\ \A k \in 1..Len(rs) :
              Applies(rs[k]) /\ (\A j \in 1..(k - 1) : ~Applies(rs[j])) => Said(rs) = rs[k].says
         /\ Said(rs) # Running
<1>a. PICK n \in Nat : n = Len(rs)
  BY DEF RuleList
<1>b. PICK rules : rules = [k \in 1..n |-> <<Applies(rs[k]), rs[k].says>>]
  OBVIOUS
<1>1. n = Len(rs) /\ rules = [k \in 1..n |-> <<Applies(rs[k]), rs[k].says>>]
  BY <1>a, <1>b
<1>2. /\ Len(rules) = n
      /\ \A k \in 1..n : (rules[k][1] <=> Applies(rs[k])) /\ rules[k][2] = rs[k].says
  <2>1. Len(rules) = n
    BY <1>1
  <2>2. ASSUME NEW k \in 1..n
        PROVE  (rules[k][1] <=> Applies(rs[k])) /\ rules[k][2] = rs[k].says
    <3>1. rules[k] = <<Applies(rs[k]), rs[k].says>>
      BY <1>1
    <3>2. CASE Applies(rs[k])
      <4>1. Applies(rs[k]) = TRUE
        BY <3>2, Zenon DEF Applies
      <4>2. rules[k] = <<TRUE, rs[k].says>>
        BY <3>1, <4>1, Zenon
      <4>. QED
        BY <3>2, <4>2
    <3>3. CASE ~Applies(rs[k])
      <4>1. Applies(rs[k]) = FALSE
        BY <3>3, Zenon DEF Applies
      <4>2. rules[k] = <<FALSE, rs[k].says>>
        BY <3>1, <4>1, Zenon
      <4>. QED
        BY <3>3, <4>2
    <3>. QED
      BY <3>2, <3>3
  <2>. QED
    BY <2>1, <2>2
<1>3. Said(rs) = First(rules)
  BY <1>1 DEF Said
<1>4. \A k \in 1..n : \A j \in 1..(k - 1) : j \in 1..n
  OBVIOUS
<1>5. (\A k \in 1..n : ~Applies(rs[k])) => Said(rs) = <<"OK", "OK">>
  BY <1>2, <1>3, FirstIs
<1>6. ASSUME NEW k \in 1..n, Applies(rs[k]), \A j \in 1..(k - 1) : ~Applies(rs[j])
      PROVE  Said(rs) = rs[k].says
  <2>1. rules[k][1] /\ \A j \in 1..(k - 1) : ~rules[j][1]
    BY <1>2, <1>4, <1>6
  <2>. QED
    BY <1>2, <1>3, <2>1, FirstIs
<1>7. Said(rs) # Running
  <2>1. <<"OK", "OK">> # Running
    BY DEF Running
  <2>2. ASSUME NEW k \in 1..n PROVE rs[k].says # Running
    <3>1. RuleAt(g, f, rs[k])
      BY <1>1 DEF RuleList
    <3>2. PICK x, y : rs[k].says = <<x, y>>
      BY <3>1 DEF RuleAt
    <3>. QED
      BY <3>2 DEF Running
  <2>3. CASE \A k \in 1..n : ~Applies(rs[k])
    BY <1>5, <2>1, <2>3
  <2>4. CASE \E k \in 1..n : Applies(rs[k])
    <3>. DEFINE I == {k \in 1..n : Applies(rs[k])}
    <3>1. I \in SUBSET Nat /\ I # {}
      BY <2>4
    <3>. HIDE DEF I
    <3>2. PICK k \in I : \A m \in I : k <= m
      BY <3>1, LeastNumber
    <3>3. k \in 1..n /\ Applies(rs[k])
      BY <3>2 DEF I
    <3>4. ASSUME NEW j \in 1..(k - 1), Applies(rs[j]) PROVE FALSE
      <4>1. j \in I
        BY <3>3, <3>4 DEF I
      <4>. QED
        BY <3>2, <3>3, <4>1
    <3>. QED
      BY <1>6, <2>2, <3>3, <3>4
  <2>. QED
    BY <2>3, <2>4
<1>. QED
  BY <1>1, <1>5, <1>6, <1>7

LEMMA ReachedSteps ==
  ASSUME TableApart, 3 <= MaxStack, NEW g, NEW f, NEW rs, RuleList(g, f, rs),
         Reached(g, f, rs), [Next]_vars
  PROVE  Reached(g, f, rs)'
<1>1. PICK n \in Nat, m \in Nat :
        /\ n = Len(rs) /\ 1 <= n /\ m = Len(g)
        /\ rs[1].one.at = 1 /\ Follows(rs[n]) = m + 1
        /\ \A k \in 1..n : RuleAt(g, f, rs[k])
        /\ \A k \in 1..(n - 1) : Follows(rs[k]) = rs[k + 1].one.at
  BY DEF RuleList
<1>2. genome = g /\ frame = f
  BY DEF Reached
<1>3. CASE UNCHANGED vars
  <2>1. genome' = genome /\ frame' = frame /\ verdict' = verdict /\ i' = i /\ stack' = stack
    BY <1>3 DEF vars
  <2>2. \A p, st : On(p, st) <=> On(p, st)'
    BY <2>1 DEF On
  <2>3. \A k : InRule(rs[k]) => InRule(rs[k])'
    BY <2>2 DEF InRule, InTest
  <2>. QED
    BY <1>2, <2>1, <2>2, <2>3 DEF Reached
<1>4. ASSUME Next PROVE Reached(g, f, rs)'
  <2>1. genome' = g /\ frame' = f /\ verdict = Running
    BY <1>2, <1>4, OnlyRunning
  <2>2. ASSUME NEW k \in 1..n, InRule(rs[k]), \A j \in 1..(k - 1) : ~Applies(rs[j])
        PROVE  Reached(g, f, rs)'
    <3>1. PICK r : r = rs[k] /\ RuleAt(g, f, r) /\ InRule(r)
      BY <1>1, <2>2
    <3>2. \/ InRule(r)'
          \/ Applies(r) /\ verdict' = r.says
          \/ ~Applies(r) /\ On(Follows(r), <<>>)'
      BY <1>1, <1>2, <1>4, <3>1, RuleSteps
    <3>3. CASE InRule(r)'
      BY <1>1, <2>1, <2>2, <3>1, <3>3 DEF Reached
    <3>4. CASE Applies(r) /\ verdict' = r.says
      <4>1. Said(rs) = rs[k].says
        BY <1>1, <2>2, <3>1, <3>4, SaidIs
      <4>. QED
        BY <2>1, <3>1, <3>4, <4>1 DEF Reached
    <3>5. CASE ~Applies(r) /\ On(Follows(r), <<>>)'
      <4>1. \A j \in 1..k : ~Applies(rs[j])
        <5>1. \A j \in 1..k : j = k \/ j \in 1..(k - 1)
          BY <1>1
        <5>. QED
          BY <2>2, <3>1, <3>5, <5>1
      <4>2. CASE k = n
        BY <1>1, <2>1, <3>1, <3>5, <4>1, <4>2 DEF Reached
      <4>3. CASE k # n
        <5>1. k \in 1..(n - 1) /\ k + 1 \in 1..n /\ (k + 1) - 1 = k
          BY <4>3
        <5>2. PICK q : q = rs[k + 1] /\ Follows(r) = q.one.at
          BY <1>1, <3>1, <5>1
        <5>3. InRule(q)'
          BY <3>5, <5>2 DEF InRule, InTest
        <5>. QED
          BY <1>1, <2>1, <4>1, <5>1, <5>2, <5>3 DEF Reached
      <4>. QED
        BY <4>2, <4>3
    <3>. QED
      BY <3>2, <3>3, <3>4, <3>5
  <2>3. ASSUME On(m + 1, <<>>), \A j \in 1..n : ~Applies(rs[j]) PROVE Reached(g, f, rs)'
    <3>1. verdict' = <<"OK", "OK">>
      <4>1. m + 1 \in Nat /\ Len(genome) \in Nat /\ m + 1 > Len(genome)
        BY <1>1, <1>2
      <4>. QED
        BY <1>4, <2>3, <4>1, Ending
    <3>2. Said(rs) = <<"OK", "OK">>
      BY <1>1, <2>3, SaidIs
    <3>. QED
      BY <2>1, <3>1, <3>2 DEF Reached
  <2>4. verdict # Said(rs)
    BY <2>1, SaidIs
  <2>. QED
    BY <1>1, <2>2, <2>3, <2>4 DEF Reached
<1>. QED
  BY <1>3, <1>4

LEMMA ReachedFirst ==
  ASSUME NEW g, NEW f, NEW rs, RuleList(g, f, rs), Start(g, f)
  PROVE  Reached(g, f, rs)
<1>1. genome = g /\ frame = f /\ On(1, <<>>)
  BY DEF Start, On
<1>2. 1 \in 1..Len(rs) /\ rs[1].one.at = 1 /\ \A j \in 1..(1 - 1) : FALSE
  BY DEF RuleList
<1>3. InRule(rs[1])
  BY <1>1, <1>2 DEF InRule, InTest
<1>. QED
  BY <1>1, <1>2, <1>3 DEF Reached

LEMMA ReachedSays ==
  ASSUME NEW g, NEW f, NEW rs, RuleList(g, f, rs), Reached(g, f, rs)
  PROVE  verdict = Running \/ verdict = Said(rs)
<1>1. ASSUME NEW r, InRule(r) PROVE verdict = Running
  BY <1>1 DEF InRule, InTest, On
<1>. QED
  BY <1>1 DEF Reached, On

\* Whatever the load table, the readings and the rules are: a genome that is a list of
\* rules, each of one test or two, with ";" between them or without, comes to the
\* verdict of the first rule that applies.
THEOREM FirstRuleDecides ==
  ASSUME TableApart, 3 <= MaxStack, NEW g, NEW f, NEW rs, RuleList(g, f, rs)
  PROVE  Start(g, f) /\ [][Next]_vars => [](verdict = Running \/ verdict = Said(rs))
<1>1. Start(g, f) => Reached(g, f, rs)
  BY ReachedFirst
<1>2. Reached(g, f, rs) /\ [Next]_vars => Reached(g, f, rs)'
  BY ReachedSteps
<1>3. Reached(g, f, rs) => verdict = Running \/ verdict = Said(rs)
  BY ReachedSays
<1>. QED
  BY <1>1, <1>2, <1>3, PTL

(***************************************************************************)
(* The genomes that ship, as lists of rules.                               *)
(***************************************************************************)
LEMMA Characters ==
  /\ \A op \in Comparators : ~IsDigit(op)
  /\ Comparators = {">", "<", ">=", "<=", "=", "/="}
  /\ DecimalDigits = {"0", "1", "2", "3", "4", "5", "6", "7", "8", "9"}
  /\ DigitValue("0") = 0 /\ DigitValue("1") = 1 /\ DigitValue("2") = 2
  /\ DigitValue("3") = 3 /\ DigitValue("5") = 5 /\ DigitValue("8") = 8
<1>1. \A op \in Comparators : ~IsDigit(op)
  BY Digits DEF Comparators, IsDigit, Superscript
<1>. QED
  BY <1>1, Digits DEF Comparators

\* The verdict for a pair of tags.
Says(sev, code) == <<Get(SevTags, sev, "OK"), Get(CodeTags, code, "OK")>>

LEMMA TagsSay ==
  /\ Says("I", "a") = <<"INFO", "SWAP_ABSENT">> /\ Says("W", "w") = <<"WARN", "MEM_PSI_WARN">>
  /\ Says("W", "p") = <<"WARN", "POD_PRESSURE">>
  /\ Says("C", "n") = <<"CRITICAL", "MEM_PSI_CRIT_NOSW">>
  /\ Says("C", "c") = <<"CRITICAL", "MEM_PSI_CRIT">>
  /\ Says("C", "d") = <<"CRITICAL", "CLUSTER_DEGRADED">>
  /\ Says("C", "g") = <<"CRITICAL", "GATE_DOWN">>
<1>a. DOMAIN SevTags = {"O", "I", "W", "C"}
  BY DEF SevTags
<1>b. SevTags["I"] = "INFO" /\ SevTags["W"] = "WARN" /\ SevTags["C"] = "CRITICAL"
  BY DEF SevTags
<1>1. /\ "I" \in DOMAIN SevTags /\ "W" \in DOMAIN SevTags /\ "C" \in DOMAIN SevTags
      /\ SevTags["I"] = "INFO" /\ SevTags["W"] = "WARN" /\ SevTags["C"] = "CRITICAL"
  BY <1>a, <1>b
<1>2. /\ Get(SevTags, "I", "OK") = "INFO" /\ Get(SevTags, "W", "OK") = "WARN"
      /\ Get(SevTags, "C", "OK") = "CRITICAL"
  BY <1>1 DEF Get
<1>3. DOMAIN CodeTags = {"o", "a", "w", "n", "c", "l", "L", "d", "g", "p", "x"}
  BY DEF CodeTags
<1>4. /\ CodeTags["a"] = "SWAP_ABSENT" /\ CodeTags["w"] = "MEM_PSI_WARN"
      /\ CodeTags["n"] = "MEM_PSI_CRIT_NOSW" /\ CodeTags["c"] = "MEM_PSI_CRIT"
      /\ CodeTags["d"] = "CLUSTER_DEGRADED" /\ CodeTags["g"] = "GATE_DOWN"
      /\ CodeTags["p"] = "POD_PRESSURE"
  BY DEF CodeTags
<1>5. /\ Get(CodeTags, "a", "OK") = "SWAP_ABSENT" /\ Get(CodeTags, "w", "OK") = "MEM_PSI_WARN"
      /\ Get(CodeTags, "n", "OK") = "MEM_PSI_CRIT_NOSW" /\ Get(CodeTags, "c", "OK") = "MEM_PSI_CRIT"
      /\ Get(CodeTags, "d", "OK") = "CLUSTER_DEGRADED" /\ Get(CodeTags, "g", "OK") = "GATE_DOWN"
      /\ Get(CodeTags, "p", "OK") = "POD_PRESSURE"
  BY <1>3, <1>4 DEF Get
<1>6. \A sev, code, x, y :
        Get(SevTags, sev, "OK") = x /\ Get(CodeTags, code, "OK") = y => Says(sev, code) = <<x, y>>
  BY DEF Says
<1>. QED
  BY <1>2, <1>5, <1>6

\* The value v is loaded at a position of the genome, and compared with a number.
ReadAt(g, f, at, v) ==
  /\ Len(g) \in Nat /\ at \in Nat /\ 1 <= at /\ at + 2 <= Len(g) /\ v \in Nat
  /\ \E key : Loads(g[at], g[at + 1], key) /\ Get(f, key, 0) = v
ComparedAt(g, f, at, v, w, n, op) ==
  /\ ReadAt(g, f, at, v) /\ w \in 1..4 /\ n \in Nat /\ LiteralAt(g, at + 2, w, n)
  /\ op \in Comparators /\ g[at + 2 + w] = op

\* The arrow at a position, the tags and what follows them.
ArrowAt(g, a, says, ends) ==
  /\ a \in Nat /\ a + 2 <= Len(g) /\ g[a] = "->" /\ says = Says(g[a + 1], g[a + 2])
  /\ \/ ends = 0
     \/ ends = 1 /\ a + 3 <= Len(g) /\ g[a + 3] = Semicolon

LEMMA ComparedTest ==
  ASSUME NEW g, NEW f, NEW at, NEW v, NEW w, NEW n, NEW op, ComparedAt(g, f, at, v, w, n, op)
  PROVE  TestAt(g, f, Against(at, v, w, n, op)) /\ After(Against(at, v, w, n, op)) = at + w + 3
<1>1. PICK t : t = Against(at, v, w, n, op)
  OBVIOUS
<1>2. /\ t.form = "number" /\ t.at = at /\ t.value = v /\ t.width = w /\ t.number = n /\ t.op = op
  BY <1>1 DEF Against
<1>3. /\ Len(g) \in Nat /\ at \in Nat /\ 1 <= at /\ at + 2 <= Len(g) /\ v \in Nat
      /\ g[at] \in DOMAIN Opcodes /\ g[at + 1] \in DOMAIN Opcodes[g[at]]
      /\ Get(f, Opcodes[g[at]][g[at + 1]], 0) = v
  BY DEF ComparedAt, ReadAt, Loads
<1>4. /\ w \in 1..4 /\ n \in Nat /\ LiteralAt(g, at + 2, w, n)
      /\ op \in Comparators /\ g[at + 2 + w] = op
  BY DEF ComparedAt
<1>. QED
  BY <1>1, <1>2, <1>3, <1>4 DEF TestAt, After

LEMMA ReadTest ==
  ASSUME NEW g, NEW f, NEW at, NEW v, ReadAt(g, f, at, v)
  PROVE  /\ TestAt(g, f, AsIs(at, v)) /\ After(AsIs(at, v)) = at + 2
         /\ \A op \in Comparators :
              g[at + 2] = op => /\ TestAt(g, f, AgainstNone(at, v, op))
                                /\ After(AgainstNone(at, v, op)) = at + 3
<1>1. /\ Len(g) \in Nat /\ at \in Nat /\ 1 <= at /\ at + 2 <= Len(g) /\ v \in Nat
      /\ g[at] \in DOMAIN Opcodes /\ g[at + 1] \in DOMAIN Opcodes[g[at]]
      /\ Get(f, Opcodes[g[at]][g[at + 1]], 0) = v
  BY DEF ReadAt, Loads
<1>2. TestAt(g, f, AsIs(at, v)) /\ After(AsIs(at, v)) = at + 2
  <2>1. PICK t : t = AsIs(at, v)
    OBVIOUS
  <2>2. t.form = "as is" /\ t.at = at /\ t.value = v
    BY <2>1 DEF AsIs
  <2>. QED
    BY <1>1, <2>1, <2>2 DEF TestAt, After
<1>3. ASSUME NEW op \in Comparators, g[at + 2] = op
      PROVE  TestAt(g, f, AgainstNone(at, v, op)) /\ After(AgainstNone(at, v, op)) = at + 3
  <2>1. PICK t : t = AgainstNone(at, v, op)
    OBVIOUS
  <2>2. t.form = "none" /\ t.at = at /\ t.value = v /\ t.op = op
    BY <2>1 DEF AgainstNone
  <2>. QED
    BY <1>1, <1>3, <2>1, <2>2 DEF TestAt, After
<1>. QED
  BY <1>2, <1>3

LEMMA OneTest ==
  ASSUME NEW g, NEW f, NEW t, TestAt(g, f, t), NEW a, a = After(t), NEW says, NEW ends,
         ArrowAt(g, a, says, ends)
  PROVE  RuleAt(g, f, If(t, says, ends)) /\ Follows(If(t, says, ends)) = a + 3 + ends
<1>1. PICK r : r = If(t, says, ends)
  OBVIOUS
<1>2. r.one = t /\ r.both = FALSE /\ r.says = says /\ r.ends = ends
  BY <1>1 DEF If
<1>3. Arrow(r) = a
  BY <1>2 DEF Arrow
<1>. QED
  BY <1>1, <1>2, <1>3 DEF RuleAt, Follows, Says, ArrowAt

LEMMA TwoTests ==
  ASSUME NEW g, NEW f, NEW t, TestAt(g, f, t), NEW u, TestAt(g, f, u),
         u.form # "none", u.at = After(t), g[After(u)] = "and",
         NEW a, a = After(u) + 1, NEW says, NEW ends, ArrowAt(g, a, says, ends)
  PROVE  /\ RuleAt(g, f, IfBoth(t, u, says, ends))
         /\ Follows(IfBoth(t, u, says, ends)) = a + 3 + ends
<1>1. PICK r : r = IfBoth(t, u, says, ends)
  OBVIOUS
<1>2. r.one = t /\ r.two = u /\ r.both = TRUE /\ r.says = says /\ r.ends = ends
  BY <1>1 DEF IfBoth
<1>3. Arrow(r) = a
  BY <1>2 DEF Arrow
<1>. QED
  BY <1>1, <1>2, <1>3 DEF RuleAt, Follows, Says, ArrowAt

\* A rule that compares a reading with a number.
LEMMA ComparedRule ==
  ASSUME NEW g, NEW f, NEW at, NEW v, NEW w, NEW n, NEW op, ComparedAt(g, f, at, v, w, n, op),
         NEW a, a = at + w + 3, NEW says, NEW ends, ArrowAt(g, a, says, ends)
  PROVE  /\ RuleAt(g, f, If(Against(at, v, w, n, op), says, ends))
         /\ Follows(If(Against(at, v, w, n, op), says, ends)) = a + 3 + ends
<1>1. PICK t : t = Against(at, v, w, n, op)
  OBVIOUS
<1>2. TestAt(g, f, t) /\ After(t) = a
  BY <1>1, ComparedTest
<1>3. RuleAt(g, f, If(t, says, ends)) /\ Follows(If(t, says, ends)) = a + 3 + ends
  BY <1>2, OneTest
<1>. QED
  BY <1>1, <1>3

\* What a list says, by the conditions of its rules.
LEMMA SaidFirst ==
  ASSUME NEW rs, Len(rs) \in Nat, NEW rules, Len(rules) = Len(rs),
         \A k \in 1..Len(rs) : (rules[k][1] <=> Applies(rs[k])) /\ rules[k][2] = rs[k].says
  PROVE  Said(rs) = First(rules)
<1>a. PICK n \in Nat : n = Len(rs)
  OBVIOUS
<1>b. PICK own : own = [k \in 1..n |-> <<Applies(rs[k]), rs[k].says>>]
  OBVIOUS
<1>1. n = Len(rs) /\ own = [k \in 1..n |-> <<Applies(rs[k]), rs[k].says>>]
  BY <1>a, <1>b
<1>2. Said(rs) = First(own) /\ Len(own) = n
  BY <1>1 DEF Said
<1>3. ASSUME NEW k \in 1..n
      PROVE  (own[k][1] <=> rules[k][1]) /\ own[k][2] = rules[k][2]
  <2>1. own[k] = <<Applies(rs[k]), rs[k].says>>
    BY <1>1
  <2>2. CASE Applies(rs[k])
    <3>1. Applies(rs[k]) = TRUE
      BY <2>2, Zenon DEF Applies
    <3>2. own[k] = <<TRUE, rs[k].says>>
      BY <2>1, <3>1, Zenon
    <3>. QED
      BY <1>1, <2>2, <3>2
  <2>3. CASE ~Applies(rs[k])
    <3>1. Applies(rs[k]) = FALSE
      BY <2>3, Zenon DEF Applies
    <3>2. own[k] = <<FALSE, rs[k].says>>
      BY <2>1, <3>1, Zenon
    <3>. QED
      BY <1>1, <2>3, <3>2
  <2>. QED
    BY <2>2, <2>3
<1>. QED
  BY <1>1, <1>2, <1>3, SameFirst

LEMMA TestMeans ==
  ASSUME NEW t
  PROVE  /\ t.form = "number" => (Result(t) > 0 <=> Holds(t.op, t.value, t.number))
         /\ t.form = "none" => (Result(t) > 0 <=> Holds(t.op, 0, t.value))
         /\ t.form = "as is" => Result(t) = t.value
<1>1. t.form = "number" => Result(t) = Truth(Holds(t.op, t.value, t.number))
  BY DEF Result
<1>2. t.form = "none" => Result(t) = Truth(Holds(t.op, 0, t.value))
  BY DEF Result
<1>3. t.form = "as is" => Result(t) = t.value
  BY DEF Result
<1>4. t.form = "number" => (Result(t) > 0 <=> Holds(t.op, t.value, t.number))
  BY <1>1, TruthIs
<1>5. t.form = "none" => (Result(t) > 0 <=> Holds(t.op, 0, t.value))
  BY <1>2, TruthIs
<1>. QED
  BY <1>3, <1>4, <1>5

LEMMA RuleMeans ==
  ASSUME NEW t, NEW u, NEW says, NEW ends
  PROVE  /\ Applies(If(t, says, ends)) <=> Result(t) > 0
         /\ Applies(IfBoth(t, u, says, ends)) <=> Result(t) > 0 /\ Result(u) > 0
         /\ If(t, says, ends).says = says /\ IfBoth(t, u, says, ends).says = says
BY DEF Applies, If, IfBoth
------------------------------------------------------------------------------
\* src/swarms/kernel.yaml:55, for three readings: what the rules test, what they say, and
\* the length of the separator after them.
KernelList(full, some, swap) ==
  << If(Against(1, full, 2, 5, ">"), <<"CRITICAL", "MEM_PSI_CRIT">>, 0),
     IfBoth(Against(9, some, 3, 10, ">"), Against(15, swap, 1, 0, "="),
       <<"CRITICAL", "MEM_PSI_CRIT_NOSW">>, 0),
     If(Against(23, some, 3, 10, ">"), <<"WARN", "MEM_PSI_WARN">>, 0),
     If(AgainstNone(32, swap, "="), <<"INFO", "SWAP_ABSENT">>, 0) >>

LEMMA KernelIsList ==
  ASSUME Loads("psi", "f", "psi_full_avg10"),
         Loads("psi", "s", "psi_some_avg10"),
         Loads("mem", "S", "swap_present"),
         NEW f, NEW full \in Nat, NEW some \in Nat, NEW swap \in Nat,
         Get(f, "psi_full_avg10", 0) = full,
         Get(f, "psi_some_avg10", 0) = some,
         Get(f, "swap_present", 0) = swap
  PROVE  RuleList(KernelGenome, f, KernelList(full, some, swap))
<1>g. PICK g : g = KernelGenome
  OBVIOUS
<1>n. Len(g) = 37
  BY <1>g DEF KernelGenome
<1>t1. /\ g[1] = "psi" /\ g[2] = "f" /\ g[3] = "#" /\ g[4] = "5" /\ g[5] = ">" /\ g[6] = "->"
       /\ g[7] = "C" /\ g[8] = "c"
  BY <1>g DEF KernelGenome
<1>1. PICK r1 : /\ r1 = If(Against(1, full, 2, 5, ">"), <<"CRITICAL", "MEM_PSI_CRIT">>, 0)
               /\ RuleAt(g, f, r1) /\ Follows(r1) = 9 /\ r1.one.at = 1
  <2>1. ComparedAt(g, f, 1, full, 2, 5, ">")
    BY <1>n, <1>t1, Characters DEF LiteralAt, ComparedAt, ReadAt
  <2>2. ArrowAt(g, 6, <<"CRITICAL", "MEM_PSI_CRIT">>, 0)
    BY <1>n, <1>t1, TagsSay DEF ArrowAt
  <2>3. PICK r : r = If(Against(1, full, 2, 5, ">"), <<"CRITICAL", "MEM_PSI_CRIT">>, 0)
    OBVIOUS
  <2>4. RuleAt(g, f, r) /\ Follows(r) = 6 + 3 + 0
    BY <2>1, <2>2, <2>3, ComparedRule
  <2>5. r.one.at = 1
    BY <2>3 DEF If, Against
  <2>. QED
    BY <2>3, <2>4, <2>5
<1>t2. /\ g[9] = "psi" /\ g[10] = "s" /\ g[11] = "#" /\ g[12] = "1" /\ g[13] = "0"
       /\ g[14] = ">" /\ g[15] = "mem" /\ g[16] = "S" /\ g[17] = "0" /\ g[18] = "="
       /\ g[19] = "and" /\ g[20] = "->" /\ g[21] = "C" /\ g[22] = "n"
  BY <1>g DEF KernelGenome
<1>2. PICK r2 : /\ r2 = IfBoth(Against(9, some, 3, 10, ">"), Against(15, swap, 1, 0, "="),
                            <<"CRITICAL", "MEM_PSI_CRIT_NOSW">>, 0)
               /\ RuleAt(g, f, r2) /\ Follows(r2) = 23 /\ r2.one.at = 9
  <2>1. PICK t : t = Against(9, some, 3, 10, ">") /\ TestAt(g, f, t) /\ After(t) = 15
    <3>1. ComparedAt(g, f, 9, some, 3, 10, ">")
      BY <1>n, <1>t2, Characters DEF LiteralAt, ComparedAt, ReadAt
    <3>. QED
      BY <3>1, ComparedTest
  <2>2. PICK u : u = Against(15, swap, 1, 0, "=") /\ TestAt(g, f, u) /\ After(u) = 19
    <3>1. ComparedAt(g, f, 15, swap, 1, 0, "=")
      BY <1>n, <1>t2, Characters DEF LiteralAt, ComparedAt, ReadAt
    <3>. QED
      BY <3>1, ComparedTest
  <2>3. t.at = 9 /\ u.at = 15 /\ u.form # "none"
    BY <2>1, <2>2 DEF Against, AsIs
  <2>4. ArrowAt(g, 20, <<"CRITICAL", "MEM_PSI_CRIT_NOSW">>, 0) /\ g[19] = "and"
    BY <1>n, <1>t2, TagsSay DEF ArrowAt
  <2>5. PICK r : r = IfBoth(t, u, <<"CRITICAL", "MEM_PSI_CRIT_NOSW">>, 0)
    OBVIOUS
  <2>6. RuleAt(g, f, r) /\ Follows(r) = 20 + 3 + 0
    BY <2>1, <2>2, <2>3, <2>4, <2>5, TwoTests
  <2>7. r.one.at = 9
    BY <2>3, <2>5 DEF IfBoth
  <2>. QED
    BY <2>1, <2>2, <2>5, <2>6, <2>7
<1>t3. /\ g[23] = "psi" /\ g[24] = "s" /\ g[25] = "#" /\ g[26] = "1" /\ g[27] = "0"
       /\ g[28] = ">" /\ g[29] = "->" /\ g[30] = "W" /\ g[31] = "w"
  BY <1>g DEF KernelGenome
<1>3. PICK r3 : /\ r3 = If(Against(23, some, 3, 10, ">"), <<"WARN", "MEM_PSI_WARN">>, 0)
               /\ RuleAt(g, f, r3) /\ Follows(r3) = 32 /\ r3.one.at = 23
  <2>1. ComparedAt(g, f, 23, some, 3, 10, ">")
    BY <1>n, <1>t3, Characters DEF LiteralAt, ComparedAt, ReadAt
  <2>2. ArrowAt(g, 29, <<"WARN", "MEM_PSI_WARN">>, 0)
    BY <1>n, <1>t3, TagsSay DEF ArrowAt
  <2>3. PICK r : r = If(Against(23, some, 3, 10, ">"), <<"WARN", "MEM_PSI_WARN">>, 0)
    OBVIOUS
  <2>4. RuleAt(g, f, r) /\ Follows(r) = 29 + 3 + 0
    BY <2>1, <2>2, <2>3, ComparedRule
  <2>5. r.one.at = 23
    BY <2>3 DEF If, Against
  <2>. QED
    BY <2>3, <2>4, <2>5
<1>t4. /\ g[32] = "mem" /\ g[33] = "S" /\ g[34] = "=" /\ g[35] = "->" /\ g[36] = "I"
       /\ g[37] = "a"
  BY <1>g DEF KernelGenome
<1>4. PICK r4 : /\ r4 = If(AgainstNone(32, swap, "="), <<"INFO", "SWAP_ABSENT">>, 0)
               /\ RuleAt(g, f, r4) /\ Follows(r4) = 38 /\ r4.one.at = 32
  <2>1. ReadAt(g, f, 32, swap)
    BY <1>n, <1>t4 DEF ReadAt
  <2>2. ArrowAt(g, 35, <<"INFO", "SWAP_ABSENT">>, 0)
    BY <1>n, <1>t4, TagsSay DEF ArrowAt
  <2>3. PICK t : t = AgainstNone(32, swap, "=")
    OBVIOUS
  <2>4. TestAt(g, f, t) /\ After(t) = 35
    BY <1>t4, <2>1, <2>3, ReadTest, Characters
  <2>5. PICK r : r = If(t, <<"INFO", "SWAP_ABSENT">>, 0)
    OBVIOUS
  <2>6. RuleAt(g, f, r) /\ Follows(r) = 35 + 3 + 0
    BY <2>2, <2>4, <2>5, OneTest
  <2>7. r.one.at = 32
    BY <2>3, <2>5 DEF If, AgainstNone
  <2>. QED
    BY <2>3, <2>5, <2>6, <2>7
<1>l. PICK rs : rs = <<r1, r2, r3, r4>>
  OBVIOUS
<1>q. rs = KernelList(full, some, swap)
  BY <1>l, <1>1, <1>2, <1>3, <1>4 DEF KernelList
<1>e. /\ Len(rs) = 4
      /\ rs[1] = r1 /\ rs[2] = r2 /\ rs[3] = r3 /\ rs[4] = r4
  BY <1>l
<1>k. 1..Len(rs) = {1, 2, 3, 4} /\ 1..(Len(rs) - 1) = {1, 2, 3}
  BY <1>e
<1>. QED
  BY <1>g, <1>n, <1>q, <1>e, <1>k, <1>1, <1>2, <1>3, <1>4 DEF RuleList

\* When they apply.
KernelWhen(full, some, swap, a, b, c, d) ==
  /\ (a <=> full > 5) /\ (b <=> some > 10 /\ swap = 0) /\ (c <=> some > 10) /\ (d <=> swap = 0)

\* The first that does.
KernelFirst(a, b, c, d) ==
  First(<< <<a, <<"CRITICAL", "MEM_PSI_CRIT">> >>,
           <<b, <<"CRITICAL", "MEM_PSI_CRIT_NOSW">> >>,
           <<c, <<"WARN", "MEM_PSI_WARN">> >>,
           <<d, <<"INFO", "SWAP_ABSENT">> >> >>)

LEMMA KernelSays ==
  ASSUME NEW full \in Nat, NEW some \in Nat, NEW swap \in Nat, NEW a, NEW b, NEW c, NEW d,
         KernelWhen(full, some, swap, a, b, c, d)
  PROVE  Said(KernelList(full, some, swap)) = KernelFirst(a, b, c, d)
<1>w. /\ (a <=> full > 5) /\ (b <=> some > 10 /\ swap = 0) /\ (c <=> some > 10)
      /\ (d <=> swap = 0)
  BY DEF KernelWhen
<1>1. PICK r1 : /\ r1 = If(Against(1, full, 2, 5, ">"), <<"CRITICAL", "MEM_PSI_CRIT">>, 0)
               /\ (Applies(r1) <=> a) /\ r1.says = <<"CRITICAL", "MEM_PSI_CRIT">>
  <2>1. PICK t : t = Against(1, full, 2, 5, ">") /\ (Result(t) > 0 <=> full > 5)
    <3>1. PICK t : t = Against(1, full, 2, 5, ">")
      OBVIOUS
    <3>2. t.form = "number" /\ t.value = full /\ t.number = 5 /\ t.op = ">"
      BY <3>1 DEF Against
    <3>. QED
      BY <3>1, <3>2, TestMeans DEF Holds
  <2>2. PICK r : r = If(t, <<"CRITICAL", "MEM_PSI_CRIT">>, 0)
    OBVIOUS
  <2>3. (Applies(r) <=> Result(t) > 0) /\ r.says = <<"CRITICAL", "MEM_PSI_CRIT">>
    BY <2>2, RuleMeans
  <2>. QED
    BY <1>w, <2>1, <2>2, <2>3
<1>2. PICK r2 : /\ r2 = IfBoth(Against(9, some, 3, 10, ">"), Against(15, swap, 1, 0, "="),
                             <<"CRITICAL", "MEM_PSI_CRIT_NOSW">>, 0)
               /\ (Applies(r2) <=> b) /\ r2.says = <<"CRITICAL", "MEM_PSI_CRIT_NOSW">>
  <2>1. PICK t : t = Against(9, some, 3, 10, ">") /\ (Result(t) > 0 <=> some > 10)
    <3>1. PICK t : t = Against(9, some, 3, 10, ">")
      OBVIOUS
    <3>2. t.form = "number" /\ t.value = some /\ t.number = 10 /\ t.op = ">"
      BY <3>1 DEF Against
    <3>. QED
      BY <3>1, <3>2, TestMeans DEF Holds
  <2>2. PICK u : u = Against(15, swap, 1, 0, "=") /\ (Result(u) > 0 <=> swap = 0)
    <3>1. PICK u : u = Against(15, swap, 1, 0, "=")
      OBVIOUS
    <3>2. u.form = "number" /\ u.value = swap /\ u.number = 0 /\ u.op = "="
      BY <3>1 DEF Against
    <3>. QED
      BY <3>1, <3>2, TestMeans DEF Holds
  <2>3. PICK r : r = IfBoth(t, u, <<"CRITICAL", "MEM_PSI_CRIT_NOSW">>, 0)
    OBVIOUS
  <2>4. /\ Applies(r) <=> Result(t) > 0 /\ Result(u) > 0
        /\ r.says = <<"CRITICAL", "MEM_PSI_CRIT_NOSW">>
    BY <2>3, RuleMeans
  <2>. QED
    BY <1>w, <2>1, <2>2, <2>3, <2>4
<1>3. PICK r3 : /\ r3 = If(Against(23, some, 3, 10, ">"), <<"WARN", "MEM_PSI_WARN">>, 0)
               /\ (Applies(r3) <=> c) /\ r3.says = <<"WARN", "MEM_PSI_WARN">>
  <2>1. PICK t : t = Against(23, some, 3, 10, ">") /\ (Result(t) > 0 <=> some > 10)
    <3>1. PICK t : t = Against(23, some, 3, 10, ">")
      OBVIOUS
    <3>2. t.form = "number" /\ t.value = some /\ t.number = 10 /\ t.op = ">"
      BY <3>1 DEF Against
    <3>. QED
      BY <3>1, <3>2, TestMeans DEF Holds
  <2>2. PICK r : r = If(t, <<"WARN", "MEM_PSI_WARN">>, 0)
    OBVIOUS
  <2>3. (Applies(r) <=> Result(t) > 0) /\ r.says = <<"WARN", "MEM_PSI_WARN">>
    BY <2>2, RuleMeans
  <2>. QED
    BY <1>w, <2>1, <2>2, <2>3
<1>4. PICK r4 : /\ r4 = If(AgainstNone(32, swap, "="), <<"INFO", "SWAP_ABSENT">>, 0)
               /\ (Applies(r4) <=> d) /\ r4.says = <<"INFO", "SWAP_ABSENT">>
  <2>1. PICK t : t = AgainstNone(32, swap, "=") /\ (Result(t) > 0 <=> swap = 0)
    <3>1. PICK t : t = AgainstNone(32, swap, "=")
      OBVIOUS
    <3>2. t.form = "none" /\ t.value = swap /\ t.op = "="
      BY <3>1 DEF AgainstNone
    <3>. QED
      BY <3>1, <3>2, TestMeans DEF Holds
  <2>2. PICK r : r = If(t, <<"INFO", "SWAP_ABSENT">>, 0)
    OBVIOUS
  <2>3. (Applies(r) <=> Result(t) > 0) /\ r.says = <<"INFO", "SWAP_ABSENT">>
    BY <2>2, RuleMeans
  <2>. QED
    BY <1>w, <2>1, <2>2, <2>3
<1>l. PICK rs : rs = <<r1, r2, r3, r4>>
  OBVIOUS
<1>q. rs = KernelList(full, some, swap)
  BY <1>l, <1>1, <1>2, <1>3, <1>4 DEF KernelList
<1>e. Len(rs) = 4 /\ rs[1] = r1 /\ rs[2] = r2 /\ rs[3] = r3 /\ rs[4] = r4
  BY <1>l
<1>r. PICK rules : rules = << <<a, <<"CRITICAL", "MEM_PSI_CRIT">> >>,
                               <<b, <<"CRITICAL", "MEM_PSI_CRIT_NOSW">> >>,
                               <<c, <<"WARN", "MEM_PSI_WARN">> >>,
                               <<d, <<"INFO", "SWAP_ABSENT">> >> >>
  OBVIOUS
<1>f. /\ Len(rules) = 4
      /\ rules[1] = <<a, <<"CRITICAL", "MEM_PSI_CRIT">> >>
      /\ rules[2] = <<b, <<"CRITICAL", "MEM_PSI_CRIT_NOSW">> >>
      /\ rules[3] = <<c, <<"WARN", "MEM_PSI_WARN">> >>
      /\ rules[4] = <<d, <<"INFO", "SWAP_ABSENT">> >>
  BY <1>r
<1>h. /\ (rules[1][1] <=> a) /\ rules[1][2] = <<"CRITICAL", "MEM_PSI_CRIT">>
      /\ (rules[2][1] <=> b) /\ rules[2][2] = <<"CRITICAL", "MEM_PSI_CRIT_NOSW">>
      /\ (rules[3][1] <=> c) /\ rules[3][2] = <<"WARN", "MEM_PSI_WARN">>
      /\ (rules[4][1] <=> d) /\ rules[4][2] = <<"INFO", "SWAP_ABSENT">>
  BY <1>f
<1>k. 1..Len(rs) = {1, 2, 3, 4}
  BY <1>e
<1>i. \A k \in 1..Len(rs) : (rules[k][1] <=> Applies(rs[k])) /\ rules[k][2] = rs[k].says
  BY <1>1, <1>2, <1>3, <1>4, <1>e, <1>h, <1>k
<1>s. Len(rs) \in Nat /\ Len(rules) = Len(rs)
  BY <1>e, <1>f
<1>o. Said(rs) = First(rules)
  BY <1>s, <1>i, SaidFirst, Zenon
<1>. QED
  BY <1>o, <1>q, <1>r DEF KernelFirst

\* src/swarms/kernel.yaml:32.
HandCodedList(full, some, swap) ==
  << If(Against(1, full, 2, 5, ">"), <<"CRITICAL", "MEM_PSI_CRIT">>, 1),
     IfBoth(Against(10, some, 3, 10, ">"), Against(16, swap, 1, 0, "="),
       <<"CRITICAL", "MEM_PSI_CRIT_NOSW">>, 1),
     If(Against(25, some, 3, 10, ">"), <<"WARN", "MEM_PSI_WARN">>, 1),
     If(Against(35, swap, 1, 0, "="), <<"INFO", "SWAP_ABSENT">>, 1) >>

LEMMA HandCodedIsList ==
  ASSUME Loads("psi", "f", "psi_full_avg10"),
         Loads("psi", "s", "psi_some_avg10"),
         Loads("mem", "S", "swap_present"),
         NEW f, NEW full \in Nat, NEW some \in Nat, NEW swap \in Nat,
         Get(f, "psi_full_avg10", 0) = full,
         Get(f, "psi_some_avg10", 0) = some,
         Get(f, "swap_present", 0) = swap
  PROVE  RuleList(HandCoded, f, HandCodedList(full, some, swap))
<1>g. PICK g : g = HandCoded
  OBVIOUS
<1>n. Len(g) = 42
  BY <1>g DEF HandCoded
<1>t1. /\ g[1] = "psi" /\ g[2] = "f" /\ g[3] = "#" /\ g[4] = "5" /\ g[5] = ">" /\ g[6] = "->"
       /\ g[7] = "C" /\ g[8] = "c"
  BY <1>g DEF HandCoded
<1>s1. g[9] = Semicolon
  BY <1>g DEF HandCoded, Semicolon
<1>1. PICK r1 : /\ r1 = If(Against(1, full, 2, 5, ">"), <<"CRITICAL", "MEM_PSI_CRIT">>, 1)
               /\ RuleAt(g, f, r1) /\ Follows(r1) = 10 /\ r1.one.at = 1
  <2>1. ComparedAt(g, f, 1, full, 2, 5, ">")
    BY <1>n, <1>t1, Characters DEF LiteralAt, ComparedAt, ReadAt
  <2>2. ArrowAt(g, 6, <<"CRITICAL", "MEM_PSI_CRIT">>, 1)
    BY <1>n, <1>t1, <1>s1, TagsSay DEF ArrowAt
  <2>3. PICK r : r = If(Against(1, full, 2, 5, ">"), <<"CRITICAL", "MEM_PSI_CRIT">>, 1)
    OBVIOUS
  <2>4. RuleAt(g, f, r) /\ Follows(r) = 6 + 3 + 1
    BY <2>1, <2>2, <2>3, ComparedRule
  <2>5. r.one.at = 1
    BY <2>3 DEF If, Against
  <2>. QED
    BY <2>3, <2>4, <2>5
<1>t2. /\ g[10] = "psi" /\ g[11] = "s" /\ g[12] = "#" /\ g[13] = "1" /\ g[14] = "0"
       /\ g[15] = ">" /\ g[16] = "mem" /\ g[17] = "S" /\ g[18] = "0" /\ g[19] = "="
       /\ g[20] = "and" /\ g[21] = "->" /\ g[22] = "C" /\ g[23] = "n"
  BY <1>g DEF HandCoded
<1>s2. g[24] = Semicolon
  BY <1>g DEF HandCoded, Semicolon
<1>2. PICK r2 : /\ r2 = IfBoth(Against(10, some, 3, 10, ">"), Against(16, swap, 1, 0, "="),
                            <<"CRITICAL", "MEM_PSI_CRIT_NOSW">>, 1)
               /\ RuleAt(g, f, r2) /\ Follows(r2) = 25 /\ r2.one.at = 10
  <2>1. PICK t : t = Against(10, some, 3, 10, ">") /\ TestAt(g, f, t) /\ After(t) = 16
    <3>1. ComparedAt(g, f, 10, some, 3, 10, ">")
      BY <1>n, <1>t2, Characters DEF LiteralAt, ComparedAt, ReadAt
    <3>. QED
      BY <3>1, ComparedTest
  <2>2. PICK u : u = Against(16, swap, 1, 0, "=") /\ TestAt(g, f, u) /\ After(u) = 20
    <3>1. ComparedAt(g, f, 16, swap, 1, 0, "=")
      BY <1>n, <1>t2, Characters DEF LiteralAt, ComparedAt, ReadAt
    <3>. QED
      BY <3>1, ComparedTest
  <2>3. t.at = 10 /\ u.at = 16 /\ u.form # "none"
    BY <2>1, <2>2 DEF Against, AsIs
  <2>4. ArrowAt(g, 21, <<"CRITICAL", "MEM_PSI_CRIT_NOSW">>, 1) /\ g[20] = "and"
    BY <1>n, <1>t2, <1>s2, TagsSay DEF ArrowAt
  <2>5. PICK r : r = IfBoth(t, u, <<"CRITICAL", "MEM_PSI_CRIT_NOSW">>, 1)
    OBVIOUS
  <2>6. RuleAt(g, f, r) /\ Follows(r) = 21 + 3 + 1
    BY <2>1, <2>2, <2>3, <2>4, <2>5, TwoTests
  <2>7. r.one.at = 10
    BY <2>3, <2>5 DEF IfBoth
  <2>. QED
    BY <2>1, <2>2, <2>5, <2>6, <2>7
<1>t3. /\ g[25] = "psi" /\ g[26] = "s" /\ g[27] = "#" /\ g[28] = "1" /\ g[29] = "0"
       /\ g[30] = ">" /\ g[31] = "->" /\ g[32] = "W" /\ g[33] = "w"
  BY <1>g DEF HandCoded
<1>s3. g[34] = Semicolon
  BY <1>g DEF HandCoded, Semicolon
<1>3. PICK r3 : /\ r3 = If(Against(25, some, 3, 10, ">"), <<"WARN", "MEM_PSI_WARN">>, 1)
               /\ RuleAt(g, f, r3) /\ Follows(r3) = 35 /\ r3.one.at = 25
  <2>1. ComparedAt(g, f, 25, some, 3, 10, ">")
    BY <1>n, <1>t3, Characters DEF LiteralAt, ComparedAt, ReadAt
  <2>2. ArrowAt(g, 31, <<"WARN", "MEM_PSI_WARN">>, 1)
    BY <1>n, <1>t3, <1>s3, TagsSay DEF ArrowAt
  <2>3. PICK r : r = If(Against(25, some, 3, 10, ">"), <<"WARN", "MEM_PSI_WARN">>, 1)
    OBVIOUS
  <2>4. RuleAt(g, f, r) /\ Follows(r) = 31 + 3 + 1
    BY <2>1, <2>2, <2>3, ComparedRule
  <2>5. r.one.at = 25
    BY <2>3 DEF If, Against
  <2>. QED
    BY <2>3, <2>4, <2>5
<1>t4. /\ g[35] = "mem" /\ g[36] = "S" /\ g[37] = "0" /\ g[38] = "=" /\ g[39] = "->"
       /\ g[40] = "I" /\ g[41] = "a"
  BY <1>g DEF HandCoded
<1>s4. g[42] = Semicolon
  BY <1>g DEF HandCoded, Semicolon
<1>4. PICK r4 : /\ r4 = If(Against(35, swap, 1, 0, "="), <<"INFO", "SWAP_ABSENT">>, 1)
               /\ RuleAt(g, f, r4) /\ Follows(r4) = 43 /\ r4.one.at = 35
  <2>1. ComparedAt(g, f, 35, swap, 1, 0, "=")
    BY <1>n, <1>t4, Characters DEF LiteralAt, ComparedAt, ReadAt
  <2>2. ArrowAt(g, 39, <<"INFO", "SWAP_ABSENT">>, 1)
    BY <1>n, <1>t4, <1>s4, TagsSay DEF ArrowAt
  <2>3. PICK r : r = If(Against(35, swap, 1, 0, "="), <<"INFO", "SWAP_ABSENT">>, 1)
    OBVIOUS
  <2>4. RuleAt(g, f, r) /\ Follows(r) = 39 + 3 + 1
    BY <2>1, <2>2, <2>3, ComparedRule
  <2>5. r.one.at = 35
    BY <2>3 DEF If, Against
  <2>. QED
    BY <2>3, <2>4, <2>5
<1>l. PICK rs : rs = <<r1, r2, r3, r4>>
  OBVIOUS
<1>q. rs = HandCodedList(full, some, swap)
  BY <1>l, <1>1, <1>2, <1>3, <1>4 DEF HandCodedList
<1>e. /\ Len(rs) = 4
      /\ rs[1] = r1 /\ rs[2] = r2 /\ rs[3] = r3 /\ rs[4] = r4
  BY <1>l
<1>k. 1..Len(rs) = {1, 2, 3, 4} /\ 1..(Len(rs) - 1) = {1, 2, 3}
  BY <1>e
<1>. QED
  BY <1>g, <1>n, <1>q, <1>e, <1>k, <1>1, <1>2, <1>3, <1>4 DEF RuleList

LEMMA HandCodedSays ==
  ASSUME NEW full \in Nat, NEW some \in Nat, NEW swap \in Nat, NEW a, NEW b, NEW c, NEW d,
         KernelWhen(full, some, swap, a, b, c, d)
  PROVE  Said(HandCodedList(full, some, swap)) = KernelFirst(a, b, c, d)
<1>w. /\ (a <=> full > 5) /\ (b <=> some > 10 /\ swap = 0) /\ (c <=> some > 10)
      /\ (d <=> swap = 0)
  BY DEF KernelWhen
<1>1. PICK r1 : /\ r1 = If(Against(1, full, 2, 5, ">"), <<"CRITICAL", "MEM_PSI_CRIT">>, 1)
               /\ (Applies(r1) <=> a) /\ r1.says = <<"CRITICAL", "MEM_PSI_CRIT">>
  <2>1. PICK t : t = Against(1, full, 2, 5, ">") /\ (Result(t) > 0 <=> full > 5)
    <3>1. PICK t : t = Against(1, full, 2, 5, ">")
      OBVIOUS
    <3>2. t.form = "number" /\ t.value = full /\ t.number = 5 /\ t.op = ">"
      BY <3>1 DEF Against
    <3>. QED
      BY <3>1, <3>2, TestMeans DEF Holds
  <2>2. PICK r : r = If(t, <<"CRITICAL", "MEM_PSI_CRIT">>, 1)
    OBVIOUS
  <2>3. (Applies(r) <=> Result(t) > 0) /\ r.says = <<"CRITICAL", "MEM_PSI_CRIT">>
    BY <2>2, RuleMeans
  <2>. QED
    BY <1>w, <2>1, <2>2, <2>3
<1>2. PICK r2 : /\ r2 = IfBoth(Against(10, some, 3, 10, ">"), Against(16, swap, 1, 0, "="),
                             <<"CRITICAL", "MEM_PSI_CRIT_NOSW">>, 1)
               /\ (Applies(r2) <=> b) /\ r2.says = <<"CRITICAL", "MEM_PSI_CRIT_NOSW">>
  <2>1. PICK t : t = Against(10, some, 3, 10, ">") /\ (Result(t) > 0 <=> some > 10)
    <3>1. PICK t : t = Against(10, some, 3, 10, ">")
      OBVIOUS
    <3>2. t.form = "number" /\ t.value = some /\ t.number = 10 /\ t.op = ">"
      BY <3>1 DEF Against
    <3>. QED
      BY <3>1, <3>2, TestMeans DEF Holds
  <2>2. PICK u : u = Against(16, swap, 1, 0, "=") /\ (Result(u) > 0 <=> swap = 0)
    <3>1. PICK u : u = Against(16, swap, 1, 0, "=")
      OBVIOUS
    <3>2. u.form = "number" /\ u.value = swap /\ u.number = 0 /\ u.op = "="
      BY <3>1 DEF Against
    <3>. QED
      BY <3>1, <3>2, TestMeans DEF Holds
  <2>3. PICK r : r = IfBoth(t, u, <<"CRITICAL", "MEM_PSI_CRIT_NOSW">>, 1)
    OBVIOUS
  <2>4. /\ Applies(r) <=> Result(t) > 0 /\ Result(u) > 0
        /\ r.says = <<"CRITICAL", "MEM_PSI_CRIT_NOSW">>
    BY <2>3, RuleMeans
  <2>. QED
    BY <1>w, <2>1, <2>2, <2>3, <2>4
<1>3. PICK r3 : /\ r3 = If(Against(25, some, 3, 10, ">"), <<"WARN", "MEM_PSI_WARN">>, 1)
               /\ (Applies(r3) <=> c) /\ r3.says = <<"WARN", "MEM_PSI_WARN">>
  <2>1. PICK t : t = Against(25, some, 3, 10, ">") /\ (Result(t) > 0 <=> some > 10)
    <3>1. PICK t : t = Against(25, some, 3, 10, ">")
      OBVIOUS
    <3>2. t.form = "number" /\ t.value = some /\ t.number = 10 /\ t.op = ">"
      BY <3>1 DEF Against
    <3>. QED
      BY <3>1, <3>2, TestMeans DEF Holds
  <2>2. PICK r : r = If(t, <<"WARN", "MEM_PSI_WARN">>, 1)
    OBVIOUS
  <2>3. (Applies(r) <=> Result(t) > 0) /\ r.says = <<"WARN", "MEM_PSI_WARN">>
    BY <2>2, RuleMeans
  <2>. QED
    BY <1>w, <2>1, <2>2, <2>3
<1>4. PICK r4 : /\ r4 = If(Against(35, swap, 1, 0, "="), <<"INFO", "SWAP_ABSENT">>, 1)
               /\ (Applies(r4) <=> d) /\ r4.says = <<"INFO", "SWAP_ABSENT">>
  <2>1. PICK t : t = Against(35, swap, 1, 0, "=") /\ (Result(t) > 0 <=> swap = 0)
    <3>1. PICK t : t = Against(35, swap, 1, 0, "=")
      OBVIOUS
    <3>2. t.form = "number" /\ t.value = swap /\ t.number = 0 /\ t.op = "="
      BY <3>1 DEF Against
    <3>. QED
      BY <3>1, <3>2, TestMeans DEF Holds
  <2>2. PICK r : r = If(t, <<"INFO", "SWAP_ABSENT">>, 1)
    OBVIOUS
  <2>3. (Applies(r) <=> Result(t) > 0) /\ r.says = <<"INFO", "SWAP_ABSENT">>
    BY <2>2, RuleMeans
  <2>. QED
    BY <1>w, <2>1, <2>2, <2>3
<1>l. PICK rs : rs = <<r1, r2, r3, r4>>
  OBVIOUS
<1>q. rs = HandCodedList(full, some, swap)
  BY <1>l, <1>1, <1>2, <1>3, <1>4 DEF HandCodedList
<1>e. Len(rs) = 4 /\ rs[1] = r1 /\ rs[2] = r2 /\ rs[3] = r3 /\ rs[4] = r4
  BY <1>l
<1>r. PICK rules : rules = << <<a, <<"CRITICAL", "MEM_PSI_CRIT">> >>,
                               <<b, <<"CRITICAL", "MEM_PSI_CRIT_NOSW">> >>,
                               <<c, <<"WARN", "MEM_PSI_WARN">> >>,
                               <<d, <<"INFO", "SWAP_ABSENT">> >> >>
  OBVIOUS
<1>f. /\ Len(rules) = 4
      /\ rules[1] = <<a, <<"CRITICAL", "MEM_PSI_CRIT">> >>
      /\ rules[2] = <<b, <<"CRITICAL", "MEM_PSI_CRIT_NOSW">> >>
      /\ rules[3] = <<c, <<"WARN", "MEM_PSI_WARN">> >>
      /\ rules[4] = <<d, <<"INFO", "SWAP_ABSENT">> >>
  BY <1>r
<1>h. /\ (rules[1][1] <=> a) /\ rules[1][2] = <<"CRITICAL", "MEM_PSI_CRIT">>
      /\ (rules[2][1] <=> b) /\ rules[2][2] = <<"CRITICAL", "MEM_PSI_CRIT_NOSW">>
      /\ (rules[3][1] <=> c) /\ rules[3][2] = <<"WARN", "MEM_PSI_WARN">>
      /\ (rules[4][1] <=> d) /\ rules[4][2] = <<"INFO", "SWAP_ABSENT">>
  BY <1>f
<1>k. 1..Len(rs) = {1, 2, 3, 4}
  BY <1>e
<1>i. \A k \in 1..Len(rs) : (rules[k][1] <=> Applies(rs[k])) /\ rules[k][2] = rs[k].says
  BY <1>1, <1>2, <1>3, <1>4, <1>e, <1>h, <1>k
<1>s. Len(rs) \in Nat /\ Len(rules) = Len(rs)
  BY <1>e, <1>f
<1>o. Said(rs) = First(rules)
  BY <1>s, <1>i, SaidFirst, Zenon
<1>. QED
  BY <1>o, <1>q, <1>r DEF KernelFirst

\* src/swarms/k8s_node.yaml:32.
PodsList(oom, some) ==
  << If(Against(1, oom, 1, 0, ">"), <<"CRITICAL", "MEM_PSI_CRIT">>, 0),
     If(Against(8, some, 3, 10, ">"), <<"WARN", "MEM_PSI_WARN">>, 0) >>

LEMMA PodsIsList ==
  ASSUME Loads("pod", "o", "pod_delta_oom_kills_60s"),
         Loads("pod", "s", "pod_max_psi_some"),
         NEW f, NEW oom \in Nat, NEW some \in Nat,
         Get(f, "pod_delta_oom_kills_60s", 0) = oom,
         Get(f, "pod_max_psi_some", 0) = some
  PROVE  RuleList(PodsGenome, f, PodsList(oom, some))
<1>g. PICK g : g = PodsGenome
  OBVIOUS
<1>n. Len(g) = 16
  BY <1>g DEF PodsGenome
<1>t1. /\ g[1] = "pod" /\ g[2] = "o" /\ g[3] = "0" /\ g[4] = ">" /\ g[5] = "->" /\ g[6] = "C"
       /\ g[7] = "c"
  BY <1>g DEF PodsGenome
<1>1. PICK r1 : /\ r1 = If(Against(1, oom, 1, 0, ">"), <<"CRITICAL", "MEM_PSI_CRIT">>, 0)
               /\ RuleAt(g, f, r1) /\ Follows(r1) = 8 /\ r1.one.at = 1
  <2>1. ComparedAt(g, f, 1, oom, 1, 0, ">")
    BY <1>n, <1>t1, Characters DEF LiteralAt, ComparedAt, ReadAt
  <2>2. ArrowAt(g, 5, <<"CRITICAL", "MEM_PSI_CRIT">>, 0)
    BY <1>n, <1>t1, TagsSay DEF ArrowAt
  <2>3. PICK r : r = If(Against(1, oom, 1, 0, ">"), <<"CRITICAL", "MEM_PSI_CRIT">>, 0)
    OBVIOUS
  <2>4. RuleAt(g, f, r) /\ Follows(r) = 5 + 3 + 0
    BY <2>1, <2>2, <2>3, ComparedRule
  <2>5. r.one.at = 1
    BY <2>3 DEF If, Against
  <2>. QED
    BY <2>3, <2>4, <2>5
<1>t2. /\ g[8] = "pod" /\ g[9] = "s" /\ g[10] = "#" /\ g[11] = "1" /\ g[12] = "0" /\ g[13] = ">"
       /\ g[14] = "->" /\ g[15] = "W" /\ g[16] = "w"
  BY <1>g DEF PodsGenome
<1>2. PICK r2 : /\ r2 = If(Against(8, some, 3, 10, ">"), <<"WARN", "MEM_PSI_WARN">>, 0)
               /\ RuleAt(g, f, r2) /\ Follows(r2) = 17 /\ r2.one.at = 8
  <2>1. ComparedAt(g, f, 8, some, 3, 10, ">")
    BY <1>n, <1>t2, Characters DEF LiteralAt, ComparedAt, ReadAt
  <2>2. ArrowAt(g, 14, <<"WARN", "MEM_PSI_WARN">>, 0)
    BY <1>n, <1>t2, TagsSay DEF ArrowAt
  <2>3. PICK r : r = If(Against(8, some, 3, 10, ">"), <<"WARN", "MEM_PSI_WARN">>, 0)
    OBVIOUS
  <2>4. RuleAt(g, f, r) /\ Follows(r) = 14 + 3 + 0
    BY <2>1, <2>2, <2>3, ComparedRule
  <2>5. r.one.at = 8
    BY <2>3 DEF If, Against
  <2>. QED
    BY <2>3, <2>4, <2>5
<1>l. PICK rs : rs = <<r1, r2>>
  OBVIOUS
<1>q. rs = PodsList(oom, some)
  BY <1>l, <1>1, <1>2 DEF PodsList
<1>e. /\ Len(rs) = 2
      /\ rs[1] = r1 /\ rs[2] = r2
  BY <1>l
<1>k. 1..Len(rs) = {1, 2} /\ 1..(Len(rs) - 1) = {1}
  BY <1>e
<1>. QED
  BY <1>g, <1>n, <1>q, <1>e, <1>k, <1>1, <1>2 DEF RuleList

\* When they apply.
PodsWhen(oom, some, a, b) ==
  /\ (a <=> oom > 0) /\ (b <=> some > 10)

\* The first that does.
PodsFirst(a, b) ==
  First(<< <<a, <<"CRITICAL", "MEM_PSI_CRIT">> >>,
           <<b, <<"WARN", "MEM_PSI_WARN">> >> >>)

LEMMA PodsSays ==
  ASSUME NEW oom \in Nat, NEW some \in Nat, NEW a, NEW b, PodsWhen(oom, some, a, b)
  PROVE  Said(PodsList(oom, some)) = PodsFirst(a, b)
<1>w. /\ (a <=> oom > 0) /\ (b <=> some > 10)
  BY DEF PodsWhen
<1>1. PICK r1 : /\ r1 = If(Against(1, oom, 1, 0, ">"), <<"CRITICAL", "MEM_PSI_CRIT">>, 0)
               /\ (Applies(r1) <=> a) /\ r1.says = <<"CRITICAL", "MEM_PSI_CRIT">>
  <2>1. PICK t : t = Against(1, oom, 1, 0, ">") /\ (Result(t) > 0 <=> oom > 0)
    <3>1. PICK t : t = Against(1, oom, 1, 0, ">")
      OBVIOUS
    <3>2. t.form = "number" /\ t.value = oom /\ t.number = 0 /\ t.op = ">"
      BY <3>1 DEF Against
    <3>. QED
      BY <3>1, <3>2, TestMeans DEF Holds
  <2>2. PICK r : r = If(t, <<"CRITICAL", "MEM_PSI_CRIT">>, 0)
    OBVIOUS
  <2>3. (Applies(r) <=> Result(t) > 0) /\ r.says = <<"CRITICAL", "MEM_PSI_CRIT">>
    BY <2>2, RuleMeans
  <2>. QED
    BY <1>w, <2>1, <2>2, <2>3
<1>2. PICK r2 : /\ r2 = If(Against(8, some, 3, 10, ">"), <<"WARN", "MEM_PSI_WARN">>, 0)
               /\ (Applies(r2) <=> b) /\ r2.says = <<"WARN", "MEM_PSI_WARN">>
  <2>1. PICK t : t = Against(8, some, 3, 10, ">") /\ (Result(t) > 0 <=> some > 10)
    <3>1. PICK t : t = Against(8, some, 3, 10, ">")
      OBVIOUS
    <3>2. t.form = "number" /\ t.value = some /\ t.number = 10 /\ t.op = ">"
      BY <3>1 DEF Against
    <3>. QED
      BY <3>1, <3>2, TestMeans DEF Holds
  <2>2. PICK r : r = If(t, <<"WARN", "MEM_PSI_WARN">>, 0)
    OBVIOUS
  <2>3. (Applies(r) <=> Result(t) > 0) /\ r.says = <<"WARN", "MEM_PSI_WARN">>
    BY <2>2, RuleMeans
  <2>. QED
    BY <1>w, <2>1, <2>2, <2>3
<1>l. PICK rs : rs = <<r1, r2>>
  OBVIOUS
<1>q. rs = PodsList(oom, some)
  BY <1>l, <1>1, <1>2 DEF PodsList
<1>e. Len(rs) = 2 /\ rs[1] = r1 /\ rs[2] = r2
  BY <1>l
<1>r. PICK rules : rules = << <<a, <<"CRITICAL", "MEM_PSI_CRIT">> >>,
                               <<b, <<"WARN", "MEM_PSI_WARN">> >> >>
  OBVIOUS
<1>f. /\ Len(rules) = 2
      /\ rules[1] = <<a, <<"CRITICAL", "MEM_PSI_CRIT">> >>
      /\ rules[2] = <<b, <<"WARN", "MEM_PSI_WARN">> >>
  BY <1>r
<1>h. /\ (rules[1][1] <=> a) /\ rules[1][2] = <<"CRITICAL", "MEM_PSI_CRIT">>
      /\ (rules[2][1] <=> b) /\ rules[2][2] = <<"WARN", "MEM_PSI_WARN">>
  BY <1>f
<1>k. 1..Len(rs) = {1, 2}
  BY <1>e
<1>i. \A k \in 1..Len(rs) : (rules[k][1] <=> Applies(rs[k])) /\ rules[k][2] = rs[k].says
  BY <1>1, <1>2, <1>e, <1>h, <1>k
<1>s. Len(rs) \in Nat /\ Len(rules) = Len(rs)
  BY <1>e, <1>f
<1>o. Said(rs) = First(rules)
  BY <1>s, <1>i, SaidFirst, Zenon
<1>. QED
  BY <1>o, <1>q, <1>r DEF PodsFirst

\* src/swarms/k8s_node.yaml:44.
DiskNetList(errs, busy) ==
  << If(Against(1, errs, 1, 0, ">"), <<"CRITICAL", "MEM_PSI_CRIT">>, 0),
     If(Against(8, busy, 3, 80, ">"), <<"WARN", "MEM_PSI_WARN">>, 0) >>

LEMMA DiskNetIsList ==
  ASSUME Loads("net", "e", "net_errors"),
         Loads("disk", "u", "disk_util"),
         NEW f, NEW errs \in Nat, NEW busy \in Nat,
         Get(f, "net_errors", 0) = errs,
         Get(f, "disk_util", 0) = busy
  PROVE  RuleList(DiskNetGenome, f, DiskNetList(errs, busy))
<1>g. PICK g : g = DiskNetGenome
  OBVIOUS
<1>n. Len(g) = 16
  BY <1>g DEF DiskNetGenome
<1>t1. /\ g[1] = "net" /\ g[2] = "e" /\ g[3] = "0" /\ g[4] = ">" /\ g[5] = "->" /\ g[6] = "C"
       /\ g[7] = "c"
  BY <1>g DEF DiskNetGenome
<1>1. PICK r1 : /\ r1 = If(Against(1, errs, 1, 0, ">"), <<"CRITICAL", "MEM_PSI_CRIT">>, 0)
               /\ RuleAt(g, f, r1) /\ Follows(r1) = 8 /\ r1.one.at = 1
  <2>1. ComparedAt(g, f, 1, errs, 1, 0, ">")
    BY <1>n, <1>t1, Characters DEF LiteralAt, ComparedAt, ReadAt
  <2>2. ArrowAt(g, 5, <<"CRITICAL", "MEM_PSI_CRIT">>, 0)
    BY <1>n, <1>t1, TagsSay DEF ArrowAt
  <2>3. PICK r : r = If(Against(1, errs, 1, 0, ">"), <<"CRITICAL", "MEM_PSI_CRIT">>, 0)
    OBVIOUS
  <2>4. RuleAt(g, f, r) /\ Follows(r) = 5 + 3 + 0
    BY <2>1, <2>2, <2>3, ComparedRule
  <2>5. r.one.at = 1
    BY <2>3 DEF If, Against
  <2>. QED
    BY <2>3, <2>4, <2>5
<1>t2. /\ g[8] = "disk" /\ g[9] = "u" /\ g[10] = "#" /\ g[11] = "8" /\ g[12] = "0"
       /\ g[13] = ">" /\ g[14] = "->" /\ g[15] = "W" /\ g[16] = "w"
  BY <1>g DEF DiskNetGenome
<1>2. PICK r2 : /\ r2 = If(Against(8, busy, 3, 80, ">"), <<"WARN", "MEM_PSI_WARN">>, 0)
               /\ RuleAt(g, f, r2) /\ Follows(r2) = 17 /\ r2.one.at = 8
  <2>1. ComparedAt(g, f, 8, busy, 3, 80, ">")
    BY <1>n, <1>t2, Characters DEF LiteralAt, ComparedAt, ReadAt
  <2>2. ArrowAt(g, 14, <<"WARN", "MEM_PSI_WARN">>, 0)
    BY <1>n, <1>t2, TagsSay DEF ArrowAt
  <2>3. PICK r : r = If(Against(8, busy, 3, 80, ">"), <<"WARN", "MEM_PSI_WARN">>, 0)
    OBVIOUS
  <2>4. RuleAt(g, f, r) /\ Follows(r) = 14 + 3 + 0
    BY <2>1, <2>2, <2>3, ComparedRule
  <2>5. r.one.at = 8
    BY <2>3 DEF If, Against
  <2>. QED
    BY <2>3, <2>4, <2>5
<1>l. PICK rs : rs = <<r1, r2>>
  OBVIOUS
<1>q. rs = DiskNetList(errs, busy)
  BY <1>l, <1>1, <1>2 DEF DiskNetList
<1>e. /\ Len(rs) = 2
      /\ rs[1] = r1 /\ rs[2] = r2
  BY <1>l
<1>k. 1..Len(rs) = {1, 2} /\ 1..(Len(rs) - 1) = {1}
  BY <1>e
<1>. QED
  BY <1>g, <1>n, <1>q, <1>e, <1>k, <1>1, <1>2 DEF RuleList

\* When they apply.
DiskNetWhen(errs, busy, a, b) ==
  /\ (a <=> errs > 0) /\ (b <=> busy > 80)

\* The first that does.
DiskNetFirst(a, b) ==
  First(<< <<a, <<"CRITICAL", "MEM_PSI_CRIT">> >>,
           <<b, <<"WARN", "MEM_PSI_WARN">> >> >>)

LEMMA DiskNetSays ==
  ASSUME NEW errs \in Nat, NEW busy \in Nat, NEW a, NEW b, DiskNetWhen(errs, busy, a, b)
  PROVE  Said(DiskNetList(errs, busy)) = DiskNetFirst(a, b)
<1>w. /\ (a <=> errs > 0) /\ (b <=> busy > 80)
  BY DEF DiskNetWhen
<1>1. PICK r1 : /\ r1 = If(Against(1, errs, 1, 0, ">"), <<"CRITICAL", "MEM_PSI_CRIT">>, 0)
               /\ (Applies(r1) <=> a) /\ r1.says = <<"CRITICAL", "MEM_PSI_CRIT">>
  <2>1. PICK t : t = Against(1, errs, 1, 0, ">") /\ (Result(t) > 0 <=> errs > 0)
    <3>1. PICK t : t = Against(1, errs, 1, 0, ">")
      OBVIOUS
    <3>2. t.form = "number" /\ t.value = errs /\ t.number = 0 /\ t.op = ">"
      BY <3>1 DEF Against
    <3>. QED
      BY <3>1, <3>2, TestMeans DEF Holds
  <2>2. PICK r : r = If(t, <<"CRITICAL", "MEM_PSI_CRIT">>, 0)
    OBVIOUS
  <2>3. (Applies(r) <=> Result(t) > 0) /\ r.says = <<"CRITICAL", "MEM_PSI_CRIT">>
    BY <2>2, RuleMeans
  <2>. QED
    BY <1>w, <2>1, <2>2, <2>3
<1>2. PICK r2 : /\ r2 = If(Against(8, busy, 3, 80, ">"), <<"WARN", "MEM_PSI_WARN">>, 0)
               /\ (Applies(r2) <=> b) /\ r2.says = <<"WARN", "MEM_PSI_WARN">>
  <2>1. PICK t : t = Against(8, busy, 3, 80, ">") /\ (Result(t) > 0 <=> busy > 80)
    <3>1. PICK t : t = Against(8, busy, 3, 80, ">")
      OBVIOUS
    <3>2. t.form = "number" /\ t.value = busy /\ t.number = 80 /\ t.op = ">"
      BY <3>1 DEF Against
    <3>. QED
      BY <3>1, <3>2, TestMeans DEF Holds
  <2>2. PICK r : r = If(t, <<"WARN", "MEM_PSI_WARN">>, 0)
    OBVIOUS
  <2>3. (Applies(r) <=> Result(t) > 0) /\ r.says = <<"WARN", "MEM_PSI_WARN">>
    BY <2>2, RuleMeans
  <2>. QED
    BY <1>w, <2>1, <2>2, <2>3
<1>l. PICK rs : rs = <<r1, r2>>
  OBVIOUS
<1>q. rs = DiskNetList(errs, busy)
  BY <1>l, <1>1, <1>2 DEF DiskNetList
<1>e. Len(rs) = 2 /\ rs[1] = r1 /\ rs[2] = r2
  BY <1>l
<1>r. PICK rules : rules = << <<a, <<"CRITICAL", "MEM_PSI_CRIT">> >>,
                               <<b, <<"WARN", "MEM_PSI_WARN">> >> >>
  OBVIOUS
<1>f. /\ Len(rules) = 2
      /\ rules[1] = <<a, <<"CRITICAL", "MEM_PSI_CRIT">> >>
      /\ rules[2] = <<b, <<"WARN", "MEM_PSI_WARN">> >>
  BY <1>r
<1>h. /\ (rules[1][1] <=> a) /\ rules[1][2] = <<"CRITICAL", "MEM_PSI_CRIT">>
      /\ (rules[2][1] <=> b) /\ rules[2][2] = <<"WARN", "MEM_PSI_WARN">>
  BY <1>f
<1>k. 1..Len(rs) = {1, 2}
  BY <1>e
<1>i. \A k \in 1..Len(rs) : (rules[k][1] <=> Applies(rs[k])) /\ rules[k][2] = rs[k].says
  BY <1>1, <1>2, <1>e, <1>h, <1>k
<1>s. Len(rs) \in Nat /\ Len(rules) = Len(rs)
  BY <1>e, <1>f
<1>o. Said(rs) = First(rules)
  BY <1>s, <1>i, SaidFirst, Zenon
<1>. QED
  BY <1>o, <1>q, <1>r DEF DiskNetFirst

\* src/swarms/k8s_cluster.yaml:25.
ClusterList(up, auth, unready, degraded, warnings) ==
  << IfBoth(Against(1, up, 1, 1, "<"), AsIs(5, auth),
       <<"CRITICAL", "GATE_DOWN">>, 0),
     If(Against(11, unready, 1, 0, ">"), <<"CRITICAL", "CLUSTER_DEGRADED">>, 0),
     If(Against(18, degraded, 1, 0, ">"), <<"WARN", "MEM_PSI_WARN">>, 0),
     If(Against(25, warnings, 1, 5, ">"), <<"WARN", "MEM_PSI_WARN">>, 0) >>

LEMMA ClusterIsList ==
  ASSUME Loads("K", "a", "k8s_healthy"),
         Loads("K", "?", "k8s_auth_present"),
         Loads("K", "x", "k8s_not_ready"),
         Loads("K", "d", "k8s_degraded"),
         Loads("K", "e", "k8s_warnings"),
         NEW f, NEW up \in Nat, NEW auth \in Nat, NEW unready \in Nat, NEW degraded \in Nat,
         NEW warnings \in Nat,
         Get(f, "k8s_healthy", 0) = up,
         Get(f, "k8s_auth_present", 0) = auth,
         Get(f, "k8s_not_ready", 0) = unready,
         Get(f, "k8s_degraded", 0) = degraded,
         Get(f, "k8s_warnings", 0) = warnings
  PROVE  RuleList(ClusterGenome, f, ClusterList(up, auth, unready, degraded, warnings))
<1>g. PICK g : g = ClusterGenome
  OBVIOUS
<1>n. Len(g) = 31
  BY <1>g DEF ClusterGenome
<1>t1. /\ g[1] = "K" /\ g[2] = "a" /\ g[3] = "1" /\ g[4] = "<" /\ g[5] = "K" /\ g[6] = "?"
       /\ g[7] = "and" /\ g[8] = "->" /\ g[9] = "C" /\ g[10] = "g"
  BY <1>g DEF ClusterGenome
<1>1. PICK r1 : /\ r1 = IfBoth(Against(1, up, 1, 1, "<"), AsIs(5, auth),
                            <<"CRITICAL", "GATE_DOWN">>, 0)
               /\ RuleAt(g, f, r1) /\ Follows(r1) = 11 /\ r1.one.at = 1
  <2>1. PICK t : t = Against(1, up, 1, 1, "<") /\ TestAt(g, f, t) /\ After(t) = 5
    <3>1. ComparedAt(g, f, 1, up, 1, 1, "<")
      BY <1>n, <1>t1, Characters DEF LiteralAt, ComparedAt, ReadAt
    <3>. QED
      BY <3>1, ComparedTest
  <2>2. PICK u : u = AsIs(5, auth) /\ TestAt(g, f, u) /\ After(u) = 7
    <3>1. ReadAt(g, f, 5, auth)
      BY <1>n, <1>t1 DEF ReadAt
    <3>. QED
      BY <3>1, ReadTest
  <2>3. t.at = 1 /\ u.at = 5 /\ u.form # "none"
    BY <2>1, <2>2 DEF Against, AsIs
  <2>4. ArrowAt(g, 8, <<"CRITICAL", "GATE_DOWN">>, 0) /\ g[7] = "and"
    BY <1>n, <1>t1, TagsSay DEF ArrowAt
  <2>5. PICK r : r = IfBoth(t, u, <<"CRITICAL", "GATE_DOWN">>, 0)
    OBVIOUS
  <2>6. RuleAt(g, f, r) /\ Follows(r) = 8 + 3 + 0
    BY <2>1, <2>2, <2>3, <2>4, <2>5, TwoTests
  <2>7. r.one.at = 1
    BY <2>3, <2>5 DEF IfBoth
  <2>. QED
    BY <2>1, <2>2, <2>5, <2>6, <2>7
<1>t2. /\ g[11] = "K" /\ g[12] = "x" /\ g[13] = "0" /\ g[14] = ">" /\ g[15] = "->"
       /\ g[16] = "C" /\ g[17] = "d"
  BY <1>g DEF ClusterGenome
<1>2. PICK r2 : /\ r2 = If(Against(11, unready, 1, 0, ">"), <<"CRITICAL", "CLUSTER_DEGRADED">>, 0)
               /\ RuleAt(g, f, r2) /\ Follows(r2) = 18 /\ r2.one.at = 11
  <2>1. ComparedAt(g, f, 11, unready, 1, 0, ">")
    BY <1>n, <1>t2, Characters DEF LiteralAt, ComparedAt, ReadAt
  <2>2. ArrowAt(g, 15, <<"CRITICAL", "CLUSTER_DEGRADED">>, 0)
    BY <1>n, <1>t2, TagsSay DEF ArrowAt
  <2>3. PICK r : r = If(Against(11, unready, 1, 0, ">"), <<"CRITICAL", "CLUSTER_DEGRADED">>, 0)
    OBVIOUS
  <2>4. RuleAt(g, f, r) /\ Follows(r) = 15 + 3 + 0
    BY <2>1, <2>2, <2>3, ComparedRule
  <2>5. r.one.at = 11
    BY <2>3 DEF If, Against
  <2>. QED
    BY <2>3, <2>4, <2>5
<1>t3. /\ g[18] = "K" /\ g[19] = "d" /\ g[20] = "0" /\ g[21] = ">" /\ g[22] = "->"
       /\ g[23] = "W" /\ g[24] = "w"
  BY <1>g DEF ClusterGenome
<1>3. PICK r3 : /\ r3 = If(Against(18, degraded, 1, 0, ">"), <<"WARN", "MEM_PSI_WARN">>, 0)
               /\ RuleAt(g, f, r3) /\ Follows(r3) = 25 /\ r3.one.at = 18
  <2>1. ComparedAt(g, f, 18, degraded, 1, 0, ">")
    BY <1>n, <1>t3, Characters DEF LiteralAt, ComparedAt, ReadAt
  <2>2. ArrowAt(g, 22, <<"WARN", "MEM_PSI_WARN">>, 0)
    BY <1>n, <1>t3, TagsSay DEF ArrowAt
  <2>3. PICK r : r = If(Against(18, degraded, 1, 0, ">"), <<"WARN", "MEM_PSI_WARN">>, 0)
    OBVIOUS
  <2>4. RuleAt(g, f, r) /\ Follows(r) = 22 + 3 + 0
    BY <2>1, <2>2, <2>3, ComparedRule
  <2>5. r.one.at = 18
    BY <2>3 DEF If, Against
  <2>. QED
    BY <2>3, <2>4, <2>5
<1>t4. /\ g[25] = "K" /\ g[26] = "e" /\ g[27] = "5" /\ g[28] = ">" /\ g[29] = "->"
       /\ g[30] = "W" /\ g[31] = "w"
  BY <1>g DEF ClusterGenome
<1>4. PICK r4 : /\ r4 = If(Against(25, warnings, 1, 5, ">"), <<"WARN", "MEM_PSI_WARN">>, 0)
               /\ RuleAt(g, f, r4) /\ Follows(r4) = 32 /\ r4.one.at = 25
  <2>1. ComparedAt(g, f, 25, warnings, 1, 5, ">")
    BY <1>n, <1>t4, Characters DEF LiteralAt, ComparedAt, ReadAt
  <2>2. ArrowAt(g, 29, <<"WARN", "MEM_PSI_WARN">>, 0)
    BY <1>n, <1>t4, TagsSay DEF ArrowAt
  <2>3. PICK r : r = If(Against(25, warnings, 1, 5, ">"), <<"WARN", "MEM_PSI_WARN">>, 0)
    OBVIOUS
  <2>4. RuleAt(g, f, r) /\ Follows(r) = 29 + 3 + 0
    BY <2>1, <2>2, <2>3, ComparedRule
  <2>5. r.one.at = 25
    BY <2>3 DEF If, Against
  <2>. QED
    BY <2>3, <2>4, <2>5
<1>l. PICK rs : rs = <<r1, r2, r3, r4>>
  OBVIOUS
<1>q. rs = ClusterList(up, auth, unready, degraded, warnings)
  BY <1>l, <1>1, <1>2, <1>3, <1>4 DEF ClusterList
<1>e. /\ Len(rs) = 4
      /\ rs[1] = r1 /\ rs[2] = r2 /\ rs[3] = r3 /\ rs[4] = r4
  BY <1>l
<1>k. 1..Len(rs) = {1, 2, 3, 4} /\ 1..(Len(rs) - 1) = {1, 2, 3}
  BY <1>e
<1>. QED
  BY <1>g, <1>n, <1>q, <1>e, <1>k, <1>1, <1>2, <1>3, <1>4 DEF RuleList

\* When they apply.
ClusterWhen(up, auth, unready, degraded, warnings, a, b, c, d) ==
  /\ (a <=> up < 1 /\ auth > 0) /\ (b <=> unready > 0) /\ (c <=> degraded > 0)
  /\ (d <=> warnings > 5)

\* The first that does.
ClusterFirst(a, b, c, d) ==
  First(<< <<a, <<"CRITICAL", "GATE_DOWN">> >>,
           <<b, <<"CRITICAL", "CLUSTER_DEGRADED">> >>,
           <<c, <<"WARN", "MEM_PSI_WARN">> >>,
           <<d, <<"WARN", "MEM_PSI_WARN">> >> >>)

LEMMA ClusterSays ==
  ASSUME NEW up \in Nat, NEW auth \in Nat, NEW unready \in Nat, NEW degraded \in Nat,
         NEW warnings \in Nat, NEW a, NEW b, NEW c, NEW d,
         ClusterWhen(up, auth, unready, degraded, warnings, a, b, c, d)
  PROVE  Said(ClusterList(up, auth, unready, degraded, warnings)) = ClusterFirst(a, b, c, d)
<1>w. /\ (a <=> up < 1 /\ auth > 0) /\ (b <=> unready > 0) /\ (c <=> degraded > 0)
      /\ (d <=> warnings > 5)
  BY DEF ClusterWhen
<1>1. PICK r1 : /\ r1 = IfBoth(Against(1, up, 1, 1, "<"), AsIs(5, auth),
                             <<"CRITICAL", "GATE_DOWN">>, 0)
               /\ (Applies(r1) <=> a) /\ r1.says = <<"CRITICAL", "GATE_DOWN">>
  <2>1. PICK t : t = Against(1, up, 1, 1, "<") /\ (Result(t) > 0 <=> up < 1)
    <3>1. PICK t : t = Against(1, up, 1, 1, "<")
      OBVIOUS
    <3>2. t.form = "number" /\ t.value = up /\ t.number = 1 /\ t.op = "<"
      BY <3>1 DEF Against
    <3>. QED
      BY <3>1, <3>2, TestMeans DEF Holds
  <2>2. PICK u : u = AsIs(5, auth) /\ (Result(u) > 0 <=> auth > 0)
    <3>1. PICK u : u = AsIs(5, auth)
      OBVIOUS
    <3>2. u.form = "as is" /\ u.value = auth
      BY <3>1 DEF AsIs
    <3>. QED
      BY <3>1, <3>2, TestMeans
  <2>3. PICK r : r = IfBoth(t, u, <<"CRITICAL", "GATE_DOWN">>, 0)
    OBVIOUS
  <2>4. (Applies(r) <=> Result(t) > 0 /\ Result(u) > 0) /\ r.says = <<"CRITICAL", "GATE_DOWN">>
    BY <2>3, RuleMeans
  <2>. QED
    BY <1>w, <2>1, <2>2, <2>3, <2>4
<1>2. PICK r2 : /\ r2 = If(Against(11, unready, 1, 0, ">"), <<"CRITICAL", "CLUSTER_DEGRADED">>, 0)
               /\ (Applies(r2) <=> b) /\ r2.says = <<"CRITICAL", "CLUSTER_DEGRADED">>
  <2>1. PICK t : t = Against(11, unready, 1, 0, ">") /\ (Result(t) > 0 <=> unready > 0)
    <3>1. PICK t : t = Against(11, unready, 1, 0, ">")
      OBVIOUS
    <3>2. t.form = "number" /\ t.value = unready /\ t.number = 0 /\ t.op = ">"
      BY <3>1 DEF Against
    <3>. QED
      BY <3>1, <3>2, TestMeans DEF Holds
  <2>2. PICK r : r = If(t, <<"CRITICAL", "CLUSTER_DEGRADED">>, 0)
    OBVIOUS
  <2>3. (Applies(r) <=> Result(t) > 0) /\ r.says = <<"CRITICAL", "CLUSTER_DEGRADED">>
    BY <2>2, RuleMeans
  <2>. QED
    BY <1>w, <2>1, <2>2, <2>3
<1>3. PICK r3 : /\ r3 = If(Against(18, degraded, 1, 0, ">"), <<"WARN", "MEM_PSI_WARN">>, 0)
               /\ (Applies(r3) <=> c) /\ r3.says = <<"WARN", "MEM_PSI_WARN">>
  <2>1. PICK t : t = Against(18, degraded, 1, 0, ">") /\ (Result(t) > 0 <=> degraded > 0)
    <3>1. PICK t : t = Against(18, degraded, 1, 0, ">")
      OBVIOUS
    <3>2. t.form = "number" /\ t.value = degraded /\ t.number = 0 /\ t.op = ">"
      BY <3>1 DEF Against
    <3>. QED
      BY <3>1, <3>2, TestMeans DEF Holds
  <2>2. PICK r : r = If(t, <<"WARN", "MEM_PSI_WARN">>, 0)
    OBVIOUS
  <2>3. (Applies(r) <=> Result(t) > 0) /\ r.says = <<"WARN", "MEM_PSI_WARN">>
    BY <2>2, RuleMeans
  <2>. QED
    BY <1>w, <2>1, <2>2, <2>3
<1>4. PICK r4 : /\ r4 = If(Against(25, warnings, 1, 5, ">"), <<"WARN", "MEM_PSI_WARN">>, 0)
               /\ (Applies(r4) <=> d) /\ r4.says = <<"WARN", "MEM_PSI_WARN">>
  <2>1. PICK t : t = Against(25, warnings, 1, 5, ">") /\ (Result(t) > 0 <=> warnings > 5)
    <3>1. PICK t : t = Against(25, warnings, 1, 5, ">")
      OBVIOUS
    <3>2. t.form = "number" /\ t.value = warnings /\ t.number = 5 /\ t.op = ">"
      BY <3>1 DEF Against
    <3>. QED
      BY <3>1, <3>2, TestMeans DEF Holds
  <2>2. PICK r : r = If(t, <<"WARN", "MEM_PSI_WARN">>, 0)
    OBVIOUS
  <2>3. (Applies(r) <=> Result(t) > 0) /\ r.says = <<"WARN", "MEM_PSI_WARN">>
    BY <2>2, RuleMeans
  <2>. QED
    BY <1>w, <2>1, <2>2, <2>3
<1>l. PICK rs : rs = <<r1, r2, r3, r4>>
  OBVIOUS
<1>q. rs = ClusterList(up, auth, unready, degraded, warnings)
  BY <1>l, <1>1, <1>2, <1>3, <1>4 DEF ClusterList
<1>e. Len(rs) = 4 /\ rs[1] = r1 /\ rs[2] = r2 /\ rs[3] = r3 /\ rs[4] = r4
  BY <1>l
<1>r. PICK rules : rules = << <<a, <<"CRITICAL", "GATE_DOWN">> >>,
                               <<b, <<"CRITICAL", "CLUSTER_DEGRADED">> >>,
                               <<c, <<"WARN", "MEM_PSI_WARN">> >>,
                               <<d, <<"WARN", "MEM_PSI_WARN">> >> >>
  OBVIOUS
<1>f. /\ Len(rules) = 4
      /\ rules[1] = <<a, <<"CRITICAL", "GATE_DOWN">> >>
      /\ rules[2] = <<b, <<"CRITICAL", "CLUSTER_DEGRADED">> >>
      /\ rules[3] = <<c, <<"WARN", "MEM_PSI_WARN">> >>
      /\ rules[4] = <<d, <<"WARN", "MEM_PSI_WARN">> >>
  BY <1>r
<1>h. /\ (rules[1][1] <=> a) /\ rules[1][2] = <<"CRITICAL", "GATE_DOWN">>
      /\ (rules[2][1] <=> b) /\ rules[2][2] = <<"CRITICAL", "CLUSTER_DEGRADED">>
      /\ (rules[3][1] <=> c) /\ rules[3][2] = <<"WARN", "MEM_PSI_WARN">>
      /\ (rules[4][1] <=> d) /\ rules[4][2] = <<"WARN", "MEM_PSI_WARN">>
  BY <1>f
<1>k. 1..Len(rs) = {1, 2, 3, 4}
  BY <1>e
<1>i. \A k \in 1..Len(rs) : (rules[k][1] <=> Applies(rs[k])) /\ rules[k][2] = rs[k].says
  BY <1>1, <1>2, <1>3, <1>4, <1>e, <1>h, <1>k
<1>s. Len(rs) \in Nat /\ Len(rules) = Len(rs)
  BY <1>e, <1>f
<1>o. Said(rs) = First(rules)
  BY <1>s, <1>i, SaidFirst, Zenon
<1>. QED
  BY <1>o, <1>q, <1>r DEF ClusterFirst

\* src/swarms/k8s_aggregator.yaml:47.
GovernorList(critical, ok, pressed) ==
  << IfBoth(Against(1, critical, 1, 0, ">"), AsIs(5, ok),
       <<"CRITICAL", "CLUSTER_DEGRADED">>, 1),
     If(Against(12, ok, 1, 0, "="), <<"CRITICAL", "GATE_DOWN">>, 1),
     If(Against(20, pressed, 1, 0, ">"), <<"WARN", "POD_PRESSURE">>, 0) >>

LEMMA GovernorIsList ==
  ASSUME Loads("Gam", "c", "quorum_node_critical"),
         Loads("Gam", "k", "quorum_control_ok"),
         Loads("Gam", "p", "quorum_node_pressure"),
         NEW f, NEW critical \in Nat, NEW ok \in Nat, NEW pressed \in Nat,
         Get(f, "quorum_node_critical", 0) = critical,
         Get(f, "quorum_control_ok", 0) = ok,
         Get(f, "quorum_node_pressure", 0) = pressed
  PROVE  RuleList(GovernorGenome, f, GovernorList(critical, ok, pressed))
<1>g. PICK g : g = GovernorGenome
  OBVIOUS
<1>n. Len(g) = 26
  BY <1>g DEF GovernorGenome
<1>t1. /\ g[1] = "Gam" /\ g[2] = "c" /\ g[3] = "0" /\ g[4] = ">" /\ g[5] = "Gam" /\ g[6] = "k"
       /\ g[7] = "and" /\ g[8] = "->" /\ g[9] = "C" /\ g[10] = "d"
  BY <1>g DEF GovernorGenome
<1>s1. g[11] = Semicolon
  BY <1>g DEF GovernorGenome, Semicolon
<1>1. PICK r1 : /\ r1 = IfBoth(Against(1, critical, 1, 0, ">"), AsIs(5, ok),
                            <<"CRITICAL", "CLUSTER_DEGRADED">>, 1)
               /\ RuleAt(g, f, r1) /\ Follows(r1) = 12 /\ r1.one.at = 1
  <2>1. PICK t : t = Against(1, critical, 1, 0, ">") /\ TestAt(g, f, t) /\ After(t) = 5
    <3>1. ComparedAt(g, f, 1, critical, 1, 0, ">")
      BY <1>n, <1>t1, Characters DEF LiteralAt, ComparedAt, ReadAt
    <3>. QED
      BY <3>1, ComparedTest
  <2>2. PICK u : u = AsIs(5, ok) /\ TestAt(g, f, u) /\ After(u) = 7
    <3>1. ReadAt(g, f, 5, ok)
      BY <1>n, <1>t1 DEF ReadAt
    <3>. QED
      BY <3>1, ReadTest
  <2>3. t.at = 1 /\ u.at = 5 /\ u.form # "none"
    BY <2>1, <2>2 DEF Against, AsIs
  <2>4. ArrowAt(g, 8, <<"CRITICAL", "CLUSTER_DEGRADED">>, 1) /\ g[7] = "and"
    BY <1>n, <1>t1, <1>s1, TagsSay DEF ArrowAt
  <2>5. PICK r : r = IfBoth(t, u, <<"CRITICAL", "CLUSTER_DEGRADED">>, 1)
    OBVIOUS
  <2>6. RuleAt(g, f, r) /\ Follows(r) = 8 + 3 + 1
    BY <2>1, <2>2, <2>3, <2>4, <2>5, TwoTests
  <2>7. r.one.at = 1
    BY <2>3, <2>5 DEF IfBoth
  <2>. QED
    BY <2>1, <2>2, <2>5, <2>6, <2>7
<1>t2. /\ g[12] = "Gam" /\ g[13] = "k" /\ g[14] = "0" /\ g[15] = "=" /\ g[16] = "->"
       /\ g[17] = "C" /\ g[18] = "g"
  BY <1>g DEF GovernorGenome
<1>s2. g[19] = Semicolon
  BY <1>g DEF GovernorGenome, Semicolon
<1>2. PICK r2 : /\ r2 = If(Against(12, ok, 1, 0, "="), <<"CRITICAL", "GATE_DOWN">>, 1)
               /\ RuleAt(g, f, r2) /\ Follows(r2) = 20 /\ r2.one.at = 12
  <2>1. ComparedAt(g, f, 12, ok, 1, 0, "=")
    BY <1>n, <1>t2, Characters DEF LiteralAt, ComparedAt, ReadAt
  <2>2. ArrowAt(g, 16, <<"CRITICAL", "GATE_DOWN">>, 1)
    BY <1>n, <1>t2, <1>s2, TagsSay DEF ArrowAt
  <2>3. PICK r : r = If(Against(12, ok, 1, 0, "="), <<"CRITICAL", "GATE_DOWN">>, 1)
    OBVIOUS
  <2>4. RuleAt(g, f, r) /\ Follows(r) = 16 + 3 + 1
    BY <2>1, <2>2, <2>3, ComparedRule
  <2>5. r.one.at = 12
    BY <2>3 DEF If, Against
  <2>. QED
    BY <2>3, <2>4, <2>5
<1>t3. /\ g[20] = "Gam" /\ g[21] = "p" /\ g[22] = "0" /\ g[23] = ">" /\ g[24] = "->"
       /\ g[25] = "W" /\ g[26] = "p"
  BY <1>g DEF GovernorGenome
<1>3. PICK r3 : /\ r3 = If(Against(20, pressed, 1, 0, ">"), <<"WARN", "POD_PRESSURE">>, 0)
               /\ RuleAt(g, f, r3) /\ Follows(r3) = 27 /\ r3.one.at = 20
  <2>1. ComparedAt(g, f, 20, pressed, 1, 0, ">")
    BY <1>n, <1>t3, Characters DEF LiteralAt, ComparedAt, ReadAt
  <2>2. ArrowAt(g, 24, <<"WARN", "POD_PRESSURE">>, 0)
    BY <1>n, <1>t3, TagsSay DEF ArrowAt
  <2>3. PICK r : r = If(Against(20, pressed, 1, 0, ">"), <<"WARN", "POD_PRESSURE">>, 0)
    OBVIOUS
  <2>4. RuleAt(g, f, r) /\ Follows(r) = 24 + 3 + 0
    BY <2>1, <2>2, <2>3, ComparedRule
  <2>5. r.one.at = 20
    BY <2>3 DEF If, Against
  <2>. QED
    BY <2>3, <2>4, <2>5
<1>l. PICK rs : rs = <<r1, r2, r3>>
  OBVIOUS
<1>q. rs = GovernorList(critical, ok, pressed)
  BY <1>l, <1>1, <1>2, <1>3 DEF GovernorList
<1>e. /\ Len(rs) = 3
      /\ rs[1] = r1 /\ rs[2] = r2 /\ rs[3] = r3
  BY <1>l
<1>k. 1..Len(rs) = {1, 2, 3} /\ 1..(Len(rs) - 1) = {1, 2}
  BY <1>e
<1>. QED
  BY <1>g, <1>n, <1>q, <1>e, <1>k, <1>1, <1>2, <1>3 DEF RuleList

\* When they apply.
GovernorWhen(critical, ok, pressed, a, b, c) ==
  /\ (a <=> critical > 0 /\ ok > 0) /\ (b <=> ok = 0) /\ (c <=> pressed > 0)

\* The first that does.
GovernorFirst(a, b, c) ==
  First(<< <<a, <<"CRITICAL", "CLUSTER_DEGRADED">> >>,
           <<b, <<"CRITICAL", "GATE_DOWN">> >>,
           <<c, <<"WARN", "POD_PRESSURE">> >> >>)

LEMMA GovernorSays ==
  ASSUME NEW critical \in Nat, NEW ok \in Nat, NEW pressed \in Nat, NEW a, NEW b, NEW c,
         GovernorWhen(critical, ok, pressed, a, b, c)
  PROVE  Said(GovernorList(critical, ok, pressed)) = GovernorFirst(a, b, c)
<1>w. /\ (a <=> critical > 0 /\ ok > 0) /\ (b <=> ok = 0) /\ (c <=> pressed > 0)
  BY DEF GovernorWhen
<1>1. PICK r1 : /\ r1 = IfBoth(Against(1, critical, 1, 0, ">"), AsIs(5, ok),
                             <<"CRITICAL", "CLUSTER_DEGRADED">>, 1)
               /\ (Applies(r1) <=> a) /\ r1.says = <<"CRITICAL", "CLUSTER_DEGRADED">>
  <2>1. PICK t : t = Against(1, critical, 1, 0, ">") /\ (Result(t) > 0 <=> critical > 0)
    <3>1. PICK t : t = Against(1, critical, 1, 0, ">")
      OBVIOUS
    <3>2. t.form = "number" /\ t.value = critical /\ t.number = 0 /\ t.op = ">"
      BY <3>1 DEF Against
    <3>. QED
      BY <3>1, <3>2, TestMeans DEF Holds
  <2>2. PICK u : u = AsIs(5, ok) /\ (Result(u) > 0 <=> ok > 0)
    <3>1. PICK u : u = AsIs(5, ok)
      OBVIOUS
    <3>2. u.form = "as is" /\ u.value = ok
      BY <3>1 DEF AsIs
    <3>. QED
      BY <3>1, <3>2, TestMeans
  <2>3. PICK r : r = IfBoth(t, u, <<"CRITICAL", "CLUSTER_DEGRADED">>, 1)
    OBVIOUS
  <2>4. /\ Applies(r) <=> Result(t) > 0 /\ Result(u) > 0
        /\ r.says = <<"CRITICAL", "CLUSTER_DEGRADED">>
    BY <2>3, RuleMeans
  <2>. QED
    BY <1>w, <2>1, <2>2, <2>3, <2>4
<1>2. PICK r2 : /\ r2 = If(Against(12, ok, 1, 0, "="), <<"CRITICAL", "GATE_DOWN">>, 1)
               /\ (Applies(r2) <=> b) /\ r2.says = <<"CRITICAL", "GATE_DOWN">>
  <2>1. PICK t : t = Against(12, ok, 1, 0, "=") /\ (Result(t) > 0 <=> ok = 0)
    <3>1. PICK t : t = Against(12, ok, 1, 0, "=")
      OBVIOUS
    <3>2. t.form = "number" /\ t.value = ok /\ t.number = 0 /\ t.op = "="
      BY <3>1 DEF Against
    <3>. QED
      BY <3>1, <3>2, TestMeans DEF Holds
  <2>2. PICK r : r = If(t, <<"CRITICAL", "GATE_DOWN">>, 1)
    OBVIOUS
  <2>3. (Applies(r) <=> Result(t) > 0) /\ r.says = <<"CRITICAL", "GATE_DOWN">>
    BY <2>2, RuleMeans
  <2>. QED
    BY <1>w, <2>1, <2>2, <2>3
<1>3. PICK r3 : /\ r3 = If(Against(20, pressed, 1, 0, ">"), <<"WARN", "POD_PRESSURE">>, 0)
               /\ (Applies(r3) <=> c) /\ r3.says = <<"WARN", "POD_PRESSURE">>
  <2>1. PICK t : t = Against(20, pressed, 1, 0, ">") /\ (Result(t) > 0 <=> pressed > 0)
    <3>1. PICK t : t = Against(20, pressed, 1, 0, ">")
      OBVIOUS
    <3>2. t.form = "number" /\ t.value = pressed /\ t.number = 0 /\ t.op = ">"
      BY <3>1 DEF Against
    <3>. QED
      BY <3>1, <3>2, TestMeans DEF Holds
  <2>2. PICK r : r = If(t, <<"WARN", "POD_PRESSURE">>, 0)
    OBVIOUS
  <2>3. (Applies(r) <=> Result(t) > 0) /\ r.says = <<"WARN", "POD_PRESSURE">>
    BY <2>2, RuleMeans
  <2>. QED
    BY <1>w, <2>1, <2>2, <2>3
<1>l. PICK rs : rs = <<r1, r2, r3>>
  OBVIOUS
<1>q. rs = GovernorList(critical, ok, pressed)
  BY <1>l, <1>1, <1>2, <1>3 DEF GovernorList
<1>e. Len(rs) = 3 /\ rs[1] = r1 /\ rs[2] = r2 /\ rs[3] = r3
  BY <1>l
<1>r. PICK rules : rules = << <<a, <<"CRITICAL", "CLUSTER_DEGRADED">> >>,
                               <<b, <<"CRITICAL", "GATE_DOWN">> >>,
                               <<c, <<"WARN", "POD_PRESSURE">> >> >>
  OBVIOUS
<1>f. /\ Len(rules) = 3
      /\ rules[1] = <<a, <<"CRITICAL", "CLUSTER_DEGRADED">> >>
      /\ rules[2] = <<b, <<"CRITICAL", "GATE_DOWN">> >>
      /\ rules[3] = <<c, <<"WARN", "POD_PRESSURE">> >>
  BY <1>r
<1>h. /\ (rules[1][1] <=> a) /\ rules[1][2] = <<"CRITICAL", "CLUSTER_DEGRADED">>
      /\ (rules[2][1] <=> b) /\ rules[2][2] = <<"CRITICAL", "GATE_DOWN">>
      /\ (rules[3][1] <=> c) /\ rules[3][2] = <<"WARN", "POD_PRESSURE">>
  BY <1>f
<1>k. 1..Len(rs) = {1, 2, 3}
  BY <1>e
<1>i. \A k \in 1..Len(rs) : (rules[k][1] <=> Applies(rs[k])) /\ rules[k][2] = rs[k].says
  BY <1>1, <1>2, <1>3, <1>e, <1>h, <1>k
<1>s. Len(rs) \in Nat /\ Len(rules) = Len(rs)
  BY <1>e, <1>f
<1>o. Said(rs) = First(rules)
  BY <1>s, <1>i, SaidFirst, Zenon
<1>. QED
  BY <1>o, <1>q, <1>r DEF GovernorFirst

\* src/swarms/vajrayana_monitor.yaml:50.
PeerList(open, sev, gw, age, score, queries, some, docs) ==
  << If(Against(1, open, 1, 1, "<"), <<"CRITICAL", "GATE_DOWN">>, 1),
     If(Against(9, sev, 1, 3, ">="), <<"CRITICAL", "CLUSTER_DEGRADED">>, 1),
     If(Against(17, gw, 1, 1, "<"), <<"CRITICAL", "GATE_DOWN">>, 1),
     If(Against(25, age, 4, 120, ">"), <<"CRITICAL", "CLUSTER_DEGRADED">>, 1),
     IfBoth(Against(36, score, 1, 5, ">"), Against(40, queries, 1, 2, "<"),
       <<"WARN", "POD_PRESSURE">>, 1),
     If(Against(49, some, 3, 10, ">"), <<"WARN", "MEM_PSI_WARN">>, 1),
     If(Against(59, docs, 1, 1, "<"), <<"INFO", "SWAP_ABSENT">>, 0) >>

LEMMA PeerIsList ==
  ASSUME Loads("Psi", "a", "peer_available"),
         Loads("Psi", "v", "peer_sev_int"),
         Loads("Psi", "g", "peer_gw_ok"),
         Loads("Psi", "h", "peer_heartbeat_age"),
         Loads("Psi", "s", "peer_last_score"),
         Loads("Psi", "d", "peer_queries_60s"),
         Loads("Psi", "p", "peer_psi_some10"),
         Loads("Psi", "r", "peer_rag_docs"),
         NEW f, NEW open \in Nat, NEW sev \in Nat, NEW gw \in Nat, NEW age \in Nat,
         NEW score \in Nat, NEW queries \in Nat, NEW some \in Nat, NEW docs \in Nat,
         Get(f, "peer_available", 0) = open,
         Get(f, "peer_sev_int", 0) = sev,
         Get(f, "peer_gw_ok", 0) = gw,
         Get(f, "peer_heartbeat_age", 0) = age,
         Get(f, "peer_last_score", 0) = score,
         Get(f, "peer_queries_60s", 0) = queries,
         Get(f, "peer_psi_some10", 0) = some,
         Get(f, "peer_rag_docs", 0) = docs
  PROVE  RuleList(PeerGenome, f, PeerList(open, sev, gw, age, score, queries, some, docs))
<1>g. PICK g : g = PeerGenome
  OBVIOUS
<1>n. Len(g) = 65
  BY <1>g DEF PeerGenome
<1>t1. /\ g[1] = "Psi" /\ g[2] = "a" /\ g[3] = "1" /\ g[4] = "<" /\ g[5] = "->" /\ g[6] = "C"
       /\ g[7] = "g"
  BY <1>g DEF PeerGenome
<1>s1. g[8] = Semicolon
  BY <1>g DEF PeerGenome, Semicolon
<1>1. PICK r1 : /\ r1 = If(Against(1, open, 1, 1, "<"), <<"CRITICAL", "GATE_DOWN">>, 1)
               /\ RuleAt(g, f, r1) /\ Follows(r1) = 9 /\ r1.one.at = 1
  <2>1. ComparedAt(g, f, 1, open, 1, 1, "<")
    BY <1>n, <1>t1, Characters DEF LiteralAt, ComparedAt, ReadAt
  <2>2. ArrowAt(g, 5, <<"CRITICAL", "GATE_DOWN">>, 1)
    BY <1>n, <1>t1, <1>s1, TagsSay DEF ArrowAt
  <2>3. PICK r : r = If(Against(1, open, 1, 1, "<"), <<"CRITICAL", "GATE_DOWN">>, 1)
    OBVIOUS
  <2>4. RuleAt(g, f, r) /\ Follows(r) = 5 + 3 + 1
    BY <2>1, <2>2, <2>3, ComparedRule
  <2>5. r.one.at = 1
    BY <2>3 DEF If, Against
  <2>. QED
    BY <2>3, <2>4, <2>5
<1>t2. /\ g[9] = "Psi" /\ g[10] = "v" /\ g[11] = "3" /\ g[12] = ">=" /\ g[13] = "->"
       /\ g[14] = "C" /\ g[15] = "d"
  BY <1>g DEF PeerGenome
<1>s2. g[16] = Semicolon
  BY <1>g DEF PeerGenome, Semicolon
<1>2. PICK r2 : /\ r2 = If(Against(9, sev, 1, 3, ">="), <<"CRITICAL", "CLUSTER_DEGRADED">>, 1)
               /\ RuleAt(g, f, r2) /\ Follows(r2) = 17 /\ r2.one.at = 9
  <2>1. ComparedAt(g, f, 9, sev, 1, 3, ">=")
    BY <1>n, <1>t2, Characters DEF LiteralAt, ComparedAt, ReadAt
  <2>2. ArrowAt(g, 13, <<"CRITICAL", "CLUSTER_DEGRADED">>, 1)
    BY <1>n, <1>t2, <1>s2, TagsSay DEF ArrowAt
  <2>3. PICK r : r = If(Against(9, sev, 1, 3, ">="), <<"CRITICAL", "CLUSTER_DEGRADED">>, 1)
    OBVIOUS
  <2>4. RuleAt(g, f, r) /\ Follows(r) = 13 + 3 + 1
    BY <2>1, <2>2, <2>3, ComparedRule
  <2>5. r.one.at = 9
    BY <2>3 DEF If, Against
  <2>. QED
    BY <2>3, <2>4, <2>5
<1>t3. /\ g[17] = "Psi" /\ g[18] = "g" /\ g[19] = "1" /\ g[20] = "<" /\ g[21] = "->"
       /\ g[22] = "C" /\ g[23] = "g"
  BY <1>g DEF PeerGenome
<1>s3. g[24] = Semicolon
  BY <1>g DEF PeerGenome, Semicolon
<1>3. PICK r3 : /\ r3 = If(Against(17, gw, 1, 1, "<"), <<"CRITICAL", "GATE_DOWN">>, 1)
               /\ RuleAt(g, f, r3) /\ Follows(r3) = 25 /\ r3.one.at = 17
  <2>1. ComparedAt(g, f, 17, gw, 1, 1, "<")
    BY <1>n, <1>t3, Characters DEF LiteralAt, ComparedAt, ReadAt
  <2>2. ArrowAt(g, 21, <<"CRITICAL", "GATE_DOWN">>, 1)
    BY <1>n, <1>t3, <1>s3, TagsSay DEF ArrowAt
  <2>3. PICK r : r = If(Against(17, gw, 1, 1, "<"), <<"CRITICAL", "GATE_DOWN">>, 1)
    OBVIOUS
  <2>4. RuleAt(g, f, r) /\ Follows(r) = 21 + 3 + 1
    BY <2>1, <2>2, <2>3, ComparedRule
  <2>5. r.one.at = 17
    BY <2>3 DEF If, Against
  <2>. QED
    BY <2>3, <2>4, <2>5
<1>t4. /\ g[25] = "Psi" /\ g[26] = "h" /\ g[27] = "#" /\ g[28] = "1" /\ g[29] = "2"
       /\ g[30] = "0" /\ g[31] = ">" /\ g[32] = "->" /\ g[33] = "C" /\ g[34] = "d"
  BY <1>g DEF PeerGenome
<1>s4. g[35] = Semicolon
  BY <1>g DEF PeerGenome, Semicolon
<1>4. PICK r4 : /\ r4 = If(Against(25, age, 4, 120, ">"), <<"CRITICAL", "CLUSTER_DEGRADED">>, 1)
               /\ RuleAt(g, f, r4) /\ Follows(r4) = 36 /\ r4.one.at = 25
  <2>1. ComparedAt(g, f, 25, age, 4, 120, ">")
    BY <1>n, <1>t4, Characters DEF LiteralAt, ComparedAt, ReadAt
  <2>2. ArrowAt(g, 32, <<"CRITICAL", "CLUSTER_DEGRADED">>, 1)
    BY <1>n, <1>t4, <1>s4, TagsSay DEF ArrowAt
  <2>3. PICK r : r = If(Against(25, age, 4, 120, ">"), <<"CRITICAL", "CLUSTER_DEGRADED">>, 1)
    OBVIOUS
  <2>4. RuleAt(g, f, r) /\ Follows(r) = 32 + 3 + 1
    BY <2>1, <2>2, <2>3, ComparedRule
  <2>5. r.one.at = 25
    BY <2>3 DEF If, Against
  <2>. QED
    BY <2>3, <2>4, <2>5
<1>t5. /\ g[36] = "Psi" /\ g[37] = "s" /\ g[38] = "5" /\ g[39] = ">" /\ g[40] = "Psi"
       /\ g[41] = "d" /\ g[42] = "2" /\ g[43] = "<" /\ g[44] = "and" /\ g[45] = "->"
       /\ g[46] = "W" /\ g[47] = "p"
  BY <1>g DEF PeerGenome
<1>s5. g[48] = Semicolon
  BY <1>g DEF PeerGenome, Semicolon
<1>5. PICK r5 : /\ r5 = IfBoth(Against(36, score, 1, 5, ">"), Against(40, queries, 1, 2, "<"),
                            <<"WARN", "POD_PRESSURE">>, 1)
               /\ RuleAt(g, f, r5) /\ Follows(r5) = 49 /\ r5.one.at = 36
  <2>1. PICK t : t = Against(36, score, 1, 5, ">") /\ TestAt(g, f, t) /\ After(t) = 40
    <3>1. ComparedAt(g, f, 36, score, 1, 5, ">")
      BY <1>n, <1>t5, Characters DEF LiteralAt, ComparedAt, ReadAt
    <3>. QED
      BY <3>1, ComparedTest
  <2>2. PICK u : u = Against(40, queries, 1, 2, "<") /\ TestAt(g, f, u) /\ After(u) = 44
    <3>1. ComparedAt(g, f, 40, queries, 1, 2, "<")
      BY <1>n, <1>t5, Characters DEF LiteralAt, ComparedAt, ReadAt
    <3>. QED
      BY <3>1, ComparedTest
  <2>3. t.at = 36 /\ u.at = 40 /\ u.form # "none"
    BY <2>1, <2>2 DEF Against, AsIs
  <2>4. ArrowAt(g, 45, <<"WARN", "POD_PRESSURE">>, 1) /\ g[44] = "and"
    BY <1>n, <1>t5, <1>s5, TagsSay DEF ArrowAt
  <2>5. PICK r : r = IfBoth(t, u, <<"WARN", "POD_PRESSURE">>, 1)
    OBVIOUS
  <2>6. RuleAt(g, f, r) /\ Follows(r) = 45 + 3 + 1
    BY <2>1, <2>2, <2>3, <2>4, <2>5, TwoTests
  <2>7. r.one.at = 36
    BY <2>3, <2>5 DEF IfBoth
  <2>. QED
    BY <2>1, <2>2, <2>5, <2>6, <2>7
<1>t6. /\ g[49] = "Psi" /\ g[50] = "p" /\ g[51] = "#" /\ g[52] = "1" /\ g[53] = "0"
       /\ g[54] = ">" /\ g[55] = "->" /\ g[56] = "W" /\ g[57] = "w"
  BY <1>g DEF PeerGenome
<1>s6. g[58] = Semicolon
  BY <1>g DEF PeerGenome, Semicolon
<1>6. PICK r6 : /\ r6 = If(Against(49, some, 3, 10, ">"), <<"WARN", "MEM_PSI_WARN">>, 1)
               /\ RuleAt(g, f, r6) /\ Follows(r6) = 59 /\ r6.one.at = 49
  <2>1. ComparedAt(g, f, 49, some, 3, 10, ">")
    BY <1>n, <1>t6, Characters DEF LiteralAt, ComparedAt, ReadAt
  <2>2. ArrowAt(g, 55, <<"WARN", "MEM_PSI_WARN">>, 1)
    BY <1>n, <1>t6, <1>s6, TagsSay DEF ArrowAt
  <2>3. PICK r : r = If(Against(49, some, 3, 10, ">"), <<"WARN", "MEM_PSI_WARN">>, 1)
    OBVIOUS
  <2>4. RuleAt(g, f, r) /\ Follows(r) = 55 + 3 + 1
    BY <2>1, <2>2, <2>3, ComparedRule
  <2>5. r.one.at = 49
    BY <2>3 DEF If, Against
  <2>. QED
    BY <2>3, <2>4, <2>5
<1>t7. /\ g[59] = "Psi" /\ g[60] = "r" /\ g[61] = "1" /\ g[62] = "<" /\ g[63] = "->"
       /\ g[64] = "I" /\ g[65] = "a"
  BY <1>g DEF PeerGenome
<1>7. PICK r7 : /\ r7 = If(Against(59, docs, 1, 1, "<"), <<"INFO", "SWAP_ABSENT">>, 0)
               /\ RuleAt(g, f, r7) /\ Follows(r7) = 66 /\ r7.one.at = 59
  <2>1. ComparedAt(g, f, 59, docs, 1, 1, "<")
    BY <1>n, <1>t7, Characters DEF LiteralAt, ComparedAt, ReadAt
  <2>2. ArrowAt(g, 63, <<"INFO", "SWAP_ABSENT">>, 0)
    BY <1>n, <1>t7, TagsSay DEF ArrowAt
  <2>3. PICK r : r = If(Against(59, docs, 1, 1, "<"), <<"INFO", "SWAP_ABSENT">>, 0)
    OBVIOUS
  <2>4. RuleAt(g, f, r) /\ Follows(r) = 63 + 3 + 0
    BY <2>1, <2>2, <2>3, ComparedRule
  <2>5. r.one.at = 59
    BY <2>3 DEF If, Against
  <2>. QED
    BY <2>3, <2>4, <2>5
<1>l. PICK rs : rs = <<r1, r2, r3, r4, r5, r6, r7>>
  OBVIOUS
<1>q. rs = PeerList(open, sev, gw, age, score, queries, some, docs)
  BY <1>l, <1>1, <1>2, <1>3, <1>4, <1>5, <1>6, <1>7 DEF PeerList
<1>e. /\ Len(rs) = 7
      /\ rs[1] = r1 /\ rs[2] = r2 /\ rs[3] = r3 /\ rs[4] = r4 /\ rs[5] = r5 /\ rs[6] = r6
      /\ rs[7] = r7
  BY <1>l
<1>k. 1..Len(rs) = {1, 2, 3, 4, 5, 6, 7} /\ 1..(Len(rs) - 1) = {1, 2, 3, 4, 5, 6}
  BY <1>e
<1>. QED
  BY <1>g, <1>n, <1>q, <1>e, <1>k, <1>1, <1>2, <1>3, <1>4, <1>5, <1>6, <1>7 DEF RuleList

\* When they apply.
PeerWhen(open, sev, gw, age, score, queries, some, docs, a, b, c, d, e, z, h) ==
  /\ (a <=> open < 1) /\ (b <=> sev >= 3) /\ (c <=> gw < 1) /\ (d <=> age > 120)
  /\ (e <=> score > 5 /\ queries < 2) /\ (z <=> some > 10) /\ (h <=> docs < 1)
  /\ open \in Nat /\ sev \in Nat /\ gw \in Nat /\ age \in Nat /\ score \in Nat
  /\ queries \in Nat /\ some \in Nat /\ docs \in Nat

\* The first that does.
PeerFirst(a, b, c, d, e, z, h) ==
  First(<< <<a, <<"CRITICAL", "GATE_DOWN">> >>,
           <<b, <<"CRITICAL", "CLUSTER_DEGRADED">> >>,
           <<c, <<"CRITICAL", "GATE_DOWN">> >>,
           <<d, <<"CRITICAL", "CLUSTER_DEGRADED">> >>,
           <<e, <<"WARN", "POD_PRESSURE">> >>,
           <<z, <<"WARN", "MEM_PSI_WARN">> >>,
           <<h, <<"INFO", "SWAP_ABSENT">> >> >>)

LEMMA PeerSays ==
  ASSUME NEW open, NEW sev, NEW gw, NEW age, NEW score, NEW queries, NEW some, NEW docs,
         NEW a, NEW b, NEW c, NEW d, NEW e, NEW z, NEW h,
         PeerWhen(open, sev, gw, age, score, queries, some, docs, a, b, c, d, e, z, h)
  PROVE  Said(PeerList(open, sev, gw, age, score, queries, some, docs))
           = PeerFirst(a, b, c, d, e, z, h)
<1>w. /\ (a <=> open < 1) /\ (b <=> sev >= 3) /\ (c <=> gw < 1) /\ (d <=> age > 120)
      /\ (e <=> score > 5 /\ queries < 2) /\ (z <=> some > 10) /\ (h <=> docs < 1)
      /\ open \in Nat /\ sev \in Nat /\ gw \in Nat /\ age \in Nat /\ score \in Nat
      /\ queries \in Nat /\ some \in Nat /\ docs \in Nat
  BY DEF PeerWhen
<1>1. PICK r1 : /\ r1 = If(Against(1, open, 1, 1, "<"), <<"CRITICAL", "GATE_DOWN">>, 1)
               /\ (Applies(r1) <=> a) /\ r1.says = <<"CRITICAL", "GATE_DOWN">>
  <2>1. PICK t : t = Against(1, open, 1, 1, "<") /\ (Result(t) > 0 <=> open < 1)
    <3>1. PICK t : t = Against(1, open, 1, 1, "<")
      OBVIOUS
    <3>2. t.form = "number" /\ t.value = open /\ t.number = 1 /\ t.op = "<"
      BY <3>1 DEF Against
    <3>. QED
      BY <3>1, <3>2, TestMeans DEF Holds
  <2>2. PICK r : r = If(t, <<"CRITICAL", "GATE_DOWN">>, 1)
    OBVIOUS
  <2>3. (Applies(r) <=> Result(t) > 0) /\ r.says = <<"CRITICAL", "GATE_DOWN">>
    BY <2>2, RuleMeans
  <2>. QED
    BY <1>w, <2>1, <2>2, <2>3
<1>2. PICK r2 : /\ r2 = If(Against(9, sev, 1, 3, ">="), <<"CRITICAL", "CLUSTER_DEGRADED">>, 1)
               /\ (Applies(r2) <=> b) /\ r2.says = <<"CRITICAL", "CLUSTER_DEGRADED">>
  <2>1. PICK t : t = Against(9, sev, 1, 3, ">=") /\ (Result(t) > 0 <=> sev >= 3)
    <3>1. PICK t : t = Against(9, sev, 1, 3, ">=")
      OBVIOUS
    <3>2. t.form = "number" /\ t.value = sev /\ t.number = 3 /\ t.op = ">="
      BY <3>1 DEF Against
    <3>. QED
      BY <3>1, <3>2, TestMeans DEF Holds
  <2>2. PICK r : r = If(t, <<"CRITICAL", "CLUSTER_DEGRADED">>, 1)
    OBVIOUS
  <2>3. (Applies(r) <=> Result(t) > 0) /\ r.says = <<"CRITICAL", "CLUSTER_DEGRADED">>
    BY <2>2, RuleMeans
  <2>. QED
    BY <1>w, <2>1, <2>2, <2>3
<1>3. PICK r3 : /\ r3 = If(Against(17, gw, 1, 1, "<"), <<"CRITICAL", "GATE_DOWN">>, 1)
               /\ (Applies(r3) <=> c) /\ r3.says = <<"CRITICAL", "GATE_DOWN">>
  <2>1. PICK t : t = Against(17, gw, 1, 1, "<") /\ (Result(t) > 0 <=> gw < 1)
    <3>1. PICK t : t = Against(17, gw, 1, 1, "<")
      OBVIOUS
    <3>2. t.form = "number" /\ t.value = gw /\ t.number = 1 /\ t.op = "<"
      BY <3>1 DEF Against
    <3>. QED
      BY <3>1, <3>2, TestMeans DEF Holds
  <2>2. PICK r : r = If(t, <<"CRITICAL", "GATE_DOWN">>, 1)
    OBVIOUS
  <2>3. (Applies(r) <=> Result(t) > 0) /\ r.says = <<"CRITICAL", "GATE_DOWN">>
    BY <2>2, RuleMeans
  <2>. QED
    BY <1>w, <2>1, <2>2, <2>3
<1>4. PICK r4 : /\ r4 = If(Against(25, age, 4, 120, ">"), <<"CRITICAL", "CLUSTER_DEGRADED">>, 1)
               /\ (Applies(r4) <=> d) /\ r4.says = <<"CRITICAL", "CLUSTER_DEGRADED">>
  <2>1. PICK t : t = Against(25, age, 4, 120, ">") /\ (Result(t) > 0 <=> age > 120)
    <3>1. PICK t : t = Against(25, age, 4, 120, ">")
      OBVIOUS
    <3>2. t.form = "number" /\ t.value = age /\ t.number = 120 /\ t.op = ">"
      BY <3>1 DEF Against
    <3>. QED
      BY <3>1, <3>2, TestMeans DEF Holds
  <2>2. PICK r : r = If(t, <<"CRITICAL", "CLUSTER_DEGRADED">>, 1)
    OBVIOUS
  <2>3. (Applies(r) <=> Result(t) > 0) /\ r.says = <<"CRITICAL", "CLUSTER_DEGRADED">>
    BY <2>2, RuleMeans
  <2>. QED
    BY <1>w, <2>1, <2>2, <2>3
<1>5. PICK r5 : /\ r5 = IfBoth(Against(36, score, 1, 5, ">"), Against(40, queries, 1, 2, "<"),
                             <<"WARN", "POD_PRESSURE">>, 1)
               /\ (Applies(r5) <=> e) /\ r5.says = <<"WARN", "POD_PRESSURE">>
  <2>1. PICK t : t = Against(36, score, 1, 5, ">") /\ (Result(t) > 0 <=> score > 5)
    <3>1. PICK t : t = Against(36, score, 1, 5, ">")
      OBVIOUS
    <3>2. t.form = "number" /\ t.value = score /\ t.number = 5 /\ t.op = ">"
      BY <3>1 DEF Against
    <3>. QED
      BY <3>1, <3>2, TestMeans DEF Holds
  <2>2. PICK u : u = Against(40, queries, 1, 2, "<") /\ (Result(u) > 0 <=> queries < 2)
    <3>1. PICK u : u = Against(40, queries, 1, 2, "<")
      OBVIOUS
    <3>2. u.form = "number" /\ u.value = queries /\ u.number = 2 /\ u.op = "<"
      BY <3>1 DEF Against
    <3>. QED
      BY <3>1, <3>2, TestMeans DEF Holds
  <2>3. PICK r : r = IfBoth(t, u, <<"WARN", "POD_PRESSURE">>, 1)
    OBVIOUS
  <2>4. (Applies(r) <=> Result(t) > 0 /\ Result(u) > 0) /\ r.says = <<"WARN", "POD_PRESSURE">>
    BY <2>3, RuleMeans
  <2>. QED
    BY <1>w, <2>1, <2>2, <2>3, <2>4
<1>6. PICK r6 : /\ r6 = If(Against(49, some, 3, 10, ">"), <<"WARN", "MEM_PSI_WARN">>, 1)
               /\ (Applies(r6) <=> z) /\ r6.says = <<"WARN", "MEM_PSI_WARN">>
  <2>1. PICK t : t = Against(49, some, 3, 10, ">") /\ (Result(t) > 0 <=> some > 10)
    <3>1. PICK t : t = Against(49, some, 3, 10, ">")
      OBVIOUS
    <3>2. t.form = "number" /\ t.value = some /\ t.number = 10 /\ t.op = ">"
      BY <3>1 DEF Against
    <3>. QED
      BY <3>1, <3>2, TestMeans DEF Holds
  <2>2. PICK r : r = If(t, <<"WARN", "MEM_PSI_WARN">>, 1)
    OBVIOUS
  <2>3. (Applies(r) <=> Result(t) > 0) /\ r.says = <<"WARN", "MEM_PSI_WARN">>
    BY <2>2, RuleMeans
  <2>. QED
    BY <1>w, <2>1, <2>2, <2>3
<1>7. PICK r7 : /\ r7 = If(Against(59, docs, 1, 1, "<"), <<"INFO", "SWAP_ABSENT">>, 0)
               /\ (Applies(r7) <=> h) /\ r7.says = <<"INFO", "SWAP_ABSENT">>
  <2>1. PICK t : t = Against(59, docs, 1, 1, "<") /\ (Result(t) > 0 <=> docs < 1)
    <3>1. PICK t : t = Against(59, docs, 1, 1, "<")
      OBVIOUS
    <3>2. t.form = "number" /\ t.value = docs /\ t.number = 1 /\ t.op = "<"
      BY <3>1 DEF Against
    <3>. QED
      BY <3>1, <3>2, TestMeans DEF Holds
  <2>2. PICK r : r = If(t, <<"INFO", "SWAP_ABSENT">>, 0)
    OBVIOUS
  <2>3. (Applies(r) <=> Result(t) > 0) /\ r.says = <<"INFO", "SWAP_ABSENT">>
    BY <2>2, RuleMeans
  <2>. QED
    BY <1>w, <2>1, <2>2, <2>3
<1>l. PICK rs : rs = <<r1, r2, r3, r4, r5, r6, r7>>
  OBVIOUS
<1>q. rs = PeerList(open, sev, gw, age, score, queries, some, docs)
  BY <1>l, <1>1, <1>2, <1>3, <1>4, <1>5, <1>6, <1>7 DEF PeerList
<1>e. /\ Len(rs) = 7 /\ rs[1] = r1 /\ rs[2] = r2 /\ rs[3] = r3
      /\ rs[4] = r4 /\ rs[5] = r5 /\ rs[6] = r6 /\ rs[7] = r7
  BY <1>l
<1>r. PICK rules : rules = << <<a, <<"CRITICAL", "GATE_DOWN">> >>,
                               <<b, <<"CRITICAL", "CLUSTER_DEGRADED">> >>,
                               <<c, <<"CRITICAL", "GATE_DOWN">> >>,
                               <<d, <<"CRITICAL", "CLUSTER_DEGRADED">> >>,
                               <<e, <<"WARN", "POD_PRESSURE">> >>,
                               <<z, <<"WARN", "MEM_PSI_WARN">> >>,
                               <<h, <<"INFO", "SWAP_ABSENT">> >> >>
  OBVIOUS
<1>f. /\ Len(rules) = 7
      /\ rules[1] = <<a, <<"CRITICAL", "GATE_DOWN">> >>
      /\ rules[2] = <<b, <<"CRITICAL", "CLUSTER_DEGRADED">> >>
      /\ rules[3] = <<c, <<"CRITICAL", "GATE_DOWN">> >>
      /\ rules[4] = <<d, <<"CRITICAL", "CLUSTER_DEGRADED">> >>
      /\ rules[5] = <<e, <<"WARN", "POD_PRESSURE">> >>
      /\ rules[6] = <<z, <<"WARN", "MEM_PSI_WARN">> >>
      /\ rules[7] = <<h, <<"INFO", "SWAP_ABSENT">> >>
  BY <1>r
<1>h. /\ (rules[1][1] <=> a) /\ rules[1][2] = <<"CRITICAL", "GATE_DOWN">>
      /\ (rules[2][1] <=> b) /\ rules[2][2] = <<"CRITICAL", "CLUSTER_DEGRADED">>
      /\ (rules[3][1] <=> c) /\ rules[3][2] = <<"CRITICAL", "GATE_DOWN">>
      /\ (rules[4][1] <=> d) /\ rules[4][2] = <<"CRITICAL", "CLUSTER_DEGRADED">>
      /\ (rules[5][1] <=> e) /\ rules[5][2] = <<"WARN", "POD_PRESSURE">>
      /\ (rules[6][1] <=> z) /\ rules[6][2] = <<"WARN", "MEM_PSI_WARN">>
      /\ (rules[7][1] <=> h) /\ rules[7][2] = <<"INFO", "SWAP_ABSENT">>
  BY <1>f
<1>k. 1..Len(rs) = {1, 2, 3, 4, 5, 6, 7}
  BY <1>e
<1>i. ASSUME NEW k \in 1..Len(rs)
      PROVE  (rules[k][1] <=> Applies(rs[k])) /\ rules[k][2] = rs[k].says
  <2>1. CASE k = 1
    BY <1>1, <1>e, <1>h, <2>1
  <2>2. CASE k = 2
    BY <1>2, <1>e, <1>h, <2>2
  <2>3. CASE k = 3
    BY <1>3, <1>e, <1>h, <2>3
  <2>4. CASE k = 4
    BY <1>4, <1>e, <1>h, <2>4
  <2>5. CASE k = 5
    BY <1>5, <1>e, <1>h, <2>5
  <2>6. CASE k = 6
    BY <1>6, <1>e, <1>h, <2>6
  <2>7. CASE k = 7
    BY <1>7, <1>e, <1>h, <2>7
  <2>. QED
    BY <1>k, <2>1, <2>2, <2>3, <2>4, <2>5, <2>6, <2>7
<1>s. Len(rs) \in Nat /\ Len(rules) = Len(rs)
  BY <1>e, <1>f
<1>o. Said(rs) = First(rules)
  BY <1>s, <1>i, SaidFirst, Zenon
<1>. QED
  BY <1>o, <1>q, <1>r DEF PeerFirst

------------------------------------------------------------------------------
\* The verdict of the first of four rules that applies.
LEMMA FirstOfFour ==
  ASSUME NEW r1, NEW r2, NEW r3, NEW r4
  PROVE  First(<<r1, r2, r3, r4>>) =
           IF r1[1] THEN r1[2] ELSE IF r2[1] THEN r2[2] ELSE IF r3[1] THEN r3[2]
           ELSE IF r4[1] THEN r4[2] ELSE <<"OK", "OK">>
<1>. DEFINE rules == <<r1, r2, r3, r4>>
            I == {n \in 1..Len(rules) : rules[n][1]}
<1>1. PICK k : k = SelectInSeq(rules, LAMBDA r : r[1]) /\ k = IF I # {} THEN Min(I) ELSE 0
  BY DEF SelectInSeq
<1>2. First(rules) = IF k = 0 THEN <<"OK", "OK">> ELSE rules[k][2]
  BY <1>1 DEF First
<1>3. /\ 1..Len(rules) = {1, 2, 3, 4}
      /\ rules[1] = r1 /\ rules[2] = r2 /\ rules[3] = r3 /\ rules[4] = r4
  OBVIOUS
<1>4. /\ I \subseteq {1, 2, 3, 4}
      /\ (1 \in I <=> r1[1]) /\ (2 \in I <=> r2[1]) /\ (3 \in I <=> r3[1]) /\ (4 \in I <=> r4[1])
  BY <1>3
<1>5. IsFiniteSet(I) /\ I \subseteq Int
  <2>1. IsFiniteSet(1..Len(rules))
    <3>1. Len(rules) \in Int
      OBVIOUS
    <3>. HIDE DEF rules
    <3>. QED
      BY <3>1, FS_Interval
  <2>2. I \subseteq 1..Len(rules)
    OBVIOUS
  <2>. HIDE DEF I
  <2>3. IsFiniteSet(I)
    BY <2>1, <2>2, FS_Subset
  <2>. QED
    BY <1>4, <2>3
<1>. HIDE DEF I, rules
<1>6. I # {} => k \in I /\ \A n \in I : k <= n
  <2>1. ASSUME I # {} PROVE Min(I) \in I /\ \A n \in I : Min(I) <= n
    BY <1>5, <2>1, MinIsSmallest
  <2>. QED
    BY <1>1, <2>1
<1>7. First(rules) = IF r1[1] THEN r1[2] ELSE IF r2[1] THEN r2[2] ELSE IF r3[1] THEN r3[2]
                     ELSE IF r4[1] THEN r4[2] ELSE <<"OK", "OK">>
  <2>1. CASE I = {}
    BY <1>1, <1>2, <1>4, <2>1
  <2>2. CASE I # {}
    <3>1. k \in I /\ k \in {1, 2, 3, 4} /\ \A n \in I : k <= n
      BY <1>4, <1>6, <2>2
    <3>2. First(rules) = rules[k][2]
      BY <1>2, <3>1
    <3>3. \/ k = 1 /\ r1[1]
          \/ k = 2 /\ r2[1] /\ ~r1[1]
          \/ k = 3 /\ r3[1] /\ ~r1[1] /\ ~r2[1]
          \/ k = 4 /\ r4[1] /\ ~r1[1] /\ ~r2[1] /\ ~r3[1]
      BY <1>4, <3>1
    <3>. QED
      BY <1>3, <3>2, <3>3
  <2>. QED
    BY <2>1, <2>2
<1>. QED
  BY <1>7 DEF rules

\* What the frame of a host says, and what the rules make of it.
SomeOf(h) == IF h.psi = Absent THEN 0 ELSE h.psi[1]
FullOf(h) == IF h.psi = Absent THEN 0 ELSE h.psi[2]
SwapOf(h) == Flag(h.mem.swap > 0)

LEMMA HostReads ==
  ASSUME NEW h, IsHost(h)
  PROVE  /\ FullOf(h) \in Nat /\ SomeOf(h) \in Nat /\ SwapOf(h) \in Nat
         /\ h.mem.swap \in Nat /\ (SwapOf(h) = 0 <=> h.mem.swap = 0)
         /\ Get(KernelFrame(h), "psi_full_avg10", 0) = FullOf(h)
         /\ Get(KernelFrame(h), "psi_some_avg10", 0) = SomeOf(h)
         /\ Get(KernelFrame(h), "swap_present", 0) = SwapOf(h)
<1>1. FullOf(h) \in Nat /\ SomeOf(h) \in Nat
  BY DEF IsHost, FullOf, SomeOf
<1>2. SwapOf(h) \in Nat /\ h.mem.swap \in Nat /\ (SwapOf(h) = 0 <=> h.mem.swap = 0)
  BY DEF IsHost, SwapOf, Flag
<1>3. KernelFrame(h) =
        [psi_available |-> Flag(h.psi # Absent), psi_some_avg10 |-> SomeOf(h),
         psi_full_avg10 |-> FullOf(h), mem_used_pct |-> UsedPct(h.mem),
         mem_avail_pct |-> 100 - UsedPct(h.mem), swap_present |-> SwapOf(h)]
  BY Zenon DEF KernelFrame, SomeOf, FullOf, SwapOf
<1>4. /\ Get(KernelFrame(h), "psi_full_avg10", 0) = FullOf(h)
      /\ Get(KernelFrame(h), "psi_some_avg10", 0) = SomeOf(h)
      /\ Get(KernelFrame(h), "swap_present", 0) = SwapOf(h)
  BY <1>3 DEF Get
<1>. QED
  BY <1>1, <1>2, <1>4

LEMMA RulesAre ==
  ASSUME NEW h, IsHost(h)
  PROVE  /\ FullOf(h) > 5 => KernelRules(h) = <<"CRITICAL", "MEM_PSI_CRIT">>
         /\ ~ (FullOf(h) > 5) /\ SomeOf(h) > 10 /\ SwapOf(h) = 0
              => KernelRules(h) = <<"CRITICAL", "MEM_PSI_CRIT_NOSW">>
         /\ ~ (FullOf(h) > 5) /\ SomeOf(h) > 10 /\ SwapOf(h) # 0
              => KernelRules(h) = <<"WARN", "MEM_PSI_WARN">>
         /\ ~ (FullOf(h) > 5) /\ ~ (SomeOf(h) > 10) /\ SwapOf(h) = 0
              => KernelRules(h) = <<"INFO", "SWAP_ABSENT">>
         /\ ~ (FullOf(h) > 5) /\ ~ (SomeOf(h) > 10) /\ SwapOf(h) # 0
              => KernelRules(h) = <<"OK", "OK">>
<1>1. KernelRules(h) =
        First(<< <<FullOf(h) > 5, <<"CRITICAL", "MEM_PSI_CRIT">> >>,
                 <<SomeOf(h) > 10 /\ h.mem.swap = 0, <<"CRITICAL", "MEM_PSI_CRIT_NOSW">> >>,
                 <<SomeOf(h) > 10, <<"WARN", "MEM_PSI_WARN">> >>,
                 <<h.mem.swap = 0, <<"INFO", "SWAP_ABSENT">> >> >>)
  BY Zenon DEF KernelRules, FullOf, SomeOf
<1>2. KernelRules(h) =
        IF FullOf(h) > 5 THEN <<"CRITICAL", "MEM_PSI_CRIT">>
        ELSE IF SomeOf(h) > 10 /\ h.mem.swap = 0 THEN <<"CRITICAL", "MEM_PSI_CRIT_NOSW">>
        ELSE IF SomeOf(h) > 10 THEN <<"WARN", "MEM_PSI_WARN">>
        ELSE IF h.mem.swap = 0 THEN <<"INFO", "SWAP_ABSENT">> ELSE <<"OK", "OK">>
  <2>1. PICK r1, r2, r3, r4 :
             /\ r1 = <<FullOf(h) > 5, <<"CRITICAL", "MEM_PSI_CRIT">> >>
             /\ r2 = <<SomeOf(h) > 10 /\ h.mem.swap = 0, <<"CRITICAL", "MEM_PSI_CRIT_NOSW">> >>
             /\ r3 = <<SomeOf(h) > 10, <<"WARN", "MEM_PSI_WARN">> >>
             /\ r4 = <<h.mem.swap = 0, <<"INFO", "SWAP_ABSENT">> >>
    OBVIOUS
  <2>2. KernelRules(h) = First(<<r1, r2, r3, r4>>)
    BY <1>1, <2>1
  <2>3. KernelRules(h) = IF r1[1] THEN r1[2] ELSE IF r2[1] THEN r2[2] ELSE IF r3[1] THEN r3[2]
                         ELSE IF r4[1] THEN r4[2] ELSE <<"OK", "OK">>
    BY <2>2, FirstOfFour
  <2>. QED
    BY <2>1, <2>3
<1>. QED
  BY <1>2, HostReads

------------------------------------------------------------------------------
(***************************************************************************)
(* What the genomes say of their surroundings, whatever these are.         *)
(***************************************************************************)
\* The genome, on these readings, is a list of rules that says v.
Decided(g, f, v) == \E rs : RuleList(g, f, rs) /\ Said(rs) = v

LEMMA KernelRulesAre ==
  ASSUME NEW h, IsHost(h)
  PROVE  KernelRules(h) =
           First(<< <<FullOf(h) > 5, <<"CRITICAL", "MEM_PSI_CRIT">> >>,
                    <<SomeOf(h) > 10 /\ h.mem.swap = 0, <<"CRITICAL", "MEM_PSI_CRIT_NOSW">> >>,
                    <<SomeOf(h) > 10, <<"WARN", "MEM_PSI_WARN">> >>,
                    <<h.mem.swap = 0, <<"INFO", "SWAP_ABSENT">> >> >>)
BY Zenon DEF KernelRules, FullOf, SomeOf

LEMMA KernelDecided ==
  ASSUME LoadsKernel, NEW h, IsHost(h)
  PROVE  /\ Decided(KernelGenome, KernelFrame(h), KernelRules(h))
         /\ Decided(HandCoded, KernelFrame(h), KernelRules(h))
<1>1. PICK full \in Nat, some \in Nat, swap \in Nat :
        full = FullOf(h) /\ some = SomeOf(h) /\ swap = SwapOf(h)
  BY HostReads
<1>2. PICK f : f = KernelFrame(h)
  OBVIOUS
<1>3. /\ Get(f, "psi_full_avg10", 0) = full
      /\ Get(f, "psi_some_avg10", 0) = some
      /\ Get(f, "swap_present", 0) = swap
  BY <1>1, <1>2, HostReads
<1>4. /\ Loads("psi", "f", "psi_full_avg10") /\ Loads("psi", "s", "psi_some_avg10")
      /\ Loads("mem", "S", "swap_present")
  BY DEF LoadsKernel
<1>5. /\ RuleList(KernelGenome, f, KernelList(full, some, swap))
      /\ RuleList(HandCoded, f, HandCodedList(full, some, swap))
  BY <1>3, <1>4, KernelIsList, HandCodedIsList
<1>6. PICK a, b, c, d :
        /\ a = (full > 5) /\ b = (some > 10 /\ h.mem.swap = 0) /\ c = (some > 10)
        /\ d = (h.mem.swap = 0)
  BY Zenon
<1>7. (a <=> full > 5) /\ (b <=> some > 10 /\ swap = 0) /\ (c <=> some > 10) /\ (d <=> swap = 0)
  <2>1. swap = 0 <=> h.mem.swap = 0
    BY <1>1, HostReads
  <2>. QED
    BY <1>6, <2>1, Zenon
<1>8. KernelRules(h) = KernelFirst(a, b, c, d)
  BY <1>1, <1>6, KernelRulesAre, Zenon DEF KernelFirst
<1>w. KernelWhen(full, some, swap, a, b, c, d)
  BY <1>7 DEF KernelWhen
<1>9. Said(KernelList(full, some, swap)) = KernelRules(h)
  BY <1>8, <1>w, KernelSays
<1>10. Said(HandCodedList(full, some, swap)) = KernelRules(h)
  BY <1>8, <1>w, HandCodedSays
<1>. QED
  BY <1>2, <1>5, <1>9, <1>10, Zenon DEF Decided

LEMMA HighestIs ==
  ASSUME NEW S, IsFiniteSet(S), S \subseteq Nat
  PROVE  Highest(S) \in Nat /\ \A n \in Nat : Highest(S) > n <=> \E x \in S : x > n
<1>a. PICK T : T = {0} \union S
  OBVIOUS
<1>b. IsFiniteSet({0})
  BY FS_Singleton
<1>c. IsFiniteSet({0} \union S)
  BY <1>b, FS_Union
<1>1. IsFiniteSet(T) /\ T \subseteq Nat /\ 0 \in T /\ T = {0} \union S
  BY <1>a, <1>c
<1>2. Max(T) \in T /\ \A y \in T : Max(T) >= y
  <2>1. T # {} /\ T \subseteq Int
    BY <1>1
  <2>. QED
    BY <1>1, <2>1, MaxIsLargest
<1>3. PICK m \in T : m = Max(T) /\ \A y \in T : m >= y
  BY <1>2
<1>4. Highest(S) = m /\ m \in Nat
  BY <1>1, <1>3 DEF Highest
<1>5. ASSUME NEW n \in Nat PROVE m > n <=> \E x \in S : x > n
  <2>1. m > n => m \in S
    BY <1>1, <1>4, <1>5
  <2>2. ASSUME NEW x \in S, x > n PROVE m > n
    <3>1. m >= x /\ x \in Nat
      BY <1>1, <1>3
    <3>. QED
      BY <1>4, <2>2, <3>1
  <2>. QED
    BY <2>1, <2>2
<1>. QED
  BY <1>4, <1>5

\* A count is more than none if there is one to count.
LEMMA CountIs ==
  ASSUME NEW S, IsFiniteSet(S)
  PROVE  Cardinality(S) \in Nat /\ (Cardinality(S) > 0 <=> S # {})
<1>1. Cardinality(S) \in Nat
  BY FS_CardinalityType
<1>2. Cardinality(S) = 0 <=> S = {}
  BY FS_EmptySet
<1>. QED
  BY <1>1, <1>2

\* The pods of a node, and the kills of the last minute.
IsNode(w) ==
  /\ IsFiniteSet(DOMAIN w.pods) /\ \A p \in DOMAIN w.pods : w.pods[p].some \in Nat
  /\ w.recent \in Nat

LEMMA PodsDecided ==
  ASSUME Loads("pod", "o", "pod_delta_oom_kills_60s"), Loads("pod", "s", "pod_max_psi_some"),
         NEW w, IsNode(w)
  PROVE  Decided(PodsGenome, PodsFrame(w.pods, w.recent), PodsRules(w))
<1>1. PICK f : f = PodsFrame(w.pods, w.recent)
  OBVIOUS
<1>2. PICK S : S = {w.pods[p].some : p \in DOMAIN w.pods}
  OBVIOUS
<1>3. IsFiniteSet(S) /\ S \subseteq Nat
  <2>1. PICK D, e : D = DOMAIN w.pods /\ e = [p \in D |-> w.pods[p].some]
    OBVIOUS
  <2>2. IsFiniteSet({e[p] : p \in D})
    BY <2>1, ImageFinite DEF IsNode
  <2>3. S = {e[p] : p \in D}
    BY <1>2, <2>1
  <2>. QED
    BY <1>2, <2>2, <2>3 DEF IsNode
<1>4. PICK some \in Nat : some = Highest(S)
  BY <1>3, HighestIs
<1>5. PICK oom \in Nat : oom = w.recent
  BY DEF IsNode
<1>6. Get(f, "pod_delta_oom_kills_60s", 0) = oom /\ Get(f, "pod_max_psi_some", 0) = some
  <2>1. /\ "pod_delta_oom_kills_60s" \in DOMAIN f /\ "pod_max_psi_some" \in DOMAIN f
        /\ f["pod_delta_oom_kills_60s"] = oom /\ f["pod_max_psi_some"] = some
    BY <1>1, <1>2, <1>4, <1>5 DEF PodsFrame
  <2>. QED
    BY <2>1 DEF Get
<1>7. RuleList(PodsGenome, f, PodsList(oom, some))
  BY <1>6, PodsIsList
<1>8. PICK a, b : a = (w.recent > 0) /\ b = (\E p \in DOMAIN w.pods : w.pods[p].some > 10)
  BY Zenon
<1>9. (a <=> oom > 0) /\ (b <=> some > 10)
  <2>1. some > 10 <=> \E x \in S : x > 10
    BY <1>3, <1>4, HighestIs
  <2>2. some > 10 <=> \E p \in DOMAIN w.pods : w.pods[p].some > 10
    BY <1>2, <2>1
  <2>. QED
    BY <1>5, <1>8, <2>2, Zenon
<1>10. PodsRules(w) = PodsFirst(a, b)
  BY <1>8, Zenon DEF PodsRules, PodsFirst
<1>w. PodsWhen(oom, some, a, b)
  BY <1>9 DEF PodsWhen
<1>11. Said(PodsList(oom, some)) = PodsRules(w)
  BY <1>10, <1>w, PodsSays
<1>. QED
  BY <1>1, <1>7, <1>11, Zenon DEF Decided

\* What the control plane can be asked for.
IsControlPlane(c) ==
  /\ c.auth \in BOOLEAN /\ c.up \in BOOLEAN
  /\ IsFiniteSet(DOMAIN c.nodes) /\ IsFiniteSet(DOMAIN c.deployments)
  /\ IsFiniteSet(DOMAIN c.events)
  /\ \A e \in DOMAIN c.events :
       c.events[e].age = Absent \/ \E s \in Nat : c.events[e].age = <<s>>

LEMMA AskedIs ==
  ASSUME NEW asked \in BOOLEAN, NEW S, IsFiniteSet(S),
         NEW n, n = IF asked THEN Cardinality(S) ELSE 0
  PROVE  n \in Nat /\ (n > 0 <=> asked /\ S # {}) /\ (n > 5 <=> asked /\ Cardinality(S) > 5)
<1>1. Cardinality(S) \in Nat /\ (Cardinality(S) > 0 <=> S # {})
  BY CountIs
<1>. QED
  BY <1>1

LEMMA ClusterDecided ==
  ASSUME Loads("K", "a", "k8s_healthy"), Loads("K", "?", "k8s_auth_present"),
         Loads("K", "x", "k8s_not_ready"), Loads("K", "d", "k8s_degraded"),
         Loads("K", "e", "k8s_warnings"), NEW c, IsControlPlane(c)
  PROVE  Decided(ClusterGenome, ClusterFrame(c), ClusterRules(c))
<1>1. PICK f : f = ClusterFrame(c)
  OBVIOUS
<1>2. PICK asked \in BOOLEAN : asked = (c.auth /\ c.up)
  BY Zenon
<1>3. PICK U, D, W :
        /\ U = {n \in DOMAIN c.nodes : c.nodes[n] # <<"True">>}
        /\ D = {d \in DOMAIN c.deployments : c.deployments[d].ready < c.deployments[d].replicas}
        /\ W = {e \in DOMAIN c.events : /\ c.events[e].warning
                                        /\ c.events[e].age = Absent \/ c.events[e].age[1] <= 60}
  OBVIOUS
<1>4. IsFiniteSet(U) /\ IsFiniteSet(D) /\ IsFiniteSet(W)
  <2>1. /\ U \subseteq DOMAIN c.nodes /\ D \subseteq DOMAIN c.deployments
        /\ W \subseteq DOMAIN c.events
    BY <1>3
  <2>. QED
    BY <2>1, FS_Subset DEF IsControlPlane
<1>5. /\ (IF asked THEN Cardinality(U) ELSE 0) \in Nat
      /\ (IF asked THEN Cardinality(D) ELSE 0) \in Nat
      /\ (IF asked THEN Cardinality(W) ELSE 0) \in Nat
  BY <1>4, AskedIs
<1>6. PICK up \in Nat, auth \in Nat : up = Flag(asked) /\ auth = Flag(c.auth)
  BY DEF Flag
<1>p. PICK unready \in Nat, degraded \in Nat, warnings \in Nat :
        /\ unready = IF asked THEN Cardinality(U) ELSE 0
        /\ degraded = IF asked THEN Cardinality(D) ELSE 0
        /\ warnings = IF asked THEN Cardinality(W) ELSE 0
  BY <1>5
<1>7. /\ unready > 0 <=> asked /\ U # {}
      /\ degraded > 0 <=> asked /\ D # {}
      /\ warnings > 5 <=> asked /\ Cardinality(W) > 5
  BY <1>4, <1>p, AskedIs
<1>8. /\ Get(f, "k8s_healthy", 0) = up /\ Get(f, "k8s_auth_present", 0) = auth
      /\ Get(f, "k8s_not_ready", 0) = unready /\ Get(f, "k8s_degraded", 0) = degraded
      /\ Get(f, "k8s_warnings", 0) = warnings
  <2>1. f = [k8s_healthy |-> Flag(asked), k8s_auth_present |-> Flag(c.auth),
             k8s_nodes |-> IF asked THEN Cardinality(DOMAIN c.nodes) ELSE 0,
             k8s_not_ready |-> unready, k8s_warnings |-> warnings, k8s_degraded |-> degraded]
    BY <1>1, <1>2, <1>3, <1>p, Zenon DEF ClusterFrame, NotReady, RecentWarnings, Degraded
  <2>. QED
    BY <1>6, <2>1 DEF Get
<1>9. RuleList(ClusterGenome, f, ClusterList(up, auth, unready, degraded, warnings))
  BY <1>8, ClusterIsList
<1>10. W = {e \in DOMAIN c.events :
              c.events[e].warning /\ c.events[e].age \in {Absent} \union {<<s>> : s \in 0..60}}
  <2>1. ASSUME NEW e \in DOMAIN c.events
        PROVE  (c.events[e].age = Absent \/ c.events[e].age[1] <= 60)
                 <=> c.events[e].age \in {Absent} \union {<<s>> : s \in 0..60}
    <3>1. PICK age : age = c.events[e].age /\ (age = Absent \/ \E s \in Nat : age = <<s>>)
      BY DEF IsControlPlane
    <3>2. CASE age = Absent
      BY <3>1, <3>2
    <3>3. CASE age # Absent
      <4>1. PICK s \in Nat : age = <<s>>
        BY <3>1, <3>3
      <4>2. age[1] = s /\ (age \in {<<t>> : t \in 0..60} <=> s \in 0..60)
        BY <4>1
      <4>3. s \in 0..60 <=> s <= 60
        BY <4>1
      <4>. QED
        BY <3>1, <3>3, <4>2, <4>3
    <3>. QED
      BY <3>2, <3>3
  <2>. QED
    BY <1>3, <2>1
<1>11. PICK a, b, d, e :
         /\ a = (c.auth /\ ~c.up)
         /\ b = (asked /\ \E n \in DOMAIN c.nodes : c.nodes[n] # <<"True">>)
         /\ d = (asked /\ \E x \in DOMAIN c.deployments :
                            c.deployments[x].ready < c.deployments[x].replicas)
         /\ e = (asked /\ Cardinality(W) > 5)
  BY Zenon
<1>12. (a <=> up < 1 /\ auth > 0) /\ (b <=> unready > 0) /\ (d <=> degraded > 0)
       /\ (e <=> warnings > 5)
  <2>1. c.auth /\ ~c.up <=> up < 1 /\ auth > 0
    BY <1>2, <1>6 DEF Flag, IsControlPlane
  <2>2. /\ U # {} <=> \E n \in DOMAIN c.nodes : c.nodes[n] # <<"True">>
        /\ D # {} <=> \E x \in DOMAIN c.deployments :
                        c.deployments[x].ready < c.deployments[x].replicas
    BY <1>3
  <2>. QED
    BY <1>7, <1>11, <2>1, <2>2, Zenon
<1>13. ClusterRules(c) = ClusterFirst(a, b, d, e)
  BY <1>2, <1>10, <1>11, Zenon DEF ClusterRules, ClusterFirst
<1>w. ClusterWhen(up, auth, unready, degraded, warnings, a, b, d, e)
  BY <1>12 DEF ClusterWhen
<1>14. Said(ClusterList(up, auth, unready, degraded, warnings)) = ClusterRules(c)
  BY <1>13, <1>w, ClusterSays
<1>. QED
  BY <1>1, <1>9, <1>14, Zenon DEF Decided

LEMMA FirstOfThree ==
  ASSUME NEW r1, NEW r2, NEW r3
  PROVE  First(<<r1, r2, r3>>) =
           IF r1[1] THEN r1[2] ELSE IF r2[1] THEN r2[2] ELSE IF r3[1] THEN r3[2]
           ELSE <<"OK", "OK">>
<1>1. PICK rules : rules = <<r1, r2, r3>>
  OBVIOUS
<1>2. Len(rules) = 3 /\ rules[1] = r1 /\ rules[2] = r2 /\ rules[3] = r3
  BY <1>1
<1>3. 1..Len(rules) = {1, 2, 3} /\ 1..(1 - 1) = {} /\ 1..(2 - 1) = {1} /\ 1..(3 - 1) = {1, 2}
  BY <1>2
<1>4. /\ (\A k \in 1..Len(rules) : ~rules[k][1]) => First(rules) = <<"OK", "OK">>
      /\ \A k \in 1..Len(rules) :
           rules[k][1] /\ (\A j \in 1..(k - 1) : ~rules[j][1]) => First(rules) = rules[k][2]
  <2>1. Len(rules) \in Nat
    BY <1>2
  <2>. QED
    BY <2>1, FirstIs, Zenon
<1>5. /\ ~r1[1] /\ ~r2[1] /\ ~r3[1] => First(rules) = <<"OK", "OK">>
      /\ r1[1] => First(rules) = r1[2]
      /\ ~r1[1] /\ r2[1] => First(rules) = r2[2]
      /\ ~r1[1] /\ ~r2[1] /\ r3[1] => First(rules) = r3[2]
  BY <1>2, <1>3, <1>4
<1>. QED
  BY <1>1, <1>5

\* What a peer's severities amount to.
LEMMA WorstIs ==
  ASSUME NEW p, NEW seen, seen = p.seen, IsFiniteSet(DOMAIN seen),
         \A s \in DOMAIN seen : seen[s] = Blank \/ \E v : seen[s] = <<v>>
  PROVE  /\ Worst(seen) \in Nat
         /\ Worst(seen) >= 3 <=> Reports(p, {"CRITICAL"})
         /\ Worst(seen) >= 2 <=> Reports(p, {"WARN", "CRITICAL"})
<1>1. /\ Level("CRITICAL") = 3 /\ Level("WARN") = 2
      /\ \A v : Level(v) \in 0..3 /\ (Level(v) = 3 => v = "CRITICAL")
                /\ (Level(v) = 2 => v = "WARN")
  <2>1. ASSUME NEW v
        PROVE  /\ v = "CRITICAL" => Level(v) = 3
               /\ v = "WARN" => Level(v) = 2
               /\ v = "INFO" => Level(v) = 1
               /\ v \notin {"INFO", "WARN", "CRITICAL"} => Level(v) = 0
    BY DEF Level
  <2>. QED
    BY <2>1
<1>2. PICK T, S : /\ T = {t \in DOMAIN seen : seen[t] # Blank}
                  /\ S = {Level(seen[s][1]) : s \in T}
  OBVIOUS
<1>3. IsFiniteSet(S) /\ S \subseteq Nat
  <2>1. IsFiniteSet(T)
    <3>1. T \subseteq DOMAIN seen
      BY <1>2
    <3>. QED
      BY <3>1, FS_Subset
  <2>2. PICK e : e = [s \in T |-> Level(seen[s][1])]
    OBVIOUS
  <2>3. IsFiniteSet({e[s] : s \in T})
    BY <2>1, ImageFinite
  <2>4. S = {e[s] : s \in T}
    BY <1>2, <2>2
  <2>5. S \subseteq Nat
    <3>1. \A s \in T : Level(seen[s][1]) \in Nat
      BY <1>1
    <3>. QED
      BY <1>2, <3>1
  <2>. QED
    BY <2>3, <2>4, <2>5
<1>4. Worst(seen) = Highest(S)
  BY <1>2, Zenon DEF Worst, Highest
<1>5. /\ Highest(S) \in Nat
      /\ Highest(S) > 2 <=> \E x \in S : x > 2
      /\ Highest(S) > 1 <=> \E x \in S : x > 1
  BY <1>3, HighestIs
<1>6. \A s \in T : \E v : seen[s] = <<v>> /\ seen[s][1] = v
  BY <1>2
<1>7. \A s \in DOMAIN seen : \A v : seen[s] = <<v>> => s \in T
  BY <1>2 DEF Blank
<1>8. (\E x \in S : x > 2) <=> Reports(p, {"CRITICAL"})
  <2>1. ASSUME NEW x \in S, x > 2 PROVE Reports(p, {"CRITICAL"})
    <3>1. PICK s \in T : x = Level(seen[s][1])
      BY <1>2
    <3>2. PICK v : seen[s] = <<v>> /\ seen[s][1] = v
      BY <1>6
    <3>3. v = "CRITICAL"
      BY <1>1, <2>1, <3>1, <3>2
    <3>. QED
      BY <1>2, <3>2, <3>3 DEF Reports
  <2>2. ASSUME Reports(p, {"CRITICAL"}) PROVE \E x \in S : x > 2
    <3>1. PICK s \in DOMAIN seen : seen[s] = <<"CRITICAL">>
      BY <2>2 DEF Reports
    <3>2. s \in T /\ seen[s][1] = "CRITICAL"
      BY <1>7, <3>1
    <3>. QED
      BY <1>1, <1>2, <3>2
  <2>. QED
    BY <2>1, <2>2
<1>9. (\E x \in S : x > 1) <=> Reports(p, {"WARN", "CRITICAL"})
  <2>1. ASSUME NEW x \in S, x > 1 PROVE Reports(p, {"WARN", "CRITICAL"})
    <3>1. PICK s \in T : x = Level(seen[s][1])
      BY <1>2
    <3>2. PICK v : seen[s] = <<v>> /\ seen[s][1] = v
      BY <1>6
    <3>3. v \in {"WARN", "CRITICAL"}
      BY <1>1, <2>1, <3>1, <3>2
    <3>. QED
      BY <1>2, <3>2, <3>3 DEF Reports
  <2>2. ASSUME Reports(p, {"WARN", "CRITICAL"}) PROVE \E x \in S : x > 1
    <3>1. PICK s \in DOMAIN seen : \E v \in {"WARN", "CRITICAL"} : seen[s] = <<v>>
      BY <2>2 DEF Reports
    <3>2. PICK v \in {"WARN", "CRITICAL"} : seen[s] = <<v>>
      BY <3>1
    <3>3. s \in T /\ seen[s][1] = v /\ Level(v) > 1
      BY <1>1, <1>7, <3>2
    <3>. QED
      BY <1>2, <3>3
  <2>. QED
    BY <2>1, <2>2
<1>. QED
  BY <1>4, <1>5, <1>8, <1>9

\* What a scan can see of a peer.
IsPeerScan(p) ==
  /\ p.role \in {"node", "control"} /\ p.open \in BOOLEAN
  /\ IsFiniteSet(DOMAIN p.seen)
  /\ \A s \in DOMAIN p.seen : p.seen[s] = Blank \/ \E v : p.seen[s] = <<v>>
  /\ p.age = Blank \/ \E n \in Nat : p.age = <<n>>
IsScan(peers) == IsFiniteSet(DOMAIN peers) /\ \A p \in DOMAIN peers : IsPeerScan(peers[p])

LEMMA GovernorDecided ==
  ASSUME Loads("Gam", "c", "quorum_node_critical"), Loads("Gam", "k", "quorum_control_ok"),
         Loads("Gam", "p", "quorum_node_pressure"),
         NEW peers, IsScan(peers)
  PROVE  Decided(GovernorGenome, QuorumFrame(peers), GovernorRules(peers))
<1>1. PICK f : f = QuorumFrame(peers)
  OBVIOUS
<1>2. PICK control, node, open :
        /\ control = {p \in DOMAIN peers : peers[p].role = "control"}
        /\ node = DOMAIN peers \ control
        /\ open = {p \in DOMAIN peers : peers[p].open}
  OBVIOUS
<1>3. PICK worst : worst = [p \in open |-> Worst(peers[p].seen)]
  OBVIOUS
<1>4. PICK P, C :
        /\ P = {p \in node \intersect open : worst[p] >= 2}
        /\ C = {p \in node \intersect open : worst[p] >= 3}
  OBVIOUS
<1>5. PICK nodes : nodes = {p \in DOMAIN peers : peers[p].role = "node" /\ peers[p].open}
  OBVIOUS
<1>6. \A p \in DOMAIN peers :
        /\ Worst(peers[p].seen) \in Nat
        /\ Worst(peers[p].seen) >= 3 <=> Reports(peers[p], {"CRITICAL"})
        /\ Worst(peers[p].seen) >= 2 <=> Reports(peers[p], {"WARN", "CRITICAL"})
  <2>. SUFFICES ASSUME NEW p \in DOMAIN peers
                PROVE  /\ Worst(peers[p].seen) \in Nat
                       /\ Worst(peers[p].seen) >= 3 <=> Reports(peers[p], {"CRITICAL"})
                       /\ Worst(peers[p].seen) >= 2 <=> Reports(peers[p], {"WARN", "CRITICAL"})
    OBVIOUS
  <2>1. PICK peer, seen : peer = peers[p] /\ seen = peer.seen
    OBVIOUS
  <2>2. /\ IsFiniteSet(DOMAIN seen)
        /\ \A s \in DOMAIN seen : seen[s] = Blank \/ \E v : seen[s] = <<v>>
    BY <2>1 DEF IsScan, IsPeerScan
  <2>3. /\ Worst(seen) \in Nat
        /\ Worst(seen) >= 3 <=> Reports(peer, {"CRITICAL"})
        /\ Worst(seen) >= 2 <=> Reports(peer, {"WARN", "CRITICAL"})
    BY <2>1, <2>2, WorstIs
  <2>. QED
    BY <2>1, <2>3
<1>7. nodes = node \intersect open
  BY <1>2, <1>5 DEF IsScan, IsPeerScan
<1>8. /\ C = {n \in nodes : Reports(peers[n], {"CRITICAL"})}
      /\ P = {n \in nodes : Reports(peers[n], {"WARN", "CRITICAL"})}
  <2>1. \A p \in nodes : worst[p] = Worst(peers[p].seen) /\ p \in DOMAIN peers
    BY <1>2, <1>3, <1>7
  <2>. QED
    BY <1>4, <1>6, <1>7, <2>1
<1>9. IsFiniteSet(C) /\ IsFiniteSet(P)
  <2>1. C \subseteq DOMAIN peers /\ P \subseteq DOMAIN peers
    BY <1>2, <1>4
  <2>. QED
    BY <2>1, FS_Subset DEF IsScan
<1>10. PICK healthy \in BOOLEAN :
         healthy = \A p \in control : p \in open /\ ~IsStale(peers[p].age) /\ worst[p] < 2
  BY Zenon
<1>11. PICK critical \in Nat, ok \in Nat, pressed \in Nat :
         critical = Cardinality(C) /\ ok = One(healthy) /\ pressed = Cardinality(P)
  BY <1>9, CountIs DEF One
<1>12. /\ Get(f, "quorum_node_critical", 0) = critical /\ Get(f, "quorum_control_ok", 0) = ok
       /\ Get(f, "quorum_node_pressure", 0) = pressed
  <2>1. f = [quorum_total |-> Cardinality(DOMAIN peers),
             quorum_present |-> Cardinality(open),
             quorum_stale |-> Cardinality({p \in open : IsStale(peers[p].age)}),
             quorum_nodes |-> Cardinality(node),
             quorum_node_pressure |-> pressed, quorum_node_critical |-> critical,
             quorum_controls |-> Cardinality(control), quorum_control_ok |-> ok,
             quorum_max_sev |-> Max({0} \union {worst[p] : p \in open})]
    BY <1>1, <1>2, <1>3, <1>4, <1>10, <1>11, Zenon DEF QuorumFrame
  <2>. QED
    BY <2>1 DEF Get
<1>13. RuleList(GovernorGenome, f, GovernorList(critical, ok, pressed))
  BY <1>12, GovernorIsList
<1>14. PICK controlOk \in BOOLEAN :
         controlOk = \A p \in DOMAIN peers :
                       peers[p].role = "control" =>
                         /\ peers[p].open /\ ~Reports(peers[p], {"WARN", "CRITICAL"})
                         /\ peers[p].age # Blank /\ peers[p].age[1] <= StaleAge
  BY Zenon
<1>15. controlOk <=> healthy
  <2>1. ASSUME NEW p \in control
        PROVE  p \in open /\ ~IsStale(peers[p].age) /\ worst[p] < 2
                 <=> /\ peers[p].open /\ ~Reports(peers[p], {"WARN", "CRITICAL"})
                     /\ peers[p].age # Blank /\ peers[p].age[1] <= StaleAge
    <3>1. p \in DOMAIN peers /\ (p \in open <=> peers[p].open)
      BY <1>2
    <3>2. p \in open => (worst[p] < 2 <=> ~Reports(peers[p], {"WARN", "CRITICAL"}))
      BY <1>3, <1>6, <3>1
    <3>3. ~IsStale(peers[p].age) <=> peers[p].age # Blank /\ peers[p].age[1] <= StaleAge
      <4>1. PICK age : age = peers[p].age /\ (age = Blank \/ \E n \in Nat : age = <<n>>)
        BY <3>1 DEF IsScan, IsPeerScan
      <4>2. age = Blank \/ \E n \in Nat : age[1] = n
        BY <4>1
      <4>. QED
        BY <4>1, <4>2, QuorumAssumption DEF IsStale
    <3>. QED
      BY <3>1, <3>2, <3>3
  <2>2. controlOk <=> \A p \in control :
                        /\ peers[p].open /\ ~Reports(peers[p], {"WARN", "CRITICAL"})
                        /\ peers[p].age # Blank /\ peers[p].age[1] <= StaleAge
    BY <1>2, <1>14
  <2>. QED
    BY <1>10, <2>1, <2>2
<1>16. PICK a, b, c, d :
         /\ a = (critical > 0 /\ ok > 0) /\ b = ~controlOk
         /\ c = \E n \in nodes : Reports(peers[n], {"WARN", "CRITICAL"})
         /\ d = \E n \in nodes : Reports(peers[n], {"CRITICAL"})
  BY Zenon
<1>17. /\ (a <=> critical > 0 /\ ok > 0) /\ (b <=> ok = 0) /\ (c <=> pressed > 0)
       /\ (d <=> critical > 0)
  <2>1. /\ ok > 0 <=> healthy
        /\ ok = 0 <=> ~healthy
    BY <1>11 DEF One
  <2>2. (critical > 0 <=> C # {}) /\ (pressed > 0 <=> P # {})
    BY <1>9, <1>11, CountIs
  <2>3. /\ C # {} <=> \E n \in nodes : Reports(peers[n], {"CRITICAL"})
        /\ P # {} <=> \E n \in nodes : Reports(peers[n], {"WARN", "CRITICAL"})
    BY <1>8
  <2>. QED
    BY <1>15, <1>16, <2>1, <2>2, <2>3, Zenon
<1>18. GovernorWhen(critical, ok, pressed, a, b, c)
  BY <1>17 DEF GovernorWhen
<1>19. Said(GovernorList(critical, ok, pressed)) = GovernorFirst(a, b, c)
  BY <1>18, GovernorSays
<1>20. GovernorRules(peers) =
         First(<< <<b, <<"CRITICAL", "GATE_DOWN">> >>, <<d, <<"CRITICAL", "CLUSTER_DEGRADED">> >>,
                  <<c, <<"WARN", "POD_PRESSURE">> >> >>)
  BY <1>5, <1>14, <1>16, Zenon DEF GovernorRules
<1>21. PICK r1, r2, r3, r4 :
         /\ r1 = <<a, <<"CRITICAL", "CLUSTER_DEGRADED">> >>
         /\ r2 = <<b, <<"CRITICAL", "GATE_DOWN">> >>
         /\ r3 = <<c, <<"WARN", "POD_PRESSURE">> >>
         /\ r4 = <<d, <<"CRITICAL", "CLUSTER_DEGRADED">> >>
  OBVIOUS
<1>22. /\ GovernorFirst(a, b, c) = First(<<r1, r2, r3>>)
       /\ GovernorRules(peers) = First(<<r2, r4, r3>>)
  BY <1>20, <1>21, Zenon DEF GovernorFirst
<1>23. /\ First(<<r1, r2, r3>>) = IF r1[1] THEN r1[2] ELSE IF r2[1] THEN r2[2]
                                  ELSE IF r3[1] THEN r3[2] ELSE <<"OK", "OK">>
       /\ First(<<r2, r4, r3>>) = IF r2[1] THEN r2[2] ELSE IF r4[1] THEN r4[2]
                                  ELSE IF r3[1] THEN r3[2] ELSE <<"OK", "OK">>
  BY FirstOfThree
<1>24. /\ r1[2] = r4[2] /\ (r1[1] <=> a) /\ (r2[1] <=> b) /\ (r4[1] <=> d)
       /\ (a <=> d /\ ~b)
  <2>1. ok > 0 <=> ~ (ok = 0)
    OBVIOUS
  <2>. QED
    BY <1>17, <1>21, <2>1
<1>25. First(<<r1, r2, r3>>) = First(<<r2, r4, r3>>)
  BY <1>23, <1>24
<1>. QED
  BY <1>1, <1>13, <1>19, <1>22, <1>25, Zenon DEF Decided

\* What can be read of another swarm.
IsEntry(e) == e = Absent \/ \E n \in Nat : e = <<n>>
IsPeer(p) ==
  /\ p.open \in BOOLEAN
  /\ p.sev = Absent \/ \E v \in DOMAIN SevInt : p.sev = <<v>>
  /\ p.gw = Absent \/ \E v : p.gw = <<v>>
  /\ IsEntry(p.age) /\ IsEntry(p.score) /\ IsEntry(p.some) /\ IsEntry(p.docs)
  /\ p.recent \in Nat

LEMMA EntryIs ==
  ASSUME NEW e, IsEntry(e)
  PROVE  /\ Number0(e) \in Nat
         /\ \A n \in Nat : Number0(e) > n <=> e # Absent /\ e[1] > n
         /\ Number0(e) < 1 <=> e \in {Absent, <<0>>}
         /\ e # Absent => e[1] \in Nat
<1>1. CASE e = Absent
  BY <1>1 DEF Number0
<1>2. CASE e # Absent
  <2>1. PICK n \in Nat : e = <<n>>
    BY <1>2 DEF IsEntry
  <2>2. e[1] = n /\ Number0(e) = n /\ (e = <<0>> <=> n = 0)
    BY <1>2, <2>1 DEF Number0
  <2>. QED
    BY <1>2, <2>2
<1>. QED
  BY <1>1, <1>2

\* A list of rules the first of which applies.
LEMMA FirstApplies ==
  ASSUME NEW rules, Len(rules) \in Nat, 1 <= Len(rules), rules[1][1]
  PROVE  First(rules) = rules[1][2]
<1>1. 1 \in 1..Len(rules) /\ 1..(1 - 1) = {}
  OBVIOUS
<1>. QED
  BY <1>1, FirstIs

LEMMA PeerDecided ==
  ASSUME Loads("Psi", "a", "peer_available"), Loads("Psi", "v", "peer_sev_int"),
         Loads("Psi", "g", "peer_gw_ok"), Loads("Psi", "h", "peer_heartbeat_age"),
         Loads("Psi", "s", "peer_last_score"), Loads("Psi", "d", "peer_queries_60s"),
         Loads("Psi", "p", "peer_psi_some10"), Loads("Psi", "r", "peer_rag_docs"),
         NEW p, IsPeer(p)
  PROVE  Decided(PeerGenome, PeerFrame(p, p.recent), PeerRules(p))
<1>1. PICK f : f = PeerFrame(p, p.recent)
  OBVIOUS
<1>2. PICK there \in BOOLEAN : there = p.open
  BY Zenon DEF IsPeer
<1>3. PICK v1, v2, v3, v4, v5, v6, v7, v8 :
        /\ v1 = Flag(p.open)
        /\ v2 = IF p.open /\ p.sev # Absent THEN SevInt[p.sev[1]] ELSE 0
        /\ v3 = Flag(p.open /\ p.gw # Absent /\ p.gw[1] \in Healthy)
        /\ v4 = IF p.open /\ p.age # Absent THEN p.age[1] ELSE NeverHeard
        /\ v5 = IF p.open THEN Number0(p.score) ELSE 0
        /\ v6 = IF p.open THEN p.recent ELSE 0
        /\ v7 = IF p.open THEN Number0(p.some) ELSE 0
        /\ v8 = IF p.open THEN Number0(p.docs) ELSE 0
  OBVIOUS
<1>4. /\ v1 \in Nat /\ v3 \in Nat /\ v4 \in Nat
      /\ v5 \in Nat /\ v6 \in Nat /\ v7 \in Nat /\ v8 \in Nat
  <2>1. v1 \in Nat /\ v3 \in Nat
    BY <1>3 DEF Flag
  <2>2. v4 \in Nat /\ v5 \in Nat /\ v6 \in Nat /\ v7 \in Nat /\ v8 \in Nat
    <3>1. /\ IsEntry(p.age) /\ IsEntry(p.score) /\ IsEntry(p.some) /\ IsEntry(p.docs)
          /\ p.recent \in Nat
      BY DEF IsPeer
    <3>2. /\ p.age # Absent => p.age[1] \in Nat
          /\ Number0(p.score) \in Nat /\ Number0(p.some) \in Nat /\ Number0(p.docs) \in Nat
      BY <3>1, EntryIs
    <3>. QED
      BY <1>3, <3>1, <3>2 DEF NeverHeard
  <2>. QED
    BY <2>1, <2>2
<1>5. v2 \in Nat /\ (v2 >= 3 <=> p.open /\ p.sev = <<"CRITICAL">>)
  <2>1. /\ DOMAIN SevInt = {"OK", "INFO", "WARN", "CRITICAL"}
        /\ SevInt["OK"] = 0 /\ SevInt["INFO"] = 1 /\ SevInt["WARN"] = 2 /\ SevInt["CRITICAL"] = 3
    BY DEF SevInt
  <2>2. CASE p.open /\ p.sev # Absent
    <3>1. PICK v \in {"OK", "INFO", "WARN", "CRITICAL"} : p.sev = <<v>>
      BY <2>1, <2>2 DEF IsPeer
    <3>2. p.sev[1] = v /\ v2 = SevInt[v] /\ (p.sev = <<"CRITICAL">> <=> v = "CRITICAL")
      BY <1>3, <2>2, <3>1
    <3>. QED
      BY <2>1, <2>2, <3>1, <3>2
  <2>3. CASE ~ (p.open /\ p.sev # Absent)
    <3>1. v2 = 0 /\ ~ (p.open /\ p.sev = <<"CRITICAL">>)
      BY <1>3, <2>3 DEF Absent
    <3>. QED
      BY <3>1
  <2>. QED
    BY <2>2, <2>3
<1>6. PICK open \in Nat, sev \in Nat, gw \in Nat, age \in Nat, score \in Nat, queries \in Nat,
           some \in Nat, docs \in Nat :
        /\ open = v1 /\ sev = v2 /\ gw = v3 /\ age = v4 /\ score = v5 /\ queries = v6
        /\ some = v7 /\ docs = v8
  BY <1>4, <1>5
<1>7. /\ Get(f, "peer_available", 0) = open /\ Get(f, "peer_sev_int", 0) = sev
      /\ Get(f, "peer_gw_ok", 0) = gw /\ Get(f, "peer_heartbeat_age", 0) = age
      /\ Get(f, "peer_last_score", 0) = score /\ Get(f, "peer_queries_60s", 0) = queries
      /\ Get(f, "peer_psi_some10", 0) = some /\ Get(f, "peer_rag_docs", 0) = docs
  <2>1. f = [peer_available |-> v1, peer_sev_int |-> v2, peer_psi_some10 |-> v7,
             peer_heartbeat_age |-> v4, peer_rag_docs |-> v8, peer_last_score |-> v5,
             peer_gw_ok |-> v3, peer_alive |-> IF p.open THEN AliveCount(p.acbs) ELSE 0,
             peer_queries_60s |-> v6]
    BY <1>1, <1>3, Zenon DEF PeerFrame
  <2>. QED
    BY <1>6, <2>1 DEF Get
<1>8. RuleList(PeerGenome, f, PeerList(open, sev, gw, age, score, queries, some, docs))
  BY <1>7, PeerIsList
<1>9. PICK a, b, c, d : a = (open < 1) /\ b = (sev >= 3) /\ c = (gw < 1) /\ d = (age > 120)
  BY Zenon
<1>9a. PICK e, z, h : e = (score > 5 /\ queries < 2) /\ z = (some > 10) /\ h = (docs < 1)
  BY Zenon
<1>10. Said(PeerList(open, sev, gw, age, score, queries, some, docs))
         = PeerFirst(a, b, c, d, e, z, h)
  <2>1. PeerWhen(open, sev, gw, age, score, queries, some, docs, a, b, c, d, e, z, h)
    BY <1>6, <1>9, <1>9a, Zenon DEF PeerWhen
  <2>. QED
    BY <2>1, PeerSays
<1>11. PICK a2, b2, c2, d2 :
         /\ a2 = ~p.open /\ b2 = (p.sev = <<"CRITICAL">>)
         /\ c2 = ~ \E s \in Healthy : p.gw = <<s>>
         /\ d2 = (p.age = Absent \/ p.age[1] > 120)
  BY Zenon
<1>11a. PICK e2, z2, h2 :
         /\ e2 = (p.score # Absent /\ p.score[1] > 5 /\ p.recent < 2)
         /\ z2 = (p.some # Absent /\ p.some[1] > 10) /\ h2 = (p.docs \in {Absent, <<0>>})
  BY Zenon
<1>12. PeerRules(p) = PeerFirst(a2, b2, c2, d2, e2, z2, h2)
  BY <1>11, <1>11a, Zenon DEF PeerRules, PeerFirst
<1>13. CASE ~p.open
  <2>1. open < 1
    BY <1>3, <1>6, <1>13 DEF Flag
  <2>2. a /\ a2
    BY <1>9, <1>9a, <1>11, <1>11a, <1>13, <2>1, Zenon
  <2>3. PICK R1, R2 :
          /\ R1 = << <<a, <<"CRITICAL", "GATE_DOWN">> >>,
                     <<b, <<"CRITICAL", "CLUSTER_DEGRADED">> >>,
                     <<c, <<"CRITICAL", "GATE_DOWN">> >>,
                     <<d, <<"CRITICAL", "CLUSTER_DEGRADED">> >>,
                     <<e, <<"WARN", "POD_PRESSURE">> >>, <<z, <<"WARN", "MEM_PSI_WARN">> >>,
                     <<h, <<"INFO", "SWAP_ABSENT">> >> >>
          /\ R2 = << <<a2, <<"CRITICAL", "GATE_DOWN">> >>,
                     <<b2, <<"CRITICAL", "CLUSTER_DEGRADED">> >>,
                     <<c2, <<"CRITICAL", "GATE_DOWN">> >>,
                     <<d2, <<"CRITICAL", "CLUSTER_DEGRADED">> >>,
                     <<e2, <<"WARN", "POD_PRESSURE">> >>, <<z2, <<"WARN", "MEM_PSI_WARN">> >>,
                     <<h2, <<"INFO", "SWAP_ABSENT">> >> >>
    OBVIOUS
  <2>4. /\ Len(R1) = 7 /\ R1[1] = <<a, <<"CRITICAL", "GATE_DOWN">> >>
        /\ Len(R2) = 7 /\ R2[1] = <<a2, <<"CRITICAL", "GATE_DOWN">> >>
    BY <2>3
  <2>5. /\ R1[1][1] /\ R1[1][2] = <<"CRITICAL", "GATE_DOWN">>
        /\ R2[1][1] /\ R2[1][2] = <<"CRITICAL", "GATE_DOWN">>
    BY <2>2, <2>4
  <2>6. Len(R1) \in Nat /\ 1 <= Len(R1) /\ Len(R2) \in Nat /\ 1 <= Len(R2)
    BY <2>4
  <2>7. First(R1) = <<"CRITICAL", "GATE_DOWN">>
    BY <2>5, <2>6, FirstApplies, Zenon
  <2>8. First(R2) = <<"CRITICAL", "GATE_DOWN">>
    BY <2>5, <2>6, FirstApplies, Zenon
  <2>. QED
    BY <1>1, <1>8, <1>10, <1>12, <2>3, <2>7, <2>8, Zenon DEF Decided, PeerFirst
<1>14. CASE p.open
  <2>1. /\ a2 <=> open < 1
        /\ b2 <=> sev >= 3
    <3>1. open = 1
      BY <1>3, <1>6, <1>14 DEF Flag
    <3>2. p.sev = <<"CRITICAL">> <=> sev >= 3
      BY <1>5, <1>6, <1>14
    <3>3. ~ (open < 1)
      BY <3>1
    <3>. QED
      BY <1>11, <1>11a, <1>14, <3>2, <3>3, Zenon
  <2>2. c2 <=> gw < 1
    <3>1. (p.gw # Absent /\ p.gw[1] \in Healthy) <=> \E s \in Healthy : p.gw = <<s>>
      <4>1. CASE p.gw = Absent
        BY <4>1 DEF Absent
      <4>2. CASE p.gw # Absent
        <5>1. PICK v : p.gw = <<v>>
          BY <4>2 DEF IsPeer
        <5>2. p.gw[1] = v /\ \A s : p.gw = <<s>> <=> v = s
          BY <5>1
        <5>. QED
          BY <4>2, <5>2
      <4>. QED
        BY <4>1, <4>2
    <3>2. gw < 1 <=> ~ \E s \in Healthy : p.gw = <<s>>
      BY <1>3, <1>6, <1>14, <3>1 DEF Flag
    <3>. QED
      BY <1>11, <1>11a, <3>2, Zenon
  <2>3. d2 <=> age > 120
    <3>1. age > 120 <=> p.age = Absent \/ p.age[1] > 120
      BY <1>3, <1>6, <1>14 DEF NeverHeard
    <3>. QED
      BY <1>11, <1>11a, <3>1, Zenon
  <2>4. (e2 <=> score > 5 /\ queries < 2) /\ (z2 <=> some > 10) /\ (h2 <=> docs < 1)
    <3>1. IsEntry(p.score) /\ IsEntry(p.some) /\ IsEntry(p.docs)
      BY DEF IsPeer
    <3>2. /\ score = Number0(p.score) /\ queries = p.recent /\ some = Number0(p.some)
          /\ docs = Number0(p.docs)
      BY <1>3, <1>6, <1>14
    <3>3. /\ score > 5 <=> p.score # Absent /\ p.score[1] > 5
          /\ some > 10 <=> p.some # Absent /\ p.some[1] > 10
          /\ docs < 1 <=> p.docs \in {Absent, <<0>>}
      BY <3>1, <3>2, EntryIs
    <3>. QED
      BY <1>11, <1>11a, <3>2, <3>3, Zenon
  <2>5. PeerWhen(open, sev, gw, age, score, queries, some, docs, a2, b2, c2, d2, e2, z2, h2)
    BY <1>6, <2>1, <2>2, <2>3, <2>4 DEF PeerWhen
  <2>6. Said(PeerList(open, sev, gw, age, score, queries, some, docs)) = PeerRules(p)
    BY <1>12, <2>5, PeerSays
  <2>. QED
    BY <1>1, <1>8, <2>6, Zenon DEF Decided
<1>. QED
  BY <1>13, <1>14

\* The disks and the interface f of the sample before, with whole percentages.
IsDiskNet(w) ==
  /\ DOMAIN w.disks = {"d", "e"}
  /\ \A d \in {"d", "e"} : \E k \in Nat : w.disks[d].busy = 100 * k
  /\ "f" \in DOMAIN w.nets /\ w.nets["f"].errs \in Nat

\* How busy the disks were: the frame has the percentages.
LEMMA BusyIs ==
  ASSUME NEW w, IsDiskNet(w)
  PROVE  LET busy == DiskFrame(Before.disks, w.disks, 10).disk_util
         IN busy \in Nat /\ (busy > 80 <=> \E d \in DOMAIN w.disks : w.disks[d].busy > 80 * 100)
<1>1. PICK before, now : before = Before.disks /\ now = w.disks
  OBVIOUS
<1>2. DOMAIN before = {"d", "e"} /\ \A d \in {"d", "e"} : before[d].busy = 0
  BY <1>1 DEF Before, Disk
<1>3. PICK S : S = {(now[d].busy - before[d].busy) \div (10 * 10) : d \in {"d", "e"}}
  OBVIOUS
<1>4. DiskFrame(before, now, 10).disk_util = Highest(S)
  <2>1. Both(before, now) = {"d", "e"}
    BY <1>1, <1>2 DEF Both, IsDiskNet
  <2>2. DiskFrame(before, now, 10).disk_util
          = Max({0} \union {(now[d].busy - before[d].busy) \div (10 * 10) : d \in {"d", "e"}})
    BY <2>1, Zenon DEF DiskFrame
  <2>. QED
    BY <1>3, <2>2, Zenon DEF Highest
<1>5. \A d \in {"d", "e"} : \E k \in Nat :
        now[d].busy = 100 * k /\ (now[d].busy - before[d].busy) \div (10 * 10) = k
  <2>. SUFFICES ASSUME NEW d \in {"d", "e"}
                PROVE  \E k \in Nat : /\ now[d].busy = 100 * k
                                      /\ (now[d].busy - before[d].busy) \div (10 * 10) = k
    OBVIOUS
  <2>1. PICK k \in Nat : now[d].busy = 100 * k
    BY <1>1 DEF IsDiskNet
  <2>2. before[d].busy = 0
    BY <1>2
  <2>3. (100 * k - 0) \div (10 * 10) = k
    OBVIOUS
  <2>. QED
    BY <2>1, <2>2, <2>3
<1>6. IsFiniteSet(S) /\ S \subseteq Nat
  <2>1. PICK e : e = [d \in {"d", "e"} |-> (now[d].busy - before[d].busy) \div (10 * 10)]
    OBVIOUS
  <2>2. IsFiniteSet({"d", "e"})
    <3>1. IsFiniteSet({"d"}) /\ IsFiniteSet({"e"})
      BY FS_Singleton
    <3>2. IsFiniteSet({"d"} \union {"e"})
      BY <3>1, FS_Union
    <3>. QED
      BY <3>2
  <2>3. IsFiniteSet({e[d] : d \in {"d", "e"}})
    BY <2>2, ImageFinite
  <2>4. S = {e[d] : d \in {"d", "e"}}
    BY <1>3, <2>1
  <2>5. S \subseteq Nat
    BY <1>3, <1>5
  <2>. QED
    BY <2>3, <2>4, <2>5
<1>7. Highest(S) \in Nat /\ (Highest(S) > 80 <=> \E x \in S : x > 80)
  BY <1>6, HighestIs
<1>8. (\E x \in S : x > 80) <=> \E d \in {"d", "e"} : now[d].busy > 80 * 100
  <2>1. \A d \in {"d", "e"} :
          (now[d].busy - before[d].busy) \div (10 * 10) > 80 <=> now[d].busy > 80 * 100
    <3>. SUFFICES ASSUME NEW d \in {"d", "e"}
                  PROVE  (now[d].busy - before[d].busy) \div (10 * 10) > 80
                           <=> now[d].busy > 80 * 100
      OBVIOUS
    <3>1. PICK k \in Nat :
            now[d].busy = 100 * k /\ (now[d].busy - before[d].busy) \div (10 * 10) = k
      BY <1>5
    <3>2. k > 80 <=> 100 * k > 80 * 100
      OBVIOUS
    <3>. QED
      BY <3>1, <3>2
  <2>. QED
    BY <1>3, <2>1
<1>9. DOMAIN w.disks = {"d", "e"}
  BY DEF IsDiskNet
<1>. QED
  BY <1>1, <1>4, <1>7, <1>8, <1>9

\* And the errors of the interface that was there before.
LEMMA ErrorsAre ==
  ASSUME NEW w, IsDiskNet(w)
  PROVE  LET errs == NetFrame(Before.nets, w.nets, 10).net_errors
         IN errs \in Nat /\ (errs > 0 <=> w.nets["f"].errs > 2)
<1>1. PICK before, now : before = Before.nets /\ now = w.nets
  OBVIOUS
<1>2. PICK n \in Nat : n = now["f"].errs
  BY <1>1 DEF IsDiskNet
<1>3. PICK new : new = NewErrors(before, now)
  OBVIOUS
<1>4. DOMAIN new = {"f"} /\ new["f"] = Max({0, n - 2})
  <2>1. DOMAIN before = {"f"} /\ before["f"].errs = 2
    BY <1>1 DEF Before, Net
  <2>2. Both(before, now) = {"f"}
    BY <1>1, <2>1 DEF Both, IsDiskNet
  <2>. QED
    BY <1>2, <1>3, <2>1, <2>2 DEF NewErrors
<1>5. PICK m \in Nat : m = new["f"] /\ (m > 0 <=> n > 2)
  <2>1. PICK d \in Int : d = n - 2
    OBVIOUS
  <2>2. Max({0, d}) = IF d > 0 THEN d ELSE 0
    BY MaxOfTwo
  <2>. QED
    BY <1>4, <2>1, <2>2
<1>6. PICK e : e = PerOf(new, 10)
  OBVIOUS
<1>7. e["f"] = Per(m, 10)
  BY <1>4, <1>5, <1>6 DEF PerOf
<1>8. Per(m, 10) \in Nat /\ (Per(m, 10) > 0 <=> m > 0)
  <2>1. (100 * m) \div 10 = 10 * m
    OBVIOUS
  <2>. QED
    BY <2>1 DEF Per
<1>9. IsFiniteSet({"f"}) /\ \A x \in {"f"} : e[x] = Per(new[x], 10) /\ e[x] \in Int
  <2>1. IsFiniteSet({"f"})
    BY FS_Singleton
  <2>. QED
    BY <1>5, <1>7, <1>8, <2>1
<1>10. SumOf(e, {"f"}) = Per(m, 10)
  <2>1. SumOf(e, {"f"}) = e["f"] + SumOf(e, {"f"} \ {"f"})
    BY <1>9, SumRemove
  <2>2. SumOf(e, {}) = 0 /\ {"f"} \ {"f"} = {}
    BY SumOfNone
  <2>. QED
    BY <1>7, <1>8, <2>1, <2>2
<1>11. NetFrame(before, now, 10).net_errors = SumOf(e, {"f"})
  <2>1. NetFrame(before, now, 10).net_errors = MapThenSumSet(LAMBDA x : Per(new[x], 10), {"f"})
    BY <1>3, <1>4 DEF NetFrame
  <2>2. MapThenSumSet(LAMBDA x : Per(new[x], 10), {"f"}) = SumOf(e, {"f"})
    BY <1>9, SumOfPer
  <2>. QED
    BY <2>1, <2>2
<1>. QED
  BY <1>1, <1>2, <1>5, <1>8, <1>10, <1>11

LEMMA DiskNetDecided ==
  ASSUME Loads("net", "e", "net_errors"), Loads("disk", "u", "disk_util"),
         NEW w, IsDiskNet(w)
  PROVE  Decided(DiskNetGenome, DiskNetFrame(w), DiskNetRules(w))
<1>1. PICK f, disk, net :
        /\ f = DiskNetFrame(w)
        /\ disk = DiskFrame(Before.disks, w.disks, 10) /\ net = NetFrame(Before.nets, w.nets, 10)
  OBVIOUS
<1>2. PICK errs \in Nat, busy \in Nat : errs = net.net_errors /\ busy = disk.disk_util
  BY <1>1, BusyIs, ErrorsAre
<1>3. PICK a, b :
        /\ a = (w.nets["f"].errs > 2)
        /\ b = (\E d \in DOMAIN w.disks : w.disks[d].busy > 80 * 100)
  BY Zenon
<1>4. (a <=> errs > 0) /\ (b <=> busy > 80)
  <2>1. errs > 0 <=> w.nets["f"].errs > 2
    BY <1>1, <1>2, ErrorsAre
  <2>2. busy > 80 <=> \E d \in DOMAIN w.disks : w.disks[d].busy > 80 * 100
    BY <1>1, <1>2, BusyIs
  <2>. QED
    BY <1>3, <2>1, <2>2, Zenon
<1>5. Get(f, "net_errors", 0) = errs /\ Get(f, "disk_util", 0) = busy
  <2>1. DOMAIN disk = {"disk_iops", "disk_util", "disk_wait"}
    BY <1>1 DEF DiskFrame
  <2>2. DOMAIN net = {"net_errors", "net_link_down", "net_ifaces"}
    BY <1>1 DEF NetFrame
  <2>3. f = [key \in DOMAIN disk \union DOMAIN net |->
               IF key \in DOMAIN disk THEN disk[key] ELSE net[key]]
    BY <1>1, Zenon DEF DiskNetFrame
  <2>4. /\ "net_errors" \in DOMAIN f /\ f["net_errors"] = net["net_errors"]
        /\ "disk_util" \in DOMAIN f /\ f["disk_util"] = disk["disk_util"]
    BY <2>1, <2>2, <2>3
  <2>. QED
    BY <1>2, <2>4 DEF Get
<1>6. RuleList(DiskNetGenome, f, DiskNetList(errs, busy))
  BY <1>5, DiskNetIsList
<1>7. DiskNetWhen(errs, busy, a, b)
  BY <1>4 DEF DiskNetWhen
<1>8. DiskNetRules(w) = DiskNetFirst(a, b)
  BY <1>3, Zenon DEF DiskNetRules, DiskNetFirst
<1>9. Said(DiskNetList(errs, busy)) = DiskNetRules(w)
  BY <1>7, <1>8, DiskNetSays
<1>. QED
  BY <1>1, <1>6, <1>9, Zenon DEF Decided

------------------------------------------------------------------------------
\* The rules against the gate in code.
LEMMA RulesAgree ==
  ASSUME NEW h, IsHost(h)
  PROVE  AgreesWithGate(KernelRules(h), h)
<1>. DEFINE v == KernelRules(h)
            gate == Evaluate(h)
            none == h.mem.swap = 0
<1>1. /\ SevInt["OK"] = 0 /\ SevInt["INFO"] = 1 /\ SevInt["WARN"] = 2 /\ SevInt["CRITICAL"] = 3
  BY DEF SevInt
<1>2. \/ gate = <<"CRITICAL", "MEM_PSI_CRIT">> /\ h.psi # Absent /\ Critical(h, none)
      \/ gate = <<"CRITICAL", "MEM_LVL_CRIT">> /\ h.psi = Absent
      \/ /\ gate = <<"CRITICAL", "MEM_PSI_CRIT_NOSW">> /\ h.psi # Absent /\ none
         /\ Warns(h, none) /\ ~Critical(h, none)
      \/ gate = <<"CRITICAL", "MEM_LVL_CRIT_NOSW">> /\ h.psi = Absent
      \/ /\ gate = <<"WARN", "MEM_PSI_WARN">> /\ h.psi # Absent /\ ~none
         /\ Warns(h, none) /\ ~Critical(h, none)
      \/ gate = <<"WARN", "MEM_LVL_WARN">> /\ h.psi = Absent /\ ~none
      \/ gate = <<"INFO", "SWAP_ABSENT">> /\ none /\ ~Warns(h, none) /\ ~Critical(h, none)
      \/ gate = <<"OK", "OK">> /\ ~none /\ ~Warns(h, none) /\ ~Critical(h, none)
  BY DEF Evaluate, Concern, Escalated
<1>3. CASE h.psi = Absent
  <2>1. FullOf(h) = 0 /\ SomeOf(h) = 0
    BY <1>3 DEF FullOf, SomeOf
  <2>2. v = IF none THEN <<"INFO", "SWAP_ABSENT">> ELSE <<"OK", "OK">>
    BY <2>1, RulesAre, HostReads
  <2>. HIDE DEF v, gate, none
  <2>3. /\ SevInt[v[1]] <= SevInt[gate[1]]
        /\ gate[1] \in {"OK", "INFO"} => v = gate
    BY <1>1, <1>2, <1>3, <2>2
  <2>. QED
    BY <1>3, <2>3 DEF AgreesWithGate, v, gate
<1>4. CASE h.psi # Absent
  <2>1. PICK some \in Nat, full \in Nat : h.psi[1] = some /\ h.psi[2] = full
    BY <1>4 DEF IsHost
  <2>2. FullOf(h) = full /\ SomeOf(h) = some
    BY <1>4, <2>1 DEF FullOf, SomeOf
  <2>3. /\ Critical(h, none) <=> full >= 5 \/ some >= 25
        /\ Warns(h, none) <=> full >= 1 \/ some >= 10
    BY <1>4, <2>1 DEF Critical, Warns
  <2>4. v = IF full > 5 THEN <<"CRITICAL", "MEM_PSI_CRIT">>
            ELSE IF some > 10 /\ none THEN <<"CRITICAL", "MEM_PSI_CRIT_NOSW">>
            ELSE IF some > 10 THEN <<"WARN", "MEM_PSI_WARN">>
            ELSE IF none THEN <<"INFO", "SWAP_ABSENT">> ELSE <<"OK", "OK">>
    BY <2>1, <2>2, RulesAre, HostReads
  <2>. HIDE DEF v, gate, none
  <2>5. SevInt[v[1]] <= SevInt[gate[1]]
    BY <1>1, <1>2, <1>4, <2>1, <2>3, <2>4
  <2>6. ASSUME \/ ~ (some = 10 \/ some >= 25 \/ full \in 1..5)
               \/ gate[1] \in {"OK", "INFO"}
        PROVE  v = gate
    BY <1>2, <1>4, <2>1, <2>3, <2>4, <2>6
  <2>. QED
    BY <1>4, <2>1, <2>5, <2>6 DEF AgreesWithGate, v, gate
<1>. QED
  BY <1>3, <1>4

\* The genomes that ship are lists of rules, so each comes to the verdict of its rules.
LEMMA DecidedSays ==
  ASSUME TableApart, 3 <= MaxStack, NEW g, NEW f, NEW v, Decided(g, f, v)
  PROVE  Start(g, f) /\ [][Next]_vars => [](verdict = Running \/ verdict = v)
<1>1. PICK rs : RuleList(g, f, rs) /\ Said(rs) = v
  BY DEF Decided
<1>2. Start(g, f) /\ [][Next]_vars => [](verdict = Running \/ verdict = Said(rs))
  BY <1>1, FirstRuleDecides
<1>3. verdict = Running \/ verdict = Said(rs) => verdict = Running \/ verdict = v
  BY <1>1
<1>. QED
  BY <1>2, <1>3, PTL

\* The genome that ships and the hand-written one it evolved from say what the rules
\* say, on every host.
THEOREM GenomesSayTheRules ==
  ASSUME LoadsKernel, 3 <= MaxStack, NEW h, IsHost(h)
  PROVE  DecisionSpec(h) => [](verdict = Running \/ verdict = KernelRules(h))
<1>1. TableApart
  BY DEF LoadsKernel, TableApart
<1>2. PICK g, g2, f, v :
        g = KernelGenome /\ g2 = HandCoded /\ f = KernelFrame(h) /\ v = KernelRules(h)
  OBVIOUS
<1>3. Decided(g, f, v) /\ Decided(g2, f, v)
  BY <1>2, KernelDecided
<1>4. /\ Start(g, f) /\ [][Next]_vars => [](verdict = Running \/ verdict = v)
      /\ Start(g2, f) /\ [][Next]_vars => [](verdict = Running \/ verdict = v)
  BY <1>1, <1>3, DecidedSays
<1>5. DecisionInit(h) => Start(g, f) \/ Start(g2, f)
  BY <1>2 DEF DecisionInit
<1>6. verdict = Running \/ verdict = v => verdict = Running \/ verdict = KernelRules(h)
  BY <1>2
<1>. QED
  BY <1>4, <1>5, <1>6, PTL DEF DecisionSpec

\* Against the gate they replace: never louder, and apart from it only where
\* AgreesWithGate says they may be.
THEOREM GenomesKeepToGate ==
  ASSUME LoadsKernel, 3 <= MaxStack, NEW h, IsHost(h)
  PROVE  DecisionSpec(h) => [](verdict \in Verdicts => AgreesWithGate(verdict, h))
<1>1. Running \notin Verdicts
  BY DEF Running, Verdicts
<1>2. ASSUME verdict = Running \/ verdict = KernelRules(h)
      PROVE  verdict \in Verdicts => AgreesWithGate(verdict, h)
  BY <1>1, <1>2, RulesAgree
<1>. QED
  BY <1>2, GenomesSayTheRules, PTL

\* The pods' genome says what its rules say, whatever pods there are.
THEOREM PodsSayTheRules ==
  ASSUME TableApart, 3 <= MaxStack, NEW w, IsNode(w),
         Loads("pod", "o", "pod_delta_oom_kills_60s"), Loads("pod", "s", "pod_max_psi_some")
  PROVE  Start(PodsGenome, PodsFrame(w.pods, w.recent)) /\ [][Next]_vars
           => [](verdict = Running \/ verdict = PodsRules(w))
<1>1. PICK g, f, v : g = PodsGenome /\ f = PodsFrame(w.pods, w.recent) /\ v = PodsRules(w)
  OBVIOUS
<1>2. Decided(g, f, v)
  BY <1>1, PodsDecided
<1>3. Start(g, f) /\ [][Next]_vars => [](verdict = Running \/ verdict = v)
  BY <1>2, DecidedSays
<1>4. Start(PodsGenome, PodsFrame(w.pods, w.recent)) => Start(g, f)
  BY <1>1
<1>5. verdict = Running \/ verdict = v => verdict = Running \/ verdict = PodsRules(w)
  BY <1>1
<1>. QED
  BY <1>3, <1>4, <1>5, PTL

\* So does the control plane's, of any cluster.
THEOREM ClusterSaysTheRules ==
  ASSUME TableApart, 3 <= MaxStack, NEW c, IsControlPlane(c),
         Loads("K", "a", "k8s_healthy"), Loads("K", "?", "k8s_auth_present"),
         Loads("K", "x", "k8s_not_ready"), Loads("K", "d", "k8s_degraded"),
         Loads("K", "e", "k8s_warnings")
  PROVE  Start(ClusterGenome, ClusterFrame(c)) /\ [][Next]_vars
           => [](verdict = Running \/ verdict = ClusterRules(c))
<1>1. PICK g, f, v : g = ClusterGenome /\ f = ClusterFrame(c) /\ v = ClusterRules(c)
  OBVIOUS
<1>2. Decided(g, f, v)
  BY <1>1, ClusterDecided
<1>3. Start(g, f) /\ [][Next]_vars => [](verdict = Running \/ verdict = v)
  BY <1>2, DecidedSays
<1>4. Start(ClusterGenome, ClusterFrame(c)) => Start(g, f)
  BY <1>1
<1>5. verdict = Running \/ verdict = v => verdict = Running \/ verdict = ClusterRules(c)
  BY <1>1
<1>. QED
  BY <1>3, <1>4, <1>5, PTL

\* And the monitor's, of any other swarm.
THEOREM PeerSaysTheRules ==
  ASSUME TableApart, 3 <= MaxStack, NEW p, IsPeer(p),
         Loads("Psi", "a", "peer_available"), Loads("Psi", "v", "peer_sev_int"),
         Loads("Psi", "g", "peer_gw_ok"), Loads("Psi", "h", "peer_heartbeat_age"),
         Loads("Psi", "s", "peer_last_score"), Loads("Psi", "d", "peer_queries_60s"),
         Loads("Psi", "p", "peer_psi_some10"), Loads("Psi", "r", "peer_rag_docs")
  PROVE  Start(PeerGenome, PeerFrame(p, p.recent)) /\ [][Next]_vars
           => [](verdict = Running \/ verdict = PeerRules(p))
<1>1. PICK g, f, v : g = PeerGenome /\ f = PeerFrame(p, p.recent) /\ v = PeerRules(p)
  OBVIOUS
<1>2. Decided(g, f, v)
  BY <1>1, PeerDecided
<1>3. Start(g, f) /\ [][Next]_vars => [](verdict = Running \/ verdict = v)
  BY <1>2, DecidedSays
<1>4. Start(PeerGenome, PeerFrame(p, p.recent)) => Start(g, f)
  BY <1>1
<1>5. verdict = Running \/ verdict = v => verdict = Running \/ verdict = PeerRules(p)
  BY <1>1
<1>. QED
  BY <1>3, <1>4, <1>5, PTL

\* And the governor's, of any peers: the rule that dominates is not the one that the
\* genome has first.
THEOREM GovernorSaysTheRules ==
  ASSUME TableApart, 3 <= MaxStack, NEW peers, IsScan(peers),
         Loads("Gam", "c", "quorum_node_critical"), Loads("Gam", "k", "quorum_control_ok"),
         Loads("Gam", "p", "quorum_node_pressure")
  PROVE  Start(GovernorGenome, QuorumFrame(peers)) /\ [][Next]_vars
           => [](verdict = Running \/ verdict = GovernorRules(peers))
<1>1. PICK g, f, v : g = GovernorGenome /\ f = QuorumFrame(peers) /\ v = GovernorRules(peers)
  OBVIOUS
<1>2. Decided(g, f, v)
  BY <1>1, GovernorDecided
<1>3. Start(g, f) /\ [][Next]_vars => [](verdict = Running \/ verdict = v)
  BY <1>2, DecidedSays
<1>4. Start(GovernorGenome, QuorumFrame(peers)) => Start(g, f)
  BY <1>1
<1>5. verdict = Running \/ verdict = v => verdict = Running \/ verdict = GovernorRules(peers)
  BY <1>1
<1>. QED
  BY <1>3, <1>4, <1>5, PTL

------------------------------------------------------------------------------
(***************************************************************************)
(* The oracle: what a score means, for any judge and scenario.             *)
(***************************************************************************)

IsPair(v) == v = <<v[1], v[2]>>

\* What the lemmas use of a scenario and of a genome's verdicts on it.
Replayable(judge, scenario, total) ==
  /\ total \in Nat /\ Len(scenario) \in Nat /\ DOMAIN scenario = 1..Len(scenario)
  /\ \A k \in DOMAIN scenario :
       /\ scenario[k].lo \in Nat /\ scenario[k].hi \in Nat
       /\ scenario[k].lo <= scenario[k].hi /\ scenario[k].hi < total
       /\ scenario[k].truth = <<>> \/ IsPair(scenario[k].truth)
       /\ Deadline(scenario[k]) \in Nat
       /\ IsPair(VerdictIn(judge, scenario, k))
  /\ \A j, k \in DOMAIN scenario : j < k => scenario[j].hi < scenario[k].lo

\* A tick in a phase is in no other.
LEMMA PhaseIs ==
  ASSUME NEW judge, NEW scenario, NEW total, Replayable(judge, scenario, total), NEW t \in Int
  PROVE  /\ \A k \in DOMAIN scenario :
              t \in scenario[k].lo..scenario[k].hi => PhaseFor(scenario, t) = k
         /\ PhaseFor(scenario, t) # 0 =>
              \E k \in DOMAIN scenario : t \in scenario[k].lo..scenario[k].hi
<1>. DEFINE I == {n \in 1..Len(scenario) : Covers(scenario[n], t)}
<1>1. PhaseFor(scenario, t) = IF I # {} THEN Min(I) ELSE 0
  BY DEF PhaseFor, SelectInSeq
<1>2. \A n \in I : n \in DOMAIN scenario /\ t \in scenario[n].lo..scenario[n].hi
  BY DEF Covers, Replayable
<1>3. IsFiniteSet(I) /\ I \subseteq Int
  <2>1. IsFiniteSet(1..Len(scenario))
    BY FS_Interval DEF Replayable
  <2>2. I \subseteq 1..Len(scenario) /\ I \subseteq Int
    BY DEF Replayable
  <2>. HIDE DEF I
  <2>. QED
    BY <2>1, <2>2, FS_Subset
<1>4. \A k \in DOMAIN scenario : t \in scenario[k].lo..scenario[k].hi => k \in I
  BY DEF Covers, Replayable
<1>. HIDE DEF I
<1>5. I # {} => Min(I) \in I
  BY <1>3, MinIsSmallest
<1>6. ASSUME NEW k \in DOMAIN scenario, t \in scenario[k].lo..scenario[k].hi
      PROVE  PhaseFor(scenario, t) = k
  <2>1. k \in I
    BY <1>4, <1>6
  <2>2. PICK m \in I : PhaseFor(scenario, t) = m
    BY <1>1, <1>5, <2>1
  <2>3. m \in DOMAIN scenario /\ t \in scenario[m].lo..scenario[m].hi
    BY <1>2
  <2>4. ~ (m < k) /\ ~ (k < m)
    BY <1>6, <2>3 DEF Replayable
  <2>. QED
    BY <2>2, <2>3, <2>4 DEF Replayable
<1>. QED
  BY <1>1, <1>2, <1>5, <1>6

\* The verdicts that edges are told from: within a phase its own, on its first tick
\* that of the phase before.
LEMMA LastIs ==
  ASSUME NEW judge, NEW scenario, NEW total, Replayable(judge, scenario, total),
         NEW k \in DOMAIN scenario, NEW t \in scenario[k].lo..scenario[k].hi
  PROVE  /\ t \in Played(scenario, total)
         /\ VerdictAt(judge, scenario, t) = VerdictIn(judge, scenario, k)
         /\ LastVerdict(judge, scenario, t) =
              IF t = scenario[k].lo THEN VerdictBefore(judge, scenario, k)
              ELSE VerdictIn(judge, scenario, k)
<1>. DEFINE before == Played(scenario, t)
<1>1. /\ t \in Nat /\ total \in Nat /\ k \in Nat /\ k # 0
      /\ scenario[k].lo \in Nat /\ scenario[k].hi \in Nat /\ t < total
  BY DEF Replayable
<1>2. PhaseFor(scenario, t) = k
  BY <1>1, PhaseIs
<1>3. t \in Played(scenario, total)
  BY <1>1, <1>2 DEF Played
<1>4. VerdictAt(judge, scenario, t) = VerdictIn(judge, scenario, k)
  BY <1>2 DEF VerdictAt, VerdictIn
<1>5. \A u \in before : u \in Nat /\ u < t /\ PhaseFor(scenario, u) # 0
  BY <1>1 DEF Played
<1>6. IsFiniteSet(before) /\ before \subseteq Int
  <2>1. IsFiniteSet(0..(t - 1))
    <3>1. PICK u \in Int : u = t - 1
      BY <1>1
    <3>2. IsFiniteSet(0..u)
      BY UpToFinite
    <3>. QED
      BY <3>1, <3>2
  <2>2. before \subseteq 0..(t - 1)
    BY DEF Played
  <2>. QED
    BY <2>1, <2>2, <1>5, FS_Subset
<1>7. ASSUME NEW j \in DOMAIN scenario, NEW u \in scenario[j].lo..scenario[j].hi, u < t,
             \A x \in before : x <= u
      PROVE  LastVerdict(judge, scenario, t) = VerdictIn(judge, scenario, j)
  <2>1. u \in Int /\ 0 <= u /\ j # 0
    BY DEF Replayable
  <2>2. PhaseFor(scenario, u) = j
    BY <2>1, PhaseIs
  <2>3. u \in before
    BY <1>1, <1>7, <2>1, <2>2 DEF Played
  <2>4. before # {} /\ Max(before) \in before /\ Max(before) >= u
    BY <1>6, <2>3, MaxIsLargest
  <2>5. Max(before) = u
    BY <1>5, <1>7, <2>1, <2>4
  <2>. QED
    BY <2>2, <2>4, <2>5 DEF LastVerdict, VerdictAt, VerdictIn
<1>8. CASE t # scenario[k].lo
  <2>1. t - 1 \in scenario[k].lo..scenario[k].hi /\ t - 1 < t
    BY <1>1, <1>8
  <2>2. \A x \in before : x <= t - 1
    BY <1>1, <1>5
  <2>. QED
    BY <1>3, <1>4, <1>7, <1>8, <2>1, <2>2
<1>9. CASE t = scenario[k].lo /\ k = 1
  <2>1. before = {}
    <3>1. ASSUME NEW u \in before PROVE FALSE
      <4>1. PICK j \in DOMAIN scenario : u \in scenario[j].lo..scenario[j].hi
        BY <1>5, PhaseIs
      <4>2. scenario[j].lo \in Nat /\ u \in Nat /\ u < t /\ scenario[j].lo <= u
        BY <1>5, <4>1 DEF Replayable
      <4>3. j = 1 \/ 1 < j
        BY DEF Replayable
      <4>4. 1 < j => scenario[1].hi < scenario[j].lo
        BY <1>9 DEF Replayable
      <4>. QED
        BY <1>1, <1>9, <4>2, <4>3, <4>4
    <3>. QED
      BY <3>1
  <2>. QED
    BY <1>3, <1>4, <1>9, <2>1 DEF LastVerdict, VerdictBefore
<1>10. CASE t = scenario[k].lo /\ k # 1
  <2>1. PICK j : j = k - 1
    OBVIOUS
  <2>2. j \in DOMAIN scenario /\ j < k
    BY <1>10, <2>1 DEF Replayable
  <2>3. scenario[j].hi \in scenario[j].lo..scenario[j].hi /\ scenario[j].hi < t
    BY <1>10, <2>2 DEF Replayable
  <2>4. ASSUME NEW x \in before PROVE x <= scenario[j].hi
    <3>1. PICK m \in DOMAIN scenario : x \in scenario[m].lo..scenario[m].hi
      BY <1>5, PhaseIs
    <3>2. m < k
      BY <1>1, <1>5, <1>10, <3>1 DEF Replayable
    <3>3. /\ m \in Int /\ k \in Int /\ scenario[m].hi \in Nat /\ scenario[j].hi \in Nat
          /\ scenario[j].lo \in Nat /\ scenario[j].lo <= scenario[j].hi
      BY <2>2 DEF Replayable
    <3>4. CASE m = j
      BY <1>5, <3>1, <3>3, <3>4
    <3>5. CASE m < j
      <4>1. scenario[m].hi < scenario[j].lo
        BY <2>2, <3>5 DEF Replayable
      <4>. QED
        BY <1>5, <3>1, <3>3, <4>1
    <3>. QED
      BY <2>1, <3>2, <3>3, <3>4, <3>5
  <2>5. LastVerdict(judge, scenario, t) = VerdictIn(judge, scenario, j)
    BY <1>7, <2>2, <2>3, <2>4
  <2>6. VerdictBefore(judge, scenario, k) = VerdictIn(judge, scenario, j)
    BY <1>10, <2>1 DEF VerdictBefore, VerdictIn
  <2>. QED
    BY <1>3, <1>4, <1>10, <2>5, <2>6
<1>. QED
  BY <1>8, <1>9, <1>10

\* The edge on the first tick of a phase.
EdgeOf(judge, scenario, k) ==
  [tick |-> scenario[k].lo, verdict |-> VerdictIn(judge, scenario, k)]

\* The edges are on the first total of phases.
LEMMA EdgesAre ==
  ASSUME NEW judge, NEW scenario, NEW total, Replayable(judge, scenario, total)
  PROVE  /\ \A e \in Replay(judge, scenario, total) :
              \E k \in DOMAIN scenario :
                /\ e = EdgeOf(judge, scenario, k)
                /\ VerdictIn(judge, scenario, k) # VerdictBefore(judge, scenario, k)
         /\ \A k \in DOMAIN scenario :
              VerdictIn(judge, scenario, k) # VerdictBefore(judge, scenario, k)
              => EdgeOf(judge, scenario, k) \in Replay(judge, scenario, total)
<1>1. ASSUME NEW e \in Replay(judge, scenario, total)
      PROVE  \E k \in DOMAIN scenario :
               /\ e = EdgeOf(judge, scenario, k)
               /\ VerdictIn(judge, scenario, k) # VerdictBefore(judge, scenario, k)
  <2>1. PICK t \in Played(scenario, total) :
          /\ e = [tick |-> t, verdict |-> VerdictAt(judge, scenario, t)]
          /\ VerdictAt(judge, scenario, t) # LastVerdict(judge, scenario, t)
    BY DEF Replay
  <2>2. t \in Int /\ PhaseFor(scenario, t) # 0
    BY DEF Played, Replayable
  <2>3. PICK k \in DOMAIN scenario : t \in scenario[k].lo..scenario[k].hi
    BY <2>2, PhaseIs
  <2>4. /\ VerdictAt(judge, scenario, t) = VerdictIn(judge, scenario, k)
        /\ LastVerdict(judge, scenario, t) =
             IF t = scenario[k].lo THEN VerdictBefore(judge, scenario, k)
             ELSE VerdictIn(judge, scenario, k)
    BY <2>3, LastIs
  <2>. QED
    BY <2>1, <2>4 DEF EdgeOf
<1>2. ASSUME NEW k \in DOMAIN scenario,
             VerdictIn(judge, scenario, k) # VerdictBefore(judge, scenario, k)
      PROVE  EdgeOf(judge, scenario, k) \in Replay(judge, scenario, total)
  <2>1. PICK t : t = scenario[k].lo
    OBVIOUS
  <2>2. t \in scenario[k].lo..scenario[k].hi
    BY <2>1 DEF Replayable
  <2>3. /\ t \in Played(scenario, total)
        /\ VerdictAt(judge, scenario, t) = VerdictIn(judge, scenario, k)
        /\ LastVerdict(judge, scenario, t) = VerdictBefore(judge, scenario, k)
    BY <2>1, <2>2, LastIs
  <2>4. t \in {u \in Played(scenario, total) :
                VerdictAt(judge, scenario, u) # LastVerdict(judge, scenario, u)}
    BY <1>2, <2>3
  <2>5. EdgeOf(judge, scenario, k) = [tick |-> t, verdict |-> VerdictAt(judge, scenario, t)]
    BY <2>1, <2>3 DEF EdgeOf
  <2>. QED
    BY <2>4, <2>5 DEF Replay
<1>. QED
  BY <1>1, <1>2

------------------------------------------------------------------------------
\* The alarm that a phase raises is the only one between its total.
LEMMA AlarmsOfPhase ==
  ASSUME NEW judge, NEW scenario, NEW total, Replayable(judge, scenario, total),
         NEW k \in DOMAIN scenario
  PROVE  Alarms(Replay(judge, scenario, total), scenario[k].lo, scenario[k].hi) =
           IF RaisesIn(judge, scenario, k) THEN {EdgeOf(judge, scenario, k)} ELSE {}
<1>. DEFINE edges == Replay(judge, scenario, total)
            A == Alarms(edges, scenario[k].lo, scenario[k].hi)
<1>1. ASSUME NEW e \in A
      PROVE  RaisesIn(judge, scenario, k) /\ e = EdgeOf(judge, scenario, k)
  <2>1. e \in edges /\ e.tick \in scenario[k].lo..scenario[k].hi /\ e.verdict # Calm
    BY DEF Alarms
  <2>2. PICK j \in DOMAIN scenario :
          /\ e = EdgeOf(judge, scenario, j)
          /\ VerdictIn(judge, scenario, j) # VerdictBefore(judge, scenario, j)
    BY <2>1, EdgesAre
  <2>3. e.tick = scenario[j].lo /\ e.verdict = VerdictIn(judge, scenario, j)
    BY <2>2 DEF EdgeOf
  <2>4. ~ (j < k) /\ ~ (k < j)
    BY <2>1, <2>3 DEF Replayable
  <2>5. j = k
    BY <2>4 DEF Replayable
  <2>. QED
    BY <2>1, <2>2, <2>3, <2>5 DEF RaisesIn
<1>2. ASSUME RaisesIn(judge, scenario, k) PROVE EdgeOf(judge, scenario, k) \in A
  <2>1. EdgeOf(judge, scenario, k) \in edges
    BY <1>2, EdgesAre DEF RaisesIn
  <2>2. /\ EdgeOf(judge, scenario, k).tick = scenario[k].lo
        /\ EdgeOf(judge, scenario, k).verdict # Calm
    BY <1>2 DEF EdgeOf, RaisesIn
  <2>3. scenario[k].lo \in scenario[k].lo..scenario[k].hi
    BY DEF Replayable
  <2>. QED
    BY <2>1, <2>2, <2>3 DEF Alarms
<1>. HIDE DEF A
<1>3. A = IF RaisesIn(judge, scenario, k) THEN {EdgeOf(judge, scenario, k)} ELSE {}
  BY <1>1, <1>2
<1>. QED
  BY <1>3 DEF A

\* A calm phase costs nothing, or one wrong alarm.
LEMMA FalseAlarmsAre ==
  ASSUME NEW judge, NEW scenario, NEW total, Replayable(judge, scenario, total)
  PROVE  /\ FalseAlarms(Replay(judge, scenario, total), scenario) \in Nat
         /\ FalseAlarms(Replay(judge, scenario, total), scenario) > 0 <=>
              \E k \in DOMAIN scenario :
                scenario[k].truth = <<>> /\ RaisesIn(judge, scenario, k)
<1>. DEFINE edges == Replay(judge, scenario, total)
            f == [k \in DOMAIN scenario |->
                    IF scenario[k].truth = <<>>
                    THEN Cardinality(Alarms(edges, scenario[k].lo, scenario[k].hi)) ELSE 0]
            raised(k) == scenario[k].truth = <<>> /\ RaisesIn(judge, scenario, k)
<1>1. FalseAlarms(edges, scenario) = SumOf(f, DOMAIN scenario)
  BY DEF FalseAlarms, SumOf
<1>2. ASSUME NEW k \in DOMAIN scenario PROVE f[k] = IF raised(k) THEN 1 ELSE 0
  <2>1. Cardinality({EdgeOf(judge, scenario, k)}) = 1
    BY FS_Singleton
  <2>2. Cardinality({}) = 0
    BY FS_EmptySet
  <2>3. Alarms(edges, scenario[k].lo, scenario[k].hi) =
           IF RaisesIn(judge, scenario, k) THEN {EdgeOf(judge, scenario, k)} ELSE {}
    BY AlarmsOfPhase
  <2>. QED
    BY <2>1, <2>2, <2>3
<1>3. IsFiniteSet(DOMAIN scenario)
  BY FS_Interval DEF Replayable
<1>. HIDE DEF f
<1>4. \A k \in DOMAIN scenario : f[k] \in Nat
  BY <1>2
<1>5. /\ SumOf(f, DOMAIN scenario) \in Nat
      /\ SumOf(f, DOMAIN scenario) = 0 <=> \A k \in DOMAIN scenario : f[k] = 0
  BY <1>3, <1>4, SumOfNaturals
<1>. QED
  BY <1>1, <1>2, <1>5


\* A phase costs nothing exactly when it raises the right alarm; else it costs no
\* more than a miss, or the time there is.
LEMMA CostIs ==
  ASSUME NEW judge, NEW scenario, NEW total, Replayable(judge, scenario, total),
         NEW k \in DOMAIN scenario, scenario[k].truth # <<>>
  PROVE  LET c == Cost(Replay(judge, scenario, total), scenario[k])
         IN /\ c \in Nat /\ c <= MissCap + total
            /\ c = 0 <=> /\ RaisesIn(judge, scenario, k)
                         /\ VerdictIn(judge, scenario, k) = scenario[k].truth
<1>. DEFINE ph == scenario[k]
            A == InTime(Replay(judge, scenario, total), ph)
            M == {-1} \union {Matches(e.verdict, ph.truth) : e \in A}
            hits == {e.tick : e \in {f \in A : Matches(f.verdict, ph.truth) = 2}}
            right == RaisesIn(judge, scenario, k) /\ VerdictIn(judge, scenario, k) = ph.truth
            c == Cost(Replay(judge, scenario, total), ph)
<1>1. c = CASE Max(M) = 2 -> Min(hits) - ph.lo
            [] Max(M) = 1 -> HalfMiss
            [] Max(M) = 0 -> NearMiss
            [] OTHER -> MissCap
  BY Zenon DEF Cost
<1>2. /\ ph.lo \in Nat /\ ph.lo < total /\ total \in Nat /\ Deadline(ph) \in Nat
      /\ IsPair(ph.truth)
  BY DEF Replayable
<1>3. \A e \in A : /\ e \in Replay(judge, scenario, total)
                   /\ e.tick \in ph.lo..(ph.lo + Deadline(ph)) /\ e.verdict # Calm
  BY DEF InTime, Alarms
<1>4. ASSUME NEW e \in A
      PROVE  \E j \in DOMAIN scenario :
               /\ e = EdgeOf(judge, scenario, j) /\ RaisesIn(judge, scenario, j)
               /\ e.tick = scenario[j].lo /\ e.tick \in Nat /\ e.tick < total /\ ph.lo <= e.tick
               /\ e.verdict = VerdictIn(judge, scenario, j) /\ IsPair(e.verdict)
  <2>1. PICK j \in DOMAIN scenario :
          /\ e = EdgeOf(judge, scenario, j)
          /\ VerdictIn(judge, scenario, j) # VerdictBefore(judge, scenario, j)
    BY <1>3, EdgesAre
  <2>2. e.tick = scenario[j].lo /\ e.verdict = VerdictIn(judge, scenario, j)
    BY <2>1 DEF EdgeOf
  <2>3. /\ scenario[j].lo \in Nat /\ scenario[j].hi \in Nat /\ scenario[j].hi < total
        /\ scenario[j].lo <= scenario[j].hi /\ IsPair(VerdictIn(judge, scenario, j))
    BY DEF Replayable
  <2>4. scenario[j].lo < total /\ ph.lo <= e.tick
    BY <1>2, <1>3, <2>2, <2>3
  <2>5. RaisesIn(judge, scenario, j)
    BY <1>3, <2>1, <2>2 DEF RaisesIn
  <2>. QED
    BY <2>1, <2>2, <2>3, <2>4, <2>5
<1>5. \A v : Matches(v, ph.truth) \in 0..2
  BY DEF Matches
<1>6. \A v : IsPair(v) => (Matches(v, ph.truth) = 2 <=> v = ph.truth)
  BY <1>2 DEF Matches, IsPair
<1>7. IsFiniteSet(M) /\ M \subseteq (-1)..2 /\ -1 \in M
  <2>1. M \subseteq (-1)..2
    BY <1>5
  <2>2. IsFiniteSet((-1)..2)
    <3>1. PICK a \in Int : a = -1
      OBVIOUS
    <3>2. IsFiniteSet(a..2)
      BY FS_Interval
    <3>. QED
      BY <3>1, <3>2
  <2>. QED
    BY <2>1, <2>2, FS_Subset
<1>8. \A t \in hits : \E e \in A : t = e.tick /\ Matches(e.verdict, ph.truth) = 2
  OBVIOUS
<1>9. \A e \in A : Matches(e.verdict, ph.truth) = 2 => e.tick \in hits
  OBVIOUS
<1>10. \A e \in A : Matches(e.verdict, ph.truth) \in M
  OBVIOUS
<1>11. \A m \in M : m = -1 \/ \E e \in A : m = Matches(e.verdict, ph.truth)
  OBVIOUS
<1>12. right => EdgeOf(judge, scenario, k) \in A
  <2>1. ASSUME right PROVE EdgeOf(judge, scenario, k) \in A
    <3>1. EdgeOf(judge, scenario, k) \in Replay(judge, scenario, total)
      BY <2>1, EdgesAre DEF RaisesIn
    <3>2. /\ EdgeOf(judge, scenario, k).tick = ph.lo
          /\ EdgeOf(judge, scenario, k).verdict # Calm
      BY <2>1 DEF EdgeOf, RaisesIn
    <3>3. ph.lo \in ph.lo..(ph.lo + Deadline(ph))
      BY <1>2
    <3>. QED
      BY <3>1, <3>2, <3>3 DEF InTime, Alarms
  <2>. QED
    BY <2>1
<1>13. EdgeOf(judge, scenario, k).tick = ph.lo
       /\ EdgeOf(judge, scenario, k).verdict = VerdictIn(judge, scenario, k)
  BY DEF EdgeOf
<1>14. \A j \in DOMAIN scenario : scenario[j].lo = ph.lo => j = k
  <2>1. ASSUME NEW j \in DOMAIN scenario, scenario[j].lo = ph.lo PROVE j = k
    <3>1. ~ (j < k) /\ ~ (k < j)
      BY <2>1 DEF Replayable
    <3>. QED
      BY <3>1 DEF Replayable
  <2>. QED
    BY <2>1
<1>. HIDE DEF A, M, hits, c, right
<1>15. Max(M) \in M /\ Max(M) \in (-1)..2 /\ \A m \in M : m <= Max(M)
  <2>1. M # {} /\ M \subseteq Int
    BY <1>7
  <2>2. Max(M) \in M /\ \A m \in M : Max(M) >= m
    BY <1>7, <2>1, MaxIsLargest
  <2>. QED
    BY <1>7, <2>2
<1>16. CASE Max(M) = 2
  <2>1. hits # {}
    BY <1>9, <1>11, <1>15, <1>16
  <2>2. PICK lo \in Nat : lo = ph.lo
    BY <1>2
  <2>10. total \in Nat /\ hits \subseteq lo..total
    <3>1. ASSUME NEW t \in hits PROVE t \in lo..total
      <4>1. PICK e \in A : t = e.tick
        BY <1>8
      <4>2. e.tick \in Nat /\ e.tick < total /\ lo <= e.tick
        BY <1>4, <2>2
      <4>. QED
        BY <1>2, <4>1, <4>2
    <3>. QED
      BY <1>2, <3>1
  <2>3. IsFiniteSet(hits) /\ hits \subseteq Int
    <3>1. IsFiniteSet(lo..total)
      BY <2>10, FS_Interval
    <3>. QED
      BY <2>10, <3>1, FS_Subset
  <2>4. Min(hits) \in hits /\ \A t \in hits : Min(hits) <= t
    BY <2>1, <2>3, MinIsSmallest
  <2>5. Min(hits) \in Int /\ ph.lo <= Min(hits) /\ Min(hits) <= total
    <3>1. PICK m : m = Min(hits)
      OBVIOUS
    <3>2. m \in lo..total
      BY <2>4, <2>10, <3>1
    <3>. QED
      BY <2>2, <2>10, <3>1, <3>2
  <2>6. c = Min(hits) - ph.lo
    BY <1>1, <1>16
  <2>7. c \in Nat /\ c <= MissCap + total
    BY <1>2, <2>5, <2>6 DEF MissCap
  <2>8. ASSUME c = 0 PROVE right
    <3>1. Min(hits) = ph.lo
      BY <1>2, <2>5, <2>6, <2>8
    <3>2. PICK e \in A : ph.lo = e.tick /\ Matches(e.verdict, ph.truth) = 2
      BY <1>8, <2>4, <3>1
    <3>3. PICK j \in DOMAIN scenario :
               /\ RaisesIn(judge, scenario, j) /\ e.tick = scenario[j].lo
               /\ e.verdict = VerdictIn(judge, scenario, j) /\ IsPair(e.verdict)
      BY <1>4
    <3>4. j = k
      BY <1>14, <3>2, <3>3
    <3>. QED
      BY <1>6, <3>2, <3>3, <3>4 DEF right
  <2>9. ASSUME right PROVE c = 0
    <3>1. IsPair(VerdictIn(judge, scenario, k))
      BY DEF Replayable
    <3>2. Matches(VerdictIn(judge, scenario, k), ph.truth) = 2
      BY <1>6, <2>9, <3>1 DEF right
    <3>3. ph.lo \in hits
      BY <1>9, <1>12, <1>13, <2>9, <3>2
    <3>. QED
      BY <1>2, <2>4, <2>5, <2>6, <3>3
  <2>. QED
    BY <2>7, <2>8, <2>9 DEF right, c
<1>17. CASE Max(M) # 2
  <2>1. c \in {HalfMiss, NearMiss, MissCap}
    BY <1>1, <1>17
  <2>2. c \in Nat /\ c <= MissCap + total /\ c # 0
    BY <1>2, <2>1 DEF HalfMiss, NearMiss, MissCap
  <2>3. ~ right
    <3>1. ASSUME right PROVE FALSE
      <4>1. IsPair(VerdictIn(judge, scenario, k))
        BY DEF Replayable
      <4>2. Matches(VerdictIn(judge, scenario, k), ph.truth) = 2
        BY <1>6, <3>1, <4>1 DEF right
      <4>3. 2 \in M
        BY <1>10, <1>12, <1>13, <3>1, <4>2
      <4>. QED
        BY <1>15, <1>17, <4>3
    <3>. QED
      BY <3>1
  <2>. QED
    BY <2>2, <2>3 DEF right, c
<1>. QED
  BY <1>16, <1>17

\* What fitness.py's score means, for every genome's verdicts and every scenario: it
\* is 0 exactly for a genome that raises in each labelled phase, with the right
\* alarm, and in no calm one, and it is the sentinel exactly for a genome that raises
\* in a calm phase.  A scenario whose misses and delays together reach a billion
\* ticks could cost as much as the sentinel; every shorter one cannot.
THEOREM ScoresAreEarned ==
  ASSUME NEW judge, NEW scenario, NEW total, Replayable(judge, scenario, total),
         Len(scenario) * (MissCap + total) < -Infeasible
  PROVE  Earned(judge, scenario, total)
<1>. DEFINE D == DOMAIN scenario
            edges == Replay(judge, scenario, total)
            s == Score(judge, scenario, total)
            wrong == FalseAlarms(edges, scenario)
            f == [k \in D |-> IF scenario[k].truth = <<>> THEN 0 ELSE Cost(edges, scenario[k])]
            calm == {k \in D : scenario[k].truth = <<>>}
            raises == {k \in D : RaisesIn(judge, scenario, k)}
            right(k) == /\ RaisesIn(judge, scenario, k)
                        /\ VerdictIn(judge, scenario, k) = scenario[k].truth
<1>1. s = IF wrong > 0 THEN Infeasible ELSE -SumOf(f, D)
  BY DEF Score, SumOf
<1>2. wrong \in Nat /\ (wrong > 0 <=> calm \intersect raises # {})
  <2>1. /\ wrong \in Nat
        /\ wrong > 0 <=> \E k \in D : scenario[k].truth = <<>> /\ RaisesIn(judge, scenario, k)
    BY FalseAlarmsAre
  <2>2. calm \intersect raises # {}
          <=> \E k \in D : scenario[k].truth = <<>> /\ RaisesIn(judge, scenario, k)
    OBVIOUS
  <2>. QED
    BY <2>1, <2>2
<1>3. ASSUME NEW k \in D
      PROVE  /\ f[k] \in Nat /\ f[k] <= MissCap + total
             /\ f[k] = 0 <=> k \in calm \/ right(k)
  <2>1. total \in Nat
    BY DEF Replayable
  <2>2. CASE scenario[k].truth = <<>>
    BY <2>1, <2>2 DEF MissCap
  <2>3. CASE scenario[k].truth # <<>>
    <3>1. PICK c : c = Cost(edges, scenario[k])
      OBVIOUS
    <3>2. c \in Nat /\ c <= MissCap + total /\ (c = 0 <=> right(k))
      BY <2>3, <3>1, CostIs
    <3>. QED
      BY <2>3, <3>1, <3>2
  <2>. QED
    BY <2>2, <2>3
<1>4. IsFiniteSet(D) /\ Cardinality(D) = Len(scenario) /\ Len(scenario) \in Nat /\ total \in Nat
  <2>1. PICK n \in Nat : n = Len(scenario) /\ D = 1..n
    BY DEF Replayable
  <2>2. IsFiniteSet(1..n) /\ Cardinality(1..n) = IF 1 > n THEN 0 ELSE n - 1 + 1
    BY FS_Interval
  <2>3. total \in Nat
    BY DEF Replayable
  <2>. QED
    BY <2>1, <2>2, <2>3
<1>. HIDE DEF f
<1>5. /\ SumOf(f, D) \in Nat
      /\ SumOf(f, D) = 0 <=> \A k \in D : f[k] = 0
  BY <1>3, <1>4, SumOfNaturals
<1>6. SumOf(f, D) < -Infeasible
  <2>1. SumOf(f, D) <= (MissCap + total) * Cardinality(D)
    <3>1. MissCap + total \in Nat
      BY <1>4 DEF MissCap
    <3>2. \A k \in D : f[k] \in Int /\ f[k] <= MissCap + total
      BY <1>3
    <3>. QED
      BY <1>4, <3>1, <3>2, SumBounded
  <2>2. PICK C \in Nat : C = MissCap + total
    BY <1>4 DEF MissCap
  <2>3. PICK n \in Nat : n = Len(scenario)
    BY <1>4
  <2>4. n * C = C * n /\ n * C \in Nat
    BY <2>2, <2>3
  <2>5. Infeasible \in Int
    BY SMT DEF Infeasible
  <2>. QED
    BY <1>4, <1>5, <2>1, <2>2, <2>3, <2>4, <2>5
<1>10. Infeasible \in Int /\ Infeasible < 0
  BY SMT DEF Infeasible
<1>7. s = Infeasible <=> calm \intersect raises # {}
  BY <1>1, <1>2, <1>5, <1>6, <1>10
<1>8. s = 0 <=> ~ (wrong > 0) /\ \A k \in D : k \in calm \/ right(k)
  BY <1>1, <1>2, <1>3, <1>5, <1>6, <1>10
<1>9. ~ (wrong > 0) /\ (\A k \in D : k \in calm \/ right(k))
        <=> /\ raises = D \ calm
            /\ \A k \in raises : VerdictIn(judge, scenario, k) = scenario[k].truth
  <2>. HIDE DEF s, wrong
  <2>1. \A k \in D : right(k) => k \in raises
    OBVIOUS
  <2>. QED
    BY <1>2, <2>1
<1>. QED
  BY <1>7, <1>8, <1>9 DEF Earned
------------------------------------------------------------------------------
(***************************************************************************)
(* The run of the sequential parts: the scenarios and the hosts it has are  *)
(* among those that the theorems above are about.                          *)
(***************************************************************************)

\* The phases that a scenario is made from, each at most M ticks after the one before.
PhaseList(phases, M) ==
  /\ M \in Nat /\ Len(phases) \in Nat \ {0} /\ DOMAIN phases = 1..Len(phases)
  /\ \A k \in DOMAIN phases :
       /\ phases[k].gap \in Nat /\ phases[k].length \in Nat \ {0}
       /\ phases[k].gap + phases[k].length <= M
       /\ phases[k].truth = <<>> \/ IsPair(phases[k].truth)
       /\ phases[k].deadline = <<>> \/ phases[k].deadline[1] \in Nat

\* Where each phase starts, without its gap.
Starts(from, phases) ==
  from = [k \in 1..(Len(phases) + 1) |->
            IF k = 1 THEN 0 ELSE from[k - 1] + phases[k - 1].gap + phases[k - 1].length]

LEMMA StartsExist ==
  ASSUME NEW phases, NEW M, PhaseList(phases, M)
  PROVE  \E from : Starts(from, phases)
<1>. DEFINE n == Len(phases)
            P == {m \in Nat : m <= n =>
                    \E f \in [1..(m + 1) -> Nat] :
                      /\ f[1] = 0
                      /\ \A k \in 2..(m + 1) :
                           f[k] = f[k - 1] + phases[k - 1].gap + phases[k - 1].length}
<1>1. n \in Nat /\ \A k \in 1..n : phases[k].gap \in Nat /\ phases[k].length \in Nat
  BY DEF PhaseList
<1>2. 0 \in P
  <2>. DEFINE f == [k \in 1..(0 + 1) |-> 0]
  <2>1. f \in [1..(0 + 1) -> Nat] /\ f[1] = 0
    OBVIOUS
  <2>2. \A k \in 2..(0 + 1) : f[k] = f[k - 1] + phases[k - 1].gap + phases[k - 1].length
    OBVIOUS
  <2>. HIDE DEF f
  <2>. QED
    BY <2>1, <2>2
<1>3. ASSUME NEW m \in Nat, m \in P PROVE m + 1 \in P
  <2>1. SUFFICES ASSUME m + 1 <= n
                 PROVE  \E f \in [1..(m + 1 + 1) -> Nat] :
                          /\ f[1] = 0
                          /\ \A k \in 2..(m + 1 + 1) :
                               f[k] = f[k - 1] + phases[k - 1].gap + phases[k - 1].length
    OBVIOUS
  <2>2. PICK f \in [1..(m + 1) -> Nat] :
          /\ f[1] = 0
          /\ \A k \in 2..(m + 1) :
               f[k] = f[k - 1] + phases[k - 1].gap + phases[k - 1].length
    BY <1>1, <1>3, <2>1
  <2>3. PICK e : e = f[m + 1] + phases[m + 1].gap + phases[m + 1].length
    OBVIOUS
  <2>4. m + 1 \in 1..n /\ f[m + 1] \in Nat
    BY <1>1, <2>1
  <2>5. e \in Nat
    BY <1>1, <2>3, <2>4
  <2>. DEFINE g == [k \in 1..(m + 1 + 1) |-> IF k = m + 1 + 1 THEN e ELSE f[k]]
  <2>6. g \in [1..(m + 1 + 1) -> Nat] /\ g[1] = 0 /\ g[m + 1 + 1] = e
    BY <2>2, <2>5
  <2>7. ASSUME NEW k \in 2..(m + 1 + 1)
        PROVE  g[k] = g[k - 1] + phases[k - 1].gap + phases[k - 1].length
    <3>1. CASE k = m + 1 + 1
      <4>1. k - 1 = m + 1 /\ g[k - 1] = f[m + 1]
        BY <3>1
      <4>. QED
        BY <2>3, <2>6, <3>1, <4>1
    <3>2. CASE k # m + 1 + 1
      <4>1. k \in 2..(m + 1) /\ g[k] = f[k] /\ g[k - 1] = f[k - 1]
        BY <3>2
      <4>. QED
        BY <2>2, <4>1
    <3>. QED
      BY <3>1, <3>2
  <2>. HIDE DEF g
  <2>. QED
    BY <2>6, <2>7
<1>4. n \in P
  <2>. HIDE DEF P
  <2>1. Nat \subseteq P
    BY <1>2, <1>3, Induction
  <2>. QED
    BY <1>1, <2>1
<1>5. PICK f \in [1..(n + 1) -> Nat] :
        /\ f[1] = 0
        /\ \A k \in 2..(n + 1) : f[k] = f[k - 1] + phases[k - 1].gap + phases[k - 1].length
  BY <1>1, <1>4
<1>6. \A k \in 1..(n + 1) :
        f[k] = IF k = 1 THEN 0 ELSE f[k - 1] + phases[k - 1].gap + phases[k - 1].length
  BY <1>1, <1>5
<1>. QED
  BY <1>6 DEF Starts

\* Each phase starts after the one before has ended.
LEMMA StartsGrow ==
  ASSUME NEW phases, NEW M, PhaseList(phases, M), NEW from, Starts(from, phases)
  PROVE  /\ \A k \in 1..(Len(phases) + 1) : from[k] \in Nat /\ from[k] <= M * (k - 1)
         /\ \A k \in 1..Len(phases) :
              from[k + 1] = from[k] + phases[k].gap + phases[k].length
         /\ \A j, k \in 1..(Len(phases) + 1) : j <= k => from[j] <= from[k]
<1>. DEFINE n == Len(phases)
            P == {m \in Nat : m <= n => from[m + 1] \in Nat /\ from[m + 1] <= M * m}
            Q == {m \in Nat : m <= n => \A j \in 1..(m + 1) : from[j] <= from[m + 1]}
<1>1. /\ n \in Nat /\ M \in Nat
      /\ \A k \in 1..n : /\ phases[k].gap \in Nat /\ phases[k].length \in Nat
                         /\ phases[k].gap + phases[k].length <= M
  BY DEF PhaseList
<1>2. \A k \in 1..(n + 1) :
        from[k] = IF k = 1 THEN 0 ELSE from[k - 1] + phases[k - 1].gap + phases[k - 1].length
  BY DEF Starts
<1>3. from[1] = 0
  BY <1>1, <1>2
<1>4. \A k \in 1..n : from[k + 1] = from[k] + phases[k].gap + phases[k].length
  <2>1. ASSUME NEW k \in 1..n PROVE from[k + 1] = from[k] + phases[k].gap + phases[k].length
    <3>1. k + 1 \in 1..(n + 1) /\ k + 1 # 1 /\ (k + 1) - 1 = k
      BY <1>1
    <3>. QED
      BY <1>2, <3>1
  <2>. QED
    BY <2>1
<1>5. 0 \in P
  <2>1. 0 + 1 = 1 /\ M * 0 = 0
    BY <1>1
  <2>. QED
    BY <1>3, <2>1
<1>6. ASSUME NEW m \in Nat, m \in P PROVE m + 1 \in P
  <2>1. SUFFICES ASSUME m + 1 <= n
                 PROVE  from[m + 1 + 1] \in Nat /\ from[m + 1 + 1] <= M * (m + 1)
    OBVIOUS
  <2>2. m + 1 \in 1..n /\ from[m + 1] \in Nat /\ from[m + 1] <= M * m
    BY <1>1, <1>6, <2>1
  <2>3. PICK a \in Nat, b \in Nat :
          a = phases[m + 1].gap /\ b = phases[m + 1].length /\ a + b <= M
    BY <1>1, <2>2
  <2>4. from[m + 1 + 1] = from[m + 1] + a + b
    BY <1>4, <2>2, <2>3
  <2>5. PICK c \in Nat, d \in Nat : c = M * m /\ d = M * (m + 1) /\ d = c + M
    BY <1>1
  <2>6. from[m + 1] + a + b <= c + M
    <3>1. PICK g \in Nat : g = from[m + 1] /\ g <= c
      BY <2>2, <2>5
    <3>2. M \in Nat
      BY <1>1
    <3>3. PICK e \in Nat : e = a + b /\ e <= M
      BY <2>3
    <3>4. g + e <= c + M
      BY <2>5, <3>1, <3>2, <3>3
    <3>5. g + a + b = g + e
      BY <3>3
    <3>. QED
      BY <3>1, <3>4, <3>5
  <2>7. from[m + 1 + 1] \in Nat /\ from[m + 1 + 1] <= d
    <3>1. PICK g \in Nat : g = from[m + 1]
      BY <2>2
    <3>2. g + a + b <= d
      BY <2>5, <2>6, <3>1
    <3>3. g + a + b \in Nat
      BY <2>3
    <3>. QED
      BY <2>4, <3>1, <3>2, <3>3
  <2>8. m + 1 \in Nat
    OBVIOUS
  <2>. QED
    BY <2>5, <2>7, <2>8
<1>7. Nat \subseteq P
  <2>. HIDE DEF P
  <2>. QED
    BY <1>5, <1>6, Induction
<1>8. \A k \in 1..(n + 1) : from[k] \in Nat /\ from[k] <= M * (k - 1)
  <2>1. ASSUME NEW k \in 1..(n + 1) PROVE from[k] \in Nat /\ from[k] <= M * (k - 1)
    <3>1. PICK m \in Nat : m = k - 1 /\ m <= n /\ m + 1 = k
      BY <1>1
    <3>2. m \in P
      BY <1>7
    <3>. QED
      BY <3>1, <3>2
  <2>. QED
    BY <2>1
<1>9. 0 \in Q
  <2>1. \A j \in 1..(0 + 1) : j = 0 + 1 /\ from[j] \in Nat
    BY <1>1, <1>8
  <2>. QED
    BY <2>1
<1>10. ASSUME NEW m \in Nat, m \in Q PROVE m + 1 \in Q
  <2>1. SUFFICES ASSUME m + 1 <= n, NEW j \in 1..(m + 1 + 1)
                 PROVE  from[j] <= from[m + 1 + 1]
    OBVIOUS
  <2>2. /\ m + 1 \in 1..n /\ m + 1 \in 1..(n + 1) /\ m + 1 + 1 \in 1..(n + 1)
        /\ j \in 1..(n + 1)
    BY <1>1, <2>1
  <2>3. from[m + 1] \in Nat /\ from[m + 1 + 1] \in Nat /\ from[j] \in Nat
    BY <1>8, <2>2
  <2>4. PICK a \in Nat, b \in Nat : a = phases[m + 1].gap /\ b = phases[m + 1].length
    BY <1>1, <2>2
  <2>5. from[m + 1 + 1] = from[m + 1] + a + b
    BY <1>4, <2>2, <2>4
  <2>6. CASE j = m + 1 + 1
    BY <2>3, <2>6
  <2>7. CASE j # m + 1 + 1
    <3>1. j \in 1..(m + 1) /\ m <= n
      BY <1>1, <2>1, <2>7
    <3>2. from[j] <= from[m + 1]
      BY <1>10, <3>1
    <3>. QED
      BY <2>3, <2>5, <3>2
  <2>. QED
    BY <2>6, <2>7
<1>11. Nat \subseteq Q
  <2>. HIDE DEF Q
  <2>. QED
    BY <1>9, <1>10, Induction
<1>12. ASSUME NEW j \in 1..(n + 1), NEW k \in 1..(n + 1), j <= k PROVE from[j] <= from[k]
  <2>1. PICK m \in Nat : m = k - 1 /\ m <= n /\ m + 1 = k /\ j \in 1..(m + 1)
    BY <1>1, <1>12
  <2>2. m \in Q
    BY <1>11
  <2>. QED
    BY <2>1, <2>2
<1>. QED
  BY <1>4, <1>8, <1>12

\* So a scenario built from phases is one the oracle can replay, and is not long.
LEMMA ScenarioIs ==
  ASSUME NEW phases, NEW M, PhaseList(phases, M),
         NEW judge, \A k \in DOMAIN phases : IsPair(judge[phases[k].frame])
  PROVE  /\ DOMAIN Scenario(phases) = DOMAIN phases /\ Len(Scenario(phases)) = Len(phases)
         /\ \A k \in DOMAIN phases :
              /\ Scenario(phases)[k].frame = phases[k].frame
              /\ Scenario(phases)[k].truth = phases[k].truth
         /\ Replayable(judge, Scenario(phases), Ticks(Scenario(phases)))
         /\ Ticks(Scenario(phases)) <= M * Len(phases)
<1>. DEFINE n == Len(phases)
            s == Scenario(phases)
<1>1. /\ n \in Nat \ {0} /\ M \in Nat /\ DOMAIN phases = 1..n
      /\ \A k \in 1..n : /\ phases[k].gap \in Nat /\ phases[k].length \in Nat \ {0}
                         /\ phases[k].gap + phases[k].length <= M
                         /\ phases[k].truth = <<>> \/ IsPair(phases[k].truth)
                         /\ phases[k].deadline = <<>> \/ phases[k].deadline[1] \in Nat
  BY DEF PhaseList
<1>2. PICK from :
        /\ Starts(from, phases)
        /\ s = [k \in DOMAIN phases |->
                  [lo |-> from[k] + phases[k].gap,
                   hi |-> from[k] + phases[k].gap + phases[k].length - 1,
                   frame |-> phases[k].frame, truth |-> phases[k].truth,
                   deadline |-> phases[k].deadline]]
  <2>. DEFINE f == CHOOSE f : Starts(f, phases)
  <2>1. s = [k \in DOMAIN phases |->
               [lo |-> f[k] + phases[k].gap,
                hi |-> f[k] + phases[k].gap + phases[k].length - 1,
                frame |-> phases[k].frame, truth |-> phases[k].truth,
                deadline |-> phases[k].deadline]]
    BY Zenon DEF Scenario, Starts
  <2>2. Starts(f, phases)
    BY StartsExist
  <2>. HIDE DEF f
  <2>. QED
    BY <2>1, <2>2
<1>3. /\ \A k \in 1..(n + 1) : from[k] \in Nat /\ from[k] <= M * (k - 1)
      /\ \A k \in 1..n : from[k + 1] = from[k] + phases[k].gap + phases[k].length
      /\ \A j, k \in 1..(n + 1) : j <= k => from[j] <= from[k]
  BY <1>2, StartsGrow
<1>4. DOMAIN s = 1..n /\ Len(s) = n
  <2>. DEFINE R == {s[k] : k \in 1..n}
  <2>1. s \in [1..n -> R]
    BY <1>1, <1>2
  <2>. HIDE DEF s, R
  <2>2. s \in Seq(R)
    BY <1>1, <2>1
  <2>. QED
    BY <1>1, <2>1, <2>2
<1>5. ASSUME NEW k \in 1..n
      PROVE  /\ s[k].lo = from[k] + phases[k].gap
             /\ s[k].hi = from[k + 1] - 1
             /\ s[k].frame = phases[k].frame /\ s[k].truth = phases[k].truth
             /\ s[k].deadline = phases[k].deadline
             /\ s[k].lo \in Nat /\ s[k].hi \in Nat /\ s[k].lo <= s[k].hi
             /\ from[k] <= s[k].lo /\ from[k] \in Nat
             /\ s[k].hi < from[n + 1] /\ Deadline(s[k]) \in Nat
  <2>1. /\ s[k].lo = from[k] + phases[k].gap
        /\ s[k].hi = from[k] + phases[k].gap + phases[k].length - 1
        /\ s[k].frame = phases[k].frame /\ s[k].truth = phases[k].truth
        /\ s[k].deadline = phases[k].deadline
    BY <1>1, <1>2
  <2>. HIDE DEF s
  <2>2. PICK a \in Nat, b \in Nat : a = phases[k].gap /\ b = phases[k].length /\ b >= 1
    BY <1>1
  <2>3. k \in 1..(n + 1) /\ k + 1 \in 1..(n + 1) /\ n + 1 \in 1..(n + 1) /\ k + 1 <= n + 1
    BY <1>1
  <2>4. /\ from[k] \in Nat /\ from[k + 1] \in Nat /\ from[n + 1] \in Nat
        /\ from[k + 1] = from[k] + a + b /\ from[k + 1] <= from[n + 1]
    BY <1>3, <2>2, <2>3
  <2>5. /\ s[k].hi = from[k + 1] - 1 /\ s[k].lo \in Nat /\ s[k].hi \in Nat /\ s[k].lo <= s[k].hi
        /\ from[k] <= s[k].lo /\ s[k].hi < from[n + 1]
    <3>1. PICK f \in Nat, g \in Nat, e \in Nat :
            f = from[k] /\ g = from[k + 1] /\ e = from[n + 1] /\ g = f + a + b /\ g <= e
      BY <2>4
    <3>2. s[k].lo = f + a /\ s[k].hi = f + a + b - 1
      BY <2>1, <2>2, <3>1
    <3>3. /\ f + a \in Nat /\ f + a + b - 1 \in Nat /\ f + a + b - 1 = g - 1
          /\ f + a <= f + a + b - 1 /\ f <= f + a /\ f + a + b - 1 < e
      <4>1. g = f + a + b /\ g <= e /\ b >= 1
        BY <2>2, <3>1
      <4>. QED
        BY <4>1
    <3>. QED
      BY <3>1, <3>2, <3>3
  <2>6. Deadline(s[k]) \in Nat
    BY <1>1, <2>1, <2>5 DEF Deadline
  <2>. QED
    BY <2>1, <2>4, <2>5, <2>6
<1>. HIDE DEF s
<1>6. Ticks(s) = from[n + 1] /\ Ticks(s) \in Nat /\ Ticks(s) <= M * n
  <2>1. n \in 1..n /\ n + 1 \in 1..(n + 1) /\ n + 1 - 1 = n
    BY <1>1
  <2>2. s[n].hi = from[n + 1] - 1 /\ s[n].hi \in Nat
    BY <1>5, <2>1
  <2>3. from[n + 1] \in Nat /\ from[n + 1] <= M * n
    BY <1>3, <2>1
  <2>. QED
    BY <1>4, <2>2, <2>3 DEF Ticks, Last
<1>7. ASSUME NEW j \in 1..n, NEW k \in 1..n, j < k PROVE s[j].hi < s[k].lo
  <2>1. j + 1 <= k /\ j + 1 \in 1..(n + 1) /\ k \in 1..(n + 1)
    BY <1>1, <1>7
  <2>2. from[j + 1] <= from[k] /\ from[j + 1] \in Nat /\ from[k] \in Nat
    BY <1>3, <2>1
  <2>3. s[j].hi = from[j + 1] - 1 /\ from[k] <= s[k].lo /\ s[k].lo \in Nat
    BY <1>5
  <2>. QED
    BY <2>2, <2>3
<1>8. \A k \in 1..n : IsPair(VerdictIn(judge, s, k))
  BY <1>1, <1>5 DEF VerdictIn
<1>9. Replayable(judge, s, Ticks(s))
  <2>1. Len(s) \in Nat /\ DOMAIN s = 1..Len(s)
    BY <1>1, <1>4
  <2>2. \A k \in 1..n : /\ s[k].lo \in Nat /\ s[k].hi \in Nat
                        /\ s[k].lo <= s[k].hi /\ s[k].hi < Ticks(s)
                        /\ s[k].truth = <<>> \/ IsPair(s[k].truth)
                        /\ Deadline(s[k]) \in Nat
    BY <1>1, <1>5, <1>6
  <2>. QED
    BY <1>4, <1>6, <1>7, <1>8, <2>1, <2>2 DEF Replayable
<1>. QED
  BY <1>1, <1>4, <1>5, <1>6, <1>9 DEF s

\* No scenario of ten short phases is near the sentinel.
LEMMA ShortIsEarned ==
  ASSUME NEW phases, NEW M, PhaseList(phases, M), M <= 1000, Len(phases) <= 10,
         NEW judge, \A k \in DOMAIN phases : IsPair(judge[phases[k].frame])
  PROVE  Earned(judge, Scenario(phases), Ticks(Scenario(phases)))
<1>1. PICK n \in Nat, t \in Nat :
        /\ n = Len(Scenario(phases)) /\ t = Ticks(Scenario(phases)) /\ n <= 10 /\ t <= M * n
        /\ Replayable(judge, Scenario(phases), Ticks(Scenario(phases)))
  <2>1. Len(phases) \in Nat
    BY DEF PhaseList
  <2>2. Ticks(Scenario(phases)) \in Nat
    BY ScenarioIs DEF Replayable
  <2>. QED
    BY <2>1, <2>2, ScenarioIs
<1>2. M \in Nat
  BY DEF PhaseList
<1>3. t <= 10000
  <2>1. \A a, b \in Nat : a <= 1000 /\ b <= 10 => a * b <= 10000
    BY SMT
  <2>. QED
    BY <1>1, <1>2, <2>1
<1>4. n * (MissCap + t) < -Infeasible
  <2>1. \A a, b \in Nat : a <= 10 /\ b <= 11000 => a * b <= 110000
    BY SMT
  <2>2. MissCap + t \in Nat /\ MissCap + t <= 11000
    BY <1>3, SMT DEF MissCap
  <2>3. n * (MissCap + t) <= 110000 /\ n * (MissCap + t) \in Int
    BY <1>1, <2>1, <2>2
  <2>. QED
    BY <2>3, SMT DEF Infeasible
<1>. QED
  BY <1>1, <1>4, ScoresAreEarned

\* What the phases of the corpus are: readings that the rules make the label of.
CorpusPhase(ph) ==
  /\ ph[1] \in Nat /\ ph[2] \in Nat /\ ph[4] \in {0, 1} /\ ph[5] \in 1..200
  /\ \/ ph[6] = <<>> /\ ph[2] <= 5 /\ ph[1] <= 10 /\ ph[4] = 1
     \/ ph[6] = <<"CRITICAL", "MEM_PSI_CRIT">> /\ ph[2] > 5
     \/ ph[6] = NoswapCrit /\ ph[2] <= 5 /\ ph[1] > 10 /\ ph[4] = 0
     \/ ph[6] = <<"WARN", "MEM_PSI_WARN">> /\ ph[2] <= 5 /\ ph[1] > 10 /\ ph[4] = 1
     \/ ph[6] = Noswap /\ ph[2] <= 5 /\ ph[1] <= 10 /\ ph[4] = 0

LEMMA CorpusIs ==
  ASSUME NEW c \in Corpus
  PROVE  /\ Len(c) \in {1, 2} /\ DOMAIN c = 1..Len(c)
         /\ \A k \in DOMAIN c : CorpusPhase(c[k])
         /\ Len(c) = 2 => c[1][6] # c[2][6]
<1>. DEFINE Good(d) == /\ Len(d) \in {1, 2} /\ DOMAIN d = 1..Len(d)
                       /\ \A k \in DOMAIN d : CorpusPhase(d[k])
                       /\ Len(d) = 2 => d[1][6] # d[2][6]
<1>1. ASSUME NEW p, CorpusPhase(p) PROVE Good(<<p>>)
  BY <1>1
<1>2. ASSUME NEW p, NEW q, CorpusPhase(p), CorpusPhase(q), p[6] # q[6] PROVE Good(<<p, q>>)
  BY <1>2
<1>. HIDE DEF Good
<1>3. Good(<< <<4, 5, 60, 1, 60, <<>> >>, <<14, 6, 75, 1, 30, <<"CRITICAL", "MEM_PSI_CRIT">> >> >>)
  <2>1. CorpusPhase(<<4, 5, 60, 1, 60, <<>> >>)
    BY DEF CorpusPhase, NoswapCrit, Noswap
  <2>2. CorpusPhase(<<14, 6, 75, 1, 30, <<"CRITICAL", "MEM_PSI_CRIT">> >>)
    BY DEF CorpusPhase, NoswapCrit, Noswap
  <2>3. (<<4, 5, 60, 1, 60, <<>> >>)[6] # (<<14, 6, 75, 1, 30, <<"CRITICAL", "MEM_PSI_CRIT">> >>)[6]
    BY DEF NoswapCrit, Noswap
  <2>. QED
    BY <2>1, <2>2, <2>3, <1>2
<1>4. Good(<< <<10, 0, 50, 0, 80, Noswap>>, <<11, 0, 65, 0, 30, NoswapCrit>> >>)
  <2>1. CorpusPhase(<<10, 0, 50, 0, 80, Noswap>>)
    BY DEF CorpusPhase, NoswapCrit, Noswap
  <2>2. CorpusPhase(<<11, 0, 65, 0, 30, NoswapCrit>>)
    BY DEF CorpusPhase, NoswapCrit, Noswap
  <2>3. (<<10, 0, 50, 0, 80, Noswap>>)[6] # (<<11, 0, 65, 0, 30, NoswapCrit>>)[6]
    BY DEF NoswapCrit, Noswap
  <2>. QED
    BY <2>1, <2>2, <2>3, <1>2
<1>5. Good(<< <<10, 0, 45, 1, 60, <<>> >>, <<11, 0, 55, 1, 20, <<"WARN", "MEM_PSI_WARN">> >> >>)
  <2>1. CorpusPhase(<<10, 0, 45, 1, 60, <<>> >>)
    BY DEF CorpusPhase, NoswapCrit, Noswap
  <2>2. CorpusPhase(<<11, 0, 55, 1, 20, <<"WARN", "MEM_PSI_WARN">> >>)
    BY DEF CorpusPhase, NoswapCrit, Noswap
  <2>3. (<<10, 0, 45, 1, 60, <<>> >>)[6] # (<<11, 0, 55, 1, 20, <<"WARN", "MEM_PSI_WARN">> >>)[6]
    BY DEF NoswapCrit, Noswap
  <2>. QED
    BY <2>1, <2>2, <2>3, <1>2
<1>6. Good(<< <<3, 1, 42, 1, 200, <<>> >> >>)
  <2>1. CorpusPhase(<<3, 1, 42, 1, 200, <<>> >>)
    BY DEF CorpusPhase, NoswapCrit, Noswap
  <2>. QED
    BY <2>1, <1>1
<1>7. Good(<< <<0, 0, 30, 1, 60, <<>> >>, <<12, 0, 50, 1, 20, <<"WARN", "MEM_PSI_WARN">> >> >>)
  <2>1. CorpusPhase(<<0, 0, 30, 1, 60, <<>> >>)
    BY DEF CorpusPhase, NoswapCrit, Noswap
  <2>2. CorpusPhase(<<12, 0, 50, 1, 20, <<"WARN", "MEM_PSI_WARN">> >>)
    BY DEF CorpusPhase, NoswapCrit, Noswap
  <2>3. (<<0, 0, 30, 1, 60, <<>> >>)[6] # (<<12, 0, 50, 1, 20, <<"WARN", "MEM_PSI_WARN">> >>)[6]
    BY DEF NoswapCrit, Noswap
  <2>. QED
    BY <2>1, <2>2, <2>3, <1>2
<1>8. Good(<< <<2, 1, 38, 0, 200, Noswap>> >>)
  <2>1. CorpusPhase(<<2, 1, 38, 0, 200, Noswap>>)
    BY DEF CorpusPhase, NoswapCrit, Noswap
  <2>. QED
    BY <2>1, <1>1
<1>9. Good(<< <<0, 0, 30, 0, 50, Noswap>>, <<12, 0, 60, 0, 30, NoswapCrit>> >>)
  <2>1. CorpusPhase(<<0, 0, 30, 0, 50, Noswap>>)
    BY DEF CorpusPhase, NoswapCrit, Noswap
  <2>2. CorpusPhase(<<12, 0, 60, 0, 30, NoswapCrit>>)
    BY DEF CorpusPhase, NoswapCrit, Noswap
  <2>3. (<<0, 0, 30, 0, 50, Noswap>>)[6] # (<<12, 0, 60, 0, 30, NoswapCrit>>)[6]
    BY DEF NoswapCrit, Noswap
  <2>. QED
    BY <2>1, <2>2, <2>3, <1>2
<1>10. Good(<< <<0, 0, 35, 1, 50, <<>> >>, <<14, 8, 70, 1, 50, <<"CRITICAL", "MEM_PSI_CRIT">> >> >>)
  <2>1. CorpusPhase(<<0, 0, 35, 1, 50, <<>> >>)
    BY DEF CorpusPhase, NoswapCrit, Noswap
  <2>2. CorpusPhase(<<14, 8, 70, 1, 50, <<"CRITICAL", "MEM_PSI_CRIT">> >>)
    BY DEF CorpusPhase, NoswapCrit, Noswap
  <2>3. (<<0, 0, 35, 1, 50, <<>> >>)[6] # (<<14, 8, 70, 1, 50, <<"CRITICAL", "MEM_PSI_CRIT">> >>)[6]
    BY DEF NoswapCrit, Noswap
  <2>. QED
    BY <2>1, <2>2, <2>3, <1>2
<1>11. Good(<< <<0, 0, 25, 0, 100, Noswap>> >>)
  <2>1. CorpusPhase(<<0, 0, 25, 0, 100, Noswap>>)
    BY DEF CorpusPhase, NoswapCrit, Noswap
  <2>. QED
    BY <2>1, <1>1
<1>12. Good(c)
  BY <1>3, <1>4, <1>5, <1>6, <1>7, <1>8, <1>9, <1>10, <1>11, ZenonT(60) DEF Corpus
<1>. QED
  BY <1>12 DEF Good

\* The rules say of a host of the corpus what its phase is labelled with, and a calm
\* phase is calm.
LEMMA CorpusRules ==
  ASSUME NEW ph, CorpusPhase(ph)
  PROVE  /\ IsHost(CorpusHost(ph))
         /\ KernelRules(CorpusHost(ph)) = IF ph[6] = <<>> THEN Calm ELSE ph[6]
         /\ ph[6] # <<>> => ph[6] # Calm /\ IsPair(ph[6])
         /\ LET h == CorpusHost(ph)
            IN KernelFrame(h) = MakeFrame(h.psi[1], h.psi[2], UsedPct(h.mem), h.mem.swap)
<1>1. PICK h : h = CorpusHost(ph)
  OBVIOUS
<1>2. /\ h.psi = <<ph[1], ph[2]>> /\ h.psi[1] = ph[1] /\ h.psi[2] = ph[2]
      /\ h.mem.swap = ph[4] /\ h.psi # Absent
  BY <1>1 DEF CorpusHost, Absent
<1>3. ph[1] \in Nat /\ ph[2] \in Nat /\ ph[4] \in {0, 1}
  BY DEF CorpusPhase
<1>4. IsHost(h)
  BY <1>2, <1>3 DEF IsHost
<1>5. SomeOf(h) = ph[1] /\ FullOf(h) = ph[2] /\ SwapOf(h) = ph[4]
  BY <1>2, <1>3 DEF SomeOf, FullOf, SwapOf, Flag
<1>6. KernelRules(h) = IF ph[6] = <<>> THEN Calm ELSE ph[6]
  <2>1. <<"CRITICAL", "MEM_PSI_CRIT">> # <<>> /\ NoswapCrit # <<>> /\ Noswap # <<>>
        /\ <<"WARN", "MEM_PSI_WARN">> # <<>>
    BY DEF NoswapCrit, Noswap
  <2>2. CASE ph[6] = <<>> /\ ph[2] <= 5 /\ ph[1] <= 10 /\ ph[4] = 1
    <3>1. ~ (FullOf(h) > 5) /\ ~ (SomeOf(h) > 10) /\ SwapOf(h) # 0
      BY <1>3, <1>5, <2>2
    <3>. QED
      BY <1>4, <2>2, <3>1, RulesAre DEF Calm
  <2>3. CASE ph[6] = <<"CRITICAL", "MEM_PSI_CRIT">> /\ ph[2] > 5
    <3>1. FullOf(h) > 5
      BY <1>3, <1>5, <2>3
    <3>. QED
      BY <1>4, <2>1, <2>3, <3>1, RulesAre
  <2>4. CASE ph[6] = NoswapCrit /\ ph[2] <= 5 /\ ph[1] > 10 /\ ph[4] = 0
    <3>1. ~ (FullOf(h) > 5) /\ SomeOf(h) > 10 /\ SwapOf(h) = 0
      BY <1>3, <1>5, <2>4
    <3>2. KernelRules(h) = NoswapCrit
      BY <1>4, <3>1, RulesAre DEF NoswapCrit
    <3>. QED
      BY <2>1, <2>4, <3>2
  <2>5. CASE ph[6] = <<"WARN", "MEM_PSI_WARN">> /\ ph[2] <= 5 /\ ph[1] > 10 /\ ph[4] = 1
    <3>1. ~ (FullOf(h) > 5) /\ SomeOf(h) > 10 /\ SwapOf(h) # 0
      BY <1>3, <1>5, <2>5
    <3>. QED
      BY <1>4, <2>1, <2>5, <3>1, RulesAre
  <2>6. CASE ph[6] = Noswap /\ ph[2] <= 5 /\ ph[1] <= 10 /\ ph[4] = 0
    <3>1. ~ (FullOf(h) > 5) /\ ~ (SomeOf(h) > 10) /\ SwapOf(h) = 0
      BY <1>3, <1>5, <2>6
    <3>2. KernelRules(h) = Noswap
      BY <1>4, <3>1, RulesAre DEF Noswap
    <3>. QED
      BY <2>1, <2>6, <3>2
  <2>. QED
    BY <2>2, <2>3, <2>4, <2>5, <2>6 DEF CorpusPhase
<1>7. ph[6] # <<>> => ph[6] # Calm /\ IsPair(ph[6])
  BY DEF CorpusPhase, Calm, IsPair, NoswapCrit, Noswap
<1>8. KernelFrame(h) = MakeFrame(h.psi[1], h.psi[2], UsedPct(h.mem), h.mem.swap)
  <2>1. Flag(h.psi # Absent) = 1 /\ Flag(h.mem.swap > 0) = h.mem.swap
    BY <1>2, <1>3 DEF Flag
  <2>. QED
    BY <1>2, <2>1 DEF KernelFrame, MakeFrame
<1>. QED
  BY <1>1, <1>4, <1>6, <1>7, <1>8

LEMMA CorpusEarned ==
  ASSUME NEW c \in Corpus, NEW w, w = CorpusWorld(c)
  PROVE  /\ Earned(w.judge, w.scenario, Ticks(w.scenario))
         /\ Score(w.judge, w.scenario, Ticks(w.scenario)) = 0
         /\ \A h \in DOMAIN w.judge :
              KernelFrame(h) = MakeFrame(h.psi[1], h.psi[2], UsedPct(h.mem), h.mem.swap)
<1>. DEFINE p == [k \in DOMAIN c |->
                    [gap |-> 0, length |-> c[k][5], frame |-> CorpusHost(c[k]),
                     truth |-> c[k][6], deadline |-> <<5>>]]
            hosts == {CorpusHost(ph) : ph \in ToSet(c)}
            s == Scenario(p)
            judge == [h \in hosts |-> KernelRules(h)]
            total == Ticks(s)
<1>1. w.judge = judge /\ w.scenario = s
  BY DEF CorpusWorld
<1>2. /\ Len(c) \in {1, 2} /\ DOMAIN c = 1..Len(c) /\ \A k \in DOMAIN c : CorpusPhase(c[k])
      /\ Len(c) = 2 => c[1][6] # c[2][6]
  BY CorpusIs
<1>3. ASSUME NEW k \in DOMAIN c
      PROVE  /\ CorpusHost(c[k]) \in hosts
             /\ judge[CorpusHost(c[k])] = IF c[k][6] = <<>> THEN Calm ELSE c[k][6]
             /\ c[k][6] # <<>> => c[k][6] # Calm /\ IsPair(c[k][6])
             /\ IsPair(judge[CorpusHost(c[k])])
  <2>1. CorpusHost(c[k]) \in hosts
    BY DEF ToSet
  <2>2. CorpusPhase(c[k])
    BY <1>2
  <2>3. judge[CorpusHost(c[k])] = IF c[k][6] = <<>> THEN Calm ELSE c[k][6]
    BY <2>1, <2>2, CorpusRules
  <2>4. c[k][6] # <<>> => c[k][6] # Calm /\ IsPair(c[k][6])
    BY <2>2, CorpusRules
  <2>5. IsPair(Calm)
    BY DEF IsPair, Calm
  <2>. HIDE DEF judge, hosts
  <2>. QED
    BY <2>1, <2>3, <2>4, <2>5
<1>4. PICK n \in {1, 2} : n = Len(c) /\ DOMAIN c = 1..n
  BY <1>2
<1>5. DOMAIN p = 1..n /\ Len(p) = n
  <2>. DEFINE R == {p[k] : k \in 1..n}
  <2>1. p \in [1..n -> R]
    BY <1>4
  <2>. HIDE DEF p, R
  <2>2. n \in Nat /\ p \in Seq(R)
    BY <2>1
  <2>. QED
    BY <2>1, <2>2
<1>6. \A k \in 1..n : /\ p[k].gap = 0 /\ p[k].length = c[k][5] /\ p[k].frame = CorpusHost(c[k])
                      /\ p[k].truth = c[k][6] /\ p[k].deadline = <<5>>
  BY <1>4
<1>. HIDE DEF p, judge, hosts
<1>7. PhaseList(p, 200)
  <2>1. ASSUME NEW k \in 1..n
        PROVE  /\ p[k].gap \in Nat /\ p[k].length \in Nat \ {0}
               /\ p[k].gap + p[k].length <= 200
               /\ p[k].truth = <<>> \/ IsPair(p[k].truth)
               /\ p[k].deadline = <<>> \/ p[k].deadline[1] \in Nat
    <3>1. p[k].length \in 1..200
      BY <1>2, <1>4, <1>6 DEF CorpusPhase
    <3>2. p[k].gap = 0 /\ p[k].deadline[1] = 5
      BY <1>6
    <3>3. p[k].truth = <<>> \/ IsPair(p[k].truth)
      BY <1>3, <1>4, <1>6
    <3>4. PICK l \in 1..200 : p[k].length = l
      BY <3>1
    <3>. QED
      BY <3>2, <3>3, <3>4
  <2>. QED
    BY <1>5, <2>1 DEF PhaseList
<1>8. \A k \in DOMAIN p : IsPair(judge[p[k].frame])
  BY <1>3, <1>4, <1>5, <1>6
<1>9. Earned(judge, s, total)
  BY <1>5, <1>7, <1>8, ShortIsEarned
<1>10. /\ DOMAIN s = 1..n
       /\ \A k \in 1..n : s[k].frame = CorpusHost(c[k]) /\ s[k].truth = c[k][6]
  <2>1. /\ DOMAIN s = DOMAIN p
        /\ \A k \in DOMAIN p : s[k].frame = p[k].frame /\ s[k].truth = p[k].truth
    BY <1>7, <1>8, ScenarioIs, Zenon
  <2>. HIDE DEF s, total
  <2>. QED
    BY <1>5, <1>6, <2>1
<1>. HIDE DEF s, total
<1>11. ASSUME NEW k \in 1..n
       PROVE  /\ VerdictIn(judge, s, k) = IF s[k].truth = <<>> THEN Calm ELSE s[k].truth
              /\ s[k].truth # <<>> => s[k].truth # Calm
  BY <1>3, <1>4, <1>10 DEF VerdictIn
<1>12. ASSUME NEW k \in 1..n PROVE RaisesIn(judge, s, k) <=> s[k].truth # <<>>
  <2>1. CASE s[k].truth = <<>>
    BY <1>11, <2>1 DEF RaisesIn
  <2>2. CASE s[k].truth # <<>> /\ k = 1
    BY <1>11, <2>2 DEF RaisesIn, VerdictBefore
  <2>3. CASE s[k].truth # <<>> /\ k # 1
    <3>1. k = 2 /\ 1 \in 1..n /\ n = 2 /\ k - 1 = 1
      BY <2>3
    <3>2. s[1].truth # s[2].truth
      BY <1>2, <1>4, <1>10, <3>1
    <3>3. VerdictBefore(judge, s, k) = VerdictIn(judge, s, 1)
      BY <3>1 DEF VerdictBefore, VerdictIn
    <3>4. VerdictIn(judge, s, 1) = IF s[1].truth = <<>> THEN Calm ELSE s[1].truth
      BY <1>11, <3>1
    <3>. QED
      BY <1>11, <2>3, <3>1, <3>2, <3>3, <3>4 DEF RaisesIn
  <2>. QED
    BY <2>1, <2>2, <2>3
<1>13. Score(judge, s, total) = 0
  <2>. DEFINE calm == {k \in DOMAIN s : s[k].truth = <<>>}
              raises == {k \in DOMAIN s : RaisesIn(judge, s, k)}
  <2>1. raises = DOMAIN s \ calm
    BY <1>10, <1>12
  <2>2. \A k \in raises : VerdictIn(judge, s, k) = s[k].truth
    BY <1>10, <1>11, <1>12
  <2>3. Score(judge, s, total) = 0 <=>
          /\ raises = DOMAIN s \ calm
          /\ \A k \in raises : VerdictIn(judge, s, k) = s[k].truth
    BY <1>9, Zenon DEF Earned
  <2>. QED
    BY <2>1, <2>2, <2>3
<1>14. ASSUME NEW h \in hosts
       PROVE  KernelFrame(h) = MakeFrame(h.psi[1], h.psi[2], UsedPct(h.mem), h.mem.swap)
  <2>1. PICK k \in DOMAIN c : h = CorpusHost(c[k])
    BY DEF hosts, ToSet
  <2>. QED
    BY <1>2, <2>1, CorpusRules
<1>15. DOMAIN judge = hosts
  BY DEF judge
<1>. QED
  BY <1>1, <1>9, <1>13, <1>14, <1>15 DEF total

LEMMA TrialEarned ==
  ASSUME NEW judge \in Judges, NEW s \in Scenarios
  PROVE  Earned(judge, s, Ticks(s))
<1>. DEFINE P == [gap : {0, 1}, length : {1, 2}, frame : {"f", "g"},
                  truth : {<<>>, <<"WARN", "w">>, <<"CRITICAL", "c">>}, deadline : {<<>>, <<1>>}]
<1>1. PICK n \in 0..3 : \E p \in [1..n -> P] : s = Scenario(p)
  <2>1. Phases({0, 1}, {1, 2}) \subseteq P /\ Phases({0}, {1, 2}) \subseteq P
    BY DEF Phases
  <2>. HIDE DEF P
  <2>2. PICK p \in SeqOf(Phases({0, 1}, {1, 2}), 2) \union [1..3 -> Phases({0}, {1, 2})] :
          s = Scenario(p)
    BY DEF Scenarios
  <2>3. CASE p \in SeqOf(Phases({0, 1}, {1, 2}), 2)
    <3>1. PICK n \in 0..2 : p \in [1..n -> Phases({0, 1}, {1, 2})]
      BY <2>3 DEF SeqOf
    <3>2. p \in [1..n -> P] /\ n \in 0..3
      BY <2>1, <3>1
    <3>. QED
      BY <2>2, <3>2
  <2>4. CASE p \in [1..3 -> Phases({0}, {1, 2})]
    <3>1. p \in [1..3 -> P] /\ 3 \in 0..3
      BY <2>1, <2>4
    <3>. QED
      BY <2>2, <3>1
  <2>. QED
    BY <2>2, <2>3, <2>4
<1>p. PICK p \in [1..n -> P] : s = Scenario(p)
  BY <1>1
<1>2. n # 0
  <2>1. ASSUME n = 0 PROVE s = <<>>
    <3>1. DOMAIN p = {}
      BY <2>1
    <3>2. s = [k \in {} |-> {}]
      BY <1>p, <3>1 DEF Scenario
    <3>. QED
      BY <3>2
  <2>. QED
    BY <2>1 DEF Scenarios
<1>3. Len(p) = n /\ DOMAIN p = 1..n /\ n \in Nat \ {0} /\ n <= 10
  <2>1. n \in Nat /\ p \in Seq(P)
    <3>. HIDE DEF P
    <3>. QED
      OBVIOUS
  <2>. HIDE DEF P
  <2>. QED
    BY <1>2, <2>1
<1>4. ASSUME NEW k \in 1..n
      PROVE  /\ p[k].gap \in {0, 1} /\ p[k].length \in {1, 2} /\ p[k].frame \in {"f", "g"}
             /\ p[k].truth = <<>> \/ IsPair(p[k].truth)
             /\ p[k].deadline = <<>> \/ p[k].deadline[1] = 1
  <2>1. p[k] \in P
    OBVIOUS
  <2>. QED
    BY <2>1 DEF IsPair
<1>. HIDE DEF P
<1>5. PhaseList(p, 3)
  BY <1>3, <1>4 DEF PhaseList
<1>6. \A k \in DOMAIN p : IsPair(judge[p[k].frame])
  <2>1. \A x \in {"f", "g"} : IsPair(judge[x])
    BY DEF Judges, IsPair, Calm
  <2>. QED
    BY <1>3, <1>4, <2>1
<1>. QED
  BY <1>p, <1>3, <1>5, <1>6, ShortIsEarned

\* The oracle's best score is for the genomes that raise the right alarm in every
\* labelled phase and none in a calm one, and its sentinel for those that raise one
\* there; and the shipped kernel genome, by its rules, has the best score on each
\* of the scenarios that ship.
THEOREM ScoresMeanRules == SequentialSpec => []ScoreIsEarned
<1>1. SequentialInit => ScoreIsEarned
  <2>. SUFFICES ASSUME SequentialInit PROVE ScoreIsEarned
    OBVIOUS
  <2>1. part = "score" => Earned(world.judge, world.scenario, Ticks(world.scenario))
    <3>1. SUFFICES ASSUME part = "score"
                   PROVE  Earned(world.judge, world.scenario, Ticks(world.scenario))
      OBVIOUS
    <3>2. PICK j \in Judges, s \in Scenarios : world = [judge |-> j, scenario |-> s]
      BY <3>1 DEF SequentialInit
    <3>3. world.judge = j /\ world.scenario = s
      BY <3>2
    <3>. QED
      BY <3>3, TrialEarned
  <2>2. part = "corpus" => \E c \in Corpus : world = CorpusWorld(c)
    BY DEF SequentialInit
  <2>3. part = "score" => part # "corpus"
    OBVIOUS
  <2>. QED
    BY <2>1, <2>2, <2>3, CorpusEarned DEF ScoreIsEarned
<1>2. ScoreIsEarned /\ [SequentialNext]_allVars => ScoreIsEarned'
  <2>1. [SequentialNext]_allVars => part' = part /\ world' = world
    BY DEF SequentialNext, allVars
  <2>2. ASSUME NEW a, NEW b, part' = part, world' = world, ScoreIsEarned PROVE ScoreIsEarned'
    BY <2>2 DEF ScoreIsEarned
  <2>. QED
    BY <2>1, <2>2
<1>. QED
  BY <1>1, <1>2, PTL DEF SequentialSpec

------------------------------------------------------------------------------
(***************************************************************************)
(* The worlds of the run, and what it comes to in them.                    *)
(***************************************************************************)
\* The worlds of the run are such as the theorems above are about.
LEMMA CorpusHostsAre ==
  ASSUME NEW w \in CorpusHosts
  PROVE  IsHost(w)
<1>1. PICK c \in Corpus : \E ph \in ToSet(c) : w = CorpusHost(ph)
  BY DEF CorpusHosts
<1>2. PICK ph \in ToSet(c) : w = CorpusHost(ph)
  BY <1>1
<1>3. CorpusPhase(ph)
  BY CorpusIs DEF ToSet
<1>. QED
  BY <1>2, <1>3, CorpusRules

LEMMA NodesAre ==
  ASSUME NEW w \in PodWorlds
  PROVE  IsNode(w)
<1>1. PICK P \in SUBSET {"p", "q"} : w.pods \in [P -> {Pod(0), Pod(10), Pod(11)}]
  BY DEF PodWorlds
<1>2. IsFiniteSet({"p"} \union {"q"})
  BY FS_Singleton, FS_Union
<1>3. IsFiniteSet(P)
  <2>1. {"p", "q"} = {"p"} \union {"q"}
    OBVIOUS
  <2>. QED
    BY <1>2, <2>1, FS_Subset
<1>4. w.recent \in {0, 1}
  BY DEF PodWorlds
<1>5. DOMAIN w.pods = P /\ \A p \in P : w.pods[p].some \in Nat
  BY <1>1 DEF Pod
<1>6. IsFiniteSet(DOMAIN w.pods)
  BY <1>3, <1>5, Zenon
<1>7. w.recent \in Nat
  BY <1>4
<1>. QED
  BY <1>5, <1>6, <1>7, Zenon DEF IsNode

LEMMA DiskNetsAre ==
  ASSUME NEW w \in DiskNetWorlds
  PROVE  IsDiskNet(w)
<1>1. /\ w.disks \in [{"d", "e"} -> {Disk(0), Disk(8000), Disk(8100)}]
      /\ w.nets \in [{"f", "g"} -> {Net(2), Net(3)}]
  BY DEF DiskNetWorlds
<1>2. ASSUME NEW d \in {"d", "e"} PROVE \E k \in Nat : w.disks[d].busy = 100 * k
  <2>1. w.disks[d].busy \in {0, 8000, 8100}
    BY <1>1 DEF Disk
  <2>2. 0 = 100 * 0 /\ 8000 = 100 * 80 /\ 8100 = 100 * 81
    OBVIOUS
  <2>. QED
    BY <2>1, <2>2
<1>3. DOMAIN w.nets = {"f", "g"} /\ w.nets["f"].errs \in {2, 3}
  BY <1>1 DEF Net
<1>. QED
  BY <1>1, <1>2, <1>3 DEF IsDiskNet

LEMMA ControlPlanesAre ==
  ASSUME NEW c \in ClusterWorlds
  PROVE  IsControlPlane(c)
<1>1. /\ c.auth \in BOOLEAN /\ c.up \in BOOLEAN
      /\ c.nodes \in {<<>>} \union [{"n", "m"} -> {Absent, <<"True">>, <<"Unknown">>}]
      /\ c.deployments \in {<<>>} \union {<<[replicas |-> 2, ready |-> r]>> : r \in 1..2}
      /\ c.events \in {[e \in 1..n |-> Event(a)] : n \in {5, 6}, a \in {Absent, <<60>>, <<61>>}}
  BY DEF ClusterWorlds
<1>2. IsFiniteSet(DOMAIN c.nodes)
  <2>1. IsFiniteSet({}) /\ IsFiniteSet({"n", "m"})
    <3>1. IsFiniteSet({}) /\ IsFiniteSet({"n"}) /\ IsFiniteSet({"m"})
      BY FS_EmptySet, FS_Singleton
    <3>2. IsFiniteSet({"n"} \union {"m"})
      BY <3>1, FS_Union
    <3>3. {"n", "m"} = {"n"} \union {"m"}
      OBVIOUS
    <3>. QED
      BY <3>1, <3>2, <3>3
  <2>2. DOMAIN c.nodes \in {{}, {"n", "m"}}
    BY <1>1
  <2>. QED
    BY <2>1, <2>2
<1>3. IsFiniteSet(DOMAIN c.deployments)
  <2>1. PICK m \in {0, 1} : DOMAIN c.deployments = 1..m
    BY <1>1
  <2>2. IsFiniteSet(1..m)
    <3>1. 1 \in Int /\ m \in Int
      OBVIOUS
    <3>. QED
      BY <3>1, FS_Interval
  <2>. QED
    BY <2>1, <2>2
<1>4. PICK n \in {5, 6} : \E a \in {Absent, <<60>>, <<61>>} : c.events = [e \in 1..n |-> Event(a)]
  <2>1. c.events \in UNION {{[e \in 1..n |-> Event(a)] : a \in {Absent, <<60>>, <<61>>}} :
                              n \in {5, 6}}
    BY <1>1
  <2>. QED
    BY <2>1
<1>5. PICK a \in {Absent, <<60>>, <<61>>} : c.events = [e \in 1..n |-> Event(a)]
  BY <1>4
<1>6. IsFiniteSet(DOMAIN c.events)
  <2>1. n \in Int /\ DOMAIN c.events = 1..n
    BY <1>5
  <2>. QED
    BY <2>1, FS_Interval
<1>7. \A e \in DOMAIN c.events : c.events[e].age = a
  BY <1>5 DEF Event
<1>8. a = Absent \/ \E s \in Nat : a = <<s>>
  OBVIOUS
<1>. QED
  BY <1>1, <1>2, <1>3, <1>6, <1>7, <1>8 DEF IsControlPlane

LEMMA PeersAre ==
  ASSUME NEW p \in PeerWorlds
  PROVE  IsPeer(p)
<1>1. /\ p.open \in BOOLEAN /\ p.sev \in {Absent, <<"OK">>, <<"CRITICAL">>}
      /\ p.gw \in {Absent, <<"ok">>, <<"error">>} /\ p.age \in {Absent, <<120>>, <<121>>}
      /\ p.score \in {Absent, <<6>>} /\ p.some \in {Absent, <<10>>, <<11>>}
      /\ p.docs \in {Absent, <<0>>, <<1>>} /\ p.recent \in {0, 1, 2}
  BY DEF PeerWorlds
<1>2. {"OK", "CRITICAL"} \subseteq DOMAIN SevInt
  BY DEF SevInt
<1>3. IsEntry(p.age) /\ IsEntry(p.score) /\ IsEntry(p.some) /\ IsEntry(p.docs)
  <2>1. IsEntry(Absent) /\ \A n \in Nat : IsEntry(<<n>>)
    BY DEF IsEntry
  <2>. QED
    BY <1>1, <2>1
<1>4. p.sev = Absent \/ \E v \in DOMAIN SevInt : p.sev = <<v>>
  BY <1>1, <1>2
<1>5. p.gw = Absent \/ \E v : p.gw = <<v>>
  BY <1>1
<1>. QED
  BY <1>1, <1>3, <1>4, <1>5 DEF IsPeer

LEMMA ScansAre ==
  ASSUME NEW peers \in Quorums
  PROVE  IsScan(peers)
<1>1. PICK x, y, p, q :
        /\ peers = [n |-> p, m |-> q] \/ peers = [n |-> p, c |-> q]
        /\ \A peer \in {p, q} :
             /\ peer.role \in {"node", "control"} /\ peer.open \in BOOLEAN
             /\ peer.age \in {Blank, <<0>>, <<30>>, <<31>>}
             /\ peer.seen \in {<<>>, <<<<"OK">>>>, <<<<"INFO">>>>, <<<<"WARN">>>>,
                               <<<<"CRITICAL">>, <<"OK">>>>}
  BY DEF Quorums
<1>2. ASSUME NEW peer \in {p, q} PROVE IsPeerScan(peer)
  <2>1. peer.age = Blank \/ \E n \in Nat : peer.age = <<n>>
    BY <1>1
  <2>2. /\ IsFiniteSet(DOMAIN peer.seen)
        /\ \A s \in DOMAIN peer.seen : \E v : peer.seen[s] = <<v>>
    <3>1. PICK m \in {0, 1, 2} : DOMAIN peer.seen = 1..m
      BY <1>1
    <3>2. IsFiniteSet(DOMAIN peer.seen)
      <4>1. 1 \in Int /\ m \in Int
        OBVIOUS
      <4>2. IsFiniteSet(1..m)
        BY <4>1, FS_Interval
      <4>. QED
        BY <3>1, <4>2
    <3>3. \A s \in DOMAIN peer.seen : \E v : peer.seen[s] = <<v>>
      BY <1>1
    <3>. QED
      BY <3>2, <3>3
  <2>. QED
    BY <1>1, <2>1, <2>2 DEF IsPeerScan
<1>3. IsFiniteSet({"n", "m"}) /\ IsFiniteSet({"n", "c"})
  <2>1. IsFiniteSet({"n"}) /\ IsFiniteSet({"m"}) /\ IsFiniteSet({"c"})
    BY FS_Singleton
  <2>2. IsFiniteSet({"n"} \union {"m"}) /\ IsFiniteSet({"n"} \union {"c"})
    BY <2>1, FS_Union
  <2>3. {"n", "m"} = {"n"} \union {"m"} /\ {"n", "c"} = {"n"} \union {"c"}
    OBVIOUS
  <2>. QED
    BY <2>2, <2>3
<1>4. DOMAIN peers \in {{"n", "m"}, {"n", "c"}} /\ \A s \in DOMAIN peers : peers[s] \in {p, q}
  BY <1>1
<1>. QED
  BY <1>2, <1>3, <1>4 DEF IsScan

\* Every world of the run is one of those the lists of rules are about, and every
\* genome decides as the rules of its world do.
LEMMA RunDecides ==
  ASSUME NEW p \in DOMAIN Probe, NEW w \in Probe[p].worlds, NEW g \in Probe[p].genomes
  PROVE  /\ Decided(g, FrameOf(p, w), RulesOf(p, w))
         /\ p = "kernel" => IsHost(w)
<1>1. /\ LoadsKernel
      /\ \A l \in Loaded : Loads(l[1], l[2], l[3])
      /\ \A h \in Hosts : IsHost(h)
  BY ProbeTable
<1>2. CASE p = "kernel"
  <2>1. w \in Hosts \union CorpusHosts /\ g \in {KernelGenome, HandCoded}
    BY <1>2, Zenon DEF Probe
  <2>2. IsHost(w)
    BY <1>1, <2>1, CorpusHostsAre
  <2>3. FrameOf(p, w) = KernelFrame(w) /\ RulesOf(p, w) = KernelRules(w)
    BY <1>2 DEF FrameOf, RulesOf
  <2>4. /\ Decided(KernelGenome, KernelFrame(w), KernelRules(w))
        /\ Decided(HandCoded, KernelFrame(w), KernelRules(w))
    BY <1>1, <2>2, KernelDecided
  <2>. QED
    BY <2>1, <2>2, <2>3, <2>4
<1>3. CASE p = "pods"
  <2>1. w \in PodWorlds /\ g = PodsGenome
    BY <1>3, Zenon DEF Probe
  <2>2. FrameOf(p, w) = PodsFrame(w.pods, w.recent) /\ RulesOf(p, w) = PodsRules(w)
    BY <1>3 DEF FrameOf, RulesOf
  <2>3. Loads("pod", "o", "pod_delta_oom_kills_60s") /\ Loads("pod", "s", "pod_max_psi_some")
    BY <1>1 DEF Loaded
  <2>4. Decided(PodsGenome, PodsFrame(w.pods, w.recent), PodsRules(w))
    BY <2>1, <2>3, NodesAre, PodsDecided
  <2>. QED
    BY <1>3, <2>1, <2>2, <2>4
<1>4. CASE p = "diskNet"
  <2>1. w \in DiskNetWorlds /\ g = DiskNetGenome
    BY <1>4, Zenon DEF Probe
  <2>2. FrameOf(p, w) = DiskNetFrame(w) /\ RulesOf(p, w) = DiskNetRules(w)
    BY <1>4 DEF FrameOf, RulesOf
  <2>3. Loads("net", "e", "net_errors") /\ Loads("disk", "u", "disk_util")
    BY <1>1 DEF Loaded
  <2>4. Decided(DiskNetGenome, DiskNetFrame(w), DiskNetRules(w))
    BY <2>1, <2>3, DiskNetsAre, DiskNetDecided
  <2>. QED
    BY <1>4, <2>1, <2>2, <2>4
<1>5. CASE p = "cluster"
  <2>1. w \in ClusterWorlds /\ g = ClusterGenome
    BY <1>5, Zenon DEF Probe
  <2>2. FrameOf(p, w) = ClusterFrame(w) /\ RulesOf(p, w) = ClusterRules(w)
    BY <1>5 DEF FrameOf, RulesOf
  <2>3. /\ Loads("K", "a", "k8s_healthy") /\ Loads("K", "?", "k8s_auth_present")
        /\ Loads("K", "x", "k8s_not_ready") /\ Loads("K", "d", "k8s_degraded")
        /\ Loads("K", "e", "k8s_warnings")
    BY <1>1 DEF Loaded
  <2>4. Decided(ClusterGenome, ClusterFrame(w), ClusterRules(w))
    BY <2>1, <2>3, ControlPlanesAre, ClusterDecided
  <2>. QED
    BY <1>5, <2>1, <2>2, <2>4
<1>6. CASE p = "peer"
  <2>1. w \in PeerWorlds /\ g = PeerGenome
    BY <1>6, Zenon DEF Probe
  <2>2. FrameOf(p, w) = PeerFrame(w, w.recent) /\ RulesOf(p, w) = PeerRules(w)
    BY <1>6 DEF FrameOf, RulesOf
  <2>3. /\ Loads("Psi", "a", "peer_available") /\ Loads("Psi", "v", "peer_sev_int")
        /\ Loads("Psi", "g", "peer_gw_ok") /\ Loads("Psi", "h", "peer_heartbeat_age")
        /\ Loads("Psi", "s", "peer_last_score") /\ Loads("Psi", "d", "peer_queries_60s")
        /\ Loads("Psi", "p", "peer_psi_some10") /\ Loads("Psi", "r", "peer_rag_docs")
    BY <1>1 DEF Loaded
  <2>4. Decided(PeerGenome, PeerFrame(w, w.recent), PeerRules(w))
    BY <2>1, <2>3, PeersAre, PeerDecided
  <2>. QED
    BY <1>6, <2>1, <2>2, <2>4
<1>7. CASE p = "quorum"
  <2>1. w \in Quorums /\ g = GovernorGenome
    BY <1>7, Zenon DEF Probe
  <2>2. FrameOf(p, w) = QuorumFrame(w) /\ RulesOf(p, w) = GovernorRules(w)
    BY <1>7 DEF FrameOf, RulesOf
  <2>3. /\ Loads("Gam", "c", "quorum_node_critical") /\ Loads("Gam", "k", "quorum_control_ok")
        /\ Loads("Gam", "p", "quorum_node_pressure")
    BY <1>1 DEF Loaded
  <2>4. Decided(GovernorGenome, QuorumFrame(w), GovernorRules(w))
    BY <2>1, <2>3, ScansAre, GovernorDecided
  <2>. QED
    BY <1>7, <2>1, <2>2, <2>4
<1>8. p \in {"kernel", "pods", "diskNet", "cluster", "peer", "quorum"}
  BY DEF Probe
<1>. QED
  BY <1>2, <1>3, <1>4, <1>5, <1>6, <1>7, <1>8

\* The run is in the rules of its world, and stays there.
RulesRun ==
  part = "rules" =>
    /\ \E g, f, rs : /\ RuleList(g, f, rs) /\ Reached(g, f, rs)
                     /\ Said(rs) = RulesOf(world.probe, world.of)
    /\ world.probe = "kernel" => IsHost(world.of)

LEMMA RulesRunHolds ==
  ASSUME 3 <= MaxStack
  PROVE  SequentialSpec => []RulesRun
<1>1. SequentialInit => RulesRun
  <2>1. SUFFICES ASSUME SequentialInit, part = "rules" PROVE RulesRun
    BY DEF RulesRun
  <2>2. PICK p \in DOMAIN Probe : \E w \in Probe[p].worlds, g \in Probe[p].genomes :
          world = [probe |-> p, of |-> w] /\ Start(g, FrameOf(p, w))
    BY <2>1 DEF SequentialInit
  <2>3. PICK w \in Probe[p].worlds, g \in Probe[p].genomes :
          world = [probe |-> p, of |-> w] /\ Start(g, FrameOf(p, w))
    BY <2>2
  <2>4. world.probe = p /\ world.of = w
    BY <2>3
  <2>5. PICK f, v : f = FrameOf(p, w) /\ v = RulesOf(p, w)
    OBVIOUS
  <2>6. Decided(g, f, v) /\ (p = "kernel" => IsHost(w))
    BY <2>5, RunDecides
  <2>7. PICK rs : RuleList(g, f, rs) /\ Said(rs) = v
    BY <2>6 DEF Decided
  <2>8. Reached(g, f, rs)
    BY <2>3, <2>5, <2>7, ReachedFirst
  <2>. QED
    BY <2>4, <2>5, <2>6, <2>7, <2>8 DEF RulesRun
<1>2. RulesRun /\ [SequentialNext]_allVars => RulesRun'
  <2>1. SUFFICES ASSUME RulesRun, [SequentialNext]_allVars, part' = "rules" PROVE RulesRun'
    BY DEF RulesRun
  <2>2. part = "rules" /\ world' = world /\ [Next]_vars
    BY <2>1 DEF SequentialNext, allVars
  <2>3. PICK g, f, rs : /\ RuleList(g, f, rs) /\ Reached(g, f, rs)
                        /\ Said(rs) = RulesOf(world.probe, world.of)
    BY <2>1, <2>2 DEF RulesRun
  <2>4. TableApart
    BY ProbeTable DEF LoadsKernel, TableApart
  <2>5. Reached(g, f, rs)'
    BY <2>2, <2>3, <2>4, ReachedSteps
  <2>6. world.probe = "kernel" => IsHost(world.of)
    BY <2>1, <2>2 DEF RulesRun
  <2>7. RulesOf(world.probe, world.of)' = RulesOf(world.probe, world.of)
    BY <2>2
  <2>. QED
    BY <2>2, <2>3, <2>5, <2>6, <2>7 DEF RulesRun
<1>. QED
  BY <1>1, <1>2, PTL DEF SequentialSpec

LEMMA RulesRunSays ==
  ASSUME RulesRun, part = "rules", verdict \in Verdicts
  PROVE  verdict = RulesOf(world.probe, world.of) /\ (world.probe = "kernel" => IsHost(world.of))
<1>1. PICK g, f, rs : /\ RuleList(g, f, rs) /\ Reached(g, f, rs)
                      /\ Said(rs) = RulesOf(world.probe, world.of)
  BY DEF RulesRun
<1>2. verdict # Running
  BY DEF Running, Verdicts
<1>. QED
  BY <1>1, <1>2, ReachedSays DEF RulesRun

\* Every genome that ships, in every world of the run, comes to the verdict that the
\* comments of its configuration name.
THEOREM RunSaysTheRules ==
  ASSUME 3 <= MaxStack
  PROVE  SequentialSpec => []ShippedRules
<1>1. RulesRun => ShippedRules
  BY RulesRunSays DEF ShippedRules
<1>. QED
  BY <1>1, RulesRunHolds, PTL

\* The verdict of a kernel genome that the run comes to is never louder than the
\* gate's, and differs from it only where AgreesWithGate says the two may.
THEOREM RunKeepsToGate ==
  ASSUME 3 <= MaxStack
  PROVE  SequentialSpec => []GateAgrees
<1>1. RulesRun => GateAgrees
  <2>1. SUFFICES ASSUME RulesRun, part = "rules", world.probe = "kernel", verdict \in Verdicts
                 PROVE  AgreesWithGate(verdict, world.of)
    BY DEF GateAgrees
  <2>2. PICK h : h = world.of /\ IsHost(h) /\ verdict = RulesOf("kernel", h)
    BY <2>1, RulesRunSays
  <2>3. verdict = KernelRules(h)
    BY <2>2 DEF RulesOf
  <2>. QED
    BY <2>2, <2>3, RulesAgree
<1>. QED
  BY <1>1, RulesRunHolds, PTL
==============================================================================
