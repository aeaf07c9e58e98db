---------------------------- MODULE MCStateTable -----------------------------
EXTENDS StateTable, TLC
CONSTANTS p1, p2, k1, k2

\* Every key has a home slot to itself.
ApartHome == k1 :> 0 @@ k2 :> 1
\* All keys start probing from the same slot.
SharedHome == k1 :> 0 @@ k2 :> 0

\* Each process writes the keys under its own state prefix.
OwnKeys == p1 :> {k1} @@ p2 :> {k2}
\* Both processes write one key, as the probes sharing a prefix do, and one of
\* them a key of its own.
OwnAndShared == p1 :> {k1} @@ p2 :> {k1, k2}
\* Both processes write one key.
SameKey == p1 :> {k1} @@ p2 :> {k1}
\* One writer, one reader.
OneWriter == p1 :> {k1, k2} @@ p2 :> {}

ThreeCalls == p1 :> 3 @@ p2 :> 3
OneByP1 == p1 :> 1 @@ p2 :> 3
==============================================================================
