------------------------------ MODULE MCDnaChain -----------------------------
EXTENDS DnaChain, TLC
CONSTANTS g1, g2, g3

\* Growing, shrinking and full-length genomes, each better than the last.
Lengths == g1 :> 2 @@ g2 :> 1 @@ g3 :> 3
Ranks == g1 :> 1 @@ g2 :> 2 @@ g3 :> 3
==============================================================================
