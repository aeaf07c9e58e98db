----------------------------- MODULE MCStateSolo -----------------------------
EXTENDS StateSolo, TLC
CONSTANTS p1, p2, k1, k2, k3

\* Two keys collide on the last slot, so that probing wraps; one more key than
\* there are slots.
CrowdedHome == k1 :> 1 @@ k2 :> 1 @@ k3 :> 0
OneWriter == p1 :> {k1, k2, k3} @@ p2 :> {}
ThreeCalls == p1 :> 3 @@ p2 :> 3
==============================================================================
