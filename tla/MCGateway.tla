------------------------------ MODULE MCGateway ------------------------------
EXTENDS Gateway, TLC

\* multiswarm.yaml, the kernel's route: alerts go to the sink of the evolver.
LinkRoutes == "alert" :> "sink"
==============================================================================
