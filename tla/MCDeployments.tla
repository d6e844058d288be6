---------------------------- MODULE MCDeployments ----------------------------
EXTENDS Deployments, TLC

MCSymmetry == Permutations(Hashes) \cup Permutations(Shards) \cup Permutations(Names)
=============================================================================
