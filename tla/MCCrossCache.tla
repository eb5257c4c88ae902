---------------------------- MODULE MCCrossCache ----------------------------
(* Instances of CrossCache: constant values only. *)
EXTENDS CrossCache, TLC

CONSTANTS x, y, z, a1, a2, k, v

HostSymmetry == Permutations({x, y, z}) \cup Permutations({a1, a2}) \cup Permutations({k, v})

=============================================================================
