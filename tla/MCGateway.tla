------------------------------ MODULE MCGateway ------------------------------
EXTENDS Gateway, TLC

CONSTANTS u1, u2, o1, o2, r1, r2

Symmetric ==
  Permutations({u1, u2}) \cup Permutations({o1, o2}) \cup Permutations({r1, r2})
=============================================================================
