-------------------------- MODULE MCTransportCache --------------------------
(* Four callers, three identities and a cache smaller than that, for TLC.  *)
EXTENDS TransportCache, TLC

CONSTANTS g1, g2, g3, g4, i1, i2, i3, h1

MCGetters == {g1, g2, g3, g4}
MCHttp == {g1, g2}
MCIdentities == {i1, i2, i3}
MCHints == {NoHints, h1}

Symmetry ==
    Permutations({g1, g2}) \cup Permutations({g3, g4}) \cup Permutations(MCIdentities)
=============================================================================
