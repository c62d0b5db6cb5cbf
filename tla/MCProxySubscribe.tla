-------------------------- MODULE MCProxySubscribe --------------------------
(* Two clients that picked the same subscription id, for TLC.              *)
EXTENDS ProxySubscribe, TLC

CONSTANTS c1, c2, u1, u2, s1

MCCalls == {c1, c2}
MCOneCall == {c1}
MCIds == {u1, u2}
MCSubNames == {s1}
MCClientSub == [c \in Calls |-> s1]

Symmetry == Permutations(MCCalls) \cup Permutations(MCIds)
=============================================================================
