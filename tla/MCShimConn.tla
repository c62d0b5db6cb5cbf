----------------------------- MODULE MCShimConn -----------------------------
(* Small connections for TLC.                                              *)
EXTENDS ShimConn

CONSTANTS s1

MCOneSub == {s1}
=============================================================================
