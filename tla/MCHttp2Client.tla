---------------------------- MODULE MCHttp2Client ----------------------------
(***************************************************************************)
(* Instances of Http2Client for TLC.                                       *)
(***************************************************************************)
EXTENDS Http2Client, TLC

RequestSymmetry == Permutations(Requests \ Delayed) \union Permutations(Delayed)
=============================================================================
