---------------------------- MODULE MCRequestBody ----------------------------
(***************************************************************************)
(* Instances of RequestBody for TLC.                                       *)
(***************************************************************************)
EXTENDS RequestBody, TLC

StreamSymmetry == Permutations(Streams)
=============================================================================
