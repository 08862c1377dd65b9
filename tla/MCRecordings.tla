---------------------------- MODULE MCRecordings ----------------------------
(* Recordings on small instances: requests and payloads are interchangeable. *)
EXTENDS Recordings, TLC

Symmetry == Permutations(Request) \union Permutations(Payload)
=============================================================================
