-------------------------- MODULE MCPublishClient --------------------------
(* Small instances of PublishClient for TLC.                               *)
EXTENDS PublishClient, TLC

\* Clients never compare themselves with one another.
ClientSymmetry == Permutations(Clients)

=============================================================================
