--------------------------- MODULE MCHostedVersions ---------------------------
(***************************************************************************)
(* Instances of HostedVersions.  Contents, operation ids and requests are  *)
(* interchangeable.                                                        *)
(***************************************************************************)
EXTENDS HostedVersions, TLC

HostedSymmetry ==
  Permutations(Versions) \cup Permutations(Operations) \cup Permutations(Requests)
=============================================================================
