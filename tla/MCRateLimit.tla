----------------------------- MODULE MCRateLimit -----------------------------
(***************************************************************************)
(* Instances of RateLimit for TLC.                                         *)
(***************************************************************************)
EXTENDS RateLimit, TLC

\* Devices, and addresses, are interchangeable.
ClientSymmetry == Permutations(Devices) \cup Permutations(Ips)
=============================================================================
