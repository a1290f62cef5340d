---------------------------- MODULE MCKinopubAuth -----------------------------
(* An instance of KinopubAuth for TLC: requests are alike, and so are codes.  *)
EXTENDS KinopubAuth, TLC
MCSymmetry == Permutations(Requests) \cup Permutations(Codes)
=============================================================================
