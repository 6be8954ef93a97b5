-------------------------- MODULE MCTrustRegistry --------------------------
(* Instances of TrustRegistry for TLC.  One signer: operations on different *)
(* signers read and write different entries of the dictionary.             *)
EXTENDS TrustRegistry, TLC

CONSTANTS r1, r2, s1, k1, k2, q1, q2

KeySymmetry == Permutations(Keys) \cup Permutations(PqKeys)
=============================================================================
