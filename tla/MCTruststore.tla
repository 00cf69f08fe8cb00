----------------------------- MODULE MCTruststore -----------------------------
(***************************************************************************)
(* Small instances of Truststore for TLC.                                  *)
(***************************************************************************)
EXTENDS Truststore, TLC

\* The certificates, and the random passwords, are interchangeable.
Symmetry == Permutations(Certs) \cup Permutations(RandomPasswords)

===============================================================================
