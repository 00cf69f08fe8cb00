------------------------------ MODULE MCConsole ------------------------------
(***************************************************************************)
(* Small instances of Console for TLC.                                     *)
(***************************************************************************)
EXTENDS Console, TLC

\* Certificates, and addresses, are interchangeable in safety runs.
\* So are units that start alike.
Alike == Permutations(Units) \cup Permutations(Certs) \cup Permutations(HttpsUrls)
Symmetry == Permutations(Certs) \cup Permutations(HttpsUrls)

===============================================================================
