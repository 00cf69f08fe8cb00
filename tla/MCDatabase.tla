------------------------------ MODULE MCDatabase ------------------------------
(***************************************************************************)
(* Small instances of Database for TLC.                                    *)
(***************************************************************************)
EXTENDS Database, TLC

\* Units, servers, addresses and passwords are interchangeable.
Symmetry == Permutations(Units) \cup Permutations(Servers) \cup Permutations(Addresses)
            \cup Permutations(Passwords)

===============================================================================
