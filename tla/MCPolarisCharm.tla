---------------------------- MODULE MCPolarisCharm ----------------------------
(***************************************************************************)
(* Small instances of PolarisCharm for TLC.                                *)
(***************************************************************************)
EXTENDS Statuses, TLC

\* Units, random passwords and random keys are interchangeable in safety runs.
Symmetry ==
  Permutations(Units) \cup Permutations(RandomPasswords) \cup Permutations(RandomKeys)

===============================================================================
