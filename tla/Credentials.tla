----------------------------- MODULE Credentials -----------------------------
(***************************************************************************)
(* What the charm promises of its credentials, whatever its units are and  *)
(* however their hooks run: what is committed in the peer databag, and the *)
(* root principal of each database.  PolarisCharm implements it.           *)
(*                                                                         *)
(* A step either publishes or changes one database, never both: the two    *)
(* are not changed together, which is why they can come apart.             *)
(***************************************************************************)
EXTENDS Naturals

CONSTANTS UserPasswords, RandomPasswords, RandomKeys, Databases, None

VARIABLES
  key,       \* the token broker key
  password,  \* the admin password
  epoch,     \* its version
  root       \* root[d]: password of the root principal in database d

vars == <<key, password, epoch, root>>

Init ==
  /\ key = None /\ password = None /\ epoch = 1
  /\ root = [d \in Databases |-> None]

\* A key is chosen once, a first password may be generated, any other is the
\* operator's, and a new one is announced by the epoch.
Publish ==
  /\ key' \in IF key = None THEN RandomKeys \cup {None} ELSE {key}
  /\ \/ password' = password /\ epoch' >= epoch
     \/ /\ password' \in UserPasswords \cup (IF password = None THEN RandomPasswords ELSE {})
        /\ epoch' > epoch
  /\ UNCHANGED root

\* The root principal of d is created.
Bootstrap(d) ==
  /\ root[d] = None
  /\ \E p \in UserPasswords \cup RandomPasswords : root' = [root EXCEPT ![d] = p]
  /\ UNCHANGED <<key, password, epoch>>

\* Its password becomes one the operator asked for.
Reset(d) ==
  /\ root[d] # None
  /\ \E p \in UserPasswords : root' = [root EXCEPT ![d] = p]
  /\ UNCHANGED <<key, password, epoch>>

Next == Publish \/ \E d \in Databases : Bootstrap(d) \/ Reset(d)

Spec == Init /\ [][Next]_vars

===============================================================================
