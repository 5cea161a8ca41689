----------------------------- MODULE Directory ------------------------------
(***************************************************************************)
(* What the user table promises: a map from names to passwords with at     *)
(* most USERS_MAX entries, in which a name is added, given a new password  *)
(* or removed, one at a time and without touching any other.               *)
(***************************************************************************)
EXTENDS Naturals, FiniteSets

CONSTANTS Name, Password, USERS_MAX

VARIABLE dir

IsDirectory(d) ==
  /\ DOMAIN d \subseteq Name /\ Cardinality(DOMAIN d) <= USERS_MAX
  /\ \A n \in DOMAIN d : d[n] \in Password

\* The map that differs from d in the password of n only.
With(d, n, p) == [m \in DOMAIN d \cup {n} |-> IF m = n THEN p ELSE d[m]]

Without(d, n) == [m \in DOMAIN d \ {n} |-> d[m]]

Put(n, p) ==
  /\ n \in DOMAIN dir \/ Cardinality(DOMAIN dir) < USERS_MAX
  /\ dir' = With(dir, n, p)

Remove(n) ==
  /\ n \in DOMAIN dir
  /\ dir' = Without(dir, n)

DirectoryInit == IsDirectory(dir)

DirectoryNext ==
  \E n \in Name : Remove(n) \/ \E p \in Password : Put(n, p)

DirectorySpec == DirectoryInit /\ [][DirectoryNext]_dir
=============================================================================
