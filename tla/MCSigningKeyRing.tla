-------------------------- MODULE MCSigningKeyRing --------------------------
(* Instances of SigningKeyRing for TLC.                                    *)
EXTENDS SigningKeyRing, TLC

\* Tokens are issued and keys rotated; with the key set requested as well; or keys
\* are rotated and resolved.
IssueOps == {"Issue", "Rotate"}
RingOps == IssueOps \cup {"Jwks"}
CacheOps == {"Rotate", "Resolve"}

Symmetry == Permutations(Keys) \cup Permutations(Tasks) \cup Permutations(Instances)
=============================================================================
