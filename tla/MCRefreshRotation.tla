------------------------- MODULE MCRefreshRotation -------------------------
(* Instances of RefreshRotation for TLC.                                   *)
EXTENDS RefreshRotation, TLC

\* Rotations and revocations of single sessions, under faults.
RotationOps == {"Login", "Refresh", "Logout", "RevokeSession", "RevokeEvery",
                "Transient", "Abort"}
\* Revocations of many sessions and stamp changes, against rotations.
RevocationOps == {"Login", "Refresh", "RevokeOthers", "ChangePassword", "ResetPassword"}
\* Only logins and refreshes; then with logouts, faults, both, or password changes
\* that a client abandons.
RefreshOps == {"Login", "Refresh"}
LogoutOps == RefreshOps \cup {"Logout"}
TransientOps == RefreshOps \cup {"Transient"}
SequentialOps == LogoutOps \cup TransientOps
AbandonOps == {"Login", "ChangePassword", "Abort"}

Symmetry == Permutations(Sessions) \cup Permutations(Tokens) \cup Permutations(Calls)
=============================================================================
