-------------------------- MODULE SessionLifecycle -------------------------
(***************************************************************************)
(* What sessions and refresh tokens promise, whatever the interleaving of  *)
(* the requests: a session is opened once, closes for good and is deleted  *)
(* with everything it owns; the tokens of a session grow from one first    *)
(* token by rotations that stay inside the session; a spent token never    *)
(* becomes usable again.                                                   *)
(***************************************************************************)
CONSTANTS Sessions, Tokens, None

VARIABLES
  standing,  \* of a session: "absent", "open", "closed", "gone"
  status,    \* of a token: "absent", "fresh", "spent", "gone"
  owner      \* the session of a token

lifecycle == <<standing, status, owner>>

LInit ==
  /\ standing = [s \in Sessions |-> "absent"]
  /\ status = [t \in Tokens |-> "absent"]
  /\ owner = [t \in Tokens |-> None]

OpenSession(s) ==
  /\ standing[s] = "absent"
  /\ standing' = [standing EXCEPT ![s] = "open"]
  /\ UNCHANGED <<status, owner>>

CloseSessions(S) ==
  /\ standing' = [s \in Sessions |-> IF s \in S /\ standing[s] = "open"
                                     THEN "closed" ELSE standing[s]]
  /\ UNCHANGED <<status, owner>>

\* The first token of a session, even if it has been closed meanwhile.
IssueFirst(s, n) ==
  /\ standing[s] \in {"open", "closed"}
  /\ \A t \in Tokens : owner[t] # s
  /\ status[n] = "absent"
  /\ status' = [status EXCEPT ![n] = "fresh"]
  /\ owner' = [owner EXCEPT ![n] = s]
  /\ UNCHANGED standing

\* A rotation may close the session in the same transaction.  Nothing keeps
\* two rotations of the same token apart: t may already be spent.
Rotate(t, n, S) ==
  /\ status[t] \in {"fresh", "spent"}
  /\ status[n] = "absent"
  /\ S \subseteq {owner[t]}
  /\ status' = [status EXCEPT ![t] = "spent", ![n] = "fresh"]
  /\ owner' = [owner EXCEPT ![n] = owner[t]]
  /\ standing' = [s \in Sessions |-> IF s \in S /\ standing[s] = "open"
                                     THEN "closed" ELSE standing[s]]

DeleteTokens(T) ==
  /\ status' = [t \in Tokens |-> IF t \in T /\ status[t] # "absent"
                                 THEN "gone" ELSE status[t]]
  /\ UNCHANGED <<standing, owner>>

DeleteSessions(S) ==
  /\ \A s \in S : standing[s] \in {"open", "closed"}
  /\ standing' = [s \in Sessions |-> IF s \in S THEN "gone" ELSE standing[s]]
  /\ status' = [t \in Tokens |-> IF owner[t] \in S THEN "gone" ELSE status[t]]
  /\ UNCHANGED owner

LNext ==
  \/ \E s \in Sessions : OpenSession(s) \/ \E n \in Tokens : IssueFirst(s, n)
  \/ \E S \in SUBSET Sessions : CloseSessions(S) \/ DeleteSessions(S)
  \/ \E t, n \in Tokens, S \in SUBSET Sessions : Rotate(t, n, S)
  \/ \E T \in SUBSET Tokens : DeleteTokens(T)

LSpec == LInit /\ [][LNext]_lifecycle
=============================================================================
