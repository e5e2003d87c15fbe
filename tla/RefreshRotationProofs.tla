----------------------- MODULE RefreshRotationProofs -----------------------
(* What holds of RefreshRotation for all values of its constants.          *)
EXTENDS RefreshRotation, TLAPS

\* The rows a request works on are rows it has read: they were born, and the
\* token is the session's.
CallsRefer ==
  \A c \in Calls :
    /\ call[c].pc \in {"issue", "stamp", "commit", "reuse", "revokeOne", "expireOne", "restamp"}
         => call[c].ses \in Sessions /\ session[call[c].ses].phase # "unborn"
    /\ call[c].pc \in {"stamp", "commit", "reuse"}
         => /\ call[c].tok \in Tokens
            /\ token[call[c].tok].phase # "unborn"
            /\ token[call[c].tok].session = call[c].ses
    /\ call[c].pc \in {"restamp", "saveStamp", "revokeAll"} => call[c].why \in Reasons

\* A token that was inserted has a session that was inserted.
TokensRefer ==
  \A t \in Tokens : token[t].phase # "unborn" =>
    token[t].session \in Sessions /\ session[token[t].session].phase # "unborn"

Typed == TypeOK /\ CallsRefer /\ TokensRefer

LEMMA InitTyped == Init => Typed
  BY RotationAssumption, ReasonAssumption
  DEF Init, Typed, TypeOK, CallsRefer, TokensRefer, Time, SessionRow, TokenRow, CallState,
      PCs, Phases, Idle, NoSession

LEMMA IdleTyped == Idle \in CallState
  BY RotationAssumption DEF Idle, CallState, PCs, Time

\* Replacing the record of one request keeps the type of call.
LEMMA StartTyped ==
  ASSUME Typed, NEW c \in Calls, NEW rec \in CallState, Start(c, rec)
  PROVE  call' \in [Calls -> CallState]
  BY DEF Typed, TypeOK, Start

LEMMA FinishTyped ==
  ASSUME Typed, NEW c \in Calls, Finish(c)
  PROVE  call' \in [Calls -> CallState]
  BY IdleTyped DEF Typed, TypeOK, Finish

LEMMA MoveTyped ==
  ASSUME NEW r \in CallState, NEW pc \in PCs
  PROVE  [r EXCEPT !.pc = pc] \in CallState
  BY DEF CallState

LEMMA ContinueTyped ==
  ASSUME Typed, NEW c \in Calls, NEW pc \in PCs, Continue(c, pc)
  PROVE  call' \in [Calls -> CallState]
<1>1. call \in [Calls -> CallState]
  BY DEF Typed, TypeOK
<1>2. call' = [call EXCEPT ![c] = [call[c] EXCEPT !.pc = pc]]
  BY DEF Continue
<1>3. [call[c] EXCEPT !.pc = pc] \in CallState
  BY <1>1, MoveTyped
<1> QED
  BY <1>1, <1>2, <1>3

LEMMA OpenReadTyped ==
  ASSUME Typed, NEW c \in Calls, OpenRead(c), ended' \subseteq Sessions
  PROVE  Typed'
<1> DEFINE rec == [Idle EXCEPT !.pc = "open", !.at = now, !.stamp = userStamp]
<1>1. rec \in CallState
  BY IdleTyped DEF Typed, TypeOK, CallState, PCs
<1>2. TypeOK'
  BY <1>1, StartTyped DEF OpenRead, Typed, TypeOK
<1>3. CallsRefer' /\ TokensRefer'
  BY IdleTyped DEF OpenRead, Start, Typed, TypeOK, CallsRefer, TokensRefer, CallState
<1> QED
  BY <1>2, <1>3 DEF Typed

LEMMA OpenInsertTyped ==
  ASSUME Typed, NEW c \in Calls, OpenInsert(c), ended' \subseteq Sessions
  PROVE  Typed'
<1>1. PICK s \in Sessions :
        /\ session[s].phase = "unborn"
        /\ session' = [session EXCEPT ![s] =
             [phase |-> "row", stamp |-> call[c].stamp, authAt |-> call[c].at,
              lastActive |-> call[c].at, absExpires |-> call[c].at + AbsoluteLifetime,
              reason |-> None]]
        /\ Start(c, [Idle EXCEPT !.pc = "issue", !.ses = s])
  BY DEF OpenInsert
<1>2. [Idle EXCEPT !.pc = "issue", !.ses = s] \in CallState
  BY IdleTyped DEF CallState, PCs
<1>3. session' \in [Sessions -> SessionRow]
  BY <1>1, RotationAssumption DEF Typed, TypeOK, SessionRow, Phases, CallState, Time
<1>4. TypeOK'
  BY <1>1, <1>2, <1>3, StartTyped DEF OpenInsert, Typed, TypeOK
<1>5. CallsRefer' /\ TokensRefer'
  BY <1>1, IdleTyped DEF OpenInsert, Start, Typed, TypeOK, CallsRefer, TokensRefer, CallState
<1> QED
  BY <1>4, <1>5 DEF Typed

\* The two bulk updates keep the tables' types and the identity of the rows.
LEMMA RevokedTyped ==
  ASSUME Typed, NEW S, NEW why \in Reasons
  PROVE  /\ Revoked(S, why) \in [Sessions -> SessionRow]
         /\ \A s \in Sessions : Revoked(S, why)[s].phase = session[s].phase
<1>1. session \in [Sessions -> SessionRow]
  BY DEF Typed, TypeOK
<1>2. ASSUME NEW r \in SessionRow
      PROVE  /\ [r EXCEPT !.reason = why] \in SessionRow
             /\ [r EXCEPT !.reason = why].phase = r.phase
  BY DEF SessionRow
<1> QED
  BY <1>1, <1>2 DEF Revoked

LEMMA ExpiredTyped ==
  ASSUME Typed, NEW S
  PROVE  /\ Expired(S) \in [Tokens -> TokenRow]
         /\ \A t \in Tokens : /\ Expired(S)[t].phase = token[t].phase
                              /\ Expired(S)[t].session = token[t].session
<1>1. token \in [Tokens -> TokenRow] /\ now \in Nat
  BY RotationAssumption DEF Typed, TypeOK, Time
<1>2. ASSUME NEW r \in TokenRow
      PROVE  /\ [r EXCEPT !.expires = now] \in TokenRow
             /\ [r EXCEPT !.expires = now].phase = r.phase
             /\ [r EXCEPT !.expires = now].session = r.session
  BY <1>1 DEF TokenRow
<1> QED
  BY <1>1, <1>2 DEF Expired

LEMMA LookupReuseTyped ==
  ASSUME Typed, NEW c \in Calls, NEW t \in Tokens, LookupReuse(c, t), ended' \subseteq Sessions
  PROVE  Typed'
<1>1. token[t].session \in Sessions
  BY DEF LookupReuse, Typed, TokensRefer
<1>2. [Idle EXCEPT !.pc = "reuse", !.tok = t, !.ses = token[t].session]
       \in CallState
  BY <1>1, IdleTyped DEF CallState, PCs
<1>3. TypeOK'
  BY <1>2, StartTyped DEF LookupReuse, Typed, TypeOK
<1>4. CallsRefer' /\ TokensRefer'
  BY IdleTyped DEF LookupReuse, Start, Typed, TypeOK, CallsRefer, TokensRefer, CallState,
     SessionExists, Live, Reasons
<1> QED
  BY <1>3, <1>4 DEF Typed

LEMMA LookupProceedTyped ==
  ASSUME Typed, NEW c \in Calls, NEW t \in Tokens, LookupProceed(c, t), ended' \subseteq Sessions
  PROVE  Typed'
<1>1. /\ token[t].session \in Sessions
     /\ now \in Time
     /\ session[token[t].session].stamp \in 0..MaxStamp
     /\ (token[t].session \in ended) \in BOOLEAN
  BY DEF LookupProceed, Typed, TypeOK, TokensRefer, SessionRow
<1>2. [Idle EXCEPT !.pc = "stamp", !.tok = t, !.ses = token[t].session,
                           !.at = now, !.stamp = session[token[t].session].stamp,
                           !.late = token[t].session \in ended]
       \in CallState
  BY <1>1, IdleTyped DEF CallState, PCs
<1>3. TypeOK'
  BY <1>2, StartTyped DEF LookupProceed, Typed, TypeOK
<1>4. CallsRefer' /\ TokensRefer'
  BY IdleTyped DEF LookupProceed, Start, Typed, TypeOK, CallsRefer, TokensRefer, CallState,
     SessionExists, Live, Reasons
<1> QED
  BY <1>3, <1>4 DEF Typed

LEMMA RevokeSessionTyped ==
  ASSUME Typed, NEW c \in Calls, NEW s \in Sessions, RevokeSession(c, s), ended' \subseteq Sessions
  PROVE  Typed'
<1>1. [Idle EXCEPT !.pc = "revokeOne", !.ses = s]
       \in CallState
  BY IdleTyped DEF CallState, PCs
<1>2. TypeOK'
  BY <1>1, StartTyped DEF RevokeSession, Typed, TypeOK
<1>3. CallsRefer' /\ TokensRefer'
  BY IdleTyped DEF RevokeSession, Start, Typed, TypeOK, CallsRefer, TokensRefer, CallState,
     SessionExists, Live, Reasons
<1> QED
  BY <1>2, <1>3 DEF Typed

LEMMA LogoutTyped ==
  ASSUME Typed, NEW c \in Calls, NEW s \in Sessions, Logout(c, s), ended' \subseteq Sessions
  PROVE  Typed'
<1>1. [Idle EXCEPT !.pc = "expireOne", !.ses = s]
       \in CallState
  BY IdleTyped DEF CallState, PCs
<1>2. /\ session' \in [Sessions -> SessionRow]
     /\ \A x \in Sessions : session'[x].phase = session[x].phase
  BY RevokedTyped DEF Logout, Reasons
<1>3. TypeOK'
  BY <1>1, <1>2, StartTyped DEF Logout, Typed, TypeOK
<1>4. CallsRefer' /\ TokensRefer'
  BY <1>2, IdleTyped DEF Logout, Start, Typed, TypeOK, CallsRefer, TokensRefer, CallState,
     SessionExists, Live, Reasons
<1> QED
  BY <1>3, <1>4 DEF Typed

LEMMA RevokeOthersTyped ==
  ASSUME Typed, NEW c \in Calls, NEW s \in Sessions, RevokeOthers(c, s), ended' \subseteq Sessions
  PROVE  Typed'
<1>1. {o \in Sessions \ {s} : Live(o)} \subseteq Sessions
  OBVIOUS
<1>2. [Idle EXCEPT !.pc = "revokeAll", !.ses = s,
                           !.listed = {o \in Sessions \ {s} : Live(o)},
                           !.why = "UserRevokedAllSessions"]
       \in CallState
  BY <1>1, IdleTyped DEF CallState, PCs, Reasons
<1>3. TypeOK'
  BY <1>2, StartTyped DEF RevokeOthers, Typed, TypeOK
<1>4. CallsRefer' /\ TokensRefer'
  BY IdleTyped DEF RevokeOthers, Start, Typed, TypeOK, CallsRefer, TokensRefer, CallState,
     SessionExists, Live, Reasons
<1> QED
  BY <1>3, <1>4 DEF Typed

LEMMA RevokeEveryTyped ==
  ASSUME Typed, NEW c \in Calls, NEW why \in {"AdminRevoked", "MfaDisabled"}, RevokeEvery(c, why), ended' \subseteq Sessions
  PROVE  Typed'
<1>1. [Idle EXCEPT !.pc = "revokeAll", !.why = why]
       \in CallState
  BY IdleTyped DEF CallState, PCs, Reasons
<1>2. TypeOK'
  BY <1>1, StartTyped DEF RevokeEvery, Typed, TypeOK
<1>3. CallsRefer' /\ TokensRefer'
  BY IdleTyped DEF RevokeEvery, Start, Typed, TypeOK, CallsRefer, TokensRefer, CallState,
     SessionExists, Live, Reasons
<1> QED
  BY <1>2, <1>3 DEF Typed

LEMMA ChangePasswordTyped ==
  ASSUME Typed, NEW c \in Calls, NEW s \in Sessions, ChangePassword(c, s), ended' \subseteq Sessions
  PROVE  Typed'
<1>1. lastStamp + 1 \in 0..MaxStamp
  BY RotationAssumption DEF ChangePassword, Typed, TypeOK
<1>2. [Idle EXCEPT !.pc = "restamp", !.ses = s, !.stamp = lastStamp + 1,
                           !.why = "PasswordChanged"]
       \in CallState
  BY <1>1, IdleTyped DEF CallState, PCs, Reasons
<1>3. TypeOK'
  BY <1>2, <1>1, StartTyped DEF ChangePassword, Typed, TypeOK
<1>4. CallsRefer' /\ TokensRefer'
  BY IdleTyped DEF ChangePassword, Start, Typed, TypeOK, CallsRefer, TokensRefer, CallState,
     SessionExists, Live, Reasons
<1> QED
  BY <1>3, <1>4 DEF Typed

LEMMA ResetPasswordTyped ==
  ASSUME Typed, NEW c \in Calls, ResetPassword(c), ended' \subseteq Sessions
  PROVE  Typed'
<1>1. lastStamp + 1 \in 0..MaxStamp
  BY RotationAssumption DEF ResetPassword, Typed, TypeOK
<1>2. [Idle EXCEPT !.pc = "saveStamp", !.stamp = lastStamp + 1,
                           !.why = "PasswordReset"]
       \in CallState
  BY <1>1, IdleTyped DEF CallState, PCs, Reasons
<1>3. TypeOK'
  BY <1>2, <1>1, StartTyped DEF ResetPassword, Typed, TypeOK
<1>4. CallsRefer' /\ TokensRefer'
  BY IdleTyped DEF ResetPassword, Start, Typed, TypeOK, CallsRefer, TokensRefer, CallState,
     SessionExists, Live, Reasons
<1> QED
  BY <1>3, <1>4 DEF Typed

\* What the writes of a rotation do to the tables.
LEMMA NewTokenTyped ==
  ASSUME Typed, NEW s \in Sessions
  PROVE  NewToken(s) \in TokenRow
  BY DEF NewToken, Typed, TypeOK, TokenRow, SessionRow, Phases

LEMMA RotatedTyped ==
  ASSUME Typed, NEW t \in Tokens, NEW n \in Tokens,
         token[t].phase # "unborn", token[n].phase = "unborn"
  PROVE  /\ Rotated(t, n) \in [Tokens -> TokenRow]
         /\ Rotated(t, n)[n] = NewToken(token[t].session)
         /\ \A x \in Tokens \ {n} : /\ Rotated(t, n)[x].phase = token[x].phase
                                     /\ Rotated(t, n)[x].session = token[x].session
<1>1. token \in [Tokens -> TokenRow] /\ t # n
  BY DEF Typed, TypeOK
<1>2. NewToken(token[t].session) \in TokenRow
  BY NewTokenTyped DEF Typed, TokensRefer
<1>3. ASSUME NEW r \in TokenRow
      PROVE  /\ [r EXCEPT !.used = TRUE, !.next = n] \in TokenRow
             /\ [r EXCEPT !.used = TRUE, !.next = n].phase = r.phase
             /\ [r EXCEPT !.used = TRUE, !.next = n].session = r.session
  BY DEF TokenRow
<1>4. Rotated(t, n) = [token EXCEPT ![t] = [token[t] EXCEPT !.used = TRUE, !.next = n],
                                    ![n] = NewToken(token[t].session)]
  BY <1>1 DEF Rotated
<1> QED
  BY <1>1, <1>2, <1>3, <1>4

LEMMA PurgedTyped ==
  ASSUME Typed, NEW T, \A t \in Tokens \cap T : token[t].phase # "unborn"
  PROVE  /\ Purged(T) \in [Tokens -> TokenRow]
         /\ \A t \in Tokens : /\ Purged(T)[t].phase # "unborn" <=> token[t].phase # "unborn"
                              /\ Purged(T)[t].session = token[t].session
<1>1. token \in [Tokens -> TokenRow]
  BY DEF Typed, TypeOK
<1>2. ASSUME NEW r \in TokenRow
      PROVE  /\ [r EXCEPT !.phase = "purged", !.expires = 0, !.next = None] \in TokenRow
             /\ [r EXCEPT !.phase = "purged", !.expires = 0, !.next = None].phase = "purged"
             /\ [r EXCEPT !.phase = "purged", !.expires = 0, !.next = None].session = r.session
  BY DEF TokenRow, Phases
<1> QED
  BY <1>1, <1>2 DEF Purged

\* The tables stay typed and the rows keep their identity: enough for the
\* references of requests that do not move.
RowsKept ==
  /\ session' \in [Sessions -> SessionRow]
  /\ token' \in [Tokens -> TokenRow]
  /\ \A s \in Sessions : session[s].phase # "unborn" => session'[s].phase # "unborn"
  /\ \A t \in Tokens : token[t].phase # "unborn" =>
       token'[t].phase # "unborn" /\ token'[t].session = token[t].session
  /\ \A t \in Tokens : token'[t].phase # "unborn" =>
       token'[t].session \in Sessions /\ session'[token'[t].session].phase # "unborn"

LEMMA FinishKeeps ==
  ASSUME Typed, NEW c \in Calls, Finish(c), RowsKept,
         UNCHANGED <<now, userStamp, lastStamp, cleaner>>, ended' \subseteq Sessions
  PROVE  Typed'
<1>1. TypeOK'
  BY FinishTyped DEF Typed, TypeOK, RowsKept
<1>2. CallsRefer'
  BY IdleTyped DEF Finish, Typed, TypeOK, CallsRefer, RowsKept, Idle
<1>3. TokensRefer'
  BY DEF TokensRefer, RowsKept
<1> QED
  BY <1>1, <1>2, <1>3 DEF Typed

LEMMA SameRowsKept == ASSUME Typed, UNCHANGED <<session, token>> PROVE RowsKept
  BY DEF Typed, TypeOK, TokensRefer, RowsKept

LEMMA RotateWriteKeeps ==
  ASSUME Typed, NEW c \in Calls, call[c].pc = "commit", RotateWrite(c)
  PROVE  RowsKept
<1>1. PICK n \in Tokens : token[n].phase = "unborn" /\ token' = Rotated(call[c].tok, n)
  BY DEF RotateWrite
<1>2. /\ call[c].tok \in Tokens /\ token[call[c].tok].phase # "unborn"
      /\ token[call[c].tok].session \in Sessions
      /\ session[token[call[c].tok].session].phase # "unborn"
  BY DEF Typed, CallsRefer, TokensRefer
<1>3. /\ session' \in [Sessions -> SessionRow]
      /\ \A s \in Sessions : session'[s].phase = session[s].phase
  <2>1. call[c].at \in Time
    BY DEF Typed, TypeOK, CallState
  <2>2. \A r \in SessionRow : /\ [r EXCEPT !.lastActive = call[c].at] \in SessionRow
                              /\ [r EXCEPT !.lastActive = call[c].at].phase = r.phase
    BY <2>1 DEF SessionRow
  <2>3. session' = [session EXCEPT ![call[c].ses] =
                      [session[call[c].ses] EXCEPT !.lastActive = call[c].at]]
    BY DEF RotateWrite
  <2> QED
    BY <2>2, <2>3 DEF Typed, TypeOK
<1>4. /\ token' \in [Tokens -> TokenRow]
      /\ token'[n] = NewToken(token[call[c].tok].session)
      /\ \A x \in Tokens \ {n} : token'[x].phase = token[x].phase
                                 /\ token'[x].session = token[x].session
  BY <1>1, <1>2, RotatedTyped
<1> QED
  BY <1>1, <1>2, <1>3, <1>4 DEF Typed, TokensRefer, RowsKept, NewToken

\* A request that moves on to pc keeps what it refers to.
LEMMA MoveKeeps ==
  ASSUME Typed, NEW c \in Calls, NEW pc \in PCs, Continue(c, pc), RowsKept,
         UNCHANGED <<now, lastStamp, cleaner>>, userStamp' \in 0..MaxStamp,
         ended' \subseteq Sessions,
         pc \in {"commit", "reuse"} => call[c].pc \in {"stamp", "commit"},
         pc \in {"issue", "stamp", "revokeOne", "restamp"} => FALSE,
         pc = "expireOne" => call[c].pc = "revokeOne",
         pc \in {"saveStamp", "revokeAll"} => call[c].pc \in {"restamp", "saveStamp"}
  PROVE  Typed'
<1>1. TypeOK'
  BY ContinueTyped DEF Typed, TypeOK, RowsKept
<1>2. CallsRefer'
  <2> SUFFICES ASSUME NEW d \in Calls
               PROVE  /\ call'[d].pc \in {"issue", "stamp", "commit", "reuse", "revokeOne",
                                          "expireOne", "restamp"}
                           => call'[d].ses \in Sessions /\ session'[call'[d].ses].phase # "unborn"
                      /\ call'[d].pc \in {"stamp", "commit", "reuse"}
                           => /\ call'[d].tok \in Tokens
                              /\ token'[call'[d].tok].phase # "unborn"
                              /\ token'[call'[d].tok].session = call'[d].ses
                      /\ call'[d].pc \in {"restamp", "saveStamp", "revokeAll"}
                           => call'[d].why \in Reasons
    BY DEF CallsRefer
  <2>1. call'[d].ses = call[d].ses /\ call'[d].tok = call[d].tok /\ call'[d].why = call[d].why
    BY DEF Continue, Typed, TypeOK, CallState
  <2>2. d # c => call'[d].pc = call[d].pc
    BY DEF Continue, Typed, TypeOK
  <2>3. call'[c].pc = pc
    BY DEF Continue, Typed, TypeOK, CallState
  <2> QED
    BY <2>1, <2>2, <2>3 DEF Typed, CallsRefer, RowsKept
<1>3. TokensRefer'
  BY DEF TokensRefer, RowsKept
<1> QED
  BY <1>1, <1>2, <1>3 DEF Typed

LEMMA RetryKeeps ==
  ASSUME Typed, NEW c \in Calls, NEW dirty \in BOOLEAN, Retry(c, dirty), RowsKept,
         call[c].pc = "commit",
         UNCHANGED <<now, userStamp, lastStamp, cleaner>>, ended' \subseteq Sessions
  PROVE  Typed'
<1> DEFINE more == call[c].tries + 1
<1>1. call' = [call EXCEPT ![c] = [call[c] EXCEPT !.pc = "reuse", !.dirty = dirty, !.tries = more]]
  BY DEF Retry
<1>2. call[c] \in CallState /\ more \in Nat
  BY DEF Typed, TypeOK, CallState
<1> HIDE DEF more
<1>3. [call[c] EXCEPT !.pc = "reuse", !.dirty = dirty, !.tries = more] \in CallState
  BY <1>2 DEF CallState, PCs
<1>4. TypeOK'
  BY <1>1, <1>3 DEF Typed, TypeOK, RowsKept
<1>5. CallsRefer'
  BY <1>1, <1>2 DEF Typed, TypeOK, CallsRefer, RowsKept, CallState
<1>6. TokensRefer'
  BY DEF TokensRefer, RowsKept
<1> QED
  BY <1>4, <1>5, <1>6 DEF Typed

LEMMA IssueTokenTyped ==
  ASSUME Typed, NEW c \in Calls, IssueToken(c), ended' \subseteq Sessions
  PROVE  Typed'
<1>1. CASE SessionExists(call[c].ses)
  <2>1. PICK n \in Tokens : /\ token[n].phase = "unborn"
                            /\ token' = [token EXCEPT ![n] = NewToken(call[c].ses)]
    BY <1>1 DEF IssueToken
  <2>2. call[c].ses \in Sessions /\ session[call[c].ses].phase # "unborn"
    BY DEF IssueToken, Typed, CallsRefer
  <2>3. NewToken(call[c].ses) \in TokenRow /\ NewToken(call[c].ses).session = call[c].ses
    BY <2>2, NewTokenTyped DEF NewToken
  <2>4. RowsKept
    BY <2>1, <2>2, <2>3 DEF IssueToken, RowsKept, Typed, TypeOK, TokensRefer
  <2> QED
    BY <2>4, FinishKeeps DEF IssueToken
<1>2. CASE ~ SessionExists(call[c].ses)
  BY <1>2, SameRowsKept, FinishKeeps DEF IssueToken
<1> QED
  BY <1>1, <1>2

LEMMA CheckStampTyped ==
  ASSUME Typed, NEW c \in Calls, CheckStamp(c), ended' \subseteq Sessions
  PROVE  Typed'
<1>1. RowsKept
  BY SameRowsKept DEF CheckStamp
<1>2. CASE Continue(c, "commit")
  BY <1>1, <1>2, MoveKeeps DEF CheckStamp, PCs, Typed, TypeOK
<1>3. CASE Finish(c)
  BY <1>1, <1>3, FinishKeeps DEF CheckStamp
<1> QED
  BY <1>2, <1>3 DEF CheckStamp

LEMMA RotateCommitTyped ==
  ASSUME Typed, NEW c \in Calls, RotateCommit(c), ended' \subseteq Sessions
  PROVE  Typed'
<1>1. RowsKept
  BY SameRowsKept, RotateWriteKeeps DEF RotateCommit
<1> QED
  BY <1>1, FinishKeeps DEF RotateCommit

LEMMA RetryTyped ==
  ASSUME Typed, NEW c \in Calls, SaveFails(c) \/ CommitFails(c) \/ CommitAckLost(c),
         ended' \subseteq Sessions
  PROVE  Typed'
<1>1. CASE SaveFails(c) \/ CommitFails(c)
  BY <1>1, SameRowsKept, RetryKeeps DEF SaveFails, CommitFails, CanRetry
<1>2. CASE CommitAckLost(c)
  <2>1. RowsKept
    BY <1>2, RotateWriteKeeps DEF CommitAckLost, CanRetry
  <2> QED
    BY <1>2, <2>1, RetryKeeps DEF CommitAckLost, CanRetry
<1> QED
  BY <1>1, <1>2

LEMMA ReuseCommitTyped ==
  ASSUME Typed, NEW c \in Calls, ReuseCommit(c), ended' \subseteq Sessions
  PROVE  Typed'
<1>1. CASE ~ RowsRemain(c)
  BY <1>1, SameRowsKept, FinishKeeps DEF ReuseCommit
<1>2. CASE RowsRemain(c)
  <2>1. /\ call[c].tok \in Tokens /\ token[call[c].tok].phase # "unborn"
        /\ token[call[c].tok].session = call[c].ses
        /\ call[c].ses \in Sessions
    BY DEF ReuseCommit, Typed, CallsRefer
  <2> DEFINE active == IF call[c].dirty THEN call[c].at ELSE session[call[c].ses].lastActive
  <2>2. active \in Time
    BY <2>1 DEF Typed, TypeOK, CallState, SessionRow
  <2>3. session' = [session EXCEPT ![call[c].ses] =
                      [session[call[c].ses] EXCEPT !.reason = "TokenReuseDetected",
                                                   !.lastActive = active]]
    BY <1>2, <2>1 DEF ReuseCommit, Typed, TypeOK, SessionRow
  <2> HIDE DEF active
  <2>4. \A r \in SessionRow :
          /\ [r EXCEPT !.reason = "TokenReuseDetected", !.lastActive = active] \in SessionRow
          /\ [r EXCEPT !.reason = "TokenReuseDetected", !.lastActive = active].phase = r.phase
    BY <2>2 DEF SessionRow, Reasons
  <2>5. /\ session' \in [Sessions -> SessionRow]
        /\ \A s \in Sessions : session'[s].phase = session[s].phase
    BY <2>3, <2>4 DEF Typed, TypeOK
  <2>6. CASE call[c].dirty
    <3>1. PICK n \in Tokens : token[n].phase = "unborn" /\ token' = Rotated(call[c].tok, n)
      BY <1>2, <2>6 DEF ReuseCommit
    <3>2. /\ token' \in [Tokens -> TokenRow]
          /\ token'[n] = NewToken(token[call[c].tok].session)
          /\ \A x \in Tokens \ {n} : token'[x].phase = token[x].phase
                                     /\ token'[x].session = token[x].session
      BY <2>1, <3>1, RotatedTyped
    <3>3. RowsKept
      BY <2>1, <2>5, <3>1, <3>2 DEF Typed, TokensRefer, RowsKept, NewToken
    <3> QED
      BY <3>3, FinishKeeps DEF ReuseCommit
  <2>7. CASE ~ call[c].dirty
    <3>1. token' = token
      BY <1>2, <2>7 DEF ReuseCommit
    <3>2. RowsKept
      BY <2>5, <3>1 DEF Typed, TypeOK, TokensRefer, RowsKept
    <3> QED
      BY <3>2, FinishKeeps DEF ReuseCommit
  <2> QED
    BY <2>6, <2>7
<1> QED
  BY <1>1, <1>2

\* Revocations and expiries: RowsKept, then the request finishes or moves.
LEMMA RevokedKeeps ==
  ASSUME Typed, NEW S, NEW why \in Reasons, session' = Revoked(S, why), token' = token
  PROVE  RowsKept
  BY RevokedTyped DEF Typed, TypeOK, TokensRefer, RowsKept

LEMMA ExpiredKeeps ==
  ASSUME Typed, NEW S, token' = Expired(S), session' = session
  PROVE  RowsKept
  BY ExpiredTyped DEF Typed, TypeOK, TokensRefer, RowsKept

LEMMA RevokeOneTyped ==
  ASSUME Typed, NEW c \in Calls, RevokeOne(c), ended' \subseteq Sessions
  PROVE  Typed'
<1>1. RowsKept
  BY RevokedKeeps DEF RevokeOne, Reasons
<1> QED
  BY <1>1, MoveKeeps DEF RevokeOne, PCs, Typed, TypeOK

LEMMA RevokeAllTyped ==
  ASSUME Typed, NEW c \in Calls, RevokeAll(c), ended' \subseteq Sessions
  PROVE  Typed'
<1>1. call[c].why \in Reasons
  BY DEF RevokeAll, Typed, CallsRefer
<1>2. RowsKept
  BY <1>1, RevokedKeeps DEF RevokeAll
<1>3. CASE Finish(c)
  BY <1>2, <1>3, FinishKeeps DEF RevokeAll
<1>4. CASE Continue(c, "expireListed")
  BY <1>2, <1>4, MoveKeeps DEF RevokeAll, PCs, Typed, TypeOK
<1> QED
  BY <1>3, <1>4 DEF RevokeAll

LEMMA ExpireTyped ==
  ASSUME Typed, NEW c \in Calls, ExpireOne(c) \/ ExpireListed(c), ended' \subseteq Sessions
  PROVE  Typed'
<1>1. RowsKept
  BY ExpiredKeeps DEF ExpireOne, ExpireListed
<1> QED
  BY <1>1, FinishKeeps DEF ExpireOne, ExpireListed

LEMMA RestampTyped ==
  ASSUME Typed, NEW c \in Calls, Restamp(c), ended' \subseteq Sessions
  PROVE  Typed'
<1>1. call[c].stamp \in 0..MaxStamp /\ call[c].ses \in Sessions
  BY DEF Restamp, Typed, TypeOK, CallState, CallsRefer
<1>2. \A r \in SessionRow : /\ [r EXCEPT !.stamp = call[c].stamp] \in SessionRow
                            /\ [r EXCEPT !.stamp = call[c].stamp].phase = r.phase
  BY <1>1 DEF SessionRow
<1>3. \/ session' = session
      \/ session' = [session EXCEPT ![call[c].ses] =
                        [session[call[c].ses] EXCEPT !.stamp = call[c].stamp]]
  BY DEF Restamp
<1>4. RowsKept
  BY <1>1, <1>2, <1>3 DEF Restamp, Typed, TypeOK, TokensRefer, RowsKept
<1> QED
  BY <1>4, MoveKeeps DEF Restamp, PCs, Typed, TypeOK

LEMMA SaveStampTyped ==
  ASSUME Typed, NEW c \in Calls, SaveStamp(c), ended' \subseteq Sessions
  PROVE  Typed'
<1>1. userStamp' \in 0..MaxStamp
  BY DEF SaveStamp, Typed, TypeOK, CallState
<1> QED
  BY <1>1, SameRowsKept, MoveKeeps DEF SaveStamp, PCs

LEMMA AbortTyped ==
  ASSUME Typed, NEW c \in Calls, Abort(c), ended' \subseteq Sessions
  PROVE  Typed'
  BY SameRowsKept, FinishKeeps DEF Abort

\* Deleting rows keeps the identity of all rows.
LEMMA PurgedKeeps ==
  ASSUME Typed, NEW T, \A t \in T : t \in Tokens /\ token[t].phase # "unborn",
         token' = Purged(T), session' \in [Sessions -> SessionRow],
         \A s \in Sessions : session[s].phase # "unborn" => session'[s].phase # "unborn"
  PROVE  RowsKept
<1>1. \A t \in Tokens \cap T : token[t].phase # "unborn"
  OBVIOUS
<1>2. Purged(T) \in [Tokens -> TokenRow]
  BY <1>1, PurgedTyped
<1>3. \A t \in Tokens : /\ Purged(T)[t].phase # "unborn" <=> token[t].phase # "unborn"
                        /\ Purged(T)[t].session = token[t].session
  BY <1>1, PurgedTyped
<1>4. token' \in [Tokens -> TokenRow]
  BY <1>2
<1>5. \A t \in Tokens : /\ token'[t].phase # "unborn" <=> token[t].phase # "unborn"
                        /\ token'[t].session = token[t].session
  BY <1>3
<1>6. \A t \in Tokens : token[t].phase # "unborn" =>
        token[t].session \in Sessions /\ session[token[t].session].phase # "unborn"
  BY DEF Typed, TokensRefer
<1> QED
  BY <1>4, <1>5, <1>6 DEF RowsKept

LEMMA CleanupTokensTyped ==
  ASSUME Typed, CleanupTokens, ended' \subseteq Sessions
  PROVE  Typed'
<1>1. PICK B \in SUBSET Tokens :
        /\ B \subseteq {t \in Tokens : TokenExists(t) /\ token[t].expires <= now}
        /\ token' = Purged(B)
  BY DEF CleanupTokens, IsBatch
<1>2. \A t \in B : t \in Tokens /\ token[t].phase # "unborn"
  BY <1>1 DEF TokenExists
<1>3. RowsKept
  BY <1>1, <1>2, PurgedKeeps DEF CleanupTokens, Typed, TypeOK
<1>4. cleaner' \in [pc : {"idle", "sessions"}, at : Time]
  BY DEF CleanupTokens, Typed, TypeOK
<1>5. TypeOK'
  BY <1>3, <1>4 DEF CleanupTokens, Typed, TypeOK, RowsKept
<1>6. CallsRefer' /\ TokensRefer'
  BY <1>3 DEF CleanupTokens, Typed, TypeOK, CallsRefer, TokensRefer, RowsKept
<1> QED
  BY <1>5, <1>6 DEF Typed

LEMMA CleanupSessionsTyped ==
  ASSUME Typed, CleanupSessions, ended' \subseteq Sessions
  PROVE  Typed'
<1>1. PICK B \in SUBSET Sessions :
        /\ session' = [s \in Sessions |-> IF s \in B THEN NoSession("purged") ELSE session[s]]
        /\ token' = Purged({t \in Tokens : TokenExists(t) /\ token[t].session \in B})
  BY DEF CleanupSessions
<1> DEFINE T == {t \in Tokens : TokenExists(t) /\ token[t].session \in B}
<1>2. \A t \in T : t \in Tokens /\ token[t].phase # "unborn"
  BY DEF TokenExists
<1>3. NoSession("purged") \in SessionRow /\ NoSession("purged").phase = "purged"
  BY RotationAssumption DEF NoSession, SessionRow, Phases, Time
<1>4. session' \in [Sessions -> SessionRow]
  BY <1>1, <1>3 DEF Typed, TypeOK
<1>5. \A s \in Sessions : session[s].phase # "unborn" => session'[s].phase # "unborn"
  BY <1>1, <1>3
<1>6. RowsKept
  <2> HIDE DEF T
  <2> QED BY <1>1, <1>2, <1>4, <1>5, PurgedKeeps DEF T
<1>8. cleaner' \in [pc : {"idle", "sessions"}, at : Time]
  BY RotationAssumption DEF CleanupSessions, Time
<1>9. TypeOK'
  BY <1>6, <1>8 DEF CleanupSessions, Typed, TypeOK, RowsKept
<1>10. CallsRefer' /\ TokensRefer'
  BY <1>6 DEF CleanupSessions, Typed, TypeOK, CallsRefer, TokensRefer, RowsKept
<1> QED
  BY <1>9, <1>10 DEF Typed

LEMMA CleanupFailsTyped ==
  ASSUME Typed, CleanupFails, ended' \subseteq Sessions
  PROVE  Typed'
<1>1. cleaner' \in [pc : {"idle", "sessions"}, at : Time]
  BY RotationAssumption DEF CleanupFails, Time
<1> QED
  BY <1>1 DEF CleanupFails, Typed, TypeOK, CallsRefer, TokensRefer

LEMMA TickTyped ==
  ASSUME Typed, Tick, ended' \subseteq Sessions
  PROVE  Typed'
<1>1. now' \in Time
  BY RotationAssumption DEF Tick, Typed, TypeOK, Time
<1> QED
  BY <1>1 DEF Tick, Typed, TypeOK, CallsRefer, TokensRefer

LEMMA NextTyped ==
  ASSUME Typed, [Next]_vars
  PROVE  Typed'
<1>1. CASE UNCHANGED vars
  BY <1>1 DEF vars, Typed, TypeOK, CallsRefer, TokensRefer
<1>2. CASE Next
  <2>1. ended' \subseteq Sessions
    BY <1>2 DEF Next, Typed, TypeOK
  <2>2. ASSUME NEW c \in Calls, Begin(c) PROVE Typed'
    BY <2>1, <2>2, OpenReadTyped, LookupReuseTyped, LookupProceedTyped, LogoutTyped,
       RevokeSessionTyped, RevokeOthersTyped, ChangePasswordTyped, RevokeEveryTyped,
       ResetPasswordTyped DEF Begin
  <2>3. ASSUME NEW c \in Calls, Proceed(c) PROVE Typed'
    BY <2>1, <2>3, OpenInsertTyped, IssueTokenTyped, CheckStampTyped, RotateCommitTyped,
       ReuseCommitTyped, RevokeOneTyped, ExpireTyped, RevokeAllTyped, RestampTyped,
       SaveStampTyped DEF Proceed
  <2>4. ASSUME NEW c \in Calls, Fault(c) PROVE Typed'
    BY <2>1, <2>4, RetryTyped, AbortTyped DEF Fault
  <2>5. CASE Cleanup
    BY <2>1, <2>5, CleanupTokensTyped, CleanupSessionsTyped, CleanupFailsTyped DEF Cleanup
  <2>6. CASE Tick
    BY <2>1, <2>6, TickTyped
  <2> QED
    BY <1>2, <2>2, <2>3, <2>4, <2>5, <2>6 DEF Next, Step
<1> QED
  BY <1>1, <1>2

\* Requests, the worker and the clock keep every table typed, and the requests
\* in flight and the token rows only name rows that were inserted.
THEOREM TypedAlways == Spec => []Typed
  BY InitTyped, NextTyped, PTL DEF Spec

\* TypeOK holds for every number of sessions, tokens and concurrent requests.
THEOREM TypeCorrect == Spec => []TypeOK
<1>1. Typed => TypeOK
  BY DEF Typed
<1> QED
  BY <1>1, TypedAlways, PTL
=============================================================================
