-------------------------- MODULE RefreshRotation --------------------------
(***************************************************************************)
(* Sessions and refresh tokens of one user, as rows of a READ COMMITTED    *)
(* database that takes no row lock on a read and carries no concurrency    *)
(* token.  A "call" is one HTTP request being served; every await between  *)
(* two database statements is a boundary between two actions, so the       *)
(* requests interleave there.                                              *)
(*                                                                         *)
(* Abstractions: UsedAt is kept as a Boolean, RevokedAt and                *)
(* RevocationReason as one field (None while live), a security stamp as    *)
(* its serial number (each bump draws a fresh one), a token as the         *)
(* identity of its row.  Access tokens, audit entries and metrics write    *)
(* nothing this state depends on and are left out.                         *)
(***************************************************************************)
EXTENDS Integers, FiniteSets

CONSTANTS
  Sessions,          \* identities of session rows
  Tokens,            \* identities of refresh-token rows
  Calls,             \* requests served at the same time
  Ops,               \* the kinds of request (and fault) the environment issues
  AbsoluteLifetime,  \* AuthSessionOptions.AbsoluteLifetime
  InactivityWindow,  \* AuthSessionOptions.InactivityWindow
  BatchSize,         \* CleanupOptions.BatchSize
  MaxRetries,        \* EnableRetryOnFailure(maxRetryCount)
  MaxTime,           \* bound: last instant of the clock
  MaxStamp,          \* bound: stamp changes
  None               \* SQL NULL

ASSUME RotationAssumption ==
  /\ AbsoluteLifetime \in Nat \ {0}
  /\ InactivityWindow \in Nat \ {0}
  /\ BatchSize \in Nat \ {0}
  /\ MaxRetries \in Nat
  /\ MaxTime \in Nat
  /\ MaxStamp \in Nat
  /\ None \notin Sessions \cup Tokens

VARIABLES
  now,        \* TimeProvider.GetUtcNow
  userStamp,  \* Users.SecurityStamp
  lastStamp,  \* stamps drawn so far
  session,    \* the Sessions table
  token,      \* the RefreshTokens table
  call,       \* the requests in flight
  cleaner,    \* the cleanup worker
  ended       \* history: the sessions that have ended (see Ended)

state == <<now, userStamp, lastStamp, session, token, call, cleaner>>
vars == <<now, userStamp, lastStamp, session, token, call, cleaner, ended>>

Time == 0..MaxTime

\* SessionRevocationReason.
Reasons == {"Logout", "UserRevokedSession", "UserRevokedAllSessions",
            "PasswordChanged", "PasswordReset", "TokenReuseDetected",
            "AdminRevoked", "MfaDisabled"}

ASSUME ReasonAssumption == None \notin Reasons

\* A row is "unborn" before its INSERT and "purged" after its DELETE.
Phases == {"unborn", "row", "purged"}

SessionRow == [phase : Phases, stamp : 0..MaxStamp, authAt : Time, lastActive : Time,
               absExpires : Nat, reason : Reasons \cup {None}]

TokenRow == [phase : Phases, session : Sessions \cup {None}, expires : Nat,
             used : BOOLEAN, next : Tokens \cup {None}]

PCs == {"idle", "open", "issue", "stamp", "commit", "reuse", "revokeOne",
        "expireOne", "revokeAll", "expireListed", "restamp", "saveStamp"}

CallState == [pc : PCs, ses : Sessions \cup {None}, tok : Tokens \cup {None},
              at : Time, stamp : 0..MaxStamp, dirty : BOOLEAN, tries : Nat,
              listed : SUBSET Sessions, why : Reasons \cup {None},
              late : BOOLEAN]         \* history: began on an ended session

Idle == [pc |-> "idle", ses |-> None, tok |-> None, at |-> 0, stamp |-> 0,
         dirty |-> FALSE, tries |-> 0, listed |-> {}, why |-> None, late |-> FALSE]

NoSession(phase) == [phase |-> phase, stamp |-> 0, authAt |-> 0, lastActive |-> 0,
                     absExpires |-> 0, reason |-> None]

----------------------------------------------------------------------------
(* Reading the tables.                                                     *)

SessionExists(s) == session[s].phase = "row"
TokenExists(t) == token[t].phase = "row"
Live(s) == SessionExists(s) /\ session[s].reason = None
IsIdle(c) == call[c].pc = "idle"

\* Mutant: a revoked session is not refused.
VerdictIgnoringRevocation(t) ==
  IF ~ TokenExists(t)              THEN "NotFound"
  ELSE IF token[t].used            THEN "ReuseDetected"
  ELSE IF token[t].expires <= now  THEN "TokenExpired"
  ELSE "Proceed"

\* Mutant: the bounds are checked before reuse.
VerdictBoundsFirst(t) ==
  IF ~ TokenExists(t)              THEN "NotFound"
  ELSE IF session[token[t].session].lastActive + InactivityWindow <= now
                                   THEN "SessionIdle"
  ELSE IF token[t].used            THEN "ReuseDetected"
  ELSE IF session[token[t].session].reason # None THEN "SessionRevoked"
  ELSE IF token[t].expires <= now  THEN "TokenExpired"
  ELSE "Proceed"

\* What RotateAsync answers to a presented token, in the order of its early
\* returns; "Proceed" goes on to the stamp check.
Verdict(t) ==
  LET s == token[t].session IN
  IF ~ TokenExists(t)                 THEN "NotFound"
  ELSE IF token[t].used               THEN "ReuseDetected"
  ELSE IF session[s].reason # None    THEN "SessionRevoked"
  ELSE IF token[t].expires <= now     THEN "TokenExpired"
  ELSE IF session[s].absExpires <= now THEN "SessionExpired"
  ELSE IF session[s].lastActive + InactivityWindow <= now THEN "SessionIdle"
  ELSE "Proceed"

(***************************************************************************)
(* Writing the tables: each operator is the new value of a table.          *)
(***************************************************************************)

\* UPDATE Sessions SET RevokedAt, RevocationReason WHERE ... RevokedAt IS NULL.
Revoked(S, why) ==
  [s \in Sessions |-> IF s \in S /\ Live(s)
                      THEN [session[s] EXCEPT !.reason = why] ELSE session[s]]

\* UPDATE RefreshTokens SET ExpiresAt = now WHERE SessionId IN S AND UsedAt
\* IS NULL AND ExpiresAt > now.
Expired(S) ==
  [t \in Tokens |-> IF /\ TokenExists(t) /\ token[t].session \in S
                       /\ ~ token[t].used /\ token[t].expires > now
                    THEN [token[t] EXCEPT !.expires = now] ELSE token[t]]

\* Mutant: a token without an expiry of its own.
NewTokenNoExpiry(s) == [phase |-> "row", session |-> s, expires |-> None,
                        used |-> FALSE, next |-> None]

\* The row CreateToken builds: bounded by the session's absolute cap.
NewToken(s) == [phase |-> "row", session |-> s,
                expires |-> session[s].absExpires, used |-> FALSE, next |-> None]

\* Mutants: the successor is not linked; the presented token is not spent.
RotatedUnlinked(t, n) ==
  [token EXCEPT ![t].used = TRUE, ![n] = NewToken(token[t].session)]
RotatedUnspent(t, n) ==
  [token EXCEPT ![t].next = n, ![n] = NewToken(token[t].session)]

\* The rotation's writes to RefreshTokens: t is spent and linked to n.
Rotated(t, n) ==
  [token EXCEPT ![t].used = TRUE, ![t].next = n,
                ![n] = NewToken(token[t].session)]

\* Rows leave the table; what a purged row once was is kept for the
\* properties: whose it was, and whether it was spent.
Purged(T) ==
  [t \in Tokens |-> IF t \in T THEN [token[t] EXCEPT !.phase = "purged",
                                                    !.expires = 0, !.next = None]
                    ELSE token[t]]

\* Rows taken by one batch: the BatchSize first by expiry, or all of them.
IsBatch(B, Due, expiry) ==
  /\ B \subseteq Due
  /\ \/ B = Due /\ Cardinality(Due) <= BatchSize
     \/ Cardinality(B) = BatchSize /\ BatchSize < Cardinality(Due)
  /\ \A b \in B, d \in Due \ B : expiry[b] <= expiry[d]

\* Bound: a request that may insert a row begins while the pools last.
Unused(table) == {r \in DOMAIN table : table[r].phase = "unborn"}
Busy == {c \in Calls : ~ IsIdle(c)}
Room == Cardinality(Unused(token)) > Cardinality(Busy)

Start(c, rec) == call' = [call EXCEPT ![c] = rec]
Finish(c) == call' = [call EXCEPT ![c] = Idle]
Continue(c, pc) == call' = [call EXCEPT ![c].pc = pc]

----------------------------------------------------------------------------
Init ==
  /\ now = 0
  /\ userStamp = 0
  /\ lastStamp = 0
  /\ session = [s \in Sessions |-> NoSession("unborn")]
  /\ token = [t \in Tokens |-> [phase |-> "unborn", session |-> None, expires |-> 0,
                                used |-> FALSE, next |-> None]]
  /\ call = [c \in Calls |-> Idle]
  /\ cleaner = [pc |-> "idle", at |-> 0]
  /\ ended = {}

----------------------------------------------------------------------------
(* Login: SessionService.CreateAsync, then RefreshTokenService.IssueAsync. *)

\* CreateAsync reads the clock and the user's current stamp.
OpenRead(c) ==
  /\ "Login" \in Ops
  /\ IsIdle(c)
  /\ now + AbsoluteLifetime <= MaxTime     \* bound
  /\ Room
  /\ Cardinality(Unused(session)) > Cardinality(Busy)
  /\ Start(c, [Idle EXCEPT !.pc = "open", !.at = now, !.stamp = userStamp])
  /\ UNCHANGED <<now, userStamp, lastStamp, session, token, cleaner>>

\* CreateAsync inserts the session with what it read.
OpenInsert(c) ==
  /\ call[c].pc = "open"
  /\ \E s \in Sessions :
       /\ session[s].phase = "unborn"
       /\ session' = [session EXCEPT ![s] =
            [phase |-> "row", stamp |-> call[c].stamp, authAt |-> call[c].at,
             lastActive |-> call[c].at, absExpires |-> call[c].at + AbsoluteLifetime,
             reason |-> None]]
       /\ Start(c, [Idle EXCEPT !.pc = "issue", !.ses = s])
  /\ UNCHANGED <<now, userStamp, lastStamp, token, cleaner>>

\* IssueAsync reads the session again (SingleAsync throws when it is gone)
\* and inserts the first token of the chain.
IssueToken(c) ==
  /\ call[c].pc = "issue"
  /\ IF SessionExists(call[c].ses)
     THEN \E n \in Tokens :
            /\ token[n].phase = "unborn"
            /\ token' = [token EXCEPT ![n] = NewToken(call[c].ses)]
     ELSE UNCHANGED token
  /\ Finish(c)
  /\ UNCHANGED <<now, userStamp, lastStamp, session, cleaner>>

----------------------------------------------------------------------------
(* Refresh: RefreshTokenService.RotateAsync.  A refusal writes nothing.    *)

\* The lookup finds a spent token: reuse is answered before anything else.
LookupReuse(c, t) ==
  /\ "Refresh" \in Ops
  /\ IsIdle(c)
  /\ token[t].phase # "unborn"
  /\ Verdict(t) = "ReuseDetected"
  /\ Start(c, [Idle EXCEPT !.pc = "reuse", !.tok = t, !.ses = token[t].session])
  /\ UNCHANGED <<now, userStamp, lastStamp, session, token, cleaner>>

\* The lookup passes every check on the token and on the session bounds.
LookupProceed(c, t) ==
  /\ "Refresh" \in Ops
  /\ IsIdle(c)
  /\ token[t].phase # "unborn"
  /\ Verdict(t) = "Proceed"
  /\ Room
  /\ Start(c, [Idle EXCEPT !.pc = "stamp", !.tok = t, !.ses = token[t].session,
                           !.at = now, !.stamp = session[token[t].session].stamp,
                           !.late = token[t].session \in ended])
  /\ UNCHANGED <<now, userStamp, lastStamp, session, token, cleaner>>

\* Mutant: the stamp is not compared.
CheckStampSkipped(c) ==
  /\ call[c].pc = "stamp"
  /\ Continue(c, "commit")
  /\ UNCHANGED <<now, userStamp, lastStamp, session, token, cleaner>>

\* The user's current stamp, a separate read, against the session's snapshot.
CheckStamp(c) ==
  /\ call[c].pc = "stamp"
  /\ IF call[c].stamp = userStamp THEN Continue(c, "commit") ELSE Finish(c)
  /\ UNCHANGED <<now, userStamp, lastStamp, session, token, cleaner>>

\* The tracked rows can still be updated: a row deleted since the lookup
\* makes SaveChanges fail (no row affected), the transaction rolls back.
RowsRemain(c) == TokenExists(call[c].tok) /\ SessionExists(call[c].ses)

\* Mutants: the cap slides with the inactivity window; the whole session row
\* is written back as it was read.
RotateWriteSlidingCap(c) ==
  /\ \E n \in Tokens : token[n].phase = "unborn" /\ token' = Rotated(call[c].tok, n)
  /\ session' = [session EXCEPT ![call[c].ses].lastActive = call[c].at,
                                ![call[c].ses].absExpires = call[c].at + AbsoluteLifetime]
RotateWriteWholeRow(c) ==
  /\ \E n \in Tokens : token[n].phase = "unborn" /\ token' = Rotated(call[c].tok, n)
  /\ session' = [session EXCEPT ![call[c].ses].lastActive = call[c].at,
                                ![call[c].ses].reason = None]

\* SaveChanges and Commit: only the modified columns are written, over
\* whatever other transactions committed since the lookup.
RotateWrite(c) ==
  /\ \E n \in Tokens : token[n].phase = "unborn" /\ token' = Rotated(call[c].tok, n)
  /\ session' = [session EXCEPT ![call[c].ses].lastActive = call[c].at]

RotateCommit(c) ==
  /\ call[c].pc = "commit"
  /\ IF RowsRemain(c) THEN RotateWrite(c) ELSE UNCHANGED <<session, token>>
  /\ Finish(c)
  /\ UNCHANGED <<now, userStamp, lastStamp, cleaner>>

\* The block is run again by the execution strategy after a transient fault.
\* The context still tracks the token it marked used, so the second run takes
\* the reuse branch; "dirty" when the first run's changes are still pending.
Retry(c, dirty) ==
  call' = [call EXCEPT ![c].pc = "reuse", ![c].dirty = dirty, ![c].tries = @ + 1]

CanRetry(c) ==
  /\ "Transient" \in Ops
  /\ call[c].pc = "commit"
  /\ call[c].tries < MaxRetries
  /\ RowsRemain(c)

\* SaveChanges failed: nothing was written, the changes stay pending.
SaveFails(c) ==
  /\ CanRetry(c)
  /\ Retry(c, TRUE)
  /\ UNCHANGED <<now, userStamp, lastStamp, session, token, cleaner>>

\* SaveChanges succeeded and Commit failed: rolled back, nothing pending.
CommitFails(c) ==
  /\ CanRetry(c)
  /\ Retry(c, FALSE)
  /\ UNCHANGED <<now, userStamp, lastStamp, session, token, cleaner>>

\* Commit took effect and its acknowledgement was lost.
CommitAckLost(c) ==
  /\ CanRetry(c)
  /\ RotateWrite(c)
  /\ Retry(c, FALSE)
  /\ UNCHANGED <<now, userStamp, lastStamp, cleaner>>

\* The reuse branch: the session is revoked whatever its state, together with
\* the pending changes of a failed first run.
ReuseCommit(c) ==
  /\ call[c].pc = "reuse"
  /\ IF RowsRemain(c)
     THEN /\ session' = [session EXCEPT
                 ![call[c].ses].reason = "TokenReuseDetected",
                 ![call[c].ses].lastActive = IF call[c].dirty THEN call[c].at ELSE @]
          /\ IF call[c].dirty
             THEN \E n \in Tokens : token[n].phase = "unborn"
                                     /\ token' = Rotated(call[c].tok, n)
             ELSE UNCHANGED token
     ELSE UNCHANGED <<session, token>>
  /\ Finish(c)
  /\ UNCHANGED <<now, userStamp, lastStamp, cleaner>>

----------------------------------------------------------------------------
(* Revocation of one session.                                              *)

\* LogoutAsync: RevokeAsync first.  The bearer of an access token can log out
\* of a session that is already revoked or gone.
Logout(c, s) ==
  /\ "Logout" \in Ops
  /\ IsIdle(c)
  /\ SessionExists(s)
  /\ session' = Revoked({s}, "Logout")
  /\ Start(c, [Idle EXCEPT !.pc = "expireOne", !.ses = s])
  /\ UNCHANGED <<now, userStamp, lastStamp, token, cleaner>>

\* SessionQueryService.RevokeAsync: only a live session of the user ...
RevokeSession(c, s) ==
  /\ "RevokeSession" \in Ops
  /\ IsIdle(c)
  /\ Live(s)
  /\ Start(c, [Idle EXCEPT !.pc = "revokeOne", !.ses = s])
  /\ UNCHANGED <<now, userStamp, lastStamp, session, token, cleaner>>

\* ... is revoked by a second statement ...
RevokeOne(c) ==
  /\ call[c].pc = "revokeOne"
  /\ session' = Revoked({call[c].ses}, "UserRevokedSession")
  /\ Continue(c, "expireOne")
  /\ UNCHANGED <<now, userStamp, lastStamp, token, cleaner>>

\* ... and its tokens expired by a third (RevokeForSessionAsync).
ExpireOne(c) ==
  /\ call[c].pc = "expireOne"
  /\ token' = Expired({call[c].ses})
  /\ Finish(c)
  /\ UNCHANGED <<now, userStamp, lastStamp, session, cleaner>>

----------------------------------------------------------------------------
(* Revocation of several sessions.                                         *)

\* SessionQueryService.RevokeAllOthersAsync lists the other live sessions.
RevokeOthers(c, s) ==
  /\ "RevokeOthers" \in Ops
  /\ IsIdle(c)
  /\ SessionExists(s)
  /\ Start(c, [Idle EXCEPT !.pc = "revokeAll", !.ses = s,
                           !.listed = {o \in Sessions \ {s} : Live(o)},
                           !.why = "UserRevokedAllSessions"])
  /\ UNCHANGED <<now, userStamp, lastStamp, session, token, cleaner>>

\* AdminSessionService.RevokeAllAsync and TotpService.DisableAsync: every
\* session, with their reason.
RevokeEvery(c, why) ==
  /\ "RevokeEvery" \in Ops
  /\ IsIdle(c)
  /\ Start(c, [Idle EXCEPT !.pc = "revokeAll", !.why = why])
  /\ UNCHANGED <<now, userStamp, lastStamp, session, token, cleaner>>

\* RevokeAllForUserAsync: one UPDATE, evaluated when it runs.
RevokeAll(c) ==
  /\ call[c].pc = "revokeAll"
  /\ session' = Revoked(Sessions \ {call[c].ses}, call[c].why)
  /\ IF call[c].listed = {} THEN Finish(c) ELSE Continue(c, "expireListed")
  /\ UNCHANGED <<now, userStamp, lastStamp, token, cleaner>>

\* The tokens of the sessions listed at the start are expired.
ExpireListed(c) ==
  /\ call[c].pc = "expireListed"
  /\ token' = Expired(call[c].listed)
  /\ Finish(c)
  /\ UNCHANGED <<now, userStamp, lastStamp, session, cleaner>>

----------------------------------------------------------------------------
(* Security stamp changes.                                                 *)

\* UserService.ChangePasswordAsync: the user is read, the password verified,
\* a new stamp drawn.
ChangePassword(c, s) ==
  /\ "ChangePassword" \in Ops
  /\ IsIdle(c)
  /\ SessionExists(s)
  /\ lastStamp < MaxStamp                  \* bound
  /\ lastStamp' = lastStamp + 1
  /\ Start(c, [Idle EXCEPT !.pc = "restamp", !.ses = s, !.stamp = lastStamp + 1,
                           !.why = "PasswordChanged"])
  /\ UNCHANGED <<now, userStamp, session, token, cleaner>>

\* The current session's snapshot is updated first, in its own statement.
Restamp(c) ==
  /\ call[c].pc = "restamp"
  /\ session' = IF SessionExists(call[c].ses)
                THEN [session EXCEPT ![call[c].ses].stamp = call[c].stamp]
                ELSE session
  /\ Continue(c, "saveStamp")
  /\ UNCHANGED <<now, userStamp, lastStamp, token, cleaner>>

\* PasswordResetService.ConfirmAsync, once the token is consumed.
ResetPassword(c) ==
  /\ "ResetPassword" \in Ops
  /\ IsIdle(c)
  /\ lastStamp < MaxStamp                  \* bound
  /\ lastStamp' = lastStamp + 1
  /\ Start(c, [Idle EXCEPT !.pc = "saveStamp", !.stamp = lastStamp + 1,
                           !.why = "PasswordReset"])
  /\ UNCHANGED <<now, userStamp, session, token, cleaner>>

\* SaveChanges on the user row; RevokeAllForUserAsync follows.
SaveStamp(c) ==
  /\ call[c].pc = "saveStamp"
  /\ userStamp' = call[c].stamp
  /\ Continue(c, "revokeAll")
  /\ UNCHANGED <<now, lastStamp, session, token, cleaner>>

----------------------------------------------------------------------------
\* A request ends between two statements: the client went away and the
\* cancellation token fired, or a statement threw.  An open transaction rolls
\* back; statements already executed stay.
Abort(c) ==
  /\ "Abort" \in Ops
  /\ ~ IsIdle(c)
  /\ Finish(c)
  /\ UNCHANGED <<now, userStamp, lastStamp, session, token, cleaner>>

----------------------------------------------------------------------------
(* The cleanup worker: tokens, then sessions, by the clock read at the     *)
(* start of the pass.                                                      *)

\* Mutant: spent tokens are deleted at once.
CleanupTokensSpent ==
  /\ cleaner.pc = "idle"
  /\ token' = Purged({t \in Tokens : /\ TokenExists(t)
                                     /\ token[t].used \/ token[t].expires <= now})
  /\ cleaner' = [pc |-> "sessions", at |-> now]
  /\ UNCHANGED <<now, userStamp, lastStamp, session, call>>

CleanupTokens ==
  /\ cleaner.pc = "idle"
  /\ \E B \in SUBSET Tokens :
       /\ IsBatch(B, {t \in Tokens : TokenExists(t) /\ token[t].expires <= now},
                  [t \in Tokens |-> token[t].expires])
       /\ token' = Purged(B)
  /\ cleaner' = [pc |-> "sessions", at |-> now]
  /\ UNCHANGED <<now, userStamp, lastStamp, session, call>>

\* Mutants: no cascade; only revoked sessions are deleted.
CleanupSessionsNoCascade ==
  /\ cleaner.pc = "sessions"
  /\ session' = [s \in Sessions |->
                   IF SessionExists(s) /\ session[s].absExpires <= cleaner.at
                   THEN NoSession("purged") ELSE session[s]]
  /\ cleaner' = [pc |-> "idle", at |-> 0]
  /\ UNCHANGED <<now, userStamp, lastStamp, token, call>>
CleanupSessionsRevokedOnly ==
  /\ cleaner.pc = "sessions"
  /\ LET B == {s \in Sessions : /\ SessionExists(s) /\ session[s].reason # None
                                /\ session[s].absExpires <= cleaner.at}
     IN /\ session' = [s \in Sessions |-> IF s \in B THEN NoSession("purged") ELSE session[s]]
        /\ token' = Purged({t \in Tokens : TokenExists(t) /\ token[t].session \in B})
  /\ cleaner' = [pc |-> "idle", at |-> 0]
  /\ UNCHANGED <<now, userStamp, lastStamp, call>>

\* Deleting a session cascades to its tokens.
CleanupSessions ==
  /\ cleaner.pc = "sessions"
  /\ \E B \in SUBSET Sessions :
       /\ IsBatch(B, {s \in Sessions : SessionExists(s)
                                       /\ session[s].absExpires <= cleaner.at},
                  [s \in Sessions |-> session[s].absExpires])
       /\ session' = [s \in Sessions |->
                        IF s \in B THEN NoSession("purged") ELSE session[s]]
       /\ token' = Purged({t \in Tokens : TokenExists(t) /\ token[t].session \in B})
  /\ cleaner' = [pc |-> "idle", at |-> 0]
  /\ UNCHANGED <<now, userStamp, lastStamp, call>>

\* A statement of the pass throws: it is logged and the worker waits for the
\* next tick.
CleanupFails ==
  /\ "Abort" \in Ops
  /\ cleaner.pc = "sessions"
  /\ cleaner' = [pc |-> "idle", at |-> 0]
  /\ UNCHANGED <<now, userStamp, lastStamp, session, token, call>>

Tick ==
  /\ now < MaxTime                         \* bound
  /\ now' = now + 1
  /\ UNCHANGED <<userStamp, lastStamp, session, token, call, cleaner>>

----------------------------------------------------------------------------
\* A request begins.
Begin(c) ==
  \/ OpenRead(c)
  \/ \E t \in Tokens : LookupReuse(c, t) \/ LookupProceed(c, t)
  \/ \E s \in Sessions : Logout(c, s) \/ RevokeSession(c, s)
                          \/ RevokeOthers(c, s) \/ ChangePassword(c, s)
  \/ \E why \in {"AdminRevoked", "MfaDisabled"} : RevokeEvery(c, why)
  \/ ResetPassword(c)

\* A request in flight executes its next statement.
Proceed(c) ==
  \/ OpenInsert(c) \/ IssueToken(c)
  \/ CheckStamp(c) \/ RotateCommit(c) \/ ReuseCommit(c)
  \/ RevokeOne(c) \/ ExpireOne(c) \/ RevokeAll(c) \/ ExpireListed(c)
  \/ Restamp(c) \/ SaveStamp(c)

\* The network or the client interferes with it.
Fault(c) ==
  \/ SaveFails(c) \/ CommitFails(c) \/ CommitAckLost(c)
  \/ Abort(c)

Cleanup == CleanupTokens \/ CleanupSessions \/ CleanupFails

\* No request that begins now may rotate a token of s any more: s is revoked or
\* past its cap, or no request works on it and it is idle or its stamp is not
\* the user's.
Ended(s) ==
  /\ SessionExists(s)
  /\ \/ session[s].reason # None
     \/ session[s].absExpires <= now
     \/ /\ \A c \in Calls : call[c].ses # s
        /\ \/ session[s].lastActive + InactivityWindow <= now
           \/ session[s].stamp # userStamp

Step ==
  \/ \E c \in Calls : Begin(c) \/ Proceed(c) \/ Fault(c)
  \/ Cleanup
  \/ Tick

\* A password change made from a session renews the session's stamp: only then
\* may a session with a stale stamp rotate again.
Next ==
  /\ Step
  /\ ended' = {s \in ended : session'[s].stamp = session[s].stamp}
               \cup {s \in Sessions : Ended(s)'}

Spec == Init /\ [][Next]_vars

\* A request that is being served goes on, the worker's timer fires and its passes
\* do not fail for ever, and time passes.
Fairness ==
  /\ \A c \in Calls : WF_state(Proceed(c))
  /\ SF_state(CleanupTokens)
  /\ SF_state(CleanupSessions)
  /\ WF_state(Tick)

FairSpec == Spec /\ Fairness

----------------------------------------------------------------------------
(* Properties.                                                             *)

\* Every variable has its type, and a token's row names an existing session
\* (the cascading foreign key).
TypeOK ==
  /\ now \in Time
  /\ userStamp \in 0..MaxStamp
  /\ lastStamp \in 0..MaxStamp
  /\ session \in [Sessions -> SessionRow]
  /\ token \in [Tokens -> TokenRow]
  /\ call \in [Calls -> CallState]
  /\ cleaner \in [pc : {"idle", "sessions"}, at : Time]
  /\ ended \subseteq Sessions

\* "Bounded by the session's absolute cap, never beyond it": whatever rotations
\* did, a token belongs to an existing session and dies AbsoluteLifetime after
\* the login that opened it.
BoundedByLogin ==
  \A t \in Tokens : TokenExists(t) =>
    /\ SessionExists(token[t].session)
    /\ token[t].expires <= session[token[t].session].authAt + AbsoluteLifetime

\* A spent token presented while its session is live is answered with
\* ReuseDetected up to the session's cap: neither cleanup nor the other
\* refusals may hide it.
ReplayAlwaysDetected ==
  \A t \in Tokens :
    LET s == token[t].session IN
    /\ token[t].used
    /\ Live(s)
    /\ now < session[s].absExpires
    => Verdict(t) = "ReuseDetected"

\* The chain: a token is spent exactly when it names a successor, which is
\* another token of the same session.
ChainLinked ==
  \A t \in Tokens : TokenExists(t) =>
    /\ token[t].used <=> token[t].next # None
    /\ token[t].used => /\ token[t].next # t
                        /\ token[token[t].next].session = token[t].session
                        /\ token[token[t].next].phase # "unborn"

\* A live session has at most one token that can still be rotated.
SingleLiveToken ==
  \A s \in Sessions : Live(s) =>
    Cardinality({t \in Tokens : /\ TokenExists(t) /\ token[t].session = s
                                /\ ~ token[t].used /\ token[t].expires > now}) <= 1

\* A request that began after a session ended obtains no token from it.
NoMintAfterEnd ==
  [][\A c \in Calls, t \in Tokens :
       /\ token[t].phase = "unborn" /\ token'[t].phase = "row"
       /\ call'[c] # call[c]
       => ~ call[c].late]_vars

\* Every session row is eventually deleted.
SessionsPurged ==
  \A s \in Sessions : SessionExists(s) ~> session[s].phase = "purged"

\* What SessionLifecycle sees of a row, and of the tables.
Standing(row) == IF row.phase = "unborn" THEN "absent"
                 ELSE IF row.phase = "purged" THEN "gone"
                 ELSE IF row.reason = None THEN "open" ELSE "closed"
Status(row) == IF row.phase = "unborn" THEN "absent"
               ELSE IF row.phase = "purged" THEN "gone"
               ELSE IF row.used THEN "spent" ELSE "fresh"
standing == [s \in Sessions |-> Standing(session[s])]
status == [t \in Tokens |-> Status(token[t])]
owner == [t \in Tokens |-> token[t].session]

\* The requests together keep the promise of SessionLifecycle.
Lifecycle == INSTANCE SessionLifecycle
KeepsLifecycle == Lifecycle!LSpec
=============================================================================
