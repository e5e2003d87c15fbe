------------------------ MODULE RefreshRotationSafety ------------------------
(* The safety properties of RefreshRotation for all values of its constants: *)
(* the inductive invariant Bounded /\ Detected /\ ChainLinked over Typed.    *)
EXTENDS RefreshRotationProofs

\* A session's cap is fixed when it is opened; a token row has its session's row
\* and does not outlive the cap.
Bounded ==
  /\ \A s \in Sessions : SessionExists(s) =>
       session[s].absExpires = session[s].authAt + AbsoluteLifetime
  /\ \A t \in Tokens : TokenExists(t) =>
       /\ SessionExists(token[t].session)
       /\ token[t].expires <= session[token[t].session].absExpires

\* Only tokens of sessions that are no longer live are about to be expired.
ExpiresOnlyEnded ==
  /\ \A c \in Calls : call[c].pc = "expireOne" => ~ Live(call[c].ses)
  /\ \A c \in Calls : call[c].pc = "expireListed" =>
       \A s \in call[c].listed : ~ Live(s)
  /\ \A c \in Calls : \A s \in call[c].listed :
       s # call[c].ses /\ session[s].phase # "unborn"

\* The tokens of a live session all expire at its cap, so that the spent ones
\* stay in the table until then.
Detected ==
  /\ \A t \in Tokens : token[t].phase = "unborn" => ~ token[t].used
  /\ \A t \in Tokens :
       TokenExists(t) /\ Live(token[t].session)
       => token[t].expires = session[token[t].session].absExpires
  /\ \A t \in Tokens :
       /\ token[t].used
       /\ Live(token[t].session)
       /\ now < session[token[t].session].absExpires
       => TokenExists(t)

Safe == Bounded /\ ExpiresOnlyEnded /\ Detected /\ ChainLinked

Tables == Bounded /\ Detected /\ ChainLinked

LEMMA InitSafe == Init => Safe
  BY ReasonAssumption DEF Init, Safe, Bounded, ExpiresOnlyEnded, Detected, ChainLinked,
     SessionExists, TokenExists, Live, NoSession, Idle

----------------------------------------------------------------------------
(* The tables.                                                             *)

\* What every update of session rows leaves alone: the row, its cap, and that
\* a revoked session stays revoked.
SessionsKept ==
  \A s \in Sessions :
    /\ session'[s].phase = session[s].phase
    /\ session'[s].absExpires = session[s].absExpires
    /\ session'[s].authAt = session[s].authAt
    /\ session[s].reason # None => session'[s].reason # None

LEMMA RevokedSessionsKept ==
  ASSUME Typed, NEW S, NEW why \in Reasons, session' = Revoked(S, why)
  PROVE  SessionsKept /\ \A s \in Sessions \cap S : ~ Live(s)'
  BY ReasonAssumption
  DEF Typed, TypeOK, SessionRow, Revoked, SessionsKept, Live, SessionExists

LEMMA SameTokensTables ==
  ASSUME Typed, Tables, SessionsKept, UNCHANGED <<now, token>>
  PROVE  Tables'
  BY DEF Typed, TokensRefer, Tables, SessionsKept, Bounded, Detected, ChainLinked,
     SessionExists, TokenExists, Live

LEMMA ExpiredTables ==
  ASSUME Typed, Tables, NEW S, \A s \in Sessions \cap S : ~ Live(s),
         token' = Expired(S), UNCHANGED <<now, session>>
  PROVE  Tables'
<1>1. \A t \in Tokens :
        /\ token'[t].phase = token[t].phase
        /\ token'[t].session = token[t].session
        /\ token'[t].used = token[t].used
        /\ token'[t].next = token[t].next
        /\ \/ token'[t].expires = token[t].expires
           \/ /\ token[t].session \in S
              /\ token'[t].expires = now
              /\ now < token[t].expires
  BY DEF Expired, Typed, TypeOK, TokenRow
<1>2. \A t \in Tokens : TokenExists(t) => token[t].session \in Sessions
  BY DEF Typed, TokensRefer, TokenExists
<1>3. /\ now \in Nat
      /\ \A t \in Tokens : token[t].expires \in Nat
      /\ \A s \in Sessions : session[s].absExpires \in Nat
  BY RotationAssumption DEF Typed, TypeOK, TokenRow, SessionRow, Time
<1>4. Bounded'
  BY <1>1, <1>2, <1>3 DEF Tables, Bounded, SessionExists, TokenExists
<1>5. Detected'
  BY <1>1, <1>2 DEF Tables, Detected, SessionExists, TokenExists, Live
<1>6. ChainLinked'
  BY <1>1 DEF Typed, TypeOK, TokenRow, Tables, ChainLinked, TokenExists
<1> QED
  BY <1>4, <1>5, <1>6 DEF Tables

\* What the row of a new token says.
LEMMA NewTokenSays ==
  ASSUME NEW s \in Sessions
  PROVE  /\ NewToken(s).phase = "row" /\ NewToken(s).session = s
         /\ NewToken(s).expires = session[s].absExpires
         /\ NewToken(s).used = FALSE /\ NewToken(s).next = None
  BY DEF NewToken

LEMMA IssuedTables ==
  ASSUME Typed, Tables, NEW s \in Sessions, NEW n \in Tokens, SessionExists(s),
         token[n].phase = "unborn", token' = [token EXCEPT ![n] = NewToken(s)],
         UNCHANGED <<now, session>>
  PROVE  Tables'
<1>1. \A t \in Tokens : t # n => token'[t] = token[t]
  BY DEF Typed, TypeOK
<1>2. token'[n] = NewToken(s)
  BY DEF Typed, TypeOK
<1>3. /\ token'[n].phase = "row" /\ token'[n].session = s
      /\ token'[n].expires = session[s].absExpires
      /\ token'[n].used = FALSE /\ token'[n].next = None
  BY <1>2, NewTokenSays
<1>4. session[s].absExpires \in Nat
  BY DEF Typed, TypeOK, SessionRow
<1>5. Bounded'
  BY <1>1, <1>3, <1>4 DEF Tables, Bounded, SessionExists, TokenExists
<1>6. Detected'
  BY <1>1, <1>3 DEF Tables, Detected, SessionExists, TokenExists, Live
<1>7. \A t \in Tokens : token[t].next \in Tokens \cup {None}
  BY DEF Typed, TypeOK, TokenRow
<1>8. ChainLinked'
  BY <1>1, <1>3, <1>7 DEF Tables, ChainLinked, TokenExists
<1> QED
  BY <1>5, <1>6, <1>8 DEF Tables

LEMMA RotatedTables ==
  ASSUME Typed, Tables, NEW t \in Tokens, NEW n \in Tokens, TokenExists(t),
         token[n].phase = "unborn", token' = Rotated(t, n), SessionsKept, now' = now
  PROVE  Tables'
<1> DEFINE s == token[t].session
<1>1. s \in Sessions /\ SessionExists(s) /\ n # t
  BY DEF Typed, TokensRefer, Tables, Bounded, TokenExists
<1>2. \A u \in Tokens : u # n /\ u # t => token'[u] = token[u]
  BY <1>1 DEF Rotated, Typed, TypeOK
<1>3. token'[n] = NewToken(s) /\ token'[t] = [token[t] EXCEPT !.used = TRUE, !.next = n]
  BY <1>1 DEF Rotated, Typed, TypeOK
<1>4. token[t] \in TokenRow
  BY DEF Typed, TypeOK
<1>5. /\ token'[t].phase = token[t].phase /\ token'[t].session = s
      /\ token'[t].expires = token[t].expires
      /\ token'[t].used = TRUE /\ token'[t].next = n
  BY <1>3, <1>4 DEF TokenRow
<1>6. /\ token'[n].phase = "row" /\ token'[n].session = s
      /\ token'[n].expires = session[s].absExpires
      /\ token'[n].used = FALSE /\ token'[n].next = None
  BY <1>1, <1>3, NewTokenSays
<1>7. session[s].absExpires \in Nat
  BY <1>1 DEF Typed, TypeOK, SessionRow
<1>8. /\ \A u \in Tokens : token[u].next \in Tokens \cup {None}
      /\ n # None
  BY RotationAssumption DEF Typed, TypeOK, TokenRow
<1>9. s = token[t].session
  OBVIOUS
<1> HIDE DEF s
<1>10. Bounded'
  BY <1>1, <1>2, <1>5, <1>6, <1>7, <1>9
  DEF Typed, TokensRefer, Tables, Bounded, SessionsKept, SessionExists, TokenExists
<1>11. Detected'
  BY <1>1, <1>2, <1>5, <1>6, <1>9
  DEF Typed, TokensRefer, Tables, Detected, SessionsKept, SessionExists, TokenExists, Live
<1>12. ChainLinked'
  BY <1>1, <1>2, <1>5, <1>6, <1>8, <1>9 DEF Tables, ChainLinked, TokenExists
<1> QED
  BY <1>10, <1>11, <1>12 DEF Tables

LEMMA OpenedTables ==
  ASSUME Typed, Tables, NEW c \in Calls, OpenInsert(c)
  PROVE  Tables'
<1>1. PICK s \in Sessions :
        /\ session[s].phase = "unborn"
        /\ session' = [session EXCEPT ![s] =
             [phase |-> "row", stamp |-> call[c].stamp, authAt |-> call[c].at,
              lastActive |-> call[c].at, absExpires |-> call[c].at + AbsoluteLifetime,
              reason |-> None]]
  BY DEF OpenInsert
<1>2. \A t \in Tokens : token[t].phase # "unborn" => token[t].session \in Sessions \ {s}
  BY <1>1 DEF Typed, TokensRefer
<1>3. \A t \in Tokens : token[t].used => token[t].phase # "unborn"
  BY DEF Tables, Detected
<1>4. /\ \A o \in Sessions : o # s => session'[o] = session[o]
      /\ session'[s].absExpires = session'[s].authAt + AbsoluteLifetime
      /\ UNCHANGED <<now, token>>
  BY <1>1 DEF OpenInsert, Typed, TypeOK
<1> QED
  BY <1>2, <1>3, <1>4
  DEF Tables, Bounded, Detected, ChainLinked, SessionExists, TokenExists, Live

\* What deleting the rows T leaves of the tokens.
LEMMA PurgedSays ==
  ASSUME Typed, NEW T, token' = Purged(T)
  PROVE  \A t \in Tokens :
           /\ t \notin T => token'[t] = token[t]
           /\ t \in T => /\ token'[t].phase = "purged"
                         /\ token'[t].used = token[t].used
           /\ token'[t].session = token[t].session
  BY DEF Purged, Typed, TypeOK, TokenRow

LEMMA CleanupTokensTables ==
  ASSUME Typed, Tables, CleanupTokens
  PROVE  Tables'
<1>1. PICK B \in SUBSET Tokens :
        /\ B \subseteq {t \in Tokens : TokenExists(t) /\ token[t].expires <= now}
        /\ token' = Purged(B)
  BY DEF CleanupTokens, IsBatch
<1>2. UNCHANGED <<now, session>>
  BY DEF CleanupTokens
<1>3. \A t \in Tokens :
        /\ t \notin B => token'[t] = token[t]
        /\ t \in B => /\ token'[t].phase = "purged"
                      /\ token'[t].used = token[t].used
        /\ token'[t].session = token[t].session
  BY <1>1, PurgedSays
<1>4. \A t \in B : TokenExists(t) /\ token[t].expires <= now
  BY <1>1
<1>5. \A t \in Tokens : token[t].next \in Tokens \cup {None}
  BY DEF Typed, TypeOK, TokenRow
<1>6. /\ now \in Nat
      /\ \A t \in Tokens : token[t].expires \in Nat
      /\ \A s \in Sessions : session[s].absExpires \in Nat
  BY RotationAssumption DEF Typed, TypeOK, TokenRow, SessionRow, Time
<1>7. Bounded'
  BY <1>2, <1>3 DEF Tables, Bounded, SessionExists, TokenExists
<1>8. Detected'
  BY <1>2, <1>3, <1>4, <1>6
  DEF Typed, TokensRefer, Tables, Detected, SessionExists, TokenExists, Live
<1>9. ChainLinked'
  BY <1>3, <1>5 DEF Tables, ChainLinked, TokenExists
<1> QED
  BY <1>7, <1>8, <1>9 DEF Tables

LEMMA CleanupSessionsTables ==
  ASSUME Typed, Tables, CleanupSessions
  PROVE  Tables'
<1>1. PICK B \in SUBSET Sessions :
        /\ session' = [s \in Sessions |-> IF s \in B THEN NoSession("purged") ELSE session[s]]
        /\ token' = Purged({t \in Tokens : TokenExists(t) /\ token[t].session \in B})
  BY DEF CleanupSessions
<1> DEFINE T == {t \in Tokens : TokenExists(t) /\ token[t].session \in B}
<1>2. now' = now
  BY DEF CleanupSessions
<1>3. \A t \in Tokens :
        /\ t \notin T => token'[t] = token[t]
        /\ t \in T => /\ token'[t].phase = "purged"
                      /\ token'[t].used = token[t].used
        /\ token'[t].session = token[t].session
  <2> HIDE DEF T
  <2> QED BY <1>1, PurgedSays DEF T
<1>4. \A t \in Tokens : t \in T <=> TokenExists(t) /\ token[t].session \in B
  OBVIOUS
<1>5. \A s \in Sessions :
        /\ s \notin B => session'[s] = session[s]
        /\ s \in B => session'[s].phase = "purged"
  BY <1>1 DEF NoSession
<1>6. \A t \in Tokens : token[t].next \in Tokens \cup {None}
  BY DEF Typed, TypeOK, TokenRow
<1> HIDE DEF T
<1>7. Bounded'
  BY <1>3, <1>4, <1>5 DEF Typed, TokensRefer, Tables, Bounded, SessionExists, TokenExists
<1>8. Detected'
  BY <1>2, <1>3, <1>4, <1>5
  DEF Typed, TokensRefer, Tables, Detected, SessionExists, TokenExists, Live
<1>9. ChainLinked'
  BY <1>3, <1>4, <1>6 DEF Tables, ChainLinked, TokenExists
<1> QED
  BY <1>7, <1>8, <1>9 DEF Tables

LEMMA TickTables ==
  ASSUME Typed, Tables, Tick
  PROVE  Tables'
<1>1. /\ now \in Nat /\ now' = now + 1
      /\ \A s \in Sessions : session[s].absExpires \in Nat
      /\ UNCHANGED <<session, token>>
  BY RotationAssumption DEF Tick, Typed, TypeOK, SessionRow, Time
<1> QED
  BY <1>1 DEF Typed, TokensRefer, Tables, Bounded, Detected, ChainLinked,
     SessionExists, TokenExists, Live

----------------------------------------------------------------------------
(* The requests.                                                           *)

\* Session s is live after the step.
Survives(s) == session'[s].phase = "row" /\ session'[s].reason = None

\* No session that was inserted comes back to life.
NoRevival ==
  \A s \in Sessions : session[s].phase # "unborn" =>
    session'[s].phase # "unborn" /\ (Survives(s) => Live(s))

LEMMA KeptNoRevival == ASSUME SessionsKept PROVE NoRevival
  BY DEF SessionsKept, NoRevival, Survives, Live, SessionExists

\* Replacing the record of one request by one that is not about to expire the
\* tokens of a live session.
LEMMA CallReplaced ==
  ASSUME Typed, ExpiresOnlyEnded, NoRevival, NEW c \in Calls, NEW rec,
         call' = [call EXCEPT ![c] = rec],
         rec.pc = "expireOne" => ~ Survives(rec.ses),
         rec.pc = "expireListed" => \A s \in rec.listed : ~ Survives(s),
         \A s \in rec.listed : s # rec.ses /\ session'[s].phase # "unborn"
  PROVE  ExpiresOnlyEnded'
<1>1. call'[c] = rec /\ \A d \in Calls : d # c => call'[d] = call[d]
  BY DEF Typed, TypeOK
<1>2. \A d \in Calls : call[d].listed \subseteq Sessions
  BY DEF Typed, TypeOK, CallState
<1>3. \A d \in Calls : call[d].pc = "expireOne" =>
        call[d].ses \in Sessions /\ session[call[d].ses].phase # "unborn"
  BY DEF Typed, CallsRefer
<1>4. \A d \in Calls : call'[d].pc = "expireOne" => ~ Survives(call'[d].ses)
  BY <1>1, <1>3 DEF ExpiresOnlyEnded, NoRevival
<1>5. \A d \in Calls : call'[d].pc = "expireListed" =>
        \A s \in call'[d].listed : ~ Survives(s)
  BY <1>1, <1>2 DEF ExpiresOnlyEnded, NoRevival
<1>6. \A d \in Calls : \A s \in call'[d].listed :
        s # call'[d].ses /\ session'[s].phase # "unborn"
  BY <1>1, <1>2 DEF ExpiresOnlyEnded, NoRevival
<1> QED
  BY <1>2, <1>3, <1>4, <1>5, <1>6 DEF ExpiresOnlyEnded, Survives, Live, SessionExists

\* The requests stay as they are.
LEMMA CallsSame ==
  ASSUME Typed, ExpiresOnlyEnded, NoRevival, call' = call
  PROVE  ExpiresOnlyEnded'
<1>1. \A d \in Calls : call[d].listed \subseteq Sessions
  BY DEF Typed, TypeOK, CallState
<1>2. \A d \in Calls : call[d].pc = "expireOne" =>
        call[d].ses \in Sessions /\ session[call[d].ses].phase # "unborn"
  BY DEF Typed, CallsRefer
<1> QED
  BY <1>1, <1>2 DEF ExpiresOnlyEnded, NoRevival, Survives, Live, SessionExists

LEMMA FinishSafe ==
  ASSUME Typed, ExpiresOnlyEnded, NoRevival, NEW c \in Calls, Finish(c)
  PROVE  ExpiresOnlyEnded'
<1>1. Idle.pc = "idle" /\ Idle.listed = {}
  BY DEF Idle
<1> QED
  BY <1>1, CallReplaced DEF Finish

LEMMA ContinueSafe ==
  ASSUME Typed, ExpiresOnlyEnded, NoRevival, NEW c \in Calls, NEW pc \in PCs,
         Continue(c, pc),
         pc = "expireOne" => ~ Survives(call[c].ses),
         pc = "expireListed" => \A s \in call[c].listed : ~ Survives(s)
  PROVE  ExpiresOnlyEnded'
<1> DEFINE rec == [call[c] EXCEPT !.pc = pc]
<1>1. call[c] \in CallState
  BY DEF Typed, TypeOK
<1>2. rec.pc = pc /\ rec.ses = call[c].ses /\ rec.listed = call[c].listed
  BY <1>1 DEF CallState
<1>3. call' = [call EXCEPT ![c] = rec]
  BY DEF Continue
<1>4. \A s \in call[c].listed : s # call[c].ses /\ session'[s].phase # "unborn"
  BY <1>1 DEF ExpiresOnlyEnded, NoRevival, CallState
<1> HIDE DEF rec
<1>5. rec.pc = "expireOne" => ~ Survives(rec.ses)
  BY <1>2
<1>6. rec.pc = "expireListed" => \A s \in rec.listed : ~ Survives(s)
  BY <1>2
<1>7. \A s \in rec.listed : s # rec.ses /\ session'[s].phase # "unborn"
  BY <1>2, <1>4
<1> QED
  BY <1>3, <1>5, <1>6, <1>7, CallReplaced

LEMMA RetrySafe ==
  ASSUME Typed, ExpiresOnlyEnded, NoRevival, NEW c \in Calls, NEW dirty, Retry(c, dirty)
  PROVE  ExpiresOnlyEnded'
<1> DEFINE more == call[c].tries + 1
           rec == [call[c] EXCEPT !.pc = "reuse", !.dirty = dirty, !.tries = more]
<1>1. call[c] \in CallState
  BY DEF Typed, TypeOK
<1>2. call' = [call EXCEPT ![c] = rec]
  BY DEF Retry
<1> HIDE DEF more
<1>3. rec.pc = "reuse" /\ rec.ses = call[c].ses /\ rec.listed = call[c].listed
  BY <1>1 DEF CallState
<1>4. \A s \in call[c].listed : s # call[c].ses /\ session'[s].phase # "unborn"
  BY <1>1 DEF ExpiresOnlyEnded, NoRevival, CallState
<1> HIDE DEF rec
<1>5. \A s \in rec.listed : s # rec.ses /\ session'[s].phase # "unborn"
  BY <1>3, <1>4
<1> QED
  BY <1>2, <1>3, <1>5, CallReplaced

\* A request begins and writes no table.
LEMMA QuietStart ==
  ASSUME Typed, Safe, NEW c \in Calls, NEW rec, Start(c, rec),
         UNCHANGED <<now, session, token>>,
         rec.pc # "expireOne", rec.pc # "expireListed",
         \A s \in rec.listed : s # rec.ses /\ session[s].phase # "unborn"
  PROVE  Safe'
<1>1. SessionsKept
  BY DEF SessionsKept
<1>2. Tables'
  BY <1>1, SameTokensTables DEF Safe, Tables
<1>3. ExpiresOnlyEnded'
  BY <1>1, KeptNoRevival, CallReplaced DEF Start, Safe
<1> QED
  BY <1>2, <1>3 DEF Safe, Tables

----------------------------------------------------------------------------
(* The actions.                                                            *)

LEMMA BeginSafe ==
  ASSUME Typed, Safe, NEW c \in Calls, Begin(c)
  PROVE  Safe'
<1> USE DEF Idle
<1>1. CASE OpenRead(c)
  BY <1>1, QuietStart DEF OpenRead
<1>2. ASSUME NEW t \in Tokens, LookupReuse(c, t) PROVE Safe'
  BY <1>2, QuietStart DEF LookupReuse
<1>3. ASSUME NEW t \in Tokens, LookupProceed(c, t) PROVE Safe'
  BY <1>3, QuietStart DEF LookupProceed
<1>4. ASSUME NEW s \in Sessions, Logout(c, s) PROVE Safe'
  <2> DEFINE rec == [Idle EXCEPT !.pc = "expireOne", !.ses = s]
  <2>1. SessionsKept /\ ~ Live(s)'
    BY <1>4, RevokedSessionsKept DEF Logout, Reasons
  <2>2. Tables'
    BY <1>4, <2>1, SameTokensTables DEF Logout, Safe, Tables
  <2>3. call' = [call EXCEPT ![c] = rec]
    BY <1>4 DEF Logout, Start
  <2>4. rec.pc = "expireOne" /\ rec.ses = s /\ rec.listed = {}
    OBVIOUS
  <2> HIDE DEF rec
  <2>5. ~ Survives(rec.ses)
    BY <2>1, <2>4 DEF Survives, Live, SessionExists
  <2>6. ExpiresOnlyEnded'
    BY <2>1, <2>3, <2>4, <2>5, KeptNoRevival, CallReplaced DEF Safe
  <2> QED
    BY <2>2, <2>6 DEF Safe, Tables
<1>5. ASSUME NEW s \in Sessions, RevokeSession(c, s) PROVE Safe'
  BY <1>5, QuietStart DEF RevokeSession
<1>6. ASSUME NEW s \in Sessions, RevokeOthers(c, s) PROVE Safe'
  <2>1. \A o \in {o \in Sessions \ {s} : Live(o)} : o # s /\ session[o].phase # "unborn"
    BY DEF Live, SessionExists
  <2> QED
    BY <1>6, <2>1, QuietStart DEF RevokeOthers
<1>7. ASSUME NEW s \in Sessions, ChangePassword(c, s) PROVE Safe'
  BY <1>7, QuietStart DEF ChangePassword
<1>8. ASSUME NEW why, RevokeEvery(c, why) PROVE Safe'
  BY <1>8, QuietStart DEF RevokeEvery
<1>9. CASE ResetPassword(c)
  BY <1>9, QuietStart DEF ResetPassword
<1> QED
  BY <1>1, <1>2, <1>3, <1>4, <1>5, <1>6, <1>7, <1>8, <1>9 DEF Begin

LEMMA RotateWriteTables ==
  ASSUME Typed, Safe, NEW c \in Calls, call[c].pc = "commit", RowsRemain(c),
         RotateWrite(c), now' = now
  PROVE  Tables' /\ SessionsKept
<1>1. call[c].tok \in Tokens /\ TokenExists(call[c].tok)
  BY DEF Typed, CallsRefer, RowsRemain
<1>2. SessionsKept
  BY DEF RotateWrite, SessionsKept, Typed, TypeOK, SessionRow
<1>3. Tables'
  BY <1>1, <1>2, RotatedTables DEF RotateWrite, Safe, Tables
<1> QED
  BY <1>2, <1>3

LEMMA OpenSafe ==
  ASSUME Typed, Safe, NEW c \in Calls, OpenInsert(c) \/ IssueToken(c)
  PROVE  Safe'
<1>1. CASE OpenInsert(c)
  <2>1. NoRevival
    <3>1. PICK s \in Sessions :
            /\ session[s].phase = "unborn"
            /\ \A o \in Sessions : o # s => session'[o] = session[o]
      BY <1>1 DEF OpenInsert, Typed, TypeOK
    <3> QED
      BY <3>1 DEF NoRevival, Survives, Live, SessionExists
  <2>2. PICK s \in Sessions : call' = [call EXCEPT ![c] = [Idle EXCEPT !.pc = "issue", !.ses = s]]
    BY <1>1 DEF OpenInsert, Start
  <2> DEFINE rec == [Idle EXCEPT !.pc = "issue", !.ses = s]
  <2>3. rec.pc = "issue" /\ rec.listed = {} /\ call' = [call EXCEPT ![c] = rec]
    BY <2>2 DEF Idle
  <2> HIDE DEF rec
  <2>4. ExpiresOnlyEnded'
    BY <2>1, <2>3, CallReplaced DEF Safe
  <2> QED
    BY <1>1, <2>4, OpenedTables DEF Safe, Tables
<1>2. CASE IssueToken(c)
  <2>1. SessionsKept
    BY <1>2 DEF IssueToken, SessionsKept
  <2>2. ExpiresOnlyEnded'
    BY <1>2, <2>1, KeptNoRevival, FinishSafe DEF IssueToken, Safe
  <2>3. call[c].ses \in Sessions
    BY <1>2 DEF IssueToken, Typed, CallsRefer
  <2>4. Tables'
    BY <1>2, <2>1, <2>3, IssuedTables, SameTokensTables DEF IssueToken, Safe, Tables
  <2> QED
    BY <2>2, <2>4 DEF Safe, Tables
<1> QED
  BY <1>1, <1>2

LEMMA RotationSafe ==
  ASSUME Typed, Safe, NEW c \in Calls, CheckStamp(c) \/ RotateCommit(c) \/ ReuseCommit(c)
  PROVE  Safe'
<1>1. CASE CheckStamp(c)
  <2>1. SessionsKept
    BY <1>1 DEF CheckStamp, SessionsKept
  <2>2. ExpiresOnlyEnded'
    BY <1>1, <2>1, KeptNoRevival, FinishSafe, ContinueSafe DEF CheckStamp, Safe, PCs
  <2> QED
    BY <1>1, <2>1, <2>2, SameTokensTables DEF CheckStamp, Safe, Tables
<1>2. CASE RotateCommit(c)
  <2>1. Tables' /\ SessionsKept
    <3>1. CASE RowsRemain(c)
      BY <1>2, <3>1, RotateWriteTables DEF RotateCommit
    <3>2. CASE ~ RowsRemain(c)
      <4>1. SessionsKept
        BY <1>2, <3>2 DEF RotateCommit, SessionsKept
      <4> QED
        BY <1>2, <3>2, <4>1, SameTokensTables DEF RotateCommit, Safe, Tables
    <3> QED
      BY <3>1, <3>2
  <2>2. ExpiresOnlyEnded'
    BY <1>2, <2>1, KeptNoRevival, FinishSafe DEF RotateCommit, Safe
  <2> QED
    BY <2>1, <2>2 DEF Safe, Tables
<1>3. CASE ReuseCommit(c)
  <2>1. SessionsKept
    BY <1>3, ReasonAssumption
    DEF ReuseCommit, SessionsKept, Typed, TypeOK, SessionRow, Reasons
  <2>2. ExpiresOnlyEnded'
    BY <1>3, <2>1, KeptNoRevival, FinishSafe DEF ReuseCommit, Safe
  <2>3. \/ token' = token
        \/ /\ RowsRemain(c)
           /\ \E n \in Tokens : token[n].phase = "unborn" /\ token' = Rotated(call[c].tok, n)
    BY <1>3 DEF ReuseCommit
  <2>4. call[c].tok \in Tokens /\ now' = now
    BY <1>3 DEF ReuseCommit, Typed, CallsRefer
  <2>5. Tables'
    BY <2>1, <2>3, <2>4, RotatedTables, SameTokensTables DEF RowsRemain, Safe, Tables
  <2> QED
    BY <2>2, <2>5 DEF Safe, Tables
<1> QED
  BY <1>1, <1>2, <1>3

LEMMA RevocationSafe ==
  ASSUME Typed, Safe, NEW c \in Calls,
         RevokeOne(c) \/ ExpireOne(c) \/ RevokeAll(c) \/ ExpireListed(c)
  PROVE  Safe'
<1>1. CASE RevokeOne(c)
  <2>1. SessionsKept /\ ~ Survives(call[c].ses)
    <3>1. call[c].ses \in Sessions
      BY <1>1 DEF RevokeOne, Typed, CallsRefer
    <3> QED
      BY <1>1, <3>1, RevokedSessionsKept DEF RevokeOne, Reasons, Survives, Live, SessionExists
  <2>2. ExpiresOnlyEnded'
    BY <1>1, <2>1, KeptNoRevival, ContinueSafe DEF RevokeOne, Safe, PCs
  <2> QED
    BY <1>1, <2>1, <2>2, SameTokensTables DEF RevokeOne, Safe, Tables
<1>2. CASE ExpireOne(c)
  <2>1. SessionsKept
    BY <1>2 DEF ExpireOne, SessionsKept
  <2>2. ExpiresOnlyEnded'
    BY <1>2, <2>1, KeptNoRevival, FinishSafe DEF ExpireOne, Safe
  <2>3. \A s \in Sessions \cap {call[c].ses} : ~ Live(s)
    BY <1>2 DEF ExpireOne, Safe, ExpiresOnlyEnded
  <2> QED
    BY <1>2, <2>2, <2>3, ExpiredTables DEF ExpireOne, Safe, Tables
<1>3. CASE RevokeAll(c)
  <2>1. call[c].why \in Reasons /\ call[c].listed \subseteq Sessions
    BY <1>3 DEF RevokeAll, Typed, TypeOK, CallState, CallsRefer
  <2>2. /\ SessionsKept
        /\ \A s \in Sessions \cap (Sessions \ {call[c].ses}) : ~ Live(s)'
    BY <1>3, <2>1, RevokedSessionsKept DEF RevokeAll
  <2>3. \A s \in call[c].listed : ~ Survives(s)
    BY <2>1, <2>2 DEF Safe, ExpiresOnlyEnded, Survives, Live, SessionExists
  <2>4. CASE Finish(c)
    BY <2>2, <2>4, KeptNoRevival, FinishSafe, SameTokensTables, <1>3
    DEF RevokeAll, Safe, Tables
  <2>5. CASE Continue(c, "expireListed")
    <3>1. ExpiresOnlyEnded'
      BY <2>2, <2>3, <2>5, KeptNoRevival, ContinueSafe DEF Safe, PCs
    <3> QED
      BY <1>3, <2>2, <3>1, SameTokensTables DEF RevokeAll, Safe, Tables
  <2> QED
    BY <1>3, <2>4, <2>5 DEF RevokeAll
<1>4. CASE ExpireListed(c)
  <2>1. SessionsKept
    BY <1>4 DEF ExpireListed, SessionsKept
  <2>2. ExpiresOnlyEnded'
    BY <1>4, <2>1, KeptNoRevival, FinishSafe DEF ExpireListed, Safe
  <2>3. \A s \in Sessions \cap call[c].listed : ~ Live(s)
    BY <1>4 DEF ExpireListed, Safe, ExpiresOnlyEnded
  <2> QED
    BY <1>4, <2>2, <2>3, ExpiredTables DEF ExpireListed, Safe, Tables
<1> QED
  BY <1>1, <1>2, <1>3, <1>4

LEMMA StampSafe ==
  ASSUME Typed, Safe, NEW c \in Calls, Restamp(c) \/ SaveStamp(c)
  PROVE  Safe'
<1>1. SessionsKept
  BY DEF Restamp, SaveStamp, SessionsKept, Typed, TypeOK, SessionRow
<1>2. ExpiresOnlyEnded'
  BY <1>1, KeptNoRevival, ContinueSafe DEF Restamp, SaveStamp, Safe, PCs
<1> QED
  BY <1>1, <1>2, SameTokensTables DEF Restamp, SaveStamp, Safe, Tables

LEMMA FaultSafe ==
  ASSUME Typed, Safe, NEW c \in Calls, Fault(c)
  PROVE  Safe'
<1>1. CASE SaveFails(c) \/ CommitFails(c)
  <2>1. SessionsKept
    BY <1>1 DEF SaveFails, CommitFails, SessionsKept
  <2>2. ExpiresOnlyEnded'
    BY <1>1, <2>1, KeptNoRevival, RetrySafe DEF SaveFails, CommitFails, Safe
  <2> QED
    BY <1>1, <2>1, <2>2, SameTokensTables DEF SaveFails, CommitFails, Safe, Tables
<1>2. CASE CommitAckLost(c)
  <2>1. Tables' /\ SessionsKept
    BY <1>2, RotateWriteTables DEF CommitAckLost, CanRetry
  <2>2. ExpiresOnlyEnded'
    BY <1>2, <2>1, KeptNoRevival, RetrySafe DEF CommitAckLost, Safe
  <2> QED
    BY <2>1, <2>2 DEF Safe, Tables
<1>3. CASE Abort(c)
  <2>1. SessionsKept
    BY <1>3 DEF Abort, SessionsKept
  <2>2. ExpiresOnlyEnded'
    BY <1>3, <2>1, KeptNoRevival, FinishSafe DEF Abort, Safe
  <2> QED
    BY <1>3, <2>1, <2>2, SameTokensTables DEF Abort, Safe, Tables
<1> QED
  BY <1>1, <1>2, <1>3 DEF Fault

LEMMA CleanupSafe ==
  ASSUME Typed, Safe, Cleanup
  PROVE  Safe'
<1>1. NoRevival
  <2>1. ASSUME NEW B,
               session' = [s \in Sessions |-> IF s \in B THEN NoSession("purged") ELSE session[s]]
        PROVE  NoRevival
    BY <2>1 DEF NoRevival, NoSession, Survives, Live, SessionExists
  <2>2. CASE session' = session
    BY <2>2 DEF NoRevival, Survives, Live, SessionExists
  <2> QED
    BY <2>1, <2>2 DEF Cleanup, CleanupTokens, CleanupSessions, CleanupFails
<1>2. ExpiresOnlyEnded'
  BY <1>1, CallsSame DEF Cleanup, CleanupTokens, CleanupSessions, CleanupFails, Safe
<1>3. Tables'
  <2>1. CASE CleanupFails
    <3>1. SessionsKept
      BY <2>1 DEF CleanupFails, SessionsKept
    <3> QED
      BY <2>1, <3>1, SameTokensTables DEF CleanupFails, Safe, Tables
  <2> QED
    BY <2>1, CleanupTokensTables, CleanupSessionsTables DEF Cleanup, Safe, Tables
<1> QED
  BY <1>2, <1>3 DEF Safe, Tables

LEMMA NextSafe ==
  ASSUME Typed, Safe, [Next]_vars
  PROVE  Safe'
<1>1. CASE UNCHANGED vars
  BY <1>1 DEF vars, Safe, Bounded, ExpiresOnlyEnded, Detected, ChainLinked,
     SessionExists, TokenExists, Live
<1>2. ASSUME NEW c \in Calls, Begin(c) PROVE Safe'
  BY <1>2, BeginSafe
<1>3. ASSUME NEW c \in Calls, Proceed(c) PROVE Safe'
  BY <1>3, OpenSafe, RotationSafe, RevocationSafe, StampSafe DEF Proceed
<1>4. ASSUME NEW c \in Calls, Fault(c) PROVE Safe'
  BY <1>4, FaultSafe
<1>5. CASE Cleanup
  BY <1>5, CleanupSafe
<1>6. CASE Tick
  <2>1. Tables'
    BY <1>6, TickTables DEF Safe, Tables
  <2>2. ExpiresOnlyEnded'
    BY <1>6 DEF Tick, Safe, ExpiresOnlyEnded, Live, SessionExists
  <2> QED
    BY <2>1, <2>2 DEF Safe, Tables
<1> QED
  BY <1>1, <1>2, <1>3, <1>4, <1>5, <1>6 DEF Next, Step

----------------------------------------------------------------------------
\* The inductive invariant: caps are fixed, token rows have a session row, spent
\* tokens of live sessions are kept, tokens form chains.
THEOREM SafeAlways == Spec => []Safe
<1>1. Typed /\ Safe /\ [Next]_vars => Safe'
  BY NextSafe
<1> QED
  BY <1>1, InitSafe, TypedAlways, PTL DEF Spec

\* No rotation or revocation, in whatever order the requests execute, lets a
\* token outlive the cap set by the login.
THEOREM TokensBoundedByLogin == Spec => []BoundedByLogin
<1>1. Typed /\ Safe => BoundedByLogin
  BY DEF Typed, TokensRefer, Safe, Bounded, BoundedByLogin, TokenExists
<1> QED
  BY <1>1, TypedAlways, SafeAlways, PTL

\* The replay of a spent token of a live session is always answered with
\* ReuseDetected: no cleanup pass or concurrent request removes the evidence.
THEOREM ReplayDetected == Spec => []ReplayAlwaysDetected
<1>1. Safe => ReplayAlwaysDetected
  BY DEF Safe, Detected, ReplayAlwaysDetected, Verdict
<1> QED
  BY <1>1, SafeAlways, PTL

\* A rotation, a retried rotation or the cleanup never breaks the chain.
THEOREM ChainsLinked == Spec => []ChainLinked
<1>1. Safe => ChainLinked
  BY DEF Safe
<1> QED
  BY <1>1, SafeAlways, PTL
=============================================================================
