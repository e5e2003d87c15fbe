---------------------- MODULE RefreshRotationLifecycle ----------------------
(***************************************************************************)
(* What the requests of RefreshRotation promise about ended sessions and   *)
(* about the life of sessions and tokens, for all values of its constants: *)
(* NoMintAfterEnd, the refinement of SessionLifecycle and, for requests    *)
(* served one at a time, SingleLiveToken.                                  *)
(***************************************************************************)
EXTENDS RefreshRotationSafety, FiniteSetTheorems

\* Request c has drawn a stamp and not yet written it to the user.
Pending(c) == call[c].pc \in {"restamp", "saveStamp"}

\* Stamps are drawn once: one that is still to be written to the user is nobody
\* else's, except that the request's own session may carry it already.
StampsFresh ==
  /\ userStamp <= lastStamp
  /\ \A s \in Sessions : session[s].stamp <= lastStamp
  /\ \A c \in Calls : call[c].stamp <= lastStamp
  /\ \A c \in Calls : Pending(c) =>
       /\ call[c].stamp # userStamp
       /\ \A d \in Calls : d # c /\ (Pending(d) \/ call[d].pc = "open")
            => call[d].stamp # call[c].stamp
       /\ \A s \in Sessions : SessionExists(s) /\ session[s].stamp = call[c].stamp
            => call[c].ses = s

\* Stamp k is not the user's and never will be again.
Dead(k) ==
  /\ k <= lastStamp
  /\ k # userStamp
  /\ \A c \in Calls : Pending(c) => call[c].stamp # k

\* Request c may still write the activity of its session.
Touching(c) ==
  call[c].pc \in {"stamp", "commit"} \/ (call[c].pc = "reuse" /\ call[c].dirty)

Idling(s) == session[s].lastActive + InactivityWindow <= now

\* Why a session that has ended stays ended.
EndedForGood ==
  \A s \in ended :
    /\ session[s].phase # "unborn"
    /\ SessionExists(s) =>
         \/ session[s].reason # None
         \/ session[s].absExpires <= now
         \/ Idling(s) /\ \A c \in Calls : call[c].ses = s => ~ Touching(c)
         \/ Dead(session[s].stamp)

\* A request that began too late stops at the comparison of the stamps.
LateStops ==
  \A c \in Calls : call[c].late => call[c].pc = "stamp" /\ Dead(call[c].stamp)

Ends == StampsFresh /\ EndedForGood /\ LateStops

\* The session about to receive its first token owns none, and is one request's.
FirstTokens ==
  /\ \A t \in Tokens : token[t].phase = "unborn" => token[t].session = None
  /\ \A c \in Calls : call[c].pc = "issue" =>
       /\ \A t \in Tokens : token[t].session # call[c].ses
       /\ \A d \in Calls : d # c /\ call[d].pc = "issue" => call[d].ses # call[c].ses

\* One request at a time: what it presented is unspent until it commits, and the
\* unspent tokens of a live session are one.
Unspent(t) == TokenExists(t) /\ ~ token[t].used

PresentedUnspent ==
  \A c \in Calls : call[c].pc \in {"stamp", "commit"} => ~ token[call[c].tok].used

OnePerSession ==
  \A t, u \in Tokens :
    /\ Unspent(t) /\ Unspent(u)
    /\ token[t].session = token[u].session
    /\ Live(token[t].session)
    => t = u

OneUnspent == PresentedUnspent /\ OnePerSession


----------------------------------------------------------------------------
(* What every step does to the stamps, the requests and the sessions.      *)

CallSays(d) ==
  /\ call'[d].stamp <= lastStamp'
  /\ Pending(d)' =>
       \/ Pending(d) /\ call'[d].stamp = call[d].stamp /\ call'[d].ses = call[d].ses
       \/ call'[d].stamp = lastStamp + 1 /\ \A e \in Calls : e # d => call'[e] = call[e]
  /\ call'[d].pc = "open" =>
       \/ call[d].pc = "open" /\ call'[d].stamp = call[d].stamp
       \/ call'[d].stamp = userStamp
  /\ Touching(d)' =>
       (Touching(d) /\ call'[d].ses = call[d].ses) \/ ~ Idling(call'[d].ses)
  /\ call'[d].late => call'[d].pc = "stamp" /\ Dead(call'[d].stamp)

SessionSays(s) ==
  /\ session'[s].stamp <= lastStamp'
  /\ session[s].phase # "unborn" => session'[s].phase # "unborn"
  /\ session'[s].phase = "row" =>
       \/ /\ SessionExists(s)
          /\ session'[s].absExpires = session[s].absExpires
          /\ session[s].reason # None => session'[s].reason # None
          /\ \/ session'[s].lastActive = session[s].lastActive
             \/ \E d \in Calls : Touching(d) /\ call[d].ses = s
          /\ \/ session'[s].stamp = session[s].stamp
             \/ \E d \in Calls : /\ call[d].pc = "restamp" /\ call[d].ses = s
                                 /\ session'[s].stamp = call[d].stamp
       \/ /\ session[s].phase = "unborn"
          /\ \E d \in Calls : call[d].pc = "open" /\ session'[s].stamp = call[d].stamp

UserSays ==
  \/ userStamp' = userStamp
  \/ \E d \in Calls : Pending(d) /\ ~ Pending(d)' /\ userStamp' = call[d].stamp

Says ==
  /\ lastStamp <= lastStamp' /\ now <= now'
  /\ UserSays
  /\ \A d \in Calls : CallSays(d)
  /\ \A s \in Sessions : SessionSays(s)

\* The numbers the arithmetic below is about.
LEMMA Numbers ==
  ASSUME Typed
  PROVE  /\ userStamp \in Nat /\ lastStamp \in Nat /\ now \in Nat
         /\ InactivityWindow \in Nat
         /\ \A c \in Calls : call[c].stamp \in Nat /\ call[c].at \in Nat
         /\ \A s \in Sessions : /\ session[s].stamp \in Nat /\ session[s].lastActive \in Nat
                                /\ session[s].absExpires \in Nat
<1>1. \A r \in CallState : r.stamp \in Nat /\ r.at \in Nat
  BY RotationAssumption DEF CallState, Time
<1>2. \A r \in SessionRow : r.stamp \in Nat /\ r.lastActive \in Nat /\ r.absExpires \in Nat
  BY RotationAssumption DEF SessionRow, Time
<1> QED
  BY <1>1, <1>2, RotationAssumption DEF Typed, TypeOK, Time

LEMMA DeadStays ==
  ASSUME Typed, Typed', Says, NEW k \in Nat, Dead(k)
  PROVE  Dead(k)'
<1>1. k # userStamp'
  BY DEF Says, UserSays, Dead
<1>2. \A c \in Calls : Pending(c)' => call'[c].stamp # k
  BY Numbers DEF Says, CallSays, Dead
<1>3. lastStamp \in Nat /\ lastStamp' \in Nat /\ lastStamp <= lastStamp' /\ k <= lastStamp
  BY RotationAssumption DEF Typed, TypeOK, Says, Dead
<1> QED
  BY <1>1, <1>2, <1>3 DEF Dead

LEMMA StampsFreshStep ==
  ASSUME Typed, Typed', Says, StampsFresh
  PROVE  StampsFresh'
<1>1. userStamp' <= lastStamp
  BY DEF Says, UserSays, StampsFresh
<1>2. lastStamp \in Nat /\ lastStamp' \in Nat /\ userStamp' \in Nat /\ lastStamp <= lastStamp'
  BY RotationAssumption DEF Typed, TypeOK, Says
<1>3. /\ \A s \in Sessions : session'[s].stamp <= lastStamp'
      /\ \A c \in Calls : call'[c].stamp <= lastStamp'
  BY DEF Says, SessionSays, CallSays
<1>4. \A c \in Calls : call[c].stamp \in Nat /\ call[c].stamp <= lastStamp
  BY Numbers DEF StampsFresh
<1>5. \A s \in Sessions : session'[s].phase = "row" =>
        \/ SessionExists(s) /\ session'[s].stamp = session[s].stamp
        \/ \E d \in Calls : /\ call[d].pc = "restamp" /\ call[d].ses = s
                            /\ session'[s].stamp = call[d].stamp
        \/ \E d \in Calls : call[d].pc = "open" /\ session'[s].stamp = call[d].stamp
  BY DEF Says, SessionSays
<1>6. ASSUME NEW c \in Calls, Pending(c)'
      PROVE  /\ call'[c].stamp # userStamp'
             /\ \A d \in Calls : d # c /\ (Pending(d)' \/ call'[d].pc = "open")
                  => call'[d].stamp # call'[c].stamp
             /\ \A s \in Sessions : session'[s].phase = "row" /\ session'[s].stamp = call'[c].stamp
                  => call'[c].ses = s
  <2>1. CASE Pending(c) /\ call'[c].stamp = call[c].stamp /\ call'[c].ses = call[c].ses
    <3>1. call'[c].stamp # userStamp'
      BY <1>6, <2>1 DEF Says, UserSays, StampsFresh
    <3>2. ASSUME NEW d \in Calls, d # c, Pending(d)' \/ call'[d].pc = "open"
          PROVE  call'[d].stamp # call'[c].stamp
      <4>1. call[c].stamp # userStamp /\ call[c].stamp # lastStamp + 1
        BY <1>2, <1>4, <2>1 DEF StampsFresh
      <4>2. CallSays(d) /\ (Pending(d) \/ call[d].pc = "open" => call[d].stamp # call[c].stamp)
        BY <2>1, <3>2 DEF Says, StampsFresh
      <4> QED
        BY <2>1, <3>2, <4>1, <4>2 DEF CallSays
    <3>3. ASSUME NEW s \in Sessions, session'[s].phase = "row", session'[s].stamp = call'[c].stamp
          PROVE  call'[c].ses = s
      BY <1>5, <2>1, <3>3 DEF StampsFresh, Pending
    <3> QED
      BY <3>1, <3>2, <3>3
  <2>2. CASE /\ call'[c].stamp = lastStamp + 1
             /\ \A e \in Calls : e # c => call'[e] = call[e]
    <3>1. \A s \in Sessions : session'[s].phase = "row" => session'[s].stamp <= lastStamp
      BY <1>4, <1>5 DEF StampsFresh
    <3>2. \A s \in Sessions : session'[s].stamp \in Nat
      BY RotationAssumption DEF Typed, TypeOK, SessionRow
    <3> QED
      BY <1>1, <1>2, <1>4, <2>2, <3>1, <3>2
  <2> QED
    BY <1>6, <2>1, <2>2 DEF Says, CallSays
<1> QED
  BY <1>1, <1>2, <1>3, <1>6 DEF StampsFresh, SessionExists

LEMMA EndsStep ==
  ASSUME Typed, Typed', Says, Ends,
         ended' = {s \in ended : session'[s].stamp = session[s].stamp}
                    \cup {s \in Sessions : Ended(s)'}
  PROVE  Ends'
<1>1. StampsFresh'
  BY StampsFreshStep DEF Ends
<1>2. LateStops'
  <2> SUFFICES ASSUME NEW c \in Calls, call'[c].late
               PROVE  call'[c].pc = "stamp" /\ Dead(call[c].stamp)'
    BY DEF LateStops
  <2>1. call'[c].pc = "stamp" /\ Dead(call'[c].stamp)
    BY DEF Says, CallSays
  <2>2. PICK k \in Nat : k = call'[c].stamp
    BY Numbers, RotationAssumption DEF Typed, TypeOK, CallState
  <2>3. Dead(k)'
    BY <2>1, <2>2, DeadStays
  <2> QED
    BY <2>1, <2>2, <2>3 DEF Dead
<1>3. ASSUME NEW s \in ended, session'[s].stamp = session[s].stamp
      PROVE  /\ session'[s].phase # "unborn"
             /\ session'[s].phase = "row" =>
                  \/ session'[s].reason # None
                  \/ session'[s].absExpires <= now'
                  \/ Idling(s)' /\ \A c \in Calls : call'[c].ses = s => ~ Touching(c)'
                  \/ Dead(session[s].stamp)'
  <2>1. s \in Sessions /\ session[s].phase # "unborn" /\ SessionSays(s)
    BY DEF Typed, TypeOK, Ends, EndedForGood, Says
  <2>2. SUFFICES ASSUME session'[s].phase = "row"
                 PROVE  \/ session'[s].reason # None
                        \/ session'[s].absExpires <= now'
                        \/ Idling(s)' /\ \A c \in Calls : call'[c].ses = s => ~ Touching(c)'
                        \/ Dead(session[s].stamp)'
    BY <2>1 DEF SessionSays
  <2>3. /\ SessionExists(s)
        /\ session'[s].absExpires = session[s].absExpires
        /\ session[s].reason # None => session'[s].reason # None
        /\ \/ session'[s].lastActive = session[s].lastActive
           \/ \E d \in Calls : Touching(d) /\ call[d].ses = s
    BY <2>1, <2>2 DEF SessionSays
  <2>4. now \in Nat /\ now' \in Nat /\ now <= now' /\ InactivityWindow \in Nat
    BY RotationAssumption DEF Typed, TypeOK, Time, Says
  <2>5. session[s].absExpires \in Nat /\ session[s].lastActive \in Nat /\ session[s].stamp \in Nat
    BY <2>1, Numbers
  <2>6. CASE session[s].reason # None
    BY <2>3, <2>6
  <2>7. CASE session[s].absExpires <= now
    BY <2>3, <2>4, <2>5, <2>7
  <2>8. CASE Idling(s) /\ \A c \in Calls : call[c].ses = s => ~ Touching(c)
    <3>1. Idling(s)'
      BY <2>3, <2>4, <2>5, <2>8 DEF Idling
    <3>2. \A c \in Calls : call'[c].ses = s => ~ Touching(c)'
      BY <2>8 DEF Says, CallSays
    <3> QED
      BY <3>1, <3>2
  <2>9. CASE Dead(session[s].stamp)
    <3>1. PICK k \in Nat : k = session[s].stamp
      BY <2>5
    <3>2. Dead(k)'
      BY <2>9, <3>1, DeadStays
    <3> QED
      BY <1>3, <3>1, <3>2 DEF Dead
  <2> QED
    BY <2>3, <2>6, <2>7, <2>8, <2>9 DEF Ends, EndedForGood
<1>4. ASSUME NEW s \in Sessions, Ended(s)'
      PROVE  /\ session'[s].phase # "unborn"
             /\ \/ session'[s].reason # None
                \/ session'[s].absExpires <= now'
                \/ Idling(s)' /\ \A c \in Calls : call'[c].ses = s => ~ Touching(c)'
                \/ Dead(session[s].stamp)'
  <2>1. session'[s].phase = "row"
    BY <1>4 DEF Ended, SessionExists
  <2>2. ASSUME \A c \in Calls : call'[c].ses # s, session'[s].stamp # userStamp'
        PROVE  Dead(session[s].stamp)'
    BY <1>1, <2>1, <2>2 DEF StampsFresh, Dead, SessionExists
  <2> QED
    BY <1>4, <2>1, <2>2 DEF Ended, Idling
<1>5. EndedForGood'
  BY <1>3, <1>4 DEF EndedForGood, SessionExists
<1> QED
  BY <1>1, <1>2, <1>5 DEF Ends

----------------------------------------------------------------------------
(* The ways a request's record changes.                                    *)

LEMMA StartSays ==
  ASSUME Typed, Ends, NEW c \in Calls, NEW rec, Start(c, rec), lastStamp <= lastStamp',
         rec.stamp <= lastStamp',
         rec.pc \in {"restamp", "saveStamp"} => rec.stamp = lastStamp + 1,
         rec.pc = "open" => rec.stamp = userStamp,
         rec.pc \in {"stamp", "commit"} => ~ Idling(rec.ses),
         rec.pc = "reuse" => ~ rec.dirty,
         rec.late => rec.pc = "stamp" /\ Dead(rec.stamp),
         lastStamp' \in Nat
  PROVE  \A d \in Calls : CallSays(d)
<1>1. call'[c] = rec /\ \A d \in Calls : d # c => call'[d] = call[d]
  BY DEF Start, Typed, TypeOK
<1>2. CallSays(c)
  BY <1>1 DEF CallSays, Pending, Touching
<1>3. ASSUME NEW d \in Calls, d # c
      PROVE  CallSays(d)
  <2>1. call'[d] = call[d]
    BY <1>1, <1>3
  <2>2. call[d].stamp <= lastStamp /\ call[d].stamp \in Nat /\ lastStamp \in Nat
    BY Numbers DEF Ends, StampsFresh
  <2>3. call'[d].stamp <= lastStamp'
    BY <2>1, <2>2
  <2> QED
    BY <2>1, <2>3 DEF CallSays, Pending, Touching, Ends, LateStops
<1> QED
  BY <1>2, <1>3

LEMMA FinishSays ==
  ASSUME Typed, Ends, NEW c \in Calls, Finish(c), lastStamp' = lastStamp
  PROVE  \A d \in Calls : CallSays(d)
<1>1. Start(c, Idle)
  BY DEF Start, Finish
<1>2. Idle.stamp = 0 /\ Idle.pc = "idle" /\ Idle.late = FALSE
  BY DEF Idle
<1>3. lastStamp \in Nat
  BY Numbers
<1> QED
  BY <1>1, <1>2, <1>3, StartSays

\* A request in flight whose stamp and session stay as they are.
LEMMA MoveSays ==
  ASSUME Typed, Ends, NEW c \in Calls, NEW rec, call' = [call EXCEPT ![c] = rec],
         rec.stamp = call[c].stamp, rec.ses = call[c].ses, rec.late = call[c].late,
         call[c].pc # "stamp" \/ call[c].stamp = userStamp,
         rec.pc # "open", rec.pc # "stamp", lastStamp' = lastStamp,
         rec.pc \in {"restamp", "saveStamp"} => Pending(c),
         rec.pc \in {"commit", "reuse"} => Touching(c)
  PROVE  \A d \in Calls : CallSays(d)
<1>1. call'[c] = rec /\ \A d \in Calls : d # c => call'[d] = call[d]
  BY DEF Typed, TypeOK
<1>2. ~ rec.late
  BY DEF Ends, LateStops, Dead
<1>3. call[c].stamp <= lastStamp
  BY DEF Ends, StampsFresh
<1>4. CallSays(c)
  BY <1>1, <1>2, <1>3 DEF CallSays, Pending, Touching
<1>5. ASSUME NEW d \in Calls, d # c
      PROVE  CallSays(d)
  <2>1. call'[d] = call[d] /\ call[d].stamp <= lastStamp'
    BY <1>1, <1>5 DEF Ends, StampsFresh
  <2> QED
    BY <2>1 DEF CallSays, Pending, Touching, Ends, LateStops
<1> QED
  BY <1>4, <1>5

LEMMA ContinueSays ==
  ASSUME Typed, Ends, NEW c \in Calls, NEW pc, Continue(c, pc), lastStamp' = lastStamp,
         call[c].pc # "stamp" \/ call[c].stamp = userStamp,
         pc \notin {"open", "stamp", "reuse"},
         pc \in {"restamp", "saveStamp"} => Pending(c),
         pc = "commit" => Touching(c)
  PROVE  \A d \in Calls : CallSays(d)
<1> DEFINE rec == [call[c] EXCEPT !.pc = pc]
<1>1. call[c] \in CallState
  BY DEF Typed, TypeOK
<1>2. rec.pc = pc /\ rec.stamp = call[c].stamp /\ rec.ses = call[c].ses /\ rec.late = call[c].late
  BY <1>1 DEF CallState
<1>3. call' = [call EXCEPT ![c] = rec]
  BY DEF Continue
<1> HIDE DEF rec
<1> QED
  BY <1>2, <1>3, MoveSays

LEMMA RetrySays ==
  ASSUME Typed, Ends, NEW c \in Calls, NEW dirty, Retry(c, dirty), lastStamp' = lastStamp,
         call[c].pc = "commit"
  PROVE  \A d \in Calls : CallSays(d)
<1> DEFINE more == call[c].tries + 1
           rec == [call[c] EXCEPT !.pc = "reuse", !.dirty = dirty, !.tries = more]
<1>1. call[c] \in CallState
  BY DEF Typed, TypeOK
<1>2. call' = [call EXCEPT ![c] = rec]
  BY DEF Retry
<1> HIDE DEF more
<1>3. rec.pc = "reuse" /\ rec.stamp = call[c].stamp /\ rec.ses = call[c].ses
      /\ rec.late = call[c].late
  BY <1>1 DEF CallState
<1> HIDE DEF rec
<1> QED
  BY <1>2, <1>3, MoveSays DEF Touching

----------------------------------------------------------------------------
(* The ways the sessions change.                                           *)

LEMMA SameSessionsSay ==
  ASSUME Typed, Ends, session' = session, lastStamp <= lastStamp', lastStamp' \in Nat
  PROVE  \A s \in Sessions : SessionSays(s)
<1>1. \A s \in Sessions : session[s].stamp <= lastStamp'
  BY Numbers DEF Ends, StampsFresh
<1>2. \A s \in Sessions : session[s].phase \in Phases
  BY DEF Typed, TypeOK, SessionRow
<1> QED
  BY <1>1, <1>2 DEF SessionSays, SessionExists

LEMMA RevokedSay ==
  ASSUME Typed, Ends, NEW S, NEW why \in Reasons, session' = Revoked(S, why),
         lastStamp' = lastStamp
  PROVE  \A s \in Sessions : SessionSays(s)
<1>1. \A s \in Sessions : /\ session'[s].phase = session[s].phase
                          /\ session'[s].absExpires = session[s].absExpires
                          /\ session'[s].lastActive = session[s].lastActive
                          /\ session'[s].stamp = session[s].stamp
                          /\ session[s].reason # None => session'[s].reason # None
  BY ReasonAssumption DEF Typed, TypeOK, SessionRow, Revoked, Live, SessionExists
<1> QED
  BY <1>1 DEF SessionSays, SessionExists, Ends, StampsFresh

\* The activity of a request's session is written, and perhaps a revocation.
LEMMA ActivitySays ==
  ASSUME Typed, Ends, NEW c \in Calls, lastStamp' = lastStamp,
         \A s \in Sessions :
           /\ session'[s].phase = session[s].phase
           /\ session'[s].absExpires = session[s].absExpires
           /\ session'[s].stamp = session[s].stamp
           /\ session[s].reason # None => session'[s].reason # None
           /\ session'[s].lastActive = session[s].lastActive
              \/ (s = call[c].ses /\ Touching(c))
  PROVE  \A s \in Sessions : SessionSays(s)
  BY DEF SessionSays, SessionExists, Ends, StampsFresh

LEMMA RotateWriteSays ==
  ASSUME Typed, Ends, NEW c \in Calls, call[c].pc = "commit", RotateWrite(c),
         lastStamp' = lastStamp
  PROVE  \A s \in Sessions : SessionSays(s)
<1>1. \A s \in Sessions :
        /\ session'[s].phase = session[s].phase
        /\ session'[s].absExpires = session[s].absExpires
        /\ session'[s].stamp = session[s].stamp
        /\ session'[s].reason = session[s].reason
        /\ session'[s].lastActive = session[s].lastActive \/ s = call[c].ses
  BY DEF RotateWrite, Typed, TypeOK, SessionRow
<1> QED
  BY <1>1, ActivitySays DEF Touching

----------------------------------------------------------------------------
(* The actions.                                                            *)

\* A request begins and changes no table and no stamp.
LEMMA QuietSays ==
  ASSUME Typed, Ends, NEW c \in Calls, NEW rec, Start(c, rec),
         UNCHANGED <<now, userStamp, lastStamp, session>>,
         rec.stamp <= lastStamp,
         rec.pc \notin {"restamp", "saveStamp"},
         rec.pc = "open" => rec.stamp = userStamp,
         rec.pc \in {"stamp", "commit"} => ~ Idling(rec.ses),
         rec.pc = "reuse" => ~ rec.dirty,
         rec.late => rec.pc = "stamp" /\ Dead(rec.stamp)
  PROVE  Says
<1>1. lastStamp \in Nat /\ lastStamp' = lastStamp /\ now \in Nat
  BY Numbers
<1>2. \A d \in Calls : CallSays(d)
  BY <1>1, StartSays
<1>3. \A s \in Sessions : SessionSays(s)
  BY <1>1, SameSessionsSay
<1> QED
  BY <1>1, <1>2, <1>3 DEF Says, UserSays

\* A request begins by drawing a stamp.
LEMMA DrawSays ==
  ASSUME Typed, Ends, NEW c \in Calls, NEW rec, Start(c, rec),
         UNCHANGED <<now, userStamp, session>>, lastStamp' = lastStamp + 1,
         rec.stamp = lastStamp + 1, rec.pc \in {"restamp", "saveStamp"}, rec.late = FALSE
  PROVE  Says
<1>1. lastStamp \in Nat /\ lastStamp' \in Nat /\ lastStamp <= lastStamp' /\ now \in Nat
  BY Numbers
<1>2. \A d \in Calls : CallSays(d)
  BY <1>1, StartSays
<1>3. \A s \in Sessions : SessionSays(s)
  BY <1>1, SameSessionsSay
<1> QED
  BY <1>1, <1>2, <1>3 DEF Says, UserSays

\* A session that ended and would still pass the checks of the lookup carries a
\* dead stamp: the comparison of the stamps is what stops the request.
LEMMA LateIsDead ==
  ASSUME Typed, Safe, Ends, NEW t \in Tokens, token[t].phase # "unborn",
         Verdict(t) = "Proceed"
  PROVE  /\ token[t].session \in Sessions
         /\ ~ Idling(token[t].session)
         /\ token[t].session \in ended => Dead(session[token[t].session].stamp)
<1>1. TokenExists(t) /\ token[t].session \in Sessions
  BY DEF Verdict, Typed, TokensRefer
<1>2. SessionExists(token[t].session)
  BY <1>1 DEF Safe, Bounded
<1>3. /\ session[token[t].session].reason = None
      /\ ~ session[token[t].session].absExpires <= now
      /\ ~ Idling(token[t].session)
  BY <1>1 DEF Verdict, Idling
<1> QED
  BY <1>1, <1>2, <1>3 DEF Ends, EndedForGood

LEMMA BeginSays ==
  ASSUME Typed, Safe, Ends, NEW c \in Calls, Begin(c)
  PROVE  Says
<1> USE DEF Idle
<1>0. 0 <= lastStamp /\ userStamp <= lastStamp
  BY Numbers DEF Ends, StampsFresh
<1>1. CASE OpenRead(c)
  BY <1>0, <1>1, QuietSays DEF OpenRead
<1>2. ASSUME NEW t \in Tokens, LookupReuse(c, t) PROVE Says
  BY <1>0, <1>2, QuietSays DEF LookupReuse
<1>3. ASSUME NEW t \in Tokens, LookupProceed(c, t) PROVE Says
  <2> DEFINE s == token[t].session
             rec == [Idle EXCEPT !.pc = "stamp", !.tok = t, !.ses = s, !.at = now,
                                 !.stamp = session[s].stamp, !.late = s \in ended]
  <2>1. s \in Sessions /\ ~ Idling(s) /\ (s \in ended => Dead(session[s].stamp))
    BY <1>3, LateIsDead DEF LookupProceed
  <2>2. session[s].stamp <= lastStamp
    BY <2>1 DEF Ends, StampsFresh
  <2>3. Start(c, rec) /\ UNCHANGED <<now, userStamp, lastStamp, session>>
    BY <1>3 DEF LookupProceed
  <2>4. rec.pc = "stamp" /\ rec.ses = s /\ rec.stamp = session[s].stamp /\ rec.late = (s \in ended)
    OBVIOUS
  <2> HIDE DEF rec, s
  <2> QED
    BY <2>1, <2>2, <2>3, <2>4, QuietSays
<1>4. ASSUME NEW s \in Sessions, Logout(c, s) PROVE Says
  <2>1. lastStamp \in Nat /\ lastStamp' = lastStamp /\ now' = now /\ now \in Nat
    BY <1>4, Numbers DEF Logout
  <2> DEFINE rec == [Idle EXCEPT !.pc = "expireOne", !.ses = s]
  <2>4. rec.pc = "expireOne" /\ rec.stamp = 0 /\ rec.late = FALSE /\ Start(c, rec)
    BY <1>4 DEF Logout
  <2> HIDE DEF rec
  <2>2. \A d \in Calls : CallSays(d)
    BY <1>0, <2>1, <2>4, StartSays
  <2>3. \A o \in Sessions : SessionSays(o)
    BY <1>4, <2>1, RevokedSay DEF Logout, Reasons
  <2> QED
    BY <1>4, <2>1, <2>2, <2>3 DEF Says, UserSays, Logout
<1>5. ASSUME NEW s \in Sessions, RevokeSession(c, s) PROVE Says
  BY <1>0, <1>5, QuietSays DEF RevokeSession
<1>6. ASSUME NEW s \in Sessions, RevokeOthers(c, s) PROVE Says
  BY <1>0, <1>6, QuietSays DEF RevokeOthers
<1>7. ASSUME NEW s \in Sessions, ChangePassword(c, s) PROVE Says
  <2> DEFINE rec == [Idle EXCEPT !.pc = "restamp", !.ses = s, !.stamp = lastStamp + 1,
                                 !.why = "PasswordChanged"]
  <2>1. rec.pc = "restamp" /\ rec.stamp = lastStamp + 1 /\ rec.late = FALSE /\ Start(c, rec)
    BY <1>7 DEF ChangePassword
  <2> HIDE DEF rec
  <2> QED
    BY <1>7, <2>1, DrawSays DEF ChangePassword
<1>8. ASSUME NEW why, RevokeEvery(c, why) PROVE Says
  BY <1>0, <1>8, QuietSays DEF RevokeEvery
<1>9. CASE ResetPassword(c)
  <2> DEFINE rec == [Idle EXCEPT !.pc = "saveStamp", !.stamp = lastStamp + 1,
                                 !.why = "PasswordReset"]
  <2>1. rec.pc = "saveStamp" /\ rec.stamp = lastStamp + 1 /\ rec.late = FALSE /\ Start(c, rec)
    BY <1>9 DEF ResetPassword
  <2> HIDE DEF rec
  <2> QED
    BY <1>9, <2>1, DrawSays DEF ResetPassword
<1> QED
  BY <1>1, <1>2, <1>3, <1>4, <1>5, <1>6, <1>7, <1>8, <1>9 DEF Begin

\* A request in flight ends.
LEMMA EndingSays ==
  ASSUME Typed, Ends, NEW c \in Calls, Finish(c), UNCHANGED <<now, userStamp, lastStamp>>,
         \A s \in Sessions : SessionSays(s)
  PROVE  Says
<1>1. lastStamp \in Nat /\ now \in Nat
  BY Numbers
<1>2. \A d \in Calls : CallSays(d)
  BY FinishSays
<1> QED
  BY <1>1, <1>2 DEF Says, UserSays

LEMMA OpenSays ==
  ASSUME Typed, Ends, NEW c \in Calls, OpenInsert(c)
  PROVE  Says
<1>1. PICK s \in Sessions :
        /\ session[s].phase = "unborn"
        /\ session' = [session EXCEPT ![s] =
             [phase |-> "row", stamp |-> call[c].stamp, authAt |-> call[c].at,
              lastActive |-> call[c].at, absExpires |-> call[c].at + AbsoluteLifetime,
              reason |-> None]]
  BY DEF OpenInsert
<1>2. lastStamp \in Nat /\ now \in Nat /\ UNCHANGED <<now, userStamp, lastStamp>>
  BY Numbers DEF OpenInsert
<1>4. \A d \in Calls : CallSays(d)
  <2>1. PICK o \in Sessions : call' = [call EXCEPT ![c] = [Idle EXCEPT !.pc = "issue", !.ses = o]]
    BY ZenonT(20) DEF OpenInsert, Start
  <2> DEFINE rec == [Idle EXCEPT !.pc = "issue", !.ses = o]
  <2>2. rec.pc = "issue" /\ rec.stamp = 0 /\ rec.late = FALSE /\ Start(c, rec)
    BY <2>1 DEF Idle, Start
  <2> HIDE DEF rec
  <2> QED
    BY <1>2, <2>2, StartSays
<1>5. ASSUME NEW o \in Sessions
      PROVE  SessionSays(o)
  <2>1. CASE o # s
    <3>1. session'[o] = session[o]
      BY <1>1, <2>1 DEF Typed, TypeOK
    <3>2. session[o].phase \in Phases /\ session[o].stamp <= lastStamp
      BY DEF Typed, TypeOK, SessionRow, Ends, StampsFresh
    <3> QED
      BY <1>2, <3>1, <3>2 DEF SessionSays, SessionExists
  <2>2. CASE o = s
    <3>1. session'[s].phase = "row" /\ session'[s].stamp = call[c].stamp
      BY <1>1 DEF Typed, TypeOK
    <3>2. call[c].stamp <= lastStamp /\ call[c].pc = "open"
      BY DEF OpenInsert, Ends, StampsFresh
    <3> QED
      BY <1>1, <1>2, <2>2, <3>1, <3>2 DEF SessionSays
  <2> QED
    BY <2>1, <2>2
<1> QED
  BY <1>2, <1>4, <1>5 DEF Says, UserSays

LEMMA RotationSays ==
  ASSUME Typed, Ends, NEW c \in Calls, CheckStamp(c) \/ RotateCommit(c) \/ ReuseCommit(c)
  PROVE  Says
<1>0. lastStamp \in Nat /\ now \in Nat /\ UNCHANGED <<now, userStamp, lastStamp>>
  BY Numbers DEF CheckStamp, RotateCommit, ReuseCommit
<1>1. CASE CheckStamp(c)
  <2>1. \A s \in Sessions : SessionSays(s)
    BY <1>0, <1>1, SameSessionsSay DEF CheckStamp
  <2>2. CASE Finish(c)
    BY <1>0, <2>1, <2>2, EndingSays
  <2>3. CASE call[c].stamp = userStamp /\ Continue(c, "commit")
    <3>1. \A d \in Calls : CallSays(d)
      BY <1>0, <1>1, <2>3, ContinueSays DEF CheckStamp, Touching
    <3> QED
      BY <1>0, <2>1, <3>1 DEF Says, UserSays
  <2> QED
    BY <1>1, <2>2, <2>3 DEF CheckStamp
<1>2. CASE RotateCommit(c)
  <2>1. \A s \in Sessions : SessionSays(s)
    BY <1>0, <1>2, RotateWriteSays, SameSessionsSay DEF RotateCommit
  <2> QED
    BY <1>0, <1>2, <2>1, EndingSays DEF RotateCommit
<1>3. CASE ReuseCommit(c)
  <2>1. \A s \in Sessions : SessionSays(s)
    <3>1. CASE session' = session
      BY <1>0, <3>1, SameSessionsSay
    <3>2. CASE RowsRemain(c)
      <4> DEFINE a == IF call[c].dirty THEN call[c].at ELSE session[call[c].ses].lastActive
      <4>1. session' = [session EXCEPT ![call[c].ses] =
              [session[call[c].ses] EXCEPT !.reason = "TokenReuseDetected", !.lastActive = a]]
        BY <1>3, <3>2 DEF ReuseCommit
      <4>2. ASSUME NEW r \in SessionRow, NEW b
            PROVE  LET w == [r EXCEPT !.reason = "TokenReuseDetected", !.lastActive = b]
                   IN  /\ w.phase = r.phase /\ w.absExpires = r.absExpires
                       /\ w.stamp = r.stamp /\ w.reason # None /\ w.lastActive = b
        BY ReasonAssumption DEF SessionRow, Reasons
      <4>3. a = session[call[c].ses].lastActive \/ call[c].dirty
        OBVIOUS
      <4> HIDE DEF a
      <4>4. \A s \in Sessions :
              /\ session'[s].phase = session[s].phase
              /\ session'[s].absExpires = session[s].absExpires
              /\ session'[s].stamp = session[s].stamp
              /\ session[s].reason # None => session'[s].reason # None
              /\ session'[s].lastActive = session[s].lastActive
                 \/ (s = call[c].ses /\ call[c].dirty)
        BY <4>1, <4>2, <4>3 DEF Typed, TypeOK
      <4> QED
        BY <1>0, <1>3, <4>4, ActivitySays DEF ReuseCommit, Touching
    <3> QED
      BY <1>3, <3>1, <3>2 DEF ReuseCommit
  <2> QED
    BY <1>0, <1>3, <2>1, EndingSays DEF ReuseCommit
<1> QED
  BY <1>1, <1>2, <1>3

LEMMA RevocationSays ==
  ASSUME Typed, Ends, NEW c \in Calls,
         IssueToken(c) \/ RevokeOne(c) \/ ExpireOne(c) \/ RevokeAll(c) \/ ExpireListed(c)
  PROVE  Says
<1>0. lastStamp \in Nat /\ now \in Nat /\ UNCHANGED <<now, userStamp, lastStamp>>
  BY Numbers DEF IssueToken, RevokeOne, ExpireOne, RevokeAll, ExpireListed
<1>1. CASE IssueToken(c) \/ ExpireOne(c) \/ ExpireListed(c)
  <2>1. \A s \in Sessions : SessionSays(s)
    BY <1>0, <1>1, SameSessionsSay DEF IssueToken, ExpireOne, ExpireListed
  <2> QED
    BY <1>0, <1>1, <2>1, EndingSays DEF IssueToken, ExpireOne, ExpireListed
<1>2. CASE RevokeOne(c)
  <2>1. \A s \in Sessions : SessionSays(s)
    BY <1>0, <1>2, RevokedSay DEF RevokeOne, Reasons
  <2>2. \A d \in Calls : CallSays(d)
    BY <1>0, <1>2, ContinueSays DEF RevokeOne
  <2> QED
    BY <1>0, <2>1, <2>2 DEF Says, UserSays
<1>3. CASE RevokeAll(c)
  <2>1. call[c].why \in Reasons
    BY <1>3 DEF RevokeAll, Typed, CallsRefer
  <2>2. \A s \in Sessions : SessionSays(s)
    BY <1>0, <1>3, <2>1, RevokedSay DEF RevokeAll
  <2>3. \A d \in Calls : CallSays(d)
    BY <1>0, <1>3, FinishSays, ContinueSays DEF RevokeAll
  <2> QED
    BY <1>0, <2>2, <2>3 DEF Says, UserSays
<1> QED
  BY <1>1, <1>2, <1>3

LEMMA StampSays ==
  ASSUME Typed, Ends, NEW c \in Calls, Restamp(c) \/ SaveStamp(c)
  PROVE  Says
<1>0. lastStamp \in Nat /\ now \in Nat /\ UNCHANGED <<now, lastStamp>>
  BY Numbers DEF Restamp, SaveStamp
<1>1. CASE Restamp(c)
  <2>1. \A d \in Calls : CallSays(d)
    BY <1>0, <1>1, ContinueSays DEF Restamp, Pending
  <2>2. \A s \in Sessions :
          /\ session'[s].phase = session[s].phase
          /\ session'[s].absExpires = session[s].absExpires
          /\ session'[s].reason = session[s].reason
          /\ session'[s].lastActive = session[s].lastActive
          /\ session'[s].stamp = session[s].stamp
             \/ (s = call[c].ses /\ session'[s].stamp = call[c].stamp)
    BY <1>1 DEF Restamp, Typed, TypeOK, SessionRow
  <2>3. \A s \in Sessions : SessionSays(s)
    BY <1>0, <1>1, <2>2 DEF Restamp, SessionSays, SessionExists, Ends, StampsFresh
  <2> QED
    BY <1>0, <1>1, <2>1, <2>3 DEF Says, UserSays, Restamp
<1>2. CASE SaveStamp(c)
  <2>1. \A d \in Calls : CallSays(d)
    BY <1>0, <1>2, ContinueSays DEF SaveStamp
  <2>2. \A s \in Sessions : SessionSays(s)
    BY <1>0, <1>2, SameSessionsSay DEF SaveStamp
  <2>3. Pending(c) /\ ~ Pending(c)'
    BY <1>2 DEF SaveStamp, Pending, Continue, Typed, TypeOK, CallState
  <2> QED
    BY <1>0, <1>2, <2>1, <2>2, <2>3 DEF Says, UserSays, SaveStamp
<1> QED
  BY <1>1, <1>2

LEMMA FaultSays ==
  ASSUME Typed, Ends, NEW c \in Calls, Fault(c)
  PROVE  Says
<1>0. lastStamp \in Nat /\ now \in Nat /\ UNCHANGED <<now, userStamp, lastStamp>>
  BY Numbers DEF Fault, SaveFails, CommitFails, CommitAckLost, Abort
<1>1. CASE SaveFails(c) \/ CommitFails(c) \/ CommitAckLost(c)
  <2>1. \A d \in Calls : CallSays(d)
    BY <1>0, <1>1, RetrySays DEF SaveFails, CommitFails, CommitAckLost, CanRetry
  <2>2. CASE session' = session
    <3>1. \A s \in Sessions : SessionSays(s)
      BY <1>0, <2>2, SameSessionsSay
    <3> QED
      BY <1>0, <2>1, <3>1 DEF Says, UserSays
  <2>3. CASE CommitAckLost(c)
    <3>1. \A s \in Sessions : SessionSays(s)
      BY <1>0, <2>3, RotateWriteSays DEF CommitAckLost, CanRetry
    <3> QED
      BY <1>0, <2>1, <3>1 DEF Says, UserSays
  <2> QED
    BY <1>1, <2>2, <2>3 DEF SaveFails, CommitFails
<1>2. CASE Abort(c)
  <2>1. \A s \in Sessions : SessionSays(s)
    BY <1>0, <1>2, SameSessionsSay DEF Abort
  <2> QED
    BY <1>0, <1>2, <2>1, EndingSays DEF Abort
<1> QED
  BY <1>1, <1>2 DEF Fault

\* The worker deletes rows; the requests and the stamps stay.
LEMMA CleanupSays ==
  ASSUME Typed, Ends, Cleanup
  PROVE  Says
<1>0. lastStamp \in Nat /\ now \in Nat /\ UNCHANGED <<now, userStamp, lastStamp, call>>
  BY Numbers DEF Cleanup, CleanupTokens, CleanupSessions, CleanupFails
<1>1. \A d \in Calls : CallSays(d)
  BY <1>0 DEF CallSays, Pending, Touching, Ends, StampsFresh, LateStops
<1>2. \A s \in Sessions : SessionSays(s)
  <2>1. CASE session' = session
    BY <1>0, <2>1, SameSessionsSay
  <2>2. ASSUME NEW B,
               session' = [s \in Sessions |-> IF s \in B THEN NoSession("purged") ELSE session[s]]
        PROVE  \A s \in Sessions : SessionSays(s)
    <3>1. NoSession("purged").phase = "purged" /\ NoSession("purged").stamp = 0
      BY DEF NoSession
    <3>2. \A s \in Sessions : session[s].phase \in Phases /\ session[s].stamp <= lastStamp
      BY DEF Typed, TypeOK, SessionRow, Ends, StampsFresh
    <3>3. \A s \in Sessions : session'[s] = session[s] \/ session'[s] = NoSession("purged")
      BY <2>2
    <3> QED
      BY <1>0, <3>1, <3>2, <3>3 DEF SessionSays, SessionExists
  <2> QED
    BY <2>1, <2>2 DEF Cleanup, CleanupTokens, CleanupSessions, CleanupFails
<1> QED
  BY <1>0, <1>1, <1>2 DEF Says, UserSays

LEMMA TickSays ==
  ASSUME Typed, Ends, Tick
  PROVE  Says
<1>0. /\ lastStamp \in Nat /\ now \in Nat /\ now' = now + 1
      /\ UNCHANGED <<userStamp, lastStamp, session, call>>
  BY Numbers DEF Tick
<1>1. \A d \in Calls : CallSays(d)
  BY <1>0 DEF CallSays, Pending, Touching, Ends, StampsFresh, LateStops
<1>2. \A s \in Sessions : SessionSays(s)
  BY <1>0, SameSessionsSay
<1> QED
  BY <1>0, <1>1, <1>2 DEF Says, UserSays

LEMMA StepSays ==
  ASSUME Typed, Safe, Ends, Step
  PROVE  Says
<1>1. ASSUME NEW c \in Calls, Begin(c) PROVE Says
  BY <1>1, BeginSays
<1>2. ASSUME NEW c \in Calls, Proceed(c) PROVE Says
  BY <1>2, OpenSays, RotationSays, RevocationSays, StampSays DEF Proceed
<1>3. ASSUME NEW c \in Calls, Fault(c) PROVE Says
  BY <1>3, FaultSays
<1> QED
  BY <1>1, <1>2, <1>3, CleanupSays, TickSays DEF Step

LEMMA NextEnds ==
  ASSUME Typed, Typed', Safe, Ends, [Next]_vars
  PROVE  Ends'
<1>1. CASE UNCHANGED vars
  BY <1>1 DEF vars, Ends, StampsFresh, EndedForGood, LateStops, Pending, Dead, Touching, Idling,
     SessionExists
<1>2. CASE Next
  BY <1>2, StepSays, EndsStep DEF Next
<1> QED
  BY <1>1, <1>2

LEMMA InitEnds == Init => Ends
<1> SUFFICES ASSUME Init PROVE Ends
  OBVIOUS
<1>1. \A c \in Calls : call[c].pc = "idle" /\ call[c].stamp = 0 /\ call[c].late = FALSE
  BY DEF Init, Idle
<1>2. \A s \in Sessions : session[s].stamp = 0
  BY DEF Init, NoSession
<1>3. userStamp = 0 /\ lastStamp = 0 /\ ended = {}
  BY DEF Init
<1> QED
  BY <1>1, <1>2, <1>3 DEF Ends, StampsFresh, EndedForGood, LateStops, Pending

\* Stamps are drawn once, a session that ended stays unusable for rotations, and a
\* request that began too late goes no further than the comparison of the stamps.
THEOREM EndsAlways == Spec => []Ends
<1>1. Typed /\ Typed' /\ Safe /\ Ends /\ [Next]_vars => Ends'
  BY NextEnds
<1> QED
  BY <1>1, InitEnds, TypedAlways, SafeAlways, PTL DEF Spec

\* No request that began after its session ended gets a token: whatever password
\* change, reset, revocation or expiry it races, it stops before it inserts a row.
THEOREM NoTokenAfterEnd == Spec => NoMintAfterEnd
<1>1. ASSUME Typed, Ends, [Next]_vars,
             NEW c \in Calls, NEW t \in Tokens,
             token[t].phase = "unborn", token'[t].phase = "row", call'[c] # call[c]
      PROVE  ~ call[c].late
  <2>1. token' # token
    BY <1>1
  <2>2. Next
    BY <1>1, <2>1 DEF vars
  <2>3. ~ Cleanup
    <3>1. ASSUME NEW T, token' = Purged(T) PROVE FALSE
      BY <1>1, <3>1, PurgedSays
    <3> QED
      BY <2>1, <3>1 DEF Cleanup, CleanupTokens, CleanupSessions, CleanupFails
  <2>4. ~ Tick
    BY <2>1 DEF Tick
  <2>5. PICK d \in Calls : Begin(d) \/ Proceed(d) \/ Fault(d)
    BY <2>2, <2>3, <2>4 DEF Next, Step
  <2>6. ~ Begin(d)
    BY <2>1 DEF Begin, OpenRead, LookupReuse, LookupProceed, Logout, RevokeSession, RevokeOthers,
       ChangePassword, RevokeEvery, ResetPassword
  <2>7. ASSUME NEW S, token' = Expired(S) PROVE FALSE
    <3>1. Expired(S)[t] = token[t]
      BY <1>1 DEF Expired, TokenExists
    <3> QED
      BY <1>1, <2>7, <3>1
  <2>8. IssueToken(d) \/ RotateCommit(d) \/ ReuseCommit(d) \/ CommitAckLost(d)
    <3>1. ~ ExpireOne(d) /\ ~ ExpireListed(d)
      BY <2>7 DEF ExpireOne, ExpireListed
    <3>2. ~ OpenInsert(d)
      BY <2>1, Zenon DEF OpenInsert
    <3>3. /\ ~ CheckStamp(d) /\ ~ RevokeOne(d) /\ ~ RevokeAll(d)
          /\ ~ Restamp(d) /\ ~ SaveStamp(d) /\ ~ SaveFails(d) /\ ~ CommitFails(d) /\ ~ Abort(d)
      BY <2>1 DEF CheckStamp, RevokeOne, RevokeAll, Restamp, SaveStamp,
         SaveFails, CommitFails, Abort
    <3> QED
      BY <2>5, <2>6, <3>1, <3>2, <3>3 DEF Proceed, Fault
  <2>9. call[d].pc # "stamp"
    BY <2>8 DEF IssueToken, RotateCommit, ReuseCommit, CommitAckLost, CanRetry
  <2>10. c = d
    BY <1>1, <2>8 DEF IssueToken, RotateCommit, ReuseCommit, CommitAckLost, Finish, Retry,
       Typed, TypeOK
  <2> QED
    BY <1>1, <2>9, <2>10 DEF Ends, LateStops
<1>2. Typed /\ Ends /\ [Next]_vars
        => [\A c \in Calls, t \in Tokens :
              /\ token[t].phase = "unborn" /\ token'[t].phase = "row"
              /\ call'[c] # call[c]
              => ~ call[c].late]_vars
  BY <1>1
<1> QED
  BY <1>2, TypedAlways, EndsAlways, PTL DEF Spec, NoMintAfterEnd

----------------------------------------------------------------------------
(* The promise of SessionLifecycle, step by step.                          *)

LEMMA StandingIs ==
  \A r \in SessionRow :
    /\ r.phase = "unborn" => Standing(r) = "absent"
    /\ r.phase = "purged" => Standing(r) = "gone"
    /\ r.phase = "row" /\ r.reason = None => Standing(r) = "open"
    /\ r.phase = "row" /\ r.reason # None => Standing(r) = "closed"
  BY DEF Standing

LEMMA StatusIs ==
  \A r \in TokenRow :
    /\ r.phase = "unborn" => Status(r) = "absent"
    /\ r.phase = "purged" => Status(r) = "gone"
    /\ r.phase = "row" /\ r.used => Status(r) = "spent"
    /\ r.phase = "row" /\ ~ r.used => Status(r) = "fresh"
  BY DEF Status

LEMMA SameStanding ==
  \A q, r \in SessionRow : q.phase = r.phase /\ q.reason = r.reason => Standing(q) = Standing(r)
  BY DEF Standing

LEMMA SameStatus ==
  \A q, r \in TokenRow : q.phase = r.phase /\ q.used = r.used => Status(q) = Status(r)
  BY DEF Status

\* The rows before and after the step are rows.
LEMMA RowTypes ==
  ASSUME Typed, Typed'
  PROVE  /\ \A s \in Sessions : /\ session[s] \in SessionRow /\ session'[s] \in SessionRow
                                /\ session[s].phase \in Phases /\ session'[s].phase \in Phases
         /\ \A t \in Tokens : /\ token[t] \in TokenRow /\ token'[t] \in TokenRow
                              /\ token[t].phase \in Phases /\ token'[t].phase \in Phases
                              /\ token[t].used \in BOOLEAN /\ token'[t].used \in BOOLEAN
  BY DEF Typed, TypeOK, SessionRow, TokenRow

\* The tables look the same from outside when the columns it sees do.
LEMMA StandingSame ==
  ASSUME Typed, Typed',
         \A s \in Sessions : /\ session'[s].phase = session[s].phase
                             /\ session'[s].reason = session[s].reason
  PROVE  standing' = standing
<1>1. \A s \in Sessions : Standing(session'[s]) = Standing(session[s])
  BY RowTypes, SameStanding
<1> QED
  BY <1>1 DEF standing

LEMMA TokensSame ==
  ASSUME Typed, Typed',
         \A t \in Tokens : /\ token'[t].phase = token[t].phase
                           /\ token'[t].used = token[t].used
                           /\ token'[t].session = token[t].session
  PROVE  status' = status /\ owner' = owner
<1>1. \A t \in Tokens : Status(token'[t]) = Status(token[t])
  BY RowTypes, SameStatus
<1> QED
  BY <1>1 DEF status, owner

LEMMA TokensUnchanged ==
  ASSUME token' = token
  PROVE  status' = status /\ owner' = owner
  BY DEF status, owner

\* Revocations are CloseSessions.
LEMMA ClosedStanding ==
  ASSUME Typed, Typed', NEW S,
         \A s \in Sessions :
           /\ session'[s].phase = session[s].phase
           /\ s \in S /\ Live(s) => session'[s].reason # None
           /\ ~ (s \in S /\ Live(s)) =>
                (session'[s].reason = None <=> session[s].reason = None)
  PROVE  standing' = [s \in Sessions |-> IF s \in S /\ standing[s] = "open"
                                         THEN "closed" ELSE standing[s]]
<1>1. ASSUME NEW s \in Sessions
      PROVE  Standing(session'[s]) = IF s \in S /\ Standing(session[s]) = "open"
                                     THEN "closed" ELSE Standing(session[s])
  <2>1. /\ session[s] \in SessionRow /\ session'[s] \in SessionRow
        /\ session[s].phase \in {"unborn", "row", "purged"}
    BY RowTypes DEF Phases
  <2> QED
    BY <2>1, StandingIs DEF Live, SessionExists
<1> QED
  BY <1>1 DEF standing

LEMMA RevokedCloses ==
  ASSUME Typed, Typed', NEW S \in SUBSET Sessions, NEW why \in Reasons,
         session' = Revoked(S, why), token' = token
  PROVE  Lifecycle!CloseSessions(S)
<1>1. \A s \in Sessions :
        /\ session'[s].phase = session[s].phase
        /\ s \in S /\ Live(s) => session'[s].reason # None
        /\ ~ (s \in S /\ Live(s)) => session'[s] = session[s]
  BY ReasonAssumption DEF Revoked, Typed, TypeOK, SessionRow
<1>2. standing' = [s \in Sessions |-> IF s \in S /\ standing[s] = "open"
                                      THEN "closed" ELSE standing[s]]
  BY <1>1, ClosedStanding
<1> QED
  BY <1>2, TokensUnchanged DEF Lifecycle!CloseSessions

\* A rotation, which may close the session, is Rotate.
LEMMA RotatedRotates ==
  ASSUME Typed, Typed', NEW t \in Tokens, NEW n \in Tokens, TokenExists(t),
         token[n].phase = "unborn", token' = Rotated(t, n)
  PROVE  /\ status[t] \in {"fresh", "spent"} /\ status[n] = "absent"
         /\ status' = [status EXCEPT ![t] = "spent", ![n] = "fresh"]
         /\ owner' = [owner EXCEPT ![n] = owner[t]]
<1>1. n # t /\ token[t].session \in Sessions
  BY DEF TokenExists, Typed, TokensRefer
<1>2. /\ token'[n] = NewToken(token[t].session)
      /\ token'[t].phase = "row" /\ token'[t].used = TRUE /\ token'[t].session = token[t].session
      /\ \A u \in Tokens : u # n /\ u # t => token'[u] = token[u]
  BY <1>1 DEF Rotated, Typed, TypeOK, TokenRow, TokenExists
<1>3. token'[n].phase = "row" /\ token'[n].used = FALSE /\ token'[n].session = token[t].session
  BY <1>2 DEF NewToken
<1>4. Status(token'[n]) = "fresh" /\ Status(token'[t]) = "spent" /\ Status(token[n]) = "absent"
  BY <1>2, <1>3, RowTypes, StatusIs
<1>5. Status(token[t]) \in {"fresh", "spent"}
  BY RowTypes, StatusIs DEF TokenExists
<1>6. status' = [status EXCEPT ![t] = "spent", ![n] = "fresh"]
  BY <1>1, <1>2, <1>4 DEF status
<1>7. owner' = [owner EXCEPT ![n] = owner[t]]
  BY <1>1, <1>2, <1>3 DEF owner
<1> QED
  BY <1>4, <1>5, <1>6, <1>7 DEF status

LEMMA RotateWriteRotates ==
  ASSUME Typed, Typed', NEW c \in Calls, call[c].pc = "commit", RowsRemain(c), RotateWrite(c)
  PROVE  Lifecycle!LNext
<1>1. PICK n \in Tokens : token[n].phase = "unborn" /\ token' = Rotated(call[c].tok, n)
  BY DEF RotateWrite
<1>2. call[c].tok \in Tokens /\ TokenExists(call[c].tok)
  BY DEF Typed, CallsRefer, RowsRemain
<1>3. \A s \in Sessions : /\ session'[s].phase = session[s].phase
                          /\ session'[s].reason = session[s].reason
  BY DEF RotateWrite, Typed, TypeOK, SessionRow
<1>4. standing' = [s \in Sessions |-> IF s \in {} /\ standing[s] = "open"
                                      THEN "closed" ELSE standing[s]]
  BY <1>3, StandingSame DEF standing
<1>5. Lifecycle!Rotate(call[c].tok, n, {})
  BY <1>1, <1>2, <1>4, RotatedRotates DEF Lifecycle!Rotate
<1> QED
  BY <1>2, <1>5 DEF Lifecycle!LNext

LEMMA ReuseCloses ==
  ASSUME Typed, Typed', NEW c \in Calls, ReuseCommit(c), RowsRemain(c)
  PROVE  Lifecycle!LNext
<1>1. /\ call[c].tok \in Tokens /\ call[c].ses \in Sessions
      /\ token[call[c].tok].session = call[c].ses
      /\ TokenExists(call[c].tok) /\ SessionExists(call[c].ses)
  BY DEF Typed, CallsRefer, RowsRemain, ReuseCommit
<1>2. \A s \in Sessions :
        /\ session'[s].phase = session[s].phase
        /\ s = call[c].ses => session'[s].reason # None
        /\ s # call[c].ses => session'[s].reason = session[s].reason
  <2> DEFINE a == IF call[c].dirty THEN call[c].at ELSE session[call[c].ses].lastActive
  <2>1. session' = [session EXCEPT ![call[c].ses] =
          [session[call[c].ses] EXCEPT !.reason = "TokenReuseDetected", !.lastActive = a]]
    BY DEF ReuseCommit
  <2>2. ASSUME NEW r \in SessionRow, NEW b
        PROVE  LET w == [r EXCEPT !.reason = "TokenReuseDetected", !.lastActive = b]
               IN  w.phase = r.phase /\ w.reason # None
    BY ReasonAssumption DEF SessionRow, Reasons
  <2> HIDE DEF a
  <2> QED
    BY <1>1, <2>1, <2>2 DEF Typed, TypeOK
<1>3. standing' = [s \in Sessions |-> IF s \in {call[c].ses} /\ standing[s] = "open"
                                      THEN "closed" ELSE standing[s]]
  <2>1. \A s \in Sessions :
           /\ session'[s].phase = session[s].phase
           /\ s \in {call[c].ses} /\ Live(s) => session'[s].reason # None
           /\ ~ (s \in {call[c].ses} /\ Live(s)) =>
                (session'[s].reason = None <=> session[s].reason = None)
    BY <1>1, <1>2 DEF Live
  <2> QED
    BY <2>1, ClosedStanding
<1>4. CASE token' = token
  <2>1. Lifecycle!CloseSessions({call[c].ses})
    BY <1>3, <1>4, TokensUnchanged DEF Lifecycle!CloseSessions
  <2> QED
    BY <1>1, <2>1 DEF Lifecycle!LNext
<1>5. ASSUME NEW n \in Tokens, token[n].phase = "unborn", token' = Rotated(call[c].tok, n)
      PROVE  Lifecycle!LNext
  <2>1. {call[c].ses} \subseteq {owner[call[c].tok]}
    BY <1>1 DEF owner
  <2>2. Lifecycle!Rotate(call[c].tok, n, {call[c].ses})
    BY <1>1, <1>3, <1>5, <2>1, RotatedRotates DEF Lifecycle!Rotate
  <2> QED
    BY <1>1, <2>2 DEF Lifecycle!LNext
<1> QED
  BY <1>4, <1>5 DEF ReuseCommit

LEMMA OpenOpens ==
  ASSUME Typed, Typed', NEW c \in Calls, OpenInsert(c)
  PROVE  Lifecycle!LNext
<1>1. PICK s \in Sessions :
        /\ session[s].phase = "unborn"
        /\ session' = [session EXCEPT ![s] =
             [phase |-> "row", stamp |-> call[c].stamp, authAt |-> call[c].at,
              lastActive |-> call[c].at, absExpires |-> call[c].at + AbsoluteLifetime,
              reason |-> None]]
  BY DEF OpenInsert
<1>2. /\ session'[s].phase = "row" /\ session'[s].reason = None
      /\ \A o \in Sessions : o # s => session'[o] = session[o]
  BY <1>1 DEF Typed, TypeOK
<1>3. Standing(session[s]) = "absent" /\ Standing(session'[s]) = "open"
  BY <1>1, <1>2, RowTypes, StandingIs
<1>4. standing[s] = "absent" /\ standing' = [standing EXCEPT ![s] = "open"]
  BY <1>2, <1>3 DEF standing
<1>5. token' = token
  BY DEF OpenInsert
<1>6. Lifecycle!OpenSession(s)
  BY <1>4, <1>5, TokensUnchanged DEF Lifecycle!OpenSession
<1> QED
  BY <1>6 DEF Lifecycle!LNext

LEMMA IssueIssues ==
  ASSUME Typed, Typed', FirstTokens, NEW c \in Calls, IssueToken(c), token' # token
  PROVE  Lifecycle!LNext
<1>1. PICK n \in Tokens : /\ token[n].phase = "unborn"
                          /\ token' = [token EXCEPT ![n] = NewToken(call[c].ses)]
  BY DEF IssueToken
<1>2. /\ SessionExists(call[c].ses) /\ call[c].ses \in Sessions
      /\ \A t \in Tokens : token[t].session # call[c].ses
      /\ session' = session
  BY DEF IssueToken, Typed, CallsRefer, FirstTokens
<1>3. standing[call[c].ses] \in {"open", "closed"}
  BY <1>2, RowTypes, StandingIs DEF SessionExists, standing
<1>4. /\ token'[n].phase = "row" /\ token'[n].used = FALSE /\ token'[n].session = call[c].ses
      /\ \A t \in Tokens : t # n => token'[t] = token[t]
  BY <1>1 DEF NewToken, Typed, TypeOK
<1>5. Status(token[n]) = "absent" /\ Status(token'[n]) = "fresh"
  BY <1>1, <1>4, RowTypes, StatusIs
<1>6. /\ status[n] = "absent" /\ status' = [status EXCEPT ![n] = "fresh"]
      /\ owner' = [owner EXCEPT ![n] = call[c].ses]
  BY <1>4, <1>5 DEF status, owner
<1>7. (\A t \in Tokens : owner[t] # call[c].ses) /\ standing' = standing
  BY <1>2 DEF owner, standing
<1>8. Lifecycle!IssueFirst(call[c].ses, n)
  BY <1>3, <1>6, <1>7 DEF Lifecycle!IssueFirst
<1> QED
  BY <1>2, <1>8 DEF Lifecycle!LNext

\* The worker's deletions: of tokens, and of sessions with what they own.
LEMMA TokensDeleted ==
  ASSUME Typed, Typed', CleanupTokens
  PROVE  Lifecycle!LNext
<1>1. PICK B \in SUBSET Tokens :
        /\ B \subseteq {t \in Tokens : TokenExists(t) /\ token[t].expires <= now}
        /\ token' = Purged(B)
  BY DEF CleanupTokens, IsBatch
<1>2. \A t \in Tokens :
        /\ t \notin B => token'[t] = token[t]
        /\ t \in B => token'[t].phase = "purged" /\ token[t].phase = "row"
        /\ token'[t].session = token[t].session
  BY <1>1, PurgedSays DEF TokenExists
<1>3. \A t \in Tokens : Status(token'[t]) = IF t \in B /\ Status(token[t]) # "absent"
                                            THEN "gone" ELSE Status(token[t])
  BY <1>2, RowTypes, StatusIs
<1>4. status' = [t \in Tokens |-> IF t \in B /\ status[t] # "absent" THEN "gone" ELSE status[t]]
  BY <1>3 DEF status
<1>5. owner' = owner /\ standing' = standing
  BY <1>2 DEF owner, standing, CleanupTokens
<1>6. Lifecycle!DeleteTokens(B)
  BY <1>4, <1>5 DEF Lifecycle!DeleteTokens
<1> QED
  BY <1>6 DEF Lifecycle!LNext

LEMMA SessionsDeleted ==
  ASSUME Typed, Typed', FirstTokens, CleanupSessions
  PROVE  Lifecycle!LNext
<1>1. PICK B \in SUBSET Sessions :
        /\ B \subseteq {s \in Sessions : SessionExists(s) /\ session[s].absExpires <= cleaner.at}
        /\ session' = [s \in Sessions |-> IF s \in B THEN NoSession("purged") ELSE session[s]]
        /\ token' = Purged({t \in Tokens : TokenExists(t) /\ token[t].session \in B})
  BY DEF CleanupSessions, IsBatch
<1> DEFINE T == {t \in Tokens : TokenExists(t) /\ token[t].session \in B}
<1>2. \A t \in Tokens : t \in T <=> TokenExists(t) /\ token[t].session \in B
  OBVIOUS
<1> HIDE DEF T
<1>3. \A t \in Tokens :
        /\ t \notin T => token'[t] = token[t]
        /\ t \in T => token'[t].phase = "purged"
        /\ token'[t].session = token[t].session
  BY <1>1, PurgedSays DEF T
<1>4. \A s \in Sessions :
        /\ s \notin B => session'[s] = session[s]
        /\ s \in B => session'[s].phase = "purged" /\ session[s].phase = "row"
  BY <1>1 DEF NoSession, SessionExists
<1>5. \A s \in Sessions : /\ s \in B => Standing(session[s]) \in {"open", "closed"}
                          /\ Standing(session'[s]) = IF s \in B THEN "gone"
                                                     ELSE Standing(session[s])
  BY <1>4, RowTypes, StandingIs
<1>6. /\ \A s \in B : standing[s] \in {"open", "closed"}
      /\ standing' = [s \in Sessions |-> IF s \in B THEN "gone" ELSE standing[s]]
  BY <1>5 DEF standing
<1>7. ASSUME NEW t \in Tokens
      PROVE  Status(token'[t]) = IF token[t].session \in B THEN "gone" ELSE Status(token[t])
  <2>1. CASE t \in T
    BY <1>2, <1>3, <2>1, RowTypes, StatusIs
  <2>2. CASE t \notin T /\ token[t].session \in B
    <3>1. token[t].phase # "unborn"
      BY <2>2, RotationAssumption DEF FirstTokens
    <3>2. token'[t] = token[t] /\ token[t].phase = "purged"
      BY <1>2, <1>3, <2>2, <3>1, RowTypes DEF TokenExists, Phases
    <3> QED
      BY <2>2, <3>2, RowTypes, StatusIs
  <2>3. CASE t \notin T /\ token[t].session \notin B
    BY <1>3, <2>3
  <2> QED
    BY <1>2, <2>1, <2>2, <2>3
<1>8. /\ status' = [t \in Tokens |-> IF owner[t] \in B THEN "gone" ELSE status[t]]
      /\ owner' = owner
  BY <1>3, <1>7 DEF status, owner
<1>9. Lifecycle!DeleteSessions(B)
  BY <1>6, <1>8 DEF Lifecycle!DeleteSessions
<1> QED
  BY <1>9 DEF Lifecycle!LNext

\* A step that changes no row, or no column SessionLifecycle sees.
LEMMA Stutters ==
  ASSUME UNCHANGED <<session, token>>
  PROVE  UNCHANGED Lifecycle!lifecycle
  BY DEF Lifecycle!lifecycle, standing, status, owner

LEMMA ExpiryStutters ==
  ASSUME Typed, Typed', NEW S, token' = Expired(S), session' = session
  PROVE  UNCHANGED Lifecycle!lifecycle
<1>1. \A t \in Tokens : /\ token'[t].phase = token[t].phase
                        /\ token'[t].used = token[t].used
                        /\ token'[t].session = token[t].session
  BY DEF Expired, Typed, TypeOK, TokenRow
<1> QED
  BY <1>1, TokensSame DEF Lifecycle!lifecycle, standing

LEMMA RevokedPromise ==
  ASSUME Typed, Typed', NEW S \in SUBSET Sessions, NEW why \in Reasons,
         session' = Revoked(S, why), token' = token
  PROVE  Lifecycle!LNext
<1>1. Lifecycle!CloseSessions(S)
  BY RevokedCloses
<1> QED
  BY <1>1 DEF Lifecycle!LNext

LEMMA ProceedKeeps ==
  ASSUME Typed, Typed', FirstTokens, NEW c \in Calls, Proceed(c)
  PROVE  [Lifecycle!LNext]_Lifecycle!lifecycle
<1>1. CASE OpenInsert(c)
  BY <1>1, OpenOpens
<1>2. CASE IssueToken(c)
  <2>1. session' = session
    BY <1>2 DEF IssueToken
  <2> QED
    BY <1>2, <2>1, IssueIssues, Stutters
<1>3. CASE CheckStamp(c) \/ SaveStamp(c)
  BY <1>3, Stutters DEF CheckStamp, SaveStamp
<1>4. CASE RotateCommit(c)
  BY <1>4, RotateWriteRotates, Stutters DEF RotateCommit
<1>5. CASE ReuseCommit(c)
  <2>1. CASE ~ RowsRemain(c)
    BY <1>5, <2>1, Stutters DEF ReuseCommit
  <2> QED
    BY <1>5, <2>1, ReuseCloses
<1>6. CASE RevokeOne(c)
  <2>1. {call[c].ses} \in SUBSET Sessions /\ "UserRevokedSession" \in Reasons
    BY <1>6 DEF Reasons, RevokeOne, Typed, CallsRefer
  <2> QED
    BY <1>6, <2>1, RevokedPromise DEF RevokeOne
<1>7. CASE RevokeAll(c)
  <2>1. call[c].why \in Reasons /\ Sessions \ {call[c].ses} \in SUBSET Sessions
    BY <1>7 DEF RevokeAll, Typed, CallsRefer
  <2> QED
    BY <1>7, <2>1, RevokedPromise DEF RevokeAll
<1>8. CASE ExpireOne(c) \/ ExpireListed(c)
  BY <1>8, ExpiryStutters DEF ExpireOne, ExpireListed
<1>9. CASE Restamp(c)
  <2>1. \A s \in Sessions : /\ session'[s].phase = session[s].phase
                            /\ session'[s].reason = session[s].reason
    BY <1>9 DEF Restamp, Typed, TypeOK, SessionRow
  <2>2. token' = token
    BY <1>9 DEF Restamp
  <2> QED
    BY <2>1, <2>2, StandingSame, TokensUnchanged DEF Lifecycle!lifecycle
<1> QED
  BY <1>1, <1>2, <1>3, <1>4, <1>5, <1>6, <1>7, <1>8, <1>9 DEF Proceed

LEMMA StepKeeps ==
  ASSUME Typed, Typed', FirstTokens, [Next]_vars
  PROVE  [Lifecycle!LNext]_Lifecycle!lifecycle
<1>1. CASE UNCHANGED vars
  BY <1>1, Stutters DEF vars
<1>2. ASSUME NEW c \in Calls, Begin(c)
      PROVE  [Lifecycle!LNext]_Lifecycle!lifecycle
  <2>1. ASSUME NEW s \in Sessions, Logout(c, s)
        PROVE  [Lifecycle!LNext]_Lifecycle!lifecycle
    <3>1. {s} \in SUBSET Sessions /\ "Logout" \in Reasons
      BY DEF Reasons
    <3> QED
      BY <2>1, <3>1, RevokedPromise DEF Logout
  <2>2. UNCHANGED <<session, token>> \/ \E s \in Sessions : Logout(c, s)
    BY <1>2 DEF Begin, OpenRead, LookupReuse, LookupProceed, RevokeSession, RevokeOthers,
       ChangePassword, RevokeEvery, ResetPassword
  <2> QED
    BY <2>1, <2>2, Stutters
<1>3. ASSUME NEW c \in Calls, Proceed(c)
      PROVE  [Lifecycle!LNext]_Lifecycle!lifecycle
  BY <1>3, ProceedKeeps
<1>4. ASSUME NEW c \in Calls, Fault(c)
      PROVE  [Lifecycle!LNext]_Lifecycle!lifecycle
  <2>1. CASE SaveFails(c) \/ CommitFails(c) \/ Abort(c)
    BY <2>1, Stutters DEF SaveFails, CommitFails, Abort
  <2>2. CASE CommitAckLost(c)
    BY <2>2, RotateWriteRotates DEF CommitAckLost, CanRetry
  <2> QED
    BY <1>4, <2>1, <2>2 DEF Fault
<1>5. CASE Cleanup
  <2>1. CASE CleanupFails
    BY <2>1, Stutters DEF CleanupFails
  <2> QED
    BY <1>5, <2>1, TokensDeleted, SessionsDeleted DEF Cleanup
<1>6. CASE Tick
  BY <1>6, Stutters DEF Tick
<1> QED
  BY <1>1, <1>2, <1>3, <1>4, <1>5, <1>6 DEF Next, Step

LEMMA InitKeeps == Init => Lifecycle!LInit
  BY DEF Init, Lifecycle!LInit, standing, status, owner, NoSession, Standing, Status

----------------------------------------------------------------------------
(* The first token of a session.                                           *)

\* What a step does to the owners of the tokens and to the requests about to
\* insert a first token.
TokenSays(t) ==
  /\ token'[t].phase = "unborn" => token[t].phase = "unborn"
  /\ \/ token'[t].session = token[t].session
     \/ /\ token'[t].phase # "unborn"
        /\ \/ \E u \in Tokens : /\ token[u].phase # "unborn"
                                /\ token'[t].session = token[u].session
           \/ \E d \in Calls : /\ call[d].pc = "issue" /\ call'[d].pc # "issue"
                               /\ token'[t].session = call[d].ses

IssueSays(d) ==
  call'[d].pc = "issue" =>
    \/ call[d].pc = "issue" /\ call'[d].ses = call[d].ses
    \/ /\ call'[d].ses \in Sessions /\ session[call'[d].ses].phase = "unborn"
       /\ \A e \in Calls : e # d => call'[e] = call[e]
       /\ token' = token

LEMMA FirstTokensStep ==
  ASSUME Typed, FirstTokens, \A t \in Tokens : TokenSays(t), \A d \in Calls : IssueSays(d)
  PROVE  FirstTokens'
<1>1. ASSUME NEW t \in Tokens, token'[t].phase = "unborn"
      PROVE  token'[t].session = None
  BY <1>1 DEF TokenSays, FirstTokens
<1>2. \A s \in Sessions : session[s].phase = "unborn" =>
        /\ \A t \in Tokens : token[t].session # s
        /\ \A e \in Calls : call[e].pc = "issue" => call[e].ses # s
  BY RotationAssumption DEF FirstTokens, Typed, TokensRefer, CallsRefer
<1>3. ASSUME NEW d \in Calls, call'[d].pc = "issue"
      PROVE  /\ \A t \in Tokens : token'[t].session # call'[d].ses
             /\ \A e \in Calls : e # d /\ call'[e].pc = "issue" => call'[e].ses # call'[d].ses
  <2>1. CASE call[d].pc = "issue" /\ call'[d].ses = call[d].ses
    <3>1. \A t \in Tokens : token[t].session # call[d].ses
      BY <2>1 DEF FirstTokens
    <3>2. \A e \in Calls : e # d /\ call[e].pc = "issue" => call[e].ses # call[d].ses
      BY <2>1 DEF FirstTokens
    <3>3. \A t \in Tokens : token'[t].session # call[d].ses
      BY <1>3, <3>1, <3>2 DEF TokenSays
    <3>4. ASSUME NEW e \in Calls, e # d, call'[e].pc = "issue"
          PROVE  call'[e].ses # call[d].ses
      BY <1>2, <2>1, <3>2, <3>4 DEF IssueSays
    <3> QED
      BY <2>1, <3>3, <3>4
  <2>2. CASE /\ call'[d].ses \in Sessions /\ session[call'[d].ses].phase = "unborn"
             /\ \A e \in Calls : e # d => call'[e] = call[e]
             /\ token' = token
    BY <1>2, <2>2
  <2> QED
    BY <1>3, <2>1, <2>2 DEF IssueSays
<1> QED
  BY <1>1, <1>3 DEF FirstTokens

\* Replacing a request's record by one that is not about to issue.
LEMMA ReplacedIssue ==
  ASSUME Typed, NEW c \in Calls, NEW rec, call' = [call EXCEPT ![c] = rec], rec.pc # "issue"
  PROVE  \A d \in Calls : IssueSays(d)
<1>1. call'[c] = rec /\ \A d \in Calls : d # c => call'[d] = call[d]
  BY DEF Typed, TypeOK
<1> QED
  BY <1>1 DEF IssueSays

LEMMA RetriedIssue ==
  ASSUME Typed, NEW c \in Calls, NEW dirty, Retry(c, dirty)
  PROVE  \A d \in Calls : IssueSays(d)
<1> DEFINE more == call[c].tries + 1
           rec == [call[c] EXCEPT !.pc = "reuse", !.dirty = dirty, !.tries = more]
<1>1. call[c] \in CallState
  BY DEF Typed, TypeOK
<1>2. call' = [call EXCEPT ![c] = rec]
  BY DEF Retry
<1> HIDE DEF more
<1>3. rec.pc = "reuse"
  BY <1>1 DEF CallState
<1> HIDE DEF rec
<1> QED
  BY <1>2, <1>3, ReplacedIssue

LEMMA MovedIssue ==
  ASSUME Typed, NEW c \in Calls,
         \/ Finish(c)
         \/ \E pc \in PCs \ {"issue"} : Continue(c, pc)
         \/ \E dirty \in BOOLEAN : Retry(c, dirty)
  PROVE  \A d \in Calls : IssueSays(d)
<1>1. call[c] \in CallState
  BY DEF Typed, TypeOK
<1>2. CASE Finish(c)
  <2>1. Idle.pc # "issue"
    BY DEF Idle
  <2> QED
    BY <1>2, <2>1, ReplacedIssue DEF Finish
<1>3. ASSUME NEW pc \in PCs \ {"issue"}, Continue(c, pc)
      PROVE  \A d \in Calls : IssueSays(d)
  <2> DEFINE rec == [call[c] EXCEPT !.pc = pc]
  <2>1. rec.pc = pc /\ call' = [call EXCEPT ![c] = rec]
    BY <1>1, <1>3 DEF Continue, CallState
  <2> HIDE DEF rec
  <2> QED
    BY <2>1, ReplacedIssue
<1>4. ASSUME NEW dirty \in BOOLEAN, Retry(c, dirty)
      PROVE  \A d \in Calls : IssueSays(d)
  BY <1>4, RetriedIssue
<1> QED
  BY <1>2, <1>3, <1>4

LEMMA RotatedSays ==
  ASSUME Typed, NEW t \in Tokens, NEW n \in Tokens, token[t].phase # "unborn",
         token[n].phase = "unborn", token' = Rotated(t, n)
  PROVE  \A u \in Tokens : TokenSays(u)
<1>1. n # t
  OBVIOUS
<1>2. /\ token'[n] = NewToken(token[t].session)
      /\ token'[t].phase = token[t].phase /\ token'[t].session = token[t].session
      /\ \A u \in Tokens : u # n /\ u # t => token'[u] = token[u]
  BY <1>1 DEF Rotated, Typed, TypeOK, TokenRow
<1>3. token'[n].phase = "row" /\ token'[n].session = token[t].session
  BY <1>2 DEF NewToken
<1> QED
  BY <1>2, <1>3 DEF TokenSays

LEMMA SameTokensSay ==
  ASSUME token' = token
  PROVE  \A t \in Tokens : TokenSays(t)
  BY DEF TokenSays

LEMMA StartFirst ==
  ASSUME Typed, FirstTokens, NEW c \in Calls, NEW rec, Start(c, rec), rec.pc # "issue",
         token' = token
  PROVE  FirstTokens'
  BY ReplacedIssue, SameTokensSay, FirstTokensStep DEF Start

LEMMA BeginFirst ==
  ASSUME Typed, FirstTokens, NEW c \in Calls, Begin(c)
  PROVE  FirstTokens'
<1> USE DEF Idle
<1>1. CASE OpenRead(c)
  BY <1>1, StartFirst DEF OpenRead
<1>2. ASSUME NEW t \in Tokens, LookupReuse(c, t) PROVE FirstTokens'
  BY <1>2, StartFirst DEF LookupReuse
<1>3. ASSUME NEW t \in Tokens, LookupProceed(c, t) PROVE FirstTokens'
  BY <1>3, StartFirst DEF LookupProceed
<1>4. ASSUME NEW s \in Sessions, Logout(c, s) PROVE FirstTokens'
  BY <1>4, StartFirst DEF Logout
<1>5. ASSUME NEW s \in Sessions, RevokeSession(c, s) PROVE FirstTokens'
  BY <1>5, StartFirst DEF RevokeSession
<1>6. ASSUME NEW s \in Sessions, RevokeOthers(c, s) PROVE FirstTokens'
  BY <1>6, StartFirst DEF RevokeOthers
<1>7. ASSUME NEW s \in Sessions, ChangePassword(c, s) PROVE FirstTokens'
  BY <1>7, StartFirst DEF ChangePassword
<1>8. ASSUME NEW why, RevokeEvery(c, why) PROVE FirstTokens'
  BY <1>8, StartFirst DEF RevokeEvery
<1>9. CASE ResetPassword(c)
  BY <1>9, StartFirst DEF ResetPassword
<1> QED
  BY <1>1, <1>2, <1>3, <1>4, <1>5, <1>6, <1>7, <1>8, <1>9 DEF Begin

LEMMA OpenInsertFirst ==
  ASSUME Typed, FirstTokens, NEW c \in Calls, OpenInsert(c)
  PROVE  FirstTokens'
<1>1. token' = token
  BY DEF OpenInsert
<1>2. PICK s \in Sessions :
        /\ session[s].phase = "unborn"
        /\ Start(c, [Idle EXCEPT !.pc = "issue", !.ses = s])
  BY Zenon DEF OpenInsert
<1>3. call'[c].ses = s /\ \A d \in Calls : d # c => call'[d] = call[d]
  BY <1>2 DEF Start, Idle, Typed, TypeOK
<1>4. \A d \in Calls : IssueSays(d)
  BY <1>1, <1>2, <1>3 DEF IssueSays
<1> QED
  BY <1>1, <1>4, SameTokensSay, FirstTokensStep

LEMMA IssueTokenFirst ==
  ASSUME Typed, FirstTokens, NEW c \in Calls, IssueToken(c)
  PROVE  FirstTokens'
<1>1. \A d \in Calls : IssueSays(d)
  BY MovedIssue DEF IssueToken
<1>2. call'[c].pc = "idle" /\ call[c].pc = "issue"
  BY DEF IssueToken, Finish, Idle, Typed, TypeOK
<1>3. ASSUME NEW n \in Tokens, token' = [token EXCEPT ![n] = NewToken(call[c].ses)],
             NEW t \in Tokens
      PROVE  TokenSays(t)
  <2>1. CASE t = n
    <3>1. token'[n].phase = "row" /\ token'[n].session = call[c].ses
      BY <1>3 DEF NewToken, Typed, TypeOK
    <3> QED
      BY <1>2, <2>1, <3>1 DEF TokenSays
  <2>2. CASE t # n
    BY <1>3, <2>2 DEF TokenSays, Typed, TypeOK
  <2> QED
    BY <2>1, <2>2
<1> QED
  BY <1>1, <1>3, SameTokensSay, FirstTokensStep DEF IssueToken

LEMMA RotateWriteFirst ==
  ASSUME Typed, NEW c \in Calls, call[c].pc = "commit", RotateWrite(c)
  PROVE  \A t \in Tokens : TokenSays(t)
<1>1. call[c].tok \in Tokens /\ token[call[c].tok].phase # "unborn"
  BY DEF Typed, CallsRefer
<1> QED
  BY <1>1, RotatedSays DEF RotateWrite

LEMMA ExpiredFirst ==
  ASSUME Typed, NEW S, token' = Expired(S)
  PROVE  \A t \in Tokens : TokenSays(t)
  BY DEF Expired, Typed, TypeOK, TokenRow, TokenSays

LEMMA PurgedFirst ==
  ASSUME Typed, NEW T, token' = Purged(T)
  PROVE  \A t \in Tokens : TokenSays(t)
  BY PurgedSays DEF TokenSays

LEMMA ProceedFirst ==
  ASSUME Typed, FirstTokens, NEW c \in Calls, Proceed(c)
  PROVE  FirstTokens'
<1>1. CASE OpenInsert(c) \/ IssueToken(c)
  BY <1>1, OpenInsertFirst, IssueTokenFirst
<1>2. CASE CheckStamp(c) \/ RevokeOne(c) \/ RevokeAll(c) \/ Restamp(c) \/ SaveStamp(c)
  <2>1. token' = token
    BY <1>2 DEF CheckStamp, RevokeOne, RevokeAll, Restamp, SaveStamp
  <2>2. Finish(c) \/ \E pc \in PCs \ {"issue"} : Continue(c, pc)
    BY <1>2 DEF CheckStamp, RevokeOne, RevokeAll, Restamp, SaveStamp, PCs
  <2> QED
    BY <2>1, <2>2, MovedIssue, SameTokensSay, FirstTokensStep
<1>3. CASE RotateCommit(c)
  <2>1. \A t \in Tokens : TokenSays(t)
    BY <1>3, RotateWriteFirst, SameTokensSay DEF RotateCommit
  <2> QED
    BY <1>3, <2>1, MovedIssue, FirstTokensStep DEF RotateCommit
<1>4. CASE ReuseCommit(c)
  <2>1. call[c].tok \in Tokens /\ token[call[c].tok].phase # "unborn"
    BY <1>4 DEF ReuseCommit, Typed, CallsRefer
  <2>2. \/ token' = token
        \/ \E n \in Tokens : token[n].phase = "unborn" /\ token' = Rotated(call[c].tok, n)
    BY <1>4 DEF ReuseCommit
  <2>3. \A t \in Tokens : TokenSays(t)
    BY <2>1, <2>2, RotatedSays, SameTokensSay
  <2> QED
    BY <1>4, <2>3, MovedIssue, FirstTokensStep DEF ReuseCommit
<1>5. CASE ExpireOne(c) \/ ExpireListed(c)
  BY <1>5, ExpiredFirst, MovedIssue, FirstTokensStep DEF ExpireOne, ExpireListed
<1> QED
  BY <1>1, <1>2, <1>3, <1>4, <1>5 DEF Proceed

LEMMA FaultFirst ==
  ASSUME Typed, FirstTokens, NEW c \in Calls, Fault(c)
  PROVE  FirstTokens'
<1>1. CASE SaveFails(c) \/ CommitFails(c) \/ Abort(c)
  BY <1>1, MovedIssue, SameTokensSay, FirstTokensStep DEF SaveFails, CommitFails, Abort
<1>2. CASE CommitAckLost(c)
  <2>1. \A t \in Tokens : TokenSays(t)
    BY <1>2, RotateWriteFirst DEF CommitAckLost, CanRetry
  <2> QED
    BY <1>2, <2>1, MovedIssue, FirstTokensStep DEF CommitAckLost
<1> QED
  BY <1>1, <1>2 DEF Fault

LEMMA NextFirst ==
  ASSUME Typed, FirstTokens, [Next]_vars
  PROVE  FirstTokens'
<1>1. CASE UNCHANGED vars
  BY <1>1 DEF vars, FirstTokens
<1>2. CASE Cleanup
  <2>1. \A t \in Tokens : TokenSays(t)
    BY <1>2, PurgedFirst, SameTokensSay DEF Cleanup, CleanupTokens, CleanupSessions, CleanupFails
  <2>2. \A d \in Calls : IssueSays(d)
    BY <1>2 DEF Cleanup, CleanupTokens, CleanupSessions, CleanupFails, IssueSays
  <2> QED
    BY <2>1, <2>2, FirstTokensStep
<1>3. CASE Tick
  BY <1>3 DEF Tick, FirstTokens
<1> QED
  BY <1>1, <1>2, <1>3, BeginFirst, ProceedFirst, FaultFirst DEF Next, Step

LEMMA InitFirst == Init => FirstTokens
  BY DEF Init, FirstTokens, Idle

\* A session about to receive its first token owns none, and no other request is
\* about to insert one for it.
THEOREM FirstTokensAlways == Spec => []FirstTokens
<1>1. Typed /\ FirstTokens /\ [Next]_vars => FirstTokens'
  BY NextFirst
<1> QED
  BY <1>1, InitFirst, TypedAlways, PTL DEF Spec

\* The requests, the faults and the worker together implement SessionLifecycle:
\* a session closes for good, tokens grow from one first token by rotations
\* inside the session, and what was spent or deleted never becomes usable again.
THEOREM ImplementsLifecycle == Spec => KeepsLifecycle
<1>1. Typed /\ Typed' /\ FirstTokens /\ [Next]_vars => [Lifecycle!LNext]_Lifecycle!lifecycle
  BY StepKeeps
<1> QED
  BY <1>1, InitKeeps, TypedAlways, FirstTokensAlways, PTL
  DEF Spec, KeepsLifecycle, Lifecycle!LSpec

----------------------------------------------------------------------------
(* Requests served one at a time.                                          *)

\* The step makes no token unspent.
FewerUnspent ==
  \A t \in Tokens : Unspent(t)' => Unspent(t) /\ token'[t].session = token[t].session

LEMMA FewerKeeps ==
  ASSUME Typed, OnePerSession, NoRevival, FewerUnspent
  PROVE  OnePerSession'
<1>1. \A t \in Tokens : Unspent(t) => /\ token[t].session \in Sessions
                                      /\ session[token[t].session].phase # "unborn"
  BY DEF Unspent, TokenExists, Typed, TokensRefer
<1>2. SUFFICES ASSUME NEW t \in Tokens, NEW u \in Tokens, Unspent(t)', Unspent(u)',
                      token'[t].session = token'[u].session, Survives(token'[t].session)
               PROVE  t = u
  BY DEF OnePerSession, Survives, Live, SessionExists
<1>3. Unspent(t) /\ Unspent(u) /\ token[t].session = token[u].session
      /\ Survives(token[t].session)
  BY <1>2 DEF FewerUnspent
<1>4. Live(token[t].session)
  BY <1>1, <1>3 DEF NoRevival
<1> QED
  BY <1>3, <1>4 DEF OnePerSession

LEMMA SameTokensFewer ==
  ASSUME token' = token
  PROVE  FewerUnspent
  BY DEF FewerUnspent, Unspent, TokenExists

LEMMA PurgedUsed ==
  ASSUME Typed, NEW T, token' = Purged(T)
  PROVE  \A t \in Tokens : token'[t].used = token[t].used
<1>1. \A t \in Tokens : /\ t \notin T => token'[t] = token[t]
                        /\ t \in T => token'[t].used = token[t].used
  BY PurgedSays
<1> QED
  BY <1>1

LEMMA ExpiredFewer ==
  ASSUME Typed, NEW S, token' = Expired(S)
  PROVE  FewerUnspent
  BY DEF Expired, Typed, TypeOK, TokenRow, FewerUnspent, Unspent, TokenExists

LEMMA PurgedFewer ==
  ASSUME Typed, NEW T, token' = Purged(T)
  PROVE  FewerUnspent
  BY PurgedSays DEF FewerUnspent, Unspent, TokenExists

\* A rotation replaces the session's unspent token by its successor.
LEMMA RotatedOne ==
  ASSUME Typed, OnePerSession, NoRevival, NEW t \in Tokens, NEW n \in Tokens, TokenExists(t),
         token[n].phase = "unborn", token' = Rotated(t, n),
         ~ token[t].used \/ ~ Survives(token[t].session)
  PROVE  OnePerSession'
<1>1. n # t /\ token[t].session \in Sessions /\ session[token[t].session].phase # "unborn"
  BY DEF TokenExists, Typed, TokensRefer
<1>2. /\ token'[n] = NewToken(token[t].session)
      /\ token'[t].used = TRUE
      /\ \A u \in Tokens : u # n /\ u # t => token'[u] = token[u]
  BY <1>1 DEF Rotated, Typed, TypeOK, TokenRow
<1>3. token'[n].session = token[t].session
  BY <1>2 DEF NewToken
<1>4. SUFFICES ASSUME NEW u \in Tokens, NEW v \in Tokens, Unspent(u)', Unspent(v)',
                      token'[u].session = token'[v].session, Survives(token'[u].session)
               PROVE  u = v
  BY DEF OnePerSession, Survives, Live, SessionExists
<1>5. ASSUME NEW w \in Tokens, Unspent(w)', w # n
      PROVE  w # t /\ Unspent(w) /\ token'[w] = token[w]
  BY <1>2, <1>5 DEF Unspent, TokenExists
<1>6. ASSUME NEW w \in Tokens, Unspent(w)', w # n, token[w].session = token[t].session,
             Survives(token[t].session)
      PROVE  FALSE
  <2>1. Live(token[t].session)
    BY <1>1, <1>6 DEF NoRevival
  <2>2. Unspent(w) /\ w # t /\ Unspent(t)
    BY <1>5, <1>6 DEF Unspent
  <2> QED
    BY <1>6, <2>1, <2>2 DEF OnePerSession
<1>7. CASE u # n /\ v # n
  <2>1. Unspent(u) /\ Unspent(v) /\ token[u].session = token[v].session
        /\ Survives(token[u].session)
    BY <1>4, <1>5, <1>7
  <2>2. Live(token[u].session)
    BY <2>1 DEF NoRevival, Unspent, TokenExists, Typed, TokensRefer
  <2> QED
    BY <2>1, <2>2 DEF OnePerSession
<1>8. CASE u = n /\ v # n
  BY <1>3, <1>4, <1>5, <1>6, <1>8
<1>9. CASE u # n /\ v = n
  BY <1>3, <1>4, <1>5, <1>6, <1>9
<1> QED
  BY <1>7, <1>8, <1>9

LEMMA IssuedOne ==
  ASSUME Typed, FirstTokens, OnePerSession, NEW c \in Calls, IssueToken(c), NoRevival
  PROVE  OnePerSession'
<1>1. CASE token' = token
  BY <1>1, SameTokensFewer, FewerKeeps
<1>2. ASSUME NEW n \in Tokens, token' = [token EXCEPT ![n] = NewToken(call[c].ses)]
      PROVE  OnePerSession'
  <2>1. token'[n].session = call[c].ses /\ \A t \in Tokens : t # n => token'[t] = token[t]
    BY <1>2 DEF NewToken, Typed, TypeOK
  <2>2. \A t \in Tokens : token[t].session # call[c].ses
    BY DEF IssueToken, FirstTokens
  <2>3. session' = session
    BY DEF IssueToken
  <2> QED
    BY <2>1, <2>2, <2>3 DEF OnePerSession, Unspent, TokenExists, Live, SessionExists
<1> QED
  BY <1>1, <1>2 DEF IssueToken

LEMMA OpenedOne ==
  ASSUME Typed, OnePerSession, NEW c \in Calls, OpenInsert(c)
  PROVE  OnePerSession'
<1>1. PICK s \in Sessions :
        /\ session[s].phase = "unborn"
        /\ session' = [session EXCEPT ![s] =
             [phase |-> "row", stamp |-> call[c].stamp, authAt |-> call[c].at,
              lastActive |-> call[c].at, absExpires |-> call[c].at + AbsoluteLifetime,
              reason |-> None]]
  BY DEF OpenInsert
<1>2. \A t \in Tokens : TokenExists(t) => token[t].session \in Sessions \ {s}
  BY <1>1 DEF TokenExists, Typed, TokensRefer
<1>3. token' = token /\ \A o \in Sessions \ {s} : session'[o] = session[o]
  BY <1>1 DEF OpenInsert, Typed, TypeOK
<1> QED
  BY <1>2, <1>3 DEF OnePerSession, Unspent, TokenExists, Live, SessionExists

LEMMA ReusedOne ==
  ASSUME Typed, OnePerSession, NoRevival, NEW c \in Calls, ReuseCommit(c)
  PROVE  OnePerSession'
<1>1. CASE token' = token
  BY <1>1, SameTokensFewer, FewerKeeps
<1>2. ASSUME RowsRemain(c), NEW n \in Tokens, token[n].phase = "unborn",
             token' = Rotated(call[c].tok, n)
      PROVE  OnePerSession'
  <2>1. /\ call[c].tok \in Tokens /\ call[c].ses \in Sessions
        /\ token[call[c].tok].session = call[c].ses
    BY DEF ReuseCommit, Typed, CallsRefer
  <2>2. session'[call[c].ses].reason # None
    BY <1>2, <2>1, ReasonAssumption DEF ReuseCommit, Typed, TypeOK, SessionRow, Reasons
  <2> QED
    BY <1>2, <2>1, <2>2, RotatedOne DEF RowsRemain, Survives
<1> QED
  BY <1>1, <1>2 DEF ReuseCommit

LEMMA RotateWriteOne ==
  ASSUME Typed, OneUnspent, NoRevival, NEW c \in Calls, call[c].pc = "commit",
         RowsRemain(c), RotateWrite(c)
  PROVE  OnePerSession'
<1>1. call[c].tok \in Tokens /\ ~ token[call[c].tok].used
  BY DEF Typed, CallsRefer, OneUnspent, PresentedUnspent
<1> QED
  BY <1>1, RotatedOne DEF RotateWrite, RowsRemain, OneUnspent

LEMMA NextOnePerSession ==
  ASSUME Typed, FirstTokens, OneUnspent, NoRevival, Step
  PROVE  OnePerSession'
<1> USE DEF OneUnspent
<1>1. ASSUME NEW c \in Calls, Begin(c) PROVE OnePerSession'
  <2>1. token' = token
    BY <1>1 DEF Begin, OpenRead, LookupReuse, LookupProceed, Logout, RevokeSession, RevokeOthers,
       ChangePassword, RevokeEvery, ResetPassword
  <2> QED
    BY <2>1, SameTokensFewer, FewerKeeps
<1>2. ASSUME NEW c \in Calls, Proceed(c) PROVE OnePerSession'
  <2>1. CASE CheckStamp(c) \/ RevokeOne(c) \/ RevokeAll(c) \/ Restamp(c) \/ SaveStamp(c)
    <3>1. token' = token
      BY <2>1 DEF CheckStamp, RevokeOne, RevokeAll, Restamp, SaveStamp
    <3> QED
      BY <3>1, SameTokensFewer, FewerKeeps
  <2>2. CASE ExpireOne(c) \/ ExpireListed(c)
    BY <2>2, ExpiredFewer, FewerKeeps DEF ExpireOne, ExpireListed
  <2>3. CASE RotateCommit(c)
    BY <2>3, RotateWriteOne, SameTokensFewer, FewerKeeps DEF RotateCommit
  <2> QED
    BY <1>2, <2>1, <2>2, <2>3, OpenedOne, IssuedOne, ReusedOne DEF Proceed
<1>3. ASSUME NEW c \in Calls, Fault(c) PROVE OnePerSession'
  <2>1. CASE SaveFails(c) \/ CommitFails(c) \/ Abort(c)
    BY <2>1, SameTokensFewer, FewerKeeps DEF SaveFails, CommitFails, Abort
  <2>2. CASE CommitAckLost(c)
    BY <2>2, RotateWriteOne DEF CommitAckLost, CanRetry
  <2> QED
    BY <1>3, <2>1, <2>2 DEF Fault
<1>4. CASE Cleanup
  BY <1>4, PurgedFewer, SameTokensFewer, FewerKeeps
  DEF Cleanup, CleanupTokens, CleanupSessions, CleanupFails
<1>5. CASE Tick
  BY <1>5, SameTokensFewer, FewerKeeps DEF Tick
<1> QED
  BY <1>1, <1>2, <1>3, <1>4, <1>5 DEF Step

\* The only request in flight presents an unspent token until it commits.
LEMMA ReplacedPresented ==
  ASSUME Typed, \A d, e \in Calls : d = e, NEW c \in Calls, NEW rec, Start(c, rec),
         rec.pc \in {"stamp", "commit"} => ~ token'[rec.tok].used
  PROVE  PresentedUnspent'
<1>1. call'[c] = rec
  BY DEF Start, Typed, TypeOK
<1> QED
  BY <1>1 DEF PresentedUnspent

LEMMA FinishedPresented ==
  ASSUME Typed, \A d, e \in Calls : d = e, NEW c \in Calls, Finish(c)
  PROVE  PresentedUnspent'
<1>1. Idle.pc = "idle" /\ Start(c, Idle)
  BY DEF Idle, Start, Finish
<1> QED
  BY <1>1, ReplacedPresented

LEMMA BeginPresented ==
  ASSUME Typed, \A d, e \in Calls : d = e, NEW c \in Calls, Begin(c)
  PROVE  PresentedUnspent'
<1> USE DEF Idle
<1>1. CASE OpenRead(c)
  BY <1>1, ReplacedPresented DEF OpenRead
<1>2. ASSUME NEW t \in Tokens, LookupReuse(c, t) PROVE PresentedUnspent'
  BY <1>2, ReplacedPresented DEF LookupReuse
<1>3. ASSUME NEW t \in Tokens, LookupProceed(c, t) PROVE PresentedUnspent'
  <2> DEFINE rec == [Idle EXCEPT !.pc = "stamp", !.tok = t, !.ses = token[t].session,
                                 !.at = now, !.stamp = session[token[t].session].stamp,
                                 !.late = token[t].session \in ended]
  <2>1. rec.tok = t /\ Start(c, rec) /\ token' = token /\ ~ token[t].used
    BY <1>3 DEF LookupProceed, Verdict
  <2> HIDE DEF rec
  <2> QED
    BY <2>1, ReplacedPresented
<1>4. ASSUME NEW s \in Sessions, Logout(c, s) PROVE PresentedUnspent'
  BY <1>4, ReplacedPresented DEF Logout
<1>5. ASSUME NEW s \in Sessions, RevokeSession(c, s) PROVE PresentedUnspent'
  BY <1>5, ReplacedPresented DEF RevokeSession
<1>6. ASSUME NEW s \in Sessions, RevokeOthers(c, s) PROVE PresentedUnspent'
  BY <1>6, ReplacedPresented DEF RevokeOthers
<1>7. ASSUME NEW s \in Sessions, ChangePassword(c, s) PROVE PresentedUnspent'
  BY <1>7, ReplacedPresented DEF ChangePassword
<1>8. ASSUME NEW why, RevokeEvery(c, why) PROVE PresentedUnspent'
  BY <1>8, ReplacedPresented DEF RevokeEvery
<1>9. CASE ResetPassword(c)
  BY <1>9, ReplacedPresented DEF ResetPassword
<1> QED
  BY <1>1, <1>2, <1>3, <1>4, <1>5, <1>6, <1>7, <1>8, <1>9 DEF Begin

LEMMA NextPresented ==
  ASSUME Typed, PresentedUnspent, \A d, e \in Calls : d = e, Step
  PROVE  PresentedUnspent'
<1>1. ASSUME NEW c \in Calls, Begin(c) PROVE PresentedUnspent'
  BY <1>1, BeginPresented
<1>2. ASSUME NEW c \in Calls, NEW pc, Continue(c, pc),
             pc \in {"stamp", "commit"} => call[c].pc = "stamp" /\ token' = token
      PROVE  PresentedUnspent'
  <2>1. call'[c].pc = pc /\ call'[c].tok = call[c].tok
    BY <1>2 DEF Continue, Typed, TypeOK, CallState
  <2> QED
    BY <1>2, <2>1 DEF PresentedUnspent
<1>3. ASSUME NEW c \in Calls, NEW dirty, Retry(c, dirty)
      PROVE  PresentedUnspent'
  <2> DEFINE more == call[c].tries + 1
             rec == [call[c] EXCEPT !.pc = "reuse", !.dirty = dirty, !.tries = more]
  <2>1. call[c] \in CallState
    BY DEF Typed, TypeOK
  <2>2. call' = [call EXCEPT ![c] = rec]
    BY <1>3 DEF Retry
  <2> HIDE DEF more
  <2>3. rec.pc = "reuse"
    BY <2>1 DEF CallState
  <2> HIDE DEF rec
  <2> QED
    BY <2>2, <2>3, ReplacedPresented DEF Start
<1>4. ASSUME NEW c \in Calls, Proceed(c) PROVE PresentedUnspent'
  <2>1. CASE OpenInsert(c)
    <3>1. PICK s \in Sessions : Start(c, [Idle EXCEPT !.pc = "issue", !.ses = s])
      BY <2>1, Zenon DEF OpenInsert
    <3> QED
      BY <3>1, ReplacedPresented DEF Idle
  <2>2. CASE Finish(c)
    BY <2>2, FinishedPresented
  <2>3. CASE CheckStamp(c) \/ RevokeOne(c) \/ RevokeAll(c) \/ Restamp(c) \/ SaveStamp(c)
    BY <1>2, <2>2, <2>3 DEF CheckStamp, RevokeOne, RevokeAll, Restamp, SaveStamp
  <2> QED
    BY <1>4, <2>1, <2>2, <2>3
    DEF Proceed, IssueToken, RotateCommit, ReuseCommit, ExpireOne, ExpireListed
<1>5. ASSUME NEW c \in Calls, Fault(c) PROVE PresentedUnspent'
  BY <1>3, <1>5, FinishedPresented DEF Fault, SaveFails, CommitFails, CommitAckLost, Abort
<1>6. CASE Cleanup
  <2>1. call' = call /\ \A t \in Tokens : token'[t].used = token[t].used
    BY <1>6, PurgedUsed DEF Cleanup, CleanupTokens, CleanupSessions, CleanupFails
  <2> QED
    BY <2>1 DEF PresentedUnspent, Typed, CallsRefer
<1>7. CASE Tick
  BY <1>7 DEF Tick, PresentedUnspent
<1> QED
  BY <1>1, <1>4, <1>5, <1>6, <1>7 DEF Step

LEMMA NextOne ==
  ASSUME Typed, Safe, Ends, FirstTokens, OneUnspent, \A d, e \in Calls : d = e, [Next]_vars
  PROVE  OneUnspent'
<1>1. CASE UNCHANGED vars
  BY <1>1 DEF vars, OneUnspent, PresentedUnspent, OnePerSession, Unspent, TokenExists, Live,
     SessionExists
<1>2. CASE Next
  <2>1. Says /\ Step
    BY <1>2, StepSays DEF Next
  <2>2. NoRevival
    BY <2>1 DEF Says, SessionSays, NoRevival, Survives, Live
  <2> QED
    BY <2>1, <2>2, NextOnePerSession, NextPresented DEF OneUnspent
<1> QED
  BY <1>1, <1>2

LEMMA InitOne == Init => OneUnspent
  BY DEF Init, OneUnspent, PresentedUnspent, OnePerSession, Unspent, TokenExists, Idle

\* Requests served one at a time leave a live session one token that can still
\* be rotated, whatever the faults of a commit and its retries.
THEOREM OneTokenWhenSequential ==
  ASSUME \A c, d \in Calls : c = d
  PROVE  Spec => []SingleLiveToken
<1>1. Typed /\ Safe /\ Ends /\ FirstTokens /\ OneUnspent /\ [Next]_vars => OneUnspent'
  BY NextOne
<1>2. Spec => []OneUnspent
  BY <1>1, InitOne, TypedAlways, SafeAlways, EndsAlways, FirstTokensAlways, PTL DEF Spec
<1>3. OneUnspent => SingleLiveToken
  <2> SUFFICES ASSUME OneUnspent, NEW s \in Sessions, Live(s)
               PROVE  Cardinality({t \in Tokens : /\ TokenExists(t) /\ token[t].session = s
                                                  /\ ~ token[t].used /\ token[t].expires > now}) <= 1
    BY DEF SingleLiveToken
  <2> DEFINE T == {t \in Tokens : /\ TokenExists(t) /\ token[t].session = s
                                  /\ ~ token[t].used /\ token[t].expires > now}
  <2>1. \A t, u \in T : t = u
    BY DEF OneUnspent, OnePerSession, Unspent
  <2> HIDE DEF T
  <2>2. ASSUME T = {} PROVE Cardinality(T) <= 1
    BY <2>2, FS_EmptySet
  <2>3. ASSUME NEW t \in T PROVE Cardinality(T) <= 1
    <3>1. T = {t}
      BY <2>1, <2>3
    <3> QED
      BY <3>1, FS_Singleton
  <2>4. Cardinality(T) <= 1
    BY <2>2, <2>3
  <2> QED
    BY <2>4 DEF T
<1> QED
  BY <1>2, <1>3, PTL
=============================================================================
