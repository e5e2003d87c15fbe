---- MODULE LoadScenarios ----
(***************************************************************************)
(* The k6 scenarios of tests/load, as mixed.js runs them side by side:     *)
(* virtual users (VUs) that log in, read the profile with a token of the   *)
(* setup, or rotate the refresh token of a session prepared for them.  A   *)
(* VU keeps its own tokens; what the service answers may be a success, a   *)
(* refusal, or get lost after the service has acted.                       *)
(***************************************************************************)
EXTENDS Naturals, FiniteSets

CONSTANTS
  LoginMaxVus, RefreshMaxVus, MeMaxVus, \* most VUs of each scenario
  BatchSize,                            \* logins at a time while the pool is prepared
  MaxRotations                          \* bound: tokens the service mints for one session

ASSUME LoadAssumption ==
  /\ LoginMaxVus \in Nat \ {0} /\ RefreshMaxVus \in Nat \ {0} /\ MeMaxVus \in Nat \ {0}
  /\ BatchSize \in Nat \ {0} /\ MaxRotations \in Nat \ {0}

VARIABLES
  phase,            \* setup of the profile, of the pool, the run itself, or stopped
  pool,             \* sessions prepared so far
  scenario,         \* the scenario a VU works for, once it has begun
  held,             \* what a VU holds: nothing yet, a token, or {} after a failure
  minted, replayed, \* the service: the newest token of a session; replays it saw
  failed, threw     \* VUs a check of which failed, VUs an iteration of which threw

loadVars == <<phase, pool, scenario, held, minted, replayed, failed, threw>>

MaxVus == [login |-> LoginMaxVus, refresh |-> RefreshMaxVus, me |-> MeMaxVus]
TotalMaxVus == LoginMaxVus + RefreshMaxVus + MeMaxVus
VuIds == 1..TotalMaxVus
Undefined == 0                    \* let refreshTokens;
EmptyObject == MaxRotations + 1   \* the {} of parseTokens

\* A success, refusals, and no answer.
Refusals == {401, 429, 500}
Statuses == Refusals \union {200, 0}

\* A failed response has no tokens; the object is there, and truthy.
parseTokens(status, token) == IF status = 200 THEN token ELSE EmptyObject

(***************************************************************************)
(* Setup.  A login that fails throws, and the run ends before it starts.   *)
(***************************************************************************)
SetupFails ==
  /\ phase \in {"profile", "pool"}
  /\ phase' = "stopped"
  /\ UNCHANGED <<pool, scenario, held, minted, replayed, failed, threw>>

ProfileLogin ==
  /\ phase = "profile"
  /\ phase' = "pool"
  /\ UNCHANGED <<pool, scenario, held, minted, replayed, failed, threw>>

SmallerOf(a, b) == IF a < b THEN a ELSE b

\* Variant: the pool is as large as the scenario that uses it.
PoolSizeOfScenario == RefreshMaxVus

\* VUs are numbered across all scenarios, so any of them may come to rotate.
PoolSize == TotalMaxVus

createTokenPool ==
  /\ phase = "pool"
  /\ IF pool < PoolSize
     THEN /\ pool' = pool + SmallerOf(BatchSize, PoolSize - pool)
          /\ minted' = [v \in VuIds |-> IF v <= pool' THEN 1 ELSE 0]
          /\ UNCHANGED phase
     ELSE phase' = "run" /\ UNCHANGED <<pool, minted>>
  /\ UNCHANGED <<scenario, held, replayed, failed, threw>>

(***************************************************************************)
(* Iterations.                                                             *)
(***************************************************************************)
\* A VU works for the scenario it began with, of which there are at most so many.
Works(v, s) ==
  /\ phase = "run"
  /\ \/ scenario[v] = s /\ UNCHANGED scenario
     \/ /\ scenario[v] = "idle"
        /\ Cardinality({u \in VuIds : scenario[u] = s}) < MaxVus[s]
        /\ scenario' = [scenario EXCEPT ![v] = s]
  /\ UNCHANGED <<phase, pool>>

Checked(v, status) == failed' = IF status = 200 THEN failed ELSE failed \union {v}

login(v) ==
  /\ Works(v, "login")
  /\ \E status \in Statuses : Checked(v, status)
  /\ UNCHANGED <<held, minted, replayed, threw>>

me(v) ==
  /\ Works(v, "me")
  /\ \E status \in Statuses : Checked(v, status)
  /\ UNCHANGED <<held, minted, replayed, threw>>

\* The session prepared for VU v, if there is one.
Prepared(v) == IF v <= pool THEN 1 ELSE Undefined

\* Variant: the prepared token is taken again after a failure.
OwnTokensAgain(v) == IF held[v] \in {Undefined, EmptyObject} THEN Prepared(v) ELSE held[v]

\* refreshTokens ||= pool[__VU - 1]
OwnTokens(v) == IF held[v] = Undefined THEN Prepared(v) ELSE held[v]

\* Without a refresh token the iteration throws before any request.
Throws(v) ==
  /\ OwnTokens(v) \in {Undefined, EmptyObject}
  /\ held' = [held EXCEPT ![v] = OwnTokens(v)]
  /\ threw' = threw \union {v}
  /\ UNCHANGED <<minted, replayed, failed>>

\* The service rotates; the answer may be lost on its way back.
Rotates(v) ==
  /\ OwnTokens(v) = minted[v]
  /\ minted[v] \in 1..(MaxRotations - 1)
  /\ minted' = [minted EXCEPT ![v] = minted[v] + 1]
  /\ \E status \in {200, 0} :
       /\ held' = [held EXCEPT ![v] = parseTokens(status, minted[v] + 1)]
       /\ Checked(v, status)
  /\ UNCHANGED <<replayed, threw>>

\* The service refuses; a token it has replaced is a replay.
Refused(v) ==
  /\ OwnTokens(v) \notin {Undefined, EmptyObject}
  /\ \E status \in Refusals :
       /\ held' = [held EXCEPT ![v] = parseTokens(status, Undefined)]
       /\ Checked(v, status)
  /\ replayed' = IF OwnTokens(v) # minted[v] THEN replayed \union {v} ELSE replayed
  /\ UNCHANGED <<minted, threw>>

refresh(v) == Works(v, "refresh") /\ (Throws(v) \/ Rotates(v) \/ Refused(v))

LoadInit ==
  /\ phase = "profile" /\ pool = 0
  /\ scenario = [v \in VuIds |-> "idle"]
  /\ held = [v \in VuIds |-> Undefined]
  /\ minted = [v \in VuIds |-> 0] /\ replayed = {}
  /\ failed = {} /\ threw = {}

Iteration == \E v \in VuIds : login(v) \/ refresh(v) \/ me(v)

LoadNext == SetupFails \/ ProfileLogin \/ createTokenPool \/ Iteration

LoadSpec == LoadInit /\ [][LoadNext]_loadVars

(***************************************************************************)
(* Properties.                                                             *)
(***************************************************************************)
\* refresh.js:51-52, "the next iteration replays a burnt one and trips reuse
\* detection": no VU ever presents a token the service has replaced, whatever reply
\* was refused or lost, and no two VUs share a session.
NoVuReplays == replayed = {}

\* A VU that throws sends no request and fails no check, so it is missing from every
\* rate the thresholds look at.  It has failed a check before it falls silent; none is
\* silent because no session was prepared for its number (mixed.js:63-64).
SilentVuFailedACheck == threw \subseteq failed
====
