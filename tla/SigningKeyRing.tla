--------------------------- MODULE SigningKeyRing ---------------------------
(***************************************************************************)
(* The ring of ES256 signing keys: issuing access tokens, bootstrapping,   *)
(* rotating and retiring keys, and resolving a kid to a public key through *)
(* the cache of each instance.  The ring is a table whose only guard is    *)
(* the partial unique index on Status = 'Active'; every await between two  *)
(* statements is a boundary between two actions.                           *)
(*                                                                         *)
(* Abstractions: a key is the identity of its row (its kid is a hash of    *)
(* the public key, so a fresh key has a fresh kid); a token is its kid, the*)
(* key that signed it and its exp; a request that is refused, cancelled or *)
(* fails returns to idle.  All instances read one clock.                   *)
(***************************************************************************)
EXTENDS Integers

CONSTANTS
  Keys,            \* identities of signing keys
  Tasks,           \* requests and operator commands in flight
  Ops,             \* what the environment asks for: Issue, Jwks, Rotate, Resolve
  Instances,       \* processes with a cache of their own
  AccessLifetime,  \* JwtOptions.AccessTokenLifetime
  ClockSkew,       \* JwtOptions.ClockSkew
  Grace,           \* JwtOptions.KeyRetirementGrace
  Development,     \* IHostEnvironment.IsDevelopment
  Distributed,     \* RedisOptions.Enabled: the instances share a second cache
  RotationTime,    \* longest time from a rotation's clock read to its commit
  MaxTime,         \* bound: last instant of the clock
  None             \* no key

ASSUME RingAssumption ==
  /\ AccessLifetime \in Nat \ {0}
  /\ ClockSkew \in Nat
  /\ Grace \in Nat
  /\ Grace >= AccessLifetime + ClockSkew     \* JwtOptionsValidator
  /\ RotationTime \in Nat
  /\ MaxTime \in Nat
  /\ {Development, Distributed} \subseteq BOOLEAN
  /\ None \notin Keys

VARIABLES
  now,      \* TimeProvider.GetUtcNow
  key,      \* the SigningKeys table
  task,     \* the requests and commands in flight
  retirer,  \* RetireElapsedKeysAsync, one run per instance
  local,    \* the in-process cache of each instance: keys resolved
  shared,   \* the distributed cache
  fetched,  \* keys read from the table and not yet cached
  issued    \* history: the access tokens handed out

vars == <<now, key, task, retirer, local, shared, fetched, issued>>

Time == 0..MaxTime

\* "unborn" is a key no row holds yet.
Statuses == {"unborn", "Active", "Retiring", "Retired"}

KeyRow == [status : Statuses, retiringAt : Time, readable : BOOLEAN]

PCs == {"idle", "ensure", "create", "reread", "rotateRead", "rotateSave", "got"}

\* What a task wants the active key for.
Wants == {"kid", "sign", "resign", "publish", "rotate"}

TaskState == [pc : PCs, want : Wants, issuedAt : Time, attempt : 0..2,
              kid : Keys \cup {None},        \* the kid in the header
              found : Keys \cup {None},      \* the key the last read returned
              rotatedAt : Time]

Idle == [pc |-> "idle", want |-> "publish", issuedAt |-> 0, attempt |-> 0,
         kid |-> None, found |-> None, rotatedAt |-> 0]

RetirerState == [pc : {"idle", "save", "remove"}, elapsed : SUBSET Keys]

Resting == [pc |-> "idle", elapsed |-> {}]

Tokens == [kid : Keys, by : Keys, exp : Nat]

TypeOK ==
  /\ now \in Time
  /\ key \in [Keys -> KeyRow]
  /\ task \in [Tasks -> TaskState]
  /\ retirer \in [Instances -> RetirerState]
  /\ local \in [Instances -> SUBSET Keys]
  /\ shared \in SUBSET Keys
  /\ fetched \in [Instances -> SUBSET Keys]
  /\ issued \in SUBSET Tokens

----------------------------------------------------------------------------
(* The table.                                                              *)

Active(k) == key[k].status = "Active"
ActiveKeys == {k \in Keys : Active(k)}

\* Mutant: a kid resolves whatever the status of its key.
PublishableWhatever(k) == key[k].status # "unborn"

\* Listed in JWKS, and resolvable.
Publishable(k) == key[k].status \in {"Active", "Retiring"}

\* Mutant: no partial unique index.
NoIndex(k) == TRUE

\* The partial unique index on Status = 'Active': a row may be written Active
\* while no row but k, which the same SaveChanges demotes, is.
IndexAllows(k) == ActiveKeys \subseteq {k}

\* CreateKey: a pair no row holds, protected by the current key ring.
NewActive == [status |-> "Active", retiringAt |-> 0, readable |-> TRUE]

\* Mutant: rotation retires the previous key.
RetiredAtOnce(k, at) == [key[k] EXCEPT !.status = "Retired", !.retiringAt = at]

\* Mutant: the instant of retirement is stored for the one of demotion.
DemotedUntil(k, at) == [key[k] EXCEPT !.status = "Retiring", !.retiringAt = at + Grace]

Demoted(k, at) == [key[k] EXCEPT !.status = "Retiring", !.retiringAt = at]

\* Mutant: the demoted key is retired at the next sweep.
ElapsedNoGrace == {k \in Keys : key[k].status = "Retiring" /\ key[k].retiringAt <= now}

\* The keys past the cutoff.
Elapsed == {k \in Keys : key[k].status = "Retiring" /\ key[k].retiringAt <= now - Grace}

\* Mutant: the key that signed is not compared with the header.
AnySigner(kid, k) == TRUE

\* The header named the key that signed.
SignerMatches(kid, k) == kid = k

\* ValidateLifetime.
Unexpired(t, at) == t.exp >= at - ClockSkew

----------------------------------------------------------------------------
\* An empty table, or in Development a database whose active key was protected
\* by a key ring that is gone.
Init ==
  /\ now = 0
  /\ \/ key = [k \in Keys |-> [NewActive EXCEPT !.status = "unborn"]]
     \/ /\ Development
        /\ \E old \in Keys :
             key = [k \in Keys |-> IF k = old THEN [NewActive EXCEPT !.readable = FALSE]
                                   ELSE [NewActive EXCEPT !.status = "unborn"]]
  /\ task = [p \in Tasks |-> Idle]
  /\ retirer = [i \in Instances |-> Resting]
  /\ local = [i \in Instances |-> {}]
  /\ shared = {}
  /\ fetched = [i \in Instances |-> {}]
  /\ issued = {}

caches == <<local, shared, fetched>>

(* The active key: GetOrCreateActiveKeyAsync.                              *)

\* Both return paths of the read: the row, or none.
Ensure(p) ==
  /\ task[p].pc = "ensure"
  /\ \/ \E k \in ActiveKeys :
          task' = [task EXCEPT ![p].pc = "got", ![p].found = k]
     \/ /\ ActiveKeys = {}
        /\ task' = [task EXCEPT ![p].pc = "create"]
  /\ UNCHANGED <<now, key, retirer, caches, issued>>

\* The insert of the first key; the loser of the race re-reads.
Create(p) ==
  /\ task[p].pc = "create"
  /\ \E k \in Keys :
       /\ key[k].status = "unborn"
       /\ IF IndexAllows(k)
          THEN /\ key' = [key EXCEPT ![k] = NewActive]
               /\ task' = [task EXCEPT ![p].pc = "got", ![p].found = k]
          ELSE /\ task' = [task EXCEPT ![p].pc = "reread"]
               /\ UNCHANGED key
  /\ UNCHANGED <<now, retirer, caches, issued>>

Reread(p) ==
  /\ task[p].pc = "reread"
  /\ \E k \in ActiveKeys :
       task' = [task EXCEPT ![p].pc = "got", ![p].found = k]
  /\ UNCHANGED <<now, key, retirer, caches, issued>>

(* Issuing an access token: IssueAsync and SignAsync.                      *)

Issue(p) ==
  /\ "Issue" \in Ops
  /\ task[p].pc = "idle"
  /\ task' = [task EXCEPT ![p] = [Idle EXCEPT !.pc = "ensure", !.want = "kid",
                                              !.issuedAt = now]]
  /\ UNCHANGED <<now, key, retirer, caches, issued>>

\* The header is built; the payload goes to SignAsync.
GotKid(p) ==
  /\ task[p].pc = "got"
  /\ task[p].want = "kid"
  /\ task' = [task EXCEPT ![p].pc = "ensure", ![p].want = "sign",
                          ![p].kid = task[p].found, ![p].found = None]
  /\ UNCHANGED <<now, key, retirer, caches, issued>>

\* Signed by the key in the header: the token is returned.
Sign(p) ==
  /\ task[p].pc = "got"
  /\ task[p].want \in {"sign", "resign"}
  /\ key[task[p].found].readable
  /\ SignerMatches(task[p].kid, task[p].found)
  /\ issued' = issued \cup {[kid |-> task[p].kid, by |-> task[p].found,
                             exp |-> task[p].issuedAt + AccessLifetime]}
  /\ task' = [task EXCEPT ![p] = Idle]
  /\ UNCHANGED <<now, key, retirer, caches>>

\* Signed by another key: the header is rebuilt, three times at most.
SignAgain(p) ==
  /\ task[p].pc = "got"
  /\ task[p].want \in {"sign", "resign"}
  /\ key[task[p].found].readable
  /\ ~ SignerMatches(task[p].kid, task[p].found)
  /\ task' = [task EXCEPT ![p] =
                IF task[p].attempt = 2 THEN Idle
                ELSE [task[p] EXCEPT !.pc = "ensure", !.want = "kid",
                                     !.attempt = task[p].attempt + 1,
                                     !.kid = None, !.found = None]]
  /\ UNCHANGED <<now, key, retirer, caches, issued>>

\* The private key cannot be unprotected: Development rotates, once.
SignFails(p) ==
  /\ task[p].pc = "got"
  /\ task[p].want \in {"sign", "resign"}
  /\ ~ key[task[p].found].readable
  /\ task' = [task EXCEPT ![p] =
                IF Development /\ task[p].want = "sign"
                THEN [task[p] EXCEPT !.pc = "rotateRead", !.want = "resign",
                                     !.found = None, !.rotatedAt = now]
                ELSE Idle]
  /\ UNCHANGED <<now, key, retirer, caches, issued>>

(* GET /.well-known/jwks.json: GetPublishableKeysAsync.                    *)

Jwks(p) ==
  /\ "Jwks" \in Ops
  /\ task[p].pc = "idle"
  /\ task' = [task EXCEPT ![p] = [Idle EXCEPT !.pc = "ensure"]]
  /\ UNCHANGED <<now, key, retirer, caches, issued>>

\* The key set the answer lists.
Published == {k \in Keys : Publishable(k)}

Publish(p) ==
  /\ task[p].pc = "got"
  /\ task[p].want = "publish"
  /\ task' = [task EXCEPT ![p] = Idle]
  /\ UNCHANGED <<now, key, retirer, caches, issued>>

(* Rotation: RotateAsync, from the operator's command or from SignAsync.   *)

Rotate(p) ==
  /\ "Rotate" \in Ops
  /\ task[p].pc = "idle"
  /\ task' = [task EXCEPT ![p] = [Idle EXCEPT !.pc = "rotateRead", !.want = "rotate",
                                              !.rotatedAt = now]]
  /\ UNCHANGED <<now, key, retirer, caches, issued>>

RotateRead(p) ==
  /\ task[p].pc = "rotateRead"
  /\ \E k \in IF ActiveKeys = {} THEN {None} ELSE ActiveKeys :
       task' = [task EXCEPT ![p].pc = "rotateSave", ![p].found = k]
  /\ UNCHANGED <<now, key, retirer, caches, issued>>

\* Demotion and promotion in one SaveChanges.
Promoted(old, new, at) ==
  [k \in Keys |-> IF k = new THEN NewActive
                  ELSE IF k = old THEN Demoted(k, at)
                  ELSE key[k]]

\* The index refuses the new key when another rotation has won: the save throws
\* and the whole request or command with it.
RotateSave(p) ==
  /\ task[p].pc = "rotateSave"
  /\ \E k \in Keys :
       /\ key[k].status = "unborn"
       /\ IF IndexAllows(task[p].found)
          THEN /\ key' = Promoted(task[p].found, k, task[p].rotatedAt)
               /\ task' = [task EXCEPT ![p] =
                             IF task[p].want = "rotate" THEN Idle
                             ELSE [task[p] EXCEPT !.pc = "ensure", !.found = None]]
          ELSE /\ task' = [task EXCEPT ![p] = Idle]
               /\ UNCHANGED key
  /\ UNCHANGED <<now, retirer, caches, issued>>

\* The caller goes away, or a statement fails before its effect.
Abort(p) ==
  /\ task[p].pc # "idle"
  /\ task' = [task EXCEPT ![p] = Idle]
  /\ UNCHANGED <<now, key, retirer, caches, issued>>

(* Retirement: RetireElapsedKeysAsync, from the cleanup worker of each     *)
(* instance or from the operator's command.                                *)

RetireRead(i) ==
  /\ retirer[i].pc = "idle"
  /\ Elapsed # {}
  /\ retirer' = [retirer EXCEPT ![i] = [pc |-> "save", elapsed |-> Elapsed]]
  /\ UNCHANGED <<now, key, task, caches, issued>>

RetireSave(i) ==
  /\ retirer[i].pc = "save"
  /\ key' = [k \in Keys |-> IF k \in retirer[i].elapsed
                            THEN [key[k] EXCEPT !.status = "Retired"] ELSE key[k]]
  /\ retirer' = [retirer EXCEPT ![i].pc = "remove"]
  /\ UNCHANGED <<now, task, caches, issued>>

\* RemoveAsync clears this instance's entry and the shared one.
RetireRemove(i) ==
  /\ retirer[i].pc = "remove"
  /\ \E k \in retirer[i].elapsed :
       /\ local' = [local EXCEPT ![i] = local[i] \ {k}]
       /\ shared' = shared \ {k}
       /\ retirer' = [retirer EXCEPT ![i] =
                        IF retirer[i].elapsed = {k} THEN Resting
                        ELSE [retirer[i] EXCEPT !.elapsed = retirer[i].elapsed \ {k}]]
  /\ UNCHANGED <<now, key, task, fetched, issued>>

\* The save, a removal, or the process fails; what was saved stays.
RetireFails(i) ==
  /\ retirer[i].pc # "idle"
  /\ retirer' = [retirer EXCEPT ![i] = Resting]
  /\ UNCHANGED <<now, key, task, caches, issued>>

(* Resolution: ResolveValidationKeyAsync through HybridCache.  An answer   *)
(* that a kid resolves to nothing is cached too; only a Retired key has    *)
(* one, which never changes again, so it needs no state.                   *)

\* The factory of GetOrCreateAsync reads the row ...
ResolveRead(i, k) ==
  /\ "Resolve" \in Ops
  /\ k \notin local[i] \cup shared \cup fetched[i]
  /\ Publishable(k)
  /\ fetched' = [fetched EXCEPT ![i] = fetched[i] \cup {k}]
  /\ UNCHANGED <<now, key, task, retirer, local, shared, issued>>

\* ... and its result is stored in both caches.
ResolveStore(i, k) ==
  /\ k \in fetched[i]
  /\ fetched' = [fetched EXCEPT ![i] = fetched[i] \ {k}]
  /\ local' = [local EXCEPT ![i] = local[i] \cup {k}]
  /\ shared' = IF Distributed THEN shared \cup {k} ELSE shared
  /\ UNCHANGED <<now, key, task, retirer, issued>>

\* A hit in the shared cache fills the local one.
ResolveShared(i, k) ==
  /\ k \in shared \ local[i]
  /\ local' = [local EXCEPT ![i] = local[i] \cup {k}]
  /\ UNCHANGED <<now, key, task, retirer, shared, fetched, issued>>

\* Entries live for a limited time.
LocalExpires(i, k) ==
  /\ k \in local[i]
  /\ local' = [local EXCEPT ![i] = local[i] \ {k}]
  /\ UNCHANGED <<now, key, task, retirer, shared, fetched, issued>>

SharedExpires(k) ==
  /\ k \in shared
  /\ shared' = shared \ {k}
  /\ UNCHANGED <<now, key, task, retirer, local, fetched, issued>>

\* Time passes; a rotation commits within RotationTime of reading its clock.
\* Tokens past their lifetime, which no validator accepts, are forgotten.
Tick ==
  /\ now < MaxTime
  /\ \A p \in Tasks : task[p].pc \in {"rotateRead", "rotateSave"}
                        => now < task[p].rotatedAt + RotationTime
  /\ now' = now + 1
  /\ issued' = {t \in issued : Unexpired(t, now + 1)}
  /\ UNCHANGED <<key, task, retirer, caches>>

----------------------------------------------------------------------------
Step(p) == \/ Issue(p) \/ Jwks(p) \/ Rotate(p)
           \/ Ensure(p) \/ Create(p) \/ Reread(p)
           \/ GotKid(p) \/ Sign(p) \/ SignAgain(p) \/ SignFails(p) \/ Publish(p)
           \/ RotateRead(p) \/ RotateSave(p) \/ Abort(p)

Retire(i) == RetireRead(i) \/ RetireSave(i) \/ RetireRemove(i) \/ RetireFails(i)

Resolve(i, k) == \/ ResolveRead(i, k) \/ ResolveStore(i, k) \/ ResolveShared(i, k)
                 \/ LocalExpires(i, k)

Next ==
  \/ \E p \in Tasks : Step(p)
  \/ \E i \in Instances : Retire(i) \/ \E k \in Keys : Resolve(i, k)
  \/ \E k \in Keys : SharedExpires(k)
  \/ Tick

Spec == Init /\ [][Next]_vars

\* The cleanup worker runs at every interval and does not fail forever; a
\* resolution ends; cache entries have a time to live.
Fairness ==
  /\ \A i \in Instances : WF_vars(RetireRead(i)) /\ SF_vars(RetireSave(i))
  /\ \A i \in Instances, k \in Keys :
       WF_vars(ResolveStore(i, k)) /\ WF_vars(LocalExpires(i, k))
  /\ \A k \in Keys : WF_vars(SharedExpires(k))

FairSpec == Spec /\ Fairness

----------------------------------------------------------------------------
(* Properties.                                                             *)

\* Once a first key exists there is exactly one active key: bootstraps, rotations
\* and development repairs may race, and some fail halfway, yet the partial unique
\* index and the single SaveChanges leave neither two keys signing nor none.
RingHasOneActive ==
  (\E k \in Keys : key[k].status # "unborn") => \E k \in Keys : ActiveKeys = {k}

\* A key goes from Active to Retiring to Retired and never back, and the moment
\* its grace period runs from is never moved, although rotations and sweeps write
\* rows they read several statements ago.
KeysMoveForward ==
  [][\A k \in Keys :
       /\ Active(k) => key'[k].status \in {"Active", "Retiring"}
       /\ key[k].status = "Retiring" =>
            /\ key'[k].status \in {"Retiring", "Retired"}
            /\ key'[k].retiringAt = key[k].retiringAt
       /\ key[k].status = "Retired" => key'[k] = key[k]]_vars

\* A token's header names the key that signed it, whatever rotations came between
\* reading the active kid and signing (AccessTokenIssuer's retry loop).
KidNamesSigner == \A t \in issued : t.kid = t.by

\* No key is retired under a token still within its lifetime: the kid of such a
\* token is always in the JWKS and resolves on every instance.
LiveTokensResolve ==
  \A t \in issued : Unexpired(t, now) => t.kid \in Published

\* A key past its grace period is eventually resolved by no instance, for good:
\* the sweep retires it, and the caches a resolver refilled behind the sweep's
\* back, or a failed removal left, expire and are not filled again.
ElapsedKeysRejected ==
  \A k \in Keys :
    (key[k].status = "Retiring" /\ key[k].retiringAt <= now - Grace)
      ~> [](/\ key[k].status = "Retired"
            /\ k \notin shared
            /\ \A i \in Instances : k \notin local[i])
=============================================================================
