------------------------ MODULE SigningKeyRingProofs ------------------------
(* What holds of SigningKeyRing for all values of its constants.           *)
EXTENDS SigningKeyRing, TLAPS

\* No longer the active key.
Demoting(k) == key[k].status \in {"Retiring", "Retired"}

\* What a task holds is a row it has read; what it is about to sign was issued
\* while the key it holds was active, or within a rotation's length of that; its
\* own rotation is not older than that length.
TaskSound(r) ==
  /\ r.issuedAt <= now
  /\ r.found # None => key[r.found].status # "unborn"
  /\ r.pc = "got" => r.found # None
  /\ (r.pc = "got" /\ Demoting(r.found))
        => r.issuedAt <= key[r.found].retiringAt + RotationTime
  /\ r.pc \in {"rotateRead", "rotateSave"}
        => r.rotatedAt <= now /\ now <= r.rotatedAt + RotationTime

TasksSound == \A p \in Tasks : TaskSound(task[p])

\* Every retired key, and every key a sweep is about to retire, is past its grace
\* period.
GraceKept ==
  /\ \A k \in Keys : key[k].status = "Retired" => key[k].retiringAt + Grace <= now
  /\ \A i \in Instances : \A k \in retirer[i].elapsed :
       Demoting(k) /\ key[k].retiringAt + Grace <= now

\* A token outlives the demotion of its key by its lifetime and the length of a
\* rotation at most.
TokensSound ==
  \A t \in issued :
    /\ t.kid = t.by
    /\ key[t.kid].status # "unborn"
    /\ t.exp <= now + AccessLifetime
    /\ Demoting(t.kid) => t.exp <= key[t.kid].retiringAt + RotationTime + AccessLifetime

RingInv == TypeOK /\ RingHasOneActive /\ TasksSound /\ GraceKept /\ TokensSound

USE RingAssumption DEF Time

LEMMA IdleSound == Idle \in TaskState /\ (TypeOK => TaskSound(Idle))
  BY DEF Idle, TaskState, PCs, Wants, TaskSound, TypeOK

LEMMA NewActiveTyped == NewActive \in KeyRow
  BY DEF NewActive, KeyRow, Statuses

LEMMA RowTyped ==
  ASSUME NEW r \in KeyRow
  PROVE  /\ \A st \in Statuses : [r EXCEPT !.status = st] \in KeyRow
         /\ \A b \in BOOLEAN : [r EXCEPT !.readable = b] \in KeyRow
  BY DEF KeyRow

LEMMA InitRing == Init => RingInv
<1> SUFFICES ASSUME Init PROVE RingInv
  OBVIOUS
<1>1. TypeOK
  <2>1. [NewActive EXCEPT !.status = "unborn"] \in KeyRow
    BY NewActiveTyped, RowTyped DEF Statuses
  <2>2. [NewActive EXCEPT !.readable = FALSE] \in KeyRow
    BY NewActiveTyped, RowTyped
  <2>3. key \in [Keys -> KeyRow]
    BY <2>1, <2>2 DEF Init
  <2>4. Resting \in RetirerState
    BY DEF Resting, RetirerState
  <2> QED
    BY <2>3, <2>4, IdleSound DEF Init, TypeOK
<1>2. RingHasOneActive
  BY DEF Init, RingHasOneActive, ActiveKeys, Active, NewActive
<1>3. TasksSound
  BY <1>1, IdleSound DEF Init, TasksSound
<1>4. GraceKept /\ TokensSound
  BY DEF Init, GraceKept, TokensSound, Resting, NewActive
<1> QED
  BY <1>1, <1>2, <1>3, <1>4 DEF RingInv

----------------------------------------------------------------------------
(* Steps that only replace the record of one task.                         *)

LEMMA TaskReplaced ==
  ASSUME RingInv, NEW p \in Tasks, NEW rec \in TaskState, TaskSound(rec),
         task' = [task EXCEPT ![p] = rec],
         UNCHANGED <<now, key, retirer, caches, issued>>
  PROVE  RingInv'
<1>1. TypeOK'
  BY DEF RingInv, TypeOK, caches
<1>2. TasksSound'
  <2> SUFFICES ASSUME NEW q \in Tasks PROVE TaskSound(task[q])'
    BY DEF TasksSound
  <2>1. task'[q] = rec \/ task'[q] = task[q]
    BY DEF RingInv, TypeOK
  <2> QED
    BY <2>1 DEF RingInv, TasksSound, TaskSound, Demoting
<1>3. RingHasOneActive' /\ GraceKept' /\ TokensSound'
  BY DEF RingInv, RingHasOneActive, ActiveKeys, Active, GraceKept, TokensSound, Demoting
<1> QED
  BY <1>1, <1>2, <1>3 DEF RingInv

\* The record of a task that has just been handed the active key.
LEMMA FoundActive ==
  ASSUME RingInv, NEW r \in TaskState, TaskSound(r), NEW k \in Keys, Active(k)
  PROVE  LET rec == [r EXCEPT !.pc = "got", !.found = k]
         IN  rec \in TaskState /\ TaskSound(rec)
  BY DEF TaskState, PCs, TaskSound, Active, Demoting

LEMMA EnsureRing == ASSUME RingInv, NEW p \in Tasks, Ensure(p) PROVE RingInv'
<1>0. task[p] \in TaskState /\ TaskSound(task[p]) /\ task \in [Tasks -> TaskState]
  BY DEF RingInv, TypeOK, TasksSound
<1>1. CASE \E k \in ActiveKeys : task' = [task EXCEPT ![p].pc = "got", ![p].found = k]
  <2> PICK k \in ActiveKeys : task' = [task EXCEPT ![p].pc = "got", ![p].found = k]
    BY <1>1
  <2> DEFINE rec == [task[p] EXCEPT !.pc = "got", !.found = k]
  <2>1. k \in Keys /\ Active(k)
    BY DEF ActiveKeys
  <2>2. rec \in TaskState /\ TaskSound(rec)
    BY <1>0, <2>1, FoundActive
  <2>3. task' = [task EXCEPT ![p] = rec]
    BY <1>0
  <2> HIDE DEF rec
  <2> QED
    BY <2>2, <2>3, TaskReplaced DEF Ensure
<1>2. CASE task' = [task EXCEPT ![p].pc = "create"]
  <2> DEFINE rec == [task[p] EXCEPT !.pc = "create"]
  <2>1. rec \in TaskState /\ TaskSound(rec)
    BY <1>0 DEF TaskState, PCs, TaskSound, Demoting
  <2>2. task' = [task EXCEPT ![p] = rec]
    BY <1>0, <1>2
  <2> HIDE DEF rec
  <2> QED
    BY <2>1, <2>2, TaskReplaced DEF Ensure
<1> QED
  BY <1>1, <1>2 DEF Ensure

LEMMA RereadRing == ASSUME RingInv, NEW p \in Tasks, Reread(p) PROVE RingInv'
<1>0. task[p] \in TaskState /\ TaskSound(task[p]) /\ task \in [Tasks -> TaskState]
  BY DEF RingInv, TypeOK, TasksSound
<1> PICK k \in ActiveKeys : task' = [task EXCEPT ![p].pc = "got", ![p].found = k]
  BY DEF Reread
<1> DEFINE rec == [task[p] EXCEPT !.pc = "got", !.found = k]
<1>1. k \in Keys /\ Active(k)
  BY DEF ActiveKeys
<1>2. rec \in TaskState /\ TaskSound(rec)
  BY <1>0, <1>1, FoundActive
<1>3. task' = [task EXCEPT ![p] = rec]
  BY <1>0
<1> HIDE DEF rec
<1> QED
  BY <1>2, <1>3, TaskReplaced DEF Reread

\* The record of a task that begins.
LEMMA BeginTyped ==
  ASSUME NEW r \in TaskState, NEW pc \in PCs, NEW want \in Wants, NEW t \in Time
  PROVE  /\ [r EXCEPT !.pc = pc, !.want = want, !.issuedAt = t] \in TaskState
         /\ [r EXCEPT !.pc = pc, !.want = want, !.rotatedAt = t] \in TaskState
  BY DEF TaskState

LEMMA BeginRing ==
  ASSUME RingInv, NEW p \in Tasks, Issue(p) \/ Jwks(p) \/ Rotate(p)
  PROVE  RingInv'
<1>0. now \in Time /\ Idle \in TaskState
  BY IdleSound DEF RingInv, TypeOK
<1>1. CASE Issue(p)
  <2> DEFINE rec == [Idle EXCEPT !.pc = "ensure", !.want = "kid", !.issuedAt = now]
  <2>1. rec \in TaskState
    BY <1>0, BeginTyped DEF PCs, Wants
  <2>2. TaskSound(rec)
    BY <1>0 DEF Idle, TaskSound
  <2> QED
    BY <1>1, <2>1, <2>2, TaskReplaced DEF Issue
<1>2. CASE Jwks(p)
  <2> DEFINE rec == [Idle EXCEPT !.pc = "ensure"]
  <2>1. rec \in TaskState /\ TaskSound(rec)
    BY <1>0 DEF Idle, TaskState, PCs, Wants, TaskSound
  <2> QED
    BY <1>2, <2>1, TaskReplaced DEF Jwks
<1>3. CASE Rotate(p)
  <2> DEFINE rec == [Idle EXCEPT !.pc = "rotateRead", !.want = "rotate", !.rotatedAt = now]
  <2>1. rec \in TaskState
    BY <1>0, BeginTyped DEF PCs, Wants
  <2>2. TaskSound(rec)
    BY <1>0 DEF Idle, TaskSound
  <2> QED
    BY <1>3, <2>1, <2>2, TaskReplaced DEF Rotate
<1> QED
  BY <1>1, <1>2, <1>3

\* Signing, or failing to, and answering a request for the key set.
LEMMA GotKidRing == ASSUME RingInv, NEW p \in Tasks, GotKid(p) PROVE RingInv'
<1>0. task[p] \in TaskState /\ TaskSound(task[p]) /\ task \in [Tasks -> TaskState]
  BY DEF RingInv, TypeOK, TasksSound
<1> DEFINE rec == [task[p] EXCEPT !.pc = "ensure", !.want = "sign",
                                  !.kid = task[p].found, !.found = None]
<1>1. rec \in TaskState
  BY <1>0 DEF TaskState, PCs, Wants
<1>2. TaskSound(rec)
  BY <1>0 DEF TaskSound, TaskState
<1>3. task' = [task EXCEPT ![p] = rec]
  BY <1>0 DEF GotKid
<1> HIDE DEF rec
<1> QED
  BY <1>1, <1>2, <1>3, TaskReplaced DEF GotKid

LEMMA SignAgainRing == ASSUME RingInv, NEW p \in Tasks, SignAgain(p) PROVE RingInv'
<1>0. task[p] \in TaskState /\ TaskSound(task[p]) /\ TypeOK
  BY DEF RingInv, TypeOK, TasksSound
<1> DEFINE again == [task[p] EXCEPT !.pc = "ensure", !.want = "kid",
                                    !.attempt = task[p].attempt + 1,
                                    !.kid = None, !.found = None]
           rec == IF task[p].attempt = 2 THEN Idle ELSE again
<1>1. ASSUME task[p].attempt # 2 PROVE again \in TaskState
  <2> DEFINE n == task[p].attempt + 1
  <2>1. n \in 0..2
    BY <1>0, <1>1 DEF TaskState
  <2> HIDE DEF n
  <2>2. again = [task[p] EXCEPT !.pc = "ensure", !.want = "kid", !.attempt = n,
                                !.kid = None, !.found = None]
    BY DEF n
  <2> QED
    BY <1>0, <2>1, <2>2 DEF TaskState, PCs, Wants
<1>2. TaskSound(again)
  BY <1>0 DEF TaskSound, TaskState
<1>3. rec \in TaskState /\ TaskSound(rec)
  BY <1>0, <1>1, <1>2, IdleSound
<1>4. task' = [task EXCEPT ![p] = rec]
  BY DEF SignAgain
<1> HIDE DEF rec
<1> QED
  BY <1>3, <1>4, TaskReplaced DEF SignAgain

LEMMA SignFailsRing == ASSUME RingInv, NEW p \in Tasks, SignFails(p) PROVE RingInv'
<1>0. task[p] \in TaskState /\ TaskSound(task[p]) /\ TypeOK
  BY DEF RingInv, TypeOK, TasksSound
<1> DEFINE repair == [task[p] EXCEPT !.pc = "rotateRead", !.want = "resign",
                                     !.found = None, !.rotatedAt = now]
           rec == IF Development /\ task[p].want = "sign" THEN repair ELSE Idle
<1>1. repair \in TaskState
  BY <1>0 DEF TypeOK, TaskState, PCs, Wants
<1>2. TaskSound(repair)
  BY <1>0 DEF TypeOK, TaskSound, TaskState
<1>3. rec \in TaskState /\ TaskSound(rec)
  BY <1>0, <1>1, <1>2, IdleSound
<1>4. task' = [task EXCEPT ![p] = rec]
  BY DEF SignFails
<1> HIDE DEF rec
<1> QED
  BY <1>3, <1>4, TaskReplaced DEF SignFails

LEMMA EndRing == ASSUME RingInv, NEW p \in Tasks, Publish(p) \/ Abort(p) PROVE RingInv'
  BY IdleSound, TaskReplaced DEF Publish, Abort, RingInv

LEMMA RotateReadRing == ASSUME RingInv, NEW p \in Tasks, RotateRead(p) PROVE RingInv'
<1>0. task[p] \in TaskState /\ TaskSound(task[p]) /\ task \in [Tasks -> TaskState]
  BY DEF RingInv, TypeOK, TasksSound
<1> PICK k \in IF ActiveKeys = {} THEN {None} ELSE ActiveKeys :
         task' = [task EXCEPT ![p].pc = "rotateSave", ![p].found = k]
  BY DEF RotateRead
<1> DEFINE rec == [task[p] EXCEPT !.pc = "rotateSave", !.found = k]
<1>1. k = None \/ (k \in Keys /\ Active(k))
  BY DEF ActiveKeys
<1>2. rec \in TaskState
  BY <1>0, <1>1 DEF TaskState, PCs
<1>3. TaskSound(rec)
  BY <1>0, <1>1 DEF RotateRead, TaskSound, TaskState, Active
<1>4. task' = [task EXCEPT ![p] = rec]
  BY <1>0
<1> HIDE DEF rec
<1> QED
  BY <1>2, <1>3, <1>4, TaskReplaced DEF RotateRead

\* A signature: the token's kid is the key found, active when the token was issued
\* or demoted at most a rotation's length before.
LEMMA SignRing == ASSUME RingInv, NEW p \in Tasks, Sign(p) PROVE RingInv'
<1> DEFINE f == task[p].found
           t == [kid |-> task[p].kid, by |-> f, exp |-> task[p].issuedAt + AccessLifetime]
<1>0. task[p] \in TaskState /\ TaskSound(task[p]) /\ TypeOK
  BY DEF RingInv, TypeOK, TasksSound
<1>1. f \in Keys /\ t.kid = f
  BY <1>0 DEF Sign, SignerMatches, TaskSound, TaskState
<1>2. issued' = issued \cup {t}
  BY DEF Sign
<1>3. t \in Tokens
  BY <1>0, <1>1 DEF Tokens, TaskState
<1>4. TypeOK'
  BY <1>0, <1>2, <1>3, IdleSound DEF Sign, TypeOK, caches
<1>5. TokensSound'
  <2>1. /\ key[f].status # "unborn"
        /\ t.exp <= now + AccessLifetime
        /\ Demoting(f) => t.exp <= key[f].retiringAt + RotationTime + AccessLifetime
    BY <1>0, <1>1 DEF Sign, TaskSound, TypeOK, KeyRow, TaskState
  <2> HIDE DEF t
  <2>2. t.kid = t.by
    BY <1>1 DEF t
  <2> QED
    BY <1>1, <1>2, <2>1, <2>2 DEF Sign, RingInv, TokensSound, Demoting
<1>6. TasksSound'
  <2> SUFFICES ASSUME NEW q \in Tasks PROVE TaskSound(task[q])'
    BY DEF TasksSound
  <2>1. task'[q] = Idle \/ task'[q] = task[q]
    BY <1>0 DEF Sign, TypeOK
  <2> QED
    BY <1>0, <2>1, IdleSound DEF Sign, RingInv, TasksSound, TaskSound, Demoting
<1>7. RingHasOneActive' /\ GraceKept'
  BY DEF Sign, RingInv, RingHasOneActive, ActiveKeys, Active, GraceKept, Demoting
<1> QED
  BY <1>4, <1>5, <1>6, <1>7 DEF RingInv

----------------------------------------------------------------------------
(* Promotions: a key becomes active, and the one before it, if any, is     *)
(* demoted.                                                                *)

\* What a promotion does to the table.
LEMMA PromotionRows ==
  ASSUME RingInv, NEW old \in Keys \cup {None}, NEW new \in Keys, NEW at \in Time,
         key[new].status = "unborn", IndexAllows(old),
         old # None => key[old].status # "unborn",
         key' = Promoted(old, new, at)
  PROVE  /\ key' \in [Keys -> KeyRow]
         /\ ActiveKeys' = {new}
         /\ old \in Keys => /\ Active(old)
                            /\ key'[old].status = "Retiring"
                            /\ key'[old].retiringAt = at
         /\ \A k \in Keys \ {old, new} : key'[k] = key[k]
<1>0. key \in [Keys -> KeyRow] /\ old # new
  BY DEF RingInv, TypeOK
<1>1. old \in Keys => Active(old)
  BY DEF RingInv, RingHasOneActive, IndexAllows, ActiveKeys
<1>2. old \in Keys => Demoted(old, at) \in KeyRow
  BY <1>0 DEF Demoted, KeyRow, Statuses
<1>3. key' \in [Keys -> KeyRow]
  BY <1>0, <1>2, NewActiveTyped DEF Promoted
<1>4. key'[new] = NewActive /\ \A k \in Keys \ {old, new} : key'[k] = key[k]
  BY DEF Promoted
<1>5. old \in Keys => key'[old].status = "Retiring" /\ key'[old].retiringAt = at
  <2>1. ASSUME old \in Keys PROVE key'[old] = Demoted(old, at) /\ key[old] \in KeyRow
    BY <1>0, <2>1 DEF Promoted
  <2> QED
    BY <2>1 DEF Demoted, KeyRow
<1>6. ActiveKeys' = {new}
  BY <1>1, <1>4, <1>5 DEF ActiveKeys, Active, IndexAllows, NewActive
<1> QED
  BY <1>1, <1>3, <1>4, <1>5, <1>6

LEMMA Promotion ==
  ASSUME RingInv, NEW old \in Keys \cup {None}, NEW new \in Keys, NEW at \in Time,
         key[new].status = "unborn", IndexAllows(old),
         old # None => key[old].status # "unborn",
         key' = Promoted(old, new, at),
         at <= now, now <= at + RotationTime,
         NEW p \in Tasks, NEW rec \in TaskState, task' = [task EXCEPT ![p] = rec],
         rec.issuedAt <= now, rec.found \in {None, new}, rec.pc = "got" => rec.found = new,
         rec.pc \notin {"rotateRead", "rotateSave"},
         UNCHANGED <<now, retirer, caches, issued>>
  PROVE  RingInv'
<1>1. /\ key' \in [Keys -> KeyRow]
      /\ ActiveKeys' = {new}
      /\ old \in Keys => /\ Active(old)
                         /\ key'[old].status = "Retiring"
                         /\ key'[old].retiringAt = at
      /\ \A k \in Keys \ {old, new} : key'[k] = key[k]
  BY PromotionRows
<1>2. key'[new].status = "Active"
  BY <1>1 DEF ActiveKeys, Active
<1>3. TypeOK'
  BY <1>1 DEF RingInv, TypeOK, caches
<1>4. RingHasOneActive'
  BY <1>1 DEF RingHasOneActive
<1>5. TasksSound'
  <2> SUFFICES ASSUME NEW q \in Tasks PROVE TaskSound(task[q])'
    BY DEF TasksSound
  <2>1. CASE q = p
    <3>1. task'[q] = rec
      BY <2>1 DEF RingInv, TypeOK
    <3> QED
      BY <3>1, <1>2 DEF TaskSound, Demoting
  <2>2. CASE q # p
    <3>1. task'[q] = task[q] /\ task[q] \in TaskState /\ TaskSound(task[q])
      BY <2>2 DEF RingInv, TypeOK, TasksSound
    <3>2. task[q].found \in Keys \cup {None} /\ task[q].issuedAt \in Nat
      BY <3>1 DEF TaskState
    <3>3. now \in Nat /\ at \in Nat
      BY DEF RingInv, TypeOK
    <3> QED
      BY <1>1, <1>2, <3>1, <3>2, <3>3 DEF TaskSound, Demoting, Active
  <2> QED
    BY <2>1, <2>2
<1>6. GraceKept'
  <2>1. \A k \in Keys : key'[k].status = "Retired" => key'[k] = key[k]
    BY <1>1, <1>2
  <2>2. \A k \in Keys : Demoting(k) => key'[k] = key[k]
    BY <1>1 DEF Demoting, Active
  <2>3. \A i \in Instances : retirer[i].elapsed \subseteq Keys
    BY DEF RingInv, TypeOK, RetirerState
  <2> QED
    BY <2>1, <2>2, <2>3 DEF RingInv, GraceKept, Demoting
<1>7. TokensSound'
  <2> SUFFICES ASSUME NEW t \in issued
               PROVE  /\ t.kid = t.by
                      /\ key'[t.kid].status # "unborn"
                      /\ t.exp <= now + AccessLifetime
                      /\ Demoting(t.kid)'
                           => t.exp <= key'[t.kid].retiringAt + RotationTime + AccessLifetime
    BY DEF TokensSound, Demoting
  <2>1. t.kid \in Keys /\ t.exp \in Nat /\ now \in Nat /\ at \in Nat
    BY DEF RingInv, TypeOK, Tokens
  <2>2. /\ t.kid = t.by
        /\ key[t.kid].status # "unborn"
        /\ t.exp <= now + AccessLifetime
        /\ Demoting(t.kid) => t.exp <= key[t.kid].retiringAt + RotationTime + AccessLifetime
    BY DEF RingInv, TokensSound
  <2>3. CASE t.kid = old
    BY <1>1, <2>1, <2>2, <2>3
  <2>4. CASE t.kid # old
    BY <1>1, <1>2, <2>1, <2>2, <2>4 DEF Demoting
  <2> QED
    BY <2>3, <2>4
<1> QED
  BY <1>3, <1>4, <1>5, <1>6, <1>7 DEF RingInv

LEMMA CreateRing == ASSUME RingInv, NEW p \in Tasks, Create(p) PROVE RingInv'
<1>0. task[p] \in TaskState /\ TaskSound(task[p]) /\ TypeOK
  BY DEF RingInv, TypeOK, TasksSound
<1> PICK k \in Keys :
       /\ key[k].status = "unborn"
       /\ IF IndexAllows(k)
          THEN /\ key' = [key EXCEPT ![k] = NewActive]
               /\ task' = [task EXCEPT ![p].pc = "got", ![p].found = k]
          ELSE /\ task' = [task EXCEPT ![p].pc = "reread"]
               /\ UNCHANGED key
  BY DEF Create
<1>1. CASE IndexAllows(k)
  <2> DEFINE rec == [task[p] EXCEPT !.pc = "got", !.found = k]
  <2>1. rec \in TaskState
    BY <1>0 DEF TaskState, PCs
  <2>2. /\ rec.issuedAt <= now
        /\ rec.found = k
        /\ rec.pc = "got"
    BY <1>0 DEF TaskSound, TaskState
  <2>3. task' = [task EXCEPT ![p] = rec]
    BY <1>0, <1>1 DEF TypeOK
  <2>4. IndexAllows(None)
    BY <1>1 DEF IndexAllows, ActiveKeys, Active
  <2>5. key' = Promoted(None, k, now)
    BY <1>0, <1>1 DEF Promoted, TypeOK
  <2>6. now \in Time /\ now <= now /\ now <= now + RotationTime
    BY <1>0 DEF TypeOK
  <2> HIDE DEF rec
  <2> QED
    BY <2>1, <2>2, <2>3, <2>4, <2>5, <2>6, Promotion DEF Create
<1>2. CASE ~ IndexAllows(k)
  <2> DEFINE rec == [task[p] EXCEPT !.pc = "reread"]
  <2>1. rec \in TaskState /\ TaskSound(rec)
    BY <1>0 DEF TaskState, PCs, TaskSound, Demoting
  <2>2. task' = [task EXCEPT ![p] = rec]
    BY <1>0, <1>2 DEF TypeOK
  <2> HIDE DEF rec
  <2> QED
    BY <1>2, <2>1, <2>2, TaskReplaced DEF Create
<1> QED
  BY <1>1, <1>2

LEMMA RotateSaveRing == ASSUME RingInv, NEW p \in Tasks, RotateSave(p) PROVE RingInv'
<1> DEFINE r == task[p]
           rec == IF r.want = "rotate" THEN Idle
                  ELSE [r EXCEPT !.pc = "ensure", !.found = None]
<1>0. r \in TaskState /\ TaskSound(r) /\ TypeOK
  BY DEF RingInv, TypeOK, TasksSound
<1>1. PICK k \in Keys :
       /\ key[k].status = "unborn"
       /\ IF IndexAllows(r.found)
          THEN key' = Promoted(r.found, k, r.rotatedAt) /\ task' = [task EXCEPT ![p] = rec]
          ELSE task' = [task EXCEPT ![p] = Idle] /\ UNCHANGED key
  BY DEF RotateSave
<1>2. CASE IndexAllows(r.found)
  <2>1. rec \in TaskState
    BY <1>0, IdleSound DEF TaskState, PCs
  <2>2. /\ rec.issuedAt <= now
        /\ rec.found = None
        /\ rec.pc \in {"idle", "ensure"}
    BY <1>0 DEF TaskSound, TaskState, Idle, TypeOK
  <2>3. r.found \in Keys \cup {None} /\ r.rotatedAt \in Time
    BY <1>0 DEF TaskState
  <2>4. /\ r.found # None => key[r.found].status # "unborn"
        /\ r.rotatedAt <= now
        /\ now <= r.rotatedAt + RotationTime
    BY <1>0 DEF RotateSave, TaskSound
  <2>5. UNCHANGED <<now, retirer, caches, issued>>
    BY DEF RotateSave
  <2> HIDE DEF r, rec
  <2> QED
    BY <1>1, <1>2, <2>1, <2>2, <2>3, <2>4, <2>5, Promotion
<1>3. CASE ~ IndexAllows(r.found)
  BY <1>0, <1>1, <1>3, IdleSound, TaskReplaced DEF RotateSave
<1> QED
  BY <1>2, <1>3

----------------------------------------------------------------------------
(* Retirement, resolution and time.                                        *)

LEMMA RetireReadRing == ASSUME RingInv, NEW i \in Instances, RetireRead(i) PROVE RingInv'
<1> DEFINE run == [pc |-> "save", elapsed |-> Elapsed]
<1>0. run \in RetirerState
  BY DEF RetirerState, Elapsed
<1>1. TypeOK'
  BY <1>0 DEF RetireRead, RingInv, TypeOK, caches
<1>2. GraceKept'
  <2>1. \A k \in Elapsed : Demoting(k) /\ key[k].retiringAt + Grace <= now
    BY DEF RingInv, TypeOK, KeyRow, Elapsed, Demoting
  <2>2. \A j \in Instances : retirer'[j] = run \/ retirer'[j] = retirer[j]
    BY DEF RetireRead, RingInv, TypeOK
  <2> QED
    BY <2>1, <2>2 DEF RetireRead, RingInv, GraceKept, Demoting
<1>3. RingHasOneActive' /\ TasksSound' /\ TokensSound'
  BY DEF RetireRead, RingInv, RingHasOneActive, ActiveKeys, Active, TasksSound, TaskSound,
         TokensSound, Demoting
<1> QED
  BY <1>1, <1>2, <1>3 DEF RingInv

\* A run of the sweep only forgets keys.
LEMMA RetirerShrinks ==
  ASSUME RingInv, NEW i \in Instances, NEW run \in RetirerState,
         run.elapsed \subseteq retirer[i].elapsed,
         retirer' = [retirer EXCEPT ![i] = run],
         UNCHANGED <<now, key, task, issued>>,
         local' \in [Instances -> SUBSET Keys], shared' \in SUBSET Keys,
         fetched' \in [Instances -> SUBSET Keys]
  PROVE  RingInv'
<1>1. TypeOK'
  BY DEF RingInv, TypeOK
<1>2. \A j \in Instances : retirer'[j].elapsed \subseteq retirer[j].elapsed
  BY DEF RingInv, TypeOK
<1>3. GraceKept'
  BY <1>2 DEF RingInv, GraceKept, Demoting
<1>4. RingHasOneActive' /\ TasksSound' /\ TokensSound'
  BY DEF RingInv, RingHasOneActive, ActiveKeys, Active, TasksSound, TaskSound,
         TokensSound, Demoting
<1> QED
  BY <1>1, <1>3, <1>4 DEF RingInv

LEMMA RetireRemoveRing == ASSUME RingInv, NEW i \in Instances, RetireRemove(i) PROVE RingInv'
<1> PICK k \in retirer[i].elapsed :
       /\ local' = [local EXCEPT ![i] = local[i] \ {k}]
       /\ shared' = shared \ {k}
       /\ retirer' = [retirer EXCEPT ![i] =
                        IF retirer[i].elapsed = {k} THEN Resting
                        ELSE [retirer[i] EXCEPT !.elapsed = retirer[i].elapsed \ {k}]]
  BY DEF RetireRemove
<1> DEFINE run == IF retirer[i].elapsed = {k} THEN Resting
                  ELSE [retirer[i] EXCEPT !.elapsed = retirer[i].elapsed \ {k}]
<1>1. retirer[i] \in RetirerState
  BY DEF RingInv, TypeOK
<1>2. run \in RetirerState /\ run.elapsed \subseteq retirer[i].elapsed
  BY <1>1 DEF RetirerState, Resting
<1>3. /\ local' \in [Instances -> SUBSET Keys]
      /\ shared' \in SUBSET Keys
      /\ fetched' \in [Instances -> SUBSET Keys]
      /\ UNCHANGED <<now, key, task, issued>>
  BY DEF RetireRemove, RingInv, TypeOK
<1> HIDE DEF run
<1>4. retirer' = [retirer EXCEPT ![i] = run]
  BY DEF run
<1> QED
  BY <1>2, <1>3, <1>4, RetirerShrinks

LEMMA RetireFailsRing == ASSUME RingInv, NEW i \in Instances, RetireFails(i) PROVE RingInv'
<1>1. Resting \in RetirerState /\ Resting.elapsed \subseteq retirer[i].elapsed
  BY DEF Resting, RetirerState
<1> QED
  BY <1>1, RetirerShrinks DEF RetireFails, caches, RingInv, TypeOK

\* The save touches keys past their grace period only, which were demoted.
LEMMA RetireSaveRing == ASSUME RingInv, NEW i \in Instances, RetireSave(i) PROVE RingInv'
<1> DEFINE gone == retirer[i].elapsed
<1>0. TypeOK /\ retirer[i] \in RetirerState /\ gone \subseteq Keys
  BY DEF RingInv, TypeOK, RetirerState
<1>1. \A k \in gone : Demoting(k) /\ key[k].retiringAt + Grace <= now
  BY DEF RingInv, GraceKept
<1>2. key' = [k \in Keys |-> IF k \in gone THEN [key[k] EXCEPT !.status = "Retired"]
                             ELSE key[k]]
  BY DEF RetireSave
<1> HIDE DEF gone
<1>3. key' \in [Keys -> KeyRow]
  <2>1. \A k \in Keys : key[k] \in KeyRow
    BY <1>0 DEF TypeOK
  <2>2. \A k \in Keys : [key[k] EXCEPT !.status = "Retired"] \in KeyRow
    BY <2>1, RowTyped DEF Statuses
  <2> QED
    BY <1>2, <2>1, <2>2
<1>4. \A k \in gone : key'[k].status = "Retired" /\ key'[k].retiringAt = key[k].retiringAt
  BY <1>0, <1>2 DEF TypeOK, KeyRow
<1>5. \A k \in Keys \ gone : key'[k] = key[k]
  BY <1>2
<1>6. retirer' \in [Instances -> RetirerState] /\ \A j \in Instances :
        retirer'[j].elapsed = retirer[j].elapsed
  BY <1>0 DEF RetireSave, TypeOK, RetirerState
<1>7. TypeOK'
  BY <1>0, <1>3, <1>6 DEF RetireSave, TypeOK, caches
<1>8. RingHasOneActive'
  <2>1. ActiveKeys' = ActiveKeys
    BY <1>0, <1>1, <1>4, <1>5 DEF ActiveKeys, Active, Demoting
  <2>2. \A k \in Keys : key'[k].status # "unborn" => key[k].status # "unborn"
    BY <1>1, <1>5 DEF Demoting
  <2> QED
    BY <2>1, <2>2 DEF RingInv, RingHasOneActive
<1>9. \A k \in Keys : /\ (Demoting(k))' <=> Demoting(k)
                      /\ key'[k].retiringAt = key[k].retiringAt
                      /\ key[k].status # "unborn" => key'[k].status # "unborn"
  BY <1>1, <1>4, <1>5 DEF Demoting
<1>10. TasksSound'
  <2> SUFFICES ASSUME NEW q \in Tasks PROVE TaskSound(task[q])'
    BY DEF TasksSound
  <2>1. task[q].found \in Keys \cup {None} /\ TaskSound(task[q])
    BY <1>0 DEF RingInv, TasksSound, TypeOK, TaskState
  <2> QED
    BY <1>9, <2>1 DEF RetireSave, TaskSound
<1>11. GraceKept'
  <2>1. \A j \in Instances : retirer[j].elapsed \subseteq Keys
    BY <1>0 DEF TypeOK, RetirerState
  <2>2. \A k \in Keys : key'[k].status = "Retired" => key'[k].retiringAt + Grace <= now
    BY <1>1, <1>4, <1>5 DEF RingInv, GraceKept
  <2>3. now' = now
    BY DEF RetireSave
  <2> QED
    BY <1>6, <1>9, <2>1, <2>2, <2>3 DEF RingInv, GraceKept
<1>12. TokensSound'
  <2>1. \A t \in issued : t.kid \in Keys
    BY <1>0 DEF TypeOK, Tokens
  <2> QED
    BY <1>9, <2>1 DEF RetireSave, RingInv, TokensSound
<1> QED
  BY <1>7, <1>8, <1>10, <1>11, <1>12 DEF RingInv

\* The caches are read by none of the other parts.
LEMMA ResolveRing ==
  ASSUME RingInv, NEW i \in Instances, NEW k \in Keys, Resolve(i, k)
  PROVE  RingInv'
<1>1. UNCHANGED <<now, key, task, retirer, issued>>
  BY DEF Resolve, ResolveRead, ResolveStore, ResolveShared, LocalExpires
<1>2. TypeOK'
  BY <1>1 DEF RingInv, TypeOK, Resolve, ResolveRead, ResolveStore, ResolveShared, LocalExpires
<1>3. RingHasOneActive' /\ TasksSound' /\ GraceKept' /\ TokensSound'
  BY <1>1 DEF RingInv, RingHasOneActive, ActiveKeys, Active, TasksSound, TaskSound,
              GraceKept, TokensSound, Demoting
<1> QED
  BY <1>2, <1>3 DEF RingInv

LEMMA SharedExpiresRing ==
  ASSUME RingInv, NEW k \in Keys, SharedExpires(k)
  PROVE  RingInv'
<1>1. UNCHANGED <<now, key, task, retirer, local, fetched, issued>> /\ shared' \subseteq shared
  BY DEF SharedExpires
<1>2. TypeOK'
  BY <1>1 DEF RingInv, TypeOK
<1>3. RingHasOneActive' /\ TasksSound' /\ GraceKept' /\ TokensSound'
  BY <1>1 DEF RingInv, RingHasOneActive, ActiveKeys, Active, TasksSound, TaskSound,
              GraceKept, TokensSound, Demoting
<1> QED
  BY <1>2, <1>3 DEF RingInv

LEMMA TickRing == ASSUME RingInv, Tick PROVE RingInv'
<1>0. TypeOK /\ now' = now + 1 /\ now \in Nat /\ issued' \subseteq issued
  BY DEF Tick, RingInv, TypeOK
<1>1. TypeOK'
  BY <1>0 DEF Tick, TypeOK, caches
<1>2. TasksSound'
  <2> SUFFICES ASSUME NEW q \in Tasks PROVE TaskSound(task[q])'
    BY DEF TasksSound
  <2>1. task[q] \in TaskState /\ TaskSound(task[q])
    BY <1>0 DEF RingInv, TasksSound, TypeOK
  <2>2. task[q].issuedAt \in Nat /\ task[q].rotatedAt \in Nat
    BY <2>1 DEF TaskState
  <2>3. UNCHANGED <<key, task>>
    BY DEF Tick
  <2>4. task[q].pc \in {"rotateRead", "rotateSave"} => now < task[q].rotatedAt + RotationTime
    BY DEF Tick
  <2> QED
    BY <1>0, <2>1, <2>2, <2>3, <2>4 DEF TaskSound, Demoting
<1>3. GraceKept'
  <2>1. \A k \in Keys : key[k].retiringAt \in Nat
    BY <1>0 DEF TypeOK, KeyRow
  <2>2. \A i \in Instances : retirer[i].elapsed \subseteq Keys
    BY <1>0 DEF TypeOK, RetirerState
  <2>3. UNCHANGED <<key, retirer>>
    BY DEF Tick
  <2> QED
    BY <1>0, <2>1, <2>2, <2>3 DEF RingInv, GraceKept, Demoting
<1>4. TokensSound'
  <2>1. \A t \in issued : t.exp \in Nat
    BY <1>0 DEF TypeOK, Tokens
  <2> QED
    BY <1>0, <2>1 DEF Tick, RingInv, TokensSound, Demoting
<1>5. RingHasOneActive'
  BY DEF Tick, RingInv, RingHasOneActive, ActiveKeys, Active
<1> QED
  BY <1>1, <1>2, <1>3, <1>4, <1>5 DEF RingInv

LEMMA NextRing == ASSUME RingInv, [Next]_vars PROVE RingInv'
<1>1. ASSUME NEW p \in Tasks, Step(p) PROVE RingInv'
  BY <1>1, BeginRing, EnsureRing, CreateRing, RereadRing, GotKidRing, SignRing, SignAgainRing,
     SignFailsRing, EndRing, RotateReadRing, RotateSaveRing DEF Step
<1>2. ASSUME NEW i \in Instances, Retire(i) PROVE RingInv'
  BY <1>2, RetireReadRing, RetireSaveRing, RetireRemoveRing, RetireFailsRing DEF Retire
<1>3. ASSUME NEW i \in Instances, NEW k \in Keys, Resolve(i, k) PROVE RingInv'
  BY <1>3, ResolveRing
<1>4. ASSUME NEW k \in Keys, SharedExpires(k) PROVE RingInv'
  BY <1>4, SharedExpiresRing
<1>5. ASSUME UNCHANGED vars PROVE RingInv'
  BY <1>5 DEF vars, RingInv, TypeOK, RingHasOneActive, ActiveKeys, Active, TasksSound,
              TaskSound, GraceKept, TokensSound, Demoting
<1> QED
  BY <1>1, <1>2, <1>3, <1>4, <1>5, TickRing DEF Next

----------------------------------------------------------------------------
\* The invariant: types, one active key, and the timing of demotions, retirements
\* and tokens.
THEOREM RingAlways == Spec => []RingInv
<1> QED
  BY InitRing, NextRing, PTL DEF Spec

\* Every reachable state of the ring is well typed; in particular an issuance makes
\* three attempts at most.
THEOREM RingTyped == Spec => []TypeOK
<1>1. RingInv => TypeOK
  BY DEF RingInv
<1> QED
  BY <1>1, RingAlways, PTL

\* Exactly one key is active once there is a key, for any number of tasks racing to
\* bootstrap, rotate and repair: the partial unique index suffices.
THEOREM OneActiveKey == Spec => []RingHasOneActive
<1>1. RingInv => RingHasOneActive
  BY DEF RingInv
<1> QED
  BY <1>1, RingAlways, PTL

\* A token's header names the key that signed it.
THEOREM HeaderNamesSigner == Spec => []KidNamesSigner
<1>1. RingInv => KidNamesSigner
  BY DEF RingInv, TokensSound, KidNamesSigner
<1> QED
  BY <1>1, RingAlways, PTL

\* The grace period also covers the time a rotation takes to commit.
GraceCovers == Grace > AccessLifetime + ClockSkew + RotationTime

\* With such a grace period no key is retired under a token still within its
\* lifetime: its kid stays published and resolvable.
THEOREM LiveTokensVerify ==
  ASSUME GraceCovers
  PROVE  Spec => []LiveTokensResolve
<1>1. ASSUME RingInv PROVE LiveTokensResolve
  <2> SUFFICES ASSUME NEW t \in issued, Unexpired(t, now) PROVE Publishable(t.kid)
    BY <1>1 DEF LiveTokensResolve, Published, RingInv, TypeOK, Tokens
  <2>1. /\ t.kid \in Keys /\ t.exp \in Nat /\ now \in Nat
        /\ key[t.kid].retiringAt \in Nat /\ key[t.kid].status \in Statuses
    BY <1>1 DEF RingInv, TypeOK, Tokens, KeyRow
  <2>2. key[t.kid].status # "unborn"
    BY <1>1 DEF RingInv, TokensSound
  <2>3. ASSUME key[t.kid].status = "Retired" PROVE FALSE
    <3>1. t.exp <= key[t.kid].retiringAt + RotationTime + AccessLifetime
      BY <1>1, <2>3 DEF RingInv, TokensSound, Demoting
    <3>2. key[t.kid].retiringAt + Grace <= now
      BY <1>1, <2>1, <2>3 DEF RingInv, GraceKept
    <3>3. t.exp >= now - ClockSkew
      BY DEF Unexpired
    <3> QED
      BY <1>1, <2>1, <3>1, <3>2, <3>3 DEF GraceCovers
  <2> QED
    BY <2>1, <2>2, <2>3 DEF Publishable, Statuses
<1> QED
  BY <1>1, RingAlways, PTL

\* Keys only move forward, and the start of a grace period is never moved: what a
\* rotation or a sweep read before its write is still so, or the write is refused.
THEOREM KeysForward == Spec => KeysMoveForward
<1> DEFINE Forward ==
      \A k \in Keys :
        /\ Active(k) => key'[k].status \in {"Active", "Retiring"}
        /\ key[k].status = "Retiring" =>
             /\ key'[k].status \in {"Retiring", "Retired"}
             /\ key'[k].retiringAt = key[k].retiringAt
        /\ key[k].status = "Retired" => key'[k] = key[k]
<1>1. ASSUME RingInv, [Next]_vars PROVE Forward
  <2>1. ASSUME UNCHANGED key PROVE Forward
    BY <2>1 DEF Active
  <2>2. ASSUME NEW p \in Tasks, Create(p) PROVE Forward
    <3>1. PICK k \in Keys : key[k].status = "unborn" /\ key' \in {key, [key EXCEPT ![k] = NewActive]}
      BY <2>2 DEF Create
    <3> QED
      BY <1>1, <3>1 DEF RingInv, TypeOK, Active
  <2>3. ASSUME NEW p \in Tasks, RotateSave(p) PROVE Forward
    <3> DEFINE old == task[p].found
               at == task[p].rotatedAt
    <3>0. task[p] \in TaskState /\ TaskSound(task[p])
      BY <1>1 DEF RingInv, TypeOK, TasksSound
    <3>1. old \in Keys \cup {None} /\ at \in Time /\ (old # None => key[old].status # "unborn")
      BY <3>0 DEF TaskState, TaskSound
    <3>2. CASE UNCHANGED key
      BY <2>1, <3>2
    <3>3. CASE \E k \in Keys : /\ key[k].status = "unborn"
                               /\ IndexAllows(old)
                               /\ key' = Promoted(old, k, at)
      <4> PICK k \in Keys : /\ key[k].status = "unborn"
                            /\ IndexAllows(old)
                            /\ key' = Promoted(old, k, at)
        BY <3>3
      <4>1. /\ old \in Keys => Active(old) /\ key'[old].status = "Retiring"
            /\ \A l \in Keys \ {old, k} : key'[l] = key[l]
        BY <1>1, <3>1, PromotionRows
      <4> QED
        BY <4>1 DEF Active
    <3> QED
      BY <2>3, <3>2, <3>3 DEF RotateSave
  <2>4. ASSUME NEW i \in Instances, RetireSave(i) PROVE Forward
    <3>1. \A k \in retirer[i].elapsed : key[k].status \in {"Retiring", "Retired"}
      BY <1>1 DEF RingInv, GraceKept, Demoting
    <3>2. \A k \in Keys : key[k] \in KeyRow
      BY <1>1 DEF RingInv, TypeOK
    <3>3. ASSUME NEW k \in Keys
          PROVE  /\ [key[k] EXCEPT !.status = "Retired"].status = "Retired"
                 /\ [key[k] EXCEPT !.status = "Retired"].retiringAt = key[k].retiringAt
                 /\ key[k].status = "Retired" => [key[k] EXCEPT !.status = "Retired"] = key[k]
      BY <3>2 DEF KeyRow
    <3> QED
      BY <2>4, <3>1, <3>3 DEF RetireSave, Active
  <2> QED
    BY <1>1, <2>1, <2>2, <2>3, <2>4
    DEF Next, vars, Step, Retire, Resolve, Issue, Jwks, Rotate, Ensure, Reread, GotKid, Sign,
        SignAgain, SignFails, Publish, RotateRead, Abort, RetireRead, RetireRemove,
        RetireFails, ResolveRead, ResolveStore, ResolveShared, LocalExpires, SharedExpires, Tick
<1>2. RingInv /\ [Next]_vars => [Forward]_vars
  BY <1>1
<1> QED
  BY <1>2, RingAlways, PTL DEF Spec, KeysMoveForward

\* A key that is gone: retired, in no cache, and read by no resolution in flight.
Gone(k) ==
  /\ key[k].status = "Retired"
  /\ k \notin shared
  /\ \A i \in Instances : k \notin local[i] /\ k \notin fetched[i]

\* A resolution brings no retired key into a cache it was not on its way to:
\* ResolveRead reads publishable rows only, and the caches fill from what was
\* read or from each other.
LEMMA ResolveKeepsGone ==
  ASSUME TypeOK, NEW i \in Instances, NEW l \in Keys, Resolve(i, l),
         NEW k \in Keys, Gone(k)
  PROVE  /\ k \notin shared'
         /\ \A j \in Instances : k \notin local'[j] /\ k \notin fetched'[j]
<1>1. /\ local \in [Instances -> SUBSET Keys]
      /\ fetched \in [Instances -> SUBSET Keys]
  BY DEF TypeOK
<1>2. /\ key[k].status = "Retired" /\ k \notin shared
      /\ \A j \in Instances : k \notin local[j] /\ k \notin fetched[j]
  BY DEF Gone
<1>3. CASE ResolveRead(i, l)
  <2>1. k # l
    BY <1>2, <1>3 DEF ResolveRead, Publishable
  <2> QED
    BY <1>1, <1>2, <1>3, <2>1 DEF ResolveRead
<1>4. CASE ResolveStore(i, l)
  <2>1. k # l
    BY <1>2, <1>4 DEF ResolveStore
  <2> QED
    BY <1>1, <1>2, <1>4, <2>1 DEF ResolveStore
<1>5. CASE ResolveShared(i, l)
  <2>1. k # l
    BY <1>2, <1>5 DEF ResolveShared
  <2> QED
    BY <1>1, <1>2, <1>5, <2>1 DEF ResolveShared
<1>6. CASE LocalExpires(i, l)
  BY <1>1, <1>2, <1>6 DEF LocalExpires
<1> QED
  BY <1>3, <1>4, <1>5, <1>6 DEF Resolve

\* Every other step leaves the caches alone or takes keys out of them.
LEMMA OthersKeepGone ==
  ASSUME TypeOK, [Next]_vars,
         ~ \E i \in Instances, l \in Keys : Resolve(i, l),
         NEW k \in Keys, Gone(k)
  PROVE  /\ k \notin shared'
         /\ \A j \in Instances : k \notin local'[j] /\ k \notin fetched'[j]
<1>1. local \in [Instances -> SUBSET Keys]
  BY DEF TypeOK
<1>2. /\ k \notin shared
      /\ \A j \in Instances : k \notin local[j] /\ k \notin fetched[j]
  BY DEF Gone
<1>3. CASE UNCHANGED caches
  BY <1>2, <1>3 DEF caches
<1>4. ASSUME NEW i \in Instances, RetireRemove(i)
      PROVE  /\ k \notin shared'
             /\ \A j \in Instances : k \notin local'[j] /\ k \notin fetched'[j]
  BY <1>1, <1>2, <1>4 DEF RetireRemove
<1>5. ASSUME NEW l \in Keys, SharedExpires(l)
      PROVE  /\ k \notin shared'
             /\ \A j \in Instances : k \notin local'[j] /\ k \notin fetched'[j]
  BY <1>2, <1>5 DEF SharedExpires
<1>6. ASSUME NEW p \in Tasks, Step(p) PROVE UNCHANGED caches
  BY <1>6 DEF Step, caches, Issue, Jwks, Rotate, Ensure, Create, Reread, GotKid, Sign,
              SignAgain, SignFails, Publish, RotateRead, RotateSave, Abort
<1>7. ASSUME NEW i \in Instances, Retire(i), ~ RetireRemove(i) PROVE UNCHANGED caches
  BY <1>7 DEF Retire, caches, RetireRead, RetireSave, RetireFails
<1>8. ASSUME Tick \/ UNCHANGED vars PROVE UNCHANGED caches
  BY <1>8 DEF Tick, vars, caches
<1> QED
  BY <1>3, <1>4, <1>5, <1>6, <1>7, <1>8 DEF Next

\* What ElapsedKeysRejected calls "for good", for any number of instances and of
\* sweeps, resolutions and rotations in flight: once a key is retired, out of every
\* cache and read by no resolution still to store it, no step brings it back.
THEOREM GoneForGood == Spec => [][\A k \in Keys : Gone(k) => Gone(k)']_vars
<1> DEFINE Stays == \A k \in Keys : Gone(k) => Gone(k)'
           Forward ==
             \A k \in Keys :
               /\ Active(k) => key'[k].status \in {"Active", "Retiring"}
               /\ key[k].status = "Retiring" =>
                    /\ key'[k].status \in {"Retiring", "Retired"}
                    /\ key'[k].retiringAt = key[k].retiringAt
               /\ key[k].status = "Retired" => key'[k] = key[k]
<1>1. ASSUME RingInv, [Next]_vars, [Forward]_vars PROVE [Stays]_vars
  <2> SUFFICES ASSUME NEW k \in Keys, Gone(k), ~ UNCHANGED vars PROVE Gone(k)'
    OBVIOUS
  <2>1. TypeOK
    BY <1>1 DEF RingInv
  <2>2. key'[k].status = "Retired"
    BY <1>1 DEF Gone
  <2>3. /\ k \notin shared'
        /\ \A j \in Instances : k \notin local'[j] /\ k \notin fetched'[j]
    BY <1>1, <2>1, ResolveKeepsGone, OthersKeepGone
  <2> QED
    BY <2>2, <2>3 DEF Gone
<1>2. RingInv /\ [Next]_vars /\ [Forward]_vars => [Stays]_vars
  BY <1>1
<1> QED
  BY <1>2, RingAlways, KeysForward, PTL DEF Spec, KeysMoveForward
=============================================================================
