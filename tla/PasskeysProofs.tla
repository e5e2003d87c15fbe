---- MODULE PasskeysProofs ----
(***************************************************************************)
(* The passkey ceremonies: the challenge of a ceremony reaches only its    *)
(* own completion, and a key only the user its options were made for.      *)
(***************************************************************************)
EXTENDS Passkeys, TLAPS

Users == Owners \union {NoOwner}
Stages == {"none", "sent", "consumed", "read", "saved", "done", "refused"}
Phases == {"unused", "asked", "prompt", "completing", "done"}

\* What the completion of ceremony c carries for key k with count n.
JsonOf(kind, c, k, n) ==
  credentialToJson([kind |-> kind, rawId |-> Bytes(<<k>>), clientDataJSON |-> Bytes(<<c>>),
                    answer |-> Bytes(<<k, n>>)])
Jsons == {<< >>} \union
  {JsonOf(kind, c, k, n) : kind \in {"attestation", "assertion"}, c \in Ceremonies,
                           k \in Keys, n \in Nat}
AllOptions == {<< >>} \union {OptionsFor(c, u) : c \in Ceremonies, u \in Users}

CeremonyType == [kind : Kinds, phase : Phases, aborted : BOOLEAN, caller : Users,
                 options : AllOptions]
CompletionType == [stage : Stages, caller : Users, key : Keys, count : Nat, seen : Nat,
                   json : Jsons, retried : BOOLEAN]
KeyType == [owner : Users, count : Nat]
ChallengeType == [kind : Kinds, user : Users, usable : BOOLEAN]

Typed ==
  /\ ceremonies \in [Ceremonies -> CeremonyType]
  /\ completions \in [Ceremonies -> CompletionType]
  /\ wallet \in [Keys -> KeyType] /\ passkeys \in [Keys -> KeyType]
  /\ challenges \in [Ceremonies -> ChallengeType]
  /\ sessionsOf \in [Ceremonies -> 0..1]
  /\ signedIn \in Users /\ begunCeremonies \in 0..MaxCeremonies

\* A number above those begun is unused.
Fresh == \A c \in Ceremonies : c > begunCeremonies => ceremonies[c].phase = "unused"

\* Before the options there is no challenge, before the prompt ends no key.
Untouched(c) ==
  /\ ceremonies[c].phase \in {"unused", "asked"} => ~challenges[c].usable /\ sessionsOf[c] = 0
  /\ ceremonies[c].phase \in {"unused", "asked", "prompt"} =>
       wallet[c] = NoKey /\ passkeys[c] = NoKey /\ completions[c].stage = "none"

\* The prompt shows the options the challenge was stored with.
Prompted(c) ==
  ceremonies[c].phase = "prompt" =>
    \E u \in Users :
      /\ ceremonies[c].options = OptionsFor(c, u)
      /\ challenges[c].user = u
      /\ challenges[c].kind = ceremonies[c].kind
      /\ ceremonies[c].kind = "register" => u # NoOwner
      /\ sessionsOf[c] = 0

\* A completion carries its own challenge; an attestation also its own key.
Carries(c) ==
  (completions[c].stage # "none" /\ completions[c] # Closed) =>
    \E kind \in {"attestation", "assertion"} :
      /\ completions[c].json = JsonOf(kind, c, completions[c].key, completions[c].count)
      /\ kind = "attestation" => completions[c].key = c /\ wallet[c].owner # NoOwner

\* A challenge is spent once: where a completion is past it, or opened its session, it is
\* not usable again.
SpentOnce(c) ==
  /\ completions[c].stage \in {"consumed", "read", "saved"} =>
       ~challenges[c].usable /\ sessionsOf[c] = 0
  /\ sessionsOf[c] # 0 => ~challenges[c].usable

\* The key made in ceremony c and the passkey to be stored are of the challenge's user.
KeyOfUser(c) ==
  /\ (challenges[c].usable /\ challenges[c].kind = "register" /\ wallet[c].owner # NoOwner) =>
       wallet[c].owner = challenges[c].user
  /\ (completions[c].stage = "consumed" /\ IsRegistration(completions[c])) =>
       completions[c].caller = wallet[c].owner

Stored == \A k \in Keys : passkeys[k].owner # NoOwner => passkeys[k].owner = wallet[k].owner

Nobodys == \A k \in Keys : /\ wallet[k].owner = NoOwner => wallet[k] = NoKey
                           /\ passkeys[k].owner = NoOwner => passkeys[k] = NoKey

PerCeremony(c) == Untouched(c) /\ Prompted(c) /\ Carries(c) /\ SpentOnce(c) /\ KeyOfUser(c)

PasskeysInv ==
  /\ Typed /\ Fresh /\ Stored /\ Nobodys
  /\ \A c \in Ceremonies : PerCeremony(c)

(***************************************************************************)
(* Numbers survive the text they travel in.                                *)
(***************************************************************************)
\* The key and the challenge are read back from the JSON, and its kind is visible.
LEMMA JsonRead ==
  ASSUME NEW kind \in {"attestation", "assertion"}, NEW c \in Ceremonies, NEW k \in Keys, NEW n \in Nat,
         NEW completion, completion.json = JsonOf(kind, c, k, n)
  PROVE  /\ ExtractChallenge(completion) = c
         /\ RawCredentialId(completion) = k
         /\ IsRegistration(completion) <=> kind = "attestation"
<1> DEFINE j == JsonOf(kind, c, k, n)
<1>1. j.rawId = Text(bytesToBase64Url(<<k>>))
  BY DEF JsonOf, credentialToJson, AsText, Bytes, Text
<1>2. j.response =
        IF kind = "attestation"
        THEN [clientDataJSON |-> Text(bytesToBase64Url(<<c>>)),
              attestationObject |-> Text(bytesToBase64Url(<<k, n>>))]
        ELSE [clientDataJSON |-> Text(bytesToBase64Url(<<c>>)),
              signature |-> Text(bytesToBase64Url(<<k, n>>))]
  BY DEF JsonOf, credentialToJson, AsText, Bytes
<1>3. /\ j.response.clientDataJSON = Text(bytesToBase64Url(<<c>>))
      /\ "attestationObject" \in DOMAIN j.response <=> kind = "attestation"
  <2>1. CASE kind = "attestation"
    BY <1>2, <2>1
  <2>2. CASE kind = "assertion"
    BY <1>2, <2>2
  <2>3. QED
    BY <2>1, <2>2
<1>4. c \in 0..255 /\ k \in 0..255
  BY PasskeysAssumption DEF Ceremonies, Keys
<1>5. /\ base64UrlToBytes(bytesToBase64Url(<<c>>)) = <<c>>
      /\ base64UrlToBytes(bytesToBase64Url(<<k>>)) = <<k>>
  BY <1>4, OneByteRoundTrip
<1>6. completion.json = j
  OBVIOUS
<1>7. ExtractChallenge(completion) = c
  BY <1>3, <1>5, <1>6 DEF ExtractChallenge, Text
<1>8. RawCredentialId(completion) = k
  BY <1>1, <1>5, <1>6 DEF RawCredentialId, Text
<1>9. QED
  BY <1>3, <1>6, <1>7, <1>8 DEF IsRegistration

\* The browser decodes the options to the challenge and the user they were made for.
LEMMA OptionsRead ==
  ASSUME NEW c \in Ceremonies, NEW u \in Users
  PROVE  /\ decodeCreationOptions(OptionsFor(c, u)).challenge = Bytes(<<c>>)
         /\ decodeCreationOptions(OptionsFor(c, u)).user.of[1] = u
         /\ decodeRequestOptions(OptionsFor(c, u)).challenge = Bytes(<<c>>)
<1>1. c \in 0..255 /\ u \in 0..255
  BY PasskeysAssumption DEF Ceremonies, Users, NoOwner
<1>2. /\ base64UrlToBytes(bytesToBase64Url(<<c>>)) = <<c>>
      /\ base64UrlToBytes(bytesToBase64Url(<<u>>)) = <<u>>
  BY <1>1, OneByteRoundTrip
<1>3. /\ AsBytes(Text(bytesToBase64Url(<<c>>))) = Bytes(<<c>>)
      /\ AsBytes(Text(bytesToBase64Url(<<u>>))) = Bytes(<<u>>)
  BY <1>2 DEF AsBytes, Text, Bytes
<1>4. Bytes(<<u>>).of[1] = u
  BY DEF Bytes
<1>5. QED
  BY <1>3, <1>4 DEF decodeCreationOptions, decodeRequestOptions, OptionsFor, Challenge

(***************************************************************************)
(* Records.                                                                *)
(***************************************************************************)
\* A record may hold neither options nor JSON.
LEMMA Empty == << >> \in AllOptions /\ << >> \in Jsons
  BY DEF AllOptions, Jsons

\* The records a ceremony and a completion start from.
LEMMA Blank == Unused \in CeremonyType /\ NoCompletion \in CompletionType
  BY Empty, PasskeysAssumption DEF Unused, CeremonyType, Kinds, Phases, Users, NoCompletion,
     CompletionType, Stages, Keys

\* Setting the stage of a completion changes nothing else of it.
LEMMA StageSet ==
  ASSUME NEW r \in CompletionType, NEW s \in Stages
  PROVE  LET q == [r EXCEPT !.stage = s]
         IN /\ q \in CompletionType /\ q.stage = s /\ q.json = r.json /\ q.key = r.key
            /\ q.count = r.count /\ q.caller = r.caller /\ q.seen = r.seen
<1> DEFINE q == [r EXCEPT !.stage = s]
<1> HIDE DEF Stages, Jsons, Users, Keys
<1>1. /\ r = [stage |-> r.stage, caller |-> r.caller, key |-> r.key, count |-> r.count,
              seen |-> r.seen, json |-> r.json, retried |-> r.retried]
      /\ r.caller \in Users /\ r.key \in Keys /\ r.count \in Nat /\ r.seen \in Nat
      /\ r.json \in Jsons /\ r.retried \in BOOLEAN
  BY DEF CompletionType
<1>2. q = [stage |-> s, caller |-> r.caller, key |-> r.key, count |-> r.count,
           seen |-> r.seen, json |-> r.json, retried |-> r.retried]
  BY <1>1
<1>3. QED
  BY <1>1, <1>2 DEF CompletionType

\* What To leaves and what it sets.
LEMMA ToFacts ==
  ASSUME Typed, NEW c \in Ceremonies, NEW s \in Stages
  PROVE  /\ To(c, s) \in [Ceremonies -> CompletionType]
         /\ \A d \in Ceremonies : d # c => To(c, s)[d] = completions[d]
         /\ To(c, s)[c].stage = s /\ To(c, s)[c].json = completions[c].json
         /\ To(c, s)[c].key = completions[c].key /\ To(c, s)[c].count = completions[c].count
         /\ To(c, s)[c].caller = completions[c].caller /\ To(c, s)[c].seen = completions[c].seen
<1>1. completions \in [Ceremonies -> CompletionType] /\ completions[c] \in CompletionType
  BY DEF Typed
<1> DEFINE q == [completions[c] EXCEPT !.stage = s]
<1>2. To(c, s) = [completions EXCEPT ![c] = q]
  BY DEF To
<1>3. /\ q \in CompletionType /\ q.stage = s /\ q.json = completions[c].json
      /\ q.key = completions[c].key /\ q.count = completions[c].count
      /\ q.caller = completions[c].caller /\ q.seen = completions[c].seen
  BY <1>1, StageSet
<1> HIDE DEF q
<1>4. QED
  BY <1>1, <1>2, <1>3

\* A completion under way is not a closed one.
LEMMA UnderWay ==
  ASSUME NEW c, completions[c].stage \in {"sent", "consumed", "read", "saved"}
  PROVE  completions[c] # Closed
  BY DEF Closed, NoCompletion

\* A ceremony no step has touched keeps what is known of it; counters may move.
LEMMA Frame ==
  ASSUME NEW d \in Ceremonies, PerCeremony(d), ceremonies'[d] = ceremonies[d],
         completions'[d] = completions[d], challenges'[d] = challenges[d],
         sessionsOf'[d] = sessionsOf[d], wallet'[d].owner = wallet[d].owner,
         wallet[d] = NoKey => wallet'[d] = NoKey,
         passkeys[d] = NoKey => passkeys'[d] = NoKey
  PROVE  PerCeremony(d)'
  BY DEF PerCeremony, Untouched, Prompted, Carries, SpentOnce, KeyOfUser, IsRegistration

\* The numbers of ceremonies are numbers of keys.
LEMMA CeremonyIsKey == Ceremonies \subseteq Keys
  BY PasskeysAssumption DEF Ceremonies, Keys

(***************************************************************************)
(* The beginning, and what a step leaves alone.                            *)
(***************************************************************************)
\* Nothing has begun, and key 0 is its owner's.
LEMMA PasskeysInvInit == PasskeysInit => PasskeysInv
<1> SUFFICES ASSUME PasskeysInit PROVE PasskeysInv
  OBVIOUS
<1>1. NoOwner \in Users /\ OldOwner \in Users /\ OldOwner # NoOwner /\ MaxCeremonies \in Nat
  BY PasskeysAssumption DEF Users, NoOwner
<1>2. Unused \in CeremonyType /\ NoCompletion \in CompletionType /\ NoChallenge \in ChallengeType
      /\ NoKey \in KeyType
  BY <1>1, PasskeysAssumption DEF Unused, CeremonyType, AllOptions, Kinds, Phases, NoCompletion, CompletionType, Stages, Keys,
              Jsons, NoChallenge, ChallengeType, NoKey, KeyType
<1>3. wallet \in [Keys -> KeyType] /\ \A k \in Keys : k # 0 => wallet[k] = NoKey
  BY <1>1, <1>2 DEF PasskeysInit, KeyType
<1>4. wallet[0].owner # NoOwner
  BY <1>1, PasskeysAssumption DEF PasskeysInit, Keys
<1>5. Typed
  BY <1>1, <1>2, <1>3 DEF PasskeysInit, Typed, Users
<1>6. Fresh /\ Stored /\ Nobodys
  BY <1>3, <1>4 DEF PasskeysInit, Fresh, Stored, Nobodys, Unused, NoKey
<1>7. ASSUME NEW c \in Ceremonies PROVE PerCeremony(c)
  <2>1. c \in Keys /\ c # 0
    BY CeremonyIsKey DEF Ceremonies
  <2>2. QED
    BY <1>3, <2>1 DEF PasskeysInit, PerCeremony, Untouched, Prompted, Carries, SpentOnce,
         KeyOfUser, Unused, NoChallenge, NoCompletion, NoKey
<1>8. QED
  BY <1>5, <1>6, <1>7 DEF PasskeysInv

\* An abort is only marked.
LEMMA AbortFacts ==
  ASSUME Typed, NEW c
  PROVE  /\ AbortedFor(c) \in [Ceremonies -> CeremonyType]
         /\ \A d \in Ceremonies : /\ AbortedFor(c)[d].phase = ceremonies[d].phase
                                  /\ AbortedFor(c)[d].kind = ceremonies[d].kind
                                  /\ AbortedFor(c)[d].options = ceremonies[d].options
<1>1. ASSUME NEW r \in CeremonyType
      PROVE  LET q == [r EXCEPT !.aborted = TRUE]
             IN q \in CeremonyType /\ q.phase = r.phase /\ q.kind = r.kind /\ q.options = r.options
  BY DEF CeremonyType
<1>2. \A d \in Ceremonies : ceremonies[d] \in CeremonyType
  BY DEF Typed
<1>3. QED
  BY <1>1, <1>2 DEF AbortedFor, Typed

\* A ceremony that was at most aborted.
LEMMA AbortFrame ==
  ASSUME NEW d \in Ceremonies, PerCeremony(d), ceremonies'[d].phase = ceremonies[d].phase,
         ceremonies'[d].kind = ceremonies[d].kind, ceremonies'[d].options = ceremonies[d].options,
         completions'[d] = completions[d], challenges'[d] = challenges[d],
         sessionsOf'[d] = sessionsOf[d], wallet'[d].owner = wallet[d].owner,
         wallet[d] = NoKey => wallet'[d] = NoKey,
         passkeys[d] = NoKey => passkeys'[d] = NoKey
  PROVE  PerCeremony(d)'
  BY DEF PerCeremony, Untouched, Prompted, Carries, SpentOnce, KeyOfUser, IsRegistration

\* A step of ceremony c keeps the invariant where it does for c and leaves the others.
LEMMA StepFrame ==
  ASSUME PasskeysInv, NEW c \in Ceremonies, Typed', Fresh', Stored', Nobodys', PerCeremony(c)',
         \A d \in Ceremonies : d # c =>
           /\ ceremonies'[d].phase = ceremonies[d].phase
           /\ ceremonies'[d].kind = ceremonies[d].kind
           /\ ceremonies'[d].options = ceremonies[d].options
           /\ completions'[d] = completions[d] /\ challenges'[d] = challenges[d]
           /\ sessionsOf'[d] = sessionsOf[d] /\ wallet'[d].owner = wallet[d].owner
           /\ wallet[d] = NoKey => wallet'[d] = NoKey
           /\ passkeys[d] = NoKey => passkeys'[d] = NoKey
  PROVE  PasskeysInv'
<1>1. ASSUME NEW d \in Ceremonies PROVE PerCeremony(d)'
  <2>1. CASE d = c
    BY <2>1
  <2>2. CASE d # c
    BY <2>2, AbortFrame DEF PasskeysInv
  <2>3. QED
    BY <2>1, <2>2
<1>2. QED
  BY <1>1 DEF PasskeysInv

(***************************************************************************)
(* The service.                                                            *)
(***************************************************************************)
\* A ceremony with a completion is past its prompt.
LEMMA LatePhase ==
  ASSUME PasskeysInv, NEW c \in Ceremonies, completions[c].stage # "none",
         ceremonies' = ceremonies
  PROVE  Untouched(c)' /\ Prompted(c)'
<1>1. ceremonies[c].phase \notin {"unused", "asked", "prompt"}
  BY DEF PasskeysInv, PerCeremony, Untouched
<1>2. QED
  BY <1>1 DEF Untouched, Prompted

\* A completion under way keeps what it carries through every stage.
LEMMA CarriesOn ==
  ASSUME PasskeysInv, NEW c \in Ceremonies, completions[c].stage # "none",
         completions[c] # Closed, wallet' = wallet,
         completions'[c].json = completions[c].json,
         completions'[c].key = completions[c].key, completions'[c].count = completions[c].count
  PROVE  Carries(c)' /\ (IsRegistration(completions[c])' <=> IsRegistration(completions[c]))
<1>1. Carries(c)'
  BY DEF PasskeysInv, PerCeremony, Carries
<1>2. QED
  BY <1>1 DEF IsRegistration

\* A refused completion leaves everything else as it is.
LEMMA RefuseStep ==
  ASSUME PasskeysInv, NEW c \in Ceremonies,
         completions[c].stage \in {"sent", "consumed", "read", "saved"},
         Refuse(c), UNCHANGED browser
  PROVE  PasskeysInv'
<1>1. /\ completions' = To(c, "refused") /\ ceremonies' = ceremonies /\ wallet' = wallet
      /\ UNCHANGED <<challenges, passkeys, sessionsOf, signedIn, begunCeremonies>>
  BY DEF Refuse, browser
<1>2. Typed /\ completions[c] # Closed
  BY UnderWay DEF PasskeysInv
<1>3. /\ completions' \in [Ceremonies -> CompletionType]
      /\ \A d \in Ceremonies : d # c => completions'[d] = completions[d]
      /\ completions'[c].stage = "refused" /\ completions'[c].json = completions[c].json
      /\ completions'[c].key = completions[c].key /\ completions'[c].count = completions[c].count
  BY <1>1, <1>2, ToFacts DEF Stages
<1>4. Typed' /\ Fresh' /\ Stored' /\ Nobodys'
  BY <1>1, <1>3 DEF PasskeysInv, Typed, Fresh, Stored, Nobodys
<1>5. Untouched(c)' /\ Prompted(c)' /\ Carries(c)'
  BY <1>1, <1>2, <1>3, LatePhase, CarriesOn
<1>6. SpentOnce(c)' /\ KeyOfUser(c)'
  BY <1>1, <1>3 DEF PasskeysInv, PerCeremony, SpentOnce, KeyOfUser
<1>7. QED
  BY <1>1, <1>3, <1>4, <1>5, <1>6, StepFrame DEF PerCeremony

\* Wherever a completion stops, nothing of it is undone.
LEMMA StopsStep ==
  ASSUME PasskeysInv, NEW c \in Ceremonies, Stops(c)
  PROVE  PasskeysInv'
  BY RefuseStep DEF Stops

\* The service reads from a completion the challenge and the key it was made with.
LEMMA WhatItCarries ==
  ASSUME PasskeysInv, NEW c \in Ceremonies,
         completions[c].stage \in {"sent", "consumed", "read", "saved"}
  PROVE  /\ ExtractChallenge(completions[c]) = c
         /\ RawCredentialId(completions[c]) = completions[c].key
         /\ completions[c].key \in Keys /\ completions[c].count \in Nat
         /\ IsRegistration(completions[c]) => completions[c].key = c /\ wallet[c].owner # NoOwner
<1> DEFINE r == completions[c]
<1>1. r.key \in Keys /\ r.count \in Nat
  BY DEF PasskeysInv, Typed, CompletionType
<1>2. PICK kind \in {"attestation", "assertion"} :
        /\ r.json = JsonOf(kind, c, r.key, r.count)
        /\ kind = "attestation" => r.key = c /\ wallet[c].owner # NoOwner
  BY UnderWay DEF PasskeysInv, PerCeremony, Carries
<1> HIDE DEF r
<1>3. /\ ExtractChallenge(r) = c /\ RawCredentialId(r) = r.key
      /\ IsRegistration(r) <=> kind = "attestation"
  BY <1>1, <1>2, JsonRead
<1>4. QED
  BY <1>1, <1>2, <1>3 DEF r

\* A challenge is spent by its own completion, and for a registration by its own user.
LEMMA ConsumeChallengeStep ==
  ASSUME PasskeysInv, NEW c \in Ceremonies, ConsumeChallenge(c)
  PROVE  PasskeysInv'
<1> DEFINE completion == completions[c]
           registering == IsRegistration(completion)
           Spends == /\ registering => completion.caller # NoOwner
                     /\ Matches(challenges[ExtractChallenge(completion)],
                                IF registering THEN "register" ELSE "authenticate",
                                IF registering THEN completion.caller ELSE NoOwner)
<1>1. completion.stage = "sent" /\ UNCHANGED browser
  BY DEF ConsumeChallenge
<1>2. CASE ~Spends
  <2>1. Refuse(c)
    BY <1>2 DEF ConsumeChallenge
  <2>2. QED
    BY <1>1, <2>1, RefuseStep
<1>3. CASE Spends
  <2>1. /\ challenges' = [challenges EXCEPT ![ExtractChallenge(completion)] = NoChallenge]
        /\ completions' = To(c, "consumed") /\ UNCHANGED <<passkeys, sessionsOf>>
    BY <1>3 DEF ConsumeChallenge
  <2>2. /\ ExtractChallenge(completion) = c
        /\ registering => wallet[c].owner # NoOwner
    BY <1>1, WhatItCarries
  <2>3. Typed /\ completion # Closed /\ NoChallenge \in ChallengeType
    BY <1>1, UnderWay DEF PasskeysInv, NoChallenge, ChallengeType, Kinds, Users
  <2>4. /\ challenges' \in [Ceremonies -> ChallengeType] /\ ~challenges'[c].usable
        /\ \A d \in Ceremonies : d # c => challenges'[d] = challenges[d]
    BY <2>1, <2>2, <2>3 DEF Typed, NoChallenge
  <2>5. /\ completions' \in [Ceremonies -> CompletionType]
        /\ \A d \in Ceremonies : d # c => completions'[d] = completions[d]
        /\ completions'[c].stage = "consumed" /\ completions'[c].json = completion.json
        /\ completions'[c].key = completion.key /\ completions'[c].count = completion.count
        /\ completions'[c].caller = completion.caller
    BY <2>1, <2>3, ToFacts DEF Stages
  <2>6. /\ ceremonies' = ceremonies /\ wallet' = wallet
        /\ UNCHANGED <<signedIn, begunCeremonies, passkeys, sessionsOf>>
    BY <1>1, <2>1 DEF browser
  <2>7. Typed' /\ Fresh' /\ Stored' /\ Nobodys'
    BY <2>4, <2>5, <2>6 DEF PasskeysInv, Typed, Fresh, Stored, Nobodys
  <2>8. Untouched(c)' /\ Prompted(c)'
    BY <1>1, <2>6, LatePhase
  <2>9. Carries(c)' /\ (IsRegistration(completions[c])' <=> registering)
    BY <1>1, <2>3, <2>5, <2>6, CarriesOn
  <2>10. challenges[c].usable /\ sessionsOf[c] = 0
    BY <1>3, <2>2 DEF Matches, PasskeysInv, PerCeremony, SpentOnce
  <2>11. registering => completion.caller = wallet[c].owner
    BY <1>3, <2>2 DEF Matches, PasskeysInv, PerCeremony, KeyOfUser
  <2>12. SpentOnce(c)'
    BY <2>4, <2>6, <2>10 DEF SpentOnce
  <2>13. KeyOfUser(c)'
    BY <2>4, <2>5, <2>6, <2>9, <2>11 DEF KeyOfUser
  <2>14. PerCeremony(c)'
    BY <2>8, <2>9, <2>12, <2>13 DEF PerCeremony
  <2>15. QED
    BY <2>4, <2>5, <2>6, <2>7, <2>14, StepFrame
<1>4. QED
  BY <1>2, <1>3

\* A completion moves on to stage s and its challenge stays as it is.
LEMMA MovesOn ==
  ASSUME PasskeysInv, NEW c \in Ceremonies, NEW s \in Stages \ {"none", "sent", "consumed"},
         completions[c].stage \in {"consumed", "read", "saved"},
         completions' = To(c, s), UNCHANGED <<browser, challenges>>,
         passkeys' \in [Keys -> KeyType], Stored', Nobodys',
         \A d \in Ceremonies : d # c => (passkeys[d] = NoKey => passkeys'[d] = NoKey),
         sessionsOf' \in [Ceremonies -> 0..1],
         \A d \in Ceremonies : d # c => sessionsOf'[d] = sessionsOf[d],
         sessionsOf'[c] # 0 => s = "done"
  PROVE  PasskeysInv'
<1>1. /\ UNCHANGED <<ceremonies, wallet, signedIn, begunCeremonies, challenges>>
      /\ Typed /\ completions[c] # Closed
  BY UnderWay DEF PasskeysInv, browser
<1>2. /\ completions' \in [Ceremonies -> CompletionType]
      /\ \A d \in Ceremonies : d # c => completions'[d] = completions[d]
      /\ completions'[c].stage = s /\ completions'[c].json = completions[c].json
      /\ completions'[c].key = completions[c].key /\ completions'[c].count = completions[c].count
  BY <1>1, ToFacts
<1>3. Typed' /\ Fresh'
  BY <1>1, <1>2 DEF PasskeysInv, Typed, Fresh
<1>4. Untouched(c)' /\ Prompted(c)' /\ Carries(c)'
  BY <1>1, <1>2, LatePhase, CarriesOn
<1>5. SpentOnce(c)' /\ KeyOfUser(c)'
  BY <1>1, <1>2 DEF PasskeysInv, PerCeremony, SpentOnce, KeyOfUser
<1>6. PerCeremony(c)'
  BY <1>4, <1>5 DEF PerCeremony
<1>7. QED
  BY <1>1, <1>2, <1>3, <1>6, StepFrame

\* The passkey stored is the one made in this ceremony, for the challenge's user.
LEMMA StorePasskeyStep ==
  ASSUME PasskeysInv, NEW c \in Ceremonies, StorePasskey(c)
  PROVE  PasskeysInv'
<1> DEFINE completion == completions[c]
           k == RawCredentialId(completion)
<1>1. completion.stage = "consumed" /\ IsRegistration(completion) /\ UNCHANGED browser
  BY DEF StorePasskey
<1>2. k = c /\ c \in Keys /\ completion.count \in Nat /\ wallet[c].owner # NoOwner
  BY <1>1, WhatItCarries, CeremonyIsKey
<1>3. CASE passkeys[k] # NoKey
  <2>1. Refuse(c)
    BY <1>3 DEF StorePasskey
  <2>2. QED
    BY <1>1, <2>1, RefuseStep
<1>4. CASE passkeys[k] = NoKey
  <2> DEFINE new == [owner |-> completion.caller, count |-> completion.count]
  <2>1. PICK stage \in {"done", "refused"} : completions' = To(c, stage)
    BY <1>4 DEF StorePasskey
  <2>2. passkeys' = [passkeys EXCEPT ![c] = new] /\ UNCHANGED <<challenges, sessionsOf>>
    BY <1>2, <1>4 DEF StorePasskey
  <2>3. /\ completion.caller = wallet[c].owner /\ new.owner = completion.caller
        /\ wallet[c].owner \in Users
    BY <1>1, <1>2 DEF PasskeysInv, PerCeremony, KeyOfUser, Typed, KeyType
  <2>4. new \in KeyType
    BY <1>2, <2>3 DEF KeyType
  <2> HIDE DEF new
  <2>5. passkeys \in [Keys -> KeyType] /\ wallet' = wallet
    BY <1>1 DEF PasskeysInv, Typed, browser
  <2>6. /\ passkeys' \in [Keys -> KeyType] /\ passkeys'[c] = new
        /\ \A d \in Keys : d # c => passkeys'[d] = passkeys[d]
    BY <1>2, <2>2, <2>4, <2>5
  <2>7. Stored' /\ Nobodys'
    BY <1>2, <2>3, <2>5, <2>6 DEF PasskeysInv, Stored, Nobodys
  <2>8. stage \in Stages \ {"none", "sent", "consumed"} /\ sessionsOf[c] = 0
    BY <1>1 DEF Stages, PasskeysInv, PerCeremony, SpentOnce
  <2>9. sessionsOf' = sessionsOf /\ sessionsOf \in [Ceremonies -> 0..1]
    BY <2>2 DEF PasskeysInv, Typed
  <2>10. QED
    BY <1>1, <2>1, <2>2, <2>6, <2>7, <2>8, <2>9, CeremonyIsKey, MovesOn
<1>5. QED
  BY <1>3, <1>4

\* The counter is read.
LEMMA ReadPasskeyStep ==
  ASSUME PasskeysInv, NEW c \in Ceremonies, ReadPasskey(c)
  PROVE  PasskeysInv'
<1> DEFINE completion == completions[c]
           k == RawCredentialId(completion)
           q == [completion EXCEPT !.stage = "read", !.seen = passkeys[k].count]
<1>1. completion.stage = "consumed" /\ UNCHANGED browser
  BY DEF ReadPasskey
<1>2. CASE passkeys[k] = NoKey
  <2>1. Refuse(c)
    BY <1>2 DEF ReadPasskey
  <2>2. QED
    BY <1>1, <2>1, RefuseStep
<1>3. CASE passkeys[k] # NoKey
  <2>1. Typed /\ completion # Closed /\ completion \in CompletionType
    BY <1>1, UnderWay DEF PasskeysInv, Typed
  <2>2. completions' = [completions EXCEPT ![c] = q] /\ UNCHANGED <<challenges, passkeys, sessionsOf>>
    BY <1>3, <2>1 DEF ReadPasskey, Typed
  <2>3. k \in Keys /\ passkeys[k].count \in Nat
    BY <1>1, <2>1, WhatItCarries DEF Typed, KeyType
  <2>4. \A r \in CompletionType, n \in Nat :
          LET new == [r EXCEPT !.stage = "read", !.seen = n]
          IN /\ new \in CompletionType /\ new.stage = "read" /\ new.json = r.json
             /\ new.key = r.key /\ new.count = r.count
    BY DEF CompletionType, Stages
  <2>5. /\ q \in CompletionType /\ q.stage = "read" /\ q.json = completion.json
        /\ q.key = completion.key /\ q.count = completion.count
    BY <2>1, <2>3, <2>4
  <2> HIDE DEF q
  <2>6. /\ completions' \in [Ceremonies -> CompletionType] /\ completions'[c] = q
        /\ \A d \in Ceremonies : d # c => completions'[d] = completions[d]
    BY <2>1, <2>2, <2>5 DEF Typed
  <2>7. UNCHANGED <<ceremonies, wallet, signedIn, begunCeremonies, challenges, passkeys, sessionsOf>>
    BY <1>1, <2>2 DEF browser
  <2>8. Typed' /\ Fresh' /\ Stored' /\ Nobodys'
    BY <2>6, <2>7 DEF PasskeysInv, Typed, Fresh, Stored, Nobodys
  <2>9. Untouched(c)' /\ Prompted(c)' /\ Carries(c)'
    BY <1>1, <2>1, <2>5, <2>6, <2>7, LatePhase, CarriesOn
  <2>10. SpentOnce(c)' /\ KeyOfUser(c)'
    BY <1>1, <2>5, <2>6, <2>7 DEF PasskeysInv, PerCeremony, SpentOnce, KeyOfUser
  <2>11. PerCeremony(c)'
    BY <2>9, <2>10 DEF PerCeremony
  <2>12. QED
    BY <2>6, <2>7, <2>8, <2>11, StepFrame
<1>4. QED
  BY <1>2, <1>3

\* The counter is overwritten; the owner stays.
LEMMA SaveCountStep ==
  ASSUME PasskeysInv, NEW c \in Ceremonies, SaveCount(c)
  PROVE  PasskeysInv'
<1> DEFINE completion == completions[c]
           k == completion.key
           new == [passkeys[k] EXCEPT !.count = completion.count]
<1>1. completion.stage = "read" /\ UNCHANGED browser
  BY DEF SaveCount
<1>2. CASE ~(Advances(completion) /\ passkeys[k] # NoKey)
  <2>1. Refuse(c)
    BY <1>2 DEF SaveCount
  <2>2. QED
    BY <1>1, <2>1, RefuseStep
<1>3. CASE Advances(completion) /\ passkeys[k] # NoKey
  <2>1. /\ passkeys \in [Keys -> KeyType] /\ wallet' = wallet
        /\ k \in Keys /\ completion.count \in Nat
    BY <1>1, WhatItCarries DEF PasskeysInv, Typed, browser
  <2>2. /\ passkeys' = [passkeys EXCEPT ![k] = new]
        /\ completions' = To(c, "saved") /\ UNCHANGED <<challenges, sessionsOf>>
    BY <1>3, <2>1 DEF SaveCount
  <2>3. new \in KeyType /\ new.owner = passkeys[k].owner
    BY <2>1 DEF KeyType
  <2>4. passkeys[k].owner # NoOwner
    BY <1>3, <2>1 DEF PasskeysInv, Nobodys
  <2> HIDE DEF new, k
  <2>5. /\ passkeys' \in [Keys -> KeyType] /\ passkeys'[k] = new
        /\ \A d \in Keys : d # k => passkeys'[d] = passkeys[d]
    BY <2>1, <2>2, <2>3
  <2>6. Stored' /\ Nobodys'
    BY <2>1, <2>3, <2>4, <2>5 DEF PasskeysInv, Stored, Nobodys
  <2>7. \A d \in Ceremonies : passkeys[d] = NoKey => passkeys'[d] = NoKey
    BY <1>3, <2>5, CeremonyIsKey DEF k
  <2>8. /\ "saved" \in Stages \ {"none", "sent", "consumed"} /\ sessionsOf[c] = 0
        /\ sessionsOf' = sessionsOf /\ sessionsOf \in [Ceremonies -> 0..1]
    BY <1>1, <2>2 DEF Stages, PasskeysInv, PerCeremony, SpentOnce, Typed
  <2>9. QED
    BY <1>1, <2>2, <2>5, <2>6, <2>7, <2>8, MovesOn
<1>4. QED
  BY <1>2, <1>3

\* The one session of the challenge.
LEMMA OpenSessionStep ==
  ASSUME PasskeysInv, NEW c \in Ceremonies, OpenSession(c)
  PROVE  PasskeysInv'
<1>1. /\ completions[c].stage = "saved" /\ completions' = To(c, "done")
      /\ sessionsOf' = [sessionsOf EXCEPT ![c] = sessionsOf[c] + 1]
      /\ UNCHANGED <<browser, challenges, passkeys, wallet>>
  BY DEF OpenSession, browser
<1>2. sessionsOf[c] = 0 /\ sessionsOf \in [Ceremonies -> 0..1] /\ passkeys \in [Keys -> KeyType]
  BY <1>1 DEF PasskeysInv, PerCeremony, SpentOnce, Typed
<1>3. /\ sessionsOf' \in [Ceremonies -> 0..1]
      /\ \A d \in Ceremonies : d # c => sessionsOf'[d] = sessionsOf[d]
  BY <1>1, <1>2
<1>4. Stored' /\ Nobodys'
  BY <1>1 DEF PasskeysInv, Stored, Nobodys
<1>5. "done" \in Stages \ {"none", "sent", "consumed"}
  BY DEF Stages
<1>6. QED
  BY <1>1, <1>2, <1>3, <1>4, <1>5, MovesOn

\* A passkey of the user signed in goes.
LEMMA RemovePasskeyStep ==
  ASSUME PasskeysInv, NEW k \in Keys, RemovePasskey(k)
  PROVE  PasskeysInv'
<1>1. /\ passkeys' = [passkeys EXCEPT ![k] = NoKey]
      /\ UNCHANGED <<ceremonies, begunCeremonies, signedIn, wallet, completions, challenges, sessionsOf>>
  BY DEF RemovePasskey, browser
<1>2. NoKey \in KeyType /\ passkeys \in [Keys -> KeyType]
  BY DEF NoKey, KeyType, Users, PasskeysInv, Typed
<1>3. /\ passkeys' \in [Keys -> KeyType] /\ passkeys'[k] = NoKey
      /\ \A d \in Keys : d # k => passkeys'[d] = passkeys[d]
  BY <1>1, <1>2
<1>4. NoKey.owner = NoOwner
  BY DEF NoKey
<1>5. Typed' /\ Fresh' /\ Stored' /\ Nobodys'
  BY <1>1, <1>3, <1>4 DEF PasskeysInv, Typed, Fresh, Stored, Nobodys
<1>6. ASSUME NEW c \in Ceremonies PROVE PerCeremony(c)'
  <2>1. passkeys[c] = NoKey => passkeys'[c] = NoKey
    BY <1>3, CeremonyIsKey
  <2>2. QED
    BY <1>1, <2>1, Frame DEF PasskeysInv
<1>7. QED
  BY <1>5, <1>6 DEF PasskeysInv

\* The same completion is sent once more.
LEMMA RetryStep ==
  ASSUME PasskeysInv, NEW c \in Ceremonies, Retry(c)
  PROVE  PasskeysInv'
<1> DEFINE caller == IF byCookie THEN signedIn ELSE completions[c].caller
           q == [completions[c] EXCEPT !.stage = "sent", !.seen = 0, !.retried = TRUE,
                                       !.caller = caller]
<1>1. /\ completions[c].stage \in {"done", "refused"} /\ completions[c] # Closed
      /\ completions' = [completions EXCEPT ![c] = q]
      /\ UNCHANGED <<ceremonies, wallet, signedIn, begunCeremonies, challenges, passkeys, sessionsOf>>
  BY DEF Retry, browser
<1>2. /\ completions \in [Ceremonies -> CompletionType] /\ completions[c] \in CompletionType
      /\ signedIn \in Users /\ completions[c].caller \in Users
  BY DEF PasskeysInv, Typed, CompletionType
<1>3. \A r \in CompletionType, u \in Users :
        LET new == [r EXCEPT !.stage = "sent", !.seen = 0, !.retried = TRUE, !.caller = u]
        IN /\ new \in CompletionType /\ new.stage = "sent" /\ new.json = r.json
           /\ new.key = r.key /\ new.count = r.count
  BY DEF CompletionType, Stages
<1>3a. caller \in Users
  BY <1>2
<1> HIDE DEF caller
<1>4. /\ q \in CompletionType /\ q.stage = "sent" /\ q.json = completions[c].json
      /\ q.key = completions[c].key /\ q.count = completions[c].count
  BY <1>2, <1>3, <1>3a
<1> HIDE DEF q
<1>5. /\ completions' \in [Ceremonies -> CompletionType] /\ completions'[c] = q
      /\ \A d \in Ceremonies : d # c => completions'[d] = completions[d]
  BY <1>1, <1>2, <1>4
<1>6. Typed' /\ Fresh' /\ Stored' /\ Nobodys'
  BY <1>1, <1>5 DEF PasskeysInv, Typed, Fresh, Stored, Nobodys
<1>7. Untouched(c)' /\ Prompted(c)' /\ Carries(c)'
  BY <1>1, <1>4, <1>5, LatePhase, CarriesOn
<1>8. SpentOnce(c)' /\ KeyOfUser(c)'
  BY <1>1, <1>4, <1>5 DEF PasskeysInv, PerCeremony, SpentOnce, KeyOfUser
<1>9. PerCeremony(c)'
  BY <1>7, <1>8 DEF PerCeremony
<1>10. QED
  BY <1>1, <1>5, <1>6, <1>9, StepFrame

(***************************************************************************)
(* The page.                                                               *)
(***************************************************************************)
\* A caller is a user or nobody.
LEMMA CallerIsUser ==
  ASSUME PasskeysInv, NEW c \in Ceremonies
  PROVE  CallerOf(c) \in Users
  BY DEF PasskeysInv, Typed, CeremonyType, CallerOf

\* A fresh ceremony begins; the one with the controller is aborted.
LEMMA RunPasskeyStep ==
  ASSUME PasskeysInv, runPasskey
  PROVE  PasskeysInv'
<1>1. Typed /\ begunCeremonies < MaxCeremonies /\ begunCeremonies \in Nat /\ signedIn \in Users
  BY PasskeysAssumption DEF PasskeysInv, Typed, runPasskey
<1>2. PICK c \in Ceremonies : c = begunCeremonies + 1
  BY <1>1, PasskeysAssumption DEF Ceremonies
<1>3. PICK kind \in Kinds :
        ceremonies' = [AbortedFor(c) EXCEPT ![c] =
          [Unused EXCEPT !.kind = kind, !.phase = "asked", !.caller = signedIn]]
  BY <1>2 DEF runPasskey
<1> DEFINE new == [Unused EXCEPT !.kind = kind, !.phase = "asked", !.caller = signedIn]
<1>4. /\ begunCeremonies' = c
      /\ UNCHANGED <<signedIn, wallet, completions, challenges, passkeys, sessionsOf>>
  BY <1>2 DEF runPasskey, service
<1>5. Unused \in CeremonyType
  BY DEF CeremonyType, Unused, Phases, AllOptions, Kinds, Users
<1>6. \A r \in CeremonyType, u \in Users :
        LET q == [r EXCEPT !.kind = kind, !.phase = "asked", !.caller = u]
        IN q \in CeremonyType /\ q.phase = "asked"
  BY DEF CeremonyType, Phases
<1>7. new \in CeremonyType /\ new.phase = "asked"
  BY <1>1, <1>5, <1>6
<1> HIDE DEF new
<1>8. /\ AbortedFor(c) \in [Ceremonies -> CeremonyType]
      /\ \A d \in Ceremonies : /\ AbortedFor(c)[d].phase = ceremonies[d].phase
                               /\ AbortedFor(c)[d].kind = ceremonies[d].kind
                               /\ AbortedFor(c)[d].options = ceremonies[d].options
  BY <1>1, AbortFacts
<1>9. /\ ceremonies' \in [Ceremonies -> CeremonyType] /\ ceremonies'[c] = new
      /\ \A d \in Ceremonies : d # c => ceremonies'[d] = AbortedFor(c)[d]
  BY <1>3, <1>7, <1>8 DEF new
<1>10. c \in 0..MaxCeremonies
  BY PasskeysAssumption DEF Ceremonies
<1>11. Typed' /\ Stored' /\ Nobodys'
  BY <1>1, <1>4, <1>9, <1>10 DEF PasskeysInv, Typed, Stored, Nobodys
<1>12. Fresh'
  <2> SUFFICES ASSUME NEW d \in Ceremonies, d > c PROVE ceremonies'[d].phase = "unused"
    BY <1>4 DEF Fresh
  <2>1. d # c /\ d > begunCeremonies
    BY <1>1, <1>2 DEF Ceremonies
  <2>2. QED
    BY <1>8, <1>9, <2>1 DEF PasskeysInv, Fresh
<1>13. ceremonies[c].phase = "unused" /\ PerCeremony(c)
  BY <1>1, <1>2 DEF PasskeysInv, Fresh
<1>14. PerCeremony(c)'
  BY <1>4, <1>7, <1>9, <1>13 DEF PerCeremony, Untouched, Prompted, Carries, SpentOnce, KeyOfUser,
       IsRegistration
<1>15. QED
  BY <1>4, <1>8, <1>9, <1>11, <1>12, <1>14, StepFrame

\* The options are made with their challenge.
LEMMA ServeOptionsStep ==
  ASSUME PasskeysInv, NEW c \in Ceremonies, ServeOptions(c)
  PROVE  PasskeysInv'
<1> DEFINE user == IF ceremonies[c].kind = "register" THEN CallerOf(c) ELSE NoOwner
           new == [ceremonies[c] EXCEPT !.phase = "prompt", !.options = OptionsFor(c, user)]
           token == [kind |-> ceremonies[c].kind, user |-> user, usable |-> TRUE]
<1>1. /\ ceremonies[c].phase = "asked"
      /\ ceremonies[c].kind = "register" => user # NoOwner
      /\ challenges' = [challenges EXCEPT ![c] = token]
      /\ UNCHANGED <<signedIn, begunCeremonies, wallet, completions, passkeys, sessionsOf>>
  BY DEF ServeOptions
<1>2. /\ ceremonies \in [Ceremonies -> CeremonyType] /\ ceremonies[c] \in CeremonyType
      /\ challenges \in [Ceremonies -> ChallengeType]
  BY DEF PasskeysInv, Typed
<1>3. ceremonies' = [ceremonies EXCEPT ![c] = new]
  BY <1>2 DEF ServeOptions
<1>4. user \in Users
  BY CallerIsUser DEF Users
<1> HIDE DEF user
<1>5. OptionsFor(c, user) \in AllOptions
  BY <1>4 DEF AllOptions
<1>6. \A r \in CeremonyType, o \in AllOptions :
        LET q == [r EXCEPT !.phase = "prompt", !.options = o]
        IN q \in CeremonyType /\ q.phase = "prompt" /\ q.options = o /\ q.kind = r.kind
  BY DEF CeremonyType, Phases
<1>7. /\ new \in CeremonyType /\ new.phase = "prompt" /\ new.options = OptionsFor(c, user)
      /\ new.kind = ceremonies[c].kind
  BY <1>2, <1>5, <1>6
<1>8. /\ token \in ChallengeType /\ token.kind = ceremonies[c].kind /\ token.user = user
      /\ token.usable
  BY <1>2, <1>4 DEF ChallengeType, CeremonyType
<1> HIDE DEF new, token
<1>9. /\ ceremonies' \in [Ceremonies -> CeremonyType] /\ ceremonies'[c] = new
      /\ \A d \in Ceremonies : d # c => ceremonies'[d] = ceremonies[d]
  BY <1>2, <1>3, <1>7
<1>10. /\ challenges' \in [Ceremonies -> ChallengeType] /\ challenges'[c] = token
       /\ \A d \in Ceremonies : d # c => challenges'[d] = challenges[d]
  BY <1>1, <1>2, <1>8
<1>11. Typed' /\ Stored' /\ Nobodys'
  BY <1>1, <1>9, <1>10 DEF PasskeysInv, Typed, Stored, Nobodys
<1>12. Fresh'
  BY <1>1, <1>9 DEF PasskeysInv, Fresh
<1>13. /\ wallet[c] = NoKey /\ passkeys[c] = NoKey /\ completions[c].stage = "none"
       /\ sessionsOf[c] = 0 /\ NoKey.owner = NoOwner
  BY <1>1 DEF PasskeysInv, PerCeremony, Untouched, NoKey
<1>14. PerCeremony(c)'
  BY <1>1, <1>4, <1>7, <1>8, <1>9, <1>10, <1>13
     DEF PerCeremony, Untouched, Prompted, Carries, SpentOnce, KeyOfUser
<1>15. QED
  BY <1>1, <1>9, <1>10, <1>11, <1>12, <1>14, StepFrame

\* A ceremony that is over has neither prompt nor key to come.
LEMMA OverIsKnown ==
  ASSUME PasskeysInv, NEW c \in Ceremonies,
         ceremonies' = [ceremonies EXCEPT ![c] = [Unused EXCEPT !.phase = "done"]]
  PROVE  /\ ceremonies' \in [Ceremonies -> CeremonyType]
         /\ \A d \in Ceremonies : d # c => ceremonies'[d] = ceremonies[d]
         /\ Untouched(c)' /\ Prompted(c)'
<1> DEFINE over == [Unused EXCEPT !.phase = "done"]
<1>1. over \in CeremonyType /\ over.phase = "done"
  BY Blank DEF CeremonyType, Phases
<1> HIDE DEF over
<1>2. /\ ceremonies' \in [Ceremonies -> CeremonyType] /\ ceremonies'[c] = over
      /\ \A d \in Ceremonies : d # c => ceremonies'[d] = ceremonies[d]
  BY <1>1 DEF PasskeysInv, Typed, over
<1>3. QED
  BY <1>1, <1>2 DEF Untouched, Prompted

\* passkey_failed.
LEMMA CeremonyFailsStep ==
  ASSUME PasskeysInv, NEW c \in Ceremonies, CeremonyFails(c)
  PROVE  PasskeysInv'
<1>1. /\ ceremonies' = [ceremonies EXCEPT ![c] = [Unused EXCEPT !.phase = "done"]]
      /\ ceremonies[c].phase # "unused"
      /\ UNCHANGED <<signedIn, begunCeremonies, wallet, completions, challenges, passkeys,
                     sessionsOf>>
  BY DEF CeremonyFails, service
<1>2. /\ ceremonies' \in [Ceremonies -> CeremonyType]
      /\ \A d \in Ceremonies : d # c => ceremonies'[d] = ceremonies[d]
      /\ Untouched(c)' /\ Prompted(c)'
  BY <1>1, OverIsKnown
<1>3. Typed' /\ Stored' /\ Nobodys' /\ Fresh'
  BY <1>1, <1>2 DEF PasskeysInv, Typed, Stored, Nobodys, Fresh
<1>4. Carries(c)' /\ SpentOnce(c)' /\ KeyOfUser(c)'
  BY <1>1 DEF PasskeysInv, PerCeremony, Carries, SpentOnce, KeyOfUser, IsRegistration
<1>5. PerCeremony(c)'
  BY <1>2, <1>4 DEF PerCeremony
<1>6. QED
  BY <1>1, <1>2, <1>3, <1>5, StepFrame

\* An answer, or its absence, leaves the service alone.
LEMMA CeremonyEndsStep ==
  ASSUME PasskeysInv, NEW c \in Ceremonies, CeremonyEnds(c)
  PROVE  PasskeysInv'
<1>1. /\ ceremonies' = [ceremonies EXCEPT ![c] = [Unused EXCEPT !.phase = "done"]]
      /\ ceremonies[c].phase = "completing"
      /\ UNCHANGED <<begunCeremonies, wallet, challenges, passkeys, sessionsOf>>
      /\ \/ signedIn' \in {signedIn, wallet[completions[c].key].owner}
             /\ completions' = [completions EXCEPT ![c] = Closed]
         \/ UNCHANGED <<signedIn, completions>>
  BY DEF CeremonyEnds
<1>2. /\ ceremonies' \in [Ceremonies -> CeremonyType]
      /\ \A d \in Ceremonies : d # c => ceremonies'[d] = ceremonies[d]
      /\ Untouched(c)' /\ Prompted(c)'
  BY <1>1, OverIsKnown
<1>3. /\ Closed \in CompletionType /\ Closed.stage = "done"
      /\ completions \in [Ceremonies -> CompletionType]
  BY Blank, StageSet DEF Closed, Stages, PasskeysInv, Typed
<1>4. signedIn' \in Users
  BY <1>1 DEF PasskeysInv, Typed, CompletionType, KeyType
<1>5. /\ completions' \in [Ceremonies -> CompletionType]
      /\ \A d \in Ceremonies : d # c => completions'[d] = completions[d]
      /\ completions'[c] \in {completions[c], Closed}
  BY <1>1, <1>3
<1>6. Typed' /\ Stored' /\ Nobodys' /\ Fresh'
  BY <1>1, <1>2, <1>4, <1>5 DEF PasskeysInv, Typed, Stored, Nobodys, Fresh
<1>7. Carries(c)' /\ SpentOnce(c)' /\ KeyOfUser(c)'
  <2>1. CASE completions'[c] = Closed
    BY <1>1, <1>3, <2>1 DEF PasskeysInv, PerCeremony, Carries, SpentOnce, KeyOfUser
  <2>2. CASE completions'[c] = completions[c]
    BY <1>1, <2>2 DEF PasskeysInv, PerCeremony, Carries, SpentOnce, KeyOfUser, IsRegistration
  <2>3. QED
    BY <1>5, <2>1, <2>2
<1>8. PerCeremony(c)'
  BY <1>2, <1>7 DEF PerCeremony
<1>9. QED
  BY <1>1, <1>2, <1>5, <1>6, <1>8, StepFrame

\* Signing in or out touches no ceremony.
LEMMA SignInStep ==
  ASSUME PasskeysInv, SignIn
  PROVE  PasskeysInv'
<1>1. /\ signedIn' \in Users
      /\ UNCHANGED <<ceremonies, begunCeremonies, wallet, completions, challenges, passkeys,
                     sessionsOf>>
  BY DEF SignIn, service, Users
<1>2. Typed' /\ Stored' /\ Nobodys' /\ Fresh'
  BY <1>1 DEF PasskeysInv, Typed, Stored, Nobodys, Fresh
<1>3. ASSUME NEW d \in Ceremonies PROVE PerCeremony(d)'
  BY <1>1, Frame DEF PasskeysInv
<1>4. QED
  BY <1>2, <1>3 DEF PasskeysInv

\* What is sent when the authenticator has answered the prompt of ceremony c.
LEMMA SignedFacts ==
  ASSUME PasskeysInv, NEW c \in Ceremonies, NEW kind \in {"attestation", "assertion"},
         NEW k \in Keys, NEW n \in Nat, Signed(c, kind, k, n, Bytes(<<c>>))
  PROVE  /\ ceremonies' \in [Ceremonies -> CeremonyType] /\ ceremonies'[c].phase = "completing"
         /\ \A d \in Ceremonies : d # c =>
              /\ ceremonies'[d].phase = ceremonies[d].phase
              /\ ceremonies'[d].kind = ceremonies[d].kind
              /\ ceremonies'[d].options = ceremonies[d].options
              /\ completions'[d] = completions[d]
         /\ completions' \in [Ceremonies -> CompletionType]
         /\ completions'[c].stage = "sent" /\ completions'[c].key = k
         /\ completions'[c].count = n /\ completions'[c].json = JsonOf(kind, c, k, n)
<1> DEFINE json == JsonOf(kind, c, k, n)
           caller == CallerOf(c)
           q == [NoCompletion EXCEPT !.stage = "sent", !.caller = caller, !.key = k,
                                     !.count = n, !.json = json]
           new == [AbortedFor(c)[c] EXCEPT !.phase = "completing", !.options = << >>]
<1>1. /\ AbortedFor(c) \in [Ceremonies -> CeremonyType]
      /\ \A d \in Ceremonies : /\ AbortedFor(c)[d].phase = ceremonies[d].phase
                               /\ AbortedFor(c)[d].kind = ceremonies[d].kind
                               /\ AbortedFor(c)[d].options = ceremonies[d].options
  BY AbortFacts DEF PasskeysInv
<1>2. /\ ceremonies' = [AbortedFor(c) EXCEPT ![c] = new]
      /\ completions' = [completions EXCEPT ![c] = q]
  BY <1>1 DEF Signed, JsonOf
<1>3. json \in Jsons /\ caller \in Users
  BY CallerIsUser DEF Jsons
<1> HIDE DEF json, caller
<1>4. /\ q \in CompletionType /\ q.stage = "sent" /\ q.key = k /\ q.count = n /\ q.json = json
  BY <1>3 DEF NoCompletion, CompletionType, Stages
<1>5. \A r \in CeremonyType :
        LET s == [r EXCEPT !.phase = "completing", !.options = << >>]
        IN s \in CeremonyType /\ s.phase = "completing"
  BY Empty DEF CeremonyType, Phases
<1>6. new \in CeremonyType /\ new.phase = "completing"
  BY <1>1, <1>5
<1> HIDE DEF q, new
<1>7. /\ ceremonies' \in [Ceremonies -> CeremonyType] /\ ceremonies'[c] = new
      /\ \A d \in Ceremonies : d # c => ceremonies'[d] = AbortedFor(c)[d]
  BY <1>1, <1>2, <1>6
<1>8. /\ completions' \in [Ceremonies -> CompletionType] /\ completions'[c] = q
      /\ \A d \in Ceremonies : d # c => completions'[d] = completions[d]
  BY <1>2, <1>4 DEF PasskeysInv, Typed
<1>9. QED
  BY <1>1, <1>4, <1>6, <1>7, <1>8 DEF json

\* The key made is of the user the challenge was stored for.
LEMMA CreatePasskeyStep ==
  ASSUME PasskeysInv, NEW c \in Ceremonies, createPasskey(c)
  PROVE  PasskeysInv'
<1> DEFINE count == IF counts THEN 1 ELSE 0
<1>1. ceremonies[c].phase = "prompt" /\ ceremonies[c].kind = "register"
  BY DEF createPasskey
<1>2. PICK u \in Users :
        /\ ceremonies[c].options = OptionsFor(c, u) /\ challenges[c].user = u
        /\ challenges[c].kind = "register" /\ u # NoOwner /\ sessionsOf[c] = 0
  BY <1>1 DEF PasskeysInv, PerCeremony, Prompted
<1>3. /\ decodeCreationOptions(ceremonies[c].options).challenge = Bytes(<<c>>)
      /\ decodeCreationOptions(ceremonies[c].options).user.of[1] = u
  BY <1>2, OptionsRead
<1>4. PICK n \in Nat : n = count
  OBVIOUS
<1> DEFINE new == [owner |-> u, count |-> n]
<1>5. wallet' = [wallet EXCEPT ![c] = new] /\ Signed(c, "attestation", c, n, Bytes(<<c>>))
  BY <1>3, <1>4 DEF createPasskey, Signed
<1>6. /\ UNCHANGED <<signedIn, begunCeremonies, challenges, passkeys, sessionsOf>>
      /\ c \in Keys
  BY <1>5, CeremonyIsKey DEF Signed
<1>7. new \in KeyType /\ new.owner = u
  BY DEF KeyType
<1> HIDE DEF new, count
<1>8. /\ wallet' \in [Keys -> KeyType] /\ wallet'[c] = new
      /\ \A d \in Keys : d # c => wallet'[d] = wallet[d]
  BY <1>5, <1>6, <1>7 DEF PasskeysInv, Typed
<1>9. /\ ceremonies' \in [Ceremonies -> CeremonyType] /\ ceremonies'[c].phase = "completing"
      /\ \A d \in Ceremonies : d # c =>
           /\ ceremonies'[d].phase = ceremonies[d].phase
           /\ ceremonies'[d].kind = ceremonies[d].kind
           /\ ceremonies'[d].options = ceremonies[d].options
           /\ completions'[d] = completions[d]
      /\ completions' \in [Ceremonies -> CompletionType]
      /\ completions'[c].stage = "sent" /\ completions'[c].key = c
      /\ completions'[c].count = n /\ completions'[c].json = JsonOf("attestation", c, c, n)
  BY <1>5, <1>6, SignedFacts
<1>10. passkeys[c] = NoKey /\ wallet[c] = NoKey /\ NoKey.owner = NoOwner
  BY <1>1 DEF PasskeysInv, PerCeremony, Untouched, NoKey
<1>11. Typed'
  BY <1>6, <1>8, <1>9 DEF PasskeysInv, Typed
<1>12. Stored' /\ Nobodys'
  BY <1>2, <1>6, <1>7, <1>8, <1>10 DEF PasskeysInv, Stored, Nobodys
<1>13. Fresh'
  BY <1>1, <1>6, <1>9 DEF PasskeysInv, Fresh
<1>14. Untouched(c)' /\ Prompted(c)' /\ SpentOnce(c)' /\ KeyOfUser(c)'
  BY <1>2, <1>6, <1>7, <1>8, <1>9 DEF Untouched, Prompted, SpentOnce, KeyOfUser
<1>15. Carries(c)'
  BY <1>2, <1>7, <1>8, <1>9 DEF Carries
<1>16. PerCeremony(c)'
  BY <1>14, <1>15 DEF PerCeremony
<1>17. QED
  BY <1>6, <1>8, <1>9, <1>10, <1>11, <1>12, <1>13, <1>16, CeremonyIsKey, StepFrame

\* A key that signs only counts.
LEMMA GetPasskeyStep ==
  ASSUME PasskeysInv, NEW c \in Ceremonies, getPasskey(c)
  PROVE  PasskeysInv'
<1>1. ceremonies[c].phase = "prompt" /\ ceremonies[c].kind = "authenticate"
  BY DEF getPasskey
<1>2. PICK u \in Users :
        /\ ceremonies[c].options = OptionsFor(c, u)
        /\ challenges[c].kind = "authenticate" /\ sessionsOf[c] = 0
  BY <1>1 DEF PasskeysInv, PerCeremony, Prompted
<1>3. decodeRequestOptions(ceremonies[c].options).challenge = Bytes(<<c>>)
  BY <1>2, OptionsRead
<1>4. PICK k \in Keys :
        /\ wallet[k] # NoKey
        /\ wallet' = IF counts THEN [wallet EXCEPT ![k].count = wallet[k].count + 1] ELSE wallet
        /\ Signed(c, "assertion", k, wallet'[k].count, Bytes(<<c>>))
  BY <1>3 DEF getPasskey
<1>5. wallet \in [Keys -> KeyType] /\ wallet[k] \in KeyType /\ wallet[k].count + 1 \in Nat
  BY DEF PasskeysInv, Typed, KeyType
<1> DEFINE new == [wallet[k] EXCEPT !.count = wallet[k].count + 1]
<1>6. \A r \in KeyType, m \in Nat :
        LET q == [r EXCEPT !.count = m] IN q \in KeyType /\ q.owner = r.owner
  BY DEF KeyType
<1>7. new \in KeyType /\ new.owner = wallet[k].owner
  BY <1>5, <1>6
<1>8. wallet' = IF counts THEN [wallet EXCEPT ![k] = new] ELSE wallet
  BY <1>4, <1>5
<1> HIDE DEF new
<1>9. /\ wallet' \in [Keys -> KeyType]
      /\ \A d \in Keys : wallet'[d].owner = wallet[d].owner /\ (d # k => wallet'[d] = wallet[d])
  BY <1>5, <1>7, <1>8
<1>10. PICK n \in Nat : n = wallet'[k].count
  BY <1>9 DEF KeyType
<1>11. Signed(c, "assertion", k, n, Bytes(<<c>>))
  BY <1>4, <1>10 DEF Signed
<1>12. UNCHANGED <<signedIn, begunCeremonies, challenges, passkeys, sessionsOf>>
  BY <1>11 DEF Signed
<1>13. /\ ceremonies' \in [Ceremonies -> CeremonyType] /\ ceremonies'[c].phase = "completing"
       /\ \A d \in Ceremonies : d # c =>
            /\ ceremonies'[d].phase = ceremonies[d].phase
            /\ ceremonies'[d].kind = ceremonies[d].kind
            /\ ceremonies'[d].options = ceremonies[d].options
            /\ completions'[d] = completions[d]
       /\ completions' \in [Ceremonies -> CompletionType]
       /\ completions'[c].stage = "sent" /\ completions'[c].key = k
       /\ completions'[c].count = n /\ completions'[c].json = JsonOf("assertion", c, k, n)
  BY <1>11, SignedFacts
<1>14. Typed'
  BY <1>9, <1>12, <1>13 DEF PasskeysInv, Typed
<1>15. wallet[k].owner # NoOwner
  BY <1>4 DEF PasskeysInv, Nobodys
<1>16. Stored' /\ Nobodys'
  BY <1>9, <1>12, <1>15 DEF PasskeysInv, Stored, Nobodys
<1>17. Fresh'
  BY <1>1, <1>12, <1>13 DEF PasskeysInv, Fresh
<1>18. Untouched(c)' /\ Prompted(c)' /\ SpentOnce(c)' /\ KeyOfUser(c)'
  BY <1>2, <1>12, <1>13 DEF Untouched, Prompted, SpentOnce, KeyOfUser
<1>19. Carries(c)'
  BY <1>13 DEF Carries
<1>20. PerCeremony(c)'
  BY <1>18, <1>19 DEF PerCeremony
<1>21. \A d \in Ceremonies : wallet'[d].owner = wallet[d].owner /\ (wallet[d] = NoKey => wallet'[d] = NoKey)
  BY <1>4, <1>9, CeremonyIsKey
<1>22. QED
  BY <1>12, <1>13, <1>14, <1>16, <1>17, <1>20, <1>21, StepFrame

(***************************************************************************)
(* The theorems.                                                           *)
(***************************************************************************)
\* Every step keeps the invariant.
LEMMA PasskeysInvNext == PasskeysInv /\ [PasskeysNext]_passkeyVars => PasskeysInv'
<1> SUFFICES ASSUME PasskeysInv, [PasskeysNext]_passkeyVars PROVE PasskeysInv'
  OBVIOUS
<1>1. CASE runPasskey
  BY <1>1, RunPasskeyStep
<1>2. CASE SignIn
  BY <1>2, SignInStep
<1>3. ASSUME NEW c \in Ceremonies,
             \/ ServeOptions(c) \/ CeremonyFails(c) \/ createPasskey(c) \/ getPasskey(c)
             \/ CeremonyEnds(c) \/ Retry(c)
             \/ ConsumeChallenge(c) \/ StorePasskey(c) \/ ReadPasskey(c)
             \/ SaveCount(c) \/ OpenSession(c) \/ Stops(c)
      PROVE  PasskeysInv'
  BY <1>3, ServeOptionsStep, CeremonyFailsStep, CreatePasskeyStep, GetPasskeyStep,
     CeremonyEndsStep, RetryStep, ConsumeChallengeStep, StorePasskeyStep, ReadPasskeyStep,
     SaveCountStep, OpenSessionStep, StopsStep
<1>4. ASSUME NEW k \in Keys, RemovePasskey(k) PROVE PasskeysInv'
  BY <1>4, RemovePasskeyStep
<1>5. CASE UNCHANGED passkeyVars
  <2>1. UNCHANGED <<ceremonies, begunCeremonies, signedIn, wallet, completions, challenges,
                    passkeys, sessionsOf>>
    BY <1>5 DEF passkeyVars
  <2>2. Typed' /\ Stored' /\ Nobodys' /\ Fresh'
    BY <2>1 DEF PasskeysInv, Typed, Stored, Nobodys, Fresh
  <2>3. ASSUME NEW d \in Ceremonies PROVE PerCeremony(d)'
    BY <2>1, Frame DEF PasskeysInv
  <2>4. QED
    BY <2>2, <2>3 DEF PasskeysInv
<1>6. QED
  BY <1>1, <1>2, <1>3, <1>4, <1>5 DEF PasskeysNext

\* The challenge of a ceremony reaches its own completion only, and is spent by it, for
\* any number of ceremonies, users and retries.
THEOREM PasskeysAlways == PasskeysSpec => []PasskeysInv
<1>1. PasskeysInit => PasskeysInv
  BY PasskeysInvInit
<1>2. PasskeysInv /\ [PasskeysNext]_passkeyVars => PasskeysInv'
  BY PasskeysInvNext
<1>3. QED
  BY <1>1, <1>2, PTL DEF PasskeysSpec

\* PasskeyService.CompleteAuthenticationAsync: a challenge opens one session, also when
\* its completion is sent once more after the first copy has stopped.
THEOREM OneSessionAlways == PasskeysSpec => []ChallengeOpensOneSession
<1>1. PasskeysInv => ChallengeOpensOneSession
  BY DEF PasskeysInv, Typed, ChallengeOpensOneSession
<1>2. QED
  BY <1>1, PasskeysAlways, PTL

\* PasskeyService.CompleteRegistrationAsync: a passkey is stored for the user its
\* authenticator made it for.
THEOREM KeepsItsUserAlways == PasskeysSpec => []PasskeyKeepsItsUser
<1>1. PasskeysInv => PasskeyKeepsItsUser
  BY DEF PasskeysInv, Stored, Nobodys, PasskeyKeepsItsUser
<1>2. QED
  BY <1>1, PasskeysAlways, PTL

\* A step in which the counter of key k goes back.
GoesBack(k) ==
  /\ passkeys[k] # NoKey /\ passkeys'[k] # NoKey
  /\ passkeys'[k].count < passkeys[k].count

\* A completion that saves over a count it did not read.
SavesOver(k) ==
  \E c \in Ceremonies :
    /\ completions[c].stage = "read" /\ completions'[c].stage = "saved"
    /\ completions[c].key = k /\ completions[c].seen # passkeys[k].count

\* What saving a count does to the other keys and to its own.
LEMMA SaveCountFacts ==
  ASSUME PasskeysInv, NEW c \in Ceremonies, SaveCount(c), NEW k \in Keys,
         passkeys'[k] # passkeys[k]
  PROVE  /\ completions[c].stage = "read" /\ completions'[c].stage = "saved"
         /\ completions[c].key = k /\ Advances(completions[c])
         /\ passkeys'[k].count = completions[c].count
<1>1. /\ passkeys \in [Keys -> KeyType] /\ completions[c] \in CompletionType
      /\ completions \in [Ceremonies -> CompletionType]
  BY DEF PasskeysInv, Typed
<1>2. completions[c].stage = "read" /\ completions[c].key \in Keys
  BY <1>1 DEF SaveCount, CompletionType
<1>3. Advances(completions[c]) /\ passkeys[completions[c].key] # NoKey
  BY DEF SaveCount, Refuse
<1>4. /\ passkeys' = [passkeys EXCEPT ![completions[c].key].count = completions[c].count]
      /\ completions' = To(c, "saved")
  BY <1>3 DEF SaveCount
<1>5. completions'[c].stage = "saved"
  BY <1>1, <1>4 DEF To, CompletionType
<1>6. completions[c].key = k
  BY <1>1, <1>2, <1>4
<1>7. passkeys'[k].count = completions[c].count
  BY <1>1, <1>4, <1>6 DEF KeyType
<1>8. QED
  BY <1>2, <1>3, <1>5, <1>6, <1>7

\* Nothing but saving a count changes a passkey that is stored and stays stored.
LEMMA OnlySavesChange ==
  ASSUME PasskeysInv, [PasskeysNext]_passkeyVars, NEW k \in Keys,
         passkeys[k] # NoKey, passkeys'[k] # NoKey, passkeys'[k] # passkeys[k]
  PROVE  \E c \in Ceremonies : SaveCount(c)
<1>1. passkeys \in [Keys -> KeyType]
  BY DEF PasskeysInv, Typed
<1>2. PasskeysNext
  BY DEF passkeyVars
<1>3. ASSUME NEW c \in Ceremonies, StorePasskey(c) PROVE FALSE
  <2>1. CASE passkeys[RawCredentialId(completions[c])] = NoKey
    BY <1>1, <1>3, <2>1 DEF StorePasskey
  <2>2. CASE passkeys[RawCredentialId(completions[c])] # NoKey
    BY <1>3, <2>2 DEF StorePasskey, Refuse
  <2>3. QED
    BY <2>1, <2>2
<1>4. ASSUME NEW l \in Keys, RemovePasskey(l) PROVE FALSE
  BY <1>1, <1>4 DEF RemovePasskey
<1>5. ~runPasskey /\ ~SignIn
  <2>1. runPasskey \/ SignIn => UNCHANGED service
    BY Zenon DEF runPasskey, SignIn
  <2>2. QED
    BY <2>1 DEF service
<1>6. ASSUME NEW c \in Ceremonies
      PROVE  /\ ~ServeOptions(c) /\ ~CeremonyFails(c) /\ ~createPasskey(c) /\ ~getPasskey(c)
             /\ ~CeremonyEnds(c) /\ ~Retry(c) /\ ~OpenSession(c) /\ ~Stops(c)
  <2>1. CeremonyFails(c) => UNCHANGED passkeys
    BY DEF CeremonyFails, service
  <2>2. ServeOptions(c) \/ CeremonyEnds(c) => UNCHANGED passkeys
    BY Zenon DEF ServeOptions, CeremonyEnds
  <2>3. createPasskey(c) => UNCHANGED passkeys
    BY Zenon DEF createPasskey, Signed
  <2>4. getPasskey(c) => UNCHANGED passkeys
    BY Zenon DEF getPasskey, Signed
  <2>5. Retry(c) \/ OpenSession(c) \/ Stops(c) => UNCHANGED passkeys
    BY Zenon DEF Retry, OpenSession, Stops, Refuse
  <2>6. QED
    BY <2>1, <2>2, <2>3, <2>4, <2>5
<1>7. ASSUME NEW c \in Ceremonies PROVE ~ConsumeChallenge(c) /\ ~ReadPasskey(c)
  BY DEF ConsumeChallenge, ReadPasskey, Refuse
<1>8. QED
  BY <1>2, <1>3, <1>4, <1>5, <1>6, <1>7 DEF PasskeysNext

\* PasskeyService.CompleteAuthenticationAsync compares with the count it read: a stored
\* counter goes back only where another completion saved between the reading and the
\* saving.
THEOREM CounterAlwaysBackByRace == PasskeysSpec => CounterBackOnlyByRace
<1>1. ASSUME PasskeysInv, [PasskeysNext]_passkeyVars, NEW k \in Keys, GoesBack(k)
      PROVE  SavesOver(k)
  <2>1. PICK c \in Ceremonies : SaveCount(c)
    BY <1>1, OnlySavesChange DEF GoesBack, PasskeysInv, Typed, KeyType
  <2>2. /\ completions[c].stage = "read" /\ completions'[c].stage = "saved"
        /\ completions[c].key = k /\ Advances(completions[c])
        /\ passkeys'[k].count = completions[c].count
    BY <1>1, <2>1, SaveCountFacts DEF GoesBack, PasskeysInv, Typed, KeyType
  <2>3. passkeys[k].count \in Nat /\ completions[c].count \in Nat /\ completions[c].seen \in Nat
    BY <1>1 DEF PasskeysInv, Typed, KeyType, CompletionType
  <2>4. completions[c].seen # passkeys[k].count
    BY <1>1, <2>2, <2>3 DEF GoesBack, Advances
  <2>5. QED
    BY <2>2, <2>4 DEF SavesOver
<1>2. PasskeysInv /\ [PasskeysNext]_passkeyVars =>
        [\A k \in Keys :
          (passkeys[k] # NoKey /\ passkeys'[k] # NoKey /\ passkeys'[k].count < passkeys[k].count) =>
            \E c \in Ceremonies :
              /\ completions[c].stage = "read" /\ completions'[c].stage = "saved"
              /\ completions[c].key = k /\ completions[c].seen # passkeys[k].count]_passkeyVars
  BY <1>1 DEF GoesBack, SavesOver
<1>3. QED
  BY PasskeysAlways, <1>2, PTL DEF PasskeysSpec, CounterBackOnlyByRace
====
