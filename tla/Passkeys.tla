---- MODULE Passkeys ----
(***************************************************************************)
(* The WebAuthn ceremonies, from the guided action of the endpoint panel   *)
(* (endpoint-guided-action.tsx, browser-effects.ts) through the browser's  *)
(* authenticator to PasskeyService.                                        *)
(*                                                                         *)
(* A ceremony is a request for options, a prompt and a completing request; *)
(* beginning a request aborts the one of another ceremony.  The service    *)
(* runs the statements of a completion one at a time, and stops at any of  *)
(* them when the request is aborted.  Challenges and passkeys bear the     *)
(* number of the ceremony they were made for; key 0 is an old passkey.     *)
(***************************************************************************)
EXTENDS BrowserCodecs

CONSTANTS
  MaxCeremonies,  \* bound: ceremonies begun
  Owners,         \* the users
  OldOwner,       \* the one of the old passkey
  CookieMode,     \* whether the mode may be cookie, or another
  Counts          \* whether authenticators may count signatures, or not

NoOwner == 0
ASSUME PasskeysAssumption ==
  /\ MaxCeremonies \in 0..255 /\ Owners \subseteq 1..255 /\ OldOwner \in Owners
  /\ CookieMode \subseteq BOOLEAN /\ Counts \subseteq BOOLEAN

\* Challenges, users and keys are one byte here; TLC evaluates this for each of them.
ASSUME OneByteRoundTrip == \A b \in 0..255 : base64UrlToBytes(bytesToBase64Url(<<b>>)) = <<b>>

VARIABLES
  byCookie, counts,     \* the page's mode; the authenticator's kind
  signedIn,             \* the user of the vault or of the cookies
  ceremonies, begunCeremonies, inUse,  \* the ceremonies, how many, the one with the controller
  wallet,               \* the authenticator: the user handle and counter of its keys
  completions,          \* the completing requests at the service
  challenges,           \* VerificationTokens of the two passkey types
  passkeys,             \* PasskeyCredentials
  sessionsOf            \* history: sessions opened by a ceremony's completions

passkeyVars == <<byCookie, counts, signedIn, ceremonies, begunCeremonies, inUse, wallet,
                 completions, challenges, passkeys, sessionsOf>>
service == <<completions, challenges, passkeys, sessionsOf>>
browser == <<signedIn, ceremonies, begunCeremonies, inUse, wallet>>
fixed == <<byCookie, counts>>

Ceremonies == 1..MaxCeremonies
Keys == 0..MaxCeremonies
Kinds == {"register", "authenticate"}

Unused == [kind |-> "register", phase |-> "unused", aborted |-> FALSE, caller |-> NoOwner,
           options |-> << >>]
NoKey == [owner |-> NoOwner, count |-> 0]
NoCompletion == [stage |-> "none", caller |-> NoOwner, key |-> 0, count |-> 0, seen |-> 0,
                 json |-> << >>, retried |-> FALSE]
Closed == [NoCompletion EXCEPT !.stage = "done"]
NoChallenge == [kind |-> "register", user |-> NoOwner, usable |-> FALSE]

(***************************************************************************)
(* The page.                                                               *)
(***************************************************************************)
\* runRequest keeps the vault of the render the ceremony began in; cookies are
\* those of the moment.
CallerOf(c) == IF byCookie THEN signedIn ELSE ceremonies[c].caller

\* Beginning a request aborts the one whose controller is in use.
AbortedFor(c) ==
  [d \in Ceremonies |-> IF d # c /\ d = inUse
     THEN [ceremonies[d] EXCEPT !.aborted = TRUE] ELSE ceremonies[d]]

runPasskey ==
  LET c == begunCeremonies + 1
  IN /\ begunCeremonies < MaxCeremonies
     /\ \E kind \in Kinds :
          ceremonies' = [AbortedFor(c) EXCEPT ![c] =
            [Unused EXCEPT !.kind = kind, !.phase = "asked", !.caller = signedIn]]
     /\ begunCeremonies' = c
     /\ inUse' = c
     /\ UNCHANGED <<fixed, signedIn, wallet, service>>

\* RegistrationOptions wants a caller; the challenge is stored for it, or for nobody.
Challenge(c) == Text(bytesToBase64Url(<<c>>))
OptionsFor(c, user) ==
  [challenge |-> Challenge(c), user |-> Text(bytesToBase64Url(<<user>>)),
   excludeCredentials |-> << >>, allowCredentials |-> << >>]
ServeOptions(c) ==
  LET registering == ceremonies[c].kind = "register"
      user == IF registering THEN CallerOf(c) ELSE NoOwner
  IN /\ ceremonies[c].phase = "asked" /\ ~ceremonies[c].aborted
     /\ registering => user # NoOwner
     /\ challenges' = [challenges EXCEPT ![c] =
          [kind |-> ceremonies[c].kind, user |-> user, usable |-> TRUE]]
     /\ ceremonies' = [ceremonies EXCEPT ![c].phase = "prompt", ![c].options = OptionsFor(c, user)]
     /\ inUse' = IF inUse = c THEN 0 ELSE inUse
     /\ UNCHANGED <<fixed, signedIn, begunCeremonies, wallet, completions, passkeys, sessionsOf>>

\* No options (refused, failed or aborted), or no credential: passkey_failed.
CeremonyFails(c) ==
  /\ ceremonies[c].phase \in {"asked", "prompt"}
  /\ ceremonies' = [ceremonies EXCEPT ![c] = [Unused EXCEPT !.phase = "done"]]
  /\ inUse' = IF inUse = c THEN 0 ELSE inUse
  /\ UNCHANGED <<fixed, signedIn, begunCeremonies, wallet, service>>

\* What the completing request carries: the credential as JSON, here with the key and
\* the signature count that the authenticator data hold.
Signed(c, kind, key, count, challenge) ==
  /\ completions' = [completions EXCEPT ![c] =
       [NoCompletion EXCEPT !.stage = "sent", !.caller = CallerOf(c), !.key = key,
          !.count = count, !.json = credentialToJson(
            [kind |-> kind, rawId |-> Bytes(<<key>>), clientDataJSON |-> challenge,
             answer |-> Bytes(<<key, count>>)])]]
  /\ ceremonies' = [AbortedFor(c) EXCEPT ![c].phase = "completing", ![c].options = << >>]
  /\ inUse' = c
  /\ UNCHANGED <<fixed, signedIn, begunCeremonies, challenges, passkeys, sessionsOf>>

\* The authenticator makes a key for the user of the options, with its count.
createPasskey(c) ==
  LET options == decodeCreationOptions(ceremonies[c].options)
      count == IF counts THEN 1 ELSE 0
  IN /\ ceremonies[c].phase = "prompt" /\ ceremonies[c].kind = "register"
     /\ wallet' = [wallet EXCEPT ![c] = [owner |-> options.user.of[1], count |-> count]]
     /\ Signed(c, "attestation", c, count, options.challenge)

\* The authenticator signs with one of its keys, and counts.
getPasskey(c) ==
  LET options == decodeRequestOptions(ceremonies[c].options)
  IN /\ ceremonies[c].phase = "prompt" /\ ceremonies[c].kind = "authenticate"
     /\ \E k \in Keys :
          /\ wallet[k] # NoKey
          /\ wallet' = IF counts THEN [wallet EXCEPT ![k].count = wallet[k].count + 1] ELSE wallet
          /\ Signed(c, "assertion", k, wallet'[k].count, options.challenge)

\* The completing request settles with its answer, or, aborted or failed, without:
\* the service may be anywhere in it.  A login moves the page to its user.
CeremonyEnds(c) ==
  LET completion == completions[c]
  IN /\ ceremonies[c].phase = "completing"
     /\ ceremonies' = [ceremonies EXCEPT ![c] = [Unused EXCEPT !.phase = "done"]]
     /\ inUse' = IF inUse = c THEN 0 ELSE inUse
     /\ \/ /\ completion.stage \in {"done", "refused"} /\ ~ceremonies[c].aborted
           /\ signedIn' = IF completion.stage = "done" /\ ceremonies[c].kind = "authenticate"
                          THEN wallet[completion.key].owner ELSE signedIn
           /\ completions' = [completions EXCEPT ![c] = Closed]
        \/ UNCHANGED <<signedIn, completions>>
     /\ UNCHANGED <<fixed, begunCeremonies, wallet, challenges, passkeys, sessionsOf>>

\* The page or another tab of it signs in as a user, or out.
SignIn ==
  /\ signedIn' \in Owners \union {NoOwner}
  /\ UNCHANGED <<fixed, ceremonies, begunCeremonies, inUse, wallet, service>>

(***************************************************************************)
(* The service: the completion of ceremony c.                              *)
(***************************************************************************)
\* A client that got no answer sends the same completion once more, when the first
\* copy has ended at the service.  Copies that overlap there are not modelled: the
\* one UPDATE of PasskeyService.cs:299-307 lets a single one of them pass.
Retry(c) ==
  /\ ceremonies[c].phase = "done"
  /\ completions[c].stage \in {"done", "refused"} /\ completions[c] # Closed
  /\ ~completions[c].retried
  /\ completions' = [completions EXCEPT ![c] = [completions[c] EXCEPT !.stage = "sent",
       !.seen = 0, !.retried = TRUE,
       !.caller = IF byCookie THEN signedIn ELSE completions[c].caller]]
  /\ UNCHANGED <<fixed, browser, challenges, passkeys, sessionsOf>>

To(c, stage) == [completions EXCEPT ![c].stage = stage]
Refuse(c) == completions' = To(c, "refused") /\ UNCHANGED <<challenges, passkeys, sessionsOf>>
IsRegistration(completion) == "attestationObject" \in DOMAIN completion.json.response

ExtractChallenge(completion) == base64UrlToBytes(completion.json.response.clientDataJSON.of)[1]
RawCredentialId(completion) == base64UrlToBytes(completion.json.rawId.of)[1]

\* Variant: the challenge is looked up by its value alone.
MatchesByHash(token, kind, user) == token.usable

\* The WHERE of the update that spends a challenge.
Matches(token, kind, user) == token.usable /\ token.kind = kind /\ token.user = user

\* Variant: the challenge stays as it is.
ConsumeChallengeKeeps(c) ==
  LET completion == completions[c]
      registering == IsRegistration(completion)
      challenge == ExtractChallenge(completion)
  IN /\ completion.stage = "sent"
     /\ IF /\ registering => completion.caller # NoOwner
           /\ Matches(challenges[challenge], IF registering THEN "register" ELSE "authenticate",
                      IF registering THEN completion.caller ELSE NoOwner)
        THEN /\ completions' = To(c, "consumed")
             /\ UNCHANGED <<challenges, passkeys, sessionsOf>>
        ELSE Refuse(c)
     /\ UNCHANGED <<fixed, browser>>

ConsumeChallenge(c) ==
  LET completion == completions[c]
      registering == IsRegistration(completion)
      challenge == ExtractChallenge(completion)
  IN /\ completion.stage = "sent"
     /\ IF /\ registering => completion.caller # NoOwner
           /\ Matches(challenges[challenge], IF registering THEN "register" ELSE "authenticate",
                      IF registering THEN completion.caller ELSE NoOwner)
        THEN /\ challenges' = [challenges EXCEPT ![challenge] = NoChallenge]
             /\ completions' = To(c, "consumed")
             /\ UNCHANGED <<passkeys, sessionsOf>>
        ELSE Refuse(c)
     /\ UNCHANGED <<fixed, browser>>

\* Verified, inserted under its unique id; the notification that follows may fail the
\* request and leave the passkey behind.
StorePasskey(c) ==
  LET completion == completions[c]
      k == RawCredentialId(completion)
  IN /\ completion.stage = "consumed" /\ IsRegistration(completion)
     /\ IF passkeys[k] = NoKey
        THEN /\ passkeys' = [passkeys EXCEPT ![k] =
                  [owner |-> completion.caller, count |-> completion.count]]
             /\ \E stage \in {"done", "refused"} : completions' = To(c, stage)
             /\ UNCHANGED <<challenges, sessionsOf>>
        ELSE Refuse(c)
     /\ UNCHANGED <<fixed, browser>>

ReadPasskey(c) ==
  LET completion == completions[c]
      k == RawCredentialId(completion)
  IN /\ completion.stage = "consumed" /\ ~IsRegistration(completion)
     /\ IF passkeys[k] # NoKey
        THEN /\ completions' = [completions EXCEPT ![c].stage = "read",
                                                    ![c].seen = passkeys[k].count]
             /\ UNCHANGED <<challenges, passkeys, sessionsOf>>
        ELSE Refuse(c)
     /\ UNCHANGED <<fixed, browser>>

\* Variant: the counter is not compared.
AdvancesAnyway(completion) == TRUE

Advances(completion) == completion.seen = 0 \/ completion.count > completion.seen

\* The counter read before is compared and overwritten; a row removed meanwhile fails
\* the save.
SaveCount(c) ==
  LET completion == completions[c]
  IN /\ completion.stage = "read"
     /\ IF Advances(completion) /\ passkeys[completion.key] # NoKey
        THEN /\ passkeys' = [passkeys EXCEPT ![completion.key].count = completion.count]
             /\ completions' = To(c, "saved")
             /\ UNCHANGED <<challenges, sessionsOf>>
        ELSE Refuse(c)
     /\ UNCHANGED <<fixed, browser>>

OpenSession(c) ==
  /\ completions[c].stage = "saved"
  /\ sessionsOf' = [sessionsOf EXCEPT ![c] = sessionsOf[c] + 1]
  /\ completions' = To(c, "done")
  /\ UNCHANGED <<fixed, browser, challenges, passkeys>>

\* The challenge has expired, verification fails, or a statement does, or the request
\* is cancelled: what was done stays done.
Stops(c) ==
  /\ completions[c].stage \in {"sent", "consumed", "read", "saved"}
  /\ Refuse(c)
  /\ UNCHANGED <<fixed, browser>>

RemovePasskey(k) ==
  /\ passkeys[k] # NoKey /\ signedIn = passkeys[k].owner
  /\ passkeys' = [passkeys EXCEPT ![k] = NoKey]
  /\ UNCHANGED <<fixed, browser, completions, challenges, sessionsOf>>

(***************************************************************************)
(* The specification.                                                      *)
(***************************************************************************)
PasskeysInit ==
  /\ byCookie \in CookieMode /\ counts \in Counts
  /\ signedIn \in Owners \union {NoOwner}
  /\ ceremonies = [c \in Ceremonies |-> Unused] /\ begunCeremonies = 0 /\ inUse = 0
  /\ wallet = [k \in Keys |-> IF k # 0 THEN NoKey
                               ELSE [owner |-> OldOwner, count |-> IF counts THEN 1 ELSE 0]]
  /\ passkeys = wallet
  /\ completions = [c \in Ceremonies |-> NoCompletion]
  /\ challenges = [c \in Ceremonies |-> NoChallenge]
  /\ sessionsOf = [c \in Ceremonies |-> 0]

PasskeysNext ==
  \/ runPasskey \/ SignIn
  \/ \E c \in Ceremonies :
       \/ ServeOptions(c) \/ CeremonyFails(c) \/ createPasskey(c) \/ getPasskey(c)
       \/ CeremonyEnds(c) \/ Retry(c)
       \/ ConsumeChallenge(c) \/ StorePasskey(c) \/ ReadPasskey(c)
       \/ SaveCount(c) \/ OpenSession(c) \/ Stops(c)
  \/ \E k \in Keys : RemovePasskey(k)

PasskeysSpec == PasskeysInit /\ [][PasskeysNext]_passkeyVars

(***************************************************************************)
(* Properties.                                                             *)
(***************************************************************************)
\* PasskeyCeremonyIntegrationTests.cs:55-83: one challenge opens one session, also
\* when its completion is sent once more after the first copy has stopped, wherever
\* that was.
ChallengeOpensOneSession ==
  \A c \in Ceremonies : sessionsOf[c] <= 1

\* A stored passkey belongs to the user whose handle the authenticator keeps with it,
\* whoever signs in through the cookies between the options and the completion.
PasskeyKeepsItsUser ==
  \A k \in Keys : passkeys[k] # NoKey => passkeys[k].owner = wallet[k].owner

\* PasskeyCeremonyIntegrationTests.cs:85-93, "clonedCounter": the stored counter of a
\* passkey goes back only where two completions overlapped, the later to save having
\* read the counter before the other's save.
CounterBackOnlyByRace ==
  [][\A k \in Keys :
       (passkeys[k] # NoKey /\ passkeys'[k] # NoKey /\ passkeys'[k].count < passkeys[k].count) =>
         \E c \in Ceremonies :
           /\ completions[c].stage = "read" /\ completions'[c].stage = "saved"
           /\ completions[c].key = k /\ completions[c].seen # passkeys[k].count]_passkeyVars
====
